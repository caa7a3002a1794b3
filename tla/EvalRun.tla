------------------------------- MODULE EvalRun -------------------------------
(***************************************************************************)
(* eval.py, one call of eval(): scenes times epochs, each trial between    *)
(* the embodiment's evaluation interface (health, prepare_trial, home,     *)
(* park), the policy's trial hooks, grading, scoring and the sinks.  One   *)
(* thread, but every one of these calls may raise, and which exception     *)
(* wins, what is parked and whether a log is written depends on the order  *)
(* they are caught in.  rollout() is the call Rollout models, known here   *)
(* by how it ends.                                                         *)
(***************************************************************************)
EXTENDS Integers, Sequences, FiniteSets, Outcomes

CONSTANTS
    Scenes,          \* number of scenes of the task
    Epochs,          \* epoch_spec.count
    Rubrics,         \* the rubrics every scene is scored by
    FailOnErrors,    \* the values of fail_on_error to consider
    OwnsEmbodiment   \* was the embodiment given by its registry name

\* fail_on_error: False, True, a share num/den of the planned trials, a count.
Thresholds == [kind : {"never", "first", "share", "count"}, num : Nat, den : Nat \ {0}]

ASSUME EvalRunAssumption ==
    /\ Scenes \in Nat \ {0} /\ Epochs \in Nat \ {0}
    /\ IsFiniteSet(Rubrics)
    /\ FailOnErrors \subseteq Thresholds
    /\ OwnsEmbodiment \in BOOLEAN

VARIABLES
    pc,           \* the next call
    failOn,       \* fail_on_error
    scene, epoch, \* the loop's position, from 1
    record,       \* how the trial in hand ended, "none" when it left no record
    startFailed,  \* policy_start_failed
    status,       \* the run's status
    sceneStatus,  \* scene_status
    errorCount,   \* error_count: failures of the policy
    errored,      \* errored_trials
    total,        \* total_trials
    ungraded,     \* ungraded_trials
    halted,       \* halted: a halt inside a trial, or a failed park
    stopped,      \* stopped: leave the loops after this scene
    haltExc,      \* halt_exc: the hook halt to re-raise once the log is written
    cancelled,    \* cancelled_exc is not None
    epochDicts,   \* the scene's epoch_dicts: was the trial scored
    recordIds,    \* the scene's record_ids (and the lists filled beside it)
    scores,       \* per_scorer_scores of the scene: how many each rubric has
    samples,      \* scene_results
    log,          \* the status of the log the sinks accepted, or "none"
    escape,       \* the exception on its way out of eval(), or "none"
    \* what the world outside saw, for the properties
    moved,        \* has the platform moved since park() was last called
    rollouts,     \* number of rollouts started
    halts,        \* who has raised a SafetyAbort or EmbodimentFault
    trouble,      \* has a hook, scorer, reducer or platform call failed
    interrupted,  \* Ctrl-C outside a rollout
    closeRaised   \* close() raised

counters == <<errorCount, errored, total, ungraded>>
flow == <<halted, stopped, haltExc, cancelled>>
lists == <<epochDicts, recordIds, scores>>
position == <<scene, epoch>>
results == <<samples, log>>
ghosts == <<rollouts, halts, trouble, interrupted, closeRaised>>
vars == <<pc, failOn, position, record, startFailed, status, sceneStatus, counters, flow,
          lists, results, escape, moved, ghosts>>

NoScores == [r \in Rubrics |-> 0]
HaltSources == {"setup", "trial", "hook", "observe", "grading", "sink"}

Init ==
    /\ pc = "setup" /\ failOn \in FailOnErrors
    /\ scene = 1 /\ epoch = 1 /\ record = "none" /\ startFailed = FALSE
    /\ status = "success" /\ sceneStatus = "success"
    /\ errorCount = 0 /\ errored = 0 /\ total = 0 /\ ungraded = 0
    /\ halted = FALSE /\ stopped = FALSE /\ haltExc = "none" /\ cancelled = FALSE
    /\ epochDicts = <<>> /\ recordIds = <<>> /\ scores = NoScores
    /\ samples = <<>> /\ log = "none" /\ escape = "none"
    /\ moved = FALSE /\ rollouts = 0 /\ halts = {} /\ trouble = FALSE
    /\ interrupted = FALSE /\ closeRaised = FALSE

----------------------------------------------------------------------------
\* Exceptions and parking.

HaltOf(exc) == IF exc \in Halts THEN exc ELSE "none"
FirstHalt(a, b) == IF a # "none" THEN a ELSE b
Raised(source, exc) == halts' = IF exc \in Halts THEN halts \cup {source} ELSE halts

Escape(exc) == escape' = exc /\ pc' = "close"

\* _park: how park() ends.
ParkResults == {"ok"} \cup Raisable

\* _park_before_escape: a park that faults outranks what is escaping.
ParkThenEscape(exc, source) ==
    \E p \in ParkResults :
        /\ moved' = FALSE
        /\ halts' = halts \cup (IF p \in Halts THEN {"hook"} ELSE {})
                          \cup (IF exc \in Halts THEN {source} ELSE {})
        /\ Escape(IF p \in Halts THEN p ELSE exc)

----------------------------------------------------------------------------
\* Before a trial.

\* The bind hooks, the compatibility check, the scorers, the reducer and the
\* guard: any of them may refuse the run, before anything moves.
Setup ==
    /\ pc = "setup"
    /\ \/ pc' = "eval_start" /\ UNCHANGED <<escape, halts>>
       \/ \E exc \in Raisable : Escape(exc) /\ Raised("setup", exc)
    /\ UNCHANGED <<failOn, position, record, startFailed, status, sceneStatus, counters,
                   flow, lists, results, moved, rollouts, trouble, interrupted, closeRaised>>

EvalStart ==
    /\ pc = "eval_start"
    /\ \/ pc' = "before" /\ UNCHANGED <<escape, halts>>
       \/ \E exc \in Raisable : Escape(exc) /\ Raised("sink", exc)
    /\ UNCHANGED <<failOn, position, record, startFailed, status, sceneStatus, counters,
                   flow, lists, results, moved, rollouts, trouble, interrupted, closeRaised>>

\* _before_trial said yes; home() may have moved the platform.
Ready ==
    /\ pc = "before"
    /\ moved' \in {moved, TRUE}
    /\ record' = "none" /\ startFailed' = FALSE
    /\ pc' = "trial_start"
    /\ UNCHANGED <<failOn, position, status, sceneStatus, counters, flow, lists, results,
                   escape, ghosts>>

\* The run stops with no trial recorded.
Refuse(halt) ==
    /\ haltExc' = FirstHalt(haltExc, halt)
    /\ status' = "error" /\ sceneStatus' = "error" /\ stopped' = TRUE /\ trouble' = TRUE
    /\ pc' = "scene_end"
    /\ UNCHANGED <<failOn, position, record, startFailed, counters, halted, cancelled,
                   lists, results, escape, rollouts, interrupted, closeRaised>>

\* health() or prepare_trial() reported a problem or raised.
NotReady ==
    /\ pc = "before"
    /\ \E exc \in Raisable : Raised("hook", exc) /\ Refuse(HaltOf(exc))
    /\ UNCHANGED moved

\* home() raised, and is parked like any trial that ran.
HomeFails ==
    /\ pc = "before"
    /\ \E exc \in Raisable, p \in ParkResults :
         /\ halts' = IF {exc, p} \cap Halts # {} THEN halts \cup {"hook"} ELSE halts
         /\ Refuse(FirstHalt(HaltOf(exc), HaltOf(p)))
    /\ moved' = FALSE

SinkTrialStart ==
    /\ pc = "trial_start"
    /\ \/ pc' = "policy_start" /\ UNCHANGED <<escape, halts, moved>>
       \/ \E exc \in Raisable : ParkThenEscape(exc, "sink")
    /\ UNCHANGED <<failOn, position, record, startFailed, status, sceneStatus, counters,
                   flow, lists, results, rollouts, trouble, interrupted, closeRaised>>

PolicyStart ==
    /\ pc = "policy_start"
    /\ \/ pc' = "rollout" /\ UNCHANGED <<startFailed, errorCount, sceneStatus, record>>
       \/ /\ startFailed' = TRUE /\ errorCount' = errorCount + 1
          /\ sceneStatus' = "error" /\ record' = "error"
          /\ pc' = "account"
    /\ UNCHANGED <<failOn, position, status, errored, total, ungraded, flow, lists, results,
                   escape, moved, ghosts>>

----------------------------------------------------------------------------
\* The rollout, by how it ends.

InRollout ==
    /\ pc = "rollout"
    /\ rollouts' = rollouts + 1 /\ moved' = TRUE
    /\ UNCHANGED <<failOn, position, startFailed, errored, total, ungraded, lists, results,
                   interrupted, closeRaised>>

TrialReturns ==
    /\ InRollout
    /\ record' = "success" /\ pc' = "account"
    /\ UNCHANGED <<status, sceneStatus, errorCount, flow, escape, halts, trouble>>

TrialCancelled ==
    /\ InRollout
    /\ record' = "cancelled" /\ pc' = "account"
    /\ status' = "cancelled" /\ sceneStatus' = "cancelled"
    /\ halted' = TRUE /\ cancelled' = TRUE /\ trouble' = TRUE
    /\ UNCHANGED <<errorCount, stopped, haltExc, escape, halts>>

\* Wrong on purpose: only a fault that left a record halts the run (breaks
\* NoTrialAfterHalt).
TrialHaltsWithRecordOnly ==
    /\ InRollout
    /\ \E attached \in BOOLEAN :
         /\ record' = (IF attached THEN "error" ELSE "none")
         /\ pc' = (IF attached THEN "account" ELSE "park")
         /\ halted' = attached
    /\ status' = "error" /\ sceneStatus' = "error"
    /\ trouble' = TRUE /\ halts' = halts \cup {"trial"}
    /\ UNCHANGED <<errorCount, stopped, haltExc, cancelled, escape>>

\* EmbodimentFault or SafetyAbort; a halt a sink raised in the trial carries no
\* record, so the trial is not accounted.
TrialHalts ==
    /\ InRollout
    /\ \E attached \in BOOLEAN :
         /\ record' = (IF attached THEN "error" ELSE "none")
         /\ pc' = (IF attached THEN "account" ELSE "park")
    /\ status' = "error" /\ sceneStatus' = "error"
    /\ halted' = TRUE /\ trouble' = TRUE /\ halts' = halts \cup {"trial"}
    /\ UNCHANGED <<errorCount, stopped, haltExc, cancelled, escape>>

\* Wrong on purpose: the failure is counted twice (breaks TypeOK).
TrialPolicyErrorTwice ==
    /\ InRollout
    /\ record' = "error" /\ pc' = "account"
    /\ errorCount' = errorCount + 2 /\ sceneStatus' = "error"
    /\ UNCHANGED <<status, flow, escape, halts, trouble>>

TrialPolicyError ==
    /\ InRollout
    /\ record' = "error" /\ pc' = "account"
    /\ errorCount' = errorCount + 1 /\ sceneStatus' = "error"
    /\ UNCHANGED <<status, flow, escape, halts, trouble>>

\* A frame store or critical sink failing, a configuration error: parked first.
TrialRaises ==
    /\ pc = "rollout" /\ rollouts' = rollouts + 1
    /\ \E exc \in {"ConfigError", "Generic"} : ParkThenEscape(exc, "trial")
    /\ UNCHANGED <<failOn, position, record, startFailed, status, sceneStatus, counters,
                   flow, lists, results, trouble, interrupted, closeRaised>>

----------------------------------------------------------------------------
\* What is done with a record.

\* The totals, and the lists a trial that is not scored fills at once.
Account ==
    /\ pc = "account"
    /\ total' = total + 1
    /\ IF record = "success"
         THEN pc' = "observe" /\ UNCHANGED <<errored, epochDicts>>
         ELSE /\ pc' = "policy_end"
              /\ errored' = IF record = "error" THEN errored + 1 ELSE errored
              /\ epochDicts' = Append(epochDicts, FALSE)
    /\ UNCHANGED <<failOn, position, record, startFailed, status, sceneStatus, errorCount,
                   ungraded, flow, recordIds, scores, results, escape, moved, ghosts>>

\* observe_parked(), for the grader's benefit: it may move the robot; failures
\* other than halts only cost the grader its picture.
Observe ==
    /\ pc = "observe"
    /\ \/ pc' = "grade" /\ moved' \in {moved, TRUE} /\ UNCHANGED <<escape, halts>>
       \/ \E exc \in Halts : ParkThenEscape(exc, "observe")
    /\ UNCHANGED <<failOn, position, record, startFailed, status, sceneStatus, counters, flow,
                   lists, results, rollouts, trouble, interrupted, closeRaised>>

\* before_scoring(): the grader's verdict, its failure to give one, or an exception.
Grade ==
    /\ pc = "grade"
    /\ \/ pc' = "score" /\ ungraded' \in {ungraded, ungraded + 1}
          /\ UNCHANGED <<escape, halts, moved>>
       \/ /\ \E exc \in Raisable : ParkThenEscape(exc, "grading")
          /\ UNCHANGED ungraded
    /\ UNCHANGED <<failOn, position, record, startFailed, status, sceneStatus, errorCount,
                   errored, total, flow, lists, results, rollouts, trouble, interrupted,
                   closeRaised>>

\* The status after a failure that is contained: the first error is kept.
Contain == /\ sceneStatus' = "error"
           /\ status' = IF status = "success" THEN "error" ELSE status
           /\ trouble' = TRUE

\* Wrong on purpose: only the scene is marked (breaks VerdictIsEarned).
ScoreMarksSceneOnly ==
    /\ pc = "score"
    /\ \E failed \in SUBSET Rubrics :
         /\ scores' = [r \in Rubrics |-> IF r \in failed THEN scores[r] ELSE scores[r] + 1]
         /\ IF failed = {} THEN UNCHANGED <<sceneStatus, status, trouble>>
            ELSE sceneStatus' = "error" /\ trouble' = TRUE /\ UNCHANGED status
    /\ epochDicts' = Append(epochDicts, TRUE)
    /\ pc' = "policy_end"
    /\ UNCHANGED <<failOn, position, record, startFailed, counters, flow, recordIds, results,
                   escape, moved, rollouts, halts, interrupted, closeRaised>>

\* Each scorer gives a score, or fails and is left out.
Score ==
    /\ pc = "score"
    /\ \E failed \in SUBSET Rubrics :
         /\ scores' = [r \in Rubrics |-> IF r \in failed THEN scores[r] ELSE scores[r] + 1]
         /\ IF failed = {} THEN UNCHANGED <<sceneStatus, status, trouble>> ELSE Contain
    /\ epochDicts' = Append(epochDicts, TRUE)
    /\ pc' = "policy_end"
    /\ UNCHANGED <<failOn, position, record, startFailed, counters, flow, recordIds, results,
                   escape, moved, rollouts, halts, interrupted, closeRaised>>

ScoreHalts ==
    /\ pc = "score" /\ Rubrics # {}
    /\ \E exc \in Halts : ParkThenEscape(exc, "grading")
    /\ UNCHANGED <<failOn, position, record, startFailed, status, sceneStatus, counters,
                   flow, lists, results, rollouts, trouble, interrupted, closeRaised>>

\* Wrong on purpose: a trial whose policy never started leaves a hole in the
\* lists (breaks ListsAreParallel).
RecordTrialIfStarted ==
    recordIds' = IF startFailed THEN recordIds ELSE Append(recordIds, record)

\* The side-cars and the lists kept beside epoch_dicts; a failed write only warns.
RecordTrial == recordIds' = Append(recordIds, record)

\* policy.on_trial_end, not called for a policy that never started.
PolicyEnd ==
    /\ pc = "policy_end"
    /\ \/ UNCHANGED <<sceneStatus, status, trouble>>
       \/ ~startFailed /\ Contain
    /\ RecordTrial
    /\ pc' = "sink_end"
    /\ UNCHANGED <<failOn, position, record, startFailed, counters, flow, epochDicts, scores,
                   results, escape, moved, rollouts, halts, interrupted, closeRaised>>

\* Wrong on purpose: nothing is parked (breaks LeftParked).
SinkEndRaisesUnparked ==
    /\ pc = "sink_end"
    /\ \E exc \in Raisable : Escape(exc) /\ Raised("sink", exc)
    /\ UNCHANGED <<failOn, position, record, startFailed, status, sceneStatus, counters,
                   flow, lists, results, moved, rollouts, trouble, interrupted, closeRaised>>

\* bus.on_trial_end raises: parked first, unless the operator cancelled.
SinkEndRaises ==
    /\ pc = "sink_end"
    /\ \E exc \in Raisable :
         IF cancelled THEN Escape(exc) /\ Raised("sink", exc) /\ UNCHANGED moved
                      ELSE ParkThenEscape(exc, "sink")
    /\ UNCHANGED <<failOn, position, record, startFailed, status, sceneStatus, counters,
                   flow, lists, results, rollouts, trouble, interrupted, closeRaised>>

SinkEnd ==
    /\ pc = "sink_end" /\ pc' = "park"
    /\ UNCHANGED <<failOn, position, record, startFailed, status, sceneStatus, counters,
                   flow, lists, results, escape, moved, ghosts>>

----------------------------------------------------------------------------
\* After a trial.

\* A cancelled run is left to close(): the operator asked it to stop.
LeaveUnparked ==
    /\ pc = "park" /\ cancelled /\ pc' = "decide"
    /\ UNCHANGED <<failOn, position, record, startFailed, status, sceneStatus, counters,
                   flow, lists, results, escape, moved, ghosts>>

Park ==
    /\ pc = "park" /\ ~cancelled
    /\ moved' = FALSE /\ pc' = "decide"
    /\ UNCHANGED <<status, sceneStatus, halted, haltExc, trouble, halts>>
    /\ UNCHANGED <<failOn, position, record, startFailed, counters, stopped, cancelled,
                   lists, results, escape, rollouts, interrupted, closeRaised>>

\* Wrong on purpose: when the trial has halted, a fault of the park is only
\* warned about (breaks HookHaltEscapes).
ParkFailsForgotten ==
    /\ pc = "park" /\ ~cancelled
    /\ moved' = FALSE /\ pc' = "decide" /\ trouble' = TRUE
    /\ \E exc \in Raisable :
         /\ Raised("hook", exc)
         /\ haltExc' = IF halted THEN haltExc ELSE FirstHalt(haltExc, HaltOf(exc))
    /\ IF halted THEN UNCHANGED <<status, sceneStatus, halted>>
                 ELSE status' = "error" /\ sceneStatus' = "error" /\ halted' = TRUE
    /\ UNCHANGED <<failOn, position, record, startFailed, counters, stopped, cancelled,
                   lists, results, escape, rollouts, interrupted, closeRaised>>

\* park() raised: the run ends, and a fault of the park outlives it.
ParkFails ==
    /\ pc = "park" /\ ~cancelled
    /\ moved' = FALSE /\ pc' = "decide" /\ trouble' = TRUE
    /\ \E exc \in Raisable :
         Raised("hook", exc) /\ haltExc' = FirstHalt(haltExc, HaltOf(exc))
    /\ IF halted THEN UNCHANGED <<status, sceneStatus, halted>>
                 ELSE status' = "error" /\ sceneStatus' = "error" /\ halted' = TRUE
    /\ UNCHANGED <<failOn, position, record, startFailed, counters, stopped, cancelled,
                   lists, results, escape, rollouts, interrupted, closeRaised>>

Planned == Scenes * Epochs

\* _should_fail
ShouldFail ==
    /\ errorCount > 0
    /\ \/ failOn.kind = "first"
       \/ failOn.kind = "share" /\ errorCount * failOn.den >= failOn.num * Planned
       \/ failOn.kind = "count" /\ errorCount >= failOn.num

\* The for loop over epochs.
NextTrial == IF epoch < Epochs THEN epoch' = epoch + 1 /\ pc' = "before"
                               ELSE pc' = "scene_end" /\ UNCHANGED epoch

Decide ==
    /\ pc = "decide"
    /\ IF halted
         THEN stopped' = TRUE /\ pc' = "scene_end" /\ UNCHANGED <<epoch, status>>
       ELSE IF ShouldFail
         THEN stopped' = TRUE /\ status' = "error" /\ pc' = "scene_end" /\ UNCHANGED epoch
         ELSE NextTrial /\ UNCHANGED <<stopped, status>>
    /\ UNCHANGED <<failOn, scene, record, startFailed, sceneStatus, counters, halted, haltExc,
                   cancelled, lists, results, escape, moved, ghosts>>

----------------------------------------------------------------------------
\* The end of a scene, and of the run.

\* The rubrics are reduced over the scene's epochs, a failing reducer is
\* contained, and the scene's result is kept.
SceneEnd ==
    /\ pc = "scene_end"
    /\ \E fails \in BOOLEAN :
         /\ fails => \E r \in Rubrics : scores[r] > 0
         /\ IF fails THEN /\ status' = IF status = "success" THEN "error" ELSE status
                          /\ trouble' = TRUE
                     ELSE UNCHANGED <<status, trouble>>
         /\ samples' = Append(samples, [status |-> IF fails THEN "error" ELSE sceneStatus,
                                        trials |-> Len(recordIds)])
    /\ IF stopped \/ scene = Scenes
         THEN pc' = "assemble" /\ UNCHANGED <<scene, epoch, sceneStatus, lists>>
         ELSE /\ scene' = scene + 1 /\ epoch' = 1 /\ sceneStatus' = "success"
              /\ epochDicts' = <<>> /\ recordIds' = <<>> /\ scores' = NoScores
              /\ pc' = "before"
    /\ UNCHANGED <<failOn, record, startFailed, counters, flow, log, escape, moved, rollouts,
                   halts, interrupted, closeRaised>>

AllErrored == total > 0 /\ errored = total

\* A run that scored nothing, or that left trials ungraded, is no success.
Assemble ==
    /\ pc = "assemble"
    /\ status' = IF status = "success" /\ (AllErrored \/ ungraded > 0)
                   THEN "error" ELSE status
    /\ pc' = "eval_end"
    /\ UNCHANGED <<failOn, position, record, startFailed, sceneStatus, counters, flow, lists,
                   results, escape, moved, ghosts>>

\* What the run owes its caller once the log is out, or could not be written.
Owed == IF cancelled THEN "Cancelled" ELSE haltExc

SinkEvalEnd ==
    /\ pc = "eval_end"
    /\ log' = status /\ Escape(Owed)
    /\ UNCHANGED <<failOn, position, record, startFailed, status, sceneStatus, counters,
                   flow, lists, samples, moved, ghosts>>

SinkEvalEndRaises ==
    /\ pc = "eval_end"
    /\ \E exc \in Raisable :
         Raised("sink", exc) /\ Escape(IF Owed # "none" THEN Owed ELSE exc)
    /\ UNCHANGED <<failOn, position, record, startFailed, status, sceneStatus, counters,
                   flow, lists, results, moved, rollouts, trouble, interrupted, closeRaised>>

\* eval()'s finally clause: what it opened, it closes.
Close ==
    /\ pc = "close" /\ pc' = "done"
    /\ \/ UNCHANGED <<escape, closeRaised>>
       \/ /\ OwnsEmbodiment
          /\ escape' \in Raisable /\ closeRaised' = TRUE
    /\ UNCHANGED <<failOn, position, record, startFailed, status, sceneStatus, counters, flow,
                   lists, results, moved, rollouts, halts, trouble, interrupted>>

\* Ctrl-C outside a rollout, or a second one in the handlers of the first.
Interrupt ==
    /\ pc \notin {"close", "done"}
    /\ Escape("KeyboardInterrupt") /\ interrupted' = TRUE
    /\ UNCHANGED <<failOn, position, record, startFailed, status, sceneStatus, counters, flow,
                   lists, results, moved, rollouts, halts, trouble, closeRaised>>

Done == pc = "done" /\ UNCHANGED vars

Advance ==
    \/ Setup \/ EvalStart \/ Ready \/ NotReady \/ HomeFails \/ SinkTrialStart \/ PolicyStart
    \/ TrialReturns \/ TrialCancelled \/ TrialHalts \/ TrialPolicyError \/ TrialRaises
    \/ Account \/ Observe \/ Grade \/ Score \/ ScoreHalts \/ PolicyEnd
    \/ SinkEndRaises \/ SinkEnd \/ LeaveUnparked \/ Park \/ ParkFails \/ Decide
    \/ SceneEnd \/ Assemble \/ SinkEvalEnd \/ SinkEvalEndRaises \/ Close

Next == Advance \/ Interrupt \/ Done

Spec == Init /\ [][Next]_vars

----------------------------------------------------------------------------
\* Properties.

Stages == {"setup", "eval_start", "before", "trial_start", "policy_start", "rollout", "account",
           "observe", "grade", "score", "policy_end", "sink_end", "park", "decide",
           "scene_end", "assemble", "eval_end", "close", "done"}

\* Types, and the counters' bounds: no failure is counted that was not a trial.
TypeOK ==
    /\ pc \in Stages /\ failOn \in FailOnErrors
    /\ scene \in 1..Scenes /\ epoch \in 1..Epochs
    /\ record \in {"none", "success", "error", "cancelled"} /\ startFailed \in BOOLEAN
    /\ status \in {"success", "error", "cancelled"}
    /\ sceneStatus \in {"success", "error", "cancelled"}
    /\ total \in 0..Planned /\ errored \in 0..total /\ ungraded \in 0..total
    /\ errorCount \in 0..Planned
    /\ pc \notin {"account", "close", "done"} => errorCount <= errored
    /\ halted \in BOOLEAN /\ stopped \in BOOLEAN /\ cancelled \in BOOLEAN
    /\ haltExc \in Halts \cup {"none"}
    /\ epochDicts \in Seq(BOOLEAN)
    /\ recordIds \in Seq({"success", "error", "cancelled"})
    /\ scores \in [Rubrics -> Nat]
    /\ samples \in Seq([status : {"success", "error", "cancelled"}, trials : Nat])
    /\ log \in {"none", "success", "error", "cancelled"}
    /\ escape \in Raisable \cup {"none", "Cancelled", "KeyboardInterrupt"}
    /\ moved \in BOOLEAN /\ rollouts \in 0..Planned /\ halts \subseteq HaltSources
    /\ trouble \in BOOLEAN /\ interrupted \in BOOLEAN /\ closeRaised \in BOOLEAN

\* However eval() is left, by its return or by any of the exceptions that can
\* escape it, park() was called after the last thing that may have moved the
\* platform. Only Ctrl-C leaves a platform where it stood.
LeftParked == pc \in {"close", "done"} /\ moved => cancelled \/ interrupted

\* Once a trial, a platform hook, a grader, a scorer or a sink has raised a
\* SafetyAbort or an EmbodimentFault, or a trial was cancelled, this run never
\* starts another rollout. (What the policy's own trial hooks raise is contained
\* whatever its class.)
NoTrialAfterHalt ==
    [][halts # {} \/ cancelled => rollouts' = rollouts]_vars

\* A halt raised by health, prepare_trial, home, observe_parked or park is not
\* lost on the way out, whatever fails after it: what leaves eval() tells
\* eval_set() to stop. Only the close of an owned embodiment can replace it.
HookHaltEscapes ==
    pc = "done" /\ {"hook", "observe"} \cap halts # {} /\ ~closeRaised =>
        escape \in Halts \cup {"Cancelled", "KeyboardInterrupt"}

\* The log's verdict is earned: "success" exactly when nothing contained or
\* fatal went wrong, no graded trial was left ungraded, the policy's failures
\* stay below fail_on_error, and some trial did not error; "cancelled" exactly
\* when the operator cancelled a trial.
VerdictIsEarned ==
    log # "none" =>
        /\ log = "success" <=> ~trouble /\ ungraded = 0 /\ ~ShouldFail /\ ~AllErrored
        /\ log = "cancelled" <=> cancelled

TrialsIn(list) == LET sum[i \in 0..Len(list)] ==
                        IF i = 0 THEN 0 ELSE sum[i - 1] + list[i].trials
                  IN  sum[Len(list)]

\* The parallel lists of a scene name the same trials: a trial is scored exactly
\* when it succeeded, no rubric has more scores than scored trials, and every
\* trial that was counted is in some scene's lists.
ListsAreParallel ==
    /\ pc \in {"before", "park", "decide", "scene_end"} =>
         /\ Len(epochDicts) = Len(recordIds)
         /\ \A i \in 1..Len(recordIds) : epochDicts[i] <=> recordIds[i] = "success"
         /\ \A r \in Rubrics :
              scores[r] <= Cardinality({i \in 1..Len(epochDicts) : epochDicts[i]})
         /\ total = TrialsIn(samples) + Len(recordIds)
    /\ log # "none" => total = TrialsIn(samples)

----------------------------------------------------------------------------
\* What the documentation says and the code does not do.

\* Pressing Ctrl-C during a rollout writes a log with status "cancelled", and
\* the interrupt is re-raised (eval.py:609, docs/guide/logging-and-rerun.md:21).
CancelIsReRaised ==
    pc = "done" /\ cancelled => escape \in {"Cancelled", "KeyboardInterrupt"}

\* A halt raised by health, prepare_trial, home or park is re-raised once the log
\* is written (docs/guide/policies-and-embodiments.md:252).
HookHaltCarriesLog ==
    pc = "done" /\ "hook" \in halts /\ escape \in Halts => log # "none"
=============================================================================
