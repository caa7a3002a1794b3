-------------------------------- MODULE Sinks --------------------------------
(***************************************************************************)
(* eval.py, _Broadcast: the lifecycle of the log sinks, fanned out to each *)
(* of them, over the runs of a task set that reuses them.  Three kinds are *)
(* the program's own or a user's:                                          *)
(*   "json"      JsonLogSink, the canonical log, critical                  *)
(*   "live"      LiveLogSink, the snapshot of the running evaluation, gone *)
(*               once the canonical log is written                         *)
(*   "critical", "plain"   contributed sinks, whose hooks may raise        *)
(* What calls the hooks is eval(), its rollout, and the command line that  *)
(* owns the sinks.  A hook of one sink is one step, so that Ctrl-C can     *)
(* arrive between two of them.                                             *)
(***************************************************************************)
EXTENDS Integers, Sequences, FiniteSets

CONSTANTS
    Sinks,       \* the sinks, as given
    Runs,        \* the evaluations that share them
    Trials,      \* bound: trials of a run
    MaxDeltas    \* bound: transcript deltas of a trial

Kinds == {"json", "live", "critical", "plain"}
Contributed == {"critical", "plain"}

ASSUME SinksAssumption ==
    /\ Sinks \in Seq(Kinds)
    /\ \A k \in {"json", "live"} : Cardinality({i \in 1..Len(Sinks) : Sinks[i] = k}) = 1
    /\ Runs \in Nat /\ Trials \in Nat /\ MaxDeltas \in Nat

VARIABLES
    phase,      \* where the caller is, between two hooks
    run, trials,\* the evaluation, and the trials it has ended
    stop,       \* a halt or a cancel will end the set after this run
    hook, at,   \* the hook being fanned out, and the sink it is offered to next
    failure,    \* failure is not None: a critical sink has raised
    latched,    \* _failed_message_hooks
    streamOk,   \* rollout's stream_ok
    \* the live sink
    path,       \* path, as the run it was chosen for, 0 for None
    finished,   \* _finished
    disabled,   \* _disabled
    active,     \* _current_scene is not None
    completed,  \* _completed_trials
    entries,    \* length of _current_transcript, in deltas
    \* the disk, and the canonical sink
    snap,       \* the snapshot file of each run
    logs,       \* runs whose canonical log was written
    writeFailed,\* write_failed
    \* what happened, for the properties
    sent, got,  \* deltas forwarded in this trial, and delivered per hook
    raised,     \* message hooks that raised in this trial
    recorded,   \* a snapshot of the run existed when its last hook began
    onlyRecord, \* runs whose log could not be written though they had a snapshot
    blindStart, \* an on_eval_start failed before it chose a new path
    excused     \* runs whose snapshot may stay: kept on purpose, or not removable

caller == <<phase, run, trials, stop>>
fan == <<hook, at, failure>>
stream == <<latched, streamOk, sent, got, raised>>
trialState == <<active, completed, entries>>
live == <<path, finished, disabled, trialState>>
disk == <<snap, logs, writeFailed>>
ghosts == <<recorded, onlyRecord, blindStart, excused>>
vars == <<caller, fan, stream, live, disk, ghosts>>

\* The sinks of these kinds, in the order given. (Sequences!SelectSeq, written out as the
\* recursive function it is, so that it can be reasoned about.)
OfKinds(kinds) ==
    LET upTo[i \in 0..Len(Sinks)] ==
          IF i = 0 THEN <<>>
          ELSE IF Sinks[i] \in kinds THEN Append(upTo[i - 1], Sinks[i]) ELSE upTo[i - 1]
    IN  upTo[Len(Sinks)]

\* The sinks that have log_policy_messages.
MessageHooks == OfKinds(Kinds \ {"json"})
NoneGot == [i \in 1..Len(MessageHooks) |-> 0]
NoFile == [exists |-> FALSE, completed |-> 0, active |-> FALSE, entries |-> 0]

Init ==
    /\ phase = "idle" /\ run = 0 /\ trials = 0 /\ stop = FALSE
    /\ hook = "none" /\ at = 1 /\ failure = FALSE
    /\ latched = {} /\ streamOk = FALSE /\ sent = 0 /\ got = NoneGot /\ raised = {}
    /\ path = 0 /\ finished = FALSE /\ disabled = FALSE
    /\ active = FALSE /\ completed = 0 /\ entries = 0
    /\ snap = [r \in 1..Runs |-> NoFile] /\ logs = {} /\ writeFailed = FALSE
    /\ recorded = FALSE /\ onlyRecord = {} /\ blindStart = FALSE /\ excused = {}

----------------------------------------------------------------------------
\* The fan-out.

Critical == {"json", "critical"}

\* Wrong on purpose: the sinks are served as given (breaks RecordSurvives).
OrderedAsGiven == Sinks

\* _ordered: critical sinks first.
Ordered == OfKinds(Critical) \o OfKinds(Kinds \ Critical)

\* Transcript deltas go to the message hooks in the order given.
Order == IF hook = "log_policy_messages" THEN MessageHooks ELSE Ordered

Call(h) == hook = "none" /\ hook' = h /\ at' = 1 /\ failure' = FALSE
Here(k) == hook # "none" /\ at <= Len(Order) /\ Order[at] = k
Pass == at' = at + 1 /\ UNCHANGED <<hook, failure>>
Leave == hook' = "none" /\ at' = 1 /\ failure' = FALSE

\* Where a run that is over leads.
Over == IF stop THEN "stopped" ELSE "idle"

\* Every sink was offered the hook; a critical sink's failure leaves eval().
FanOutEnds ==
    /\ hook # "none" /\ at > Len(Order)
    /\ Leave
    /\ phase' = IF failure \/ hook = "on_eval_end" THEN Over
                ELSE IF hook \in {"on_eval_start", "on_trial_end"} THEN "between" ELSE "trial"
    /\ trials' = IF hook = "on_trial_end" /\ ~failure THEN trials + 1 ELSE trials
    /\ UNCHANGED <<run, stop, stream, live, disk, ghosts>>

----------------------------------------------------------------------------
\* The caller: the order in which eval() and rollout() call the hooks.

StartRun ==
    /\ phase = "idle" /\ run < Runs
    /\ run' = run + 1 /\ trials' = 0
    /\ Call("on_eval_start")
    /\ UNCHANGED <<phase, stop, stream, live, disk, ghosts>>

\* Wrong on purpose: a hook that failed stays latched (breaks MessagesReachAll).
StartTrialLatched ==
    /\ phase = "between" /\ trials < Trials
    /\ streamOk' = TRUE
    /\ sent' = 0 /\ got' = NoneGot /\ raised' = {}
    /\ Call("on_trial_start")
    /\ UNCHANGED <<caller, latched, live, disk, ghosts>>

StartTrial ==
    /\ phase = "between" /\ trials < Trials
    /\ latched' = {} /\ streamOk' = TRUE
    /\ sent' = 0 /\ got' = NoneGot /\ raised' = {}
    /\ Call("on_trial_start")
    /\ UNCHANGED <<caller, live, disk, ghosts>>

LogStep ==
    /\ phase = "trial" /\ Call("log_step")
    /\ UNCHANGED <<caller, stream, live, disk, ghosts>>

ForwardMessages ==
    /\ phase = "trial" /\ streamOk /\ sent < MaxDeltas
    /\ sent' = sent + 1
    /\ Call("log_policy_messages")
    /\ UNCHANGED <<caller, latched, streamOk, got, raised, live, disk, ghosts>>

EndTrial ==
    /\ phase = "trial" /\ Call("on_trial_end")
    /\ UNCHANGED <<caller, stream, live, disk, ghosts>>

\* A halt or a cancel recorded on the way is re-raised after this hook.
EndRun ==
    /\ phase \in {"between", "halted"} /\ Call("on_eval_end")
    /\ stop' \in {stop, TRUE} /\ recorded' = snap[run].exists
    /\ UNCHANGED <<phase, run, trials, stream, live, disk, onlyRecord, blindStart, excused>>

\* Another component's exception leaves eval() without its last hooks.
Abandon ==
    /\ phase \in {"between", "trial"} /\ hook = "none"
    /\ phase' = "idle"
    /\ UNCHANGED <<run, trials, stop, fan, stream, live, disk, ghosts>>

\* The set is over.
Stop ==
    /\ phase = "idle" /\ hook = "none" /\ phase' = "stopped"
    /\ UNCHANGED <<run, trials, stop, fan, stream, live, disk, ghosts>>

\* Ctrl-C between two hooks, or before a hook has had an effect.
Interrupt ==
    /\ phase \notin {"stopped", "closed"} /\ phase' = "stopped" /\ Leave
    /\ UNCHANGED <<run, trials, stop, stream, live, disk, ghosts>>

----------------------------------------------------------------------------
\* Contributed sinks.

Delivered == IF hook = "log_policy_messages"
               THEN got' = [got EXCEPT ![at] = got[at] + 1] ELSE UNCHANGED got

ContributedReturns ==
    /\ Here("plain") \/ Here("critical")
    /\ hook = "log_policy_messages" => at \notin latched
    /\ Delivered /\ Pass
    /\ UNCHANGED <<caller, latched, streamOk, sent, raised, live, disk, ghosts>>

\* A latched hook is passed over.
PassLatched ==
    /\ hook = "log_policy_messages" /\ at \in latched /\ Pass
    /\ UNCHANGED <<caller, stream, live, disk, ghosts>>

\* An ordinary exception: remembered of a critical sink, warned about otherwise.
ContributedRaises ==
    /\ hook # "log_policy_messages"
    /\ \/ Here("plain") /\ Pass /\ UNCHANGED excused
       \/ /\ Here("critical") /\ failure' = TRUE /\ at' = at + 1 /\ UNCHANGED hook
          /\ excused' = IF hook = "on_eval_end" THEN excused \cup {run} ELSE excused
    /\ UNCHANGED <<caller, stream, live, disk, recorded, onlyRecord, blindStart>>

\* A message hook is never critical: its failure latches it for the trial.
MessageHookRaises ==
    /\ hook = "log_policy_messages" /\ at \notin latched
    /\ Here("plain") \/ Here("critical")
    /\ latched' = latched \cup {at} /\ raised' = raised \cup {at}
    /\ Pass
    /\ UNCHANGED <<caller, streamOk, sent, got, live, disk, ghosts>>

\* A SafetyAbort or EmbodimentFault leaves the fan-out at once. The rollout
\* gives up streaming for one from a message hook, and ends the run for one from
\* log_step, which leaves no record of the trial; any other ends the set.
ContributedHalts ==
    /\ Here("plain") \/ Here("critical")
    /\ hook = "log_policy_messages" => at \notin latched
    /\ Leave
    /\ streamOk' = (streamOk /\ hook # "log_policy_messages")
    /\ phase' = CASE hook = "log_policy_messages" -> "trial"
                  [] hook = "log_step" -> "halted"
                  [] OTHER -> "stopped"
    /\ stop' = (stop \/ hook # "log_policy_messages")
    /\ UNCHANGED <<run, trials, latched, sent, got, raised, live, disk, ghosts>>

----------------------------------------------------------------------------
\* JsonLogSink.

JsonIgnores ==
    /\ Here("json") /\ hook # "on_eval_end" /\ Pass
    /\ UNCHANGED <<caller, stream, live, disk, ghosts>>

JsonWrites ==
    /\ Here("json") /\ hook = "on_eval_end"
    /\ logs' = logs \cup {run} /\ Pass
    /\ UNCHANGED <<caller, stream, live, snap, writeFailed, ghosts>>

WriteFails ==
    /\ Here("json") /\ hook = "on_eval_end"
    /\ writeFailed' = TRUE /\ excused' = excused \cup {run}
    /\ onlyRecord' = IF recorded THEN onlyRecord \cup {run} ELSE onlyRecord
    /\ UNCHANGED <<run, trials, stop, stream, live, snap, logs, recorded, blindStart>>

JsonFails == WriteFails /\ failure' = TRUE /\ at' = at + 1 /\ UNCHANGED <<hook, phase>>

\* Ctrl-C during the write.
JsonInterrupted == WriteFails /\ Leave /\ phase' = "stopped"

----------------------------------------------------------------------------
\* LiveLogSink. It never raises: what fails disables it for the rest of the run.

Remove(r) == snap' = [snap EXCEPT ![r] = NoFile]

\* Wrong on purpose: publishing is throttled at the boundaries of a trial too
\* (breaks SnapshotIsCurrent).
WriteThrottled(c, a, e) ==
    \/ /\ snap' = [snap EXCEPT ![run] = [exists |-> TRUE, completed |-> c, active |-> a,
                                         entries |-> e]]
       /\ UNCHANGED disabled
    \/ UNCHANGED <<snap, disabled>>
    \/ disabled' = TRUE /\ UNCHANGED snap

\* A forced _write: the snapshot is replaced in one step, or not at all.
Write(c, a, e) ==
    \/ /\ snap' = [snap EXCEPT ![run] = [exists |-> TRUE, completed |-> c, active |-> a,
                                         entries |-> e]]
       /\ UNCHANGED disabled
    \/ disabled' = TRUE /\ UNCHANGED snap

\* Wrong on purpose: the trials of the previous run are still counted (breaks
\* TypeOK).
ResetTranscript == entries' = 0 /\ active' = FALSE /\ UNCHANGED completed

Reset == entries' = 0 /\ active' = FALSE /\ completed' = 0

\* A run that did not finish leaves a stale snapshot, which goes first; then the
\* new path is chosen and published. The three disjuncts are a start that fails
\* before it has a new path, one that fails to publish, and one that succeeds.
LiveStartsRun ==
    /\ Here("live") /\ hook = "on_eval_start" /\ Pass
    /\ finished' = FALSE /\ Reset
    /\ \E cleaned \in {snap, IF path # 0 /\ ~finished THEN [snap EXCEPT ![path] = NoFile]
                                                      ELSE snap} :
         /\ excused' = IF path # 0 /\ ~finished /\ cleaned[path].exists
                         THEN excused \cup {path} ELSE excused
         /\ \/ disabled' = TRUE /\ snap' = cleaned /\ UNCHANGED path
               /\ blindStart' = (blindStart \/ path # 0)
            \/ disabled' = TRUE /\ snap' = cleaned /\ path' = run /\ UNCHANGED blindStart
            \/ /\ disabled' = FALSE /\ path' = run /\ UNCHANGED blindStart
               /\ snap' = [cleaned EXCEPT ![run] = [NoFile EXCEPT !.exists = TRUE]]
    /\ UNCHANGED <<caller, stream, logs, writeFailed, recorded, onlyRecord>>

LiveStartsTrial ==
    /\ Here("live") /\ hook = "on_trial_start" /\ ~disabled /\ Pass
    /\ active' = TRUE /\ entries' = 0 /\ UNCHANGED completed
    /\ Write(completed, TRUE, 0)
    /\ UNCHANGED <<caller, stream, path, finished, logs, writeFailed, ghosts>>

\* A transcript delta is published at most once in every interval.
LiveTakesMessages ==
    /\ Here("live") /\ hook = "log_policy_messages" /\ ~disabled /\ Pass /\ Delivered
    /\ entries' = entries + 1 /\ UNCHANGED <<active, completed>>
    /\ Write(completed, active, entries + 1) \/ UNCHANGED <<snap, disabled>>
    /\ UNCHANGED <<caller, latched, streamOk, sent, raised, path, finished, logs,
                   writeFailed, ghosts>>

LiveEndsTrial ==
    /\ Here("live") /\ hook = "on_trial_end" /\ ~disabled /\ Pass
    /\ IF active THEN /\ completed' = completed + 1 /\ active' = FALSE /\ entries' = 0
                      /\ Write(completed + 1, FALSE, 0)
                 ELSE disabled' = TRUE /\ UNCHANGED <<snap, trialState>>
    /\ UNCHANGED <<caller, stream, path, finished, logs, writeFailed, ghosts>>

LiveIgnores ==
    /\ Here("live")
    /\ \/ hook = "log_step"
       \/ disabled /\ hook \in {"on_trial_start", "log_policy_messages", "on_trial_end"}
    /\ Delivered /\ Pass
    /\ UNCHANGED <<caller, latched, streamOk, sent, raised, live, disk, ghosts>>

\* The canonical log is out: the snapshot goes.
LiveEndsRun ==
    /\ Here("live") /\ hook = "on_eval_end" /\ ~failure /\ Pass
    /\ \/ /\ IF path # 0 THEN Remove(path) ELSE UNCHANGED snap
          /\ finished' = TRUE /\ UNCHANGED <<disabled, excused>>
       \/ /\ path # 0 /\ disabled' = TRUE /\ excused' = excused \cup {path}
          /\ UNCHANGED <<finished, snap>>
    /\ UNCHANGED <<caller, stream, path, trialState, logs, writeFailed, recorded,
                   onlyRecord, blindStart>>

\* A critical sink failed: the snapshot is kept, retain_snapshot().
LiveRetains ==
    /\ Here("live") /\ hook = "on_eval_end" /\ failure /\ Pass
    /\ finished' = TRUE
    /\ UNCHANGED <<caller, stream, path, disabled, trialState, disk, ghosts>>

----------------------------------------------------------------------------
\* The command line, when the set is over however it ended.

\* Wrong on purpose: the snapshot stays whenever it is not marked finished
\* (breaks NoStaleSnapshot).
CloseFinishedOnly ==
    /\ phase = "stopped" /\ phase' = "closed"
    /\ IF path # 0 /\ ~writeFailed /\ finished THEN Remove(path) ELSE UNCHANGED snap
    /\ UNCHANGED <<run, trials, stop, fan, stream, live, logs, writeFailed, ghosts>>

CloseSinks ==
    /\ phase = "stopped" /\ phase' = "closed"
    /\ \/ /\ IF path # 0 /\ ~writeFailed THEN Remove(path) ELSE UNCHANGED snap
          /\ UNCHANGED excused
       \/ /\ path # 0 /\ ~writeFailed
          /\ excused' = excused \cup {path} /\ UNCHANGED snap
    /\ UNCHANGED <<run, trials, stop, fan, stream, live, logs, writeFailed, recorded,
                   onlyRecord, blindStart>>

Done == phase = "closed" /\ UNCHANGED vars

Next ==
    \/ StartRun \/ StartTrial \/ LogStep \/ ForwardMessages \/ EndTrial \/ EndRun
    \/ Abandon \/ Stop \/ Interrupt \/ FanOutEnds
    \/ ContributedReturns \/ PassLatched \/ ContributedRaises \/ MessageHookRaises
    \/ ContributedHalts \/ JsonIgnores \/ JsonWrites \/ JsonFails \/ JsonInterrupted
    \/ LiveStartsRun \/ LiveStartsTrial \/ LiveTakesMessages \/ LiveEndsTrial
    \/ LiveIgnores \/ LiveEndsRun \/ LiveRetains \/ CloseSinks \/ Done

Spec == Init /\ [][Next]_vars

----------------------------------------------------------------------------
\* Properties.

Hooks == {"on_eval_start", "on_trial_start", "log_step", "log_policy_messages",
          "on_trial_end", "on_eval_end"}

TypeOK ==
    /\ phase \in {"idle", "between", "trial", "halted", "stopped", "closed"}
    /\ run \in 0..Runs /\ trials \in 0..Trials /\ stop \in BOOLEAN
    /\ hook \in Hooks \cup {"none"} /\ at \in 1..(Len(Sinks) + 1) /\ failure \in BOOLEAN
    /\ latched \subseteq 1..Len(MessageHooks) /\ raised \subseteq 1..Len(MessageHooks)
    /\ streamOk \in BOOLEAN
    /\ sent \in 0..MaxDeltas /\ got \in [1..Len(MessageHooks) -> 0..MaxDeltas]
    /\ path \in 0..run /\ finished \in BOOLEAN /\ disabled \in BOOLEAN
    /\ active \in BOOLEAN /\ completed \in 0..Trials /\ entries \in 0..MaxDeltas
    /\ snap \in [1..Runs -> [exists : BOOLEAN, completed : 0..Trials, active : BOOLEAN,
                             entries : 0..MaxDeltas]]
    /\ logs \subseteq 1..Runs /\ writeFailed \in BOOLEAN
    /\ recorded \in BOOLEAN /\ onlyRecord \subseteq 1..Runs
    /\ blindStart \in BOOLEAN /\ excused \subseteq 1..Runs

\* A run whose canonical log could not be written keeps its snapshot, its only
\* record: through the rest of its own fan-out, through the later runs that
\* reuse the sinks, through Ctrl-C and through the command line's cleanup.
\* The one exception is an on_eval_start that fails before it has a new path.
RecordSurvives == ~blindStart => \A r \in onlyRecord : snap[r].exists

\* When the command line has let go of the sinks no "running" snapshot is left
\* behind, however the runs ended, except one kept because a critical sink
\* failed and one that could not be removed; and, once a write has failed, the
\* snapshot of the last run.
NoStaleSnapshot ==
    phase = "closed" =>
        \A r \in 1..Runs : snap[r].exists =>
            r \in excused \/ (writeFailed /\ r = path)

\* Between hooks the snapshot of the run in progress shows exactly the trials
\* that have ended and whether one is running, unless the live sink is disabled,
\* and never a transcript entry that was not forwarded.
SnapshotIsCurrent ==
    phase \in {"between", "trial"} /\ hook = "none" /\ ~disabled =>
        /\ snap[run].exists
        /\ snap[run].completed = trials
        /\ snap[run].active = (phase = "trial")
        /\ snap[run].entries <= sent

\* While the transcript is streamed, every message hook that has not raised in
\* this trial has been given every delta, whatever the other hooks did and
\* whatever it did in earlier trials; one that has raised is given none.
MessagesReachAll ==
    phase = "trial" /\ hook = "none" /\ streamOk =>
        \A i \in 1..Len(MessageHooks) :
            IF i \in raised THEN got[i] < sent ELSE got[i] = sent

----------------------------------------------------------------------------
\* What a comment says and the code does not do.

\* The snapshot of a run whose log failed is kept, "so a later run does not
\* delete it either" (eval.py:470).
RetainedIsKept == \A r \in onlyRecord : snap[r].exists
=============================================================================
