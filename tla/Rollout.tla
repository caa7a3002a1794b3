------------------------------- MODULE Rollout -------------------------------
(***************************************************************************)
(* rollout.py, one trial: policy and embodiment reset, then the control    *)
(* loop (poll the operator, ask the action manager, review the action,     *)
(* command the embodiment, record the step) under DefaultActionManager and *)
(* a guard chain.  The loop runs in one thread, but every call it makes is *)
(* to a component that may raise, and Ctrl-C may arrive between any two    *)
(* of them; pc is the next such call.                                      *)
(***************************************************************************)
EXTENDS GuardChain, Sequences, FiniteSets, Outcomes

CONSTANTS
    MaxSteps,        \* the step budget of the trial
    ReplanInterval,  \* DefaultActionManager.replan_interval, 0 for None
    Triggers,        \* the replan triggers, a subset of {"unreachable", "slip"}
    Chunks,          \* the chunks the policy may return
    Guards,          \* the guard chain
    Attended,        \* is an operator input wired
    MaxMessages      \* bound: operator messages in a trial

StopKinds == {"none", "declared", "undeclared", "legacy"}
Actions == [v : Int, ok : BOOLEAN, stop : StopKinds]

ASSUME RolloutAssumption ==
    /\ MaxSteps \in Nat \ {0}
    /\ ReplanInterval \in Nat
    /\ Triggers \subseteq {"unreachable", "slip"}
    /\ Chunks \subseteq [actions : Seq(Actions),
                         terminal : {"none", "declared", "undeclared"}]
    /\ \A c \in Chunks : c.actions = <<>> => c.terminal # "none"
    /\ Guards \in Seq(Members)
    /\ Attended \in BOOLEAN
    /\ MaxMessages \in Nat

VARIABLES
    pc,            \* the next call of the loop
    t,             \* the control step
    consoleOk,     \* console_ok: is the operator input still polled
    consoleOpen,   \* is a trial open at the operator input (begin_trial/end_trial)
    streamOk,      \* stream_ok: is the live transcript still forwarded
    messages,      \* number of operator messages in the store
    approvals,     \* store[_APPROVALS_KEY]: guard modifications, as [t, clamped]
    msgCursor,     \* store["_rollout_last_operator_msgs_idx"]
    apprCursor,    \* store["_rollout_last_approvals_idx"]
    buffer,        \* store[_BUFFER_KEY]: the actions of the chunk still to play
    chunkStart,    \* store[_CHUNK_START_KEY]
    replans,       \* store[_REPLAN_KEY]: the triggers that fired
    inferences,    \* length of store[_INFER_KEY]
    cur,           \* the action of this step, as it passes through the chain
    member,        \* the guard that reviews it next
    reference,     \* store[_LAST_APPROVED_KEY]
    result,        \* what the embodiment last returned
    rec,           \* the trial's Record: how it ended
    steps,         \* Record.steps
    outcome,       \* how rollout() ends, "running" until known
    attached,      \* does the raised exception carry the record
    \* what the components saw, for the properties
    seenMessages,  \* operator messages passed to policy.act, in order
    seenApprovals, \* approvals passed to policy.act, in order
    executed,      \* actions embodiment.step was called with
    stopPending    \* a terminal chunk was played and no trigger dropped it

storeVars == <<messages, approvals, msgCursor, apprCursor>>
managerVars == <<buffer, chunkStart, replans, inferences, stopPending, streamOk>>
seenVars == <<seenMessages, seenApprovals>>
reviewVars == <<cur, member, reference>>
consoleVars == <<consoleOk, consoleOpen>>
endVars == <<rec, outcome, attached>>
platformVars == <<executed, result, steps>>
vars == <<pc, t, storeVars, managerVars, seenVars, reviewVars, consoleVars,
          endVars, platformVars>>

NoAction == [v |-> 0, ok |-> TRUE, stop |-> "none",
             changed |-> FALSE, clamped |-> FALSE, held |-> FALSE]

Init ==
    /\ pc = "policy_reset" /\ t = 0
    /\ consoleOk = Attended /\ consoleOpen = FALSE /\ streamOk = TRUE
    /\ messages = 0 /\ approvals = <<>> /\ msgCursor = 0 /\ apprCursor = 0
    /\ buffer = <<>> /\ chunkStart = 0 /\ replans = <<>> /\ inferences = 0
    /\ cur = NoAction /\ member = 1 /\ reference = [known |-> FALSE, at |-> 0]
    /\ result = "none" /\ steps = <<>> /\ executed = <<>>
    /\ rec = [terminated |-> FALSE, truncated |-> FALSE, reason |-> "none",
              status |-> "success", judged |-> FALSE]
    /\ outcome = "running" /\ attached = FALSE
    /\ seenMessages = <<>> /\ seenApprovals = <<>> /\ stopPending = FALSE

----------------------------------------------------------------------------
\* How the loop is left.

\* _record_failure: mark the record and attach it to the exception.
Fail(exc) ==
    /\ rec' = [rec EXCEPT !.status = "error"]
    /\ outcome' = exc
    /\ attached' = TRUE
    /\ pc' = "finally"

EndTerminated(reason, judged) ==
    /\ rec' = [rec EXCEPT !.terminated = TRUE, !.reason = reason, !.judged = judged]
    /\ pc' = "finally"
    /\ UNCHANGED <<outcome, attached>>

EndTruncated(reason) ==
    /\ rec' = [rec EXCEPT !.truncated = TRUE, !.reason = reason]
    /\ pc' = "finally"
    /\ UNCHANGED <<outcome, attached>>

\* A critical sink, a sink's halt signal or the frame store: these escape
\* without _record_failure, and a sink may raise any class of error.
Escape ==
    /\ outcome' \in Raisable
    /\ attached' = FALSE
    /\ pc' = "finally"
    /\ UNCHANGED rec

GoOn(next) == pc' = next /\ UNCHANGED endVars

----------------------------------------------------------------------------
\* Before the loop.

PolicyReset ==
    /\ pc = "policy_reset"
    /\ \/ GoOn("embodiment_reset")
       \/ \E exc \in Raisable : Fail(Typed(exc, "PolicyError"))
    /\ UNCHANGED <<t, storeVars, managerVars, seenVars, reviewVars, consoleVars,
                   platformVars>>

EmbodimentReset ==
    /\ pc = "embodiment_reset"
    /\ \/ GoOn("begin_trial")
       \/ \E exc \in Raisable : Fail(Typed(exc, "EmbodimentFault"))
    /\ UNCHANGED <<t, storeVars, managerVars, seenVars, reviewVars, consoleVars,
                   platformVars>>

\* A failing begin_trial costs the trial its console, not its run; whatever
\* begin_trial had opened is given back.  Then the frames of the reset are
\* stored, which may fail.
BeginTrial ==
    /\ pc = "begin_trial"
    /\ \/ Attended /\ consoleOpen' = TRUE /\ UNCHANGED consoleOk
       \/ Attended /\ consoleOpen' = FALSE /\ consoleOk' = FALSE
       \/ ~Attended /\ UNCHANGED consoleVars
    /\ GoOn("poll") \/ Escape
    /\ UNCHANGED <<t, storeVars, managerVars, seenVars, reviewVars, platformVars>>

----------------------------------------------------------------------------
\* The operator's turn.

\* Wrong on purpose, one step too many (breaks KeepsTrialContract).
WithinBudgetOffByOne == t <= MaxSteps

\* The while loop's condition.
WithinBudget == t < MaxSteps

\* The while loop's else branch.
Horizon ==
    /\ pc = "poll" /\ ~WithinBudget
    /\ EndTruncated("horizon")
    /\ UNCHANGED <<t, storeVars, managerVars, seenVars, reviewVars, consoleVars,
                   platformVars>>

NoPoll ==
    /\ pc = "poll" /\ WithinBudget /\ ~consoleOk
    /\ GoOn("act")
    /\ UNCHANGED <<t, storeVars, managerVars, seenVars, reviewVars, consoleVars,
                   platformVars>>

\* Wrong on purpose: a failing console is left open (breaks ConsoleBracketed).
PollFailsLeavesOpen ==
    /\ pc = "poll" /\ WithinBudget /\ consoleOk
    /\ consoleOk' = FALSE /\ UNCHANGED consoleOpen
    /\ GoOn("act")
    /\ UNCHANGED <<t, storeVars, managerVars, seenVars, reviewVars, platformVars>>

PollFails ==
    /\ pc = "poll" /\ WithinBudget /\ consoleOk
    /\ consoleOk' = FALSE /\ consoleOpen' = FALSE
    /\ GoOn("act")
    /\ UNCHANGED <<t, storeVars, managerVars, seenVars, reviewVars, platformVars>>

\* Messages enter the store and the transcript even when the same poll ends
\* the trial.
Poll ==
    /\ pc = "poll" /\ WithinBudget /\ consoleOk
    /\ \E n \in 0..(MaxMessages - messages), end \in {"none", "stop", "verdict"} :
         /\ messages' = messages + n
         /\ IF end = "none" THEN GoOn("act")
                            ELSE EndTerminated("operator_end", end = "verdict")
    /\ UNCHANGED <<t, approvals, msgCursor, apprCursor, managerVars, seenVars,
                   reviewVars, consoleVars, platformVars>>

----------------------------------------------------------------------------
\* The action manager's turn.

\* Wrong on purpose: clamps of earlier chunks count too (breaks OneReplanPerClamp).
TargetEverUnreachable ==
    "unreachable" \in Triggers /\ \E i \in 1..Len(approvals) : approvals[i].clamped

\* UnreachableTarget.should_replan: a bounds clamp since the chunk began.
TargetUnreachable ==
    /\ "unreachable" \in Triggers
    /\ \E i \in 1..Len(approvals) : approvals[i].t >= chunkStart /\ approvals[i].clamped

\* Rollout's checks of the action it was handed, before any guard sees it.
Accept(action) ==
    /\ IF action.ok /\ action.stop # "undeclared"
         THEN /\ GoOn("review")
              /\ cur' = [v |-> action.v, ok |-> TRUE, stop |-> action.stop,
                         changed |-> FALSE, clamped |-> FALSE, held |-> FALSE]
              /\ member' = 1
         ELSE Fail("PolicyError") /\ UNCHANGED <<cur, member>>

PlayBuffered ==
    /\ pc = "act" /\ buffer # <<>> /\ ~TargetUnreachable
    /\ Accept(Head(buffer))
    /\ buffer' = Tail(buffer)
    /\ UNCHANGED <<t, storeVars, chunkStart, replans, inferences, stopPending,
                   streamOk, seenVars, reference, consoleVars, platformVars>>

\* Wrong on purpose: the stop is marked on the chunk's own last action, which a
\* short replan interval cuts off (breaks StopIsHonoured).
TakenMarksChunkEnd(chunk) ==
    LET take == IF ReplanInterval = 0 \/ ReplanInterval > Len(chunk.actions)
                  THEN Len(chunk.actions) ELSE ReplanInterval
    IN  [i \in 1..take |->
           IF i = Len(chunk.actions) /\ chunk.terminal # "none"
             THEN [chunk.actions[i] EXCEPT !.stop = chunk.terminal]
             ELSE chunk.actions[i]]

\* The actions of a chunk the manager plays, the last one marked with the
\* chunk's terminal (_terminal_actions).
Taken(chunk) ==
    LET take == IF ReplanInterval = 0 \/ ReplanInterval > Len(chunk.actions)
                  THEN Len(chunk.actions) ELSE ReplanInterval
    IN  [i \in 1..take |->
           IF i = take /\ chunk.terminal # "none"
             THEN [chunk.actions[i] EXCEPT !.stop = chunk.terminal]
             ELSE chunk.actions[i]]

\* The indices of a store list not yet shown to the policy.
Unseen(cursor, n) == [i \in 1..(n - cursor) |-> cursor + i]

\* policy.act sees the operator messages and approvals since the last inference.
ShowTails ==
    /\ seenMessages' = seenMessages \o Unseen(msgCursor, messages)
    /\ seenApprovals' = seenApprovals \o Unseen(apprCursor, Len(approvals))

\* Wrong on purpose: the message cursor stays behind (breaks PolicyIsUpToDate).
AdvanceApprovalsOnly ==
    /\ inferences' = inferences + 1
    /\ apprCursor' = Len(approvals)
    /\ UNCHANGED msgCursor

\* Wrong on purpose: the cursor skips the next approval (breaks TypeOK).
AdvanceTooFar ==
    /\ inferences' = inferences + 1
    /\ msgCursor' = IF Attended THEN messages ELSE msgCursor
    /\ apprCursor' = Len(approvals) + 1

\* The new inference is noticed by the rollout, which moves the cursors.
AdvanceCursors ==
    /\ inferences' = inferences + 1
    /\ msgCursor' = IF Attended THEN messages ELSE msgCursor
    /\ apprCursor' = Len(approvals)

\* What becomes of a chunk the policy returned.
Receive(chunk) ==
    /\ AdvanceCursors
    /\ streamOk' \in {streamOk, FALSE}
    /\ stopPending' = (chunk.terminal # "none")
    /\ IF chunk.actions = <<>>
         THEN /\ IF chunk.terminal = "declared" THEN EndTruncated("policy")
                                                ELSE Fail("PolicyError")
              /\ buffer' = <<>>
              /\ UNCHANGED <<cur, member>>
         ELSE /\ Accept(Head(Taken(chunk)))
              /\ buffer' = Tail(Taken(chunk))

\* DefaultActionManager.next_action when it calls the policy; cause is the
\* trigger that dropped the rest of the chunk, or "chunk_end".
Infer(cause) ==
    /\ pc = "act"
    /\ replans' = IF cause = "chunk_end" THEN replans ELSE Append(replans, cause)
    /\ chunkStart' = t
    /\ ShowTails
    /\ \/ \E chunk \in Chunks : Receive(chunk)
       \/ /\ \E exc \in Raisable : Fail(Typed(exc, "PolicyError"))
          /\ buffer' = <<>>
          /\ UNCHANGED <<inferences, msgCursor, apprCursor, streamOk, stopPending,
                         cur, member>>
    /\ UNCHANGED <<t, messages, approvals, reference, consoleVars, platformVars>>

InferAtChunkEnd == buffer = <<>> /\ Infer("chunk_end")
ReplanUnreachable == buffer # <<>> /\ TargetUnreachable /\ Infer("unreachable")
\* GripperSlip fires on what the embodiment measured, which is any time.
ReplanSlip == /\ buffer # <<>> /\ ~TargetUnreachable /\ "slip" \in Triggers
              /\ Infer("slip")

----------------------------------------------------------------------------
\* The guards' turn: GuardChain.review, one member at a time.

\* A member's output; the identity of the action changes only with its value.
Rewrite(v, clamps) ==
    cur' = IF v = cur.v THEN cur
           ELSE [cur EXCEPT !.v = v, !.changed = TRUE,
                            !.clamped = cur.clamped \/ clamps]

ClampMember ==
    /\ Guards[member].kind = "clamp" /\ cur.ok
    /\ Rewrite(Clamped(cur.v), TRUE)

DeltaMember ==
    /\ Guards[member].kind = "delta" /\ cur.ok
    /\ Rewrite(DeltaLimited(cur.v, reference, Guards[member].limit), FALSE)

\* A contributed guard approves, holds an earlier executed pose, or returns
\* something malformed.
ContributedMember ==
    /\ Guards[member].kind = "contributed"
    /\ \/ UNCHANGED cur
       \/ \E i \in 1..Len(executed) :
            cur' = [cur EXCEPT !.v = executed[i].v, !.ok = TRUE,
                               !.changed = TRUE, !.held = TRUE]
       \/ cur' = [cur EXCEPT !.ok = FALSE, !.changed = TRUE]

ReviewMember ==
    /\ pc = "review" /\ member <= Len(Guards)
    /\ ClampMember \/ DeltaMember \/ ContributedMember
    /\ member' = member + 1
    /\ GoOn("review")
    /\ UNCHANGED <<t, storeVars, managerVars, seenVars, reference, consoleVars,
                   platformVars>>

\* ClampGuard and DeltaLimitGuard refuse NaN and shapes they cannot clip; a
\* contributed guard may raise anything.
ReviewRaises ==
    /\ pc = "review" /\ member <= Len(Guards)
    /\ \/ Guards[member].kind # "contributed" /\ ~cur.ok /\ Fail("SafetyAbort")
       \/ /\ Guards[member].kind = "contributed"
          /\ \E exc \in Raisable : Fail(Typed(exc, "SafetyAbort"))
    /\ UNCHANGED <<t, storeVars, managerVars, seenVars, reviewVars, consoleVars,
                   platformVars>>

\* Wrong on purpose: the first approved action never becomes a reference
\* (breaks PlatformSafe).
LimitingOnceKnown == reference.known

\* Does the chain leave a reference: it had one, or a limiter set one.
Limiting == reference.known \/ \E i \in 1..Len(Guards) : Guards[i].kind = "delta"

\* The chain's end: its output is the next reference, a modification is
\* reported, and the result is checked again.
Reviewed ==
    /\ pc = "review" /\ member > Len(Guards)
    /\ reference' = IF Limiting THEN [known |-> TRUE, at |-> cur.v] ELSE reference
    /\ approvals' = IF cur.changed
                      THEN Append(approvals, [t |-> t, clamped |-> cur.clamped])
                      ELSE approvals
    /\ IF cur.ok THEN GoOn("step") ELSE Fail("SafetyAbort")
    /\ UNCHANGED <<t, messages, msgCursor, apprCursor, managerVars, seenVars,
                   cur, member, consoleVars, platformVars>>

----------------------------------------------------------------------------
\* The embodiment's turn, and the record.

Commands == [v : Int, ok : BOOLEAN, held : BOOLEAN]
Command == [v |-> cur.v, ok |-> cur.ok, held |-> cur.held]

Step ==
    /\ pc = "step"
    /\ executed' = Append(executed, Command)
    /\ \/ \E r \in {"running", "terminated", "truncated"} :
            result' = r /\ GoOn("log_step")
       \/ /\ \E exc \in Raisable : Fail(Typed(exc, "EmbodimentFault"))
          /\ result' = "none"
    /\ UNCHANGED <<t, storeVars, managerVars, seenVars, reviewVars, consoleVars, steps>>

\* Wrong on purpose: the policy's stop masks the embodiment's verdict (breaks
\* EndIsTrue).
AfterStepPolicyFirst ==
    IF cur.stop # "none" THEN EndTruncated("policy")
    ELSE IF result = "terminated" THEN EndTerminated("embodiment", FALSE)
    ELSE IF result = "truncated" THEN EndTruncated("embodiment")
    ELSE GoOn("poll")

\* The first of these that holds ends the trial.
AfterStep ==
    IF result = "terminated" THEN EndTerminated("embodiment", FALSE)
    ELSE IF result = "truncated" THEN EndTruncated("embodiment")
    ELSE IF cur.stop # "none" THEN EndTruncated("policy")
    ELSE GoOn("poll")

\* Wrong on purpose: the step that ends the trial is not recorded (breaks
\* TrajectoryIsWhatRan).
RecordStepUnlessLast ==
    /\ pc = "log_step"
    /\ steps' = IF result = "running" THEN Append(steps, Command) ELSE steps
    /\ t' = t + 1
    /\ AfterStep
    /\ UNCHANGED <<storeVars, managerVars, seenVars, reviewVars, consoleVars,
                   executed, result>>

RecordStep ==
    /\ pc = "log_step"
    /\ steps' = Append(steps, Command)
    /\ t' = t + 1
    /\ AfterStep
    /\ UNCHANGED <<storeVars, managerVars, seenVars, reviewVars, consoleVars,
                   executed, result>>

\* The frame store or the sinks' log_step fail.
RecordStepRaises ==
    /\ pc = "log_step"
    /\ Escape
    /\ UNCHANGED <<t, storeVars, managerVars, seenVars, reviewVars, consoleVars,
                   platformVars>>

----------------------------------------------------------------------------
\* Ctrl-C, and the finally clause.

Interrupt ==
    /\ pc \notin {"finally", "done"}
    /\ rec' = [rec EXCEPT !.status = "cancelled"]
    /\ outcome' = "Cancelled"
    /\ attached' = TRUE
    /\ pc' = "finally"
    /\ UNCHANGED <<t, storeVars, managerVars, seenVars, reviewVars, consoleVars,
                   platformVars>>

Finally ==
    /\ pc = "finally"
    /\ consoleOpen' = FALSE
    /\ outcome' = IF outcome = "running" THEN "returned" ELSE outcome
    /\ pc' = "done"
    /\ UNCHANGED <<t, storeVars, managerVars, seenVars, reviewVars, consoleOk, rec,
                   attached, platformVars>>

Done == pc = "done" /\ UNCHANGED vars

Advance ==
    \/ PolicyReset \/ EmbodimentReset \/ BeginTrial
    \/ Horizon \/ NoPoll \/ PollFails \/ Poll
    \/ PlayBuffered \/ InferAtChunkEnd \/ ReplanUnreachable \/ ReplanSlip
    \/ ReviewMember \/ ReviewRaises \/ Reviewed
    \/ Step \/ RecordStep \/ RecordStepRaises \/ Finally

Next == Advance \/ Interrupt \/ Done

\* The trial's thread keeps running: every component call returns or raises.
Spec == Init /\ [][Next]_vars
FairSpec == Spec /\ WF_vars(Advance)

----------------------------------------------------------------------------
\* Properties.

LoopType ==
    /\ pc \in {"policy_reset", "embodiment_reset", "begin_trial", "poll", "act",
               "review", "step", "log_step", "finally", "done"}
    /\ t \in 0..MaxSteps
ConsoleType == consoleOk \in BOOLEAN /\ consoleOpen \in BOOLEAN
\* Both cursors stay within the lists they point into.
StoreType ==
    /\ messages \in Nat /\ msgCursor \in 0..messages
    /\ approvals \in Seq([t : Nat, clamped : BOOLEAN])
    /\ apprCursor \in 0..Len(approvals)
ManagerType ==
    /\ buffer \in Seq(Actions)
    /\ chunkStart \in 0..t /\ inferences \in Nat
    /\ replans \in Seq({"unreachable", "slip"})
    /\ stopPending \in BOOLEAN /\ streamOk \in BOOLEAN
SeenType == seenMessages \in Seq(Nat) /\ seenApprovals \in Seq(Nat)
ReviewType ==
    /\ cur \in [v : Int, ok : BOOLEAN, stop : StopKinds, changed : BOOLEAN,
                clamped : BOOLEAN, held : BOOLEAN]
    /\ member \in 1..(Len(Guards) + 1)
    /\ reference \in [known : BOOLEAN, at : Int]
PlatformType ==
    /\ result \in {"none", "running", "terminated", "truncated"}
    /\ steps \in Seq(Commands) /\ executed \in Seq(Commands)
EndType ==
    /\ rec \in [terminated : BOOLEAN, truncated : BOOLEAN,
                reason : {"none", "operator_end", "horizon", "embodiment", "policy"},
                status : {"success", "error", "cancelled"}, judged : BOOLEAN]
    /\ outcome \in {"running"} \cup TrialOutcomes
    /\ attached \in BOOLEAN

TypeOK == /\ LoopType /\ ConsoleType /\ StoreType /\ ManagerType
          /\ SeenType /\ ReviewType /\ PlatformType /\ EndType

\* Whatever the policy and the guards return, the embodiment is only asked to
\* execute well-formed actions (the two finiteness and dimension checks around
\* the review, rollout.py:577-671), each inside the box when the chain clamps,
\* and each within every delta limit of the chain of the action executed
\* before it, unless a contributed guard chose to hold an earlier pose.
HasClamp == \E i \in 1..Len(Guards) : Guards[i].kind = "clamp"
PlatformSafe ==
    \A k \in 1..Len(executed) :
        /\ executed[k].ok
        /\ HasClamp => InBox(executed[k].v)
        /\ k > 1 /\ ~executed[k].held =>
             \A i \in 1..Len(Guards) : Guards[i].kind = "delta" =>
                 Within(executed[k].v, executed[k-1].v, Guards[i].limit)

\* The record's trajectory is what the platform executed, in order.  Only the
\* very last command can be missing, and only when the trial did not return:
\* it raised, or was interrupted, before the step was recorded.
TrajectoryIsWhatRan ==
    /\ Len(steps) = t
    /\ Len(executed) \in {t, t + 1}
    /\ \A k \in 1..t : steps[k] = executed[k]
    /\ pc \in {"poll", "act", "review"} \/ outcome = "returned" => Len(executed) = t

\* Each time the policy is consulted it has been shown every operator message
\* and every guard modification so far, each exactly once and in order,
\* however many buffered actions were played in between.
PolicyIsUpToDate ==
    [][inferences' # inferences =>
         /\ Attended => seenMessages' = [i \in 1..messages |-> i]
         /\ seenApprovals' = [i \in 1..Len(approvals) |-> i]]_vars

\* The policy's decision to stop is never lost: after a terminal chunk the
\* policy is consulted again only when a trigger dropped that chunk, and the
\* loop does not go on once its last action has run.
StopIsHonoured ==
    [][/\ inferences' # inferences /\ stopPending => replans' # replans
       /\ pc' = "poll" /\ stopPending => buffer # <<>>]_vars

\* One bounds clamp costs at most one replan: a clamp that already made the
\* policy look again does not make it look again for the next chunk.
OneReplanPerClamp ==
    Cardinality({i \in 1..Len(replans) : replans[i] = "unreachable"})
        <= Cardinality({i \in 1..Len(approvals) : approvals[i].clamped})

\* A trial that returns ended for exactly one reason, and for the right one:
\* the embodiment's own verdict outranks the policy's stop, which outranks
\* the horizon; the horizon is only blamed when every step was used.
EndIsTrue ==
    outcome = "returned" =>
        /\ rec.terminated # rec.truncated
        /\ rec.status = "success"
        /\ rec.reason = "horizon" => t = MaxSteps /\ result = "running" /\ cur.stop = "none"
        /\ result \in {"terminated", "truncated"} <=> rec.reason = "embodiment"
        /\ result = "terminated" => rec.terminated
        /\ rec.judged => rec.reason = "operator_end"

\* The console is polled only while a trial is open at it, is never polled
\* again in a trial after it failed, and is given back however the trial ends.
ConsoleBracketed ==
    /\ consoleOk /\ pc \in {"poll", "act", "review", "step", "log_step"} => consoleOpen
    /\ ~consoleOk => ~consoleOpen
    /\ pc = "done" => ~consoleOpen

\* rollout() keeps the contract the orchestrator relies on.
Contract == INSTANCE Trial WITH
    commands <- Len(executed),
    outcome <- IF pc = "done" THEN outcome ELSE "running"
KeepsTrialContract == Contract!TrialSpec
=============================================================================
