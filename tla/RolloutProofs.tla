---------------------------- MODULE RolloutProofs ----------------------------
(***************************************************************************)
(* What TLAPS proves of Rollout, for every budget, replan interval, set of *)
(* triggers, set of chunks and guard chain: its types, and that the        *)
(* platform is only commanded what the chain allows.  And what a trial     *)
(* promises to whoever runs, records and grades it: the record is the run  *)
(* (TrajectoryIsWhatRan), every step is a step of Trial or leaves its      *)
(* variables alone (KeepsTrialContract's safety half), the operator's      *)
(* input is bracketed, the reason of the end is the true one, the policy   *)
(* is shown everything once, its stop is honoured, and a clamp costs at    *)
(* most one replan.                                                        *)
(***************************************************************************)
EXTENDS Rollout, SequenceTheorems, FiniteSetTheorems, TLAPS

\* The loop's body runs only within the budget.
Budget == pc \in {"act", "review", "step", "log_step"} => t < MaxSteps

TypeInv == TypeOK /\ Budget

\* A chunk's playable part: nonempty when the chunk is, and made of actions.
LEMMA TakenType ==
    ASSUME NEW chunk \in Chunks, chunk.actions # <<>>
    PROVE  /\ Taken(chunk) \in Seq(Actions)
           /\ Taken(chunk) # <<>>
<1> DEFINE n == IF ReplanInterval = 0 \/ ReplanInterval > Len(chunk.actions)
                  THEN Len(chunk.actions) ELSE ReplanInterval
           e(i) == IF i = n /\ chunk.terminal # "none"
                     THEN [chunk.actions[i] EXCEPT !.stop = chunk.terminal]
                     ELSE chunk.actions[i]
<1>1. /\ chunk.actions \in Seq(Actions)
      /\ chunk.terminal \in StopKinds
      /\ Len(chunk.actions) \in Nat \ {0}
  BY RolloutAssumption, EmptySeq DEF StopKinds
<1>2. n \in 1..Len(chunk.actions)
  BY <1>1, RolloutAssumption
<1>3. \A i \in 1..n : e(i) \in Actions
  <2> SUFFICES ASSUME NEW i \in 1..n PROVE e(i) \in Actions
    OBVIOUS
  <2>1. chunk.actions[i] \in Actions
    BY <1>1, <1>2, ElementOfSeq
  <2> QED BY <1>1, <2>1 DEF Actions
<1>4. [i \in 1..n |-> e(i)] \in Seq(Actions)
  <2> HIDE DEF e, n
  <2> QED BY <1>2, <1>3, <1>1, IsASeq
<1>5. Taken(chunk) = [i \in 1..n |-> e(i)]
  BY DEF Taken
<1>6. Len(Taken(chunk)) = n
  BY <1>5, <1>2, <1>1
<1> QED BY <1>2, <1>4, <1>5, <1>6, EmptySeq

\* The tail of the chunk the policy played is shown once, as a sequence.
LEMMA UnseenType ==
    ASSUME NEW n \in Nat, NEW cursor \in 0..n
    PROVE  Unseen(cursor, n) \in Seq(Nat)
  BY IsASeq DEF Unseen

LEMMA GuardCount == Len(Guards) \in Nat
  BY RolloutAssumption, LenProperties

\* Type correctness of the initial state.
LEMMA InitTypeInv == Init => TypeInv
<1> SUFFICES ASSUME Init PROVE TypeInv
  OBVIOUS
<1> USE DEF Init
<1>1. LoopType /\ ConsoleType
  <2>1. LoopType
    BY RolloutAssumption DEF LoopType
  <2>2. ConsoleType
    BY RolloutAssumption DEF ConsoleType
  <2> QED BY <2>1, <2>2
<1>2. StoreType /\ SeenType
  BY DEF StoreType, SeenType
<1>3. ManagerType /\ PlatformType
  <2>1. buffer \in Seq(Actions) /\ replans \in Seq({"unreachable", "slip"})
    OBVIOUS
  <2>2. chunkStart \in 0..t /\ inferences \in Nat
    OBVIOUS
  <2>3. stopPending \in BOOLEAN /\ streamOk \in BOOLEAN
    OBVIOUS
  <2>4. PlatformType
    BY DEF PlatformType
  <2> QED BY <2>1, <2>2, <2>3, <2>4 DEF ManagerType
<1>4. EndType
  BY DEF EndType
<1>5. ReviewType
  <2>1. cur \in [v : Int, ok : BOOLEAN, stop : StopKinds, changed : BOOLEAN,
                clamped : BOOLEAN, held : BOOLEAN]
    BY DEF NoAction, StopKinds
  <2>2. member \in 1..(Len(Guards) + 1)
    BY GuardCount
  <2>3. reference \in [known : BOOLEAN, at : Int]
    OBVIOUS
  <2> QED BY <2>1, <2>2, <2>3 DEF ReviewType
<1> QED BY <1>1, <1>2, <1>3, <1>4, <1>5 DEF TypeInv, TypeOK, Budget

\* A group of variables that a step leaves alone keeps its type.
LEMMA Frames ==
    /\ StoreType /\ UNCHANGED storeVars => StoreType'
    /\ ManagerType /\ UNCHANGED <<t, managerVars>> => ManagerType'
    /\ SeenType /\ UNCHANGED seenVars => SeenType'
    /\ ReviewType /\ UNCHANGED reviewVars => ReviewType'
    /\ ConsoleType /\ UNCHANGED consoleVars => ConsoleType'
    /\ EndType /\ UNCHANGED endVars => EndType'
    /\ PlatformType /\ UNCHANGED platformVars => PlatformType'
<1>1. StoreType /\ UNCHANGED storeVars => StoreType'
  BY DEF StoreType, storeVars
<1>2. ManagerType /\ UNCHANGED <<t, managerVars>> => ManagerType'
  BY DEF ManagerType, managerVars
<1>3. SeenType /\ UNCHANGED seenVars => SeenType'
  BY DEF SeenType, seenVars
<1>4. ReviewType /\ UNCHANGED reviewVars => ReviewType'
  BY DEF ReviewType, reviewVars
<1>5. ConsoleType /\ UNCHANGED consoleVars => ConsoleType'
  BY DEF ConsoleType, consoleVars
<1>6. EndType /\ UNCHANGED endVars => EndType'
  BY DEF EndType, endVars
<1>7. PlatformType /\ UNCHANGED platformVars => PlatformType'
  BY DEF PlatformType, platformVars
<1> QED BY <1>1, <1>2, <1>3, <1>4, <1>5, <1>6, <1>7

\* Every way the loop is left or goes on keeps the type of the end variables.
LEMMA FailType == ASSUME EndType, NEW exc \in Raisable, Fail(exc)
                  PROVE  EndType' /\ pc' = "finally"
  BY DEF EndType, Fail, TrialOutcomes

LEMMA TerminatedType ==
    ASSUME EndType, NEW judged \in BOOLEAN,
           NEW reason \in {"operator_end", "embodiment"}, EndTerminated(reason, judged)
    PROVE  EndType' /\ pc' = "finally"
  BY DEF EndType, EndTerminated

LEMMA TruncatedType ==
    ASSUME EndType, NEW reason \in {"horizon", "embodiment", "policy"}, EndTruncated(reason)
    PROVE  EndType' /\ pc' = "finally"
  BY DEF EndType, EndTruncated

LEMMA TypedType == \A exc \in Raisable, default \in Raisable : Typed(exc, default) \in Raisable
  BY DEF Typed

LEMMA Names == {"PolicyError", "EmbodimentFault", "SafetyAbort", "Generic"} \subseteq Raisable
  BY DEF Raisable, TypedErrors, Halts

\* Rollout's checks of an action hand a well-typed action to the guards.
LEMMA AcceptType ==
    ASSUME EndType, ReviewType, NEW action \in Actions, Accept(action), UNCHANGED reference
    PROVE  /\ EndType' /\ ReviewType'
           /\ pc' \in {"review", "finally"}
<1>1. CASE action.ok /\ action.stop # "undeclared"
  <2>1. EndType' /\ pc' = "review"
    BY <1>1, Frames DEF Accept, GoOn
  <2>2. ReviewType'
    <3>1. cur' \in [v : Int, ok : BOOLEAN, stop : StopKinds, changed : BOOLEAN,
                    clamped : BOOLEAN, held : BOOLEAN]
      <4>1. action.v \in Int /\ action.stop \in StopKinds
        BY DEF Actions
      <4>2. cur' = [v |-> action.v, ok |-> TRUE, stop |-> action.stop,
                    changed |-> FALSE, clamped |-> FALSE, held |-> FALSE]
        BY <1>1 DEF Accept
      <4> QED BY <4>1, <4>2
    <3>2. member' \in 1..(Len(Guards) + 1)
      BY <1>1, GuardCount DEF Accept
    <3> QED BY <3>1, <3>2 DEF ReviewType
  <2> QED BY <2>1, <2>2
<1>2. CASE ~(action.ok /\ action.stop # "undeclared")
  <2>1. EndType' /\ pc' = "finally"
    BY <1>2, FailType, Names DEF Accept
  <2>2. ReviewType'
    BY <1>2 DEF Accept, ReviewType
  <2> QED BY <2>1, <2>2
<1> QED BY <1>1, <1>2

\* ... and so does what follows a chunk the policy returned.
LEMMA ReceiveType ==
    ASSUME TypeOK, NEW chunk \in Chunks, Receive(chunk), UNCHANGED <<reference, messages, approvals>>
    PROVE  /\ EndType' /\ ReviewType' /\ StoreType'
           /\ buffer' \in Seq(Actions) /\ inferences' \in Nat
           /\ stopPending' \in BOOLEAN /\ streamOk' \in BOOLEAN
           /\ pc' \in {"review", "finally"}
<1> USE DEF TypeOK
<1>1. inferences' \in Nat /\ stopPending' \in BOOLEAN /\ streamOk' \in BOOLEAN
  <2>1. inferences' \in Nat
    BY DEF Receive, AdvanceCursors, ManagerType
  <2>2. stopPending' \in BOOLEAN
    BY DEF Receive
  <2>3. streamOk' \in BOOLEAN
    BY DEF Receive, ManagerType
  <2> QED BY <2>1, <2>2, <2>3
<1>2. StoreType'
  BY LenProperties DEF Receive, AdvanceCursors, StoreType
<1>3. CASE chunk.actions = <<>>
  <2>1. EndType' /\ pc' = "finally"
    <3>1. CASE chunk.terminal = "declared"
      BY <1>3, <3>1, TruncatedType DEF Receive
    <3>2. CASE chunk.terminal # "declared"
      BY <1>3, <3>2, FailType, Names DEF Receive
    <3> QED BY <3>1, <3>2
  <2>2. ReviewType' /\ buffer' \in Seq(Actions)
    BY <1>3 DEF Receive, ReviewType
  <2> QED BY <1>1, <1>2, <2>1, <2>2
<1>4. CASE chunk.actions # <<>>
  <2>1. /\ Taken(chunk) \in Seq(Actions) /\ Taken(chunk) # <<>>
        /\ Head(Taken(chunk)) \in Actions /\ Tail(Taken(chunk)) \in Seq(Actions)
    BY <1>4, TakenType, HeadTailProperties
  <2>2. Accept(Head(Taken(chunk))) /\ buffer' = Tail(Taken(chunk))
    BY <1>4 DEF Receive
  <2> QED BY <1>1, <1>2, <2>1, <2>2, AcceptType
<1> QED BY <1>3, <1>4

\* ... and the whole turn of the action manager when it consults the policy.
LEMMA InferType ==
    ASSUME TypeInv, NEW cause \in {"unreachable", "slip", "chunk_end"}, Infer(cause)
    PROVE  TypeInv'
<1> USE DEF TypeInv, TypeOK
<1>1. LoopType /\ t < MaxSteps /\ t' = t /\ ConsoleType' /\ PlatformType'
  BY Frames DEF Infer, Budget
<1>2. SeenType'
  BY UnseenType, ConcatProperties, LenProperties DEF Infer, ShowTails, SeenType, StoreType
<1>3. replans' \in Seq({"unreachable", "slip"}) /\ chunkStart' = t
  BY DEF Infer, ManagerType
<1>4. CASE \E chunk \in Chunks : Receive(chunk)
  <2>1. PICK chunk \in Chunks : Receive(chunk)
    BY <1>4
  <2>2. UNCHANGED <<reference, messages, approvals>>
    BY DEF Infer
  <2>3. /\ EndType' /\ ReviewType' /\ StoreType'
        /\ buffer' \in Seq(Actions) /\ inferences' \in Nat
        /\ stopPending' \in BOOLEAN /\ streamOk' \in BOOLEAN
        /\ pc' \in {"review", "finally"}
    BY <2>1, <2>2, ReceiveType
  <2>4. ManagerType' /\ LoopType' /\ Budget'
    BY <1>1, <1>3, <2>3 DEF ManagerType, LoopType, Budget
  <2> QED BY <1>1, <1>2, <2>3, <2>4
<1>5. CASE /\ \E exc \in Raisable : Fail(Typed(exc, "PolicyError"))
           /\ buffer' = <<>>
           /\ UNCHANGED <<inferences, msgCursor, apprCursor, streamOk, stopPending,
                          cur, member>>
  <2>1. EndType' /\ pc' = "finally"
    BY <1>5, FailType, TypedType, Names
  <2>2. StoreType' /\ ReviewType'
    BY <1>5 DEF Infer, StoreType, ReviewType
  <2>3. ManagerType' /\ LoopType' /\ Budget'
    BY <1>1, <1>3, <1>5, <2>1 DEF ManagerType, LoopType, Budget
  <2> QED BY <1>1, <1>2, <2>1, <2>2, <2>3
<1> QED BY <1>4, <1>5 DEF Infer

\* A guard's output has the type of its input.
LEMMA RewriteType ==
    ASSUME ReviewType, NEW v \in Int, NEW clamps \in BOOLEAN, Rewrite(v, clamps)
    PROVE  /\ cur' \in [v : Int, ok : BOOLEAN, stop : StopKinds, changed : BOOLEAN,
                        clamped : BOOLEAN, held : BOOLEAN]
           /\ cur'.v = v /\ cur'.ok = cur.ok /\ cur'.held = cur.held
<1>1. cur \in [v : Int, ok : BOOLEAN, stop : StopKinds, changed : BOOLEAN,
               clamped : BOOLEAN, held : BOOLEAN]
  BY DEF ReviewType
<1>2. (cur.clamped \/ clamps) \in BOOLEAN
  BY <1>1
<1>3. cur' = cur \/ cur' = [cur EXCEPT !.v = v, !.changed = TRUE, !.clamped = cur.clamped \/ clamps]
  BY DEF Rewrite
<1>4. cur' = cur => v = cur.v
  BY <1>1, <1>3 DEF Rewrite
<1> QED BY <1>1, <1>2, <1>3, <1>4

LEMMA ClipType == \A x, lo, hi \in Int : Clip(x, lo, hi) \in Int
  BY DEF Clip

LEMMA ReviewMemberType == TypeInv /\ ReviewMember => ReviewType'
<1> SUFFICES ASSUME TypeInv, ReviewMember PROVE ReviewType'
  OBVIOUS
<1> DEFINE Rec == [v : Int, ok : BOOLEAN, stop : StopKinds, changed : BOOLEAN,
                   clamped : BOOLEAN, held : BOOLEAN]
<1>1. /\ ReviewType /\ cur \in Rec /\ reference \in [known : BOOLEAN, at : Int]
      /\ member \in 1..(Len(Guards) + 1) /\ executed \in Seq(Commands)
  BY DEF TypeInv, TypeOK, ReviewType, PlatformType
<1>2. member' \in 1..(Len(Guards) + 1) /\ Guards[member] \in Members /\ reference' = reference
  BY <1>1, GuardCount, RolloutAssumption, ElementOfSeq DEF ReviewMember
<1>3. CASE ClampMember
  <2>1. Clamped(cur.v) \in Int
    BY <1>1, BoxAssumption, ClipType DEF Clamped
  <2> QED BY <1>1, <1>2, <1>3, <2>1, RewriteType DEF ClampMember, ReviewType
<1>4. CASE DeltaMember
  <2>1. DeltaLimited(cur.v, reference, Guards[member].limit) \in Int
    <3>1. /\ cur.v \in Int /\ reference.at \in Int
          /\ Guards[member].limit \in Int
      BY <1>1, <1>2 DEF Members
    <3>2. /\ reference.at - Guards[member].limit \in Int
          /\ reference.at + Guards[member].limit \in Int
      BY <3>1
    <3> QED BY <3>1, <3>2, ClipType DEF DeltaLimited
  <2> QED BY <1>1, <1>2, <1>4, <2>1, RewriteType DEF DeltaMember, ReviewType
<1>5. CASE ContributedMember
  <2>1. \A i \in 1..Len(executed) : executed[i].v \in Int
    <3> TAKE i \in 1..Len(executed)
    <3>1. executed[i] \in Commands
      BY <1>1, ElementOfSeq
    <3> QED BY <3>1 DEF Commands
  <2>2. cur' \in Rec
    BY <1>1, <1>5, <2>1 DEF ContributedMember
  <2> QED BY <1>2, <1>1, <2>2 DEF ReviewType
<1> QED BY <1>3, <1>4, <1>5 DEF ReviewMember

\* ... and of every step, one action at a time.
LEMMA NextTypeInv == TypeInv /\ [Next]_vars => TypeInv'
<1> SUFFICES ASSUME TypeInv, [Next]_vars PROVE TypeInv'
  OBVIOUS
<1> USE Frames DEF TypeInv, TypeOK, Budget
<1>1. CASE PolicyReset
  <2>1. EndType' /\ pc' \in {"embodiment_reset", "finally"}
    BY <1>1, FailType, TypedType, Names DEF PolicyReset, GoOn
  <2> QED BY <1>1, <2>1 DEF PolicyReset, LoopType
<1>2. CASE EmbodimentReset
  <2>1. EndType' /\ pc' \in {"begin_trial", "finally"}
    BY <1>2, FailType, TypedType, Names DEF EmbodimentReset, GoOn
  <2> QED BY <1>2, <2>1 DEF EmbodimentReset, LoopType
<1>3. CASE BeginTrial
  <2>1. ConsoleType'
    BY <1>3 DEF BeginTrial, ConsoleType, consoleVars
  <2>2. EndType' /\ pc' \in {"poll", "finally"}
    BY <1>3 DEF BeginTrial, GoOn, Escape, EndType, TrialOutcomes
  <2> QED BY <1>3, <2>1, <2>2 DEF BeginTrial, LoopType
<1>4. CASE Horizon
  BY <1>4, TruncatedType DEF Horizon, LoopType
<1>5. CASE NoPoll
  BY <1>5 DEF NoPoll, GoOn, WithinBudget, LoopType
<1>6. CASE PollFails
  BY <1>6 DEF PollFails, GoOn, WithinBudget, LoopType, ConsoleType
<1>7. CASE Poll
  <2>1. PICK n \in 0..(MaxMessages - messages), end \in {"none", "stop", "verdict"} :
          /\ messages' = messages + n
          /\ IF end = "none" THEN GoOn("act")
                            ELSE EndTerminated("operator_end", end = "verdict")
    BY <1>7 DEF Poll
  <2>2. EndType' /\ pc' \in {"act", "finally"}
    BY <2>1, TerminatedType DEF GoOn
  <2>3. StoreType'
    BY <1>7, <2>1, RolloutAssumption DEF Poll, StoreType
  <2> QED BY <1>7, <2>2, <2>3 DEF Poll, WithinBudget, LoopType
<1>8. CASE PlayBuffered
  <2>1. Head(buffer) \in Actions /\ Tail(buffer) \in Seq(Actions)
    BY <1>8, HeadTailProperties DEF PlayBuffered, ManagerType
  <2>2. EndType' /\ ReviewType' /\ pc' \in {"review", "finally"}
    BY <1>8, <2>1, AcceptType DEF PlayBuffered
  <2>3. ManagerType'
    BY <1>8, <2>1 DEF PlayBuffered, ManagerType
  <2> QED BY <1>8, <2>2, <2>3 DEF PlayBuffered, LoopType, storeVars
<1>9. CASE InferAtChunkEnd \/ ReplanUnreachable \/ ReplanSlip
  BY <1>9, InferType DEF InferAtChunkEnd, ReplanUnreachable, ReplanSlip
<1>10. CASE ReviewMember
  BY <1>10, ReviewMemberType DEF ReviewMember, GoOn, LoopType
<1>11. CASE ReviewRaises
  <2>1. EndType' /\ pc' = "finally"
    BY <1>11, FailType, TypedType, Names DEF ReviewRaises
  <2> QED BY <1>11, <2>1 DEF ReviewRaises, LoopType
<1>12. CASE Reviewed
  <2>1. EndType' /\ pc' \in {"step", "finally"}
    BY <1>12, FailType, Names DEF Reviewed, GoOn
  <2>2. StoreType'
    <3>1. t \in Nat /\ cur.clamped \in BOOLEAN
      BY RolloutAssumption DEF LoopType, ReviewType
    <3>2. [t |-> t, clamped |-> cur.clamped] \in [t : Nat, clamped : BOOLEAN]
      BY <3>1
    <3>3. \/ approvals' = Append(approvals, [t |-> t, clamped |-> cur.clamped])
          \/ approvals' = approvals
      BY <1>12 DEF Reviewed
    <3> DEFINE Approval == [t : Nat, clamped : BOOLEAN]
               a == [t |-> t, clamped |-> cur.clamped]
    <3>4. approvals \in Seq(Approval) /\ a \in Approval
      BY <3>2 DEF StoreType
    <3>5. approvals' = Append(approvals, a) \/ approvals' = approvals
      BY <3>3
    <3> HIDE DEF Approval, a
    <3>6. /\ approvals' \in Seq(Approval) /\ Len(approvals) \in Nat
          /\ Len(approvals') \in {Len(approvals), Len(approvals) + 1}
      BY <3>4, <3>5, AppendProperties, LenProperties
    <3> QED BY <1>12, <3>6 DEF Reviewed, StoreType, Approval
  <2>3. ReviewType'
    BY <1>12 DEF Reviewed, ReviewType
  <2> QED BY <1>12, <2>1, <2>2, <2>3 DEF Reviewed, LoopType
<1>13. CASE Step
  <2>1. EndType' /\ pc' \in {"log_step", "finally"} /\ result' \in {"none", "running", "terminated", "truncated"}
    BY <1>13, FailType, TypedType, Names DEF Step, GoOn
  <2>2. Command \in Commands
    BY DEF Command, Commands, ReviewType
  <2>3. PlatformType'
    BY <1>13, <2>1, <2>2 DEF Step, PlatformType
  <2> QED BY <1>13, <2>1, <2>3 DEF Step, LoopType
<1>14. CASE RecordStep
  <2>1. EndType' /\ pc' \in {"poll", "finally"}
    BY <1>14, TerminatedType, TruncatedType DEF RecordStep, AfterStep, GoOn
  <2>2. PlatformType'
    <3>1. Command \in Commands
      BY DEF Command, Commands, ReviewType
    <3> QED BY <1>14, <3>1 DEF RecordStep, PlatformType
  <2>3. LoopType' /\ ManagerType'
    BY <1>14, <2>1, RolloutAssumption DEF RecordStep, LoopType, ManagerType, managerVars
  <2> QED BY <1>14, <2>1, <2>2, <2>3 DEF RecordStep
<1>15. CASE RecordStepRaises
  <2>1. EndType'
    BY <1>15 DEF RecordStepRaises, Escape, EndType, TrialOutcomes
  <2> QED BY <1>15, <2>1 DEF RecordStepRaises, Escape, LoopType
<1>16. CASE Finally
  <2>1. EndType'
    BY <1>16 DEF Finally, EndType, TrialOutcomes
  <2>2. ReviewType' /\ ConsoleType'
    BY <1>16 DEF Finally, ConsoleType
  <2> QED BY <1>16, <2>1, <2>2 DEF Finally, LoopType
<1>17. CASE Interrupt
  <2>1. EndType'
    BY <1>17 DEF Interrupt, EndType, TrialOutcomes
  <2> QED BY <1>17, <2>1 DEF Interrupt, LoopType
<1>18. CASE UNCHANGED vars
  BY <1>18 DEF vars, LoopType
<1>19. CASE Done
  BY <1>18, <1>19 DEF Done
<1> QED
  BY <1>1, <1>2, <1>3, <1>4, <1>5, <1>6, <1>7, <1>8, <1>9, <1>10, <1>11, <1>12,
     <1>13, <1>14, <1>15, <1>16, <1>17, <1>18, <1>19 DEF Next, Advance

\* Type correctness, which also bounds the step counter by the budget and the
\* two inference cursors by the lists they point into.
THEOREM TypeCorrect == Spec => []TypeOK
<1>1. Spec => []TypeInv
  BY InitTypeInv, NextTypeInv, PTL DEF Spec
<1> QED BY <1>1, PTL DEF TypeInv

----------------------------------------------------------------------------
(***************************************************************************)
(* PlatformSafe for every guard chain.  It is not inductive: it speaks of  *)
(* executed actions only.  PlatformInv adds what the loop knows between    *)
(* two commands: where the limiters' reference is (ReferenceInv), what the *)
(* members that already reviewed the action guarantee (ReviewInv), and     *)
(* that the chain's end hands all of it to the step (StepInv).             *)
(***************************************************************************)

HasDelta == \E i \in 1..Len(Guards) : Guards[i].kind = "delta"
Last == executed[Len(executed)].v

\* The action is within every limit of the chain's first n members of r.
LimitsHold(v, r, n) ==
    \A i \in 1..n : Guards[i].kind = "delta" => Within(v, r, Guards[i].limit)

ReferenceInv ==
    pc \notin {"step", "finally", "done"} =>
        /\ reference.known => Len(executed) > 0 /\ reference.at = Last
        /\ HasDelta /\ Len(executed) > 0 => reference.known

ReviewInv ==
    pc = "review" =>
        /\ (\E i \in 1..(member - 1) : Guards[i].kind = "clamp") => InBox(cur.v)
        /\ reference.known /\ ~cur.held => LimitsHold(cur.v, reference.at, member - 1)

StepInv ==
    pc = "step" =>
        /\ cur.ok
        /\ HasClamp => InBox(cur.v)
        /\ Len(executed) > 0 /\ ~cur.held => LimitsHold(cur.v, Last, Len(Guards))
        /\ reference.known => reference.at = cur.v
        /\ HasDelta => reference.known

PlatformInv == TypeInv /\ PlatformSafe /\ ReferenceInv /\ ReviewInv /\ StepInv

----------------------------------------------------------------------------
\* The arithmetic of the two numeric guards.

\* A limiter never moves an action out of the box when its reference is in it.
LEMMA LimitInBox ==
    ASSUME NEW x \in Int, NEW r \in Int, NEW limit \in Nat, InBox(x), InBox(r)
    PROVE  InBox(Clip(x, r - limit, r + limit))
  BY BoxAssumption DEF InBox, Clip

\* A limiter keeps what an earlier, tighter or looser, limiter established.
LEMMA LimitKeepsLimit ==
    ASSUME NEW x \in Int, NEW r \in Int, NEW limit \in Nat, NEW other \in Nat,
           Within(x, r, other)
    PROVE  Within(Clip(x, r - limit, r + limit), r, other)
  BY DEF Within, Clip

LEMMA LimitLimits ==
    ASSUME NEW x \in Int, NEW r \in Int, NEW limit \in Nat
    PROVE  Within(Clip(x, r - limit, r + limit), r, limit)
  BY DEF Within, Clip

\* Clamping to a box that holds the reference keeps every limit.
LEMMA ClampKeepsLimit ==
    ASSUME NEW x \in Int, NEW r \in Int, NEW other \in Nat, Within(x, r, other), InBox(r)
    PROVE  Within(Clamped(x), r, other)
  BY BoxAssumption DEF Within, Clip, Clamped, InBox

LEMMA ClampInBox == \A x \in Int : InBox(Clamped(x))
  BY BoxAssumption DEF Clip, Clamped, InBox

----------------------------------------------------------------------------
LEMMA InitPlatformInv == Init => PlatformInv
  BY InitTypeInv DEF Init, PlatformInv, PlatformSafe, ReferenceInv, ReviewInv, StepInv

\* A step that neither commands nor reviews, and that goes to neither.
LEMMA QuietStep ==
    ASSUME PlatformInv, TypeInv', UNCHANGED <<executed, reference>>,
           pc' \in {"finally", "done"} \/ (pc # "step" /\ pc' \notin {"step", "review"}),
           pc \in {"finally", "done"} => pc' \in {"finally", "done"}
    PROVE  PlatformInv'
  BY DEF PlatformInv, PlatformSafe, ReferenceInv, ReviewInv, StepInv, HasClamp,
         HasDelta, Last

\* A step that hands a fresh action to the first member.
LEMMA FreshAction ==
    ASSUME PlatformInv, TypeInv', UNCHANGED <<executed, reference>>, pc = "act",
           pc' = "review", member' = 1
    PROVE  PlatformInv'
  BY DEF PlatformInv, PlatformSafe, ReferenceInv, ReviewInv, StepInv, HasClamp,
         HasDelta, Last, LimitsHold

LEMMA AcceptSafe ==
    ASSUME PlatformInv, TypeInv', UNCHANGED <<executed, reference>>, pc = "act",
           NEW action, Accept(action)
    PROVE  PlatformInv'
<1>1. CASE pc' = "review" /\ member' = 1
  BY <1>1, FreshAction
<1>2. CASE pc' = "finally"
  BY <1>2, QuietStep
<1> QED BY <1>1, <1>2 DEF Accept, GoOn, Fail

----------------------------------------------------------------------------
\* One member of the chain.  The box survives the limiters because the
\* reference, an executed action, is in it; the limits survive the clamp for
\* the same reason, and other limiters because all measure from one reference.
LEMMA MemberSafe == PlatformInv /\ ReviewMember /\ TypeInv' => PlatformInv'
<1> SUFFICES ASSUME PlatformInv, ReviewMember, TypeInv' PROVE PlatformInv'
  OBVIOUS
<1>1. /\ pc = "review" /\ pc' = "review" /\ member' = member + 1 /\ member \in 1..Len(Guards)
      /\ UNCHANGED <<executed, reference>>
  BY GuardCount DEF ReviewMember, GoOn, platformVars, PlatformInv, TypeInv, TypeOK,
     ReviewType
<1>2. /\ cur.v \in Int /\ cur'.v \in Int /\ reference.at \in Int /\ Len(Guards) \in Nat
      /\ executed \in Seq(Commands)
  BY GuardCount DEF PlatformInv, TypeInv, TypeOK, ReviewType, PlatformType
<1>3. \A i \in 1..Len(Guards) : Guards[i].limit \in Nat
  <2> TAKE i \in 1..Len(Guards)
  <2>1. Guards[i] \in Members
    BY RolloutAssumption, ElementOfSeq
  <2> QED BY <2>1 DEF Members
<1>4. HasClamp /\ reference.known => InBox(reference.at)
  BY <1>1, <1>2, LenProperties DEF PlatformInv, PlatformSafe, ReferenceInv, Last
<1>5. ReferenceInv' /\ StepInv' /\ PlatformSafe'
  BY <1>1 DEF PlatformInv, PlatformSafe, ReferenceInv, StepInv, HasClamp, HasDelta, Last
<1>6. \A i \in 1..(member' - 1) : i = member \/ i \in 1..(member - 1)
  BY <1>1
<1>7. ASSUME ClampMember PROVE ReviewInv'
  <2>1. Guards[member].kind = "clamp" /\ HasClamp /\ cur'.v = Clamped(cur.v) /\ cur'.held = cur.held
    <3>1. Clamped(cur.v) \in Int
      BY <1>2, BoxAssumption, ClipType DEF Clamped
    <3> QED
      BY <1>1, <1>7, <3>1, RewriteType DEF ClampMember, HasClamp, PlatformInv, TypeInv, TypeOK
  <2>2. InBox(cur'.v)
    BY <1>2, <2>1, ClampInBox
  <2>3. ASSUME reference.known, ~cur.held, NEW i \in 1..(member' - 1), Guards[i].kind = "delta"
        PROVE  Within(cur'.v, reference.at, Guards[i].limit)
    <3>1. i \in 1..(member - 1) /\ i \in 1..Len(Guards)
      BY <1>1, <1>6, <2>1, <2>3
    <3>2. Within(cur.v, reference.at, Guards[i].limit)
      BY <1>1, <2>3, <3>1 DEF PlatformInv, ReviewInv, LimitsHold
    <3> QED BY <1>2, <1>3, <1>4, <2>1, <2>3, <3>1, <3>2, ClampKeepsLimit
  <2> QED BY <1>1, <2>1, <2>2, <2>3 DEF ReviewInv, LimitsHold
<1>8. ASSUME DeltaMember PROVE ReviewInv'
  <2> DEFINE limit == Guards[member].limit
             out == DeltaLimited(cur.v, reference, limit)
  <2>1. /\ Guards[member].kind = "delta" /\ limit \in Nat
        /\ cur'.v = out /\ cur'.held = cur.held
    <3>1. limit \in Nat
      BY <1>1, <1>3
    <3>2. reference.at - limit \in Int /\ reference.at + limit \in Int
      BY <1>2, <3>1
    <3>3. out \in Int
      BY <1>2, <3>2, ClipType DEF DeltaLimited
    <3> QED
      BY <1>8, <3>1, <3>3, RewriteType DEF DeltaMember, PlatformInv, TypeInv, TypeOK
  <2>2. ASSUME NEW i \in 1..(member' - 1), Guards[i].kind = "clamp"
        PROVE  InBox(cur'.v)
    <3>1. i \in 1..(member - 1) /\ HasClamp
      BY <1>1, <1>6, <2>1, <2>2 DEF HasClamp
    <3>2. InBox(cur.v)
      BY <1>1, <2>2, <3>1 DEF PlatformInv, ReviewInv
    <3>3. CASE reference.known
      BY <1>2, <1>4, <2>1, <3>1, <3>2, <3>3, LimitInBox DEF DeltaLimited
    <3>4. CASE ~reference.known
      BY <2>1, <3>2, <3>4 DEF DeltaLimited
    <3> QED BY <3>3, <3>4
  <2>3. ASSUME reference.known, ~cur.held, NEW i \in 1..(member' - 1), Guards[i].kind = "delta"
        PROVE  Within(cur'.v, reference.at, Guards[i].limit)
    <3>1. cur'.v = Clip(cur.v, reference.at - limit, reference.at + limit)
      BY <2>1, <2>3 DEF DeltaLimited
    <3>2. CASE i = member
      BY <1>2, <2>1, <3>1, <3>2, LimitLimits
    <3>3. CASE i \in 1..(member - 1)
      <4>1. Within(cur.v, reference.at, Guards[i].limit)
        BY <1>1, <2>3, <3>3 DEF PlatformInv, ReviewInv, LimitsHold
      <4>2. Guards[i].limit \in Nat
        BY <1>1, <1>2, <1>3, <3>3
      <4> QED BY <1>2, <2>1, <3>1, <4>1, <4>2, LimitKeepsLimit
    <3> QED BY <1>6, <3>2, <3>3
  <2> QED BY <1>1, <2>1, <2>2, <2>3 DEF ReviewInv, LimitsHold
<1>9. ASSUME ContributedMember PROVE ReviewInv'
  <2>1. Guards[member].kind = "contributed"
    BY <1>9 DEF ContributedMember
  <2>2. CASE cur'.v = cur.v /\ cur'.held = cur.held
    BY <1>1, <1>6, <2>1, <2>2 DEF PlatformInv, ReviewInv, LimitsHold
  <2>3. CASE \E i \in 1..Len(executed) : cur'.v = executed[i].v /\ cur'.held = TRUE
    <3>1. HasClamp => InBox(cur'.v)
      BY <2>3 DEF PlatformInv, PlatformSafe
    <3>2. (\E i \in 1..(member' - 1) : Guards[i].kind = "clamp") => HasClamp
      BY <1>1 DEF HasClamp
    <3> QED BY <1>1, <2>3, <3>1, <3>2 DEF ReviewInv
  <2>4. cur \in [v : Int, ok : BOOLEAN, stop : StopKinds, changed : BOOLEAN,
                 clamped : BOOLEAN, held : BOOLEAN]
    BY DEF PlatformInv, TypeInv, TypeOK, ReviewType
  <2> QED BY <1>9, <2>2, <2>3, <2>4 DEF ContributedMember
<1> QED BY <1>5, <1>7, <1>8, <1>9 DEF ReviewMember, PlatformInv

\* The chain's end turns what the members established into the step's licence.
LEMMA ReviewedSafe == PlatformInv /\ Reviewed /\ TypeInv' => PlatformInv'
<1> SUFFICES ASSUME PlatformInv, Reviewed, TypeInv' PROVE PlatformInv'
  OBVIOUS
<1>1. /\ pc = "review" /\ UNCHANGED <<executed, cur>>
      /\ member = Len(Guards) + 1 /\ Len(Guards) \in Nat
  BY GuardCount DEF Reviewed, platformVars, PlatformInv, TypeInv, TypeOK, ReviewType
<1>2. CASE cur.ok /\ pc' = "step"
  <2>1. HasClamp => InBox(cur.v)
    BY <1>1 DEF HasClamp, PlatformInv, ReviewInv
  <2>2. ASSUME Len(executed) > 0, ~cur.held PROVE LimitsHold(cur.v, Last, Len(Guards))
    BY <1>1, <2>2 DEF HasDelta, LimitsHold, PlatformInv, ReviewInv, ReferenceInv
  <2>3. HasDelta => Limiting
    BY DEF HasDelta, Limiting
  <2>4. (reference.known)' = Limiting /\ (Limiting => (reference.at)' = cur.v)
    BY DEF Reviewed, Limiting, PlatformInv, TypeInv, TypeOK, ReviewType
  <2>5. StepInv' /\ ReferenceInv' /\ ReviewInv' /\ PlatformSafe'
    BY <1>1, <1>2, <2>1, <2>2, <2>3, <2>4 DEF StepInv, ReferenceInv, ReviewInv,
       PlatformInv, PlatformSafe, HasClamp, HasDelta, LimitsHold, Last
  <2> QED BY <2>5 DEF PlatformInv
<1>3. CASE pc' = "finally"
  BY <1>1, <1>3 DEF StepInv, ReferenceInv, ReviewInv, PlatformInv, PlatformSafe, HasClamp
<1> QED BY <1>2, <1>3 DEF Reviewed, GoOn, Fail

\* The command the licence was for.
LEMMA StepSafe == PlatformInv /\ Step /\ TypeInv' => PlatformInv'
<1> SUFFICES ASSUME PlatformInv, Step, TypeInv' PROVE PlatformInv'
  OBVIOUS
<1> DEFINE n == Len(executed)
<1>1. /\ pc = "step" /\ executed' = Append(executed, Command)
      /\ UNCHANGED <<reference, cur>> /\ pc' \in {"log_step", "finally"}
  BY DEF Step, GoOn, Fail, reviewVars
<1>2. /\ executed \in Seq(Commands) /\ Command \in Commands /\ n \in Nat
      /\ Command.v = cur.v /\ Command.ok = cur.ok /\ Command.held = cur.held
  BY LenProperties DEF PlatformInv, TypeInv, TypeOK, PlatformType, ReviewType, Command,
     Commands
<1>3. /\ Len(executed') = n + 1 /\ executed'[n + 1] = Command
      /\ \A k \in 1..n : executed'[k] = executed[k]
  BY <1>1, <1>2, AppendProperties
<1>4. PlatformSafe'
  <2> SUFFICES ASSUME NEW k \in 1..(n + 1)
               PROVE  /\ executed'[k].ok
                      /\ HasClamp => InBox(executed'[k].v)
                      /\ k > 1 /\ ~executed'[k].held =>
                           \A i \in 1..Len(Guards) : Guards[i].kind = "delta" =>
                               Within(executed'[k].v, executed'[k-1].v, Guards[i].limit)
    BY <1>3 DEF PlatformSafe, HasClamp
  <2>1. CASE k \in 1..n
    <3>1. executed'[k] = executed[k] /\ (k > 1 => executed'[k-1] = executed[k-1])
      BY <1>2, <1>3, <2>1
    <3> QED BY <2>1, <3>1 DEF PlatformInv, PlatformSafe
  <2>2. CASE k = n + 1
    <3>1. executed'[k] = Command /\ (k > 1 => executed'[k-1].v = Last)
      BY <1>2, <1>3, <2>2 DEF Last
    <3>2. StepInv /\ pc = "step"
      BY <1>1 DEF PlatformInv
    <3> QED BY <1>2, <2>2, <3>1, <3>2 DEF StepInv, LimitsHold
  <2> QED BY <1>2, <2>1, <2>2
<1>5. ReferenceInv' /\ ReviewInv' /\ StepInv'
  BY <1>1, <1>2, <1>3 DEF ReferenceInv, ReviewInv, StepInv, PlatformInv, Last, HasDelta
<1> QED BY <1>4, <1>5 DEF PlatformInv

LEMMA InferSafe ==
    ASSUME PlatformInv, TypeInv', NEW cause, Infer(cause)
    PROVE  PlatformInv'
<1>1. pc = "act" /\ UNCHANGED <<executed, reference>>
  BY DEF Infer, platformVars
<1>2. CASE \E chunk \in Chunks : Receive(chunk)
  <2>1. PICK chunk \in Chunks : Receive(chunk)
    BY <1>2
  <2>2. CASE chunk.actions = <<>>
    BY <1>1, <2>1, <2>2, QuietStep DEF Receive, EndTruncated, Fail
  <2>3. CASE chunk.actions # <<>>
    BY <1>1, <2>1, <2>3, AcceptSafe DEF Receive
  <2> QED BY <2>2, <2>3
<1>3. CASE \E exc \in Raisable : Fail(Typed(exc, "PolicyError"))
  BY <1>1, <1>3, QuietStep DEF Fail
<1> QED BY <1>2, <1>3 DEF Infer

LEMMA NextPlatformInv == PlatformInv /\ [Next]_vars => PlatformInv'
<1> SUFFICES ASSUME PlatformInv, [Next]_vars PROVE PlatformInv'
  OBVIOUS
<1>0. TypeInv'
  BY NextTypeInv DEF PlatformInv
<1> USE <1>0 DEF platformVars, reviewVars, GoOn, Fail, Escape, EndTerminated, EndTruncated
<1>1. CASE PolicyReset \/ EmbodimentReset \/ BeginTrial
  BY <1>1, QuietStep DEF PolicyReset, EmbodimentReset, BeginTrial
<1>2. CASE Horizon \/ NoPoll \/ PollFails \/ Poll
  BY <1>2, QuietStep DEF Horizon, NoPoll, PollFails, Poll
<1>3. CASE PlayBuffered
  BY <1>3, AcceptSafe DEF PlayBuffered
<1>4. CASE InferAtChunkEnd \/ ReplanUnreachable \/ ReplanSlip
  BY <1>4, InferSafe DEF InferAtChunkEnd, ReplanUnreachable, ReplanSlip
<1>5. CASE ReviewMember
  BY <1>5, MemberSafe
<1>6. CASE ReviewRaises
  BY <1>6, QuietStep DEF ReviewRaises
<1>7. CASE Reviewed
  BY <1>7, ReviewedSafe
<1>8. CASE Step
  BY <1>8, StepSafe
<1>9. CASE RecordStep \/ RecordStepRaises
  BY <1>9, QuietStep DEF RecordStep, RecordStepRaises, AfterStep
<1>10. CASE Finally \/ Interrupt
  BY <1>10, QuietStep DEF Finally, Interrupt
<1>11. CASE UNCHANGED vars \/ Done
  BY <1>11 DEF Done, vars, PlatformInv, PlatformSafe, ReferenceInv, ReviewInv, StepInv,
     HasClamp, HasDelta, Last, LimitsHold
<1> QED
  BY <1>1, <1>2, <1>3, <1>4, <1>5, <1>6, <1>7, <1>8, <1>9, <1>10, <1>11 DEF Next, Advance

\* Whatever the policy returns and whatever contributed guards do, a command is
\* well formed, inside the box when the chain clamps, and within every limit
\* of the chain of the command before it unless a contributed guard held a pose.
THEOREM PlatformIsSafe == Spec => []PlatformSafe
<1>1. Spec => []PlatformInv
  BY InitPlatformInv, NextPlatformInv, PTL DEF Spec
<1> QED BY <1>1, PTL DEF PlatformInv

----------------------------------------------------------------------------
\* Where the record stands against the platform at each point of the loop.
TrajectoryInv ==
    /\ Len(steps) = t
    /\ Len(executed) \in {t, t + 1}
    /\ \A k \in 1..t : steps[k] = executed[k]
    /\ pc \notin {"log_step", "finally", "done"} => Len(executed) = t
    /\ pc = "log_step" => Len(executed) = t + 1 /\ executed[t + 1] = Command

\* The outcome is decided when the loop is left, and "returned" only by finally.
OutcomeInv ==
    /\ pc \notin {"finally", "done"} => outcome = "running"
    /\ pc # "done" => outcome # "returned"
    /\ pc = "done" => outcome # "running"
    /\ outcome = "returned" \/ (pc = "finally" /\ outcome = "running") =>
         Len(executed) = t

ContractInv == TypeInv /\ TrajectoryInv /\ OutcomeInv

LEMMA InitContractInv == Init => ContractInv
  BY InitTypeInv DEF Init, ContractInv, TrajectoryInv, OutcomeInv

\* Leaving the loop's body, or going on in it, without a command or a record.
LEMMA QuietContract ==
    ASSUME ContractInv, TypeInv', UNCHANGED <<executed, steps, t>>,
           pc \notin {"finally", "done"},
           \/ pc' = "finally" /\ outcome' \in Raisable \cup {"Cancelled"}
           \/ /\ pc # "log_step" /\ outcome' = outcome
              /\ pc' \notin {"log_step", "done"}
    PROVE  ContractInv'
<1>1. outcome' # "returned" /\ (pc' = "finally" /\ outcome' = "running" => pc # "log_step")
  BY DEF ContractInv, OutcomeInv, Raisable, TypedErrors, Halts
<1> QED
  BY <1>1 DEF ContractInv, TrajectoryInv, OutcomeInv, Raisable, TypedErrors, Halts

LEMMA StepContract == ContractInv /\ Step /\ TypeInv' => ContractInv'
<1> SUFFICES ASSUME ContractInv, Step, TypeInv' PROVE ContractInv'
  OBVIOUS
<1>1. /\ pc = "step" /\ executed' = Append(executed, Command) /\ UNCHANGED <<steps, t, cur>>
      /\ \/ pc' = "log_step" /\ outcome' = outcome
         \/ pc' = "finally" /\ outcome' \in Raisable
  BY TypedType, Names DEF Step, GoOn, Fail, reviewVars, endVars
<1>2. executed \in Seq(Commands) /\ Command \in Commands /\ t \in Nat
  BY RolloutAssumption DEF ContractInv, TypeInv, TypeOK, PlatformType, ReviewType,
     LoopType, Command, Commands
<1>3. Len(executed) = t /\ Len(executed') = t + 1 /\ executed'[t + 1] = Command
  BY <1>1, <1>2, AppendProperties DEF ContractInv, TrajectoryInv
<1>4. \A k \in 1..t : executed'[k] = executed[k]
  BY <1>1, <1>2, <1>3, AppendProperties
<1>5. Command' = Command
  BY <1>1 DEF Command
<1>6. TrajectoryInv'
  BY <1>1, <1>2, <1>3, <1>4, <1>5 DEF ContractInv, TrajectoryInv
<1>7. OutcomeInv'
  BY <1>1 DEF ContractInv, OutcomeInv, Raisable, TypedErrors, Halts
<1> QED BY <1>6, <1>7 DEF ContractInv

LEMMA RecordContract == ContractInv /\ RecordStep /\ TypeInv' => ContractInv'
<1> SUFFICES ASSUME ContractInv, RecordStep, TypeInv' PROVE ContractInv'
  OBVIOUS
<1>1. /\ pc = "log_step" /\ steps' = Append(steps, Command) /\ t' = t + 1
      /\ UNCHANGED <<executed, outcome>> /\ pc' \in {"poll", "finally"}
  BY DEF RecordStep, AfterStep, GoOn, EndTerminated, EndTruncated, endVars
<1>2. steps \in Seq(Commands) /\ Command \in Commands /\ t \in Nat
  BY RolloutAssumption DEF ContractInv, TypeInv, TypeOK, PlatformType, ReviewType,
     LoopType, Command, Commands
<1>3. Len(steps') = t + 1 /\ steps'[t + 1] = Command
  BY <1>1, <1>2, AppendProperties DEF ContractInv, TrajectoryInv
<1>4. \A k \in 1..t : steps'[k] = steps[k]
  BY <1>1, <1>2, <1>3, AppendProperties DEF ContractInv, TrajectoryInv
<1>5. TrajectoryInv'
  BY <1>1, <1>2, <1>3, <1>4 DEF ContractInv, TrajectoryInv
<1>6. OutcomeInv'
  BY <1>1, <1>2 DEF ContractInv, TrajectoryInv, OutcomeInv
<1> QED BY <1>5, <1>6 DEF ContractInv

LEMMA InferContract ==
    ASSUME ContractInv, TypeInv', NEW cause, Infer(cause)
    PROVE  ContractInv'
<1>1. pc = "act" /\ UNCHANGED <<executed, steps, t>>
  BY DEF Infer, platformVars
<1>2. \/ pc' = "finally" /\ outcome' \in Raisable
      \/ pc' \in {"review", "finally"} /\ outcome' = outcome
  <2>1. CASE \E chunk \in Chunks : Receive(chunk)
    BY <2>1, Names DEF Receive, Accept, GoOn, Fail, EndTruncated, endVars
  <2>2. CASE \E exc \in Raisable : Fail(Typed(exc, "PolicyError"))
    BY <2>2, TypedType, Names DEF Fail
  <2> QED BY <2>1, <2>2 DEF Infer
<1> QED BY <1>1, <1>2, QuietContract

LEMMA NextContractInv == ContractInv /\ [Next]_vars => ContractInv'
<1> SUFFICES ASSUME ContractInv, [Next]_vars PROVE ContractInv'
  OBVIOUS
<1>0. TypeInv'
  BY NextTypeInv DEF ContractInv
<1> USE <1>0 DEF platformVars, GoOn, Fail, Escape, EndTerminated, EndTruncated, endVars
<1>1. CASE PolicyReset \/ EmbodimentReset \/ BeginTrial
  BY <1>1, QuietContract, TypedType, Names DEF PolicyReset, EmbodimentReset, BeginTrial
<1>2. CASE Horizon \/ NoPoll \/ PollFails \/ Poll
  BY <1>2, QuietContract DEF Horizon, NoPoll, PollFails, Poll
<1>3. CASE PlayBuffered
  BY <1>3, QuietContract, Names DEF PlayBuffered, Accept
<1>4. CASE InferAtChunkEnd \/ ReplanUnreachable \/ ReplanSlip
  BY <1>4, InferContract DEF InferAtChunkEnd, ReplanUnreachable, ReplanSlip
<1>5. CASE ReviewMember \/ ReviewRaises \/ Reviewed
  BY <1>5, QuietContract, TypedType, Names DEF ReviewMember, ReviewRaises, Reviewed
<1>6. CASE Step
  BY <1>6, StepContract
<1>7. CASE RecordStep
  BY <1>7, RecordContract
<1>8. CASE RecordStepRaises \/ Interrupt
  BY <1>8, QuietContract DEF RecordStepRaises, Interrupt, Raisable, TypedErrors
<1>9. CASE Finally
  BY <1>9 DEF Finally, ContractInv, TrajectoryInv, OutcomeInv
<1>10. CASE UNCHANGED vars \/ Done
  BY <1>10 DEF Done, vars, reviewVars, ContractInv, TrajectoryInv, OutcomeInv, Command
<1> QED
  BY <1>1, <1>2, <1>3, <1>4, <1>5, <1>6, <1>7, <1>8, <1>9, <1>10 DEF Next, Advance

LEMMA ContractInvariant == Spec => []ContractInv
  BY InitContractInv, NextContractInv, PTL DEF Spec

\* The record is the run: nothing is recorded that the platform was not asked
\* to execute, and at most the last command of a trial that did not return is
\* missing from it.
THEOREM TrajectoryIsFaithful == Spec => []TrajectoryIsWhatRan
<1>1. ContractInv => TrajectoryIsWhatRan
  BY DEF ContractInv, TrajectoryInv, OutcomeInv, TrajectoryIsWhatRan
<1> QED BY <1>1, ContractInvariant, PTL

----------------------------------------------------------------------------
\* The safety half of the contract: at most MaxSteps commands, one at a time,
\* none once the trial ended, and one outcome.
THEOREM RolloutImplementsTrial == Spec => Contract!TrialSafety
<1>1. Init => Contract!TrialInit
  BY DEF Init, Contract!TrialInit
<1>2. ContractInv /\ ContractInv' /\ [Next]_vars => [Contract!TrialNext]_(Contract!trialVars)
  <2> SUFFICES ASSUME ContractInv, ContractInv', [Next]_vars
               PROVE  [Contract!TrialNext]_(Contract!trialVars)
    OBVIOUS
  <2>1. CASE Step
    <3>1. /\ executed' = Append(executed, Command) /\ executed \in Seq(Commands)
          /\ Command \in Commands /\ pc = "step" /\ pc' \in {"log_step", "finally"}
          /\ t < MaxSteps /\ Len(executed) = t
      BY <2>1 DEF Step, GoOn, Fail, ContractInv, TypeInv, TypeOK, PlatformType,
         ReviewType, Command, Commands, Budget, TrajectoryInv
    <3>2. Len(executed') = Len(executed) + 1
      BY <3>1, AppendProperties
    <3> QED BY <3>1, <3>2 DEF Contract!TrialNext, Contract!Command
  <2>2. CASE Finally
    <3>1. outcome' \in TrialOutcomes
      BY <2>2 DEF Finally, ContractInv, TypeInv, TypeOK, EndType, OutcomeInv
    <3> QED
      BY <2>2, <3>1 DEF Finally, platformVars, Contract!TrialNext, Contract!Finish,
         TrialOutcomes, Contract!TrialOutcomes, Raisable, Contract!Raisable, TypedErrors,
         Contract!TypedErrors, Halts, Contract!Halts
  <2>3. CASE UNCHANGED executed /\ pc # "done" /\ pc' # "done"
    BY <2>3 DEF Contract!trialVars
  <2>4. CASE UNCHANGED vars
    BY <2>4 DEF vars, endVars, platformVars, Contract!trialVars
  <2>5. \/ Step \/ Finally \/ UNCHANGED vars
        \/ UNCHANGED executed /\ pc # "done" /\ pc' # "done"
    <3> USE DEF platformVars, GoOn, Fail, Escape, EndTerminated, EndTruncated
    <3>1. CASE \/ PolicyReset \/ EmbodimentReset \/ BeginTrial \/ Horizon \/ NoPoll
               \/ PollFails \/ Poll \/ ReviewMember \/ ReviewRaises \/ Reviewed
      BY <3>1 DEF PolicyReset, EmbodimentReset, BeginTrial, Horizon, NoPoll, PollFails,
         Poll, ReviewMember, ReviewRaises, Reviewed
    <3>2. CASE PlayBuffered
      BY <3>2 DEF PlayBuffered, Accept
    <3>3. CASE InferAtChunkEnd \/ ReplanUnreachable \/ ReplanSlip
      BY <3>3 DEF InferAtChunkEnd, ReplanUnreachable, ReplanSlip, Infer, Receive, Accept
    <3>4. CASE RecordStep \/ RecordStepRaises \/ Interrupt
      BY <3>4 DEF RecordStep, AfterStep, RecordStepRaises, Interrupt
    <3> QED BY <3>1, <3>2, <3>3, <3>4 DEF Next, Advance, Done
  <2> QED BY <2>1, <2>2, <2>3, <2>4, <2>5
<1> QED BY <1>1, <1>2, ContractInvariant, PTL DEF Spec, Contract!TrialSafety

----------------------------------------------------------------------------
\* The console.

Body == {"poll", "act", "review", "step", "log_step"}
Before == {"policy_reset", "embodiment_reset", "begin_trial"}

\* Until begin_trial was tried the console is polled exactly when it is wired.
ConsoleInv == ConsoleBracketed /\ (pc \in Before => consoleOk = Attended)

LEMMA QuietConsole ==
    ASSUME ConsoleInv, UNCHANGED consoleVars, pc' # "done",
           pc' \in Body => pc \in Body, pc' \in Before => pc \in Before
    PROVE  ConsoleInv'
  BY DEF ConsoleInv, ConsoleBracketed, consoleVars, Body, Before

LEMMA NextConsole == TypeInv /\ ConsoleInv /\ [Next]_vars => ConsoleInv'
<1> SUFFICES ASSUME TypeInv, ConsoleInv, [Next]_vars PROVE ConsoleInv'
  OBVIOUS
<1> USE DEF GoOn, Fail, Escape, EndTerminated, EndTruncated, Body, Before
<1>1. CASE PolicyReset \/ EmbodimentReset
  BY <1>1, QuietConsole DEF PolicyReset, EmbodimentReset
<1>2. CASE BeginTrial
  <2>1. consoleOk = Attended /\ Attended \in BOOLEAN /\ pc = "begin_trial" /\ pc' \in {"poll", "finally"}
    BY <1>2, RolloutAssumption DEF BeginTrial, ConsoleInv
  <2>2. CASE Attended /\ consoleOpen' = TRUE /\ UNCHANGED consoleOk
    BY <2>1, <2>2 DEF ConsoleInv, ConsoleBracketed
  <2>3. CASE Attended /\ consoleOpen' = FALSE /\ consoleOk' = FALSE
    BY <2>1, <2>3 DEF ConsoleInv, ConsoleBracketed
  <2>4. CASE ~Attended /\ UNCHANGED consoleVars
    BY <2>1, <2>4 DEF ConsoleInv, ConsoleBracketed, consoleVars
  <2> QED BY <1>2, <2>2, <2>3, <2>4 DEF BeginTrial
<1>3. CASE PollFails
  BY <1>3 DEF PollFails, ConsoleInv, ConsoleBracketed
<1>4. CASE Horizon \/ NoPoll \/ Poll
  BY <1>4, QuietConsole DEF Horizon, NoPoll, Poll
<1>5. CASE PlayBuffered
  BY <1>5, QuietConsole DEF PlayBuffered, Accept
<1>6. CASE InferAtChunkEnd \/ ReplanUnreachable \/ ReplanSlip
  <2>1. UNCHANGED consoleVars /\ pc = "act" /\ pc' \in {"review", "finally"}
    BY <1>6 DEF InferAtChunkEnd, ReplanUnreachable, ReplanSlip, Infer, Receive, Accept
  <2> QED BY <2>1, QuietConsole
<1>7. CASE ReviewMember \/ ReviewRaises \/ Reviewed
  BY <1>7, QuietConsole DEF ReviewMember, ReviewRaises, Reviewed
<1>8. CASE Step \/ RecordStep \/ RecordStepRaises
  BY <1>8, QuietConsole DEF Step, RecordStep, AfterStep, RecordStepRaises
<1>9. CASE Interrupt
  BY <1>9, QuietConsole DEF Interrupt
<1>10. CASE Finally
  BY <1>10 DEF Finally, ConsoleInv, ConsoleBracketed
<1>11. CASE UNCHANGED vars \/ Done
  BY <1>11 DEF Done, vars, consoleVars, ConsoleInv, ConsoleBracketed
<1> QED
  BY <1>1, <1>2, <1>3, <1>4, <1>5, <1>6, <1>7, <1>8, <1>9, <1>10, <1>11 DEF Next, Advance

\* However a trial ends, and whenever its console fails, the operator's input is given
\* back, and it is only polled while it is held.
THEOREM ConsoleIsBracketed == Spec => []ConsoleBracketed
<1>1. Init => ConsoleInv
  BY RolloutAssumption DEF Init, ConsoleInv, ConsoleBracketed
<1>2. ConsoleInv => ConsoleBracketed
  BY DEF ConsoleInv
<1>3. TypeInv /\ [Next]_vars => TypeInv'
  BY NextTypeInv
<1>4. Spec => []TypeInv
  BY InitTypeInv, <1>3, PTL DEF Spec
<1> QED BY <1>1, <1>2, <1>4, NextConsole, PTL DEF Spec

----------------------------------------------------------------------------
\* The end of a trial.

\* A trial that is still running has no reason to end; the embodiment's verdict is
\* looked at before anything else is done.
RunningInv ==
    /\ pc \in Before => t = 0
    /\ pc \notin {"finally", "done"} =>
         rec = [terminated |-> FALSE, truncated |-> FALSE, reason |-> "none",
                status |-> "success", judged |-> FALSE]
    /\ pc \in Before \cup {"poll", "act", "review", "step"} => result \in {"none", "running"}
    /\ pc = "log_step" => result \in {"running", "terminated", "truncated"}
    /\ pc = "poll" /\ t > 0 => result = "running" /\ cur.stop = "none"

\* EndIsTrue, from the moment the loop is left without an exception.
EndedInv ==
    outcome = "returned" \/ (pc = "finally" /\ outcome = "running") =>
        /\ rec.terminated # rec.truncated
        /\ rec.status = "success"
        /\ rec.reason = "horizon" => t = MaxSteps /\ result = "running" /\ cur.stop = "none"
        /\ result \in {"terminated", "truncated"} <=> rec.reason = "embodiment"
        /\ result = "terminated" => rec.terminated
        /\ rec.judged => rec.reason = "operator_end"

EndInv == RunningInv /\ EndedInv

\* A step that goes on, or that leaves the loop by an exception.
LEMMA QuietEnd ==
    ASSUME ContractInv, EndInv, pc \notin {"finally", "done"}, pc' # "done",
           t' = t, result' = result,
           pc' \in Before => pc \in Before,
           pc' \in {"poll", "act", "review", "step"} =>
               pc \in Before \cup {"poll", "act", "review", "step"},
           pc' = "poll" => t = 0, pc' # "log_step",
           pc' # "finally" => rec' = rec /\ outcome' = outcome,
           pc' = "finally" => outcome' \notin {"running", "returned"}
    PROVE  EndInv'
<1>1. outcome = "running"
  BY DEF ContractInv, OutcomeInv
<1>2. t \in Nat
  BY RolloutAssumption DEF ContractInv, TypeInv, TypeOK, LoopType
<1>3. RunningInv'
  BY <1>2 DEF EndInv, RunningInv, Before
<1>4. EndedInv'
  BY <1>1 DEF EndedInv
<1> QED BY <1>3, <1>4 DEF EndInv

\* The two ways the loop is left without an exception, field by field.
LEMMA TruncatedFields ==
    ASSUME RunningInv, pc \notin {"finally", "done"}, NEW reason, EndTruncated(reason)
    PROVE  /\ rec'.terminated = FALSE /\ rec'.truncated = TRUE /\ rec'.reason = reason
           /\ rec'.status = "success" /\ rec'.judged = FALSE
           /\ pc' = "finally" /\ outcome' = outcome
  BY DEF RunningInv, EndTruncated

LEMMA TerminatedFields ==
    ASSUME RunningInv, pc \notin {"finally", "done"}, NEW reason, NEW judged,
           EndTerminated(reason, judged)
    PROVE  /\ rec'.terminated = TRUE /\ rec'.truncated = FALSE /\ rec'.reason = reason
           /\ rec'.status = "success" /\ rec'.judged = judged
           /\ pc' = "finally" /\ outcome' = outcome
  BY DEF RunningInv, EndTerminated

LEMMA NotAnEnd == \A exc \in Raisable : exc \notin {"running", "returned"}
  BY DEF Raisable, TypedErrors, Halts

LEMMA InferEnd == ASSUME ContractInv, EndInv, NEW cause, Infer(cause) PROVE EndInv'
<1>1. /\ pc = "act" /\ t' = t /\ result' = result /\ outcome = "running"
      /\ result \in {"none", "running"} /\ t \in Nat
  BY RolloutAssumption DEF Infer, platformVars, EndInv, RunningInv, ContractInv, OutcomeInv, TypeInv,
     TypeOK, LoopType
<1>2. CASE \E chunk \in Chunks : Receive(chunk)
  <2>1. PICK chunk \in Chunks : Receive(chunk)
    BY <1>2
  <2>2. CASE chunk.actions = <<>> /\ chunk.terminal = "declared"
    <3>1. EndTruncated("policy")
      BY <2>1, <2>2 DEF Receive
    <3>2. /\ rec'.terminated = FALSE /\ rec'.truncated = TRUE /\ rec'.reason = "policy"
          /\ rec'.status = "success" /\ rec'.judged = FALSE /\ pc' = "finally"
      BY <1>1, <3>1, TruncatedFields DEF EndInv
    <3> QED BY <1>1, <3>2 DEF EndInv, EndedInv, RunningInv, Before
  <2>3. CASE chunk.actions = <<>> /\ chunk.terminal # "declared"
    <3>1. Fail("PolicyError")
      BY <2>1, <2>3 DEF Receive
    <3> QED BY <1>1, <3>1, QuietEnd DEF Fail, Before
  <2>4. CASE chunk.actions # <<>>
    <3>1. Accept(Head(Taken(chunk)))
      BY <2>1, <2>4 DEF Receive
    <3> QED BY <1>1, <3>1, QuietEnd DEF Accept, GoOn, endVars, Fail, Before
  <2> QED BY <2>2, <2>3, <2>4
<1>3. CASE \E exc \in Raisable : Fail(Typed(exc, "PolicyError"))
  BY <1>1, <1>3, QuietEnd, NotAnEnd, TypedType, Names DEF Fail, Before
<1> QED BY <1>2, <1>3 DEF Infer

LEMMA NextEnd == ContractInv /\ EndInv /\ [Next]_vars => EndInv'
<1> SUFFICES ASSUME ContractInv, EndInv, [Next]_vars PROVE EndInv'
  OBVIOUS
<1>0. t \in 0..MaxSteps /\ t \in Nat /\ MaxSteps \in Nat \ {0} /\ (pc = "poll" => outcome = "running")
  BY RolloutAssumption DEF ContractInv, TypeInv, TypeOK, LoopType, OutcomeInv
<1> USE NotAnEnd, TypedType, Names DEF GoOn, Fail, Escape, platformVars, endVars
<1>1. CASE PolicyReset
  BY <1>1, QuietEnd DEF PolicyReset, Before
<1>2. CASE EmbodimentReset
  BY <1>2, QuietEnd DEF EmbodimentReset, Before
<1>3. CASE BeginTrial
  <2>1. t = 0
    BY <1>3 DEF BeginTrial, EndInv, RunningInv, Before
  <2> QED BY <1>3, <2>1, QuietEnd DEF BeginTrial, Before
<1>4. CASE Horizon
  <2>1. /\ pc = "poll" /\ t = MaxSteps /\ t > 0 /\ EndTruncated("horizon") /\ result' = result
        /\ cur' = cur /\ t' = t
    BY <1>0, <1>4 DEF Horizon, WithinBudget, reviewVars
  <2>2. /\ rec'.terminated = FALSE /\ rec'.truncated = TRUE /\ rec'.reason = "horizon"
        /\ rec'.status = "success" /\ rec'.judged = FALSE /\ pc' = "finally"
    BY <2>1, TruncatedFields DEF EndInv
  <2> QED BY <1>0, <2>1, <2>2 DEF EndInv, EndedInv, RunningInv, Before
<1>5. CASE NoPoll \/ PollFails
  BY <1>5, QuietEnd DEF NoPoll, PollFails, Before
<1>6. CASE Poll
  <2>1. PICK end \in {"none", "stop", "verdict"} :
          IF end = "none" THEN GoOn("act") ELSE EndTerminated("operator_end", end = "verdict")
    BY <1>6 DEF Poll
  <2>2. CASE end = "none"
    BY <1>6, <2>1, <2>2, QuietEnd DEF Poll, Before
  <2>3. CASE end # "none"
    <3>1. EndTerminated("operator_end", end = "verdict") /\ pc = "poll" /\ result' = result /\ t' = t
      BY <1>6, <2>1, <2>3 DEF Poll
    <3>2. /\ rec'.terminated = TRUE /\ rec'.truncated = FALSE /\ rec'.reason = "operator_end"
          /\ rec'.status = "success" /\ pc' = "finally"
      BY <3>1, TerminatedFields DEF EndInv
    <3> QED BY <1>0, <3>1, <3>2 DEF EndInv, EndedInv, RunningInv, Before
  <2> QED BY <2>2, <2>3
<1>7. CASE PlayBuffered
  BY <1>7, QuietEnd DEF PlayBuffered, Accept, Before
<1>8. CASE InferAtChunkEnd \/ ReplanUnreachable \/ ReplanSlip
  BY <1>8, InferEnd DEF InferAtChunkEnd, ReplanUnreachable, ReplanSlip
<1>9. CASE ReviewMember \/ ReviewRaises \/ Reviewed
  BY <1>9, QuietEnd DEF ReviewMember, ReviewRaises, Reviewed, Before
<1>10. CASE Step
  <2>1. pc = "step" /\ t' = t /\ outcome = "running"
    BY <1>10 DEF Step, ContractInv, OutcomeInv
  <2>2. CASE \E r \in {"running", "terminated", "truncated"} : result' = r /\ GoOn("log_step")
    BY <2>1, <2>2 DEF EndInv, RunningInv, EndedInv, Before
  <2>3. CASE \E exc \in Raisable : Fail(Typed(exc, "EmbodimentFault"))
    BY <2>1, <2>3 DEF EndInv, RunningInv, EndedInv, Before
  <2> QED BY <1>10, <2>2, <2>3 DEF Step
<1>11. CASE RecordStep
  <2>1. pc = "log_step" /\ result' = result /\ cur' = cur /\ outcome = "running" /\ AfterStep
        /\ result \in {"running", "terminated", "truncated"} /\ t' = t + 1
    BY <1>11 DEF RecordStep, ContractInv, OutcomeInv, reviewVars, EndInv, RunningInv
  <2>2. CASE result = "terminated"
    <3>1. EndTerminated("embodiment", FALSE)
      BY <2>1, <2>2 DEF AfterStep
    <3>2. /\ rec'.terminated = TRUE /\ rec'.truncated = FALSE /\ rec'.reason = "embodiment"
          /\ rec'.status = "success" /\ rec'.judged = FALSE /\ pc' = "finally"
      BY <2>1, <3>1, TerminatedFields DEF EndInv
    <3> QED BY <2>1, <2>2, <3>2 DEF EndInv, RunningInv, EndedInv, Before
  <2>3. CASE result = "truncated"
    <3>1. EndTruncated("embodiment")
      BY <2>1, <2>3 DEF AfterStep
    <3>2. /\ rec'.terminated = FALSE /\ rec'.truncated = TRUE /\ rec'.reason = "embodiment"
          /\ rec'.status = "success" /\ rec'.judged = FALSE /\ pc' = "finally"
      BY <2>1, <3>1, TruncatedFields DEF EndInv
    <3> QED BY <2>1, <2>3, <3>2 DEF EndInv, RunningInv, EndedInv, Before
  <2>4. CASE result = "running" /\ cur.stop # "none"
    <3>1. EndTruncated("policy")
      BY <2>1, <2>4 DEF AfterStep
    <3>2. /\ rec'.terminated = FALSE /\ rec'.truncated = TRUE /\ rec'.reason = "policy"
          /\ rec'.status = "success" /\ rec'.judged = FALSE /\ pc' = "finally"
      BY <2>1, <3>1, TruncatedFields DEF EndInv
    <3> QED BY <2>1, <2>4, <3>2 DEF EndInv, RunningInv, EndedInv, Before
  <2>5. CASE result = "running" /\ cur.stop = "none"
    BY <2>1, <2>5 DEF AfterStep, EndInv, RunningInv, EndedInv, Before
  <2> QED BY <2>1, <2>2, <2>3, <2>4, <2>5
<1>12. CASE RecordStepRaises \/ Interrupt
  BY <1>12, QuietEnd DEF RecordStepRaises, Interrupt, Before, Halts
<1>13. CASE Finally
  BY <1>13 DEF Finally, reviewVars, EndInv, RunningInv, EndedInv, Before
<1>14. CASE UNCHANGED vars \/ Done
  BY <1>14 DEF Done, vars, reviewVars, EndInv, RunningInv, EndedInv, Before
<1> QED
  BY <1>1, <1>2, <1>3, <1>4, <1>5, <1>6, <1>7, <1>8, <1>9, <1>10, <1>11, <1>12, <1>13,
     <1>14 DEF Next, Advance

\* A trial that returns ended for one reason, and the embodiment's verdict, the policy's
\* stop and the horizon are never mistaken for one another.
THEOREM EndsAreTrue == Spec => []EndIsTrue
<1>1. Init => EndInv
  BY DEF Init, EndInv, RunningInv, EndedInv, Before
<1>2. EndInv => EndIsTrue
  BY DEF EndInv, EndedInv, EndIsTrue
<1> QED BY <1>1, <1>2, ContractInvariant, NextEnd, PTL DEF Spec

----------------------------------------------------------------------------
\* What the policy was shown.

UpTo(n) == [i \in 1..n |-> i]

\* The policy has been shown exactly what lies before the cursors.
SeenInv ==
    pc \notin {"finally", "done"} =>
        /\ Attended => seenMessages = UpTo(msgCursor)
        /\ seenApprovals = UpTo(apprCursor)

\* What was shown, continued with what was not: everything, once and in order.
LEMMA ShownThenUnseen ==
    ASSUME NEW n \in Nat, NEW cursor \in 0..n
    PROVE  UpTo(cursor) \o Unseen(cursor, n) = UpTo(n)
<1> DEFINE a == UpTo(cursor)
           b == Unseen(cursor, n)
           c == UpTo(n)
<1>1. /\ a \in Seq(Nat) /\ Len(a) = cursor
      /\ b \in Seq(Nat) /\ Len(b) = n - cursor
      /\ c \in Seq(Nat) /\ Len(c) = n
  BY IsASeq DEF UpTo, Unseen
<1>2. /\ \A i \in 1..cursor : a[i] = i
      /\ \A i \in 1..(n - cursor) : b[i] = cursor + i
      /\ \A i \in 1..n : c[i] = i
  BY DEF UpTo, Unseen
<1> HIDE DEF a, b, c
<1>0. /\ a \o b \in Seq(Nat) /\ Len(a \o b) = Len(a) + Len(b)
      /\ \A i \in 1 .. Len(a) + Len(b) :
           (a \o b)[i] = IF i <= Len(a) THEN a[i] ELSE b[i - Len(a)]
  BY <1>1, ConcatProperties, Zenon
<1>3. a \o b \in Seq(Nat) /\ Len(a \o b) = n
  BY <1>0, <1>1
<1>4. ASSUME NEW i \in 1..n PROVE (a \o b)[i] = c[i]
  <2>1. c[i] = i /\ i \in 1 .. Len(a) + Len(b)
    BY <1>1, <1>2
  <2>2. CASE i <= cursor
    <3>1. a[i] = i /\ i <= Len(a)
      BY <1>1, <1>2, <2>2
    <3> QED BY <1>0, <2>1, <3>1
  <2>3. CASE i > cursor
    <3>1. ~(i <= Len(a)) /\ i - Len(a) = i - cursor /\ i - cursor \in 1..(n - cursor)
      BY <1>1, <2>3
    <3>2. b[i - cursor] = i
      BY <1>2, <3>1
    <3> QED BY <1>0, <2>1, <3>1, <3>2
  <2>4. i <= cursor \/ i > cursor
    OBVIOUS
  <2> QED BY <2>2, <2>3, <2>4, Zenon
<1>5. a \o b = c
  BY <1>1, <1>3, <1>4, SeqEqual
<1> QED BY <1>5 DEF a, b, c

LEMMA QuietSeen ==
    ASSUME SeenInv, UNCHANGED <<seenVars, msgCursor, apprCursor>>,
           pc \in {"finally", "done"} => pc' \in {"finally", "done"}
    PROVE  SeenInv'
  BY DEF SeenInv, seenVars

\* An inference leaves nothing unseen, or the trial.
LEMMA InferSeen ==
    ASSUME TypeInv, SeenInv, NEW cause, Infer(cause)
    PROVE  /\ SeenInv'
           /\ inferences' # inferences =>
                /\ Attended => seenMessages' = UpTo(messages)
                /\ seenApprovals' = UpTo(Len(approvals))
<1>1. /\ messages \in Nat /\ msgCursor \in 0..messages
      /\ Len(approvals) \in Nat /\ apprCursor \in 0..Len(approvals)
  BY LenProperties DEF TypeInv, TypeOK, StoreType
<1>2. /\ pc = "act" /\ seenMessages' = seenMessages \o Unseen(msgCursor, messages)
      /\ seenApprovals' = seenApprovals \o Unseen(apprCursor, Len(approvals))
  BY DEF Infer, ShowTails
<1>3. /\ Attended => seenMessages' = UpTo(messages)
      /\ seenApprovals' = UpTo(Len(approvals))
  BY <1>1, <1>2, ShownThenUnseen DEF SeenInv
<1>4. CASE \E chunk \in Chunks : Receive(chunk)
  BY <1>3, <1>4 DEF Receive, AdvanceCursors, SeenInv
<1>5. CASE \E exc \in Raisable : Fail(Typed(exc, "PolicyError"))
  BY <1>3, <1>5 DEF Fail, SeenInv
<1> QED BY <1>3, <1>4, <1>5 DEF Infer

\* Every step keeps SeenInv, and one that infers has shown everything.
LEMMA NextSeen ==
    ASSUME TypeInv, SeenInv, [Next]_vars
    PROVE  /\ SeenInv'
           /\ inferences' # inferences =>
                /\ Attended => seenMessages' = UpTo(messages)
                /\ seenApprovals' = UpTo(Len(approvals))
<1> USE DEF storeVars, managerVars
<1>1. CASE InferAtChunkEnd \/ ReplanUnreachable \/ ReplanSlip
  BY <1>1, InferSeen DEF InferAtChunkEnd, ReplanUnreachable, ReplanSlip
<1>2. CASE UNCHANGED <<seenVars, msgCursor, apprCursor, inferences>>
           /\ (pc \in {"finally", "done"} => pc' \in {"finally", "done"})
  BY <1>2, QuietSeen
<1>3. CASE \/ PolicyReset \/ EmbodimentReset \/ BeginTrial \/ Horizon \/ NoPoll \/ PollFails
           \/ Poll
  BY <1>2, <1>3 DEF PolicyReset, EmbodimentReset, BeginTrial, Horizon, NoPoll, PollFails, Poll
<1>4. CASE PlayBuffered \/ ReviewMember \/ ReviewRaises \/ Reviewed
  BY <1>2, <1>4 DEF PlayBuffered, ReviewMember, ReviewRaises, Reviewed
<1>5. CASE Step \/ RecordStep \/ RecordStepRaises \/ Interrupt \/ Finally
  BY <1>2, <1>5 DEF Step, RecordStep, RecordStepRaises, Interrupt, Finally
<1>6. CASE UNCHANGED vars \/ Done
  BY <1>2, <1>6 DEF Done, vars
<1> QED BY <1>1, <1>3, <1>4, <1>5, <1>6 DEF Next, Advance

LEMMA AlwaysTyped == Spec => []TypeInv
  BY InitTypeInv, NextTypeInv, PTL DEF Spec

\* Whenever the policy is consulted it has been shown every message and every guard
\* modification so far, each once and in order.
THEOREM PolicyAlwaysUpToDate == Spec => PolicyIsUpToDate
<1>1. Init => SeenInv
  <2>1. UpTo(0) = <<>>
    BY DEF UpTo
  <2> QED BY <2>1 DEF Init, SeenInv
<1>2. TypeInv /\ SeenInv /\ [Next]_vars => SeenInv'
  BY NextSeen
<1>3. TypeInv /\ SeenInv /\ [Next]_vars =>
        [inferences' # inferences =>
           /\ Attended => seenMessages' = [i \in 1..messages |-> i]
           /\ seenApprovals' = [i \in 1..Len(approvals) |-> i]]_vars
  BY NextSeen DEF UpTo
<1> QED BY <1>1, <1>2, <1>3, AlwaysTyped, PTL DEF Spec, PolicyIsUpToDate

----------------------------------------------------------------------------
\* The policy's stop.

\* A pending stop is still in the buffer, or is the action in hand.
StopInv ==
    pc \notin {"finally", "done"} /\ stopPending =>
        /\ pc \notin Before
        /\ buffer # <<>> => buffer[Len(buffer)].stop # "none"
        /\ pc \in {"poll", "act"} => buffer # <<>>
        /\ pc \in {"review", "step", "log_step"} /\ buffer = <<>> => cur.stop # "none"

LEMMA TakenStop ==
    ASSUME NEW chunk \in Chunks, chunk.actions # <<>>, chunk.terminal # "none"
    PROVE  Taken(chunk)[Len(Taken(chunk))].stop # "none"
<1> DEFINE n == IF ReplanInterval = 0 \/ ReplanInterval > Len(chunk.actions)
                  THEN Len(chunk.actions) ELSE ReplanInterval
<1>1. /\ chunk.actions \in Seq(Actions) /\ Len(chunk.actions) \in Nat \ {0}
  BY RolloutAssumption, EmptySeq
<1>2. n \in 1..Len(chunk.actions)
  BY <1>1, RolloutAssumption
<1>3. chunk.actions[n] \in Actions
  BY <1>1, <1>2, ElementOfSeq
<1>4. /\ Taken(chunk)[n] = [chunk.actions[n] EXCEPT !.stop = chunk.terminal]
      /\ Len(Taken(chunk)) = n
  BY <1>2, <1>1 DEF Taken
<1>5. [chunk.actions[n] EXCEPT !.stop = chunk.terminal].stop = chunk.terminal
  BY <1>3 DEF Actions
<1> QED BY <1>4, <1>5

\* The head of a sequence is played; the last element is in the tail or was the head.
LEMMA LastInTail ==
    ASSUME NEW s \in Seq(Actions), s # <<>>
    PROVE  /\ Tail(s) # <<>> => Tail(s)[Len(Tail(s))] = s[Len(s)]
           /\ Tail(s) = <<>> => Head(s) = s[Len(s)]
<1>1. /\ Len(s) \in Nat \ {0} /\ Tail(s) \in Seq(Actions) /\ Len(Tail(s)) = Len(s) - 1
      /\ Head(s) = s[1]
  BY EmptySeq, HeadTailProperties
<1>2. \A i \in 1..Len(Tail(s)) : Tail(s)[i] = s[i + 1]
  BY HeadTailProperties
<1>3. Tail(s) = <<>> <=> Len(Tail(s)) = 0
  BY <1>1, EmptySeq
<1> QED BY <1>1, <1>2, <1>3

\* The loop goes on with an action, or is left.
LEMMA AcceptStop ==
    ASSUME NEW action, Accept(action)
    PROVE  pc' = "finally" \/ (pc' = "review" /\ cur'.stop = action.stop)
  BY DEF Accept, GoOn, Fail

LEMMA QuietStop ==
    ASSUME StopInv, UNCHANGED <<buffer, stopPending>>, pc \notin {"finally", "done"},
           \/ pc' \in {"finally", "done"}
           \/ pc \in Before
           \/ pc = "poll" /\ pc' = "act"
           \/ pc \in {"review", "step"} /\ pc' \in {"review", "step", "log_step"} /\ cur'.stop = cur.stop
    PROVE  StopInv'
  BY DEF StopInv, Before

LEMMA InferStop == ASSUME TypeInv, StopInv, NEW cause, Infer(cause) PROVE StopInv'
<1>1. CASE \E exc \in Raisable : Fail(Typed(exc, "PolicyError"))
  BY <1>1 DEF Fail, StopInv
<1>2. CASE \E chunk \in Chunks : Receive(chunk)
  <2>1. PICK chunk \in Chunks : Receive(chunk)
    BY <1>2
  <2>2. CASE chunk.actions = <<>>
    BY <2>1, <2>2 DEF Receive, EndTruncated, Fail, StopInv
  <2>3. CASE chunk.actions # <<>>
    <3>1. Accept(Head(Taken(chunk))) /\ buffer' = Tail(Taken(chunk))
          /\ stopPending' = (chunk.terminal # "none")
      BY <2>1, <2>3 DEF Receive
    <3>2. pc' = "finally" \/ (pc' = "review" /\ cur'.stop = Head(Taken(chunk)).stop)
      BY <3>1, AcceptStop
    <3>3. Taken(chunk) \in Seq(Actions) /\ Taken(chunk) # <<>>
      BY <2>3, TakenType
    <3>4. stopPending' => /\ buffer' # <<>> => buffer'[Len(buffer')].stop # "none"
                          /\ buffer' = <<>> => Head(Taken(chunk)).stop # "none"
      BY <2>3, <3>1, <3>3, TakenStop, LastInTail
    <3> QED BY <3>2, <3>4 DEF StopInv, Before
  <2> QED BY <2>2, <2>3
<1> QED BY <1>1, <1>2 DEF Infer

LEMMA ReviewStop == ASSUME TypeInv, ReviewMember PROVE cur'.stop = cur.stop
<1>1. cur \in [v : Int, ok : BOOLEAN, stop : StopKinds, changed : BOOLEAN,
               clamped : BOOLEAN, held : BOOLEAN]
  BY DEF TypeInv, TypeOK, ReviewType
<1>2. CASE ClampMember \/ DeltaMember
  BY <1>1, <1>2 DEF ClampMember, DeltaMember, Rewrite
<1>3. CASE ContributedMember
  BY <1>1, <1>3 DEF ContributedMember
<1> QED BY <1>2, <1>3 DEF ReviewMember

LEMMA NextStop == TypeInv /\ StopInv /\ [Next]_vars => StopInv'
<1> SUFFICES ASSUME TypeInv, StopInv, [Next]_vars PROVE StopInv'
  OBVIOUS
<1> USE DEF GoOn, Fail, Escape, EndTerminated, EndTruncated, managerVars
<1>1. CASE PolicyReset \/ EmbodimentReset \/ BeginTrial
  BY <1>1, QuietStop DEF PolicyReset, EmbodimentReset, BeginTrial, Before
<1>2. CASE Horizon \/ NoPoll \/ PollFails \/ Poll
  BY <1>2, QuietStop DEF Horizon, NoPoll, PollFails, Poll, Before
<1>3. CASE PlayBuffered
  <2>1. /\ pc = "act" /\ buffer # <<>> /\ Accept(Head(buffer)) /\ buffer' = Tail(buffer)
        /\ stopPending' = stopPending /\ buffer \in Seq(Actions)
    BY <1>3 DEF PlayBuffered, TypeInv, TypeOK, ManagerType
  <2>2. pc' = "finally" \/ (pc' = "review" /\ cur'.stop = Head(buffer).stop)
    BY <2>1, AcceptStop
  <2> QED BY <2>1, <2>2, LastInTail DEF StopInv, Before
<1>4. CASE InferAtChunkEnd \/ ReplanUnreachable \/ ReplanSlip
  BY <1>4, InferStop DEF InferAtChunkEnd, ReplanUnreachable, ReplanSlip
<1>5. CASE ReviewMember
  BY <1>5, ReviewStop, QuietStop DEF ReviewMember
<1>6. CASE ReviewRaises \/ Reviewed
  BY <1>6, QuietStop DEF ReviewRaises, Reviewed
<1>7. CASE Step
  BY <1>7, QuietStop DEF Step, reviewVars
<1>8. CASE RecordStep
  <2>1. /\ pc = "log_step" /\ cur' = cur /\ buffer' = buffer /\ stopPending' = stopPending
        /\ pc' = "finally" \/ (pc' = "poll" /\ cur.stop = "none")
    BY <1>8 DEF RecordStep, AfterStep, reviewVars
  <2> QED BY <2>1 DEF StopInv, Before
<1>9. CASE RecordStepRaises \/ Interrupt \/ Finally
  BY <1>9, QuietStop DEF RecordStepRaises, Interrupt, Finally, StopInv
<1>10. CASE UNCHANGED vars \/ Done
  BY <1>10 DEF Done, vars, reviewVars, StopInv
<1> QED
  BY <1>1, <1>2, <1>3, <1>4, <1>5, <1>6, <1>7, <1>8, <1>9, <1>10 DEF Next, Advance

\* A stop the policy declared is neither overtaken by a new inference nor run past.
THEOREM StopAlwaysHonoured == Spec => StopIsHonoured
<1>1. Init => StopInv
  BY DEF Init, StopInv
<1>2. ASSUME TypeInv, StopInv, StopInv', [Next]_vars
      PROVE  [/\ inferences' # inferences /\ stopPending => replans' # replans
              /\ pc' = "poll" /\ stopPending => buffer # <<>>]_vars
  <2> SUFFICES ASSUME Next, ~UNCHANGED vars
               PROVE  /\ inferences' # inferences /\ stopPending => replans' # replans
                      /\ pc' = "poll" /\ stopPending => buffer # <<>>
    BY <1>2
  <2>0. TypeInv /\ StopInv
    BY <1>2
  <2>1. CASE InferAtChunkEnd
    <3>1. pc = "act" /\ buffer = <<>> /\ pc' # "poll"
      BY <2>1 DEF InferAtChunkEnd, Infer, Receive, Accept, GoOn, Fail, EndTruncated
    <3> QED BY <2>0, <3>1 DEF StopInv
  <2>2. CASE ReplanUnreachable \/ ReplanSlip
    <3>1. PICK cause \in {"unreachable", "slip"} :
            pc = "act" /\ replans' = Append(replans, cause) /\ pc' # "poll"
      BY <2>2 DEF ReplanUnreachable, ReplanSlip, Infer, Receive, Accept, GoOn, Fail, EndTruncated
    <3>2. replans \in Seq({"unreachable", "slip"})
      BY <2>0 DEF TypeInv, TypeOK, ManagerType
    <3>3. Len(replans') # Len(replans)
      BY <3>1, <3>2, AppendProperties, LenProperties
    <3> QED BY <3>1, <3>3
  <2>3. CASE RecordStep
    <3>1. pc = "log_step" /\ inferences' = inferences
          /\ (pc' = "poll" => cur.stop = "none")
      BY <2>3 DEF RecordStep, AfterStep, managerVars, EndTerminated, EndTruncated, GoOn
    <3> QED BY <2>0, <3>1 DEF StopInv
  <2>4. CASE PolicyReset \/ EmbodimentReset \/ BeginTrial
    BY <2>0, <2>4 DEF PolicyReset, EmbodimentReset, BeginTrial, managerVars, GoOn, Fail, Escape, StopInv, Before
  <2>5. CASE Horizon \/ NoPoll \/ PollFails \/ Poll
    BY <2>5 DEF Horizon, NoPoll, PollFails, Poll, managerVars, GoOn, EndTerminated, EndTruncated
  <2>6. CASE PlayBuffered \/ ReviewMember \/ ReviewRaises \/ Reviewed
    BY <2>6 DEF PlayBuffered, ReviewMember, ReviewRaises, Reviewed, managerVars, GoOn, Fail, Accept
  <2>7. CASE Step \/ RecordStepRaises \/ Interrupt \/ Finally
    BY <2>7 DEF Step, RecordStepRaises, Interrupt, Finally, managerVars, GoOn, Fail, Escape
  <2> QED BY <2>1, <2>2, <2>3, <2>4, <2>5, <2>6, <2>7 DEF Next, Advance, Done
<1> QED BY <1>1, <1>2, AlwaysTyped, NextStop, PTL DEF Spec, StopIsHonoured

----------------------------------------------------------------------------
\* Replans and clamps.

Clamps == {i \in 1..Len(approvals) : approvals[i].clamped}
Unreachables == {i \in 1..Len(replans) : replans[i] = "unreachable"}

\* Approvals are dated by the step that made them, and the one of this step is only there
\* once the review is over; a clamp the policy has not yet looked at pays for one replan.
ReplanInv ==
    /\ \A i \in 1..Len(approvals) :
         /\ approvals[i].t <= t
         /\ pc \in Before \cup {"poll", "act", "review"} => approvals[i].t < t
    /\ Cardinality(Unreachables) <= Cardinality(Clamps)
    /\ (\E i \in Clamps : approvals[i].t >= chunkStart) =>
         Cardinality(Unreachables) < Cardinality(Clamps)

\* The cardinality of an index set of a sequence that grew by one element.
LEMMA ClampCount ==
    ASSUME TypeInv
    PROVE  /\ IsFiniteSet(Clamps) /\ Cardinality(Clamps) \in Nat
           /\ IsFiniteSet(Unreachables) /\ Cardinality(Unreachables) \in Nat
<1>1. Len(approvals) \in Nat /\ Len(replans) \in Nat
  BY LenProperties DEF TypeInv, TypeOK, StoreType, ManagerType
<1>2. IsFiniteSet(1..Len(approvals)) /\ IsFiniteSet(1..Len(replans))
  BY <1>1, FS_Interval
<1>3. Clamps \in SUBSET (1..Len(approvals)) /\ Unreachables \in SUBSET (1..Len(replans))
  BY DEF Clamps, Unreachables
<1> QED BY <1>2, <1>3, FS_Subset, FS_CardinalityType

LEMMA ReplanCounts ==
    ASSUME TypeInv, NEW cause \in {"unreachable", "slip"}, replans' = Append(replans, cause)
    PROVE  Cardinality(Unreachables') =
             Cardinality(Unreachables) + (IF cause = "unreachable" THEN 1 ELSE 0)
<1> DEFINE n == Len(replans)
<1>1. replans \in Seq({"unreachable", "slip"}) /\ n \in Nat
  BY LenProperties DEF TypeInv, TypeOK, ManagerType
<1>2. /\ Len(replans') = n + 1 /\ replans'[n + 1] = cause
      /\ \A i \in 1..n : replans'[i] = replans[i]
  BY <1>1, AppendProperties
<1>3. Unreachables' = IF cause = "unreachable" THEN Unreachables \cup {n + 1} ELSE Unreachables
  <2> HIDE DEF n
  <2>1. Unreachables' = {i \in 1..(n + 1) : replans'[i] = "unreachable"}
    BY <1>2 DEF Unreachables
  <2>2. Unreachables = {i \in 1..n : replans[i] = "unreachable"}
    BY DEF Unreachables, n
  <2> QED BY <1>1, <1>2, <2>1, <2>2
<1>4. n + 1 \notin Unreachables
  BY <1>1 DEF Unreachables
<1>5. IsFiniteSet(Unreachables) /\ Cardinality(Unreachables) \in Nat
  BY ClampCount
<1>6. Cardinality(Unreachables \cup {n + 1}) = Cardinality(Unreachables) + 1
  BY <1>4, <1>5, FS_AddElement
<1> QED BY <1>3, <1>5, <1>6

LEMMA ApprovalCounts ==
    ASSUME TypeInv, NEW a \in [t : Nat, clamped : BOOLEAN], approvals' = Append(approvals, a)
    PROVE  /\ Clamps' = IF a.clamped THEN Clamps \cup {Len(approvals) + 1} ELSE Clamps
           /\ Cardinality(Clamps') = Cardinality(Clamps) + (IF a.clamped THEN 1 ELSE 0)
           /\ Len(approvals') = Len(approvals) + 1 /\ approvals'[Len(approvals) + 1] = a
           /\ \A i \in 1..Len(approvals) : approvals'[i] = approvals[i]
           /\ Len(approvals) \in Nat
<1> DEFINE n == Len(approvals)
<1>1. approvals \in Seq([t : Nat, clamped : BOOLEAN]) /\ n \in Nat
  BY LenProperties DEF TypeInv, TypeOK, StoreType
<1>2. /\ Len(approvals') = n + 1 /\ approvals'[n + 1] = a
      /\ \A i \in 1..n : approvals'[i] = approvals[i]
  BY <1>1, AppendProperties
<1>3. Clamps' = IF a.clamped THEN Clamps \cup {n + 1} ELSE Clamps
  <2> HIDE DEF n
  <2>1. Clamps' = {i \in 1..(n + 1) : approvals'[i].clamped}
    BY <1>2 DEF Clamps
  <2>2. Clamps = {i \in 1..n : approvals[i].clamped}
    BY DEF Clamps, n
  <2>3. CASE a.clamped
    BY <1>1, <1>2, <2>1, <2>2, <2>3
  <2>4. CASE ~a.clamped
    BY <1>1, <1>2, <2>1, <2>2, <2>4
  <2> QED BY <2>3, <2>4
<1>4. n + 1 \notin Clamps
  BY <1>1 DEF Clamps
<1>5. Cardinality(Clamps') = Cardinality(Clamps) + (IF a.clamped THEN 1 ELSE 0)
  <2>1. IsFiniteSet(Clamps) /\ Cardinality(Clamps) \in Nat
    BY ClampCount
  <2>2. Cardinality(Clamps \cup {n + 1}) = Cardinality(Clamps) + 1
    BY <1>4, <2>1, FS_AddElement
  <2> QED BY <1>3, <2>1, <2>2
<1> QED BY <1>1, <1>2, <1>3, <1>5

LEMMA QuietReplan ==
    ASSUME TypeInv, ReplanInv, UNCHANGED <<approvals, replans, chunkStart>>,
           \/ t' = t /\ (pc' \in Before \cup {"poll", "act", "review"} =>
                           pc \in Before \cup {"poll", "act", "review"})
           \/ t' = t + 1
    PROVE  ReplanInv'
<1>1. /\ t \in Nat /\ Len(approvals) \in Nat
      /\ \A i \in 1..Len(approvals) : approvals[i].t \in Nat
  <2>1. approvals \in Seq([t : Nat, clamped : BOOLEAN]) /\ t \in Nat
    BY RolloutAssumption DEF TypeInv, TypeOK, StoreType, LoopType
  <2>2. \A i \in 1..Len(approvals) : approvals[i] \in [t : Nat, clamped : BOOLEAN]
    BY <2>1, ElementOfSeq
  <2> QED BY <2>1, <2>2, LenProperties
<1>2. Clamps' = Clamps /\ Unreachables' = Unreachables
  BY DEF Clamps, Unreachables
<1> QED BY <1>1, <1>2 DEF ReplanInv

\* Every inference restarts the clock of the clamps; the one a clamp caused is paid by it.
LEMMA InferReplan ==
    ASSUME TypeInv, ReplanInv, NEW cause \in {"unreachable", "slip", "chunk_end"}, Infer(cause),
           cause = "unreachable" => TargetUnreachable
    PROVE  ReplanInv'
<1>1. /\ pc = "act" /\ chunkStart' = t /\ t' = t /\ approvals' = approvals
      /\ replans' = IF cause = "chunk_end" THEN replans ELSE Append(replans, cause)
  BY DEF Infer
<1>2. Clamps' = Clamps
  BY <1>1 DEF Clamps
<1>3. \A i \in 1..Len(approvals) : approvals[i].t < t
  BY <1>1 DEF ReplanInv
<1>4. \A i \in 1..Len(approvals) : approvals[i].t \in Nat
  <2>1. approvals \in Seq([t : Nat, clamped : BOOLEAN])
    BY DEF TypeInv, TypeOK, StoreType
  <2>2. \A i \in 1..Len(approvals) : approvals[i] \in [t : Nat, clamped : BOOLEAN]
    BY <2>1, ElementOfSeq
  <2> QED BY <2>2
<1>5. t \in Nat
  BY RolloutAssumption DEF TypeInv, TypeOK, LoopType
<1>6. ~ \E i \in Clamps : approvals[i].t >= t
  BY <1>3, <1>4, <1>5 DEF Clamps
<1>7. Cardinality(Unreachables') <= Cardinality(Clamps)
  <2>1. CASE cause = "unreachable"
    <3>1. Cardinality(Unreachables) < Cardinality(Clamps)
      BY <2>1 DEF TargetUnreachable, Clamps, ReplanInv
    <3>2. Cardinality(Unreachables') = Cardinality(Unreachables) + 1
      BY <1>1, <2>1, ReplanCounts
    <3> QED BY <3>1, <3>2, ClampCount
  <2>2. CASE cause = "slip"
    <3>1. Cardinality(Unreachables') = Cardinality(Unreachables) + 0
      BY <1>1, <2>2, ReplanCounts
    <3> QED BY <3>1, ClampCount DEF ReplanInv
  <2>3. CASE cause = "chunk_end"
    <3>1. Unreachables' = Unreachables
      BY <1>1, <2>3 DEF Unreachables
    <3> QED BY <3>1 DEF ReplanInv
  <2> QED BY <2>1, <2>2, <2>3
<1>8. \A i \in 1..Len(approvals) : approvals[i].t <= t
  BY <1>3, <1>4, <1>5
<1> QED BY <1>1, <1>2, <1>3, <1>6, <1>7, <1>8 DEF ReplanInv

LEMMA ReviewedReplan == TypeInv /\ ReplanInv /\ Reviewed => ReplanInv'
<1> SUFFICES ASSUME TypeInv, ReplanInv, Reviewed PROVE ReplanInv'
  OBVIOUS
<1>1. /\ pc = "review" /\ pc' \in {"step", "finally"} /\ UNCHANGED <<t, replans, chunkStart>>
      /\ approvals' = IF cur.changed THEN Append(approvals, [t |-> t, clamped |-> cur.clamped])
                                     ELSE approvals
  BY DEF Reviewed, GoOn, Fail, managerVars
<1>2. CASE ~cur.changed
  BY <1>1, <1>2, QuietReplan DEF Before
<1>3. CASE cur.changed
  <2> DEFINE a == [t |-> t, clamped |-> cur.clamped]
  <2>1. t \in Nat /\ cur.clamped \in BOOLEAN
    BY RolloutAssumption DEF TypeInv, TypeOK, LoopType, ReviewType
  <2>2. a \in [t : Nat, clamped : BOOLEAN] /\ approvals' = Append(approvals, a) /\ a.t = t
    BY <1>1, <1>3, <2>1
  <2> HIDE DEF a
  <2>3. /\ Clamps' = IF a.clamped THEN Clamps \cup {Len(approvals) + 1} ELSE Clamps
        /\ Cardinality(Clamps') = Cardinality(Clamps) + (IF a.clamped THEN 1 ELSE 0)
        /\ Len(approvals') = Len(approvals) + 1 /\ approvals'[Len(approvals) + 1] = a
        /\ \A i \in 1..Len(approvals) : approvals'[i] = approvals[i]
        /\ Len(approvals) \in Nat
    BY <2>2, ApprovalCounts
  <2>4. Unreachables' = Unreachables /\ Clamps \subseteq 1..Len(approvals)
    BY <1>1 DEF Unreachables, Clamps
  <2>5. \A i \in 1..Len(approvals') : approvals'[i].t <= t'
    BY <1>1, <2>1, <2>2, <2>3 DEF ReplanInv
  <2>6. CASE a.clamped
    BY <1>1, <2>3, <2>4, <2>5, <2>6, ClampCount DEF ReplanInv, Before
  <2>7. CASE ~a.clamped
    <3>1. Clamps' = Clamps /\ \A i \in Clamps : approvals'[i] = approvals[i]
      BY <2>3, <2>4, <2>7
    <3> QED BY <1>1, <2>4, <2>5, <3>1 DEF ReplanInv, Before
  <2> QED BY <2>6, <2>7
<1> QED BY <1>2, <1>3

LEMMA NextReplan == TypeInv /\ ReplanInv /\ [Next]_vars => ReplanInv'
<1> SUFFICES ASSUME TypeInv, ReplanInv, [Next]_vars PROVE ReplanInv'
  OBVIOUS
<1> USE DEF GoOn, Fail, Escape, EndTerminated, EndTruncated, storeVars, managerVars
<1>1. CASE \/ PolicyReset \/ EmbodimentReset \/ BeginTrial \/ Horizon \/ NoPoll \/ PollFails
           \/ Poll
  BY <1>1, QuietReplan DEF PolicyReset, EmbodimentReset, BeginTrial, Horizon, NoPoll,
     PollFails, Poll, Before
<1>2. CASE PlayBuffered \/ ReviewMember \/ ReviewRaises
  BY <1>2, QuietReplan DEF PlayBuffered, Accept, ReviewMember, ReviewRaises, Before
<1>3. CASE InferAtChunkEnd \/ ReplanUnreachable \/ ReplanSlip
  BY <1>3, InferReplan DEF InferAtChunkEnd, ReplanUnreachable, ReplanSlip
<1>4. CASE Reviewed
  BY <1>4, ReviewedReplan
<1>5. CASE Step \/ RecordStepRaises \/ Interrupt \/ Finally
  BY <1>5, QuietReplan DEF Step, RecordStepRaises, Interrupt, Finally, Before
<1>6. CASE RecordStep
  BY <1>6, QuietReplan DEF RecordStep
<1>7. CASE UNCHANGED vars \/ Done
  BY <1>7, QuietReplan DEF Done, vars
<1> QED BY <1>1, <1>2, <1>3, <1>4, <1>5, <1>6, <1>7 DEF Next, Advance

\* A bounds clamp never costs more than the one replan that let the policy look again.
THEOREM ClampsPayForReplans == Spec => []OneReplanPerClamp
<1>1. Init => ReplanInv
  <2> SUFFICES ASSUME Init PROVE ReplanInv
    OBVIOUS
  <2>1. Clamps = {} /\ Unreachables = {} /\ Len(approvals) = 0
    BY DEF Init, Clamps, Unreachables
  <2> QED BY <2>1, FS_EmptySet DEF ReplanInv
<1>2. ReplanInv => OneReplanPerClamp
  BY DEF ReplanInv, OneReplanPerClamp, Clamps, Unreachables
<1> QED BY <1>1, <1>2, AlwaysTyped, NextReplan, PTL DEF Spec
=============================================================================
