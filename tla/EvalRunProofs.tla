---------------------------- MODULE EvalRunProofs ----------------------------
(***************************************************************************)
(* What TLAPS proves of EvalRun, for every number of scenes, epochs and    *)
(* rubrics and every threshold.                                            *)
(***************************************************************************)
EXTENDS EvalRun, SequenceTheorems, NumberProofs, TLAPS

----------------------------------------------------------------------------
\* TrialsIn is a recursive function: what it adds up is proved from a least number.

Sample == [status : {"success", "error", "cancelled"}, trials : Nat]

\* f adds up the trials of the first n samples of s.
Adds(f, s, n) == f = [i \in 0..n |-> IF i = 0 THEN 0 ELSE f[i - 1] + s[i].trials]

LEMMA AddsExists ==
    ASSUME NEW s \in Seq(Sample)
    PROVE  \A n \in 0..Len(s) : \E f \in [0..n -> Nat] : Adds(f, s, n)
<1> DEFINE Bad == {n \in 0..Len(s) : ~ \E f \in [0..n -> Nat] : Adds(f, s, n)}
<1> SUFFICES ASSUME Bad # {} PROVE FALSE
  OBVIOUS
<1>0. Len(s) \in Nat /\ \A i \in 1..Len(s) : s[i] \in Sample
  BY LenProperties, ElementOfSeq
<1>1. PICK n \in Bad : \A m \in Bad : n <= m
  <2>1. Bad \in SUBSET Nat
    BY <1>0
  <2> HIDE DEF Bad
  <2> QED BY <2>1, LeastNumber
<1>2. n # 0
  <2> DEFINE f == [i \in 0..0 |-> 0]
  <2>1. f \in [0..0 -> Nat] /\ Adds(f, s, 0)
    BY DEF Adds
  <2> QED BY <2>1
<1>3. PICK f \in [0..(n - 1) -> Nat] : Adds(f, s, n - 1)
  <2>1. n \in 0..Len(s)
    OBVIOUS
  <2>2. n - 1 \in 0..Len(s) /\ ~(n <= n - 1)
    BY <1>0, <1>2, <2>1
  <2>3. n - 1 \notin Bad
    <3> HIDE DEF Bad
    <3> QED BY <1>1, <2>2
  <2> QED BY <2>2, <2>3
<1> DEFINE g == [i \in 0..n |-> IF i = n THEN f[n - 1] + s[n].trials ELSE f[i]]
<1>4. s[n].trials \in Nat /\ f[n - 1] \in Nat /\ n \in Nat \ {0}
  <2>1. n \in Nat \ {0} /\ n \in 1..Len(s)
    BY <1>0, <1>2
  <2>2. s[n] \in Sample
    BY <1>0, <2>1
  <2>3. n - 1 \in 0..(n - 1)
    BY <2>1
  <2> QED BY <2>1, <2>2, <2>3 DEF Sample
<1>5. g \in [0..n -> Nat]
  BY <1>4
<1>6. Adds(g, s, n)
  <2>1. ASSUME NEW i \in 0..n PROVE g[i] = IF i = 0 THEN 0 ELSE g[i - 1] + s[i].trials
    <3>1. CASE i = n
      <4>1. g[i] = f[n - 1] + s[n].trials /\ g[i - 1] = f[n - 1]
        BY <1>4, <3>1
      <4> QED BY <1>4, <3>1, <4>1
    <3>2. CASE i # n
      <4>1. i \in 0..(n - 1) /\ g[i] = f[i]
        BY <1>4, <3>2
      <4>2. i # 0 => g[i - 1] = f[i - 1]
        BY <1>4, <4>1
      <4>3. f[i] = IF i = 0 THEN 0 ELSE f[i - 1] + s[i].trials
        BY <1>3, <4>1 DEF Adds
      <4> QED BY <4>1, <4>2, <4>3
    <3> QED BY <3>1, <3>2
  <2>2. g = [i \in 0..n |-> g[i]]
    OBVIOUS
  <2> HIDE DEF g
  <2> QED BY <2>1, <2>2 DEF Adds
<1> QED BY <1>5, <1>6

\* The sums are determined by the sequence.
LEMMA AddsAgree ==
    ASSUME NEW s \in Seq(Sample), NEW n \in Nat, NEW f, NEW g, Adds(f, s, n), Adds(g, s, n)
    PROVE  \A i \in 0..n : f[i] = g[i]
<1> DEFINE Bad == {i \in 0..n : f[i] # g[i]}
<1> SUFFICES ASSUME Bad # {} PROVE FALSE
  OBVIOUS
<1>1. PICK i \in Bad : \A j \in Bad : i <= j
  <2>1. Bad \in SUBSET Nat
    OBVIOUS
  <2> HIDE DEF Bad
  <2> QED BY <2>1, LeastNumber
<1>2. i \in 0..n /\ f[i] # g[i]
  OBVIOUS
<1>3. /\ f[i] = IF i = 0 THEN 0 ELSE f[i - 1] + s[i].trials
      /\ g[i] = IF i = 0 THEN 0 ELSE g[i - 1] + s[i].trials
  BY <1>2 DEF Adds
<1>4. i # 0
  BY <1>2, <1>3
<1>5. i - 1 \in 0..n /\ ~(i <= i - 1) /\ i \in 1..n
  BY <1>2, <1>4
<1>6. f[i - 1] = g[i - 1]
  <2>1. i - 1 \notin Bad
    <3> HIDE DEF Bad
    <3> QED BY <1>1, <1>5
  <2> QED BY <1>5, <2>1
<1> QED BY <1>2, <1>3, <1>4, <1>5, <1>6

LEMMA TrialsInAdds ==
    ASSUME NEW s \in Seq(Sample)
    PROVE  \E f \in [0..Len(s) -> Nat] : Adds(f, s, Len(s)) /\ TrialsIn(s) = f[Len(s)]
<1> DEFINE n == Len(s)
           h == CHOOSE f : Adds(f, s, n)
<1>1. n \in Nat /\ n \in 0..n
  BY LenProperties
<1>2. PICK f \in [0..n -> Nat] : Adds(f, s, n)
  BY <1>1, AddsExists
<1>3. Adds(h, s, n)
  BY <1>2
<1>4. TrialsIn(s) = h[n]
  BY DEF TrialsIn, Adds
<1>5. \A i \in 0..n : f[i] = h[i]
  <2> HIDE DEF h, n
  <2> QED BY <1>1, <1>2, <1>3, AddsAgree
<1>6. TrialsIn(s) = f[n]
  <2> HIDE DEF h, n
  <2> QED BY <1>1, <1>4, <1>5
<1> QED BY <1>2, <1>6

\* What TrialsIn makes of a list: nothing of none, and one sample's trials more.
LEMMA TrialsInEmpty == TrialsIn(<<>>) = 0
<1>1. <<>> \in Seq(Sample) /\ Len(<<>>) = 0
  OBVIOUS
<1>2. PICK f \in [0..0 -> Nat] : Adds(f, <<>>, 0) /\ TrialsIn(<<>>) = f[0]
  BY <1>1, TrialsInAdds
<1> QED BY <1>2 DEF Adds

\* A list with one sample more.
LEMMA AddsOneMore ==
    ASSUME NEW s \in Seq(Sample), NEW u \in Seq(Sample), NEW n \in Nat, NEW m \in Nat,
           m = n + 1, NEW f \in [0..n -> Nat], NEW g \in [0..m -> Nat],
           Adds(f, s, n), Adds(g, u, m), \A i \in 1..n : u[i] = s[i]
    PROVE  g[m] = f[n] + u[m].trials
<1>0. /\ n <= m
      /\ \A i \in 0..n : /\ f[i] = IF i = 0 THEN 0 ELSE f[i - 1] + s[i].trials
                        /\ g[i] = IF i = 0 THEN 0 ELSE g[i - 1] + u[i].trials
  BY DEF Adds
<1>1. \A i \in 0..n : f[i] = g[i]
  <2> DEFINE Bad == {i \in 0..n : f[i] # g[i]}
  <2> SUFFICES ASSUME Bad # {} PROVE FALSE
    OBVIOUS
  <2>1. PICK i \in Bad : \A j \in Bad : i <= j
    <3>1. Bad \in SUBSET Nat
      OBVIOUS
    <3> HIDE DEF Bad
    <3> QED BY <3>1, LeastNumber
  <2>2. i \in 0..n /\ f[i] # g[i] /\ i # 0
    BY <1>0
  <2>3. i - 1 \in 0..n /\ ~(i <= i - 1) /\ i \in 1..n
    BY <2>2
  <2>4. f[i - 1] = g[i - 1]
    <3>1. i - 1 \notin Bad
      <4> HIDE DEF Bad
      <4> QED BY <2>1, <2>3
    <3> QED BY <2>3, <3>1
  <2> QED BY <1>0, <2>2, <2>3, <2>4
<1>2. g[m] = g[n] + u[m].trials
  BY SMTT(30) DEF Adds
<1> QED BY <1>1, <1>2

LEMMA TrialsInNat ==
    ASSUME NEW s \in Seq(Sample)
    PROVE  TrialsIn(s) \in Nat
<1>1. PICK f \in [0..Len(s) -> Nat] : TrialsIn(s) = f[Len(s)]
  BY TrialsInAdds
<1>2. Len(s) \in 0..Len(s)
  BY LenProperties
<1> QED BY <1>1, <1>2

LEMMA TrialsInAppend ==
    ASSUME NEW s \in Seq(Sample), NEW x \in Sample
    PROVE  TrialsIn(Append(s, x)) = TrialsIn(s) + x.trials
<1>1. /\ Append(s, x) \in Seq(Sample) /\ Len(Append(s, x)) = Len(s) + 1
      /\ Append(s, x)[Len(s) + 1] = x /\ Len(s) \in Nat
      /\ \A i \in 1..Len(s) : Append(s, x)[i] = s[i]
  BY AppendProperties, LenProperties
<1>2. PICK f \in [0..Len(s) -> Nat] : Adds(f, s, Len(s)) /\ TrialsIn(s) = f[Len(s)]
  BY TrialsInAdds
<1>3. PICK u \in Seq(Sample), m \in Nat :
        u = Append(s, x) /\ m = Len(s) + 1 /\ m = Len(u) /\ u[m] = x
  BY <1>1
<1>4. PICK g \in [0..Len(u) -> Nat] : Adds(g, u, Len(u)) /\ TrialsIn(u) = g[Len(u)]
  BY TrialsInAdds
<1>5. \A i \in 1..Len(s) : u[i] = s[i]
  BY <1>1, <1>3
<1>6. Adds(g, u, m) /\ TrialsIn(u) = g[m] /\ g \in [0..m -> Nat]
  BY <1>3, <1>4
<1>7. g[m] = f[Len(s)] + u[m].trials
  BY <1>1, <1>2, <1>3, <1>5, <1>6, AddsOneMore, Zenon
<1>8. f[Len(s)] \in Nat
  BY <1>1, <1>2
<1> QED BY <1>2, <1>3, <1>6, <1>7, <1>8

----------------------------------------------------------------------------
\* The inductive invariant, part by part. The types first.

\* The trial the loop stands at, counted from 1.
Slot == (scene - 1) * Epochs + epoch

Ahead == {"setup", "eval_start", "before", "trial_start", "policy_start", "rollout"}
InTrial == {"account", "observe", "grade", "score", "policy_end", "sink_end", "park"}
Over == {"close", "done"}

Enumerated ==
    /\ pc \in Stages /\ failOn \in FailOnErrors
    /\ record \in {"none", "success", "error", "cancelled"}
    /\ status \in {"success", "error", "cancelled"}
    /\ sceneStatus \in {"success", "error", "cancelled"}
    /\ haltExc \in Halts \cup {"none"}
    /\ log \in {"none", "success", "error", "cancelled"}
    /\ escape \in Raisable \cup {"none", "Cancelled", "KeyboardInterrupt"}

HaltsKnown == halts \subseteq HaltSources

Flags ==
    /\ startFailed \in BOOLEAN
    /\ halted \in BOOLEAN /\ stopped \in BOOLEAN /\ cancelled \in BOOLEAN
    /\ moved \in BOOLEAN /\ trouble \in BOOLEAN /\ interrupted \in BOOLEAN
    /\ closeRaised \in BOOLEAN

Lists ==
    /\ epochDicts \in Seq(BOOLEAN)
    /\ recordIds \in Seq({"success", "error", "cancelled"})
    /\ scores \in [Rubrics -> Nat]
    /\ samples \in Seq(Sample)

\* A trial has a record from its accounting until it is parked.
RecordKnown ==
    /\ pc \in InTrial \ {"park"} => record # "none"
    /\ pc \in {"observe", "grade", "score"} => record = "success"

\* No trial is counted or started before the loop has come to it.
Numbers ==
    /\ scene \in 1..Scenes /\ epoch \in 1..Epochs
    /\ total \in 0..Planned /\ errored \in 0..total /\ ungraded \in 0..total
    /\ errorCount \in 0..Planned /\ rollouts \in 0..Planned
    /\ pc \notin {"account", "close", "done"} => errorCount <= errored
    /\ pc = "account" => errorCount <= (IF record = "error" THEN errored + 1 ELSE errored)
    /\ pc \in {"observe", "grade"} => ungraded < total
    /\ total <= Slot /\ (pc \in Ahead \cup {"account"} => total < Slot)
    /\ rollouts <= Slot /\ (pc \in Ahead => rollouts < Slot)

Counted == Enumerated /\ HaltsKnown /\ Flags /\ Lists /\ RecordKnown /\ Numbers

\* What the loop's position says about the number of planned trials.
LEMMA SlotBound ==
    ASSUME scene \in 1..Scenes, epoch \in 1..Epochs
    PROVE  /\ Slot \in 1..Planned /\ Planned \in Nat
           /\ scene * Epochs \in Nat /\ Slot <= scene * Epochs
<1> DEFINE a == scene * Epochs
           b == Scenes * Epochs
           c == (scene - 1) * Epochs
<1>1. /\ scene \in Nat /\ 1 <= scene /\ scene <= Scenes /\ Scenes \in Nat
      /\ epoch \in Nat /\ 1 <= epoch /\ epoch <= Epochs /\ Epochs \in Nat
  BY EvalRunAssumption
<1>2. a <= b /\ c = a - Epochs /\ a \in Nat /\ b \in Nat /\ c \in Nat
  BY <1>1
<1>3. Slot = c + epoch /\ Planned = b
  BY DEF Slot, Planned
<1>4. Slot \in 1..Planned /\ Planned \in Nat /\ Slot <= a
  <2> HIDE DEF a, b, c
  <2> QED BY <1>1, <1>2, <1>3
<1> QED BY <1>2, <1>4

LEMMA SlotStays ==
    ASSUME UNCHANGED position
    PROVE  Slot' = Slot
  BY DEF Slot, position

LEMMA SlotGrows ==
    ASSUME scene \in 1..Scenes, epoch \in 1..Epochs
    PROVE  /\ scene' = scene /\ epoch' = epoch + 1 => Slot' = Slot + 1
           /\ scene' = scene + 1 /\ epoch' = 1 => Slot' \in Nat /\ Slot' > Slot
<1> DEFINE a == scene * Epochs
<1>1. a \in Nat /\ Slot \in Nat /\ Slot <= a /\ (scene - 1) * Epochs \in Int
  BY SlotBound, EvalRunAssumption
<1>2. scene' = scene /\ epoch' = epoch + 1 => Slot' = Slot + 1
  BY <1>1 DEF Slot
<1>3. ASSUME scene' = scene + 1, epoch' = 1 PROVE Slot' = a + 1
  <2>1. scene' - 1 = scene
    BY <1>3
  <2> QED BY <1>3, <2>1 DEF Slot
<1> HIDE DEF a
<1> QED BY <1>1, <1>2, <1>3

\* However park() ends, the exception that leaves eval() is a halt when a halt
\* was raised on the way.
LEMMA ParkThenEscapeEnds ==
    ASSUME NEW exc \in Raisable, NEW source \in HaltSources, ParkThenEscape(exc, source)
    PROVE  /\ pc' = "close" /\ escape' \in Raisable /\ moved' = FALSE
           /\ halts' \subseteq halts \cup {"hook", source}
           /\ halts' \subseteq halts \/ escape' \in Halts
  BY DEF ParkThenEscape, ParkResults, Escape, Halts, Raisable, TypedErrors

\* From here on the groups of variables are read as their members.
USE DEF position, counters, flow, lists, results, ghosts

LEMMA EnumeratedStep ==
    ASSUME Enumerated, Flags, Advance \/ Interrupt
    PROVE  Enumerated'
<1>0. \A exc \in Raisable : \A source \in HaltSources :
        ParkThenEscape(exc, source) => pc' = "close" /\ escape' \in Raisable
  BY ParkThenEscapeEnds
<1> USE DEF Enumerated, Stages, Halts, Raisable, TypedErrors
<1>1. CASE Setup \/ EvalStart
  BY <1>1 DEF Setup, EvalStart, Escape, Refuse, Contain
<1>2. CASE Ready
  BY <1>2 DEF Ready, NextTrial, Owed
<1>18. CASE Interrupt
  BY <1>18 DEF Interrupt, Escape, InRollout
<1>19. CASE NotReady
  BY <1>19 DEF NotReady, Escape, Refuse, HaltOf, FirstHalt
<1>20. CASE HomeFails
  BY <1>20 DEF HomeFails, Refuse, HaltOf, FirstHalt
<1>3. CASE SinkTrialStart \/ TrialRaises
  BY <1>0, <1>3 DEF SinkTrialStart, TrialRaises, HaltSources
<1>4. CASE Observe
  BY <1>0, <1>4, ZenonT(40) DEF Observe, HaltSources
<1>5. CASE Grade
  BY <1>0, <1>5 DEF Grade, HaltSources
<1>6. CASE ScoreHalts
  BY <1>0, <1>6 DEF ScoreHalts, HaltSources
<1>7. CASE PolicyStart \/ TrialReturns \/ TrialCancelled
  BY <1>7
     DEF PolicyStart, TrialReturns, TrialCancelled, Escape, Refuse, HaltOf, FirstHalt,
     InRollout, Contain, NextTrial, Owed
<1>8. CASE TrialHalts \/ TrialPolicyError
  BY <1>8
     DEF TrialHalts, TrialPolicyError, Escape, Refuse, HaltOf, FirstHalt, InRollout,
     Contain, NextTrial, Owed
<1>9. CASE Account \/ Score \/ PolicyEnd
  BY <1>9
     DEF Account, Score, PolicyEnd, Escape, Refuse, HaltOf, FirstHalt, InRollout,
     Contain, NextTrial, Owed
<1>10. CASE SinkEndRaises
  BY <1>0, <1>10 DEF SinkEndRaises, Escape, HaltSources
<1>11. CASE SinkEnd \/ LeaveUnparked \/ Park
  BY <1>11
     DEF SinkEnd, LeaveUnparked, Park, Escape, Refuse, HaltOf, FirstHalt, InRollout,
     Contain, NextTrial, Owed
<1>12. CASE ParkFails
  BY <1>12
     DEF ParkFails, Escape, Refuse, HaltOf, FirstHalt, InRollout, Contain, NextTrial,
     Owed
<1>13. CASE Decide
  BY <1>13
     DEF Decide, Escape, Refuse, HaltOf, FirstHalt, InRollout, Contain, NextTrial, Owed
<1>14. CASE SceneEnd \/ Assemble
  BY <1>14
     DEF SceneEnd, Assemble, Escape, Refuse, HaltOf, FirstHalt, InRollout, Contain,
     NextTrial, Owed
<1>15. CASE SinkEvalEnd
  BY <1>15
     DEF SinkEvalEnd, Escape, Refuse, HaltOf, FirstHalt, InRollout, Contain, NextTrial,
     Owed
<1>16. CASE SinkEvalEndRaises
  BY <1>16
     DEF SinkEvalEndRaises, Escape, Refuse, HaltOf, FirstHalt, InRollout, Contain,
     NextTrial, Owed
<1>17. CASE Close
  BY <1>17
     DEF Close, Escape, Refuse, HaltOf, FirstHalt, InRollout, Contain, NextTrial, Owed
<1> QED BY <1>1, <1>2, <1>3, <1>4, <1>5, <1>6, <1>7, <1>8, <1>9, <1>10, <1>11, <1>12,
     <1>13, <1>14, <1>15, <1>16, <1>17, <1>18, <1>19, <1>20, Zenon DEF Advance

LEMMA HaltsKnownStep ==
    ASSUME HaltsKnown, Advance \/ Interrupt
    PROVE  HaltsKnown'
<1> USE DEF HaltsKnown, HaltSources, Escape, Raised, ParkThenEscape, Refuse, InRollout
<1>1. CASE Setup \/ EvalStart \/ Ready \/ Interrupt
  BY <1>1 DEF Setup, EvalStart, Ready, Interrupt
<1>2. CASE NotReady \/ HomeFails
  BY <1>2 DEF NotReady, HomeFails
<1>3. CASE SinkTrialStart \/ PolicyStart
  BY <1>3 DEF SinkTrialStart, PolicyStart
<1>4. CASE TrialReturns \/ TrialCancelled \/ TrialHalts
  BY <1>4 DEF TrialReturns, TrialCancelled, TrialHalts
<1>5. CASE TrialPolicyError \/ TrialRaises
  BY <1>5 DEF TrialPolicyError, TrialRaises
<1>6. CASE Account \/ Observe \/ Grade
  BY <1>6 DEF Account, Observe, Grade
<1>7. CASE Score \/ ScoreHalts \/ PolicyEnd
  BY <1>7 DEF Score, ScoreHalts, PolicyEnd
<1>8. CASE SinkEndRaises \/ SinkEnd
  BY <1>8 DEF SinkEndRaises, SinkEnd
<1>9. CASE LeaveUnparked \/ Park \/ ParkFails
  BY <1>9 DEF LeaveUnparked, Park, ParkFails
<1>10. CASE Decide \/ SceneEnd \/ Assemble
  BY <1>10 DEF Decide, SceneEnd, Assemble
<1>11. CASE SinkEvalEnd \/ SinkEvalEndRaises \/ Close
  BY <1>11 DEF SinkEvalEnd, SinkEvalEndRaises, Close
<1> QED BY <1>1, <1>2, <1>3, <1>4, <1>5, <1>6, <1>7, <1>8, <1>9, <1>10, <1>11, Zenon DEF Advance

LEMMA FlagsStep ==
    ASSUME Flags, Advance \/ Interrupt
    PROVE  Flags'
<1> USE DEF Flags, Escape, ParkThenEscape, Refuse, InRollout, Contain
<1>1. CASE Setup \/ EvalStart \/ Ready
  BY <1>1, Zenon DEF Setup, EvalStart, Ready
<1>2. CASE NotReady \/ HomeFails
  BY <1>2, Zenon DEF NotReady, HomeFails
<1>3. CASE SinkTrialStart \/ PolicyStart
  BY <1>3, Zenon DEF SinkTrialStart, PolicyStart
<1>4. CASE TrialReturns \/ TrialCancelled \/ TrialHalts
  BY <1>4, Zenon DEF TrialReturns, TrialCancelled, TrialHalts
<1>5. CASE TrialPolicyError \/ TrialRaises
  BY <1>5, Zenon DEF TrialPolicyError, TrialRaises
<1>6. CASE Account \/ Observe \/ Grade
  BY <1>6, Zenon DEF Account, Observe, Grade
<1>7. CASE Score \/ ScoreHalts \/ PolicyEnd
  BY <1>7, ZenonT(30) DEF Score, ScoreHalts, PolicyEnd
<1>8. CASE SinkEndRaises \/ SinkEnd
  BY <1>8, Zenon DEF SinkEndRaises, SinkEnd
<1>9. CASE LeaveUnparked \/ Park \/ ParkFails
  BY <1>9, Zenon DEF LeaveUnparked, Park, ParkFails
<1>10. CASE Decide \/ SceneEnd \/ Assemble
  BY <1>10, Zenon DEF Decide, SceneEnd, Assemble
<1>11. CASE SinkEvalEnd \/ SinkEvalEndRaises
  BY <1>11, Zenon DEF SinkEvalEnd, SinkEvalEndRaises
<1>12. CASE Close \/ Interrupt
  BY <1>12, Zenon DEF Close, Interrupt
<1> QED BY <1>1, <1>2, <1>3, <1>4, <1>5, <1>6, <1>7, <1>8, <1>9, <1>10, <1>11, <1>12,
     Zenon DEF Advance

LEMMA RecordKnownStep ==
    ASSUME RecordKnown, Advance \/ Interrupt
    PROVE  RecordKnown'
<1> USE DEF RecordKnown, InTrial, Escape, ParkThenEscape, Refuse, InRollout, NextTrial
<1>1. CASE Setup \/ EvalStart \/ Ready \/ NotReady \/ HomeFails \/ SinkTrialStart \/
          PolicyStart
  BY <1>1 DEF Setup, EvalStart, Ready, NotReady, HomeFails, SinkTrialStart, PolicyStart
<1>2. CASE TrialReturns \/ TrialCancelled \/ TrialHalts \/ TrialPolicyError \/
          TrialRaises
  BY <1>2 DEF TrialReturns, TrialCancelled, TrialHalts, TrialPolicyError, TrialRaises
<1>3. CASE Account \/ Observe \/ Grade \/ Score \/ ScoreHalts
  BY <1>3 DEF Account, Observe, Grade, Score, ScoreHalts
<1>4. CASE PolicyEnd \/ SinkEndRaises \/ SinkEnd
  BY <1>4 DEF PolicyEnd, SinkEndRaises, SinkEnd
<1>5. CASE LeaveUnparked \/ Park \/ ParkFails \/ Decide \/ SceneEnd \/ Assemble
  BY <1>5 DEF LeaveUnparked, Park, ParkFails, Decide, SceneEnd, Assemble
<1>6. CASE SinkEvalEnd \/ SinkEvalEndRaises \/ Close \/ Interrupt
  BY <1>6 DEF SinkEvalEnd, SinkEvalEndRaises, Close, Interrupt
<1> QED BY <1>1, <1>2, <1>3, <1>4, <1>5, <1>6, Zenon DEF Advance

LEMMA ListsStep ==
    ASSUME Enumerated, RecordKnown, Lists, Advance \/ Interrupt
    PROVE  Lists'
<1> USE DEF Lists, RecordKnown, InTrial, Refuse, InRollout, Escape
<1>1. CASE Setup \/ EvalStart \/ Ready \/ NotReady \/ HomeFails \/ SinkTrialStart \/
          PolicyStart
  BY <1>1 DEF Setup, EvalStart, Ready, NotReady, HomeFails, SinkTrialStart, PolicyStart
<1>2. CASE TrialReturns \/ TrialCancelled \/ TrialHalts \/ TrialPolicyError \/
          TrialRaises
  BY <1>2 DEF TrialReturns, TrialCancelled, TrialHalts, TrialPolicyError, TrialRaises
<1>3. CASE Observe \/ Grade \/ ScoreHalts \/ SinkEndRaises \/ SinkEnd
  BY <1>3 DEF Observe, Grade, ScoreHalts, SinkEndRaises, SinkEnd
<1>4. CASE LeaveUnparked \/ Park \/ ParkFails \/ Decide \/ Assemble
  BY <1>4 DEF LeaveUnparked, Park, ParkFails, Decide, Assemble
<1>5. CASE SinkEvalEnd \/ SinkEvalEndRaises \/ Close \/ Interrupt
  BY <1>5 DEF SinkEvalEnd, SinkEvalEndRaises, Close, Interrupt
<1>6. CASE Account
  <2>1. Append(epochDicts, FALSE) \in Seq(BOOLEAN)
    BY AppendProperties, Zenon DEF Lists
  <2> QED BY <1>6, <2>1 DEF Account
<1>7. CASE Score
  <2>1. Append(epochDicts, TRUE) \in Seq(BOOLEAN)
    BY AppendProperties, Zenon DEF Lists
  <2> QED BY <1>7, <2>1 DEF Score
<1>8. CASE PolicyEnd
  <2>1. record \in {"success", "error", "cancelled"}
    BY <1>8 DEF PolicyEnd, Enumerated
  <2>2. Append(recordIds, record) \in Seq({"success", "error", "cancelled"})
    BY <2>1, AppendProperties, Zenon DEF Lists
  <2> QED BY <1>8, <2>2 DEF PolicyEnd, RecordTrial
<1>9. CASE SceneEnd
  <2>1. ASSUME NEW x \in Sample PROVE Append(samples, x) \in Seq(Sample)
    BY AppendProperties, Zenon DEF Lists
  <2>2. ASSUME NEW fails \in BOOLEAN
        PROVE  [status |-> IF fails THEN "error" ELSE sceneStatus,
                trials |-> Len(recordIds)] \in Sample
    BY DEF Enumerated, Sample
  <2>3. samples' \in Seq(Sample)
    BY <1>9, <2>1, <2>2 DEF SceneEnd
  <2>4. CASE UNCHANGED lists
    BY <2>3, <2>4
  <2>5. CASE epochDicts' = <<>> /\ recordIds' = <<>> /\ scores' = NoScores
    BY <2>3, <2>5 DEF NoScores
  <2> QED BY <1>9, <2>4, <2>5 DEF SceneEnd
<1> QED BY <1>1, <1>2, <1>3, <1>4, <1>5, <1>6, <1>7, <1>8, <1>9, Zenon DEF Advance

LEMMA NumbersStep ==
    ASSUME Enumerated, RecordKnown, Numbers, Advance \/ Interrupt
    PROVE  Numbers'
<1>0. /\ Slot \in 1..Planned /\ Planned \in Nat /\ Planned' = Planned
      /\ Epochs \in Nat /\ Scenes \in Nat
      /\ UNCHANGED position => Slot' = Slot
  BY SlotBound, SlotStays, EvalRunAssumption DEF Numbers, Planned
<1> USE DEF Numbers, Ahead, Refuse, InRollout, Escape, ParkThenEscape
<1>1. CASE Setup \/ EvalStart \/ Ready \/ NotReady \/ HomeFails
  BY <1>1, <1>0 DEF Setup, EvalStart, Ready, NotReady, HomeFails
<1>2. CASE SinkTrialStart \/ PolicyStart
  BY <1>2, <1>0 DEF SinkTrialStart, PolicyStart
<1>3. CASE TrialReturns \/ TrialCancelled \/ TrialHalts
  BY <1>3, <1>0 DEF TrialReturns, TrialCancelled, TrialHalts
<1>4. CASE TrialPolicyError \/ TrialRaises
  BY <1>4, <1>0 DEF TrialPolicyError, TrialRaises
<1>5. CASE Account
  <2>1. CASE record = "success"
    BY <1>0, <1>5, <2>1 DEF Account
  <2>2. CASE record = "error"
    BY <1>0, <1>5, <2>2 DEF Account
  <2>3. CASE record = "cancelled"
    BY <1>0, <1>5, <2>3 DEF Account
  <2> QED BY <1>5, <2>1, <2>2, <2>3 DEF Account, Enumerated, RecordKnown, InTrial
<1>6. CASE Observe
  BY <1>6, <1>0 DEF Observe
<1>7. CASE Grade
  BY <1>7, <1>0 DEF Grade
<1>8. CASE Score \/ ScoreHalts \/ PolicyEnd
  BY <1>8, <1>0 DEF Score, ScoreHalts, PolicyEnd
<1>9. CASE SinkEndRaises \/ SinkEnd \/ LeaveUnparked
  BY <1>9, <1>0 DEF SinkEndRaises, SinkEnd, LeaveUnparked
<1>10. CASE Park \/ ParkFails
  BY <1>10, <1>0 DEF Park, ParkFails
<1>11. CASE Decide
  <2>1. CASE pc' = "scene_end" /\ UNCHANGED epoch
    BY <1>0, <1>11, <2>1 DEF Decide
  <2>2. CASE epoch < Epochs /\ epoch' = epoch + 1 /\ pc' = "before"
    <3>1. scene' = scene /\ scene' \in 1..Scenes /\ epoch' \in 1..Epochs
      BY <1>0, <1>11, <2>2 DEF Decide
    <3>2. Slot' = Slot + 1
      BY <2>2, <3>1, SlotGrows
    <3> QED BY <1>0, <1>11, <2>2, <3>1, <3>2 DEF Decide
  <2> QED BY <1>11, <2>1, <2>2 DEF Decide, NextTrial
<1>12. CASE SceneEnd
  <2>1. CASE pc' = "assemble" /\ UNCHANGED position
    BY <1>0, <1>12, <2>1 DEF SceneEnd
  <2>2. CASE scene # Scenes /\ scene' = scene + 1 /\ epoch' = 1 /\ pc' = "before"
    <3>1. Slot' \in Nat /\ Slot' > Slot
      BY <2>2, SlotGrows
    <3> QED BY <1>0, <1>12, <2>2, <3>1, EvalRunAssumption DEF SceneEnd
  <2> QED BY <1>12, <2>1, <2>2 DEF SceneEnd
<1>13. CASE Assemble \/ SinkEvalEnd \/ SinkEvalEndRaises \/ Close \/ Interrupt
  BY <1>13, <1>0 DEF Assemble, SinkEvalEnd, SinkEvalEndRaises, Close, Interrupt
<1> QED BY <1>1, <1>2, <1>3, <1>4, <1>5, <1>6, <1>7, <1>8, <1>9, <1>10, <1>11, <1>12,
     <1>13, Zenon DEF Advance

LEMMA CountedInit == Init => Counted
<1> SUFFICES ASSUME Init PROVE Counted
  OBVIOUS
<1>1. Enumerated /\ HaltsKnown /\ RecordKnown
  BY DEF Init, Enumerated, HaltsKnown, RecordKnown, Stages, InTrial
<1>2. Flags
  BY Zenon DEF Init, Flags
<1>3. Lists
  BY DEF Init, Lists, NoScores
<1>4. scene \in 1..Scenes /\ epoch \in 1..Epochs
  BY EvalRunAssumption DEF Init
<1>5. Slot \in 1..Planned /\ Planned \in Nat
  BY <1>4, SlotBound
<1>6. Numbers
  BY <1>4, <1>5 DEF Init, Numbers, Ahead
<1> QED BY <1>1, <1>2, <1>3, <1>6 DEF Counted

\* A step that changes nothing.
LEMMA CountedStays == Counted /\ UNCHANGED vars => Counted'
<1> SUFFICES ASSUME Counted, UNCHANGED vars PROVE Counted'
  OBVIOUS
<1>1. Slot' = Slot /\ Planned' = Planned
  BY SlotStays DEF vars, Planned
<1>2. Enumerated' /\ HaltsKnown' /\ RecordKnown'
  BY DEF Counted, Enumerated, HaltsKnown, RecordKnown, vars
<1>3. Flags'
  BY Zenon DEF Counted, Flags, vars
<1>4. Lists'
  BY DEF Counted, Lists, vars
<1>5. Numbers'
  BY <1>1 DEF Counted, Numbers, vars
<1> QED BY <1>2, <1>3, <1>4, <1>5 DEF Counted

LEMMA CountedStep == Counted /\ [Next]_vars => Counted'
<1> SUFFICES ASSUME Counted, [Next]_vars PROVE Counted'
  OBVIOUS
<1>1. CASE Advance \/ Interrupt
  BY <1>1, EnumeratedStep, HaltsKnownStep, FlagsStep, RecordKnownStep, ListsStep, NumbersStep
     DEF Counted
<1>2. CASE UNCHANGED vars
  BY <1>2, CountedStays
<1> QED BY <1>1, <1>2 DEF Next, Done

LEMMA CountedAlways == Spec => []Counted
  BY CountedInit, CountedStep, PTL DEF Spec

\* Types, and the counters' bounds.
THEOREM TypesHold == Spec => []TypeOK
<1>1. Counted => TypeOK
  <2> SUFFICES ASSUME Counted PROVE TypeOK
    OBVIOUS
  <2>1. Flags /\ Numbers /\ Lists /\ Enumerated /\ HaltsKnown
    BY DEF Counted
  <2> QED BY <2>1, Zenon DEF TypeOK, Flags, Numbers, Lists, Enumerated, HaltsKnown, Sample
<1> QED BY <1>1, CountedAlways, PTL

----------------------------------------------------------------------------
\* Where a halt may stand in the run.

\* A run halts with a trial, or is stopped between two trials.
StopsOnHalt ==
    /\ cancelled => halted
    /\ pc \in Ahead => ~halted
    /\ pc \in Ahead \cup InTrial \cup {"decide"} => ~stopped
    /\ pc = "scene_end" /\ halted => stopped
    /\ pc \notin Over /\ halts # {} => halted \/ stopped

LEMMA StopsOnHaltStep ==
    ASSUME StopsOnHalt, Advance \/ Interrupt
    PROVE  StopsOnHalt'
<1> USE DEF StopsOnHalt, Ahead, InTrial, Over, Escape, Raised, ParkThenEscape, Refuse,
            InRollout, Contain, NextTrial
<1>1. CASE Setup \/ EvalStart
  BY <1>1 DEF Setup, EvalStart
<1>2. CASE Ready
  BY <1>2 DEF Ready
<1>3. CASE NotReady
  BY <1>3 DEF NotReady
<1>4. CASE HomeFails
  BY <1>4 DEF HomeFails
<1>5. CASE SinkTrialStart \/ PolicyStart
  BY <1>5 DEF SinkTrialStart, PolicyStart
<1>6. CASE TrialReturns \/ TrialCancelled \/ TrialHalts
  BY <1>6 DEF TrialReturns, TrialCancelled, TrialHalts
<1>7. CASE TrialPolicyError \/ TrialRaises
  BY <1>7 DEF TrialPolicyError, TrialRaises
<1>8. CASE Account
  BY <1>8 DEF Account
<1>9. CASE Observe
  BY <1>9 DEF Observe
<1>10. CASE Grade
  BY <1>10 DEF Grade
<1>11. CASE Score
  BY <1>11 DEF Score
<1>12. CASE ScoreHalts
  BY <1>12 DEF ScoreHalts
<1>13. CASE PolicyEnd
  BY <1>13 DEF PolicyEnd
<1>14. CASE SinkEndRaises \/ SinkEnd \/ LeaveUnparked
  BY <1>14 DEF SinkEndRaises, SinkEnd, LeaveUnparked
<1>15. CASE Park
  BY <1>15 DEF Park
<1>16. CASE ParkFails
  BY <1>16 DEF ParkFails
<1>17. CASE Decide
  BY <1>17 DEF Decide
<1>18. CASE SceneEnd
  BY <1>18 DEF SceneEnd
<1>19. CASE Assemble
  BY <1>19 DEF Assemble
<1>20. CASE SinkEvalEnd
  BY <1>20 DEF SinkEvalEnd
<1>21. CASE SinkEvalEndRaises
  BY <1>21 DEF SinkEvalEndRaises
<1>22. CASE Close \/ Interrupt
  BY <1>22 DEF Close, Interrupt
<1> QED BY <1>1, <1>2, <1>3, <1>4, <1>5, <1>6, <1>7, <1>8, <1>9, <1>10, <1>11, <1>12,
     <1>13, <1>14, <1>15, <1>16, <1>17, <1>18, <1>19, <1>20, <1>21, <1>22, Zenon DEF Advance

\* Where the platform may have moved since it was last parked.
Between == {"setup", "eval_start", "before", "decide", "scene_end", "assemble", "eval_end"}
ParkedBetween ==
    /\ moved /\ pc \in Between => cancelled
    /\ moved /\ pc \in Over => cancelled \/ interrupted

LEMMA ParkedBetweenStep ==
    ASSUME ParkedBetween, StopsOnHalt, Advance \/ Interrupt
    PROVE  ParkedBetween'
<1> USE DEF ParkedBetween, Between, StopsOnHalt, Ahead, InTrial, Over, Escape,
            ParkThenEscape, Refuse, InRollout, NextTrial
<1>1. CASE Setup \/ EvalStart
  BY <1>1 DEF Setup, EvalStart
<1>2. CASE Ready
  BY <1>2 DEF Ready
<1>3. CASE NotReady
  BY <1>3 DEF NotReady
<1>4. CASE HomeFails
  BY <1>4 DEF HomeFails
<1>5. CASE SinkTrialStart \/ PolicyStart
  BY <1>5 DEF SinkTrialStart, PolicyStart
<1>6. CASE TrialReturns \/ TrialCancelled \/ TrialHalts
  BY <1>6 DEF TrialReturns, TrialCancelled, TrialHalts
<1>7. CASE TrialPolicyError \/ TrialRaises
  BY <1>7 DEF TrialPolicyError, TrialRaises
<1>8. CASE Account
  BY <1>8 DEF Account
<1>9. CASE Observe
  BY <1>9 DEF Observe
<1>10. CASE Grade
  BY <1>10 DEF Grade
<1>11. CASE Score
  BY <1>11 DEF Score
<1>12. CASE ScoreHalts
  BY <1>12 DEF ScoreHalts
<1>13. CASE PolicyEnd
  BY <1>13 DEF PolicyEnd
<1>14. CASE SinkEndRaises \/ SinkEnd \/ LeaveUnparked
  BY <1>14 DEF SinkEndRaises, SinkEnd, LeaveUnparked
<1>15. CASE Park
  BY <1>15 DEF Park
<1>16. CASE ParkFails
  BY <1>16 DEF ParkFails
<1>17. CASE Decide
  BY <1>17 DEF Decide
<1>18. CASE SceneEnd
  BY <1>18 DEF SceneEnd
<1>19. CASE Assemble
  BY <1>19 DEF Assemble
<1>20. CASE SinkEvalEnd
  BY <1>20 DEF SinkEvalEnd
<1>21. CASE SinkEvalEndRaises
  BY <1>21 DEF SinkEvalEndRaises
<1>22. CASE Close \/ Interrupt
  BY <1>22 DEF Close, Interrupt
<1> QED BY <1>1, <1>2, <1>3, <1>4, <1>5, <1>6, <1>7, <1>8, <1>9, <1>10, <1>11, <1>12,
     <1>13, <1>14, <1>15, <1>16, <1>17, <1>18, <1>19, <1>20, <1>21, <1>22, Zenon DEF Advance

HookHalted == {"hook", "observe"} \cap halts # {}

\* Where the halt of a hook is kept until it leaves eval().
HookHaltKept ==
    /\ pc \in Ahead \cup InTrial => ~HookHalted
    /\ pc \notin Over /\ HookHalted => haltExc \in Halts
    /\ pc \in Over /\ HookHalted /\ ~closeRaised =>
         escape \in Halts \cup {"Cancelled", "KeyboardInterrupt"}

LEMMA HookHaltKeptStep ==
    ASSUME Counted, HookHaltKept, StopsOnHalt, Advance \/ Interrupt
    PROVE  HookHaltKept'
<1>0. haltExc \in Halts \cup {"none"} /\ "none" \notin Halts
  BY DEF Counted, Enumerated, Halts
<1> USE DEF HookHaltKept, HookHalted, StopsOnHalt, Ahead, InTrial, Over, Escape, Raised,
            ParkThenEscape, Refuse, InRollout, NextTrial, HaltOf, FirstHalt, Owed
<1>1. CASE Setup \/ EvalStart
  BY <1>1, <1>0 DEF Setup, EvalStart
<1>2. CASE Ready
  BY <1>2, <1>0 DEF Ready
<1>3. CASE NotReady
  BY <1>3, <1>0 DEF NotReady
<1>4. CASE HomeFails
  BY <1>4, <1>0 DEF HomeFails
<1>5. CASE SinkTrialStart \/ PolicyStart
  BY <1>5, <1>0 DEF SinkTrialStart, PolicyStart
<1>6. CASE TrialReturns \/ TrialCancelled \/ TrialHalts
  BY <1>6, <1>0 DEF TrialReturns, TrialCancelled, TrialHalts
<1>7. CASE TrialPolicyError \/ TrialRaises
  BY <1>7, <1>0 DEF TrialPolicyError, TrialRaises
<1>8. CASE Account
  BY <1>8, <1>0 DEF Account
<1>9. CASE Observe
  BY <1>9, <1>0 DEF Observe
<1>10. CASE Grade
  BY <1>10, <1>0 DEF Grade
<1>11. CASE Score
  BY <1>11, <1>0 DEF Score
<1>12. CASE ScoreHalts
  BY <1>12, <1>0 DEF ScoreHalts
<1>13. CASE PolicyEnd
  BY <1>13, <1>0 DEF PolicyEnd
<1>14. CASE SinkEndRaises \/ SinkEnd \/ LeaveUnparked
  BY <1>14, <1>0 DEF SinkEndRaises, SinkEnd, LeaveUnparked
<1>15. CASE Park
  BY <1>15, <1>0 DEF Park
<1>16. CASE ParkFails
  BY <1>16, <1>0 DEF ParkFails
<1>17. CASE Decide
  BY <1>17, <1>0 DEF Decide
<1>18. CASE SceneEnd
  BY <1>18, <1>0 DEF SceneEnd
<1>19. CASE Assemble
  BY <1>19, <1>0 DEF Assemble
<1>20. CASE SinkEvalEnd
  BY <1>20, <1>0 DEF SinkEvalEnd
<1>21. CASE SinkEvalEndRaises
  BY <1>21, <1>0 DEF SinkEvalEndRaises
<1>22. CASE Close \/ Interrupt
  BY <1>22, <1>0 DEF Close, Interrupt
<1> QED BY <1>1, <1>2, <1>3, <1>4, <1>5, <1>6, <1>7, <1>8, <1>9, <1>10, <1>11, <1>12,
     <1>13, <1>14, <1>15, <1>16, <1>17, <1>18, <1>19, <1>20, <1>21, <1>22, Zenon DEF Advance

\* What the run's status says at each stage.
StatusEarned ==
    /\ pc \notin Over => /\ log = "none" /\ (halted => trouble)
                         /\ status = "cancelled" <=> cancelled
    /\ pc \in Ahead \cup InTrial \cup {"decide"} => (status = "success" <=> ~trouble)
    /\ pc \in {"scene_end", "assemble"} => (status = "success" <=> ~trouble /\ ~ShouldFail)
    /\ pc = "scene_end" /\ ~stopped => ~ShouldFail
    /\ pc = "eval_end" =>
         (status = "success" <=> ~trouble /\ ungraded = 0 /\ ~ShouldFail /\ ~AllErrored)
    /\ VerdictIsEarned

LEMMA StatusEarnedStep ==
    ASSUME StatusEarned, StopsOnHalt, Counted, Advance \/ Interrupt
    PROVE  StatusEarned'
<1>0. /\ UNCHANGED <<errorCount, failOn>> => (ShouldFail <=> ShouldFail')
      /\ UNCHANGED counters => (AllErrored <=> AllErrored')
      /\ ungraded > 0 <=> ungraded # 0
  BY DEF ShouldFail, AllErrored, Planned, Counted, Numbers
<1> USE DEF StatusEarned, StopsOnHalt, VerdictIsEarned, Ahead, InTrial, Over, Escape,
            ParkThenEscape, Refuse, InRollout, Contain, NextTrial
<1>1. CASE Setup \/ EvalStart
  BY <1>1, <1>0 DEF Setup, EvalStart
<1>2. CASE Ready
  BY <1>2, <1>0 DEF Ready
<1>3. CASE NotReady
  BY <1>3, <1>0 DEF NotReady
<1>4. CASE HomeFails
  BY <1>4, <1>0 DEF HomeFails
<1>5. CASE SinkTrialStart \/ PolicyStart
  BY <1>5, <1>0 DEF SinkTrialStart, PolicyStart
<1>6. CASE TrialReturns \/ TrialCancelled \/ TrialHalts
  BY <1>6, <1>0 DEF TrialReturns, TrialCancelled, TrialHalts
<1>7. CASE TrialPolicyError \/ TrialRaises
  BY <1>7, <1>0 DEF TrialPolicyError, TrialRaises
<1>8. CASE Account
  BY <1>8, <1>0 DEF Account
<1>9. CASE Observe
  BY <1>9, <1>0 DEF Observe
<1>10. CASE Grade
  BY <1>10, <1>0 DEF Grade
<1>11. CASE Score
  BY <1>11, <1>0 DEF Score
<1>12. CASE ScoreHalts
  BY <1>12, <1>0 DEF ScoreHalts
<1>13. CASE PolicyEnd
  BY <1>13, <1>0 DEF PolicyEnd
<1>14. CASE SinkEndRaises \/ SinkEnd \/ LeaveUnparked
  BY <1>14, <1>0 DEF SinkEndRaises, SinkEnd, LeaveUnparked
<1>15. CASE Park
  BY <1>15, <1>0 DEF Park
<1>16. CASE ParkFails
  BY <1>16, <1>0 DEF ParkFails
<1>17. CASE Decide
  BY <1>17, <1>0 DEF Decide
<1>18. CASE SceneEnd
  BY <1>18, <1>0 DEF SceneEnd
<1>19. CASE Assemble
  BY <1>19, <1>0 DEF Assemble
<1>20. CASE SinkEvalEnd
  BY <1>20, <1>0 DEF SinkEvalEnd
<1>21. CASE SinkEvalEndRaises
  BY <1>21, <1>0 DEF SinkEvalEndRaises
<1>22. CASE Close \/ Interrupt
  BY <1>22, <1>0 DEF Close, Interrupt
<1> QED BY <1>1, <1>2, <1>3, <1>4, <1>5, <1>6, <1>7, <1>8, <1>9, <1>10, <1>11, <1>12,
     <1>13, <1>14, <1>15, <1>16, <1>17, <1>18, <1>19, <1>20, <1>21, <1>22, Zenon DEF Advance

----------------------------------------------------------------------------
\* The scene's parallel lists.

TrueAt(list) == {i \in 1..Len(list) : list[i]}

LEMMA TrueAtAppend ==
    ASSUME NEW list \in Seq(BOOLEAN), NEW b \in BOOLEAN
    PROVE  /\ Cardinality(TrueAt(list)) \in Nat
           /\ Cardinality(TrueAt(Append(list, b))) =
                Cardinality(TrueAt(list)) + (IF b THEN 1 ELSE 0)
<1> DEFINE n == Len(list)
<1>1. n \in Nat /\ IsFiniteSet(1..n)
  BY FS_Interval, LenProperties
<1>2. TrueAt(list) \subseteq 1..n
  BY DEF TrueAt
<1>3. IsFiniteSet(TrueAt(list)) /\ Cardinality(TrueAt(list)) \in Nat
  BY <1>1, <1>2, FS_Subset, FS_CardinalityType
<1>4. /\ Len(Append(list, b)) = n + 1 /\ Append(list, b)[n + 1] = b
      /\ \A i \in 1..n : Append(list, b)[i] = list[i]
  <2> HIDE DEF n
  <2>1. \A S : \A s \in Seq(S) : \A e \in S :
          /\ Len(Append(s, e)) = Len(s) + 1 /\ Append(s, e)[Len(s) + 1] = e
          /\ \A i \in 1..Len(s) : Append(s, e)[i] = s[i]
    <3> SUFFICES ASSUME NEW S, NEW s \in Seq(S), NEW e \in S
                 PROVE  /\ Len(Append(s, e)) = Len(s) + 1 /\ Append(s, e)[Len(s) + 1] = e
                        /\ \A i \in 1..Len(s) : Append(s, e)[i] = s[i]
      OBVIOUS
    <3> QED BY AppendProperties
  <2>2. /\ Len(Append(list, b)) = Len(list) + 1 /\ Append(list, b)[Len(list) + 1] = b
        /\ \A i \in 1..Len(list) : Append(list, b)[i] = list[i]
    BY <2>1, ZenonT(30)
  <2> QED BY <2>2, Zenon DEF n
<1>5. CASE b
  <2>1. TrueAt(Append(list, b)) = TrueAt(list) \cup {n + 1}
    BY <1>1, <1>4, <1>5 DEF TrueAt
  <2>2. n + 1 \notin TrueAt(list)
    BY <1>1, <1>2
  <2>3. Cardinality(TrueAt(list) \cup {n + 1}) = Cardinality(TrueAt(list)) + 1
    BY <1>3, <2>2, FS_AddElement
  <2> QED BY <1>3, <1>5, <2>1, <2>3
<1>6. CASE ~b
  <2>1. TrueAt(Append(list, b)) = TrueAt(list)
    BY <1>1, <1>4, <1>6 DEF TrueAt
  <2> QED BY <1>3, <1>6, <2>1
<1> QED BY <1>5, <1>6

\* A trial is scored exactly when it succeeded, and no rubric has more scores
\* than scored trials.
Parallel ==
    /\ \A i \in 1..Len(recordIds) : epochDicts[i] <=> recordIds[i] = "success"
    /\ \A r \in Rubrics : scores[r] <= Cardinality(TrueAt(epochDicts))

\* The lists at each stage of a trial; until policy.on_trial_end returns,
\* epoch_dicts is one trial ahead of the lists filled beside it.
ListsKept ==
    /\ pc \in Ahead \cup {"account", "sink_end", "park", "decide", "scene_end"} =>
         /\ Parallel /\ Len(epochDicts) = Len(recordIds)
         /\ total = TrialsIn(samples) + Len(recordIds)
    /\ pc \in {"observe", "grade", "score"} =>
         /\ Parallel /\ Len(epochDicts) = Len(recordIds)
         /\ total = TrialsIn(samples) + Len(recordIds) + 1
    /\ pc = "policy_end" =>
         /\ Parallel /\ Len(epochDicts) = Len(recordIds) + 1
         /\ epochDicts[Len(epochDicts)] <=> record = "success"
         /\ total = TrialsIn(samples) + Len(recordIds) + 1
    /\ pc \in {"assemble", "eval_end"} => total = TrialsIn(samples)
    /\ log # "none" => total = TrialsIn(samples)

\* epoch_dicts gets the trial in hand: an empty dictionary, or the scores.
LEMMA EpochDictsGrow ==
    ASSUME Counted, Parallel, Len(epochDicts) = Len(recordIds), UNCHANGED recordIds,
           NEW scored \in BOOLEAN, epochDicts' = Append(epochDicts, scored),
           \A r \in Rubrics : scores'[r] \in {scores[r], scores[r] + (IF scored THEN 1 ELSE 0)}
    PROVE  /\ Parallel' /\ Len(epochDicts') = Len(recordIds') + 1
           /\ epochDicts'[Len(epochDicts')] <=> scored
<1>1. epochDicts \in Seq(BOOLEAN) /\ scores \in [Rubrics -> Nat] /\ Len(epochDicts) \in Nat
  BY LenProperties, Zenon DEF Counted, Lists
<1>2. /\ Len(epochDicts') = Len(epochDicts) + 1 /\ epochDicts'[Len(epochDicts) + 1] = scored
      /\ \A i \in 1..Len(epochDicts) : epochDicts'[i] = epochDicts[i]
  BY <1>1, AppendProperties
<1>3. /\ Cardinality(TrueAt(epochDicts)) \in Nat
      /\ Cardinality(TrueAt(epochDicts)') =
           Cardinality(TrueAt(epochDicts)) + (IF scored THEN 1 ELSE 0)
  <2>1. TrueAt(epochDicts)' = TrueAt(Append(epochDicts, scored))
    BY DEF TrueAt
  <2> QED BY <1>1, <2>1, TrueAtAppend
<1>4. \A i \in 1..Len(recordIds') : epochDicts'[i] <=> recordIds'[i] = "success"
  BY <1>2 DEF Parallel
<1>5. ASSUME NEW r \in Rubrics PROVE scores'[r] <= Cardinality(TrueAt(epochDicts)')
  <2>1. scores[r] \in Nat /\ scores[r] <= Cardinality(TrueAt(epochDicts))
    BY <1>1 DEF Parallel
  <2> QED BY <1>3, <2>1
<1>6. Parallel'
  BY <1>4, <1>5 DEF Parallel
<1> QED BY <1>2, <1>6

\* The lists filled beside it catch up.
LEMMA RecordIdsGrow ==
    ASSUME Counted, Parallel, Len(epochDicts) = Len(recordIds) + 1,
           epochDicts[Len(epochDicts)] <=> record = "success",
           record \in {"success", "error", "cancelled"},
           recordIds' = Append(recordIds, record), UNCHANGED <<epochDicts, scores>>
    PROVE  Parallel' /\ Len(epochDicts') = Len(recordIds') /\ Len(recordIds') = Len(recordIds) + 1
<1>1. recordIds \in Seq({"success", "error", "cancelled"}) /\ Len(recordIds) \in Nat
  BY LenProperties, Zenon DEF Counted, Lists
<1>2. /\ Len(recordIds') = Len(recordIds) + 1 /\ recordIds'[Len(recordIds) + 1] = record
      /\ \A i \in 1..Len(recordIds) : recordIds'[i] = recordIds[i]
  BY <1>1, AppendProperties
<1>3. ASSUME NEW i \in 1..Len(recordIds') PROVE epochDicts'[i] <=> recordIds'[i] = "success"
  <2>1. CASE i = Len(recordIds) + 1
    BY <1>2, <2>1
  <2>2. CASE i \in 1..Len(recordIds)
    BY <1>2, <2>2 DEF Parallel
  <2> QED BY <1>1, <1>2, <2>1, <2>2
<1>4. TrueAt(epochDicts)' = TrueAt(epochDicts)
  BY DEF TrueAt
<1> QED BY <1>2, <1>3, <1>4 DEF Parallel

\* A new scene starts with empty lists.
LEMMA ListsEmptied ==
    ASSUME epochDicts' = <<>>, recordIds' = <<>>, scores' = NoScores
    PROVE  Parallel' /\ Len(epochDicts') = 0 /\ Len(recordIds') = 0
<1>1. <<>> \in Seq(BOOLEAN) /\ Len(<<>>) = 0
  OBVIOUS
<1>2. Cardinality(TrueAt(<<>>)) \in Nat
  BY <1>1, TrueAtAppend
<1>3. TrueAt(epochDicts)' = TrueAt(<<>>)
  BY DEF TrueAt
<1> QED BY <1>1, <1>2, <1>3 DEF Parallel, NoScores

\* The finished scene's trials are added to those of the samples.
LEMMA SamplesGrow ==
    ASSUME Counted, SceneEnd
    PROVE  TrialsIn(samples') = TrialsIn(samples) + Len(recordIds)
<1>1. samples \in Seq(Sample) /\ Len(recordIds) \in Nat
  BY LenProperties, Zenon DEF Counted, Lists
<1>2. PICK x \in Sample : samples' = Append(samples, x) /\ x.trials = Len(recordIds)
  BY <1>1 DEF SceneEnd, Sample, Counted, Enumerated
<1> QED BY <1>1, <1>2, TrialsInAppend

LEMMA ListsKeptStep ==
    ASSUME ListsKept, Counted, StatusEarned, Advance \/ Interrupt
    PROVE  ListsKept'
<1>0. /\ UNCHANGED lists => /\ Parallel' <=> Parallel
                            /\ Len(recordIds') = Len(recordIds)
                            /\ Len(epochDicts') = Len(epochDicts)
      /\ TrialsIn(samples) \in Nat /\ Len(recordIds) \in Nat /\ total \in Nat
      /\ UNCHANGED samples => TrialsIn(samples') = TrialsIn(samples)
      /\ pc \notin Over => log = "none"
  <2>1. UNCHANGED lists => (Parallel' <=> Parallel)
    BY DEF Parallel, TrueAt
  <2>2. samples \in Seq(Sample) /\ Len(recordIds) \in Nat
    BY LenProperties, Zenon DEF Counted, Lists
  <2>3. TrialsIn(samples) \in Nat
    BY <2>2, TrialsInNat
  <2> QED BY <2>1, <2>2, <2>3 DEF Counted, Numbers, StatusEarned
<1> USE DEF ListsKept, Ahead, Over, Escape, ParkThenEscape, Refuse, InRollout, NextTrial
<1>1. CASE Setup \/ EvalStart \/ Ready
  BY <1>1, <1>0 DEF Setup, EvalStart, Ready
<1>2. CASE NotReady \/ HomeFails
  BY <1>2, <1>0 DEF NotReady, HomeFails
<1>3. CASE SinkTrialStart \/ PolicyStart
  BY <1>3, <1>0 DEF SinkTrialStart, PolicyStart
<1>4. CASE TrialReturns \/ TrialCancelled \/ TrialHalts
  BY <1>4, <1>0 DEF TrialReturns, TrialCancelled, TrialHalts
<1>5. CASE TrialPolicyError \/ TrialRaises
  BY <1>5, <1>0 DEF TrialPolicyError, TrialRaises
<1>6. CASE Account
  <2>1. CASE record = "success"
    BY <1>0, <1>6, <2>1 DEF Account
  <2>2. CASE record # "success"
    <3>1. /\ epochDicts' = Append(epochDicts, FALSE)
          /\ UNCHANGED <<recordIds, scores, samples, record>>
      BY <1>6, <2>2 DEF Account
    <3>2. \A r \in Rubrics : scores'[r] \in {scores[r], scores[r] + (IF FALSE THEN 1 ELSE 0)}
      BY <3>1
    <3>3. Parallel /\ Len(epochDicts) = Len(recordIds)
      BY <1>6 DEF Account
    <3>4. /\ Parallel' /\ Len(epochDicts') = Len(recordIds') + 1
          /\ epochDicts'[Len(epochDicts')] <=> FALSE
      BY <3>1, <3>2, <3>3, EpochDictsGrow
    <3> QED BY <1>0, <1>6, <2>2, <3>1, <3>4 DEF Account
  <2> QED BY <2>1, <2>2
<1>7. CASE Observe
  BY <1>7, <1>0 DEF Observe
<1>8. CASE Grade
  BY <1>8, <1>0 DEF Grade
<1>9. CASE Score
  <2>1. /\ epochDicts' = Append(epochDicts, TRUE) /\ UNCHANGED <<recordIds, samples, record>>
        /\ Parallel /\ Len(epochDicts) = Len(recordIds) /\ record = "success"
    BY <1>9 DEF Score, Counted, RecordKnown
  <2>2. \A r \in Rubrics : scores'[r] \in {scores[r], scores[r] + (IF TRUE THEN 1 ELSE 0)}
    BY <1>9 DEF Score
  <2>3. /\ Parallel' /\ Len(epochDicts') = Len(recordIds') + 1
        /\ epochDicts'[Len(epochDicts')] <=> TRUE
    BY <2>1, <2>2, EpochDictsGrow
  <2> QED BY <1>0, <1>9, <2>1, <2>3 DEF Score
<1>10. CASE ScoreHalts
  BY <1>10, <1>0 DEF ScoreHalts
<1>11. CASE PolicyEnd
  <2>1. /\ recordIds' = Append(recordIds, record) /\ UNCHANGED <<epochDicts, scores, samples>>
        /\ Parallel /\ Len(epochDicts) = Len(recordIds) + 1
        /\ epochDicts[Len(epochDicts)] <=> record = "success"
        /\ record \in {"success", "error", "cancelled"}
    BY <1>11 DEF PolicyEnd, RecordTrial, Counted, RecordKnown, InTrial, Enumerated
  <2>2. /\ Parallel' /\ Len(epochDicts') = Len(recordIds')
        /\ Len(recordIds') = Len(recordIds) + 1
    BY <2>1, RecordIdsGrow
  <2> QED BY <1>0, <1>11, <2>1, <2>2 DEF PolicyEnd
<1>12. CASE SinkEndRaises \/ SinkEnd \/ LeaveUnparked
  BY <1>12, <1>0 DEF SinkEndRaises, SinkEnd, LeaveUnparked
<1>13. CASE Park \/ ParkFails
  BY <1>13, <1>0 DEF Park, ParkFails
<1>14. CASE Decide
  BY <1>14, <1>0 DEF Decide
<1>15. CASE SceneEnd
  <2>1. TrialsIn(samples') = TrialsIn(samples) + Len(recordIds)
    BY <1>15, SamplesGrow
  <2>2. CASE pc' = "assemble"
    BY <1>0, <1>15, <2>1, <2>2 DEF SceneEnd
  <2>3. CASE epochDicts' = <<>> /\ recordIds' = <<>> /\ scores' = NoScores /\ pc' = "before"
    <3>1. Parallel' /\ Len(epochDicts') = 0 /\ Len(recordIds') = 0
      BY <2>3, ListsEmptied
    <3> QED BY <1>0, <1>15, <2>1, <2>3, <3>1 DEF SceneEnd
  <2> QED BY <1>15, <2>2, <2>3 DEF SceneEnd
<1>16. CASE Assemble
  BY <1>16, <1>0 DEF Assemble
<1>17. CASE SinkEvalEnd \/ SinkEvalEndRaises
  BY <1>17, <1>0 DEF SinkEvalEnd, SinkEvalEndRaises
<1>18. CASE Close \/ Interrupt
  BY <1>18, <1>0 DEF Close, Interrupt
<1> QED BY <1>1, <1>2, <1>3, <1>4, <1>5, <1>6, <1>7, <1>8, <1>9, <1>10, <1>11, <1>12,
     <1>13, <1>14, <1>15, <1>16, <1>17, <1>18, Zenon DEF Advance

----------------------------------------------------------------------------
\* The invariant as a whole, and what follows from it.

Inv == Counted /\ StopsOnHalt /\ ParkedBetween /\ HookHaltKept /\ StatusEarned /\ ListsKept

LEMMA InvInit == Init => Inv
<1> SUFFICES ASSUME Init PROVE Inv
  OBVIOUS
<1>1. Counted
  BY CountedInit
<1>2. StopsOnHalt /\ ParkedBetween /\ HookHaltKept /\ StatusEarned
  BY DEF Init, StopsOnHalt, ParkedBetween, Between, HookHaltKept, HookHalted, StatusEarned,
         VerdictIsEarned, Ahead, InTrial, Over
<1>3. ListsKept
  <2>1. Cardinality(TrueAt(epochDicts)) \in Nat
    BY <1>1, TrueAtAppend DEF Counted, Lists
  <2>2. Parallel /\ Len(epochDicts) = Len(recordIds) /\ Len(recordIds) = 0
    BY <2>1 DEF Init, Parallel, NoScores
  <2>3. TrialsIn(samples) = 0
    BY TrialsInEmpty DEF Init
  <2> QED BY <2>2, <2>3 DEF Init, ListsKept, Ahead
<1> QED BY <1>1, <1>2, <1>3 DEF Inv

LEMMA InvStays == Inv /\ UNCHANGED vars => Inv'
<1> SUFFICES ASSUME Inv, UNCHANGED vars PROVE Inv'
  OBVIOUS
<1>1. Counted'
  BY CountedStays DEF Inv
<1>2. /\ ShouldFail' <=> ShouldFail
      /\ AllErrored' <=> AllErrored
      /\ Parallel' <=> Parallel
      /\ TrialsIn(samples') = TrialsIn(samples)
  BY DEF vars, ShouldFail, AllErrored, Planned, Parallel, TrueAt
<1>3. StopsOnHalt' /\ ParkedBetween' /\ HookHaltKept'
  BY DEF Inv, StopsOnHalt, ParkedBetween, HookHaltKept, HookHalted, vars
<1>4. StatusEarned'
  BY <1>2 DEF Inv, StatusEarned, VerdictIsEarned, vars
<1>5. ListsKept'
  BY <1>2 DEF Inv, ListsKept, vars
<1> QED BY <1>1, <1>3, <1>4, <1>5 DEF Inv

LEMMA InvStep == Inv /\ [Next]_vars => Inv'
<1> SUFFICES ASSUME Inv, [Next]_vars PROVE Inv'
  OBVIOUS
<1>1. CASE Advance \/ Interrupt
  <2>1. Counted'
    BY CountedStep DEF Inv
  <2> QED BY <1>1, <2>1, StopsOnHaltStep, ParkedBetweenStep, HookHaltKeptStep, StatusEarnedStep,
             ListsKeptStep DEF Inv
<1>2. CASE UNCHANGED vars
  BY <1>2, InvStays
<1> QED BY <1>1, <1>2 DEF Next, Done

LEMMA InvAlways == Spec => []Inv
  BY InvInit, InvStep, PTL DEF Spec

\* Whatever fails, in whatever order, eval() leaves the platform parked unless
\* the operator pressed Ctrl-C.
THEOREM ParkedWhenLeft == Spec => []LeftParked
<1>1. Inv => LeftParked
  BY DEF Inv, ParkedBetween, LeftParked, Over
<1> QED BY <1>1, InvAlways, PTL

\* After a halt or a cancelled trial no rollout is started.
THEOREM HaltEndsTheRun == Spec => NoTrialAfterHalt
<1>1. Inv /\ [Next]_vars => [halts # {} \/ cancelled => rollouts' = rollouts]_vars
  <2> SUFFICES ASSUME Inv, Next, halts # {} \/ cancelled PROVE rollouts' = rollouts
    OBVIOUS
  <2>1. pc # "rollout"
    BY DEF Inv, StopsOnHalt, Ahead, Over
  <2>2. CASE Advance
    BY <2>1, <2>2
       DEF Advance, InRollout, Refuse, Setup, EvalStart, Ready, NotReady, HomeFails,
           SinkTrialStart, PolicyStart, TrialReturns, TrialCancelled, TrialHalts,
           TrialPolicyError, TrialRaises, Account, Observe, Grade, Score, ScoreHalts, PolicyEnd,
           SinkEndRaises, SinkEnd, LeaveUnparked, Park, ParkFails, Decide, SceneEnd, Assemble,
           SinkEvalEnd, SinkEvalEndRaises, Close
  <2> QED BY <2>2 DEF Next, Interrupt, Done, vars
<1> QED BY <1>1, InvAlways, PTL DEF Spec, NoTrialAfterHalt

\* The halt of a platform hook reaches the caller of eval(), whatever fails after it.
THEOREM HookHaltsEscape == Spec => []HookHaltEscapes
<1>1. Inv => HookHaltEscapes
  BY DEF Inv, HookHaltKept, HookHalted, HookHaltEscapes, Over
<1> QED BY <1>1, InvAlways, PTL

\* The log says "success" and "cancelled" exactly when the run earned it.
THEOREM VerdictEarned == Spec => []VerdictIsEarned
<1>1. Inv => VerdictIsEarned
  BY DEF Inv, StatusEarned
<1> QED BY <1>1, InvAlways, PTL

\* The scene's lists name the same trials, and no counted trial is lost.
THEOREM ListsParallel == Spec => []ListsAreParallel
<1>1. Inv => ListsAreParallel
  BY DEF Inv, ListsKept, Parallel, TrueAt, ListsAreParallel, Ahead
<1> QED BY <1>1, InvAlways, PTL
=============================================================================
