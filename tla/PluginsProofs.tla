--------------------------- MODULE PluginsProofs ---------------------------
(***************************************************************************)
(* What TLAPS proves of the parts that share one process with a policy     *)
(* plugin.  The agent: of AgentAct, for every policy, set of cameras, set  *)
(* of answers and bound on calls and trials; of AgentSetup, for every set  *)
(* of options, whatever prefixes, wires, endpoints, variables and keys     *)
(* they combine; of ControlTools, for every box, limit and cap; of         *)
(* AgentWire, for any number of retries, replies, calls and polls.  The    *)
(* command line: of CliRun, for any number of commands, any devices and    *)
(* any arguments.  The arm of the ROS plugin and the policies of           *)
(* xpolicylab and capx, for every configuration their constructors accept. *)
(* And of MCPlugins, which puts them side by side: that every part keeps   *)
(* its types and what was proved of it alone, judgements included, that    *)
(* answers and motions are as each of them declares, and that a model      *)
(* answers from the whole conversation.                                    *)
(***************************************************************************)
EXTENDS MCPlugins, JudgingProofs

----------------------------------------------------------------------------
\* The inductive invariant, in named parts.

Counting == calls \in Nat /\ looks \in Nat /\ (apc = "ask" => looks >= 1)

\* Before the first observation nothing is owed, queued or shown; later the motion or
\* the sleep of the last turn is owed to the observation that follows it.
Owing ==
    apc = "idle" =>
        IF looks = 0
        THEN owed = Nothing /\ requested = NoCapture /\ frames = <<>>
        ELSE owed.kind # "none" /\ owed.trial = atrial

ActInv == Counting /\ Owing /\ NarratesOwnTrial

----------------------------------------------------------------------------
\* A turn either issues a chunk, which is then owed by this trial, or goes on with the
\* same observation; whatever the model answered, the count of calls has grown.
LEMMA TurnStep ==
    ASSUME ActInv, NEW reply \in Turns, Turn(reply)
    PROVE  ActInv'
<1> DEFINE turn == Outcome(reply)
<1>1. Counting'
  BY DEF ActInv, Counting, Turn
<1>2. CASE turn.chunk \in {"move", "sleep"} /\ apc' = "idle"
  <2>1. owed' = [kind |-> turn.chunk, trial |-> atrial] \/ apc' # "idle"
    BY <1>2 DEF Turn
  <2>2. looks' # 0 /\ atrial' = atrial
    BY DEF ActInv, Counting, Turn
  <2>3. Owing'
    BY <1>2, <2>1, <2>2 DEF Owing
  <2> QED
    BY <1>1, <1>2, <2>3 DEF ActInv, NarratesOwnTrial
<1>3. CASE apc' # "idle"
  <2>1. Owing'
    BY <1>3 DEF Owing
  <2>2. apc' = "ask" => calls' # 0
    BY DEF ActInv, Counting, Turn
  <2>3. apc' = "ask" => looks' = looks /\ told' = told /\ atrial' = atrial /\ acfg' = acfg
    BY DEF Turn
  <2>4. NarratesOwnTrial'
    BY <2>2, <2>3 DEF ActInv, NarratesOwnTrial, Turn
  <2> QED
    BY <1>1, <2>1, <2>4 DEF ActInv
<1>4. turn.chunk \notin {"move", "sleep"} => apc' # "idle"
  BY DEF Turn
<1> QED
  BY <1>2, <1>3, <1>4

\* An observation takes over what was owed; the first of a trial finds nothing queued, so
\* that an on-demand policy begins with no frame.
LEMMA ObserveStep ==
    ASSUME ActInv, NEW cams \in SUBSET Cameras, Observe(cams)
    PROVE  ActInv'
<1>1. Counting' /\ Owing'
  BY DEF ActInv, Counting, Owing, Observe
<1>2. CASE looks = 0
  <2>1. told' = Nothing /\ looks' = 1 /\ apc = "idle"
    BY <1>2 DEF ActInv, Owing, Observe
  <2>2. acfg'.onDemand => frames' = <<>>
    BY <1>2 DEF ActInv, Owing, Observe, Revealing, WithImages
  <2> QED
    BY <1>1, <2>1, <2>2 DEF ActInv, NarratesOwnTrial
<1>3. CASE looks # 0
  <2>1. looks' # 1 /\ told' = owed /\ atrial' = atrial /\ apc = "idle"
    BY <1>3 DEF ActInv, Counting, Observe
  <2> QED
    BY <1>1, <1>3, <2>1 DEF ActInv, Owing, NarratesOwnTrial
<1> QED
  BY <1>2, <1>3

LEMMA ActInvStep ==
    ASSUME ActInv, [ActNext]_actVars
    PROVE  ActInv'
<1> USE DEF ActInv, Counting, Owing, NarratesOwnTrial
<1>1. CASE BindPolicy
  BY <1>1 DEF BindPolicy
<1>2. CASE AddTools
  BY <1>2 DEF AddTools
<1>3. CASE ResetPolicy
  BY <1>3 DEF ResetPolicy
<1>4. CASE EndDialogue
  BY <1>4 DEF EndDialogue
<1>5. CASE GiveUp
  BY <1>5 DEF GiveUp
<1>6. CASE RequestFails
  BY <1>6 DEF RequestFails
<1>7. CASE \E cams \in SUBSET Cameras : Observe(cams)
  BY <1>7, ObserveStep DEF ActInv
<1>8. CASE \E reply \in Turns : Turn(reply)
  BY <1>8, TurnStep DEF ActInv
<1>9. CASE UNCHANGED actVars
  BY <1>9 DEF actVars
<1> QED
  BY <1>1, <1>2, <1>3, <1>4, <1>5, <1>6, <1>7, <1>8, <1>9 DEF ActNext

----------------------------------------------------------------------------
\* The observation of a turn narrates the motion or the sleep of the turn before it in
\* the same trial, and the first one of a trial narrates nothing and shows no frame that
\* was queued earlier (LLMAgentPolicy.reset, act).
THEOREM NarrationStaysInTrial == ActSpec => []NarratesOwnTrial
<1>1. ActInit => ActInv
  BY DEF ActInit, ActInv, Counting, Owing, NarratesOwnTrial
<1>2. ActInv /\ [ActNext]_actVars => ActInv'
  BY ActInvStep
<1>3. ActInv => NarratesOwnTrial
  BY DEF ActInv
<1> QED
  BY <1>1, <1>2, <1>3, PTL DEF ActSpec

----------------------------------------------------------------------------
\* What the model has been shown.  A turn so far lies in TurnsSoFar(reply): until a call closes
\* it, nothing was revealed, sent or refused; afterwards what was refused had been seen, and
\* what was revealed had been or is about to be sent.

Chunks(reply) == {"none"} \cup {reply[k].tool : k \in DOMAIN reply}
Captures(reply) == {NoCapture} \cup {reply[k].cams : k \in DOMAIN reply}
TurnsSoFar(reply) ==
    [closed : BOOLEAN, chunk : Chunks(reply), failures : Nat, rejections : Nat,
     queued : Captures(reply), revealed : SUBSET Cameras, shown : SUBSET Cameras, already : SUBSET Cameras]

SeenSoFar(turn) ==
    /\ ~turn.closed => turn.revealed = revealed /\ turn.shown = {} /\ turn.already = {}
    /\ turn.already # {} => acfg.onDemand /\ turn.already \subseteq Seen(revealed)
    /\ turn.revealed \subseteq revealed \cup turn.shown

SoundTurns(reply) == {turn \in TurnsSoFar(reply) : SeenSoFar(turn)}

ACounts ==
    /\ acfg \in ActConfigs /\ apc \in {"unbound", "bound", "between", "idle", "ask", "ended", "raised"}
    /\ looks \in Nat /\ calls \in 0..MaxLLMCalls /\ failures \in Nat /\ rejections \in Nat
    /\ apc = "ask" => failures < MaxConsecutiveFailures
    /\ apc \in {"unbound", "bound"} => already = {}

ACameras == present \subseteq Cameras /\ revealed \subseteq Cameras /\ already \subseteq Cameras

\* The image-bearing messages are in the order of the observations,
ShownMessages == [look : Nat, cams : SUBSET Cameras]
InOrder(f, l) ==
    /\ f \in Seq(ShownMessages)
    /\ \A k \in DOMAIN f : f[k].look <= l
    /\ \A j, k \in DOMAIN f : j <= k => f[j].look <= f[k].look
AFrames == InOrder(frames, looks)

\* and what an on-demand policy holds revealed was sent with the observation it answers.
ARevealed ==
    apc = "ask" /\ acfg.onDemand =>
      \A c \in revealed : \E k \in DOMAIN frames : frames[k].look = looks /\ c \in frames[k].cams

LooksInv == ACounts /\ ACameras /\ AFrames /\ ARevealed

----------------------------------------------------------------------------
LEMMA SeenIs == \A shown : Seen(shown) \subseteq shown
BY DEF Seen

LEMMA OpeningIs ==
    ASSUME ACounts, ACameras, NEW reply
    PROVE  Opening \in SoundTurns(reply)
BY DEF ACounts, ACameras, Opening, SoundTurns, TurnsSoFar, SeenSoFar, Chunks, Captures

\* What closes a turn changes nothing of what was shown.
LEMMA RejectedIs ==
    ASSUME NEW reply, NEW turn \in TurnsSoFar(reply), NEW new, new = Rejected(turn)
    PROVE  /\ new \in TurnsSoFar(reply) /\ new.closed = TRUE /\ new.already = turn.already
           /\ new.revealed = turn.revealed /\ new.shown = turn.shown
<1>1. PICK f, r : /\ f \in Nat /\ r \in Nat
                  /\ new = [turn EXCEPT !.closed = TRUE, !.rejections = r, !.failures = f]
  <2> DEFINE g == IF turn.rejections >= 1 THEN turn.failures + 1 ELSE turn.failures
             q == turn.rejections + 1
  <2>1. g \in Nat /\ q \in Nat
    BY DEF TurnsSoFar
  <2>2. new = [turn EXCEPT !.closed = TRUE, !.rejections = q, !.failures = g]
    BY DEF Rejected
  <2> HIDE DEF g, q
  <2> QED BY <2>1, <2>2
<1> QED BY <1>1 DEF TurnsSoFar

LEMMA FailedIs ==
    ASSUME NEW reply, NEW turn \in TurnsSoFar(reply), NEW new, new = Failed(turn)
    PROVE  /\ new \in TurnsSoFar(reply) /\ new.closed = TRUE /\ new.already = turn.already
           /\ new.revealed = turn.revealed /\ new.shown = turn.shown
<1>1. PICK f : f \in Nat /\ new = [turn EXCEPT !.closed = TRUE, !.failures = f]
  <2> DEFINE g == turn.failures + 1
  <2>1. g \in Nat
    BY DEF TurnsSoFar
  <2>2. new = [turn EXCEPT !.closed = TRUE, !.failures = g]
    BY DEF Failed
  <2> HIDE DEF g
  <2> QED BY <2>1, <2>2
<1> QED BY <1>1 DEF TurnsSoFar

\* A call keeps the turn sound.
LEMMA ActKeeps ==
    ASSUME ACounts, ACameras, NEW reply, NEW turn \in SoundTurns(reply), NEW k \in DOMAIN reply
    PROVE  Act(turn, reply[k]) \in SoundTurns(reply)
<1> DEFINE A == TurnsSoFar(reply)
           call == reply[k]
<1>1. /\ turn \in A /\ SeenSoFar(turn) /\ present \subseteq Cameras /\ revealed \subseteq Cameras
      /\ turn.closed \in BOOLEAN /\ turn.failures \in Nat /\ turn.rejections \in Nat
      /\ turn.revealed \subseteq Cameras
  BY DEF SoundTurns, TurnsSoFar, ACameras
<1>2. \A t \in A : SeenSoFar(t) => t \in SoundTurns(reply)
  BY DEF SoundTurns
<1>0. ASSUME NEW t, t.closed = TRUE, t.already = turn.already, t.revealed = turn.revealed,
             t.shown = turn.shown
      PROVE  SeenSoFar(t)
  <2>1. turn.already # {} => acfg.onDemand /\ turn.already \subseteq Seen(revealed)
    BY <1>1 DEF SeenSoFar
  <2>2. turn.revealed \subseteq revealed \cup turn.shown
    BY <1>1 DEF SeenSoFar
  <2> QED BY <1>0, <2>1, <2>2 DEF SeenSoFar
<1>3. Failed(turn) \in A /\ SeenSoFar(Failed(turn))
  <2>1. /\ Failed(turn) \in A /\ Failed(turn).closed = TRUE /\ Failed(turn).already = turn.already
        /\ Failed(turn).revealed = turn.revealed /\ Failed(turn).shown = turn.shown
    BY <1>1, FailedIs
  <2> QED BY <1>0, <2>1
<1>4. Rejected(turn) \in A /\ SeenSoFar(Rejected(turn))
  <2>1. /\ Rejected(turn) \in A /\ Rejected(turn).closed = TRUE /\ Rejected(turn).already = turn.already
        /\ Rejected(turn).revealed = turn.revealed /\ Rejected(turn).shown = turn.shown
    BY <1>1, RejectedIs
  <2> QED BY <1>0, <2>1
<1>5. ASSUME ~turn.closed, acfg.onDemand, call.tool = "pic"
      PROVE  Capture(turn, call.cams) \in SoundTurns(reply)
  <2> DEFINE asked == IF call.cams = {} THEN present ELSE call.cams
             inSight == Seen(turn.revealed)
             fresh == asked \ inSight
             looked == [turn EXCEPT !.revealed = inSight \cup fresh, !.already = asked \cap inSight]
             sending == [looked EXCEPT !.closed = TRUE, !.shown = fresh, !.failures = 0]
  <2>1. ASSUME ~CaptureFails(call.cams), present # {} PROVE asked \subseteq Cameras
    BY <1>1, <2>1 DEF CaptureFails
  <2>2. turn.revealed = revealed /\ inSight = Seen(revealed) /\ inSight \subseteq revealed
        /\ turn.shown = {}
    BY <1>1, <1>5, SeenIs DEF SeenSoFar
  <2>3. ASSUME asked \subseteq Cameras, fresh = {}
        PROVE  Rejected(looked) \in A /\ SeenSoFar(Rejected(looked))
    <3>1. inSight \cup fresh \subseteq Cameras /\ asked \cap inSight \subseteq Cameras
      BY <1>1, <2>2, <2>3
    <3> HIDE DEF inSight, fresh, asked
    <3>2. looked \in A /\ looked.revealed = inSight \cup fresh /\ looked.already = asked \cap inSight
          /\ looked.rejections = turn.rejections /\ looked.shown = {}
      BY <1>1, <2>2, <3>1 DEF TurnsSoFar
    <3> HIDE DEF looked
    <3>3. /\ Rejected(looked) \in A /\ Rejected(looked).closed = TRUE
          /\ Rejected(looked).revealed = inSight \cup fresh
          /\ Rejected(looked).already = asked \cap inSight /\ Rejected(looked).shown = {}
      BY <3>2, RejectedIs, ZenonT(40)
    <3>4. inSight \cup fresh \subseteq revealed /\ asked \cap inSight \subseteq Seen(revealed)
      BY <2>2, <2>3
    <3> QED BY <1>5, <3>3, <3>4 DEF SeenSoFar
  <2>4. ASSUME asked \subseteq Cameras PROVE sending \in A /\ SeenSoFar(sending)
    <3>1. inSight \cup fresh \subseteq Cameras /\ asked \cap inSight \subseteq Cameras /\ fresh \subseteq Cameras
      BY <1>1, <2>2, <2>4
    <3> HIDE DEF inSight, fresh, asked
    <3>2. looked \in A /\ looked.revealed = inSight \cup fresh /\ looked.already = asked \cap inSight
      BY <1>1, <3>1 DEF TurnsSoFar
    <3> HIDE DEF looked
    <3>3. /\ sending \in A /\ sending.closed = TRUE /\ sending.revealed = inSight \cup fresh
          /\ sending.already = asked \cap inSight /\ sending.shown = fresh
      BY <3>1, <3>2 DEF TurnsSoFar
    <3> HIDE DEF sending
    <3> QED BY <1>5, <2>2, <3>3 DEF SeenSoFar
  <2> QED BY <1>2, <1>3, <1>4, <2>1, <2>3, <2>4 DEF Capture
<1>6. ASSUME ~turn.closed PROVE [turn EXCEPT !.closed = TRUE, !.chunk = call.tool] \in SoundTurns(reply)
  BY <1>1, <1>2, <1>6 DEF TurnsSoFar, SeenSoFar, Chunks
<1>7. ASSUME turn.closed PROVE QueueCapture(turn, call.cams) \in SoundTurns(reply)
  <2>1. [turn EXCEPT !.queued = call.cams] \in SoundTurns(reply)
    BY <1>1, <1>2, <1>7 DEF TurnsSoFar, SeenSoFar, Captures
  <2> QED BY <2>1 DEF QueueCapture
<1> QED BY <1>2, <1>3, <1>5, <1>6, <1>7 DEF Act

\* A model turn is a fold of Act over its calls, and stays sound.
LEMMA PerformedIs ==
    ASSUME ACounts, ACameras, NEW reply \in Turns
    PROVE  Performed(reply) \in SoundTurns(reply)
<1> DEFINE n == Len(reply)
           A == SoundTurns(reply)
           base == Opening
           act_ == [i \in 1..n |-> [turn \in A |-> Act(turn, reply[i])]]
           PerformedBy(f) == f = [i \in 0..n |-> IF i = 0 THEN Opening ELSE Act(f[i - 1], reply[i])]
           h == CHOOSE f : PerformedBy(f)
<1>1. n \in Nat /\ base \in A /\ DOMAIN reply = 1..n
  BY ActAssumption, OpeningIs
<1>2. \A i \in 1..n : \A turn \in A : Act(turn, reply[i]) \in A
  BY <1>1, ActKeeps
<1>3. act_ \in [1..n -> [A -> A]]
  <2> HIDE DEF A, n
  <2> QED BY <1>2
<1>4. \E f : PerformedBy(f)
  <2>1. PICK f : Folds(f, act_, base, n)
    <3> HIDE DEF act_, base, n
    <3> QED BY <1>1, FoldExists
  <2>2. /\ f \in [0..n -> A] /\ f[0] = base
        /\ \A i \in 1..n : f[i] = act_[i][f[i - 1]]
    <3> HIDE DEF act_, base, n, A
    <3> QED BY <1>1, <1>3, <2>1, FoldTyped
  <2>3. ASSUME NEW i \in 0..n PROVE f[i] = IF i = 0 THEN Opening ELSE Act(f[i - 1], reply[i])
    <3>1. CASE i = 0
      BY <2>2, <3>1
    <3>2. CASE i # 0
      <4>1. i \in 1..n /\ i - 1 \in 0..n
        BY <1>1, <3>2
      <4>2. f[i] = act_[i][f[i - 1]] /\ f[i - 1] \in A
        <5> HIDE DEF act_, A
        <5> QED BY <2>2, <4>1
      <4> HIDE DEF A, n
      <4> QED BY <3>2, <4>1, <4>2
    <3> QED BY <3>1, <3>2
  <2>4. f = [i \in 0..n |-> f[i]]
    <3> HIDE DEF act_, base, n, A
    <3> QED BY <2>2
  <2>5. PerformedBy(f)
    <3> HIDE DEF n
    <3> QED BY <2>3, <2>4
  <2> HIDE DEF PerformedBy
  <2> QED BY <2>5
<1>5. PerformedBy(h)
  <2> HIDE DEF PerformedBy
  <2> QED BY <1>4
<1>6. Performed(reply) = h[n]
  BY DEF Performed
<1>7. h[0] = Opening /\ \A i \in 1..n : h[i] = Act(h[i - 1], reply[i])
  <2> HIDE DEF h
  <2> QED BY <1>1, <1>5
<1> DEFINE P == {i \in 0..n : h[i] \in A}
<1> HIDE DEF h, A, n
<1>8. 0 \in P
  BY <1>1, <1>7
<1>9. ASSUME NEW i \in 1..n, i - 1 \in P PROVE i \in P
  <2>1. h[i - 1] \in A /\ i \in 0..n
    BY <1>1, <1>9
  <2> QED BY <1>2, <1>7, <2>1
<1>10. 0..n \subseteq P
  <2> HIDE DEF P
  <2> QED BY <1>1, <1>8, <1>9, UpToInduction
<1> QED BY <1>1, <1>6, <1>10 DEF A

LEMMA OutcomeIs ==
    ASSUME ACounts, ACameras, NEW reply \in Turns
    PROVE  Outcome(reply) \in SoundTurns(reply)
<1> DEFINE new == [Opening EXCEPT !.failures = @ + 1]
<1>0. PICK f \in Nat : new = [Opening EXCEPT !.failures = f]
  <2>1. failures + 1 \in Nat /\ Opening.failures = failures
    BY DEF ACounts, Opening
  <2> QED BY <2>1
<1>1. new \in SoundTurns(reply)
  BY <1>0 DEF ACounts, ACameras, Opening, SoundTurns, TurnsSoFar, SeenSoFar, Chunks, Captures
<1> QED BY <1>1, PerformedIs DEF Outcome

----------------------------------------------------------------------------
\* What was sent is appended to the messages, under the number of the observation.
WithSent(f, l, cams) == IF cams = {} THEN f ELSE Append(f, [look |-> l, cams |-> cams])

LEMMA ImagesAre ==
    ASSUME NEW f, NEW l \in Nat, InOrder(f, l), NEW cams \in SUBSET Cameras,
           NEW g, g = WithSent(f, l, cams)
    PROVE  /\ InOrder(g, l)
           /\ \A k \in DOMAIN f : k \in DOMAIN g /\ g[k] = f[k]
           /\ \A c \in cams : \E k \in DOMAIN g : g[k].look = l /\ c \in g[k].cams
<1> USE DEF InOrder, WithSent
<1>1. CASE cams = {}
  BY <1>1
<1>2. CASE cams # {}
  <2> DEFINE m == [look |-> l, cams |-> cams]
             n == Len(f)
  <2>1. m \in ShownMessages /\ m.look = l /\ m.cams = cams
    BY DEF ShownMessages
  <2>2. g = Append(f, m)
    BY <1>2
  <2> HIDE DEF m
  <2>3. /\ g \in Seq(ShownMessages) /\ Len(g) = n + 1 /\ n \in Nat
        /\ \A k \in 1..n : g[k] = f[k]
        /\ g[n + 1] = m
    BY <2>1, <2>2, AppendProperties, LenProperties
  <2>4. DOMAIN f = 1..n /\ DOMAIN g = 1..n + 1
    BY <2>3, LenProperties
  <2>5. \A k \in DOMAIN f : f[k].look \in Nat
    <3>1. \A k \in DOMAIN f : f[k] \in ShownMessages
      BY <2>4, ElementOfSeq
    <3> QED BY <3>1 DEF ShownMessages
  <2> HIDE DEF n
  <2>6. \A k \in DOMAIN g : k = n + 1 \/ k \in DOMAIN f
    BY <2>3, <2>4
  <2>7. \A k \in DOMAIN g : g[k].look <= l /\ g[k].look \in Nat
    BY <2>1, <2>3, <2>4, <2>5, <2>6
  <2>8. ASSUME NEW j \in DOMAIN g, NEW k \in DOMAIN g, j <= k PROVE g[j].look <= g[k].look
    <3>1. CASE k = n + 1
      BY <2>1, <2>3, <2>7, <3>1
    <3>2. CASE k # n + 1
      <4>1. k \in DOMAIN f /\ j \in DOMAIN f
        BY <2>3, <2>4, <2>6, <2>8, <3>2
      <4> QED BY <2>3, <2>4, <2>8, <4>1
    <3> QED BY <3>1, <3>2
  <2>9. \A k \in DOMAIN f : k \in DOMAIN g /\ g[k] = f[k]
    BY <2>3, <2>4
  <2>10. n + 1 \in DOMAIN g /\ g[n + 1].look = l /\ g[n + 1].cams = cams
    BY <2>1, <2>3, <2>4
  <2> QED BY <2>3, <2>7, <2>8, <2>9, <2>10
<1> QED BY <1>1, <1>2

\* An observation opens a loop with what it reveals.
LEMMA LooksObserve ==
    ASSUME LooksInv, NEW cams \in SUBSET Cameras, Observe(cams)
    PROVE  LooksInv'
<1>1. ACounts /\ ACameras /\ AFrames
  BY DEF LooksInv
<1>2. Revealing \subseteq cams /\ Revealing \in SUBSET Cameras
  BY DEF Revealing, Observe
<1>3. /\ looks' = looks + 1 /\ looks' \in Nat /\ apc' = "ask" /\ present' = cams /\ already' = {}
      /\ failures' = 0 /\ rejections' = 0 /\ acfg' = acfg /\ calls' = calls
      /\ revealed' = IF acfg.onDemand THEN Revealing ELSE {}
      /\ frames' = IF Revealing = {} THEN frames
                   ELSE Append(frames, [look |-> looks', cams |-> Revealing])
  BY <1>1 DEF ACounts, Observe, WithImages
<1>4. ACounts'
  BY <1>1, <1>3 DEF ACounts, MaxConsecutiveFailures
<1>5. ACameras'
  BY <1>2, <1>3 DEF ACameras
<1>6. InOrder(frames, looks')
  <2>1. \A k \in DOMAIN frames : frames[k] \in ShownMessages
    BY <1>1, LenProperties, ElementOfSeq DEF AFrames, InOrder
  <2>2. \A k \in DOMAIN frames : frames[k].look \in Nat /\ frames[k].look <= looks
    BY <1>1, <2>1 DEF AFrames, InOrder, ShownMessages
  <2> QED BY <1>1, <1>3, <2>2 DEF ACounts, AFrames, InOrder
<1>7. PICK l : l = looks'
  OBVIOUS
<1>8. PICK shown : shown = Revealing
  OBVIOUS
<1>9. PICK g : g = frames'
  OBVIOUS
<1>10. PICK f : f = frames
  OBVIOUS
<1>13. l \in Nat /\ shown \in SUBSET Cameras /\ InOrder(f, l) /\ g = WithSent(f, l, shown)
  BY <1>2, <1>3, <1>6, <1>7, <1>8, <1>9, <1>10 DEF WithSent
<1>14. InOrder(g, l) /\ \A c \in shown : \E k \in DOMAIN g : g[k].look = l /\ c \in g[k].cams
  BY <1>13, ImagesAre
<1>11. AFrames'
  BY <1>7, <1>9, <1>14 DEF AFrames
<1>12. ARevealed'
  BY <1>3, <1>7, <1>8, <1>9, <1>14 DEF ARevealed
<1> QED BY <1>4, <1>5, <1>11, <1>12 DEF LooksInv

\* A turn sends what it newly reveals.
LEMMA LooksTurn ==
    ASSUME LooksInv, NEW reply \in Turns, Turn(reply)
    PROVE  LooksInv'
<1>1. ACounts /\ ACameras /\ AFrames /\ ARevealed
  BY DEF LooksInv
<1>2. PICK turn : turn = Outcome(reply)
  OBVIOUS
<1>3. turn \in TurnsSoFar(reply) /\ SeenSoFar(turn)
  BY <1>1, <1>2, OutcomeIs DEF SoundTurns
<1>4. /\ turn.failures \in Nat /\ turn.rejections \in Nat /\ turn.revealed \in SUBSET Cameras
      /\ turn.shown \in SUBSET Cameras /\ turn.already \in SUBSET Cameras
  BY <1>3 DEF TurnsSoFar
<1>5. /\ apc = "ask" /\ calls < MaxLLMCalls /\ calls' = calls + 1 /\ looks' = looks
      /\ failures' = turn.failures /\ rejections' = turn.rejections
      /\ revealed' = turn.revealed /\ already' = turn.already
      /\ acfg' = acfg /\ present' = present
  BY <1>2 DEF Turn
<1>6. frames' = IF turn.shown = {} THEN frames
                ELSE Append(frames, [look |-> looks, cams |-> turn.shown])
  BY <1>2, <1>5 DEF Turn, WithImages
<1>7. /\ apc' \in {"idle", "ended", "raised", "ask"}
      /\ apc' = "ask" => ~(turn.failures >= MaxConsecutiveFailures)
  BY <1>2 DEF Turn
<1>8. calls' \in 0..MaxLLMCalls
  BY <1>1, <1>5, ActAssumption DEF ACounts
<1>9. ACounts'
  BY <1>1, <1>4, <1>5, <1>7, <1>8 DEF ACounts, MaxConsecutiveFailures
<1>10. ACameras'
  BY <1>1, <1>4, <1>5 DEF ACameras
<1>11. PICK l : l = looks
  OBVIOUS
<1>12. PICK g : g = frames'
  OBVIOUS
<1>13. PICK f : f = frames
  OBVIOUS
<1>18. PICK shown : shown = turn.shown
  OBVIOUS
<1>14. InOrder(f, l) /\ l \in Nat /\ shown \in SUBSET Cameras /\ g = WithSent(f, l, shown)
  BY <1>1, <1>4, <1>6, <1>11, <1>12, <1>13, <1>18 DEF AFrames, ACounts, WithSent
<1>15. /\ InOrder(g, l)
       /\ \A k \in DOMAIN f : k \in DOMAIN g /\ g[k] = f[k]
       /\ \A c \in shown : \E k \in DOMAIN g : g[k].look = l /\ c \in g[k].cams
  BY <1>14, ImagesAre
<1>16. AFrames'
  BY <1>5, <1>11, <1>12, <1>15 DEF AFrames
<1>17. ARevealed'
  <2> SUFFICES ASSUME apc' = "ask", acfg'.onDemand, NEW c \in revealed'
               PROVE  \E k \in DOMAIN g : g[k].look = l /\ c \in g[k].cams
    BY <1>5, <1>11, <1>12 DEF ARevealed
  <2>1. c \in revealed \/ c \in turn.shown
    BY <1>3, <1>5 DEF SeenSoFar
  <2>2. ASSUME c \in revealed PROVE \E k \in DOMAIN g : g[k].look = l /\ c \in g[k].cams
    <3>1. \E k \in DOMAIN f : f[k].look = l /\ c \in f[k].cams
      BY <1>1, <1>5, <1>11, <1>13, <2>2 DEF ARevealed
    <3> QED BY <1>15, <3>1
  <2> QED BY <1>15, <1>18, <2>1, <2>2
<1> QED BY <1>9, <1>10, <1>16, <1>17 DEF LooksInv

LEMMA LooksStep == LooksInv /\ [ActNext]_actVars => LooksInv'
<1> SUFFICES ASSUME LooksInv, [ActNext]_actVars PROVE LooksInv'
  OBVIOUS
<1>a. ACounts /\ ACameras /\ AFrames /\ ARevealed
  BY DEF LooksInv
<1>b. calls < MaxLLMCalls => calls + 1 \in 0..MaxLLMCalls
  BY <1>a, ActAssumption DEF ACounts
<1>1. CASE BindPolicy \/ AddTools
  BY <1>1, <1>a DEF BindPolicy, AddTools, LooksInv, ACounts, ACameras, AFrames, InOrder, ARevealed
<1>2. CASE ResetPolicy
  <2>1. frames' \in Seq(ShownMessages) /\ DOMAIN frames' = {} /\ 0 \in 0..MaxLLMCalls
    BY <1>2, ActAssumption DEF ResetPolicy
  <2> QED BY <1>2, <1>a, <2>1 DEF ResetPolicy, LooksInv, ACounts, ACameras, AFrames, InOrder, ARevealed
<1>3. CASE EndDialogue
  BY <1>3, <1>a DEF EndDialogue, LooksInv, ACounts, ACameras, AFrames, InOrder, ARevealed
<1>4. CASE GiveUp
  <2>1. calls' \in 0..MaxLLMCalls
    BY <1>4, <1>a, <1>b DEF GiveUp, ACounts
  <2> QED BY <1>4, <1>a, <2>1 DEF GiveUp, LooksInv, ACounts, ACameras, AFrames, InOrder, ARevealed
<1>5. CASE RequestFails
  BY <1>5, <1>a DEF RequestFails, LooksInv, ACounts, ACameras, AFrames, InOrder, ARevealed
<1>6. CASE \E cams \in SUBSET Cameras : Observe(cams)
  BY <1>6, LooksObserve
<1>7. CASE \E reply \in Turns : Turn(reply)
  BY <1>7, LooksTurn
<1>8. CASE UNCHANGED actVars
  BY <1>8, <1>a DEF actVars, LooksInv, ACounts, ACameras, AFrames, InOrder, ARevealed
<1> QED BY <1>1, <1>2, <1>3, <1>4, <1>5, <1>6, <1>7, <1>8 DEF ActNext

LEMMA LooksStart == ActInit => LooksInv
<1> SUFFICES ASSUME ActInit PROVE LooksInv
  OBVIOUS
<1>1. frames = <<>> /\ frames \in Seq(ShownMessages) /\ DOMAIN frames = {} /\ 0 \in 0..MaxLLMCalls
  BY ActAssumption DEF ActInit
<1> QED BY <1>1 DEF ActInit, LooksInv, ACounts, ACameras, AFrames, InOrder, ARevealed

----------------------------------------------------------------------------
\* The messages in view are the last of all.
LEMMA ViewIs ==
    ASSUME LooksInv
    PROVE  \E gone \in Nat : /\ gone <= Len(frames) /\ DOMAIN View = 1..Len(frames) - gone
                             /\ \A k \in DOMAIN View : View[k] = frames[k + gone]
                             /\ acfg.horizon = 0 => gone = 0
<1>1. frames \in Seq(ShownMessages) /\ Len(frames) \in Nat /\ DOMAIN frames = 1..Len(frames)
  BY LenProperties DEF LooksInv, AFrames, InOrder
<1>2. acfg.horizon \in Nat
  BY ActAssumption DEF LooksInv, ACounts
<1>3. CASE acfg.horizon = 0 \/ Len(frames) <= acfg.horizon
  <2>1. View = frames
    BY <1>3 DEF View
  <2>2. 0 \in Nat /\ Len(frames) - 0 = Len(frames) /\ \A k \in 1..Len(frames) : k + 0 = k
    BY <1>1
  <2>3. /\ 0 <= Len(frames) /\ DOMAIN View = 1..Len(frames) - 0
        /\ \A k \in DOMAIN View : View[k] = frames[k + 0]
    BY <1>1, <2>1, <2>2
  <2> QED BY <2>2, <2>3
<1>4. CASE ~(acfg.horizon = 0 \/ Len(frames) <= acfg.horizon)
  <2> DEFINE n == Len(frames)
             gone == n - acfg.horizon
  <2>1. View = SubSeq(frames, n - acfg.horizon + 1, n)
    BY <1>4 DEF View
  <2>2. gone \in Nat /\ gone <= n /\ n \in Nat
    BY <1>1, <1>2, <1>4
  <2>5. n - acfg.horizon + 1 = gone + 1 /\ gone + 1 \in Int /\ n \in Int /\ n - (gone + 1) + 1 = n - gone
        /\ gone + 1 <= n /\ \A i \in 1..n - gone : gone + 1 + i - 1 = i + gone
    BY <1>1, <1>2, <1>4
  <2>6. \A i \in gone + 1..n : frames[i] \in ShownMessages
    BY <1>1, <2>2, ElementOfSeq
  <2> HIDE DEF gone, n
  <2>4. DOMAIN View = 1..n - gone /\ \A k \in DOMAIN View : View[k] = frames[k + gone]
    <3> DEFINE m == gone + 1
    <3>1. /\ View \in Seq(ShownMessages) /\ Len(View) = (IF m <= n THEN n - m + 1 ELSE 0)
          /\ \A i \in 1..n - m + 1 : View[i] = frames[m + i - 1]
      <4>1. View = SubSeq(frames, m, n) /\ m \in Int /\ n \in Int /\ \A i \in m..n : frames[i] \in ShownMessages
        BY <2>1, <2>5, <2>6
      <4> HIDE DEF m
      <4> QED BY <4>1, SubSeqProperties
    <3> QED BY <2>5, <3>1, LenProperties
  <2> QED BY <1>4, <2>2, <2>4 DEF n
<1> QED BY <1>3, <1>4

\* A camera that counts as seen is in a message of this observation that is still in view.
LEMMA SeenIsInView ==
    ASSUME LooksInv, apc = "ask", acfg.onDemand, NEW c \in Seen(revealed)
    PROVE  \E k \in DOMAIN View : View[k].look = looks /\ c \in View[k].cams
<1>1. AFrames /\ ARevealed /\ Len(frames) \in Nat /\ DOMAIN frames = 1..Len(frames)
  BY LenProperties DEF LooksInv, AFrames, InOrder
<1>2. PICK gone \in Nat : /\ gone <= Len(frames) /\ DOMAIN View = 1..Len(frames) - gone
                          /\ \A k \in DOMAIN View : View[k] = frames[k + gone]
                          /\ acfg.horizon = 0 => gone = 0
  BY ViewIs
<1>3. PICK m \in DOMAIN frames : frames[m].look = looks /\ c \in frames[m].cams
  BY <1>1, SeenIs DEF ARevealed
<1>4. \A k \in DOMAIN View : k + gone \in DOMAIN frames
  BY <1>1, <1>2
<1>5. CASE m > gone
  <2>1. m - gone \in DOMAIN View /\ (m - gone) + gone = m
    BY <1>1, <1>2, <1>5
  <2> QED BY <1>2, <1>3, <2>1
<1>6. CASE ~(m > gone)
  <2>1. acfg.horizon # 0
    BY <1>1, <1>2, <1>6
  <2>2. PICK k \in DOMAIN View : c \in View[k].cams
    BY <2>1 DEF Seen, InView
  <2>3. k + gone \in DOMAIN frames /\ m <= k + gone /\ View[k] = frames[k + gone]
    BY <1>1, <1>2, <1>4, <1>6
  <2>4. \A j \in DOMAIN frames : frames[j].look \in Nat
    <3>1. \A j \in DOMAIN frames : frames[j] \in ShownMessages
      BY <1>1, ElementOfSeq DEF AFrames, InOrder
    <3> QED BY <3>1 DEF ShownMessages
  <2>5. frames[k + gone].look <= looks /\ frames[m].look <= frames[k + gone].look /\ looks \in Nat
    BY <1>1, <2>3 DEF AFrames, InOrder, LooksInv, ACounts
  <2>6. View[k].look = looks
    BY <1>3, <2>3, <2>4, <2>5
  <2> QED BY <2>2, <2>6
<1> QED BY <1>1, <1>2, <1>5, <1>6

LEMMA LooksSafe == LooksInv => ActTypeOK
BY DEF LooksInv, ACounts, ACameras, ActTypeOK

\* The refusal, of one step.
RefusedAreVisible ==
    already' # {} =>
       already' \subseteq UNION {View[k].cams : k \in {j \in DOMAIN View : View[j].look = looks}}

LEMMA RefusedStep == LooksInv /\ [ActNext]_actVars => [RefusedAreVisible]_actVars
<1> SUFFICES ASSUME LooksInv, ActNext, already' # {}
             PROVE  already' \subseteq UNION {View[k].cams : k \in {j \in DOMAIN View : View[j].look = looks}}
  BY DEF RefusedAreVisible
<1>1. PICK reply \in Turns : Turn(reply)
  BY DEF ActNext, BindPolicy, AddTools, ResetPolicy, EndDialogue, GiveUp, RequestFails, Observe,
         LooksInv, ACounts
<1>2. PICK turn : turn = Outcome(reply)
  OBVIOUS
<1>3. SeenSoFar(turn) /\ already' = turn.already /\ apc = "ask"
  BY <1>1, <1>2, OutcomeIs DEF SoundTurns, Turn, LooksInv
<1>4. acfg.onDemand /\ already' \subseteq Seen(revealed)
  BY <1>3 DEF SeenSoFar
<1>5. ASSUME NEW c \in already'
      PROVE  \E k \in DOMAIN View : View[k].look = looks /\ c \in View[k].cams
  BY <1>3, <1>4, SeenIsInView
<1> QED BY <1>5

\* A capture is refused as already shown only while the request the model answered still
\* carried that camera's frame of this same observation (LLMAgentPolicy.act, _evicted_view).
THEOREM RefusalsAreVisible == ActSpec => RefusedIsVisible
<1>1. LooksInv /\ [ActNext]_actVars => [RefusedAreVisible]_actVars
  BY RefusedStep
<1>2. RefusedIsVisible <=> [][RefusedAreVisible]_actVars
  BY DEF RefusedIsVisible, RefusedAreVisible
<1> QED BY <1>1, <1>2, LooksStart, LooksStep, PTL DEF ActSpec

----------------------------------------------------------------------------
\* A provider with an endpoint of its own is one of four, with the key it issued.
LEMMA ClaimIsOwn ==
    ASSUME Claims
    PROVE  \/ Claim.endpoint = "anthropic" /\ Claim.key = "ANTHROPIC_API_KEY" /\ Claim.wire = "chat"
           \/ Claim.endpoint = "openai" /\ Claim.key = "OPENAI_API_KEY" /\ Claim.wire = "chat"
           \/ Claim.endpoint = "google" /\ Claim.key = "GEMINI_API_KEY" /\ Claim.wire = "chat"
           \/ Claim.endpoint = "tinker" /\ Claim.key = "TINKER_API_KEY" /\ Claim.wire = "messages"
<1>1. opt.prefix \in {"anthropic", "openai", "google", "thinkingmachines"}
  BY DEF Claims, Direct
<1> QED
  BY <1>1 DEF Claim, Direct

\* With an endpoint the operator gave, the key is the one the ladder names, or none.
LEMMA GivenKey ==
    ASSUME opt.base # "", Provider # Unresolved
    PROVE  Provider.key \in {"none", LadderKey}
  BY DEF Provider, IfHeld

\* Without one, the provider is the one that claims the model, or OpenRouter.
LEMMA OwnProvider ==
    ASSUME opt.base = "", Provider # Unresolved
    PROVE  \/ Claims /\ Provider.endpoint = Claim.endpoint /\ Provider.key = Claim.key
                     /\ Provider.wire = Claim.wire
           \/ ~Claims /\ Provider.endpoint = "openrouter" /\ Provider.key = OpenRouterKey
                      /\ Provider.wire = "chat"
  BY DEF Provider

----------------------------------------------------------------------------
\* The client just built for an endpoint the operator gave gets the operator's key, or
\* the default of its wire.
LEMMA BuiltForGiven ==
    ASSUME Build, opt.base # ""
    PROVE  KeysStayHome'
<1>1. /\ opt' = opt /\ spc' = "built"
      /\ clientMade'.key = Provider.key /\ clientMade'.wire = Wire
  BY DEF Build
<1>2. clientMade'.key \in {"none", LadderKey}
  BY <1>1, GivenKey DEF Build, TakesWire
<1>3. opt.keyEnv # "" => LadderKey = opt.keyEnv
  BY DEF LadderKey, KeyNamed
<1>4. opt.keyEnv = "" => LadderKey = CASE Wire = "messages" -> "ANTHROPIC_API_KEY"
                                       [] Wire \in OwnEndpoint -> "GEMINI_API_KEY"
                                       [] OTHER -> OpenRouterKey
  BY DEF LadderKey, KeyNamed, OwnEndpoint
<1> QED
  BY <1>1, <1>2, <1>3, <1>4 DEF KeysStayHome, KeyGoesHome, WireIsServed

\* The client just built for a service's own endpoint: by the wire, which settles both
\* the endpoint and the providers that pass the checks.
LEMMA BuiltForOwn ==
    ASSUME Build, opt.base = ""
    PROVE  KeysStayHome'
<1>1. /\ opt' = opt /\ spc' = "built" /\ clientMade'.key = Provider.key
      /\ clientMade'.wire = Wire /\ clientMade'.endpoint = Endpoint
  BY DEF Build
<1>2. ClaimServes /\ MessagesServed /\ GoogleServed /\ Provider # Unresolved
  BY DEF Build, TakesWire
<1>3. CASE Wire \in OwnEndpoint
  <2>1. Provider.endpoint = "google"
    BY <1>2, <1>3 DEF GoogleServed
  <2>2. Provider.key = "GEMINI_API_KEY"
    BY <1>2, <2>1, OwnProvider, ClaimIsOwn
  <2>3. \/ Wire = "gemini-live" /\ Endpoint = "live"
        \/ Wire = "interactions" /\ Endpoint = "genai"
    BY <1>3 DEF Endpoint, OwnEndpoint
  <2> QED
    BY <1>1, <2>2, <2>3 DEF KeysStayHome, KeyGoesHome, WireIsServed
<1>4. CASE Wire \notin OwnEndpoint
  <2>1. Endpoint = Provider.endpoint /\ Wire \notin {"gemini-live", "interactions"}
    BY <1>4 DEF Endpoint, OwnEndpoint
  <2>2. CASE Claims
    <3>1. Provider.endpoint = Claim.endpoint /\ Provider.key = Claim.key
          /\ Provider.wire = Claim.wire
      BY <1>2, <2>2, OwnProvider
    <3>2. Claim.endpoint = "tinker" => Wire = "messages"
      BY <1>2, <2>2, ClaimIsOwn DEF ClaimServes, Wire
    <3>3. Wire = "messages" => Claim.endpoint \in {"anthropic", "tinker"}
      BY <1>2, <2>2, <3>1, ClaimIsOwn DEF MessagesServed
    <3> QED
      BY <1>1, <2>1, <2>2, <3>1, <3>2, <3>3, ClaimIsOwn
         DEF KeysStayHome, KeyGoesHome, WireIsServed
  <2>3. CASE ~Claims
    <3>1. Provider.endpoint = "openrouter" /\ Provider.key = OpenRouterKey
          /\ Provider.wire = "chat"
      BY <1>2, <2>3, OwnProvider
    <3>2. Wire # "messages"
      BY <1>2, <3>1 DEF MessagesServed
    <3> QED
      BY <1>1, <2>1, <3>1, <3>2 DEF KeysStayHome, KeyGoesHome, WireIsServed
  <2> QED
    BY <2>2, <2>3
<1> QED
  BY <1>3, <1>4

----------------------------------------------------------------------------
LEMMA KeysStep == KeysStayHome /\ [SetupNext]_setupVars => KeysStayHome'
<1> SUFFICES ASSUME KeysStayHome, [SetupNext]_setupVars
             PROVE  KeysStayHome'
  OBVIOUS
<1>1. CASE Refuse
  BY <1>1 DEF Refuse, KeysStayHome, KeyGoesHome, WireIsServed
<1>2. CASE Build
  BY <1>2, BuiltForGiven, BuiltForOwn
<1>3. CASE UNCHANGED setupVars
  BY <1>3 DEF setupVars, KeysStayHome, KeyGoesHome, WireIsServed
<1> QED
  BY <1>1, <1>2, <1>3 DEF SetupNext

\* What is built speaks a wire that exists, to an endpoint that was resolved.
SetupTyped == SetupTypeOK /\ opt.base # "none"

LEMMA SetupTypedStep == SetupTyped /\ [SetupNext]_setupVars => SetupTyped'
<1> SUFFICES ASSUME SetupTyped, [SetupNext]_setupVars PROVE SetupTyped'
  OBVIOUS
<1>1. CASE Refuse
  BY <1>1 DEF Refuse, SetupTyped, SetupTypeOK
<1>2. CASE Build
  <2>1. /\ opt' = opt /\ spc' = "built" /\ clientMade'.wire = Wire
        /\ clientMade'.endpoint = Endpoint /\ clientMade'.horizon = Horizon
        /\ Provider # Unresolved /\ Alias(opt.wire) \in WireFormats \cup {"unset"}
    BY <1>2 DEF Build, TakesWire
  <2>2. Wire \in WireFormats
    <3>1. Claims => Claim.wire \in {"chat", "messages"}
      BY ClaimIsOwn
    <3>2. opt.wire # "unset" => Alias(opt.wire) # "unset"
      BY DEF Alias
    <3> QED BY <2>1, <3>1, <3>2 DEF Wire, WireFormats
  <2>3. Provider.endpoint # "none"
    <3>1. CASE opt.base # ""
      BY <2>1, <3>1 DEF Provider, SetupTyped
    <3>2. CASE opt.base = ""
      BY <2>1, <3>2, OwnProvider, ClaimIsOwn
    <3> QED BY <3>1, <3>2
  <2>4. Endpoint # "none"
    BY <2>3 DEF Endpoint
  <2>5. Horizon \in {0, 1, 2} /\ {0, 1, 2} \subseteq 0..2
    BY DEF Horizon
  <2> QED BY <2>1, <2>2, <2>4, <2>5 DEF SetupTyped, SetupTypeOK
<1>3. CASE UNCHANGED setupVars
  BY <1>3 DEF setupVars, SetupTyped, SetupTypeOK
<1> QED BY <1>1, <1>2, <1>3 DEF SetupNext

\* Whatever the options resolve to, the key of one provider is not sent to another and
\* the wire is one its endpoint serves (resolve_provider and the checks of
\* LLMAgentPolicy.__init__). Nothing is assumed of the options.
THEOREM EveryKeyStaysHome == SetupSpec => []KeysStayHome
<1>1. SetupInit => KeysStayHome
  BY DEF SetupInit, KeysStayHome, KeyGoesHome, WireIsServed
<1> QED
  BY <1>1, KeysStep, PTL DEF SetupSpec

----------------------------------------------------------------------------
\* The inductive invariant, in named parts, command by command.

Early == {"args", "task", "grader", "policy"}
Middle == {"embodiment", "auto", "guards"}
Late == {"session", "voice", "speaker", "sinks", "eval"}
Ending == {"clean", "gone"}
Openable == {"policy", "embodiment", "voice", "speaker", "live"}

Typed ==
    /\ job \in [Commands -> Jobs]
    /\ step \in [Commands -> Early \cup {"claim"} \cup Middle \cup Late \cup Ending]
    /\ claims \in [Commands -> Seq(Devices)]
    /\ claimed \in [Commands -> {"none", "held", "degraded"}]
    /\ open \in [Commands -> SUBSET Openable]
    /\ guarded = [c \in Commands |-> guarded[c]] /\ warned = [c \in Commands |-> warned[c]]
    /\ code \in [Commands -> {"none", "stopped", "0", "1", "130", "raised", "killed"}]

\* No device is locked twice.
Exclusive ==
    \A c, d \in Commands : c # d =>
        \A k \in DOMAIN claims[c], m \in DOMAIN claims[d] : claims[c][k] # claims[d][m]

\* The locks a command has are the first devices it was given.
Prefix(c) ==
    /\ Len(claims[c]) <= Len(job[c].devices)
    /\ \A k \in 1..Len(claims[c]) : claims[c][k] = job[c].devices[k]

Covers(c) ==
    \A k \in DOMAIN job[c].devices : k \in DOMAIN claims[c] /\ claims[c][k] = job[c].devices[k]

\* A claim that is held covers the devices until the embodiment has been closed.
Claiming(c) ==
    /\ step[c] \in Early => claims[c] = <<>>
    /\ step[c] = "claim" => Prefix(c)
    /\ step[c] \in Early \cup {"claim"} <=> claimed[c] = "none" /\ step[c] \notin Ending
    /\ "embodiment" \in open[c] => claimed[c] # "none"
    /\ claimed[c] = "held" /\ (step[c] \notin Ending \/ "embodiment" \in open[c]) => Covers(c)

\* What the guards step decided is what the operator was told.
Announced(c) == guarded[c] = GuardsOf(job[c]) /\ (Warns(job[c]) => warned[c])

Announcing(c) ==
    /\ step[c] \in Late => Announced(c)
    /\ code[c] \in {"0", "1"} => step[c] \in Ending /\ Announced(c)

Emptied(c) ==
    step[c] = "gone" /\ code[c] # "killed" => open[c] = {} /\ claims[c] = <<>>

PerCommand(c) == Claiming(c) /\ Announcing(c) /\ Emptied(c)

CliInv == Typed /\ Exclusive /\ \A c \in Commands : PerCommand(c)

----------------------------------------------------------------------------
\* The order of construction.

LEMMA OrderIs ==
    /\ Len(Order) = 13 /\ DOMAIN Order = 1..13
    /\ Order[1] = "args" /\ Order[2] = "task" /\ Order[3] = "grader" /\ Order[4] = "policy"
    /\ Order[5] = "claim" /\ Order[6] = "embodiment" /\ Order[7] = "auto"
    /\ Order[8] = "guards" /\ Order[9] = "session" /\ Order[10] = "voice"
    /\ Order[11] = "speaker" /\ Order[12] = "sinks" /\ Order[13] = "eval"
  BY DEF Order

LEMMA StagesAre == Stages = Early \cup {"claim"} \cup Middle \cup Late
  BY OrderIs DEF Stages, Early, Middle, Late

\* No step comes twice in the order, so that each has one successor.
LEMMA OneSuccessor ==
    ASSUME NEW k \in 2..13, NEW m \in 2..13, Order[k - 1] = Order[m - 1]
    PROVE  k = m
<1>1. k \in {2, 3, 4, 5, 6, 7, 8, 9, 10, 11, 12, 13} /\ m \in {2, 3, 4, 5, 6, 7, 8, 9, 10, 11, 12, 13}
  OBVIOUS
<1> QED
  BY <1>1, OrderIs

LEMMA AfterIsNext ==
    ASSUME NEW k \in 2..13
    PROVE  After(Order[k - 1]) = Order[k]
<1>1. 2..Len(Order) = 2..13
  BY OrderIs
<1>2. PICK m \in 2..13 : m = CHOOSE i \in 2..Len(Order) : Order[i - 1] = Order[k - 1]
  BY <1>1
<1>3. Order[m - 1] = Order[k - 1]
  BY <1>1, <1>2
<1>4. m = k
  BY <1>3, OneSuccessor
<1> QED
  BY <1>2, <1>4 DEF After

LEMMA AfterStage ==
    /\ \A s \in Early : After(s) \in Early \cup {"claim"}
    /\ \A s \in {"embodiment", "auto"} : After(s) \in Middle
    /\ After("guards") = "session"
    /\ \A s \in Late \ {"eval"} : After(s) \in Late
<1>1. /\ After("args") = "task" /\ After("task") = "grader" /\ After("grader") = "policy"
      /\ After("policy") = "claim"
  BY OrderIs, AfterIsNext, 2 - 1 = 1, 3 - 1 = 2, 4 - 1 = 3, 5 - 1 = 4
<1>2. After("embodiment") = "auto" /\ After("auto") = "guards" /\ After("guards") = "session"
  BY OrderIs, AfterIsNext, 7 - 1 = 6, 8 - 1 = 7, 9 - 1 = 8
<1>3. /\ After("session") = "voice" /\ After("voice") = "speaker"
      /\ After("speaker") = "sinks" /\ After("sinks") = "eval"
  BY OrderIs, AfterIsNext, 10 - 1 = 9, 11 - 1 = 10, 12 - 1 = 11, 13 - 1 = 12
<1> QED
  BY <1>1, <1>2, <1>3 DEF Early, Middle, Late

\* Only the embodiment step opens the embodiment.
LEMMA OpenedNow ==
    ASSUME NEW s, NEW j
    PROVE  /\ OpenedBy(s, j) \subseteq Openable
           /\ s # "embodiment" => "embodiment" \notin OpenedBy(s, j)
  BY DEF OpenedBy, Openable

----------------------------------------------------------------------------
\* Unwinding closes something that is held, and the claim only after the embodiment.
LEMMA FirstIsHeld ==
    ASSUME NEW c \in Commands, open[c] \subseteq Openable, Held(c) # {}
    PROVE  First(c) \in Held(c) /\ (First(c) = "claim" => "embodiment" \notin open[c])
<1> DEFINE P(k) == CloseOrder[k] \in Held(c) /\ \A i \in 1..(k - 1) : CloseOrder[i] \notin Held(c)
<1>1. /\ DOMAIN CloseOrder = 1..6
      /\ CloseOrder[1] = "live" /\ CloseOrder[2] = "speaker" /\ CloseOrder[3] = "voice"
      /\ CloseOrder[4] = "embodiment" /\ CloseOrder[5] = "claim" /\ CloseOrder[6] = "policy"
  BY DEF CloseOrder
<1>2. Held(c) \subseteq {"live", "speaker", "voice", "embodiment", "claim", "policy"}
  BY DEF Held, Openable
<1>3. \E k \in 1..6 : P(k)
  <2>1. CASE CloseOrder[1] \in Held(c)
    BY <2>1
  <2>2. CASE CloseOrder[1] \notin Held(c) /\ CloseOrder[2] \in Held(c)
    <3>1. P(2)
      BY <2>2, 1..(2 - 1) = {1}
    <3> QED
      BY <3>1
  <2>3. CASE CloseOrder[1] \notin Held(c) /\ CloseOrder[2] \notin Held(c)
             /\ CloseOrder[3] \in Held(c)
    <3>1. P(3)
      BY <2>3, 1..(3 - 1) = {1, 2}
    <3> QED
      BY <3>1
  <2>4. CASE CloseOrder[1] \notin Held(c) /\ CloseOrder[2] \notin Held(c)
             /\ CloseOrder[3] \notin Held(c) /\ CloseOrder[4] \in Held(c)
    <3>1. P(4)
      BY <2>4, 1..(4 - 1) = {1, 2, 3}
    <3> QED
      BY <3>1
  <2>5. CASE CloseOrder[1] \notin Held(c) /\ CloseOrder[2] \notin Held(c)
             /\ CloseOrder[3] \notin Held(c) /\ CloseOrder[4] \notin Held(c)
             /\ CloseOrder[5] \in Held(c)
    <3>1. P(5)
      BY <2>5, 1..(5 - 1) = {1, 2, 3, 4}
    <3> QED
      BY <3>1
  <2>6. CASE CloseOrder[1] \notin Held(c) /\ CloseOrder[2] \notin Held(c)
             /\ CloseOrder[3] \notin Held(c) /\ CloseOrder[4] \notin Held(c)
             /\ CloseOrder[5] \notin Held(c)
    <3>1. CloseOrder[6] \in Held(c)
      BY <1>1, <1>2, <2>6
    <3>2. P(6)
      BY <2>6, <3>1, 1..(6 - 1) = {1, 2, 3, 4, 5}
    <3> QED
      BY <3>2
  <2> QED
    BY <2>1, <2>2, <2>3, <2>4, <2>5, <2>6
<1>4. PICK k \in 1..6 : P(k) /\ First(c) = CloseOrder[k]
  BY <1>1, <1>3 DEF First
<1>5. First(c) = "claim" => k = 5
  BY <1>1, <1>4, k \in {1, 2, 3, 4, 5, 6}
<1>6. k = 5 => "embodiment" \notin Held(c)
  BY <1>1, <1>4, 4 \in 1..(5 - 1)
<1> QED
  BY <1>4, <1>5, <1>6 DEF Held

----------------------------------------------------------------------------
\* A step of one command leaves the others alone.
Others(c) ==
    /\ job' = job
    /\ \A d \in Commands \ {c} :
         /\ step'[d] = step[d] /\ claims'[d] = claims[d] /\ claimed'[d] = claimed[d]
         /\ open'[d] = open[d] /\ guarded'[d] = guarded[d] /\ warned'[d] = warned[d]
         /\ code'[d] = code[d]

LEMMA OneMoves ==
    ASSUME CliInv, NEW c \in Commands, Others(c), Typed', Exclusive', PerCommand(c)'
    PROVE  CliInv'
<1> SUFFICES ASSUME NEW d \in Commands, d # c PROVE PerCommand(d)'
  BY DEF CliInv
<1>1. PerCommand(d)
  BY DEF CliInv
<1>2. /\ job'[d] = job[d] /\ step'[d] = step[d] /\ claims'[d] = claims[d]
      /\ claimed'[d] = claimed[d] /\ open'[d] = open[d] /\ guarded'[d] = guarded[d]
      /\ warned'[d] = warned[d] /\ code'[d] = code[d]
  BY DEF Others
<1>3. Claiming(d)'
  BY <1>1, <1>2 DEF PerCommand, Claiming, Prefix, Covers
<1>4. Announcing(d)'
  BY <1>1, <1>2 DEF PerCommand, Announcing, Announced
<1>5. Emptied(d)'
  BY <1>1, <1>2 DEF PerCommand, Emptied
<1> QED
  BY <1>3, <1>4, <1>5 DEF PerCommand

\* Claims that stay or are given back keep the locks exclusive.
LEMMA FewerClaims ==
    ASSUME Typed, Exclusive, NEW c \in Commands,
           claims' = claims \/ claims' = [claims EXCEPT ![c] = <<>>]
    PROVE  Exclusive'
<1> SUFFICES ASSUME NEW a \in Commands, NEW b \in Commands, a # b,
                    NEW k \in DOMAIN claims'[a], NEW m \in DOMAIN claims'[b]
             PROVE  claims'[a][k] # claims'[b][m]
  BY DEF Exclusive
<1>1. claims'[a] \in {claims[a], <<>>} /\ claims'[b] \in {claims[b], <<>>}
  BY DEF Typed
<1>2. DOMAIN <<>> = {}
  OBVIOUS
<1> QED
  BY <1>1, <1>2 DEF Exclusive

----------------------------------------------------------------------------
\* One lemma for each step of a command.

LEMMA AdvanceStep ==
    ASSUME CliInv, NEW c \in Commands, Advance(c)
    PROVE  CliInv'
<1> DEFINE s == step[c]
<1>1. /\ s \in Early \cup Middle \cup (Late \ {"eval"})
      /\ step' = [step EXCEPT ![c] = After(s)]
      /\ open' = [open EXCEPT ![c] = @ \cup OpenedBy(s, job[c])]
      /\ UNCHANGED <<job, claims, claimed, code>>
  BY StagesAre DEF Advance
<1>2. /\ s \in Early => After(s) \in Early \cup {"claim"}
      /\ s \in {"embodiment", "auto"} => After(s) \in Middle
      /\ s = "guards" => After(s) = "session"
      /\ s \in Late => After(s) \in Late
  BY <1>1, AfterStage DEF Early, Middle, Late
<1>3. After(s) \in Early \cup {"claim"} \cup Middle \cup Late
  BY <1>1, <1>2 DEF Middle, Late
<1>4. IF s = "guards"
        THEN /\ guarded' = [guarded EXCEPT ![c] = GuardsOf(job[c])]
             /\ warned' = [warned EXCEPT ![c] = Warns(job[c])]
        ELSE UNCHANGED <<guarded, warned>>
  BY DEF Advance
<1>5. Typed'
  <2>1. step' \in [Commands -> Early \cup {"claim"} \cup Middle \cup Late \cup Ending]
    BY <1>1, <1>3 DEF CliInv, Typed
  <2>2. open' \in [Commands -> SUBSET Openable]
    BY <1>1, OpenedNow DEF CliInv, Typed
  <2>3. guarded' = [d \in Commands |-> guarded'[d]] /\ warned' = [d \in Commands |-> warned'[d]]
    BY <1>4 DEF CliInv, Typed
  <2> QED
    BY <1>1, <2>1, <2>2, <2>3 DEF CliInv, Typed
<1>6. Exclusive'
  BY <1>1, FewerClaims DEF CliInv
<1>7. Others(c)
  BY <1>1, <1>4 DEF CliInv, Typed, Others
<1>8. /\ step'[c] = After(s) /\ open'[c] = open[c] \cup OpenedBy(s, job[c])
      /\ claims'[c] = claims[c] /\ claimed'[c] = claimed[c] /\ code'[c] = code[c]
      /\ job'[c] = job[c] /\ PerCommand(c)
  BY <1>1 DEF CliInv, Typed
<1>9. Claiming(c)'
  <2>1. CASE s \in Early
    <3>1. "embodiment" \notin open'[c] /\ claimed[c] = "none" /\ claims[c] = <<>>
      BY <1>8, <2>1, OpenedNow DEF PerCommand, Claiming, Early, Ending
    <3>2. Len(claims[c]) = 0 /\ Len(job[c].devices) \in Nat
      BY <3>1, JobsAssumption DEF CliInv, Typed
    <3> QED
      BY <1>2, <1>8, <2>1, <3>1, <3>2 DEF Claiming, Prefix, Early, Ending
  <2>2. CASE s \in Middle \cup Late
    <3>1. After(s) \in Middle \cup Late
      BY <1>1, <1>2, <2>2 DEF Middle, Early, Late
    <3>2. claimed[c] # "none" /\ (claimed[c] = "held" => Covers(c))
      BY <1>8, <2>2 DEF PerCommand, Claiming, Middle, Late, Early, Ending
    <3>3. claimed[c] = "held" => Covers(c)'
      BY <1>8, <3>2 DEF Covers
    <3> QED
      BY <1>8, <3>1, <3>2, <3>3 DEF Claiming, Middle, Late, Early, Ending
  <2> QED
    BY <1>1, <2>1, <2>2
<1>10. Announcing(c)'
  <2>1. code'[c] \notin {"0", "1"}
    BY <1>1, <1>8 DEF PerCommand, Announcing, Early, Middle, Late, Ending
  <2>2. CASE s = "guards"
    <3>1. guarded'[c] = GuardsOf(job[c]) /\ warned'[c] = Warns(job[c])
      BY <1>4, <2>2 DEF CliInv, Typed
    <3> QED
      BY <1>8, <2>1, <3>1 DEF Announcing, Announced
  <2>3. CASE s # "guards"
    <3>1. guarded'[c] = guarded[c] /\ warned'[c] = warned[c]
      BY <1>4, <2>3
    <3>2. step'[c] \in Late => s \in Late
      BY <1>1, <1>2, <1>8, <2>3 DEF Early, Middle, Late
    <3> QED
      BY <1>8, <2>1, <3>1, <3>2 DEF PerCommand, Announcing, Announced
  <2> QED
    BY <2>2, <2>3
<1>11. Emptied(c)'
  BY <1>3, <1>8 DEF Emptied, Early, Middle, Late
<1> QED
  BY <1>5, <1>6, <1>7, <1>9, <1>10, <1>11, OneMoves DEF PerCommand

LEMMA StopStep ==
    ASSUME CliInv, NEW c \in Commands, StopCommand(c)
    PROVE  CliInv'
<1>1. /\ step[c] \in Early \cup {"claim"} \cup Middle \cup (Late \ {"eval"})
      /\ step' = [step EXCEPT ![c] = "clean"]
      /\ UNCHANGED <<job, claims, claimed, guarded, warned>>
  BY StagesAre DEF StopCommand
<1>2. \E result \in {"stopped", "130"} : code' = [code EXCEPT ![c] = result]
  BY DEF StopCommand
<1>3. \/ open' = open
      \/ step[c] # "embodiment" /\ open' = [open EXCEPT ![c] = @ \cup OpenedBy(step[c], job[c])]
  BY DEF StopCommand
<1>4. Typed'
  BY <1>1, <1>2, <1>3, OpenedNow DEF CliInv, Typed, Ending
<1>5. Exclusive'
  BY <1>1, FewerClaims DEF CliInv
<1>6. Others(c)
  BY <1>1, <1>2, <1>3 DEF CliInv, Typed, Others
<1>7. /\ step'[c] = "clean" /\ code'[c] \notin {"0", "1"} /\ PerCommand(c)
      /\ "embodiment" \in open'[c] => "embodiment" \in open[c]
  BY <1>1, <1>2, <1>3, OpenedNow DEF CliInv, Typed
<1>8. Claiming(c)'
  <2>1. "embodiment" \in open'[c] => claimed[c] # "none" /\ (claimed[c] = "held" => Covers(c))
    BY <1>7 DEF PerCommand, Claiming
  <2> QED
    BY <1>1, <1>7, <2>1 DEF Claiming, Covers, Early, Ending
<1>9. Announcing(c)' /\ Emptied(c)'
  BY <1>7 DEF Announcing, Emptied, Late
<1> QED
  BY <1>4, <1>5, <1>6, <1>8, <1>9, OneMoves DEF PerCommand
\* A claim takes a device nobody holds, so that no lock is taken twice.
LEMMA ClaimDeviceStep ==
    ASSUME CliInv, NEW c \in Commands, ClaimDevice(c)
    PROVE  CliInv'
<1> DEFINE n == Len(claims[c])
<1>1. /\ step[c] = "claim" /\ n < Len(job[c].devices) /\ ~Locked(NextDevice(c))
      /\ claims' = [claims EXCEPT ![c] = Append(claims[c], NextDevice(c))]
      /\ UNCHANGED <<job, step, claimed, open, guarded, warned, code>>
  BY DEF ClaimDevice
<1>2. job[c].devices \in Seq(Devices) /\ claims[c] \in Seq(Devices)
  BY JobsAssumption DEF CliInv, Typed
<1>3. NextDevice(c) \in Devices /\ NextDevice(c) = job[c].devices[n + 1]
  BY <1>1, <1>2 DEF NextDevice
<1>4. /\ claims'[c] = Append(claims[c], NextDevice(c)) /\ claims'[c] \in Seq(Devices)
      /\ \A d \in Commands : d # c => claims'[d] = claims[d]
  BY <1>1, <1>2, <1>3 DEF CliInv, Typed
<1>5. /\ Len(claims'[c]) = n + 1 /\ DOMAIN claims'[c] = 1..(n + 1)
      /\ \A k \in 1..n : claims'[c][k] = claims[c][k]
      /\ claims'[c][n + 1] = NextDevice(c)
  BY <1>2, <1>3, <1>4
<1>6. Typed'
  BY <1>1, <1>2, <1>3 DEF CliInv, Typed
<1>7. Exclusive'
  <2>1. \A d \in Commands : \A k \in DOMAIN claims[d] : claims[d][k] # NextDevice(c)
    BY <1>1 DEF Locked
  <2>2. \A k \in DOMAIN claims'[c] : claims'[c][k] = NextDevice(c)
            \/ (k \in DOMAIN claims[c] /\ claims'[c][k] = claims[c][k])
    BY <1>2, <1>5
  <2>3. ASSUME NEW d \in Commands, d # c, NEW k \in DOMAIN claims'[c], NEW m \in DOMAIN claims'[d]
        PROVE  claims'[c][k] # claims'[d][m]
    BY <1>4, <2>1, <2>2, <2>3 DEF CliInv, Exclusive
  <2> SUFFICES ASSUME NEW a \in Commands, NEW b \in Commands, a # b,
                      NEW k \in DOMAIN claims'[a], NEW m \in DOMAIN claims'[b]
               PROVE  claims'[a][k] # claims'[b][m]
    BY DEF Exclusive
  <2>4. CASE a = c \/ b = c
    BY <2>3, <2>4
  <2>5. CASE a # c /\ b # c
    BY <1>4, <2>5 DEF CliInv, Exclusive
  <2> QED
    BY <2>4, <2>5
<1>8. Others(c)
  BY <1>1, <1>4 DEF CliInv, Typed, Others
<1>9. Claiming(c)'
  <2>1. claimed[c] = "none" /\ "embodiment" \notin open[c] /\ Prefix(c)
    BY <1>1 DEF CliInv, PerCommand, Claiming, Ending
  <2>2. Prefix(c)'
    BY <1>1, <1>2, <1>3, <1>5, <2>1 DEF Prefix
  <2> QED
    BY <1>1, <2>1, <2>2 DEF Claiming, Early, Ending
<1>10. Announcing(c)' /\ Emptied(c)'
  BY <1>1 DEF CliInv, PerCommand, Announcing, Announced, Emptied
<1> QED
  BY <1>6, <1>7, <1>8, <1>9, <1>10, OneMoves DEF PerCommand

LEMMA ClaimRefusedStep ==
    ASSUME CliInv, NEW c \in Commands, ClaimRefused(c)
    PROVE  CliInv'
<1>1. /\ step[c] = "claim"
      /\ claims' = [claims EXCEPT ![c] = <<>>] /\ step' = [step EXCEPT ![c] = "clean"]
      /\ code' = [code EXCEPT ![c] = "stopped"]
      /\ UNCHANGED <<job, claimed, open, guarded, warned>>
  BY DEF ClaimRefused
<1>2. Typed' /\ Others(c)
  BY <1>1 DEF CliInv, Typed, Others, Ending
<1>3. Exclusive'
  BY <1>1, FewerClaims DEF CliInv
<1>4. step'[c] = "clean" /\ code'[c] = "stopped" /\ open'[c] = open[c] /\ claimed'[c] = claimed[c]
  BY <1>1 DEF CliInv, Typed
<1>5. claimed[c] = "none" /\ "embodiment" \notin open[c]
  BY <1>1 DEF CliInv, PerCommand, Claiming, Ending
<1>6. Claiming(c)'
  BY <1>4, <1>5 DEF Claiming, Early, Ending
<1>7. Announcing(c)' /\ Emptied(c)'
  BY <1>4 DEF Announcing, Emptied, Late
<1> QED
  BY <1>2, <1>3, <1>6, <1>7, OneMoves DEF PerCommand

LEMMA ClaimDegradedStep ==
    ASSUME CliInv, NEW c \in Commands, ClaimDegraded(c)
    PROVE  CliInv'
<1>1. /\ step[c] = "claim"
      /\ claims' = [claims EXCEPT ![c] = <<>>] /\ step' = [step EXCEPT ![c] = "embodiment"]
      /\ claimed' = [claimed EXCEPT ![c] = "degraded"]
      /\ UNCHANGED <<job, open, guarded, warned, code>>
  BY DEF ClaimDegraded
<1>2. Typed' /\ Others(c)
  BY <1>1 DEF CliInv, Typed, Others, Middle
<1>3. Exclusive'
  BY <1>1, FewerClaims DEF CliInv
<1>4. step'[c] = "embodiment" /\ claimed'[c] = "degraded" /\ code'[c] = code[c]
  BY <1>1 DEF CliInv, Typed
<1>5. Claiming(c)'
  BY <1>4 DEF Claiming, Early, Ending
<1>6. Announcing(c)' /\ Emptied(c)'
  BY <1>1, <1>4 DEF CliInv, PerCommand, Announcing, Emptied, Late, Ending
<1> QED
  BY <1>2, <1>3, <1>5, <1>6, OneMoves DEF PerCommand

\* The claim is held once every device of the command has been locked.
LEMMA ClaimDoneStep ==
    ASSUME CliInv, NEW c \in Commands, ClaimDone(c)
    PROVE  CliInv'
<1>1. /\ step[c] = "claim" /\ Len(claims[c]) = Len(job[c].devices)
      /\ step' = [step EXCEPT ![c] = "embodiment"]
      /\ claimed' = [claimed EXCEPT ![c] = "held"]
      /\ UNCHANGED <<job, claims, open, guarded, warned, code>>
  BY DEF ClaimDone
<1>2. Typed' /\ Others(c)
  BY <1>1 DEF CliInv, Typed, Others, Middle
<1>3. Exclusive'
  BY <1>1, FewerClaims DEF CliInv
<1>4. step'[c] = "embodiment" /\ claimed'[c] = "held" /\ code'[c] = code[c]
  BY <1>1 DEF CliInv, Typed
<1>5. Covers(c)'
  <2>1. job[c].devices \in Seq(Devices) /\ claims[c] \in Seq(Devices)
    BY JobsAssumption DEF CliInv, Typed
  <2>2. Prefix(c)
    BY <1>1 DEF CliInv, PerCommand, Claiming
  <2> QED
    BY <1>1, <2>1, <2>2 DEF Covers, Prefix
<1>6. Claiming(c)'
  BY <1>4, <1>5 DEF Claiming, Early, Ending
<1>7. Announcing(c)' /\ Emptied(c)'
  BY <1>1, <1>4 DEF CliInv, PerCommand, Announcing, Emptied, Late, Ending
<1> QED
  BY <1>2, <1>3, <1>6, <1>7, OneMoves DEF PerCommand
LEMMA EvaluateStep ==
    ASSUME CliInv, NEW c \in Commands, Evaluate(c)
    PROVE  CliInv'
<1>1. /\ step[c] = "eval" /\ step' = [step EXCEPT ![c] = "clean"]
      /\ \E result \in {"0", "1", "130", "raised"} : code' = [code EXCEPT ![c] = result]
      /\ UNCHANGED <<job, claims, claimed, open, guarded, warned>>
  BY DEF Evaluate
<1>2. Typed' /\ Others(c)
  BY <1>1 DEF CliInv, Typed, Others, Ending
<1>3. Exclusive'
  BY <1>1, FewerClaims DEF CliInv
<1>4. step'[c] = "clean"
  BY <1>1 DEF CliInv, Typed
<1>5. Claiming(c)'
  BY <1>1, <1>4 DEF CliInv, PerCommand, Claiming, Covers, Early, Ending
<1>6. Announcing(c)' /\ Emptied(c)'
  BY <1>1, <1>4 DEF CliInv, PerCommand, Announcing, Announced, Emptied, Late, Ending
<1> QED
  BY <1>2, <1>3, <1>5, <1>6, OneMoves DEF PerCommand

\* Unwinding gives the claim back last of the two.
LEMMA CloseStep ==
    ASSUME CliInv, NEW c \in Commands, Close(c)
    PROVE  CliInv'
<1>1. /\ step[c] = "clean" /\ Held(c) # {}
      /\ open' = [open EXCEPT ![c] = @ \ {First(c)}]
      /\ claims' = IF First(c) = "claim" THEN [claims EXCEPT ![c] = <<>>] ELSE claims
      /\ UNCHANGED <<job, step, claimed, guarded, warned>>
      /\ code' = code \/ code' = [code EXCEPT ![c] = "raised"]
  BY DEF Close
<1>2. open[c] \subseteq Openable
  BY DEF CliInv, Typed
<1>3. First(c) = "claim" => "embodiment" \notin open[c]
  BY <1>1, <1>2, FirstIsHeld
<1>4. Typed' /\ Others(c)
  <2>1. claims' \in [Commands -> Seq(Devices)] /\ \A d \in Commands \ {c} : claims'[d] = claims[d]
    <3>1. <<>> \in Seq(Devices) /\ claims \in [Commands -> Seq(Devices)]
      BY DEF CliInv, Typed
    <3>2. claims' = claims \/ claims' = [claims EXCEPT ![c] = <<>>]
      BY <1>1
    <3> QED
      BY <3>1, <3>2
  <2>2. open' \in [Commands -> SUBSET Openable] /\ \A d \in Commands \ {c} : open'[d] = open[d]
    BY <1>1 DEF CliInv, Typed
  <2>3. /\ code' \in [Commands -> {"none", "stopped", "0", "1", "130", "raised", "killed"}]
        /\ \A d \in Commands \ {c} : code'[d] = code[d]
    BY <1>1 DEF CliInv, Typed
  <2> QED
    BY <1>1, <2>1, <2>2, <2>3 DEF CliInv, Typed, Others
<1>5. Exclusive'
  BY <1>1, FewerClaims DEF CliInv
<1>6. /\ step'[c] = "clean" /\ open'[c] = open[c] \ {First(c)} /\ claimed'[c] = claimed[c]
      /\ code'[c] \in {code[c], "raised"} /\ (First(c) # "claim" => claims'[c] = claims[c])
  BY <1>1 DEF CliInv, Typed
<1>7. Claiming(c)'
  <2>1. "embodiment" \in open'[c] =>
            /\ "embodiment" \in open[c] /\ claims'[c] = claims[c]
            /\ claimed[c] # "none" /\ (claimed[c] = "held" => Covers(c))
    BY <1>3, <1>6 DEF CliInv, PerCommand, Claiming
  <2> QED
    BY <1>1, <1>6, <2>1 DEF Claiming, Covers, Early, Ending
<1>8. Announcing(c)' /\ Emptied(c)'
  BY <1>1, <1>6 DEF CliInv, PerCommand, Announcing, Announced, Emptied, Late, Ending
<1> QED
  BY <1>4, <1>5, <1>7, <1>8, OneMoves DEF PerCommand

LEMMA ExitStep ==
    ASSUME CliInv, NEW c \in Commands, Exit(c)
    PROVE  CliInv'
<1>1. /\ step[c] = "clean" /\ Held(c) = {} /\ step' = [step EXCEPT ![c] = "gone"]
      /\ UNCHANGED <<job, claims, claimed, open, guarded, warned, code>>
  BY DEF Exit
<1>2. Typed' /\ Others(c)
  BY <1>1 DEF CliInv, Typed, Others, Ending
<1>3. Exclusive'
  BY <1>1, FewerClaims DEF CliInv
<1>4. step'[c] = "gone" /\ open[c] = {} /\ claims[c] = <<>>
  BY <1>1 DEF CliInv, Typed, Held
<1>5. Claiming(c)' /\ Emptied(c)'
  BY <1>1, <1>4 DEF Claiming, Emptied, Early, Ending
<1>6. Announcing(c)'
  BY <1>1, <1>4 DEF CliInv, PerCommand, Announcing, Announced, Late, Ending
<1> QED
  BY <1>2, <1>3, <1>5, <1>6, OneMoves DEF PerCommand

\* A command that is killed at any point drops its locks with everything it held open.
LEMMA KillStep ==
    ASSUME CliInv, NEW c \in Commands, Kill(c)
    PROVE  CliInv'
<1>1. /\ step' = [step EXCEPT ![c] = "gone"] /\ code' = [code EXCEPT ![c] = "killed"]
      /\ claims' = [claims EXCEPT ![c] = <<>>] /\ open' = [open EXCEPT ![c] = {}]
      /\ UNCHANGED <<job, claimed, guarded, warned>>
  BY DEF Kill
<1>2. Typed' /\ Others(c)
  BY <1>1 DEF CliInv, Typed, Others, Ending
<1>3. Exclusive'
  BY <1>1, FewerClaims DEF CliInv
<1>4. step'[c] = "gone" /\ code'[c] = "killed" /\ open'[c] = {}
  BY <1>1 DEF CliInv, Typed
<1>5. PerCommand(c)'
  BY <1>4 DEF PerCommand, Claiming, Announcing, Emptied, Early, Late, Ending
<1> QED
  BY <1>2, <1>3, <1>5, OneMoves

LEMMA CliInvStep ==
    ASSUME CliInv, [CliNext]_cliVars
    PROVE  CliInv'
<1>1. ASSUME NEW c \in Commands,
             \/ Advance(c) \/ StopCommand(c)
             \/ ClaimDevice(c) \/ ClaimRefused(c) \/ ClaimDegraded(c) \/ ClaimDone(c)
             \/ Evaluate(c) \/ Close(c) \/ Exit(c) \/ Kill(c)
      PROVE  CliInv'
  BY <1>1, AdvanceStep, StopStep, ClaimDeviceStep, ClaimRefusedStep, ClaimDegradedStep,
     ClaimDoneStep, EvaluateStep, CloseStep, ExitStep, KillStep
<1>2. CASE UNCHANGED cliVars
  <2>1. Typed' /\ Exclusive'
    BY <1>2 DEF cliVars, CliInv, Typed, Exclusive
  <2>2. ASSUME NEW c \in Commands PROVE PerCommand(c)'
    <3>1. PerCommand(c)
      BY DEF CliInv
    <3> QED
      BY <1>2, <3>1 DEF cliVars, PerCommand, Claiming, Prefix, Covers, Announcing,
                        Announced, Emptied
  <2> QED
    BY <2>1, <2>2 DEF CliInv
<1> QED
  BY <1>1, <1>2 DEF CliNext

----------------------------------------------------------------------------
LEMMA InvSaysOneDriver == CliInv => OneDriverPerRig
<1> SUFFICES ASSUME CliInv, NEW c \in Commands, NEW d \in Commands, c # d,
                    "embodiment" \in open[c], "embodiment" \in open[d],
                    claimed[c] = "held", claimed[d] = "held",
                    NEW k \in DOMAIN job[c].devices, NEW m \in DOMAIN job[d].devices
             PROVE  job[c].devices[k] # job[d].devices[m]
  BY DEF OneDriverPerRig
<1>1. Covers(c) /\ Covers(d)
  BY DEF CliInv, PerCommand, Claiming
<1> QED
  BY <1>1 DEF CliInv, Exclusive, Covers

LEMMA InvSaysLeft == CliInv => LeavesNothingOpen /\ NeverSilentlyUnguarded
<1> SUFFICES ASSUME CliInv, NEW c \in Commands
             PROVE  /\ step[c] = "gone" /\ code[c] # "killed" =>
                         /\ open[c] = {} /\ claims[c] = <<>>
                         /\ code[c] \in {"0", "1"} => guarded[c] # {} \/ warned[c]
                    /\ step[c] = "eval" /\ ~({"clamp", "delta-limit"} \subseteq guarded[c])
                         => warned[c]
  BY DEF LeavesNothingOpen, NeverSilentlyUnguarded
<1>1. ~Warns(job[c]) => /\ GuardsOf(job[c]) # {}
                        /\ {"clamp", "delta-limit"} \subseteq GuardsOf(job[c])
  BY DEF Warns, GuardsOf, DefaultGuards
<1>2. code[c] \in {"0", "1"} \/ step[c] = "eval" => Announced(c)
  BY DEF CliInv, PerCommand, Announcing, Late
<1>3. code[c] \in {"0", "1"} => guarded[c] # {} \/ warned[c]
  BY <1>1, <1>2 DEF Announced
<1>4. step[c] = "eval" /\ ~({"clamp", "delta-limit"} \subseteq guarded[c]) => warned[c]
  BY <1>1, <1>2 DEF Announced
<1> QED
  BY <1>3, <1>4 DEF CliInv, PerCommand, Emptied

LEMMA CliInitial == CliInit => CliInv
<1> SUFFICES ASSUME CliInit PROVE CliInv
  OBVIOUS
<1>1. Typed
  BY DEF CliInit, Typed, Early
<1>2. Exclusive
  BY DOMAIN <<>> = {} DEF CliInit, Exclusive
<1>3. ASSUME NEW c \in Commands PROVE PerCommand(c)
  BY <1>3 DEF CliInit, PerCommand, Claiming, Announcing, Emptied, Early, Late, Ending
<1> QED
  BY <1>1, <1>2, <1>3 DEF CliInv

LEMMA CliSafe == CliInv => CliTypeOK /\ CommandsLeaveRigs
<1> SUFFICES ASSUME CliInv PROVE CliTypeOK /\ CommandsLeaveRigs
  OBVIOUS
<1>1. Typed
  BY DEF CliInv
<1>2. CliTypeOK
  <2> SUFFICES ASSUME NEW c \in Commands
               PROVE  /\ step[c] \in Stages \cup {"clean", "gone"}
                      /\ claimed[c] \in {"none", "held", "degraded"}
                      /\ \A k \in DOMAIN claims[c] : claims[c][k] \in Devices
                      /\ code[c] \in {"none", "stopped", "0", "1", "130", "raised", "killed"}
    BY DEF CliTypeOK
  <2>1. step[c] \in Stages \cup {"clean", "gone"}
    BY <1>1, StagesAre DEF Typed, Ending
  <2>2. claims[c] \in Seq(Devices)
    BY <1>1 DEF Typed
  <2>3. \A k \in DOMAIN claims[c] : claims[c][k] \in Devices
    BY <2>2, LenProperties, ElementOfSeq
  <2> QED BY <1>1, <2>1, <2>3 DEF Typed
<1> QED BY <1>2, InvSaysOneDriver, InvSaysLeft DEF CommandsLeaveRigs

\* Embodiments open at once under claims share no device, a command that was not killed
\* leaves nothing open and no device claimed whichever step stopped it, and none
\* evaluates without its guards unannounced (_run_command, _eval_set_command and
\* claim_devices), for any number of commands started, stopped and killed at any point.
THEOREM RigsAreLeft == CliSpec => []CommandsLeaveRigs
<1>1. CliInit => CliInv
  BY CliInitial
<1>2. CliInv /\ [CliNext]_cliVars => CliInv'
  BY CliInvStep
<1>3. CliInv => CommandsLeaveRigs
  BY CliSafe
<1> QED
  BY <1>1, <1>2, <1>3, PTL DEF CliSpec

----------------------------------------------------------------------------
\* The arm of the ROS plugin.  The inductive invariant, in named parts.

\* Where the arm is in which call.
RosPlaces ==
    /\ config \in RosConfigs /\ goal \in {"none", "reset", "step"}
    /\ arm \in {"idle", "connect", "setup", "preflight", "first", "service", "calling", "capture",
                "await", "assemble", "observed", "publish", "closing", "closed"}
    /\ arm \in {"connect", "setup", "preflight", "first", "service", "calling", "capture"} => goal = "reset"
    /\ arm = "publish" => goal = "step" /\ commands < MaxSteps
    /\ commands \in 0..MaxSteps
    /\ arm \in {"await", "assemble", "observed"} => goal # "none"
    /\ link \in {"down", "up", "dropped"}
    /\ clientClosed => arm = "closed"
    /\ subscribed \subseteq Topics(config)

\* The client's switches.
RosFlags ==
    /\ initialized \in BOOLEAN /\ receiver \in BOOLEAN /\ latched \in BOOLEAN
    /\ clientClosing \in BOOLEAN /\ clientClosed \in BOOLEAN

\* The call that waits is the latest, and what it was given is the answer to it.
Calling ==
    /\ requests \in 0..MaxCalls /\ awaited \in 0..MaxCalls /\ response \in 0..MaxCalls
    /\ atBridge \subseteq 1..MaxCalls
    /\ arm = "calling" => awaited = requests /\ response \in {0, requests}

Publishes(s) == {i \in DOMAIN s : s[i].op = "publish"}

\* A topic's number counts messages received, and those on their way are not among them.
Received ==
    /\ incoming \in Seq(Frames) /\ sent \in 0..MaxMessages
    /\ slots \in [AllTopics -> Nat]
    /\ \A t \in AllTopics : slots[t] + Cardinality(Publishes(incoming)) <= sent

\* What an observation has to be newer than, followed from where it is read to where the
\* observation is made.
Fresher ==
    /\ expected \in [AllTopics -> Nat] /\ floor \in [AllTopics -> Int]
    /\ seen \in [AllTopics -> Int]
    /\ \A t \in AllTopics : expected[t] <= slots[t] /\ -1 <= seen[t] /\ seen[t] <= slots[t]
    /\ arm = "capture" => \A t \in AllTopics : floor[t] <= slots[t]
    /\ goal = "reset" =>
         /\ arm = "await" => \A t \in AllTopics : floor[t] <= expected[t]
         /\ arm = "assemble" => \A t \in Topics(config) : floor[t] < slots[t]
         /\ arm = "observed" => \A t \in Topics(config) : floor[t] < seen[t]
    /\ goal = "step" =>
         /\ arm \in {"publish", "await"} => floor["joints"] <= expected["joints"]
         /\ arm = "assemble" => floor["joints"] < slots["joints"]
         /\ arm = "observed" => floor["joints"] < seen["joints"]

RosInv == RosPlaces /\ RosFlags /\ Calling /\ Received /\ Fresher

\* Which call of the embodiment runs, and what is subscribed.
LEMMA RosPlacesStep == RosPlaces /\ [RNext]_rosVars => RosPlaces'
<1> SUFFICES ASSUME RosPlaces, [RNext]_rosVars PROVE RosPlaces'
  OBVIOUS
<1>n. MaxSteps \in Nat
  BY RosAssumption
<1> USE <1>n DEF RosPlaces, Goes, Raises, InRun, socket, client
<1>0. CASE UNCHANGED rosVars
  BY <1>0 DEF rosVars
<1>1. CASE \E t \in AllTopics : BridgePublishes(t)
  BY <1>1 DEF BridgePublishes
<1>2. CASE \E id \in 1..MaxCalls : BridgeAnswers(id)
  BY <1>2 DEF BridgeAnswers
<1>3. CASE BridgeErrs \/ LinkDrops \/ ReceiveFails
  BY <1>3 DEF BridgeErrs, LinkDrops, ReceiveFails
<1>14. CASE Receive
  BY <1>14, Zenon DEF Receive
<1>4. CASE ResetBegins
  BY <1>4 DEF ResetBegins
<1>5. CASE Connect
  BY <1>5 DEF Connect
<1>6. CASE Setup
  BY <1>6 DEF Setup, Ready
<1>7. CASE ResetPreflight
  BY <1>7 DEF ResetPreflight, Ready, Topics
<1>8. CASE FirstMessages \/ SkipService
  BY <1>8 DEF FirstMessages, SkipService
<1>9. CASE CallService
  BY <1>9 DEF CallService, Ready
<1>10. CASE CallReturns \/ CallFails \/ CaptureSequences \/ AwaitNewer \/ WaitRaises
  BY <1>10 DEF CallReturns, CallFails, CaptureSequences, AwaitNewer, WaitRaises
<1>11. CASE Assemble \/ StepReads \/ TrialEnd
  BY <1>11 DEF Assemble, StepReads, TrialEnd
<1>12. CASE StepPublishes
  BY <1>12 DEF StepPublishes, Ready
<1>13. CASE CloseClient \/ ClientClosed
  BY <1>13 DEF CloseClient, ClientClosed
<1> QED
  BY <1>0, <1>1, <1>2, <1>3, <1>4, <1>5, <1>6, <1>7, <1>8, <1>9, <1>10, <1>11, <1>12, <1>13, <1>14 DEF RNext

\* The flags are Boolean.
LEMMA RosFlagsStep == RosFlags /\ Received /\ [RNext]_rosVars => RosFlags'
<1> SUFFICES ASSUME RosFlags, Received, [RNext]_rosVars PROVE RosFlags'
  OBVIOUS
<1> USE DEF RosFlags, Goes, Raises, InRun, socket, client
<1>0. CASE UNCHANGED rosVars
  BY <1>0, Zenon DEF rosVars
<1>1. CASE \E t \in AllTopics : BridgePublishes(t)
  BY <1>1, Zenon DEF BridgePublishes
<1>2. CASE \E id \in 1..MaxCalls : BridgeAnswers(id)
  BY <1>2, Zenon DEF BridgeAnswers
<1>3. CASE BridgeErrs \/ LinkDrops
  BY <1>3, Zenon DEF BridgeErrs, LinkDrops
<1>4. CASE Receive
  <2>1. Head(incoming) \in Frames
    BY <1>4, HeadTailProperties DEF Receive, Received
  <2>2. Head(incoming).op \in {"publish", "response", "status"}
    BY <2>1 DEF Frames
  <2> QED BY <1>4, <2>2 DEF Receive
<1>5. CASE ReceiveFails
  BY <1>5, Zenon DEF ReceiveFails
<1>6. CASE ResetBegins \/ Connect
  BY <1>6, Zenon DEF ResetBegins, Connect
<1>7. CASE Setup \/ ResetPreflight
  BY <1>7, Zenon DEF Setup, ResetPreflight
<1>8. CASE FirstMessages \/ SkipService \/ CallService
  BY <1>8, Zenon DEF FirstMessages, SkipService, CallService
<1>9. CASE CallReturns \/ CallFails \/ CaptureSequences \/ AwaitNewer \/ WaitRaises
  BY <1>9, Zenon DEF CallReturns, CallFails, CaptureSequences, AwaitNewer, WaitRaises
<1>10. CASE Assemble \/ StepReads \/ TrialEnd
  BY <1>10, Zenon DEF Assemble, StepReads, TrialEnd
<1>11. CASE StepPublishes
  BY <1>11, Zenon DEF StepPublishes
<1>12. CASE CloseClient \/ ClientClosed
  BY <1>12, Zenon DEF CloseClient, ClientClosed
<1> QED
  BY <1>0, <1>1, <1>2, <1>3, <1>4, <1>5, <1>6, <1>7, <1>8, <1>9, <1>10, <1>11, <1>12 DEF RNext

\* A response is given to the call that waits only when it answers it.
LEMMA CallingStep == Calling /\ Received /\ [RNext]_rosVars => Calling'
<1> SUFFICES ASSUME Calling, Received, [RNext]_rosVars PROVE Calling'
  OBVIOUS
<1>m. MaxCalls \in Nat
  BY RosAssumption
<1> USE <1>m DEF Calling, Goes, Raises, InRun, socket, client
<1>0. CASE UNCHANGED rosVars
  BY <1>0 DEF rosVars
<1>1. CASE \E t \in AllTopics : BridgePublishes(t)
  BY <1>1 DEF BridgePublishes
<1>2. CASE \E id \in 1..MaxCalls : BridgeAnswers(id)
  BY <1>2 DEF BridgeAnswers
<1>3. CASE BridgeErrs \/ LinkDrops \/ ReceiveFails
  BY <1>3 DEF BridgeErrs, LinkDrops, ReceiveFails
<1>4. CASE Receive
  <2>1. Head(incoming) \in Frames
    BY <1>4, HeadTailProperties DEF Receive, Received
  <2>2. response' \in {response, Respond(Head(incoming).id)}
    BY <1>4, <2>1 DEF Receive, Frames
  <2> QED BY <1>4, <2>1, <2>2 DEF Receive, Respond, Frames
<1>6. CASE ResetBegins \/ Connect
  BY <1>6 DEF ResetBegins, Connect
<1>7. CASE Setup \/ ResetPreflight
  BY <1>7 DEF Setup, ResetPreflight
<1>8. CASE FirstMessages \/ SkipService
  BY <1>8 DEF FirstMessages, SkipService
<1>13. CASE CallService
  <2>1. \/ /\ requests < MaxCalls /\ requests' = requests + 1 /\ awaited' = requests + 1
           /\ response' = 0 /\ atBridge' = atBridge \cup {requests + 1}
        \/ arm' # "calling" /\ UNCHANGED <<requests, awaited, response, atBridge>>
    BY <1>13, Zenon DEF CallService
  <2>2. CASE /\ requests < MaxCalls /\ requests' = requests + 1 /\ awaited' = requests + 1
             /\ response' = 0 /\ atBridge' = atBridge \cup {requests + 1}
    <3>1. requests' \in 1..MaxCalls
      BY <2>2
    <3>2. response' = 0 /\ awaited' = requests' /\ atBridge' \subseteq 1..MaxCalls
      BY <2>2, <3>1
    <3>3. requests' \in 0..MaxCalls /\ 0 \in 0..MaxCalls
      BY <3>1
    <3> QED BY <3>2, <3>3, Zenon
  <2> QED BY <2>1, <2>2
<1>9. CASE CallReturns \/ CallFails \/ CaptureSequences \/ AwaitNewer \/ WaitRaises
  <2>1. CASE CallReturns
    BY <2>1 DEF CallReturns
  <2>2. CASE CallFails
    BY <2>2 DEF CallFails
  <2>3. CASE CaptureSequences \/ AwaitNewer \/ WaitRaises
    BY <2>3 DEF CaptureSequences, AwaitNewer, WaitRaises
  <2> QED BY <1>9, <2>1, <2>2, <2>3
<1>10. CASE Assemble \/ StepReads \/ TrialEnd
  BY <1>10 DEF Assemble, StepReads, TrialEnd
<1>11. CASE StepPublishes
  BY <1>11 DEF StepPublishes
<1>12. CASE CloseClient \/ ClientClosed
  BY <1>12 DEF CloseClient, ClientClosed
<1> QED
  BY <1>0, <1>1, <1>2, <1>3, <1>4, <1>6, <1>7, <1>8, <1>9, <1>10, <1>11, <1>12, <1>13 DEF RNext

\* A frame more, and a frame less.
LEMMA PublishesAppend ==
    ASSUME NEW s \in Seq(Frames), NEW m \in Frames
    PROVE  /\ Cardinality(Publishes(s)) \in Nat
           /\ Cardinality(Publishes(Append(s, m))) =
                Cardinality(Publishes(s)) + (IF m.op = "publish" THEN 1 ELSE 0)
<1> DEFINE n == Len(s) + 1
           P == Publishes(s)
<1>1. DOMAIN s = 1..Len(s) /\ Len(s) \in Nat
  BY LenProperties
<1>2. DOMAIN Append(s, m) = 1..n /\ Append(s, m)[n] = m /\ \A i \in 1..Len(s) : Append(s, m)[i] = s[i]
  BY <1>1, AppendProperties
<1>3. IsFiniteSet(1..Len(s)) /\ P \subseteq 1..Len(s) /\ n \notin P
  <2>1. P \subseteq 1..Len(s)
    BY <1>1 DEF Publishes
  <2>2. n \notin 1..Len(s)
    BY <1>1
  <2>3. IsFiniteSet(1..Len(s))
    BY <1>1, FS_Interval
  <2> QED BY <2>1, <2>2, <2>3
<1>4. IsFiniteSet(P)
  BY <1>3, FS_Subset
<1>5. Publishes(Append(s, m)) = (IF m.op = "publish" THEN P \cup {n} ELSE P)
  BY <1>1, <1>2 DEF Publishes
<1> HIDE DEF P, n
<1>6. Cardinality(P) \in Nat /\ Cardinality(P \cup {n}) = Cardinality(P) + 1
  BY <1>3, <1>4, FS_CardinalityType, FS_AddElement
<1> QED BY <1>5, <1>6 DEF P

\* The frame that is taken off the wire.
LEMMA PublishesTail ==
    ASSUME NEW s \in Seq(Frames), s # <<>>
    PROVE  Cardinality(Publishes(s)) =
             Cardinality(Publishes(Tail(s))) + (IF Head(s).op = "publish" THEN 1 ELSE 0)
<1> DEFINE A == Publishes(Tail(s))
           B == Publishes(s) \ {1}
           shift == [i \in A |-> i + 1]
<1>1. /\ DOMAIN s = 1..Len(s) /\ Len(s) \in Nat /\ Len(s) > 0
      /\ Head(s) = s[1]
  BY LenProperties, EmptySeq, HeadTailProperties
<1>2. /\ DOMAIN Tail(s) = 1..(Len(s) - 1)
      /\ \A i \in 1..(Len(s) - 1) : Tail(s)[i] = s[i + 1]
  BY <1>1, HeadTailProperties, LenProperties
<1>3. IsFiniteSet(A) /\ IsFiniteSet(B)
  <2>1. IsFiniteSet(1..Len(s)) /\ IsFiniteSet(1..(Len(s) - 1))
    BY <1>1, FS_Interval
  <2>2. A \subseteq 1..(Len(s) - 1) /\ B \subseteq 1..Len(s)
    BY <1>1, <1>2 DEF Publishes
  <2> HIDE DEF A, B
  <2> QED BY <2>1, <2>2, FS_Subset
<1>4. shift \in Bijection(A, B)
  <2>1. \A i \in A : i + 1 \in B /\ i \in Nat
    BY <1>1, <1>2 DEF Publishes
  <2>2. ASSUME NEW m \in B PROVE \E j \in A : shift[j] = m
    <3>1. m \in 2..Len(s) /\ s[m].op = "publish"
      BY <1>1 DEF Publishes
    <3>2. m - 1 \in A /\ (m - 1) + 1 = m
      BY <1>1, <1>2, <3>1 DEF Publishes
    <3> QED BY <3>2
  <2>3. \A i, j \in A : shift[i] = shift[j] => i = j
    BY <1>2 DEF Publishes
  <2> HIDE DEF A, B
  <2>4. shift \in [A -> B]
    BY <2>1
  <2> HIDE DEF shift
  <2> QED BY <2>2, <2>3, <2>4 DEF Bijection, Injection, IsInjective, Surjection
<1>5. Publishes(s) = (IF Head(s).op = "publish" THEN B \cup {1} ELSE B) /\ 1 \notin B
  BY <1>1 DEF Publishes
<1> HIDE DEF A, B, shift
<1>8. ExistsBijection(A, B)
  BY <1>4 DEF ExistsBijection
<1>6. Cardinality(A) = Cardinality(B)
  BY <1>3, <1>8, FS_Bijection
<1>7. Cardinality(B) \in Nat /\ Cardinality(B \cup {1}) = Cardinality(B) + 1
  BY <1>3, <1>5, FS_CardinalityType, FS_AddElement
<1> QED BY <1>5, <1>6, <1>7 DEF A

\* Every frame counted as received or on its way was sent.
LEMMA ReceivedStep == Received /\ Calling /\ RosPlaces /\ [RNext]_rosVars => Received'
<1> SUFFICES ASSUME Received, Calling, RosPlaces, [RNext]_rosVars PROVE Received'
  OBVIOUS
<1>n. MaxMessages \in Nat /\ MaxCalls \in Nat /\ MaxSteps \in Nat
  BY RosAssumption
<1>c. Cardinality(Publishes(incoming)) \in Nat
  <2>1. incoming \in Seq(Frames)
    BY DEF Received
  <2>2. DOMAIN incoming = 1..Len(incoming) /\ Len(incoming) \in Nat
    BY <2>1, LenProperties
  <2>3. IsFiniteSet(1..Len(incoming)) /\ Publishes(incoming) \subseteq 1..Len(incoming)
    BY <2>2, FS_Interval DEF Publishes
  <2> QED BY <2>3, FS_Subset, FS_CardinalityType
<1>p. ASSUME NEW m \in Frames, incoming' = Append(incoming, m), UNCHANGED slots,
             sent' = (IF m.op = "response" THEN sent ELSE sent + 1), sent' \in 0..MaxMessages
      PROVE  Received'
  <2>1. Cardinality(Publishes(incoming')) =
          Cardinality(Publishes(incoming)) + (IF m.op = "publish" THEN 1 ELSE 0)
    BY <1>p, PublishesAppend DEF Received
  <2>2. incoming' \in Seq(Frames)
    BY <1>p, AppendProperties DEF Received
  <2>3. sent \in Nat /\ \A t \in AllTopics : slots[t] \in Nat
    BY DEF Received
  <2> DEFINE k == Cardinality(Publishes(incoming))
             l == Cardinality(Publishes(incoming'))
  <2>4. k + (sent' - sent) >= l /\ l \in Nat
    BY <1>p, <1>c, <2>1, <2>3
  <2>5. \A t \in AllTopics : slots[t] + k <= sent
    BY DEF Received
  <2> HIDE DEF k, l
  <2>6. \A t \in AllTopics : slots[t] + l <= sent'
    BY <1>p, <1>c, <2>3, <2>4, <2>5 DEF k
  <2> QED BY <1>p, <2>2, <2>6 DEF Received, l
<1> USE DEF Goes, Raises, InRun, socket, client
<1>s. ASSUME UNCHANGED <<incoming, sent, slots>> PROVE Received'
  BY <1>s DEF Received
<1>0. CASE UNCHANGED rosVars
  BY <1>0 DEF rosVars, Received
<1>1. CASE \E t \in AllTopics : BridgePublishes(t)
  <2>1. PICK t \in AllTopics : BridgePublishes(t)
    BY <1>1
  <2>2. [op |-> "publish", topic |-> t, id |-> 0] \in Frames
    BY <1>n DEF Frames
  <2>3. sent + 1 \in 0..MaxMessages
    BY <1>n, <2>1 DEF BridgePublishes, Received
  <2> QED BY <1>p, <2>1, <2>2, <2>3 DEF BridgePublishes
<1>2. CASE \E id \in 1..MaxCalls : BridgeAnswers(id)
  <2>1. PICK id \in 1..MaxCalls : BridgeAnswers(id)
    BY <1>2
  <2>2. [op |-> "response", topic |-> "none", id |-> id] \in Frames
    BY <1>n DEF Frames
  <2> QED BY <1>p, <2>1, <2>2 DEF BridgeAnswers, Received
<1>3. CASE BridgeErrs
  <2>2. [op |-> "status", topic |-> "none", id |-> 0] \in Frames
    BY <1>n DEF Frames
  <2>3. sent + 1 \in 0..MaxMessages
    BY <1>n, <1>3 DEF BridgeErrs, Received
  <2> QED BY <1>p, <1>3, <2>2, <2>3 DEF BridgeErrs
<1>4. CASE LinkDrops \/ ReceiveFails
  BY <1>4, <1>s DEF LinkDrops, ReceiveFails, Received
<1>5. CASE Receive
  <2>1. Head(incoming) \in Frames /\ Tail(incoming) \in Seq(Frames) /\ incoming # <<>>
    BY <1>5, HeadTailProperties DEF Receive, Received
  <2>2. Head(incoming).op \in {"publish", "response", "status"}
    BY <2>1 DEF Frames
  <2> DEFINE k == Cardinality(Publishes(incoming))
             l == Cardinality(Publishes(incoming'))
  <2>3. k = l + (IF Head(incoming).op = "publish" THEN 1 ELSE 0)
    BY <1>5, <2>1, PublishesTail DEF Receive, Received
  <2>4. l \in Nat
    <3>1. incoming' \in Seq(Frames)
      BY <1>5, <2>1 DEF Receive
    <3>2. DOMAIN incoming' = 1..Len(incoming') /\ Len(incoming') \in Nat
      BY <3>1, LenProperties
    <3>3. IsFiniteSet(1..Len(incoming')) /\ Publishes(incoming') \subseteq 1..Len(incoming')
      BY <3>2, FS_Interval DEF Publishes
    <3> QED BY <3>3, FS_Subset, FS_CardinalityType
  <2>5. \A t \in AllTopics : slots[t] + k <= sent /\ slots[t] \in Nat
    BY DEF Received
  <2> HIDE DEF k, l
  <2>6. CASE Head(incoming).op = "publish"
    <3>1. slots' = [slots EXCEPT ![Head(incoming).topic] = slots[Head(incoming).topic] + 1]
      BY <1>5, <2>6 DEF Receive
    <3>4. slots \in [AllTopics -> Nat]
      BY DEF Received
    <3>5. \A t \in AllTopics : slots'[t] = slots[t] \/ slots'[t] = slots[t] + 1
      BY <3>1, <3>4
    <3>6. slots' \in [AllTopics -> Nat]
      <4>1. slots' = [t \in AllTopics |-> slots'[t]]
        BY <3>1, <3>4
      <4>2. \A t \in AllTopics : slots'[t] \in Nat
        BY <3>4, <3>5
      <4> QED BY <4>1, <4>2
    <3>2. slots' \in [AllTopics -> Nat] /\ \A t \in AllTopics : slots'[t] <= slots[t] + 1
      BY <3>4, <3>5, <3>6
    <3>3. \A t \in AllTopics : slots'[t] + l <= sent
      <4> SUFFICES ASSUME NEW t \in AllTopics PROVE slots'[t] + l <= sent
        OBVIOUS
      <4>1. slots'[t] \in Nat /\ slots[t] \in Nat /\ slots'[t] <= slots[t] + 1 /\ slots[t] + k <= sent
        BY <3>2, <2>5
      <4>2. k = l + 1 /\ sent \in Nat
        BY <2>3, <2>6 DEF Received
      <4> QED BY <4>1, <4>2, <2>4
    <3> QED BY <1>5, <2>1, <3>2, <3>3 DEF Receive, Received, l
  <2>7. CASE Head(incoming).op # "publish"
    <3>1. UNCHANGED slots
      BY <1>5, <2>2, <2>7 DEF Receive
    <3>2. sent' = sent /\ incoming' = Tail(incoming)
      BY <1>5 DEF Receive
    <3>3. \A t \in AllTopics : slots'[t] + l <= sent'
      BY <2>3, <2>4, <2>5, <2>7, <3>1, <3>2
    <3>4. sent \in 0..MaxMessages /\ slots \in [AllTopics -> Nat]
      BY DEF Received
    <3> QED BY <2>1, <3>1, <3>2, <3>3, <3>4, Zenon DEF Received, l
  <2> QED BY <2>6, <2>7
<1>6. CASE ResetBegins \/ Connect
  BY <1>6, <1>s DEF ResetBegins, Connect, Received
<1>7. CASE Setup \/ ResetPreflight
  BY <1>7, <1>s, Zenon DEF Setup, ResetPreflight, Received
<1>8. CASE FirstMessages \/ SkipService \/ CallService
  BY <1>8, <1>s, Zenon DEF FirstMessages, SkipService, CallService, Received
<1>9. CASE CallReturns \/ CallFails \/ CaptureSequences \/ AwaitNewer \/ WaitRaises
  BY <1>9, <1>s, Zenon DEF CallReturns, CallFails, CaptureSequences, AwaitNewer, WaitRaises, Received
<1>10. CASE Assemble \/ TrialEnd
  BY <1>10, <1>s, Zenon DEF Assemble, TrialEnd, Received
<1>13. CASE StepReads
  BY <1>13, <1>s, Zenon DEF StepReads, Received
<1>11. CASE StepPublishes
  BY <1>11, <1>s DEF StepPublishes, Received
<1>12. CASE CloseClient \/ ClientClosed
  BY <1>12, <1>s DEF CloseClient, ClientClosed, Received
<1> QED
  BY <1>0, <1>1, <1>2, <1>3, <1>4, <1>5, <1>6, <1>7, <1>8, <1>9, <1>10, <1>11, <1>12, <1>13 DEF RNext

\* The joints are always among the topics.
LEMMA TopicsKnown ==
    RosPlaces => /\ Topics(config) \subseteq AllTopics
                 /\ "joints" \in AllTopics /\ "joints" \in Topics(config)
  BY DEF RosPlaces, Topics, AllTopics

\* A message received makes a number grow, and no other.
LEMMA SlotsGrow ==
    ASSUME Received, Fresher, Receive
    PROVE  \A t \in AllTopics : slots[t] \in Nat /\ slots'[t] \in Nat /\ slots[t] <= slots'[t]
<1>1. Head(incoming) \in Frames
  BY HeadTailProperties DEF Receive, Received
<1>2. Head(incoming).op \in {"publish", "response", "status"}
  BY <1>1 DEF Frames
<1>3. slots' = slots \/ slots' = [slots EXCEPT ![Head(incoming).topic] = slots[Head(incoming).topic] + 1]
  BY <1>2 DEF Receive
<1>4. slots \in [AllTopics -> Nat]
  BY DEF Received
<1> QED BY <1>3, <1>4

\* The sequence numbers noted before a step stay behind those of what is observed after it.
LEMMA FresherStep == Fresher /\ Received /\ RosPlaces /\ [RNext]_rosVars => Fresher'
<1> SUFFICES ASSUME Fresher, Received, RosPlaces, [RNext]_rosVars PROVE Fresher'
  OBVIOUS
<1>t. /\ Topics(config) \subseteq AllTopics /\ "joints" \in AllTopics /\ "joints" \in Topics(config)
      /\ \A t \in AllTopics : slots[t] \in Nat /\ expected[t] \in Nat /\ floor[t] \in Int /\ seen[t] \in Int
  BY TopicsKnown DEF Received, Fresher
<1>s. ASSUME UNCHANGED <<config, slots, expected, floor, seen>>,
             arm' \in {"capture", "await", "assemble", "observed", "publish"} => arm' = arm /\ goal' = goal
      PROVE  Fresher'
  BY <1>s DEF Fresher
<1> USE DEF Goes, Raises, InRun, socket, client
<1>0. CASE UNCHANGED rosVars
  BY <1>0, <1>s DEF rosVars
<1>1. CASE \E t \in AllTopics : BridgePublishes(t)
  BY <1>1, <1>s, Zenon DEF BridgePublishes
<1>2. CASE \E id \in 1..MaxCalls : BridgeAnswers(id)
  BY <1>2, <1>s, Zenon DEF BridgeAnswers
<1>3. CASE BridgeErrs \/ LinkDrops \/ ReceiveFails
  BY <1>3, <1>s, Zenon DEF BridgeErrs, LinkDrops, ReceiveFails
<1>4. CASE Receive
  <2>1. UNCHANGED <<config, arm, goal, expected, floor, seen>>
    BY <1>4 DEF Receive
  <2>2. \A t \in AllTopics : slots'[t] \in Nat /\ slots[t] <= slots'[t]
    BY <1>4, SlotsGrow
  <2>3. \A t \in AllTopics : expected[t] <= slots'[t] /\ seen[t] <= slots'[t]
    BY <1>t, <2>2 DEF Fresher
  <2>4. arm = "capture" => \A t \in AllTopics : floor[t] <= slots'[t]
    BY <1>t, <2>2 DEF Fresher
  <2>5. arm = "assemble" /\ goal = "reset" => \A t \in Topics(config) : floor[t] < slots'[t]
    BY <1>t, <2>2 DEF Fresher
  <2>6. arm = "assemble" /\ goal = "step" => floor["joints"] < slots'["joints"]
    BY <1>t, <2>2 DEF Fresher
  <2> QED BY <2>1, <2>3, <2>4, <2>5, <2>6 DEF Fresher
<1>5. CASE ResetBegins
  <2>1. arm' \in {"service", "connect"} /\ UNCHANGED <<config, slots, expected, floor>>
        /\ seen' = NoObservation
    BY <1>5 DEF ResetBegins
  <2> QED BY <1>t, <2>1 DEF Fresher, NoObservation
<1>6. CASE Connect \/ Setup \/ ResetPreflight
  BY <1>6, <1>s, Zenon DEF Connect, Setup, ResetPreflight
<1>7. CASE FirstMessages \/ CallService \/ CallFails \/ WaitRaises
  BY <1>7, <1>s, Zenon DEF FirstMessages, CallService, CallFails, WaitRaises
<1>8. CASE SkipService \/ CallReturns
  <2>1. /\ UNCHANGED <<config, slots, expected, seen>> /\ floor' = slots
        /\ arm' \in {"capture", "idle"}
    BY <1>8, Zenon DEF SkipService, CallReturns
  <2> QED BY <1>t, <2>1 DEF Fresher, Received
<1>9. CASE CaptureSequences
  <2>1. /\ UNCHANGED <<config, slots, floor, seen, goal>> /\ expected' = slots
        /\ arm = "capture" /\ arm' = "await"
    BY <1>9 DEF CaptureSequences
  <2>2. goal = "reset" /\ \A t \in AllTopics : floor[t] <= slots[t]
    BY <2>1 DEF Fresher, RosPlaces
  <2> QED BY <1>t, <2>1, <2>2 DEF Fresher, Received
<1>10. CASE AwaitNewer
  <2>1. /\ UNCHANGED <<config, slots, floor, seen, goal, expected>>
        /\ arm = "await" /\ arm' = "assemble" /\ Awaited
    BY <1>10 DEF AwaitNewer
  <2>2. goal = "reset" => \A t \in Topics(config) : floor[t] < slots[t]
    BY <1>t, <2>1 DEF Fresher, Awaited, Newer
  <2>3. goal = "step" => floor["joints"] < slots["joints"]
    BY <1>t, <2>1 DEF Fresher, Awaited
  <2> QED BY <2>1, <2>2, <2>3 DEF Fresher
<1>11. CASE Assemble
  <2>1. arm = "assemble" /\ UNCHANGED <<config, slots, expected, floor>>
    BY <1>11 DEF Assemble
  <2>2. CASE seen' = seen /\ arm' = "idle"
    BY <2>1, <2>2 DEF Fresher
  <2>3. CASE /\ seen' = [t \in AllTopics |-> IF t \in Topics(config) THEN slots[t] ELSE -1]
             /\ arm' = "observed" /\ goal' = goal
    <3>1. seen' \in [AllTopics -> Int]
          /\ \A t \in AllTopics : -1 <= seen'[t] /\ seen'[t] <= slots[t]
      BY <1>t, <2>3
    <3>2. \A t \in Topics(config) : seen'[t] = slots[t]
      BY <1>t, <2>3
    <3> QED BY <1>t, <2>1, <2>3, <3>1, <3>2 DEF Fresher
  <2> QED BY <1>11, <2>2, <2>3, Zenon DEF Assemble
<1>12. CASE StepReads
  <2>1. /\ arm = "observed" /\ UNCHANGED <<config, slots, seen>> /\ goal' = "step" /\ floor' = seen
        /\ (arm' = "idle" /\ expected' = expected) \/ (arm' = "publish" /\ expected' = slots)
    BY <1>12, Zenon DEF StepReads
  <2> QED BY <1>t, <2>1 DEF Fresher, Received
<1>13. CASE StepPublishes
  <2>1. /\ arm = "publish" /\ UNCHANGED <<config, slots, seen, floor, expected>>
        /\ (arm' = "await" /\ goal' = goal) \/ arm' = "idle"
    BY <1>13, Zenon DEF StepPublishes
  <2>2. goal = "step"
    BY <2>1 DEF RosPlaces
  <2>3. CASE arm' = "await" /\ goal' = goal
    BY <2>1, <2>2, <2>3 DEF Fresher
  <2>4. CASE arm' = "idle"
    BY <2>1, <2>4 DEF Fresher
  <2> QED BY <2>1, <2>3, <2>4
<1>14. CASE TrialEnd \/ CloseClient \/ ClientClosed
  BY <1>14, <1>s, Zenon DEF TrialEnd, CloseClient, ClientClosed
<1> QED
  BY <1>0, <1>1, <1>2, <1>3, <1>4, <1>5, <1>6, <1>7, <1>8, <1>9, <1>10, <1>11, <1>12, <1>13, <1>14 DEF RNext

\* An arm starts in its invariant,
LEMMA RosInit == RInit => RosInv
<1> SUFFICES ASSUME RInit PROVE RosInv
  OBVIOUS
<1>n. MaxMessages \in Nat /\ MaxCalls \in Nat /\ MaxSteps \in Nat
  BY RosAssumption
<1>1. RosPlaces /\ Calling
  BY <1>n DEF RInit, RosPlaces, Calling
<1>5. RosFlags
  BY Zenon DEF RInit, RosFlags
<1>2. Publishes(incoming) = {} /\ incoming \in Seq(Frames)
  BY EmptySeq DEF RInit, Publishes
<1>6. Cardinality(Publishes(incoming)) = 0
  BY <1>2, FS_EmptySet
<1>3. Received
  BY <1>n, <1>2, <1>6 DEF RInit, Received, NoSlots
<1>4. Fresher
  BY DEF RInit, Fresher, NoSlots, NoObservation
<1> QED BY <1>1, <1>3, <1>4, <1>5 DEF RosInv

\* keeps it,
LEMMA RosStep == RosInv /\ [RNext]_rosVars => RosInv'
  BY RosPlacesStep, RosFlagsStep, CallingStep, ReceivedStep, FresherStep DEF RosInv

\* and so gives every call its own response and every step an observation made after it.
LEMMA RosSafe == RosInv => RosTypeOK /\ ResponseIsItsOwn /\ ObservationIsNew
<1> SUFFICES ASSUME RosInv PROVE RosTypeOK /\ ResponseIsItsOwn /\ ObservationIsNew
  OBVIOUS
<1> USE DEF RosInv
<1>n. MaxMessages \in Nat /\ MaxCalls \in Nat /\ MaxSteps \in Nat
  BY RosAssumption
<1>1. ResponseIsItsOwn
  BY DEF ResponseIsItsOwn, Calling
<1>2. ObservationIsNew
  BY TopicsKnown DEF ObservationIsNew, Fresher, RosPlaces
<1>3. incoming \in Seq(Frames) /\ DOMAIN incoming = 1..Len(incoming) /\ Len(incoming) \in Nat
  BY LenProperties DEF Received
<1>4. \A i \in DOMAIN incoming : incoming[i] \in Frames
  BY <1>3, ElementOfSeq
<1>5. Cardinality(Publishes(incoming)) \in Nat
  <2> DEFINE top == Len(incoming)
  <2>1. top \in Nat /\ DOMAIN incoming = 1..top
    BY <1>3
  <2> HIDE DEF top, RosInv
  <2>2. IsFiniteSet(1..top)
    BY <2>1, FS_Interval
  <2>3. Publishes(incoming) \subseteq 1..top
    BY <2>1 DEF Publishes
  <2> QED BY <2>2, <2>3, FS_Subset, FS_CardinalityType
<1>6. \A t \in AllTopics : /\ slots[t] \in 0..MaxMessages /\ expected[t] \in 0..MaxMessages
                            /\ seen[t] \in -1..MaxMessages
  <2> SUFFICES ASSUME NEW t \in AllTopics
               PROVE  /\ slots[t] \in 0..MaxMessages /\ expected[t] \in 0..MaxMessages
                      /\ seen[t] \in -1..MaxMessages
    OBVIOUS
  <2>1. slots[t] \in Nat /\ expected[t] \in Nat /\ seen[t] \in Int /\ expected[t] <= slots[t]
        /\ -1 <= seen[t] /\ seen[t] <= slots[t]
    BY DEF Received, Fresher
  <2>2. slots[t] <= MaxMessages
    BY <1>n, <1>5, <2>1 DEF Received
  <2> QED BY <1>n, <2>1, <2>2
<1>7. /\ slots \in [AllTopics -> 0..MaxMessages] /\ expected \in [AllTopics -> 0..MaxMessages]
      /\ seen \in [AllTopics -> -1..MaxMessages]
  BY <1>6 DEF Received, Fresher
<1>8. {initialized, receiver, latched, clientClosing, clientClosed} \subseteq BOOLEAN
  BY Zenon DEF RosFlags
<1>9. {requests, awaited, response} \subseteq 0..MaxCalls
  BY DEF Calling
<1> QED BY <1>1, <1>2, <1>4, <1>7, <1>8, <1>9 DEF RosTypeOK, RosPlaces, Calling, Received

----------------------------------------------------------------------------
\* The client of the xpolicylab plugin.  The inductive invariant, in named parts.

\* Where the client is in which operation, and what it waits for.
XPlaces ==
    /\ operation \in {"none", "reset", "act", "close"}
    /\ operation = "none" => at = "idle"
    /\ operation = "reset" => at \in {"connect", "hello", "end", "begin", "trial_end", "reset"}
    /\ operation = "act" => at \in {"connect", "hello", "infer"}
    /\ operation = "close" => at \in {"trial_end", "close"}
    /\ connection \in {"none", "open", "lost"}
    /\ xClosed => operation \in {"none", "close"}
    /\ operation = "close" => xClosed
    /\ waiting.kind \in {"none", at} \cap (Paired \cup {"none"})
    /\ (waiting.kind = "none" => waiting = NoFrame)
    /\ XReleased

\* A frame says which trial it is of; only a server that has reset a trial says "reset".
XFrame == [kind : Kinds \cup {"none", "error", "other"}, id : 0..XRequests, trial : 0..XTrials, step : Nat]
Honest(f, n, w) == 1 <= f.id /\ f.id <= n /\ (f.id = w.id => f.trial = w.trial)

XFrames ==
    /\ inbox \in Seq(XFrame) /\ outbox \in Seq(XFrame) /\ waiting \in XFrame
    /\ requestIds \in 0..XRequests /\ waiting.id <= requestIds
    /\ \A i \in DOMAIN inbox : Honest(inbox[i], requestIds, waiting)
    /\ \A i \in DOMAIN outbox : Honest(outbox[i], requestIds, waiting) /\ (outbox[i].kind = "reset" => outbox[i].trial \in served)
    /\ delivered = [got |-> delivered.asked, asked |-> delivered.asked] /\ delivered.asked \in 0..XRequests

XCounts ==
    /\ trialCount \in 0..XTrials /\ openTrial \in 0..trialCount /\ endingTrial \in 0..trialCount
    /\ served \subseteq 0..XTrials /\ ended \subseteq 0..trialCount
    /\ inferStep \in Nat /\ inferred \in Nat /\ inferStep <= requestIds /\ inferred <= requestIds
    /\ waiting # NoFrame => inferStep < requestIds /\ inferred < requestIds
    /\ operation = "reset" /\ at # "reset" => trialCount < XTrials

\* The trial that is open is the newest, begun at the server and not ended there.
Bracketed ==
    /\ at \in {"begin", "reset"} \/ (operation = "reset" /\ at = "trial_end") => openTrial = 0
    /\ at = "reset" => trialCount \notin ended /\ inferStep = 0
    /\ openTrial # 0 /\ ~xClosed =>
         openTrial \in served \ ended /\ openTrial = trialCount /\ inferStep = inferred
    /\ operation = "act" => openTrial # 0
    /\ waiting.kind = "reset" => waiting.trial = trialCount
    /\ waiting.kind = "infer" => waiting.trial = openTrial /\ waiting.step = inferStep

\* The chunk returned has the layout the configuration declares.
XChunk == xConfig \in XConfigs /\ ValidX(xConfig) /\ (chunk = <<>> \/ Flattens(xConfig, chunk))

XInv == XPlaces /\ xClosed \in BOOLEAN /\ XFrames /\ XCounts /\ Bracketed /\ XChunk

\* What follows a reply, by the request it answers.
LEMMA ThenIs ==
    ASSUME XPlaces, waiting # NoFrame, Then
    PROVE  /\ waiting.kind = at
           /\ \/ /\ at = "hello" /\ UNCHANGED <<operation, policyState>>
                 /\ at' = (IF operation = "act" THEN "infer" ELSE IF openTrial # 0 THEN "end" ELSE "begin")
              \/ /\ at = "trial_end" /\ UNCHANGED <<operation, policyState>>
                 /\ \/ operation = "reset" /\ at' = "begin"
                    \/ operation = "close" /\ at' = "close"
              \/ /\ at = "reset" /\ openTrial' = trialCount /\ inferred' = 0
                 /\ operation' = "none" /\ at' = "idle"
                 /\ UNCHANGED <<endingTrial, trialCount, inferStep, xClosed>>
              \/ /\ at = "infer" /\ inferStep' = inferStep + 1 /\ inferred' = inferred + 1
                 /\ operation' = "none" /\ at' = "idle"
                 /\ UNCHANGED <<openTrial, endingTrial, trialCount, xClosed>>
<1>1. waiting.kind = at
  BY DEF XPlaces
<1>2. at \in {"hello", "trial_end", "reset", "infer"}
  BY DEF XPlaces, Paired, Kinds
<1>3. CASE at = "hello"
  BY <1>1, <1>3 DEF Then, Next1
<1>4. CASE at = "trial_end"
  BY <1>1, <1>4 DEF Then, Next1, XPlaces
<1>5. CASE at = "reset"
  BY <1>1, <1>5 DEF Then, Next1
<1>6. CASE at = "infer"
  BY <1>1, <1>6 DEF Then, Next1
<1> QED BY <1>1, <1>2, <1>3, <1>4, <1>5, <1>6

\* Which request waits in which operation; a closed policy opens nothing.
LEMMA XPlacesStep == XPlaces /\ xClosed \in BOOLEAN /\ [XNext]_xVars => XPlaces' /\ xClosed' \in BOOLEAN
<1> SUFFICES ASSUME XPlaces, xClosed \in BOOLEAN, [XNext]_xVars PROVE XPlaces' /\ xClosed' \in BOOLEAN
  OBVIOUS
<1> USE DEF linkVars, policyState
<1>k. NoFrame.kind = "none" /\ Paired = {"hello", "reset", "infer", "trial_end"}
  BY DEF NoFrame, Paired, Kinds
<1>0. CASE UNCHANGED xVars
  BY <1>0 DEF xVars, XPlaces, XReleased
<1>1. CASE Serve \/ SkipFrame
  <2>1. UNCHANGED <<operation, at, connection, xClosed, waiting>>
    BY <1>1 DEF Serve, SkipFrame
  <2> QED BY <2>1 DEF XPlaces, XReleased
<1>2. CASE ConnectionDrops
  BY <1>2 DEF ConnectionDrops, XPlaces, XReleased
<1>3. CASE ConnectX
  BY <1>k, <1>3 DEF ConnectX, Next1, XPlaces, XReleased
<1>4. CASE Send
  <2>1. /\ UNCHANGED <<operation, at, connection, xClosed>> /\ waiting'.kind = at /\ at \in Paired
    BY <1>4 DEF Send
  <2> QED BY <1>k, <2>1 DEF XPlaces, XReleased
<1>5. CASE ServerReply
  <2>1. /\ UNCHANGED connection /\ waiting' = NoFrame /\ waiting # NoFrame /\ Then
    BY <1>5 DEF ServerReply
  <2>2. xClosed' = xClosed
    BY <2>1, ThenIs
  <2> QED BY <1>k, <2>1, <2>2, ThenIs DEF XPlaces, XReleased
<1>6. CASE WsErrors
  <2>1. /\ UNCHANGED <<connection, xClosed>> /\ waiting' = NoFrame /\ waiting # NoFrame
        /\ \/ operation = "close" /\ at' = "close" /\ operation' = operation
           \/ operation # "close" /\ operation' = "none" /\ at' = "idle"
    BY <1>6 DEF WsErrors, Suppressed, Next1, RaiseX
  <2> QED BY <1>k, <2>1 DEF XPlaces, XReleased
<1>7. CASE ConnectionErrors
  <2>1. /\ UNCHANGED xClosed /\ waiting' = NoFrame /\ connection' = "none"
        /\ \/ operation = "close" /\ at' = "close" /\ operation' = operation
           \/ operation # "close" /\ operation' = "none" /\ at' = "idle"
    BY <1>7 DEF ConnectionErrors, Suppressed, Next1, RaiseX
  <2> QED BY <1>k, <2>1 DEF XPlaces, XReleased
<1>8. CASE BeginReset
  <2>1. /\ operation = "none" /\ ~xClosed /\ UNCHANGED <<xClosed, connection, waiting>> /\ operation' = "reset"
        /\ at' \in {"connect", "end", "begin"}
    BY <1>8 DEF BeginReset, Next1, Connected
  <2> QED BY <1>k, <2>1 DEF XPlaces, XReleased
<1>9. CASE EndOpenTrial
  BY <1>k, <1>9 DEF EndOpenTrial, Next1, XPlaces, XReleased
<1>10. CASE BeginTrialX
  BY <1>k, <1>10 DEF BeginTrialX, Next1, XPlaces, XReleased
<1>11. CASE BeginAct
  <2>1. /\ operation = "none" /\ ~xClosed /\ UNCHANGED <<xClosed, connection, waiting>> /\ operation' = "act"
        /\ at' \in {"connect", "infer"}
    BY <1>11 DEF BeginAct, Next1, Connected
  <2> QED BY <1>k, <2>1 DEF XPlaces, XReleased
<1>12. CASE ConversionFails
  <2>1. /\ at = "infer" /\ UNCHANGED <<xClosed, connection>> /\ operation' = "none" /\ at' = "idle"
        /\ waiting' = NoFrame
    BY <1>12, Zenon DEF ConversionFails, RaiseX
  <2> QED BY <1>k, <2>1 DEF XPlaces, XReleased
<1>13. CASE BeginClose
  <2>1. /\ operation = "none" /\ xClosed' = TRUE /\ UNCHANGED <<connection, waiting>> /\ operation' = "close"
        /\ at' \in {"trial_end", "close"}
    BY <1>13 DEF BeginClose, Next1
  <2> QED BY <1>k, <2>1 DEF XPlaces, XReleased
<1>14. CASE CloseSocket
  BY <1>k, <1>14 DEF CloseSocket, Next1, XPlaces, XReleased
<1> QED
  BY <1>0, <1>1, <1>2, <1>3, <1>4, <1>5, <1>6, <1>7, <1>8, <1>9, <1>10, <1>11, <1>12, <1>13, <1>14
     DEF XNext

\* The frame that stands for no request.
LEMMA XFrameIs == /\ NoFrame \in XFrame /\ NoFrame.id = 0 /\ NoFrame.kind = "none" /\ NoFrame.trial = 0
                  /\ XTrials \in Nat /\ XRequests \in Nat
  BY XAssumption DEF NoFrame, XFrame

\* What the request carries.
LEMMA Sent ==
    ASSUME Send, XFrames, XCounts, XPlaces
    PROVE  /\ requestIds' = requestIds + 1 /\ requestIds + 1 \in 1..XRequests
           /\ waiting' \in XFrame /\ waiting'.id = requestIds + 1 /\ waiting'.kind = at
           /\ waiting'.step = inferStep /\ waiting'.trial \in 0..trialCount
           /\ at = "reset" => waiting'.trial = trialCount
           /\ at = "trial_end" /\ operation = "reset" => waiting'.trial = endingTrial
           /\ at = "infer" => waiting'.trial = openTrial
           /\ inbox' = Append(inbox, waiting') /\ inbox' \in Seq(XFrame)
           /\ waiting' # NoFrame /\ at \in Paired
<1> DEFINE ofTrial == CASE at = "reset" -> trialCount
                      [] at = "trial_end" /\ operation = "reset" -> endingTrial
                      [] OTHER -> openTrial
<1>1. waiting' = [kind |-> at, id |-> requestIds + 1, trial |-> ofTrial, step |-> inferStep]
  BY DEF Send
<1>2. /\ at = "reset" => ofTrial = trialCount
      /\ at = "trial_end" /\ operation = "reset" => ofTrial = endingTrial
      /\ at = "infer" => ofTrial = openTrial
      /\ ofTrial \in {trialCount, endingTrial, openTrial}
  OBVIOUS
<1>3. ofTrial \in 0..trialCount /\ trialCount \in 0..XTrials
  BY <1>2 DEF XCounts
<1> HIDE DEF ofTrial
<1>4. requestIds' = requestIds + 1 /\ requestIds < XRequests /\ inbox' = Append(inbox, waiting')
      /\ at \in Paired
  BY DEF Send
<1>5. requestIds + 1 \in 1..XRequests
  BY <1>4, XFrameIs DEF XFrames
<1>6. ofTrial \in 0..XTrials /\ at \in Kinds /\ inferStep \in Nat
  BY <1>3, <1>4, XFrameIs DEF Paired, XCounts
<1>7. waiting' \in XFrame
  BY <1>1, <1>5, <1>6 DEF XFrame
<1>8. inbox' \in Seq(XFrame)
  BY <1>4, <1>7, AppendProperties DEF XFrames
<1>9. waiting' # NoFrame
  BY <1>1, <1>5, XFrameIs
<1> QED BY <1>1, <1>2, <1>3, <1>4, <1>5, <1>7, <1>8, <1>9

\* No frame tells of a trial other than that of its request.
LEMMA XFramesStep ==
    XFrames /\ XCounts /\ XPlaces /\ [XNext]_xVars => XFrames'
<1> SUFFICES ASSUME XFrames, XCounts, XPlaces, [XNext]_xVars PROVE XFrames'
  OBVIOUS
<1> USE DEF linkVars, policyState
<1>k. /\ inbox \in Seq(XFrame) /\ outbox \in Seq(XFrame) /\ waiting \in XFrame
      /\ requestIds \in 0..XRequests /\ waiting.id <= requestIds
      /\ DOMAIN inbox = 1..Len(inbox) /\ Len(inbox) \in Nat
      /\ DOMAIN outbox = 1..Len(outbox) /\ Len(outbox) \in Nat
  BY LenProperties DEF XFrames
<1>e. <<>> \in Seq(XFrame) /\ DOMAIN <<>> = {}
  BY EmptySeq
\* Frames are only lost, and the request ends or goes on.
<1>s. ASSUME UNCHANGED <<requestIds, delivered>>, served' = served, waiting' \in {waiting, NoFrame},
             inbox' \in {inbox, <<>>}, outbox' \in {outbox, <<>>} \/ (outbox # <<>> /\ outbox' = Tail(outbox))
      PROVE  XFrames'
  <2>1. /\ inbox' \in Seq(XFrame) /\ \A i \in DOMAIN inbox' : \E j \in DOMAIN inbox : inbox'[i] = inbox[j]
    BY <1>s, <1>k, <1>e
  <2>2. /\ outbox' \in Seq(XFrame) /\ \A i \in DOMAIN outbox' : \E j \in DOMAIN outbox : outbox'[i] = outbox[j]
    <3>1. CASE outbox' \in {outbox, <<>>}
      BY <3>1, <1>k, <1>e
    <3>2. CASE outbox # <<>> /\ outbox' = Tail(outbox)
      <4>1. /\ outbox' \in Seq(XFrame) /\ Len(outbox') = Len(outbox) - 1
            /\ \A i \in 1..Len(outbox') : outbox'[i] = outbox[i + 1]
        BY <1>k, <3>2, HeadTailProperties
      <4>2. DOMAIN outbox' = 1..Len(outbox')
        BY <4>1, LenProperties
      <4>3. \A i \in 1..Len(outbox') : i + 1 \in DOMAIN outbox
        BY <1>k, <4>1
      <4> QED BY <4>1, <4>2, <4>3
    <3> QED BY <1>s, <3>1, <3>2
  <2>3. waiting' \in XFrame /\ waiting'.id <= requestIds
    BY <1>s, <1>k, XFrameIs
  <2>4. \A f : Honest(f, requestIds, waiting) => Honest(f, requestIds', waiting')
    BY <1>s, XFrameIs DEF Honest
  <2>5. \A i \in DOMAIN inbox' : Honest(inbox'[i], requestIds', waiting')
    BY <2>1, <2>4 DEF XFrames
  <2>6. \A i \in DOMAIN outbox' : Honest(outbox'[i], requestIds', waiting') /\ (outbox'[i].kind = "reset" => outbox'[i].trial \in served)
    BY <2>2, <2>4 DEF XFrames
  <2> QED BY <1>s, <2>1, <2>2, <2>3, <2>5, <2>6 DEF XFrames
<1>0. CASE UNCHANGED xVars
  BY <1>0, <1>s DEF xVars
<1>1. CASE Serve
  <2>1. inbox # <<>> /\ inbox' = Tail(inbox) /\ UNCHANGED <<waiting, delivered, requestIds>>
    BY <1>1 DEF Serve
  <2>2. /\ Head(inbox) = inbox[1] /\ inbox' \in Seq(XFrame) /\ Len(inbox') = Len(inbox) - 1
        /\ \A i \in 1..Len(inbox') : inbox'[i] = inbox[i + 1]
    BY <1>k, <2>1, HeadTailProperties
  <2>3. DOMAIN inbox' = 1..Len(inbox') /\ 1 \in DOMAIN inbox
    BY <1>k, <2>1, <2>2, LenProperties, EmptySeq
  <2>4. \A f : Honest(f, requestIds, waiting) <=> Honest(f, requestIds', waiting')
    BY <2>1 DEF Honest
  <2>5. \A i \in DOMAIN inbox' : Honest(inbox'[i], requestIds', waiting')
    <3>1. \A i \in 1..Len(inbox') : i + 1 \in DOMAIN inbox
      BY <1>k, <2>2
    <3> QED BY <2>2, <2>3, <2>4, <3>1 DEF XFrames
  <2> DEFINE f == Head(inbox)
  <2>6. f \in XFrame /\ Honest(f, requestIds, waiting)
    BY <1>k, <2>2, <2>3 DEF XFrames
  <2>7. PICK kind \in {f.kind, "error", "other", "nothing"} :
             /\ outbox' = IF kind = "nothing" THEN outbox ELSE Append(outbox, [f EXCEPT !.kind = kind])
             /\ served' = IF kind = "reset" THEN served \cup {f.trial} ELSE served
    BY <1>1 DEF Serve
  <2> DEFINE g == [f EXCEPT !.kind = kind]
  <2>8. kind # "nothing" => g \in XFrame /\ Honest(g, requestIds, waiting) /\ g.kind = kind /\ g.trial = f.trial
    BY <2>6 DEF XFrame, Honest
  <2> HIDE DEF g, f
  <2>9. CASE kind = "nothing"
    BY <2>1, <2>2, <2>4, <2>5, <2>7, <2>9, <1>k DEF XFrames
  <2>10. CASE kind # "nothing"
    <3>1. outbox' = Append(outbox, g)
      BY <2>7, <2>10 DEF g
    <3>2. outbox' \in Seq(XFrame) /\ DOMAIN outbox' = 1..(Len(outbox) + 1)
          /\ outbox'[Len(outbox) + 1] = g /\ \A i \in 1..Len(outbox) : outbox'[i] = outbox[i]
      BY <1>k, <2>8, <2>10, <3>1, AppendProperties, LenProperties
    <3>3. served \subseteq served' /\ (kind = "reset" => f.trial \in served')
      BY <2>7
    <3>4. \A i \in DOMAIN outbox' : Honest(outbox'[i], requestIds', waiting') /\ (outbox'[i].kind = "reset" => outbox'[i].trial \in served')
      <4> SUFFICES ASSUME NEW i \in DOMAIN outbox'
                   PROVE  Honest(outbox'[i], requestIds', waiting') /\ (outbox'[i].kind = "reset" => outbox'[i].trial \in served')
        OBVIOUS
      <4>1. CASE i = Len(outbox) + 1
        BY <2>4, <2>8, <2>10, <3>2, <3>3, <4>1
      <4>2. CASE i # Len(outbox) + 1
        <5>1. i \in DOMAIN outbox /\ outbox'[i] = outbox[i]
          BY <1>k, <3>2, <4>2
        <5> QED BY <2>4, <3>3, <5>1 DEF XFrames
      <4> QED BY <4>1, <4>2
    <3> QED BY <2>1, <2>2, <2>5, <3>2, <3>4, <1>k DEF XFrames
  <2> QED BY <2>9, <2>10
<1>2. CASE ConnectionDrops
  BY <1>2, <1>s DEF ConnectionDrops
<1>3. CASE ConnectX
  BY <1>3, <1>s DEF ConnectX
<1>4. CASE Send
  <2>1. UNCHANGED <<delivered, outbox, served>>
    BY <1>4 DEF Send
  <2>2. \A f \in XFrame : Honest(f, requestIds, waiting) => Honest(f, requestIds', waiting')
    <3>1. requestIds \in Nat /\ requestIds' = requestIds + 1 /\ waiting'.id = requestIds + 1
      BY <1>4, <1>k, Sent
    <3>2. \A f \in XFrame : f.id \in Nat
      BY DEF XFrame
    <3> QED BY <3>1, <3>2 DEF Honest
  <2>3. \A i \in DOMAIN outbox : Honest(outbox[i], requestIds', waiting')
    BY <1>k, <2>2 DEF XFrames
  <2>4. Honest(waiting', requestIds', waiting')
    BY <1>4, <1>k, Sent DEF Honest
  <2>5. \A i \in DOMAIN inbox' : Honest(inbox'[i], requestIds', waiting')
    <3>1. DOMAIN inbox' = 1..(Len(inbox) + 1) /\ inbox'[Len(inbox) + 1] = waiting'
          /\ \A i \in 1..Len(inbox) : inbox'[i] = inbox[i]
      BY <1>4, <1>k, Sent, AppendProperties, LenProperties
    <3> SUFFICES ASSUME NEW i \in DOMAIN inbox' PROVE Honest(inbox'[i], requestIds', waiting')
      OBVIOUS
    <3>2. CASE i = Len(inbox) + 1
      BY <2>4, <3>1, <3>2
    <3>3. CASE i # Len(inbox) + 1
      <4>1. i \in DOMAIN inbox /\ inbox'[i] = inbox[i]
        BY <1>k, <3>1, <3>3
      <4> QED BY <1>k, <2>2, <4>1 DEF XFrames
    <3> QED BY <3>2, <3>3
  <2>6. inbox' \in Seq(XFrame) /\ waiting' \in XFrame /\ requestIds' \in 0..XRequests /\ waiting'.id <= requestIds'
    BY <1>4, Sent
  <2> QED BY <2>1, <2>3, <2>5, <2>6 DEF XFrames
<1>5. CASE ServerReply
  <2>1. /\ waiting # NoFrame /\ outbox # <<>> /\ Head(outbox).id = waiting.id
        /\ outbox' = Tail(outbox) /\ waiting' = NoFrame
        /\ delivered' = [got |-> Head(outbox).id, asked |-> waiting.id]
        /\ UNCHANGED <<requestIds, inbox, served>>
    BY <1>5 DEF ServerReply, Matches
  <2>2. /\ outbox' \in Seq(XFrame) /\ Len(outbox') = Len(outbox) - 1
        /\ \A i \in 1..Len(outbox') : outbox'[i] = outbox[i + 1]
    BY <1>k, <2>1, HeadTailProperties
  <2>3. DOMAIN outbox' = 1..Len(outbox') /\ \A i \in 1..Len(outbox') : i + 1 \in DOMAIN outbox
    BY <1>k, <2>2, LenProperties
  <2>4. \A f : Honest(f, requestIds, waiting) => Honest(f, requestIds', waiting')
    BY <2>1, XFrameIs DEF Honest
  <2>5. \A i \in DOMAIN inbox' : Honest(inbox'[i], requestIds', waiting')
    BY <2>1, <2>4 DEF XFrames
  <2>6. \A i \in DOMAIN outbox' : Honest(outbox'[i], requestIds', waiting') /\ (outbox'[i].kind = "reset" => outbox'[i].trial \in served)
    BY <2>2, <2>3, <2>4 DEF XFrames
  <2>7. delivered'.asked = waiting.id /\ delivered'.got = waiting.id /\ waiting.id \in 0..XRequests
    BY <1>k, <2>1 DEF XFrame
  <2> QED BY <1>k, <2>1, <2>2, <2>5, <2>6, <2>7, XFrameIs DEF XFrames
<1>6. CASE WsErrors
  BY <1>6, <1>s DEF WsErrors, Suppressed, RaiseX
<1>7. CASE ConnectionErrors
  BY <1>7, <1>s DEF ConnectionErrors, Suppressed, RaiseX
<1>8. CASE BeginReset \/ EndOpenTrial \/ BeginTrialX \/ BeginAct
  BY <1>8, <1>s DEF BeginReset, EndOpenTrial, BeginTrialX, BeginAct
<1>9. CASE ConversionFails
  <2>1. waiting' = NoFrame /\ UNCHANGED <<delivered, linkVars>>
    BY <1>9, Zenon DEF ConversionFails, RaiseX
  <2> QED BY <2>1, <1>s
<1>10. CASE BeginClose \/ CloseSocket
  BY <1>10, <1>s DEF BeginClose, CloseSocket
<1>11. CASE SkipFrame
  BY <1>11, <1>s DEF SkipFrame
<1> QED
  BY <1>0, <1>1, <1>2, <1>3, <1>4, <1>5, <1>6, <1>7, <1>8, <1>9, <1>10, <1>11 DEF XNext

\* Requests, trials and steps are counted within their bounds.
LEMMA XCountsStep ==
    XCounts /\ XFrames /\ XPlaces /\ [XNext]_xVars => XCounts'
<1> SUFFICES ASSUME XCounts, XFrames, XPlaces, [XNext]_xVars PROVE XCounts'
  OBVIOUS
<1> USE DEF linkVars, policyState
<1>k. /\ requestIds \in Nat /\ trialCount \in 0..XTrials /\ XTrials \in Nat
      /\ waiting.kind \in {"none", at} /\ (waiting # NoFrame => at \in Paired)
  <2>1. requestIds \in Nat /\ waiting.kind \in {"none", at} /\ (waiting # NoFrame => at \in Paired)
    BY XFrameIs DEF XFrames, XPlaces
  <2> QED BY <2>1, XFrameIs DEF XCounts
<1>p. Paired = {"hello", "reset", "infer", "trial_end"}
  BY DEF Paired, Kinds
<1>a. at \in {"end", "begin"} => operation = "reset"
  BY DEF XPlaces
\* The trials and the counters stay; the request is over, or still the one waited for.
<1>s. ASSUME UNCHANGED <<requestIds, trialCount, openTrial, endingTrial, served, ended, inferStep, inferred>>,
             waiting' \in {waiting, NoFrame},
             operation' = "reset" /\ at' # "reset" => trialCount < XTrials
      PROVE  XCounts'
  BY <1>s DEF XCounts
<1>0. CASE UNCHANGED xVars
  BY <1>0 DEF xVars, XCounts
<1>1. CASE Serve
  <2>1. /\ UNCHANGED <<requestIds, trialCount, openTrial, endingTrial, ended, inferStep, inferred, waiting, operation, at>>
        /\ served' \subseteq served \cup {Head(inbox).trial} /\ inbox # <<>>
    BY <1>1 DEF Serve
  <2>2. Head(inbox).trial \in 0..XTrials
    <3>1. Head(inbox) \in XFrame
      BY <2>1, HeadTailProperties DEF XFrames
    <3> QED BY <3>1 DEF XFrame
  <2> QED BY <2>1, <2>2 DEF XCounts
<1>2. CASE ConnectionDrops \/ SkipFrame
  <2>1. UNCHANGED <<requestIds, trialCount, openTrial, endingTrial, served, ended, inferStep, inferred, waiting, operation, at>>
    BY <1>2 DEF ConnectionDrops, SkipFrame
  <2> QED BY <2>1 DEF XCounts
<1>3. CASE ConnectX
  <2>1. /\ UNCHANGED <<requestIds, trialCount, openTrial, endingTrial, served, ended, inferStep, inferred, waiting>>
        /\ at = "connect" /\ operation' \in {operation, "none"}
    BY <1>3 DEF ConnectX
  <2> QED BY <2>1 DEF XCounts
<1>4. CASE Send
  <2>1. /\ UNCHANGED <<trialCount, openTrial, endingTrial, served, inferStep, inferred, operation, at>>
        /\ ended' \subseteq ended \cup {waiting'.trial}
    BY <1>4 DEF Send
  <2>2. requestIds' = requestIds + 1 /\ waiting'.trial \in 0..trialCount
    BY <1>4, Sent
  <2> QED BY <1>k, <2>1, <2>2 DEF XCounts
<1>5. CASE ServerReply
  <2>1. waiting # NoFrame /\ waiting' = NoFrame /\ Then /\ UNCHANGED <<requestIds, served, ended>>
    BY <1>5 DEF ServerReply
  <2>2. inferStep < requestIds /\ inferred < requestIds /\ inferStep \in Nat /\ inferred \in Nat
    BY <2>1 DEF XCounts
  <2>3. CASE UNCHANGED <<operation, policyState>>
    <3>1. operation' = "reset" => at # "reset"
      BY <2>1, <2>3, ThenIs DEF XPlaces
    <3> QED BY <2>1, <2>3, <3>1 DEF XCounts
  <2>4. CASE openTrial' = trialCount /\ inferred' = 0 /\ operation' = "none"
             /\ UNCHANGED <<endingTrial, trialCount, inferStep, xClosed>>
    BY <1>k, <2>1, <2>4 DEF XCounts
  <2>5. CASE inferStep' = inferStep + 1 /\ inferred' = inferred + 1 /\ operation' = "none"
             /\ UNCHANGED <<openTrial, endingTrial, trialCount, xClosed>>
    BY <1>k, <2>1, <2>2, <2>5 DEF XCounts
  <2> QED BY <2>1, <2>3, <2>4, <2>5, ThenIs
<1>6. CASE WsErrors
  <2>1. operation' # "reset"
    BY <1>6 DEF WsErrors, Suppressed, RaiseX
  <2> QED BY <1>6, <1>s, <2>1 DEF WsErrors, Suppressed, RaiseX
<1>7. CASE ConnectionErrors
  <2>1. operation' # "reset"
    BY <1>7 DEF ConnectionErrors, Suppressed, RaiseX
  <2> QED BY <1>7, <1>s, <2>1 DEF ConnectionErrors, Suppressed, RaiseX
<1>8. CASE BeginReset
  BY <1>8, <1>s DEF BeginReset
<1>9. CASE EndOpenTrial
  <2>1. /\ UNCHANGED <<requestIds, trialCount, served, ended, inferStep, inferred, waiting, operation>>
        /\ endingTrial' = openTrial /\ openTrial' = 0 /\ at = "end"
    BY <1>9 DEF EndOpenTrial
  <2> QED BY <1>k, <2>1 DEF XCounts
<1>10. CASE BeginTrialX
  <2>1. /\ UNCHANGED <<requestIds, openTrial, endingTrial, served, ended, inferred, waiting, operation>>
        /\ trialCount' = trialCount + 1 /\ inferStep' = 0 /\ at' = "reset" /\ at = "begin"
    BY <1>10 DEF BeginTrialX, Next1
  <2>2. trialCount < XTrials
    BY <1>a, <2>1 DEF XCounts
  <2> QED BY <1>k, <1>p, <2>1, <2>2 DEF XCounts
<1>11. CASE BeginAct \/ BeginClose
  <2>1. UNCHANGED <<requestIds, trialCount, openTrial, endingTrial, served, ended, inferStep, inferred, waiting>>
        /\ operation' # "reset"
    BY <1>11 DEF BeginAct, BeginClose
  <2> QED BY <1>s, <2>1
<1>12. CASE ConversionFails
  <2>1. waiting' = NoFrame /\ UNCHANGED <<linkVars, policyState>> /\ operation' = "none"
    BY <1>12, Zenon DEF ConversionFails, RaiseX
  <2> QED BY <1>s, <2>1
<1>13. CASE CloseSocket
  <2>1. /\ UNCHANGED <<requestIds, trialCount, endingTrial, served, ended, inferStep, inferred, waiting>>
        /\ operation' = "none" /\ openTrial' = 0
    BY <1>13 DEF CloseSocket
  <2> QED BY <1>k, <2>1 DEF XCounts
<1> QED
  BY <1>0, <1>1, <1>2, <1>3, <1>4, <1>5, <1>6, <1>7, <1>8, <1>9, <1>10, <1>11, <1>12, <1>13 DEF XNext

\* The server's open trial is the client's: it is begun, reset and ended once each.
LEMMA BracketedStep ==
    Bracketed /\ XCounts /\ XFrames /\ XPlaces /\ [XNext]_xVars => Bracketed'
<1> SUFFICES ASSUME Bracketed, XCounts, XFrames, XPlaces, [XNext]_xVars PROVE Bracketed'
  OBVIOUS
<1> USE DEF linkVars, policyState
<1>k. /\ waiting.kind \in {"none", at} /\ (waiting # NoFrame => waiting.kind = at /\ at \in Paired)
      /\ NoFrame.kind = "none" /\ (at \in {"end", "begin"} => operation = "reset")
      /\ (xClosed => operation \in {"none", "close"}) /\ (operation = "close" => xClosed)
  BY XFrameIs DEF XPlaces
<1>p. Paired = {"hello", "reset", "infer", "trial_end"}
  BY DEF Paired, Kinds
\* A call fails, or goes on to a step that asks nothing of the trials.
<1>s. ASSUME UNCHANGED <<trialCount, openTrial, xClosed, inferStep, inferred, ended>>, served \subseteq served',
             waiting' = waiting \/ waiting' = NoFrame,
             at' = at \/ at' \notin {"begin", "reset"} \/ (openTrial = 0 /\ at' = "begin"),
             at' = "trial_end" /\ operation' = "reset" => at = "trial_end" /\ operation = "reset",
             operation' = "act" => openTrial # 0
      PROVE  Bracketed'
  <2>1. at' \in {"begin", "reset"} \/ (operation' = "reset" /\ at' = "trial_end") => openTrial' = 0
    BY <1>s DEF Bracketed
  <2>2. at' = "reset" => trialCount' \notin ended' /\ inferStep' = 0
    BY <1>s DEF Bracketed
  <2>3. openTrial' # 0 /\ ~xClosed' =>
          openTrial' \in served' \ ended' /\ openTrial' = trialCount' /\ inferStep' = inferred'
    BY <1>s DEF Bracketed
  <2>4. /\ waiting'.kind = "reset" => waiting'.trial = trialCount'
        /\ waiting'.kind = "infer" => waiting'.trial = openTrial' /\ waiting'.step = inferStep'
    BY <1>s, <1>k DEF Bracketed
  <2> QED BY <1>s, <2>1, <2>2, <2>3, <2>4 DEF Bracketed
<1>0. CASE UNCHANGED xVars
  BY <1>0, <1>s DEF xVars, Bracketed
<1>1. CASE Serve
  BY <1>1, <1>s DEF Serve, Bracketed
<1>2. CASE ConnectionDrops \/ SkipFrame
  BY <1>2, <1>s DEF ConnectionDrops, SkipFrame, Bracketed
<1>3. CASE ConnectX
  <2>1. at' \in {"hello", "idle"}
    BY <1>3 DEF ConnectX, Next1
  <2> QED BY <1>3, <1>s, <2>1 DEF ConnectX, Bracketed
<1>4. CASE Send
  <2>1. /\ UNCHANGED <<trialCount, openTrial, endingTrial, xClosed, served, inferStep, inferred, operation, at>>
        /\ ended' = IF at = "trial_end" THEN ended \cup {waiting'.trial} ELSE ended
    BY <1>4 DEF Send
  <2>2. /\ waiting'.kind = at /\ waiting'.step = inferStep
        /\ (at = "reset" => waiting'.trial = trialCount) /\ (at = "infer" => waiting'.trial = openTrial)
    BY <1>4, Sent
  <2>3. at = "trial_end" => operation \in {"reset", "close"}
    BY DEF XPlaces
  <2>4. openTrial # 0 /\ ~xClosed => ended' = ended
    BY <1>k, <2>1, <2>3 DEF Bracketed
  <2> QED BY <2>1, <2>2, <2>4 DEF Bracketed
<1>5. CASE ServerReply
  <2>1. /\ waiting # NoFrame /\ waiting' = NoFrame /\ Then /\ UNCHANGED <<served, ended>>
        /\ outbox # <<>> /\ Head(outbox).id = waiting.id /\ Head(outbox).kind = waiting.kind
    BY <1>5 DEF ServerReply, Matches
  <2>2. CASE at \in {"hello", "trial_end"}
    <3>1. /\ UNCHANGED <<operation, policyState>>
          /\ at' \in {"infer", "end", "close"} \/ (openTrial = 0 /\ at' = "begin")
      <4>1. CASE at = "hello"
        BY <2>1, <4>1, ThenIs
      <4>2. CASE at = "trial_end"
        BY <2>1, <4>2, ThenIs DEF Bracketed
      <4> QED BY <2>2, <4>1, <4>2
    <3> QED BY <1>s, <2>1, <3>1 DEF Bracketed
  <2>3. CASE at = "reset"
    <3>1. /\ openTrial' = trialCount /\ inferred' = 0 /\ operation' = "none" /\ at' = "idle"
          /\ UNCHANGED <<endingTrial, trialCount, inferStep, xClosed>>
      BY <2>1, <2>3, ThenIs
    <3>2. Head(outbox) = outbox[1] /\ 1 \in DOMAIN outbox
      BY <2>1, HeadTailProperties, LenProperties, EmptySeq DEF XFrames
    <3>3. Head(outbox).trial = waiting.trial /\ Head(outbox).trial \in served
      BY <1>k, <2>1, <2>3, <3>2 DEF XFrames, Honest
    <3>4. trialCount \in served /\ trialCount \notin ended /\ inferStep = 0
      BY <1>k, <2>1, <2>3, <3>3 DEF Bracketed
    <3> QED BY <1>k, <2>1, <3>1, <3>4 DEF Bracketed
  <2>4. CASE at = "infer"
    <3>1. /\ inferStep' = inferStep + 1 /\ inferred' = inferred + 1 /\ operation' = "none" /\ at' = "idle"
          /\ UNCHANGED <<openTrial, endingTrial, trialCount, xClosed>>
      BY <2>1, <2>4, ThenIs
    <3> QED BY <1>k, <2>1, <3>1 DEF Bracketed
  <2> QED BY <2>1, <2>2, <2>3, <2>4, ThenIs
<1>6. CASE WsErrors
  <2>1. at' \in {"close", "idle"} /\ operation' # "act"
    BY <1>6 DEF WsErrors, Suppressed, RaiseX, Next1
  <2> QED BY <1>6, <1>s, <2>1 DEF WsErrors, Suppressed, RaiseX
<1>7. CASE ConnectionErrors
  <2>1. at' \in {"close", "idle"} /\ operation' # "act"
    BY <1>7 DEF ConnectionErrors, Suppressed, RaiseX, Next1
  <2> QED BY <1>7, <1>s, <2>1 DEF ConnectionErrors, Suppressed, RaiseX
<1>8. CASE BeginReset
  <2>1. at' \in {"connect", "end"} \/ (openTrial = 0 /\ at' = "begin")
    BY <1>8 DEF BeginReset, Connected, Next1
  <2> QED BY <1>8, <1>s, <2>1 DEF BeginReset
<1>9. CASE EndOpenTrial
  <2>1. /\ UNCHANGED <<trialCount, served, ended, inferStep, inferred, waiting, operation, xClosed>>
        /\ openTrial' = 0 /\ at = "end" /\ at' = "trial_end"
    BY <1>9 DEF EndOpenTrial, Next1
  <2> QED BY <1>k, <2>1 DEF Bracketed
<1>10. CASE BeginTrialX
  <2>1. /\ UNCHANGED <<openTrial, served, ended, inferred, waiting, operation, xClosed>>
        /\ trialCount' = trialCount + 1 /\ inferStep' = 0 /\ at' = "reset" /\ at = "begin"
    BY <1>10 DEF BeginTrialX, Next1
  <2>2. trialCount + 1 \notin ended /\ openTrial = 0
    BY <2>1, XFrameIs DEF XCounts, Bracketed
  <2> QED BY <1>k, <2>1, <2>2 DEF Bracketed
<1>11. CASE BeginAct
  <2>1. at' \in {"connect", "infer"}
    BY <1>11 DEF BeginAct, Connected, Next1
  <2> QED BY <1>11, <1>s, <2>1 DEF BeginAct
<1>12. CASE BeginClose
  <2>1. /\ UNCHANGED <<trialCount, openTrial, served, ended, inferStep, inferred, waiting>> /\ xClosed' = TRUE
        /\ operation' = "close" /\ at' \in {"trial_end", "close"}
    BY <1>12 DEF BeginClose, Next1
  <2> QED BY <1>k, <2>1 DEF Bracketed
<1>13. CASE ConversionFails
  <2>1. waiting' = NoFrame /\ UNCHANGED <<linkVars, policyState>> /\ operation' = "none" /\ at' = "idle"
    BY <1>13, Zenon DEF ConversionFails, RaiseX
  <2> QED BY <1>s, <2>1
<1>14. CASE CloseSocket
  <2>1. /\ UNCHANGED <<trialCount, served, ended, inferStep, inferred, waiting, xClosed>>
        /\ operation' = "none" /\ at' = "idle" /\ openTrial' = 0 /\ at = "close"
    BY <1>14 DEF CloseSocket, Next1
  <2> QED BY <1>k, <1>p, <2>1 DEF Bracketed
<1> QED
  BY <1>0, <1>1, <1>2, <1>3, <1>4, <1>5, <1>6, <1>7, <1>8, <1>9, <1>10, <1>11, <1>12, <1>13, <1>14 DEF XNext
\* The widths of at most four keys add up, in whatever order they are taken.
Together(w, S) == MapThenSumSet(LAMBDA k : w[k], S)

\* Summing over at most four keys is adding up their widths.
LEMMA SumOfFour ==
    ASSUME NEW a, NEW b, NEW c, NEW d, a # b, a # c, a # d, b # c, b # d, c # d,
           NEW S \in SUBSET {a, b, c, d}, NEW w, \A x \in S : w[x] \in Int
    PROVE  Together(w, S) = (IF a \in S THEN w[a] ELSE 0) + (IF b \in S THEN w[b] ELSE 0)
                            + (IF c \in S THEN w[c] ELSE 0) + (IF d \in S THEN w[d] ELSE 0)
<1> DEFINE W(x, s) == IF x \in s THEN w[x] ELSE 0
           F(s) == W(a, s) + W(b, s) + W(c, s) + W(d, s)
           One(x, s) == IF x \in s THEN 1 ELSE 0
           n(s) == One(a, s) + One(b, s) + One(c, s) + One(d, s)
           stepOf(f) == [s \in SUBSET S |-> IF s = {} THEN 0
                                          ELSE w[CHOOSE x \in s : TRUE] + f[s \ {CHOOSE x \in s : TRUE}]]
           iter == CHOOSE f : f = stepOf(f)
           G == [s \in SUBSET S |-> F(s)]
<1>1. Together(w, S) = iter[S]
  BY DEF Together, MapThenSumSet, MapThenFoldSet
<1>2. \A s \in SUBSET S : \A x \in s : /\ F(s) \in Int /\ n(s) \in 0..4 /\ F(s) = w[x] + F(s \ {x}) /\ n(s \ {x}) = n(s) - 1
  <2> SUFFICES ASSUME NEW s \in SUBSET S, NEW x \in s
               PROVE  F(s) \in Int /\ n(s) \in 0..4 /\ F(s) = w[x] + F(s \ {x}) /\ n(s \ {x}) = n(s) - 1
    OBVIOUS
  <2>1. \A y \in {a, b, c, d} : W(y, s) \in Int /\ One(y, s) \in 0..1
    OBVIOUS
  <2>2. \A y \in {a, b, c, d} : y # x => W(y, s \ {x}) = W(y, s) /\ One(y, s \ {x}) = One(y, s)
    OBVIOUS
  <2>3. W(x, s \ {x}) = 0 /\ W(x, s) = w[x] /\ One(x, s \ {x}) = 0 /\ One(x, s) = 1 /\ x \in {a, b, c, d}
    OBVIOUS
  <2> HIDE DEF W, One
  <2> QED BY <2>1, <2>2, <2>3
<1>3. F({}) = 0 /\ n({}) = 0
  OBVIOUS
<1>4. \A s \in SUBSET S : s # {} => (CHOOSE x \in s : TRUE) \in s
  OBVIOUS
<1> HIDE DEF W, F, One, n
<1>5. G = stepOf(G)
  <2>1. \A s \in SUBSET S : s # {} => F(s) = w[CHOOSE x \in s : TRUE] + G[s \ {CHOOSE x \in s : TRUE}]
    BY <1>2, <1>4
  <2> QED BY <1>3, <2>1
<1>6. iter = stepOf(iter)
  BY <1>5
<1> DEFINE h == iter
<1>7. h = stepOf(h)
  BY <1>6
<1> HIDE DEF h
<1>8. h[{}] = 0
  BY <1>7
<1>9. \A s \in SUBSET S : s # {} => \E x \in s : h[s] = w[x] + h[s \ {x}]
  BY <1>4, <1>7
<1> HIDE DEF iter, G, stepOf
<1> DEFINE P(m) == \A s \in SUBSET S : n(s) <= m => h[s] = F(s)
<1>10. \A s \in SUBSET S : s # {} => n(s) \in 1..4
  <2> SUFFICES ASSUME NEW s \in SUBSET S, s # {} PROVE n(s) \in 1..4
    OBVIOUS
  <2>1. PICK x \in s : TRUE
    OBVIOUS
  <2>2. n(s) \in 0..4 /\ n(s \ {x}) = n(s) - 1
    BY <1>2, <2>1
  <2>3. n(s \ {x}) \in 0..4
    <3>1. CASE s \ {x} = {}
      BY <1>3, <3>1
    <3>2. CASE s \ {x} # {}
      <4>1. PICK y \in s \ {x} : TRUE
        BY <3>2
      <4> QED BY <1>2, <4>1
    <3> QED BY <3>1, <3>2
  <2> QED BY <2>2, <2>3
<1>11. P(0)
  BY <1>3, <1>8, <1>10
<1>12. ASSUME NEW m \in 0..3, P(m) PROVE P(m + 1)
  <2> SUFFICES ASSUME NEW s \in SUBSET S, n(s) <= m + 1 PROVE h[s] = F(s)
    OBVIOUS
  <2>1. CASE s = {}
    BY <1>3, <1>8, <2>1
  <2>2. CASE s # {}
    <3>1. PICK x \in s : h[s] = w[x] + h[s \ {x}]
      BY <1>9, <2>2
    <3>2. n(s \ {x}) = n(s) - 1 /\ F(s) = w[x] + F(s \ {x}) /\ n(s) \in 0..4
      BY <1>2
    <3>3. h[s \ {x}] = F(s \ {x})
      BY <1>12, <3>2
    <3> QED BY <3>1, <3>2, <3>3
  <2> QED BY <2>1, <2>2
<1>13. P(4)
  <2>1. P(1)
    BY <1>11, <1>12
  <2>2. P(2)
    BY <2>1, <1>12
  <2>3. P(3)
    BY <2>2, <1>12
  <2> QED BY <2>3, <1>12
<1>14. h[S] = F(S)
  <2>1. CASE S = {}
    BY <1>3, <1>8, <2>1
  <2>2. CASE S # {}
    <3>1. n(S) <= 4
      <4>1. S \in SUBSET S /\ n(S) \in 1..4
        BY <1>10, <2>2
      <4> QED BY <4>1
    <3> QED BY <1>13, <3>1
  <2> QED BY <2>1, <2>2
<1> QED BY <1>1, <1>14 DEF h, F, W

\* The layout computed from the arms and their widths is as wide as the action space declares.
LEMMA LayoutFlattens ==
    ASSUME NEW c \in XConfigs, ValidX(c), c.keys = {}
    PROVE  Flattens(c, Layout(c))
<1> DEFINE S == ActionKeys(c)
           w == Layout(c)
           armWidth == IF c.actionType = "joint" THEN c.armDim ELSE 7
           W(x) == IF x \in S THEN w[x] ELSE 0
<1>1. c.armDim \in Int /\ c.eeDim \in Int /\ c.eeDim >= 0 /\ c.arms \in {1, 2} /\ armWidth \in Int
  BY XAssumption DEF ValidX
<1>2. S = (1..c.arms) \X (IF c.eeDim > 0 THEN {"arm", "ee"} ELSE {"arm"})
  BY DEF ActionKeys
<1>3. S \in SUBSET {<<1, "arm">>, <<1, "ee">>, <<2, "arm">>, <<2, "ee">>}
  BY <1>1, <1>2
<1>4. DOMAIN w = S /\ \A k \in S : w[k] = (IF k[2] = "ee" THEN c.eeDim ELSE armWidth) /\ w[k] \in Int
  BY <1>1 DEF Layout
<1>5. /\ W(<<1, "arm">>) = armWidth
      /\ W(<<1, "ee">>) = c.eeDim
      /\ W(<<2, "arm">>) = IF c.arms = 2 THEN armWidth ELSE 0
      /\ W(<<2, "ee">>) = IF c.arms = 2 THEN c.eeDim ELSE 0
  <2>1. /\ <<1, "arm">> \in S /\ (<<2, "arm">> \in S <=> c.arms = 2)
        /\ (<<1, "ee">> \in S <=> c.eeDim > 0) /\ (<<2, "ee">> \in S <=> c.eeDim > 0 /\ c.arms = 2)
    BY <1>1, <1>2
  <2>2. /\ \A i \in {1, 2} : <<i, "arm">> \in S => w[<<i, "arm">>] = armWidth
        /\ \A i \in {1, 2} : <<i, "ee">> \in S => w[<<i, "ee">>] = c.eeDim
    BY <1>4
  <2> HIDE DEF S, w, armWidth
  <2> QED BY <1>1, <2>1, <2>2
<1> DEFINE a == <<1, "arm">>
           b == <<1, "ee">>
           d == <<2, "arm">>
           e == <<2, "ee">>
<1>6. Together(w, S) = W(a) + W(b) + W(d) + W(e)
  <2>1. a # b /\ a # d /\ a # e /\ b # d /\ b # e /\ d # e
    OBVIOUS
  <2>2. S \in SUBSET {a, b, d, e} /\ \A x \in S : w[x] \in Int
    BY <1>3, <1>4
  <2> HIDE DEF a, b, d, e, S, w
  <2>3. Together(w, S) = (IF a \in S THEN w[a] ELSE 0) + (IF b \in S THEN w[b] ELSE 0)
                         + (IF d \in S THEN w[d] ELSE 0) + (IF e \in S THEN w[e] ELSE 0)
    BY <2>1, <2>2, SumOfFour
  <2> QED BY <2>3
<1>7. ActionDim(c) = c.arms * (armWidth + c.eeDim)
  BY DEF ActionDim, PerArm
<1> HIDE DEF W, armWidth
<1>8. W(a) + W(b) + W(d) + W(e) = c.arms * (armWidth + c.eeDim)
  <2>1. CASE c.arms = 1
    BY <1>1, <1>5, <2>1
  <2>2. CASE c.arms = 2
    BY <1>1, <1>5, <2>2
  <2> QED BY <1>1, <2>1, <2>2
<1>9. Together(w, S) = ActionDim(c)
  BY <1>6, <1>7, <1>8
<1> QED BY <1>4, <1>9, Zenon DEF Flattens, Together

\* A chunk that is passed on was checked against the layout.
LEMMA XChunkStep == XChunk /\ [XNext]_xVars => XChunk'
<1> SUFFICES ASSUME XChunk, [XNext]_xVars PROVE XChunk'
  OBVIOUS
<1>1. xConfig' = xConfig /\ (chunk' = chunk \/ \E widths : chunk' = Accepted(xConfig, widths))
  <2>1. CASE ServerReply
    BY <2>1, Zenon DEF ServerReply
  <2>2. CASE ConversionFails
    BY <2>2, Zenon DEF ConversionFails
  <2>3. CASE UNCHANGED xVars
    BY <2>3 DEF xVars
  <2> QED
    BY <2>1, <2>2, <2>3 DEF XNext, Serve, ConnectionDrops, ConnectX, Send, SkipFrame, WsErrors, ConnectionErrors,
       BeginReset, EndOpenTrial, BeginTrialX, BeginAct, BeginClose, CloseSocket
<1>2. chunk' = <<>> \/ Flattens(xConfig, chunk')
  <2>1. \A widths : Accepted(xConfig, widths) = <<>> \/ Flattens(xConfig, Accepted(xConfig, widths))
    BY Zenon DEF Accepted
  <2> QED BY <1>1, <2>1 DEF XChunk
<1> QED BY <1>1, <1>2 DEF XChunk

\* A client starts in its invariant,
LEMMA XInitial == XInit => XInv
<1> SUFFICES ASSUME XInit PROVE XInv
  OBVIOUS
<1> USE DEF XInit
<1>1. XPlaces /\ xClosed \in BOOLEAN
  BY DEF XPlaces, XReleased, NoFrame
<1>2. XFrames
  <2>1. <<>> \in Seq(XFrame) /\ DOMAIN <<>> = {}
    BY EmptySeq
  <2> QED BY <2>1, XFrameIs DEF XFrames
<1>3. XCounts /\ Bracketed
  BY XFrameIs DEF XCounts, Bracketed
<1>4. XChunk
  BY DEF XChunk
<1> QED BY <1>1, <1>2, <1>3, <1>4 DEF XInv

\* keeps it,
LEMMA XStep == XInv /\ [XNext]_xVars => XInv'
  BY XPlacesStep, XFramesStep, XCountsStep, BracketedStep, XChunkStep DEF XInv

\* and so every reply, inference and chunk is what the policy says it is.
LEMMA XSafe == XInv => XTypeOK /\ ReplyIsItsOwn /\ InferWithinTrial /\ XReleased /\ ChunkIsDeclared
<1> SUFFICES ASSUME XInv PROVE XTypeOK /\ ReplyIsItsOwn /\ InferWithinTrial /\ XReleased /\ ChunkIsDeclared
  OBVIOUS
<1>1. XPlaces /\ xClosed \in BOOLEAN /\ XFrames /\ XCounts /\ Bracketed /\ XChunk
  BY DEF XInv
<1>2. XTypeOK
  <2>1. at \in Kinds \cup {"idle", "connect", "end", "begin"}
    BY <1>1 DEF XPlaces, Kinds
  <2>2. {requestIds, waiting.id, delivered.got, delivered.asked} \subseteq 0..XRequests
    BY <1>1 DEF XFrames, XFrame
  <2>3. {openTrial, endingTrial, trialCount} \subseteq 0..XTrials /\ served \subseteq 0..XTrials
    BY <1>1, XFrameIs DEF XCounts
  <2>4. ended \subseteq 0..XTrials
    BY <1>1, XFrameIs DEF XCounts
  <2>5. {inferStep, inferred} \subseteq 0..XRequests
    BY <1>1, XFrameIs DEF XCounts, XFrames
  <2> QED BY <1>1, <2>1, <2>2, <2>3, <2>4, <2>5 DEF XTypeOK, XPlaces
<1>3. ReplyIsItsOwn
  BY <1>1 DEF XFrames, ReplyIsItsOwn
<1>4. InferWithinTrial
  <2> SUFFICES ASSUME waiting.kind = "infer"
               PROVE  /\ waiting.trial \in served \ ended /\ waiting.trial = trialCount /\ waiting.step = inferred
    BY DEF InferWithinTrial
  <2>1. at = "infer" /\ operation = "act" /\ ~xClosed
    BY <1>1 DEF XPlaces
  <2> QED BY <1>1, <2>1 DEF Bracketed
<1>5. ChunkIsDeclared
  <2>1. chunk # <<>> => MapThenSumSet(LAMBDA k : chunk[k], ActionKeys(xConfig)) = ActionDim(xConfig)
    BY <1>1, Zenon DEF XChunk, Flattens
  <2>2. xConfig.keys = {} => Flattens(xConfig, Layout(xConfig))
    BY <1>1, LayoutFlattens DEF XChunk
  <2> QED BY <2>1, <2>2 DEF ChunkIsDeclared
<1> QED BY <1>1, <1>2, <1>3, <1>4, <1>5 DEF XPlaces

----------------------------------------------------------------------------
\* The capx policy.  First what its arithmetic comes to.

\* The largest of a set that has one.
LEMMA LargestIs ==
    ASSUME NEW S \in SUBSET Int, NEW m \in S, \A x \in S : x <= m
    PROVE  Max(S) \in S /\ \A x \in S : x <= Max(S)
BY DEF Max

\* The smallest of a set that has one.
LEMMA LeastIs ==
    ASSUME NEW S \in SUBSET Int, NEW m \in S, \A x \in S : m <= x
    PROVE  Min(S) \in S /\ \A x \in S : Min(S) <= x
BY DEF Min

\* What integer division gives.
LEMMA DivisionOf ==
    ASSUME NEW a \in Int, NEW b \in Nat \ {0}
    PROVE  a \div b \in Int /\ (a \div b) * b <= a /\ a < (a \div b) * b + b
OBVIOUS

\* Enough steps, and one more would do no better.
LEMMA CeilingCovers ==
    ASSUME NEW a \in Nat, NEW b \in Nat \ {0}
    PROVE  CeilDiv(a, b) \in Int /\ a <= CeilDiv(a, b) * b
<1>1. a + b - 1 \in Int
  OBVIOUS
<1>2. (a + b - 1) \div b \in Int /\ a + b - 1 < ((a + b - 1) \div b) * b + b
  BY <1>1, DivisionOf
<1> DEFINE q == (a + b - 1) \div b
<1>3. q * b \in Int /\ q \in Int /\ a + b - 1 < q * b + b
  BY <1>2
<1> HIDE DEF q
<1>4. a <= q * b
  BY <1>3
<1> QED BY <1>3, <1>4 DEF q, CeilDiv

\* More steps of a larger size go at least as far.
LEMMA Larger ==
    ASSUME NEW q \in Int, NEW n \in Int, NEW b \in Nat, NEW c \in Nat, b <= c, q <= n, n >= 0
    PROVE  q * b <= n * c
OBVIOUS

\* Bounds in order, and a budget for every dimension.
Fit(p) == /\ {p.low, p.high} \subseteq [Dims -> Int] /\ p.budget \in [Dims -> Nat]
          /\ \A d \in Dims : p.low[d] <= p.high[d]
\* No limit is above what the guard lets a step move.
Limited(p) == p.limit \in [Dims -> Int] /\ \A d \in Dims : p.limit[d] <= p.budget[d]

\* The profile an embodiment is bound to fits its box, and asks no dimension to move faster in
\* a step than the guard lets it.
LEMMA BoundFits ==
    ASSUME NEW p \in Profiles, ValidSettings(p)
    PROVE  Fit(p) /\ Fit(Bound(p)) /\ Limited(Bound(p))
<1>1. /\ {"low", "high", "limit", "budget"} \subseteq DOMAIN p /\ p.speed \in Int /\ p.speed > 0
      /\ {p.low, p.high} \subseteq [Dims -> Int] /\ p.budget \in [Dims -> Nat]
      /\ \A d \in Dims : p.low[d] <= p.high[d]
  BY CapAssumption DEF ValidSettings
<1>2. /\ Bound(p).low = p.low /\ Bound(p).high = p.high /\ Bound(p).budget = p.budget
      /\ Bound(p).limit = [d \in Dims |-> StepLimit(p, d)]
  BY <1>1 DEF Bound
<1>3. ASSUME NEW d \in Dims PROVE StepLimit(p, d) \in Int /\ StepLimit(p, d) <= p.budget[d]
  <2> DEFINE b == p.budget[d]
             r == p.speed * (p.high[d] - p.low[d])
  <2>1. b \in Nat /\ p.high[d] - p.low[d] \in Int
    BY <1>1
  <2>2. r \in Int
    BY <1>1, <2>1
  <2> HIDE DEF b, r
  <2>3. Min({r, b}) \in Int /\ Min({r, b}) <= b
    <3>1. CASE r <= b
      BY <2>1, <2>2, <3>1, LeastIs
    <3>2. CASE b <= r
      BY <2>1, <2>2, <3>2, LeastIs
    <3> QED BY <2>1, <2>2, <3>1, <3>2
  <2>4. ASSUME NEW s \in {1, 2} PROVE (b * s) \div 2 \in Int /\ (b * s) \div 2 <= b
    BY <2>1, <2>4
  <2>5. (IF p.speed < 2 THEN p.speed ELSE 2) \in {1, 2}
    BY <1>1
  <2>6. StepLimit(p, d) = IF p.declared THEN (b * (IF p.speed < 2 THEN p.speed ELSE 2)) \div 2 ELSE Min({r, b})
    BY DEF StepLimit, b, r
  <2> QED BY <2>3, <2>4, <2>5, <2>6 DEF b
<1> QED BY <1>1, <1>2, <1>3 DEF Fit, Limited

\* A distance is not negative.
LEMMA DistanceIs ==
    ASSUME NEW from \in [Dims -> Int], NEW to \in [Dims -> Int], NEW d \in Dims
    PROVE  Distance(d, from, to) \in Nat
BY DEF Distance

\* At the steps queued, no dimension moves faster than the guard lets it.
LEMMA StepsSuffice ==
    ASSUME Fit(profile), Limited(profile), NEW from \in [Dims -> Int], NEW to \in [Dims -> Int],
           Movable(from, to), NEW d \in Dims
    PROVE  Distance(d, from, to) <= Steps(from, to) * profile.budget[d] /\ Steps(from, to) \in Int
<1> DEFINE moved == {e \in Dims : Distance(e, from, to) > 0}
           C(e) == CeilDiv(Distance(e, from, to), profile.limit[e])
           S == {1} \cup {C(e) : e \in moved}
<1>1. \A e \in moved : /\ Distance(e, from, to) \in Nat /\ profile.limit[e] \in Nat \ {0}
                       /\ C(e) \in Int /\ Distance(e, from, to) <= C(e) * profile.limit[e]
  <2> SUFFICES ASSUME NEW e \in moved
               PROVE  /\ Distance(e, from, to) \in Nat /\ profile.limit[e] \in Nat \ {0}
                      /\ C(e) \in Int /\ Distance(e, from, to) <= C(e) * profile.limit[e]
    OBVIOUS
  <2>1. Distance(e, from, to) \in Nat /\ profile.limit[e] \in Nat \ {0}
    BY DistanceIs DEF Movable, Limited
  <2> QED BY <2>1, CeilingCovers
<1> HIDE DEF C
<1>2. S \in SUBSET Int
  BY <1>1
<1>3. \E m \in S : \A x \in S : x <= m
  <2>1. CASE \A e \in moved : C(e) <= 1
    BY <1>1, <2>1
  <2>2. CASE \E e \in moved : C(e) > 1 /\ \A f \in moved : C(f) <= C(e)
    BY <1>1, <2>2
  <2>3. moved \subseteq {"arm", "grip"}
    BY DEF Dims
  <2>4. (\A e \in moved : C(e) <= 1) \/ \E e \in moved : C(e) > 1 /\ \A f \in moved : C(f) <= C(e)
    BY <1>1, <2>3
  <2> QED BY <2>1, <2>2, <2>4
<1> DEFINE n == Steps(from, to)
<1>4. n = Max(S)
  BY DEF Steps, C
<1> HIDE DEF S, n
<1>5. n \in S /\ \A x \in S : x <= n
  BY <1>2, <1>3, <1>4, LargestIs
<1>6. n \in Int /\ n >= 1 /\ \A e \in moved : C(e) <= n
  BY <1>2, <1>5 DEF S
<1>7. profile.budget[d] \in Nat /\ profile.limit[d] \in Int /\ profile.limit[d] <= profile.budget[d]
  BY DEF Fit, Limited
<1>8. CASE d \in moved
  <2> DEFINE q == C(d)
             b == profile.limit[d]
             c == profile.budget[d]
             t == Distance(d, from, to)
  <2>1. t \in Nat /\ b \in Nat /\ q \in Int /\ t <= q * b /\ c \in Nat /\ b <= c /\ q <= n
    BY <1>1, <1>6, <1>7, <1>8
  <2> HIDE DEF q, b, c, t
  <2>2. q * b <= n * c
    BY <1>6, <2>1, Larger
  <2>3. q * b \in Int /\ n * c \in Int
    BY <1>6, <2>1
  <2>4. t <= n * c
    BY <2>1, <2>2, <2>3
  <2> QED BY <1>6, <2>4 DEF t, c, n
<1>9. CASE d \notin moved
  <2>1. Distance(d, from, to) = 0
    BY <1>9, DistanceIs
  <2>2. n * profile.budget[d] \in Nat
    BY <1>6, <1>7
  <2> QED BY <1>6, <2>1, <2>2 DEF n
<1> QED BY <1>8, <1>9

\* A motion, and a place in the box.
Segments == [from : [Dims -> Int], to : [Dims -> Int], steps : Int]
Inside(p, x) == x \in [Dims -> Int] /\ \A d \in Dims : x[d] \in p.low[d]..p.high[d]

\* Moves that continue one another, inside the bounds and no faster than the guard lets them be.
Smooth(m, p) ==
    /\ m \in Seq(Segments)
    /\ \A i \in 1..Len(m) :
         /\ i > 1 => m[i].from = m[i - 1].to
         /\ \A d \in Dims : /\ Distance(d, m[i].from, m[i].to) <= m[i].steps * p.budget[d]
                            /\ m[i].to[d] \in p.low[d]..p.high[d]

Programming == {"running", "posting", "raising", "judged"}

CPlaces ==
    /\ capx \in {"unbound", "idle", "asking", "closed"} \cup Programming
    /\ IF capx = "unbound" THEN profile \in Profiles /\ ValidSettings(profile) /\ queue = <<>> /\ returned = NoChunk
                           ELSE capx # "closed" => Fit(profile) /\ Limited(profile)
    /\ capx \in Programming \cup {"asking"} => cursor \in [Dims -> Int]
    /\ raised \in BOOLEAN

\* A program that runs has been asked for; a failure is that of a program.
CCounts ==
    /\ capTrial \in 0..CapTrials /\ warmStart \in {0, capTrial}
    /\ callsUsed \in 0..CapBudget /\ codeFailures \in 0..callsUsed
    /\ capx \in Programming => codeFailures < callsUsed
    /\ returned.kind \in {"none", "motion", "hold", "error"}
    /\ returned.kind = "motion" => returned.calls >= 1

CMoves ==
    /\ Len(queue) <= CapMoves /\ Smooth(queue, profile) /\ Smooth(returned.moves, profile)
    /\ queue # <<>> => queue[Len(queue)].to = cursor

CInv == CPlaces /\ CCounts /\ CMoves

\* A chunk without motions is within every budget.
LEMMA NothingIsSmooth == \A p : Smooth(<<>>, p)
BY EmptySeq DEF Smooth

\* What the chunks without a motion are.
LEMMA ChunksAre ==
    /\ NoChunk.kind = "none" /\ NoChunk.moves = <<>>
    /\ Hold.kind = "hold" /\ Hold.moves = <<>>
    /\ [Hold EXCEPT !.kind = "error"].kind = "error" /\ [Hold EXCEPT !.kind = "error"].moves = <<>>
    /\ [Hold EXCEPT !.calls = callsUsed + 1].kind = "hold" /\ [Hold EXCEPT !.calls = callsUsed + 1].moves = <<>>
BY DEF NoChunk, Hold

\* The positions observed have their two coordinates,
LEMMA PositionsAre ==
    ASSUME Fit(profile), NEW x \in Positions(profile)
    PROVE  x \in [Dims -> Int]
BY CapAssumption DEF Fit, Positions, Dims

\* and a motion ends inside the bounds, wherever it starts.
LEMMA MotionEndsInside ==
    ASSUME Fit(profile), cursor \in [Dims -> Int], NEW d \in Dims,
           NEW x \in profile.low[d]..profile.high[d]
    PROVE  Inside(profile, MoveTo(d, x))
<1>1. \A e \in Dims : /\ profile.low[e] \in Int /\ profile.high[e] \in Int
                     /\ profile.low[e] <= profile.high[e] /\ cursor[e] \in Int
  BY DEF Fit
<1>2. x \in Int /\ profile.low[d] <= x /\ x <= profile.high[d]
  BY <1>1
<1> QED BY <1>1, <1>2 DEF Inside, MoveTo

\* Places are kept: the profile fits, and the cursor has its two coordinates.
LEMMA CPlacesStep == CPlaces /\ [CapNext]_capVars => CPlaces'
<1> SUFFICES ASSUME CPlaces, [CapNext]_capVars PROVE CPlaces'
  OBVIOUS
<1> USE DEF trialState, motion
<1>k. Programming = {"running", "posting", "raising", "judged"}
  BY DEF Programming
<1>0. CASE UNCHANGED capVars
  BY <1>0 DEF capVars, CPlaces
<1>1. CASE Bind
  <2>1. capx = "unbound" /\ profile' = Bound(profile) /\ capx' = "idle" /\ UNCHANGED raised
    BY <1>1 DEF Bind
  <2>2. Fit(profile') /\ Limited(profile')
    BY <2>1, BoundFits DEF CPlaces
  <2> QED BY <1>k, <2>1, <2>2 DEF CPlaces
<1>2. CASE CapAct
  <2>1. capx = "idle" /\ capx' = "asking" /\ profile' = profile /\ raised' = raised /\ Fit(profile)
    BY <1>2 DEF CapAct, CPlaces
  <2>2. cursor' \in Positions(profile)
    BY <1>2 DEF CapAct
  <2>3. cursor' \in [Dims -> Int]
    BY <2>1, <2>2, PositionsAre
  <2> QED BY <1>k, <2>1, <2>3 DEF CPlaces
<1>3. CASE Move
  <2>1. capx = "running" /\ UNCHANGED <<profile, capx, raised>> /\ cursor \in [Dims -> Int] /\ Fit(profile)
    BY <1>3, <1>k DEF Move, CPlaces
  <2>2. PICK d \in Dims : \E x \in profile.low[d]..profile.high[d] : cursor' = MoveTo(d, x)
    BY <1>3 DEF Move
  <2>3. cursor' \in [Dims -> Int]
    BY <2>1, <2>2, MotionEndsInside DEF Inside
  <2> QED BY <1>k, <2>1, <2>3 DEF CPlaces
<1>4. CASE CapAsk \/ CapExhausted \/ CapAskFails \/ CodeEscapes
  <2>1. UNCHANGED <<profile, cursor, raised>> /\ capx \in {"asking", "running"} /\ capx' \in {"idle", "running"}
    BY <1>4 DEF CapAsk, CapExhausted, CapAskFails, CodeEscapes, Return
  <2> QED BY <1>k, <2>1 DEF CPlaces
<1>5. CASE BeginPost \/ PerceptionAnswers \/ KinematicsAnswers \/ PostExpires \/ PostRetried
  <2>1. UNCHANGED <<profile, cursor, raised>> /\ capx \in Programming /\ capx' \in Programming
    BY <1>5, <1>k DEF BeginPost, PerceptionAnswers, KinematicsAnswers, PostExpires, PostReturns, PostRaises, PostRetried
  <2> QED BY <1>k, <2>1 DEF CPlaces
<1>6. CASE CodeEnds
  <2>1. UNCHANGED <<profile, cursor>> /\ capx \in Programming /\ capx' = "judged" /\ raised' \in BOOLEAN
    BY <1>6, <1>k DEF CodeEnds
  <2> QED BY <1>k, <2>1 DEF CPlaces
<1>7. CASE Judge
  <2>1. UNCHANGED <<profile, cursor, raised>> /\ capx = "judged" /\ capx' \in {"idle", "asking"}
    <3>1. UNCHANGED <<profile, cursor, raised>> /\ capx = "judged"
      BY <1>7 DEF Judge
    <3>2. CASE queue # <<>>
      BY <1>7, <3>1, <3>2 DEF Judge, Return
    <3>3. CASE queue = <<>> /\ raised /\ codeFailures' >= CapFailures
      BY <1>7, <3>1, <3>3 DEF Judge, Return
    <3>4. CASE queue = <<>> /\ ~(raised /\ codeFailures' >= CapFailures)
      BY <1>7, <3>1, <3>4 DEF Judge, Return
    <3> QED BY <3>1, <3>2, <3>3, <3>4
  <2> QED BY <1>k, <2>1 DEF CPlaces
<1>8. CASE CapReset
  BY <1>8, <1>k DEF CapReset, CPlaces
<1>9. CASE CapClose
  BY <1>9, <1>k DEF CapClose, CPlaces
<1>10. CASE capx = "closed" /\ UNCHANGED capVars
  BY <1>10, <1>0
<1> QED BY <1>0, <1>1, <1>2, <1>3, <1>4, <1>5, <1>6, <1>7, <1>8, <1>9, <1>10 DEF CapNext

\* What Judge leaves.
LEMMA JudgedIs ==
    ASSUME Judge
    PROVE  /\ capx = "judged" /\ UNCHANGED <<profile, capTrial, callsUsed, warmStart, cursor, raised>>
           /\ codeFailures' = IF raised THEN codeFailures + 1 ELSE 0
           /\ \/ queue # <<>> /\ queue' = <<>> /\ capx' = "idle"
                 /\ returned' = [kind |-> "motion", moves |-> queue, calls |-> callsUsed]
              \/ queue' = queue /\ capx' = "idle" /\ returned' = [Hold EXCEPT !.kind = "error"]
              \/ queue' = queue /\ capx' = "asking" /\ returned' = returned
<1>1. /\ capx = "judged" /\ UNCHANGED <<profile, capTrial, callsUsed, warmStart, cursor, raised>>
      /\ codeFailures' = IF raised THEN codeFailures + 1 ELSE 0
  BY DEF Judge
<1>2. CASE queue # <<>>
  BY <1>1, <1>2 DEF Judge, Return
<1>3. CASE queue = <<>> /\ raised /\ codeFailures' >= CapFailures
  BY <1>1, <1>3 DEF Judge, Return
<1>4. CASE queue = <<>> /\ ~(raised /\ codeFailures' >= CapFailures)
  BY <1>1, <1>4 DEF Judge, Return
<1> QED BY <1>1, <1>2, <1>3, <1>4

\* Calls, failures and steps stay within their caps, whatever a program raises.
LEMMA CCountsStep == CCounts /\ CPlaces /\ [CapNext]_capVars => CCounts'
<1> SUFFICES ASSUME CCounts, CPlaces, [CapNext]_capVars PROVE CCounts'
  OBVIOUS
<1> USE DEF trialState, motion
<1>k. /\ Programming = {"running", "posting", "raising", "judged"}
      /\ CapTrials \in Nat /\ CapBudget \in Nat
  BY CapAssumption DEF Programming
<1>0. CASE UNCHANGED capVars
  BY <1>0 DEF capVars, CCounts
<1>1. CASE Bind
  BY <1>1, <1>k DEF Bind, CCounts
<1>2. CASE CapReset
  BY <1>2, <1>k, ChunksAre DEF CapReset, CCounts
<1>3. CASE CapAct
  BY <1>3, <1>k, ChunksAre DEF CapAct, CCounts
<1>4. CASE CapExhausted \/ CapAskFails \/ CodeEscapes
  <2>1. UNCHANGED <<capTrial, warmStart, callsUsed, codeFailures>> /\ capx' = "idle"
        /\ returned' \in {Hold, [Hold EXCEPT !.kind = "error"]}
    BY <1>4 DEF CapExhausted, CapAskFails, CodeEscapes, Return
  <2> QED BY <1>k, <2>1, ChunksAre DEF CCounts
<1>5. CASE CapAsk
  <2>1. UNCHANGED <<capTrial, warmStart, codeFailures>> /\ callsUsed < CapBudget /\ callsUsed' = callsUsed + 1
        /\ returned' \in {returned, [Hold EXCEPT !.calls = callsUsed + 1]}
    BY <1>5 DEF CapAsk, Return
  <2>2. returned'.kind \in {"none", "motion", "hold", "error"} /\ (returned'.kind = "motion" => returned'.calls >= 1)
    BY <2>1, ChunksAre DEF CCounts
  <2> QED BY <1>k, <2>1, <2>2 DEF CCounts
<1>6. CASE Move \/ BeginPost \/ PerceptionAnswers \/ PostExpires \/ PostRetried \/ CodeEnds
  <2>1. UNCHANGED <<capTrial, warmStart, callsUsed, codeFailures, returned>> /\ capx \in Programming
    BY <1>6, <1>k DEF Move, BeginPost, PerceptionAnswers, PostExpires, PostReturns, PostRaises, PostRetried, CodeEnds
  <2> QED BY <1>k, <2>1 DEF CCounts
<1>7. CASE KinematicsAnswers
  <2>1. UNCHANGED <<capTrial, callsUsed, codeFailures, returned>> /\ capx \in Programming
        /\ warmStart' \in {warmStart, capTrial}
    BY <1>7, <1>k DEF KinematicsAnswers, PostReturns, PostRaises
  <2> QED BY <1>k, <2>1 DEF CCounts
<1>8. CASE Judge
  <2>1. codeFailures < callsUsed /\ callsUsed \in 0..CapBudget /\ codeFailures \in 0..callsUsed
    BY <1>8, <1>k, JudgedIs DEF CCounts
  <2>2. UNCHANGED <<capTrial, callsUsed, warmStart>> /\ codeFailures' \in {0, codeFailures + 1} /\ capx' \notin Programming
    BY <1>8, <1>k, JudgedIs
  <2>3. returned'.kind \in {"none", "motion", "hold", "error"} /\ (returned'.kind = "motion" => returned'.calls >= 1)
    <3>1. callsUsed >= 1
      BY <1>k, <2>1
    <3>2. \/ returned' = [kind |-> "motion", moves |-> queue, calls |-> callsUsed]
          \/ returned' \in {[Hold EXCEPT !.kind = "error"], returned}
      BY <1>8, JudgedIs
    <3>3. CASE returned' = [kind |-> "motion", moves |-> queue, calls |-> callsUsed]
      BY <3>1, <3>3
    <3>4. CASE returned' \in {[Hold EXCEPT !.kind = "error"], returned}
      BY <3>4, ChunksAre DEF CCounts
    <3> QED BY <3>2, <3>3, <3>4
  <2> QED BY <1>k, <2>1, <2>2, <2>3 DEF CCounts
<1>9. CASE CapClose
  BY <1>9, <1>k DEF CapClose, CCounts
<1>10. CASE capx = "closed" /\ UNCHANGED capVars
  BY <1>10, <1>0
<1> QED BY <1>0, <1>1, <1>2, <1>3, <1>4, <1>5, <1>6, <1>7, <1>8, <1>9, <1>10 DEF CapNext

\* What is queued and what was returned moves no dimension faster than the budget.
LEMMA CMovesStep == CMoves /\ CPlaces /\ [CapNext]_capVars => CMoves'
<1> SUFFICES ASSUME CMoves, CPlaces, [CapNext]_capVars PROVE CMoves'
  OBVIOUS
<1> USE DEF trialState, motion
<1>k. /\ Programming = {"running", "posting", "raising", "judged"} /\ CapMoves \in Nat
      /\ queue \in Seq(Segments) /\ Len(<<>>) = 0
  BY CapAssumption, EmptySeq DEF Programming, CMoves, Smooth
\* The queue stays or is emptied, and what is returned has no motion, or the old one.
<1>s. ASSUME profile' = profile, (queue' = queue /\ cursor' = cursor) \/ queue' = <<>>,
             returned' = returned \/ returned'.moves = <<>>
      PROVE  CMoves'
  <2>1. Smooth(queue', profile') /\ Smooth(returned'.moves, profile')
    BY <1>s, NothingIsSmooth DEF CMoves
  <2> QED BY <1>k, <1>s, <2>1 DEF CMoves
<1>0. CASE UNCHANGED capVars
  BY <1>0, <1>s DEF capVars
<1>1. CASE Bind
  <2>1. queue' = <<>> /\ returned' = NoChunk
    BY <1>1 DEF Bind, CPlaces
  <2> QED BY <1>k, <2>1, NothingIsSmooth, ChunksAre DEF CMoves
<1>2. CASE CapReset \/ CapAct
  BY <1>2, <1>s, ChunksAre DEF CapReset, CapAct
<1>4. CASE CapExhausted \/ CapAskFails \/ CodeEscapes \/ CapAsk
  <2>1. UNCHANGED <<profile, queue, cursor>>
        /\ returned' \in {returned, Hold, [Hold EXCEPT !.kind = "error"], [Hold EXCEPT !.calls = callsUsed + 1]}
    BY <1>4 DEF CapExhausted, CapAskFails, CodeEscapes, CapAsk, Return
  <2> QED BY <1>s, <2>1, ChunksAre
<1>5. CASE BeginPost \/ PerceptionAnswers \/ KinematicsAnswers \/ PostExpires \/ PostRetried \/ CodeEnds \/ CapClose
  <2>1. UNCHANGED <<profile, queue, cursor, returned>>
    BY <1>5 DEF BeginPost, PerceptionAnswers, KinematicsAnswers, PostExpires, PostRetried, CodeEnds, CapClose
  <2> QED BY <1>s, <2>1
<1>6. CASE Judge
  <2>1. CASE queue' = queue
    BY <1>6, <1>s, <2>1, JudgedIs, ChunksAre
  <2>2. CASE queue' = <<>> /\ returned' = [kind |-> "motion", moves |-> queue, calls |-> callsUsed] /\ profile' = profile
    BY <1>k, <2>2, NothingIsSmooth DEF CMoves
  <2> QED BY <1>6, <2>1, <2>2, JudgedIs
<1>7. CASE Move
  <2>1. capx = "running" /\ UNCHANGED <<profile, returned>> /\ cursor \in [Dims -> Int] /\ Len(queue) < CapMoves
        /\ Fit(profile) /\ Limited(profile)
    BY <1>7, <1>k DEF Move, CPlaces
  <2>2. PICK d \in Dims : \E x \in profile.low[d]..profile.high[d] :
          /\ cursor' = MoveTo(d, x) /\ Movable(cursor, cursor')
          /\ queue' = Append(queue, [from |-> cursor, to |-> cursor', steps |-> Steps(cursor, cursor')])
    BY <1>7 DEF Move
  <2>3. Inside(profile, cursor')
    BY <2>1, <2>2, MotionEndsInside
  <2> DEFINE g == [from |-> cursor, to |-> cursor', steps |-> Steps(cursor, cursor')]
  <2>4. g.from = cursor /\ g.to = cursor' /\ g.steps = Steps(cursor, cursor')
    OBVIOUS
  <2>5. \A e \in Dims : Distance(e, g.from, g.to) <= g.steps * profile.budget[e]
    BY <2>1, <2>2, <2>3, <2>4, StepsSuffice DEF Inside
  <2>6. g \in Segments
    <3>1. Steps(cursor, cursor') \in Int /\ cursor \in [Dims -> Int] /\ cursor' \in [Dims -> Int]
      BY <2>1, <2>2, <2>3, StepsSuffice DEF Inside
    <3> QED BY <3>1 DEF Segments
  <2> HIDE DEF g
  <2>7. /\ queue' \in Seq(Segments) /\ Len(queue') = Len(queue) + 1 /\ Len(queue) \in Nat
        /\ queue'[Len(queue) + 1] = g /\ \A i \in 1..Len(queue) : queue'[i] = queue[i]
    BY <1>k, <2>2, <2>6, AppendProperties, LenProperties DEF g
  <2>8. Smooth(queue', profile)
    <3> SUFFICES ASSUME NEW i \in 1..Len(queue')
                 PROVE  /\ i > 1 => queue'[i].from = queue'[i - 1].to
                        /\ \A e \in Dims : /\ Distance(e, queue'[i].from, queue'[i].to) <= queue'[i].steps * profile.budget[e]
                                           /\ queue'[i].to[e] \in profile.low[e]..profile.high[e]
      BY <2>7 DEF Smooth
    <3>1. CASE i = Len(queue) + 1
      <4>1. i > 1 => queue'[i - 1] = queue[Len(queue)] /\ queue # <<>>
        BY <1>k, <2>7, <3>1
      <4>2. i > 1 => queue'[i].from = queue'[i - 1].to
        BY <2>4, <2>7, <3>1, <4>1 DEF CMoves
      <4> QED BY <2>3, <2>4, <2>5, <2>7, <3>1, <4>2 DEF Inside
    <3>2. CASE i # Len(queue) + 1
      <4>1. i \in 1..Len(queue) /\ queue'[i] = queue[i] /\ (i > 1 => i - 1 \in 1..Len(queue) /\ queue'[i - 1] = queue[i - 1])
        BY <2>7, <3>2
      <4> QED BY <4>1 DEF CMoves, Smooth
    <3> QED BY <3>1, <3>2
  <2> QED BY <1>k, <2>1, <2>4, <2>7, <2>8 DEF CMoves
<1>10. CASE capx = "closed" /\ UNCHANGED capVars
  BY <1>10, <1>0
<1> QED BY <1>0, <1>1, <1>2, <1>4, <1>5, <1>6, <1>7, <1>10 DEF CapNext

\* A capx policy starts in its invariant,
LEMMA CInitial == CapInit => CInv
<1> SUFFICES ASSUME CapInit PROVE CInv
  OBVIOUS
<1>1. CPlaces
  BY DEF CapInit, CPlaces, Programming
<1>2. CCounts
  BY CapAssumption, ChunksAre DEF CapInit, CCounts, Programming
<1>3. CMoves
  BY CapAssumption, ChunksAre, NothingIsSmooth, EmptySeq DEF CapInit, CMoves
<1> QED BY <1>1, <1>2, <1>3 DEF CInv

\* keeps it,
LEMMA CStep == CInv /\ [CapNext]_capVars => CInv'
BY CPlacesStep, CCountsStep, CMovesStep DEF CInv

\* and so commands within the budget and keeps to its trial.
LEMMA CSafe == CInv => CapTypeOK /\ MotionsWithinBudget /\ CapTrialKept
<1> SUFFICES ASSUME CInv PROVE CapTypeOK /\ MotionsWithinBudget /\ CapTrialKept
  OBVIOUS
<1>1. CPlaces /\ CCounts /\ CMoves
  BY DEF CInv
<1>2. CapTypeOK
  BY <1>1, CapAssumption DEF CPlaces, CCounts, CMoves, CapTypeOK, Programming
<1>3. MotionsWithinBudget
  <2>1. \A m \in {queue, returned.moves} : Smooth(m, profile) /\ DOMAIN m = 1..Len(m)
    BY <1>1, LenProperties DEF CMoves, Smooth
  <2> QED BY <2>1 DEF MotionsWithinBudget, Smooth
<1>4. CapTrialKept
  BY <1>1, CapAssumption DEF CCounts, CapTrialKept
<1> QED BY <1>2, <1>3, <1>4

----------------------------------------------------------------------------
\* The agent's tools.  First what their arithmetic comes to.

\* Of the steps the dimensions need there is a largest, when all are in reach.
LEMMA SlowestIs ==
    ASSUME NEW steps, steps \subseteq Nat, \A s \in steps : s <= (Top + 1) * 2
    PROVE  Slowest(steps) \in Nat \ {0} /\ \A s \in steps : s <= Slowest(steps)
<1> DEFINE B == (Top + 1) * 2
           U == {n \in 1..B : \A s \in steps : s <= n}
<1>1. B \in Nat \ {0}
  BY ToolsAssumption
<1> HIDE DEF B
<1>2. B \in U
  BY <1>1 DEF B
<1>3. PICK m \in U : \A u \in U : m <= u
  <2>1. U \in SUBSET Nat
    BY <1>1
  <2>2. U # {}
    BY <1>2
  <2> HIDE DEF U
  <2> QED BY <2>1, <2>2, LeastNumber
<1>4. m = 1 \/ m \in steps
  <2> SUFFICES ASSUME m # 1, m \notin steps PROVE FALSE
    OBVIOUS
  <2>1. m \in 1..B /\ m - 1 \in 1..B /\ \A s \in steps : s <= m - 1
    BY <1>1, <1>3
  <2>2. m - 1 \in U
    BY <2>1
  <2> QED BY <1>3, <2>1, <2>2
<1>5. m \in 1..B /\ (\A s \in steps : s <= m) /\ (m = 1 \/ m \in steps)
  BY <1>3, <1>4
<1>6. \E n \in 1..(Top + 1) * 2 : (\A s \in steps : s <= n) /\ (n = 1 \/ n \in steps)
  BY <1>5 DEF B
<1>7. Slowest(steps) \in 1..(Top + 1) * 2 /\ \A s \in steps : s <= Slowest(steps)
  BY <1>6 DEF Slowest
<1> QED BY <1>1, <1>7 DEF B

\* One step for each of the distance is enough.
LEMMA StepsForIs ==
    ASSUME NEW d, NEW g \in Nat, NEW l \in Nat
    PROVE  StepsFor(d, g, l) \in Nat /\ StepsFor(d, g, l) <= g
<1>1. CASE l = 0
  BY <1>1 DEF StepsFor
<1>2. CASE l # 0
  <2> DEFINE q == (g + l - 1) \div l
  <2>1. q \in Int /\ q * l <= g + l - 1 /\ g + l - 1 < q * l + l
    BY <1>2
  <2>2. StepsFor(d, g, l) = q
    BY <1>2 DEF StepsFor
  <2> HIDE DEF q
  <2>3. q >= 0
    <3> SUFFICES ASSUME q < 0 PROVE FALSE
      BY <2>1
    <3>1. q * l <= (-1) * l
      BY <1>2, <2>1
    <3> QED BY <1>2, <2>1, <3>1
  <2>4. q <= g
    <3> SUFFICES ASSUME q >= g + 1 PROVE FALSE
      BY <2>1
    <3>1. q * l >= (g + 1) * l
      BY <1>2, <2>1
    <3>2. (g + 1) * l = g * l + l /\ g * l >= g
      BY <1>2
    <3> QED BY <1>2, <2>1, <3>1, <3>2
  <2> QED BY <2>1, <2>2, <2>3, <2>4
<1> QED BY <1>1, <1>2

\* A share of a distance is a number, the whole of it the distance.
LEMMA ShareIs ==
    ASSUME NEW x \in Int, NEW n \in Nat \ {0}, NEW k \in 1..n
    PROVE  (x * k) \div n \in Int /\ (x * n) \div n = x /\ (0 * k) \div n = 0
<1>1. x * k \in Int /\ x * n \in Int /\ 0 * k = 0
  OBVIOUS
<1>2. (x * k) \div n \in Int /\ (0 * k) \div n = 0
  BY <1>1
<1>3. (x * n) \div n = x
  <2> DEFINE q == (x * n) \div n
  <2>1. q \in Int /\ q * n <= x * n /\ x * n < q * n + n
    BY <1>1
  <2> HIDE DEF q
  <2>2. q <= x
    <3> SUFFICES ASSUME q >= x + 1 PROVE FALSE
      BY <2>1
    <3>1. q * n >= (x + 1) * n /\ (x + 1) * n = x * n + n
      BY <2>1
    <3> QED BY <1>1, <2>1, <3>1
  <2>3. q >= x
    <3> SUFFICES ASSUME q + 1 <= x PROVE FALSE
      BY <2>1
    <3>1. (q + 1) * n <= x * n /\ (q + 1) * n = q * n + n
      BY <2>1
    <3> QED BY <1>1, <2>1, <3>1
  <2> QED BY <2>1, <2>2, <2>3 DEF q
<1> QED BY <1>2, <1>3

InBounds(c, x) == x \in Vec /\ \A d \in TDims : x[d] \in c.low[d]..c.high[d]

TPlaces ==
    /\ tcfg \in ToolConfigs /\ tpc \in {"bind", "refused", "between", "call", "play", "last"}
    /\ tchunks \in 0..TChunks

TVectors ==
    IsAbsolute =>
      /\ readback \in Vec /\ held \in Vec \cup {NoTarget} /\ playing \in Seq(Vec)
      /\ inFlight.way \in Seq(Vec) /\ inFlight.issued \in Int /\ tstep \in Nat

\* Between two calls the settled setpoint is the waypoint that played last; while a chunk
\* plays, the held target and the motion in flight tell what that will be after each action.
TKept ==
    IsAbsolute /\ tcfg.steps =>
      /\ tpc = "call" => /\ Settled = lastPlayed /\ FlightAfter = NoFlight
                         /\ lastPlayed = NoTarget \/ InBounds(tcfg, lastPlayed)
      /\ tpc = "play" =>
           /\ \A k \in DOMAIN playing : InBounds(tcfg, playing[k])
           /\ \/ inFlight = NoFlight /\ \A k \in DOMAIN playing : playing[k] = held
              \/ /\ inFlight # NoFlight /\ inFlight = [way |-> playing, issued |-> tstep]
                 /\ playing # <<>> /\ playing[Len(playing)] = held
           /\ playing = <<>> => held = NoTarget
      /\ tpc \in {"play", "last"} =>
           lastPlayed = NoTarget \/ \A k \in DOMAIN playing : \A d \in TDims \ namedDims : playing[k][d] = lastPlayed[d]

TInv == TPlaces /\ TVectors /\ TKept

\* The configuration's box.
LEMMA BoxIs ==
    ASSUME TPlaces
    PROVE  /\ {tcfg.low, tcfg.high} \subseteq [TDims -> Int] /\ tcfg.limit \in [TDims -> Nat]
           /\ \A d \in TDims : tcfg.low[d] <= tcfg.high[d]
           /\ IsAbsolute => {tcfg.low, tcfg.high} \subseteq Vec
           /\ Top \in Nat /\ TChunks \in Nat /\ 1 \in TDims
BY ToolsAssumption DEF TPlaces, IsAbsolute

\* A position is no missing target.
LEMMA VecIs == \A x \in Vec : x \in [TDims -> Int] /\ x # NoTarget
<1>1. Top \in Nat /\ 1 \in TDims
  BY ToolsAssumption
<1> SUFFICES ASSUME NEW x \in Vec PROVE x \in [TDims -> Int] /\ x # NoTarget
  OBVIOUS
<1>2. DOMAIN x = TDims /\ x \in [TDims -> Int]
  BY <1>1 DEF Vec
<1>3. DOMAIN NoTarget = {}
  BY EmptySeq DEF NoTarget
<1> QED BY <1>1, <1>2, <1>3

\* Clipping lands in the bounds and leaves alone what lies in them.
LEMMA ClipIs ==
    ASSUME TPlaces, IsAbsolute, NEW v \in [TDims -> Int]
    PROVE  /\ InBounds(tcfg, Clip(v))
           /\ \A d \in TDims : v[d] \in tcfg.low[d]..tcfg.high[d] => Clip(v)[d] = v[d]
<1>1. /\ {tcfg.low, tcfg.high} \subseteq [TDims -> 0..Top] /\ \A d \in TDims : tcfg.low[d] <= tcfg.high[d]
      /\ Top \in Nat
  BY BoxIs DEF Vec
<1>2. ASSUME NEW d \in TDims
      PROVE  /\ Clip(v)[d] \in tcfg.low[d]..tcfg.high[d] /\ Clip(v)[d] \in 0..Top
             /\ (v[d] \in tcfg.low[d]..tcfg.high[d] => Clip(v)[d] = v[d])
  <2>1. v[d] \in Int /\ tcfg.low[d] \in 0..Top /\ tcfg.high[d] \in 0..Top /\ tcfg.low[d] <= tcfg.high[d]
    BY <1>1
  <2>2. Clip(v)[d] = IF v[d] < tcfg.low[d] THEN tcfg.low[d] ELSE IF v[d] > tcfg.high[d] THEN tcfg.high[d] ELSE v[d]
    BY DEF Clip
  <2> DEFINE x == v[d]
             l == tcfg.low[d]
             h == tcfg.high[d]
             y == Clip(v)[d]
  <2>3. x \in Int /\ l \in 0..Top /\ h \in 0..Top /\ l <= h /\ y = IF x < l THEN l ELSE IF x > h THEN h ELSE x
    BY <2>1, <2>2
  <2> HIDE DEF x, l, h, y
  <2>4. y \in l..h /\ y \in 0..Top /\ (x \in l..h => y = x)
    BY <1>1, <2>3
  <2> QED BY <2>4 DEF x, l, h, y
<1>3. Clip(v) \in [TDims -> 0..Top]
  <2>1. Clip(v) = [d \in TDims |-> Clip(v)[d]]
    BY DEF Clip
  <2> QED BY <1>2, <2>1
<1> QED BY <1>2, <1>3 DEF InBounds, Vec

\* The settled setpoint is a position or missing; what a motion has reached is in its plan.
LEMMA SettledIs ==
    ASSUME TPlaces, TVectors, IsAbsolute
    PROVE  /\ Settled \in Vec \cup {NoTarget} /\ Setpoint \in Vec
           /\ FlightAfter \in {inFlight, NoFlight} /\ Arriving \in Int
<1>1. /\ readback \in Vec /\ held \in Vec \cup {NoTarget} /\ inFlight.way \in Seq(Vec) /\ inFlight.issued \in Int
      /\ tstep \in Nat
  BY DEF TVectors
<1>2. Arriving \in Int /\ Played \in Int
  BY <1>1 DEF Arriving, Played
<1>3. Played >= 1 /\ Played < Len(inFlight.way) => inFlight.way[Played] \in Vec
  BY <1>1, <1>2, LenProperties
<1>4. Settled \in Vec \cup {NoTarget}
  BY <1>1, <1>3 DEF Settled
<1> QED BY <1>1, <1>2, <1>4 DEF Setpoint, FlightAfter

\* The waypoints of an absolute move: within the bounds, the last one at the target, and the
\* dimensions that are not named at it from the first one on.
LEMMA WaypointsAre ==
    ASSUME TPlaces, IsAbsolute, readback \in Vec,
           NEW target \in [TDims -> Int], NEW dims, NEW n \in Nat \ {0}
    PROVE  LET way == Waypoints(target, dims, n)
           IN  /\ way \in Seq(Vec) /\ Len(way) = n /\ DOMAIN way = 1..n
               /\ \A k \in 1..n : /\ InBounds(tcfg, way[k])
                                  /\ \A d \in TDims \ dims : target[d] \in tcfg.low[d]..tcfg.high[d]
                                                               => way[k][d] = target[d]
               /\ way[n] = Clip(target)
<1> DEFINE way == Waypoints(target, dims, n)
           start == [d \in TDims |-> IF d \in dims THEN readback[d] ELSE target[d]]
           v(k) == [d \in TDims |-> start[d] + ((target[d] - start[d]) * k) \div n]
<1>1. way = [k \in 1..n |-> Clip(v(k))]
  BY DEF Waypoints
<1>2. \A d \in TDims : start[d] \in Int /\ target[d] - start[d] \in Int /\ (d \notin dims => start[d] = target[d])
  BY VecIs
<1>3. ASSUME NEW k \in 1..n
      PROVE  /\ v(k) \in [TDims -> Int] /\ (k = n => v(k) = target)
             /\ \A d \in TDims \ dims : v(k)[d] = target[d]
  <2>1. ASSUME NEW d \in TDims
        PROVE  /\ v(k)[d] \in Int /\ (k = n => v(k)[d] = target[d]) /\ (d \notin dims => v(k)[d] = target[d])
    <3> DEFINE x == target[d] - start[d]
               q == (x * k) \div n
    <3>1. x \in Int /\ start[d] \in Int /\ (d \notin dims => x = 0) /\ v(k)[d] = start[d] + q /\ target[d] = start[d] + x
      BY <1>2
    <3>2. q \in Int /\ (k = n => q = x) /\ (x = 0 => q = 0)
      <4> HIDE DEF x
      <4> QED BY <3>1, ShareIs
    <3>3. d \notin dims => start[d] = target[d]
      BY <1>2
    <3> HIDE DEF x, q, start, v
    <3> QED BY <3>1, <3>2, <3>3
  <2>2. v(k) = [d \in TDims |-> v(k)[d]]
    OBVIOUS
  <2> HIDE DEF v
  <2> QED BY <2>1, <2>2
<1> HIDE DEF v, start
<1>4. \A k \in 1..n : /\ way[k] = Clip(v(k)) /\ InBounds(tcfg, way[k]) /\ way[k] \in Vec
                      /\ \A d \in TDims \ dims : target[d] \in tcfg.low[d]..tcfg.high[d] => way[k][d] = target[d]
  <2> SUFFICES ASSUME NEW k \in 1..n
               PROVE  /\ way[k] = Clip(v(k)) /\ InBounds(tcfg, way[k]) /\ way[k] \in Vec
                      /\ \A d \in TDims \ dims : target[d] \in tcfg.low[d]..tcfg.high[d] => way[k][d] = target[d]
    OBVIOUS
  <2>1. way[k] = Clip(v(k))
    BY <1>1
  <2>2. /\ InBounds(tcfg, Clip(v(k)))
        /\ \A d \in TDims : v(k)[d] \in tcfg.low[d]..tcfg.high[d] => Clip(v(k))[d] = v(k)[d]
    BY <1>3, ClipIs
  <2>3. \A d \in TDims \ dims : v(k)[d] = target[d]
    BY <1>3
  <2> HIDE DEF way
  <2> QED BY <2>1, <2>2, <2>3 DEF InBounds
<1>5. DOMAIN way = 1..n /\ way \in Seq(Vec) /\ Len(way) = n
  <2>1. way \in [1..n -> Vec]
    BY <1>1, <1>4
  <2> QED BY <2>1, SeqDef, LenProperties
<1>6. way[n] = Clip(target)
  BY <1>3, <1>4
<1> QED BY <1>4, <1>5, <1>6

\* A request names some dimensions, each with a value in reach.
LEMMA RequestIs ==
    ASSUME NEW values \in Requests
    PROVE  DOMAIN values \subseteq TDims /\ \A d \in DOMAIN values : values[d] \in 0..Top
BY DEF Requests

\* An absolute move is accepted, with its waypoints, or refused, the settled setpoint kept.
LEMMA MoveIs ==
    ASSUME TPlaces, TVectors, NEW values \in Requests, MoveAbsolute(values)
    PROVE  /\ IsAbsolute /\ tpc = "call" /\ tchunks < TChunks
           /\ UNCHANGED <<tcfg, tstep, readback, replanned, lastPlayed>>
           /\ \/ /\ held' = Settled /\ inFlight' = FlightAfter
                 /\ UNCHANGED <<tpc, tchunks, playing, namedDims>>
              \/ /\ tpc' = "play" /\ tchunks' = tchunks + 1 /\ namedDims' = DOMAIN values
                 /\ playing' \in Seq(Vec) /\ playing' # <<>> /\ DOMAIN playing' = 1..Len(playing')
                 /\ held' \in Vec /\ held' = playing'[Len(playing')]
                 /\ inFlight' = [way |-> playing', issued |-> Arriving]
                 /\ \A k \in 1..Len(playing') :
                      /\ InBounds(tcfg, playing'[k])
                      /\ \A d \in TDims \ DOMAIN values :
                           Setpoint[d] \in tcfg.low[d]..tcfg.high[d] => playing'[k][d] = Setpoint[d]
<1>1. /\ IsAbsolute /\ tpc = "call" /\ tchunks < TChunks
      /\ \/ /\ Acceptable(values)
            /\ held' = Clip(TrialTarget(values))
            /\ playing' = Waypoints(TrialTarget(values), DOMAIN values, AbsoluteSteps(values))
            /\ inFlight' = [way |-> playing', issued |-> Arriving]
            /\ namedDims' = DOMAIN values /\ tchunks' = tchunks + 1 /\ tpc' = "play"
            /\ UNCHANGED <<tcfg, tstep, readback, replanned, lastPlayed>>
         \/ /\ held' = Settled /\ inFlight' = FlightAfter
            /\ UNCHANGED <<tcfg, tpc, tstep, tchunks, readback, replanned, playing, namedDims, lastPlayed>>
  BY DEF MoveAbsolute, ToolsReady, Issue
<1>2. CASE held' = Settled /\ inFlight' = FlightAfter
           /\ UNCHANGED <<tcfg, tpc, tstep, tchunks, readback, replanned, playing, namedDims, lastPlayed>>
  BY <1>1, <1>2
<1>3. CASE /\ Acceptable(values)
           /\ held' = Clip(TrialTarget(values))
           /\ playing' = Waypoints(TrialTarget(values), DOMAIN values, AbsoluteSteps(values))
           /\ inFlight' = [way |-> playing', issued |-> Arriving]
           /\ namedDims' = DOMAIN values /\ tchunks' = tchunks + 1 /\ tpc' = "play"
           /\ UNCHANGED <<tcfg, tstep, readback, replanned, lastPlayed>>
  <2> DEFINE target == TrialTarget(values)
             dims == DOMAIN values
             n == AbsoluteSteps(values)
  <2>1. readback \in Vec /\ Setpoint \in Vec
    BY <1>1, SettledIs DEF TVectors
  <2>2. target \in [TDims -> Int] /\ \A d \in TDims \ dims : target[d] = Setpoint[d]
    BY <2>1, RequestIs, VecIs, BoxIs DEF TrialTarget
  <2>3. n \in Nat \ {0}
    <3> DEFINE need == {StepsFor(d, JointGap(values[d], readback[d]), tcfg.limit[d]) : d \in DOMAIN values}
    <3>1. \A d \in DOMAIN values : JointGap(values[d], readback[d]) \in 0..Top
      <4> SUFFICES ASSUME NEW d \in DOMAIN values PROVE JointGap(values[d], readback[d]) \in 0..Top
        OBVIOUS
      <4>1. values[d] \in 0..Top /\ readback[d] \in 0..Top /\ Top \in Nat
        BY <2>1, RequestIs, BoxIs DEF Vec
      <4> QED BY <4>1 DEF JointGap
    <3>2. \A d \in DOMAIN values : tcfg.limit[d] \in Nat
      BY RequestIs, BoxIs
    <3>3. need \subseteq Nat /\ \A s \in need : s <= (Top + 1) * 2
      <4> SUFFICES ASSUME NEW d \in DOMAIN values
                   PROVE  /\ StepsFor(d, JointGap(values[d], readback[d]), tcfg.limit[d]) \in Nat
                          /\ StepsFor(d, JointGap(values[d], readback[d]), tcfg.limit[d]) <= (Top + 1) * 2
        OBVIOUS
      <4> DEFINE g == JointGap(values[d], readback[d])
                 l == tcfg.limit[d]
                 m == StepsFor(d, g, l)
      <4>1. g \in 0..Top /\ l \in Nat /\ Top \in Nat
        BY <3>1, <3>2, BoxIs
      <4> HIDE DEF g, l
      <4>2. m \in Nat /\ m <= g
        BY <4>1, StepsForIs
      <4> HIDE DEF m
      <4>3. m <= (Top + 1) * 2
        BY <4>1, <4>2
      <4> QED BY <4>2, <4>3 DEF m, g, l
    <3> HIDE DEF need
    <3>4. Slowest(need) \in Nat \ {0}
      BY <3>3, SlowestIs
    <3> QED BY <3>4 DEF AbsoluteSteps, need
  <2> HIDE DEF target, n
  <2>4. /\ playing' \in Seq(Vec) /\ Len(playing') = n /\ DOMAIN playing' = 1..n /\ playing'[n] = Clip(target)
        /\ \A k \in 1..n : /\ InBounds(tcfg, playing'[k])
                           /\ \A d \in TDims \ dims : target[d] \in tcfg.low[d]..tcfg.high[d]
                                                        => playing'[k][d] = target[d]
    <3>1. playing' = Waypoints(target, dims, n)
      BY <1>3 DEF target, n
    <3> HIDE DEF dims
    <3> QED BY <1>1, <2>1, <2>2, <2>3, <3>1, WaypointsAre
  <2>5. playing' # <<>>
    BY <2>3, <2>4, EmptySeq
  <2>6. held' = Clip(target) /\ Clip(target) \in Vec
    BY <1>1, <1>3, <2>2, ClipIs DEF target, InBounds
  <2> QED BY <1>1, <1>3, <2>2, <2>4, <2>5, <2>6
<1> QED BY <1>1, <1>2, <1>3

\* The bound configuration stays as it was checked.
LEMMA TPlacesStep == TPlaces /\ TVectors /\ [ToolsNext]_toolVars => TPlaces'
<1> SUFFICES ASSUME TPlaces, TVectors, [ToolsNext]_toolVars PROVE TPlaces'
  OBVIOUS
<1>k. TChunks \in Nat /\ tchunks \in 0..TChunks
  BY BoxIs DEF TPlaces
<1>s. ASSUME tcfg' = tcfg, tpc' \in {"bind", "refused", "between", "call", "play", "last"},
             tchunks' \in {0, tchunks} \/ (tchunks < TChunks /\ tchunks' = tchunks + 1)
      PROVE  TPlaces'
  BY <1>k, <1>s DEF TPlaces
<1>0. CASE UNCHANGED toolVars
  BY <1>0 DEF toolVars, TPlaces
<1>1. CASE BindTools
  BY <1>1, <1>s DEF BindTools
<1>2. CASE StartTrial
  BY <1>2, <1>k DEF StartTrial, TPlaces
<1>3. ASSUME NEW values \in Requests, MoveAbsolute(values) PROVE TPlaces'
  <2>1. tcfg' = tcfg /\ tpc' \in {tpc, "play"}
        /\ (tchunks' = tchunks \/ (tchunks < TChunks /\ tchunks' = tchunks + 1))
    BY <1>3, MoveIs
  <2> QED BY <1>s, <2>1 DEF TPlaces
<1>4. ASSUME NEW values \in Requests, MoveDisplacement(values) PROVE TPlaces'
  <2>1. tcfg' = tcfg /\ tpc' = "play" /\ tchunks < TChunks /\ tchunks' = tchunks + 1
    BY <1>4 DEF MoveDisplacement, ToolsReady, Issue
  <2> QED BY <1>s, <2>1
<1>5. ASSUME NEW n \in 1..2, Sleep(n) PROVE TPlaces'
  <2>1. tcfg' = tcfg /\ tpc' = "play" /\ tchunks < TChunks /\ tchunks' = tchunks + 1
    BY <1>5 DEF Sleep, ToolsReady, Issue
  <2> QED BY <1>s, <2>1
<1>6. CASE ToolStop
  BY <1>6, <1>s DEF ToolStop, ToolsReady, Issue
<1>7. ASSUME NEW way, Contributed(way) PROVE TPlaces'
  BY <1>7, <1>s DEF Contributed, ToolsReady, Issue
<1>8. CASE ContributedUnreadable
  BY <1>8, <1>s DEF ContributedUnreadable, ToolsReady, Issue
<1>9. ASSUME NEW p \in DOMAIN playing, PlayChunk(p) PROVE TPlaces'
  BY <1>9, <1>s DEF PlayChunk
<1>10. CASE PlayUnreadable
  BY <1>10, <1>s DEF PlayUnreadable
<1> QED
  BY <1>0, <1>1, <1>2, <1>3, <1>4, <1>5, <1>6, <1>7, <1>8, <1>9, <1>10 DEF ToolsNext

\* A contributed tool's chunk is clipped, the held target its last position.
LEMMA ContributedIs ==
    ASSUME TPlaces, TVectors, NEW v \in [TDims -> Int], NEW w \in [TDims -> Int], Contributed(<<v, w>>)
    PROVE  /\ IsAbsolute /\ tpc = "call" /\ tpc' = "play" /\ UNCHANGED <<tcfg, tstep, readback, replanned, lastPlayed>>
           /\ playing' = <<Clip(v), Clip(w)>> /\ held' = Clip(w) /\ namedDims' = TDims
           /\ inFlight' = [way |-> playing', issued |-> Arriving]
           /\ InBounds(tcfg, Clip(v)) /\ InBounds(tcfg, Clip(w))
<1> DEFINE way == <<v, w>>
           clipped == [k \in DOMAIN way |-> Clip(way[k])]
<1>1. clipped = <<Clip(v), Clip(w)>> /\ Len(way) = 2 /\ clipped[2] = Clip(w)
  <2>1. DOMAIN way = {1, 2} /\ way[1] = v /\ way[2] = w
    OBVIOUS
  <2>2. clipped = [k \in {1, 2} |-> Clip(way[k])]
    BY <2>1
  <2> QED BY <2>1, <2>2
<1>2. IsAbsolute
  BY DEF Contributed
<1>3. InBounds(tcfg, Clip(v)) /\ InBounds(tcfg, Clip(w))
  BY <1>2, ClipIs
<1>4. /\ tpc = "call" /\ tpc' = "play" /\ UNCHANGED <<tcfg, tstep, readback, replanned, lastPlayed>>
      /\ playing' = clipped /\ held' = clipped[Len(way)] /\ namedDims' = TDims
      /\ inFlight' = [way |-> clipped, issued |-> Arriving]
  BY DEF Contributed, ToolsReady, Issue
<1> HIDE DEF way, clipped
<1> QED BY <1>1, <1>2, <1>3, <1>4

\* A sleep and a stop repeat the setpoint.
LEMMA SleepIs ==
    ASSUME TPlaces, TVectors, NEW n \in 1..2, Sleep(n), IsAbsolute
    PROVE  /\ tpc = "call" /\ tpc' = "play" /\ UNCHANGED <<tcfg, tstep, readback, replanned, lastPlayed>>
           /\ held' = (IF Settled = NoTarget THEN Clip(readback) ELSE Settled) /\ held' \in Vec
           /\ (Settled = NoTarget => InBounds(tcfg, held'))
           /\ inFlight' = FlightAfter /\ namedDims' = {}
           /\ playing' \in Seq(Vec) /\ DOMAIN playing' = 1..n /\ \A k \in 1..n : playing'[k] = held'
<1>1. readback \in Vec /\ Settled \in Vec \cup {NoTarget}
  BY SettledIs DEF TVectors
<1> DEFINE target == IF Settled = NoTarget THEN Clip(readback) ELSE Settled
<1>2. InBounds(tcfg, Clip(readback))
  BY <1>1, VecIs, ClipIs
<1>3. target \in Vec /\ (Settled = NoTarget => InBounds(tcfg, target))
  BY <1>1, <1>2 DEF InBounds
<1>4. /\ tpc = "call" /\ tpc' = "play" /\ UNCHANGED <<tcfg, tstep, readback, replanned, lastPlayed>>
      /\ held' = target /\ inFlight' = FlightAfter /\ namedDims' = {}
      /\ playing' = [k \in 1..n |-> target]
  BY DEF Sleep, ToolsReady, Issue
<1>5. playing' \in Seq(Vec) /\ DOMAIN playing' = 1..n /\ \A k \in 1..n : playing'[k] = target
  <2> HIDE DEF target
  <2>1. playing' \in [1..n -> Vec] /\ n \in Nat
    BY <1>3, <1>4
  <2> QED BY <1>4, <2>1, SeqDef
<1> QED BY <1>3, <1>4, <1>5

\* A stop repeats the setpoint as the trial's last action.
LEMMA StopIs ==
    ASSUME TPlaces, TVectors, ToolStop, IsAbsolute
    PROVE  /\ tpc = "call" /\ tpc' = "last" /\ UNCHANGED <<tcfg, tstep, readback, replanned, lastPlayed>>
           /\ held' = Settled /\ inFlight' = FlightAfter /\ playing' = <<Setpoint>>
BY DEF ToolStop, ToolsReady, Issue

\* What the rollout played, as the observation tells it.
LEMMA PlayIs ==
    ASSUME TPlaces, TVectors, IsAbsolute, NEW p \in DOMAIN playing, PlayChunk(p)
    PROVE  /\ p \in 1..Len(playing) /\ Len(playing) \in Nat
           /\ tpc \in {"play", "last"} /\ tpc' = (IF tpc = "last" THEN "between" ELSE "call")
           /\ tstep' = tstep + p /\ lastPlayed' = playing[p] /\ playing[p] \in Vec /\ readback' \in Vec
           /\ UNCHANGED <<tcfg, held, inFlight, playing>>
<1>1. DOMAIN playing = 1..Len(playing) /\ Len(playing) \in Nat /\ playing[p] \in Vec
  BY LenProperties, ElementOfSeq DEF TVectors
<1>2. /\ tpc \in {"play", "last"} /\ tpc' = (IF tpc = "last" THEN "between" ELSE "call")
      /\ tstep' = tstep + p /\ lastPlayed' = playing[p] /\ \E v \in Vec : readback' \in Sags(v)
      /\ UNCHANGED <<tcfg, held, inFlight, playing>>
  BY DEF PlayChunk, Reviewed
<1>3. \A v \in Vec : Sags(v) \subseteq Vec
  <2> SUFFICES ASSUME NEW v \in Vec PROVE Sags(v) \subseteq Vec
    OBVIOUS
  <2>1. v \in [TDims -> 0..Top] /\ 1 \in TDims /\ tcfg.low[1] \in 0..Top /\ Top \in Nat
    BY BoxIs DEF Vec
  <2>2. v[1] > tcfg.low[1] => v[1] - 1 \in 0..Top
    BY <2>1
  <2>3. Sags(v) = {v, [v EXCEPT ![1] = IF v[1] > tcfg.low[1] THEN v[1] - 1 ELSE v[1]]}
    BY DEF Sags
  <2> QED BY <2>1, <2>2, <2>3 DEF Vec
<1> QED BY <1>1, <1>2, <1>3

\* What is held, played and in flight are positions.
LEMMA TVectorsStep == TVectors /\ TPlaces /\ [ToolsNext]_toolVars => TVectors'
<1> SUFFICES ASSUME TVectors, TPlaces, [ToolsNext]_toolVars PROVE TVectors'
  OBVIOUS
<1>c. tcfg' = tcfg
  BY DEF ToolsNext, toolVars, BindTools, StartTrial, ToolStop, ContributedUnreadable, PlayUnreadable, MoveAbsolute,
     MoveDisplacement, Sleep, Contributed, PlayChunk, Issue
<1> SUFFICES ASSUME IsAbsolute
             PROVE  /\ readback' \in Vec /\ held' \in Vec \cup {NoTarget} /\ playing' \in Seq(Vec)
                    /\ inFlight'.way \in Seq(Vec) /\ inFlight'.issued \in Int /\ tstep' \in Nat
  BY <1>c DEF TVectors, IsAbsolute
<1>k. /\ readback \in Vec /\ held \in Vec \cup {NoTarget} /\ playing \in Seq(Vec)
      /\ inFlight.way \in Seq(Vec) /\ inFlight.issued \in Int /\ tstep \in Nat
      /\ <<>> \in Seq(Vec) /\ NoFlight.way = <<>> /\ NoFlight.issued = -1
      /\ Settled \in Vec \cup {NoTarget} /\ Setpoint \in Vec /\ FlightAfter \in {inFlight, NoFlight} /\ Arriving \in Int
  BY SettledIs, EmptySeq DEF TVectors, NoFlight
<1>f. FlightAfter.way \in Seq(Vec) /\ FlightAfter.issued \in Int
  <2>1. CASE FlightAfter = inFlight
    BY <1>k, <2>1
  <2>2. CASE FlightAfter = NoFlight
    <3>1. NoFlight.way \in Seq(Vec) /\ NoFlight.issued \in Int
      BY <1>k
    <3> QED BY <2>2, <3>1
  <2> QED BY <1>k, <2>1, <2>2
<1>0. CASE UNCHANGED toolVars
  BY <1>0, <1>k DEF toolVars
<1>1. CASE BindTools
  BY <1>1, <1>k DEF BindTools
<1>2. CASE StartTrial
  BY <1>2, <1>k DEF StartTrial
<1>3. ASSUME NEW values \in Requests, MoveAbsolute(values)
      PROVE  /\ readback' \in Vec /\ held' \in Vec \cup {NoTarget} /\ playing' \in Seq(Vec)
             /\ inFlight'.way \in Seq(Vec) /\ inFlight'.issued \in Int /\ tstep' \in Nat
  <2>1. readback' \in Vec /\ tstep' \in Nat
    BY <1>3, <1>k, MoveIs
  <2>2. CASE held' = Settled /\ inFlight' = FlightAfter /\ playing' = playing
    BY <1>k, <1>f, <2>1, <2>2
  <2>3. CASE held' \in Vec /\ playing' \in Seq(Vec) /\ inFlight' = [way |-> playing', issued |-> Arriving]
    <3>1. inFlight'.way = playing' /\ inFlight'.issued = Arriving
      BY <2>3
    <3> QED BY <1>k, <2>1, <2>3, <3>1
  <2> QED BY <1>3, <2>2, <2>3, MoveIs
<1>4. ASSUME NEW values \in Requests, MoveDisplacement(values) PROVE FALSE
  BY <1>4 DEF MoveDisplacement
<1>5. ASSUME NEW n \in 1..2, Sleep(n)
      PROVE  /\ readback' \in Vec /\ held' \in Vec \cup {NoTarget} /\ playing' \in Seq(Vec)
             /\ inFlight'.way \in Seq(Vec) /\ inFlight'.issued \in Int /\ tstep' \in Nat
  <2>1. /\ readback' = readback /\ held' \in Vec /\ playing' \in Seq(Vec) /\ inFlight' = FlightAfter /\ tstep' = tstep
    BY <1>5, SleepIs
  <2> QED BY <1>k, <1>f, <2>1
<1>6. CASE ToolStop
  <2>1. readback' = readback /\ held' = Settled /\ playing' = <<Setpoint>> /\ inFlight' = FlightAfter /\ tstep' = tstep
    BY <1>6, StopIs
  <2>2. <<Setpoint>> \in Seq(Vec)
    BY <1>k
  <2> QED BY <1>k, <1>f, <2>1, <2>2
<1>7. ASSUME NEW v \in {[d \in TDims |-> 0], [d \in TDims |-> Top]}, NEW w \in {[d \in TDims |-> 0], [d \in TDims |-> Top]},
             Contributed(<<v, w>>)
      PROVE  /\ readback' \in Vec /\ held' \in Vec \cup {NoTarget} /\ playing' \in Seq(Vec)
             /\ inFlight'.way \in Seq(Vec) /\ inFlight'.issued \in Int /\ tstep' \in Nat
  <2>1. v \in [TDims -> Int] /\ w \in [TDims -> Int]
    BY <1>7, BoxIs
  <2>2. Clip(v) \in Vec /\ Clip(w) \in Vec
    BY <1>7, <2>1, ContributedIs DEF InBounds
  <2>3. <<Clip(v), Clip(w)>> \in Seq(Vec)
    BY <2>2
  <2>4. /\ readback' = readback /\ held' = Clip(w) /\ playing' = <<Clip(v), Clip(w)>> /\ tstep' = tstep
        /\ inFlight' = [way |-> playing', issued |-> Arriving]
    BY <1>7, <2>1, ContributedIs
  <2>5. inFlight'.way = playing' /\ inFlight'.issued = Arriving
    BY <2>4
  <2> QED BY <1>k, <2>2, <2>3, <2>4, <2>5
<1>8. CASE ContributedUnreadable
  BY <1>8, <1>k DEF ContributedUnreadable, ToolsReady, Issue
<1>9. ASSUME NEW p \in DOMAIN playing, PlayChunk(p)
      PROVE  /\ readback' \in Vec /\ held' \in Vec \cup {NoTarget} /\ playing' \in Seq(Vec)
             /\ inFlight'.way \in Seq(Vec) /\ inFlight'.issued \in Int /\ tstep' \in Nat
  BY <1>9, <1>k, PlayIs
<1>10. CASE PlayUnreadable
  <2>1. [d \in TDims |-> tcfg.low[d]] \in Vec
    BY BoxIs DEF Vec
  <2> QED BY <1>10, <1>k, <2>1 DEF PlayUnreadable
<1> QED
  BY <1>0, <1>1, <1>2, <1>3, <1>4, <1>5, <1>6, <1>7, <1>8, <1>9, <1>10 DEF ToolsNext

\* A held target and nothing in flight: the setpoint is what is held.
LEMMA AtRest ==
    ASSUME inFlight' = NoFlight
    PROVE  Settled' = held' /\ FlightAfter' = NoFlight
BY DEF Settled, FlightAfter

\* What is held follows what played, however much of a chunk it was.
LEMMA TKeptStep == TKept /\ TVectors /\ TPlaces /\ [ToolsNext]_toolVars => TKept'
<1> SUFFICES ASSUME TKept, TVectors, TPlaces, [ToolsNext]_toolVars PROVE TKept'
  OBVIOUS
<1>c. tcfg' = tcfg
  BY DEF ToolsNext, toolVars, BindTools, StartTrial, ToolStop, ContributedUnreadable, PlayUnreadable, MoveAbsolute,
     MoveDisplacement, Sleep, Contributed, PlayChunk, Issue
<1> DEFINE CallKept == Settled' = lastPlayed' /\ FlightAfter' = NoFlight /\ (lastPlayed' = NoTarget \/ InBounds(tcfg, lastPlayed'))
           PlayKept == /\ \A k \in DOMAIN playing' : InBounds(tcfg, playing'[k])
                       /\ \/ inFlight' = NoFlight /\ \A k \in DOMAIN playing' : playing'[k] = held'
                          \/ /\ inFlight' # NoFlight /\ inFlight' = [way |-> playing', issued |-> tstep']
                             /\ playing' # <<>> /\ playing'[Len(playing')] = held'
                       /\ playing' = <<>> => held' = NoTarget
           NamedOnly == lastPlayed' = NoTarget \/ \A k \in DOMAIN playing' :
                          \A d \in TDims \ namedDims' : playing'[k][d] = lastPlayed'[d]
           Kept == /\ tpc' = "call" => CallKept
                   /\ tpc' = "play" => PlayKept
                   /\ tpc' \in {"play", "last"} => NamedOnly
<1> SUFFICES ASSUME IsAbsolute, tcfg.steps PROVE Kept
  BY <1>c DEF TKept, IsAbsolute, InBounds
<1>k. /\ readback \in Vec /\ held \in Vec \cup {NoTarget} /\ playing \in Seq(Vec) /\ tstep \in Nat
      /\ Setpoint \in Vec /\ (Settled = NoTarget \/ (Settled \in Vec /\ Setpoint = Settled))
      /\ NoFlight.issued = -1 /\ Arriving = tstep
  BY SettledIs DEF TVectors, NoFlight, Arriving, Setpoint
<1>r. tpc = "call" => Settled = lastPlayed /\ FlightAfter = NoFlight /\ (lastPlayed = NoTarget \/ InBounds(tcfg, lastPlayed))
  BY DEF TKept
<1>v. \A x \in Vec : x # NoTarget
  BY VecIs
<1>0. CASE UNCHANGED toolVars
  <2>1. UNCHANGED <<tcfg, tpc, tstep, replanned, held, inFlight, playing, namedDims, lastPlayed>>
    BY <1>0 DEF toolVars
  <2>2. Settled' = Settled /\ FlightAfter' = FlightAfter
    BY <2>1 DEF Settled, FlightAfter, Played, StepsTell, Arriving
  <2> QED BY <2>1, <2>2 DEF TKept
<1>1. CASE BindTools
  BY <1>1 DEF BindTools
<1>2. CASE StartTrial
  <2>1. tpc' = "call" /\ held' = NoTarget /\ inFlight' = NoFlight /\ lastPlayed' = NoTarget
    BY <1>2 DEF StartTrial
  <2> QED BY <2>1, AtRest
<1>3. ASSUME NEW values \in Requests, MoveAbsolute(values) PROVE Kept
  <2>1. CASE held' = Settled /\ inFlight' = FlightAfter /\ UNCHANGED <<tpc, playing, namedDims>>
    <3>1. tpc' = "call" /\ held' = lastPlayed' /\ inFlight' = NoFlight /\ lastPlayed' = lastPlayed
      BY <1>3, <1>r, <2>1, MoveIs
    <3> QED BY <1>3, <1>r, <3>1, AtRest, MoveIs
  <2>2. CASE /\ tpc' = "play" /\ namedDims' = DOMAIN values
             /\ playing' \in Seq(Vec) /\ playing' # <<>> /\ DOMAIN playing' = 1..Len(playing')
             /\ held' \in Vec /\ held' = playing'[Len(playing')]
             /\ inFlight' = [way |-> playing', issued |-> Arriving]
             /\ \A k \in 1..Len(playing') :
                  /\ InBounds(tcfg, playing'[k])
                  /\ \A d \in TDims \ DOMAIN values :
                       Setpoint[d] \in tcfg.low[d]..tcfg.high[d] => playing'[k][d] = Setpoint[d]
    <3>1. tpc = "call" /\ lastPlayed' = lastPlayed /\ tstep' = tstep
      BY <1>3, MoveIs
    <3>2. inFlight' = [way |-> playing', issued |-> tstep'] /\ inFlight' # NoFlight
      <4>1. inFlight' = [way |-> playing', issued |-> tstep']
        BY <1>k, <2>2, <3>1
      <4>2. inFlight'.issued = tstep' /\ tstep' # -1
        BY <1>k, <3>1, <4>1
      <4> QED BY <1>k, <4>1, <4>2
    <3>3. PlayKept
      BY <2>2, <3>2
    <3>4. NamedOnly
      <4> SUFFICES ASSUME lastPlayed # NoTarget
                   PROVE  \A k \in DOMAIN playing' : \A d \in TDims \ DOMAIN values : playing'[k][d] = lastPlayed[d]
        BY <2>2, <3>1
      <4>1. Setpoint = lastPlayed /\ \A d \in TDims : Setpoint[d] \in tcfg.low[d]..tcfg.high[d]
        BY <1>k, <1>r, <3>1 DEF InBounds
      <4> QED BY <2>2, <4>1
    <3> QED BY <2>2, <3>3, <3>4
  <2> QED BY <1>3, <2>1, <2>2, MoveIs
<1>4. ASSUME NEW values \in Requests, MoveDisplacement(values) PROVE FALSE
  BY <1>4 DEF MoveDisplacement
<1>5. ASSUME NEW n \in 1..2, Sleep(n) PROVE Kept
  <2>1. /\ tpc = "call" /\ tpc' = "play" /\ lastPlayed' = lastPlayed /\ held' \in Vec /\ inFlight' = NoFlight /\ namedDims' = {}
        /\ DOMAIN playing' = 1..n /\ playing' \in Seq(Vec) /\ \A k \in 1..n : playing'[k] = held'
        /\ (Settled = NoTarget => InBounds(tcfg, held')) /\ (Settled # NoTarget => held' = Settled)
    BY <1>5, <1>r, SleepIs
  <2>2. InBounds(tcfg, held') /\ (lastPlayed # NoTarget => held' = lastPlayed)
    BY <1>r, <2>1
  <2>3. playing' # <<>>
    BY <2>1, EmptySeq
  <2> QED BY <2>1, <2>2, <2>3
<1>6. CASE ToolStop
  <2>1. tpc = "call" /\ tpc' = "last" /\ lastPlayed' = lastPlayed /\ playing' = <<Setpoint>>
    BY <1>6, StopIs
  <2>2. lastPlayed # NoTarget => Setpoint = lastPlayed
    BY <1>k, <1>r, <2>1
  <2>3. DOMAIN playing' = {1} /\ playing'[1] = Setpoint
    BY <2>1
  <2> QED BY <2>1, <2>2, <2>3
<1>7. ASSUME NEW v \in {[d \in TDims |-> 0], [d \in TDims |-> Top]}, NEW w \in {[d \in TDims |-> 0], [d \in TDims |-> Top]},
             Contributed(<<v, w>>)
      PROVE  Kept
  <2>1. v \in [TDims -> Int] /\ w \in [TDims -> Int]
    BY <1>7, BoxIs
  <2>2. /\ tpc' = "play" /\ tstep' = tstep /\ playing' = <<Clip(v), Clip(w)>> /\ held' = Clip(w) /\ namedDims' = TDims
        /\ inFlight' = [way |-> playing', issued |-> Arriving] /\ InBounds(tcfg, Clip(v)) /\ InBounds(tcfg, Clip(w))
    BY <1>7, <2>1, ContributedIs
  <2>3. inFlight' # NoFlight /\ inFlight' = [way |-> playing', issued |-> tstep']
    <3>1. inFlight' = [way |-> playing', issued |-> tstep']
      BY <1>k, <2>2
    <3>2. inFlight'.issued = tstep' /\ tstep' # -1
      BY <1>k, <2>2, <3>1
    <3> QED BY <1>k, <3>1, <3>2
  <2>4. DOMAIN playing' = {1, 2} /\ Len(playing') = 2 /\ playing'[1] = Clip(v) /\ playing'[2] = Clip(w) /\ playing' # <<>>
    BY <2>2
  <2> QED BY <2>2, <2>3, <2>4
<1>8. CASE ContributedUnreadable
  <2>1. tpc' = "play" /\ held' = NoTarget /\ inFlight' = NoFlight /\ playing' = <<>>
    BY <1>8 DEF ContributedUnreadable, Issue
  <2> QED BY <2>1, EmptySeq
<1>9. ASSUME NEW p \in DOMAIN playing, PlayChunk(p) PROVE Kept
  <2>1. /\ p \in 1..Len(playing) /\ Len(playing) \in Nat
        /\ tpc \in {"play", "last"} /\ tpc' = (IF tpc = "last" THEN "between" ELSE "call")
        /\ tstep' = tstep + p /\ lastPlayed' = playing[p] /\ playing[p] \in Vec
        /\ UNCHANGED <<tcfg, held, inFlight, playing>>
    BY <1>9, PlayIs
  <2> SUFFICES ASSUME tpc = "play" PROVE CallKept
    BY <2>1
  <2>2. InBounds(tcfg, playing[p])
    BY <1>9 DEF TKept
  <2>3. CASE inFlight = NoFlight /\ \A k \in DOMAIN playing : playing[k] = held
    <3>1. inFlight' = NoFlight /\ held' = lastPlayed'
      BY <1>9, <2>1, <2>3
    <3> QED BY <2>1, <2>2, <3>1, AtRest
  <2>4. CASE /\ inFlight # NoFlight /\ inFlight = [way |-> playing, issued |-> tstep]
             /\ playing # <<>> /\ playing[Len(playing)] = held
    <3>1. Arriving' = tstep + p /\ inFlight' # NoFlight /\ inFlight'.issued = tstep /\ inFlight'.way = playing
      BY <2>1, <2>4 DEF Arriving
    <3>2. Played' = p
      BY <1>k, <2>1, <3>1 DEF Played
    <3>3. StepsTell' /\ p >= 1
      BY <1>k, <2>1, <3>1 DEF StepsTell
    <3>4. Settled' = IF p < Len(playing) THEN playing[p] ELSE held
      BY <2>1, <3>1, <3>2, <3>3 DEF Settled
    <3>5. Settled' = playing[p]
      BY <2>1, <2>4, <3>4
    <3>6. FlightAfter' = NoFlight
      BY <2>1, <3>2, <3>3 DEF FlightAfter
    <3> QED BY <2>1, <2>2, <3>5, <3>6
  <2> QED BY <2>3, <2>4 DEF TKept
<1>10. CASE PlayUnreadable
  <2>1. tpc = "play" /\ playing = <<>> /\ tpc' = "call" /\ lastPlayed' = NoTarget /\ UNCHANGED <<held, inFlight>>
    BY <1>10 DEF PlayUnreadable
  <2>2. held = NoTarget /\ inFlight = NoFlight
    BY <2>1 DEF TKept
  <2> QED BY <2>1, <2>2, AtRest
<1> QED
  BY <1>0, <1>1, <1>2, <1>3, <1>4, <1>5, <1>6, <1>7, <1>8, <1>9, <1>10 DEF ToolsNext

\* The agent's tools start in their invariant,
LEMMA TInitial == ToolsInit => TInv
<1> SUFFICES ASSUME ToolsInit PROVE TInv
  OBVIOUS
<1> USE DEF ToolsInit
<1>1. TPlaces
  BY ToolsAssumption DEF TPlaces
<1>2. TVectors
  BY <1>1, BoxIs, EmptySeq DEF TVectors, NoFlight, Vec
<1>3. TKept
  BY DEF TKept
<1> QED BY <1>1, <1>2, <1>3 DEF TInv

\* keep it,
LEMMA TStep == TInv /\ [ToolsNext]_toolVars => TInv'
BY TPlacesStep, TVectorsStep, TKeptStep DEF TInv

\* and so hold every dimension nobody named.
LEMMA TSafe == TInv => ToolsTypeOK /\ UnnamedHold
BY DEF TInv, TPlaces, TVectors, TKept, ToolsTypeOK, UnnamedHold

----------------------------------------------------------------------------
\* AgentWire.  What each client has told its model is the conversation up to the last reply,
\* unless a fold of all of it is due, so the model that answers has heard everything once.

\* The policy is inside complete(): the client holds or has held part of the conversation.
Asking == {"send", "read", "polling"}

WMessages ==
    [id : Nat \X Nat, role : {"system", "user", "assistant", "tool"},
     calls : SUBSET (Nat \X Nat \X Nat), result : {<<>>} \cup (Nat \X Nat \X Nat)]
WRows == [call : Int, attempt : Nat, of : Nat]

SessionIs(s) == s.open \in BOOLEAN /\ s = [open |-> s.open, told |-> s.told]
ChainIs(c) == c.known \in BOOLEAN /\ c = [known |-> c.known, told |-> c.told]

WPlaces ==
    /\ wire \in Wires /\ wtrial \in 0..WTrials /\ wattempt \in 0..MaxRetries - 1 /\ polls \in 0..WPolls
    /\ wpc \in {"between", "ask", "answered", "failed"} \cup Asking
    /\ SessionIs(session) /\ ChainIs(chain)
    /\ repair \in BOOLEAN /\ goAway \in BOOLEAN
    /\ wpc = "read" => wire = "gemini-live" /\ session.open
    /\ wpc = "polling" => wire = "interactions"

\* The calls of message i in trial u: some number of them, counted from one.
Called(S, u, i) == \E k \in 0..WCalls : S = {<<u, i, c>> : c \in 1..k}

\* The conversation: instructions, then what the policy appended; calls are numbered.
Conversation ==
    /\ history \in Seq(WMessages)
    /\ \A i \in DOMAIN history :
         history[i].id = <<wtrial, i>> /\ Called(history[i].calls, wtrial, i)
    /\ wpc # "between" =>
         /\ Len(history) >= 3 /\ history[1].role = "system" /\ history[1].calls = {} /\ history[2].role = "user"
         /\ \A i \in 2..Len(history) : history[i].role # "system"
    /\ wpc = "answered" => history[Len(history)].role = "assistant"
    /\ wpc \in Asking \cup {"ask"} => history[Len(history)].role \in {"user", "tool"}

StreamedOf(u) == \A i \in DOMAIN streamed : streamed[i] = <<u, i>>
InTrial == StreamedOf(wtrial) /\ Len(streamed) <= Len(history)
Memory == IF wire = "gemini-live" THEN session.told ELSE chain.told

\* The provider was told everything up to the last reply, and can name what it called.
CaughtUp ==
    LET last == Len(streamed) + 1
    IN  /\ last <= Len(history) /\ history[last].role \notin {"user", "tool"}
        /\ Memory = Told(SubSeq(history, 1, last))
        /\ history[last].calls \subseteq named
        /\ \A i \in last + 1..Len(history) :
             /\ history[i].role \in {"user", "tool"}
             /\ history[i].role = "tool" => history[i].result \in history[last].calls

Streaming ==
    /\ streamed \in Seq(Nat \X Nat) /\ \E u \in 0..wtrial : StreamedOf(u)
    /\ repair \/ chain.known => streamed # <<>>
    /\ streamed = <<>> => chain.told = EmptyBag
    /\ ~session.open \/ repair => session.told = EmptyBag
    /\ wpc = "between" \/ wire # "gemini-live" => session = NoSession
    /\ wire \notin Stateless =>
         /\ wpc \in Asking \cup {"answered"} => InTrial
         /\ wpc = "ask" /\ ~InTrial =>
              /\ streamed # <<>> /\ streamed[1] # <<wtrial, 1>>
              /\ \A i \in 2..Len(history) : history[i].role = "user"
         /\ wpc \in {"ask", "send", "polling", "answered"} /\ InTrial /\ ~repair => CaughtUp
         /\ wpc = "read" => ~repair /\ Len(streamed) = Len(history) /\ session.told = Told(history)

RawKept ==
    wire \in Replays /\ wpc \in {"ask", "send", "answered"} =>
        \A i \in DOMAIN history : history[i].calls \subseteq replay

\* Rows with one number are of one complete(), and its attempts are in order.
RowsAre(c) ==
    /\ c = [sink |-> c.sink, call |-> c.call, rows |-> c.rows]
    /\ c.sink \in {"open", "closed", "dead"} /\ c.call \in Int /\ c.rows \in Seq(WRows)
    /\ \A i, j \in DOMAIN c.rows :
         /\ c.rows[i].call = c.rows[j].call <=> c.rows[i].of = c.rows[j].of
         /\ i < j /\ c.rows[i].call = c.rows[j].call => c.rows[i].attempt < c.rows[j].attempt

\* No row is ahead of the counter; those with its number are of the complete() that comes
\* after the given number of replies, if it made an attempt.
UpTo(c, replies, attempts) ==
    \A i \in DOMAIN c.rows :
      /\ c.rows[i].call <= c.call /\ c.rows[i].of <= replies
      /\ c.rows[i].of = replies <=> attempts > 0 /\ c.rows[i].call = c.call
      /\ c.rows[i].of = replies => c.rows[i].attempt < attempts

RowsKept ==
    /\ RowsAre(capture)
    /\ capture.sink = "open" =>
         /\ wpc \in {"ask", "answered"} => UpTo(capture, Replies, 0)
         /\ wpc \in Asking => UpTo(capture, Replies, wattempt)

\* No attempt follows the one whose reply named an accepted interaction.
HeardLast ==
    /\ heard \subseteq {wattempt} /\ unheard \subseteq 0..wattempt
    /\ wpc \in {"send", "read"} => heard = {} /\ wattempt \notin unheard

WInv == WPlaces /\ Conversation /\ Streaming /\ RawKept /\ RowsKept /\ AnswerSeesHistory /\ HeardLast

\* Two bags without repetition and without a common element make one without repetition.
LEMMA BagsJoin ==
    ASSUME NEW S, NEW T, S \cap T = {}
    PROVE  SetToBag(S) (+) SetToBag(T) = SetToBag(S \cup T)
<1> DEFINE A == SetToBag(S)
           B == SetToBag(T)
           J == A (+) B
<1>1. /\ DOMAIN A = S /\ DOMAIN B = T /\ (\A e \in S : A[e] = 1) /\ (\A e \in T : B[e] = 1)
  BY DEF SetToBag
<1>2. J = [e \in S \cup T |-> (IF e \in S THEN A[e] ELSE 0) + (IF e \in T THEN B[e] ELSE 0)]
  <2> HIDE DEF A, B
  <2> QED BY <1>1 DEF (+)
<1> HIDE DEF A, B, J
<1>3. ASSUME NEW e \in S \cup T
      PROVE  (IF e \in S THEN A[e] ELSE 0) + (IF e \in T THEN B[e] ELSE 0) = 1
  <2>1. CASE e \in S
    <3>1. e \notin T /\ A[e] = 1
      BY <2>1, <1>1
    <3> QED BY <2>1, <3>1
  <2>2. CASE e \in T
    <3>1. e \notin S /\ B[e] = 1
      BY <2>2, <1>1
    <3> QED BY <2>2, <3>1
  <2> QED BY <2>1, <2>2
<1>4. J = [e \in S \cup T |-> 1]
  BY <1>2, <1>3
<1> QED BY <1>4 DEF SetToBag, A, B, J

\* Of a conversation in trial u, the identities of messages m to n that a model is told.
Tellable(u, h, m, n) == {<<u, i>> : i \in {k \in m..n : h[k].role # "system"}}
Numbered(u, h) == h \in Seq(WMessages) /\ \A i \in DOMAIN h : h[i].id = <<u, i>>

\* What a part of a conversation holds.
LEMMA PartIs ==
    ASSUME NEW u, NEW h, Numbered(u, h), NEW m \in Nat \ {0}, NEW n \in Nat, n <= Len(h)
    PROVE  Elements(SubSeq(h, m, n)) = {h[k] : k \in m..n}
<1> DEFINE q == SubSeq(h, m, n)
<1>1. DOMAIN h = 1..Len(h) /\ Len(h) \in Nat
  BY LenProperties DEF Numbered
<1>2. \A i \in m..n : h[i] \in WMessages
  BY <1>1 DEF Numbered
<1>3. q \in Seq(WMessages) /\ Len(q) = (IF m <= n THEN n - m + 1 ELSE 0)
      /\ \A i \in 1..n - m + 1 : q[i] = h[m + i - 1]
  BY <1>2, SubSeqProperties
<1> HIDE DEF q
<1>4. DOMAIN q = 1..n - m + 1
  <2>1. DOMAIN q = 1..Len(q)
    BY <1>3, LenProperties
  <2> QED BY <1>3, <2>1
<1>5. ASSUME NEW x \in Elements(q) PROVE \E k \in m..n : x = h[k]
  <2>1. PICK i \in 1..n - m + 1 : x = q[i]
    BY <1>4 DEF Elements
  <2>2. m + i - 1 \in m..n /\ x = h[m + i - 1]
    BY <1>3, <2>1
  <2> QED BY <2>2
<1>6. ASSUME NEW k \in m..n PROVE h[k] \in Elements(q)
  <2>1. k - m + 1 \in 1..n - m + 1 /\ m + (k - m + 1) - 1 = k
    OBVIOUS
  <2>2. q[k - m + 1] = h[k]
    BY <1>3, <2>1
  <2> QED BY <1>4, <2>1, <2>2 DEF Elements
<1> QED BY <1>5, <1>6 DEF q

\* What telling a part of a conversation adds: its messages but the system's, once each.
LEMMA ToldOf ==
    ASSUME NEW u, NEW h, Numbered(u, h), NEW m \in Nat \ {0}, NEW n \in Nat, n <= Len(h)
    PROVE  Told(SubSeq(h, m, n)) = SetToBag(Tellable(u, h, m, n))
<1> DEFINE q == SubSeq(h, m, n)
           T == {x.id : x \in {y \in Elements(q) : y.role # "system"}}
<1>1. DOMAIN h = 1..Len(h) /\ Len(h) \in Nat
  BY LenProperties DEF Numbered
<1>2. \A i \in m..n : h[i] \in WMessages /\ h[i].id = <<u, i>>
  BY <1>1 DEF Numbered
<1>5. Elements(q) = {h[k] : k \in m..n}
  BY PartIs
<1> HIDE DEF q
<1>6. T = Tellable(u, h, m, n)
  <2>1. ASSUME NEW i \in T PROVE i \in Tellable(u, h, m, n)
    <3>1. PICK x \in Elements(q) : x.role # "system" /\ i = x.id
      OBVIOUS
    <3>2. PICK k \in m..n : x = h[k]
      BY <1>5, <3>1
    <3> QED BY <1>2, <3>1, <3>2 DEF Tellable
  <2>2. ASSUME NEW i \in Tellable(u, h, m, n) PROVE i \in T
    <3>1. PICK k \in m..n : h[k].role # "system" /\ i = <<u, k>>
      BY DEF Tellable
    <3>2. h[k] \in Elements(q) /\ h[k].id = i
      BY <1>2, <1>5, <3>1
    <3> QED BY <3>1, <3>2
  <2> QED BY <2>1, <2>2
<1> QED BY <1>6 DEF Told, q

\* The messages the policy appended, when none of them is a reply or the instructions.
LEMMA SaidIsTold ==
    ASSUME NEW q, \A x \in Elements(q) : x.role \in {"user", "tool"}
    PROVE  Said(q) = Told(q)
<1>1. {x \in Elements(q) : x.role # "system"} = {x \in Elements(q) : x.role \in {"user", "tool"}}
  OBVIOUS
<1> QED BY <1>1 DEF Said, Told

\* Parts of a conversation that follow one another.
LEMMA ToldJoin ==
    ASSUME NEW u, NEW h, NEW m \in Nat, NEW k \in Nat, NEW n \in Nat, m <= k + 1, k <= n
    PROVE  SetToBag(Tellable(u, h, m, k)) (+) SetToBag(Tellable(u, h, k + 1, n)) = SetToBag(Tellable(u, h, m, n))
<1>1. Tellable(u, h, m, k) \cap Tellable(u, h, k + 1, n) = {}
  <2> SUFFICES ASSUME NEW x \in Tellable(u, h, m, k), x \in Tellable(u, h, k + 1, n) PROVE FALSE
    OBVIOUS
  <2>1. PICK i \in m..k : x = <<u, i>>
    BY DEF Tellable
  <2>2. PICK j \in k + 1..n : x = <<u, j>>
    BY DEF Tellable
  <2>3. i = j
    BY <2>1, <2>2
  <2> QED BY <2>3
<1>2. Tellable(u, h, m, k) \cup Tellable(u, h, k + 1, n) = Tellable(u, h, m, n)
  <2>1. m..n = (m..k) \cup (k + 1..n)
    OBVIOUS
  <2> QED BY <2>1 DEF Tellable
<1> QED BY <1>1, <1>2, BagsJoin

\* What is told of a conversation depends on its messages only.
LEMMA ToldOfSame ==
    ASSUME NEW u, NEW g, NEW h, NEW m \in Nat, NEW n \in Nat, \A k \in m..n : g[k] = h[k]
    PROVE  Tellable(u, g, m, n) = Tellable(u, h, m, n)
BY DEF Tellable

\* A conversation folded into one prompt is all of it, once.
LEMMA FoldIs ==
    ASSUME NEW u, NEW h, Numbered(u, h), Len(h) >= 2, h[2].role = "user"
    PROVE  Fold(h) = SetToBag(Tellable(u, h, 1, Len(h)))
<1> DEFINE users == {i \in DOMAIN h : h[i].role = "user"}
           L == Len(h)
           anchor == CHOOSE i \in users : \A j \in users : j <= i
           back == {L - i : i \in users}
<1>1. DOMAIN h = 1..L /\ L \in Nat
  BY LenProperties DEF Numbered
<1>2. users \subseteq 1..L /\ 2 \in users
  BY <1>1
<1>3. \E i \in users : \A j \in users : j <= i
  <2> HIDE DEF users, L
  <2>1. back \subseteq Nat /\ back # {}
    BY <1>1, <1>2
  <2>2. PICK b \in back : \A c \in back : b <= c
    <3> HIDE DEF back
    <3> QED BY <2>1, LeastNumber
  <2>3. PICK i \in users : b = L - i
    OBVIOUS
  <2>4. ASSUME NEW j \in users PROVE j <= i
    <3>1. L - j \in back
      OBVIOUS
    <3>2. b <= L - j
      BY <2>2, <3>1
    <3>3. i \in 1..L /\ j \in 1..L
      BY <1>2, <2>3
    <3> QED BY <1>1, <2>3, <3>2, <3>3
  <2> QED BY <2>4
<1>4. anchor \in users
  <2> HIDE DEF users
  <2> QED BY <1>3
<1> DEFINE A == SetToBag(Tellable(u, h, 1, anchor - 1))
           Z == SetToBag(Tellable(u, h, anchor + 1, L))
           M == SetToBag({h[anchor].id})
<1>5. anchor \in 1..L /\ h[anchor].role = "user" /\ h[anchor].id = <<u, anchor>>
  BY <1>1, <1>4 DEF Numbered
<1>6. Fold(h) = (Told(SubSeq(h, 1, anchor - 1)) (+) Told(SubSeq(h, anchor + 1, L))) (+) M
  BY Zenon DEF Fold
<1> HIDE DEF anchor, users, L
<1>7. Told(SubSeq(h, 1, anchor - 1)) = A /\ Told(SubSeq(h, anchor + 1, L)) = Z
  <2>1. anchor - 1 \in Nat /\ anchor - 1 <= L /\ anchor + 1 \in Nat \ {0} /\ 1 \in Nat \ {0}
    BY <1>1, <1>5
  <2> QED BY <1>1, <2>1, ToldOf DEF L
<1> DEFINE P == Tellable(u, h, 1, anchor - 1)
           Q == Tellable(u, h, anchor + 1, L)
<1>8. P \cap Q = {} /\ (P \cup Q) \cap {h[anchor].id} = {} /\ (P \cup Q) \cup {h[anchor].id} = Tellable(u, h, 1, L)
  <2>1. \A i \in 1..anchor - 1, j \in anchor + 1..L : i # j /\ i # anchor /\ j # anchor
    BY <1>1, <1>5
  <2>2. 1..L = (1..anchor - 1) \cup {anchor} \cup (anchor + 1..L)
    BY <1>1, <1>5
  <2>3. ASSUME NEW x \in P, x \in Q PROVE FALSE
    <3>1. PICK i \in 1..anchor - 1 : x = <<u, i>>
      BY DEF Tellable
    <3>2. PICK j \in anchor + 1..L : x = <<u, j>>
      BY <2>3 DEF Tellable
    <3>3. i = j
      BY <3>1, <3>2
    <3> QED BY <2>1, <3>3
  <2>4. <<u, anchor>> \notin P /\ <<u, anchor>> \notin Q
    <3>1. ASSUME <<u, anchor>> \in P PROVE FALSE
      <4>1. PICK i \in 1..anchor - 1 : <<u, anchor>> = <<u, i>>
        BY <3>1 DEF Tellable
      <4> QED BY <1>5, <4>1
    <3>2. ASSUME <<u, anchor>> \in Q PROVE FALSE
      <4>1. PICK i \in anchor + 1..L : <<u, anchor>> = <<u, i>>
        BY <3>2 DEF Tellable
      <4> QED BY <1>5, <4>1
    <3> QED BY <3>1, <3>2
  <2>5. P \cup Q \cup {<<u, anchor>>} = Tellable(u, h, 1, L)
    BY <1>5, <2>2 DEF Tellable
  <2> HIDE DEF P, Q
  <2> QED BY <1>5, <2>3, <2>4, <2>5
<1> HIDE DEF A, Z, M
<1>9. A (+) Z = SetToBag(P \cup Q)
  <2> HIDE DEF P, Q
  <2>1. A = SetToBag(P) /\ Z = SetToBag(Q)
    BY DEF A, Z, P, Q
  <2> QED BY <1>8, <2>1, BagsJoin
<1>10. (A (+) Z) (+) M = SetToBag(Tellable(u, h, 1, L))
  <2> HIDE DEF P, Q
  <2> QED BY <1>8, <1>9, BagsJoin DEF M
<1> QED BY <1>6, <1>7, <1>10 DEF L

CallsAt(u, i, k) == {<<u, i, c>> : c \in 1..k}

\* A reply's calls are as many as their numbers.
LEMMA CallsCount ==
    ASSUME NEW u, NEW i, NEW k \in Nat
    PROVE  Cardinality(CallsAt(u, i, k)) = k
<1> DEFINE C == {<<u, i, c>> : c \in 1..k}
           f == [c \in 1..k |-> <<u, i, c>>]
<1>1. f \in Bijection(1..k, C)
  <2>1. f \in [1..k -> C]
    OBVIOUS
  <2>2. \A c, d \in 1..k : f[c] = f[d] => c = d
    OBVIOUS
  <2>3. \A x \in C : \E c \in 1..k : f[c] = x
    OBVIOUS
  <2> HIDE DEF f, C
  <2> QED BY <2>1, <2>2, <2>3 DEF Bijection, Injection, IsInjective, Surjection
<1> HIDE DEF f, C
<1>2. ExistsBijection(1..k, C)
  BY <1>1 DEF ExistsBijection
<1>3. IsFiniteSet(1..k) /\ Cardinality(1..k) = k
  <2>1. IsFiniteSet(1..k) /\ Cardinality(1..k) = (IF 1 > k THEN 0 ELSE k - 1 + 1)
    BY FS_Interval
  <2> QED BY <2>1
<1>4. Cardinality(C) = k
  BY <1>2, <1>3, FS_Bijection
<1> QED BY <1>4 DEF C, CallsAt

RepliesIn(h) == {i \in DOMAIN h : h[i].role = "assistant"}

\* A reply is the next message, and one reply more.
LEMMA Replied ==
    ASSUME WPlaces, Conversation, NEW k \in 0..WCalls, history' = Append(history, Reply(k)), wtrial' = wtrial
    PROVE  /\ DOMAIN history = 1..Len(history) /\ Len(history) \in Nat /\ Len(history') = Len(history) + 1
           /\ history' \in Seq(WMessages) /\ DOMAIN history' = 1..Len(history) + 1
           /\ \A i \in 1..Len(history) : history'[i] = history[i]
           /\ history'[Len(history) + 1] = Reply(k)
           /\ Reply(k) \in WMessages /\ Reply(k).id = <<wtrial, Len(history) + 1>> /\ Reply(k).role = "assistant"
           /\ Reply(k).calls = {<<wtrial, Len(history) + 1, c>> : c \in 1..k}
           /\ Replies \in Nat /\ Replies' = Replies + 1
<1> DEFINE n == Len(history) + 1
<1>1. DOMAIN history = 1..Len(history) /\ Len(history) \in Nat /\ history \in Seq(WMessages)
  BY LenProperties DEF Conversation
<1>2. wtrial \in Nat /\ WCalls \in Nat
  BY WireAssumption DEF WPlaces
<1>3. /\ Reply(k).id = <<wtrial, n>> /\ Reply(k).role = "assistant" /\ Reply(k).result = <<>>
      /\ Reply(k).calls = {<<wtrial, n, c>> : c \in 1..k}
      /\ Reply(k) \in WMessages
  <2>1. {<<wtrial, n, c>> : c \in 1..k} \in SUBSET (Nat \X Nat \X Nat)
    BY <1>1, <1>2
  <2>2. <<wtrial, n>> \in Nat \X Nat
    BY <1>1, <1>2
  <2>3. Reply(k) = [id |-> <<wtrial, n>>, role |-> "assistant", calls |-> {<<wtrial, n, c>> : c \in 1..k},
                    result |-> <<>>]
    BY DEF Reply, Message
  <2> QED BY <2>1, <2>2, <2>3 DEF WMessages
<1>4. /\ history' \in Seq(WMessages) /\ Len(history') = n /\ history'[n] = Reply(k)
      /\ \A i \in 1..Len(history) : history'[i] = history[i]
  BY <1>1, <1>3, AppendProperties
<1>5. DOMAIN history' = 1..n
  BY <1>4, LenProperties
<1>6. RepliesIn(history') = RepliesIn(history) \cup {n} /\ n \notin RepliesIn(history)
  BY <1>1, <1>3, <1>4, <1>5 DEF RepliesIn
<1>7. IsFiniteSet(RepliesIn(history))
  <2>1. IsFiniteSet(1..Len(history)) /\ RepliesIn(history) \subseteq 1..Len(history)
    BY <1>1, FS_Interval DEF RepliesIn
  <2> QED BY <2>1, FS_Subset
<1>8. Cardinality(RepliesIn(history)) \in Nat
      /\ Cardinality(RepliesIn(history')) = Cardinality(RepliesIn(history)) + 1
  BY <1>6, <1>7, FS_CardinalityType, FS_AddElement
<1>9. Replies = Cardinality(RepliesIn(history)) /\ Replies' = Cardinality(RepliesIn(history'))
  BY DEF Replies, RepliesIn
<1> QED BY <1>1, <1>3, <1>4, <1>5, <1>8, <1>9

\* What the policy appends answers the last reply's calls, and is no reply.
LEMMA Continuing ==
    ASSUME WPlaces, Conversation, ContinueConversation
    PROVE  /\ DOMAIN history = 1..Len(history) /\ Len(history) \in Nat
           /\ history' \in Seq(WMessages) /\ Len(history') > Len(history) /\ DOMAIN history' = 1..Len(history')
           /\ Len(history') \in Nat
           /\ \A i \in 1..Len(history) : history'[i] = history[i]
           /\ \A i \in Len(history) + 1..Len(history') :
                /\ history'[i].id = <<wtrial, i>> /\ history'[i].calls = {}
                /\ history'[i].role \in {"user", "tool"}
                /\ history'[i].role = "tool" => history'[i].result \in history[Len(history)].calls
           /\ Replies' = Replies
<1> DEFINE n == Len(history)
           asked == history[n].calls
           results == [c \in 1..Cardinality(asked) |-> Message("tool", {}, <<wtrial, n, c>>, n + c)]
           m == n + Len(results)
           rest(more) == IF more THEN <<Message("user", {}, <<>>, m + 1)>> ELSE <<>>
<1>1. DOMAIN history = 1..n /\ n \in Nat /\ history \in Seq(WMessages) /\ n >= 3
  BY LenProperties DEF Conversation, ContinueConversation
<1>2. wtrial \in Nat /\ WCalls \in Nat
  BY WireAssumption DEF WPlaces
<1>3. PICK k \in 0..WCalls : asked = {<<wtrial, n, c>> : c \in 1..k}
  BY <1>1 DEF Conversation, Called
<1>4. k \in Nat /\ Cardinality(asked) = k
  <2>1. k \in Nat
    BY <1>2
  <2>2. asked = CallsAt(wtrial, n, k)
    BY <1>3 DEF CallsAt
  <2> HIDE DEF asked, n
  <2> QED BY <2>1, <2>2, CallsCount
<1>5. PICK more \in IF asked = {} THEN {TRUE} ELSE BOOLEAN : history' = (history \o results) \o rest(more)
  BY DEF ContinueConversation
<1>6. \A i \in Nat, r \in {<<>>} \cup (Nat \X Nat \X Nat), role \in {"user", "tool"} :
        /\ Message(role, {}, r, i) \in WMessages /\ Message(role, {}, r, i).id = <<wtrial, i>>
        /\ Message(role, {}, r, i).calls = {} /\ Message(role, {}, r, i).role = role
        /\ Message(role, {}, r, i).result = r
  BY <1>2 DEF Message, WMessages
<1>7. /\ results \in Seq(WMessages) /\ Len(results) = k
      /\ \A c \in 1..k : results[c] = Message("tool", {}, <<wtrial, n, c>>, n + c)
  <2> HIDE DEF asked
  <2>1. \A c \in 1..k : <<wtrial, n, c>> \in Nat \X Nat \X Nat /\ n + c \in Nat
    BY <1>1, <1>2, <1>4
  <2>2. results \in [1..k -> WMessages]
    BY <1>4, <1>6, <2>1
  <2>3. results \in Seq(WMessages)
    BY <1>4, <2>2, SeqDef
  <2>4. DOMAIN results = 1..k
    BY <1>4
  <2> HIDE DEF results
  <2>5. Len(results) = k
    BY <1>4, <2>3, <2>4, LenProperties
  <2> QED BY <2>3, <2>5, <1>4 DEF results
<1> DEFINE both == history \o results
<1>8. /\ both \in Seq(WMessages) /\ Len(both) = n + k
      /\ \A i \in 1..n + k : both[i] = IF i <= n THEN history[i] ELSE results[i - n]
  <2> HIDE DEF results
  <2> QED BY <1>1, <1>7, ConcatProperties
<1>9. /\ rest(more) \in Seq(WMessages) /\ Len(rest(more)) \in 0..1 /\ (k = 0 => Len(rest(more)) = 1)
      /\ Len(rest(more)) = 1 => rest(more)[1] = Message("user", {}, <<>>, n + k + 1)
  <2> DEFINE x == Message("user", {}, <<>>, n + k + 1)
  <2>1. m = n + k
    BY <1>7
  <2>2. x \in WMessages
    BY <1>1, <1>4, <1>6
  <2>3. k = 0 => asked = {}
    BY <1>3
  <2>4. more \in BOOLEAN /\ (k = 0 => more)
    BY <2>3
  <2>5. rest(more) = IF more THEN <<x>> ELSE <<>>
    BY <2>1
  <2> HIDE DEF x, rest
  <2>6. CASE more
    <3>1. rest(more) = <<x>>
      BY <2>5, <2>6
    <3> QED BY <3>1, <2>2 DEF x
  <2>7. CASE ~more
    <3>1. rest(more) = <<>>
      BY <2>5, <2>7
    <3>2. Len(rest(more)) = 0 /\ rest(more) \in Seq(WMessages)
      BY <3>1, EmptySeq
    <3> QED BY <3>2, <2>4, <2>7
  <2> QED BY <2>4, <2>6, <2>7
<1> DEFINE e == rest(more)
<1> HIDE DEF both, results, rest, e
<1>10. /\ history' \in Seq(WMessages) /\ Len(history') = n + k + Len(e)
       /\ \A i \in 1..n + k + Len(e) : history'[i] = IF i <= n + k THEN both[i] ELSE e[i - (n + k)]
  <2>1. history' = both \o e /\ e \in Seq(WMessages)
    BY <1>5, <1>9 DEF both, e
  <2>2. /\ both \o e \in Seq(WMessages) /\ Len(both \o e) = Len(both) + Len(e)
        /\ \A i \in 1..Len(both) + Len(e) : (both \o e)[i] = IF i <= Len(both) THEN both[i] ELSE e[i - Len(both)]
    BY <1>8, <2>1, ConcatProperties
  <2> QED BY <1>8, <2>1, <2>2
<1>11. Len(e) \in 0..1 /\ (k = 0 => Len(e) = 1) /\ (Len(e) = 1 => e[1] = Message("user", {}, <<>>, n + k + 1))
  BY <1>9 DEF e
<1>12. Len(history') > n /\ Len(history') \in Nat /\ DOMAIN history' = 1..Len(history')
  BY <1>1, <1>4, <1>10, <1>11, LenProperties
<1>13. \A i \in 1..n : history'[i] = history[i]
  BY <1>1, <1>4, <1>8, <1>10, <1>11
<1>14. ASSUME NEW i \in n + 1..Len(history')
       PROVE  /\ history'[i].id = <<wtrial, i>> /\ history'[i].calls = {}
              /\ history'[i].role \in {"user", "tool"}
              /\ history'[i].role = "tool" => history'[i].result \in asked
  <2>1. CASE i <= n + k
    <3>1. i - n \in 1..k /\ n + (i - n) = i /\ i \in Nat
      BY <1>1, <1>4, <2>1
    <3>2. history'[i] = Message("tool", {}, <<wtrial, n, i - n>>, i)
      BY <1>1, <1>4, <1>7, <1>8, <1>10, <1>11, <2>1, <3>1
    <3>3. <<wtrial, n, i - n>> \in asked /\ <<wtrial, n, i - n>> \in Nat \X Nat \X Nat
      BY <1>1, <1>2, <1>3, <1>4, <3>1
    <3> HIDE DEF asked, n
    <3> DEFINE x == Message("tool", {}, <<wtrial, n, i - n>>, i)
    <3>4. x.id = <<wtrial, i>> /\ x.calls = {} /\ x.role = "tool" /\ x.result = <<wtrial, n, i - n>>
      BY <1>6, <3>1, <3>3
    <3>5. history'[i] = x
      BY <3>2
    <3> HIDE DEF x
    <3> QED BY <3>3, <3>4, <3>5
  <2>2. CASE ~(i <= n + k)
    <3> DEFINE w == Len(e)
    <3>0. /\ n \in Nat /\ k \in Nat /\ w \in 0..1
          /\ i \in n + 1..n + k + w /\ ~(i <= n + k)
      BY <1>1, <1>10, <1>11, <2>2
    <3>1. i = n + k + 1 /\ Len(e) = 1 /\ i \in Nat /\ i - (n + k) = 1
      <4> HIDE DEF w, n
      <4>1. w = 1 /\ i = n + k + 1 /\ i \in Nat
        BY <3>0
      <4> QED BY <3>0, <4>1 DEF w
    <3>2. history'[i] = Message("user", {}, <<>>, i)
      BY <1>1, <1>4, <1>10, <1>11, <2>2, <3>1
    <3> DEFINE x == Message("user", {}, <<>>, i)
    <3>3. x.id = <<wtrial, i>> /\ x.calls = {} /\ x.role = "user"
      BY <1>6, <3>1
    <3>4. history'[i] = x
      BY <3>2
    <3> HIDE DEF x
    <3> QED BY <3>3, <3>4
  <2> QED BY <2>1, <2>2
<1>15. Replies' = Replies
  <2>1. RepliesIn(history') = RepliesIn(history)
    BY <1>1, <1>12, <1>13, <1>14 DEF RepliesIn
  <2> QED BY <2>1 DEF Replies, RepliesIn
<1> QED BY <1>1, <1>10, <1>12, <1>13, <1>14, <1>15

\* The records of a session and of a chain keep their shape when only what they were told
\* changes.
LEMMA ShapesAre ==
    /\ SessionIs(NoSession) /\ ChainIs(NoChain) /\ NoSession.open = FALSE /\ NoChain.known = FALSE
    /\ NoSession.told = EmptyBag /\ NoChain.told = EmptyBag
    /\ \A s, words : SessionIs(s) => /\ SessionIs([s EXCEPT !.told = words])
                                    /\ [s EXCEPT !.told = words].open = s.open
                                    /\ [s EXCEPT !.told = words].told = words
    /\ \A words : /\ SessionIs([open |-> TRUE, told |-> words]) /\ ChainIs([known |-> TRUE, told |-> words])
                 /\ [open |-> TRUE, told |-> words].open
                 /\ [open |-> TRUE, told |-> words].told = words /\ [known |-> TRUE, told |-> words].told = words
BY DEF SessionIs, ChainIs, NoSession, NoChain

\* What losing the session leaves.
LEMMA Dropped == DropSession => session' = NoSession /\ goAway' = FALSE /\ repair' \in BOOLEAN
BY Zenon DEF DropSession

\* What a session that is going away leaves.
LEMMA LeftGone ==
    ASSUME LeaveGoneSession, repair \in BOOLEAN, goAway \in BOOLEAN
    PROVE  /\ repair' \in BOOLEAN /\ goAway' \in BOOLEAN
           /\ session' = NoSession \/ (session' = session /\ repair' = repair)
<1>1. CASE goAway
  BY <1>1, Zenon DEF LeaveGoneSession
<1>2. CASE ~goAway
  BY <1>2, Zenon DEF LeaveGoneSession
<1> QED BY <1>1, <1>2

\* The counters keep within their bounds, and the phases of the wires apart.
LEMMA WPlacesStep == WPlaces /\ [WNext]_wireVars => WPlaces'
<1> SUFFICES ASSUME WPlaces, [WNext]_wireVars PROVE WPlaces'
  OBVIOUS
<1>k. /\ MaxRetries \in Nat /\ MaxRetries >= 1 /\ WTrials \in Nat /\ WPolls \in Nat
      /\ wtrial \in 0..WTrials /\ wattempt \in 0..MaxRetries - 1 /\ polls \in 0..WPolls
  BY WireAssumption DEF WPlaces
<1> USE DEF WPlaces, clientVars, postVars, statelessRest, liveRest, chainRest, Asking
<1> USE ShapesAre
<1>r. ASSUME TryAgain PROVE wattempt' \in 0..MaxRetries - 1 /\ wpc' \in {"send", "failed"}
  BY <1>k, <1>r DEF TryAgain
<1>0. CASE UNCHANGED wireVars
  BY <1>0 DEF wireVars
<1>1. CASE StartConversation
  BY <1>1, <1>k DEF StartConversation
<1>2. CASE EndConversation
  <2>1. wpc' = "between" /\ UNCHANGED <<wire, wtrial, wattempt, polls, chain>>
    BY <1>2 DEF EndConversation
  <2>2. CASE wire = "gemini-live"
    <3>1. session' = NoSession /\ goAway' = FALSE /\ repair' \in BOOLEAN
      BY <1>2, <2>2, Zenon DEF EndConversation
    <3> QED BY <1>k, <2>1, <3>1
  <2>3. CASE wire # "gemini-live"
    <3>1. UNCHANGED <<session, goAway, repair>>
      BY <1>2, <2>3 DEF EndConversation
    <3> QED BY <1>k, <2>1, <3>1
  <2> QED BY <2>2, <2>3
<1>3. CASE ContinueConversation
  BY <1>3, <1>k DEF ContinueConversation
<1>4. CASE Ask
  <2>1. wattempt' = 0 /\ wpc' \in {"send", "failed"}
        /\ UNCHANGED <<wire, wtrial, polls>>
    BY <1>4 DEF Ask
  <2>2. \/ UNCHANGED <<session, chain, repair, goAway>>
        \/ UNCHANGED chain /\ LeaveGoneSession
        \/ ForgetTrial
    BY <1>4 DEF Ask
  <2>3. CASE LeaveGoneSession /\ UNCHANGED chain
    BY <1>k, <2>1, <2>3, LeftGone
  <2>4. CASE ForgetTrial
    <3>1. session' = NoSession /\ chain' = NoChain /\ repair' = FALSE /\ goAway' = FALSE
      BY <2>4 DEF ForgetTrial
    <3>2. SessionIs(session') /\ ChainIs(chain') /\ repair' \in BOOLEAN /\ goAway' \in BOOLEAN
      BY <3>1
    <3> QED BY <1>k, <2>1, <3>2
  <2>5. CASE UNCHANGED <<session, chain, repair, goAway>>
    BY <1>k, <2>1, <2>5
  <2> QED BY <2>2, <2>3, <2>4, <2>5
<1>5. CASE ChatPost \/ ResponsesPost \/ MessagesPost
  <2>1. /\ wpc = "send" /\ UNCHANGED statelessRest
        /\ TryAgain \/ (wpc' \in {"failed", "answered"} /\ UNCHANGED wattempt)
    BY <1>5 DEF ChatPost, ResponsesPost, MessagesPost, NoReply, Answered
  <2> QED BY <1>k, <1>r, <2>1
<1>6. CASE LiveOpen
  <2>1. CASE Recoverable
    BY <1>6, <1>k, <1>r, <2>1, Dropped DEF LiveOpen, Recoverable
  <2>2. CASE /\ session' = [open |-> TRUE, told |-> EmptyBag] /\ goAway' \in {goAway, TRUE}
             /\ UNCHANGED <<wpc, wattempt, repair, capture>>
    BY <1>6, <1>k, <2>2 DEF LiveOpen
  <2> QED BY <1>6, <2>1, <2>2 DEF LiveOpen
<1>7. CASE LiveSend
  <2>1. wpc = "send" /\ wire = "gemini-live" /\ UNCHANGED liveRest /\ session.open
    BY <1>7 DEF LiveSend
  <2>2. CASE Recoverable
    BY <1>k, <1>r, <2>1, <2>2, Dropped DEF Recoverable
  <2>3. CASE Unrecoverable
    BY <1>k, <2>1, <2>3 DEF Unrecoverable
  <2>4. CASE Recover /\ wpc' = "read" /\ UNCHANGED <<wattempt, goAway, capture>>
    <3>1. SessionIs(session') /\ session'.open = session.open /\ repair' \in BOOLEAN
      BY <2>4 DEF Recover
    <3> QED BY <1>k, <2>1, <2>4, <3>1
  <2>5. CASE SendSuffix /\ wpc' = "read" /\ UNCHANGED <<wattempt, goAway, capture>>
    <3>1. SessionIs(session') /\ session'.open = session.open /\ repair' = repair
      BY <2>5 DEF SendSuffix
    <3> QED BY <1>k, <2>1, <2>5, <3>1
  <2> QED BY <1>7, <2>2, <2>3, <2>4, <2>5 DEF LiveSend
<1>8. CASE LiveRead
  <2>1. wpc = "read" /\ wire = "gemini-live" /\ UNCHANGED liveRest
    BY <1>8 DEF LiveRead
  <2>2. CASE Recoverable
    <3>1. SessionIs(session') /\ repair' \in BOOLEAN /\ goAway' \in BOOLEAN
          /\ wattempt' \in 0..MaxRetries - 1 /\ wpc' \in {"send", "failed"}
      BY <1>r, <2>2, Dropped DEF Recoverable
    <3> QED BY <1>k, <2>1, <3>1
  <2>3. CASE Unrecoverable
    BY <1>k, <2>1, <2>3 DEF Unrecoverable
  <2>4. CASE \E k \in 0..WCalls :
               /\ Answered(k, session.told)
               /\ session' = [session EXCEPT !.told = @ (+) SetToBag({Reply(k).id})]
               /\ goAway' \in {goAway, TRUE} /\ UNCHANGED repair
    <3>1. PICK k \in 0..WCalls :
            /\ Answered(k, session.told) /\ UNCHANGED repair /\ goAway' \in {goAway, TRUE}
            /\ session' = [session EXCEPT !.told = @ (+) SetToBag({Reply(k).id})]
      BY <2>4
    <3> DEFINE words == session.told (+) SetToBag({Reply(k).id})
    <3>2. session' = [session EXCEPT !.told = words]
      BY <3>1
    <3> HIDE DEF words
    <3>3. SessionIs(session')
      BY <3>2
    <3>4. repair' = repair /\ goAway' \in BOOLEAN /\ wpc' = "answered" /\ wattempt' = wattempt
      BY <3>1 DEF Answered
    <3> QED BY <1>k, <2>1, <3>3, <3>4
  <2> QED BY <1>8, <2>2, <2>3, <2>4 DEF LiveRead
<1>9. CASE InteractionPost
  <2>1. /\ wpc = "send" /\ wire = "interactions" /\ UNCHANGED <<wire, wtrial, session, chain, goAway>>
        /\ \/ wpc' = "polling" /\ polls' = 0 /\ UNCHANGED <<wattempt, repair>>
           \/ TryAgain /\ repair' \in {repair, TRUE} /\ UNCHANGED polls
           \/ wpc' = "failed" /\ UNCHANGED <<wattempt, repair, polls>>
    BY <1>9 DEF InteractionPost, ChainLost, PostLost, PostUnreadable, PostRefused, postVars
  <2>2. CASE wpc' = "polling" /\ polls' = 0 /\ UNCHANGED <<wattempt, repair>>
    BY <1>k, <2>1, <2>2
  <2>3. CASE TryAgain /\ repair' \in {repair, TRUE} /\ UNCHANGED polls
    BY <1>k, <1>r, <2>1, <2>3
  <2>4. CASE wpc' = "failed" /\ UNCHANGED <<wattempt, repair, polls>>
    BY <1>k, <2>1, <2>4
  <2> QED BY <2>1, <2>2, <2>3, <2>4
<1>10. CASE PollAgain
  BY <1>10, <1>k DEF PollAgain
<1>11. CASE GivePollingUp
  BY <1>11, <1>k DEF GivePollingUp, PollFails
<1>12. CASE InteractionFinishes
  <2>k. PICK k \in 0..WCalls :
          /\ Answered(k, Continued)
          /\ chain' = [known |-> TRUE, told |-> Continued (+) SetToBag({Reply(k).id})]
          /\ repair' = FALSE
    BY <1>12 DEF InteractionFinishes
  <2> DEFINE words == Continued (+) SetToBag({Reply(k).id})
  <2>1. /\ wpc' = "answered" /\ repair' = FALSE /\ chain' = [known |-> TRUE, told |-> words]
        /\ UNCHANGED <<wire, wtrial, session, goAway, polls, wattempt>>
    BY <1>12, <2>k DEF InteractionFinishes, Answered
  <2> HIDE DEF words
  <2>2. ChainIs(chain') /\ repair' \in BOOLEAN
    BY <2>1
  <2> QED BY <1>k, <2>1, <2>2
<1> QED
  BY <1>0, <1>1, <1>2, <1>3, <1>4, <1>5, <1>6, <1>7, <1>8, <1>9, <1>10, <1>11, <1>12 DEF WNext

\* Inside complete() and outside it the conversation is left alone, but for a reply.
LEMMA SameConversation ==
    ASSUME Conversation, UNCHANGED <<history, wtrial>>, wpc' = "between" \/ wpc # "between",
           wpc' = "answered" => wpc = "answered",
           wpc' \in {"ask", "send", "read", "polling"} => wpc \in {"ask", "send", "read", "polling"}
    PROVE  Conversation'
BY DEF Conversation, Asking

\* A message without calls calls nothing, under any name.
LEMMA NoCalls == \A u, i : Called({}, u, i)
<1> SUFFICES ASSUME NEW u, NEW i PROVE Called({}, u, i)
  OBVIOUS
<1>1. 0 \in 0..WCalls /\ {} = {<<u, i, c>> : c \in 1..0}
  BY WireAssumption
<1> QED BY <1>1 DEF Called

\* A reply is numbered after the last message, and so are its calls.
LEMMA RepliedConversation ==
    ASSUME WPlaces, Conversation, wpc # "between", NEW k \in 0..WCalls, NEW context, Answered(k, context),
           wtrial' = wtrial
    PROVE  Conversation'
<1> DEFINE n == Len(history)
<1>1. /\ DOMAIN history = 1..n /\ n \in Nat /\ Len(history') = n + 1
      /\ history' \in Seq(WMessages) /\ DOMAIN history' = 1..n + 1
      /\ \A i \in 1..n : history'[i] = history[i]
      /\ history'[n + 1] = Reply(k) /\ Reply(k).id = <<wtrial, n + 1>> /\ Reply(k).role = "assistant"
      /\ Called(Reply(k).calls, wtrial, n + 1)
  <2>1. Reply(k).calls = {<<wtrial, n + 1, c>> : c \in 1..k}
    BY Replied DEF Answered
  <2>2. Called(Reply(k).calls, wtrial, n + 1)
    BY <2>1 DEF Called
  <2> QED BY <2>2, Replied DEF Answered
<1>2. wpc' = "answered"
  BY DEF Answered
<1>3. /\ n >= 3 /\ history[1].role = "system" /\ history[1].calls = {} /\ history[2].role = "user"
      /\ \A i \in 2..n : history[i].role # "system"
  BY DEF Conversation
<1>4. \A i \in 1..n : history[i].id = <<wtrial, i>> /\ Called(history[i].calls, wtrial, i)
  BY <1>1 DEF Conversation
<1> HIDE DEF n
<1>5. \A i \in DOMAIN history' : history'[i].id = <<wtrial, i>> /\ Called(history'[i].calls, wtrial, i)
  <2> SUFFICES ASSUME NEW i \in 1..n + 1
               PROVE  history'[i].id = <<wtrial, i>> /\ Called(history'[i].calls, wtrial, i)
    BY <1>1
  <2>1. CASE i = n + 1
    BY <1>1, <2>1
  <2>2. CASE i # n + 1
    <3>1. i \in 1..n
      BY <1>1, <2>2
    <3> QED BY <1>1, <1>4, <3>1
  <2> QED BY <2>1, <2>2
<1>6. /\ history'[1] = history[1] /\ history'[2] = history[2]
      /\ \A i \in 2..n + 1 : history'[i].role # "system"
  <2>1. \A i \in 2..n + 1 : i = n + 1 \/ (i \in 2..n /\ i \in 1..n)
    BY <1>1
  <2> QED BY <1>1, <1>3, <2>1
<1> QED BY <1>1, <1>2, <1>3, <1>5, <1>6 DEF Conversation, Asking

\* The conversation only grows, by messages that carry their own numbers.
LEMMA ConversationStep == Conversation /\ WPlaces /\ [WNext]_wireVars => Conversation'
<1> SUFFICES ASSUME Conversation, WPlaces, [WNext]_wireVars PROVE Conversation'
  OBVIOUS
<1> USE DEF statelessRest, liveRest, chainRest
<1>a. ASSUME NEW k \in 0..WCalls, NEW context, Answered(k, context), wtrial' = wtrial, wpc # "between"
      PROVE  Conversation'
  BY <1>a, RepliedConversation
<1>0. CASE UNCHANGED wireVars
  BY <1>0 DEF wireVars, Conversation
<1>1. CASE StartConversation
  <2>1. /\ wtrial' = wtrial + 1 /\ wpc' = "ask" /\ wtrial \in Nat /\ wtrial' \in Nat /\ WCalls \in Nat
        /\ history' = [i \in 1..3 |-> [id |-> <<wtrial', i>>, role |-> IF i = 1 THEN "system" ELSE "user",
                                       calls |-> {}, result |-> <<>>]]
    BY <1>1, WireAssumption DEF StartConversation, WPlaces
  <2>2. /\ DOMAIN history' = 1..3
        /\ \A i \in 1..3 : /\ history'[i].id = <<wtrial', i>> /\ history'[i].calls = {}
                           /\ history'[i].role = IF i = 1 THEN "system" ELSE "user"
                           /\ history'[i] \in WMessages
    BY <2>1 DEF WMessages
  <2>3. history' \in Seq(WMessages)
    <3>1. history' \in [1..3 -> WMessages]
      BY <2>1, <2>2
    <3> QED BY <3>1, SeqDef
  <2>4. Len(history') = 3
    BY <2>2, <2>3, LenProperties
  <2>5. ASSUME NEW i \in 1..3 PROVE Called(history'[i].calls, wtrial', i)
    <3>1. history'[i].calls = {}
      BY <2>2
    <3>2. Called({}, wtrial', i)
      BY NoCalls
    <3> QED BY <3>1, <3>2, Zenon
  <2>6. /\ history'[1].role = "system" /\ history'[1].calls = {} /\ history'[2].role = "user"
        /\ history'[3].role = "user" /\ \A i \in 2..3 : history'[i].role # "system"
    BY <2>2
  <2>7. \A i \in DOMAIN history' : history'[i].id = <<wtrial', i>> /\ Called(history'[i].calls, wtrial', i)
    BY <2>2, <2>5
  <2>8. wpc' = "ask" /\ Len(history') >= 3 /\ history'[Len(history')].role \in {"user", "tool"}
        /\ \A i \in 2..Len(history') : history'[i].role # "system"
    BY <2>1, <2>4, <2>6
  <2> QED BY <2>3, <2>6, <2>7, <2>8 DEF Conversation, Asking
<1>2. CASE EndConversation
  BY <1>2, SameConversation DEF EndConversation, Asking
<1>3. CASE ContinueConversation
  <2> DEFINE n == Len(history)
             L == Len(history')
  <2>1. /\ DOMAIN history = 1..n /\ n \in Nat
        /\ history' \in Seq(WMessages) /\ L > n /\ DOMAIN history' = 1..L /\ L \in Nat
        /\ \A i \in 1..n : history'[i] = history[i]
        /\ \A i \in n + 1..L : /\ history'[i].id = <<wtrial, i>> /\ history'[i].calls = {}
                               /\ history'[i].role \in {"user", "tool"}
    BY <1>3, Continuing
  <2>2. wpc' = "ask" /\ wtrial' = wtrial /\ wpc = "answered" /\ wtrial \in Nat /\ WCalls \in Nat
    BY <1>3, WireAssumption DEF ContinueConversation, WPlaces
  <2>3. /\ n >= 3 /\ history[1].role = "system" /\ history[1].calls = {} /\ history[2].role = "user"
        /\ \A i \in 2..n : history[i].role # "system"
        /\ \A i \in 1..n : history[i].id = <<wtrial, i>> /\ Called(history[i].calls, wtrial, i)
    BY <2>1, <2>2 DEF Conversation
  <2> HIDE DEF n, L
  <2>4. \A i \in 1..L : i \in 1..n \/ i \in n + 1..L
    BY <2>1
  <2>5. ASSUME NEW i \in 1..L PROVE Called(history'[i].calls, wtrial, i)
    <3>1. CASE i \in 1..n
      BY <2>1, <2>3, <3>1
    <3>2. CASE i \in n + 1..L
      <4>1. history'[i].calls = {}
        BY <2>1, <3>2
      <4>2. Called({}, wtrial, i)
        BY NoCalls
      <4> QED BY <4>1, <4>2, Zenon
    <3> QED BY <2>4, <3>1, <3>2
  <2>6. \A i \in 1..L : history'[i].id = <<wtrial, i>>
    BY <2>1, <2>3, <2>4
  <2>7. history'[1] = history[1] /\ history'[2] = history[2] /\ \A i \in 2..L : history'[i].role # "system"
    <3>1. 1 \in 1..n /\ 2 \in 1..n /\ \A i \in 2..L : i \in n + 1..L \/ (i \in 2..n /\ i \in 1..n)
      BY <2>1, <2>3
    <3> QED BY <2>1, <2>3, <3>1
  <2>8. history'[L].role \in {"user", "tool"} /\ L >= 3
    BY <2>1, <2>3
  <2> QED BY <2>1, <2>2, <2>3, <2>5, <2>6, <2>7, <2>8 DEF Conversation, Asking, L
<1>4. CASE Ask
  BY <1>4, SameConversation DEF Ask, Asking
<1>5. CASE ChatPost \/ ResponsesPost \/ MessagesPost
  <2>1. CASE NoReply
    BY <1>5, <2>1, SameConversation DEF ChatPost, ResponsesPost, MessagesPost, NoReply, TryAgain, Asking
  <2>2. CASE \E k \in 0..WCalls : Answered(k, Told(history))
    BY <1>5, <2>2, <1>a DEF ChatPost, ResponsesPost, MessagesPost
  <2> QED BY <1>5, <2>1, <2>2 DEF ChatPost, ResponsesPost, MessagesPost
<1>6. CASE LiveOpen
  BY <1>6, SameConversation DEF LiveOpen, Recoverable, TryAgain, Asking
<1>7. CASE LiveSend
  BY <1>7, SameConversation DEF LiveSend, Recoverable, Unrecoverable, TryAgain, Asking
<1>8. CASE LiveRead
  <2>1. CASE \E k \in 0..WCalls : Answered(k, session.told)
    BY <1>8, <2>1, <1>a DEF LiveRead
  <2>2. CASE UNCHANGED history /\ (Recoverable \/ Unrecoverable)
    BY <1>8, <2>2, SameConversation DEF LiveRead, Recoverable, Unrecoverable, TryAgain, Asking
  <2> QED BY <1>8, <2>1, <2>2 DEF LiveRead
<1>9. CASE InteractionPost
  BY <1>9, SameConversation DEF InteractionPost, ChainLost, PostLost, PostUnreadable, PostRefused, TryAgain, Asking
<1>10. CASE PollAgain
  BY <1>10, SameConversation DEF PollAgain
<1>11. CASE GivePollingUp
  BY <1>11, SameConversation DEF GivePollingUp, PollFails, Asking
<1>12. CASE InteractionFinishes
  BY <1>12, <1>a DEF InteractionFinishes
<1> QED
  BY <1>0, <1>1, <1>2, <1>3, <1>4, <1>5, <1>6, <1>7, <1>8, <1>9, <1>10, <1>11, <1>12 DEF WNext

\* Of a conversation in trial u, the identities of messages m to n that the policy said.
Sayable(u, h, m, n) == {<<u, i>> : i \in {k \in m..n : h[k].role \in {"user", "tool"}}}

\* The same of what the policy said, which a chain is told instead.
LEMMA SaidOf ==
    ASSUME NEW u, NEW h, Numbered(u, h), NEW m \in Nat \ {0}, NEW n \in Nat, n <= Len(h)
    PROVE  Said(SubSeq(h, m, n)) = SetToBag(Sayable(u, h, m, n))
<1> DEFINE q == SubSeq(h, m, n)
           T == {x.id : x \in {y \in Elements(q) : y.role \in {"user", "tool"}}}
<1>1. DOMAIN h = 1..Len(h) /\ Len(h) \in Nat
  BY LenProperties DEF Numbered
<1>2. \A i \in m..n : h[i] \in WMessages /\ h[i].id = <<u, i>>
  BY <1>1 DEF Numbered
<1>5. Elements(q) = {h[k] : k \in m..n}
  BY PartIs
<1> HIDE DEF q
<1>6. T = Sayable(u, h, m, n)
  <2>1. ASSUME NEW i \in T PROVE i \in Sayable(u, h, m, n)
    <3>1. PICK x \in Elements(q) : x.role \in {"user", "tool"} /\ i = x.id
      OBVIOUS
    <3>2. PICK k \in m..n : x = h[k]
      BY <1>5, <3>1
    <3> QED BY <1>2, <3>1, <3>2 DEF Sayable
  <2>2. ASSUME NEW i \in Sayable(u, h, m, n) PROVE i \in T
    <3>1. PICK k \in m..n : h[k].role \in {"user", "tool"} /\ i = <<u, k>>
      BY DEF Sayable
    <3>2. h[k] \in Elements(q) /\ h[k].id = i
      BY <1>2, <1>5, <3>1
    <3> QED BY <3>1, <3>2
  <2> QED BY <2>1, <2>2
<1> QED BY <1>6 DEF Said, q

\* All of a conversation.
LEMMA ToldAll ==
    ASSUME NEW u, NEW h, Numbered(u, h)
    PROVE  Told(h) = SetToBag(Tellable(u, h, 1, Len(h))) /\ Told(h) = Told(SubSeq(h, 1, Len(h)))
<1>1. Len(h) \in Nat /\ DOMAIN h = 1..Len(h)
  BY LenProperties DEF Numbered
<1>2. SubSeq(h, 1, Len(h)) = h
  <2>1. h \in Seq(WMessages)
    BY DEF Numbered
  <2> QED BY <1>1, <2>1
<1>3. Told(SubSeq(h, 1, Len(h))) = SetToBag(Tellable(u, h, 1, Len(h)))
  BY <1>1, ToldOf
<1> QED BY <1>2, <1>3, Zenon

\* Nothing is told of the instructions.
LEMMA ToldOfNone ==
    ASSUME NEW u, NEW h, Numbered(u, h), Len(h) >= 1, h[1].role = "system"
    PROVE  Told(SubSeq(h, 1, 1)) = EmptyBag
<1>1. Len(h) \in Nat
  BY LenProperties DEF Numbered
<1>2. Told(SubSeq(h, 1, 1)) = SetToBag(Tellable(u, h, 1, 1))
  BY <1>1, ToldOf
<1>3. Tellable(u, h, 1, 1) = {}
  BY DEF Tellable
<1> QED BY <1>2, <1>3 DEF SetToBag, EmptyBag

\* What is told of a part that two conversations share.
LEMMA ToldKept ==
    ASSUME NEW u, NEW g, NEW h, Numbered(u, g), Numbered(u, h), NEW n \in Nat, n <= Len(g), n <= Len(h),
           \A i \in 1..n : g[i] = h[i]
    PROVE  Told(SubSeq(g, 1, n)) = Told(SubSeq(h, 1, n))
<1>1. Tellable(u, g, 1, n) = Tellable(u, h, 1, n)
  BY ToldOfSame
<1> QED BY <1>1, ToldOf

\* A conversation is what was told of it up to a reply and what the policy said since.
LEMMA HeardAll ==
    ASSUME NEW u, NEW h, Numbered(u, h), NEW m \in Nat \ {0}, m <= Len(h), h[m].role \notin {"user", "tool"},
           \A i \in m + 1..Len(h) : h[i].role \in {"user", "tool"}
    PROVE  Told(SubSeq(h, 1, m)) (+) Said(SubSeq(h, m, Len(h))) = Told(h)
<1> DEFINE L == Len(h)
<1>1. L \in Nat
  BY LenProperties DEF Numbered
<1>2. Sayable(u, h, m, L) = Tellable(u, h, m + 1, L)
  <2>1. \A i \in m..L : i = m \/ i \in m + 1..L
    BY <1>1
  <2>2. \A i \in m + 1..L : i \in m..L
    BY <1>1
  <2>3. {k \in m..L : h[k].role \in {"user", "tool"}} = {k \in m + 1..L : h[k].role # "system"}
    BY <2>1, <2>2
  <2> QED BY <2>3 DEF Sayable, Tellable
<1>3. Told(SubSeq(h, 1, m)) = SetToBag(Tellable(u, h, 1, m))
      /\ Said(SubSeq(h, m, L)) = SetToBag(Sayable(u, h, m, L))
  BY <1>1, ToldOf, SaidOf
<1>4. SetToBag(Tellable(u, h, 1, m)) (+) SetToBag(Tellable(u, h, m + 1, L)) = SetToBag(Tellable(u, h, 1, L))
  BY <1>1, ToldJoin
<1> QED BY <1>2, <1>3, <1>4, ToldAll

\* And a reply is told to the model that made it.
LEMMA RepliedTold ==
    ASSUME NEW u, NEW g, NEW h, Numbered(u, g), Numbered(u, h), Len(h) = Len(g) + 1,
           \A i \in 1..Len(g) : h[i] = g[i], h[Len(h)].role # "system"
    PROVE  /\ Told(g) = Told(SubSeq(h, 1, Len(g)))
           /\ Told(g) (+) SetToBag({h[Len(h)].id}) = Told(SubSeq(h, 1, Len(h)))
<1> DEFINE n == Len(g)
<1>1. n \in Nat /\ n + 1 = Len(h) /\ DOMAIN h = 1..n + 1
  BY LenProperties DEF Numbered
<1>2. Told(g) = Told(SubSeq(h, 1, n))
  BY <1>1, ToldAll, ToldKept
<1>3. SetToBag({h[n + 1].id}) = SetToBag(Tellable(u, h, n + 1, n + 1))
  <2>1. h[n + 1].id = <<u, n + 1>>
    BY <1>1 DEF Numbered
  <2>2. Tellable(u, h, n + 1, n + 1) = {<<u, n + 1>>}
    BY <1>1 DEF Tellable
  <2> QED BY <2>1, <2>2
<1>4. Told(SubSeq(h, 1, n)) = SetToBag(Tellable(u, h, 1, n))
      /\ Told(SubSeq(h, 1, n + 1)) = SetToBag(Tellable(u, h, 1, n + 1))
  BY <1>1, ToldOf
<1>5. SetToBag(Tellable(u, h, 1, n)) (+) SetToBag(Tellable(u, h, n + 1, n + 1)) = SetToBag(Tellable(u, h, 1, n + 1))
  BY <1>1, ToldJoin
<1> QED BY <1>1, <1>2, <1>3, <1>4, <1>5

\* The identities of messages, in their order.
LEMMA IdsOf ==
    ASSUME NEW u \in Nat, NEW h, Numbered(u, h)
    PROVE  /\ Ids(h) \in Seq(Nat \X Nat) /\ Len(Ids(h)) = Len(h) /\ DOMAIN Ids(h) = 1..Len(h)
           /\ \A i \in 1..Len(h) : Ids(h)[i] = <<u, i>>
<1>1. Len(h) \in Nat /\ DOMAIN h = 1..Len(h)
  BY LenProperties DEF Numbered
<1>2. Ids(h) = [i \in 1..Len(h) |-> h[i].id] /\ \A i \in 1..Len(h) : h[i].id = <<u, i>>
  BY <1>1 DEF Ids, Numbered
<1>3. Ids(h) \in [1..Len(h) -> Nat \X Nat]
  <2>1. ASSUME NEW i \in 1..Len(h) PROVE h[i].id \in Nat \X Nat
    <3>1. <<u, i>> \in Nat \X Nat
      BY <1>1
    <3>2. h[i].id = <<u, i>>
      BY <1>2
    <3> QED BY <3>1, <3>2, Zenon
  <2> QED BY <1>2, <2>1
<1>4. Ids(h) \in Seq(Nat \X Nat)
  BY <1>1, <1>3, SeqDef
<1>5. Len(Ids(h)) = Len(h)
  BY <1>1, <1>2, <1>4, LenProperties
<1> QED BY <1>2, <1>4, <1>5

\* What was streamed and what had not been is all of the conversation.
LEMMA StreamedAll ==
    ASSUME NEW u \in Nat, NEW h, Numbered(u, h), NEW s \in Seq(Nat \X Nat), Len(s) <= Len(h),
           \A i \in DOMAIN s : s[i] = <<u, i>>
    PROVE  LET q == s \o Ids(SubSeq(h, Len(s) + 1, Len(h)))
           IN  /\ q \in Seq(Nat \X Nat) /\ Len(q) = Len(h) /\ DOMAIN q = 1..Len(h)
               /\ \A i \in 1..Len(h) : q[i] = <<u, i>>
<1> DEFINE n == Len(s)
           L == Len(h)
           rest == SubSeq(h, n + 1, L)
           ids == Ids(rest)
           q == s \o ids
<1>1. n \in Nat /\ L \in Nat /\ DOMAIN s = 1..n /\ n <= L /\ DOMAIN h = 1..L
  BY LenProperties DEF Numbered
<1>2. rest \in Seq(WMessages) /\ Len(rest) = L - n /\ \A i \in 1..L - n : rest[i] = h[n + i]
  <2>1. \A i \in n + 1..L : h[i] \in WMessages
    BY <1>1 DEF Numbered
  <2>2. rest \in Seq(WMessages) /\ Len(rest) = (IF n + 1 <= L THEN L - (n + 1) + 1 ELSE 0)
        /\ \A i \in 1..L - (n + 1) + 1 : rest[i] = h[(n + 1) + i - 1]
    <3> HIDE DEF n, L
    <3> QED BY <1>1, <2>1, SubSeqProperties
  <2> HIDE DEF n, L, rest
  <2> QED BY <1>1, <2>2
<1> HIDE DEF rest
<1>3. DOMAIN rest = 1..L - n
  <2>1. DOMAIN rest = 1..Len(rest)
    BY <1>2, LenProperties
  <2> QED BY <1>2, <2>1
<1>4. ids = [i \in 1..L - n |-> rest[i].id] /\ \A i \in 1..L - n : rest[i].id = <<u, n + i>>
  <2>1. \A i \in 1..L - n : n + i \in 1..L
    BY <1>1
  <2> QED BY <1>1, <1>2, <1>3, <2>1 DEF Ids, Numbered
<1>5. ids \in Seq(Nat \X Nat) /\ Len(ids) = L - n /\ \A i \in 1..L - n : ids[i] = <<u, n + i>>
  <2>1. L - n \in Nat
    BY <1>1
  <2>2. ids \in [1..L - n -> Nat \X Nat]
    <3>1. \A i \in 1..L - n : n + i \in Nat
      BY <1>1
    <3>2. ASSUME NEW i \in 1..L - n PROVE rest[i].id \in Nat \X Nat
      <4>1. <<u, n + i>> \in Nat \X Nat
        BY <3>1
      <4>2. rest[i].id = <<u, n + i>>
        BY <1>4
      <4> QED BY <4>1, <4>2, Zenon
    <3>3. ids = [i \in 1..L - n |-> rest[i].id]
      BY <1>4
    <3> DEFINE D == 1..L - n
               of(i) == rest[i].id
    <3>4. ids = [i \in D |-> of(i)] /\ \A i \in D : of(i) \in Nat \X Nat
      BY <3>2, <3>3
    <3> HIDE DEF ids, D, of
    <3>5. ids \in [D -> Nat \X Nat]
      BY <3>4
    <3> QED BY <3>5 DEF D
  <2> HIDE DEF ids
  <2>3. ids \in Seq(Nat \X Nat)
    <3> DEFINE d == L - n
               P == Nat \X Nat
    <3>1. d \in Nat /\ ids \in [1..d -> P]
      BY <2>1, <2>2
    <3> HIDE DEF d, P
    <3>2. Seq(P) = UNION {[1..w -> P] : w \in Nat}
      BY SeqDef
    <3>3. ids \in Seq(P)
      BY <3>1, <3>2
    <3> QED BY <3>3 DEF P
  <2>4. DOMAIN ids = 1..L - n /\ \A i \in 1..L - n : ids[i] = <<u, n + i>>
    BY <1>4
  <2>5. Len(ids) = L - n
    <3> DEFINE d == L - n
    <3>1. d \in Nat /\ DOMAIN ids = 1..d
      BY <2>1, <2>4
    <3>2. DOMAIN ids = 1..Len(ids) /\ Len(ids) \in Nat
      BY <2>3, LenProperties
    <3> HIDE DEF d
    <3>3. Len(ids) = d
      BY <3>1, <3>2
    <3> QED BY <3>3 DEF d
  <2> QED BY <2>3, <2>4, <2>5
<1> HIDE DEF ids
<1>6. q \in Seq(Nat \X Nat) /\ Len(q) = n + (L - n)
      /\ \A i \in 1..n + (L - n) : q[i] = IF i <= n THEN s[i] ELSE ids[i - n]
  BY <1>5, ConcatProperties
<1>7. Len(q) = L /\ \A i \in 1..L : q[i] = IF i <= n THEN s[i] ELSE ids[i - n]
  BY <1>1, <1>6
<1>8. DOMAIN q = 1..L
  <2> HIDE DEF q
  <2> QED BY <1>6, <1>7, LenProperties
<1>9. ASSUME NEW i \in 1..L PROVE q[i] = <<u, i>>
  <2> HIDE DEF q
  <2>1. CASE i <= n
    <3>1. i \in DOMAIN s /\ q[i] = s[i]
      BY <1>1, <1>7, <2>1
    <3> QED BY <3>1
  <2>2. CASE ~(i <= n)
    <3>1. i - n \in 1..L - n /\ n + (i - n) = i
      BY <1>1, <2>2
    <3> QED BY <1>5, <1>7, <2>2, <3>1
  <2> QED BY <2>1, <2>2
<1> QED BY <1>6, <1>7, <1>8, <1>9 DEF ids, rest

\* The conversation while the policy is in a trial.
LEMMA ConversationIs ==
    ASSUME Conversation, WPlaces, wpc # "between"
    PROVE  /\ Numbered(wtrial, history) /\ wtrial \in Nat
           /\ Len(history) \in Nat /\ Len(history) >= 3 /\ DOMAIN history = 1..Len(history)
           /\ \A i \in 1..Len(history) : history[i].id = <<wtrial, i>>
           /\ history[1].role = "system" /\ history[1].calls = {}
BY LenProperties, WireAssumption DEF Conversation, Numbered, WPlaces

\* A model that was told nothing is caught up with a conversation of observations.
LEMMA NothingStreamed ==
    ASSUME Conversation', wpc' # "between", streamed' = <<>>,
           \A i \in 2..Len(history') : history'[i].role = "user", Memory' = EmptyBag
    PROVE  InTrial' /\ CaughtUp'
<1>1. /\ history' \in Seq(WMessages) /\ Len(history') >= 3 /\ history'[1].role = "system" /\ history'[1].calls = {}
      /\ \A i \in DOMAIN history' : history'[i].id = <<wtrial', i>>
  BY DEF Conversation
<1>2. Numbered(wtrial', history') /\ Len(history') \in Nat
  BY <1>1, LenProperties DEF Numbered
<1>3. Len(streamed') = 0 /\ DOMAIN streamed' = {}
  OBVIOUS
<1>4. InTrial'
  BY <1>2, <1>3 DEF InTrial, StreamedOf
<1>5. Told(SubSeq(history', 1, 1)) = EmptyBag
  BY <1>1, <1>2, ToldOfNone
<1>6. Len(streamed') + 1 = 1 /\ history'[1].role \notin {"user", "tool"}
  BY <1>1, <1>3
<1> HIDE DEF Memory
<1>7. CaughtUp'
  BY <1>1, <1>5, <1>6 DEF CaughtUp
<1> QED BY <1>4, <1>7

\* Steps that tell no model anything.
LEMMA SameStreaming ==
    ASSUME Streaming, UNCHANGED <<wire, wtrial, history, session, chain, streamed, repair, named>>,
           wpc' = wpc \/ wpc' = "failed" \/ (wpc = "send" /\ wpc' = "polling")
    PROVE  Streaming'
<1>1. (StreamedOf(wtrial))' = StreamedOf(wtrial) /\ InTrial' = InTrial
  BY DEF InTrial, StreamedOf
<1>2. CaughtUp' = CaughtUp
  BY DEF CaughtUp, Memory
<1>3. \E u \in 0..wtrial' : (StreamedOf(u))'
  BY DEF Streaming, StreamedOf
<1> QED BY <1>1, <1>2, <1>3 DEF Streaming, Asking

\* Those of a stateless client.
LEMMA StatelessStreaming ==
    ASSUME Streaming, wire \in Stateless, UNCHANGED <<wire, wtrial, session, chain, streamed, repair>>
    PROVE  Streaming'
<1>1. \E u \in 0..wtrial' : (StreamedOf(u))'
  BY DEF Streaming, StreamedOf
<1>2. wire # "gemini-live"
  BY DEF Stateless
<1> QED BY <1>1, <1>2 DEF Streaming

\* A session that is lost leaves either nothing streamed or a fold to be sent.
LEMMA LostSession ==
    ASSUME Streaming, Conversation, WPlaces, wpc # "between",
           UNCHANGED <<wire, wtrial, history, chain, streamed, named>>,
           session' = NoSession, repair' = (streamed # <<>>),
           InTrial, streamed = <<>> => CaughtUp, wpc' \in {"send", "failed"}
    PROVE  Streaming'
<1>1. InTrial' = InTrial /\ \E u \in 0..wtrial' : (StreamedOf(u))'
  BY DEF Streaming, InTrial, StreamedOf
<1>2. ASSUME streamed = <<>> PROVE CaughtUp'
  <2>1. /\ Numbered(wtrial, history) /\ Len(history) >= 3 /\ history[1].role = "system"
    BY ConversationIs
  <2>2. Told(SubSeq(history, 1, 1)) = EmptyBag
    BY <2>1, ToldOfNone
  <2>3. Len(streamed) + 1 = 1
    BY <1>2
  <2>4. CaughtUp /\ Memory = EmptyBag
    BY <1>2, <2>2, <2>3 DEF CaughtUp
  <2>5. Memory' = EmptyBag
    <3>1. CASE wire = "gemini-live"
      BY <3>1, ShapesAre DEF Memory
    <3>2. CASE wire # "gemini-live"
      BY <2>4, <3>2 DEF Memory
    <3> QED BY <3>1, <3>2
  <2>6. Memory' = Memory
    BY <2>4, <2>5
  <2> HIDE DEF Memory
  <2> QED BY <2>4, <2>6 DEF CaughtUp
<1>3. session'.told = EmptyBag /\ ~session'.open
  BY ShapesAre
<1>4. repair' \in BOOLEAN /\ (repair' <=> streamed # <<>>)
  BY Zenon
<1>5. /\ streamed' \in Seq(Nat \X Nat)
      /\ repair' \/ chain'.known => streamed' # <<>>
      /\ streamed' = <<>> => chain'.told = EmptyBag
  BY <1>4 DEF Streaming
<1> QED BY <1>1, <1>2, <1>3, <1>4, <1>5 DEF Streaming, Asking

AllStreamed(s) ==
    s \in Seq(Nat \X Nat) /\ Len(s) = Len(history) /\ DOMAIN s = 1..Len(history)
    /\ \A i \in 1..Len(history) : s[i] = <<wtrial, i>>

\* A fold tells all of the conversation,
LEMMA Recovered ==
    ASSUME Conversation, WPlaces, wpc # "between"
    PROVE  AllStreamed(Ids(history)) /\ Fold(history) = Told(history)
<1>1. Numbered(wtrial, history) /\ wtrial \in Nat /\ Len(history) >= 3 /\ Len(history) \in Nat
  BY ConversationIs
<1>2. AllStreamed(Ids(history))
  BY <1>1, IdsOf DEF AllStreamed
<1>3. history[2].role = "user" /\ Len(history) >= 2
  BY <1>1 DEF Conversation
<1>4. Fold(history) = SetToBag(Tellable(wtrial, history, 1, Len(history)))
  BY <1>1, <1>3, FoldIs
<1>5. Told(history) = SetToBag(Tellable(wtrial, history, 1, Len(history)))
  BY <1>1, ToldAll
<1> QED BY <1>2, <1>4, <1>5

\* and so does what a model was told before with what it was not.
LEMMA Suffixed ==
    ASSUME Conversation, WPlaces, wpc # "between", streamed \in Seq(Nat \X Nat), InTrial, CaughtUp
    PROVE  AllStreamed(streamed \o Ids(Unsent)) /\ Memory (+) Said(Unsent) = Told(history)
<1>1. Numbered(wtrial, history) /\ wtrial \in Nat /\ Len(history) \in Nat /\ Len(streamed) \in Nat
  BY ConversationIs, LenProperties
<1>2. Len(streamed) <= Len(history) /\ \A i \in DOMAIN streamed : streamed[i] = <<wtrial, i>>
  BY DEF InTrial, StreamedOf
<1>3. AllStreamed(streamed \o Ids(Unsent))
  BY <1>1, <1>2, StreamedAll DEF AllStreamed, Unsent
<1> DEFINE m == Len(streamed) + 1
<1>4. /\ m \in Nat \ {0} /\ m <= Len(history) /\ history[m].role \notin {"user", "tool"}
      /\ Memory = Told(SubSeq(history, 1, m)) /\ \A i \in m + 1..Len(history) : history[i].role \in {"user", "tool"}
  BY <1>1 DEF CaughtUp
<1>5. Told(SubSeq(history, 1, m)) (+) Said(SubSeq(history, m, Len(history))) = Told(history)
  <2> HIDE DEF m
  <2> QED BY <1>1, <1>4, HeardAll
<1>6. Memory (+) Said(Unsent) = Told(history)
  <2>1. Unsent = SubSeq(history, m, Len(history))
    BY DEF Unsent
  <2> HIDE DEF m, Unsent, Memory
  <2> QED BY <1>4, <1>5, <2>1
<1> QED BY <1>3, <1>6

\* A model that was told everything is caught up with its own reply.
LEMMA RepliedStreaming ==
    ASSUME Conversation, WPlaces, wpc # "between", NEW k \in 0..WCalls, NEW context, Answered(k, context),
           wtrial' = wtrial, AllStreamed(streamed'),
           Memory' = Told(history) (+) SetToBag({Reply(k).id}), Reply(k).calls \subseteq named'
    PROVE  InTrial' /\ CaughtUp'
<1> DEFINE n == Len(history)
<1>1. Numbered(wtrial, history) /\ wtrial \in Nat /\ n \in Nat
  BY ConversationIs
<1>2. Conversation' /\ history' \in Seq(WMessages)
  BY RepliedConversation DEF Conversation
<1>3. /\ Len(history') = n + 1 /\ \A i \in 1..n : history'[i] = history[i]
      /\ history'[n + 1] = Reply(k) /\ Reply(k).role = "assistant" /\ DOMAIN history' = 1..n + 1
  BY Replied DEF Answered
<1>4. Numbered(wtrial, history')
  BY <1>2 DEF Conversation, Numbered
<1>5. Told(history) (+) SetToBag({history'[Len(history')].id}) = Told(SubSeq(history', 1, Len(history')))
  BY <1>1, <1>3, <1>4, RepliedTold
<1>6. Memory' = Told(SubSeq(history', 1, n + 1))
  BY <1>3, <1>5
<1>7. InTrial'
  BY <1>1, <1>3 DEF InTrial, StreamedOf, AllStreamed
<1>8. Len(streamed') + 1 = n + 1 /\ \A i \in n + 1 + 1..n + 1 : FALSE
  BY <1>1 DEF AllStreamed
<1>9. history'[n + 1].role \notin {"user", "tool"} /\ history'[n + 1].calls \subseteq named'
  BY <1>3
<1> HIDE DEF n, Memory
<1>10. CaughtUp'
  BY <1>1, <1>3, <1>6, <1>8, <1>9 DEF CaughtUp
<1> QED BY <1>7, <1>10

\* A new trial finds either nothing streamed or another trial's conversation.
LEMMA StartStreaming ==
    ASSUME Streaming, Conversation, WPlaces, Conversation', StartConversation
    PROVE  Streaming'
<1>1. /\ wpc = "between" /\ wpc' = "ask" /\ wtrial' = wtrial + 1 /\ wtrial \in Nat
      /\ UNCHANGED <<wire, session, chain, streamed, repair, named>>
      /\ \A i \in 2..Len(history') : history'[i].role = "user"
  <2>1. wpc = "between" /\ wpc' = "ask" /\ wtrial' = wtrial + 1
        /\ UNCHANGED <<wire, session, chain, streamed, repair, named>>
    BY DEF StartConversation, clientVars
  <2>2. wtrial \in Nat
    BY WireAssumption DEF WPlaces
  <2>3. /\ history' \in Seq(WMessages) /\ DOMAIN history' = 1..3
        /\ \A i \in 1..3 : history'[i].role = IF i = 1 THEN "system" ELSE "user"
    BY DEF StartConversation, Conversation
  <2>4. Len(history') = 3
    BY <2>3, LenProperties
  <2>5. \A i \in 2..3 : history'[i].role = "user"
    BY <2>3
  <2> QED BY <2>1, <2>2, <2>4, <2>5
<1>2. PICK u \in 0..wtrial : StreamedOf(u)
  BY DEF Streaming
<1>3. u \in 0..wtrial' /\ (StreamedOf(u))'
  BY <1>1, <1>2 DEF StreamedOf
<1>4. session = NoSession /\ (streamed = <<>> => Memory' = EmptyBag /\ ~repair')
  BY <1>1, ShapesAre DEF Streaming, Memory
<1>5. ASSUME streamed = <<>> PROVE InTrial' /\ CaughtUp'
  <2>1. wpc' # "between" /\ streamed' = <<>> /\ Memory' = EmptyBag
    BY <1>1, <1>4, <1>5
  <2> HIDE DEF Memory
  <2> QED BY <1>1, <2>1, NothingStreamed
<1>6. ASSUME streamed # <<>> PROVE ~InTrial' /\ streamed'[1] # <<wtrial', 1>>
  <2>1. 1 \in DOMAIN streamed
    <3>1. streamed \in Seq(Nat \X Nat)
      BY DEF Streaming
    <3> QED BY <1>6, <3>1, LenProperties, EmptySeq
  <2>2. streamed'[1] = <<u, 1>> /\ u # wtrial'
    BY <1>1, <1>2, <2>1 DEF StreamedOf
  <2> QED BY <1>1, <2>1, <2>2 DEF InTrial, StreamedOf
<1>7. /\ streamed' \in Seq(Nat \X Nat) /\ (repair' \/ chain'.known => streamed' # <<>>)
      /\ (streamed' = <<>> => chain'.told = EmptyBag)
      /\ (~session'.open \/ repair' => session'.told = EmptyBag)
      /\ (wire' # "gemini-live" => session' = NoSession)
  BY <1>1, <1>4, ShapesAre DEF Streaming
<1>8. CASE streamed = <<>>
  BY <1>1, <1>3, <1>4, <1>5, <1>7, <1>8 DEF Streaming, Asking
<1>9. CASE streamed # <<>>
  BY <1>1, <1>3, <1>6, <1>7, <1>9 DEF Streaming, Asking
<1> QED BY <1>8, <1>9

\* The policy's answers to a reply's calls are told next.
LEMMA ContinueStreaming ==
    ASSUME Streaming, Conversation, WPlaces, Conversation', ContinueConversation
    PROVE  Streaming'
<1> DEFINE n == Len(history)
           last == Len(streamed) + 1
<1>1. /\ wpc = "answered" /\ wpc' = "ask"
      /\ UNCHANGED <<wire, wtrial, session, chain, streamed, repair, named>>
  BY DEF ContinueConversation, clientVars
<1>2. /\ DOMAIN history = 1..n /\ n \in Nat /\ Len(history') \in Nat /\ Len(history') > n
      /\ \A i \in 1..n : history'[i] = history[i]
      /\ \A i \in n + 1..Len(history') : /\ history'[i].role \in {"user", "tool"}
                                         /\ history'[i].role = "tool" => history'[i].result \in history[n].calls
  BY Continuing
<1>3. Numbered(wtrial, history) /\ wtrial \in Nat /\ n >= 3
  BY <1>1, ConversationIs
<1>4. Numbered(wtrial, history')
  BY <1>1 DEF Conversation, Numbered
<1>5. streamed \in Seq(Nat \X Nat) /\ Len(streamed) \in Nat
  BY LenProperties DEF Streaming
<1>6. PICK u \in 0..wtrial : StreamedOf(u)
  BY DEF Streaming
<1>7. u \in 0..wtrial' /\ (StreamedOf(u))'
  BY <1>1, <1>6 DEF StreamedOf
<1>8. ASSUME wire \notin Stateless
      PROVE  InTrial' /\ (~repair => CaughtUp')
  <2>1. InTrial /\ (~repair => CaughtUp)
    BY <1>1, <1>8 DEF Streaming
  <2>2. InTrial'
    BY <1>1, <1>2, <1>5, <2>1 DEF InTrial, StreamedOf
  <2>3. ASSUME ~repair PROVE CaughtUp'
    <3>1. /\ last \in Nat \ {0} /\ last <= n /\ history[last].role \notin {"user", "tool"}
          /\ Memory = Told(SubSeq(history, 1, last)) /\ history[last].calls \subseteq named
          /\ \A i \in last + 1..n : history[i].role \in {"user", "tool"}
      BY <1>5, <2>1, <2>3 DEF CaughtUp
    <3>2. history[n].role = "assistant"
      BY <1>1 DEF Conversation
    <3>3. last = n
      <4> HIDE DEF n, last
      <4>1. n \in last + 1..n \/ last = n
        BY <1>2, <3>1
      <4>2. n \in last + 1..n => history[n].role \in {"user", "tool"}
        BY <3>1
      <4> QED BY <3>2, <4>1, <4>2
    <3>4. Told(SubSeq(history', 1, n)) = Told(SubSeq(history, 1, n))
      <4> HIDE DEF n
      <4>1. n <= Len(history') /\ n <= Len(history)
        BY <1>2 DEF n
      <4> QED BY <1>2, <1>3, <1>4, <4>1, ToldKept
    <3>5. Memory' = Memory
      BY <1>1 DEF Memory
    <3>6. Len(streamed') + 1 = n /\ history'[n] = history[n]
      <4>1. last' = last
        BY <1>1
      <4>2. n \in 1..n
        BY <1>2, <1>3
      <4> QED BY <1>2, <3>3, <4>1, <4>2
    <3> HIDE DEF n, last, Memory
    <3>7. n <= Len(history') /\ history[n].role \notin {"user", "tool"} /\ history[n].calls \subseteq named'
          /\ Memory' = Told(SubSeq(history', 1, n))
      BY <1>1, <1>2, <3>1, <3>3, <3>4, <3>5
    <3> QED BY <1>2, <3>6, <3>7 DEF CaughtUp
  <2> QED BY <2>2, <2>3
<1>9. /\ streamed' \in Seq(Nat \X Nat) /\ (repair' \/ chain'.known => streamed' # <<>>)
      /\ (streamed' = <<>> => chain'.told = EmptyBag)
      /\ (~session'.open \/ repair' => session'.told = EmptyBag)
      /\ (wire' # "gemini-live" => session' = NoSession)
  BY <1>1 DEF Streaming
<1> QED BY <1>1, <1>7, <1>8, <1>9 DEF Streaming, Asking

\* A prefix of another trial is forgotten before anything is sent.
LEMMA AskStreaming ==
    ASSUME Streaming, Conversation, WPlaces, Conversation', Ask
    PROVE  Streaming'
<1>1. /\ wpc = "ask" /\ wpc' \in {"send", "failed"} /\ UNCHANGED <<wire, wtrial, history>>
  BY DEF Ask
<1>2. CASE wire \in Stateless
  BY <1>1, <1>2, StatelessStreaming DEF Ask
<1>3. CASE wire \notin Stateless /\ InTrial
  <2>1. PrefixMatches
    <3>1. \A i \in 1..Len(history) : history[i].id = <<wtrial, i>>
      BY <1>1, ConversationIs
    <3>2. DOMAIN streamed = 1..Len(streamed) /\ Len(streamed) \in Nat /\ Len(history) \in Nat
      BY <1>1, ConversationIs, LenProperties DEF Streaming
    <3>3. Len(streamed) <= Len(history) /\ \A i \in 1..Len(streamed) : streamed[i] = <<wtrial, i>>
      BY <1>3, <3>2 DEF InTrial, StreamedOf
    <3>4. ASSUME NEW i \in 1..Len(streamed) PROVE streamed[i] = history[i].id
      <4>1. i \in 1..Len(history)
        BY <3>2, <3>3
      <4> QED BY <3>1, <3>3, <4>1
    <3> QED BY <3>2, <3>3, <3>4 DEF PrefixMatches
  <2>2. LeaveGoneSession /\ UNCHANGED <<chain, streamed, named>>
    BY <1>3, <2>1 DEF Ask
  <2>3. repair => streamed # <<>>
    BY DEF Streaming
  <2>4. ~repair => CaughtUp
    BY <1>1, <1>3 DEF Streaming
  <2>5. CASE goAway
    <3>1. session' = NoSession /\ repair' = (streamed # <<>>)
      BY <2>2, <2>5, Zenon DEF LeaveGoneSession
    <3> QED BY <1>1, <1>3, <2>2, <2>3, <2>4, <3>1, LostSession
  <2>6. CASE ~goAway
    <3>1. UNCHANGED <<session, repair>>
      BY <2>2, <2>6 DEF LeaveGoneSession
    <3>2. InTrial' /\ (~repair' => CaughtUp')
      BY <1>1, <1>3, <2>2, <2>4, <3>1 DEF InTrial, StreamedOf, CaughtUp, Memory
    <3>3. \E u \in 0..wtrial' : (StreamedOf(u))'
      BY <1>1, <2>2 DEF Streaming, StreamedOf
    <3> QED BY <1>1, <1>3, <2>2, <3>1, <3>2, <3>3 DEF Streaming, Asking
  <2> QED BY <2>5, <2>6
<1>4. CASE wire \notin Stateless /\ ~InTrial
  <2>1. /\ streamed # <<>> /\ streamed[1] # <<wtrial, 1>>
        /\ \A i \in 2..Len(history) : history[i].role = "user"
    BY <1>1, <1>4 DEF Streaming
  <2>2. 1 \in DOMAIN streamed /\ history[1].id = <<wtrial, 1>>
    <3>1. streamed \in Seq(Nat \X Nat)
      BY DEF Streaming
    <3>2. 1 \in 1..Len(history) /\ \A i \in 1..Len(history) : history[i].id = <<wtrial, i>>
      BY <1>1, ConversationIs
    <3>3. 1 \in DOMAIN streamed
      BY <2>1, <3>1, LenProperties, EmptySeq
    <3> QED BY <3>2, <3>3
  <2>3. ~PrefixMatches /\ ~Rewritten
    BY <2>1, <2>2 DEF PrefixMatches, Rewritten
  <2>4. ForgetTrial
    BY <1>4, <2>3 DEF Ask
  <2>5. session' = NoSession /\ chain' = NoChain /\ streamed' = <<>> /\ repair' = FALSE /\ named' = {}
    BY <2>4 DEF ForgetTrial
  <2>6. Memory' = EmptyBag
    BY <2>5, ShapesAre DEF Memory
  <2> HIDE DEF Memory
  <2>7. wpc' # "between" /\ \A i \in 2..Len(history') : history'[i].role = "user"
    BY <1>1, <2>1
  <2>8. InTrial' /\ CaughtUp'
    BY <2>5, <2>6, <2>7, NothingStreamed
  <2>9. 0 \in 0..wtrial' /\ (StreamedOf(0))'
    <3>1. DOMAIN streamed' = {} /\ wtrial' \in Nat
      BY <1>1, <2>5, ConversationIs
    <3> QED BY <3>1 DEF StreamedOf
  <2>10. streamed' \in Seq(Nat \X Nat)
    BY <2>5
  <2> QED BY <1>1, <2>5, <2>8, <2>9, <2>10, ShapesAre DEF Streaming, Asking
<1> QED BY <1>2, <1>3, <1>4

\* Streamed up to the last message, the client remembers some trial.
LEMMA AllIsStreamed ==
    ASSUME Conversation, WPlaces, wpc # "between", UNCHANGED wtrial, AllStreamed(streamed')
    PROVE  /\ \E u \in 0..wtrial' : (StreamedOf(u))'
           /\ streamed' \in Seq(Nat \X Nat) /\ streamed' # <<>>
           /\ (StreamedOf(wtrial))' /\ Len(streamed') = Len(history)
<1>1. Len(history) >= 3 /\ wtrial \in Nat /\ Len(history) \in Nat
  BY ConversationIs
<1>2. (StreamedOf(wtrial))'
  BY DEF AllStreamed, StreamedOf
<1>3. wtrial' \in 0..wtrial'
  BY <1>1
<1>4. streamed' # <<>>
  BY <1>1 DEF AllStreamed
<1> QED BY <1>2, <1>3, <1>4 DEF AllStreamed

\* The websocket: what is unsent reaches the session, or the session is lost and its memory
\* with it; a repair then starts from an empty one.
LEMMA LiveStreaming ==
    ASSUME Streaming, Conversation, WPlaces, Conversation', WPlaces', LiveOpen \/ LiveSend \/ LiveRead
    PROVE  Streaming'
<1>1. /\ wire = "gemini-live" /\ wpc \in {"send", "read"} /\ UNCHANGED <<wire, wtrial, chain>>
      /\ wire \notin Stateless /\ wpc # "between"
  BY DEF LiveOpen, LiveSend, LiveRead, liveRest, Stateless
<1>2. InTrial /\ (streamed = <<>> => CaughtUp)
  <2>1. InTrial /\ (repair => streamed # <<>>)
    BY <1>1 DEF Streaming, Asking
  <2>2. CASE wpc = "send"
    BY <1>1, <2>1, <2>2 DEF Streaming
  <2>3. CASE wpc = "read"
    <3>1. Len(streamed) = Len(history) /\ Len(history) >= 3
      BY <1>1, <2>3, ConversationIs DEF Streaming
    <3> QED BY <2>1, <3>1
  <2> QED BY <1>1, <2>2, <2>3
<1>3. ASSUME Recoverable, UNCHANGED <<history, streamed, named>> PROVE Streaming'
  <2>1. session' = NoSession /\ repair' = (streamed' # <<>>)
    BY <1>3, Zenon DEF Recoverable, DropSession
  <2>2. wpc' \in {"send", "failed"}
    BY <1>3 DEF Recoverable, TryAgain
  <2>3. repair' = (streamed # <<>>)
    BY <1>3, <2>1, Zenon
  <2> QED BY <1>1, <1>2, <1>3, <2>1, <2>2, <2>3, LostSession
<1>4. ASSUME Unrecoverable, UNCHANGED <<history, streamed, named>> PROVE Streaming'
  <2>1. session' = NoSession /\ wpc' = "failed" /\ repair' = repair
    BY <1>4 DEF Unrecoverable
  <2>2. \E u \in 0..wtrial' : (StreamedOf(u))'
    BY <1>1, <1>4 DEF Streaming, StreamedOf
  <2>3. session'.told = EmptyBag
    BY <2>1, ShapesAre
  <2> QED BY <1>1, <1>4, <2>1, <2>2, <2>3 DEF Streaming, Asking
<1>5. ASSUME NEW words, session' = [session EXCEPT !.told = words], wpc' = "read", repair' = FALSE, session.open,
             words = Told(history), AllStreamed(streamed'), history' = history
      PROVE  Streaming'
  <2>1. session'.open /\ session'.told = words
    BY <1>5, ShapesAre DEF WPlaces
  <2>2. /\ \E u \in 0..wtrial' : (StreamedOf(u))'
        /\ streamed' \in Seq(Nat \X Nat) /\ streamed' # <<>>
        /\ (StreamedOf(wtrial))' /\ Len(streamed') = Len(history)
    BY <1>1, <1>5, AllIsStreamed
  <2>3. InTrial'
    <3>1. Len(history) \in Nat
      BY <1>1, ConversationIs
    <3> QED BY <1>5, <2>2, <3>1 DEF InTrial
  <2> QED BY <1>1, <1>5, <2>1, <2>2, <2>3 DEF Streaming, Asking
<1>6. CASE LiveOpen
  <2>1. UNCHANGED <<history, streamed, named>> /\ ~session.open /\ wpc = "send"
    BY <1>6 DEF LiveOpen
  <2>2. CASE session' = [open |-> TRUE, told |-> EmptyBag] /\ UNCHANGED <<wpc, repair>>
    <3>1. session'.told = EmptyBag /\ session'.open
      BY <2>2, ShapesAre
    <3>2. session.told = EmptyBag
      BY <2>1 DEF Streaming
    <3>3. Memory' = Memory
      BY <1>1, <3>1, <3>2 DEF Memory
    <3>4. InTrial' /\ (~repair => CaughtUp)
      BY <1>1, <1>2, <2>1 DEF Streaming, InTrial, StreamedOf
    <3>5. ~repair => CaughtUp'
      <4> HIDE DEF Memory
      <4> QED BY <2>1, <3>3, <3>4 DEF CaughtUp
    <3>6. \E u \in 0..wtrial' : (StreamedOf(u))'
      BY <1>1, <2>1 DEF Streaming, StreamedOf
    <3> QED BY <1>1, <2>1, <2>2, <3>1, <3>4, <3>5, <3>6 DEF Streaming, Asking
  <2> QED BY <1>3, <1>6, <2>1, <2>2 DEF LiveOpen
<1>7. CASE LiveSend
  <2>1. wpc = "send" /\ session.open /\ history' = history
    BY <1>7 DEF LiveSend
  <2>2. CASE repair /\ Recover /\ wpc' = "read"
    <3>1. AllStreamed(Ids(history)) /\ Fold(history) = Told(history)
      BY <1>1, Recovered
    <3>2. session.told = EmptyBag
      BY <2>2 DEF Streaming
    <3> DEFINE words == session.told (+) Fold(history)
    <3>3. session' = [session EXCEPT !.told = words] /\ streamed' = Ids(history) /\ repair' = FALSE
      BY <2>2 DEF Recover
    <3>4. words = Told(history)
      <4>1. Told(history) = SetToBag(Tellable(wtrial, history, 1, Len(history)))
        BY <1>1, ConversationIs, ToldAll
      <4>2. EmptyBag = SetToBag({})
        BY DEF EmptyBag, SetToBag
      <4> DEFINE T == Tellable(wtrial, history, 1, Len(history))
      <4> HIDE DEF T
      <4>3. SetToBag({}) (+) SetToBag(T) = SetToBag({} \cup T)
        BY BagsJoin
      <4>4. {} \cup T = T
        OBVIOUS
      <4> QED BY <3>1, <3>2, <4>1, <4>2, <4>3, <4>4 DEF T
    <3> HIDE DEF words
    <3> QED BY <1>5, <2>1, <2>2, <3>1, <3>3, <3>4
  <2>3. CASE ~repair /\ SendSuffix /\ wpc' = "read"
    <3>1. CaughtUp /\ Memory = session.told /\ streamed \in Seq(Nat \X Nat)
      BY <1>1, <1>2, <2>1, <2>3 DEF Streaming, Memory
    <3>2. AllStreamed(streamed \o Ids(Unsent)) /\ Memory (+) Said(Unsent) = Told(history)
      BY <1>1, <1>2, <3>1, Suffixed
    <3> DEFINE words == session.told (+) Said(Unsent)
    <3>3. session' = [session EXCEPT !.told = words] /\ streamed' = streamed \o Ids(Unsent) /\ repair' = repair
      BY <2>3 DEF SendSuffix
    <3>4. words = Told(history)
      BY <3>1, <3>2
    <3>5. repair' = FALSE /\ AllStreamed(streamed')
      BY <2>3, <3>2, <3>3 DEF WPlaces
    <3> HIDE DEF words
    <3> QED BY <1>5, <2>1, <2>3, <3>3, <3>4, <3>5
  <2>4. CASE Unrecoverable /\ UNCHANGED <<streamed, named>>
    BY <1>4, <2>1, <2>4
  <2>5. CASE Recoverable /\ UNCHANGED <<streamed, named>>
    BY <1>3, <2>1, <2>5
  <2> QED BY <1>7, <2>2, <2>3, <2>4, <2>5 DEF LiveSend
<1>8. CASE LiveRead
  <2>1. wpc = "read" /\ streamed' = streamed /\ session.open
    BY <1>8 DEF LiveRead, WPlaces
  <2>2. CASE UNCHANGED <<history, answer, named>> /\ (Recoverable \/ Unrecoverable)
    BY <1>3, <1>4, <2>1, <2>2
  <2>3. CASE \E k \in 0..WCalls :
               /\ Answered(k, session.told)
               /\ session' = [session EXCEPT !.told = @ (+) SetToBag({Reply(k).id})]
               /\ named' = named \cup Reply(k).calls
               /\ UNCHANGED repair
    <3>1. PICK k \in 0..WCalls :
            /\ Answered(k, session.told) /\ UNCHANGED repair
            /\ session' = [session EXCEPT !.told = @ (+) SetToBag({Reply(k).id})]
            /\ named' = named \cup Reply(k).calls
      BY <2>3
    <3> DEFINE words == session.told (+) SetToBag({Reply(k).id})
    <3>2. session' = [session EXCEPT !.told = words] /\ Reply(k).calls \subseteq named'
      BY <3>1
    <3>3. ~repair /\ Len(streamed) = Len(history) /\ session.told = Told(history)
          /\ streamed \in Seq(Nat \X Nat)
      BY <1>1, <2>1 DEF Streaming
    <3>4. AllStreamed(streamed')
      <4>1. DOMAIN streamed = 1..Len(streamed)
        BY <3>3, LenProperties
      <4> QED BY <1>2, <2>1, <3>3, <4>1 DEF AllStreamed, InTrial, StreamedOf
    <3>5. words = Told(history) (+) SetToBag({Reply(k).id})
      BY <3>3
    <3> HIDE DEF words
    <3>6. session'.open /\ session'.told = words
      BY <2>1, <3>2, ShapesAre DEF WPlaces
    <3>7. Memory' = Told(history) (+) SetToBag({Reply(k).id})
      BY <1>1, <3>5, <3>6 DEF Memory
    <3> HIDE DEF Memory
    <3>8. InTrial' /\ CaughtUp'
      BY <1>1, <3>1, <3>2, <3>4, <3>7, RepliedStreaming
    <3>9. /\ \E u \in 0..wtrial' : (StreamedOf(u))'
          /\ streamed' \in Seq(Nat \X Nat) /\ streamed' # <<>>
      BY <1>1, <3>4, AllIsStreamed
    <3>10. wpc' = "answered" /\ repair' = repair
      BY <3>1 DEF Answered
    <3> QED BY <1>1, <3>3, <3>6, <3>8, <3>9, <3>10 DEF Streaming, Asking
  <2> QED BY <1>8, <2>2, <2>3 DEF LiveRead
<1> QED BY <1>6, <1>7, <1>8

\* An interaction continues from all of the conversation.
LEMMA ContinuedIs ==
    ASSUME Streaming, Conversation, WPlaces, wpc = "polling"
    PROVE  /\ Continued = Told(history)
           /\ AllStreamed(IF repair THEN Ids(history) ELSE streamed \o Ids(Unsent))
<1>1. wire = "interactions" /\ wire \notin Stateless /\ wpc # "between" /\ repair \in BOOLEAN
  BY DEF WPlaces, Stateless
<1>2. CASE repair
  BY <1>1, <1>2, Recovered DEF Continued
<1>3. CASE ~repair
  <2>1. InTrial /\ CaughtUp /\ streamed \in Seq(Nat \X Nat) /\ Memory = chain.told
    BY <1>1, <1>3 DEF Streaming, Memory, Asking
  <2>2. AllStreamed(streamed \o Ids(Unsent)) /\ Memory (+) Said(Unsent) = Told(history)
    BY <1>1, <2>1, Suffixed
  <2> QED BY <1>3, <2>1, <2>2 DEF Continued
<1> QED BY <1>1, <1>2, <1>3

\* The chain: an accepted post tells the provider what was unsent, whether or not the answer
\* is read.
LEMMA ChainStreaming ==
    ASSUME Streaming, Conversation, WPlaces, Conversation', WPlaces', InteractionPost \/ InteractionFinishes
    PROVE  Streaming'
<1>1. /\ wire = "interactions" /\ wpc \in {"send", "polling"} /\ UNCHANGED <<wire, wtrial, session>>
      /\ wire \notin Stateless /\ wpc # "between" /\ session = NoSession
  BY DEF InteractionPost, InteractionFinishes, chainRest, Stateless, WPlaces, Streaming
<1>2. CASE InteractionPost
  <2>1. wpc = "send" /\ UNCHANGED <<history, chain, streamed, named>>
    BY <1>2 DEF InteractionPost
  <2>2. CASE repair' = repair /\ wpc' \in {"send", "failed", "polling"}
    <3>1. wpc' = wpc \/ wpc' = "failed" \/ (wpc = "send" /\ wpc' = "polling")
      BY <2>1, <2>2
    <3> QED BY <1>1, <2>1, <2>2, <3>1, SameStreaming
  <2>3. CASE ChainLost
    <3>1. repair' = TRUE /\ chain.known /\ wpc' \in {"send", "failed"}
      BY <2>3 DEF ChainLost, TryAgain
    <3>2. streamed # <<>> /\ InTrial
      BY <1>1, <2>1, <3>1 DEF Streaming, Asking
    <3>3. InTrial' /\ \E u \in 0..wtrial' : (StreamedOf(u))'
      BY <1>1, <2>1, <3>2 DEF Streaming, InTrial, StreamedOf
    <3>4. session'.told = EmptyBag
      BY <1>1, ShapesAre
    <3> QED BY <1>1, <2>1, <3>1, <3>2, <3>3, <3>4 DEF Streaming, Asking
  <2> QED BY <1>2, <2>2, <2>3 DEF InteractionPost, PostLost, PostUnreadable, PostRefused, TryAgain
<1>3. CASE InteractionFinishes
  <2>1. PICK k \in 0..WCalls :
          /\ Answered(k, Continued)
          /\ chain' = [known |-> TRUE, told |-> Continued (+) SetToBag({Reply(k).id})]
          /\ streamed' = IF repair THEN Ids(history) ELSE streamed \o Ids(Unsent)
          /\ named' = (IF repair THEN {} ELSE named) \cup Reply(k).calls
          /\ repair' = FALSE
    BY <1>3 DEF InteractionFinishes
  <2>2. wpc = "polling"
    BY <1>3 DEF InteractionFinishes
  <2>3. Continued = Told(history) /\ AllStreamed(streamed')
    BY <2>1, <2>2, ContinuedIs
  <2> DEFINE words == Continued (+) SetToBag({Reply(k).id})
  <2>4. words = Told(history) (+) SetToBag({Reply(k).id})
    BY <2>3
  <2>5. chain' = [known |-> TRUE, told |-> words] /\ Reply(k).calls \subseteq named'
    BY <2>1
  <2> HIDE DEF words
  <2>6. chain'.told = words
    BY <2>5, ShapesAre
  <2>7. Memory' = Told(history) (+) SetToBag({Reply(k).id})
    BY <1>1, <2>4, <2>6 DEF Memory
  <2> HIDE DEF Memory
  <2>8. InTrial' /\ CaughtUp'
    BY <1>1, <2>1, <2>3, <2>5, <2>7, RepliedStreaming
  <2>9. /\ \E u \in 0..wtrial' : (StreamedOf(u))'
        /\ streamed' \in Seq(Nat \X Nat) /\ streamed' # <<>>
    BY <1>1, <2>3, AllIsStreamed
  <2>10. wpc' = "answered" /\ repair' = FALSE
    BY <2>1 DEF Answered
  <2>11. session'.told = EmptyBag
    BY <1>1, ShapesAre
  <2> QED BY <1>1, <2>8, <2>9, <2>10, <2>11 DEF Streaming, Asking
<1> QED BY <1>2, <1>3

\* What was streamed is a prefix of the conversation or a fold is due, on every wire.
LEMMA StreamingStep ==
    ASSUME Streaming, Conversation, WPlaces, [WNext]_wireVars, Conversation', WPlaces'
    PROVE  Streaming'
<1> USE DEF statelessRest, chainRest, clientVars
<1>0. CASE UNCHANGED wireVars
  BY <1>0, SameStreaming DEF wireVars
<1>1. CASE StartConversation
  BY <1>1, StartStreaming
<1>2. CASE EndConversation
  <2>1. wpc' = "between" /\ UNCHANGED <<wire, wtrial, history, chain, streamed>>
    BY <1>2 DEF EndConversation
  <2>2. \E u \in 0..wtrial' : (StreamedOf(u))'
    BY <2>1 DEF Streaming, StreamedOf
  <2>3. CASE wire = "gemini-live"
    <3>1. session' = NoSession /\ repair' = (streamed # <<>>)
      BY <1>2, <2>3, Zenon DEF EndConversation
    <3>2. repair' <=> streamed # <<>>
      BY <3>1, Zenon
    <3>3. session'.told = EmptyBag
      BY <3>1, ShapesAre
    <3> QED BY <2>1, <2>2, <3>1, <3>2, <3>3 DEF Streaming, Asking
  <2>4. CASE wire # "gemini-live"
    <3>1. UNCHANGED <<session, repair>> /\ session = NoSession
      BY <1>2, <2>4 DEF EndConversation, Streaming
    <3>2. session'.told = EmptyBag
      BY <3>1, ShapesAre
    <3> QED BY <2>1, <2>2, <3>1, <3>2 DEF Streaming, Asking
  <2> QED BY <2>3, <2>4
<1>3. CASE ContinueConversation
  BY <1>3, ContinueStreaming
<1>4. CASE Ask
  BY <1>4, AskStreaming
<1>5. CASE ChatPost \/ ResponsesPost \/ MessagesPost
  <2>1. wire \in Stateless /\ UNCHANGED <<wire, wtrial, session, chain, streamed, repair>>
    BY <1>5 DEF ChatPost, ResponsesPost, MessagesPost, Stateless
  <2> QED BY <2>1, StatelessStreaming
<1>6. CASE LiveOpen \/ LiveSend \/ LiveRead
  BY <1>6, LiveStreaming
<1>7. CASE InteractionPost \/ InteractionFinishes
  BY <1>7, ChainStreaming
<1>8. CASE PollAgain \/ GivePollingUp
  <2>1. /\ UNCHANGED <<wire, wtrial, history, session, chain, streamed, repair, named>>
        /\ wpc' = wpc \/ wpc' = "failed"
    BY <1>8 DEF PollAgain, GivePollingUp, PollFails
  <2> QED BY <2>1, SameStreaming
<1> QED BY <1>0, <1>1, <1>2, <1>3, <1>4, <1>5, <1>6, <1>7, <1>8 DEF WNext

\* A reply's raw items are kept as long as its message stays in the conversation.
LEMMA RawKeptStep ==
    ASSUME RawKept, Conversation, WPlaces, Conversation', [WNext]_wireVars
    PROVE  RawKept'
<1> USE DEF Replays, Asking
<1>1. \/ wpc' \notin {"ask", "send", "answered"} \/ wire' \notin Replays
      \/ StartConversation \/ ContinueConversation \/ Ask \/ ResponsesPost \/ MessagesPost \/ UNCHANGED wireVars
  BY DEF WNext, EndConversation, ChatPost, LiveOpen, LiveSend, LiveRead, InteractionPost, PollAgain, GivePollingUp,
         InteractionFinishes, PollFails, statelessRest, liveRest, chainRest, WPlaces
<1>2. CASE wpc' \notin {"ask", "send", "answered"} \/ wire' \notin Replays
  BY <1>2 DEF RawKept
<1>3. CASE StartConversation
  <2>1. \A i \in DOMAIN history' : history'[i].calls = {}
    BY <1>3 DEF StartConversation
  <2> QED BY <2>1 DEF RawKept
<1>4. CASE ContinueConversation
  <2>1. /\ DOMAIN history = 1..Len(history) /\ Len(history) \in Nat /\ Len(history') \in Nat
        /\ DOMAIN history' = 1..Len(history') /\ \A i \in 1..Len(history) : history'[i] = history[i]
        /\ \A i \in Len(history) + 1..Len(history') : history'[i].calls = {}
    BY <1>4, Continuing
  <2>2. \A i \in 1..Len(history') : i \in 1..Len(history) \/ i \in Len(history) + 1..Len(history')
    BY <2>1
  <2>3. wpc = "answered" /\ UNCHANGED <<wire, replay>>
    BY <1>4 DEF ContinueConversation, clientVars
  <2> QED BY <2>1, <2>2, <2>3 DEF RawKept
<1>5. CASE Ask
  <2>1. wpc = "ask" /\ UNCHANGED <<wire, history>> /\ (wire \in Replays => replay' = replay \cap HistoryCalls)
    BY <1>5 DEF Ask, PruneReplay, Stateless
  <2>2. \A i \in DOMAIN history : history[i].calls \subseteq HistoryCalls
    BY DEF HistoryCalls, Elements
  <2> HIDE DEF HistoryCalls
  <2> QED BY <2>1, <2>2 DEF RawKept
<1>6. CASE ResponsesPost \/ MessagesPost
  <2>1. wpc = "send" /\ UNCHANGED <<wire, wtrial>>
    BY <1>6 DEF ResponsesPost, MessagesPost, statelessRest
  <2>2. CASE NoReply
    BY <2>1, <2>2 DEF RawKept, NoReply
  <2>3. CASE \E k \in 0..WCalls : Answered(k, Told(history)) /\ replay' = replay \cup Reply(k).calls
    <3>1. PICK k \in 0..WCalls : Answered(k, Told(history)) /\ replay' = replay \cup Reply(k).calls
      BY <2>3
    <3>2. /\ DOMAIN history = 1..Len(history) /\ Len(history) \in Nat
          /\ DOMAIN history' = 1..Len(history) + 1 /\ \A i \in 1..Len(history) : history'[i] = history[i]
          /\ history'[Len(history) + 1] = Reply(k)
      BY <2>1, <3>1, Replied DEF Answered
    <3>3. \A i \in 1..Len(history) + 1 : i \in 1..Len(history) \/ i = Len(history) + 1
      BY <3>2
    <3> QED BY <2>1, <3>1, <3>2, <3>3 DEF RawKept
  <2> QED BY <1>6, <2>2, <2>3 DEF ResponsesPost, MessagesPost
<1>7. CASE UNCHANGED wireVars
  BY <1>7 DEF wireVars, RawKept
<1> QED BY <1>1, <1>2, <1>3, <1>4, <1>5, <1>6, <1>7

\* A row is written with the number of the complete() that writes it.
LEMMA Recording ==
    ASSUME RowsKept, WPlaces, wpc \in Asking, Replies \in Nat, Record
    PROVE  RowsAre(capture') /\ (capture'.sink = "open" => UpTo(capture', Replies, wattempt + 1))
<1>1. RowsAre(capture) /\ (capture.sink = "open" => UpTo(capture, Replies, wattempt)) /\ wattempt \in Nat
  BY WireAssumption DEF RowsKept, WPlaces
<1>2. CASE capture.sink # "open"
  <2>1. capture' = capture
    BY <1>2 DEF Record, Recorded
  <2> QED BY <1>1, <1>2, <2>1
<1>3. CASE capture.sink = "open"
  <2> DEFINE n == IF wattempt = 0 THEN capture.call + 1 ELSE capture.call
             row == [call |-> n, attempt |-> wattempt, of |-> Replies]
             rows == Append(capture.rows, row)
             L == Len(capture.rows)
  <2>1. capture' = [capture EXCEPT !.call = n, !.rows = rows] \/ capture' = [capture EXCEPT !.call = n, !.sink = "dead"]
    BY <1>3 DEF Record, Recorded
  <2>2. /\ capture = [sink |-> "open", call |-> capture.call, rows |-> capture.rows]
        /\ capture.call \in Int /\ capture.rows \in Seq(WRows) /\ n \in Int
        /\ L \in Nat /\ DOMAIN capture.rows = 1..L
    BY <1>1, <1>3, LenProperties DEF RowsAre
  <2>3. row \in WRows /\ row.call = n /\ row.attempt = wattempt /\ row.of = Replies
    BY <1>1, <2>2 DEF WRows
  <2>4. UpTo(capture, Replies, wattempt)
    BY <1>1, <1>3
  <2>5. n >= capture.call /\ (wattempt = 0 => n > capture.call) /\ (wattempt > 0 => n = capture.call)
    BY <1>1, <2>2
  <2>6. \A i \in 1..L : capture.rows[i] \in WRows
    BY <2>2
  <2> HIDE DEF n
  <2>7. CASE capture' = [capture EXCEPT !.call = n, !.sink = "dead"]
    <3>1. capture' = [sink |-> "dead", call |-> n, rows |-> capture.rows]
      BY <2>2, <2>7
    <3>2. capture'.sink = "dead" /\ capture'.call = n /\ capture'.rows = capture.rows
      BY <3>1
    <3> QED BY <1>1, <2>2, <3>1, <3>2 DEF RowsAre
  <2>8. CASE capture' = [capture EXCEPT !.call = n, !.rows = rows]
    <3> HIDE DEF rows
    <3>1. capture' = [sink |-> "open", call |-> n, rows |-> rows]
      <4>1. PICK c, q : capture = [sink |-> "open", call |-> c, rows |-> q]
        BY <2>2
      <4> QED BY <2>8, <4>1
    <3>2. capture'.sink = "open" /\ capture'.call = n /\ capture'.rows = rows
      BY <3>1
    <3> HIDE DEF row, L
    <3>3. /\ rows \in Seq(WRows) /\ Len(rows) = L + 1 /\ rows[L + 1] = row
          /\ \A i \in 1..L : rows[i] = capture.rows[i]
      BY <2>2, <2>3, AppendProperties DEF rows, L
    <3>4. DOMAIN rows = 1..L + 1
      BY <3>3, LenProperties
    <3>5. ASSUME NEW i \in 1..L
          PROVE  /\ capture.rows[i].call \in Int /\ capture.rows[i].of \in Nat /\ capture.rows[i].attempt \in Nat
                 /\ capture.rows[i].call <= capture.call /\ capture.rows[i].of <= Replies
                 /\ capture.rows[i].of = Replies <=> wattempt > 0 /\ capture.rows[i].call = capture.call
                 /\ capture.rows[i].of = Replies => capture.rows[i].attempt < wattempt
                 /\ capture.rows[i].call = n <=> capture.rows[i].of = Replies
      <4>1. capture.rows[i].call \in Int /\ capture.rows[i].of \in Nat /\ capture.rows[i].attempt \in Nat
        BY <2>6 DEF WRows
      <4>2. /\ capture.rows[i].call <= capture.call /\ capture.rows[i].of <= Replies
            /\ capture.rows[i].of = Replies <=> wattempt > 0 /\ capture.rows[i].call = capture.call
            /\ capture.rows[i].of = Replies => capture.rows[i].attempt < wattempt
        BY <2>2, <2>4 DEF UpTo
      <4> QED BY <1>1, <2>2, <2>5, <4>1, <4>2
    <3>6. \A i \in 1..L + 1 : i \in 1..L \/ i = L + 1
      BY <2>2
    <3>7. UpTo(capture', Replies, wattempt + 1)
      <4>1. ASSUME NEW i \in 1..L + 1
            PROVE  /\ rows[i].call <= n /\ rows[i].of <= Replies
                   /\ rows[i].of = Replies <=> wattempt + 1 > 0 /\ rows[i].call = n
                   /\ rows[i].of = Replies => rows[i].attempt < wattempt + 1
        <5>1. CASE i \in 1..L
          <6>1. rows[i] = capture.rows[i]
            BY <3>3, <5>1
          <6> QED BY <1>1, <2>2, <2>5, <3>5, <5>1, <6>1
        <5>2. CASE i = L + 1
          <6>1. rows[i] = row
            BY <3>3, <5>2
          <6> QED BY <1>1, <2>2, <2>3, <6>1
        <5> QED BY <3>6, <5>1, <5>2
      <4> QED BY <3>2, <3>4, <4>1 DEF UpTo
    <3>8. ASSUME NEW i \in 1..L + 1, NEW j \in 1..L + 1
          PROVE  /\ rows[i].call = rows[j].call <=> rows[i].of = rows[j].of
                 /\ i < j /\ rows[i].call = rows[j].call => rows[i].attempt < rows[j].attempt
      <4>1. CASE i \in 1..L /\ j \in 1..L
        <5>1. rows[i] = capture.rows[i] /\ rows[j] = capture.rows[j]
          BY <3>3, <4>1
        <5> QED BY <1>1, <2>2, <4>1, <5>1 DEF RowsAre
      <4>2. CASE i \in 1..L /\ j = L + 1
        <5>1. rows[i] = capture.rows[i] /\ rows[j] = row
          BY <3>3, <4>2
        <5> QED BY <2>3, <3>5, <4>2, <5>1
      <4>3. CASE i = L + 1 /\ j \in 1..L
        <5>1. rows[i] = row /\ rows[j] = capture.rows[j] /\ ~(i < j)
          BY <2>2, <3>3, <4>3
        <5> QED BY <2>3, <3>5, <4>3, <5>1
      <4>4. CASE i = L + 1 /\ j = L + 1
        BY <2>2, <4>4
      <4> QED BY <3>6, <4>1, <4>2, <4>3, <4>4
    <3>9. RowsAre(capture')
      BY <2>2, <3>1, <3>2, <3>3, <3>4, <3>8 DEF RowsAre
    <3> QED BY <3>7, <3>9
  <2> QED BY <2>1, <2>7, <2>8
<1> QED BY <1>2, <1>3

\* The replies of a conversation are counted.
LEMMA RepliesAre == Conversation => Replies \in Nat
<1> SUFFICES ASSUME Conversation PROVE Replies \in Nat
  OBVIOUS
<1>1. DOMAIN history = 1..Len(history) /\ Len(history) \in Nat
  BY LenProperties DEF Conversation
<1>2. IsFiniteSet(RepliesIn(history))
  <2>1. IsFiniteSet(1..Len(history)) /\ RepliesIn(history) \subseteq 1..Len(history)
    BY <1>1, FS_Interval DEF RepliesIn
  <2> QED BY <2>1, FS_Subset
<1>3. Cardinality(RepliesIn(history)) \in Nat
  BY <1>2, FS_CardinalityType
<1> QED BY <1>3 DEF Replies, RepliesIn

\* The numbers of the rows are numbers.
LEMMA RowsTyped ==
    ASSUME NEW c, RowsAre(c)
    PROVE  \A i \in DOMAIN c.rows : c.rows[i].call \in Int /\ c.rows[i].of \in Nat
<1> DEFINE q == c.rows
<1>1. q \in Seq(WRows)
  BY DEF RowsAre
<1> HIDE DEF q
<1>2. \A i \in DOMAIN q : q[i] \in WRows
  BY <1>1, LenProperties
<1>3. \A i \in DOMAIN q : q[i].call \in Int /\ q[i].of \in Nat
  BY <1>2 DEF WRows
<1> QED BY <1>3 DEF q

\* After its reply, a complete() is behind the counter of replies.
LEMMA OneReplyMore ==
    ASSUME NEW c, RowsAre(c), NEW n \in Nat, NEW t, UpTo(c, n, t)
    PROVE  UpTo(c, n + 1, 0)
<1>1. \A i \in DOMAIN c.rows : c.rows[i].of \in Nat
  BY RowsTyped
<1> QED BY <1>1 DEF UpTo

\* Rows with one number stay of one complete(), and in the order of its attempts.
LEMMA RowsStep ==
    ASSUME RowsKept, Conversation, WPlaces, [WNext]_wireVars
    PROVE  RowsKept'
<1> USE DEF statelessRest, liveRest, chainRest, clientVars
<1>n. Replies \in Nat /\ (history' = history => Replies' = Replies)
  BY RepliesAre DEF Replies
<1>a. ASSUME wpc \in Asking, Record, history' = history,
             wpc' = "failed" \/ (wpc' = "send" /\ wattempt' = wattempt + 1)
      PROVE  RowsKept'
  <2>1. RowsAre(capture') /\ (capture'.sink = "open" => UpTo(capture', Replies, wattempt + 1)) /\ Replies' = Replies
    BY <1>a, <1>n, Recording
  <2> QED BY <1>a, <2>1 DEF RowsKept, Asking
<1>b. ASSUME wpc \in Asking, Record, wtrial' = wtrial, NEW k \in 0..WCalls, NEW context, Answered(k, context)
      PROVE  RowsKept'
  <2>1. RowsAre(capture') /\ (capture'.sink = "open" => UpTo(capture', Replies, wattempt + 1))
    BY <1>b, <1>n, Recording
  <2>2. Replies' = Replies + 1
    BY <1>b, Replied DEF Answered
  <2>3. capture'.sink = "open" => UpTo(capture', Replies + 1, 0)
    BY <1>n, <2>1, OneReplyMore
  <2>4. wpc' = "answered"
    BY <1>b DEF Answered
  <2> QED BY <2>1, <2>2, <2>3, <2>4 DEF RowsKept, Asking
<1>c. ASSUME wpc \in Asking, UNCHANGED <<capture, history, wattempt>>, wpc' \in Asking \cup {"failed"}
      PROVE  RowsKept'
  BY <1>c, <1>n DEF RowsKept, Asking
<1>0. CASE UNCHANGED wireVars
  <2>1. UNCHANGED <<capture, history, wattempt, wpc>>
    BY <1>0 DEF wireVars
  <2> QED BY <1>n, <2>1 DEF RowsKept
<1>1. CASE StartConversation
  <2>1. PICK sink \in {"open", "dead"} : capture' = [Closed EXCEPT !.sink = sink]
    BY <1>1 DEF StartConversation, BeginCapture
  <2>2. capture' = [sink |-> sink, call |-> -1, rows |-> <<>>]
    BY <2>1 DEF Closed
  <2>3. capture'.sink = sink /\ capture'.call = -1 /\ capture'.rows = <<>> /\ DOMAIN capture'.rows = {}
    BY <2>2
  <2> QED BY <2>2, <2>3 DEF RowsKept, RowsAre, UpTo
<1>2. CASE EndConversation
  <2>1. PICK sink, c, q : capture = [sink |-> sink, call |-> c, rows |-> q] /\ RowsAre(capture)
    BY DEF RowsKept, RowsAre
  <2>2. capture' = [sink |-> "closed", call |-> c, rows |-> q]
    BY <1>2, <2>1 DEF EndConversation, EndCapture
  <2>3. capture'.sink = "closed" /\ capture'.call = c /\ capture'.rows = q /\ capture.call = c /\ capture.rows = q
    BY <2>1, <2>2
  <2> QED BY <2>1, <2>2, <2>3 DEF RowsKept, RowsAre
<1>3. CASE ContinueConversation
  <2>1. Replies' = Replies /\ wpc = "answered" /\ wpc' = "ask" /\ capture' = capture
    BY <1>3, Continuing DEF ContinueConversation
  <2> QED BY <2>1 DEF RowsKept, Asking
<1>4. CASE Ask
  <2>1. wpc = "ask" /\ wpc' \in {"send", "failed"} /\ wattempt' = 0 /\ UNCHANGED <<capture, history>>
    BY <1>4 DEF Ask
  <2> QED BY <1>n, <2>1 DEF RowsKept, Asking
<1>5. CASE ChatPost \/ ResponsesPost \/ MessagesPost
  <2>1. wpc \in Asking /\ Record /\ wtrial' = wtrial
    BY <1>5 DEF ChatPost, ResponsesPost, MessagesPost, Asking
  <2>2. CASE NoReply
    BY <1>a, <2>1, <2>2 DEF NoReply, TryAgain
  <2>3. CASE \E k \in 0..WCalls : Answered(k, Told(history))
    BY <1>b, <2>1, <2>3
  <2> QED BY <1>5, <2>2, <2>3 DEF ChatPost, ResponsesPost, MessagesPost
<1>6. CASE LiveOpen \/ LiveSend
  <2>1. wpc \in Asking /\ wpc = "send" /\ history' = history
    BY <1>6 DEF LiveOpen, LiveSend, Asking
  <2>2. CASE Recoverable \/ Unrecoverable
    BY <1>a, <2>1, <2>2 DEF Recoverable, Unrecoverable, TryAgain
  <2>3. CASE UNCHANGED <<wattempt, capture>> /\ wpc' \in {"send", "read"}
    BY <1>c, <2>1, <2>3 DEF Asking
  <2> QED BY <1>6, <2>1, <2>2, <2>3 DEF LiveOpen, LiveSend
<1>7. CASE LiveRead
  <2>1. wpc \in Asking /\ wtrial' = wtrial
    BY <1>7 DEF LiveRead, Asking
  <2>2. CASE history' = history /\ (Recoverable \/ Unrecoverable)
    BY <1>a, <2>1, <2>2 DEF Recoverable, Unrecoverable, TryAgain
  <2>3. CASE \E k \in 0..WCalls : Answered(k, session.told) /\ Record
    BY <1>b, <2>1, <2>3
  <2> QED BY <1>7, <2>2, <2>3 DEF LiveRead
<1>8. CASE InteractionPost
  <2>1. wpc \in Asking /\ history' = history
    BY <1>8 DEF InteractionPost, Asking
  <2>2. CASE Record /\ (wpc' = "failed" \/ TryAgain)
    BY <1>a, <2>1, <2>2 DEF TryAgain
  <2>3. CASE UNCHANGED <<wattempt, capture>> /\ wpc' \in {"polling", "failed"}
    BY <1>c, <2>1, <2>3 DEF Asking
  <2>4. CASE PostUnreadable
    BY <1>a, <1>c, <2>1, <2>4 DEF PostUnreadable
  <2> QED
    BY <1>8, <2>2, <2>3, <2>4 DEF InteractionPost, ChainLost, PostLost, PostRefused
<1>9. CASE PollAgain
  BY <1>9, <1>c DEF PollAgain, Asking
<1>10. CASE GivePollingUp
  BY <1>10, <1>a DEF GivePollingUp, PollFails, Asking
<1>11. CASE InteractionFinishes
  <2>1. wpc \in Asking /\ wtrial' = wtrial /\ Record /\ \E k \in 0..WCalls : Answered(k, Continued)
    BY <1>11 DEF InteractionFinishes, Asking
  <2> QED BY <1>b, <2>1
<1> QED BY <1>0, <1>1, <1>2, <1>3, <1>4, <1>5, <1>6, <1>7, <1>8, <1>9, <1>10, <1>11 DEF WNext

\* A reply was made from all of the conversation before it.
LEMMA AnswerStep ==
    ASSUME AnswerSeesHistory, Streaming, Conversation, Conversation', WPlaces, [WNext]_wireVars
    PROVE  AnswerSeesHistory'
<1> USE DEF statelessRest, liveRest, chainRest, clientVars
<1>a. ASSUME NEW k \in 0..WCalls, Answered(k, Told(history)), wtrial' = wtrial, wpc # "between"
      PROVE  AnswerSeesHistory'
  <2> DEFINE n == Len(history)
  <2>1. Numbered(wtrial, history) /\ wtrial \in Nat /\ n \in Nat
    BY <1>a, ConversationIs
  <2>2. /\ Len(history') = n + 1 /\ \A i \in 1..n : history'[i] = history[i]
        /\ history'[n + 1] = Reply(k) /\ Reply(k).role = "assistant"
    BY <1>a, Replied DEF Answered
  <2>3. Numbered(wtrial, history')
    BY <1>a DEF Conversation, Numbered
  <2>4. Told(history) = Told(SubSeq(history', 1, n))
    <3>1. Told(history) = Told(SubSeq(history, 1, n))
      BY <2>1, ToldAll
    <3>2. n <= Len(history) /\ n <= Len(history')
      BY <2>1, <2>2
    <3> HIDE DEF n
    <3>3. Told(SubSeq(history', 1, n)) = Told(SubSeq(history, 1, n))
      BY <2>1, <2>2, <2>3, <3>2, ToldKept
    <3> QED BY <3>1, <3>3
  <2>5. answer' = Told(history) /\ Len(history') - 1 = n
    BY <1>a, <2>1, <2>2 DEF Answered
  <2> HIDE DEF n
  <2> QED BY <2>4, <2>5 DEF AnswerSeesHistory
<1>b. ASSUME wpc' # "answered" PROVE AnswerSeesHistory'
  BY <1>b DEF AnswerSeesHistory
<1>0. CASE UNCHANGED wireVars
  BY <1>0 DEF wireVars, AnswerSeesHistory
<1>1. CASE StartConversation \/ EndConversation \/ ContinueConversation \/ Ask \/ InteractionPost
  BY <1>1, <1>b DEF StartConversation, EndConversation, ContinueConversation, Ask, InteractionPost,
                    ChainLost, PostLost, PostUnreadable, PostRefused, TryAgain
<1>2. CASE LiveOpen \/ LiveSend
  BY <1>2, <1>b DEF LiveOpen, LiveSend, Recoverable, Unrecoverable, TryAgain
<1>3. CASE PollAgain \/ GivePollingUp
  BY <1>3, <1>b DEF PollAgain, GivePollingUp, PollFails
<1>4. CASE ChatPost \/ ResponsesPost \/ MessagesPost
  <2>1. wpc = "send" /\ wtrial' = wtrial
    BY <1>4 DEF ChatPost, ResponsesPost, MessagesPost
  <2>2. CASE NoReply
    BY <1>b, <2>2 DEF NoReply, TryAgain
  <2>3. CASE \E k \in 0..WCalls : Answered(k, Told(history))
    BY <1>a, <2>1, <2>3
  <2> QED BY <1>4, <2>2, <2>3 DEF ChatPost, ResponsesPost, MessagesPost
<1>5. CASE LiveRead
  <2>1. wpc = "read" /\ wtrial' = wtrial /\ wire = "gemini-live" /\ wire \notin Stateless
    BY <1>5 DEF LiveRead, Stateless
  <2>2. session.told = Told(history)
    BY <2>1 DEF Streaming
  <2>3. CASE Recoverable \/ Unrecoverable
    BY <1>b, <2>3 DEF Recoverable, Unrecoverable, TryAgain
  <2>4. CASE \E k \in 0..WCalls : Answered(k, session.told)
    BY <1>a, <2>1, <2>2, <2>4
  <2> QED BY <1>5, <2>3, <2>4 DEF LiveRead
<1>6. CASE InteractionFinishes
  <2>1. wpc = "polling" /\ wtrial' = wtrial /\ \E k \in 0..WCalls : Answered(k, Continued)
    BY <1>6 DEF InteractionFinishes
  <2>2. Continued = Told(history)
    BY <2>1, ContinuedIs
  <2> QED BY <1>a, <2>1, <2>2
<1> QED BY <1>0, <1>1, <1>2, <1>3, <1>4, <1>5, <1>6 DEF WNext

\* Only a post adds to what was accepted, and after a reply that says so there is no other.
LEMMA HeardStep ==
    ASSUME HeardLast, WPlaces, [WNext]_wireVars
    PROVE  HeardLast'
<1> USE DEF HeardLast
<1>k. wattempt \in Nat
  BY WireAssumption DEF WPlaces
<1>a. ASSUME UNCHANGED <<heard, unheard>>, UNCHANGED wattempt,
             wpc' \in {"send", "read"} => wpc \in {"send", "read"}
      PROVE  HeardLast'
  BY <1>a
<1>b. ASSUME UNCHANGED <<heard, unheard>>, TryAgain, wpc \in {"send", "read"}
      PROVE  HeardLast'
  BY <1>b, <1>k DEF TryAgain
<1>0. CASE UNCHANGED wireVars
  BY <1>0, <1>a DEF wireVars
<1>1. CASE StartConversation \/ EndConversation \/ ContinueConversation
  BY <1>1, <1>a DEF StartConversation, EndConversation, ContinueConversation, postVars
<1>2. CASE Ask
  <2>1. heard' = {} /\ unheard' = {} /\ wattempt' = 0
    BY <1>2 DEF Ask
  <2> QED BY <2>1
<1>3. CASE ChatPost \/ ResponsesPost \/ MessagesPost
  <2>1. /\ wpc = "send" /\ UNCHANGED <<heard, unheard>>
        /\ TryAgain \/ (wpc' \in {"failed", "answered"} /\ UNCHANGED wattempt)
    BY <1>3 DEF ChatPost, ResponsesPost, MessagesPost, NoReply, Answered, statelessRest, postVars
  <2> QED BY <1>a, <1>b, <2>1
<1>4. CASE LiveOpen \/ LiveSend \/ LiveRead
  <2>1. wpc \in {"send", "read"} /\ UNCHANGED <<heard, unheard>>
    BY <1>4 DEF LiveOpen, LiveSend, LiveRead, liveRest, postVars
  <2>2. TryAgain \/ UNCHANGED wattempt
    BY <1>4 DEF LiveOpen, LiveSend, LiveRead, Recoverable, Unrecoverable, Answered
  <2> QED BY <1>a, <1>b, <2>1, <2>2
<1>5. CASE InteractionPost
  <2>1. wpc = "send" /\ heard = {}
    BY <1>5 DEF InteractionPost
  <2>2. CASE wpc' = "polling" /\ heard' = heard \cup {wattempt} /\ UNCHANGED <<wattempt, unheard>>
    BY <2>1, <2>2
  <2>3. CASE UNCHANGED heard /\ ChainLost /\ UNCHANGED unheard
    BY <1>b, <2>1, <2>3 DEF ChainLost
  <2>4. CASE UNCHANGED heard /\ PostLost
    <3>1. TryAgain /\ unheard' \subseteq 0..wattempt /\ heard' = {}
      BY <1>k, <2>1, <2>4 DEF PostLost
    <3> QED BY <1>k, <3>1 DEF TryAgain
  <2>5. CASE UNCHANGED heard /\ PostUnreadable
    BY <1>k, <2>1, <2>5 DEF PostUnreadable
  <2>6. CASE UNCHANGED <<heard, unheard>> /\ UNCHANGED wattempt /\ wpc' = "failed"
    BY <1>a, <2>6
  <2> QED
    BY <1>5, <2>2, <2>3, <2>4, <2>5, <2>6 DEF InteractionPost, PostRefused, postVars
<1>6. CASE PollAgain \/ GivePollingUp \/ InteractionFinishes
  <2>1. UNCHANGED <<heard, unheard, wattempt>> /\ wpc' \notin {"send", "read"}
    BY <1>6 DEF PollAgain, GivePollingUp, PollFails, InteractionFinishes, Answered, postVars
  <2> QED BY <1>a, <2>1
<1> QED BY <1>0, <1>1, <1>2, <1>3, <1>4, <1>5, <1>6 DEF WNext

\* The clients start in their invariant,
LEMMA WInitial == WInit => WInv
<1> SUFFICES ASSUME WInit PROVE WInv
  OBVIOUS
<1>1. WPlaces
  <2>1. SessionIs(session) /\ ChainIs(chain)
    BY ShapesAre DEF WInit
  <2>2. 0 \in 0..MaxRetries - 1 /\ 0 \in 0..WTrials /\ 0 \in 0..WPolls
    BY WireAssumption
  <2>3. /\ wtrial = 0 /\ wattempt = 0 /\ polls = 0 /\ wpc = "between"
        /\ wire \in Wires
    BY DEF WInit
  <2>4. repair \in BOOLEAN /\ goAway \in BOOLEAN
    BY Zenon DEF WInit
  <2> QED BY <2>1, <2>2, <2>3, <2>4 DEF WPlaces, Asking
<1>2. Conversation
  <2>1. history = <<>> /\ wpc = "between" /\ history \in Seq(WMessages) /\ DOMAIN history = {}
    BY EmptySeq DEF WInit
  <2> QED BY <2>1 DEF Conversation, Asking
<1>3. Streaming
  <2>1. /\ streamed = <<>> /\ wpc = "between" /\ session = NoSession /\ chain = NoChain /\ repair = FALSE
        /\ wtrial = 0 /\ DOMAIN streamed = {} /\ streamed \in Seq(Nat \X Nat)
    BY EmptySeq DEF WInit
  <2>2. 0 \in 0..wtrial /\ StreamedOf(0)
    BY <2>1 DEF StreamedOf
  <2> QED BY <2>1, <2>2, ShapesAre DEF Streaming, Asking
<1>4. RawKept /\ AnswerSeesHistory /\ HeardLast
  BY DEF WInit, RawKept, AnswerSeesHistory, HeardLast
<1>5. RowsKept
  <2>1. /\ capture = [sink |-> "closed", call |-> -1, rows |-> <<>>]
        /\ capture.sink = "closed" /\ capture.call = -1 /\ capture.rows = <<>> /\ DOMAIN capture.rows = {}
    BY DEF WInit, Closed
  <2> QED BY <2>1, EmptySeq DEF RowsKept, RowsAre
<1> QED BY <1>1, <1>2, <1>3, <1>4, <1>5 DEF WInv

\* keep it,
LEMMA WStep == WInv /\ [WNext]_wireVars => WInv'
<1> SUFFICES ASSUME WInv, [WNext]_wireVars PROVE WInv'
  OBVIOUS
<1>1. WPlaces /\ Conversation /\ Streaming /\ RawKept /\ RowsKept /\ AnswerSeesHistory /\ HeardLast
  BY DEF WInv
<1>2. WPlaces' /\ Conversation'
  BY <1>1, WPlacesStep, ConversationStep
<1>3. Streaming'
  BY <1>1, <1>2, StreamingStep
<1>4. RawKept' /\ RowsKept' /\ AnswerSeesHistory' /\ HeardLast'
  BY <1>1, <1>2, RawKeptStep, RowsStep, AnswerStep, HeardStep
<1> QED BY <1>2, <1>3, <1>4 DEF WInv

\* and so a model answers from the whole conversation, told once.
LEMMA WSafe == WInv => WireTypeOK /\ WireKeepsHistory
<1> SUFFICES ASSUME WInv PROVE WireTypeOK /\ WireKeepsHistory
  OBVIOUS
<1>1. WPlaces /\ Conversation /\ Streaming /\ RawKept /\ RowsKept /\ AnswerSeesHistory /\ HeardLast
  BY DEF WInv
<1>2. WireTypeOK
  <2>1. heard \cup unheard \subseteq 0..MaxRetries - 1
    <3>1. MaxRetries \in Nat \ {0} /\ wattempt \in 0..MaxRetries - 1
      BY <1>1, WireAssumption DEF WPlaces
    <3>2. heard \subseteq 0..wattempt /\ unheard \subseteq 0..wattempt
      BY <1>1, <3>1 DEF HeardLast
    <3>3. 0..wattempt \subseteq 0..MaxRetries - 1
      BY <3>1
    <3> QED BY <3>2, <3>3
  <2> QED
    BY <1>1, <2>1 DEF WPlaces, SessionIs, RowsKept, RowsAre, WireTypeOK, Asking
<1>3. ResultsAreNamed
  <2> SUFFICES ASSUME wpc = "send", wire \notin Stateless, ~repair PROVE NamesKnown /\ Said(Unsent) # EmptyBag
    BY DEF ResultsAreNamed
  <2> DEFINE n == Len(history)
             last == Len(streamed) + 1
  <2>1. CaughtUp /\ streamed \in Seq(Nat \X Nat) /\ Len(streamed) \in Nat
    BY <1>1, LenProperties DEF Streaming, Asking
  <2>2. Numbered(wtrial, history) /\ n \in Nat /\ n >= 3 /\ history[n].role \in {"user", "tool"}
    BY <1>1, ConversationIs DEF Conversation, Asking
  <2>3. /\ last \in Nat \ {0} /\ last <= n /\ history[last].role \notin {"user", "tool"}
        /\ history[last].calls \subseteq named
        /\ \A i \in last + 1..n :
             history[i].role = "tool" => history[i].result \in history[last].calls
    BY <2>1 DEF CaughtUp
  <2>4. Unsent = SubSeq(history, last, n)
    BY DEF Unsent
  <2> HIDE DEF n, last
  <2>5. n \in last..n
    BY <2>2, <2>3
  <2>6. Elements(Unsent) = {history[k] : k \in last..n}
    BY <2>2, <2>3, <2>4, PartIs DEF n
  <2>7. NamesKnown
    <3> SUFFICES ASSUME NEW k \in last..n, history[k].role = "tool" PROVE history[k].result \in named
      BY <2>6 DEF NamesKnown
    <3>1. k \in last + 1..n
      BY <2>2, <2>3
    <3> QED BY <2>3, <3>1
  <2>8. Said(Unsent) # EmptyBag
    <3>1. Said(Unsent) = SetToBag(Sayable(wtrial, history, last, n))
      BY <2>2, <2>3, <2>4, SaidOf DEF n
    <3>2. <<wtrial, n>> \in Sayable(wtrial, history, last, n)
      BY <2>2, <2>5 DEF Sayable
    <3>3. DOMAIN SetToBag(Sayable(wtrial, history, last, n)) # DOMAIN EmptyBag
      BY <3>2 DEF SetToBag, EmptyBag
    <3> QED BY <3>1, <3>3
  <2> QED BY <2>7, <2>8
<1>4. TurnsReplayRaw
  BY <1>1 DEF RawKept, TurnsReplayRaw, Elements
<1>5. NotResubmitted
  BY <1>1, WireAssumption DEF WPlaces, HeardLast, NotResubmitted
<1>6. RowsShareTheirCall
  <2>1. RowsAre(capture) /\ (wpc = "polling" /\ capture.sink = "open" => UpTo(capture, Replies, wattempt))
    BY <1>1 DEF RowsKept, Asking
  <2>2. wattempt \in Nat
    BY <1>1, WireAssumption DEF WPlaces
  <2>3. \A i, j \in DOMAIN capture.rows :
          /\ (capture.rows[i].call = capture.rows[j].call) = (capture.rows[i].of = capture.rows[j].of)
          /\ i < j /\ capture.rows[i].call = capture.rows[j].call => capture.rows[i].attempt < capture.rows[j].attempt
    BY <2>1 DEF RowsAre
  <2>4. ASSUME wpc = "polling", capture.sink = "open", NEW row \in Elements(capture.rows)
        PROVE  (row.of = Replies) = (row.call = CheckpointCall)
    <3>1. PICK i \in DOMAIN capture.rows : row = capture.rows[i]
      BY DEF Elements
    <3>2. row.call \in Int /\ capture.call \in Int
      BY <2>1, <3>1, RowsTyped DEF RowsAre
    <3>3. row.call <= capture.call /\ (row.of = Replies <=> wattempt > 0 /\ row.call = capture.call)
      BY <2>1, <2>4, <3>1 DEF UpTo
    <3>4. row.of = Replies <=> row.call = CheckpointCall
      BY <2>2, <3>2, <3>3 DEF CheckpointCall
    <3> QED BY <3>4
  <2> QED BY <2>3, <2>4, Zenon DEF RowsShareTheirCall
<1> QED BY <1>1, <1>2, <1>3, <1>4, <1>5, <1>6 DEF WireKeepsHistory

----------------------------------------------------------------------------
\* MCPlugins.  Whatever the subject, each of the parts starts in its invariant and keeps it.

PluginsInv ==
    /\ RosInv /\ XInv /\ CInv /\ TInv /\ WInv /\ ActInv /\ LooksInv
    /\ (subject = "setup" => SetupTyped) /\ KeysStayHome /\ CliInv /\ JudgeInv

LEMMA PluginsStart == PInit => PluginsInv
<1> SUFFICES ASSUME PInit PROVE PluginsInv
  OBVIOUS
<1>1. RosInv /\ XInv /\ CInv /\ TInv /\ WInv
  BY RosInit, XInitial, CInitial, TInitial, WInitial DEF PInit
<1>2. ActInv /\ LooksInv
  BY LooksStart DEF PInit, ActInit, ActInv, Counting, Owing, NarratesOwnTrial
<1>3. (subject = "setup" => SetupTyped) /\ KeysStayHome
  <2>1. spc = "build" /\ (subject = "setup" => opt.base # "none")
    BY SetupAssumption DEF PInit, SetupInit
  <2> QED BY <2>1 DEF SetupTyped, SetupTypeOK, KeysStayHome, KeyGoesHome, WireIsServed
<1>4. CliInv /\ JudgeInv
  BY CliInitial, InitJudgeInv DEF PInit
<1> QED BY <1>1, <1>2, <1>3, <1>4 DEF PluginsInv

\* A step of the subject is one of its own; the others are left as they are.
LEMMA OnlyTheSubject ==
    ASSUME [PNext]_pluginVars
    PROVE  /\ [RNext]_rosVars /\ [XNext]_xVars /\ [CapNext]_capVars /\ [ToolsNext]_toolVars
           /\ [WNext]_wireVars /\ [ActNext]_actVars /\ [SetupNext]_setupVars
           /\ [CliNext]_cliVars /\ [JudgeNext]_judgeVars /\ subject' = subject
<1>0. CASE UNCHANGED pluginVars
  BY <1>0 DEF pluginVars
<1>1. CASE RNext /\ UNCHANGED <<subject, xVars, capVars, toolVars, wireVars, actVars, setupVars, cliVars, judgeVars>>
  BY <1>1
<1>2. CASE XNext /\ UNCHANGED <<subject, rosVars, capVars, toolVars, wireVars, actVars, setupVars, cliVars, judgeVars>>
  BY <1>2
<1>3. CASE CapNext /\ UNCHANGED <<subject, rosVars, xVars, toolVars, wireVars, actVars, setupVars, cliVars, judgeVars>>
  BY <1>3
<1>4. CASE ToolsNext /\ UNCHANGED <<subject, rosVars, xVars, capVars, wireVars, actVars, setupVars, cliVars, judgeVars>>
  BY <1>4
<1>5. CASE WNext /\ UNCHANGED <<subject, rosVars, xVars, capVars, toolVars, actVars, setupVars, cliVars, judgeVars>>
  BY <1>5
<1>6. CASE ActNext /\ UNCHANGED <<subject, rosVars, xVars, capVars, toolVars, wireVars, setupVars, cliVars, judgeVars>>
  BY <1>6
<1>7. CASE SetupNext /\ UNCHANGED <<subject, rosVars, xVars, capVars, toolVars, wireVars, actVars, cliVars, judgeVars>>
  BY <1>7
<1>8. CASE CliNext /\ UNCHANGED <<subject, rosVars, xVars, capVars, toolVars, wireVars, actVars, setupVars, judgeVars>>
  BY <1>8
<1>9. CASE JudgeNext /\ UNCHANGED <<subject, rosVars, xVars, capVars, toolVars, wireVars, actVars, setupVars, cliVars>>
  BY <1>9
<1>a. PNext => \/ RNext /\ UNCHANGED <<subject, xVars, capVars, toolVars, wireVars, actVars, setupVars, cliVars, judgeVars>>
               \/ XNext /\ UNCHANGED <<subject, rosVars, capVars, toolVars, wireVars, actVars, setupVars, cliVars, judgeVars>>
               \/ CapNext /\ UNCHANGED <<subject, rosVars, xVars, toolVars, wireVars, actVars, setupVars, cliVars, judgeVars>>
               \/ ToolsNext /\ UNCHANGED <<subject, rosVars, xVars, capVars, wireVars, actVars, setupVars, cliVars, judgeVars>>
               \/ WNext /\ UNCHANGED <<subject, rosVars, xVars, capVars, toolVars, actVars, setupVars, cliVars, judgeVars>>
               \/ ActNext /\ UNCHANGED <<subject, rosVars, xVars, capVars, toolVars, wireVars, setupVars, cliVars, judgeVars>>
               \/ SetupNext /\ UNCHANGED <<subject, rosVars, xVars, capVars, toolVars, wireVars, actVars, cliVars, judgeVars>>
               \/ CliNext /\ UNCHANGED <<subject, rosVars, xVars, capVars, toolVars, wireVars, actVars, setupVars, judgeVars>>
               \/ JudgeNext /\ UNCHANGED <<subject, rosVars, xVars, capVars, toolVars, wireVars, actVars, setupVars, cliVars>>
  BY DEF PNext
<1> QED
  BY <1>a, <1>0, <1>1, <1>2, <1>3, <1>4, <1>5, <1>6, <1>7, <1>8, <1>9

LEMMA PluginsStep == PluginsInv /\ [PNext]_pluginVars => PluginsInv'
BY OnlyTheSubject, RosStep, XStep, CStep, TStep, WStep, ActInvStep, LooksStep, SetupTypedStep,
   KeysStep, CliInvStep, NextJudgeInv DEF PluginsInv

\* The invariant of the composition.
LEMMA PluginsKept == PSpec => []PluginsInv
BY PluginsStart, PluginsStep, PTL DEF PSpec

\* For every arm, server, profile and box: a reply, an observation or an inference belongs to
\* the request, the step and the trial it is given to, however late the other side is.
THEOREM AnswersAlwaysTheirOwn == PSpec => []AnswersAreTheirOwn
<1>1. PluginsInv => AnswersAreTheirOwn
  BY RosSafe, XSafe DEF PluginsInv, AnswersAreTheirOwn
<1> QED BY <1>1, PluginsKept, PTL

\* And what a policy commands is what it declared: motions within the speed and calls within
\* the budget, the dimensions nobody named held, chunks of the declared width.
THEOREM MotionsAlwaysAsDeclared == PSpec => []MotionsAreAsDeclared
<1>1. PluginsInv => MotionsAreAsDeclared
  BY CSafe, TSafe, XSafe DEF PluginsInv, MotionsAreAsDeclared
<1> QED BY <1>1, PluginsKept, PTL

\* For every number of retries, replies, calls and polls: the model that answers has been told
\* every message of the conversation once, whatever sockets and chains were lost on the way,
\* and what the clients keep for the next request is what it will need.
THEOREM WireAlwaysKeepsHistory == PSpec => []WireKeepsHistory
<1>1. PluginsInv => WireKeepsHistory
  BY WSafe DEF PluginsInv
<1> QED BY <1>1, PluginsKept, PTL

\* Every part of the composition keeps its types, whichever of them is the subject.
THEOREM PluginTypesHold == PSpec => []PluginsTypeOK
<1>1. PluginsInv => PluginsTypeOK
  <2> SUFFICES ASSUME PluginsInv PROVE PluginsTypeOK
    OBVIOUS
  <2>1. RosTypeOK /\ XTypeOK /\ CapTypeOK /\ ToolsTypeOK /\ WireTypeOK
    BY RosSafe, XSafe, CSafe, TSafe, WSafe DEF PluginsInv
  <2>2. ActTypeOK /\ (subject = "setup" => SetupTypeOK) /\ CliTypeOK
    BY LooksSafe, CliSafe DEF PluginsInv, SetupTyped
  <2>3. JudgingTypeOK
    BY JudgeInvTyped DEF PluginsInv
  <2> QED BY <2>1, <2>2, <2>3 DEF PluginsTypeOK
<1> QED BY <1>1, PluginsKept, PTL

\* What is proved of the agent, the commands and the judgements alone holds of them in the
\* composition, where each may be the subject.
THEOREM SubjectsKeepTheirOwn ==
    PSpec => /\ [](NarratesOwnTrial /\ KeysStayHome /\ CommandsLeaveRigs /\ JudgementsCount)
             /\ RefusedIsVisible
<1>1. PluginsInv => NarratesOwnTrial /\ KeysStayHome /\ CommandsLeaveRigs /\ JudgementsCount
  BY CliSafe, JudgeInvCounts DEF PluginsInv, ActInv
<1>2. PluginsInv /\ [PNext]_pluginVars => [RefusedAreVisible]_actVars
  BY OnlyTheSubject, RefusedStep DEF PluginsInv
<1>3. RefusedIsVisible <=> [][RefusedAreVisible]_actVars
  BY DEF RefusedIsVisible, RefusedAreVisible
<1> QED BY <1>1, <1>2, <1>3, PluginsKept, PTL DEF PSpec
=============================================================================
