---------------------------- MODULE SinksProofs ----------------------------
(***************************************************************************)
(* What TLAPS proves of Sinks, for every list of sinks in any order and    *)
(* every number of runs, trials and transcript deltas.                     *)
(***************************************************************************)
EXTENDS Sinks, SequenceTheorems, NumberProofs, TLAPS

----------------------------------------------------------------------------
\* The orders of the fan-out.

\* f collects the sinks of these kinds among the first n.
UpTo(f, kinds, n) ==
    f = [i \in 0..n |-> IF i = 0 THEN <<>>
                        ELSE IF Sinks[i] \in kinds THEN Append(f[i - 1], Sinks[i]) ELSE f[i - 1]]

LEMMA SinksTyped == Sinks \in Seq(Kinds) /\ Len(Sinks) \in Nat
  BY SinksAssumption, LenProperties

LEMMA UpToExists ==
    ASSUME NEW kinds
    PROVE  \E f : UpTo(f, kinds, Len(Sinks))
<1> DEFINE P == {n \in 0..Len(Sinks) : \E f : UpTo(f, kinds, n)}
<1>1. 0 \in P
  <2>1. UpTo([i \in 0..0 |-> <<>>], kinds, 0)
    BY DEF UpTo
  <2> QED BY <2>1, SinksTyped
<1>2. ASSUME NEW n \in 1..Len(Sinks), n - 1 \in P PROVE n \in P
  <2>1. PICK f : UpTo(f, kinds, n - 1)
    BY <1>2
  <2> DEFINE g == [i \in 0..n |->
                     IF i = n THEN IF Sinks[n] \in kinds THEN Append(f[n - 1], Sinks[n])
                                                         ELSE f[n - 1]
                              ELSE f[i]]
  <2>2. ASSUME NEW i \in 0..n
        PROVE  g[i] = IF i = 0 THEN <<>>
                      ELSE IF Sinks[i] \in kinds THEN Append(g[i - 1], Sinks[i]) ELSE g[i - 1]
    <3>1. CASE i = n
      <4>1. g[i - 1] = f[n - 1]
        BY <3>1, SinksTyped
      <4> QED BY <3>1, <4>1, SinksTyped
    <3>2. CASE i # n
      <4>1. i \in 0..(n - 1) /\ g[i] = f[i] /\ (i # 0 => g[i - 1] = f[i - 1])
        BY <3>2, SinksTyped
      <4>2. f[i] = IF i = 0 THEN <<>>
                   ELSE IF Sinks[i] \in kinds THEN Append(f[i - 1], Sinks[i]) ELSE f[i - 1]
        BY <2>1, <4>1 DEF UpTo
      <4> HIDE DEF g
      <4> QED BY <4>1, <4>2
    <3> QED BY <3>1, <3>2
  <2>3. g = [i \in 0..n |-> g[i]]
    OBVIOUS
  <2>4. UpTo(g, kinds, n)
    <3> HIDE DEF g
    <3> QED BY <2>2, <2>3 DEF UpTo
  <2> QED BY <2>4
<1>3. 0..Len(Sinks) \subseteq P
  <2> HIDE DEF P
  <2> QED BY <1>1, <1>2, UpToInduction, SinksTyped
<1> QED BY <1>3, SinksTyped

\* The kinds of the fan-out are few: a sequence of sinks of these kinds, no longer than the
\* list, each of which is collected once.
Lives(list) == {j \in 1..Len(list) : list[j] = "live"}

\* Where the live sink stands in the list.
LEMMA OneLive ==
    \E p \in 1..Len(Sinks) :
       Sinks[p] = "live" /\ \A i \in 1..Len(Sinks) : Sinks[i] = "live" => i = p
<1> DEFINE S == {i \in 1..Len(Sinks) : Sinks[i] = "live"}
<1>1. IsFiniteSet(S)
  <2>1. IsFiniteSet(1..Len(Sinks)) /\ S \in SUBSET (1..Len(Sinks))
    BY SinksTyped, FS_Interval
  <2> HIDE DEF S
  <2> QED BY <2>1, FS_Subset
<1>2. Cardinality(S) = 1
  BY SinksAssumption
<1>3. PICK p : S = {p}
  <2> HIDE DEF S
  <2> QED BY <1>1, <1>2, FS_Singleton
<1>4. p \in S /\ \A i \in S : i = p
  <2> HIDE DEF S
  <2> QED BY <1>3
<1> QED BY <1>4

\* f[i] is a list of at most i sinks of these kinds, with the live sink at one place if it
\* is among the first i, and at none otherwise.
Collected(list, kinds, i, p) ==
    /\ list \in Seq(Kinds) /\ Len(list) <= i
    /\ \A j \in 1..Len(list) : list[j] \in kinds
    /\ \A j, k \in 1..Len(list) : list[j] = "live" /\ list[k] = "live" => j = k
    /\ (\E j \in 1..Len(list) : list[j] = "live") <=> "live" \in kinds /\ p <= i

LEMMA CollectedAppend ==
    ASSUME NEW kinds \in SUBSET Kinds, NEW h \in Nat, NEW i \in Nat, i = h + 1, NEW p \in Nat,
           NEW list, Collected(list, kinds, h, p), NEW k \in Kinds, k = "live" <=> p = i,
           NEW longer, longer = IF k \in kinds THEN Append(list, k) ELSE list
    PROVE  /\ Collected(longer, kinds, i, p)
           /\ Len(list) \in Nat
           /\ k \in kinds => Len(longer) = Len(list) + 1
           /\ k \notin kinds => Len(longer) = Len(list)
<1>1. list \in Seq(Kinds) /\ Len(list) \in Nat /\ Len(list) <= h
  BY LenProperties DEF Collected
<1>2. CASE k \notin kinds
  <2>1. "live" \in kinds => (p <= h <=> p <= i)
    BY <1>2
  <2> QED BY <1>1, <1>2, <2>1 DEF Collected
<1>3. CASE k \in kinds
  <2>1. /\ longer \in Seq(Kinds) /\ Len(longer) = Len(list) + 1 /\ longer[Len(list) + 1] = k
        /\ \A j \in 1..Len(list) : longer[j] = list[j]
    BY <1>1, <1>3, AppendProperties
  <2>2. \A j \in 1..Len(longer) : j \in 1..Len(list) \/ j = Len(list) + 1
    BY <1>1, <2>1
  <2>3. \A j \in 1..Len(longer) : longer[j] \in kinds
    BY <1>3, <2>1, <2>2 DEF Collected
  <2>4. CASE k = "live"
    <3>1. \A j \in 1..Len(list) : list[j] # "live"
      BY <2>4 DEF Collected
    <3>2. \A j \in 1..Len(longer) : longer[j] = "live" <=> j = Len(list) + 1
      BY <1>1, <2>1, <2>2, <2>4, <3>1
    <3>3. Len(list) + 1 \in 1..Len(longer)
      BY <1>1, <2>1
    <3> QED BY <1>1, <1>3, <2>1, <2>3, <2>4, <3>2, <3>3 DEF Collected
  <2>5. CASE k # "live"
    <3>1. \A j \in 1..Len(longer) : longer[j] = "live" => j \in 1..Len(list) /\ list[j] = "live"
      BY <2>1, <2>2, <2>5
    <3>2. \A j \in 1..Len(list) : j \in 1..Len(longer) /\ longer[j] = list[j]
      BY <1>1, <2>1
    <3>3. p <= h <=> p <= i
      BY <2>5
    <3> QED BY <1>1, <2>1, <2>3, <3>1, <3>2, <3>3 DEF Collected
  <2> QED BY <2>1, <2>4, <2>5, <1>1, <1>3
<1> QED BY <1>2, <1>3

\* The lists collected of two complementary sets of kinds hold every sink between them.
LEMMA OfKindsIsUpTo ==
    ASSUME NEW kinds
    PROVE  \E f : UpTo(f, kinds, Len(Sinks)) /\ OfKinds(kinds) = f[Len(Sinks)]
<1> DEFINE f == CHOOSE h : UpTo(h, kinds, Len(Sinks))
<1>1. UpTo(f, kinds, Len(Sinks))
  BY UpToExists
<1>2. OfKinds(kinds) = f[Len(Sinks)]
  BY DEF OfKinds, UpTo
<1> HIDE DEF f
<1> QED BY <1>1, <1>2

LEMMA OfKindsCollects ==
    ASSUME NEW kinds \in SUBSET Kinds, NEW p \in 1..Len(Sinks), Sinks[p] = "live",
           \A i \in 1..Len(Sinks) : Sinks[i] = "live" => i = p
    PROVE  /\ Collected(OfKinds(kinds), kinds, Len(Sinks), p)
           /\ Len(OfKinds(kinds)) + Len(OfKinds(Kinds \ kinds)) = Len(Sinks)
<1> DEFINE n == Len(Sinks)
           others == Kinds \ kinds
<1>1. PICK f : UpTo(f, kinds, n) /\ OfKinds(kinds) = f[n]
  BY OfKindsIsUpTo
<1>2. PICK g : UpTo(g, others, n) /\ OfKinds(others) = g[n]
  BY OfKindsIsUpTo
<1> DEFINE Both(i) == /\ Collected(f[i], kinds, i, p) /\ Collected(g[i], others, i, p)
                      /\ Len(f[i]) + Len(g[i]) = i
           P == {i \in 0..n : Both(i)}
<1>3. n \in Nat /\ p \in Nat \ {0} /\ 0 \in 0..n /\ n \in 0..n /\ others \in SUBSET Kinds
  BY SinksTyped
<1>4. 0 \in P
  <2>1. f[0] = <<>> /\ g[0] = <<>>
    BY <1>1, <1>2, <1>3 DEF UpTo
  <2>2. ASSUME NEW some PROVE Collected(<<>>, some, 0, p)
    BY <1>3 DEF Collected
  <2>3. Len(<<>>) + Len(<<>>) = 0
    OBVIOUS
  <2>4. Both(0)
    BY <2>1, <2>2, <2>3
  <2> HIDE DEF Both
  <2> QED BY <1>3, <2>4
<1>5. ASSUME NEW i \in 1..n, i - 1 \in P PROVE i \in P
  <2>1. /\ Collected(f[i - 1], kinds, i - 1, p) /\ Collected(g[i - 1], others, i - 1, p)
        /\ Len(f[i - 1]) + Len(g[i - 1]) = i - 1
    BY <1>5
  <2>2. i \in 0..n /\ i # 0 /\ i - 1 \in Nat /\ i \in Nat /\ i = (i - 1) + 1 /\ Sinks[i] \in Kinds
    BY <1>3, ElementOfSeq, SinksTyped
  <2>3. /\ f[i] = IF Sinks[i] \in kinds THEN Append(f[i - 1], Sinks[i]) ELSE f[i - 1]
        /\ g[i] = IF Sinks[i] \in others THEN Append(g[i - 1], Sinks[i]) ELSE g[i - 1]
    BY <1>1, <1>2, <2>2 DEF UpTo
  <2>4. Sinks[i] = "live" <=> p = i
    OBVIOUS
  <2> HIDE DEF n, P
  <2>5. /\ Collected(f[i], kinds, i, p) /\ Len(f[i - 1]) \in Nat
        /\ Sinks[i] \in kinds => Len(f[i]) = Len(f[i - 1]) + 1
        /\ Sinks[i] \notin kinds => Len(f[i]) = Len(f[i - 1])
    <3>1. PICK list, longer, k, h :
            list = f[i - 1] /\ longer = f[i] /\ k = Sinks[i] /\ h = i - 1
      OBVIOUS
    <3>2. /\ h \in Nat /\ i = h + 1 /\ p \in Nat /\ k \in Kinds /\ (k = "live" <=> p = i)
          /\ Collected(list, kinds, h, p)
          /\ longer = IF k \in kinds THEN Append(list, k) ELSE list
      BY <1>3, <2>1, <2>2, <2>3, <2>4, <3>1
    <3>3. Collected(longer, kinds, i, p)
      BY <1>3, <2>2, <3>2, CollectedAppend
    <3>6. Len(list) \in Nat
      BY <3>2, LenProperties DEF Collected
    <3>4. ASSUME k \in kinds PROVE Len(longer) = Len(list) + 1
      BY <1>3, <2>2, <3>2, <3>4, CollectedAppend
    <3>5. ASSUME k \notin kinds PROVE Len(longer) = Len(list)
      BY <1>3, <2>2, <3>2, <3>5, CollectedAppend
    <3> QED BY <3>1, <3>3, <3>4, <3>5, <3>6
  <2> HIDE DEF others
  <2>6. /\ Collected(g[i], others, i, p) /\ Len(g[i - 1]) \in Nat
        /\ Sinks[i] \in others => Len(g[i]) = Len(g[i - 1]) + 1
        /\ Sinks[i] \notin others => Len(g[i]) = Len(g[i - 1])
    <3>1. PICK list, longer, k, h :
            list = g[i - 1] /\ longer = g[i] /\ k = Sinks[i] /\ h = i - 1
      OBVIOUS
    <3>2. /\ h \in Nat /\ i = h + 1 /\ p \in Nat /\ k \in Kinds /\ (k = "live" <=> p = i)
          /\ Collected(list, others, h, p)
          /\ longer = IF k \in others THEN Append(list, k) ELSE list
      BY <1>3, <2>1, <2>2, <2>3, <2>4, <3>1
    <3>3. Collected(longer, others, i, p)
      BY <1>3, <2>2, <3>2, CollectedAppend
    <3>6. Len(list) \in Nat
      BY <3>2, LenProperties DEF Collected
    <3>4. ASSUME k \in others PROVE Len(longer) = Len(list) + 1
      BY <1>3, <2>2, <3>2, <3>4, CollectedAppend
    <3>5. ASSUME k \notin others PROVE Len(longer) = Len(list)
      BY <1>3, <2>2, <3>2, <3>5, CollectedAppend
    <3> QED BY <3>1, <3>3, <3>4, <3>5, <3>6
  <2>7. Len(f[i]) + Len(g[i]) = i
    <3> DEFINE a == Len(f[i])
               b == Len(g[i])
               c == Len(f[i - 1])
               d == Len(g[i - 1])
    <3>1. \/ a = c + 1 /\ b = d
          \/ a = c /\ b = d + 1
      BY <2>2, <2>5, <2>6 DEF others
    <3>2. c \in Nat /\ d \in Nat /\ c + d = i - 1
      BY <2>1, <2>5, <2>6
    <3>3. a + b = i
      <4>1. i \in Int
        BY <2>2
      <4> HIDE DEF a, b, c, d
      <4>2. a + b = c + d + 1 /\ c + d \in Nat
        BY <3>1, <3>2
      <4> QED BY <3>2, <4>1, <4>2
    <3> QED BY <3>3
  <2>8. Both(i)
    BY <2>5, <2>6, <2>7
  <2> HIDE DEF Both
  <2> QED BY <2>2, <2>8 DEF P
<1>6. n \in P
  <2> HIDE DEF P, n
  <2> QED BY <1>3, <1>4, <1>5, UpToInduction
<1> QED BY <1>1, <1>2, <1>6

\* What the proofs need to know of the two orders: each is a list of sinks no longer than the
\* one given; the live sink is in both, once; no transcript is sent to the canonical sink; and
\* a critical sink is served before any other.
LEMMA OrdersKnown ==
    /\ MessageHooks \in Seq(Kinds) /\ Len(MessageHooks) <= Len(Sinks)
    /\ Ordered \in Seq(Kinds) /\ Len(Ordered) <= Len(Sinks)
    /\ \A i \in 1..Len(MessageHooks) : MessageHooks[i] # "json"
    /\ \A i, j \in 1..Len(MessageHooks) :
         MessageHooks[i] = "live" /\ MessageHooks[j] = "live" => i = j
    /\ \E i \in 1..Len(Ordered) : Ordered[i] = "live"
    /\ \A i, j \in 1..Len(Ordered) : Ordered[i] = "live" /\ Ordered[j] = "live" => i = j
    /\ \A i, j \in 1..Len(Ordered) : Ordered[i] = "live" /\ Ordered[j] \in Critical => j < i
<1>1. PICK p \in 1..Len(Sinks) :
        Sinks[p] = "live" /\ \A i \in 1..Len(Sinks) : Sinks[i] = "live" => i = p
  BY OneLive
<1>2. Collected(MessageHooks, Kinds \ {"json"}, Len(Sinks), p)
  BY <1>1, OfKindsCollects DEF MessageHooks
<1>3. PICK a, b : a = OfKinds(Critical) /\ b = OfKinds(Kinds \ Critical)
  OBVIOUS
<1>4. /\ Collected(a, Critical, Len(Sinks), p) /\ Collected(b, Kinds \ Critical, Len(Sinks), p)
      /\ Len(a) + Len(b) = Len(Sinks)
  <2>1. Critical \in SUBSET Kinds /\ Kinds \ Critical \in SUBSET Kinds
    BY DEF Critical, Kinds
  <2> QED BY <1>1, <1>3, <2>1, OfKindsCollects
<1>5. /\ a \in Seq(Kinds) /\ b \in Seq(Kinds) /\ Len(a) \in Nat /\ Len(b) \in Nat
      /\ "live" \in Kinds \ Critical /\ "live" \notin Critical /\ p <= Len(Sinks)
  BY <1>1, <1>4, LenProperties DEF Collected, Critical, Kinds
<1>6. /\ Ordered \in Seq(Kinds) /\ Len(Ordered) = Len(a) + Len(b)
      /\ \A i \in 1..(Len(a) + Len(b)) :
           Ordered[i] = IF i <= Len(a) THEN a[i] ELSE b[i - Len(a)]
  BY <1>3, <1>5, ConcatProperties DEF Ordered
<1>7. \A i \in 1..Len(Ordered) :
        \/ i \in 1..Len(a) /\ Ordered[i] = a[i] /\ Ordered[i] \in Critical
        \/ /\ i > Len(a) /\ i - Len(a) \in 1..Len(b) /\ Ordered[i] = b[i - Len(a)]
           /\ Ordered[i] \notin Critical
  BY <1>4, <1>5, <1>6 DEF Collected
<1>8. \E i \in 1..Len(Ordered) : Ordered[i] = "live"
  <2>1. PICK j \in 1..Len(b) : b[j] = "live"
    BY <1>4, <1>5 DEF Collected
  <2>2. Len(a) + j \in 1..Len(Ordered) /\ ~(Len(a) + j <= Len(a)) /\ Len(a) + j - Len(a) = j
    BY <1>5, <1>6
  <2> QED BY <1>6, <2>1, <2>2
<1>9. \A i, j \in 1..Len(Ordered) : Ordered[i] = "live" /\ Ordered[j] = "live" => i = j
  <2> SUFFICES ASSUME NEW i \in 1..Len(Ordered), NEW j \in 1..Len(Ordered),
                      Ordered[i] = "live", Ordered[j] = "live"
               PROVE  i = j
    OBVIOUS
  <2>1. /\ i - Len(a) \in 1..Len(b) /\ b[i - Len(a)] = "live"
        /\ j - Len(a) \in 1..Len(b) /\ b[j - Len(a)] = "live"
    BY <1>5, <1>7
  <2>2. i - Len(a) = j - Len(a)
    BY <1>4, <2>1 DEF Collected
  <2> QED BY <1>5, <2>2
<1>10. \A i, j \in 1..Len(Ordered) : Ordered[i] = "live" /\ Ordered[j] \in Critical => j < i
  BY <1>5, <1>7
<1> QED BY <1>2, <1>4, <1>5, <1>6, <1>8, <1>9, <1>10 DEF Collected

----------------------------------------------------------------------------
\* The inductive invariant, in named parts.

\* The live sink has been offered the hook that is being fanned out.
Served == hook # "none" /\ \E i \in 1..Len(Order) : i < at /\ Order[i] = "live"

\* The run is under way for the live sink: it has been given the run's on_eval_start, and
\* not yet its on_eval_end.
Started == \/ phase \in {"between", "trial", "halted"} /\ ~(hook = "on_eval_end" /\ Served)
           \/ hook = "on_eval_start" /\ Served

Toggles ==
    /\ stop \in BOOLEAN /\ failure \in BOOLEAN /\ streamOk \in BOOLEAN
    /\ finished \in BOOLEAN /\ disabled \in BOOLEAN /\ active \in BOOLEAN
    /\ writeFailed \in BOOLEAN /\ recorded \in BOOLEAN /\ blindStart \in BOOLEAN

\* Who may call what.
Calling ==
    /\ phase \in {"idle", "between", "trial", "halted", "stopped", "closed"}
    /\ hook \in Hooks \cup {"none"}
    /\ run \in 0..Runs /\ trials \in 0..Trials
    /\ at \in 1..(Len(Sinks) + 1)
    /\ phase \in {"stopped", "closed"} => hook = "none"
    /\ hook = "on_eval_start" => phase = "idle" /\ trials = 0
    /\ hook = "on_trial_start" => phase = "between" /\ trials < Trials
    /\ hook \in {"log_step", "log_policy_messages", "on_trial_end"} => phase = "trial"
    /\ hook = "on_eval_end" => phase \in {"between", "halted"}
    /\ phase \in {"between", "trial", "halted"} \/ hook # "none" => run >= 1
    /\ phase = "trial" => trials < Trials
    /\ hook = "log_policy_messages" => streamOk

\* What a message hook has been given, of what was sent.
Behind(i) == IF i \in raised THEN got[i] < sent ELSE got[i] = sent - 1
Level(i) == IF i \in raised THEN got[i] < sent ELSE got[i] = sent

Streaming ==
    /\ latched \subseteq 1..Len(MessageHooks) /\ raised \subseteq 1..Len(MessageHooks)
    /\ sent \in 0..MaxDeltas /\ got \in [1..Len(MessageHooks) -> 0..MaxDeltas]
    /\ \A i \in 1..Len(MessageHooks) : got[i] <= sent
    /\ phase = "trial" \/ hook = "on_trial_start" => latched = raised
    /\ \A i \in raised : MessageHooks[i] # "live"
    /\ hook # "log_policy_messages" /\ ((phase = "trial" /\ streamOk) \/ hook = "on_trial_start") =>
         \A i \in 1..Len(MessageHooks) : Level(i)
    /\ hook = "log_policy_messages" =>
         /\ sent >= 1
         /\ \A i \in 1..Len(MessageHooks) : IF i < at THEN Level(i) ELSE Behind(i)

Snapshots == [exists : BOOLEAN, completed : 0..Trials, active : BOOLEAN, entries : 0..MaxDeltas]

\* The snapshot of the run in progress shows what the live sink keeps of it.
Published ==
    Started /\ ~disabled =>
         /\ path = run /\ snap[run].exists /\ snap[run].completed = completed
         /\ snap[run].active = active /\ snap[run].entries <= entries
         /\ ~active => entries = 0
         /\ phase # "halted" =>
              /\ completed = IF hook = "on_trial_end" /\ Served THEN trials + 1 ELSE trials
              /\ active = IF phase = "trial" THEN ~(hook = "on_trial_end" /\ Served)
                                             ELSE hook = "on_trial_start" /\ Served
         /\ phase = "trial" => entries <= sent
         /\ hook = "on_trial_start" => entries = 0
         /\ hook = "log_policy_messages" /\ ~Served => entries < sent

Publishing ==
    /\ path \in 0..run /\ completed \in 0..Trials /\ entries \in 0..MaxDeltas
    /\ snap \in [1..Runs -> Snapshots]
    /\ Started => ~finished
    /\ Published

\* Whose snapshot may not go: the run whose log could not be written.
Recording ==
    /\ onlyRecord \subseteq 1..run
    /\ logs \subseteq 1..Runs
    /\ onlyRecord # {} => writeFailed
    /\ run \in onlyRecord => \/ hook = "on_eval_end" /\ failure
                             \/ hook = "none" /\ phase \in {"idle", "stopped", "closed"}
    /\ hook = "on_eval_end" /\ ~Served => (recorded <=> snap[run].exists)
    /\ ~blindStart /\ (Started \/ hook = "on_eval_end") => path \in {0, run}
    /\ ~blindStart => \A r \in onlyRecord :
         /\ snap[r].exists
         /\ r = path => \/ finished
                        \/ phase \in {"stopped", "closed"}
                        \/ hook = "on_eval_end" /\ failure /\ ~Served

\* Whose snapshot may stay: that of the run in progress, and the excused.
Excusing ==
    /\ excused \subseteq 1..Runs
    /\ hook = "on_eval_end" /\ failure => run \in excused
    /\ \A r \in 1..Runs : snap[r].exists => r \in excused \/ r = path
    /\ path # 0 /\ snap[path].exists =>
         /\ finished => path \in excused
         /\ path # run /\ (Started \/ hook = "on_eval_end") => path \in excused
    /\ NoStaleSnapshot

Inv == Toggles /\ Calling /\ Streaming /\ Publishing /\ Recording /\ Excusing

----------------------------------------------------------------------------
\* How a step moves through the fan-out.

\* From here on the groups of variables are read as their members.
USE DEF caller, fan, stream, trialState, live, disk, ghosts

LEMMA OrderKnown ==
    /\ Order \in Seq(Kinds) /\ Len(Order) \in Nat /\ Len(Order) <= Len(Sinks)
    /\ \A i, j \in 1..Len(Order) : Order[i] = "live" /\ Order[j] = "live" => i = j
    /\ hook # "log_policy_messages" =>
         /\ \E i \in 1..Len(Order) : Order[i] = "live"
         /\ \A i, j \in 1..Len(Order) : Order[i] = "live" /\ Order[j] \in Critical => j < i
<1>1. CASE hook = "log_policy_messages"
  <2>1. Order = MessageHooks
    BY <1>1 DEF Order
  <2> QED BY <1>1, <2>1, OrdersKnown, LenProperties
<1>2. CASE hook # "log_policy_messages"
  <2>1. Order = Ordered
    BY <1>2 DEF Order
  <2> QED BY <1>2, <2>1, OrdersKnown, LenProperties
<1> QED BY <1>1, <1>2

\* A sink has been offered the hook, and the next one is to be.
LEMMA OfferedOne ==
    ASSUME Calling, NEW k, Here(k), at' = at + 1, UNCHANGED hook
    PROVE  /\ at \in 1..Len(Order) /\ Order[at] = k /\ at' \in 1..(Len(Sinks) + 1)
           /\ Served' <=> Served \/ k = "live"
           /\ k = "live" => ~Served
           /\ k \in Critical /\ hook # "log_policy_messages" => ~Served
<1>1. /\ at \in 1..Len(Order) /\ Order[at] = k /\ at' \in 1..(Len(Sinks) + 1) /\ hook # "none"
      /\ Len(Order) \in Nat
  BY OrderKnown DEF Here, Calling
<1>2. Order' = Order
  BY DEF Order
<1>3. \A i \in 1..Len(Order) : i < at' <=> i < at \/ i = at
  BY <1>1
<1>4. Served' <=> Served \/ k = "live"
  BY <1>1, <1>2, <1>3 DEF Served
<1>5. k = "live" => ~Served
  BY <1>1, OrderKnown DEF Served
<1>6. k \in Critical /\ hook # "log_policy_messages" => ~Served
  BY <1>1, OrderKnown DEF Served
<1> QED BY <1>1, <1>4, <1>5, <1>6

\* The same of a hook that raised through the fan-out.
LEMMA OfferedCritical ==
    ASSUME Calling, NEW k \in Critical, Here(k), hook # "log_policy_messages"
    PROVE  ~Served
<1>1. at \in 1..Len(Order) /\ Order[at] = k /\ Len(Order) \in Nat
  BY OrderKnown DEF Here, Calling
<1> QED BY <1>1, OrderKnown DEF Served

\* Every sink was offered the hook, the live one among them.
LEMMA OfferedAll ==
    ASSUME Calling, hook # "none", hook # "log_policy_messages", at > Len(Order)
    PROVE  Served
<1>1. PICK i \in 1..Len(Order) : Order[i] = "live"
  BY OrderKnown
<1>2. i < at
  BY OrderKnown DEF Calling
<1> QED BY <1>1, <1>2 DEF Served

LEMMA ServedStays ==
    ASSUME UNCHANGED <<hook, at>>
    PROVE  Served' <=> Served
  BY DEF Served, Order

LEMMA NoneServed ==
    /\ (\E h : Call(h)) \/ Leave => ~Served'
    /\ hook = "none" => ~Served
<1>1. (\E h : Call(h)) => ~Served'
  <2> SUFFICES ASSUME NEW h, Call(h) PROVE ~Served'
    OBVIOUS
  <2>1. at' = 1 /\ \A i \in 1..Len(Order') : ~(i < 1)
    BY DEF Call
  <2> QED BY <2>1 DEF Served
<1>2. Leave => ~Served'
  BY DEF Leave, Served
<1> QED BY <1>1, <1>2 DEF Served

LEMMA CallingStep ==
    ASSUME Calling, Streaming, [Next]_vars
    PROVE  Calling'
<1>0. /\ Len(Sinks) \in Nat /\ Runs \in Nat /\ Trials \in Nat
      /\ 1 \in 1..(Len(Sinks) + 1)
      /\ at <= Len(Order) => at + 1 \in 1..(Len(Sinks) + 1)
      /\ hook = "log_policy_messages" /\ at \in latched => at <= Len(Order)
  BY SinksTyped, SinksAssumption, OrderKnown, OrdersKnown DEF Calling, Streaming, Order
<1> USE DEF Calling, Hooks, Call, Leave, Pass, Here
<1>1. CASE StartRun \/ StartTrial \/ LogStep
  BY <1>1, <1>0 DEF StartRun, StartTrial, LogStep
<1>2. CASE ForwardMessages \/ EndTrial \/ EndRun
  BY <1>2, <1>0 DEF ForwardMessages, EndTrial, EndRun
<1>3. CASE Abandon \/ Stop \/ Interrupt
  BY <1>3, <1>0 DEF Abandon, Stop, Interrupt
<1>4. CASE FanOutEnds
  BY <1>0, <1>4 DEF FanOutEnds, Over
<1>5. CASE ContributedReturns
  BY <1>5, <1>0 DEF ContributedReturns
<1>6. CASE PassLatched
  BY <1>6, <1>0 DEF PassLatched
<1>7. CASE ContributedRaises
  BY <1>7, <1>0 DEF ContributedRaises
<1>8. CASE MessageHookRaises
  BY <1>8, <1>0 DEF MessageHookRaises
<1>9. CASE ContributedHalts
  BY <1>9, <1>0 DEF ContributedHalts
<1>10. CASE JsonIgnores \/ JsonWrites
  BY <1>10, <1>0 DEF JsonIgnores, JsonWrites
<1>11. CASE JsonFails
  BY <1>0, <1>11 DEF JsonFails, WriteFails
<1>12. CASE JsonInterrupted
  BY <1>0, <1>12 DEF JsonInterrupted, WriteFails
<1>13. CASE LiveStartsRun
  BY <1>13, <1>0 DEF LiveStartsRun
<1>14. CASE LiveStartsTrial
  BY <1>14, <1>0 DEF LiveStartsTrial
<1>15. CASE LiveTakesMessages
  BY <1>15, <1>0 DEF LiveTakesMessages
<1>16. CASE LiveEndsTrial
  BY <1>16, <1>0 DEF LiveEndsTrial
<1>17. CASE LiveIgnores
  BY <1>17, <1>0 DEF LiveIgnores
<1>18. CASE LiveEndsRun
  BY <1>18, <1>0 DEF LiveEndsRun
<1>19. CASE LiveRetains
  BY <1>19, <1>0 DEF LiveRetains
<1>20. CASE CloseSinks
  BY <1>20, <1>0 DEF CloseSinks
<1>21. CASE UNCHANGED vars
  BY <1>21, <1>0 DEF vars
<1> QED BY <1>1, <1>2, <1>3, <1>4, <1>5, <1>6, <1>7, <1>8, <1>9, <1>10, <1>11, <1>12,
     <1>13, <1>14, <1>15, <1>16, <1>17, <1>18, <1>19, <1>20, <1>21, Zenon DEF Next, Done

LEMMA TogglesStep ==
    ASSUME Toggles, Calling, snap \in [1..Runs -> Snapshots], [Next]_vars
    PROVE  Toggles'
<1> USE DEF Toggles, Call, Leave, Pass, Write, Reset
<1>1. CASE StartRun \/ StartTrial \/ LogStep
  BY <1>1, Zenon DEF StartRun, StartTrial, LogStep
<1>2. CASE ForwardMessages \/ EndTrial
  BY <1>2, Zenon DEF ForwardMessages, EndTrial
<1>3. CASE EndRun
  <2>1. run \in 1..Runs
    BY <1>3, SinksAssumption DEF EndRun, Calling
  <2>2. snap[run] \in Snapshots
    BY <2>1
  <2>3. snap[run].exists \in BOOLEAN
    BY <2>2 DEF Snapshots
  <2> QED BY <1>3, <2>3, Zenon DEF EndRun
<1>4. CASE Abandon \/ Stop \/ Interrupt
  BY <1>4, Zenon DEF Abandon, Stop, Interrupt
<1>5. CASE FanOutEnds
  BY <1>5, Zenon DEF FanOutEnds
<1>6. CASE ContributedReturns \/ PassLatched
  BY <1>6, Zenon DEF ContributedReturns, PassLatched
<1>7. CASE ContributedRaises
  BY <1>7, Zenon DEF ContributedRaises
<1>8. CASE MessageHookRaises
  BY <1>8, Zenon DEF MessageHookRaises
<1>9. CASE ContributedHalts
  BY <1>9, Zenon DEF ContributedHalts
<1>10. CASE JsonIgnores \/ JsonWrites
  BY <1>10, Zenon DEF JsonIgnores, JsonWrites
<1>11. CASE JsonFails
  BY <1>11, Zenon DEF JsonFails, WriteFails
<1>12. CASE JsonInterrupted
  BY <1>12, Zenon DEF JsonInterrupted, WriteFails
<1>13. CASE LiveStartsRun
  BY <1>13, Zenon DEF LiveStartsRun
<1>14. CASE LiveStartsTrial
  BY <1>14, Zenon DEF LiveStartsTrial
<1>15. CASE LiveTakesMessages
  BY <1>15, Zenon DEF LiveTakesMessages
<1>16. CASE LiveEndsTrial
  BY <1>16, Zenon DEF LiveEndsTrial
<1>17. CASE LiveIgnores
  BY <1>17, Zenon DEF LiveIgnores
<1>18. CASE LiveEndsRun
  BY <1>18, Zenon DEF LiveEndsRun
<1>19. CASE LiveRetains
  BY <1>19, Zenon DEF LiveRetains
<1>20. CASE CloseSinks
  BY <1>20, Zenon DEF CloseSinks
<1>21. CASE UNCHANGED vars
  BY <1>21, Zenon DEF vars
<1> QED BY <1>1, <1>2, <1>3, <1>4, <1>5, <1>6, <1>7, <1>8, <1>9, <1>10, <1>11, <1>12,
     <1>13, <1>14, <1>15, <1>16, <1>17, <1>18, <1>19, <1>20, <1>21, Zenon DEF Next, Done

LEMMA MessagesStep ==
    ASSUME Toggles, Calling, Streaming, [Next]_vars
    PROVE  Streaming'
<1>0. /\ MaxDeltas \in Nat /\ Len(MessageHooks) \in Nat /\ MessageHooks' = MessageHooks
      /\ Order = IF hook = "log_policy_messages" THEN MessageHooks ELSE Ordered
      /\ NoneGot \in [1..Len(MessageHooks) -> 0..MaxDeltas]
      /\ \A i \in 1..Len(MessageHooks) : NoneGot[i] = 0
  BY SinksAssumption, OrdersKnown, LenProperties DEF Order, MessageHooks, OfKinds, NoneGot
<1> USE DEF Calling, Streaming, Behind, Level, Call, Leave, Pass, Here, Delivered
<1>1. CASE StartRun
  BY <1>1, <1>0 DEF StartRun
<1>2. CASE StartTrial
  BY <1>2, <1>0 DEF StartTrial
<1>3. CASE LogStep
  BY <1>3, <1>0 DEF LogStep
<1>4. CASE ForwardMessages
  <2>1. /\ phase = "trial" /\ streamOk /\ hook = "none" /\ sent < MaxDeltas /\ sent' = sent + 1
        /\ hook' = "log_policy_messages" /\ at' = 1
        /\ UNCHANGED <<phase, streamOk, latched, raised, got>>
    BY <1>4 DEF ForwardMessages
  <2>2. ASSUME NEW i \in 1..Len(MessageHooks)
        PROVE  got'[i] <= sent' /\ ~(i < at') /\ Behind(i)'
    <3>1. Level(i) /\ got[i] \in 0..MaxDeltas /\ sent \in 0..MaxDeltas
      BY <2>1
    <3>2. got'[i] = got[i] /\ raised' = raised
      BY <2>1
    <3> QED BY <1>0, <2>1, <3>1, <3>2
  <2>3. sent' \in 0..MaxDeltas /\ sent' >= 1
    BY <1>0, <2>1
  <2> QED BY <1>0, <2>1, <2>2, <2>3
<1>5. CASE EndTrial
  BY <1>5, <1>0 DEF EndTrial
<1>6. CASE EndRun
  BY <1>6, <1>0 DEF EndRun
<1>7. CASE Abandon \/ Stop
  BY <1>7, <1>0 DEF Abandon, Stop
<1>8. CASE Interrupt
  BY <1>8, <1>0 DEF Interrupt
<1>9. CASE FanOutEnds
  <2>1. hook' = "none" /\ UNCHANGED stream
    BY <1>9 DEF FanOutEnds
  <2>2. CASE phase' = "trial"
    <3>1. \/ hook = "log_policy_messages" /\ at > Len(MessageHooks) /\ phase = "trial"
          \/ hook = "log_step" /\ phase = "trial"
          \/ hook = "on_trial_start"
      BY <1>0, <1>9, <2>2 DEF FanOutEnds, Over, Hooks
    <3>2. ASSUME streamOk, NEW i \in 1..Len(MessageHooks) PROVE Level(i)
      <4>1. CASE hook = "log_policy_messages"
        <5>1. i < at
          BY <1>0, <3>1, <4>1
        <5> QED BY <4>1, <5>1
      <4>2. CASE hook # "log_policy_messages"
        BY <3>1, <3>2, <4>2
      <4> QED BY <4>1, <4>2
    <3> QED BY <1>0, <2>1, <3>1, <3>2
  <2>3. CASE phase' # "trial"
    BY <1>0, <2>1, <2>3
  <2> QED BY <2>2, <2>3
<1>10. CASE ContributedReturns
  <2>1. /\ at \in 1..Len(Order) /\ UNCHANGED <<hook, phase, streamOk, latched, raised, sent>>
        /\ at' = at + 1
    BY <1>0, <1>10, OrderKnown DEF ContributedReturns
  <2>2. CASE hook # "log_policy_messages"
    <3>1. UNCHANGED got
      BY <1>10, <2>2 DEF ContributedReturns
    <3> QED BY <1>0, <2>1, <2>2, <3>1
  <2>3. CASE hook = "log_policy_messages"
    <3>1. at \in 1..Len(MessageHooks) /\ at \notin raised
      BY <1>0, <1>10, <2>1, <2>3 DEF ContributedReturns, Contributed
    <3>2. got' = [got EXCEPT ![at] = got[at] + 1] /\ got[at] = sent - 1 /\ sent >= 1
      BY <1>10, <2>3, <3>1 DEF ContributedReturns
    <3>3. got' \in [1..Len(MessageHooks) -> 0..MaxDeltas]
      BY <3>1, <3>2
    <3>4. ASSUME NEW i \in 1..Len(MessageHooks)
          PROVE  got'[i] <= sent' /\ IF i < at' THEN Level(i)' ELSE Behind(i)'
      <4>1. CASE i = at
        BY <2>1, <3>1, <3>2, <4>1
      <4>2. CASE i # at
        <5>1. got'[i] = got[i] /\ (i < at' <=> i < at)
          BY <2>1, <3>1, <3>2, <4>2
        <5> QED BY <2>1, <2>3, <5>1
      <4> QED BY <4>1, <4>2
    <3> QED BY <1>0, <2>1, <2>3, <3>2, <3>3, <3>4
  <2> QED BY <2>2, <2>3
<1>11. CASE PassLatched
  BY <1>11, <1>0 DEF PassLatched
<1>12. CASE ContributedRaises
  BY <1>12, <1>0 DEF ContributedRaises
<1>13. CASE MessageHookRaises
  BY <1>13, <1>0 DEF MessageHookRaises
<1>14. CASE ContributedHalts
  BY <1>14, <1>0 DEF ContributedHalts
<1>15. CASE JsonIgnores
  <2>1. /\ at \in 1..Len(Order) /\ Order[at] = "json"
        /\ UNCHANGED <<hook, phase, stream>>
    BY <1>0, <1>15, OrderKnown DEF JsonIgnores
  <2>2. hook # "log_policy_messages"
    BY <1>0, <2>1, OrdersKnown
  <2> QED BY <1>0, <2>1, <2>2
<1>16. CASE JsonWrites
  BY <1>16, <1>0 DEF JsonWrites
<1>17. CASE JsonFails
  BY <1>0, <1>17 DEF JsonFails, WriteFails
<1>18. CASE JsonInterrupted
  BY <1>0, <1>18 DEF JsonInterrupted, WriteFails
<1>19. CASE LiveStartsRun
  BY <1>19, <1>0 DEF LiveStartsRun
<1>20. CASE LiveStartsTrial
  BY <1>20, <1>0 DEF LiveStartsTrial
<1>21. CASE LiveTakesMessages
  <2>1. /\ at \in 1..Len(Order) /\ UNCHANGED <<hook, phase, streamOk, latched, raised, sent>>
        /\ at' = at + 1
    BY <1>0, <1>21, OrderKnown DEF LiveTakesMessages
  <2>2. CASE hook # "log_policy_messages"
    <3>1. UNCHANGED got
      BY <1>21, <2>2 DEF LiveTakesMessages
    <3> QED BY <1>0, <2>1, <2>2, <3>1
  <2>3. CASE hook = "log_policy_messages"
    <3>1. at \in 1..Len(MessageHooks) /\ at \notin raised
      BY <1>0, <1>21, <2>1, <2>3 DEF LiveTakesMessages, Contributed
    <3>2. got' = [got EXCEPT ![at] = got[at] + 1] /\ got[at] = sent - 1 /\ sent >= 1
      BY <1>21, <2>3, <3>1 DEF LiveTakesMessages
    <3>3. got' \in [1..Len(MessageHooks) -> 0..MaxDeltas]
      BY <3>1, <3>2
    <3>4. ASSUME NEW i \in 1..Len(MessageHooks)
          PROVE  got'[i] <= sent' /\ IF i < at' THEN Level(i)' ELSE Behind(i)'
      <4>1. CASE i = at
        BY <2>1, <3>1, <3>2, <4>1
      <4>2. CASE i # at
        <5>1. got'[i] = got[i] /\ (i < at' <=> i < at)
          BY <2>1, <3>1, <3>2, <4>2
        <5> QED BY <2>1, <2>3, <5>1
      <4> QED BY <4>1, <4>2
    <3> QED BY <1>0, <2>1, <2>3, <3>2, <3>3, <3>4
  <2> QED BY <2>2, <2>3
<1>22. CASE LiveEndsTrial
  BY <1>22, <1>0 DEF LiveEndsTrial
<1>23. CASE LiveIgnores
  <2>1. /\ at \in 1..Len(Order) /\ UNCHANGED <<hook, phase, streamOk, latched, raised, sent>>
        /\ at' = at + 1
    BY <1>0, <1>23, OrderKnown DEF LiveIgnores
  <2>2. CASE hook # "log_policy_messages"
    <3>1. UNCHANGED got
      BY <1>23, <2>2 DEF LiveIgnores
    <3> QED BY <1>0, <2>1, <2>2, <3>1
  <2>3. CASE hook = "log_policy_messages"
    <3>1. at \in 1..Len(MessageHooks) /\ at \notin raised
      BY <1>0, <1>23, <2>1, <2>3 DEF LiveIgnores, Contributed
    <3>2. got' = [got EXCEPT ![at] = got[at] + 1] /\ got[at] = sent - 1 /\ sent >= 1
      BY <1>23, <2>3, <3>1 DEF LiveIgnores
    <3>3. got' \in [1..Len(MessageHooks) -> 0..MaxDeltas]
      BY <3>1, <3>2
    <3>4. ASSUME NEW i \in 1..Len(MessageHooks)
          PROVE  got'[i] <= sent' /\ IF i < at' THEN Level(i)' ELSE Behind(i)'
      <4>1. CASE i = at
        BY <2>1, <3>1, <3>2, <4>1
      <4>2. CASE i # at
        <5>1. got'[i] = got[i] /\ (i < at' <=> i < at)
          BY <2>1, <3>1, <3>2, <4>2
        <5> QED BY <2>1, <2>3, <5>1
      <4> QED BY <4>1, <4>2
    <3> QED BY <1>0, <2>1, <2>3, <3>2, <3>3, <3>4
  <2> QED BY <2>2, <2>3
<1>24. CASE LiveEndsRun
  BY <1>24, <1>0 DEF LiveEndsRun
<1>25. CASE LiveRetains
  BY <1>25, <1>0 DEF LiveRetains
<1>26. CASE CloseSinks
  BY <1>26, <1>0 DEF CloseSinks
<1>27. CASE UNCHANGED vars
  BY <1>27, <1>0 DEF vars
<1> QED BY <1>1, <1>2, <1>3, <1>4, <1>5, <1>6, <1>7, <1>8, <1>9, <1>10, <1>11, <1>12,
     <1>13, <1>14, <1>15, <1>16, <1>17, <1>18, <1>19, <1>20, <1>21, <1>22, <1>23, <1>24,
     <1>25, <1>26, <1>27, Zenon DEF Next, Done

\* What a forced write leaves on the disk.
LEMMA WriteLeaves ==
    ASSUME snap \in [1..Runs -> Snapshots], run \in 1..Runs,
           NEW c \in 0..Trials, NEW a \in BOOLEAN, NEW e \in 0..MaxDeltas, Write(c, a, e)
    PROVE  /\ snap' \in [1..Runs -> Snapshots]
           /\ \A r \in 1..Runs : r # run => snap'[r] = snap[r]
           /\ \/ disabled' = TRUE /\ snap' = snap
              \/ /\ disabled' = disabled
                 /\ snap'[run].exists = TRUE /\ snap'[run].completed = c
                 /\ snap'[run].active = a /\ snap'[run].entries = e
<1> DEFINE w == [exists |-> TRUE, completed |-> c, active |-> a, entries |-> e]
<1>1. w \in Snapshots
  BY DEF Snapshots
<1>2. w.exists = TRUE /\ w.completed = c /\ w.active = a /\ w.entries = e
  OBVIOUS
<1>3. \/ snap' = [snap EXCEPT ![run] = w] /\ disabled' = disabled
      \/ disabled' = TRUE /\ snap' = snap
  BY DEF Write
<1> HIDE DEF w
<1>4. CASE snap' = [snap EXCEPT ![run] = w] /\ disabled' = disabled
  <2>1. snap' \in [1..Runs -> Snapshots] /\ snap'[run] = w
    BY <1>1, <1>4
  <2> QED BY <1>2, <1>4, <2>1
<1> QED BY <1>3, <1>4

LEMMA NoFileKnown ==
    /\ NoFile \in Snapshots /\ NoFile.exists = FALSE
    /\ LET first == [NoFile EXCEPT !.exists = TRUE]
       IN  /\ first \in Snapshots /\ first.exists = TRUE /\ first.completed = 0
           /\ first.active = FALSE /\ first.entries = 0
<1>1. 0 \in 0..Trials /\ 0 \in 0..MaxDeltas
  BY SinksAssumption
<1> DEFINE first == [NoFile EXCEPT !.exists = TRUE]
<1>2. NoFile \in Snapshots /\ NoFile.exists = FALSE
  BY <1>1 DEF NoFile, Snapshots
<1>3. first.exists = TRUE /\ first.completed = 0 /\ first.active = FALSE /\ first.entries = 0
  BY DEF NoFile
<1>4. first \in Snapshots
  BY <1>1 DEF Snapshots, NoFile
<1> QED BY <1>2, <1>3, <1>4

\* What the live sink, offered a hook within a trial, can rely on.
LEMMA LiveRelies ==
    ASSUME Toggles, Calling, Streaming, Publishing, Here("live"), Pass, ~disabled,
           hook \in {"on_trial_start", "log_policy_messages", "on_trial_end"}
    PROVE  /\ run \in 1..Runs /\ path = run /\ ~finished /\ completed = trials
           /\ completed \in Nat /\ entries \in Nat /\ sent \in 0..MaxDeltas
           /\ snap \in [1..Runs -> Snapshots] /\ snap[run].exists
           /\ snap[run].completed = completed /\ snap[run].active = active
           /\ snap[run].entries <= entries /\ snap[run].entries \in Nat
           /\ hook = "on_trial_start" => phase = "between"
           /\ hook # "on_trial_start" => phase = "trial" /\ trials < Trials /\ active
           /\ hook = "log_policy_messages" => entries < sent
           /\ UNCHANGED hook /\ Served'
<1>1. at' = at + 1 /\ UNCHANGED hook
  BY DEF Pass
<1>2. ~Served /\ Served'
  BY <1>1, OfferedOne DEF Critical
<1>3. run \in 1..Runs /\ phase \in {"between", "trial"}
  BY SinksAssumption DEF Calling
<1>4. Started /\ ~finished
  BY <1>3 DEF Started, Publishing
<1>5. snap[run] \in Snapshots /\ completed \in Nat /\ entries \in Nat /\ sent \in 0..MaxDeltas
  BY <1>3, SinksAssumption DEF Publishing, Streaming
<1>6. Published
  BY DEF Publishing
<1>7. /\ path = run /\ completed = trials
      /\ snap[run].exists /\ snap[run].completed = completed /\ snap[run].active = active
      /\ snap[run].entries <= entries
      /\ hook = "log_policy_messages" => entries < sent
  BY <1>2, <1>3, <1>4, <1>6 DEF Published
<1>8. hook = "on_trial_start" => phase = "between"
  BY DEF Calling
<1>9. hook # "on_trial_start" => phase = "trial" /\ trials < Trials
  BY DEF Calling
<1>10. phase = "trial" => active
  BY <1>2, <1>4, <1>6 DEF Published
<1>11. snap[run].entries \in Nat /\ snap \in [1..Runs -> Snapshots]
  BY <1>5, SinksAssumption DEF Snapshots, Publishing
<1> QED BY <1>1, <1>2, <1>3, <1>4, <1>5, <1>7, <1>8, <1>9, <1>10, <1>11

\* It publishes what it keeps, in a forced write.
LEMMA LiveShows ==
    ASSUME snap \in [1..Runs -> Snapshots], run \in 1..Runs,
           completed' \in 0..Trials, active' \in BOOLEAN, entries' \in 0..MaxDeltas,
           Write(completed', active', entries')
    PROVE  /\ snap' \in [1..Runs -> Snapshots]
           /\ \/ disabled' = TRUE
              \/ /\ snap'[run].exists /\ snap'[run].completed = completed'
                 /\ snap'[run].active = active' /\ snap'[run].entries <= entries'
<1>1. PICK c, a, e : c = completed' /\ a = active' /\ e = entries' /\ Write(c, a, e)
  OBVIOUS
<1>2. c \in 0..Trials /\ a \in BOOLEAN /\ e \in 0..MaxDeltas
  BY <1>1
<1>3. /\ snap' \in [1..Runs -> Snapshots]
      /\ \/ disabled' = TRUE
         \/ /\ snap'[run].exists = TRUE /\ snap'[run].completed = c
            /\ snap'[run].active = a /\ snap'[run].entries = e
  BY <1>1, <1>2, WriteLeaves
<1> QED BY <1>1, <1>2, <1>3

LEMMA PublishingStep ==
    ASSUME Toggles, Calling, Streaming, Publishing, [Next]_vars
    PROVE  Publishing'
<1>0. Runs \in Nat /\ Trials \in Nat /\ MaxDeltas \in Nat /\ sent \in 0..MaxDeltas
  BY SinksAssumption DEF Streaming
<1> USE DEF Calling, Publishing, Published, Started
<1>1. CASE StartRun
  <2>1. hook = "none" /\ ~Served /\ ~Served'
    BY <1>1, NoneServed DEF StartRun, Call
  <2> QED BY <1>0, <1>1, <2>1 DEF StartRun, Call
<1>2. CASE StartTrial
  <2>1. hook = "none" /\ ~Served /\ ~Served'
    BY <1>2, NoneServed DEF StartTrial, Call
  <2> QED BY <1>0, <1>2, <2>1 DEF StartTrial, Call
<1>3. CASE LogStep
  <2>1. hook = "none" /\ ~Served /\ ~Served'
    BY <1>3, NoneServed DEF LogStep, Call
  <2> QED BY <1>0, <1>3, <2>1 DEF LogStep, Call
<1>4. CASE ForwardMessages
  <2>1. hook = "none" /\ ~Served /\ ~Served'
    BY <1>4, NoneServed DEF ForwardMessages, Call
  <2> QED BY <1>0, <1>4, <2>1 DEF ForwardMessages, Call
<1>5. CASE EndTrial
  <2>1. hook = "none" /\ ~Served /\ ~Served'
    BY <1>5, NoneServed DEF EndTrial, Call
  <2> QED BY <1>0, <1>5, <2>1 DEF EndTrial, Call
<1>6. CASE EndRun
  <2>1. hook = "none" /\ ~Served /\ ~Served'
    BY <1>6, NoneServed DEF EndRun, Call
  <2> QED BY <1>0, <1>6, <2>1 DEF EndRun, Call
<1>7. CASE Abandon
  <2>1. hook = "none" /\ ~Served /\ ~Served'
    BY <1>7, NoneServed, ServedStays DEF Abandon
  <2> QED BY <1>0, <1>7, <2>1 DEF Abandon
<1>8. CASE Stop
  <2>1. hook = "none" /\ ~Served /\ ~Served'
    BY <1>8, NoneServed, ServedStays DEF Stop
  <2> QED BY <1>0, <1>8, <2>1 DEF Stop
<1>9. CASE Interrupt
  <2>1. hook' = "none" /\ ~Served'
    BY <1>9, NoneServed DEF Interrupt, Leave
  <2> QED BY <1>0, <1>9, <2>1 DEF Interrupt, Leave
<1>10. CASE FanOutEnds
  <2>1. hook' = "none" /\ ~Served' /\ (hook # "log_policy_messages" => Served)
    BY <1>10, NoneServed, OfferedAll DEF FanOutEnds, Leave
  <2>2. UNCHANGED <<run, path, finished, disabled, active, completed, entries, snap, sent>>
    BY <1>10 DEF FanOutEnds
  <2>3. CASE failure \/ hook = "on_eval_end"
    <3>1. phase' \in {"idle", "stopped"}
      BY <1>10, <2>3 DEF FanOutEnds, Over
    <3> QED BY <1>0, <2>1, <2>2, <3>1
  <2>4. CASE ~failure /\ hook \in {"on_eval_start", "on_trial_end"}
    <3>1. phase' = "between" /\ trials' = (IF hook = "on_trial_end" THEN trials + 1 ELSE trials)
      BY <1>10, <2>4 DEF FanOutEnds
    <3> QED BY <1>0, <2>1, <2>2, <2>4, <3>1
  <2>5. CASE ~failure /\ hook \in {"on_trial_start", "log_step", "log_policy_messages"}
    <3>1. phase' = "trial" /\ trials' = trials
      BY <1>10, <2>5 DEF FanOutEnds
    <3> QED BY <1>0, <2>1, <2>2, <2>5, <3>1
  <2> QED BY <1>10, <2>3, <2>4, <2>5 DEF FanOutEnds, Hooks
<1>11. CASE ContributedReturns
  <2>0. \E k : Here(k) /\ k \in Contributed /\ UNCHANGED hook /\ at' = at + 1
    BY <1>11 DEF ContributedReturns, Delivered, Pass, Contributed
  <2>1. UNCHANGED hook /\ (Served' <=> Served)
    BY <2>0, OfferedOne DEF Critical, Contributed
  <2> QED BY <1>0, <1>11, <2>1 DEF ContributedReturns, Delivered, Pass
<1>12. CASE PassLatched
  <2>1. hook = "log_policy_messages" /\ UNCHANGED hook /\ (Served => Served')
    <3>1. at' = at + 1 /\ UNCHANGED hook /\ at \in Int
      BY <1>12 DEF PassLatched, Pass
    <3>2. \A i \in 1..Len(Order) : i < at => i < at'
      BY <3>1, OrderKnown
    <3> QED BY <1>12, <3>1, <3>2 DEF PassLatched, Served, Order
  <2> QED BY <1>0, <1>12, <2>1 DEF PassLatched, Pass
<1>13. CASE ContributedRaises
  <2>0. \E k : Here(k) /\ k \in Contributed /\ UNCHANGED hook /\ at' = at + 1
    BY <1>13 DEF ContributedRaises, Pass, Contributed
  <2>1. UNCHANGED hook /\ (Served' <=> Served)
    BY <2>0, OfferedOne DEF Critical, Contributed
  <2> QED BY <1>0, <1>13, <2>1 DEF ContributedRaises, Pass
<1>14. CASE MessageHookRaises
  <2>0. \E k : Here(k) /\ k \in Contributed /\ UNCHANGED hook /\ at' = at + 1
    BY <1>14 DEF MessageHookRaises, Pass, Contributed
  <2>1. UNCHANGED hook /\ (Served' <=> Served)
    BY <2>0, OfferedOne DEF Critical, Contributed
  <2> QED BY <1>0, <1>14, <2>1 DEF MessageHookRaises, Pass
<1>15. CASE ContributedHalts
  <2>1. hook' = "none" /\ ~Served'
    BY <1>15, NoneServed DEF ContributedHalts, Leave
  <2> QED BY <1>0, <1>15, <2>1 DEF ContributedHalts, Leave
<1>16. CASE JsonIgnores
  <2>0. \E k : Here(k) /\ k = "json" /\ UNCHANGED hook /\ at' = at + 1
    BY <1>16 DEF JsonIgnores, Pass, Contributed
  <2>1. UNCHANGED hook /\ (Served' <=> Served)
    BY <2>0, OfferedOne DEF Critical, Contributed
  <2> QED BY <1>0, <1>16, <2>1 DEF JsonIgnores, Pass
<1>17. CASE JsonWrites
  <2>0. \E k : Here(k) /\ k = "json" /\ UNCHANGED hook /\ at' = at + 1
    BY <1>17 DEF JsonWrites, Pass, Contributed
  <2>1. UNCHANGED hook /\ (Served' <=> Served)
    BY <2>0, OfferedOne DEF Critical, Contributed
  <2> QED BY <1>0, <1>17, <2>1 DEF JsonWrites, Pass
<1>18. CASE JsonFails
  <2>0. \E k : Here(k) /\ k = "json" /\ UNCHANGED hook /\ at' = at + 1
    BY <1>18 DEF JsonFails, WriteFails, Pass, Contributed
  <2>1. UNCHANGED hook /\ (Served' <=> Served)
    BY <2>0, OfferedOne DEF Critical, Contributed
  <2> QED BY <1>0, <1>18, <2>1 DEF JsonFails, WriteFails, Pass
<1>19. CASE JsonInterrupted
  <2>1. hook' = "none" /\ ~Served'
    BY <1>19, NoneServed DEF JsonInterrupted, Leave
  <2> QED BY <1>0, <1>19, <2>1 DEF JsonInterrupted, WriteFails, Leave
<1>20. CASE LiveStartsRun
  <2>0. \E k : Here(k) /\ k = "live" /\ UNCHANGED hook /\ at' = at + 1
    BY <1>20 DEF LiveStartsRun, Reset, Pass, Contributed
  <2>1. at \in 1..Len(Order) /\ ~Served /\ Served' /\ UNCHANGED hook
    BY <2>0, OfferedOne DEF Critical, Contributed
  <2>2. /\ run \in 1..Runs /\ path \in 0..Runs
        /\ hook = "on_eval_start" /\ phase = "idle" /\ trials = 0
        /\ UNCHANGED <<phase, run, trials, sent>>
    BY <1>0, <1>20 DEF LiveStartsRun
  <2>3. finished' = FALSE /\ completed' = 0 /\ active' = FALSE /\ entries' = 0
    BY <1>20 DEF LiveStartsRun, Reset
  <2> DEFINE first == [NoFile EXCEPT !.exists = TRUE]
  <2>4. PICK cleaned \in {snap, IF path # 0 /\ ~finished THEN [snap EXCEPT ![path] = NoFile]
                                                    ELSE snap} :
          \/ disabled' = TRUE /\ snap' = cleaned /\ UNCHANGED path
          \/ disabled' = TRUE /\ snap' = cleaned /\ path' = run
          \/ /\ disabled' = FALSE /\ path' = run
             /\ snap' = [cleaned EXCEPT ![run] = first]
    BY <1>20 DEF LiveStartsRun
  <2>5. /\ NoFile \in Snapshots
        /\ first \in Snapshots /\ first.exists = TRUE /\ first.completed = 0
        /\ first.active = FALSE /\ first.entries = 0
    BY NoFileKnown
  <2> HIDE DEF first
  <2>6. cleaned \in [1..Runs -> Snapshots]
    BY <2>2, <2>4, <2>5
  <2>7. snap' \in [1..Runs -> Snapshots]
    BY <2>2, <2>4, <2>5, <2>6
  <2>8. ~disabled' => /\ path' = run /\ snap'[run].exists /\ snap'[run].completed = 0
                      /\ snap'[run].active = FALSE /\ snap'[run].entries = 0
    BY <2>2, <2>4, <2>5, <2>6
  <2>9. path' \in 0..run' /\ completed' \in 0..Trials /\ entries' \in 0..MaxDeltas
    BY <1>0, <2>2, <2>3, <2>4
  <2>10. ~disabled' => snap'[run].active = active'
    BY <2>3, <2>8, Zenon
  <2>11. Published'
    <3> SUFFICES ASSUME ~disabled' PROVE Published'
      BY DEF Published
    <3>1. /\ path' = run' /\ snap'[run'].exists /\ snap'[run'].completed = completed'
          /\ snap'[run'].active = active' /\ snap'[run'].entries <= entries'
      BY <2>2, <2>3, <2>8, <2>10
    <3> QED BY <2>1, <2>2, <2>3, <3>1
  <2> HIDE DEF Published, Started, Calling
  <2> QED BY <2>3, <2>7, <2>9, <2>11
<1>21. CASE LiveStartsTrial
  <2>1. /\ Here("live") /\ Pass /\ ~disabled /\ hook = "on_trial_start"
        /\ UNCHANGED <<phase, run, trials, path, finished, sent>>
    BY <1>21 DEF LiveStartsTrial
  <2> HIDE DEF Calling, Publishing, Published, Started
  <2>2. /\ run \in 1..Runs /\ path = run /\ ~finished /\ completed = trials
        /\ completed \in Nat /\ entries \in Nat /\ snap \in [1..Runs -> Snapshots]
        /\ phase = "between" /\ UNCHANGED hook /\ Served'
    BY <2>1, LiveRelies
  <2>3. completed' = trials' /\ active' = TRUE /\ entries' = 0
    BY <1>21, <2>1, <2>2 DEF LiveStartsTrial
  <2>4. completed' \in 0..Trials /\ active' \in BOOLEAN /\ entries' \in 0..MaxDeltas
    <3>1. trials \in 0..Trials
      BY DEF Calling
    <3>2. active' \in BOOLEAN
      BY <2>3, Zenon
    <3> QED BY <1>0, <2>1, <2>3, <3>1, <3>2
  <2>5. /\ snap' \in [1..Runs -> Snapshots]
        /\ \/ disabled' = TRUE
           \/ /\ snap'[run].exists /\ snap'[run].completed = completed'
              /\ snap'[run].active = active' /\ snap'[run].entries <= entries'
    <3>1. Write(completed', active', entries')
      <4>1. /\ completed' = completed /\ active' = TRUE /\ entries' = 0
            /\ Write(completed, TRUE, 0)
        BY <1>21 DEF LiveStartsTrial
      <4> QED BY <4>1, Zenon
    <3> QED BY <2>2, <2>4, <3>1, LiveShows
  <2>6. Published'
    <3>1. SUFFICES ASSUME disabled' # TRUE PROVE Published'
      BY DEF Published
    <3> QED BY <2>1, <2>2, <2>3, <2>4, <2>5, <3>1 DEF Published
  <2>7. path' \in 0..run' /\ ~finished'
    BY <1>0, <2>1, <2>2
  <2> QED BY <2>4, <2>5, <2>6, <2>7 DEF Publishing
<1>22. CASE LiveTakesMessages
  <2>1. /\ Here("live") /\ Pass /\ ~disabled /\ hook = "log_policy_messages"
        /\ UNCHANGED <<phase, run, trials, path, finished, sent>>
    BY <1>22 DEF LiveTakesMessages
  <2> HIDE DEF Calling, Publishing, Published, Started
  <2>2. /\ run \in 1..Runs /\ path = run /\ ~finished /\ completed = trials
        /\ completed \in Nat /\ entries \in Nat /\ snap \in [1..Runs -> Snapshots]
        /\ phase = "trial" /\ UNCHANGED hook /\ Served'
    BY <2>1, LiveRelies
  <2>3. /\ completed' = trials' /\ active' = active /\ active' /\ entries' = entries + 1
        /\ entries' <= sent'
    <3>1. active /\ entries < sent /\ sent \in 0..MaxDeltas
      BY <2>1, LiveRelies
    <3>2. completed' = completed /\ active' = active /\ entries' = entries + 1
      BY <1>22 DEF LiveTakesMessages
    <3> QED BY <1>0, <2>1, <2>2, <3>1, <3>2
  <2>4. completed' \in 0..Trials /\ active' \in BOOLEAN /\ entries' \in 0..MaxDeltas
    <3>1. trials \in 0..Trials
      BY DEF Calling
    <3>2. active' \in BOOLEAN
      BY <2>3, Zenon DEF Toggles
    <3>3. sent' \in 0..MaxDeltas
      BY <1>0, <2>1
    <3> QED BY <1>0, <2>1, <2>2, <2>3, <3>1, <3>2, <3>3
  <2>5. /\ snap' \in [1..Runs -> Snapshots]
        /\ \/ disabled' = TRUE
           \/ /\ snap'[run].exists /\ snap'[run].completed = completed'
              /\ snap'[run].active = active' /\ snap'[run].entries <= entries'
    <3>1. Write(completed', active', entries') \/ UNCHANGED <<snap, disabled>>
      <4>1. /\ completed' = completed /\ active' = active /\ entries' = entries + 1
            /\ Write(completed, active, entries + 1) \/ UNCHANGED <<snap, disabled>>
        BY <1>22 DEF LiveTakesMessages
      <4> QED BY <4>1, Zenon
    <3>2. CASE Write(completed', active', entries')
      BY <2>2, <2>4, <3>2, LiveShows
    <3>3. CASE UNCHANGED <<snap, disabled>>
      <4>1. /\ snap[run].exists /\ snap[run].completed = completed /\ snap[run].active = active
            /\ snap[run].entries <= entries /\ snap[run].entries \in Nat
        BY <2>1, LiveRelies
      <4>2. completed' = completed /\ active' = active /\ entries' = entries + 1
        BY <1>22 DEF LiveTakesMessages
      <4> QED BY <2>2, <3>3, <4>1, <4>2
    <3> QED BY <3>1, <3>2, <3>3
  <2>6. Published'
    <3>1. SUFFICES ASSUME disabled' # TRUE PROVE Published'
      BY DEF Published
    <3> QED BY <2>1, <2>2, <2>3, <2>4, <2>5, <3>1 DEF Published
  <2>7. path' \in 0..run' /\ ~finished'
    BY <1>0, <2>1, <2>2
  <2> QED BY <2>4, <2>5, <2>6, <2>7 DEF Publishing
<1>23. CASE LiveEndsTrial
  <2>1. /\ Here("live") /\ Pass /\ ~disabled /\ hook = "on_trial_end"
        /\ UNCHANGED <<phase, run, trials, path, finished, sent>>
    BY <1>23 DEF LiveEndsTrial
  <2> HIDE DEF Calling, Publishing, Published, Started
  <2>2. /\ run \in 1..Runs /\ path = run /\ ~finished /\ completed = trials
        /\ completed \in Nat /\ entries \in Nat /\ snap \in [1..Runs -> Snapshots]
        /\ phase = "trial" /\ UNCHANGED hook /\ Served'
    BY <2>1, LiveRelies
  <2>3. completed' = trials' + 1 /\ active' = FALSE /\ entries' = 0 /\ trials < Trials
    <3>1. active /\ trials < Trials
      BY <2>1, LiveRelies
    <3> QED BY <1>23, <2>1, <2>2, <3>1 DEF LiveEndsTrial
  <2>4. completed' \in 0..Trials /\ active' \in BOOLEAN /\ entries' \in 0..MaxDeltas
    <3>1. trials \in 0..Trials
      BY DEF Calling
    <3>2. active' \in BOOLEAN
      BY <2>3, Zenon
    <3> QED BY <1>0, <2>1, <2>3, <3>1, <3>2
  <2>5. /\ snap' \in [1..Runs -> Snapshots]
        /\ \/ disabled' = TRUE
           \/ /\ snap'[run].exists /\ snap'[run].completed = completed'
              /\ snap'[run].active = active' /\ snap'[run].entries <= entries'
    <3>1. Write(completed', active', entries')
      <4>1. active
        BY <2>1, LiveRelies
      <4>2. /\ completed' = completed + 1 /\ active' = FALSE /\ entries' = 0
            /\ Write(completed + 1, FALSE, 0)
        BY <1>23, <4>1 DEF LiveEndsTrial
      <4> QED BY <4>2, Zenon
    <3> QED BY <2>2, <2>4, <3>1, LiveShows
  <2>6. Published'
    <3>1. SUFFICES ASSUME disabled' # TRUE PROVE Published'
      BY DEF Published
    <3>2. hook' = "on_trial_end" /\ phase' = "trial" /\ run' = run /\ path' = run
      BY <2>1, <2>2
    <3>3. /\ active' = IF phase' = "trial" THEN ~(hook' = "on_trial_end" /\ Served')
                                            ELSE hook' = "on_trial_start" /\ Served'
          /\ ~active'
      BY <2>2, <2>3, <3>2, Zenon
    <3>4. completed' = IF hook' = "on_trial_end" /\ Served' THEN trials' + 1 ELSE trials'
      BY <2>2, <2>3, <3>2
    <3>5. entries' <= sent'
      <4>1. sent \in 0..MaxDeltas
        BY <2>1, LiveRelies
      <4> QED BY <1>0, <2>1, <2>3, <4>1
    <3> QED BY <2>3, <2>5, <3>1, <3>2, <3>3, <3>4, <3>5 DEF Published
  <2>7. path' \in 0..run' /\ ~finished'
    BY <1>0, <2>1, <2>2
  <2> QED BY <2>4, <2>5, <2>6, <2>7 DEF Publishing
<1>24. CASE LiveIgnores
  <2>0. \E k : Here(k) /\ k = "live" /\ UNCHANGED hook /\ at' = at + 1
    BY <1>24 DEF LiveIgnores, Delivered, Pass, Contributed
  <2>1. at \in 1..Len(Order) /\ ~Served /\ Served' /\ UNCHANGED hook
    BY <2>0, OfferedOne DEF Critical, Contributed
  <2> QED BY <1>0, <1>24, <2>1 DEF LiveIgnores, Delivered, Pass
<1>25. CASE LiveEndsRun
  <2>0. \E k : Here(k) /\ k = "live" /\ UNCHANGED hook /\ at' = at + 1
    BY <1>25 DEF LiveEndsRun, Remove, Pass, Contributed
  <2>1. at \in 1..Len(Order) /\ ~Served /\ Served' /\ UNCHANGED hook
    BY <2>0, OfferedOne DEF Critical, Contributed
  <2>2. ~Started' /\ UNCHANGED <<run, path, completed, entries>>
    BY <1>25, <2>1 DEF LiveEndsRun
  <2>3. NoFile \in Snapshots
    BY NoFileKnown
  <2>4. snap' \in [1..Runs -> Snapshots]
    BY <1>25, <2>3 DEF LiveEndsRun, Remove
  <2> QED BY <2>2, <2>4
<1>26. CASE LiveRetains
  <2>0. \E k : Here(k) /\ k = "live" /\ UNCHANGED hook /\ at' = at + 1
    BY <1>26 DEF LiveRetains, Pass, Contributed
  <2>1. at \in 1..Len(Order) /\ ~Served /\ Served' /\ UNCHANGED hook
    BY <2>0, OfferedOne DEF Critical, Contributed
  <2> QED BY <1>0, <1>26, <2>1 DEF LiveRetains, Pass
<1>27. CASE CloseSinks
  <2>1. hook = "none" /\ ~Served /\ ~Served'
    BY <1>27, NoneServed, ServedStays DEF CloseSinks
  <2>2. ~Started' /\ UNCHANGED <<run, path, completed, entries>>
    BY <1>27, <2>1 DEF CloseSinks
  <2>3. NoFile \in Snapshots
    BY NoFileKnown
  <2>4. snap' \in [1..Runs -> Snapshots]
    BY <1>27, <2>3 DEF CloseSinks, Remove
  <2> QED BY <2>2, <2>4
<1>28. CASE UNCHANGED vars
  BY <1>28, ServedStays DEF vars
<1> QED BY <1>1, <1>2, <1>3, <1>4, <1>5, <1>6, <1>7, <1>8, <1>9, <1>10, <1>11, <1>12,
     <1>13, <1>14, <1>15, <1>16, <1>17, <1>18, <1>19, <1>20, <1>21, <1>22, <1>23, <1>24,
     <1>25, <1>26, <1>27, <1>28, Zenon DEF Next, Done

\* The live sink publishes what was published before: no snapshot comes or goes.
LEMMA LiveWrites ==
    ASSUME Toggles, Calling, Publishing,
           LiveStartsTrial \/ LiveTakesMessages \/ LiveEndsTrial
    PROVE  /\ \A r \in 1..Runs : snap'[r].exists <=> snap[r].exists
           /\ phase \in {"between", "trial"} /\ hook \notin {"none", "on_eval_start", "on_eval_end"}
           /\ ~finished /\ path = run
           /\ UNCHANGED <<caller, hook, failure, path, finished, logs, writeFailed, ghosts>>
<1>1. /\ Here("live") /\ Pass /\ ~disabled
      /\ hook \in {"on_trial_start", "log_policy_messages", "on_trial_end"}
      /\ UNCHANGED <<caller, path, finished, logs, writeFailed, ghosts>>
  BY DEF LiveStartsTrial, LiveTakesMessages, LiveEndsTrial
<1>2. phase \in {"between", "trial"} /\ run \in 1..Runs
  BY <1>1 DEF Calling
<1>3. path = run /\ snap[run].exists /\ ~finished /\ snap \in [1..Runs -> Snapshots]
  BY <1>1, <1>2 DEF Publishing, Published, Started
<1>4. snap' = snap \/ \E w : w.exists = TRUE /\ snap' = [snap EXCEPT ![run] = w]
  <2>1. (\E c, a, e : Write(c, a, e)) \/ UNCHANGED snap
    BY Zenon DEF LiveStartsTrial, LiveTakesMessages, LiveEndsTrial
  <2> SUFFICES ASSUME NEW c, NEW a, NEW e, Write(c, a, e)
               PROVE  snap' = snap \/ \E w : w.exists = TRUE /\ snap' = [snap EXCEPT ![run] = w]
    BY <2>1
  <2> DEFINE w == [exists |-> TRUE, completed |-> c, active |-> a, entries |-> e]
  <2>2. w.exists = TRUE /\ (snap' = snap \/ snap' = [snap EXCEPT ![run] = w])
    BY DEF Write
  <2> HIDE DEF w
  <2> QED BY <2>2
<1>5. ASSUME NEW r \in 1..Runs PROVE snap'[r].exists <=> snap[r].exists
  BY <1>2, <1>3, <1>4
<1> QED BY <1>1, <1>2, <1>3, <1>5 DEF Pass

LEMMA RecordingStep ==
    ASSUME Toggles, Calling, Publishing, Recording, [Next]_vars
    PROVE  Recording'
<1>0. /\ Runs \in Nat /\ run \in 0..Runs
      /\ phase \in {"between", "trial", "halted"} \/ hook # "none" => run \in 1..Runs
  BY SinksAssumption DEF Calling
<1> USE DEF Calling, Recording, Started
<1>1. CASE StartRun
  <2>1. hook = "none" /\ ~Served /\ ~Served'
    BY <1>1, NoneServed DEF StartRun, Call
  <2> QED BY <1>0, <1>1, <2>1 DEF StartRun, Call
<1>2. CASE StartTrial
  <2>1. hook = "none" /\ ~Served /\ ~Served'
    BY <1>2, NoneServed DEF StartTrial, Call
  <2> QED BY <1>0, <1>2, <2>1 DEF StartTrial, Call
<1>3. CASE LogStep
  <2>1. hook = "none" /\ ~Served /\ ~Served'
    BY <1>3, NoneServed DEF LogStep, Call
  <2> QED BY <1>0, <1>3, <2>1 DEF LogStep, Call
<1>4. CASE ForwardMessages
  <2>1. hook = "none" /\ ~Served /\ ~Served'
    BY <1>4, NoneServed DEF ForwardMessages, Call
  <2> QED BY <1>0, <1>4, <2>1 DEF ForwardMessages, Call
<1>5. CASE EndTrial
  <2>1. hook = "none" /\ ~Served /\ ~Served'
    BY <1>5, NoneServed DEF EndTrial, Call
  <2> QED BY <1>0, <1>5, <2>1 DEF EndTrial, Call
<1>6. CASE EndRun
  <2>1. hook = "none" /\ ~Served /\ ~Served'
    BY <1>6, NoneServed DEF EndRun, Call
  <2> QED BY <1>0, <1>6, <2>1 DEF EndRun, Call
<1>7. CASE Abandon
  <2>1. hook = "none" /\ ~Served /\ ~Served'
    BY <1>7, NoneServed, ServedStays DEF Abandon
  <2> QED BY <1>0, <1>7, <2>1 DEF Abandon
<1>8. CASE Stop
  <2>1. hook = "none" /\ ~Served /\ ~Served'
    BY <1>8, NoneServed, ServedStays DEF Stop
  <2> QED BY <1>0, <1>8, <2>1 DEF Stop
<1>9. CASE Interrupt
  <2>1. hook' = "none" /\ ~Served'
    BY <1>9, NoneServed DEF Interrupt, Leave
  <2> QED BY <1>0, <1>9, <2>1 DEF Interrupt, Leave
<1>10. CASE FanOutEnds
  <2>1. hook' = "none" /\ ~Served' /\ (hook # "log_policy_messages" => Served)
    BY <1>10, NoneServed, OfferedAll DEF FanOutEnds, Leave
  <2>2. /\ hook # "none" /\ UNCHANGED <<run, path, finished, snap, logs, writeFailed, ghosts>>
        /\ phase' \in {"idle", "stopped", "between", "trial"}
        /\ failure \/ hook = "on_eval_end" => phase' \in {"idle", "stopped"}
    BY <1>10 DEF FanOutEnds, Over
  <2>3. run \in onlyRecord => phase' \in {"idle", "stopped"}
    BY <2>2
  <2>4. ~blindStart /\ Started' => path \in {0, run}
    BY <1>0, <2>1, <2>2 DEF Hooks
  <2> HIDE DEF Started
  <2> QED BY <1>0, <2>1, <2>2, <2>3, <2>4
<1>11. CASE ContributedReturns
  <2>0. \E k : Here(k) /\ k \in Contributed /\ UNCHANGED hook /\ at' = at + 1
    BY <1>11 DEF ContributedReturns, Delivered, Pass, Contributed
  <2>1. UNCHANGED hook /\ (Served' <=> Served)
    BY <2>0, OfferedOne DEF Critical, Contributed
  <2> QED BY <1>0, <1>11, <2>1 DEF ContributedReturns, Delivered, Pass
<1>12. CASE PassLatched
  <2>1. hook = "log_policy_messages" /\ UNCHANGED hook /\ (Served => Served')
    <3>1. at' = at + 1 /\ UNCHANGED hook /\ at \in Int
      BY <1>12 DEF PassLatched, Pass
    <3>2. \A i \in 1..Len(Order) : i < at => i < at'
      BY <3>1, OrderKnown
    <3> QED BY <1>12, <3>1, <3>2 DEF PassLatched, Served, Order
  <2> QED BY <1>0, <1>12, <2>1 DEF PassLatched, Pass
<1>13. CASE ContributedRaises
  <2>0. \E k : Here(k) /\ k \in Contributed /\ UNCHANGED hook /\ at' = at + 1
    BY <1>13 DEF ContributedRaises, Pass, Contributed
  <2>1. UNCHANGED hook /\ (Served' <=> Served)
    BY <2>0, OfferedOne DEF Critical, Contributed
  <2> QED BY <1>0, <1>13, <2>1 DEF ContributedRaises, Pass
<1>14. CASE MessageHookRaises
  <2>0. \E k : Here(k) /\ k \in Contributed /\ UNCHANGED hook /\ at' = at + 1
    BY <1>14 DEF MessageHookRaises, Pass, Contributed
  <2>1. UNCHANGED hook /\ (Served' <=> Served)
    BY <2>0, OfferedOne DEF Critical, Contributed
  <2> QED BY <1>0, <1>14, <2>1 DEF MessageHookRaises, Pass
<1>15. CASE ContributedHalts
  <2>1. hook' = "none" /\ ~Served'
    BY <1>15, NoneServed DEF ContributedHalts, Leave
  <2> QED BY <1>0, <1>15, <2>1 DEF ContributedHalts, Leave
<1>16. CASE JsonIgnores
  <2>0. \E k : Here(k) /\ k = "json" /\ UNCHANGED hook /\ at' = at + 1
    BY <1>16 DEF JsonIgnores, Pass, Contributed
  <2>1. UNCHANGED hook /\ (Served' <=> Served)
    BY <2>0, OfferedOne DEF Critical, Contributed
  <2> QED BY <1>0, <1>16, <2>1 DEF JsonIgnores, Pass
<1>17. CASE JsonWrites
  <2>0. \E k : Here(k) /\ k = "json" /\ UNCHANGED hook /\ at' = at + 1
    BY <1>17 DEF JsonWrites, Pass, Contributed
  <2>1. UNCHANGED hook /\ (Served' <=> Served)
    BY <2>0, OfferedOne DEF Critical, Contributed
  <2> QED BY <1>0, <1>17, <2>1 DEF JsonWrites, Pass
<1>18. CASE JsonFails
  <2>0. \E k : Here(k) /\ k = "json" /\ UNCHANGED hook /\ at' = at + 1
    BY <1>18 DEF JsonFails, WriteFails, Pass, Contributed
  <2>1. UNCHANGED hook /\ (Served' <=> Served)
    BY <2>0, OfferedOne DEF Critical, Contributed
  <2>2. /\ hook = "on_eval_end" /\ writeFailed' = TRUE /\ run \in 1..Runs
        /\ onlyRecord' = IF recorded THEN onlyRecord \cup {run} ELSE onlyRecord
        /\ UNCHANGED <<run, path, finished, snap, logs, recorded, blindStart>>
    BY <1>0, <1>18 DEF JsonFails, WriteFails
  <2>3. \A r \in onlyRecord' : r \in onlyRecord \/ (r = run /\ recorded)
    BY <2>2
  <2>before. ~Served
    BY <1>18, OfferedCritical DEF JsonFails, WriteFails, Critical
  <2>4. hook' = hook /\ failure' = TRUE /\ UNCHANGED phase
    BY <1>18 DEF JsonFails
  <2> QED BY <1>0, <2>1, <2>before, <2>2, <2>3, <2>4
<1>19. CASE JsonInterrupted
  <2>1. hook' = "none" /\ ~Served'
    BY <1>19, NoneServed DEF JsonInterrupted, Leave
  <2>before. ~Served
    BY <1>19, OfferedCritical DEF JsonInterrupted, WriteFails, Critical
  <2>2. /\ hook = "on_eval_end" /\ writeFailed' = TRUE /\ run \in 1..Runs
        /\ onlyRecord' = IF recorded THEN onlyRecord \cup {run} ELSE onlyRecord
        /\ UNCHANGED <<run, path, finished, snap, logs, recorded, blindStart>>
    BY <1>0, <1>19 DEF JsonInterrupted, WriteFails
  <2>3. \A r \in onlyRecord' : r \in onlyRecord \/ (r = run /\ recorded)
    BY <2>2
  <2>4. hook' = "none" /\ phase' = "stopped"
    BY <1>19 DEF JsonInterrupted, Leave
  <2> QED BY <1>0, <2>1, <2>before, <2>2, <2>3, <2>4
<1>20. CASE LiveStartsRun
  <2>0. \E k : Here(k) /\ k = "live" /\ UNCHANGED hook /\ at' = at + 1
    BY <1>20 DEF LiveStartsRun, Reset, Pass, Contributed
  <2>1. at \in 1..Len(Order) /\ ~Served /\ Served' /\ UNCHANGED hook
    BY <2>0, OfferedOne DEF Critical, Contributed
  <2>2. /\ run \in 1..Runs /\ path \in 0..Runs /\ hook = "on_eval_start" /\ phase = "idle"
        /\ finished' = FALSE
        /\ UNCHANGED <<phase, run, hook, failure, logs, writeFailed, recorded, onlyRecord>>
        /\ snap \in [1..Runs -> Snapshots]
    BY <1>0, <1>20 DEF LiveStartsRun, Pass, Publishing
  <2> DEFINE first == [NoFile EXCEPT !.exists = TRUE]
  <2>3. PICK cleaned \in {snap, IF path # 0 /\ ~finished THEN [snap EXCEPT ![path] = NoFile]
                                                    ELSE snap} :
          /\ excused' = IF path # 0 /\ ~finished /\ cleaned[path].exists
                          THEN excused \cup {path} ELSE excused
          /\ \/ snap' = cleaned /\ UNCHANGED path /\ blindStart' = (blindStart \/ path # 0)
             \/ snap' = cleaned /\ path' = run /\ UNCHANGED blindStart
             \/ path' = run /\ UNCHANGED blindStart /\ snap' = [cleaned EXCEPT ![run] = first]
    BY <1>20 DEF LiveStartsRun
  <2>4. NoFile \in Snapshots /\ NoFile.exists = FALSE /\ first \in Snapshots /\ first.exists = TRUE
    BY NoFileKnown
  <2> HIDE DEF first
  <2>5. /\ cleaned \in [1..Runs -> Snapshots]
        /\ \A r \in 1..Runs : \/ cleaned[r] = snap[r]
                              \/ r = path /\ ~finished /\ ~cleaned[r].exists
    BY <2>2, <2>3, <2>4
  <2>6. \A r \in 1..Runs : r # run => snap'[r] = cleaned[r]
    BY <2>2, <2>3, <2>5
  <2>7. (blindStart' <=> blindStart \/ (path # 0 /\ path' = path /\ path' # run)) \/ path' = run
    BY <2>3
  <2>8. run \notin onlyRecord
    BY <2>2
  <2>9. ASSUME ~blindStart', NEW r \in onlyRecord PROVE snap'[r].exists /\ r # path'
    <3>0. ~blindStart
      BY <2>3, <2>9, Zenon
    <3>1. r \in 1..Runs /\ r # run
      BY <1>0, <2>8
    <3>2. r = path => finished
      BY <2>2, <3>0, <3>1
    <3>3. cleaned[r] = snap[r] /\ snap[r].exists
      BY <2>5, <3>0, <3>1, <3>2
    <3>4. path' = run \/ path' = 0
      BY <2>2, <2>3, <2>9
    <3> QED BY <2>6, <3>1, <3>3, <3>4
  <2>10. ~blindStart' => path' \in {0, run}
    BY <2>3
  <2> HIDE DEF Started
  <2> QED BY <1>0, <2>1, <2>2, <2>8, <2>9, <2>10
<1>21. CASE LiveStartsTrial
  <2>0. \E k : Here(k) /\ k = "live" /\ UNCHANGED hook /\ at' = at + 1
    BY <1>21 DEF LiveStartsTrial, Write, Pass, Contributed
  <2>1. at \in 1..Len(Order) /\ ~Served /\ Served' /\ UNCHANGED hook
    BY <2>0, OfferedOne DEF Critical, Contributed
  <2>2. /\ \A r \in 1..Runs : snap'[r].exists <=> snap[r].exists
        /\ phase \in {"between", "trial"} /\ hook \notin {"none", "on_eval_start", "on_eval_end"}
        /\ ~finished /\ path = run
        /\ UNCHANGED <<caller, hook, failure, path, finished, logs, writeFailed, ghosts>>
    BY <1>21, LiveWrites
  <2> QED BY <1>0, <2>1, <2>2
<1>22. CASE LiveTakesMessages
  <2>0. \E k : Here(k) /\ k = "live" /\ UNCHANGED hook /\ at' = at + 1
    BY <1>22 DEF LiveTakesMessages, Write, Delivered, Pass, Contributed
  <2>1. at \in 1..Len(Order) /\ ~Served /\ Served' /\ UNCHANGED hook
    BY <2>0, OfferedOne DEF Critical, Contributed
  <2>2. /\ \A r \in 1..Runs : snap'[r].exists <=> snap[r].exists
        /\ phase \in {"between", "trial"} /\ hook \notin {"none", "on_eval_start", "on_eval_end"}
        /\ ~finished /\ path = run
        /\ UNCHANGED <<caller, hook, failure, path, finished, logs, writeFailed, ghosts>>
    BY <1>22, LiveWrites
  <2> QED BY <1>0, <2>1, <2>2
<1>23. CASE LiveEndsTrial
  <2>0. \E k : Here(k) /\ k = "live" /\ UNCHANGED hook /\ at' = at + 1
    BY <1>23 DEF LiveEndsTrial, Write, Pass, Contributed
  <2>1. at \in 1..Len(Order) /\ ~Served /\ Served' /\ UNCHANGED hook
    BY <2>0, OfferedOne DEF Critical, Contributed
  <2>2. /\ \A r \in 1..Runs : snap'[r].exists <=> snap[r].exists
        /\ phase \in {"between", "trial"} /\ hook \notin {"none", "on_eval_start", "on_eval_end"}
        /\ ~finished /\ path = run
        /\ UNCHANGED <<caller, hook, failure, path, finished, logs, writeFailed, ghosts>>
    BY <1>23, LiveWrites
  <2> QED BY <1>0, <2>1, <2>2
<1>24. CASE LiveIgnores
  <2>0. \E k : Here(k) /\ k = "live" /\ UNCHANGED hook /\ at' = at + 1
    BY <1>24 DEF LiveIgnores, Delivered, Pass, Contributed
  <2>1. at \in 1..Len(Order) /\ ~Served /\ Served' /\ UNCHANGED hook
    BY <2>0, OfferedOne DEF Critical, Contributed
  <2> QED BY <1>0, <1>24, <2>1 DEF LiveIgnores, Delivered, Pass
<1>25. CASE LiveEndsRun
  <2>0. \E k : Here(k) /\ k = "live" /\ UNCHANGED hook /\ at' = at + 1
    BY <1>25 DEF LiveEndsRun, Remove, Pass, Contributed
  <2>1. at \in 1..Len(Order) /\ ~Served /\ Served' /\ UNCHANGED hook
    BY <2>0, OfferedOne DEF Critical, Contributed
  <2>2. /\ hook = "on_eval_end" /\ ~failure
        /\ UNCHANGED <<phase, run, hook, failure, path, logs, writeFailed, recorded,
                       onlyRecord, blindStart>>
        /\ path \in 0..Runs /\ snap \in [1..Runs -> Snapshots]
    BY <1>0, <1>25 DEF LiveEndsRun, Pass, Publishing
  <2>3. /\ finished' = TRUE \/ (finished' = finished)
        /\ \A r \in 1..Runs : r # path => snap'[r] = snap[r]
    BY <1>25, <2>2 DEF LiveEndsRun, Remove
  <2>4. run \notin onlyRecord
    BY <2>2
  <2>5. ASSUME ~blindStart, NEW r \in onlyRecord PROVE r \in 1..Runs /\ r # path
    BY <1>0, <2>2, <2>4, <2>5
  <2> QED BY <1>0, <2>1, <2>2, <2>3, <2>4, <2>5
<1>26. CASE LiveRetains
  <2>0. \E k : Here(k) /\ k = "live" /\ UNCHANGED hook /\ at' = at + 1
    BY <1>26 DEF LiveRetains, Pass, Contributed
  <2>1. at \in 1..Len(Order) /\ ~Served /\ Served' /\ UNCHANGED hook
    BY <2>0, OfferedOne DEF Critical, Contributed
  <2> QED BY <1>0, <1>26, <2>1 DEF LiveRetains, Pass
<1>27. CASE CloseSinks
  <2>1. hook = "none" /\ ~Served /\ ~Served'
    BY <1>27, NoneServed, ServedStays DEF CloseSinks
  <2> QED BY <1>0, <1>27, <2>1 DEF CloseSinks, Remove
<1>28. CASE UNCHANGED vars
  BY <1>28, ServedStays DEF vars
<1> QED BY <1>1, <1>2, <1>3, <1>4, <1>5, <1>6, <1>7, <1>8, <1>9, <1>10, <1>11, <1>12,
     <1>13, <1>14, <1>15, <1>16, <1>17, <1>18, <1>19, <1>20, <1>21, <1>22, <1>23, <1>24,
     <1>25, <1>26, <1>27, <1>28, Zenon DEF Next, Done

LEMMA ExcusingStep ==
    ASSUME Toggles, Calling, Publishing, Excusing, [Next]_vars
    PROVE  Excusing'
<1>0. /\ Runs \in Nat /\ run \in 0..Runs
      /\ phase \in {"between", "trial", "halted"} \/ hook # "none" => run \in 1..Runs
  BY SinksAssumption DEF Calling
<1> USE DEF Calling, Excusing, Started, NoStaleSnapshot
<1>1. CASE StartRun
  <2>1. hook = "none" /\ ~Served /\ ~Served'
    BY <1>1, NoneServed DEF StartRun, Call
  <2> QED BY <1>0, <1>1, <2>1 DEF StartRun, Call
<1>2. CASE StartTrial
  <2>1. hook = "none" /\ ~Served /\ ~Served'
    BY <1>2, NoneServed DEF StartTrial, Call
  <2> QED BY <1>0, <1>2, <2>1 DEF StartTrial, Call
<1>3. CASE LogStep
  <2>1. hook = "none" /\ ~Served /\ ~Served'
    BY <1>3, NoneServed DEF LogStep, Call
  <2> QED BY <1>0, <1>3, <2>1 DEF LogStep, Call
<1>4. CASE ForwardMessages
  <2>1. hook = "none" /\ ~Served /\ ~Served'
    BY <1>4, NoneServed DEF ForwardMessages, Call
  <2> QED BY <1>0, <1>4, <2>1 DEF ForwardMessages, Call
<1>5. CASE EndTrial
  <2>1. hook = "none" /\ ~Served /\ ~Served'
    BY <1>5, NoneServed DEF EndTrial, Call
  <2> QED BY <1>0, <1>5, <2>1 DEF EndTrial, Call
<1>6. CASE EndRun
  <2>1. hook = "none" /\ ~Served /\ ~Served'
    BY <1>6, NoneServed DEF EndRun, Call
  <2> QED BY <1>0, <1>6, <2>1 DEF EndRun, Call
<1>7. CASE Abandon
  <2>1. hook = "none" /\ ~Served /\ ~Served'
    BY <1>7, NoneServed, ServedStays DEF Abandon
  <2> QED BY <1>0, <1>7, <2>1 DEF Abandon
<1>8. CASE Stop
  <2>1. hook = "none" /\ ~Served /\ ~Served'
    BY <1>8, NoneServed, ServedStays DEF Stop
  <2> QED BY <1>0, <1>8, <2>1 DEF Stop
<1>9. CASE Interrupt
  <2>1. hook' = "none" /\ ~Served'
    BY <1>9, NoneServed DEF Interrupt, Leave
  <2> QED BY <1>0, <1>9, <2>1 DEF Interrupt, Leave
<1>10. CASE FanOutEnds
  <2>1. hook' = "none" /\ ~Served' /\ (hook # "log_policy_messages" => Served)
    BY <1>10, NoneServed, OfferedAll DEF FanOutEnds, Leave
  <2>2. /\ hook # "none" /\ UNCHANGED <<run, path, finished, snap, excused>>
        /\ phase' \in {"idle", "stopped", "between", "trial"}
        /\ failure \/ hook = "on_eval_end" => phase' \in {"idle", "stopped"}
    BY <1>10 DEF FanOutEnds, Over
  <2>3. Started' => Started
    BY <1>0, <2>1, <2>2 DEF Hooks
  <2> HIDE DEF Started
  <2> QED BY <1>0, <2>1, <2>2, <2>3
<1>11. CASE ContributedReturns
  <2>0. \E k : Here(k) /\ k \in Contributed /\ UNCHANGED hook /\ at' = at + 1
    BY <1>11 DEF ContributedReturns, Delivered, Pass, Contributed
  <2>1. UNCHANGED hook /\ (Served' <=> Served)
    BY <2>0, OfferedOne DEF Critical, Contributed
  <2> QED BY <1>0, <1>11, <2>1 DEF ContributedReturns, Delivered, Pass
<1>12. CASE PassLatched
  <2>1. hook = "log_policy_messages" /\ UNCHANGED hook /\ (Served => Served')
    <3>1. at' = at + 1 /\ UNCHANGED hook /\ at \in Int
      BY <1>12 DEF PassLatched, Pass
    <3>2. \A i \in 1..Len(Order) : i < at => i < at'
      BY <3>1, OrderKnown
    <3> QED BY <1>12, <3>1, <3>2 DEF PassLatched, Served, Order
  <2> QED BY <1>0, <1>12, <2>1 DEF PassLatched, Pass
<1>13. CASE ContributedRaises
  <2>0. \E k : Here(k) /\ k \in Contributed /\ UNCHANGED hook /\ at' = at + 1
    BY <1>13 DEF ContributedRaises, Pass, Contributed
  <2>1. UNCHANGED hook /\ (Served' <=> Served)
    BY <2>0, OfferedOne DEF Critical, Contributed
  <2>2. /\ hook # "none" /\ UNCHANGED <<phase, run, path, finished, snap, writeFailed>>
        /\ \/ failure' = failure /\ excused' = excused
           \/ /\ failure' = TRUE
              /\ excused' = IF hook = "on_eval_end" THEN excused \cup {run} ELSE excused
    BY <1>13 DEF ContributedRaises, Pass, Here
  <2>3. Started' <=> Started
    BY <2>1, <2>2
  <2>4. excused' \subseteq 1..Runs /\ \A r \in excused : r \in excused'
    BY <1>0, <2>2
  <2>6. hook = "on_eval_end" /\ failure' => run \in excused'
    BY <1>0, <2>2
  <2>5. phase' # "closed"
    BY <2>2
  <2> HIDE DEF Started, Calling
  <2> QED BY <1>0, <2>1, <2>2, <2>3, <2>4, <2>5, <2>6
<1>14. CASE MessageHookRaises
  <2>0. \E k : Here(k) /\ k \in Contributed /\ UNCHANGED hook /\ at' = at + 1
    BY <1>14 DEF MessageHookRaises, Pass, Contributed
  <2>1. UNCHANGED hook /\ (Served' <=> Served)
    BY <2>0, OfferedOne DEF Critical, Contributed
  <2> QED BY <1>0, <1>14, <2>1 DEF MessageHookRaises, Pass
<1>15. CASE ContributedHalts
  <2>1. hook' = "none" /\ ~Served'
    BY <1>15, NoneServed DEF ContributedHalts, Leave
  <2> QED BY <1>0, <1>15, <2>1 DEF ContributedHalts, Leave
<1>16. CASE JsonIgnores
  <2>0. \E k : Here(k) /\ k = "json" /\ UNCHANGED hook /\ at' = at + 1
    BY <1>16 DEF JsonIgnores, Pass, Contributed
  <2>1. UNCHANGED hook /\ (Served' <=> Served)
    BY <2>0, OfferedOne DEF Critical, Contributed
  <2> QED BY <1>0, <1>16, <2>1 DEF JsonIgnores, Pass
<1>17. CASE JsonWrites
  <2>0. \E k : Here(k) /\ k = "json" /\ UNCHANGED hook /\ at' = at + 1
    BY <1>17 DEF JsonWrites, Pass, Contributed
  <2>1. UNCHANGED hook /\ (Served' <=> Served)
    BY <2>0, OfferedOne DEF Critical, Contributed
  <2> QED BY <1>0, <1>17, <2>1 DEF JsonWrites, Pass
<1>18. CASE JsonFails
  <2>0. \E k : Here(k) /\ k = "json" /\ UNCHANGED hook /\ at' = at + 1
    BY <1>18 DEF JsonFails, WriteFails, Pass, Contributed
  <2>1. UNCHANGED hook /\ (Served' <=> Served)
    BY <2>0, OfferedOne DEF Critical, Contributed
  <2> QED BY <1>0, <1>18, <2>1 DEF JsonFails, WriteFails, Pass
<1>19. CASE JsonInterrupted
  <2>1. hook' = "none" /\ ~Served'
    BY <1>19, NoneServed DEF JsonInterrupted, Leave
  <2> QED BY <1>0, <1>19, <2>1 DEF JsonInterrupted, WriteFails, Leave
<1>20. CASE LiveStartsRun
  <2>0. \E k : Here(k) /\ k = "live" /\ UNCHANGED hook /\ at' = at + 1
    BY <1>20 DEF LiveStartsRun, Reset, Pass, Contributed
  <2>1. at \in 1..Len(Order) /\ ~Served /\ Served' /\ UNCHANGED hook
    BY <2>0, OfferedOne DEF Critical, Contributed
  <2>2. /\ run \in 1..Runs /\ path \in 0..Runs /\ hook = "on_eval_start" /\ phase = "idle"
        /\ finished' = FALSE
        /\ UNCHANGED <<phase, run, hook, failure, logs, writeFailed, recorded, onlyRecord>>
        /\ snap \in [1..Runs -> Snapshots]
    BY <1>0, <1>20 DEF LiveStartsRun, Pass, Publishing
  <2> DEFINE first == [NoFile EXCEPT !.exists = TRUE]
  <2>3. PICK cleaned \in {snap, IF path # 0 /\ ~finished THEN [snap EXCEPT ![path] = NoFile]
                                                    ELSE snap} :
          /\ excused' = IF path # 0 /\ ~finished /\ cleaned[path].exists
                          THEN excused \cup {path} ELSE excused
          /\ \/ snap' = cleaned /\ UNCHANGED path /\ blindStart' = (blindStart \/ path # 0)
             \/ snap' = cleaned /\ path' = run /\ UNCHANGED blindStart
             \/ path' = run /\ UNCHANGED blindStart /\ snap' = [cleaned EXCEPT ![run] = first]
    BY <1>20 DEF LiveStartsRun
  <2>4. NoFile \in Snapshots /\ NoFile.exists = FALSE /\ first \in Snapshots /\ first.exists = TRUE
    BY NoFileKnown
  <2> HIDE DEF first
  <2>5. /\ cleaned \in [1..Runs -> Snapshots]
        /\ \A r \in 1..Runs : \/ cleaned[r] = snap[r]
                              \/ r = path /\ ~finished /\ ~cleaned[r].exists
    BY <2>2, <2>3, <2>4
  <2>6. \A r \in 1..Runs : r # run => snap'[r] = cleaned[r]
    BY <2>2, <2>3, <2>5
  <2>7. excused' \subseteq 1..Runs /\ \A r \in excused : r \in excused'
    BY <2>2, <2>3
  <2>8. path # 0 /\ cleaned[path].exists => path \in excused'
    <3> SUFFICES ASSUME path # 0, cleaned[path].exists, finished PROVE path \in excused
      BY <2>3, <2>7
    <3>1. path \in 1..Runs
      BY <2>2
    <3>2. snap[path].exists
      BY <2>5, <3>1
    <3> QED BY <3>2
  <2>9. ASSUME NEW r \in 1..Runs, snap'[r].exists PROVE r = path' \/ r \in excused'
    <3>1. CASE r = run /\ path' = run
      BY <3>1
    <3>2. CASE ~(r = run /\ path' = run)
      <4>1. snap'[r] = cleaned[r]
        BY <2>2, <2>3, <2>6, <3>2
      <4>2. CASE r = path
        <5>1. path # 0
          BY <2>2, <4>2
        <5> QED BY <2>8, <2>9, <4>1, <4>2, <5>1
      <4>3. CASE r # path
        <5>1. snap[r].exists
          BY <2>5, <2>9, <4>1, <4>3
        <5> QED BY <2>7, <4>3, <5>1
      <4> QED BY <4>2, <4>3
    <3> QED BY <3>1, <3>2
  <2>10. path' # 0 /\ path' # run /\ snap'[path'].exists => path' \in excused'
    <3> SUFFICES ASSUME path' # 0, path' # run, snap'[path'].exists PROVE path' \in excused'
      OBVIOUS
    <3>1. path' = path /\ snap' = cleaned
      BY <2>3
    <3> QED BY <2>8, <3>1
  <2> HIDE DEF Started
  <2> QED BY <1>0, <2>1, <2>2, <2>7, <2>9, <2>10
<1>21. CASE LiveStartsTrial
  <2>0. \E k : Here(k) /\ k = "live" /\ UNCHANGED hook /\ at' = at + 1
    BY <1>21 DEF LiveStartsTrial, Write, Pass, Contributed
  <2>1. at \in 1..Len(Order) /\ ~Served /\ Served' /\ UNCHANGED hook
    BY <2>0, OfferedOne DEF Critical, Contributed
  <2>2. /\ \A r \in 1..Runs : snap'[r].exists <=> snap[r].exists
        /\ phase \in {"between", "trial"} /\ hook \notin {"none", "on_eval_start", "on_eval_end"}
        /\ ~finished /\ path = run
        /\ UNCHANGED <<caller, hook, failure, path, finished, logs, writeFailed, ghosts>>
    BY <1>21, LiveWrites
  <2> QED BY <1>0, <2>1, <2>2
<1>22. CASE LiveTakesMessages
  <2>0. \E k : Here(k) /\ k = "live" /\ UNCHANGED hook /\ at' = at + 1
    BY <1>22 DEF LiveTakesMessages, Write, Delivered, Pass, Contributed
  <2>1. at \in 1..Len(Order) /\ ~Served /\ Served' /\ UNCHANGED hook
    BY <2>0, OfferedOne DEF Critical, Contributed
  <2>2. /\ \A r \in 1..Runs : snap'[r].exists <=> snap[r].exists
        /\ phase \in {"between", "trial"} /\ hook \notin {"none", "on_eval_start", "on_eval_end"}
        /\ ~finished /\ path = run
        /\ UNCHANGED <<caller, hook, failure, path, finished, logs, writeFailed, ghosts>>
    BY <1>22, LiveWrites
  <2> QED BY <1>0, <2>1, <2>2
<1>23. CASE LiveEndsTrial
  <2>0. \E k : Here(k) /\ k = "live" /\ UNCHANGED hook /\ at' = at + 1
    BY <1>23 DEF LiveEndsTrial, Write, Pass, Contributed
  <2>1. at \in 1..Len(Order) /\ ~Served /\ Served' /\ UNCHANGED hook
    BY <2>0, OfferedOne DEF Critical, Contributed
  <2>2. /\ \A r \in 1..Runs : snap'[r].exists <=> snap[r].exists
        /\ phase \in {"between", "trial"} /\ hook \notin {"none", "on_eval_start", "on_eval_end"}
        /\ ~finished /\ path = run
        /\ UNCHANGED <<caller, hook, failure, path, finished, logs, writeFailed, ghosts>>
    BY <1>23, LiveWrites
  <2> QED BY <1>0, <2>1, <2>2
<1>24. CASE LiveIgnores
  <2>0. \E k : Here(k) /\ k = "live" /\ UNCHANGED hook /\ at' = at + 1
    BY <1>24 DEF LiveIgnores, Delivered, Pass, Contributed
  <2>1. at \in 1..Len(Order) /\ ~Served /\ Served' /\ UNCHANGED hook
    BY <2>0, OfferedOne DEF Critical, Contributed
  <2> QED BY <1>0, <1>24, <2>1 DEF LiveIgnores, Delivered, Pass
<1>25. CASE LiveEndsRun
  <2>0. \E k : Here(k) /\ k = "live" /\ UNCHANGED hook /\ at' = at + 1
    BY <1>25 DEF LiveEndsRun, Remove, Pass, Contributed
  <2>1. at \in 1..Len(Order) /\ ~Served /\ Served' /\ UNCHANGED hook
    BY <2>0, OfferedOne DEF Critical, Contributed
  <2>2. /\ hook = "on_eval_end" /\ ~failure /\ UNCHANGED <<phase, run, hook, failure, path>>
        /\ path \in 0..Runs /\ snap \in [1..Runs -> Snapshots]
    BY <1>0, <1>25 DEF LiveEndsRun, Pass, Publishing
  <2>3. NoFile \in Snapshots /\ NoFile.exists = FALSE
    BY NoFileKnown
  <2>4. CASE path # 0 /\ snap' = [snap EXCEPT ![path] = NoFile] /\ excused' = excused
    <3>1. /\ \A r \in 1..Runs : r # path => snap'[r] = snap[r]
          /\ ~snap'[path].exists
      BY <2>2, <2>3, <2>4
    <3> HIDE DEF Started
    <3> QED BY <2>2, <2>4, <3>1
  <2>5. CASE path = 0 /\ snap' = snap /\ excused' = excused
    BY <2>1, <2>2, <2>5
  <2>6. CASE path # 0 /\ snap' = snap /\ excused' = excused \cup {path}
    BY <2>1, <2>2, <2>6
  <2> QED BY <1>25, <2>4, <2>5, <2>6 DEF LiveEndsRun, Remove
<1>26. CASE LiveRetains
  <2>0. \E k : Here(k) /\ k = "live" /\ UNCHANGED hook /\ at' = at + 1
    BY <1>26 DEF LiveRetains, Pass, Contributed
  <2>1. at \in 1..Len(Order) /\ ~Served /\ Served' /\ UNCHANGED hook
    BY <2>0, OfferedOne DEF Critical, Contributed
  <2> QED BY <1>0, <1>26, <2>1 DEF LiveRetains, Pass
<1>27. CASE CloseSinks
  <2>1. hook = "none" /\ ~Served /\ ~Served'
    BY <1>27, NoneServed, ServedStays DEF CloseSinks
  <2>2. /\ phase' = "closed" /\ ~Started' /\ hook' = "none"
        /\ UNCHANGED <<run, path, finished, writeFailed>>
        /\ path \in 0..Runs /\ snap \in [1..Runs -> Snapshots]
    BY <1>0, <1>27, <2>1 DEF CloseSinks, Publishing
  <2>3. NoFile \in Snapshots /\ NoFile.exists = FALSE
    BY NoFileKnown
  <2> HIDE DEF Started
  <2>4. CASE /\ path # 0 /\ ~writeFailed
             /\ snap' = [snap EXCEPT ![path] = NoFile] /\ excused' = excused
    <3>1. /\ \A r \in 1..Runs : r # path => snap'[r] = snap[r]
          /\ ~snap'[path].exists
      BY <2>2, <2>3, <2>4
    <3> QED BY <2>2, <2>4, <3>1
  <2>5. CASE ~(path # 0 /\ ~writeFailed) /\ snap' = snap /\ excused' = excused
    BY <2>1, <2>2, <2>5
  <2>6. CASE path # 0 /\ snap' = snap /\ excused' = excused \cup {path}
    BY <2>1, <2>2, <2>6
  <2> QED BY <1>27, <2>4, <2>5, <2>6 DEF CloseSinks, Remove
<1>28. CASE UNCHANGED vars
  BY <1>28, ServedStays DEF vars
<1> QED BY <1>1, <1>2, <1>3, <1>4, <1>5, <1>6, <1>7, <1>8, <1>9, <1>10, <1>11, <1>12,
     <1>13, <1>14, <1>15, <1>16, <1>17, <1>18, <1>19, <1>20, <1>21, <1>22, <1>23, <1>24,
     <1>25, <1>26, <1>27, <1>28, Zenon DEF Next, Done

LEMMA InvInit ==
    ASSUME Init
    PROVE  Inv
<1>0. /\ Runs \in Nat /\ Trials \in Nat /\ MaxDeltas \in Nat /\ Len(Sinks) \in Nat
      /\ NoneGot \in [1..Len(MessageHooks) -> 0..MaxDeltas]
      /\ \A i \in 1..Len(MessageHooks) : NoneGot[i] = 0
      /\ NoFile \in Snapshots /\ NoFile.exists = FALSE
  BY SinksAssumption, SinksTyped, NoFileKnown DEF NoneGot
<1>1. ~Served /\ ~Started
  BY DEF Init, Served, Started
<1>2. Toggles
  BY Zenon DEF Init, Toggles
<1>3. Calling
  BY <1>0 DEF Init, Calling
<1>4. Streaming
  BY <1>0 DEF Init, Streaming, Level
<1>5. Publishing
  BY <1>0, <1>1 DEF Init, Publishing, Published
<1>6. Recording
  BY <1>0, <1>1 DEF Init, Recording
<1>7. Excusing
  BY <1>0, <1>1 DEF Init, Excusing, NoStaleSnapshot
<1> QED BY <1>2, <1>3, <1>4, <1>5, <1>6, <1>7 DEF Inv

LEMMA InvStep ==
    ASSUME Inv, [Next]_vars
    PROVE  Inv'
  BY TogglesStep, CallingStep, MessagesStep, PublishingStep, RecordingStep, ExcusingStep
     DEF Inv, Publishing

LEMMA InvAlways == Spec => []Inv
  BY InvInit, InvStep, PTL DEF Spec

----------------------------------------------------------------------------
\* The results.

\* Every variable of the fan-out keeps its type: the live sink never counts more trials or
\* transcript entries than the run has.
THEOREM TypesHold == Spec => []TypeOK
<1>1. ASSUME Inv PROVE TypeOK
  <2>1. /\ stop \in BOOLEAN /\ failure \in BOOLEAN /\ streamOk \in BOOLEAN
        /\ finished \in BOOLEAN /\ disabled \in BOOLEAN /\ active \in BOOLEAN
        /\ writeFailed \in BOOLEAN /\ recorded \in BOOLEAN /\ blindStart \in BOOLEAN
    BY <1>1, Zenon DEF Inv, Toggles
  <2>2. /\ phase \in {"idle", "between", "trial", "halted", "stopped", "closed"}
        /\ run \in 0..Runs /\ trials \in 0..Trials
        /\ hook \in Hooks \cup {"none"} /\ at \in 1..(Len(Sinks) + 1)
    BY <1>1 DEF Inv, Calling
  <2>3. /\ latched \subseteq 1..Len(MessageHooks) /\ raised \subseteq 1..Len(MessageHooks)
        /\ sent \in 0..MaxDeltas /\ got \in [1..Len(MessageHooks) -> 0..MaxDeltas]
    BY <1>1 DEF Inv, Streaming
  <2>4. /\ path \in 0..run /\ completed \in 0..Trials /\ entries \in 0..MaxDeltas
        /\ snap \in [1..Runs -> [exists : BOOLEAN, completed : 0..Trials, active : BOOLEAN,
                                 entries : 0..MaxDeltas]]
    BY <1>1 DEF Inv, Publishing, Snapshots
  <2>5. logs \subseteq 1..Runs /\ onlyRecord \subseteq 1..Runs /\ excused \subseteq 1..Runs
    BY <1>1, <2>2, SinksAssumption DEF Inv, Recording, Excusing
  <2> QED BY <2>1, <2>2, <2>3, <2>4, <2>5, Zenon DEF TypeOK
<1> QED BY <1>1, InvAlways, PTL

\* The only record of a run whose canonical log could not be written outlives its own fan-out,
\* the later runs that reuse the sinks, Ctrl-C and the command line's cleanup. The snapshot a
\* step may remove is the live sink's path; that of a failed run is out of its reach because
\* the fan-out puts the critical sinks first, so that the live sink retains it, or because the
\* command line is told that a write failed.
THEOREM RecordsSurvive == Spec => []RecordSurvives
<1>1. ASSUME Inv PROVE RecordSurvives
  BY <1>1 DEF Inv, Recording, RecordSurvives
<1> QED BY <1>1, InvAlways, PTL

\* Whatever stopped the set, the command line leaves behind only the snapshots that are kept
\* on purpose or could not be removed: at any time every snapshot is one of these, or the live
\* sink's path.
THEOREM StaleSnapshotsGo == Spec => []NoStaleSnapshot
<1>1. ASSUME Inv PROVE NoStaleSnapshot
  BY <1>1 DEF Inv, Excusing
<1> QED BY <1>1, InvAlways, PTL

\* Between hooks the published snapshot agrees with eval()'s own count of ended trials and with
\* rollout()'s of forwarded deltas.
THEOREM SnapshotsAgree == Spec => []SnapshotIsCurrent
<1>1. ASSUME Inv PROVE SnapshotIsCurrent
  <2> SUFFICES ASSUME phase \in {"between", "trial"}, hook = "none", ~disabled
               PROVE  /\ snap[run].exists /\ snap[run].completed = trials
                      /\ snap[run].active = (phase = "trial")
                      /\ snap[run].entries <= sent
    BY DEF SnapshotIsCurrent
  <2>1. Published /\ Started
    BY <1>1 DEF Inv, Publishing, Started
  <2>2. /\ snap[run].exists /\ snap[run].completed = trials
        /\ snap[run].active = active /\ snap[run].entries <= entries
        /\ ~active => entries = 0
        /\ active = IF phase = "trial" THEN TRUE ELSE FALSE
        /\ phase = "trial" => entries <= sent
    BY <2>1 DEF Published
  <2>3. snap[run].active = (phase = "trial")
    BY <2>2, Zenon
  <2>4. snap[run].entries \in Nat /\ entries \in Nat /\ sent \in Nat
    <3>1. run \in 1..Runs
      BY <1>1, SinksAssumption DEF Inv, Calling
    <3>2. snap[run] \in Snapshots
      BY <1>1, <3>1 DEF Inv, Publishing
    <3> QED BY <1>1, <3>2, SinksAssumption DEF Inv, Publishing, Streaming, Snapshots
  <2>5. phase # "trial" => entries = 0
    BY <2>2, Zenon
  <2>6. snap[run].entries <= sent
    BY <2>2, <2>4, <2>5
  <2> QED BY <2>2, <2>3, <2>6, Zenon
<1> QED BY <1>1, InvAlways, PTL

\* No message hook misses a transcript delta because of another one, nor because of what it did
\* in an earlier trial: the latch is emptied with the marks it is compared with.
THEOREM MessagesArrive == Spec => []MessagesReachAll
<1>1. ASSUME Inv PROVE MessagesReachAll
  BY <1>1 DEF Inv, Streaming, Level, MessagesReachAll
<1> QED BY <1>1, InvAlways, PTL
=============================================================================
