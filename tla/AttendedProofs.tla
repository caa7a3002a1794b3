---------------------------- MODULE AttendedProofs ----------------------------
(***************************************************************************)
(* What TLAPS proves of everything around an attended run, for every       *)
(* number of trials, keys, notes, snapshots, logs and passes.  First of    *)
(* OperatorSession: what is typed in one trial is not heard in another, a  *)
(* blocking prompt reads alone, and the editor asks for the end of an      *)
(* episode once for an Esc key and never for an arrow key.  Then the run's *)
(* whole invariant: each part has an inductive invariant of its own, kept  *)
(* by its own steps; the parts share no variable, so that a step of one is *)
(* a stutter of the others (AttendedParts).                                *)
(***************************************************************************)
EXTENDS MCAttended, SequenceTheorems, NumberProofs, TLAPS

----------------------------------------------------------------------------
\* The invariant, part by part.

Strokes == {"esc", "[", "final", "newline", "text", "kill"}
Bytes(T) == [k : Strokes, t : T]
Editors(T) == {e \in [line : SUBSET T, esc : BOOLEAN, csi : BOOLEAN] : ~(e.esc /\ e.csi)}
TypedLines(T) == (SUBSET T) \cup {END}

Buffers ==
    /\ fd \in Seq(Bytes(Nat)) /\ tail \in Seq(Bytes(Nat))
    /\ editor \in Editors(Nat) /\ lines \in Seq(TypedLines(Nat))
    /\ partial \in SUBSET Nat /\ heard \in SUBSET SUBSET Nat
    /\ sTrial \in Nat /\ keys \in Nat /\ escs \in Nat /\ ends \in Nat

Switches ==
    /\ hup \in BOOLEAN /\ footer \in BOOLEAN /\ raw \in BOOLEAN /\ statusOpen \in BOOLEAN
    /\ pumpEof \in BOOLEAN /\ fed \in BOOLEAN /\ stopEvent \in BOOLEAN /\ handle \in BOOLEAN
    /\ pumpError \in BOOLEAN /\ consoleEof \in BOOLEAN /\ voice \in BOOLEAN /\ loose \in BOOLEAN

Polling == {"draining", "trial", "settling", "reading", "merging", "ended"}
Ending == {"ending", "joining", "clearing"}

Places ==
    /\ app \in Polling \cup Ending \cup {"gate", "begin", "judge", "exiting", "gone"}
    /\ stamp \in {"none", "armed", "elapsed"}
    /\ lock \in {"free", "pump", "rollout"}
    /\ pump \in {"off", "waiting", "woken", "pumping"}
    /\ lock = "pump" <=> pump = "pumping"
    /\ lock = "rollout" <=> app \in {"settling", "reading"}

\* A window is open from begin_trial() to end_trial(), and the thread that echoes in
\* it, unless Ctrl-C left it behind, no longer.
Windows ==
    /\ footer => app \in Polling \cup Ending
    /\ app \in {"settling", "reading"} => footer /\ ~pumpError
    /\ raw => footer
    /\ ~loose => /\ handle => footer /\ app # "clearing"
                 /\ pump # "off" => handle
                 /\ pumpError => pump = "off" /\ footer

\* Where a line may be heard, everything on its way is of this trial.
Heard ==
    /\ HeardInThisTrial
    /\ footer /\ app \in Polling =>
         /\ fd \in Seq(Bytes({sTrial})) /\ editor \in Editors({sTrial})
         /\ lines \in Seq(TypedLines({sTrial}))
    /\ ~footer /\ app \in Polling \ {"draining"} /\ ~consoleEof =>
         /\ fd \in Seq(Bytes({sTrial})) /\ partial \subseteq {sTrial}

\* The Esc bytes of a stream from position n on, without (if skip) those that an
\* arrow key begins with, and the one the editor holds.
Escapes(skip, s, n) ==
    {j \in (n + 1)..Len(s) : s[j].k = "esc" /\ ~(skip /\ j < Len(s) /\ s[j + 1].k = "[")}
Held(skip, e, s, n) ==
    IF e.esc /\ ~(skip /\ n < Len(s) /\ s[n + 1].k = "[") THEN 1 ELSE 0
Owing(skip, e, s, n) == Cardinality(Escapes(skip, s, n)) + Held(skip, e, s, n)

Stream == fd \o tail
Owed(skip) == ends + Owing(skip, editor, Stream, 0)
AnyOwed == Owed(FALSE)
EscOwed == Owed(TRUE)

\* The ends asked and those that may still be asked, against the keys pressed.
Asked ==
    /\ AnyOwed <= keys
    /\ ~loose => EscOwed <= escs

\* Someone may test the grace: a pump, or a poll of the window.
Reader == pump # "off" \/ (footer /\ ~pumpError /\ app \in Polling)
Unsettled == pump = "pumping" \/ app = "settling"

\* The grace runs only while the editor holds an Esc, and when it has elapsed no
\* rest of a key can come first.
Grace ==
    /\ Reader /\ ~(Unsettled /\ fed) /\ stamp # "none" => editor.esc
    /\ ~loose /\ Reader /\ ~Unsettled /\ stamp = "elapsed" /\ fd = <<>> => tail = <<>>
    /\ ~loose /\ Unsettled /\ ~fed /\ stamp = "elapsed" =>
         IF fd = <<>> THEN tail = <<>> ELSE fd[1].k # "["
    /\ ~loose /\ ~footer => editor = EmptyEditor /\ stamp = "none"

\* What is bounded: trials, and with them tags, and keys.
Trials == 0..Sessions

Bounds ==
    /\ sTrial \in Trials /\ (app = "begin" => sTrial < Sessions)
    /\ keys <= MaxKeys /\ escs <= keys
    /\ fd \in Seq(Bytes(Trials)) /\ tail \in Seq(Bytes(Trials))
    /\ editor \in Editors(Trials) /\ lines \in Seq(TypedLines(Trials))
    /\ partial \in SUBSET Trials /\ heard \in SUBSET SUBSET Trials

Inv == Buffers /\ Switches /\ Places /\ Windows /\ Heard /\ Asked /\ Grace /\ Bounds

----------------------------------------------------------------------------
\* The line editor, byte by byte and read by read.

Results(T) == [e : Editors(T), out : Seq(TypedLines(T))]

LEMMA Feed1Typed ==
    ASSUME NEW T \in SUBSET Nat, NEW acc \in Results(T), NEW b \in Bytes(T)
    PROVE  Feed1(acc, b) \in Results(T)
<1>1. /\ acc = [e |-> acc.e, out |-> acc.out]
      /\ acc.e = [line |-> acc.e.line, esc |-> acc.e.esc, csi |-> acc.e.csi]
      /\ acc.e.line \in SUBSET T /\ acc.e.esc \in BOOLEAN /\ acc.e.csi \in BOOLEAN
      /\ acc.out \in Seq(TypedLines(T)) /\ b.k \in Strokes /\ b.t \in T
      /\ ~(acc.e.esc /\ acc.e.csi)
  BY DEF Results, Editors, Bytes
<1>2. \A line \in TypedLines(T) : Append(acc.out, line) \in Seq(TypedLines(T))
  BY <1>1, AppendProperties
<1>3. END \in TypedLines(T) /\ acc.e.line \in TypedLines(T)
  BY <1>1 DEF TypedLines
<1>4. \A line \in TypedLines(T), x \in Editors(T) : [e |-> x, out |-> Append(acc.out, line)] \in Results(T)
  BY <1>2 DEF Results
<1>5. \A x \in Editors(T) : [acc EXCEPT !.e = x] \in Results(T)
  BY <1>1 DEF Results
<1>6. /\ ~acc.e.csi => [acc.e EXCEPT !.esc = TRUE] \in Editors(T)
      /\ [acc.e EXCEPT !.esc = FALSE] \in Editors(T)
      /\ [acc.e EXCEPT !.csi = FALSE] \in Editors(T)
      /\ [acc.e EXCEPT !.esc = FALSE, !.csi = TRUE] \in Editors(T)
      /\ [acc.e EXCEPT !.line = {}] \in Editors(T)
      /\ [acc.e EXCEPT !.line = acc.e.line \cup {b.t}] \in Editors(T)
      /\ acc.e \in Editors(T)
  BY <1>1 DEF Editors
<1>7. CASE acc.e.csi
  BY <1>5, <1>6, <1>7 DEF Feed1
<1>8. CASE ~acc.e.csi /\ acc.e.esc
  BY <1>1, <1>3, <1>4, <1>5, <1>6, <1>8 DEF Feed1
<1>9. CASE ~acc.e.csi /\ ~acc.e.esc
  BY <1>1, <1>3, <1>4, <1>5, <1>6, <1>9 DEF Feed1
<1> QED BY <1>1, <1>7, <1>8, <1>9

\* A read is a fold of Feed1 over its bytes.
FedBy(T, f, ed, bytes) ==
    /\ f \in [0..Len(bytes) -> Results(T)] /\ f[0] = [e |-> ed, out |-> <<>>]
    /\ \A i \in 1..Len(bytes) : f[i] = Feed1(f[i - 1], bytes[i])

LEMMA FeedIsFold ==
    ASSUME NEW T \in SUBSET Nat, NEW ed \in Editors(T), NEW bytes \in Seq(Bytes(T))
    PROVE  \E f : FedBy(T, f, ed, bytes) /\ Feed(ed, bytes) = f[Len(bytes)]
<1> DEFINE n == Len(bytes)
           step == [i \in 1..n |-> [acc \in Results(T) |-> Feed1(acc, bytes[i])]]
           base == [e |-> ed, out |-> <<>>]
           Fed(f) == f = [i \in 0..n |-> IF i = 0 THEN base ELSE Feed1(f[i - 1], bytes[i])]
           h == CHOOSE f : Fed(f)
<1>1. n \in Nat /\ base \in Results(T) /\ \A i \in 1..n : bytes[i] \in Bytes(T)
  BY LenProperties, EmptySeq DEF Results
<1>2. step \in [1..n -> [Results(T) -> Results(T)]]
  BY <1>1, Feed1Typed
<1>3. ASSUME NEW f, Fed(f) \/ Folds(f, step, base, n)
      PROVE  Fed(f) /\ FedBy(T, f, ed, bytes)
  <2> DEFINE P == {i \in 0..n : f[i] \in Results(T)}
  <2>1. CASE Folds(f, step, base, n)
    <3>1. /\ f \in [0..n -> Results(T)] /\ f[0] = base
          /\ \A i \in 1..n : f[i] = step[i][f[i - 1]]
      <4> HIDE DEF n, step, base
      <4> QED BY <1>1, <1>2, <2>1, FoldTyped
    <3>2. \A i \in 1..n : step[i][f[i - 1]] = Feed1(f[i - 1], bytes[i])
      <4> SUFFICES ASSUME NEW i \in 1..n PROVE step[i][f[i - 1]] = Feed1(f[i - 1], bytes[i])
        OBVIOUS
      <4>1. i - 1 \in 0..n
        BY <1>1
      <4>2. f[i - 1] \in Results(T)
        BY <3>1, <4>1
      <4> QED BY <4>2
    <3>3. \A i \in 0..n : f[i] = IF i = 0 THEN base ELSE Feed1(f[i - 1], bytes[i])
      <4> HIDE DEF step, base
      <4> QED BY <1>1, <3>1, <3>2
    <3>4. f = [i \in 0..n |-> f[i]]
      BY <3>1
    <3> HIDE DEF step, base, n
    <3> QED BY <3>1, <3>2, <3>3, <3>4 DEF FedBy, base, n
  <2>2. CASE Fed(f)
    <3>1. f[0] = base /\ \A i \in 1..n : f[i] = Feed1(f[i - 1], bytes[i])
      BY <1>1, <2>2
    <3>2. 0 \in P
      BY <1>1, <3>1
    <3>3. ASSUME NEW i \in 1..n, i - 1 \in P PROVE i \in P
      BY <1>1, <3>1, <3>3, Feed1Typed
    <3>4. 0..n \subseteq P
      <4> HIDE DEF P
      <4> QED BY <1>1, <3>2, <3>3, UpToInduction
    <3>5. f = [i \in 0..n |-> f[i]]
      BY <2>2
    <3>6. f \in [0..n -> Results(T)]
      <4>1. \A i \in 0..n : f[i] \in Results(T)
        BY <3>4
      <4> QED BY <3>5, <4>1
    <3> QED BY <2>2, <3>1, <3>6 DEF FedBy
  <2> QED BY <1>3, <2>1, <2>2
<1>4. \E f : Fed(f)
  <2>1. PICK f : Folds(f, step, base, n)
    <3> HIDE DEF step, base, n
    <3> QED BY <1>1, FoldExists
  <2> HIDE DEF Fed
  <2> QED BY <1>3, <2>1
<1>5. Fed(h)
  <2> HIDE DEF Fed
  <2> QED BY <1>4
<1>6. Feed(ed, bytes) = h[n]
  BY DEF Feed
<1>7. FedBy(T, h, ed, bytes)
  <2> HIDE DEF h, Fed
  <2> QED BY <1>3, <1>5
<1> HIDE DEF h
<1> QED BY <1>6, <1>7

\* A line of text is not the request to end the episode.
LEMMA TextIsNoEnd == \A line \in SUBSET Nat : line # END
  BY DEF END

LEMMA EndsInEmpty == EndsIn(<<>>) = 0
<1>1. {i \in DOMAIN <<>> : <<>>[i] = END} = {}
  OBVIOUS
<1> QED BY <1>1, FS_EmptySet DEF EndsIn

LEMMA EndsInAppend ==
    ASSUME NEW out \in Seq(TypedLines(Nat)), NEW line \in TypedLines(Nat)
    PROVE  /\ EndsIn(out) \in Nat
           /\ EndsIn(Append(out, line)) = EndsIn(out) + (IF line = END THEN 1 ELSE 0)
<1> DEFINE A == {i \in DOMAIN out : out[i] = END}
           n == Len(out) + 1
           B == {i \in DOMAIN Append(out, line) : Append(out, line)[i] = END}
<1>1. /\ Len(out) \in Nat /\ DOMAIN out = 1..Len(out) /\ DOMAIN Append(out, line) = 1..n
      /\ Append(out, line)[n] = line
      /\ \A i \in 1..Len(out) : Append(out, line)[i] = out[i]
  BY AppendProperties, LenProperties
<1>2. IsFiniteSet(A) /\ n \notin A
  <2>1. IsFiniteSet(1..Len(out)) /\ A \in SUBSET (1..Len(out))
    BY <1>1, FS_Interval
  <2>2. IsFiniteSet(A)
    <3> HIDE DEF A
    <3> QED BY <2>1, FS_Subset
  <2> QED BY <1>1, <2>2
<1>3. B = IF line = END THEN A \cup {n} ELSE A
  BY <1>1
<1>4. Cardinality(A) \in Nat
  BY <1>2, FS_CardinalityType
<1>5. Cardinality(A \cup {n}) = Cardinality(A) + 1
  <2> HIDE DEF A, n
  <2> QED BY <1>2, FS_AddElement
<1>6. EndsIn(out) = Cardinality(A) /\ EndsIn(Append(out, line)) = Cardinality(B)
  BY DEF EndsIn
<1> HIDE DEF A, B
<1> QED BY <1>3, <1>4, <1>5, <1>6


\* Which Esc bytes are left after one more byte.
LEMMA EscapesStep ==
    ASSUME NEW skip \in BOOLEAN, NEW s \in Seq(Bytes(Nat)), NEW h \in Nat, NEW i \in 1..Len(s), i = h + 1
    PROVE  /\ Cardinality(Escapes(skip, s, i)) \in Nat
           /\ Cardinality(Escapes(skip, s, h)) =
                Cardinality(Escapes(skip, s, i))
                + (IF s[i].k = "esc" /\ ~(skip /\ i < Len(s) /\ s[i + 1].k = "[") THEN 1 ELSE 0)
<1> DEFINE A == Escapes(skip, s, i)
           B == Escapes(skip, s, h)
           new == s[i].k = "esc" /\ ~(skip /\ i < Len(s) /\ s[i + 1].k = "[")
<1>1. Len(s) \in Nat
  BY LenProperties
<1>2. IsFiniteSet(A) /\ i \notin A
  <2>0. A \in SUBSET ((i + 1)..Len(s))
    BY DEF Escapes
  <2>1. IsFiniteSet((i + 1)..Len(s)) /\ A \in SUBSET ((i + 1)..Len(s))
    <3> HIDE DEF A
    <3> QED BY <1>1, <2>0, FS_Interval
  <2>2. IsFiniteSet(A)
    <3> HIDE DEF A
    <3> QED BY <2>1, FS_Subset
  <2>3. i \notin A
    BY <1>1 DEF Escapes
  <2> QED BY <2>2, <2>3
<1>3. B = IF new THEN A \cup {i} ELSE A
  <2>1. (h + 1)..Len(s) = {i} \cup ((i + 1)..Len(s))
    BY <1>1
  <2> QED BY <2>1 DEF Escapes
<1>4. Cardinality(A) \in Nat /\ Cardinality(A \cup {i}) = Cardinality(A) + 1
  <2> HIDE DEF A
  <2> QED BY <1>2, FS_AddElement, FS_CardinalityType
<1> HIDE DEF A, B, new
<1>5. Cardinality(B) = Cardinality(A) + (IF new THEN 1 ELSE 0)
  BY <1>3, <1>4
<1> QED BY <1>4, <1>5 DEF A, B, new

\* One byte: an end that is asked was owed before, and is owed no longer.
LEMMA Feed1Owes ==
    ASSUME NEW skip \in BOOLEAN, NEW s \in Seq(Bytes(Nat)), NEW h \in Nat, NEW i \in 1..Len(s), i = h + 1,
           NEW acc \in Results(Nat), NEW next, next = Feed1(acc, s[i])
    PROVE  EndsIn(next.out) + Owing(skip, next.e, s, i) <= EndsIn(acc.out) + Owing(skip, acc.e, s, h)
<1> DEFINE c == Cardinality(Escapes(skip, s, i))
           k == s[i].k
           arrow == skip /\ i < Len(s) /\ s[i + 1].k = "["
           n == EndsIn(acc.out)
<1>1. /\ acc = [e |-> acc.e, out |-> acc.out]
      /\ acc.e = [line |-> acc.e.line, esc |-> acc.e.esc, csi |-> acc.e.csi]
      /\ acc.e.line \in SUBSET Nat /\ acc.e.esc \in BOOLEAN /\ acc.e.csi \in BOOLEAN
      /\ acc.out \in Seq(TypedLines(Nat)) /\ ~(acc.e.esc /\ acc.e.csi)
  BY DEF Results, Editors
<1>2. /\ c \in Nat
      /\ Cardinality(Escapes(skip, s, h)) = c + (IF k = "esc" /\ ~arrow THEN 1 ELSE 0)
  BY EscapesStep
<1>3. n \in Nat /\ EndsIn(Append(acc.out, END)) = n + 1
      /\ EndsIn(Append(acc.out, acc.e.line)) = n
  <2>1. END \in TypedLines(Nat) /\ acc.e.line \in TypedLines(Nat) /\ acc.e.line # END
    BY <1>1, TextIsNoEnd DEF TypedLines
  <2> QED BY <1>1, <2>1, EndsInAppend
<1>4. /\ Held(skip, acc.e, s, h) = IF acc.e.esc /\ ~(skip /\ k = "[") THEN 1 ELSE 0
      /\ Held(skip, next.e, s, i) = IF next.e.esc /\ ~arrow THEN 1 ELSE 0
  BY LenProperties DEF Held
<1>5. EndsIn(next.out) + (IF next.e.esc /\ ~arrow THEN 1 ELSE 0)
      <= n + (IF k = "esc" /\ ~arrow THEN 1 ELSE 0) + (IF acc.e.esc /\ ~(skip /\ k = "[") THEN 1 ELSE 0)
  <2> DEFINE e == acc.e
  <2>1. CASE e.csi
    <3>1. next.out = acc.out /\ next.e.esc = e.esc
      BY <1>1, <2>1 DEF Feed1
    <3>2. e.esc = FALSE
      BY <1>1, <2>1
    <3> QED BY <1>3, <3>1, <3>2
  <2>2. CASE ~e.csi /\ e.esc /\ k = "esc"
    <3>1. next.out = Append(acc.out, END) /\ next.e.esc = TRUE
      BY <1>1, <2>2 DEF Feed1
    <3> QED BY <1>3, <2>2, <3>1
  <2>3. CASE ~e.csi /\ e.esc /\ k = "newline"
    <3>1. next.out = Append(acc.out, END) /\ next.e.esc = FALSE
      BY <1>1, <2>3 DEF Feed1
    <3> QED BY <1>3, <2>3, <3>1
  <2>4. CASE ~e.csi /\ e.esc /\ k \notin {"esc", "newline"}
    <3>1. next.out = acc.out /\ next.e.esc = FALSE
      BY <1>1, <2>4 DEF Feed1
    <3> QED BY <1>3, <3>1
  <2>5. CASE ~e.csi /\ ~e.esc /\ k = "esc"
    <3>1. next.out = acc.out /\ next.e.esc = TRUE
      BY <1>1, <2>5 DEF Feed1
    <3> QED BY <1>3, <2>5, <3>1
  <2>6. CASE ~e.csi /\ ~e.esc /\ k # "esc"
    <3>1. next.out \in {acc.out, Append(acc.out, acc.e.line)} /\ next.e.esc = FALSE
      BY <1>1, <2>6 DEF Feed1
    <3>2. EndsIn(next.out) = n
      BY <1>3, <3>1
    <3> QED BY <1>3, <3>1, <3>2
  <2> QED BY <1>1, <2>1, <2>2, <2>3, <2>4, <2>5, <2>6
<1>6. EndsIn(next.out) \in Nat
  <2>1. next \in Results(Nat)
    BY <1>1, Feed1Typed, LenProperties
  <2>2. next.out \in Seq(TypedLines(Nat))
    BY <2>1 DEF Results
  <2> QED BY <2>2, EndsInAppend DEF TypedLines
<1> DEFINE a == EndsIn(next.out)
           p == IF next.e.esc /\ ~arrow THEN 1 ELSE 0
           q == IF k = "esc" /\ ~arrow THEN 1 ELSE 0
           r == IF acc.e.esc /\ ~(skip /\ k = "[") THEN 1 ELSE 0
<1>7. Owing(skip, next.e, s, i) = c + p /\ Owing(skip, acc.e, s, h) = (c + q) + r
  BY <1>2, <1>4 DEF Owing
<1>8. a + p <= n + q + r /\ p \in Nat /\ q \in Nat /\ r \in Nat /\ a \in Nat /\ n \in Nat /\ c \in Nat
  BY <1>2, <1>3, <1>5, <1>6
<1> HIDE DEF a, p, q, r, n, c
<1>9. a + (c + p) <= n + ((c + q) + r)
  BY <1>8
<1> QED BY <1>7, <1>9 DEF a, n

\* A whole read asks for no more ends than it uses up.
LEMMA FeedOwes ==
    ASSUME NEW skip \in BOOLEAN, NEW ed \in Editors(Nat), NEW bytes \in Seq(Bytes(Nat)), NEW rest \in Seq(Bytes(Nat))
    PROVE  /\ Feed(ed, bytes) \in Results(Nat)
           /\ EndsIn(Feed(ed, bytes).out) \in Nat
           /\ EndsIn(Feed(ed, bytes).out) + Owing(skip, Feed(ed, bytes).e, rest, 0)
                <= Owing(skip, ed, bytes \o rest, 0)
<1> DEFINE n == Len(bytes)
           s == bytes \o rest
<1>1. PICK f : FedBy(Nat, f, ed, bytes) /\ Feed(ed, bytes) = f[n]
  BY FeedIsFold
<1>2. /\ n \in Nat /\ Len(rest) \in Nat /\ Len(s) = n + Len(rest) /\ s \in Seq(Bytes(Nat))
      /\ \A i \in 1..n : s[i] = bytes[i]
      /\ \A i \in 1..Len(rest) : s[n + i] = rest[i]
  BY LenProperties, ConcatProperties
<1>3. /\ f \in [0..n -> Results(Nat)] /\ f[0] = [e |-> ed, out |-> <<>>]
      /\ \A i \in 1..n : f[i] = Feed1(f[i - 1], s[i])
  BY <1>1, <1>2 DEF FedBy
<1> HIDE DEF s
<1>4. Feed(ed, bytes) \in Results(Nat) /\ \A i \in 0..n : f[i] \in Results(Nat)
  <2>1. n \in 0..n
    BY <1>2
  <2> HIDE DEF n
  <2> QED BY <1>1, <1>3, <2>1
<1>5. EndsIn(Feed(ed, bytes).out) \in Nat
  <2>1. Feed(ed, bytes).out \in Seq(TypedLines(Nat))
    BY <1>4 DEF Results
  <2> QED BY <2>1, EndsInAppend DEF TypedLines
<1> DEFINE start == Owing(skip, ed, s, 0)
           P == {i \in 0..n : EndsIn(f[i].out) + Owing(skip, f[i].e, s, i) <= start}
<1>6. \A e, i : Owing(skip, e, s, i) = Cardinality(Escapes(skip, s, i)) + Held(skip, e, s, i)
  BY DEF Owing
<1>7. \A e, i : Held(skip, e, s, i) \in {0, 1}
  BY DEF Held
<1>8. \A i \in 0..n : Cardinality(Escapes(skip, s, i)) \in Nat
  <2> SUFFICES ASSUME NEW i \in 0..n PROVE Cardinality(Escapes(skip, s, i)) \in Nat
    OBVIOUS
  <2>1. IsFiniteSet((i + 1)..Len(s)) /\ Escapes(skip, s, i) \in SUBSET ((i + 1)..Len(s))
    BY <1>2, FS_Interval DEF Escapes
  <2> QED BY <2>1, FS_Subset, FS_CardinalityType
<1>9. \A i \in 0..n : EndsIn(f[i].out) \in Nat
  <2> SUFFICES ASSUME NEW i \in 0..n PROVE EndsIn(f[i].out) \in Nat
    OBVIOUS
  <2>1. f[i].out \in Seq(TypedLines(Nat))
    BY <1>4 DEF Results
  <2> QED BY <2>1, EndsInAppend DEF TypedLines
<1>15. \A i \in 0..n : EndsIn(f[i].out) + Owing(skip, f[i].e, s, i) \in Nat
  <2> SUFFICES ASSUME NEW i \in 0..n PROVE EndsIn(f[i].out) + Owing(skip, f[i].e, s, i) \in Nat
    OBVIOUS
  <2>1. EndsIn(f[i].out) \in Nat /\ Cardinality(Escapes(skip, s, i)) \in Nat
    BY <1>8, <1>9
  <2>2. Held(skip, f[i].e, s, i) \in {0, 1}
    BY <1>7
  <2>3. Owing(skip, f[i].e, s, i) \in Nat
    BY <1>6, <2>1, <2>2
  <2> QED BY <2>1, <2>3
<1>16. start \in Nat
  <2>1. Cardinality(Escapes(skip, s, 0)) \in Nat /\ Held(skip, ed, s, 0) \in {0, 1}
    BY <1>2, <1>7, <1>8
  <2> QED BY <1>6, <2>1
<1>10. 0 \in P
  <2>1. f[0].out = <<>> /\ f[0].e = ed
    BY <1>3
  <2>2. EndsIn(f[0].out) = 0 /\ start \in Nat
    BY <2>1, <1>2, <1>6, <1>7, <1>8, EndsInEmpty
  <2> QED BY <1>2, <2>1, <2>2
<1>11. ASSUME NEW i \in 1..n, i - 1 \in P PROVE i \in P
  <2>1. PICK h \in Nat : i = h + 1 /\ h = i - 1 /\ h \in 0..n
    BY <1>2
  <2>2. i \in 1..Len(s)
    BY <1>2
  <2>3. f[i] = Feed1(f[h], s[i]) /\ f[h] \in Results(Nat)
    BY <1>3, <1>4, <2>1
  <2>4. EndsIn(f[i].out) + Owing(skip, f[i].e, s, i) <= EndsIn(f[h].out) + Owing(skip, f[h].e, s, h)
    BY <1>2, <2>1, <2>2, <2>3, Feed1Owes
  <2>5. EndsIn(f[h].out) + Owing(skip, f[h].e, s, h) <= start
    BY <1>11, <2>1
  <2>6. /\ EndsIn(f[i].out) + Owing(skip, f[i].e, s, i) \in Nat
        /\ EndsIn(f[h].out) + Owing(skip, f[h].e, s, h) \in Nat /\ start \in Nat
    <3> HIDE DEF start, n
    <3> QED BY <1>15, <1>16, <2>1
  <2>7. EndsIn(f[i].out) + Owing(skip, f[i].e, s, i) <= start
    <3> HIDE DEF start
    <3> QED BY <2>4, <2>5, <2>6
  <2> QED BY <2>7
<1>12. n \in P
  <2>1. 0..n \subseteq P
    <3> HIDE DEF P
    <3> QED BY <1>2, <1>10, <1>11, UpToInduction
  <2> QED BY <1>2, <2>1
<1>13. \A e : Owing(skip, e, s, n) = Owing(skip, e, rest, 0)
  <2>1. Cardinality(Escapes(skip, s, n)) = Cardinality(Escapes(skip, rest, 0))
    <3> DEFINE A == Escapes(skip, rest, 0)
               B == Escapes(skip, s, n)
               shift == [j \in A |-> n + j]
    <3>1. IsFiniteSet(A)
      <4>1. IsFiniteSet(1..Len(rest)) /\ A \in SUBSET (1..Len(rest))
        BY <1>2, FS_Interval DEF Escapes
      <4> QED BY <4>1, FS_Subset
    <3>2. \A j \in 1..Len(rest) : n + j \in B <=> j \in A
      <4> SUFFICES ASSUME NEW j \in 1..Len(rest) PROVE n + j \in B <=> j \in A
        OBVIOUS
      <4>1. s[n + j] = rest[j] /\ n + j \in (n + 1)..Len(s) /\ j \in (0 + 1)..Len(rest)
        BY <1>2
      <4>2. n + j < Len(s) <=> j < Len(rest)
        BY <1>2
      <4>3. j < Len(rest) => s[(n + j) + 1] = rest[j + 1]
        <5>1. ASSUME j < Len(rest) PROVE j + 1 \in 1..Len(rest) /\ (n + j) + 1 = n + (j + 1)
          BY <1>2, <5>1
        <5> QED BY <1>2, <5>1
      <4> QED BY <4>1, <4>2, <4>3 DEF Escapes
    <3>3. \A m \in B : m - n \in 1..Len(rest) /\ n + (m - n) = m /\ m \in Nat
      BY <1>2 DEF Escapes
    <3>4. A \subseteq 1..Len(rest)
      BY DEF Escapes
    <3>5. shift \in Bijection(A, B)
      <4> HIDE DEF A, B
      <4>1. shift \in [A -> B]
        BY <3>2, <3>4
      <4>2. \A i, j \in A : shift[i] = shift[j] => i = j
        BY <1>2, <3>4
      <4>3. \A m \in B : \E j \in A : shift[j] = m
        <5> SUFFICES ASSUME NEW m \in B PROVE \E j \in A : shift[j] = m
          OBVIOUS
        <5>1. m - n \in A /\ n + (m - n) = m
          BY <3>2, <3>3
        <5> QED BY <5>1
      <4> HIDE DEF shift
      <4> QED BY <4>1, <4>2, <4>3 DEF Bijection, Injection, IsInjective, Surjection
    <3>6. ExistsBijection(A, B)
      BY <3>5 DEF ExistsBijection
    <3> HIDE DEF A, B
    <3>7. Cardinality(B) = Cardinality(A)
      BY <3>1, <3>6, FS_Bijection
    <3> QED BY <3>7 DEF A, B
  <2>2. \A e : Held(skip, e, s, n) = Held(skip, e, rest, 0)
    BY <1>2 DEF Held
  <2> QED BY <2>1, <2>2 DEF Owing
<1>14. EndsIn(f[n].out) + Owing(skip, f[n].e, s, n) <= start
  BY <1>12
<1> QED BY <1>1, <1>4, <1>5, <1>13, <1>14 DEF s

\* A read keeps to the trials its bytes and the line were typed in.
LEMMA FeedTyped ==
    ASSUME NEW T \in SUBSET Nat, NEW ed \in Editors(T), NEW bytes \in Seq(Bytes(T))
    PROVE  /\ Feed(ed, bytes) \in Results(T)
           /\ bytes = <<>> => Feed(ed, bytes).e = ed
<1>1. PICK f : FedBy(T, f, ed, bytes) /\ Feed(ed, bytes) = f[Len(bytes)]
  BY FeedIsFold
<1>2. Len(bytes) \in Nat /\ Len(bytes) \in 0..Len(bytes) /\ (bytes = <<>> => Len(bytes) = 0)
  BY LenProperties
<1>3. f \in [0..Len(bytes) -> Results(T)] /\ f[0] = [e |-> ed, out |-> <<>>]
  BY <1>1 DEF FedBy
<1>4. Feed(ed, bytes) \in Results(T)
  BY <1>1, <1>2, <1>3
<1>5. bytes = <<>> => Feed(ed, bytes) = [e |-> ed, out |-> <<>>]
  BY <1>1, <1>2, <1>3
<1> QED BY <1>4, <1>5

\* The terminal's own line discipline, read without a window.
PlainResults(T) == [line : SUBSET T, out : Seq(SUBSET T)]

LEMMA Plain1Typed ==
    ASSUME NEW T \in SUBSET Nat, NEW acc \in PlainResults(T), NEW b \in Bytes(T)
    PROVE  Plain1(acc, b) \in PlainResults(T)
<1>1. /\ acc = [line |-> acc.line, out |-> acc.out]
      /\ acc.line \in SUBSET T /\ acc.out \in Seq(SUBSET T) /\ b.t \in T
  BY DEF PlainResults, Bytes
<1>2. Append(acc.out, acc.line) \in Seq(SUBSET T)
  BY <1>1, AppendProperties
<1> QED BY <1>1, <1>2 DEF Plain1, PlainResults

LEMMA ReadPlainTyped ==
    ASSUME NEW T \in SUBSET Nat, NEW line \in SUBSET T, NEW bytes \in Seq(Bytes(T))
    PROVE  ReadPlain(line, bytes) \in PlainResults(T)
<1> DEFINE n == Len(bytes)
           step == [i \in 1..n |-> [acc \in PlainResults(T) |-> Plain1(acc, bytes[i])]]
           base == [line |-> line, out |-> <<>>]
           Fed(f) == f = [i \in 0..n |-> IF i = 0 THEN base ELSE Plain1(f[i - 1], bytes[i])]
           h == CHOOSE f : Fed(f)
<1>1. n \in Nat /\ base \in PlainResults(T) /\ \A i \in 1..n : bytes[i] \in Bytes(T)
  BY LenProperties, EmptySeq DEF PlainResults
<1>2. step \in [1..n -> [PlainResults(T) -> PlainResults(T)]]
  BY <1>1, Plain1Typed
<1>3. \E f : Fed(f)
  <2>1. PICK f : Folds(f, step, base, n)
    <3> HIDE DEF step, base, n
    <3> QED BY <1>1, FoldExists
  <2>2. /\ f \in [0..n -> PlainResults(T)] /\ f[0] = base
        /\ \A i \in 1..n : f[i] = step[i][f[i - 1]]
    <3> HIDE DEF n, step, base
    <3> QED BY <1>1, <1>2, <2>1, FoldTyped
  <2>3. \A i \in 1..n : step[i][f[i - 1]] = Plain1(f[i - 1], bytes[i])
    <3> SUFFICES ASSUME NEW i \in 1..n PROVE step[i][f[i - 1]] = Plain1(f[i - 1], bytes[i])
      OBVIOUS
    <3>1. i - 1 \in 0..n
      BY <1>1
    <3>2. f[i - 1] \in PlainResults(T)
      BY <2>2, <3>1
    <3> QED BY <3>2
  <2>4. \A i \in 0..n : f[i] = IF i = 0 THEN base ELSE Plain1(f[i - 1], bytes[i])
    <3> HIDE DEF step, base
    <3> QED BY <1>1, <2>2, <2>3
  <2>5. f = [i \in 0..n |-> f[i]]
    BY <2>2
  <2> HIDE DEF step, base, n
  <2> QED BY <2>4, <2>5
<1>4. Fed(h)
  <2> HIDE DEF Fed
  <2> QED BY <1>3
<1>5. ReadPlain(line, bytes) = h[n]
  BY DEF ReadPlain
<1> HIDE DEF h
<1> DEFINE P == {i \in 0..n : h[i] \in PlainResults(T)}
<1>6. h[0] = base /\ \A i \in 1..n : h[i] = Plain1(h[i - 1], bytes[i])
  BY <1>1, <1>4
<1>7. 0 \in P
  BY <1>1, <1>6
<1>8. ASSUME NEW i \in 1..n, i - 1 \in P PROVE i \in P
  BY <1>1, <1>6, <1>8, Plain1Typed
<1>9. 0..n \subseteq P
  <2> HIDE DEF P
  <2> QED BY <1>1, <1>7, <1>8, UpToInduction
<1> QED BY <1>1, <1>5, <1>9

----------------------------------------------------------------------------
\* What a key and a read do to the stream.

USE DEF keyboard, window, editing, threads, console

LEMMA KeyKnown ==
    ASSUME NEW key \in DOMAIN KeyBytes
    PROVE  /\ KeyBytes[key] \in Seq(Strokes) /\ Len(KeyBytes[key]) >= 1
           /\ KeyBytes[key][1] # "["
           /\ \A j \in 1..Len(KeyBytes[key]) :
                KeyBytes[key][j] = "esc" =>
                  j = 1 /\ (key # "Esc" => 1 < Len(KeyBytes[key]) /\ KeyBytes[key][2] = "[")
<1>1. key \in {"Esc", "Arrow", "Enter", "Text", "CtrlU"}
  BY DEF KeyBytes
<1>2. CASE key = "Esc"
  <2>1. KeyBytes[key] = <<"esc">>
    BY <1>2 DEF KeyBytes
  <2> QED BY <1>2, <2>1 DEF Strokes
<1>3. CASE key = "Arrow"
  <2>1. KeyBytes[key] = <<"esc", "[", "final">>
    BY <1>3 DEF KeyBytes
  <2> QED BY <1>3, <2>1 DEF Strokes
<1>4. CASE key \in {"Enter", "Text", "CtrlU"}
  <2>1. PICK k \in {"newline", "text", "kill"} : KeyBytes[key] = <<k>>
    BY <1>4 DEF KeyBytes
  <2> QED BY <2>1 DEF Strokes
<1> QED
  BY <1>1, <1>2, <1>3, <1>4, Zenon

\* The stream grows by one whole key, of which at least the first byte arrives.
KeyArrives(key, bytes) ==
    /\ bytes \in Seq(Bytes(Nat)) /\ Len(bytes) >= 1 /\ bytes[1].k # "["
    /\ \A j \in 1..Len(bytes) :
         bytes[j].k = "esc" => j = 1 /\ (key # "Esc" => 1 < Len(bytes) /\ bytes[2].k = "[")
    /\ fd' \in Seq(Bytes(Nat)) /\ tail' \in Seq(Bytes(Nat)) /\ fd' # <<>>
    /\ fd' \o tail' = fd \o bytes
    /\ Len(fd') > Len(fd)
    /\ \A i \in 1..Len(fd) : fd'[i] = fd[i]
    /\ \A i \in 1..Len(fd') : i \notin 1..Len(fd) => fd'[i].t = Tag
    /\ \A i \in 1..Len(tail') : tail'[i].t = Tag
    /\ fd = <<>> => fd'[1].k # "["

LEMMA PressArrives ==
    ASSUME fd \in Seq(Bytes(Nat)), sTrial \in Nat, NEW key \in DOMAIN KeyBytes, Press(key)
    PROVE  \E bytes : KeyArrives(key, bytes)
<1> DEFINE ks == KeyBytes[key]
           bytes == [i \in DOMAIN ks |-> Byte(ks[i])]
<1>1. PICK n \in 1..Len(ks) : fd' = fd \o SubSeq(bytes, 1, n) /\ tail' = SubSeq(bytes, n + 1, Len(bytes))
  BY DEF Press
<1>2. /\ ks \in Seq(Strokes) /\ Len(ks) \in Nat /\ Len(ks) >= 1 /\ DOMAIN ks = 1..Len(ks)
      /\ ks[1] # "["
      /\ \A j \in 1..Len(ks) :
           ks[j] = "esc" => j = 1 /\ (key # "Esc" => 1 < Len(ks) /\ ks[2] = "[")
  BY KeyKnown, LenProperties
<1> HIDE DEF ks
<1>3. Tag \in Nat
  BY DEF Tag
<1>4. /\ bytes \in Seq(Bytes(Nat)) /\ Len(bytes) = Len(ks)
      /\ \A i \in 1..Len(ks) : bytes[i].k = ks[i] /\ bytes[i].t = Tag
  <2>1. \A i \in 1..Len(ks) : ks[i] \in Strokes
    BY <1>2
  <2> QED BY <1>2, <1>3, <2>1 DEF Byte, Bytes
<1> HIDE DEF bytes
<1> DEFINE first == SubSeq(bytes, 1, n)
           rest == SubSeq(bytes, n + 1, Len(bytes))
<1>5. /\ first \in Seq(Bytes(Nat)) /\ Len(first) = n /\ \A i \in 1..n : first[i] = bytes[i]
      /\ rest \in Seq(Bytes(Nat)) /\ Len(rest) = Len(bytes) - n
      /\ \A i \in 1..(Len(bytes) - n) : rest[i] = bytes[n + i]
  BY <1>2, <1>4
<1> HIDE DEF first, rest
<1>6. /\ fd' \in Seq(Bytes(Nat)) /\ Len(fd') = Len(fd) + n /\ Len(fd) \in Nat
      /\ \A i \in 1..Len(fd) : fd'[i] = fd[i]
      /\ \A i \in 1..n : fd'[Len(fd) + i] = first[i]
  BY <1>1, <1>2, <1>5, ConcatProperties, LenProperties DEF first
<1>7. tail' = rest
  BY <1>1 DEF rest
<1>8. fd' \o tail' = fd \o bytes
  <2>1. fd' \o tail' = fd \o (first \o rest)
    <3>1. fd' = fd \o first
      BY <1>1 DEF first
    <3>2. (fd \o first) \o rest = fd \o (first \o rest)
      BY <1>5, ConcatAssociative
    <3> QED BY <1>7, <3>1, <3>2
  <2>2. SubSeq(bytes, 1, n) \o SubSeq(bytes, n + 1, Len(bytes)) = SubSeq(bytes, 1, Len(bytes))
    <3>1. 1 \in 1..Len(bytes) + 1 /\ n \in (1 - 1)..Len(bytes) /\ Len(bytes) \in n..Len(bytes)
      BY <1>2, <1>4
    <3> QED BY <1>4, <3>1, ConcatAdjacentSubSeq
  <2>3. first \o rest = bytes
    BY <1>4, <2>2, SubSeqFull DEF first, rest
  <2> QED BY <2>1, <2>3
<1>9. \A i \in 1..Len(fd') : i \notin 1..Len(fd) => fd'[i].t = Tag
  <2> SUFFICES ASSUME NEW i \in 1..Len(fd'), i \notin 1..Len(fd) PROVE fd'[i].t = Tag
    OBVIOUS
  <2>1. PICK j \in 1..n : i = Len(fd) + j
    <3>1. i - Len(fd) \in 1..n /\ i = Len(fd) + (i - Len(fd))
      BY <1>2, <1>6
    <3> QED BY <3>1
  <2>2. fd'[i] = bytes[j] /\ j \in 1..Len(ks)
    BY <1>2, <1>5, <1>6, <2>1
  <2> QED BY <1>4, <2>2
<1>10. fd = <<>> => fd'[1].k # "["
  <2> SUFFICES ASSUME fd = <<>> PROVE fd'[1].k # "["
    OBVIOUS
  <2>1. Len(fd) = 0 /\ 1 \in 1..n
    BY <1>2
  <2>2. fd'[0 + 1] = first[1]
    BY <1>6, <2>1
  <2>3. fd'[1] = first[1]
    BY <2>2
  <2>4. first[1] = bytes[1] /\ 1 \in 1..Len(ks)
    BY <1>2, <1>5, <2>1
  <2>5. bytes[1].k = ks[1]
    BY <1>4, <2>4
  <2>6. ks[1] # "["
    BY <1>2
  <2> QED BY <2>3, <2>4, <2>5, <2>6
<1>11. fd' # <<>> /\ Len(fd') > Len(fd)
  BY <1>2, <1>6
<1>12. bytes[1].k # "[" /\ Len(bytes) >= 1
  BY <1>2, <1>4
<1>13. \A j \in 1..Len(bytes) :
         bytes[j].k = "esc" => j = 1 /\ (key # "Esc" => 1 < Len(bytes) /\ bytes[2].k = "[")
  <2> SUFFICES ASSUME NEW j \in 1..Len(bytes), bytes[j].k = "esc"
               PROVE  j = 1 /\ (key # "Esc" => 1 < Len(bytes) /\ bytes[2].k = "[")
    OBVIOUS
  <2>1. ks[j] = "esc" /\ j \in 1..Len(ks)
    BY <1>4
  <2>2. 1 < Len(ks) => bytes[2].k = ks[2]
    BY <1>2, <1>4
  <2> QED BY <1>2, <1>4, <2>1, <2>2
<1>14. \A i \in 1..Len(tail') : tail'[i].t = Tag
  <2> SUFFICES ASSUME NEW i \in 1..Len(tail') PROVE tail'[i].t = Tag
    OBVIOUS
  <2>1. tail'[i] = bytes[n + i] /\ n + i \in 1..Len(ks)
    BY <1>2, <1>4, <1>5, <1>7
  <2> QED BY <1>4, <2>1
<1> QED BY <1>4, <1>5, <1>6, <1>7, <1>8, <1>9, <1>10, <1>11, <1>12, <1>13, <1>14 DEF KeyArrives

\* The rest of a key arrives: the stream has the same keystrokes, some with a new tag.
RestArrives ==
    /\ fd' \in Seq(Bytes(Nat)) /\ Len(fd') = Len(fd) + Len(tail) /\ tail' = <<>>
    /\ \A i \in 1..Len(fd) : fd'[i] = fd[i]
    /\ \A i \in 1..Len(fd') : i \notin 1..Len(fd) => fd'[i].t = Tag
    /\ \A i \in 1..Len(fd') : fd'[i].k = (fd \o tail)[i].k

LEMMA TailArrivesKnown ==
    ASSUME fd \in Seq(Bytes(Nat)), tail \in Seq(Bytes(Nat)), sTrial \in Nat, TailArrives
    PROVE  RestArrives
<1> DEFINE rest_ == [i \in DOMAIN tail |-> Byte(tail[i].k)]
<1>1. fd' = fd \o rest_ /\ tail' = <<>>
  BY DEF TailArrives
<1>2. Tag \in Nat /\ Len(tail) \in Nat /\ Len(fd) \in Nat /\ DOMAIN tail = 1..Len(tail)
  BY LenProperties DEF Tag
<1>3. /\ rest_ \in Seq(Bytes(Nat)) /\ Len(rest_) = Len(tail)
      /\ \A i \in 1..Len(tail) : rest_[i].k = tail[i].k /\ rest_[i].t = Tag
  <2>1. \A i \in 1..Len(tail) : tail[i] \in Bytes(Nat)
    BY <1>2
  <2>2. \A i \in 1..Len(tail) : tail[i].k \in Strokes
    BY <2>1 DEF Bytes
  <2> QED BY <1>2, <2>2 DEF Byte, Bytes
<1> HIDE DEF rest_
<1>4. /\ fd' \in Seq(Bytes(Nat)) /\ Len(fd') = Len(fd) + Len(tail)
      /\ \A i \in 1..Len(fd) : fd'[i] = fd[i]
      /\ \A i \in 1..Len(tail) : fd'[Len(fd) + i] = rest_[i]
  <2>1. /\ fd \o rest_ \in Seq(Bytes(Nat)) /\ Len(fd \o rest_) = Len(fd) + Len(rest_)
        /\ \A i \in 1..(Len(fd) + Len(rest_)) :
             (fd \o rest_)[i] = IF i <= Len(fd) THEN fd[i] ELSE rest_[i - Len(fd)]
    BY <1>3, ConcatProperties, ZenonT(40)
  <2> QED BY <1>1, <1>2, <1>3, <2>1
<1>5. /\ \A i \in 1..Len(fd) : (fd \o tail)[i] = fd[i]
      /\ \A i \in 1..Len(tail) : (fd \o tail)[Len(fd) + i] = tail[i]
  BY <1>2, ConcatProperties
<1>6. \A i \in 1..Len(fd') : i \notin 1..Len(fd) => \E j \in 1..Len(tail) : i = Len(fd) + j
  <2> SUFFICES ASSUME NEW i \in 1..Len(fd'), i \notin 1..Len(fd)
               PROVE  \E j \in 1..Len(tail) : i = Len(fd) + j
    OBVIOUS
  <2>1. i - Len(fd) \in 1..Len(tail) /\ i = Len(fd) + (i - Len(fd))
    BY <1>2, <1>4
  <2> QED BY <2>1
<1>7. ASSUME NEW i \in 1..Len(fd'), i \notin 1..Len(fd)
      PROVE  fd'[i].t = Tag /\ fd'[i].k = (fd \o tail)[i].k
  <2>1. PICK j \in 1..Len(tail) : i = Len(fd) + j
    BY <1>6, <1>7
  <2> QED BY <1>3, <1>4, <1>5, <2>1
<1>8. \A i \in 1..Len(fd') : fd'[i].k = (fd \o tail)[i].k
  BY <1>4, <1>5, <1>7
<1> QED BY <1>1, <1>4, <1>7, <1>8 DEF RestArrives

LEMMA PumpReadsKnown ==
    ASSUME Buffers, Switches, PumpReads
    PROVE  /\ editor' \in Editors(Nat) /\ lines' \in Seq(TypedLines(Nat)) /\ ends' \in Nat
           /\ fd' = <<>> /\ pumpEof' \in BOOLEAN /\ fed' \in BOOLEAN
<1> DEFINE r == Feed(editor, fd)
<1>1. editor' = r.e /\ lines' = lines \o r.out /\ ends' = ends + EndsIn(r.out) /\ fd' = <<>>
      /\ pumpEof' = (pumpEof \/ hup) /\ fed' = (fd # <<>>)
  BY DEF PumpReads
<1>2. editor \in Editors(Nat) /\ fd \in Seq(Bytes(Nat)) /\ lines \in Seq(TypedLines(Nat)) /\ ends \in Nat
  BY DEF Buffers
<1>3. r \in Results(Nat)
  BY <1>2, FeedTyped
<1>4. r.e \in Editors(Nat) /\ r.out \in Seq(TypedLines(Nat))
  BY <1>3 DEF Results
<1> HIDE DEF r
<1>5. EndsIn(r.out) \in Nat
  BY <1>4, EndsInAppend DEF TypedLines
<1>6. lines \o r.out \in Seq(TypedLines(Nat))
  BY <1>2, <1>4, ConcatProperties
<1> QED BY <1>1, <1>2, <1>4, <1>5, <1>6 DEF Switches

LEMMA SettleKnown ==
    ASSUME Buffers, Places, Settle
    PROVE  /\ editor' \in Editors(Nat) /\ lines' \in Seq(TypedLines(Nat)) /\ ends' \in Nat
           /\ stamp' \in {"none", "armed", "elapsed"}
<1>1. editor \in Editors(Nat) /\ lines \in Seq(TypedLines(Nat)) /\ ends \in Nat
  BY DEF Buffers
<1>2. [editor EXCEPT !.esc = FALSE] \in Editors(Nat)
  BY <1>1 DEF Editors
<1>3. Append(lines, END) \in Seq(TypedLines(Nat))
  BY <1>1, AppendProperties DEF TypedLines
<1>4. CASE fed
  BY <1>1, <1>4 DEF Settle, Places
<1>5. CASE ~fed /\ stamp = "elapsed" /\ ~pumpEof
  <2>1. /\ stamp' = "none" /\ editor' = [editor EXCEPT !.esc = FALSE]
        /\ lines' = Append(lines, END) /\ ends' = ends + 1
    BY <1>5 DEF Settle
  <2> QED BY <1>1, <1>2, <1>3, <2>1
<1>6. CASE ~fed /\ ~(stamp = "elapsed" /\ ~pumpEof)
  BY <1>1, <1>6 DEF Settle, Places
<1> QED BY <1>4, <1>5, <1>6

LEMMA MessagesKnown ==
    ASSUME NEW T \in SUBSET Nat, NEW ls, ls \in Seq(SUBSET T) \/ ls \in Seq(TypedLines(T))
    PROVE  Messages(ls) \in SUBSET SUBSET T
<1>1. \A i \in DOMAIN ls : ls[i] \in SUBSET T \/ ls[i] = END
  BY LenProperties DEF TypedLines
<1> QED BY <1>1 DEF Messages

LEMMA EmptyKnown == EmptyEditor \in Editors(Nat) /\ <<>> \in Seq(Bytes(Nat)) /\ <<>> \in Seq(TypedLines(Nat))
  BY EmptySeq DEF EmptyEditor, Editors

----------------------------------------------------------------------------
\* Types and places.

LEMMA BuffersStep == Buffers /\ Switches /\ Places /\ [SNext]_sessionVars => Buffers'
<1> SUFFICES ASSUME Buffers, Switches, Places, [SNext]_sessionVars PROVE Buffers'
  OBVIOUS
<1>0. CASE UNCHANGED sessionVars
  BY <1>0 DEF sessionVars, Buffers
<1>1. ASSUME NEW key \in DOMAIN KeyBytes, Press(key) PROVE Buffers'
  <2>1. PICK bytes : KeyArrives(key, bytes)
    BY <1>1, PressArrives DEF Buffers
  <2> QED BY <1>1, <2>1 DEF Press, KeyArrives, Buffers
<1>2. CASE TailArrives
  <2>1. RestArrives
    BY <1>2, TailArrivesKnown DEF Buffers
  <2> QED BY <1>2, <2>1, EmptyKnown DEF TailArrives, RestArrives, Buffers
<1>3. CASE HangUp \/ GraceElapses \/ PumpWakes \/ PumpFails \/ PumpStops
  BY <1>3 DEF HangUp, GraceElapses, PumpWakes, PumpFails, PumpStops, Buffers
<1>4. CASE PumpPumps \/ PollPumps
  <2>1. PumpReads
    BY <1>4 DEF PumpPumps, PollPumps
  <2> QED BY <1>4, <2>1, PumpReadsKnown, EmptyKnown DEF PumpPumps, PollPumps, Buffers
<1>5. CASE PumpSettles \/ PollSettles
  <2>1. Settle
    BY <1>5 DEF PumpSettles, PollSettles
  <2> QED BY <1>5, <2>1, SettleKnown DEF PumpSettles, PollSettles, Buffers
<1>12. CASE Gate
  BY <1>12, EmptyKnown DEF Gate, Buffers
<1>6. CASE StayPlain
  BY <1>6, EmptyKnown DEF StayPlain, Buffers
<1>13. CASE EnterFooter
  <2>1. /\ sTrial' = sTrial + 1 /\ heard' = {} /\ fd' = <<>> /\ editor' = EmptyEditor /\ lines' = <<>>
        /\ UNCHANGED <<keys, tail, escs, ends, partial>>
    BY <1>13 DEF EnterFooter, ResetFooterState
  <2> QED BY <2>1, EmptyKnown DEF Buffers
<1>7. CASE DrainConsole
  BY <1>7, EmptyKnown DEF DrainConsole, Buffers
<1>8. CASE ShowStatus \/ PollRaises \/ Merge \/ TrialEnds \/ StopPump \/ JoinPump
  BY <1>8 DEF ShowStatus, PollRaises, Merge, TrialEnds, StopPump, JoinPump, Buffers
<1>9. CASE PollReads
  <2>1. Messages(lines) \in SUBSET SUBSET Nat
    BY MessagesKnown DEF Buffers
  <2> QED BY <1>9, <2>1, EmptyKnown DEF PollReads, Buffers
<1>10. CASE PollPlain
  <2> DEFINE r == ReadPlain(partial, fd)
  <2>1. r \in PlainResults(Nat)
    BY ReadPlainTyped DEF Buffers
  <2>2. r.line \in SUBSET Nat /\ Messages(r.out) \in SUBSET SUBSET Nat
    <3>1. r.line \in SUBSET Nat /\ r.out \in Seq(SUBSET Nat)
      BY <2>1 DEF PlainResults
    <3> HIDE DEF r
    <3> QED BY <3>1, MessagesKnown
  <2>3. IF consoleEof THEN UNCHANGED <<fd, partial, heard, consoleEof>>
        ELSE /\ fd' = <<>> /\ heard' = heard \cup Messages(r.out)
             /\ partial' = IF hup THEN {} ELSE r.line
    BY <1>10 DEF PollPlain
  <2> HIDE DEF r
  <2>4. fd' \in Seq(Bytes(Nat)) /\ partial' \in SUBSET Nat /\ heard' \in SUBSET SUBSET Nat
    BY <2>2, <2>3, EmptyKnown DEF Buffers
  <2> QED BY <1>10, <2>4 DEF PollPlain, Buffers
<1>11. CASE JoinInterrupted \/ ClearRows \/ PromptVerdict \/ AtExit
  BY <1>11, EmptyKnown
     DEF JoinInterrupted, ClearRows, PromptVerdict, AtExit, ResetFooterState, RestoreTerminal, Buffers
<1> QED
  BY <1>0, <1>1, <1>2, <1>3, <1>4, <1>5, <1>6, <1>7, <1>8, <1>9, <1>10, <1>11, <1>12, <1>13 DEF SNext

LEMMA SwitchesStep == Buffers /\ Switches /\ [SNext]_sessionVars => Switches'
<1> SUFFICES ASSUME Buffers, Switches, [SNext]_sessionVars PROVE Switches'
  OBVIOUS
<1>0. CASE UNCHANGED sessionVars
  BY <1>0 DEF sessionVars, Switches
<1>1. ASSUME NEW key \in DOMAIN KeyBytes, Press(key) PROVE Switches'
  BY <1>1 DEF Press, Switches
<1>20. CASE TailArrives
  BY <1>20, ZenonT(30) DEF TailArrives, Switches
<1>21. CASE HangUp
  BY <1>21, ZenonT(30) DEF HangUp, Switches
<1>22. CASE GraceElapses
  BY <1>22, ZenonT(30) DEF GraceElapses, Switches
<1>23. CASE PumpWakes
  BY <1>23, ZenonT(30) DEF PumpWakes, Switches
<1>24. CASE PumpFails
  BY <1>24, ZenonT(30) DEF PumpFails, Switches
<1>25. CASE PumpStops
  BY <1>25, ZenonT(30) DEF PumpStops, Switches
<1>26. CASE Gate
  BY <1>26, ZenonT(30) DEF Gate, Switches
<1>27. CASE StayPlain
  BY <1>27, ZenonT(30) DEF StayPlain, Switches
<1>28. CASE ShowStatus
  BY <1>28, ZenonT(30) DEF ShowStatus, Switches
<1>29. CASE PollRaises
  BY <1>29, ZenonT(30) DEF PollRaises, Switches
<1>30. CASE Merge
  BY <1>30, ZenonT(30) DEF Merge, Switches
<1>31. CASE TrialEnds
  BY <1>31, ZenonT(30) DEF TrialEnds, Switches
<1>32. CASE StopPump
  BY <1>32, ZenonT(30) DEF StopPump, Switches
<1>33. CASE JoinPump
  BY <1>33, ZenonT(30) DEF JoinPump, Switches
<1>34. CASE PromptVerdict
  BY <1>34, ZenonT(30) DEF PromptVerdict, Switches
<1>35. CASE AtExit
  BY <1>35, ZenonT(30) DEF AtExit, RestoreTerminal, Switches
<1>3. CASE PumpPumps \/ PollPumps
  <2>1. PumpReads
    BY <1>3 DEF PumpPumps, PollPumps
  <2>2. fed' \in BOOLEAN /\ pumpEof' \in BOOLEAN
    BY <2>1, PumpReadsKnown
  <2> QED BY <1>3, <2>2 DEF PumpPumps, PollPumps, Switches
<1>4. CASE PumpSettles \/ PollSettles
  BY <1>4 DEF PumpSettles, PollSettles, Switches
<1>6. CASE EnterFooter
  <2>1. pumpEof' \in BOOLEAN /\ loose' \in BOOLEAN
    BY <1>6 DEF EnterFooter, ResetFooterState, Switches
  <2> QED BY <1>6, <2>1, ZenonT(30) DEF EnterFooter, ResetFooterState, Switches
<1>7. CASE DrainConsole
  BY <1>7, ZenonT(30) DEF DrainConsole, Switches
<1>9. CASE PollReads \/ PollPlain
  BY <1>9 DEF PollReads, PollPlain, Switches
<1>10. CASE JoinInterrupted \/ ClearRows
  <2>1. stopEvent' \in BOOLEAN
    BY <1>10 DEF JoinInterrupted, ClearRows, RestoreTerminal, Switches
  <2> QED BY <1>10, <2>1, ZenonT(30)
             DEF JoinInterrupted, ClearRows, ResetFooterState, RestoreTerminal, Switches
<1> QED
  BY <1>0, <1>1, <1>3, <1>4, <1>6, <1>7, <1>9, <1>10,
     <1>20, <1>21, <1>22, <1>23, <1>24, <1>25, <1>26, <1>27, <1>28, <1>29, <1>30, <1>31, <1>32, <1>33, <1>34, <1>35 DEF SNext

LEMMA PlacesStep == Places /\ [SNext]_sessionVars => Places'
<1> SUFFICES ASSUME Places, [SNext]_sessionVars PROVE Places'
  OBVIOUS
<1>0. CASE UNCHANGED sessionVars
  BY <1>0 DEF sessionVars, Places, Polling, Ending
<1>1. ASSUME NEW key \in DOMAIN KeyBytes, Press(key) PROVE Places'
  BY <1>1 DEF Press, Places, Polling, Ending
<1>2. CASE TailArrives
  BY <1>2 DEF TailArrives, Places, Polling, Ending
<1>3. CASE HangUp
  BY <1>3 DEF HangUp, Places, Polling, Ending
<1>4. CASE GraceElapses
  BY <1>4 DEF GraceElapses, Places, Polling, Ending
<1>5. CASE PumpWakes
  BY <1>5 DEF PumpWakes, Places, Polling, Ending
<1>6. CASE PumpPumps
  BY <1>6 DEF PumpPumps, PumpReads, Places, Polling, Ending
<1>7. CASE PumpSettles
  BY <1>7 DEF PumpSettles, Settle, Places, Polling, Ending
<1>8. CASE PumpFails
  BY <1>8 DEF PumpFails, Places, Polling, Ending
<1>9. CASE PumpStops
  BY <1>9 DEF PumpStops, Places, Polling, Ending
<1>10. CASE Gate
  BY <1>10 DEF Gate, Places, Polling, Ending
<1>11. CASE StayPlain
  BY <1>11 DEF StayPlain, Places, Polling, Ending
<1>12. CASE EnterFooter
  BY <1>12 DEF EnterFooter, ResetFooterState, Places, Polling, Ending
<1>13. CASE DrainConsole
  BY <1>13 DEF DrainConsole, Places, Polling, Ending
<1>14. CASE ShowStatus
  BY <1>14 DEF ShowStatus, Places, Polling, Ending
<1>15. CASE PollRaises
  BY <1>15 DEF PollRaises, Places, Polling, Ending
<1>16. CASE PollPumps
  BY <1>16 DEF PollPumps, PumpReads, Places, Polling, Ending
<1>17. CASE PollSettles
  BY <1>17 DEF PollSettles, Settle, Places, Polling, Ending
<1>18. CASE PollReads
  BY <1>18 DEF PollReads, Places, Polling, Ending
<1>19. CASE PollPlain
  BY <1>19 DEF PollPlain, Places, Polling, Ending
<1>20. CASE Merge
  BY <1>20 DEF Merge, Places, Polling, Ending
<1>21. CASE TrialEnds
  BY <1>21 DEF TrialEnds, Places, Polling, Ending
<1>22. CASE StopPump
  BY <1>22 DEF StopPump, Places, Polling, Ending
<1>23. CASE JoinPump
  BY <1>23 DEF JoinPump, Places, Polling, Ending
<1>24. CASE JoinInterrupted
  BY <1>24 DEF JoinInterrupted, ResetFooterState, RestoreTerminal, Places, Polling, Ending
<1>25. CASE ClearRows
  BY <1>25 DEF ClearRows, ResetFooterState, RestoreTerminal, Places, Polling, Ending
<1>26. CASE PromptVerdict
  BY <1>26 DEF PromptVerdict, Places, Polling, Ending
<1>27. CASE AtExit
  BY <1>27 DEF AtExit, RestoreTerminal, Places, Polling, Ending
<1> QED
  BY <1>0, <1>1, <1>2, <1>3, <1>4, <1>5, <1>6, <1>7, <1>8, <1>9, <1>10, <1>11, <1>12, <1>13,
     <1>14, <1>15, <1>16, <1>17, <1>18, <1>19, <1>20, <1>21, <1>22, <1>23, <1>24, <1>25, <1>26, <1>27 DEF SNext

LEMMA WindowsStep == Places /\ Windows /\ [SNext]_sessionVars => Windows'
<1> SUFFICES ASSUME Places, Windows, [SNext]_sessionVars PROVE Windows'
  OBVIOUS
<1>0. CASE UNCHANGED sessionVars
  BY <1>0 DEF sessionVars, Places, Windows, Polling, Ending
<1>1. ASSUME NEW key \in DOMAIN KeyBytes, Press(key) PROVE Windows'
  BY <1>1 DEF Press, Places, Windows, Polling, Ending
<1>2. CASE TailArrives
  BY <1>2 DEF TailArrives, Places, Windows, Polling, Ending
<1>3. CASE HangUp
  BY <1>3 DEF HangUp, Places, Windows, Polling, Ending
<1>4. CASE GraceElapses
  BY <1>4 DEF GraceElapses, Places, Windows, Polling, Ending
<1>5. CASE PumpWakes
  BY <1>5 DEF PumpWakes, Places, Windows, Polling, Ending
<1>6. CASE PumpPumps
  BY <1>6 DEF PumpPumps, PumpReads, Places, Windows, Polling, Ending
<1>7. CASE PumpSettles
  BY <1>7 DEF PumpSettles, Settle, Places, Windows, Polling, Ending
<1>8. CASE PumpFails
  BY <1>8 DEF PumpFails, Places, Windows, Polling, Ending
<1>9. CASE PumpStops
  BY <1>9 DEF PumpStops, Places, Windows, Polling, Ending
<1>10. CASE Gate
  BY <1>10 DEF Gate, Places, Windows, Polling, Ending
<1>11. CASE StayPlain
  BY <1>11 DEF StayPlain, Places, Windows, Polling, Ending
<1>12. CASE EnterFooter
  <2>1. /\ app = "begin" /\ ~footer /\ ~raw
        /\ ~loose => ~handle /\ pump = "off" /\ ~pumpError
    BY <1>12 DEF EnterFooter, Windows, Polling, Ending
  <2>2. CASE app' = "draining"
    <3>1. /\ footer' /\ raw' /\ pump' = "waiting" /\ handle'
          /\ pumpError' = pumpError /\ loose' = loose
      BY <1>12, <2>2 DEF EnterFooter
    <3> QED BY <2>1, <2>2, <3>1 DEF Windows, Polling, Ending
  <2>3. CASE app' = "ending"
    <3>1. ~raw' /\ ~footer' /\ ~pumpError' /\ handle' = handle /\ loose' = (loose \/ pump' # pump)
      BY <1>12, <2>3 DEF EnterFooter, ResetFooterState
    <3>2. ~loose' => ~loose /\ pump' = pump
      BY <3>1
    <3> QED BY <2>1, <2>3, <3>1, <3>2 DEF Windows, Polling, Ending
  <2> QED BY <1>12, <2>2, <2>3 DEF EnterFooter
<1>13. CASE DrainConsole
  BY <1>13 DEF DrainConsole, Places, Windows, Polling, Ending
<1>14. CASE ShowStatus
  BY <1>14 DEF ShowStatus, Places, Windows, Polling, Ending
<1>15. CASE PollRaises
  BY <1>15 DEF PollRaises, Places, Windows, Polling, Ending
<1>16. CASE PollPumps
  BY <1>16 DEF PollPumps, PumpReads, Places, Windows, Polling, Ending
<1>17. CASE PollSettles
  BY <1>17 DEF PollSettles, Settle, Places, Windows, Polling, Ending
<1>18. CASE PollReads
  BY <1>18 DEF PollReads, Places, Windows, Polling, Ending
<1>19. CASE PollPlain
  BY <1>19 DEF PollPlain, Places, Windows, Polling, Ending
<1>20. CASE Merge
  BY <1>20 DEF Merge, Places, Windows, Polling, Ending
<1>21. CASE TrialEnds
  BY <1>21 DEF TrialEnds, Places, Windows, Polling, Ending
<1>22. CASE StopPump
  BY <1>22 DEF StopPump, Places, Windows, Polling, Ending
<1>23. CASE JoinPump
  BY <1>23 DEF JoinPump, Places, Windows, Polling, Ending
<1>24. CASE JoinInterrupted
  BY <1>24 DEF JoinInterrupted, ResetFooterState, RestoreTerminal, Places, Windows, Polling, Ending
<1>25. CASE ClearRows
  BY <1>25 DEF ClearRows, ResetFooterState, RestoreTerminal, Places, Windows, Polling, Ending
<1>26. CASE PromptVerdict
  BY <1>26 DEF PromptVerdict, Places, Windows, Polling, Ending
<1>27. CASE AtExit
  BY <1>27 DEF AtExit, RestoreTerminal, Places, Windows, Polling, Ending
<1> QED
  BY <1>0, <1>1, <1>2, <1>3, <1>4, <1>5, <1>6, <1>7, <1>8, <1>9, <1>10, <1>11, <1>12, <1>13,
     <1>14, <1>15, <1>16, <1>17, <1>18, <1>19, <1>20, <1>21, <1>22, <1>23, <1>24, <1>25, <1>26, <1>27 DEF SNext

----------------------------------------------------------------------------
\* What is heard.

LEMMA NothingTyped ==
    \A T : EmptyEditor \in Editors(T) /\ <<>> \in Seq(Bytes(T)) /\ <<>> \in Seq(TypedLines(T))
  BY EmptySeq DEF EmptyEditor, Editors

LEMMA BytesOf ==
    ASSUME NEW T \in SUBSET Nat, NEW s \in Seq(Bytes(Nat)), \A i \in 1..Len(s) : s[i].t \in T
    PROVE  s \in Seq(Bytes(T))
<1>1. \A i \in 1..Len(s) : s[i] \in Bytes(Nat)
  BY LenProperties
<1>2. \A i \in 1..Len(s) : s[i] \in Bytes(T)
  BY <1>1 DEF Bytes
<1>3. s \in [1..Len(s) -> Bytes(T)] /\ Len(s) \in Nat
  BY <1>2, LenProperties
<1> HIDE DEF Bytes
<1> QED BY <1>3, SeqDef

\* Bytes that arrive where a line may be heard are tagged with the trial.
LEMMA BytesOfTrial ==
    ASSUME NEW n \in Nat, fd \in Seq(Bytes({n})), fd' \in Seq(Bytes(Nat)),
           \A i \in 1..Len(fd) : fd'[i] = fd[i],
           \A i \in 1..Len(fd') : i \notin 1..Len(fd) => fd'[i].t = n
    PROVE  fd' \in Seq(Bytes({n}))
<1>1. \A i \in 1..Len(fd) : fd[i].t = n
  <2>1. \A i \in 1..Len(fd) : fd[i] \in Bytes({n})
    BY LenProperties
  <2> QED BY <2>1 DEF Bytes
<1>2. \A i \in 1..Len(fd') : fd'[i] \in Bytes(Nat) /\ fd'[i].t = n
  BY <1>1, LenProperties
<1> QED BY <1>2, BytesOf

LEMMA HeardStep == Buffers /\ Switches /\ Places /\ Windows /\ Heard /\ [SNext]_sessionVars => Heard'
<1> SUFFICES ASSUME Buffers, Switches, Places, Windows, Heard, [SNext]_sessionVars PROVE Heard'
  OBVIOUS
<1> DEFINE InWindow == footer /\ app \in Polling
           InPlain == ~footer /\ app \in Polling \ {"draining"} /\ ~consoleEof
           T == {sTrial}
<1>a. /\ InWindow => fd \in Seq(Bytes(T)) /\ editor \in Editors(T) /\ lines \in Seq(TypedLines(T))
      /\ InPlain => fd \in Seq(Bytes(T)) /\ partial \in SUBSET T
      /\ \A line \in heard : line \in SUBSET T
      /\ T \in SUBSET Nat /\ sTrial \in Nat
  BY DEF Heard, HeardInThisTrial, Buffers
<1>b. InWindow \/ InPlain => InTrial /\ Tag = sTrial
  BY DEF InTrial, Tag, Polling
<1>c. InWindow /\ PumpReads => /\ fd' \in Seq(Bytes(T)) /\ editor' \in Editors(T)
                               /\ lines' \in Seq(TypedLines(T))
  <2> SUFFICES ASSUME InWindow, PumpReads
               PROVE  fd' \in Seq(Bytes(T)) /\ editor' \in Editors(T) /\ lines' \in Seq(TypedLines(T))
    OBVIOUS
  <2> DEFINE r == Feed(editor, fd)
  <2>1. r \in Results(T)
    BY <1>a, FeedTyped
  <2>2. r.e \in Editors(T) /\ r.out \in Seq(TypedLines(T))
    BY <2>1 DEF Results
  <2>3. editor' = r.e /\ lines' = lines \o r.out /\ fd' = <<>>
    BY DEF PumpReads
  <2> HIDE DEF r, T, InWindow
  <2>4. lines \o r.out \in Seq(TypedLines(T))
    BY <1>a, <2>2, ConcatProperties
  <2> QED BY <2>2, <2>3, <2>4, NothingTyped
<1>d. InWindow /\ Settle => editor' \in Editors(T) /\ lines' \in Seq(TypedLines(T))
  <2> SUFFICES ASSUME InWindow, Settle PROVE editor' \in Editors(T) /\ lines' \in Seq(TypedLines(T))
    OBVIOUS
  <2>1. [editor EXCEPT !.esc = FALSE] \in Editors(T)
    BY <1>a DEF Editors
  <2>2. Append(lines, END) \in Seq(TypedLines(T))
    BY <1>a, AppendProperties DEF TypedLines
  <2>3. \/ editor' = editor /\ lines' = lines
        \/ editor' = [editor EXCEPT !.esc = FALSE] /\ lines' = Append(lines, END)
    BY DEF Settle
  <2> QED BY <1>a, <2>1, <2>2, <2>3
<1>e. ASSUME app' = app, sTrial' = sTrial, footer' = footer, consoleEof' = consoleEof, heard' = heard,
             editor' = editor, lines' = lines, partial' = partial,
             InWindow \/ InPlain => fd' \in Seq(Bytes(T))
      PROVE  Heard'
  BY <1>a, <1>e DEF Heard, HeardInThisTrial
<1>f. ASSUME app' \notin Polling, sTrial' = sTrial, heard' = heard PROVE Heard'
  BY <1>a, <1>f DEF Heard, HeardInThisTrial
<1>0. CASE UNCHANGED sessionVars
  BY <1>0, <1>a, <1>e DEF sessionVars
<1>1. ASSUME NEW key \in DOMAIN KeyBytes, Press(key) PROVE Heard'
  <2>1. PICK bytes : KeyArrives(key, bytes)
    BY <1>1, PressArrives DEF Buffers
  <2>2. InWindow \/ InPlain => fd' \in Seq(Bytes(T))
    BY <1>a, <1>b, <2>1, BytesOfTrial DEF KeyArrives
  <2> HIDE DEF InWindow, InPlain
  <2> QED BY <1>1, <1>e, <2>2 DEF Press
<1>2. CASE TailArrives
  <2>1. RestArrives
    BY <1>2, TailArrivesKnown DEF Buffers
  <2>2. InWindow \/ InPlain => fd' \in Seq(Bytes(T))
    BY <1>a, <1>b, <2>1, BytesOfTrial DEF RestArrives
  <2> HIDE DEF InWindow, InPlain
  <2> QED BY <1>2, <1>e, <2>2 DEF TailArrives
<1>3. CASE HangUp \/ GraceElapses \/ PumpWakes \/ PumpFails \/ PumpStops \/ ShowStatus
  <2> HIDE DEF InWindow, InPlain, T
  <2> QED BY <1>3, <1>a, <1>e DEF HangUp, GraceElapses, PumpWakes, PumpFails, PumpStops, ShowStatus
<1>4. CASE PumpPumps
  <2>1. /\ PumpReads /\ app' = app /\ sTrial' = sTrial /\ footer' = footer /\ consoleEof' = consoleEof
        /\ heard' = heard /\ partial' = partial /\ fd' = <<>>
    BY <1>4 DEF PumpPumps, PumpReads
  <2> QED BY <1>a, <1>c, <2>1, NothingTyped DEF Heard, HeardInThisTrial
<1>5. CASE PumpSettles
  <2>1. /\ Settle /\ app' = app /\ sTrial' = sTrial /\ footer' = footer /\ consoleEof' = consoleEof
        /\ heard' = heard /\ partial' = partial /\ fd' = fd
    BY <1>5 DEF PumpSettles
  <2> QED BY <1>a, <1>d, <2>1 DEF Heard, HeardInThisTrial
<1>6. CASE StayPlain
  <2>1. app = "begin" /\ app' = "draining" /\ footer' = footer /\ heard' = {}
    BY <1>6 DEF StayPlain
  <2>2. ~footer
    BY <2>1 DEF Windows, Polling, Ending
  <2> QED BY <2>1, <2>2 DEF Heard, HeardInThisTrial
<1>7. CASE EnterFooter
  <2>1. /\ heard' = {} /\ fd' = <<>> /\ editor' = EmptyEditor /\ lines' = <<>>
        /\ \/ app' = "draining" /\ footer'
           \/ app' = "ending"
    BY <1>7 DEF EnterFooter, ResetFooterState
  <2> QED BY <2>1, NothingTyped DEF Heard, HeardInThisTrial, Polling
<1>8. CASE DrainConsole
  <2>1. /\ app = "draining" /\ app' = "trial" /\ sTrial' = sTrial /\ footer' = footer /\ heard' = heard
        /\ editor' = editor
        /\ lines' = (IF footer /\ ~consoleEof THEN <<>> ELSE lines)
        /\ fd' = (IF ~footer /\ ~consoleEof THEN <<>> ELSE fd)
        /\ partial' = (IF consoleEof THEN partial ELSE {})
        /\ consoleEof' = (consoleEof \/ IF footer THEN pumpEof ELSE hup)
    BY <1>8 DEF DrainConsole
  <2>2. app \in Polling
    BY <2>1 DEF Polling
  <2>3. CASE footer
    BY <1>a, <2>1, <2>2, <2>3, NothingTyped DEF Heard, HeardInThisTrial
  <2>4. CASE ~footer /\ consoleEof
    BY <1>a, <2>1, <2>4 DEF Heard, HeardInThisTrial
  <2>5. CASE ~footer /\ ~consoleEof
    BY <1>a, <2>1, <2>5, NothingTyped DEF Heard, HeardInThisTrial
  <2> QED BY <2>3, <2>4, <2>5
<1>9. CASE PollPumps
  <2>1. /\ PumpReads /\ app = "trial" /\ app' = "settling" /\ sTrial' = sTrial /\ footer /\ footer' = footer
        /\ heard' = heard
    BY <1>9 DEF PollPumps
  <2>2. InWindow
    BY <2>1 DEF Polling
  <2> QED BY <1>a, <1>c, <2>1, <2>2 DEF Heard, HeardInThisTrial
<1>10. CASE PollSettles
  <2>1. /\ Settle /\ app = "settling" /\ app' = "reading" /\ sTrial' = sTrial /\ footer' = footer
        /\ heard' = heard /\ fd' = fd
    BY <1>10 DEF PollSettles
  <2>2. InWindow
    BY <2>1 DEF Windows, Polling
  <2> QED BY <1>a, <1>d, <2>1, <2>2 DEF Heard, HeardInThisTrial
<1>11. CASE PollReads
  <2>1. /\ app = "reading" /\ sTrial' = sTrial /\ footer' = footer /\ fd' = fd /\ editor' = editor
        /\ \/ heard' = heard /\ lines' = lines
           \/ heard' = heard \cup Messages(lines) /\ lines' = <<>>
    BY <1>11 DEF PollReads
  <2>2. InWindow
    BY <2>1 DEF Windows, Polling
  <2>3. Messages(lines) \in SUBSET SUBSET T
    BY <1>a, <2>2, MessagesKnown
  <2>4. \A line \in heard' : line \in SUBSET T
    BY <1>a, <2>1, <2>3
  <2>5. lines' \in Seq(TypedLines(T))
    BY <1>a, <2>1, <2>2, NothingTyped
  <2> QED BY <1>a, <2>1, <2>2, <2>4, <2>5 DEF Heard, HeardInThisTrial
<1>12. CASE PollPlain
  <2> DEFINE r == ReadPlain(partial, fd)
  <2>1. /\ app = "trial" /\ app' = "merging" /\ sTrial' = sTrial /\ ~footer /\ footer' = footer
        /\ IF consoleEof THEN UNCHANGED <<fd, partial, heard, consoleEof>>
           ELSE /\ fd' = <<>> /\ heard' = heard \cup Messages(r.out)
                /\ consoleEof' = hup /\ partial' = IF hup THEN {} ELSE r.line
    BY <1>12 DEF PollPlain
  <2>2. CASE consoleEof
    BY <1>a, <2>1, <2>2 DEF Heard, HeardInThisTrial
  <2>3. CASE ~consoleEof
    <3>1. InPlain
      BY <2>1, <2>3 DEF Polling
    <3>2. r \in PlainResults(T)
      BY <1>a, <3>1, ReadPlainTyped
    <3>3. r.line \in SUBSET T /\ r.out \in Seq(SUBSET T)
      BY <3>2 DEF PlainResults
    <3> HIDE DEF r, T
    <3>4. Messages(r.out) \in SUBSET SUBSET T
      BY <1>a, <3>3, MessagesKnown
    <3> USE DEF T
    <3>5. \A line \in heard' : line \in SUBSET T
      BY <1>a, <2>1, <2>3, <3>4
    <3>6. partial' \in SUBSET T /\ fd' \in Seq(Bytes(T))
      BY <2>1, <2>3, <3>3, NothingTyped
    <3> QED BY <2>1, <3>5, <3>6 DEF Heard, HeardInThisTrial
  <2> QED BY <2>2, <2>3
<1>13. CASE Merge
  <2>1. /\ app \in {"merging", "ended"} /\ app' \in {"ending", "trial"}
        /\ UNCHANGED <<sTrial, footer, fd, editor, lines, heard, partial, consoleEof>>
    BY <1>13 DEF Merge
  <2> QED BY <1>a, <2>1 DEF Heard, HeardInThisTrial, Polling
<1>14. CASE Gate \/ PollRaises \/ TrialEnds \/ StopPump \/ JoinPump \/ JoinInterrupted \/ ClearRows \/ PromptVerdict \/ AtExit
  <2>1. sTrial' = sTrial /\ heard' = heard
    BY <1>14 DEF Gate, PollRaises, TrialEnds, StopPump, JoinPump, JoinInterrupted, ClearRows, PromptVerdict, AtExit
  <2>2. app' \notin Polling
    BY <1>14 DEF Gate, PollRaises, TrialEnds, StopPump, JoinPump, JoinInterrupted, ClearRows, PromptVerdict, AtExit, Polling
  <2> QED BY <1>f, <2>1, <2>2
<1> QED
  BY <1>0, <1>1, <1>2, <1>3, <1>4, <1>5, <1>6, <1>7, <1>8, <1>9, <1>10, <1>11, <1>12, <1>13, <1>14 DEF SNext

----------------------------------------------------------------------------
\* The grace of an Esc.

LEMMA GraceStep == Buffers /\ Switches /\ Places /\ Windows /\ Grace /\ [SNext]_sessionVars => Grace'
<1> SUFFICES ASSUME Buffers, Switches, Places, Windows, Grace, [SNext]_sessionVars PROVE Grace'
  OBVIOUS
<1> DEFINE Hushed == fd = <<>> /\ tail = <<>>
<1>a. /\ Reader /\ ~(Unsettled /\ fed) /\ stamp # "none" => editor.esc
      /\ ~loose /\ Reader /\ ~Unsettled /\ stamp = "elapsed" /\ fd = <<>> => tail = <<>>
      /\ ~loose /\ Unsettled /\ ~fed /\ stamp = "elapsed" =>
           IF fd = <<>> THEN tail = <<>> ELSE fd[1].k # "["
      /\ ~loose /\ ~footer => editor = EmptyEditor /\ stamp = "none"
  BY DEF Grace
<1>b. ~loose /\ pump # "off" => footer
  BY DEF Windows
<1>c. lock = "free" => ~Unsettled
  BY DEF Places, Unsettled
<1>d. fed \in BOOLEAN /\ pumpEof \in BOOLEAN /\ hup \in BOOLEAN
  BY DEF Switches
\* Nothing of the editor and of what is on its way changes.
<1>e. ASSUME UNCHANGED <<fd, tail, editor, stamp, fed, loose>>, footer => footer',
             Reader' => Reader, Unsettled' <=> Unsettled
      PROVE  Grace'
  BY <1>a, <1>e DEF Grace, EmptyEditor
<1>0. CASE UNCHANGED sessionVars
  <2>1. UNCHANGED <<fd, tail, editor, stamp, fed, loose, footer, pump, pumpError, app>>
    BY <1>0 DEF sessionVars
  <2> QED BY <1>e, <2>1 DEF Reader, Unsettled
<1>1. ASSUME NEW key \in DOMAIN KeyBytes, Press(key) PROVE Grace'
  <2>1. PICK bytes : KeyArrives(key, bytes)
    BY <1>1, PressArrives DEF Buffers
  <2>2. UNCHANGED <<editor, stamp, fed, loose, footer, pump, pumpError, app>>
    BY <1>1 DEF Press
  <2>3. fd' # <<>> /\ fd \in Seq(Bytes(Nat))
    BY <2>1 DEF KeyArrives, Buffers
  <2>4. fd # <<>> => fd'[1] = fd[1]
    <3>1. fd # <<>> => 1 \in 1..Len(fd)
      BY <2>3
    <3> QED BY <2>1, <3>1 DEF KeyArrives
  <2>5. fd = <<>> => fd'[1].k # "["
    BY <2>1 DEF KeyArrives
  <2>6. (Reader' <=> Reader) /\ (Unsettled' <=> Unsettled)
    BY <2>2 DEF Reader, Unsettled
  <2> QED BY <1>a, <2>2, <2>3, <2>4, <2>5, <2>6 DEF Grace, EmptyEditor
<1>2. CASE TailArrives
  <2>1. RestArrives
    BY <1>2, TailArrivesKnown DEF Buffers
  <2>2. UNCHANGED <<editor, stamp, fed, loose, footer, pump, pumpError, app>> /\ tail # <<>>
    BY <1>2 DEF TailArrives
  <2>3. fd \in Seq(Bytes(Nat)) /\ tail \in Seq(Bytes(Nat)) /\ fd' \in Seq(Bytes(Nat))
    BY <2>1 DEF RestArrives, Buffers
  <2>4. fd # <<>> => fd'[1] = fd[1]
    <3>1. fd # <<>> => 1 \in 1..Len(fd)
      BY <2>3
    <3> QED BY <2>1, <3>1 DEF RestArrives
  <2>5. fd' # <<>>
    <3>1. Len(tail) > 0 /\ Len(fd) >= 0 /\ Len(fd) \in Nat /\ Len(tail) \in Nat
      BY <2>2, <2>3
    <3>2. Len(fd') # 0
      BY <2>1, <3>1 DEF RestArrives
    <3> QED BY <3>2
  <2>6. (Reader' <=> Reader) /\ (Unsettled' <=> Unsettled)
    BY <2>2 DEF Reader, Unsettled
  <2> QED BY <1>a, <2>2, <2>4, <2>5, <2>6 DEF Grace, EmptyEditor
<1>3. CASE GraceElapses
  <2>1. /\ UNCHANGED <<fd, tail, editor, fed, loose, footer, pump, pumpError, app>>
        /\ tail = <<>> /\ stamp = "armed" /\ ~Unsettled
    BY <1>3, <1>c DEF GraceElapses
  <2>2. (Reader' <=> Reader) /\ (Unsettled' <=> Unsettled)
    BY <2>1 DEF Reader, Unsettled
  <2> QED BY <1>a, <2>1, <2>2 DEF Grace
<1>4. CASE HangUp \/ PumpWakes \/ PumpFails \/ PumpStops
  <2>1. UNCHANGED <<fd, tail, editor, stamp, loose, footer, app, fed>>
    BY <1>4 DEF HangUp, PumpWakes, PumpFails, PumpStops
  <2>2. CASE HangUp \/ PumpWakes \/ PumpStops
    <3>1. (Reader' => Reader) /\ (Unsettled' <=> Unsettled)
      BY <2>2 DEF HangUp, PumpWakes, PumpStops, Reader, Unsettled
    <3> QED BY <1>e, <2>1, <3>1
  <2>3. CASE PumpFails
    <3>1. pump = "pumping" /\ app # "settling"
      BY <2>3 DEF PumpFails, Places
    <3>2. ~Reader' /\ ~Unsettled'
      BY <2>1, <2>3, <3>1 DEF PumpFails, Reader, Unsettled
    <3> QED BY <1>a, <2>1, <3>2 DEF Grace, EmptyEditor
  <2> QED BY <1>4, <2>2, <2>3
<1>5. CASE PumpPumps \/ PollPumps
  <2>1. /\ PumpReads /\ ~Unsettled /\ Reader /\ Unsettled'
        /\ UNCHANGED <<tail, stamp, loose, footer>> /\ (~loose => footer)
    BY <1>5, <1>b, <1>c DEF PumpPumps, PollPumps, Reader, Unsettled, Polling
  <2>2. fd' = <<>> /\ (fed' <=> fd # <<>>) /\ editor' = Feed(editor, fd).e
    BY <2>1 DEF PumpReads
  <2>3. fd = <<>> => editor' = editor
    BY <2>2, FeedTyped DEF Buffers
  <2> QED BY <1>a, <2>1, <2>2, <2>3 DEF Grace
<1>6. CASE PumpSettles \/ PollSettles
  <2>1. Settle /\ Unsettled /\ ~Unsettled' /\ (Reader' => Reader) /\ UNCHANGED <<fd, tail, loose, footer, fed>>
        /\ (~loose => footer)
    <3>1. CASE PumpSettles
      BY <3>1, <1>b DEF PumpSettles, Places, Reader, Unsettled
    <3>2. CASE PollSettles
      <4>1. footer
        BY <3>2 DEF PollSettles, Windows
      <4> QED BY <3>2, <4>1 DEF PollSettles, Places, Reader, Unsettled, Polling
    <3> QED BY <1>6, <3>1, <3>2
  <2>2. CASE fed
    <3>1. stamp' = (IF editor.esc THEN "armed" ELSE "none") /\ editor' = editor
      BY <2>1, <2>2 DEF Settle
    <3> QED BY <2>1, <3>1 DEF Grace
  <2>3. CASE ~fed /\ stamp = "elapsed" /\ ~pumpEof
    <3>1. stamp' = "none"
      BY <2>1, <2>3 DEF Settle
    <3> QED BY <2>1, <3>1 DEF Grace
  <2>4. CASE ~fed /\ ~(stamp = "elapsed" /\ ~pumpEof)
    <3>1. stamp' = stamp /\ editor' = editor
      BY <2>1, <2>4 DEF Settle
    <3> QED BY <1>a, <2>1, <2>4, <3>1 DEF Grace
  <2> QED BY <2>2, <2>3, <2>4
<1>7. CASE Gate \/ PromptVerdict
  <2>1. /\ app \in {"gate", "judge"} /\ ~footer /\ app' \notin Polling /\ app' # "settling"
        /\ UNCHANGED <<editor, stamp, fed, loose, footer, pump>>
    BY <1>7 DEF Gate, PromptVerdict, Windows, Polling, Ending
  <2>2. (Reader' => Reader) /\ (Unsettled' => Unsettled) /\ (Unsettled => Unsettled')
    BY <2>1 DEF Reader, Unsettled
  <2> QED BY <1>a, <1>b, <2>1, <2>2 DEF Grace, Reader, Unsettled, EmptyEditor
<1>8. CASE StayPlain
  <2>1. app = "begin" /\ app' = "draining" /\ UNCHANGED <<fd, tail, editor, stamp, fed, loose, footer, pump, pumpError>>
    BY <1>8 DEF StayPlain
  <2>2. ~footer
    BY <2>1 DEF Windows, Polling, Ending
  <2>3. (Reader' => Reader) /\ (Unsettled' <=> Unsettled)
    BY <2>1, <2>2 DEF Reader, Unsettled
  <2> QED BY <1>e, <2>1, <2>3
<1>9. CASE EnterFooter \/ JoinInterrupted
  <2>1. editor' = EmptyEditor /\ stamp' = "none"
    BY <1>9 DEF EnterFooter, JoinInterrupted, ResetFooterState
  <2> QED BY <2>1 DEF Grace, EmptyEditor
<1>10. CASE DrainConsole \/ PollPlain
  <2>1. /\ app \in {"draining", "trial"} /\ app' \in {"trial", "merging"} /\ ~Unsettled /\ ~Unsettled'
        /\ UNCHANGED <<tail, editor, stamp, fed, loose, footer, pump, pumpError>>
        /\ fd' = fd \/ ~footer
    BY <1>10, <1>c DEF DrainConsole, PollPlain, Unsettled
  <2>2. Reader' => Reader
    BY <2>1 DEF Reader, Polling
  <2> QED BY <1>a, <2>1, <2>2 DEF Grace, EmptyEditor
<1>11. CASE ShowStatus \/ PollReads \/ Merge \/ TrialEnds \/ StopPump \/ JoinPump \/ AtExit
  <2>1. UNCHANGED <<fd, tail, editor, stamp, fed, loose, footer, pump, pumpError>>
    BY <1>11 DEF ShowStatus, PollReads, Merge, TrialEnds, StopPump, JoinPump, AtExit
  <2>2. app' \in Polling => app \in Polling
    BY <1>11 DEF ShowStatus, PollReads, Merge, TrialEnds, StopPump, JoinPump, AtExit, Polling
  <2>3. app # "settling" /\ app' # "settling"
    BY <1>11 DEF ShowStatus, PollReads, Merge, TrialEnds, StopPump, JoinPump, AtExit
  <2>4. (Reader' => Reader) /\ (Unsettled' <=> Unsettled)
    BY <2>1, <2>2, <2>3 DEF Reader, Unsettled
  <2> QED BY <1>e, <2>1, <2>4
<1>12. CASE PollRaises
  <2>1. /\ UNCHANGED <<fd, tail, editor, stamp, fed, loose, footer, pump>>
        /\ app = "trial" /\ app' = "ending"
    BY <1>12 DEF PollRaises
  <2>2. (Reader' => Reader) /\ (Unsettled' <=> Unsettled)
    BY <2>1 DEF Reader, Unsettled, Polling
  <2> QED BY <1>e, <2>1, <2>2
<1>13. CASE ClearRows
  <2>1. /\ \/ editor' = EmptyEditor /\ stamp' = "none"
           \/ UNCHANGED <<fd, tail, editor, stamp, fed, loose, footer, pump, pumpError>>
        /\ app = "clearing" /\ app' \in {"judge", "exiting"}
    BY <1>13 DEF ClearRows, ResetFooterState
  <2>2. CASE editor' = EmptyEditor /\ stamp' = "none"
    BY <2>2 DEF Grace, EmptyEditor
  <2>3. CASE UNCHANGED <<fd, tail, editor, stamp, fed, loose, footer, pump, pumpError>>
    <3>1. (Reader' => Reader) /\ (Unsettled' <=> Unsettled)
      BY <2>1, <2>3 DEF Reader, Unsettled, Polling
    <3> QED BY <1>e, <2>3, <3>1
  <2> QED BY <2>1, <2>2, <2>3
<1> QED
  BY <1>0, <1>1, <1>2, <1>3, <1>4, <1>5, <1>6, <1>7, <1>8, <1>9, <1>10, <1>11, <1>12, <1>13 DEF SNext

----------------------------------------------------------------------------
\* The ends the editor asks for.

LEMMA EscapesFinite ==
    ASSUME NEW skip, NEW s \in Seq(Bytes(Nat))
    PROVE  IsFiniteSet(Escapes(skip, s, 0)) /\ Cardinality(Escapes(skip, s, 0)) \in Nat
<1>1. IsFiniteSet(1..Len(s)) /\ Escapes(skip, s, 0) \in SUBSET (1..Len(s))
  BY LenProperties, FS_Interval DEF Escapes
<1> QED BY <1>1, FS_Subset, FS_CardinalityType

LEMMA OwingTyped ==
    ASSUME NEW skip, NEW e, NEW s \in Seq(Bytes(Nat))
    PROVE  /\ Owing(skip, e, s, 0) \in Nat
           /\ Owing(skip, EmptyEditor, s, 0) = Cardinality(Escapes(skip, s, 0))
           /\ Owing(skip, EmptyEditor, s, 0) <= Owing(skip, e, s, 0)
<1>1. Cardinality(Escapes(skip, s, 0)) \in Nat
  BY EscapesFinite
<1>2. Held(skip, e, s, 0) \in {0, 1} /\ Held(skip, EmptyEditor, s, 0) = 0
  BY DEF Held, EmptyEditor
<1> QED BY <1>1, <1>2 DEF Owing

\* Bytes that are flushed are owed nothing.
LEMMA FlushOwes ==
    ASSUME NEW skip \in BOOLEAN, NEW e \in Editors(Nat), NEW s \in Seq(Bytes(Nat)), NEW rest \in Seq(Bytes(Nat))
    PROVE  /\ Owing(skip, EmptyEditor, rest, 0) <= Owing(skip, e, s \o rest, 0)
           /\ Owing(FALSE, e, rest, 0) <= Owing(FALSE, e, s \o rest, 0)
<1>1. s \o rest \in Seq(Bytes(Nat))
  BY ConcatProperties
<1>2. ASSUME NEW k \in BOOLEAN
      PROVE  Owing(k, EmptyEditor, rest, 0) <= Owing(k, EmptyEditor, s \o rest, 0)
  <2> DEFINE r == Feed(EmptyEditor, s)
  <2>1. EndsIn(r.out) \in Nat /\ EndsIn(r.out) + Owing(k, r.e, rest, 0) <= Owing(k, EmptyEditor, s \o rest, 0)
    BY EmptyKnown, FeedOwes
  <2>2. /\ Owing(k, EmptyEditor, rest, 0) <= Owing(k, r.e, rest, 0)
        /\ Owing(k, EmptyEditor, rest, 0) \in Nat /\ Owing(k, r.e, rest, 0) \in Nat
        /\ Owing(k, EmptyEditor, s \o rest, 0) \in Nat
    BY <1>1, OwingTyped
  <2> HIDE DEF r
  <2> QED BY <2>1, <2>2
<1>3. Owing(skip, EmptyEditor, rest, 0) <= Owing(skip, e, s \o rest, 0)
  <2>1. Owing(skip, EmptyEditor, s \o rest, 0) <= Owing(skip, e, s \o rest, 0)
    BY <1>1, OwingTyped
  <2>2. Owing(skip, EmptyEditor, rest, 0) \in Nat /\ Owing(skip, EmptyEditor, s \o rest, 0) \in Nat
        /\ Owing(skip, e, s \o rest, 0) \in Nat
    BY <1>1, OwingTyped
  <2> QED BY <1>2, <2>1, <2>2
<1>4. Owing(FALSE, e, rest, 0) <= Owing(FALSE, e, s \o rest, 0)
  <2>1. Cardinality(Escapes(FALSE, rest, 0)) <= Cardinality(Escapes(FALSE, s \o rest, 0))
    BY <1>1, <1>2, OwingTyped
  <2>2. Cardinality(Escapes(FALSE, rest, 0)) \in Nat /\ Cardinality(Escapes(FALSE, s \o rest, 0)) \in Nat
    BY <1>1, EscapesFinite
  <2>3. Held(FALSE, e, rest, 0) = Held(FALSE, e, s \o rest, 0) /\ Held(FALSE, e, rest, 0) \in {0, 1}
    BY DEF Held
  <2> DEFINE a == Cardinality(Escapes(FALSE, rest, 0))
             b == Cardinality(Escapes(FALSE, s \o rest, 0))
             h == Held(FALSE, e, rest, 0)
  <2>4. Owing(FALSE, e, rest, 0) = a + h /\ Owing(FALSE, e, s \o rest, 0) = b + h
    BY <2>3 DEF Owing
  <2>5. a \in Nat /\ b \in Nat /\ h \in {0, 1} /\ a <= b
    BY <2>1, <2>2, <2>3
  <2> HIDE DEF a, b, h
  <2>6. a + h <= b + h
    BY <2>5
  <2> QED BY <2>4, <2>6
<1> QED BY <1>3, <1>4

\* A key adds at most one, and an arrow key none.
LEMMA KeyOwes ==
    ASSUME NEW skip \in BOOLEAN, NEW e, NEW key, NEW bytes,
           fd \in Seq(Bytes(Nat)), KeyArrives(key, bytes)
    PROVE  Owing(skip, e, fd \o bytes, 0)
             <= Owing(skip, e, fd, 0) + (IF skip /\ key # "Esc" THEN 0 ELSE 1)
<1> DEFINE s == fd \o bytes
           n == Len(fd)
           A == Escapes(skip, fd, 0)
           B == Escapes(skip, s, 0)
<1>1. /\ bytes \in Seq(Bytes(Nat)) /\ Len(bytes) >= 1 /\ bytes[1].k # "["
      /\ \A j \in 1..Len(bytes) :
           bytes[j].k = "esc" => j = 1 /\ (key # "Esc" => 1 < Len(bytes) /\ bytes[2].k = "[")
  BY DEF KeyArrives
<1>2. /\ n \in Nat /\ Len(bytes) \in Nat /\ Len(s) = n + Len(bytes) /\ s \in Seq(Bytes(Nat))
      /\ \A i \in 1..n : s[i] = fd[i]
      /\ \A i \in 1..Len(bytes) : s[n + i] = bytes[i]
  BY <1>1, LenProperties, ConcatProperties
<1> HIDE DEF s
<1>3. s[n + 1].k # "["
  BY <1>1, <1>2
<1>4. ASSUME NEW j \in 1..n, j \in B PROVE j \in A
  <2>1. j < n => s[j + 1] = fd[j + 1] /\ j < Len(s)
    BY <1>2
  <2>2. s[j].k = "esc" /\ ~(skip /\ j < Len(s) /\ s[j + 1].k = "[") /\ s[j] = fd[j]
    BY <1>2, <1>4 DEF Escapes
  <2>3. fd[j].k = "esc" /\ ~(skip /\ j < n /\ fd[j + 1].k = "[")
    BY <2>1, <2>2
  <2> QED BY <1>2, <2>3 DEF Escapes
<1>5. ASSUME NEW j \in B, j \notin 1..n
      PROVE  j = n + 1 /\ ~(skip /\ key # "Esc")
  <2>1. PICK m \in 1..Len(bytes) : j = n + m
    <3>1. j - n \in 1..Len(bytes) /\ j = n + (j - n)
      BY <1>2, <1>5 DEF Escapes
    <3> QED BY <3>1
  <2>2. bytes[m].k = "esc" /\ ~(skip /\ j < Len(s) /\ s[j + 1].k = "[")
    BY <1>2, <2>1 DEF Escapes
  <2>3. m = 1 /\ (key # "Esc" => 1 < Len(bytes) /\ bytes[2].k = "[")
    BY <1>1, <2>2
  <2>4. key # "Esc" => j < Len(s) /\ s[j + 1].k = "["
    <3> SUFFICES ASSUME key # "Esc" PROVE j < Len(s) /\ s[j + 1].k = "["
      OBVIOUS
    <3>1. 2 \in 1..Len(bytes) /\ j + 1 = n + 2 /\ j < Len(s)
      BY <1>2, <2>1, <2>3
    <3> QED BY <1>2, <2>3, <3>1
  <2> QED BY <2>1, <2>2, <2>3, <2>4
<1>6. B \subseteq IF skip /\ key # "Esc" THEN A ELSE A \cup {n + 1}
  <2> HIDE DEF A, B, n
  <2> QED BY <1>4, <1>5
<1>7. IsFiniteSet(A) /\ Cardinality(A) \in Nat /\ IsFiniteSet(B) /\ Cardinality(B) \in Nat
  BY <1>2, EscapesFinite
<1>11. n + 1 \notin A
  BY <1>2 DEF Escapes
<1>8. Cardinality(B) <= Cardinality(A) + (IF skip /\ key # "Esc" THEN 0 ELSE 1)
  <2> HIDE DEF A, B, n
  <2>1. CASE skip /\ key # "Esc"
    <3>1. B \in SUBSET A
      BY <1>6, <2>1
    <3> QED BY <1>7, <2>1, <3>1, FS_Subset
  <2>2. CASE ~(skip /\ key # "Esc")
    <3>1. B \in SUBSET (A \cup {n + 1})
      BY <1>6, <2>2
    <3> DEFINE m == n + 1
    <3>2. IsFiniteSet(A \cup {m}) /\ Cardinality(A \cup {m}) = Cardinality(A) + 1
      <4>1. m \notin A
        BY <1>11
      <4> HIDE DEF m
      <4> QED BY <1>7, <4>1, FS_AddElement
    <3>3. Cardinality(B) <= Cardinality(A \cup {n + 1})
      BY <3>1, <3>2, FS_Subset
    <3> QED BY <1>7, <2>2, <3>2, <3>3
  <2> QED BY <2>1, <2>2
<1>9. /\ Held(skip, e, s, 0) <= Held(skip, e, fd, 0)
      /\ Held(skip, e, s, 0) \in Nat /\ Held(skip, e, fd, 0) \in Nat
  BY <1>2, <1>3 DEF Held
<1> HIDE DEF A, B
<1>10. /\ Owing(skip, e, s, 0) = Cardinality(B) + Held(skip, e, s, 0)
       /\ Owing(skip, e, fd, 0) = Cardinality(A) + Held(skip, e, fd, 0)
  BY DEF Owing, A, B
<1> QED BY <1>7, <1>8, <1>9, <1>10 DEF s

\* New tags change nothing.
LEMMA TagsOwe ==
    ASSUME NEW skip \in BOOLEAN, NEW e, NEW s \in Seq(Bytes(Nat)), NEW t \in Seq(Bytes(Nat)), Len(s) = Len(t),
           \A i \in 1..Len(s) : s[i].k = t[i].k
    PROVE  Owing(skip, e, s, 0) = Owing(skip, e, t, 0)
<1>1. Len(t) \in Nat
  BY LenProperties
<1>2. Escapes(skip, s, 0) = Escapes(skip, t, 0)
  <2>1. \A j \in 1..Len(t) : j < Len(t) => s[j + 1].k = t[j + 1].k
    BY <1>1
  <2> QED BY <1>1, <2>1 DEF Escapes
<1>3. Held(skip, e, s, 0) = Held(skip, e, t, 0)
  BY <1>1 DEF Held
<1> QED BY <1>2, <1>3 DEF Owing

LEMMA ReadOwes ==
    ASSUME Buffers, PumpReads, UNCHANGED tail, NEW skip \in BOOLEAN
    PROVE  Owed(skip)' <= Owed(skip)
<1> DEFINE r == Feed(editor, fd)
<1>1. /\ fd \in Seq(Bytes(Nat)) /\ tail \in Seq(Bytes(Nat)) /\ editor \in Editors(Nat)
      /\ lines \in Seq(TypedLines(Nat)) /\ ends \in Nat
  BY DEF Buffers
<1>2. editor' = r.e /\ ends' = ends + EndsIn(r.out) /\ fd' = <<>> /\ tail' = tail
  BY DEF PumpReads
<1>3. /\ EndsIn(r.out) \in Nat
      /\ EndsIn(r.out) + Owing(skip, r.e, tail, 0) <= Owing(skip, editor, fd \o tail, 0)
  BY <1>1, FeedOwes
<1>4. Owing(skip, r.e, tail, 0) \in Nat /\ Owing(skip, editor, fd \o tail, 0) \in Nat
  BY <1>1, OwingTyped, ConcatProperties
<1>5. Stream = fd \o tail /\ Stream' = tail
  BY <1>1, <1>2, EmptySeq DEF Stream
<1> HIDE DEF r
<1>6. /\ Owed(skip) = ends + Owing(skip, editor, fd \o tail, 0)
      /\ Owed(skip)' = (ends + EndsIn(r.out)) + Owing(skip, r.e, tail, 0)
  BY <1>2, <1>5 DEF Owed
<1> QED BY <1>1, <1>3, <1>4, <1>6

\* An elapsed grace: the Esc that the editor holds is spent on the end.
LEMMA SettleOwes ==
    ASSUME Buffers, Switches, Grace, Settle, Reader, Unsettled, UNCHANGED <<fd, tail>>, NEW skip \in BOOLEAN,
           skip => ~loose
    PROVE  Owed(skip)' <= Owed(skip)
<1>1. /\ fd \in Seq(Bytes(Nat)) /\ tail \in Seq(Bytes(Nat)) /\ editor \in Editors(Nat) /\ ends \in Nat
      /\ Stream' = Stream /\ Stream = fd \o tail /\ Stream \in Seq(Bytes(Nat))
  BY ConcatProperties DEF Buffers, Stream
<1> DEFINE c == Cardinality(Escapes(skip, Stream, 0))
<1>2. c \in Nat
  BY <1>1, EscapesFinite
<1>3. /\ Owed(skip) = ends + (c + Held(skip, editor, Stream, 0))
      /\ Owed(skip)' = ends' + (c + Held(skip, editor', Stream, 0))
  BY <1>1 DEF Owed, Owing
<1> HIDE DEF c
<1>4. CASE editor' = editor /\ ends' = ends
  <2>1. Held(skip, editor, Stream, 0) \in Nat
    BY DEF Held
  <2> QED BY <1>1, <1>2, <1>3, <1>4, <2>1
<1>5. CASE ~fed /\ stamp = "elapsed" /\ editor' = [editor EXCEPT !.esc = FALSE] /\ ends' = ends + 1
  <2>1. editor.esc
    BY <1>5 DEF Grace
  <2>2. skip => fd \o tail = <<>> \/ (fd # <<>> /\ fd[1].k # "[")
    <3>1. skip => IF fd = <<>> THEN tail = <<>> ELSE fd[1].k # "["
      BY <1>5 DEF Grace
    <3>2. fd = <<>> /\ tail = <<>> => fd \o tail = <<>>
      BY <1>1
    <3> QED BY <3>1, <3>2
  <2>3. fd # <<>> => Stream[1] = fd[1]
    <3>1. fd # <<>> => 1 \in 1..Len(fd)
      BY <1>1
    <3>2. fd # <<>> => (fd \o tail)[1] = fd[1]
      BY <1>1, <3>1, ConcatProperties
    <3> QED BY <1>1, <3>2
  <2>4. ~(skip /\ 0 < Len(Stream) /\ Stream[0 + 1].k = "[")
    <3>1. Stream = <<>> => Len(Stream) = 0
      OBVIOUS
    <3> QED BY <1>1, <2>2, <2>3, <3>1
  <2>5. Held(skip, editor, Stream, 0) = 1
    BY <2>1, <2>4 DEF Held
  <2>6. Held(skip, editor', Stream, 0) = 0
    <3>1. editor'.esc = FALSE
      BY <1>1, <1>5 DEF Editors
    <3> QED BY <3>1 DEF Held
  <2> QED BY <1>1, <1>2, <1>3, <1>5, <2>5, <2>6
<1>6. \/ editor' = editor /\ ends' = ends
      \/ ~fed /\ stamp = "elapsed" /\ editor' = [editor EXCEPT !.esc = FALSE] /\ ends' = ends + 1
  BY DEF Settle
<1> QED BY <1>4, <1>5, <1>6

\* Where input is flushed, or the editor starts anew, less is owed.
LEMMA ResetOwes ==
    ASSUME Buffers, NEW skip \in BOOLEAN, UNCHANGED <<tail, ends>>,
           fd' = fd \/ fd' = <<>>,
           editor' = EmptyEditor \/ (editor' = editor /\ (skip /\ fd' # fd => editor = EmptyEditor))
    PROVE  Owed(skip)' <= Owed(skip)
<1>1. /\ fd \in Seq(Bytes(Nat)) /\ tail \in Seq(Bytes(Nat)) /\ editor \in Editors(Nat) /\ ends \in Nat
      /\ Stream = fd \o tail /\ fd \o tail \in Seq(Bytes(Nat))
  BY ConcatProperties DEF Buffers, Stream
<1>2. Owed(skip) = ends + Owing(skip, editor, fd \o tail, 0) /\ Owed(skip)' = ends + Owing(skip, editor', Stream', 0)
  BY <1>1 DEF Owed
<1>3. Stream' = fd \o tail \/ (fd' # fd /\ Stream' = tail)
  BY <1>1, EmptySeq DEF Stream
<1>4. Stream' \in Seq(Bytes(Nat))
  BY <1>1, <1>3
<1>5. Owing(skip, editor, fd \o tail, 0) \in Nat /\ Owing(skip, editor', Stream', 0) \in Nat
  BY <1>1, <1>4, OwingTyped
<1>6. Owing(skip, editor', Stream', 0) <= Owing(skip, editor, fd \o tail, 0)
  <2>1. CASE Stream' = fd \o tail /\ editor' = EmptyEditor
    BY <1>1, <2>1, OwingTyped
  <2>2. CASE Stream' = fd \o tail /\ editor' = editor
    BY <1>5, <2>2
  <2>3. CASE Stream' = tail /\ editor' = EmptyEditor
    BY <1>1, <2>3, FlushOwes
  <2>4. CASE fd' # fd /\ Stream' = tail /\ editor' = editor
    <3>1. CASE skip /\ editor = EmptyEditor
      BY <1>1, <2>4, <3>1, FlushOwes
    <3>2. CASE skip = FALSE
      BY <1>1, <2>4, <3>2, FlushOwes
    <3>3. skip => skip = TRUE
      OBVIOUS
    <3> QED BY <2>4, <3>1, <3>2
  <2> QED BY <1>3, <2>1, <2>2, <2>3, <2>4
<1> QED BY <1>1, <1>2, <1>5, <1>6

LEMMA AskedStep ==
    Buffers /\ Buffers' /\ Switches /\ Places /\ Windows /\ Grace /\ Asked /\ [SNext]_sessionVars => Asked'
<1> SUFFICES ASSUME Buffers, Buffers', Switches, Places, Windows, Grace, Asked, [SNext]_sessionVars
             PROVE  Asked'
  OBVIOUS
<1>a. /\ AnyOwed \in Nat /\ EscOwed \in Nat /\ AnyOwed' \in Nat /\ EscOwed' \in Nat
      /\ keys \in Nat /\ escs \in Nat
  <2>1. Stream \in Seq(Bytes(Nat)) /\ Stream' \in Seq(Bytes(Nat)) /\ ends \in Nat /\ ends' \in Nat
        /\ keys \in Nat /\ escs \in Nat
    BY ConcatProperties DEF Buffers, Stream
  <2>2. ASSUME NEW skip \in BOOLEAN PROVE Owed(skip) \in Nat
    BY <2>1, OwingTyped DEF Owed
  <2>3. ASSUME NEW skip \in BOOLEAN PROVE Owed(skip)' \in Nat
    <3>1. Owing(skip, editor', Stream', 0) \in Nat
      BY <2>1, OwingTyped
    <3> QED BY <2>1, <3>1 DEF Owed
  <2> QED BY <2>1, <2>2, <2>3 DEF AnyOwed, EscOwed
<1>b. ~footer /\ ~loose => editor = EmptyEditor
  BY DEF Grace
<1>c. ASSUME keys' = keys, escs' = escs, ~loose' => ~loose, AnyOwed' <= AnyOwed,
             ~loose' => EscOwed' <= EscOwed
      PROVE  Asked'
  BY <1>a, <1>c DEF Asked
\* Input is flushed, or the editor starts anew.
<1>d. ASSUME UNCHANGED <<keys, escs, tail, ends>>, ~loose' => ~loose, fd' = fd \/ fd' = <<>>,
             editor' = EmptyEditor \/ (editor' = editor /\ (fd' # fd => ~footer))
      PROVE  Asked'
  <2>1. AnyOwed' <= AnyOwed
    BY <1>d, ResetOwes DEF AnyOwed
  <2>2. ~loose' => EscOwed' <= EscOwed
    BY <1>b, <1>d, ResetOwes DEF EscOwed
  <2> QED BY <1>c, <1>d, <2>1, <2>2
<1>0. CASE UNCHANGED sessionVars
  <2>1. UNCHANGED <<keys, escs, tail, ends, loose, fd, editor>>
    BY <1>0 DEF sessionVars
  <2> QED BY <1>d, <2>1
<1>1. ASSUME NEW key \in DOMAIN KeyBytes, Press(key) PROVE Asked'
  <2>1. PICK bytes : KeyArrives(key, bytes)
    BY <1>1, PressArrives DEF Buffers
  <2>2. /\ UNCHANGED <<editor, ends, loose>> /\ tail = <<>> /\ keys' = keys + 1
        /\ escs' = IF key = "Esc" THEN escs + 1 ELSE escs
    BY <1>1 DEF Press
  <2>3. Stream' = fd \o bytes /\ Stream = fd
    BY <2>1, <2>2 DEF KeyArrives, Stream, Buffers
  <2>4. ASSUME NEW skip \in BOOLEAN
        PROVE  Owed(skip)' <= Owed(skip) + (IF skip /\ key # "Esc" THEN 0 ELSE 1)
    <3>1. Owing(skip, editor, fd \o bytes, 0) <= Owing(skip, editor, fd, 0) + (IF skip /\ key # "Esc" THEN 0 ELSE 1)
      BY <2>1, KeyOwes DEF Buffers
    <3>2. Owing(skip, editor, fd \o bytes, 0) \in Nat /\ Owing(skip, editor, fd, 0) \in Nat /\ ends \in Nat
      BY <2>1, OwingTyped, ConcatProperties DEF KeyArrives, Buffers
    <3>3. /\ Owed(skip)' = ends + Owing(skip, editor, fd \o bytes, 0)
          /\ Owed(skip) = ends + Owing(skip, editor, fd, 0)
      BY <2>2, <2>3 DEF Owed
    <3> QED BY <3>1, <3>2, <3>3
  <2>5. AnyOwed' <= AnyOwed + 1
    BY <2>4 DEF AnyOwed
  <2>6. EscOwed' <= EscOwed + (IF key # "Esc" THEN 0 ELSE 1)
    BY <2>4 DEF EscOwed
  <2>7. AnyOwed' <= keys'
    BY <1>a, <2>2, <2>5 DEF Asked
  <2>8. ~loose' => EscOwed' <= escs'
    BY <1>a, <2>2, <2>6 DEF Asked
  <2> QED BY <2>7, <2>8 DEF Asked
<1>2. CASE TailArrives
  <2>1. RestArrives
    BY <1>2, TailArrivesKnown DEF Buffers
  <2>2. UNCHANGED <<editor, ends, loose, keys, escs>>
    BY <1>2 DEF TailArrives
  <2>3. Stream' = fd' /\ Stream = fd \o tail /\ Stream \in Seq(Bytes(Nat)) /\ Len(Stream) = Len(fd')
        /\ fd' \in Seq(Bytes(Nat))
    BY <2>1, ConcatProperties DEF RestArrives, Stream, Buffers
  <2>4. \A i \in 1..Len(fd') : fd'[i].k = Stream[i].k
    BY <2>1, <2>3 DEF RestArrives
  <2>5. \A skip \in BOOLEAN : Owing(skip, editor, fd', 0) = Owing(skip, editor, Stream, 0)
    BY <2>3, <2>4, TagsOwe
  <2>6. \A skip \in BOOLEAN : Owed(skip)' = Owed(skip)
    BY <2>2, <2>3, <2>5 DEF Owed
  <2>7. AnyOwed' = AnyOwed /\ EscOwed' = EscOwed
    BY <2>6 DEF AnyOwed, EscOwed
  <2> QED BY <1>a, <2>2, <2>7 DEF Asked
<1>3. CASE PumpPumps \/ PollPumps
  <2>1. PumpReads /\ UNCHANGED <<tail, keys, escs, loose>>
    BY <1>3 DEF PumpPumps, PollPumps
  <2>2. AnyOwed' <= AnyOwed /\ EscOwed' <= EscOwed
    BY <2>1, ReadOwes DEF AnyOwed, EscOwed
  <2> QED BY <1>c, <2>1, <2>2
<1>4. CASE PumpSettles \/ PollSettles
  <2>1. Settle /\ Unsettled /\ UNCHANGED <<fd, tail, keys, escs, loose>>
    BY <1>4 DEF PumpSettles, PollSettles, Unsettled
  <2>2. Reader
    <3>1. CASE PumpSettles
      BY <3>1 DEF PumpSettles, Reader
    <3>2. CASE PollSettles
      <4>1. app = "settling"
        BY <3>2 DEF PollSettles
      <4> QED BY <4>1 DEF Windows, Reader, Polling
    <3> QED BY <1>4, <3>1, <3>2
  <2>3. AnyOwed' <= AnyOwed
    BY <2>1, <2>2, SettleOwes DEF AnyOwed
  <2>4. ~loose => EscOwed' <= EscOwed
    BY <2>1, <2>2, SettleOwes DEF EscOwed
  <2> QED BY <1>c, <2>1, <2>3, <2>4
<1>5. CASE HangUp \/ GraceElapses \/ PumpWakes \/ PumpFails \/ PumpStops \/ StayPlain
  <2>1. UNCHANGED <<keys, escs, tail, ends, loose, fd, editor>>
    BY <1>5 DEF HangUp, GraceElapses, PumpWakes, PumpFails, PumpStops, StayPlain
  <2> QED BY <1>d, <2>1
<1>6. CASE ShowStatus \/ PollRaises \/ PollReads \/ Merge \/ TrialEnds \/ StopPump \/ JoinPump \/ AtExit
  <2>1. UNCHANGED <<keys, escs, tail, ends, loose, fd, editor>>
    BY <1>6 DEF ShowStatus, PollRaises, PollReads, Merge, TrialEnds, StopPump, JoinPump, AtExit
  <2> QED BY <1>d, <2>1
<1>7. CASE Gate \/ PromptVerdict
  <2>1. /\ UNCHANGED <<keys, escs, tail, ends, loose, editor>> /\ (fd' = fd \/ fd' = <<>>)
        /\ app \in {"gate", "judge"}
    BY <1>7 DEF Gate, PromptVerdict
  <2>2. ~footer
    BY <2>1 DEF Windows, Polling, Ending
  <2> QED BY <1>d, <2>1, <2>2
<1>8. CASE EnterFooter
  <2>1. /\ UNCHANGED <<keys, escs, tail, ends>> /\ fd' = <<>> /\ editor' = EmptyEditor
        /\ ~loose' => ~loose
    BY <1>8 DEF EnterFooter, ResetFooterState, Switches
  <2> QED BY <1>d, <2>1
<1>9. CASE DrainConsole
  <2>1. /\ UNCHANGED <<keys, escs, tail, ends, loose, editor>>
        /\ fd' = (IF ~footer /\ ~consoleEof THEN <<>> ELSE fd)
    BY <1>9 DEF DrainConsole
  <2> QED BY <1>d, <2>1
<1>10. CASE PollPlain
  <2>1. /\ UNCHANGED <<keys, escs, tail, ends, loose, editor>> /\ ~footer
        /\ fd' = fd \/ fd' = <<>>
    BY <1>10 DEF PollPlain
  <2> QED BY <1>d, <2>1
<1>11. CASE JoinInterrupted
  <2>1. UNCHANGED <<keys, escs, tail, ends, fd>> /\ editor' = EmptyEditor /\ loose'
    BY <1>11 DEF JoinInterrupted, ResetFooterState
  <2> QED BY <1>d, <2>1
<1>12. CASE ClearRows
  <2>1. UNCHANGED <<keys, escs, tail, ends, fd, loose>> /\ editor' \in {EmptyEditor, editor}
    BY <1>12 DEF ClearRows, ResetFooterState
  <2> QED BY <1>d, <2>1
<1> QED
  BY <1>0, <1>1, <1>2, <1>3, <1>4, <1>5, <1>6, <1>7, <1>8, <1>9, <1>10, <1>11, <1>12 DEF SNext

----------------------------------------------------------------------------
\* What is bounded.

LEMMA BoundsStep ==
    Buffers /\ Switches /\ Places /\ Bounds /\ [SNext]_sessionVars => Bounds'
<1> SUFFICES ASSUME Buffers, Switches, Places, Bounds, [SNext]_sessionVars PROVE Bounds'
  OBVIOUS
<1>a. /\ Sessions \in Nat /\ MaxKeys \in Nat /\ Trials \in SUBSET Nat
      /\ sTrial \in Trials /\ 0 \in Trials
  BY SessionAssumption DEF Trials, Bounds
<1>b. /\ keys \in Nat /\ escs \in Nat /\ keys <= MaxKeys /\ escs <= keys
      /\ fd \in Seq(Bytes(Trials)) /\ tail \in Seq(Bytes(Trials))
      /\ editor \in Editors(Trials) /\ lines \in Seq(TypedLines(Trials))
      /\ partial \in SUBSET Trials /\ heard \in SUBSET SUBSET Trials
  BY DEF Bounds, Buffers
<1>c. Tag \in Trials
  BY <1>a DEF Tag
<1>d. \A s \in Seq(Bytes(Trials)) : \A i \in 1..Len(s) : s[i].t \in Trials
  <2> SUFFICES ASSUME NEW s \in Seq(Bytes(Trials)), NEW i \in 1..Len(s) PROVE s[i].t \in Trials
    OBVIOUS
  <2>1. s[i] \in Bytes(Trials)
    BY LenProperties
  <2> QED BY <2>1 DEF Bytes
<1>e. ASSUME UNCHANGED <<sTrial, keys, escs, tail, heard, partial>>,
             app' # "begin" \/ app' = app,
             fd' \in {fd, <<>>}, editor' \in Editors(Trials), lines' \in Seq(TypedLines(Trials))
      PROVE  Bounds'
  <2>1. fd' \in Seq(Bytes(Trials))
    BY <1>b, <1>e, NothingTyped
  <2>2. Trials' = Trials /\ sTrial' \in Trials /\ (app' = "begin" => sTrial' < Sessions)
    BY <1>a, <1>e DEF Trials, Bounds
  <2> HIDE DEF Trials
  <2> QED BY <1>b, <1>e, <2>1, <2>2 DEF Bounds
<1>f. EmptyEditor \in Editors(Trials) /\ <<>> \in Seq(TypedLines(Trials)) /\ <<>> \in Seq(Bytes(Trials))
  BY NothingTyped
<1>0. CASE UNCHANGED sessionVars
  <2>1. UNCHANGED <<sTrial, keys, escs, tail, heard, partial, app, fd, editor, lines>>
    BY <1>0 DEF sessionVars
  <2> QED BY <1>b, <1>e, <2>1
<1>1. ASSUME NEW key \in DOMAIN KeyBytes, Press(key) PROVE Bounds'
  <2>1. PICK bytes : KeyArrives(key, bytes)
    BY <1>1, PressArrives DEF Buffers
  <2>2. /\ UNCHANGED <<app, sTrial, editor, lines, partial, heard>> /\ keys < MaxKeys /\ keys' = keys + 1
        /\ escs' \in {escs, escs + 1}
    BY <1>1 DEF Press
  <2>3. fd' \in Seq(Bytes(Trials))
    <3>1. \A i \in 1..Len(fd') : fd'[i].t \in Trials
      BY <1>b, <1>c, <1>d, <2>1 DEF KeyArrives
    <3> QED BY <1>a, <2>1, <3>1, BytesOf DEF KeyArrives
  <2>4. tail' \in Seq(Bytes(Trials))
    BY <1>a, <1>c, <2>1, BytesOf DEF KeyArrives
  <2>5. keys' <= MaxKeys /\ escs' <= keys'
    BY <1>a, <1>b, <2>2
  <2> QED BY <1>a, <1>b, <2>2, <2>3, <2>4, <2>5 DEF Bounds, Trials
<1>2. CASE TailArrives
  <2>1. RestArrives
    BY <1>2, TailArrivesKnown DEF Buffers
  <2>2. UNCHANGED <<app, sTrial, editor, lines, partial, heard, keys, escs>>
    BY <1>2 DEF TailArrives
  <2>3. fd' \in Seq(Bytes(Trials))
    <3>1. \A i \in 1..Len(fd') : fd'[i].t \in Trials
      BY <1>b, <1>c, <1>d, <2>1 DEF RestArrives
    <3> QED BY <1>a, <2>1, <3>1, BytesOf DEF RestArrives
  <2>4. tail' \in Seq(Bytes(Trials))
    BY <1>f, <2>1 DEF RestArrives
  <2> QED BY <1>a, <1>b, <2>2, <2>3, <2>4 DEF Bounds, Trials
<1>3. CASE HangUp \/ GraceElapses \/ PumpWakes \/ PumpFails \/ PumpStops
  <2>1. UNCHANGED <<sTrial, keys, escs, tail, heard, partial, app, fd, editor, lines>>
    BY <1>3 DEF HangUp, GraceElapses, PumpWakes, PumpFails, PumpStops
  <2> QED BY <1>b, <1>e, <2>1
<1>4. CASE PumpPumps \/ PollPumps
  <2> DEFINE r == Feed(editor, fd)
  <2>1. /\ UNCHANGED <<sTrial, keys, escs, tail, heard, partial>> /\ (app' # "begin" \/ app' = app) /\ fd' = <<>>
        /\ editor' = r.e /\ lines' = lines \o r.out
    BY <1>4 DEF PumpPumps, PollPumps, PumpReads
  <2>2. r \in Results(Trials)
    BY <1>a, <1>b, FeedTyped
  <2>3. r.e \in Editors(Trials) /\ r.out \in Seq(TypedLines(Trials))
    BY <2>2 DEF Results
  <2> HIDE DEF r
  <2>4. lines \o r.out \in Seq(TypedLines(Trials))
    BY <1>b, <2>3, ConcatProperties
  <2> QED BY <1>e, <2>1, <2>3, <2>4
<1>5. CASE PumpSettles \/ PollSettles
  <2>1. /\ UNCHANGED <<sTrial, keys, escs, tail, heard, partial, fd>> /\ (app' # "begin" \/ app' = app)
        /\ \/ editor' = editor /\ lines' = lines
           \/ editor' = [editor EXCEPT !.esc = FALSE] /\ lines' = Append(lines, END)
    BY <1>5 DEF PumpSettles, PollSettles, Settle
  <2>2. [editor EXCEPT !.esc = FALSE] \in Editors(Trials)
    BY <1>b DEF Editors
  <2>3. Append(lines, END) \in Seq(TypedLines(Trials))
    BY <1>b, AppendProperties DEF TypedLines
  <2> QED BY <1>b, <1>e, <2>1, <2>2, <2>3
<1>6. CASE Gate
  <2>1. /\ UNCHANGED <<sTrial, keys, escs, tail, heard, partial, editor, lines>> /\ fd' = <<>>
        /\ sTrial < Sessions
    BY <1>6 DEF Gate
  <2> QED BY <1>a, <1>b, <1>f, <2>1 DEF Bounds, Trials
<1>7. CASE StayPlain
  <2>1. /\ UNCHANGED <<keys, escs, tail, fd, partial, editor, lines>> /\ heard' = {} /\ sTrial' = sTrial + 1
        /\ app = "begin" /\ app' = "draining"
    BY <1>7 DEF StayPlain
  <2>2. sTrial' \in Trials
    BY <1>a, <2>1 DEF Bounds, Trials
  <2> QED BY <1>a, <1>b, <2>1, <2>2 DEF Bounds, Trials
<1>8. CASE EnterFooter
  <2>1. /\ UNCHANGED <<keys, escs, tail, partial>> /\ fd' = <<>> /\ heard' = {} /\ sTrial' = sTrial + 1
        /\ editor' = EmptyEditor /\ lines' = <<>>
        /\ app = "begin" /\ app' # "begin"
    BY <1>8 DEF EnterFooter, ResetFooterState
  <2>2. sTrial' \in Trials
    BY <1>a, <2>1 DEF Bounds, Trials
  <2> QED BY <1>a, <1>b, <1>f, <2>1, <2>2 DEF Bounds, Trials
<1>9. CASE DrainConsole
  <2>1. /\ UNCHANGED <<sTrial, keys, escs, tail, heard, editor>> /\ fd' \in {fd, <<>>}
        /\ app' = "trial" /\ lines' \in {lines, <<>>} /\ partial' \in {partial, {}}
    BY <1>9 DEF DrainConsole
  <2>2. fd' \in Seq(Bytes(Trials)) /\ lines' \in Seq(TypedLines(Trials)) /\ partial' \in SUBSET Trials
    BY <1>b, <1>f, <2>1
  <2> QED BY <1>a, <1>b, <2>1, <2>2 DEF Bounds, Trials
<1>10. CASE ShowStatus \/ PollRaises \/ Merge \/ TrialEnds \/ StopPump \/ JoinPump \/ AtExit
  <2>1. /\ UNCHANGED <<sTrial, keys, escs, tail, heard, partial, fd, editor, lines>>
        /\ app' # "begin"
    BY <1>10 DEF ShowStatus, PollRaises, Merge, TrialEnds, StopPump, JoinPump, AtExit
  <2> QED BY <1>b, <1>e, <2>1
<1>11. CASE PollReads
  <2>1. /\ UNCHANGED <<sTrial, keys, escs, tail, partial, fd, editor>> /\ app' # "begin"
        /\ heard' \in {heard, heard \cup Messages(lines)} /\ lines' \in {lines, <<>>}
    BY <1>11 DEF PollReads
  <2>2. Messages(lines) \in SUBSET SUBSET Trials
    BY <1>a, <1>b, MessagesKnown
  <2>3. heard' \in SUBSET SUBSET Trials /\ lines' \in Seq(TypedLines(Trials))
    BY <1>b, <1>f, <2>1, <2>2
  <2> QED BY <1>a, <1>b, <2>1, <2>3 DEF Bounds, Trials
<1>12. CASE PollPlain
  <2> DEFINE r == ReadPlain(partial, fd)
  <2>1. /\ UNCHANGED <<sTrial, keys, escs, tail, editor, lines>> /\ app' # "begin"
        /\ fd' \in {fd, <<>>} /\ partial' \in {partial, {}, r.line} /\ heard' \in {heard, heard \cup Messages(r.out)}
    BY <1>12 DEF PollPlain
  <2>2. r \in PlainResults(Trials)
    BY <1>a, <1>b, ReadPlainTyped
  <2>3. r.line \in SUBSET Trials /\ r.out \in Seq(SUBSET Trials)
    BY <2>2 DEF PlainResults
  <2> HIDE DEF r
  <2>4. Messages(r.out) \in SUBSET SUBSET Trials
    BY <1>a, <2>3, MessagesKnown
  <2>5. heard' \in SUBSET SUBSET Trials /\ partial' \in SUBSET Trials /\ fd' \in Seq(Bytes(Trials))
    BY <1>b, <1>f, <2>1, <2>3, <2>4
  <2> QED BY <1>a, <1>b, <2>1, <2>5 DEF Bounds, Trials
<1>13. CASE JoinInterrupted \/ ClearRows \/ PromptVerdict
  <2>1. /\ UNCHANGED <<sTrial, keys, escs, tail, heard, partial>> /\ fd' \in {fd, <<>>}
        /\ app' # "begin" /\ editor' \in {editor, EmptyEditor} /\ lines' \in {lines, <<>>}
    BY <1>13 DEF JoinInterrupted, ClearRows, PromptVerdict, ResetFooterState
  <2>2. editor' \in Editors(Trials) /\ lines' \in Seq(TypedLines(Trials))
    BY <1>b, <1>f, <2>1
  <2> QED BY <1>e, <2>1, <2>2
<1> QED
  BY <1>0, <1>1, <1>2, <1>3, <1>4, <1>5, <1>6, <1>7, <1>8, <1>9, <1>10, <1>11, <1>12, <1>13 DEF SNext

----------------------------------------------------------------------------
\* The theorems.

LEMMA InvInit == SInit => Inv
<1> SUFFICES ASSUME SInit PROVE Inv
  OBVIOUS
<1>1. Buffers
  BY EmptyKnown DEF SInit, Buffers
<1>2. Switches /\ Places /\ Windows
  BY DEF SInit, Switches, Places, Windows, Polling, Ending
<1>3. Heard
  BY DEF SInit, Heard, HeardInThisTrial, Polling
<1>4. Grace
  BY DEF SInit, Grace, Reader, EmptyEditor
<1>5. Asked
  <2>1. Stream = <<>> /\ ends = 0 /\ keys = 0 /\ escs = 0 /\ editor = EmptyEditor
    BY EmptySeq DEF SInit, Stream
  <2>2. ASSUME NEW skip \in BOOLEAN PROVE Owed(skip) = 0
    <3>1. Escapes(skip, <<>>, 0) = {}
      BY DEF Escapes
    <3>2. Owing(skip, EmptyEditor, <<>>, 0) = Cardinality({})
      BY <3>1, EmptyKnown, OwingTyped
    <3>3. Cardinality({}) = 0
      BY FS_EmptySet
    <3> QED BY <2>1, <3>2, <3>3 DEF Owed
  <2>3. AnyOwed = 0 /\ EscOwed = 0
    BY <2>2 DEF AnyOwed, EscOwed
  <2> QED BY <2>1, <2>3 DEF Asked
<1>6. Bounds
  BY SessionAssumption, NothingTyped DEF SInit, Bounds, Trials
<1> QED BY <1>1, <1>2, <1>3, <1>4, <1>5, <1>6 DEF Inv

LEMMA InvStep == Inv /\ [SNext]_sessionVars => Inv'
  BY BuffersStep, SwitchesStep, PlacesStep, WindowsStep, HeardStep, GraceStep, AskedStep, BoundsStep
     DEF Inv

LEMMA InvSafe == Inv => SessionTypeOK /\ EndsAreAsked /\ HeardInThisTrial /\ PromptReadsAlone
<1> SUFFICES ASSUME Inv PROVE SessionTypeOK /\ EndsAreAsked /\ HeardInThisTrial /\ PromptReadsAlone
  OBVIOUS
<1>1. Buffers /\ Switches /\ Places /\ Windows /\ Heard /\ Asked /\ Grace /\ Bounds
  BY DEF Inv
<1>2. Stream \in Seq(Bytes(Nat)) /\ ends \in Nat /\ keys \in Nat /\ escs \in Nat
  BY <1>1, ConcatProperties DEF Buffers, Stream
<1>3. ASSUME loose = FALSE PROVE ends <= escs
  <2> DEFINE w == Owing(TRUE, editor, Stream, 0)
  <2>1. w \in Nat
    BY <1>2, OwingTyped
  <2>2. EscOwed = ends + w /\ EscOwed <= escs
    BY <1>1, <1>3 DEF EscOwed, Owed, Asked
  <2> HIDE DEF w
  <2> QED BY <1>2, <2>1, <2>2
<1>4. EndsAreAsked
  <2>1. loose \in BOOLEAN
    BY <1>1 DEF Switches
  <2> QED BY <1>3, <2>1 DEF EndsAreAsked
<1>5. HeardInThisTrial
  BY <1>1 DEF Heard
<1>6. PromptReadsAlone
  BY <1>1 DEF Places, Windows, PromptReadsAlone, Polling, Ending
<1>7. ends <= keys
  <2> DEFINE w == Owing(FALSE, editor, Stream, 0)
  <2>1. w \in Nat
    BY <1>2, OwingTyped
  <2>2. AnyOwed = ends + w /\ AnyOwed <= keys
    BY <1>1 DEF AnyOwed, Owed, Asked
  <2> HIDE DEF w
  <2> QED BY <1>2, <2>1, <2>2
<1>8. SessionTypeOK
  <2>1. sTrial \in 0..Sessions /\ keys \in 0..MaxKeys /\ escs \in 0..MaxKeys /\ ends \in 0..MaxKeys
    BY <1>1, <1>2, <1>7, SessionAssumption DEF Bounds, Trials
  <2>2. \A s \in {fd, tail} : \A i \in DOMAIN s : s[i].t \in 0..Sessions
    <3>1. fd \in Seq(Bytes(Trials)) /\ tail \in Seq(Bytes(Trials))
      BY <1>1 DEF Bounds
    <3>2. \A s \in Seq(Bytes(Trials)) : \A i \in DOMAIN s : s[i].t \in Trials
      <4> SUFFICES ASSUME NEW s \in Seq(Bytes(Trials)), NEW i \in DOMAIN s PROVE s[i].t \in Trials
        OBVIOUS
      <4>1. s[i] \in Bytes(Trials)
        BY LenProperties
      <4> QED BY <4>1 DEF Bytes
    <3> QED BY <3>1, <3>2 DEF Trials
  <2>3. {hup, footer, raw, statusOpen, pumpEof, fed, stopEvent, handle, pumpError,
         consoleEof, voice, loose} \subseteq BOOLEAN
    BY <1>1, Zenon DEF Switches
  <2>4. editor.line \subseteq 0..Sessions /\ {editor.esc, editor.csi} \subseteq BOOLEAN
    <3>1. editor \in Editors(Trials)
      BY <1>1 DEF Bounds
    <3> QED BY <3>1 DEF Editors, Trials
  <2>5. \A i \in DOMAIN lines : lines[i] \in Lines
    <3>1. lines \in Seq(TypedLines(Trials))
      BY <1>1 DEF Bounds
    <3>2. \A i \in DOMAIN lines : lines[i] \in TypedLines(Trials)
      BY <3>1, LenProperties
    <3> QED BY <3>2 DEF TypedLines, Lines, Trials
  <2>6. partial \subseteq 0..Sessions /\ heard \subseteq SUBSET (0..Sessions)
    BY <1>1 DEF Bounds, Trials
  <2>7. app \in {"gate", "begin", "draining", "trial", "settling", "reading", "merging", "ended", "ending",
                 "joining", "clearing", "judge", "exiting", "gone"}
        /\ stamp \in {"none", "armed", "elapsed"} /\ lock \in {"free", "pump", "rollout"}
        /\ pump \in {"off", "waiting", "woken", "pumping"}
    BY <1>1 DEF Places, Polling, Ending
  <2> QED BY <2>1, <2>2, <2>3, <2>4, <2>5, <2>6, <2>7, Zenon DEF SessionTypeOK
<1> QED BY <1>4, <1>5, <1>6, <1>8

LEMMA InvAlways == SessionSpec => []Inv
  BY InvInit, InvStep, PTL DEF SessionSpec

\* The editor asks for the end of the episode at most once for each Esc key, and
\* never for an arrow key (LineEditor and _pump_input of session.py), however the
\* bytes of a key are split over reads of the two threads and whichever of them
\* settles the grace, as long as Ctrl-C has left no pump behind.
THEOREM EndsAreAskedAlways == SessionSpec => []EndsAreAsked
<1>1. Inv => EndsAreAsked
  BY InvSafe
<1> QED BY <1>1, InvAlways, PTL

----------------------------------------------------------------------------
\* The generation. The worker's reading of it may be old, and only ever too old: an
\* utterance is stamped with a generation no later than the one its gate opened in.

GateFields ==
    gate = [preRoll |-> gate.preRoll, candidate |-> gate.candidate, open |-> gate.open,
            size |-> gate.size, below |-> gate.below, from |-> gate.from,
            since |-> gate.since]

Readings ==
    /\ generation \in Nat /\ blockGen \in Nat /\ blockGen <= generation
    /\ GateFields

OpenStamped ==
    gate.open => /\ openGen \in Nat /\ gate.since \in Nat
                 /\ openGen <= gate.since /\ gate.since <= generation

UtteranceStamped ==
    worker \in {"check", "transcribe"} =>
        /\ utterance.since \in Nat
        /\ blockGen <= utterance.since /\ utterance.since <= generation

OutputIsASequence == \E S : output \in Seq(S)

SpokenStamps == \A i \in DOMAIN output : output[i].since = generation

GenInv ==
    Readings /\ OpenStamped /\ UtteranceStamped /\ OutputIsASequence /\ SpokenStamps

----------------------------------------------------------------------------
\* A block leaves a gate of the same shape; one that opens here opens in this
\* generation, and one that was open keeps its stamp (EnergyGate.push).
LEMMA PushKeepsStamp ==
    ASSUME GateFields, NEW b
    PROVE  /\ Push(gate, b) = [preRoll |-> Push(gate, b).preRoll,
                               candidate |-> Push(gate, b).candidate,
                               open |-> Push(gate, b).open, size |-> Push(gate, b).size,
                               below |-> Push(gate, b).below, from |-> Push(gate, b).from,
                               since |-> Push(gate, b).since]
           /\ gate.open => Push(gate, b).open /\ Push(gate, b).since = gate.since
           /\ ~gate.open /\ Push(gate, b).open => Push(gate, b).since = generation
<1>1. CASE gate.open
  <2>1. Push(gate, b) = [preRoll |-> gate.preRoll, candidate |-> gate.candidate,
                         open |-> gate.open, size |-> gate.size + 1,
                         below |-> IF b.speech THEN 0 ELSE gate.below + 1,
                         from |-> gate.from \cup {b.g}, since |-> gate.since]
    BY <1>1 DEF Push, PushOpen, GateFields
  <2> QED
    BY <1>1, <2>1
<1>2. CASE ~gate.open /\ b.speech
  <2> DEFINE cand == Append(gate.candidate, b)
  <2>1. CASE Len(cand) < MinOpen
    <3>1. Push(gate, b) = [preRoll |-> gate.preRoll, candidate |-> cand,
                           open |-> gate.open, size |-> gate.size, below |-> gate.below,
                           from |-> gate.from, since |-> gate.since]
      BY <1>2, <2>1 DEF Push, PushClosed, Opened, GateFields
    <3> QED
      BY <1>2, <3>1
  <2>2. CASE ~(Len(cand) < MinOpen)
    <3>1. Push(gate, b) = [preRoll |-> <<>>, candidate |-> <<>>, open |-> TRUE,
                           size |-> Len(cand), below |-> 0,
                           from |-> Tags(gate.preRoll \o cand), since |-> generation]
      BY <1>2, <2>2 DEF Push, PushClosed, Opened, Quiet
    <3> QED
      BY <1>2, <3>1
  <2> QED
    BY <2>1, <2>2
<1>3. CASE ~gate.open /\ ~b.speech
  <2>1. Push(gate, b) = [preRoll |-> Rolled(gate.preRoll \o gate.candidate \o <<b>>),
                         candidate |-> <<>>, open |-> FALSE, size |-> 0, below |-> 0,
                         from |-> {}, since |-> 0]
    BY <1>3 DEF Push, PushClosed, Quiet
  <2> QED
    BY <1>3, <2>1
<1> QED
  BY <1>1, <1>2, <1>3

\* The worker pushes a block: what opens is stamped with the generation it read, which
\* is no later than the one it opens in; what finishes carries the stamp of its opening.
LEMMA PushStep ==
    ASSUME GenInv, WorkerPushes
    PROVE  GenInv'
<1> DEFINE s == Push(gate, block)
           opened == IF ~gate.open /\ s.open THEN blockGen ELSE openGen
<1>1. /\ generation' = generation /\ output' = output
      /\ IF Finished(s)
           THEN /\ utterance' = [from |-> s.from, since |-> s.since] /\ gate' = Quiet
                /\ worker' = "check" /\ openGen' = -1
                /\ blockGen' = IF opened = -1 THEN blockGen ELSE opened
           ELSE /\ gate' = s /\ openGen' = opened /\ worker' = "get"
                /\ blockGen' = blockGen
  BY DEF WorkerPushes
<1>2. GateFields
  BY DEF GenInv, Readings
<1>3. s.open => opened \in Nat /\ s.since \in Nat /\ opened <= s.since /\ s.since <= generation
  <2>1. CASE gate.open
    BY <1>2, <2>1, PushKeepsStamp DEF GenInv, OpenStamped
  <2>2. CASE ~gate.open
    BY <1>2, <2>2, PushKeepsStamp DEF GenInv, Readings
  <2> QED
    BY <2>1, <2>2
<1>4. OutputIsASequence' /\ SpokenStamps'
  BY <1>1 DEF GenInv, OutputIsASequence, SpokenStamps
<1>5. CASE Finished(s)
  <2>1. s.open
    BY <1>5 DEF Finished
  <2>2. blockGen' = opened /\ utterance'.since = s.since /\ gate' = Quiet
    BY <1>1, <1>3, <1>5, <2>1
  <2>3. UtteranceStamped' /\ OpenStamped' /\ Readings'
    BY <1>1, <1>3, <2>1, <2>2
       DEF UtteranceStamped, OpenStamped, Readings, GateFields, Quiet, GenInv
  <2> QED
    BY <1>4, <2>3 DEF GenInv
<1>6. CASE ~Finished(s)
  <2>1. gate' = s /\ openGen' = opened /\ worker' = "get" /\ blockGen' = blockGen
    BY <1>1, <1>6
  <2>2. GateFields'
    BY <1>2, <2>1, PushKeepsStamp DEF GateFields
  <2>3. OpenStamped'
    BY <1>1, <1>3, <2>1 DEF OpenStamped
  <2>4. Readings' /\ UtteranceStamped'
    BY <1>1, <2>1, <2>2 DEF GenInv, Readings, UtteranceStamped
  <2> QED
    BY <1>4, <2>3, <2>4 DEF GenInv
<1> QED
  BY <1>5, <1>6

\* A transcript is accepted only if its stamp is the generation of now, and then its
\* gate had opened in it.
LEMMA AcceptStep ==
    ASSUME GenInv, Accept
    PROVE  GenInv'
<1>1. Readings' /\ OpenStamped' /\ UtteranceStamped' /\ generation' = generation
  BY DEF GenInv, Accept, Readings, GateFields, OpenStamped, UtteranceStamped
<1>2. CASE output' = output
  BY <1>1, <1>2 DEF GenInv, OutputIsASequence, SpokenStamps
<1>3. CASE blockGen = generation /\ output' = Append(output, utterance)
  <2>1. utterance.since = generation
    BY <1>3 DEF GenInv, Accept, UtteranceStamped, Readings
  <2>2. PICK S : output \in Seq(S)
    BY DEF GenInv, OutputIsASequence
  <2>3. output \in Seq(S \cup {utterance})
    BY <2>2, SeqMonotonic
  <2>4. OutputIsASequence'
    <3>1. output' \in Seq(S \cup {utterance})
      BY <1>3, <2>3, AppendProperties
    <3> QED
      BY <3>1 DEF OutputIsASequence
  <2>5. SpokenStamps'
    BY <1>1, <1>3, <2>1, <2>3, AppendProperties DEF GenInv, SpokenStamps
  <2> QED
    BY <1>1, <2>4, <2>5 DEF GenInv
<1> QED
  BY <1>2, <1>3 DEF Accept

\* Steps that touch neither the generation nor what is stamped with it.
LEMMA GenFrame ==
    ASSUME GenInv, UNCHANGED <<generation, blockGen, openGen, gate, output>>,
           \/ UNCHANGED <<worker, utterance>>
           \/ worker' \notin {"check", "transcribe"}
    PROVE  GenInv'
  BY DEF GenInv, Readings, GateFields, OpenStamped, UtteranceStamped, OutputIsASequence,
         SpokenStamps

LEMMA GenStep ==
    ASSUME GenInv, [VNext]_voiceVars
    PROVE  GenInv'
<1>1. CASE Capture \/ DrainAudio \/ CloseReads \/ CloseClears \/ CloseCapture \/ CloseJoins
  BY <1>1, GenFrame DEF Capture, DrainAudio, CloseReads, CloseClears, CloseCapture, CloseJoins
<1>2. CASE VStart \/ WorkerStops \/ WorkerGets \/ WorkerFails \/ WorkerTakesCapture
           \/ WorkerClosesCapture
  BY <1>2, GenFrame DEF VStart, WorkerStops, WorkerGets, WorkerFails, WorkerTakesCapture,
                        WorkerClosesCapture
<1>3. CASE BumpGeneration
  <2>1. output' = <<>> /\ generation' = generation + 1
        /\ UNCHANGED <<worker, blockGen, openGen, gate, utterance>>
    BY <1>3 DEF BumpGeneration
  <2>2. Readings' /\ OpenStamped' /\ UtteranceStamped'
    BY <2>1 DEF GenInv, Readings, GateFields, OpenStamped, UtteranceStamped
  <2>3. output' \in Seq({}) /\ DOMAIN output' = {}
    BY <2>1
  <2>4. OutputIsASequence' /\ SpokenStamps'
    BY <2>3 DEF OutputIsASequence, SpokenStamps
  <2> QED
    BY <2>2, <2>4 DEF GenInv
<1>4. CASE VPoll
  <2>1. UNCHANGED <<worker, generation, blockGen, openGen, gate, utterance>>
        /\ output' \in {output, <<>>}
    BY <1>4 DEF VPoll
  <2>2. CASE output' = output
    BY <2>1, <2>2, GenFrame
  <2>3. CASE output' = <<>>
    <3>1. output' \in Seq({}) /\ DOMAIN output' = {}
      BY <2>3
    <3>2. OutputIsASequence' /\ SpokenStamps'
      BY <3>1 DEF OutputIsASequence, SpokenStamps
    <3> QED
      BY <2>1, <3>2 DEF GenInv, Readings, GateFields, OpenStamped, UtteranceStamped
  <2> QED
    BY <2>1, <2>2, <2>3
<1>5. CASE WorkerReadsGeneration
  <2>1. /\ worker' = "push" /\ blockGen' = generation
        /\ UNCHANGED <<generation, output>>
        /\ \/ gate' = Quiet
           \/ UNCHANGED <<gate, openGen>>
    BY <1>5 DEF WorkerReadsGeneration
  <2>2. GateFields' /\ OpenStamped'
    BY <2>1 DEF GenInv, Readings, GateFields, OpenStamped, Quiet
  <2> QED
    BY <2>1, <2>2 DEF GenInv, Readings, UtteranceStamped, OutputIsASequence, SpokenStamps
<1>6. CASE WorkerPushes
  BY <1>6, PushStep
<1>7. CASE WorkerChecks
  <2>1. /\ UNCHANGED <<generation, blockGen, openGen, gate, output>> /\ worker = "check"
        /\ worker' = "transcribe" => utterance' = utterance
        /\ worker' \in {"get", "transcribe"}
    BY <1>7 DEF WorkerChecks
  <2> QED
    BY <2>1 DEF GenInv, Readings, GateFields, OpenStamped, UtteranceStamped,
                OutputIsASequence, SpokenStamps
<1>8. CASE Accept
  BY <1>8, AcceptStep
<1>9. CASE UNCHANGED voiceVars
  BY <1>9, GenFrame DEF voiceVars
<1> QED
  BY <1>1, <1>2, <1>3, <1>4, <1>5, <1>6, <1>7, <1>8, <1>9 DEF VNext

----------------------------------------------------------------------------
LEMMA GenInit == VInit => GenInv
<1> SUFFICES ASSUME VInit PROVE GenInv
  OBVIOUS
<1>1. output \in Seq({}) /\ DOMAIN output = {}
  BY DEF VInit
<1>2. OutputIsASequence /\ SpokenStamps
  BY <1>1 DEF OutputIsASequence, SpokenStamps
<1> QED
  BY <1>2 DEF VInit, GenInv, Readings, GateFields, Quiet, OpenStamped, UtteranceStamped

----------------------------------------------------------------------------
\* The microphone. Once it is there it is in one of three hands, the input's, close()'s
\* or the worker's, until someone has closed it; close() and the worker may both hold it.

Hands ==
    /\ capture \in BOOLEAN /\ mine \in BOOLEAN /\ theirs \in BOOLEAN /\ closes \in Nat
    /\ vMain # "new" => capture \/ mine \/ theirs \/ closes >= 1

CloseTookIt ==
    /\ vMain = "closing" => (capture => mine)
    /\ vMain \in {"stopping", "joining", "closed"} => ~capture
    /\ mine => vMain \in {"closing", "stopping"}

WorkerTookIt ==
    /\ theirs => worker = "taken"
    /\ vMain \in {"new", "closed"} => worker = "off"

MicInv == Hands /\ CloseTookIt /\ WorkerTookIt

LEMMA MicStep ==
    ASSUME MicInv, [VNext]_voiceVars
    PROVE  MicInv'
<1> USE DEF MicInv, Hands, CloseTookIt, WorkerTookIt
<1>0. 0 \in Nat /\ (closes \in Nat => closes + 1 \in Nat /\ closes + 1 >= 1)
  OBVIOUS
<1>1. CASE VStart
  BY <1>1, Zenon DEF VStart
<1>11. CASE Capture \/ BumpGeneration \/ DrainAudio \/ VPoll
  BY <1>11 DEF Capture, BumpGeneration, DrainAudio, VPoll
<1>2. CASE CloseReads
  BY <1>2 DEF CloseReads
<1>3. CASE CloseClears
  BY <1>3 DEF CloseClears
<1>4. CASE CloseCapture
  BY <1>0, <1>4, Zenon DEF CloseCapture
<1>5. CASE CloseJoins
  BY <1>5 DEF CloseJoins
<1>6. CASE WorkerStops \/ WorkerGets \/ WorkerReadsGeneration
  BY <1>6 DEF WorkerStops, WorkerGets, WorkerReadsGeneration
<1>7. CASE WorkerPushes \/ WorkerChecks \/ Accept \/ WorkerFails
  BY <1>7 DEF WorkerPushes, WorkerChecks, Accept, WorkerFails
<1>8. CASE WorkerTakesCapture
  BY <1>8 DEF WorkerTakesCapture
<1>9. CASE WorkerClosesCapture
  BY <1>0, <1>9, Zenon DEF WorkerClosesCapture
<1>10. CASE UNCHANGED voiceVars
  BY <1>10 DEF voiceVars
<1> QED
  BY <1>1, <1>2, <1>3, <1>4, <1>5, <1>6, <1>7, <1>8, <1>9, <1>10, <1>11 DEF VNext

LEMMA MicInit == VInit => MicInv
<1>1. 0 \in Nat
  OBVIOUS
<1> QED
  BY <1>1, Zenon DEF VInit, MicInv, Hands, CloseTookIt, WorkerTookIt

LEMMA MicSafe == MicInv => MicrophoneReleased
  BY DEF MicInv, Hands, CloseTookIt, WorkerTookIt, MicrophoneReleased

\* When close() has returned the worker is gone and the stream was closed, whoever held
\* it and although neither side takes it under one lock (VoiceInput.close, _worker_main).
THEOREM MicrophoneIsClosed == VoiceSpec => []MicrophoneReleased
  BY MicInit, MicStep, MicSafe, PTL DEF VoiceSpec

----------------------------------------------------------------------------
\* What is bounded: a gate that is open has not finished, so that one block more does
\* not pass the longest utterance; close() and the worker close the stream once each.

VoicePlaces ==
    /\ vMain \in {"new", "idle", "draining", "close", "closing", "stopping", "joining", "closed"}
    /\ worker \in {"off", "get", "have", "push", "check", "transcribe", "failed", "taken"}
    /\ capture \in BOOLEAN /\ mine \in BOOLEAN /\ theirs \in BOOLEAN /\ workerError \in BOOLEAN

VoiceCounts ==
    /\ generation \in 0..VTrials /\ captured \in 0..MaxBlocks
    /\ blockGen \in 0..VTrials /\ lastGen \in 0..VTrials /\ openGen \in -1..VTrials

VoiceBlocks ==
    /\ audio \in Seq(Blocks) /\ Len(audio) <= QueueBlocks /\ block \in Blocks

GateBounded(g) ==
    /\ g.open \in BOOLEAN /\ g.size \in Nat /\ g.below \in Nat
    /\ g.size <= MaxOpen /\ g.below < Hangover
    /\ g.open => g.size < MaxOpen
    /\ g.candidate \in Seq(Blocks) /\ Len(g.candidate) < MinOpen

VoiceGate == GateFields /\ GateBounded(gate)

ClosedBy ==
    /\ closes \in Nat
    /\ closes <= (IF vMain \in {"joining", "closed"} THEN 1 ELSE 0)
                   + (IF vMain # "new" /\ worker = "off" THEN 1 ELSE 0)
    /\ vMain = "new" => worker = "off"

VoiceBounds == VoicePlaces /\ VoiceCounts /\ VoiceBlocks /\ VoiceGate /\ ClosedBy

LEMMA VoiceNumbers ==
    /\ VTrials \in Nat /\ MaxBlocks \in Nat /\ PreRoll \in Nat
    /\ QueueBlocks \in Nat /\ QueueBlocks > 0 /\ MinOpen \in Nat /\ MinOpen > 0
    /\ Hangover \in Nat /\ Hangover > 0 /\ MaxOpen \in Nat /\ MaxOpen > 0
  BY VoiceAssumption

LEMMA QuietBounded == GateBounded(Quiet)
  BY VoiceNumbers, EmptySeq DEF GateBounded, Quiet

LEMMA PushBounded ==
    ASSUME VoiceGate, VoiceCounts, block \in Blocks, ~Finished(Push(gate, block))
    PROVE  GateBounded(Push(gate, block))
<1> USE VoiceNumbers
<1>1. /\ gate = [preRoll |-> gate.preRoll, candidate |-> gate.candidate, open |-> gate.open,
                 size |-> gate.size, below |-> gate.below, from |-> gate.from, since |-> gate.since]
      /\ gate.open \in BOOLEAN /\ gate.size \in Nat /\ gate.below \in Nat
      /\ gate.size <= MaxOpen /\ gate.below < Hangover /\ (gate.open => gate.size < MaxOpen)
      /\ gate.candidate \in Seq(Blocks) /\ Len(gate.candidate) < MinOpen
  BY DEF VoiceGate, GateFields, GateBounded
<1>e. <<>> \in Seq(Blocks) /\ Len(<<>>) < MinOpen
  BY EmptySeq
<1>2. CASE gate.open
  <2> DEFINE s == Push(gate, block)
  <2>1. /\ s.open = gate.open /\ s.size = gate.size + 1 /\ s.candidate = gate.candidate
        /\ s.below = IF block.speech THEN 0 ELSE gate.below + 1
    BY <1>1, <1>2 DEF Push, PushOpen
  <2>2. ~(s.size >= MaxOpen \/ s.below >= Hangover)
    BY <1>2, <2>1 DEF Finished
  <2> HIDE DEF s
  <2>3. s.size \in Nat /\ s.below \in Nat
    BY <1>1, <2>1
  <2>4. s.size < MaxOpen /\ s.below < Hangover
    BY <2>2, <2>3
  <2>5. GateBounded(s)
    BY <1>1, <2>1, <2>3, <2>4 DEF GateBounded
  <2> QED BY <2>5 DEF s
<1>3. CASE ~gate.open /\ block.speech
  <2> DEFINE cand == Append(gate.candidate, block)
             s == Push(gate, block)
  <2>1. cand \in Seq(Blocks) /\ Len(cand) = Len(gate.candidate) + 1 /\ Len(gate.candidate) \in Nat
    BY <1>1, AppendProperties, LenProperties
  <2>2. CASE Len(cand) < MinOpen
    <3>1. /\ s.open = gate.open /\ s.size = gate.size /\ s.below = gate.below /\ s.candidate = cand
      BY <1>1, <1>3, <2>2 DEF Push, PushClosed, Opened
    <3> HIDE DEF cand, s
    <3>2. GateBounded(s)
      BY <1>1, <2>1, <2>2, <3>1 DEF GateBounded
    <3> QED BY <3>2 DEF s
  <2>3. CASE ~(Len(cand) < MinOpen)
    <3>1. /\ s.open = TRUE /\ s.size = Len(cand) /\ s.below = 0 /\ s.candidate = <<>>
      BY <1>3, <2>3 DEF Push, PushClosed, Opened, Quiet
    <3> HIDE DEF cand
    <3>2. ~(s.size >= MaxOpen)
      BY <3>1 DEF Finished
    <3> HIDE DEF s
    <3>3. Len(cand) \in Nat
      BY <2>1
    <3>4. /\ s.size \in Nat /\ s.below \in Nat /\ s.size <= MaxOpen
          /\ s.below < Hangover /\ s.size < MaxOpen
      BY <3>1, <3>2, <3>3
    <3>5. GateBounded(s)
      BY <1>e, <3>1, <3>4, Zenon DEF GateBounded
    <3> QED BY <3>5 DEF s
  <2> QED BY <2>2, <2>3
<1>4. CASE ~gate.open /\ ~block.speech
  <2> DEFINE s == Push(gate, block)
  <2>1. s.open = FALSE /\ s.size = 0 /\ s.below = 0 /\ s.candidate = <<>>
    BY <1>4 DEF Push, PushClosed, Quiet
  <2> HIDE DEF s
  <2>2. s.size \in Nat /\ s.below \in Nat /\ s.size <= MaxOpen /\ s.below < Hangover
    BY <2>1
  <2>3. GateBounded(s)
    BY <1>e, <2>1, <2>2, Zenon DEF GateBounded
  <2> QED BY <2>3 DEF s
<1> QED BY <1>2, <1>3, <1>4

LEMMA VoicePlacesStep == VoicePlaces /\ [VNext]_voiceVars => VoicePlaces'
<1> SUFFICES ASSUME VoicePlaces, [VNext]_voiceVars PROVE VoicePlaces'
  OBVIOUS
<1> USE DEF VoicePlaces
<1>0. CASE UNCHANGED voiceVars
  BY <1>0, Zenon DEF voiceVars
<1>1. CASE Capture \/ BumpGeneration \/ DrainAudio \/ VPoll
  <2>1. UNCHANGED <<worker, capture, mine, theirs>> /\ vMain' \in {vMain, "draining", "idle"}
    BY <1>1 DEF Capture, BumpGeneration, DrainAudio, VPoll
  <2>2. workerError' = workerError \/ workerError' = FALSE
    BY <1>1 DEF Capture, BumpGeneration, DrainAudio, VPoll
  <2> QED BY <2>1, <2>2
<1>2. CASE VStart
  BY <1>2 DEF VStart
<1>3. CASE CloseReads
  BY <1>3 DEF CloseReads
<1>4. CASE CloseClears
  BY <1>4 DEF CloseClears
<1>5. CASE CloseCapture
  BY <1>5 DEF CloseCapture
<1>6. CASE CloseJoins \/ WorkerStops \/ WorkerGets \/ WorkerReadsGeneration
  BY <1>6 DEF CloseJoins, WorkerStops, WorkerGets, WorkerReadsGeneration
<1>7. CASE WorkerPushes
  BY <1>7 DEF WorkerPushes
<1>8. CASE WorkerChecks \/ Accept \/ WorkerFails
  BY <1>8 DEF WorkerChecks, Accept, WorkerFails
<1>9. CASE WorkerTakesCapture
  BY <1>9 DEF WorkerTakesCapture
<1>10. CASE WorkerClosesCapture
  BY <1>10 DEF WorkerClosesCapture
<1> QED
  BY <1>0, <1>1, <1>2, <1>3, <1>4, <1>5, <1>6, <1>7, <1>8, <1>9, <1>10 DEF VNext

LEMMA VoiceCountsStep == VoiceCounts /\ [VNext]_voiceVars => VoiceCounts'
<1> SUFFICES ASSUME VoiceCounts, [VNext]_voiceVars PROVE VoiceCounts'
  OBVIOUS
<1> USE VoiceNumbers DEF VoiceCounts
<1>0. CASE UNCHANGED voiceVars
  BY <1>0 DEF voiceVars
<1>1. CASE Capture \/ BumpGeneration \/ DrainAudio \/ VPoll \/ VStart
  BY <1>1 DEF Capture, BumpGeneration, DrainAudio, VPoll, VStart
<1>2. CASE CloseReads \/ CloseClears \/ CloseCapture \/ CloseJoins \/ WorkerStops \/ WorkerGets
  BY <1>2 DEF CloseReads, CloseClears, CloseCapture, CloseJoins, WorkerStops, WorkerGets
<1>3. CASE WorkerReadsGeneration \/ WorkerChecks \/ Accept \/ WorkerFails \/ WorkerTakesCapture \/ WorkerClosesCapture
  BY <1>3 DEF WorkerReadsGeneration, WorkerChecks, Accept, WorkerFails, WorkerTakesCapture, WorkerClosesCapture
<1>4. CASE WorkerPushes
  <2>1. /\ UNCHANGED <<generation, captured, lastGen>>
        /\ openGen' \in {-1, blockGen, openGen} /\ (blockGen' = blockGen \/ (blockGen' = openGen /\ openGen # -1))
    BY <1>4 DEF WorkerPushes
  <2> QED BY <2>1
<1> QED
  BY <1>0, <1>1, <1>2, <1>3, <1>4 DEF VNext

LEMMA VoiceBlocksStep == VoiceCounts /\ VoiceBlocks /\ [VNext]_voiceVars => VoiceBlocks'
<1> SUFFICES ASSUME VoiceCounts, VoiceBlocks, [VNext]_voiceVars PROVE VoiceBlocks'
  OBVIOUS
<1> USE VoiceNumbers DEF VoiceBlocks
<1>a. NoBlock \in Blocks /\ <<>> \in Seq(Blocks) /\ Len(<<>>) = 0
  BY EmptySeq DEF NoBlock, Blocks
<1>0. CASE UNCHANGED voiceVars
  BY <1>0 DEF voiceVars
<1>1. CASE Capture
  <2>1. PICK voiced \in BOOLEAN :
          audio' = Append(IF Len(audio) < QueueBlocks THEN audio ELSE Tail(audio), [speech |-> voiced, g |-> generation])
    BY <1>1 DEF Capture
  <2>2. block' = block
    BY <1>1 DEF Capture
  <2> DEFINE b == [speech |-> voiced, g |-> generation]
             s == IF Len(audio) < QueueBlocks THEN audio ELSE Tail(audio)
  <2>3. b \in Blocks
    BY DEF Blocks, VoiceCounts
  <2>4. s \in Seq(Blocks) /\ Len(s) < QueueBlocks /\ Len(s) \in Nat
    <3>1. CASE Len(audio) < QueueBlocks
      BY <3>1, LenProperties
    <3>2. CASE ~(Len(audio) < QueueBlocks)
      <4>1. Len(audio) \in Nat /\ audio # <<>>
        BY <3>2, LenProperties
      <4>2. Tail(audio) \in Seq(Blocks) /\ Len(Tail(audio)) = Len(audio) - 1
        BY <4>1, HeadTailProperties
      <4> QED BY <3>2, <4>1, <4>2
    <3> QED BY <3>1, <3>2
  <2>5. audio' = Append(s, b)
    BY <2>1
  <2> HIDE DEF s, b
  <2>6. Append(s, b) \in Seq(Blocks) /\ Len(Append(s, b)) = Len(s) + 1
    BY <2>3, <2>4, AppendProperties
  <2> QED BY <2>2, <2>4, <2>5, <2>6
<1>2. CASE DrainAudio
  <2>1. audio' = <<>> /\ block' = block
    BY <1>2 DEF DrainAudio
  <2>2. 0 <= QueueBlocks
    OBVIOUS
  <2> QED BY <1>a, <2>1, <2>2, Zenon
<1>3. CASE WorkerGets
  <2>1. audio # <<>> /\ block' = Head(audio) /\ audio' = Tail(audio)
    BY <1>3 DEF WorkerGets
  <2>2. /\ Head(audio) \in Blocks /\ Tail(audio) \in Seq(Blocks) /\ Len(Tail(audio)) = Len(audio) - 1
        /\ Len(audio) \in Nat
    BY <2>1, HeadTailProperties, LenProperties
  <2> QED BY <2>1, <2>2
<1>4. CASE WorkerPushes
  BY <1>a, <1>4 DEF WorkerPushes
<1>5. CASE BumpGeneration \/ VPoll \/ VStart \/ CloseReads \/ CloseClears \/ CloseCapture \/ CloseJoins
  BY <1>5 DEF BumpGeneration, VPoll, VStart, CloseReads, CloseClears, CloseCapture, CloseJoins
<1>6. CASE WorkerStops \/ WorkerReadsGeneration \/ WorkerChecks \/ Accept \/ WorkerFails \/ WorkerTakesCapture
           \/ WorkerClosesCapture
  BY <1>6 DEF WorkerStops, WorkerReadsGeneration, WorkerChecks, Accept, WorkerFails, WorkerTakesCapture,
              WorkerClosesCapture
<1> QED
  BY <1>0, <1>1, <1>2, <1>3, <1>4, <1>5, <1>6 DEF VNext

LEMMA VoiceGateStep == VoiceCounts /\ VoiceBlocks /\ VoiceGate /\ [VNext]_voiceVars => VoiceGate'
<1> SUFFICES ASSUME VoiceCounts, VoiceBlocks, VoiceGate, [VNext]_voiceVars PROVE VoiceGate'
  OBVIOUS
<1>a. gate' = gate => VoiceGate'
  BY DEF VoiceGate, GateFields, GateBounded
<1>b. gate' = Quiet => VoiceGate'
  <2> SUFFICES ASSUME gate' = Quiet PROVE VoiceGate'
    OBVIOUS
  <2>1. GateFields'
    BY DEF GateFields, Quiet
  <2>2. GateBounded(gate')
    BY QuietBounded
  <2> QED BY <2>1, <2>2 DEF VoiceGate, GateBounded
<1>1. CASE WorkerPushes
  <2> DEFINE s == Push(gate, block)
  <2>1. \/ gate' = Quiet
        \/ gate' = s /\ ~Finished(s)
    BY <1>1 DEF WorkerPushes
  <2>2. CASE gate' = s /\ ~Finished(s)
    <3>1. GateFields'
      BY <2>2, PushKeepsStamp DEF VoiceGate, GateFields
    <3>2. GateBounded(s)
      BY <2>2, PushBounded DEF VoiceBlocks
    <3> HIDE DEF s
    <3> QED BY <2>2, <3>1, <3>2 DEF VoiceGate, GateBounded
  <2> QED BY <1>b, <2>1, <2>2
<1>2. CASE WorkerReadsGeneration
  BY <1>a, <1>b, <1>2 DEF WorkerReadsGeneration
<1>3. CASE Capture \/ DrainAudio \/ BumpGeneration \/ VPoll \/ VStart \/ CloseReads \/ CloseClears \/ CloseCapture \/ CloseJoins
  BY <1>a, <1>3 DEF Capture, DrainAudio, BumpGeneration, VPoll, VStart, CloseReads, CloseClears, CloseCapture, CloseJoins
<1>4. CASE WorkerStops \/ WorkerGets \/ WorkerChecks \/ Accept \/ WorkerFails \/ WorkerTakesCapture
           \/ WorkerClosesCapture \/ UNCHANGED voiceVars
  BY <1>a, <1>4 DEF WorkerStops, WorkerGets, WorkerChecks, Accept, WorkerFails, WorkerTakesCapture,
                    WorkerClosesCapture, voiceVars
<1> QED
  BY <1>1, <1>2, <1>3, <1>4 DEF VNext

LEMMA ClosedByStep == VoicePlaces /\ ClosedBy /\ [VNext]_voiceVars => ClosedBy'
<1> SUFFICES ASSUME VoicePlaces, ClosedBy, [VNext]_voiceVars PROVE ClosedBy'
  OBVIOUS
<1> USE DEF ClosedBy
<1>1. CASE Capture \/ DrainAudio \/ BumpGeneration \/ VPoll \/ VStart
  BY <1>1 DEF Capture, DrainAudio, BumpGeneration, VPoll, VStart
<1>2. CASE CloseReads \/ CloseClears \/ CloseJoins
  BY <1>2 DEF CloseReads, CloseClears, CloseJoins
<1>3. CASE CloseCapture
  BY <1>3 DEF CloseCapture
<1>4. CASE WorkerStops \/ WorkerGets \/ WorkerReadsGeneration \/ WorkerPushes
  BY <1>4 DEF WorkerStops, WorkerGets, WorkerReadsGeneration, WorkerPushes
<1>5. CASE WorkerChecks \/ Accept \/ WorkerFails \/ WorkerTakesCapture
  BY <1>5 DEF WorkerChecks, Accept, WorkerFails, WorkerTakesCapture
<1>6. CASE WorkerClosesCapture
  BY <1>6 DEF WorkerClosesCapture
<1>7. CASE UNCHANGED voiceVars
  BY <1>7 DEF voiceVars
<1> QED
  BY <1>1, <1>2, <1>3, <1>4, <1>5, <1>6, <1>7 DEF VNext

LEMMA VoiceBoundsStep == VoiceBounds /\ [VNext]_voiceVars => VoiceBounds'
  BY VoicePlacesStep, VoiceCountsStep, VoiceBlocksStep, VoiceGateStep, ClosedByStep DEF VoiceBounds

LEMMA VoiceBoundsInit == VInit => VoiceBounds
<1> SUFFICES ASSUME VInit PROVE VoiceBounds
  OBVIOUS
<1>1. VoicePlaces
  BY Zenon DEF VInit, VoicePlaces
<1>4. VoiceCounts
  BY VoiceNumbers DEF VInit, VoiceCounts
<1>5. ClosedBy
  <2>1. vMain = "new" /\ worker = "off" /\ closes = 0
    BY DEF VInit
  <2> QED BY <2>1 DEF ClosedBy
<1>2. VoiceBlocks
  BY VoiceNumbers, EmptySeq DEF VInit, VoiceBlocks, NoBlock, Blocks
<1>3. VoiceGate
  BY QuietBounded DEF VInit, VoiceGate, GateFields, Quiet
<1> QED BY <1>1, <1>2, <1>3, <1>4, <1>5 DEF VoiceBounds

----------------------------------------------------------------------------
\* What is left of an earlier trial. Once begin_trial() has returned, the queue holds
\* blocks of this trial only, so that the one block of an earlier trial which may still
\* enter the segmenter is the one the worker had taken before.

AudioFresh ==
    /\ leftover \in 0..1
    /\ vMain = "draining" => leftover = 0
    /\ vMain # "draining" => \A i \in DOMAIN audio : audio[i].g = generation
    /\ leftover = 1 /\ worker \in {"have", "push"} => block.g = generation

LEMMA FreshInit == VInit => AudioFresh
<1> SUFFICES ASSUME VInit PROVE AudioFresh
  OBVIOUS
<1>1. leftover = 0 /\ vMain = "new" /\ worker = "off" /\ DOMAIN audio = {}
  BY DEF VInit
<1> QED BY <1>1 DEF AudioFresh

LEMMA FreshStep == VoiceBlocks /\ AudioFresh /\ [VNext]_voiceVars => AudioFresh'
<1> SUFFICES ASSUME VoiceBlocks, AudioFresh, [VNext]_voiceVars PROVE AudioFresh'
  OBVIOUS
<1>a. audio \in Seq(Blocks) /\ Len(audio) \in Nat /\ DOMAIN audio = 1..Len(audio)
  BY LenProperties DEF VoiceBlocks
<1>0. CASE UNCHANGED voiceVars
  BY <1>0 DEF voiceVars, AudioFresh
<1>1. CASE Capture
  <2> DEFINE s == IF Len(audio) < QueueBlocks THEN audio ELSE Tail(audio)
  <2>1. PICK voiced \in BOOLEAN : audio' = Append(s, [speech |-> voiced, g |-> generation])
    BY <1>1 DEF Capture
  <2>2. UNCHANGED <<leftover, vMain, worker, block, generation>>
    BY <1>1 DEF Capture
  <2>3. ASSUME vMain # "draining" PROVE \A i \in DOMAIN audio' : audio'[i].g = generation
    <3>1. s \in Seq(Blocks) /\ Len(s) \in Nat /\ \A i \in 1..Len(s) : s[i].g = generation
      <4>1. CASE Len(audio) < QueueBlocks
        BY <1>a, <2>3, <4>1 DEF AudioFresh
      <4>2. CASE ~(Len(audio) < QueueBlocks)
        <5>1. s = Tail(audio) /\ audio # <<>>
          BY <1>a, <4>2, VoiceNumbers
        <5>2. /\ Tail(audio) \in Seq(Blocks) /\ Len(Tail(audio)) = Len(audio) - 1
              /\ \A i \in 1..Len(Tail(audio)) : Tail(audio)[i] = audio[i + 1]
          BY <1>a, <5>1, HeadTailProperties
        <5> HIDE DEF s
        <5>3. \A i \in 1..Len(Tail(audio)) : i + 1 \in DOMAIN audio
          BY <1>a, <5>2
        <5>4. Len(Tail(audio)) \in Nat
          BY <5>2, LenProperties
        <5> QED BY <2>3, <5>1, <5>2, <5>3, <5>4 DEF AudioFresh
      <4> QED BY <4>1, <4>2
    <3> DEFINE b == [speech |-> voiced, g |-> generation]
    <3>2. audio' = Append(s, b) /\ b.g = generation
      BY <2>1
    <3> HIDE DEF s, b
    <3>3. /\ DOMAIN audio' = 1..(Len(s) + 1)
          /\ \A i \in 1..Len(s) : audio'[i] = s[i]
          /\ audio'[Len(s) + 1] = b
      BY <3>1, <3>2, AppendProperties, LenProperties
    <3> QED BY <3>1, <3>2, <3>3
  <2> QED BY <2>2, <2>3 DEF AudioFresh
<1>2. CASE BumpGeneration
  BY <1>2 DEF BumpGeneration, AudioFresh
<1>3. CASE DrainAudio
  <2>1. UNCHANGED <<leftover, worker, block, generation>> /\ audio' = <<>> /\ leftover = 0 /\ vMain' = "idle"
    BY <1>3 DEF DrainAudio, AudioFresh
  <2>2. DOMAIN audio' = {}
    BY <2>1
  <2> QED BY <2>1, <2>2 DEF AudioFresh
<1>4. CASE WorkerGets
  <2>1. /\ UNCHANGED <<leftover, vMain, generation>>
        /\ audio # <<>> /\ block' = Head(audio) /\ audio' = Tail(audio)
    BY <1>4 DEF WorkerGets
  <2>2. /\ Head(audio) = audio[1] /\ 1 \in DOMAIN audio
        /\ Len(Tail(audio)) = Len(audio) - 1 /\ DOMAIN Tail(audio) = 1..(Len(audio) - 1)
        /\ \A i \in 1..Len(Tail(audio)) : Tail(audio)[i] = audio[i + 1]
    BY <1>a, <2>1, HeadTailProperties, LenProperties
  <2>3. vMain # "draining" => block'.g = generation /\ \A i \in DOMAIN audio' : audio'[i].g = generation
    BY <1>a, <2>1, <2>2 DEF AudioFresh
  <2> QED BY <2>1, <2>3 DEF AudioFresh
<1>5. CASE WorkerPushes
  <2>1. /\ UNCHANGED <<vMain, generation, audio>> /\ worker = "push" /\ worker' \notin {"have", "push"}
        /\ leftover' = IF vMain # "draining" /\ blockGen = generation /\ block.g # generation
                         THEN leftover + 1 ELSE leftover
    BY <1>5 DEF WorkerPushes
  <2> QED BY <2>1 DEF AudioFresh
<1>6. CASE VPoll \/ VStart \/ CloseReads \/ CloseClears \/ CloseCapture \/ CloseJoins
  <2>1. /\ UNCHANGED <<leftover, generation, audio, block>> /\ vMain # "draining" /\ vMain' # "draining"
        /\ worker' \in {"have", "push"} => worker = worker'
    BY <1>6 DEF VPoll, VStart, CloseReads, CloseClears, CloseCapture, CloseJoins
  <2>2. \A i \in DOMAIN audio' : audio'[i].g = generation'
    BY <2>1 DEF AudioFresh
  <2>3. leftover' \in 0..1 /\ (leftover' = 1 /\ worker' \in {"have", "push"} => block'.g = generation')
    BY <2>1 DEF AudioFresh
  <2> QED BY <2>1, <2>2, <2>3 DEF AudioFresh
<1>7. CASE WorkerStops \/ WorkerReadsGeneration \/ WorkerChecks \/ Accept \/ WorkerFails \/ WorkerTakesCapture
           \/ WorkerClosesCapture
  <2>1. /\ UNCHANGED <<vMain, leftover, generation, audio, block>>
        /\ worker' \in {"have", "push"} => worker \in {"have", "push"}
    BY <1>7 DEF WorkerStops, WorkerReadsGeneration, WorkerChecks, Accept, WorkerFails, WorkerTakesCapture,
                WorkerClosesCapture
  <2>2. vMain' # "draining" => \A i \in DOMAIN audio' : audio'[i].g = generation'
    BY <2>1 DEF AudioFresh
  <2>3. /\ leftover' \in 0..1 /\ (vMain' = "draining" => leftover' = 0)
        /\ leftover' = 1 /\ worker' \in {"have", "push"} => block'.g = generation'
    BY <2>1 DEF AudioFresh
  <2> QED BY <2>2, <2>3 DEF AudioFresh
<1> QED
  BY <1>0, <1>1, <1>2, <1>3, <1>4, <1>5, <1>6, <1>7 DEF VNext

LEMMA FreshSafe == GenInv /\ AudioFresh => SpokenInThisTrial
  BY DEF GenInv, SpokenStamps, AudioFresh, SpokenInThisTrial

LEMMA VoiceBoundsSafe == VoiceBounds /\ AudioFresh => VoiceTypeOK
<1> SUFFICES ASSUME VoiceBounds, AudioFresh PROVE VoiceTypeOK
  OBVIOUS
<1>1. closes \in 0..2
  BY DEF VoiceBounds, ClosedBy
<1>2. gate.size <= MaxOpen /\ gate.below < Hangover /\ Len(gate.candidate) < MinOpen
  BY DEF VoiceBounds, VoiceGate, GateBounded
<1>3. {blockGen, lastGen} \subseteq 0..VTrials /\ generation \in 0..VTrials /\ captured \in 0..MaxBlocks
      /\ openGen \in -1..VTrials
  BY DEF VoiceBounds, VoiceCounts
<1>4. audio \in Seq(Blocks) /\ Len(audio) <= QueueBlocks /\ block \in Blocks
  BY DEF VoiceBounds, VoiceBlocks
<1>5. {capture, mine, theirs, workerError} \subseteq BOOLEAN
  BY Zenon DEF VoiceBounds, VoicePlaces
<1>6. VoicePlaces
  BY DEF VoiceBounds
<1>7. leftover \in Nat
  BY DEF AudioFresh
<1> QED BY <1>1, <1>2, <1>3, <1>4, <1>5, <1>6, <1>7, Zenon DEF VoicePlaces, VoiceTypeOK

\* What a poll can return was opened in its own trial, and of what was captured in an
\* earlier one no more than the block in the worker's hands enters the segmenter once
\* begin_trial() has returned (VoiceInput._process_block, begin_trial and poll).
THEOREM SpeechStaysInTrial == VoiceSpec => []SpokenInThisTrial
<1>1. VoiceBounds => VoiceBlocks
  BY DEF VoiceBounds
<1> QED
  BY <1>1, GenInit, GenStep, VoiceBoundsInit, VoiceBoundsStep, FreshInit, FreshStep, FreshSafe, PTL
     DEF VoiceSpec

----------------------------------------------------------------------------
\* The Rerun window. What was taken from the queue is older than what is still in it, so
\* that serial numbers tell snapshots apart; a generation of an earlier evaluation is
\* disowned or gone, so that it takes nothing more.

Snapshots == [serial : Nat, kind : Kinds, frames : BOOLEAN]
Generation == [at : {"waiting", "emitting", "gone"}, item : Nat, stop : BOOLEAN, stalled : BOOLEAN,
               eval : Nat]
Records == [serial : Nat, gen : Nat, into : Nat]

\* What will not be shown and is no longer counted by the sink either.
lost == reported + failed

RerunTypes ==
    /\ rpc \in {"idle", "running", "flush", "join", "probe"}
    /\ reval \in Nat /\ logged \in Nat /\ dropped \in Nat /\ lost \in Nat
    /\ rqueue \in Seq(Snapshots) /\ Len(rqueue) <= RQueueSize
    /\ workers \in Seq(Generation) /\ emitted \in Seq(Records)
    /\ owned \in BOOLEAN /\ disabled \in BOOLEAN
    /\ owned => workers # <<>>

Emitting == {g \in DOMAIN workers : workers[g].at = "emitting"}

RerunCount == logged = Len(emitted) + Len(rqueue) + dropped + lost + Cardinality(Emitting)

SerialsRise ==
    /\ \A i, j \in DOMAIN rqueue : i < j => rqueue[i].serial < rqueue[j].serial
    /\ \A i \in DOMAIN rqueue : rqueue[i].serial <= logged

Past(n) == n <= logged /\ \A k \in DOMAIN rqueue : n < rqueue[k].serial

AllTaken ==
    /\ \A i \in DOMAIN emitted : Past(emitted[i].serial)
    /\ \A g \in Emitting : Past(workers[g].item)

NoneTwice ==
    /\ \A g, h \in Emitting : workers[g].item = workers[h].item => g = h
    /\ \A i \in DOMAIN emitted, g \in Emitting :
         /\ emitted[i].serial # workers[g].item
         /\ emitted[i].gen = g => emitted[i].serial < workers[g].item
    /\ \A i, j \in DOMAIN emitted : emitted[i].serial = emitted[j].serial => i = j
    /\ RecordedInOrder

Late(i) == emitted[i].into > workers[emitted[i].gen].eval

Lives ==
    /\ \A g \in DOMAIN workers :
         /\ workers[g].eval <= reval
         /\ workers[g].eval < reval => Disowned(g) \/ workers[g].at = "gone"
    /\ \A i \in DOMAIN emitted : emitted[i].gen \in DOMAIN workers /\ emitted[i].into <= reval

Stragglers ==
    /\ \A i, j \in DOMAIN emitted : Late(i) /\ Late(j) /\ emitted[i].gen = emitted[j].gen => i = j
    /\ \A i \in DOMAIN emitted : emitted[i].gen \in Emitting => ~Late(i)

\* A failed emit was warned of, and nothing counted as dropped waits longer for its
\* report than the shutdown of the worker.
RerunTold ==
    /\ reported \in Nat /\ failed \in Nat /\ announced \in Nat /\ warned \in BOOLEAN
    /\ warned => announced > 0
    /\ failed > 0 => announced > 0
    /\ ~owned /\ rpc # "probe" => dropped = 0

RerunInv == RerunTypes /\ RerunCount /\ SerialsRise /\ AllTaken /\ NoneTwice /\ Lives /\ Stragglers

LEMMA Reported ==
    ASSUME NEW a \in Nat, NEW b \in Nat, NEW c \in Nat, NEW d \in Nat, NEW e \in Nat,
           NEW x \in Nat, NEW y \in Nat, x + y = c + d
    PROVE  a + b + c + d + e = a + b + x + y + e
  OBVIOUS

LEMMA Abandoned ==
    ASSUME NEW a \in Nat, NEW b \in Nat, NEW c \in Nat, NEW d \in Nat, NEW e \in Nat,
           NEW x \in Nat, NEW y \in Nat, x + y = b + c
    PROVE  a + b + c + d + e = a + x + y + d + e
  OBVIOUS

LEMMA Queueing ==
    ASSUME NEW a \in Nat, NEW b \in Nat, NEW c \in Nat, NEW d \in Nat, NEW e \in Nat,
           NEW x \in Nat, NEW y \in Nat, x + y = b + c + 1
    PROVE  a + b + c + d + e + 1 = a + x + y + d + e
  OBVIOUS

LEMMA RerunNumbers == RQueueSize \in Nat /\ RQueueSize > 0
  BY RerunAssumption

LEMMA EditedWorker ==
    ASSUME RerunTypes, NEW g \in DOMAIN workers, NEW w \in Generation,
           workers' = [workers EXCEPT ![g] = w]
    PROVE  /\ workers' \in Seq(Generation) /\ Len(workers') = Len(workers)
           /\ DOMAIN workers' = DOMAIN workers
           /\ workers'[g] = w /\ \A h \in DOMAIN workers : h # g => workers'[h] = workers[h]
           /\ workers' = <<>> => workers = <<>>
<1>1. workers \in Seq(Generation) /\ DOMAIN workers = 1..Len(workers) /\ g \in 1..Len(workers)
      /\ Len(workers) \in Nat
  BY LenProperties DEF RerunTypes
<1>2. /\ workers' \in Seq(Generation) /\ Len(workers') = Len(workers)
      /\ \A h \in 1..Len(workers) : workers'[h] = IF h = g THEN w ELSE workers[h]
  BY <1>1, ExceptSeq
<1>3. DOMAIN workers' = 1..Len(workers')
  BY <1>2, LenProperties
<1>4. workers # <<>>
  BY <1>1
<1> QED BY <1>1, <1>2, <1>3, <1>4

LEMMA WorkerIs ==
    ASSUME RerunTypes, NEW g \in DOMAIN workers
    PROVE  /\ workers[g] \in Generation
           /\ workers[g] = [at |-> workers[g].at, item |-> workers[g].item, stop |-> workers[g].stop,
                            stalled |-> workers[g].stalled, eval |-> workers[g].eval]
           /\ workers[g].at \in {"waiting", "emitting", "gone"} /\ workers[g].item \in Nat
           /\ workers[g].stop \in BOOLEAN /\ workers[g].stalled \in BOOLEAN /\ workers[g].eval \in Nat
           /\ g \in 1..Len(workers) /\ Len(workers) \in Nat
<1>1. workers \in Seq(Generation)
  BY DEF RerunTypes
<1>2. g \in 1..Len(workers) /\ Len(workers) \in Nat
  BY <1>1, LenProperties
<1>3. workers[g] \in Generation
  BY <1>1, <1>2, ElementOfSeq
<1> QED BY <1>2, <1>3 DEF Generation

LEMMA CurrentIs == ASSUME RerunTypes, owned PROVE Current \in DOMAIN workers
<1>1. workers \in Seq(Generation) /\ workers # <<>>
  BY DEF RerunTypes
<1>2. Len(workers) \in Nat /\ Len(workers) # 0 /\ DOMAIN workers = 1..Len(workers)
  BY <1>1, LenProperties, EmptySeq
<1> QED BY <1>2 DEF Current

\* A step that moves no snapshot: no serial number, record or lifetime changes.
Still ==
    /\ UNCHANGED <<reval, logged, rqueue, emitted>>
    /\ Len(workers') = Len(workers) /\ DOMAIN workers' = DOMAIN workers
    /\ \A g \in DOMAIN workers :
         /\ workers'[g].item = workers[g].item /\ workers'[g].eval = workers[g].eval
         /\ workers'[g].at = "emitting" <=> workers[g].at = "emitting"
         /\ workers[g].at = "gone" => workers'[g].at = "gone"
    /\ owned' = owned

LEMMA StillKeeps ==
    ASSUME RerunInv, Still
    PROVE  SerialsRise' /\ AllTaken' /\ NoneTwice' /\ Lives' /\ Stragglers' /\ Emitting' = Emitting
<1>1. Emitting' = Emitting
  BY DEF Emitting, Still
<1>2. SerialsRise'
  BY DEF RerunInv, SerialsRise, Still
<1>3. AllTaken'
  BY <1>1 DEF RerunInv, AllTaken, Past, Still, Emitting
<1>4. NoneTwice'
  BY <1>1 DEF RerunInv, NoneTwice, RecordedInOrder, Still, Emitting
<1>5. \A g : Disowned(g)' = Disowned(g)
  BY DEF Disowned, Current, Still
<1>6. Lives'
  BY <1>5 DEF RerunInv, Lives, Still
<1>7. \A i \in DOMAIN emitted : Late(i)' = Late(i)
  BY DEF RerunInv, Lives, Late, Still
<1>8. Stragglers'
  BY <1>1, <1>7 DEF RerunInv, Stragglers, Still
<1> QED BY <1>1, <1>2, <1>3, <1>4, <1>6, <1>8

LEMMA RerunCounts ==
    ASSUME RerunTypes
    PROVE  /\ Len(emitted) \in Nat /\ Len(rqueue) \in Nat /\ IsFiniteSet(Emitting)
           /\ Cardinality(Emitting) \in Nat
<1>1. Len(emitted) \in Nat /\ Len(rqueue) \in Nat /\ Len(workers) \in Nat /\ DOMAIN workers = 1..Len(workers)
  BY LenProperties DEF RerunTypes
<1>2. IsFiniteSet(1..Len(workers))
  BY <1>1, FS_Interval
<1>3. Emitting \in SUBSET (1..Len(workers))
  BY <1>1 DEF Emitting
<1>4. IsFiniteSet(Emitting)
  BY <1>2, <1>3, FS_Subset
<1> QED BY <1>1, <1>4, FS_CardinalityType

LEMMA StartStep == ASSUME RerunInv, StartRecording PROVE RerunInv'
<1>1. /\ UNCHANGED <<logged, rqueue, workers, owned, dropped, emitted, lost>>
      /\ rpc' \in {"flush", "running"} /\ (disabled' = disabled \/ disabled' = TRUE)
      /\ \/ reval' = reval
         \/ ~WorkerAlive /\ reval' = reval + 1
  BY DEF StartRecording, told, lost
<1>2. reval \in Nat /\ reval' \in Nat /\ reval <= reval'
  BY <1>1 DEF RerunInv, RerunTypes
<1>3. disabled' \in BOOLEAN
  BY <1>1 DEF RerunInv, RerunTypes
<1>4. RerunTypes'
  BY <1>1, <1>2, <1>3 DEF RerunInv, RerunTypes
<1>5. Emitting' = Emitting /\ RerunCount'
  BY <1>1 DEF RerunInv, Emitting, RerunCount
<1>6. SerialsRise' /\ AllTaken' /\ NoneTwice'
  BY <1>1, <1>5 DEF RerunInv, SerialsRise, AllTaken, Past, NoneTwice, RecordedInOrder
<1>7. Stragglers'
  BY <1>1, <1>5 DEF RerunInv, Stragglers, Late
<1>8. Lives'
  <2>1. ASSUME NEW i \in DOMAIN emitted
        PROVE  emitted[i].gen \in DOMAIN workers /\ emitted[i].into <= reval'
    <3>1. emitted[i].into \in Nat /\ emitted[i].into <= reval
      <4>1. emitted \in Seq(Records) /\ i \in 1..Len(emitted)
        BY LenProperties DEF RerunInv, RerunTypes
      <4>2. emitted[i] \in Records
        BY <4>1, ElementOfSeq
      <4> QED BY <4>2 DEF Records, RerunInv, Lives
    <3> QED BY <1>2, <3>1 DEF RerunInv, Lives
  <2>2. ASSUME NEW g \in DOMAIN workers
        PROVE  /\ workers[g].eval <= reval'
               /\ workers[g].eval < reval' => Disowned(g) \/ workers[g].at = "gone"
    <3>1. workers[g].eval \in Nat /\ workers[g].eval <= reval
          /\ (workers[g].eval < reval => Disowned(g) \/ workers[g].at = "gone")
      BY WorkerIs DEF RerunInv, Lives
    <3>2. CASE reval' = reval
      BY <3>1, <3>2
    <3>3. CASE ~WorkerAlive
      <4>1. Disowned(g) \/ workers[g].at = "gone"
        BY <3>3 DEF WorkerAlive, Disowned
      <4> QED BY <1>2, <3>1, <4>1
    <3> QED BY <1>1, <3>2, <3>3
  <2> QED BY <1>1, <2>1, <2>2 DEF Lives, Disowned, Current
<1> QED BY <1>4, <1>5, <1>6, <1>7, <1>8 DEF RerunInv

\* FlushTrial, EndRecording, StopWorker, ProbeAndReport and Leave move no snapshot.
LEMMA QuietSteps ==
    ASSUME RerunInv, RerunTold,
           FlushTrial \/ EndRecording \/ StopWorker \/ ProbeAndReport \/ (\E g \in DOMAIN workers : Leave(g))
             \/ UNCHANGED rerunVars
    PROVE  RerunInv'
<1>a. RerunTypes
  BY DEF RerunInv
<1>1. Still /\ workers' \in Seq(Generation) /\ (owned => workers' # <<>>)
  <2>1. CASE FlushTrial
    <3> DEFINE w == [workers[Current] EXCEPT !.stalled = TRUE]
    <3>1. owned /\ workers' = [workers EXCEPT ![Current] = w]
          /\ UNCHANGED <<reval, logged, rqueue, emitted, owned>>
      BY <2>1 DEF FlushTrial
    <3>2. Current \in DOMAIN workers
      BY <1>a, <3>1, CurrentIs
    <3>3. w \in Generation /\ w.item = workers[Current].item /\ w.eval = workers[Current].eval
          /\ w.at = workers[Current].at
      BY <1>a, <3>2, WorkerIs DEF Generation
    <3> HIDE DEF w
    <3> QED BY <1>a, <3>1, <3>2, <3>3, EditedWorker DEF Still, RerunTypes
  <2>2. CASE StopWorker /\ owned
    <3> DEFINE w == [workers[Current] EXCEPT !.stop = TRUE]
    <3>1. owned /\ workers' = [workers EXCEPT ![Current] = w]
          /\ UNCHANGED <<reval, logged, rqueue, emitted, owned>>
      BY <2>2 DEF StopWorker
    <3>2. Current \in DOMAIN workers
      BY <1>a, <3>1, CurrentIs
    <3>3. w \in Generation /\ w.item = workers[Current].item /\ w.eval = workers[Current].eval
          /\ w.at = workers[Current].at
      BY <1>a, <3>2, WorkerIs DEF Generation
    <3> HIDE DEF w
    <3> QED BY <1>a, <3>1, <3>2, <3>3, EditedWorker DEF Still, RerunTypes
  <2>3. CASE (StopWorker /\ ~owned) \/ EndRecording \/ ProbeAndReport \/ UNCHANGED rerunVars
    <3>1. UNCHANGED <<reval, logged, rqueue, emitted, owned, workers>>
      BY <2>3 DEF StopWorker, EndRecording, ProbeAndReport, rerunVars
    <3> QED BY <1>a, <3>1 DEF Still, RerunTypes
  <2>4. CASE \E g \in DOMAIN workers : Leave(g)
    <3>1. PICK g \in DOMAIN workers : Leave(g)
      BY <2>4
    <3> DEFINE w == [workers[g] EXCEPT !.at = "gone"]
    <3>2. workers' = [workers EXCEPT ![g] = w] /\ workers[g].at = "waiting"
          /\ UNCHANGED <<reval, logged, rqueue, emitted, owned>>
      BY <3>1 DEF Leave
    <3>3. w \in Generation /\ w.item = workers[g].item /\ w.eval = workers[g].eval
          /\ w.at = "gone"
      BY <1>a, WorkerIs DEF Generation
    <3> HIDE DEF w
    <3> QED BY <1>a, <3>2, <3>3, EditedWorker DEF Still, RerunTypes
  <2> QED BY <2>1, <2>2, <2>3, <2>4
<1>2. SerialsRise' /\ AllTaken' /\ NoneTwice' /\ Lives' /\ Stragglers' /\ Emitting' = Emitting
  BY <1>1, StillKeeps
<1>3. /\ rpc' \in {"idle", "running", "flush", "join", "probe"}
      /\ (disabled' = disabled \/ disabled' = TRUE)
      /\ \/ UNCHANGED <<dropped, lost>>
         \/ dropped' = 0 /\ lost' = lost + dropped
  <2>1. CASE FlushTrial \/ EndRecording \/ StopWorker \/ (\E g \in DOMAIN workers : Leave(g))
               \/ UNCHANGED rerunVars
    BY <1>a, <2>1 DEF FlushTrial, EndRecording, StopWorker, Leave, rerunVars, told, lost, RerunTypes
  <2>2. CASE ProbeAndReport
    <3>1. /\ rpc' = "idle" /\ (disabled' = disabled \/ disabled' = TRUE) /\ dropped' = 0
          /\ reported' = reported + dropped /\ failed' = failed
      BY <2>2 DEF ProbeAndReport
    <3>2. reported \in Nat /\ failed \in Nat /\ dropped \in Nat
      BY <1>a DEF RerunTypes, RerunTold
    <3> QED BY <3>1, <3>2 DEF lost
  <2> QED BY <2>1, <2>2
<1>4. disabled' \in BOOLEAN
  BY <1>a, <1>3 DEF RerunTypes
<1>5. dropped' \in Nat /\ lost' \in Nat /\ dropped' + lost' = dropped + lost
  BY <1>a, <1>3 DEF RerunTypes
<1>6. RerunTypes'
  BY <1>a, <1>1, <1>3, <1>4, <1>5 DEF RerunTypes, Still
<1>7. RerunCount'
  <2>1. Len(emitted') = Len(emitted) /\ Len(rqueue') = Len(rqueue) /\ logged' = logged
        /\ Cardinality(Emitting') = Cardinality(Emitting)
    BY <1>1, <1>2 DEF Still
  <2>2. logged = Len(emitted) + Len(rqueue) + dropped + lost + Cardinality(Emitting)
    BY DEF RerunInv, RerunCount
  <2>3. dropped \in Nat /\ lost \in Nat
    BY <1>a DEF RerunTypes
  <2>4. Len(emitted) \in Nat /\ Len(rqueue) \in Nat /\ Cardinality(Emitting) \in Nat
    BY <1>a, RerunCounts
  <2>5. Len(emitted) + Len(rqueue) + dropped + lost + Cardinality(Emitting)
          = Len(emitted) + Len(rqueue) + dropped' + lost' + Cardinality(Emitting)
    <3>1. PICK a \in Nat, b \in Nat, c \in Nat, d \in Nat, e \in Nat, x \in Nat, y \in Nat :
            a = Len(emitted) /\ b = Len(rqueue) /\ c = dropped /\ d = lost /\ e = Cardinality(Emitting) /\ x = dropped' /\ y = lost'
      BY <1>5, <2>3, <2>4
    <3>2. x + y = c + d
      BY <1>5, <3>1
    <3>3. a + b + c + d + e = a + b + x + y + e
      BY <3>2, Reported
    <3> QED BY <3>1, <3>3
  <2> QED BY <2>1, <2>2, <2>5, Zenon DEF RerunCount
<1> QED BY <1>2, <1>6, <1>7 DEF RerunInv

\* A snapshot enters behind the others, the oldest making room for it (_enqueue).
LEMMA LogStep ==
    ASSUME RerunInv, NEW kind \in Kinds, LogSnapshot(kind)
    PROVE  RerunInv'
<1>a. RerunTypes
  BY DEF RerunInv
<1> DEFINE full == Len(rqueue) >= RQueueSize
           base == IF full THEN Tail(rqueue) ELSE rqueue
           new == Snapshot(kind)
<1>1. /\ UNCHANGED <<rpc, reval, disabled, emitted, lost>> /\ logged' = logged + 1
      /\ workers' = Generations /\ owned' = TRUE
      /\ rqueue' = Append(base, new) /\ dropped' = (IF full THEN dropped + 1 ELSE dropped)
  BY DEF LogSnapshot, Evicted, told, lost
<1>2. Len(rqueue) \in Nat /\ logged \in Nat /\ dropped \in Nat /\ rqueue \in Seq(Snapshots)
      /\ Len(rqueue) <= RQueueSize /\ RQueueSize \in Nat /\ RQueueSize > 0
  BY <1>a, RerunCounts, RerunNumbers DEF RerunTypes
<1>3. /\ base \in Seq(Snapshots) /\ Len(base) \in Nat /\ Len(base) < RQueueSize
      /\ Len(base) = (IF full THEN Len(rqueue) - 1 ELSE Len(rqueue))
      /\ DOMAIN base = 1..Len(base)
      /\ \A i \in DOMAIN base : base[i] = (IF full THEN rqueue[i+1] ELSE rqueue[i])
  <2>1. CASE full
    <3>1. rqueue # <<>>
      BY <1>2, <2>1
    <3>2. Tail(rqueue) \in Seq(Snapshots) /\ Len(Tail(rqueue)) = Len(rqueue) - 1
          /\ \A i \in 1..Len(Tail(rqueue)) : Tail(rqueue)[i] = rqueue[i+1]
      BY <1>2, <3>1, HeadTailProperties
    <3> QED BY <1>2, <2>1, <3>2, LenProperties
  <2>2. CASE ~full
    BY <1>2, <2>2, LenProperties
  <2> QED BY <2>1, <2>2
<1>4. new \in Snapshots /\ new.serial = logged + 1
  BY <1>2 DEF Snapshots, Snapshot
<1>5. /\ \A i \in DOMAIN base : base[i].serial \in Nat /\ base[i].serial <= logged
      /\ \A i, j \in DOMAIN base : i < j => base[i].serial < base[j].serial
      /\ \A i \in DOMAIN base : \E k \in DOMAIN rqueue : base[i] = rqueue[k]
  <2>1. DOMAIN rqueue = 1..Len(rqueue)
    BY <1>2, LenProperties
  <2>2. \A i \in DOMAIN rqueue : rqueue[i].serial \in Nat /\ rqueue[i].serial <= logged
    <3> SUFFICES ASSUME NEW i \in DOMAIN rqueue
                 PROVE  rqueue[i].serial \in Nat /\ rqueue[i].serial <= logged
      OBVIOUS
    <3>1. rqueue[i] \in Snapshots
      BY <1>2, <2>1, ElementOfSeq
    <3> QED BY <3>1 DEF Snapshots, RerunInv, SerialsRise
  <2>3. CASE full
    <3>1. \A i \in DOMAIN base : i + 1 \in DOMAIN rqueue /\ base[i] = rqueue[i+1] /\ i \in Nat
      BY <1>2, <1>3, <2>1, <2>3
    <3> HIDE DEF base
    <3> QED BY <2>2, <3>1 DEF RerunInv, SerialsRise
  <2>4. CASE ~full
    <3>1. base = rqueue
      BY <2>4
    <3> HIDE DEF base
    <3> QED BY <2>2, <3>1 DEF RerunInv, SerialsRise
  <2> QED BY <2>3, <2>4
<1> HIDE DEF base, new, full
<1>6. /\ rqueue' \in Seq(Snapshots) /\ Len(rqueue') = Len(base) + 1
      /\ DOMAIN rqueue' = 1..(Len(base) + 1)
      /\ \A i \in DOMAIN base : rqueue'[i] = base[i]
      /\ rqueue'[Len(base) + 1] = new
  BY <1>1, <1>3, <1>4, AppendProperties, LenProperties
<1>7. /\ workers' \in Seq(Generation) /\ workers' # <<>> /\ Emitting' = Emitting
      /\ DOMAIN workers \subseteq DOMAIN workers'
      /\ \A g \in DOMAIN workers : workers'[g] = workers[g]
      /\ \A g \in DOMAIN workers' : g \in DOMAIN workers \/ (workers'[g].eval = reval /\ g = Current')
      /\ \A g \in DOMAIN workers : Disowned(g) \/ workers[g].at = "gone" =>
           Disowned(g)' \/ workers'[g].at = "gone"
  <2>1. workers \in Seq(Generation) /\ Len(workers) \in Nat /\ DOMAIN workers = 1..Len(workers)
    BY <1>a, LenProperties DEF RerunTypes
  <2>2. CASE WorkerAlive
    <3>1. workers' = workers /\ owned
      BY <1>1, <2>2 DEF Generations, WorkerAlive
    <3>2. owned' = owned
      BY <1>1, <3>1, <1>a DEF RerunTypes
    <3> QED BY <1>a, <2>1, <3>1, <3>2 DEF RerunTypes, Emitting, Disowned, Current
  <2>3. CASE ~WorkerAlive
    <3> DEFINE w == [at |-> "waiting", item |-> 0, stop |-> FALSE, stalled |-> FALSE, eval |-> reval]
    <3>1. workers' = Append(workers, w)
      BY <1>1, <2>3 DEF Generations
    <3>2. w \in Generation /\ w.eval = reval /\ w.at = "waiting"
      BY <1>a DEF Generation, RerunTypes
    <3> HIDE DEF w
    <3>3. /\ workers' \in Seq(Generation) /\ Len(workers') = Len(workers) + 1
          /\ DOMAIN workers' = 1..(Len(workers) + 1)
          /\ \A g \in DOMAIN workers : workers'[g] = workers[g]
          /\ workers'[Len(workers) + 1] = w
      BY <2>1, <3>1, <3>2, AppendProperties, LenProperties
    <3>4. Emitting' = Emitting
      <4>1. \A g \in DOMAIN workers' : g \in DOMAIN workers \/ g = Len(workers) + 1
        BY <2>1, <3>3
      <4>2. DOMAIN workers \subseteq DOMAIN workers'
        BY <2>1, <3>3
      <4>3. Emitting' = {g \in DOMAIN workers' : workers'[g].at = "emitting"}
        BY DEF Emitting
      <4> QED BY <3>2, <3>3, <4>1, <4>2, <4>3 DEF Emitting
    <3>5. Current' = Len(workers) + 1 /\ \A g \in DOMAIN workers : Disowned(g)'
      BY <2>1, <3>3 DEF Current, Disowned
    <3>6. workers' # <<>>
      BY <2>1, <3>3, EmptySeq
    <3> QED BY <2>1, <3>2, <3>3, <3>4, <3>5, <3>6
  <2> QED BY <2>2, <2>3
<1>8. RerunTypes'
  <2>1. logged' \in Nat /\ dropped' \in Nat
    BY <1>1, <1>2
  <2>2. Len(rqueue') <= RQueueSize
    BY <1>2, <1>3, <1>6
  <2>3. owned' \in BOOLEAN /\ (owned' => workers' # <<>>)
    BY <1>1, <1>7
  <2> QED BY <1>a, <1>1, <1>6, <1>7, <2>1, <2>2, <2>3 DEF RerunTypes
<1>9. RerunCount'
  <2>1. Len(emitted') = Len(emitted) /\ lost' = lost /\ Cardinality(Emitting') = Cardinality(Emitting)
    BY <1>1, <1>7
  <2>2. Len(emitted) \in Nat /\ lost \in Nat /\ Cardinality(Emitting) \in Nat
    BY <1>a, RerunCounts DEF RerunTypes
  <2>3. logged = Len(emitted) + Len(rqueue) + dropped + lost + Cardinality(Emitting)
    BY DEF RerunInv, RerunCount
  <2>4. Len(rqueue') + dropped' = Len(rqueue) + dropped + 1
    BY <1>1, <1>2, <1>3, <1>6
  <2>5. Len(rqueue') \in Nat /\ dropped' \in Nat
    BY <1>1, <1>2, <1>3, <1>6
  <2>6. logged + 1 = Len(emitted) + Len(rqueue') + dropped' + lost + Cardinality(Emitting)
    <3>1. PICK a \in Nat, b \in Nat, c \in Nat, d \in Nat, e \in Nat, x \in Nat, y \in Nat :
            a = Len(emitted) /\ b = Len(rqueue) /\ c = dropped /\ d = lost /\ e = Cardinality(Emitting) /\ x = Len(rqueue') /\ y = dropped'
      BY <1>2, <2>2, <2>5
    <3>2. x + y = b + c + 1
      BY <2>4, <3>1
    <3>3. a + b + c + d + e + 1 = a + x + y + d + e
      BY <3>2, Queueing
    <3> QED BY <2>3, <3>1, <3>3
  <2> QED BY <1>1, <2>1, <2>6, Zenon DEF RerunCount
<1>10. \A i \in DOMAIN rqueue' : \/ i \in DOMAIN base /\ rqueue'[i] = base[i]
                                 \/ i = Len(base) + 1 /\ rqueue'[i].serial = logged + 1
  BY <1>3, <1>4, <1>6
<1>11. SerialsRise'
  <2>1. \A i \in DOMAIN rqueue' : rqueue'[i].serial <= logged'
    BY <1>1, <1>2, <1>5, <1>10
  <2>2. ASSUME NEW i \in DOMAIN rqueue', NEW j \in DOMAIN rqueue', i < j
        PROVE  rqueue'[i].serial < rqueue'[j].serial
    <3>1. i \in DOMAIN base
      BY <1>3, <1>6, <2>2
    <3>2. CASE j \in DOMAIN base
      BY <1>5, <1>6, <2>2, <3>1, <3>2
    <3>3. CASE j = Len(base) + 1
      BY <1>2, <1>4, <1>5, <1>6, <3>1, <3>3
    <3> QED BY <1>10, <3>2, <3>3
  <2> QED BY <2>1, <2>2 DEF SerialsRise
<1>12. ASSUME NEW n \in Nat, Past(n) PROVE Past(n)'
  <2>1. n <= logged /\ n <= logged'
    BY <1>1, <1>2, <1>12 DEF Past
  <2>2. ASSUME NEW k \in DOMAIN rqueue' PROVE n < rqueue'[k].serial
    <3>1. CASE k \in DOMAIN base /\ rqueue'[k] = base[k]
      BY <1>5, <1>12, <3>1 DEF Past
    <3>2. CASE rqueue'[k].serial = logged + 1
      BY <1>2, <2>1, <3>2
    <3> QED BY <1>10, <3>1, <3>2
  <2> QED BY <2>1, <2>2 DEF Past
<1>13. \A i \in DOMAIN emitted : emitted[i].serial \in Nat /\ emitted[i].gen \in Nat /\ emitted[i].into \in Nat
  <2> SUFFICES ASSUME NEW i \in DOMAIN emitted
               PROVE  emitted[i].serial \in Nat /\ emitted[i].gen \in Nat /\ emitted[i].into \in Nat
    OBVIOUS
  <2>1. emitted \in Seq(Records) /\ i \in 1..Len(emitted)
    BY <1>a, LenProperties DEF RerunTypes
  <2>2. emitted[i] \in Records
    BY <2>1, ElementOfSeq
  <2> QED BY <2>2 DEF Records
<1>14. AllTaken'
  <2>1. \A g \in Emitting : workers'[g].item = workers[g].item /\ workers[g].item \in Nat
    BY <1>a, <1>7, WorkerIs DEF Emitting
  <2> QED BY <1>1, <1>7, <1>12, <1>13, <2>1 DEF RerunInv, AllTaken
<1>15. NoneTwice'
  <2>1. \A g \in Emitting : workers'[g] = workers[g]
    BY <1>7 DEF Emitting
  <2> QED BY <1>1, <1>7, <2>1 DEF RerunInv, NoneTwice, RecordedInOrder
<1>16. Lives'
  <2>1. ASSUME NEW g \in DOMAIN workers'
        PROVE  /\ workers'[g].eval <= reval'
               /\ workers'[g].eval < reval' => Disowned(g)' \/ workers'[g].at = "gone"
    <3>1. reval \in Nat /\ reval' = reval
      BY <1>a, <1>1 DEF RerunTypes
    <3>2. CASE g \in DOMAIN workers
      BY <1>7, <3>1, <3>2 DEF RerunInv, Lives
    <3>3. CASE workers'[g].eval = reval
      BY <3>1, <3>3
    <3> QED BY <1>7, <3>2, <3>3
  <2>2. \A i \in DOMAIN emitted' : emitted'[i].gen \in DOMAIN workers' /\ emitted'[i].into <= reval'
    BY <1>1, <1>7 DEF RerunInv, Lives
  <2> QED BY <2>1, <2>2 DEF Lives
<1>17. Stragglers'
  <2>1. \A i \in DOMAIN emitted : Late(i)' = Late(i)
    BY <1>1, <1>7 DEF RerunInv, Lives, Late
  <2> QED BY <1>1, <1>7, <2>1 DEF RerunInv, Stragglers
<1> QED BY <1>8, <1>9, <1>11, <1>14, <1>15, <1>16, <1>17 DEF RerunInv

\* A backlog nobody will take is counted (_shutdown).
LEMMA DisownStep == ASSUME RerunInv, Disown PROVE RerunInv'
<1>a. RerunTypes
  BY DEF RerunInv
<1>1. /\ UNCHANGED <<reval, logged, workers, disabled, emitted, lost>>
      /\ owned' = FALSE /\ rpc' = "probe"
      /\ \/ dropped' = dropped + Len(rqueue) /\ rqueue' = <<>>
         \/ UNCHANGED <<dropped, rqueue>>
  BY DEF Disown, lost
<1>2. Len(rqueue) \in Nat /\ dropped \in Nat /\ RQueueSize \in Nat
  BY <1>a, RerunCounts, RerunNumbers DEF RerunTypes
<1>3. /\ rqueue' \in Seq(Snapshots) /\ Len(rqueue') <= RQueueSize /\ dropped' \in Nat
      /\ Len(rqueue') + dropped' = Len(rqueue) + dropped /\ Len(rqueue') \in Nat
      /\ rqueue' = rqueue \/ DOMAIN rqueue' = {}
  <2>1. CASE rqueue' = <<>> /\ dropped' = dropped + Len(rqueue)
    <3>1. rqueue' \in Seq(Snapshots) /\ Len(rqueue') = 0
      BY <2>1, EmptySeq
    <3>2. DOMAIN rqueue' = {}
      BY <2>1
    <3> QED BY <1>2, <2>1, <3>1, <3>2
  <2>2. CASE UNCHANGED <<dropped, rqueue>>
    BY <1>a, <1>2, <2>2 DEF RerunTypes
  <2> QED BY <1>1, <2>1, <2>2
<1>4. RerunTypes'
  BY <1>a, <1>1, <1>3 DEF RerunTypes
<1>5. Emitting' = Emitting
  BY <1>1 DEF Emitting
<1>6. RerunCount'
  <2>1. Len(emitted') = Len(emitted) /\ lost' = lost /\ Cardinality(Emitting') = Cardinality(Emitting)
        /\ logged' = logged
    BY <1>1, <1>5
  <2>2. Len(emitted) \in Nat /\ lost \in Nat /\ Cardinality(Emitting) \in Nat
    BY <1>a, RerunCounts DEF RerunTypes
  <2>3. logged = Len(emitted) + Len(rqueue) + dropped + lost + Cardinality(Emitting)
    BY DEF RerunInv, RerunCount
  <2>4. Len(emitted) + Len(rqueue) + dropped + lost + Cardinality(Emitting)
          = Len(emitted) + Len(rqueue') + dropped' + lost + Cardinality(Emitting)
    <3>1. PICK a \in Nat, b \in Nat, c \in Nat, d \in Nat, e \in Nat, x \in Nat, y \in Nat :
            a = Len(emitted) /\ b = Len(rqueue) /\ c = dropped /\ d = lost /\ e = Cardinality(Emitting) /\ x = Len(rqueue') /\ y = dropped'
      BY <1>2, <1>3, <2>2
    <3>2. x + y = b + c
      BY <1>3, <3>1
    <3>3. a + b + c + d + e = a + x + y + d + e
      BY <3>2, Abandoned
    <3> QED BY <3>1, <3>3
  <2> QED BY <2>1, <2>3, <2>4, Zenon DEF RerunCount
<1>7. SerialsRise' /\ AllTaken'
  BY <1>1, <1>3, <1>5 DEF RerunInv, SerialsRise, AllTaken, Past
<1>8. NoneTwice' /\ Stragglers'
  BY <1>1, <1>5 DEF RerunInv, NoneTwice, RecordedInOrder, Stragglers, Late
<1>9. Lives'
  BY <1>1 DEF RerunInv, Lives, Disowned
<1> QED BY <1>4, <1>6, <1>7, <1>8, <1>9 DEF RerunInv

\* The sink's own generation takes the oldest snapshot.
LEMMA TakeStep == ASSUME RerunInv, NEW g \in DOMAIN workers, Take(g) PROVE RerunInv'
<1>a. RerunTypes
  BY DEF RerunInv
<1> DEFINE n == Head(rqueue).serial
           w == [workers[g] EXCEPT !.at = "emitting", !.item = n]
<1>1. /\ workers[g].at = "waiting" /\ ~Disowned(g) /\ rqueue # <<>> /\ rqueue' = Tail(rqueue)
      /\ workers' = [workers EXCEPT ![g] = w]
      /\ UNCHANGED <<rpc, reval, logged, owned, dropped, disabled, emitted, lost>>
  BY DEF Take, told, lost
<1>2. /\ rqueue \in Seq(Snapshots) /\ Len(rqueue) \in Nat /\ Len(rqueue) > 0 /\ Len(rqueue) <= RQueueSize
      /\ DOMAIN rqueue = 1..Len(rqueue) /\ Head(rqueue) = rqueue[1] /\ RQueueSize \in Nat
  BY <1>a, <1>1, LenProperties, EmptySeq, RerunNumbers DEF RerunTypes
<1>3. /\ rqueue' \in Seq(Snapshots) /\ Len(rqueue') = Len(rqueue) - 1
      /\ \A i \in 1..Len(rqueue') : rqueue'[i] = rqueue[i+1]
  BY <1>1, <1>2, HeadTailProperties
<1>4. Len(rqueue') \in Nat /\ DOMAIN rqueue' = 1..Len(rqueue')
      /\ \A i \in DOMAIN rqueue' : i \in Nat /\ i + 1 \in DOMAIN rqueue /\ rqueue'[i] = rqueue[i+1]
  BY <1>2, <1>3, LenProperties
<1>5. \A i \in DOMAIN rqueue : rqueue[i].serial \in Nat
  <2> SUFFICES ASSUME NEW i \in DOMAIN rqueue PROVE rqueue[i].serial \in Nat
    OBVIOUS
  <2>1. rqueue[i] \in Snapshots
    BY <1>2, ElementOfSeq
  <2> QED BY <2>1 DEF Snapshots
<1>6. 1 \in DOMAIN rqueue /\ n = rqueue[1].serial /\ n \in Nat /\ n <= logged
      /\ \A i \in DOMAIN rqueue' : n < rqueue'[i].serial
  <2>1. 1 \in DOMAIN rqueue /\ n = rqueue[1].serial
    BY <1>2
  <2>2. \A i \in DOMAIN rqueue' : 1 < i + 1
    BY <1>4
  <2> QED BY <1>4, <1>5, <2>1, <2>2 DEF RerunInv, SerialsRise
<1>7. w \in Generation /\ w.item = n /\ w.eval = workers[g].eval /\ w.at = "emitting"
  BY <1>a, <1>6, WorkerIs DEF Generation
<1> HIDE DEF n, w
<1>8. /\ workers' \in Seq(Generation) /\ Len(workers') = Len(workers) /\ DOMAIN workers' = DOMAIN workers
      /\ workers'[g] = w /\ \A h \in DOMAIN workers : h # g => workers'[h] = workers[h]
      /\ workers' # <<>>
  <2>1. workers # <<>>
    BY <1>a, WorkerIs
  <2> QED BY <1>a, <1>1, <1>7, <2>1, EditedWorker
<1>9. g \notin Emitting /\ Emitting' = Emitting \cup {g}
  BY <1>1, <1>7, <1>8 DEF Emitting
<1>10. RerunTypes'
  <2>1. Len(rqueue') <= RQueueSize
    BY <1>2, <1>3
  <2> QED BY <1>a, <1>1, <1>3, <1>8, <2>1 DEF RerunTypes
<1>11. RerunCount'
  <2>1. Len(emitted) \in Nat /\ IsFiniteSet(Emitting) /\ Cardinality(Emitting) \in Nat
    BY <1>a, RerunCounts
  <2>2. Cardinality(Emitting') = Cardinality(Emitting) + 1
    BY <1>9, <2>1, FS_AddElement
  <2>3. logged = Len(emitted) + Len(rqueue) + dropped + lost + Cardinality(Emitting)
    BY DEF RerunInv, RerunCount
  <2>4. dropped \in Nat /\ lost \in Nat
    BY <1>a DEF RerunTypes
  <2>5. PICK a \in Nat, b \in Nat, c \in Nat, d \in Nat, e \in Nat, x \in Nat :
          /\ a = Len(emitted) /\ b = Len(rqueue) /\ c = dropped /\ d = lost
          /\ e = Cardinality(Emitting) /\ x = Len(rqueue')
    BY <1>2, <1>4, <2>1, <2>4
  <2>6. b = x + 1
    BY <1>2, <1>3, <2>5
  <2>7. a + b + c + d + e = a + x + c + d + (e + 1)
    BY <2>6
  <2>8. UNCHANGED <<logged, dropped, lost>> /\ Len(emitted') = a
    BY <1>1, <2>5
  <2> QED BY <2>2, <2>3, <2>5, <2>7, <2>8 DEF RerunCount
<1>12. SerialsRise'
  <2>1. \A i, j \in DOMAIN rqueue' : i < j => i + 1 < j + 1
    BY <1>4
  <2> QED BY <1>1, <1>4, <2>1 DEF RerunInv, SerialsRise
<1>13. ASSUME NEW m, Past(m) PROVE Past(m)' /\ m < n
  BY <1>1, <1>4, <1>6, <1>13 DEF Past
<1>14. AllTaken'
  <2> DEFINE P(m) == m <= logged' /\ \A k \in DOMAIN rqueue' : m < rqueue'[k].serial
  <2>1. P(n)
    BY <1>1, <1>6
  <2>2. ASSUME NEW m, Past(m) PROVE P(m)
    BY <1>13, <2>2 DEF Past
  <2>3. \A i \in DOMAIN emitted : P(emitted[i].serial)
    BY <2>2 DEF RerunInv, AllTaken
  <2>4. ASSUME NEW h \in Emitting' PROVE P(workers'[h].item)
    <3>1. CASE h = g
      BY <1>7, <1>8, <2>1, <3>1
    <3>2. CASE h # g
      <4>0. h \in Emitting
        BY <1>9, <2>4, <3>2
      <4>1. h \in Emitting /\ workers'[h] = workers[h]
        BY <1>8, <3>2, <4>0 DEF Emitting
      <4>2. Past(workers[h].item)
        BY <4>1 DEF RerunInv, AllTaken
      <4> QED BY <2>2, <4>1, <4>2
    <3> QED BY <3>1, <3>2
  <2>5. /\ \A i \in DOMAIN emitted' : P(emitted'[i].serial)
        /\ \A h \in Emitting' : P(workers'[h].item)
    BY <1>1, <2>3, <2>4
  <2> QED BY <2>5 DEF AllTaken, Past
<1>15. /\ \A h \in Emitting : workers[h].item \in Nat /\ workers[h].item < n
       /\ \A i \in DOMAIN emitted : emitted[i].serial \in Nat /\ emitted[i].serial < n
  <2>1. \A h \in Emitting : workers[h].item \in Nat /\ workers[h].item < n
    BY <1>a, <1>13, WorkerIs DEF RerunInv, AllTaken, Emitting
  <2>2. ASSUME NEW i \in DOMAIN emitted PROVE emitted[i].serial \in Nat /\ emitted[i].serial < n
    <3>1. emitted \in Seq(Records) /\ i \in 1..Len(emitted)
      BY <1>a, LenProperties DEF RerunTypes
    <3>2. emitted[i] \in Records
      BY <3>1, ElementOfSeq
    <3> QED BY <1>13, <3>2 DEF Records, RerunInv, AllTaken
  <2> QED BY <2>1, <2>2
<1>16. NoneTwice'
  <2>1. \A h \in Emitting' : \/ h = g /\ workers'[h].item = n
                             \/ h # g /\ h \in Emitting /\ workers'[h].item = workers[h].item
    BY <1>7, <1>8, <1>9 DEF Emitting
  <2>2. \A h, k \in Emitting' : workers'[h].item = workers'[k].item => h = k
    BY <1>6, <1>15, <2>1 DEF RerunInv, NoneTwice
  <2>3. \A i \in DOMAIN emitted, h \in Emitting' :
          /\ emitted[i].serial # workers'[h].item
          /\ emitted[i].gen = h => emitted[i].serial < workers'[h].item
    BY <1>6, <1>15, <2>1 DEF RerunInv, NoneTwice
  <2> QED BY <1>1, <2>2, <2>3 DEF RerunInv, NoneTwice, RecordedInOrder
<1>17. \A h \in DOMAIN workers : workers'[h].eval = workers[h].eval
                                 /\ (workers[h].at = "gone" => workers'[h].at = "gone")
  BY <1>1, <1>7, <1>8
<1>18. Lives'
  <2>1. \A h : Disowned(h)' = Disowned(h)
    BY <1>1, <1>8 DEF Disowned, Current
  <2> QED BY <1>1, <1>8, <1>17, <2>1 DEF RerunInv, Lives
<1>19. Stragglers'
  <2>1. \A i \in DOMAIN emitted : Late(i)' = Late(i)
    BY <1>1, <1>17 DEF RerunInv, Lives, Late
  <2>2. workers[g].eval = reval /\ reval \in Nat
    <3>1. workers[g].eval \in Nat /\ reval \in Nat
      BY <1>a, WorkerIs DEF RerunTypes
    <3> QED BY <1>1, <3>1 DEF RerunInv, Lives
  <2>3. ASSUME NEW i \in DOMAIN emitted, emitted[i].gen = g PROVE ~Late(i)
    <3>1. emitted \in Seq(Records) /\ i \in 1..Len(emitted)
      BY <1>a, LenProperties DEF RerunTypes
    <3>2. emitted[i] \in Records
      BY <3>1, ElementOfSeq
    <3>3. emitted[i].into \in Nat /\ emitted[i].into <= reval
      BY <3>2 DEF Records, RerunInv, Lives
    <3> QED BY <2>2, <2>3, <3>3 DEF Late
  <2> QED BY <1>1, <1>9, <2>1, <2>3 DEF RerunInv, Stragglers
<1> QED BY <1>10, <1>11, <1>12, <1>14, <1>16, <1>18, <1>19 DEF RerunInv

\* What the SDK is done with: recorded, or failed.
LEMMA EmitStep == ASSUME RerunInv, RerunTold, NEW g \in DOMAIN workers, Emit(g) PROVE RerunInv'
<1>a. RerunTypes
  BY DEF RerunInv
<1> DEFINE w == [workers[g] EXCEPT !.at = "waiting", !.item = 0]
           r == [serial |-> workers[g].item, gen |-> g, into |-> reval]
<1>1. /\ workers[g].at = "emitting" /\ workers' = [workers EXCEPT ![g] = w]
      /\ UNCHANGED <<rpc, reval, logged, rqueue, owned, dropped, disabled>>
      /\ \/ emitted' = Append(emitted, r) /\ lost' = lost
         \/ lost' = lost + 1 /\ emitted' = emitted
  <2>1. /\ workers[g].at = "emitting" /\ workers' = [workers EXCEPT ![g] = w]
        /\ UNCHANGED <<rpc, reval, logged, rqueue, owned, dropped, disabled>>
        /\ \/ emitted' = Append(emitted, r) /\ reported' = reported /\ failed' = failed
           \/ failed' = failed + 1 /\ reported' = reported /\ emitted' = emitted
    BY DEF Emit, told
  <2>2. reported \in Nat /\ failed \in Nat
    BY DEF RerunTold
  <2> QED BY <2>1, <2>2 DEF lost
<1>2. w \in Generation /\ w.eval = workers[g].eval /\ w.at = "waiting"
  BY <1>a, WorkerIs DEF Generation
<1>3. r \in Records /\ r.serial = workers[g].item /\ r.gen = g /\ r.into = reval
  BY <1>a, WorkerIs DEF Records, RerunTypes
<1> HIDE DEF w, r
<1>4. /\ workers' \in Seq(Generation) /\ Len(workers') = Len(workers) /\ DOMAIN workers' = DOMAIN workers
      /\ workers'[g] = w /\ \A h \in DOMAIN workers : h # g => workers'[h] = workers[h]
      /\ workers' # <<>>
  <2>1. workers # <<>>
    BY <1>a, WorkerIs
  <2> QED BY <1>a, <1>1, <1>2, <2>1, EditedWorker
<1>5. g \in Emitting /\ Emitting' = Emitting \ {g}
  BY <1>1, <1>2, <1>4 DEF Emitting
<1>6. emitted \in Seq(Records) /\ Len(emitted) \in Nat /\ DOMAIN emitted = 1..Len(emitted) /\ lost \in Nat
  BY <1>a, LenProperties DEF RerunTypes
<1>7. /\ emitted' \in Seq(Records) /\ Len(emitted') \in Nat /\ lost' \in Nat
      /\ Len(emitted') + lost' = Len(emitted) + lost + 1
      /\ DOMAIN emitted \subseteq DOMAIN emitted'
      /\ \A i \in DOMAIN emitted : emitted'[i] = emitted[i]
      /\ \A i \in DOMAIN emitted' : \/ i \in DOMAIN emitted
                                    \/ i = Len(emitted) + 1 /\ emitted'[i] = r
  <2>1. CASE emitted' = Append(emitted, r) /\ lost' = lost
    <3>1. /\ emitted' \in Seq(Records) /\ Len(emitted') = Len(emitted) + 1
          /\ \A i \in 1..Len(emitted) : emitted'[i] = emitted[i]
          /\ emitted'[Len(emitted) + 1] = r
      BY <1>3, <1>6, <2>1, AppendProperties
    <3>2. DOMAIN emitted' = 1..(Len(emitted) + 1)
      BY <3>1, LenProperties
    <3> QED BY <1>6, <2>1, <3>1, <3>2
  <2>2. CASE lost' = lost + 1 /\ emitted' = emitted
    BY <1>6, <2>2
  <2> QED BY <1>1, <2>1, <2>2
<1>8. RerunTypes'
  BY <1>a, <1>1, <1>4, <1>7 DEF RerunTypes
<1>9. RerunCount'
  <2>1. Len(rqueue) \in Nat /\ IsFiniteSet(Emitting) /\ Cardinality(Emitting) \in Nat
    BY <1>a, RerunCounts
  <2>2. Cardinality(Emitting') = Cardinality(Emitting) - 1 /\ IsFiniteSet(Emitting')
    BY <1>5, <2>1, FS_RemoveElement
  <2>3. Cardinality(Emitting') \in Nat
    BY <2>2, FS_CardinalityType
  <2>4. logged = Len(emitted) + Len(rqueue) + dropped + lost + Cardinality(Emitting)
    BY DEF RerunInv, RerunCount
  <2>5. dropped \in Nat
    BY <1>a DEF RerunTypes
  <2>6. PICK a \in Nat, b \in Nat, c \in Nat, d \in Nat, e \in Nat, x \in Nat, y \in Nat, z \in Nat :
          /\ a = Len(emitted) /\ b = Len(rqueue) /\ c = dropped /\ d = lost
          /\ e = Cardinality(Emitting) /\ x = Len(emitted') /\ y = lost' /\ z = Cardinality(Emitting')
    BY <1>6, <1>7, <2>1, <2>3, <2>5
  <2>7. x + y = a + d + 1 /\ z = e - 1
    BY <1>7, <2>2, <2>6
  <2>8. a + b + c + d + e = x + b + c + y + z
    BY <2>7
  <2>9. UNCHANGED <<logged, dropped>> /\ Len(rqueue') = b
    BY <1>1, <2>6
  <2> QED BY <2>4, <2>6, <2>8, <2>9 DEF RerunCount
<1>10. SerialsRise'
  BY <1>1 DEF RerunInv, SerialsRise
<1>11. Emitting' \subseteq Emitting /\ \A h \in Emitting' : h # g /\ workers'[h] = workers[h]
  BY <1>4, <1>5 DEF Emitting
<1>12. AllTaken'
  <2>1. Past(r.serial)
    BY <1>3, <1>5 DEF RerunInv, AllTaken
  <2>2. ASSUME NEW m PROVE Past(m) => Past(m)'
    BY <1>1 DEF Past
  <2>3. \A i \in DOMAIN emitted' : Past(emitted'[i].serial)
    BY <1>7, <2>1 DEF RerunInv, AllTaken
  <2>4. \A h \in Emitting' : Past(workers'[h].item)
    BY <1>11 DEF RerunInv, AllTaken
  <2> QED BY <1>1, <2>3, <2>4 DEF AllTaken, Past
<1>13. \A i \in DOMAIN emitted : emitted[i].serial # r.serial /\ (emitted[i].gen = g => emitted[i].serial < r.serial)
  BY <1>3, <1>5 DEF RerunInv, NoneTwice
<1>14. \A h \in Emitting' : r.serial # workers[h].item /\ r.gen # h
  BY <1>3, <1>5, <1>11 DEF RerunInv, NoneTwice
<1>15. NoneTwice'
  <2>1. \A h, k \in Emitting' : workers'[h].item = workers'[k].item => h = k
    BY <1>11 DEF RerunInv, NoneTwice
  <2>2. \A i \in DOMAIN emitted', h \in Emitting' :
          /\ emitted'[i].serial # workers'[h].item
          /\ emitted'[i].gen = h => emitted'[i].serial < workers'[h].item
    <3> SUFFICES ASSUME NEW i \in DOMAIN emitted', NEW h \in Emitting'
                 PROVE  /\ emitted'[i].serial # workers'[h].item
                        /\ emitted'[i].gen = h => emitted'[i].serial < workers'[h].item
      OBVIOUS
    <3>1. workers'[h] = workers[h] /\ h \in Emitting
      BY <1>11
    <3>2. CASE i \in DOMAIN emitted
      BY <1>7, <3>1, <3>2 DEF RerunInv, NoneTwice
    <3>3. CASE emitted'[i] = r
      BY <1>14, <3>1, <3>3
    <3> QED BY <1>7, <3>2, <3>3
  <2>3. \A i, j \in DOMAIN emitted' : emitted'[i].serial = emitted'[j].serial => i = j
    BY <1>7, <1>13 DEF RerunInv, NoneTwice
  <2>4. ASSUME NEW i \in DOMAIN emitted', NEW j \in DOMAIN emitted', i < j,
               emitted'[i].gen = emitted'[j].gen
        PROVE  emitted'[i].serial < emitted'[j].serial
    <3>1. i \in DOMAIN emitted
      BY <1>6, <1>7, <2>4, LenProperties
    <3>2. CASE j \in DOMAIN emitted
      BY <1>7, <2>4, <3>1, <3>2 DEF RerunInv, NoneTwice, RecordedInOrder
    <3>3. CASE emitted'[j] = r
      BY <1>3, <1>7, <1>13, <2>4, <3>1, <3>3
    <3> QED BY <1>7, <3>2, <3>3
  <2> QED BY <2>1, <2>2, <2>3, <2>4 DEF NoneTwice, RecordedInOrder
<1>16. \A h \in DOMAIN workers : workers'[h].eval = workers[h].eval
                                 /\ (workers[h].at = "gone" => workers'[h].at = "gone")
  BY <1>1, <1>2, <1>4
<1>17. Lives'
  <2>1. \A h : Disowned(h)' = Disowned(h)
    BY <1>1, <1>4 DEF Disowned, Current
  <2>2. reval \in Nat
    BY <1>a DEF RerunTypes
  <2>3. \A i \in DOMAIN emitted' : emitted'[i].gen \in DOMAIN workers' /\ emitted'[i].into <= reval'
    BY <1>1, <1>3, <1>4, <1>7, <2>2 DEF RerunInv, Lives
  <2> QED BY <1>1, <1>4, <1>16, <2>1, <2>3 DEF RerunInv, Lives
<1>18. Stragglers'
  <2>1. \A i \in DOMAIN emitted : Late(i)' = Late(i)
    BY <1>7, <1>16 DEF RerunInv, Lives, Late
  <2>2. \A i \in DOMAIN emitted : emitted[i].gen = g => ~Late(i)
    BY <1>5 DEF RerunInv, Stragglers
  <2>3. \A i, j \in DOMAIN emitted' :
          Late(i)' /\ Late(j)' /\ emitted'[i].gen = emitted'[j].gen => i = j
    BY <1>3, <1>7, <2>1, <2>2 DEF RerunInv, Stragglers
  <2>4. \A i \in DOMAIN emitted' : emitted'[i].gen \in Emitting' => ~Late(i)'
    BY <1>3, <1>7, <1>11, <2>1 DEF RerunInv, Stragglers
  <2> QED BY <2>3, <2>4 DEF Stragglers
<1> QED BY <1>8, <1>9, <1>10, <1>12, <1>15, <1>17, <1>18 DEF RerunInv

LEMMA ToldStep == ASSUME RerunTypes, RerunTold, [RerunNext]_rerunVars PROVE RerunTold'
<1> USE DEF RerunTold
<1>1. CASE StartRecording
  BY <1>1 DEF StartRecording, told, WorkerAlive
<1>2. CASE \E kind \in Kinds : LogSnapshot(kind)
  BY <1>2 DEF LogSnapshot, told
<1>3. CASE Disown
  BY <1>3 DEF Disown
<1>4. CASE \E g \in DOMAIN workers : Take(g) \/ Leave(g)
  BY <1>4 DEF Take, Leave, told
<1>5. CASE \E g \in DOMAIN workers : Emit(g)
  <2>1. /\ UNCHANGED <<owned, rpc, dropped, reported>>
        /\ \/ UNCHANGED <<failed, warned, announced>>
           \/ /\ failed' = failed + 1 /\ warned' = TRUE
              /\ announced' = IF warned THEN announced ELSE announced + 1
    BY <1>5 DEF Emit, told
  <2>2. CASE UNCHANGED <<failed, warned, announced>>
    BY <2>1, <2>2
  <2>3. CASE /\ failed' = failed + 1 /\ warned' = TRUE
             /\ announced' = IF warned THEN announced ELSE announced + 1
    <3>1. announced' \in Nat /\ announced' > 0
      BY <2>3
    <3>2. failed' \in Nat /\ warned' = TRUE
      BY <2>3
    <3> QED BY <2>1, <3>1, <3>2
  <2> QED BY <2>1, <2>2, <2>3
<1>6. CASE FlushTrial \/ EndRecording
  BY <1>6 DEF FlushTrial, EndRecording, told
<1>7. CASE StopWorker
  BY <1>7 DEF StopWorker, told
<1>8. CASE ProbeAndReport
  BY <1>8 DEF ProbeAndReport, RerunTypes
<1>9. CASE UNCHANGED rerunVars
  BY <1>9 DEF rerunVars, told
<1> QED
  BY <1>1, <1>2, <1>3, <1>4, <1>5, <1>6, <1>7, <1>8, <1>9 DEF RerunNext

LEMMA RerunStep ==
    ASSUME RerunInv, RerunTold, [RerunNext]_rerunVars
    PROVE  RerunInv' /\ RerunTold'
<1>0. RerunTold'
  BY ToldStep DEF RerunInv
<1>1. CASE StartRecording
  BY <1>0, <1>1, StartStep
<1>2. CASE \E kind \in Kinds : LogSnapshot(kind)
  BY <1>0, <1>2, LogStep
<1>3. CASE Disown
  BY <1>0, <1>3, DisownStep
<1>4. CASE \E g \in DOMAIN workers : Take(g)
  BY <1>0, <1>4, TakeStep
<1>5. CASE \E g \in DOMAIN workers : Emit(g)
  BY <1>0, <1>5, EmitStep
<1>6. CASE FlushTrial \/ EndRecording \/ StopWorker \/ ProbeAndReport
             \/ (\E g \in DOMAIN workers : Leave(g)) \/ UNCHANGED rerunVars
  BY <1>0, <1>6, QuietSteps
<1> QED
  BY <1>1, <1>2, <1>3, <1>4, <1>5, <1>6 DEF RerunNext

LEMMA RerunInit == RInit0 => RerunInv /\ RerunTold
<1> SUFFICES ASSUME RInit0 PROVE RerunInv /\ RerunTold
  OBVIOUS
<1>1. /\ rpc = "idle" /\ reval = 0 /\ logged = 0 /\ rqueue = <<>> /\ workers = <<>> /\ owned = FALSE
      /\ dropped = 0 /\ disabled = FALSE /\ emitted = <<>> /\ lost = 0
  BY DEF RInit0, lost
<1>2. /\ rqueue \in Seq(Snapshots) /\ Len(rqueue) = 0 /\ workers \in Seq(Generation)
      /\ emitted \in Seq(Records) /\ Len(emitted) = 0
      /\ DOMAIN rqueue = {} /\ DOMAIN workers = {} /\ DOMAIN emitted = {}
  BY <1>1, EmptySeq
<1>3. 0 \in Nat /\ 0 <= RQueueSize
  BY RerunNumbers
<1>4. RerunTypes
  BY <1>1, <1>2, <1>3, Zenon DEF RerunTypes
<1>5. Emitting = {}
  BY <1>2 DEF Emitting
<1>6. RerunCount
  BY <1>1, <1>2, <1>5, FS_EmptySet DEF RerunCount
<1>7. SerialsRise /\ AllTaken /\ NoneTwice /\ Lives /\ Stragglers
  BY <1>2, <1>5 DEF SerialsRise, AllTaken, NoneTwice, RecordedInOrder, Lives, Stragglers
<1>8. RerunTold
  BY DEF RInit0, RerunTold
<1> QED BY <1>4, <1>6, <1>7, <1>8 DEF RerunInv

LEMMA RerunSafe ==
    RerunInv /\ RerunTold => RerunTypeOK /\ Accounted /\ RecordedInOrder /\ OneStraggler
<1> SUFFICES ASSUME RerunInv, RerunTold PROVE RerunTypeOK /\ Accounted /\ RecordedInOrder /\ OneStraggler
  OBVIOUS
<1>a. RerunTypes
  BY DEF RerunInv
<1>1. RerunTypeOK
  BY <1>a, WorkerIs DEF RerunTypes, RerunTold, RerunTypeOK
<1>2. Accounted
  <2>1. logged = Len(emitted) + Len(rqueue) + dropped + reported + failed + Cardinality(Emitting)
    <3>1. Len(emitted) \in Nat /\ Len(rqueue) \in Nat /\ Cardinality(Emitting) \in Nat
      BY <1>a, RerunCounts
    <3>2. dropped \in Nat /\ reported \in Nat /\ failed \in Nat
      BY <1>a DEF RerunTypes, RerunTold
    <3>3. logged = Len(emitted) + Len(rqueue) + dropped + (reported + failed) + Cardinality(Emitting)
      BY DEF RerunInv, RerunCount, lost
    <3> QED BY <3>1, <3>2, <3>3
  <2>2. /\ rpc = "idle" /\ ~owned => dropped = 0
        /\ failed > 0 => announced > 0
    BY DEF RerunTold
  <2> QED BY <2>1, <2>2 DEF RerunInv, Emitting, NoneTwice, Accounted
<1>3. OneStraggler
  <2> SUFFICES ASSUME NEW g \in DOMAIN workers
               PROVE  Cardinality({i \in DOMAIN emitted : emitted[i].gen = g /\ emitted[i].into > workers[g].eval}) <= 1
    BY DEF OneStraggler
  <2> DEFINE T == {i \in DOMAIN emitted : emitted[i].gen = g /\ emitted[i].into > workers[g].eval}
  <2>1. \A i, j \in T : i = j
    BY DEF RerunInv, Stragglers, Late
  <2> HIDE DEF T
  <2>2. CASE T = {}
    BY <2>2, FS_EmptySet DEF T
  <2>3. CASE T # {}
    <3>1. PICK x \in T : TRUE
      BY <2>3
    <3>2. T = {x}
      BY <2>1, <3>1
    <3>3. Cardinality(T) = 1
      BY <3>2, FS_Singleton
    <3> QED BY <3>3 DEF T
  <2> QED BY <2>2, <2>3
<1> QED BY <1>1, <1>2, <1>3 DEF RerunInv, NoneTwice

----------------------------------------------------------------------------
\* The report's viewer. A finished page carries the stamp of a version no later than the
\* one it shows, and versions are a tick apart; a pass works off what it listed.

Versions == {Torn, Stub} \cup Nat
Page == [ver : Versions, stamp : Int, tier : {"full", "light"}, finished : BOOLEAN]

ViewTypes ==
    /\ vpc \in {"idle", "glob", "stat", "read", "render", "writing", "stamp", "index",
                "bind", "signal", "thread", "sleep", "unwind"}
    /\ view = [mode |-> view.mode, tier |-> view.tier, force |-> view.force, passes |-> view.passes,
               ticks |-> view.ticks, live |-> view.live, asked |-> view.asked, server |-> view.server,
               signal |-> view.signal]
    /\ view.tier \in {"full", "light"}
    /\ view.server \in {"none", "bound", "serving", "stopping", "closed", "left"}

LogTypes ==
    /\ files \in [Files -> Nat] /\ writes \in Nat
    /\ pages \in [Files -> Page]

WorkTypes ==
    /\ work = [todo |-> work.todo, globbed |-> work.globbed, seen |-> work.seen, read |-> work.read,
               moved |-> work.moved, failed |-> work.failed]
    /\ work.todo \in Seq(Files) /\ work.globbed \subseteq Files
    /\ work.seen \in Nat /\ work.read \in Nat
    /\ vpc \in {"read", "render", "writing", "stamp"} => work.todo # <<>>

Loop ==
    /\ view.mode = "once" => vpc \notin {"bind", "signal", "thread", "sleep", "unwind"}
                             /\ view.server = "none"
    /\ vpc = "bind" => view.server = "none"
    /\ vpc \in {"signal", "thread", "sleep", "unwind"} => view.server # "none"
    /\ view.server = "none" => ~view.signal
    /\ view.server \in {"closed", "left"} => vpc = "idle"
    /\ vpc = "signal" => ~view.signal
    /\ vpc = "idle" => view.server \in {"none", "closed", "left"} /\ ~view.signal

Ticked(n) == n \in Nat /\ n % Tick = 0
OnLog == vpc \in {"read", "render", "writing", "stamp"} /\ ~IsLive(Log)

Stamping ==
    /\ \A f \in Files : Ticked(files[f]) /\ files[f] <= Tick * writes
    /\ OnLog => Ticked(work.seen) /\ work.seen <= files[Log]
    /\ OnLog /\ vpc # "read" => work.seen <= work.read /\ work.read <= files[Log]
    /\ vpc \in {"writing", "stamp"} => /\ ~IsLive(Log) /\ pages[Log].tier = view.tier
                                     /\ ~pages[Log].finished
    /\ vpc = "stamp" => pages[Log].ver = work.read
    /\ vpc = "render" => work.read > 0

\* A page of tier "light" is stamped Delta earlier.
Early(p) == IF p.tier = "light" THEN Delta ELSE 0

PagesStamped ==
    \A f \in Files : ~IsLive(f) /\ pages[f].finished =>
      \E s \in Nat : /\ Ticked(s) /\ s <= pages[f].ver /\ pages[f].ver <= files[f]
                     /\ pages[f].stamp \in {s - Early(pages[f]) - Slack, s - Early(pages[f])}

InPass == vpc \in {"stat", "read", "render", "writing", "stamp", "index"}
Ahead == {work.todo[i] : i \in DOMAIN work.todo}

Passing ==
    /\ \A f \in work.globbed : IsLive(f) /\ <<f, "ok">> \in rows => pages[f].ver # Stub
    /\ \A i, j \in DOMAIN work.todo : work.todo[i] = work.todo[j] => i = j
    /\ ~work.moved => work.globbed = Present
    /\ InPass => Ahead \subseteq work.globbed
    /\ InPass /\ ~work.moved /\ ~work.failed =>
         /\ rows = {<<f, "ok">> : f \in work.globbed \ Ahead}
         /\ \A f \in work.globbed \ Ahead : IsLive(f) => pages[f].ver = files[f]
    /\ vpc = "render" /\ ~work.moved => work.read = files[Log]
    /\ vpc = "index" => work.todo = <<>>
    /\ vpc = "index" /\ ~work.failed =>
         \A f \in Files \ work.globbed : IsLive(f) => pages[f].ver \in {Missing, Stub}

ReportInv == ViewTypes /\ LogTypes /\ WorkTypes /\ Loop /\ Stamping /\ PagesStamped /\ Passing

LEMMA LogIs ==
    ASSUME WorkTypes, work.todo # <<>>
    PROVE  /\ Log \in Files /\ work.todo[1] = Log /\ 1 \in DOMAIN work.todo
           /\ Tail(work.todo) \in Seq(Files)
           /\ DOMAIN work.todo = 1..Len(work.todo) /\ Len(work.todo) \in Nat
           /\ DOMAIN Tail(work.todo) = 1..(Len(work.todo) - 1)
           /\ \A i \in DOMAIN Tail(work.todo) :
                i \in Nat /\ i + 1 \in DOMAIN work.todo /\ Tail(work.todo)[i] = work.todo[i+1]
<1>1. work.todo \in Seq(Files) /\ work.todo # <<>>
  BY DEF WorkTypes
<1>2. Len(work.todo) \in Nat /\ Len(work.todo) > 0 /\ DOMAIN work.todo = 1..Len(work.todo)
  BY <1>1, LenProperties, EmptySeq
<1>3. Head(work.todo) \in Files /\ Head(work.todo) = work.todo[1]
  BY <1>1, <1>2, ElementOfSeq
<1>4. /\ Tail(work.todo) \in Seq(Files) /\ Len(Tail(work.todo)) = Len(work.todo) - 1
      /\ \A i \in 1..Len(Tail(work.todo)) : Tail(work.todo)[i] = work.todo[i+1]
  BY <1>1, HeadTailProperties
<1>5. DOMAIN Tail(work.todo) = 1..Len(Tail(work.todo))
  BY <1>4, LenProperties
<1> QED BY <1>1, <1>2, <1>3, <1>4, <1>5 DEF Log

----------------------------------------------------------------------------
\* The command.

ViewShape ==
    view = [mode |-> view.mode, tier |-> view.tier, force |-> view.force, passes |-> view.passes,
            ticks |-> view.ticks, live |-> view.live, asked |-> view.asked, server |-> view.server,
            signal |-> view.signal]

\* Steps that leave the command's options, server and signal alone.
SameView ==
    ViewShape => /\ ViewShape'
                 /\ view'.mode = view.mode /\ view'.tier = view.tier
                 /\ view'.server = view.server /\ view'.signal = view.signal

LEMMA ViewSteps ==
    ASSUME \/ (\E r \in Runs : LogWritten(r) \/ SnapshotRemoved(r))
           \/ Glob \/ Stat \/ Vanished \/ Read \/ RenderLive \/ RenderBegin \/ RenderEnd
           \/ Stamp \/ LogFails \/ Redirect \/ WriteIndex \/ PassFails \/ ServeTick
           \/ UNCHANGED reportVars
    PROVE  SameView
<1>1. CASE Glob
  BY <1>1 DEF Glob, SameView, ViewShape
<1>2. CASE WriteIndex
  BY <1>2 DEF WriteIndex, SameView, ViewShape
<1>3. CASE PassFails
  BY <1>3 DEF PassFails, SameView, ViewShape
<1>4. CASE ServeTick
  BY <1>4 DEF ServeTick, SameView, ViewShape
<1>5. CASE \/ (\E r \in Runs : LogWritten(r) \/ SnapshotRemoved(r))
           \/ Stat \/ Vanished \/ Read \/ RenderLive \/ RenderBegin \/ RenderEnd
           \/ Stamp \/ LogFails \/ Redirect \/ UNCHANGED reportVars
  <2>1. view' = view
    BY <1>5 DEF LogWritten, Touch, SnapshotRemoved, Stat, Vanished, Read, RenderLive, RenderBegin,
                RenderEnd, Stamp, LogFails, Redirect, reportVars
  <2> QED BY <2>1 DEF SameView, ViewShape
<1> QED BY <1>1, <1>2, <1>3, <1>4, <1>5

LEMMA LoopStep == ViewTypes /\ Loop /\ [ReportNext]_reportVars => (ViewTypes /\ Loop)'
<1> SUFFICES ASSUME ViewTypes, Loop, [ReportNext]_reportVars PROVE (ViewTypes /\ Loop)'
  OBVIOUS
<1>a. ViewShape
  BY DEF ViewTypes, ViewShape
<1>1. CASE \/ (\E r \in Runs : LogWritten(r) \/ SnapshotRemoved(r)) \/ UNCHANGED reportVars
  <2>1. vpc' = vpc /\ view' = view
    BY <1>1 DEF LogWritten, Touch, SnapshotRemoved, reportVars
  <2> QED BY <2>1 DEF ViewTypes, Loop
<1>2. CASE \/ Glob \/ Stat \/ Vanished \/ Read \/ RenderLive \/ RenderBegin \/ RenderEnd
           \/ Stamp \/ LogFails \/ Redirect
  <2>1. /\ vpc \in {"glob", "stat", "read", "render", "writing", "stamp"}
        /\ vpc' \in {"stat", "read", "render", "writing", "stamp", "index"}
    BY <1>2 DEF Glob, Stat, Vanished, Read, RenderLive, RenderBegin, RenderEnd, Stamp, LogFails,
                Redirect, NextLog
  <2>2. SameView
    BY <1>2, ViewSteps
  <2> QED BY <1>a, <2>1, <2>2 DEF ViewTypes, Loop, SameView, ViewShape
<1>3. CASE WriteIndex
  <2>1. SameView
    BY <1>3, ViewSteps
  <2>2. /\ vpc = "index"
        /\ \/ vpc' = "idle" /\ view.mode = "once"
           \/ vpc' = "bind" /\ view.mode # "once" /\ view.server = "none"
           \/ vpc' = "sleep" /\ view.mode # "once" /\ view.server # "none"
    BY <1>3 DEF WriteIndex
  <2> QED BY <1>a, <2>1, <2>2 DEF ViewTypes, Loop, SameView, ViewShape
<1>4. CASE PassFails
  <2>1. SameView
    BY <1>4, ViewSteps
  <2>2. /\ vpc \in {"glob", "index"}
        /\ \/ vpc' = "idle" /\ view.server = "none"
           \/ vpc' = "sleep" /\ view.server # "none"
    BY <1>4 DEF PassFails
  <2> QED BY <1>a, <2>1, <2>2 DEF ViewTypes, Loop, SameView, ViewShape
<1>5. CASE ServeTick
  <2>1. SameView
    BY <1>5, ViewSteps
  <2>2. vpc = "sleep" /\ vpc' \in {"glob", "sleep"}
    BY <1>5 DEF ServeTick
  <2> QED BY <1>a, <2>1, <2>2 DEF ViewTypes, Loop, SameView, ViewShape
<1>6. CASE StartView
  <2>1. PICK how \in {"once", "serve"}, tier \in {"full", "light"}, force \in BOOLEAN :
          view' = [view EXCEPT !.mode = how, !.tier = tier, !.force = force,
                               !.ticks = 0, !.live = {}, !.asked = {}, !.server = "none", !.signal = FALSE]
    BY <1>6 DEF StartView
  <2>2. view' = [mode |-> how, tier |-> tier, force |-> force, passes |-> view.passes, ticks |-> 0,
                 live |-> {}, asked |-> {}, server |-> "none", signal |-> FALSE]
    BY <1>a, <2>1 DEF ViewShape
  <2>3. vpc' = "glob"
    BY <1>6 DEF StartView
  <2> QED BY <2>2, <2>3 DEF ViewTypes, Loop
<1>7. CASE Bind
  <2>1. /\ vpc = "bind"
        /\ \/ vpc' = "idle" /\ view' = view
           \/ vpc' = "signal" /\ view' = [view EXCEPT !.server = "bound"]
    BY <1>7 DEF Bind
  <2> QED BY <1>a, <2>1 DEF ViewTypes, Loop, ViewShape
<1>8. CASE InstallSignal
  <2>1. vpc = "signal" /\ vpc' = "thread" /\ view' = [view EXCEPT !.signal = TRUE]
    BY <1>8 DEF InstallSignal
  <2> QED BY <1>a, <2>1 DEF ViewTypes, Loop, ViewShape
<1>9. CASE StartThread
  <2>1. vpc = "thread" /\ vpc' = "sleep" /\ view' = [view EXCEPT !.server = "serving"]
    BY <1>9 DEF StartThread
  <2> QED BY <1>a, <2>1 DEF ViewTypes, Loop, ViewShape
<1>10. CASE Interrupted
  <2>1. /\ vpc \notin {"idle", "unwind"}
        /\ \/ view.server = "none" /\ vpc' = "idle" /\ view' = view
           \/ view.server # "none" /\ vpc' = "unwind" /\ view' = view
           \/ vpc' = "unwind" /\ view' = [view EXCEPT !.server = "stopping"] /\ view.server = "serving"
    <3>1. CASE view.server = "none"
      BY <1>10, <3>1 DEF Interrupted
    <3>2. CASE view.server = "serving"
      BY <1>10, <3>2 DEF Interrupted
    <3>3. CASE view.server \notin {"none", "serving"}
      <4>1. view' = [view EXCEPT !.server = view.server]
        BY <1>10, <3>3 DEF Interrupted
      <4>2. view' = view
        BY <1>a, <4>1 DEF ViewShape
      <4> QED BY <1>10, <3>3, <4>2 DEF Interrupted
    <3> QED BY <3>1, <3>2, <3>3
  <2> QED BY <1>a, <2>1 DEF ViewTypes, Loop, ViewShape
<1>12. CASE InterruptedUnserved
  <2>1. vpc = "signal" /\ vpc' = "idle" /\ view' = [view EXCEPT !.server = "left"]
    BY <1>12 DEF InterruptedUnserved
  <2> QED BY <1>a, <2>1 DEF ViewTypes, Loop, ViewShape
<1>11. CASE CloseServer
  <2>1. vpc = "unwind" /\ vpc' = "idle" /\ view' = [view EXCEPT !.server = "closed", !.signal = FALSE]
    BY <1>11 DEF CloseServer
  <2> QED BY <1>a, <2>1 DEF ViewTypes, Loop, ViewShape
<1> QED
  BY <1>1, <1>2, <1>3, <1>4, <1>5, <1>6, <1>7, <1>8, <1>9, <1>10, <1>11, <1>12 DEF ReportNext

----------------------------------------------------------------------------
\* The passes.

Core == LogTypes /\ WorkTypes /\ Stamping /\ PagesStamped /\ Passing

WorkShape ==
    work = [todo |-> work.todo, globbed |-> work.globbed, seen |-> work.seen, read |-> work.read,
            moved |-> work.moved, failed |-> work.failed]

\* Steps of the command outside a pass.
LEMMA AsideStep ==
    ASSUME Core, UNCHANGED <<files, writes, pages, rows>>, ~InPass',
           work' = work \/ work' = [work EXCEPT !.failed = TRUE]
    PROVE  Core'
<1>1. /\ work'.todo = work.todo /\ work'.globbed = work.globbed /\ work'.seen = work.seen
      /\ work'.read = work.read /\ work'.moved = work.moved
      /\ WorkShape'
  BY DEF Core, WorkTypes, WorkShape
<1>2. vpc' \notin {"stat", "read", "render", "writing", "stamp", "index"}
  BY DEF InPass
<1>3. LogTypes' /\ WorkTypes'
  BY <1>1, <1>2 DEF Core, LogTypes, WorkTypes, WorkShape
<1>4. Stamping'
  BY <1>2 DEF Core, Stamping, OnLog, Ticked
<1>5. PagesStamped'
  BY DEF Core, PagesStamped, Ticked, Early
<1>6. Passing'
  BY <1>1, <1>2 DEF Core, Passing, InPass, Present
<1> QED BY <1>3, <1>4, <1>5, <1>6 DEF Core

\* A log is written or a snapshot removed while the command is anywhere.
LEMMA MovedStep ==
    ASSUME Core, UNCHANGED <<pages, vpc, rows, view>>, work' = [work EXCEPT !.moved = TRUE],
           writes' \in Nat, files' \in [Files -> Nat],
           \A f \in Files : Ticked(files'[f]) /\ files'[f] <= Tick * writes',
           \A f \in Files : ~IsLive(f) => files[f] <= files'[f]
    PROVE  Core'
<1>1. /\ work'.todo = work.todo /\ work'.globbed = work.globbed /\ work'.seen = work.seen
      /\ work'.read = work.read /\ work'.moved = TRUE /\ work'.failed = work.failed
      /\ WorkShape'
  BY DEF Core, WorkTypes, WorkShape
<1>2. LogTypes' /\ WorkTypes'
  BY <1>1 DEF Core, LogTypes, WorkTypes, WorkShape
<1>3. Log' = Log /\ OnLog' = OnLog /\ (OnLog => Log \in Files)
  BY <1>1, LogIs DEF Core, WorkTypes, OnLog, Log
<1>4. \A f \in Files : files[f] \in Nat /\ files'[f] \in Nat
  BY DEF Core, LogTypes
<1>5. work.seen \in Nat /\ work.read \in Nat
  BY DEF Core, WorkTypes
<1>6. OnLog => files[Log] <= files'[Log] /\ files[Log] \in Nat /\ files'[Log] \in Nat
  BY <1>3, <1>4 DEF OnLog
<1>7. Stamping'
  <2>1. OnLog' => Ticked(work.seen) /\ work.seen <= files'[Log]
    BY <1>3, <1>5, <1>6 DEF Core, Stamping
  <2>2. OnLog' /\ vpc' # "read" => work.seen <= work.read /\ work.read <= files'[Log]
    BY <1>3, <1>5, <1>6 DEF Core, Stamping
  <2> QED BY <1>1, <1>3, <2>1, <2>2 DEF Core, Stamping, Ticked
<1>8. PagesStamped'
  <2> SUFFICES ASSUME NEW f \in Files, ~IsLive(f), pages[f].finished
               PROVE  \E s \in Nat : /\ Ticked(s) /\ s <= pages[f].ver /\ pages[f].ver <= files'[f]
                        /\ pages[f].stamp \in {s - Early(pages[f]) - Slack, s - Early(pages[f])}
    BY DEF PagesStamped, Ticked, Early
  <2>1. PICK s \in Nat : /\ Ticked(s) /\ s <= pages[f].ver /\ pages[f].ver <= files[f]
                         /\ pages[f].stamp \in {s - Early(pages[f]) - Slack, s - Early(pages[f])}
    BY DEF Core, PagesStamped
  <2>2. pages[f].ver \in Int /\ files[f] \in Nat /\ files'[f] \in Nat
    BY <1>4 DEF Core, LogTypes, Page, Versions, Torn, Stub
  <2> QED BY <2>1, <2>2
<1>9. Passing'
  BY <1>1, <1>3 DEF Core, Passing, InPass, Ahead
<1> QED BY <1>2, <1>7, <1>8, <1>9 DEF Core

LEMMA WritingStep ==
    ASSUME Core, NEW r \in Runs, LogWritten(r) \/ SnapshotRemoved(r)
    PROVE  Core'
<1>1. /\ UNCHANGED <<pages, vpc, rows, view>> /\ work' = [work EXCEPT !.moved = TRUE]
  BY DEF LogWritten, Touch, SnapshotRemoved
<1>2. files \in [Files -> Nat] /\ writes \in Nat
      /\ \A f \in Files : files[f] \in Nat /\ files[f] % 4 = 0 /\ files[f] <= 4 * writes
  BY DEF Core, LogTypes, Stamping, Ticked, Tick
<1>3. CASE \E kind \in {"live", "final"} : Touch(<<r, kind>>)
  <2>1. PICK kind \in {"live", "final"} : Touch(<<r, kind>>)
    BY <1>3
  <2>2. <<r, kind>> \in Files
    BY DEF Files
  <2>3. writes' = writes + 1 /\ files' = [files EXCEPT ![<<r, kind>>] = 4 * (writes + 1)]
    BY <2>1 DEF Touch, Tick
  <2>4. \A f \in Files : files'[f] = 4 * (writes + 1) \/ files'[f] = files[f]
    BY <1>2, <2>2, <2>3
  <2>5. files' \in [Files -> Nat] /\ writes' \in Nat
    BY <1>2, <2>2, <2>3
  <2>6. \A f \in Files : /\ files'[f] \in Nat /\ files'[f] % 4 = 0 /\ files'[f] <= 4 * writes'
                         /\ files[f] <= files'[f]
    BY <1>2, <2>3, <2>4
  <2> QED BY <1>1, <2>5, <2>6, MovedStep DEF Ticked, Tick
<1>4. CASE SnapshotRemoved(r)
  <2>1. <<r, "live">> \in Files /\ IsLive(<<r, "live">>)
    BY DEF Files, IsLive
  <2>2. writes' = writes /\ files' = [files EXCEPT ![<<r, "live">>] = 0]
    BY <1>4 DEF SnapshotRemoved
  <2>3. files' \in [Files -> Nat]
    BY <1>2, <2>1, <2>2
  <2>4. \A f \in Files : /\ files'[f] \in Nat /\ files'[f] % 4 = 0 /\ files'[f] <= 4 * writes'
                         /\ ~IsLive(f) => files[f] <= files'[f]
    BY <1>2, <2>1, <2>2
  <2> QED BY <1>1, <1>2, <2>2, <2>3, <2>4, MovedStep DEF Ticked, Tick
<1> QED BY <1>3, <1>4 DEF LogWritten

----------------------------------------------------------------------------
LEMMA PresentIsFinite == IsFiniteSet(Present)
<1>1. IsFiniteSet(Runs)
  BY ReportAssumption
<1>2. IsFiniteSet({"live", "final"})
  <2>1. IsFiniteSet({"live"}) /\ {"live", "final"} = {"live"} \cup {"final"}
    BY FS_Singleton
  <2> QED BY <2>1, FS_AddElement
<1>3. IsFiniteSet(Files)
  BY <1>1, <1>2, FS_Product DEF Files
<1>4. Present \in SUBSET Files
  BY DEF Present
<1> QED BY <1>3, <1>4, FS_Subset

\* A listing holds every log once.
LEMMA ListingIs ==
    ASSUME NEW S, IsFiniteSet(S)
    PROVE  /\ SetToSeq(S) \in Seq(S)
           /\ {SetToSeq(S)[i] : i \in DOMAIN SetToSeq(S)} = S
           /\ \A i, j \in DOMAIN SetToSeq(S) : SetToSeq(S)[i] = SetToSeq(S)[j] => i = j
<1> DEFINE n == Cardinality(S)
           s == SetToSeq(S)
<1>1. n \in Nat /\ ExistsBijection(1..n, S)
  BY FS_CardinalityType
<1>2. PICK b \in [1..n -> S] : \A x, y \in 1..n : b[x] = b[y] => x = y
  BY <1>1 DEF ExistsBijection, Bijection, Injection, IsInjective, Surjection
<1>3. IsInjective(b)
  BY <1>2 DEF IsInjective
<1>4. s \in [1..n -> S] /\ IsInjective(s)
  BY <1>2, <1>3 DEF SetToSeq
<1> HIDE DEF s, n
<1>5. s \in Injection(1..n, S)
  BY <1>4 DEF Injection
<1>6. IsFiniteSet(1..n) /\ Cardinality(1..n) = n
  BY <1>1, FS_Interval
<1>7. Cardinality(1..n) = Cardinality(S)
  BY <1>6 DEF n
<1>8. s \in Surjection(1..n, S)
  BY <1>5, <1>7, FS_Injection
<1>9. {s[i] : i \in 1..n} = S
  BY <1>4, <1>8 DEF Surjection
<1>10. s \in Seq(S)
  BY <1>1, <1>4, SeqDef
<1>11. DOMAIN s = 1..n /\ \A i, j \in 1..n : s[i] = s[j] => i = j
  BY <1>4 DEF IsInjective
<1> QED BY <1>9, <1>10, <1>11 DEF s

LEMMA GlobStep == ASSUME Core, Glob PROVE Core'
<1>1. /\ vpc' = "stat" /\ rows' = {} /\ UNCHANGED <<files, writes, pages>>
      /\ work' = [todo |-> SetToSeq(Present), globbed |-> Present, seen |-> 0, read |-> 0,
                  moved |-> FALSE, failed |-> FALSE]
  BY DEF Glob
<1> DEFINE s == SetToSeq(Present)
<1>2. s \in Seq(Present) /\ {s[i] : i \in DOMAIN s} = Present
      /\ \A i, j \in DOMAIN s : s[i] = s[j] => i = j
  BY PresentIsFinite, ListingIs
<1> HIDE DEF s
<1>3. Present \subseteq Files /\ Present' = Present
  BY <1>1 DEF Present
<1>4. s \in Seq(Files)
  BY <1>2, <1>3, SeqMonotonic
<1>5. work' = [todo |-> s, globbed |-> Present, seen |-> 0, read |-> 0, moved |-> FALSE, failed |-> FALSE]
  BY <1>1 DEF s
<1>6. /\ work'.todo = s /\ work'.globbed = Present /\ work'.seen = 0 /\ work'.read = 0
      /\ work'.moved = FALSE /\ work'.failed = FALSE /\ WorkShape'
  BY <1>5 DEF WorkShape
<1>7. LogTypes' /\ WorkTypes'
  BY <1>1, <1>3, <1>4, <1>6 DEF Core, LogTypes, WorkTypes, WorkShape
<1>8. Stamping' /\ PagesStamped'
  BY <1>1 DEF Core, Stamping, OnLog, Ticked, PagesStamped, Early
<1>9. Ahead' = Present
  BY <1>2, <1>6 DEF Ahead
<1>10. Passing'
  BY <1>1, <1>2, <1>3, <1>6, <1>9 DEF Passing, InPass
<1> QED BY <1>7, <1>8, <1>10 DEF Core

----------------------------------------------------------------------------
\* A log is done with: what is ahead is one less, and a row is added.
LEMMA DoneStep ==
    ASSUME Core, InPass, work.todo # <<>>, vpc' = "stat", UNCHANGED <<files, writes>>,
           LogTypes', PagesStamped', WorkShape',
           work'.todo = Tail(work.todo), work'.globbed = work.globbed, work'.seen = work.seen,
           work'.read = work.read, work'.moved = work.moved,
           ~work'.failed => ~work.failed,
           NEW R, rows' = rows \cup R, R \subseteq {<<Log, "ok">>, <<Log, "error">>},
           \A f \in Files : f # Log => pages'[f] = pages[f],
           IsLive(Log) /\ <<Log, "ok">> \in rows' => pages'[Log].ver # Stub,
           ~work.moved /\ ~work'.failed =>
             R = {<<Log, "ok">>} /\ (IsLive(Log) => pages'[Log].ver = files[Log])
    PROVE  Core'
<1>1. /\ Log \in Files /\ work.todo[1] = Log /\ 1 \in DOMAIN work.todo
      /\ Tail(work.todo) \in Seq(Files)
      /\ DOMAIN work.todo = 1..Len(work.todo) /\ Len(work.todo) \in Nat
      /\ DOMAIN Tail(work.todo) = 1..(Len(work.todo) - 1)
      /\ \A i \in DOMAIN Tail(work.todo) :
           i \in Nat /\ i # 0 /\ i + 1 \in DOMAIN work.todo /\ Tail(work.todo)[i] = work.todo[i+1]
  BY LogIs DEF Core
<1>2. \A i, j \in DOMAIN work.todo : work.todo[i] = work.todo[j] => i = j
  BY DEF Core, Passing
<1>3. Ahead' = Ahead \ {Log}
  <2>1. \A i \in DOMAIN Tail(work.todo) : Tail(work.todo)[i] \in Ahead /\ Tail(work.todo)[i] # Log
    BY <1>1, <1>2 DEF Ahead
  <2>2. ASSUME NEW f \in Ahead, f # Log PROVE \E i \in DOMAIN Tail(work.todo) : Tail(work.todo)[i] = f
    <3>1. PICK i \in DOMAIN work.todo : work.todo[i] = f
      BY DEF Ahead
    <3>2. i # 1
      BY <1>1, <2>2, <3>1
    <3>3. i \in 1..Len(work.todo)
      BY <1>1, <3>1
    <3>4. i - 1 \in 1..(Len(work.todo) - 1) /\ i = (i - 1) + 1
      BY <1>1, <3>2, <3>3
    <3>5. i - 1 \in DOMAIN Tail(work.todo) /\ Tail(work.todo)[i - 1] = work.todo[(i - 1) + 1]
      BY <1>1, <3>4
    <3> QED BY <3>1, <3>4, <3>5
  <2>3. Ahead' = {Tail(work.todo)[i] : i \in DOMAIN Tail(work.todo)}
    BY DEF Ahead
  <2> QED BY <2>1, <2>2, <2>3
<1>4. Log \in Ahead /\ Ahead \subseteq work.globbed
  BY <1>1 DEF Core, Passing, Ahead
<1>5. WorkTypes'
  BY <1>1 DEF Core, WorkTypes, WorkShape
<1>6. Stamping'
  BY DEF Core, Stamping, OnLog, Ticked
<1>7. Passing'
  <2>1. ASSUME NEW f \in work'.globbed, IsLive(f), <<f, "ok">> \in rows' PROVE pages'[f].ver # Stub
    <3>1. CASE f = Log
      BY <2>1, <3>1
    <3>2. CASE f # Log
      <4>1. <<f, "ok">> \in rows /\ f \in Files
        BY <2>1, <3>2 DEF Core, WorkTypes
      <4> QED BY <2>1, <3>2, <4>1 DEF Core, Passing
    <3> QED BY <3>1, <3>2
  <2>2. \A i, j \in DOMAIN work'.todo : work'.todo[i] = work'.todo[j] => i = j
    <3>1. \A i, j \in DOMAIN Tail(work.todo) : i + 1 = j + 1 => i = j
      BY <1>1
    <3> QED BY <1>1, <1>2, <3>1
  <2>3. ~work'.moved => work'.globbed = Present'
    BY DEF Core, Passing, Present
  <2>4. Ahead' \subseteq work'.globbed
    BY <1>3, <1>4
  <2>5. ASSUME ~work'.moved, ~work'.failed
        PROVE  /\ rows' = {<<f, "ok">> : f \in work'.globbed \ Ahead'}
               /\ \A f \in work'.globbed \ Ahead' : IsLive(f) => pages'[f].ver = files'[f]
    <3>1. /\ rows = {<<f, "ok">> : f \in work.globbed \ Ahead}
          /\ \A f \in work.globbed \ Ahead : IsLive(f) => pages[f].ver = files[f]
      BY <2>5 DEF Core, Passing
    <3>2. work'.globbed \ Ahead' = (work.globbed \ Ahead) \cup {Log}
      BY <1>3, <1>4
    <3>3. rows' = rows \cup {<<Log, "ok">>}
      BY <2>5
    <3>4. rows' = {<<f, "ok">> : f \in work'.globbed \ Ahead'}
      BY <3>1, <3>2, <3>3
    <3>5. ASSUME NEW f \in work.globbed \ Ahead, IsLive(f) PROVE pages'[f].ver = files'[f]
      <4>1. f # Log /\ f \in Files
        BY <1>4, <3>5 DEF Core, WorkTypes
      <4> QED BY <3>1, <3>5, <4>1
    <3> QED BY <2>5, <3>2, <3>4, <3>5
  <2> QED BY <2>1, <2>2, <2>3, <2>4, <2>5 DEF Passing
<1> QED BY <1>5, <1>6, <1>7 DEF Core

\* What a drop leaves of the work.
LEMMA NextLogIs ==
    ASSUME Core, NEW R, NextLog(R)
    PROVE  /\ vpc' = "stat" /\ rows' = rows \cup R /\ WorkShape'
           /\ work'.todo = Tail(work.todo) /\ work'.globbed = work.globbed /\ work'.seen = work.seen
           /\ work'.read = work.read /\ work'.moved = work.moved /\ work'.failed = work.failed
  BY DEF NextLog, Core, WorkTypes, WorkShape

LEMMA LogInPass ==
    ASSUME Core, InPass, work.todo # <<>>
    PROVE  /\ Log \in Files /\ Log \in work.globbed
           /\ IsLive(Log) /\ <<Log, "ok">> \in rows => pages[Log].ver # Stub
           /\ ~work.moved => files[Log] # 0
<1>1. Log \in Files /\ Log \in Ahead
  BY LogIs DEF Core, Ahead
<1>2. Log \in work.globbed
  BY <1>1 DEF Core, Passing
<1> QED BY <1>1, <1>2 DEF Core, Passing, Present

LEMMA StatStep == ASSUME Core, Stat PROVE Core'
<1>1. /\ vpc = "stat" /\ vpc' = "read" /\ work.todo # <<>> /\ files[Log] # 0
      /\ work' = [work EXCEPT !.seen = files[Log]] /\ UNCHANGED <<files, writes, pages, rows>>
  BY DEF Stat
<1>2. Log \in Files /\ files[Log] \in Nat /\ files[Log] <= files[Log]
  BY <1>1, LogIs DEF Core, LogTypes
<1>3. /\ work'.todo = work.todo /\ work'.globbed = work.globbed /\ work'.seen = files[Log]
      /\ work'.read = work.read /\ work'.moved = work.moved /\ work'.failed = work.failed
      /\ WorkShape'
  BY <1>1 DEF Core, WorkTypes, WorkShape
<1>4. LogTypes' /\ WorkTypes' /\ Log' = Log
  BY <1>1, <1>2, <1>3 DEF Core, LogTypes, WorkTypes, WorkShape, Log
<1>5. Stamping'
  BY <1>1, <1>2, <1>3, <1>4 DEF Core, Stamping, OnLog, Ticked
<1>6. PagesStamped'
  BY <1>1 DEF Core, PagesStamped, Ticked, Early
<1>7. Passing'
  BY <1>1, <1>3 DEF Core, Passing, InPass, Ahead, Present
<1> QED BY <1>4, <1>5, <1>6, <1>7 DEF Core

LEMMA VanishedStep == ASSUME Core, Vanished PROVE Core'
<1> DEFINE R == IF IsLive(Log) THEN {} ELSE {<<Log, "error">>}
<1>1. /\ InPass /\ work.todo # <<>> /\ files[Log] = 0 /\ NextLog(R)
      /\ UNCHANGED <<files, writes, pages, view>>
  BY DEF Vanished, InPass
<1>2. LogTypes' /\ PagesStamped'
  BY <1>1 DEF Core, LogTypes, PagesStamped, Ticked, Early
<1>3. R \subseteq {<<Log, "ok">>, <<Log, "error">>} /\ (IsLive(Log) => R = {})
  OBVIOUS
<1> HIDE DEF R
<1>4. /\ vpc' = "stat" /\ rows' = rows \cup R /\ WorkShape'
      /\ work'.todo = Tail(work.todo) /\ work'.globbed = work.globbed /\ work'.seen = work.seen
      /\ work'.read = work.read /\ work'.moved = work.moved /\ work'.failed = work.failed
  BY <1>1, NextLogIs
<1>5. IsLive(Log) /\ <<Log, "ok">> \in rows' => pages'[Log].ver # Stub
  BY <1>1, <1>3, <1>4, LogInPass
<1>6. work.moved
  BY <1>1, LogInPass
<1>7. \A f \in Files : f # Log => pages'[f] = pages[f]
  BY <1>1
<1> QED BY <1>1, <1>2, <1>3, <1>4, <1>5, <1>6, <1>7, DoneStep

LEMMA ReadStep == ASSUME Core, Read PROVE Core'
<1>1. vpc = "read" /\ files[Log] # 0 /\ UNCHANGED <<files, writes, pages, view>>
  BY DEF Read
<1>2. work.todo # <<>> /\ InPass
  BY <1>1 DEF Core, WorkTypes, InPass
<1>3. LogTypes' /\ PagesStamped'
  BY <1>1 DEF Core, LogTypes, PagesStamped, Ticked, Early
<1>4. CASE Fresh
  <2>1. NextLog({<<Log, "ok">>}) /\ ~IsLive(Log)
    BY <1>4 DEF Read, Fresh
  <2>2. /\ vpc' = "stat" /\ rows' = rows \cup {<<Log, "ok">>} /\ WorkShape'
        /\ work'.todo = Tail(work.todo) /\ work'.globbed = work.globbed /\ work'.seen = work.seen
        /\ work'.read = work.read /\ work'.moved = work.moved /\ work'.failed = work.failed
    BY <2>1, NextLogIs
  <2>3. {<<Log, "ok">>} \subseteq {<<Log, "ok">>, <<Log, "error">>}
        /\ \A f \in Files : f # Log => pages'[f] = pages[f]
    BY <1>1
  <2> QED BY <1>1, <1>2, <1>3, <2>1, <2>2, <2>3, DoneStep
<1>5. CASE ~Fresh
  <2>1. work' = [work EXCEPT !.read = files[Log]] /\ vpc' = "render" /\ rows' = rows
    BY <1>5 DEF Read
  <2>2. Log \in Files /\ files[Log] \in Nat /\ files[Log] <= files[Log] /\ files[Log] > 0
    BY <1>1, <1>2, LogIs DEF Core, LogTypes
  <2>3. /\ work'.todo = work.todo /\ work'.globbed = work.globbed /\ work'.seen = work.seen
        /\ work'.read = files[Log] /\ work'.moved = work.moved /\ work'.failed = work.failed
        /\ WorkShape'
    BY <2>1 DEF Core, WorkTypes, WorkShape
  <2>4. WorkTypes' /\ Log' = Log
    BY <1>2, <2>1, <2>2, <2>3 DEF Core, WorkTypes, WorkShape, Log
  <2>5. Stamping'
    BY <1>1, <2>1, <2>2, <2>3, <2>4 DEF Core, Stamping, OnLog, Ticked
  <2>6. Passing'
    BY <1>1, <2>1, <2>3, <2>4 DEF Core, Passing, InPass, Ahead, Present
  <2> QED BY <1>3, <2>4, <2>5, <2>6 DEF Core
<1> QED BY <1>4, <1>5

LEMMA RenderLiveStep == ASSUME Core, ViewTypes, RenderLive PROVE Core'
<1> DEFINE p == [ver |-> work.read, stamp |-> Now, tier |-> view.tier, finished |-> TRUE]
<1>1. /\ vpc = "render" /\ IsLive(Log) /\ pages' = [pages EXCEPT ![Log] = p]
      /\ NextLog({<<Log, "ok">>}) /\ UNCHANGED <<files, writes, view>>
  BY DEF RenderLive
<1>2. work.todo # <<>> /\ InPass
  BY <1>1 DEF Core, WorkTypes, InPass
<1>3. Log \in Files
  BY <1>2, LogIs DEF Core
<1>4. work.read \in Nat /\ work.read > 0 /\ (~work.moved => work.read = files[Log])
  BY <1>1 DEF Core, WorkTypes, Stamping, Passing
<1>5. p \in Page /\ p.ver = work.read
  BY <1>4 DEF Page, Versions, ViewTypes, Now, Tick, Core, LogTypes
<1> HIDE DEF p
<1>6. /\ pages' \in [Files -> Page] /\ pages'[Log] = p
      /\ \A f \in Files : f # Log => pages'[f] = pages[f]
  BY <1>1, <1>3, <1>5 DEF Core, LogTypes
<1>7. LogTypes'
  BY <1>1, <1>6 DEF Core, LogTypes
<1>8. PagesStamped'
  BY <1>1, <1>6 DEF Core, PagesStamped, Ticked, Early
<1>9. /\ vpc' = "stat" /\ rows' = rows \cup {<<Log, "ok">>} /\ WorkShape'
      /\ work'.todo = Tail(work.todo) /\ work'.globbed = work.globbed /\ work'.seen = work.seen
      /\ work'.read = work.read /\ work'.moved = work.moved /\ work'.failed = work.failed
  BY <1>1, NextLogIs
<1>10. pages'[Log].ver # Stub /\ (~work.moved => pages'[Log].ver = files[Log])
  BY <1>4, <1>5, <1>6 DEF Stub
<1>11. {<<Log, "ok">>} \subseteq {<<Log, "ok">>, <<Log, "error">>}
  OBVIOUS
<1> QED BY <1>1, <1>2, <1>6, <1>7, <1>8, <1>9, <1>10, <1>11, DoneStep

LEMMA LogFailsStep == ASSUME Core, LogFails PROVE Core'
<1>1. /\ vpc \in {"read", "render", "writing", "stamp"}
      /\ work' = [work EXCEPT !.todo = Tail(work.todo), !.failed = TRUE]
      /\ rows' = rows \cup {<<Log, "error">>} /\ vpc' = "stat"
      /\ UNCHANGED <<files, writes, pages, view>>
  BY DEF LogFails
<1>2. work.todo # <<>> /\ InPass
  BY <1>1 DEF Core, WorkTypes, InPass
<1>3. LogTypes' /\ PagesStamped'
  BY <1>1 DEF Core, LogTypes, PagesStamped, Ticked, Early
<1>4. /\ WorkShape'
      /\ work'.todo = Tail(work.todo) /\ work'.globbed = work.globbed /\ work'.seen = work.seen
      /\ work'.read = work.read /\ work'.moved = work.moved /\ work'.failed = TRUE
  BY <1>1 DEF Core, WorkTypes, WorkShape
<1>5. IsLive(Log) /\ <<Log, "ok">> \in rows' => pages'[Log].ver # Stub
  BY <1>1, <1>2, LogInPass
<1>6. {<<Log, "error">>} \subseteq {<<Log, "ok">>, <<Log, "error">>}
      /\ \A f \in Files : f # Log => pages'[f] = pages[f]
  BY <1>1
<1> QED BY <1>1, <1>2, <1>3, <1>4, <1>5, <1>6, DoneStep

\* The page of a completed log is begun, written and stamped.
LEMMA RenderBeginStep == ASSUME Core, ViewTypes, RenderBegin PROVE Core'
<1> DEFINE p == [ver |-> Torn, stamp |-> Now, tier |-> view.tier, finished |-> FALSE]
<1>1. /\ vpc = "render" /\ ~IsLive(Log) /\ pages' = [pages EXCEPT ![Log] = p]
      /\ vpc' = "writing" /\ UNCHANGED <<files, writes, view, work, rows>>
  BY DEF RenderBegin
<1>2. work.todo # <<>>
  BY <1>1 DEF Core, WorkTypes
<1>3. Log \in Files
  BY <1>2, LogIs DEF Core
<1>4. p \in Page /\ p.finished = FALSE /\ p.tier = view.tier
  BY DEF Page, Versions, ViewTypes, Now, Tick, Core, LogTypes
<1> HIDE DEF p
<1>5. /\ pages' \in [Files -> Page] /\ pages'[Log] = p
      /\ \A f \in Files : f # Log => pages'[f] = pages[f]
  BY <1>1, <1>3, <1>4 DEF Core, LogTypes
<1>6. LogTypes' /\ WorkTypes'
  BY <1>1, <1>2, <1>5 DEF Core, LogTypes, WorkTypes
<1>7. Log' = Log
  BY <1>1 DEF Log
<1>8. Stamping'
  BY <1>1, <1>4, <1>5, <1>7 DEF Core, Stamping, OnLog, Ticked
<1>9. PagesStamped'
  BY <1>1, <1>4, <1>5 DEF Core, PagesStamped, Ticked, Early
<1>10. \A f \in Files : IsLive(f) => pages'[f] = pages[f]
  BY <1>1, <1>5
<1>11. Passing'
  <2>1. work.globbed \subseteq Files
    BY DEF Core, WorkTypes
  <2> QED BY <1>1, <1>10, <2>1 DEF Core, Passing, InPass, Ahead, Present
<1> QED BY <1>6, <1>8, <1>9, <1>11 DEF Core

LEMMA RenderEndStep == ASSUME Core, RenderEnd PROVE Core'
<1> DEFINE p == [pages[Log] EXCEPT !.ver = work.read, !.stamp = Now]
<1>1. /\ vpc = "writing" /\ vpc' = "stamp" /\ UNCHANGED <<files, writes, view, work, rows>>
      /\ pages' = [pages EXCEPT ![Log] = p]
  BY DEF RenderEnd
<1>2. work.todo # <<>> /\ ~IsLive(Log) /\ pages[Log].tier = view.tier /\ ~pages[Log].finished
  BY <1>1 DEF Core, WorkTypes, Stamping
<1>3. Log \in Files
  BY <1>2, LogIs DEF Core
<1>4. p \in Page /\ p.ver = work.read /\ p.tier = view.tier
      /\ p.finished = pages[Log].finished
  <2>1. pages[Log] \in Page
    BY <1>3 DEF Core, LogTypes
  <2>2. work.read \in Nat /\ Now \in Int
    BY DEF Core, LogTypes, WorkTypes, Now, Tick
  <2> HIDE DEF Now
  <2> QED BY <1>2, <2>1, <2>2 DEF Page, Versions
<1> HIDE DEF p
<1>5. /\ pages' \in [Files -> Page] /\ pages'[Log] = p
      /\ \A f \in Files : f # Log => pages'[f] = pages[f]
  BY <1>1, <1>3, <1>4 DEF Core, LogTypes
<1>6. LogTypes' /\ WorkTypes'
  BY <1>1, <1>2, <1>5 DEF Core, LogTypes, WorkTypes
<1>7. Log' = Log
  BY <1>1 DEF Log
<1>8. Stamping'
  BY <1>1, <1>2, <1>4, <1>5, <1>7 DEF Core, Stamping, OnLog, Ticked
<1>9. PagesStamped'
  BY <1>1, <1>2, <1>4, <1>5 DEF Core, PagesStamped, Ticked, Early
<1>10. \A f \in Files : IsLive(f) => pages'[f] = pages[f]
  BY <1>2, <1>5
<1>11. Passing'
  <2>1. work.globbed \subseteq Files
    BY DEF Core, WorkTypes
  <2> QED BY <1>1, <1>10, <2>1 DEF Core, Passing, InPass, Ahead, Present
<1> QED BY <1>6, <1>8, <1>9, <1>11 DEF Core

LEMMA StampStep == ASSUME Core, Stamp PROVE Core'
<1>1. PICK rounded \in 0..Slack :
        pages' = [pages EXCEPT ![Log].stamp = StampOf(StampFrom) - rounded, ![Log].finished = TRUE]
  BY DEF Stamp
<1> DEFINE n == StampOf(work.seen) - rounded
           p == [pages[Log] EXCEPT !.stamp = n, !.finished = TRUE]
<1>2. /\ vpc = "stamp" /\ NextLog({<<Log, "ok">>}) /\ UNCHANGED <<files, writes, view>>
      /\ pages' = [pages EXCEPT ![Log] = p]
  BY <1>1 DEF Stamp, StampFrom
<1>3. work.todo # <<>> /\ InPass /\ ~IsLive(Log) /\ pages[Log].tier = view.tier /\ pages[Log].ver = work.read
  BY <1>2 DEF Core, WorkTypes, Stamping, InPass
<1>4. Log \in Files /\ pages[Log] \in Page
  BY <1>3, LogIs DEF Core, LogTypes
<1>5. work.seen \in Nat /\ Ticked(work.seen) /\ work.seen <= work.read /\ work.read <= files[Log]
  BY <1>2, <1>3 DEF Core, Stamping, OnLog, WorkTypes
<1>6. n \in {work.seen - Early(pages[Log]) - Slack, work.seen - Early(pages[Log])} /\ n \in Int
  BY <1>3, <1>5 DEF StampOf, Early, Delta, Slack
<1> HIDE DEF n
<1>7. p \in Page /\ p.ver = pages[Log].ver /\ p.tier = pages[Log].tier /\ p.stamp = n
  BY <1>4, <1>6 DEF Page
<1> HIDE DEF p
<1>8. /\ pages' \in [Files -> Page] /\ pages'[Log] = p
      /\ \A f \in Files : f # Log => pages'[f] = pages[f]
  BY <1>2, <1>4, <1>7 DEF Core, LogTypes
<1>9. LogTypes'
  BY <1>2, <1>8 DEF Core, LogTypes
<1>10. PagesStamped'
  <2> SUFFICES ASSUME NEW f \in Files, ~IsLive(f), pages'[f].finished
               PROVE  \E s \in Nat : /\ Ticked(s) /\ s <= pages'[f].ver /\ pages'[f].ver <= files'[f]
                        /\ pages'[f].stamp \in {s - Early(pages'[f]) - Slack, s - Early(pages'[f])}
    BY DEF PagesStamped, Ticked, Early
  <2>1. CASE f = Log
    <3>1. Early(p) = Early(pages[Log])
      BY <1>7 DEF Early
    <3> QED BY <1>2, <1>3, <1>5, <1>6, <1>7, <1>8, <2>1, <3>1
  <2>2. CASE f # Log
    <3>1. pages'[f] = pages[f] /\ files' = files
      BY <1>2, <1>8, <2>2
    <3> QED BY <3>1 DEF Core, PagesStamped
  <2> QED BY <2>1, <2>2
<1>11. /\ vpc' = "stat" /\ rows' = rows \cup {<<Log, "ok">>} /\ WorkShape'
       /\ work'.todo = Tail(work.todo) /\ work'.globbed = work.globbed /\ work'.seen = work.seen
       /\ work'.read = work.read /\ work'.moved = work.moved /\ work'.failed = work.failed
  BY <1>2, NextLogIs
<1>12. {<<Log, "ok">>} \subseteq {<<Log, "ok">>, <<Log, "error">>}
  OBVIOUS
<1> QED BY <1>2, <1>3, <1>8, <1>9, <1>10, <1>11, <1>12, DoneStep

\* Live pages without a log lead to the index.
LEMMA RedirectStep == ASSUME Core, Redirect PROVE Core'
<1> DEFINE orphans == {f \in Files \ Backed : IsLive(f) /\ pages[f].ver \notin {Missing, Stub}}
<1>1. PICK done \in {orphans} \cup {orphans \ {f} : f \in orphans} :
        /\ pages' = [f \in Files |-> IF f \in done THEN [pages[f] EXCEPT !.ver = Stub] ELSE pages[f]]
        /\ work' = [work EXCEPT !.failed = work.failed \/ done # orphans]
  BY DEF Redirect
<1>2. vpc = "stat" /\ vpc' = "index" /\ work.todo = <<>> /\ UNCHANGED <<files, writes, view, rows>>
  BY DEF Redirect
<1>3. done \subseteq orphans
  BY <1>1
<1>4. \A f \in done : IsLive(f) /\ f \notin work.globbed
  BY <1>3 DEF Backed
<1>5. \A f \in Files : f \notin done => pages'[f] = pages[f]
  BY <1>1
<1>6. \A f \in Files : f \in done => pages'[f] \in Page /\ pages'[f].ver = Stub
  <2> SUFFICES ASSUME NEW f \in Files, f \in done PROVE pages'[f] \in Page /\ pages'[f].ver = Stub
    OBVIOUS
  <2>1. pages[f] \in Page
    BY DEF Core, LogTypes
  <2>2. pages'[f] = [pages[f] EXCEPT !.ver = Stub]
    BY <1>1
  <2> QED BY <2>1, <2>2 DEF Page, Versions
<1>7. LogTypes'
  <2>1. \A f \in Files : pages[f] \in Page
    BY DEF Core, LogTypes
  <2>2. \A f \in Files : pages'[f] \in Page
    BY <1>5, <1>6, <2>1
  <2>3. pages' \in [Files -> Page]
    BY <1>1, <2>2
  <2> QED BY <1>2, <2>3 DEF Core, LogTypes
<1>8. /\ work'.todo = work.todo /\ work'.globbed = work.globbed /\ work'.seen = work.seen
      /\ work'.read = work.read /\ work'.moved = work.moved /\ WorkShape'
      /\ (~work'.failed => ~work.failed /\ done = orphans)
  BY <1>1 DEF Core, WorkTypes, WorkShape
<1>9. WorkTypes'
  BY <1>2, <1>8 DEF Core, WorkTypes, WorkShape
<1>10. Stamping'
  BY <1>2 DEF Core, Stamping, OnLog, Ticked
<1>11. PagesStamped'
  <2>1. \A f \in Files : ~IsLive(f) => pages'[f] = pages[f]
    BY <1>4, <1>5
  <2> QED BY <1>2, <2>1 DEF Core, PagesStamped, Ticked, Early
<1>12. Passing'
  <2>1. \A f \in work.globbed : pages'[f] = pages[f]
    BY <1>4, <1>5 DEF Core, WorkTypes
  <2>2. Ahead' = Ahead
    BY <1>8 DEF Ahead
  <2>3. InPass /\ InPass'
    BY <1>2 DEF InPass
  <2>4. ASSUME ~work'.failed, NEW f \in Files \ work.globbed, IsLive(f)
        PROVE  pages'[f].ver \in {Missing, Stub}
    <3>1. CASE f \in done
      BY <1>6, <3>1
    <3>2. CASE f \notin done
      <4>1. f \notin orphans /\ f \notin Backed
        BY <1>8, <2>4, <3>2 DEF Backed
      <4>2. pages[f].ver \in {Missing, Stub}
        BY <2>4, <4>1
      <4> QED BY <1>5, <3>2, <4>2
    <3> QED BY <3>1, <3>2
  <2>5. /\ \A f \in work'.globbed : IsLive(f) /\ <<f, "ok">> \in rows' => pages'[f].ver # Stub
        /\ \A i, j \in DOMAIN work'.todo : work'.todo[i] = work'.todo[j] => i = j
        /\ ~work'.moved => work'.globbed = Present'
        /\ Ahead' \subseteq work'.globbed
    BY <1>2, <1>8, <2>1, <2>2, <2>3 DEF Core, Passing, Present
  <2>6. ~work'.moved /\ ~work'.failed =>
          /\ rows' = {<<f, "ok">> : f \in work'.globbed \ Ahead'}
          /\ \A f \in work'.globbed \ Ahead' : IsLive(f) => pages'[f].ver = files'[f]
    BY <1>2, <1>8, <2>1, <2>2, <2>3 DEF Core, Passing
  <2>7. vpc' # "render" /\ work'.todo = <<>>
    BY <1>2, <1>8
  <2> QED BY <1>8, <2>4, <2>5, <2>6, <2>7 DEF Passing
<1> QED BY <1>7, <1>9, <1>10, <1>11, <1>12 DEF Core

LEMMA CommandSteps ==
    ASSUME Core, StartView \/ WriteIndex \/ PassFails \/ Bind \/ InstallSignal \/ StartThread \/ ServeTick
                   \/ InterruptedUnserved \/ Interrupted \/ CloseServer
    PROVE  Core'
<1>1. UNCHANGED <<files, writes, pages, rows>>
  BY DEF StartView, WriteIndex, PassFails, Bind, InstallSignal, StartThread, ServeTick,
      InterruptedUnserved, Interrupted, CloseServer
<1>2. ~InPass'
  BY DEF StartView, WriteIndex, PassFails, Bind, InstallSignal, StartThread, ServeTick,
      InterruptedUnserved, Interrupted, CloseServer,
         InPass
<1>3. work' = work \/ work' = [work EXCEPT !.failed = TRUE]
  BY DEF StartView, WriteIndex, PassFails, Bind, InstallSignal, StartThread, ServeTick,
      InterruptedUnserved, Interrupted, CloseServer
<1> QED BY <1>1, <1>2, <1>3, AsideStep

LEMMA ReportStep == ASSUME ReportInv, [ReportNext]_reportVars PROVE ReportInv'
<1>1. Core /\ ViewTypes /\ Loop
  BY DEF ReportInv, Core
<1>2. (ViewTypes /\ Loop)'
  BY <1>1, LoopStep
<1>3. Core'
  <2>1. CASE \E r \in Runs : LogWritten(r) \/ SnapshotRemoved(r)
    BY <1>1, <2>1, WritingStep
  <2>2. CASE Glob
    BY <1>1, <2>2, GlobStep
  <2>3. CASE Stat
    BY <1>1, <2>3, StatStep
  <2>4. CASE Vanished
    BY <1>1, <2>4, VanishedStep
  <2>5. CASE Read
    BY <1>1, <2>5, ReadStep
  <2>6. CASE RenderLive
    BY <1>1, <2>6, RenderLiveStep
  <2>7. CASE RenderBegin
    BY <1>1, <2>7, RenderBeginStep
  <2>8. CASE RenderEnd
    BY <1>1, <2>8, RenderEndStep
  <2>9. CASE Stamp
    BY <1>1, <2>9, StampStep
  <2>10. CASE LogFails
    BY <1>1, <2>10, LogFailsStep
  <2>11. CASE Redirect
    BY <1>1, <2>11, RedirectStep
  <2>12. CASE StartView \/ WriteIndex \/ PassFails \/ Bind \/ InstallSignal \/ StartThread \/ ServeTick
                \/ InterruptedUnserved \/ Interrupted \/ CloseServer
    BY <1>1, <2>12, CommandSteps
  <2>13. CASE UNCHANGED reportVars
    BY <1>1, <2>13 DEF reportVars, Core, LogTypes, WorkTypes, Stamping, OnLog, Log, Ticked, PagesStamped, Early,
                       Passing, InPass, Ahead, Present
  <2> QED
    BY <2>1, <2>2, <2>3, <2>4, <2>5, <2>6, <2>7, <2>8, <2>9, <2>10, <2>11, <2>12, <2>13 DEF ReportNext
<1> QED BY <1>2, <1>3 DEF ReportInv, Core

LEMMA ReportInvInit == ReportInit => ReportInv
<1> SUFFICES ASSUME ReportInit PROVE ReportInv
  OBVIOUS
<1>1. /\ files = [f \in Files |-> 0] /\ writes = 0 /\ pages = [f \in Files |-> NoPage]
      /\ view = [mode |-> "none", tier |-> "full", force |-> FALSE, passes |-> 0, ticks |-> 0,
                 live |-> {}, asked |-> {}, server |-> "none", signal |-> FALSE]
      /\ vpc = "idle" /\ rows = {}
      /\ work = [todo |-> <<>>, globbed |-> {}, seen |-> 0, read |-> 0, moved |-> FALSE, failed |-> FALSE]
  BY DEF ReportInit
<1>2. ViewTypes /\ Loop
  BY <1>1 DEF ViewTypes, Loop
<1>3. NoPage \in Page /\ NoPage.finished = FALSE
  BY DEF NoPage, Page, Versions, Missing
<1>4. LogTypes
  BY <1>1, <1>3 DEF LogTypes
<1>5. work.todo = <<>> /\ work.globbed = {} /\ work.seen = 0 /\ work.read = 0
      /\ <<>> \in Seq(Files) /\ DOMAIN work.todo = {}
  BY <1>1, EmptySeq
<1>6. WorkTypes
  BY <1>1, <1>5 DEF WorkTypes
<1>7. Stamping /\ PagesStamped
  BY <1>1, <1>3 DEF Stamping, Ticked, Tick, OnLog, PagesStamped
<1>8. Passing
  BY <1>1, <1>5 DEF Passing, InPass, Present
<1> QED BY <1>2, <1>4, <1>6, <1>7, <1>8 DEF ReportInv

LEMMA ReportSafe == ReportInv => ReportTypeOK /\ NoStalePage /\ PassIsComplete /\ ServingUnwinds
<1> SUFFICES ASSUME ReportInv PROVE ReportTypeOK /\ NoStalePage /\ PassIsComplete /\ ServingUnwinds
  OBVIOUS
<1>1. ReportTypeOK
  <2>1. \A f \in Files : pages[f].ver \in {Torn, Stub} \cup Nat /\ pages[f].tier \in {"full", "light"}
    BY DEF ReportInv, LogTypes, Page, Versions
  <2> QED BY <2>1 DEF ReportInv, ViewTypes, WorkTypes, ReportTypeOK
<1>2. ServingUnwinds
  BY DEF ReportInv, Loop, ServingUnwinds
<1>3. PassIsComplete
  <2> SUFFICES ASSUME vpc = "index" PROVE PassIsComplete
    BY DEF PassIsComplete
  <2>1. InPass /\ work.todo = <<>> /\ Ahead = {}
    <3>1. work.todo = <<>>
      BY DEF ReportInv, Passing
    <3> QED BY <3>1 DEF InPass, Ahead
  <2>2. \A f \in work.globbed : IsLive(f) /\ <<f, "ok">> \in rows => pages[f].ver # Stub
    BY DEF ReportInv, Passing
  <2>3. ASSUME ~work.moved, ~work.failed
        PROVE  /\ rows = {<<f, "ok">> : f \in Present}
               /\ \A f \in Files : IsLive(f) /\ files[f] = 0 => pages[f].ver \in {Missing, Stub}
               /\ \A f \in Present : IsLive(f) => pages[f].ver = files[f]
    <3>1. work.globbed = Present
      BY <2>3 DEF ReportInv, Passing
    <3>2. work.globbed \ Ahead = Present
      BY <2>1, <3>1
    <3> QED BY <2>1, <2>3, <3>1, <3>2 DEF ReportInv, Passing, Present
  <2> QED BY <2>2, <2>3 DEF PassIsComplete
<1>4. NoStalePage
  <2> SUFFICES ASSUME NEW f \in Files, ~IsLive(f), files[f] # 0, pages[f].finished,
                      pages[f].stamp >= StampOf(files[f]) - Slack
               PROVE  pages[f].ver = files[f] /\ (view.tier = "full" => pages[f].tier = "full")
    BY DEF NoStalePage, Files, IsLive
  <2>1. PICK s \in Nat : /\ Ticked(s) /\ s <= pages[f].ver /\ pages[f].ver <= files[f]
                         /\ pages[f].stamp \in {s - Early(pages[f]) - Slack, s - Early(pages[f])}
    BY DEF ReportInv, PagesStamped
  <2>2. pages[f].ver \in Int /\ pages[f].tier \in {"full", "light"} /\ view.tier \in {"full", "light"}
        /\ files[f] \in Nat /\ files[f] % 4 = 0 /\ s % 4 = 0
    BY <2>1 DEF ReportInv, LogTypes, Page, Versions, Torn, Stub, ViewTypes, Stamping, Ticked, Tick
  <2>3. s <= files[f] /\ s \in Int
    BY <2>1, <2>2
  <2>4. CASE view.tier = "full" /\ pages[f].tier = "light"
    BY <2>1, <2>2, <2>3, <2>4 DEF StampOf, Early, Delta, Slack
  <2>5. CASE view.tier = "full" /\ pages[f].tier = "full"
    <3>1. s >= files[f] - 1
      BY <2>1, <2>2, <2>3, <2>5 DEF StampOf, Early, Slack
    <3>2. s = files[f]
      BY <2>2, <2>3, <3>1
    <3> QED BY <2>1, <2>2, <2>5, <3>2
  <2>6. CASE view.tier = "light"
    <3>1. s >= files[f] - 3
      BY <2>1, <2>2, <2>3, <2>6 DEF StampOf, Early, Delta, Slack
    <3>2. s = files[f]
      BY <2>2, <2>3, <3>1
    <3> QED BY <2>1, <2>2, <2>6, <3>2
  <2> QED BY <2>2, <2>4, <2>5, <2>6
<1> QED BY <1>1, <1>2, <1>3, <1>4

----------------------------------------------------------------------------
\* The speaker.

Constantly(s) == \A i, j \in 1..Len(s) : s[i] = s[j]

SpeakerPlaces ==
    /\ mode \in Modes /\ starter \in {"new", "building", "built", "done"}
    /\ caller \in {"idle", "waiting", "draining", "closing", "joining", "over"}
    /\ speaker \in {"off", "waiting", "checking", "writing", "playing"}

SpeakerFlags ==
    /\ inflight \in BOOLEAN /\ silenced \in BOOLEAN /\ closed \in BOOLEAN /\ stopped \in BOOLEAN
    /\ degraded \in BOOLEAN /\ hasThread \in BOOLEAN /\ stream \in BOOLEAN /\ outlived \in BOOLEAN

SpeakerTypes == SpeakerPlaces /\ SpeakerFlags

SpeakerCounts ==
    /\ deltas \in 0..MaxDeltas /\ speechGen \in Nat /\ speechGen <= MaxDeltas + deltas
    /\ noteGen \in 0..speechGen /\ left \in 0..Chunks /\ late \in Nat
    /\ speaker \in {"writing", "playing"} => late = 0 /\ left > 0
    /\ late > 0 => late = 1 /\ Chunks > 0 /\ noteGen < speechGen

\* What is queued is of one delta only, as long as a blocking wait has not timed out.
SpeakerNotes ==
    /\ notes \in Seq(1..MaxDeltas) /\ Len(notes) <= QueueSize /\ note \in 0..MaxDeltas
    /\ mode = "blocking" /\ ~degraded => Constantly(notes)

\* A worker belongs to the sink until close() has stopped waiting for it, and so does
\* the stream it opens; after that only a worker which was then in a write opens one.
SpeakerStreams ==
    /\ stream => hasThread \/ outlived
    /\ outlived => caller = "over"
    /\ caller # "over" => (speaker # "off" => hasThread)
    /\ caller = "over" => (speaker = "writing" => outlived)
    /\ hasThread => starter = "done" /\ caller # "over"
    /\ caller \in {"joining", "over"} <=> closed
    /\ closed => stopped
    /\ deltas = 0 => caller # "waiting"

SpeakerInv == SpeakerTypes /\ SpeakerCounts /\ SpeakerNotes /\ SpeakerStreams

USE DEF flags, speech, playback

LEMMA SpeakerPlacesStep == SpeakerPlaces /\ [SpNext]_speakerVars => SpeakerPlaces'
<1> SUFFICES ASSUME SpeakerPlaces, [SpNext]_speakerVars PROVE SpeakerPlaces'
  OBVIOUS
<1> USE DEF SpeakerPlaces
<1>0. CASE UNCHANGED speakerVars
  BY <1>0 DEF speakerVars
<1>1. CASE StartChecks
  BY <1>1 DEF StartChecks
<1>2. CASE StartBuilds
  BY <1>2 DEF StartBuilds
<1>3. CASE StartPublishes
  BY <1>3 DEF StartPublishes
<1>4. CASE Narrate
  BY <1>4 DEF Narrate
<1>5. CASE WaitEnds
  BY <1>5 DEF WaitEnds
<1>6. CASE TrialBoundary
  BY <1>6 DEF TrialBoundary
<1>7. CASE EvalEnds
  BY <1>7 DEF EvalEnds
<1>8. CASE DrainEnds
  BY <1>8 DEF DrainEnds
<1>9. CASE CloseSpeaker
  BY <1>9 DEF CloseSpeaker
<1>10. CASE JoinSpeaker
  BY <1>10 DEF JoinSpeaker
<1>11. CASE TakeNote
  BY <1>11 DEF TakeNote
<1>12. CASE SpeakerStops
  BY <1>12 DEF SpeakerStops, Leaves
<1>13. CASE CheckGeneration
  BY <1>13 DEF CheckGeneration, Returns
<1>14. CASE OpenStream
  BY <1>14 DEF OpenStream
<1>15. CASE WriteChunk
  BY <1>15 DEF WriteChunk
<1>16. CASE SpeakerFails
  BY <1>16 DEF SpeakerFails, Leaves
<1> QED
  BY <1>0, <1>1, <1>2, <1>3, <1>4, <1>5, <1>6, <1>7, <1>8,
     <1>9, <1>10, <1>11, <1>12, <1>13, <1>14, <1>15, <1>16 DEF SpNext

LEMMA SpeakerFlagsStep == SpeakerFlags /\ [SpNext]_speakerVars => SpeakerFlags'
<1> SUFFICES ASSUME SpeakerFlags, [SpNext]_speakerVars PROVE SpeakerFlags'
  OBVIOUS
<1> USE DEF SpeakerFlags
<1>0. CASE UNCHANGED speakerVars
  BY <1>0 DEF speakerVars
<1>1. CASE StartChecks
  BY <1>1, ZenonT(30) DEF StartChecks
<1>2. CASE StartBuilds
  BY <1>2, ZenonT(30) DEF StartBuilds
<1>3. CASE StartPublishes
  BY <1>3, ZenonT(30) DEF StartPublishes
<1>4. CASE Narrate
  BY <1>4, ZenonT(30) DEF Narrate
<1>5. CASE WaitEnds
  BY <1>5, ZenonT(30) DEF WaitEnds
<1>6. CASE TrialBoundary
  BY <1>6, ZenonT(30) DEF TrialBoundary
<1>7. CASE EvalEnds
  BY <1>7, ZenonT(30) DEF EvalEnds
<1>8. CASE DrainEnds
  BY <1>8, ZenonT(30) DEF DrainEnds
<1>9. CASE CloseSpeaker
  BY <1>9, ZenonT(30) DEF CloseSpeaker
<1>10. CASE JoinSpeaker
  BY <1>10, ZenonT(30) DEF JoinSpeaker
<1>11. CASE TakeNote
  BY <1>11, ZenonT(30) DEF TakeNote
<1>12. CASE SpeakerStops
  BY <1>12, ZenonT(30) DEF SpeakerStops, Leaves
<1>13. CASE CheckGeneration
  BY <1>13, ZenonT(30) DEF CheckGeneration, Returns
<1>14. CASE OpenStream
  BY <1>14, ZenonT(30) DEF OpenStream
<1>15. CASE WriteChunk
  BY <1>15, ZenonT(30) DEF WriteChunk
<1>16. CASE SpeakerFails
  BY <1>16, ZenonT(30) DEF SpeakerFails, Leaves
<1> QED
  BY <1>0, <1>1, <1>2, <1>3, <1>4, <1>5, <1>6, <1>7, <1>8,
     <1>9, <1>10, <1>11, <1>12, <1>13, <1>14, <1>15, <1>16 DEF SpNext

LEMMA SpeakerTypesStep == SpeakerTypes /\ [SpNext]_speakerVars => SpeakerTypes'
  BY SpeakerPlacesStep, SpeakerFlagsStep DEF SpeakerTypes

LEMMA SpeakerCountsStep == SpeakerTypes /\ SpeakerCounts /\ [SpNext]_speakerVars => SpeakerCounts'
<1> SUFFICES ASSUME SpeakerTypes, SpeakerCounts, [SpNext]_speakerVars PROVE SpeakerCounts'
  OBVIOUS
<1> USE SpeakerAssumption DEF SpeakerCounts
<1>0. CASE UNCHANGED speakerVars
  BY <1>0 DEF speakerVars
<1>1. CASE StartChecks \/ StartBuilds \/ WaitEnds \/ EvalEnds \/ DrainEnds \/ CloseSpeaker \/ JoinSpeaker
  <2>1. UNCHANGED <<deltas, speechGen, noteGen, left, late, speaker>>
    BY <1>1 DEF StartChecks, StartBuilds, WaitEnds, EvalEnds, DrainEnds, CloseSpeaker, JoinSpeaker
  <2> QED BY <2>1
<1>2. CASE StartPublishes
  <2>1. UNCHANGED <<deltas, speechGen, noteGen, left, late>> /\ speaker' \in {speaker, "waiting"}
    BY <1>2 DEF StartPublishes
  <2> QED BY <2>1
<1>3. CASE Narrate
  <2>1. UNCHANGED <<noteGen, left, late, speaker>> /\ deltas' = deltas + 1 /\ deltas < MaxDeltas
        /\ speechGen' \in {speechGen, speechGen + 1}
    BY <1>3 DEF Narrate
  <2> QED BY <2>1
<1>4. CASE TrialBoundary
  <2>1. UNCHANGED <<deltas, noteGen, left, late, speaker>>
        /\ speechGen' \in {speechGen, speechGen + 1} /\ speechGen' <= MaxDeltas
    BY <1>4 DEF TrialBoundary
  <2> QED BY <2>1
<1>5. CASE TakeNote
  <2>1. UNCHANGED <<deltas, speechGen>> /\ noteGen' = speechGen /\ left' = Chunks /\ late' = 0
        /\ speaker' = "checking"
    BY <1>5 DEF TakeNote
  <2> QED BY <2>1
<1>6. CASE SpeakerStops \/ SpeakerFails
  <2>1. UNCHANGED <<deltas, speechGen, noteGen, late>> /\ left' = 0 /\ speaker' = "off"
    BY <1>6 DEF SpeakerStops, SpeakerFails, Leaves
  <2> QED BY <2>1
<1>7. CASE CheckGeneration
  <2>1. /\ UNCHANGED <<deltas, speechGen, noteGen, late>>
        /\ \/ left' = 0 /\ speaker' = "waiting"
           \/ left' = left /\ left # 0 /\ speaker' = "writing" /\ noteGen = speechGen
    BY <1>7 DEF CheckGeneration, Returns
  <2> QED BY <2>1
<1>8. CASE WriteChunk
  <2>1. /\ UNCHANGED <<deltas, speechGen, noteGen>> /\ speaker = "playing" /\ speaker' = "checking"
        /\ left' = left - 1 /\ late' = IF noteGen # speechGen THEN late + 1 ELSE late
    BY <1>8 DEF WriteChunk
  <2> QED BY <2>1
<1>9. CASE OpenStream
  <2>1. UNCHANGED <<deltas, speechGen, noteGen, left, late>> /\ speaker = "writing"
    BY <1>9 DEF OpenStream
  <2> QED BY <2>1
<1> QED
  BY <1>0, <1>1, <1>2, <1>3, <1>4, <1>5, <1>6, <1>7, <1>8, <1>9 DEF SpNext

\* The queue keeps the newest notes.
LEMMA QueuedKnown ==
    ASSUME NEW q \in Seq(1..MaxDeltas), deltas' \in 1..MaxDeltas
    PROVE  /\ Queued(q) \in Seq(1..MaxDeltas) /\ Len(Queued(q)) <= QueueSize
           /\ q = <<>> => Constantly(Queued(q))
<1> USE SpeakerAssumption
<1> DEFINE new == [i \in 1..Texts |-> deltas']
           s == q \o new
           k == IF Len(s) > QueueSize THEN Len(s) - QueueSize + 1 ELSE 1
<1>1. new \in Seq(1..MaxDeltas) /\ Len(new) = Texts /\ \A i \in 1..Len(new) : new[i] = deltas'
  OBVIOUS
<1> HIDE DEF new
<1>2. s \in Seq(1..MaxDeltas) /\ Len(s) \in Nat
  BY <1>1, ConcatProperties
<1>3. q = <<>> => s = new
  BY <1>1
<1>4. Queued(q) = SubSeq(s, k, Len(s))
  BY DEF Queued, new
<1> HIDE DEF s
<1>5. k \in 1..(Len(s) + 1) /\ Len(s) - k + 1 <= QueueSize
  BY <1>2
<1> HIDE DEF k
<1>6. /\ SubSeq(s, k, Len(s)) \in Seq(1..MaxDeltas) /\ Len(SubSeq(s, k, Len(s))) = Len(s) - k + 1
      /\ \A i \in 1..(Len(s) - k + 1) : SubSeq(s, k, Len(s))[i] = s[k + i - 1] /\ k + i - 1 \in 1..Len(s)
  BY <1>2, <1>5
<1> QED BY <1>1, <1>2, <1>3, <1>4, <1>5, <1>6 DEF Constantly

LEMMA SpeakerNotesStep ==
    SpeakerTypes /\ SpeakerCounts /\ SpeakerStreams /\ SpeakerNotes /\ [SpNext]_speakerVars => SpeakerNotes'
<1> SUFFICES ASSUME SpeakerTypes, SpeakerCounts, SpeakerStreams, SpeakerNotes, [SpNext]_speakerVars
             PROVE  SpeakerNotes'
  OBVIOUS
<1> USE SpeakerAssumption
<1>a. <<>> \in Seq(1..MaxDeltas) /\ Len(<<>>) = 0 /\ Constantly(<<>>)
  BY EmptySeq DEF Constantly
<1>0. CASE UNCHANGED speakerVars
  BY <1>0 DEF speakerVars, SpeakerNotes, Constantly
<1>1. CASE StartChecks \/ StartBuilds \/ StartPublishes \/ EvalEnds \/ DrainEnds \/ JoinSpeaker
           \/ OpenStream \/ WriteChunk
  <2>1. UNCHANGED <<mode, degraded, notes, note>>
    BY <1>1 DEF StartChecks, StartBuilds, StartPublishes, EvalEnds, DrainEnds, JoinSpeaker, OpenStream,
                WriteChunk
  <2> QED BY <2>1 DEF SpeakerNotes, Constantly
<1>2. CASE Narrate
  <2>1. /\ UNCHANGED <<mode, degraded, note>> /\ deltas' = deltas + 1 /\ deltas < MaxDeltas
        /\ \/ notes' = Queued(<<>>) /\ mode = "interrupt"
           \/ notes' = Queued(notes) /\ (mode = "blocking" => degraded \/ notes = <<>>)
           \/ notes' = notes
    BY <1>2 DEF Narrate
  <2>2. deltas' \in 1..MaxDeltas
    BY <2>1 DEF SpeakerCounts
  <2>3. /\ Queued(<<>>) \in Seq(1..MaxDeltas) /\ Len(Queued(<<>>)) <= QueueSize
        /\ Constantly(Queued(<<>>))
    BY <1>a, <2>2, QueuedKnown
  <2>4. /\ Queued(notes) \in Seq(1..MaxDeltas) /\ Len(Queued(notes)) <= QueueSize
        /\ notes = <<>> => Constantly(Queued(notes))
    BY <2>2, QueuedKnown DEF SpeakerNotes
  <2>5. notes \in Seq(1..MaxDeltas) /\ Len(notes) <= QueueSize /\ note \in 0..MaxDeltas
        /\ (mode = "blocking" /\ ~degraded => Constantly(notes))
    BY DEF SpeakerNotes
  <2>6. \A s : notes' = s => (Constantly(s) => Constantly(notes)')
    BY DEF Constantly
  <2>7. notes' \in Seq(1..MaxDeltas) /\ Len(notes') <= QueueSize /\ note' \in 0..MaxDeltas
    BY <2>1, <2>3, <2>4, <2>5
  <2>8. mode' = "blocking" /\ ~degraded' => Constantly(notes)'
    BY <2>1, <2>3, <2>4, <2>5, <2>6
  <2> QED BY <2>7, <2>8 DEF SpeakerNotes
<1>3. CASE WaitEnds
  <2>1. /\ UNCHANGED <<mode, note, deltas>> /\ caller = "waiting"
        /\ \/ notes' = notes /\ degraded' = degraded
           \/ notes' = Queued(<<>>) /\ degraded' = degraded
           \/ notes' = Queued(notes) /\ degraded'
    BY <1>3 DEF WaitEnds
  <2>2. deltas' \in 1..MaxDeltas
    BY <2>1 DEF SpeakerCounts, SpeakerStreams
  <2>3. /\ Queued(<<>>) \in Seq(1..MaxDeltas) /\ Len(Queued(<<>>)) <= QueueSize
        /\ Constantly(Queued(<<>>))
    BY <1>a, <2>2, QueuedKnown
  <2>4. /\ Queued(notes) \in Seq(1..MaxDeltas) /\ Len(Queued(notes)) <= QueueSize
        /\ notes = <<>> => Constantly(Queued(notes))
    BY <2>2, QueuedKnown DEF SpeakerNotes
  <2>5. notes \in Seq(1..MaxDeltas) /\ Len(notes) <= QueueSize /\ note \in 0..MaxDeltas
        /\ (mode = "blocking" /\ ~degraded => Constantly(notes))
    BY DEF SpeakerNotes
  <2>6. \A s : notes' = s => (Constantly(s) => Constantly(notes)')
    BY DEF Constantly
  <2>7. notes' \in Seq(1..MaxDeltas) /\ Len(notes') <= QueueSize /\ note' \in 0..MaxDeltas
    BY <2>1, <2>3, <2>4, <2>5
  <2>8. mode' = "blocking" /\ ~degraded' => Constantly(notes)'
    BY <2>1, <2>3, <2>4, <2>5, <2>6
  <2> QED BY <2>7, <2>8 DEF SpeakerNotes
<1>4. CASE TrialBoundary \/ CloseSpeaker
  <2>1. UNCHANGED <<mode, degraded, note>> /\ notes' = <<>>
    BY <1>4 DEF TrialBoundary, CloseSpeaker
  <2> QED BY <1>a, <2>1 DEF SpeakerNotes
<1>5. CASE TakeNote
  <2>1. UNCHANGED <<mode, degraded>> /\ notes # <<>> /\ note' = Head(notes) /\ notes' = Tail(notes)
    BY <1>5 DEF TakeNote
  <2>2. /\ Tail(notes) \in Seq(1..MaxDeltas) /\ Len(Tail(notes)) = Len(notes) - 1 /\ Head(notes) \in 1..MaxDeltas
        /\ \A i \in 1..Len(Tail(notes)) : Tail(notes)[i] = notes[i + 1] /\ i + 1 \in 1..Len(notes)
    BY <2>1, HeadTailProperties DEF SpeakerNotes
  <2>3. Constantly(notes) => Constantly(Tail(notes))
    BY <2>2 DEF Constantly
  <2>4. Len(notes) \in Nat
    BY LenProperties DEF SpeakerNotes
  <2> QED BY <2>1, <2>2, <2>3, <2>4 DEF SpeakerNotes
<1>6. CASE SpeakerStops \/ SpeakerFails \/ CheckGeneration
  <2>1. UNCHANGED <<mode, degraded>> /\ note' \in {0, note} /\ notes' \in {notes, <<>>}
    BY <1>6 DEF SpeakerStops, SpeakerFails, CheckGeneration, Leaves, Returns
  <2>2. notes' = notes \/ notes' = <<>>
    BY <2>1
  <2>3. notes' = notes => (Constantly(notes) => Constantly(notes)')
    BY DEF Constantly
  <2>4. notes' = <<>> => Constantly(notes)'
    BY DEF Constantly
  <2>5. notes' \in Seq(1..MaxDeltas) /\ Len(notes') <= QueueSize /\ note' \in 0..MaxDeltas
    <3>1. notes \in Seq(1..MaxDeltas) /\ Len(notes) <= QueueSize /\ note \in 0..MaxDeltas
      BY DEF SpeakerNotes
    <3>2. note' \in 0..MaxDeltas
      BY <2>1, <3>1
    <3>3. notes' \in Seq(1..MaxDeltas) /\ Len(notes') <= QueueSize
      <4>1. CASE notes' = notes
        BY <3>1, <4>1, Zenon
      <4>2. CASE notes' = <<>>
        <5>1. 0 <= QueueSize
          OBVIOUS
        <5> QED BY <1>a, <4>2, <5>1, Zenon
      <4> QED BY <2>2, <4>1, <4>2
    <3> QED BY <3>2, <3>3
  <2>6. mode' = "blocking" /\ ~degraded' => Constantly(notes)'
    BY <2>1, <2>2, <2>3, <2>4 DEF SpeakerNotes
  <2> QED BY <2>5, <2>6 DEF SpeakerNotes
<1> QED
  BY <1>0, <1>1, <1>2, <1>3, <1>4, <1>5, <1>6 DEF SpNext

LEMMA SpeakerStreamsStep ==
    SpeakerTypes /\ SpeakerCounts /\ SpeakerStreams /\ [SpNext]_speakerVars => SpeakerStreams'
<1> SUFFICES ASSUME SpeakerTypes, SpeakerCounts, SpeakerStreams, [SpNext]_speakerVars PROVE SpeakerStreams'
  OBVIOUS
<1> USE DEF SpeakerStreams
<1>a. deltas \in Nat /\ hasThread \in BOOLEAN /\ closed \in BOOLEAN /\ stopped \in BOOLEAN
      /\ stream \in BOOLEAN /\ outlived \in BOOLEAN
  BY SpeakerAssumption DEF SpeakerCounts, SpeakerTypes, SpeakerFlags
<1>0. CASE UNCHANGED speakerVars
  BY <1>0 DEF speakerVars
<1>1. CASE StartChecks
  BY <1>a, <1>1 DEF StartChecks
<1>2. CASE StartBuilds
  BY <1>a, <1>2 DEF StartBuilds
<1>3. CASE StartPublishes
  <2>1. CASE closed
    BY <1>a, <1>3, <2>1 DEF StartPublishes
  <2>2. CASE ~closed
    BY <1>a, <1>3, <2>2 DEF StartPublishes
  <2> QED BY <2>1, <2>2
<1>4. CASE Narrate
  <2>1. UNCHANGED <<starter, stream, outlived, speaker, hasThread, closed, stopped>> /\ deltas' = deltas + 1
        /\ caller = "idle" /\ caller' \in {caller, "waiting"}
    BY <1>4 DEF Narrate
  <2> QED BY <1>a, <2>1
<1>5. CASE WaitEnds
  BY <1>a, <1>5 DEF WaitEnds
<1>6. CASE TrialBoundary
  BY <1>a, <1>6 DEF TrialBoundary
<1>7. CASE EvalEnds
  BY <1>a, <1>7 DEF EvalEnds
<1>8. CASE DrainEnds
  BY <1>a, <1>8 DEF DrainEnds
<1>9. CASE CloseSpeaker
  BY <1>a, <1>9 DEF CloseSpeaker
<1>10. CASE JoinSpeaker
  BY <1>a, <1>10 DEF JoinSpeaker
<1>11. CASE TakeNote \/ OpenStream \/ WriteChunk
  BY <1>a, <1>11 DEF TakeNote, OpenStream, WriteChunk
<1>12. CASE SpeakerStops
  BY <1>a, <1>12 DEF SpeakerStops, Leaves
<1>14. CASE CheckGeneration
  <2>1. UNCHANGED <<starter, caller, deltas, closed, stopped, hasThread, stream, outlived>>
        /\ speaker = "checking" /\ ~stopped
    BY <1>14 DEF CheckGeneration
  <2> QED BY <1>a, <2>1
<1>13. CASE SpeakerFails
  <2>1. /\ UNCHANGED <<starter, caller, deltas, closed, hasThread, outlived>> /\ stopped'
        /\ speaker' = "off" /\ (speaker = "writing" \/ stream' = stream) /\ speaker # "off"
    BY <1>13 DEF SpeakerFails, Leaves
  <2> QED BY <1>a, <2>1
<1> QED
  BY <1>0, <1>1, <1>2, <1>3, <1>4, <1>5, <1>6, <1>7, <1>8, <1>9, <1>10, <1>11, <1>12, <1>13, <1>14 DEF SpNext

LEMMA SpeakerInit == SpInit => SpeakerInv
<1> SUFFICES ASSUME SpInit PROVE SpeakerInv
  OBVIOUS
<1>1. SpeakerTypes
  BY DEF SpInit, SpeakerTypes, SpeakerPlaces, SpeakerFlags
<1>3. SpeakerCounts
  BY SpeakerAssumption DEF SpInit, SpeakerCounts
<1>4. SpeakerStreams
  BY DEF SpInit, SpeakerStreams
<1>2. SpeakerNotes
  BY SpeakerAssumption, EmptySeq DEF SpInit, SpeakerNotes, Constantly
<1> QED BY <1>1, <1>2, <1>3, <1>4 DEF SpeakerInv

LEMMA SpeakerStep == SpeakerInv /\ [SpNext]_speakerVars => SpeakerInv'
  BY SpeakerTypesStep, SpeakerCountsStep, SpeakerNotesStep, SpeakerStreamsStep DEF SpeakerInv

LEMMA SpeakerSafe ==
    SpeakerInv => SpeakerTypeOK /\ CancelledWithinAChunk /\ BlockingKeepsUp /\ SpeakerReleased
<1> SUFFICES ASSUME SpeakerInv PROVE SpeakerTypeOK /\ CancelledWithinAChunk /\ BlockingKeepsUp /\ SpeakerReleased
  OBVIOUS
<1> USE DEF SpeakerInv
<1>1. late <= 1
  BY DEF SpeakerCounts
<1>2. BlockingKeepsUp
  <2>1. DOMAIN notes = 1..Len(notes)
    BY LenProperties DEF SpeakerNotes
  <2> QED BY <2>1 DEF SpeakerNotes, Constantly, BlockingKeepsUp
<1>3. SpeakerReleased
  BY DEF SpeakerStreams, SpeakerReleased
<1>4. deltas \in 0..MaxDeltas /\ speechGen \in 0..(2 * MaxDeltas) /\ left \in 0..Chunks /\ late \in 0..Chunks
  BY SpeakerAssumption DEF SpeakerCounts
<1>5. notes \in Seq(1..MaxDeltas) /\ Len(notes) <= QueueSize /\ note \in 0..MaxDeltas
  BY DEF SpeakerNotes
<1>6. {stream, outlived} \subseteq BOOLEAN
  BY DEF SpeakerTypes, SpeakerFlags
<1>7. SpeakerTypeOK
  BY <1>4, <1>5, <1>6 DEF SpeakerTypes, SpeakerPlaces, SpeakerFlags, SpeakerTypeOK
<1> QED BY <1>1, <1>2, <1>3, <1>7 DEF CancelledWithinAChunk

----------------------------------------------------------------------------
\* All of it together. A step of the whole is a step or a stutter of each part.

LEMMA AttendedParts ==
    [ANext]_attendedVars =>
      /\ subject' = subject
      /\ [SNext]_sessionVars /\ [VNext]_voiceVars /\ [SpNext]_speakerVars
      /\ [RerunNext]_rerunVars /\ [ReportNext]_reportVars
  BY DEF ANext, attendedVars

VoiceInv == GenInv /\ MicInv /\ VoiceBounds /\ AudioFresh
AttendedInv == Inv /\ VoiceInv /\ SpeakerInv /\ RerunInv /\ RerunTold /\ ReportInv

LEMMA AttendedInit == AInit => AttendedInv
<1> SUFFICES ASSUME AInit PROVE AttendedInv
  OBVIOUS
<1>1. SInit /\ VInit /\ SpInit /\ RInit0 /\ ReportInit
  BY DEF AInit
<1> QED
  BY <1>1, InvInit, GenInit, MicInit, VoiceBoundsInit, FreshInit, SpeakerInit, RerunInit, ReportInvInit
     DEF AttendedInv, VoiceInv

LEMMA AttendedStep == AttendedInv /\ [ANext]_attendedVars => AttendedInv'
<1> SUFFICES ASSUME AttendedInv, [ANext]_attendedVars PROVE AttendedInv'
  OBVIOUS
<1>1. /\ [SNext]_sessionVars /\ [VNext]_voiceVars /\ [SpNext]_speakerVars
      /\ [RerunNext]_rerunVars /\ [ReportNext]_reportVars
  BY AttendedParts
<1>2. Inv'
  BY <1>1, InvStep DEF AttendedInv
<1>3. VoiceInv'
  BY <1>1, GenStep, MicStep, VoiceBoundsStep, FreshStep DEF AttendedInv, VoiceInv, VoiceBounds
<1>4. SpeakerInv'
  BY <1>1, SpeakerStep DEF AttendedInv
<1>5. RerunInv' /\ RerunTold'
  BY <1>1, RerunStep DEF AttendedInv
<1>6. ReportInv'
  BY <1>1, ReportStep DEF AttendedInv
<1> QED BY <1>2, <1>3, <1>4, <1>5, <1>6 DEF AttendedInv

LEMMA AttendedAlways == ASpec => []AttendedInv
  BY AttendedInit, AttendedStep, PTL DEF ASpec

\* The five parts keep their types and bounds: the terminal's buffers, the audio queue
\* and the gate, the speaker's queue, the Rerun queue and the rendered pages.
THEOREM AttendedTypes == ASpec => []AttendedTypeOK
<1>1. AttendedInv => AttendedTypeOK
  BY InvSafe, VoiceBoundsSafe, SpeakerSafe, RerunSafe, ReportSafe
     DEF AttendedInv, VoiceInv, AttendedTypeOK
<1> QED BY <1>1, AttendedAlways, PTL

\* What the policy hears was typed, or its gate opened, in the trial it is heard in; of
\* the audio of an earlier trial one block at most enters the segmenter once
\* begin_trial() has returned; and no byte of the terminal is read by two readers:
\* session.py's drains and the pump's join, the generations of VoiceInput.
THEOREM OnlyThisTrialAlways == ASpec => []OnlyThisTrial
<1>1. AttendedInv => OnlyThisTrial
  BY InvSafe, FreshSafe DEF AttendedInv, VoiceInv, OnlyThisTrial
<1> QED BY <1>1, AttendedAlways, PTL

\* The microphone is closed by the time close() returns, and so is the speaker unless
\* close() gave up a worker in the middle of a write, which opens the stream again;
\* a cancelled note falls silent within a chunk and a blocking wait leaves no stale
\* note behind: VoiceInput.close, SpeakerSink.close, _speak and the playback's write.
THEOREM DevicesReleasedAlways == ASpec => []DevicesReleased
<1>1. AttendedInv => DevicesReleased
  BY SpeakerSafe, MicSafe DEF AttendedInv, VoiceInv, DevicesReleased
<1> QED BY <1>1, AttendedAlways, PTL

\* Every snapshot handed to the Rerun sink is shown, queued, counted and reported, or
\* one of those whose emit failed, of which the sink warns once, all in order, and a
\* disowned worker leaves at most one in a later recording (_enqueue, _shutdown, _emit);
\* a page that passes for fresh is of the log on disk, whatever is written while a pass
\* reads, renders and stamps, and serving ends with the port and the signal given back.
THEOREM ShownAsRecordedAlways == ASpec => []ShownAsRecorded
<1>1. AttendedInv => ShownAsRecorded
  BY RerunSafe, ReportSafe DEF AttendedInv, ShownAsRecorded
<1> QED BY <1>1, AttendedAlways, PTL

\* The same of the whole: an Esc ends one episode, an arrow key none.
THEOREM AttendedEndsAreAsked == ASpec => []EndsAreAsked
<1>1. AttendedInv => EndsAreAsked
  BY InvSafe DEF AttendedInv
<1> QED BY <1>1, AttendedAlways, PTL
=============================================================================
