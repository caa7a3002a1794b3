---------------------------- MODULE EvalSetProofs ----------------------------
(***************************************************************************)
(* What TLAPS proves of EvalSet, for every number of tasks and workers.    *)
(***************************************************************************)
EXTENDS EvalSet, FiniteSetTheorems, TLAPS

----------------------------------------------------------------------------
\* The inductive invariant, in named parts.

Loop == {"wait", "observe", "admit"}
Settled(i) == stage[i] = "finished" /\ exc[i] = "none"

\* Which part of the calling thread runs, and where its iterator is.
Where ==
    /\ pc \in Loop \cup {"shutdown"} => Parallel
    /\ pc \in {"running", "between"} => ~Parallel
    /\ ~Parallel => pending = {} /\ done = {}
    /\ pc = "start" => next = 1 /\ pending = {} /\ done = {}
    /\ pc = "running" => next > 1
    /\ escape # "none" => pc \in {"shutdown", "done"}
    /\ joinCut => pc = "done" /\ Parallel /\ escape = "KeyboardInterrupt"

\* What may be in flight: the task just started, or what run_parallel waits for.
Flight ==
    /\ pc = "running" => InFlight \subseteq {next - 1}
    /\ pc = "between" => InFlight = {}
    /\ pc \in Loop => InFlight \subseteq pending
    /\ pc = "shutdown" \/ joinCut => Cardinality(InFlight) <= workers
    /\ pc = "done" => InFlight = {} \/ joinCut

\* The tasks counted against the workers: waited for, and in "admit" those seen
\* to have ended, whose places are free.
Places ==
    /\ pending \subseteq 1..(next - 1)
    /\ pc \in {"wait", "observe"} => Cardinality(pending) <= workers
    /\ pc \in {"observe", "admit"} => done # {} /\ \A i \in done : stage[i] = "finished"
    /\ pc = "observe" => done \subseteq pending
    /\ pc = "admit" => /\ Cardinality(pending) + Cardinality(done) <= workers
                       /\ \A i \in done : exc[i] = "none"

\* Every task that is neither waited for nor to come has ended well, as long as
\* nothing is leaving eval_set.
Ended ==
    /\ pc = "running" => \A i \in 1..(next - 2) : Settled(i)
    /\ pc = "between" => \A i \in 1..(next - 1) : Settled(i)
    /\ pc \in Loop => \A i \in 1..(next - 1) : i \in pending \/ Settled(i)
    /\ pc = "wait" /\ pending = {} => next > Tasks
    /\ pc \in {"shutdown", "done"} /\ escape = "none" => \A i \in Task : Settled(i)

\* What a task holds at each stage, and what it leaves.
Holding ==
    \A i \in Task :
        /\ stage[i] \in {"waiting", "queued", "policy", "conclude", "finished"} => open[i] = {}
        /\ stage[i] \in {"embodiment", "close_policy"} => open[i] \subseteq {"policy"}
        /\ stage[i] \in {"close_embodiment", "close_policy", "conclude", "finished"} =>
             row[i] # "none" \/ exc[i] # "none"

\* A worker that has seen a halt carries a halt.
Halting ==
    Parallel => \A i \in signalled :
        /\ exc[i] \in Stops
        /\ stage[i] \in {"close_embodiment", "close_policy", "conclude", "finished"}

IInv == TypeOK /\ Where /\ Flight /\ Places /\ Ended /\ Holding /\ Halting

----------------------------------------------------------------------------
\* Finite sets of tasks.

LEMMA TasksFinite == IsFiniteSet(Task)
  BY EvalSetAssumption, FS_Interval DEF Task

LEMMA SubsetSize ==
    ASSUME NEW S \in SUBSET Task
    PROVE  /\ IsFiniteSet(S) /\ Cardinality(S) \in Nat
           /\ \A T \in SUBSET S : IsFiniteSet(T) /\ Cardinality(T) <= Cardinality(S)
  BY TasksFinite, FS_Subset, FS_CardinalityType

LEMMA NothingIsSmall == Cardinality({}) = 0 /\ \A i : Cardinality({i}) = 1
  BY FS_EmptySet, FS_Singleton

LEMMA WorkersType == TypeOK => workers \in Nat \ {0} /\ next \in Nat \ {0} /\ Tasks \in Nat \ {0}
  BY EvalSetAssumption DEF TypeOK

----------------------------------------------------------------------------
\* What a step of a task and a start of tasks do.

\* A step of task i touches nothing of the calling thread or of another task;
\* the task was running and is not to come afterwards.
Local(i) ==
    /\ UNCHANGED <<workers, mainVars>>
    /\ stage[i] \notin {"waiting", "finished"}
    /\ stage'[i] \notin {"waiting", "queued"}
    /\ \A j \in Task \ {i} : /\ stage'[j] = stage[j] /\ exc'[j] = exc[j]
                             /\ row'[j] = row[j] /\ open'[j] = open[j]

LEMMA StopFacts == "none" \notin Stops /\ "none" \notin Raisable /\ Halts \subseteq Raisable
  BY DEF Stops, Halts, Interrupts, Raisable, TypedErrors

LEMMA TaskIsLocal ==
    ASSUME TypeOK, NEW i \in Task, TaskStep(i)
    PROVE  TypeOK' /\ Local(i)
<1> USE DEF TypeOK, GoTo, Local, mainVars
<1>1. CASE Preflight(i)
  BY <1>1 DEF Preflight, Raisable, TypedErrors
<1>2. CASE ResolvePolicy(i)
  BY <1>2 DEF ResolvePolicy, Unwind, ComponentFails, Interrupts
<1>3. CASE ResolveEmbodiment(i)
  BY <1>3 DEF ResolveEmbodiment, Unwind, ComponentFails, Interrupts
<1>4. CASE RunEval(i)
  BY <1>4 DEF RunEval
<1>5. CASE CloseEmbodiment(i)
  BY <1>5 DEF CloseEmbodiment, CloseRaises, AfterEmbodiment, ComponentFails, Interrupts
<1>6. CASE ClosePolicy(i)
  BY <1>6 DEF ClosePolicy, CloseRaises, ComponentFails, Interrupts
<1>7. CASE Conclude(i)
  BY <1>7 DEF Conclude
<1> QED BY <1>1, <1>2, <1>3, <1>4, <1>5, <1>6, <1>7 DEF TaskStep

\* A start of n tasks moves the iterator by n, and no other task.
LEMMA StartIsInOrder ==
    ASSUME TypeOK, NEW n \in Nat, next + n <= Tasks + 1, NEW entry \in {"policy", "queued"},
           Start(n, entry)
    PROVE  /\ next' = next + n /\ next' \in 1..(Tasks + 1)
           /\ stage' \in [Task -> {"waiting", "queued", "policy", "embodiment", "eval",
                           "close_embodiment", "close_policy", "conclude", "finished"}]
           /\ \A i \in Task : IF i \in next..(next + n - 1) THEN stage'[i] = entry
                                                            ELSE stage'[i] = stage[i]
           /\ \A i \in Task : stage'[i] = "waiting" <=> i >= next'
           /\ next..(next + n - 1) \subseteq Task
           /\ \A i \in next..(next + n - 1) : stage[i] = "waiting"
<1> USE WorkersType DEF TypeOK, Start, Task
<1>1. next' = next + n /\ next' \in 1..(Tasks + 1)
  OBVIOUS
<1>2. /\ \A i \in Task : IF i \in next..(next + n - 1) THEN stage'[i] = entry
                                                       ELSE stage'[i] = stage[i]
      /\ stage' \in [Task -> {"waiting", "queued", "policy", "embodiment", "eval",
                           "close_embodiment", "close_policy", "conclude", "finished"}]
  OBVIOUS
<1>3. \A i \in Task : stage'[i] = "waiting" <=> i >= next'
  BY <1>1, <1>2
<1>4. /\ next..(next + n - 1) \subseteq Task
      /\ \A i \in next..(next + n - 1) : stage[i] = "waiting"
  OBVIOUS
<1> QED BY <1>1, <1>2, <1>3, <1>4

\* How many tasks a round admits.
LEMMA RoomFits ==
    ASSUME TypeOK
    PROVE  /\ Least(workers, Tasks) \in 1..Tasks /\ Least(workers, Tasks) <= workers
           /\ Room \in Nat /\ next + Room <= Tasks + 1 /\ Room <= Cardinality(done)
           /\ done # {} /\ Room = 0 => next = Tasks + 1
<1>1. Cardinality(done) \in Nat /\ (done # {} => Cardinality(done) # 0)
  BY SubsetSize, FS_EmptySet DEF TypeOK
<1>2. next \in 1..(Tasks + 1)
  BY DEF TypeOK
<1> QED BY <1>1, <1>2, WorkersType DEF Least, Room

\* So does a round that Ctrl-C cuts short.
LEMMA PartialRoundFits ==
    ASSUME TypeOK, Where, InterruptSubmission
    PROVE  \E n \in Nat : /\ Submit(n) /\ next + n <= Tasks + 1
                          /\ pc = "start" => n <= workers
                          /\ pc = "admit" => n <= Cardinality(done)
<1>1. PICK n \in 0..(IF pc = "start" THEN Least(workers, Tasks) ELSE Room) : Submit(n)
  BY DEF InterruptSubmission
<1>2. Cardinality(done) \in Nat
  BY SubsetSize DEF TypeOK
<1>3. next + n <= Tasks + 1 /\ n \in Nat
  BY <1>1, RoomFits, WorkersType DEF Where, InterruptSubmission
<1>4. pc = "start" => n <= workers
  BY <1>1, RoomFits, WorkersType
<1>5. pc = "admit" => n <= Cardinality(done)
  BY <1>1, <1>2, RoomFits, WorkersType
<1> QED BY <1>1, <1>3, <1>4, <1>5

----------------------------------------------------------------------------
\* Type correctness.

LEMMA InitType == Init => TypeOK
<1> SUFFICES ASSUME Init PROVE TypeOK
  OBVIOUS
<1>1. /\ workers \in WorkerCounts /\ next \in 1..(Tasks + 1)
      /\ \A i \in Task : stage[i] = "waiting" <=> i >= next
  BY EvalSetAssumption DEF Init, Task
<1>2. pending \subseteq Task /\ done \subseteq Task /\ signalled \subseteq Task /\ joinCut \in BOOLEAN
  BY DEF Init
<1> QED BY <1>1, <1>2 DEF Init, TypeOK

LEMMA MainType ==
    ASSUME TypeOK, Where, Main \/ InterruptMain
    PROVE  TypeOK'
<1> USE DEF taskVars
<1>1. CASE SequentialNext
  <2>1. next + 1 <= Tasks + 1
    BY <1>1, WorkersType DEF SequentialNext
  <2> QED BY <1>1, <2>1, StartIsInOrder DEF SequentialNext, TypeOK
<1>2. CASE SequentialAfter
  <2>1. next - 1 \in Task
    BY <1>2, WorkersType DEF SequentialAfter, Where, TypeOK, Task
  <2> QED BY <1>2, <2>1 DEF SequentialAfter, TypeOK
<1>3. CASE SequentialReturn
  BY <1>3 DEF SequentialReturn, TypeOK
<1>4. CASE SubmitFirst
  <2>1. next + Least(workers, Tasks) <= Tasks + 1 /\ Least(workers, Tasks) \in Nat
    BY <1>4, RoomFits, WorkersType DEF SubmitFirst, Where
  <2> QED BY <1>4, <2>1, StartIsInOrder DEF SubmitFirst, Submit, TypeOK
<1>5. CASE Wait
  BY <1>5 DEF Wait, TypeOK
<1>6. CASE Observe
  BY <1>6 DEF Observe, TypeOK
<1>7. CASE Admit
  BY <1>7, RoomFits, StartIsInOrder DEF Admit, Submit, TypeOK
<1>8. CASE ParallelReturn
  BY <1>8 DEF ParallelReturn, TypeOK
<1>9. CASE Shutdown
  BY <1>9 DEF Shutdown, TypeOK
<1>10. CASE InterruptMain
  <2> USE DEF InterruptMain, Interrupts
  <2>1. CASE InterruptSequential \/ InterruptWait \/ InterruptJoin
    BY <1>10, <2>1 DEF InterruptSequential, InterruptWait, InterruptJoin, TypeOK
  <2>2. CASE InterruptSubmission
    BY <1>10, <2>2, PartialRoundFits, StartIsInOrder DEF InterruptSubmission, Submit, TypeOK
  <2> QED BY <1>10, <2>1, <2>2
<1> QED BY <1>1, <1>2, <1>3, <1>4, <1>5, <1>6, <1>7, <1>8, <1>9, <1>10 DEF Main

\* The calling thread changes a task only by starting it.
Wakes ==
    /\ UNCHANGED <<workers, exc, row, open, signalled>>
    /\ \A i \in Task : \/ stage'[i] = stage[i]
                       \/ stage[i] = "waiting" /\ stage'[i] \in {"queued", "policy"}

LEMMA MainOnlyWakes ==
    ASSUME TypeOK, Where, Main \/ InterruptMain
    PROVE  Wakes
<1>1. ASSUME NEW n \in Nat, next + n <= Tasks + 1, NEW entry \in {"policy", "queued"},
             Start(n, entry), UNCHANGED <<workers, exc, row, open, signalled>>
      PROVE  Wakes
  <2>1. /\ \A i \in Task : IF i \in next..(next + n - 1) THEN stage'[i] = entry
                                                       ELSE stage'[i] = stage[i]
        /\ \A i \in next..(next + n - 1) : stage[i] = "waiting"
    BY <1>1, StartIsInOrder
  <2> QED BY <1>1, <2>1 DEF Wakes
<1>2. CASE SequentialNext
  <2>1. Start(1, "policy") /\ next + 1 <= Tasks + 1
    BY <1>2, WorkersType DEF SequentialNext
  <2> QED BY <1>1, <1>2, <2>1 DEF SequentialNext
<1>3. CASE SubmitFirst
  <2>1. /\ Start(Least(workers, Tasks), "queued") /\ next + Least(workers, Tasks) <= Tasks + 1
        /\ Least(workers, Tasks) \in Nat
    BY <1>3, RoomFits, WorkersType DEF SubmitFirst, Submit, Where
  <2> QED BY <1>1, <1>3, <2>1 DEF SubmitFirst
<1>4. CASE Admit
  <2>1. Start(Room, "queued")
    BY <1>4 DEF Admit, Submit
  <2> QED BY <1>1, <1>4, <2>1, RoomFits DEF Admit
<1>5. CASE UNCHANGED <<workers, taskVars>>
  BY <1>5 DEF taskVars, Wakes
<1>6. CASE InterruptMain /\ InterruptSubmission
  <2>1. PICK n \in Nat : Submit(n) /\ next + n <= Tasks + 1
    BY <1>6, PartialRoundFits
  <2>2. Start(n, "queued")
    BY <2>1 DEF Submit
  <2> QED BY <1>1, <1>6, <2>1, <2>2 DEF InterruptMain, InterruptSubmission
<1>7. CASE InterruptMain /\ ~InterruptSubmission
  BY <1>5, <1>7 DEF InterruptMain, InterruptSequential, InterruptWait, InterruptJoin
<1> QED BY <1>2, <1>3, <1>4, <1>5, <1>6, <1>7 DEF Main, SequentialAfter, SequentialReturn, Wait,
           Observe, ParallelReturn, Shutdown

LEMMA WhereStep == ASSUME TypeOK, Where, Next PROVE Where'
<1>1. ASSUME NEW i \in Task, TaskStep(i) PROVE Where'
  BY <1>1, TaskIsLocal DEF Local, Where, Parallel, mainVars, Loop
<1>2. ASSUME Main \/ InterruptMain PROVE Where'
  <2> USE DEF Where, Loop, Parallel
  <2>1. CASE SequentialNext
    BY <2>1, WorkersType DEF SequentialNext, Start
  <2>2. CASE SequentialAfter
    BY <2>2 DEF SequentialAfter, taskVars
  <2>3. CASE SequentialReturn
    BY <2>3 DEF SequentialReturn, taskVars
  <2>4. CASE SubmitFirst
    BY <2>4 DEF SubmitFirst, Submit, Start
  <2>5. CASE Wait
    BY <2>5 DEF Wait, taskVars
  <2>6. CASE Observe
    BY <2>6 DEF Observe, taskVars
  <2>7. CASE Admit
    BY <2>7 DEF Admit, Submit, Start
  <2>8. CASE ParallelReturn
    BY <2>8 DEF ParallelReturn, taskVars
  <2>9. CASE Shutdown
    BY <2>9 DEF Shutdown, taskVars
  <2>10. CASE InterruptMain
    BY <2>10 DEF InterruptMain, InterruptSequential, InterruptSubmission, InterruptWait,
       InterruptJoin, Submit, Start, taskVars
  <2> QED BY <1>2, <2>1, <2>2, <2>3, <2>4, <2>5, <2>6, <2>7, <2>8, <2>9, <2>10 DEF Main
<1>3. CASE Done
  BY <1>3 DEF Done, vars, mainVars, Where, Parallel, Loop
<1> QED BY <1>1, <1>2, <1>3 DEF Next

LEMMA TypeStep == ASSUME TypeOK, Where, [Next]_vars PROVE TypeOK' /\ Where'
<1>1. CASE Next
  <2>1. Where'
    BY <1>1, WhereStep
  <2>2. TypeOK'
    BY <1>1, TaskIsLocal, MainType DEF Next, Done, vars, taskVars, mainVars, TypeOK
  <2> QED BY <2>1, <2>2
<1>2. CASE UNCHANGED vars
  BY <1>2 DEF vars, taskVars, mainVars, TypeOK, Where, Parallel, Loop
<1> QED BY <1>1, <1>2

\* The tasks are started in order, each once, and every variable keeps its type.
THEOREM TypeCorrect == Spec => []TypeOK
<1>1. Init => TypeOK /\ Where
  BY InitType DEF Init, Where, Loop, Parallel
<1> QED BY <1>1, TypeStep, PTL DEF Spec

----------------------------------------------------------------------------
\* What a task holds, and what it leaves.

\* A stage's component is closed before the stage of the next.
LEMMA HoldingStep ==
    ASSUME TypeOK, Where, Holding, [Next]_vars PROVE Holding'
<1>0. /\ TypeOK'
      /\ "none" \notin Raisable \cup Interrupts
  BY TypeStep, StopFacts DEF Interrupts
<1>1. ASSUME NEW i \in Task, TaskStep(i) PROVE Holding'
  <2>1. Local(i)
    BY <1>1, TaskIsLocal
  <2> SUFFICES
        /\ stage'[i] \in {"waiting", "queued", "policy", "conclude", "finished"} => open'[i] = {}
        /\ stage'[i] \in {"embodiment", "close_policy"} => open'[i] \subseteq {"policy"}
        /\ stage'[i] \in {"close_embodiment", "close_policy", "conclude", "finished"} =>
             row'[i] # "none" \/ exc'[i] # "none"
    BY <2>1 DEF Local, Holding
  <2> USE DEF TypeOK, GoTo, Holding
  <2>2. CASE Preflight(i)
    BY <2>2, <1>0 DEF Preflight
  <2>3. CASE ResolvePolicy(i)
    BY <2>3, <1>0 DEF ResolvePolicy, Unwind, ComponentFails, Interrupts
  <2>4. CASE ResolveEmbodiment(i)
    BY <2>4, <1>0 DEF ResolveEmbodiment, Unwind, ComponentFails, Interrupts
  <2>5. CASE RunEval(i)
    BY <2>5, <1>0 DEF RunEval
  <2>6. CASE CloseEmbodiment(i)
    BY <2>6, <1>0 DEF CloseEmbodiment, CloseRaises, AfterEmbodiment, ComponentFails, Interrupts
  <2>7. CASE ClosePolicy(i)
    BY <2>7, <1>0 DEF ClosePolicy, CloseRaises, ComponentFails, Interrupts
  <2>8. CASE Conclude(i)
    BY <2>8, <1>0 DEF Conclude
  <2> QED BY <1>1, <2>2, <2>3, <2>4, <2>5, <2>6, <2>7, <2>8 DEF TaskStep
<1>3. ASSUME Main \/ InterruptMain PROVE Holding'
  BY <1>3, MainOnlyWakes DEF Wakes, Holding
<1>4. CASE UNCHANGED vars
  BY <1>4 DEF vars, taskVars, Holding
<1> QED BY <1>1, <1>3, <1>4 DEF Next, Done

----------------------------------------------------------------------------
\* Halts.

LEMMA HaltingStep ==
    ASSUME TypeOK, Where, Halting, [Next]_vars PROVE Halting'
<1>1. ASSUME NEW i \in Task, TaskStep(i) PROVE Halting'
  <2>1. Local(i)
    BY <1>1, TaskIsLocal
  <2> SUFFICES ASSUME Parallel, NEW j \in signalled'
               PROVE  /\ exc'[j] \in Stops
                      /\ stage'[j] \in {"close_embodiment", "close_policy", "conclude",
                                        "finished"}
    BY <2>1 DEF Local, Halting, Parallel
  <2>2. CASE j # i
    <3>1. j \in signalled
      BY <1>1, <2>2 DEF TaskStep, Preflight, ResolvePolicy, ResolveEmbodiment, RunEval,
         CloseEmbodiment, ClosePolicy, Conclude
    <3> QED BY <2>1, <2>2, <3>1 DEF Local, Halting, TypeOK
  <2>3. CASE j = i
    <3> USE <2>3 DEF TypeOK, GoTo, Halting
    <3>1. CASE RunEval(i)
      BY <3>1 DEF RunEval
    <3>2. CASE CloseEmbodiment(i)
      BY <3>2 DEF CloseEmbodiment, CloseRaises, AfterEmbodiment
    <3>3. CASE ClosePolicy(i)
      BY <3>3 DEF ClosePolicy, CloseRaises
    <3>4. CASE Conclude(i)
      BY <3>4 DEF Conclude
    <3>5. ASSUME Preflight(i) \/ ResolvePolicy(i) \/ ResolveEmbodiment(i) PROVE FALSE
      BY <3>5 DEF Preflight, ResolvePolicy, ResolveEmbodiment
    <3> QED BY <1>1, <3>1, <3>2, <3>3, <3>4, <3>5 DEF TaskStep
  <2> QED BY <2>2, <2>3
<1>3. ASSUME Main \/ InterruptMain PROVE Halting'
  BY <1>3, MainOnlyWakes DEF Wakes, Halting, Parallel, TypeOK
<1>4. CASE UNCHANGED vars
  BY <1>4 DEF vars, taskVars, Halting, Parallel
<1> QED BY <1>1, <1>3, <1>4 DEF Next, Done

----------------------------------------------------------------------------
\* What is in flight.

LEMMA NothingBeforeStart ==
    ASSUME TypeOK, Where, pc = "start" PROVE InFlight = {}
  BY DEF TypeOK, Where, InFlight, Task

LEMMA FlightShrinks ==
    ASSUME TypeOK, NEW i \in Task, TaskStep(i) PROVE InFlight' \subseteq InFlight
  BY TaskIsLocal DEF Local, InFlight

\* A start adds the tasks it starts.
LEMMA FlightGrows ==
    ASSUME TypeOK, NEW n \in Nat, next + n <= Tasks + 1, NEW entry \in {"policy", "queued"},
           Start(n, entry)
    PROVE  InFlight' \subseteq InFlight \cup (next..(next + n - 1))
  BY StartIsInOrder DEF InFlight

\* What a round of the loop submits: from the first task on, or as many as ended.
LEMMA Submitting ==
    ASSUME TypeOK, Where, SubmitFirst \/ Admit
    PROVE  \E n \in Nat :
             /\ Start(n, "queued") /\ next + n <= Tasks + 1 /\ next' = next + n
             /\ next..(next + n - 1) \subseteq Task
             /\ Cardinality(next..(next + n - 1)) = n
             /\ pending' = pending \cup (next..(next + n - 1))
             /\ SubmitFirst => n <= workers /\ n > 0
             /\ Admit => n <= Cardinality(done) /\ (done # {} /\ n = 0 => next = Tasks + 1)
<1>1. ASSUME NEW n \in Nat, Submit(n), next + n <= Tasks + 1
      PROVE  /\ Start(n, "queued") /\ next' = next + n /\ next..(next + n - 1) \subseteq Task
             /\ Cardinality(next..(next + n - 1)) = n
             /\ pending' = pending \cup (next..(next + n - 1))
  <2>1. Start(n, "queued") /\ pending' = pending \cup (next..(next + n - 1))
    BY <1>1 DEF Submit
  <2>2. next' = next + n /\ next..(next + n - 1) \subseteq Task
    BY <1>1, <2>1, StartIsInOrder
  <2>3. Cardinality(next..(next + n - 1)) = n
    BY <1>1, WorkersType, FS_Interval
  <2> QED BY <2>1, <2>2, <2>3
<1>2. CASE SubmitFirst
  <2> DEFINE n == Least(workers, Tasks)
  <2>1. /\ n \in Nat /\ n > 0 /\ n <= workers /\ next + n <= Tasks + 1
        /\ Submit(n) /\ ~Admit
    BY <1>2, RoomFits, WorkersType DEF SubmitFirst, Where, Admit
  <2> HIDE DEF n
  <2> QED BY <1>1, <2>1
<1>3. CASE Admit
  <2>1. /\ Room \in Nat /\ next + Room <= Tasks + 1 /\ Submit(Room) /\ ~SubmitFirst
        /\ Room <= Cardinality(done) /\ (done # {} /\ Room = 0 => next = Tasks + 1)
    BY <1>3, RoomFits DEF SubmitFirst, Admit
  <2> QED BY <1>1, <2>1
<1> QED BY <1>2, <1>3

\* A round, cut short or not, keeps what is waited for within the workers.
LEMMA RoundIsBounded ==
    ASSUME TypeOK, Where, Flight, Places, SubmitFirst \/ Admit \/ InterruptSubmission
    PROVE  /\ InFlight' \subseteq pending'
           /\ pending' \subseteq 1..(next' - 1)
           /\ IsFiniteSet(pending') /\ Cardinality(pending') \in Nat
           /\ Cardinality(pending') <= workers
<1>0. /\ IsFiniteSet(pending) /\ Cardinality(pending) \in Nat
      /\ IsFiniteSet(done) /\ Cardinality(done) \in Nat
      /\ workers \in Nat \ {0} /\ next \in Nat \ {0} /\ Tasks \in Nat \ {0}
      /\ pc \in {"start", "admit"}
  BY SubsetSize, WorkersType DEF TypeOK, SubmitFirst, Admit, InterruptSubmission
<1>1. PICK n \in Nat : /\ Submit(n) /\ next + n <= Tasks + 1
                       /\ pc = "start" => n <= workers
                       /\ pc = "admit" => n <= Cardinality(done)
  <2>1. ASSUME SubmitFirst
        PROVE  pc = "start" /\ Submit(Least(workers, Tasks))
    BY <2>1 DEF SubmitFirst
  <2>2. ASSUME Admit
        PROVE  pc = "admit" /\ Submit(Room)
    BY <2>2 DEF Admit
  <2>3. CASE SubmitFirst
    <3>1. Least(workers, Tasks) \in Nat /\ next + Least(workers, Tasks) <= Tasks + 1
          /\ Least(workers, Tasks) <= workers
      BY <2>1, <2>3, RoomFits, WorkersType DEF Where
    <3> QED BY <2>1, <2>3, <3>1
  <2>4. CASE Admit
    BY <2>2, <2>4, RoomFits
  <2> QED BY <2>3, <2>4, PartialRoundFits
<1>10. IsFiniteSet(next..(next + n - 1)) /\ Cardinality(next..(next + n - 1)) = n
  <2>1. next \in Int /\ next + n - 1 \in Int
    BY <1>0
  <2>2. /\ IsFiniteSet(next..(next + n - 1))
        /\ Cardinality(next..(next + n - 1)) =
             IF next > next + n - 1 THEN 0 ELSE (next + n - 1) - next + 1
    BY <2>1, FS_Interval
  <2> QED BY <1>0, <2>2
<1> DEFINE round == next..(next + n - 1)
<1>2. /\ Start(n, "queued") /\ pending' = pending \cup round
      /\ next' = next + n /\ round \subseteq Task
  BY <1>1, StartIsInOrder DEF Submit
<1>3. IsFiniteSet(round) /\ Cardinality(round) = n
  BY <1>10
<1>4. InFlight' \subseteq pending'
  <2>1. InFlight \subseteq pending
    BY <1>0, NothingBeforeStart DEF Flight, Loop
  <2> QED BY <1>1, <1>2, <2>1, FlightGrows
<1>5. pending' \subseteq 1..(next' - 1)
  BY <1>0, <1>1, <1>2 DEF Places
<1>6. Cardinality(pending \cap round) \in Nat /\ IsFiniteSet(pending \cup round)
  BY <1>0, <1>3, FS_Intersection, FS_Union, FS_CardinalityType
<1>7. Cardinality(pending \cup round) = Cardinality(pending) + n - Cardinality(pending \cap round)
  BY <1>0, <1>3, FS_Union
<1>8. Cardinality(pending) + n <= workers
  <2>1. CASE pc = "start"
    <3>1. Cardinality(pending) = 0
      BY <2>1, NothingIsSmall DEF Where
    <3> QED BY <2>1, <3>1, <1>1, <1>0
  <2>2. CASE pc = "admit"
    <3>1. Cardinality(pending) + Cardinality(done) <= workers
      BY <2>2 DEF Places
    <3> QED BY <2>2, <3>1, <1>1, <1>0
  <2> QED BY <1>0, <2>1, <2>2
<1>9. Cardinality(pending \cup round) \in Nat /\ Cardinality(pending \cup round) <= workers
  BY <1>0, <1>6, <1>7, <1>8, FS_CardinalityType
<1> QED BY <1>2, <1>4, <1>5, <1>6, <1>9

LEMMA FlightStep ==
    ASSUME TypeOK, Where, Flight, Places, [Next]_vars PROVE Flight'
<1>0. IsFiniteSet(pending) /\ Cardinality(pending) \in Nat /\ IsFiniteSet(InFlight)
  BY SubsetSize DEF TypeOK, InFlight
<1>1. ASSUME NEW i \in Task, TaskStep(i) PROVE Flight'
  <2>1. InFlight' \subseteq InFlight /\ UNCHANGED <<workers, mainVars>>
    BY <1>1, FlightShrinks, TaskIsLocal DEF Local
  <2>2. /\ Cardinality(InFlight') <= Cardinality(InFlight)
        /\ Cardinality(InFlight') \in Nat /\ Cardinality(InFlight) \in Nat
    BY <2>1, <1>0, FS_Subset, FS_CardinalityType
  <2> QED BY <2>1, <2>2, WorkersType DEF Flight, mainVars
<1>2. CASE SequentialNext
  <2>1. InFlight = {}
    BY <1>2, NothingBeforeStart DEF SequentialNext, Flight
  <2>2. Start(1, "policy") /\ next + 1 <= Tasks + 1 /\ pc' = "running" /\ next' = next + 1
    BY <1>2, WorkersType DEF SequentialNext, Start
  <2>3. InFlight' \subseteq InFlight \cup (next..(next + 1 - 1))
    BY <2>2, FlightGrows
  <2>4. InFlight' \subseteq {next' - 1}
    BY <2>1, <2>2, <2>3, WorkersType
  <2>5. ~joinCut'
    BY <1>2 DEF SequentialNext, Where
  <2> QED BY <2>2, <2>4, <2>5 DEF Flight, Loop
<1>3. CASE SubmitFirst \/ Admit
  BY <1>3, RoundIsBounded DEF SubmitFirst, Admit, Flight, Loop, Where
<1>4. CASE \/ SequentialAfter \/ SequentialReturn \/ Wait \/ Observe \/ ParallelReturn
           \/ Shutdown
           \/ InterruptMain /\ ~InterruptSubmission
  <2>1. InFlight' = InFlight /\ workers' = workers
    BY <1>4 DEF InFlight, SequentialAfter, SequentialReturn, Wait, Observe, ParallelReturn,
       Shutdown, InterruptMain, InterruptSequential, InterruptWait, InterruptJoin, taskVars
  <2>2. ASSUME InFlight \subseteq pending, pc \in Loop PROVE Cardinality(InFlight) <= workers
    <3>1. Cardinality(InFlight) <= Cardinality(pending) /\ Cardinality(InFlight) \in Nat
      BY <2>2, <1>0, FS_Subset, FS_CardinalityType
    <3>2. Cardinality(done) \in Nat
      BY SubsetSize DEF TypeOK
    <3>3. Cardinality(pending) <= workers
      BY <2>2, <1>0, <3>2, WorkersType DEF Places, Loop
    <3> QED BY <3>1, <3>3, <1>0, WorkersType
  <2>3. CASE SequentialAfter
    <3>1. InFlight = {} /\ pc' \in {"between", "done"} /\ joinCut' = FALSE
      BY <2>3 DEF SequentialAfter, Flight, InFlight, Where, TypeOK
    <3> QED BY <2>1, <3>1 DEF Flight, Loop
  <2>4. CASE SequentialReturn
    BY <2>1, <2>4 DEF SequentialReturn, Flight, Loop, Where
  <2>5. CASE Wait
    BY <2>1, <2>5 DEF Wait, Flight, Loop
  <2>6. CASE Observe
    <3>1. InFlight \subseteq pending /\ pc \in Loop /\ pc' \in {"admit", "shutdown"}
      BY <2>6 DEF Observe, Flight, Loop
    <3>2. InFlight \subseteq pending'
      BY <2>6, <3>1 DEF Observe, Places, InFlight
    <3> QED BY <2>1, <2>2, <3>1, <3>2 DEF Flight, Loop
  <2>7. CASE ParallelReturn
    BY <2>1, <2>2, <2>7 DEF ParallelReturn, Flight, Loop
  <2>8. CASE Shutdown
    <3>1. InFlight = {} /\ pc' = "done"
      BY <2>8 DEF Shutdown, InFlight
    <3>2. joinCut' = FALSE
      BY <2>8 DEF Shutdown, Where, TypeOK
    <3> QED BY <2>1, <3>1, <3>2 DEF Flight, Loop
  <2>9. CASE InterruptMain /\ InterruptSequential
    BY <2>1, <2>9, NothingBeforeStart DEF InterruptSequential, Flight, Loop, Where
  <2>10. CASE InterruptMain /\ InterruptWait
    BY <2>1, <2>2, <2>10 DEF InterruptWait, Flight, Loop
  <2>11. CASE InterruptMain /\ InterruptJoin
    BY <2>1, <2>11 DEF InterruptJoin, Flight, Loop
  <2> QED BY <1>4, <2>3, <2>4, <2>5, <2>6, <2>7, <2>8, <2>9, <2>10, <2>11 DEF InterruptMain
<1>5. CASE UNCHANGED vars
  BY <1>5 DEF vars, taskVars, mainVars, Flight, InFlight
<1>6. CASE InterruptMain /\ InterruptSubmission
  <2>1. IsFiniteSet(InFlight') /\ Cardinality(InFlight') <= workers
    <3>1. /\ Cardinality(InFlight') <= Cardinality(pending') /\ Cardinality(InFlight') \in Nat
          /\ Cardinality(pending') <= workers /\ Cardinality(pending') \in Nat
          /\ IsFiniteSet(InFlight')
      BY <1>6, RoundIsBounded, FS_Subset, FS_CardinalityType
    <3> QED BY <3>1, WorkersType
  <2>2. pc' = "shutdown" /\ workers' = workers
    BY <1>6 DEF InterruptMain, InterruptSubmission
  <2>3. ~joinCut'
    BY <1>6 DEF InterruptMain, InterruptSubmission, Where
  <2> QED BY <2>1, <2>2, <2>3 DEF Flight, Loop
<1>7. CASE InterruptMain
  BY <1>4, <1>6, <1>7
<1>8. CASE Main
  BY <1>2, <1>3, <1>4, <1>8 DEF Main
<1> QED BY <1>1, <1>5, <1>7, <1>8 DEF Next, Done

----------------------------------------------------------------------------
\* The places that are taken and free.

LEMMA PlacesStep ==
    ASSUME TypeOK, Where, Flight, Places, [Next]_vars PROVE Places'
<1>0. /\ IsFiniteSet(pending) /\ Cardinality(pending) \in Nat
      /\ IsFiniteSet(done) /\ Cardinality(done) \in Nat
      /\ workers \in Nat \ {0} /\ next \in Nat \ {0} /\ Tasks \in Nat \ {0}
  BY SubsetSize, WorkersType DEF TypeOK
<1>1. ASSUME NEW i \in Task, TaskStep(i) PROVE Places'
  <2>1. Local(i)
    BY <1>1, TaskIsLocal
  <2>2. pc \in {"observe", "admit"} => i \notin done
    BY <2>1 DEF Local, Places
  <2>3. pc \in {"observe", "admit"} =>
          \A j \in done : stage'[j] = stage[j] /\ exc'[j] = exc[j]
    BY <2>1, <2>2 DEF Local, TypeOK
  <2> QED BY <2>1, <2>3 DEF Local, Places, mainVars
<1>2. CASE SequentialNext
  <2>1. pending' = {} /\ pc' = "running"
    BY <1>2 DEF SequentialNext, Where
  <2> QED BY <2>1 DEF Places
<1>3. CASE SubmitFirst \/ Admit
  BY <1>3, RoundIsBounded DEF SubmitFirst, Admit, Places
<1>4. CASE \/ SequentialAfter \/ SequentialReturn \/ ParallelReturn \/ Shutdown
           \/ InterruptMain /\ ~InterruptSubmission
  BY <1>4 DEF SequentialAfter, SequentialReturn, ParallelReturn, Shutdown, InterruptMain,
     InterruptSequential, InterruptWait, InterruptJoin, taskVars, Places
<1>5. CASE Wait
  BY <1>5 DEF Wait, taskVars, Places
<1>6. CASE Observe
  <2>1. /\ done \subseteq pending /\ pending' = pending \ done /\ done' = done
        /\ UNCHANGED <<workers, next, stage, exc>> /\ pc' \in {"admit", "shutdown"}
        /\ pc = "observe"
        /\ pc' = "admit" => \A i \in done : exc[i] = "none"
    BY <1>6 DEF Observe, Places, taskVars
  <2>2. Cardinality(pending') = Cardinality(pending) - Cardinality(pending \cap done)
    BY <1>0, <2>1, FS_Difference
  <2>3. pending \cap done = done
    BY <2>1
  <2>4. Cardinality(pending') + Cardinality(done') <= workers
    BY <2>1, <2>2, <2>3, <1>0 DEF Places
  <2> QED BY <2>1, <2>4 DEF Places
<1>7. CASE UNCHANGED vars
  BY <1>7 DEF vars, taskVars, mainVars, Places
<1>8. CASE InterruptMain /\ InterruptSubmission
  BY <1>8, RoundIsBounded DEF InterruptMain, InterruptSubmission, Places
<1> QED BY <1>1, <1>2, <1>3, <1>4, <1>5, <1>6, <1>7, <1>8 DEF Next, Main, Done

----------------------------------------------------------------------------
\* The tasks that have ended.

LEMMA EndedStep ==
    ASSUME TypeOK, Where, Places, Ended, [Next]_vars PROVE Ended'
<1>0. next \in Nat \ {0} /\ Tasks \in Nat \ {0} /\ next <= Tasks + 1
  BY WorkersType DEF TypeOK
<1>1. ASSUME NEW i \in Task, TaskStep(i) PROVE Ended'
  <2>1. Local(i)
    BY <1>1, TaskIsLocal
  <2>2. \A j \in Task : Settled(j) => Settled(j)'
    BY <2>1 DEF Local, Settled
  <2> QED BY <2>1, <2>2, <1>0 DEF Local, Ended, mainVars, Task
<1>2. ASSUME Main \/ InterruptMain
      PROVE  \A j \in Task : Settled(j) => Settled(j)'
  BY <1>2, MainOnlyWakes DEF Wakes, Settled
<1>3. CASE SequentialNext
  <2>1. /\ pc \in {"start", "between"} /\ pc' = "running" /\ next' = next + 1
        /\ Main
    BY <1>3 DEF SequentialNext, Start, Main
  <2>2. \A j \in 1..(next - 1) : Settled(j)
    BY <2>1, <1>0 DEF Where, Ended
  <2>3. \A j \in 1..(next' - 2) : j \in 1..(next - 1) /\ j \in Task
    BY <2>1, <1>0 DEF Task
  <2>4. \A j \in 1..(next' - 2) : Settled(j)'
    BY <2>1, <2>2, <2>3, <1>2
  <2> QED BY <2>1, <2>4 DEF Ended, Loop
<1>4. CASE SequentialAfter
  <2>1. pc = "running" /\ stage[next - 1] = "finished" /\ UNCHANGED <<stage, exc, next>>
    BY <1>4 DEF SequentialAfter, taskVars
  <2>2. \A j \in 1..(next - 2) : Settled(j)
    BY <2>1 DEF Ended
  <2>3. CASE exc[next - 1] = "none"
    <3>1. \A j \in 1..(next - 1) : Settled(j)
      BY <2>1, <2>2, <2>3, <1>0 DEF Settled
    <3>2. \A j \in 1..(next' - 1) : Settled(j)'
      BY <2>1, <3>1 DEF Settled
    <3> QED BY <1>4, <2>3, <3>2 DEF SequentialAfter, Ended, Loop
  <2>4. CASE exc[next - 1] # "none"
    BY <1>4, <2>4 DEF SequentialAfter, Ended, Loop
  <2> QED BY <2>3, <2>4
<1>5. CASE SubmitFirst \/ Admit
  <2>1. PICK n \in Nat :
           /\ next' = next + n
           /\ pending' = pending \cup (next..(next + n - 1))
           /\ next + n <= Tasks + 1
           /\ SubmitFirst => n > 0
           /\ Admit => (done # {} /\ n = 0 => next = Tasks + 1)
    BY <1>5, Submitting
  <2>2. \A j \in 1..(next - 1) : j \in pending \/ Settled(j)
    BY <1>5, <1>0 DEF SubmitFirst, Admit, Where, Ended, Loop
  <2>3. ASSUME NEW j \in 1..(next' - 1) PROVE j \in pending' \/ Settled(j)'
    <3>1. CASE j \in 1..(next - 1)
      BY <3>1, <2>1, <2>2, <1>0, <1>2, <1>5 DEF Main, Task
    <3>2. CASE j \notin 1..(next - 1)
      BY <3>2, <2>1, <1>0
    <3> QED BY <3>1, <3>2
  <2>4. ASSUME pending' = {} PROVE next' > Tasks
    <3>1. n = 0
      BY <2>1, <2>4, <1>0
    <3>2. CASE Admit
      BY <2>1, <3>1, <3>2, <1>0 DEF Admit, Places
    <3> QED BY <1>5, <2>1, <3>1, <3>2
  <2>5. pc' = "wait"
    BY <1>5 DEF SubmitFirst, Admit
  <2> QED BY <2>3, <2>4, <2>5 DEF Ended, Loop
<1>6. CASE SequentialReturn \/ ParallelReturn
  <2>1. \A j \in 1..(next - 1) : Settled(j)
    BY <1>6 DEF SequentialReturn, ParallelReturn, Ended, Loop
  <2>2. next > Tasks /\ pc' \in {"done", "shutdown"} /\ Main
    BY <1>6 DEF SequentialReturn, ParallelReturn, Ended, Main
  <2>3. \A j \in Task : Settled(j)'
    BY <2>1, <2>2, <1>0, <1>2 DEF Task
  <2> QED BY <2>2, <2>3 DEF Ended, Loop
<1>7. CASE Wait
  <2>1. pc = "wait" /\ pc' = "observe" /\ UNCHANGED <<stage, exc, next, pending>>
    BY <1>7 DEF Wait, taskVars
  <2> QED BY <2>1 DEF Ended, Loop, Settled
<1>8. CASE Observe
  <2>1. pc = "observe" /\ UNCHANGED <<stage, exc, next>> /\ pending' = pending \ done
    BY <1>8 DEF Observe, taskVars
  <2>2. CASE pc' = "admit" /\ \A i \in done : exc[i] = "none"
    <3>1. \A i \in done : Settled(i)
      BY <2>1, <2>2 DEF Places, Settled
    <3>2. \A j \in 1..(next - 1) : j \in pending' \/ Settled(j)
      BY <2>1, <3>1 DEF Ended, Loop
    <3> QED BY <2>1, <2>2, <3>2 DEF Ended, Loop, Settled
  <2>3. CASE pc' = "shutdown" /\ escape' # "none"
    BY <2>3 DEF Ended, Loop
  <2> QED BY <1>8, <2>2, <2>3 DEF Observe
<1>9. CASE Shutdown
  BY <1>9 DEF Shutdown, taskVars, Ended, Loop, Settled
<1>10. CASE InterruptMain
  BY <1>10 DEF InterruptMain, InterruptSequential, InterruptSubmission, InterruptWait,
     InterruptJoin, Ended, Loop
<1>11. CASE UNCHANGED vars
  BY <1>11 DEF vars, taskVars, mainVars, Ended, Settled
<1> QED BY <1>1, <1>3, <1>4, <1>5, <1>6, <1>7, <1>8, <1>9, <1>10, <1>11 DEF Next, Main, Done

----------------------------------------------------------------------------
\* The theorems.

LEMMA Inductive == Spec => []IInv
<1>1. Init => IInv
  <2> SUFFICES ASSUME Init PROVE IInv
    OBVIOUS
  <2>1. TypeOK /\ Where
    BY InitType DEF Init, Where, Loop, Parallel
  <2>2. Flight /\ Places /\ Ended
    BY DEF Init, Flight, Places, Ended, Loop
  <2>3. Holding /\ Halting
    BY DEF Init, Holding, Halting
  <2> QED BY <2>1, <2>2, <2>3 DEF IInv
<1>2. IInv /\ [Next]_vars => IInv'
  BY TypeStep, FlightStep, PlacesStep, EndedStep, HoldingStep, HaltingStep DEF IInv
<1> QED BY <1>1, <1>2, PTL DEF Spec

\* For every number of tasks and workers, no more than max_workers tasks are in
\* flight and only a task in flight holds a component.
THEOREM AtMostWorkersInFlight == Spec => []AdmissionIsBounded
<1>1. IInv => AdmissionIsBounded
  <2> SUFFICES ASSUME IInv PROVE AdmissionIsBounded
    OBVIOUS
  <2> USE DEF IInv
  <2>1. /\ IsFiniteSet(pending) /\ Cardinality(pending) \in Nat /\ Cardinality(done) \in Nat
        /\ workers \in Nat \ {0}
    BY SubsetSize, WorkersType DEF TypeOK
  <2>2. Cardinality(InFlight) <= workers
    <3>1. CASE pc \in Loop
      <4>1. Cardinality(InFlight) <= Cardinality(pending) /\ Cardinality(InFlight) \in Nat
        BY <3>1, <2>1, FS_Subset, FS_CardinalityType DEF Flight
      <4>2. Cardinality(pending) <= workers
        BY <3>1, <2>1 DEF Places, Loop
      <4> QED BY <4>1, <4>2, <2>1
    <3>2. CASE pc = "running"
      <4>1. InFlight = {} \/ InFlight = {next - 1}
        BY <3>2 DEF Flight
      <4>2. Cardinality(InFlight) \in {0, 1}
        BY <4>1, NothingIsSmall
      <4> QED BY <4>2, <2>1
    <3>3. CASE pc \in {"start", "between", "done"}
      <4>1. InFlight = {} \/ Cardinality(InFlight) <= workers
        BY <3>3, NothingBeforeStart DEF Flight
      <4> QED BY <4>1, <2>1, NothingIsSmall
    <3>4. CASE pc = "shutdown"
      BY <3>4 DEF Flight
    <3> QED BY <3>1, <3>2, <3>3, <3>4 DEF TypeOK, Loop
  <2>3. \A i \in Task : open[i] # {} => i \in InFlight
    BY DEF Holding, InFlight
  <2> QED BY <2>2, <2>3 DEF AdmissionIsBounded
<1> QED BY <1>1, Inductive, PTL

\* However the set ends, and wherever Ctrl-C lands except in the executor's own
\* join, no task is left running or holding a component; and a set that returns
\* has a row for every task.
THEOREM SetLeavesNothing == Spec => []NothingLeftBehind
<1>1. IInv => NothingLeftBehind
  <2> SUFFICES ASSUME IInv, pc = "done" PROVE NothingLeftBehind
    BY DEF NothingLeftBehind
  <2>1. \/ \A i \in Task : stage[i] \in {"waiting", "finished"} /\ open[i] = {}
        \/ joinCut
    BY DEF IInv, Flight, InFlight, Holding
  <2>2. escape = "none" => \A i \in Task : row[i] # "none"
    BY DEF IInv, Ended, Settled, Holding
  <2> QED BY <2>1, <2>2 DEF NothingLeftBehind
<1> QED BY <1>1, Inductive, PTL

\* A halt seen in a worker survives its closes and the set's return.
THEOREM HaltReachesTheCaller == Spec => []HaltOutlivesCleanup
<1>1. IInv => HaltOutlivesCleanup
  BY StopFacts DEF IInv, TypeOK, Halting, Ended, Settled, HaltOutlivesCleanup
<1> QED BY <1>1, Inductive, PTL

\* No task is admitted while a result that was seen, or what leaves eval_set,
\* carries an exception.
THEOREM ResultsBeforeAdmission == Spec => StopIsObserved
<1>1. IInv /\ [Next]_vars =>
        [next' # next => (\A i \in done : exc[i] = "none") /\ escape = "none"]_vars
  <2> SUFFICES ASSUME IInv, Next, next' # next
               PROVE  (\A i \in done : exc[i] = "none") /\ escape = "none"
    OBVIOUS
  <2> USE DEF IInv
  <2>1. ASSUME NEW i \in Task, TaskStep(i) PROVE FALSE
    BY <2>1, TaskIsLocal DEF Local, mainVars
  <2>2. SequentialNext \/ SubmitFirst \/ Admit \/ InterruptSubmission
    BY <2>1 DEF Next, Main, Done, vars, mainVars, SequentialAfter, SequentialReturn, Wait,
       Observe, ParallelReturn, Shutdown, InterruptMain, InterruptSequential, InterruptWait,
       InterruptJoin
  <2>3. escape = "none"
    BY <2>2 DEF SequentialNext, SubmitFirst, Admit, InterruptSubmission, Where
  <2>4. \A i \in done : exc[i] = "none"
    BY <2>2 DEF SequentialNext, SubmitFirst, Admit, InterruptSubmission, Where, Places
  <2> QED BY <2>3, <2>4
<1> QED BY <1>1, Inductive, PTL DEF Spec, StopIsObserved
=============================================================================
