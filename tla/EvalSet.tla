------------------------------- MODULE EvalSet -------------------------------
(***************************************************************************)
(* eval.py, eval_set(), and _parallel.py: a set of tasks run one after     *)
(* the other by the calling thread, or by up to `workers` threads that     *)
(* each open and close their own policy and embodiment while the calling   *)
(* thread admits tasks and waits.  The body of a task is eval(), known     *)
(* here by the log it returns or by the exception that leaves it.          *)
(***************************************************************************)
EXTENDS Integers, FiniteSets, Outcomes

CONSTANTS
    Tasks,         \* number of tasks in the set
    WorkerCounts   \* the values of max_workers to consider

ASSUME EvalSetAssumption ==
    /\ Tasks \in Nat \ {0}
    /\ WorkerCounts \subseteq Nat \ {0}

Task == 1..Tasks

\* KeyboardInterrupt and its subclass _CancelledTrial are not Exceptions.
Interrupts == {"Cancelled", "KeyboardInterrupt"}
Stops == Halts \cup Interrupts

VARIABLES
    workers,   \* max_workers
    pc,        \* where the calling thread is
    next,      \* the next task to start
    stage,     \* where each task is
    exc,       \* the exception in flight in a task, or of its future
    row,       \* the task's log
    open,      \* what the task has opened and not closed
    pending,   \* run_parallel's pending futures
    done,      \* the futures wait() returned
    escape,    \* the exception leaving eval_set
    \* Only the properties read the rest:
    signalled, \* tasks whose eval() asked the platform to stop
    joinCut    \* a Ctrl-C ended the executor's wait for its threads

taskVars == <<stage, exc, row, open, signalled>>
mainVars == <<pc, next, pending, done, escape, joinCut>>
vars == <<workers, taskVars, mainVars>>

Init ==
    /\ workers \in WorkerCounts
    /\ pc = "start" /\ next = 1
    /\ stage = [i \in Task |-> "waiting"]
    /\ exc = [i \in Task |-> "none"] /\ row = [i \in Task |-> "none"]
    /\ open = [i \in Task |-> {}]
    /\ pending = {} /\ done = {} /\ escape = "none" /\ signalled = {}
    /\ joinCut = FALSE

Parallel == workers > 1

----------------------------------------------------------------------------
\* One task, in its worker thread or in the calling thread.

GoTo(i, s) == stage' = [stage EXCEPT ![i] = s]

\* The threads of the executor that are busy.
Busy == {i \in Task : stage[i] \notin {"waiting", "queued", "finished"}}

\* A free worker thread takes the task and preflights its grader, outside the
\* handler that turns a task's error into a row.
Preflight(i) ==
    /\ stage[i] = "queued" /\ Cardinality(Busy) < workers
    /\ \/ GoTo(i, "policy") /\ UNCHANGED exc
       \/ GoTo(i, "finished") /\ exc' = [exc EXCEPT ![i] = "ConfigError"]
    /\ UNCHANGED <<workers, row, open, signalled, mainVars>>

\* Where an exception takes a task: to the close of what it has opened.
Unwind(i, opened) ==
    GoTo(i, IF "embodiment" \in opened THEN "close_embodiment"
            ELSE IF "policy" \in opened THEN "close_policy" ELSE "conclude")

\* What opening or closing a component may raise; Ctrl-C reaches the calling
\* thread only.
ComponentFails == Raisable \cup (IF Parallel THEN {} ELSE {"KeyboardInterrupt"})

\* The policy is closed by the worker's exit stack; eval() never closes one.
ResolvePolicy(i) ==
    /\ stage[i] = "policy"
    /\ \/ /\ GoTo(i, "embodiment") /\ UNCHANGED exc
          /\ open' = IF Parallel THEN [open EXCEPT ![i] = {"policy"}] ELSE open
       \/ /\ \E e \in ComponentFails : exc' = [exc EXCEPT ![i] = e]
          /\ Unwind(i, {}) /\ UNCHANGED open
    /\ UNCHANGED <<workers, row, signalled, mainVars>>

ResolveEmbodiment(i) ==
    /\ stage[i] = "embodiment"
    /\ \/ /\ GoTo(i, "eval") /\ UNCHANGED exc
          /\ open' = [open EXCEPT ![i] = open[i] \cup {"embodiment"}]
       \/ /\ \E e \in ComponentFails : exc' = [exc EXCEPT ![i] = e]
          /\ Unwind(i, open[i]) /\ UNCHANGED open
    /\ UNCHANGED <<workers, row, signalled, mainVars>>

\* eval() on the opened components.
RunEval(i) ==
    /\ stage[i] = "eval"
    /\ \/ /\ \E s \in {"success", "error"} : row' = [row EXCEPT ![i] = s]
          /\ UNCHANGED <<exc, signalled>>
       \/ /\ \E e \in Raisable \cup (IF Parallel THEN {} ELSE Interrupts) :
               /\ exc' = [exc EXCEPT ![i] = e]
               /\ signalled' = IF e \in Stops THEN signalled \cup {i} ELSE signalled
          /\ UNCHANGED row
    /\ GoTo(i, "close_embodiment")
    /\ UNCHANGED <<workers, open, mainVars>>

AfterEmbodiment(i) == IF "policy" \in open[i] THEN "close_policy" ELSE "conclude"

\* Wrong on purpose: the exit stack lets a failing cleanup replace the halt, as
\* a plain ExitStack does (breaks HaltOutlivesCleanup).
CloseRaisesPlain(i, e) == exc' = [exc EXCEPT ![i] = e]

\* A close that raises: under the exit stack it cannot replace a halt in flight,
\* in eval()'s finally clause it replaces any exception.
CloseRaises(i, e) ==
    exc' = IF Parallel /\ exc[i] \in Stops THEN exc ELSE [exc EXCEPT ![i] = e]

CloseEmbodiment(i) ==
    /\ stage[i] = "close_embodiment"
    /\ open' = [open EXCEPT ![i] = open[i] \ {"embodiment"}]
    /\ GoTo(i, AfterEmbodiment(i))
    /\ \/ UNCHANGED exc
       \/ \E e \in ComponentFails : CloseRaises(i, e)
    /\ UNCHANGED <<workers, row, signalled, mainVars>>

ClosePolicy(i) ==
    /\ stage[i] = "close_policy"
    /\ open' = [open EXCEPT ![i] = open[i] \ {"policy"}]
    /\ GoTo(i, "conclude")
    /\ \/ UNCHANGED exc
       \/ \E e \in ComponentFails : CloseRaises(i, e)
    /\ UNCHANGED <<workers, row, signalled, mainVars>>

\* Wrong on purpose: a worker that dies of a halt never completes its future
\* (breaks SetEnds).
ConcludeUnlessHalted(i) ==
    /\ stage[i] = "conclude" /\ exc[i] \notin Stops
    /\ GoTo(i, "finished")
    /\ exc' = [exc EXCEPT ![i] = "none"]
    /\ row' = IF exc[i] = "none" THEN row ELSE [row EXCEPT ![i] = "error"]
    /\ UNCHANGED <<workers, open, signalled, mainVars>>

\* An ordinary exception becomes the task's error row, even when the eval had
\* returned its log; a halt or an interrupt goes on.
Conclude(i) ==
    /\ stage[i] = "conclude"
    /\ GoTo(i, "finished")
    /\ IF exc[i] \in Stops
         THEN UNCHANGED <<exc, row>>
         ELSE /\ exc' = [exc EXCEPT ![i] = "none"]
              /\ row' = IF exc[i] = "none" THEN row ELSE [row EXCEPT ![i] = "error"]
    /\ UNCHANGED <<workers, open, signalled, mainVars>>

TaskStep(i) == \/ Preflight(i) \/ ResolvePolicy(i) \/ ResolveEmbodiment(i) \/ RunEval(i)
               \/ CloseEmbodiment(i) \/ ClosePolicy(i) \/ Conclude(i)

----------------------------------------------------------------------------
\* The calling thread, one task after the other.

\* Wrong on purpose: the iterator over the tasks is advanced once more than
\* tasks are started (breaks TypeOK).
StartSkippingOne(n, entry) ==
    /\ next' = next + n + 1
    /\ stage' = [i \in Task |-> IF i \in next..(next + n - 1) THEN entry ELSE stage[i]]

\* The next n tasks are started.
Start(n, entry) ==
    /\ next' = next + n
    /\ stage' = [i \in Task |-> IF i \in next..(next + n - 1) THEN entry ELSE stage[i]]

SequentialNext ==
    /\ pc \in {"start", "between"} /\ ~Parallel /\ next <= Tasks
    /\ Start(1, "policy")
    /\ pc' = "running"
    /\ UNCHANGED <<workers, exc, row, open, signalled, pending, done, escape, joinCut>>

\* The for loop's except clauses: an ordinary exception has become a row.
SequentialAfter ==
    /\ pc = "running" /\ stage[next - 1] = "finished"
    /\ IF exc[next - 1] # "none"
         THEN escape' = exc[next - 1] /\ pc' = "done"
         ELSE pc' = "between" /\ UNCHANGED escape
    /\ UNCHANGED <<workers, taskVars, next, pending, done, joinCut>>

SequentialReturn ==
    /\ pc = "between" /\ next > Tasks
    /\ pc' = "done"
    /\ UNCHANGED <<workers, taskVars, next, pending, done, escape, joinCut>>

----------------------------------------------------------------------------
\* The calling thread, run_parallel().

Least(a, b) == IF a < b THEN a ELSE b

Submit(n) ==
    /\ Start(n, "queued")
    /\ pending' = pending \cup (next..(next + n - 1))

\* The executor has as many threads as the first round has tasks, at most.
SubmitFirst ==
    /\ pc = "start" /\ Parallel
    /\ Submit(Least(workers, Tasks))
    /\ pc' = "wait"
    /\ UNCHANGED <<workers, exc, row, open, signalled, done, escape, joinCut>>

\* wait(FIRST_COMPLETED) returns some futures that are done.
Wait ==
    /\ pc = "wait" /\ pending # {}
    /\ \E s \in SUBSET {i \in pending : stage[i] = "finished"} :
         s # {} /\ done' = s
    /\ pc' = "observe"
    /\ UNCHANGED <<workers, taskVars, next, pending, escape, joinCut>>

\* Wrong on purpose: the first of the futures decides for all (breaks
\* StopIsObserved).
ObserveOne ==
    /\ pc = "observe"
    /\ \E i \in done :
         IF exc[i] # "none" THEN escape' = exc[i] /\ pc' = "shutdown"
                            ELSE pc' = "admit" /\ UNCHANGED escape
    /\ pending' = pending \ done
    /\ UNCHANGED <<workers, taskVars, next, done, joinCut>>

\* Every result is taken before another task is admitted; the first exception
\* met, in no particular order, leaves the loop.
Observe ==
    /\ pc = "observe"
    /\ \/ \E i \in done : exc[i] # "none" /\ escape' = exc[i] /\ pc' = "shutdown"
       \/ /\ \A i \in done : exc[i] = "none"
          /\ pc' = "admit" /\ UNCHANGED escape
    /\ pending' = pending \ done
    /\ UNCHANGED <<workers, taskVars, next, done, joinCut>>

\* Wrong on purpose: a full round is admitted whenever one task ends (breaks
\* AdmissionIsBounded).
RoomForARound == Least(workers, Tasks + 1 - next)

\* As many tasks as futures were observed.
Room == Least(Cardinality(done), Tasks + 1 - next)

Admit ==
    /\ pc = "admit"
    /\ Submit(Room)
    /\ done' = {} /\ pc' = "wait"
    /\ UNCHANGED <<workers, exc, row, open, signalled, escape, joinCut>>

ParallelReturn ==
    /\ pc = "wait" /\ pending = {}
    /\ pc' = "shutdown"
    /\ UNCHANGED <<workers, taskVars, next, pending, done, escape, joinCut>>

\* Wrong on purpose: the exception leaves at once (breaks NothingLeftBehind).
ShutdownAtOnce ==
    /\ pc = "shutdown" /\ pc' = "done"
    /\ UNCHANGED <<workers, taskVars, next, pending, done, escape, joinCut>>

\* The executor's exit waits for every task it was given, started or queued.
Shutdown ==
    /\ pc = "shutdown" /\ \A i \in Task : stage[i] \in {"waiting", "finished"}
    /\ pc' = "done"
    /\ UNCHANGED <<workers, taskVars, next, pending, done, escape, joinCut>>

----------------------------------------------------------------------------
\* Ctrl-C in the calling thread, outside the tasks it runs itself.

\* Before, between or after the tasks of a sequential set.
InterruptSequential ==
    /\ ~Parallel /\ pc \in {"start", "between"}
    /\ pc' = "done"
    /\ UNCHANGED <<taskVars, next, pending, done, joinCut>>

\* In the middle of a round of submissions.
InterruptSubmission ==
    /\ Parallel /\ pc \in {"start", "admit"}
    /\ \E n \in 0..(IF pc = "start" THEN Least(workers, Tasks) ELSE Room) : Submit(n)
    /\ pc' = "shutdown"
    /\ UNCHANGED <<exc, row, open, signalled, done, joinCut>>

\* In wait(), or while the results are taken.
InterruptWait ==
    /\ Parallel /\ pc \in {"wait", "observe"}
    /\ pc' = "shutdown"
    /\ UNCHANGED <<taskVars, next, pending, done, joinCut>>

\* While the executor's exit joins its threads, which are left to themselves; it
\* replaces the exception that was leaving.
InterruptJoin ==
    /\ pc = "shutdown"
    /\ pc' = "done" /\ joinCut' = TRUE
    /\ UNCHANGED <<taskVars, next, pending, done>>

InterruptMain ==
    /\ \/ InterruptSequential \/ InterruptSubmission \/ InterruptWait \/ InterruptJoin
    /\ escape' = "KeyboardInterrupt" /\ UNCHANGED workers

\* A task whose thread was left behind by the join may still go on.
Done == pc = "done" /\ UNCHANGED vars

Main == \/ SequentialNext \/ SequentialAfter \/ SequentialReturn
        \/ SubmitFirst \/ Wait \/ Observe \/ Admit \/ ParallelReturn \/ Shutdown

Next == Main \/ InterruptMain \/ (\E i \in Task : TaskStep(i)) \/ Done

\* The calling thread and every worker thread keep running: a backend call that
\* blocks for ever is outside the promise (_parallel.py:75).
Spec == Init /\ [][Next]_vars
FairSpec == Spec /\ WF_vars(Main) /\ \A i \in Task : WF_vars(TaskStep(i))

----------------------------------------------------------------------------
\* Properties.

TypeOK ==
    /\ workers \in WorkerCounts
    /\ pc \in {"start", "running", "between", "wait", "observe", "admit", "shutdown", "done"}
    /\ next \in 1..(Tasks + 1)
    /\ stage \in [Task -> {"waiting", "queued", "policy", "embodiment", "eval",
                           "close_embodiment", "close_policy", "conclude", "finished"}]
    /\ exc \in [Task -> Raisable \cup Interrupts \cup {"none"}]
    /\ row \in [Task -> {"none", "success", "error"}]
    /\ open \in [Task -> SUBSET {"policy", "embodiment"}]
    /\ pending \subseteq Task /\ done \subseteq Task
    /\ escape \in Raisable \cup Interrupts \cup {"none"}
    /\ signalled \subseteq Task /\ joinCut \in BOOLEAN
    \* the tasks are started in order, each once
    /\ \A i \in Task : stage[i] = "waiting" <=> i >= next

InFlight == {i \in Task : stage[i] \notin {"waiting", "finished"}}

\* At most max_workers tasks are in flight, hence at most that many
\* embodiments are open, though the calling thread admits by counting the
\* futures it has seen and not the threads that are free.
AdmissionIsBounded ==
    /\ Cardinality(InFlight) <= workers
    /\ \A i \in Task : open[i] # {} => i \in InFlight

\* When several futures end together and one of them carries a halt, no task is
\* admitted for the others: every result is looked at first.
StopIsObserved ==
    [][next' # next =>
         /\ \A i \in done : exc[i] = "none"
         /\ escape = "none"]_vars

\* eval_set neither returns nor raises while a task runs or holds a component,
\* whatever ends it and wherever Ctrl-C lands but in one place: in the join of
\* the executor's threads, which then go on without it, though _parallel.py:73
\* and eval.py:1685 say that active tasks finish first.  And it returns only
\* when every task has its row.
NothingLeftBehind ==
    pc = "done" =>
        /\ \/ \A i \in Task : stage[i] \in {"waiting", "finished"} /\ open[i] = {}
           \/ joinCut
        /\ escape = "none" => \A i \in Task : row[i] # "none"

\* In a worker, a SafetyAbort or EmbodimentFault that left eval() is what the
\* task's future raises, however many of its closes fail; and a set in which it
\* happened never returns as if it had not.
HaltOutlivesCleanup ==
    Parallel =>
        /\ \A i \in signalled : exc[i] \in Stops
        /\ pc = "done" /\ escape = "none" => signalled = {}

\* Every set ends, halted or not: a stop waits for running tasks only.
SetEnds == <>(pc = "done")

----------------------------------------------------------------------------
\* What the documentation says and the code does not do.

\* A SafetyAbort or EmbodimentFault that escapes eval(), and a KeyboardInterrupt,
\* propagate and stop the set (eval.py:1652).
StopEndsTheSet == [][signalled # {} /\ ~Parallel => next' = next]_vars
=============================================================================
