------------------------------ MODULE CapxPolicy ------------------------------
(***************************************************************************)
(* inspect-robots-capx: a policy that asks a language model for programs   *)
(* and runs them.  A program queues motions, calls the perception and      *)
(* kinematics servers, and may raise, or leave through sys.exit.  act()    *)
(* goes on asking until a program has queued a motion or the model ends    *)
(* the trial.  Time, positions and speeds are small integers: the budget   *)
(* is what DeltaLimitGuard lets an action move, per dimension.             *)
(***************************************************************************)
EXTENDS Integers, Sequences, FiniteSetsExt

CONSTANTS
    Profiles,       \* embodiments and settings the policy is bound to
    CapBudget,      \* max_llm_calls
    CapFailures,    \* max_code_failures
    CapTrials,      \* bound: trials
    CapMoves,       \* bound: motions a program queues
    Stray,          \* bound: how far outside the box a position may be observed
    RequestTime, AttemptTime, Backoff   \* request_timeout_s, _ATTEMPT_TIMEOUT_S, backoff_s

Dims == {"arm", "grip"}

\* A space's low is nowhere above its high; a step's budget, declared or a part of the range, is
\* nowhere negative.
ASSUME CapAssumption ==
    /\ {CapBudget, CapFailures} \subseteq Nat \ {0} /\ {CapTrials, CapMoves, Stray} \subseteq Nat
    /\ RequestTime > 0 /\ Backoff >= 0
    /\ \A p \in Profiles : /\ {"low", "high", "limit", "budget"} \subseteq DOMAIN p /\ p.speed \in Int
                           /\ {p.low, p.high} \subseteq [Dims -> Int] /\ p.budget \in [Dims -> Nat]
                           /\ \A d \in Dims : p.low[d] <= p.high[d]

----------------------------------------------------------------------------
\* The constructor. Notes of an earlier attempt are a readable file of bounded size.

ValidSettings(p) ==
    /\ p.learnings \in {"none", "notes"}     \* neither unreadable, nor blank, nor too long
    /\ p.speed > 0 /\ p.effort \in {"unset", "level"} /\ p.wire \in {"chat", "responses"}

\* bind(): what the policy accepts, and the speed it derives.

\* grippers counts the labels named gripper, fields the state fields of the action's
\* shape; camera is whether the configured one, or the only one, is declared.
Accepts(p) ==
    /\ p.oneDimensional /\ p.dims >= 2 /\ p.mode = "joint_pos" /\ p.gripperKind # "none"
    /\ p.labelled => p.grippers = 1
    /\ p.hz > 0 /\ p.fields = 1 /\ p.camera
    /\ p.bounded
    /\ \A d \in Dims : p.high[d] > p.low[d] => p.limit[d] > 0

\* max_speed_frac against its default, in halves of the declared budget; without
\* a declared budget, the backstop bounds it.
StepLimit(p, d) ==
    IF p.declared THEN (p.budget[d] * (IF p.speed < 2 THEN p.speed ELSE 2)) \div 2
    ELSE Min({p.speed * (p.high[d] - p.low[d]), p.budget[d]})
Bound(p) == [p EXCEPT !.limit = [d \in Dims |-> StepLimit(p, d)]]

VARIABLES
    profile,     \* what the policy is bound to
    capx,        \* where it is: unbound, idle, asking, running, posting, raising,
                 \* judged, closed
    capTrial,
    callsUsed, codeFailures,   \* _calls_used, _consecutive_failures
    cursor, queue,   \* the MotionQueue: its moves
    raised,      \* what the program did last: fine, raised
    warmStart,   \* the trial of _prev_cfg, 0 for none
    post,        \* the request in progress: time left, attempt, whether one timed out
    returned     \* the chunk act() returned last

trialState == <<capTrial, callsUsed, codeFailures, warmStart>>
motion == <<cursor, queue>>
capVars == <<profile, capx, trialState, motion, raised, post, returned>>

Nowhere == [arm |-> -1, grip |-> -1]
NoPost == [to |-> "none", left |-> 0, attempt |-> 0, timedOut |-> FALSE]
NoChunk == [kind |-> "none", moves |-> <<>>, calls |-> 0]

CapInit ==
    /\ profile \in {p \in Profiles : ValidSettings(p)} /\ capx = "unbound" /\ capTrial = 0
    /\ callsUsed = 0 /\ codeFailures = 0
    /\ cursor = Nowhere /\ queue = <<>> /\ raised = FALSE
    /\ warmStart = 0 /\ post = NoPost /\ returned = NoChunk

Bind ==
    /\ capx = "unbound" /\ Accepts(Bound(profile)) /\ profile' = Bound(profile) /\ capx' = "idle"
    /\ UNCHANGED <<trialState, motion, raised, post, returned>>

\* reset(): the counters, the queue and the
\* kinematics server's warm start begin again.
CapReset ==
    /\ capx = "idle" /\ capTrial < CapTrials /\ capTrial' = capTrial + 1
    /\ callsUsed' = 0 /\ codeFailures' = 0 /\ warmStart' = 0
    /\ cursor' = Nowhere /\ queue' = <<>> /\ returned' = NoChunk
    /\ UNCHANGED <<profile, capx, raised, post>>

----------------------------------------------------------------------------
\* act().

\* What the embodiment reports, which need not be inside its own bounds.
Positions(p) == [arm : p.low.arm - Stray..p.high.arm + Stray,
                 grip : p.low.grip - Stray..p.high.grip + Stray]

CapAct ==
    /\ capx = "idle" /\ capTrial > 0 /\ returned.kind \in {"none", "motion"}
    /\ \E s \in Positions(profile) : cursor' = s
    /\ queue' = <<>> /\ capx' = "asking" /\ returned' = NoChunk
    /\ UNCHANGED <<profile, trialState, raised, post>>

Return(chunk) == capx' = "idle" /\ returned' = chunk
Hold == [kind |-> "hold", moves |-> <<>>, calls |-> callsUsed]

\* The budget is spent: GIVE_UP.
CapExhausted ==
    /\ capx = "asking" /\ callsUsed >= CapBudget /\ Return(Hold)
    /\ UNCHANGED <<profile, trialState, motion, raised, post>>

\* The model ends the trial, or answers with a program.
CapAsk ==
    /\ capx = "asking" /\ callsUsed < CapBudget
    /\ callsUsed' = callsUsed + 1
    /\ \/ Return([Hold EXCEPT !.calls = callsUsed + 1])
       \/ capx' = "running" /\ UNCHANGED returned
    /\ UNCHANGED <<profile, capTrial, codeFailures, warmStart, motion, raised, post>>

\* An endpoint that fails for good ends the trial.
CapAskFails ==
    /\ capx = "asking" /\ callsUsed < CapBudget /\ Return([Hold EXCEPT !.kind = "error"])
    /\ UNCHANGED <<profile, trialState, motion, raised, post>>

----------------------------------------------------------------------------
\* The program.

Distance(d, from, to) == IF to[d] > from[d] THEN to[d] - from[d] ELSE from[d] - to[d]
CeilDiv(a, b) == (a + b - 1) \div b

\* Wrong on purpose: the number of steps is rounded down (breaks MotionsWithinBudget).
FloorSteps(from, to) ==
    Max({1} \cup {Distance(d, from, to) \div profile.limit[d] :
                    d \in {e \in Dims : Distance(e, from, to) > 0}})

\* _queue_target: as many steps as the slowest dimension needs, the cursor moves
\* to the target. A fixed dimension cannot be moved.
Steps(from, to) ==
    Max({1} \cup {CeilDiv(Distance(d, from, to), profile.limit[d]) :
                    d \in {e \in Dims : Distance(e, from, to) > 0}})

Movable(from, to) == \A d \in Dims : Distance(d, from, to) > 0 => profile.limit[d] > 0

\* The target of a motion of dimension d, the others where the cursor is: clipped as a whole.
MoveTo(d, x) ==
    [e \in Dims |-> IF e = d THEN x ELSE IF cursor[e] < profile.low[e] THEN profile.low[e]
                    ELSE IF cursor[e] > profile.high[e] THEN profile.high[e] ELSE cursor[e]]

\* move_to_joints, open_gripper, close_gripper: a target inside the bounds.
Move ==
    /\ capx = "running" /\ Len(queue) < CapMoves
    /\ \E d \in Dims :
         \E to \in {MoveTo(d, x) : x \in profile.low[d]..profile.high[d]} :
           /\ d = "grip" => to.grip \in {profile.low.grip, profile.high.grip}
           /\ Movable(cursor, to)
           /\ queue' = Append(queue, [from |-> cursor, to |-> to, steps |-> Steps(cursor, to)])
           /\ cursor' = to
    /\ UNCHANGED <<profile, capx, trialState, raised, post, returned>>

\* segment, plan_grasp, solve_ik: a POST, with retries until the deadline. A
\* helper may also raise before it: without its camera or extra array.
BeginPost ==
    /\ capx = "running"
    /\ \/ /\ capx' = "posting"
          /\ \E to \in {"perception", "kinematics"} :
               post' = [to |-> to, left |-> RequestTime, attempt |-> 0, timedOut |-> FALSE]
       \/ capx' = "raising" /\ UNCHANGED post
    /\ UNCHANGED <<profile, trialState, motion, raised, returned>>

PostRaises == capx' = "raising" /\ post' = NoPost
PostReturns == capx' = "running" /\ post' = NoPost

\* Masks, or grasps; or an answer that cannot be decoded, or a refusal.
PerceptionAnswers ==
    /\ capx = "posting" /\ post.left > 0 /\ post.to = "perception"
    /\ PostReturns \/ PostRaises
    /\ UNCHANGED <<profile, trialState, motion, raised, returned>>

\* The solution of a full configuration warms the next request of the trial.
KinematicsAnswers ==
    /\ capx = "posting" /\ post.left > 0 /\ post.to = "kinematics"
    /\ \/ PostReturns /\ warmStart' = capTrial
       \/ PostRaises /\ UNCHANGED warmStart
    /\ UNCHANGED <<profile, capTrial, callsUsed, codeFailures, motion, raised, returned>>

\* A timeout, a transport error, 429 or 5xx: after a delay, the next attempt.
PostRetried ==
    /\ capx = "posting" /\ post.left > 0
    /\ \E took \in 0..AttemptTime, late \in BOOLEAN :
         LET left == post.left - took
             delay == Min({Backoff * 2 ^ post.attempt, left})
         IN  post' = [to |-> post.to, left |-> IF left > 0 THEN left - delay ELSE left,
                      attempt |-> IF left > 0 THEN post.attempt + 1 ELSE post.attempt,
                      timedOut |-> post.timedOut \/ late]
    /\ UNCHANGED <<profile, capx, trialState, motion, raised, returned>>

PostExpires ==
    /\ capx = "posting" /\ post.left <= 0 /\ PostRaises
    /\ UNCHANGED <<profile, trialState, motion, raised, returned>>

\* The program ends, or raises, what it had queued standing.
CodeEnds ==
    /\ capx \in {"running", "raising"} /\ capx' = "judged"
    /\ raised' \in (IF capx = "raising" THEN {TRUE} ELSE BOOLEAN)
    /\ UNCHANGED <<profile, trialState, motion, post, returned>>

\* sys.exit is no Exception: it passes execute() and act().
CodeEscapes ==
    /\ capx = "running" /\ Return([Hold EXCEPT !.kind = "error"])
    /\ UNCHANGED <<profile, trialState, motion, raised, post>>

\* A motion is returned, whether or not the program raised after queueing it;
\* too many failures in a row raise; otherwise the model is asked again.
Judge ==
    /\ capx = "judged"
    /\ codeFailures' = IF raised THEN codeFailures + 1 ELSE 0
    /\ CASE queue # <<>> -> /\ Return([kind |-> "motion", moves |-> queue, calls |-> callsUsed])
                            /\ queue' = <<>>
         [] queue = <<>> /\ raised /\ codeFailures' >= CapFailures ->
              Return([Hold EXCEPT !.kind = "error"]) /\ UNCHANGED queue
         [] OTHER -> capx' = "asking" /\ UNCHANGED <<queue, returned>>
    /\ UNCHANGED <<profile, capTrial, callsUsed, warmStart, cursor, raised, post>>

----------------------------------------------------------------------------
CapClose ==
    /\ capx \in {"idle", "unbound"} /\ capx' = "closed"
    /\ UNCHANGED <<profile, trialState, motion, raised, post, returned>>

CapNext ==
    \/ Bind \/ CapReset \/ CapAct \/ CapExhausted \/ CapAsk \/ CapAskFails
    \/ Move \/ BeginPost \/ PerceptionAnswers \/ KinematicsAnswers \/ PostRetried \/ PostExpires
    \/ CodeEnds \/ CodeEscapes \/ Judge \/ CapClose
    \/ capx = "closed" /\ UNCHANGED capVars

CapSpec == CapInit /\ [][CapNext]_capVars

----------------------------------------------------------------------------
\* Properties.

CapTypeOK ==
    /\ capx \in {"unbound", "idle", "asking", "running", "posting", "raising", "judged", "closed"}
    /\ capTrial \in 0..CapTrials /\ callsUsed \in 0..CapBudget /\ codeFailures \in 0..CapBudget
    /\ warmStart \in 0..CapTrials /\ raised \in BOOLEAN
    /\ Len(queue) <= CapMoves
    /\ returned.kind \in {"none", "motion", "hold", "error"}

\* DeltaLimitGuard has nothing to rewrite inside a chunk: the moves continue one
\* another from the turn's observation, stay in the bounds, and none takes fewer
\* steps than the guard's budget asks.
MotionsWithinBudget ==
    \A m \in {queue, returned.moves} : \A i \in DOMAIN m :
      /\ i > 1 => m[i].from = m[i - 1].to
      /\ \A d \in Dims : /\ Distance(d, m[i].from, m[i].to) <= m[i].steps * profile.budget[d]
                         /\ m[i].to[d] \in profile.low[d]..profile.high[d]

\* A trial asks the model at most max_llm_calls times, and begins with
\* nothing of an earlier one.
CapTrialKept ==
    /\ callsUsed <= CapBudget /\ warmStart \in {0, capTrial}
    /\ returned.kind = "motion" => returned.calls >= 1
=============================================================================
