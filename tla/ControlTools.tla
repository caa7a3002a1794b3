---- MODULE ControlTools ----
(* The motion tools a language model drives an embodiment with: building the *)
(* surface from the declared spaces, absolute and displacement moves, sleep, *)
(* the stops, tools an embodiment contributes, and the setpoint they share.  *)
(*                                                                           *)
(* A position is a small integer per dimension.  Between two calls the       *)
(* rollout plays some of the chunk, all of it or a first part; a guard may   *)
(* rewrite what the controller is told, and the readback may sag below that  *)
(* in dimension 1.                                                           *)
EXTENDS Integers, Sequences

CONSTANTS
  ToolConfigs, \* embodiments bound: see Drivable and the fields used below
  TDims,       \* dimensions of the action space: 1..n
  Top,         \* bound: positions are 0..Top
  TTrials,     \* bound: trials
  TChunks      \* bound: chunks issued in one trial

VARIABLES
  tcfg,      \* the embodiment, once bound
  tpc,       \* "bind", "refused", "between", "call", "play", "last"
  ttrial,    \* trials begun
  tstep,     \* the observation's env_step
  tchunks,   \* chunks issued in the trial
  readback,  \* the observation's state vector
  replanned, \* the observation carries a replan note
  held,      \* _held_target
  inFlight,  \* _in_flight: waypoints and the step they were issued at
  playing,   \* the chunk last returned
  namedDims, \* the dimensions its call named
  lastPlayed \* the waypoint of theirs that played last in this trial; for the property

toolVars == <<tcfg, tpc, ttrial, tstep, tchunks, readback, replanned, held, inFlight, playing,
              namedDims, lastPlayed>>

Vec == [TDims -> 0..Top]
NoTarget == <<>>
NoFlight == [way |-> <<>>, issued |-> -1]

-----------------------------------------------------------------------------
(* control_tools(): the spaces the motion layer refuses to drive. *)

AbsoluteModes == {"joint_pos", "eef_abs_pose"}
DisplacementModes == {"joint_delta", "eef_delta_pos", "eef_delta_pose"}
PoseModes == {"eef_abs_pose", "eef_delta_pose"}

(* A space's low is nowhere above its high, and no step limit is negative;  *)
(* positions are within the bound.                                          *)
ASSUME ToolsAssumption ==
  /\ {Top, TTrials, TChunks} \subseteq Nat
  /\ TDims \subseteq Nat /\ \E n \in TDims : TDims = 1..n
  /\ \A c \in ToolConfigs :
       /\ {c.low, c.high} \subseteq [TDims -> Int] /\ c.limit \in [TDims -> Nat]
       /\ \A d \in TDims : c.low[d] <= c.high[d]
       /\ c.mode \in AbsoluteModes => {c.low, c.high} \subseteq Vec

IsAbsolute == tcfg.mode \in AbsoluteModes

Drivable(c) ==
  /\ c.onDemand => c.cameras
  /\ c.mode \in AbsoluteModes \cup DisplacementModes
  /\ c.mode \in PoseModes => c.rotation \in {"none", "rot6d"}
  /\ c.preCheck => c.mode \notin DisplacementModes
  /\ c.mode \in AbsoluteModes => c.stateFields = 1
  /\ c.bounded
  /\ c.mode \in DisplacementModes => \A d \in TDims : c.low[d] <= 0 /\ c.high[d] >= 0
  /\ c.mode \in AbsoluteModes => \A d \in TDims : c.high[d] > c.low[d] => c.limit[d] > 0

ToolsInit ==
  /\ tcfg \in ToolConfigs /\ tpc = "bind" /\ ttrial = 0 /\ tstep = 0 /\ tchunks = 0
  /\ readback = [d \in TDims |-> 0] /\ replanned = FALSE
  /\ held = NoTarget /\ inFlight = NoFlight
  /\ playing = <<>> /\ namedDims = {} /\ lastPlayed = NoTarget

BindTools ==
  /\ tpc = "bind"
  /\ tpc' = IF Drivable(tcfg) THEN "between" ELSE "refused"
  /\ UNCHANGED <<tcfg, ttrial, tstep, tchunks, readback, replanned, held, inFlight, playing,
                 namedDims, lastPlayed>>

(* start_trial: the reset embodiment may be anywhere within its bounds. *)
StartTrial ==
  /\ tpc \in {"between", "call"} /\ ttrial < TTrials
  /\ ttrial' = ttrial + 1 /\ tstep' = 0 /\ tchunks' = 0 /\ tpc' = "call"
  /\ readback' \in {v \in Vec : \A d \in TDims : IsAbsolute => v[d] \in tcfg.low[d]..tcfg.high[d]}
  /\ replanned' = FALSE
  /\ held' = NoTarget /\ inFlight' = NoFlight
  /\ playing' = <<>> /\ namedDims' = {} /\ lastPlayed' = NoTarget
  /\ UNCHANGED tcfg

-----------------------------------------------------------------------------
(* _settle: the held target is what played of the last motion. *)

Arriving == IF tcfg.steps THEN tstep ELSE -1
Played == Arriving - inFlight.issued
StepsTell == inFlight.issued >= 0 /\ Arriving >= 0

(* A mutant: a motion is taken to have reached its target. *)
SettledOnTarget == held

Settled ==
  IF inFlight = NoFlight THEN held
  ELSE IF StepsTell
       THEN IF Played >= 1 /\ Played < Len(inFlight.way) THEN inFlight.way[Played] ELSE held
       ELSE IF replanned THEN NoTarget ELSE held

FlightAfter == IF inFlight # NoFlight /\ StepsTell /\ Played < 1 THEN inFlight ELSE NoFlight

Clip(v) == [d \in TDims |-> IF v[d] < tcfg.low[d] THEN tcfg.low[d]
                            ELSE IF v[d] > tcfg.high[d] THEN tcfg.high[d] ELSE v[d]]

Setpoint == IF Settled = NoTarget THEN readback ELSE Settled

-----------------------------------------------------------------------------
(* A chunk leaves for the rollout. *)
Issue(chunk, dims) ==
  /\ playing' = chunk /\ namedDims' = dims
  /\ tchunks' = tchunks + 1
  /\ UNCHANGED <<tcfg, ttrial, tstep, readback, replanned, lastPlayed>>

ToolsReady == tpc = "call" /\ tchunks < TChunks

InRange(d, value) == IF tcfg.limit[d] = 0 THEN value = tcfg.low[d]
                     ELSE value \in tcfg.low[d]..tcfg.high[d]

JointGap(a, b) == IF a > b THEN a - b ELSE b - a

(* The steps one dimension needs at its limit; the slowest one decides. *)
StepsFor(d, distance, limit) == IF limit = 0 THEN 0 ELSE (distance + limit - 1) \div limit
Slowest(steps) ==
  CHOOSE n \in 1..(Top + 1) * 2 : (\A s \in steps : s <= n) /\ (n = 1 \/ n \in steps)

(* Named dimensions are interpolated from where the arm is; the others sit  *)
(* at the setpoint from the first waypoint.                                 *)
Waypoints(target, dims, n) ==
  LET start == [d \in TDims |-> IF d \in dims THEN readback[d] ELSE target[d]]
  IN [k \in 1..n |-> Clip([d \in TDims |-> start[d] + ((target[d] - start[d]) * k) \div n])]

TrialTarget(values) == [d \in TDims |-> IF d \in DOMAIN values THEN values[d] ELSE Setpoint[d]]

AbsoluteSteps(values) ==
  Slowest({StepsFor(d, JointGap(values[d], readback[d]), tcfg.limit[d]) : d \in DOMAIN values})

Acceptable(values) == (\A d \in DOMAIN values : InRange(d, values[d])) /\ AbsoluteSteps(values) <= tcfg.cap

(* _move_absolute.  A refusal (out of range, a pinned dimension, too long,  *)
(* or the pre-check's) leaves the settled setpoint as it was.               *)
MoveAbsolute(values) ==
  /\ ToolsReady /\ IsAbsolute
  /\ LET target == TrialTarget(values)
         way == Waypoints(target, DOMAIN values, AbsoluteSteps(values))
     IN \/ /\ Acceptable(values)
           /\ held' = Clip(target)
           /\ inFlight' = [way |-> way, issued |-> Arriving]
           /\ Issue(way, DOMAIN values) /\ tpc' = "play"
        \/ /\ ~Acceptable(values) \/ tcfg.preCheck
           /\ held' = Settled /\ inFlight' = FlightAfter
           /\ UNCHANGED <<tcfg, tpc, ttrial, tstep, tchunks, readback, replanned, playing,
                          namedDims, lastPlayed>>

(* _move_displacement: equal shares of the delta, none for the others. *)
MoveDisplacement(deltas) ==
  /\ ToolsReady /\ ~IsAbsolute
  /\ \A d \in DOMAIN deltas : IF deltas[d] > 0 THEN tcfg.high[d] > 0 ELSE deltas[d] < 0 => tcfg.low[d] < 0
  /\ LET limit == [d \in DOMAIN deltas |-> IF deltas[d] > 0 THEN tcfg.high[d] ELSE -tcfg.low[d]]
         n == Slowest({StepsFor(d, JointGap(deltas[d], 0), limit[d]) : d \in DOMAIN deltas})
     IN /\ n <= tcfg.cap
        /\ Issue([k \in 1..n |-> [d \in TDims |-> IF d \in DOMAIN deltas THEN deltas[d] \div n ELSE 0]],
                 DOMAIN deltas)
        /\ tpc' = "play"
  /\ UNCHANGED <<held, inFlight>>

(* _sleep: hold the setpoint; before the first move that is the readback.   *)
Sleep(n) ==
  /\ ToolsReady
  /\ IF IsAbsolute
     THEN LET target == IF Settled = NoTarget THEN Clip(readback) ELSE Settled
          IN /\ held' = target /\ inFlight' = FlightAfter
             /\ Issue([k \in 1..n |-> target], {}) /\ tpc' = "play"
     ELSE /\ Issue([k \in 1..n |-> [d \in TDims |-> 0]], {}) /\ tpc' = "play"
          /\ UNCHANGED <<held, inFlight>>

(* done and give_up re-send the setpoint and end the trial: the last chunk. *)
ToolStop ==
  /\ ToolsReady
  /\ held' = Settled /\ inFlight' = FlightAfter
  /\ Issue(<<Setpoint>>, {}) /\ tpc' = "last"

(* track(): a contributed tool's chunk becomes the motion in flight; one    *)
(* that cannot be read as positions clears the setpoint.                    *)
Contributed(way) ==
  /\ ToolsReady /\ IsAbsolute
  /\ LET clipped == [k \in DOMAIN way |-> Clip(way[k])]
     IN /\ held' = clipped[Len(way)]
        /\ inFlight' = [way |-> clipped, issued |-> Arriving]
        /\ Issue(clipped, TDims) /\ tpc' = "play"

ContributedUnreadable ==
  /\ ToolsReady /\ IsAbsolute
  /\ held' = NoTarget /\ inFlight' = NoFlight
  /\ Issue(<<>>, TDims) /\ tpc' = "play"

-----------------------------------------------------------------------------
(* The rollout reviews and plays the first p actions of the chunk, then      *)
(* observes; a chunk cut short by a trigger leaves a note, one cut short by  *)
(* the replan interval leaves none.  The tools are told how many actions     *)
(* played, not what the guards made of them.                                 *)
Sags(v) == {v, [v EXCEPT ![1] = IF @ > tcfg.low[1] THEN @ - 1 ELSE @]}

(* The chain may clamp a position, limit its distance to the one before,    *)
(* hold an earlier pose or put another in its place.                         *)
Reviewed == {v \in Vec : \A d \in TDims : v[d] \in tcfg.low[d]..tcfg.high[d]}

PlayChunk(p) ==
  /\ tpc \in {"play", "last"} /\ p \in DOMAIN playing
  /\ tstep' = tstep + p
  /\ replanned' \in IF p = Len(playing) THEN {FALSE}
                    ELSE IF tcfg.steps THEN BOOLEAN ELSE {TRUE}
  /\ lastPlayed' = playing[p]
  /\ IF IsAbsolute THEN \E v \in Reviewed : readback' \in Sags(v) ELSE UNCHANGED readback
  /\ tpc' = IF tpc = "last" THEN "between" ELSE "call"
  /\ UNCHANGED <<tcfg, ttrial, tchunks, held, inFlight, playing, namedDims>>

PlayUnreadable ==
  /\ tpc = "play" /\ playing = <<>>
  /\ tstep' = tstep + 1 /\ lastPlayed' = NoTarget /\ replanned' = FALSE
  /\ readback' \in {readback, [d \in TDims |-> tcfg.low[d]]}
  /\ tpc' = "call"
  /\ UNCHANGED <<tcfg, ttrial, tchunks, held, inFlight, playing, namedDims>>

Requests == UNION {[dims -> 0..Top] : dims \in (SUBSET TDims) \ {{}}}

ToolsNext ==
  \/ BindTools \/ StartTrial \/ ToolStop \/ ContributedUnreadable \/ PlayUnreadable
  \/ \E values \in Requests : MoveAbsolute(values) \/ MoveDisplacement(values)
  \/ \E n \in 1..2 : Sleep(n)
  \/ \E v, w \in {[d \in TDims |-> 0], [d \in TDims |-> Top]} : Contributed(<<v, w>>)
  \/ \E p \in DOMAIN playing : PlayChunk(p)

ToolsSpec == ToolsInit /\ [][ToolsNext]_toolVars

-----------------------------------------------------------------------------
ToolsTypeOK ==
  /\ tpc \in {"bind", "refused", "between", "call", "play", "last"}
  /\ IsAbsolute => held \in Vec \cup {NoTarget}
  /\ tchunks \in 0..TChunks

(* A dimension a call leaves unnamed stays at the waypoint of the tools' own *)
(* chunks that played last, in every action of every later move, sleep and   *)
(* stop of the trial, wherever an earlier motion was cut short: it is not    *)
(* loosened by the tracking sag, nor tightened to a target that never played.*)
(* A guard that rewrote that waypoint moved the robot elsewhere; the next    *)
(* call asks for the waypoint again (tools.py:294-322).                      *)
UnnamedHold ==
  (tpc \in {"play", "last"} /\ IsAbsolute /\ tcfg.steps /\ lastPlayed # NoTarget) =>
    \A k \in DOMAIN playing : \A d \in TDims \ namedDims : playing[k][d] = lastPlayed[d]
====
