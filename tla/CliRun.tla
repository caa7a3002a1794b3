---- MODULE CliRun ----
(* The commands that drive a robot: `run`, `eval-set` and the tasks of a     *)
(* parallel eval-set.  Several of them share a machine: each takes advisory  *)
(* claims on its devices, builds policy, embodiment, guards, session, voice  *)
(* and speaker in a fixed order where any step may stop the command, runs    *)
(* the evaluation, and unwinds what it opened.  A process may be killed at   *)
(* any point.  What the evaluation does is in EvalRun and EvalSet.           *)
EXTENDS Integers, Sequences, FiniteSets

CONSTANTS
  Commands, \* commands running at once
  Devices,  \* device values a claim names
  Jobs      \* job records: see JobOK

(* The devices of a job are listed in the order in which they are claimed.   *)
ASSUME JobsAssumption == \A j \in Jobs : j.devices \in Seq(Devices)

VARIABLES
  job,    \* the arguments of each command
  step,   \* where it is: an element of Stages, "clean" or "gone"
  claims, \* the locks it has taken, in order
  claimed,\* how its claim ended: "none", "held", "degraded"
  open,   \* what it has opened and must close
  guarded,  \* the guards its actions pass
  warned, \* it printed that actions may reach the embodiment unchecked
  code    \* its exit status

cliVars == <<job, step, claims, claimed, open, guarded, warned, code>>

-----------------------------------------------------------------------------
(* The arguments: mode, devices (a sequence), flags and the space driven.   *)

JobOK(j) ==
  /\ j.mode \in {"run", "set", "parallel"}
  /\ j.tty \in BOOLEAN /\ j.noPrompt \in BOOLEAN
  /\ j.grader \in {"operator flag", "unset"}

Attended(j) == ~j.noPrompt /\ j.tty

(* _check_shared_run_conflicts and the mode's own checks. *)
Conflicting(j) ==
  \/ j.unguarded /\ j.delta
  \/ j.noPrompt /\ j.grader = "operator flag"
  \/ j.mode = "parallel" /\ (~j.noPrompt \/ j.voice)
  \/ j.mode # "run" /\ (j.speak \/ j.auto)

(* _build_guardrails: each default guard applies or is skipped with a       *)
(* warning; the configured ones are added even when the defaults are off.   *)
Limitable(j) == j.semantics /\ (j.bounded \/ j.delta)
DefaultGuards(j) == IF j.unguarded THEN {}
                    ELSE (IF j.bounded THEN {"clamp"} ELSE {})
                         \cup (IF Limitable(j) THEN {"delta-limit"} ELSE {})
                         \cup (IF j.contributes THEN {"contributed"} ELSE {})
GuardsOf(j) == DefaultGuards(j) \cup (IF j.extra THEN {"configured"} ELSE {})

(* A mutant: a chain that came out empty is announced like any other.       *)
WarnsOfDisabled(j) == j.unguarded
Warns(j) == j.unguarded \/ ~j.bounded \/ ~Limitable(j) \/ GuardsOf(j) = {}

-----------------------------------------------------------------------------
(* The order of construction.  Each step opens what OpenedBy names.         *)

Order == <<"args", "task", "grader", "policy", "claim", "embodiment", "auto", "guards", "session",
           "voice", "speaker", "sinks", "eval">>
Stages == {Order[k] : k \in DOMAIN Order}
After(s) == Order[CHOOSE k \in 2..Len(Order) : Order[k - 1] = s]

(* Only the callbacks of a parallel task close the policy.                  *)
OpenedBy(s, j) ==
  CASE s = "policy" -> IF j.mode = "parallel" THEN {"policy"} ELSE {}
    [] s = "embodiment" -> {"embodiment"}
    [] s = "voice" -> IF j.voice THEN {"voice"} ELSE {}
    [] s = "speaker" -> IF j.speak THEN {"speaker"} ELSE {}
    [] s = "sinks" -> {"live"}
    [] OTHER -> {}

(* Some steps of a command cannot but stop it. *)
Blocked(s, j) ==
  \/ s = "args" /\ Conflicting(j)
  \/ s = "guards" /\ j.mode = "parallel" /\ ~j.sim
  \/ s = "guards" /\ j.unmigrated /\ ~j.unguarded
  \/ s = "voice" /\ j.voice /\ ~(Attended(j) /\ j.console)

CliInit ==
  /\ job \in [Commands -> {j \in Jobs : JobOK(j)}]
  /\ step = [c \in Commands |-> "args"]
  /\ claims = [c \in Commands |-> <<>>] /\ claimed = [c \in Commands |-> "none"]
  /\ open = [c \in Commands |-> {}] /\ guarded = [c \in Commands |-> {}]
  /\ warned = [c \in Commands |-> FALSE] /\ code = [c \in Commands |-> "none"]

Locked(d) == \E c \in Commands : \E k \in DOMAIN claims[c] : claims[c][k] = d

-----------------------------------------------------------------------------
(* A step succeeds. *)
Advance(c) ==
  /\ step[c] \in Stages \ {"claim", "eval"} /\ ~Blocked(step[c], job[c])
  /\ step' = [step EXCEPT ![c] = After(@)]
  /\ open' = [open EXCEPT ![c] = @ \cup OpenedBy(step[c], job[c])]
  /\ guarded' = IF step[c] = "guards" THEN [guarded EXCEPT ![c] = GuardsOf(job[c])] ELSE guarded
  /\ warned' = IF step[c] = "guards" THEN [warned EXCEPT ![c] = Warns(job[c])] ELSE warned
  /\ UNCHANGED <<job, claims, claimed, code>>

(* A step raises: SystemExit, a factory's own exception, or Ctrl-C (which   *)
(* eval-set turns into its status wherever it comes).  What                 *)
(* voice and speaker construct before their startup hook fails is already   *)
(* to be closed.                                                            *)
StopCommand(c) ==
  /\ step[c] \in Stages \ {"eval"}
  /\ step' = [step EXCEPT ![c] = "clean"]
  /\ open' \in IF step[c] \in {"voice", "speaker"} /\ ~Blocked(step[c], job[c])
               THEN {open, [open EXCEPT ![c] = @ \cup OpenedBy(step[c], job[c])]} ELSE {open}
  /\ \E result \in IF job[c].mode = "run" \/ step[c] = "args" THEN {"stopped"} ELSE {"stopped", "130"} :
       code' = [code EXCEPT ![c] = result]
  /\ UNCHANGED <<job, claims, claimed, guarded, warned>>

(* claim_devices, one device at a time. *)
NextDevice(c) == job[c].devices[Len(claims[c]) + 1]

ClaimDevice(c) ==
  /\ step[c] = "claim" /\ Len(claims[c]) < Len(job[c].devices)
  /\ ~Locked(NextDevice(c))
  /\ claims' = [claims EXCEPT ![c] = Append(@, NextDevice(c))]
  /\ UNCHANGED <<job, step, claimed, open, guarded, warned, code>>

(* Another process holds it: give back the rest and stop. *)
ClaimRefused(c) ==
  /\ step[c] = "claim" /\ Len(claims[c]) < Len(job[c].devices)
  /\ Locked(NextDevice(c))
  /\ claims' = [claims EXCEPT ![c] = <<>>]
  /\ step' = [step EXCEPT ![c] = "clean"] /\ code' = [code EXCEPT ![c] = "stopped"]
  /\ UNCHANGED <<job, claimed, open, guarded, warned>>

(* No lock directory, or a lock file that cannot be opened or written: give *)
(* back the rest, warn, and go on without a claim.                          *)
ClaimDegraded(c) ==
  /\ step[c] = "claim" /\ Len(claims[c]) < Len(job[c].devices)
  /\ claims' = [claims EXCEPT ![c] = <<>>]
  /\ claimed' = [claimed EXCEPT ![c] = "degraded"]
  /\ step' = [step EXCEPT ![c] = "embodiment"]
  /\ UNCHANGED <<job, open, guarded, warned, code>>

ClaimDone(c) ==
  /\ step[c] = "claim" /\ Len(claims[c]) = Len(job[c].devices)
  /\ claimed' = [claimed EXCEPT ![c] = "held"]
  /\ step' = [step EXCEPT ![c] = "embodiment"]
  /\ UNCHANGED <<job, claims, open, guarded, warned, code>>

(* The evaluation: 0 for success, 1 for another status, 130 for Ctrl-C.     *)
Evaluate(c) ==
  /\ step[c] = "eval"
  /\ \E result \in {"0", "1", "130", "raised"} : code' = [code EXCEPT ![c] = result]
  /\ step' = [step EXCEPT ![c] = "clean"]
  /\ UNCHANGED <<job, claims, claimed, open, guarded, warned>>

-----------------------------------------------------------------------------
(* Unwinding: nested finally blocks in run, an exit stack in eval-set.      *)

(* A mutant: the devices are given back before the robot is closed.         *)
ReleasingFirst == <<"live", "speaker", "voice", "claim", "embodiment", "policy">>

CloseOrder == <<"live", "speaker", "voice", "embodiment", "claim", "policy">>

Held(c) == open[c] \cup (IF claims[c] # <<>> THEN {"claim"} ELSE {})
First(c) == CloseOrder[CHOOSE k \in DOMAIN CloseOrder :
              CloseOrder[k] \in Held(c) /\ \A i \in 1..(k - 1) : CloseOrder[i] \notin Held(c)]

(* Each close is tried once; its failure does not skip the ones after it,   *)
(* and replaces the status unless the exit stack preserves a halt.          *)
Close(c) ==
  /\ step[c] = "clean" /\ Held(c) # {}
  /\ open' = [open EXCEPT ![c] = @ \ {First(c)}]
  /\ claims' = IF First(c) = "claim" THEN [claims EXCEPT ![c] = <<>>] ELSE claims
  /\ \/ UNCHANGED code
     \/ /\ First(c) \notin {"live", "claim"}
        /\ job[c].mode = "run" \/ code[c] # "130"
        /\ code' = [code EXCEPT ![c] = "raised"]
  /\ UNCHANGED <<job, step, claimed, guarded, warned>>

Exit(c) ==
  /\ step[c] = "clean" /\ Held(c) = {}
  /\ step' = [step EXCEPT ![c] = "gone"]
  /\ UNCHANGED <<job, claims, claimed, open, guarded, warned, code>>

(* Killed: the kernel drops its locks and nothing is closed.                *)
Kill(c) ==
  /\ step[c] # "gone"
  /\ step' = [step EXCEPT ![c] = "gone"] /\ code' = [code EXCEPT ![c] = "killed"]
  /\ claims' = [claims EXCEPT ![c] = <<>>] /\ open' = [open EXCEPT ![c] = {}]
  /\ UNCHANGED <<job, claimed, guarded, warned>>

CliNext ==
  \E c \in Commands :
    \/ Advance(c) \/ StopCommand(c)
    \/ ClaimDevice(c) \/ ClaimRefused(c) \/ ClaimDegraded(c) \/ ClaimDone(c)
    \/ Evaluate(c) \/ Close(c) \/ Exit(c) \/ Kill(c)

CliSpec == CliInit /\ [][CliNext]_cliVars

-----------------------------------------------------------------------------
CliTypeOK ==
  \A c \in Commands :
    /\ step[c] \in Stages \cup {"clean", "gone"}
    /\ claimed[c] \in {"none", "held", "degraded"}
    /\ \A k \in DOMAIN claims[c] : claims[c][k] \in Devices
    /\ code[c] \in {"none", "stopped", "0", "1", "130", "raised", "killed"}

(* Two commands never drive one rig: embodiments open at the same time      *)
(* share no device, unless one of them could not make its claim;            *)
(* the claims outlast the embodiment however the command ends.              *)
OneDriverPerRig ==
  \A c, d \in Commands :
    (c # d /\ "embodiment" \in open[c] /\ "embodiment" \in open[d]
       /\ claimed[c] = "held" /\ claimed[d] = "held") =>
      \A k \in DOMAIN job[c].devices, m \in DOMAIN job[d].devices :
        job[c].devices[k] # job[d].devices[m]

(* A command that was not killed leaves nothing open and no device claimed, *)
(* whichever step stopped it and whichever close failed, and reports an     *)
(* evaluation only if that ran under guards or after a warning.             *)
LeavesNothingOpen ==
  \A c \in Commands :
    (step[c] = "gone" /\ code[c] # "killed") =>
      /\ open[c] = {} /\ claims[c] = <<>>
      /\ code[c] \in {"0", "1"} => guarded[c] # {} \/ warned[c]

(* No action reaches a robot past fewer guards than the operator was told.  *)
NeverSilentlyUnguarded ==
  \A c \in Commands :
    step[c] = "eval" /\ ~({"clamp", "delta-limit"} \subseteq guarded[c]) => warned[c]

(* Two commands never drive one rig, a command leaves nothing open however  *)
(* it ends, and none runs without its guards unannounced.                   *)
CommandsLeaveRigs == OneDriverPerRig /\ LeavesNothingOpen /\ NeverSilentlyUnguarded
====
