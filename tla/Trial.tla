-------------------------------- MODULE Trial --------------------------------
(***************************************************************************)
(* What rollout() promises to the orchestrator, whatever the policy, the   *)
(* guards and the embodiment do: the platform is commanded at most         *)
(* MaxSteps times, one command at a time, never after the trial ended; the *)
(* trial ends once, with one outcome, and it does end.                     *)
(***************************************************************************)
EXTENDS Naturals, Outcomes

CONSTANT MaxSteps

VARIABLES commands,   \* actions the embodiment was asked to execute
          outcome     \* "running", or how the trial ended

trialVars == <<commands, outcome>>

TrialInit == commands = 0 /\ outcome = "running"

\* The next action of the trial reaches the embodiment.
Command == /\ outcome = "running"
           /\ commands < MaxSteps
           /\ commands' = commands + 1
           /\ UNCHANGED outcome

\* The trial returns a record or raises.
Finish == /\ outcome = "running"
          /\ outcome' \in TrialOutcomes
          /\ UNCHANGED commands

TrialNext == Command \/ Finish

TrialSafety == TrialInit /\ [][TrialNext]_trialVars
TrialSpec == TrialSafety /\ WF_trialVars(TrialNext)
=============================================================================
