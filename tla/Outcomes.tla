------------------------------ MODULE Outcomes ------------------------------
(***************************************************************************)
(* The exception classes of errors.py and how the rollout re-labels the    *)
(* untyped ones.  An exception is one of these strings wherever it occurs: *)
(* "Generic" stands for every exception that is not an InspectRobotsError  *)
(* (an OSError, a bug in an adapter), "Cancelled" for _CancelledTrial, the *)
(* KeyboardInterrupt that carries the partial record.                      *)
(***************************************************************************)

\* Failures after which no further trial may start: hardware and safety.
Halts == {"EmbodimentFault", "SafetyAbort"}

\* The InspectRobotsError subclasses a component can raise inside a trial.
TypedErrors == Halts \cup {"PolicyError", "ConfigError"}

\* Everything a component call can raise, KeyboardInterrupt aside.
Raisable == TypedErrors \cup {"Generic"}

\* A typed error passes through unchanged, an untyped one becomes `default`.
Typed(exc, default) == IF exc = "Generic" THEN default ELSE exc

\* How a call of rollout() can end.
TrialOutcomes == {"returned", "Cancelled"} \cup Raisable
=============================================================================
