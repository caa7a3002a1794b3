----------------------------- MODULE MCEvalSet -----------------------------
(***************************************************************************)
(* Four tasks: one after the other, and with two workers, so that a task   *)
(* is admitted while another runs and two futures can end together.        *)
(***************************************************************************)
EXTENDS EvalSet

MCWorkerCounts == {1, 2}
=============================================================================
