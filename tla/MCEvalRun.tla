----------------------------- MODULE MCEvalRun -----------------------------
(***************************************************************************)
(* Two scenes of two epochs: a run can stop in the middle of a scene, at   *)
(* its end and at the end of the task, and a threshold can be reached by   *)
(* the first failure, by half of the trials, or by the second failure.     *)
(***************************************************************************)
EXTENDS EvalRun

On(kind, num, den) == [kind |-> kind, num |-> num, den |-> den]
MCFailOnErrors == {On("never", 0, 1), On("first", 0, 1), On("share", 1, 2), On("count", 2, 1)}
MCRubrics == {"task_success"}
=============================================================================
