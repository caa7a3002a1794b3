----------------------------- MODULE MCRollout -----------------------------
(***************************************************************************)
(* Small instances of Rollout.  Three steps and a replan interval of two   *)
(* let a chunk be played out, dropped or cut short; the box 0..2 with a    *)
(* limit of 1 makes the clamp, the limiter and both at once bind.          *)
(***************************************************************************)
EXTENDS Rollout

Act(v, ok, stop) == [v |-> v, ok |-> ok, stop |-> stop]
Plain(v) == Act(v, TRUE, "none")

\* The default chain of the CLI, then a guard of the embodiment's, then a
\* limiter the user asked for: a tighter limit after a looser one.
MCGuards == <<[kind |-> "delta", limit |-> 2], [kind |-> "clamp", limit |-> 0],
              [kind |-> "contributed", limit |-> 0], [kind |-> "delta", limit |-> 1]>>

MCChunks ==
    {[actions |-> <<Plain(0), Plain(3)>>, terminal |-> "none"],
     [actions |-> <<Plain(3), Plain(0), Plain(1)>>, terminal |-> "declared"],
     [actions |-> <<Plain(1), Act(2, FALSE, "none")>>, terminal |-> "none"],
     [actions |-> <<Act(2, TRUE, "legacy")>>, terminal |-> "none"],
     [actions |-> <<Plain(1)>>, terminal |-> "undeclared"],
     [actions |-> <<>>, terminal |-> "declared"],
     [actions |-> <<>>, terminal |-> "undeclared"]}
MCTriggers == {"unreachable", "slip"}
=============================================================================
