------------------------------ MODULE GuardChain ------------------------------
(***************************************************************************)
(* guard.py: the members of a guard chain, one dimension of the action     *)
(* vector at a time (clipping is per dimension, so one dimension shows     *)
(* what every dimension does).  A member is                                *)
(*   "clamp"        ClampGuard over the box [Low, High]                    *)
(*   "delta"        DeltaLimitGuard in an absolute-target mode             *)
(*   "contributed"  a guard the embodiment contributes, which may veto or  *)
(*                  hold an earlier executed pose                          *)
(***************************************************************************)
EXTENDS Integers

CONSTANTS Low, High     \* the box of the action space

ASSUME BoxAssumption == Low \in Int /\ High \in Int /\ Low <= High

GuardKinds == {"clamp", "delta", "contributed"}
Members == [kind : GuardKinds, limit : Nat]

\* np.clip(x, lo, hi)
Clip(x, lo, hi) == IF x < lo THEN lo ELSE IF x > hi THEN hi ELSE x

InBox(x) == Low <= x /\ x <= High
Within(x, y, limit) == y - limit <= x /\ x <= y + limit

\* ClampGuard.review of a numeric action
Clamped(x) == Clip(x, Low, High)

\* DeltaLimitGuard.review: the first action of a trial has no reference to be
\* measured from and passes through.
DeltaLimited(x, reference, limit) ==
    IF reference.known THEN Clip(x, reference.at - limit, reference.at + limit)
                       ELSE x
=============================================================================
