-------------------------- MODULE MCSubscriptions ---------------------------
(***************************************************************************)
(* Small instances of Subscriptions for TLC.                               *)
(***************************************************************************)
EXTENDS Subscriptions, TLC

CONSTANTS p1, p2

TwoTiers == [p \in {p1, p2} |-> IF p = p1 THEN 1 ELSE 3]
AllOps == {"remove", "pause", "acquire", "cancel", "stream", "clear", "other",
           "tiers", "mismatch"}

Symmetry == Permutations(Sub)
=============================================================================
