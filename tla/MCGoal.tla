------------------------------- MODULE MCGoal -------------------------------
(* Goal for TLC: goal identities are drawn at random, so they are          *)
(* interchangeable.                                                        *)
EXTENDS Goal, TLC

Symmetry == Permutations(Ids)
=============================================================================
