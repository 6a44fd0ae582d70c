---------------------------- MODULE MCGovernance ----------------------------
(* Three people: one in office, one nominated, one named before. *)
EXTENDS Governance, TLC

Symmetry == Permutations(Keys)
=============================================================================
