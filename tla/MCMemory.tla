------------------------------ MODULE MCMemory ------------------------------
(* Small instances of Memory: nothing tells one rule from another. *)
EXTENDS Memory, TLC

RuleSymmetry == Permutations(Rules)
=============================================================================
