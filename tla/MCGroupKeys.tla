----------------------------- MODULE MCGroupKeys -----------------------------
(* Small instances of a group for TLC. *)
EXTENDS GroupKeys, TLC

Symmetry == Permutations(Users) \union Permutations(Slots)

=============================================================================
