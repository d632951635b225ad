------------------------------ MODULE MCPairing -------------------------------
(* A small account for TLC. *)
EXTENDS Pairing, TLC

Symmetry ==
    Permutations(Requests) \union Permutations(Devices \ Requests)
      \union Permutations(Tokens) \union Permutations(Slots)

=============================================================================
