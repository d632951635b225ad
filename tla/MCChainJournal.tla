---------------------------- MODULE MCChainJournal ----------------------------
(* Small instances of the delivery journal for TLC. *)
EXTENDS ChainJournal, TLC

Symmetry ==
    Permutations(Events) \union Permutations(Batches)
        \union Permutations(Flushers) \union Permutations(Workers)

=============================================================================
