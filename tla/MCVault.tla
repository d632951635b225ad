------------------------------- MODULE MCVault -------------------------------
(***************************************************************************)
(* The vault of a browser, its pairing page and the backup of its keys, for *)
(* TLC: a behaviour is one of the part that subject names, the variables of *)
(* the others keep their first values.                                      *)
(***************************************************************************)
EXTENDS Vault, PairingPage, KeyBackup, TLC

VARIABLE subject

Init ==
    /\ subject \in {"vault", "page", "backup"}
    /\ VaultInit /\ PairingPageInit /\ BackupInit

Next ==
    /\ UNCHANGED subject
    /\ \/ subject = "vault" /\ VaultNext /\ UNCHANGED <<pairingPageVars, backupVars>>
       \/ subject = "page" /\ PairingPageNext /\ UNCHANGED <<vaultVars, backupVars>>
       \/ subject = "backup" /\ BackupNext /\ UNCHANGED <<vaultVars, pairingPageVars>>

SumSpec == Init /\ [][Next]_<<subject, vaultVars, pairingPageVars, backupVars>>

----------------------------------------------------------------------------
Symmetry == Permutations(Pins) \union Permutations(Realms) \union Permutations(Passcodes)

\* Bounds: two asynchronous steps run at once, and a behaviour is not followed further
\* when two kinds of overlaps have happened in it.
Running == Cardinality(writes) + Cardinality(tries)
             + (IF change = None THEN 0 ELSE 1) + (IF refreshing = None \/ refreshing.phase = "saving" THEN 0 ELSE 1)
Bound == Cardinality(overlaps) <= 1 /\ Running <= 2

=============================================================================
