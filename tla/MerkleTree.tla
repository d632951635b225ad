----------------------------- MODULE MerkleTree -----------------------------
(***************************************************************************)
(* The tree over the events of a batch (services/merkle.py, build), and the *)
(* client's check of an event's proof (lib/crypto.js, merkleVerify).  A     *)
(* digest is the term it was computed from: SHA-256 collides on nothing.    *)
(***************************************************************************)
EXTENDS Naturals, Sequences, SequencesExt

CONSTANTS
    Events,   \* event hashes
    MaxBatch  \* bound: events of a batch

MerkleAssumption == MaxBatch \in Nat \ {0}

VARIABLES
    events,    \* the batch
    level,     \* the level reached; nothing was built: <<>>
    positions, \* where on it each leaf is
    proofs

merkleVars == <<events, level, positions, proofs>>

Leaf(e) == <<"leaf", e>>
Branch(l, r) == <<"node", l, r>>
Batches == UNION {[1 .. n -> Events] : n \in 1 .. MaxBatch}

MerkleTypeOK ==
    /\ events \in Batches
    /\ Len(level) <= Len(events)
    /\ positions \in [DOMAIN events -> 1 .. MaxBatch]
    /\ \A i \in DOMAIN proofs : \A j \in DOMAIN proofs[i] : proofs[i][j].pos \in {"L", "R"}

----------------------------------------------------------------------------
(* build *)

\* Mutant for TreeSound: the odd node of a level is paired with itself.
OddTwice(l) ==
    [i \in 1 .. (Len(l) + 1) \div 2 |->
        IF 2 * i <= Len(l) THEN Branch(l[2 * i - 1], l[2 * i]) ELSE Branch(l[2 * i - 1], l[2 * i - 1])]

\* The next level: nodes join in pairs, the odd one moves up as it is.
Above(l) ==
    [i \in 1 .. (Len(l) + 1) \div 2 |->
        IF 2 * i <= Len(l) THEN Branch(l[2 * i - 1], l[2 * i]) ELSE l[2 * i - 1]]

\* The step of the proof of a leaf whose node is at position p.
Step(p, l) ==
    IF p % 2 = 0 THEN <<[pos |-> "L", hash |-> l[p - 1]]>>
    ELSE IF p < Len(l) THEN <<[pos |-> "R", hash |-> l[p + 1]]>> ELSE <<>>

Leaves ==
    /\ level = <<>>
    /\ level' = [i \in DOMAIN events |-> Leaf(events[i])]
    /\ positions' = [i \in DOMAIN events |-> i]
    /\ proofs' = [i \in DOMAIN events |-> <<>>]
    /\ UNCHANGED events

Climb ==
    /\ Len(level) > 1
    /\ level' = Above(level)
    /\ proofs' = [i \in DOMAIN events |-> proofs[i] \o Step(positions[i], level)]
    /\ positions' = [i \in DOMAIN events |-> (positions[i] + 1) \div 2]
    /\ UNCHANGED events

MerkleInit ==
    /\ events \in Batches
    /\ level = <<>> /\ positions = [i \in DOMAIN events |-> 1] /\ proofs = <<>>

MerkleNext == Leaves \/ Climb

MerkleSpec == MerkleInit /\ [][MerkleNext]_merkleVars

----------------------------------------------------------------------------
(* merkleVerify *)

Joined(acc, step) == IF step.pos = "L" THEN Branch(step.hash, acc) ELSE Branch(acc, step.hash)
Folded(e, proof) == FoldLeft(Joined, Leaf(e), proof)
merkleVerify(e, proof, root) == Folded(e, proof) = root

RECURSIVE Root(_)
Root(l) == IF Len(l) = 1 THEN l[1] ELSE Root(Above(l))

----------------------------------------------------------------------------
\* At every level the proof so far leads from the leaf to the node that holds it; so
\* at the root the client accepts the proof of every event of the batch.
ProofsFollow ==
    level # <<>> => \A i \in DOMAIN events : merkleVerify(events[i], proofs[i], level[positions[i]])

\* The root that goes to the chain stands for one batch: no other one, longer by a
\* repeated event or ordered differently, has it.
RootBindsBatch ==
    Len(level) = 1 => \A other \in Batches :
                         Root([i \in DOMAIN other |-> Leaf(other[i])]) = level[1] => other = events

\* What the journal needs of the tree.
TreeSound == ProofsFollow /\ RootBindsBatch
=============================================================================
