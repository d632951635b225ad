------------------------------- MODULE Journal -------------------------------
(***************************************************************************)
(* What the delivery journal of CryptisDchat promises: every recorded      *)
(* event is sealed into exactly one batch, stays in it, and is reported    *)
(* confirmed only after the batch stands on the chain.                     *)
(*                                                                         *)
(* ChainJournal implements this specification.                             *)
(***************************************************************************)
CONSTANTS Events, Batches

VARIABLES
    stage,     \* stage[e]: how far the event has come
    sealedIn,  \* sealedIn[b]: the events under the batch's Merkle root
    anchored   \* the batches whose transaction is on the chain

vars == <<stage, sealedIn, anchored>>

Init ==
    /\ stage = [e \in Events |-> "none"]
    /\ sealedIn = [b \in Batches |-> {}]
    /\ anchored = {}

Record(e) ==
    /\ stage[e] = "none"
    /\ stage' = [stage EXCEPT ![e] = "queued"]
    /\ UNCHANGED <<sealedIn, anchored>>

Seal(b, S) ==
    /\ S # {} /\ \A e \in S : stage[e] = "queued"
    /\ sealedIn[b] = {}
    /\ stage' = [e \in Events |-> IF e \in S THEN "batched" ELSE stage[e]]
    /\ sealedIn' = [sealedIn EXCEPT ![b] = S]
    /\ UNCHANGED anchored

Anchor(b) ==
    /\ anchored' = anchored \union {b}
    /\ UNCHANGED <<stage, sealedIn>>

(* A batch is confirmed as a whole. *)
Confirm(b) ==
    /\ b \in anchored
    /\ stage' = [e \in Events |-> IF e \in sealedIn[b] THEN "confirmed" ELSE stage[e]]
    /\ UNCHANGED <<sealedIn, anchored>>

Next ==
    \/ \E e \in Events : Record(e)
    \/ \E b \in Batches : Anchor(b) \/ Confirm(b)
    \/ \E b \in Batches, S \in SUBSET Events : Seal(b, S)

Spec == Init /\ [][Next]_vars

=============================================================================
