----------------------------- MODULE ChainJournal -----------------------------
(***************************************************************************)
(* The delivery journal: an API process records an event with the message  *)
(* it belongs to (src/backend/app/services/chain_service.py), pushes its   *)
(* id to the Redis list chain:pending after the commit, and flush_batch of *)
(* src/worker/tasks/blockchain.py seals what the list holds into a Merkle  *)
(* batch.  BatchAnchor takes the batch from there to the chain and back.   *)
(*                                                                         *)
(* The event row, the Redis list, the Redis lock and the broker are        *)
(* written one after the other, and a process may die between any two.     *)
(***************************************************************************)
EXTENDS BatchAnchor

CONSTANTS
    Events,           \* rows of chain_events
    Flushers,         \* processes that may run flush_batch at the same time
    Limit,            \* chain_batch_max_items: ids taken by one LPOP
    MaxPending,       \* bound: the list chain:pending grows no longer
    LockCoversFlush   \* TRUE: the lock's 300 s outlast every flush that lives

ASSUME LimitAssumption == Limit \in Nat \ {0}
ASSUME MaxPendingAssumption == MaxPending \in Nat
ASSUME LockAssumption == LockCoversFlush \in BOOLEAN

VARIABLES
    event,      \* event[e]: columns status and batch_id of the row
    leaves,     \* leaves[b]: the events under the Merkle root of batch b
    unpushed,   \* committed events whose id an API process has yet to push
    pending,    \* the Redis list chain:pending
    locked,     \* the Redis key lock:chain:flush exists
    flusher     \* flusher[f]: next step of flush_batch, ids popped, events read

journalVars == <<event, leaves, unpushed, pending, locked, flusher>>
vars == <<anchorVars, journalVars>>

EventStatuses == {"none", "queued", "batched", "confirmed"}
FlushSteps == {"idle", "pop", "select", "commit", "delay", "release"}

NoBatch == "none"
ASSUME NoBatchAssumption == NoBatch \notin Batches

Resting == [pc |-> "idle", ids |-> {}, batch |-> NoBatch]

JournalTypeOK ==
    /\ event \in [Events -> [status : EventStatuses, batch : Batches \union {NoBatch}]]
    /\ leaves \in [Batches -> SUBSET Events]
    /\ unpushed \subseteq Events
    /\ pending \in Seq(Events)
    /\ locked \in BOOLEAN
    /\ flusher \in [Flushers -> [pc : FlushSteps, ids : SUBSET Events,
                                 batch : Batches \union {NoBatch}]]
    /\ \A f \in Flushers : flusher[f].pc = "delay" => flusher[f].batch \in Batches

TypeOK == AnchorTypeOK /\ JournalTypeOK

Init ==
    /\ AnchorInit
    /\ event = [e \in Events |-> [status |-> "none", batch |-> NoBatch]]
    /\ leaves = [b \in Batches |-> {}]
    /\ unpushed = {}
    /\ pending = <<>>
    /\ locked = FALSE
    /\ flusher = [f \in Flushers |-> Resting]

----------------------------------------------------------------------------
(* The API process *)

(* record_sent and record_receipt: the row is committed with the message.  *)
Record(e) ==
    /\ event[e].status = "none"
    /\ event' = [event EXCEPT ![e].status = "queued"]
    /\ unpushed' = unpushed \union {e}
    /\ UNCHANGED <<anchorVars, leaves, pending, locked, flusher>>

(* after_commit: RPUSH chain:pending. *)
AfterCommit(e) ==
    /\ e \in unpushed /\ Len(pending) < MaxPending
    /\ unpushed' = unpushed \ {e}
    /\ pending' = Append(pending, e)
    /\ UNCHANGED <<anchorVars, event, leaves, locked, flusher>>

(* The API process dies after the commit: its ids are never pushed. *)
ApiCrash ==
    /\ unpushed # {}
    /\ Fault
    /\ unpushed' = {}
    /\ UNCHANGED <<walletVars, batch, broker, worker>>
    /\ UNCHANGED <<event, leaves, pending, locked, flusher>>

(* sweep_orphans: the ids of queued events older than ten minutes return   *)
(* to the list, whether or not the list still holds them.                  *)
Arrangements(S) ==
    {s \in [1..Cardinality(S) -> S] : \A i, j \in DOMAIN s : s[i] = s[j] => i = j}

Queued == {e \in Events : event[e].status = "queued"}

Sweep(old) ==
    /\ old # {} /\ IsFiniteSet(old) /\ Len(pending) + Cardinality(old) <= MaxPending
    /\ \E s \in Arrangements(old) : pending' = pending \o s
    /\ UNCHANGED <<anchorVars, event, leaves, unpushed, locked, flusher>>

SweepOrphans == \E old \in SUBSET Queued : Sweep(old)

----------------------------------------------------------------------------
(* flush_batch *)

FlushAt(f, step) == flusher[f].pc = step

(* SET lock:chain:flush NX EX 300. *)
FlushStart(f) ==
    /\ FlushAt(f, "idle") /\ ~locked
    /\ locked' = TRUE
    /\ flusher' = [flusher EXCEPT ![f].pc = "pop"]
    /\ UNCHANGED <<anchorVars, event, leaves, unpushed, pending>>

(* LPOP chain:pending <limit>. *)
FlushPop(f) ==
    /\ FlushAt(f, "pop")
    /\ LET n == IF Len(pending) < Limit THEN Len(pending) ELSE Limit IN
         /\ flusher' = [flusher EXCEPT ![f] =
              [@ EXCEPT !.pc = "select", !.ids = {pending[i] : i \in 1..n}]]
         /\ pending' = SubSeq(pending, n + 1, Len(pending))
    /\ UNCHANGED <<anchorVars, event, leaves, unpushed, locked>>

(* Mutant of FlushSelect: the SELECT without status = queued.              *)
FlushSelectAnyStatus(f) ==
    /\ FlushAt(f, "select")
    /\ flusher' = [flusher EXCEPT ![f].pc =
                     IF flusher[f].ids = {} THEN "release" ELSE "commit"]
    /\ UNCHANGED <<anchorVars, event, leaves, unpushed, pending, locked>>

(* SELECT the popped events that are still queued; none ends the flush. *)
FlushSelect(f) ==
    /\ FlushAt(f, "select")
    /\ LET found == flusher[f].ids \intersect Queued IN
         flusher' = [flusher EXCEPT ![f] =
            [@ EXCEPT !.pc = IF found = {} THEN "release" ELSE "commit", !.ids = found]]
    /\ UNCHANGED <<anchorVars, event, leaves, unpushed, pending, locked>>

(* INSERT the batch and UPDATE its events in one transaction.  The root is *)
(* unique: a second batch over the same events is rolled back.             *)
FlushCommit(f) ==
    /\ FlushAt(f, "commit")
    /\ LET S == flusher[f].ids IN
         IF \E c \in Batches : leaves[c] = S
         THEN /\ flusher' = [flusher EXCEPT ![f].pc = "release"]
              /\ UNCHANGED <<batch, event, leaves>>
         ELSE \E b \in Batches :
              /\ CreateBatch(b)
              /\ leaves' = [leaves EXCEPT ![b] = S]
              /\ event' = [e \in Events |-> IF e \in S
                             THEN [status |-> "batched", batch |-> b] ELSE event[e]]
              /\ flusher' = [flusher EXCEPT ![f] = [@ EXCEPT !.pc = "delay", !.batch = b]]
    /\ UNCHANGED <<walletVars, broker, worker, faults, unpushed, pending, locked>>

(* submit_batch.delay(batch_id), after the commit. *)
FlushDelay(f) ==
    /\ FlushAt(f, "delay")
    /\ DelaySubmit(flusher[f].batch)
    /\ flusher' = [flusher EXCEPT ![f].pc = "release"]
    /\ UNCHANGED <<walletVars, batch, worker, faults>>
    /\ UNCHANGED <<event, leaves, unpushed, pending, locked>>

(* finally: DEL lock:chain:flush, whoever holds it. *)
FlushRelease(f) ==
    /\ FlushAt(f, "release")
    /\ locked' = FALSE
    /\ flusher' = [flusher EXCEPT ![f] = Resting]
    /\ UNCHANGED <<anchorVars, event, leaves, unpushed, pending>>

(* The worker is killed: no finally runs, the lock stays, popped ids are   *)
(* gone.  The redelivered message is a FlushStart like any other.          *)
FlushCrash(f) ==
    /\ ~FlushAt(f, "idle")
    /\ Fault
    /\ flusher' = [flusher EXCEPT ![f] = Resting]
    /\ UNCHANGED <<walletVars, batch, broker, worker>>
    /\ UNCHANGED <<event, leaves, unpushed, pending, locked>>

(* Mutants of LockExpires: it may run out under a flush; SET without EX.   *)
LockExpiresEarly ==
    /\ locked
    /\ locked' = FALSE
    /\ UNCHANGED <<anchorVars, event, leaves, unpushed, pending, flusher>>

LockNeverExpires == FALSE /\ UNCHANGED vars

(* EX 300 runs out. *)
LockExpires ==
    /\ locked
    /\ LockCoversFlush => \A f \in Flushers : FlushAt(f, "idle")
    /\ locked' = FALSE
    /\ UNCHANGED <<anchorVars, event, leaves, unpushed, pending, flusher>>

FlushStep(f) ==
    \/ FlushPop(f) \/ FlushSelect(f) \/ FlushCommit(f) \/ FlushDelay(f) \/ FlushRelease(f)

----------------------------------------------------------------------------
(* Mutant of ConfirmEvents: only the row is written.                       *)
ConfirmRowOnly(w) == ConfirmCommit(w) /\ UNCHANGED journalVars

(* confirm_batch commits the row and the status of every event whose       *)
(* batch_id is this batch in one transaction.                              *)
ConfirmEvents(w) ==
    /\ ConfirmCommit(w)
    /\ event' = [e \in Events |-> IF event[e].batch = Row(w)
                   THEN [event[e] EXCEPT !.status = "confirmed"] ELSE event[e]]
    /\ UNCHANGED <<leaves, unpushed, pending, locked, flusher>>

Next ==
    \/ \E e \in Events : Record(e) \/ AfterCommit(e)
    \/ ApiCrash
    \/ SweepOrphans
    \/ \E f \in Flushers : FlushStart(f) \/ FlushStep(f) \/ FlushCrash(f)
    \/ LockExpires
    \/ \E w \in Workers : ConfirmEvents(w)
    \/ AnchorStep /\ UNCHANGED journalVars

Spec == Init /\ [][Next]_vars

----------------------------------------------------------------------------
(* Fairness.  Beat keeps starting flush_batch (every 120 s), sweep_orphans *)
(* (600 s) and recheck_submitted (120 s); a process that is not killed     *)
(* takes its next step; Redis drops an expired lock; and a message in the  *)
(* queue is delivered whenever workers keep becoming free (Redis lists are *)
(* first in, first out).  Sweep needs strong fairness only because the     *)
(* bound MaxPending can close it for a moment.  Nothing is assumed of the  *)
(* API process, the operator or the provider's webhook; Land is fair       *)
(* because validators run the wallet's messages.                           *)
WorkerProgress(w) ==
    \/ ConfirmEvents(w)
    \/ /\ \/ AnchorFind(w) \/ AnchorSend(w) \/ SubmitFails(w) \/ SubmitCommit(w)
          \/ EnqueueConfirm(w) \/ CheckConfirmed(w) \/ CheckPending(w)
       /\ UNCHANGED journalVars

Delivery(m) ==
    /\ \E w \in Workers : TakeSubmit(w, m) \/ TakeConfirm(w, m)
    /\ UNCHANGED journalVars

SweepOf(e) == \E old \in SUBSET Queued : e \in old /\ Sweep(old)

RecheckAll ==
    /\ RecheckSubmitted /\ UNCHANGED journalVars
    /\ \A b \in Batches : batch[b].status = "pending" => Submit(b, 0) \in broker'

Fairness ==
    /\ \A e \in Events : SF_vars(SweepOf(e))
    /\ WF_vars(\E f \in Flushers : FlushStart(f))
    /\ \A f \in Flushers : WF_vars(FlushStep(f))
    /\ WF_vars(LockExpires)
    /\ \A w \in Workers : WF_vars(WorkerProgress(w))
    /\ \A m \in Message : SF_vars(Delivery(m))
    /\ WF_vars(RecheckAll)
    /\ WF_vars(Land /\ UNCHANGED <<batch, broker, worker, faults, journalVars>>)

FairSpec == Spec /\ Fairness

----------------------------------------------------------------------------
(* Properties *)

(* An event row names the one batch whose Merkle root covers it: the proof *)
(* stored with the event verifies against that batch's root, and no other  *)
(* transaction spends a leaf on it.  At risk from ids that stand in        *)
(* chain:pending twice (sweep_orphans), from two flushes and from faults. *)
OneBatchPerEvent ==
    \A e \in Events, b \in Batches : e \in leaves[b] <=> event[e].batch = b

(* The client shows the chain icon only for what is on the chain: a        *)
(* confirmed event lies under a batch whose transaction was executed,      *)
(* however submit and confirm tasks overtook each other.                   *)
ConfirmedIsAnchored ==
    \A e \in Events : event[e].status = "confirmed" => event[e].batch \in Anchored

(* A batch is never reported confirmed with some of its events left        *)
(* behind, even when a late submit task has rewritten the row in between.  *)
ConfirmedBatchIsWhole ==
    \A b \in Batches : batch[b].status = "confirmed" =>
        \A e \in leaves[b] : event[e].status = "confirmed"

(* No event is lost: whatever dies between the commit, Redis and the       *)
(* flush, a queued event comes under a batch.                              *)
EventIsBatched ==
    \A e \in Events :
        event[e].status = "queued" ~> event[e].status \in {"batched", "confirmed"}

(* No batch is forgotten between its commit and the broker: a pending row  *)
(* is submitted, or shown as failed to the operator.                       *)
PendingIsResolved ==
    \A b \in Batches :
        batch[b].status = "pending" ~> batch[b].status \in {"submitted", "confirmed", "failed"}

(* The journal implements the abstract promise: an event only moves        *)
(* forward, is sealed once, and is confirmed with its whole batch after    *)
(* the batch was anchored.                                                 *)
J == INSTANCE Journal WITH
        stage <- [e \in Events |-> event[e].status],
        sealedIn <- leaves,
        anchored <- Anchored \ {Foreign}

ImplementsJournal == J!Spec

=============================================================================
