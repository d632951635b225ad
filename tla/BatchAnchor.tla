----------------------------- MODULE BatchAnchor -----------------------------
(***************************************************************************)
(* Anchoring of Merkle batches: the Celery tasks submit_batch,             *)
(* confirm_batch, recheck_submitted and retry_batch of                     *)
(* src/worker/tasks/blockchain.py, run by a pool of workers over a broker  *)
(* that acknowledges a message only after the task (task_acks_late) and    *)
(* returns it when the worker dies (task_reject_on_worker_lost).           *)
(*                                                                         *)
(* The tasks read a chain_batches row, talk to the network with no lock    *)
(* held, and then write the row blindly.  Every such gap is a step of its  *)
(* own: any other task may run between reading the row, _find, sendBoc and *)
(* the commit.                                                             *)
(*                                                                         *)
(* Two waiting messages with equal contents are one element of broker: a   *)
(* copy that is being executed has left the set, so two copies can still   *)
(* run side by side.                                                       *)
(***************************************************************************)
EXTENDS TonWallet, FiniteSets

CONSTANTS
    Batches,      \* rows of chain_batches; a batch stands for its own comment
    Workers,      \* processes of the blockchain worker (--concurrency=2)
    MaxRetries,   \* MAX_RETRIES of submit_batch
    MaxPolls,     \* CONFIRM_MAX_POLLS of confirm_batch
    MaxFaults     \* bound: process deaths, network errors and foreign transfers

ASSUME BatchesAssumption == Batches = Comments
ASSUME MaxRetriesAssumption == MaxRetries \in Nat
ASSUME MaxPollsAssumption == MaxPolls \in Nat
ASSUME MaxFaultsAssumption == MaxFaults \in Nat

VARIABLES
    batch,    \* batch[b]: columns status and tx_hash of the row
    broker,   \* messages waiting in the blockchain queue
    worker,   \* worker[w]: the message being executed and the next step
    faults    \* process deaths, network errors and foreign transfers so far

anchorVars == <<chain, inflight, batch, broker, worker, faults>>

Statuses == {"absent", "pending", "submitted", "confirmed", "failed"}

(* tx_hash: none, the comment (AnchorResult.tx_ref), or the transaction's  *)
(* own hash, which replaces the comment once check() has found it.         *)
TxHashes == {"none", "comment", "hash"}

Message ==
         [task : {"submit"},  batch : Batches, retries : 0..MaxRetries]
  \union [task : {"confirm"}, batch : Batches, retries : 0..MaxPolls]

NoMessage == [task |-> "none"]

Submit(b, n)  == [task |-> "submit",  batch |-> b, retries |-> n]
Confirm(b, n) == [task |-> "confirm", batch |-> b, retries |-> n]

Steps == {"find", "send", "sent", "raised", "enqueue", "check", "confirm"}

Idle == [pc |-> "idle", msg |-> NoMessage]
WorkerState == {Idle} \union [pc : Steps, msg : Message]

AnchorTypeOK ==
    /\ WalletTypeOK
    /\ batch \in [Batches -> [status : Statuses, tx : TxHashes]]
    /\ broker \subseteq Message
    /\ worker \in [Workers -> WorkerState]
    /\ faults \in 0..MaxFaults

AnchorInit ==
    /\ WalletInit
    /\ batch = [b \in Batches |-> [status |-> "absent", tx |-> "none"]]
    /\ broker = {}
    /\ worker = [w \in Workers |-> Idle]
    /\ faults = 0

----------------------------------------------------------------------------
(* Helpers *)

At(w, step) == worker[w].pc = step
Goto(w, step) == worker' = [worker EXCEPT ![w].pc = step]
Finish(w) == worker' = [worker EXCEPT ![w] = Idle]

(* The batch whose task the worker executes. *)
Row(w) == worker[w].msg.batch

----------------------------------------------------------------------------
(* submit_batch *)

(* The worker takes a message and reads the row.  A row that is submitted  *)
(* or confirmed ends the task at once.                                     *)
TakeSubmit(w, m) ==
    /\ At(w, "idle") /\ m \in broker /\ m.task = "submit"
    /\ broker' = broker \ {m}
    /\ worker' = [worker EXCEPT ![w] =
                    IF batch[m.batch].status \in {"absent", "submitted", "confirmed"}
                    THEN Idle
                    ELSE [pc |-> "find", msg |-> m]]
    /\ UNCHANGED <<walletVars, batch, faults>>

(* anchor(), first half: a comment found on the chain counts as submitted. *)
AnchorFind(w) ==
    /\ At(w, "find")
    /\ Goto(w, IF Found(Row(w)) THEN "sent" ELSE "send")
    /\ UNCHANGED <<walletVars, batch, broker, faults>>

(* anchor(), second half: sign for the current seqno and send. *)
AnchorSend(w) ==
    /\ At(w, "send")
    /\ SendBoc(Row(w))
    /\ Goto(w, "sent")
    /\ UNCHANGED <<batch, broker, faults>>

(* Every failure of the environment is counted against the bound. *)
Fault == faults < MaxFaults /\ faults' = faults + 1

(* A network or toncenter error.  When it hits the answer to /sendBoc, the *)
(* message is on its way all the same.                                     *)
AnchorRaises(w) ==
    /\ At(w, "find") \/ At(w, "send")
    /\ \/ UNCHANGED walletVars
       \/ At(w, "send") /\ SendBoc(Row(w))
    /\ Fault
    /\ Goto(w, "raised")
    /\ UNCHANGED <<batch, broker>>

(* The exception branch: another attempt, or "failed" for good. *)
SubmitFails(w) ==
    /\ At(w, "raised")
    /\ LET n == worker[w].msg.retries IN
         IF n >= MaxRetries
         THEN /\ batch' = [batch EXCEPT ![Row(w)].status = "failed"]
              /\ UNCHANGED broker
         ELSE /\ broker' = broker \union {Submit(Row(w), n + 1)}
              /\ UNCHANGED batch
    /\ Finish(w)
    /\ UNCHANGED <<walletVars, faults>>

(* The row is written over whatever it holds by now. *)
SubmitCommit(w) ==
    /\ At(w, "sent")
    /\ batch' = [batch EXCEPT ![Row(w)] = [status |-> "submitted", tx |-> "comment"]]
    /\ Goto(w, "enqueue")
    /\ UNCHANGED <<walletVars, broker, faults>>

(* confirm_batch.apply_async after the commit. *)
EnqueueConfirm(w) ==
    /\ At(w, "enqueue")
    /\ broker' = broker \union {Confirm(Row(w), 0)}
    /\ Finish(w)
    /\ UNCHANGED <<walletVars, batch, faults>>

----------------------------------------------------------------------------
(* confirm_batch *)

(* Only a submitted row with a transaction reference is checked. *)
TakeConfirm(w, m) ==
    /\ At(w, "idle") /\ m \in broker /\ m.task = "confirm"
    /\ broker' = broker \ {m}
    /\ worker' = [worker EXCEPT ![w] =
                    IF batch[m.batch].status = "submitted" /\ batch[m.batch].tx # "none"
                    THEN [pc |-> "check", msg |-> m]
                    ELSE Idle]
    /\ UNCHANGED <<walletVars, batch, faults>>

(* Mutant of CheckConfirmed: a check() that answers without a match.       *)
CheckConfirmedBlindly(w) ==
    /\ At(w, "check")
    /\ Goto(w, "confirm")
    /\ UNCHANGED <<walletVars, batch, broker, faults>>

(* check() found the comment. *)
CheckConfirmed(w) ==
    /\ At(w, "check") /\ Found(Row(w))
    /\ Goto(w, "confirm")
    /\ UNCHANGED <<walletVars, batch, broker, faults>>

(* check() did not: poll again, up to CONFIRM_MAX_POLLS times. *)
CheckPending(w) ==
    /\ At(w, "check") /\ ~Found(Row(w))
    /\ LET n == worker[w].msg.retries IN
         broker' = IF n < MaxPolls THEN broker \union {Confirm(Row(w), n + 1)} ELSE broker
    /\ Finish(w)
    /\ UNCHANGED <<walletVars, batch, faults>>

(* check() raised: confirm_batch has no handler, the task ends failed.     *)
CheckRaises(w) ==
    /\ At(w, "check")
    /\ Fault
    /\ Finish(w)
    /\ UNCHANGED <<walletVars, batch, broker>>

(* The row becomes confirmed, again whatever it holds by now. *)
ConfirmCommit(w) ==
    /\ At(w, "confirm")
    /\ batch' = [batch EXCEPT ![Row(w)] = [status |-> "confirmed", tx |-> "hash"]]
    /\ Finish(w)
    /\ UNCHANGED <<walletVars, broker, faults>>

----------------------------------------------------------------------------
(* Beat, operator, provider and failures *)

(* Mutant of RecheckSubmitted: pending rows are not picked up.             *)
RecheckOnlySubmitted ==
    /\ broker' = broker
         \union {Confirm(b, 0) : b \in {c \in Batches : batch[c].status = "submitted"}}
    /\ UNCHANGED <<walletVars, batch, worker, faults>>

(* recheck_submitted: every submitted row is polled again, and a pending   *)
(* row older than five minutes is submitted again.  Which pending rows are *)
(* that old is left open.                                                  *)
RecheckSubmitted ==
    /\ \E old \in SUBSET {b \in Batches : batch[b].status = "pending"} :
         broker' = broker
            \union {Confirm(b, 0) : b \in {c \in Batches : batch[c].status = "submitted"}}
            \union {Submit(b, 0) : b \in old}
    /\ UNCHANGED <<walletVars, batch, worker, faults>>

(* retry_batch, by the operator; the process may die before .delay.        *)
RetryBatch(b) ==
    /\ batch[b].status = "failed"
    /\ batch' = [batch EXCEPT ![b].status = "pending"]
    /\ broker' \in {broker, broker \union {Submit(b, 0)}}
    /\ UNCHANGED <<walletVars, worker, faults>>

(* /webhooks/ton-tx-status finds the row by tx_hash = tx_ref, which is the *)
(* comment, and queues a confirmation.                                     *)
Webhook(b) ==
    /\ batch[b].tx = "comment"
    /\ broker' = broker \union {Confirm(b, 0)}
    /\ UNCHANGED <<walletVars, batch, worker, faults>>

(* A worker process is killed: its message goes back to the queue. *)
WorkerCrash(w) ==
    /\ ~At(w, "idle")
    /\ Fault
    /\ broker' = broker \union {worker[w].msg}
    /\ Finish(w)
    /\ UNCHANGED <<walletVars, batch>>

Network ==
    /\ \/ Land /\ UNCHANGED faults
       \/ (Drop \/ ForeignTransfer) /\ Fault
    /\ UNCHANGED <<batch, broker, worker>>

(* What flush_batch does to the row: it commits a new batch. *)
CreateBatch(b) ==
    /\ batch[b].status = "absent"
    /\ batch' = [batch EXCEPT ![b].status = "pending"]

(* submit_batch.delay(b) by flush_batch, a later step of its process. *)
DelaySubmit(b) == broker' = broker \union {Submit(b, 0)}

(* The steps of the worker pool other than the commit of confirm_batch,    *)
(* which also writes the batch's events.                                   *)
WorkerStep(w) ==
    \/ \E m \in broker : TakeSubmit(w, m) \/ TakeConfirm(w, m)
    \/ AnchorFind(w) \/ AnchorSend(w) \/ AnchorRaises(w)
    \/ SubmitFails(w) \/ SubmitCommit(w) \/ EnqueueConfirm(w)
    \/ CheckConfirmed(w) \/ CheckPending(w) \/ CheckRaises(w)

AnchorStep ==
    \/ \E w \in Workers : WorkerStep(w) \/ WorkerCrash(w)
    \/ \E b \in Batches : RetryBatch(b) \/ Webhook(b)
    \/ RecheckSubmitted
    \/ Network

=============================================================================
