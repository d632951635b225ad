-------------------------- MODULE ChainJournalProofs --------------------------
(***************************************************************************)
(* Proofs about ChainJournal for every number of events, batches, workers  *)
(* and flushers, any retry limits and any number of faults.                *)
(***************************************************************************)
EXTENDS ChainJournal, FiniteSetTheorems, TLAPS

----------------------------------------------------------------------------
(* Type correctness *)

(* A worker that has begun a task holds a message of the queue. *)
LEMMA BusyWorker ==
    ASSUME AnchorTypeOK, NEW w \in Workers, ~At(w, "idle")
    PROVE  /\ worker[w].pc \in Steps
           /\ worker[w].msg \in Message
           /\ Row(w) \in Batches
BY DEF AnchorTypeOK, At, Idle, Row, Message, WorkerState

(* The tasks keep the types of the anchoring variables. *)
LEMMA AnchorTypeStep ==
    ASSUME AnchorTypeOK, AnchorStep
    PROVE  AnchorTypeOK'
<1> USE ForeignAssumption, BatchesAssumption, MaxRetriesAssumption, MaxPollsAssumption,
        MaxFaultsAssumption
        DEF AnchorTypeOK, WalletTypeOK, WorkerState
<1>1. ASSUME NEW w \in Workers, NEW m \in broker, TakeSubmit(w, m) \/ TakeConfirm(w, m)
      PROVE  AnchorTypeOK'
  BY <1>1 DEF TakeSubmit, TakeConfirm, walletVars, Steps
<1>2. ASSUME NEW w \in Workers,
             AnchorFind(w) \/ AnchorSend(w) \/ AnchorRaises(w) \/ CheckConfirmed(w)
                \/ SubmitCommit(w)
      PROVE  AnchorTypeOK'
  <2>1. ~At(w, "idle")
    BY <1>2 DEF At, AnchorFind, AnchorSend, AnchorRaises, CheckConfirmed, SubmitCommit
  <2>2. worker[w].msg \in Message /\ Row(w) \in Batches
    BY <2>1, BusyWorker
  <2>3. worker[w] \in [pc : Steps, msg : Message]
    BY <2>1 DEF At, Idle
  <2>4. \A step \in Steps : [worker[w] EXCEPT !.pc = step] \in [pc : Steps, msg : Message]
    BY <2>3
  <2>5. \A step \in Steps : Goto(w, step) => worker' \in [Workers -> WorkerState]
    BY <2>4 DEF Goto
  <2>6. batch' \in [Batches -> [status : Statuses, tx : TxHashes]]
    BY <1>2, <2>2 DEF AnchorFind, AnchorSend, AnchorRaises, CheckConfirmed, SubmitCommit,
                      Statuses, TxHashes
  <2>7. WalletTypeOK' /\ broker' \subseteq Message /\ faults' \in 0..MaxFaults
    BY <1>2, <2>2 DEF AnchorFind, AnchorSend, AnchorRaises, CheckConfirmed, SubmitCommit,
                      SendBoc, Fault, walletVars
  <2>8. \E step \in Steps : Goto(w, step)
    BY <1>2 DEF AnchorFind, AnchorSend, AnchorRaises, CheckConfirmed, SubmitCommit, Steps
  <2>9. QED
    BY <2>5, <2>6, <2>7, <2>8
<1>3. ASSUME NEW w \in Workers,
             SubmitFails(w) \/ EnqueueConfirm(w) \/ CheckPending(w) \/ CheckRaises(w)
                \/ WorkerCrash(w)
      PROVE  AnchorTypeOK'
  <2>1. ~At(w, "idle")
    BY <1>3 DEF At, SubmitFails, EnqueueConfirm, CheckPending, CheckRaises, WorkerCrash
  <2>2. worker[w].msg \in Message /\ Row(w) \in Batches
    BY <2>1, BusyWorker
  <2>3. worker' \in [Workers -> WorkerState]
    BY <1>3 DEF SubmitFails, EnqueueConfirm, CheckPending, CheckRaises, WorkerCrash, Finish
  <2>4. batch' \in [Batches -> [status : Statuses, tx : TxHashes]]
    BY <1>3, <2>2 DEF SubmitFails, EnqueueConfirm, CheckPending, CheckRaises, WorkerCrash,
                      Statuses
  <2>5. WalletTypeOK' /\ faults' \in 0..MaxFaults
    BY <1>3 DEF SubmitFails, EnqueueConfirm, CheckPending, CheckRaises, WorkerCrash,
                walletVars, Fault
  <2>6. worker[w].msg.retries \in Nat
    BY <2>2 DEF Message
  <2>7. broker' \subseteq Message
    <3>1. CASE SubmitFails(w)
      <4>1. CASE worker[w].msg.retries >= MaxRetries
        BY <3>1, <4>1 DEF SubmitFails
      <4>2. CASE ~(worker[w].msg.retries >= MaxRetries)
        <5>1. Submit(Row(w), worker[w].msg.retries + 1) \in Message
          BY <2>2, <2>6, <4>2 DEF Submit, Message
        <5>2. QED
          BY <3>1, <4>2, <5>1 DEF SubmitFails
      <4>3. QED
        BY <4>1, <4>2
    <3>2. CASE EnqueueConfirm(w)
      <4>1. Confirm(Row(w), 0) \in Message
        BY <2>2 DEF Confirm, Message
      <4>2. QED
        BY <3>2, <4>1 DEF EnqueueConfirm
    <3>3. CASE CheckPending(w)
      <4>1. worker[w].msg.retries < MaxPolls =>
              Confirm(Row(w), worker[w].msg.retries + 1) \in Message
        BY <2>2, <2>6 DEF Confirm, Message
      <4>2. QED
        BY <3>3, <4>1 DEF CheckPending
    <3>4. CASE CheckRaises(w) \/ WorkerCrash(w)
      BY <3>4, <2>2 DEF CheckRaises, WorkerCrash
    <3>5. QED
      BY <1>3, <3>1, <3>2, <3>3, <3>4
  <2>8. QED
    BY <2>3, <2>4, <2>5, <2>7
<1>4. ASSUME NEW b \in Batches, RetryBatch(b) \/ Webhook(b)
      PROVE  AnchorTypeOK'
  <2>1. Submit(b, 0) \in Message /\ Confirm(b, 0) \in Message
    BY DEF Submit, Confirm, Message
  <2>2. QED
    BY <1>4, <2>1 DEF RetryBatch, Webhook, walletVars, Statuses
<1>5. ASSUME RecheckSubmitted
      PROVE  AnchorTypeOK'
  <2>1. \A b \in Batches : Submit(b, 0) \in Message /\ Confirm(b, 0) \in Message
    BY DEF Submit, Confirm, Message
  <2>2. QED
    BY <1>5, <2>1 DEF RecheckSubmitted, walletVars
<1>6. ASSUME Network
      PROVE  AnchorTypeOK'
  <2>1. WalletTypeOK'
    BY <1>6 DEF Network, Land, Drop, ForeignTransfer, SendBoc
  <2>2. QED
    BY <1>6, <2>1 DEF Network, Fault
<1>7. QED
  BY <1>1, <1>2, <1>3, <1>4, <1>5, <1>6 DEF AnchorStep, WorkerStep

(* So do the steps of the API process, of flush_batch and of the lock. *)
JournalStep ==
    \/ \E e \in Events : Record(e) \/ AfterCommit(e)
    \/ ApiCrash \/ SweepOrphans \/ LockExpires
    \/ \E f \in Flushers : FlushStart(f) \/ FlushStep(f) \/ FlushCrash(f)

LEMMA NextCases ==
    Next <=> \/ JournalStep
             \/ \E w \in Workers : ConfirmEvents(w)
             \/ AnchorStep /\ UNCHANGED journalVars
BY DEF Next, JournalStep

(* Steps of the journal proper leave the anchoring variables well typed.   *)
LEMMA AnchorTypeKept ==
    ASSUME AnchorTypeOK, UNCHANGED <<walletVars, batch, broker, worker>>,
           faults' = faults \/ Fault
    PROVE  AnchorTypeOK'
BY MaxFaultsAssumption DEF AnchorTypeOK, WalletTypeOK, walletVars, Fault

LEMMA JournalTypeStep ==
    ASSUME TypeOK, JournalStep
    PROVE  TypeOK'
<1> DEFINE FlusherType ==
      /\ flusher \in [Flushers -> [pc : FlushSteps, ids : SUBSET Events,
                                   batch : Batches \union {NoBatch}]]
      /\ \A f \in Flushers : flusher[f].pc = "delay" => flusher[f].batch \in Batches
<1> DEFINE RowType ==
      /\ event \in [Events -> [status : EventStatuses, batch : Batches \union {NoBatch}]]
      /\ leaves \in [Batches -> SUBSET Events]
<1> DEFINE ListType ==
      /\ unpushed \subseteq Events
      /\ pending \in Seq(Events)
<1>0. JournalTypeOK <=> RowType /\ ListType /\ FlusherType /\ locked \in BOOLEAN
  BY DEF JournalTypeOK
<1>1. ASSUME NEW e \in Events, Record(e)
      PROVE  TypeOK'
  <2>1. RowType'
    BY <1>1, <1>0 DEF Record, EventStatuses, TypeOK
  <2>2. AnchorTypeOK' /\ ListType' /\ FlusherType' /\ locked' \in BOOLEAN
    BY <1>1, <1>0, AnchorTypeKept DEF Record, TypeOK, anchorVars, walletVars
  <2>3. QED
    BY <2>1, <2>2, <1>0 DEF TypeOK, JournalTypeOK
<1>2. ASSUME NEW e \in Events, AfterCommit(e)
      PROVE  TypeOK'
  <2>1. ListType'
    BY <1>2, <1>0 DEF AfterCommit, TypeOK
  <2>2. AnchorTypeOK' /\ RowType' /\ FlusherType' /\ locked' \in BOOLEAN
    BY <1>2, <1>0, AnchorTypeKept DEF AfterCommit, TypeOK, anchorVars, walletVars
  <2>3. QED
    BY <2>1, <2>2 DEF TypeOK, JournalTypeOK
<1>3. ASSUME ApiCrash \/ LockExpires
      PROVE  TypeOK'
  <2>1. AnchorTypeOK' /\ RowType' /\ FlusherType'
    BY <1>3, <1>0, AnchorTypeKept DEF ApiCrash, LockExpires, TypeOK, anchorVars, walletVars
  <2>2. ListType' /\ locked' \in BOOLEAN
    BY <1>3, <1>0 DEF ApiCrash, LockExpires, TypeOK
  <2>3. QED
    BY <2>1, <2>2 DEF TypeOK, JournalTypeOK
<1>4. ASSUME SweepOrphans
      PROVE  TypeOK'
  <2>1. PICK old \in SUBSET Queued : Sweep(old)
    BY <1>4 DEF SweepOrphans
  <2>2. PICK s \in Arrangements(old) : pending' = pending \o s
    BY <2>1 DEF Sweep
  <2>3. s \in [1..Cardinality(old) -> Events] /\ Cardinality(old) \in Nat
    <3>1. old \subseteq Events
      BY DEF Queued
    <3>2. IsFiniteSet(old)
      BY <2>1 DEF Sweep
    <3>3. QED
      BY <3>1, <3>2, FS_CardinalityType DEF Arrangements
  <2>4. ListType'
    <3>1. s \in Seq(Events)
      BY <2>3
    <3>2. pending \o s \in Seq(Events)
      BY <3>1, <1>0 DEF TypeOK
    <3>3. QED
      BY <2>1, <2>2, <3>2, <1>0 DEF Sweep, TypeOK
  <2>5. AnchorTypeOK' /\ RowType' /\ FlusherType' /\ locked' \in BOOLEAN
    BY <2>1, <1>0, AnchorTypeKept DEF Sweep, TypeOK, anchorVars, walletVars
  <2>6. QED
    BY <2>4, <2>5 DEF TypeOK, JournalTypeOK
<1>5. ASSUME NEW f \in Flushers, FlushStart(f) \/ FlushSelect(f) \/ FlushRelease(f)
                \/ FlushCrash(f)
      PROVE  TypeOK'
  <2>1. AnchorTypeOK' /\ RowType' /\ ListType'
    BY <1>5, <1>0, AnchorTypeKept DEF FlushStart, FlushSelect, FlushRelease, FlushCrash,
       TypeOK, anchorVars, walletVars
  <2>2. FlusherType'
    <3>0. CASE FlushStart(f)
      BY <3>0, <1>0 DEF FlushStart, TypeOK, FlushSteps
    <3>1. CASE FlushRelease(f) \/ FlushCrash(f)
      <4>1. flusher' = [flusher EXCEPT ![f] = Resting]
        BY <3>1 DEF FlushRelease, FlushCrash
      <4>2. QED
        BY <4>1, <1>0 DEF TypeOK, Resting, FlushSteps
    <3>2. CASE FlushSelect(f)
      <4> DEFINE found == flusher[f].ids \intersect Queued
      <4> DEFINE step == IF found = {} THEN "release" ELSE "commit"
      <4>1. [flusher[f] EXCEPT !.pc = step, !.ids = found]
               \in [pc : FlushSteps \ {"delay"}, ids : SUBSET Events,
                    batch : Batches \union {NoBatch}]
        BY <1>0 DEF TypeOK, FlushSteps
      <4>2. flusher' = [flusher EXCEPT ![f] = [@ EXCEPT !.pc = step, !.ids = found]]
        BY <3>2 DEF FlushSelect
      <4>3. QED
        BY <4>1, <4>2, <1>0 DEF TypeOK
    <3>3. QED
      BY <1>5, <3>0, <3>1, <3>2
  <2>3. locked' \in BOOLEAN
    BY <1>5, <1>0 DEF FlushStart, FlushSelect, FlushRelease, FlushCrash, TypeOK
  <2>4. QED
    BY <2>1, <2>2, <2>3 DEF TypeOK, JournalTypeOK
<1>6. ASSUME NEW f \in Flushers, FlushPop(f)
      PROVE  TypeOK'
  <2> DEFINE n == IF Len(pending) < Limit THEN Len(pending) ELSE Limit
  <2>1. n \in Nat /\ n <= Len(pending)
    BY LimitAssumption, <1>0 DEF TypeOK
  <2>2. {pending[i] : i \in 1..n} \subseteq Events
    BY <2>1, <1>0 DEF TypeOK
  <2>3. SubSeq(pending, n + 1, Len(pending)) \in Seq(Events)
    BY <2>1, <1>0 DEF TypeOK
  <2>4. flusher' = [flusher EXCEPT ![f] =
                      [@ EXCEPT !.pc = "select", !.ids = {pending[i] : i \in 1..n}]]
    BY <1>6 DEF FlushPop
  <2>5. FlusherType'
    <3>1. [flusher[f] EXCEPT !.pc = "select", !.ids = {pending[i] : i \in 1..n}]
             \in [pc : FlushSteps \ {"delay"}, ids : SUBSET Events,
                  batch : Batches \union {NoBatch}]
      BY <2>2, <1>0 DEF TypeOK, FlushSteps
    <3>2. QED
      BY <2>4, <3>1, <1>0 DEF TypeOK
  <2>6. ListType'
    BY <1>6, <2>3, <1>0 DEF FlushPop, TypeOK
  <2>7. AnchorTypeOK' /\ RowType' /\ locked' \in BOOLEAN
    BY <1>6, <1>0, AnchorTypeKept DEF FlushPop, TypeOK, anchorVars, walletVars
  <2>8. QED
    BY <2>5, <2>6, <2>7 DEF TypeOK, JournalTypeOK
<1>7. ASSUME NEW f \in Flushers, FlushCommit(f)
      PROVE  TypeOK'
  <2>1. ListType' /\ locked' \in BOOLEAN
    BY <1>7, <1>0 DEF FlushCommit, TypeOK
  <2>2. CASE \E c \in Batches : leaves[c] = flusher[f].ids
    <3>1. AnchorTypeOK' /\ RowType'
      BY <1>7, <2>2, <1>0, AnchorTypeKept DEF FlushCommit, TypeOK
    <3>2. FlusherType'
      <4>1. flusher' = [flusher EXCEPT ![f].pc = "release"]
        BY <1>7, <2>2 DEF FlushCommit
      <4>2. QED
        BY <4>1, <1>0 DEF TypeOK, FlushSteps
    <3>3. QED
      BY <2>1, <3>1, <3>2 DEF TypeOK, JournalTypeOK
  <2>3. CASE ~\E c \in Batches : leaves[c] = flusher[f].ids
    <3>1. PICK b \in Batches :
            /\ CreateBatch(b)
            /\ leaves' = [leaves EXCEPT ![b] = flusher[f].ids]
            /\ event' = [e \in Events |-> IF e \in flusher[f].ids
                            THEN [status |-> "batched", batch |-> b] ELSE event[e]]
            /\ flusher' = [flusher EXCEPT ![f] = [@ EXCEPT !.pc = "delay", !.batch = b]]
      BY <1>7, <2>3 DEF FlushCommit
    <3>2. AnchorTypeOK'
      BY <1>7, <3>1 DEF FlushCommit, CreateBatch, Statuses, walletVars, TypeOK, AnchorTypeOK,
                        WalletTypeOK
    <3>3. RowType'
      BY <3>1, <1>0 DEF EventStatuses, TypeOK
    <3>4. FlusherType'
      <4>1. [flusher[f] EXCEPT !.pc = "delay", !.batch = b]
               \in [pc : FlushSteps, ids : SUBSET Events, batch : Batches]
        BY <1>0 DEF TypeOK, FlushSteps
      <4>2. QED
        BY <3>1, <4>1, <1>0 DEF TypeOK
    <3>5. QED
      BY <2>1, <3>2, <3>3, <3>4 DEF TypeOK, JournalTypeOK
  <2>4. QED
    BY <2>2, <2>3
<1>8. ASSUME NEW f \in Flushers, FlushDelay(f)
      PROVE  TypeOK'
  <2>1. Submit(flusher[f].batch, 0) \in Message
    BY <1>8, <1>0, MaxRetriesAssumption DEF TypeOK, FlushDelay, FlushAt, Submit, Message
  <2>2. AnchorTypeOK'
    BY <1>8, <2>1 DEF FlushDelay, DelaySubmit, TypeOK, walletVars, AnchorTypeOK, WalletTypeOK
  <2>3. FlusherType'
    BY <1>8, <1>0 DEF FlushDelay, FlushSteps, TypeOK
  <2>4. RowType' /\ ListType' /\ locked' \in BOOLEAN
    BY <1>8, <1>0 DEF FlushDelay, TypeOK
  <2>5. QED
    BY <2>2, <2>3, <2>4 DEF TypeOK, JournalTypeOK
<1>9. QED
  BY <1>1, <1>2, <1>3, <1>4, <1>5, <1>6, <1>7, <1>8 DEF JournalStep, FlushStep

LEMMA ConfirmTypeStep ==
    ASSUME TypeOK, NEW w \in Workers, ConfirmEvents(w)
    PROVE  TypeOK'
<1>1. Row(w) \in Batches
  BY BusyWorker DEF TypeOK, ConfirmEvents, ConfirmCommit, At
<1>2. AnchorTypeOK'
  BY <1>1 DEF TypeOK, ConfirmEvents, ConfirmCommit, Finish, walletVars, AnchorTypeOK,
              WalletTypeOK, WorkerState, Statuses, TxHashes
<1>3. JournalTypeOK'
  BY DEF TypeOK, JournalTypeOK, ConfirmEvents, EventStatuses
<1>4. QED
  BY <1>2, <1>3 DEF TypeOK

(* Every reachable state of the journal and of its tasks is well typed:    *)
(* a task holds a message of the queue for an existing batch, whatever     *)
(* crashes and retries came before (src/worker/tasks/blockchain.py).       *)
THEOREM TypeCorrect == Spec => []TypeOK
<1>1. Init => TypeOK
  <2> SUFFICES ASSUME Init PROVE TypeOK
    OBVIOUS
  <2>1. AnchorTypeOK
    BY MaxFaultsAssumption DEF Init, AnchorInit, WalletInit, AnchorTypeOK, WalletTypeOK,
       Statuses, TxHashes, WorkerState
  <2>2. event \in [Events -> [status : EventStatuses, batch : Batches \union {NoBatch}]]
    BY DEF Init, EventStatuses
  <2>3. /\ leaves \in [Batches -> SUBSET Events]
        /\ unpushed \subseteq Events /\ pending \in Seq(Events)
    BY DEF Init
  <2>4. locked \in BOOLEAN
    BY DEF Init
  <2>5. /\ flusher \in [Flushers -> [pc : FlushSteps, ids : SUBSET Events,
                                     batch : Batches \union {NoBatch}]]
        /\ \A f \in Flushers : flusher[f].pc = "delay" => flusher[f].batch \in Batches
    BY DEF Init, FlushSteps, Resting
  <2>6. QED
    BY <2>1, <2>2, <2>3, <2>4, <2>5 DEF TypeOK, JournalTypeOK
<1>2. TypeOK /\ [Next]_vars => TypeOK'
  <2> SUFFICES ASSUME TypeOK, [Next]_vars PROVE TypeOK'
    OBVIOUS
  <2>1. CASE JournalStep
    BY <2>1, JournalTypeStep
  <2>2. CASE \E w \in Workers : ConfirmEvents(w)
    BY <2>2, ConfirmTypeStep
  <2>3. CASE AnchorStep /\ UNCHANGED journalVars
    BY <2>3, AnchorTypeStep DEF TypeOK, JournalTypeOK, journalVars
  <2>4. CASE UNCHANGED vars
    BY <2>4 DEF vars, anchorVars, journalVars, TypeOK, JournalTypeOK, AnchorTypeOK,
                WalletTypeOK
  <2>5. QED
    BY <2>1, <2>2, <2>3, <2>4, NextCases
<1>3. QED
  BY <1>1, <1>2, PTL DEF Spec

----------------------------------------------------------------------------
(* The chain only grows *)

LEMMA AnchoredGrows ==
    ASSUME TypeOK, [Next]_vars
    PROVE  Anchored \subseteq Anchored'
<1>1. chain' = chain \/ \E c \in inflight : chain' = Append(chain, c)
  BY DEF Next, AnchorStep, WorkerStep, FlushStep, vars, anchorVars, walletVars, Record,
     AfterCommit, ApiCrash, SweepOrphans, Sweep, FlushStart, FlushPop, FlushSelect,
     FlushCommit, FlushDelay, FlushRelease, FlushCrash, LockExpires, ConfirmEvents,
     ConfirmCommit, TakeSubmit, TakeConfirm, AnchorFind, AnchorSend, AnchorRaises, SendBoc,
     SubmitFails, SubmitCommit, EnqueueConfirm, CheckConfirmed, CheckPending, CheckRaises,
     WorkerCrash, RetryBatch, Webhook, RecheckSubmitted, Network, Land, Drop,
     ForeignTransfer
<1>2. ASSUME NEW c \in inflight, chain' = Append(chain, c)
      PROVE  Anchored \subseteq Anchored'
  <2>1. chain \in Seq(Comments \union {Foreign}) /\ c \in Comments \union {Foreign}
    BY DEF TypeOK, AnchorTypeOK, WalletTypeOK
  <2>2. \A i \in DOMAIN chain : i \in DOMAIN chain' /\ chain'[i] = chain[i]
    BY <1>2, <2>1
  <2>3. QED
    BY <2>2 DEF Anchored
<1>3. QED
  BY <1>1, <1>2 DEF Anchored

LEMMA FoundIsAnchored ==
    ASSUME NEW c, Found(c)
    PROVE  c \in Anchored
BY DEF Found, Anchored

----------------------------------------------------------------------------
(* Nothing is reported confirmed before it is on the chain *)

(* A confirm task past check() has seen its batch on the chain. *)
ConfirmSawAnchor == \A w \in Workers : At(w, "confirm") => Row(w) \in Anchored

AnchorInv == ConfirmSawAnchor /\ ConfirmedIsAnchored

LEMMA ConfirmSawAnchorStep ==
    ASSUME TypeOK, ConfirmSawAnchor, [Next]_vars
    PROVE  ConfirmSawAnchor'
<1>1. Anchored \subseteq Anchored'
  BY AnchoredGrows
<1> SUFFICES ASSUME NEW w \in Workers, At(w, "confirm")'
             PROVE  Row(w)' \in Anchored'
  BY DEF ConfirmSawAnchor
<1> USE DEF TypeOK, AnchorTypeOK, At, Row
<1>2. CASE worker'[w] = worker[w]
  BY <1>1, <1>2 DEF ConfirmSawAnchor
<1>3. CASE worker' # worker /\ AnchorStep
  <2>1. CASE \E v \in Workers, m \in broker : TakeSubmit(v, m) \/ TakeConfirm(v, m)
    BY <1>2, <2>1 DEF TakeSubmit, TakeConfirm, Idle
  <2>2. CASE \E v \in Workers : CheckConfirmed(v)
    BY <1>1, <1>2, <2>2, FoundIsAnchored DEF CheckConfirmed, Goto
  <2>3. CASE \E v \in Workers : AnchorFind(v) \/ AnchorSend(v) \/ AnchorRaises(v)
                                    \/ SubmitCommit(v)
    <3>1. PICK v \in Workers, step \in {"send", "sent", "raised", "enqueue"} : Goto(v, step)
      BY <2>3 DEF AnchorFind, AnchorSend, AnchorRaises, SubmitCommit
    <3>2. QED
      BY <1>2, <3>1 DEF Goto
  <2>4. CASE \E v \in Workers : SubmitFails(v) \/ EnqueueConfirm(v) \/ CheckPending(v)
                                    \/ CheckRaises(v) \/ WorkerCrash(v)
    BY <1>2, <2>4 DEF SubmitFails, EnqueueConfirm, CheckPending, CheckRaises, WorkerCrash,
                      Finish, Idle
  <2>5. QED
    BY <1>3, <2>1, <2>2, <2>3, <2>4
       DEF AnchorStep, WorkerStep, RetryBatch, Webhook, RecheckSubmitted, Network
<1>4. CASE \E v \in Workers : ConfirmEvents(v)
  BY <1>2, <1>4 DEF ConfirmEvents, ConfirmCommit, Finish, Idle
<1>5. CASE JournalStep
  <2>1. worker' = worker
    BY <1>5 DEF JournalStep, FlushStep, anchorVars, Record, AfterCommit, ApiCrash,
       SweepOrphans, Sweep, FlushStart, FlushPop, FlushSelect, FlushCommit, FlushDelay,
       FlushRelease, FlushCrash, LockExpires
  <2>2. QED
    BY <1>2, <2>1
<1>6. QED
  BY <1>2, <1>3, <1>4, <1>5, NextCases DEF vars, anchorVars

(* Which steps write event rows, and how. *)
LEMMA EventWrites ==
    ASSUME [Next]_vars
    PROVE  \/ event' = event
           \/ \E e \in Events : Record(e)
           \/ \E f \in Flushers : FlushCommit(f)
           \/ \E w \in Workers : ConfirmEvents(w)
BY DEF Next, FlushStep, vars, journalVars, AfterCommit, ApiCrash,
   SweepOrphans, Sweep, FlushStart, FlushPop, FlushSelect, FlushDelay,
   FlushRelease, FlushCrash, LockExpires

LEMMA ConfirmedIsAnchoredStep ==
    ASSUME TypeOK, AnchorInv, [Next]_vars
    PROVE  ConfirmedIsAnchored'
<1>1. Anchored \subseteq Anchored'
  BY AnchoredGrows
<1> SUFFICES ASSUME NEW e \in Events, event'[e].status = "confirmed"
             PROVE  event'[e].batch \in Anchored'
  BY DEF ConfirmedIsAnchored
<1> USE DEF TypeOK, JournalTypeOK
<1>2. CASE event'[e] = event[e]
  BY <1>1, <1>2 DEF AnchorInv, ConfirmedIsAnchored
<1>3. CASE \E d \in Events : Record(d)
  BY <1>2, <1>3 DEF Record
<1>4. CASE \E f \in Flushers : FlushCommit(f)
  <2>1. PICK f \in Flushers : FlushCommit(f)
    BY <1>4
  <2>2. event' = event \/ \E b \in Batches :
          event' = [d \in Events |-> IF d \in flusher[f].ids
                      THEN [status |-> "batched", batch |-> b] ELSE event[d]]
    BY <2>1 DEF FlushCommit
  <2>3. event'[e] = event[e] \/ event'[e].status = "batched"
    BY <2>2
  <2>4. QED
    BY <1>2, <2>3
<1>5. CASE \E w \in Workers : ConfirmEvents(w)
  <2>1. PICK w \in Workers : ConfirmEvents(w)
    BY <1>5
  <2>2. Row(w) \in Anchored
    BY <2>1 DEF ConfirmEvents, ConfirmCommit, AnchorInv, ConfirmSawAnchor
  <2>3. event'[e] = IF event[e].batch = Row(w)
                      THEN [event[e] EXCEPT !.status = "confirmed"] ELSE event[e]
    BY <2>1 DEF ConfirmEvents
  <2>4. event'[e].batch = event[e].batch
    BY <2>3
  <2>5. QED
    BY <1>1, <1>2, <2>2, <2>3, <2>4
<1>6. QED
  BY <1>2, <1>3, <1>4, <1>5, EventWrites

(* The chain icon is honest: an event is reported confirmed only when the  *)
(* transaction of its batch was executed, for any interleaving of submit,  *)
(* confirm, recheck, webhook and operator tasks, any crashes and even if   *)
(* the flush lock expires under a running flush (confirm_batch,            *)
(* src/worker/tasks/blockchain.py).                                        *)
THEOREM ConfirmedOnlyWhenAnchored == Spec => []ConfirmedIsAnchored
<1>1. Init => AnchorInv
  BY DEF Init, AnchorInit, AnchorInv, ConfirmSawAnchor, ConfirmedIsAnchored, At, Idle
<1>2. TypeOK /\ AnchorInv /\ [Next]_vars => AnchorInv'
  BY ConfirmSawAnchorStep, ConfirmedIsAnchoredStep DEF AnchorInv
<1>3. AnchorInv => ConfirmedIsAnchored
  BY DEF AnchorInv
<1>4. QED
  BY <1>1, <1>2, <1>3, TypeCorrect, PTL DEF Spec

----------------------------------------------------------------------------
(* One batch per event, as long as the lock outlives the flush *)

(* At most one flush is between SET NX and DEL, and what it has selected   *)
(* is still queued when it commits.                                        *)
FlushInv ==
    /\ \A f \in Flushers : ~FlushAt(f, "idle") => locked
    /\ \A f, g \in Flushers : ~FlushAt(f, "idle") /\ ~FlushAt(g, "idle") => f = g
    /\ \A f \in Flushers : FlushAt(f, "commit") =>
          flusher[f].ids # {} /\ flusher[f].ids \subseteq Queued

(* A row has a batch exactly when it has left the queue, and a batch that  *)
(* was never inserted covers nothing.                                      *)
SealInv ==
    /\ OneBatchPerEvent
    /\ \A e \in Events : event[e].status \in {"none", "queued"} <=> event[e].batch = NoBatch
    /\ \A b \in Batches : batch[b].status = "absent" => leaves[b] = {}

JournalInv == FlushInv /\ SealInv

(* What confirm_batch writes does not touch queued events. *)
LEMMA ConfirmKeepsQueued ==
    ASSUME TypeOK, SealInv, NEW w \in Workers, ConfirmEvents(w)
    PROVE  Queued' = Queued
<1>1. Row(w) \in Batches
  BY BusyWorker DEF TypeOK, ConfirmEvents, ConfirmCommit, At
<1>2. \A e \in Events : event'[e] = IF event[e].batch = Row(w)
                      THEN [event[e] EXCEPT !.status = "confirmed"] ELSE event[e]
  BY DEF ConfirmEvents
<1>3. ASSUME NEW e \in Events PROVE event'[e].status = "queued" <=> event[e].status = "queued"
  <2>1. CASE event[e].batch = Row(w)
    BY <1>1, <1>2, <2>1, NoBatchAssumption DEF SealInv, TypeOK, JournalTypeOK
  <2>2. CASE event[e].batch # Row(w)
    BY <1>2, <2>2
  <2>3. QED
    BY <2>1, <2>2
<1>4. QED
  BY <1>3 DEF Queued

(* flush_batch commits nothing, on a root already taken, or one new batch. *)
LEMMA FlushCommitCases ==
    ASSUME NEW f \in Flushers, FlushCommit(f)
    PROVE  \/ /\ UNCHANGED <<batch, event, leaves>>
              /\ flusher' = [flusher EXCEPT ![f].pc = "release"]
           \/ \E b \in Batches :
              /\ CreateBatch(b)
              /\ leaves' = [leaves EXCEPT ![b] = flusher[f].ids]
              /\ event' = [e \in Events |-> IF e \in flusher[f].ids
                             THEN [status |-> "batched", batch |-> b] ELSE event[e]]
              /\ flusher' = [flusher EXCEPT ![f] = [@ EXCEPT !.pc = "delay", !.batch = b]]
BY DEF FlushCommit

LEMMA FlushInvStep ==
    ASSUME LockCoversFlush, TypeOK, JournalInv, [Next]_vars
    PROVE  FlushInv'
<1> USE DEF FlushAt
<1>0. flusher \in [Flushers -> [pc : FlushSteps, ids : SUBSET Events,
                               batch : Batches \union {NoBatch}]]
  BY DEF TypeOK, JournalTypeOK
<1>1. CASE UNCHANGED <<flusher, locked>> /\ Queued \subseteq Queued'
  BY <1>1 DEF JournalInv, FlushInv
<1>2. ASSUME NEW f \in Flushers, FlushStart(f)
      PROVE  FlushInv'
  <2>1. \A g \in Flushers : flusher[g].pc = "idle"
    BY <1>2 DEF FlushStart, JournalInv, FlushInv
  <2>2. locked' /\ \A g \in Flushers : g # f => flusher'[g].pc = "idle"
    BY <1>0, <1>2, <2>1 DEF FlushStart
  <2>3. flusher'[f].pc = "pop"
    BY <1>0, <1>2 DEF FlushStart
  <2>4. QED
    BY <2>2, <2>3 DEF FlushInv
<1>3. ASSUME NEW f \in Flushers,
             FlushPop(f) \/ FlushSelect(f) \/ FlushCommit(f) \/ FlushDelay(f)
      PROVE  FlushInv'
  <2>1. flusher[f].pc # "idle" /\ locked /\ locked' = locked
    BY <1>3 DEF FlushPop, FlushSelect, FlushCommit, FlushDelay, JournalInv, FlushInv
  <2>2. \A g \in Flushers : g # f => flusher[g].pc = "idle"
    BY <2>1 DEF JournalInv, FlushInv
  <2>3. \A g \in Flushers : g # f => flusher'[g] = flusher[g]
    BY <1>0, <1>3 DEF FlushPop, FlushSelect, FlushCommit, FlushDelay
  <2>4. flusher'[f].pc = "commit" => flusher'[f].ids # {} /\ flusher'[f].ids \subseteq Queued'
    <3>1. CASE FlushSelect(f)
      <4>1. Queued' = Queued
        BY <3>1 DEF FlushSelect, Queued
      <4>2. flusher'[f].ids = flusher[f].ids \intersect Queued
        BY <1>0, <3>1 DEF FlushSelect
      <4>3. flusher'[f].pc = "commit" => flusher[f].ids \intersect Queued # {}
        BY <1>0, <3>1 DEF FlushSelect
      <4>4. QED
        BY <4>1, <4>2, <4>3
    <3>2. CASE FlushPop(f) \/ FlushDelay(f)
      BY <1>0, <3>2 DEF FlushPop, FlushDelay
    <3>3. CASE FlushCommit(f)
      <4>1. \/ flusher' = [flusher EXCEPT ![f].pc = "release"]
            \/ \E b \in Batches :
                 flusher' = [flusher EXCEPT ![f] = [@ EXCEPT !.pc = "delay", !.batch = b]]
        BY <3>3, FlushCommitCases
      <4>2. QED
        BY <1>0, <4>1
    <3>4. QED
      BY <1>3, <3>1, <3>2, <3>3
  <2>5. QED
    BY <2>1, <2>2, <2>3, <2>4 DEF FlushInv
<1>4. ASSUME NEW f \in Flushers, FlushRelease(f) \/ FlushCrash(f)
      PROVE  FlushInv'
  <2>1. flusher[f].pc # "idle" /\ flusher' = [flusher EXCEPT ![f] = Resting]
    BY <1>4 DEF FlushRelease, FlushCrash
  <2>2. \A g \in Flushers : g # f => flusher[g].pc = "idle"
    BY <2>1 DEF JournalInv, FlushInv
  <2>3. \A g \in Flushers : flusher'[g].pc = "idle"
    BY <1>0, <2>1, <2>2 DEF Resting
  <2>4. QED
    BY <2>3 DEF FlushInv
<1>5. CASE LockExpires
  <2>1. \A f \in Flushers : flusher'[f].pc = "idle"
    BY <1>5 DEF LockExpires
  <2>2. QED
    BY <2>1 DEF FlushInv
<1>6. CASE \E e \in Events : Record(e) \/ AfterCommit(e)
  <2>1. Queued \subseteq Queued'
    BY <1>6 DEF Record, AfterCommit, Queued, TypeOK, JournalTypeOK
  <2>2. QED
    BY <1>1, <1>6, <2>1 DEF Record, AfterCommit
<1>7. CASE ApiCrash \/ SweepOrphans \/ (AnchorStep /\ UNCHANGED journalVars) \/ UNCHANGED vars
  BY <1>1, <1>7 DEF ApiCrash, SweepOrphans, Sweep, journalVars, vars, Queued
<1>8. CASE \E w \in Workers : ConfirmEvents(w)
  BY <1>1, <1>8, ConfirmKeepsQueued DEF ConfirmEvents, JournalInv
<1>9. QED
  BY <1>2, <1>3, <1>4, <1>5, <1>6, <1>7, <1>8, NextCases DEF JournalStep, FlushStep

(* No step takes a batch row back to "absent". *)
LEMMA BatchesStay ==
    ASSUME TypeOK, [Next]_vars, NEW b \in Batches, batch'[b].status = "absent"
    PROVE  batch[b].status = "absent"
<1> USE DEF TypeOK, AnchorTypeOK
<1>1. CASE batch' = batch
  BY <1>1
<1>2. CASE AnchorStep
  <2>1. CASE \E w \in Workers : SubmitFails(w) \/ SubmitCommit(w)
    BY <2>1 DEF SubmitFails, SubmitCommit
  <2>2. CASE \E c \in Batches : RetryBatch(c)
    BY <2>2 DEF RetryBatch
  <2>3. QED
    BY <1>1, <1>2, <2>1, <2>2 DEF AnchorStep, WorkerStep, TakeSubmit, TakeConfirm, AnchorFind,
       AnchorSend, AnchorRaises, EnqueueConfirm, CheckConfirmed, CheckPending, CheckRaises,
       WorkerCrash, Webhook, RecheckSubmitted, Network
<1>3. CASE \E w \in Workers : ConfirmEvents(w)
  BY <1>3 DEF ConfirmEvents, ConfirmCommit
<1>4. CASE \E f \in Flushers : FlushCommit(f)
  BY <1>4, FlushCommitCases DEF CreateBatch
<1>5. QED
  BY <1>1, <1>2, <1>3, <1>4, NextCases DEF JournalStep, FlushStep, vars, anchorVars, Record,
     AfterCommit, ApiCrash, SweepOrphans, Sweep, FlushStart, FlushPop, FlushSelect, FlushDelay,
     FlushRelease, FlushCrash, LockExpires

(* Only the commit of flush_batch writes Merkle trees. *)
LEMMA LeavesWrites ==
    ASSUME [Next]_vars
    PROVE  leaves' = leaves \/ \E f \in Flushers : FlushCommit(f)
BY DEF Next, FlushStep, vars, journalVars, Record, AfterCommit, ApiCrash, SweepOrphans, Sweep,
   FlushStart, FlushPop, FlushSelect, FlushDelay, FlushRelease, FlushCrash, LockExpires,
   ConfirmEvents

LEMMA SealInvStep ==
    ASSUME TypeOK, JournalInv, [Next]_vars
    PROVE  SealInv'
<1> USE DEF TypeOK, JournalTypeOK, SealInv, JournalInv, OneBatchPerEvent
<1>1. CASE leaves' = leaves /\ event' = event
  BY <1>1, BatchesStay
<1>2. ASSUME NEW f \in Flushers, FlushCommit(f)
      PROVE  SealInv'
  <2>1. CASE UNCHANGED <<batch, event, leaves>>
    BY <2>1, <1>1
  <2>2. ASSUME NEW b \in Batches,
               CreateBatch(b),
               leaves' = [leaves EXCEPT ![b] = flusher[f].ids],
               event' = [e \in Events |-> IF e \in flusher[f].ids
                           THEN [status |-> "batched", batch |-> b] ELSE event[e]]
        PROVE  SealInv'
    <3>1. leaves[b] = {} /\ batch'[b].status = "pending"
      BY <2>2 DEF CreateBatch, AnchorTypeOK
    <3>2. \A e \in flusher[f].ids : event[e].batch = NoBatch
      <4>1. flusher[f].ids \subseteq Queued
        BY <1>2 DEF FlushCommit, FlushInv
      <4>2. QED
        BY <4>1 DEF Queued
    <3>3. \A e \in Events : event[e].batch # b
      BY <3>1
    <3>4. ASSUME NEW e \in Events, NEW c \in Batches
          PROVE  e \in leaves'[c] <=> event'[e].batch = c
      BY <2>2, <3>1, <3>2, <3>3, NoBatchAssumption
    <3>5. ASSUME NEW e \in Events
          PROVE  event'[e].status \in {"none", "queued"} <=> event'[e].batch = NoBatch
      BY <2>2, NoBatchAssumption
    <3>6. ASSUME NEW c \in Batches, batch'[c].status = "absent"
          PROVE  leaves'[c] = {}
      BY <2>2, <3>1, <3>6, BatchesStay
    <3>7. QED
      BY <3>4, <3>5, <3>6
  <2>3. QED
    BY <1>2, <2>1, <2>2, FlushCommitCases
<1>3. ASSUME NEW d \in Events, Record(d)
      PROVE  SealInv'
  <2>1. leaves' = leaves /\ event' = [event EXCEPT ![d].status = "queued"]
    BY <1>3 DEF Record
  <2>2. \A e \in Events : event'[e].batch = event[e].batch
    BY <2>1
  <2>3. \A e \in Events : event'[e].status \in {"none", "queued"}
                            <=> event[e].status \in {"none", "queued"}
    BY <1>3, <2>1 DEF Record
  <2>4. QED
    BY <2>1, <2>2, <2>3, BatchesStay
<1>4. ASSUME NEW w \in Workers, ConfirmEvents(w)
      PROVE  SealInv'
  <2>1. Row(w) \in Batches
    BY <1>4, BusyWorker DEF ConfirmEvents, ConfirmCommit, At
  <2>2. leaves' = leaves
    BY <1>4 DEF ConfirmEvents
  <2>3. ASSUME NEW e \in Events
        PROVE  /\ event'[e].batch = event[e].batch
               /\ event'[e].status \in {"none", "queued"} <=> event[e].status \in {"none", "queued"}
    <3>1. event'[e] = IF event[e].batch = Row(w)
                        THEN [event[e] EXCEPT !.status = "confirmed"] ELSE event[e]
      BY <1>4 DEF ConfirmEvents
    <3>2. CASE event[e].batch = Row(w)
      BY <2>1, <3>1, <3>2, NoBatchAssumption
    <3>3. CASE event[e].batch # Row(w)
      BY <3>1, <3>3
    <3>4. QED
      BY <3>2, <3>3
  <2>4. QED
    BY <2>2, <2>3, BatchesStay
<1>5. QED
  BY <1>1, <1>2, <1>3, <1>4, EventWrites, LeavesWrites DEF FlushCommit

(* If the 300 s of the flush lock outlast every flush that lives, an event *)
(* lies under the root of exactly one batch and its row names that batch:  *)
(* ids pushed twice by sweep_orphans, killed flushes and late Redis        *)
(* deletes change nothing (flush_batch, src/worker/tasks/blockchain.py).   *)
THEOREM EventsSealedOnce == ASSUME LockCoversFlush PROVE Spec => []OneBatchPerEvent
<1>1. Init => JournalInv
  BY NoBatchAssumption DEF Init, AnchorInit, JournalInv, FlushInv, SealInv, OneBatchPerEvent,
     FlushAt, Resting
<1>2. TypeOK /\ JournalInv /\ [Next]_vars => JournalInv'
  BY FlushInvStep, SealInvStep DEF JournalInv
<1>3. JournalInv => OneBatchPerEvent
  BY DEF JournalInv, SealInv
<1>4. QED
  BY <1>1, <1>2, <1>3, TypeCorrect, PTL DEF Spec

----------------------------------------------------------------------------
(* A batch is confirmed with all of its events *)

(* Only the commit of confirm_batch takes a row to "confirmed". *)
LEMMA RowConfirmedBy ==
    ASSUME TypeOK, [Next]_vars, NEW b \in Batches, batch'[b].status = "confirmed"
    PROVE  \/ batch[b].status = "confirmed"
           \/ \E w \in Workers : ConfirmEvents(w) /\ Row(w) = b
<1> USE DEF TypeOK, AnchorTypeOK
<1>1. CASE batch' = batch
  BY <1>1
<1>2. CASE AnchorStep
  <2>1. CASE \E w \in Workers : SubmitFails(w) \/ SubmitCommit(w)
    BY <2>1 DEF SubmitFails, SubmitCommit
  <2>2. CASE \E c \in Batches : RetryBatch(c)
    BY <2>2 DEF RetryBatch
  <2>3. QED
    BY <1>1, <1>2, <2>1, <2>2 DEF AnchorStep, WorkerStep, TakeSubmit, TakeConfirm, AnchorFind,
       AnchorSend, AnchorRaises, EnqueueConfirm, CheckConfirmed, CheckPending, CheckRaises,
       WorkerCrash, Webhook, RecheckSubmitted, Network
<1>3. CASE \E w \in Workers : ConfirmEvents(w)
  BY <1>3 DEF ConfirmEvents, ConfirmCommit
<1>4. CASE \E f \in Flushers : FlushCommit(f)
  <2>1. batch' = batch \/ \E c \in Batches : CreateBatch(c)
    BY <1>4, FlushCommitCases
  <2>2. QED
    BY <1>1, <2>1 DEF CreateBatch
<1>5. QED
  BY <1>1, <1>2, <1>3, <1>4, NextCases DEF JournalStep, FlushStep, vars, anchorVars, Record,
     AfterCommit, ApiCrash, SweepOrphans, Sweep, FlushStart, FlushPop, FlushSelect, FlushDelay,
     FlushRelease, FlushCrash, LockExpires

(* Under the lock no event is taken out of "confirmed" again. *)
LEMMA EventStaysConfirmed ==
    ASSUME TypeOK, JournalInv, [Next]_vars, NEW e \in Events, event[e].status = "confirmed"
    PROVE  event'[e].status = "confirmed"
<1> USE DEF TypeOK, JournalTypeOK
<1>1. CASE \E d \in Events : Record(d)
  BY <1>1 DEF Record
<1>2. CASE \E f \in Flushers : FlushCommit(f)
  <2>1. PICK f \in Flushers : FlushCommit(f)
    BY <1>2
  <2>2. e \notin flusher[f].ids
    BY <2>1 DEF FlushCommit, JournalInv, FlushInv, Queued
  <2>3. event' = event \/ \E b \in Batches :
          event' = [d \in Events |-> IF d \in flusher[f].ids
                      THEN [status |-> "batched", batch |-> b] ELSE event[d]]
    BY <2>1, FlushCommitCases
  <2>4. QED
    BY <2>2, <2>3
<1>3. CASE \E w \in Workers : ConfirmEvents(w)
  BY <1>3 DEF ConfirmEvents
<1>4. QED
  BY <1>1, <1>2, <1>3, EventWrites

LEMMA ConfirmedWholeStep ==
    ASSUME TypeOK, JournalInv, ConfirmedBatchIsWhole, [Next]_vars
    PROVE  ConfirmedBatchIsWhole'
<1> USE DEF TypeOK, JournalTypeOK
<1> SUFFICES ASSUME NEW b \in Batches, batch'[b].status = "confirmed", NEW e \in leaves'[b]
             PROVE  event'[e].status = "confirmed"
  BY DEF ConfirmedBatchIsWhole
<1>1. CASE \E w \in Workers : ConfirmEvents(w) /\ Row(w) = b
  <2>1. leaves' = leaves
    BY <1>1 DEF ConfirmEvents
  <2>2. e \in Events /\ event[e].batch = b
    BY <2>1 DEF JournalInv, SealInv, OneBatchPerEvent
  <2>3. QED
    BY <1>1, <2>2 DEF ConfirmEvents
<1>2. CASE batch[b].status = "confirmed"
  <2>1. leaves'[b] = leaves[b]
    BY <1>2, LeavesWrites, FlushCommitCases DEF CreateBatch
  <2>2. e \in Events /\ event[e].status = "confirmed"
    BY <1>2, <2>1 DEF ConfirmedBatchIsWhole
  <2>3. QED
    BY <2>2, EventStaysConfirmed
<1>3. QED
  BY <1>1, <1>2, RowConfirmedBy

(* confirm_batch reports a batch with every event under its root, however  *)
(* submit, confirm and flush tasks of the same batch are interleaved.      *)
THEOREM BatchConfirmedWhole ==
    ASSUME LockCoversFlush PROVE Spec => []ConfirmedBatchIsWhole
<1>1. Init => JournalInv /\ ConfirmedBatchIsWhole
  BY NoBatchAssumption DEF Init, AnchorInit, JournalInv, FlushInv, SealInv, OneBatchPerEvent,
     FlushAt, Resting, ConfirmedBatchIsWhole
<1>2. TypeOK /\ JournalInv /\ ConfirmedBatchIsWhole /\ [Next]_vars
        => JournalInv' /\ ConfirmedBatchIsWhole'
  BY FlushInvStep, SealInvStep, ConfirmedWholeStep DEF JournalInv
<1>3. QED
  BY <1>1, <1>2, TypeCorrect, PTL DEF Spec

----------------------------------------------------------------------------
(* The journal implements its abstract specification *)

LEMMA AnchoredAfterLand ==
    ASSUME TypeOK, NEW c \in inflight, chain' = Append(chain, c)
    PROVE  Anchored' = Anchored \union {c}
<1>1. chain \in Seq(Comments \union {Foreign}) /\ c \in Comments \union {Foreign}
  BY DEF TypeOK, AnchorTypeOK, WalletTypeOK
<1>2. DOMAIN chain' = DOMAIN chain \union {Len(chain) + 1}
  BY <1>1
<1>3. chain'[Len(chain) + 1] = c /\ \A i \in DOMAIN chain : chain'[i] = chain[i]
  BY <1>1
<1>4. QED
  BY <1>2, <1>3 DEF Anchored

(* Which steps write the chain. *)
LEMMA ChainWrites ==
    ASSUME [Next]_vars
    PROVE  \/ chain' = chain
           \/ /\ \E c \in inflight : chain' = Append(chain, c)
              /\ UNCHANGED <<event, leaves>>
BY DEF Next, AnchorStep, WorkerStep, FlushStep, vars, anchorVars, journalVars, walletVars,
   Record, AfterCommit, ApiCrash, SweepOrphans, Sweep, FlushStart, FlushPop, FlushSelect,
   FlushCommit, FlushDelay, FlushRelease, FlushCrash, LockExpires, ConfirmEvents,
   ConfirmCommit, TakeSubmit, TakeConfirm, AnchorFind, AnchorSend, AnchorRaises, SendBoc,
   SubmitFails, SubmitCommit, EnqueueConfirm, CheckConfirmed, CheckPending, CheckRaises,
   WorkerCrash, RetryBatch, Webhook, RecheckSubmitted, Network, Land, Drop, ForeignTransfer

LEMMA StepImplements ==
    ASSUME TypeOK, AnchorInv, JournalInv, [Next]_vars
    PROVE  [J!Next]_(J!vars)
<1> USE DEF TypeOK, JournalTypeOK
<1>1. CASE chain' = chain /\ event' = event /\ leaves' = leaves
  BY <1>1 DEF J!vars, Anchored
<1>2. ASSUME NEW e \in Events, Record(e)
      PROVE  J!Next
  <2>1. Anchored' = Anchored /\ leaves' = leaves
    BY <1>2 DEF Record, anchorVars, Anchored
  <2>2. J!Record(e)
    BY <1>2, <2>1 DEF Record, J!Record
  <2>3. QED
    BY <2>2 DEF J!Next
<1>3. ASSUME NEW f \in Flushers, FlushCommit(f)
      PROVE  [J!Next]_(J!vars)
  <2>0. chain' = chain
    BY <1>3 DEF FlushCommit, walletVars
  <2>1. chain' = chain /\ Anchored' = Anchored
    BY <2>0 DEF Anchored
  <2>2. CASE UNCHANGED <<event, leaves>>
    BY <1>1, <2>1, <2>2
  <2>3. ASSUME NEW b \in Batches, NEW S \in SUBSET Events,
               S = flusher[f].ids,
               CreateBatch(b),
               leaves' = [leaves EXCEPT ![b] = S],
               event' = [e \in Events |-> IF e \in S
                           THEN [status |-> "batched", batch |-> b] ELSE event[e]]
        PROVE  J!Next
    <3>1. S # {} /\ S \subseteq Queued
      BY <1>3, <2>3 DEF FlushCommit, JournalInv, FlushInv
    <3>2. leaves[b] = {}
      BY <2>3 DEF CreateBatch, JournalInv, SealInv
    <3>3. \A e \in S : e \in Events /\ event[e].status = "queued"
      BY <3>1 DEF Queued
    <3>4. [e \in Events |-> event'[e].status] =
            [e \in Events |-> IF e \in S THEN "batched"
                              ELSE [d \in Events |-> event[d].status][e]]
      BY <2>3
    <3>5. J!Seal(b, S)
      BY <2>1, <2>3, <3>1, <3>2, <3>3, <3>4 DEF J!Seal
    <3>6. QED
      BY <3>5 DEF J!Next
  <2>4. QED
    BY <1>3, <2>2, <2>3, FlushCommitCases
<1>4. ASSUME NEW w \in Workers, NEW b \in Batches, b = Row(w), ConfirmEvents(w)
      PROVE  J!Next
  <2>1. Row(w) \in Batches
    BY <1>4
  <2>2. Row(w) \in Anchored /\ Row(w) # Foreign
    BY <1>4, <2>1, ForeignAssumption, BatchesAssumption
       DEF ConfirmEvents, ConfirmCommit, AnchorInv, ConfirmSawAnchor
  <2>3. Anchored' = Anchored /\ leaves' = leaves
    BY <1>4 DEF ConfirmEvents, ConfirmCommit, walletVars, Anchored
  <2>4. \A e \in Events : event'[e].status =
          IF e \in leaves[Row(w)] THEN "confirmed" ELSE event[e].status
    <3>1. \A e \in Events : event'[e] = IF event[e].batch = Row(w)
                               THEN [event[e] EXCEPT !.status = "confirmed"] ELSE event[e]
      BY <1>4 DEF ConfirmEvents
    <3>2. \A e \in Events : e \in leaves[Row(w)] <=> event[e].batch = Row(w)
      BY <2>1 DEF JournalInv, SealInv, OneBatchPerEvent
    <3>3. QED
      BY <3>1, <3>2
  <2>5. J!Confirm(b)
    BY <1>4, <2>2, <2>3, <2>4 DEF J!Confirm
  <2>6. QED
    BY <2>5 DEF J!Next
<1>5. ASSUME NEW c \in inflight, chain' = Append(chain, c), UNCHANGED <<event, leaves>>
      PROVE  [J!Next]_(J!vars)
  <2>1. Anchored' = Anchored \union {c}
    BY <1>5, AnchoredAfterLand
  <2>2. CASE c = Foreign
    BY <1>5, <2>1, <2>2 DEF J!vars
  <2>3. CASE c # Foreign
    <3>1. c \in Batches
      BY <2>3, BatchesAssumption DEF AnchorTypeOK, WalletTypeOK
    <3>2. J!Anchor(c)
      BY <1>5, <2>1, <2>3 DEF J!Anchor
    <3>3. QED
      BY <3>1, <3>2 DEF J!Next
  <2>4. QED
    BY <2>2, <2>3
<1>6. QED
  <2>1. CASE \E e \in Events : Record(e)
    BY <2>1, <1>2
  <2>2. CASE \E f \in Flushers : FlushCommit(f)
    BY <2>2, <1>3
  <2>3. ASSUME NEW w \in Workers, ConfirmEvents(w)
        PROVE  J!Next
    <3>1. Row(w) \in Batches
      BY <2>3, BusyWorker DEF ConfirmEvents, ConfirmCommit, At
    <3>2. QED
      BY <2>3, <3>1, <1>4
  <2>4. CASE event' = event /\ leaves' = leaves
    BY <2>4, <1>1, <1>5, ChainWrites
  <2>5. QED
    BY <2>1, <2>2, <2>3, <2>4, EventWrites, LeavesWrites

(* The journal with its retries, crashes, duplicate messages and blind row *)
(* writes keeps the abstract promise: queued, sealed once, anchored, then  *)
(* confirmed as a whole batch and never anything less afterwards.          *)
THEOREM JournalRefinement == ASSUME LockCoversFlush PROVE Spec => ImplementsJournal
<1>1. Init => AnchorInv /\ JournalInv
  BY NoBatchAssumption DEF Init, AnchorInit, JournalInv, FlushInv, SealInv, OneBatchPerEvent,
     FlushAt, Resting, AnchorInv, ConfirmSawAnchor, ConfirmedIsAnchored, At, Idle
<1>2. Init => J!Init
  BY DEF Init, AnchorInit, WalletInit, J!Init, Anchored
<1>3. TypeOK /\ AnchorInv /\ JournalInv /\ [Next]_vars => AnchorInv' /\ JournalInv'
  BY ConfirmSawAnchorStep, ConfirmedIsAnchoredStep, FlushInvStep, SealInvStep
     DEF AnchorInv, JournalInv
<1>4. TypeOK /\ AnchorInv /\ JournalInv /\ [Next]_vars => [J!Next]_(J!vars)
  BY StepImplements
<1>5. QED
  BY <1>1, <1>2, <1>3, <1>4, TypeCorrect, PTL DEF Spec, ImplementsJournal, J!Spec

=============================================================================
