------------------------------- MODULE Pairing --------------------------------
(***************************************************************************)
(* Connecting a device by a QR code: a record in Redis that an active      *)
(* device of the account approves, a session that its completion issues,   *)
(* and the quota of codes of one address.                                  *)
(*                                                                         *)
(*   DevicePairingService  src/backend/app/services/device_pairing_service.py *)
(*                                                                         *)
(* Every change of a record is a WATCH/MULTI transaction, so one step.     *)
(* Completion spans two stores: it locks the account, finalises the record *)
(* and only then commits the session.  One account and one address are     *)
(* modelled: inspect, which binds a record to the account that scanned it, *)
(* changes nothing then.                                                   *)
(***************************************************************************)
EXTENDS Sessions

CONSTANT Limit      \* GENERATION_LIMIT

ASSUME LimitAssumption == Limit \in Nat

VARIABLES
    pairing,    \* pairing[r]: the status of the record pairing:r
    refund,     \* refund[r]: its quota_refund_pending, or a cancel call that
                \* has yet to return the slot
    slot        \* slot[r]: the attempt of r in device_pairing_quotas

pairingVars == <<pairing, refund, slot>>
vars == <<device, token, job, late, out, clobbered, pairing, refund, slot>>

Open == {"pending", "approved", "completed"}

PairingJobs == [op : {"complete", "issue"}, device : Requests]

TypeOK ==
    /\ TypeOKSessions
    /\ pairing \in [Requests -> Open \union {"none", "rejected", "expired"}]
    /\ refund \in [Requests -> BOOLEAN]
    /\ slot \in [Requests -> {"none", "held", "released", "aged"}]
    /\ job \in [Slots -> SessionJobs \union PairingJobs]

Init ==
    /\ InitSessions
    /\ pairing = [r \in Requests |-> "none"]
    /\ refund = [r \in Requests |-> FALSE]
    /\ slot = [r \in Requests |-> "none"]

SetStatus(r, status) == pairing' = [pairing EXCEPT ![r] = status]
SetSlot(r, state) == slot' = [slot EXCEPT ![r] = state]

----------------------------------------------------------------------------
(* create: a slot is reserved, then the record is written *)

Held == {r \in Requests : slot[r] = "held"}

Reserve(r) ==
    /\ slot[r] = "none" /\ Cardinality(Held) < Limit
    /\ SetSlot(r, "held")
    /\ UNCHANGED <<sessionVars, job, pairing, refund>>

Create(r) ==
    /\ slot[r] = "held" /\ pairing[r] = "none"
    /\ SetStatus(r, "pending")
    /\ UNCHANGED <<sessionVars, job, refund, slot>>

(* Redis refuses the record: the slot is given back. *)
CreateFails(r) ==
    /\ slot[r] = "held" /\ pairing[r] = "none"
    /\ SetSlot(r, "released")
    /\ UNCHANGED <<sessionVars, job, pairing, refund>>

(* The window of the quota and the life of the record, TTL seconds each. *)
Age(r) ==
    /\ slot[r] = "held"
    /\ SetSlot(r, "aged")
    /\ UNCHANGED <<sessionVars, job, pairing, refund>>

Expire(r) ==
    /\ pairing[r] \in Open
    /\ SetStatus(r, "expired")
    /\ UNCHANGED <<sessionVars, job, refund, slot>>

----------------------------------------------------------------------------
(* approve, reject: by a device of the account *)

Review(r, status) ==
    /\ \E t \in Tokens : Accepted(t)
    /\ pairing[r] = "pending"
    /\ SetStatus(r, status)
    /\ UNCHANGED <<sessionVars, job, refund, slot>>

(* cancel: by the browser that shows the code.  Only a code that nobody    *)
(* had answered gives its slot back; a repeated cancel finds the mark.     *)
Cancel(r) ==
    /\ pairing[r] \in {"pending", "approved", "rejected"}
    /\ SetStatus(r, "rejected")
    /\ refund' = [refund EXCEPT ![r] = @ \/ pairing[r] = "pending"]
    /\ UNCHANGED <<sessionVars, job, slot>>

(* Mutant of Attempts: the oldest attempt goes, whichever request it was.  *)
AttemptsOfAnyone(r) == Held

(* release_generation removes the attempt with this request_id. *)
Attempts(r) == Held \intersect {r}

Release(r) ==
    /\ refund[r]
    /\ IF Attempts(r) = {} THEN UNCHANGED slot
                           ELSE \E q \in Attempts(r) : SetSlot(q, "released")
    /\ UNCHANGED <<sessionVars, job, pairing, refund>>

ClearRefund(r) ==
    /\ refund[r] /\ slot[r] # "held"
    /\ refund' = [refund EXCEPT ![r] = FALSE]
    /\ UNCHANGED <<sessionVars, job, pairing, slot>>

----------------------------------------------------------------------------
(* complete *)

Completable == {"approved", "completed"}

(* The record is read before the account is locked ... *)
CompleteRead(s, r) ==
    /\ pairing[r] \in Completable
    /\ Begin(s, [op |-> "complete", device |-> r])
    /\ UNCHANGED <<sessionVars, pairingVars>>

(* Mutant of StillCompletable: the first read is trusted.                  *)
ReadCompletable(r) == pairing[r] # "expired"

StillCompletable(r) == pairing[r] \in Completable

(* ... and again under the lock.  A device that is there has its session   *)
(* already, whose credentials are given out again if nothing touched it.   *)
CompleteFinalise(s) ==
    LET r == job[s].device
    IN  /\ job[s].op = "complete"
        /\ UserFree
        /\ StillCompletable(r)
        /\ r \notin Known
        /\ SetStatus(r, "completed")
        /\ job' = [job EXCEPT ![s].op = "issue"]
        /\ UNCHANGED <<sessionVars, refund, slot>>

(* prepare_pairing_session and the commit.  A commit that fails is Drop:   *)
(* the record stays completed and the browser may complete it again.       *)
CompleteCommit(s, t) ==
    LET r == job[s].device
    IN  /\ job[s].op = "issue"
        /\ t \notin Issued
        /\ device' = [device EXCEPT ![r] = NewDevice]
        /\ token' = Insert(token, t, r)
        /\ End(s)
        /\ UNCHANGED <<late, out, clobbered, pairingVars>>

----------------------------------------------------------------------------
PairingStep ==
    \/ \E r \in Requests :
         \/ Reserve(r) \/ Create(r) \/ CreateFails(r) \/ Age(r) \/ Expire(r)
         \/ Review(r, "approved") \/ Review(r, "rejected")
         \/ Cancel(r) \/ Release(r) \/ ClearRefund(r)
         \/ \E s \in Slots : CompleteRead(s, r)
    \/ \E s \in Slots :
         CompleteFinalise(s) \/ \E t \in Tokens : CompleteCommit(s, t)

Next ==
    \/ SessionStep /\ UNCHANGED pairingVars
    \/ PairingStep

Spec == Init /\ [][Next]_vars

----------------------------------------------------------------------------
(* A request that was rejected or cancelled never connects a device, also  *)
(* when a completion had read it while it was approved.                    *)
RejectedStaysOut ==
    [][\A r \in Requests :
         pairing[r] = "rejected" => pairing'[r] = "rejected" /\ r \notin Known']_vars

(* A code in use counts against the quota for as long as it is young:      *)
(* whoever cancels, how often, and whatever dies in between, a slot that   *)
(* is given back is the slot of a code that was cancelled.                 *)
OpenCodeIsCounted ==
    \A r \in Requests : pairing[r] \in Open => slot[r] \in {"held", "aged"}

=============================================================================
