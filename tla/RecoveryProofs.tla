---------------------------- MODULE RecoveryProofs ----------------------------
(***************************************************************************)
(* Proofs about the two ways to an account's keys on a new device.  For    *)
(* any number of backups, devices, realms and runs of recover, a recovery  *)
(* gives the key of the ciphertext, counts every wrong passcode and does   *)
(* not call the right one wrong (KeyBackup).  For any number of pairing    *)
(* codes the page of a new device leaves none of them, no session and no   *)
(* vault behind (PairingPage).                                             *)
(*                                                                         *)
(* RecoverySound is not inductive.  CountedInv says where a wrong passcode *)
(* is that Redis has not counted yet: with the run that will count it.     *)
(* ShareInv says why a whole backup has its own shares: an older one never *)
(* replaces a newer, and every realm that is done with has the latest.     *)
(***************************************************************************)
EXTENDS KeyBackup, PairingPage, FiniteSetTheorems, TLAPS

USE BackupAssumption

(* Shares and recoveries are of backups that were made. *)
ShareInv ==
    /\ \A v \in Versions : task[v].turns > 0 => v <= latest
    /\ \A r \in Realms : share[r].version <= latest
    /\ latest > 0 => \A r \in Realms \ task[latest].left : share[r].version = latest
    /\ \A d \in Devices : restore[d] \in Asking \union Ended => restore[d].version <= latest

(* What a recovery was given is of its own version. *)
OpenInv ==
    \A d \in Devices : restore[d].pc \in {"running", "done"} =>
        \A x \in restore[d].opened : x[2] = restore[d].version

(* The runs that a realm found wrong and that are still to be counted. *)
Uncounted == {d \in Devices : restore[d].pc = "running" /\ restore[d].refused /\ restore[d].keyed = latest}

CountedInv ==
    /\ failures <= Tries - 1
    /\ wrong <= failures + Cardinality(Uncounted)
    /\ \A d \in Devices : restore[d].pc = "running" /\ restore[d].asked = {} => ~restore[d].refused

(* Only another passcode is refused while the backup is whole. *)
FairInv ==
    \A d \in Devices :
      /\ restore[d].pc = "running" /\ restore[d].refused /\ restore[d].fair
           => restore[d].code # code[restore[d].version]
      /\ restore[d].pc = "wrong_pin" => restore[d].code # code[restore[d].version] \/ ~restore[d].fair

BackupInv == BackupTypeOK /\ ShareInv /\ OpenInv /\ CountedInv /\ FairInv

(* The numbers among the constants. *)
LEMMA BackupBounds ==
    Tries \in Nat /\ Tries > 0 /\ MaxVersions \in Nat /\ MaxGuesses \in Nat /\ MaxTurns \in Nat
OBVIOUS


----------------------------------------------------------------------------
(* Recovery requests *)

(* A request has the fields of its step. *)
LEMMA RequestFields ==
    ASSUME BackupTypeOK, NEW d \in Devices
    PROVE  /\ restore[d] \in {Rest, Refusal} \union Asking \union Ended
           /\ restore[d].pc = "running" => restore[d] \in Asking
           /\ restore[d].pc \in {"done", "wrong_pin"} => restore[d] \in Ended
<1>1. restore[d] \in {Rest, Refusal} \union Asking \union Ended
  BY DEF BackupTypeOK
<1> QED BY <1>1 DEF Rest, Refusal, Asking, Ended

(* One request goes on, the others stay. *)
LEMMA Replaced ==
    ASSUME BackupTypeOK, NEW d \in Devices, NEW x \in {Rest, Refusal} \union Asking \union Ended,
           restore' = [restore EXCEPT ![d] = x]
    PROVE  /\ restore' \in [Devices -> {Rest, Refusal} \union Asking \union Ended]
           /\ restore'[d] = x /\ \A e \in Devices : e # d => restore'[e] = restore[e]
BY DEF BackupTypeOK

(* The sets of runs are finite. *)
LEMMA UncountedFinite ==
    IsFiniteSet(Uncounted) /\ Cardinality(Uncounted) \in Nat
BY FS_Subset, FS_CardinalityType DEF Uncounted

(* How many are uncounted when one request goes on. *)
LEMMA UncountedChanges ==
    ASSUME NEW d \in Devices, latest' = latest,
           \A e \in Devices : e # d => restore'[e] = restore[e]
    PROVE  /\ Cardinality(Uncounted') \in Nat
           /\ (d \in Uncounted <=> d \in Uncounted') => Cardinality(Uncounted') = Cardinality(Uncounted)
           /\ d \in Uncounted /\ d \notin Uncounted' => Cardinality(Uncounted') = Cardinality(Uncounted) - 1
           /\ d \in Uncounted' /\ d \notin Uncounted => Cardinality(Uncounted') = Cardinality(Uncounted) + 1
<1>1. \A e \in Devices : e # d => (e \in Uncounted' <=> e \in Uncounted)
  BY DEF Uncounted
<1>2. Uncounted \subseteq Devices /\ Uncounted' \subseteq Devices
  BY DEF Uncounted
<1>3. IsFiniteSet(Uncounted) /\ Cardinality(Uncounted) \in Nat
  BY UncountedFinite
<1>4. CASE d \in Uncounted /\ d \in Uncounted'
  <2>1. Uncounted' = Uncounted
    BY <1>1, <1>2, <1>4
  <2> QED BY <1>3, <1>4, <2>1
<1>5. CASE d \notin Uncounted /\ d \notin Uncounted'
  <2>1. Uncounted' = Uncounted
    BY <1>1, <1>2, <1>5
  <2> QED BY <1>3, <1>5, <2>1
<1>6. CASE d \in Uncounted /\ d \notin Uncounted'
  <2>1. Uncounted' = Uncounted \ {d}
    BY <1>1, <1>2, <1>6
  <2>2. Cardinality(Uncounted') = Cardinality(Uncounted) - 1 /\ Cardinality(Uncounted') \in Nat
    BY <1>3, <1>6, <2>1, FS_RemoveElement, FS_CardinalityType
  <2> QED BY <1>3, <1>6, <2>2
<1>7. CASE d \notin Uncounted /\ d \in Uncounted'
  <2>1. Uncounted' = Uncounted \union {d}
    BY <1>1, <1>2, <1>7
  <2>2. Cardinality(Uncounted') = Cardinality(Uncounted) + 1
    BY <1>3, <1>7, <2>1, FS_AddElement
  <2> QED BY <1>3, <1>7, <2>2
<1> QED BY <1>4, <1>5, <1>6, <1>7

(* A request that goes on, of the same backup: what each part of the       *)
(* invariant asks of it.                                                   *)
LEMMA RequestStep ==
    ASSUME BackupInv, NEW d \in Devices, NEW x \in {Rest, Refusal} \union Asking \union Ended,
           restore' = [restore EXCEPT ![d] = x], UNCHANGED <<code, latest>>,
           x \in Asking \union Ended => x.version <= latest
    PROVE  /\ restore' \in [Devices -> {Rest, Refusal} \union Asking \union Ended]
           /\ \A e \in Devices : restore'[e] \in Asking \union Ended => restore'[e].version <= latest'
           /\ (x.pc \in {"running", "done"} => \A y \in x.opened : y[2] = x.version) => OpenInv'
           /\ (/\ x.pc = "running" /\ x.refused /\ x.fair => x.code # code[x.version]
               /\ x.pc = "wrong_pin" => x.code # code[x.version] \/ ~x.fair) => FairInv'
           /\ (x.pc = "running" /\ x.asked = {} => ~x.refused) =>
                 \A e \in Devices : restore'[e].pc = "running" /\ restore'[e].asked = {} => ~restore'[e].refused
           /\ d \in Uncounted' <=> x.pc = "running" /\ x.refused /\ x.keyed = latest
           /\ \A e \in Devices : e # d => restore'[e] = restore[e]
<1>1. /\ restore' \in [Devices -> {Rest, Refusal} \union Asking \union Ended]
      /\ restore'[d] = x /\ \A e \in Devices : e # d => restore'[e] = restore[e]
  BY Replaced DEF BackupInv
<1>2. \A e \in Devices : restore'[e] \in Asking \union Ended => restore'[e].version <= latest'
  BY <1>1 DEF BackupInv, ShareInv
<1>3. (x.pc \in {"running", "done"} => \A y \in x.opened : y[2] = x.version) => OpenInv'
  BY <1>1 DEF BackupInv, OpenInv
<1>4. (/\ x.pc = "running" /\ x.refused /\ x.fair => x.code # code[x.version]
       /\ x.pc = "wrong_pin" => x.code # code[x.version] \/ ~x.fair) => FairInv'
  BY <1>1 DEF BackupInv, FairInv
<1>5. (x.pc = "running" /\ x.asked = {} => ~x.refused) =>
          \A e \in Devices : restore'[e].pc = "running" /\ restore'[e].asked = {} => ~restore'[e].refused
  BY <1>1 DEF BackupInv, CountedInv
<1>6. d \in Uncounted' <=> x.pc = "running" /\ x.refused /\ x.keyed = latest
  BY <1>1 DEF Uncounted
<1> QED BY <1>1, <1>2, <1>3, <1>4, <1>5, <1>6


----------------------------------------------------------------------------
(* The backup and its shares *)

(* A new backup: nothing of an older one counts. *)
LEMMA BackupKeysStep ==
    ASSUME BackupInv, NEW c \in Passcodes, BackupKeys(c)
    PROVE  BackupInv'
<1>0. /\ BackupTypeOK /\ ShareInv /\ OpenInv /\ CountedInv /\ FairInv
      /\ latest \in Nat /\ latest' = latest + 1 /\ latest' \in Versions
      /\ UNCHANGED <<share, restore, deviceLock, runs>>
  BY DEF BackupInv, BackupTypeOK, BackupKeys, Versions
<1>1. code' \in [1 .. latest' -> Passcodes] /\ \A v \in 1 .. latest : code'[v] = code[v]
  BY <1>0 DEF BackupKeys, BackupTypeOK
<1>2. /\ task' \in [Versions -> [left : SUBSET Realms, turns : 0 .. MaxTurns]]
      /\ task'[latest'].left = Realms /\ \A v \in Versions : v # latest' => task'[v] = task[v]
  BY <1>0 DEF BackupKeys, BackupTypeOK
<1>3. BackupTypeOK'
  <2>1. failures' \in 0 .. Tries /\ recoveryLock' \in BOOLEAN /\ wrong' \in Nat /\ latest' \in 0 .. MaxVersions
    <3>1. failures' = 0 /\ recoveryLock' = FALSE /\ wrong' = 0
      BY DEF BackupKeys
    <3>2. 0 \in 0 .. Tries
      BY BackupBounds
    <3>3. latest' \in 0 .. MaxVersions
      BY <1>0, BackupBounds DEF Versions
    <3> QED BY <3>1, <3>2, <3>3
  <2> QED BY <1>0, <1>1, <1>2, <2>1 DEF BackupTypeOK
<1>4. ShareInv'
  <2>1. \A r \in Realms : share[r].version \in Nat
    BY <1>0 DEF BackupTypeOK
  <2>2. \A d \in Devices : restore[d] \in Asking \union Ended => restore[d].version \in Nat
    BY DEF Asking, Ended, Versions
  <2> QED BY <1>0, <1>2, <2>1, <2>2 DEF ShareInv, Versions
<1>5. OpenInv'
  BY <1>0 DEF OpenInv
<1>6. CountedInv'
  <2>1. Cardinality(Uncounted') \in Nat
    BY FS_Subset, FS_CardinalityType DEF Uncounted
  <2>2. wrong' = 0 /\ failures' = 0
    BY DEF BackupKeys
  <2> QED BY <1>0, <2>1, <2>2 DEF CountedInv
<1>7. FairInv'
  <2>1. \A d \in Devices : restore[d].pc \in {"running", "wrong_pin"} =>
           restore[d].version \in 1 .. latest
    BY <1>0, RequestFields DEF ShareInv, Asking, Ended, Versions
  <2> QED BY <1>0, <1>1, <2>1 DEF FairInv
<1> QED BY <1>3, <1>4, <1>5, <1>6, <1>7 DEF BackupInv

(* The requests of the steps of store_shares and of the lock: none changes. *)
LEMMA RequestsStay ==
    ASSUME BackupInv, UNCHANGED <<code, latest, failures, wrong, restore>>
    PROVE  OpenInv' /\ CountedInv' /\ FairInv'
BY DEF BackupInv, OpenInv, CountedInv, FairInv, Uncounted

(* A share reaches a realm. *)
LEMMA StoreShareStep ==
    ASSUME BackupInv, NEW v \in Versions, NEW r \in Realms, StoreShare(v, r)
    PROVE  BackupInv'
<1>0. /\ BackupTypeOK /\ ShareInv /\ v <= latest /\ latest \in Nat /\ v \in Nat
      /\ UNCHANGED <<code, latest, failures, recoveryLock, wrong, restore, deviceLock, runs>>
      /\ \A q \in Realms : share[q].version \in Nat
  BY DEF BackupInv, BackupTypeOK, ShareInv, StoreShare, Versions, recoveryVars
<1>1. /\ share' \in [Realms -> [version : 0 .. MaxVersions, attempts : 0 .. Tries, locked : BOOLEAN]]
      /\ \A q \in Realms : q # r => share'[q] = share[q]
      /\ share'[r].version = IF v >= share[r].version THEN v ELSE share[r].version
  <2>1. CASE Stored(r, v)
    <3>1. share' = [share EXCEPT ![r] = Share(v)]
      BY <2>1 DEF StoreShare
    <3> QED BY <1>0, <2>1, <3>1 DEF BackupTypeOK, Stored, Share, Versions
  <2>2. CASE ~Stored(r, v)
    BY <1>0, <2>2 DEF BackupTypeOK, StoreShare, Stored
  <2> QED BY <2>1, <2>2
<1>2. /\ task' \in [Versions -> [left : SUBSET Realms, turns : 0 .. MaxTurns]]
      /\ task'[v].left = task[v].left \ {r} /\ \A w \in Versions : w # v => task'[w] = task[w]
      /\ \A w \in Versions : task'[w].turns = task[w].turns
  BY <1>0 DEF BackupTypeOK, StoreShare
<1>3. BackupTypeOK'
  BY <1>0, <1>1, <1>2 DEF BackupTypeOK
<1>4. ShareInv'
  <2>1. latest > 0 => \A q \in Realms \ task'[latest].left : share'[q].version = latest
    <3> SUFFICES ASSUME latest > 0, NEW q \in Realms, q \notin task'[latest].left
                 PROVE  share'[q].version = latest
      OBVIOUS
    <3>1. latest \in Versions /\ share[q].version <= latest
      BY <1>0 DEF BackupTypeOK, Versions, ShareInv
    <3>2. CASE q = r /\ v = latest
      BY <1>0, <1>1, <3>1, <3>2
    <3>3. CASE ~(q = r /\ v = latest)
      <4>1. q \notin task[latest].left
        BY <1>2, <3>1, <3>3
      <4> QED BY <1>0, <1>1, <3>3, <4>1 DEF ShareInv
    <3> QED BY <3>2, <3>3
  <2> QED BY <1>0, <1>1, <1>2, <2>1 DEF ShareInv
<1> QED BY <1>0, <1>3, <1>4, RequestsStay DEF BackupInv

LEMMA StoreRetriedStep ==
    ASSUME BackupInv, NEW v \in Versions, StoreRetried(v)
    PROVE  BackupInv'
<1>0. /\ BackupTypeOK /\ ShareInv /\ task[v].turns > 0 /\ latest \in Nat
      /\ UNCHANGED <<code, latest, share, failures, recoveryLock, wrong, restore, deviceLock, runs>>
  BY DEF BackupInv, BackupTypeOK, StoreRetried, recoveryVars
<1>1. /\ task' \in [Versions -> [left : SUBSET Realms, turns : 0 .. MaxTurns]]
      /\ \A w \in Versions : task'[w].left = task[w].left /\ task'[w].turns <= task[w].turns
      /\ \A w \in Versions : task[w].turns \in Nat /\ task'[w].turns \in Nat
  BY <1>0 DEF BackupTypeOK, StoreRetried
<1>2. BackupTypeOK'
  BY <1>0, <1>1 DEF BackupTypeOK
<1>3. ShareInv'
  <2>1. latest > 0 => latest \in Versions
    BY <1>0 DEF BackupTypeOK, Versions
  <2>2. \A w \in Versions : task'[w].turns > 0 => task[w].turns > 0
    BY <1>1
  <2> QED BY <1>0, <1>1, <2>1, <2>2 DEF ShareInv
<1> QED BY <1>0, <1>2, <1>3, RequestsStay DEF BackupInv

LEMMA LockEndsStep ==
    ASSUME BackupInv, LockEnds
    PROVE  BackupInv'
<1>0. /\ BackupTypeOK /\ ShareInv
      /\ UNCHANGED <<code, latest, task, failures, wrong, restore, runs>>
      /\ recoveryLock' = FALSE /\ deviceLock' = [d \in Devices |-> FALSE]
  BY DEF BackupInv, LockEnds
<1>1. /\ share' \in [Realms -> [version : 0 .. MaxVersions, attempts : 0 .. Tries, locked : BOOLEAN]]
      /\ \A r \in Realms : share'[r].version = share[r].version
  BY <1>0 DEF BackupTypeOK, LockEnds
<1>2. BackupTypeOK'
  BY <1>0, <1>1 DEF BackupTypeOK
<1>3. ShareInv'
  BY <1>0, <1>1 DEF ShareInv
<1> QED BY <1>0, <1>2, <1>3, RequestsStay DEF BackupInv


----------------------------------------------------------------------------
(* A recovery *)

LEMMA RestoreWithStep ==
    ASSUME BackupInv, NEW d \in Devices, NEW c \in Passcodes, RestoreWith(d, c)
    PROVE  BackupInv'
<1> DEFINE x == [pc |-> "running", version |-> latest, code |-> c, keyed |-> 0, asked |-> {},
                 opened |-> {}, refused |-> FALSE, shut |-> FALSE, fair |-> Whole(latest)]
<1>0. /\ BackupTypeOK /\ ShareInv /\ CountedInv /\ latest \in Versions
      /\ UNCHANGED <<code, latest, share, task, failures, recoveryLock, wrong, deviceLock>>
      /\ restore' = [restore EXCEPT ![d] = x]
  BY DEF BackupInv, BackupTypeOK, RestoreWith, Versions, storeVars, recoveryVars
<1>1. x \in Asking
  <2>1. Whole(latest) \in BOOLEAN
    BY DEF Whole
  <2> QED BY <1>0, <2>1 DEF Asking, Versions
<1>2. x.pc = "running" /\ x.version = latest /\ ~x.refused /\ x.opened = {}
  OBVIOUS
<1> HIDE DEF x
<1>3. /\ restore' \in [Devices -> {Rest, Refusal} \union Asking \union Ended]
      /\ \A e \in Devices : restore'[e] \in Asking \union Ended => restore'[e].version <= latest'
      /\ OpenInv' /\ FairInv' /\ d \notin Uncounted'
      /\ \A e \in Devices : restore'[e].pc = "running" /\ restore'[e].asked = {} => ~restore'[e].refused
      /\ \A e \in Devices : e # d => restore'[e] = restore[e]
  <2>1. x.pc # "wrong_pin" /\ \A y \in x.opened : y[2] = x.version
    BY <1>2
  <2>2. x \in {Rest, Refusal} \union Asking \union Ended /\ x.version <= latest
    BY <1>0, <1>1, <1>2 DEF Versions
  <2> QED BY <1>0, <1>2, <2>1, <2>2, RequestStep
<1>4. Cardinality(Uncounted') = Cardinality(Uncounted)
  <2>1. d \notin Uncounted
    BY DEF Uncounted, RestoreWith
  <2> QED BY <1>0, <1>3, <2>1, UncountedChanges
<1>5. runs' \in 0 .. MaxGuesses
  BY <1>0 DEF RestoreWith, BackupTypeOK
<1>6. BackupTypeOK'
  BY <1>0, <1>3, <1>5 DEF BackupTypeOK
<1>7. ShareInv'
  BY <1>0, <1>3 DEF ShareInv
<1>8. CountedInv'
  <2>1. failures \in Nat /\ wrong \in Nat
    BY <1>0 DEF BackupTypeOK
  <2>2. failures <= Tries - 1 /\ wrong <= failures + Cardinality(Uncounted)
    BY <1>0 DEF CountedInv
  <2>3. wrong' <= failures' + Cardinality(Uncounted')
    BY <1>0, <1>4, <2>2
  <2> QED BY <1>0, <1>3, <2>2, <2>3 DEF CountedInv
<1> QED BY <1>3, <1>6, <1>7, <1>8 DEF BackupInv


(* What Asked leaves of a request and what it sets. *)
LEMMA AskedFields ==
    ASSUME BackupInv, NEW d \in Devices, NEW r \in Realms, restore[d].pc = "running"
    PROVE  LET q == restore[d]
               a == Asked(d, r)
           IN /\ a \in Asking /\ a.pc = "running" /\ a.version = q.version /\ a.code = q.code
              /\ a.keyed = (IF q.asked = {} THEN latest ELSE q.keyed)
              /\ a.asked = q.asked \union {r} /\ a.opened = q.opened
              /\ a.refused = q.refused /\ a.shut = q.shut /\ a.fair = q.fair
<1>1. restore[d] \in Asking /\ latest \in 0 .. MaxVersions
  BY RequestFields DEF BackupInv, BackupTypeOK
<1> QED BY <1>1 DEF Asked, Asking

(* A realm has been asked: the run is uncounted as before unless it is refused first here. *)
LEMMA AskedStep ==
    ASSUME BackupInv, NEW d \in Devices, NEW r \in Realms, restore[d].pc = "running",
           NEW x \in Asking, UNCHANGED <<code, latest, task, failures, recoveryLock, deviceLock, runs>>,
           restore' = [restore EXCEPT ![d] = x],
           x.version = restore[d].version /\ x.code = restore[d].code,
           x.keyed = (IF restore[d].asked = {} THEN latest ELSE restore[d].keyed),
           x.asked = restore[d].asked \union {r}, x.fair => restore[d].fair,
           \A y \in x.opened : y \in restore[d].opened \/ y[2] = x.version,
           share' \in [Realms -> [version : 0 .. MaxVersions, attempts : 0 .. Tries, locked : BOOLEAN]],
           \A e \in Realms : share'[e].version = share[e].version,
           \/ x.refused = restore[d].refused /\ wrong' = wrong
           \/ /\ x.refused /\ (x.fair => x.code # code[x.version])
              /\ wrong' = IF restore[d].refused \/ x.keyed # latest THEN wrong ELSE wrong + 1
    PROVE  BackupInv'
<1>0. /\ BackupTypeOK /\ ShareInv /\ OpenInv /\ CountedInv /\ FairInv
      /\ restore[d] \in Asking /\ x.pc = "running" /\ latest \in Nat /\ wrong \in Nat /\ failures \in Nat
  <2>1. BackupTypeOK /\ ShareInv /\ OpenInv /\ CountedInv /\ FairInv
    BY DEF BackupInv
  <2>2. restore[d] \in Asking /\ x.pc = "running"
    BY <2>1, RequestFields DEF Asking
  <2>3. latest \in Nat /\ wrong \in Nat /\ failures \in Nat
    BY <2>1, BackupBounds DEF BackupTypeOK
  <2> QED BY <2>1, <2>2, <2>3
<1>1. /\ restore' \in [Devices -> {Rest, Refusal} \union Asking \union Ended]
      /\ \A e \in Devices : restore'[e] \in Asking \union Ended => restore'[e].version <= latest'
      /\ OpenInv' /\ FairInv'
      /\ \A e \in Devices : restore'[e].pc = "running" /\ restore'[e].asked = {} => ~restore'[e].refused
      /\ d \in Uncounted' <=> x.refused /\ x.keyed = latest
      /\ \A e \in Devices : e # d => restore'[e] = restore[e]
  <2>1. x.version <= latest
    BY <1>0 DEF ShareInv
  <2>2. \A y \in x.opened : y[2] = x.version
    BY <1>0 DEF OpenInv
  <2>3. x.refused /\ x.fair => x.code # code[x.version]
    BY <1>0 DEF FairInv
  <2>4. x.pc # "wrong_pin" /\ x.asked # {}
    BY <1>0
  <2>5. x \in {Rest, Refusal} \union Asking \union Ended
    OBVIOUS
  <2> QED BY <1>0, <2>1, <2>2, <2>3, <2>4, <2>5, RequestStep
<1>2. d \in Uncounted <=> restore[d].refused /\ x.keyed = latest
  BY <1>0 DEF Uncounted, CountedInv
<1>3. wrong' <= failures + Cardinality(Uncounted')
  <2>1. wrong <= failures + Cardinality(Uncounted) /\ Cardinality(Uncounted) \in Nat
    BY <1>0, UncountedFinite DEF CountedInv
  <2>2. CASE d \in Uncounted <=> d \in Uncounted'
    <3>1. wrong' = wrong
      BY <1>0, <1>1, <1>2, <2>2
    <3>2. Cardinality(Uncounted') = Cardinality(Uncounted)
      BY <1>1, <2>2, UncountedChanges
    <3> QED BY <2>1, <3>1, <3>2
  <2>3. CASE d \notin Uncounted /\ d \in Uncounted'
    <3>1. Cardinality(Uncounted') = Cardinality(Uncounted) + 1
      BY <1>1, <2>3, UncountedChanges
    <3>2. wrong' \in {wrong, wrong + 1}
      OBVIOUS
    <3> QED BY <1>0, <2>1, <3>1, <3>2
  <2> QED BY <1>1, <1>2, <2>2, <2>3
<1>4. CountedInv'
  BY <1>0, <1>1, <1>3 DEF CountedInv
<1>5. BackupTypeOK'
  BY <1>0, <1>1 DEF BackupTypeOK
<1>6. ShareInv'
  BY <1>0, <1>1 DEF ShareInv
<1> QED BY <1>1, <1>4, <1>5, <1>6 DEF BackupInv

(* A share with another count. *)
LEMMA Recount ==
    ASSUME NEW s \in [version : 0 .. MaxVersions, attempts : 0 .. Tries, locked : BOOLEAN],
           NEW n \in 1 .. Tries, NEW b \in BOOLEAN
    PROVE  [s EXCEPT !.attempts = n, !.locked = b] \in [version : 0 .. MaxVersions, attempts : 0 .. Tries, locked : BOOLEAN]
<1>1. n \in 0 .. Tries
  BY BackupBounds
<1>2. CASE b = TRUE
  BY <1>1, <1>2
<1>3. CASE b = FALSE
  BY <1>1, <1>3
<1> QED BY <1>2, <1>3

(* A realm answers with its share, with nothing, or with a count. *)
LEMMA AskRealmStep ==
    ASSUME BackupInv, NEW d \in Devices, NEW r \in Realms, AskRealm(d, r)
    PROVE  BackupInv'
<1> DEFINE q == restore[d]
           a == Asked(d, r)
           seen == [a EXCEPT !.fair = @ /\ Whole(q.version)]
           next == (IF share[r].attempts >= Tries THEN 0 ELSE share[r].attempts) + 1
<1>0. /\ BackupTypeOK /\ ShareInv /\ q.pc = "running" /\ share[r].version > 0 /\ latest \in 0 .. MaxVersions
      /\ UNCHANGED <<code, latest, task, failures, recoveryLock, deviceLock, runs>>
  BY DEF BackupInv, BackupTypeOK, AskRealm
<1>1. q \in Asking
  BY <1>0, RequestFields
<1>2. /\ a \in Asking /\ a.pc = "running" /\ a.version = q.version /\ a.code = q.code
      /\ a.keyed = (IF q.asked = {} THEN latest ELSE q.keyed)
      /\ a.asked = q.asked \union {r} /\ a.opened = q.opened
      /\ a.refused = q.refused /\ a.shut = q.shut /\ a.fair = q.fair
  BY <1>0, AskedFields
<1> HIDE DEF a
<1>3. /\ seen \in Asking /\ seen.version = q.version /\ seen.code = q.code
      /\ seen.keyed = (IF q.asked = {} THEN latest ELSE q.keyed)
      /\ seen.asked = q.asked \union {r} /\ seen.opened = q.opened
      /\ seen.refused = q.refused /\ seen.shut = q.shut
      /\ seen.fair <=> q.fair /\ Whole(q.version)
  <2>1. Whole(q.version) \in BOOLEAN
    BY DEF Whole
  <2> QED BY <1>1, <1>2, <2>1 DEF Asking
<1>4. /\ share[r] \in [version : 0 .. MaxVersions, attempts : 0 .. Tries, locked : BOOLEAN]
      /\ share[r].version \in Versions
  BY <1>0, BackupBounds DEF BackupTypeOK, Versions
<1> HIDE DEF seen
<1>5. CASE share[r].locked
  <2> DEFINE x == [seen EXCEPT !.shut = TRUE]
  <2>1. share' = share /\ wrong' = wrong /\ restore' = [restore EXCEPT ![d] = x]
    BY <1>5 DEF AskRealm, seen, a
  <2>2. /\ x \in Asking /\ x.version = q.version /\ x.code = q.code /\ x.keyed = (IF q.asked = {} THEN latest ELSE q.keyed)
        /\ x.asked = q.asked \union {r} /\ x.opened = q.opened /\ x.refused = q.refused /\ (x.fair => q.fair)
    BY <1>3 DEF Asking
  <2> HIDE DEF x
  <2>3. share' \in [Realms -> [version : 0 .. MaxVersions, attempts : 0 .. Tries, locked : BOOLEAN]]
    BY <1>0, <2>1 DEF BackupTypeOK
  <2>4. \A y \in x.opened : y \in q.opened \/ y[2] = x.version
    BY <2>2
  <2>5. \A e \in Realms : share'[e].version = share[e].version
    BY <2>1
  <2> QED BY <1>0, <2>1, <2>2, <2>3, <2>4, <2>5, AskedStep
<1>6. CASE ~share[r].locked /\ Matches(r, q)
  <2> DEFINE x == [seen EXCEPT !.opened = @ \union {<<r, share[r].version>>}]
  <2>1. /\ share' = [share EXCEPT ![r].attempts = 0] /\ wrong' = wrong
        /\ restore' = [restore EXCEPT ![d] = x]
    BY <1>6 DEF AskRealm, seen, a
  <2>2. /\ x \in Asking /\ x.version = q.version /\ x.code = q.code /\ x.keyed = (IF q.asked = {} THEN latest ELSE q.keyed)
        /\ x.asked = q.asked \union {r} /\ x.refused = q.refused /\ (x.fair => q.fair)
    BY <1>3, <1>4 DEF Asking
  <2>5. x.opened = q.opened \union {<<r, share[r].version>>}
    BY <1>3 DEF Asking
  <2> HIDE DEF x
  <2>3. /\ share' \in [Realms -> [version : 0 .. MaxVersions, attempts : 0 .. Tries, locked : BOOLEAN]]
        /\ \A e \in Realms : share'[e].version = share[e].version
    <3>1. [share[r] EXCEPT !.attempts = 0] \in [version : 0 .. MaxVersions, attempts : 0 .. Tries, locked : BOOLEAN]
      BY <1>4, BackupBounds
    <3>2. [share[r] EXCEPT !.attempts = 0].version = share[r].version
      BY <1>4
    <3>3. share' = [share EXCEPT ![r] = [share[r] EXCEPT !.attempts = 0]]
      BY <2>1
    <3> HIDE <2>1
    <3> QED BY <1>0, <3>1, <3>2, <3>3 DEF BackupTypeOK
  <2>4. \A y \in x.opened : y \in q.opened \/ y[2] = x.version
    BY <1>6, <2>2, <2>5 DEF Matches
  <2>6. restore' = [restore EXCEPT ![d] = x] /\ wrong' = wrong
    BY <2>1
  <2> QED BY <1>0, <2>2, <2>3, <2>4, <2>6, AskedStep
<1>7. CASE ~share[r].locked /\ ~Matches(r, q)
  <2> DEFINE x == [seen EXCEPT !.refused = TRUE, !.shut = @ \/ next >= Tries]
  <2>1. /\ share' = [share EXCEPT ![r].attempts = next, ![r].locked = next >= Tries]
        /\ wrong' = (IF q.refused \/ seen.keyed # latest THEN wrong ELSE wrong + 1)
        /\ restore' = [restore EXCEPT ![d] = x]
    BY <1>7 DEF AskRealm, seen, a
  <2>2. next \in 1 .. Tries /\ (next >= Tries) \in BOOLEAN
    BY <1>4, BackupBounds
  <2> HIDE DEF next
  <2>3. /\ x \in Asking /\ x.version = q.version /\ x.code = q.code /\ x.keyed = (IF q.asked = {} THEN latest ELSE q.keyed)
        /\ x.asked = q.asked \union {r} /\ x.opened = q.opened /\ x.refused /\ x.fair = seen.fair
    BY <1>3, <2>2 DEF Asking
  <2> HIDE DEF x
  <2>4. /\ share' \in [Realms -> [version : 0 .. MaxVersions, attempts : 0 .. Tries, locked : BOOLEAN]]
        /\ \A e \in Realms : share'[e].version = share[e].version
    <3> DEFINE kept == [share[r] EXCEPT !.attempts = next, !.locked = next >= Tries]
    <3>1. kept \in [version : 0 .. MaxVersions, attempts : 0 .. Tries, locked : BOOLEAN]
      BY <1>4, <2>2, Recount
    <3>2. kept.version = share[r].version
      BY <1>4
    <3>3. share' = [share EXCEPT ![r] = kept]
      BY <1>0, <1>4, <2>1 DEF BackupTypeOK
    <3> HIDE DEF kept
    <3> QED BY <1>0, <3>1, <3>2, <3>3 DEF BackupTypeOK
  <2>5. x.fair => x.code # code[x.version]
    <3> SUFFICES ASSUME x.fair PROVE q.code # code[q.version]
      BY <2>3
    <3>1. Whole(q.version) /\ q.version \in Versions
      BY <1>1, <1>3, <2>3 DEF Asking
    <3>2. share[r].version = q.version
      BY <1>0, <1>4, <3>1 DEF Whole, ShareInv, Versions
    <3> QED BY <1>7, <3>2 DEF Matches
  <2>6. /\ wrong' = (IF q.refused \/ x.keyed # latest THEN wrong ELSE wrong + 1)
        /\ x.fair => q.fair
    BY <1>3, <2>1, <2>3
  <2>7. \A y \in x.opened : y \in q.opened \/ y[2] = x.version
    BY <2>3
  <2> QED BY <1>0, <2>1, <2>3, <2>4, <2>5, <2>6, <2>7, AskedStep
<1> QED BY <1>5, <1>6, <1>7

(* A realm does not answer. *)
LEMMA RealmFailsStep ==
    ASSUME BackupInv, NEW d \in Devices, NEW r \in Realms, RealmFails(d, r)
    PROVE  BackupInv'
<1> DEFINE a == Asked(d, r)
<1>0. /\ restore[d].pc = "running" /\ restore' = [restore EXCEPT ![d] = a]
      /\ UNCHANGED <<code, latest, share, task, failures, recoveryLock, wrong, deviceLock, runs>>
      /\ share \in [Realms -> [version : 0 .. MaxVersions, attempts : 0 .. Tries, locked : BOOLEAN]]
  BY DEF BackupInv, BackupTypeOK, RealmFails, storeVars, recoveryVars
<1>1. /\ a \in Asking /\ a.version = restore[d].version /\ a.code = restore[d].code
      /\ a.keyed = (IF restore[d].asked = {} THEN latest ELSE restore[d].keyed)
      /\ a.asked = restore[d].asked \union {r} /\ a.opened = restore[d].opened
      /\ a.refused = restore[d].refused /\ a.fair = restore[d].fair
  BY <1>0, AskedFields
<1> HIDE DEF a
<1> QED BY <1>0, <1>1, AskedStep


(* The worker begins while recovery is locked. *)
LEMMA RecoverLockedStep ==
    ASSUME BackupInv, NEW d \in Devices, RecoverLocked(d)
    PROVE  BackupInv'
<1>0. /\ BackupTypeOK /\ ShareInv /\ CountedInv
      /\ restore[d].pc = "running" /\ restore[d].asked = {} /\ restore' = [restore EXCEPT ![d] = Refusal]
      /\ deviceLock' = [deviceLock EXCEPT ![d] = TRUE]
      /\ UNCHANGED <<code, latest, share, task, failures, recoveryLock, wrong, runs>>
  BY DEF BackupInv, RecoverLocked, storeVars, recoveryVars
<1>1. Refusal.pc = "locked" /\ Refusal \notin Asking \union Ended
  BY DEF Refusal, Asking, Ended
<1>2. /\ restore' \in [Devices -> {Rest, Refusal} \union Asking \union Ended]
      /\ \A e \in Devices : restore'[e] \in Asking \union Ended => restore'[e].version <= latest'
      /\ OpenInv' /\ FairInv' /\ d \notin Uncounted'
      /\ \A e \in Devices : restore'[e].pc = "running" /\ restore'[e].asked = {} => ~restore'[e].refused
      /\ \A e \in Devices : e # d => restore'[e] = restore[e]
  BY <1>0, <1>1, RequestStep
<1>3. Cardinality(Uncounted') = Cardinality(Uncounted)
  <2>1. d \notin Uncounted
    BY <1>0 DEF Uncounted, CountedInv
  <2> QED BY <1>0, <1>2, <2>1, UncountedChanges
<1>4. BackupTypeOK'
  BY <1>0, <1>2 DEF BackupTypeOK
<1>5. ShareInv'
  BY <1>0, <1>2 DEF ShareInv
<1>6. CountedInv'
  BY <1>0, <1>2, <1>3 DEF CountedInv
<1> QED BY <1>2, <1>4, <1>5, <1>6 DEF BackupInv

(* A run is over, or begins anew: what it leaves is no uncounted wrong passcode, so Redis has *)
(* counted it, has nothing more to count, or the history leaves it out.                       *)
LEMMA EndStep ==
    ASSUME BackupInv, NEW d \in Devices, restore[d].pc = "running", NEW x \in Asking \union Ended,
           restore' = [restore EXCEPT ![d] = x], UNCHANGED <<code, latest, share, task>>,
           deviceLock' \in [Devices -> BOOLEAN], runs' \in 0 .. MaxGuesses, recoveryLock' \in BOOLEAN,
           x.version = restore[d].version,
           x.pc = "running" => ~x.refused /\ x.opened = {},
           x.pc = "done" => x.opened = restore[d].opened,
           x.pc = "wrong_pin" => restore[d].refused /\ x.code = restore[d].code /\ x.fair = restore[d].fair,
           \/ failures' = 0 /\ wrong' = 0
           \/ d \notin Uncounted /\ failures' = failures /\ wrong' = wrong
           \/ failures' = failures + 1 /\ failures' < Tries /\ wrong' = wrong
           \/ failures' = failures /\ wrong' \in Nat /\ (wrong' < wrong \/ wrong' = 0)
    PROVE  BackupInv'
<1>0. /\ BackupTypeOK /\ ShareInv /\ OpenInv /\ CountedInv /\ FairInv /\ restore[d] \in Asking
      /\ failures \in Nat /\ wrong \in Nat
  BY RequestFields, BackupBounds DEF BackupInv, BackupTypeOK
<1>1. /\ restore' \in [Devices -> {Rest, Refusal} \union Asking \union Ended]
      /\ \A e \in Devices : restore'[e] \in Asking \union Ended => restore'[e].version <= latest'
      /\ OpenInv' /\ FairInv' /\ d \notin Uncounted'
      /\ \A e \in Devices : restore'[e].pc = "running" /\ restore'[e].asked = {} => ~restore'[e].refused
      /\ \A e \in Devices : e # d => restore'[e] = restore[e]
  <2>1. x.version <= latest
    BY <1>0 DEF ShareInv
  <2>2. x.pc \in {"running", "done"} => \A y \in x.opened : y[2] = x.version
    BY <1>0 DEF OpenInv
  <2>3. /\ x.pc = "running" /\ x.refused /\ x.fair => x.code # code[x.version]
        /\ x.pc = "wrong_pin" => x.code # code[x.version] \/ ~x.fair
    BY <1>0 DEF FairInv
  <2> QED BY <2>1, <2>2, <2>3, RequestStep
<1>2. /\ Cardinality(Uncounted) \in Nat /\ Cardinality(Uncounted') \in Nat
      /\ Cardinality(Uncounted') = Cardinality(Uncounted) - (IF d \in Uncounted THEN 1 ELSE 0)
  BY <1>1, UncountedFinite, UncountedChanges
<1>3. wrong <= failures + Cardinality(Uncounted) /\ failures <= Tries - 1
  BY <1>0 DEF CountedInv
<1>4. failures' \in Nat /\ wrong' \in Nat /\ failures' <= Tries - 1
  BY <1>0, <1>3, BackupBounds
<1>5. wrong' <= failures' + Cardinality(Uncounted')
  <2>1. Cardinality(Uncounted') >= Cardinality(Uncounted) - 1
        /\ (d \notin Uncounted => Cardinality(Uncounted') = Cardinality(Uncounted))
    BY <1>2
  <2> QED BY <1>0, <1>2, <1>3, <1>4, <2>1
<1>6. BackupTypeOK'
  <2>1. failures' \in 0 .. Tries
    BY <1>4, BackupBounds
  <2> QED BY <1>0, <1>1, <1>4, <2>1 DEF BackupTypeOK
<1>7. ShareInv'
  BY <1>0, <1>1 DEF ShareInv
<1>8. CountedInv'
  BY <1>1, <1>4, <1>5 DEF CountedInv
<1> QED BY <1>1, <1>6, <1>7, <1>8 DEF BackupInv

(* A request that is taken up again. *)
LEMMA AfreshFields ==
    ASSUME NEW q \in Asking
    PROVE  /\ Afresh(q) \in Asking /\ Afresh(q).pc = "running" /\ Afresh(q).version = q.version
           /\ ~Afresh(q).refused /\ Afresh(q).opened = {}
<1>1. 0 \in 0 .. MaxVersions
  BY BackupBounds
<1> QED BY <1>1 DEF Afresh, Asking

LEMMA RecoverKilledStep ==
    ASSUME BackupInv, NEW d \in Devices, RecoverKilled(d)
    PROVE  BackupInv'
<1> DEFINE q == restore[d]
           x == Afresh(q)
<1>0. /\ q.pc = "running" /\ restore' = [restore EXCEPT ![d] = x] /\ q \in Asking
      /\ UNCHANGED <<code, latest, share, task, failures, recoveryLock, deviceLock>>
      /\ wrong' = (IF q.refused /\ q.keyed = latest /\ wrong > 0 THEN wrong - 1 ELSE wrong)
      /\ wrong \in Nat
  BY RequestFields DEF BackupInv, BackupTypeOK, RecoverKilled, storeVars
<1>1. x \in Asking /\ x.pc = "running" /\ x.version = q.version /\ ~x.refused /\ x.opened = {}
  BY <1>0, AfreshFields
<1> HIDE DEF x
<1>2. /\ deviceLock' \in [Devices -> BOOLEAN] /\ recoveryLock' \in BOOLEAN /\ runs' \in 0 .. MaxGuesses
  <2>1. runs' = runs + 1 /\ runs < MaxGuesses /\ runs \in Nat
    BY DEF RecoverKilled, BackupInv, BackupTypeOK
  <2>2. runs' \in 0 .. MaxGuesses
    BY <2>1, BackupBounds
  <2> QED BY <1>0, <2>2 DEF BackupInv, BackupTypeOK
<1>3. \/ d \notin Uncounted /\ failures' = failures /\ wrong' = wrong
      \/ failures' = failures /\ wrong' \in Nat /\ (wrong' < wrong \/ wrong' = 0)
  BY <1>0 DEF Uncounted
<1> QED BY <1>0, <1>1, <1>2, <1>3, EndStep


(* The end of recover: the lock, the key, a wrong passcode or too few answers. *)
LEMMA RecoverDoneStep ==
    ASSUME BackupInv, NEW d \in Devices, NEW killed \in BOOLEAN, RecoverDone(d, killed)
    PROVE  BackupInv'
<1> DEFINE q == restore[d]
           end(pc) == [pc |-> pc, version |-> q.version, code |-> q.code, opened |-> q.opened, fair |-> q.fair]
           ends(pc) ==
              IF killed THEN restore' = [restore EXCEPT ![d] = Afresh(q)] /\ UNCHANGED deviceLock
              ELSE /\ restore' = [restore EXCEPT ![d] = end(pc)]
                   /\ deviceLock' = [deviceLock EXCEPT ![d] = @ \/ pc = "locked"]
           now == q.keyed = latest
           lock == Counts(now, TRUE, 0, 0) /\ ends("locked")
<1>0. /\ q.pc = "running" /\ q \in Asking
      /\ UNCHANGED <<code, latest, share, task>>
      /\ failures \in Nat /\ wrong \in Nat /\ recoveryLock \in BOOLEAN
  BY RequestFields, BackupBounds DEF BackupInv, BackupTypeOK, RecoverDone, storeVars
<1>1. runs' \in 0 .. MaxGuesses
  <2>1. runs' = runs + (IF killed THEN 1 ELSE 0) /\ runs' <= MaxGuesses /\ runs \in Nat
    BY DEF RecoverDone, BackupInv, BackupTypeOK
  <2> QED BY <2>1, BackupBounds
<1>2. q.refused /\ now <=> d \in Uncounted
  BY <1>0 DEF Uncounted
<1>3. ASSUME NEW pc \in {"done", "wrong_pin", "locked", "failed"}, ends(pc), pc = "wrong_pin" => q.refused,
             recoveryLock' \in BOOLEAN,
             \/ failures' = 0 /\ wrong' = 0
             \/ d \notin Uncounted /\ failures' = failures /\ wrong' = wrong
             \/ failures' = failures + 1 /\ failures' < Tries /\ wrong' = wrong
      PROVE  BackupInv'
  <2>1. deviceLock' \in [Devices -> BOOLEAN]
    BY <1>3 DEF BackupInv, BackupTypeOK
  <2>2. CASE killed
    <3> DEFINE x == Afresh(q)
    <3>1. restore' = [restore EXCEPT ![d] = x]
      BY <1>3, <2>2
    <3>2. x \in Asking /\ x.pc = "running" /\ x.version = q.version /\ ~x.refused /\ x.opened = {}
      BY <1>0, AfreshFields
    <3> HIDE DEF x
    <3> QED BY <1>0, <1>1, <1>3, <2>1, <3>1, <3>2, EndStep
  <2>3. CASE ~killed
    <3> DEFINE x == end(pc)
    <3>1. restore' = [restore EXCEPT ![d] = x]
      BY <1>3, <2>3
    <3>2. x \in Ended /\ x.pc = pc /\ x.version = q.version /\ x.code = q.code /\ x.opened = q.opened /\ x.fair = q.fair
      BY <1>0, <1>3 DEF Asking, Ended
    <3> HIDE DEF x
    <3> QED BY <1>0, <1>1, <1>3, <2>1, <3>1, <3>2, EndStep
  <2> QED BY <2>2, <2>3
<1>4. \/ lock
      \/ Counts(now, FALSE, 0, 0) /\ ends("done")
      \/ /\ q.refused /\ ~Exhausted((IF now THEN failures ELSE 0) + 1)
         /\ Counts(now, recoveryLock, failures + 1, wrong) /\ ends("wrong_pin")
      \/ ~q.refused /\ UNCHANGED recoveryVars /\ ends("failed")
  BY DEF RecoverDone
<1> HIDE DEF ends, now
<1>5. ASSUME NEW k \in BOOLEAN, Counts(now, k, 0, 0)
      PROVE  /\ recoveryLock' \in BOOLEAN
             /\ \/ failures' = 0 /\ wrong' = 0
                \/ d \notin Uncounted /\ failures' = failures /\ wrong' = wrong
  <2>1. CASE now
    BY <1>5, <2>1 DEF Counts
  <2>2. CASE ~now
    BY <1>0, <1>2, <1>5, <2>2 DEF Counts, recoveryVars
  <2> QED BY <2>1, <2>2
<1>6. CASE lock
  BY <1>3, <1>5, <1>6
<1>7. CASE Counts(now, FALSE, 0, 0) /\ ends("done")
  BY <1>3, <1>5, <1>7
<1>8. CASE /\ q.refused /\ ~Exhausted((IF now THEN failures ELSE 0) + 1)
           /\ Counts(now, recoveryLock, failures + 1, wrong) /\ ends("wrong_pin")
  <2>1. CASE now
    <3>1. failures' = failures + 1 /\ failures' < Tries /\ wrong' = wrong /\ recoveryLock' \in BOOLEAN
      BY <1>0, <1>8, <2>1, BackupBounds DEF Counts, Exhausted
    <3> QED BY <1>3, <1>8, <3>1
  <2>2. CASE ~now
    <3>1. d \notin Uncounted /\ failures' = failures /\ wrong' = wrong /\ recoveryLock' \in BOOLEAN
      BY <1>0, <1>2, <1>8, <2>2 DEF Counts, recoveryVars
    <3> QED BY <1>3, <1>8, <3>1
  <2> QED BY <2>1, <2>2
<1>9. CASE ~q.refused /\ UNCHANGED recoveryVars /\ ends("failed")
  <2>1. d \notin Uncounted /\ failures' = failures /\ wrong' = wrong /\ recoveryLock' \in BOOLEAN
    BY <1>0, <1>2, <1>9 DEF recoveryVars
  <2> QED BY <1>3, <1>9, <2>1
<1> QED BY <1>4, <1>6, <1>7, <1>8, <1>9

----------------------------------------------------------------------------
(* Every recovery *)

LEMMA BackupStarts == BackupInit => BackupInv
<1> SUFFICES ASSUME BackupInit PROVE BackupInv
  OBVIOUS
<1>1. /\ latest = 0 /\ failures = 0 /\ wrong = 0 /\ recoveryLock = FALSE /\ runs = 0
      /\ restore = [d \in Devices |-> Rest] /\ Rest.pc = "gate" /\ Rest \notin Asking \union Ended
      /\ \A r \in Realms : share[r].version = 0
      /\ \A v \in Versions : task[v].turns = 0
  BY DEF BackupInit, Rest, Asking, Ended, NoShare, Share
<1>2. BackupTypeOK
  <2>1. code \in [1 .. latest -> Passcodes]
    BY <1>1 DEF BackupInit
  <2>2. share \in [Realms -> [version : 0 .. MaxVersions, attempts : 0 .. Tries, locked : BOOLEAN]]
    BY BackupBounds DEF BackupInit, NoShare, Share
  <2>3. task \in [Versions -> [left : SUBSET Realms, turns : 0 .. MaxTurns]]
    BY BackupBounds DEF BackupInit
  <2>4. restore \in [Devices -> {Rest, Refusal} \union Asking \union Ended] /\ deviceLock \in [Devices -> BOOLEAN]
    BY DEF BackupInit
  <2>5. /\ latest \in 0 .. MaxVersions /\ failures \in 0 .. Tries /\ runs \in 0 .. MaxGuesses /\ wrong \in Nat
    BY <1>1, BackupBounds
  <2>6. recoveryLock \in BOOLEAN
    BY <1>1
  <2> QED BY <2>1, <2>2, <2>3, <2>4, <2>5, <2>6 DEF BackupTypeOK
<1>3. ShareInv
  BY <1>1 DEF ShareInv
<1>4. CountedInv
  <2>1. Cardinality(Uncounted) \in Nat
    BY UncountedFinite
  <2> QED BY <1>1, <2>1, BackupBounds DEF CountedInv
<1>5. OpenInv /\ FairInv
  BY <1>1 DEF OpenInv, FairInv
<1> QED BY <1>2, <1>3, <1>4, <1>5 DEF BackupInv

LEMMA BackupSteps == BackupInv /\ [BackupNext]_backupVars => BackupInv'
<1> SUFFICES ASSUME BackupInv, [BackupNext]_backupVars PROVE BackupInv'
  OBVIOUS
<1>1. CASE \E c \in Passcodes : BackupKeys(c) \/ (\E d \in Devices : RestoreWith(d, c))
  BY <1>1, BackupKeysStep, RestoreWithStep
<1>2. CASE \E v \in Versions : (\E r \in Realms : StoreShare(v, r)) \/ StoreRetried(v)
  BY <1>2, StoreShareStep, StoreRetriedStep
<1>3. CASE \E d \in Devices, r \in Realms : AskRealm(d, r) \/ RealmFails(d, r)
  BY <1>3, AskRealmStep, RealmFailsStep
<1>4. CASE \E d \in Devices : RecoverLocked(d) \/ RecoverKilled(d)
  BY <1>4, RecoverLockedStep, RecoverKilledStep
<1>5. CASE \E d \in Devices, killed \in BOOLEAN : RecoverDone(d, killed)
  BY <1>5, RecoverDoneStep
<1>6. CASE LockEnds
  BY <1>6, LockEndsStep
<1>7. CASE UNCHANGED backupVars
  <2>1. UNCHANGED <<code, latest, share, task, failures, recoveryLock, wrong, restore, deviceLock, runs>>
    BY <1>7 DEF backupVars, storeVars, recoveryVars
  <2>2. BackupTypeOK' /\ ShareInv'
    BY <2>1 DEF BackupInv, BackupTypeOK, ShareInv
  <2> QED BY <2>1, <2>2, RequestsStay DEF BackupInv
<1> QED BY <1>1, <1>2, <1>3, <1>4, <1>5, <1>6, <1>7 DEF BackupNext

LEMMA BackupInvariance == BackupSpec => []BackupInv
BY BackupStarts, BackupSteps, PTL DEF BackupSpec

(* The ciphertext, the shares, the counts and the requests have their types, whatever the   *)
(* devices, the tasks and the kills of the worker do.                                       *)
THEOREM BackupTypes == BackupSpec => []BackupTypeOK
<1>1. BackupInv => BackupTypeOK
  BY DEF BackupInv
<1> QED BY <1>1, BackupInvariance, PTL

(* Whatever overtakes it, a recovery hands out shares of the ciphertext its device has; the *)
(* wrong passcodes that Redis has not counted are no more than the recoveries under way;    *)
(* and a passcode is called wrong only if it is, or if a newer backup was under way.        *)
THEOREM RecoveryIsSound == BackupSpec => []RecoverySound
<1>1. BackupInv => RecoverySound
  <2> SUFFICES ASSUME BackupInv PROVE RecoverySound
    OBVIOUS
  <2>1. DoneOpens
    BY DEF BackupInv, OpenInv, DoneOpens
  <2>2. GuessesCounted
    <3> DEFINE R == {d \in Devices : restore[d].pc = "running"}
    <3>1. Uncounted \subseteq R /\ R \subseteq Devices
      BY DEF Uncounted
    <3>2. IsFiniteSet(R) /\ Cardinality(R) \in Nat /\ Cardinality(Uncounted) <= Cardinality(R)
      BY <3>1, FS_Subset, FS_CardinalityType
    <3>3. Cardinality(Uncounted) \in Nat /\ wrong \in Nat /\ failures \in Nat
      BY UncountedFinite, BackupBounds DEF BackupInv, BackupTypeOK
    <3>4. wrong <= failures + Cardinality(Uncounted) /\ failures <= Tries - 1
      BY DEF BackupInv, CountedInv
    <3> HIDE DEF R
    <3>5. wrong <= Tries - 1 + Cardinality(R)
      BY <3>2, <3>3, <3>4, BackupBounds
    <3> QED BY <3>5 DEF GuessesCounted, R
  <2>3. RightCodeRestores
    BY DEF BackupInv, FairInv, RightCodeRestores
  <2> QED BY <2>1, <2>2, <2>3 DEF RecoverySound
<1> QED BY <1>1, BackupInvariance, PTL


----------------------------------------------------------------------------
(* The page of a new device                                                *)
(*                                                                         *)
(* What belongs to whom.  A record that may still be approved is held by   *)
(* the page, is the answer of a running creation or has its DELETE on its  *)
(* way; a vault is that of the request the page holds, of one that a       *)
(* clearPairing is going to wipe, or of the app.                           *)

HIDE BackupAssumption
USE PairingPageAssumption

(* A code that was not made is unknown to the page. *)
UnknownInv ==
    \A r \in Codes : status[r] = "none" =>
        /\ held # r /\ ~obj[r].got
        /\ \A c \in clears : c.req # r

(* The requests of the parts of the page are not mixed up. *)
PageInv ==
    /\ making # Nothing => held = 0
    /\ making # Nothing /\ making.step = "answer" =>
          /\ making.req \in Codes /\ status[making.req] # "none" /\ ~obj[making.req].got
          /\ \A c \in clears : c.req # making.req
    /\ polling # "no" => held # 0 /\ ~obj[held].got
    /\ polling = "closed" => status[held] \in {"rejected", "expired"}
    /\ shown \in {"login", "gone"} =>
          making = Nothing /\ held = 0 /\ clears = {} /\ ~leaving /\ ~Processing

(* finishPairing runs for a request that was approved, with its vault. *)
FinishInv ==
    \A r \in Codes :
      /\ finishing[r] # "no" => obj[r].got
      /\ obj[r].vault => obj[r].got
      /\ finishing[r] \in {"post", "failed", "issued"} => obj[r].vault
      /\ finishing[r] = "issued" => issued[r] /\ status[r] = "completed"

(* Who waits for which clearPairing. *)
ClearInv ==
    \A c \in clears :
      /\ c.req # held
      /\ c.by = "begin" => making # Nothing /\ making.step = "clear"
      /\ c.by = "cancel" => leaving
      /\ c.by = "poll" => ~obj[c.req].got

(* While nothing was excused, one request is at work, and none once the page is being left. *)
FlowInv ==
    /\ \A r \in Codes : finishing[r] # "no" => held = r
    /\ leaving => held = 0 /\ (making # Nothing => ~making.wanted /\ ~making.fresh)
    /\ \A r \in Codes : obj[r].done => shown = "app"
    /\ shown # "gone"
    /\ shown = "app" => making = Nothing /\ held = 0

(* Whose the vault is. *)
OwnVaultInv ==
    /\ held # 0 /\ obj[held].vault => vault # Nothing /\ vault.req = held
    /\ vault # Nothing =>
          \/ shown = "app"
          \/ held = vault.req /\ obj[held].vault
          \/ \E c \in clears : c.req = vault.req /\ obj[c.req].vault
    /\ \A r \in Codes : issued[r] =>
          vault # Nothing /\ vault.req = r /\ (finishing[r] = "issued" \/ (vault.session /\ shown = "app"))
    /\ shown = "app" => vault # Nothing /\ vault.session /\ issued[vault.req]

(* Whose a record is that may still be approved or completed. *)
OwnRecordInv ==
    \A r \in Codes : status[r] \in {"pending", "approved"} =>
        \/ held = r \/ r \in deletes
        \/ making # Nothing /\ making.step = "answer" /\ making.req = r

OrphanInv ==
    /\ PairingPageTypeOK /\ UnknownInv /\ PageInv /\ FinishInv /\ ClearInv
    /\ excused \/ (FlowInv /\ OwnVaultInv /\ OwnRecordInv)


LEMMA PageBounds == MaxRequest \in Nat /\ MaxRequest > 0
OBVIOUS

(* The types, in parts. *)
ScreenOK ==
    /\ shown \in {"none", "creating", "pending", "pin", "completing", "complete-error",
                  "error", "stopped", "login", "app", "gone"}
    /\ quota \in BOOLEAN /\ held \in 0 .. MaxRequest
    /\ polling \in {"no", "timer", "sent", "pending", "approved", "closed", "failed"}
    /\ leaving \in BOOLEAN /\ excused \in BOOLEAN
MakingOK == making \in {Nothing} \union Creation
ObjectsOK == obj \in [Codes -> [got: BOOLEAN, vault: BOOLEAN, done: BOOLEAN]]
FlowOK ==
    /\ finishing \in [Codes -> Steps]
    /\ clears \subseteq [by: {"begin", "cancel", "poll"}, req: Codes]
    /\ deletes \subseteq Codes
WorldOK ==
    /\ vault \in {Nothing} \union Vaults
    /\ status \in [Codes -> {"none", "pending", "approved", "rejected", "expired", "completed"}]
    /\ issued \in [Codes -> BOOLEAN]

LEMMA TypeParts ==
    PairingPageTypeOK <=> ScreenOK /\ MakingOK /\ ObjectsOK /\ FlowOK /\ WorldOK
BY DEF PairingPageTypeOK, ScreenOK, MakingOK, ObjectsOK, FlowOK, WorldOK

(* clearPairing gives the request up. *)
LEMMA Clearing ==
    ASSUME ScreenOK, FlowOK, NEW by \in {"begin", "cancel", "poll"}, Clear(by)
    PROVE  /\ held' = 0 /\ polling' = "no"
           /\ clears' \subseteq [by: {"begin", "cancel", "poll"}, req: Codes] /\ deletes' \subseteq Codes
<1>1. held' = 0 /\ polling' = "no"
  BY DEF Clear, NewGeneration
<1>2. CASE held # 0 /\ ~obj[held].done
  <2>1. /\ deletes' = deletes \union {held} /\ clears' = clears \union {[by |-> by, req |-> held]}
        /\ held \in Codes
    BY <1>2 DEF Clear, ScreenOK, Codes
  <2> QED BY <1>1, <2>1 DEF FlowOK
<1>3. CASE ~(held # 0 /\ ~obj[held].done)
  <2>1. UNCHANGED <<deletes, clears>>
    BY <1>3 DEF Clear
  <2> QED BY <1>1, <2>1 DEF FlowOK
<1> QED BY <1>2, <1>3

(* The screen, the poll and the flags. *)
LEMMA ScreenTypes ==
    ASSUME OrphanInv, PairingPageNext
    PROVE  ScreenOK'
<1>0. ScreenOK /\ MakingOK /\ ObjectsOK /\ FlowOK /\ WorldOK
  BY TypeParts DEF OrphanInv
<1>1. CASE Begin
  BY <1>0, <1>1 DEF ScreenOK, Begin, Clear, NewGeneration
<1>2. CASE BeginCleared
  BY <1>0, <1>2 DEF ScreenOK, BeginCleared, flowVars, worldVars
<1>3. CASE Posted
  BY <1>0, <1>3 DEF ScreenOK, Posted, flowVars
<1>4. CASE Answered
  BY <1>0, <1>4 DEF ScreenOK, MakingOK, Creation, Answered, StillMine, worldVars
<1>5. CASE QuotaBack
  BY <1>0, <1>5 DEF ScreenOK, QuotaBack, flowVars, worldVars
<1>6. CASE PollSend
  BY <1>0, <1>6 DEF ScreenOK, PollSend, flowVars, worldVars
<1>7. CASE PollRead
  BY <1>0, <1>7 DEF ScreenOK, PollRead, flowVars, worldVars
<1>8. CASE PollAgain
  BY <1>0, <1>8 DEF ScreenOK, PollAgain, flowVars, worldVars
<1>9. CASE PollClosed
  BY <1>0, <1>9 DEF ScreenOK, PollClosed, flowVars, worldVars
<1>10. CASE PollApproved
  BY <1>0, <1>10 DEF ScreenOK, PollApproved, Clear, NewGeneration, worldVars
<1>11. CASE Finish
  BY <1>0, <1>11 DEF ScreenOK, Finish, At, worldVars
<1>12. CASE Cancel
  BY <1>0, <1>12 DEF ScreenOK, Cancel, Clear, NewGeneration, Outdate
<1>13. CASE CancelDone
  <2>1. shown' = "login" /\ held' = 0 /\ polling' = "no" /\ leaving' = FALSE /\ UNCHANGED <<quota, excused>>
    BY <1>13 DEF CancelDone, PageHide, Hide, NewGeneration
  <2>2. held' \in 0 .. MaxRequest
    BY <2>1, PageBounds
  <2> QED BY <1>0, <2>1, <2>2 DEF ScreenOK
<1>14. CASE PageHide
  <2>1. shown' = "gone" /\ held' = 0 /\ polling' = "no" /\ leaving' = FALSE /\ excused' = TRUE /\ UNCHANGED quota
    BY <1>14 DEF CancelDone, PageHide, Hide, NewGeneration
  <2>2. held' \in 0 .. MaxRequest
    BY <2>1, PageBounds
  <2> QED BY <1>0, <2>1, <2>2 DEF ScreenOK
<1>15. CASE Reopen
  BY <1>0, <1>15 DEF ScreenOK, Reopen, flowVars, worldVars
<1>16. ASSUME NEW c \in clears, ClearDone(c)
      PROVE  ScreenOK'
  BY <1>0, <1>16 DEF ScreenOK, ClearDone
<1>17. ASSUME NEW r \in Codes, Verified(r)
      PROVE  ScreenOK'
  BY <1>0, <1>17 DEF ScreenOK, Verified, At, worldVars
<1>18. ASSUME NEW r \in Codes, Created(r)
      PROVE  ScreenOK'
  BY <1>0, <1>18 DEF ScreenOK, Created, At
<1>19. ASSUME NEW r \in Codes, Complete(r)
      PROVE  ScreenOK'
  BY <1>0, <1>19 DEF ScreenOK, Complete, At, pageVars
<1>20. ASSUME NEW r \in Codes, CompleteFailed(r)
      PROVE  ScreenOK'
  BY <1>0, <1>20 DEF ScreenOK, CompleteFailed, At, worldVars
<1>21. ASSUME NEW r \in Codes, Issued(r)
      PROVE  ScreenOK'
  BY <1>0, <1>21 DEF ScreenOK, Issued, SaveSession, NewGeneration, At
<1>22. ASSUME NEW r \in Codes, Deleted(r)
      PROVE  ScreenOK'
  BY <1>0, <1>22 DEF ScreenOK, Deleted, pageVars
<1>23. CASE Discarded \/ (\E r \in Codes : Review(r, "approved") \/ Review(r, "rejected") \/
           Lapse(r))
  <2>1. UNCHANGED <<shown, quota, held, polling, leaving, excused>>
    BY <1>23 DEF Discarded, Review, Lapse, pageVars, flowVars, worldVars
  <2> QED BY <1>0, <2>1 DEF ScreenOK
<1> QED BY <1>1, <1>2, <1>3, <1>4, <1>5, <1>6, <1>7, <1>8, <1>9, <1>10, <1>11, <1>12, <1>13, <1>14, <1>15, <1>16, <1>17, <1>18, <1>19, <1>20, <1>21, <1>22, <1>23 DEF PairingPageNext

(* A creation. *)
LEMMA MakingTypes ==
    ASSUME OrphanInv, PairingPageNext
    PROVE  MakingOK'
<1>0. ScreenOK /\ MakingOK /\ ObjectsOK /\ FlowOK /\ WorldOK
  BY TypeParts DEF OrphanInv
<1>1. CASE Begin
  BY <1>0, <1>1 DEF MakingOK, Creation, Begin, Clear, NewGeneration
<1>2. CASE BeginCleared
  BY <1>0, <1>2 DEF MakingOK, Creation, BeginCleared
<1>3. CASE Posted
  <2>1. making \in Creation /\ (making' = Nothing \/ \E r \in Codes : making' = [making EXCEPT !.step = "answer", !.req = r])
    BY <1>0, <1>3 DEF MakingOK, Posted
  <2>2. CASE making' = Nothing
    BY <2>2 DEF MakingOK
  <2>3. CASE \E r \in Codes : making' = [making EXCEPT !.step = "answer", !.req = r]
    <3>1. PICK r \in Codes : making' = [making EXCEPT !.step = "answer", !.req = r]
      BY <2>3
    <3>2. r \in 0 .. MaxRequest
      BY PageBounds DEF Codes
    <3>3. making' \in Creation
      BY <2>1, <3>1, <3>2 DEF Creation
    <3> QED BY <3>3 DEF MakingOK
  <2> QED BY <2>1, <2>2, <2>3
<1>4. CASE Answered
  BY <1>0, <1>4 DEF MakingOK, Creation, Answered, StillMine
<1>5. CASE Discarded
  BY <1>0, <1>5 DEF MakingOK, Discarded
<1>6. CASE PollApproved
  BY <1>0, <1>6 DEF MakingOK, Creation, PollApproved, Clear, NewGeneration
<1>7. CASE Cancel
  BY <1>0, <1>7 DEF MakingOK, Creation, Cancel, Clear, NewGeneration, Outdate
<1>8. CASE CancelDone
  BY <1>0, <1>8 DEF MakingOK, CancelDone, Hide, NewGeneration
<1>9. CASE PageHide
  BY <1>0, <1>9 DEF MakingOK, PageHide, Hide, NewGeneration
<1>10. CASE QuotaBack \/ PollSend \/ PollRead \/ PollAgain \/ PollClosed \/ Finish \/ Reopen \/ (\E
           c \in clears : ClearDone(c)) \/ (\E r \in Codes : Verified(r) \/ Created(r) \/
           Complete(r) \/ CompleteFailed(r) \/ Issued(r) \/ Review(r, "approved") \/ Review(r,
           "rejected") \/ Lapse(r) \/ Deleted(r))
  <2>1. UNCHANGED <<making>>
    BY <1>10 DEF QuotaBack, PollSend, PollRead, PollAgain, PollClosed, Finish, At, Reopen, ClearDone,
         Verified, Created, Complete, CompleteFailed, Issued, SaveSession, NewGeneration, Review,
         Lapse, Deleted, pageVars, flowVars, worldVars
  <2> QED BY <1>0, <2>1 DEF MakingOK
<1> QED BY <1>1, <1>2, <1>3, <1>4, <1>5, <1>6, <1>7, <1>8, <1>9, <1>10 DEF PairingPageNext

(* The requests of the page. *)
LEMMA ObjectTypes ==
    ASSUME OrphanInv, PairingPageNext
    PROVE  ObjectsOK'
<1>0. ScreenOK /\ MakingOK /\ ObjectsOK /\ FlowOK /\ WorldOK
  BY TypeParts DEF OrphanInv
<1>1. CASE PollApproved
  BY <1>0, <1>1 DEF ObjectsOK, PollApproved, Clear, NewGeneration
<1>2. CASE Reopen
  BY <1>0, <1>2 DEF ObjectsOK, Reopen
<1>3. ASSUME NEW r \in Codes, Created(r)
      PROVE  ObjectsOK'
  BY <1>0, <1>3 DEF ObjectsOK, Created, At
<1>4. ASSUME NEW r \in Codes, Issued(r)
      PROVE  ObjectsOK'
  BY <1>0, <1>4 DEF ObjectsOK, Issued, SaveSession, NewGeneration, At
<1>5. CASE Begin \/ BeginCleared \/ Posted \/ Answered \/ Discarded \/ QuotaBack \/ PollSend \/
           PollRead \/ PollAgain \/ PollClosed \/ Finish \/ Cancel \/ CancelDone \/ PageHide \/ (\E
           c \in clears : ClearDone(c)) \/ (\E r \in Codes : Verified(r) \/ Complete(r) \/
           CompleteFailed(r) \/ Review(r, "approved") \/ Review(r, "rejected") \/ Lapse(r) \/
           Deleted(r))
  <2>1. UNCHANGED <<obj>>
    BY <1>5 DEF Begin, Clear, NewGeneration, BeginCleared, Posted, Answered, StillMine, Discarded,
         QuotaBack, PollSend, PollRead, PollAgain, PollClosed, Finish, At, Cancel, Outdate,
         CancelDone, Hide, PageHide, ClearDone, Verified, Complete, CompleteFailed, Review, Lapse,
         Deleted, pageVars, flowVars, worldVars
  <2> QED BY <1>0, <2>1 DEF ObjectsOK
<1> QED BY <1>1, <1>2, <1>3, <1>4, <1>5 DEF PairingPageNext

(* finishPairing, clearPairing and the DELETEs. *)
LEMMA FlowTypes ==
    ASSUME OrphanInv, PairingPageNext
    PROVE  FlowOK'
<1>0. ScreenOK /\ MakingOK /\ ObjectsOK /\ FlowOK /\ WorldOK
  BY TypeParts DEF OrphanInv
<1>1. CASE Begin
  <2>1. UNCHANGED finishing /\ Clear("begin")
    BY <1>1 DEF Begin
  <2> QED BY <1>0, <2>1, Clearing DEF FlowOK
<1>2. CASE Answered
  <2>1. UNCHANGED <<finishing, clears>> /\ deletes' \subseteq deletes \union {making.req} /\ making.req \in Codes
    BY <1>2 DEF Answered, OrphanInv, PageInv
  <2> QED BY <1>0, <2>1 DEF FlowOK
<1>3. CASE PollApproved
  <2>1. UNCHANGED finishing /\ (UNCHANGED <<clears, deletes>> \/ Clear("poll"))
    BY <1>3 DEF PollApproved
  <2> QED BY <1>0, <2>1, Clearing DEF FlowOK
<1>4. CASE Finish
  BY <1>0, <1>4 DEF FlowOK, Steps, Finish, At
<1>5. CASE Cancel
  <2>1. UNCHANGED finishing /\ Clear("cancel")
    BY <1>5 DEF Cancel
  <2> QED BY <1>0, <2>1, Clearing DEF FlowOK
<1>6. CASE CancelDone
  BY <1>0, <1>6 DEF FlowOK, ScreenOK, Steps, Codes, CancelDone, Hide, NewGeneration
<1>7. CASE PageHide
  BY <1>0, <1>7 DEF FlowOK, ScreenOK, Steps, Codes, PageHide, Hide, NewGeneration
<1>8. ASSUME NEW c \in clears, ClearDone(c)
      PROVE  FlowOK'
  BY <1>0, <1>8 DEF FlowOK, ClearDone
<1>9. ASSUME NEW r \in Codes, Verified(r)
      PROVE  FlowOK'
  BY <1>0, <1>9 DEF FlowOK, Steps, Verified, At
<1>10. ASSUME NEW r \in Codes, Created(r)
      PROVE  FlowOK'
  BY <1>0, <1>10 DEF FlowOK, Steps, Created, At
<1>11. ASSUME NEW r \in Codes, Complete(r)
      PROVE  FlowOK'
  BY <1>0, <1>11 DEF FlowOK, Steps, Complete, At
<1>12. ASSUME NEW r \in Codes, CompleteFailed(r)
      PROVE  FlowOK'
  BY <1>0, <1>12 DEF FlowOK, Steps, CompleteFailed, At
<1>13. ASSUME NEW r \in Codes, Issued(r)
      PROVE  FlowOK'
  BY <1>0, <1>13 DEF FlowOK, Steps, Issued, SaveSession, NewGeneration, At
<1>14. ASSUME NEW r \in Codes, Deleted(r)
      PROVE  FlowOK'
  BY <1>0, <1>14 DEF FlowOK, Deleted
<1>15. CASE BeginCleared \/ Posted \/ Discarded \/ QuotaBack \/ PollSend \/ PollRead \/ PollAgain \/
           PollClosed \/ Reopen \/ (\E r \in Codes : Review(r, "approved") \/ Review(r, "rejected")
           \/ Lapse(r))
  <2>1. UNCHANGED <<finishing, clears, deletes>>
    BY <1>15 DEF BeginCleared, Posted, Discarded, QuotaBack, PollSend, PollRead, PollAgain, PollClosed,
         Reopen, Review, Lapse, pageVars, flowVars, worldVars
  <2> QED BY <1>0, <2>1 DEF FlowOK
<1> QED BY <1>1, <1>2, <1>3, <1>4, <1>5, <1>6, <1>7, <1>8, <1>9, <1>10, <1>11, <1>12, <1>13, <1>14, <1>15 DEF PairingPageNext

(* The vault and the server. *)
LEMMA WorldTypes ==
    ASSUME OrphanInv, PairingPageNext
    PROVE  WorldOK'
<1>0. ScreenOK /\ MakingOK /\ ObjectsOK /\ FlowOK /\ WorldOK
  BY TypeParts DEF OrphanInv
<1>1. CASE Posted
  BY <1>0, <1>1 DEF WorldOK, Posted
<1>2. ASSUME NEW c \in clears, ClearDone(c)
      PROVE  WorldOK'
  BY <1>0, <1>2 DEF WorldOK, ClearDone
<1>3. ASSUME NEW r \in Codes, Created(r)
      PROVE  WorldOK'
  <2>1. UNCHANGED <<status, issued>> /\ (vault' = vault \/ vault' = [req |-> r, session |-> FALSE])
    BY <1>3 DEF Created
  <2>2. vault' \in {Nothing} \union Vaults
    <3>1. [req |-> r, session |-> FALSE] \in Vaults
      BY DEF Vaults
    <3> QED BY <1>0, <2>1, <3>1 DEF WorldOK
  <2> QED BY <1>0, <2>1, <2>2 DEF WorldOK
<1>4. ASSUME NEW r \in Codes, Complete(r)
      PROVE  WorldOK'
  BY <1>0, <1>4 DEF WorldOK, Complete, At
<1>5. ASSUME NEW r \in Codes, Issued(r)
      PROVE  WorldOK'
  BY <1>0, <1>5 DEF WorldOK, Vaults, Issued, SaveSession, NewGeneration, At
<1>6. ASSUME NEW r \in Codes, NEW s \in {"approved", "rejected"}, Review(r, s)
      PROVE  WorldOK'
  BY <1>0, <1>6 DEF WorldOK, Review
<1>7. ASSUME NEW r \in Codes, Lapse(r)
      PROVE  WorldOK'
  BY <1>0, <1>7 DEF WorldOK, Lapse
<1>8. ASSUME NEW r \in Codes, Deleted(r)
      PROVE  WorldOK'
  BY <1>0, <1>8 DEF WorldOK, Deleted
<1>9. CASE Begin \/ BeginCleared \/ Answered \/ Discarded \/ QuotaBack \/ PollSend \/ PollRead \/
           PollAgain \/ PollClosed \/ PollApproved \/ Finish \/ Cancel \/ CancelDone \/ PageHide \/
           Reopen \/ (\E r \in Codes : Verified(r) \/ CompleteFailed(r))
  <2>1. UNCHANGED <<vault, status, issued>>
    BY <1>9 DEF Begin, Clear, NewGeneration, BeginCleared, Answered, StillMine, Discarded, QuotaBack,
         PollSend, PollRead, PollAgain, PollClosed, PollApproved, Finish, At, Cancel, Outdate,
         CancelDone, Hide, PageHide, Reopen, Verified, CompleteFailed, pageVars, flowVars,
         worldVars
  <2> QED BY <1>0, <2>1 DEF WorldOK
<1> QED BY <1>1, <1>2, <1>3, <1>4, <1>5, <1>6, <1>7, <1>8, <1>9 DEF PairingPageNext


(* What some steps change. *)
LEMMA PostedEffect ==
    ASSUME MakingOK, WorldOK, Posted
    PROVE  /\ making # Nothing /\ making \in Creation /\ making.step = "post"
           /\ UNCHANGED <<held, obj, polling, finishing, leaving, clears, deletes, vault, issued>>
           /\ shown' \in {shown, "error"} /\ (~excused' => ~excused)
           /\ \A q \in Codes : status'[q] = status[q] \/ (status[q] = "none" /\ status'[q] = "pending")
           /\ making' = Nothing =>
                 (~excused' => status' = status) /\ (shown' = shown \/ making.fresh)
           /\ making' # Nothing =>
                 /\ making' \in Creation /\ making'.step = "answer" /\ shown' = shown
                 /\ making'.fresh = making.fresh /\ making'.wanted = making.wanted
                 /\ making'.req \in Codes /\ status[making'.req] = "none" /\ status'[making'.req] = "pending"
                 /\ \A q \in Codes : q # making'.req => status'[q] = status[q]
<1>1. /\ making # Nothing /\ making \in Creation /\ making.step = "post"
      /\ UNCHANGED <<held, obj, polling, finishing, leaving, clears, deletes, vault, issued>>
  BY DEF Posted, MakingOK, flowVars
<1>2. ASSUME NEW r \in Codes, status[r] = "none", status' = [status EXCEPT ![r] = "pending"],
             making' = [making EXCEPT !.step = "answer", !.req = r], UNCHANGED <<shown, excused>>
      PROVE  /\ making' \in Creation /\ making'.step = "answer"
             /\ making'.fresh = making.fresh /\ making'.wanted = making.wanted /\ making'.req = r
             /\ status'[r] = "pending" /\ \A q \in Codes : q # r => status'[q] = status[q]
  <2>1. r \in 0 .. MaxRequest
    BY PageBounds DEF Codes
  <2>2. making' \in Creation /\ making'.step = "answer" /\ making'.req = r
    BY <1>1, <1>2, <2>1 DEF Creation
  <2>3. making'.fresh = making.fresh /\ making'.wanted = making.wanted
    BY <1>1, <1>2
  <2>4. status'[r] = "pending" /\ \A q \in Codes : q # r => status'[q] = status[q]
    BY <1>2 DEF WorldOK
  <2> QED BY <2>2, <2>3, <2>4
<1>3. ASSUME NEW r \in Codes, status[r] = "none", status' = [status EXCEPT ![r] = "pending"],
             making' = Nothing, excused' = TRUE
      PROVE  \A q \in Codes : status'[q] = status[q] \/ (status[q] = "none" /\ status'[q] = "pending")
  BY <1>3
<1>4. \/ \E r \in Codes : /\ status[r] = "none" /\ status' = [status EXCEPT ![r] = "pending"]
                          /\ making' = [making EXCEPT !.step = "answer", !.req = r] /\ UNCHANGED <<shown, excused>>
      \/ \E r \in Codes : /\ status[r] = "none" /\ status' = [status EXCEPT ![r] = "pending"]
                          /\ making' = Nothing /\ shown' = (IF making.fresh THEN "error" ELSE shown) /\ excused' = TRUE
      \/ /\ making' = Nothing /\ shown' = (IF making.fresh THEN "error" ELSE shown)
         /\ UNCHANGED <<status, excused>>
  BY DEF Posted
<1>5. \A m : m \in Creation => m # Nothing
  OBVIOUS
<1>6. CASE \E r \in Codes : /\ status[r] = "none" /\ status' = [status EXCEPT ![r] = "pending"]
                            /\ making' = [making EXCEPT !.step = "answer", !.req = r] /\ UNCHANGED <<shown, excused>>
  <2>1. PICK r \in Codes : /\ status[r] = "none" /\ status' = [status EXCEPT ![r] = "pending"]
                           /\ making' = [making EXCEPT !.step = "answer", !.req = r] /\ UNCHANGED <<shown, excused>>
    BY <1>6
  <2>2. /\ making' \in Creation /\ making'.step = "answer"
        /\ making'.fresh = making.fresh /\ making'.wanted = making.wanted /\ making'.req = r
        /\ status'[r] = "pending" /\ \A q \in Codes : q # r => status'[q] = status[q]
    BY <1>2, <2>1
  <2>3. /\ making' # Nothing /\ UNCHANGED <<shown, excused>> /\ status[making'.req] = "none"
        /\ making'.req \in Codes /\ status'[making'.req] = "pending"
        /\ \A q \in Codes : q # making'.req => status'[q] = status[q]
    BY <1>5, <2>1, <2>2
  <2>4. \A q \in Codes : status'[q] = status[q] \/ (status[q] = "none" /\ status'[q] = "pending")
    BY <2>1, <2>2
  <2> QED BY <1>1, <2>2, <2>3, <2>4
<1>7. CASE \E r \in Codes : /\ status[r] = "none" /\ status' = [status EXCEPT ![r] = "pending"]
                            /\ making' = Nothing /\ shown' = (IF making.fresh THEN "error" ELSE shown) /\ excused' = TRUE
  BY <1>1, <1>3, <1>7
<1>8. CASE /\ making' = Nothing /\ shown' = (IF making.fresh THEN "error" ELSE shown)
           /\ UNCHANGED <<status, excused>>
  BY <1>1, <1>8
<1> QED BY <1>4, <1>6, <1>7, <1>8

LEMMA BeginClearedEffect ==
    ASSUME MakingOK, BeginCleared
    PROVE  /\ making # Nothing /\ making.step = "clear" /\ \A c \in clears : c.by # "begin"
           /\ UNCHANGED <<quota, held, obj, polling, finishing, leaving, clears, deletes, vault, status, issued, excused>>
           /\ \/ making' = Nothing /\ shown' \in {shown, "error"}
              \/ /\ making.wanted /\ making' \in Creation /\ making'.step = "post" /\ making'.wanted
                 /\ shown' = "creating"
<1>1. making # Nothing /\ making \in Creation
  BY DEF BeginCleared, MakingOK
<1>2. \/ making' = Nothing /\ shown' \in {shown, "error"}
      \/ /\ making.wanted /\ making' = [making EXCEPT !.step = "post", !.fresh = TRUE] /\ shown' = "creating"
  BY DEF BeginCleared
<1>3. ASSUME making.wanted, making' = [making EXCEPT !.step = "post", !.fresh = TRUE]
      PROVE  making' \in Creation /\ making'.step = "post" /\ making'.wanted
  <2>1. making' \in Creation /\ making'.step = "post"
    BY <1>1, <1>3 DEF Creation
  <2>2. making'.wanted = making.wanted
    BY <1>1, <1>3 DEF Creation
  <2> QED BY <1>3, <2>1, <2>2
<1> QED BY <1>2, <1>3 DEF BeginCleared, flowVars, worldVars

LEMMA CreatedEffect ==
    ASSUME ObjectsOK, FlowOK, WorldOK, NEW r \in Codes, Created(r)
    PROVE  /\ OnPage /\ finishing[r] = "create"
           /\ UNCHANGED <<making, quota, held, polling, leaving, clears, deletes, status, issued, excused>>
           /\ shown' \in {"completing", "pin"}
           /\ \A q \in Codes : q # r => obj'[q] = obj[q] /\ finishing'[q] = finishing[q]
           /\ obj'[r].got = obj[r].got /\ obj'[r].done = obj[r].done
           /\ \/ /\ vault' \in Vaults /\ vault' # Nothing /\ vault'.req = r
                 /\ obj'[r].vault /\ finishing'[r] = "post"
              \/ vault' = vault /\ obj'[r].vault = obj[r].vault /\ finishing'[r] = "no"
<1>1. /\ OnPage /\ finishing[r] = "create"
      /\ UNCHANGED <<making, quota, held, polling, leaving, clears, deletes, status, issued, excused>>
      /\ shown' \in {"completing", "pin"}
  BY DEF Created
<1>2. CASE /\ vault' = [req |-> r, session |-> FALSE] /\ obj' = [obj EXCEPT ![r].vault = TRUE]
           /\ finishing' = [finishing EXCEPT ![r] = "post"]
  <2>1. vault' \in Vaults /\ vault' # Nothing /\ vault'.req = r
    <3>1. vault' \in Vaults /\ vault'.req = r
      BY <1>2 DEF Vaults
    <3> QED BY <3>1
  <2>2. /\ \A q \in Codes : q # r => obj'[q] = obj[q]
        /\ obj'[r].got = obj[r].got /\ obj'[r].done = obj[r].done /\ obj'[r].vault
    BY <1>2 DEF ObjectsOK
  <2>3. finishing'[r] = "post" /\ \A q \in Codes : q # r => finishing'[q] = finishing[q]
    BY <1>2 DEF FlowOK
  <2> QED BY <1>1, <2>1, <2>2, <2>3
<1>3. CASE finishing' = [finishing EXCEPT ![r] = "no"] /\ UNCHANGED <<vault, obj>>
  BY <1>1, <1>3 DEF FlowOK
<1> QED BY <1>2, <1>3 DEF Created, At

(* clearPairing, from a page that may hold a request. *)
LEMMA ClearEffect ==
    ASSUME ScreenOK, FlowOK, NEW by \in {"begin", "cancel", "poll"}, Clear(by)
    PROVE  /\ held' = 0 /\ polling' = "no"
           /\ \A c \in clears' : c \in clears \/ (c.by = by /\ c.req = held /\ held # 0)
           /\ clears \subseteq clears' /\ deletes \subseteq deletes'
           /\ held # 0 /\ ~obj[held].done => held \in deletes' /\ \E c \in clears' : c.req = held
<1>1. held' = 0 /\ polling' = "no"
  BY DEF Clear, NewGeneration
<1>2. CASE held # 0 /\ ~obj[held].done
  <2> DEFINE n == [by |-> by, req |-> held]
  <2>1. deletes' = deletes \union {held} /\ clears' = clears \union {n}
    BY <1>2 DEF Clear
  <2>2. n.by = by /\ n.req = held
    OBVIOUS
  <2> HIDE DEF n
  <2> QED BY <1>1, <1>2, <2>1, <2>2
<1>3. CASE ~(held # 0 /\ ~obj[held].done)
  BY <1>1, <1>3 DEF Clear
<1> QED BY <1>2, <1>3

LEMMA PollApprovedEffect ==
    ASSUME ScreenOK, ObjectsOK, PageInv, PollApproved
    PROVE  /\ OnPage /\ polling = "approved" /\ held \in Codes /\ making = Nothing /\ making' = Nothing
           /\ UNCHANGED <<quota, finishing, leaving, vault, status, issued, excused>>
           /\ \/ /\ polling' = "no" /\ shown' = "pin" /\ UNCHANGED <<held, clears, deletes>>
                 /\ \A q \in Codes : q # held => obj'[q] = obj[q]
                 /\ obj'[held].got /\ obj'[held].vault = obj[held].vault /\ obj'[held].done = obj[held].done
              \/ Clear("poll") /\ UNCHANGED <<shown, obj>>
<1>1. /\ OnPage /\ polling = "approved" /\ held \in Codes /\ making = Nothing
  BY DEF PollApproved, PageInv, ScreenOK, Codes
<1>2. UNCHANGED <<quota, finishing, leaving, vault, status, issued, excused>> /\ making' = Nothing
  BY <1>1 DEF PollApproved, worldVars
<1>3. CASE /\ obj' = [obj EXCEPT ![held].got = TRUE] /\ polling' = "no" /\ shown' = "pin"
           /\ UNCHANGED <<held, clears, deletes>>
  <2>1. /\ \A q \in Codes : q # held => obj'[q] = obj[q]
        /\ obj'[held].got /\ obj'[held].vault = obj[held].vault /\ obj'[held].done = obj[held].done
    BY <1>1, <1>3 DEF ObjectsOK
  <2> QED BY <1>1, <1>2, <1>3, <2>1
<1>4. CASE Clear("poll") /\ UNCHANGED <<shown, obj>>
  BY <1>1, <1>2, <1>4
<1> QED BY <1>3, <1>4 DEF PollApproved

LEMMA CancelEffect ==
    ASSUME MakingOK, Cancel
    PROVE  /\ OnPage /\ leaving' /\ Clear("cancel") /\ (~excused' => ~excused /\ ~Processing)
           /\ UNCHANGED <<shown, quota, obj, finishing, vault, status, issued>>
           /\ making = Nothing => making' = Nothing
           /\ making # Nothing => /\ making' \in Creation /\ making'.step = making.step /\ making'.req = making.req
                                  /\ ~making'.fresh /\ ~making'.wanted
<1>1. /\ OnPage /\ leaving' /\ Clear("cancel") /\ (~excused' => ~excused /\ ~Processing)
      /\ UNCHANGED <<shown, quota, obj, finishing, vault, status, issued>>
      /\ making' = (IF making = Nothing THEN making ELSE Outdate(making))
  BY DEF Cancel, OnPage
<1>2. making # Nothing => making \in Creation
  BY DEF MakingOK
<1>3. ASSUME making # Nothing
      PROVE  /\ making' \in Creation /\ making'.step = making.step /\ making'.req = making.req
             /\ ~making'.fresh /\ ~making'.wanted
  BY <1>1, <1>2, <1>3 DEF Outdate, Creation
<1> QED BY <1>1, <1>3

LEMMA BeginEffect ==
    ASSUME Begin
    PROVE  /\ OnPage /\ making = Nothing /\ Clear("begin") /\ (~excused' => ~excused /\ ~leaving /\ ~Processing)
           /\ UNCHANGED <<shown, quota, obj, finishing, leaving, vault, status, issued>>
           /\ making' \in Creation /\ making' # Nothing /\ making'.step = "clear" /\ making'.wanted
<1>1. /\ OnPage /\ making = Nothing /\ Clear("begin") /\ (~excused' => ~excused /\ ~leaving /\ ~Processing)
      /\ UNCHANGED <<shown, quota, obj, finishing, leaving, vault, status, issued>>
      /\ making' = [step |-> "clear", req |-> 0, fresh |-> TRUE, wanted |-> TRUE]
  BY DEF Begin, OnPage
<1>2. [step |-> "clear", req |-> 0, fresh |-> TRUE, wanted |-> TRUE] \in Creation
  BY PageBounds DEF Creation
<1> QED BY <1>1, <1>2


(* Only codes that were made come to the page. *)
LEMMA UnknownStep ==
    ASSUME OrphanInv, PairingPageNext
    PROVE  UnknownInv'
<1>0. ScreenOK /\ MakingOK /\ ObjectsOK /\ FlowOK /\ WorldOK /\ UnknownInv /\ PageInv /\ FinishInv
  BY TypeParts DEF OrphanInv
<1>1. CASE Begin
  BY <1>0, <1>1 DEF UnknownInv, Codes, Begin, Clear, NewGeneration
<1>2. CASE Posted
  BY <1>0, <1>2, PostedEffect DEF UnknownInv
<1>3. CASE Answered
  BY <1>0, <1>3 DEF UnknownInv, PageInv, Answered, StillMine, worldVars
<1>4. CASE PollSend
  BY <1>0, <1>4 DEF UnknownInv, Codes, PollSend, flowVars, worldVars
<1>5. CASE PollClosed
  BY <1>0, <1>5 DEF UnknownInv, Codes, PollClosed, flowVars, worldVars
<1>6. CASE PollApproved
  BY <1>0, <1>6 DEF UnknownInv, ObjectsOK, Codes, PollApproved, Clear, NewGeneration, worldVars
<1>7. CASE Cancel
  BY <1>0, <1>7 DEF UnknownInv, Codes, Cancel, Clear, NewGeneration, Outdate
<1>8. CASE CancelDone
  BY <1>0, <1>8 DEF UnknownInv, Codes, CancelDone, Hide, NewGeneration
<1>9. CASE PageHide
  BY <1>0, <1>9 DEF UnknownInv, Codes, PageHide, Hide, NewGeneration
<1>10. CASE Reopen
  BY <1>0, <1>10 DEF UnknownInv, PageInv, Codes, Reopen, flowVars
<1>11. ASSUME NEW c \in clears, ClearDone(c)
      PROVE  UnknownInv'
  BY <1>0, <1>11 DEF UnknownInv, ClearDone
<1>12. ASSUME NEW r \in Codes, Created(r)
      PROVE  UnknownInv'
  <2>1. UNCHANGED <<status, held, clears>> /\ \A q \in Codes : obj'[q].got = obj[q].got
    BY <1>0, <1>12, CreatedEffect
  <2> QED BY <1>0, <2>1 DEF UnknownInv
<1>13. ASSUME NEW r \in Codes, Complete(r)
      PROVE  UnknownInv'
  BY <1>0, <1>13 DEF UnknownInv, WorldOK, Complete, At, pageVars
<1>14. ASSUME NEW r \in Codes, Issued(r)
      PROVE  UnknownInv'
  BY <1>0, <1>14 DEF UnknownInv, Codes, Issued, SaveSession, NewGeneration, At
<1>15. ASSUME NEW r \in Codes, NEW s \in {"approved", "rejected"}, Review(r, s)
      PROVE  UnknownInv'
  BY <1>0, <1>15 DEF UnknownInv, Review, pageVars, flowVars
<1>16. ASSUME NEW r \in Codes, Lapse(r)
      PROVE  UnknownInv'
  BY <1>0, <1>16 DEF UnknownInv, Lapse, pageVars, flowVars
<1>17. ASSUME NEW r \in Codes, Deleted(r)
      PROVE  UnknownInv'
  BY <1>0, <1>17 DEF UnknownInv, WorldOK, Deleted, pageVars
<1>18. CASE BeginCleared \/ Discarded \/ QuotaBack \/ PollRead \/ PollAgain \/ Finish \/ (\E r \in
           Codes : Verified(r) \/ CompleteFailed(r))
  <2>1. UNCHANGED <<status, held, obj, clears>>
    BY <1>18 DEF BeginCleared, Discarded, QuotaBack, PollRead, PollAgain, Finish, At, Verified,
         CompleteFailed, pageVars, flowVars, worldVars
  <2> QED BY <1>0, <2>1 DEF UnknownInv
<1> QED BY <1>1, <1>2, <1>3, <1>4, <1>5, <1>6, <1>7, <1>8, <1>9, <1>10, <1>11, <1>12, <1>13, <1>14, <1>15, <1>16, <1>17, <1>18 DEF PairingPageNext


(* The parts of the page. *)
LEMMA PageStep ==
    ASSUME OrphanInv, PairingPageNext
    PROVE  PageInv'
<1>0. ScreenOK /\ MakingOK /\ ObjectsOK /\ FlowOK /\ WorldOK /\ UnknownInv /\ PageInv /\ FinishInv
  BY TypeParts DEF OrphanInv
<1>1. CASE Begin
  BY <1>0, <1>1 DEF PageInv, Begin, Clear, NewGeneration
<1>2. CASE BeginCleared
  BY <1>0, <1>2, BeginClearedEffect DEF PageInv
<1>3. CASE Posted
  BY <1>0, <1>3, PostedEffect DEF UnknownInv, PageInv
<1>4. CASE Answered
  BY <1>0, <1>4 DEF PageInv, MakingOK, Codes, Creation, Answered, StillMine
<1>5. CASE Discarded
  BY <1>0, <1>5 DEF PageInv, Discarded
<1>6. CASE PollSend
  BY <1>0, <1>6 DEF PageInv, PollSend
<1>7. CASE PollRead
  BY <1>0, <1>7 DEF UnknownInv, PageInv, ScreenOK, WorldOK, Codes, PollRead, worldVars
<1>8. CASE PollAgain
  BY <1>0, <1>8 DEF PageInv, PollAgain
<1>9. CASE PollClosed
  BY <1>0, <1>9 DEF PageInv, PollClosed
<1>10. CASE PollApproved
  BY <1>0, <1>10 DEF PageInv, PollApproved, Clear, NewGeneration
<1>11. CASE Finish
  BY <1>0, <1>11 DEF PageInv, Finish, At
<1>12. CASE Cancel
  BY <1>0, <1>12 DEF PageInv, Cancel, Clear, NewGeneration, Outdate
<1>13. CASE CancelDone
  BY <1>0, <1>13 DEF PageInv, Processing, CancelDone, Hide, NewGeneration
<1>14. CASE PageHide
  BY <1>0, <1>14 DEF PageInv, Processing, PageHide, Hide, NewGeneration
<1>15. CASE Reopen
  BY <1>0, <1>15 DEF PageInv, Reopen
<1>16. ASSUME NEW c \in clears, ClearDone(c)
      PROVE  PageInv'
  BY <1>0, <1>16 DEF PageInv, ClearDone
<1>17. ASSUME NEW r \in Codes, Verified(r)
      PROVE  PageInv'
  BY <1>0, <1>17 DEF PageInv, Processing, Verified, At, worldVars
<1>18. ASSUME NEW r \in Codes, Created(r)
      PROVE  PageInv'
  <2>1. /\ UNCHANGED <<making, held, polling, clears, leaving, status>> /\ shown' \in {"completing", "pin"}
        /\ \A q \in Codes : obj'[q].got = obj[q].got
    BY <1>0, <1>18, CreatedEffect
  <2>2. held # 0 => held \in Codes
    BY <1>0 DEF ScreenOK, Codes
  <2> QED BY <1>0, <2>1, <2>2 DEF PageInv
<1>19. ASSUME NEW r \in Codes, Complete(r)
      PROVE  PageInv'
  BY <1>0, <1>19 DEF PageInv, Processing, ScreenOK, WorldOK, Codes, Complete, At, pageVars
<1>20. ASSUME NEW r \in Codes, CompleteFailed(r)
      PROVE  PageInv'
  BY <1>0, <1>20 DEF PageInv, CompleteFailed, At, worldVars
<1>21. ASSUME NEW r \in Codes, Issued(r)
      PROVE  PageInv'
  BY <1>0, <1>21 DEF PageInv, Issued, SaveSession, NewGeneration, At
<1>22. ASSUME NEW r \in Codes, NEW s \in {"approved", "rejected"}, Review(r, s)
      PROVE  PageInv'
  BY <1>0, <1>22 DEF PageInv, Processing, Review, pageVars, flowVars
<1>23. ASSUME NEW r \in Codes, Lapse(r)
      PROVE  PageInv'
  BY <1>0, <1>23 DEF PageInv, Processing, Lapse, pageVars, flowVars
<1>24. ASSUME NEW r \in Codes, Deleted(r)
      PROVE  PageInv'
  BY <1>0, <1>24 DEF PageInv, Processing, ScreenOK, WorldOK, Codes, Deleted, pageVars
<1>25. CASE QuotaBack
  <2>1. UNCHANGED <<making, held, polling, obj, status, clears, shown, leaving, finishing>>
    BY <1>25 DEF QuotaBack, flowVars, worldVars
  <2> QED BY <1>0, <2>1 DEF PageInv, Processing
<1> QED BY <1>1, <1>2, <1>3, <1>4, <1>5, <1>6, <1>7, <1>8, <1>9, <1>10, <1>11, <1>12, <1>13, <1>14, <1>15, <1>16, <1>17, <1>18, <1>19, <1>20, <1>21, <1>22, <1>23, <1>24, <1>25 DEF PairingPageNext


(* finishPairing. *)
LEMMA FinishStep ==
    ASSUME OrphanInv, PairingPageNext
    PROVE  FinishInv'
<1>0. ScreenOK /\ MakingOK /\ ObjectsOK /\ FlowOK /\ WorldOK /\ PageInv /\ FinishInv
  BY TypeParts DEF OrphanInv
<1>1. CASE Posted
  BY <1>0, <1>1 DEF FinishInv, WorldOK, Posted, flowVars
<1>2. CASE PollApproved
  BY <1>0, <1>2, PollApprovedEffect, ClearEffect DEF FinishInv
<1>3. CASE Finish
  BY <1>0, <1>3 DEF FinishInv, FlowOK, Finish, At, worldVars
<1>4. CASE CancelDone
  BY <1>0, <1>4 DEF FinishInv, CancelDone, Hide, NewGeneration
<1>5. CASE PageHide
  BY <1>0, <1>5 DEF FinishInv, PageHide, Hide, NewGeneration
<1>6. CASE Reopen
  BY <1>0, <1>6 DEF PageInv, FinishInv, Processing, Reopen, flowVars
<1>7. ASSUME NEW r \in Codes, Verified(r)
      PROVE  FinishInv'
  BY <1>0, <1>7 DEF FinishInv, FlowOK, Verified, At, worldVars
<1>8. ASSUME NEW r \in Codes, Created(r)
      PROVE  FinishInv'
  BY <1>0, <1>8, CreatedEffect DEF FinishInv, Creation
<1>9. ASSUME NEW r \in Codes, Complete(r)
      PROVE  FinishInv'
  BY <1>0, <1>9 DEF FinishInv, FlowOK, WorldOK, Complete, At, pageVars
<1>10. ASSUME NEW r \in Codes, CompleteFailed(r)
      PROVE  FinishInv'
  BY <1>0, <1>10 DEF FinishInv, CompleteFailed, At, worldVars
<1>11. ASSUME NEW r \in Codes, Issued(r)
      PROVE  FinishInv'
  BY <1>0, <1>11 DEF FinishInv, Issued, SaveSession, NewGeneration, At
<1>12. ASSUME NEW r \in Codes, NEW s \in {"approved", "rejected"}, Review(r, s)
      PROVE  FinishInv'
  BY <1>0, <1>12 DEF FinishInv, Review, pageVars, flowVars
<1>13. ASSUME NEW r \in Codes, Lapse(r)
      PROVE  FinishInv'
  BY <1>0, <1>13 DEF FinishInv, Lapse, pageVars, flowVars
<1>14. ASSUME NEW r \in Codes, Deleted(r)
      PROVE  FinishInv'
  BY <1>0, <1>14 DEF FinishInv, WorldOK, Deleted, pageVars
<1>15. CASE Begin \/ BeginCleared \/ Answered \/ Discarded \/ QuotaBack \/ PollSend \/ PollRead \/
           PollAgain \/ PollClosed \/ Cancel \/ (\E c \in clears : ClearDone(c))
  <2>1. UNCHANGED <<obj, finishing, issued, status>>
    BY <1>15 DEF Begin, Clear, NewGeneration, BeginCleared, Answered, StillMine, Discarded, QuotaBack,
         PollSend, PollRead, PollAgain, PollClosed, Cancel, Outdate, ClearDone, pageVars, flowVars,
         worldVars
  <2> QED BY <1>0, <2>1 DEF FinishInv
<1> QED BY <1>1, <1>2, <1>3, <1>4, <1>5, <1>6, <1>7, <1>8, <1>9, <1>10, <1>11, <1>12, <1>13, <1>14, <1>15 DEF PairingPageNext


(* clearPairing. *)
LEMMA ClearStep ==
    ASSUME OrphanInv, PairingPageNext
    PROVE  ClearInv'
<1>0. ScreenOK /\ MakingOK /\ ObjectsOK /\ FlowOK /\ WorldOK /\ PageInv /\ ClearInv
  BY TypeParts DEF OrphanInv
<1>1. CASE Begin
  BY <1>0, <1>1, BeginEffect, ClearEffect DEF ClearInv, FlowOK, Codes
<1>2. CASE BeginCleared
  BY <1>0, <1>2 DEF ClearInv, BeginCleared, flowVars
<1>3. CASE Posted
  BY <1>0, <1>3 DEF ClearInv, Posted, flowVars
<1>4. CASE Answered
  BY <1>0, <1>4 DEF PageInv, ClearInv, Answered, StillMine
<1>5. CASE Discarded
  BY <1>0, <1>5 DEF ClearInv, Discarded, flowVars
<1>6. CASE PollSend
  BY <1>0, <1>6 DEF ClearInv, FlowOK, Codes, PollSend, flowVars
<1>7. CASE PollClosed
  BY <1>0, <1>7 DEF ClearInv, FlowOK, Codes, PollClosed, flowVars
<1>8. CASE PollApproved
  BY <1>0, <1>8 DEF PageInv, ClearInv, ObjectsOK, FlowOK, Codes, PollApproved, Clear, NewGeneration
<1>9. CASE Cancel
  BY <1>0, <1>9, CancelEffect, ClearEffect DEF ClearInv, FlowOK, Codes
<1>10. CASE CancelDone
  BY <1>0, <1>10 DEF ClearInv, CancelDone, Hide, NewGeneration
<1>11. CASE PageHide
  BY <1>0, <1>11 DEF ClearInv, PageHide, Hide, NewGeneration
<1>12. CASE Reopen
  BY <1>0, <1>12 DEF PageInv, ClearInv, Reopen, flowVars
<1>13. ASSUME NEW c \in clears, ClearDone(c)
      PROVE  ClearInv'
  BY <1>0, <1>13 DEF ClearInv, ClearDone
<1>14. ASSUME NEW r \in Codes, Created(r)
      PROVE  ClearInv'
  BY <1>0, <1>14, CreatedEffect DEF ClearInv, FlowOK
<1>15. ASSUME NEW r \in Codes, Issued(r)
      PROVE  ClearInv'
  BY <1>0, <1>15 DEF ClearInv, FlowOK, Codes, Issued, SaveSession, NewGeneration, At
<1>16. CASE QuotaBack \/ PollRead \/ PollAgain \/ Finish \/ (\E r \in Codes : Verified(r) \/
           Complete(r) \/ CompleteFailed(r) \/ Review(r, "approved") \/ Review(r, "rejected") \/
           Lapse(r) \/ Deleted(r))
  <2>1. UNCHANGED <<clears, held, making, leaving, obj>>
    BY <1>16 DEF QuotaBack, PollRead, PollAgain, Finish, At, Verified, Complete, CompleteFailed, Review,
         Lapse, Deleted, pageVars, flowVars, worldVars
  <2> QED BY <1>0, <2>1 DEF ClearInv
<1> QED BY <1>1, <1>2, <1>3, <1>4, <1>5, <1>6, <1>7, <1>8, <1>9, <1>10, <1>11, <1>12, <1>13, <1>14, <1>15, <1>16 DEF PairingPageNext


(* One request is at work. *)
LEMMA FlowStep ==
    ASSUME OrphanInv, PairingPageNext, FlowInv, OwnVaultInv, OwnRecordInv, ~excused'
    PROVE  FlowInv'
<1>0. ScreenOK /\ MakingOK /\ ObjectsOK /\ FlowOK /\ WorldOK /\ PageInv /\ FinishInv /\ FlowInv /\ ~excused'
  BY TypeParts DEF OrphanInv
<1>1. CASE Begin
  BY <1>0, <1>1 DEF FlowInv, Processing, Begin, Clear, NewGeneration
<1>2. CASE BeginCleared
  BY <1>0, <1>2 DEF FlowInv, BeginCleared, flowVars
<1>3. CASE Posted
  BY <1>0, <1>3, PostedEffect DEF FlowInv
<1>4. CASE Answered
  BY <1>0, <1>4 DEF PageInv, FinishInv, FlowInv, Processing, ScreenOK, MakingOK, ObjectsOK, FlowOK, WorldOK, Codes, Creation, Answered, StillMine
<1>5. CASE Discarded
  BY <1>0, <1>5 DEF FlowInv, Discarded, flowVars
<1>6. CASE PollSend
  BY <1>0, <1>6 DEF PageInv, FinishInv, FlowInv, PollSend, flowVars
<1>7. CASE PollClosed
  BY <1>0, <1>7 DEF PageInv, FinishInv, FlowInv, PollClosed, flowVars
<1>8. CASE PollApproved
  BY <1>0, <1>8, PollApprovedEffect, ClearEffect DEF PageInv, FinishInv, FlowInv
<1>9. CASE Finish
  BY <1>0, <1>9 DEF FlowInv, FlowOK, Finish, At
<1>10. CASE Cancel
  BY <1>0, <1>10 DEF FinishInv, FlowInv, Processing, ObjectsOK, Cancel, Clear, NewGeneration, Outdate
<1>11. CASE CancelDone
  BY <1>0, <1>11 DEF FlowInv, OnPage, CancelDone, Hide, NewGeneration
<1>12. CASE PageHide
  BY <1>0, <1>12 DEF PageHide, Hide, NewGeneration
<1>13. CASE Reopen
  BY <1>0, <1>13 DEF PageInv, FlowInv, Reopen, flowVars
<1>14. ASSUME NEW c \in clears, ClearDone(c)
      PROVE  FlowInv'
  BY <1>0, <1>14 DEF FlowInv, OnPage, ClearDone
<1>15. ASSUME NEW r \in Codes, Verified(r)
      PROVE  FlowInv'
  BY <1>0, <1>15 DEF FlowInv, OnPage, FlowOK, Verified, At
<1>16. ASSUME NEW r \in Codes, Created(r)
      PROVE  FlowInv'
  <2>1. /\ UNCHANGED <<held, leaving, making>> /\ OnPage /\ shown' \in {"completing", "pin"} /\ ~excused
        /\ \A q \in Codes : obj'[q].done = obj[q].done /\ (finishing'[q] # "no" => finishing[q] # "no")
    <3>1. finishing[r] = "create"
      BY <1>0, <1>16, CreatedEffect
    <3> QED BY <1>0, <1>16, <3>1, CreatedEffect
  <2> QED BY <1>0, <2>1 DEF FlowInv, OnPage
<1>17. ASSUME NEW r \in Codes, Complete(r)
      PROVE  FlowInv'
  BY <1>0, <1>17 DEF FlowInv, FlowOK, Complete, At, pageVars
<1>18. ASSUME NEW r \in Codes, CompleteFailed(r)
      PROVE  FlowInv'
  BY <1>0, <1>18 DEF FlowInv, OnPage, CompleteFailed, At
<1>19. ASSUME NEW r \in Codes, Issued(r)
      PROVE  FlowInv'
  BY <1>0, <1>19 DEF PageInv, FlowInv, FlowOK, Codes, Issued, SaveSession, NewGeneration, At
<1>20. ASSUME NEW r \in Codes, Deleted(r)
      PROVE  FlowInv'
  BY <1>0, <1>20 DEF FlowInv, Deleted, pageVars
<1>21. CASE QuotaBack \/ PollRead \/ PollAgain \/ (\E r \in Codes : Review(r, "approved") \/
           Review(r, "rejected") \/ Lapse(r))
  <2>1. UNCHANGED <<finishing, held, leaving, making, obj, shown, excused>>
    BY <1>21 DEF QuotaBack, PollRead, PollAgain, Review, Lapse, pageVars, flowVars, worldVars
  <2> QED BY <1>0, <2>1 DEF FlowInv
<1> QED BY <1>1, <1>2, <1>3, <1>4, <1>5, <1>6, <1>7, <1>8, <1>9, <1>10, <1>11, <1>12, <1>13, <1>14, <1>15, <1>16, <1>17, <1>18, <1>19, <1>20, <1>21 DEF PairingPageNext


(* Whose the vault is. *)
LEMMA OwnVaultStep ==
    ASSUME OrphanInv, PairingPageNext, FlowInv, OwnVaultInv, OwnRecordInv, ~excused'
    PROVE  OwnVaultInv'
<1>0. ScreenOK /\ MakingOK /\ ObjectsOK /\ FlowOK /\ WorldOK /\ PageInv /\ FinishInv /\ ClearInv /\ FlowInv /\ OwnVaultInv /\ ~excused'
  BY TypeParts DEF OrphanInv
<1>1. CASE Begin
  BY <1>0, <1>1, BeginEffect, ClearEffect DEF FlowInv, OwnVaultInv, Vaults, WorldOK
<1>2. CASE BeginCleared
  BY <1>0, <1>2 DEF FlowInv, OwnVaultInv, BeginCleared, flowVars, worldVars
<1>3. CASE Posted
  BY <1>0, <1>3 DEF FlowInv, OwnVaultInv, Posted, flowVars
<1>4. CASE Answered
  BY <1>0, <1>4 DEF PageInv, FinishInv, FlowInv, OwnVaultInv, Vaults, WorldOK, Codes, Answered, StillMine, worldVars
<1>5. CASE PollSend
  BY <1>0, <1>5 DEF PageInv, FinishInv, ClearInv, FlowInv, OwnVaultInv, Vaults, FlowOK, WorldOK, PollSend, worldVars
<1>6. CASE PollClosed
  BY <1>0, <1>6 DEF PageInv, FinishInv, ClearInv, FlowInv, OwnVaultInv, Vaults, FlowOK, WorldOK, PollClosed, worldVars
<1>7. CASE PollApproved
  <2>1. /\ OnPage /\ ~excused /\ held \in Codes /\ ~obj[held].got /\ ~obj[held].vault
        /\ UNCHANGED <<finishing, vault, issued>>
    BY <1>0, <1>7, PollApprovedEffect DEF PageInv, FinishInv
  <2>2. CASE /\ shown' = "pin" /\ UNCHANGED <<held, clears>>
             /\ \A q \in Codes : obj'[q].vault = obj[q].vault
    <3>1. \A c \in clears : c.req \in Codes
      BY <1>0 DEF FlowOK
    <3> QED BY <1>0, <2>1, <2>2, <3>1 DEF OwnVaultInv, OnPage
  <2>3. CASE Clear("poll") /\ UNCHANGED <<shown, obj>>
    <3>1. held' = 0 /\ clears \subseteq clears'
      BY <1>0, <2>3, ClearEffect
    <3> QED BY <1>0, <2>1, <2>3, <3>1 DEF OwnVaultInv
  <2>4. \/ /\ shown' = "pin" /\ UNCHANGED <<held, clears>>
           /\ \A q \in Codes : obj'[q].vault = obj[q].vault
        \/ Clear("poll") /\ UNCHANGED <<shown, obj>>
    BY <1>0, <1>7, PollApprovedEffect
  <2> QED BY <2>2, <2>3, <2>4
<1>8. CASE Finish
  BY <1>0, <1>8 DEF FlowInv, OwnVaultInv, Finish, At, worldVars
<1>9. CASE Cancel
  <2>1. /\ held' = 0 /\ OnPage /\ ~excused /\ clears \subseteq clears'
        /\ UNCHANGED <<shown, obj, finishing, vault, issued>>
        /\ held # 0 /\ ~obj[held].done => \E c \in clears' : c.req = held
    BY <1>0, <1>9, CancelEffect, ClearEffect
  <2>2. \A q \in Codes : ~obj[q].done
    BY <1>0, <2>1 DEF FlowInv, OnPage
  <2>3. vault # Nothing => \E c \in clears' : c.req = vault.req /\ obj[c.req].vault
    BY <1>0, <2>1, <2>2 DEF OwnVaultInv, OnPage, WorldOK, Vaults, Codes
  <2> QED BY <1>0, <2>1, <2>3 DEF OwnVaultInv
<1>10. CASE CancelDone
  BY <1>0, <1>10 DEF FinishInv, ClearInv, FlowInv, OwnVaultInv, OnPage, FlowOK, Codes, CancelDone, Hide, NewGeneration
<1>11. CASE PageHide
  BY <1>0, <1>11 DEF OwnVaultInv, PageHide, Hide, NewGeneration
<1>12. CASE Reopen
  <2>1. held = 0 /\ clears = {} /\ shown # "app"
    BY <1>0, <1>12 DEF PageInv, Reopen
  <2>2. vault # Nothing => vault.req # 0
    BY <1>0 DEF WorldOK, Vaults, Codes
  <2>3. vault = Nothing
    BY <1>0, <2>1, <2>2 DEF OwnVaultInv
  <2>4. shown' = "none" /\ held' = 0 /\ vault' = Nothing /\ issued' = issued
    BY <1>12, <2>1, <2>3 DEF Reopen, worldVars
  <2>5. \A r \in Codes : ~issued[r]
    BY <1>0, <2>3 DEF OwnVaultInv
  <2> QED BY <2>4, <2>5 DEF OwnVaultInv
<1>13. ASSUME NEW c \in clears, ClearDone(c)
      PROVE  OwnVaultInv'
  BY <1>0, <1>13 DEF PageInv, FinishInv, ClearInv, FlowInv, OwnVaultInv, OnPage, FlowOK, Codes, ClearDone
<1>14. ASSUME NEW r \in Codes, Verified(r)
      PROVE  OwnVaultInv'
  BY <1>0, <1>14 DEF FlowInv, OwnVaultInv, OnPage, Verified, At, worldVars
<1>15. ASSUME NEW r \in Codes, Created(r)
      PROVE  OwnVaultInv'
  <2>1. finishing[r] = "create" /\ OnPage /\ OnPage' /\ ~excused /\ held = r /\ UNCHANGED <<held, clears, issued>>
    BY <1>0, <1>15, CreatedEffect DEF FlowInv, OnPage
  <2>2. \A q \in Codes : ~issued[q]
    BY <1>0, <2>1 DEF OwnVaultInv, FlowInv, OnPage
  <2>3. CASE vault' \in Vaults /\ vault' # Nothing /\ vault'.req = r /\ obj'[r].vault
    BY <1>0, <2>1, <2>2, <2>3 DEF OwnVaultInv, OnPage
  <2>4. CASE vault' = vault /\ \A q \in Codes : obj'[q].vault = obj[q].vault
    <3>1. vault # Nothing => vault.req \in Codes
      BY <1>0 DEF WorldOK, Vaults
    <3>2. \A c \in clears : c.req \in Codes
      BY <1>0 DEF FlowOK
    <3> QED BY <1>0, <2>1, <2>2, <2>4, <3>1, <3>2 DEF OwnVaultInv, OnPage
  <2>5. \/ vault' \in Vaults /\ vault' # Nothing /\ vault'.req = r /\ obj'[r].vault
        \/ vault' = vault /\ \A q \in Codes : obj'[q].vault = obj[q].vault
    BY <1>0, <1>15, CreatedEffect
  <2> QED BY <2>3, <2>4, <2>5
<1>16. ASSUME NEW r \in Codes, Complete(r)
      PROVE  OwnVaultInv'
  BY <1>0, <1>16 DEF FinishInv, FlowInv, OwnVaultInv, FlowOK, WorldOK, Codes, Complete, At, pageVars
<1>17. ASSUME NEW r \in Codes, CompleteFailed(r)
      PROVE  OwnVaultInv'
  BY <1>0, <1>17 DEF OwnVaultInv, OnPage, CompleteFailed, At, worldVars
<1>18. ASSUME NEW r \in Codes, Issued(r)
      PROVE  OwnVaultInv'
  <2>1. /\ OnPage /\ finishing[r] = "issued" /\ ~excused /\ held' = 0 /\ shown' = "app" /\ UNCHANGED issued
        /\ vault' = (IF vault = Nothing THEN vault ELSE [vault EXCEPT !.session = TRUE])
    BY <1>0, <1>18 DEF Issued, SaveSession, NewGeneration
  <2>2. issued[r] /\ vault \in Vaults /\ vault.req = r /\ \A q \in Codes : issued[q] => q = r
    BY <1>0, <2>1 DEF FinishInv, OwnVaultInv, WorldOK
  <2>3. vault' \in Vaults /\ vault'.req = r /\ vault'.session
    BY <2>1, <2>2 DEF Vaults
  <2>4. vault' # Nothing
    BY <2>3
  <2> QED BY <2>1, <2>2, <2>3, <2>4 DEF OwnVaultInv
<1>19. ASSUME NEW r \in Codes, Deleted(r)
      PROVE  OwnVaultInv'
  BY <1>0, <1>19 DEF OwnVaultInv, Deleted, pageVars
<1>20. CASE Discarded \/ QuotaBack \/ PollRead \/ PollAgain \/ (\E r \in Codes : Review(r,
           "approved") \/ Review(r, "rejected") \/ Lapse(r))
  <2>1. UNCHANGED <<held, obj, vault, shown, clears, issued, finishing, excused>>
    BY <1>20 DEF Discarded, QuotaBack, PollRead, PollAgain, Review, Lapse, pageVars, flowVars, worldVars
  <2> QED BY <1>0, <2>1 DEF OwnVaultInv
<1> QED BY <1>1, <1>2, <1>3, <1>4, <1>5, <1>6, <1>7, <1>8, <1>9, <1>10, <1>11, <1>12, <1>13, <1>14, <1>15, <1>16, <1>17, <1>18, <1>19, <1>20 DEF PairingPageNext


(* Whose a record is. *)
LEMMA OwnRecordStep ==
    ASSUME OrphanInv, PairingPageNext, FlowInv, OwnVaultInv, OwnRecordInv, ~excused'
    PROVE  OwnRecordInv'
<1>0. ScreenOK /\ MakingOK /\ ObjectsOK /\ FlowOK /\ WorldOK /\ PageInv /\ FinishInv /\ FlowInv /\ OwnRecordInv /\ ~excused'
  BY TypeParts DEF OrphanInv
<1>1. CASE Begin
  BY <1>0, <1>1 DEF FlowInv, OwnRecordInv, Begin, Clear, NewGeneration
<1>2. CASE BeginCleared
  BY <1>0, <1>2 DEF OwnRecordInv, BeginCleared, flowVars, worldVars
<1>3. CASE Posted
  BY <1>0, <1>3, PostedEffect DEF OwnRecordInv
<1>4. CASE Answered
  BY <1>0, <1>4 DEF PageInv, OwnRecordInv, Codes, Answered, StillMine, worldVars
<1>5. CASE Discarded
  BY <1>0, <1>5 DEF OwnRecordInv, Discarded, flowVars, worldVars
<1>6. CASE PollSend
  BY <1>0, <1>6 DEF OwnRecordInv, PollSend, flowVars, worldVars
<1>7. CASE PollClosed
  BY <1>0, <1>7 DEF PageInv, OwnRecordInv, PollClosed, flowVars, worldVars
<1>8. CASE PollApproved
  BY <1>0, <1>8 DEF PageInv, FlowInv, OwnRecordInv, PollApproved, Clear, NewGeneration, worldVars
<1>9. CASE Cancel
  BY <1>0, <1>9, CancelEffect, ClearEffect DEF FlowInv, OwnRecordInv
<1>10. CASE CancelDone
  BY <1>0, <1>10 DEF FlowInv, OwnRecordInv, CancelDone, Hide, NewGeneration
<1>11. CASE PageHide
  BY <1>0, <1>11 DEF OwnRecordInv, PageHide, Hide, NewGeneration
<1>12. ASSUME NEW r \in Codes, Complete(r)
      PROVE  OwnRecordInv'
  BY <1>0, <1>12 DEF OwnRecordInv, WorldOK, Complete, At, pageVars
<1>13. ASSUME NEW r \in Codes, Issued(r)
      PROVE  OwnRecordInv'
  BY <1>0, <1>13 DEF FinishInv, FlowInv, OwnRecordInv, Issued, SaveSession, NewGeneration, At
<1>14. ASSUME NEW r \in Codes, NEW s \in {"approved", "rejected"}, Review(r, s)
      PROVE  OwnRecordInv'
  BY <1>0, <1>14 DEF OwnRecordInv, Review, pageVars, flowVars
<1>15. ASSUME NEW r \in Codes, Lapse(r)
      PROVE  OwnRecordInv'
  BY <1>0, <1>15 DEF OwnRecordInv, Lapse, pageVars, flowVars
<1>16. ASSUME NEW r \in Codes, Deleted(r)
      PROVE  OwnRecordInv'
  BY <1>0, <1>16 DEF OwnRecordInv, WorldOK, Deleted, pageVars
<1>17. CASE QuotaBack \/ PollRead \/ PollAgain \/ Finish \/ Reopen \/ (\E c \in clears :
           ClearDone(c)) \/ (\E r \in Codes : Verified(r) \/ Created(r) \/ CompleteFailed(r))
  <2>1. UNCHANGED <<status, held, deletes, making, excused>>
    BY <1>17 DEF QuotaBack, PollRead, PollAgain, Finish, At, Reopen, ClearDone, Verified, Created,
         CompleteFailed, pageVars, flowVars, worldVars
  <2> QED BY <1>0, <2>1 DEF OwnRecordInv
<1> QED BY <1>1, <1>2, <1>3, <1>4, <1>5, <1>6, <1>7, <1>8, <1>9, <1>10, <1>11, <1>12, <1>13, <1>14, <1>15, <1>16, <1>17 DEF PairingPageNext


(* What was excused stays excused. *)
LEMMA ExcusedStays ==
    ASSUME OrphanInv, PairingPageNext
    PROVE  excused => excused'
<1>0. ScreenOK /\ MakingOK /\ ObjectsOK /\ FlowOK /\ WorldOK
  BY TypeParts DEF OrphanInv
<1>1. CASE Begin \/ Posted \/ Cancel \/ PageHide
  BY <1>1 DEF Begin, Posted, Cancel, PageHide
<1>2. CASE \E r \in Codes : Complete(r) \/ Deleted(r)
  BY <1>2 DEF Complete, Deleted
<1>3. CASE \/ BeginCleared \/ Answered \/ Discarded \/ QuotaBack \/ PollSend \/ PollRead \/ PollAgain
           \/ PollClosed \/ PollApproved \/ Finish \/ CancelDone \/ Reopen
           \/ (\E c \in clears : ClearDone(c))
           \/ \E r \in Codes : \/ Verified(r) \/ Created(r) \/ CompleteFailed(r) \/ Issued(r)
                               \/ Review(r, "approved") \/ Review(r, "rejected") \/ Lapse(r)
  BY <1>3 DEF BeginCleared, Answered, Discarded, QuotaBack, PollSend, PollRead, PollAgain, PollClosed,
       PollApproved, Finish, CancelDone, Reopen, ClearDone, Verified, Created, CompleteFailed, Issued,
       Review, Lapse, worldVars
<1> QED BY <1>1, <1>2, <1>3 DEF PairingPageNext

LEMMA PageStarts == PairingPageInit => OrphanInv
<1> SUFFICES ASSUME PairingPageInit PROVE OrphanInv
  OBVIOUS
<1>1. /\ shown = "none" /\ making = Nothing /\ held = 0 /\ polling = "no" /\ ~leaving /\ clears = {}
      /\ vault = Nothing /\ quota = TRUE /\ leaving = FALSE /\ excused = FALSE /\ deletes = {}
      /\ \A r \in Codes : /\ ~obj[r].got /\ ~obj[r].vault /\ ~obj[r].done /\ finishing[r] = "no"
                          /\ status[r] = "none" /\ ~issued[r]
  BY DEF PairingPageInit
<1>2. PairingPageTypeOK
  <2>1. ScreenOK
    <3>1. held \in 0 .. MaxRequest
      BY <1>1, PageBounds
    <3> QED BY <1>1, <3>1 DEF ScreenOK
  <2>2. ObjectsOK /\ MakingOK
    BY DEF ObjectsOK, MakingOK, PairingPageInit
  <2>3. FlowOK
    BY <1>1 DEF FlowOK, PairingPageInit, Steps
  <2>4. WorldOK
    BY <1>1 DEF WorldOK, PairingPageInit
  <2> QED BY <2>1, <2>2, <2>3, <2>4, TypeParts
<1>3. UnknownInv /\ PageInv /\ FinishInv /\ ClearInv
  BY <1>1, PageBounds DEF UnknownInv, PageInv, FinishInv, ClearInv, Codes
<1>4. FlowInv /\ OwnVaultInv /\ OwnRecordInv
  BY <1>1 DEF FlowInv, OwnVaultInv, OwnRecordInv
<1> QED BY <1>2, <1>3, <1>4 DEF OrphanInv

LEMMA PageSteps == OrphanInv /\ [PairingPageNext]_pairingPageVars => OrphanInv'
<1> SUFFICES ASSUME OrphanInv, [PairingPageNext]_pairingPageVars PROVE OrphanInv'
  OBVIOUS
<1>1. CASE PairingPageNext
  <2>1. PairingPageTypeOK'
    <3>1. ScreenOK' /\ MakingOK' /\ ObjectsOK' /\ FlowOK' /\ WorldOK'
      BY <1>1, ScreenTypes, MakingTypes, ObjectTypes, FlowTypes, WorldTypes
    <3> QED BY <3>1 DEF PairingPageTypeOK, ScreenOK, MakingOK, ObjectsOK, FlowOK, WorldOK
  <2>2. UnknownInv' /\ PageInv' /\ FinishInv' /\ ClearInv'
    BY <1>1, UnknownStep, PageStep, FinishStep, ClearStep
  <2>3. CASE ~excused'
    <3>1. ~excused
      BY <1>1, <2>3, ExcusedStays
    <3>2. FlowInv /\ OwnVaultInv /\ OwnRecordInv
      BY <3>1 DEF OrphanInv
    <3> QED BY <1>1, <2>1, <2>2, <2>3, <3>2, FlowStep, OwnVaultStep, OwnRecordStep DEF OrphanInv
  <2> QED BY <2>1, <2>2, <2>3 DEF OrphanInv
<1>2. CASE UNCHANGED pairingPageVars
  <2>1. UNCHANGED <<shown, making, quota, held, obj, polling, finishing, leaving, clears, deletes,
                    vault, status, issued, excused>>
    BY <1>2 DEF pairingPageVars, pageVars, flowVars, worldVars
  <2>2. PairingPageTypeOK' /\ UnknownInv' /\ PageInv' /\ FinishInv' /\ ClearInv'
    BY <2>1 DEF OrphanInv, PairingPageTypeOK, UnknownInv, PageInv, FinishInv, ClearInv, Processing
  <2>3. excused' \/ (FlowInv' /\ OwnVaultInv' /\ OwnRecordInv')
    BY <2>1 DEF OrphanInv, FlowInv, OwnVaultInv, OwnRecordInv
  <2> QED BY <2>2, <2>3 DEF OrphanInv
<1> QED BY <1>1, <1>2

LEMMA PageInvariance == PairingPageSpec => []OrphanInv
BY PageStarts, PageSteps, PTL DEF PairingPageSpec

(* Cancelling leaves neither a code that could be approved nor a vault, a session that was   *)
(* issued belongs to the vault of the browser or can still be asked for, and the app opens   *)
(* with the session: however creating, polling, finishing and cancelling overlap, but for    *)
(* the lost messages and the cut or overtaken steps that are excused.                        *)
THEOREM NothingIsOrphaned == PairingPageSpec => []NothingOrphaned
<1>1. OrphanInv => NothingOrphaned
  <2> SUFFICES ASSUME OrphanInv PROVE NothingOrphaned
    OBVIOUS
  <2> SUFFICES ASSUME ~excused PROVE NothingOrphaned
    BY DEF NothingOrphaned, CancelledLeavesNothing, NoOrphanSession, AppHasSession
  <2>1. PageInv /\ FinishInv /\ FlowInv /\ OwnVaultInv /\ OwnRecordInv /\ WorldOK
    BY TypeParts DEF OrphanInv
  <2>2. CancelledLeavesNothing
    <3> SUFFICES ASSUME shown = "login", deletes = {}
                 PROVE  vault = Nothing /\ \A r \in Codes : status[r] \notin {"pending", "approved"}
      BY DEF CancelledLeavesNothing
    <3>1. making = Nothing /\ held = 0 /\ clears = {} /\ \A r \in Codes : r # 0
      BY <2>1, PageBounds DEF PageInv, Codes
    <3>2. vault # Nothing => vault.req \in Codes
      BY <2>1 DEF WorldOK, Vaults
    <3> QED BY <2>1, <3>1, <3>2 DEF OwnVaultInv, OwnRecordInv
  <2>3. NoOrphanSession
    BY <2>1 DEF OwnVaultInv, FlowInv, NoOrphanSession
  <2>4. AppHasSession
    BY <2>1 DEF OwnVaultInv, AppHasSession
  <2> QED BY <2>2, <2>3, <2>4 DEF NothingOrphaned
<1> QED BY <1>1, PageInvariance, PTL

(* What the page of a new device keeps always has its type (app/handlers.js). *)
THEOREM PageTypes == PairingPageSpec => []PairingPageTypeOK
<1>1. OrphanInv => PairingPageTypeOK
  BY DEF OrphanInv
<1> QED BY <1>1, PageInvariance, PTL
===============================================================================
