------------------------------ MODULE KeyBackup ------------------------------
(***************************************************************************)
(* The backup of the keys and their recovery: backupKeys and restoreWith   *)
(* of app/data.js, KeyService, the worker's store_shares and recover, and  *)
(* the realm services that keep the shares.                                *)
(*                                                                         *)
(* A backup is known by its version: the key K, the salt and the three     *)
(* shares are made anew for each.  What a client derives from a passcode   *)
(* and a salt matches a share only if passcode and version are its own.    *)
(***************************************************************************)
EXTENDS Naturals, FiniteSets

CONSTANTS
    Realms,       \* realm services; any Threshold shares give K
    Threshold,
    Passcodes,
    Devices,      \* devices that try to restore
    Tries,        \* backup_max_pin_attempts, REALM_MAX_ATTEMPTS
    MaxVersions,  \* bound: backups made
    MaxGuesses,   \* bound: runs of recover
    MaxTurns      \* bound: times store_shares is run for a backup

ASSUME BackupAssumption ==
    /\ IsFiniteSet(Realms) /\ IsFiniteSet(Devices) /\ Threshold \in 1 .. Cardinality(Realms)
    /\ Tries \in Nat \ {0} /\ {MaxVersions, MaxGuesses, MaxTurns} \subseteq Nat

VARIABLES
    code,      \* code[v]: the passcode of backup v
    latest,    \* key_backups.version; 0 before the first
    share,     \* share[r]: the share a realm has: version, attempts, locked
    task,      \* task[v]: realms that store_shares has still to reach, and its runs
    failures, recoveryLock,   \* keys:recovery:failures and :locked in Redis
    restore,   \* restore[d]: a recovery request of a device and what the realms answered; it
               \* goes on when restoreWith gives up after 90 polls
    deviceLock,   \* cx_recovery_lock in localStorage
    runs,         \* runs of recover so far
    wrong         \* history: runs of recover for the latest backup that a realm found wrong since
                  \* the last lock or success, without those killed before they were counted

storeVars == <<code, latest, share, task>>
recoveryVars == <<failures, recoveryLock, wrong>>
backupVars == <<storeVars, recoveryVars, restore, deviceLock, runs>>

Versions == 1 .. MaxVersions
Rest == [pc |-> "gate"]
Refusal == [pc |-> "locked"]    \* recovery was locked when the worker began
Asking ==
    [pc : {"running"}, version : Versions, code : Passcodes, keyed : 0 .. MaxVersions, asked : SUBSET Realms,
     opened : SUBSET (Realms \X Versions), refused : BOOLEAN, shut : BOOLEAN, fair : BOOLEAN]
Ended ==
    [pc : {"done", "wrong_pin", "locked", "failed"}, version : Versions, code : Passcodes,
     opened : SUBSET (Realms \X Versions), fair : BOOLEAN]
Share(v) == [version |-> v, attempts |-> 0, locked |-> FALSE]
NoShare == Share(0)

BackupTypeOK ==
    /\ latest \in 0 .. MaxVersions /\ code \in [1 .. latest -> Passcodes]
    /\ share \in [Realms -> [version : 0 .. MaxVersions, attempts : 0 .. Tries, locked : BOOLEAN]]
    /\ task \in [Versions -> [left : SUBSET Realms, turns : 0 .. MaxTurns]]
    /\ failures \in 0 .. Tries /\ recoveryLock \in BOOLEAN
    /\ restore \in [Devices -> {Rest, Refusal} \union Asking \union Ended]
    /\ deviceLock \in [Devices -> BOOLEAN]
    /\ runs \in 0 .. MaxGuesses /\ wrong \in Nat

----------------------------------------------------------------------------
(* Making a backup *)

\* backupKeys, in setupWith or with a new passcode: the ciphertext is replaced at once, the
\* shares reach the realms by the task.
BackupKeys(c) ==
    /\ latest < MaxVersions
    /\ latest' = latest + 1
    /\ code' = [v \in 1 .. latest' |-> IF v = latest' THEN c ELSE code[v]]
    /\ task' = [task EXCEPT ![latest'] = [left |-> Realms, turns |-> MaxTurns]]
    /\ failures' = 0 /\ recoveryLock' = FALSE   \* both Redis keys hold the version
    /\ wrong' = 0
    /\ UNCHANGED <<share, restore, deviceLock, runs>>

\* Mutant for RecoverySound: a realm takes an older share as well.
AnyStored(r, v) == TRUE

\* put_share: an older share never replaces a newer one.
Stored(r, v) == v >= share[r].version

\* store_shares reaches a realm; a run may have begun before the next backup was made.
StoreShare(v, r) ==
    /\ task[v].turns > 0 /\ r \in task[v].left
    /\ share' = IF Stored(r, v) THEN [share EXCEPT ![r] = Share(v)] ELSE share
    /\ task' = [task EXCEPT ![v].left = @ \ {r}]
    /\ UNCHANGED <<code, latest, recoveryVars, restore, deviceLock, runs>>

\* A run ends with realms it could not reach: the next one, if any, unless superseded.
StoreRetried(v) ==
    /\ task[v].turns > 0 /\ task[v].left # {}
    /\ task' = [task EXCEPT ![v].turns = IF v = latest THEN @ - 1 ELSE 0]
    /\ UNCHANGED <<code, latest, share, recoveryVars, restore, deviceLock, runs>>

----------------------------------------------------------------------------
(* Restoring *)

\* The task has reached every realm with this backup, the latest, and no realm is locked.
Whole(v) == v = latest /\ task[v].left = {} /\ \A r \in Realms : ~share[r].locked

\* restoreWith: the backup as it is now, and a request sealed for each realm.
RestoreWith(d, c) ==
    /\ restore[d].pc # "running" /\ restore[d].pc # "done" /\ ~deviceLock[d]
    /\ latest > 0 /\ runs < MaxGuesses
    /\ runs' = runs + 1
    /\ restore' = [restore EXCEPT ![d] =
           [pc |-> "running", version |-> latest, code |-> c, keyed |-> 0, asked |-> {},
            opened |-> {}, refused |-> FALSE, shut |-> FALSE, fair |-> Whole(latest)]]
    /\ UNCHANGED <<storeVars, recoveryVars, deviceLock>>

\* recover in the worker: nothing is asked while recovery is locked.
RecoverLocked(d) ==
    /\ restore[d].pc = "running" /\ restore[d].asked = {} /\ recoveryLock
    /\ restore' = [restore EXCEPT ![d] = Refusal]
    /\ deviceLock' = [deviceLock EXCEPT ![d] = TRUE]
    /\ UNCHANGED <<storeVars, recoveryVars, runs>>

\* The realm compares what the client derived from its passcode and the salt it was given.
Matches(r, q) == share[r].version = q.version /\ code[q.version] = q.code

\* The keys in Redis are those of the backup that is the latest when the worker begins.
Asked(d, r) ==
    [restore[d] EXCEPT !.asked = @ \union {r}, !.keyed = IF restore[d].asked = {} THEN latest ELSE @]

\* recover in a realm: a share, a wrong passcode counted, or nothing while it is locked.
AskRealm(d, r) ==
    LET q == restore[d]
        next == (IF share[r].attempts >= Tries THEN 0 ELSE share[r].attempts) + 1
        seen == [Asked(d, r) EXCEPT !.fair = @ /\ Whole(q.version)]
    IN /\ q.pc = "running" /\ r \notin q.asked /\ (q.asked = {} => ~recoveryLock)
       /\ share[r].version > 0
       /\ IF share[r].locked
          THEN share' = share /\ wrong' = wrong
               /\ restore' = [restore EXCEPT ![d] = [seen EXCEPT !.shut = TRUE]]
          ELSE IF Matches(r, q)
          THEN /\ share' = [share EXCEPT ![r].attempts = 0] /\ wrong' = wrong
               /\ restore' = [restore EXCEPT ![d] = [seen EXCEPT !.opened = @ \union {<<r, share[r].version>>}]]
          ELSE /\ share' = [share EXCEPT ![r].attempts = next, ![r].locked = next >= Tries]
               /\ wrong' = IF q.refused \/ seen.keyed # latest THEN wrong ELSE wrong + 1
               /\ restore' = [restore EXCEPT ![d] = [seen EXCEPT !.refused = TRUE, !.shut = @ \/ next >= Tries]]
       /\ UNCHANGED <<code, latest, task, failures, recoveryLock, deviceLock, runs>>

\* A realm that does not answer, or has no share.
RealmFails(d, r) ==
    /\ restore[d].pc = "running" /\ r \notin restore[d].asked /\ (restore[d].asked = {} => ~recoveryLock)
    /\ restore' = [restore EXCEPT ![d] = Asked(d, r)]
    /\ UNCHANGED <<storeVars, recoveryVars, deviceLock, runs>>

\* The worker's own count, over the realms.
Exhausted(n) == n >= Tries

Counts(now, lock, n, m) ==
    IF now THEN recoveryLock' = lock /\ failures' = n /\ wrong' = m ELSE UNCHANGED recoveryVars

\* The task is delivered again (acks_late) and finds the request pending: it begins anew.
Afresh(q) == [q EXCEPT !.keyed = 0, !.asked = {}, !.opened = {}, !.refused = FALSE, !.shut = FALSE]

\* The worker is killed while it asks the realms, which keep what they counted.
RecoverKilled(d) ==
    LET q == restore[d]
    IN /\ q.pc = "running" /\ q.asked # {} /\ runs < MaxGuesses
       /\ runs' = runs + 1
       /\ restore' = [restore EXCEPT ![d] = Afresh(q)]
       /\ wrong' = IF q.refused /\ q.keyed = latest /\ wrong > 0 THEN wrong - 1 ELSE wrong
       /\ UNCHANGED <<storeVars, failures, recoveryLock, deviceLock>>

\* The end of recover, and what restoreWith makes of its status; or the worker is killed
\* after it has counted in Redis and before the status is committed.
RecoverDone(d, killed) ==
    LET q == restore[d]
        ends(pc) ==
            IF killed THEN restore' = [restore EXCEPT ![d] = Afresh(q)] /\ UNCHANGED deviceLock
            ELSE /\ restore' = [restore EXCEPT ![d] = [pc |-> pc, version |-> q.version, code |-> q.code,
                                                      opened |-> q.opened, fair |-> q.fair]]
                 /\ deviceLock' = [deviceLock EXCEPT ![d] = @ \/ pc = "locked"]
        now == q.keyed = latest
        lock == Counts(now, TRUE, 0, 0) /\ ends("locked")
    IN /\ q.pc = "running" /\ q.asked = Realms /\ runs' = runs + (IF killed THEN 1 ELSE 0) /\ runs' <= MaxGuesses
       /\ \/ q.shut /\ lock
          \/ ~q.shut /\ Cardinality(q.opened) >= Threshold /\ Counts(now, FALSE, 0, 0) /\ ends("done")
          \/ /\ ~q.shut /\ Cardinality(q.opened) < Threshold /\ q.refused
             /\ IF Exhausted((IF now THEN failures ELSE 0) + 1) THEN lock
                ELSE Counts(now, recoveryLock, failures + 1, wrong) /\ ends("wrong_pin")
          \/ /\ ~q.shut /\ Cardinality(q.opened) < Threshold /\ ~q.refused
             /\ UNCHANGED recoveryVars /\ ends("failed")
       /\ UNCHANGED storeVars

\* Fifteen minutes later.
LockEnds ==
    /\ recoveryLock \/ (\E r \in Realms : share[r].locked) \/ (\E d \in Devices : deviceLock[d])
    /\ recoveryLock' = FALSE
    /\ share' = [r \in Realms |-> [share[r] EXCEPT !.locked = FALSE]]
    /\ deviceLock' = [d \in Devices |-> FALSE]
    /\ UNCHANGED <<code, latest, task, failures, wrong, restore, runs>>

BackupInit ==
    /\ latest = 0 /\ code = [v \in {} |-> CHOOSE c \in Passcodes : TRUE]
    /\ share = [r \in Realms |-> NoShare]
    /\ task = [v \in Versions |-> [left |-> {}, turns |-> 0]]
    /\ failures = 0 /\ recoveryLock = FALSE /\ wrong = 0
    /\ restore = [d \in Devices |-> Rest] /\ deviceLock = [d \in Devices |-> FALSE] /\ runs = 0

BackupNext ==
    \/ \E c \in Passcodes : BackupKeys(c) \/ (\E d \in Devices : RestoreWith(d, c))
    \/ \E v \in Versions : (\E r \in Realms : StoreShare(v, r)) \/ StoreRetried(v)
    \/ \E d \in Devices :
         \/ \E r \in Realms : AskRealm(d, r) \/ RealmFails(d, r)
         \/ RecoverLocked(d) \/ RecoverKilled(d) \/ (\E killed \in BOOLEAN : RecoverDone(d, killed))
    \/ LockEnds

BackupSpec == BackupInit /\ [][BackupNext]_backupVars

----------------------------------------------------------------------------
\* Two shares that a recovery hands out always give the key of the ciphertext the device has,
\* although shares and ciphertext are replaced one after the other.
DoneOpens == \A d \in Devices : restore[d].pc = "done" =>
    \A x \in restore[d].opened : x[2] = restore[d].version

\* README, Backup: ten wrong passcodes lock the recovery, whichever realms each of them
\* reached, on however many devices; excused are those of runs that were killed half-way.
GuessesCounted == 
    wrong <= Tries - 1 + Cardinality({d \in Devices : restore[d].pc = "running"})

\* The right passcode is not called wrong, unless a newer backup had not reached every realm
\* while they were asked; a late task never brings an older share back.
RightCodeRestores == \A d \in Devices : restore[d].pc = "wrong_pin" =>
    restore[d].code # code[restore[d].version] \/ ~restore[d].fair

\* What a recovery promises, whatever overtakes it.
RecoverySound == DoneOpens /\ GuessesCounted /\ RightCodeRestores
=============================================================================
