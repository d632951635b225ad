------------------------------- MODULE Sessions -------------------------------
(***************************************************************************)
(* The sessions of one account: its devices, their refresh and access      *)
(* tokens, and the requests that issue, exchange and revoke them.          *)
(*                                                                         *)
(*   AuthService     src/backend/app/services/auth_service.py              *)
(*   UserRepository  src/backend/app/repositories/users.py                 *)
(*   security        src/backend/app/services/security.py                  *)
(*                                                                         *)
(* A request is one transaction of MariaDB at REPEATABLE READ: plain reads *)
(* see the snapshot of its first read, UPDATE and FOR UPDATE see and lock  *)
(* the current rows.  So a request is a read step that decides and a write *)
(* step that commits, and other requests may commit in between; job[s]     *)
(* is a request between the two.                                           *)
(*                                                                         *)
(* A token stands for the refresh token and the access token that one      *)
(* request issues together.  A moment is the set of tokens issued by then: *)
(* an access token was issued before a moment when it is an element of it, *)
(* and the empty set is a column that is NULL.                             *)
(***************************************************************************)
EXTENDS Naturals, FiniteSets

CONSTANTS
    Devices,    \* bound: rows of devices the account may come to have
    Requests,   \* the devices that are connected by pairing: a paired device
                \* has the id of the pairing request
    Tokens,     \* bound: tokens issued
    Slots       \* bound: requests in flight at the same time

ASSUME RequestsAssumption == Requests \subseteq Devices

VARIABLES
    device,     \* device[d]: the row of devices, or Absent
    token,      \* token[t]: the row of refresh_tokens, or Unused
    job,        \* job[s]: a request that has read and not yet committed
    late,       \* history: tokens issued in exchange for a token that was no
                \* longer live at the commit, and what they were exchanged for
    out,        \* history: tokens whose device was revoked after their issue
    clobbered   \* history: devices whose revocation was overwritten from a
                \* stale read

sessionVars == <<device, token, late, out, clobbered>>

Absent == [revoked_at |-> {}, tokens_revoked_at |-> {}, there |-> FALSE]

NewDevice == [Absent EXCEPT !.there = TRUE]
NoDevice == "no device"
Unused == [on |-> NoDevice, state |-> "unused"]
Idle == [op |-> "idle"]
ASSUME DevicesAssumption == NoDevice \notin Devices

Issued == {t \in Tokens : token[t] # Unused}
On(d) == {t \in Issued : token[t].on = d}
Live(d) == {t \in On(d) : token[t].state = "live"}

Known == {d \in Devices : device[d].there}
Active == {d \in Known : device[d].revoked_at = {}}

(* authenticate accepts an access token.  The expiry of tokens and the     *)
(* suspension of the account only refuse requests: they are left out.      *)
Accepted(t) ==
    /\ t \in Issued
    /\ t \notin device[token[t].on].revoked_at
    /\ t \notin device[token[t].on].tokens_revoked_at

Rows == [revoked_at : SUBSET Tokens, tokens_revoked_at : SUBSET Tokens, there : BOOLEAN]

TokenRows ==
    [on : Devices \union {NoDevice}, state : {"unused", "live", "rotated", "revoked"}]

SessionJobs ==
    [op : {"idle"}]
      \union [op : {"login"}, device : Devices, row : Rows]
      \union [op : {"refresh"}, token : Tokens]
      \union [op : {"reuse"}, device : Devices, now : SUBSET Tokens]
      \union [op : {"logout", "logout_all"}, device : Devices, seen : SUBSET Devices]

TypeOKSessions ==
    /\ device \in [Devices -> Rows]
    /\ token \in [Tokens -> TokenRows]
    /\ \A t \in Issued : token[t].on \in Known /\ token[t].state # "unused"
    /\ late \subseteq Issued /\ out \subseteq Issued /\ clobbered \subseteq Known

InitSessions ==
    /\ device = [d \in Devices |-> Absent]
    /\ token = [t \in Tokens |-> Unused]
    /\ late = {} /\ out = {} /\ clobbered = {}
    /\ job = [s \in Slots |-> Idle]

----------------------------------------------------------------------------
(* Steps of a request *)

Begin(s, j) == job[s] = Idle /\ job' = [job EXCEPT ![s] = j]
End(s) == job' = [job EXCEPT ![s] = Idle]

(* A pairing that is being completed holds the row of the user: whoever    *)
(* inserts a device or a token, or locks that row, waits for it.           *)
UserFree == \A s \in Slots : job[s].op # "issue"

(* Mutant of RevokeTokens: nobody puts out the refresh tokens.             *)
KeepTokens(D) == token

(* token with the live tokens of the devices D marked as revoked *)
RevokeTokens(D) ==
    [t \in Tokens |-> IF \E d \in D : t \in Live(d) THEN [token[t] EXCEPT !.state = "revoked"]
                                                    ELSE token[t]]

(* revoke_device, revoke_all_except: revoked_at of D becomes the moment m. *)
Revoke(D, m) ==
    /\ device' = [d \in Devices |-> IF d \in D THEN [device[d] EXCEPT !.revoked_at = m]
                                               ELSE device[d]]
    /\ token' = RevokeTokens(D)
    /\ out' = out \union {t \in m : token[t].on \in D}
    /\ clobbered' = clobbered \union {d \in D :
         ~ (device[d].revoked_at \union device[d].tokens_revoked_at) \subseteq m}
    /\ UNCHANGED late

(* _issue: t is a new live token of d; tok is the table to insert it into. *)
Insert(tok, t, d) == [tok EXCEPT ![t] = [on |-> d, state |-> "live"]]

----------------------------------------------------------------------------
(* login *)

(* A browser without the cookie of a device of the account. *)
LoginNew(d, t) ==
    /\ UserFree
    /\ d \in Devices \ (Known \union Requests) /\ t \notin Issued
    /\ device' = [device EXCEPT ![d] = NewDevice]
    /\ token' = Insert(token, t, d)
    /\ UNCHANGED <<late, out, clobbered, job>>

(* A browser with the cookie of d: the row of the device is read here ... *)
LoginRead(s, d) ==
    /\ d \in Known
    /\ Begin(s, [op |-> "login", device |-> d, row |-> device[d]])
    /\ UNCHANGED sessionVars

(* Mutant of Revived: the moment of the revocation is not kept.            *)
RevivedForgetting(row) == [row EXCEPT !.revoked_at = {}]

(* ... and its changed columns are written here.  Resetting revoked_at     *)
(* writes NULL, and the moment that was read, whatever the row holds now.  *)
Revived(row) ==
    IF row.revoked_at = {} THEN row
    ELSE [row EXCEPT !.tokens_revoked_at = row.revoked_at, !.revoked_at = {}]

LoginWrite(s, t) ==
    LET d == job[s].device
        row == job[s].row
    IN  /\ job[s].op = "login"
        /\ UserFree
        /\ t \notin Issued
        /\ device' = IF row.revoked_at = {} THEN device ELSE [device EXCEPT ![d] = Revived(row)]
        /\ clobbered' = IF row.revoked_at # {} /\ device[d] # row THEN clobbered \union {d}
                                                                ELSE clobbered
        /\ token' = Insert(RevokeTokens({d}), t, d)
        /\ End(s)
        /\ UNCHANGED <<late, out>>

----------------------------------------------------------------------------
(* refresh *)

(* The token is live and so is its session. *)
RefreshRead(s, t) ==
    /\ t \in Issued /\ token[t].state = "live" /\ token[t].on \in Active
    /\ Begin(s, [op |-> "refresh", token |-> t])
    /\ UNCHANGED sessionVars

(* The row of the old token is not locked by the read and not read again.  *)
RefreshWrite(s, t) ==
    LET old == job[s].token
    IN  /\ job[s].op = "refresh"
        /\ UserFree
        /\ t \notin Issued
        /\ token' = Insert([token EXCEPT ![old].state = "rotated"], t, token[old].on)
        /\ late' = IF old \in late \/ token[old].state # "live" THEN late \union {t} ELSE late
        /\ End(s)
        /\ UNCHANGED <<device, out, clobbered>>

(* A token that was exchanged is presented again: theft.  The moment is    *)
(* taken before revoke_device waits for the rows it updates.               *)
ReuseRead(s, t) ==
    /\ t \in Issued /\ token[t].state = "rotated"
    /\ Begin(s, [op |-> "reuse", device |-> token[t].on, now |-> Issued])
    /\ UNCHANGED sessionVars

ReuseWrite(s) ==
    /\ job[s].op = "reuse"
    /\ Revoke({job[s].device}, job[s].now)
    /\ End(s)

----------------------------------------------------------------------------
(* logout and end_session of d, logout_all when D is the other devices *)

(* The request of device c is authenticated; end_session looks for d in    *)
(* the list of sessions.                                                   *)
LogoutRead(s, c, d) ==
    /\ \E t \in On(c) : Accepted(t)
    /\ d = c \/ d \in Active
    /\ Begin(s, [op |-> "logout", device |-> d, seen |-> Active])
    /\ UNCHANGED sessionVars

LogoutAllRead(s, c) ==
    /\ \E t \in On(c) : Accepted(t)
    /\ Begin(s, [op |-> "logout_all", device |-> c, seen |-> Active])
    /\ UNCHANGED sessionVars

(* Mutant of ActiveLocked: active_devices without FOR UPDATE.              *)
ActiveSnapshot(s) == job[s].seen

(* active_devices with FOR UPDATE: the row of the user is locked and the   *)
(* devices are those of the last commit.                                   *)
ActiveLocked(s) == Active

Logout(s) ==
    /\ job[s].op = "logout"
    /\ UserFree
    /\ job[s].device \in ActiveLocked(s)
    /\ Cardinality(ActiveLocked(s)) > 1
    /\ Revoke({job[s].device}, Issued)
    /\ End(s)

LogoutAll(s) ==
    /\ job[s].op = "logout_all"
    /\ UserFree
    /\ job[s].device \in ActiveLocked(s)
    /\ Revoke(ActiveLocked(s) \ {job[s].device}, Issued)
    /\ End(s)

(* A request ends without a commit: refused after its read, a victim of a  *)
(* deadlock, or its process died.                                          *)
Drop(s) ==
    /\ job[s] # Idle
    /\ End(s)
    /\ UNCHANGED sessionVars

----------------------------------------------------------------------------
SessionStep ==
    \/ \E d \in Devices, t \in Tokens : LoginNew(d, t)
    \/ \E s \in Slots :
         \/ \E d \in Devices : LoginRead(s, d) \/ LogoutAllRead(s, d)
         \/ \E c, d \in Devices : LogoutRead(s, c, d)
         \/ \E t \in Tokens :
              LoginWrite(s, t) \/ RefreshRead(s, t) \/ RefreshWrite(s, t) \/ ReuseRead(s, t)
         \/ ReuseWrite(s) \/ Logout(s) \/ LogoutAll(s) \/ Drop(s)

----------------------------------------------------------------------------
(* A device has one usable refresh token, "у устройства один действующий   *)
(* refresh-токен", unless a request exchanged a token that another request *)
(* had exchanged or revoked since it was read.                             *)
OneLiveToken == \A d \in Devices : Cardinality(Live(d) \ late) <= 1

(* "JWT, выданные до отзыва, остаются отозванными и после повторного       *)
(* входа": an access token that was issued before its device was revoked   *)
(* is never accepted again, whatever logins, exchanges and revocations     *)
(* follow, unless one of them overwrote a revocation it had not seen.      *)
RevokedStaysOut == \A t \in out : token[t].on \notin clobbered => ~ Accepted(t)

(* No logout leaves the account without an active device, however many     *)
(* run at once; only the detection of a stolen token does.                 *)
LastDeviceStays ==
    [][Active # {} /\ Active' = {} =>
         \E s \in Slots : job[s].op = "reuse" /\ job'[s] = Idle]_<<sessionVars, job>>

=============================================================================
