---------------------------- MODULE PairingProofs -----------------------------
(***************************************************************************)
(* What holds of the sessions and pairings of an account for any number of *)
(* devices, tokens and requests in flight.                                 *)
(***************************************************************************)
EXTENDS Pairing, ScanPage, FiniteSetTheorems, TLAPS

(* What a request in flight still knows to be true at its write step.      *)
JobsKnow ==
    \A s \in Slots :
      /\ job[s].op \in {"login", "reuse"} => job[s].device \in Known
      /\ job[s].op = "login" => job[s].row.there
      /\ job[s].op = "refresh" => job[s].token \in Issued
      /\ job[s].op = "reuse" => job[s].now \subseteq Issued
      /\ job[s].op = "issue" => job[s].device \notin Known

(* The row of the user is locked by at most one completion. *)
OneIssuer ==
    \A s1, s2 \in Slots : job[s1].op = "issue" /\ job[s2].op = "issue" => s1 = s2

SafeInv == TypeOK /\ JobsKnow /\ OneIssuer

(* The fields of a request in flight, by its kind. *)
LEMMA JobFields ==
    ASSUME TypeOK, NEW s \in Slots
    PROVE  /\ job[s].op = "login" => job[s].device \in Devices /\ job[s].row \in Rows
           /\ job[s].op = "refresh" => job[s].token \in Tokens
           /\ job[s].op = "reuse" => job[s].device \in Devices /\ job[s].now \in SUBSET Tokens
           /\ job[s].op \in {"logout", "logout_all"} => job[s].device \in Devices
           /\ job[s].op \in {"complete", "issue"} => job[s].device \in Requests
<1>1. job[s] \in SessionJobs \union PairingJobs
  BY DEF TypeOK
<1> QED
  BY <1>1 DEF SessionJobs, PairingJobs

(* The start of a request. *)
LEMMA BeginJob ==
    ASSUME SafeInv, NEW s \in Slots, NEW j \in SessionJobs \union PairingJobs,
           Begin(s, j), UNCHANGED sessionVars, j.op # "issue",
           j.op \in {"login", "reuse"} => j.device \in Known,
           j.op = "login" => j.row.there,
           j.op = "refresh" => j.token \in Issued,
           j.op = "reuse" => j.now \subseteq Issued
    PROVE  /\ TypeOKSessions' /\ job' \in [Slots -> SessionJobs \union PairingJobs]
           /\ JobsKnow' /\ OneIssuer'
<1>1. job \in [Slots -> SessionJobs \union PairingJobs] /\ job' = [job EXCEPT ![s] = j]
  BY DEF SafeInv, TypeOK, Begin
<1>2. \A r \in Slots : job'[r] = job[r] \/ (r = s /\ job'[r] = j)
  BY <1>1
<1>3. Known' = Known /\ Issued' = Issued
  BY DEF sessionVars, Known, Issued
<1>4. JobsKnow'
  BY <1>2, <1>3 DEF SafeInv, JobsKnow
<1>5. OneIssuer'
  BY <1>2 DEF SafeInv, OneIssuer
<1>6. TypeOKSessions'
  BY <1>3 DEF SafeInv, TypeOK, TypeOKSessions, sessionVars
<1> QED
  BY <1>1, <1>4, <1>5, <1>6

(* The end of a request, or a step of none, that takes no device and no    *)
(* token away.                                                             *)
LEMMA EndJob ==
    ASSUME SafeInv, (\E s \in Slots : End(s)) \/ UNCHANGED job,
           TypeOKSessions', Known \subseteq Known', Issued \subseteq Issued',
           \A r \in Slots : job'[r].op = "issue" => job[r].device \notin Known'
    PROVE  /\ job' \in [Slots -> SessionJobs \union PairingJobs]
           /\ JobsKnow' /\ OneIssuer'
<1>1. job \in [Slots -> SessionJobs \union PairingJobs]
  BY DEF SafeInv, TypeOK
<1>2. Idle \in SessionJobs /\ Idle.op = "idle"
  BY DEF Idle, SessionJobs
<1>3. \A r \in Slots : job'[r] = job[r] \/ job'[r] = Idle
  BY <1>1 DEF End
<1>4. job' \in [Slots -> SessionJobs \union PairingJobs]
  BY <1>1, <1>2 DEF End
<1>5. JobsKnow'
  BY <1>2, <1>3 DEF SafeInv, JobsKnow
<1>6. OneIssuer'
  BY <1>2, <1>3 DEF SafeInv, OneIssuer
<1> QED
  BY <1>4, <1>5, <1>6

----------------------------------------------------------------------------
(* What the write steps do to devices and tokens *)

LEMMA RevokeSafe ==
    ASSUME TypeOKSessions, NEW D \in SUBSET Known, NEW m \in SUBSET Issued, Revoke(D, m)
    PROVE  /\ TypeOKSessions' /\ Known' = Known /\ Issued' = Issued
           /\ \A t \in Tokens : token'[t].on = token[t].on
<1>a. m \subseteq Tokens
  BY DEF Issued
<1>b. \A d \in Devices : \/ device'[d] = device[d]
                          \/ device'[d] = [device[d] EXCEPT !.revoked_at = m]
  BY DEF Revoke
<1>c. \A d \in Devices : device'[d] \in Rows /\ device'[d].there = device[d].there
  BY <1>a, <1>b DEF TypeOKSessions, Rows
<1>1. /\ device' \in [Devices -> Rows]
      /\ \A d \in Devices : device'[d].there = device[d].there
  BY <1>c DEF Revoke
<1>2. Known' = Known
  BY <1>1 DEF Known
<1>3. \A t \in Tokens : \/ token'[t] = token[t]
                         \/ /\ token[t] \in TokenRows /\ token[t].state = "live"
                            /\ token'[t] = [token[t] EXCEPT !.state = "revoked"]
  BY DEF TypeOKSessions, Revoke, RevokeTokens, Live, On, TokenRows
<1>4. token' \in [Tokens -> TokenRows]
  BY <1>3 DEF TypeOKSessions, Revoke, RevokeTokens, TokenRows
<1>5. \A t \in Tokens : token'[t].on = token[t].on
  BY <1>3 DEF TokenRows
<1>d. \A t \in Tokens : \/ token'[t] = token[t]
                         \/ (token[t].state = "live" /\ token'[t].state = "revoked")
  BY <1>3 DEF TokenRows
<1>e. Unused.state = "unused"
  BY DEF Unused
<1>6. \A t \in Tokens : token'[t] = Unused <=> token[t] = Unused
  BY <1>d, <1>e
<1>7. Issued' = Issued
  BY <1>6 DEF Issued
<1>8. \A t \in Issued' : token'[t].on \in Known' /\ token'[t].state # "unused"
  BY <1>2, <1>3, <1>7 DEF TypeOKSessions, Issued, TokenRows
<1>9. late' \subseteq Issued' /\ out' \subseteq Issued' /\ clobbered' \subseteq Known'
  BY <1>2, <1>7 DEF TypeOKSessions, Revoke
<1> QED
  BY <1>1, <1>2, <1>4, <1>5, <1>7, <1>8, <1>9 DEF TypeOKSessions

(* A token is inserted for a device that is known after the step; every    *)
(* other token keeps its device.                                           *)
LEMMA InsertSafe ==
    ASSUME TypeOKSessions, NEW t \in Tokens, NEW d \in Devices, NEW tok,
           tok \in [Tokens -> TokenRows],
           \A u \in Tokens : tok[u] = token[u]
                             \/ (u \in Issued /\ tok[u].on = token[u].on /\ tok[u].state # "unused"),
           token' = Insert(tok, t, d),
           device' \in [Devices -> Rows], Known \subseteq Known', d \in Known'
    PROVE  /\ token' \in [Tokens -> TokenRows]
           /\ Issued' = Issued \union {t}
           /\ \A u \in Issued' : token'[u].on \in Known' /\ token'[u].state # "unused"
           /\ \A u \in Issued \ {t} : token'[u].on = token[u].on
<1>1. /\ token' \in [Tokens -> TokenRows]
      /\ token'[t] = [on |-> d, state |-> "live"]
      /\ \A u \in Tokens \ {t} : token'[u] = tok[u]
  BY DEF Insert, TokenRows
<1>2. \A u \in Tokens \ {t} : token'[u] = Unused <=> token[u] = Unused
  BY <1>1 DEF Unused, Issued
<1>3. token'[t] # Unused
  BY <1>1 DEF Unused
<1>4. Issued' = Issued \union {t}
  BY <1>2, <1>3 DEF Issued
<1>5. \A u \in Issued' : token'[u].on \in Known' /\ token'[u].state # "unused"
  BY <1>1, <1>4 DEF TypeOKSessions, Issued
<1>6. \A u \in Issued \ {t} : token'[u].on = token[u].on
  BY <1>1 DEF Issued
<1> QED
  BY <1>1, <1>4, <1>5, <1>6

LEMMA RevokedTokens ==
    ASSUME TypeOKSessions, NEW D
    PROVE  /\ RevokeTokens(D) \in [Tokens -> TokenRows]
           /\ \A u \in Tokens : RevokeTokens(D)[u] = token[u]
                \/ (u \in Issued /\ RevokeTokens(D)[u].on = token[u].on
                     /\ RevokeTokens(D)[u].state # "unused")
<1>1. \A u \in Tokens : \/ RevokeTokens(D)[u] = token[u]
                         \/ /\ u \in Issued
                            /\ RevokeTokens(D)[u] = [token[u] EXCEPT !.state = "revoked"]
  BY DEF RevokeTokens, Live, On
<1>2. \A u \in Tokens : token[u] \in TokenRows
  BY DEF TypeOKSessions
<1>3. \A u \in Tokens :
        /\ RevokeTokens(D)[u] \in TokenRows
        /\ \/ RevokeTokens(D)[u] = token[u]
           \/ /\ u \in Issued /\ RevokeTokens(D)[u].on = token[u].on
              /\ RevokeTokens(D)[u].state # "unused"
  BY <1>1, <1>2 DEF TokenRows
<1>4. DOMAIN RevokeTokens(D) = Tokens /\ RevokeTokens(D) = [u \in Tokens |-> RevokeTokens(D)[u]]
  BY DEF RevokeTokens
<1> QED
  BY <1>3, <1>4

----------------------------------------------------------------------------
(* Every step preserves the safety invariant *)

JobsSafe == job \in [Slots -> SessionJobs \union PairingJobs] /\ JobsKnow /\ OneIssuer

LEMMA ReadSafe ==
    ASSUME SafeInv, NEW s \in Slots,
           \/ \E d \in Devices : LoginRead(s, d) \/ LogoutAllRead(s, d)
           \/ \E c, d \in Devices : LogoutRead(s, c, d)
           \/ \E t \in Tokens : RefreshRead(s, t) \/ ReuseRead(s, t)
    PROVE  TypeOKSessions' /\ JobsSafe'
<1>1. device \in [Devices -> Rows] /\ token \in [Tokens -> TokenRows]
      /\ \A t \in Issued : token[t].on \in Known
  BY DEF SafeInv, TypeOK, TypeOKSessions
<1>2. Active \in SUBSET Devices /\ Issued \in SUBSET Tokens /\ Known \subseteq Devices
  BY DEF Active, Known, Issued
<1>3. CASE \E d \in Devices : LoginRead(s, d)
  <2>1. PICK d \in Devices : LoginRead(s, d)
    BY <1>3
  <2> DEFINE j == [op |-> "login", device |-> d, row |-> device[d]]
  <2>2. Begin(s, j) /\ UNCHANGED sessionVars /\ d \in Known /\ device[d].there
    BY <2>1 DEF LoginRead, Known
  <2>3. j \in SessionJobs /\ j.op = "login" /\ j.device = d /\ j.row = device[d]
    BY <1>1 DEF SessionJobs
  <2> HIDE DEF j
  <2> QED
    BY <2>2, <2>3, BeginJob DEF JobsSafe
<1>4. CASE \E d \in Devices : LogoutAllRead(s, d)
  <2>1. PICK d \in Devices : LogoutAllRead(s, d)
    BY <1>4
  <2> DEFINE j == [op |-> "logout_all", device |-> d, seen |-> Active]
  <2>2. Begin(s, j) /\ UNCHANGED sessionVars
    BY <2>1 DEF LogoutAllRead
  <2>3. j \in SessionJobs /\ j.op = "logout_all"
    BY <1>2 DEF SessionJobs
  <2> HIDE DEF j
  <2> QED
    BY <2>2, <2>3, BeginJob DEF JobsSafe
<1>5. CASE \E c, d \in Devices : LogoutRead(s, c, d)
  <2>1. PICK c \in Devices, d \in Devices : LogoutRead(s, c, d)
    BY <1>5
  <2> DEFINE j == [op |-> "logout", device |-> d, seen |-> Active]
  <2>2. Begin(s, j) /\ UNCHANGED sessionVars
    BY <2>1 DEF LogoutRead
  <2>3. j \in SessionJobs /\ j.op = "logout"
    BY <1>2 DEF SessionJobs
  <2> HIDE DEF j
  <2> QED
    BY <2>2, <2>3, BeginJob DEF JobsSafe
<1>6. CASE \E t \in Tokens : RefreshRead(s, t)
  <2>1. PICK t \in Tokens : RefreshRead(s, t)
    BY <1>6
  <2> DEFINE j == [op |-> "refresh", token |-> t]
  <2>2. Begin(s, j) /\ UNCHANGED sessionVars /\ t \in Issued
    BY <2>1 DEF RefreshRead
  <2>3. j \in SessionJobs /\ j.op = "refresh" /\ j.token = t
    BY DEF SessionJobs
  <2> HIDE DEF j
  <2> QED
    BY <2>2, <2>3, BeginJob DEF JobsSafe
<1>7. CASE \E t \in Tokens : ReuseRead(s, t)
  <2>1. PICK t \in Tokens : ReuseRead(s, t)
    BY <1>7
  <2> DEFINE j == [op |-> "reuse", device |-> token[t].on, now |-> Issued]
  <2>2. Begin(s, j) /\ UNCHANGED sessionVars /\ token[t].on \in Known
    BY <1>1, <2>1 DEF ReuseRead
  <2>3. j \in SessionJobs /\ j.op = "reuse" /\ j.device = token[t].on /\ j.now = Issued
    BY <1>2, <2>2 DEF SessionJobs
  <2> HIDE DEF j
  <2> QED
    BY <2>2, <2>3, BeginJob DEF JobsSafe
<1> QED
  BY <1>3, <1>4, <1>5, <1>6, <1>7

LEMMA RevokeStepSafe ==
    ASSUME SafeInv, NEW s \in Slots, ReuseWrite(s) \/ Logout(s) \/ LogoutAll(s) \/ Drop(s)
    PROVE  TypeOKSessions' /\ JobsSafe' /\ Known' = Known /\ Issued' = Issued
<1>1. End(s)
  BY DEF ReuseWrite, Logout, LogoutAll, Drop
<1>2. TypeOKSessions' /\ Known' = Known /\ Issued' = Issued
  <2>0. TypeOKSessions /\ Active \subseteq Known
    BY DEF SafeInv, TypeOK, Active
  <2>1. CASE ReuseWrite(s)
    BY <2>0, <2>1, RevokeSafe DEF ReuseWrite, SafeInv, JobsKnow
  <2>2. CASE Logout(s)
    BY <2>0, <2>2, RevokeSafe DEF Logout, ActiveLocked
  <2>3. CASE LogoutAll(s)
    BY <2>0, <2>3, RevokeSafe DEF LogoutAll, ActiveLocked
  <2>4. CASE Drop(s)
    BY <2>0, <2>4 DEF Drop, sessionVars, TypeOKSessions, Known, Issued
  <2> QED
    BY <2>1, <2>2, <2>3, <2>4
<1>3. \A r \in Slots : job'[r] = job[r] \/ job'[r].op = "idle"
  BY <1>1 DEF End, Idle, SafeInv, TypeOK
<1>4. \A r \in Slots : job'[r].op = "issue" => job[r].device \notin Known'
  BY <1>2, <1>3 DEF SafeInv, JobsKnow
<1> QED
  BY <1>1, <1>2, <1>4, EndJob DEF JobsSafe

LEMMA LoginNewSafe ==
    ASSUME SafeInv, NEW d \in Devices, NEW t \in Tokens, LoginNew(d, t)
    PROVE  /\ TypeOKSessions' /\ JobsSafe'
           /\ Known' = Known \union {d} /\ Issued' = Issued \union {t}
           /\ \A u \in Issued : token'[u].on = token[u].on
<1>1. TypeOKSessions /\ token \in [Tokens -> TokenRows] /\ device \in [Devices -> Rows]
  BY DEF SafeInv, TypeOK, TypeOKSessions
<1>2. NewDevice \in Rows /\ NewDevice.there
  BY DEF NewDevice, Absent, Rows
<1>3. device' \in [Devices -> Rows] /\ Known' = Known \union {d}
  BY <1>1, <1>2 DEF LoginNew, Known
<1>4. token' = Insert(token, t, d)
  BY DEF LoginNew
<1>5. /\ token' \in [Tokens -> TokenRows] /\ Issued' = Issued \union {t}
      /\ \A u \in Issued' : token'[u].on \in Known' /\ token'[u].state # "unused"
      /\ \A u \in Issued \ {t} : token'[u].on = token[u].on
  BY <1>1, <1>3, <1>4, InsertSafe
<1>6. TypeOKSessions'
  BY <1>1, <1>3, <1>5 DEF LoginNew, TypeOKSessions
<1>7. \A r \in Slots : job'[r].op = "issue" => job[r].device \notin Known'
  BY <1>3, JobFields DEF LoginNew, SafeInv, JobsKnow
<1> QED
  BY <1>3, <1>5, <1>6, <1>7, EndJob DEF LoginNew, JobsSafe

LEMMA LoginWriteSafe ==
    ASSUME SafeInv, NEW s \in Slots, NEW t \in Tokens, LoginWrite(s, t)
    PROVE  /\ TypeOKSessions' /\ JobsSafe' /\ Known' = Known /\ Issued' = Issued \union {t}
           /\ \A u \in Issued : token'[u].on = token[u].on
<1> DEFINE d == job[s].device
           row == job[s].row
<1>1. TypeOKSessions /\ token \in [Tokens -> TokenRows] /\ device \in [Devices -> Rows]
  BY DEF SafeInv, TypeOK, TypeOKSessions
<1>2. d \in Devices /\ d \in Known /\ row \in Rows /\ row.there
  BY JobFields DEF LoginWrite, SafeInv, JobsKnow
<1>3. Revived(row) \in Rows /\ Revived(row).there
  BY <1>2 DEF Revived, Rows
<1>4. device' \in [Devices -> Rows] /\ Known' = Known
  <2>1. device' = device \/ device' = [device EXCEPT ![d] = Revived(row)]
    BY DEF LoginWrite
  <2> HIDE DEF d, row
  <2> QED
    BY <1>1, <1>2, <1>3, <2>1 DEF Known
<1>5. token' = Insert(RevokeTokens({d}), t, d)
  BY DEF LoginWrite
<1>6. /\ token' \in [Tokens -> TokenRows] /\ Issued' = Issued \union {t}
      /\ \A u \in Issued' : token'[u].on \in Known' /\ token'[u].state # "unused"
      /\ \A u \in Issued \ {t} : token'[u].on = token[u].on
  <2> HIDE DEF d, row
  <2> DEFINE tok == RevokeTokens({d})
  <2>1. /\ tok \in [Tokens -> TokenRows]
        /\ \A u \in Tokens : tok[u] = token[u]
             \/ (u \in Issued /\ tok[u].on = token[u].on /\ tok[u].state # "unused")
    BY <1>1, RevokedTokens
  <2>2. token' = Insert(tok, t, d)
    BY <1>5
  <2> HIDE DEF tok
  <2> QED
    BY <1>1, <1>2, <1>4, <2>1, <2>2, InsertSafe
<1>7. TypeOKSessions'
  BY <1>1, <1>2, <1>4, <1>6 DEF LoginWrite, TypeOKSessions
<1>8. End(s)
  BY DEF LoginWrite
<1>9. \A r \in Slots : job'[r].op = "issue" => job[r].device \notin Known'
  BY <1>4, <1>8 DEF End, Idle, SafeInv, TypeOK, JobsKnow
<1> QED
  BY <1>4, <1>6, <1>7, <1>8, <1>9, EndJob DEF JobsSafe, LoginWrite

LEMMA RefreshWriteSafe ==
    ASSUME SafeInv, NEW s \in Slots, NEW t \in Tokens, RefreshWrite(s, t)
    PROVE  /\ TypeOKSessions' /\ JobsSafe' /\ Known' = Known /\ Issued' = Issued \union {t}
           /\ \A u \in Issued : token'[u].on = token[u].on
<1> DEFINE old == job[s].token
           tok == [token EXCEPT ![old].state = "rotated"]
<1>1. TypeOKSessions /\ token \in [Tokens -> TokenRows] /\ device \in [Devices -> Rows]
  BY DEF SafeInv, TypeOK, TypeOKSessions
<1>2. old \in Issued /\ token[old].on \in Known /\ Known \subseteq Devices
  BY <1>1 DEF RefreshWrite, SafeInv, JobsKnow, TypeOKSessions, Known
<1>3. Known' = Known /\ device' = device
  BY DEF RefreshWrite, Known
<1>4. /\ tok \in [Tokens -> TokenRows]
      /\ \A u \in Tokens : tok[u] = token[u]
            \/ (u \in Issued /\ tok[u].on = token[u].on /\ tok[u].state # "unused")
  <2> HIDE DEF old
  <2> QED
    BY <1>1, <1>2 DEF TokenRows
<1>5. token' = Insert(tok, t, token[old].on)
  BY DEF RefreshWrite
<1>6. /\ token' \in [Tokens -> TokenRows] /\ Issued' = Issued \union {t}
      /\ \A u \in Issued' : token'[u].on \in Known' /\ token'[u].state # "unused"
      /\ \A u \in Issued \ {t} : token'[u].on = token[u].on
  <2> HIDE DEF old, tok
  <2> QED
    BY <1>1, <1>2, <1>3, <1>4, <1>5, InsertSafe
<1>7. TypeOKSessions'
  BY <1>1, <1>3, <1>6 DEF RefreshWrite, TypeOKSessions
<1>8. End(s)
  BY DEF RefreshWrite
<1>9. \A r \in Slots : job'[r].op = "issue" => job[r].device \notin Known'
  BY <1>3, <1>8 DEF End, Idle, SafeInv, TypeOK, JobsKnow
<1> QED
  BY <1>3, <1>6, <1>7, <1>8, <1>9, EndJob DEF JobsSafe, RefreshWrite

LEMMA CompleteCommitSafe ==
    ASSUME SafeInv, NEW s \in Slots, NEW t \in Tokens, CompleteCommit(s, t)
    PROVE  /\ TypeOKSessions' /\ JobsSafe'
           /\ Known' = Known \union {job[s].device} /\ Issued' = Issued \union {t}
           /\ \A u \in Issued : token'[u].on = token[u].on
<1> DEFINE r == job[s].device
<1>1. TypeOKSessions /\ token \in [Tokens -> TokenRows] /\ device \in [Devices -> Rows]
  BY DEF SafeInv, TypeOK, TypeOKSessions
<1>2. NewDevice \in Rows /\ NewDevice.there
  BY DEF NewDevice, Absent, Rows
<1>3. r \in Devices
  BY JobFields, RequestsAssumption DEF CompleteCommit, SafeInv
<1>4. device' \in [Devices -> Rows] /\ Known' = Known \union {r}
  BY <1>1, <1>2, <1>3 DEF CompleteCommit, Known
<1>5. token' = Insert(token, t, r)
  BY DEF CompleteCommit
<1>6. /\ token' \in [Tokens -> TokenRows] /\ Issued' = Issued \union {t}
      /\ \A u \in Issued' : token'[u].on \in Known' /\ token'[u].state # "unused"
      /\ \A u \in Issued \ {t} : token'[u].on = token[u].on
  <2> HIDE DEF r
  <2> QED
    BY <1>1, <1>3, <1>4, <1>5, InsertSafe
<1>7. TypeOKSessions'
  BY <1>1, <1>4, <1>6 DEF CompleteCommit, TypeOKSessions
<1>8. End(s) /\ job[s].op = "issue"
  BY DEF CompleteCommit
<1>9. \A q \in Slots : job'[q].op # "issue"
  BY <1>8 DEF End, Idle, SafeInv, TypeOK, OneIssuer
<1> QED
  BY <1>4, <1>6, <1>7, <1>8, <1>9, EndJob DEF JobsSafe, CompleteCommit

(* The steps that touch only the records of pairing. *)
LEMMA RecordSafe ==
    ASSUME SafeInv, UNCHANGED <<sessionVars, job>>
    PROVE  TypeOKSessions' /\ JobsSafe' /\ Known' = Known /\ Issued' = Issued
<1>1. Known' = Known /\ Issued' = Issued
  BY DEF sessionVars, Known, Issued
<1>2. TypeOKSessions'
  BY <1>1 DEF SafeInv, TypeOK, TypeOKSessions, sessionVars
<1> QED
  BY <1>1, <1>2 DEF SafeInv, TypeOK, JobsSafe, JobsKnow, OneIssuer

LEMMA CompleteReadSafe ==
    ASSUME SafeInv, NEW s \in Slots, NEW r \in Requests, CompleteRead(s, r)
    PROVE  TypeOKSessions' /\ JobsSafe'
<1> DEFINE j == [op |-> "complete", device |-> r]
<1>1. Begin(s, j) /\ UNCHANGED sessionVars
  BY DEF CompleteRead
<1>2. j \in PairingJobs /\ j.op = "complete"
  BY DEF PairingJobs
<1> HIDE DEF j
<1> QED
  BY <1>1, <1>2, BeginJob DEF JobsSafe

LEMMA CompleteFinaliseSafe ==
    ASSUME SafeInv, NEW s \in Slots, CompleteFinalise(s)
    PROVE  TypeOKSessions' /\ JobsSafe' /\ Known' = Known
<1> DEFINE r == job[s].device
<1>1. Known' = Known /\ Issued' = Issued
  BY DEF CompleteFinalise, sessionVars, Known, Issued
<1>2. TypeOKSessions'
  BY <1>1 DEF CompleteFinalise, SafeInv, TypeOK, TypeOKSessions, sessionVars
<1>3. r \in Requests /\ r \notin Known
  BY JobFields DEF CompleteFinalise, SafeInv
<1>4. job \in [Slots -> SessionJobs \union PairingJobs] /\ job[s] \in PairingJobs
  BY DEF SafeInv, TypeOK, CompleteFinalise, SessionJobs, PairingJobs
<1>5. /\ [job[s] EXCEPT !.op = "issue"] \in PairingJobs
      /\ [job[s] EXCEPT !.op = "issue"].op = "issue"
      /\ [job[s] EXCEPT !.op = "issue"].device = r
  BY <1>4 DEF PairingJobs
<1>6. job' = [job EXCEPT ![s] = [job[s] EXCEPT !.op = "issue"]]
  BY DEF CompleteFinalise
<1>7. job' \in [Slots -> SessionJobs \union PairingJobs]
  BY <1>4, <1>5, <1>6
<1>8. \A q \in Slots :
        \/ q # s /\ job'[q] = job[q]
        \/ q = s /\ job'[q].op = "issue" /\ job'[q].device = r
  BY <1>4, <1>5, <1>6
<1>9. JobsKnow'
  BY <1>1, <1>3, <1>8 DEF SafeInv, JobsKnow
<1>10. OneIssuer'
  BY <1>8 DEF CompleteFinalise, UserFree, OneIssuer
<1> QED
  BY <1>1, <1>2, <1>7, <1>9, <1>10 DEF JobsSafe

(* The disjuncts of Next, by what they do to the sessions. *)
ReadStep(s) ==
    \/ \E d \in Devices : LoginRead(s, d) \/ LogoutAllRead(s, d)
    \/ \E c, d \in Devices : LogoutRead(s, c, d)
    \/ \E t \in Tokens : RefreshRead(s, t) \/ ReuseRead(s, t)

RecordStep(r) ==
    \/ Reserve(r) \/ Create(r) \/ CreateFails(r) \/ Age(r) \/ Expire(r)
    \/ Review(r, "approved") \/ Review(r, "rejected")
    \/ Cancel(r) \/ Release(r) \/ ClearRefund(r)

LEMMA NextCases ==
    ASSUME Next
    PROVE  \/ /\ UNCHANGED pairingVars
              /\ \/ \E d \in Devices, t \in Tokens : LoginNew(d, t)
                 \/ \E s \in Slots, t \in Tokens : LoginWrite(s, t) \/ RefreshWrite(s, t)
                 \/ \E s \in Slots : ReadStep(s) \/ ReuseWrite(s) \/ Logout(s)
                                       \/ LogoutAll(s) \/ Drop(s)
           \/ \E r \in Requests : RecordStep(r)
           \/ \E s \in Slots, r \in Requests : CompleteRead(s, r)
           \/ \E s \in Slots : CompleteFinalise(s)
           \/ \E s \in Slots, t \in Tokens : CompleteCommit(s, t)
<1>1. CASE SessionStep /\ UNCHANGED pairingVars
  BY <1>1, ZenonT(60) DEF SessionStep, ReadStep
<1>2. CASE PairingStep
  BY <1>2, ZenonT(60) DEF PairingStep, RecordStep
<1> QED
  BY <1>1, <1>2 DEF Next

LEMMA PairingTypes ==
    ASSUME SafeInv, NEW r \in Requests, RecordStep(r)
    PROVE  /\ pairing' \in [Requests -> Open \union {"none", "rejected", "expired"}]
           /\ refund' \in [Requests -> BOOLEAN]
           /\ slot' \in [Requests -> {"none", "held", "released", "aged"}]
           /\ UNCHANGED <<sessionVars, job>>
<1>1. /\ pairing \in [Requests -> Open \union {"none", "rejected", "expired"}]
      /\ refund \in [Requests -> BOOLEAN]
      /\ slot \in [Requests -> {"none", "held", "released", "aged"}]
  BY DEF SafeInv, TypeOK
<1>2. CASE Reserve(r) \/ Create(r) \/ CreateFails(r) \/ Age(r) \/ Expire(r)
  BY <1>1, <1>2 DEF Reserve, Create, CreateFails, Age, Expire, SetStatus, SetSlot, Open
<1>3. CASE Review(r, "approved") \/ Review(r, "rejected")
  BY <1>1, <1>3 DEF Review, SetStatus, Open
<1>4. CASE Cancel(r)
  BY <1>1, <1>4 DEF Cancel, SetStatus, Open
<1>5. CASE Release(r)
  BY <1>1, <1>5 DEF Release, SetSlot, Attempts, Held
<1>6. CASE ClearRefund(r)
  BY <1>1, <1>6 DEF ClearRefund
<1> QED
  BY <1>2, <1>3, <1>4, <1>5, <1>6 DEF RecordStep

LEMMA SafeStep ==
    ASSUME SafeInv, [Next]_vars
    PROVE  SafeInv'
<1> DEFINE Records == /\ pairing \in [Requests -> Open \union {"none", "rejected", "expired"}]
                      /\ refund \in [Requests -> BOOLEAN]
                      /\ slot \in [Requests -> {"none", "held", "released", "aged"}]
<1>1. Records
  BY DEF SafeInv, TypeOK
<1>2. SUFFICES TypeOKSessions' /\ JobsSafe' /\ Records'
  BY DEF SafeInv, TypeOK, JobsSafe
<1>3. CASE UNCHANGED vars
  <2>1. UNCHANGED <<sessionVars, job>> /\ UNCHANGED pairingVars
    BY <1>3 DEF vars, sessionVars, pairingVars
  <2> QED
    BY <1>1, <2>1, RecordSafe DEF pairingVars
<1>4. CASE UNCHANGED pairingVars /\ \E d \in Devices, t \in Tokens : LoginNew(d, t)
  BY <1>1, <1>4, LoginNewSafe DEF pairingVars
<1>5. CASE UNCHANGED pairingVars
             /\ \E s \in Slots, t \in Tokens : LoginWrite(s, t) \/ RefreshWrite(s, t)
  BY <1>1, <1>5, LoginWriteSafe, RefreshWriteSafe DEF pairingVars
<1>6. CASE UNCHANGED pairingVars
             /\ \E s \in Slots : ReadStep(s) \/ ReuseWrite(s) \/ Logout(s) \/ LogoutAll(s) \/ Drop(s)
  BY <1>1, <1>6, ReadSafe, RevokeStepSafe DEF pairingVars, ReadStep
<1>7. CASE \E r \in Requests : RecordStep(r)
  BY <1>7, PairingTypes, RecordSafe
<1>8. CASE \E s \in Slots, r \in Requests : CompleteRead(s, r)
  BY <1>1, <1>8, CompleteReadSafe DEF CompleteRead, pairingVars
<1>9. CASE \E s \in Slots : CompleteFinalise(s)
  <2>1. PICK s \in Slots : CompleteFinalise(s)
    BY <1>9
  <2>2. Records'
    BY <1>1, <2>1 DEF CompleteFinalise, SetStatus, Open
  <2> QED
    BY <2>1, <2>2, CompleteFinaliseSafe
<1>10. CASE \E s \in Slots, t \in Tokens : CompleteCommit(s, t)
  BY <1>1, <1>10, CompleteCommitSafe DEF CompleteCommit, pairingVars
<1> HIDE DEF Records
<1> QED
  BY <1>3, <1>4, <1>5, <1>6, <1>7, <1>8, <1>9, <1>10, NextCases

LEMMA SafeInit ==
    ASSUME Init
    PROVE  SafeInv
<1>1. Issued = {} /\ Known = {}
  BY DEF Init, InitSessions, Issued, Known, Absent
<1>2. TypeOKSessions
  BY <1>1 DEF Init, InitSessions, TypeOKSessions, Absent, Rows, Unused, TokenRows
<1>3. job \in [Slots -> SessionJobs \union PairingJobs]
      /\ \A s \in Slots : job[s].op = "idle"
  BY DEF Init, InitSessions, Idle, SessionJobs
<1> QED
  BY <1>2, <1>3 DEF Init, SafeInv, TypeOK, JobsKnow, OneIssuer

(* Every variable keeps its type, and a request in flight its knowledge.   *)
THEOREM AccountSafe == Spec => []SafeInv
<1>1. Init => SafeInv
  BY SafeInit
<1>2. SafeInv /\ [Next]_vars => SafeInv'
  BY SafeStep
<1> QED
  BY <1>1, <1>2, PTL DEF Spec

(* Devices, tokens, pairing records and requests in flight keep their      *)
(* types: in particular a token is always one of a device that has a row.  *)
THEOREM AccountTypeCorrect == Spec => []TypeOK
<1>1. SafeInv => TypeOK
  BY DEF SafeInv
<1> QED
  BY <1>1, AccountSafe, PTL

----------------------------------------------------------------------------
(* Revoked access tokens *)

(* RevokedStaysOut alone is not inductive: a login that resets revoked_at  *)
(* keeps only its moment, so that moment must include the one before.      *)
RevokedInv ==
    /\ RevokedStaysOut
    /\ \A d \in Devices \ clobbered :
         device[d].revoked_at # {} => device[d].tokens_revoked_at \subseteq device[d].revoked_at

(* What RevokedStaysOut says of the rows. *)
Banned(t) == t \in device[token[t].on].revoked_at \union device[token[t].on].tokens_revoked_at

LEMMA RevokedStaysOutRows ==
    ASSUME TypeOKSessions
    PROVE  RevokedStaysOut <=> \A t \in out : token[t].on \notin clobbered => Banned(t)
<1>1. out \subseteq Issued
  BY DEF TypeOKSessions
<1> QED
  BY <1>1 DEF RevokedStaysOut, Accepted, Banned

LEMMA RevokeKeepsOut ==
    ASSUME TypeOKSessions, TypeOKSessions', RevokedInv,
           NEW D \in SUBSET Known, NEW m \in SUBSET Issued, Revoke(D, m)
    PROVE  RevokedInv'
<1>1. \A t \in out : token[t].on \notin clobbered => Banned(t)
  BY RevokedStaysOutRows DEF RevokedInv
<1>2. \A t \in Tokens : token'[t].on = token[t].on
  BY RevokeSafe
<1>3. \A d \in Devices :
        /\ device'[d].tokens_revoked_at = device[d].tokens_revoked_at
        /\ d \notin D => device'[d].revoked_at = device[d].revoked_at
        /\ d \in D => device'[d].revoked_at = m
        /\ d \notin clobbered' =>
             /\ d \notin clobbered
             /\ d \in D => device[d].revoked_at \union device[d].tokens_revoked_at \subseteq m
  <2>1. device \in [Devices -> Rows]
    BY DEF TypeOKSessions
  <2>2. \A d \in Devices : device'[d] = IF d \in D THEN [device[d] EXCEPT !.revoked_at = m] ELSE device[d]
    BY DEF Revoke
  <2>3. \A d \in Devices :
          /\ device'[d].tokens_revoked_at = device[d].tokens_revoked_at
          /\ d \notin D => device'[d].revoked_at = device[d].revoked_at
          /\ d \in D => device'[d].revoked_at = m
    BY <2>1, <2>2 DEF Rows
  <2>4. clobbered' = clobbered \union {d \in D :
          ~ (device[d].revoked_at \union device[d].tokens_revoked_at) \subseteq m}
    BY DEF Revoke
  <2> QED
    BY <2>3, <2>4
<1>4. \A t \in out' : t \in Tokens /\ token[t].on \in Devices
                      /\ (t \in out \/ (t \in m /\ token[t].on \in D))
  BY DEF Revoke, TypeOKSessions, Issued, Known
<1>5. \A t \in out' : token'[t].on \notin clobbered' => Banned(t)'
  BY <1>1, <1>2, <1>3, <1>4 DEF Banned
<1>6. RevokedStaysOut'
  BY <1>5 DEF TypeOKSessions, RevokedStaysOut, Accepted, Banned
<1>7. ASSUME NEW d \in Devices, d \notin clobbered', device'[d].revoked_at # {}
      PROVE  device'[d].tokens_revoked_at \subseteq device'[d].revoked_at
  BY <1>3, <1>7 DEF RevokedInv
<1> QED
  BY <1>6, <1>7 DEF RevokedInv

(* A step that inserts tokens, adds devices, or revives one whose row it   *)
(* has read last.                                                          *)
LEMMA InsertKeepsOut ==
    ASSUME TypeOKSessions, TypeOKSessions', RevokedInv, out' = out,
           \A t \in Issued : token'[t].on = token[t].on,
           clobbered \subseteq clobbered',
           \A d \in Devices \ clobbered' :
             \/ device'[d] = device[d]
             \/ d \notin Known /\ device'[d].revoked_at = {}
             \/ /\ device[d].revoked_at # {} /\ device'[d].revoked_at = {}
                /\ device'[d].tokens_revoked_at = device[d].revoked_at
    PROVE  RevokedInv'
<1>1. \A t \in out : token[t].on \notin clobbered => Banned(t)
  BY RevokedStaysOutRows DEF RevokedInv
<1>2. \A t \in out' : /\ t \in Issued /\ token[t].on \in Known /\ token[t].on \in Devices
                      /\ token'[t].on = token[t].on
  BY DEF TypeOKSessions, Known
<1>3. \A t \in out' : token'[t].on \notin clobbered' => Banned(t)'
  BY <1>1, <1>2 DEF RevokedInv, Banned
<1>4. RevokedStaysOut'
  BY <1>3 DEF TypeOKSessions, RevokedStaysOut, Accepted, Banned
<1>5. ASSUME NEW d \in Devices, d \notin clobbered', device'[d].revoked_at # {}
      PROVE  device'[d].tokens_revoked_at \subseteq device'[d].revoked_at
  BY <1>5 DEF RevokedInv
<1> QED
  BY <1>4, <1>5 DEF RevokedInv

LEMMA RevokedStep ==
    ASSUME SafeInv, RevokedInv, [Next]_vars
    PROVE  RevokedInv'
<1>1. TypeOKSessions /\ TypeOKSessions' /\ device \in [Devices -> Rows]
  BY SafeStep DEF SafeInv, TypeOK, TypeOKSessions
<1>2. CASE UNCHANGED sessionVars
  BY <1>2 DEF sessionVars, RevokedInv, RevokedStaysOut, Accepted, Issued
<1>3. CASE \E d \in Devices, t \in Tokens : LoginNew(d, t)
  <2>1. PICK d \in Devices, t \in Tokens : LoginNew(d, t)
    BY <1>3
  <2>2. \A e \in Devices : device'[e] = device[e] \/ (e \notin Known /\ device'[e].revoked_at = {})
    BY <1>1, <2>1 DEF LoginNew, NewDevice, Absent
  <2> QED
    BY <1>1, <2>1, <2>2, LoginNewSafe, InsertKeepsOut DEF LoginNew
<1>4. CASE \E s \in Slots, t \in Tokens : LoginWrite(s, t)
  <2>1. PICK s \in Slots, t \in Tokens : LoginWrite(s, t)
    BY <1>4
  <2> DEFINE d == job[s].device
             row == job[s].row
  <2>2. d \in Devices /\ row \in Rows
    BY <2>1, JobFields DEF LoginWrite, SafeInv
  <2>3. CASE row.revoked_at = {}
    <3>1. device' = device /\ clobbered' = clobbered /\ out' = out
      BY <2>1, <2>3 DEF LoginWrite
    <3> QED
      BY <1>1, <2>1, <3>1, LoginWriteSafe, InsertKeepsOut
  <2>4. CASE row.revoked_at # {}
    <3>1. /\ device' = [device EXCEPT ![d] = Revived(row)]
          /\ clobbered' = IF device[d] # row THEN clobbered \union {d} ELSE clobbered
          /\ out' = out
      BY <2>1, <2>4 DEF LoginWrite
    <3>2. Revived(row).revoked_at = {} /\ Revived(row).tokens_revoked_at = row.revoked_at
      BY <2>2, <2>4 DEF Revived, Rows
    <3> HIDE DEF d, row
    <3>3. \A e \in Devices \ clobbered' :
            \/ device'[e] = device[e]
            \/ /\ device[e].revoked_at # {} /\ device'[e].revoked_at = {}
               /\ device'[e].tokens_revoked_at = device[e].revoked_at
      BY <1>1, <2>2, <2>4, <3>1, <3>2
    <3> QED
      BY <1>1, <2>1, <3>1, <3>3, LoginWriteSafe, InsertKeepsOut
  <2> QED
    BY <2>3, <2>4
<1>5. CASE \E s \in Slots, t \in Tokens : RefreshWrite(s, t)
  <2>1. PICK s \in Slots, t \in Tokens : RefreshWrite(s, t)
    BY <1>5
  <2> QED
    BY <1>1, <2>1, RefreshWriteSafe, InsertKeepsOut DEF RefreshWrite
<1>6. CASE \E s \in Slots, t \in Tokens : CompleteCommit(s, t)
  <2>1. PICK s \in Slots, t \in Tokens : CompleteCommit(s, t)
    BY <1>6
  <2>2. job[s].device \notin Known
    BY <2>1 DEF CompleteCommit, SafeInv, JobsKnow
  <2>3. \A e \in Devices : device'[e] = device[e] \/ (e \notin Known /\ device'[e].revoked_at = {})
    BY <1>1, <2>1, <2>2 DEF CompleteCommit, NewDevice, Absent
  <2> QED
    BY <1>1, <2>1, <2>3, CompleteCommitSafe, InsertKeepsOut DEF CompleteCommit
<1>7. CASE \E s \in Slots : ReuseWrite(s) \/ Logout(s) \/ LogoutAll(s)
  <2>1. Active \subseteq Known /\ Issued \subseteq Issued
    BY DEF Active
  <2>2. \A s \in Slots : job[s].op = "reuse" => job[s].device \in Known /\ job[s].now \subseteq Issued
    BY DEF SafeInv, JobsKnow
  <2> QED
    BY <1>1, <1>7, <2>1, <2>2, RevokeKeepsOut DEF ReuseWrite, Logout, LogoutAll, ActiveLocked
<1>8. ASSUME NEW s \in Slots, ReadStep(s) \/ Drop(s)
      PROVE  UNCHANGED sessionVars
  BY <1>8 DEF ReadStep, Drop, LoginRead, LogoutAllRead, LogoutRead, RefreshRead, ReuseRead
<1>9. ASSUME NEW r \in Requests, RecordStep(r)
      PROVE  UNCHANGED sessionVars
  BY <1>9, PairingTypes
<1>10. ASSUME NEW s \in Slots, CompleteFinalise(s) \/ \E r \in Requests : CompleteRead(s, r)
       PROVE  UNCHANGED sessionVars
  BY <1>10 DEF CompleteFinalise, CompleteRead
<1>11. UNCHANGED vars => UNCHANGED sessionVars
  BY DEF vars, sessionVars
<1> QED
  BY <1>2, <1>3, <1>4, <1>5, <1>6, <1>7, <1>8, <1>9, <1>10, <1>11, NextCases

(* An access token issued before its device was revoked is never accepted  *)
(* again: not after the next login, not after any exchange, unless a       *)
(* request overwrote a revocation it had not seen.                         *)
THEOREM RevokedTokensStayOut == Spec => []RevokedStaysOut
<1>1. Init => RevokedInv
  BY DEF Init, InitSessions, Absent, RevokedInv, RevokedStaysOut
<1>2. SafeInv /\ RevokedInv /\ [Next]_vars => RevokedInv'
  BY RevokedStep
<1>3. RevokedInv => RevokedStaysOut
  BY DEF RevokedInv
<1> QED
  BY <1>1, <1>2, <1>3, AccountSafe, PTL DEF Spec

----------------------------------------------------------------------------
(* One refresh token *)

LiveInv == \A d \in Devices : \A t, u \in Live(d) \ late : t = u

(* No token becomes live again. *)
LEMMA RevokedNotLive ==
    ASSUME TypeOKSessions, NEW D, NEW u \in Tokens, RevokeTokens(D)[u].state = "live"
    PROVE  RevokeTokens(D)[u] = token[u] /\ \A d \in D : u \notin Live(d)
<1>1. CASE \E d \in D : u \in Live(d)
  <2>1. RevokeTokens(D)[u] = [token[u] EXCEPT !.state = "revoked"]
    BY <1>1 DEF RevokeTokens
  <2> QED
    BY <2>1 DEF TypeOKSessions, TokenRows
<1>2. CASE ~ \E d \in D : u \in Live(d)
  BY <1>2 DEF RevokeTokens
<1> QED
  BY <1>1, <1>2

(* A new device: none of the old tokens is its token. *)
LEMMA NewDeviceLive ==
    ASSUME TypeOKSessions, LiveInv, NEW d \in Devices \ Known, NEW t \in Tokens \ Issued,
           token' = Insert(token, t, d), late' = late
    PROVE  LiveInv'
<1>1. token'[t] = [on |-> d, state |-> "live"] /\ \A u \in Tokens \ {t} : token'[u] = token[u]
  BY DEF Insert, TypeOKSessions
<1>2. \A u \in Issued : token[u].on # d
  BY DEF TypeOKSessions
<1>3. \A e \in Devices, u \in Tokens :
        u \in Live(e)' => (e = d /\ u = t) \/ (e # d /\ u \in Live(e))
  BY <1>1, <1>2 DEF Live, On, Issued
<1>4. \A e \in Devices : Live(e)' \subseteq Tokens
  BY DEF Live, On, Issued
<1> QED
  BY <1>3, <1>4 DEF LiveInv

LEMMA LiveStep ==
    ASSUME SafeInv, LiveInv, [Next]_vars
    PROVE  LiveInv'
<1>1. TypeOKSessions /\ token \in [Tokens -> TokenRows]
  BY DEF SafeInv, TypeOK, TypeOKSessions
<1>2. \A e \in Devices : Live(e) \subseteq Tokens /\ Live(e)' \subseteq Tokens
  BY DEF Live, On, Issued
<1>3. CASE UNCHANGED sessionVars
  BY <1>3 DEF sessionVars, LiveInv, Live, On, Issued
<1>4. CASE \E d \in Devices, t \in Tokens : LoginNew(d, t)
  BY <1>1, <1>4, NewDeviceLive DEF LoginNew
<1>5. CASE \E s \in Slots, t \in Tokens : LoginWrite(s, t)
  <2>1. PICK s \in Slots, t \in Tokens : LoginWrite(s, t)
    BY <1>5
  <2> DEFINE d == job[s].device
             tok == RevokeTokens({d})
  <2>2. t \notin Issued /\ token' = Insert(tok, t, d) /\ late' = late
    BY <2>1 DEF LoginWrite
  <2>3. \A u \in Tokens : tok[u].state = "live" => tok[u] = token[u] /\ u \notin Live(d)
    BY <1>1, RevokedNotLive
  <2>4. tok \in [Tokens -> TokenRows]
    BY <1>1, RevokedTokens
  <2> HIDE DEF d, tok
  <2>5. token'[t] = [on |-> d, state |-> "live"] /\ \A u \in Tokens \ {t} : token'[u] = tok[u]
    BY <2>2, <2>4 DEF Insert
  <2>6. \A e \in Devices, u \in Tokens :
          u \in Live(e)' => (e = d /\ u = t) \/ (e # d /\ u \in Live(e))
    BY <2>3, <2>5 DEF Live, On, Issued
  <2> QED
    BY <1>2, <2>2, <2>6 DEF LiveInv
<1>6. CASE \E s \in Slots, t \in Tokens : RefreshWrite(s, t)
  <2>1. PICK s \in Slots, t \in Tokens : RefreshWrite(s, t)
    BY <1>6
  <2> DEFINE old == job[s].token
             tok == [token EXCEPT ![old].state = "rotated"]
  <2>2. /\ t \notin Issued /\ token' = Insert(tok, t, token[old].on)
        /\ late' = IF old \in late \/ token[old].state # "live" THEN late \union {t} ELSE late
    BY <2>1 DEF RefreshWrite
  <2>3. old \in Issued
    BY <2>1 DEF RefreshWrite, SafeInv, JobsKnow
  <2> HIDE DEF old
  <2>4. \A u \in Tokens : tok[u].state = "live" => u # old /\ tok[u] = token[u]
    BY <1>1, <2>3 DEF TokenRows, Issued
  <2>5. tok \in [Tokens -> TokenRows]
    BY <1>1, <2>3 DEF TokenRows, Issued
  <2> HIDE DEF tok
  <2>6. /\ token'[t] = [on |-> token[old].on, state |-> "live"]
        /\ \A u \in Tokens \ {t} : token'[u] = tok[u]
    BY <2>2, <2>5 DEF Insert
  <2>7. \A e \in Devices, u \in Tokens :
          u \in Live(e)' => (u = t /\ e = token[old].on) \/ (u # old /\ u \in Live(e))
    BY <2>2, <2>4, <2>6 DEF Live, On, Issued
  <2>8. t \notin late' => old \in Live(token[old].on) \ late
    BY <2>2, <2>3 DEF Live, On
  <2>9. late \subseteq late'
    BY <2>2
  <2> QED
    BY <1>2, <2>7, <2>8, <2>9 DEF LiveInv
<1>7. CASE \E s \in Slots, t \in Tokens : CompleteCommit(s, t)
  <2>1. PICK s \in Slots, t \in Tokens : CompleteCommit(s, t)
    BY <1>7
  <2>2. job[s].device \in Devices \ Known
    BY <2>1, JobFields, RequestsAssumption DEF CompleteCommit, SafeInv, JobsKnow
  <2> QED
    BY <1>1, <2>1, <2>2, NewDeviceLive DEF CompleteCommit
<1>8. CASE \E s \in Slots : ReuseWrite(s) \/ Logout(s) \/ LogoutAll(s)
  <2>1. PICK D, m : Revoke(D, m)
    BY <1>8 DEF ReuseWrite, Logout, LogoutAll
  <2>2. \A u \in Tokens : token'[u].state = "live" => token'[u] = token[u]
    BY <1>1, <2>1, RevokedNotLive DEF Revoke
  <2>3. \A e \in Devices : Live(e)' \subseteq Live(e)
    BY <1>1, <2>2 DEF Live, On, Issued, Unused
  <2> QED
    BY <2>1, <2>3 DEF Revoke, LiveInv
<1>9. ASSUME NEW s \in Slots, ReadStep(s) \/ Drop(s)
      PROVE  UNCHANGED sessionVars
  BY <1>9 DEF ReadStep, Drop, LoginRead, LogoutAllRead, LogoutRead, RefreshRead, ReuseRead
<1>10. ASSUME NEW r \in Requests, RecordStep(r)
      PROVE  UNCHANGED sessionVars
  BY <1>10, PairingTypes
<1>11. ASSUME NEW s \in Slots, CompleteFinalise(s) \/ \E r \in Requests : CompleteRead(s, r)
       PROVE  UNCHANGED sessionVars
  BY <1>11 DEF CompleteFinalise, CompleteRead
<1>12. UNCHANGED vars => UNCHANGED sessionVars
  BY DEF vars, sessionVars
<1> QED
  BY <1>3, <1>4, <1>5, <1>6, <1>7, <1>8, <1>9, <1>10, <1>11, <1>12, NextCases

(* A set whose elements are all equal has at most one. *)
LEMMA AtMostOne ==
    ASSUME NEW S, \A x, y \in S : x = y
    PROVE  Cardinality(S) <= 1
<1>1. CASE S = {}
  BY <1>1, FS_EmptySet
<1>2. CASE S # {}
  <2>1. PICK x \in S : TRUE
    BY <1>2
  <2>2. S = {x}
    BY <2>1
  <2> QED
    BY <2>2, FS_Singleton
<1> QED
  BY <1>1, <1>2

(* A device has at most one usable refresh token but for those issued in   *)
(* exchange for a token that another request had taken in between.         *)
THEOREM OneLiveTokenPerDevice == Spec => []OneLiveToken
<1>1. Init => LiveInv
  BY DEF Init, InitSessions, LiveInv, Live, On, Issued
<1>2. SafeInv /\ LiveInv /\ [Next]_vars => LiveInv'
  BY LiveStep
<1>3. LiveInv => OneLiveToken
  BY AtMostOne DEF LiveInv, OneLiveToken
<1> QED
  BY <1>1, <1>2, <1>3, AccountSafe, PTL DEF Spec

----------------------------------------------------------------------------
(* The last active device *)

LEMMA RevokeKeepsOthers ==
    ASSUME NEW D, NEW m, Revoke(D, m)
    PROVE  Active \ D \subseteq Active'
  BY DEF Revoke, Active, Known

LEMMA InsertKeepsActive ==
    ASSUME SafeInv, NEW t \in Tokens,
           \/ \E d \in Devices : LoginNew(d, t)
           \/ \E s \in Slots : LoginWrite(s, t) \/ RefreshWrite(s, t) \/ CompleteCommit(s, t)
    PROVE  Active \subseteq Active'
<1>1. device \in [Devices -> Rows]
  BY DEF SafeInv, TypeOK, TypeOKSessions
<1>2. NewDevice.there /\ NewDevice.revoked_at = {}
  BY DEF NewDevice, Absent
<1>3. CASE \E d \in Devices : LoginNew(d, t)
  BY <1>1, <1>2, <1>3 DEF LoginNew, Active, Known
<1>4. CASE \E s \in Slots : LoginWrite(s, t)
  <2>1. PICK s \in Slots : LoginWrite(s, t)
    BY <1>4
  <2> DEFINE d == job[s].device
             row == job[s].row
  <2>2. row \in Rows /\ row.there
    BY <2>1, JobFields DEF LoginWrite, SafeInv, JobsKnow
  <2>3. device' = device \/ (row.revoked_at # {} /\ device' = [device EXCEPT ![d] = Revived(row)])
    BY <2>1 DEF LoginWrite
  <2>4. row.revoked_at # {} => Revived(row).there /\ Revived(row).revoked_at = {}
    BY <2>2 DEF Revived, Rows
  <2> HIDE DEF d, row
  <2> QED
    BY <1>1, <2>3, <2>4 DEF Active, Known
<1>5. CASE \E s \in Slots : RefreshWrite(s, t)
  BY <1>5 DEF RefreshWrite, Active, Known
<1>6. CASE \E s \in Slots : CompleteCommit(s, t)
  BY <1>1, <1>2, <1>6 DEF CompleteCommit, Active, Known
<1> QED
  BY <1>3, <1>4, <1>5, <1>6

LEMMA LastDeviceStep ==
    ASSUME SafeInv, [Next]_vars, Active # {}, Active' = {}
    PROVE  \E s \in Slots : job[s].op = "reuse" /\ job'[s] = Idle
<1>1. UNCHANGED sessionVars => Active' = Active
  BY DEF sessionVars, Active, Known
<1>2. CASE \E d \in Devices, t \in Tokens : LoginNew(d, t)
  BY <1>2, InsertKeepsActive
<1>3. CASE \E s \in Slots, t \in Tokens : \/ LoginWrite(s, t) \/ RefreshWrite(s, t)
                                         \/ CompleteCommit(s, t)
  BY <1>3, InsertKeepsActive
<1>4. CASE \E s \in Slots : ReuseWrite(s)
  BY <1>4 DEF ReuseWrite, End, SafeInv, TypeOK
<1>5. CASE \E s \in Slots : Logout(s)
  <2>1. PICK s \in Slots : Logout(s)
    BY <1>5
  <2>2. Active \ {job[s].device} \subseteq Active'
    BY <2>1, RevokeKeepsOthers DEF Logout
  <2>3. Active = {job[s].device}
    BY <2>1, <2>2 DEF Logout, ActiveLocked
  <2>4. Cardinality(Active) = 1
    BY <2>3, FS_Singleton
  <2> QED
    BY <2>1, <2>4 DEF Logout, ActiveLocked
<1>6. CASE \E s \in Slots : LogoutAll(s)
  <2>1. PICK s \in Slots : LogoutAll(s)
    BY <1>6
  <2>2. job[s].device \in Active /\ Active \ (Active \ {job[s].device}) \subseteq Active'
    BY <2>1, RevokeKeepsOthers DEF LogoutAll, ActiveLocked
  <2> QED
    BY <2>2
<1>7. ASSUME NEW s \in Slots, ReadStep(s) \/ Drop(s)
      PROVE  UNCHANGED sessionVars
  BY <1>7 DEF ReadStep, Drop, LoginRead, LogoutAllRead, LogoutRead, RefreshRead, ReuseRead
<1>8. ASSUME NEW r \in Requests, RecordStep(r)
      PROVE  UNCHANGED sessionVars
  BY <1>8, PairingTypes
<1>9. ASSUME NEW s \in Slots, CompleteFinalise(s) \/ \E r \in Requests : CompleteRead(s, r)
      PROVE  UNCHANGED sessionVars
  BY <1>9 DEF CompleteFinalise, CompleteRead
<1>10. UNCHANGED vars => UNCHANGED sessionVars
  BY DEF vars, sessionVars
<1> QED
  BY <1>1, <1>2, <1>3, <1>4, <1>5, <1>6, <1>7, <1>8, <1>9, <1>10, NextCases

(* However many logouts run at once, none of them takes the last active    *)
(* device of the account.                                                  *)
THEOREM LogoutKeepsOneDevice == Spec => LastDeviceStays
<1>1. SafeInv /\ [Next]_vars =>
        [Active # {} /\ Active' = {} =>
           \E s \in Slots : job[s].op = "reuse" /\ job'[s] = Idle]_<<sessionVars, job>>
  BY LastDeviceStep
<1> QED
  BY <1>1, AccountSafe, PTL DEF Spec, LastDeviceStays

----------------------------------------------------------------------------
(* Pairing records *)

(* A request has a device, or a completion that is about to commit one,    *)
(* only after its record was completed; and a slot is given back only for  *)
(* a record that was cancelled.                                            *)
PairingInv ==
    /\ \A r \in Requests : r \in Known => pairing[r] \in {"completed", "expired"}
    /\ \A s \in Slots : job[s].op = "issue" => pairing[job[s].device] \in {"completed", "expired"}
    /\ OpenCodeIsCounted
    /\ \A r \in Requests : refund[r] => pairing[r] = "rejected"

LEMMA RecordStepKeeps ==
    ASSUME SafeInv, PairingInv, NEW r \in Requests, RecordStep(r)
    PROVE  /\ PairingInv'
           /\ \A q \in Requests : pairing[q] = "rejected" => pairing'[q] = "rejected"
<1> DEFINE Kept == \A q \in Requests : pairing[q] = "rejected" => pairing'[q] = "rejected"
<1>1. /\ pairing \in [Requests -> Open \union {"none", "rejected", "expired"}]
      /\ refund \in [Requests -> BOOLEAN]
      /\ slot \in [Requests -> {"none", "held", "released", "aged"}]
  BY DEF SafeInv, TypeOK
<1>2. \A s \in Slots : job[s].op = "issue" => job[s].device \in Requests
  BY JobFields DEF SafeInv
<1>3. Known' = Known /\ job' = job
  BY PairingTypes DEF sessionVars, Known
<1>4. CASE Reserve(r)
  BY <1>1, <1>3, <1>4 DEF Reserve, SetSlot, PairingInv, OpenCodeIsCounted
<1>5. CASE Create(r)
  BY <1>1, <1>2, <1>3, <1>5 DEF Create, SetStatus, PairingInv, OpenCodeIsCounted
<1>6. CASE CreateFails(r)
  BY <1>1, <1>3, <1>6 DEF CreateFails, SetSlot, PairingInv, OpenCodeIsCounted, Open
<1>7. CASE Age(r)
  BY <1>1, <1>3, <1>7 DEF Age, SetSlot, PairingInv, OpenCodeIsCounted
<1>8. CASE Expire(r)
  BY <1>1, <1>2, <1>3, <1>8 DEF Expire, SetStatus, PairingInv, OpenCodeIsCounted, Open
<1>9. CASE Review(r, "approved") \/ Review(r, "rejected")
  BY <1>1, <1>2, <1>3, <1>9 DEF Review, SetStatus, PairingInv, OpenCodeIsCounted, Open
<1>10. CASE Cancel(r)
  BY <1>1, <1>2, <1>3, <1>10 DEF Cancel, SetStatus, PairingInv, OpenCodeIsCounted, Open
<1>11. CASE Release(r)
  BY <1>1, <1>3, <1>11 DEF Release, SetSlot, Attempts, Held, PairingInv, OpenCodeIsCounted, Open
<1>12. CASE ClearRefund(r)
  BY <1>1, <1>3, <1>12 DEF ClearRefund, PairingInv, OpenCodeIsCounted
<1> QED
  BY <1>4, <1>5, <1>6, <1>7, <1>8, <1>9, <1>10, <1>11, <1>12 DEF RecordStep

LEMMA PairingStepKeeps ==
    ASSUME SafeInv, PairingInv, [Next]_vars
    PROVE  /\ PairingInv'
           /\ \A r \in Requests : pairing[r] = "rejected" => pairing'[r] = "rejected"
<1>1. /\ job \in [Slots -> SessionJobs \union PairingJobs]
      /\ pairing \in [Requests -> Open \union {"none", "rejected", "expired"}]
  BY DEF SafeInv, TypeOK
<1>2. \A s \in Slots : job[s].op = "issue" => job[s].device \in Requests
  BY JobFields DEF SafeInv
<1>3. ASSUME UNCHANGED pairingVars, \A r \in Requests : r \in Known' => r \in Known,
             \A s \in Slots : job'[s].op = "issue" => job'[s] = job[s]
      PROVE  PairingInv'
  BY <1>3 DEF PairingInv, OpenCodeIsCounted, pairingVars
<1>4. CASE UNCHANGED vars
  BY <1>3, <1>4 DEF vars, pairingVars, Known
<1>5. CASE UNCHANGED pairingVars /\ \E d \in Devices, t \in Tokens : LoginNew(d, t)
  BY <1>3, <1>5, LoginNewSafe DEF LoginNew, pairingVars
<1>6. ASSUME NEW s \in Slots, End(s)
      PROVE  \A q \in Slots : job'[q].op = "issue" => job'[q] = job[q]
  BY <1>1, <1>6 DEF End, Idle
<1>7. CASE UNCHANGED pairingVars
             /\ \E s \in Slots, t \in Tokens : LoginWrite(s, t) \/ RefreshWrite(s, t)
  BY <1>3, <1>6, <1>7, LoginWriteSafe, RefreshWriteSafe DEF LoginWrite, RefreshWrite, pairingVars
<1>8. CASE UNCHANGED pairingVars
             /\ \E s \in Slots : ReuseWrite(s) \/ Logout(s) \/ LogoutAll(s) \/ Drop(s)
  BY <1>3, <1>6, <1>8, RevokeStepSafe DEF ReuseWrite, Logout, LogoutAll, Drop, pairingVars
<1>9. CASE UNCHANGED pairingVars /\ \E s \in Slots : ReadStep(s)
  <2>1. PICK s \in Slots : ReadStep(s)
    BY <1>9
  <2>2. UNCHANGED sessionVars
    BY <2>1 DEF ReadStep, LoginRead, LogoutAllRead, LogoutRead, RefreshRead, ReuseRead
  <2>3. \A q \in Slots : job'[q].op = "issue" => job'[q] = job[q]
    <3>1. CASE \E d \in Devices : LoginRead(s, d)
      BY <1>1, <3>1 DEF LoginRead, Begin
    <3>2. CASE \E d \in Devices : LogoutAllRead(s, d)
      BY <1>1, <3>2 DEF LogoutAllRead, Begin
    <3>3. CASE \E c, d \in Devices : LogoutRead(s, c, d)
      BY <1>1, <3>3 DEF LogoutRead, Begin
    <3>4. CASE \E t \in Tokens : RefreshRead(s, t)
      BY <1>1, <3>4 DEF RefreshRead, Begin
    <3>5. CASE \E t \in Tokens : ReuseRead(s, t)
      BY <1>1, <3>5 DEF ReuseRead, Begin
    <3> QED
      BY <2>1, <3>1, <3>2, <3>3, <3>4, <3>5 DEF ReadStep
  <2> QED
    BY <1>3, <1>9, <2>2, <2>3 DEF sessionVars, Known, pairingVars
<1>10. CASE \E r \in Requests : RecordStep(r)
  BY <1>10, RecordStepKeeps
<1>11. CASE \E s \in Slots, r \in Requests : CompleteRead(s, r)
  <2>1. PICK s \in Slots, r \in Requests : CompleteRead(s, r)
    BY <1>11
  <2>2. UNCHANGED pairingVars /\ UNCHANGED sessionVars
    BY <2>1 DEF CompleteRead
  <2>3. \A q \in Slots : job'[q].op = "issue" => job'[q] = job[q]
    BY <1>1, <2>1 DEF CompleteRead, Begin
  <2> QED
    BY <1>3, <2>2, <2>3 DEF sessionVars, Known, pairingVars
<1>12. CASE \E s \in Slots : CompleteFinalise(s)
  <2>1. PICK s \in Slots : CompleteFinalise(s)
    BY <1>12
  <2> DEFINE r == job[s].device
  <2>2. /\ r \in Requests /\ pairing[r] \in Completable
        /\ pairing' = [pairing EXCEPT ![r] = "completed"]
        /\ refund' = refund /\ slot' = slot /\ Known' = Known
    BY <2>1, JobFields DEF CompleteFinalise, StillCompletable, SetStatus, SafeInv, sessionVars, Known
  <2>3. \A q \in Slots : job'[q] = job[q] \/ (q = s /\ job'[q].device = r)
    <3>1. job[s] \in PairingJobs
      BY <1>1, <2>1 DEF CompleteFinalise, SessionJobs, PairingJobs
    <3>2. job' = [job EXCEPT ![s] = [job[s] EXCEPT !.op = "issue"]]
      BY <2>1 DEF CompleteFinalise
    <3>3. [job[s] EXCEPT !.op = "issue"].device = r
      BY <3>1 DEF PairingJobs
    <3> QED
      BY <1>1, <3>2, <3>3
  <2> HIDE DEF r
  <2>4. \A q \in Slots : job'[q].op = "issue" => pairing'[job'[q].device] \in {"completed", "expired"}
    BY <1>1, <1>2, <2>2, <2>3 DEF PairingInv
  <2>5. OpenCodeIsCounted' /\ \A q \in Requests : refund'[q] => pairing'[q] = "rejected"
    BY <1>1, <2>2 DEF PairingInv, OpenCodeIsCounted, Completable, Open
  <2>6. \A q \in Requests : q \in Known' => pairing'[q] \in {"completed", "expired"}
    BY <1>1, <2>2 DEF PairingInv
  <2>7. \A q \in Requests : pairing[q] = "rejected" => pairing'[q] = "rejected"
    BY <1>1, <2>2 DEF Completable
  <2> QED
    BY <2>4, <2>5, <2>6, <2>7 DEF PairingInv
<1>13. CASE \E s \in Slots, t \in Tokens : CompleteCommit(s, t)
  <2>1. PICK s \in Slots, t \in Tokens : CompleteCommit(s, t)
    BY <1>13
  <2>2. Known' = Known \union {job[s].device} /\ UNCHANGED pairingVars /\ End(s)
        /\ pairing[job[s].device] \in {"completed", "expired"}
    BY <2>1, CompleteCommitSafe DEF CompleteCommit, PairingInv
  <2> QED
    BY <1>6, <2>2 DEF PairingInv, OpenCodeIsCounted, pairingVars
<1> QED
  BY <1>4, <1>5, <1>7, <1>8, <1>9, <1>10, <1>11, <1>12, <1>13, NextCases DEF vars, pairingVars

LEMMA PairingInitInv ==
    ASSUME Init
    PROVE  PairingInv
  BY DEF Init, InitSessions, Absent, Known, Idle, PairingInv, OpenCodeIsCounted, Open

THEOREM PairingInvariant == Spec => []PairingInv
<1>1. SafeInv /\ PairingInv /\ [Next]_vars => PairingInv'
  BY PairingStepKeeps
<1> QED
  BY <1>1, PairingInitInv, AccountSafe, PTL DEF Spec

(* A rejected or cancelled request never connects a device, although its   *)
(* completion may be under way in another process.                         *)
THEOREM RejectedNeverConnects == Spec => RejectedStaysOut
<1>1. SafeInv /\ PairingInv /\ PairingInv' /\ [Next]_vars =>
        [\A r \in Requests :
           pairing[r] = "rejected" => pairing'[r] = "rejected" /\ r \notin Known']_vars
  BY PairingStepKeeps DEF PairingInv
<1> QED
  BY <1>1, PairingInvariant, AccountSafe, PTL DEF Spec, RejectedStaysOut

(* A code in use counts against the quota until it ages.                   *)
THEOREM OpenCodesAreCounted == Spec => []OpenCodeIsCounted
<1>1. PairingInv => OpenCodeIsCounted
  BY DEF PairingInv
<1> QED
  BY <1>1, PairingInvariant, PTL

----------------------------------------------------------------------------
(* The page that scans a code and approves (ScanPage). Two invariants,     *)
(* since no step of the camera touches an approval: one run is current,    *)
(* and a run that asks for the camera has none that is on; an operation is *)
(* numbered by the inspection it began with, so none is shown twice with   *)
(* two envelopes.                                                          *)

Run == [id: Nat, current: BOOLEAN, step: Steps]
Operation == [code: Codes, op: Nat, envelope: Nat]

(* One run is current; while it asks for the camera there is none that is on. *)
OneCurrent == \A r, q \in runs : r.current /\ q.current => r = q
PromptIsDark == \A r \in runs : r.current /\ r.step = "prompt" => live = {}

(* Operations are numbered by the inspection they begin with: what is still to be inspected *)
(* has neither been shown nor posted.                                                       *)
Unshown ==
    /\ \A i, j \in inspects : i.id = j.id => i = j
    /\ \A i \in inspects : i.id <= asked /\ \A s \in posted : s.op # i.id
    /\ \A s \in posted : s.op <= asked
    /\ approval # None => approval.op <= asked /\ \A i \in inspects : i.id # approval.op

(* The envelope of the operation shown is the one that was posted, if any was. *)
EnvelopeKept ==
    approval # None => \A s \in posted : s.op = approval.op => s.envelope = approval.envelope

CameraInv == runs \subseteq Run /\ started \in Nat /\ OneCurrent /\ PromptIsDark /\ CameraOwned
AnswerInv ==
    /\ asked \in Nat /\ inspects \subseteq [id: Nat, code: Codes]
    /\ approval = None \/ approval \in Operation
    /\ posted \subseteq [op: Nat, envelope: Nat \ {0}] /\ IsFiniteSet(posted)
    /\ Unshown /\ EnvelopeKept /\ OneEnvelope

----------------------------------------------------------------------------
(* The camera *)

(* stopScanner turns the stream off and makes the runs stale.              *)
LEMMA CameraStopped ==
    ASSUME CameraInv, NEW rs, StopCamera(rs), started' = started
    PROVE  CameraInv'
<1>1. /\ camera' = 0 /\ live' = live \ {camera}
      /\ runs' = {[r EXCEPT !.current = FALSE] : r \in runs \ rs}
  BY DEF StopCamera
<1>2. live' = {}
  BY <1>1 DEF CameraInv, CameraOwned
<1>3. \A r \in runs : [r EXCEPT !.current = FALSE] \in Run /\ ~[r EXCEPT !.current = FALSE].current
  BY DEF CameraInv, Run
<1>4. \A r \in runs' : r \in Run /\ ~r.current
  BY <1>1, <1>3
<1> QED BY <1>2, <1>4 DEF CameraInv, OneCurrent, PromptIsDark, CameraOwned

(* startScanner begins a run that asks for the camera.                     *)
LEMMA CameraStarted ==
    ASSUME CameraInv, StartCamera
    PROVE  CameraInv'
<1> DEFINE new == [id |-> started + 1, current |-> TRUE, step |-> "prompt"]
<1>1. /\ started' = started + 1 /\ camera' = 0 /\ live' = live \ {camera}
      /\ runs' = {[r EXCEPT !.current = FALSE] : r \in runs} \union {new}
  BY DEF StartCamera
<1>2. live' = {} /\ started' \in Nat
  BY <1>1 DEF CameraInv, CameraOwned
<1>3. \A r \in runs : [r EXCEPT !.current = FALSE] \in Run /\ ~[r EXCEPT !.current = FALSE].current
  BY DEF CameraInv, Run
<1>4. new \in Run
  BY <1>1, <1>2 DEF Run, Steps
<1> HIDE DEF new
<1>5. \A r \in runs' : r \in Run /\ (r = new \/ ~r.current)
  BY <1>1, <1>3, <1>4
<1> QED BY <1>2, <1>5 DEF CameraInv, OneCurrent, PromptIsDark, CameraOwned

(* A run goes on to a step other than asking for the camera. *)
LEMMA RunGoesOn ==
    ASSUME CameraInv, NEW r \in runs, NEW step \in Steps, step # "prompt",
           runs' = (runs \ {r}) \union {[r EXCEPT !.step = step]}, UNCHANGED <<started, camera, live>>
    PROVE  CameraInv'
<1> DEFINE new == [r EXCEPT !.step = step]
<1>1. new \in Run /\ new.current = r.current /\ new.step = step
  BY DEF CameraInv, Run
<1> HIDE DEF new
<1>2. runs' = (runs \ {r}) \union {new}
  BY DEF new
<1> QED BY <1>1, <1>2 DEF CameraInv, OneCurrent, PromptIsDark, CameraOwned

(* A run ends.                                                             *)
LEMMA RunEnds ==
    ASSUME CameraInv, NEW r \in runs, runs' = runs \ {r}, UNCHANGED <<started, camera, live>>
    PROVE  CameraInv'
BY DEF CameraInv, OneCurrent, PromptIsDark, CameraOwned

(* The browser gives the stream; a run that is stale turns it off.         *)
LEMMA CameraGranted ==
    ASSUME CameraInv, NEW r \in runs, Granted(r)
    PROVE  CameraInv'
<1>1. CASE Wanted(r)
  <2> DEFINE new == [r EXCEPT !.step = "playing"]
  <2>1. /\ r.step = "prompt" /\ camera' = r.id /\ live' = live \union {r.id} /\ started' = started
        /\ runs' = (runs \ {r}) \union {new} /\ r.current
    BY <1>1 DEF Granted, Wanted
  <2>2. live' = {r.id}
    BY <2>1 DEF CameraInv, PromptIsDark
  <2>3. new \in Run /\ new.current = r.current /\ new.step = "playing"
    BY DEF CameraInv, Run, Steps
  <2> HIDE DEF new
  <2>4. runs' \subseteq Run /\ OneCurrent'
    BY <2>1, <2>3 DEF CameraInv, OneCurrent
  <2>5. PromptIsDark'
    BY <2>1, <2>3 DEF CameraInv, OneCurrent, PromptIsDark
  <2> QED BY <2>1, <2>2, <2>4, <2>5 DEF CameraInv, CameraOwned
<1>2. CASE ~Wanted(r)
  BY <1>2, RunEnds DEF Granted
<1> QED BY <1>1, <1>2

(* A step of a run.                                                        *)
LEMMA RunStepKeepsCamera ==
    ASSUME CameraInv, NEW r \in runs, RunStep(r)
    PROVE  CameraInv'
<1>1. CASE Playing(r)
  BY <1>1, RunGoesOn DEF Playing, Steps
<1>2. CASE FoundNothing(r)
  BY <1>2, RunGoesOn DEF FoundNothing, Steps
<1>3. CASE Look(r)
  <2>1. started' = started
    BY <1>3 DEF Look
  <2>2. \/ runs' = runs \ {r} /\ UNCHANGED <<camera, live>>
        \/ StopCamera({r})
        \/ runs' = (runs \ {r}) \union {[r EXCEPT !.step = "detecting"]} /\ UNCHANGED <<camera, live>>
    BY <1>3 DEF Look
  <2> QED BY <2>1, <2>2, RunEnds, CameraStopped, RunGoesOn DEF Steps
<1>4. CASE CameraFails(r) \/ FoundOther(r) \/ FoundCode(r)
  BY <1>4, CameraStopped DEF CameraFails, FoundOther, FoundCode
<1> QED BY <1>1, <1>2, <1>3, <1>4 DEF RunStep

(* Every step of the page keeps what is known of the camera.               *)
LEMMA CameraKept ==
    ASSUME CameraInv, [ScanNext]_scanVars
    PROVE  CameraInv'
<1>1. CASE UNCHANGED cameraVars
  BY <1>1 DEF cameraVars, CameraInv, OneCurrent, PromptIsDark, CameraOwned
<1>2. CASE OpenPage \/ ClosePage \/ LockPage \/ Paste \/ StopScan
  BY <1>2, CameraStopped DEF OpenPage, ClosePage, LockPage, Paste, StopScan
<1>3. CASE StartCamera
  BY <1>3, CameraStarted
<1>4. CASE \E r \in runs : Granted(r) \/ RunStep(r)
  BY <1>4, CameraGranted, RunStepKeepsCamera
<1>5. UNCHANGED scanVars => UNCHANGED cameraVars
  BY DEF scanVars, cameraVars
<1>6. LeavePage \/ Unlock => UNCHANGED cameraVars
  BY DEF LeavePage, Unlock
<1>7. (\E i \in inspects : Inspected(i) \/ InspectFails(i)) => UNCHANGED cameraVars
  BY DEF Inspected, InspectFails
<1>8. (\E allow \in BOOLEAN : Answer(allow)) => UNCHANGED cameraVars
  BY DEF Answer
<1>9. (\E a \in answers : Seal(a) \/ AnswerDone(a) \/ AnswerFails(a)) => UNCHANGED cameraVars
  BY DEF Seal, AnswerDone, AnswerFails
<1> QED BY <1>1, <1>2, <1>3, <1>4, <1>5, <1>6, <1>7, <1>8, <1>9 DEF ScanNext

----------------------------------------------------------------------------
(* The answers *)

(* The approval is closed.                                                 *)
LEMMA Closed ==
    ASSUME AnswerInv, approval' = None, UNCHANGED <<inspects, asked, posted>>
    PROVE  AnswerInv'
BY DEF AnswerInv, Unshown, EnvelopeKept, OneEnvelope

(* A step that touches no approval.                                        *)
LEMMA Untouched ==
    ASSUME AnswerInv, UNCHANGED <<inspects, asked, approval, posted>>
    PROVE  AnswerInv'
BY DEF AnswerInv, Unshown, EnvelopeKept, OneEnvelope

(* A code is read: an inspection with a number of its own.                 *)
LEMMA InspectKeeps ==
    ASSUME AnswerInv, NEW code \in Codes, Inspect(code)
    PROVE  AnswerInv'
<1> DEFINE new == [id |-> asked + 1, code |-> code]
<1>1. asked' = asked + 1 /\ inspects' = inspects \union {new} /\ UNCHANGED <<approval, posted>>
  BY DEF Inspect
<1>2. asked \in Nat /\ asked' \in Nat /\ asked < asked'
  BY <1>1 DEF AnswerInv
<1>3. new \in [id: Nat, code: Codes] /\ new.id = asked'
  BY <1>1, <1>2
<1> HIDE DEF new
<1>4. /\ \A i \in inspects : i.id \in Nat /\ i.id < asked'
      /\ \A s \in posted : s.op \in Nat /\ s.op < asked'
      /\ approval # None => approval.op \in Nat /\ approval.op < asked'
  BY <1>2 DEF AnswerInv, Unshown, Operation
<1>5. Unshown'
  BY <1>1, <1>2, <1>3, <1>4 DEF AnswerInv, Unshown
<1>6. EnvelopeKept' /\ OneEnvelope'
  BY <1>1 DEF AnswerInv, EnvelopeKept, OneEnvelope
<1> QED BY <1>1, <1>2, <1>3, <1>5, <1>6 DEF AnswerInv

(* The inspection is answered and its approval shown.                      *)
LEMMA InspectedKeeps ==
    ASSUME AnswerInv, NEW i \in inspects, Inspected(i)
    PROVE  AnswerInv'
<1>1. inspects' = inspects \ {i} /\ UNCHANGED <<asked, posted>>
  BY DEF Inspected
<1>2. CASE approval' = approval
  BY <1>1, <1>2 DEF AnswerInv, Unshown, EnvelopeKept, OneEnvelope
<1>3. CASE approval' = [code |-> i.code, op |-> i.id, envelope |-> 0]
  <2>1. approval' \in Operation /\ approval'.op = i.id
    BY <1>3 DEF AnswerInv, Operation
  <2>2. Unshown'
    BY <1>1, <2>1 DEF AnswerInv, Unshown
  <2>3. EnvelopeKept' /\ OneEnvelope'
    BY <1>1, <2>1 DEF AnswerInv, Unshown, EnvelopeKept, OneEnvelope
  <2> QED BY <1>1, <2>1, <2>2, <2>3 DEF AnswerInv
<1> QED BY <1>2, <1>3 DEF Inspected

(* An answer seals the vault once for the operation.                       *)
LEMMA SealKeeps ==
    ASSUME AnswerInv, NEW a \in answers, Seal(a)
    PROVE  AnswerInv'
<1> DEFINE new == [op |-> a.op, envelope |-> Sealed(approval)]
<1>1. /\ approval # None /\ approval.op = a.op /\ approval' = [approval EXCEPT !.envelope = Sealed(approval)]
      /\ UNCHANGED <<inspects, asked>>
  BY DEF Seal
<1>2. approval \in Operation
  BY <1>1 DEF AnswerInv
<1>3. Fresh \in Nat \ {0}
  BY FS_CardinalityType DEF AnswerInv, Fresh
<1>4. Sealed(approval) \in Nat \ {0}
  BY <1>2, <1>3 DEF Sealed, Operation
<1>5. /\ approval' \in Operation /\ approval'.op = approval.op /\ approval'.envelope = Sealed(approval)
  BY <1>1, <1>2, <1>4 DEF Operation
<1>6. posted' = posted \union {new}
  BY <1>5 DEF Seal
<1>7. new \in [op: Nat, envelope: Nat \ {0}] /\ new.op = approval.op /\ new.envelope = Sealed(approval)
  BY <1>1, <1>2, <1>4 DEF Operation
<1> HIDE DEF new
<1>8. IsFiniteSet(posted')
  BY <1>6, FS_AddElement DEF AnswerInv
<1>9. \A s \in posted : s.op = approval.op => s.envelope = Sealed(approval)
  BY <1>1 DEF AnswerInv, EnvelopeKept, Sealed
<1>10. OneEnvelope' /\ EnvelopeKept'
  BY <1>5, <1>6, <1>7, <1>9 DEF AnswerInv, OneEnvelope, EnvelopeKept
<1>11. Unshown'
  BY <1>1, <1>5, <1>6, <1>7 DEF AnswerInv, Unshown
<1> QED BY <1>1, <1>5, <1>6, <1>7, <1>8, <1>10, <1>11 DEF AnswerInv

(* Every step of the page keeps what is known of the approvals.            *)
LEMMA AnswersKept ==
    ASSUME AnswerInv, [ScanNext]_scanVars
    PROVE  AnswerInv'
<1>1. CASE UNCHANGED answerVars
  BY <1>1, Untouched DEF answerVars
<1>2. CASE OpenPage \/ ClosePage \/ LockPage \/ \E a \in answers : AnswerDone(a)
  BY <1>2, Closed DEF OpenPage, ClosePage, LockPage, AnswerDone
<1>3. CASE Paste \/ \E r \in runs : FoundCode(r)
  BY <1>3, InspectKeeps DEF Paste, FoundCode
<1>4. CASE \E i \in inspects : Inspected(i) \/ InspectFails(i)
  <2>1. PICK i \in inspects : Inspected(i) \/ InspectFails(i)
    BY <1>4
  <2>2. CASE InspectFails(i)
    BY <2>2 DEF InspectFails, AnswerInv, Unshown, EnvelopeKept, OneEnvelope
  <2> QED BY <2>1, <2>2, InspectedKeeps
<1>5. CASE \E a \in answers : Seal(a)
  BY <1>5, SealKeeps
<1>6. CASE (\E allow \in BOOLEAN : Answer(allow)) \/ \E a \in answers : AnswerFails(a)
  BY <1>6, Untouched DEF Answer, AnswerFails
<1>7. UNCHANGED scanVars => UNCHANGED answerVars
  BY DEF scanVars, answerVars
<1>8. LeavePage \/ Unlock \/ StartCamera \/ StopScan => UNCHANGED answerVars
  BY DEF LeavePage, Unlock, StartCamera, StopScan
<1>9. ASSUME NEW r \in runs, Granted(r) \/ RunStep(r), ~FoundCode(r) PROVE UNCHANGED answerVars
  BY <1>9 DEF Granted, RunStep, Playing, CameraFails, Look, FoundNothing, FoundOther
<1> QED BY <1>1, <1>2, <1>3, <1>4, <1>5, <1>6, <1>7, <1>8, <1>9 DEF ScanNext

(* data.js:1180: whatever the user and the network do, no camera stays on  *)
(* that the page does not hold, and an operation is answered with one      *)
(* envelope.                                                               *)
THEOREM ScanIsSound == ScanSpec => []ScanSound
<1>1. ScanInit => CameraInv /\ AnswerInv
  BY FS_EmptySet DEF ScanInit, CameraInv, AnswerInv, OneCurrent, PromptIsDark, CameraOwned, Unshown,
     EnvelopeKept, OneEnvelope
<1>2. CameraInv /\ AnswerInv /\ [ScanNext]_scanVars => CameraInv' /\ AnswerInv'
  BY CameraKept, AnswersKept
<1>3. CameraInv /\ AnswerInv => ScanSound
  BY DEF CameraInv, AnswerInv, ScanSound
<1> QED BY <1>1, <1>2, <1>3, PTL DEF ScanSpec
=============================================================================
