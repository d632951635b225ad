------------------------------ MODULE VaultProofs ------------------------------
(***************************************************************************)
(* Proofs about the vault of one tab: for any PINs and any number of saves *)
(* and PIN checks that run at once, the file opens with the PIN chosen     *)
(* last and holds the token the session accepts, no spent token is         *)
(* presented again, and wrong PINs stay within the limit.                  *)
(*                                                                         *)
(* None of the four is inductive.  The first speaks only of a quiet tab:   *)
(* KeyInv says which key each running save took and why it still fits the  *)
(* salt.  The next two need to know, at every step of an exchange, where   *)
(* the one token that counts is: ExchangeInv.  The last needs the checks   *)
(* that had begun when the limit was reached: CountInv counts them.        *)
(***************************************************************************)
EXTENDS Vault, FiniteSetTheorems, TLAPS

Phase == IF refreshing = None THEN "none" ELSE refreshing.phase

(* A token its session accepts, or whose session is over. *)
Good(x) == live[x[1]] \in {0, x[2]}

(* No token of a session that is still to come. *)
OfPastLogin(x) == x[1] <= logins

(* What a screen has in memory and on disk. *)
ScreenInv ==
    /\ page \in {"app", "opening"} => mem # None
    /\ page = "unlock" => file # None

(* Running checks have an id each. *)
IdsInv == \A t, u \in tries : t.id = u.id => t = u

(* The counter of META, the lockout and the wrong PINs since. *)
CountInv ==
    /\ lockout # "past" => failed = guesses
    /\ lockout = "past" => guesses = 0
    /\ lockout = "none" => guesses < MaxAttempts
    /\ lockout = "future" => /\ guesses >= MaxAttempts
                             /\ guesses + Cardinality(tries) <= MaxAttempts + MaxTries - 1

(* Salts are drawn in order. *)
SaltInv ==
    /\ change # None => salts >= 1
    /\ key # None => key[2] <= salts
    /\ newest # None => newest[2] <= salts
    /\ file # None => file.key[2] <= salts
    /\ \A w \in writes : w.key[2] <= salts
    /\ \A t \in tries : t.box.key[2] <= salts

NotOlder(k) == newest = None \/ k = newest \/ k[2] > newest[2]

KeyInv ==
    "key" \notin overlaps =>
      /\ change # None => /\ writes = {} /\ salt = salts /\ (newest # None => newest[2] < salts)
                          /\ page \in {"app", "opening"}
      /\ key # None /\ change = None => salt = key[2] /\ NotOlder(key)
      /\ page \notin {"app", "opening"} => key = None
      /\ file # None => file.key = newest /\ file.salt = newest[2]
      /\ \A w \in writes :
           /\ w.stage = "encrypt" => key # None
           /\ w.stage = "write" => w.salt = w.key[2]
           /\ NotOlder(w.key)
           /\ key # None => w.key = key
           /\ page = "unlock" => w.key = newest
      /\ \A v, w \in writes : v.key = w.key

(* Where the one token that counts is while nothing was cut short. *)
TokenInv ==
    overlaps = {} =>
      /\ mem # None => OfPastLogin(mem) /\ (Phase # "answered" => Good(mem))
      /\ handoff # None => OfPastLogin(handoff) /\ Good(handoff) /\ mem \in {None, handoff}
      /\ file # None => /\ OfPastLogin(file.token)
                        /\ Phase \notin {"answered", "saving"} => Good(file.token)
      /\ pending # None => pending = mem /\ key # None
      /\ change # None => /\ change.token = mem /\ page \in {"app", "opening"} /\ writes = {}
                          /\ key = None => page = "opening" /\ refreshing = None
      /\ key = None /\ change = None => mem \in {None, handoff}

(* An exchange has one token, and one save when it was answered. *)
ExchangeInv ==
    overlaps = {} =>
      /\ refreshing # None => mem # None
      /\ Phase = "sent" => refreshing.token = mem
      /\ Phase = "answered" => /\ refreshing.token = <<mem[1], mem[2] + 1>> /\ key # None
                               /\ handoff = None
                               /\ live[mem[1]] \in {0, mem[2] + 1}
      /\ Phase = "saving" => \E w \in writes : w.why = "refresh"
      /\ \A w \in writes : /\ w.token = mem /\ mem # None /\ key # None
                           /\ w.why = "refresh" => Phase = "saving"
      /\ \A v, w \in writes : v = w

ReuseInv == reused => overlaps \intersect {"save", "handoff"} # {}
CutInv == "key" \in overlaps => "save" \in overlaps

VaultInv == /\ VaultTypeOK /\ ScreenInv /\ IdsInv /\ CountInv /\ SaltInv /\ KeyInv
            /\ TokenInv /\ ExchangeInv /\ ReuseInv /\ CutInv

USE VaultAssumption

----------------------------------------------------------------------------
(* PIN checks *)

(* There are finitely many, and as many as ids at most. *)
LEMMA CountTries ==
    ASSUME VaultTypeOK, IdsInv
    PROVE  /\ IsFiniteSet(tries) /\ Cardinality(tries) \in 0 .. MaxTries
           /\ \A t \in tries : Cardinality(tries) >= 1
<1> DEFINE f == [t \in tries |-> t.id]
<1>1. IsFiniteSet(1 .. MaxTries) /\ Cardinality(1 .. MaxTries) = MaxTries
  BY FS_Interval
<1>2. \A t \in tries : t.id \in 1 .. MaxTries
  BY DEF VaultTypeOK, Attempt
<1>3. f \in [tries -> 1 .. MaxTries]
  BY <1>2
<1>4. \A t, u \in tries : f[t] = f[u] => t = u
  BY DEF IdsInv
<1>5. f \in Injection(tries, 1 .. MaxTries)
  BY <1>3, <1>4 DEF Injection, IsInjective
<1> HIDE DEF f
<1>6. IsFiniteSet(tries) /\ Cardinality(tries) <= MaxTries
  BY <1>1, <1>5, FS_Injection
<1>7. Cardinality(tries) \in Nat
  BY <1>6, FS_CardinalityType
<1>8. ASSUME NEW t \in tries PROVE Cardinality(tries) >= 1
  BY <1>6, <1>7, <1>8, FS_EmptySet
<1> QED BY <1>6, <1>7, <1>8

(* A check that ends is one less. *)
LEMMA CheckEnds ==
    ASSUME VaultTypeOK, IdsInv, NEW t \in tries, tries' = tries \ {t}
    PROVE  Cardinality(tries') = Cardinality(tries) - 1
BY CountTries, FS_RemoveElement

(* Ids stay distinct. *)
LEMMA IdsStep ==
    ASSUME VaultInv, [VaultNext]_vaultVars
    PROVE  IdsInv'
<1> USE DEF VaultInv, IdsInv, vaultVars, disk, vaultJs, screen, session, server, history
<1>1. CASE tries' \subseteq tries
  BY <1>1
<1>2. ASSUME NEW p \in Pins, Try(p) PROVE IdsInv'
  BY <1>2 DEF Try, Fresh
<1>3. VaultNext => tries' \subseteq tries \/ \E p \in Pins : Try(p)
  BY DEF VaultNext, Save, SaveTimer, LockApp, Logout, BackToLogin, Reload, GateReset, Login,
     Encrypted, Written, CreateVault, ChangePin, Derived, LockoutExpires, WrongPin,
     PasscodeRight, GateRight, RightPin, StartRefresh, Exchange, ExchangeError, Refreshed,
     RefreshLost, SessionRefused, SessionRevoked
<1> QED BY <1>1, <1>2, <1>3

(* What happens to the counters in a step that is no check and no expiry. *)
LEMMA CountFrame ==
    ASSUME VaultInv, [VaultNext]_vaultVars
    PROVE  \/ UNCHANGED <<failed, guesses, lockout>> /\ tries' \subseteq tries
           \/ failed' = 0 /\ guesses' = 0 /\ lockout' = "none"
           \/ LockoutExpires
           \/ \E p \in Pins : Try(p)
           \/ \E t \in tries : WrongPin(t)
BY DEF VaultNext, Save, SaveTimer, LockApp, Logout, BackToLogin, Reload, GateReset, Login,
     Encrypted, Written, CreateVault, ChangePin, Derived,
     PasscodeRight, GateRight, RightPin, StartRefresh, Exchange, ExchangeError, Refreshed,
     RefreshLost, SessionRefused, SessionRevoked, vaultVars, disk, vaultJs, screen, session, server, history

(* The counter, the lockout and the checks that had begun before it. *)
LEMMA CountStep ==
    ASSUME VaultInv, [VaultNext]_vaultVars
    PROVE  CountInv'
<1>0. VaultTypeOK /\ IdsInv /\ CountInv
  BY DEF VaultInv
<1>1. failed \in Nat /\ guesses \in Nat /\ Cardinality(tries) \in 0 .. MaxTries /\ IsFiniteSet(tries)
  BY <1>0, CountTries DEF VaultTypeOK
<1>2. CASE UNCHANGED <<failed, guesses, lockout>> /\ tries' \subseteq tries
  <2>1. Cardinality(tries') \in Nat /\ Cardinality(tries') <= Cardinality(tries)
    BY <1>1, <1>2, FS_Subset, FS_CardinalityType
  <2> QED BY <1>0, <1>1, <1>2, <2>1 DEF CountInv
<1>3. CASE failed' = 0 /\ guesses' = 0 /\ lockout' = "none"
  BY <1>3 DEF CountInv
<1>4. CASE LockoutExpires
  BY <1>0, <1>4 DEF LockoutExpires, CountInv
<1>5. ASSUME NEW p \in Pins, Try(p) PROVE CountInv'
  BY <1>0, <1>5 DEF Try, NotLocked, CountInv, disk, history
<1>6. ASSUME NEW t \in tries, WrongPin(t) PROVE CountInv'
  <2>1. Cardinality(tries') = Cardinality(tries) - 1
    BY <1>0, <1>6, CheckEnds DEF WrongPin
  <2>2. CASE lockout = "future"
    BY <1>0, <1>1, <1>6, <2>1, <2>2 DEF WrongPin, CountInv
  <2>3. CASE lockout # "future"
    <3>1. lockout \in {"none", "past"}
      BY <1>0, <2>3 DEF VaultTypeOK
    <3> QED BY <1>0, <1>1, <1>6, <2>1, <3>1 DEF WrongPin, CountInv
  <2> QED BY <2>2, <2>3
<1> QED BY <1>2, <1>3, <1>4, <1>5, <1>6, CountFrame

----------------------------------------------------------------------------
(* Types *)

(* What the types say of the fields. *)
LEMMA Fields ==
    ASSUME VaultTypeOK
    PROVE  /\ \A k \in Keys : k = <<k[1], k[2]>> /\ k[1] \in Pins /\ k[2] \in 1 .. MaxSalt
           /\ \A x \in Tokens : x = <<x[1], x[2]>> /\ x[1] \in 1 .. MaxSession /\ x[2] \in 1 .. MaxTurn
           /\ \A b \in Box : b.key \in Keys /\ b.salt \in 0 .. MaxSalt /\ b.token \in Tokens
           /\ \A w \in writes : w.key \in Keys /\ w.salt \in 0 .. MaxSalt /\ w.token \in Tokens
           /\ \A t \in tries : t.pin \in Pins /\ t.box \in Box
           /\ file # None => file \in Box
           /\ change # None => change.pin \in Pins /\ change.why \in Reasons /\ change.token \in Tokens
           /\ refreshing # None => refreshing \in Exchanging /\ refreshing.token \in Tokens
           /\ None \notin Keys /\ None \notin Tokens /\ None \notin Box
           /\ None \notin Changing /\ None \notin Exchanging
<1>1. \A k \in Keys : k = <<k[1], k[2]>> /\ k[1] \in Pins /\ k[2] \in 1 .. MaxSalt
  BY DEF Keys
<1>2. \A x \in Tokens : x = <<x[1], x[2]>> /\ x[1] \in 1 .. MaxSession /\ x[2] \in 1 .. MaxTurn
  BY DEF Tokens
<1>3. \A b \in Box : b.key \in Keys /\ b.salt \in 0 .. MaxSalt /\ b.token \in Tokens
  BY DEF Box
<1>4. \A w \in writes : w.key \in Keys /\ w.salt \in 0 .. MaxSalt /\ w.token \in Tokens
  BY DEF VaultTypeOK, Write
<1>5. \A t \in tries : t.pin \in Pins /\ t.box \in Box
  BY DEF VaultTypeOK, Attempt
<1>6. change # None => change.pin \in Pins /\ change.why \in Reasons /\ change.token \in Tokens
  BY DEF VaultTypeOK, Changing, Reasons
<1>7. refreshing # None => refreshing \in Exchanging /\ refreshing.token \in Tokens
  BY DEF VaultTypeOK, Exchanging
<1> QED BY <1>1, <1>2, <1>3, <1>4, <1>5, <1>6, <1>7 DEF VaultTypeOK

(* A session gets another turn. *)
LEMMA LiveUpdate ==
    ASSUME VaultTypeOK, NEW s, NEW n \in 0 .. MaxTurn
    PROVE  [live EXCEPT ![s] = n] \in [1 .. MaxSession -> 0 .. MaxTurn]
BY DEF VaultTypeOK

(* A save that begins. *)
LEMMA EncryptType ==
    ASSUME VaultTypeOK, NEW k \in Keys, NEW x \in Tokens, NEW why \in Reasons, Encrypt(k, x, why)
    PROVE  writes' \subseteq Write
BY DEF Encrypt, Fresh, Write, VaultTypeOK

(* A screen that is left. *)
LEMMA WipeType ==
    ASSUME VaultTypeOK, NEW next \in {"left"}, WipeMemory(next)
    PROVE  /\ key' \in {None} \union Keys /\ salt' \in 0 .. MaxSalt /\ pending' \in {None} \union Tokens
           /\ mem' \in {None} \union Tokens /\ step' \in {"current", "new"}
           /\ page' = "left" /\ overlaps' \subseteq {"key", "save", "handoff"}
BY DEF VaultTypeOK, WipeMemory, Overlap

LEMMA RevokedType ==
    ASSUME VaultTypeOK PROVE Revoked \in [1 .. MaxSession -> 0 .. MaxTurn]
<1>1. CASE mem = None
  BY <1>1 DEF Revoked, VaultTypeOK
<1>2. CASE mem # None
  <2>1. 0 \in 0 .. MaxTurn /\ Revoked = [live EXCEPT ![mem[1]] = 0]
    BY <1>2 DEF Revoked
  <2> QED BY <2>1, LiveUpdate
<1> QED BY <1>1, <1>2

LEMMA DrawType ==
    ASSUME VaultTypeOK, mem # None, NEW p \in Pins, NEW why \in {"create", "change"}, DrawSalt(p, why)
    PROVE  /\ salts' \in 0 .. MaxSalt /\ salt' \in 0 .. MaxSalt /\ change' \in Changing
           /\ overlaps' \subseteq {"key", "save", "handoff"}
<1>1. salts' \in 0 .. MaxSalt /\ salt' \in 0 .. MaxSalt
  BY DEF VaultTypeOK, DrawSalt
<1>2. change' \in Changing
  BY DEF VaultTypeOK, DrawSalt, Changing
<1> QED BY <1>1, <1>2 DEF VaultTypeOK, DrawSalt, Overlap

(* A step keeps the types. *)
LEMMA TypeStep ==
    ASSUME VaultInv, [VaultNext]_vaultVars
    PROVE  VaultTypeOK'
<1> USE DEF disk, vaultJs, screen, session, server, history
<1>0. VaultTypeOK /\ ScreenInv /\ SaltInv /\ CountInv /\ IdsInv
  BY DEF VaultInv
<1>1. CASE Save
  BY <1>0, <1>1 DEF Save, VaultTypeOK
<1>2. CASE SaveTimer
  <2>1. pending \in Tokens /\ key \in Keys /\ Encrypt(key, pending, "save")
    BY <1>0, <1>2 DEF SaveTimer, Run, VaultTypeOK
  <2>2. writes' \subseteq Write
    BY <1>0, <2>1, EncryptType DEF Reasons
  <2> QED BY <1>0, <1>2, <2>2 DEF SaveTimer, Run, Overlap, VaultTypeOK
<1>3. CASE LockApp
  <2>1. mem \in Tokens /\ key \in Keys /\ Encrypt(key, mem, "lock")
    BY <1>0, <1>3 DEF LockApp, Run, VaultTypeOK, ScreenInv
  <2>2. writes' \subseteq Write
    BY <1>0, <2>1, EncryptType DEF Reasons
  <2> QED BY <1>0, <1>3, <2>2 DEF LockApp, Run, Overlap, VaultTypeOK
<1>4. CASE Logout
  BY <1>0, <1>4, WipeType, RevokedType DEF Logout, VaultTypeOK
<1>5. CASE BackToLogin
  <2>1. live' \in [1 .. MaxSession -> 0 .. MaxTurn]
    BY <1>0, <1>5, RevokedType DEF BackToLogin, VaultTypeOK
  <2> QED BY <1>0, <1>5, <2>1, WipeType DEF BackToLogin, VaultTypeOK
<1>6. CASE Reload
  BY <1>0, <1>6 DEF Reload, Boot, Overlap, VaultTypeOK
<1>7. CASE GateReset
  BY <1>0, <1>7 DEF GateReset, VaultTypeOK
<1>8. CASE Login
  <2>1. logins' \in 1 .. MaxSession /\ logins' = logins + 1 /\ UNCHANGED reused
    BY <1>0, <1>8 DEF Login, VaultTypeOK
  <2>2. live' \in [1 .. MaxSession -> 0 .. MaxTurn]
    BY <1>0, <1>8, <2>1 DEF Login, VaultTypeOK
  <2>3. handoff' \in Tokens /\ mem' \in Tokens
    BY <1>8, <2>1 DEF Login, Tokens
  <2>4. page' \in {"unlock", "setup", "restore", "reset", "left"}
    BY <1>8 DEF Login, Boot
  <2> QED BY <1>0, <1>8, <2>1, <2>2, <2>3, <2>4 DEF Login, VaultTypeOK
<1>9. ASSUME NEW w \in writes, Encrypted(w) PROVE VaultTypeOK'
  <2>1. [w EXCEPT !.stage = "write", !.salt = salt] \in Write
    BY <1>0 DEF VaultTypeOK, Write
  <2> QED BY <1>0, <1>9, <2>1 DEF Encrypted, VaultTypeOK
<1>10. ASSUME NEW w \in writes, Written(w) PROVE VaultTypeOK'
  <2>1. writes' \subseteq Write /\ file' \in Box
    BY <1>0, <1>10, Fields DEF Written, VaultTypeOK, Box
  <2>2. key' \in {None} \union Keys /\ salt' \in 0 .. MaxSalt /\ pending' \in {None} \union Tokens
    BY <1>0, <1>10 DEF Written, VaultTypeOK
  <2>3. page' \in {"unlock", "setup", "restore", "reset", "opening", "app", "left"}
    BY <1>0, <1>10 DEF Written, VaultTypeOK
  <2>4. mem' \in {None} \union Tokens /\ handoff' \in {None} \union Tokens
    BY <1>0, <1>10 DEF Written, VaultTypeOK
  <2>5. overlaps' \subseteq {"key", "save", "handoff"}
    BY <1>0, <1>10 DEF Written, VaultTypeOK, Overlap
  <2>6. failed' \in 0 .. MaxAttempts + MaxTries /\ guesses' \in 0 .. MaxAttempts + MaxTries
        /\ lockout' \in {"none", "future", "past"}
    BY <1>0, <1>10 DEF Written, VaultTypeOK
  <2>7. refreshing' \in {None} \union Exchanging /\ step' \in {"current", "new"}
        /\ newest' \in {None} \union Keys
    BY <1>0, <1>10, Fields DEF Written, VaultTypeOK
  <2>8. UNCHANGED <<salts, change, tries, live, logins, reused>>
    BY <1>10 DEF Written
  <2> QED BY <1>0, <2>1, <2>2, <2>3, <2>4, <2>5, <2>6, <2>7, <2>8 DEF VaultTypeOK
<1>11. ASSUME NEW p \in Pins, CreateVault(p) PROVE VaultTypeOK'
  BY <1>0, <1>11, DrawType DEF CreateVault, VaultTypeOK
<1>12. ASSUME NEW p \in Pins, ChangePin(p) PROVE VaultTypeOK'
  BY <1>0, <1>12, DrawType DEF ChangePin, VaultTypeOK, ScreenInv
<1>13. ASSUME NEW p \in Pins, Try(p) PROVE VaultTypeOK'
  <2>1. tries' \subseteq Attempt
    BY <1>0, <1>13 DEF Try, Fresh, VaultTypeOK, Attempt
  <2> QED BY <1>0, <1>13, <2>1 DEF Try, VaultTypeOK
<1>14. CASE Derived
  <2>1. key' \in Keys
    <3>1. change.pin \in Pins /\ salts \in 1 .. MaxSalt /\ key' = <<change.pin, salts>>
      BY <1>0, <1>14, Fields DEF Derived, VaultTypeOK, SaltInv
    <3> QED BY <3>1 DEF Keys
  <2>2. writes' \subseteq Write
    BY <1>0, <1>14, <2>1, Fields, EncryptType DEF Derived
  <2> QED BY <1>0, <1>14, <2>1, <2>2 DEF Derived, Overlap, VaultTypeOK
<1>15. CASE LockoutExpires
  BY <1>0, <1>15 DEF LockoutExpires, VaultTypeOK
<1>16. ASSUME NEW t \in tries, WrongPin(t) PROVE VaultTypeOK'
  <2>1. tries' \subseteq Attempt
    BY <1>0, <1>16 DEF WrongPin, VaultTypeOK
  <2>2. failed' \in 0 .. MaxAttempts + MaxTries /\ guesses' \in 0 .. MaxAttempts + MaxTries
    BY <1>0, <1>16, CountTries DEF WrongPin, CountInv, VaultTypeOK
  <2> QED BY <1>0, <1>16, <2>1, <2>2 DEF WrongPin, VaultTypeOK
<1>17. ASSUME NEW t \in tries, PasscodeRight(t) PROVE VaultTypeOK'
  <2>1. key' \in Keys /\ salt' \in 0 .. MaxSalt
    BY <1>0, <1>17, Fields DEF PasscodeRight, RightPin, Unseal
  <2>2. overlaps' \subseteq {"key", "save", "handoff"}
    BY <1>0, <1>17 DEF PasscodeRight, VaultTypeOK
  <2> QED BY <1>0, <1>17, <2>1, <2>2 DEF PasscodeRight, RightPin, VaultTypeOK
<1>18. ASSUME NEW t \in tries, GateRight(t) PROVE VaultTypeOK'
  <2>1. t.box \in Box /\ t.box.token \in Tokens /\ key' \in Keys /\ salt' \in 0 .. MaxSalt
    BY <1>0, <1>18, Fields DEF GateRight, RightPin, Unseal
  <2>2. failed' \in 0 .. MaxAttempts + MaxTries /\ guesses' \in 0 .. MaxAttempts + MaxTries
        /\ lockout' \in {"none", "future", "past"} /\ tries' \subseteq Attempt
    BY <1>0, <1>18 DEF GateRight, RightPin, VaultTypeOK
  <2>3. overlaps' \subseteq {"key", "save", "handoff"}
    BY <1>0, <1>18 DEF GateRight, Overlap, VaultTypeOK
  <2>4. page' \in {"unlock", "setup", "restore", "reset", "opening", "app", "left"}
    BY <1>0, <1>18 DEF GateRight, VaultTypeOK
  <2>5. mem' \in Tokens /\ handoff' \in {None} \union Tokens
    BY <1>0, <1>18, <2>1 DEF GateRight, VaultTypeOK
  <2>6. writes' \subseteq Write
    BY <1>0, <1>18, <2>1, <2>5, EncryptType DEF GateRight, VaultTypeOK, Reasons
  <2>7. refreshing' \in {None} \union Exchanging
    BY <1>0, <1>18, <2>5 DEF GateRight, VaultTypeOK, Exchanging
  <2>8. UNCHANGED <<file, salts, pending, change, server, newest, step>>
    BY <1>18 DEF GateRight, RightPin
  <2> QED BY <1>0, <2>1, <2>2, <2>3, <2>4, <2>5, <2>6, <2>7, <2>8 DEF VaultTypeOK
<1>19. CASE StartRefresh
  <2>1. refreshing' \in Exchanging
    BY <1>0, <1>19 DEF StartRefresh, VaultTypeOK, Exchanging
  <2> QED BY <1>0, <1>19, <2>1 DEF StartRefresh, VaultTypeOK
<1>20. CASE Exchange
  <2>1. refreshing.token \in Tokens /\ refreshing.token[1] \in 1 .. MaxSession /\ refreshing.token[2] \in 1 .. MaxTurn
    BY <1>0, <1>20, Fields DEF Exchange
  <2>2. CASE refreshing.token[2] = live[refreshing.token[1]]
    <3>1. refreshing.token[2] + 1 \in 1 .. MaxTurn
      BY <1>20, <2>1, <2>2 DEF Exchange
    <3>2. refreshing' \in Exchanging
      BY <1>20, <2>1, <2>2, <3>1 DEF Exchange, Exchanging, Tokens
    <3>3. live' \in [1 .. MaxSession -> 0 .. MaxTurn]
      <4>1. refreshing.token[2] + 1 \in 0 .. MaxTurn
        BY <3>1
      <4>2. live' = [live EXCEPT ![refreshing.token[1]] = refreshing.token[2] + 1]
        BY <1>20, <2>2 DEF Exchange
      <4> QED BY <1>0, <4>1, <4>2, LiveUpdate
    <3>4. overlaps' \subseteq {"key", "save", "handoff"}
      BY <1>0, <1>20, <2>2 DEF Exchange, Overlap, VaultTypeOK
    <3> QED BY <1>0, <1>20, <2>2, <3>2, <3>3, <3>4 DEF Exchange, VaultTypeOK
  <2>3. CASE refreshing.token[2] # live[refreshing.token[1]]
    <3>1. live' \in [1 .. MaxSession -> 0 .. MaxTurn]
      <4>1. 0 \in 0 .. MaxTurn /\ live' = [live EXCEPT ![refreshing.token[1]] = 0]
        BY <1>20, <2>3 DEF Exchange
      <4> QED BY <1>0, <4>1, LiveUpdate
    <3>2. refreshing' \in Exchanging
      BY <1>0, <1>20, <2>3, Fields DEF Exchange, Exchanging
    <3>3. reused' \in BOOLEAN
      BY <1>0, <1>20, <2>3, Zenon DEF Exchange, VaultTypeOK
    <3> QED BY <1>0, <1>20, <2>3, <3>1, <3>2, <3>3 DEF Exchange, VaultTypeOK
  <2> QED BY <2>2, <2>3
<1>21. CASE ExchangeError
  <2>1. refreshing' \in Exchanging
    BY <1>0, <1>21, Fields DEF ExchangeError, Exchanging
  <2> QED BY <1>0, <1>21, <2>1 DEF ExchangeError, VaultTypeOK
<1>22. CASE Refreshed
  <2>1. mem' \in Tokens
    BY <1>0, <1>22, Fields DEF Refreshed
  <2>2. refreshing' \in {None} \union Exchanging
    BY <1>0, <1>22, Fields DEF Refreshed, OnRefresh, Exchanging
  <2>3. writes' \subseteq Write /\ pending' \in {None} \union Tokens
    BY <1>0, <1>22, <2>1, EncryptType DEF Refreshed, OnRefresh, Run, VaultTypeOK, Reasons
  <2>4. overlaps' \subseteq {"key", "save", "handoff"}
    BY <1>0, <1>22 DEF Refreshed, OnRefresh, Run, Overlap, VaultTypeOK
  <2> QED BY <1>0, <1>22, <2>1, <2>2, <2>3, <2>4 DEF Refreshed, VaultTypeOK
<1>23. CASE RefreshLost
  <2>1. CASE page = "opening"
    BY <1>0, <1>23, <2>1, WipeType DEF RefreshLost, VaultTypeOK
  <2>2. CASE page # "opening"
    BY <1>0, <1>23, <2>2 DEF RefreshLost, VaultTypeOK
  <2> QED BY <2>1, <2>2
<1>24. CASE SessionRefused
  BY <1>0, <1>24, WipeType DEF SessionRefused, VaultTypeOK
<1>25. CASE SessionRevoked
  <2>1. live' \in [1 .. MaxSession -> 0 .. MaxTurn]
    BY <1>0, <1>25, LiveUpdate DEF SessionRevoked
  <2> QED BY <1>0, <1>25, <2>1, WipeType DEF SessionRevoked, VaultTypeOK
<1>26. CASE UNCHANGED vaultVars
  BY <1>0, <1>26 DEF vaultVars, VaultTypeOK
<1> QED
  BY <1>1, <1>2, <1>3, <1>4, <1>5, <1>6, <1>7, <1>8, <1>9, <1>10, <1>11, <1>12, <1>13, <1>14,
     <1>15, <1>16, <1>17, <1>18, <1>19, <1>20, <1>21, <1>22, <1>23, <1>24, <1>25, <1>26 DEF VaultNext

----------------------------------------------------------------------------
(* Keys and salts *)

(* What a save that begins adds. *)
LEMMA EncryptAdds ==
    ASSUME NEW k, NEW x, NEW why, Encrypt(k, x, why)
    PROVE  \E e : /\ writes' = writes \union {e} /\ e.stage = "encrypt"
                  /\ e.key = k /\ e.token = x /\ e.why = why
<1>1. PICK i \in Fresh(writes, MaxWrites) :
        writes' = writes \union {[id |-> i, stage |-> "encrypt", key |-> k, salt |-> 0,
                                 token |-> x, why |-> why]}
  BY DEF Encrypt
<1> DEFINE e == [id |-> i, stage |-> "encrypt", key |-> k, salt |-> 0, token |-> x, why |-> why]
<1> WITNESS e
<1> QED BY <1>1

(* A save that begins while another or a change of the key runs is counted. *)
LEMMA RunAdds ==
    ASSUME NEW x, NEW why, Run(x, why)
    PROVE  /\ \E e : /\ writes' = writes \union {e} /\ e.stage = "encrypt"
                     /\ e.key = key /\ e.token = x /\ e.why = why
           /\ "key" \notin overlaps' => "key" \notin overlaps /\ change = None
           /\ overlaps' = {} => overlaps = {} /\ writes = {} /\ change = None
<1>1. Encrypt(key, x, why)
  BY DEF Run
<1>2. overlaps' = overlaps \union Overlap(writes # {} \/ change # None, "save")
                           \union Overlap(change # None, "key")
  BY DEF Run
<1> QED BY <1>1, <1>2, EncryptAdds DEF Overlap

(* What a save is after it read the salt. *)
LEMMA EncryptedAdds ==
    ASSUME VaultTypeOK, NEW w \in writes, Encrypted(w)
    PROVE  \E e : /\ writes' = (writes \ {w}) \union {e} /\ e.stage = "write"
                  /\ e.key = w.key /\ e.salt = salt /\ e.token = w.token /\ e.why = w.why
<1> DEFINE e == [w EXCEPT !.stage = "write", !.salt = salt]
<1>1. w \in Write
  BY DEF VaultTypeOK
<1>2. e.stage = "write" /\ e.key = w.key /\ e.salt = salt /\ e.token = w.token /\ e.why = w.why
  BY <1>1 DEF Write
<1> QED BY <1>2 DEF Encrypted

LEMMA DrawAdds ==
    ASSUME VaultTypeOK, ScreenInv, mem # None, NEW p \in Pins, NEW why \in {"create", "change"},
           DrawSalt(p, why)
    PROVE  /\ salts' = salts + 1 /\ salt' = salts' /\ change' # None
           /\ "key" \notin overlaps' => writes = {} /\ change = None /\ "key" \notin overlaps
           /\ overlaps' = {} => ~Busy /\ overlaps = {}
BY Fields, DrawType DEF DrawSalt, Overlap

(* Salts are numbers. *)
LEMMA Salts ==
    ASSUME VaultTypeOK
    PROVE  /\ salts \in Nat /\ (key # None => key[2] \in Nat) /\ (newest # None => newest[2] \in Nat)
           /\ file # None => file.key[2] \in Nat
           /\ \A t \in tries : t.box.key[2] \in Nat
           /\ \A w \in writes : w.key[2] \in Nat
<1>1. \A k \in Keys : k[2] \in Nat
  BY Fields
<1>2. key # None => key \in Keys
  BY DEF VaultTypeOK
<1>3. newest # None => newest \in Keys
  BY DEF VaultTypeOK
<1>4. file # None => file.key[2] \in Nat
  BY <1>1, Fields
<1>5. \A t \in tries : t.box.key[2] \in Nat
  BY <1>1, Fields
<1>6. \A w \in writes : w.key[2] \in Nat
  BY <1>1, Fields
<1> QED BY <1>1, <1>2, <1>3, <1>4, <1>5, <1>6 DEF VaultTypeOK

(* No key, file or save is of a salt that is still to be drawn. *)
LEMMA SaltStep ==
    ASSUME VaultInv, [VaultNext]_vaultVars
    PROVE  SaltInv'
<1> USE DEF disk, vaultJs, screen, session, server, history, SaltInv
<1>0. VaultTypeOK /\ SaltInv /\ ScreenInv
  BY DEF VaultInv
<1>s. /\ salts \in Nat /\ (key # None => key[2] \in Nat) /\ (newest # None => newest[2] \in Nat)
      /\ file # None => file.key[2] \in Nat
      /\ \A t \in tries : t.box.key[2] \in Nat
      /\ \A w \in writes : w.key[2] \in Nat
  BY <1>0, Salts
<1>1. CASE Save
  BY <1>0, <1>s, <1>1 DEF Save
<1>2. CASE SaveTimer
  <2>1. \E e : writes' = writes \union {e} /\ e.key = key
    BY <1>2, RunAdds DEF SaveTimer
  <2> QED BY <1>0, <1>s, <1>2, <2>1 DEF SaveTimer
<1>3. CASE LockApp
  <2>1. \E e : writes' = writes \union {e} /\ e.key = key
    BY <1>3, RunAdds DEF LockApp
  <2> QED BY <1>0, <1>s, <1>3, <2>1 DEF LockApp
<1>4. CASE Logout
  BY <1>0, <1>s, <1>4 DEF Logout, WipeMemory, Revoked, Overlap
<1>5. CASE BackToLogin
  BY <1>0, <1>s, <1>5 DEF BackToLogin, WipeMemory, Revoked, Overlap
<1>6. CASE Reload
  BY <1>0, <1>s, <1>6 DEF Reload, Boot, Overlap
<1>7. CASE GateReset
  BY <1>0, <1>s, <1>7 DEF GateReset
<1>8. CASE Login
  BY <1>0, <1>s, <1>8 DEF Login, Boot
<1>9. ASSUME NEW w \in writes, Encrypted(w) PROVE SaltInv'
  <2>1. \E e : writes' = (writes \ {w}) \union {e} /\ e.key = w.key
    BY <1>0, <1>9, EncryptedAdds
  <2> QED BY <1>0, <1>9, <2>1 DEF Encrypted
<1>10. ASSUME NEW w \in writes, Written(w) PROVE SaltInv'
  BY <1>0, <1>s, <1>10 DEF Written, Overlap
<1>11. ASSUME NEW p \in Pins, CreateVault(p) PROVE SaltInv'
  <2>1. salts' = salts + 1
    BY <1>11 DEF CreateVault, DrawSalt
  <2> QED BY <1>0, <1>s, <1>11, <2>1 DEF CreateVault
<1>12. ASSUME NEW p \in Pins, ChangePin(p) PROVE SaltInv'
  <2>1. salts' = salts + 1
    BY <1>12 DEF ChangePin, DrawSalt
  <2> QED BY <1>0, <1>s, <1>12, <2>1 DEF ChangePin
<1>13. ASSUME NEW p \in Pins, Try(p) PROVE SaltInv'
  <2>1. \A t \in tries' : t \in tries \/ t.box = file
    BY <1>13 DEF Try
  <2> QED BY <1>0, <1>s, <1>13, <2>1 DEF Try
<1>14. CASE Derived
  <2>1. \E e : writes' = writes \union {e} /\ e.key = key'
    BY <1>14, EncryptAdds DEF Derived
  <2> QED BY <1>0, <1>s, <1>14, <2>1 DEF Derived
<1>15. CASE LockoutExpires
  BY <1>0, <1>s, <1>15 DEF LockoutExpires
<1>16. ASSUME NEW t \in tries, WrongPin(t) PROVE SaltInv'
  BY <1>0, <1>s, <1>16 DEF WrongPin, Opens
<1>17. ASSUME NEW t \in tries, PasscodeRight(t) PROVE SaltInv'
  BY <1>0, <1>s, <1>17 DEF PasscodeRight, RightPin, Unseal, Opens
<1>18. ASSUME NEW t \in tries, GateRight(t) PROVE SaltInv'
  <2>1. \A w \in writes' : w \in writes \/ w.key = key'
    BY <1>18, EncryptAdds DEF GateRight
  <2> QED BY <1>0, <1>s, <1>18, <2>1 DEF GateRight, RightPin, Unseal
<1>19. CASE StartRefresh
  BY <1>0, <1>s, <1>19 DEF StartRefresh, MayExchange
<1>20. CASE Exchange
  BY <1>0, <1>s, <1>20 DEF Exchange, Overlap
<1>21. CASE ExchangeError
  BY <1>0, <1>s, <1>21 DEF ExchangeError
<1>22. CASE Refreshed
  <2>1. CASE key = None
    BY <1>0, <1>s, <1>22, <2>1 DEF Refreshed, OnRefresh
  <2>2. CASE key # None
    <3>1. \E e : writes' = writes \union {e} /\ e.key = key
      BY <1>22, <2>2, RunAdds DEF Refreshed, OnRefresh
    <3> QED BY <1>0, <1>s, <1>22, <2>2, <3>1 DEF Refreshed, OnRefresh
  <2> QED BY <2>1, <2>2
<1>23. CASE RefreshLost
  BY <1>0, <1>s, <1>23 DEF RefreshLost, WipeMemory, Overlap
<1>24. CASE SessionRefused
  BY <1>0, <1>s, <1>24 DEF SessionRefused, WipeMemory, Overlap
<1>25. CASE SessionRevoked
  BY <1>0, <1>s, <1>25 DEF SessionRevoked, WipeMemory, Overlap
<1>26. CASE UNCHANGED vaultVars
  BY <1>0, <1>s, <1>26 DEF vaultVars
<1> QED
  BY <1>1, <1>2, <1>3, <1>4, <1>5, <1>6, <1>7, <1>8, <1>9, <1>10, <1>11, <1>12, <1>13, <1>14,
     <1>15, <1>16, <1>17, <1>18, <1>19, <1>20, <1>21, <1>22, <1>23, <1>24, <1>25, <1>26 DEF VaultNext

(* The key of each save fits the salt that will stand beside it. *)
LEMMA KeyStep ==
    ASSUME VaultInv, [VaultNext]_vaultVars
    PROVE  KeyInv'
<1> USE DEF disk, vaultJs, screen, session, server, history, KeyInv, NotOlder
<1>0. VaultTypeOK /\ ScreenInv /\ SaltInv /\ KeyInv
  BY DEF VaultInv
<1>s. /\ salts \in Nat
      /\ key # None => key[2] \in Nat /\ key[2] <= salts
      /\ newest # None => newest[2] \in Nat /\ newest[2] <= salts
      /\ \A w \in writes : w.key[2] \in Nat
  BY <1>0, Salts DEF SaltInv
<1>1. CASE Save
  BY <1>0, <1>s, <1>1 DEF Save
<1>2. CASE SaveTimer
  <2>1. \E e : writes' = writes \union {e} /\ e.stage = "encrypt" /\ e.key = key
    BY <1>2, RunAdds DEF SaveTimer
  <2>2. "key" \notin overlaps' => "key" \notin overlaps /\ change = None
    BY <1>2, RunAdds DEF SaveTimer
  <2> QED BY <1>0, <1>s, <1>2, <2>1, <2>2 DEF SaveTimer
<1>3. CASE LockApp
  <2>1. \E e : writes' = writes \union {e} /\ e.stage = "encrypt" /\ e.key = key
    BY <1>3, RunAdds DEF LockApp
  <2>2. "key" \notin overlaps' => "key" \notin overlaps /\ change = None
    BY <1>3, RunAdds DEF LockApp
  <2> QED BY <1>0, <1>s, <1>3, <2>1, <2>2 DEF LockApp
<1>4. CASE Logout
  BY <1>0, <1>s, <1>4 DEF Logout, WipeMemory, Revoked, Overlap, Unsealed
<1>5. CASE BackToLogin
  BY <1>0, <1>s, <1>5 DEF BackToLogin, WipeMemory, Revoked, Overlap, Unsealed
<1>6. CASE Reload
  BY <1>0, <1>s, <1>6 DEF Reload, Boot, Overlap
<1>7. CASE GateReset
  BY <1>0, <1>s, <1>7 DEF GateReset
<1>8. CASE Login
  BY <1>0, <1>s, <1>8 DEF Login, Boot, Quiet, Busy
<1>9. ASSUME NEW w \in writes, Encrypted(w) PROVE KeyInv'
  <2>1. \E e : /\ writes' = (writes \ {w}) \union {e}
               /\ e.stage = "write" /\ e.key = w.key /\ e.salt = salt
    BY <1>0, <1>9, EncryptedAdds
  <2> QED BY <1>0, <1>s, <1>9, <2>1 DEF Encrypted
<1>10. ASSUME NEW w \in writes, Written(w) PROVE KeyInv'
  <2>1. "key" \notin overlaps' =>
          "key" \notin overlaps /\ (w.why = "lock" => change = None)
    BY <1>10 DEF Written, Overlap
  <2>2. writes' = writes \ {w} /\ w.stage = "write" /\ UNCHANGED <<salts, change>>
        /\ file' = [key |-> w.key, salt |-> w.salt, token |-> w.token]
        /\ newest' = IF newest = None \/ w.key[2] > newest[2] THEN w.key ELSE newest
    BY <1>10 DEF Written
  <2>0. "key" \notin overlaps' => newest' = w.key /\ file'.key = newest' /\ file'.salt = newest'[2]
                                 /\ newest' # None
    BY <1>0, <1>s, <2>1, <2>2, Fields
  <2>3. CASE w.why = "lock"
    <3>1. key' = None /\ page' \in {"left", "unlock"}
      BY <1>10, <2>3 DEF Written
    <3>2. "key" \notin overlaps' => \A v \in writes' : v.stage # "encrypt" /\ v \in writes
      BY <1>10, <2>1, <2>2, <2>3 DEF Written, Overlap
    <3> QED BY <1>0, <1>s, <2>0, <2>1, <2>2, <2>3, <3>1, <3>2
  <2>4. CASE w.why # "lock"
    BY <1>0, <1>s, <1>10, <2>0, <2>1, <2>2, <2>4 DEF Written
  <2> QED BY <2>3, <2>4
<1>11. ASSUME NEW p \in Pins, CreateVault(p) PROVE KeyInv'
  <2>1. salts' = salts + 1 /\ salt' = salts' /\ change' # None
    BY <1>0, <1>11, DrawAdds DEF CreateVault
  <2>2. "key" \notin overlaps' => writes = {} /\ "key" \notin overlaps
    BY <1>0, <1>11, DrawAdds DEF CreateVault
  <2> QED BY <1>0, <1>s, <1>11, <2>1, <2>2 DEF CreateVault
<1>12. ASSUME NEW p \in Pins, ChangePin(p) PROVE KeyInv'
  <2>1. salts' = salts + 1 /\ salt' = salts' /\ change' # None
    BY <1>0, <1>12, DrawAdds DEF ChangePin, ScreenInv
  <2>2. "key" \notin overlaps' => writes = {} /\ "key" \notin overlaps
    BY <1>0, <1>12, DrawAdds DEF ChangePin, ScreenInv
  <2> QED BY <1>0, <1>s, <1>12, <2>1, <2>2 DEF ChangePin
<1>13. ASSUME NEW p \in Pins, Try(p) PROVE KeyInv'
  BY <1>0, <1>s, <1>13 DEF Try, Fresh, NotLocked
<1>14. CASE Derived
  <2>1. \E e : writes' = writes \union {e} /\ e.stage = "encrypt" /\ e.key = key'
    BY <1>14, EncryptAdds DEF Derived
  <2>2. key' = <<change.pin, salts>> /\ change # None /\ change' = None
    BY <1>14 DEF Derived
  <2>3. "key" \notin overlaps' => "key" \notin overlaps
    BY <1>14 DEF Derived
  <2>4. key'[2] = salts
    BY <2>2
  <2>5. key' # None
    <3>1. change.pin \in Pins /\ salts \in 1 .. MaxSalt
      BY <1>0, <2>2, Fields DEF VaultTypeOK, SaltInv
    <3>2. key' \in Keys
      BY <2>2, <3>1 DEF Keys
    <3> QED BY <1>0, <3>2, Fields
  <2> QED BY <1>0, <1>s, <1>14, <2>1, <2>2, <2>3, <2>4, <2>5 DEF Derived
<1>15. CASE LockoutExpires
  BY <1>0, <1>s, <1>15 DEF LockoutExpires
<1>16. ASSUME NEW t \in tries, WrongPin(t) PROVE KeyInv'
  BY <1>0, <1>s, <1>16 DEF WrongPin, Opens
<1>17. ASSUME NEW t \in tries, PasscodeRight(t) PROVE KeyInv'
  <2>1. "key" \notin overlaps' => "key" \notin overlaps /\ key' = key /\ salt' = salt
    BY <1>17 DEF PasscodeRight
  <2> QED BY <1>0, <1>s, <1>17, <2>1 DEF PasscodeRight, RightPin
<1>18. ASSUME NEW t \in tries, GateRight(t) PROVE KeyInv'
  <2>1. SUFFICES ASSUME "key" \notin overlaps' PROVE KeyInv'
    OBVIOUS
  <2>2. "key" \notin overlaps /\ change = None /\ page = "unlock" /\ t.box = file
        /\ \A w \in writes : w.stage # "encrypt"
    BY <1>18, <2>1 DEF GateRight, Overlap, Unsealed
  <2>3. file # None /\ key' = newest /\ salt' = newest[2] /\ key' # None
    BY <1>0, <1>s, <1>18, <2>2, Fields DEF GateRight, RightPin, Unseal, Opens
  <2>4. \A w \in writes' : w \in writes \/ (w.stage = "encrypt" /\ w.key = key')
    BY <1>18, EncryptAdds DEF GateRight
  <2>5. page' = "opening" /\ change' = None /\ UNCHANGED <<file, newest>>
    BY <1>18, <2>2 DEF GateRight, RightPin
  <2> QED BY <1>0, <1>s, <2>2, <2>3, <2>4, <2>5
<1>19. CASE StartRefresh
  BY <1>0, <1>s, <1>19 DEF StartRefresh, MayExchange
<1>20. CASE Exchange
  BY <1>0, <1>s, <1>20 DEF Exchange, Overlap
<1>21. CASE ExchangeError
  BY <1>0, <1>s, <1>21 DEF ExchangeError
<1>22. CASE Refreshed
  <2>1. CASE key = None
    BY <1>0, <1>s, <1>22, <2>1 DEF Refreshed, OnRefresh
  <2>2. CASE key # None
    <3>1. \E e : writes' = writes \union {e} /\ e.stage = "encrypt" /\ e.key = key
      BY <1>22, <2>2, RunAdds DEF Refreshed, OnRefresh
    <3>2. "key" \notin overlaps' => "key" \notin overlaps /\ change = None
      BY <1>22, <2>2, RunAdds DEF Refreshed, OnRefresh
    <3> QED BY <1>0, <1>s, <1>22, <2>2, <3>1, <3>2 DEF Refreshed, OnRefresh
  <2> QED BY <2>1, <2>2
<1>23. CASE RefreshLost
  BY <1>0, <1>s, <1>23 DEF RefreshLost, WipeMemory, Overlap, Unsealed
<1>24. CASE SessionRefused
  BY <1>0, <1>s, <1>24 DEF SessionRefused, WipeMemory, Overlap, Unsealed
<1>25. CASE SessionRevoked
  BY <1>0, <1>s, <1>25 DEF SessionRevoked, WipeMemory, Overlap, Unsealed
<1>26. CASE UNCHANGED vaultVars
  BY <1>0, <1>s, <1>26 DEF vaultVars
<1> QED
  BY <1>1, <1>2, <1>3, <1>4, <1>5, <1>6, <1>7, <1>8, <1>9, <1>10, <1>11, <1>12, <1>13, <1>14,
     <1>15, <1>16, <1>17, <1>18, <1>19, <1>20, <1>21, <1>22, <1>23, <1>24, <1>25, <1>26 DEF VaultNext

----------------------------------------------------------------------------
(* Tokens *)

(* Nothing that was cut short is forgotten. *)
LEMMA OverlapsGrow ==
    ASSUME [VaultNext]_vaultVars
    PROVE  overlaps \subseteq overlaps'
BY DEF VaultNext, Save, SaveTimer, LockApp, Logout, BackToLogin, Reload, GateReset, Login,
     Encrypted, Written, CreateVault, ChangePin, Try, Derived, LockoutExpires, WrongPin,
     PasscodeRight, GateRight, StartRefresh, Exchange, ExchangeError, Refreshed, RefreshLost,
     SessionRefused, SessionRevoked, Run, WipeMemory, DrawSalt, OnRefresh,
     vaultVars, disk, vaultJs, screen, session, server, history

(* The key that was derived is one. *)
LEMMA DerivedKey ==
    ASSUME VaultInv, Derived
    PROVE  key' \in Keys
<1>1. change.pin \in Pins /\ salts \in 1 .. MaxSalt /\ key' = <<change.pin, salts>>
  BY Fields DEF VaultInv, VaultTypeOK, SaltInv, Derived
<1> QED BY <1>1 DEF Keys

(* The token that counts stays where it should. *)
LEMMA TokenStep ==
    ASSUME VaultInv, [VaultNext]_vaultVars, overlaps' = {}
    PROVE  TokenInv'
<1> USE DEF disk, vaultJs, screen, session, server, history, TokenInv, ExchangeInv,
            Good, OfPastLogin, Phase
<1>0. /\ VaultTypeOK /\ VaultTypeOK' /\ ScreenInv /\ TokenInv /\ ExchangeInv /\ overlaps = {}
      /\ page \notin {"app", "opening"} => key = None
  BY TypeStep, OverlapsGrow DEF VaultInv, KeyInv
<1>1. CASE Save
  BY <1>0, <1>1 DEF Save
<1>2. CASE SaveTimer
  <2>1. \E e : writes' = writes \union {e} /\ e.token = pending /\ e.why = "save"
    BY <1>2, RunAdds DEF SaveTimer
  <2>2. writes = {} /\ change = None
    BY <1>2, RunAdds DEF SaveTimer
  <2> QED BY <1>0, <1>2, <2>1, <2>2 DEF SaveTimer, ScreenInv
<1>3. CASE LockApp
  <2>1. \E e : writes' = writes \union {e} /\ e.token = mem /\ e.why = "lock"
    BY <1>3, RunAdds DEF LockApp
  <2>2. writes = {} /\ change = None
    BY <1>3, RunAdds DEF LockApp
  <2> QED BY <1>0, <1>3, <2>1, <2>2 DEF LockApp, ScreenInv
<1>4. CASE Logout
  BY <1>0, <1>4 DEF Logout, WipeMemory, Revoked, Overlap, Busy, Unsealed
<1>5. CASE BackToLogin
  <2>1. mem' = None /\ handoff' = None /\ key' = None /\ pending' = None /\ ~Busy
        /\ UNCHANGED <<file, change, writes, refreshing, logins>>
    BY <1>0, <1>5 DEF BackToLogin, WipeMemory, Overlap
  <2>2. \A s \in 1 .. MaxSession : live'[s] \in {0, live[s]}
    BY <1>0, <1>5 DEF BackToLogin, Revoked, VaultTypeOK
  <2>3. file # None => file.token[1] \in 1 .. MaxSession
    BY <1>0, Fields
  <2> QED BY <1>0, <2>1, <2>2, <2>3 DEF Busy
<1>6. CASE Reload
  BY <1>0, <1>6 DEF Reload, Boot, Overlap, Busy
<1>7. CASE GateReset
  BY <1>0, <1>7 DEF GateReset
<1>8. CASE Login
  <2>1. logins \in Nat /\ logins' = logins + 1 /\ handoff' = <<logins', 1>> /\ mem' = handoff'
        /\ logins' \in 1 .. MaxSession /\ writes = {} /\ change = None /\ refreshing = None
        /\ page' \notin {"app", "opening"}
        /\ UNCHANGED <<file, key, pending, change, writes, refreshing>>
    BY <1>0, <1>8 DEF Login, Boot, Quiet, Busy, VaultTypeOK
  <2>2. live'[logins'] = 1 /\ \A s \in 1 .. MaxSession : s <= logins => live'[s] = live[s]
    BY <1>0, <1>8, <2>1 DEF Login, VaultTypeOK
  <2>3. file # None => file.token[1] \in 1 .. MaxSession
    BY <1>0, Fields
  <2>4. handoff'[1] = logins' /\ handoff'[2] = 1
    BY <2>1
  <2>5. page \notin {"app", "opening"}
    BY <1>8 DEF Login
  <2> QED BY <1>0, <2>1, <2>2, <2>3, <2>4, <2>5
<1>9. ASSUME NEW w \in writes, Encrypted(w) PROVE TokenInv'
  <2>1. \E e : /\ writes' = (writes \ {w}) \union {e}
               /\ e.token = w.token /\ e.why = w.why
    BY <1>0, <1>9, EncryptedAdds
  <2> QED BY <1>0, <1>9, <2>1 DEF Encrypted
<1>10. ASSUME NEW w \in writes, Written(w) PROVE TokenInv'
  BY <1>0, <1>10 DEF Written, Overlap
<1>11. ASSUME NEW p \in Pins, CreateVault(p) PROVE TokenInv'
  <2>1. ~Busy
    BY <1>0, <1>11, DrawAdds DEF CreateVault
  <2>2. change'.token = mem
    BY <1>11 DEF CreateVault, DrawSalt
  <2> QED BY <1>0, <1>11, <2>1, <2>2 DEF CreateVault, Busy
<1>12. ASSUME NEW p \in Pins, ChangePin(p) PROVE TokenInv'
  <2>1. ~Busy
    BY <1>0, <1>12, DrawAdds DEF ChangePin, ScreenInv
  <2>2. change'.token = mem
    BY <1>12 DEF ChangePin, DrawSalt
  <2> QED BY <1>0, <1>12, <2>1, <2>2 DEF ChangePin, Busy
<1>13. ASSUME NEW p \in Pins, Try(p) PROVE TokenInv'
  BY <1>0, <1>13 DEF Try, Fresh, NotLocked
<1>14. CASE Derived
  <2>1. \E e : writes' = writes \union {e} /\ e.token = change.token /\ e.why = change.why
    BY <1>14, EncryptAdds DEF Derived
  <2>2. writes = {} /\ change.token = mem /\ change # None /\ change' = None
    BY <1>14 DEF Derived, Overlap
  <2>3. change.why # "refresh"
    BY <1>0, <2>2 DEF VaultTypeOK, Changing
  <2>4. key' # None
    BY <1>0, <1>14, Fields, DerivedKey
  <2> QED BY <1>0, <1>14, <2>1, <2>2, <2>3, <2>4 DEF Derived, ScreenInv
<1>15. CASE LockoutExpires
  BY <1>0, <1>15 DEF LockoutExpires
<1>16. ASSUME NEW t \in tries, WrongPin(t) PROVE TokenInv'
  BY <1>0, <1>16 DEF WrongPin, Opens
<1>17. ASSUME NEW t \in tries, PasscodeRight(t) PROVE TokenInv'
  <2>1. key' = key /\ salt' = salt
    BY <1>0, <1>17 DEF PasscodeRight
  <2> QED BY <1>0, <1>17, <2>1 DEF PasscodeRight, RightPin
<1>18. ASSUME NEW t \in tries, GateRight(t) PROVE TokenInv'
  <2>1. page = "unlock" /\ t.box = file /\ ~Busy
    BY <1>0, <1>18 DEF GateRight, Overlap
  <2>2. file # None /\ key' # None /\ file.token \in Tokens
    BY <1>0, <1>18, <2>1, Fields DEF GateRight, RightPin, Unseal, ScreenInv
  <2>3. page' = "opening" /\ UNCHANGED <<file, pending, change, live, logins>>
    BY <1>18, <2>1 DEF GateRight, RightPin
  <2>4. CASE handoff # None
    <3>1. \E e : writes' = writes \union {e} /\ e.token = mem' /\ e.why = "handoff"
      BY <1>18, <2>4, EncryptAdds DEF GateRight
    <3>2. mem' = handoff /\ handoff' = None /\ UNCHANGED refreshing
      BY <1>18, <2>4 DEF GateRight
    <3> QED BY <1>0, <2>1, <2>2, <2>3, <2>4, <3>1, <3>2 DEF Busy
  <2>5. CASE handoff = None
    <3>1. mem' = file.token /\ refreshing' = [phase |-> "sent", token |-> mem']
          /\ UNCHANGED <<handoff, writes>>
      BY <1>18, <2>1, <2>5 DEF GateRight, Busy
    <3> QED BY <1>0, <2>1, <2>2, <2>3, <2>5, <3>1, Fields DEF Busy
  <2> QED BY <2>4, <2>5
<1>19. CASE StartRefresh
  BY <1>0, <1>19 DEF StartRefresh, MayExchange
<1>20. CASE Exchange
  <2>1. /\ refreshing # None /\ refreshing.phase = "sent" /\ refreshing.token = mem /\ mem # None
        /\ mem \in Tokens /\ mem[1] \in 1 .. MaxSession /\ mem[2] \in Nat
    BY <1>0, <1>20, Fields DEF Exchange, VaultTypeOK
  <2>2. UNCHANGED <<file, pending, change, writes, key, page, mem, handoff, logins>>
    BY <1>20 DEF Exchange
  <2>4. (handoff # None => handoff \in Tokens) /\ (file # None => file.token \in Tokens)
    BY <1>0, Fields DEF VaultTypeOK
  <2>5. CASE mem[2] = live[mem[1]]
    <3>1. /\ live' = [live EXCEPT ![mem[1]] = mem[2] + 1] /\ handoff # mem
          /\ refreshing' = [phase |-> "answered", token |-> <<mem[1], mem[2] + 1>>]
      BY <1>0, <1>20, <2>1, <2>5 DEF Exchange, Overlap
    <3>2. refreshing' # None /\ refreshing'.phase = "answered"
          /\ refreshing'.token = <<mem[1], mem[2] + 1>>
      <4>1. mem[2] + 1 \in 1 .. MaxTurn
        BY <1>0, <1>20, <2>1, <2>5 DEF Exchange
      <4>2. refreshing' \in Exchanging
        BY <2>1, <3>1, <4>1 DEF Exchanging, Tokens
      <4> QED BY <1>0, <3>1, <4>2, Fields
    <3>3. live'[mem[1]] = mem[2] + 1
      BY <1>0, <2>1, <3>1 DEF VaultTypeOK
    <3>4. handoff = None /\ key # None
      BY <1>0, <2>1, <3>1
    <3> QED BY <1>0, <2>1, <2>2, <3>2, <3>3, <3>4
  <2>6. CASE mem[2] # live[mem[1]]
    <3>1. live' = [live EXCEPT ![mem[1]] = 0] /\ refreshing' = [refreshing EXCEPT !.phase = "refused"]
      BY <1>20, <2>1, <2>6 DEF Exchange
    <3>2. refreshing' # None /\ refreshing'.phase = "refused"
      <4>1. refreshing \in Exchanging
        BY <1>0, <2>1, Fields
      <4>2. refreshing' \in Exchanging /\ refreshing'.phase = "refused"
        BY <3>1, <4>1 DEF Exchanging
      <4> QED BY <1>0, <4>2, Fields
    <3>3. \A s \in 1 .. MaxSession : live'[s] \in {0, live[s]}
      BY <1>0, <3>1 DEF VaultTypeOK
    <3> QED BY <1>0, <2>1, <2>2, <2>4, <3>2, <3>3, Fields
  <2> QED BY <2>5, <2>6
<1>21. CASE ExchangeError
  BY <1>0, <1>21 DEF ExchangeError
<1>22. CASE Refreshed
  <2>1. refreshing # None /\ refreshing.phase = "answered" /\ key # None /\ mem # None
    BY <1>0, <1>22 DEF Refreshed
  <2>2. PICK e : writes' = writes \union {e} /\ e.token = mem' /\ e.why = "refresh"
    BY <1>22, <2>1, RunAdds DEF Refreshed, OnRefresh
  <2>3. writes = {} /\ change = None
    BY <1>22, <2>1, RunAdds DEF Refreshed, OnRefresh
  <2>4. refreshing' # None /\ refreshing'.phase = "saving" /\ pending' = None
    BY <1>0, <1>22, <2>1, Fields DEF Refreshed, OnRefresh, Exchanging
  <2>5. mem' = <<mem[1], mem[2] + 1>> /\ mem'[1] = mem[1] /\ mem'[2] = mem[2] + 1 /\ mem' # None
    BY <1>0, <1>22, <2>1, Fields DEF Refreshed
  <2>6. UNCHANGED <<key, change, page, handoff, file, live, logins>>
    BY <1>22 DEF Refreshed
  <2>7. writes' = {e}
    BY <2>2, <2>3
  <2> QED BY <1>0, <2>1, <2>2, <2>3, <2>4, <2>5, <2>6, <2>7
<1>23. CASE RefreshLost
  BY <1>0, <1>23 DEF RefreshLost, WipeMemory, Overlap, Busy, Unsealed
<1>24. CASE SessionRefused
  BY <1>0, <1>24 DEF SessionRefused, WipeMemory, Overlap, Busy, Unsealed
<1>25. CASE SessionRevoked
  BY <1>0, <1>25 DEF SessionRevoked, WipeMemory, Overlap, Busy, Unsealed
<1>26. CASE UNCHANGED vaultVars
  BY <1>0, <1>26 DEF vaultVars
<1> QED
  BY <1>1, <1>2, <1>3, <1>4, <1>5, <1>6, <1>7, <1>8, <1>9, <1>10, <1>11, <1>12, <1>13, <1>14,
     <1>15, <1>16, <1>17, <1>18, <1>19, <1>20, <1>21, <1>22, <1>23, <1>24, <1>25, <1>26 DEF VaultNext

(* An exchange stays one exchange. *)
LEMMA ExchangeStep ==
    ASSUME VaultInv, [VaultNext]_vaultVars, overlaps' = {}
    PROVE  ExchangeInv'
<1> USE DEF disk, vaultJs, screen, session, server, history, TokenInv, ExchangeInv,
            Good, OfPastLogin, Phase
<1>0. /\ VaultTypeOK /\ VaultTypeOK' /\ ScreenInv /\ TokenInv /\ ExchangeInv /\ overlaps = {}
      /\ page \notin {"app", "opening"} => key = None
  BY TypeStep, OverlapsGrow DEF VaultInv, KeyInv
<1>1. CASE Save
  BY <1>0, <1>1 DEF Save
<1>2. CASE SaveTimer
  <2>1. \E e : writes' = writes \union {e} /\ e.token = pending /\ e.why = "save"
    BY <1>2, RunAdds DEF SaveTimer
  <2>2. writes = {} /\ change = None
    BY <1>2, RunAdds DEF SaveTimer
  <2> QED BY <1>0, <1>2, <2>1, <2>2 DEF SaveTimer, ScreenInv
<1>3. CASE LockApp
  <2>1. \E e : writes' = writes \union {e} /\ e.token = mem /\ e.why = "lock"
    BY <1>3, RunAdds DEF LockApp
  <2>2. writes = {} /\ change = None
    BY <1>3, RunAdds DEF LockApp
  <2> QED BY <1>0, <1>3, <2>1, <2>2 DEF LockApp, ScreenInv
<1>4. CASE Logout
  BY <1>0, <1>4 DEF Logout, WipeMemory, Revoked, Overlap, Busy, Unsealed
<1>5. CASE BackToLogin
  <2>1. mem' = None /\ handoff' = None /\ key' = None /\ pending' = None /\ ~Busy
        /\ UNCHANGED <<file, change, writes, refreshing, logins>>
    BY <1>0, <1>5 DEF BackToLogin, WipeMemory, Overlap
  <2>2. \A s \in 1 .. MaxSession : live'[s] \in {0, live[s]}
    BY <1>0, <1>5 DEF BackToLogin, Revoked, VaultTypeOK
  <2>3. file # None => file.token[1] \in 1 .. MaxSession
    BY <1>0, Fields
  <2> QED BY <1>0, <2>1, <2>2, <2>3 DEF Busy
<1>6. CASE Reload
  BY <1>0, <1>6 DEF Reload, Boot, Overlap, Busy
<1>7. CASE GateReset
  BY <1>0, <1>7 DEF GateReset
<1>8. CASE Login
  <2>1. logins \in Nat /\ logins' = logins + 1 /\ handoff' = <<logins', 1>> /\ mem' = handoff'
        /\ logins' \in 1 .. MaxSession /\ writes = {} /\ change = None /\ refreshing = None
        /\ page' \notin {"app", "opening"}
        /\ UNCHANGED <<file, key, pending, change, writes, refreshing>>
    BY <1>0, <1>8 DEF Login, Boot, Quiet, Busy, VaultTypeOK
  <2>2. live'[logins'] = 1 /\ \A s \in 1 .. MaxSession : s <= logins => live'[s] = live[s]
    BY <1>0, <1>8, <2>1 DEF Login, VaultTypeOK
  <2>3. file # None => file.token[1] \in 1 .. MaxSession
    BY <1>0, Fields
  <2>4. handoff'[1] = logins' /\ handoff'[2] = 1
    BY <2>1
  <2>5. page \notin {"app", "opening"}
    BY <1>8 DEF Login
  <2> QED BY <1>0, <2>1, <2>2, <2>3, <2>4, <2>5
<1>9. ASSUME NEW w \in writes, Encrypted(w) PROVE ExchangeInv'
  <2>1. \E e : /\ writes' = (writes \ {w}) \union {e}
               /\ e.token = w.token /\ e.why = w.why
    BY <1>0, <1>9, EncryptedAdds
  <2> QED BY <1>0, <1>9, <2>1 DEF Encrypted
<1>10. ASSUME NEW w \in writes, Written(w) PROVE ExchangeInv'
  BY <1>0, <1>10 DEF Written, Overlap
<1>11. ASSUME NEW p \in Pins, CreateVault(p) PROVE ExchangeInv'
  <2>1. ~Busy
    BY <1>0, <1>11, DrawAdds DEF CreateVault
  <2>2. change'.token = mem
    BY <1>11 DEF CreateVault, DrawSalt
  <2> QED BY <1>0, <1>11, <2>1, <2>2 DEF CreateVault, Busy
<1>12. ASSUME NEW p \in Pins, ChangePin(p) PROVE ExchangeInv'
  <2>1. ~Busy
    BY <1>0, <1>12, DrawAdds DEF ChangePin, ScreenInv
  <2>2. change'.token = mem
    BY <1>12 DEF ChangePin, DrawSalt
  <2> QED BY <1>0, <1>12, <2>1, <2>2 DEF ChangePin, Busy
<1>13. ASSUME NEW p \in Pins, Try(p) PROVE ExchangeInv'
  BY <1>0, <1>13 DEF Try, Fresh, NotLocked
<1>14. CASE Derived
  <2>1. \E e : writes' = writes \union {e} /\ e.token = change.token /\ e.why = change.why
    BY <1>14, EncryptAdds DEF Derived
  <2>2. writes = {} /\ change.token = mem /\ change # None /\ change' = None
    BY <1>14 DEF Derived, Overlap
  <2>3. change.why # "refresh"
    BY <1>0, <2>2 DEF VaultTypeOK, Changing
  <2>4. key' # None
    BY <1>0, <1>14, Fields, DerivedKey
  <2> QED BY <1>0, <1>14, <2>1, <2>2, <2>3, <2>4 DEF Derived, ScreenInv
<1>15. CASE LockoutExpires
  BY <1>0, <1>15 DEF LockoutExpires
<1>16. ASSUME NEW t \in tries, WrongPin(t) PROVE ExchangeInv'
  BY <1>0, <1>16 DEF WrongPin, Opens
<1>17. ASSUME NEW t \in tries, PasscodeRight(t) PROVE ExchangeInv'
  <2>1. key' = key /\ salt' = salt
    BY <1>0, <1>17 DEF PasscodeRight
  <2> QED BY <1>0, <1>17, <2>1 DEF PasscodeRight, RightPin
<1>18. ASSUME NEW t \in tries, GateRight(t) PROVE ExchangeInv'
  <2>1. page = "unlock" /\ t.box = file /\ ~Busy
    BY <1>0, <1>18 DEF GateRight, Overlap
  <2>2. file # None /\ key' # None /\ file.token \in Tokens
    BY <1>0, <1>18, <2>1, Fields DEF GateRight, RightPin, Unseal, ScreenInv
  <2>3. page' = "opening" /\ UNCHANGED <<file, pending, change, live, logins>>
    BY <1>18, <2>1 DEF GateRight, RightPin
  <2>4. CASE handoff # None
    <3>1. \E e : writes' = writes \union {e} /\ e.token = mem' /\ e.why = "handoff"
      BY <1>18, <2>4, EncryptAdds DEF GateRight
    <3>2. mem' = handoff /\ handoff' = None /\ UNCHANGED refreshing
      BY <1>18, <2>4 DEF GateRight
    <3> QED BY <1>0, <2>1, <2>2, <2>3, <2>4, <3>1, <3>2 DEF Busy
  <2>5. CASE handoff = None
    <3>1. mem' = file.token /\ refreshing' = [phase |-> "sent", token |-> mem']
          /\ UNCHANGED <<handoff, writes>>
      BY <1>18, <2>1, <2>5 DEF GateRight, Busy
    <3> QED BY <1>0, <2>1, <2>2, <2>3, <2>5, <3>1, Fields DEF Busy
  <2> QED BY <2>4, <2>5
<1>19. CASE StartRefresh
  BY <1>0, <1>19 DEF StartRefresh, MayExchange
<1>20. CASE Exchange
  <2>1. /\ refreshing # None /\ refreshing.phase = "sent" /\ refreshing.token = mem /\ mem # None
        /\ mem \in Tokens /\ mem[1] \in 1 .. MaxSession /\ mem[2] \in Nat
    BY <1>0, <1>20, Fields DEF Exchange, VaultTypeOK
  <2>2. UNCHANGED <<file, pending, change, writes, key, page, mem, handoff, logins>>
    BY <1>20 DEF Exchange
  <2>4. (handoff # None => handoff \in Tokens) /\ (file # None => file.token \in Tokens)
    BY <1>0, Fields DEF VaultTypeOK
  <2>5. CASE mem[2] = live[mem[1]]
    <3>1. /\ live' = [live EXCEPT ![mem[1]] = mem[2] + 1] /\ handoff # mem
          /\ refreshing' = [phase |-> "answered", token |-> <<mem[1], mem[2] + 1>>]
      BY <1>0, <1>20, <2>1, <2>5 DEF Exchange, Overlap
    <3>2. refreshing' # None /\ refreshing'.phase = "answered"
          /\ refreshing'.token = <<mem[1], mem[2] + 1>>
      <4>1. mem[2] + 1 \in 1 .. MaxTurn
        BY <1>0, <1>20, <2>1, <2>5 DEF Exchange
      <4>2. refreshing' \in Exchanging
        BY <2>1, <3>1, <4>1 DEF Exchanging, Tokens
      <4> QED BY <1>0, <3>1, <4>2, Fields
    <3>3. live'[mem[1]] = mem[2] + 1
      BY <1>0, <2>1, <3>1 DEF VaultTypeOK
    <3>4. handoff = None /\ key # None
      BY <1>0, <2>1, <3>1
    <3> QED BY <1>0, <2>1, <2>2, <3>2, <3>3, <3>4
  <2>6. CASE mem[2] # live[mem[1]]
    <3>1. live' = [live EXCEPT ![mem[1]] = 0] /\ refreshing' = [refreshing EXCEPT !.phase = "refused"]
      BY <1>20, <2>1, <2>6 DEF Exchange
    <3>2. refreshing' # None /\ refreshing'.phase = "refused"
      <4>1. refreshing \in Exchanging
        BY <1>0, <2>1, Fields
      <4>2. refreshing' \in Exchanging /\ refreshing'.phase = "refused"
        BY <3>1, <4>1 DEF Exchanging
      <4> QED BY <1>0, <4>2, Fields
    <3>3. \A s \in 1 .. MaxSession : live'[s] \in {0, live[s]}
      BY <1>0, <3>1 DEF VaultTypeOK
    <3> QED BY <1>0, <2>1, <2>2, <2>4, <3>2, <3>3, Fields
  <2> QED BY <2>5, <2>6
<1>21. CASE ExchangeError
  BY <1>0, <1>21 DEF ExchangeError
<1>22. CASE Refreshed
  <2>1. refreshing # None /\ refreshing.phase = "answered" /\ key # None /\ mem # None
    BY <1>0, <1>22 DEF Refreshed
  <2>2. PICK e : writes' = writes \union {e} /\ e.token = mem' /\ e.why = "refresh"
    BY <1>22, <2>1, RunAdds DEF Refreshed, OnRefresh
  <2>3. writes = {} /\ change = None
    BY <1>22, <2>1, RunAdds DEF Refreshed, OnRefresh
  <2>4. refreshing' # None /\ refreshing'.phase = "saving" /\ pending' = None
    BY <1>0, <1>22, <2>1, Fields DEF Refreshed, OnRefresh, Exchanging
  <2>5. mem' = <<mem[1], mem[2] + 1>> /\ mem'[1] = mem[1] /\ mem'[2] = mem[2] + 1 /\ mem' # None
    BY <1>0, <1>22, <2>1, Fields DEF Refreshed
  <2>6. UNCHANGED <<key, change, page, handoff, file, live, logins>>
    BY <1>22 DEF Refreshed
  <2>7. writes' = {e}
    BY <2>2, <2>3
  <2> QED BY <1>0, <2>1, <2>2, <2>3, <2>4, <2>5, <2>6, <2>7
<1>23. CASE RefreshLost
  BY <1>0, <1>23 DEF RefreshLost, WipeMemory, Overlap, Busy, Unsealed
<1>24. CASE SessionRefused
  BY <1>0, <1>24 DEF SessionRefused, WipeMemory, Overlap, Busy, Unsealed
<1>25. CASE SessionRevoked
  BY <1>0, <1>25 DEF SessionRevoked, WipeMemory, Overlap, Busy, Unsealed
<1>26. CASE UNCHANGED vaultVars
  BY <1>0, <1>26 DEF vaultVars
<1> QED
  BY <1>1, <1>2, <1>3, <1>4, <1>5, <1>6, <1>7, <1>8, <1>9, <1>10, <1>11, <1>12, <1>13, <1>14,
     <1>15, <1>16, <1>17, <1>18, <1>19, <1>20, <1>21, <1>22, <1>23, <1>24, <1>25, <1>26 DEF VaultNext

(* A spent token returns only when something was cut short. *)
LEMMA ReuseStep ==
    ASSUME VaultInv, [VaultNext]_vaultVars
    PROVE  ReuseInv'
<1>0. VaultTypeOK /\ ReuseInv /\ overlaps \subseteq overlaps'
  BY OverlapsGrow DEF VaultInv
<1>1. CASE Exchange
  <2>1. CASE overlaps \intersect {"save", "handoff"} # {}
    BY <1>0, <2>1 DEF ReuseInv
  <2>2. CASE overlaps \intersect {"save", "handoff"} = {}
    <3>1. overlaps = {} /\ ~reused
      BY <1>0, <2>2 DEF VaultInv, VaultTypeOK, CutInv, ReuseInv
    <3>2. refreshing # None /\ refreshing.token = mem /\ live[mem[1]] \in {0, mem[2]}
      BY <1>1, <3>1 DEF Exchange, VaultInv, TokenInv, ExchangeInv, Good, Phase
    <3> QED BY <1>1, <3>1, <3>2 DEF Exchange, ReuseInv
  <2> QED BY <2>1, <2>2
<1>2. CASE ~Exchange
  <2>1. reused' = reused
    BY <1>2 DEF VaultNext, Save, SaveTimer, LockApp, Logout, BackToLogin, Reload, GateReset, Login,
       Encrypted, Written, CreateVault, ChangePin, Try, Derived, LockoutExpires, WrongPin,
       PasscodeRight, GateRight, RightPin, StartRefresh, ExchangeError, Refreshed, RefreshLost,
       SessionRefused, SessionRevoked, vaultVars, disk, vaultJs, screen, session, server, history
  <2> QED BY <1>0, <2>1 DEF ReuseInv
<1> QED BY <1>1, <1>2

(* A save that lost its key is a save that was cut short. *)
LEMMA CutStep ==
    ASSUME VaultInv, [VaultNext]_vaultVars
    PROVE  CutInv'
<1> USE DEF CutInv, disk, vaultJs, screen, session, server, history, Overlap
<1>0. CutInv
  BY DEF VaultInv
<1>1. CASE Save
  BY <1>0, <1>1 DEF Save
<1>2. CASE SaveTimer
  BY <1>0, <1>2 DEF SaveTimer, Run, Encrypt, Fresh, Overlap
<1>3. CASE LockApp
  BY <1>0, <1>3 DEF LockApp, Run, Encrypt, Fresh, Overlap
<1>4. CASE Logout
  BY <1>0, <1>4 DEF Logout, WipeMemory, Revoked, Overlap, Busy, Unsealed
<1>5. CASE BackToLogin
  BY <1>0, <1>5 DEF BackToLogin, WipeMemory, Revoked, Overlap, Busy, Unsealed
<1>6. CASE Reload
  BY <1>0, <1>6 DEF Reload, Boot, Overlap, Busy
<1>7. CASE GateReset
  BY <1>0, <1>7 DEF GateReset
<1>8. CASE Login
  BY <1>0, <1>8 DEF Login, Boot, Quiet, Busy
<1>9. ASSUME NEW w \in writes, Encrypted(w) PROVE CutInv'
  BY <1>0, <1>9 DEF Encrypted
<1>10. ASSUME NEW w \in writes, Written(w) PROVE CutInv'
  BY <1>0, <1>10 DEF Written, Overlap
<1>11. ASSUME NEW p \in Pins, CreateVault(p) PROVE CutInv'
  BY <1>0, <1>11 DEF CreateVault, DrawSalt, Busy
<1>12. ASSUME NEW p \in Pins, ChangePin(p) PROVE CutInv'
  BY <1>0, <1>12 DEF ChangePin, DrawSalt, Busy
<1>13. ASSUME NEW p \in Pins, Try(p) PROVE CutInv'
  BY <1>0, <1>13 DEF Try, Fresh, NotLocked
<1>14. CASE Derived
  BY <1>0, <1>14 DEF Derived, Encrypt, Fresh, Overlap
<1>15. CASE LockoutExpires
  BY <1>0, <1>15 DEF LockoutExpires
<1>16. ASSUME NEW t \in tries, WrongPin(t) PROVE CutInv'
  BY <1>0, <1>16 DEF WrongPin, Opens
<1>17. ASSUME NEW t \in tries, PasscodeRight(t) PROVE CutInv'
  BY <1>0, <1>17 DEF PasscodeRight, RightPin, Unseal, Opens
<1>18. ASSUME NEW t \in tries, GateRight(t) PROVE CutInv'
  BY <1>0, <1>18 DEF GateRight, Busy, Unsealed
<1>19. CASE StartRefresh
  BY <1>0, <1>19 DEF StartRefresh, MayExchange
<1>20. CASE Exchange
  BY <1>0, <1>20 DEF Exchange, Overlap
<1>21. CASE ExchangeError
  BY <1>0, <1>21 DEF ExchangeError
<1>22. CASE Refreshed
  BY <1>0, <1>22 DEF Refreshed, OnRefresh, Run, Encrypt, Fresh, Overlap
<1>23. CASE RefreshLost
  BY <1>0, <1>23 DEF RefreshLost, WipeMemory, Overlap, Busy, Unsealed
<1>24. CASE SessionRefused
  BY <1>0, <1>24 DEF SessionRefused, WipeMemory, Overlap, Busy, Unsealed
<1>25. CASE SessionRevoked
  BY <1>0, <1>25 DEF SessionRevoked, WipeMemory, Overlap, Busy, Unsealed
<1>26. CASE UNCHANGED vaultVars
  BY <1>0, <1>26 DEF vaultVars
<1> QED
  BY <1>1, <1>2, <1>3, <1>4, <1>5, <1>6, <1>7, <1>8, <1>9, <1>10, <1>11, <1>12, <1>13, <1>14,
     <1>15, <1>16, <1>17, <1>18, <1>19, <1>20, <1>21, <1>22, <1>23, <1>24, <1>25, <1>26 DEF VaultNext

(* What a screen has in memory and on disk. *)
LEMMA ScreenStep ==
    ASSUME VaultInv, [VaultNext]_vaultVars
    PROVE  ScreenInv'
<1> USE DEF ScreenInv, disk, vaultJs, screen, session, server, history
<1>0. VaultTypeOK /\ VaultTypeOK' /\ ScreenInv
  BY TypeStep DEF VaultInv
<1>1. CASE Save
  BY <1>0, <1>1 DEF Save
<1>2. CASE SaveTimer
  BY <1>0, <1>2 DEF SaveTimer, Run, Encrypt, Fresh, Overlap
<1>3. CASE LockApp
  BY <1>0, <1>3 DEF LockApp, Run, Encrypt, Fresh, Overlap
<1>4. CASE Logout
  BY <1>0, <1>4 DEF Logout, WipeMemory, Revoked, Overlap, Busy, Unsealed
<1>5. CASE BackToLogin
  BY <1>0, <1>5 DEF BackToLogin, WipeMemory, Revoked, Overlap, Busy, Unsealed
<1>6. CASE Reload
  BY <1>0, <1>6 DEF Reload, Boot, Overlap, Busy
<1>7. CASE GateReset
  BY <1>0, <1>7 DEF GateReset
<1>8. CASE Login
  BY <1>0, <1>8 DEF Login, Boot, Quiet, Busy
<1>9. ASSUME NEW w \in writes, Encrypted(w) PROVE ScreenInv'
  BY <1>0, <1>9 DEF Encrypted
<1>10. ASSUME NEW w \in writes, Written(w) PROVE ScreenInv'
  <2>1. file' # None
    <3>1. file' \in Box
      BY <1>0, <1>10, Fields DEF Written, Box
    <3> QED BY <1>0, <3>1, Fields
  <2> QED BY <1>0, <1>10, <2>1 DEF Written
<1>11. ASSUME NEW p \in Pins, CreateVault(p) PROVE ScreenInv'
  BY <1>0, <1>11 DEF CreateVault, DrawSalt, Overlap
<1>12. ASSUME NEW p \in Pins, ChangePin(p) PROVE ScreenInv'
  BY <1>0, <1>12 DEF ChangePin, DrawSalt, Overlap
<1>13. ASSUME NEW p \in Pins, Try(p) PROVE ScreenInv'
  BY <1>0, <1>13 DEF Try, Fresh, NotLocked
<1>14. CASE Derived
  BY <1>0, <1>14 DEF Derived, Encrypt, Fresh, Overlap
<1>15. CASE LockoutExpires
  BY <1>0, <1>15 DEF LockoutExpires
<1>16. ASSUME NEW t \in tries, WrongPin(t) PROVE ScreenInv'
  BY <1>0, <1>16 DEF WrongPin, Opens
<1>17. ASSUME NEW t \in tries, PasscodeRight(t) PROVE ScreenInv'
  BY <1>0, <1>17 DEF PasscodeRight, RightPin, Unseal, Opens
<1>18. ASSUME NEW t \in tries, GateRight(t) PROVE ScreenInv'
  <2>1. mem' # None
    BY <1>0, <1>18, Fields DEF GateRight
  <2>2. page' = page \/ page' = "opening"
    BY <1>18 DEF GateRight
  <2> QED BY <1>0, <1>18, <2>1, <2>2 DEF GateRight, RightPin
<1>19. CASE StartRefresh
  BY <1>0, <1>19 DEF StartRefresh, MayExchange
<1>20. CASE Exchange
  BY <1>0, <1>20 DEF Exchange, Overlap
<1>21. CASE ExchangeError
  BY <1>0, <1>21 DEF ExchangeError
<1>22. CASE Refreshed
  <2>1. mem' # None
    BY <1>0, <1>22, Fields DEF Refreshed
  <2> QED BY <1>0, <1>22, <2>1 DEF Refreshed
<1>23. CASE RefreshLost
  BY <1>0, <1>23 DEF RefreshLost, WipeMemory, Overlap, Busy, Unsealed
<1>24. CASE SessionRefused
  BY <1>0, <1>24 DEF SessionRefused, WipeMemory, Overlap, Busy, Unsealed
<1>25. CASE SessionRevoked
  BY <1>0, <1>25 DEF SessionRevoked, WipeMemory, Overlap, Busy, Unsealed
<1>26. CASE UNCHANGED vaultVars
  BY <1>0, <1>26 DEF vaultVars
<1> QED
  BY <1>1, <1>2, <1>3, <1>4, <1>5, <1>6, <1>7, <1>8, <1>9, <1>10, <1>11, <1>12, <1>13, <1>14,
     <1>15, <1>16, <1>17, <1>18, <1>19, <1>20, <1>21, <1>22, <1>23, <1>24, <1>25, <1>26 DEF VaultNext

(***************************************************************************)
(* The theorems                                                            *)
(***************************************************************************)
LEMMA VaultInvariance == VaultSpec => []VaultInv
<1>1. VaultInit => VaultInv
  <2> SUFFICES ASSUME VaultInit PROVE VaultInv
    OBVIOUS
  <2>1. VaultTypeOK
    <3>1. [s \in 1 .. MaxSession |-> 0] \in [1 .. MaxSession -> 0 .. MaxTurn]
      OBVIOUS
    <3>2. 0 \in 0 .. MaxAttempts + MaxTries /\ 0 \in 0 .. MaxSalt /\ 0 \in 0 .. MaxSession
      OBVIOUS
    <3> QED BY <3>1, <3>2, Zenon DEF VaultInit, VaultTypeOK
  <2>2. ScreenInv /\ IdsInv /\ SaltInv /\ ReuseInv /\ CutInv
    BY DEF VaultInit, ScreenInv, IdsInv, SaltInv, ReuseInv, CutInv
  <2>3. CountInv
    BY DEF VaultInit, CountInv
  <2>4. KeyInv /\ TokenInv /\ ExchangeInv
    BY DEF VaultInit, KeyInv, TokenInv, ExchangeInv, Phase
  <2> QED BY <2>1, <2>2, <2>3, <2>4 DEF VaultInv
<1>2. VaultInv /\ [VaultNext]_vaultVars => VaultInv'
  <2> SUFFICES ASSUME VaultInv, [VaultNext]_vaultVars PROVE VaultInv'
    OBVIOUS
  <2>1. TokenInv' /\ ExchangeInv'
    <3>1. CASE overlaps' = {}
      BY <3>1, TokenStep, ExchangeStep
    <3>2. CASE overlaps' # {}
      BY <3>2 DEF TokenInv, ExchangeInv
    <3> QED BY <3>1, <3>2
  <2> QED
    BY <2>1, TypeStep, ScreenStep, IdsStep, CountStep, SaltStep, KeyStep, ReuseStep, CutStep DEF VaultInv
<1> QED BY <1>1, <1>2, PTL DEF VaultSpec

(* Type correctness: file, counters, keys, saves, checks and tokens stay   *)
(* what vault.js, api.js and the screens make them.                        *)
THEOREM VaultTypes == VaultSpec => []VaultTypeOK
<1>1. VaultInv => VaultTypeOK
  BY DEF VaultInv
<1> QED BY <1>1, VaultInvariance, PTL

(* A quiet tab's file opens with the PIN chosen last, whatever the order of *)
(* saves, changes of the PIN, locks and reloads (vault.js encryptState).    *)
THEOREM VaultOpens == VaultSpec => []PinOpensVault
<1>1. VaultInv => PinOpensVault
  <2> SUFFICES ASSUME VaultInv, "key" \notin overlaps, file # None PROVE Opens(file, newest[1])
    BY DEF PinOpensVault
  <2>1. VaultTypeOK /\ file.key = newest /\ file.salt = newest[2]
    BY DEF VaultInv, KeyInv
  <2>2. file.key = <<file.key[1], file.key[2]>>
    BY <2>1, Fields
  <2> QED BY <2>1, <2>2 DEF Opens
<1> QED BY <1>1, VaultInvariance, PTL

(* A tab that shows the PIN screen finds the live token in its file         *)
(* (api.js doRefresh, onRefresh saves at once).                             *)
THEOREM VaultKeepsToken == VaultSpec => []VaultHoldsToken
<1>1. VaultInv => VaultHoldsToken
  <2> SUFFICES ASSUME VaultInv, Quiet, overlaps = {}, page = "unlock"
               PROVE  live[file.token[1]] \in {0, file.token[2]}
    BY DEF VaultHoldsToken
  <2>1. file # None /\ Phase = "none"
    BY DEF VaultInv, ScreenInv, Quiet, Busy, Phase
  <2> QED BY <2>1 DEF VaultInv, TokenInv, Good
<1> QED BY <1>1, VaultInvariance, PTL

(* No token is presented twice unless something was cut short.              *)
THEOREM TokensPresentedOnce == VaultSpec => []TokenPresentedOnce
<1>1. VaultInv => TokenPresentedOnce
  BY DEF VaultInv, ReuseInv, TokenPresentedOnce
<1> QED BY <1>1, VaultInvariance, PTL

(* Wrong PINs between two expiries of the lockout stay within the limit and *)
(* the checks that had begun before it (vault.js unlock, lockout.js).       *)
THEOREM WrongPinsBounded == VaultSpec => []GuessesBounded
<1>1. VaultInv => GuessesBounded
  <2> SUFFICES ASSUME VaultInv PROVE GuessesBounded
    OBVIOUS
  <2>1. VaultTypeOK /\ IdsInv /\ CountInv /\ guesses \in Nat
    BY DEF VaultInv, VaultTypeOK
  <2>2. Cardinality(tries) \in 0 .. MaxTries /\ lockout \in {"none", "future", "past"}
    BY <2>1, CountTries DEF VaultTypeOK
  <2> QED BY <2>1, <2>2 DEF CountInv, GuessesBounded
<1> QED BY <1>1, VaultInvariance, PTL

=============================================================================
