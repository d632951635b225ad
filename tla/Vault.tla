--------------------------------- MODULE Vault ---------------------------------
(***************************************************************************)
(* One browser tab of the client: the PIN vault (lib/vault.js), the tokens *)
(* of the session (lib/api.js) and the screens that open, lock and leave   *)
(* it (app/data.js, app/handlers.js).                                      *)
(*                                                                         *)
(* Every await is a step of its own: deriving a key, encrypting, writing   *)
(* the file, and the exchange of the refresh token, which the server may   *)
(* have done although its answer never arrives.  A key is the pair of a    *)
(* PIN and a salt; a file opens with a PIN when its ciphertext was made    *)
(* with that PIN and the salt that stands in the file.  Of the saved state *)
(* only the refresh token is kept.                                         *)
(***************************************************************************)
EXTENDS Naturals, FiniteSets

CONSTANTS
    Pins,           \* the PINs a user may type
    MaxAttempts,    \* MAX_LOCAL_ATTEMPTS
    MaxTries,       \* bound: PIN checks running at once
    MaxWrites,      \* bound: saves running at once
    MaxSalt,        \* bound: random salts drawn
    MaxSession,     \* bound: logins
    MaxTurn,        \* bound: refresh tokens of one session
    None

VARIABLES
    file,         \* None, or the encrypted file: [key, salt, token]
    failed,       \* META.failed
    lockout,      \* META.locked_until: "none", "future" or "past"
    key, salt,    \* the variables of vault.js, None and 0 when locked
    salts,        \* how many salts were drawn
    pending,      \* the token of the state waiting for the debounce timer, or None
    change,       \* None, or [pin, why, token]: deriveKey runs for create or changePin
    writes,       \* saves between run() and the end of writeRaw
    tries,        \* PIN checks between the read of the file and decrypt
    page,         \* "unlock", "setup", "restore", "reset", "opening", "app" or "left"
    step,         \* the passcode screen: "current", or "new" once the old PIN was right
    mem,          \* API.session.refresh, None when there is none
    handoff,      \* the token the login page left in sessionStorage, or None
    refreshing,   \* None, or [phase, token]: the exchange in flight
    live,         \* the turn of the token each session accepts, 0 when it is revoked
    logins,       \* how many sessions were opened
    reused,       \* history: an exchanged token was presented again
    newest,       \* history: of the keys that encrypted a written file, the newest
    guesses,      \* history: wrong PINs since the last success or expiry
    overlaps      \* history: which asynchronous steps ran into another or were cut

disk == <<file, failed, lockout>>
vaultJs == <<key, salt, salts, pending, change, writes>>
screen == <<page, step>>
session == <<mem, handoff, refreshing>>
server == <<live, logins, reused>>
history == <<newest, guesses, overlaps>>
vaultVars == <<disk, vaultJs, tries, screen, session, server, history>>

Tokens == (1 .. MaxSession) \X (1 .. MaxTurn)    \* a session and a turn
Keys == Pins \X (1 .. MaxSalt)
Box == [key: Keys, salt: 0 .. MaxSalt, token: Tokens]
Reasons == {"save", "lock", "refresh", "handoff", "create", "change"}
Write == [id: 1 .. MaxWrites, stage: {"encrypt", "write"}, key: Keys,
          salt: 0 .. MaxSalt, token: Tokens, why: Reasons]
Attempt == [id: 1 .. MaxTries, at: {"gate", "passcode"}, pin: Pins, box: Box]
Changing == [pin: Pins, why: {"create", "change"}, token: Tokens]
Exchanging == [phase: {"sent", "answered", "refused", "saving"}, token: Tokens]

ASSUME VaultAssumption ==
    /\ MaxAttempts \in Nat \ {0} /\ MaxTries \in Nat \ {0}
    /\ MaxWrites \in Nat /\ MaxSalt \in Nat /\ MaxSession \in Nat /\ MaxTurn \in Nat \ {0}
    /\ None \notin Keys \union Tokens \union Box \union Changing \union Exchanging

VaultTypeOK ==
    /\ file \in {None} \union Box
    /\ failed \in 0 .. MaxAttempts + MaxTries
    /\ lockout \in {"none", "future", "past"}
    /\ key \in {None} \union Keys /\ salt \in 0 .. MaxSalt /\ salts \in 0 .. MaxSalt
    /\ pending \in {None} \union Tokens
    /\ change \in {None} \union Changing
    /\ writes \subseteq Write /\ tries \subseteq Attempt
    /\ page \in {"unlock", "setup", "restore", "reset", "opening", "app", "left"}
    /\ step \in {"current", "new"}
    /\ mem \in {None} \union Tokens /\ handoff \in {None} \union Tokens
    /\ refreshing \in {None} \union Exchanging
    /\ live \in [1 .. MaxSession -> 0 .. MaxTurn] /\ logins \in 0 .. MaxSession /\ reused \in BOOLEAN
    /\ newest \in {None} \union Keys
    /\ guesses \in 0 .. MaxAttempts + MaxTries
    /\ overlaps \subseteq {"key", "save", "handoff"}

\* The least number that no running step of the set has, if the bound allows one more.
Fresh(set, max) ==
    {i \in 1 .. max : /\ \A e \in set : e.id # i
                      /\ \A j \in 1 .. i - 1 : \E e \in set : e.id = j}

Opens(box, p) == box # None /\ box.key = <<p, box.salt>>

Busy == writes # {} \/ change # None \/ refreshing # None
Quiet == ~Busy /\ tries = {}

\* What the variables key and salt change under: a save that has not read its salt yet,
\* or a key that is still being derived for the salt they hold.
Unsealed == change # None \/ \E w \in writes : w.stage = "encrypt"
Overlap(cond, what) == IF cond THEN {what} ELSE {}

(***************************************************************************)
(* vault.js: save, its run() and the steps of encryptState and writeRaw.   *)
(***************************************************************************)
\* encryptState begins: the key of this moment is read, the salt is not.
Encrypt(k, token, why) ==
    \E i \in Fresh(writes, MaxWrites) :
        writes' = writes \union
            {[id |-> i, stage |-> "encrypt", key |-> k, salt |-> 0,
              token |-> token, why |-> why]}

\* run(): the pending state is taken and encrypted.
Run(token, why) ==
    /\ Encrypt(key, token, why)
    /\ overlaps' = overlaps \union Overlap(writes # {} \/ change # None, "save")
                            \union Overlap(change # None, "key")

\* Any change of the state: the debounce timer is set anew.
Save ==
    /\ page = "app" /\ key # None /\ pending # mem
    /\ pending' = mem
    /\ UNCHANGED <<disk, key, salt, salts, change, writes, tries, screen, session,
                   server, history>>

SaveTimer ==
    /\ pending # None /\ key # None
    /\ pending' = None
    /\ Run(pending, "save")
    /\ UNCHANGED <<disk, key, salt, salts, change, tries, screen, session, server,
                   newest, guesses>>

\* The key was read before the await, the salt is read after it.
Encrypted(w) ==
    /\ w \in writes /\ w.stage = "encrypt"
    /\ writes' = (writes \ {w}) \union {[w EXCEPT !.stage = "write", !.salt = salt]}
    /\ UNCHANGED <<disk, key, salt, salts, pending, change, tries, screen, session,
                   server, history>>

\* wipeMemory: VAULT.lock() and the session; the page goes to its next screen.
WipeMemory(next) ==
    /\ key' = None /\ salt' = 0 /\ pending' = None
    /\ mem' = None
    /\ page' = next /\ step' = "current"
    /\ overlaps' = overlaps \union Overlap(Unsealed, "key") \union Overlap(Busy, "save")

\* writeRaw is over and whoever awaited it goes on: lockApp wipes the memory, create
\* resets the counter of attempts, doRefresh ends, the opening screen becomes the app.
Written(w) ==
    /\ w \in writes /\ w.stage = "write"
    /\ writes' = writes \ {w}
    /\ file' = [key |-> w.key, salt |-> w.salt, token |-> w.token]
    /\ IF w.why = "lock"
       THEN /\ key' = None /\ salt' = 0 /\ pending' = None /\ mem' = None
            /\ page' = IF page = "left" THEN page ELSE "unlock"
            /\ overlaps' = overlaps
                  \union Overlap(change # None \/ \E v \in writes' : v.stage = "encrypt", "key")
                  \union Overlap(writes' # {} \/ change # None \/ refreshing # None, "save")
       ELSE /\ page' = IF page = "opening" /\ w.why \in {"create", "handoff", "refresh"}
                       THEN "app" ELSE page
            /\ UNCHANGED <<key, salt, pending, mem, overlaps>>
    /\ step' = IF w.why \in {"lock", "change"} THEN "current" ELSE step
    /\ IF w.why = "create"
       THEN /\ failed' = 0 /\ lockout' = "none" /\ guesses' = 0 /\ handoff' = None
       ELSE UNCHANGED <<failed, lockout, guesses, handoff>>
    /\ refreshing' = IF w.why = "refresh" THEN None ELSE refreshing
    /\ newest' = IF newest = None \/ w.key[2] > newest[2] THEN w.key ELSE newest
    /\ UNCHANGED <<salts, change, tries, live, logins, reused>>

(***************************************************************************)
(* create and changePin: a new salt at once, the new key after deriveKey.  *)
(* The state to write is taken by the caller, before either.               *)
(***************************************************************************)
DrawSalt(p, why) ==
    /\ salts < MaxSalt
    /\ salts' = salts + 1 /\ salt' = salts'
    /\ change' = [pin |-> p, why |-> why, token |-> mem]
    /\ overlaps' = overlaps \union Overlap(writes # {} \/ change # None, "key")
                            \union Overlap(Busy, "save")

\* setupWith and restoreWith: when their requests are answered the old vault is wiped
\* and the new one created.
CreateVault(p) ==
    /\ page \in {"setup", "restore"} /\ mem # None /\ refreshing = None
    /\ DrawSalt(p, "create")
    /\ key' = None /\ pending' = None
    /\ file' = None /\ failed' = 0 /\ lockout' = "none" /\ guesses' = 0
    /\ page' = "opening"
    /\ UNCHANGED <<writes, tries, step, session, server, newest>>

ChangePin(p) ==
    /\ page = "app" /\ step = "new" /\ key # None /\ change = None
    /\ DrawSalt(p, "change")
    /\ UNCHANGED <<disk, key, pending, writes, tries, screen, session, server, newest,
                   guesses>>

\* deriveKey is done: the key is set and the state encrypted.
Derived ==
    /\ change # None
    /\ key' = <<change.pin, salts>>
    /\ Encrypt(key', change.token, change.why)
    /\ overlaps' = overlaps
          \union Overlap(\E w \in writes : w.stage = "encrypt", "key")
          \union Overlap(writes # {} \/ change.token # mem, "save")
    /\ change' = None
    /\ UNCHANGED <<disk, salt, salts, pending, tries, screen, session, server,
                   newest, guesses>>

(***************************************************************************)
(* unlock: the lockout is checked first, the attempt is counted last.      *)
(***************************************************************************)
\* Mutant of NotLocked: the lockout is left to the screen.
NeverLocked == TRUE

NotLocked == lockout # "future"

\* Mutant of Unseal: the key is set and the salt forgotten.
UnsealKeyOnly(box) == key' = box.key /\ UNCHANGED salt

Unseal(box) == key' = box.key /\ salt' = box.salt

\* The PIN screen, or the first step of the passcode screen.
Try(p) ==
    /\ page = "unlock" \/ (page = "app" /\ step = "current")
    /\ NotLocked
    /\ file # None
    /\ \E i \in Fresh(tries, MaxTries) :
          tries' = tries \union
              {[id |-> i, pin |-> p, box |-> file,
                at |-> IF page = "unlock" THEN "gate" ELSE "passcode"]}
    /\ UNCHANGED <<disk, vaultJs, screen, session, server, history>>

WrongPin(t) ==
    /\ t \in tries /\ ~Opens(t.box, t.pin)
    /\ tries' = tries \ {t}
    /\ LET n == (IF lockout = "past" THEN 0 ELSE failed) + 1
       IN  /\ failed' = n
           /\ lockout' = IF n >= MaxAttempts THEN "future" ELSE "none"
    /\ guesses' = guesses + 1
    /\ UNCHANGED <<file, vaultJs, screen, session, server, newest, overlaps>>

\* The right PIN: the key is in memory and the count of attempts is gone.
RightPin(t) ==
    /\ t \in tries /\ Opens(t.box, t.pin)
    /\ tries' = tries \ {t}
    /\ Unseal(t.box)
    /\ failed' = 0 /\ lockout' = "none" /\ guesses' = 0
    /\ UNCHANGED <<file, salts, pending, change, server, newest>>

\* The passcode screen goes on to the new PIN.
PasscodeRight(t) ==
    /\ t.at = "passcode" /\ RightPin(t)
    /\ step' = IF page = "app" THEN "new" ELSE step
    /\ overlaps' = overlaps \union (IF <<key', salt'>> = <<key, salt>> THEN {}
                                    ELSE {"key", "save"})
    /\ UNCHANGED <<writes, page, session>>

\* unlockWith: the token the login page left replaces the saved one and is saved at
\* once; the saved one is exchanged at once, or an exchange in flight is awaited.
GateRight(t) ==
    /\ t.at = "gate" /\ RightPin(t)
    /\ page' = IF page = "unlock" THEN "opening" ELSE page
    /\ overlaps' = overlaps
          \union Overlap(Unsealed \/ page # "unlock" \/ t.box # file, "key")
          \union Overlap(Busy \/ page # "unlock" \/ t.box # file, "save")
    /\ IF handoff # None
       THEN /\ mem' = handoff /\ handoff' = None
            /\ Encrypt(key', mem', "handoff")
            /\ UNCHANGED refreshing
       ELSE /\ mem' = t.box.token
            /\ refreshing' = IF refreshing = None
                             THEN [phase |-> "sent", token |-> mem'] ELSE refreshing
            /\ UNCHANGED <<handoff, writes>>
    /\ UNCHANGED step

LockoutExpires ==
    /\ lockout = "future"
    /\ lockout' = "past"
    /\ guesses' = 0
    /\ UNCHANGED <<file, failed, vaultJs, tries, screen, session, server, newest, overlaps>>

(***************************************************************************)
(* api.js: one exchange at a time, whoever asks for it.                    *)
(***************************************************************************)
\* Mutant of MayExchange: every caller of doRefresh sends a request of its own.
ExchangeEach == TRUE

MayExchange == refreshing = None

\* A request was answered 401, or the socket 4003.  boot and restoreWith send requests
\* too, with the tokens of the login page.
StartRefresh ==
    /\ page \in {"app", "unlock", "setup", "restore"} /\ mem # None
    /\ MayExchange
    /\ refreshing' = [phase |-> "sent", token |-> mem]
    /\ UNCHANGED <<disk, vaultJs, tries, screen, mem, handoff, server, history>>

\* The server rotates the live token and revokes the session when an old one returns.
Exchange ==
    /\ refreshing # None /\ refreshing.phase = "sent"
    /\ LET s == refreshing.token[1]
           n == refreshing.token[2]
       IN  IF n = live[s]
           THEN /\ n < MaxTurn
                /\ live' = [live EXCEPT ![s] = n + 1]
                /\ refreshing' = [phase |-> "answered", token |-> <<s, n + 1>>]
                /\ overlaps' = overlaps \union Overlap(refreshing.token = handoff, "handoff")
                /\ UNCHANGED reused
           ELSE /\ reused' = (reused \/ live[s] # 0)
                /\ live' = [live EXCEPT ![s] = 0]
                /\ refreshing' = [refreshing EXCEPT !.phase = "refused"]
                /\ UNCHANGED overlaps
    /\ UNCHANGED logins
    /\ UNCHANGED <<disk, vaultJs, tries, screen, mem, handoff, newest, guesses>>

\* An error status that exchanges nothing (rate limit, restart of the server).
ExchangeError ==
    /\ refreshing # None /\ refreshing.phase = "sent"
    /\ refreshing' = [refreshing EXCEPT !.phase = "refused"]
    /\ UNCHANGED <<disk, vaultJs, tries, screen, mem, handoff, server, history>>

\* Mutant of OnRefresh: the save waits for the debounce timer.
OnRefreshLater(token) ==
    /\ pending' = IF key = None THEN pending ELSE token
    /\ refreshing' = None
    /\ UNCHANGED <<writes, overlaps>>

\* onRefresh: with the vault open the new token is saved at once.
OnRefresh(token) ==
    IF key = None
    THEN refreshing' = None /\ UNCHANGED <<writes, pending, overlaps>>
    ELSE /\ pending' = None
         /\ Run(token, "refresh")
         /\ refreshing' = [refreshing EXCEPT !.phase = "saving"]

\* The new token replaces the old one in memory.
Refreshed ==
    /\ refreshing # None /\ refreshing.phase = "answered"
    /\ mem' = refreshing.token
    /\ OnRefresh(mem')
    /\ UNCHANGED <<disk, key, salt, salts, change, tries, screen, handoff, server,
                   newest, guesses>>

\* fetch throws; the tab keeps the token it has, spent or not.
RefreshLost ==
    /\ refreshing # None /\ refreshing.phase \in {"sent", "answered"}
    /\ refreshing' = None
    /\ IF page = "opening" THEN WipeMemory("left")
       ELSE /\ overlaps' = overlaps \union {"save"}
            /\ UNCHANGED <<key, salt, pending, mem, screen>>
    /\ UNCHANGED <<disk, salts, change, writes, tries, handoff, server, newest, guesses>>

(***************************************************************************)
(* Leaving: a refused exchange or a revocation, the lock, logout, a reload.*)
(***************************************************************************)
\* onExpired: the exchange of any screen was refused.
SessionRefused ==
    /\ refreshing # None /\ refreshing.phase = "refused"
    /\ refreshing' = None
    /\ WipeMemory("left")
    /\ UNCHANGED <<disk, salts, change, writes, tries, handoff, server, newest, guesses>>

\* The session was revoked elsewhere and the socket closed with 4001.
SessionRevoked ==
    /\ page = "app" /\ mem # None
    /\ live' = [live EXCEPT ![mem[1]] = 0]
    /\ WipeMemory("left")
    /\ UNCHANGED <<disk, salts, change, writes, tries, handoff, refreshing, logins,
                   reused, newest, guesses>>

\* The lock saves first, then wipes (bound: one lock at a time).
LockApp ==
    /\ page = "app" /\ key # None /\ \A w \in writes : w.why # "lock"
    /\ pending' = None
    /\ Run(mem, "lock")
    /\ UNCHANGED <<disk, key, salt, salts, change, tries, screen, session, server,
                   newest, guesses>>

\* The session of the access token in memory is over; without one the answer is 401.
Revoked == IF mem = None THEN live ELSE [live EXCEPT ![mem[1]] = 0]

\* logout: the server forgets the session, then memory and file are wiped.
Logout ==
    /\ page \in {"app", "unlock"}
    /\ live' = Revoked
    /\ WipeMemory("left")
    /\ file' = None /\ failed' = 0 /\ lockout' = "none" /\ guesses' = 0
    /\ handoff' = None
    /\ UNCHANGED <<salts, change, writes, tries, refreshing, logins, reused,
                   newest>>

\* backToLogin keeps the file; the server is told, and may not be reached.
BackToLogin ==
    /\ page \in {"unlock", "setup", "restore", "reset"}
    /\ live' \in {live, Revoked}
    /\ WipeMemory("left")
    /\ handoff' = None
    /\ UNCHANGED <<disk, salts, change, writes, tries, refreshing, logins, reused,
                   newest, guesses>>

\* boot: without a vault the first screen depends on what the server holds of the account:
\* no keys, keys with a backup, keys without one.
Boot(h, f) ==
    IF f # None THEN {"unlock"}
    ELSE IF h # None THEN {"setup", "restore", "reset"} ELSE {"left"}

\* Nothing of the tab survives but the file, META and sessionStorage.
Reload ==
    /\ page # "left" \/ Busy \/ tries # {}
    /\ key' = None /\ salt' = 0 /\ pending' = None
    /\ change' = None /\ writes' = {} /\ tries' = {} /\ refreshing' = None
    /\ overlaps' = overlaps \union Overlap(Busy, "save")
    /\ mem' = handoff
    /\ page' \in Boot(handoff, file) /\ step' = "current"
    /\ UNCHANGED <<disk, salts, handoff, server, newest, guesses>>

GateReset ==
    /\ page = "reset"
    /\ page' = "setup"
    /\ UNCHANGED <<disk, vaultJs, tries, step, session, server, history>>

\* The login page: a new session whose token is handed over, and boot() again.
Login ==
    /\ page = "left" /\ Quiet
    /\ logins < MaxSession
    /\ logins' = logins + 1 /\ live' = [live EXCEPT ![logins'] = 1]
    /\ handoff' = <<logins', 1>> /\ mem' = handoff'
    /\ page' \in Boot(handoff', file)
    /\ UNCHANGED <<disk, vaultJs, tries, step, refreshing, reused, history>>

VaultInit ==
    /\ file = None /\ failed = 0 /\ lockout = "none"
    /\ key = None /\ salt = 0 /\ salts = 0 /\ pending = None /\ change = None
    /\ writes = {} /\ tries = {}
    /\ page = "left" /\ step = "current"
    /\ mem = None /\ handoff = None /\ refreshing = None
    /\ live = [s \in 1 .. MaxSession |-> 0] /\ logins = 0 /\ reused = FALSE
    /\ newest = None /\ guesses = 0 /\ overlaps = {}

VaultNext ==
    \/ Save \/ SaveTimer \/ LockApp \/ Logout \/ BackToLogin \/ Reload \/ GateReset \/ Login
    \/ \E w \in writes : Encrypted(w) \/ Written(w)
    \/ \E p \in Pins : CreateVault(p) \/ ChangePin(p) \/ Try(p)
    \/ Derived \/ LockoutExpires
    \/ \E t \in tries : WrongPin(t) \/ PasscodeRight(t) \/ GateRight(t)
    \/ StartRefresh \/ Exchange \/ ExchangeError \/ Refreshed \/ RefreshLost
    \/ SessionRefused \/ SessionRevoked

VaultSpec == VaultInit /\ [][VaultNext]_vaultVars

(***************************************************************************)
(* Properties.                                                             *)
(***************************************************************************)
\* When nothing is in flight the file opens with the PIN chosen last,
\* whatever the order of saves, changes of the PIN, locks and reloads, unless key and
\* salt changed under a save that had begun, or a PIN check that began before a change
\* ended after it (vault.js encryptState, changePin, lock, unlock).
PinOpensVault ==
    Quiet /\ "key" \notin overlaps /\ file # None => Opens(file, newest[1])

\* A tab that shows the PIN screen finds in its file the token its session accepts,
\* if that still lives, unless an exchange or a save was cut short (data.js:40, onRefresh saves at once).
VaultHoldsToken ==
    Quiet /\ overlaps = {} /\ page = "unlock" /\ handoff = None
        => live[file.token[1]] \in {0, file.token[2]}

\* The tab never presents a token it has already exchanged, which would revoke its own
\* session, unless an exchange or a save was cut short, or the token handed over by the
\* login page was exchanged before it was saved (api.js doRefresh, one at a time).
TokenPresentedOnce == reused => overlaps \intersect {"save", "handoff"} # {}

\* However PIN checks overlap, no more wrong PINs are answered between two expiries of
\* the lockout than the limit and the checks that had begun before it (vault.js unlock).
GuessesBounded == guesses <= MaxAttempts + MaxTries - 1

\* The comment of sessionEnded: the keys stay in the vault and open with the same PIN.  No
\* write makes a file that opened with the newest PIN one that does not.
VaultStillOpens ==
    [][file # None /\ Opens(file, newest[1]) /\ file' # None
          => Opens(file', newest'[1])]_vaultVars
=============================================================================
