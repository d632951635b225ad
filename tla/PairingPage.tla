----------------------------- MODULE PairingPage ------------------------------
(***************************************************************************)
(* The page of a new device that shows a QR code (app/data.js, pairing).   *)
(*                                                                         *)
(* Creating a code, polling it, finishing with the PIN and cancelling are  *)
(* asynchronous functions of one page.  They share pairingNew and tell by  *)
(* pairingGeneration and pairingCancelEpoch whether they are out of date;  *)
(* only equality of those counters counts, so a running function carries   *)
(* two flags instead: fresh (no new generation since) and wanted (nobody   *)
(* cancelled since).  The server is reduced to the status of its records.  *)
(***************************************************************************)
EXTENDS Naturals, FiniteSets

CONSTANTS MaxRequest, Nothing      \* bound: codes created

VARIABLES
    shown,      \* what state.gate shows; "login", "app" and "gone" after the page
    making,     \* Nothing, or beginPairing running: [step, req, fresh, wanted]
    quota,      \* FALSE while pairingRetryAt lies ahead
    held,       \* the request of pairingNew, 0 when it is null
    obj,        \* obj[r]: fields of the object pairingNew of r: [got, vault, done]
    polling,    \* pollPairing of this generation: "no", "timer", "sent" or the answer
    finishing,  \* finishing[r]: the step of finishPairing, "no" when p.busy is false
    leaving,    \* cancelPairing is running
    clears,     \* clearPairing running: [by, req]
    deletes,    \* requests whose DELETE is on its way, which outlives the page
    vault,      \* the vault of the browser: Nothing, or [req, session]
    status,     \* status[r]: the record of the server
    issued,     \* issued[r]: a session was issued for r
    excused     \* history: a message was lost, or a step was overtaken or cut

pageVars == <<shown, making, quota, held, obj, polling>>
flowVars == <<finishing, leaving, clears, deletes>>
worldVars == <<vault, status, issued, excused>>
pairingPageVars == <<pageVars, flowVars, worldVars>>

Codes == 1 .. MaxRequest
Steps == {"no", "verify", "create", "post", "failed", "issued"}
Creation == [step : {"clear", "post", "answer", "discard"}, req : 0 .. MaxRequest, fresh : BOOLEAN, wanted : BOOLEAN]
Vaults == [req : Codes, session : BOOLEAN]

ASSUME PairingPageAssumption == MaxRequest \in Nat \ {0} /\ Nothing \notin Creation \union Vaults

PairingPageTypeOK ==
    /\ shown \in {"none", "creating", "pending", "pin", "completing", "complete-error",
                  "error", "stopped", "login", "app", "gone"}
    /\ making \in {Nothing} \union Creation
    /\ quota \in BOOLEAN /\ held \in 0 .. MaxRequest
    /\ obj \in [Codes -> [got: BOOLEAN, vault: BOOLEAN, done: BOOLEAN]]
    /\ polling \in {"no", "timer", "sent", "pending", "approved", "closed", "failed"}
    /\ finishing \in [Codes -> Steps] /\ leaving \in BOOLEAN
    /\ clears \subseteq [by: {"begin", "cancel", "poll"}, req: Codes]
    /\ deletes \subseteq Codes
    /\ vault \in {Nothing} \union Vaults
    /\ status \in [Codes -> {"none", "pending", "approved", "rejected", "expired", "completed"}]
    /\ issued \in [Codes -> BOOLEAN] /\ excused \in BOOLEAN

OnPage == shown \notin {"login", "app", "gone"}
Processing == \E r \in Codes : finishing[r] # "no"

\* A new generation: polls of the old one return, a creation of the old one discards.
NewGeneration ==
    /\ polling' = "no"
    /\ held' = 0

\* clearPairing: the request is given up and its DELETE sent.
Clear(by) ==
    /\ NewGeneration
    /\ IF held # 0 /\ ~obj[held].done
       THEN deletes' = deletes \union {held} /\ clears' = clears \union {[by |-> by, req |-> held]}
       ELSE UNCHANGED <<deletes, clears>>

\* Its end: a vault that never got a session is wiped.
ClearDone(c) ==
    /\ OnPage /\ c \in clears /\ c.req \notin deletes
    /\ clears' = clears \ {c}
    /\ vault' = IF obj[c.req].vault /\ ~obj[c.req].done THEN Nothing ELSE vault
    /\ shown' = IF c.by = "poll" THEN "error" ELSE shown
    /\ UNCHANGED <<making, quota, held, obj, polling, finishing, leaving, deletes,
                   status, issued, excused>>

----------------------------------------------------------------------------
(* beginPairing *)

Begin ==
    /\ shown \in {"none", "pending", "error", "stopped"}
    /\ making = Nothing /\ quota
    /\ making' = [step |-> "clear", req |-> 0, fresh |-> TRUE, wanted |-> TRUE]
    /\ Clear("begin")
    /\ excused' = (excused \/ leaving \/ Processing)
    /\ UNCHANGED <<shown, quota, obj, finishing, leaving, vault, status, issued>>

\* The old code is gone: the page still wants a new one, and has no vault.
BeginCleared ==
    /\ making # Nothing /\ making.step = "clear"
    /\ \A c \in clears : c.by # "begin"
    /\ IF ~making.wanted
       THEN making' = Nothing /\ UNCHANGED shown
       ELSE IF vault # Nothing
       THEN making' = Nothing /\ shown' = "error"
       ELSE /\ making' = [making EXCEPT !.step = "post", !.fresh = TRUE]
            /\ shown' = "creating"
    /\ UNCHANGED <<quota, held, obj, polling, flowVars, worldVars>>

\* The server creates the record, or refuses; the answer may be lost.
Posted ==
    /\ making # Nothing /\ making.step = "post"
    /\ \/ \E r \in Codes :
             /\ status[r] = "none" /\ \A q \in Codes : q < r => status[q] # "none"
             /\ status' = [status EXCEPT ![r] = "pending"]
             /\ \/ /\ making' = [making EXCEPT !.step = "answer", !.req = r]
                   /\ UNCHANGED <<shown, excused>>
                \/ /\ making' = Nothing
                   /\ shown' = IF making.fresh THEN "error" ELSE shown
                   /\ excused' = TRUE
             /\ UNCHANGED quota
       \/ /\ making' = Nothing
          /\ shown' = IF making.fresh THEN "error" ELSE shown
          /\ quota' \in {quota, FALSE}
          /\ UNCHANGED <<status, excused>>
    /\ UNCHANGED <<held, obj, polling, flowVars, vault, issued>>

\* generation = pairingGeneration, when the answer is there.
StillMine == making.fresh

Answered ==
    /\ making # Nothing /\ making.step = "answer"
    /\ IF StillMine
       THEN /\ held' = making.req /\ polling' = "timer" /\ shown' = "pending"
            /\ quota' = TRUE
            /\ making' = Nothing
            /\ UNCHANGED deletes
       ELSE /\ deletes' = deletes \union {making.req}
            /\ making' = [making EXCEPT !.step = "discard"]
            /\ UNCHANGED <<held, polling, shown, quota>>
    /\ UNCHANGED <<obj, finishing, leaving, clears, worldVars>>

Discarded ==
    /\ making # Nothing /\ making.step = "discard" /\ making.req \notin deletes
    /\ making' = Nothing
    /\ UNCHANGED <<shown, quota, held, obj, polling, flowVars, worldVars>>

\* The countdown reaches pairingRetryAt.
QuotaBack ==
    /\ ~quota /\ OnPage
    /\ quota' = TRUE
    /\ UNCHANGED <<shown, making, held, obj, polling, flowVars, worldVars>>

----------------------------------------------------------------------------
(* pollPairing *)

PollSend ==
    /\ OnPage /\ polling = "timer" /\ held # 0
    /\ \/ polling' = "sent" /\ UNCHANGED <<held, shown>>
       \/ /\ status[held] = "expired"
          /\ polling' = "no" /\ held' = 0 /\ shown' = "stopped"
    /\ UNCHANGED <<making, quota, obj, flowVars, worldVars>>

PollRead ==
    /\ polling = "sent"
    /\ polling' \in {"failed", CASE status[held] = "pending" -> "pending"
                                 [] status[held] = "approved" -> "approved"
                                 [] status[held] = "completed" -> "failed"
                                 [] OTHER -> "closed"}
    /\ UNCHANGED <<shown, making, quota, held, obj, flowVars, worldVars>>

PollAgain ==
    /\ OnPage /\ polling \in {"pending", "failed"}
    /\ polling' = "timer"
    /\ UNCHANGED <<shown, making, quota, held, obj, flowVars, worldVars>>

PollClosed ==
    /\ OnPage /\ polling = "closed"
    /\ polling' = "no" /\ held' = 0 /\ shown' = "stopped"
    /\ UNCHANGED <<making, quota, obj, flowVars, worldVars>>

\* The envelope opens and matches the code, or the code is given up.
PollApproved ==
    /\ OnPage /\ polling = "approved"
    /\ \/ /\ obj' = [obj EXCEPT ![held].got = TRUE]
          /\ polling' = "no" /\ shown' = "pin"
          /\ UNCHANGED <<held, clears, deletes, making>>
       \/ /\ Clear("poll")
          /\ making' = IF making = Nothing THEN making ELSE [making EXCEPT !.fresh = FALSE]
          /\ UNCHANGED <<shown, obj>>
    /\ UNCHANGED <<quota, finishing, leaving, worldVars>>

----------------------------------------------------------------------------
(* finishPairing *)

At(r, step) == finishing' = [finishing EXCEPT ![r] = step]

Finish ==
    /\ shown \in {"pin", "complete-error"}
    /\ held # 0 /\ obj[held].got /\ finishing[held] = "no"
    /\ IF obj[held].vault THEN At(held, "post") /\ shown' = "completing"
                          ELSE At(held, "verify") /\ UNCHANGED shown
    /\ UNCHANGED <<making, quota, held, obj, polling, leaving, clears, deletes, worldVars>>

\* The PIN is the one of the approving device, or it is asked again.
Verified(r) ==
    /\ OnPage /\ finishing[r] = "verify"
    /\ \/ At(r, "create") /\ UNCHANGED shown
       \/ At(r, "no") /\ shown' = "pin"
    /\ UNCHANGED <<making, quota, held, obj, polling, leaving, clears, deletes, worldVars>>

Created(r) ==
    /\ OnPage /\ finishing[r] = "create"
    /\ \/ /\ vault' = [req |-> r, session |-> FALSE]
          /\ obj' = [obj EXCEPT ![r].vault = TRUE]
          /\ At(r, "post") /\ shown' = "completing"
       \/ At(r, "no") /\ shown' = "pin" /\ UNCHANGED <<vault, obj>>
    /\ UNCHANGED <<making, quota, held, polling, leaving, clears, deletes, status, issued,
                   excused>>

\* The server issues the session of an approved record, the same one for a retry; the
\* request or its answer may be lost.
Complete(r) ==
    /\ OnPage /\ finishing[r] = "post"
    /\ IF status[r] \in {"approved", "completed"}
       THEN \/ /\ status' = [status EXCEPT ![r] = "completed"]
               /\ issued' = [issued EXCEPT ![r] = TRUE]
               /\ \/ At(r, "issued") /\ UNCHANGED excused
                  \/ At(r, "failed") /\ excused' = TRUE
            \/ At(r, "failed") /\ excused' = TRUE /\ UNCHANGED <<status, issued>>
       ELSE At(r, "failed") /\ UNCHANGED <<status, issued, excused>>
    /\ UNCHANGED <<pageVars, leaving, clears, deletes, vault>>

CompleteFailed(r) ==
    /\ OnPage /\ finishing[r] = "failed"
    /\ At(r, "no") /\ shown' = "complete-error"
    /\ UNCHANGED <<making, quota, held, obj, polling, leaving, clears, deletes, worldVars>>

\* Mutant for NothingOrphaned: the session is left to the next change of the state.
SaveSessionLater == UNCHANGED vault

\* VAULT.save at once; it writes nothing when the vault is wiped.
SaveSession == vault' = IF vault = Nothing THEN vault ELSE [vault EXCEPT !.session = TRUE]

\* The page goes on to the app.
Issued(r) ==
    /\ OnPage /\ finishing[r] = "issued"
    /\ SaveSession
    /\ obj' = [obj EXCEPT ![r].done = TRUE]
    /\ NewGeneration
    /\ At(r, "no") /\ shown' = "app"
    /\ UNCHANGED <<making, quota, leaving, clears, deletes, status, issued, excused>>

----------------------------------------------------------------------------
(* cancelPairing, pagehide and boot *)

\* A cancel counts the epoch and the generation.
Outdate(m) == [m EXCEPT !.fresh = FALSE, !.wanted = FALSE]

Cancel ==
    /\ shown \in {"creating", "pending", "pin", "error", "stopped", "complete-error"}
    /\ ~leaving
    /\ leaving' = TRUE
    /\ Clear("cancel")
    /\ making' = IF making = Nothing THEN making ELSE Outdate(making)
    /\ excused' = (excused \/ Processing)
    /\ UNCHANGED <<shown, quota, obj, finishing, vault, status, issued>>

\* pagehide: what the page still holds is cancelled, everything that runs is gone.
Hide(next) ==
    /\ shown' = next
    /\ deletes' = IF held # 0 /\ ~obj[held].done THEN deletes \union {held} ELSE deletes
    /\ NewGeneration
    /\ making' = Nothing /\ clears' = {} /\ leaving' = FALSE
    /\ finishing' = [r \in Codes |-> "no"]
    /\ UNCHANGED <<quota, obj, vault, status, issued>>

\* The cancel has cleared and the creation it found running is over.
CancelDone ==
    /\ OnPage /\ leaving
    /\ \A c \in clears : c.by # "cancel"
    /\ making # Nothing => making.wanted
    /\ Hide("login")
    /\ UNCHANGED excused

PageHide ==
    /\ OnPage
    /\ Hide("gone")
    /\ excused' = TRUE

\* boot with ?pair=1: a vault asks for its PIN instead.
Reopen ==
    /\ shown \in {"gone", "login"}
    /\ shown' = IF vault = Nothing THEN "none" ELSE "app"
    /\ obj' = [r \in Codes |-> [got |-> FALSE, vault |-> FALSE, done |-> FALSE]]
    /\ quota' = TRUE
    /\ UNCHANGED <<making, held, polling, flowVars, worldVars>>

----------------------------------------------------------------------------
(* The approving device, the life of the record, the network *)

Review(r, s) ==
    /\ status[r] = "pending"
    /\ status' = [status EXCEPT ![r] = s]
    /\ UNCHANGED <<pageVars, flowVars, vault, issued, excused>>

Lapse(r) ==
    /\ status[r] \in {"pending", "approved"}
    /\ status' = [status EXCEPT ![r] = "expired"]
    /\ UNCHANGED <<pageVars, flowVars, vault, issued, excused>>

\* cancelPairingRequest arrives, or is lost.
Deleted(r) ==
    /\ r \in deletes
    /\ deletes' = deletes \ {r}
    /\ \/ /\ status' = [status EXCEPT ![r] =
                           IF @ \in {"pending", "approved"} THEN "rejected" ELSE @]
          /\ UNCHANGED excused
       \/ excused' = TRUE /\ UNCHANGED status
    /\ UNCHANGED <<pageVars, finishing, leaving, clears, vault, issued>>

PairingPageInit ==
    /\ shown = "none" /\ making = Nothing /\ quota = TRUE /\ held = 0 /\ polling = "no"
    /\ obj = [r \in Codes |-> [got |-> FALSE, vault |-> FALSE, done |-> FALSE]]
    /\ finishing = [r \in Codes |-> "no"] /\ leaving = FALSE
    /\ clears = {} /\ deletes = {} /\ vault = Nothing
    /\ status = [r \in Codes |-> "none"] /\ issued = [r \in Codes |-> FALSE]
    /\ excused = FALSE

PairingPageNext ==
    \/ Begin \/ BeginCleared \/ Posted \/ Answered \/ Discarded \/ QuotaBack
    \/ PollSend \/ PollRead \/ PollAgain \/ PollClosed \/ PollApproved
    \/ Finish \/ Cancel \/ CancelDone \/ PageHide \/ Reopen
    \/ \E c \in clears : ClearDone(c)
    \/ \E r \in Codes : \/ Verified(r) \/ Created(r) \/ Complete(r) \/ CompleteFailed(r)
                        \/ Issued(r) \/ Review(r, "approved") \/ Review(r, "rejected")
                        \/ Lapse(r) \/ Deleted(r)

PairingPageSpec == PairingPageInit /\ [][PairingPageNext]_pairingPageVars

----------------------------------------------------------------------------
\* A page that was left with Cancel leaves no code that could still be approved and no
\* vault, whatever the creation, the poll and older cancels were doing, unless a message
\* was lost, the PIN was being processed, or a new code was asked for in between
\* (beginPairing, clearPairing, H.cancelPairing).
CancelledLeavesNothing ==
    shown = "login" /\ deletes = {} /\ ~excused
        => vault = Nothing /\ \A r \in Codes : status[r] \notin {"pending", "approved"}

\* A session that was issued belongs to the vault of this browser, or the page can still
\* ask for it again; no error path of finishPairing loses it, unless a message was lost
\* or the page was left while the PIN was processed.
NoOrphanSession ==
    \A r \in Codes : issued[r] /\ ~excused =>
        /\ vault # Nothing /\ vault.req = r
        /\ vault.session \/ held = r

\* The app opens with a vault that holds the session, with the same exceptions.
AppHasSession ==
    shown = "app" /\ ~excused => vault # Nothing /\ vault.session /\ issued[vault.req]

\* The codes and sessions of the server, the vault and the page agree.
NothingOrphaned == CancelledLeavesNothing /\ NoOrphanSession /\ AppHasSession
=============================================================================
