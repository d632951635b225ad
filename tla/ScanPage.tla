------------------------------- MODULE ScanPage -------------------------------
(***************************************************************************)
(* The page of a signed-in device that connects another one (app/data.js   *)
(* stopPairingCamera .. startPairingCamera, their handlers): the camera,   *)
(* the code it reads or the user pastes, its inspection, and the answer.   *)
(*                                                                         *)
(* A run is one call of startPairingCamera; pairingCameraGeneration tells  *)
(* the runs that began since the camera was last stopped, a run is  *)
(* "current" as long as it has not been stopped since it began.  A code is *)
(* a pairing request of a new device; what the server and   *)
(* the new device do with an envelope is module Pairing's.                 *)
(***************************************************************************)
EXTENDS Naturals, FiniteSets

CONSTANTS
    Codes,     \* pairing requests
    None,
    MaxStarts  \* bound: times the camera is started, codes inspected, answers sent

ASSUME ScanAssumption == None \notin Codes /\ MaxStarts \in Nat

VARIABLES
    scanView,    \* state.view is "pairing-approve"
    scanGate,    \* state.gate
    runs,        \* runs of startPairingCamera: [id, current, step]
    started,     \* how many there have been
    camera,      \* pairingCamera: the run whose stream it is, 0 for none
    live,        \* runs whose stream is on
    inspects,    \* POST .../inspect on their way: [id, code]
    asked,       \* how many inspections and answers have been sent
    approval,    \* pairingApproval: [code, op, envelope], or None
    busy,        \* operations p whose answer is being sent
    scanScreen,  \* state.pairingApproval.status
    answers,     \* POST .../approve and .../reject on their way: [op, allow, step]
    posted       \* history: [op, envelope] sent to the server

scanVars == <<scanView, scanGate, runs, started, camera, live, inspects, asked, approval,
              busy, scanScreen, answers, posted>>
cameraVars == <<runs, started, camera, live>>
answerVars == <<inspects, asked, approval, busy, scanScreen, answers, posted>>

\* prompt: the user is asked for the camera; playing: the preview starts; reading: a look
\* at the picture is due; detecting: it is being looked at.
Steps == {"prompt", "playing", "reading", "detecting"}
Statuses == {"scan", "confirm", "approved", "rejected", "none"}
Approval == [code: Codes, op: 1 .. MaxStarts, envelope: 0 .. MaxStarts]

ScanTypeOK ==
    /\ scanView \in BOOLEAN /\ scanGate \in BOOLEAN
    /\ started \in 0 .. MaxStarts /\ asked \in 0 .. MaxStarts
    /\ runs \subseteq [id: 1 .. MaxStarts, current: BOOLEAN, step: Steps]
    /\ camera \in 0 .. MaxStarts /\ live \subseteq 1 .. MaxStarts
    /\ inspects \subseteq [id: 1 .. MaxStarts, code: Codes]
    /\ approval = None \/ approval \in Approval
    /\ busy \subseteq 1 .. MaxStarts /\ scanScreen \in Statuses
    /\ answers \subseteq [op: 1 .. MaxStarts, allow: BOOLEAN, step: {"sealing", "sent"}]
    /\ posted \subseteq [op: 1 .. MaxStarts, envelope: 1 .. MaxStarts]

----------------------------------------------------------------------------
(* The camera *)

\* stopPairingCamera: the runs there are, but for those of rs, learn that they were stopped.
StopCamera(rs) ==
    /\ camera' = 0 /\ live' = live \ {camera}
    /\ runs' = {[r EXCEPT !.current = FALSE] : r \in runs \ rs}

\* The page is shown and not locked.
OnPage == scanView /\ ~scanGate

\* startPairingCamera, until the browser asks the user for the camera.  (A browser that
\* has no camera, or no decoder, fails at once: CameraFails.)
StartCamera ==
    /\ OnPage /\ started < MaxStarts
    /\ started' = started + 1
    /\ camera' = 0 /\ live' = live \ {camera}
    /\ runs' = {[r EXCEPT !.current = FALSE] : r \in runs}
                 \union {[id |-> started', current |-> TRUE, step |-> "prompt"]}
    /\ UNCHANGED <<scanView, scanGate, answerVars>>

\* Mutant for ScanSound: a run that was stopped while the user was asked goes on.
OnPageStill(r) == OnPage

\* Was the run neither stopped nor left behind?
Wanted(r) == r.current /\ OnPage

\* The stream is there: it is stopped at once when nobody wants it any more.
Granted(r) ==
    /\ r.step = "prompt"
    /\ IF Wanted(r)
       THEN /\ camera' = r.id /\ live' = live \union {r.id}
            /\ runs' = (runs \ {r}) \union {[r EXCEPT !.step = "playing"]}
       ELSE /\ runs' = runs \ {r}
            /\ UNCHANGED <<camera, live>>
    /\ UNCHANGED <<started, scanView, scanGate, answerVars>>

\* The user refuses, there is no camera, or no picture comes within eight seconds: the
\* handler stops whatever camera is on, be it that of a later run.
CameraFails(r) ==
    /\ r.step \in {"prompt", "playing"}
    /\ StopCamera({r})
    /\ UNCHANGED <<started, scanView, scanGate, answerVars>>

Playing(r) ==
    /\ r.step = "playing"
    /\ runs' = (runs \ {r}) \union {[r EXCEPT !.step = "reading"]}
    /\ UNCHANGED <<started, camera, live, scanView, scanGate, answerVars>>

\* Mutant for CameraReleased: a picture is looked at whether the page is shown or not.
LookAnyway == FALSE

LeftPage == ~OnPage

\* read: a run that was stopped ends; one whose page is gone stops the camera; another
\* looks at the picture.
Look(r) ==
    /\ r.step = "reading"
    /\ IF ~r.current THEN runs' = runs \ {r} /\ UNCHANGED <<camera, live>>
       ELSE IF LeftPage THEN StopCamera({r})
       ELSE /\ runs' = (runs \ {r}) \union {[r EXCEPT !.step = "detecting"]}
            /\ UNCHANGED <<camera, live>>
    /\ UNCHANGED <<started, scanView, scanGate, answerVars>>

\* Nothing was found, or the frame could not be read: again in 250 ms.
FoundNothing(r) ==
    /\ r.step = "detecting"
    /\ runs' = (runs \ {r}) \union {[r EXCEPT !.step = "reading"]}
    /\ UNCHANGED <<started, camera, live, scanView, scanGate, answerVars>>

\* inspectPairing asks the server, the camera stopped.
Inspect(code) ==
    /\ asked < MaxStarts /\ asked' = asked + 1
    /\ inspects' = inspects \union {[id |-> asked', code |-> code]}
    /\ UNCHANGED <<approval, busy, scanScreen, answers, posted>>

\* A code was found; whether the run was stopped meanwhile is not looked at.
FoundCode(r) ==
    /\ r.step = "detecting"
    /\ StopCamera({r})
    /\ \E code \in Codes : Inspect(code)
    /\ UNCHANGED <<scanView, scanGate, started>>

\* What was found is not a pairing code: the camera has been stopped, the run ends.
FoundOther(r) ==
    /\ r.step = "detecting"
    /\ StopCamera({r})
    /\ UNCHANGED <<started, scanView, scanGate, answerVars>>

StopScan ==
    /\ OnPage /\ StopCamera({})
    /\ UNCHANGED <<started, scanView, scanGate, answerVars>>

----------------------------------------------------------------------------
(* The page *)

\* goConnectDevice.
OpenPage ==
    /\ ~scanView /\ ~scanGate
    /\ scanView' = TRUE /\ StopCamera({}) /\ approval' = None /\ scanScreen' = "scan"
    /\ UNCHANGED <<scanGate, started, inspects, asked, busy, answers, posted>>

\* closeConnectDevice.
ClosePage ==
    /\ OnPage
    /\ scanView' = FALSE /\ StopCamera({}) /\ approval' = None /\ scanScreen' = "none"
    /\ UNCHANGED <<scanGate, started, inspects, asked, busy, answers, posted>>

\* Another screen is shown in any other way (a notice is clicked, Back): the page is not told.
LeavePage ==
    /\ OnPage /\ scanView' = FALSE
    /\ UNCHANGED <<scanGate, cameraVars, answerVars>>

\* lockApp: wipeMemory.
LockPage ==
    /\ ~scanGate /\ scanGate' = TRUE /\ scanView' = FALSE
    /\ StopCamera({}) /\ approval' = None /\ scanScreen' = "none"
    /\ UNCHANGED <<started, inspects, asked, busy, answers, posted>>

Unlock ==
    /\ scanGate /\ scanGate' = FALSE
    /\ UNCHANGED <<scanView, cameraVars, answerVars>>

Paste ==
    /\ OnPage
    /\ StopCamera({})
    /\ \E code \in Codes : Inspect(code)
    /\ UNCHANGED <<scanView, scanGate, started>>

----------------------------------------------------------------------------
(* inspectPairing, answerPairing *)

\* The answer is shown when the page still is (or again): a new operation begins.
Inspected(i) ==
    /\ inspects' = inspects \ {i}
    /\ IF OnPage
       THEN approval' = [code |-> i.code, op |-> i.id, envelope |-> 0] /\ scanScreen' = "confirm"
       ELSE UNCHANGED <<approval, scanScreen>>
    /\ UNCHANGED <<scanView, scanGate, cameraVars, asked, busy, answers, posted>>

InspectFails(i) ==
    /\ inspects' = inspects \ {i}
    /\ UNCHANGED <<scanView, scanGate, cameraVars, asked, approval, busy, scanScreen, answers, posted>>

\* allowPairing, rejectPairing: one answer of an operation at a time.
Answer(allow) ==
    /\ OnPage /\ approval # None /\ scanScreen = "confirm"
    /\ approval.op \notin busy
    /\ busy' = busy \union {approval.op}
    /\ answers' = answers \union {[op |-> approval.op, allow |-> allow,
                                   step |-> IF allow THEN "sealing" ELSE "sent"]}
    /\ UNCHANGED <<scanView, scanGate, cameraVars, inspects, asked, approval, scanScreen, posted>>

\* Envelopes are numbered; bound: the approval is the one being answered, for a closed page
\* ends the sealing (its operation object would be sealed in vain).
Fresh == 1 + Cardinality(posted)

\* A retry sends the envelope that was sealed first.
Sealed(p) == IF p.envelope = 0 THEN Fresh ELSE p.envelope

\* The vault is open, or the passcode opens it; the envelope is sealed and sent.
Seal(a) ==
    /\ a.step = "sealing"
    /\ approval # None /\ approval.op = a.op
    /\ Cardinality(posted) < MaxStarts
    /\ approval' = [approval EXCEPT !.envelope = Sealed(approval)]
    /\ posted' = posted \union {[op |-> a.op, envelope |-> approval'.envelope]}
    /\ answers' = (answers \ {a}) \union {[a EXCEPT !.step = "sent"]}
    /\ UNCHANGED <<scanView, scanGate, cameraVars, inspects, asked, busy, scanScreen>>

\* The outcome is shown, whatever the page shows by now.
AnswerDone(a) ==
    /\ a.step = "sent"
    /\ answers' = answers \ {a} /\ busy' = busy \ {a.op}
    /\ approval' = None /\ scanScreen' = IF a.allow THEN "approved" ELSE "rejected"
    /\ UNCHANGED <<scanView, scanGate, cameraVars, inspects, asked, posted>>

\* Expired, a wrong passcode, a refusal or a lost answer: the user may try again.
AnswerFails(a) ==
    /\ answers' = answers \ {a} /\ busy' = busy \ {a.op}
    /\ UNCHANGED <<scanView, scanGate, cameraVars, inspects, asked, approval, scanScreen, posted>>

----------------------------------------------------------------------------
ScanInit ==
    /\ scanView = FALSE /\ scanGate = FALSE /\ runs = {} /\ started = 0
    /\ camera = 0 /\ live = {} /\ inspects = {} /\ asked = 0 /\ approval = None /\ busy = {}
    /\ scanScreen = "none" /\ answers = {} /\ posted = {}

\* What the browser, the timers and the camera do.
RunStep(r) == Playing(r) \/ CameraFails(r) \/ Look(r) \/ FoundNothing(r) \/ FoundOther(r) \/ FoundCode(r)

ScanNext ==
    \/ OpenPage \/ ClosePage \/ LeavePage \/ LockPage \/ Unlock \/ Paste \/ StartCamera \/ StopScan
    \/ \E r \in runs : Granted(r) \/ RunStep(r)
    \/ \E i \in inspects : Inspected(i) \/ InspectFails(i)
    \/ \E allow \in BOOLEAN : Answer(allow)
    \/ \E a \in answers : Seal(a) \/ AnswerDone(a) \/ AnswerFails(a)

\* Fairness: a preview starts or fails within eight seconds, a timer of 250 ms fires, and a
\* look at a picture ends.  Nothing is assumed of the user, who may leave the browser's
\* question open for ever.
ScanFairness ==
    \A id \in 1 .. MaxStarts :
        WF_scanVars(\E r \in runs : r.id = id /\ RunStep(r))

ScanSpec == ScanInit /\ [][ScanNext]_scanVars /\ ScanFairness

\* A stream that is on is the one stopPairingCamera stops: none is forgotten when the
\* camera is started again while the browser was asking, or a page left while it was.
CameraOwned == live \subseteq {camera}

\* A device that has left the page without closing it does not leave its camera on.
CameraReleased == ~OnPage ~> (live = {} \/ OnPage)

\* However often an answer is tried again, an operation has one envelope: what the server
\* takes for a repetition (module Pairing) is one.
OneEnvelope == \A s, t \in posted : s.op = t.op => s.envelope = t.envelope

\* What the page keeps to, however its runs and answers overlap.
ScanSound == CameraOwned /\ OneEnvelope
=============================================================================
