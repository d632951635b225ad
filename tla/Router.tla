-------------------------------- MODULE Router --------------------------------
(***************************************************************************)
(* The addresses of the screens (app/router.js, setState in core.js, the   *)
(* navigation in handlers.js): the screen decides the address after every  *)
(* change, by a new entry of the browser's history or by the app's own     *)
(* Back, which the browser carries out later; the user's Back and Forward  *)
(* and a reload make the address decide the screen.                        *)
(***************************************************************************)
EXTENDS Naturals, FiniteSets

CONSTANTS
    Chats,       \* chats that may be listed
    NoChat,      \* no chat is open
    MaxEntries,  \* bound: entries of the history
    MaxBacks     \* bound: Backs of the app the browser has not carried out

ASSUME RouterAssumption ==
    /\ NoChat \notin Chats
    /\ MaxEntries \in Nat \ {0} /\ MaxBacks \in Nat

VARIABLES
    screen,     \* state: [view, active, new, group, listed]
    gate,       \* state.gate: the PIN screen is shown
    armed,      \* router.armed
    expectPop,  \* router.expectPop
    entries,    \* the history: a path and the state {prev} of each entry
    at, top,    \* the entry shown and the last one there is
    backs,      \* Backs of the app on their way
    loose,      \* the screen was changed without setState (thread.updated closes a chat)
    mixed       \* history: the user went Back or Forward while a Back of the app was due

historyVars == <<entries, at, top, backs, expectPop>>
routerVars == <<screen, gate, armed, historyVars, loose, mixed>>

\* Every page of the settings is "option"; an address the app does not know is "other".
Views == {"chat", "settings", "option"}
Fixed == {"app", "settings", "option", "message", "group", "other"}
Paths == {<<f>> : f \in Fixed} \union {<<"chat", c>> : c \in Chats}
NoPath == <<"none">>
Screens == [view: Views, active: Chats \union {NoChat}, new: BOOLEAN, group: BOOLEAN,
            listed: SUBSET Chats]
Entry == [path: Paths, prev: Paths \union {NoPath}]

RouterTypeOK ==
    /\ screen \in Screens
    /\ gate \in BOOLEAN /\ armed \in BOOLEAN /\ expectPop \in BOOLEAN
    /\ entries \in [1 .. MaxEntries -> Entry]
    /\ top \in 1 .. MaxEntries /\ at \in 1 .. top
    /\ backs \in 0 .. MaxBacks
    /\ loose \in BOOLEAN /\ mixed \in BOOLEAN

Location == entries[at].path

\* pathOf.
PathOf(s) ==
    CASE s.group -> <<"group">>
      [] ~s.group /\ s.new -> <<"message">>
      [] ~s.group /\ ~s.new /\ s.view = "settings" -> <<"settings">>
      [] ~s.group /\ ~s.new /\ s.view = "option" -> <<"option">>
      [] ~s.group /\ ~s.new /\ s.view = "chat" /\ s.active \in s.listed -> <<"chat", s.active>>
      [] OTHER -> <<"app">>

----------------------------------------------------------------------------
(* routeSync, after every setState *)

\* A new entry cuts off those the user could have gone forward to.
Push(path) ==
    /\ at < MaxEntries   \* bound
    /\ entries' = [entries EXCEPT ![at + 1] = [path |-> path, prev |-> Location]]
    /\ at' = at + 1 /\ top' = at + 1
    /\ UNCHANGED <<backs, expectPop>>

AskBack ==
    /\ backs < MaxBacks   \* bound
    /\ expectPop' = TRUE /\ backs' = backs + 1
    /\ UNCHANGED <<entries, at, top>>

\* The address is left alone until the app is open, and while the app's own Back is due.
MaySync == armed /\ ~expectPop /\ ~gate

RouteSync(s) ==
    \/ (~MaySync \/ PathOf(s) = Location) /\ UNCHANGED historyVars
    \/ MaySync /\ PathOf(s) # Location /\ entries[at].prev = PathOf(s) /\ AskBack
    \/ MaySync /\ PathOf(s) # Location /\ entries[at].prev # PathOf(s) /\ Push(PathOf(s))

\* setState.
Show(s) == screen' = s /\ loose' = FALSE /\ RouteSync(s) /\ UNCHANGED <<gate, armed, mixed>>

----------------------------------------------------------------------------
(* The handlers that change the screen *)

Open == ~gate /\ armed

OpenSettings == Open /\ screen.view = "chat" /\ Show([screen EXCEPT !.view = "settings"])
GoOption == Open /\ screen.view = "settings" /\ Show([screen EXCEPT !.view = "option"])
CloseOption == Open /\ screen.view = "option" /\ Show([screen EXCEPT !.view = "settings"])
CloseSettings == Open /\ screen.view = "settings" /\ Show([screen EXCEPT !.view = "chat"])
NewChat == Open /\ Show([screen EXCEPT !.new = TRUE])
CloseNew == Open /\ screen.new /\ Show([screen EXCEPT !.new = FALSE])
OpenGroup == Open /\ screen.new /\ Show([screen EXCEPT !.new = FALSE, !.group = TRUE])
CloseGroup == Open /\ screen.group /\ Show([screen EXCEPT !.group = FALSE])
BackToList == Open /\ screen.view = "chat" /\ Show([screen EXCEPT !.active = NoChat])

\* pickThread, a clicked notice; pickPerson and groupCreate, with the chat just made.
OpenThread(c) ==
    /\ Open
    /\ Show([screen EXCEPT !.active = c, !.view = "chat", !.listed = @ \union {c}])

\* deleteThread.
DeleteThread ==
    /\ Open /\ screen.active \in screen.listed
    /\ Show([screen EXCEPT !.listed = @ \ {screen.active}, !.active = NoChat])

\* loadThreads; any other setState (a toast) leaves the screen and syncs it as well.
SetThreads(cs) == Open /\ Show([screen EXCEPT !.listed = cs])

\* thread.updated: the chat is closed with no setState; a reload of the list follows.
ThreadGone ==
    /\ Open /\ screen.active \in Chats
    /\ screen' = [screen EXCEPT !.active = NoChat] /\ loose' = TRUE
    /\ UNCHANGED <<gate, armed, historyVars, mixed>>

----------------------------------------------------------------------------
(* applyPath, routeStart, popstate, lock and reload *)

\* applyPath: what the screen becomes for an address.
Applied(s, path) ==
    LET base == [s EXCEPT !.new = FALSE, !.group = FALSE]
    IN CASE path = <<"settings">> -> [base EXCEPT !.view = "settings"]
         [] path = <<"option">> -> [base EXCEPT !.view = "option"]
         [] path = <<"message">> -> [base EXCEPT !.view = "chat", !.new = TRUE]
         [] path = <<"group">> -> [base EXCEPT !.view = "chat", !.group = TRUE]
         [] \E c \in s.listed : path = <<"chat", c>> ->
                [base EXCEPT !.view = "chat", !.active = CHOOSE c \in s.listed : path = <<"chat", c>>]
         [] OTHER -> [base EXCEPT !.view = "chat", !.active = NoChat]

\* The address of entry i is applied; one the app cannot show is corrected in its place.
ApplyPath(s, i) ==
    /\ screen' = Applied(s, entries[i].path)
    /\ entries' = [entries EXCEPT ![i].path = PathOf(screen')]
    /\ loose' = FALSE

\* startApp: the chats are listed, then the address decides (first login, unlock, reload).
RouteStart ==
    /\ gate /\ ~armed
    /\ gate' = FALSE /\ armed' = TRUE
    /\ \E cs \in SUBSET Chats : ApplyPath([screen EXCEPT !.view = "chat", !.listed = cs], at)
    /\ UNCHANGED <<at, top, backs, expectPop, mixed>>

\* Mutant for RouteAgrees: what changed while Back was on its way is not looked at.
PoppedOnly(i, left) ==
    /\ at' = i /\ backs' = left /\ expectPop' = FALSE
    /\ UNCHANGED <<screen, loose, entries, top>>

\* popstate for the app's own Back: the screen may have changed since and decides again.
PopExpected(i, left) ==
    LET here == PathOf(screen) = entries[i].path
        back == ~here /\ entries[i].prev = PathOf(screen)
    IN /\ screen' = screen /\ loose' = loose
       /\ IF ~(armed /\ ~gate) \/ here
          THEN at' = i /\ backs' = left /\ expectPop' = FALSE /\ UNCHANGED <<entries, top>>
          ELSE IF back
          THEN at' = i /\ left < MaxBacks /\ backs' = left + 1 /\ expectPop' = TRUE
                 /\ UNCHANGED <<entries, top>>
          ELSE /\ i < MaxEntries
               /\ entries' = [entries EXCEPT ![i + 1] = [path |-> PathOf(screen), prev |-> entries[i].path]]
               /\ at' = i + 1 /\ top' = i + 1 /\ backs' = left /\ expectPop' = FALSE

\* popstate for the user's: the address decides, unless the PIN screen is shown.
PopUnexpected(i, left) ==
    /\ at' = i /\ backs' = left /\ expectPop' = FALSE /\ top' = top
    /\ IF armed /\ ~gate THEN ApplyPath(screen, i) ELSE UNCHANGED <<screen, loose, entries>>

\* The listener cannot tell whose popstate it is: the flag decides.
PopState(i, left) == IF expectPop THEN PopExpected(i, left) ELSE PopUnexpected(i, left)

\* The browser carries out a Back of the app.
OwnBack ==
    /\ backs > 0 /\ at > 1
    /\ PopState(at - 1, backs - 1)
    /\ mixed' = (mixed /\ backs' > 0)
    /\ UNCHANGED <<gate, armed>>

\* There is no entry to go back to (or it is another page's).
OwnBackLeaves ==
    /\ backs > 0 /\ at = 1
    /\ backs' = backs - 1 /\ mixed' = (mixed /\ backs' > 0)
    /\ UNCHANGED <<screen, gate, armed, entries, at, top, expectPop, loose>>

\* The user goes Back or Forward inside the app.
UserGoes(i) ==
    /\ i \in 1 .. top /\ i \in {at - 1, at + 1}
    /\ PopState(i, backs)
    /\ mixed' = (mixed \/ backs > 0)
    /\ UNCHANGED <<gate, armed>>

\* lockApp: wipeMemory; the address stays.
Lock ==
    /\ Open
    /\ gate' = TRUE /\ armed' = FALSE
    /\ screen' = [screen EXCEPT !.view = "chat", !.active = NoChat, !.listed = {}]
    /\ loose' = FALSE
    /\ UNCHANGED <<historyVars, mixed>>

\* A reload: the history stays, a Back on its way does not.
ReloadPage ==
    /\ screen' = [view |-> "chat", active |-> NoChat, new |-> FALSE, group |-> FALSE, listed |-> {}]
    /\ gate' = TRUE /\ armed' = FALSE /\ expectPop' = FALSE /\ backs' = 0
    /\ loose' = FALSE /\ mixed' = FALSE
    /\ UNCHANGED <<entries, at, top>>

\* The app is opened by any address.
RouterInit ==
    /\ screen = [view |-> "chat", active |-> NoChat, new |-> FALSE, group |-> FALSE, listed |-> {}]
    /\ gate = TRUE /\ armed = FALSE /\ expectPop = FALSE
    /\ \E p \in Paths : entries = [i \in 1 .. MaxEntries |-> [path |-> p, prev |-> NoPath]]
    /\ at = 1 /\ top = 1 /\ backs = 0 /\ loose = FALSE /\ mixed = FALSE

RouterNext ==
    \/ OpenSettings \/ GoOption \/ CloseOption \/ CloseSettings
    \/ NewChat \/ CloseNew \/ OpenGroup \/ CloseGroup \/ BackToList
    \/ (\E c \in Chats : OpenThread(c)) \/ DeleteThread
    \/ (\E cs \in SUBSET Chats : SetThreads(cs)) \/ ThreadGone
    \/ RouteStart \/ OwnBack \/ OwnBackLeaves \/ (\E i \in 1 .. MaxEntries : UserGoes(i))
    \/ Lock \/ ReloadPage

RouterSpec == RouterInit /\ [][RouterNext]_routerVars

----------------------------------------------------------------------------
\* Once no Back of the app is on its way, the address is that of the screen, so that a
\* reload or a copied link shows the same; in particular the router never waits for a
\* popstate that will not come.  Excused until the next setState: a chat closed by a frame.
RouteAgrees == armed /\ ~gate /\ ~loose /\ backs = 0 => Location = PathOf(screen)

\* router.js:39: the app's own Back goes to the entry it was meant for and moves no screen,
\* unless the user went Back or Forward meanwhile.
OwnBackKeepsScreen == [][OwnBack => mixed \/ screen' = screen]_routerVars
=============================================================================
