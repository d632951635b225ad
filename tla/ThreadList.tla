------------------------------ MODULE ThreadList ------------------------------
(***************************************************************************)
(* The list of chats in one tab (app/data.js): requests of the list that   *)
(* overlap, frames that ask for another one, chats opened, created, left   *)
(* and deleted here or elsewhere, and the unread counters.                 *)
(*                                                                         *)
(* A chat of the list is what the server last said of it plus what frames  *)
(* have changed since; every answer of the list builds new objects, so a   *)
(* message being decrypted may hold a chat object that is listed no longer.*)
(***************************************************************************)
EXTENDS Naturals, Sequences, FiniteSets, SequencesExt

CONSTANTS
    Threads,       \* chats
    Nobody,        \* no chat
    MaxListed,     \* bound: requests of the list
    MaxArrivals,   \* bound: messages of others
    MaxChanges     \* bound: memberships begun or ended elsewhere

ASSUME ThreadAssumption ==
    /\ Nobody \notin Threads
    /\ MaxListed \in Nat \ {0} /\ MaxArrivals \in Nat /\ MaxChanges \in Nat

VARIABLES
    member,     \* the server: chats this user is in
    count,      \* the server: the user's unread messages in each
    arrivals,   \* how many messages others have sent
    changes,    \* how many memberships others have changed
    threads,    \* state.threads
    unread,     \* t.unread of the listed chats
    active,     \* state.activeThread
    hidden,     \* document.hidden
    rev,        \* threadsRev
    last,       \* threadsLoad, the newest request: "asked", "applied" or "failed"
    answers,    \* requests of the list, and of one chat (only), on their way
    timer,      \* reloadThreadsSoon's timer runs
    events,     \* frames on their way
    incoming,   \* onIncoming's runs: messages waiting for the list or being decrypted
    reading,    \* chats about to be marked as read
    asked,      \* requests that create or leave a chat
    skewed,     \* history: chats whose counter crossed an answer, a frame or a request
    outdated    \* history: a frame or an answer was lost and the list not asked since

serverVars == <<member, count, arrivals, changes>>
screenVars == <<active, hidden, reading>>
listVars == <<rev, last, answers, timer, outdated>>
threadVars == <<serverVars, screenVars, listVars, threads, unread, events, incoming, asked, skewed>>

Counter == [Threads -> 0 .. 2 * MaxArrivals]
Frame == [event: {"message", "updated", "removed"}, thread: Threads]
\* crossed: chats whose counter changed on one side while the answer was on its way.
Answer == [rev: 0 .. MaxListed, only: Threads \union {Nobody}, step: {"sent", "read"},
           chats: SUBSET Threads, count: Counter, crossed: SUBSET Threads]
\* rev: the request waited for; fresh: the chat was listed because of the message;
\* stale: the chat object it holds is no longer listed.
Incoming == [thread: Threads, step: {"listing", "decoding"}, rev: 0 .. MaxListed,
             fresh: BOOLEAN, stale: BOOLEAN]

ThreadTypeOK ==
    /\ member \subseteq Threads /\ count \in Counter
    /\ arrivals \in 0 .. MaxArrivals /\ changes \in 0 .. MaxChanges
    /\ threads \subseteq Threads /\ unread \in Counter
    /\ active \in Threads \union {Nobody} /\ hidden \in BOOLEAN
    /\ rev \in 0 .. MaxListed /\ last \in {"asked", "applied", "failed"} /\ timer \in BOOLEAN
    /\ \A a \in answers : a \in Answer
    /\ events \in Seq(Frame)
    /\ \A i \in incoming : i \in Incoming
    /\ reading \subseteq [thread: Threads, step: {"opening", "timer", "post"}]
    /\ asked \subseteq [what: {"create", "leave"}, thread: Threads, step: {"sent", "done"}]
    /\ skewed \subseteq Threads /\ outdated \in BOOLEAN

----------------------------------------------------------------------------
(* loadThreads, reloadThreadsSoon, loadMembers *)

Request(r, only) == [rev |-> r, only |-> only, step |-> "sent", chats |-> {},
                     count |-> [t \in Threads |-> 0], crossed |-> {}]

\* loadThreads, beside the requests already on their way: every request of the list takes
\* the next number.
LoadThreads(as) ==
    /\ rev < MaxListed
    /\ rev' = rev + 1 /\ last' = "asked" /\ outdated' = FALSE
    /\ answers' = as \union {Request(rev', Nobody)}

\* Counters change, here or on the server, while answers read before are on their way.
Crossing(as, ts) == {IF a.step = "read" THEN [a EXCEPT !.crossed = @ \union ts] ELSE a : a \in as}

\* Is there a message, or a mark as read, that only one side has counted yet?
Uncounted(t) ==
    \/ \E e \in ToSet(events) : e = [event |-> "message", thread |-> t]
    \/ \E i \in incoming : i.thread = t /\ i.step = "decoding"
    \/ \E r \in reading : r.thread = t /\ r.step = "post"

ReadAnswer(a) ==
    /\ a.step = "sent"
    /\ answers' = (answers \ {a}) \union
         {[a EXCEPT !.step = "read", !.chats = member, !.count = count,
                    !.crossed = {t \in Threads : Uncounted(t)}]}
    /\ UNCHANGED <<serverVars, screenVars, rev, last, timer, outdated, threads, unread, events,
                   incoming, asked, skewed>>

\* Mutant for ThreadsCurrent: every answer is applied, in whatever order they come.
AnyAnswer(a) == a.only = Nobody

Newest(a) == a.rev = rev

\* Who waited for request r goes on (the chat is listed now), gives up (it is not, or the
\* request failed), or waits for the newest one.
Waiting(r) == {i \in incoming : i.step = "listing" /\ i.rev = r}
GoOn(is, chats) == {[i EXCEPT !.step = "decoding", !.fresh = TRUE] : i \in {j \in is : j.thread \in chats}}
Detached(is) == {IF i.step = "decoding" THEN [i EXCEPT !.stale = TRUE] ELSE i : i \in is}

\* The answer to the last request replaces the list.
ApplyThreads(a) ==
    /\ a.step = "read" /\ a.only = Nobody /\ Newest(a)
    /\ threads' = a.chats /\ unread' = a.count /\ skewed' = a.crossed
    /\ incoming' = Detached(incoming \ Waiting(a.rev)) \union GoOn(Waiting(a.rev), a.chats)
    /\ answers' = answers \ {a} /\ last' = "applied"
    /\ UNCHANGED <<serverVars, screenVars, rev, timer, outdated, events, asked>>

\* An older answer is dropped; who waited for it gets the newest request's outcome.
DropThreads(a) ==
    /\ a.step = "read" /\ a.only = Nobody /\ ~Newest(a)
    /\ incoming' = (incoming \ Waiting(a.rev)) \union
          CASE last = "asked" -> {[i EXCEPT !.rev = rev] : i \in Waiting(a.rev)}
            [] last = "applied" -> GoOn(Waiting(a.rev), threads)
            [] last = "failed" -> {}
    /\ skewed' = skewed \union {i.thread : i \in Waiting(a.rev)}
    /\ answers' = answers \ {a}
    /\ UNCHANGED <<serverVars, screenVars, rev, last, timer, outdated, threads, unread, events, asked>>

RequestFailed(a) ==
    /\ answers' = answers \ {a}
    /\ IF a.only = Nobody /\ a.rev = rev
       THEN last' = "failed" /\ outdated' = TRUE
       ELSE UNCHANGED <<last, outdated>>
    /\ incoming' = IF a.only = Nobody THEN incoming \ Waiting(a.rev) ELSE incoming
    /\ skewed' = skewed \union {i.thread : i \in incoming \ incoming'}
    /\ UNCHANGED <<serverVars, screenVars, rev, timer, threads, unread, events, asked>>

ReloadTimer ==
    /\ timer /\ timer' = FALSE
    /\ LoadThreads(answers)
    /\ UNCHANGED <<serverVars, screenVars, threads, unread, events, incoming, asked, skewed>>

\* loadMembers of an open group: what the server says of one chat, in its place.
LoadMembers(t) ==
    /\ t \in threads /\ \A a \in answers : a.only # t
    /\ answers' = answers \union {Request(0, t)}
    /\ UNCHANGED <<serverVars, screenVars, rev, last, timer, outdated, threads, unread, events,
                   incoming, asked, skewed>>

ApplyMembers(a) ==
    /\ a.step = "read" /\ a.only # Nobody
    /\ IF a.only \in threads
       THEN /\ unread' = [unread EXCEPT ![a.only] = a.count[a.only]]
            /\ skewed' = (skewed \ {a.only}) \union (a.crossed \intersect {a.only})
       ELSE UNCHANGED <<unread, skewed>>
    /\ answers' = Crossing(answers \ {a}, {a.only})
    /\ UNCHANGED <<serverVars, screenVars, rev, last, timer, outdated, threads, events, incoming, asked>>

----------------------------------------------------------------------------
(* What others do, and the frames it sends *)

Tell(event, t) == events' = Append(events, [event |-> event, thread |-> t])

OthersWrite(t) ==
    /\ t \in member /\ arrivals < MaxArrivals
    /\ arrivals' = arrivals + 1 /\ count' = [count EXCEPT ![t] = @ + 1]
    /\ Tell("message", t)
    /\ UNCHANGED <<member, changes, screenVars, listVars, threads, unread, incoming, asked, skewed>>

OthersInvite(t) ==
    /\ t \notin member /\ changes < MaxChanges
    /\ changes' = changes + 1 /\ member' = member \union {t} /\ count' = [count EXCEPT ![t] = 0]
    /\ answers' = Crossing(answers, {t})
    /\ Tell("updated", t)
    /\ UNCHANGED <<arrivals, screenVars, rev, last, timer, outdated, threads, unread, incoming,
                   asked, skewed>>

OthersRemove(t) ==
    /\ t \in member /\ changes < MaxChanges
    /\ changes' = changes + 1 /\ member' = member \ {t}
    /\ Tell("removed", t)
    /\ UNCHANGED <<count, arrivals, screenVars, listVars, threads, unread, incoming, asked, skewed>>

\* thread.updated: a chat that is gone is closed; the list is read again soon.
OnUpdated ==
    /\ events # <<>> /\ Head(events).event # "message"
    /\ events' = Tail(events)
    /\ active' = IF Head(events) = [event |-> "removed", thread |-> active] THEN Nobody ELSE active
    /\ timer' = TRUE
    /\ UNCHANGED <<serverVars, hidden, reading, rev, last, answers, outdated, threads, unread,
                   incoming, asked, skewed>>

\* onIncoming: a message of a chat that is not listed reads the list first.
OnMessage ==
    LET t == Head(events).thread
        new == [thread |-> t, step |-> IF t \in threads THEN "decoding" ELSE "listing",
                rev |-> IF t \in threads THEN 0 ELSE rev', fresh |-> FALSE, stale |-> FALSE]
    IN /\ events # <<>> /\ Head(events).event = "message"
       /\ events' = Tail(events)
       /\ IF t \in threads
          THEN UNCHANGED <<rev, last, answers, outdated>>
          ELSE LoadThreads(Crossing(answers, {t}))
       /\ new \notin incoming   \* bound: two equal runs are not told apart
       /\ incoming' = incoming \union {new}
       /\ UNCHANGED <<serverVars, screenVars, timer, threads, unread, asked, skewed>>

\* The chat's counter from the server already counts the message that had it listed.
Counted(i) == ~i.fresh /\ ~i.stale

\* markReadSoon: one timer for all chats.
MarkReadSoon(t, rs) == {r \in rs : r.step # "timer"} \union {[thread |-> t, step |-> "timer"]}
Forgotten(t, rs) == {r.thread : r \in {x \in rs : x.step = "timer" /\ x.thread # t}}

\* The message is decrypted: the chat on screen is marked as read soon, another one counts it.
Decrypted(i) ==
    LET t == i.thread
        onScreen == active = t /\ ~hidden
    IN /\ i.step = "decoding"
       /\ incoming' = incoming \ {i}
       /\ reading' = IF onScreen THEN MarkReadSoon(t, reading) ELSE reading
       /\ unread' = IF ~onScreen /\ Counted(i) /\ unread[t] < 2 * MaxArrivals
                    THEN [unread EXCEPT ![t] = @ + 1] ELSE unread
       /\ skewed' = skewed \union (IF i.stale THEN {t} ELSE {})
                      \union (IF onScreen THEN Forgotten(t, reading) ELSE {})
       /\ answers' = IF i.fresh THEN answers ELSE Crossing(answers, {t})
       /\ UNCHANGED <<serverVars, active, hidden, rev, last, timer, outdated, threads, events, asked>>

\* The socket closes: frames on their way are lost and the list is not read again.
Disconnected ==
    LET lost == {e.thread : e \in {x \in ToSet(events) : x.event = "message"}}
    IN /\ events # <<>>
       /\ events' = <<>> /\ outdated' = TRUE
       /\ skewed' = skewed \union lost
       /\ answers' = Crossing(answers, lost)
       /\ UNCHANGED <<serverVars, screenVars, rev, last, timer, threads, unread, incoming, asked>>

----------------------------------------------------------------------------
(* openThread, markReadSoon, backToList, markAllRead *)

ShowThread(t) ==
    /\ active' = t
    /\ reading' = reading \union {[thread |-> t, step |-> "opening"]}

PickThread(t) ==
    /\ t \in threads /\ active # t
    /\ ShowThread(t)
    /\ UNCHANGED <<serverVars, hidden, listVars, threads, unread, events, incoming, asked, skewed>>

\* The messages of the opened chat are there (or could not be read).
OpenedThread(r) ==
    /\ r.step = "opening"
    /\ reading' = MarkReadSoon(r.thread, reading \ {r})
    /\ skewed' = skewed \union Forgotten(r.thread, reading)
    /\ UNCHANGED <<serverVars, active, hidden, listVars, threads, unread, events, incoming, asked>>

BackToList ==
    /\ active # Nobody /\ active' = Nobody
    /\ UNCHANGED <<serverVars, hidden, reading, listVars, threads, unread, events, incoming,
                   asked, skewed>>

\* The tab comes back on the screen: the chat it shows is marked as read.
Visibility ==
    /\ hidden' = ~hidden
    /\ IF hidden /\ active # Nobody
       THEN reading' = MarkReadSoon(active, reading)
              /\ skewed' = skewed \union Forgotten(active, reading)
       ELSE UNCHANGED <<reading, skewed>>
    /\ UNCHANGED <<serverVars, active, listVars, threads, unread, events, incoming, asked>>

\* The timer fires: only the chat still on the screen is marked.  A message that came in
\* while it was is then counted nowhere.
ReadTimer(r) ==
    /\ r.step = "timer"
    /\ IF r.thread \in threads /\ ~hidden /\ active = r.thread
       THEN /\ unread' = [unread EXCEPT ![r.thread] = 0]
            /\ reading' = (reading \ {r}) \union {[r EXCEPT !.step = "post"]}
            /\ answers' = Crossing(answers, {r.thread})
            /\ UNCHANGED skewed
       ELSE /\ reading' = reading \ {r} /\ skewed' = skewed \union {r.thread}
            /\ UNCHANGED <<unread, answers>>
    /\ UNCHANGED <<serverVars, active, hidden, rev, last, timer, outdated, threads, events,
                   incoming, asked>>

MarkAllRead ==
    LET marked == {t \in threads : unread[t] > 0}
    IN /\ marked # {}
       /\ unread' = [t \in Threads |-> IF t \in marked THEN 0 ELSE unread[t]]
       /\ reading' = reading \union {[thread |-> t, step |-> "post"] : t \in marked}
       /\ answers' = Crossing(answers, marked)
       /\ UNCHANGED <<serverVars, active, hidden, rev, last, timer, outdated, threads, events,
                      incoming, asked, skewed>>

\* The server marks all it has as read, messages not counted here yet included.
ServerRead(r) ==
    /\ r.step = "post" /\ reading' = reading \ {r}
    /\ count' = [count EXCEPT ![r.thread] = 0]
    /\ skewed' = IF unread[r.thread] # 0
                      \/ (\E e \in ToSet(events) : e.thread = r.thread)
                      \/ (\E i \in incoming : i.thread = r.thread)
                 THEN skewed \union {r.thread} ELSE skewed
    /\ answers' = Crossing(answers, {r.thread})
    /\ UNCHANGED <<member, arrivals, changes, active, hidden, rev, last, timer, outdated, threads,
                   unread, events, incoming, asked>>

ReadFailed(r) ==
    /\ r.step = "post" /\ reading' = reading \ {r}
    /\ skewed' = skewed \union {r.thread}
    /\ answers' = Crossing(answers, {r.thread})
    /\ UNCHANGED <<serverVars, active, hidden, rev, last, timer, outdated, threads, unread, events,
                   incoming, asked>>

----------------------------------------------------------------------------
(* pickPerson, groupCreate, deleteThread *)

\* One request at a time for a chat.
AskFor(what, t) ==
    /\ \A q \in asked : q.thread # t
    /\ what = "leave" => t = active /\ t \in threads
    /\ asked' = asked \union {[what |-> what, thread |-> t, step |-> "sent"]}
    /\ UNCHANGED <<serverVars, screenVars, listVars, threads, unread, events, incoming, skewed>>

ServerDoes(q) ==
    /\ q.step = "sent"
    /\ asked' = (asked \ {q}) \union {[q EXCEPT !.step = "done"]}
    /\ member' = IF q.what = "create" THEN member \union {q.thread} ELSE member \ {q.thread}
    /\ count' = IF q.thread \in member THEN count ELSE [count EXCEPT ![q.thread] = 0]
    /\ answers' = Crossing(answers, {q.thread})
    /\ UNCHANGED <<arrivals, changes, screenVars, rev, last, timer, outdated, threads, unread, events,
                   incoming, skewed>>

\* The new chat is listed and opened; answers asked for before it are dropped.
CreateAnswered(q) ==
    /\ q.step = "done" /\ q.what = "create"
    /\ asked' = asked \ {q}
    /\ threads' = threads \union {q.thread}
    /\ unread' = IF q.thread \in threads THEN unread ELSE [unread EXCEPT ![q.thread] = 0]
    /\ skewed' = skewed \union {q.thread}
    /\ LoadThreads(answers) /\ ShowThread(q.thread)
    /\ UNCHANGED <<serverVars, hidden, timer, events, incoming>>

LeaveAnswered(q) ==
    /\ q.step = "done" /\ q.what = "leave"
    /\ asked' = asked \ {q}
    /\ threads' = threads \ {q.thread} /\ active' = Nobody
    /\ LoadThreads(answers)
    /\ UNCHANGED <<serverVars, hidden, reading, timer, unread, events, incoming, skewed>>

AskFailed(q) ==
    /\ asked' = asked \ {q}
    /\ outdated' = (outdated \/ q.step = "done")
    /\ UNCHANGED <<serverVars, screenVars, rev, last, answers, timer, threads, unread, events,
                   incoming, skewed>>

----------------------------------------------------------------------------
\* startApp asks for the list.
ThreadInit ==
    /\ member \in SUBSET Threads /\ count = [t \in Threads |-> 0] /\ arrivals = 0 /\ changes = 0
    /\ threads = {} /\ unread = [t \in Threads |-> 0] /\ active = Nobody /\ hidden = FALSE
    /\ rev = 1 /\ last = "asked" /\ answers = {Request(1, Nobody)} /\ timer = FALSE
    /\ events = <<>> /\ incoming = {} /\ reading = {} /\ asked = {}
    /\ skewed = {} /\ outdated = FALSE

ThreadNext ==
    \/ \E a \in answers : ReadAnswer(a) \/ ApplyThreads(a) \/ DropThreads(a) \/ RequestFailed(a)
                            \/ ApplyMembers(a)
    \/ ReloadTimer \/ (\E t \in Threads : LoadMembers(t))
    \/ \E t \in Threads : OthersWrite(t) \/ OthersInvite(t) \/ OthersRemove(t)
    \/ OnUpdated \/ OnMessage \/ (\E i \in incoming : Decrypted(i)) \/ Disconnected
    \/ (\E t \in Threads : PickThread(t)) \/ BackToList \/ Visibility \/ MarkAllRead
    \/ \E r \in reading : OpenedThread(r) \/ ReadTimer(r) \/ ServerRead(r) \/ ReadFailed(r)
    \/ \E t \in Threads, what \in {"create", "leave"} : AskFor(what, t)
    \/ \E q \in asked : ServerDoes(q) \/ CreateAnswered(q) \/ LeaveAnswered(q) \/ AskFailed(q)

ThreadSpec == ThreadInit /\ [][ThreadNext]_threadVars

----------------------------------------------------------------------------
Settled == answers = {} /\ ~timer /\ events = <<>> /\ incoming = {} /\ reading = {} /\ asked = {}

\* data.js:409: however answers overlap and in whatever order they come, once all have come
\* the list is the server's: a chat just opened does not disappear, one that was deleted
\* does not return; and the counters are the server's too, but for the chats whose counter
\* changed while an answer with the old one was on its way, or whose mark as read was given
\* up.  Excused while a frame, or the answer to the last request, was lost.
ThreadsCurrent == Settled /\ ~outdated =>
    /\ threads = member
    /\ \A t \in threads \ skewed : unread[t] = count[t]
=============================================================================
