----------------------------- MODULE MessageList ------------------------------
(***************************************************************************)
(* The messages of one chat in one tab (app/data.js): drafts and their     *)
(* queue, the POST of each, pages read from the server, message.new frames,*)
(* the encrypted cache, clearing and expiry.                               *)
(*                                                                         *)
(* The server is the log of what it stored.  A message is a number: the    *)
(* user's own are numbered in the order of sending, the peer's follow.     *)
(* The list is a set, for a saved message is placed by its number in the   *)
(* log and drafts come last; an answer, a frame and a decryption each take *)
(* a step of their own.                                                    *)
(***************************************************************************)
EXTENDS Naturals, Sequences, FiniteSets, SequencesExt

CONSTANTS
    MaxMine, MaxTheirs,   \* bounds: messages of the user and of the peer
    PageSize,             \* messages of one page
    MaxLoads              \* bound: pages being read at once

ASSUME MessageAssumption ==
    /\ MaxMine \in Nat /\ MaxTheirs \in Nat /\ PageSize \in Nat \ {0} /\ MaxLoads \in Nat

VARIABLES
    log,        \* the messages the server stored, oldest first
    cleared,    \* how many of them this user has cleared
    expired,    \* messages whose disappearing timer ran out
    list,       \* state.messagesByThread[id]: [msg, mark], mark "pending", "failed" or "saved"
    opened,     \* the list exists
    more,       \* state.hasMore: the number before which older pages are read, 0 for none
    cache,      \* S.cache[id]
    drafted,    \* how many messages the user has sent off
    queue,      \* messageSendQueues: drafts whose turn has not come
    posting,    \* the draft being sent: [msg, step]
    frames,     \* message.new frames on their way, in order
    decoding,   \* messages onIncoming is decrypting
    loads,      \* pages asked for
    clearing,   \* clearThread: "no", "sent" or "answered"
    missed      \* history: the list may lack or repeat a message until the next full read

messageVars == <<log, cleared, expired, list, opened, more, cache, drafted, queue, posting,
                 frames, decoding, loads, clearing, missed>>

Mine == 1 .. MaxMine
Theirs == MaxMine + 1 .. MaxMine + MaxTheirs
Msgs == Mine \union Theirs
Entry == [msg: Msgs, mark: {"pending", "failed", "saved"}]
\* late: something else changed the list after this page was read.
Load == [id: 1 .. MaxLoads, before: Nat, step: {"sent", "read"}, items: SUBSET Msgs, more: Nat,
         late: BOOLEAN]

MessageTypeOK ==
    /\ log \in Seq(Msgs) /\ IsInjective(log)
    /\ cleared \in 0 .. Len(log) /\ expired \subseteq ToSet(log)
    /\ list \subseteq Entry /\ opened \in BOOLEAN /\ (list # {} => opened)
    /\ more \in 0 .. Len(log) /\ cache \subseteq Entry /\ drafted \in 0 .. MaxMine
    /\ queue \in Seq(1 .. drafted)
    /\ posting \subseteq [msg: 1 .. drafted, step: {"seal", "post", "answer"}]
    /\ frames \in Seq(ToSet(log)) /\ decoding \subseteq ToSet(log)
    /\ loads \subseteq Load /\ clearing \in {"no", "sent", "answered"} /\ missed \in BOOLEAN

\* The entries of a set of messages that carry one mark.
As(mark, ms) == {[msg |-> m, mark |-> mark] : m \in ms}
Of(ms) == {e \in list : e.msg \in ms}
Marked(mark) == {e \in list : e.mark = mark}
Shown == {e.msg : e \in Marked("saved")}
Number(m) == CHOOSE i \in DOMAIN log : log[i] = m

\* History: is a message in the part of the log that the list stands for?
Belongs(m) == Number(m) > cleared /\ Number(m) >= more

\* cacheMessages: everything but the drafts on their way (bound: CACHE_PER_THREAD is
\* larger than any list here, and every message can be decrypted).
CacheMessages(l) == cache' = {e \in l : e.mark # "pending"}

\* The pages that read the log before the list changed, and those that continue a list
\* that is there no longer.
Overtaken(ls) == {IF l.step = "read" \/ l.before # 0 THEN [l EXCEPT !.late = TRUE] ELSE l : l \in ls}

----------------------------------------------------------------------------
(* openThread, loadOlder, loadMessages *)

\* A request for the page before a number, 0 for the newest one.
Ask(before) ==
    \E i \in 1 .. MaxLoads :
        /\ \A l \in loads : l.id # i
        /\ loads' = loads \union {[id |-> i, before |-> before, step |-> "sent",
                                   items |-> {}, more |-> 0, late |-> FALSE]}

\* The cached history is shown at once, then the newest page is asked for.
OpenThread ==
    /\ IF opened \/ cache = {}
       THEN UNCHANGED <<list, opened, missed>>
       ELSE list' = cache /\ opened' = TRUE /\ missed' = TRUE
    /\ Ask(0)
    /\ UNCHANGED <<log, cleared, expired, more, cache, drafted, queue, posting, frames,
                   decoding, clearing>>

\* loadOlder: one at a time, while the last page said that there is more.
LoadOlder ==
    /\ more # 0 /\ \A l \in loads : l.before = 0
    /\ Ask(more)
    /\ UNCHANGED <<log, cleared, expired, list, opened, more, cache, drafted, queue, posting,
                   frames, decoding, clearing, missed>>

\* The server takes a page after what the user cleared and drops what has expired from it,
\* so that a page with an expired message looks like the last one: the flag "late" also
\* stands for such a page.
ReadPage(l) ==
    LET last == IF l.before = 0 THEN Len(log) ELSE l.before - 1
        page == {i \in cleared + 1 .. last : i > last - PageSize}
        kept == {i \in page : log[i] \notin expired}
        first == CHOOSE i \in kept : \A j \in kept : i <= j
    IN /\ l.step = "sent"
       /\ loads' = (loads \ {l}) \union
            {[l EXCEPT !.step = "read", !.items = {log[i] : i \in kept},
                       !.more = IF Cardinality(kept) = PageSize /\ first > 1 THEN first ELSE 0,
                       !.late = l.late \/ kept # page]}
       /\ UNCHANGED <<log, cleared, expired, list, opened, more, cache, drafted, queue, posting,
                      frames, decoding, clearing, missed>>

\* Mutant for ListIsTheLog: an older page replaces the list too.
MergedAnew(l) == Marked("pending") \union As("saved", l.items)

\* What loadMessages makes of the list: the newest page replaces all but the drafts on
\* their way, an older page is added to it.
Merged(l) ==
    (IF l.before = 0 THEN Marked("pending") ELSE list) \union As("saved", l.items)

\* The page has been decrypted: loadMessages replaces the list.
ApplyPage(l) ==
    /\ l.step = "read"
    /\ list' = Merged(l)
    /\ opened' = TRUE /\ more' = l.more
    /\ CacheMessages(list')
    /\ loads' = Overtaken(loads \ {l})
    /\ missed' = (l.late \/ (missed /\ l.before # 0))
    /\ UNCHANGED <<log, cleared, expired, drafted, queue, posting, frames, decoding, clearing>>

LoadFailed(l) ==
    /\ loads' = loads \ {l}
    /\ UNCHANGED <<log, cleared, expired, list, opened, more, cache, drafted, queue, posting,
                   frames, decoding, clearing, missed>>

----------------------------------------------------------------------------
(* send, enqueueMessageBatch, sendText, sendFile, postPacket *)

\* addPendingMessage and the place in the queue.
Send ==
    /\ drafted < MaxMine
    /\ drafted' = drafted + 1
    /\ list' = list \union As("pending", {drafted'})
    /\ opened' = TRUE /\ missed' = (missed \/ ~opened)
    /\ queue' = Append(queue, drafted')
    /\ UNCHANGED <<log, cleared, expired, more, cache, posting, frames, decoding, loads, clearing>>

\* A draft is sent when the one before it has been settled.
TurnComes == posting = {}

StartPosting ==
    /\ queue # <<>> /\ TurnComes
    /\ posting' = posting \union {[msg |-> Head(queue), step |-> "seal"]}
    /\ queue' = Tail(queue)
    /\ UNCHANGED <<log, cleared, expired, list, opened, more, cache, drafted, frames, decoding,
                   loads, clearing, missed>>

\* sealPacket (and encryptAndUpload before it, for a file) succeeds.
Sealed(p) ==
    /\ p.step = "seal"
    /\ posting' = (posting \ {p}) \union {[p EXCEPT !.step = "post"]}
    /\ UNCHANGED <<log, cleared, expired, list, opened, more, cache, drafted, queue, frames,
                   decoding, loads, clearing, missed>>

\* The server stores a message and tells the open sockets of its members.
Store(m) == log' = Append(log, m) /\ frames' = Append(frames, m)

Stored(p) ==
    /\ p.step = "post"
    /\ Store(p.msg)
    /\ posting' = (posting \ {p}) \union {[p EXCEPT !.step = "answer"]}
    /\ UNCHANGED <<cleared, expired, list, opened, more, cache, drafted, queue, decoding, loads,
                   clearing, missed>>

\* Mutant for DraftsSettle: only a copy with the server's id is replaced.
ReplacedById(m) == list \union As("saved", {m})

\* replaceLocal: neither the draft nor an earlier copy of the message stays.
Replaced(m) == (list \ Of({m})) \union As("saved", {m})

PostAnswered(p) ==
    /\ p.step = "answer"
    /\ list' = Replaced(p.msg)
    /\ opened' = TRUE /\ missed' = (missed \/ ~opened \/ ~Belongs(p.msg))
    /\ CacheMessages(list')
    /\ loads' = Overtaken(loads)
    /\ posting' = posting \ {p}
    /\ UNCHANGED <<log, cleared, expired, more, drafted, queue, frames, decoding, clearing>>

\* Sealing, the upload, the request or its answer fails: the draft, if it still is in the
\* list, is marked.  A lost answer may leave a stored message marked so.
PostFailed(p) ==
    LET draft == Of({p.msg}) \intersect Marked("pending")
    IN /\ list' = (list \ draft) \union {[e EXCEPT !.mark = "failed"] : e \in draft}
       /\ missed' = (missed \/ (draft # {} /\ p.step = "answer"))
       /\ posting' = posting \ {p} /\ loads' = Overtaken(loads)
       /\ UNCHANGED <<log, cleared, expired, opened, more, cache, drafted, queue, frames,
                      decoding, clearing>>

----------------------------------------------------------------------------
(* message.new: onIncoming *)

PeerSends ==
    /\ \E m \in Theirs \ ToSet(log) : (\A n \in Theirs \ ToSet(log) : m <= n) /\ Store(m)
    /\ UNCHANGED <<cleared, expired, list, opened, more, cache, drafted, queue, posting,
                   decoding, loads, clearing, missed>>

\* A message is known when it is in the list under its id, or under its client id and no
\* longer on its way: a failed draft counts.
Seen(m) == \E e \in Of({m}) : e.mark # "pending"

Receive ==
    /\ frames # <<>>
    /\ frames' = Tail(frames)
    /\ decoding' = decoding \union (IF Seen(Head(frames)) THEN {} ELSE {Head(frames)})
    /\ UNCHANGED <<log, cleared, expired, list, opened, more, cache, drafted, queue, posting,
                   loads, clearing, missed>>

\* Mutant for TypeOK: a chat never opened gets a list of one message.
KnownAlready(m) == Seen(m)

\* A chat never opened keeps no list.
NotWanted(m) == Seen(m) \/ ~opened

\* Decrypting took a while: the list is looked at again, and takes the message in the
\* place of its draft.
Decoded(m) ==
    /\ m \in decoding
    /\ decoding' = decoding \ {m}
    /\ IF NotWanted(m)
       THEN UNCHANGED <<list, cache, missed>>
       ELSE list' = Replaced(m) /\ CacheMessages(list') /\ missed' = (missed \/ ~Belongs(m))
    /\ loads' = Overtaken(loads)
    /\ UNCHANGED <<log, cleared, expired, opened, more, drafted, queue, posting, frames,
                   clearing>>

\* The socket closes: what was on its way is lost, and nothing reads it again when the
\* socket is back (ws.js; message.new is not repeated).
Disconnect ==
    /\ frames # <<>>
    /\ frames' = <<>>
    /\ missed' = TRUE /\ loads' = Overtaken(loads)
    /\ UNCHANGED <<log, cleared, expired, list, opened, more, cache, drafted, queue, posting,
                   decoding, clearing>>

----------------------------------------------------------------------------
(* clearThread, purgeExpired, a reload of the page *)

ClearThread ==
    /\ clearing = "no" /\ cleared < Len(log)
    /\ clearing' = "sent"
    /\ UNCHANGED <<log, cleared, expired, list, opened, more, cache, drafted, queue, posting,
                   frames, decoding, loads, missed>>

ServerClears ==
    /\ clearing = "sent"
    /\ cleared' = Len(log) /\ clearing' = "answered"
    /\ loads' = Overtaken(loads)
    /\ UNCHANGED <<log, expired, list, opened, more, cache, drafted, queue, posting, frames,
                   decoding, missed>>

\* The list is emptied, drafts included; what is still on its way, or came since the
\* server's answer, makes it differ from the log.
Cleared ==
    /\ clearing = "answered"
    /\ clearing' = "no"
    /\ list' = {} /\ opened' = TRUE /\ cache' = {}
    /\ loads' = Overtaken(loads)
    /\ missed' = (missed \/ cleared < Len(log) \/ frames # <<>> \/ decoding # {} \/ posting # {})
    /\ UNCHANGED <<log, cleared, expired, more, drafted, queue, posting, frames, decoding>>

ClearFailed ==
    /\ clearing # "no"
    /\ clearing' = "no"
    /\ missed' = TRUE
    /\ UNCHANGED <<log, cleared, expired, list, opened, more, cache, drafted, queue, posting,
                   frames, decoding, loads>>

Expire(m) ==
    /\ m \in ToSet(log) \ expired
    /\ expired' = expired \union {m}
    /\ UNCHANGED <<log, cleared, list, opened, more, cache, drafted, queue, posting, frames,
                   decoding, loads, clearing, missed>>

\* purgeExpired, every five seconds.
PurgeExpired ==
    /\ expired \intersect Shown # {}
    /\ list' = list \ As("saved", expired)
    /\ CacheMessages(list')
    /\ UNCHANGED <<log, cleared, expired, opened, more, drafted, queue, posting, frames,
                   decoding, loads, clearing, missed>>

\* The page is reloaded and unlocked: only the cache, of all this, was in the vault.
ReloadPage ==
    /\ opened
    /\ list' = {} /\ opened' = FALSE /\ more' = 0
    /\ queue' = <<>> /\ posting' = {} /\ frames' = <<>> /\ decoding' = {} /\ loads' = {}
    /\ clearing' = "no" /\ missed' = FALSE
    /\ UNCHANGED <<log, cleared, expired, cache, drafted>>

----------------------------------------------------------------------------
MessageInit ==
    /\ log = <<>> /\ cleared = 0 /\ expired = {}
    /\ list = {} /\ opened = FALSE /\ more = 0 /\ cache = {} /\ drafted = 0
    /\ queue = <<>> /\ posting = {} /\ frames = <<>> /\ decoding = {} /\ loads = {}
    /\ clearing = "no" /\ missed = FALSE

MessageNext ==
    \/ OpenThread \/ LoadOlder
    \/ \E l \in loads : ReadPage(l) \/ ApplyPage(l) \/ LoadFailed(l)
    \/ Send \/ StartPosting
    \/ \E p \in posting : Sealed(p) \/ Stored(p) \/ PostAnswered(p) \/ PostFailed(p)
    \/ PeerSends \/ Receive \/ (\E m \in decoding : Decoded(m)) \/ Disconnect
    \/ ClearThread \/ ServerClears \/ Cleared \/ ClearFailed
    \/ (\E m \in Msgs : Expire(m)) \/ PurgeExpired \/ ReloadPage

MessageSpec == MessageInit /\ [][MessageNext]_messageVars

----------------------------------------------------------------------------
(* What the list promises *)

AtRest == opened /\ loads = {} /\ queue = <<>> /\ posting = {} /\ frames = <<>>
            /\ decoding = {} /\ clearing = "no"

\* Once everything asked for has arrived, the list is the log from the number hasMore
\* gives on (all of it when hasMore is empty), without what was cleared or has expired:
\* no hole, nothing that was cleared.  Excused, until the newest page is read again, are
\* the races the code accepts: a page overtaken by a frame, an answer or another page, a
\* lost frame, a lost answer, a failed clear, a page with an expired message in it.
ListIsTheLog ==
    AtRest /\ ~missed =>
        Shown \ expired = {log[i] : i \in {j \in DOMAIN log : j > cleared /\ j >= more}} \ expired

\* A message is never left in the list twice, as a draft beside the message it became;
\* and no draft is left waiting when nothing is being sent (data.js: the draft that would
\* come back if onIncoming used the list it saw before decrypting).
NoStaleDraft ==
    AtRest => /\ Marked("pending") = {}
              /\ missed \/ \A e \in Marked("failed") : e.msg \notin ToSet(log)

\* The server stores the user's messages in the order they were sent, whatever fails.
SentInOrder ==
    \A i, j \in DOMAIN log : i < j /\ log[i] \in Mine /\ log[j] \in Mine => log[i] < log[j]

\* What becomes of the drafts.
DraftsSettle == NoStaleDraft /\ SentInOrder
=============================================================================
