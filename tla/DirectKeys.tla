------------------------------ MODULE DirectKeys ------------------------------
(***************************************************************************)
(* The keys of a direct chat: sendKey, convKey and createDmKey of          *)
(* app/data.js in the clients of both members, and the server's            *)
(* upload_conversation_keys, one epoch after another.                      *)
(*                                                                         *)
(* A send keeps the object of the chat it began with; loadThreads puts a   *)
(* new one into the list.  own is Live for a send whose object is the one  *)
(* listed, and the key epoch of its own object otherwise.                  *)
(***************************************************************************)
EXTENDS Integers, FiniteSets

CONSTANTS
    Members,     \* the two members of the chat
    Slots,       \* bound: sends of a member at the same time
    NoKey,
    MaxDirectEpoch, MaxMade, MaxLosses,   \* bounds: epochs, keys made by a member, answers lost
    MaxKeyResets                          \* bound: resets of keys, of both

ASSUME DirectAssumption ==
    /\ Cardinality(Members) = 2
    /\ {MaxDirectEpoch, MaxMade, MaxLosses, MaxKeyResets} \subseteq Nat
    /\ NoKey \notin Members \X Nat

VARIABLES
    stored,   \* the server: stored[e] is the key of an epoch, the versions it is wrapped
              \* for and (history) those of the moment it was accepted
    current,  \* threads.key_epoch
    sent,     \* the messages accepted: epoch and key
    ver,      \* the member's active key set; the client's is the same
    held,     \* S.convKeys of the client
    made,     \* keys a member has made so far
    listed,   \* keyEpoch of the object in the list
    frames,   \* key.rotation frames on their way
    reload,   \* loadThreads: the key epoch answered and not yet applied
    send,     \* send[u][s]: a send and where it is
    losses

directVars == <<stored, current, sent, ver, held, made, listed, frames, reload, send, losses>>
serverVars == <<stored, current, sent, ver>>

E == 1 .. MaxDirectEpoch
Live == -1
Quiet == -1
Free == [pc |-> "free"]
Keys == Members \X (1 .. MaxMade)
Unset == [key |-> NoKey, for |-> [u \in Members |-> 0], at |-> [u \in Members |-> 0]]

DirectTypeOK ==
    /\ stored \in [E -> [key : Keys \union {NoKey}, for : [Members -> 0 .. MaxKeyResets], at : [Members -> 0 .. MaxKeyResets]]]
    /\ current \in 0 .. MaxDirectEpoch
    /\ sent \subseteq [epoch : E, key : Keys]
    /\ ver \in [Members -> 0 .. MaxKeyResets] /\ made \in [Members -> 0 .. MaxMade]
    /\ held \in [Members -> [E -> Keys \union {NoKey}]]
    /\ listed \in [Members -> 0 .. MaxDirectEpoch]
    /\ frames \in [Members -> SUBSET E]
    /\ reload \in [Members -> {Quiet} \union 0 .. MaxDirectEpoch]
    /\ \A u \in Members, s \in Slots :
          send[u][s].pc \in {"free", "queued", "fetch", "create", "peer", "posted", "stale", "sealed"}
    /\ losses \in 0 .. MaxLosses

----------------------------------------------------------------------------
(* The object of the chat *)

EpochOf(u, s) == IF send[u][s].own = Live THEN listed[u] ELSE send[u][s].own

\* t.keyEpoch = e, on the object the send has.
SetEpoch(u, s, e) == listed' = IF send[u][s].own = Live THEN [listed EXCEPT ![u] = e] ELSE listed

At(u, s, pc) == send[u][s].pc = pc
Move(u, s, task) == send' = [send EXCEPT ![u][s] = task]
Go(u, s, pc) == Move(u, s, [send[u][s] EXCEPT !.pc = pc])

----------------------------------------------------------------------------
(* A send *)

\* sealPacket: the key is asked for.
StartSend(u, s) ==
    /\ At(u, s, "free")
    /\ Move(u, s, [pc |-> "queued", own |-> Live])
    /\ UNCHANGED <<serverVars, held, made, listed, frames, reload, losses>>

\* keyQueue: one sendKeyNow of a chat at a time.
QueueFree(u) == \A s \in Slots : send[u][s].pc \in {"free", "queued", "sealed"}

\* One turn of the loop of sendKeyNow: the first epoch is made, a key at hand is used, the
\* others are fetched.
Turn(u, s, e, again) ==
    LET task == [pc |-> "fetch", own |-> send[u][s].own, again |-> again, epoch |-> e, key |-> NoKey]
    IN IF e = 0 THEN [task EXCEPT !.pc = "create", !.epoch = 1]
       ELSE IF held[u][e] # NoKey THEN [task EXCEPT !.pc = "sealed", !.key = held[u][e]]
       ELSE task

TakeTurn(u, s) ==
    /\ At(u, s, "queued") /\ QueueFree(u)
    /\ Move(u, s, Turn(u, s, EpochOf(u, s), FALSE))
    /\ UNCHANGED <<serverVars, held, made, listed, frames, reload, losses>>

\* convKey: what is wrapped for another identity key does not open.
Opens(u) == {e \in E : e <= current /\ stored[e].for[u] = ver[u]}

\* Mutant for OneEpochUntilReset: the answer of the server is not looked at.
Cached(u) == held[u]

Fetched(u) == [e \in E |-> IF held[u][e] = NoKey /\ e \in Opens(u) THEN stored[e].key ELSE held[u][e]]

Fetch(u, s) ==
    /\ At(u, s, "fetch")
    /\ held' = [held EXCEPT ![u] = Fetched(u)]
    /\ LET task == send[u][s]
           key == held'[u][task.epoch]
       IN Move(u, s, IF key = NoKey THEN [task EXCEPT !.pc = "create", !.epoch = EpochOf(u, s) + 1]
                     ELSE [task EXCEPT !.pc = "sealed", !.key = key])
    /\ UNCHANGED <<serverVars, made, listed, frames, reload, losses>>

\* decodeMessage fetches keys as well, outside the queue.
Decode(u) ==
    /\ held[u] # Fetched(u)
    /\ held' = [held EXCEPT ![u] = Fetched(u)]
    /\ UNCHANGED <<serverVars, made, listed, frames, reload, send, losses>>

\* Mutant for KeysAgree: the new key is kept before the server has accepted it.
KeepEarly(u, e, key) == held' = [held EXCEPT ![u][e] = key]
KeepLater(u, e, key) == held' = held

\* createDmKey: the peer's identity key, then the new key wrapped for both.
AskPeer(u, s) ==
    /\ At(u, s, "create") /\ made[u] < MaxMade /\ send[u][s].epoch <= MaxDirectEpoch
    /\ made' = [made EXCEPT ![u] = @ + 1]
    /\ LET task == send[u][s]
       IN /\ Move(u, s, [pc |-> "peer", own |-> task.own, again |-> task.again,
                         epoch |-> task.epoch, key |-> <<u, made'[u]>>, for |-> ver])
          /\ KeepLater(u, task.epoch, <<u, made'[u]>>)
    /\ UNCHANGED <<serverVars, listed, frames, reload, losses>>

\* Mutant for MessagesReadable: an epoch made with an old identity key of the peer is taken.
AnyVersion(task) == task.epoch = current + 1

\* upload_conversation_keys: the next epoch, wrapped for the active key sets.
Accepted(task) == task.epoch = current + 1 /\ task.for = ver

PostKeys(u, s) ==
    LET task == send[u][s]
    IN /\ At(u, s, "peer")
       /\ IF Accepted(task)
          THEN /\ stored' = [stored EXCEPT ![task.epoch] = [key |-> task.key, for |-> task.for, at |-> ver]]
               /\ current' = task.epoch
               /\ frames' = [v \in Members |-> frames[v] \union {task.epoch}]
               /\ Go(u, s, "posted")
          ELSE /\ UNCHANGED <<stored, current, frames>>
               /\ Move(u, s, IF task.epoch # current + 1 /\ ~task.again
                             THEN [pc |-> "stale", own |-> task.own] ELSE Free)
       /\ UNCHANGED <<sent, ver, held, made, listed, reload, losses>>

KeysPosted(u, s) ==
    LET task == send[u][s]
    IN /\ At(u, s, "posted")
       /\ held' = [held EXCEPT ![u][task.epoch] = task.key]
       /\ SetEpoch(u, s, task.epoch)
       /\ Go(u, s, "sealed")
       /\ UNCHANGED <<serverVars, made, frames, reload, losses>>

\* The answer is lost: the send fails, the epoch stays.
AnswerLost(u, s) ==
    /\ At(u, s, "posted") /\ losses < MaxLosses
    /\ losses' = losses + 1 /\ Move(u, s, Free)
    /\ UNCHANGED <<serverVars, held, made, listed, frames, reload>>

\* stale_epoch, the first time: loadMembers refreshes the object listed by now, and the send
\* tries again with the object it has.
Refresh(u, s) ==
    /\ At(u, s, "stale")
    /\ listed' = [listed EXCEPT ![u] = current]
    /\ Move(u, s, Turn(u, s, IF send[u][s].own = Live THEN current ELSE send[u][s].own, TRUE))
    /\ UNCHANGED <<serverVars, held, made, frames, reload, losses>>

\* The message is posted: this epoch and the one before are accepted.
PostMessage(u, s) ==
    LET task == send[u][s]
    IN /\ At(u, s, "sealed")
       /\ sent' = IF task.epoch \in {current, current - 1}
                  THEN sent \union {[epoch |-> task.epoch, key |-> task.key]} ELSE sent
       /\ Move(u, s, Free)
       /\ UNCHANGED <<stored, current, ver, held, made, listed, frames, reload, losses>>

----------------------------------------------------------------------------
(* Frames, loadThreads and resets *)

Frame(u, e) ==
    /\ e \in frames[u]
    /\ frames' = [frames EXCEPT ![u] = @ \ {e}]
    /\ listed' = [listed EXCEPT ![u] = IF e > @ THEN e ELSE @]
    /\ UNCHANGED <<serverVars, held, made, reload, send, losses>>

AskThreads(u) ==
    /\ reload[u] = Quiet
    /\ reload' = [reload EXCEPT ![u] = current]
    /\ UNCHANGED <<serverVars, held, made, listed, frames, send, losses>>

\* The list is replaced by new objects with what was answered.
ApplyThreads(u) ==
    /\ reload[u] # Quiet
    /\ listed' = [listed EXCEPT ![u] = reload[u]]
    /\ reload' = [reload EXCEPT ![u] = Quiet]
    /\ send' = [send EXCEPT ![u] = [s \in Slots |->
                  IF @[s] # Free /\ @[s].own = Live THEN [@[s] EXCEPT !.own = listed[u]] ELSE @[s]]]
    /\ UNCHANGED <<serverVars, held, made, frames, losses>>

\* publishNewKeys, in a page that has just logged in.
ResetKeys(u) ==
    /\ ver[u] < MaxKeyResets /\ \A v \in Members \ {u} : ver[u] + ver[v] < MaxKeyResets
    /\ ver' = [ver EXCEPT ![u] = @ + 1]
    /\ held' = [held EXCEPT ![u] = [e \in E |-> NoKey]]
    /\ send' = [send EXCEPT ![u] = [s \in Slots |-> Free]]
    /\ listed' = [listed EXCEPT ![u] = current]
    /\ reload' = [reload EXCEPT ![u] = Quiet] /\ frames' = [frames EXCEPT ![u] = {}]
    /\ UNCHANGED <<stored, current, sent, made, losses>>

DirectInit ==
    /\ stored = [e \in E |-> Unset] /\ current = 0 /\ sent = {}
    /\ ver = [u \in Members |-> 0] /\ made = [u \in Members |-> 0]
    /\ held = [u \in Members |-> [e \in E |-> NoKey]]
    /\ listed = [u \in Members |-> 0] /\ frames = [u \in Members |-> {}]
    /\ reload = [u \in Members |-> Quiet]
    /\ send = [u \in Members |-> [s \in Slots |-> Free]] /\ losses = 0

DirectNext ==
    \E u \in Members :
      \/ \E s \in Slots :
           \/ StartSend(u, s) \/ TakeTurn(u, s) \/ Fetch(u, s)
           \/ AskPeer(u, s) \/ PostKeys(u, s) \/ KeysPosted(u, s) \/ AnswerLost(u, s)
           \/ Refresh(u, s) \/ PostMessage(u, s)
      \/ Decode(u) \/ (\E e \in E : Frame(u, e))
      \/ AskThreads(u) \/ ApplyThreads(u) \/ ResetKeys(u)

DirectSpec == DirectInit /\ [][DirectNext]_directVars

----------------------------------------------------------------------------
\* Two members who write at once, answers that are lost and keys made for nothing: a client
\* never keeps a key of an epoch other than the one the server hands out for it.
KeysAgree == \A u \in Members, e \in E : held[u][e] \in {NoKey, stored[e].key}

\* An accepted message can be opened with what the server hands out, by every member whose
\* keys are still those of the moment its epoch was accepted: a member who resets while the
\* other wraps the new key is never left out of the epoch.
MessagesReadable ==
    \A m \in sent : m.key = stored[m.epoch].key
                     /\ \A u \in Members : stored[m.epoch].at[u] = ver[u] => m.epoch \in Opens(u)

\* An epoch after the first is made only for keys that were reset: not because both members
\* write first, an answer is lost, or the list of chats is older than the chat.
OneEpochUntilReset == (\A u \in Members : ver[u] = 0) => current <= 1
=============================================================================
