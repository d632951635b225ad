--------------------------- MODULE DirectKeysProofs ---------------------------
(***************************************************************************)
(* Proofs about the keys of a direct chat, for any number of sends at once, *)
(* of epochs, of keys made, of answers lost and of resets.                  *)
(*                                                                         *)
(* None of the three properties is inductive.  They say nothing of what is  *)
(* on its way: of the key a send has sealed with, of one posted and not yet *)
(* answered, of the epoch a list of chats was read with.  KeyInv adds that  *)
(* all of these are epochs the server knows, with the server's keys, that   *)
(* an epoch is written once (the one after the current has no key yet), and *)
(* that, as long as nobody has reset, only epoch 1 is ever being made.      *)
(***************************************************************************)
EXTENDS DirectKeys, TLAPS

Own == {Live} \union 0 .. MaxDirectEpoch
Versions == [Members -> 0 .. MaxKeyResets]
Waiting == [pc : {"queued", "stale"}, own : Own]
Looking == [pc : {"fetch", "create", "sealed"}, own : Own, again : BOOLEAN,
            epoch : 1 .. (MaxDirectEpoch + 1), key : Keys \union {NoKey}]
Making == [pc : {"peer", "posted", "sealed"}, own : Own, again : BOOLEAN,
           epoch : E, key : Keys, for : Versions]
Tasks == {Free} \union Waiting \union Looking \union Making

FirstKeys == \A u \in Members : ver[u] = 0

(* What a send knows. *)
Sound(t) ==
    /\ t.pc # "free" => t.own <= current
    /\ t.pc = "fetch" => t.epoch <= current
    /\ t.pc \in {"posted", "sealed"} => t.epoch <= current /\ t.key = stored[t.epoch].key
    /\ t.pc \in {"create", "peer"} /\ FirstKeys => t.epoch = 1

SendsSound ==
    /\ send \in [Members -> [Slots -> Tasks]]
    /\ \A u \in Members, s \in Slots : Sound(send[u][s])

ServerTypes ==
    /\ stored \in [E -> [key : Keys \union {NoKey}, for : Versions, at : Versions]]
    /\ current \in 0 .. MaxDirectEpoch
    /\ sent \subseteq [epoch : E, key : Keys]
    /\ ver \in Versions

ServerSound ==
    /\ \A e \in E : e > current => stored[e].key = NoKey
    /\ \A e \in E : e <= current => stored[e].key \in Keys /\ stored[e].for = stored[e].at
    /\ \A e \in E, u \in Members : stored[e].for[u] <= ver[u]
    /\ \A m \in sent : m.epoch <= current /\ m.key = stored[m.epoch].key
    /\ FirstKeys => current <= 1

ClientTypes ==
    /\ made \in [Members -> 0 .. MaxMade]
    /\ held \in [Members -> [E -> Keys \union {NoKey}]]
    /\ listed \in [Members -> 0 .. MaxDirectEpoch]
    /\ frames \in [Members -> SUBSET E]
    /\ reload \in [Members -> {Quiet} \union 0 .. MaxDirectEpoch]
    /\ losses \in 0 .. MaxLosses

ClientSound ==
    /\ KeysAgree
    /\ \A u \in Members : listed[u] <= current /\ reload[u] <= current
    /\ \A u \in Members : \A e \in frames[u] : e <= current

KeyInv == ServerTypes /\ ServerSound /\ ClientTypes /\ ClientSound /\ SendsSound

USE DirectAssumption

----------------------------------------------------------------------------
(* Kinds of tasks *)

LEMMA NoKeyIsNone == NoKey \notin Keys
  BY DEF Keys

LEMMA Kinds ==
    ASSUME NEW t \in Tasks
    PROVE  /\ t.pc = "free" <=> t = Free
           /\ t.pc \in {"queued", "stale"} => t \in Waiting
           /\ t.pc \in {"fetch", "create"} => t \in Looking
           /\ t.pc \in {"peer", "posted"} => t \in Making
           /\ t.pc \in {"free", "queued", "fetch", "create", "peer", "posted", "stale", "sealed"}
           /\ t.pc # "free" => t.own \in Own
           /\ t.pc = "sealed" => t \in Looking \/ t \in Making
<1>1. CASE t = Free
  BY <1>1 DEF Free
<1>2. CASE t \in Waiting
  BY <1>2 DEF Waiting, Free
<1>3. CASE t \in Looking
  BY <1>3 DEF Looking, Free
<1>4. CASE t \in Making
  BY <1>4 DEF Making, Free
<1> QED BY <1>1, <1>2, <1>3, <1>4 DEF Tasks

(* A send that makes the next epoch, as the one it looked for does not open. *)
LEMMA NextLook ==
    ASSUME NEW x \in Looking, NEW n \in 1 .. (MaxDirectEpoch + 1)
    PROVE  LET t == [x EXCEPT !.pc = "create", !.epoch = n]
           IN t \in Looking /\ t.pc = "create" /\ t.own = x.own
  BY DEF Looking

(* A send that goes from one task to another. *)
LEMMA MoveStep ==
    ASSUME KeyInv, NEW u \in Members, NEW s \in Slots, NEW t \in Tasks,
           Move(u, s, t), Sound(t), UNCHANGED serverVars
    PROVE  SendsSound'
<1>1. send' = [send EXCEPT ![u][s] = t] /\ UNCHANGED <<stored, current, sent, ver>>
  BY DEF Move, serverVars
<1>2. send' \in [Members -> [Slots -> Tasks]]
  BY <1>1 DEF KeyInv, SendsSound
<1>3. ASSUME NEW v \in Members, NEW r \in Slots PROVE Sound(send[v][r])'
  <2>1. send'[v][r] = IF v = u /\ r = s THEN t ELSE send[v][r]
    BY <1>1 DEF KeyInv, SendsSound
  <2>2. Sound(send[v][r])
    BY DEF KeyInv, SendsSound
  <2> QED BY <1>1, <2>1, <2>2 DEF Sound, FirstKeys
<1> QED BY <1>2, <1>3 DEF SendsSound

(* What the server has is as it was. *)
LEMMA ServerStays ==
    ASSUME KeyInv, UNCHANGED serverVars
    PROVE  ServerTypes' /\ ServerSound'
  BY DEF KeyInv, ServerTypes, ServerSound, FirstKeys, serverVars

(* So is what a client has. *)
LEMMA ClientStays ==
    ASSUME KeyInv, UNCHANGED serverVars, UNCHANGED <<held, made, listed, frames, reload, losses>>
    PROVE  ClientTypes' /\ ClientSound'
  BY DEF KeyInv, ClientTypes, ClientSound, KeysAgree, serverVars

(* The epoch of the object a send has. *)
LEMMA EpochType ==
    ASSUME KeyInv, NEW u \in Members, NEW s \in Slots, send[u][s].pc # "free"
    PROVE  EpochOf(u, s) \in 0 .. MaxDirectEpoch /\ EpochOf(u, s) <= current
<1>1. send[u][s] \in Tasks /\ Sound(send[u][s])
  BY DEF KeyInv, SendsSound
<1>2. send[u][s].own \in Own /\ send[u][s].own <= current
  BY <1>1, Kinds DEF Sound
<1> QED BY <1>2 DEF EpochOf, Own, KeyInv, ClientTypes, ClientSound

(* A turn of the loop of sendKeyNow. *)
LEMMA TurnStep ==
    ASSUME KeyInv, NEW u \in Members, NEW s \in Slots, send[u][s].pc \in {"queued", "stale"},
           NEW e \in 0 .. MaxDirectEpoch, e <= current, NEW again \in BOOLEAN
    PROVE  Turn(u, s, e, again) \in Tasks /\ Sound(Turn(u, s, e, again))
<1>1. send[u][s].own \in Own /\ send[u][s].own <= current
  BY Kinds DEF KeyInv, SendsSound, Sound
<1> DEFINE own == send[u][s].own
           task == [pc |-> "fetch", own |-> own, again |-> again, epoch |-> e, key |-> NoKey]
<1>2. CASE e = 0
  <2>1. Turn(u, s, e, again) = [pc |-> "create", own |-> own, again |-> again, epoch |-> 1, key |-> NoKey]
    BY <1>2 DEF Turn
  <2> QED BY <1>1, <2>1 DEF Tasks, Looking, Sound
<1>3. CASE e # 0 /\ held[u][e] # NoKey
  <2>1. Turn(u, s, e, again) = [pc |-> "sealed", own |-> own, again |-> again, epoch |-> e, key |-> held[u][e]]
    BY <1>3 DEF Turn
  <2>2. held[u][e] \in Keys /\ held[u][e] = stored[e].key /\ e \in E
    BY <1>3 DEF KeyInv, ClientTypes, ClientSound, KeysAgree, E
  <2>3. e \in 1 .. (MaxDirectEpoch + 1)
    BY <1>3
  <2>4. Turn(u, s, e, again) \in Looking
    BY <1>1, <2>1, <2>2, <2>3 DEF Looking
  <2> QED BY <1>1, <2>1, <2>2, <2>4 DEF Tasks, Sound
<1>4. CASE e # 0 /\ held[u][e] = NoKey
  <2>1. Turn(u, s, e, again) = task
    BY <1>4 DEF Turn
  <2> QED BY <1>1, <1>4, <2>1 DEF Tasks, Looking, Sound
<1> QED BY <1>2, <1>3, <1>4

(* A key fetched is the one the server hands out. *)
LEMMA FetchedStep ==
    ASSUME KeyInv, NEW u \in Members, held' = [held EXCEPT ![u] = Fetched(u)],
           UNCHANGED serverVars, UNCHANGED <<made, listed, frames, reload, losses>>
    PROVE  ClientTypes' /\ ClientSound'
<1>1. \A e \in E : stored[e].key \in Keys \union {NoKey} /\ held[u][e] \in Keys \union {NoKey}
  BY DEF KeyInv, ServerTypes, ClientTypes
<1>2. Fetched(u) \in [E -> Keys \union {NoKey}]
  BY <1>1 DEF Fetched
<1>3. held' \in [Members -> [E -> Keys \union {NoKey}]]
  BY <1>2 DEF KeyInv, ClientTypes
<1>4. \A v \in Members, e \in E : held'[v][e] \in {held[v][e], stored[e].key}
  BY DEF KeyInv, ClientTypes, Fetched
<1>5. KeysAgree'
  BY <1>4 DEF KeyInv, ClientSound, KeysAgree, serverVars
<1> QED BY <1>3, <1>5 DEF KeyInv, ClientTypes, ClientSound, serverVars

----------------------------------------------------------------------------
(* The steps of a send *)

LEMMA StartSendInv ==
    ASSUME KeyInv, NEW u \in Members, NEW s \in Slots, StartSend(u, s)
    PROVE  KeyInv'
<1> DEFINE t == [pc |-> "queued", own |-> Live]
<1>1. t \in Tasks /\ Sound(t)
  BY DEF Tasks, Waiting, Own, Live, Sound, KeyInv, ServerTypes
<1>2. Move(u, s, t) /\ UNCHANGED serverVars /\ UNCHANGED <<held, made, listed, frames, reload, losses>>
  BY DEF StartSend
<1> QED BY <1>1, <1>2, MoveStep, ServerStays, ClientStays DEF KeyInv

LEMMA TakeTurnInv ==
    ASSUME KeyInv, NEW u \in Members, NEW s \in Slots, TakeTurn(u, s)
    PROVE  KeyInv'
<1>1. send[u][s].pc = "queued"
  BY DEF TakeTurn, At
<1>2. EpochOf(u, s) \in 0 .. MaxDirectEpoch /\ EpochOf(u, s) <= current
  BY <1>1, EpochType
<1>3. Turn(u, s, EpochOf(u, s), FALSE) \in Tasks /\ Sound(Turn(u, s, EpochOf(u, s), FALSE))
  BY <1>1, <1>2, TurnStep
<1>4. /\ Move(u, s, Turn(u, s, EpochOf(u, s), FALSE)) /\ UNCHANGED serverVars
      /\ UNCHANGED <<held, made, listed, frames, reload, losses>>
  BY DEF TakeTurn
<1> QED BY <1>3, <1>4, MoveStep, ServerStays, ClientStays DEF KeyInv

(* Before any reset an epoch the server has always opens: no new one is made. *)
LEMMA FetchInv ==
    ASSUME KeyInv, NEW u \in Members, NEW s \in Slots, Fetch(u, s)
    PROVE  KeyInv'
<1> DEFINE task == send[u][s]
           key == held'[u][task.epoch]
<1>1. task \in Looking /\ task.pc = "fetch" /\ Sound(task)
  BY Kinds DEF Fetch, At, KeyInv, SendsSound
<1>2. /\ held' = [held EXCEPT ![u] = Fetched(u)] /\ UNCHANGED serverVars
      /\ UNCHANGED <<made, listed, frames, reload, losses>>
  BY DEF Fetch
<1>3. ClientTypes' /\ ClientSound'
  BY <1>2, FetchedStep
<1>4. task.epoch \in E /\ task.epoch <= current
  BY <1>1 DEF Looking, Sound, E, KeyInv, ServerTypes
<1>5. key = Fetched(u)[task.epoch]
  BY <1>2 DEF KeyInv, ClientTypes
<1>6. key \in {NoKey, stored[task.epoch].key} /\ key \in Keys \union {NoKey}
  BY <1>2, <1>3, <1>4 DEF ClientTypes, ClientSound, KeysAgree, serverVars
<1>7. FirstKeys => key # NoKey
  <2>1. stored[task.epoch].key \in Keys /\ stored[task.epoch].for \in Versions
          /\ stored[task.epoch].for[u] <= ver[u]
    BY <1>4 DEF KeyInv, ServerSound, ServerTypes
  <2>2. FirstKeys => task.epoch \in Opens(u)
    BY <1>4, <2>1 DEF FirstKeys, Opens, Versions
  <2> QED BY <1>4, <1>5, <2>1, <2>2, NoKeyIsNone DEF Fetched
<1>8. EpochOf(u, s) \in 0 .. MaxDirectEpoch
  BY <1>1, EpochType
<1>9. CASE key = NoKey
  <2> DEFINE t == [task EXCEPT !.pc = "create", !.epoch = EpochOf(u, s) + 1]
  <2>1. Move(u, s, t)
    BY <1>9 DEF Fetch
  <2>2. t \in Looking /\ t.pc = "create" /\ t.own = task.own
    <3>1. EpochOf(u, s) + 1 \in 1 .. (MaxDirectEpoch + 1)
      BY <1>8
    <3> QED BY <1>1, <3>1, NextLook
  <2>3. Sound(t)
    BY <1>1, <1>7, <1>9, <2>2 DEF Sound
  <2> HIDE DEF t
  <2> QED BY <1>2, <1>3, <2>1, <2>2, <2>3, MoveStep, ServerStays DEF KeyInv, Tasks
<1>10. CASE key # NoKey
  <2> DEFINE t == [task EXCEPT !.pc = "sealed", !.key = key]
  <2>1. Move(u, s, t)
    BY <1>10 DEF Fetch
  <2>2. t \in Looking /\ t.pc = "sealed" /\ t.own = task.own /\ t.epoch = task.epoch /\ t.key = key
    BY <1>1, <1>6 DEF Looking
  <2>3. Sound(t)
    BY <1>1, <1>4, <1>6, <1>10, <2>2 DEF Sound
  <2> HIDE DEF t
  <2> QED BY <1>2, <1>3, <2>1, <2>2, <2>3, MoveStep, ServerStays DEF KeyInv, Tasks
<1> QED BY <1>9, <1>10

LEMMA AskPeerInv ==
    ASSUME KeyInv, NEW u \in Members, NEW s \in Slots, AskPeer(u, s)
    PROVE  KeyInv'
<1> DEFINE task == send[u][s]
           t == [pc |-> "peer", own |-> task.own, again |-> task.again,
                 epoch |-> task.epoch, key |-> <<u, made'[u]>>, for |-> ver]
<1>1. task \in Looking /\ task.pc = "create" /\ Sound(task)
  BY Kinds DEF AskPeer, At, KeyInv, SendsSound
<1>2. /\ made' = [made EXCEPT ![u] = @ + 1] /\ made[u] < MaxMade /\ task.epoch <= MaxDirectEpoch
      /\ Move(u, s, t) /\ held' = held /\ UNCHANGED serverVars
      /\ UNCHANGED <<listed, frames, reload, losses>>
  BY DEF AskPeer, KeepLater
<1>3. made' \in [Members -> 0 .. MaxMade] /\ made'[u] \in 1 .. MaxMade
  BY <1>2 DEF KeyInv, ClientTypes
<1>4. <<u, made'[u]>> \in Keys
  BY <1>3 DEF Keys
<1>5. ver \in Versions /\ task.epoch \in E
  BY <1>1, <1>2 DEF KeyInv, ServerTypes, Looking, E
<1>6. t \in Making
  BY <1>1, <1>4, <1>5 DEF Making, Looking
<1>7. Sound(t)
  BY <1>1 DEF Sound
<1> HIDE DEF t
<1>8. ClientTypes' /\ ClientSound'
  BY <1>2, <1>3 DEF KeyInv, ClientTypes, ClientSound, KeysAgree, serverVars
<1> QED BY <1>2, <1>6, <1>7, <1>8, MoveStep, ServerStays DEF KeyInv, Tasks

(* The server takes the next epoch, wrapped for the keys of this moment. *)
LEMMA AcceptedInv ==
    ASSUME KeyInv, NEW u \in Members, NEW s \in Slots, PostKeys(u, s), Accepted(send[u][s])
    PROVE  KeyInv'
<1> DEFINE task == send[u][s]
           t == [task EXCEPT !.pc = "posted"]
           row == [key |-> task.key, for |-> task.for, at |-> ver]
<1>1. task \in Making /\ task.pc = "peer" /\ Sound(task)
  BY Kinds DEF PostKeys, At, KeyInv, SendsSound
<1>2. task.epoch = current + 1 /\ task.for = ver /\ task.epoch \in E /\ task.key \in Keys
  BY <1>1 DEF Accepted, Making
<1>3. /\ stored' = [stored EXCEPT ![task.epoch] = row] /\ current' = task.epoch
      /\ frames' = [v \in Members |-> frames[v] \union {task.epoch}]
      /\ send' = [send EXCEPT ![u][s] = t]
      /\ UNCHANGED <<sent, ver, held, made, listed, reload, losses>>
  BY DEF PostKeys, Go, Move
<1>4. ver \in Versions /\ row \in [key : Keys \union {NoKey}, for : Versions, at : Versions]
  BY <1>2 DEF KeyInv, ServerTypes
<1>5. ServerTypes'
  BY <1>2, <1>3, <1>4 DEF KeyInv, ServerTypes, E
<1>6. stored'[task.epoch] = row /\ \A e \in E \ {task.epoch} : stored'[e] = stored[e]
  BY <1>2, <1>3 DEF KeyInv, ServerTypes
<1>7. row.key = task.key /\ row.for = ver /\ row.at = ver
  BY <1>2
<1> HIDE DEF row
<1>8. \A e \in E : e <= current => e # task.epoch /\ stored'[e] = stored[e]
  BY <1>2, <1>6 DEF KeyInv, ServerTypes, E
<1>9. FirstKeys => task.epoch = 1
  BY <1>1 DEF Sound
<1>10. ServerSound'
  <2>1. (\A e \in E : e > current => stored[e].key = NoKey)'
    BY <1>2, <1>3, <1>6 DEF KeyInv, ServerTypes, ServerSound, E
  <2>2. (\A e \in E : e <= current => stored[e].key \in Keys /\ stored[e].for = stored[e].at)'
    BY <1>2, <1>3, <1>6, <1>7, <1>8 DEF KeyInv, ServerTypes, ServerSound, E
  <2>3. (\A e \in E, v \in Members : stored[e].for[v] <= ver[v])'
    BY <1>3, <1>4, <1>6, <1>7 DEF KeyInv, ServerSound, Versions
  <2>4. (\A m \in sent : m.epoch <= current /\ m.key = stored[m.epoch].key)'
    <3> SUFFICES ASSUME NEW m \in sent PROVE m.epoch <= current' /\ m.key = stored'[m.epoch].key
      BY <1>3
    <3>1. m.epoch \in E /\ m.epoch <= current /\ m.key = stored[m.epoch].key
      BY DEF KeyInv, ServerTypes, ServerSound
    <3> QED BY <1>2, <1>3, <1>8, <3>1 DEF KeyInv, ServerTypes, E
  <2>5. (FirstKeys => current <= 1)'
    BY <1>3, <1>9 DEF FirstKeys
  <2> QED BY <2>1, <2>2, <2>3, <2>4, <2>5 DEF ServerSound
<1>11. ClientTypes' /\ ClientSound'
  <2>1. KeysAgree'
    BY <1>2, <1>3, <1>6 DEF KeyInv, ServerTypes, ServerSound, ClientSound, KeysAgree
  <2>2. ClientTypes'
    BY <1>2, <1>3 DEF KeyInv, ClientTypes
  <2>3. \A v \in Members : listed'[v] <= current' /\ reload'[v] <= current'
    BY <1>2, <1>3 DEF KeyInv, ServerTypes, ClientTypes, ClientSound, Quiet
  <2>4. \A v \in Members : \A e \in frames'[v] : e <= current'
    <3> SUFFICES ASSUME NEW v \in Members, NEW e \in frames'[v] PROVE e <= current'
      OBVIOUS
    <3>1. e = task.epoch \/ (e \in E /\ e <= current)
      BY <1>3 DEF KeyInv, ClientTypes, ClientSound
    <3> QED BY <1>2, <1>3, <3>1 DEF KeyInv, ServerTypes, E
  <2> QED BY <2>1, <2>2, <2>3, <2>4 DEF ClientSound
<1>12. t \in Making /\ t.pc = "posted" /\ t.own = task.own /\ t.epoch = task.epoch /\ t.key = task.key
  BY <1>1 DEF Making
<1> HIDE DEF t
<1>13. SendsSound'
  <2>1. send' \in [Members -> [Slots -> Tasks]]
    BY <1>3, <1>12 DEF KeyInv, SendsSound, Tasks
  <2>2. ASSUME NEW v \in Members, NEW r \in Slots PROVE Sound(send[v][r])'
    <3>1. send'[v][r] = IF v = u /\ r = s THEN t ELSE send[v][r]
      BY <1>3 DEF KeyInv, SendsSound
    <3>2. CASE v = u /\ r = s
      <4>1. task.own \in Own /\ task.own <= current
        BY <1>1 DEF Making, Sound
      <4> QED BY <1>2, <1>3, <1>6, <1>7, <1>12, <3>1, <3>2, <4>1
            DEF Sound, Own, Live, KeyInv, ServerTypes
    <3>3. CASE ~(v = u /\ r = s)
      <4> DEFINE x == send[v][r]
      <4>1. x \in Tasks /\ Sound(x) /\ send'[v][r] = x
        BY <3>1, <3>3 DEF KeyInv, SendsSound
      <4> HIDE DEF x
      <4>2. x.pc # "free" => x.own \in Own
        BY <4>1, Kinds
      <4>3. x.pc = "fetch" \/ x.pc = "posted" \/ x.pc = "sealed" => x.epoch \in 1 .. (MaxDirectEpoch + 1)
        BY <4>1, Kinds DEF Looking, Making, E
      <4>4. x.pc # "free" => x.own <= current'
        BY <1>2, <1>3, <4>1, <4>2 DEF Sound, Own, Live, KeyInv, ServerTypes
      <4>5. x.pc = "fetch" => x.epoch <= current'
        BY <1>2, <1>3, <4>1, <4>3 DEF Sound, KeyInv, ServerTypes
      <4>6. x.pc \in {"posted", "sealed"} => x.epoch <= current' /\ x.key = stored'[x.epoch].key
        <5> SUFFICES ASSUME x.pc \in {"posted", "sealed"}
                     PROVE x.epoch <= current' /\ x.key = stored'[x.epoch].key
          OBVIOUS
        <5>1. x.epoch \in E /\ x.epoch <= current /\ x.key = stored[x.epoch].key
          BY <4>1, <4>3 DEF Sound, KeyInv, ServerTypes, E
        <5> QED BY <1>2, <1>3, <1>8, <5>1 DEF KeyInv, ServerTypes, E
      <4>7. x.pc \in {"create", "peer"} /\ FirstKeys' => x.epoch = 1
        BY <1>3, <4>1 DEF Sound, FirstKeys
      <4> QED BY <4>1, <4>4, <4>5, <4>6, <4>7 DEF Sound
    <3> QED BY <3>2, <3>3
  <2> QED BY <2>1, <2>2 DEF SendsSound
<1> QED BY <1>5, <1>10, <1>11, <1>13 DEF KeyInv

LEMMA PostKeysInv ==
    ASSUME KeyInv, NEW u \in Members, NEW s \in Slots, PostKeys(u, s)
    PROVE  KeyInv'
<1>1. CASE Accepted(send[u][s])
  BY <1>1, AcceptedInv
<1>2. CASE ~Accepted(send[u][s])
  <2> DEFINE task == send[u][s]
             t == IF task.epoch # current + 1 /\ ~task.again
                  THEN [pc |-> "stale", own |-> task.own] ELSE Free
  <2>1. task \in Making /\ Sound(task) /\ task.pc = "peer"
    BY Kinds DEF PostKeys, At, KeyInv, SendsSound
  <2>2. Move(u, s, t) /\ UNCHANGED serverVars /\ UNCHANGED <<held, made, listed, frames, reload, losses>>
    BY <1>2 DEF PostKeys, serverVars
  <2>3. t \in Tasks /\ Sound(t)
    BY <2>1 DEF Tasks, Waiting, Making, Free, Sound
  <2> QED BY <2>2, <2>3, MoveStep, ServerStays, ClientStays DEF KeyInv
<1> QED BY <1>1, <1>2

LEMMA KeysPostedInv ==
    ASSUME KeyInv, NEW u \in Members, NEW s \in Slots, KeysPosted(u, s)
    PROVE  KeyInv'
<1> DEFINE task == send[u][s]
           t == [task EXCEPT !.pc = "sealed"]
<1>1. task \in Making /\ task.pc = "posted" /\ Sound(task)
  BY Kinds DEF KeysPosted, At, KeyInv, SendsSound
<1>2. /\ held' = [held EXCEPT ![u][task.epoch] = task.key] /\ SetEpoch(u, s, task.epoch)
      /\ Move(u, s, t) /\ UNCHANGED serverVars /\ UNCHANGED <<made, frames, reload, losses>>
  BY DEF KeysPosted, Go
<1>3. task.epoch \in E /\ task.key \in Keys /\ task.epoch <= current /\ task.key = stored[task.epoch].key
  BY <1>1 DEF Making, Sound
<1>4. listed' \in [Members -> 0 .. MaxDirectEpoch] /\ \A v \in Members : listed'[v] <= current
  BY <1>2, <1>3 DEF SetEpoch, KeyInv, ClientTypes, ClientSound, E
<1>5. held' \in [Members -> [E -> Keys \union {NoKey}]]
  BY <1>2, <1>3 DEF KeyInv, ClientTypes
<1>6. \A v \in Members, e \in E : held'[v][e] \in {held[v][e], stored[e].key}
  BY <1>2, <1>3 DEF KeyInv, ClientTypes
<1>7. KeysAgree'
  BY <1>2, <1>6 DEF KeyInv, ClientSound, KeysAgree, serverVars
<1>8. ClientTypes' /\ ClientSound'
  BY <1>2, <1>4, <1>5, <1>7 DEF KeyInv, ClientTypes, ClientSound, serverVars
<1>9. t \in Making /\ t.pc = "sealed" /\ t.own = task.own /\ t.epoch = task.epoch /\ t.key = task.key
  BY <1>1 DEF Making
<1>10. Sound(t)
  BY <1>1, <1>3, <1>9 DEF Sound
<1> HIDE DEF t
<1> QED BY <1>2, <1>8, <1>9, <1>10, MoveStep, ServerStays DEF KeyInv, Tasks

LEMMA AnswerLostInv ==
    ASSUME KeyInv, NEW u \in Members, NEW s \in Slots, AnswerLost(u, s)
    PROVE  KeyInv'
<1>1. /\ losses < MaxLosses /\ losses' = losses + 1 /\ Move(u, s, Free) /\ UNCHANGED serverVars
      /\ UNCHANGED <<held, made, listed, frames, reload>>
  BY DEF AnswerLost
<1>2. Free \in Tasks /\ Sound(Free)
  BY DEF Tasks, Free, Sound
<1>3. ClientTypes' /\ ClientSound'
  BY <1>1 DEF KeyInv, ClientTypes, ClientSound, KeysAgree, serverVars
<1> QED BY <1>1, <1>2, <1>3, MoveStep, ServerStays DEF KeyInv

LEMMA RefreshInv ==
    ASSUME KeyInv, NEW u \in Members, NEW s \in Slots, Refresh(u, s)
    PROVE  KeyInv'
<1> DEFINE e == IF send[u][s].own = Live THEN current ELSE send[u][s].own
<1>1. /\ send[u][s].pc = "stale" /\ listed' = [listed EXCEPT ![u] = current]
      /\ Move(u, s, Turn(u, s, e, TRUE)) /\ UNCHANGED serverVars
      /\ UNCHANGED <<held, made, frames, reload, losses>>
  BY DEF Refresh, At
<1>2. send[u][s].own \in Own /\ send[u][s].own <= current
  BY <1>1, Kinds DEF KeyInv, SendsSound, Sound
<1>3. e \in 0 .. MaxDirectEpoch /\ e <= current
  BY <1>2 DEF Own, KeyInv, ServerTypes
<1> HIDE DEF e
<1>4. Turn(u, s, e, TRUE) \in Tasks /\ Sound(Turn(u, s, e, TRUE))
  BY <1>1, <1>3, TurnStep
<1>5. ClientTypes' /\ ClientSound'
  BY <1>1 DEF KeyInv, ServerTypes, ClientTypes, ClientSound, KeysAgree, serverVars
<1> QED BY <1>1, <1>4, <1>5, MoveStep, ServerStays DEF KeyInv

LEMMA PostMessageInv ==
    ASSUME KeyInv, NEW u \in Members, NEW s \in Slots, PostMessage(u, s)
    PROVE  KeyInv'
<1> DEFINE task == send[u][s]
           m == [epoch |-> task.epoch, key |-> task.key]
<1>1. task \in Tasks /\ task.pc = "sealed" /\ Sound(task)
  BY DEF PostMessage, At, KeyInv, SendsSound
<1>2. task.epoch \in E /\ task.epoch <= current /\ task.key = stored[task.epoch].key /\ task.key \in Keys
  <2>1. task.epoch \in 1 .. (MaxDirectEpoch + 1)
    BY <1>1, Kinds DEF Looking, Making, E
  <2>2. task.epoch <= current /\ task.key = stored[task.epoch].key
    BY <1>1 DEF Sound
  <2>3. task.epoch \in E
    BY <2>1, <2>2 DEF E, KeyInv, ServerTypes
  <2> QED BY <2>2, <2>3 DEF KeyInv, ServerSound
<1>3. /\ sent' \in {sent, sent \union {m}} /\ send' = [send EXCEPT ![u][s] = Free]
      /\ UNCHANGED <<stored, current, ver, held, made, listed, frames, reload, losses>>
  BY DEF PostMessage, Move
<1>4. m \in [epoch : E, key : Keys] /\ m.epoch <= current /\ m.key = stored[m.epoch].key
  BY <1>2
<1> HIDE DEF m
<1>5. ServerTypes' /\ ServerSound'
  BY <1>3, <1>4 DEF KeyInv, ServerTypes, ServerSound, FirstKeys
<1>6. ClientTypes' /\ ClientSound'
  BY <1>3 DEF KeyInv, ClientTypes, ClientSound, KeysAgree
<1>7. Free \in Tasks /\ Sound(Free)'
  BY DEF Tasks, Free, Sound
<1>8. send' \in [Members -> [Slots -> Tasks]]
  BY <1>3, <1>7 DEF KeyInv, SendsSound
<1>9. ASSUME NEW v \in Members, NEW r \in Slots PROVE Sound(send[v][r])'
  <2>1. send'[v][r] = IF v = u /\ r = s THEN Free ELSE send[v][r]
    BY <1>3 DEF KeyInv, SendsSound
  <2>2. Sound(send[v][r])
    BY DEF KeyInv, SendsSound
  <2> QED BY <1>3, <1>7, <2>1, <2>2 DEF Sound, FirstKeys
<1> QED BY <1>5, <1>6, <1>8, <1>9 DEF KeyInv, SendsSound

----------------------------------------------------------------------------
(* Frames, lists of chats and resets *)

LEMMA ListsInv ==
    ASSUME KeyInv, NEW u \in Members,
           Decode(u) \/ (\E e \in E : Frame(u, e)) \/ AskThreads(u)
    PROVE  KeyInv'
<1>1. UNCHANGED serverVars /\ send' = send
  BY DEF Decode, Frame, AskThreads
<1>2. SendsSound'
  BY <1>1 DEF KeyInv, SendsSound, Sound, FirstKeys, serverVars
<1>3. CASE Decode(u)
  <2>1. /\ held' = [held EXCEPT ![u] = Fetched(u)]
        /\ UNCHANGED <<made, listed, frames, reload, losses>>
    BY <1>3 DEF Decode
  <2> QED BY <1>1, <1>2, <2>1, FetchedStep, ServerStays DEF KeyInv
<1>4. ASSUME NEW e \in E, Frame(u, e) PROVE KeyInv'
  <2>1. /\ e \in frames[u] /\ frames' = [frames EXCEPT ![u] = @ \ {e}]
        /\ listed' = [listed EXCEPT ![u] = IF e > @ THEN e ELSE @]
        /\ UNCHANGED <<held, made, reload, losses>>
    BY <1>4 DEF Frame
  <2>2. e <= current
    BY <2>1 DEF KeyInv, ClientSound
  <2>3. ClientTypes' /\ ClientSound'
    BY <1>1, <2>1, <2>2 DEF KeyInv, ClientTypes, ClientSound, KeysAgree, serverVars, E
  <2> QED BY <1>1, <1>2, <2>3, ServerStays DEF KeyInv
<1>5. CASE AskThreads(u)
  <2>1. reload' = [reload EXCEPT ![u] = current] /\ UNCHANGED <<held, made, listed, frames, losses>>
    BY <1>5 DEF AskThreads
  <2>2. ClientTypes' /\ ClientSound'
    BY <1>1, <2>1 DEF KeyInv, ServerTypes, ClientTypes, ClientSound, KeysAgree, serverVars
  <2> QED BY <1>1, <1>2, <2>2, ServerStays DEF KeyInv
<1> QED BY <1>3, <1>4, <1>5

LEMMA ApplyThreadsInv ==
    ASSUME KeyInv, NEW u \in Members, ApplyThreads(u)
    PROVE  KeyInv'
<1> DEFINE Renewed(x) == IF x # Free /\ x.own = Live THEN [x EXCEPT !.own = listed[u]] ELSE x
<1>1. /\ reload[u] # Quiet /\ listed' = [listed EXCEPT ![u] = reload[u]]
      /\ reload' = [reload EXCEPT ![u] = Quiet]
      /\ send' = [send EXCEPT ![u] = [s \in Slots |-> Renewed(send[u][s])]]
      /\ UNCHANGED serverVars /\ UNCHANGED <<held, made, frames, losses>>
  BY DEF ApplyThreads
<1>2. ClientTypes' /\ ClientSound'
  BY <1>1 DEF KeyInv, ServerTypes, ClientTypes, ClientSound, KeysAgree, serverVars, Quiet
<1>3. ASSUME NEW x \in Tasks, Sound(x) PROVE Renewed(x) \in Tasks /\ Sound(Renewed(x))
  <2>1. listed[u] \in Own /\ listed[u] <= current
    BY DEF KeyInv, ClientTypes, ClientSound, Own
  <2>2. CASE x # Free /\ x.own = Live
    <3>1. CASE x \in Waiting
      BY <1>3, <2>1, <2>2, <3>1 DEF Waiting, Tasks, Sound
    <3>2. CASE x \in Looking
      <4>1. /\ Renewed(x) \in Looking /\ Renewed(x).pc = x.pc /\ Renewed(x).own = listed[u]
            /\ Renewed(x).epoch = x.epoch /\ Renewed(x).key = x.key
        BY <2>1, <2>2, <3>2 DEF Looking
      <4> HIDE DEF Renewed
      <4> QED BY <1>3, <2>1, <4>1 DEF Tasks, Sound
    <3>3. CASE x \in Making
      <4>1. /\ Renewed(x) \in Making /\ Renewed(x).pc = x.pc /\ Renewed(x).own = listed[u]
            /\ Renewed(x).epoch = x.epoch /\ Renewed(x).key = x.key
        BY <2>1, <2>2, <3>3 DEF Making
      <4> HIDE DEF Renewed
      <4> QED BY <1>3, <2>1, <4>1 DEF Tasks, Sound
    <3> QED BY <1>3, <2>2, <3>1, <3>2, <3>3 DEF Tasks
  <2>3. CASE ~(x # Free /\ x.own = Live)
    BY <1>3, <2>3
  <2> QED BY <2>2, <2>3
<1> HIDE DEF Renewed
<1>4. \A v \in Members, s \in Slots : send[v][s] \in Tasks /\ Sound(send[v][s])
  BY DEF KeyInv, SendsSound
<1>5. send' \in [Members -> [Slots -> Tasks]]
  BY <1>1, <1>3, <1>4 DEF KeyInv, SendsSound
<1>6. ASSUME NEW v \in Members, NEW r \in Slots PROVE Sound(send[v][r])'
  <2>1. send'[v][r] = IF v = u THEN Renewed(send[u][r]) ELSE send[v][r]
    BY <1>1 DEF KeyInv, SendsSound
  <2>2. Sound(Renewed(send[u][r])) /\ Sound(send[v][r])
    BY <1>3, <1>4
  <2> QED BY <1>1, <2>1, <2>2 DEF Sound, FirstKeys, serverVars
<1>7. SendsSound'
  BY <1>5, <1>6 DEF SendsSound
<1> QED BY <1>1, <1>2, <1>7, ServerStays DEF KeyInv

LEMMA ResetKeysInv ==
    ASSUME KeyInv, NEW u \in Members, ResetKeys(u)
    PROVE  KeyInv'
<1>1. /\ ver[u] < MaxKeyResets /\ ver' = [ver EXCEPT ![u] = @ + 1]
      /\ held' = [held EXCEPT ![u] = [e \in E |-> NoKey]]
      /\ send' = [send EXCEPT ![u] = [s \in Slots |-> Free]]
      /\ listed' = [listed EXCEPT ![u] = current] /\ reload' = [reload EXCEPT ![u] = Quiet]
      /\ frames' = [frames EXCEPT ![u] = {}] /\ UNCHANGED <<stored, current, sent, made, losses>>
  BY DEF ResetKeys
<1>2. ver' \in Versions /\ ~FirstKeys' /\ \A v \in Members : ver[v] <= ver'[v]
  BY <1>1 DEF KeyInv, ServerTypes, Versions, FirstKeys
<1>3. \A e \in E, v \in Members : stored[e].for[v] <= ver'[v]
  BY <1>1, <1>2 DEF KeyInv, ServerTypes, ServerSound, Versions
<1>4. ServerTypes' /\ ServerSound'
  BY <1>1, <1>2, <1>3 DEF KeyInv, ServerTypes, ServerSound
<1>5. ClientTypes' /\ ClientSound'
  <2>1. KeysAgree'
    BY <1>1 DEF KeyInv, ClientTypes, ClientSound, KeysAgree
  <2>2. ClientTypes'
    BY <1>1 DEF KeyInv, ServerTypes, ClientTypes
  <2>3. \A v \in Members : listed'[v] <= current' /\ reload'[v] <= current'
    BY <1>1 DEF KeyInv, ServerTypes, ClientTypes, ClientSound, Quiet
  <2>4. \A v \in Members : \A e \in frames'[v] : e <= current'
    BY <1>1 DEF KeyInv, ClientTypes, ClientSound
  <2> QED BY <2>1, <2>2, <2>3, <2>4 DEF ClientSound
<1>6. Free \in Tasks /\ Sound(Free)'
  BY DEF Tasks, Free, Sound
<1>7. send' \in [Members -> [Slots -> Tasks]]
  BY <1>1, <1>6 DEF KeyInv, SendsSound
<1>8. ASSUME NEW v \in Members, NEW r \in Slots PROVE Sound(send[v][r])'
  <2>1. send'[v][r] = IF v = u THEN Free ELSE send[v][r]
    BY <1>1 DEF KeyInv, SendsSound
  <2>2. Sound(send[v][r])
    BY DEF KeyInv, SendsSound
  <2> QED BY <1>1, <1>2, <1>6, <2>1, <2>2 DEF Sound
<1> QED BY <1>4, <1>5, <1>7, <1>8 DEF KeyInv, SendsSound

----------------------------------------------------------------------------
(* The invariant *)

LEMMA InitInv == DirectInit => KeyInv
<1> SUFFICES ASSUME DirectInit PROVE KeyInv
  OBVIOUS
<1> USE DEF DirectInit
<1>1. Unset \in [key : Keys \union {NoKey}, for : Versions, at : Versions] /\ Unset.key = NoKey
        /\ \A u \in Members : Unset.for[u] = 0
  BY DEF Unset, Versions
<1>2. stored = [e \in E |-> Unset] /\ \A e \in E : stored[e] = Unset
  OBVIOUS
<1>3. ServerTypes
  BY <1>1, <1>2 DEF ServerTypes, Versions
<1>4. ServerSound
  BY <1>1, <1>2 DEF ServerSound, E
<1>5. ClientTypes
  BY DEF ClientTypes
<1>6. ClientSound
  BY DEF ClientSound, KeysAgree, Quiet
<1>7. SendsSound
  <2>1. Free \in Tasks /\ Sound(Free)
    BY DEF Tasks, Free, Sound
  <2> QED BY <2>1 DEF SendsSound
<1> QED BY <1>3, <1>4, <1>5, <1>6, <1>7 DEF KeyInv

LEMMA StepInv == KeyInv /\ [DirectNext]_directVars => KeyInv'
<1> SUFFICES ASSUME KeyInv, [DirectNext]_directVars PROVE KeyInv'
  OBVIOUS
<1>1. ASSUME NEW u \in Members, NEW s \in Slots,
             \/ StartSend(u, s) \/ TakeTurn(u, s) \/ Fetch(u, s)
             \/ AskPeer(u, s) \/ PostKeys(u, s) \/ KeysPosted(u, s) \/ AnswerLost(u, s)
             \/ Refresh(u, s) \/ PostMessage(u, s)
      PROVE  KeyInv'
  BY <1>1, StartSendInv, TakeTurnInv, FetchInv, AskPeerInv, PostKeysInv, KeysPostedInv,
    AnswerLostInv, RefreshInv, PostMessageInv
<1>2. ASSUME NEW u \in Members,
             \/ Decode(u) \/ (\E e \in E : Frame(u, e))
             \/ AskThreads(u) \/ ApplyThreads(u) \/ ResetKeys(u)
      PROVE  KeyInv'
  BY <1>2, ListsInv, ApplyThreadsInv, ResetKeysInv
<1>3. CASE UNCHANGED directVars
  <2>1. UNCHANGED serverVars /\ UNCHANGED <<held, made, listed, frames, reload, losses>> /\ send' = send
    BY <1>3 DEF directVars, serverVars
  <2>2. SendsSound'
    BY <2>1 DEF KeyInv, SendsSound, Sound, FirstKeys, serverVars
  <2> QED BY <2>1, <2>2, ServerStays, ClientStays DEF KeyInv
<1> QED BY <1>1, <1>2, <1>3 DEF DirectNext

LEMMA Invariance == DirectSpec => []KeyInv
  BY InitInv, StepInv, PTL DEF DirectSpec

----------------------------------------------------------------------------
(* The theorems *)

(* The server's epochs, the keys of the clients and the sends on their way *)
(* keep their types.                                                       *)
THEOREM DirectTypeCorrect == DirectSpec => []DirectTypeOK
<1>1. KeyInv => DirectTypeOK
  <2> SUFFICES ASSUME KeyInv PROVE DirectTypeOK
    OBVIOUS
  <2>1. \A u \in Members, s \in Slots : send[u][s].pc \in
            {"free", "queued", "fetch", "create", "peer", "posted", "stale", "sealed"}
    BY Kinds DEF KeyInv, SendsSound
  <2> QED BY <2>1 DEF KeyInv, ServerTypes, ClientTypes, Versions, DirectTypeOK
<1> QED BY <1>1, Invariance, PTL

(* data.js sendKey, convKey, createDmKey: whatever the two members send,   *)
(* lose and make for nothing, no client keeps a key of an epoch other than *)
(* the one the server hands out for it.                                    *)
THEOREM ClientsKeepServerKeys == DirectSpec => []KeysAgree
<1>1. KeyInv => KeysAgree
  BY DEF KeyInv, ClientSound
<1> QED BY <1>1, Invariance, PTL

(* key_service.py upload_conversation_keys: an accepted message opens for  *)
(* every member whose keys are those of the moment its epoch was accepted. *)
THEOREM AcceptedMessagesOpen == DirectSpec => []MessagesReadable
<1>1. KeyInv => MessagesReadable
  <2> SUFFICES ASSUME KeyInv, NEW m \in sent
               PROVE  /\ m.key = stored[m.epoch].key
                      /\ \A u \in Members : stored[m.epoch].at[u] = ver[u] => m.epoch \in Opens(u)
    BY DEF MessagesReadable
  <2>1. m.epoch \in E /\ m.epoch <= current /\ m.key = stored[m.epoch].key
    BY DEF KeyInv, ServerTypes, ServerSound
  <2>2. stored[m.epoch].for = stored[m.epoch].at
    BY <2>1 DEF KeyInv, ServerSound
  <2> QED BY <2>1, <2>2 DEF Opens
<1> QED BY <1>1, Invariance, PTL

(* No epoch is made for nothing: as long as no member has reset their      *)
(* keys, writing first at once, lost answers and an old list of chats      *)
(* never lead past the first epoch.                                        *)
THEOREM FirstEpochSuffices == DirectSpec => []OneEpochUntilReset
<1>1. KeyInv => OneEpochUntilReset
  BY DEF KeyInv, ServerSound, FirstKeys, OneEpochUntilReset
<1> QED BY <1>1, Invariance, PTL
=============================================================================
