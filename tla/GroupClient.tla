----------------------------- MODULE GroupClient -----------------------------
(***************************************************************************)
(* A member's client and the key tree of one group: rotateGroup, syncTree  *)
(* and convKey of app/data.js, buildCommit and processCommit of            *)
(* lib/treekem.js.  The server's side (plan, commit, list of commits) is   *)
(* one step per request; GroupKeys has its transactions.                   *)
(*                                                                         *)
(* The member has leaf 0.  A key of a node is the epoch whose commit made  *)
(* it, a private key the client holds likewise; 0 is none.                 *)
(***************************************************************************)
EXTENDS KeyTree

CONSTANTS
    Capacity,    \* leaves of the tree
    Syncs,       \* bound: calls of syncTree at the same time, besides rotateGroup's
    Rotation,    \* the call of syncTree that ends rotateGroup
    MaxCommits,    \* bound: epochs of the group
    MaxChanges,  \* bound: members who join or leave
    MaxResets    \* bound: times the member resets their keys

ASSUME GroupClientAssumption ==
    /\ Capacity \in Nat /\ Capacity > 1 /\ Ones[Capacity - 1] = Capacity - 1  \* a power of two
    /\ Rotation \notin Syncs
    /\ MaxCommits \in Nat /\ MaxChanges \in Nat /\ MaxResets \in Nat

VARIABLES
    tree,      \* the server: [epoch, gen, occupied, due, full, vers]
    commits,   \* the list of commits, by epoch
    changes,   \* joins and leaves so far
    version,   \* the client's identity key
    privs, processed, secrets,   \* S.trees[threadId]
    sync,      \* sync[s]: a call of syncTree
    rotating,  \* rotating[threadId] and where rotateGroup is
    base,      \* history: the epoch from which the client is let in again
    calm       \* history: the same, after calls of syncTree got into each other's way as well

clientVars == <<version, privs, processed, secrets>>
groupVars == <<tree, commits, changes, clientVars, sync, rotating, base, calm>>

MyLeaf == 0
Nodes == Inner(Capacity)
Epochs == 1 .. MaxCommits
Calls == Syncs \union {Rotation}
NoCall == [pc |-> "idle"]
NoCommit == [path |-> {}, blanks |-> {}, targets |-> <<>>, gen |-> <<>>, ver |-> 0]

----------------------------------------------------------------------------
(* The server *)

Filled == {LeafNode(l) : l \in tree.occupied} \union {n \in Nodes : tree.gen[n] # 0}
Pending == tree.due # {} \/ tree.full

\* GET keys/plan for the requested changes, or else for the branch of leaf l.
PlanFor(l) ==
    PlanCommit(Capacity, Filled, IF Pending THEN tree.due ELSE {l}, tree.full)

\* POST keys/commit: every node of the path gets a key of this epoch (buildCommit), sealed to
\* its targets as they are, but to the member's leaf as it was when the plan was fetched; the
\* list grows and the requests are done.
Commit(plan, ver) ==
    LET e == tree.epoch + 1
        mine == ver = version /\ DirectPath(LeafNode(MyLeaf), Capacity) \subseteq plan.path
    IN /\ tree' = [tree EXCEPT !.epoch = e, !.due = {}, !.full = FALSE, !.vers = {version},
                               !.gen = [n \in Nodes |-> IF n \in plan.path THEN e
                                                        ELSE IF n \in plan.blanks THEN 0 ELSE @[n]]]
       /\ commits' = [commits EXCEPT ![e] = [path |-> plan.path, blanks |-> plan.blanks,
                         targets |-> plan.targets, gen |-> tree.gen, ver |-> ver]]
       /\ base' = IF mine /\ base > e THEN e ELSE base
       /\ calm' = IF mine /\ calm > e THEN e ELSE calm

\* Somebody joins at a blank leaf or leaves, confirmed: the rotation is requested.
Change(l) ==
    /\ l # MyLeaf /\ l \in 0 .. (Capacity - 1) /\ changes < MaxChanges
    /\ changes' = changes + 1
    /\ tree' = [tree EXCEPT !.occupied = IF l \in @ THEN @ \ {l} ELSE @ \union {l},
                            !.due = @ \union {l}]
    /\ UNCHANGED <<commits, clientVars, sync, rotating, base, calm>>

\* Another member's client commits, by a plan it fetched since the last commit.
OtherCommits(l) ==
    /\ l \in tree.occupied \ {MyLeaf} /\ tree.epoch < MaxCommits
    /\ tree.epoch > 0 \/ Pending
    /\ \E ver \in tree.vers : Commit(PlanFor(l), ver)
    /\ UNCHANGED <<changes, clientVars, sync, rotating>>

----------------------------------------------------------------------------
(* syncTree *)

AskList(s) == sync' = [sync EXCEPT ![s] = [pc |-> "asked", since |-> processed]]

\* key.rotation "applied", or convKey for an epoch the client does not hold.
StartSync(s) ==
    /\ s \in Syncs /\ sync[s] = NoCall
    /\ AskList(s)
    /\ UNCHANGED <<tree, commits, changes, clientVars, rotating, base, calm>>

\* The list as it is when the request is answered; nothing new ends the call.
ListAnswered(s) ==
    /\ sync[s].pc = "asked"
    /\ sync' = [sync EXCEPT ![s] = IF @.since < tree.epoch
                                   THEN [pc |-> "list", next |-> @.since + 1, last |-> tree.epoch]
                                   ELSE NoCall]
    /\ rotating' = IF s = Rotation /\ sync'[s] = NoCall THEN NoCall ELSE rotating
    /\ UNCHANGED <<tree, commits, changes, clientVars, base, calm>>

\* The answer has come: the work on the list begins.
ListArrives(s) ==
    /\ sync[s].pc = "list"
    /\ sync' = [sync EXCEPT ![s].pc = "work"]
    /\ UNCHANGED <<tree, commits, changes, clientVars, rotating, base, calm>>

\* A key sealed to node t, not of the path, opens with what the client holds.
Held(c, t) ==
    IF t = LeafNode(MyLeaf) THEN c.ver = version
    ELSE t \in Nodes /\ privs[t] # 0 /\ privs[t] = c.gen[t]

\* Mutant for EpochsOpen: the nodes are not sorted, a fresh key below is not yet known.
OpenedUnsorted(c) == {n \in c.path : \E t \in c.targets[n] \ c.path : Held(c, t)}

\* The fresh keys that one of their targets opens, found from the leaves up.
Opened(c) ==
    LET opens(n, known) == \E t \in c.targets[n] : IF t \in c.path THEN t \in known ELSE Held(c, t)
    IN {n \in c.path : \A known \in SUBSET c.path :
          (\A m \in c.path : opens(m, known) => m \in known) => n \in known}

\* The list is older than what was processed since, or another call is at work as well: the
\* calls undo each other's node keys.
Disturbs(s) == sync[s].last < processed \/ \E r \in Calls \ {s} : sync[r].pc = "work"

\* One processCommit.
ProcessCommit(s) ==
    LET e == sync[s].next
        c == commits[e]
        opened == Opened(c)
    IN /\ sync[s].pc = "work"
       /\ privs' = [n \in Nodes |-> IF n \in c.path THEN IF n \in opened THEN e ELSE 0
                                    ELSE IF n \in c.blanks THEN 0 ELSE privs[n]]
       /\ processed' = IF e > processed THEN e ELSE processed
       /\ secrets' = IF Root(Capacity) \in opened THEN secrets \union {e} ELSE secrets
       /\ sync' = [sync EXCEPT ![s] = IF e = @.last THEN NoCall ELSE [@ EXCEPT !.next = e + 1]]
       /\ calm' = IF Disturbs(s) THEN MaxCommits + 1 ELSE calm
       /\ rotating' = IF s = Rotation /\ e = sync[s].last THEN NoCall ELSE rotating
       /\ UNCHANGED <<tree, commits, changes, version, base>>

----------------------------------------------------------------------------
(* rotateGroup *)

\* The frame "requested", the start of the app, or (periodic) the end of setupWith; a call
\* while another one is under way is dropped.
RotateGroup(kind) ==
    /\ rotating = NoCall /\ rotating' = [pc |-> "waits", kind |-> kind]
    /\ (kind = "periodic" => base > MaxCommits) /\ (kind # "periodic" => Pending)
    /\ UNCHANGED <<tree, commits, changes, clientVars, sync, base, calm>>

\* The timer is over: what is pending decides, then the plan is fetched.
Plan ==
    /\ rotating.pc = "waits"
    /\ rotating' = IF Pending \/ (rotating.kind = "periodic" /\ tree.epoch > 0)
                   THEN [pc |-> "planned", epoch |-> tree.epoch + 1, plan |-> PlanFor(MyLeaf),
                         kind |-> rotating.kind, ver |-> version]
                   ELSE NoCall
    /\ UNCHANGED <<tree, commits, changes, clientVars, sync, base, calm>>

Current == rotating.epoch = tree.epoch + 1 /\ rotating.plan = PlanFor(MyLeaf)

\* POST: refused when the epoch was taken or the plan has changed; the client syncs anyway.
PostCommit ==
    /\ rotating.pc = "planned"
    /\ IF Current /\ (Pending \/ rotating.kind = "periodic")
       THEN tree.epoch < MaxCommits /\ Commit(rotating.plan, rotating.ver)
       ELSE UNCHANGED <<tree, commits, base, calm>>
    /\ rotating' = [pc |-> "synced"]
    /\ AskList(Rotation)
    /\ UNCHANGED <<changes, clientVars>>

\* publishNewKeys: the client starts with nothing; the server's leaf gets the new identity
\* key at once.  A call of syncTree under way goes on with the tree that was dropped.
Reset ==
    /\ version < MaxResets
    /\ version' = version + 1
    /\ tree' = [tree EXCEPT !.vers = @ \union {version + 1}]
    /\ privs' = [n \in Nodes |-> 0] /\ processed' = 0 /\ secrets' = {}
    /\ sync' = [s \in Calls |-> NoCall]
    /\ rotating' = IF rotating.pc = "synced" THEN NoCall ELSE rotating
    /\ base' = MaxCommits + 1 /\ calm' = MaxCommits + 1
    /\ UNCHANGED <<commits, changes>>

GroupClientInit ==
    /\ \E others \in SUBSET (1 .. (Capacity - 1)) :
         tree = [epoch |-> 0, gen |-> [n \in Nodes |-> 0], occupied |-> {MyLeaf} \union others,
                 due |-> {}, full |-> TRUE, vers |-> {0}]
    /\ commits = [e \in Epochs |-> NoCommit] /\ changes = 0
    /\ version = 0 /\ privs = [n \in Nodes |-> 0] /\ processed = 0 /\ secrets = {}
    /\ sync = [s \in Calls |-> NoCall] /\ rotating = NoCall
    /\ base = 1 /\ calm = 1

GroupClientNext ==
    \/ \E l \in 0 .. (Capacity - 1) : Change(l) \/ OtherCommits(l)
    \/ \E s \in Calls : StartSync(s) \/ ListAnswered(s) \/ ListArrives(s) \/ ProcessCommit(s)
    \/ \E kind \in {"preferred", "other", "periodic"} : RotateGroup(kind)
    \/ Plan \/ PostCommit \/ Reset

GroupClientSpec == GroupClientInit /\ [][GroupClientNext]_groupVars

----------------------------------------------------------------------------
Readable(from) == \A e \in Epochs : from <= e /\ e <= processed => e \in secrets

\* What tests/js/interop.mjs and the first lines of treekem.js promise a member who works
\* through the commits: once no call of syncTree is at work, the client has the key of every
\* epoch it has processed since the member's own branch was keyed.
NoEpochLost == (\A s \in Calls : sync[s].pc \notin {"list", "work"}) => Readable(base)

\* The only way to lose one is that calls overlap: at all times the client has the key of every
\* epoch it has processed since the member's own branch was keyed, first or after the last time
\* that two calls were at work or one worked on a list that was out of date.
EpochsOpen == Readable(calm)
=============================================================================
