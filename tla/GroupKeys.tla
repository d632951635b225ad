------------------------------ MODULE GroupKeys ------------------------------
(***************************************************************************)
(* One group chat: its members, the anchoring of every membership change,  *)
(* and the rotation of the group key over the key tree that follows it.    *)
(*                                                                         *)
(*   GroupService   src/backend/app/services/group_service.py              *)
(*   KeyService     src/backend/app/services/key_service.py (tree part)    *)
(*   worker         src/worker/tasks/blockchain.py, *_membership           *)
(*   client         src/backend/static/js/lib/treekem.js                   *)
(*                                                                         *)
(* Every API request and every worker task is one database transaction on  *)
(* MariaDB at its default isolation: what it reads comes from the snapshot *)
(* of its first read (SQLAlchemy never refreshes a row it has loaded, not  *)
(* even with FOR UPDATE), what it writes lands at the commit.  So each is  *)
(* two steps, a read that decides everything and a write, and any other    *)
(* transaction may commit in between.  job[s] is a transaction between its *)
(* two steps.                                                              *)
(*                                                                         *)
(* A private key is modelled by the set of users whose client holds it.    *)
(***************************************************************************)
EXTENDS KeyTree, Sequences, FiniteSetsExt

CONSTANTS
    Users,
    Slots,          \* bound: transactions in flight at the same time
    MaxLeaves,      \* bound: leaves of the tree
    MaxEvents,      \* bound: membership events of the group
    MaxEpoch,       \* bound: key epochs of the group
    ConfirmIsSlow,  \* TRUE: a transaction in flight when an event is created
                    \* ends before the event is confirmed: between the two
                    \* lie the transaction on the chain and the countdown of
                    \* CONFIRM_POLL_SECONDS
    OneAddAtATime,  \* TRUE: two add_members requests never overlap
    NoQuickReturn   \* TRUE: add_members never overlaps with a remove_member
                    \* for the user it adds, which had read the row before
                    \* another one took the user out

VARIABLES
    member,    \* member[u]: thread_members row: status, role, leaf_index
    capacity,  \* threads.tree_leaf_capacity; 0 before the group exists
    events,    \* group_membership_events in the order of creation
    leaf,      \* leaf[i]: whose identity key is the public key of leaf i
    node,      \* node[n]: the key of inner node n
    epoch,     \* threads.key_epoch
    flag,      \* threads.rotation_pending
    secret,    \* users whose client can open the group key of the epoch
    orphaned,  \* history: users who held the key of a node when it was blanked
    job        \* job[s]: a transaction that has read and not yet committed

vars == <<member, capacity, events, leaf, node, epoch, flag, secret, orphaned, job>>
treeVars == <<leaf, node, epoch, flag, secret, orphaned>>

NoLeaf == MaxLeaves
Nobody == "nobody"    \* a leaf row whose public_key is NULL
Absent == "absent"    \* no row
ASSUME GroupAssumption ==
    /\ MaxLeaves \in Powers /\ MaxEvents \in Nat /\ MaxEpoch \in Nat
    /\ ConfirmIsSlow \in BOOLEAN /\ OneAddAtATime \in BOOLEAN /\ NoQuickReturn \in BOOLEAN
    /\ Nobody \notin Users /\ Absent \notin Users

Leaves == 0..(MaxLeaves - 1)
NoKey == [epoch |-> 0, by |-> Nobody, holders |-> {}]

Actions == {"create", "add", "remove", "leave"}

Event(action, subject, i) ==
    [action |-> action, subject |-> subject, leaf |-> i,
     chain |-> "pending", rotation |-> "waiting"]

Idle == [op |-> "idle"]

TypeOK ==
    /\ member \in [Users -> [status : {"never", "in", "left"},
                             role : {"owner", "member"}, leaf : Leaves \union {NoLeaf}]]
    /\ capacity \in 0..MaxLeaves
    /\ \A u \in Users : member[u].status = "in" => member[u].leaf < capacity
    /\ events \in Seq([action : Actions, subject : Users, leaf : Leaves \union {NoLeaf},
                       chain : {"pending", "submitted", "confirmed", "failed"},
                       rotation : {"waiting", "requested", "done"}])
    /\ leaf \in [Leaves -> Users \union {Nobody, Absent}]
    /\ node \in [Inner(MaxLeaves) -> [epoch : 0..MaxEpoch, by : Users \union {Nobody},
                                      holders : SUBSET Users]]
    /\ epoch \in 0..MaxEpoch
    /\ flag \in BOOLEAN
    /\ secret \subseteq Users /\ orphaned \subseteq Users
    /\ \A s \in Slots : job[s].op \in {"idle", "add", "remove", "confirm", "commit"}

Init ==
    /\ member = [u \in Users |-> [status |-> "never", role |-> "member", leaf |-> NoLeaf]]
    /\ capacity = 0
    /\ events = <<>>
    /\ leaf = [i \in Leaves |-> Absent]
    /\ node = [n \in Inner(MaxLeaves) |-> NoKey]
    /\ epoch = 0
    /\ flag = FALSE
    /\ secret = {}
    /\ orphaned = {}
    /\ job = [s \in Slots |-> Idle]

----------------------------------------------------------------------------
(* Helpers *)

Active(u) == member[u].status = "in"
ActiveMembers == {u \in Users : Active(u)}

Undone == {k \in DOMAIN events : events[k].rotation # "done"}
Requested == {k \in DOMAIN events : events[k].rotation = "requested"}

(* A transaction remembers in seen how many events there were at its read. *)
Now == Len(events)
Read(s, j) == job' = [job EXCEPT ![s] = j]
Done(s) == job' = [job EXCEPT ![s] = Idle]

NonBlank ==
    {LeafNode(i) : i \in {l \in Leaves : leaf[l] \in Users}}
      \union {n \in DOMAIN node : node[n] # NoKey}

Holders(n) == IF Ones[n] = 0 THEN {leaf[n \div 2]} ELSE node[n].holders

----------------------------------------------------------------------------
(* GroupService *)

(* create: the members take leaves 0, 1, ... in the order given. *)
Create(u) ==
    /\ capacity = 0
    /\ \E n \in 2..MaxLeaves : \E seat \in [0..(n - 1) -> Users] :
         /\ seat[0] = u
         /\ \A i, j \in DOMAIN seat : seat[i] = seat[j] => i = j
         /\ capacity' = CapacityFor(n)
         /\ member' = [v \in Users |->
              IF \E i \in DOMAIN seat : seat[i] = v
              THEN [status |-> "in", role |-> IF v = u THEN "owner" ELSE "member",
                    leaf |-> CHOOSE i \in DOMAIN seat : seat[i] = v]
              ELSE member[v]]
    /\ events' = <<Event("create", u, NoLeaf)>>
    /\ UNCHANGED <<treeVars, job>>

(* Mutant of FreeLeaf: unfinished events are not looked at.                *)
FreeLeafByMembers ==
    LET taken == {member[u].leaf : u \in ActiveMembers}
        free == {i \in 0..(capacity - 1) : i \notin taken /\ leaf[i] \notin Users}
    IN  IF free = {} THEN capacity ELSE Min(free)

(* _free_leaf: the first leaf that no active member holds, no unfinished   *)
(* event names and the tree has blank; the next one beyond the capacity    *)
(* if there is none.                                                       *)
FreeLeaf ==
    LET taken == {member[u].leaf : u \in ActiveMembers} \union {events[k].leaf : k \in Undone}
        free == {i \in 0..(capacity - 1) : i \notin taken /\ leaf[i] \notin Users}
    IN  IF free = {} THEN capacity ELSE Min(free)

(* add_members, the reads: an administrator invites v, who is not in. *)
AddRead(s, u, v) ==
    /\ job[s] = Idle /\ Len(events) < MaxEvents
    /\ Active(u) /\ member[u].role = "owner" /\ u # v /\ ~Active(v)
    /\ OneAddAtATime => \A r \in Slots : job[r].op # "add"
    /\ NoQuickReturn => \A r \in Slots : job[r].op = "remove" => job[r].subject # v
    /\ FreeLeaf < MaxLeaves
    /\ Read(s, [op |-> "add", seen |-> Now, subject |-> v, leaf |-> FreeLeaf,
                capacity |-> IF FreeLeaf < capacity THEN 0 ELSE CapacityFor(FreeLeaf + 1),
                insert |-> member[v].status = "never"])
    /\ UNCHANGED <<member, capacity, events, treeVars>>

(* Mutant of AddWrite: the tree does not grow.                             *)
AddWriteSameCapacity(s) ==
    LET j == job[s] v == j.subject IN
    /\ j.op = "add" /\ Len(events) < MaxEvents
    /\ member' = [member EXCEPT ![v] = [status |-> "in", role |-> "member", leaf |-> j.leaf]]
    /\ events' = Append(events, Event("add", v, j.leaf))
    /\ Done(s)
    /\ UNCHANGED <<capacity, treeVars>>

(* add_members, the commit: the row is inserted, which fails when someone  *)
(* else has just done it, or updated; the capacity is written if it grew.  *)
AddWrite(s) ==
    LET j == job[s] v == j.subject IN
    /\ j.op = "add"
    /\ IF j.insert /\ member[v].status # "never"
       THEN UNCHANGED <<member, capacity, events>>
       ELSE /\ Len(events) < MaxEvents
            /\ member' = [member EXCEPT ![v] =
                            [status |-> "in", role |-> "member", leaf |-> j.leaf]]
            /\ capacity' = IF j.capacity = 0 THEN capacity ELSE j.capacity
            /\ events' = Append(events, Event("add", v, j.leaf))
    /\ Done(s)
    /\ UNCHANGED treeVars

(* remove_member, the reads: u leaves, or the owner removes another member.*)
(* A leaving owner picks an heir among the other members; which of them    *)
(* joined first is left open (nothing ever assigns the role "admin").      *)
RemoveRead(s, u, v) ==
    /\ job[s] = Idle /\ Len(events) < MaxEvents
    /\ Active(u) /\ Active(v)
    /\ u # v => member[u].role = "owner" /\ member[v].role # "owner"
    /\ LET rest == ActiveMembers \ {v} IN
         \E heir \in IF member[v].role = "owner" /\ rest # {} THEN rest ELSE {Nobody} :
           Read(s, [op |-> "remove", seen |-> Now, subject |-> v, leaf |-> member[v].leaf, heir |-> heir,
                    action |-> IF u = v THEN "leave" ELSE "remove"])
    /\ UNCHANGED <<member, capacity, events, treeVars>>

(* remove_member, the commit: left_at, leaf_index and the heir's role. *)
RemoveWrite(s) ==
    LET j == job[s] IN
    /\ j.op = "remove" /\ Len(events) < MaxEvents
    /\ member' = [u \in Users |->
         IF u = j.subject THEN [member[u] EXCEPT !.status = "left", !.leaf = NoLeaf]
         ELSE IF u = j.heir THEN [member[u] EXCEPT !.role = "owner"]
         ELSE member[u]]
    /\ events' = Append(events, Event(j.action, j.subject, j.leaf))
    /\ Done(s)
    /\ UNCHANGED <<capacity, treeVars>>

----------------------------------------------------------------------------
(* The worker *)

(* anchor_membership: sent, or given up after MAX_RETRIES.  Its two reads  *)
(* of the row are one step: no other task writes a pending event.          *)
AnchorMembership(k) ==
    /\ events[k].chain = "pending"
    /\ \E c \in {"submitted", "failed"} : events' = [events EXCEPT ![k].chain = c]
    /\ UNCHANGED <<member, capacity, treeVars, job>>

(* Mutant of LeafWrites: an added user gets the leaf, member or not.       *)
LeafWritesUnchecked(k) ==
    LET ev == events[k] IN
    CASE ev.action = "create" ->
           LET taken == {member[u].leaf : u \in ActiveMembers} IN
             {w \in [taken -> ActiveMembers] : \A i \in taken : member[w[i]].leaf = i}
      [] ev.action = "add" -> {[i \in {ev.leaf} |-> ev.subject]}
      [] OTHER -> {[i \in {ev.leaf} |-> Nobody]}

(* The leaves that apply_membership_to_tree sets for event k: a leaf and   *)
(* the user whose identity key it gets.                                    *)
LeafWrites(k) ==
    LET ev == events[k] IN
    CASE ev.action = "create" ->
           LET taken == {member[u].leaf : u \in ActiveMembers} IN
             {w \in [taken -> ActiveMembers] : \A i \in taken : member[w[i]].leaf = i}
      [] ev.action = "add" ->
           IF Active(ev.subject) /\ member[ev.subject].leaf = ev.leaf
           THEN {[i \in {ev.leaf} |-> ev.subject]} ELSE {<<>>}
      [] OTHER -> {[i \in {ev.leaf} |-> Nobody]}

(* confirm_membership: the row is submitted and check() finds the          *)
(* transaction.  What is applied is what the snapshot shows.  A copy of    *)
(* the task may be queued by recheck_submitted while another one runs.     *)
ConfirmRead(s, k) ==
    /\ job[s] = Idle
    /\ events[k].chain = "submitted"
    /\ ConfirmIsSlow => \A r \in Slots : job[r] # Idle => job[r].seen >= k
    /\ \E w \in LeafWrites(k) :
         Read(s, [op |-> "confirm", seen |-> Now, event |-> k, leaves |-> w, flag |-> flag,
                  inserts |-> {i \in DOMAIN w : leaf[i] = Absent}])
    /\ UNCHANGED <<member, capacity, events, treeVars>>

(* The commit.  An INSERT of a leaf that has come to exist fails it; the   *)
(* flag is written only if the snapshot had it FALSE.                      *)
ConfirmWrite(s) ==
    LET j == job[s] IN
    /\ j.op = "confirm"
    /\ IF \E i \in j.inserts : leaf[i] # Absent
       THEN UNCHANGED <<events, leaf, flag>>
       ELSE /\ events' = [events EXCEPT ![j.event].chain = "confirmed",
                                        ![j.event].rotation = "requested"]
            /\ leaf' = [i \in Leaves |-> IF i \in DOMAIN j.leaves THEN j.leaves[i] ELSE leaf[i]]
            /\ flag' = (flag \/ ~j.flag)
    /\ Done(s)
    /\ UNCHANGED <<member, capacity, node, epoch, secret, orphaned>>

----------------------------------------------------------------------------
(* KeyService *)

(* Who can open the fresh key of every node on the path: processCommit     *)
(* works bottom-up and needs the private key of one of the targets.        *)
HoldersAfter(plan) ==
    LET opens(n, known, u) ==
          \E t \in plan.targets[n] : IF t \in plan.path THEN t \in known ELSE u \in Holders(t)
    IN  [n \in plan.path |-> {u \in Users : \A known \in SUBSET plan.path :
           (\A m \in plan.path : opens(m, known, u) => m \in known) => n \in known}]

(* tree_commit by member u, the reads: the plan is made from the requested *)
(* events, or for u's own branch if there are none and the commit is       *)
(* periodic; the client's nodes must match it, which makes an earlier      *)
(* GET /keys/plan irrelevant.                                              *)
CommitRead(s, u) ==
    /\ job[s] = Idle /\ epoch < MaxEpoch
    /\ Active(u)
    /\ \E l \in Leaves : leaf[l] \in Users
    /\ Requested = {} => epoch # 0 /\ member[u].leaf # NoLeaf
    /\ LET full == \E k \in Requested : events[k].action = "create"
           changed == IF Requested = {} THEN {member[u].leaf}
                      ELSE {events[k].leaf : k \in Requested} \ {NoLeaf}
           plan == PlanCommit(capacity, NonBlank, changed, full)
       IN  Read(s, [op |-> "commit", seen |-> Now, by |-> u, epoch |-> epoch + 1, flag |-> flag,
                    events |-> Requested, held |-> HoldersAfter(plan),
                    blanks |-> plan.blanks, root |-> Root(capacity)])
    /\ UNCHANGED <<member, capacity, events, treeVars>>

(* Mutant of CommitWrite: no UNIQUE key.                                   *)
CommitWriteTwice(s) ==
    LET j == job[s] IN
    /\ j.op = "commit"
    /\ node' = [n \in DOMAIN node |->
         IF n \in DOMAIN j.held THEN [epoch |-> j.epoch, by |-> j.by, holders |-> j.held[n]]
         ELSE IF n \in j.blanks THEN NoKey ELSE node[n]]
    /\ secret' = j.held[j.root]
    /\ orphaned' = orphaned \union UNION {node[n].holders : n \in j.blanks}
    /\ events' = [k \in DOMAIN events |->
         IF k \in j.events THEN [events[k] EXCEPT !.rotation = "done"] ELSE events[k]]
    /\ epoch' = j.epoch
    /\ flag' = (flag /\ ~j.flag)
    /\ Done(s)
    /\ UNCHANGED <<member, capacity, leaf>>

(* The commit.  The UNIQUE key on (thread, epoch) refuses a second commit  *)
(* of the same epoch; FOR UPDATE alone would not, the epoch it compares    *)
(* comes from the snapshot.                                                *)
CommitWrite(s) ==
    LET j == job[s] IN
    /\ j.op = "commit"
    /\ IF j.epoch <= epoch
       THEN UNCHANGED <<events, node, epoch, flag, secret, orphaned>>
       ELSE /\ node' = [n \in DOMAIN node |->
                 IF n \in DOMAIN j.held
                 THEN [epoch |-> j.epoch, by |-> j.by, holders |-> j.held[n]]
                 ELSE IF n \in j.blanks THEN NoKey ELSE node[n]]
            /\ secret' = j.held[j.root]
            /\ orphaned' = orphaned \union UNION {node[n].holders : n \in j.blanks}
            /\ events' = [k \in DOMAIN events |->
                 IF k \in j.events THEN [events[k] EXCEPT !.rotation = "done"] ELSE events[k]]
            /\ epoch' = j.epoch
            /\ flag' = (flag /\ ~j.flag)
    /\ Done(s)
    /\ UNCHANGED <<member, capacity, leaf>>

Next ==
    \/ \E u \in Users : Create(u)
    \/ \E k \in DOMAIN events : AnchorMembership(k)
    \/ \E s \in Slots :
         \/ \E u, v \in Users : AddRead(s, u, v) \/ RemoveRead(s, u, v)
         \/ \E k \in DOMAIN events : ConfirmRead(s, k)
         \/ \E u \in Users : CommitRead(s, u)
         \/ AddWrite(s) \/ RemoveWrite(s) \/ ConfirmWrite(s) \/ CommitWrite(s)

Spec == Init /\ [][Next]_vars

----------------------------------------------------------------------------
(* Properties *)

RemovalOutstanding(u) ==
    \E k \in Undone : events[k].subject = u /\ events[k].action \in {"remove", "leave"}

(* Who is out stays out: a user who has left or was removed can open the   *)
(* group key only as long as the rotation for that change is outstanding,  *)
(* whatever else was rotated, added or confirmed out of order meanwhile.   *)
(* The one exception is the user who was the last below some inner node:   *)
(* see RemovedExcluded.                                                    *)
ExcludedUnlessOrphaned ==
    \A u \in secret : Active(u) \/ RemovalOutstanding(u) \/ u \in orphaned

(* What tests/test_api_groups.py promises: the removed member does not get *)
(* the group key of the new epoch.                                         *)
RemovedExcluded == \A u \in secret : Active(u) \/ RemovalOutstanding(u)

(* Who is in can read: once every event about an active member has been    *)
(* rotated, no later rotation locks the member out.                        *)
MembersHoldSecret ==
    \A u \in ActiveMembers :
        epoch > 0 /\ (\A k \in Undone : events[k].subject # u /\ events[k].action # "create")
            => u \in secret

(* One commit per epoch: two members who rotate at the same time never     *)
(* both write the tree.                                                    *)
OneCommitPerEpoch == [][node' # node => epoch' = epoch + 1]_vars

=============================================================================
