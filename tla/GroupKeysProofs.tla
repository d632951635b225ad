---------------------------- MODULE GroupKeysProofs ----------------------------
(***************************************************************************)
(* Proofs about the keys of a group, in a tree of any size.                *)
(*                                                                         *)
(* OneCommitWins, on the server (GroupKeys): they change once per epoch,   *)
(* for any number of users, of overlapping transactions and of membership  *)
(* changes.  The property is not inductive: a transaction carries the      *)
(* epoch it read for its commit through its lock wait.  EpochInv says that *)
(* this epoch is the next one, or one that another commit has taken since, *)
(* which the uniqueness of (group, epoch) then refuses (key_service.py).   *)
(*                                                                         *)
(* EpochsAreOpen, in a member's client (GroupClient): it has the key of    *)
(* every epoch it has processed, for a tree of any size and any number of  *)
(* calls, epochs and changes.  OpenInv relates the node keys the client    *)
(* holds to the ones the server has stored: along the way from leaf 0 to   *)
(* the root they are the same, except where an epoch already processed has *)
(* replaced them.  What it needs of the tree comes first.                  *)
(*                                                                         *)
(* GroupTypeCorrect, GroupSecretExcludes and GroupSecretReaches, on the    *)
(* server: TypeOK, ExcludedUnlessOrphaned and MembersHoldSecret.  None is  *)
(* inductive: a transaction writes what it decided from a snapshot that    *)
(* others have overtaken.  GroupInv adds                                   *)
(*   TypesInv, what a transaction carries fits the tree as it has grown;   *)
(*   SeatInv, the members, the leaves of the tree and what transactions    *)
(*     in flight remember agree on who sits where, up to a later event;    *)
(*   KeysInv, the holders of every node key are the users with a leaf      *)
(*     below it, up to a change still to be rotated, and what a commit in  *)
(*     flight has planned will make it so again.                           *)
(* SeatInv holds only under the three assumptions GroupKeys names as       *)
(* constants; the types need OneAddAtATime alone.                          *)
(***************************************************************************)
EXTENDS GroupKeys, GroupClient, WellFoundedInduction, TLAPS

(* A commit that has been read is of the next epoch, or of one that is taken. *)
EpochInv ==
    /\ epoch \in Nat /\ DOMAIN job = Slots
    /\ \A s \in Slots : job[s].op = "commit" => job[s].epoch \in Nat /\ job[s].epoch <= epoch + 1

(* Every step keeps it, and one that stores node keys moves the epoch on by one. *)
LEMMA EpochStep ==
    ASSUME EpochInv, Next
    PROVE  EpochInv' /\ (node' = node \/ epoch' = epoch + 1)
<1>1. CASE (\E u \in Users : Create(u)) \/ (\E k \in DOMAIN events : AnchorMembership(k))
  BY <1>1 DEF EpochInv, Create, AnchorMembership, treeVars
<1>2. ASSUME NEW s \in Slots, NEW j, Read(s, j), j.op # "commit" \/ j.epoch = epoch + 1, UNCHANGED treeVars
      PROVE  EpochInv' /\ node' = node
  BY <1>2 DEF EpochInv, Read, treeVars
<1>3. ASSUME NEW s \in Slots, NEW u \in Users, NEW v \in Users, AddRead(s, u, v)
      PROVE  EpochInv' /\ node' = node
  <2> DEFINE j == [op |-> "add", seen |-> Now, subject |-> v, leaf |-> FreeLeaf,
                   capacity |-> IF FreeLeaf < capacity THEN 0 ELSE CapacityFor(FreeLeaf + 1),
                   insert |-> member[v].status = "never"]
  <2>1. Read(s, j) /\ UNCHANGED treeVars /\ j.op = "add"
    BY <1>3 DEF AddRead
  <2> HIDE DEF j
  <2> QED BY <1>2, <2>1
<1>4. ASSUME NEW s \in Slots, NEW u \in Users, NEW v \in Users, RemoveRead(s, u, v)
      PROVE  EpochInv' /\ node' = node
  <2> DEFINE rest == ActiveMembers \ {v}
             j(heir) == [op |-> "remove", seen |-> Now, subject |-> v, leaf |-> member[v].leaf, heir |-> heir,
                         action |-> IF u = v THEN "leave" ELSE "remove"]
  <2>1. PICK heir \in IF member[v].role = "owner" /\ rest # {} THEN rest ELSE {Nobody} : Read(s, j(heir))
    BY <1>4 DEF RemoveRead
  <2>2. UNCHANGED treeVars /\ j(heir).op = "remove"
    BY <1>4 DEF RemoveRead
  <2> HIDE DEF j
  <2> QED BY <1>2, <2>1, <2>2
<1>5. ASSUME NEW s \in Slots, NEW k \in DOMAIN events, ConfirmRead(s, k)
      PROVE  EpochInv' /\ node' = node
  <2> DEFINE j(w) == [op |-> "confirm", seen |-> Now, event |-> k, leaves |-> w, flag |-> flag,
                      inserts |-> {i \in DOMAIN w : leaf[i] = Absent}]
  <2>1. PICK w \in LeafWrites(k) : Read(s, j(w))
    BY <1>5 DEF ConfirmRead
  <2>2. UNCHANGED treeVars /\ j(w).op = "confirm"
    BY <1>5 DEF ConfirmRead
  <2> HIDE DEF j
  <2> QED BY <1>2, <2>1, <2>2
<1>6. ASSUME NEW s \in Slots, NEW u \in Users, CommitRead(s, u)
      PROVE  EpochInv' /\ node' = node
  <2> DEFINE full == \E k \in Requested : events[k].action = "create"
             changed == IF Requested = {} THEN {member[u].leaf}
                        ELSE {events[k].leaf : k \in Requested} \ {NoLeaf}
             plan == PlanCommit(capacity, NonBlank, changed, full)
             j == [op |-> "commit", seen |-> Now, by |-> u, epoch |-> epoch + 1, flag |-> flag,
                   events |-> Requested, held |-> HoldersAfter(plan),
                   blanks |-> plan.blanks, root |-> Root(capacity)]
  <2>1. Read(s, j) /\ UNCHANGED treeVars /\ j.epoch = epoch + 1
    BY <1>6 DEF CommitRead
  <2> HIDE DEF j
  <2> QED BY <1>2, <2>1
<1>7. ASSUME NEW s \in Slots, AddWrite(s) \/ RemoveWrite(s) \/ ConfirmWrite(s)
      PROVE  EpochInv' /\ node' = node
  <2>1. UNCHANGED <<epoch, node>> /\ job' = [job EXCEPT ![s] = Idle]
    BY <1>7 DEF AddWrite, RemoveWrite, ConfirmWrite, Done, treeVars
  <2> QED BY <2>1 DEF EpochInv, Idle
<1>8. ASSUME NEW s \in Slots, CommitWrite(s)
      PROVE  EpochInv' /\ (node' = node \/ epoch' = epoch + 1)
  <2>1. /\ job[s].op = "commit" /\ job' = [job EXCEPT ![s] = Idle]
        /\ \/ job[s].epoch <= epoch /\ UNCHANGED <<epoch, node>>
           \/ ~(job[s].epoch <= epoch) /\ epoch' = job[s].epoch
    BY <1>8 DEF CommitWrite, Done
  <2>2. job[s].epoch \in Nat /\ job[s].epoch <= epoch + 1 /\ epoch \in Nat
    BY <2>1 DEF EpochInv
  <2>3. epoch' \in Nat /\ epoch <= epoch' /\ (node' = node \/ epoch' = epoch + 1)
    BY <2>1, <2>2
  <2> QED BY <2>1, <2>3 DEF EpochInv, Idle
<1> QED BY <1>1, <1>3, <1>4, <1>5, <1>6, <1>7, <1>8 DEF Next

(* Two commits never share an epoch: node keys change with the epoch, and it grows by one, *)
(* however overlapping commits read it (key_service.py, the unique constraint on epochs).  *)
THEOREM OneCommitWins == Spec => OneCommitPerEpoch
<1>1. Init => EpochInv
  BY DEF Init, EpochInv, Idle
<1>2. EpochInv /\ [Next]_vars => EpochInv'
  BY EpochStep DEF EpochInv, vars
<1>3. EpochInv /\ [Next]_vars => [node' # node => epoch' = epoch + 1]_vars
  BY EpochStep DEF vars
<1> QED BY <1>1, <1>2, <1>3, PTL DEF Spec, OneCommitPerEpoch

(***************************************************************************)
(* The tree                                                                *)
(***************************************************************************)
Smaller == {p \in Nat \X Nat : p[1] < p[2]}

(* A nonempty set of numbers has a least element.                          *)
LEMMA LeastNumber ==
    ASSUME NEW T, T \subseteq Nat, T # {}
    PROVE  \E x \in T : \A y \in T : x <= y
<1>1. IsWellFoundedOn(Smaller, Nat)
  BY NatLessThanWellFounded DEF OpToRel, Smaller
<1>2. PICK x \in T : \A y \in T : <<y, x>> \notin Smaller
  BY <1>1, WFMin
<1>3. ASSUME NEW y \in T PROVE x <= y
  <2>1. x \in Nat /\ y \in Nat /\ <<y, x>> \in Nat \X Nat /\ <<y, x>>[1] = y /\ <<y, x>>[2] = x
    OBVIOUS
  <2> QED BY <1>2, <2>1 DEF Smaller
<1> QED BY <1>3

(* Halving a number.                                                        *)
LEMMA Halves == \A x \in Nat : /\ x \div 2 \in Nat /\ x % 2 \in {0, 1} /\ x = 2 * (x \div 2) + (x % 2)
                               /\ (x % 2 = 1 => x \div 2 < x)
OBVIOUS

(* The function Ones exists: what it says of itself is true.               *)
OnesTo(n, f) == \A x \in 0 .. n : f[x] = IF x % 2 = 0 THEN 0 ELSE 2 * f[x \div 2] + 1

(* The equation of Ones has a solution up to any number,                    *)
LEMMA OnesToExists == \A n \in Nat : \E f : OnesTo(n, f)
<1> DEFINE Bad == {n \in Nat : ~ \E f : OnesTo(n, f)}
<1> SUFFICES Bad = {}
  OBVIOUS
<1> SUFFICES ASSUME Bad # {} PROVE FALSE
  OBVIOUS
<1>1. PICK n \in Bad : \A y \in Bad : n <= y
  <2> HIDE DEF Bad
  <2>1. Bad \subseteq Nat
    BY DEF Bad
  <2> QED BY <2>1, LeastNumber
<1>2. PICK f : \A x \in Nat : x < n => f[x] = IF x % 2 = 0 THEN 0 ELSE 2 * f[x \div 2] + 1
  <2>1. CASE n = 0
    BY <2>1
  <2>2. CASE n # 0
    <3>1. n - 1 \in Nat /\ n - 1 < n
      BY <1>1, <2>2
    <3>2. PICK f : OnesTo(n - 1, f)
      BY <1>1, <3>1
    <3> QED BY <3>1, <3>2 DEF OnesTo
  <2> QED BY <2>1, <2>2
<1> DEFINE g == [x \in Nat |-> IF x < n THEN f[x] ELSE IF x % 2 = 0 THEN 0 ELSE 2 * f[x \div 2] + 1]
<1>3. OnesTo(n, g)
  <2> SUFFICES ASSUME NEW x \in 0 .. n PROVE g[x] = IF x % 2 = 0 THEN 0 ELSE 2 * g[x \div 2] + 1
    BY DEF OnesTo
  <2>1. x \in Nat /\ n \in Nat
    BY <1>1
  <2>2. CASE x % 2 = 0
    BY <1>2, <2>1, <2>2
  <2>3. CASE x % 2 # 0
    <3>1. x \div 2 \in Nat /\ x \div 2 < n
      BY <2>1, <2>3, Halves
    <3>2. g[x \div 2] = f[x \div 2]
      BY <3>1
    <3>3. g[x] = 2 * f[x \div 2] + 1
      BY <1>2, <2>1, <2>3
    <3> QED BY <2>3, <3>2, <3>3
  <2> QED BY <2>2, <2>3
<1> QED BY <1>1, <1>3

(* and two of them agree where both are defined.                            *)
LEMMA OnesToUnique ==
    ASSUME NEW m \in Nat, NEW n \in Nat, NEW f, NEW g, OnesTo(m, f), OnesTo(n, g)
    PROVE  \A x \in Nat : x <= m /\ x <= n => f[x] = g[x]
<1> DEFINE Bad == {x \in Nat : x <= m /\ x <= n /\ f[x] # g[x]}
<1> SUFFICES ASSUME Bad # {} PROVE FALSE
  OBVIOUS
<1>1. PICK x \in Bad : \A y \in Bad : x <= y
  <2> HIDE DEF Bad
  <2>1. Bad \subseteq Nat
    BY DEF Bad
  <2> QED BY <2>1, LeastNumber
<1>2. x \in Nat /\ x \in 0 .. m /\ x \in 0 .. n
  BY <1>1
<1>3. x % 2 # 0 /\ f[x] = 2 * f[x \div 2] + 1 /\ g[x] = 2 * g[x \div 2] + 1
  BY <1>1, <1>2 DEF OnesTo
<1>4. x \div 2 \in Nat /\ x \div 2 < x
  BY <1>2, <1>3, Halves
<1>5. f[x \div 2] = g[x \div 2]
  BY <1>1, <1>2, <1>4
<1> QED BY <1>1, <1>3, <1>5

(* So Ones satisfies its own equation (level, treekem.py),                  *)
LEMMA OnesIs == Ones = [x \in Nat |-> IF x % 2 = 0 THEN 0 ELSE 2 * Ones[x \div 2] + 1]
<1> DEFINE F(x) == CHOOSE f : OnesTo(x, f)
           G == [x \in Nat |-> F(x)[x]]
           Step(f) == [x \in Nat |-> IF x % 2 = 0 THEN 0 ELSE 2 * f[x \div 2] + 1]
<1>1. \A x \in Nat : OnesTo(x, F(x))
  BY OnesToExists
<1>2. ASSUME NEW x \in Nat PROVE G[x] = IF x % 2 = 0 THEN 0 ELSE 2 * G[x \div 2] + 1
  <2>1. F(x)[x] = IF x % 2 = 0 THEN 0 ELSE 2 * F(x)[x \div 2] + 1
    BY <1>1 DEF OnesTo
  <2>2. CASE x % 2 = 0
    BY <2>1, <2>2
  <2>3. CASE x % 2 # 0
    <3>1. x \div 2 \in Nat /\ x \div 2 <= x
      BY <2>3, Halves
    <3>2. F(x)[x \div 2] = F(x \div 2)[x \div 2]
      <4> HIDE DEF F
      <4> QED BY <1>1, <3>1, OnesToUnique
    <3> QED BY <2>1, <2>3, <3>1, <3>2
  <2> QED BY <2>2, <2>3
<1>3. G = Step(G)
  <2> HIDE DEF F
  <2>1. \A x \in Nat : G[x] = Step(G)[x]
    <3> HIDE DEF G
    <3> QED BY <1>2
  <2> QED BY <2>1
<1>4. Ones = CHOOSE f : f = Step(f)
  BY DEF Ones
<1> QED BY <1>3, <1>4

(* which gives its values one by one.                                       *)
LEMMA OnesStep == \A x \in Nat : Ones[x] = IF x % 2 = 0 THEN 0 ELSE 2 * Ones[x \div 2] + 1
BY OnesIs

(* The trailing one bits of a number are at most the number.               *)
LEMMA OnesBound == \A x \in Nat : Ones[x] \in 0 .. x
<1> DEFINE Bad == {x \in Nat : Ones[x] \notin 0 .. x}
<1> SUFFICES ASSUME Bad # {} PROVE FALSE
  OBVIOUS
<1>1. PICK x \in Bad : \A y \in Bad : x <= y
  <2> HIDE DEF Bad
  <2>1. Bad \subseteq Nat
    BY DEF Bad
  <2> QED BY <2>1, LeastNumber
<1>2. x % 2 # 0 /\ Ones[x] = 2 * Ones[x \div 2] + 1
  BY <1>1, OnesStep
<1>3. x \div 2 \in Nat /\ x \div 2 < x /\ x = 2 * (x \div 2) + 1
  BY <1>1, <1>2, Halves
<1>4. Ones[x \div 2] \in 0 .. (x \div 2)
  BY <1>1, <1>3
<1> QED BY <1>1, <1>2, <1>3, <1>4

(* The nodes above leaf 0, and what is at the left below each of them: the *)
(* next of them, and in the end the leaf.                                  *)
MyPath == {n \in Nodes : Ones[n] = n}

(* The left child of a node above leaf 0 is the next one above it, or leaf 0. *)
LEMMA PathShape ==
    /\ Nodes \subseteq Nat
    /\ Root(Capacity) \in MyPath
    /\ \A n \in Nodes : n # 0 /\ n % 2 = 1
    /\ \A n \in MyPath : /\ Left(n) \in Nat /\ Left(n) < n /\ n = 2 * Left(n) + 1
                         /\ Left(n) = 0 \/ Left(n) \in MyPath
<1>1. Capacity \in Nat /\ Capacity > 1 /\ Ones[Capacity - 1] = Capacity - 1
  BY GroupClientAssumption
<1>2. \A n \in Nodes : n \in Nat /\ n <= 2 * Capacity - 2 /\ Ones[n] > 0
  BY <1>1 DEF Nodes, Inner, NodeCount
<1>3. Root(Capacity) \in MyPath
  BY <1>1 DEF MyPath, Nodes, Inner, NodeCount, Root
<1>4. \A n \in Nodes : n # 0 /\ n % 2 = 1
  <2> SUFFICES ASSUME NEW n \in Nodes PROVE n # 0 /\ n % 2 = 1
    OBVIOUS
  <2>1. n \in Nat /\ Ones[n] # 0
    BY <1>2
  <2>2. n % 2 # 0
    BY <2>1, OnesStep
  <2> QED BY <2>1, <2>2, Halves
<1>5. ASSUME NEW n \in MyPath
      PROVE  /\ Left(n) \in Nat /\ Left(n) < n /\ n = 2 * Left(n) + 1
             /\ Left(n) = 0 \/ Left(n) \in MyPath
  <2>1. n \in Nat /\ n % 2 = 1 /\ Ones[n] = n /\ n <= 2 * Capacity - 2
    BY <1>2, <1>4 DEF MyPath
  <2>2. n \div 2 \in Nat /\ n \div 2 < n /\ n = 2 * (n \div 2) + 1
    BY <2>1, Halves
  <2>3. Ones[n] = 2 * Ones[n \div 2] + 1
    BY <2>1, OnesStep
  <2>4. Ones[n \div 2] \in Nat
    BY <2>2, OnesBound
  <2>5. Ones[n \div 2] = n \div 2
    BY <2>1, <2>2, <2>3, <2>4
  <2>6. Left(n) = n - ((n + 1) \div 2)
    BY <2>1 DEF Left
  <2>7. Left(n) = n \div 2
    BY <2>1, <2>2, <2>6
  <2>8. n \div 2 # 0 => n \div 2 \in MyPath
    BY <1>1, <2>1, <2>2, <2>5 DEF MyPath, Nodes, Inner, NodeCount
  <2> QED BY <2>2, <2>7, <2>8
<1> QED BY <1>2, <1>3, <1>4, <1>5

(* direct_path of leaf 0 finds just these nodes.                            *)
LEMMA MyPathIsPath ==
    DirectPath(LeafNode(MyLeaf), Capacity) = MyPath
<1>1. Capacity \in Nat /\ Capacity > 1
  BY GroupClientAssumption
<1>2. LeafNode(MyLeaf) = 0
  BY DEF LeafNode, MyLeaf
<1>3. \A n \in Nat : Ones[n] \in Nat /\ Ones[n] <= n
  BY OnesBound
<1>4. \A n \in Nat : 0 \in Subtree(n) <=> Ones[n] = n
  BY <1>3 DEF Subtree
<1>5. \A n : n \in 0 .. (NodeCount(Capacity) - 1) => n \in Nat
  BY <1>1 DEF NodeCount
<1>6. \A n : n \in MyPath <=> n \in 0 .. (NodeCount(Capacity) - 1) /\ n # 0 /\ 0 \in Subtree(n)
  <2> SUFFICES ASSUME NEW n \in 0 .. (NodeCount(Capacity) - 1)
               PROVE  Ones[n] > 0 /\ Ones[n] = n <=> n # 0 /\ 0 \in Subtree(n)
    BY DEF MyPath, Nodes, Inner
  <2> QED BY <1>3, <1>4, <1>5
<1> QED BY <1>2, <1>6 DEF DirectPath

(* What lies below a leaf, and below a node above leaf 0.                  *)
LEMMA Below ==
    /\ \A n \in Nat : n \in Subtree(n)
    /\ \A n \in MyPath : Subtree(n) = 0 .. (2 * n) /\ 0 \in SubtreeLeaves(n)
<1>1. \A n \in Nat : Ones[n] \in Nat /\ Ones[n] <= n
  BY OnesBound
<1>2. \A n \in Nat : n \in Subtree(n)
  BY <1>1 DEF Subtree
<1>3. ASSUME NEW n \in MyPath PROVE Subtree(n) = 0 .. (2 * n) /\ 0 \in SubtreeLeaves(n)
  <2>1. n \in Nat /\ Ones[n] = n
    BY PathShape DEF MyPath
  <2>2. Subtree(n) = 0 .. (2 * n)
    BY <2>1 DEF Subtree
  <2>3. SubtreeLeaves(n) = 0 .. n
    BY <2>1 DEF SubtreeLeaves
  <2> QED BY <2>1, <2>2, <2>3
<1> QED BY <1>2, <1>3

(* Of the nodes below one that is all ones, no other has that one below.   *)
LEMMA AllOnesAlone ==
    \A n \in Nat : Ones[n] = n => \A a \in 0 .. (2 * n) : a # n => n \notin Subtree(a)
<1> DEFINE Apart(n) == \A a \in Nat : (a < n => a + Ones[a] < n) /\ (n < a /\ a <= 2 * n => a - Ones[a] > n)
           Bad == {n \in Nat : Ones[n] = n /\ ~Apart(n)}
<1>1. Bad = {}
  <2> SUFFICES ASSUME Bad # {} PROVE FALSE
    OBVIOUS
  <2>1. PICK n \in Bad : \A y \in Bad : n <= y
    <3> HIDE DEF Bad
    <3>1. Bad \subseteq Nat
      BY DEF Bad
    <3> QED BY <3>1, LeastNumber
  <2> HIDE DEF Apart
  <2>2. n \in Nat /\ Ones[n] = n /\ ~Apart(n)
    BY <2>1
  <2>3. n # 0
    BY <2>2 DEF Apart
  <2> DEFINE m == n \div 2
  <2>4. n % 2 = 1 /\ m \in Nat /\ m < n /\ n = 2 * m + 1
    BY <2>2, <2>3, OnesStep, Halves
  <2>5. Ones[m] = m
    <3>1. Ones[n] = 2 * Ones[m] + 1 /\ Ones[m] \in Nat
      BY <2>2, <2>4, OnesStep, OnesBound
    <3> HIDE DEF m
    <3> QED BY <3>1, <2>2, <2>4
  <2>6. Apart(m)
    <3> HIDE DEF m
    <3> QED BY <2>1, <2>4, <2>5
  <2> HIDE DEF m
  <2>7. ASSUME NEW a \in Nat
        PROVE  (a < n => a + Ones[a] < n) /\ (n < a /\ a <= 2 * n => a - Ones[a] > n)
    <3>1. CASE a % 2 = 0
      BY <3>1, <2>2, OnesStep
    <3>2. CASE a % 2 # 0
      <4> DEFINE b == a \div 2
      <4>1. a = 2 * b + 1 /\ b \in Nat
        BY <3>2, Halves
      <4>2. Ones[a] = 2 * Ones[b] + 1 /\ Ones[b] \in Nat
        BY <3>2, <4>1, OnesStep, OnesBound
      <4> HIDE DEF b
      <4>3. (b < m => b + Ones[b] < m) /\ (m < b /\ b <= 2 * m => b - Ones[b] > m)
        BY <2>6, <4>1 DEF Apart
      <4> QED BY <4>1, <4>2, <4>3, <2>4
    <3> QED BY <3>1, <3>2
  <2> QED BY <2>2, <2>7 DEF Apart
<1>2. ASSUME NEW n \in Nat, Ones[n] = n, NEW a \in 0 .. (2 * n), a # n
      PROVE  n \notin Subtree(a)
  <2>1. Apart(n)
    BY <1>1, <1>2
  <2>2. a \in Nat /\ a <= 2 * n /\ Ones[a] \in Nat
    BY OnesBound
  <2>3. a < n => a + Ones[a] < n
    BY <2>1, <2>2
  <2>4. n < a => a - Ones[a] > n
    BY <2>1, <2>2
  <2> QED BY <1>2, <2>2, <2>3, <2>4 DEF Subtree
<1> QED BY <1>2

(* A nonblank node above leaf 0 covers itself, and so does the leaf.       *)
LEMMA Covered ==
    ASSUME NEW n \in MyPath \union {0}, NEW filled, n \in filled
    PROVE  n \in Resolution(n, filled)
<1>1. n \in Nat /\ Ones[n] = n
  BY PathShape, OnesBound DEF MyPath
<1>2. Subtree(n) = 0 .. (2 * n) /\ n \in Subtree(n)
  BY <1>1 DEF Subtree
<1>3. \A a \in filled \intersect Subtree(n) : n \in Subtree(a) => a = n
  BY <1>1, <1>2, AllOnesAlone
<1> QED BY <1>2, <1>3 DEF Resolution

(***************************************************************************)
(* What a plan says of the nodes above leaf 0                              *)
(***************************************************************************)
Leaf0Plan(plan, filled) ==
    /\ plan.path \subseteq Nodes
    /\ Root(Capacity) \in plan.path
    /\ plan.blanks \intersect MyPath = {}
    /\ \A m \in plan.path \intersect MyPath : \A n \in MyPath : Left(n) = m => n \in plan.path
    /\ \A n \in plan.path \intersect MyPath :
          Left(n) \in filled \union plan.path => Left(n) \in plan.targets[n]

(* plan_commit: the keys above leaf 0 that a plan makes fresh go up to the root without a gap. *)
LEMMA PlanSound ==
    ASSUME NEW filled, LeafNode(MyLeaf) \in filled,
           NEW changed \in SUBSET (0 .. (Capacity - 1)), NEW full \in BOOLEAN,
           full \/ changed # {}
    PROVE  LET plan == PlanCommit(Capacity, filled, changed, full)
           IN  Leaf0Plan(plan, filled) /\ (full => MyPath \subseteq plan.path)
<1> DEFINE plan == PlanCommit(Capacity, filled, changed, full)
           occupied == {i \in 0..(Capacity - 1) : LeafNode(i) \in filled}
           candidates == IF Capacity = 1 THEN {}
                         ELSE IF full THEN Inner(Capacity)
                         ELSE UNION {DirectPath(LeafNode(i), Capacity) : i \in changed}
           fresh == {n \in candidates : SubtreeLeaves(n) \intersect occupied # {}}
           targets == [n \in fresh |-> Resolution(Left(n), filled \union fresh)
                                         \union Resolution(Right(n), filled \union fresh)]
<1>1. Capacity \in Nat /\ Capacity > 1
  BY GroupClientAssumption
<1>2. plan = [path |-> fresh, blanks |-> candidates \ fresh, targets |-> targets]
  BY DEF PlanCommit
<1> HIDE DEF plan
<1>3. candidates = IF full THEN Inner(Capacity)
                    ELSE UNION {DirectPath(LeafNode(i), Capacity) : i \in changed}
  BY <1>1
<1>4. 0 \in occupied
  BY <1>1 DEF LeafNode, MyLeaf
<1>5. fresh \subseteq candidates
  OBVIOUS
<1>6. \A n \in MyPath : n \in candidates => n \in fresh
  BY <1>4, Below
<1> HIDE DEF candidates
<1>7. candidates \subseteq Nodes
  <2> SUFFICES ASSUME NEW i \in changed, NEW n \in DirectPath(LeafNode(i), Capacity) PROVE n \in Nodes
    BY <1>3 DEF Nodes
  <2>1. n \in 0 .. (NodeCount(Capacity) - 1) /\ n # 2 * i /\ 2 * i \in Subtree(n)
    BY DEF DirectPath, LeafNode
  <2>2. n \in Nat /\ i \in Nat /\ Ones[n] \in Nat
    BY <1>1, <2>1, OnesBound DEF NodeCount
  <2>3. Ones[n] # 0
    BY <2>1, <2>2 DEF Subtree
  <2> QED BY <2>1, <2>2, <2>3 DEF Nodes, Inner
<1>8. Root(Capacity) \in candidates
  <2>1. Root(Capacity) \in MyPath /\ Root(Capacity) \in Nodes
    BY PathShape DEF MyPath
  <2>2. CASE full
    BY <1>3, <2>1, <2>2 DEF Nodes
  <2>3. CASE ~full
    <3>1. PICK i \in changed : TRUE
      BY <2>3
    <3>2. i \in Nat /\ i <= Capacity - 1 /\ 2 * i \in Nat
      BY <1>1
    <3>3. 2 * i \in Subtree(Root(Capacity))
      BY <1>1, <2>1, <3>2, Below DEF Root
    <3>4. Root(Capacity) # 2 * i
      BY <2>1, <3>2, PathShape
    <3>5. Root(Capacity) \in DirectPath(LeafNode(i), Capacity)
      BY <2>1, <3>3, <3>4 DEF DirectPath, LeafNode, Nodes, Inner
    <3> QED BY <1>3, <2>3, <3>1, <3>5
  <2> QED BY <2>2, <2>3
<1>9. ASSUME NEW m \in candidates \intersect MyPath, NEW n \in MyPath, Left(n) = m
      PROVE  n \in candidates
  <2>1. CASE full
    BY <1>3, <2>1 DEF MyPath, Nodes
  <2>2. CASE ~full
    <3>1. PICK i \in changed : m \in DirectPath(LeafNode(i), Capacity)
      BY <1>9, <1>3, <2>2
    <3>2. 2 * i \in Subtree(m) /\ i \in Nat /\ 2 * i \in Nat
      BY <1>1, <3>1 DEF DirectPath, LeafNode
    <3>3. m \in Nat /\ n \in Nat /\ m < n /\ n % 2 = 1 /\ n \in Nodes
      BY <1>9, PathShape DEF MyPath
    <3>4. 2 * i \in Subtree(n)
      <4>1. Subtree(m) = 0 .. (2 * m) /\ Subtree(n) = 0 .. (2 * n)
        BY Below
      <4> QED BY <3>2, <3>3, <4>1
    <3>5. n # 2 * i
      BY <3>2, <3>3
    <3>6. n \in DirectPath(LeafNode(i), Capacity)
      BY <3>3, <3>4, <3>5 DEF DirectPath, LeafNode, Nodes, Inner
    <3> QED BY <1>3, <2>2, <3>6
  <2> QED BY <2>1, <2>2
<1>10. ASSUME NEW n \in fresh \intersect MyPath, Left(n) \in filled \union fresh
      PROVE  Left(n) \in targets[n]
  <2>1. Left(n) \in MyPath \union {0}
    BY PathShape
  <2>2. Left(n) \in Resolution(Left(n), filled \union fresh)
    BY <1>10, <2>1, Covered
  <2> QED BY <2>2
<1>11. full => MyPath \subseteq fresh
  BY <1>6, <1>3 DEF MyPath, Nodes
<1>12. Root(Capacity) \in fresh
  BY <1>6, <1>8, PathShape
<1> HIDE DEF targets
<1>13. plan.path = fresh /\ plan.blanks = candidates \ fresh /\ plan.targets = targets
  BY <1>2
<1> HIDE DEF fresh
<1> QED BY <1>6, <1>7, <1>9, <1>10, <1>11, <1>12, <1>13, <1>5 DEF Leaf0Plan, plan

(***************************************************************************)
(* The invariant                                                           *)
(***************************************************************************)
Seats == 0 .. (Capacity - 1)
NodeKeys == [Nodes -> Nat]

(* What the server and the client keep.                                    *)
KeysTyped ==
    /\ tree \in [epoch : 0 .. MaxCommits, gen : NodeKeys, occupied : SUBSET Seats, due : SUBSET Seats,
                 full : BOOLEAN, vers : SUBSET Nat]
    /\ MyLeaf \in tree.occupied
    /\ DOMAIN commits = Epochs
    /\ version \in Nat /\ privs \in NodeKeys /\ processed \in 0 .. tree.epoch
    /\ calm \in Nat

(* A call of syncTree is at an epoch the client has processed, or the next. *)
CallsTyped ==
    /\ DOMAIN sync = Calls
    /\ \A s \in Calls :
         \/ sync[s] = NoCall
         \/ sync[s] \in [pc : {"asked"}, since : 0 .. processed]
         \/ /\ sync[s] \in [pc : {"list", "work"}, next : 1 .. (processed + 1), last : 1 .. tree.epoch]
            /\ sync[s].next <= sync[s].last

(* A rotation that is planned is of the next epoch and has the leaf's key   *)
(* as it was since the last commit, or its epoch is taken.                 *)
RotationSound ==
    /\ rotating.pc # "synced" => sync[Rotation] = NoCall
    /\ rotating.pc = "planned" => /\ rotating.epoch \in Nat /\ rotating.epoch <= tree.epoch + 1
                                  /\ rotating.epoch = tree.epoch + 1 => rotating.ver \in tree.vers

(* The node keys after the commit of epoch e.                              *)
KeysAfter(e) == IF e < tree.epoch THEN commits[e + 1].gen ELSE tree.gen

(* The commit of epoch e follows a plan; from the epoch calm on it is       *)
(* sealed to the member's own key, and no node above leaf 0 is blank.       *)
CommitSound(e) ==
    LET c == commits[e] IN
    /\ c.path \subseteq Nodes /\ Root(Capacity) \in c.path
    /\ c.blanks \intersect MyPath = {}
    /\ c.gen \in NodeKeys
    /\ \A m \in c.path \intersect MyPath : \A n \in MyPath : Left(n) = m => n \in c.path
    /\ \A n \in c.path \intersect MyPath :
         Left(n) = 0 \/ Left(n) \in c.path \/ c.gen[Left(n)] # 0 => Left(n) \in c.targets[n]
    /\ \A n \in MyPath : KeysAfter(e)[n] = IF n \in c.path THEN e ELSE c.gen[n]
    /\ e >= calm => c.ver = version /\ \A n \in MyPath : KeysAfter(e)[n] # 0
    /\ e = calm => MyPath \subseteq c.path

CommitsSound == \A e \in 1 .. tree.epoch : CommitSound(e)

CalmSound ==
    /\ \/ calm \in 1 .. tree.epoch \/ calm = MaxCommits + 1
       \/ calm = 1 /\ tree.epoch = 0 /\ tree.full
    /\ calm <= MaxCommits => tree.vers = {version}
    /\ version \in tree.vers

(* Where epoch k is the next to work on, every key above leaf 0 is the one  *)
(* of epoch k - 1, unless an epoch that was processed already replaces it.  *)
InStep(k) ==
    calm < k => \A n \in MyPath : \/ privs[n] = KeysAfter(k - 1)[n]
                                 \/ \E j \in k .. processed : n \in commits[j].path

AtWork == {s \in Calls : sync[s].pc = "work"}

WorkSound ==
    /\ AtWork = {} => InStep(processed + 1)
    /\ \A s \in Calls : AtWork = {s} => InStep(sync[s].next)

OpenInv ==
    /\ KeysTyped /\ CallsTyped /\ RotationSound /\ CommitsSound /\ CalmSound /\ WorkSound
    /\ EpochsOpen

(***************************************************************************)
(* Steps of the client that move no key                                    *)
(***************************************************************************)
LEMMA CallShapes ==
    /\ NoCall.pc = "idle"
    /\ \A c, S : c \in [pc : {"asked"}, since : S] => c.pc = "asked" /\ c.since \in S
    /\ \A c, S, T : c \in [pc : {"list", "work"}, next : S, last : T] =>
          c.pc \in {"list", "work"} /\ c.next \in S /\ c.last \in T
BY DEF NoCall

(* A step that moves no key keeps what is said of the keys alone.           *)
LEMMA KeysStay ==
    ASSUME OpenInv, UNCHANGED <<tree, commits, version, privs, processed, secrets, calm>>,
           CallsTyped', RotationSound', WorkSound'
    PROVE  OpenInv'
<1>1. KeysTyped' /\ CalmSound' /\ EpochsOpen'
  BY DEF OpenInv, KeysTyped, CalmSound, EpochsOpen, Readable
<1>2. CommitsSound'
  BY DEF OpenInv, CommitsSound, CommitSound, KeysAfter
<1> QED BY <1>1, <1>2 DEF OpenInv

(* The calls at work and where they are decide WorkSound.                  *)
LEMMA WorkStays ==
    ASSUME OpenInv, UNCHANGED <<tree, commits, version, privs, processed, secrets, calm>>,
           AtWork' = AtWork, \A s \in AtWork : sync'[s].next = sync[s].next
    PROVE  WorkSound'
<1>1. \A k : InStep(k)' = InStep(k)
  BY DEF InStep, KeysAfter
<1>2. AtWork' = {} => InStep(processed + 1)'
  BY <1>1 DEF OpenInv, WorkSound
<1>3. \A s \in Calls : AtWork' = {s} => InStep(sync[s].next)'
  BY <1>1 DEF OpenInv, WorkSound
<1> QED BY <1>2, <1>3 DEF WorkSound

(* What a call of syncTree has, by where it is.                             *)
LEMMA CallOf ==
    ASSUME OpenInv, NEW s \in Calls
    PROVE  /\ sync[s].pc = "asked" => sync[s] \in [pc : {"asked"}, since : 0 .. processed]
           /\ sync[s].pc \in {"list", "work"} =>
                /\ sync[s] \in [pc : {"list", "work"}, next : 1 .. (processed + 1), last : 1 .. tree.epoch]
                /\ sync[s].next <= sync[s].last
           /\ sync[s].pc = "idle" => sync[s] = NoCall
BY CallShapes DEF OpenInv, CallsTyped

(* A call of syncTree begins (app/data.js).                                 *)
LEMMA StartSyncKeeps ==
    ASSUME OpenInv, NEW s, StartSync(s)
    PROVE  OpenInv'
<1>1. /\ s \in Syncs /\ s \in Calls /\ sync[s] = NoCall
      /\ sync' = [sync EXCEPT ![s] = [pc |-> "asked", since |-> processed]]
      /\ UNCHANGED <<tree, commits, version, privs, processed, secrets, calm, rotating>>
  BY DEF StartSync, AskList, clientVars, Calls
<1>2. DOMAIN sync = Calls /\ processed \in 0 .. tree.epoch /\ tree.epoch \in Nat
  BY DEF OpenInv, KeysTyped, CallsTyped
<1>3. sync'[s] \in [pc : {"asked"}, since : 0 .. processed] /\ sync'[s].pc = "asked"
  BY <1>1, <1>2
<1>4. \A r \in Calls \ {s} : sync'[r] = sync[r]
  BY <1>1, <1>2
<1>5. CallsTyped'
  <2>1. DOMAIN sync' = Calls /\ processed' = processed /\ tree' = tree
    BY <1>1, <1>2
  <2> QED BY <2>1, <1>3, <1>4 DEF OpenInv, CallsTyped
<1>6. RotationSound'
  <2>1. s # Rotation => sync'[Rotation] = sync[Rotation]
    BY <1>4 DEF Calls
  <2>2. s # Rotation
    BY <1>1, GroupClientAssumption
  <2> QED BY <1>1, <2>1, <2>2 DEF OpenInv, RotationSound
<1>7. AtWork' = AtWork /\ \A r \in AtWork : sync'[r].next = sync[r].next
  BY <1>1, <1>3, <1>4, CallShapes DEF AtWork
<1> QED BY <1>1, <1>5, <1>6, <1>7, WorkStays, KeysStay

(* The list of commits is answered.                                         *)
LEMMA ListAnsweredKeeps ==
    ASSUME OpenInv, NEW s \in Calls, ListAnswered(s)
    PROVE  OpenInv'
<1>1. /\ sync[s].pc = "asked"
      /\ UNCHANGED <<tree, commits, version, privs, processed, secrets, calm>>
      /\ rotating' = IF s = Rotation /\ sync'[s] = NoCall THEN NoCall ELSE rotating
  BY DEF ListAnswered, clientVars
<1>2. sync[s].since \in 0 .. processed /\ DOMAIN sync = Calls
  BY <1>1, CallOf, CallShapes DEF OpenInv, CallsTyped
<1> DEFINE list == [pc |-> "list", next |-> sync[s].since + 1, last |-> tree.epoch]
<1>3. sync' = [sync EXCEPT ![s] = IF sync[s].since < tree.epoch THEN list ELSE NoCall]
  BY DEF ListAnswered
<1>4. processed \in Nat /\ tree.epoch \in Nat /\ processed <= tree.epoch
  BY DEF OpenInv, KeysTyped
<1>5. sync'[s] = NoCall \/
      /\ sync'[s] \in [pc : {"list", "work"}, next : 1 .. (processed + 1), last : 1 .. tree.epoch]
      /\ sync'[s].pc = "list" /\ sync'[s].next <= sync'[s].last
  <2>1. sync'[s] = IF sync[s].since < tree.epoch THEN list ELSE NoCall
    BY <1>2, <1>3
  <2>2. CASE sync[s].since < tree.epoch
    BY <1>2, <1>4, <2>1, <2>2
  <2> QED BY <2>1, <2>2
<1>6. \A r \in Calls \ {s} : sync'[r] = sync[r]
  BY <1>2, <1>3
<1>7. CallsTyped'
  <2>1. DOMAIN sync' = Calls /\ processed' = processed /\ tree' = tree
    BY <1>1, <1>2, <1>3
  <2> QED BY <2>1, <1>5, <1>6 DEF OpenInv, CallsTyped
<1>8. RotationSound'
  <2>1. rotating'.pc = "planned" => rotating' = rotating
    BY <1>1, CallShapes
  <2>2. rotating'.pc # "synced" => sync'[Rotation] = NoCall
    <3>1. CASE s = Rotation
      <4>1. sync[s] # NoCall
        BY <1>1, CallShapes
      <4>2. rotating.pc = "synced"
        BY <3>1, <4>1 DEF OpenInv, RotationSound
      <4> QED BY <1>1, <3>1, <4>2
    <3>2. CASE s # Rotation
      BY <1>1, <1>6, <3>2 DEF OpenInv, RotationSound, Calls
    <3> QED BY <3>1, <3>2
  <2>3. tree' = tree
    BY <1>1
  <2> QED BY <2>1, <2>2, <2>3 DEF OpenInv, RotationSound
<1>9. AtWork' = AtWork /\ \A r \in AtWork : sync'[r].next = sync[r].next
  BY <1>1, <1>5, <1>6, CallShapes DEF AtWork
<1> QED BY <1>1, <1>7, <1>8, <1>9, WorkStays, KeysStay

(* A list that arrives when nothing is at work: the client may well have    *)
(* processed some of it, and then those epochs replace what it has.        *)
LEMMA Rejoins ==
    ASSUME OpenInv, InStep(processed + 1), NEW k \in 1 .. (processed + 1)
    PROVE  InStep(k)
<1> SUFFICES ASSUME calm < k, NEW n \in MyPath, \A j \in k .. processed : n \notin commits[j].path
             PROVE  privs[n] = KeysAfter(k - 1)[n]
  BY DEF InStep
<1>1. /\ processed \in Nat /\ tree.epoch \in Nat /\ processed <= tree.epoch /\ calm \in Nat /\ k \in Nat
  BY DEF OpenInv, KeysTyped
<1>2. privs[n] = KeysAfter(processed)[n]
  <2>1. calm < processed + 1
    BY <1>1
  <2>2. privs[n] = KeysAfter((processed + 1) - 1)[n] \/ \E j \in (processed + 1) .. processed : n \in commits[j].path
    BY <2>1 DEF InStep
  <2>3. (processed + 1) - 1 = processed /\ (processed + 1) .. processed = {}
    BY <1>1
  <2> QED BY <2>2, <2>3
<1>3. ASSUME NEW j \in k .. processed PROVE KeysAfter(j)[n] = KeysAfter(j - 1)[n]
  <2>1. j \in 1 .. tree.epoch /\ j \in Nat
    BY <1>1
  <2>2. KeysAfter(j)[n] = commits[j].gen[n]
    BY <1>3, <2>1 DEF OpenInv, CommitsSound, CommitSound
  <2>3. KeysAfter(j - 1) = commits[j].gen
    <3>1. j - 1 < tree.epoch /\ (j - 1) + 1 = j
      BY <1>1, <2>1
    <3> QED BY <3>1 DEF KeysAfter
  <2> QED BY <2>2, <2>3
<1> DEFINE Bad == {j \in Nat : k - 1 <= j /\ j <= processed /\ KeysAfter(j)[n] # KeysAfter(k - 1)[n]}
<1>4. Bad = {}
  <2> SUFFICES ASSUME Bad # {} PROVE FALSE
    OBVIOUS
  <2>1. PICK j \in Bad : \A i \in Bad : j <= i
    <3> HIDE DEF Bad
    <3>1. Bad \subseteq Nat
      BY DEF Bad
    <3> QED BY <3>1, LeastNumber
  <2>2. j \in Nat /\ k - 1 <= j /\ j <= processed /\ KeysAfter(j)[n] # KeysAfter(k - 1)[n]
    BY <2>1
  <2>3. j # k - 1
    BY <2>2
  <2>4. j \in k .. processed /\ j - 1 \in Nat /\ k - 1 <= j - 1 /\ j - 1 <= processed /\ ~(j <= j - 1)
    BY <1>1, <2>2, <2>3
  <2>5. KeysAfter(j - 1)[n] # KeysAfter(k - 1)[n]
    BY <1>3, <2>2, <2>4
  <2>6. j - 1 \in Bad
    BY <2>4, <2>5
  <2> HIDE DEF Bad
  <2> QED BY <2>1, <2>4, <2>6
<1>5. k - 1 <= processed
  BY <1>1
<1> HIDE DEF KeysAfter
<1> QED BY <1>1, <1>2, <1>4, <1>5

(* The list arrives: the client steps through it from an epoch it may have passed already. *)
LEMMA ListArrivesKeeps ==
    ASSUME OpenInv, NEW s \in Calls, ListArrives(s)
    PROVE  OpenInv'
<1>1. /\ sync[s].pc = "list" /\ sync' = [sync EXCEPT ![s].pc = "work"]
      /\ UNCHANGED <<tree, commits, version, privs, processed, secrets, calm, rotating>>
  BY DEF ListArrives, clientVars
<1>2. /\ sync[s] \in [pc : {"list", "work"}, next : 1 .. (processed + 1), last : 1 .. tree.epoch]
      /\ sync[s].next <= sync[s].last /\ DOMAIN sync = Calls
  BY <1>1, CallOf DEF OpenInv, CallsTyped
<1>3. /\ sync'[s] \in [pc : {"list", "work"}, next : 1 .. (processed + 1), last : 1 .. tree.epoch]
      /\ sync'[s].pc = "work" /\ sync'[s].next = sync[s].next /\ sync'[s].last = sync[s].last
  BY <1>1, <1>2
<1>4. \A r \in Calls \ {s} : sync'[r] = sync[r]
  BY <1>1, <1>2
<1>5. CallsTyped'
  <2>1. DOMAIN sync' = Calls /\ processed' = processed /\ tree' = tree
    BY <1>1, <1>2
  <2> QED BY <2>1, <1>2, <1>3, <1>4 DEF OpenInv, CallsTyped
<1>6. RotationSound'
  <2>1. s = Rotation => rotating.pc = "synced"
    <3>1. sync[s] # NoCall
      BY <1>1, CallShapes
    <3> QED BY <3>1 DEF OpenInv, RotationSound
  <2> QED BY <1>1, <1>4, <2>1 DEF OpenInv, RotationSound, Calls
<1>7. AtWork' = AtWork \union {s}
  BY <1>1, <1>3, <1>4 DEF AtWork
<1>8. \A k : InStep(k)' = InStep(k)
  BY <1>1 DEF InStep, KeysAfter
<1>9. WorkSound'
  <2>1. s \in AtWork' /\ AtWork' # {}
    BY <1>7
  <2>2. ASSUME NEW r \in Calls, AtWork' = {r} PROVE InStep(sync[r].next)'
    <3>1. r = s /\ AtWork = {}
      BY <1>1, <1>7, <2>2 DEF AtWork
    <3>2. InStep(sync[s].next)
      BY <1>2, <3>1, Rejoins DEF OpenInv, WorkSound
    <3>3. sync'[r].next = sync[s].next
      BY <1>3, <3>1
    <3>4. InStep(sync'[r].next)
      BY <3>2, <3>3
    <3> QED BY <1>1, <1>8, <3>1, <3>2, <3>3
  <2> QED BY <2>1, <2>2 DEF WorkSound
<1> QED BY <1>1, <1>5, <1>6, <1>9, KeysStay

(* rotateGroup starts its timer.                                            *)
LEMMA RotateGroupKeeps ==
    ASSUME OpenInv, NEW kind, RotateGroup(kind)
    PROVE  OpenInv'
<1>1. /\ UNCHANGED <<tree, commits, version, privs, processed, secrets, calm, sync>>
      /\ rotating = NoCall /\ rotating' = [pc |-> "waits", kind |-> kind]
  BY DEF RotateGroup, clientVars
<1>2. CallsTyped' /\ RotationSound'
  BY <1>1, CallShapes DEF OpenInv, CallsTyped, RotationSound
<1>3. AtWork' = AtWork /\ \A r \in AtWork : sync'[r].next = sync[r].next
  BY <1>1 DEF AtWork
<1> QED BY <1>1, <1>2, <1>3, WorkStays, KeysStay

(* rotateGroup has its plan.                                                *)
LEMMA PlanKeeps ==
    ASSUME OpenInv, Plan
    PROVE  OpenInv'
<1> DEFINE planned == [pc |-> "planned", epoch |-> tree.epoch + 1, plan |-> PlanFor(MyLeaf),
                       kind |-> rotating.kind, ver |-> version]
<1>1. /\ UNCHANGED <<tree, commits, version, privs, processed, secrets, calm, sync>>
      /\ rotating.pc = "waits" /\ (rotating' = planned \/ rotating' = NoCall)
  BY DEF Plan, clientVars
<1>2. planned.pc = "planned" /\ planned.epoch = tree.epoch + 1 /\ planned.ver = version
  OBVIOUS
<1> HIDE DEF planned
<1>3. tree.epoch \in Nat
  BY DEF OpenInv, KeysTyped
<1>4. version \in tree.vers
  BY DEF OpenInv, CalmSound
<1>5. CallsTyped' /\ RotationSound'
  BY <1>1, <1>2, <1>3, <1>4, CallShapes DEF OpenInv, CallsTyped, RotationSound
<1>6. AtWork' = AtWork /\ \A r \in AtWork : sync'[r].next = sync[r].next
  BY <1>1 DEF AtWork
<1> QED BY <1>1, <1>5, <1>6, WorkStays, KeysStay

(* A member joins or leaves: no node key changes.                           *)
LEMMA ChangeKeeps ==
    ASSUME OpenInv, NEW l, Change(l)
    PROVE  OpenInv'
<1> DEFINE seats == IF l \in tree.occupied THEN tree.occupied \ {l} ELSE tree.occupied \union {l}
<1>1. /\ l # MyLeaf /\ l \in Seats
      /\ tree' = [tree EXCEPT !.occupied = seats, !.due = tree.due \union {l}]
      /\ UNCHANGED <<commits, version, privs, processed, secrets, calm, sync, rotating>>
  BY DEF Change, clientVars, Seats
<1>2. /\ tree \in [epoch : 0 .. MaxCommits, gen : NodeKeys, occupied : SUBSET Seats, due : SUBSET Seats,
                   full : BOOLEAN, vers : SUBSET Nat]
      /\ MyLeaf \in tree.occupied
  BY DEF OpenInv, KeysTyped
<1>3. /\ tree'.epoch = tree.epoch /\ tree'.gen = tree.gen /\ tree'.full = tree.full /\ tree'.vers = tree.vers
      /\ tree'.occupied = seats
      /\ tree' \in [epoch : 0 .. MaxCommits, gen : NodeKeys, occupied : SUBSET Seats, due : SUBSET Seats,
                    full : BOOLEAN, vers : SUBSET Nat]
  BY <1>1, <1>2
<1>4. MyLeaf \in tree'.occupied
  BY <1>1, <1>2, <1>3
<1> HIDE DEF seats
<1>5. KeysTyped' /\ CalmSound' /\ EpochsOpen' /\ CallsTyped' /\ RotationSound'
  BY <1>1, <1>3, <1>4 DEF OpenInv, KeysTyped, CalmSound, EpochsOpen, Readable, CallsTyped, RotationSound
<1>6. \A e : KeysAfter(e)' = KeysAfter(e)
  BY <1>1, <1>3 DEF KeysAfter
<1>7. \A k : InStep(k)' = InStep(k)
  BY <1>1, <1>6 DEF InStep
<1>8. CommitsSound'
  BY <1>1, <1>3, <1>6 DEF OpenInv, CommitsSound, CommitSound
<1>9. WorkSound'
  BY <1>1, <1>7 DEF OpenInv, WorkSound, AtWork
<1> QED BY <1>5, <1>8, <1>9 DEF OpenInv

(* publishNewKeys: the client starts again, undisturbed from its next commit on. *)
LEMMA ResetKeeps ==
    ASSUME OpenInv, Reset
    PROVE  OpenInv'
<1>1. /\ version' = version + 1 /\ tree' = [tree EXCEPT !.vers = tree.vers \union {version + 1}]
      /\ privs' = [n \in Nodes |-> 0] /\ processed' = 0 /\ secrets' = {}
      /\ sync' = [s \in Calls |-> NoCall] /\ calm' = MaxCommits + 1 /\ commits' = commits
      /\ rotating' = IF rotating.pc = "synced" THEN NoCall ELSE rotating
  BY DEF Reset
<1>2. /\ tree \in [epoch : 0 .. MaxCommits, gen : NodeKeys, occupied : SUBSET Seats, due : SUBSET Seats,
                   full : BOOLEAN, vers : SUBSET Nat]
      /\ MyLeaf \in tree.occupied /\ version \in Nat /\ MaxCommits \in Nat /\ tree.epoch \in 0 .. MaxCommits
  BY GroupClientAssumption DEF OpenInv, KeysTyped
<1>3. /\ tree'.epoch = tree.epoch /\ tree'.gen = tree.gen /\ tree'.full = tree.full
      /\ tree'.occupied = tree.occupied /\ tree'.vers = tree.vers \union {version + 1}
      /\ tree' \in [epoch : 0 .. MaxCommits, gen : NodeKeys, occupied : SUBSET Seats, due : SUBSET Seats,
                    full : BOOLEAN, vers : SUBSET Nat]
  BY <1>1, <1>2
<1>4. privs' \in NodeKeys
  BY <1>1 DEF NodeKeys
<1>5. KeysTyped'
  BY <1>1, <1>2, <1>3, <1>4 DEF OpenInv, KeysTyped
<1>6. CallsTyped'
  BY <1>1 DEF CallsTyped
<1>7. RotationSound'
  <2>1. sync'[Rotation] = NoCall
    BY <1>1 DEF Calls
  <2> QED BY <1>1, <1>3, <2>1, CallShapes DEF OpenInv, RotationSound
<1>8. CalmSound'
  <2>1. ~(MaxCommits + 1 <= MaxCommits)
    BY <1>2
  <2> QED BY <1>1, <2>1 DEF OpenInv, CalmSound
<1>9. EpochsOpen'
  BY <1>1, <1>2 DEF EpochsOpen, Readable, Epochs
<1>10. CommitsSound'
  <2>1. \A e : KeysAfter(e)' = KeysAfter(e)
    BY <1>1, <1>3 DEF KeysAfter
  <2>2. \A e \in 1 .. tree.epoch : ~(e >= MaxCommits + 1) /\ e # MaxCommits + 1
    BY <1>2
  <2> QED BY <1>1, <1>3, <2>1, <2>2 DEF OpenInv, CommitsSound, CommitSound
<1>11. WorkSound'
  <2>1. AtWork' = {}
    BY <1>1, CallShapes DEF AtWork
  <2>2. ~(calm' < processed' + 1)
    BY <1>1, <1>2
  <2> QED BY <2>1, <2>2 DEF WorkSound, InStep
<1> QED BY <1>5, <1>6, <1>7, <1>8, <1>9, <1>10, <1>11 DEF OpenInv

(***************************************************************************)
(* A commit                                                                *)
(***************************************************************************)

(* A plan made from the tree as it is.                                     *)
LEMMA PlanForSound ==
    ASSUME OpenInv, NEW l \in Seats
    PROVE  Leaf0Plan(PlanFor(l), Filled) /\ (tree.full => MyPath \subseteq PlanFor(l).path)
<1>1. tree.full \in BOOLEAN /\ tree.due \in SUBSET Seats /\ MyLeaf \in tree.occupied
  BY DEF OpenInv, KeysTyped
<1>2. LeafNode(MyLeaf) \in Filled
  BY <1>1 DEF Filled
<1> DEFINE changed == IF Pending THEN tree.due ELSE {l}
<1>3. changed \in SUBSET Seats /\ (tree.full \/ changed # {})
  BY <1>1 DEF Pending
<1>4. PlanFor(l) = PlanCommit(Capacity, Filled, changed, tree.full)
  BY DEF PlanFor
<1> HIDE DEF changed
<1> QED BY <1>1, <1>2, <1>3, <1>4, PlanSound DEF Seats

(* A commit is stored (POST keys/commit).                                   *)
LEMMA CommitKeeps ==
    ASSUME OpenInv, tree.epoch < MaxCommits,
           NEW plan, Leaf0Plan(plan, Filled), tree.full => MyPath \subseteq plan.path,
           NEW ver \in tree.vers, Commit(plan, ver),
           UNCHANGED <<version, privs, processed, secrets>>,
           CallsTyped /\ tree'.epoch = tree.epoch + 1 => CallsTyped',
           rotating' = rotating \/ rotating'.pc = "synced",
           rotating' = rotating => sync' = sync,
           AtWork' = AtWork, \A s \in AtWork : sync'[s].next = sync[s].next
    PROVE  OpenInv'
<1>1. PICK e : e = tree.epoch + 1
  OBVIOUS
<1> DEFINE keys == [n \in Nodes |-> IF n \in plan.path THEN e
                                    ELSE IF n \in plan.blanks THEN 0 ELSE tree.gen[n]]
           new == [path |-> plan.path, blanks |-> plan.blanks, targets |-> plan.targets,
                   gen |-> tree.gen, ver |-> ver]
           mine == ver = version /\ MyPath \subseteq plan.path
<1>2. /\ tree' = [tree EXCEPT !.epoch = e, !.due = {}, !.full = FALSE, !.vers = {version}, !.gen = keys]
      /\ commits' = [commits EXCEPT ![e] = new]
      /\ calm' = IF mine /\ calm > e THEN e ELSE calm
  BY <1>1, MyPathIsPath DEF Commit
<1>3. /\ tree \in [epoch : 0 .. MaxCommits, gen : NodeKeys, occupied : SUBSET Seats, due : SUBSET Seats,
                   full : BOOLEAN, vers : SUBSET Nat]
      /\ MyLeaf \in tree.occupied /\ DOMAIN commits = Epochs /\ version \in Nat /\ privs \in NodeKeys
      /\ processed \in 0 .. tree.epoch /\ calm \in Nat /\ MaxCommits \in Nat /\ tree.epoch \in Nat
  BY GroupClientAssumption DEF OpenInv, KeysTyped
<1>4. e \in Nat /\ e \in Epochs /\ e <= MaxCommits /\ e # 0 /\ tree.epoch < e /\ processed < e
  BY <1>1, <1>3 DEF Epochs
<1>5. keys \in NodeKeys
  BY <1>3, <1>4 DEF NodeKeys
<1> HIDE DEF new
<1>6. \A n \in Nodes : keys[n] = IF n \in plan.path THEN e ELSE IF n \in plan.blanks THEN 0 ELSE tree.gen[n]
  OBVIOUS
<1> HIDE DEF keys
<1>7. /\ tree'.epoch = e /\ tree'.gen = keys /\ tree'.vers = {version} /\ tree'.occupied = tree.occupied
      /\ tree' \in [epoch : 0 .. MaxCommits, gen : NodeKeys, occupied : SUBSET Seats, due : SUBSET Seats,
                    full : BOOLEAN, vers : SUBSET Nat]
  <2>1. e \in 0 .. MaxCommits /\ {version} \in SUBSET Nat /\ {} \in SUBSET Seats
    BY <1>3, <1>4
  <2> QED BY <1>2, <1>3, <1>5, <2>1
<1>8. commits'[e] = new /\ (\A j \in Epochs : j # e => commits'[j] = commits[j]) /\ DOMAIN commits' = Epochs
  BY <1>2, <1>3, <1>4
<1>9. new.path = plan.path /\ new.blanks = plan.blanks /\ new.targets = plan.targets /\ new.gen = tree.gen
      /\ new.ver = ver
  BY DEF new
<1>10. MyPath \subseteq Nodes /\ Nodes \subseteq Nat
  BY PathShape DEF MyPath
<1>11. ASSUME NEW j \in 0 .. tree.epoch PROVE KeysAfter(j)' = KeysAfter(j)
  <2>1. j < tree'.epoch /\ KeysAfter(j)' = commits'[j + 1].gen
    BY <1>1, <1>3, <1>4, <1>7 DEF KeysAfter
  <2>2. CASE j < tree.epoch
    <3>1. j + 1 \in Epochs /\ j + 1 # e
      BY <1>3, <1>4, <2>2 DEF Epochs
    <3> QED BY <1>8, <2>1, <2>2, <3>1 DEF KeysAfter
  <2>3. CASE j = tree.epoch
    BY <1>1, <1>4, <1>8, <1>9, <2>1, <2>3 DEF KeysAfter
  <2> QED BY <1>3, <2>2, <2>3
<1>12. KeysAfter(e)' = keys
  BY <1>4, <1>7 DEF KeysAfter
<1>13. /\ calm \in 1 .. tree.epoch \/ calm = MaxCommits + 1 \/ (calm = 1 /\ tree.epoch = 0 /\ tree.full)
       /\ calm <= MaxCommits => tree.vers = {version}
  BY DEF OpenInv, CalmSound
<1>14. calm' \in Nat /\ calm' >= 1 /\ (calm' = calm \/ (mine /\ calm' = e /\ calm > e))
  BY <1>2, <1>3, <1>4, <1>13
<1>15. CalmSound'
  <2>1. calm' \in 1 .. e \/ calm' = MaxCommits + 1
    <3>1. CASE calm' = e
      BY <1>4, <3>1
    <3>2. CASE calm' = calm
      <4>1. CASE calm \in 1 .. tree.epoch
        BY <1>3, <1>4, <3>2, <4>1
      <4>2. CASE calm = 1
        BY <1>4, <3>2, <4>2
      <4> QED BY <1>13, <3>2, <4>1, <4>2
    <3> QED BY <1>14, <3>1, <3>2
  <2> QED BY <1>7, <2>1 DEF CalmSound
<1>16. KeysTyped'
  BY <1>3, <1>4, <1>7, <1>8, <1>14 DEF KeysTyped
<1>17. CallsTyped'
  BY <1>1, <1>7 DEF OpenInv
<1>18. RotationSound'
  <2>1. CASE rotating'.pc = "synced"
    BY <2>1 DEF RotationSound
  <2>2. CASE rotating' = rotating
    <3>1. sync' = sync
      BY <2>2
    <3>2. rotating.pc = "planned" => /\ rotating.epoch \in Nat /\ rotating.epoch <= e
      BY <1>1 DEF OpenInv, RotationSound
    <3> QED BY <1>4, <1>7, <2>2, <3>1, <3>2 DEF OpenInv, RotationSound
  <2> QED BY <2>1, <2>2
<1>19. EpochsOpen'
  <2>1. Readable(calm)
    BY DEF OpenInv, EpochsOpen
  <2> QED BY <1>3, <1>4, <1>14, <2>1 DEF EpochsOpen, Readable, Epochs
<1>20. WorkSound'
  <2>1. ASSUME NEW k \in Nat, k <= processed + 1, 1 <= k, InStep(k) PROVE InStep(k)'
    <3> SUFFICES ASSUME calm' < k, NEW n \in MyPath
                 PROVE  \/ privs'[n] = KeysAfter(k - 1)'[n]
                        \/ \E j \in k .. processed' : n \in commits'[j].path
      BY DEF InStep
    <3>1. calm < k
      BY <1>3, <1>4, <1>14, <2>1
    <3>2. k - 1 \in 0 .. tree.epoch /\ KeysAfter(k - 1)' = KeysAfter(k - 1)
      BY <1>3, <1>11, <2>1
    <3>3. \A j \in k .. processed : commits'[j] = commits[j]
      BY <1>3, <1>4, <1>8, <2>1 DEF Epochs
    <3> QED BY <2>1, <3>1, <3>2, <3>3 DEF InStep
  <2>2. AtWork' = {} => InStep(processed + 1)'
    <3>1. AtWork = {} => InStep(processed + 1)
      BY DEF OpenInv, WorkSound
    <3>2. processed + 1 \in Nat /\ 1 <= processed + 1
      BY <1>3
    <3> QED BY <2>1, <3>1, <3>2
  <2>3. ASSUME NEW s \in Calls, AtWork' = {s} PROVE InStep(sync[s].next)'
    <3>1. AtWork = {s} /\ s \in AtWork /\ sync'[s].next = sync[s].next /\ sync[s].pc = "work"
      BY <2>3 DEF AtWork
    <3>2. PICK k : k = sync[s].next
      OBVIOUS
    <3>3. k \in 1 .. (processed + 1) /\ InStep(k)
      BY <3>1, <3>2, CallOf, CallShapes DEF OpenInv, WorkSound
    <3>4. InStep(k)' /\ sync'[s].next = k
      BY <1>3, <2>1, <3>1, <3>2, <3>3
    <3> QED BY <3>4 DEF InStep
  <2> QED BY <2>2, <2>3 DEF WorkSound
<1>21. CommitSound(e)'
  <2> DEFINE c == commits'[e]
  <2>1. c.path = plan.path /\ c.blanks = plan.blanks /\ c.targets = plan.targets /\ c.gen = tree.gen /\ c.ver = ver
    BY <1>8, <1>9
  <2> HIDE DEF c
  <2>2. /\ c.path \subseteq Nodes /\ Root(Capacity) \in c.path /\ c.blanks \intersect MyPath = {}
        /\ c.gen \in NodeKeys
        /\ \A m \in c.path \intersect MyPath : \A n \in MyPath : Left(n) = m => n \in c.path
    BY <1>3, <2>1 DEF Leaf0Plan
  <2>3. ASSUME NEW n \in c.path \intersect MyPath, Left(n) = 0 \/ Left(n) \in c.path \/ c.gen[Left(n)] # 0
        PROVE  Left(n) \in c.targets[n]
    <3>1. Left(n) = 0 => Left(n) \in Filled
      BY <1>3 DEF Filled, LeafNode, MyLeaf
    <3>2. c.gen[Left(n)] # 0 => Left(n) \in Filled
      BY <1>10, <2>1, <3>1, PathShape DEF Filled
    <3> QED BY <2>1, <2>3, <3>1, <3>2 DEF Leaf0Plan
  <2>4. \A n \in MyPath : keys[n] = IF n \in c.path THEN e ELSE c.gen[n]
    BY <1>6, <1>10, <2>1, <2>2
  <2>5. ASSUME e >= calm' PROVE c.ver = version /\ (\A n \in MyPath : keys[n] # 0) /\ (e = calm' => MyPath \subseteq c.path)
    <3>1. CASE mine /\ calm' = e
      BY <1>4, <2>1, <2>4, <3>1
    <3>2. CASE calm' = calm
      <4>1. calm <= MaxCommits /\ ver = version
        BY <1>3, <1>4, <1>14, <1>13, <2>5, <3>2
      <4>2. CASE calm \in 1 .. tree.epoch
        <5>1. \A n \in MyPath : KeysAfter(tree.epoch)[n] # 0
          <6>1. tree.epoch \in 1 .. tree.epoch /\ tree.epoch >= calm
            BY <1>3, <4>2
          <6> QED BY <6>1 DEF OpenInv, CommitsSound, CommitSound
        <5>2. KeysAfter(tree.epoch) = tree.gen
          BY <1>3 DEF KeysAfter
        <5>3. e # calm'
          BY <1>3, <1>4, <3>2, <4>2
        <5> QED BY <1>4, <2>1, <2>4, <4>1, <5>1, <5>2, <5>3
      <4>3. CASE calm = 1 /\ tree.epoch = 0 /\ tree.full
        BY <1>4, <2>1, <2>4, <4>1, <4>3
      <4> QED BY <1>3, <1>13, <4>1, <4>2, <4>3
    <3> QED BY <1>14, <3>1, <3>2
  <2>6. c.ver = version /\ version' = version => c.ver = version'
    OBVIOUS
  <2> QED BY <1>4, <1>12, <1>14, <2>2, <2>3, <2>4, <2>5, <2>6 DEF CommitSound, c
<1>22. CommitsSound'
  <2> SUFFICES ASSUME NEW j \in 1 .. tree'.epoch PROVE CommitSound(j)'
    BY DEF CommitsSound
  <2>1. CASE j = e
    BY <1>21, <2>1
  <2>2. CASE j # e
    <3>1. j \in 1 .. tree.epoch /\ j \in Nat /\ j < e /\ j \in Epochs /\ j \in 0 .. tree.epoch
      BY <1>1, <1>3, <1>4, <1>7, <2>2 DEF Epochs
    <3>2. commits'[j] = commits[j] /\ KeysAfter(j)' = KeysAfter(j)
      BY <1>8, <1>11, <2>2, <3>1
    <3>3. j >= calm' => calm' = calm
      BY <1>4, <1>14, <3>1
    <3>4. CommitSound(j)
      BY <3>1 DEF OpenInv, CommitsSound
    <3> QED BY <3>1, <3>2, <3>3, <3>4 DEF CommitSound
  <2> QED BY <2>1, <2>2
<1> QED BY <1>15, <1>16, <1>17, <1>18, <1>19, <1>20, <1>22 DEF OpenInv

(* Another member commits.                                                  *)
LEMMA OtherCommitsKeeps ==
    ASSUME OpenInv, NEW l, OtherCommits(l)
    PROVE  OpenInv'
<1>1. /\ l \in tree.occupied /\ tree.epoch < MaxCommits
      /\ UNCHANGED <<version, privs, processed, secrets, sync, rotating>>
  BY DEF OtherCommits, clientVars
<1>2. PICK ver \in tree.vers : Commit(PlanFor(l), ver)
  BY DEF OtherCommits
<1>3. l \in Seats /\ tree.epoch \in Nat
  BY <1>1 DEF OpenInv, KeysTyped
<1>4. Leaf0Plan(PlanFor(l), Filled) /\ (tree.full => MyPath \subseteq PlanFor(l).path)
  BY <1>3, PlanForSound
<1>5. CallsTyped /\ tree'.epoch = tree.epoch + 1 => CallsTyped'
  <2> SUFFICES ASSUME CallsTyped, tree'.epoch = tree.epoch + 1 PROVE CallsTyped'
    OBVIOUS
  <2>1. 1 .. tree.epoch \subseteq 1 .. tree'.epoch
    BY <1>3
  <2>2. DOMAIN sync' = Calls /\ processed' = processed /\ sync' = sync
    BY <1>1 DEF CallsTyped
  <2>3. ASSUME NEW s \in Calls, sync[s] \in [pc : {"list", "work"}, next : 1 .. (processed + 1), last : 1 .. tree.epoch]
        PROVE  sync[s] \in [pc : {"list", "work"}, next : 1 .. (processed + 1), last : 1 .. tree'.epoch]
    BY <2>1, <2>3
  <2> QED BY <2>2, <2>3 DEF CallsTyped
<1>6. AtWork' = AtWork /\ \A s \in AtWork : sync'[s].next = sync[s].next
  BY <1>1 DEF AtWork
<1> HIDE DEF OpenInv
<1> QED BY <1>1, <1>2, <1>4, <1>5, <1>6, CommitKeeps

(* rotateGroup posts its commit.                                            *)
LEMMA PostCommitKeeps ==
    ASSUME OpenInv, PostCommit
    PROVE  OpenInv'
<1>1. /\ rotating.pc = "planned" /\ rotating' = [pc |-> "synced"]
      /\ sync' = [sync EXCEPT ![Rotation] = [pc |-> "asked", since |-> processed]]
      /\ UNCHANGED <<version, privs, processed, secrets>>
  BY DEF PostCommit, AskList, clientVars
<1>2. rotating'.pc = "synced" /\ rotating' # rotating
  BY <1>1
<1>3. /\ DOMAIN sync = Calls /\ Rotation \in Calls /\ sync[Rotation] = NoCall
      /\ processed \in 0 .. tree.epoch /\ tree.epoch \in Nat
  BY <1>1 DEF OpenInv, CallsTyped, KeysTyped, RotationSound, Calls
<1>4. /\ sync'[Rotation] \in [pc : {"asked"}, since : 0 .. processed] /\ sync'[Rotation].pc = "asked"
      /\ \A s \in Calls \ {Rotation} : sync'[s] = sync[s]
      /\ DOMAIN sync' = Calls
  BY <1>1, <1>3
<1>5. ASSUME tree'.epoch \in Nat, tree'.epoch >= tree.epoch PROVE CallsTyped'
  <2>1. 1 .. tree.epoch \subseteq 1 .. tree'.epoch /\ processed' = processed
    BY <1>1, <1>3, <1>5
  <2>2. ASSUME NEW s \in Calls, sync[s] \in [pc : {"list", "work"}, next : 1 .. (processed + 1), last : 1 .. tree.epoch]
        PROVE  sync[s] \in [pc : {"list", "work"}, next : 1 .. (processed + 1), last : 1 .. tree'.epoch]
    BY <2>1, <2>2
  <2>3. ASSUME NEW s \in Calls
        PROVE  \/ sync'[s] = NoCall
               \/ sync'[s] \in [pc : {"asked"}, since : 0 .. processed]
               \/ /\ sync'[s] \in [pc : {"list", "work"}, next : 1 .. (processed + 1), last : 1 .. tree'.epoch]
                  /\ sync'[s].next <= sync'[s].last
    <3>1. CASE s = Rotation
      BY <1>4, <3>1
    <3>2. CASE s # Rotation
      <4>1. sync'[s] = sync[s]
        BY <1>4, <3>2
      <4>2. \/ sync[s] = NoCall
            \/ sync[s] \in [pc : {"asked"}, since : 0 .. processed]
            \/ /\ sync[s] \in [pc : {"list", "work"}, next : 1 .. (processed + 1), last : 1 .. tree.epoch]
               /\ sync[s].next <= sync[s].last
        BY DEF OpenInv, CallsTyped
      <4> QED BY <2>2, <4>1, <4>2
    <3> QED BY <3>1, <3>2
  <2> QED BY <1>4, <2>1, <2>3 DEF CallsTyped
<1>6. AtWork' = AtWork /\ \A s \in AtWork : sync'[s].next = sync[s].next
  BY <1>3, <1>4, CallShapes DEF AtWork
<1>7. CASE Current /\ (Pending \/ rotating.kind = "periodic")
  <2>1. tree.epoch < MaxCommits /\ Commit(PlanFor(MyLeaf), rotating.ver) /\ rotating.epoch = tree.epoch + 1
    BY <1>7 DEF PostCommit, Current
  <2>2. PICK ver \in tree.vers : ver = rotating.ver
    BY <1>1, <2>1 DEF OpenInv, RotationSound
  <2>3. Leaf0Plan(PlanFor(MyLeaf), Filled) /\ (tree.full => MyPath \subseteq PlanFor(MyLeaf).path)
    <3>1. MyLeaf \in Seats
      BY DEF OpenInv, KeysTyped
    <3> QED BY <3>1, PlanForSound
  <2>4. CallsTyped /\ tree'.epoch = tree.epoch + 1 => CallsTyped'
    BY <1>3, <1>5
  <2> HIDE DEF OpenInv
  <2> QED BY <1>1, <1>2, <1>6, <2>1, <2>2, <2>3, <2>4, CommitKeeps
<1>8. CASE ~(Current /\ (Pending \/ rotating.kind = "periodic"))
  <2>1. UNCHANGED <<tree, commits, calm>>
    BY <1>8 DEF PostCommit
  <2>2. CallsTyped' /\ RotationSound'
    BY <1>2, <1>3, <1>5, <2>1 DEF RotationSound
  <2> QED BY <1>1, <1>6, <2>1, <2>2, WorkStays, KeysStay
<1> QED BY <1>7, <1>8

(***************************************************************************)
(* A commit that is processed                                              *)
(***************************************************************************)

(* In step and with the member's own key, a fresh key above leaf 0 opens,   *)
(* or another one that was processed already replaces it.                  *)
LEMMA OpensOrReplaced ==
    ASSUME OpenInv, NEW k \in 1 .. tree.epoch, calm <= k, InStep(k),
           NEW n \in MyPath, n \in commits[k].path
    PROVE  n \in Opened(commits[k]) \/ \E j \in (k + 1) .. processed : n \in commits[j].path
<1> DEFINE c == commits[k]
           Replaced(m) == \E j \in (k + 1) .. processed : m \in commits[j].path
           Opens(m, known) == \E t \in c.targets[m] : IF t \in c.path THEN t \in known ELSE Held(c, t)
           Closed(known) == \A m \in c.path : Opens(m, known) => m \in known
<1> SUFFICES ASSUME NEW known \in SUBSET c.path, Closed(known), ~Replaced(n)
             PROVE  n \in known
  BY DEF Opened
<1>1. /\ processed \in Nat /\ tree.epoch \in Nat /\ processed <= tree.epoch /\ k \in Nat /\ calm \in Nat
  BY DEF OpenInv, KeysTyped
<1>2. CommitSound(k)
  BY DEF OpenInv, CommitsSound
<1>3. /\ c.ver = version
      /\ \A m \in c.path \intersect MyPath :
           Left(m) = 0 \/ Left(m) \in c.path \/ c.gen[Left(m)] # 0 => Left(m) \in c.targets[m]
      /\ k = calm => MyPath \subseteq c.path
  BY <1>1, <1>2 DEF CommitSound
<1> DEFINE Bad == {m \in Nat : m \in MyPath /\ m \in c.path /\ m \notin known /\ ~Replaced(m)}
<1>4. Bad = {}
  <2> SUFFICES ASSUME Bad # {} PROVE FALSE
    OBVIOUS
  <2>1. PICK m \in Bad : \A y \in Bad : m <= y
    <3> HIDE DEF Bad
    <3>1. Bad \subseteq Nat
      BY DEF Bad
    <3> QED BY <3>1, LeastNumber
  <2> HIDE DEF Replaced
  <2>2. m \in MyPath /\ m \in c.path /\ m \notin known /\ ~Replaced(m) /\ m \in Nat
    BY <2>1
  <2>3. Left(m) \in Nat /\ Left(m) < m /\ (Left(m) = 0 \/ Left(m) \in MyPath)
    BY <2>2, PathShape
  <2> DEFINE l == Left(m)
  <2>4. 0 \notin c.path
    BY <1>2, PathShape DEF CommitSound
  <2>5. ~Opens(m, known)
    BY <2>2
  <2>6. CASE l = 0
    <3>1. 0 \in c.targets[m] /\ Held(c, 0)
      BY <1>3, <2>2, <2>6 DEF Held, LeafNode, MyLeaf
    <3> QED BY <2>4, <2>5, <3>1
  <2>7. CASE l \in MyPath /\ l \in c.path
    <3>1. l \in known \/ Replaced(l)
      BY <2>1, <2>3, <2>7
    <3>2. CASE l \in known
      BY <1>3, <2>2, <2>5, <2>7, <3>2
    <3>3. CASE Replaced(l)
      <4>1. PICK j \in (k + 1) .. processed : l \in commits[j].path
        BY <3>3 DEF Replaced
      <4>2. j \in 1 .. tree.epoch
        BY <1>1
      <4>3. m \in commits[j].path
        BY <2>2, <2>7, <4>1, <4>2 DEF OpenInv, CommitsSound, CommitSound
      <4> QED BY <2>2, <4>3 DEF Replaced
    <3> QED BY <3>1, <3>2, <3>3
  <2>8. CASE l \in MyPath /\ l \notin c.path
    <3>1. calm < k
      BY <1>1, <1>3, <2>8
    <3>2. privs[l] = KeysAfter(k - 1)[l] \/ \E j \in k .. processed : l \in commits[j].path
      BY <2>8, <3>1 DEF InStep
    <3>3. KeysAfter(k - 1) = c.gen
      <4>1. k - 1 < tree.epoch /\ (k - 1) + 1 = k
        BY <1>1
      <4> QED BY <4>1 DEF KeysAfter
    <3>4. CASE privs[l] = KeysAfter(k - 1)[l]
      <4>1. c.gen[l] # 0
        <5>1. KeysAfter(k)[l] # 0 /\ KeysAfter(k)[l] = c.gen[l]
          BY <1>1, <1>2, <2>8 DEF CommitSound
        <5> QED BY <5>1
      <4>2. l \in Nodes /\ l # 0
        BY <2>8, PathShape DEF MyPath
      <4>3. Held(c, l)
        BY <3>3, <3>4, <4>1, <4>2 DEF Held, LeafNode, MyLeaf
      <4>4. l \in c.targets[m]
        BY <1>3, <2>2, <4>1
      <4> QED BY <2>5, <2>8, <4>3, <4>4
    <3>5. CASE \E j \in k .. processed : l \in commits[j].path
      <4>1. PICK j \in k .. processed : l \in commits[j].path
        BY <3>5
      <4>2. j \in 1 .. tree.epoch /\ j \in (k + 1) .. processed
        BY <1>1, <2>8, <4>1
      <4>3. m \in commits[j].path
        BY <2>2, <2>8, <4>1, <4>2 DEF OpenInv, CommitsSound, CommitSound
      <4> QED BY <2>2, <4>2, <4>3 DEF Replaced
    <3> QED BY <3>2, <3>4, <3>5
  <2> QED BY <2>3, <2>6, <2>7, <2>8
<1>5. n \in Nat
  BY PathShape DEF MyPath
<1> HIDE DEF Replaced
<1> QED BY <1>4, <1>5

(* One processCommit (lib/treekem.js).                                      *)
LEMMA ProcessCommitKeeps ==
    ASSUME OpenInv, NEW s \in Calls, ProcessCommit(s)
    PROVE  OpenInv'
<1>1. PICK k : k = sync[s].next
  OBVIOUS
<1>2. PICK c : c = commits[k]
  OBVIOUS
<1>3. PICK opened : opened = Opened(c)
  OBVIOUS
<1>4. /\ sync[s].pc = "work"
      /\ privs' = [n \in Nodes |-> IF n \in c.path THEN IF n \in opened THEN k ELSE 0
                                   ELSE IF n \in c.blanks THEN 0 ELSE privs[n]]
      /\ processed' = IF k > processed THEN k ELSE processed
      /\ secrets' = IF Root(Capacity) \in opened THEN secrets \union {k} ELSE secrets
      /\ sync' = [sync EXCEPT ![s] = IF k = sync[s].last THEN NoCall ELSE [sync[s] EXCEPT !.next = k + 1]]
      /\ calm' = IF Disturbs(s) THEN MaxCommits + 1 ELSE calm
      /\ rotating' = IF s = Rotation /\ k = sync[s].last THEN NoCall ELSE rotating
      /\ UNCHANGED <<tree, commits, version>>
  BY <1>1, <1>2, <1>3 DEF ProcessCommit
<1>5. /\ sync[s] \in [pc : {"list", "work"}, next : 1 .. (processed + 1), last : 1 .. tree.epoch]
      /\ sync[s].next <= sync[s].last /\ DOMAIN sync = Calls
  BY <1>4, CallOf DEF OpenInv, CallsTyped
<1>6. /\ processed \in Nat /\ tree.epoch \in Nat /\ processed <= tree.epoch /\ calm \in Nat
      /\ MaxCommits \in Nat /\ tree.epoch <= MaxCommits /\ privs \in NodeKeys
  BY GroupClientAssumption DEF OpenInv, KeysTyped
<1>7. k \in 1 .. (processed + 1) /\ k <= sync[s].last /\ sync[s].last \in 1 .. tree.epoch /\ k \in Nat
      /\ k \in 1 .. tree.epoch
  BY <1>1, <1>5, <1>6
<1>8. processed' \in 0 .. tree.epoch /\ processed <= processed' /\ k <= processed' /\ processed' \in Nat
  BY <1>4, <1>6, <1>7
<1>9. 0 .. processed \subseteq 0 .. processed' /\ 1 .. (processed + 1) \subseteq 1 .. (processed' + 1)
  <2>1. PICK p : p = processed'
    OBVIOUS
  <2>2. p \in Nat /\ processed \in Nat /\ processed <= p
    BY <1>6, <1>8, <2>1
  <2>3. 0 .. processed \subseteq 0 .. p /\ 1 .. (processed + 1) \subseteq 1 .. (p + 1)
    BY <2>2
  <2> QED BY <2>1, <2>3
<1>10. processed' + 1 <= MaxCommits + 1 /\ processed' + 1 \in Nat
  <2>1. PICK p : p = processed'
    OBVIOUS
  <2>2. p \in Nat /\ p <= tree.epoch
    BY <1>8, <2>1
  <2>3. p + 1 <= MaxCommits + 1 /\ p + 1 \in Nat
    <3>1. PICK x : x = tree.epoch
      OBVIOUS
    <3>2. x \in Nat /\ x <= MaxCommits /\ p <= x /\ MaxCommits \in Nat
      BY <1>6, <2>2, <3>1
    <3> QED BY <2>2, <3>2
  <2> QED BY <2>1, <2>3
<1>11. CommitSound(k)
  BY <1>7 DEF OpenInv, CommitsSound
<1>12. MyPath \subseteq Nodes /\ Nodes \subseteq Nat /\ Root(Capacity) \in MyPath
  BY PathShape DEF MyPath
<1>13. \A e : KeysAfter(e)' = KeysAfter(e)
  BY <1>4 DEF KeysAfter
<1>14. /\ sync'[s] = IF k = sync[s].last THEN NoCall ELSE [sync[s] EXCEPT !.next = k + 1]
       /\ \A r \in Calls \ {s} : sync'[r] = sync[r]
       /\ DOMAIN sync' = Calls
  BY <1>4, <1>5
<1>15. k # sync[s].last =>
         /\ sync'[s] \in [pc : {"list", "work"}, next : 1 .. (processed' + 1), last : 1 .. tree.epoch]
         /\ sync'[s].next = k + 1 /\ sync'[s].last = sync[s].last /\ sync'[s].pc = "work"
         /\ sync'[s].next <= sync'[s].last
  BY <1>4, <1>5, <1>7, <1>8, <1>14
<1>16. KeysTyped'
  <2>1. privs' \in NodeKeys
    BY <1>4, <1>6, <1>7 DEF NodeKeys
  <2>2. calm' \in Nat
    BY <1>4, <1>6
  <2> QED BY <1>4, <1>8, <2>1, <2>2 DEF OpenInv, KeysTyped
<1>17. CallsTyped'
  <2>1. ASSUME NEW r \in Calls
        PROVE  \/ sync'[r] = NoCall
               \/ sync'[r] \in [pc : {"asked"}, since : 0 .. processed']
               \/ /\ sync'[r] \in [pc : {"list", "work"}, next : 1 .. (processed' + 1), last : 1 .. tree.epoch]
                  /\ sync'[r].next <= sync'[r].last
    <3>1. CASE r = s
      BY <1>14, <1>15, <3>1
    <3>2. CASE r # s
      <4>1. sync'[r] = sync[r]
        BY <1>14, <3>2
      <4>2. \/ sync[r] = NoCall
            \/ sync[r] \in [pc : {"asked"}, since : 0 .. processed]
            \/ /\ sync[r] \in [pc : {"list", "work"}, next : 1 .. (processed + 1), last : 1 .. tree.epoch]
               /\ sync[r].next <= sync[r].last
        BY DEF OpenInv, CallsTyped
      <4>3. 0 .. processed \subseteq 0 .. processed' /\ 1 .. (processed + 1) \subseteq 1 .. (processed' + 1)
        BY <1>9
      <4>4. sync[r] \in [pc : {"asked"}, since : 0 .. processed] => sync[r] \in [pc : {"asked"}, since : 0 .. processed']
        BY <4>3
      <4>5. sync[r] \in [pc : {"list", "work"}, next : 1 .. (processed + 1), last : 1 .. tree.epoch]
            => sync[r] \in [pc : {"list", "work"}, next : 1 .. (processed' + 1), last : 1 .. tree.epoch]
        BY <4>3
      <4> QED BY <4>1, <4>2, <4>4, <4>5
    <3> QED BY <3>1, <3>2
  <2> QED BY <1>4, <1>14, <2>1 DEF CallsTyped
<1>18. RotationSound'
  <2>1. rotating'.pc # "synced" => sync'[Rotation] = NoCall
    <3>1. CASE s = Rotation
      <4>1. rotating.pc = "synced"
        BY <1>4, <3>1, CallShapes DEF OpenInv, RotationSound
      <4> QED BY <1>4, <1>14, <3>1, <4>1
    <3>2. CASE s # Rotation
      BY <1>4, <1>14, <3>2 DEF OpenInv, RotationSound, Calls
    <3> QED BY <3>1, <3>2
  <2>2. rotating'.pc = "planned" => rotating' = rotating
    BY <1>4, CallShapes
  <2> QED BY <1>4, <2>1, <2>2 DEF OpenInv, RotationSound
<1>19. CASE Disturbs(s)
  <2>1. calm' = MaxCommits + 1
    BY <1>4, <1>19
  <2>2. CalmSound'
    BY <1>4, <1>6, <2>1 DEF OpenInv, CalmSound
  <2>3. EpochsOpen'
    BY <1>6, <1>8, <2>1 DEF EpochsOpen, Readable, Epochs
  <2>4. CommitsSound'
    <3>1. \A e \in 1 .. tree.epoch : ~(e >= calm') /\ e # calm'
      BY <1>6, <2>1
    <3> QED BY <1>4, <1>13, <3>1 DEF OpenInv, CommitsSound, CommitSound
  <2>5. WorkSound'
    <3>1. ASSUME NEW e \in 1 .. (processed' + 1) PROVE ~(calm' < e)
      <4>1. PICK q : q = processed' + 1
        OBVIOUS
      <4>2. e \in Nat /\ e <= q /\ q \in Nat /\ q <= MaxCommits + 1
        BY <1>10, <4>1
      <4>3. ~(MaxCommits + 1 < e)
        BY <1>6, <4>2
      <4> QED BY <2>1, <4>3
    <3>2. \A e \in 1 .. (processed' + 1) : InStep(e)'
      BY <3>1 DEF InStep
    <3>3. AtWork' = {} => InStep(processed + 1)'
      <4>1. ~(calm' < processed' + 1)
        <5>1. PICK q : q = processed' + 1
          OBVIOUS
        <5>2. q \in Nat /\ q <= MaxCommits + 1
          BY <1>10, <5>1
        <5>3. ~(MaxCommits + 1 < q)
          BY <1>6, <5>2
        <5> QED BY <2>1, <5>1, <5>3
      <4> QED BY <4>1 DEF InStep
    <3>4. ASSUME NEW r \in Calls, AtWork' = {r} PROVE InStep(sync[r].next)'
      <4>1. sync'[r].pc = "work"
        BY <3>4 DEF AtWork
      <4>2. sync'[r].next \in 1 .. (processed' + 1)
        BY <1>17, <4>1, CallShapes DEF CallsTyped
      <4>3. ~(calm' < sync'[r].next)
        BY <3>1, <4>2
      <4> QED BY <4>3 DEF InStep
    <3> QED BY <3>3, <3>4 DEF WorkSound
  <2> QED BY <1>16, <1>17, <1>18, <2>2, <2>3, <2>4, <2>5 DEF OpenInv
<1>20. CASE ~Disturbs(s)
  <2>1. calm' = calm /\ sync[s].last >= processed /\ AtWork = {s}
    <3>1. calm' = calm /\ ~(sync[s].last < processed) /\ \A r \in Calls \ {s} : sync[r].pc # "work"
      BY <1>4, <1>20 DEF Disturbs
    <3> QED BY <1>4, <1>6, <1>7, <3>1 DEF AtWork
  <2>2. InStep(k)
    BY <1>1, <2>1 DEF OpenInv, WorkSound
  <2>3. CalmSound'
    BY <1>4, <2>1 DEF OpenInv, CalmSound
  <2>4. CommitsSound'
    BY <1>4, <1>13, <2>1 DEF OpenInv, CommitsSound, CommitSound
  <2>5. ASSUME calm <= k, NEW n \in MyPath, n \in c.path
        PROVE  n \in opened \/ \E j \in (k + 1) .. processed : n \in commits[j].path
    BY <1>2, <1>3, <1>7, <2>2, <2>5, OpensOrReplaced
  <2>6. InStep(k + 1)'
    <3> SUFFICES ASSUME calm < k + 1, NEW n \in MyPath
                 PROVE  \/ privs'[n] = KeysAfter(k)[n]
                        \/ \E j \in (k + 1) .. processed' : n \in commits[j].path
      <4>1. (k + 1) - 1 = k
        BY <1>7
      <4> QED BY <1>4, <1>13, <2>1, <4>1 DEF InStep
    <3>1. calm <= k /\ n \in Nodes
      BY <1>6, <1>7, <1>12
    <3>2. KeysAfter(k)[n] = IF n \in c.path THEN k ELSE c.gen[n]
      BY <1>2, <1>11 DEF CommitSound
    <3>3. CASE n \in c.path /\ n \in opened
      BY <1>4, <3>1, <3>2, <3>3
    <3>4. CASE n \in c.path /\ n \notin opened
      <4>1. PICK j \in (k + 1) .. processed : n \in commits[j].path
        BY <2>5, <3>1, <3>4
      <4>2. j \in (k + 1) .. processed'
        BY <1>6, <1>7, <1>8
      <4> QED BY <4>1, <4>2
    <3>5. CASE n \notin c.path
      <4>1. calm < k
        BY <1>2, <1>6, <1>7, <1>11, <3>1, <3>5 DEF CommitSound
      <4>2. privs'[n] = privs[n]
        BY <1>2, <1>4, <1>11, <3>1, <3>5 DEF CommitSound
      <4>3. KeysAfter(k - 1) = c.gen
        <5>1. k - 1 < tree.epoch /\ (k - 1) + 1 = k
          BY <1>6, <1>7
        <5> QED BY <1>2, <5>1 DEF KeysAfter
      <4>4. privs[n] = KeysAfter(k - 1)[n] \/ \E j \in k .. processed : n \in commits[j].path
        BY <2>2, <4>1 DEF InStep
      <4>5. CASE privs[n] = KeysAfter(k - 1)[n]
        BY <3>2, <3>5, <4>2, <4>3, <4>5
      <4>6. CASE \E j \in k .. processed : n \in commits[j].path
        <5>1. PICK j \in k .. processed : n \in commits[j].path
          BY <4>6
        <5>2. j # k
          BY <1>2, <3>5, <5>1
        <5>3. j \in (k + 1) .. processed'
          BY <1>6, <1>7, <1>8, <5>2
        <5> QED BY <5>1, <5>3
      <4> QED BY <4>4, <4>5, <4>6
    <3> QED BY <3>3, <3>4, <3>5
  <2>7. WorkSound'
    <3>1. CASE k = sync[s].last
      <4>1. AtWork' = {}
        BY <1>14, <2>1, <3>1, CallShapes DEF AtWork
      <4>2. processed' = k
        BY <1>4, <1>6, <1>7, <2>1, <3>1
      <4>3. InStep(processed + 1)'
        BY <2>6, <4>2 DEF InStep
      <4> QED BY <4>1, <4>3 DEF WorkSound
    <3>2. CASE k # sync[s].last
      <4>1. AtWork' = {s} /\ sync'[s].next = k + 1
        BY <1>14, <1>15, <2>1, <3>2 DEF AtWork
      <4>2. ASSUME NEW r \in Calls, AtWork' = {r} PROVE InStep(sync[r].next)'
        <5>1. sync'[r].next = k + 1
          BY <4>1, <4>2
        <5> QED BY <2>6, <5>1 DEF InStep
      <4> QED BY <4>1, <4>2 DEF WorkSound
    <3> QED BY <3>1, <3>2
  <2>8. EpochsOpen'
    <3> SUFFICES ASSUME NEW e \in Epochs, calm <= e, e <= processed' PROVE e \in secrets'
      BY <2>1 DEF EpochsOpen, Readable
    <3>1. CASE e <= processed
      BY <1>4, <3>1 DEF OpenInv, EpochsOpen, Readable
    <3>2. CASE ~(e <= processed)
      <4>1. e = k /\ k = processed + 1
        BY <1>4, <1>6, <1>7, <3>2 DEF Epochs
      <4>2. Root(Capacity) \in c.path
        BY <1>2, <1>11 DEF CommitSound
      <4>3. (k + 1) .. processed = {}
        BY <1>6, <4>1
      <4>4. Root(Capacity) \in opened
        BY <1>12, <2>5, <4>1, <4>2, <4>3
      <4> QED BY <1>4, <4>1, <4>4
    <3> QED BY <3>1, <3>2
  <2> QED BY <1>16, <1>17, <1>18, <2>3, <2>4, <2>7, <2>8 DEF OpenInv
<1> QED BY <1>19, <1>20

(* The group as it begins.                                                  *)
LEMMA OpenStart == GroupClientInit => OpenInv
<1> SUFFICES ASSUME GroupClientInit PROVE OpenInv
  OBVIOUS
<1>1. PICK others \in SUBSET (1 .. (Capacity - 1)) :
        tree = [epoch |-> 0, gen |-> [n \in Nodes |-> 0], occupied |-> {MyLeaf} \union others,
                due |-> {}, full |-> TRUE, vers |-> {0}]
  BY DEF GroupClientInit
<1>2. /\ commits = [e \in Epochs |-> NoCommit] /\ version = 0 /\ privs = [n \in Nodes |-> 0]
      /\ processed = 0 /\ sync = [s \in Calls |-> NoCall] /\ rotating = NoCall /\ calm = 1
      /\ Capacity \in Nat /\ Capacity > 1 /\ MaxCommits \in Nat
  BY GroupClientAssumption DEF GroupClientInit
<1>3. [n \in Nodes |-> 0] \in NodeKeys
  BY DEF NodeKeys
<1>4. KeysTyped
  <2>1. {MyLeaf} \union others \in SUBSET Seats /\ {} \in SUBSET Seats /\ {0} \in SUBSET Nat
    BY <1>2 DEF MyLeaf, Seats
  <2>2. 0 \in 0 .. MaxCommits
    BY <1>2
  <2> QED BY <1>1, <1>2, <1>3, <2>1, <2>2 DEF KeysTyped
<1>5. tree.epoch = 0 /\ tree.full = TRUE /\ tree.vers = {0}
  BY <1>1
<1>6. CallsTyped /\ RotationSound
  BY <1>2, CallShapes DEF CallsTyped, RotationSound, Calls
<1>7. CommitsSound
  BY <1>5 DEF CommitsSound
<1>8. CalmSound
  BY <1>2, <1>5 DEF CalmSound
<1>9. AtWork = {}
  BY <1>2, CallShapes DEF AtWork
<1>10. WorkSound
  BY <1>2, <1>9 DEF WorkSound, InStep
<1>11. EpochsOpen
  BY <1>2 DEF EpochsOpen, Readable, Epochs
<1> QED BY <1>4, <1>6, <1>7, <1>8, <1>10, <1>11 DEF OpenInv

(* Every step of the group.                                                 *)
LEMMA OpenStep == OpenInv /\ [GroupClientNext]_groupVars => OpenInv'
<1> SUFFICES ASSUME OpenInv, [GroupClientNext]_groupVars PROVE OpenInv'
  OBVIOUS
<1>1. ASSUME UNCHANGED groupVars PROVE OpenInv'
  <2>1. UNCHANGED <<tree, commits, version, privs, processed, secrets, sync, rotating, calm>>
    BY <1>1 DEF groupVars, clientVars
  <2>2. CallsTyped' /\ RotationSound'
    BY <2>1 DEF OpenInv, CallsTyped, RotationSound
  <2>3. AtWork' = AtWork /\ \A r \in AtWork : sync'[r].next = sync[r].next
    BY <2>1 DEF AtWork
  <2> QED BY <2>1, <2>2, <2>3, WorkStays, KeysStay
<1>2. ASSUME NEW l \in Seats, Change(l) \/ OtherCommits(l) PROVE OpenInv'
  BY <1>2, ChangeKeeps, OtherCommitsKeeps
<1>3. ASSUME NEW s \in Calls, StartSync(s) \/ ListAnswered(s) \/ ListArrives(s) \/ ProcessCommit(s)
      PROVE  OpenInv'
  BY <1>3, StartSyncKeeps, ListAnsweredKeeps, ListArrivesKeeps, ProcessCommitKeeps
<1>4. ASSUME NEW kind \in {"preferred", "other", "periodic"}, RotateGroup(kind) PROVE OpenInv'
  BY <1>4, RotateGroupKeeps
<1>5. CASE Plan \/ PostCommit \/ Reset
  BY <1>5, PlanKeeps, PostCommitKeeps, ResetKeeps
<1> QED BY <1>1, <1>2, <1>3, <1>4, <1>5 DEF GroupClientNext, Seats

(* No epoch is lost but by calls of syncTree that overlap: a member who has  *)
(* processed an epoch, since the own branch was keyed undisturbed, has its  *)
(* key.                                                                    *)
THEOREM EpochsAreOpen == GroupClientSpec => []EpochsOpen
<1>1. OpenInv => EpochsOpen
  BY DEF OpenInv
<1> QED BY <1>1, OpenStart, OpenStep, PTL DEF GroupClientSpec

(***************************************************************************)
(* Subtrees, resolutions and capacities                                    *)
(***************************************************************************)
(* The nodes below n are an interval of numbers.                           *)
LEMMA SubtreeIs ==
    \A n \in Nat : \A x : x \in Subtree(n) <=> x \in Nat /\ n - Ones[n] <= x /\ x <= n + Ones[n]
<1> SUFFICES ASSUME NEW n \in Nat, NEW x
             PROVE  x \in Subtree(n) <=> x \in Nat /\ n - Ones[n] <= x /\ x <= n + Ones[n]
  OBVIOUS
<1>1. Ones[n] \in Nat /\ Ones[n] <= n
  BY OnesBound
<1> QED BY <1>1 DEF Subtree

(* What is below a node that is below another is below that one.           *)
LEMMA Nested ==
    \A b \in Nat : \A a \in Subtree(b) : a \in Nat /\ Subtree(a) \subseteq Subtree(b)
<1> DEFINE Within(b) == \A a \in Nat : b - Ones[b] <= a /\ a <= b + Ones[b] =>
                           b - Ones[b] <= a - Ones[a] /\ a + Ones[a] <= b + Ones[b]
           Bad == {b \in Nat : ~Within(b)}
<1>1. Bad = {}
  <2> SUFFICES ASSUME Bad # {} PROVE FALSE
    OBVIOUS
  <2>1. PICK b \in Bad : \A y \in Bad : b <= y
    <3> HIDE DEF Bad
    <3>1. Bad \subseteq Nat
      BY DEF Bad
    <3> QED BY <3>1, LeastNumber
  <2> HIDE DEF Within
  <2>2. b \in Nat /\ ~Within(b)
    BY <2>1
  <2>3. PICK a \in Nat : /\ b - Ones[b] <= a /\ a <= b + Ones[b]
                         /\ ~(b - Ones[b] <= a - Ones[a] /\ a + Ones[a] <= b + Ones[b])
    BY <2>2 DEF Within
  <2>4. b % 2 = 1
    <3>1. ASSUME b % 2 = 0 PROVE FALSE
      <4>1. Ones[b] = 0
        BY <3>1, <2>2, OnesStep
      <4>2. a = b
        BY <4>1, <2>2, <2>3
      <4> QED BY <4>2, <2>3, <2>2, OnesBound
    <3> QED BY <3>1, <2>2, Halves
  <2>5. a % 2 = 1
    <3>1. ASSUME a % 2 = 0 PROVE FALSE
      <4>1. Ones[a] = 0
        BY <3>1, OnesStep
      <4> QED BY <4>1, <2>3
    <3> QED BY <3>1, Halves
  <2> DEFINE c == b \div 2
             d == a \div 2
  <2>6. /\ c \in Nat /\ b = 2 * c + 1 /\ c < b /\ Ones[b] = 2 * Ones[c] + 1 /\ Ones[c] \in Nat
        /\ d \in Nat /\ a = 2 * d + 1 /\ Ones[a] = 2 * Ones[d] + 1 /\ Ones[d] \in Nat
    BY <2>2, <2>4, <2>5, OnesStep, OnesBound, Halves
  <2> HIDE DEF c, d
  <2>7. Within(c)
    BY <2>1, <2>2, <2>6
  <2>8. c - Ones[c] <= d /\ d <= c + Ones[c]
    BY <2>3, <2>6
  <2>9. c - Ones[c] <= d - Ones[d] /\ d + Ones[d] <= c + Ones[c]
    BY <2>6, <2>7, <2>8 DEF Within
  <2> QED BY <2>3, <2>6, <2>9
<1>2. ASSUME NEW b \in Nat, NEW a \in Subtree(b)
      PROVE  a \in Nat /\ Subtree(a) \subseteq Subtree(b)
  <2>1. Within(b)
    BY <1>1
  <2>2. a \in Nat /\ b - Ones[b] <= a /\ a <= b + Ones[b]
    BY SubtreeIs
  <2>3. b - Ones[b] <= a - Ones[a] /\ a + Ones[a] <= b + Ones[b]
    BY <2>1, <2>2
  <2>4. ASSUME NEW x \in Subtree(a) PROVE x \in Subtree(b)
    <3>1. x \in Nat /\ a - Ones[a] <= x /\ x <= a + Ones[a]
      BY <2>2, SubtreeIs
    <3>2. Ones[a] \in Nat /\ Ones[b] \in Nat
      BY <2>2, OnesBound
    <3>3. b - Ones[b] <= x /\ x <= b + Ones[b]
      BY <3>1, <3>2, <2>3, <2>2
    <3> QED BY <3>1, <3>3, SubtreeIs
  <2> QED BY <2>2, <2>4
<1> QED BY <1>2

(* The children of an inner node halve what is below it.                   *)
LEMMA Children ==
    \A n \in Nat : Ones[n] # 0 =>
        /\ n % 2 = 1
        /\ Left(n) \in Nat /\ Right(n) \in Nat
        /\ Ones[Left(n)] < Ones[n] /\ Ones[Right(n)] < Ones[n]
        /\ Subtree(Left(n)) \subseteq Subtree(n) /\ Subtree(Right(n)) \subseteq Subtree(n)
        /\ \A i \in Nat : LeafNode(i) \in Subtree(n) =>
              LeafNode(i) \in Subtree(Left(n)) \/ LeafNode(i) \in Subtree(Right(n))
<1> DEFINE Half(n) == Ones[n] # 0 => /\ n % 2 = 1
                                     /\ Left(n) \in Nat /\ Right(n) \in Nat
                                     /\ Left(n) = n - Ones[Left(n)] - 1 /\ Right(n) = n + Ones[Right(n)] + 1
                                     /\ Ones[n] = 2 * Ones[Left(n)] + 1 /\ Ones[n] = 2 * Ones[Right(n)] + 1
           Bad == {n \in Nat : ~Half(n)}
<1>1. Bad = {}
  <2> SUFFICES ASSUME Bad # {} PROVE FALSE
    OBVIOUS
  <2>1. PICK n \in Bad : \A y \in Bad : n <= y
    <3> HIDE DEF Bad
    <3>1. Bad \subseteq Nat
      BY DEF Bad
    <3> QED BY <3>1, LeastNumber
  <2> HIDE DEF Half
  <2>2. n \in Nat /\ ~Half(n)
    BY <2>1
  <2>3. Ones[n] # 0
    BY <2>2 DEF Half
  <2>4. n % 2 = 1
    BY <2>2, <2>3, OnesStep, Halves
  <2> DEFINE m == n \div 2
             p == Ones[m]
  <2>5. m \in Nat /\ n = 2 * m + 1 /\ m < n /\ Ones[n] = 2 * p + 1 /\ p \in Nat /\ p <= m
    BY <2>2, <2>4, OnesStep, OnesBound, Halves
  <2>6. Left(n) = 2 * m - p /\ Right(n) = 2 * m + p + 2
    <3> HIDE DEF m, p
    <3>1. (Ones[n] + 1) \div 2 = p + 1
      BY <2>5
    <3> QED BY <3>1, <2>5 DEF Left, Right
  <2>7. Half(m)
    <3> HIDE DEF m, p
    <3> QED BY <2>1, <2>5
  <2>8. Ones[2 * m - p] = p /\ Ones[2 * m + p + 2] = p
    <3>1. CASE p = 0
      <4>1. (2 * m - p) % 2 = 0 /\ (2 * m + p + 2) % 2 = 0 /\ 2 * m - p \in Nat /\ 2 * m + p + 2 \in Nat
        <5> HIDE DEF m, p
        <5> QED BY <3>1, <2>5
      <4> QED BY <4>1, <3>1, OnesStep
    <3>2. CASE p # 0
      <4>1. /\ Left(m) \in Nat /\ Right(m) \in Nat
            /\ Left(m) = m - Ones[Left(m)] - 1 /\ Right(m) = m + Ones[Right(m)] + 1
            /\ p = 2 * Ones[Left(m)] + 1 /\ p = 2 * Ones[Right(m)] + 1
        BY <3>2, <2>7 DEF Half
      <4>2. Ones[Left(m)] \in Nat /\ Ones[Right(m)] \in Nat
        BY <4>1, OnesBound
      <4> DEFINE q == Ones[Left(m)]
                 r == Ones[Right(m)]
                 x == Left(m)
                 y == Right(m)
      <4>3. /\ x \in Nat /\ y \in Nat /\ q \in Nat /\ r \in Nat
            /\ x = m - q - 1 /\ y = m + r + 1 /\ p = 2 * q + 1 /\ p = 2 * r + 1
            /\ q = Ones[x] /\ r = Ones[y]
        BY <4>1, <4>2
      <4> HIDE DEF q, r, x, y, m, p
      <4>4. 2 * m - p = 2 * x + 1 /\ 2 * m + p + 2 = 2 * y + 1
        BY <4>3, <2>5
      <4>5. (2 * x + 1) % 2 = 1 /\ (2 * x + 1) \div 2 = x /\ (2 * y + 1) % 2 = 1 /\ (2 * y + 1) \div 2 = y
        BY <4>3
      <4>6. Ones[2 * x + 1] = 2 * q + 1 /\ Ones[2 * y + 1] = 2 * r + 1
        BY <4>3, <4>5, OnesStep
      <4> QED BY <4>3, <4>4, <4>6
    <3> QED BY <3>1, <3>2
  <2> HIDE DEF m, p
  <2>9. Left(n) \in Nat /\ Right(n) \in Nat
    BY <2>5, <2>6
  <2>10. Ones[Left(n)] = p /\ Ones[Right(n)] = p
    BY <2>6, <2>8
  <2> QED BY <2>2, <2>4, <2>5, <2>6, <2>9, <2>10 DEF Half
<1>2. ASSUME NEW n \in Nat, Ones[n] # 0
      PROVE  /\ n % 2 = 1
             /\ Left(n) \in Nat /\ Right(n) \in Nat
             /\ Ones[Left(n)] < Ones[n] /\ Ones[Right(n)] < Ones[n]
             /\ Subtree(Left(n)) \subseteq Subtree(n) /\ Subtree(Right(n)) \subseteq Subtree(n)
             /\ \A i \in Nat : LeafNode(i) \in Subtree(n) =>
                   LeafNode(i) \in Subtree(Left(n)) \/ LeafNode(i) \in Subtree(Right(n))
  <2> DEFINE l == Left(n)
             r == Right(n)
             p == Ones[l]
             q == Ones[r]
             w == Ones[n]
  <2>1. Half(n)
    BY <1>1
  <2>2. /\ n % 2 = 1 /\ l \in Nat /\ r \in Nat
        /\ l = n - p - 1 /\ r = n + q + 1 /\ w = 2 * p + 1 /\ w = 2 * q + 1
    BY <1>2, <2>1
  <2>3. p \in Nat /\ q \in Nat /\ w \in Nat
    BY <2>2, OnesBound
  <2>4. l \in Subtree(n) /\ r \in Subtree(n)
    <3>1. n - w <= l /\ l <= n + w /\ n - w <= r /\ r <= n + w
      <4> HIDE DEF l, r, p, q, w
      <4> QED BY <2>2, <2>3
    <3> QED BY <3>1, <2>2, SubtreeIs
  <2>5. ASSUME NEW i \in Nat, LeafNode(i) \in Subtree(n)
        PROVE  LeafNode(i) \in Subtree(l) \/ LeafNode(i) \in Subtree(r)
    <3>1. n - w <= 2 * i /\ 2 * i <= n + w /\ 2 * i \in Nat
      BY <2>5, SubtreeIs DEF LeafNode
    <3>2. 2 * i # n
      BY <2>2, Halves
    <3>3. (l - p <= 2 * i /\ 2 * i <= l + p) \/ (r - q <= 2 * i /\ 2 * i <= r + q)
      <4> HIDE DEF l, r, p, q, w
      <4> QED BY <3>1, <3>2, <2>2, <2>3
    <3> QED BY <3>1, <3>3, <2>2, SubtreeIs DEF LeafNode
  <2>6. p < w /\ q < w
    <3> HIDE DEF p, q, w
    <3> QED BY <2>2, <2>3
  <2> HIDE DEF Half
  <2> QED BY <2>2, <2>4, <2>5, <2>6, Nested
<1> QED BY <1>2

(* Every nonblank node below n is below one of the resolution of n.        *)
LEMMA ResolutionCovers ==
    ASSUME NEW n \in Nat, NEW filled, NEW x \in filled \intersect Subtree(n)
    PROVE  \E t \in Resolution(n, filled) : x \in Subtree(t)
<1> DEFINE below == filled \intersect Subtree(n)
           D == {d \in Nat : \E t \in below : x \in Subtree(t) /\ d = Ones[n] - Ones[t]}
<1>1. \A t \in below : t \in Nat /\ Ones[t] \in Nat /\ Ones[t] <= Ones[n] /\ Ones[n] \in Nat
  <2> SUFFICES ASSUME NEW t \in Subtree(n) PROVE t \in Nat /\ Ones[t] \in Nat /\ Ones[t] <= Ones[n] /\ Ones[n] \in Nat
    OBVIOUS
  <2>1. t \in Nat /\ Subtree(t) \subseteq Subtree(n)
    BY Nested
  <2>2. Ones[t] \in Nat /\ Ones[t] <= t /\ Ones[n] \in Nat
    BY <2>1, OnesBound
  <2>3. t - Ones[t] \in Subtree(t) /\ t + Ones[t] \in Subtree(t)
    BY <2>1, <2>2 DEF Subtree
  <2>4. n - Ones[n] <= t - Ones[t] /\ t + Ones[t] <= n + Ones[n]
    BY <2>1, <2>3, SubtreeIs
  <2> QED BY <2>1, <2>2, <2>4
<1>2. x \in below /\ x \in Subtree(x)
  BY <1>1, Below
<1>3. Ones[n] - Ones[x] \in D
  BY <1>1, <1>2
<1>4. PICK d \in D : \A e \in D : d <= e
  <2> HIDE DEF D
  <2>1. D \subseteq Nat /\ D # {}
    BY <1>3 DEF D
  <2> QED BY <2>1, LeastNumber
<1>5. PICK t \in below : x \in Subtree(t) /\ d = Ones[n] - Ones[t]
  BY <1>4
<1>6. ASSUME NEW a \in below, t \in Subtree(a) PROVE a = t
  <2>1. Subtree(t) \subseteq Subtree(a) /\ a \in Nat /\ t \in Nat
    BY <1>1, <1>6, Nested
  <2>2. Ones[n] - Ones[a] \in D
    BY <1>1, <1>5, <2>1
  <2>3. Ones[a] <= Ones[t]
    BY <1>1, <1>4, <1>5, <2>2
  <2>4. Ones[a] \in Nat /\ Ones[t] \in Nat /\ Ones[t] <= t /\ Ones[a] <= a
    BY <2>1, OnesBound
  <2>5. t - Ones[t] \in Subtree(t) /\ t + Ones[t] \in Subtree(t)
    BY <2>1, <2>4 DEF Subtree
  <2>6. a - Ones[a] <= t - Ones[t] /\ t + Ones[t] <= a + Ones[a]
    BY <2>1, <2>5, SubtreeIs
  <2> QED BY <2>1, <2>3, <2>4, <2>6
<1>7. t \in Resolution(n, filled)
  BY <1>5, <1>6 DEF Resolution
<1> QED BY <1>5, <1>7

(* Powers of two.                                                           *)
LEMMA PowerTwice == \A c \in Powers : c \in Nat /\ c > 0 /\ 2 * c \in Powers /\ Ones[c - 1] = c - 1
<1> SUFFICES ASSUME NEW c \in Powers PROVE c \in Nat /\ c > 0 /\ 2 * c \in Powers /\ Ones[c - 1] = c - 1
  OBVIOUS
<1>1. c \in Nat /\ c > 0 /\ Ones[c - 1] = c - 1 /\ c - 1 \in Nat
  BY DEF Powers
<1> DEFINE x == 2 * c - 1
<1>2. x \in Nat /\ x % 2 = 1 /\ x \div 2 = c - 1
  BY <1>1
<1>3. Ones[x] = 2 * Ones[c - 1] + 1
  BY <1>2, OnesStep
<1>4. Ones[2 * c - 1] = 2 * c - 1
  BY <1>1, <1>3
<1> QED BY <1>1, <1>4 DEF Powers

(* Between a number and its double lies a power of two.                     *)
LEMMA PowerBetween == \A n \in Nat : n > 0 => \E c \in Powers : n <= c /\ c <= 2 * n
<1> DEFINE Bad == {n \in Nat : n > 0 /\ ~ \E c \in Powers : n <= c /\ c <= 2 * n}
<1> SUFFICES ASSUME Bad # {} PROVE FALSE
  OBVIOUS
<1>1. PICK n \in Bad : \A y \in Bad : n <= y
  <2> HIDE DEF Bad
  <2>1. Bad \subseteq Nat
    BY DEF Bad
  <2> QED BY <2>1, LeastNumber
<1>2. n \in Nat /\ n > 0 /\ \A c \in Powers : ~(n <= c /\ c <= 2 * n)
  BY <1>1
<1>3. n # 1
  <2>1. Ones[0] = 0
    BY OnesBound
  <2>2. 1 \in Powers
    BY <2>1 DEF Powers
  <2> QED BY <2>2, <1>2
<1> DEFINE h == (n + 1) \div 2
<1>4. h \in Nat /\ h > 0 /\ h < n /\ n <= 2 * h
  BY <1>2, <1>3
<1> HIDE DEF h
<1>5. PICK c \in Powers : h <= c /\ c <= 2 * h
  BY <1>1, <1>4
<1>6. c \in Nat /\ 2 * c \in Powers
  BY PowerTwice
<1>7. c < n
  BY <1>2, <1>4, <1>5, <1>6
<1>8. n <= 2 * c /\ 2 * c <= 2 * n
  BY <1>2, <1>4, <1>5, <1>6, <1>7
<1> QED BY <1>2, <1>6, <1>8

(* capacity_for gives a power of two, the least one.                        *)
LEMMA CapacityForIs ==
    \A n \in Nat : n > 0 =>
        /\ CapacityFor(n) \in Powers /\ n <= CapacityFor(n)
        /\ \A d \in Powers : n <= d => CapacityFor(n) <= d
<1> SUFFICES ASSUME NEW n \in Nat, n > 0
             PROVE  /\ CapacityFor(n) \in Powers /\ n <= CapacityFor(n)
                    /\ \A d \in Powers : n <= d => CapacityFor(n) <= d
  OBVIOUS
<1> DEFINE S == (n .. (2 * n)) \intersect Powers
           Least(c) == \A d \in n .. (c - 1) : d \notin Powers
<1>1. S \subseteq Nat /\ S # {}
  <2>1. PICK c \in Powers : n <= c /\ c <= 2 * n
    BY PowerBetween
  <2>2. c \in S
    BY <2>1, PowerTwice
  <2> QED BY <2>2
<1>2. PICK c \in S : \A d \in S : c <= d
  <2> HIDE DEF S
  <2> QED BY <1>1, LeastNumber
<1>3. Least(c)
  BY <1>1, <1>2
<1>4. CapacityFor(n) = CHOOSE e \in S : Least(e)
  BY DEF CapacityFor
<1> DEFINE e == CapacityFor(n)
<1>5. e \in S /\ Least(e)
  <2> HIDE DEF S, Least
  <2> QED BY <1>2, <1>3, <1>4
<1>6. e \in Powers /\ e \in Nat /\ n <= e
  <2> HIDE DEF e
  <2> QED BY <1>1, <1>5
<1>7. ASSUME NEW d \in Powers, n <= d PROVE e <= d
  <2>1. d \in Nat
    BY PowerTwice
  <2> HIDE DEF e
  <2> QED BY <2>1, <1>5, <1>6, <1>7
<1> QED BY <1>6, <1>7

(***************************************************************************)
(* The types: what a transaction has read is of the tree as it is, or was when*)
(* it was smaller                                                          *)
(***************************************************************************)
(* What a transaction has read, when the tree has cap leaves and now events *)
(* have been created.                                                       *)
AddTyped(j, cap) ==
    /\ j.op = "add" /\ j.subject \in Users /\ j.leaf \in Leaves
    /\ \/ j.capacity = 0 /\ j.leaf < cap
       \/ /\ j.capacity \in Powers /\ j.leaf < j.capacity
          /\ cap <= j.capacity /\ j.capacity <= MaxLeaves
RemoveTyped(j, cap) ==
    /\ j.op = "remove" /\ j.subject \in Users /\ j.leaf \in Leaves /\ j.leaf < cap
    /\ j.action \in {"remove", "leave"}
ConfirmTyped(j, cap) ==
    /\ j.op = "confirm" /\ j.event \in Nat /\ 1 <= j.event /\ j.event <= j.seen
    /\ \A i \in DOMAIN j.leaves : i \in Leaves /\ i < cap /\ j.leaves[i] \in Users \union {Nobody}
CommitTyped(j, cap) ==
    /\ j.op = "commit" /\ j.epoch \in 1 .. MaxEpoch /\ j.by \in Users
    /\ \A k \in j.events : k \in Nat /\ 1 <= k /\ k <= j.seen
    /\ \A n \in DOMAIN j.held : n \in Inner(MaxLeaves) /\ n < NodeCount(cap) /\ j.held[n] \subseteq Users
    /\ j.blanks \subseteq Inner(MaxLeaves)
    /\ j.root \in DOMAIN j.held
JobTyped(j, cap, now) ==
    \/ j = Idle
    \/ /\ j.seen \in Nat /\ j.seen <= now
       /\ AddTyped(j, cap) \/ RemoveTyped(j, cap) \/ ConfirmTyped(j, cap) \/ CommitTyped(j, cap)

JobTypes ==
    /\ DOMAIN job = Slots
    /\ \A s \in Slots : JobTyped(job[s], capacity, Now)
    /\ \A r, s \in Slots : job[r].op = "add" /\ job[s].op = "add" => r = s

(* Before the group exists there is nothing.                                *)
Started ==
    capacity = 0 => /\ events = <<>> /\ epoch = 0 /\ secret = {}
                    /\ \A u \in Users : ~Active(u)
                    /\ \A s \in Slots : job[s] = Idle

TreeTypes ==
    /\ capacity \in Powers \union {0} /\ capacity # 1
    /\ \A k \in DOMAIN events :
         IF events[k].action = "create" THEN events[k].leaf = NoLeaf ELSE events[k].leaf < capacity
    /\ \A i \in Leaves : leaf[i] \in Users => i < capacity
    /\ \A n \in DOMAIN node : node[n] # NoKey => n < NodeCount(capacity)

TypesInv == TypeOK /\ TreeTypes /\ JobTypes /\ Started

EventRecords == [action : Actions, subject : Users, leaf : Leaves \union {NoLeaf},
                 chain : {"pending", "submitted", "confirmed", "failed"},
                 rotation : {"waiting", "requested", "done"}]

(* The same facts, one by one.                                              *)
LEMMA TypeFacts ==
    ASSUME TypesInv
    PROVE  /\ MaxLeaves \in Nat /\ MaxLeaves \in Powers /\ Nobody \notin Users /\ Absent \notin Users
           /\ \A u \in Users : /\ member[u].status \in {"never", "in", "left"}
                               /\ member[u].role \in {"owner", "member"}
                               /\ member[u].leaf \in Nat /\ member[u].leaf <= MaxLeaves
                               /\ Active(u) => member[u].leaf < capacity /\ member[u].leaf \in Leaves
           /\ capacity \in Nat /\ capacity <= MaxLeaves
           /\ Now \in Nat /\ DOMAIN events = 1 .. Now
           /\ events \in Seq(EventRecords)
           /\ \A k \in DOMAIN events : /\ k \in Nat /\ events[k] \in EventRecords
                                       /\ events[k].leaf \in Nat /\ events[k].subject \in Users
           /\ DOMAIN node = Inner(MaxLeaves)
           /\ \A n \in DOMAIN node : node[n].holders \subseteq Users
           /\ epoch \in Nat
<1>1. MaxLeaves \in Nat /\ MaxLeaves \in Powers /\ Nobody \notin Users /\ Absent \notin Users
  BY GroupAssumption DEF Powers
<1>2. TypeOK
  BY DEF TypesInv
<1>3. ASSUME NEW u \in Users
      PROVE  /\ member[u].status \in {"never", "in", "left"}
             /\ member[u].role \in {"owner", "member"}
             /\ member[u].leaf \in Nat /\ member[u].leaf <= MaxLeaves
             /\ Active(u) => member[u].leaf < capacity /\ member[u].leaf \in Leaves
  <2>1. member[u] \in [status : {"never", "in", "left"}, role : {"owner", "member"}, leaf : Leaves \union {NoLeaf}]
    BY <1>2 DEF TypeOK
  <2>2. member[u].leaf \in Nat /\ member[u].leaf <= MaxLeaves
    BY <1>1, <2>1 DEF Leaves, NoLeaf
  <2>3. Active(u) => member[u].leaf < capacity
    BY <1>2 DEF TypeOK, Active
  <2>4. capacity \in Nat /\ capacity <= MaxLeaves
    BY <1>1, <1>2 DEF TypeOK
  <2>5. Active(u) => member[u].leaf \in Leaves
    BY <1>1, <2>2, <2>3, <2>4 DEF Leaves
  <2> QED BY <2>1, <2>2, <2>3, <2>5
<1>4. capacity \in Nat /\ capacity <= MaxLeaves
  BY <1>1, <1>2 DEF TypeOK
<1>5. events \in Seq(EventRecords)
  BY <1>2 DEF TypeOK, EventRecords
<1>6. Now \in Nat /\ DOMAIN events = 1 .. Now
  BY <1>5 DEF Now
<1>7. ASSUME NEW k \in DOMAIN events
      PROVE  k \in Nat /\ events[k] \in EventRecords /\ events[k].leaf \in Nat /\ events[k].subject \in Users
  <2>1. k \in Nat /\ events[k] \in EventRecords
    BY <1>5, <1>6
  <2>2. events[k].leaf \in Leaves \union {NoLeaf} /\ events[k].subject \in Users
    BY <2>1 DEF EventRecords
  <2> QED BY <1>1, <2>1, <2>2 DEF Leaves, NoLeaf
<1>8. DOMAIN node = Inner(MaxLeaves) /\ \A n \in DOMAIN node : node[n].holders \subseteq Users
  BY <1>2 DEF TypeOK
<1>9. epoch \in Nat
  BY <1>2, GroupAssumption DEF TypeOK
<1> QED BY <1>1, <1>3, <1>4, <1>5, <1>6, <1>7, <1>8, <1>9

(* A transaction keeps its types while the tree grows and events are added, *)
(* an addition as long as no other one makes the tree grow.                 *)
LEMMA JobStaysTyped ==
    ASSUME NEW j, NEW cap \in Nat, NEW now \in Nat, NEW cap2 \in Nat, NEW now2 \in Nat,
           JobTyped(j, cap, now), cap <= cap2, now <= now2, cap2 = cap \/ j.op # "add"
    PROVE  JobTyped(j, cap2, now2)
<1>1. CASE j = Idle
  BY <1>1 DEF JobTyped
<1>2. CASE j # Idle
  <2>1. j.seen \in Nat /\ j.seen <= now2
    BY <1>2 DEF JobTyped
  <2>2. AddTyped(j, cap) => AddTyped(j, cap2)
    BY DEF AddTyped
  <2>3. RemoveTyped(j, cap) => RemoveTyped(j, cap2)
    <3> SUFFICES ASSUME RemoveTyped(j, cap) PROVE RemoveTyped(j, cap2)
      OBVIOUS
    <3>1. j.leaf \in Nat
      BY GroupAssumption DEF RemoveTyped, Leaves
    <3> QED BY <3>1 DEF RemoveTyped
  <2>4. ConfirmTyped(j, cap) => ConfirmTyped(j, cap2)
    <3> SUFFICES ASSUME ConfirmTyped(j, cap), NEW i \in DOMAIN j.leaves PROVE i < cap2
      BY DEF ConfirmTyped
    <3>1. i \in Nat /\ i < cap
      BY GroupAssumption DEF ConfirmTyped, Leaves
    <3> QED BY <3>1
  <2>5. CommitTyped(j, cap) => CommitTyped(j, cap2)
    <3> SUFFICES ASSUME CommitTyped(j, cap), NEW n \in DOMAIN j.held PROVE n < NodeCount(cap2)
      BY DEF CommitTyped
    <3>1. n \in Nat /\ n < NodeCount(cap)
      BY GroupAssumption DEF CommitTyped, Inner, NodeCount, Powers
    <3> QED BY <3>1 DEF NodeCount
  <2> QED BY <1>2, <2>1, <2>2, <2>3, <2>4, <2>5 DEF JobTyped
<1> QED BY <1>1, <1>2

(* Of a transaction and its kind.                                           *)
LEMMA JobKinds ==
    ASSUME JobTypes, NEW s \in Slots
    PROVE  /\ job[s].op = "add" => AddTyped(job[s], capacity)
           /\ job[s].op = "remove" => RemoveTyped(job[s], capacity)
           /\ job[s].op = "confirm" => ConfirmTyped(job[s], capacity)
           /\ job[s].op = "commit" => CommitTyped(job[s], capacity)
           /\ job[s].op # "idle" => job[s].seen \in Nat /\ job[s].seen <= Now
           /\ job[s].op \in {"idle", "add", "remove", "confirm", "commit"}
           /\ job[s].op = "idle" <=> job[s] = Idle
BY DEF JobTypes, JobTyped, AddTyped, RemoveTyped, ConfirmTyped, CommitTyped, Idle

(* A read keeps the types if what it remembers has them.                    *)
LEMMA ReadTypes ==
    ASSUME TypesInv, NEW s \in Slots, NEW j, Read(s, j), UNCHANGED <<member, capacity, events, treeVars>>,
           capacity # 0, JobTyped(j, capacity, Now),
           j.op = "add" => \A r \in Slots : job[r].op # "add"
    PROVE  TypesInv'
<1>1. \A r \in Slots : job'[r] = IF r = s THEN j ELSE job[r]
  BY DEF Read, TypesInv, JobTypes
<1>2. DOMAIN job' = Slots
  BY DEF Read, TypesInv, JobTypes
<1>3. UNCHANGED <<member, capacity, events, leaf, node, epoch, flag, secret, orphaned>>
  BY DEF treeVars
<1>4. JobTypes'
  <2>1. \A r \in Slots : JobTyped(job'[r], capacity, Now)
    BY <1>1 DEF TypesInv, JobTypes
  <2>2. (\A r \in Slots : JobTyped(job[r], capacity, Now))'
    BY <1>3, <2>1 DEF Now
  <2>3. \A q, r \in Slots : job'[q].op = "add" /\ job'[r].op = "add" => q = r
    BY <1>1 DEF TypesInv, JobTypes
  <2> QED BY <1>2, <2>2, <2>3 DEF JobTypes
<1>5. TypeOK'
  <2>1. (\A r \in Slots : job[r].op \in {"idle", "add", "remove", "confirm", "commit"})'
    BY <1>4 DEF JobTypes, JobTyped, AddTyped, RemoveTyped, ConfirmTyped, CommitTyped, Idle
  <2> QED BY <2>1, <1>3 DEF TypesInv, TypeOK
<1>6. TreeTypes' /\ Started'
  BY <1>3 DEF TypesInv, TreeTypes, Started
<1> QED BY <1>4, <1>5, <1>6 DEF TypesInv

(* _free_leaf: what is free is held by no member and named by no unfinished event. *)
LEMMA FreeLeafIs ==
    ASSUME TypesInv
    PROVE  /\ FreeLeaf \in Nat /\ FreeLeaf <= capacity
           /\ \A u \in Users : Active(u) => member[u].leaf # FreeLeaf
           /\ FreeLeaf < MaxLeaves => \A k \in Undone : events[k].leaf # FreeLeaf
           /\ FreeLeaf \in Leaves => leaf[FreeLeaf] \notin Users
<1> DEFINE taken == {member[u].leaf : u \in ActiveMembers} \union {events[k].leaf : k \in Undone}
           free == {i \in 0..(capacity - 1) : i \notin taken /\ leaf[i] \notin Users}
<1>1. capacity \in Nat
  BY TypeFacts
<1>2. FreeLeaf = IF free = {} THEN capacity ELSE Min(free)
  BY DEF FreeLeaf
<1>3. CASE free = {}
  <2>1. FreeLeaf = capacity
    BY <1>2, <1>3
  <2>2. \A u \in Users : Active(u) => member[u].leaf < capacity /\ member[u].leaf \in Nat
    BY TypeFacts
  <2>3. FreeLeaf < MaxLeaves => \A k \in Undone : events[k].leaf # FreeLeaf
    <3> SUFFICES ASSUME FreeLeaf < MaxLeaves, NEW k \in Undone PROVE events[k].leaf # FreeLeaf
      OBVIOUS
    <3>1. k \in DOMAIN events /\ events[k].leaf \in Nat
      BY TypeFacts DEF Undone
    <3>2. events[k].leaf = NoLeaf \/ events[k].leaf < capacity
      BY <3>1 DEF TypesInv, TreeTypes
    <3> QED BY <2>1, <3>1, <3>2, <1>1 DEF NoLeaf
  <2>4. FreeLeaf \in Leaves => leaf[FreeLeaf] \notin Users
    BY <1>1, <2>1 DEF TypesInv, TreeTypes
  <2> QED BY <1>1, <2>1, <2>2, <2>3, <2>4
<1>4. CASE free # {}
  <2>1. FreeLeaf = CHOOSE x \in free : \A y \in free : x <= y
    BY <1>2, <1>4 DEF Min
  <2>2. \E x \in free : \A y \in free : x <= y
    <3>1. free \subseteq Nat
      BY <1>1
    <3> HIDE DEF free
    <3> QED BY <1>4, <3>1, LeastNumber
  <2>3. FreeLeaf \in free
    <3> HIDE DEF free
    <3> QED BY <2>1, <2>2
  <2>4. FreeLeaf \in 0..(capacity - 1) /\ FreeLeaf \notin taken /\ leaf[FreeLeaf] \notin Users
    <3> HIDE DEF taken
    <3> QED BY <2>3
  <2> QED BY <1>1, <2>4 DEF ActiveMembers
<1> QED BY <1>3, <1>4

(* The nodes of a smaller tree are nodes of the largest one.                *)
LEMMA InnerNodes ==
    ASSUME NEW cap \in Nat, cap <= MaxLeaves, cap > 0
    PROVE  \A n \in Inner(cap) : n \in Nat /\ n < NodeCount(cap) /\ n \in Inner(MaxLeaves) /\ Ones[n] > 0
<1> SUFFICES ASSUME NEW n \in Inner(cap)
             PROVE  n \in Nat /\ n < NodeCount(cap) /\ n \in Inner(MaxLeaves) /\ Ones[n] > 0
  OBVIOUS
<1>1. MaxLeaves \in Nat
  BY GroupAssumption DEF Powers
<1>2. n \in 0..(2 * cap - 1 - 1) /\ Ones[n] > 0
  BY DEF Inner, NodeCount
<1>3. n \in Nat /\ n < 2 * cap - 1 /\ n \in 0..(2 * MaxLeaves - 1 - 1)
  BY <1>1, <1>2
<1> QED BY <1>2, <1>3 DEF Inner, NodeCount

(* create *)
LEMMA CreateTypes ==
    ASSUME TypesInv, NEW u \in Users, Create(u)
    PROVE  TypesInv'
<1>0. MaxLeaves \in Nat /\ MaxLeaves \in Powers
  BY TypeFacts
<1>1. PICK n \in 2..MaxLeaves : \E seat \in [0..(n - 1) -> Users] :
         /\ capacity' = CapacityFor(n)
         /\ member' = [v \in Users |->
              IF \E i \in DOMAIN seat : seat[i] = v
              THEN [status |-> "in", role |-> IF v = u THEN "owner" ELSE "member",
                    leaf |-> CHOOSE i \in DOMAIN seat : seat[i] = v]
              ELSE member[v]]
  BY DEF Create
<1>2. PICK seat \in [0..(n - 1) -> Users] :
         /\ capacity' = CapacityFor(n)
         /\ member' = [v \in Users |->
              IF \E i \in DOMAIN seat : seat[i] = v
              THEN [status |-> "in", role |-> IF v = u THEN "owner" ELSE "member",
                    leaf |-> CHOOSE i \in DOMAIN seat : seat[i] = v]
              ELSE member[v]]
  BY <1>1
<1>3. /\ capacity = 0 /\ events' = <<Event("create", u, NoLeaf)>>
      /\ UNCHANGED <<leaf, node, epoch, flag, secret, orphaned, job>>
  BY DEF Create, treeVars
<1>4. n \in Nat /\ n >= 2 /\ n <= MaxLeaves
  BY <1>0
<1> DEFINE c == capacity'
<1>5. c \in Powers /\ c \in Nat /\ n <= c /\ c <= MaxLeaves
  <2>1. c = CapacityFor(n)
    BY <1>2
  <2>2. c \in Powers /\ n <= c /\ c <= MaxLeaves
    BY <1>0, <1>4, <2>1, CapacityForIs
  <2> HIDE DEF c
  <2> QED BY <2>2, PowerTwice
<1> HIDE DEF c
<1>6. /\ \A v \in Users : ~Active(v) /\ member[v] \in
            [status : {"never", "in", "left"}, role : {"owner", "member"}, leaf : Leaves \union {NoLeaf}]
      /\ \A s \in Slots : job[s] = Idle
      /\ epoch = 0 /\ secret = {}
  BY <1>3 DEF TypesInv, TypeOK, Started
<1>7. ASSUME NEW v \in Users
      PROVE  /\ member'[v] \in [status : {"never", "in", "left"}, role : {"owner", "member"},
                                leaf : Leaves \union {NoLeaf}]
             /\ member'[v].status = "in" => member'[v].leaf < c
  <2>1. CASE \E i \in DOMAIN seat : seat[i] = v
    <3> DEFINE l == CHOOSE i \in DOMAIN seat : seat[i] = v
    <3>1. l \in 0..(n - 1)
      BY <2>1
    <3>2. member'[v] = [status |-> "in", role |-> IF v = u THEN "owner" ELSE "member", leaf |-> l]
      BY <1>2, <2>1
    <3> HIDE DEF l
    <3>3. l \in Leaves /\ l < c
      BY <3>1, <1>0, <1>4, <1>5 DEF Leaves
    <3> QED BY <3>2, <3>3
  <2>2. CASE ~ \E i \in DOMAIN seat : seat[i] = v
    <3>1. member'[v] = member[v]
      BY <1>2, <2>2
    <3> QED BY <3>1, <1>6 DEF Active
  <2> QED BY <2>1, <2>2
<1>8. member' \in [Users -> [status : {"never", "in", "left"}, role : {"owner", "member"},
                             leaf : Leaves \union {NoLeaf}]]
  <2>1. member' = [v \in Users |-> member'[v]]
    BY <1>2
  <2> QED BY <2>1, <1>7
<1>9. events' \in Seq(EventRecords) /\ DOMAIN events' = {1}
      /\ events'[1].action = "create" /\ events'[1].leaf = NoLeaf /\ Len(events') = 1
  <2>1. Event("create", u, NoLeaf) \in EventRecords
    BY DEF Event, EventRecords, Actions
  <2>2. Event("create", u, NoLeaf).action = "create" /\ Event("create", u, NoLeaf).leaf = NoLeaf
    BY DEF Event
  <2> HIDE DEF EventRecords
  <2> QED BY <1>3, <2>1, <2>2
<1>10. TypeOK'
  <2>1. c \in 0..MaxLeaves
    BY <1>0, <1>5
  <2>2. /\ leaf \in [Leaves -> Users \union {Nobody, Absent}]
        /\ node \in [Inner(MaxLeaves) -> [epoch : 0..MaxEpoch, by : Users \union {Nobody},
                                          holders : SUBSET Users]]
        /\ epoch \in 0..MaxEpoch /\ flag \in BOOLEAN /\ secret \subseteq Users /\ orphaned \subseteq Users
        /\ \A s \in Slots : job[s].op \in {"idle", "add", "remove", "confirm", "commit"}
    BY DEF TypesInv, TypeOK
  <2> QED BY <2>1, <2>2, <1>3, <1>7, <1>8, <1>9 DEF TypeOK, EventRecords, c
<1>11. TreeTypes'
  <2>1. c # 1
    BY <1>4, <1>5
  <2>2. \A i \in Leaves : leaf[i] \notin Users
    <3> SUFFICES ASSUME NEW i \in Leaves, leaf[i] \in Users PROVE FALSE
      OBVIOUS
    <3>1. i < 0 /\ i \in 0..(MaxLeaves - 1)
      BY <1>3 DEF TypesInv, TreeTypes, Leaves
    <3> QED BY <3>1, <1>0
  <2>3. \A m \in DOMAIN node : node[m] = NoKey
    <3> SUFFICES ASSUME NEW m \in DOMAIN node, node[m] # NoKey PROVE FALSE
      OBVIOUS
    <3>1. m < NodeCount(0) /\ m \in Inner(MaxLeaves)
      BY <1>3, TypeFacts DEF TypesInv, TreeTypes
    <3> QED BY <3>1, <1>0 DEF NodeCount, Inner, Powers
  <2> QED BY <1>3, <1>5, <1>9, <2>1, <2>2, <2>3 DEF TreeTypes, c
<1>12. JobTypes'
  <2>1. \A s \in Slots : job'[s] = Idle
    BY <1>3, <1>6
  <2> QED BY <2>1, <1>3 DEF JobTypes, JobTyped, TypesInv, Idle
<1>13. Started'
  BY <1>4, <1>5 DEF Started, c
<1> QED BY <1>10, <1>11, <1>12, <1>13 DEF TypesInv

(* anchor_membership *)
LEMMA AnchorTypes ==
    ASSUME TypesInv, NEW k \in DOMAIN events, AnchorMembership(k)
    PROVE  TypesInv'
<1>1. PICK c \in {"submitted", "failed"} : events' = [events EXCEPT ![k].chain = c]
  BY DEF AnchorMembership
<1>2. UNCHANGED <<member, capacity, leaf, node, epoch, flag, secret, orphaned, job>>
  BY DEF AnchorMembership, treeVars
<1>3. events \in Seq(EventRecords)
  BY TypeFacts
<1>4. events[k] \in EventRecords
  BY TypeFacts
<1>5. [events[k] EXCEPT !.chain = c] \in EventRecords
  BY <1>4 DEF EventRecords
<1>6. events' \in Seq(EventRecords) /\ Len(events') = Len(events) /\ DOMAIN events' = DOMAIN events
  <2> HIDE DEF EventRecords
  <2> QED BY <1>1, <1>3, <1>5
<1>7. \A m \in DOMAIN events : /\ events'[m].action = events[m].action
                               /\ events'[m].leaf = events[m].leaf
  <2> SUFFICES ASSUME NEW m \in DOMAIN events
               PROVE  events'[m].action = events[m].action /\ events'[m].leaf = events[m].leaf
    OBVIOUS
  <2>1. events[m] \in EventRecords
    BY TypeFacts
  <2>2. events'[m] = IF m = k THEN [events[k] EXCEPT !.chain = c] ELSE events[m]
    BY <1>1, <1>3
  <2> QED BY <2>1, <2>2 DEF EventRecords
<1>8. TypeOK'
  BY <1>2, <1>6 DEF TypesInv, TypeOK, EventRecords
<1>9. TreeTypes'
  BY <1>2, <1>6, <1>7 DEF TypesInv, TreeTypes
<1>10. JobTypes'
  BY <1>2, <1>6 DEF TypesInv, JobTypes, Now
<1>11. Started'
  <2>1. capacity # 0
    BY DEF TypesInv, Started
  <2> QED BY <1>2, <2>1 DEF Started
<1> QED BY <1>8, <1>9, <1>10, <1>11 DEF TypesInv

(* add_members, the reads *)
LEMMA AddReadTypes ==
    ASSUME OneAddAtATime, TypesInv, NEW s \in Slots, NEW u \in Users, NEW v \in Users, AddRead(s, u, v)
    PROVE  TypesInv'
<1> DEFINE cap == IF FreeLeaf < capacity THEN 0 ELSE CapacityFor(FreeLeaf + 1)
           j == [op |-> "add", seen |-> Now, subject |-> v, leaf |-> FreeLeaf,
                 capacity |-> cap, insert |-> member[v].status = "never"]
<1>1. /\ Read(s, j) /\ UNCHANGED <<member, capacity, events, treeVars>>
      /\ \A r \in Slots : job[r].op # "add"
      /\ FreeLeaf < MaxLeaves /\ Active(u)
  BY DEF AddRead
<1>2. capacity # 0
  BY <1>1 DEF TypesInv, Started
<1>3. FreeLeaf \in Nat /\ FreeLeaf <= capacity /\ capacity \in Nat /\ MaxLeaves \in Nat /\ MaxLeaves \in Powers
  BY FreeLeafIs, TypeFacts
<1>4. FreeLeaf \in Leaves
  BY <1>1, <1>3 DEF Leaves
<1>5. \/ cap = 0 /\ FreeLeaf < capacity
      \/ /\ cap \in Powers /\ FreeLeaf < cap
         /\ capacity <= cap /\ cap <= MaxLeaves
  <2>1. CASE FreeLeaf < capacity
    BY <2>1
  <2>2. CASE ~(FreeLeaf < capacity)
    <3>1. cap = CapacityFor(FreeLeaf + 1) /\ FreeLeaf = capacity
      BY <2>2, <1>3
    <3>2. FreeLeaf + 1 \in Nat /\ FreeLeaf + 1 > 0 /\ FreeLeaf + 1 <= MaxLeaves
      BY <1>1, <1>3
    <3>3. cap \in Powers /\ FreeLeaf + 1 <= cap /\ cap <= MaxLeaves
      BY <3>1, <3>2, <1>3, CapacityForIs
    <3>4. cap \in Nat
      BY <3>3, PowerTwice
    <3> HIDE DEF cap
    <3> QED BY <3>1, <3>3, <3>4, <1>3
  <2> QED BY <2>1, <2>2
<1>6. Now \in Nat
  BY TypeFacts
<1> HIDE DEF cap
<1>7. AddTyped(j, capacity)
  BY <1>4, <1>5 DEF AddTyped
<1>8. JobTyped(j, capacity, Now)
  BY <1>6, <1>7 DEF JobTyped
<1> HIDE DEF j
<1> QED BY <1>1, <1>2, <1>8, ReadTypes

(* remove_member, the reads *)
LEMMA RemoveReadTypes ==
    ASSUME TypesInv, NEW s \in Slots, NEW u \in Users, NEW v \in Users, RemoveRead(s, u, v)
    PROVE  TypesInv'
<1> DEFINE rest == ActiveMembers \ {v}
           j(heir) == [op |-> "remove", seen |-> Now, subject |-> v, leaf |-> member[v].leaf, heir |-> heir,
                       action |-> IF u = v THEN "leave" ELSE "remove"]
<1>1. PICK heir \in IF member[v].role = "owner" /\ rest # {} THEN rest ELSE {Nobody} : Read(s, j(heir))
  BY DEF RemoveRead
<1>2. UNCHANGED <<member, capacity, events, treeVars>> /\ Active(v)
  BY DEF RemoveRead
<1>3. capacity # 0
  BY <1>2 DEF TypesInv, Started
<1>4. member[v].leaf \in Leaves /\ member[v].leaf < capacity /\ Now \in Nat
  BY <1>2, TypeFacts
<1>5. RemoveTyped(j(heir), capacity)
  BY <1>4 DEF RemoveTyped
<1>6. JobTyped(j(heir), capacity, Now) /\ j(heir).op # "add"
  BY <1>4, <1>5 DEF JobTyped
<1> HIDE DEF j
<1> QED BY <1>1, <1>2, <1>3, <1>6, ReadTypes

(* What a confirmation writes are leaves of the tree.                       *)
LEMMA LeafWritesTyped ==
    ASSUME TypesInv, NEW k \in DOMAIN events, NEW w \in LeafWrites(k)
    PROVE  \A i \in DOMAIN w : i \in Leaves /\ i < capacity /\ w[i] \in Users \union {Nobody}
<1>1. ASSUME NEW u \in Users, Active(u)
      PROVE  member[u].leaf \in Leaves /\ member[u].leaf < capacity
  BY <1>1, TypeFacts
<1>2. events[k].action # "create" => events[k].leaf < capacity
  BY DEF TypesInv, TreeTypes
<1>3. events[k].action # "create" => events[k].leaf \in Leaves
  <2>1. events[k].leaf \in Nat /\ capacity \in Nat /\ capacity <= MaxLeaves /\ MaxLeaves \in Nat
    BY TypeFacts
  <2> QED BY <2>1, <1>2 DEF Leaves
<1>4. CASE events[k].action = "create"
  <2> DEFINE taken == {member[u].leaf : u \in ActiveMembers}
  <2>1. w \in [taken -> ActiveMembers]
    BY <1>4 DEF LeafWrites
  <2>2. \A i \in taken : i \in Leaves /\ i < capacity
    BY <1>1 DEF ActiveMembers
  <2>3. ActiveMembers \subseteq Users
    BY DEF ActiveMembers
  <2> HIDE DEF taken
  <2> QED BY <2>1, <2>2, <2>3
<1>5. CASE events[k].action = "add"
  <2>1. w \in (IF Active(events[k].subject) /\ member[events[k].subject].leaf = events[k].leaf
               THEN {[i \in {events[k].leaf} |-> events[k].subject]} ELSE {<<>>})
    BY <1>5 DEF LeafWrites
  <2>2. events[k].subject \in Users
    BY TypeFacts
  <2>3. CASE w = <<>>
    BY <2>3
  <2>4. CASE w = [i \in {events[k].leaf} |-> events[k].subject]
    BY <2>2, <2>4, <1>2, <1>3, <1>5
  <2> QED BY <2>1, <2>3, <2>4
<1>6. CASE events[k].action \notin {"create", "add"}
  <2>1. w \in {[i \in {events[k].leaf} |-> Nobody]}
    BY <1>6 DEF LeafWrites
  <2> QED BY <2>1, <1>2, <1>3, <1>6
<1> QED BY <1>4, <1>5, <1>6

(* confirm_membership, the reads *)
LEMMA ConfirmReadTypes ==
    ASSUME TypesInv, NEW s \in Slots, NEW k \in DOMAIN events, ConfirmRead(s, k)
    PROVE  TypesInv'
<1> DEFINE j(w) == [op |-> "confirm", seen |-> Now, event |-> k, leaves |-> w, flag |-> flag,
                    inserts |-> {i \in DOMAIN w : leaf[i] = Absent}]
<1>1. PICK w \in LeafWrites(k) : Read(s, j(w))
  BY DEF ConfirmRead
<1>2. UNCHANGED <<member, capacity, events, treeVars>>
  BY DEF ConfirmRead
<1>3. capacity # 0
  BY DEF TypesInv, Started
<1>4. Now \in Nat /\ k \in Nat /\ 1 <= k /\ k <= Now
  BY TypeFacts
<1>5. \A i \in DOMAIN w : i \in Leaves /\ i < capacity /\ w[i] \in Users \union {Nobody}
  BY LeafWritesTyped
<1>6. ConfirmTyped(j(w), capacity)
  BY <1>4, <1>5 DEF ConfirmTyped
<1>7. JobTyped(j(w), capacity, Now) /\ j(w).op # "add"
  BY <1>4, <1>6 DEF JobTyped
<1> HIDE DEF j
<1> QED BY <1>1, <1>2, <1>3, <1>7, ReadTypes

(* A node with a leaf below it, other than the leaf, is an inner node.      *)
LEMMA PathInner ==
    ASSUME NEW i \in Nat, NEW cap \in Nat, cap > 0
    PROVE  DirectPath(LeafNode(i), cap) \subseteq Inner(cap)
<1> SUFFICES ASSUME NEW n \in DirectPath(LeafNode(i), cap) PROVE n \in Inner(cap)
  OBVIOUS
<1>1. n \in 0 .. (2 * cap - 1 - 1) /\ n # 2 * i /\ 2 * i \in Subtree(n)
  BY DEF DirectPath, LeafNode, NodeCount
<1>2. n \in Nat /\ Ones[n] \in Nat
  BY <1>1, OnesBound
<1>3. Ones[n] # 0
  BY <1>1, <1>2 DEF Subtree
<1> QED BY <1>1, <1>2, <1>3 DEF Inner, NodeCount

(* Everything is below the root.                                            *)
LEMMA RootIs ==
    ASSUME NEW cap \in Powers, cap # 1
    PROVE  /\ Root(cap) \in Inner(cap)
           /\ Subtree(Root(cap)) = 0 .. (2 * cap - 2)
           /\ SubtreeLeaves(Root(cap)) = 0 .. (cap - 1)
           /\ \A i \in 0 .. (cap - 1) : Root(cap) \in DirectPath(LeafNode(i), cap)
<1>1. cap \in Nat /\ cap > 1 /\ Ones[cap - 1] = cap - 1
  BY PowerTwice
<1>2. Root(cap) = cap - 1 /\ cap - 1 \in Nat
  BY <1>1 DEF Root
<1>3. Root(cap) \in Inner(cap)
  BY <1>1, <1>2 DEF Inner, NodeCount
<1>4. Subtree(Root(cap)) = 0 .. (2 * cap - 2)
  BY <1>1, <1>2 DEF Subtree
<1>5. SubtreeLeaves(Root(cap)) = 0 .. (cap - 1)
  BY <1>1, <1>2 DEF SubtreeLeaves
<1>6. (cap - 1) % 2 = 1
  BY <1>1, <1>2, Children
<1>7. ASSUME NEW i \in 0 .. (cap - 1) PROVE Root(cap) \in DirectPath(LeafNode(i), cap)
  <2>1. i \in Nat /\ 2 * i \in 0 .. (2 * cap - 2) /\ 2 * i # cap - 1
    BY <1>1, <1>6
  <2>2. cap - 1 \in 0 .. (NodeCount(cap) - 1)
    BY <1>1 DEF NodeCount
  <2> QED BY <2>1, <2>2, <1>2, <1>4 DEF DirectPath, LeafNode
<1> QED BY <1>3, <1>4, <1>5, <1>7

(* The plan of a commit: what a member's own tree has it make.              *)
Occupied(cap, filled) == {i \in 0..(cap - 1) : LeafNode(i) \in filled}
Candidates(cap, changed, full) ==
    IF cap = 1 THEN {}
    ELSE IF full THEN Inner(cap)
    ELSE UNION {DirectPath(LeafNode(i), cap) : i \in changed}

PlanShape(plan, cap, filled, candidates) ==
    /\ plan.path \union plan.blanks = candidates /\ plan.path \intersect plan.blanks = {}
    /\ candidates \subseteq Inner(cap)
    /\ \A n : n \in plan.path <=> n \in candidates /\ \E i \in SubtreeLeaves(n) : i \in Occupied(cap, filled)
    /\ \A n \in plan.path : \A t : t \in plan.targets[n] <=>
         \/ t \in Resolution(Left(n), filled \union plan.path)
         \/ t \in Resolution(Right(n), filled \union plan.path)

(* A plan has the shape that treekem.js gives it.                           *)
LEMMA PlanIs ==
    ASSUME NEW cap \in Powers, cap # 1, NEW filled, NEW changed \in SUBSET Nat, NEW full \in BOOLEAN
    PROVE  PlanShape(PlanCommit(cap, filled, changed, full), cap, filled, Candidates(cap, changed, full))
<1> DEFINE plan == PlanCommit(cap, filled, changed, full)
           candidates == Candidates(cap, changed, full)
           fresh == {n \in candidates : SubtreeLeaves(n) \intersect Occupied(cap, filled) # {}}
           targets == [n \in fresh |-> Resolution(Left(n), filled \union fresh)
                                         \union Resolution(Right(n), filled \union fresh)]
<1>1. plan = [path |-> fresh, blanks |-> candidates \ fresh, targets |-> targets]
  BY DEF PlanCommit, Occupied, Candidates
<1>2. cap \in Nat /\ cap > 0
  BY PowerTwice
<1>3. candidates \subseteq Inner(cap)
  <2>1. CASE full
    BY <2>1, <1>2 DEF Candidates
  <2>2. CASE ~full
    <3> SUFFICES ASSUME NEW i \in changed, NEW n \in DirectPath(LeafNode(i), cap) PROVE n \in Inner(cap)
      BY <2>2, <1>2 DEF Candidates
    <3>1. i \in Nat
      BY <1>2
    <3> QED BY <3>1, <1>2, PathInner
  <2> QED BY <2>1, <2>2
<1> HIDE DEF plan, candidates
<1>4. fresh \subseteq candidates
  OBVIOUS
<1>5. \A n \in fresh : targets[n] = Resolution(Left(n), filled \union fresh)
                                      \union Resolution(Right(n), filled \union fresh)
  OBVIOUS
<1> HIDE DEF targets
<1>6. plan.path = fresh /\ plan.blanks = candidates \ fresh /\ plan.targets = targets
  BY <1>1
<1> HIDE DEF fresh
<1>7. /\ plan.path \union plan.blanks = candidates
      /\ \A n : n \in plan.path <=> n \in fresh
      /\ plan.path \intersect plan.blanks = {}
  BY <1>4, <1>6
<1>8. \A n \in plan.path : \A t : t \in plan.targets[n] <=>
                     \/ t \in Resolution(Left(n), filled \union plan.path)
                     \/ t \in Resolution(Right(n), filled \union plan.path)
  <2>1. plan.path = fresh /\ plan.targets = targets
    BY <1>6
  <2> QED BY <1>5, <2>1
<1> QED BY <1>3, <1>7, <1>8 DEF plan, candidates, fresh, PlanShape

(* What tree_commit plans: of the requested changes, or of the member's own leaf. *)
Full == \E k \in Requested : events[k].action = "create"
Changed(u) == IF Requested = {} THEN {member[u].leaf} ELSE {events[k].leaf : k \in Requested} \ {NoLeaf}
TreePlan(u) == PlanCommit(capacity, NonBlank, Changed(u), Full)
(* The plan of a member is about leaves of the tree, and not about nothing. *)
LEMMA PlanTyped ==
    ASSUME TypesInv, NEW u \in Users, Active(u)
    PROVE  /\ capacity \in Powers /\ capacity # 1
           /\ Changed(u) \subseteq 0 .. (capacity - 1) /\ Full \in BOOLEAN
           /\ Full \/ Changed(u) # {}
<1>1. capacity # 0
  BY DEF TypesInv, Started
<1>2. capacity \in Powers /\ capacity # 1 /\ capacity \in Nat /\ capacity <= MaxLeaves /\ MaxLeaves \in Nat
  BY <1>1, TypeFacts DEF TypesInv, TreeTypes
<1>3. member[u].leaf \in Nat /\ member[u].leaf < capacity
  BY TypeFacts
<1>4. \A k \in Requested : /\ events[k].leaf \in Nat
                           /\ IF events[k].action = "create" THEN events[k].leaf = NoLeaf
                              ELSE events[k].leaf < capacity
  BY TypeFacts DEF Requested, TypesInv, TreeTypes
<1>5. Changed(u) \subseteq 0 .. (capacity - 1)
  <2>1. CASE Requested = {}
    BY <2>1, <1>2, <1>3 DEF Changed
  <2>2. CASE Requested # {}
    BY <2>2, <1>2, <1>4 DEF Changed
  <2> QED BY <2>1, <2>2
<1>6. Full \/ Changed(u) # {}
  <2>1. CASE Requested = {}
    BY <2>1 DEF Changed
  <2>2. CASE Requested # {}
    <3>1. PICK k \in Requested : TRUE
      BY <2>2
    <3>2. CASE events[k].action = "create"
      BY <3>2 DEF Full
    <3>3. CASE events[k].action # "create"
      <4>1. events[k].leaf # NoLeaf
        BY <3>3, <1>2, <1>4 DEF NoLeaf
      <4> QED BY <4>1, <2>2 DEF Changed
    <3> QED BY <3>2, <3>3
  <2> QED BY <2>1, <2>2
<1> QED BY <1>2, <1>5, <1>6 DEF Full

(* So a member's plan has that shape.                                       *)
LEMMA PlanShaped ==
    ASSUME TypesInv, NEW u \in Users, Active(u)
    PROVE  PlanShape(TreePlan(u), capacity, NonBlank, Candidates(capacity, Changed(u), Full))
<1>1. /\ capacity \in Powers /\ capacity # 1
      /\ Changed(u) \in SUBSET (0 .. (capacity - 1)) /\ Full \in BOOLEAN
  BY PlanTyped
<1>2. PICK full \in BOOLEAN : full = Full
  BY <1>1, Zenon
<1>3. TreePlan(u) = PlanCommit(capacity, NonBlank, Changed(u), full)
  BY <1>2 DEF TreePlan
<1>4. Candidates(capacity, Changed(u), Full) = Candidates(capacity, Changed(u), full)
  BY <1>2
<1>5. Changed(u) \in SUBSET Nat
  <2>1. capacity \in Nat
    BY <1>1, PowerTwice
  <2> QED BY <1>1, <2>1
<1> QED BY <1>1, <1>3, <1>4, <1>5, PlanIs

(* The plan always has the root, since some leaf is taken.                  *)
LEMMA PlanHasRoot ==
    ASSUME TypesInv, NEW u \in Users, Active(u), \E l \in Leaves : leaf[l] \in Users
    PROVE  Root(capacity) \in TreePlan(u).path
<1> DEFINE candidates == Candidates(capacity, Changed(u), Full)
<1>1. /\ capacity \in Powers /\ capacity # 1
      /\ Changed(u) \in SUBSET (0 .. (capacity - 1)) /\ Full \in BOOLEAN
      /\ Full \/ Changed(u) # {}
  BY PlanTyped
<1>2. PlanShape(TreePlan(u), capacity, NonBlank, candidates)
  BY PlanShaped
<1>3. Root(capacity) \in candidates
  <2>1. CASE Full
    BY <2>1, <1>1, RootIs DEF Candidates
  <2>2. CASE ~Full
    <3>1. PICK i \in Changed(u) : TRUE
      BY <1>1, <2>2
    <3>2. Root(capacity) \in DirectPath(LeafNode(i), capacity)
      BY <1>1, RootIs
    <3> QED BY <2>2, <3>2, <1>1 DEF Candidates
  <2> QED BY <2>1, <2>2
<1>4. PICK l \in Leaves : leaf[l] \in Users
  OBVIOUS
<1>5. l < capacity /\ l \in Nat /\ capacity \in Nat
  BY <1>1, <1>4, TypeFacts, PowerTwice DEF TypesInv, TreeTypes, Leaves
<1>6. l \in 0 .. (capacity - 1)
  BY <1>5
<1>7. LeafNode(l) \in NonBlank
  BY <1>4 DEF NonBlank
<1>8. l \in SubtreeLeaves(Root(capacity)) /\ l \in Occupied(capacity, NonBlank)
  BY <1>6, <1>7, <1>1, RootIs DEF Occupied
<1> QED BY <1>2, <1>3, <1>8 DEF PlanShape

(* tree_commit, the reads *)
LEMMA CommitReadIs ==
    ASSUME NEW s \in Slots, NEW u \in Users, CommitRead(s, u)
    PROVE  /\ Read(s, [op |-> "commit", seen |-> Now, by |-> u, epoch |-> epoch + 1, flag |-> flag,
                       events |-> Requested, held |-> HoldersAfter(TreePlan(u)),
                       blanks |-> TreePlan(u).blanks, root |-> Root(capacity)])
           /\ UNCHANGED <<member, capacity, events, treeVars>>
           /\ epoch < MaxEpoch /\ Active(u) /\ \E l \in Leaves : leaf[l] \in Users
           /\ job[s] = Idle
BY DEF CommitRead, TreePlan, Full, Changed

(* What a commit remembers of its plan is of the tree as it is.             *)
LEMMA CommitReadTypes ==
    ASSUME TypesInv, NEW s \in Slots, NEW u \in Users, CommitRead(s, u)
    PROVE  TypesInv'
<1> DEFINE plan == TreePlan(u)
           held == HoldersAfter(plan)
           j == [op |-> "commit", seen |-> Now, by |-> u, epoch |-> epoch + 1, flag |-> flag,
                 events |-> Requested, held |-> held, blanks |-> plan.blanks, root |-> Root(capacity)]
<1>1. /\ Read(s, j) /\ UNCHANGED <<member, capacity, events, treeVars>>
      /\ epoch < MaxEpoch /\ Active(u) /\ \E l \in Leaves : leaf[l] \in Users
  BY CommitReadIs
<1>2. /\ capacity \in Powers /\ capacity # 1
      /\ Changed(u) \in SUBSET (0 .. (capacity - 1)) /\ Full \in BOOLEAN
      /\ Full \/ Changed(u) # {}
  BY <1>1, PlanTyped
<1> DEFINE candidates == Candidates(capacity, Changed(u), Full)
<1>3. PlanShape(plan, capacity, NonBlank, candidates)
  BY <1>1, PlanShaped
<1>4. capacity \in Nat /\ capacity > 0 /\ capacity <= MaxLeaves /\ Now \in Nat /\ epoch \in Nat /\ MaxEpoch \in Nat
  BY <1>2, TypeFacts, PowerTwice, GroupAssumption
<1>5. \A n \in Inner(capacity) : n \in Inner(MaxLeaves) /\ n < NodeCount(capacity)
  BY <1>4, InnerNodes
<1>6. DOMAIN held = plan.path /\ \A n \in plan.path : held[n] \subseteq Users
  BY DEF HoldersAfter
<1>7. Root(capacity) \in plan.path
  BY <1>1, PlanHasRoot
<1> HIDE DEF held, candidates
<1>8. /\ \A k \in Requested : k \in Nat /\ 1 <= k /\ k <= Now
      /\ epoch + 1 \in 1 .. MaxEpoch
  BY <1>1, <1>4, TypeFacts DEF Requested
<1>9. plan.blanks \subseteq Inner(MaxLeaves)
      /\ \A n \in DOMAIN held : n \in Inner(MaxLeaves) /\ n < NodeCount(capacity)
  BY <1>3, <1>5, <1>6 DEF PlanShape
<1> HIDE DEF plan
<1>10. CommitTyped(j, capacity)
  BY <1>6, <1>7, <1>8, <1>9 DEF CommitTyped
<1>11. JobTyped(j, capacity, Now) /\ j.op # "add"
  BY <1>4, <1>10 DEF JobTyped
<1> HIDE DEF j
<1> QED BY <1>1, <1>2, <1>4, <1>11, ReadTypes

(* A transaction that ends leaves the others as they are.                   *)
LEMMA DoneIs ==
    ASSUME JobTypes, NEW s \in Slots, Done(s)
    PROVE  /\ DOMAIN job' = Slots
           /\ \A r \in Slots : job'[r] = IF r = s THEN Idle ELSE job[r]
BY DEF JobTypes, Done

(* The end of a transaction leaves the others typed, in a tree that may have grown. *)
LEMMA EndTypes ==
    ASSUME TypesInv, NEW s \in Slots, Done(s), job[s].op # "idle",
           NEW cap2 \in Nat, cap2 = capacity', capacity <= cap2,
           NEW now2 \in Nat, now2 = Now', Now <= now2,
           cap2 = capacity \/ job[s].op = "add"
    PROVE  JobTypes' /\ Started' /\ \A r \in Slots : job'[r].op \in {"idle", "add", "remove", "confirm", "commit"}
<1>1. /\ DOMAIN job' = Slots
      /\ \A r \in Slots : job'[r] = IF r = s THEN Idle ELSE job[r]
  BY DoneIs DEF TypesInv
<1>2. capacity \in Nat /\ Now \in Nat
  BY TypeFacts
<1>3. ASSUME NEW r \in Slots PROVE JobTyped(job'[r], cap2, now2)
  <2>1. CASE r = s
    BY <2>1, <1>1 DEF JobTyped
  <2>2. CASE r # s
    <3>1. JobTyped(job[r], capacity, Now) /\ job'[r] = job[r]
      BY <2>2, <1>1 DEF TypesInv, JobTypes
    <3>2. cap2 = capacity \/ job[r].op # "add"
      BY <2>2 DEF TypesInv, JobTypes
    <3> QED BY <3>1, <3>2, <1>2, JobStaysTyped
  <2> QED BY <2>1, <2>2
<1>4. \A q, r \in Slots : job'[q].op = "add" /\ job'[r].op = "add" => q = r
  BY <1>1 DEF TypesInv, JobTypes, Idle
<1>5. (\A r \in Slots : JobTyped(job[r], capacity, Now))'
  BY <1>3
<1>6. JobTypes'
  BY <1>1, <1>4, <1>5 DEF JobTypes
<1>7. capacity # 0
  BY DEF TypesInv, Started, Idle
<1>8. Started'
  BY <1>2, <1>7 DEF Started
<1>9. \A r \in Slots : job'[r].op \in {"idle", "add", "remove", "confirm", "commit"}
  BY <1>1 DEF TypesInv, TypeOK, Idle
<1> QED BY <1>6, <1>8, <1>9

(* An event is added at the end.                                            *)
LEMMA AppendIs ==
    ASSUME TypesInv, NEW action \in Actions \ {"create"}, NEW subject \in Users, NEW i \in Leaves,
           events' = Append(events, Event(action, subject, i))
    PROVE  /\ events' \in Seq(EventRecords) /\ Now' = Now + 1 /\ DOMAIN events' = DOMAIN events \union {Now + 1}
           /\ Now + 1 \notin DOMAIN events
           /\ \A k \in DOMAIN events : events'[k] = events[k]
           /\ events'[Now + 1] = Event(action, subject, i)
<1> DEFINE e == Event(action, subject, i)
<1>1. e \in EventRecords
  BY DEF Event, EventRecords
<1>2. events \in Seq(EventRecords) /\ Now \in Nat /\ DOMAIN events = 1 .. Now
  BY TypeFacts
<1> HIDE DEF e, EventRecords
<1>3. events' = Append(events, e)
  BY DEF e
<1>4. /\ events' \in Seq(EventRecords) /\ Len(events') = Len(events) + 1
      /\ \A k \in 1 .. Len(events) : events'[k] = events[k]
      /\ events'[Len(events) + 1] = e
  BY <1>1, <1>2, <1>3
<1>5. Now' = Now + 1 /\ DOMAIN events' = 1 .. (Now + 1)
  BY <1>4, <1>2 DEF Now
<1>6. DOMAIN events' = DOMAIN events \union {Now + 1} /\ Now + 1 \notin DOMAIN events
  BY <1>5, <1>2
<1> QED BY <1>4, <1>5, <1>6, <1>2 DEF Now, e

(* add_members, the commit *)
LEMMA AddWriteTypes ==
    ASSUME TypesInv, NEW s \in Slots, AddWrite(s)
    PROVE  TypesInv'
<1> DEFINE j == job[s]
           v == j.subject
<1>1. /\ j.op = "add" /\ Done(s) /\ UNCHANGED <<leaf, node, epoch, flag, secret, orphaned>>
      /\ \/ UNCHANGED <<member, capacity, events>>
         \/ /\ member' = [member EXCEPT ![v] = [status |-> "in", role |-> "member", leaf |-> j.leaf]]
            /\ capacity' = IF j.capacity = 0 THEN capacity ELSE j.capacity
            /\ events' = Append(events, Event("add", v, j.leaf))
  BY DEF AddWrite, treeVars
<1>2. AddTyped(j, capacity)
  BY <1>1, JobKinds DEF TypesInv
<1>3. capacity \in Nat /\ Now \in Nat /\ MaxLeaves \in Nat
  BY TypeFacts
<1>4. CASE UNCHANGED <<member, capacity, events>>
  <2>1. JobTypes' /\ Started' /\ \A r \in Slots : job'[r].op \in {"idle", "add", "remove", "confirm", "commit"}
    <3>1. Now' = Now
      BY <1>4 DEF Now
    <3> QED BY <3>1, <1>1, <1>3, <1>4, EndTypes
  <2>2. TypeOK' /\ TreeTypes'
    BY <2>1, <1>1, <1>4 DEF TypesInv, TypeOK, TreeTypes
  <2> QED BY <2>1, <2>2 DEF TypesInv
<1>5. CASE /\ member' = [member EXCEPT ![v] = [status |-> "in", role |-> "member", leaf |-> j.leaf]]
           /\ capacity' = IF j.capacity = 0 THEN capacity ELSE j.capacity
           /\ events' = Append(events, Event("add", v, j.leaf))
  <2> DEFINE c == capacity'
  <2>1. v \in Users /\ j.leaf \in Leaves /\ j.leaf \in Nat
    BY <1>2, <1>3 DEF AddTyped, Leaves
  <2>2. c \in Nat /\ capacity <= c /\ j.leaf < c /\ c <= MaxLeaves /\ c \in Powers \union {0} /\ c # 1
    <3>1. capacity <= MaxLeaves /\ capacity \in Powers \union {0} /\ capacity # 1 /\ capacity # 0
      BY <1>1, TypeFacts DEF TypesInv, TreeTypes, Started, Idle
    <3>2. CASE j.capacity = 0
      BY <3>1, <3>2, <1>2, <1>3, <1>5 DEF AddTyped, Powers
    <3>3. CASE j.capacity # 0
      <4>1. c = j.capacity /\ c \in Powers /\ j.leaf < c /\ capacity <= c /\ c <= MaxLeaves
        BY <3>3, <1>2, <1>5 DEF AddTyped
      <4>2. c \in Nat
        BY <4>1, PowerTwice
      <4> HIDE DEF c, j
      <4> QED BY <4>1, <4>2, <3>1, <1>3
    <3> QED BY <3>2, <3>3
  <2> HIDE DEF c
  <2>3. /\ events' \in Seq(EventRecords) /\ Now' = Now + 1 /\ DOMAIN events' = DOMAIN events \union {Now + 1}
        /\ \A k \in DOMAIN events : events'[k] = events[k]
        /\ events'[Now + 1] = Event("add", v, j.leaf)
    BY <1>5, <2>1, AppendIs DEF Actions
  <2>4. JobTypes' /\ Started' /\ \A r \in Slots : job'[r].op \in {"idle", "add", "remove", "confirm", "commit"}
    <3>1. Now + 1 \in Nat /\ Now <= Now + 1
      BY <1>3
    <3> QED BY <3>1, <1>1, <2>2, <2>3, EndTypes DEF c
  <2>5. member \in [Users -> [status : {"never", "in", "left"}, role : {"owner", "member"},
                              leaf : Leaves \union {NoLeaf}]]
    BY DEF TypesInv, TypeOK
  <2>6. member' \in [Users -> [status : {"never", "in", "left"}, role : {"owner", "member"},
                              leaf : Leaves \union {NoLeaf}]]
    BY <1>5, <2>1, <2>5
  <2>7. \A u \in Users : member'[u].status = "in" => member'[u].leaf < c
    <3> SUFFICES ASSUME NEW u \in Users, member'[u].status = "in" PROVE member'[u].leaf < c
      OBVIOUS
    <3>1. CASE u = v
      <4>1. member'[u].leaf = j.leaf
        BY <3>1, <1>5, <2>5
      <4> QED BY <4>1, <2>2
    <3>2. CASE u # v
      <4>1. member'[u] = member[u]
        BY <3>2, <1>5, <2>5
      <4>2. member[u].leaf \in Nat /\ member[u].leaf < capacity
        BY <4>1, TypeFacts DEF Active
      <4> QED BY <4>1, <4>2, <2>2, <1>3
    <3> QED BY <3>1, <3>2
  <2>8. TypeOK'
    <3>1. c \in 0 .. MaxLeaves
      BY <2>2, <1>3
    <3> QED BY <3>1, <1>1, <2>3, <2>4, <2>6, <2>7 DEF TypesInv, TypeOK, EventRecords, c
  <2>9. TreeTypes'
    <3>1. \A k \in DOMAIN events : IF events[k].action = "create" THEN events[k].leaf = NoLeaf ELSE events[k].leaf < c
      <4> SUFFICES ASSUME NEW k \in DOMAIN events, events[k].action # "create" PROVE events[k].leaf < c
        BY DEF TypesInv, TreeTypes
      <4>1. events[k].leaf \in Nat /\ events[k].leaf < capacity
        BY TypeFacts DEF TypesInv, TreeTypes
      <4> QED BY <4>1, <2>2, <1>3
    <3>2. Event("add", v, j.leaf).action = "add" /\ Event("add", v, j.leaf).leaf = j.leaf
      BY DEF Event
    <3>3. \A k \in DOMAIN events' :
             IF events'[k].action = "create" THEN events'[k].leaf = NoLeaf ELSE events'[k].leaf < c
      BY <3>1, <3>2, <2>2, <2>3
    <3>4. \A i \in Leaves : leaf[i] \in Users => i < c
      <4> SUFFICES ASSUME NEW i \in Leaves, leaf[i] \in Users PROVE i < c
        OBVIOUS
      <4>1. i \in Nat /\ i < capacity
        BY <1>3 DEF Leaves, TypesInv, TreeTypes
      <4> QED BY <4>1, <2>2, <1>3
    <3>5. \A n \in DOMAIN node : node[n] # NoKey => n < NodeCount(c)
      <4> SUFFICES ASSUME NEW n \in DOMAIN node, node[n] # NoKey PROVE n < NodeCount(c)
        OBVIOUS
      <4>1. n \in Nat /\ n < NodeCount(capacity)
        BY <1>3, TypeFacts DEF TypesInv, TreeTypes, Inner, NodeCount
      <4> QED BY <4>1, <2>2, <1>3 DEF NodeCount
    <3> QED BY <3>3, <3>4, <3>5, <2>2, <1>1 DEF TreeTypes, c
  <2> QED BY <2>4, <2>8, <2>9 DEF TypesInv
<1> HIDE DEF v, j
<1> QED BY <1>1, <1>4, <1>5

(* remove_member, the commit *)
LEMMA RemoveWriteTypes ==
    ASSUME TypesInv, NEW s \in Slots, RemoveWrite(s)
    PROVE  TypesInv'
<1> DEFINE j == job[s]
           v == j.subject
<1>1. /\ j.op = "remove" /\ Done(s) /\ UNCHANGED <<capacity, leaf, node, epoch, flag, secret, orphaned>>
      /\ member' = [u \in Users |->
             IF u = v THEN [member[u] EXCEPT !.status = "left", !.leaf = NoLeaf]
             ELSE IF u = j.heir THEN [member[u] EXCEPT !.role = "owner"]
             ELSE member[u]]
      /\ events' = Append(events, Event(j.action, v, j.leaf))
  BY DEF RemoveWrite, treeVars
<1>2. RemoveTyped(j, capacity)
  BY <1>1, JobKinds DEF TypesInv
<1>3. capacity \in Nat /\ Now \in Nat /\ MaxLeaves \in Nat
  BY TypeFacts
<1>4. v \in Users /\ j.leaf \in Leaves /\ j.leaf < capacity /\ j.action \in Actions \ {"create"}
  BY <1>2 DEF RemoveTyped, Actions
<1>5. /\ events' \in Seq(EventRecords) /\ Now' = Now + 1 /\ DOMAIN events' = DOMAIN events \union {Now + 1}
      /\ \A k \in DOMAIN events : events'[k] = events[k]
      /\ events'[Now + 1] = Event(j.action, v, j.leaf)
  BY <1>1, <1>4, AppendIs
<1>6. JobTypes' /\ Started' /\ \A r \in Slots : job'[r].op \in {"idle", "add", "remove", "confirm", "commit"}
  <2>1. Now + 1 \in Nat /\ Now <= Now + 1
    BY <1>3
  <2>2. capacity' = capacity /\ Now' = Now + 1 /\ Done(s) /\ job[s].op # "idle"
    BY <1>1, <1>5
  <2> HIDE DEF j
  <2> QED BY <2>1, <2>2, <1>3, EndTypes
<1>7. ASSUME NEW u \in Users
      PROVE  /\ member'[u] \in [status : {"never", "in", "left"}, role : {"owner", "member"},
                                leaf : Leaves \union {NoLeaf}]
             /\ member'[u].status = "in" => member'[u].leaf < capacity
  <2>1. /\ member[u] \in [status : {"never", "in", "left"}, role : {"owner", "member"}, leaf : Leaves \union {NoLeaf}]
        /\ member[u].status = "in" => member[u].leaf < capacity
    BY DEF TypesInv, TypeOK
  <2>2. \/ member'[u] = [member[u] EXCEPT !.status = "left", !.leaf = NoLeaf]
        \/ member'[u] = [member[u] EXCEPT !.role = "owner"]
        \/ member'[u] = member[u]
    BY <1>1
  <2> QED BY <2>1, <2>2
<1>8. TypeOK'
  <2>1. member' \in [Users -> [status : {"never", "in", "left"}, role : {"owner", "member"},
                              leaf : Leaves \union {NoLeaf}]]
    <3>1. member' = [u \in Users |-> member'[u]]
      BY <1>1
    <3> QED BY <3>1, <1>7
  <2>2. events' \in Seq([action : Actions, subject : Users, leaf : Leaves \union {NoLeaf},
                        chain : {"pending", "submitted", "confirmed", "failed"},
                        rotation : {"waiting", "requested", "done"}])
    BY <1>5 DEF EventRecords
  <2>3. \A u \in Users : member'[u].status = "in" => member'[u].leaf < capacity
    BY <1>7
  <2>4. UNCHANGED <<capacity, leaf, node, epoch, flag, secret, orphaned>>
    BY <1>1
  <2>5. \A r \in Slots : job'[r].op \in {"idle", "add", "remove", "confirm", "commit"}
    BY <1>6
  <2> HIDE DEF j
  <2> QED BY <2>1, <2>2, <2>3, <2>4, <2>5 DEF TypesInv, TypeOK
<1>9. TreeTypes'
  <2>1. Event(j.action, v, j.leaf).action # "create" /\ Event(j.action, v, j.leaf).leaf = j.leaf
    BY <1>4 DEF Event
  <2> QED BY <2>1, <1>1, <1>4, <1>5 DEF TypesInv, TreeTypes
<1> QED BY <1>6, <1>8, <1>9 DEF TypesInv

(* confirm_membership, the commit *)
LEMMA ConfirmWriteTypes ==
    ASSUME TypesInv, NEW s \in Slots, ConfirmWrite(s)
    PROVE  TypesInv'
<1> DEFINE j == job[s]
           k == j.event
<1>1. /\ j.op = "confirm" /\ Done(s) /\ UNCHANGED <<member, capacity, node, epoch, secret, orphaned>>
      /\ \/ UNCHANGED <<events, leaf, flag>>
         \/ /\ events' = [events EXCEPT ![k].chain = "confirmed", ![k].rotation = "requested"]
            /\ leaf' = [i \in Leaves |-> IF i \in DOMAIN j.leaves THEN j.leaves[i] ELSE leaf[i]]
            /\ flag' = (flag \/ ~j.flag)
  BY DEF ConfirmWrite
<1>2. ConfirmTyped(j, capacity) /\ j.seen \in Nat /\ j.seen <= Now
  BY <1>1, JobKinds DEF TypesInv
<1>3. capacity \in Nat /\ Now \in Nat /\ events \in Seq(EventRecords) /\ DOMAIN events = 1 .. Now
  BY TypeFacts
<1>4. k \in DOMAIN events /\ events[k] \in EventRecords
  <2>1. k \in 1 .. Now
    BY <1>2, <1>3 DEF ConfirmTyped
  <2> QED BY <2>1, <1>3
<1>5. CASE UNCHANGED <<events, leaf, flag>>
  <2>1. JobTypes' /\ Started' /\ \A r \in Slots : job'[r].op \in {"idle", "add", "remove", "confirm", "commit"}
    <3>1. Now' = Now
      BY <1>5 DEF Now
    <3> QED BY <3>1, <1>1, <1>3, EndTypes
  <2>2. TypeOK' /\ TreeTypes'
    BY <2>1, <1>1, <1>5 DEF TypesInv, TypeOK, TreeTypes
  <2> QED BY <2>1, <2>2 DEF TypesInv
<1>6. CASE /\ events' = [events EXCEPT ![k].chain = "confirmed", ![k].rotation = "requested"]
           /\ leaf' = [i \in Leaves |-> IF i \in DOMAIN j.leaves THEN j.leaves[i] ELSE leaf[i]]
           /\ flag' = (flag \/ ~j.flag)
  <2> DEFINE e == [events[k] EXCEPT !.chain = "confirmed", !.rotation = "requested"]
  <2>1. e \in EventRecords /\ e.action = events[k].action /\ e.leaf = events[k].leaf
    BY <1>4 DEF EventRecords
  <2>2. events' = [events EXCEPT ![k] = e]
    BY <1>6
  <2> HIDE DEF e, EventRecords
  <2>3. events' \in Seq(EventRecords) /\ Len(events') = Len(events) /\ DOMAIN events' = DOMAIN events
        /\ \A m \in DOMAIN events : events'[m] = IF m = k THEN e ELSE events[m]
    BY <2>1, <2>2, <1>3, <1>4
  <2>4. JobTypes' /\ Started' /\ \A r \in Slots : job'[r].op \in {"idle", "add", "remove", "confirm", "commit"}
    <3>1. Now' = Now
      BY <2>3 DEF Now
    <3> QED BY <3>1, <1>1, <1>3, EndTypes
  <2>5. /\ leaf' \in [Leaves -> Users \union {Nobody, Absent}]
        /\ \A i \in Leaves : leaf'[i] \in Users => i < capacity
    BY <1>2, <1>6 DEF ConfirmTyped, TypesInv, TypeOK, TreeTypes
  <2>6. TypeOK'
    BY <1>1, <1>6, <2>3, <2>4, <2>5 DEF TypesInv, TypeOK, EventRecords
  <2>7. TreeTypes'
    <3>1. \A m \in DOMAIN events' :
             IF events'[m].action = "create" THEN events'[m].leaf = NoLeaf ELSE events'[m].leaf < capacity
      BY <2>1, <2>3 DEF TypesInv, TreeTypes
    <3> QED BY <3>1, <1>1, <2>5 DEF TypesInv, TreeTypes
  <2> QED BY <2>4, <2>6, <2>7 DEF TypesInv
<1> HIDE DEF k, j
<1> QED BY <1>1, <1>5, <1>6

(* tree_commit, the commit *)
LEMMA CommitWriteTypes ==
    ASSUME TypesInv, NEW s \in Slots, CommitWrite(s)
    PROVE  TypesInv'
<1> DEFINE j == job[s]
<1>1. /\ j.op = "commit" /\ Done(s) /\ UNCHANGED <<member, capacity, leaf>>
      /\ \/ UNCHANGED <<events, node, epoch, flag, secret, orphaned>>
         \/ /\ node' = [n \in DOMAIN node |->
                 IF n \in DOMAIN j.held
                 THEN [epoch |-> j.epoch, by |-> j.by, holders |-> j.held[n]]
                 ELSE IF n \in j.blanks THEN NoKey ELSE node[n]]
            /\ secret' = j.held[j.root]
            /\ orphaned' = orphaned \union UNION {node[n].holders : n \in j.blanks}
            /\ events' = [k \in DOMAIN events |->
                 IF k \in j.events THEN [events[k] EXCEPT !.rotation = "done"] ELSE events[k]]
            /\ epoch' = j.epoch
            /\ flag' = (flag /\ ~j.flag)
  BY DEF CommitWrite
<1>2. CommitTyped(j, capacity)
  BY <1>1, JobKinds DEF TypesInv
<1>3. capacity \in Nat /\ Now \in Nat /\ events \in Seq(EventRecords) /\ DOMAIN events = 1 .. Now
  BY TypeFacts
<1>5. CASE UNCHANGED <<events, node, epoch, flag, secret, orphaned>>
  <2>1. JobTypes' /\ Started' /\ \A r \in Slots : job'[r].op \in {"idle", "add", "remove", "confirm", "commit"}
    <3>1. Now' = Now
      BY <1>5 DEF Now
    <3> QED BY <3>1, <1>1, <1>3, EndTypes
  <2>2. TypeOK' /\ TreeTypes'
    BY <2>1, <1>1, <1>5 DEF TypesInv, TypeOK, TreeTypes
  <2> QED BY <2>1, <2>2 DEF TypesInv
<1>6. CASE /\ node' = [n \in DOMAIN node |->
                 IF n \in DOMAIN j.held
                 THEN [epoch |-> j.epoch, by |-> j.by, holders |-> j.held[n]]
                 ELSE IF n \in j.blanks THEN NoKey ELSE node[n]]
           /\ secret' = j.held[j.root]
           /\ orphaned' = orphaned \union UNION {node[n].holders : n \in j.blanks}
           /\ events' = [k \in DOMAIN events |->
                 IF k \in j.events THEN [events[k] EXCEPT !.rotation = "done"] ELSE events[k]]
           /\ epoch' = j.epoch
           /\ flag' = (flag /\ ~j.flag)
  <2>1. \A k \in DOMAIN events :
          /\ events'[k] \in EventRecords
          /\ events'[k].action = events[k].action /\ events'[k].leaf = events[k].leaf
    <3> SUFFICES ASSUME NEW k \in DOMAIN events
                 PROVE  /\ events'[k] \in EventRecords
                        /\ events'[k].action = events[k].action /\ events'[k].leaf = events[k].leaf
      OBVIOUS
    <3>1. events[k] \in EventRecords
      BY TypeFacts
    <3>2. events'[k] = events[k] \/ events'[k] = [events[k] EXCEPT !.rotation = "done"]
      BY <1>6
    <3> QED BY <3>1, <3>2 DEF EventRecords
  <2>2. events' \in Seq(EventRecords) /\ Len(events') = Len(events) /\ DOMAIN events' = DOMAIN events
    <3>1. events' = [k \in 1 .. Now |-> events'[k]]
      BY <1>6, <1>3
    <3> HIDE DEF EventRecords
    <3>2. events' \in [1 .. Now -> EventRecords]
      BY <3>1, <2>1, <1>3
    <3>3. events' \in Seq(EventRecords) /\ DOMAIN events' = 1 .. Now
      BY <3>2, <1>3
    <3>4. Len(events') = Now
      BY <3>3, <1>3
    <3> QED BY <3>3, <3>4, <1>3 DEF Now
  <2>3. JobTypes' /\ Started' /\ \A r \in Slots : job'[r].op \in {"idle", "add", "remove", "confirm", "commit"}
    <3>1. Now' = Now
      BY <2>2 DEF Now
    <3> QED BY <3>1, <1>1, <1>3, EndTypes
  <2>4. DOMAIN node = Inner(MaxLeaves) /\ \A n \in DOMAIN node : node[n].holders \subseteq Users
    BY TypeFacts
  <2>5. secret' \subseteq Users
    BY <1>2, <1>6 DEF CommitTyped
  <2>6. orphaned' \subseteq Users
    <3>1. \A n \in j.blanks : node[n].holders \subseteq Users
      BY <1>2, <2>4 DEF CommitTyped
    <3> QED BY <3>1, <1>6 DEF TypesInv, TypeOK
  <2>7. ASSUME NEW n \in Inner(MaxLeaves)
        PROVE  /\ node'[n] \in [epoch : 0..MaxEpoch, by : Users \union {Nobody}, holders : SUBSET Users]
               /\ node'[n] # NoKey => n < NodeCount(capacity)
    <3>0. MaxEpoch \in Nat
      BY GroupAssumption
    <3>1. CASE n \in DOMAIN j.held
      <4>1. node'[n] = [epoch |-> j.epoch, by |-> j.by, holders |-> j.held[n]]
        BY <3>1, <1>6, <2>4
      <4>2. j.epoch \in 0 .. MaxEpoch /\ j.by \in Users /\ j.held[n] \subseteq Users /\ n < NodeCount(capacity)
        BY <3>0, <3>1, <1>2 DEF CommitTyped
      <4> QED BY <4>1, <4>2
    <3>2. CASE n \notin DOMAIN j.held /\ n \in j.blanks
      <4>1. node'[n] = NoKey
        BY <3>2, <1>6, <2>4
      <4>2. 0 \in 0 .. MaxEpoch
        BY <3>0
      <4> QED BY <4>1, <4>2 DEF NoKey
    <3>3. CASE n \notin DOMAIN j.held /\ n \notin j.blanks
      <4>1. node'[n] = node[n]
        BY <3>3, <1>6, <2>4
      <4> QED BY <4>1, <2>4 DEF TypesInv, TypeOK, TreeTypes
    <3> QED BY <3>1, <3>2, <3>3
  <2>8. TypeOK'
    <3>0. MaxEpoch \in Nat
      BY GroupAssumption
    <3>1. epoch' \in 0 .. MaxEpoch
      BY <3>0, <1>2, <1>6 DEF CommitTyped
    <3>2. node' \in [Inner(MaxLeaves) -> [epoch : 0..MaxEpoch, by : Users \union {Nobody},
                                          holders : SUBSET Users]]
      <4>1. node' = [n \in Inner(MaxLeaves) |-> node'[n]]
        BY <1>6, <2>4
      <4> QED BY <4>1, <2>7
    <3>3. flag' \in BOOLEAN
      BY <1>6
    <3> QED BY <3>1, <3>2, <3>3, <1>1, <2>2, <2>3, <2>5, <2>6 DEF TypesInv, TypeOK, EventRecords
  <2>9. TreeTypes'
    <3>1. DOMAIN node' = Inner(MaxLeaves)
      BY <1>6, <2>4
    <3> QED BY <3>1, <1>1, <2>1, <2>2, <2>7 DEF TypesInv, TreeTypes
  <2> QED BY <2>3, <2>8, <2>9 DEF TypesInv
<1> HIDE DEF j
<1> QED BY <1>1, <1>5, <1>6

(* The types hold at first.                                                 *)
LEMMA TypesStart == Init => TypesInv
<1> SUFFICES ASSUME Init PROVE TypesInv
  OBVIOUS
<1>1. MaxLeaves \in Nat /\ MaxEpoch \in Nat
  BY GroupAssumption DEF Powers
<1>2. events \in Seq(EventRecords) /\ DOMAIN events = {} /\ Len(events) = 0
  BY DEF Init, EventRecords
<1>3. 0 \in 0 .. MaxLeaves /\ 0 \in 0 .. MaxEpoch
  BY <1>1
<1>4. NoKey \in [epoch : 0..MaxEpoch, by : Users \union {Nobody}, holders : SUBSET Users]
  BY <1>3 DEF NoKey
<1>5. TypeOK
  BY <1>2, <1>3, <1>4 DEF Init, TypeOK, EventRecords, Idle
<1>6. TreeTypes
  BY <1>2, GroupAssumption DEF Init, TreeTypes
<1>7. JobTypes
  BY DEF Init, JobTypes, JobTyped, Idle
<1>8. Started
  BY DEF Init, Started, Active
<1> QED BY <1>5, <1>6, <1>7, <1>8 DEF TypesInv

(* Every step keeps the types.                                              *)
LEMMA TypesStep ==
    ASSUME OneAddAtATime, TypesInv, [Next]_vars
    PROVE  TypesInv'
<1>1. CASE UNCHANGED vars
  BY <1>1 DEF vars, TypesInv, TypeOK, TreeTypes, JobTypes, Started, Now, Active
<1>2. CASE \E u \in Users : Create(u)
  BY <1>2, CreateTypes
<1>3. CASE \E k \in DOMAIN events : AnchorMembership(k)
  BY <1>3, AnchorTypes
<1>4. CASE \E s \in Slots : \E u, v \in Users : AddRead(s, u, v) \/ RemoveRead(s, u, v)
  BY <1>4, AddReadTypes, RemoveReadTypes
<1>5. CASE \E s \in Slots : \E k \in DOMAIN events : ConfirmRead(s, k)
  BY <1>5, ConfirmReadTypes
<1>6. CASE \E s \in Slots : \E u \in Users : CommitRead(s, u)
  BY <1>6, CommitReadTypes
<1>7. CASE \E s \in Slots : AddWrite(s) \/ RemoveWrite(s) \/ ConfirmWrite(s) \/ CommitWrite(s)
  BY <1>7, AddWriteTypes, RemoveWriteTypes, ConfirmWriteTypes, CommitWriteTypes
<1> QED BY <1>1, <1>2, <1>3, <1>4, <1>5, <1>6, <1>7 DEF Next

(* The group's tables and the transactions in flight keep their types: no  *)
(* member, event or node key is outside the tree as large as it has grown,  *)
(* as long as no two additions overlap (group_service.py, add_members).     *)
THEOREM GroupTypeCorrect == ASSUME OneAddAtATime PROVE Spec => []TypeOK
<1>1. Init => TypesInv
  BY TypesStart
<1>2. TypesInv /\ [Next]_vars => TypesInv'
  BY TypesStep
<1>3. TypesInv => TypeOK
  BY DEF TypesInv
<1> QED BY <1>1, <1>2, <1>3, PTL DEF Spec

(***************************************************************************)
(* The seats: members, events, leaves of the tree and transactions in flight*)
(* say the same of who sits where, or a later event corrects what they say *)
(***************************************************************************)
(* Who has which leaf, and what an event says about that: mem is the table  *)
(* of members and ev the list of events.                                    *)
Sits(mem, u, i) == mem[u].status = "in" /\ mem[u].leaf = i
Removes(ev, k, u, i) == ev[k].action \in {"remove", "leave"} /\ ev[k].subject = u /\ ev[k].leaf = i
About(ev, k, u, i) == ev[k].action = "create" \/ (ev[k].subject = u /\ ev[k].leaf = i)
WaitingIn(ev) == {k \in DOMAIN ev : ev[k].rotation = "waiting"}
Later(K, n) == {k \in K : k > n}
Leaving(ev, K, u, i) == \E k \in K : Removes(ev, k, u, i)
SameEvent(ev, ev2, k) ==
    /\ k \in DOMAIN ev2
    /\ ev2[k].action = ev[k].action /\ ev2[k].subject = ev[k].subject /\ ev2[k].leaf = ev[k].leaf

(* No leaf has two members, nor a member of whom an event not yet applied   *)
(* says anything but that the member comes.                                 *)
SeatsApart(mem) == \A u, v \in Users, i \in Leaves : Sits(mem, u, i) /\ Sits(mem, v, i) => u = v
SeatsNamed(mem, ev) ==
    \A k \in WaitingIn(ev), u \in Users :
        Sits(mem, u, ev[k].leaf) => ev[k].subject = u /\ ev[k].action = "add"
(* A leaf of the tree has the key of who sits there, or of someone whose    *)
(* removal is still to be applied; who sits there has it, or is to get it.  *)
LeavesHeld(mem, ev, lf) ==
    \A i \in Leaves : lf[i] \in Users => Sits(mem, lf[i], i) \/ Leaving(ev, WaitingIn(ev), lf[i], i)
LeavesSet(mem, ev, lf) ==
    \A u \in Users, i \in Leaves :
        Sits(mem, u, i) /\ (\A k \in WaitingIn(ev) : ~About(ev, k, u, i)) => lf[i] = u

(* What a transaction has read still holds, or a later event corrects it.   *)
AddHolds(j, mem, ev) ==
    /\ mem[j.subject].status # "in"
    /\ \A u \in Users : ~Sits(mem, u, j.leaf)
    /\ \A k \in WaitingIn(ev) : ev[k].leaf # j.leaf
RemoveHolds(j, mem, ev) ==
    \/ Sits(mem, j.subject, j.leaf)
    \/ mem[j.subject].status # "in" /\ Leaving(ev, Later(WaitingIn(ev), j.seen), j.subject, j.leaf)
ConfirmHolds(j, mem, ev) ==
    /\ \A i \in DOMAIN j.leaves : j.leaves[i] \in Users =>
         Sits(mem, j.leaves[i], i) \/ Leaving(ev, Later(WaitingIn(ev), j.seen), j.leaves[i], i)
    /\ ev[j.event].action # "create" => \A i \in DOMAIN j.leaves : i = ev[j.event].leaf
    /\ ev[j.event].action \in {"remove", "leave"} =>
         ev[j.event].leaf \in DOMAIN j.leaves /\ j.leaves[ev[j.event].leaf] = Nobody
    /\ \A u \in Users, i \in Leaves :
         Sits(mem, u, i) /\ (ev[j.event].action = "create" \/ ev[j.event].leaf = i) =>
            \/ i \in DOMAIN j.leaves /\ j.leaves[i] = u
            \/ \E k \in Later(WaitingIn(ev), j.seen) : ev[k].subject = u /\ ev[k].leaf = i
JobHolds(j, mem, ev) ==
    /\ j.op = "add" => AddHolds(j, mem, ev)
    /\ j.op = "remove" => RemoveHolds(j, mem, ev)
    /\ j.op = "confirm" => ConfirmHolds(j, mem, ev)
    /\ j.op = "commit" => \A k \in j.events : ev[k].rotation # "waiting"

(* Nobody is added by one transaction and removed by another, and nothing   *)
(* is confirmed that a transaction in flight has not seen.                  *)
JobsApart ==
    /\ \A r, s \in Slots : job[r].op = "remove" /\ job[s].op = "add" => job[r].subject # job[s].subject
    /\ \A r, s \in Slots : job[r].op # "idle" /\ job[s].op = "confirm" => job[s].event <= job[r].seen

Answered(ev) == \A k \in DOMAIN ev : ev[k].chain \in {"pending", "submitted"} => ev[k].rotation = "waiting"

SeatInv ==
    /\ SeatsApart(member) /\ SeatsNamed(member, events)
    /\ LeavesHeld(member, events, leaf) /\ LeavesSet(member, events, leaf)
    /\ Answered(events)
    /\ \A s \in Slots : JobHolds(job[s], member, events)
    /\ JobsApart

(* What a step of another actor must leave alone for a transaction in flight. *)
LEMMA JobCarries ==
    ASSUME NEW j, NEW mem, NEW ev, NEW mem2, NEW ev2, JobHolds(j, mem, ev),
           \A k \in DOMAIN ev : SameEvent(ev, ev2, k),
           j.op = "remove" => j.subject \in Users /\ j.leaf \in Leaves,
           j.op = "confirm" => /\ j.event \in DOMAIN ev
                               /\ \A i \in DOMAIN j.leaves : i \in Leaves,
           \A k \in Later(WaitingIn(ev), j.seen) : k \in WaitingIn(ev2),
           \A u \in Users, i \in Leaves : Sits(mem, u, i) =>
              \/ Sits(mem2, u, i)
              \/ mem2[u].status # "in" /\ Leaving(ev2, Later(WaitingIn(ev2), j.seen), u, i),
           \A u \in Users, i \in Leaves : Sits(mem2, u, i) =>
              \/ Sits(mem, u, i)
              \/ \E k \in Later(WaitingIn(ev2), j.seen) : ev2[k].subject = u /\ ev2[k].leaf = i,
           j.op = "remove" /\ mem[j.subject].status # "in" => mem2[j.subject].status # "in",
           j.op = "add" => AddHolds(j, mem2, ev2),
           j.op = "commit" => \A k \in j.events : ev2[k].rotation # "waiting"
    PROVE  JobHolds(j, mem2, ev2)
<1>1. \A k \in Later(WaitingIn(ev), j.seen) : k \in Later(WaitingIn(ev2), j.seen) /\ SameEvent(ev, ev2, k)
  BY DEF Later, WaitingIn
<1>2. ASSUME NEW u, NEW i, Leaving(ev, Later(WaitingIn(ev), j.seen), u, i)
      PROVE  Leaving(ev2, Later(WaitingIn(ev2), j.seen), u, i)
  BY <1>1, <1>2 DEF Leaving, Removes, SameEvent
<1>3. CASE j.op = "remove"
  BY <1>2, <1>3 DEF JobHolds, RemoveHolds
<1>4. CASE j.op = "confirm"
  <2> DEFINE e == ev[j.event]
             f == ev2[j.event]
  <2>1. f.action = e.action /\ f.leaf = e.leaf
    BY <1>4 DEF SameEvent
  <2>2. ConfirmHolds(j, mem, ev)
    BY <1>4 DEF JobHolds
  <2>3. \A i \in DOMAIN j.leaves : j.leaves[i] \in Users =>
          Sits(mem2, j.leaves[i], i) \/ Leaving(ev2, Later(WaitingIn(ev2), j.seen), j.leaves[i], i)
    <3> SUFFICES ASSUME NEW i \in DOMAIN j.leaves, j.leaves[i] \in Users
                 PROVE  Sits(mem2, j.leaves[i], i) \/ Leaving(ev2, Later(WaitingIn(ev2), j.seen), j.leaves[i], i)
      OBVIOUS
    <3>1. Sits(mem, j.leaves[i], i) \/ Leaving(ev, Later(WaitingIn(ev), j.seen), j.leaves[i], i)
      BY <2>2 DEF ConfirmHolds
    <3> QED BY <1>2, <1>4, <3>1
  <2>4. \A u \in Users, i \in Leaves :
         Sits(mem2, u, i) /\ (f.action = "create" \/ f.leaf = i) =>
            \/ i \in DOMAIN j.leaves /\ j.leaves[i] = u
            \/ \E k \in Later(WaitingIn(ev2), j.seen) : ev2[k].subject = u /\ ev2[k].leaf = i
    <3> SUFFICES ASSUME NEW u \in Users, NEW i \in Leaves, Sits(mem2, u, i), f.action = "create" \/ f.leaf = i
                 PROVE  \/ i \in DOMAIN j.leaves /\ j.leaves[i] = u
                        \/ \E k \in Later(WaitingIn(ev2), j.seen) : ev2[k].subject = u /\ ev2[k].leaf = i
      OBVIOUS
    <3>1. CASE Sits(mem, u, i)
      <4>1. \/ i \in DOMAIN j.leaves /\ j.leaves[i] = u
            \/ \E k \in Later(WaitingIn(ev), j.seen) : ev[k].subject = u /\ ev[k].leaf = i
        BY <2>1, <2>2, <3>1 DEF ConfirmHolds
      <4> QED BY <4>1, <1>1 DEF SameEvent
    <3> QED BY <3>1
  <2> QED BY <1>4, <2>1, <2>2, <2>3, <2>4 DEF JobHolds, ConfirmHolds
<1> QED BY <1>3, <1>4 DEF JobHolds

(* A read keeps the seats if what it has read holds.                        *)
LEMMA ReadSeats ==
    ASSUME TypesInv, SeatInv, NEW s \in Slots, NEW j, Read(s, j), UNCHANGED <<member, capacity, events, treeVars>>,
           JobHolds(j, member, events), j.op # "idle", j.seen = Now,
           j.op = "add" => \A r \in Slots : job[r].op = "remove" => job[r].subject # j.subject,
           j.op = "remove" => \A r \in Slots : job[r].op = "add" => job[r].subject # j.subject,
           j.op = "confirm" => j.event <= Now /\ \A r \in Slots : job[r].op # "idle" => j.event <= job[r].seen
    PROVE  SeatInv'
<1>1. \A r \in Slots : job'[r] = IF r = s THEN j ELSE job[r]
  BY DEF Read, TypesInv, JobTypes
<1>2. UNCHANGED <<member, events, leaf>>
  BY DEF treeVars
<1>3. \A r \in Slots : JobHolds(job'[r], member, events)
  BY <1>1 DEF SeatInv
<1>4. \A r \in Slots : job[r].op = "confirm" => job[r].event <= Now
  <2> SUFFICES ASSUME NEW r \in Slots, job[r].op = "confirm" PROVE job[r].event <= Now
    OBVIOUS
  <2>1. ConfirmTyped(job[r], capacity) /\ job[r].seen \in Nat /\ job[r].seen <= Now /\ Now \in Nat
    BY JobKinds, TypeFacts DEF TypesInv
  <2>2. job[r].event \in Nat /\ job[r].event <= job[r].seen
    BY <2>1 DEF ConfirmTyped
  <2> QED BY <2>1, <2>2
<1>5. JobsApart'
  <2>1. \A q, r \in Slots : job'[q].op = "remove" /\ job'[r].op = "add" => job'[q].subject # job'[r].subject
    BY <1>1 DEF SeatInv, JobsApart
  <2>2. \A q, r \in Slots : job'[q].op # "idle" /\ job'[r].op = "confirm" => job'[r].event <= job'[q].seen
    BY <1>1, <1>4 DEF SeatInv, JobsApart
  <2> QED BY <2>1, <2>2 DEF JobsApart
<1> QED BY <1>2, <1>3, <1>5 DEF SeatInv

(* A step keeps the seats if it only ends a transaction, or none, and      *)
(* changes neither the members nor the leaves nor what waits.               *)
LEMMA QuietSeats ==
    ASSUME TypesInv, SeatInv, member' = member, leaf' = leaf, Answered(events'),
           DOMAIN events' = DOMAIN events, \A k \in DOMAIN events : SameEvent(events, events', k),
           \A k \in DOMAIN events : events'[k].rotation = "waiting" <=> events[k].rotation = "waiting",
           \A r \in Slots : job'[r] = job[r] \/ job'[r] = Idle
    PROVE  SeatInv'
<1>1. WaitingIn(events') = WaitingIn(events)
  BY DEF WaitingIn
<1>2. \A k \in WaitingIn(events) : k \in DOMAIN events /\ SameEvent(events, events', k)
  BY DEF WaitingIn
<1>3. SeatsNamed(member, events')
  BY <1>1, <1>2 DEF SeatInv, SeatsNamed, SameEvent
<1>4. LeavesHeld(member, events', leaf)
  BY <1>1, <1>2 DEF SeatInv, LeavesHeld, Leaving, Removes, SameEvent
<1>5. LeavesSet(member, events', leaf)
  BY <1>1, <1>2 DEF SeatInv, LeavesSet, About, SameEvent
<1>6. ASSUME NEW r \in Slots PROVE JobHolds(job'[r], member, events')
  <2>1. CASE job'[r] = Idle
    BY <2>1 DEF JobHolds, Idle
  <2>2. CASE job'[r] = job[r]
    <3> DEFINE j == job[r]
    <3>1. JobHolds(j, member, events)
      BY DEF SeatInv
    <3>2. j.op = "remove" => j.subject \in Users /\ j.leaf \in Leaves
      BY JobKinds DEF RemoveTyped, TypesInv
    <3>3. j.op = "confirm" => /\ j.event \in DOMAIN events
                              /\ \A i \in DOMAIN j.leaves : i \in Leaves
      <4> SUFFICES ASSUME j.op = "confirm"
                   PROVE  j.event \in DOMAIN events /\ \A i \in DOMAIN j.leaves : i \in Leaves
        OBVIOUS
      <4>1. ConfirmTyped(j, capacity) /\ j.seen \in Nat /\ j.seen <= Now /\ Now \in Nat /\ DOMAIN events = 1 .. Now
        BY JobKinds, TypeFacts DEF TypesInv
      <4> HIDE DEF j
      <4> QED BY <4>1 DEF ConfirmTyped
    <3>4. j.op = "add" => AddHolds(j, member, events')
      BY <3>1, <1>1, <1>2 DEF JobHolds, AddHolds, SameEvent
    <3>5. j.op = "commit" => \A k \in j.events : events'[k].rotation # "waiting"
      <4> SUFFICES ASSUME j.op = "commit", NEW k \in j.events PROVE events'[k].rotation # "waiting"
        OBVIOUS
      <4>1. events[k].rotation # "waiting"
        BY <3>1 DEF JobHolds
      <4>2. CommitTyped(j, capacity) /\ j.seen \in Nat /\ j.seen <= Now /\ Now \in Nat /\ DOMAIN events = 1 .. Now
        BY JobKinds, TypeFacts DEF TypesInv
      <4> HIDE DEF j
      <4>3. k \in DOMAIN events
        BY <4>2 DEF CommitTyped
      <4> QED BY <4>1, <4>3
    <3>6. \A k \in Later(WaitingIn(events), j.seen) : k \in WaitingIn(events')
      BY <1>1 DEF Later
    <3> HIDE DEF j
    <3>7. JobHolds(j, member, events')
      BY <3>1, <3>2, <3>3, <3>4, <3>5, <3>6, JobCarries
    <3> QED BY <3>7, <2>2 DEF j
  <2> QED BY <2>1, <2>2
<1>7. JobsApart'
  BY DEF SeatInv, JobsApart, Idle
<1> QED BY <1>3, <1>4, <1>5, <1>6, <1>7 DEF SeatInv

(* What a transaction remembers names users, leaves and events that exist.  *)
LEMMA JobShape ==
    ASSUME TypesInv, NEW s \in Slots
    PROVE  /\ job[s].op = "add" => job[s].subject \in Users /\ job[s].leaf \in Leaves
           /\ job[s].op = "remove" => /\ job[s].subject \in Users /\ job[s].leaf \in Leaves
                                      /\ job[s].action \in {"remove", "leave"}
           /\ job[s].op = "confirm" => /\ job[s].event \in DOMAIN events
                                       /\ \A i \in DOMAIN job[s].leaves : i \in Leaves
           /\ job[s].op = "commit" => \A k \in job[s].events : k \in DOMAIN events
           /\ job[s].op # "idle" => job[s].seen \in Nat /\ Now + 1 > job[s].seen
<1> DEFINE j == job[s]
<1>1. /\ j.op = "add" => AddTyped(j, capacity)
      /\ j.op = "remove" => RemoveTyped(j, capacity)
      /\ j.op = "confirm" => ConfirmTyped(j, capacity)
      /\ j.op = "commit" => CommitTyped(j, capacity)
      /\ j.op # "idle" => j.seen \in Nat /\ j.seen <= Now
  BY JobKinds DEF TypesInv
<1>2. Now \in Nat /\ DOMAIN events = 1 .. Now
  BY TypeFacts
<1> HIDE DEF j
<1>3. j.op = "confirm" => j.event \in DOMAIN events /\ \A i \in DOMAIN j.leaves : i \in Leaves
  BY <1>1, <1>2 DEF ConfirmTyped
<1>4. j.op = "commit" => \A k \in j.events : k \in DOMAIN events
  BY <1>1, <1>2 DEF CommitTyped
<1>5. j.op # "idle" => j.seen \in Nat /\ Now + 1 > j.seen
  BY <1>1, <1>2
<1>6. /\ j.op = "add" => j.subject \in Users /\ j.leaf \in Leaves
      /\ j.op = "remove" => j.subject \in Users /\ j.leaf \in Leaves /\ j.action \in {"remove", "leave"}
  BY <1>1 DEF AddTyped, RemoveTyped
<1> QED BY <1>3, <1>4, <1>5, <1>6 DEF j

(* Fewer transactions in flight are still apart.                            *)
LEMMA EndApart ==
    ASSUME SeatInv, \A r \in Slots : job'[r] = job[r] \/ job'[r] = Idle
    PROVE  JobsApart'
BY DEF SeatInv, JobsApart, Idle

(* The members that a group is created with sit on leaves of their own.     *)
LEMMA CreateSeats ==
    ASSUME TypesInv, SeatInv, NEW u \in Users, Create(u), TypesInv'
    PROVE  SeatInv'
<1>1. PICK n \in 2..MaxLeaves : \E seat \in [0..(n - 1) -> Users] :
         member' = [v \in Users |->
              IF \E i \in DOMAIN seat : seat[i] = v
              THEN [status |-> "in", role |-> IF v = u THEN "owner" ELSE "member",
                    leaf |-> CHOOSE i \in DOMAIN seat : seat[i] = v]
              ELSE member[v]]
  BY DEF Create
<1>2. PICK seat \in [0..(n - 1) -> Users] :
         member' = [v \in Users |->
              IF \E i \in DOMAIN seat : seat[i] = v
              THEN [status |-> "in", role |-> IF v = u THEN "owner" ELSE "member",
                    leaf |-> CHOOSE i \in DOMAIN seat : seat[i] = v]
              ELSE member[v]]
  BY <1>1
<1>3. /\ capacity = 0 /\ events' = <<Event("create", u, NoLeaf)>>
      /\ UNCHANGED <<leaf, job>>
  BY DEF Create, treeVars
<1>4. \A v \in Users : ~Active(v)
  BY <1>3 DEF TypesInv, Started
<1>5. \A s \in Slots : job'[s] = Idle
  BY <1>3 DEF TypesInv, Started
<1>6. MaxLeaves \in Nat /\ Nobody \notin Users
  BY TypeFacts
<1>7. \A i \in Leaves : leaf[i] \notin Users
  <2> SUFFICES ASSUME NEW i \in Leaves, leaf[i] \in Users PROVE FALSE
    OBVIOUS
  <2>1. i \in Nat /\ i < 0
    BY <1>3, <1>6 DEF TypesInv, TreeTypes, Leaves
  <2> QED BY <2>1
<1>8. ASSUME NEW v \in Users, NEW i \in Leaves, Sits(member', v, i) PROVE i \in DOMAIN seat /\ seat[i] = v
  <2>1. CASE \E l \in DOMAIN seat : seat[l] = v
    <3> DEFINE l == CHOOSE l \in DOMAIN seat : seat[l] = v
    <3>1. l \in DOMAIN seat /\ seat[l] = v
      BY <2>1
    <3>2. member'[v].leaf = l
      BY <1>2, <2>1
    <3> QED BY <3>1, <3>2, <1>8 DEF Sits
  <2>2. CASE ~ \E l \in DOMAIN seat : seat[l] = v
    BY <2>2, <1>2, <1>4, <1>8 DEF Sits, Active
  <2> QED BY <2>1, <2>2
<1> DEFINE e == Event("create", u, NoLeaf)
<1>9. e.action = "create" /\ e.leaf = NoLeaf /\ e.rotation = "waiting"
  BY DEF Event
<1> HIDE DEF e
<1>10. events' = <<e>> /\ DOMAIN events' = {1} /\ events'[1] = e
  BY <1>3 DEF e
<1>11. SeatsApart(member')
  BY <1>8 DEF SeatsApart
<1>12. SeatsNamed(member', events')
  <2> SUFFICES ASSUME NEW v \in Users, Sits(member', v, NoLeaf) PROVE FALSE
    BY <1>9, <1>10 DEF SeatsNamed, WaitingIn
  <2>1. member'[v].leaf < capacity' /\ capacity' <= MaxLeaves /\ capacity' \in Nat
    <3>1. member'[v].status = "in"
      BY DEF Sits
    <3> QED BY <3>1, <1>6 DEF TypesInv, TypeOK
  <2>2. member'[v].leaf = MaxLeaves
    BY DEF Sits, NoLeaf
  <2> QED BY <2>1, <2>2, <1>6
<1>13. LeavesHeld(member', events', leaf')
  BY <1>3, <1>7 DEF LeavesHeld
<1>14. LeavesSet(member', events', leaf')
  BY <1>9, <1>10 DEF LeavesSet, WaitingIn, About
<1>15. Answered(events')
  BY <1>9, <1>10 DEF Answered
<1>16. \A s \in Slots : JobHolds(job'[s], member', events')
  BY <1>5 DEF JobHolds, Idle
<1>17. JobsApart'
  BY <1>5, EndApart
<1> QED BY <1>11, <1>12, <1>13, <1>14, <1>15, <1>16, <1>17 DEF SeatInv

(* Sending an event to the chain changes nothing about the seats.           *)
LEMMA AnchorSeats ==
    ASSUME TypesInv, SeatInv, NEW k \in DOMAIN events, AnchorMembership(k)
    PROVE  SeatInv'
<1>1. PICK c \in {"submitted", "failed"} : events' = [events EXCEPT ![k].chain = c]
  BY DEF AnchorMembership
<1>2. UNCHANGED <<member, leaf, job>> /\ events[k].chain = "pending"
  BY DEF AnchorMembership, treeVars
<1>3. \A m \in DOMAIN events : events[m] \in EventRecords
  BY TypeFacts
<1>4. DOMAIN events' = DOMAIN events
  BY <1>1
<1>5. \A m \in DOMAIN events :
         events'[m] = IF m = k THEN [events[k] EXCEPT !.chain = c] ELSE events[m]
  BY <1>1
<1>6. \A m \in DOMAIN events : /\ SameEvent(events, events', m)
                               /\ events'[m].rotation = events[m].rotation
  BY <1>3, <1>4, <1>5 DEF EventRecords, SameEvent
<1>7. Answered(events')
  <2> SUFFICES ASSUME NEW m \in DOMAIN events, events'[m].chain \in {"pending", "submitted"}
               PROVE  events[m].rotation = "waiting"
    BY <1>4, <1>6 DEF Answered
  <2>1. events[m].chain \in {"pending", "submitted"}
    BY <1>2, <1>5
  <2> QED BY <2>1 DEF SeatInv, Answered
<1>8. \A m \in DOMAIN events : events'[m].rotation = "waiting" <=> events[m].rotation = "waiting"
  BY <1>6
<1>9. member' = member /\ leaf' = leaf /\ \A r \in Slots : job'[r] = job[r] \/ job'[r] = Idle
  BY <1>2
<1>10. \A m \in DOMAIN events : SameEvent(events, events', m)
  BY <1>6
<1> QED BY <1>4, <1>7, <1>8, <1>9, <1>10, QuietSeats

(* A leaf found free stays free for the addition that found it.             *)
LEMMA AddReadSeats ==
    ASSUME NoQuickReturn, TypesInv, SeatInv, NEW s \in Slots, NEW u \in Users, NEW v \in Users, AddRead(s, u, v)
    PROVE  SeatInv'
<1> DEFINE j == [op |-> "add", seen |-> Now, subject |-> v, leaf |-> FreeLeaf,
                 capacity |-> IF FreeLeaf < capacity THEN 0 ELSE CapacityFor(FreeLeaf + 1),
                 insert |-> member[v].status = "never"]
<1>1. /\ Read(s, j) /\ UNCHANGED <<member, capacity, events, treeVars>>
      /\ \A r \in Slots : job[r].op = "remove" => job[r].subject # v
      /\ FreeLeaf < MaxLeaves /\ ~Active(v)
  BY DEF AddRead
<1>2. j.op = "add" /\ j.seen = Now /\ j.subject = v /\ j.leaf = FreeLeaf
  OBVIOUS
<1> HIDE DEF j
<1>3. /\ \A w \in Users : Active(w) => member[w].leaf # FreeLeaf
      /\ \A k \in Undone : events[k].leaf # FreeLeaf
  BY <1>1, FreeLeafIs
<1>4. AddHolds(j, member, events)
  <2>1. \A k \in WaitingIn(events) : k \in Undone
    BY DEF WaitingIn, Undone
  <2> QED BY <2>1, <1>1, <1>2, <1>3 DEF AddHolds, Sits, Active
<1>5. JobHolds(j, member, events)
  BY <1>2, <1>4 DEF JobHolds
<1> QED BY <1>1, <1>2, <1>5, ReadSeats

(* A removal remembers where the member sits.                               *)
LEMMA RemoveReadSeats ==
    ASSUME TypesInv, SeatInv, NEW s \in Slots, NEW u \in Users, NEW v \in Users, RemoveRead(s, u, v)
    PROVE  SeatInv'
<1> DEFINE rest == ActiveMembers \ {v}
           j(heir) == [op |-> "remove", seen |-> Now, subject |-> v, leaf |-> member[v].leaf, heir |-> heir,
                       action |-> IF u = v THEN "leave" ELSE "remove"]
<1>1. PICK heir \in IF member[v].role = "owner" /\ rest # {} THEN rest ELSE {Nobody} : Read(s, j(heir))
  BY DEF RemoveRead
<1>2. UNCHANGED <<member, capacity, events, treeVars>> /\ Active(v)
  BY DEF RemoveRead
<1>3. j(heir).op = "remove" /\ j(heir).seen = Now /\ j(heir).subject = v /\ j(heir).leaf = member[v].leaf
  OBVIOUS
<1> HIDE DEF j
<1>4. JobHolds(j(heir), member, events)
  BY <1>2, <1>3 DEF JobHolds, RemoveHolds, Sits, Active
<1>5. \A r \in Slots : job[r].op = "add" => job[r].subject # v
  BY <1>2 DEF SeatInv, JobHolds, AddHolds, Active
<1> QED BY <1>1, <1>2, <1>3, <1>4, <1>5, ReadSeats

(* What is read to be confirmed is what the seats say.                      *)
LEMMA LeafWritesHold ==
    ASSUME TypesInv, SeatInv, NEW k \in DOMAIN events, events[k].chain = "submitted", NEW w \in LeafWrites(k),
           NEW j, j.op = "confirm", j.event = k, j.leaves = w, j.seen = Now
    PROVE  ConfirmHolds(j, member, events)
<1> DEFINE e == events[k]
<1>1. k \in WaitingIn(events)
  BY DEF SeatInv, Answered, WaitingIn
<1>2. /\ e.subject \in Users
      /\ e.action # "create" => e.leaf \in Leaves
      /\ Nobody \notin Users
  <2>1. e.leaf \in Nat /\ capacity \in Nat /\ capacity <= MaxLeaves /\ MaxLeaves \in Nat /\ Nobody \notin Users
        /\ e.subject \in Users
    BY TypeFacts
  <2>2. e.action # "create" => e.leaf < capacity
    BY DEF TypesInv, TreeTypes
  <2> QED BY <2>1, <2>2 DEF Leaves
<1>3. \A v \in Users : Sits(member, v, e.leaf) => e.subject = v /\ e.action = "add"
  BY <1>1 DEF SeatInv, SeatsNamed
<1>4. \A v \in Users, i \in Leaves : Sits(member, v, i) <=> v \in ActiveMembers /\ member[v].leaf = i
  BY DEF Sits, ActiveMembers, Active
<1> SUFFICES /\ \A i \in DOMAIN w : w[i] \in Users => Sits(member, w[i], i)
             /\ e.action # "create" => \A i \in DOMAIN w : i = e.leaf
             /\ e.action \in {"remove", "leave"} => e.leaf \in DOMAIN w /\ w[e.leaf] = Nobody
             /\ \A v \in Users, i \in Leaves :
                  Sits(member, v, i) /\ (e.action = "create" \/ e.leaf = i) => i \in DOMAIN w /\ w[i] = v
  BY DEF ConfirmHolds
<1>5. CASE e.action = "create"
  <2> DEFINE taken == {member[u].leaf : u \in ActiveMembers}
  <2>1. w \in [taken -> ActiveMembers] /\ \A i \in taken : member[w[i]].leaf = i
    BY <1>5 DEF LeafWrites
  <2>2. \A i \in DOMAIN w : w[i] \in ActiveMembers /\ member[w[i]].leaf = i
    BY <2>1
  <2>3. \A i \in DOMAIN w : w[i] \in Users => Sits(member, w[i], i)
    BY <2>2 DEF Sits, ActiveMembers, Active
  <2>4. ASSUME NEW v \in Users, NEW i \in Leaves, Sits(member, v, i) PROVE i \in DOMAIN w /\ w[i] = v
    <3>1. v \in ActiveMembers /\ member[v].leaf = i
      BY <1>4, <2>4
    <3>2. i \in DOMAIN w
      BY <2>1, <3>1
    <3>3. Sits(member, w[i], i) /\ w[i] \in Users
      BY <3>2, <2>2 DEF Sits, ActiveMembers, Active
    <3> QED BY <3>2, <3>3, <2>4 DEF SeatInv, SeatsApart
  <2> HIDE DEF taken
  <2> QED BY <1>5, <2>3, <2>4
<1>6. CASE e.action = "add"
  <2>1. w \in (IF Active(e.subject) /\ member[e.subject].leaf = e.leaf
               THEN {[i \in {e.leaf} |-> e.subject]} ELSE {<<>>})
    BY <1>6 DEF LeafWrites
  <2>2. CASE Active(e.subject) /\ member[e.subject].leaf = e.leaf
    <3>1. w = [i \in {e.leaf} |-> e.subject]
      BY <2>1, <2>2
    <3>2. DOMAIN w = {e.leaf} /\ w[e.leaf] = e.subject
      BY <3>1
    <3>3. Sits(member, e.subject, e.leaf)
      BY <2>2 DEF Sits, Active
    <3> HIDE DEF e
    <3> QED BY <1>3, <1>6, <3>2, <3>3
  <2>3. CASE ~(Active(e.subject) /\ member[e.subject].leaf = e.leaf)
    <3>1. w = <<>>
      BY <2>1, <2>3
    <3>2. DOMAIN w = {}
      BY <3>1
    <3>3. \A v \in Users : ~Sits(member, v, e.leaf)
      BY <1>3, <2>3 DEF Sits, Active
    <3> HIDE DEF e
    <3> QED BY <1>6, <3>2, <3>3
  <2> QED BY <2>2, <2>3
<1>7. CASE e.action \notin {"create", "add"}
  <2>1. w \in {[i \in {e.leaf} |-> Nobody]}
    BY <1>7 DEF LeafWrites
  <2>2. DOMAIN w = {e.leaf} /\ w[e.leaf] = Nobody
    BY <2>1
  <2> HIDE DEF e
  <2> QED BY <1>2, <1>3, <1>7, <2>2
<1> QED BY <1>5, <1>6, <1>7

(* A confirmation has seen every transaction that could correct its event.  *)
LEMMA ConfirmReadSeats ==
    ASSUME ConfirmIsSlow, TypesInv, SeatInv, NEW s \in Slots, NEW k \in DOMAIN events, ConfirmRead(s, k)
    PROVE  SeatInv'
<1> DEFINE j(w) == [op |-> "confirm", seen |-> Now, event |-> k, leaves |-> w, flag |-> flag,
                    inserts |-> {i \in DOMAIN w : leaf[i] = Absent}]
<1>1. PICK w \in LeafWrites(k) : Read(s, j(w))
  BY DEF ConfirmRead
<1>2. /\ UNCHANGED <<member, capacity, events, treeVars>> /\ events[k].chain = "submitted"
      /\ \A r \in Slots : job[r] # Idle => job[r].seen >= k
  BY DEF ConfirmRead
<1>3. j(w).op = "confirm" /\ j(w).seen = Now /\ j(w).event = k /\ j(w).leaves = w
  OBVIOUS
<1> HIDE DEF j
<1>4. JobHolds(j(w), member, events)
  BY <1>2, <1>3, LeafWritesHold DEF JobHolds
<1>5. k <= Now
  BY TypeFacts
<1>6. \A r \in Slots : job[r].op # "idle" => k <= job[r].seen
  <2> SUFFICES ASSUME NEW r \in Slots, job[r].op # "idle" PROVE k <= job[r].seen
    OBVIOUS
  <2>1. job[r].seen >= k /\ job[r].seen \in Nat /\ k \in Nat
    BY <1>2, JobShape, TypeFacts DEF Idle
  <2> QED BY <2>1
<1> QED BY <1>1, <1>2, <1>3, <1>4, <1>5, <1>6, ReadSeats

(* A commit takes only events that are applied to the tree.                 *)
LEMMA CommitReadSeats ==
    ASSUME TypesInv, SeatInv, NEW s \in Slots, NEW u \in Users, CommitRead(s, u)
    PROVE  SeatInv'
<1> DEFINE j == [op |-> "commit", seen |-> Now, by |-> u, epoch |-> epoch + 1, flag |-> flag,
                 events |-> Requested, held |-> HoldersAfter(TreePlan(u)),
                 blanks |-> TreePlan(u).blanks, root |-> Root(capacity)]
<1>1. Read(s, j) /\ UNCHANGED <<member, capacity, events, treeVars>>
  BY CommitReadIs
<1>2. j.op = "commit" /\ j.seen = Now /\ j.events = Requested
  OBVIOUS
<1> HIDE DEF j
<1>3. JobHolds(j, member, events)
  BY <1>2 DEF JobHolds, Requested
<1> QED BY <1>1, <1>2, <1>3, ReadSeats

(* A commit of keys moves nobody.                                           *)
LEMMA CommitWriteSeats ==
    ASSUME TypesInv, SeatInv, NEW s \in Slots, CommitWrite(s)
    PROVE  SeatInv'
<1>1. /\ job[s].op = "commit" /\ Done(s) /\ UNCHANGED <<member, leaf>>
      /\ \/ events' = events
         \/ events' = [k \in DOMAIN events |->
                 IF k \in job[s].events THEN [events[k] EXCEPT !.rotation = "done"] ELSE events[k]]
  BY DEF CommitWrite
<1>2. \A r \in Slots : job'[r] = job[r] \/ job'[r] = Idle
  BY <1>1, DoneIs DEF TypesInv
<1>3. \A k \in job[s].events : events[k].rotation # "waiting"
  BY <1>1 DEF SeatInv, JobHolds
<1>4. DOMAIN events' = DOMAIN events
  BY <1>1
<1>5. ASSUME NEW k \in DOMAIN events
      PROVE  /\ SameEvent(events, events', k) /\ events'[k].chain = events[k].chain
             /\ events'[k].rotation = "waiting" <=> events[k].rotation = "waiting"
  <2>1. events[k] \in EventRecords
    BY TypeFacts
  <2>2. CASE events'[k] = events[k]
    BY <2>2, <1>4 DEF SameEvent
  <2>3. CASE events'[k] = [events[k] EXCEPT !.rotation = "done"] /\ k \in job[s].events
    BY <2>1, <2>3, <1>3, <1>4 DEF EventRecords, SameEvent
  <2> QED BY <1>1, <2>2, <2>3
<1>6. Answered(events')
  BY <1>4, <1>5 DEF SeatInv, Answered
<1>7. member' = member /\ leaf' = leaf
  BY <1>1
<1> QED BY <1>2, <1>4, <1>5, <1>6, <1>7, QuietSeats

(* A new event waits, and changes nothing about the others.                 *)
LEMMA AppendSeats ==
    ASSUME TypesInv, NEW action \in Actions \ {"create"}, NEW subject \in Users, NEW i \in Leaves,
           events' = Append(events, Event(action, subject, i))
    PROVE  /\ WaitingIn(events') = WaitingIn(events) \union {Now + 1}
           /\ \A k \in DOMAIN events : SameEvent(events, events', k) /\ events'[k] = events[k]
           /\ events'[Now + 1].action = action /\ events'[Now + 1].subject = subject /\ events'[Now + 1].leaf = i
           /\ DOMAIN events' = DOMAIN events \union {Now + 1}
           /\ Answered(events) => Answered(events')
<1> DEFINE e == Event(action, subject, i)
<1>1. /\ DOMAIN events' = DOMAIN events \union {Now + 1}
      /\ Now + 1 \notin DOMAIN events
      /\ \A k \in DOMAIN events : events'[k] = events[k]
      /\ events'[Now + 1] = e
  BY AppendIs
<1>2. e.action = action /\ e.subject = subject /\ e.leaf = i /\ e.rotation = "waiting"
  BY DEF Event
<1> HIDE DEF e
<1>3. WaitingIn(events') = WaitingIn(events) \union {Now + 1}
  BY <1>1, <1>2 DEF WaitingIn
<1>4. \A k \in DOMAIN events : SameEvent(events, events', k)
  BY <1>1 DEF SameEvent
<1>5. Answered(events) => Answered(events')
  BY <1>1, <1>2 DEF Answered
<1> QED BY <1>1, <1>2, <1>3, <1>4, <1>5

(* Who is added gets a seat, and an event that waits says so.               *)
LEMMA AddWriteSeats ==
    ASSUME TypesInv, SeatInv, NEW s \in Slots, AddWrite(s)
    PROVE  SeatInv'
<1>1. /\ job[s].op = "add" /\ Done(s) /\ leaf' = leaf
      /\ \/ UNCHANGED <<member, events>>
         \/ /\ member' = [member EXCEPT ![job[s].subject] =
                            [status |-> "in", role |-> "member", leaf |-> job[s].leaf]]
            /\ events' = Append(events, Event("add", job[s].subject, job[s].leaf))
  BY DEF AddWrite, treeVars
<1>2. \A r \in Slots : job'[r] = IF r = s THEN Idle ELSE job[r]
  BY <1>1, DoneIs DEF TypesInv
<1>3. CASE UNCHANGED <<member, events>>
  <2>1. /\ Answered(events')
        /\ \A k \in DOMAIN events : SameEvent(events, events', k)
        /\ \A k \in DOMAIN events : events'[k].rotation = "waiting" <=> events[k].rotation = "waiting"
    BY <1>3 DEF SeatInv, SameEvent
  <2> QED BY <2>1, <1>1, <1>2, <1>3, QuietSeats
<1>4. CASE /\ member' = [member EXCEPT ![job[s].subject] =
                            [status |-> "in", role |-> "member", leaf |-> job[s].leaf]]
           /\ events' = Append(events, Event("add", job[s].subject, job[s].leaf))
  <2>1. PICK v \in Users : v = job[s].subject
    BY <1>1, JobShape
  <2>2. PICK l \in Leaves : l = job[s].leaf
    BY <1>1, JobShape
  <2>3. \A u \in Users : IF u = v THEN member'[u].status = "in" /\ member'[u].leaf = l ELSE member'[u] = member[u]
    BY <1>4, <2>1, <2>2 DEF TypesInv, TypeOK
  <2>4. /\ WaitingIn(events') = WaitingIn(events) \union {Now + 1}
        /\ \A k \in DOMAIN events : SameEvent(events, events', k) /\ events'[k] = events[k]
        /\ events'[Now + 1].action = "add" /\ events'[Now + 1].subject = v /\ events'[Now + 1].leaf = l
        /\ Answered(events')
    BY <1>4, <2>1, <2>2, AppendSeats DEF Actions, SeatInv
  <2>5. /\ member[v].status # "in" /\ \A u \in Users : ~Sits(member, u, l)
        /\ \A k \in WaitingIn(events) : events[k].leaf # l
    BY <1>1, <2>1, <2>2 DEF SeatInv, JobHolds, AddHolds
  <2>6. \A u \in Users, i \in Leaves : Sits(member', u, i) <=> Sits(member, u, i) \/ (u = v /\ i = l)
    BY <2>3, <2>5 DEF Sits
  <2>7. \A k \in WaitingIn(events) : k \in DOMAIN events
    BY DEF WaitingIn
  <2>8. SeatsApart(member')
    BY <2>5, <2>6 DEF SeatInv, SeatsApart
  <2>9. SeatsNamed(member', events')
    <3> SUFFICES ASSUME NEW k \in WaitingIn(events'), NEW u \in Users, Sits(member', u, events'[k].leaf)
                 PROVE  events'[k].subject = u /\ events'[k].action = "add"
      BY DEF SeatsNamed
    <3>1. CASE k = Now + 1
      BY <3>1, <2>3, <2>4, <2>5, <2>6
    <3>2. CASE k # Now + 1
      <4>1. k \in WaitingIn(events) /\ events'[k] = events[k] /\ events[k].leaf # l
        BY <3>2, <2>4, <2>5, <2>7
      <4>2. Sits(member, u, events[k].leaf)
        BY <4>1, <2>3 DEF Sits
      <4> QED BY <4>1, <4>2 DEF SeatInv, SeatsNamed
    <3> QED BY <3>1, <3>2
  <2>10. LeavesHeld(member', events', leaf')
    <3> SUFFICES ASSUME NEW i \in Leaves, leaf[i] \in Users
                 PROVE  Sits(member', leaf[i], i) \/ Leaving(events', WaitingIn(events'), leaf[i], i)
      BY <1>1 DEF LeavesHeld
    <3>1. CASE Sits(member, leaf[i], i)
      BY <3>1, <2>6
    <3>2. CASE Leaving(events, WaitingIn(events), leaf[i], i)
      BY <3>2, <2>4, <2>7 DEF Leaving, Removes
    <3> QED BY <3>1, <3>2 DEF SeatInv, LeavesHeld
  <2>11. LeavesSet(member', events', leaf')
    <3> SUFFICES ASSUME NEW u \in Users, NEW i \in Leaves, Sits(member', u, i),
                        \A k \in WaitingIn(events') : ~About(events', k, u, i)
                 PROVE  leaf[i] = u
      BY <1>1 DEF LeavesSet
    <3>1. ~(u = v /\ i = l)
      BY <2>4 DEF About
    <3>2. Sits(member, u, i)
      BY <3>1, <2>6
    <3>3. \A k \in WaitingIn(events) : ~About(events, k, u, i)
      BY <2>4, <2>7 DEF About
    <3> QED BY <3>2, <3>3 DEF SeatInv, LeavesSet
  <2>12. ASSUME NEW r \in Slots PROVE JobHolds(job'[r], member', events')
    <3>1. CASE r = s \/ job[r].op = "idle"
      <4>1. job'[r] = Idle
        BY <3>1, <1>2, JobKinds DEF TypesInv
      <4> QED BY <4>1 DEF JobHolds, Idle
    <3>2. CASE r # s /\ job[r].op # "idle"
      <4> DEFINE j == job[r]
      <4>1. job'[r] = j /\ j.op # "add" /\ JobHolds(j, member, events)
        BY <3>2, <1>1, <1>2 DEF TypesInv, JobTypes, SeatInv
      <4>2. /\ j.op = "remove" => j.subject \in Users /\ j.leaf \in Leaves /\ j.subject # v
            /\ j.op = "confirm" => j.event \in DOMAIN events /\ \A i \in DOMAIN j.leaves : i \in Leaves
            /\ j.op = "commit" => \A k \in j.events : k \in DOMAIN events
            /\ j.seen \in Nat /\ Now + 1 > j.seen
        BY <3>2, <1>1, <2>1, JobShape DEF SeatInv, JobsApart
      <4> HIDE DEF j
      <4>3. \A k \in Later(WaitingIn(events), j.seen) : k \in WaitingIn(events')
        BY <2>4 DEF Later
      <4>4. Now + 1 \in Later(WaitingIn(events'), j.seen)
        BY <2>4, <4>2 DEF Later
      <4>5. \A u \in Users, i \in Leaves : Sits(member', u, i) =>
              \/ Sits(member, u, i)
              \/ \E k \in Later(WaitingIn(events'), j.seen) : events'[k].subject = u /\ events'[k].leaf = i
        BY <2>4, <2>6, <4>4
      <4>6. \A u \in Users, i \in Leaves : Sits(member, u, i) => Sits(member', u, i)
        BY <2>6
      <4>7. j.op = "remove" /\ member[j.subject].status # "in" => member'[j.subject].status # "in"
        BY <2>3, <4>2
      <4>8. j.op = "commit" => \A k \in j.events : events'[k].rotation # "waiting"
        BY <4>1, <4>2, <2>4 DEF JobHolds
      <4>9. \A k \in DOMAIN events : SameEvent(events, events', k)
        BY <2>4
      <4>10. JobHolds(j, member', events')
        <5>1. /\ j.op = "remove" => j.subject \in Users /\ j.leaf \in Leaves
              /\ j.op = "confirm" => j.event \in DOMAIN events /\ \A i \in DOMAIN j.leaves : i \in Leaves
              /\ j.op = "add" => AddHolds(j, member', events')
              /\ JobHolds(j, member, events)
          BY <4>1, <4>2
        <5> QED BY <5>1, <4>3, <4>5, <4>6, <4>7, <4>8, <4>9, JobCarries
      <4> QED BY <4>1, <4>10
    <3> QED BY <3>1, <3>2
  <2>13. JobsApart'
    BY <1>2, EndApart
  <2> QED BY <2>4, <2>8, <2>9, <2>10, <2>11, <2>12, <2>13 DEF SeatInv
<1> QED BY <1>1, <1>3, <1>4

(* Who is removed loses the seat, and an event that waits says so.          *)
LEMMA RemoveWriteSeats ==
    ASSUME TypesInv, SeatInv, NEW s \in Slots, RemoveWrite(s)
    PROVE  SeatInv'
<1>1. /\ job[s].op = "remove" /\ Done(s) /\ leaf' = leaf
      /\ member' = [u \in Users |->
             IF u = job[s].subject THEN [member[u] EXCEPT !.status = "left", !.leaf = NoLeaf]
             ELSE IF u = job[s].heir THEN [member[u] EXCEPT !.role = "owner"]
             ELSE member[u]]
      /\ events' = Append(events, Event(job[s].action, job[s].subject, job[s].leaf))
  BY DEF RemoveWrite, treeVars
<1>2. \A r \in Slots : job'[r] = IF r = s THEN Idle ELSE job[r]
  BY <1>1, DoneIs DEF TypesInv
<1>3. PICK v \in Users : v = job[s].subject
  BY <1>1, JobShape
<1>4. PICK l \in Leaves : l = job[s].leaf
  BY <1>1, JobShape
<1>5. PICK act \in {"remove", "leave"} : act = job[s].action
  BY <1>1, JobShape
<1>6. \A u \in Users : IF u = v THEN member'[u].status = "left"
                       ELSE member'[u].status = member[u].status /\ member'[u].leaf = member[u].leaf
  <2> SUFFICES ASSUME NEW u \in Users
               PROVE  IF u = v THEN member'[u].status = "left"
                      ELSE member'[u].status = member[u].status /\ member'[u].leaf = member[u].leaf
    OBVIOUS
  <2>1. member[u] \in [status : {"never", "in", "left"}, role : {"owner", "member"}, leaf : Leaves \union {NoLeaf}]
    BY DEF TypesInv, TypeOK
  <2>2. member'[u] = IF u = v THEN [member[u] EXCEPT !.status = "left", !.leaf = NoLeaf]
                     ELSE IF u = job[s].heir THEN [member[u] EXCEPT !.role = "owner"]
                     ELSE member[u]
    BY <1>1, <1>3
  <2> QED BY <2>1, <2>2
<1>7. /\ WaitingIn(events') = WaitingIn(events) \union {Now + 1}
      /\ \A k \in DOMAIN events : SameEvent(events, events', k) /\ events'[k] = events[k]
      /\ events'[Now + 1].action = act /\ events'[Now + 1].subject = v /\ events'[Now + 1].leaf = l
      /\ Answered(events')
  <2>1. act \in Actions \ {"create"}
    BY DEF Actions
  <2> QED BY <2>1, <1>1, <1>3, <1>4, <1>5, AppendSeats DEF SeatInv
<1>8. Sits(member, v, l) \/ (member[v].status # "in" /\ \E k \in WaitingIn(events) : Removes(events, k, v, l))
  BY <1>1, <1>3, <1>4 DEF SeatInv, JobHolds, RemoveHolds, Leaving, Later
<1>9. \A u \in Users, i \in Leaves : Sits(member', u, i) <=> Sits(member, u, i) /\ u # v
  BY <1>6 DEF Sits
<1>10. \A i \in Leaves : Sits(member, v, i) => i = l
  BY <1>8 DEF Sits
<1>11. \A u \in Users : ~Sits(member', u, l)
  <2> SUFFICES ASSUME NEW u \in Users, Sits(member, u, l), u # v PROVE FALSE
    BY <1>9
  <2>1. CASE Sits(member, v, l)
    BY <2>1 DEF SeatInv, SeatsApart
  <2>2. CASE \E k \in WaitingIn(events) : Removes(events, k, v, l)
    BY <2>2 DEF SeatInv, SeatsNamed, Removes
  <2> QED BY <1>8, <2>1, <2>2
<1>12. \A k \in WaitingIn(events) : k \in DOMAIN events
  BY DEF WaitingIn
<1>13. Removes(events', Now + 1, v, l)
  BY <1>7 DEF Removes
<1>14. SeatsApart(member')
  BY <1>9 DEF SeatInv, SeatsApart
<1>15. SeatsNamed(member', events')
  <2> SUFFICES ASSUME NEW k \in WaitingIn(events'), NEW u \in Users, Sits(member', u, events'[k].leaf)
               PROVE  events'[k].subject = u /\ events'[k].action = "add"
    BY DEF SeatsNamed
  <2>1. k # Now + 1
    BY <1>7, <1>11
  <2>2. k \in WaitingIn(events) /\ events'[k] = events[k]
    BY <2>1, <1>7, <1>12
  <2>3. Sits(member, u, events[k].leaf)
    BY <2>2, <1>6 DEF Sits
  <2> QED BY <2>2, <2>3 DEF SeatInv, SeatsNamed
<1>16. LeavesHeld(member', events', leaf')
  <2> SUFFICES ASSUME NEW i \in Leaves, leaf[i] \in Users
               PROVE  Sits(member', leaf[i], i) \/ Leaving(events', WaitingIn(events'), leaf[i], i)
    BY <1>1 DEF LeavesHeld
  <2>1. CASE Sits(member, leaf[i], i) /\ leaf[i] # v
    BY <2>1, <1>9
  <2>2. CASE Sits(member, leaf[i], i) /\ leaf[i] = v
    BY <2>2, <1>7, <1>10, <1>13 DEF Leaving
  <2>3. CASE Leaving(events, WaitingIn(events), leaf[i], i)
    BY <2>3, <1>7, <1>12 DEF Leaving, Removes
  <2> QED BY <2>1, <2>2, <2>3 DEF SeatInv, LeavesHeld
<1>17. LeavesSet(member', events', leaf')
  <2> SUFFICES ASSUME NEW u \in Users, NEW i \in Leaves, Sits(member', u, i),
                      \A k \in WaitingIn(events') : ~About(events', k, u, i)
               PROVE  leaf[i] = u
    BY <1>1 DEF LeavesSet
  <2>1. Sits(member, u, i)
    BY <1>9
  <2>2. \A k \in WaitingIn(events) : ~About(events, k, u, i)
    BY <1>7, <1>12 DEF About
  <2> QED BY <2>1, <2>2 DEF SeatInv, LeavesSet
<1>18. ASSUME NEW r \in Slots PROVE JobHolds(job'[r], member', events')
  <2>1. CASE r = s \/ job[r].op = "idle"
    <3>1. job'[r] = Idle
      BY <2>1, <1>2, JobKinds DEF TypesInv
    <3> QED BY <3>1 DEF JobHolds, Idle
  <2>2. CASE r # s /\ job[r].op # "idle"
    <3> DEFINE j == job[r]
    <3>1. job'[r] = j /\ JobHolds(j, member, events)
      BY <2>2, <1>2 DEF SeatInv
    <3>2. /\ j.op = "add" => j.subject \in Users /\ j.leaf \in Leaves
          /\ j.op = "remove" => j.subject \in Users /\ j.leaf \in Leaves
          /\ j.op = "confirm" => j.event \in DOMAIN events /\ \A i \in DOMAIN j.leaves : i \in Leaves
          /\ j.op = "commit" => \A k \in j.events : k \in DOMAIN events
          /\ j.seen \in Nat /\ Now + 1 > j.seen
      BY <2>2, JobShape
    <3> HIDE DEF j
    <3>3. \A k \in Later(WaitingIn(events), j.seen) : k \in WaitingIn(events')
      BY <1>7 DEF Later
    <3>4. Now + 1 \in Later(WaitingIn(events'), j.seen)
      BY <1>7, <3>2 DEF Later
    <3>5. \A u \in Users, i \in Leaves : Sits(member, u, i) =>
              \/ Sits(member', u, i)
              \/ member'[u].status # "in" /\ Leaving(events', Later(WaitingIn(events'), j.seen), u, i)
      <4> SUFFICES ASSUME NEW u \in Users, NEW i \in Leaves, Sits(member, u, i), u = v
                   PROVE  member'[u].status # "in" /\ Leaving(events', Later(WaitingIn(events'), j.seen), u, i)
        BY <1>9
      <4>1. i = l
        BY <1>10
      <4> QED BY <4>1, <3>4, <1>6, <1>13 DEF Leaving
    <3>6. \A u \in Users, i \in Leaves : Sits(member', u, i) => Sits(member, u, i)
      BY <1>9
    <3>7. \A u \in Users : member[u].status # "in" => member'[u].status # "in"
      BY <1>6
    <3>8. j.op = "add" => AddHolds(j, member', events')
      <4> SUFFICES ASSUME j.op = "add" PROVE AddHolds(j, member', events')
        OBVIOUS
      <4>1. AddHolds(j, member, events)
        BY <3>1 DEF JobHolds
      <4>2. l # j.leaf
        BY <4>1, <1>8 DEF AddHolds, Removes
      <4>3. \A k \in WaitingIn(events') : events'[k].leaf # j.leaf
        BY <4>1, <4>2, <1>7, <1>12 DEF AddHolds
      <4> QED BY <4>1, <4>3, <3>2, <3>6, <3>7 DEF AddHolds
    <3>9. j.op = "commit" => \A k \in j.events : events'[k].rotation # "waiting"
      BY <3>1, <3>2, <1>7 DEF JobHolds
    <3>10. JobHolds(j, member', events')
      BY <3>1, <3>2, <3>3, <3>5, <3>6, <3>7, <3>8, <3>9, <1>7, JobCarries
    <3> QED BY <3>1, <3>10
  <2> QED BY <2>1, <2>2
<1>19. JobsApart'
  BY <1>2, EndApart
<1> QED BY <1>7, <1>14, <1>15, <1>16, <1>17, <1>18, <1>19 DEF SeatInv

(* What a confirmation writes to the leaves is what the members are, or an event corrects it. *)
LEMMA ConfirmWriteSeats ==
    ASSUME TypesInv, SeatInv, NEW s \in Slots, ConfirmWrite(s)
    PROVE  SeatInv'
<1>1. /\ job[s].op = "confirm" /\ Done(s) /\ member' = member
      /\ \/ UNCHANGED <<events, leaf>>
         \/ /\ events' = [events EXCEPT ![job[s].event].chain = "confirmed", ![job[s].event].rotation = "requested"]
            /\ leaf' = [i \in Leaves |-> IF i \in DOMAIN job[s].leaves THEN job[s].leaves[i] ELSE leaf[i]]
  BY DEF ConfirmWrite
<1>2. \A r \in Slots : job'[r] = IF r = s THEN Idle ELSE job[r]
  BY <1>1, DoneIs DEF TypesInv
<1>3. CASE UNCHANGED <<events, leaf>>
  <2>1. /\ Answered(events')
        /\ \A k \in DOMAIN events : SameEvent(events, events', k)
        /\ \A k \in DOMAIN events : events'[k].rotation = "waiting" <=> events[k].rotation = "waiting"
    BY <1>3 DEF SeatInv, SameEvent
  <2> QED BY <2>1, <1>1, <1>2, <1>3, QuietSeats
<1>4. CASE /\ events' = [events EXCEPT ![job[s].event].chain = "confirmed", ![job[s].event].rotation = "requested"]
           /\ leaf' = [i \in Leaves |-> IF i \in DOMAIN job[s].leaves THEN job[s].leaves[i] ELSE leaf[i]]
  <2> DEFINE c == job[s]
             x == c.event
  <2>1. x \in DOMAIN events /\ ConfirmHolds(c, member, events) /\ c.op = "confirm"
        /\ \A i \in DOMAIN c.leaves : i \in Leaves
    BY <1>1, JobShape DEF SeatInv, JobHolds
  <2>2. \A k \in DOMAIN events : k \in Nat /\ events[k] \in EventRecords
    BY TypeFacts
  <2>3. \A r \in Slots : job[r].op # "idle" => x <= job[r].seen /\ job[r].seen \in Nat
    BY <2>1, JobShape DEF SeatInv, JobsApart
  <2>4. \A i \in Leaves : leaf'[i] = IF i \in DOMAIN c.leaves THEN c.leaves[i] ELSE leaf[i]
    BY <1>4
  <2>5. /\ DOMAIN events' = DOMAIN events
        /\ \A k \in DOMAIN events : k # x => events'[k] = events[k]
        /\ events'[x] = [events[x] EXCEPT !.chain = "confirmed", !.rotation = "requested"]
    BY <1>4, <2>1
  <2> HIDE DEF c, x
  <2> DEFINE f == events'[x]
  <2>5a. /\ f.action = events[x].action /\ f.subject = events[x].subject /\ f.leaf = events[x].leaf
        /\ f.rotation = "requested" /\ f.chain = "confirmed"
    <3>1. events[x] \in EventRecords
      BY <2>1, <2>2
    <3> QED BY <3>1, <2>5 DEF EventRecords
  <2> HIDE DEF f
  <2>6. \A k \in DOMAIN events : SameEvent(events, events', k)
    <3> SUFFICES ASSUME NEW k \in DOMAIN events PROVE SameEvent(events, events', k)
      OBVIOUS
    <3>1. CASE k = x
      BY <3>1, <2>5a, <2>5 DEF SameEvent, f
    <3>2. CASE k # x
      BY <3>2, <2>5 DEF SameEvent
    <3> QED BY <3>1, <3>2
  <2>7. WaitingIn(events') = WaitingIn(events) \ {x} /\ events'[x].rotation = "requested" /\ events'[x].chain = "confirmed"
    <3>1. events'[x].rotation = "requested" /\ events'[x].chain = "confirmed"
      BY <2>5a DEF f
    <3> QED BY <3>1, <2>1, <2>5 DEF WaitingIn
  <2>8. \A k \in WaitingIn(events') : k \in WaitingIn(events) /\ k \in DOMAIN events /\ SameEvent(events, events', k)
    BY <2>6, <2>7 DEF WaitingIn
  <2>9. ASSUME NEW r \in Slots, job[r].op # "idle", NEW k \in Later(WaitingIn(events), job[r].seen)
        PROVE  k \in WaitingIn(events') /\ k # x /\ k \in WaitingIn(events)
    <3>1. k \in WaitingIn(events) /\ k > job[r].seen
      BY DEF Later
    <3>2. k \in Nat /\ x \in Nat
      BY <3>1, <2>1, <2>2 DEF WaitingIn
    <3>3. k # x
      BY <2>3, <2>9, <3>1, <3>2
    <3> QED BY <3>1, <3>3, <2>7
  <2>10. \A k \in Later(WaitingIn(events), c.seen) : k \in WaitingIn(events') /\ SameEvent(events, events', k)
    <3>1. c = job[s] /\ job[s].op # "idle"
      BY <1>1 DEF c
    <3> QED BY <3>1, <2>9, <2>8
  <2>11. SeatsNamed(member, events')
    BY <2>8 DEF SeatInv, SeatsNamed, SameEvent
  <2>12. Answered(events')
    <3> SUFFICES ASSUME NEW k \in DOMAIN events, events'[k].chain \in {"pending", "submitted"}
                 PROVE  events'[k].rotation = "waiting"
      BY <2>5 DEF Answered
    <3>1. k # x
      BY <2>7
    <3> QED BY <3>1, <2>5 DEF SeatInv, Answered
  <2>13. LeavesHeld(member, events', leaf')
    <3> SUFFICES ASSUME NEW i \in Leaves, leaf'[i] \in Users
                 PROVE  Sits(member, leaf'[i], i) \/ Leaving(events', WaitingIn(events'), leaf'[i], i)
      BY DEF LeavesHeld
    <3>1. CASE i \in DOMAIN c.leaves
      <4>1. leaf'[i] = c.leaves[i]
        BY <3>1, <2>4
      <4>2. Sits(member, c.leaves[i], i) \/ Leaving(events, Later(WaitingIn(events), c.seen), c.leaves[i], i)
        BY <3>1, <4>1, <2>1 DEF ConfirmHolds
      <4> QED BY <4>1, <4>2, <2>10 DEF Leaving, Removes, SameEvent
    <3>2. CASE i \notin DOMAIN c.leaves
      <4>1. leaf'[i] = leaf[i]
        BY <3>2, <2>4
      <4>2. CASE Sits(member, leaf[i], i)
        BY <4>1, <4>2
      <4>3. CASE Leaving(events, WaitingIn(events), leaf[i], i)
        <5>1. PICK k \in WaitingIn(events) : Removes(events, k, leaf[i], i)
          BY <4>3 DEF Leaving
        <5>2. k # x
          <6> SUFFICES ASSUME k = x PROVE FALSE
            OBVIOUS
          <6>1. events[x].action \in {"remove", "leave"} /\ events[x].leaf = i
            BY <5>1 DEF Removes
          <6>2. i \in DOMAIN c.leaves
            BY <6>1, <2>1 DEF ConfirmHolds, x
          <6> QED BY <6>2, <3>2
        <5>3. k \in WaitingIn(events')
          BY <5>2, <2>7
        <5>4. Removes(events', k, leaf[i], i)
          BY <5>1, <5>3, <2>8 DEF Removes, SameEvent
        <5> QED BY <5>3, <5>4, <4>1 DEF Leaving
      <4> QED BY <4>1, <4>2, <4>3 DEF SeatInv, LeavesHeld
    <3> QED BY <3>1, <3>2
  <2>14. LeavesSet(member, events', leaf')
    <3> SUFFICES ASSUME NEW u \in Users, NEW i \in Leaves, Sits(member, u, i),
                        \A k \in WaitingIn(events') : ~About(events', k, u, i)
                 PROVE  leaf'[i] = u
      BY DEF LeavesSet
    <3>1. CASE events[x].action = "create" \/ events[x].leaf = i
      <4>1. \/ i \in DOMAIN c.leaves /\ c.leaves[i] = u
            \/ \E k \in Later(WaitingIn(events), c.seen) : events[k].subject = u /\ events[k].leaf = i
        BY <3>1, <2>1 DEF ConfirmHolds, x
      <4>2. ~ \E k \in Later(WaitingIn(events), c.seen) : events[k].subject = u /\ events[k].leaf = i
        BY <2>10 DEF About, SameEvent
      <4> QED BY <4>1, <4>2, <2>4
    <3>2. CASE ~(events[x].action = "create" \/ events[x].leaf = i)
      <4>1. i \notin DOMAIN c.leaves
        BY <3>2, <2>1 DEF ConfirmHolds, x
      <4>2. \A k \in WaitingIn(events) : ~About(events, k, u, i)
        <5> SUFFICES ASSUME NEW k \in WaitingIn(events), About(events, k, u, i) PROVE FALSE
          OBVIOUS
        <5>1. k # x
          BY <3>2 DEF About
        <5>2. k \in WaitingIn(events')
          BY <5>1, <2>7
        <5> QED BY <5>2, <2>8 DEF About, SameEvent
      <4>3. leaf[i] = u
        BY <4>2 DEF SeatInv, LeavesSet
      <4> QED BY <4>1, <4>3, <2>4
    <3> QED BY <3>1, <3>2
  <2>15. ASSUME NEW r \in Slots PROVE JobHolds(job'[r], member, events')
    <3>1. CASE r = s \/ job[r].op = "idle"
      <4>1. job'[r] = Idle
        BY <3>1, <1>2, JobKinds DEF TypesInv
      <4> QED BY <4>1 DEF JobHolds, Idle
    <3>2. CASE r # s /\ job[r].op # "idle"
      <4> DEFINE j == job[r]
      <4>1. job'[r] = j /\ JobHolds(j, member, events)
        BY <3>2, <1>2 DEF SeatInv
      <4>2. /\ j.op = "remove" => j.subject \in Users /\ j.leaf \in Leaves
            /\ j.op = "confirm" => j.event \in DOMAIN events /\ \A i \in DOMAIN j.leaves : i \in Leaves
            /\ j.op = "commit" => \A k \in j.events : k \in DOMAIN events
        BY <3>2, JobShape
      <4>3. \A k \in Later(WaitingIn(events), j.seen) : k \in WaitingIn(events')
        BY <3>2, <2>9
      <4> HIDE DEF j
      <4>4. j.op = "add" => AddHolds(j, member, events')
        BY <4>1, <2>8 DEF JobHolds, AddHolds, SameEvent
      <4>5. j.op = "commit" => \A k \in j.events : events'[k].rotation # "waiting"
        BY <4>1, <4>2, <2>5, <2>7 DEF JobHolds
      <4>6. JobHolds(j, member, events')
        BY <4>1, <4>2, <4>3, <4>4, <4>5, <2>6, JobCarries
      <4> QED BY <4>1, <4>6
    <3> QED BY <3>1, <3>2
  <2>16. JobsApart'
    BY <1>2, EndApart
  <2> QED BY <1>1, <2>11, <2>12, <2>13, <2>14, <2>15, <2>16 DEF SeatInv
<1> QED BY <1>1, <1>3, <1>4

(***************************************************************************)
(* The keys: who holds the key of a node, and who does not                 *)
(***************************************************************************)
(* Leaf i is below node n.                                                  *)
Above(n, i) == LeafNode(i) \in Subtree(n)
UndoneIn(ev) == {k \in DOMAIN ev : ev[k].rotation # "done"}
(* Nothing in K is about u at leaf i.                                       *)
Settled(ev, K, u, i) == \A k \in K : ~About(ev, k, u, i)
(* Who may hold the key of a node: a user with a leaf below it, now or      *)
(* until one of the removals in K is rotated, or one who was orphaned.      *)
Entitled(mem, ev, orph, u, n, K) ==
    u \in orph \/ \E i \in Leaves : Above(n, i) /\ (Sits(mem, u, i) \/ Leaving(ev, K, u, i))

NodesHeld(mem, ev, orph, nod) ==
    \A n \in DOMAIN nod : \A u \in nod[n].holders : Entitled(mem, ev, orph, u, n, UndoneIn(ev))
NodesOpen(mem, ev, nod) ==
    \A n \in DOMAIN nod, u \in Users, i \in Leaves :
        nod[n] # NoKey /\ Above(n, i) /\ Sits(mem, u, i) /\ Settled(ev, UndoneIn(ev), u, i)
            => u \in nod[n].holders
SecretHeld(mem, ev, orph, sec) ==
    \A u \in sec : u \in orph \/ \E i \in Leaves : Sits(mem, u, i) \/ Leaving(ev, UndoneIn(ev), u, i)
SecretOpen(mem, ev, ep, sec) ==
    \A u \in Users, i \in Leaves :
        ep > 0 /\ Sits(mem, u, i) /\ Settled(ev, UndoneIn(ev), u, i) => u \in sec

(* What a commit has read, as long as no other one has taken its epoch: the *)
(* plan has every key above a change; who will hold a fresh key is entitled *)
(* to it; and who sits below a key will hold it.                            *)
PlanCovers(j, ev, nod) ==
    \A k \in j.events, n \in DOMAIN nod, i \in Leaves :
        nod[n] # NoKey /\ Above(n, i) /\ (ev[k].action = "create" \/ ev[k].leaf = i)
            => n \in DOMAIN j.held \/ n \in j.blanks
PlanHeld(j, mem, ev, orph, nod) ==
    \A n \in DOMAIN j.held : \A u \in j.held[n] :
        \/ Entitled(mem, ev, orph, u, n, UndoneIn(ev) \ j.events)
        \/ \E b \in j.blanks : u \in nod[b].holders
PlanOpen(j, mem, ev, nod) ==
    \A u \in Users, i \in Leaves :
        Sits(mem, u, i) /\ Settled(ev, UndoneIn(ev) \ j.events, u, i) =>
            /\ u \in j.held[j.root]
            /\ \A n \in DOMAIN nod : Above(n, i) =>
                 /\ n \in DOMAIN j.held => u \in j.held[n]
                 /\ n \notin j.blanks
                 /\ nod[n] # NoKey /\ n \notin DOMAIN j.held => u \in nod[n].holders
CommitHolds(j, mem, ev, orph, nod) ==
    PlanCovers(j, ev, nod) /\ PlanHeld(j, mem, ev, orph, nod) /\ PlanOpen(j, mem, ev, nod)

KeysInv ==
    /\ NodesHeld(member, events, orphaned, node) /\ NodesOpen(member, events, node)
    /\ SecretHeld(member, events, orphaned, secret) /\ SecretOpen(member, events, epoch, secret)
    /\ \A s \in Slots : job[s].op = "commit" /\ job[s].epoch = epoch + 1 =>
         CommitHolds(job[s], member, events, orphaned, node)

(* Members and events move on: no event is forgotten, and who loses a leaf  *)
(* or gets one is named by a new event.                                     *)
Moves(mem, ev, mem2, ev2) ==
    /\ \A k \in DOMAIN ev : SameEvent(ev, ev2, k)
    /\ \A k \in UndoneIn(ev) : k \in UndoneIn(ev2)
    /\ \A u \in Users, i \in Leaves : Sits(mem, u, i) =>
         Sits(mem2, u, i) \/ \E k \in UndoneIn(ev2) \ DOMAIN ev : Removes(ev2, k, u, i)
    /\ \A u \in Users, i \in Leaves : Sits(mem2, u, i) =>
         Sits(mem, u, i) \/ \E k \in UndoneIn(ev2) \ DOMAIN ev : About(ev2, k, u, i)

(* A membership change takes no one off the list of the entitled.           *)
LEMMA EntitledCarries ==
    ASSUME NEW mem, NEW ev, NEW mem2, NEW ev2, Moves(mem, ev, mem2, ev2),
           NEW E, E \subseteq DOMAIN ev
    PROVE  /\ \A u \in Users, i \in Leaves : Sits(mem, u, i) \/ Leaving(ev, UndoneIn(ev) \ E, u, i) =>
                Sits(mem2, u, i) \/ Leaving(ev2, UndoneIn(ev2) \ E, u, i)
           /\ \A u \in Users, i \in Leaves : Sits(mem2, u, i) /\ Settled(ev2, UndoneIn(ev2) \ E, u, i) =>
                Sits(mem, u, i) /\ Settled(ev, UndoneIn(ev) \ E, u, i)
<1>1. \A k \in UndoneIn(ev) \ E : k \in UndoneIn(ev2) \ E /\ SameEvent(ev, ev2, k)
  BY DEF Moves, UndoneIn
<1>2. \A k \in UndoneIn(ev2) \ DOMAIN ev : k \in UndoneIn(ev2) \ E
  OBVIOUS
<1>3. ASSUME NEW u \in Users, NEW i \in Leaves, Sits(mem, u, i) \/ Leaving(ev, UndoneIn(ev) \ E, u, i)
      PROVE  Sits(mem2, u, i) \/ Leaving(ev2, UndoneIn(ev2) \ E, u, i)
  <2>1. CASE Sits(mem, u, i)
    BY <2>1, <1>2 DEF Moves, Leaving
  <2>2. CASE Leaving(ev, UndoneIn(ev) \ E, u, i)
    BY <2>2, <1>1 DEF Leaving, Removes, SameEvent
  <2> QED BY <1>3, <2>1, <2>2
<1>4. ASSUME NEW u \in Users, NEW i \in Leaves, Sits(mem2, u, i), Settled(ev2, UndoneIn(ev2) \ E, u, i)
      PROVE  Sits(mem, u, i) /\ Settled(ev, UndoneIn(ev) \ E, u, i)
  <2>1. Sits(mem, u, i)
    BY <1>2, <1>4 DEF Moves, Settled
  <2>2. Settled(ev, UndoneIn(ev) \ E, u, i)
    BY <1>1, <1>4 DEF Settled, About, SameEvent
  <2> QED BY <2>1, <2>2
<1> QED BY <1>3, <1>4

(* So what is known of the keys survives a membership change,               *)
LEMMA KeysCarry ==
    ASSUME NEW mem, NEW ev, NEW mem2, NEW ev2, Moves(mem, ev, mem2, ev2),
           NEW orph, NEW nod, NEW ep, NEW sec \in SUBSET Users, \A n \in DOMAIN nod : nod[n].holders \subseteq Users
    PROVE  /\ NodesHeld(mem, ev, orph, nod) => NodesHeld(mem2, ev2, orph, nod)
           /\ NodesOpen(mem, ev, nod) => NodesOpen(mem2, ev2, nod)
           /\ SecretHeld(mem, ev, orph, sec) => SecretHeld(mem2, ev2, orph, sec)
           /\ SecretOpen(mem, ev, ep, sec) => SecretOpen(mem2, ev2, ep, sec)
<1>1. UndoneIn(ev) \ {} = UndoneIn(ev) /\ UndoneIn(ev2) \ {} = UndoneIn(ev2)
  OBVIOUS
<1>2. /\ \A u \in Users, i \in Leaves : Sits(mem, u, i) \/ Leaving(ev, UndoneIn(ev), u, i) =>
                Sits(mem2, u, i) \/ Leaving(ev2, UndoneIn(ev2), u, i)
      /\ \A u \in Users, i \in Leaves : Sits(mem2, u, i) /\ Settled(ev2, UndoneIn(ev2), u, i) =>
                Sits(mem, u, i) /\ Settled(ev, UndoneIn(ev), u, i)
  <2>1. {} \subseteq DOMAIN ev
    OBVIOUS
  <2>2. /\ \A u \in Users, i \in Leaves : Sits(mem, u, i) \/ Leaving(ev, UndoneIn(ev) \ {}, u, i) =>
                Sits(mem2, u, i) \/ Leaving(ev2, UndoneIn(ev2) \ {}, u, i)
        /\ \A u \in Users, i \in Leaves : Sits(mem2, u, i) /\ Settled(ev2, UndoneIn(ev2) \ {}, u, i) =>
                Sits(mem, u, i) /\ Settled(ev, UndoneIn(ev) \ {}, u, i)
    BY <2>1, EntitledCarries
  <2> QED BY <1>1, <2>2
<1>3. NodesHeld(mem, ev, orph, nod) => NodesHeld(mem2, ev2, orph, nod)
  BY <1>2 DEF NodesHeld, Entitled
<1>4. NodesOpen(mem, ev, nod) => NodesOpen(mem2, ev2, nod)
  BY <1>2 DEF NodesOpen
<1>5. SecretHeld(mem, ev, orph, sec) => SecretHeld(mem2, ev2, orph, sec)
  BY <1>2 DEF SecretHeld
<1>6. SecretOpen(mem, ev, ep, sec) => SecretOpen(mem2, ev2, ep, sec)
  BY <1>2 DEF SecretOpen
<1> QED BY <1>3, <1>4, <1>5, <1>6

(* and so does what a commit in flight has read.                            *)
LEMMA CommitCarries ==
    ASSUME NEW mem, NEW ev, NEW mem2, NEW ev2, Moves(mem, ev, mem2, ev2),
           NEW j, NEW orph, NEW nod, CommitHolds(j, mem, ev, orph, nod), j.events \subseteq DOMAIN ev,
           \A n \in DOMAIN j.held : j.held[n] \subseteq Users
    PROVE  CommitHolds(j, mem2, ev2, orph, nod)
<1>1. /\ \A u \in Users, i \in Leaves : Sits(mem, u, i) \/ Leaving(ev, UndoneIn(ev) \ j.events, u, i) =>
                Sits(mem2, u, i) \/ Leaving(ev2, UndoneIn(ev2) \ j.events, u, i)
      /\ \A u \in Users, i \in Leaves : Sits(mem2, u, i) /\ Settled(ev2, UndoneIn(ev2) \ j.events, u, i) =>
                Sits(mem, u, i) /\ Settled(ev, UndoneIn(ev) \ j.events, u, i)
  BY EntitledCarries
<1>2. PlanCovers(j, ev2, nod)
  BY DEF CommitHolds, PlanCovers, Moves, SameEvent
<1>3. PlanHeld(j, mem2, ev2, orph, nod)
  <2> SUFFICES ASSUME NEW n \in DOMAIN j.held, NEW u \in j.held[n]
               PROVE  \/ Entitled(mem2, ev2, orph, u, n, UndoneIn(ev2) \ j.events)
                      \/ \E b \in j.blanks : u \in nod[b].holders
    BY DEF PlanHeld
  <2>1. u \in Users
    OBVIOUS
  <2>2. \/ Entitled(mem, ev, orph, u, n, UndoneIn(ev) \ j.events)
        \/ \E b \in j.blanks : u \in nod[b].holders
    BY DEF CommitHolds, PlanHeld
  <2> QED BY <1>1, <2>1, <2>2 DEF Entitled
<1>4. PlanOpen(j, mem2, ev2, nod)
  BY <1>1 DEF CommitHolds, PlanOpen
<1> QED BY <1>2, <1>3, <1>4 DEF CommitHolds

(* A step that leaves the keys alone keeps what is known of them.           *)
LEMMA KeysKeep ==
    ASSUME TypesInv, KeysInv, Moves(member, events, member', events'),
           UNCHANGED <<node, epoch, secret, orphaned>>,
           \A r \in Slots : \/ job'[r] = job[r]
                            \/ job'[r].op # "commit"
                            \/ CommitHolds(job'[r], member', events', orphaned, node)
    PROVE  KeysInv'
<1>1. /\ secret \in SUBSET Users /\ \A n \in DOMAIN node : node[n].holders \subseteq Users
  BY TypeFacts DEF TypesInv, TypeOK
<1>2. /\ NodesHeld(member', events', orphaned, node) /\ NodesOpen(member', events', node)
      /\ SecretHeld(member', events', orphaned, secret) /\ SecretOpen(member', events', epoch, secret)
  BY <1>1, KeysCarry DEF KeysInv
<1>3. ASSUME NEW r \in Slots, job'[r].op = "commit", job'[r].epoch = epoch + 1
      PROVE  CommitHolds(job'[r], member', events', orphaned, node)
  <2>1. CASE job'[r] = job[r]
    <3> DEFINE j == job[r]
    <3>1. CommitHolds(j, member, events, orphaned, node)
      BY <2>1, <1>3 DEF KeysInv
    <3>2. j.events \subseteq DOMAIN events
      BY <2>1, <1>3, JobShape
    <3>3. \A n \in DOMAIN j.held : j.held[n] \subseteq Users
      BY <2>1, <1>3, JobKinds DEF TypesInv, CommitTyped
    <3> HIDE DEF j
    <3>4. CommitHolds(j, member', events', orphaned, node)
      BY <3>1, <3>2, <3>3, CommitCarries
    <3> QED BY <2>1, <3>4 DEF j
  <2> QED BY <2>1, <1>3
<1> QED BY <1>2, <1>3 DEF KeysInv

(* Events that only get further are no membership change.                   *)
LEMMA MovesNot ==
    ASSUME NEW mem, NEW ev, NEW mem2, NEW ev2, mem2 = mem, \A k \in DOMAIN ev : SameEvent(ev, ev2, k),
           \A k \in UndoneIn(ev) : k \in UndoneIn(ev2)
    PROVE  Moves(mem, ev, mem2, ev2)
BY DEF Moves

(* A read leaves everything alone but the transaction it begins.            *)
LEMMA ReadKeys ==
    ASSUME TypesInv, KeysInv, NEW s \in Slots, NEW j, Read(s, j), UNCHANGED <<member, capacity, events, treeVars>>,
           j.op = "commit" => CommitHolds(j, member, events, orphaned, node)
    PROVE  KeysInv'
<1>1. \A r \in Slots : job'[r] = IF r = s THEN j ELSE job[r]
  BY DEF Read, TypesInv, JobTypes
<1>2. UNCHANGED <<member, events, node, epoch, secret, orphaned>>
  BY DEF treeVars
<1>3. Moves(member, events, member', events')
  BY <1>2, MovesNot DEF SameEvent
<1>4. \A r \in Slots : \/ job'[r] = job[r]
                       \/ job'[r].op # "commit"
                       \/ CommitHolds(job'[r], member', events', orphaned, node)
  BY <1>1, <1>2
<1> QED BY <1>2, <1>3, <1>4, KeysKeep

(* Before the group is created there are no keys.                           *)
LEMMA CreateKeys ==
    ASSUME TypesInv, KeysInv, NEW u \in Users, Create(u)
    PROVE  KeysInv'
<1>1. /\ capacity = 0 /\ events' = <<Event("create", u, NoLeaf)>>
      /\ UNCHANGED <<node, epoch, secret, orphaned, job>>
  BY DEF Create, treeVars
<1>2. \A v \in Users : ~Active(v)
  BY <1>1 DEF TypesInv, Started
<1>3. DOMAIN events = {}
  BY <1>1 DEF TypesInv, Started
<1> DEFINE e == Event("create", u, NoLeaf)
<1>4. e.action = "create" /\ e.rotation # "done"
  BY DEF Event
<1> HIDE DEF e
<1>5. events' = <<e>> /\ DOMAIN events' = {1} /\ events'[1] = e
  BY <1>1 DEF e
<1>6. 1 \in UndoneIn(events') \ DOMAIN events /\ \A v, i : About(events', 1, v, i)
  BY <1>3, <1>4, <1>5 DEF UndoneIn, About
<1>7. Moves(member, events, member', events')
  BY <1>2, <1>3, <1>6 DEF Moves, Sits, Active, UndoneIn
<1>8. \A r \in Slots : job'[r] = job[r]
  BY <1>1
<1> QED BY <1>1, <1>7, <1>8, KeysKeep

(* Sending an event to the chain says nothing about the keys.               *)
LEMMA AnchorKeys ==
    ASSUME TypesInv, KeysInv, NEW k \in DOMAIN events, AnchorMembership(k)
    PROVE  KeysInv'
<1>1. PICK c \in {"submitted", "failed"} : events' = [events EXCEPT ![k].chain = c]
  BY DEF AnchorMembership
<1>2. UNCHANGED <<member, node, epoch, secret, orphaned, job>>
  BY DEF AnchorMembership, treeVars
<1>3. \A m \in DOMAIN events : events[m] \in EventRecords
  BY TypeFacts
<1>4. DOMAIN events' = DOMAIN events
  BY <1>1
<1>5. \A m \in DOMAIN events :
         events'[m] = IF m = k THEN [events[k] EXCEPT !.chain = c] ELSE events[m]
  BY <1>1
<1>6. \A m \in DOMAIN events : /\ SameEvent(events, events', m)
                               /\ events'[m].rotation = events[m].rotation
  BY <1>3, <1>4, <1>5 DEF EventRecords, SameEvent
<1>7. \A m \in UndoneIn(events) : m \in UndoneIn(events')
  BY <1>4, <1>6 DEF UndoneIn
<1>8. Moves(member, events, member', events')
  BY <1>2, <1>6, <1>7, MovesNot
<1>9. \A r \in Slots : job'[r] = job[r]
  BY <1>2
<1> QED BY <1>2, <1>8, <1>9, KeysKeep

(* The end of a transaction that does not touch the keys.                   *)
LEMMA EndKeys ==
    ASSUME TypesInv, KeysInv, NEW s \in Slots, Done(s), UNCHANGED <<node, epoch, secret, orphaned>>,
           Moves(member, events, member', events')
    PROVE  KeysInv'
<1>1. \A r \in Slots : job'[r] = IF r = s THEN Idle ELSE job[r]
  BY DoneIs DEF TypesInv
<1>2. \A r \in Slots : job'[r] = job[r] \/ job'[r].op # "commit"
  BY <1>1 DEF Idle
<1> QED BY <1>2, KeysKeep

(* Who is added is named by the event of the addition.                      *)
LEMMA AddWriteKeys ==
    ASSUME TypesInv, SeatInv, KeysInv, NEW s \in Slots, AddWrite(s)
    PROVE  KeysInv'
<1>1. /\ job[s].op = "add" /\ Done(s) /\ UNCHANGED <<node, epoch, secret, orphaned>>
      /\ \/ UNCHANGED <<member, events>>
         \/ /\ member' = [member EXCEPT ![job[s].subject] =
                            [status |-> "in", role |-> "member", leaf |-> job[s].leaf]]
            /\ events' = Append(events, Event("add", job[s].subject, job[s].leaf))
  BY DEF AddWrite, treeVars
<1>2. CASE UNCHANGED <<member, events>>
  <2>1. Moves(member, events, member', events')
    BY <1>2, MovesNot DEF SameEvent, UndoneIn
  <2> QED BY <2>1, <1>1, EndKeys
<1>3. CASE /\ member' = [member EXCEPT ![job[s].subject] =
                            [status |-> "in", role |-> "member", leaf |-> job[s].leaf]]
           /\ events' = Append(events, Event("add", job[s].subject, job[s].leaf))
  <2>1. PICK v \in Users : v = job[s].subject
    BY <1>1, JobShape
  <2>2. PICK l \in Leaves : l = job[s].leaf
    BY <1>1, JobShape
  <2>3. \A u \in Users : IF u = v THEN member'[u].status = "in" /\ member'[u].leaf = l ELSE member'[u] = member[u]
    BY <1>3, <2>1, <2>2 DEF TypesInv, TypeOK
  <2>4. member[v].status # "in"
    BY <1>1, <2>1, <2>2 DEF SeatInv, JobHolds, AddHolds
  <2>5. "add" \in Actions \ {"create"}
    BY DEF Actions
  <2>6. /\ WaitingIn(events') = WaitingIn(events) \union {Now + 1}
        /\ \A k \in DOMAIN events : SameEvent(events, events', k) /\ events'[k] = events[k]
        /\ events'[Now + 1].action = "add" /\ events'[Now + 1].subject = v /\ events'[Now + 1].leaf = l
        /\ DOMAIN events' = DOMAIN events \union {Now + 1}
    BY <1>3, <2>1, <2>2, <2>5, AppendSeats
  <2>7. Now + 1 \notin DOMAIN events
    BY TypeFacts
  <2>8. Now + 1 \in UndoneIn(events') \ DOMAIN events
    BY <2>6, <2>7 DEF WaitingIn, UndoneIn
  <2>9. \A k \in UndoneIn(events) : k \in UndoneIn(events')
    BY <2>6 DEF UndoneIn
  <2>10. \A u \in Users, i \in Leaves : Sits(member', u, i) <=> Sits(member, u, i) \/ (u = v /\ i = l)
    BY <2>3, <2>4 DEF Sits
  <2>11. About(events', Now + 1, v, l)
    BY <2>6 DEF About
  <2>12. \A u \in Users, i \in Leaves : Sits(member', u, i) =>
         Sits(member, u, i) \/ \E k \in UndoneIn(events') \ DOMAIN events : About(events', k, u, i)
    BY <2>8, <2>10, <2>11
  <2>13. Moves(member, events, member', events')
    BY <2>6, <2>9, <2>10, <2>12 DEF Moves
  <2> QED BY <2>13, <1>1, EndKeys
<1> QED BY <1>1, <1>2, <1>3

(* Who is removed is named by the event of the removal.                     *)
LEMMA RemoveWriteKeys ==
    ASSUME TypesInv, SeatInv, KeysInv, NEW s \in Slots, RemoveWrite(s)
    PROVE  KeysInv'
<1>1. /\ job[s].op = "remove" /\ Done(s) /\ UNCHANGED <<node, epoch, secret, orphaned>>
      /\ member' = [u \in Users |->
             IF u = job[s].subject THEN [member[u] EXCEPT !.status = "left", !.leaf = NoLeaf]
             ELSE IF u = job[s].heir THEN [member[u] EXCEPT !.role = "owner"]
             ELSE member[u]]
      /\ events' = Append(events, Event(job[s].action, job[s].subject, job[s].leaf))
  BY DEF RemoveWrite, treeVars
<1>2. PICK v \in Users : v = job[s].subject
  BY <1>1, JobShape
<1>3. PICK l \in Leaves : l = job[s].leaf
  BY <1>1, JobShape
<1>4. PICK act \in {"remove", "leave"} : act = job[s].action
  BY <1>1, JobShape
<1>5. \A u \in Users : IF u = v THEN member'[u].status = "left"
                       ELSE member'[u].status = member[u].status /\ member'[u].leaf = member[u].leaf
  <2> SUFFICES ASSUME NEW u \in Users
               PROVE  IF u = v THEN member'[u].status = "left"
                      ELSE member'[u].status = member[u].status /\ member'[u].leaf = member[u].leaf
    OBVIOUS
  <2>1. member[u] \in [status : {"never", "in", "left"}, role : {"owner", "member"}, leaf : Leaves \union {NoLeaf}]
    BY DEF TypesInv, TypeOK
  <2>2. member'[u] = IF u = v THEN [member[u] EXCEPT !.status = "left", !.leaf = NoLeaf]
                     ELSE IF u = job[s].heir THEN [member[u] EXCEPT !.role = "owner"]
                     ELSE member[u]
    BY <1>1, <1>2
  <2> QED BY <2>1, <2>2
<1>6. /\ WaitingIn(events') = WaitingIn(events) \union {Now + 1}
      /\ \A k \in DOMAIN events : SameEvent(events, events', k) /\ events'[k] = events[k]
      /\ events'[Now + 1].action = act /\ events'[Now + 1].subject = v /\ events'[Now + 1].leaf = l
      /\ DOMAIN events' = DOMAIN events \union {Now + 1}
  <2>1. act \in Actions \ {"create"}
    BY DEF Actions
  <2> QED BY <2>1, <1>1, <1>2, <1>3, <1>4, AppendSeats
<1>7. Now + 1 \in UndoneIn(events') \ DOMAIN events
  <2>1. Now + 1 \notin DOMAIN events
    BY TypeFacts
  <2> QED BY <2>1, <1>6 DEF WaitingIn, UndoneIn
<1>8. \A k \in UndoneIn(events) : k \in UndoneIn(events')
  BY <1>6 DEF UndoneIn
<1>9. \A i \in Leaves : Sits(member, v, i) => i = l
  BY <1>1, <1>2, <1>3 DEF SeatInv, JobHolds, RemoveHolds, Sits
<1>10. Removes(events', Now + 1, v, l)
  BY <1>6 DEF Removes
<1>11. \A u \in Users, i \in Leaves : Sits(member', u, i) <=> Sits(member, u, i) /\ u # v
  BY <1>5 DEF Sits
<1>12. \A u \in Users, i \in Leaves : Sits(member, u, i) =>
         Sits(member', u, i) \/ \E k \in UndoneIn(events') \ DOMAIN events : Removes(events', k, u, i)
  BY <1>7, <1>9, <1>10, <1>11
<1>13. Moves(member, events, member', events')
  BY <1>6, <1>8, <1>11, <1>12 DEF Moves
<1> QED BY <1>13, <1>1, EndKeys

(* A confirmed event is still to be rotated.                                *)
LEMMA ConfirmWriteKeys ==
    ASSUME TypesInv, KeysInv, NEW s \in Slots, ConfirmWrite(s)
    PROVE  KeysInv'
<1>1. /\ job[s].op = "confirm" /\ Done(s) /\ UNCHANGED <<member, node, epoch, secret, orphaned>>
      /\ \/ events' = events
         \/ events' = [events EXCEPT ![job[s].event].chain = "confirmed", ![job[s].event].rotation = "requested"]
  BY DEF ConfirmWrite
<1>2. job[s].event \in DOMAIN events
  BY <1>1, JobShape
<1>3. DOMAIN events' = DOMAIN events
  BY <1>1
<1>4. ASSUME NEW k \in DOMAIN events
      PROVE  SameEvent(events, events', k) /\ (events[k].rotation # "done" => events'[k].rotation # "done")
  <2>1. events[k] \in EventRecords
    BY TypeFacts
  <2>2. CASE events'[k] = events[k]
    BY <2>2, <1>3 DEF SameEvent
  <2>3. CASE events'[k] = [events[k] EXCEPT !.chain = "confirmed", !.rotation = "requested"]
    BY <2>1, <2>3, <1>3 DEF EventRecords, SameEvent
  <2>4. events'[k] = events[k] \/ events'[k] = [events[k] EXCEPT !.chain = "confirmed", !.rotation = "requested"]
    BY <1>1, <1>2
  <2> QED BY <2>2, <2>3, <2>4
<1>5. \A k \in UndoneIn(events) : k \in UndoneIn(events')
  BY <1>3, <1>4 DEF UndoneIn
<1>6. Moves(member, events, member', events')
  BY <1>1, <1>4, <1>5, MovesNot
<1> QED BY <1>1, <1>6, EndKeys

(* tree_commit, the commit: what the plan said of the tree becomes true.    *)
LEMMA CommitWriteKeys ==
    ASSUME TypesInv, KeysInv, EpochInv, NEW s \in Slots, CommitWrite(s)
    PROVE  KeysInv'
<1> DEFINE j == job[s]
<1>1. /\ j.op = "commit" /\ Done(s) /\ UNCHANGED member
      /\ \/ j.epoch <= epoch /\ UNCHANGED <<events, node, epoch, secret, orphaned>>
         \/ /\ ~(j.epoch <= epoch)
            /\ node' = [n \in DOMAIN node |->
                 IF n \in DOMAIN j.held
                 THEN [epoch |-> j.epoch, by |-> j.by, holders |-> j.held[n]]
                 ELSE IF n \in j.blanks THEN NoKey ELSE node[n]]
            /\ secret' = j.held[j.root]
            /\ orphaned' = orphaned \union UNION {node[n].holders : n \in j.blanks}
            /\ events' = [k \in DOMAIN events |->
                 IF k \in j.events THEN [events[k] EXCEPT !.rotation = "done"] ELSE events[k]]
            /\ epoch' = j.epoch
  BY DEF CommitWrite
<1>2. CASE j.epoch <= epoch /\ UNCHANGED <<events, node, epoch, secret, orphaned>>
  <2>1. Moves(member, events, member', events')
    BY <1>1, <1>2, MovesNot DEF SameEvent, UndoneIn
  <2> QED BY <2>1, <1>1, <1>2, EndKeys
<1>3. CASE /\ ~(j.epoch <= epoch)
           /\ node' = [n \in DOMAIN node |->
                 IF n \in DOMAIN j.held
                 THEN [epoch |-> j.epoch, by |-> j.by, holders |-> j.held[n]]
                 ELSE IF n \in j.blanks THEN NoKey ELSE node[n]]
           /\ secret' = j.held[j.root]
           /\ orphaned' = orphaned \union UNION {node[n].holders : n \in j.blanks}
           /\ events' = [k \in DOMAIN events |->
                 IF k \in j.events THEN [events[k] EXCEPT !.rotation = "done"] ELSE events[k]]
           /\ epoch' = j.epoch
  <2>1. j.epoch = epoch + 1 /\ epoch \in Nat
    <3>1. j.epoch \in Nat /\ j.epoch <= epoch + 1 /\ epoch \in Nat
      BY <1>1 DEF EpochInv
    <3>2. ~(j.epoch <= epoch)
      BY <1>3
    <3> HIDE DEF j
    <3> QED BY <3>1, <3>2
  <2>2. CommitHolds(j, member, events, orphaned, node)
    BY <1>1, <2>1 DEF KeysInv
  <2>3. j.events \subseteq DOMAIN events
    BY <1>1, JobShape
  <2>4. j.root \in DOMAIN j.held /\ \A n \in DOMAIN j.held : j.held[n] \subseteq Users
    BY <1>1, JobKinds DEF TypesInv, CommitTyped
  <2> HIDE DEF j
  <2>5. DOMAIN events' = DOMAIN events
    BY <1>3
  <2>6. ASSUME NEW k \in DOMAIN events
        PROVE  /\ SameEvent(events, events', k)
               /\ events'[k].rotation # "done" <=> events[k].rotation # "done" /\ k \notin j.events
    <3>1. events[k] \in EventRecords
      BY TypeFacts
    <3>2. CASE k \in j.events
      <4>1. events'[k] = [events[k] EXCEPT !.rotation = "done"]
        BY <3>2, <1>3
      <4> QED BY <3>1, <3>2, <4>1, <2>5 DEF EventRecords, SameEvent
    <3>3. CASE k \notin j.events
      <4>1. events'[k] = events[k]
        BY <3>3, <1>3
      <4> QED BY <3>3, <4>1, <2>5 DEF SameEvent
    <3> QED BY <3>2, <3>3
  <2>7. UndoneIn(events') = UndoneIn(events) \ j.events
    BY <2>5, <2>6 DEF UndoneIn
  <2>8. \A k \in UndoneIn(events') : k \in DOMAIN events /\ SameEvent(events, events', k)
    BY <2>5, <2>6 DEF UndoneIn
  <2>9. \A u, i : Leaving(events, UndoneIn(events) \ j.events, u, i) => Leaving(events', UndoneIn(events'), u, i)
    BY <2>7, <2>8 DEF Leaving, Removes, SameEvent
  <2>10. \A u, i : Settled(events', UndoneIn(events'), u, i) => Settled(events, UndoneIn(events) \ j.events, u, i)
    BY <2>7, <2>8 DEF Settled, About, SameEvent
  <2>11. \A n \in DOMAIN node :
           node'[n] = IF n \in DOMAIN j.held
                      THEN [epoch |-> j.epoch, by |-> j.by, holders |-> j.held[n]]
                      ELSE IF n \in j.blanks THEN NoKey ELSE node[n]
    BY <1>3
  <2>12. DOMAIN node' = DOMAIN node
    BY <1>3
  <2>13. \A b \in j.blanks : \A u \in node[b].holders : u \in orphaned'
    BY <1>3
  <2>14. orphaned \subseteq orphaned'
    BY <1>3
  <2>15. ASSUME NEW n \in DOMAIN j.held, NEW u \in j.held[n]
         PROVE  Entitled(member, events', orphaned', u, n, UndoneIn(events'))
    <3>1. \/ Entitled(member, events, orphaned, u, n, UndoneIn(events) \ j.events)
          \/ \E b \in j.blanks : u \in node[b].holders
      BY <2>2 DEF CommitHolds, PlanHeld
    <3>2. CASE \E b \in j.blanks : u \in node[b].holders
      BY <3>2, <2>13 DEF Entitled
    <3>3. CASE Entitled(member, events, orphaned, u, n, UndoneIn(events) \ j.events)
      BY <3>3, <2>9, <2>14 DEF Entitled
    <3> QED BY <3>1, <3>2, <3>3
  <2>16. NodesHeld(member, events', orphaned', node')
    <3> SUFFICES ASSUME NEW n \in DOMAIN node, NEW u \in node'[n].holders
                 PROVE  Entitled(member, events', orphaned', u, n, UndoneIn(events'))
      BY <2>12 DEF NodesHeld
    <3>1. CASE n \in DOMAIN j.held
      <4>1. node'[n].holders = j.held[n]
        <5>1. node'[n] = [epoch |-> j.epoch, by |-> j.by, holders |-> j.held[n]]
          BY <3>1, <2>11
        <5> QED BY <5>1
      <4> QED BY <3>1, <4>1, <2>15
    <3>2. CASE n \notin DOMAIN j.held /\ n \in j.blanks
      <4>1. node'[n] = NoKey
        BY <3>2, <2>11
      <4> QED BY <4>1 DEF NoKey
    <3>3. CASE n \notin DOMAIN j.held /\ n \notin j.blanks
      <4>1. u \in node[n].holders
        BY <3>3, <2>11
      <4>2. node[n] # NoKey
        BY <4>1 DEF NoKey
      <4>3. Entitled(member, events, orphaned, u, n, UndoneIn(events))
        BY <4>1 DEF KeysInv, NodesHeld
      <4>4. ASSUME NEW i \in Leaves, Above(n, i), Leaving(events, UndoneIn(events), u, i)
            PROVE  Leaving(events', UndoneIn(events'), u, i)
        <5>1. PICK k \in UndoneIn(events) : Removes(events, k, u, i)
          BY <4>4 DEF Leaving
        <5>2. k \notin j.events
          <6> SUFFICES ASSUME k \in j.events PROVE FALSE
            OBVIOUS
          <6>1. events[k].leaf = i
            BY <5>1 DEF Removes
          <6>2. n \in DOMAIN j.held \/ n \in j.blanks
            BY <6>1, <4>2, <4>4, <2>2 DEF CommitHolds, PlanCovers
          <6> QED BY <6>2, <3>3
        <5>3. Leaving(events, UndoneIn(events) \ j.events, u, i)
          BY <5>1, <5>2 DEF Leaving
        <5> QED BY <5>3, <2>9
      <4> QED BY <4>3, <4>4, <2>14 DEF Entitled
    <3> QED BY <3>1, <3>2, <3>3
  <2>17. NodesOpen(member, events', node')
    <3> SUFFICES ASSUME NEW n \in DOMAIN node, NEW u \in Users, NEW i \in Leaves,
                        node'[n] # NoKey, Above(n, i), Sits(member, u, i), Settled(events', UndoneIn(events'), u, i)
                 PROVE  u \in node'[n].holders
      BY <2>12 DEF NodesOpen
    <3>1. /\ n \in DOMAIN j.held => u \in j.held[n]
          /\ n \notin j.blanks
          /\ node[n] # NoKey /\ n \notin DOMAIN j.held => u \in node[n].holders
      BY <2>2, <2>10 DEF CommitHolds, PlanOpen
    <3>2. CASE n \in DOMAIN j.held
      <4>1. node'[n] = [epoch |-> j.epoch, by |-> j.by, holders |-> j.held[n]]
        BY <3>2, <2>11
      <4> QED BY <3>1, <3>2, <4>1
    <3>3. CASE n \notin DOMAIN j.held
      <4>1. node'[n] = node[n]
        BY <3>1, <3>3, <2>11
      <4> QED BY <3>1, <3>3, <4>1
    <3> QED BY <3>2, <3>3
  <2>18. SecretHeld(member, events', orphaned', secret')
    <3> SUFFICES ASSUME NEW u \in j.held[j.root]
                 PROVE  u \in orphaned' \/ \E i \in Leaves : Sits(member, u, i)
                                             \/ Leaving(events', UndoneIn(events'), u, i)
      BY <1>3 DEF SecretHeld
    <3> QED BY <2>4, <2>15 DEF Entitled
  <2>19. SecretOpen(member, events', epoch', secret')
    <3>1. secret' = j.held[j.root]
      BY <1>3
    <3> QED BY <3>1, <2>2, <2>10 DEF SecretOpen, CommitHolds, PlanOpen
  <2>20. ASSUME NEW r \in Slots, job'[r].op = "commit" PROVE job'[r].epoch # epoch' + 1
    <3>1. job'[r] = job[r]
      BY <1>1, <2>20, DoneIs DEF TypesInv, Idle
    <3>2. job[r].epoch \in Nat /\ job[r].epoch <= epoch + 1
      BY <2>20, <3>1 DEF EpochInv
    <3>3. epoch' = epoch + 1
      BY <1>3, <2>1
    <3> QED BY <3>1, <3>2, <3>3, <2>1
  <2> QED BY <1>1, <2>16, <2>17, <2>18, <2>19, <2>20 DEF KeysInv
<1> HIDE DEF j
<1> QED BY <1>1, <1>2, <1>3

(* A leaf below a node is one of the leaves the plan counts there.          *)
LEMMA LeavesBelow ==
    ASSUME NEW n \in Nat, NEW i \in Nat, Above(n, i)
    PROVE  i \in SubtreeLeaves(n)
<1>1. Ones[n] \in Nat /\ Ones[n] <= n
  BY OnesBound
<1>2. n - Ones[n] <= 2 * i /\ 2 * i <= n + Ones[n]
  BY SubtreeIs DEF Above, LeafNode
<1>3. \E h \in Nat : n - Ones[n] = 2 * h
  <2>1. CASE n % 2 = 0
    <3>1. Ones[n] = 0 /\ n = 2 * (n \div 2) /\ n \div 2 \in Nat
      BY <2>1, OnesStep, Halves
    <3> QED BY <3>1
  <2>2. CASE n % 2 = 1
    <3> DEFINE m == n \div 2
               p == Ones[m]
    <3>1. m \in Nat /\ n = 2 * m + 1 /\ Ones[n] = 2 * p + 1 /\ p \in Nat /\ p <= m
      BY <2>2, OnesStep, OnesBound, Halves
    <3> HIDE DEF m, p
    <3>2. n - Ones[n] = 2 * (m - p) /\ m - p \in Nat
      BY <3>1
    <3> QED BY <3>2
  <2> QED BY <2>1, <2>2, Halves
<1>4. PICK h \in Nat : n - Ones[n] = 2 * h
  BY <1>3
<1>5. (n - Ones[n]) \div 2 = h
  BY <1>4
<1>6. h <= i /\ i <= h + Ones[n]
  BY <1>1, <1>2, <1>4
<1> QED BY <1>1, <1>5, <1>6 DEF SubtreeLeaves

(* Everything below a node that is below n is below n.                      *)
LEMMA AboveAbove ==
    ASSUME NEW n \in Nat, NEW t \in Subtree(n), NEW i, Above(t, i)
    PROVE  Above(n, i)
BY Nested DEF Above

(* The key of a nonblank node is that of a leaf or of an inner node.        *)
LEMMA NonBlankIs ==
    ASSUME TypesInv, NEW t \in NonBlank
    PROVE  \/ \E l \in Leaves : /\ t = LeafNode(l) /\ leaf[l] \in Users
                                /\ Subtree(t) = {t} /\ Holders(t) = {leaf[l]}
           \/ /\ t \in DOMAIN node /\ node[t] # NoKey /\ Holders(t) = node[t].holders
<1>1. MaxLeaves \in Nat /\ DOMAIN node = Inner(MaxLeaves)
  BY TypeFacts
<1>2. CASE t \in {LeafNode(i) : i \in {l \in Leaves : leaf[l] \in Users}}
  <2>1. PICK l \in Leaves : t = LeafNode(l) /\ leaf[l] \in Users
    BY <1>2
  <2>2. l \in Nat
    BY <1>1 DEF Leaves
  <2>3. t \in Nat /\ t % 2 = 0 /\ t \div 2 = l
    BY <2>1, <2>2 DEF LeafNode
  <2>4. Ones[t] = 0
    BY <2>3, OnesStep
  <2>5. Subtree(t) = {t}
    BY <2>3, <2>4 DEF Subtree
  <2>6. Holders(t) = {leaf[l]}
    BY <2>3, <2>4 DEF Holders
  <2> QED BY <2>1, <2>5, <2>6
<1>3. CASE t \in {n \in DOMAIN node : node[n] # NoKey}
  <2>1. Ones[t] # 0
    BY <1>1, <1>3 DEF Inner, NodeCount
  <2> QED BY <1>3, <2>1 DEF Holders
<1> QED BY <1>2, <1>3 DEF NonBlank

(* The plan has every key above a requested change.                         *)
LEMMA PlanReaches ==
    ASSUME TypesInv, NEW w \in Users, Active(w),
           NEW k \in Requested, NEW n \in DOMAIN node, NEW i \in Leaves,
           node[n] # NoKey, Above(n, i), events[k].action = "create" \/ events[k].leaf = i
    PROVE  n \in TreePlan(w).path \/ n \in TreePlan(w).blanks
<1>1. PlanShape(TreePlan(w), capacity, NonBlank, Candidates(capacity, Changed(w), Full))
  BY PlanShaped
<1>2. capacity \in Powers /\ capacity # 1 /\ capacity \in Nat
  BY PlanTyped, PowerTwice
<1>3. MaxLeaves \in Nat /\ DOMAIN node = Inner(MaxLeaves) /\ i \in Nat /\ i # NoLeaf
  BY TypeFacts DEF Leaves, NoLeaf
<1>4. n < NodeCount(capacity)
  BY DEF TypesInv, TreeTypes
<1>5. n \in Nat /\ Ones[n] > 0
  BY <1>3 DEF Inner, NodeCount
<1>6. n \in 0 .. (NodeCount(capacity) - 1)
  BY <1>2, <1>4, <1>5 DEF NodeCount
<1>7. n \in Candidates(capacity, Changed(w), Full)
  <2>1. CASE Full
    <3>1. n \in Inner(capacity)
      BY <1>5, <1>6 DEF Inner
    <3> QED BY <2>1, <3>1, <1>2 DEF Candidates
  <2>2. CASE ~Full
    <3>1. events[k].leaf = i
      BY <2>2 DEF Full
    <3>2. i \in Changed(w)
      BY <3>1, <1>3 DEF Changed
    <3>3. n # 2 * i
      <4>1. Ones[n] \in Nat
        BY <1>5, OnesBound
      <4>2. n % 2 = 1
        BY <1>5, <4>1, Children
      <4> QED BY <4>2, <1>3, <1>5
    <3>4. n \in DirectPath(LeafNode(i), capacity)
      BY <3>3, <1>6 DEF DirectPath, LeafNode, Above
    <3> QED BY <2>2, <3>2, <3>4, <1>2 DEF Candidates
  <2> QED BY <2>1, <2>2
<1> QED BY <1>1, <1>7 DEF PlanShape

(* The plan blanks no node above a leaf that is taken.                      *)
LEMMA PlanKeepsTaken ==
    ASSUME TypesInv, NEW w \in Users, Active(w), NEW i \in Leaves, leaf[i] \in Users, NEW n \in Nat, Above(n, i)
    PROVE  n \notin TreePlan(w).blanks
<1>1. PlanShape(TreePlan(w), capacity, NonBlank, Candidates(capacity, Changed(w), Full))
  BY PlanShaped
<1>2. i \in Nat /\ i < capacity /\ capacity \in Nat
  BY TypeFacts DEF TypesInv, TreeTypes, Leaves
<1>3. i \in Occupied(capacity, NonBlank)
  BY <1>2 DEF Occupied, NonBlank
<1>4. i \in SubtreeLeaves(n)
  BY <1>2, LeavesBelow
<1> QED BY <1>1, <1>3, <1>4 DEF PlanShape

(* What the plan seals to is nonblank or fresh and lies below.              *)
LEMMA TargetsBelow ==
    ASSUME TypesInv, NEW w \in Users, Active(w), NEW m \in TreePlan(w).path
    PROVE  /\ m \in Nat /\ Ones[m] # 0 /\ Ones[m] \in Nat
           /\ \A t \in TreePlan(w).targets[m] : t \in Subtree(m) /\ (t \in NonBlank \/ t \in TreePlan(w).path)
           /\ \A i \in Nat : Above(m, i) /\ LeafNode(i) \in NonBlank =>
                \E t \in TreePlan(w).targets[m] : t \in Nat /\ Above(t, i) /\ Ones[t] \in Nat /\ Ones[t] < Ones[m]
<1> DEFINE plan == TreePlan(w)
           filled == NonBlank \union plan.path
<1>1. PlanShape(plan, capacity, NonBlank, Candidates(capacity, Changed(w), Full))
  BY PlanShaped
<1> HIDE DEF plan
<1>2. capacity \in Powers /\ capacity # 1 /\ capacity \in Nat /\ capacity > 0 /\ capacity <= MaxLeaves
  BY PlanTyped, PowerTwice, TypeFacts
<1>3. m \in Inner(capacity)
  BY <1>1 DEF PlanShape, plan
<1>4. m \in Nat /\ Ones[m] > 0 /\ Ones[m] \in Nat
  BY <1>2, <1>3, InnerNodes, OnesBound
<1>5. \A t : t \in plan.targets[m] <=> t \in Resolution(Left(m), filled) \/ t \in Resolution(Right(m), filled)
  BY <1>1 DEF PlanShape, plan
<1>6. /\ Left(m) \in Nat /\ Right(m) \in Nat
      /\ Ones[Left(m)] < Ones[m] /\ Ones[Right(m)] < Ones[m]
      /\ Subtree(Left(m)) \subseteq Subtree(m) /\ Subtree(Right(m)) \subseteq Subtree(m)
      /\ \A i \in Nat : LeafNode(i) \in Subtree(m) =>
              LeafNode(i) \in Subtree(Left(m)) \/ LeafNode(i) \in Subtree(Right(m))
  BY <1>4, Children
<1>7. ASSUME NEW t \in plan.targets[m]
      PROVE  t \in Subtree(m) /\ (t \in NonBlank \/ t \in plan.path)
  BY <1>5, <1>6 DEF Resolution
<1>8. ASSUME NEW i \in Nat, Above(m, i), LeafNode(i) \in NonBlank
      PROVE  \E t \in plan.targets[m] : t \in Nat /\ Above(t, i) /\ Ones[t] \in Nat /\ Ones[t] < Ones[m]
  <2>1. PICK c \in {Left(m), Right(m)} : LeafNode(i) \in Subtree(c)
    BY <1>6, <1>8 DEF Above
  <2>2. c \in Nat /\ Ones[c] < Ones[m] /\ Ones[c] \in Nat
    BY <1>6, OnesBound
  <2>3. LeafNode(i) \in filled \intersect Subtree(c)
    BY <1>8, <2>1
  <2> HIDE DEF filled
  <2>4. PICK t \in Resolution(c, filled) : LeafNode(i) \in Subtree(t)
    BY <2>2, <2>3, ResolutionCovers
  <2>5. t \in plan.targets[m] /\ t \in Subtree(c)
    BY <1>5, <2>4 DEF Resolution
  <2>6. t \in Nat /\ Subtree(t) \subseteq Subtree(c)
    BY <2>2, <2>5, Nested
  <2>7. Ones[t] \in Nat /\ Ones[t] <= Ones[c]
    <3>1. Ones[t] \in Nat /\ Ones[t] <= t
      BY <2>6, OnesBound
    <3>2. t - Ones[t] \in Subtree(t) /\ t + Ones[t] \in Subtree(t)
      BY <2>6, <3>1 DEF Subtree
    <3>3. c - Ones[c] <= t - Ones[t] /\ t + Ones[t] <= c + Ones[c]
      BY <2>2, <2>6, <3>2, SubtreeIs
    <3> QED BY <2>2, <2>6, <3>1, <3>3
  <2>8. Ones[t] < Ones[m]
    BY <1>4, <2>2, <2>7
  <2> QED BY <2>4, <2>5, <2>6, <2>7, <2>8 DEF Above
<1> QED BY <1>4, <1>7, <1>8 DEF plan

(* A client opens a fresh key if it holds the key of one of the targets.    *)
Opens(plan, m, known, u) == \E t \in plan.targets[m] : IF t \in plan.path THEN t \in known ELSE u \in Holders(t)
Closed(plan, known, u) == \A m \in plan.path : Opens(plan, m, known, u) => m \in known

(* Who can open a fresh key, said with Closed.                              *)
LEMMA HoldersAre ==
    ASSUME NEW w \in Users
    PROVE  /\ DOMAIN HoldersAfter(TreePlan(w)) = TreePlan(w).path
           /\ \A n \in TreePlan(w).path : \A u : u \in HoldersAfter(TreePlan(w))[n] <=>
                u \in Users /\ \A known \in SUBSET TreePlan(w).path : Closed(TreePlan(w), known, u) => n \in known
BY DEF HoldersAfter, Opens, Closed

(* Who sits below a node of the plan, and of whom nothing else is to come,  *)
(* can open its fresh key.                                                  *)
LEMMA SettledOpen ==
    ASSUME TypesInv, SeatInv, KeysInv, NEW w \in Users, Active(w),
           NEW u \in Users, NEW i \in Leaves, Sits(member, u, i), Settled(events, WaitingIn(events), u, i)
    PROVE  /\ \A n \in TreePlan(w).path : Above(n, i) => u \in HoldersAfter(TreePlan(w))[n]
           /\ \A n \in DOMAIN node : Above(n, i) =>
                /\ n \notin TreePlan(w).blanks
                /\ node[n] # NoKey /\ n \notin TreePlan(w).path => u \in node[n].holders
<1> DEFINE plan == TreePlan(w)
<1>1. leaf[i] = u
  BY DEF SeatInv, LeavesSet, Settled
<1>2. i \in Nat /\ LeafNode(i) \in NonBlank
  BY <1>1, TypeFacts DEF NonBlank, Leaves
<1>3. \A n \in Nat : Above(n, i) => n \notin plan.blanks
  BY <1>1, PlanKeepsTaken
<1>4. \A n \in DOMAIN node : n \in Nat
  <2>1. MaxLeaves \in Nat
    BY TypeFacts
  <2> QED BY <2>1, TypeFacts DEF Inner, NodeCount
<1>5. ASSUME NEW n \in DOMAIN node, Above(n, i), node[n] # NoKey, n \notin plan.path
      PROVE  u \in node[n].holders
  <2>1. ASSUME NEW k \in UndoneIn(events) PROVE ~About(events, k, u, i)
    <3>1. CASE k \in WaitingIn(events)
      BY <3>1 DEF Settled
    <3>2. CASE k \notin WaitingIn(events)
      <4>1. k \in DOMAIN events /\ events[k] \in EventRecords
        BY TypeFacts DEF UndoneIn
      <4>2. k \in Requested
        BY <3>2, <4>1 DEF UndoneIn, WaitingIn, Requested, EventRecords
      <4>3. n \notin plan.blanks
        BY <1>3, <1>4, <1>5
      <4> QED BY <4>2, <4>3, <1>5, PlanReaches DEF About
    <3> QED BY <3>1, <3>2
  <2> QED BY <2>1, <1>5 DEF KeysInv, NodesOpen, Settled
<1>6. ASSUME NEW known \in SUBSET plan.path, Closed(plan, known, u)
      PROVE  \A n \in plan.path : Above(n, i) => n \in known
  <2> DEFINE Bad == {n \in plan.path : Above(n, i) /\ n \notin known}
             D == {d \in Nat : \E n \in Bad : d = Ones[n]}
  <2> SUFFICES ASSUME Bad # {} PROVE FALSE
    OBVIOUS
  <2>1. \A n \in Bad : Ones[n] \in Nat
    BY TargetsBelow
  <2>2. D # {} /\ D \subseteq Nat
    BY <2>1
  <2>3. PICK d \in D : \A e \in D : d <= e
    <3> HIDE DEF D
    <3> QED BY <2>2, LeastNumber
  <2>4. PICK n \in Bad : d = Ones[n]
    BY <2>3
  <2>5. PICK t \in plan.targets[n] : t \in Nat /\ Above(t, i) /\ Ones[t] \in Nat /\ Ones[t] < Ones[n]
    BY <2>4, <1>2, TargetsBelow
  <2>6. t \in NonBlank \/ t \in plan.path
    BY <2>4, TargetsBelow
  <2>7. IF t \in plan.path THEN t \in known ELSE u \in Holders(t)
    <3>1. CASE t \in plan.path
      <4> SUFFICES ASSUME t \notin known PROVE FALSE
        BY <3>1
      <4>1. t \in Bad
        BY <3>1, <2>5
      <4>2. Ones[t] \in D
        BY <4>1, <2>5
      <4>3. d <= Ones[t] /\ Ones[n] \in Nat
        BY <4>2, <2>1, <2>3
      <4> QED BY <4>3, <2>4, <2>5
    <3>2. CASE t \notin plan.path
      <4>1. t \in NonBlank
        BY <3>2, <2>6
      <4>2. CASE \E l \in Leaves : /\ t = LeafNode(l) /\ leaf[l] \in Users
                                   /\ Subtree(t) = {t} /\ Holders(t) = {leaf[l]}
        <5>1. PICK l \in Leaves : t = LeafNode(l) /\ Subtree(t) = {t} /\ Holders(t) = {leaf[l]}
          BY <4>2
        <5>2. LeafNode(i) = LeafNode(l)
          BY <5>1, <2>5 DEF Above
        <5>3. l = i
          BY <5>2, <1>2, TypeFacts DEF LeafNode, Leaves
        <5> QED BY <5>1, <5>3, <1>1, <3>2
      <4>3. CASE t \in DOMAIN node /\ node[t] # NoKey /\ Holders(t) = node[t].holders
        BY <4>3, <1>5, <2>5, <3>2
      <4> QED BY <4>1, <4>2, <4>3, NonBlankIs
    <3> QED BY <3>1, <3>2
  <2>8. Opens(plan, n, known, u)
    <3> HIDE DEF plan
    <3> QED BY <2>7 DEF Opens
  <2> QED BY <2>4, <2>8, <1>6 DEF Closed
<1>7. ASSUME NEW n \in plan.path, Above(n, i) PROVE u \in HoldersAfter(plan)[n]
  BY <1>6, <1>7, HoldersAre
<1> QED BY <1>3, <1>4, <1>5, <1>7

(* Who can open a fresh key is entitled to it, or held a key that the plan  *)
(* blanks.                                                                  *)
LEMMA OpenEntitled ==
    ASSUME TypesInv, SeatInv, KeysInv, NEW w \in Users, Active(w),
           NEW n \in TreePlan(w).path, NEW u \in HoldersAfter(TreePlan(w))[n]
    PROVE  \/ Entitled(member, events, orphaned, u, n, WaitingIn(events))
           \/ \E b \in TreePlan(w).blanks : u \in node[b].holders
<1> DEFINE plan == TreePlan(w)
           Gone == \E b \in plan.blanks : u \in node[b].holders
           Fits(m) == Entitled(member, events, orphaned, u, m, WaitingIn(events)) \/ Gone
           known == {m \in plan.path : Fits(m)}
<1>1. u \in Users
  BY HoldersAre
<1>2. ASSUME NEW m \in plan.path, NEW t \in plan.targets[m], IF t \in plan.path THEN t \in known ELSE u \in Holders(t)
      PROVE  Fits(m)
  <2>1. m \in Nat /\ t \in Subtree(m) /\ (t \in NonBlank \/ t \in plan.path)
    BY TargetsBelow
  <2>2. t \in Nat
    BY <2>1, Nested
  <2>3. \A i \in Leaves : Above(t, i) => Above(m, i)
    BY <2>1, AboveAbove
  <2>4. CASE t \in plan.path
    <3>1. Fits(t)
      BY <1>2, <2>4
    <3> QED BY <3>1, <2>3 DEF Entitled
  <2>5. CASE t \notin plan.path
    <3>1. t \in NonBlank /\ u \in Holders(t)
      BY <1>2, <2>1, <2>5
    <3>2. CASE \E l \in Leaves : /\ t = LeafNode(l) /\ leaf[l] \in Users
                                 /\ Subtree(t) = {t} /\ Holders(t) = {leaf[l]}
      <4>1. PICK l \in Leaves : t = LeafNode(l) /\ leaf[l] \in Users /\ Subtree(t) = {t} /\ Holders(t) = {leaf[l]}
        BY <3>2
      <4>2. u = leaf[l]
        BY <3>1, <4>1
      <4>3. Sits(member, u, l) \/ Leaving(events, WaitingIn(events), u, l)
        BY <4>1, <4>2 DEF SeatInv, LeavesHeld
      <4>4. Above(m, l)
        BY <4>1, <2>1 DEF Above
      <4> QED BY <4>3, <4>4 DEF Entitled
    <3>3. CASE t \in DOMAIN node /\ node[t] # NoKey /\ Holders(t) = node[t].holders
      <4>1. u \in node[t].holders
        BY <3>1, <3>3
      <4>2. Entitled(member, events, orphaned, u, t, UndoneIn(events))
        BY <3>3, <4>1 DEF KeysInv, NodesHeld
      <4>3. CASE u \in orphaned
        BY <4>3 DEF Entitled
      <4>4. CASE \E i \in Leaves : Above(t, i) /\ Sits(member, u, i)
        BY <4>4, <2>3 DEF Entitled
      <4>5. CASE \E i \in Leaves : Above(t, i) /\ Leaving(events, UndoneIn(events), u, i)
        <5>1. PICK i \in Leaves : Above(t, i) /\ Leaving(events, UndoneIn(events), u, i)
          BY <4>5
        <5>2. PICK k \in UndoneIn(events) : Removes(events, k, u, i)
          BY <5>1 DEF Leaving
        <5>3. CASE k \in WaitingIn(events)
          <6>1. Leaving(events, WaitingIn(events), u, i)
            BY <5>2, <5>3 DEF Leaving
          <6> QED BY <6>1, <5>1, <2>3 DEF Entitled
        <5>4. CASE k \notin WaitingIn(events)
          <6>1. k \in DOMAIN events /\ events[k] \in EventRecords
            BY TypeFacts DEF UndoneIn
          <6>2. k \in Requested
            BY <5>4, <6>1 DEF UndoneIn, WaitingIn, Requested, EventRecords
          <6>3. events[k].leaf = i
            BY <5>2 DEF Removes
          <6>4. t \in plan.blanks
            BY <6>2, <6>3, <5>1, <3>3, <2>5, PlanReaches
          <6> QED BY <6>4, <4>1
        <5> QED BY <5>3, <5>4
      <4> QED BY <4>2, <4>3, <4>4, <4>5 DEF Entitled
    <3> QED BY <3>1, <3>2, <3>3, NonBlankIs
  <2> QED BY <2>4, <2>5
<1> HIDE DEF Fits
<1>3. Closed(plan, known, u)
  <2> SUFFICES ASSUME NEW m \in plan.path, Opens(plan, m, known, u) PROVE m \in known
    BY DEF Closed
  <2>1. PICK t \in plan.targets[m] : IF t \in plan.path THEN t \in known ELSE u \in Holders(t)
    <3> HIDE DEF plan, known
    <3> QED BY DEF Opens
  <2> QED BY <2>1, <1>2
<1>4. known \in SUBSET plan.path
  OBVIOUS
<1>5. n \in known
  <2> HIDE DEF known
  <2> QED BY <1>3, <1>4, HoldersAre
<1> QED BY <1>5 DEF Fits

(* tree_commit, the reads: the plan covers the requested changes, gives the *)
(* fresh keys to no one else and to everyone whose changes it has.          *)
LEMMA CommitReadKeys ==
    ASSUME TypesInv, SeatInv, KeysInv, NEW s \in Slots, NEW u \in Users, CommitRead(s, u)
    PROVE  KeysInv'
<1> DEFINE plan == TreePlan(u)
           held == HoldersAfter(plan)
           j == [op |-> "commit", seen |-> Now, by |-> u, epoch |-> epoch + 1, flag |-> flag,
                 events |-> Requested, held |-> held, blanks |-> plan.blanks, root |-> Root(capacity)]
<1>1. /\ Read(s, j) /\ UNCHANGED <<member, capacity, events, treeVars>>
      /\ Active(u) /\ \E l \in Leaves : leaf[l] \in Users
  BY CommitReadIs
<1>2. UndoneIn(events) \ Requested = WaitingIn(events)
  <2>1. \A k \in DOMAIN events : events[k].rotation \in {"waiting", "requested", "done"}
    BY TypeFacts DEF EventRecords
  <2> QED BY <2>1 DEF UndoneIn, WaitingIn, Requested
<1>3. Root(capacity) \in plan.path
  BY <1>1, PlanHasRoot
<1>4. ASSUME NEW i \in Leaves, NEW v \in Users, Sits(member, v, i) PROVE Above(Root(capacity), i)
  <2>1. i \in Nat /\ i < capacity /\ capacity \in Nat
    BY <1>4, TypeFacts DEF Sits, Active, Leaves
  <2>2. capacity \in Powers /\ capacity # 1
    BY <1>1, PlanTyped
  <2>3. 2 * i \in 0 .. (2 * capacity - 2)
    BY <2>1
  <2> QED BY <2>2, <2>3, RootIs DEF Above, LeafNode
<1>5. DOMAIN held = plan.path
  BY HoldersAre
<1>6. ASSUME NEW k \in Requested, NEW n \in DOMAIN node, NEW i \in Leaves,
             node[n] # NoKey, Above(n, i), events[k].action = "create" \/ events[k].leaf = i
      PROVE  n \in plan.path \/ n \in plan.blanks
  BY <1>1, <1>6, PlanReaches
<1>7. ASSUME NEW n \in plan.path, NEW v \in held[n]
      PROVE  \/ Entitled(member, events, orphaned, v, n, WaitingIn(events))
             \/ \E b \in plan.blanks : v \in node[b].holders
  BY <1>1, <1>7, OpenEntitled
<1>8. ASSUME NEW v \in Users, NEW i \in Leaves, Sits(member, v, i), Settled(events, WaitingIn(events), v, i)
      PROVE  /\ \A n \in plan.path : Above(n, i) => v \in held[n]
             /\ \A n \in DOMAIN node : Above(n, i) =>
                  /\ n \notin plan.blanks
                  /\ node[n] # NoKey /\ n \notin plan.path => v \in node[n].holders
  BY <1>1, <1>8, SettledOpen
<1> HIDE DEF held, plan
<1>9. j.op = "commit" /\ j.events = Requested /\ j.held = held /\ j.blanks = plan.blanks /\ j.root = Root(capacity)
  OBVIOUS
<1> HIDE DEF j
<1>10. PlanCovers(j, events, node)
  BY <1>5, <1>6, <1>9 DEF PlanCovers
<1>11. PlanHeld(j, member, events, orphaned, node)
  BY <1>2, <1>5, <1>7, <1>9 DEF PlanHeld
<1>12. PlanOpen(j, member, events, node)
  BY <1>2, <1>3, <1>4, <1>5, <1>8, <1>9 DEF PlanOpen
<1> QED BY <1>1, <1>10, <1>11, <1>12, ReadKeys DEF CommitHolds

(* The other reads begin a transaction that leaves the keys alone.          *)
LEMMA OtherReadKeys ==
    ASSUME TypesInv, KeysInv, NEW s \in Slots
    PROVE  /\ \A u, v \in Users : AddRead(s, u, v) \/ RemoveRead(s, u, v) => KeysInv'
           /\ \A k \in DOMAIN events : ConfirmRead(s, k) => KeysInv'
<1>1. ASSUME NEW j, Read(s, j), UNCHANGED <<member, capacity, events, treeVars>>, j.op # "commit"
      PROVE  KeysInv'
  BY <1>1, ReadKeys
<1>2. ASSUME NEW u \in Users, NEW v \in Users, AddRead(s, u, v) PROVE KeysInv'
  <2> DEFINE j == [op |-> "add", seen |-> Now, subject |-> v, leaf |-> FreeLeaf,
                   capacity |-> IF FreeLeaf < capacity THEN 0 ELSE CapacityFor(FreeLeaf + 1),
                   insert |-> member[v].status = "never"]
  <2>1. Read(s, j) /\ UNCHANGED <<member, capacity, events, treeVars>> /\ j.op = "add"
    BY <1>2 DEF AddRead
  <2> HIDE DEF j
  <2> QED BY <1>1, <2>1
<1>3. ASSUME NEW u \in Users, NEW v \in Users, RemoveRead(s, u, v) PROVE KeysInv'
  <2> DEFINE rest == ActiveMembers \ {v}
             j(heir) == [op |-> "remove", seen |-> Now, subject |-> v, leaf |-> member[v].leaf, heir |-> heir,
                         action |-> IF u = v THEN "leave" ELSE "remove"]
  <2>1. PICK heir \in IF member[v].role = "owner" /\ rest # {} THEN rest ELSE {Nobody} : Read(s, j(heir))
    BY <1>3 DEF RemoveRead
  <2>2. UNCHANGED <<member, capacity, events, treeVars>> /\ j(heir).op = "remove"
    BY <1>3 DEF RemoveRead
  <2> HIDE DEF j
  <2> QED BY <1>1, <2>1, <2>2
<1>4. ASSUME NEW k \in DOMAIN events, ConfirmRead(s, k) PROVE KeysInv'
  <2> DEFINE j(w) == [op |-> "confirm", seen |-> Now, event |-> k, leaves |-> w, flag |-> flag,
                      inserts |-> {i \in DOMAIN w : leaf[i] = Absent}]
  <2>1. PICK w \in LeafWrites(k) : Read(s, j(w))
    BY <1>4 DEF ConfirmRead
  <2>2. UNCHANGED <<member, capacity, events, treeVars>> /\ j(w).op = "confirm"
    BY <1>4 DEF ConfirmRead
  <2> HIDE DEF j
  <2> QED BY <1>1, <2>1, <2>2
<1> QED BY <1>2, <1>3, <1>4

(* The invariant holds at first.                                            *)
LEMMA GroupStart == Init => TypesInv /\ SeatInv /\ EpochInv /\ KeysInv
<1> SUFFICES ASSUME Init PROVE TypesInv /\ SeatInv /\ EpochInv /\ KeysInv
  OBVIOUS
<1>1. TypesInv
  BY TypesStart
<1>2. /\ \A u \in Users : \A i : ~Sits(member, u, i)
      /\ DOMAIN events = {} /\ \A s \in Slots : job[s] = Idle
  BY DEF Init, Sits
<1>3. SeatInv
  <2>1. \A i \in Leaves : leaf[i] \notin Users
    BY GroupAssumption DEF Init
  <2>2. SeatsApart(member) /\ SeatsNamed(member, events) /\ LeavesHeld(member, events, leaf)
        /\ LeavesSet(member, events, leaf) /\ Answered(events)
    BY <1>2, <2>1 DEF SeatsApart, SeatsNamed, LeavesHeld, LeavesSet, Answered, WaitingIn
  <2>3. \A s \in Slots : JobHolds(job[s], member, events)
    BY <1>2 DEF JobHolds, Idle
  <2>4. JobsApart
    BY <1>2 DEF JobsApart, Idle
  <2> QED BY <2>2, <2>3, <2>4 DEF SeatInv
<1>4. EpochInv
  BY DEF Init, EpochInv, Idle
<1>5. KeysInv
  <2>1. \A n \in DOMAIN node : node[n] = NoKey
    BY DEF Init
  <2>2. NodesHeld(member, events, orphaned, node) /\ NodesOpen(member, events, node)
    BY <2>1 DEF NodesHeld, NodesOpen, NoKey
  <2>3. SecretHeld(member, events, orphaned, secret) /\ SecretOpen(member, events, epoch, secret)
    BY <1>2 DEF SecretHeld, SecretOpen, Init
  <2> QED BY <1>2, <2>2, <2>3 DEF KeysInv, Idle
<1> QED BY <1>1, <1>3, <1>4, <1>5

(* Every step keeps the seats, under the three assumptions on what overlaps. *)
LEMMA SeatsStep ==
    ASSUME ConfirmIsSlow, OneAddAtATime, NoQuickReturn, TypesInv, SeatInv, [Next]_vars
    PROVE  SeatInv'
<1>1. CASE UNCHANGED vars
  BY <1>1 DEF vars, SeatInv, SeatsApart, SeatsNamed, LeavesHeld, LeavesSet, Answered, JobHolds, JobsApart
<1>2. CASE \E u \in Users : Create(u)
  BY <1>2, CreateSeats, TypesStep
<1>3. CASE \E k \in DOMAIN events : AnchorMembership(k)
  BY <1>3, AnchorSeats
<1>4. CASE \E s \in Slots : \E u, v \in Users : AddRead(s, u, v) \/ RemoveRead(s, u, v)
  BY <1>4, AddReadSeats, RemoveReadSeats
<1>5. CASE \E s \in Slots : \E k \in DOMAIN events : ConfirmRead(s, k)
  BY <1>5, ConfirmReadSeats
<1>6. CASE \E s \in Slots : \E u \in Users : CommitRead(s, u)
  BY <1>6, CommitReadSeats
<1>7. CASE \E s \in Slots : AddWrite(s) \/ RemoveWrite(s) \/ ConfirmWrite(s) \/ CommitWrite(s)
  BY <1>7, AddWriteSeats, RemoveWriteSeats, ConfirmWriteSeats, CommitWriteSeats
<1> QED BY <1>1, <1>2, <1>3, <1>4, <1>5, <1>6, <1>7 DEF Next

(* Every step keeps the keys as the seats say, whatever overlaps.           *)
LEMMA KeysStep ==
    ASSUME TypesInv, SeatInv, EpochInv, KeysInv, [Next]_vars
    PROVE  KeysInv'
<1>1. CASE UNCHANGED vars
  BY <1>1 DEF vars, KeysInv
<1>2. CASE \E u \in Users : Create(u)
  BY <1>2, CreateKeys
<1>3. CASE \E k \in DOMAIN events : AnchorMembership(k)
  BY <1>3, AnchorKeys
<1>4. CASE \E s \in Slots : \E u, v \in Users : AddRead(s, u, v) \/ RemoveRead(s, u, v)
  BY <1>4, OtherReadKeys
<1>5. CASE \E s \in Slots : \E k \in DOMAIN events : ConfirmRead(s, k)
  BY <1>5, OtherReadKeys
<1>6. CASE \E s \in Slots : \E u \in Users : CommitRead(s, u)
  BY <1>6, CommitReadKeys
<1>7. CASE \E s \in Slots : AddWrite(s) \/ RemoveWrite(s) \/ ConfirmWrite(s) \/ CommitWrite(s)
  BY <1>7, AddWriteKeys, RemoveWriteKeys, ConfirmWriteKeys, CommitWriteKeys
<1> QED BY <1>1, <1>2, <1>3, <1>4, <1>5, <1>6, <1>7 DEF Next

GroupInv == TypesInv /\ SeatInv /\ EpochInv /\ KeysInv

(* Every step keeps the invariant.                                          *)
LEMMA GroupStep ==
    ASSUME ConfirmIsSlow, OneAddAtATime, NoQuickReturn, GroupInv, [Next]_vars
    PROVE  GroupInv'
<1>1. TypesInv'
  BY TypesStep DEF GroupInv
<1>2. SeatInv'
  BY SeatsStep DEF GroupInv
<1>3. EpochInv'
  BY EpochStep DEF GroupInv, EpochInv, vars
<1>4. KeysInv'
  BY KeysStep DEF GroupInv
<1> QED BY <1>1, <1>2, <1>3, <1>4 DEF GroupInv

(* The invariant says who can open the group key.                           *)
LEMMA GroupSecret ==
    ASSUME GroupInv
    PROVE  ExcludedUnlessOrphaned /\ MembersHoldSecret
<1>1. UndoneIn(events) = Undone
  BY DEF UndoneIn, Undone
<1>2. SecretHeld(member, events, orphaned, secret) /\ SecretOpen(member, events, epoch, secret)
  BY DEF GroupInv, KeysInv
<1>3. ExcludedUnlessOrphaned
  BY <1>1, <1>2 DEF SecretHeld, ExcludedUnlessOrphaned, RemovalOutstanding, Sits, Active, Leaving, Removes
<1>4. MembersHoldSecret
  <2> SUFFICES ASSUME NEW u \in Users, Active(u), epoch > 0,
                      \A k \in Undone : events[k].subject # u /\ events[k].action # "create"
               PROVE  u \in secret
    BY DEF MembersHoldSecret, ActiveMembers
  <2>1. PICK i \in Leaves : i = member[u].leaf
    BY TypeFacts DEF GroupInv
  <2>2. Sits(member, u, i) /\ Settled(events, UndoneIn(events), u, i)
    BY <1>1, <2>1 DEF Sits, Active, Settled, About
  <2> QED BY <1>2, <2>2 DEF SecretOpen
<1> QED BY <1>3, <1>4

(* A user who has left or was removed can open the group key only until the *)
(* rotation for that change, or as the last below a blanked node, whatever  *)
(* transactions overlap (group_service.py, key_service.py, blockchain.py).  *)
THEOREM GroupSecretExcludes ==
    ASSUME ConfirmIsSlow, OneAddAtATime, NoQuickReturn
    PROVE  Spec => []ExcludedUnlessOrphaned
<1>1. Init => GroupInv
  BY GroupStart DEF GroupInv
<1>2. GroupInv /\ [Next]_vars => GroupInv'
  BY GroupStep
<1>3. GroupInv => ExcludedUnlessOrphaned
  BY GroupSecret
<1> QED BY <1>1, <1>2, <1>3, PTL DEF Spec

(* A member of whom nothing is left to rotate can open the group key, and   *)
(* no later rotation, planned from whatever snapshot, locks the member out. *)
THEOREM GroupSecretReaches ==
    ASSUME ConfirmIsSlow, OneAddAtATime, NoQuickReturn
    PROVE  Spec => []MembersHoldSecret
<1>1. Init => GroupInv
  BY GroupStart DEF GroupInv
<1>2. GroupInv /\ [Next]_vars => GroupInv'
  BY GroupStep
<1>3. GroupInv => MembersHoldSecret
  BY GroupSecret
<1> QED BY <1>1, <1>2, <1>3, PTL DEF Spec

=============================================================================
