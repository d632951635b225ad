------------------------------- MODULE KeyTree -------------------------------
(***************************************************************************)
(* The key tree of a group: src/backend/app/services/treekem.py.  Node     *)
(* numbers are those of the array form of a left-balanced tree: leaf i is  *)
(* node 2i and the level of a node is the number of its trailing one bits. *)
(* The bit operations of the source are written as the arithmetic they     *)
(* amount to on such numbers, and the walks up and down the tree as the    *)
(* set of nodes they find; the last section has the walks, for comparison. *)
(*                                                                         *)
(* A tree is given by its capacity and by the set of its nonblank nodes.   *)
(***************************************************************************)
EXTENDS Naturals, FiniteSets

(* level counts the trailing one bits of x: Ones[x] is the number that     *)
(* these bits make, 2^level - 1.                                           *)
Ones[x \in Nat] == IF x % 2 = 0 THEN 0 ELSE 2 * Ones[x \div 2] + 1

LeafNode(i) == 2 * i
NodeCount(capacity) == 2 * capacity - 1
Root(capacity) == capacity - 1

(* Below x lie the nodes whose numbers differ from x in the trailing bits. *)
Subtree(x) == (x - Ones[x]) .. (x + Ones[x])

(* For a level k > 0, x ^ (1 << (k-1)) clears bit k-1, which is set, and   *)
(* x ^ (3 << (k-1)) also sets bit k, which is clear.                       *)
Left(x)  == x - ((Ones[x] + 1) \div 2)
Right(x) == x + ((Ones[x] + 1) \div 2)

(* direct_path: the nodes from the parent of x up to the root. *)
DirectPath(x, capacity) == {n \in 0..(NodeCount(capacity) - 1) \ {x} : x \in Subtree(n)}

(* subtree_leaves: leaf numbers under node x. *)
SubtreeLeaves(x) ==
    LET first == (x - Ones[x]) \div 2 IN first..(first + Ones[x])

(* The powers of two: all the bits of the number before are ones. *)
Powers == {c \in Nat \ {0} : Ones[c - 1] = c - 1}

(* capacity_for: the least power of two that is not below n > 0. *)
CapacityFor(n) == CHOOSE c \in (n..(2 * n)) \intersect Powers : \A d \in n..(c - 1) : d \notin Powers

Inner(capacity) == {n \in 0..(NodeCount(capacity) - 1) : Ones[n] > 0}

----------------------------------------------------------------------------
(* Planning a commit *)

(* resolution: the nonblank nodes nearest to n that cover its subtree. *)
Resolution(n, filled) ==
    LET below == filled \intersect Subtree(n)
    IN  {t \in below : \A a \in below : t \in Subtree(a) => a = t}

(* plan_commit: of the paths above the changed leaves (of every inner node *)
(* if full) the nodes with a member below get a fresh key, the others      *)
(* become blank; a fresh key is sealed to the resolutions of the node's    *)
(* children, in which fresh nodes count as nonblank.                       *)
PlanCommit(capacity, filled, changed, full) ==
    LET occupied == {i \in 0..(capacity - 1) : LeafNode(i) \in filled}
        candidates ==
          IF capacity = 1 THEN {}
          ELSE IF full THEN Inner(capacity)
          ELSE UNION {DirectPath(LeafNode(i), capacity) : i \in changed}
        fresh == {n \in candidates : SubtreeLeaves(n) \intersect occupied # {}}
    IN  [path |-> fresh,
         blanks |-> candidates \ fresh,
         targets |-> [n \in fresh |->
            Resolution(Left(n), filled \union fresh)
              \union Resolution(Right(n), filled \union fresh)]]

----------------------------------------------------------------------------
(* The walks *)

(* (x | (1 << k)) ^ (b << (k+1)) with b the bit k+1 of x: the parent lies  *)
(* 2^k above a left child and 2^k below a right one.                       *)
Parent(x) ==
    LET size == Ones[x] + 1 IN
      IF (x \div (2 * size)) % 2 = 0 THEN x + size ELSE x - size

(* direct_path, node by node. *)
PathWalk(x, capacity) ==
    LET path[n \in Nat] ==
          IF n = Root(capacity) THEN {} ELSE {Parent(n)} \union path[Parent(n)]
    IN  path[x]

(* resolution, child by child. *)
CoverWalk(x, filled) ==
    LET cover[n \in Nat] ==
          IF n \in filled THEN {n}
          ELSE IF Ones[n] = 0 THEN {}
          ELSE cover[Left(n)] \union cover[Right(n)]
    IN  cover[x]

=============================================================================
