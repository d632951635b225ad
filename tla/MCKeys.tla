-------------------------------- MODULE MCKeys --------------------------------
(***************************************************************************)
(* The keys of direct chats and of groups in the client, for TLC: a         *)
(* behaviour is one of the part that subject names.                         *)
(***************************************************************************)
EXTENDS DirectKeys, GroupClient, TLC

VARIABLE subject

Init ==
    /\ subject \in {"direct", "group"}
    /\ DirectInit
    /\ GroupClientInit /\ (subject # "group" => tree.occupied = {MyLeaf})

Next ==
    /\ UNCHANGED subject
    /\ \/ subject = "direct" /\ DirectNext /\ UNCHANGED groupVars
       \/ subject = "group" /\ GroupClientNext /\ UNCHANGED directVars

SumSpec == Init /\ [][Next]_<<subject, directVars, groupVars>>

----------------------------------------------------------------------------
Symmetry == Permutations(Members) \union Permutations(Slots)

\* Bounds: two sends, one unusual event, one frame for each member.
Sending == Cardinality({x \in Members \X Slots : send[x[1]][x[2]] # Free})
Unusual == losses + Cardinality({u \in Members : reload[u] # Quiet}) + Cardinality({u \in Members : made[u] = 2})
Bound == Sending <= 2 /\ Unusual <= 1 /\ \A u \in Members : Cardinality(frames[u]) <= 1

----------------------------------------------------------------------------
\* The paths and resolutions of a tree are the ones that treekem.py walks along, whatever is
\* blank: TLC compares them for trees of up to 8 leaves, the resolutions for up to 4.
ASSUME PathsAreWalks ==
    \A capacity \in {1, 2, 4, 8} : \A x \in 0 .. (NodeCount(capacity) - 1) :
        DirectPath(x, capacity) = PathWalk(x, capacity)
ASSUME ResolutionsAreWalks ==
    \A capacity \in {1, 2, 4} : LET nodes == 0 .. (NodeCount(capacity) - 1) IN
        \A x \in nodes, filled \in SUBSET nodes : Resolution(x, filled) = CoverWalk(x, filled)
=============================================================================
