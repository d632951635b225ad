------------------------------ MODULE MCScreens ------------------------------
(***************************************************************************)
(* The screens of the client, and its pure algorithms, for TLC: a behaviour *)
(* is one of the part that subject names, the variables of the others keep  *)
(* their first values.                                                      *)
(***************************************************************************)
EXTENDS Router, ScanPage, SettingsPage, Reactions, Searches, Rendering, TLC

CONSTANTS
    Realms, SecretBytes, RandomBytes,    \* SecretShares
    Events, MaxBatch,                    \* MerkleTree
    MaxNewer                             \* WireFormat

VARIABLES
    subject,
    secret, coefficients, shares, joined,
    events, level, positions, proofs,
    frame, wire, added, cut, read

\* Frames with values at the boundaries of a byte of a varint, empty ones among them.
Packets ==
    {[client_msg_id |-> "a", key_epoch |-> e, nonce |-> b, search_tokens |-> t] :
        e \in {0, 127, 128, 300}, b \in {<<>>, <<255, 0>>}, t \in {<<>>, <<"", "io">>}}
Frames ==
    {[event |-> "io", seq |-> s, packet |-> p] : s \in {1, 16384}, p \in Packets}
        \union {[event |-> "a", seq |-> s] : s \in {0, 127, 128, 2097152}}

\* A field of each wire type with a number that the schema has not.
Newer ==
    {[num |-> 19, wireType |-> 0, bytes |-> <<200, 1>>],
     [num |-> 19, wireType |-> 1, bytes |-> <<1, 2, 3, 4, 5, 6, 7, 8>>],
     [num |-> 19, wireType |-> 2, bytes |-> <<8, 128, 7>>],
     [num |-> 19, wireType |-> 5, bytes |-> <<1, 2, 3, 4>>]}

Secret == INSTANCE SecretShares
Merkle == INSTANCE MerkleTree
Wire == INSTANCE WireFormat

ASSUME PartsAssumption ==
    Secret!SharesAssumption /\ Merkle!MerkleAssumption /\ Wire!WireAssumption

sharesVars == <<secret, coefficients, shares, joined>>
merkleVars == <<events, level, positions, proofs>>
wireVars == <<frame, wire, added, cut, read>>
codecVars == <<sharesVars, merkleVars, wireVars>>

\* A part that is not the subject has one first value.
First(part, holds) == subject # part => holds

Init ==
    /\ subject \in {"router", "scan", "settings", "reactions", "searches", "drawing", "shares", "merkle", "wire"}
    /\ ScanInit /\ SearchInit /\ RenderingInit
    /\ RouterInit /\ First("router", entries[1].path = CHOOSE p \in Paths : TRUE)
    /\ SettingsInit /\ First("settings", ~saved)
    /\ ReactionInit /\ First("reactions", mine = {} /\ theirs = {})
    /\ Secret!SharesInit /\ First("shares", secret = CHOOSE s \in SecretBytes : TRUE)
    /\ Merkle!MerkleInit /\ First("merkle", events = <<CHOOSE e \in Events : TRUE>>)
    /\ Wire!WireInit /\ First("wire", frame = [event |-> "a", seq |-> 0])

Next ==
    /\ UNCHANGED subject
    /\ \/ /\ subject = "router" /\ RouterNext
          /\ UNCHANGED <<scanVars, settingsVars, reactionVars, searchVars, renderingVars, codecVars>>
       \/ /\ subject = "scan" /\ ScanNext
          /\ UNCHANGED <<routerVars, settingsVars, reactionVars, searchVars, renderingVars, codecVars>>
       \/ /\ subject = "settings" /\ SettingsNext
          /\ UNCHANGED <<routerVars, scanVars, reactionVars, searchVars, renderingVars, codecVars>>
       \/ /\ subject = "reactions" /\ ReactionNext
          /\ UNCHANGED <<routerVars, scanVars, settingsVars, searchVars, renderingVars, codecVars>>
       \/ /\ subject = "searches" /\ SearchNext
          /\ UNCHANGED <<routerVars, scanVars, settingsVars, reactionVars, renderingVars, codecVars>>
       \/ /\ subject = "drawing" /\ RenderingNext
          /\ UNCHANGED <<routerVars, scanVars, settingsVars, reactionVars, searchVars, codecVars>>
       \/ /\ \/ subject = "shares" /\ Secret!SharesNext /\ UNCHANGED <<merkleVars, wireVars>>
             \/ subject = "merkle" /\ Merkle!MerkleNext /\ UNCHANGED <<sharesVars, wireVars>>
             \/ subject = "wire" /\ Wire!WireNext /\ UNCHANGED <<sharesVars, merkleVars>>
          /\ UNCHANGED <<routerVars, scanVars, settingsVars, reactionVars, searchVars, renderingVars>>

SumSpec ==
    /\ Init
    /\ [][Next]_<<subject, routerVars, scanVars, settingsVars, reactionVars, searchVars, renderingVars, codecVars>>
    /\ ScanFairness

----------------------------------------------------------------------------
\* Any two shares give the key, one says nothing of it (SecretShares).
SharesWork == subject = "shares" => Secret!SharesWork

\* Proofs lead to the root, a root stands for one batch (MerkleTree).
TreeSound == subject = "merkle" => Merkle!TreeSound

\* A frame is read as it was sent or not at all (WireFormat).
FramesSurvive == subject = "wire" => Wire!FramesSurvive
=============================================================================
