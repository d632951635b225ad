------------------------------ MODULE Rendering ------------------------------
(***************************************************************************)
(* The drawing of the page (app/engine.js): render, and morphChildren,     *)
(* which turns the children of an element into those of fresh markup node  *)
(* by node.  Taking the focused node out of its place makes the browser    *)
(* send blur at once; its handler may call setState in the middle of it.   *)
(***************************************************************************)
EXTENDS Naturals, Sequences

CONSTANTS
    MarkKeys,  \* values of data-mk
    NoMark,    \* a node without one
    NodeKinds, \* node types and names
    Attributes, \* attributes and text
    MaxNodes,  \* bound: children of the element
    MaxStates  \* bound: changes of the state during one drawing

ASSUME RenderingAssumption ==
    /\ NoMark \notin MarkKeys
    /\ MaxNodes \in Nat /\ MaxStates \in Nat

VARIABLES
    wanted,   \* the markup that the state asks for now
    placed, rest,   \* the children before the cursor and from the cursor on
    source,   \* what is left of the fresh markup
    rendering, dirty,
    was,      \* history: the marked nodes there were when the drawing began
    nested    \* changes of the state during this drawing

renderingVars == <<wanted, placed, rest, source, rendering, dirty, was, nested>>

Node == [key : MarkKeys \union {NoMark}, kind : NodeKinds, text : Attributes]
Live == [look : Node, kept : BOOLEAN, focused : BOOLEAN]

MarkedOnce(s) == \A i, j \in DOMAIN s : s[i].key = s[j].key /\ s[i].key # NoMark => i = j
Markup == {s \in UNION {[1 .. n -> Node] : n \in 0 .. MaxNodes} : MarkedOnce(s)}

RenderingTypeOK ==
    /\ wanted \in Markup
    /\ placed \in Seq(Live) /\ rest \in Seq(Live)
    /\ source \in Seq(Node)
    /\ rendering \in BOOLEAN /\ dirty \in BOOLEAN /\ was \subseteq MarkKeys \X NodeKinds /\ nested \in 0 .. MaxStates

Looks(s) == [i \in DOMAIN s |-> s[i].look]
SameKind(n, fresh) == n.look.kind = fresh.kind
Without(s, i) == SubSeq(s, 1, i - 1) \o SubSeq(s, i + 1, Len(s))

----------------------------------------------------------------------------
(* render *)

\* Drawing begins with the nodes there are.
Begin(dom, markup) ==
    /\ rendering' = TRUE
    /\ source' = markup /\ placed' = <<>>
    /\ rest' = [i \in DOMAIN dom |-> [dom[i] EXCEPT !.kept = TRUE]]
    /\ was' = {<<dom[i].look.key, dom[i].look.kind>> : i \in {j \in DOMAIN dom : dom[j].look.key # NoMark}}
    /\ dirty' = FALSE /\ nested' = 0

\* setState outside a drawing.
SetState(markup) ==
    /\ ~rendering
    /\ wanted' = markup
    /\ Begin(placed, markup)

\* The user puts the focus on a node.
Focus(i) ==
    /\ ~rendering /\ i \in DOMAIN placed
    /\ placed' = [j \in DOMAIN placed |-> [placed[j] EXCEPT !.focused = (j = i)]]
    /\ UNCHANGED <<wanted, rest, source, rendering, dirty, was, nested>>

\* Mutant for DrawingRight: a call of render inside another one is lost.
BlurLost(n) ==
    /\ UNCHANGED dirty
    /\ \/ UNCHANGED <<wanted, nested>>
       \/ n.focused /\ nested < MaxStates /\ nested' = nested + 1 /\ wanted' \in Markup

\* A focused node leaves its place: its handler may change the state, and render only notes it.
Blur(n) ==
    \/ UNCHANGED <<wanted, dirty, nested>>
    \/ /\ n.focused /\ nested < MaxStates
       /\ nested' = nested + 1 /\ wanted' \in Markup /\ dirty' = TRUE

\* The drawing is over; a state that changed meanwhile is drawn as well.
Finish ==
    /\ rendering /\ source = <<>> /\ rest = <<>>
    /\ IF dirty THEN Begin(placed, wanted)
       ELSE rendering' = FALSE /\ UNCHANGED <<placed, rest, source, was, dirty, nested>>
    /\ UNCHANGED wanted

----------------------------------------------------------------------------
(* morphChildren *)

\* A marked node matches the one of its mark, wherever it stands; others match at the cursor.
Match(fresh) ==
    {i \in DOMAIN rest : /\ rest[i].look.key = fresh.key /\ SameKind(rest[i], fresh)
                         /\ fresh.key = NoMark => i = 1}

\* A new node is put before the cursor.
Insert ==
    /\ source # <<>> /\ Match(Head(source)) = {}
    /\ placed' = Append(placed, [look |-> Head(source), kept |-> FALSE, focused |-> FALSE])
    /\ source' = Tail(source)
    /\ UNCHANGED <<wanted, rest, rendering, dirty, was, nested>>

\* A matching node stays, or is moved before the cursor, and takes the fresh attributes.
Reuse ==
    /\ source # <<>>
    /\ \E i \in Match(Head(source)) :
         /\ placed' = Append(placed, [rest[i] EXCEPT !.look = Head(source), !.focused = @ /\ i = 1])
         /\ rest' = Without(rest, i)
         /\ IF i = 1 THEN UNCHANGED <<wanted, dirty, nested>> ELSE Blur(rest[i])
    /\ source' = Tail(source)
    /\ UNCHANGED <<rendering, was>>

\* What is left from the cursor on is removed.
RemoveNode ==
    /\ rendering /\ source = <<>> /\ rest # <<>>
    /\ rest' = Tail(rest)
    /\ Blur(Head(rest))
    /\ UNCHANGED <<placed, source, rendering, was>>

RenderingInit ==
    /\ wanted = <<>> /\ placed = <<>> /\ rest = <<>> /\ source = <<>>
    /\ rendering = FALSE /\ dirty = FALSE /\ was = {} /\ nested = 0

RenderingNext ==
    \/ (\E m \in Markup : SetState(m)) \/ (\E i \in 1 .. MaxNodes : Focus(i))
    \/ Finish \/ Insert \/ Reuse \/ RemoveNode

RenderingSpec == RenderingInit /\ [][RenderingNext]_renderingVars

----------------------------------------------------------------------------
\* Whatever was there and whatever the handlers did meanwhile, the page shows the state.
DrawnIsWanted == ~rendering => Looks(placed) = wanted

\* A marked node that is there before and after keeps its identity, with its animations,
\* focus and scrolling, wherever it has moved to.
MarkedNodesKept ==
    \A i \in DOMAIN placed : placed[i].kept \/ <<placed[i].look.key, placed[i].look.kind>> \notin was

\* What a drawing comes to.
DrawingRight == DrawnIsWanted /\ MarkedNodesKept
=============================================================================
