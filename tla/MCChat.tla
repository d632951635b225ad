-------------------------------- MODULE MCChat --------------------------------
(***************************************************************************)
(* The messages of the open chat and the list of chats, for TLC: a          *)
(* behaviour is one of the part that subject names.                         *)
(***************************************************************************)
EXTENDS MessageList, ThreadList, TLC

VARIABLE subject

Init == subject \in {"messages", "threads"} /\ MessageInit /\ ThreadInit

Next ==
    /\ UNCHANGED subject
    /\ \/ subject = "messages" /\ MessageNext /\ UNCHANGED threadVars
       \/ subject = "threads" /\ ThreadNext /\ UNCHANGED messageVars

SumSpec == Init /\ [][Next]_<<subject, messageVars, threadVars>>

----------------------------------------------------------------------------
Symmetry == Permutations(Threads)

\* Bounds: one message expires, and only in a chat that nobody clears.
MessageBound == expired # {} => Cardinality(expired) = 1 /\ cleared = 0 /\ clearing = "no"

\* Bounds: two things on their way, one while the list is outdated; one unusual event; the
\* window is hidden with a chat open only.
OnTheirWay == Cardinality(answers) + Cardinality(incoming) + Cardinality(reading) + Cardinality(asked)
                + Len(events) + (IF timer THEN 1 ELSE 0)
ThreadBound ==
    /\ OnTheirWay <= (IF outdated THEN 1 ELSE 2)
    /\ Cardinality(skewed) + (IF outdated THEN 1 ELSE 0) <= 1
    /\ hidden => active # Nobody

Bound == MessageBound /\ ThreadBound

=============================================================================
