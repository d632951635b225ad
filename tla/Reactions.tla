------------------------------- MODULE Reactions -------------------------------
(***************************************************************************)
(* The reactions of one message in one tab (handlers.js pickEmoji; data.js *)
(* saveMessageReaction, decodeReactionRows, applyIncomingReactions) and    *)
(* the server's answers and frames (message_service.py set_reaction).      *)
(*                                                                         *)
(* The server holds who reacted with what; a row says of an emoji how many *)
(* did and whether "mine" is among them, as seen by the account the rows   *)
(* were read for: for a message.reactions frame, the one that reacted.     *)
(***************************************************************************)
EXTENDS Naturals, Sequences, FiniteSets, SequencesExt

CONSTANTS
    Emojis,
    MaxToggles,     \* bound: reactions set or taken back here
    MaxTheirs       \* bound: and by the peer

ASSUME ReactionAssumption == MaxToggles \in Nat /\ MaxTheirs \in Nat

VARIABLES
    mine, theirs,   \* the server: emojis of the user and of the peer
    rows,           \* msg.reactions: for each emoji its count and the flag "mine"
    saving,         \* PUTs on their way: [id, emoji, active, step, previous, answer]
    notices,        \* message.reactions frames on their way
    toggled, turns, \* how many reactions were set here, and by the peer
    raced           \* history: two changes were on their way at once

reactionVars == <<mine, theirs, rows, saving, notices, toggled, turns, raced>>

Rows == [Emojis -> [count: 0 .. 3, mine: BOOLEAN]]
ReactionTypeOK ==
    /\ mine \subseteq Emojis /\ theirs \subseteq Emojis /\ rows \in Rows
    /\ \A s \in saving : s \in [id: 1 .. MaxToggles, emoji: Emojis, active: BOOLEAN,
                                step: {"sent", "stored"}, previous: Rows, answer: Rows]
    /\ ToSet(notices) \subseteq Rows
    /\ toggled \in 0 .. MaxToggles /\ turns \in 0 .. MaxTheirs /\ raced \in BOOLEAN

\* reactions_for_messages: the rows as one of the two accounts sees them.
RowsFor(own, other) ==
    LET One(s, e) == IF e \in s THEN 1 ELSE 0
    IN [e \in Emojis |-> [count |-> One(own, e) + One(other, e), mine |-> e \in own]]

\* pickEmoji: the rows with one reaction added or taken back.
Toggled(e, active) ==
    [rows EXCEPT ![e] = [count |-> IF active THEN @.count + 1
                                   ELSE IF @.count > 1 THEN @.count - 1 ELSE 0,
                         mine |-> active]]

\* The screen changes at once; the PUT says what the flag "mine" on the screen implies.
PickEmoji(e) ==
    LET active == ~rows[e].mine
    IN /\ toggled < MaxToggles /\ rows[e].count + 1 <= 3
       /\ toggled' = toggled + 1
       /\ rows' = Toggled(e, active)
       /\ saving' = saving \union {[id |-> toggled', emoji |-> e, active |-> active, step |-> "sent",
                                    previous |-> rows, answer |-> rows]}
       /\ raced' = (raced \/ saving # {})
       /\ UNCHANGED <<mine, theirs, notices, turns>>

\* set_reaction: stores it, answers with the rows, and tells every member, this one too.
ServerSets(s) ==
    LET now == IF s.active THEN mine \union {s.emoji} ELSE mine \ {s.emoji}
    IN /\ s.step = "sent"
       /\ mine' = now
       /\ saving' = (saving \ {s}) \union
                      {[s EXCEPT !.step = "stored", !.answer = RowsFor(now, theirs)]}
       /\ notices' = Append(notices, RowsFor(now, theirs))
       /\ UNCHANGED <<theirs, rows, toggled, turns, raced>>

SaveAnswered(s) ==
    /\ s.step = "stored"
    /\ rows' = s.answer /\ saving' = saving \ {s}
    /\ UNCHANGED <<mine, theirs, notices, toggled, turns, raced>>

\* Mutant for CountsAgree: the screen keeps a reaction the server refused.
NotRestored(s) == rows

\* What was on the screen before the pick comes back.
Restored(s) == s.previous

\* No key, a refusal, or a lost answer: what was stored comes back with its frame.
SaveFailed(s) ==
    /\ rows' = Restored(s) /\ saving' = saving \ {s}
    /\ raced' = (raced \/ s.step = "stored")
    /\ UNCHANGED <<mine, theirs, notices, toggled, turns>>

\* The peer sets or takes back a reaction: the frame carries the peer's view of it.
PeerReacts(e) ==
    LET now == IF e \in theirs THEN theirs \ {e} ELSE theirs \union {e}
    IN /\ turns < MaxTheirs /\ turns' = turns + 1
       /\ theirs' = now
       /\ notices' = Append(notices, RowsFor(now, mine))
       /\ raced' = (raced \/ saving # {})
       /\ UNCHANGED <<mine, rows, saving, toggled>>

\* applyIncomingReactions: the rows are taken as they come, the flag "mine" included.
ApplyNotice ==
    /\ notices # <<>>
    /\ rows' = Head(notices) /\ notices' = Tail(notices)
    /\ raced' = (raced \/ saving # {})
    /\ UNCHANGED <<mine, theirs, saving, toggled, turns>>

NoticeLost ==
    /\ notices # <<>>
    /\ notices' = <<>> /\ raced' = TRUE
    /\ UNCHANGED <<mine, theirs, rows, saving, toggled, turns>>

\* The page with the message is read again (loadMessages) when nothing is on its way.
ReadAgain ==
    /\ saving = {} /\ notices = <<>>
    /\ rows' = RowsFor(mine, theirs) /\ raced' = FALSE
    /\ UNCHANGED <<mine, theirs, saving, notices, toggled, turns>>

ReactionInit ==
    /\ mine \in SUBSET Emojis /\ theirs \in SUBSET Emojis /\ rows = RowsFor(mine, theirs)
    /\ saving = {} /\ notices = <<>> /\ toggled = 0 /\ turns = 0 /\ raced = FALSE

ReactionNext ==
    \/ \E e \in Emojis : PickEmoji(e) \/ PeerReacts(e)
    \/ \E s \in saving : ServerSets(s) \/ SaveAnswered(s) \/ SaveFailed(s)
    \/ ApplyNotice \/ NoticeLost \/ ReadAgain

ReactionSpec == ReactionInit /\ [][ReactionNext]_reactionVars

AllApplied == saving = {} /\ notices = <<>> /\ ~raced

\* Once everything has arrived, and no two changes were on their way at once, every emoji
\* has the count it has on the server: the optimistic change of a refused reaction is
\* undone, and one stored is not counted twice by its answer and its frame.
CountsAgree == AllApplied =>
    \A e \in Emojis : rows[e].count = RowsFor(mine, theirs)[e].count
=============================================================================
