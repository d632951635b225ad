------------------------------- MODULE Searches -------------------------------
(***************************************************************************)
(* The two searches of the tab, of people (searchContacts) and of messages *)
(* (searchMessages): the field is searched for when the user has stopped   *)
(* typing for a while, answers overlap, and each is numbered.              *)
(***************************************************************************)
EXTENDS Naturals, FiniteSets

CONSTANTS
    Texts,       \* what may be typed
    Wordless,    \* the texts of them without a word to search for
    Nothing,     \* the empty field, no results
    MaxSearches  \* bound: searches of each kind

ASSUME SearchAssumption == Wordless \subseteq Texts /\ Nothing \notin Texts /\ MaxSearches \in Nat

VARIABLES
    field,    \* the text in the field
    waiting,  \* contactsTimer, msgSearchTimer: the text that will be searched for
    seq,      \* contactsSeq, searchSeq
    sent,     \* searches on their way: [kind, seq, text, step]
    results,  \* the text whose results are shown
    failed    \* history: the last search was not answered

searchVars == <<field, waiting, seq, sent, results, failed>>

Kinds == {"people", "messages"}
Search == [kind: Kinds, seq: 1 .. MaxSearches, text: Texts, step: {"asked", "decrypting"}]

SearchTypeOK ==
    /\ field \in [Kinds -> Texts \union {Nothing}] /\ waiting \in [Kinds -> Texts \union {Nothing}]
    /\ seq \in [Kinds -> 0 .. MaxSearches] /\ sent \subseteq Search
    /\ results \in [Kinds -> Texts \union {Nothing}] /\ failed \in [Kinds -> BOOLEAN]

\* onNewQuery, onGroupQuery, onMsgQuery: the timer starts anew with the text typed.
Type(k, text) ==
    /\ field[k] # text
    /\ field' = [field EXCEPT ![k] = text] /\ waiting' = [waiting EXCEPT ![k] = text]
    /\ UNCHANGED <<seq, sent, results, failed>>

\* The timer fires.  A text without words has no results, and its number makes earlier
\* answers late.
StartSearch(k) ==
    /\ waiting[k] # Nothing /\ seq[k] < MaxSearches
    /\ waiting' = [waiting EXCEPT ![k] = Nothing]
    /\ seq' = [seq EXCEPT ![k] = @ + 1]
    /\ failed' = [failed EXCEPT ![k] = FALSE]
    /\ IF k = "messages" /\ waiting[k] \in Wordless
       THEN results' = [results EXCEPT ![k] = Nothing] /\ UNCHANGED sent
       ELSE /\ sent' = sent \union {[kind |-> k, seq |-> seq'[k], text |-> waiting[k], step |-> "asked"]}
            /\ UNCHANGED results
    /\ UNCHANGED field

\* The messages found are decrypted before they are shown.
Found(s) ==
    /\ s.kind = "messages" /\ s.step = "asked"
    /\ sent' = (sent \ {s}) \union {[s EXCEPT !.step = "decrypting"]}
    /\ UNCHANGED <<field, waiting, seq, results, failed>>

\* Mutant for SearchShowsLast: any answer is shown.
AnySearch(s) == s.seq <= seq[s.kind]

LastSearch(s) == s.seq = seq[s.kind]

Answered(s) ==
    /\ s.kind = "messages" => s.step = "decrypting"
    /\ sent' = sent \ {s}
    /\ results' = IF LastSearch(s) THEN [results EXCEPT ![s.kind] = s.text] ELSE results
    /\ UNCHANGED <<field, waiting, seq, failed>>

\* A failed search leaves the results of the one before.
SearchFailed(s) ==
    /\ sent' = sent \ {s}
    /\ failed' = IF s.seq = seq[s.kind] THEN [failed EXCEPT ![s.kind] = TRUE] ELSE failed
    /\ UNCHANGED <<field, waiting, seq, results>>

\* openSearch, closeSearch, clearMsgQuery, jumpToResult: neither the timer nor a search on
\* its way is stopped.
ClearMessages ==
    /\ field["messages"] # Nothing
    /\ field' = [field EXCEPT !["messages"] = Nothing]
    /\ results' = [results EXCEPT !["messages"] = Nothing]
    /\ UNCHANGED <<waiting, seq, sent, failed>>

SearchInit ==
    /\ field = [k \in Kinds |-> Nothing] /\ waiting = [k \in Kinds |-> Nothing]
    /\ seq = [k \in Kinds |-> 0] /\ sent = {}
    /\ results = [k \in Kinds |-> Nothing] /\ failed = [k \in Kinds |-> FALSE]

SearchNext ==
    \/ \E k \in Kinds : (\E text \in Texts : Type(k, text)) \/ StartSearch(k)
    \/ \E s \in sent : Found(s) \/ Answered(s) \/ SearchFailed(s)
    \/ ClearMessages

SearchSpec == SearchInit /\ [][SearchNext]_searchVars

\* When the user has stopped typing and no answer is on its way, the results beside a text
\* are that text's, in whatever order the answers came; excused after a failed search.
SearchShowsLast ==
    \A k \in Kinds :
        /\ waiting[k] = Nothing /\ field[k] # Nothing /\ ~failed[k]
        /\ \A s \in sent : s.kind # k
        => results[k] = IF k = "messages" /\ field[k] \in Wordless THEN Nothing ELSE field[k]
=============================================================================
