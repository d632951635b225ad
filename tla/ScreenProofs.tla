---------------------------- MODULE ScreenProofs ----------------------------
(***************************************************************************)
(* Proofs about the screens of the client, for any number of words, flips, *)
(* emojis, nodes, chats and requests under way: a late answer never shows  *)
(* what is no longer true, and the address, the screen and the drawn page  *)
(* agree.  None of these properties is inductive: each speaks of a page    *)
(* with nothing under way, so its invariant says what the requests under   *)
(* way will bring.                                                         *)
(***************************************************************************)
EXTENDS Router, SettingsPage, Searches, Reactions, Rendering, SequenceTheorems, TLAPS

----------------------------------------------------------------------------
(* Searches (Searches). Each field has a counter; only the answer with the *)
(* number of the counter is shown. The invariant says that the search with *)
(* that number was for the text in the field, and that it is on its way or *)
(* was answered.                                                           *)

(* The results that belong to the text in the field. *)
Expected(k) == IF k = "messages" /\ field[k] \in Wordless THEN Nothing ELSE field[k]

(* The timer waits with the text of the field, unless the field was cleared. *)
TimerFollowsField == \A k \in Kinds : waiting[k] # Nothing => field[k] \in {waiting[k], Nothing}

(* No search is newer than the counter, and no two have one number. *)
Numbered ==
    /\ \A s \in sent : s.seq <= seq[s.kind]
    /\ \A s, t \in sent : s.kind = t.kind /\ s.seq = t.seq => s = t

(* The last search is for the text in the field. *)
LastIsForField ==
    \A s \in sent : LastSearch(s) /\ waiting[s.kind] = Nothing /\ field[s.kind] # Nothing
        => s.text = field[s.kind] /\ s.text = Expected(s.kind)

(* It is on its way or its results are shown. *)
LastIsDue ==
    \A k \in Kinds : waiting[k] = Nothing /\ field[k] # Nothing /\ ~failed[k]
        => results[k] = Expected(k) \/ \E s \in sent : s.kind = k /\ LastSearch(s)

SearchInv == SearchTypeOK /\ TimerFollowsField /\ Numbered /\ LastIsForField /\ LastIsDue

(* At first nothing is typed and nothing was asked.                        *)
LEMMA SearchStart == SearchInit => SearchInv
BY SearchAssumption DEF SearchAssumption, SearchInit, SearchInv, SearchTypeOK, TimerFollowsField, Numbered,
   LastIsForField, LastIsDue, Kinds

(* A letter typed takes the place of the text that waited.                 *)
LEMMA TypeKeeps ==
    ASSUME SearchInv, NEW k \in Kinds, NEW text \in Texts, Type(k, text)
    PROVE  SearchInv'
<1> USE DEF Type
<1>1. SearchTypeOK'
  BY DEF SearchInv, SearchTypeOK
<1>2. TimerFollowsField'
  BY DEF SearchInv, SearchTypeOK, TimerFollowsField
<1>3. Numbered'
  BY DEF SearchInv, Numbered
<1>4. LastIsForField'
  BY DEF SearchInv, SearchTypeOK, LastIsForField, LastSearch, Expected, Search
<1>5. LastIsDue'
  BY DEF SearchInv, SearchTypeOK, LastIsDue, LastSearch, Expected
<1> QED BY <1>1, <1>2, <1>3, <1>4, <1>5 DEF SearchInv

(* The timer fires: the new search has the largest number of its kind, the *)
(* older ones are no longer the last.                                      *)
LEMMA StartSearchKeeps ==
    ASSUME SearchInv, NEW k \in Kinds, StartSearch(k)
    PROVE  SearchInv'
<1> DEFINE new == [kind |-> k, seq |-> seq[k] + 1, text |-> waiting[k], step |-> "asked"]
<1> DEFINE wordless == k = "messages" /\ waiting[k] \in Wordless
<1>1. /\ seq \in [Kinds -> 0 .. MaxSearches] /\ waiting \in [Kinds -> Texts \union {Nothing}]
      /\ field \in [Kinds -> Texts \union {Nothing}] /\ results \in [Kinds -> Texts \union {Nothing}]
      /\ failed \in [Kinds -> BOOLEAN] /\ sent \subseteq Search
  BY DEF SearchInv, SearchTypeOK
<1>2. /\ waiting[k] # Nothing /\ seq[k] < MaxSearches /\ seq[k] \in Nat /\ waiting[k] \in Texts
      /\ waiting' = [waiting EXCEPT ![k] = Nothing] /\ seq' = [seq EXCEPT ![k] = @ + 1]
      /\ failed' = [failed EXCEPT ![k] = FALSE] /\ field' = field
  BY <1>1, SearchAssumption DEF StartSearch, SearchAssumption
<1>3. /\ seq'[k] = seq[k] + 1 /\ seq[k] + 1 \in 1 .. MaxSearches
      /\ \A j \in Kinds : j # k => seq'[j] = seq[j] /\ waiting'[j] = waiting[j] /\ failed'[j] = failed[j]
      /\ waiting'[k] = Nothing /\ ~failed'[k]
  BY <1>1, <1>2, SearchAssumption DEF SearchAssumption
<1>4. \/ wordless /\ results' = [results EXCEPT ![k] = Nothing] /\ sent' = sent
      \/ ~wordless /\ sent' = sent \union {new} /\ results' = results
  BY <1>3 DEF StartSearch
<1>5. new \in Search
  BY <1>2, <1>3 DEF Search
<1>6. field[k] \in {waiting[k], Nothing}
  BY <1>2 DEF SearchInv, TimerFollowsField
<1>7. \A s \in sent : s.kind \in Kinds /\ s.seq <= seq[s.kind] /\ s.seq \in Nat
  BY <1>1 DEF SearchInv, Numbered, Search
<1>8. \A s \in sent : s.kind = k => s.seq # seq'[k]
  BY <1>3, <1>7, <1>2
<1>9. new.kind = k /\ new.seq = seq'[k] /\ new.text = waiting[k]
  BY <1>3
<1> HIDE DEF new, wordless
<1>10. SearchTypeOK'
  <2>1. waiting' \in [Kinds -> Texts \union {Nothing}] /\ failed' \in [Kinds -> BOOLEAN] /\ field' = field
    BY <1>1, <1>2
  <2>2. seq' \in [Kinds -> 0 .. MaxSearches]
    BY <1>1, <1>2, <1>3
  <2>3. results' \in [Kinds -> Texts \union {Nothing}] /\ sent' \subseteq Search
    BY <1>1, <1>4, <1>5
  <2> QED BY <2>1, <2>2, <2>3, <1>1 DEF SearchTypeOK
<1>11. TimerFollowsField'
  BY <1>2, <1>3 DEF SearchInv, TimerFollowsField
<1>12. Numbered'
  <2>1. \A s \in sent' : s.seq <= seq'[s.kind]
    <3> SUFFICES ASSUME NEW s \in sent' PROVE s.seq <= seq'[s.kind]
      OBVIOUS
    <3>1. CASE s \in sent
      BY <3>1, <1>7, <1>3, <1>2, <1>1
    <3>2. CASE s = new
      BY <3>2, <1>9, <1>3, <1>2
    <3> QED BY <3>1, <3>2, <1>4
  <2>2. \A s, t \in sent' : s.kind = t.kind /\ s.seq = t.seq => s = t
    BY <1>4, <1>8, <1>9 DEF SearchInv, Numbered
  <2> QED BY <2>1, <2>2 DEF Numbered
<1>13. LastIsForField'
  <2> SUFFICES ASSUME NEW s \in sent', s.seq = seq'[s.kind], waiting'[s.kind] = Nothing, field'[s.kind] # Nothing
               PROVE  s.text = field'[s.kind] /\ s.text = Expected(s.kind)'
    BY DEF LastIsForField, LastSearch
  <2>1. CASE s \in sent
    <3>1. s.kind # k
      BY <2>1, <1>8
    <3> QED BY <3>1, <2>1, <1>7, <1>3, <1>2 DEF SearchInv, LastIsForField, LastSearch, Expected
  <2>2. CASE s \notin sent
    <3>1. s = new /\ ~wordless
      BY <2>2, <1>4
    <3>2. s.text = field[k] /\ s.kind = k
      BY <3>1, <1>9, <1>6, <1>2
    <3> QED BY <3>1, <3>2, <1>2, <1>9 DEF Expected, wordless
  <2> QED BY <2>1, <2>2
<1>14. LastIsDue'
  <2> SUFFICES ASSUME NEW j \in Kinds, waiting'[j] = Nothing, field'[j] # Nothing, ~failed'[j]
               PROVE  results'[j] = Expected(j)' \/ \E s \in sent' : s.kind = j /\ s.seq = seq'[s.kind]
    BY DEF LastIsDue, LastSearch
  <2>1. CASE j = k /\ wordless
    BY <2>1, <1>1, <1>4, <1>6, <1>2 DEF Expected, wordless
  <2>2. CASE j = k /\ ~wordless
    BY <2>2, <1>4, <1>9
  <2>3. CASE j # k
    BY <2>3, <1>1, <1>2, <1>3, <1>4 DEF SearchInv, LastIsDue, LastSearch, Expected
  <2> QED BY <2>1, <2>2, <2>3
<1> QED BY <1>10, <1>11, <1>12, <1>13, <1>14 DEF SearchInv

(* An answer that comes first shows its rows only if it is the last.       *)
LEMMA FoundKeeps ==
    ASSUME SearchInv, NEW s \in sent, Found(s)
    PROVE  SearchInv'
<1> DEFINE new == [s EXCEPT !.step = "decrypting"]
<1>1. sent \subseteq Search /\ s \in Search
  BY DEF SearchInv, SearchTypeOK
<1>2. new \in Search /\ new.kind = s.kind /\ new.seq = s.seq /\ new.text = s.text
  BY <1>1 DEF Search
<1>3. sent' = (sent \ {s}) \union {new} /\ UNCHANGED <<field, waiting, seq, results, failed>>
  BY DEF Found
<1> HIDE DEF new
<1>4. SearchTypeOK' /\ TimerFollowsField'
  BY <1>1, <1>2, <1>3 DEF SearchInv, SearchTypeOK, TimerFollowsField
<1>5. Numbered'
  BY <1>2, <1>3 DEF SearchInv, Numbered
<1>6. LastIsForField' /\ LastIsDue'
  BY <1>2, <1>3 DEF SearchInv, LastIsForField, LastIsDue, LastSearch, Expected
<1> QED BY <1>4, <1>5, <1>6 DEF SearchInv

(* An answer ends the search.                                              *)
LEMMA AnsweredKeeps ==
    ASSUME SearchInv, NEW s \in sent, Answered(s)
    PROVE  SearchInv'
<1>1. s \in Search /\ s.kind \in Kinds /\ s.text \in Texts
  BY DEF SearchInv, SearchTypeOK, Search
<1>2. /\ sent' = sent \ {s} /\ UNCHANGED <<field, waiting, seq, failed>>
      /\ results' = IF LastSearch(s) THEN [results EXCEPT ![s.kind] = s.text] ELSE results
  BY DEF Answered
<1>3. SearchTypeOK' /\ TimerFollowsField' /\ Numbered'
  BY <1>1, <1>2 DEF SearchInv, SearchTypeOK, TimerFollowsField, Numbered
<1>4. LastIsForField'
  BY <1>2 DEF SearchInv, LastIsForField, LastSearch, Expected
<1>5. LastIsDue'
  <2> SUFFICES ASSUME NEW k \in Kinds, waiting[k] = Nothing, field[k] # Nothing, ~failed[k]
               PROVE  results'[k] = Expected(k) \/ \E t \in sent' : t.kind = k /\ LastSearch(t)
    BY <1>2 DEF LastIsDue, LastSearch, Expected
  <2>1. CASE s.kind = k /\ LastSearch(s)
    BY <2>1, <1>2 DEF SearchInv, SearchTypeOK, LastIsForField
  <2>2. CASE ~(s.kind = k /\ LastSearch(s))
    BY <2>2, <1>1, <1>2 DEF SearchInv, SearchTypeOK, LastIsDue
  <2> QED BY <2>1, <2>2
<1> QED BY <1>3, <1>4, <1>5 DEF SearchInv

(* A search that fails ends; the last one leaves the field without         *)
(* results.                                                                *)
LEMMA SearchFailedKeeps ==
    ASSUME SearchInv, NEW s \in sent, SearchFailed(s)
    PROVE  SearchInv'
<1>1. s \in Search /\ s.kind \in Kinds
  BY DEF SearchInv, SearchTypeOK, Search
<1>2. /\ sent' = sent \ {s} /\ UNCHANGED <<field, waiting, seq, results>>
      /\ failed' = IF LastSearch(s) THEN [failed EXCEPT ![s.kind] = TRUE] ELSE failed
  BY DEF SearchFailed, LastSearch
<1>3. SearchTypeOK' /\ TimerFollowsField' /\ Numbered'
  BY <1>1, <1>2 DEF SearchInv, SearchTypeOK, TimerFollowsField, Numbered
<1>4. LastIsForField'
  BY <1>2 DEF SearchInv, LastIsForField, LastSearch, Expected
<1>5. LastIsDue'
  BY <1>1, <1>2 DEF SearchInv, SearchTypeOK, LastIsDue, LastSearch, Expected
<1> QED BY <1>3, <1>4, <1>5 DEF SearchInv

(* The field is cleared.                                                   *)
LEMMA ClearMessagesKeeps ==
    ASSUME SearchInv, ClearMessages
    PROVE  SearchInv'
BY DEF ClearMessages, SearchInv, SearchTypeOK, TimerFollowsField, Numbered, LastIsForField, LastIsDue,
       LastSearch, Expected, Kinds

(* data.js:886 and data.js:905: in whatever order the answers come, once   *)
(* the last search was answered the rows are those of the text in the      *)
(* field.                                                                  *)
THEOREM LastSearchWins == SearchSpec => []SearchShowsLast
<1>1. SearchInv /\ [SearchNext]_searchVars => SearchInv'
  <2> SUFFICES ASSUME SearchInv, [SearchNext]_searchVars PROVE SearchInv'
    OBVIOUS
  <2>1. CASE UNCHANGED searchVars
    BY <2>1 DEF searchVars, SearchInv, SearchTypeOK, TimerFollowsField, Numbered, LastIsForField, LastIsDue,
         LastSearch, Expected
  <2> QED BY <2>1, TypeKeeps, StartSearchKeeps, FoundKeeps, AnsweredKeeps, SearchFailedKeeps, ClearMessagesKeeps
       DEF SearchNext
<1>2. SearchInv => SearchShowsLast
  BY DEF SearchInv, LastIsDue, SearchShowsLast, Expected
<1> QED BY <1>1, <1>2, SearchStart, PTL DEF SearchSpec

----------------------------------------------------------------------------
(* The settings (SettingsPage). The invariant says that a read which may   *)
(* still be applied has no PATCH beside it, and that a page that shows     *)
(* another value than the stored one has such a read on its way.           *)

ReadRequest == [id: Nat, rev: Nat, step: {"sent", "read"}, value: BOOLEAN, mixed: BOOLEAN]
PatchRequest == [value: BOOLEAN, rev: Nat, step: {"sent", "stored", "refused"}]

SettingsTyped ==
    /\ settingsRev \in Nat /\ saved \in BOOLEAN /\ shown \in BOOLEAN /\ crossed \in BOOLEAN
    /\ readsAsked \in Nat /\ reads \subseteq ReadRequest /\ patches \subseteq PatchRequest

(* No request is of a later revision than the page. *)
RevisionsPast == \A r \in reads : r.rev <= settingsRev

(* A read that may be applied, and that no PATCH was on its way beside, still has none beside it, *)
(* and what it read is what is stored.                                                           *)
ReadIsCurrent ==
    \A r \in reads : r.rev = settingsRev /\ ~r.mixed => patches = {} /\ (r.step = "read" => r.value = saved)

(* One PATCH at a time, with what the screen shows. *)
PatchIsShown ==
    ~crossed => \A p, q \in patches : p = q /\ p.value = shown /\ (p.step = "stored" => saved = shown)

(* With no PATCH on its way the screen is right, or a read is on its way that will set it right. *)
ShownIsDue ==
    ~crossed /\ patches = {} => shown = saved \/ \E r \in reads : r.rev = settingsRev /\ ~r.mixed

SettingsInv == SettingsTyped /\ RevisionsPast /\ ReadIsCurrent /\ PatchIsShown /\ ShownIsDue

(* At first what the screen shows is what is stored.                       *)
LEMMA SettingsStart == SettingsInit => SettingsInv
<1> SUFFICES ASSUME SettingsInit PROVE SettingsInv
  OBVIOUS
<1>1. /\ saved \in BOOLEAN /\ shown = saved /\ settingsRev = 0
      /\ reads = {} /\ patches = {} /\ readsAsked = 0 /\ crossed = FALSE
  BY DEF SettingsInit
<1>2. shown \in BOOLEAN /\ crossed \in BOOLEAN
  BY <1>1
<1>3. SettingsTyped
  BY <1>1, <1>2 DEF SettingsTyped
<1>4. RevisionsPast /\ ReadIsCurrent /\ PatchIsShown
  BY <1>1 DEF RevisionsPast, ReadIsCurrent, PatchIsShown
<1>5. ShownIsDue
  BY <1>1 DEF ShownIsDue
<1> QED BY <1>3, <1>4, <1>5 DEF SettingsInv

(* A read asked for: what it adds. *)
LEMMA LoadAdds ==
    ASSUME SettingsTyped, LoadSettings
    PROVE  \E r \in ReadRequest :
             /\ r.rev = settingsRev /\ r.step = "sent" /\ r.mixed = (patches' # {})
             /\ reads' = reads \union {r} /\ readsAsked' \in Nat
<1> DEFINE r == [id |-> readsAsked', rev |-> settingsRev, step |-> "sent", value |-> FALSE,
                mixed |-> patches' # {}]
<1>1. readsAsked' \in Nat /\ settingsRev \in Nat
  BY DEF SettingsTyped, LoadSettings
<1>2. r \in ReadRequest
  BY <1>1 DEF ReadRequest
<1> QED BY <1>1, <1>2 DEF LoadSettings

(* The page opens and asks for the settings.                               *)
LEMMA OpenSettingsKeeps ==
    ASSUME SettingsInv, SettingsOpened
    PROVE  SettingsInv'
<1>1. PICK r \in ReadRequest : /\ r.rev = settingsRev /\ r.step = "sent" /\ r.mixed = (patches' # {})
                               /\ reads' = reads \union {r} /\ readsAsked' \in Nat
  BY LoadAdds DEF SettingsInv, SettingsOpened
<1>2. UNCHANGED <<saved, shown, settingsRev, patches, crossed>>
  BY DEF SettingsOpened
<1>3. SettingsTyped' /\ RevisionsPast' /\ PatchIsShown' /\ ShownIsDue'
  BY <1>1, <1>2 DEF SettingsInv, SettingsTyped, RevisionsPast, PatchIsShown, ShownIsDue
<1>4. ReadIsCurrent'
  BY <1>1, <1>2 DEF SettingsInv, ReadIsCurrent
<1> QED BY <1>3, <1>4 DEF SettingsInv

(* Going to an option and back changes no request.                         *)
LEMMA PagesKeep ==
    ASSUME SettingsInv, OptionOpened \/ SettingsClosed \/ UNCHANGED settingsVars
    PROVE  SettingsInv'
<1>1. UNCHANGED <<saved, shown, settingsRev, reads, patches, readsAsked, crossed>>
  BY DEF OptionOpened, SettingsClosed, settingsVars
<1> QED BY <1>1 DEF SettingsInv, SettingsTyped, RevisionsPast, ReadIsCurrent, PatchIsShown, ShownIsDue

(* A switch is flipped: the revision makes every read on its way stale.    *)
LEMMA FlipKeeps ==
    ASSUME SettingsInv, Flip
    PROVE  SettingsInv'
<1> DEFINE p == [value |-> shown', rev |-> settingsRev', step |-> "sent"]
<1>1. /\ settingsRev' = settingsRev + 1 /\ shown' = ~shown /\ patches' = patches \union {p}
      /\ crossed' = (crossed \/ patches # {}) /\ UNCHANGED <<saved, reads, readsAsked>>
  BY DEF Flip
<1>2. /\ settingsRev \in Nat /\ shown \in BOOLEAN /\ patches \subseteq PatchRequest /\ reads \subseteq ReadRequest
      /\ saved \in BOOLEAN /\ crossed \in BOOLEAN /\ readsAsked \in Nat
  BY DEF SettingsInv, SettingsTyped
<1>3. settingsRev' \in Nat /\ settingsRev' > settingsRev
  BY <1>1, <1>2
<1>4. shown' \in BOOLEAN
  BY <1>1, <1>2
<1>5. p \in PatchRequest /\ p.value = shown' /\ p.step = "sent"
  BY <1>3, <1>4 DEF PatchRequest
<1> HIDE DEF p
<1>6. crossed' \in BOOLEAN
  BY <1>1, <1>2
<1>7. SettingsTyped'
  BY <1>1, <1>2, <1>3, <1>4, <1>5, <1>6 DEF SettingsTyped
<1>8. \A r \in reads' : r.rev \in Nat /\ r.rev <= settingsRev /\ r.rev < settingsRev'
  BY <1>1, <1>2, <1>3 DEF SettingsInv, RevisionsPast, ReadRequest
<1>9. RevisionsPast' /\ ReadIsCurrent'
  BY <1>8, <1>3 DEF RevisionsPast, ReadIsCurrent
<1>10. PatchIsShown' /\ ShownIsDue'
  BY <1>1, <1>5 DEF PatchIsShown, ShownIsDue
<1> QED BY <1>7, <1>9, <1>10 DEF SettingsInv

(* The server answers a read with what it has stored.                      *)
LEMMA ServerReadsKeeps ==
    ASSUME SettingsInv, NEW r \in reads, ServerReads(r)
    PROVE  SettingsInv'
<1> DEFINE q == [r EXCEPT !.step = "read", !.value = saved]
<1>1. reads' = (reads \ {r}) \union {q} /\ UNCHANGED <<saved, shown, settingsRev, patches, readsAsked, crossed>>
  BY DEF ServerReads
<1>2. r \in ReadRequest /\ saved \in BOOLEAN
  BY DEF SettingsInv, SettingsTyped
<1>3. q \in ReadRequest /\ q.rev = r.rev /\ q.mixed = r.mixed /\ q.value = saved
  BY <1>2 DEF ReadRequest
<1> HIDE DEF q
<1>4. SettingsTyped' /\ RevisionsPast' /\ PatchIsShown'
  BY <1>1, <1>3 DEF SettingsInv, SettingsTyped, RevisionsPast, PatchIsShown
<1>5. ReadIsCurrent' /\ ShownIsDue'
  BY <1>1, <1>3 DEF SettingsInv, ReadIsCurrent, ShownIsDue
<1> QED BY <1>4, <1>5 DEF SettingsInv

(* An answer is applied if its revision is still the page's.               *)
LEMMA ApplySettingsKeeps ==
    ASSUME SettingsInv, NEW r \in reads, ApplySettings(r)
    PROVE  SettingsInv'
<1>1. /\ r.step = "read" /\ reads' = reads \ {r} /\ UNCHANGED <<saved, settingsRev, patches, readsAsked>>
      /\ \/ r.rev = settingsRev /\ shown' = r.value /\ crossed' = (r.mixed \/ (crossed /\ patches # {}))
         \/ r.rev # settingsRev /\ shown' = shown /\ crossed' = crossed
  BY DEF ApplySettings, SameRevision
<1>2. r \in ReadRequest /\ r.value \in BOOLEAN /\ r.mixed \in BOOLEAN
  BY DEF SettingsInv, SettingsTyped, ReadRequest
<1>3. crossed \in BOOLEAN /\ crossed' \in BOOLEAN
  BY <1>1, <1>2 DEF SettingsInv, SettingsTyped
<1>4. SettingsTyped'
  BY <1>1, <1>2, <1>3 DEF SettingsInv, SettingsTyped
<1>5. RevisionsPast' /\ ReadIsCurrent'
  BY <1>1 DEF SettingsInv, RevisionsPast, ReadIsCurrent
<1>6. CASE r.rev = settingsRev /\ ~r.mixed
  <2>1. patches = {} /\ r.value = saved
    BY <1>6, <1>1 DEF SettingsInv, ReadIsCurrent
  <2> QED BY <2>1, <1>6, <1>1, <1>4, <1>5 DEF SettingsInv, PatchIsShown, ShownIsDue
<1>7. CASE r.rev = settingsRev /\ r.mixed
  BY <1>7, <1>1, <1>4, <1>5 DEF SettingsInv, PatchIsShown, ShownIsDue
<1>8. CASE r.rev # settingsRev
  <2>1. PatchIsShown' /\ ShownIsDue'
    BY <1>8, <1>1 DEF SettingsInv, PatchIsShown, ShownIsDue
  <2> QED BY <2>1, <1>4, <1>5 DEF SettingsInv
<1> QED BY <1>6, <1>7, <1>8

(* A read that fails leaves the screen as it is.                           *)
LEMMA ReadFailedKeeps ==
    ASSUME SettingsInv, NEW r \in reads, ReadFailed(r)
    PROVE  SettingsInv'
BY DEF ReadFailed, SettingsInv, SettingsTyped, RevisionsPast, ReadIsCurrent, PatchIsShown, ShownIsDue

(* The server stores a PATCH.                                              *)
LEMMA ServerStoresKeeps ==
    ASSUME SettingsInv, NEW p \in patches, ServerStores(p)
    PROVE  SettingsInv'
<1>1. PICK step \in {"stored", "refused"} :
         /\ patches' = (patches \ {p}) \union {[p EXCEPT !.step = step]}
         /\ saved' = IF step = "stored" THEN p.value ELSE saved
  BY DEF ServerStores
<1> DEFINE q == [p EXCEPT !.step = step]
<1>2. UNCHANGED <<shown, settingsRev, reads, readsAsked, crossed>>
  BY DEF ServerStores
<1>3. p \in PatchRequest /\ saved \in BOOLEAN /\ p.value \in BOOLEAN
  BY DEF SettingsInv, SettingsTyped, PatchRequest
<1>4. q \in PatchRequest /\ q.value = p.value /\ q.step = step
  BY <1>3 DEF PatchRequest
<1>5. patches' = (patches \ {p}) \union {q}
  BY <1>1
<1> HIDE DEF q
<1>6. SettingsTyped'
  BY <1>1, <1>2, <1>3, <1>4, <1>5 DEF SettingsInv, SettingsTyped
<1>7. RevisionsPast'
  BY <1>2 DEF SettingsInv, RevisionsPast
<1>8. ReadIsCurrent'
  BY <1>2, <1>5 DEF SettingsInv, ReadIsCurrent
<1>9. PatchIsShown'
  BY <1>1, <1>2, <1>4, <1>5 DEF SettingsInv, PatchIsShown
<1>10. ShownIsDue'
  BY <1>5 DEF ShownIsDue
<1> QED BY <1>6, <1>7, <1>8, <1>9, <1>10 DEF SettingsInv

(* The answer of a PATCH.                                                  *)
LEMMA PatchAnsweredKeeps ==
    ASSUME SettingsInv, NEW p \in patches, PatchAnswered(p)
    PROVE  SettingsInv'
<1>1. /\ p.step = "stored" /\ patches' = patches \ {p}
      /\ UNCHANGED <<saved, shown, settingsRev, reads, readsAsked, crossed>>
  BY DEF PatchAnswered
<1>2. SettingsTyped' /\ RevisionsPast' /\ PatchIsShown'
  BY <1>1 DEF SettingsInv, SettingsTyped, RevisionsPast, PatchIsShown
<1>3. ReadIsCurrent'
  BY <1>1 DEF SettingsInv, ReadIsCurrent
<1>4. ShownIsDue'
  BY <1>1 DEF SettingsInv, PatchIsShown, ShownIsDue
<1> QED BY <1>2, <1>3, <1>4 DEF SettingsInv

(* A PATCH that fails: the page reads the settings again.                  *)
LEMMA PatchFailedKeeps ==
    ASSUME SettingsInv, NEW p \in patches, PatchFailed(p)
    PROVE  SettingsInv'
<1>1. PICK r \in ReadRequest : /\ r.rev = settingsRev /\ r.step = "sent" /\ r.mixed = (patches' # {})
                               /\ reads' = reads \union {r} /\ readsAsked' \in Nat
  BY LoadAdds DEF SettingsInv, PatchFailed
<1>2. patches' = patches \ {p} /\ UNCHANGED <<saved, shown, settingsRev, crossed>>
  BY DEF PatchFailed
<1>3. SettingsTyped' /\ RevisionsPast' /\ PatchIsShown'
  BY <1>1, <1>2 DEF SettingsInv, SettingsTyped, RevisionsPast, PatchIsShown
<1>4. ReadIsCurrent' /\ ShownIsDue'
  BY <1>1, <1>2 DEF SettingsInv, ReadIsCurrent, ShownIsDue
<1> QED BY <1>3, <1>4 DEF SettingsInv

(* Unless two PATCHes crossed, the switch shows what the server has stored *)
(* once nothing is on its way: no late answer of a read puts an old value  *)
(* back.                                                                   *)
THEOREM SettingsFollowServer == SettingsSpec => []SettingsAgree
<1>1. SettingsInv /\ [SettingsNext]_(settingsVars) => SettingsInv'
  BY OpenSettingsKeeps, PagesKeep, FlipKeeps, ServerReadsKeeps, ApplySettingsKeeps, ReadFailedKeeps,
     ServerStoresKeeps, PatchAnsweredKeeps, PatchFailedKeeps DEF SettingsNext
<1>2. SettingsInv => SettingsAgree
  BY DEF SettingsInv, ShownIsDue, SettingsAgree
<1> QED BY <1>1, <1>2, SettingsStart, PTL DEF SettingsSpec

----------------------------------------------------------------------------
(* The reactions of a message (Reactions). The invariant says that the     *)
(* last frame on its way has the counts of now, and that the rows a failed *)
(* change would put back are those of now unless a frame is on its way.    *)

Tally == [Emojis -> [count: Nat, mine: BOOLEAN]]
Save == [id: Nat, emoji: Emojis, active: BOOLEAN, step: {"sent", "stored"}, previous: Tally, answer: Tally]

(* Rows with the counts the server has now. *)
Current(r) == \A e \in Emojis : r[e].count = RowsFor(mine, theirs)[e].count

ReactionsTyped ==
    /\ mine \subseteq Emojis /\ theirs \subseteq Emojis /\ rows \in Tally /\ notices \in Seq(Tally)
    /\ saving \subseteq Save /\ toggled \in Nat /\ raced \in BOOLEAN

(* The last frame on its way has the counts there are now. *)
LastNoticeIsCurrent == notices # <<>> => Current(notices[Len(notices)])

(* While changes do not race there is one, whose frame is on its way once it is stored, and *)
(* which would bring the counts of now back were it refused.                                *)
OneSave == ~raced => \A s, t \in saving : s = t
SaveIsUndone ==
    ~raced => \A s \in saving :
        /\ s.step = "sent" /\ notices = <<>> => Current(s.previous)
        /\ s.step = "stored" => notices # <<>>

RowsAreCurrent == ~raced /\ saving = {} /\ notices = <<>> => Current(rows)

ReactionInv == ReactionsTyped /\ LastNoticeIsCurrent /\ OneSave /\ SaveIsUndone /\ RowsAreCurrent

(* What RowsFor counts, and that both members count the same. *)
LEMMA RowsCounted ==
    ASSUME NEW A, NEW B
    PROVE  /\ RowsFor(A, B) \in Tally
           /\ \A e \in Emojis : RowsFor(A, B)[e].count = RowsFor(B, A)[e].count
<1> DEFINE One(s, e) == IF e \in s THEN 1 ELSE 0
<1>1. \A e \in Emojis : One(A, e) \in {0, 1} /\ One(B, e) \in {0, 1} /\ (e \in A) \in BOOLEAN
  OBVIOUS
<1>2. RowsFor(A, B) = [e \in Emojis |-> [count |-> One(A, e) + One(B, e), mine |-> e \in A]]
  BY DEF RowsFor
<1>3. RowsFor(B, A) = [e \in Emojis |-> [count |-> One(B, e) + One(A, e), mine |-> e \in B]]
  BY DEF RowsFor
<1> HIDE DEF One
<1>4. \A e \in Emojis : One(A, e) + One(B, e) \in Nat /\ One(A, e) + One(B, e) = One(B, e) + One(A, e)
  BY <1>1
<1>5. \A e \in Emojis : [count |-> One(A, e) + One(B, e), mine |-> e \in A] \in [count: Nat, mine: BOOLEAN]
  BY <1>1, <1>4
<1> QED BY <1>2, <1>3, <1>4, <1>5 DEF Tally

(* At first the rows are those of the reactions there are.                 *)
LEMMA ReactionStart == ReactionInit => ReactionInv
<1> SUFFICES ASSUME ReactionInit PROVE ReactionInv
  OBVIOUS
<1>1. /\ mine \subseteq Emojis /\ theirs \subseteq Emojis /\ rows = RowsFor(mine, theirs)
      /\ saving = {} /\ notices = <<>> /\ toggled = 0 /\ raced = FALSE
  BY DEF ReactionInit
<1>2. ReactionsTyped
  BY <1>1, RowsCounted, EmptySeq DEF ReactionsTyped
<1> QED BY <1>1, <1>2 DEF ReactionInv, LastNoticeIsCurrent, OneSave, SaveIsUndone, RowsAreCurrent, Current

(* The user picks an emoji: the rows change before the server knows.       *)
LEMMA PickEmojiKeeps ==
    ASSUME ReactionInv, NEW e \in Emojis, PickEmoji(e)
    PROVE  ReactionInv'
<1> DEFINE active == ~rows[e].mine
<1> DEFINE new == [id |-> toggled + 1, emoji |-> e, active |-> active, step |-> "sent",
                   previous |-> rows, answer |-> rows]
<1> DEFINE count == IF active THEN rows[e].count + 1 ELSE IF rows[e].count > 1 THEN rows[e].count - 1 ELSE 0
<1>1. ReactionsTyped
  BY DEF ReactionInv
<1>2. /\ toggled' = toggled + 1 /\ rows' = Toggled(e, active) /\ saving' = saving \union {new}
      /\ raced' = (raced \/ saving # {}) /\ UNCHANGED <<mine, theirs, notices>>
  BY DEF PickEmoji
<1>3. active \in BOOLEAN /\ rows[e].count \in Nat
  BY <1>1 DEF ReactionsTyped, Tally
<1>4. count \in Nat
  BY <1>3
<1>5. rows' = [rows EXCEPT ![e] = [count |-> count, mine |-> active]]
  BY <1>2, <1>1 DEF Toggled, ReactionsTyped, Tally
<1>6. new \in Save /\ new.step = "sent" /\ new.previous = rows
  BY <1>1, <1>3 DEF ReactionsTyped, Save
<1> HIDE DEF new, active, count
<1>7. rows' \in Tally
  BY <1>1, <1>3, <1>4, <1>5 DEF ReactionsTyped, Tally
<1>8. raced' \in BOOLEAN /\ toggled' \in Nat
  BY <1>1, <1>2 DEF ReactionsTyped
<1>9. ReactionsTyped'
  BY <1>1, <1>2, <1>6, <1>7, <1>8 DEF ReactionsTyped
<1>10. \A r : Current(r)' = Current(r)
  BY <1>2 DEF Current, RowsFor
<1>11. LastNoticeIsCurrent'
  BY <1>2 DEF ReactionInv, LastNoticeIsCurrent, Current, RowsFor
<1>12. ~raced' => ~raced /\ saving = {} /\ saving' = {new}
  BY <1>2
<1>13. OneSave' /\ RowsAreCurrent'
  BY <1>12 DEF OneSave, RowsAreCurrent
<1>14. SaveIsUndone'
  <2> SUFFICES ASSUME ~raced' PROVE SaveIsUndone'
    BY DEF SaveIsUndone
  <2>1. PICK old : old = rows
    OBVIOUS
  <2>2. notices' = <<>> => Current(old)
    BY <2>1, <1>12, <1>2 DEF ReactionInv, RowsAreCurrent
  <2>3. notices' = <<>> => Current(old)'
    BY <2>2, <1>10
  <2>4. new.step = "sent" /\ new.previous = old
    BY <2>1, <1>6
  <2> QED BY <2>3, <2>4, <1>12 DEF SaveIsUndone
<1> QED BY <1>9, <1>11, <1>13, <1>14 DEF ReactionInv

(* The server sets the reaction and publishes the frame.                   *)
LEMMA ServerSetsKeeps ==
    ASSUME ReactionInv, NEW s \in saving, ServerSets(s)
    PROVE  ReactionInv'
<1> DEFINE now == IF s.active THEN mine \union {s.emoji} ELSE mine \ {s.emoji}
<1> DEFINE row == RowsFor(now, theirs)
<1> DEFINE new == [s EXCEPT !.step = "stored", !.answer = row]
<1>1. ReactionsTyped /\ s \in Save
  BY DEF ReactionInv, ReactionsTyped
<1>2. /\ mine' = now /\ saving' = (saving \ {s}) \union {new} /\ notices' = Append(notices, row)
      /\ UNCHANGED <<theirs, rows, toggled, raced>>
  BY DEF ServerSets
<1>3. row \in Tally
  BY RowsCounted
<1>4. new \in Save /\ new.step = "stored"
  BY <1>1, <1>3 DEF Save
<1>5. mine' \subseteq Emojis
  BY <1>1, <1>2 DEF ReactionsTyped, Save
<1>6. /\ notices' \in Seq(Tally) /\ Len(notices') = Len(notices) + 1 /\ notices'[Len(notices')] = row
      /\ notices' # <<>>
  BY <1>1, <1>2, <1>3, AppendProperties, LenProperties DEF ReactionsTyped
<1>7. row = RowsFor(mine, theirs)'
  BY <1>2 DEF RowsFor
<1> HIDE DEF row, new, now
<1>8. ReactionsTyped'
  BY <1>1, <1>2, <1>4, <1>5, <1>6 DEF ReactionsTyped
<1>9. LastNoticeIsCurrent'
  BY <1>6, <1>7 DEF LastNoticeIsCurrent, Current
<1>10. OneSave' /\ SaveIsUndone' /\ RowsAreCurrent'
  BY <1>2, <1>6, <1>4 DEF ReactionInv, OneSave, SaveIsUndone, RowsAreCurrent
<1> QED BY <1>8, <1>9, <1>10 DEF ReactionInv

(* The rows of the answer replace those of the page.                       *)
LEMMA SaveAnsweredKeeps ==
    ASSUME ReactionInv, NEW s \in saving, SaveAnswered(s)
    PROVE  ReactionInv'
<1>1. ReactionsTyped /\ s \in Save
  BY DEF ReactionInv, ReactionsTyped
<1>2. /\ s.step = "stored" /\ rows' = s.answer /\ saving' = saving \ {s}
      /\ UNCHANGED <<mine, theirs, notices, toggled, raced>>
  BY DEF SaveAnswered
<1>3. ReactionsTyped'
  BY <1>1, <1>2 DEF ReactionsTyped, Save
<1>4. LastNoticeIsCurrent'
  BY <1>2 DEF ReactionInv, LastNoticeIsCurrent, Current, RowsFor
<1>5. OneSave' /\ RowsAreCurrent'
  BY <1>2 DEF ReactionInv, OneSave, SaveIsUndone, RowsAreCurrent
<1>6. SaveIsUndone'
  BY <1>2 DEF ReactionInv, SaveIsUndone, Current, RowsFor
<1> QED BY <1>3, <1>4, <1>5, <1>6 DEF ReactionInv

(* A change that failed puts the rows of before back.                      *)
LEMMA SaveFailedKeeps ==
    ASSUME ReactionInv, NEW s \in saving, SaveFailed(s)
    PROVE  ReactionInv'
<1>1. ReactionsTyped /\ s \in Save
  BY DEF ReactionInv, ReactionsTyped
<1>2. /\ rows' = s.previous /\ saving' = saving \ {s} /\ raced' = (raced \/ s.step = "stored")
      /\ UNCHANGED <<mine, theirs, notices, toggled>>
  BY DEF SaveFailed, Restored
<1>3. raced' \in BOOLEAN
  BY <1>1, <1>2 DEF ReactionsTyped
<1>4. ReactionsTyped'
  BY <1>1, <1>2, <1>3 DEF ReactionsTyped, Save
<1>5. LastNoticeIsCurrent'
  BY <1>2 DEF ReactionInv, LastNoticeIsCurrent, Current, RowsFor
<1>6. ~raced' => ~raced /\ s.step = "sent"
  BY <1>1, <1>2 DEF Save
<1>7. OneSave' /\ SaveIsUndone'
  BY <1>2, <1>6 DEF ReactionInv, OneSave, SaveIsUndone, Current, RowsFor
<1>8. RowsAreCurrent'
  BY <1>2, <1>6 DEF ReactionInv, SaveIsUndone, RowsAreCurrent, Current, RowsFor
<1> QED BY <1>4, <1>5, <1>7, <1>8 DEF ReactionInv

(* The other member reacts.                                                *)
LEMMA PeerReactsKeeps ==
    ASSUME ReactionInv, NEW e \in Emojis, PeerReacts(e)
    PROVE  ReactionInv'
<1> DEFINE now == IF e \in theirs THEN theirs \ {e} ELSE theirs \union {e}
<1> DEFINE row == RowsFor(now, mine)
<1>1. ReactionsTyped
  BY DEF ReactionInv
<1>2. /\ theirs' = now /\ notices' = Append(notices, row) /\ raced' = (raced \/ saving # {})
      /\ UNCHANGED <<mine, rows, saving, toggled>>
  BY DEF PeerReacts
<1>3. row \in Tally /\ \A d \in Emojis : row[d].count = RowsFor(mine, now)[d].count
  BY RowsCounted
<1>4. RowsFor(mine, now) = RowsFor(mine, theirs)'
  BY <1>2 DEF RowsFor
<1>5. theirs' \subseteq Emojis
  BY <1>1, <1>2 DEF ReactionsTyped
<1>6. /\ notices' \in Seq(Tally) /\ notices'[Len(notices')] = row /\ notices' # <<>>
  BY <1>1, <1>2, <1>3, AppendProperties, LenProperties DEF ReactionsTyped
<1>7. raced' \in BOOLEAN /\ (~raced' => saving' = {})
  BY <1>1, <1>2 DEF ReactionsTyped
<1> HIDE DEF row, now
<1>8. ReactionsTyped'
  BY <1>1, <1>2, <1>5, <1>6, <1>7 DEF ReactionsTyped
<1>9. LastNoticeIsCurrent'
  BY <1>3, <1>4, <1>6 DEF LastNoticeIsCurrent, Current
<1>10. OneSave' /\ SaveIsUndone' /\ RowsAreCurrent'
  BY <1>6, <1>7 DEF OneSave, SaveIsUndone, RowsAreCurrent
<1> QED BY <1>8, <1>9, <1>10 DEF ReactionInv

(* A frame is applied.                                                     *)
LEMMA ApplyNoticeKeeps ==
    ASSUME ReactionInv, ApplyNotice
    PROVE  ReactionInv'
<1>1. ReactionsTyped /\ notices \in Seq(Tally)
  BY DEF ReactionInv, ReactionsTyped
<1>2. /\ notices # <<>> /\ rows' = Head(notices) /\ notices' = Tail(notices)
      /\ raced' = (raced \/ saving # {}) /\ UNCHANGED <<mine, theirs, saving, toggled>>
  BY DEF ApplyNotice
<1>3. Len(notices) \in Nat /\ Len(notices) >= 1 /\ Head(notices) = notices[1] /\ Head(notices) \in Tally
  BY <1>1, <1>2, LenProperties, HeadTailProperties, EmptySeq
<1>4. /\ notices' \in Seq(Tally) /\ Len(notices') = Len(notices) - 1
      /\ \A i \in 1 .. Len(notices') : notices'[i] = notices[i + 1]
  BY <1>1, <1>2, HeadTailProperties
<1>5. raced' \in BOOLEAN /\ (~raced' => ~raced /\ saving = {})
  BY <1>1, <1>2 DEF ReactionsTyped
<1>6. ReactionsTyped'
  BY <1>1, <1>2, <1>3, <1>4, <1>5 DEF ReactionsTyped
<1>7. LastNoticeIsCurrent'
  <2> SUFFICES ASSUME notices' # <<>> PROVE LastNoticeIsCurrent'
    BY DEF LastNoticeIsCurrent
  <2>1. \A q \in Seq(Tally) : q # <<>> => Len(q) \in Nat \ {0}
    BY EmptySeq
  <2>2. Len(notices') \in Nat \ {0}
    BY <2>1, <1>4
  <2>3. Len(notices') \in 1 .. Len(notices') /\ Len(notices') + 1 = Len(notices)
    BY <2>2, <1>3, <1>4
  <2>4. notices'[Len(notices')] = notices[Len(notices)]
    BY <2>3, <1>4
  <2> QED BY <2>4, <1>2 DEF ReactionInv, LastNoticeIsCurrent, Current, RowsFor
<1>8. OneSave' /\ SaveIsUndone'
  BY <1>2, <1>5 DEF OneSave, SaveIsUndone
<1>9. RowsAreCurrent'
  <2> SUFFICES ASSUME notices' = <<>> PROVE Current(rows')
    BY <1>2 DEF RowsAreCurrent, Current, RowsFor
  <2>1. Len(notices) = 1
    BY <1>3, <1>4, EmptySeq
  <2> QED BY <2>1, <1>2, <1>3 DEF ReactionInv, LastNoticeIsCurrent
<1> QED BY <1>6, <1>7, <1>8, <1>9 DEF ReactionInv

(* The socket drops the frames on their way.                               *)
LEMMA NoticeLostKeeps ==
    ASSUME ReactionInv, NoticeLost
    PROVE  ReactionInv'
<1>1. ReactionsTyped'
  BY EmptySeq DEF ReactionInv, ReactionsTyped, NoticeLost
<1> QED BY <1>1 DEF NoticeLost, ReactionInv, LastNoticeIsCurrent, OneSave, SaveIsUndone, RowsAreCurrent

(* The page reads the message again.                                       *)
LEMMA ReadAgainKeeps ==
    ASSUME ReactionInv, ReadAgain
    PROVE  ReactionInv'
<1>1. /\ saving = {} /\ notices = <<>> /\ rows' = RowsFor(mine, theirs) /\ raced' = FALSE
      /\ UNCHANGED <<mine, theirs, saving, notices, toggled>>
  BY DEF ReadAgain
<1>2. ReactionsTyped'
  BY <1>1, RowsCounted DEF ReactionInv, ReactionsTyped
<1>3. Current(rows)'
  BY <1>1 DEF Current, RowsFor
<1> QED BY <1>1, <1>2, <1>3 DEF ReactionInv, LastNoticeIsCurrent, OneSave, SaveIsUndone, RowsAreCurrent

(* When no change races another, the counts on the page are the server's   *)
(* once every frame was applied and no change is on its way.               *)
THEOREM CountsFollowServer == ReactionSpec => []CountsAgree
<1>1. ReactionInv /\ [ReactionNext]_reactionVars => ReactionInv'
  <2> SUFFICES ASSUME ReactionInv, [ReactionNext]_reactionVars PROVE ReactionInv'
    OBVIOUS
  <2>1. CASE UNCHANGED reactionVars
    BY <2>1 DEF reactionVars, ReactionInv, ReactionsTyped, LastNoticeIsCurrent, OneSave, SaveIsUndone,
         RowsAreCurrent, Current, RowsFor
  <2> QED BY <2>1, PickEmojiKeeps, PeerReactsKeeps, ServerSetsKeeps, SaveAnsweredKeeps, SaveFailedKeeps,
         ApplyNoticeKeeps, NoticeLostKeeps, ReadAgainKeeps DEF ReactionNext
<1>2. ReactionInv => CountsAgree
  BY DEF ReactionInv, RowsAreCurrent, CountsAgree, AllApplied, Current
<1> QED BY <1>1, <1>2, ReactionStart, PTL DEF ReactionSpec

----------------------------------------------------------------------------
(* The drawing of an element (Rendering). The invariant says that what is  *)
(* placed and what is left to place are one markup, the wanted one unless  *)
(* a new drawing is due, and that a marked node of before is placed or     *)
(* still to be matched.                                                    *)

Tag(n) == <<n.key, n.kind>>

(* What is placed and what is left of the fresh markup are m. *)
Follows(m) ==
    /\ Len(m) = Len(placed) + Len(source)
    /\ \A i \in 1 .. Len(placed) : placed[i].look = m[i]
    /\ \A i \in 1 .. Len(source) : source[i] = m[Len(placed) + i]

RenderingTyped ==
    /\ wanted \in Seq(Node) /\ MarkedOnce(wanted)
    /\ placed \in Seq(Live) /\ rest \in Seq(Live) /\ source \in Seq(Node)

(* The drawing follows one markup from its beginning to its end: the one wanted, unless it is *)
(* to begin anew.                                                                             *)
OneMarkup == \E m \in Seq(Node) : MarkedOnce(m) /\ Follows(m) /\ (~dirty => m = wanted)

DoneWhenQuiet == ~rendering => source = <<>> /\ rest = <<>> /\ ~dirty

(* While there is markup left, every marked node that was there is placed or can be matched. *)
MarkedNodesHere ==
    /\ \A w \in was : w[1] # NoMark
    /\ source # <<>> => \A w \in was : \/ \E i \in 1 .. Len(rest) : Tag(rest[i].look) = w
                                       \/ \E j \in 1 .. Len(placed) : Tag(placed[j].look) = w

RestKept == \A i \in 1 .. Len(rest) : rest[i].kept

RenderingInv ==
    /\ RenderingTyped /\ OneMarkup /\ DoneWhenQuiet /\ MarkedNodesHere /\ RestKept /\ MarkedNodesKept

----------------------------------------------------------------------------
(* The markup of a state is a sequence of nodes in which a mark occurs     *)
(* once.                                                                   *)
LEMMA MarkupIsSeq ==
    ASSUME NEW m \in Markup
    PROVE  m \in Seq(Node) /\ MarkedOnce(m)
<1>1. PICK n \in 0 .. MaxNodes : m \in [1 .. n -> Node]
  BY DEF Markup
<1>2. n \in Nat
  OBVIOUS
<1> QED BY <1>1, <1>2, SeqDef DEF Markup

(* A sequence without one of its elements. *)
LEMMA WithoutOne ==
    ASSUME NEW S, NEW s \in Seq(S), NEW i \in 1 .. Len(s)
    PROVE  /\ Without(s, i) \in Seq(S) /\ Len(Without(s, i)) = Len(s) - 1
           /\ \A j \in 1 .. Len(s) - 1 : Without(s, i)[j] = IF j < i THEN s[j] ELSE s[j + 1]
<1> DEFINE a == SubSeq(s, 1, i - 1)
<1> DEFINE b == SubSeq(s, i + 1, Len(s))
<1>1. Len(s) \in Nat /\ i \in Nat /\ i >= 1 /\ i <= Len(s)
  BY LenProperties
<1>2. /\ a \in Seq(S) /\ Len(a) = i - 1
      /\ \A j \in 1 .. i - 1 : a[j] = s[j]
  <2>1. \A k \in 1 .. i - 1 : k \in 1 .. Len(s)
    BY <1>1
  <2> QED BY <1>1, <2>1, SubSeqProperties
<1>3. /\ b \in Seq(S) /\ Len(b) = Len(s) - i
      /\ \A j \in 1 .. Len(s) - i : b[j] = s[j + i]
  <2>1. \A k \in i + 1 .. Len(s) : k \in 1 .. Len(s)
    BY <1>1
  <2> QED BY <1>1, <2>1, SubSeqProperties
<1> HIDE DEF a, b
<1>4. /\ a \o b \in Seq(S) /\ Len(a \o b) = Len(a) + Len(b)
      /\ \A j \in 1 .. Len(a) + Len(b) : (a \o b)[j] = IF j <= Len(a) THEN a[j] ELSE b[j - Len(a)]
  BY <1>2, <1>3, ConcatProperties
<1>5. Without(s, i) = a \o b
  BY DEF Without, a, b
<1>6. ASSUME NEW j \in 1 .. Len(s) - 1
      PROVE  (a \o b)[j] = IF j < i THEN s[j] ELSE s[j + 1]
  <2>1. j \in 1 .. Len(a) + Len(b)
    BY <1>1, <1>2, <1>3
  <2>2. CASE j < i
    BY <2>1, <2>2, <1>1, <1>2, <1>4
  <2>3. CASE ~(j < i)
    <3>1. j - (i - 1) \in 1 .. Len(s) - i /\ ~(j <= Len(a)) /\ j - (i - 1) + i = j + 1
      BY <2>3, <1>1, <1>2
    <3> QED BY <3>1, <2>1, <2>3, <1>2, <1>3, <1>4
  <2> QED BY <2>2, <2>3
<1>7. Len(a) + Len(b) = Len(s) - 1
  BY <1>1, <1>2, <1>3
<1>8. Without(s, i) \in Seq(S) /\ Len(Without(s, i)) = Len(s) - 1
  BY <1>4, <1>5, <1>7
<1>9. \A j \in 1 .. Len(s) - 1 : Without(s, i)[j] = IF j < i THEN s[j] ELSE s[j + 1]
  BY <1>5, <1>6
<1> QED BY <1>8, <1>9

(* A sequence of nodes changed element by element. *)
LEMMA Mapped ==
    ASSUME NEW s \in Seq(Live), NEW t, t \in [1 .. Len(s) -> Live]
    PROVE  t \in Seq(Live) /\ Len(t) = Len(s)
<1>1. Len(s) \in Nat
  BY LenProperties
<1>2. t \in Seq(Live)
  BY <1>1, SeqDef
<1>3. Len(t) \in Nat /\ DOMAIN t = 1 .. Len(t)
  BY <1>2, LenProperties
<1> QED BY <1>1, <1>2, <1>3

(* At first nothing is drawn.                                              *)
LEMMA RenderingStart == RenderingInit => RenderingInv
<1> SUFFICES ASSUME RenderingInit PROVE RenderingInv
  OBVIOUS
<1>1. /\ wanted = <<>> /\ placed = <<>> /\ rest = <<>> /\ source = <<>>
      /\ rendering = FALSE /\ dirty = FALSE /\ was = {}
  BY DEF RenderingInit
<1>2. \A S : <<>> \in Seq(S) /\ Len(<<>>) = 0
  BY EmptySeq
<1>3. MarkedOnce(<<>>)
  BY DEF MarkedOnce
<1>4. Follows(<<>>)
  BY <1>1, <1>2 DEF Follows
<1>5. RenderingTyped /\ OneMarkup
  BY <1>1, <1>2, <1>3, <1>4 DEF RenderingTyped, OneMarkup
<1>6. MarkedNodesHere /\ RestKept /\ MarkedNodesKept /\ DoneWhenQuiet
  BY <1>1, <1>2 DEF MarkedNodesHere, RestKept, MarkedNodesKept, DoneWhenQuiet
<1> QED BY <1>5, <1>6 DEF RenderingInv

(* A drawing begins. *)
LEMMA BeginKeeps ==
    ASSUME RenderingInv, NEW m \in Seq(Node), MarkedOnce(m), wanted' = m, Begin(placed, m)
    PROVE  RenderingInv'
<1>1. placed \in Seq(Live) /\ DOMAIN placed = 1 .. Len(placed) /\ Len(placed) \in Nat
  BY LenProperties DEF RenderingInv, RenderingTyped
<1>2. /\ rendering' = TRUE /\ source' = m /\ placed' = <<>> /\ dirty' = FALSE
      /\ rest' = [i \in 1 .. Len(placed) |-> [placed[i] EXCEPT !.kept = TRUE]]
      /\ was' = {Tag(placed[i].look) : i \in {j \in 1 .. Len(placed) : placed[j].look.key # NoMark}}
  BY <1>1 DEF Begin, Tag
<1>3. \A i \in 1 .. Len(placed) : placed[i] \in Live
  BY <1>1, ElementOfSeq
<1>4. \A i \in 1 .. Len(placed) :
         /\ [placed[i] EXCEPT !.kept = TRUE] \in Live /\ [placed[i] EXCEPT !.kept = TRUE].kept
         /\ [placed[i] EXCEPT !.kept = TRUE].look = placed[i].look
  BY <1>3 DEF Live
<1>5. rest' \in [1 .. Len(placed) -> Live]
  BY <1>2, <1>4
<1>6. rest' \in Seq(Live) /\ Len(rest') = Len(placed)
  BY <1>1, <1>5, Mapped
<1>7. \A i \in 1 .. Len(placed) : rest'[i].kept /\ rest'[i].look = placed[i].look
  BY <1>2, <1>4
<1>8. Len(placed') = 0 /\ placed' \in Seq(Live) /\ DOMAIN placed' = {} /\ Len(m) \in Nat
  BY <1>2, EmptySeq, LenProperties
<1>9. RenderingTyped'
  BY <1>2, <1>6, <1>8 DEF RenderingTyped, MarkedOnce
<1>10. OneMarkup'
  BY <1>2, <1>8 DEF OneMarkup, Follows, MarkedOnce
<1>11. DoneWhenQuiet' /\ RestKept' /\ MarkedNodesKept'
  BY <1>2, <1>6, <1>7, <1>8 DEF DoneWhenQuiet, RestKept, MarkedNodesKept
<1>12. MarkedNodesHere'
  <2> SUFFICES ASSUME NEW w \in was' PROVE w[1] # NoMark /\ \E i \in 1 .. Len(rest') : Tag(rest'[i].look) = w
    BY DEF MarkedNodesHere, Tag
  <2>1. PICK i \in 1 .. Len(placed) : w = Tag(placed[i].look) /\ placed[i].look.key # NoMark
    BY <1>2
  <2> QED BY <2>1, <1>6, <1>7 DEF Tag
<1> QED BY <1>9, <1>10, <1>11, <1>12 DEF RenderingInv

(* The user puts the cursor into a field.                                  *)
LEMMA FocusKeeps ==
    ASSUME RenderingInv, NEW i, Focus(i)
    PROVE  RenderingInv'
<1>1. placed \in Seq(Live) /\ DOMAIN placed = 1 .. Len(placed)
  BY LenProperties DEF RenderingInv, RenderingTyped
<1>2. /\ placed' = [j \in 1 .. Len(placed) |-> [placed[j] EXCEPT !.focused = (j = i)]]
      /\ UNCHANGED <<wanted, rest, source, rendering, dirty, was>>
  BY <1>1 DEF Focus
<1>3. \A j \in 1 .. Len(placed) : placed[j] \in Live
  BY <1>1, ElementOfSeq
<1>4. \A j \in 1 .. Len(placed) :
         /\ [placed[j] EXCEPT !.focused = (j = i)] \in Live
         /\ [placed[j] EXCEPT !.focused = (j = i)].look = placed[j].look
         /\ [placed[j] EXCEPT !.focused = (j = i)].kept = placed[j].kept
  BY <1>3 DEF Live
<1>5. placed' \in [1 .. Len(placed) -> Live]
  BY <1>2, <1>4
<1>6. placed' \in Seq(Live) /\ Len(placed') = Len(placed) /\ DOMAIN placed' = DOMAIN placed
  BY <1>1, <1>2, <1>5, Mapped
<1>7. \A j \in 1 .. Len(placed) : placed'[j].look = placed[j].look /\ placed'[j].kept = placed[j].kept
  BY <1>2, <1>4
<1>8. RenderingTyped' /\ DoneWhenQuiet' /\ RestKept'
  BY <1>2, <1>6 DEF RenderingInv, RenderingTyped, DoneWhenQuiet, RestKept, MarkedOnce
<1>9. OneMarkup'
  <2>1. PICK m \in Seq(Node) : MarkedOnce(m) /\ Follows(m) /\ (~dirty => m = wanted)
    BY DEF RenderingInv, OneMarkup
  <2>2. /\ Len(m) = Len(placed') + Len(source')
        /\ \A j \in 1 .. Len(placed') : placed'[j].look = m[j]
        /\ \A j \in 1 .. Len(source') : source'[j] = m[Len(placed') + j]
    BY <2>1, <1>2, <1>6, <1>7 DEF Follows
  <2>3. MarkedOnce(m) /\ (~dirty' => m = wanted')
    BY <2>1, <1>2
  <2> QED BY <2>2, <2>3 DEF OneMarkup, Follows, MarkedOnce
<1>10. MarkedNodesHere' /\ MarkedNodesKept'
  BY <1>1, <1>2, <1>6, <1>7 DEF RenderingInv, MarkedNodesHere, MarkedNodesKept, Tag
<1> QED BY <1>8, <1>9, <1>10 DEF RenderingInv

(* What a handler may do. *)
LEMMA Blurred ==
    ASSUME RenderingTyped, NEW n, Blur(n)
    PROVE  wanted' \in Seq(Node) /\ MarkedOnce(wanted') /\ (~dirty' => ~dirty /\ wanted' = wanted)
BY MarkupIsSeq DEF Blur, RenderingTyped

(* A node is placed: what the next step of the drawing adds. *)
LEMMA PlacedNext ==
    ASSUME RenderingInv, source # <<>>, NEW x \in Live, x.look = Head(source),
           placed' = Append(placed, x), source' = Tail(source),
           wanted' \in Seq(Node), MarkedOnce(wanted'), ~dirty' => ~dirty /\ wanted' = wanted
    PROVE  /\ placed' \in Seq(Live) /\ source' \in Seq(Node) /\ Len(placed') = Len(placed) + 1
           /\ Len(placed) \in Nat
           /\ \A i \in 1 .. Len(placed) : placed'[i] = placed[i]
           /\ placed'[Len(placed) + 1] = x /\ DOMAIN placed' = 1 .. Len(placed) + 1
           /\ OneMarkup'
           /\ \A j \in 1 .. Len(placed) : placed[j].look.key = x.look.key => x.look.key = NoMark
<1>1. placed \in Seq(Live) /\ source \in Seq(Node) /\ Len(placed) \in Nat
  BY LenProperties DEF RenderingInv, RenderingTyped
<1>2. /\ placed' \in Seq(Live) /\ Len(placed') = Len(placed) + 1
      /\ \A i \in 1 .. Len(placed) : placed'[i] = placed[i]
      /\ placed'[Len(placed) + 1] = x
  BY <1>1, AppendProperties
<1>3. DOMAIN placed' = 1 .. Len(placed) + 1
  BY <1>2, LenProperties
<1>4. /\ Len(source) \in Nat \ {0} /\ source' \in Seq(Node) /\ Len(source') = Len(source) - 1
      /\ \A i \in 1 .. Len(source') : source'[i] = source[i + 1]
      /\ x.look = source[1]
  <2>1. Len(source) \in Nat \ {0}
    BY <1>1, EmptySeq
  <2> QED BY <2>1, <1>1, HeadTailProperties
<1>5. PICK m \in Seq(Node) : MarkedOnce(m) /\ Follows(m) /\ (~dirty => m = wanted)
  BY DEF RenderingInv, OneMarkup
<1>6. /\ Len(m) = Len(placed) + Len(source) /\ DOMAIN m = 1 .. Len(m)
      /\ \A i \in 1 .. Len(placed) : placed[i].look = m[i]
      /\ \A i \in 1 .. Len(source) : source[i] = m[Len(placed) + i]
  BY <1>5, LenProperties DEF Follows
<1>7. x.look = m[Len(placed) + 1] /\ Len(placed) + 1 \in DOMAIN m
  BY <1>1, <1>4, <1>6
<1>8. \A i \in 1 .. Len(placed') : placed'[i].look = m[i]
  <2> SUFFICES ASSUME NEW i \in 1 .. Len(placed') PROVE placed'[i].look = m[i]
    OBVIOUS
  <2>1. i \in 1 .. Len(placed) \/ i = Len(placed) + 1
    BY <1>1, <1>2
  <2> QED BY <2>1, <1>2, <1>6, <1>7
<1>9. \A i \in 1 .. Len(source') : source'[i] = m[Len(placed') + i]
  <2> SUFFICES ASSUME NEW i \in 1 .. Len(source') PROVE source'[i] = m[Len(placed') + i]
    OBVIOUS
  <2>1. i + 1 \in 1 .. Len(source) /\ Len(placed') + i = Len(placed) + (i + 1)
    BY <1>1, <1>2, <1>4
  <2> QED BY <2>1, <1>4, <1>6
<1>10. Len(m) = Len(placed') + Len(source')
  BY <1>1, <1>2, <1>4, <1>6
<1>11. OneMarkup'
  BY <1>5, <1>8, <1>9, <1>10 DEF OneMarkup, Follows, MarkedOnce
<1>12. \A j \in 1 .. Len(placed) : placed[j].look.key = x.look.key => x.look.key = NoMark
  <2> SUFFICES ASSUME NEW j \in 1 .. Len(placed), m[j].key = m[Len(placed) + 1].key, m[j].key # NoMark
               PROVE  FALSE
    BY <1>6, <1>7
  <2>1. j \in DOMAIN m /\ j # Len(placed) + 1
    BY <1>1, <1>4, <1>6
  <2> QED BY <2>1, <1>5, <1>7 DEF MarkedOnce
<1> QED BY <1>1, <1>2, <1>3, <1>4, <1>11, <1>12

(* A node of the fresh markup that matches none is put in.                 *)
LEMMA InsertKeeps ==
    ASSUME RenderingInv, Insert
    PROVE  RenderingInv'
<1> DEFINE x == [look |-> Head(source), kept |-> FALSE, focused |-> FALSE]
<1>1. /\ source # <<>> /\ Match(Head(source)) = {} /\ placed' = Append(placed, x) /\ source' = Tail(source)
      /\ UNCHANGED <<wanted, rest, rendering, dirty, was>>
  BY DEF Insert
<1>2. source \in Seq(Node) /\ Head(source) \in Node /\ rest \in Seq(Live) /\ DOMAIN rest = 1 .. Len(rest)
  BY <1>1, HeadTailProperties, LenProperties DEF RenderingInv, RenderingTyped
<1>3. x \in Live /\ x.look = Head(source)
  BY <1>2 DEF Live
<1> HIDE DEF x
<1>4. wanted' \in Seq(Node) /\ MarkedOnce(wanted')
  BY <1>1 DEF RenderingInv, RenderingTyped
<1>5. /\ placed' \in Seq(Live) /\ source' \in Seq(Node) /\ Len(placed') = Len(placed) + 1
      /\ Len(placed) \in Nat /\ \A i \in 1 .. Len(placed) : placed'[i] = placed[i]
      /\ placed'[Len(placed) + 1] = x /\ DOMAIN placed' = 1 .. Len(placed) + 1 /\ OneMarkup'
      /\ \A j \in 1 .. Len(placed) : placed[j].look.key = x.look.key => x.look.key = NoMark
  BY <1>1, <1>3, <1>4, PlacedNext
<1>6. RenderingTyped' /\ RestKept' /\ DoneWhenQuiet'
  <2>1. rendering
    BY <1>1 DEF RenderingInv, DoneWhenQuiet
  <2> QED BY <2>1, <1>1, <1>4, <1>5 DEF RenderingInv, RenderingTyped, RestKept, DoneWhenQuiet
<1>7. \A w \in was : \/ \E i \in 1 .. Len(rest) : Tag(rest[i].look) = w
                     \/ \E j \in 1 .. Len(placed) : Tag(placed[j].look) = w
  BY <1>1 DEF RenderingInv, MarkedNodesHere
<1>8. MarkedNodesHere'
  <2>1. \A j \in 1 .. Len(placed) : j \in 1 .. Len(placed')
    BY <1>5
  <2>2. \A w \in was : \/ \E i \in 1 .. Len(rest) : Tag(rest[i].look) = w
                       \/ \E j \in 1 .. Len(placed') : Tag(placed'[j].look) = w
    BY <2>1, <1>5, <1>7
  <2> QED BY <2>2, <1>1 DEF RenderingInv, MarkedNodesHere, Tag
<1>9. Tag(x.look) \notin was
  <2> SUFFICES ASSUME Tag(x.look) \in was PROVE FALSE
    OBVIOUS
  <2>1. x.look.key # NoMark
    BY DEF RenderingInv, MarkedNodesHere, Tag
  <2>2. CASE \E i \in 1 .. Len(rest) : Tag(rest[i].look) = Tag(x.look)
    <3>1. PICK i \in 1 .. Len(rest) : rest[i].look.key = x.look.key /\ rest[i].look.kind = x.look.kind
      BY <2>2 DEF Tag
    <3>2. i \in Match(x.look)
      BY <3>1, <2>1, <1>2 DEF Match, SameKind
    <3> QED BY <3>2, <1>1, <1>3
  <2>3. CASE \E j \in 1 .. Len(placed) : Tag(placed[j].look) = Tag(x.look)
    BY <2>1, <2>3, <1>5 DEF Tag
  <2> QED BY <2>2, <2>3, <1>7
<1>10. MarkedNodesKept'
  <2> SUFFICES ASSUME NEW i \in 1 .. Len(placed) + 1
               PROVE  placed'[i].kept \/ Tag(placed'[i].look) \notin was
    BY <1>1, <1>5 DEF MarkedNodesKept, Tag
  <2>1. CASE i = Len(placed) + 1
    BY <2>1, <1>5, <1>9
  <2>2. CASE i \in 1 .. Len(placed)
    BY <2>2, <1>5, LenProperties DEF RenderingInv, RenderingTyped, MarkedNodesKept, Tag
  <2> QED BY <2>1, <2>2, <1>5
<1> QED BY <1>5, <1>6, <1>8, <1>10 DEF RenderingInv

(* A node that matches is patched and moved.                               *)
LEMMA ReuseKeeps ==
    ASSUME RenderingInv, Reuse
    PROVE  RenderingInv'
<1>1. PICK i \in Match(Head(source)) :
         /\ placed' = Append(placed, [rest[i] EXCEPT !.look = Head(source), !.focused = @ /\ i = 1])
         /\ rest' = Without(rest, i)
         /\ IF i = 1 THEN UNCHANGED <<wanted, dirty, nested>> ELSE Blur(rest[i])
  BY DEF Reuse
<1> DEFINE x == [rest[i] EXCEPT !.look = Head(source), !.focused = @ /\ i = 1]
<1>2. source # <<>> /\ source' = Tail(source) /\ UNCHANGED <<rendering, was>>
  BY DEF Reuse
<1>3. /\ source \in Seq(Node) /\ Head(source) \in Node /\ rest \in Seq(Live) /\ DOMAIN rest = 1 .. Len(rest)
      /\ Len(rest) \in Nat
  BY <1>2, HeadTailProperties, LenProperties DEF RenderingInv, RenderingTyped
<1>4. /\ i \in 1 .. Len(rest) /\ rest[i] \in Live /\ rest[i].kept
      /\ rest[i].look.key = Head(source).key /\ rest[i].look.kind = Head(source).kind
  BY <1>3, ElementOfSeq DEF Match, SameKind, RenderingInv, RestKept
<1>5. x \in Live /\ x.look = Head(source) /\ x.kept
  BY <1>3, <1>4 DEF Live
<1>6. placed' = Append(placed, x)
  BY <1>1
<1> HIDE DEF x
<1>7. wanted' \in Seq(Node) /\ MarkedOnce(wanted') /\ (~dirty' => ~dirty /\ wanted' = wanted)
  BY <1>1, Blurred DEF RenderingInv, RenderingTyped
<1>8. /\ placed' \in Seq(Live) /\ source' \in Seq(Node) /\ Len(placed') = Len(placed) + 1
      /\ Len(placed) \in Nat /\ \A j \in 1 .. Len(placed) : placed'[j] = placed[j]
      /\ placed'[Len(placed) + 1] = x /\ DOMAIN placed' = 1 .. Len(placed) + 1 /\ OneMarkup'
  BY <1>2, <1>5, <1>6, <1>7, PlacedNext
<1>9. /\ rest' \in Seq(Live) /\ Len(rest') = Len(rest) - 1
      /\ \A j \in 1 .. Len(rest) - 1 : rest'[j] = IF j < i THEN rest[j] ELSE rest[j + 1]
  BY <1>1, <1>3, <1>4, WithoutOne
<1>10. RenderingTyped' /\ DoneWhenQuiet'
  <2>1. rendering
    BY <1>2 DEF RenderingInv, DoneWhenQuiet
  <2> QED BY <2>1, <1>2, <1>7, <1>8, <1>9 DEF RenderingTyped, DoneWhenQuiet
<1>11. RestKept'
  <2> SUFFICES ASSUME NEW j \in 1 .. Len(rest) - 1 PROVE rest'[j].kept
    BY <1>9 DEF RestKept
  <2>1. j \in 1 .. Len(rest) /\ j + 1 \in 1 .. Len(rest)
    BY <1>3
  <2> QED BY <2>1, <1>9 DEF RenderingInv, RestKept
<1>12. MarkedNodesHere'
  <2> SUFFICES ASSUME NEW w \in was
               PROVE  /\ w[1] # NoMark
                      /\ \/ \E j \in 1 .. Len(rest') : Tag(rest'[j].look) = w
                         \/ \E j \in 1 .. Len(placed') : Tag(placed'[j].look) = w
    BY <1>2 DEF MarkedNodesHere, Tag
  <2>1. w[1] # NoMark
    BY DEF RenderingInv, MarkedNodesHere
  <2>2. CASE \E j \in 1 .. Len(placed) : Tag(placed[j].look) = w
    <3>1. PICK j \in 1 .. Len(placed) : Tag(placed[j].look) = w
      BY <2>2
    <3>2. j \in 1 .. Len(placed')
      BY <1>8
    <3> QED BY <3>1, <3>2, <2>1, <1>8
  <2>3. CASE \E k \in 1 .. Len(rest) : Tag(rest[k].look) = w
    <3>1. PICK k \in 1 .. Len(rest) : Tag(rest[k].look) = w
      BY <2>3
    <3>2. CASE k = i
      <4>1. Tag(x.look) = w
        BY <3>1, <3>2, <1>4, <1>5 DEF Tag
      <4>2. Len(placed) + 1 \in 1 .. Len(placed')
        BY <1>8
      <4> QED BY <4>1, <4>2, <2>1, <1>8
    <3>3. CASE k < i
      <4>1. k \in 1 .. Len(rest) - 1
        BY <3>3, <1>3, <1>4
      <4> QED BY <4>1, <3>1, <3>3, <2>1, <1>9
    <3>4. CASE k > i
      <4>1. k - 1 \in 1 .. Len(rest) - 1 /\ ~(k - 1 < i) /\ (k - 1) + 1 = k
        BY <3>4, <1>3, <1>4
      <4>2. rest'[k - 1] = rest[k]
        BY <4>1, <1>9
      <4> QED BY <4>1, <4>2, <3>1, <2>1, <1>9
    <3> QED BY <3>2, <3>3, <3>4, <1>4
  <2> QED BY <2>1, <2>2, <2>3, <1>2 DEF RenderingInv, MarkedNodesHere
<1>13. MarkedNodesKept'
  <2> SUFFICES ASSUME NEW j \in 1 .. Len(placed) + 1
               PROVE  placed'[j].kept \/ Tag(placed'[j].look) \notin was
    BY <1>2, <1>8 DEF MarkedNodesKept, Tag
  <2>1. CASE j = Len(placed) + 1
    BY <2>1, <1>5, <1>8
  <2>2. CASE j \in 1 .. Len(placed)
    BY <2>2, <1>8, LenProperties DEF RenderingInv, RenderingTyped, MarkedNodesKept, Tag
  <2> QED BY <2>1, <2>2, <1>8
<1> QED BY <1>8, <1>10, <1>11, <1>12, <1>13 DEF RenderingInv

(* What is left when the markup ends is removed.                           *)
LEMMA RemoveKeeps ==
    ASSUME RenderingInv, RemoveNode
    PROVE  RenderingInv'
<1>1. /\ rendering /\ source = <<>> /\ rest # <<>> /\ rest' = Tail(rest)
      /\ UNCHANGED <<placed, source, rendering, was>>
  BY DEF RemoveNode
<1>2. wanted' \in Seq(Node) /\ MarkedOnce(wanted') /\ (~dirty' => ~dirty /\ wanted' = wanted)
  BY Blurred DEF RemoveNode, RenderingInv
<1>3. /\ rest' \in Seq(Live) /\ Len(rest') = Len(rest) - 1 /\ Len(rest) \in Nat
      /\ \A i \in 1 .. Len(rest') : rest'[i] = rest[i + 1]
  BY <1>1, HeadTailProperties, LenProperties DEF RenderingInv, RenderingTyped
<1>4. RenderingTyped' /\ DoneWhenQuiet'
  BY <1>1, <1>2, <1>3 DEF RenderingInv, RenderingTyped, DoneWhenQuiet
<1>5. OneMarkup'
  BY <1>1, <1>2 DEF RenderingInv, OneMarkup, Follows, MarkedOnce
<1>6. RestKept'
  BY <1>3 DEF RenderingInv, RestKept
<1>7. MarkedNodesHere' /\ MarkedNodesKept'
  BY <1>1 DEF RenderingInv, MarkedNodesHere, MarkedNodesKept
<1> QED BY <1>4, <1>5, <1>6, <1>7 DEF RenderingInv

(* A drawing ends, or begins anew if the state changed meanwhile.          *)
LEMMA FinishKeeps ==
    ASSUME RenderingInv, Finish
    PROVE  RenderingInv'
<1>1. CASE dirty
  <2>1. wanted \in Seq(Node) /\ MarkedOnce(wanted)
    BY DEF RenderingInv, RenderingTyped
  <2>2. wanted' = wanted /\ Begin(placed, wanted)
    BY <1>1 DEF Finish
  <2> QED BY <2>1, <2>2, BeginKeeps
<1>2. CASE ~dirty
  <2>1. /\ UNCHANGED <<wanted, placed, rest, source, was, dirty>> /\ source = <<>> /\ rest = <<>>
    BY <1>2 DEF Finish
  <2> QED BY <2>1, <1>2 DEF RenderingInv, RenderingTyped, OneMarkup, Follows, MarkedOnce, DoneWhenQuiet,
            MarkedNodesHere, RestKept, MarkedNodesKept, Tag
<1> QED BY <1>1, <1>2

(* engine.js:196: when no drawing is under way the page shows the markup   *)
(* of the state, and a marked node that was there before and is wanted     *)
(* again is the same node.                                                 *)
THEOREM PageIsDrawn == RenderingSpec => []DrawingRight
<1>1. RenderingInv /\ [RenderingNext]_renderingVars => RenderingInv'
  <2> SUFFICES ASSUME RenderingInv, [RenderingNext]_renderingVars PROVE RenderingInv'
    OBVIOUS
  <2>1. CASE UNCHANGED renderingVars
    BY <2>1 DEF renderingVars, RenderingInv, RenderingTyped, OneMarkup, Follows, MarkedOnce, DoneWhenQuiet,
         MarkedNodesHere, RestKept, MarkedNodesKept, Tag
  <2>2. CASE \E m \in Markup : SetState(m)
    BY <2>2, MarkupIsSeq, BeginKeeps DEF SetState
  <2>3. CASE \E i \in 1 .. MaxNodes : Focus(i)
    BY <2>3, FocusKeeps
  <2> QED BY <2>1, <2>2, <2>3, FinishKeeps, InsertKeeps, ReuseKeeps, RemoveKeeps DEF RenderingNext
<1>2. RenderingInv => DrawingRight
  <2> SUFFICES ASSUME RenderingInv PROVE DrawnIsWanted /\ MarkedNodesKept
    BY DEF DrawingRight
  <2>1. ASSUME ~rendering PROVE Looks(placed) = wanted
    <3>1. source = <<>> /\ ~dirty
      BY <2>1 DEF RenderingInv, DoneWhenQuiet
    <3>2. Follows(wanted) /\ wanted \in Seq(Node) /\ placed \in Seq(Live)
      BY <3>1 DEF RenderingInv, RenderingTyped, OneMarkup
    <3>3. /\ DOMAIN placed = 1 .. Len(placed) /\ Len(placed) \in Nat /\ Len(source) = 0
          /\ wanted \in [1 .. Len(wanted) -> Node]
      BY <3>1, <3>2, LenProperties, EmptySeq
    <3>4. Len(wanted) = Len(placed) /\ \A i \in 1 .. Len(placed) : placed[i].look = wanted[i]
      BY <3>2, <3>3 DEF Follows
    <3> QED BY <3>3, <3>4 DEF Looks
  <2> QED BY <2>1 DEF DrawnIsWanted, RenderingInv
<1> QED BY <1>1, <1>2, RenderingStart, PTL DEF RenderingSpec

----------------------------------------------------------------------------
(* The router (Router). RouteAgrees says nothing while a Back is on its    *)
(* way, nor why the flag that waits for the Back is ever taken down. The   *)
(* invariant RouteInv adds that the flag is up only for a Back that is on  *)
(* its way and has an entry to go to (the first entry was opened from      *)
(* none), and that the flag is what excuses an address that differs.       *)

FirstIsFirst == entries[1].prev = NoPath
FlagIsDue == expectPop => backs >= 1 /\ at > 1
Agreed == armed /\ ~gate /\ ~loose => expectPop \/ Location = PathOf(screen)
OneBackUnlessMixed == ~mixed => backs <= 1 /\ (backs > 0 => expectPop)

RouteInv == RouterTypeOK /\ FirstIsFirst /\ FlagIsDue /\ Agreed /\ OneBackUnlessMixed

USE RouterAssumption

----------------------------------------------------------------------------
(* Addresses and screens *)

(* Every screen has an address the app knows, and none of them is "none".  *)
LEMMA PathTypes ==
    ASSUME NEW s \in Screens
    PROVE  PathOf(s) \in Paths /\ PathOf(s) # NoPath
<1>1. PathOf(s) \in {<<"group">>, <<"message">>, <<"settings">>, <<"option">>, <<"app">>}
        \/ \E c \in Chats : PathOf(s) = <<"chat", c>>
  BY DEF PathOf, Screens
<1>2. CASE \E c \in Chats : PathOf(s) = <<"chat", c>>
  BY <1>2 DEF Paths, NoPath
<1>3. CASE PathOf(s) \in {<<"group">>, <<"message">>, <<"settings">>, <<"option">>, <<"app">>}
  BY <1>3 DEF Paths, Fixed, NoPath
<1> QED BY <1>1, <1>2, <1>3

(* An address makes a screen a screen. *)
LEMMA AppliedType ==
    ASSUME NEW s \in Screens, NEW path
    PROVE  Applied(s, path) \in Screens
<1> DEFINE base == [s EXCEPT !.new = FALSE, !.group = FALSE]
<1>1. base \in Screens
  BY DEF Screens
<1>2. CASE \E c \in s.listed : path = <<"chat", c>>
  <2> DEFINE d == CHOOSE c \in s.listed : path = <<"chat", c>>
  <2>1. d \in s.listed
    BY <1>2
  <2>2. d \in Chats
    BY <2>1 DEF Screens
  <2> QED BY <1>1, <2>2 DEF Applied, Screens, Views
<1>3. CASE ~ \E c \in s.listed : path = <<"chat", c>>
  BY <1>1, <1>3 DEF Applied, Screens, Views
<1> QED BY <1>2, <1>3

----------------------------------------------------------------------------
(* One step of each kind *)

(* setState with any screen. *)
LEMMA ShowStep ==
    ASSUME RouteInv, NEW s \in Screens, Show(s)
    PROVE  RouteInv'
<1> USE DEF RouteInv
<1>1. screen' = s /\ loose' = FALSE /\ RouteSync(s) /\ gate' = gate /\ armed' = armed /\ mixed' = mixed
  BY DEF Show
<1>2. PathOf(s) \in Paths /\ PathOf(s) # NoPath
  BY PathTypes
<1>3. CASE (~MaySync \/ PathOf(s) = Location) /\ UNCHANGED historyVars
  BY <1>1, <1>3 DEF MaySync, historyVars, RouterTypeOK, FirstIsFirst, FlagIsDue, Agreed,
    OneBackUnlessMixed, Location
<1>4. CASE MaySync /\ entries[at].prev = PathOf(s) /\ AskBack
  <2>1. at # 1
    BY <1>2, <1>4 DEF FirstIsFirst
  <2>2. backs' \in 0 .. MaxBacks /\ backs' >= 1 /\ at > 1
    BY <1>4, <2>1 DEF AskBack, RouterTypeOK
  <2>3. expectPop' \in BOOLEAN /\ loose' \in BOOLEAN
    BY <1>1, <1>4 DEF AskBack
  <2>4. RouterTypeOK'
    BY <1>1, <1>4, <2>2, <2>3 DEF AskBack, RouterTypeOK
  <2>5. FirstIsFirst' /\ FlagIsDue' /\ Agreed'
    BY <1>1, <1>4, <2>2 DEF AskBack, FirstIsFirst, FlagIsDue, Agreed
  <2>6. OneBackUnlessMixed'
    BY <1>1, <1>4 DEF AskBack, MaySync, RouterTypeOK, OneBackUnlessMixed
  <2> QED BY <2>4, <2>5, <2>6
<1>5. CASE MaySync /\ Push(PathOf(s))
  <2> DEFINE e == [path |-> PathOf(s), prev |-> Location]
  <2>1. at + 1 \in 1 .. MaxEntries /\ Location \in Paths
    BY <1>5 DEF Push, RouterTypeOK, Location, Entry
  <2>2. e \in Entry
    BY <1>2, <2>1 DEF Entry
  <2>3. entries' = [entries EXCEPT ![at + 1] = e] /\ at' = at + 1 /\ top' = at + 1
          /\ backs' = backs /\ expectPop' = expectPop
    BY <1>5 DEF Push
  <2>4. entries' \in [1 .. MaxEntries -> Entry] /\ entries'[1] = entries[1]
          /\ entries'[at + 1] = e
    BY <2>1, <2>2, <2>3 DEF RouterTypeOK
  <2>5. RouterTypeOK'
    <3>1. loose' \in BOOLEAN
      BY <1>1
    <3>2. top' \in 1 .. MaxEntries /\ at' \in 1 .. top'
      BY <2>1, <2>3
    <3> QED BY <1>1, <2>3, <2>4, <3>1, <3>2 DEF RouterTypeOK
  <2>6. Agreed' /\ FirstIsFirst'
    BY <1>1, <2>3, <2>4 DEF Agreed, FirstIsFirst, Location
  <2>7. FlagIsDue' /\ OneBackUnlessMixed'
    BY <1>1, <1>5, <2>3 DEF MaySync, FlagIsDue, OneBackUnlessMixed
  <2> QED BY <2>5, <2>6, <2>7
<1> QED BY <1>1, <1>3, <1>4, <1>5 DEF RouteSync

(* The address of an entry decides the screen. *)
LEMMA ApplyStep ==
    ASSUME RouteInv, NEW s \in Screens, NEW i \in 1 .. top, ApplyPath(s, i)
    PROVE  /\ screen' \in Screens /\ loose' = FALSE
           /\ entries' \in [1 .. MaxEntries -> Entry]
           /\ entries'[i].path = PathOf(screen')
           /\ entries'[1].prev = NoPath
<1>1. screen' \in Screens /\ loose' = FALSE
  BY AppliedType DEF ApplyPath
<1>2. PathOf(screen') \in Paths
  BY <1>1, PathTypes
<1>3. i \in 1 .. MaxEntries /\ entries \in [1 .. MaxEntries -> Entry] /\ entries[1].prev = NoPath
  BY DEF RouteInv, RouterTypeOK, FirstIsFirst
<1> DEFINE e == [entries[i] EXCEPT !.path = PathOf(screen')]
<1>4. e \in Entry /\ e.path = PathOf(screen') /\ e.prev = entries[i].prev
  BY <1>2, <1>3 DEF Entry
<1>5. entries' = [entries EXCEPT ![i] = e]
  BY <1>3 DEF ApplyPath
<1> HIDE DEF e
<1>6. entries' \in [1 .. MaxEntries -> Entry] /\ entries'[i] = e /\ (i # 1 => entries'[1] = entries[1])
  BY <1>3, <1>4, <1>5
<1> QED BY <1>1, <1>3, <1>4, <1>6

(* popstate, for a Back that leaves left others on their way.  With the    *)
(* flag up the screen stays as it is.                                      *)
LEMMA PopStep ==
    ASSUME RouteInv, NEW i \in 1 .. top, NEW left \in 0 .. MaxBacks, PopState(i, left),
           armed' = armed, gate' = gate, mixed' \in BOOLEAN
    PROVE  /\ RouterTypeOK' /\ FirstIsFirst' /\ FlagIsDue' /\ Agreed'
           /\ expectPop => screen' = screen
           /\ backs' = left \/ (backs' = left + 1 /\ expectPop')
<1> USE DEF RouteInv
<1>0. i \in 1 .. MaxEntries /\ entries[i] \in Entry /\ PathOf(screen) \in Paths /\ PathOf(screen) # NoPath
  BY PathTypes DEF RouterTypeOK
<1>1. CASE ~expectPop
  <2>1. at' = i /\ backs' = left /\ expectPop' = FALSE /\ top' = top
    BY <1>1 DEF PopState, PopUnexpected
  <2>2. CASE armed /\ ~gate
    <3>1. ApplyPath(screen, i)
      BY <1>1, <2>2 DEF PopState, PopUnexpected
    <3>2. /\ screen' \in Screens /\ loose' = FALSE
          /\ entries' \in [1 .. MaxEntries -> Entry]
          /\ entries'[i].path = PathOf(screen') /\ entries'[1].prev = NoPath
      BY <3>1, ApplyStep DEF RouterTypeOK
    <3> QED BY <1>1, <2>1, <3>2 DEF RouterTypeOK, FirstIsFirst, FlagIsDue, Agreed, Location
  <2>3. CASE ~(armed /\ ~gate)
    <3>1. UNCHANGED <<screen, loose, entries>>
      BY <1>1, <2>3 DEF PopState, PopUnexpected
    <3> QED BY <1>1, <2>1, <2>3, <3>1 DEF RouterTypeOK, FirstIsFirst, FlagIsDue, Agreed
  <2> QED BY <2>2, <2>3
<1>2. CASE expectPop
  <2>1. PopExpected(i, left)
    BY <1>2 DEF PopState
  <2>2. screen' = screen /\ loose' = loose
    BY <2>1 DEF PopExpected
  <2>3. CASE ~(armed /\ ~gate) \/ PathOf(screen) = entries[i].path
    <3>1. at' = i /\ backs' = left /\ expectPop' = FALSE /\ UNCHANGED <<entries, top>>
      BY <2>1, <2>3 DEF PopExpected
    <3> QED BY <2>2, <2>3, <3>1 DEF RouterTypeOK, FirstIsFirst, FlagIsDue, Agreed, Location
  <2>4. CASE (armed /\ ~gate) /\ PathOf(screen) # entries[i].path /\ entries[i].prev = PathOf(screen)
    <3>1. at' = i /\ left < MaxBacks /\ backs' = left + 1 /\ expectPop' = TRUE /\ UNCHANGED <<entries, top>>
      BY <2>1, <2>4 DEF PopExpected
    <3>2. i # 1
      BY <1>0, <2>4 DEF FirstIsFirst
    <3> QED BY <2>2, <3>1, <3>2 DEF RouterTypeOK, FirstIsFirst, FlagIsDue, Agreed
  <2>5. CASE (armed /\ ~gate) /\ PathOf(screen) # entries[i].path /\ entries[i].prev # PathOf(screen)
    <3> DEFINE e == [path |-> PathOf(screen), prev |-> entries[i].path]
    <3>1. /\ i < MaxEntries /\ entries' = [entries EXCEPT ![i + 1] = e]
          /\ at' = i + 1 /\ top' = i + 1 /\ backs' = left /\ expectPop' = FALSE
      BY <2>1, <2>5 DEF PopExpected
    <3>2. e \in Entry
      BY <1>0 DEF Entry
    <3>3. entries' \in [1 .. MaxEntries -> Entry] /\ entries'[i + 1] = e /\ entries'[1] = entries[1]
      BY <1>0, <3>1, <3>2 DEF RouterTypeOK
    <3>4. e.path = PathOf(screen)
      OBVIOUS
    <3> HIDE DEF e
    <3>5. RouterTypeOK'
      <4>1. expectPop' \in BOOLEAN /\ backs' \in 0 .. MaxBacks
        BY <3>1
      <4>2. top' \in 1 .. MaxEntries /\ at' \in 1 .. top'
        BY <1>0, <3>1
      <4> QED BY <2>2, <3>3, <4>1, <4>2 DEF RouterTypeOK
    <3>6. FirstIsFirst' /\ FlagIsDue' /\ Agreed'
      BY <2>2, <3>1, <3>3, <3>4 DEF FirstIsFirst, FlagIsDue, Agreed, Location
    <3> QED BY <2>2, <3>1, <3>5, <3>6
  <2> QED BY <2>3, <2>4, <2>5
<1> QED BY <1>1, <1>2 DEF RouterTypeOK

----------------------------------------------------------------------------
(* The invariant *)

LEMMA InitInv == RouterInit => RouteInv
<1> SUFFICES ASSUME RouterInit PROVE RouteInv
  OBVIOUS
<1> USE DEF RouterInit
<1>1. screen \in Screens
  BY DEF Screens, Views
<1>2. entries \in [1 .. MaxEntries -> Entry] /\ entries[1].prev = NoPath
  BY DEF Entry
<1>3. gate \in BOOLEAN /\ armed \in BOOLEAN /\ expectPop \in BOOLEAN /\ loose \in BOOLEAN /\ mixed \in BOOLEAN
  OBVIOUS
<1>4. RouterTypeOK
  BY <1>1, <1>2, <1>3 DEF RouterTypeOK
<1>5. FlagIsDue /\ Agreed /\ OneBackUnlessMixed
  BY DEF FlagIsDue, Agreed, OneBackUnlessMixed
<1> QED BY <1>2, <1>4, <1>5 DEF RouteInv, FirstIsFirst

LEMMA StepInv == RouteInv /\ [RouterNext]_routerVars => RouteInv'
<1> SUFFICES ASSUME RouteInv, [RouterNext]_routerVars PROVE RouteInv'
  OBVIOUS
<1>0. screen \in Screens /\ screen.listed \in SUBSET Chats /\ screen.active \in Chats \union {NoChat}
  BY DEF RouteInv, RouterTypeOK, Screens
<1>1. CASE OpenSettings \/ GoOption \/ CloseOption \/ CloseSettings
  <2>1. \E v \in Views : Show([screen EXCEPT !.view = v])
    BY <1>1 DEF OpenSettings, GoOption, CloseOption, CloseSettings, Views
  <2>2. \A v \in Views : [screen EXCEPT !.view = v] \in Screens
    BY <1>0 DEF Screens
  <2> QED BY <2>1, <2>2, ShowStep
<1>2. CASE NewChat \/ CloseNew
  <2>1. \E b \in BOOLEAN : Show([screen EXCEPT !.new = b])
    BY <1>2 DEF NewChat, CloseNew
  <2>2. \A b \in BOOLEAN : [screen EXCEPT !.new = b] \in Screens
    BY <1>0 DEF Screens
  <2> QED BY <2>1, <2>2, ShowStep
<1>3. CASE OpenGroup
  <2>1. [screen EXCEPT !.new = FALSE, !.group = TRUE] \in Screens
    BY <1>0 DEF Screens
  <2> QED BY <1>3, <2>1, ShowStep DEF OpenGroup
<1>4. CASE CloseGroup
  <2>1. [screen EXCEPT !.group = FALSE] \in Screens
    BY <1>0 DEF Screens
  <2> QED BY <1>4, <2>1, ShowStep DEF CloseGroup
<1>5. CASE BackToList
  <2>1. [screen EXCEPT !.active = NoChat] \in Screens
    BY <1>0 DEF Screens
  <2> QED BY <1>5, <2>1, ShowStep DEF BackToList
<1>6. ASSUME NEW c \in Chats, OpenThread(c) PROVE RouteInv'
  <2>1. [screen EXCEPT !.active = c, !.view = "chat", !.listed = @ \union {c}] \in Screens
    BY <1>0 DEF Screens, Views
  <2> QED BY <1>6, <2>1, ShowStep DEF OpenThread
<1>7. CASE DeleteThread
  <2>1. [screen EXCEPT !.listed = @ \ {screen.active}, !.active = NoChat] \in Screens
    BY <1>0 DEF Screens
  <2> QED BY <1>7, <2>1, ShowStep DEF DeleteThread
<1>8. ASSUME NEW cs \in SUBSET Chats, SetThreads(cs) PROVE RouteInv'
  <2>1. [screen EXCEPT !.listed = cs] \in Screens
    BY <1>0 DEF Screens
  <2> QED BY <1>8, <2>1, ShowStep DEF SetThreads
<1>9. CASE ThreadGone
  <2>1. [screen EXCEPT !.active = NoChat] \in Screens
    BY <1>0 DEF Screens
  <2> QED BY <1>9, <2>1 DEF ThreadGone, historyVars, RouteInv, RouterTypeOK, FirstIsFirst, FlagIsDue,
    Agreed, OneBackUnlessMixed
<1>10. CASE RouteStart
  <2>1. PICK cs \in SUBSET Chats : ApplyPath([screen EXCEPT !.view = "chat", !.listed = cs], at)
    BY <1>10 DEF RouteStart
  <2>2. [screen EXCEPT !.view = "chat", !.listed = cs] \in Screens
    BY <1>0 DEF Screens, Views
  <2>3. at \in 1 .. top
    BY DEF RouteInv, RouterTypeOK
  <2>4. /\ screen' \in Screens /\ loose' = FALSE
        /\ entries' \in [1 .. MaxEntries -> Entry]
        /\ entries'[at].path = PathOf(screen') /\ entries'[1].prev = NoPath
    BY <2>1, <2>2, <2>3, ApplyStep
  <2>5. gate' = FALSE /\ armed' = TRUE /\ UNCHANGED <<at, top, backs, expectPop, mixed>>
    BY <1>10 DEF RouteStart
  <2> QED BY <2>4, <2>5 DEF RouteInv, RouterTypeOK, FirstIsFirst, FlagIsDue, Agreed,
    OneBackUnlessMixed, Location
<1>11. CASE OwnBack
  <2>1. /\ at - 1 \in 1 .. top /\ backs - 1 \in 0 .. MaxBacks /\ PopState(at - 1, backs - 1)
        /\ mixed' = (mixed /\ backs' > 0) /\ UNCHANGED <<gate, armed>>
    BY <1>11 DEF OwnBack, RouteInv, RouterTypeOK
  <2>2. /\ RouterTypeOK' /\ FirstIsFirst' /\ FlagIsDue' /\ Agreed'
        /\ backs' = backs - 1 \/ (backs' = backs /\ expectPop')
    <3>1. mixed' \in BOOLEAN
      BY <2>1
    <3>2. \A b \in Nat : (b - 1) + 1 = b
      OBVIOUS
    <3> QED BY <2>1, <3>1, PopStep DEF RouteInv, RouterTypeOK
  <2>3. OneBackUnlessMixed'
    BY <2>1, <2>2 DEF RouteInv, RouterTypeOK, OneBackUnlessMixed
  <2> QED BY <2>2, <2>3 DEF RouteInv
<1>12. CASE OwnBackLeaves
  BY <1>12 DEF OwnBackLeaves, RouteInv, RouterTypeOK, FirstIsFirst, FlagIsDue, Agreed,
    OneBackUnlessMixed, Location
<1>13. ASSUME NEW i \in 1 .. MaxEntries, UserGoes(i) PROVE RouteInv'
  <2>1. /\ i \in 1 .. top /\ backs \in 0 .. MaxBacks /\ PopState(i, backs)
        /\ mixed' = (mixed \/ backs > 0) /\ UNCHANGED <<gate, armed>>
    BY <1>13 DEF UserGoes, RouteInv, RouterTypeOK
  <2>2. mixed' \in BOOLEAN
    BY <2>1 DEF RouteInv, RouterTypeOK
  <2>3. /\ RouterTypeOK' /\ FirstIsFirst' /\ FlagIsDue' /\ Agreed'
        /\ backs' = backs \/ (backs' = backs + 1 /\ expectPop')
    BY <2>1, <2>2, PopStep
  <2>4. OneBackUnlessMixed'
    BY <2>1, <2>3 DEF RouteInv, RouterTypeOK, OneBackUnlessMixed
  <2> QED BY <2>3, <2>4 DEF RouteInv
<1>14. CASE Lock
  <2>1. [screen EXCEPT !.view = "chat", !.active = NoChat, !.listed = {}] \in Screens
    BY <1>0 DEF Screens, Views
  <2> QED BY <1>14, <2>1 DEF Lock, historyVars, RouteInv, RouterTypeOK, FirstIsFirst, FlagIsDue, Agreed,
    OneBackUnlessMixed
<1>15. CASE ReloadPage
  <2>1. screen' \in Screens
    BY <1>15 DEF ReloadPage, Screens, Views
  <2>2. gate' \in BOOLEAN
    BY <1>15 DEF ReloadPage
  <2>3. backs' \in 0 .. MaxBacks
    BY <1>15 DEF ReloadPage
  <2>4. entries' \in [1 .. MaxEntries -> Entry] /\ top' \in 1 .. MaxEntries /\ at' \in 1 .. top'
    BY <1>15 DEF ReloadPage, RouteInv, RouterTypeOK
  <2>5. armed' \in BOOLEAN /\ expectPop' \in BOOLEAN /\ loose' \in BOOLEAN /\ mixed' \in BOOLEAN
    BY <1>15 DEF ReloadPage
  <2>6. RouterTypeOK'
    BY <2>1, <2>2, <2>3, <2>4, <2>5 DEF RouterTypeOK
  <2>7. FirstIsFirst' /\ FlagIsDue'
    BY <1>15 DEF ReloadPage, RouteInv, FirstIsFirst, FlagIsDue
  <2>8. Agreed' /\ OneBackUnlessMixed'
    BY <1>15 DEF ReloadPage, Agreed, OneBackUnlessMixed
  <2> QED BY <2>6, <2>7, <2>8 DEF RouteInv
<1>16. CASE UNCHANGED routerVars
  BY <1>16 DEF routerVars, historyVars, RouteInv, RouterTypeOK, FirstIsFirst, FlagIsDue, Agreed,
    OneBackUnlessMixed, Location
<1> QED BY <1>1, <1>2, <1>3, <1>4, <1>5, <1>6, <1>7, <1>8, <1>9, <1>10, <1>11, <1>12, <1>13, <1>14,
    <1>15, <1>16 DEF RouterNext

LEMMA Invariance == RouterSpec => []RouteInv
  BY InitInv, StepInv, PTL DEF RouterSpec

----------------------------------------------------------------------------
(* The theorems *)

(* The screen, the history of the browser and the flags keep their types,  *)
(* whatever the user, the frames and the browser do.                       *)
THEOREM RouterTypeCorrect == RouterSpec => []RouterTypeOK
<1>1. RouteInv => RouterTypeOK
  BY DEF RouteInv
<1> QED BY <1>1, Invariance, PTL

(* Once no Back of the app is on its way, the address is the one of the    *)
(* screen: the router never waits for a popstate that will not come.       *)
THEOREM AddressFollowsScreen == RouterSpec => []RouteAgrees
<1>1. RouteInv => RouteAgrees
  BY DEF RouteInv, RouterTypeOK, FlagIsDue, Agreed, RouteAgrees
<1> QED BY <1>1, Invariance, PTL

(* router.js:39: the app's own Back moves no screen, unless the user went  *)
(* Back or Forward while it was due.                                       *)
THEOREM OwnBackIsQuiet == RouterSpec => OwnBackKeepsScreen
<1>1. RouteInv /\ [RouterNext]_routerVars => [OwnBack => mixed \/ screen' = screen]_routerVars
  <2> SUFFICES ASSUME RouteInv, OwnBack, ~mixed PROVE screen' = screen
    OBVIOUS
  <2>1. expectPop
    BY DEF RouteInv, RouterTypeOK, OneBackUnlessMixed, OwnBack
  <2> QED BY <2>1 DEF OwnBack, PopState, PopExpected
<1> QED BY <1>1, Invariance, PTL DEF RouterSpec, OwnBackKeepsScreen

=============================================================================
