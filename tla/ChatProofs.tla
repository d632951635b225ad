------------------------------ MODULE ChatProofs ------------------------------
(***************************************************************************)
(* Proofs about a chat as one tab sees it: its messages (MessageList) and  *)
(* the list of chats with their unread counters (ThreadList), for any      *)
(* number of messages, chats, pages and requests on their way.             *)
(*                                                                         *)
(* What the two modules promise is about a tab at rest, so none of it is   *)
(* inductive.  Of the messages, PageInv says what a page would make of the *)
(* list if it came now, and ListInv that the list is the log but for what  *)
(* is coming; EntryInv ties the mark of an entry to its draft and QueueInv *)
(* the drafts to the order of the log.  Of the chats, NewestInv finds the  *)
(* one request that will be believed, MemberInv says which chats it brings *)
(* or brought, and AnswerInv and ListedInv that a counter, in an answer or *)
(* shown, and what is still to be counted make the server's counter.       *)
(***************************************************************************)
EXTENDS MessageList, ThreadList, FiniteSetTheorems, SequenceTheorems, WellFoundedInduction, TLAPS

----------------------------------------------------------------------------
(* How often an element occurs in a queue *)

Places(q, e) == {i \in DOMAIN q : q[i] = e}
Times(q, e) == Cardinality(Places(q, e))

\* It is a number, and none just when the element is not there.
LEMMA TimesIsNatural ==
    ASSUME NEW S, NEW q \in Seq(S), NEW e
    PROVE  /\ IsFiniteSet(Places(q, e)) /\ Times(q, e) \in Nat
           /\ Times(q, e) = 0 <=> e \notin ToSet(q)
<1>1. IsFiniteSet(DOMAIN q) /\ Places(q, e) \subseteq DOMAIN q
  BY FS_Interval DEF Places
<1>2. IsFiniteSet(Places(q, e))
  BY <1>1, FS_Subset
<1>3. Times(q, e) = 0 <=> Places(q, e) = {}
  BY <1>2, FS_EmptySet DEF Times
<1>4. Places(q, e) = {} <=> e \notin ToSet(q)
  BY DEF Places, ToSet
<1> QED BY <1>2, <1>3, <1>4, FS_CardinalityType DEF Times

\* One more at the end
LEMMA TimesAppended ==
    ASSUME NEW S, NEW q \in Seq(S), NEW d \in S, NEW e
    PROVE  /\ ToSet(Append(q, d)) = ToSet(q) \union {d}
           /\ Times(Append(q, d), e) = Times(q, e) + (IF d = e THEN 1 ELSE 0)
<1>1. ToSet(Append(q, d)) = ToSet(q) \union {d}
  <2>1. /\ DOMAIN Append(q, d) = 1 .. Len(q) + 1 /\ DOMAIN q = 1 .. Len(q) /\ Len(q) \in Nat
        /\ Append(q, d)[Len(q) + 1] = d /\ \A i \in 1 .. Len(q) : Append(q, d)[i] = q[i]
    OBVIOUS
  <2>2. ASSUME NEW x \in ToSet(Append(q, d)) PROVE x \in ToSet(q) \union {d}
    <3>1. PICK i \in 1 .. Len(q) + 1 : x = Append(q, d)[i]
      BY <2>1, <2>2 DEF ToSet
    <3> QED BY <2>1, <3>1 DEF ToSet
  <2>3. ASSUME NEW x \in ToSet(q) \union {d} PROVE x \in ToSet(Append(q, d))
    <3>1. CASE x = d
      BY <2>1, <3>1 DEF ToSet
    <3>2. CASE x \in ToSet(q)
      <4>1. PICK i \in 1 .. Len(q) : x = q[i]
        BY <2>1, <3>2 DEF ToSet
      <4> QED BY <2>1, <4>1 DEF ToSet
    <3> QED BY <2>3, <3>1, <3>2
  <2> QED BY <2>2, <2>3
<1>2. CASE d = e
  <2>1. Places(Append(q, d), e) = Places(q, e) \union {Len(q) + 1} /\ Len(q) + 1 \notin Places(q, e)
    BY <1>2 DEF Places
  <2> QED BY <1>1, <1>2, <2>1, TimesIsNatural, FS_AddElement DEF Times
<1>3. CASE d # e
  <2>1. Places(Append(q, d), e) = Places(q, e)
    BY <1>3 DEF Places
  <2> QED BY <1>1, <1>3, <2>1, TimesIsNatural DEF Times
<1> QED BY <1>2, <1>3

\* and one less at the head.
LEMMA TimesDropped ==
    ASSUME NEW S, NEW q \in Seq(S), q # <<>>, NEW e
    PROVE  /\ Tail(q) \in Seq(S) /\ Head(q) \in S /\ Head(q) \in ToSet(q)
           /\ ToSet(q) = ToSet(Tail(q)) \union {Head(q)}
           /\ Times(q, e) = Times(Tail(q), e) + (IF Head(q) = e THEN 1 ELSE 0)
<1> DEFINE n == Len(q)
           later == {i \in 2 .. n : q[i] = e}
           f == [i \in Places(Tail(q), e) |-> i + 1]
<1>1. n \in Nat /\ n >= 1 /\ DOMAIN q = 1 .. n /\ Len(Tail(q)) = n - 1 /\ DOMAIN Tail(q) = 1 .. n - 1
      /\ Head(q) = q[1] /\ \A i \in 1 .. n - 1 : Tail(q)[i] = q[i + 1]
  OBVIOUS
<1>2. Tail(q) \in Seq(S) /\ Head(q) \in S /\ Head(q) \in ToSet(q)
  BY <1>1 DEF ToSet
<1>3. ToSet(q) = ToSet(Tail(q)) \union {Head(q)}
  <2>1. ASSUME NEW x \in ToSet(q) PROVE x \in ToSet(Tail(q)) \union {Head(q)}
    <3>1. PICK i \in 1 .. n : x = q[i]
      BY <1>1, <2>1 DEF ToSet
    <3>2. CASE i = 1
      BY <1>1, <3>1, <3>2
    <3>3. CASE i # 1
      <4>1. i - 1 \in 1 .. n - 1 /\ Tail(q)[i - 1] = x
        BY <1>1, <3>1, <3>3
      <4> QED BY <1>1, <4>1 DEF ToSet
    <3> QED BY <3>2, <3>3
  <2>2. ASSUME NEW x \in ToSet(Tail(q)) PROVE x \in ToSet(q)
    <3>1. PICK i \in 1 .. n - 1 : x = Tail(q)[i]
      BY <1>1, <2>2 DEF ToSet
    <3>2. i + 1 \in 1 .. n /\ x = q[i + 1]
      BY <1>1, <3>1
    <3> QED BY <1>1, <3>2 DEF ToSet
  <2> QED BY <1>2, <2>1, <2>2
<1>4. Cardinality(later) = Times(Tail(q), e) /\ IsFiniteSet(later)
  <2>1. f \in Bijection(Places(Tail(q), e), later)
    <3>1. \A i \in Places(Tail(q), e) : i \in 1 .. n - 1 /\ i + 1 \in later
      BY <1>1 DEF Places
    <3>2. \A j \in later : j - 1 \in Places(Tail(q), e)
      BY <1>1 DEF Places
    <3>3. f \in [Places(Tail(q), e) -> later]
      BY <3>1
    <3>4. \A a, b \in Places(Tail(q), e) : f[a] = f[b] => a = b
      BY <3>1
    <3>5. \A j \in later : \E i \in Places(Tail(q), e) : f[i] = j
      BY <3>1, <3>2
    <3> QED BY <3>3, <3>4, <3>5 DEF Bijection, Injection, Surjection, IsInjective
  <2>2. ExistsBijection(Places(Tail(q), e), later)
    BY <2>1 DEF ExistsBijection
  <2>3. IsFiniteSet(Places(Tail(q), e))
    BY <1>2, TimesIsNatural
  <2> QED BY <2>2, <2>3, FS_Bijection DEF Times
<1>5. CASE Head(q) = e
  <2>1. Places(q, e) = later \union {1} /\ 1 \notin later
    BY <1>1, <1>5 DEF Places
  <2>2. Times(q, e) = Cardinality(later) + 1
    BY <1>4, <2>1, FS_AddElement DEF Times
  <2> QED BY <1>2, <1>3, <1>4, <1>5, <2>2
<1>6. CASE Head(q) # e
  <2>1. Places(q, e) = later
    BY <1>1, <1>6 DEF Places
  <2>2. Times(q, e) = Times(Tail(q), e) /\ Times(Tail(q), e) \in Nat
    BY <1>2, <1>4, <2>1, TimesIsNatural DEF Times
  <2> QED BY <1>2, <1>3, <1>6, <2>2
<1> QED BY <1>5, <1>6

----------------------------------------------------------------------------
(* A set of numbers has a least element *)

Below == {p \in Nat \X Nat : p[1] < p[2]}

\* Without an operator parameter: what the induction theorems would be needed for.
LEMMA Least ==
    ASSUME NEW T, T \subseteq Nat, T # {}
    PROVE  \E x \in T : \A y \in T : x <= y
<1>1. IsWellFoundedOn(Below, Nat)
  BY NatLessThanWellFounded DEF OpToRel, Below
<1>2. PICK x \in T : \A y \in T : <<y, x>> \notin Below
  BY <1>1, WFMin
<1>3. ASSUME NEW y \in T PROVE x <= y
  <2>1. x \in Nat /\ y \in Nat /\ <<y, x>> \in Nat \X Nat /\ <<y, x>>[1] = y /\ <<y, x>>[2] = x
    OBVIOUS
  <2> QED BY <1>2, <2>1 DEF Below
<1> QED BY <1>3

----------------------------------------------------------------------------
(* The messages of a chat: what their types say, in parts *)

LogOK == log \in Seq(Msgs) /\ IsInjective(log) /\ cleared \in 0 .. Len(log) /\ expired \subseteq ToSet(log)
ListOK ==
    /\ list \subseteq Entry /\ opened \in BOOLEAN /\ (list # {} => opened)
    /\ more \in 0 .. Len(log) /\ cache \subseteq Entry
DraftsOK ==
    /\ drafted \in 0 .. MaxMine /\ queue \in Seq(1 .. drafted)
    /\ posting \subseteq [msg: 1 .. drafted, step: {"seal", "post", "answer"}]
ArrivalsOK == frames \in Seq(ToSet(log)) /\ decoding \subseteq ToSet(log)
PagesOK == loads \subseteq Load /\ clearing \in {"no", "sent", "answered"} /\ missed \in BOOLEAN

\* The parts make the type invariant.
LEMMA MessageParts == MessageTypeOK <=> LogOK /\ ListOK /\ DraftsOK /\ ArrivalsOK /\ PagesOK
BY DEF MessageTypeOK, LogOK, ListOK, DraftsOK, ArrivalsOK, PagesOK

\* The part of the log from a number on, without what was cleared.
Window(k) == {log[i] : i \in {j \in DOMAIN log : j > cleared /\ j >= k}}

\* What has been stored and is not in the list yet.
Coming == ToSet(frames) \union decoding

\* A draft that is still to be stored or answered.
Underway(m) == m \in ToSet(queue) \/ \E p \in posting : p.msg = m

\* Drafts are sent one after another: what is stored comes before what is being sent, and
\* that before what waits.
QueueInv ==
    /\ \A p, q \in posting : p = q
    /\ \A i, j \in DOMAIN queue : i < j => queue[i] < queue[j]
    /\ \A p \in posting, m \in ToSet(queue) : p.msg < m
    /\ \A m \in ToSet(log) \intersect Mine :
         /\ m <= drafted
         /\ \A n \in ToSet(queue) : m < n
         /\ \A p \in posting : p.step # "answer" => m < p.msg
    /\ \A p \in posting : p.step = "answer" => p.msg \in ToSet(log)
    /\ SentInOrder

\* The mark of an entry tells what became of its message.
Sound(es) ==
    \A e \in es :
        /\ e.mark = "saved" => e.msg \in ToSet(log)
        /\ e.mark = "failed" => e.msg \in 1 .. drafted /\ ~Underway(e.msg)
        /\ e.mark = "pending" => Underway(e.msg)

EntryInv ==
    /\ Sound(list) /\ Sound(cache) /\ \A e \in cache : e.mark # "pending"
    /\ ~opened => list = {} /\ queue = <<>> /\ posting = {} /\ more = 0

\* What the list would be if a page that was not overtaken arrived now.
Fresh(es, m) == \A e \in es : e.msg = m => e.mark = "pending"

PageOK(l) ==
    /\ l.before \in 0 .. Len(log)
    /\ l.step = "read" => l.more \in 0 .. Len(log) /\ l.items \subseteq ToSet(log)
    /\ l.before # 0 /\ ~l.late =>
         /\ l.before = more /\ opened
         /\ l.step = "read" => l.more <= l.before /\ Window(l.more) = Window(l.before) \union l.items
    /\ l.before = 0 /\ l.step = "read" /\ ~l.late =>
         /\ l.items \subseteq Window(l.more)
         /\ \A m \in Window(l.more) \ l.items :
                m \in Coming /\ Fresh(IF opened THEN list ELSE cache, m)

PageInv == \A l \in loads : PageOK(l)

\* The list is the log from hasMore on, but for what is coming; after the server has
\* cleared the chat it need not be, until the list is emptied.
ListInv ==
    opened /\ ~missed =>
        /\ \A e \in Marked("failed") : e.msg \notin ToSet(log)
        /\ clearing # "answered" =>
             Shown \ expired \subseteq Window(more) /\ Window(more) \ expired \subseteq Shown \union Coming

----------------------------------------------------------------------------
(* Growing queues and windows *)

\* What a longer queue is.
LEMMA Lengthened ==
    ASSUME NEW S, NEW q \in Seq(S), NEW d \in S
    PROVE  /\ Append(q, d) \in Seq(S) /\ ToSet(Append(q, d)) = ToSet(q) \union {d}
           /\ Len(Append(q, d)) = Len(q) + 1 /\ Len(q) \in Nat /\ DOMAIN q = 1 .. Len(q)
           /\ DOMAIN Append(q, d) = 1 .. Len(q) + 1 /\ Append(q, d)[Len(q) + 1] = d
           /\ \A i \in 1 .. Len(q) : Append(q, d)[i] = q[i]
BY TimesAppended

\* A queue of some of S is one of S, and of all it holds.
LEMMA Widened ==
    ASSUME NEW S, NEW q \in Seq(S)
    PROVE  /\ q \in Seq(ToSet(q)) /\ ToSet(q) \subseteq S
           /\ \A T : S \subseteq T => q \in Seq(T)
<1>1. Len(q) \in Nat /\ q \in [1 .. Len(q) -> S]
  OBVIOUS
<1>2. \A i \in 1 .. Len(q) : q[i] \in ToSet(q)
  BY <1>1 DEF ToSet
<1>3. q \in [1 .. Len(q) -> ToSet(q)]
  BY <1>1, <1>2
<1>4. ASSUME NEW T, S \subseteq T PROVE q \in Seq(T)
  <2>1. q \in [1 .. Len(q) -> T]
    BY <1>1, <1>4
  <2> QED BY <1>1, <2>1, SeqDef
<1>5. q \in Seq(ToSet(q))
  BY <1>1, <1>3, SeqDef
<1>6. ToSet(q) \subseteq S
  BY <1>1 DEF ToSet
<1> QED BY <1>4, <1>5, <1>6

\* The server appends a message.
LEMMA LogGrown ==
    ASSUME LogOK, NEW m \in Msgs \ ToSet(log), Store(m), UNCHANGED <<cleared, expired>>
    PROVE  /\ LogOK' /\ ToSet(log') = ToSet(log) \union {m} /\ Len(log') = Len(log) + 1
           /\ \A k \in 0 .. Len(log) : Window(k)' = Window(k) \union {m}
<1>1. /\ log' \in Seq(Msgs) /\ ToSet(log') = ToSet(log) \union {m}
      /\ Len(log') = Len(log) + 1 /\ Len(log) \in Nat /\ DOMAIN log = 1 .. Len(log)
      /\ DOMAIN log' = 1 .. Len(log) + 1 /\ log'[Len(log) + 1] = m
      /\ \A i \in 1 .. Len(log) : log'[i] = log[i]
  BY Lengthened DEF LogOK, Store
<1>2. IsInjective(log')
  <2>1. ASSUME NEW i \in 1 .. Len(log) + 1, NEW j \in 1 .. Len(log) + 1, log'[i] = log'[j]
        PROVE  i = j
    <3>1. \A n \in 1 .. Len(log) : log[n] # m
      BY <1>1 DEF ToSet
    <3>2. CASE i \in 1 .. Len(log) /\ j \in 1 .. Len(log)
      BY <1>1, <2>1, <3>2 DEF LogOK, IsInjective
    <3>3. CASE i = Len(log) + 1 \/ j = Len(log) + 1
      BY <1>1, <2>1, <3>1, <3>3
    <3> QED BY <1>1, <3>2, <3>3
  <2> QED BY <1>1, <2>1 DEF IsInjective
<1>3. LogOK'
  BY <1>1, <1>2 DEF LogOK
<1>4. ASSUME NEW k \in 0 .. Len(log) PROVE Window(k)' = Window(k) \union {m}
  <2>1. cleared' = cleared /\ cleared \in 0 .. Len(log)
    BY DEF LogOK
  <2>2. Window(k)' = {log'[i] : i \in {j \in 1 .. Len(log) + 1 : j > cleared /\ j >= k}}
    BY <1>1, <2>1 DEF Window
  <2>3. Window(k) = {log[i] : i \in {j \in 1 .. Len(log) : j > cleared /\ j >= k}}
    BY <1>1 DEF Window
  <2>4. {j \in 1 .. Len(log) + 1 : j > cleared /\ j >= k}
          = {j \in 1 .. Len(log) : j > cleared /\ j >= k} \union {Len(log) + 1}
    BY <1>1, <2>1
  <2> QED BY <1>1, <2>2, <2>3, <2>4
<1> QED BY <1>1, <1>3, <1>4

\* A stored message belongs where the list stands for it.
LEMMA BelongsToWindow ==
    ASSUME LogOK, NEW m \in ToSet(log)
    PROVE  Belongs(m) <=> m \in Window(more)
<1>1. PICK n \in DOMAIN log : log[n] = m
  BY DEF ToSet
<1>2. Number(m) \in DOMAIN log /\ log[Number(m)] = m
  BY <1>1 DEF Number
<1>3. \A i \in DOMAIN log : log[i] = m => i = Number(m)
  BY <1>2 DEF LogOK, IsInjective
<1> QED BY <1>2, <1>3 DEF Belongs, Window

\* The numbers a page is read from, and the number the next one continues before.
PageNumbers(low, top) == {i \in low + 1 .. top : i > top - PageSize}
From(page, first) == IF Cardinality(page) = PageSize /\ first > 1 THEN first ELSE 0

\* A whole page stands for the log from that number on.
LEMMA PageWindow ==
    ASSUME NEW low \in Nat, NEW top \in Nat, NEW first,
           PageNumbers(low, top) # {} =>
              first \in PageNumbers(low, top) /\ \A j \in PageNumbers(low, top) : first <= j
    PROVE  PageNumbers(low, top) = {i \in low + 1 .. top : i >= From(PageNumbers(low, top), first)}
<1> DEFINE a == IF top - PageSize > low THEN top - PageSize + 1 ELSE low + 1
           page == PageNumbers(low, top)
<1>1. PageSize \in Nat \ {0} /\ page = a .. top /\ a \in Nat /\ a >= low + 1
  BY MessageAssumption DEF PageNumbers
<1>2. a = IF top - PageSize > low THEN top - PageSize + 1 ELSE low + 1
  OBVIOUS
<1>6. page # {} => first \in page /\ \A j \in page : first <= j
  OBVIOUS
<1> HIDE DEF a, page
<1>3. Cardinality(page) = IF a > top THEN 0 ELSE top - a + 1
  <2>1. a \in Int /\ top \in Int
    BY <1>1
  <2>2. Cardinality(a .. top) = IF a > top THEN 0 ELSE top - a + 1
    BY <2>1, FS_Interval
  <2> QED BY <1>1, <2>2
<1>4. CASE Cardinality(page) = PageSize
  <2>1. a <= top
    BY <1>1, <1>3, <1>4
  <2>2. a \in page /\ \A j \in page : a <= j
    BY <1>1, <2>1
  <2>3. first \in page /\ \A j \in page : first <= j
    BY <1>6, <2>2
  <2>4. first = a
    BY <1>1, <2>2, <2>3
  <2>5. page = {i \in low + 1 .. top : i >= From(page, first)}
    BY <1>1, <1>4, <2>1, <2>4 DEF From
  <2> QED BY <2>5 DEF page
<1>5. CASE Cardinality(page) # PageSize
  <2>1. a = low + 1
    BY <1>1, <1>2, <1>3, <1>5
  <2>2. page = {i \in low + 1 .. top : i >= From(page, first)}
    BY <1>1, <1>5, <2>1 DEF From
  <2> QED BY <2>2 DEF page
<1> QED BY <1>4, <1>5

\* What is being sent is a draft of the user's.
LEMMA DraftsAreMine ==
    ASSUME DraftsOK, NEW p \in posting
    PROVE  p.msg \in Mine /\ p.msg \in Msgs /\ p.msg \in 1 .. drafted /\ drafted \in 0 .. MaxMine
BY MessageAssumption DEF DraftsOK, Msgs, Mine

\* Up to where a request reads the log.
UpTo(l) == IF l.before = 0 THEN Len(log) ELSE l.before - 1

\* What a page holds when it has been read.
LEMMA PageRead ==
    ASSUME LogOK, PagesOK, PageInv, NEW l \in loads, ReadPage(l)
    PROVE  \E r \in Load :
             /\ loads' = (loads \ {l}) \union {r}
             /\ r.step = "read" /\ r.before = l.before /\ (l.late => r.late)
             /\ r.items \subseteq ToSet(log) /\ r.more \in 0 .. UpTo(l)
             /\ ~r.late => r.items = {log[i] : i \in {j \in cleared + 1 .. UpTo(l) : j >= r.more}}
<1> DEFINE page == PageNumbers(cleared, UpTo(l))
           kept == {i \in page : log[i] \notin expired}
           first == CHOOSE i \in kept : \A j \in kept : i <= j
           items == {log[i] : i \in kept}
           from == From(kept, first)
           r == [l EXCEPT !.step = "read", !.items = items, !.more = from,
                          !.late = l.late \/ kept # page]
<1>1. l \in Load /\ Len(log) \in Nat /\ DOMAIN log = 1 .. Len(log) /\ cleared \in Nat
      /\ l.before \in 0 .. Len(log)
  BY DEF PagesOK, LogOK, PageInv, PageOK
<1>2. UpTo(l) \in 0 .. Len(log)
  BY <1>1 DEF UpTo
<1>3. kept \subseteq 1 .. UpTo(l)
  BY <1>1, <1>2 DEF PageNumbers
<1>4. kept # {} => first \in kept /\ \A j \in kept : first <= j
  <2> SUFFICES ASSUME kept # {} PROVE first \in kept /\ \A j \in kept : first <= j
    OBVIOUS
  <2> HIDE DEF kept
  <2>1. kept \subseteq Nat
    BY <1>2, <1>3
  <2>2. \E i \in kept : \A j \in kept : i <= j
    BY <2>1, Least
  <2> QED BY <2>2
<1>10. from \in 0 .. UpTo(l)
  <2>1. CASE kept = {}
    <3>1. Cardinality(kept) # PageSize
      <4> HIDE DEF kept
      <4> QED BY <2>1, FS_EmptySet, MessageAssumption
    <3> HIDE DEF kept, first
    <3> QED BY <1>1, <1>2, <3>1 DEF From
  <2>2. CASE kept # {}
    <3>1. first \in 1 .. UpTo(l) /\ UpTo(l) \in Nat
      BY <1>1, <1>2, <1>3, <1>4, <2>2
    <3> HIDE DEF kept, first
    <3> QED BY <3>1 DEF From
  <2> QED BY <2>1, <2>2
<1>5. items \subseteq ToSet(log)
  <2>1. \A i \in kept : i \in DOMAIN log
    BY <1>1, <1>2, <1>3
  <2> HIDE DEF kept
  <2> QED BY <2>1 DEF ToSet
<1>6. ToSet(log) \subseteq Msgs
  BY Widened DEF LogOK
<1>7. /\ r \in Load /\ r.step = "read" /\ r.before = l.before /\ (l.late => r.late)
      /\ r.items = items /\ r.more = from /\ (~r.late => kept = page)
  <2> HIDE DEF kept, page, items, from
  <2>1. items \subseteq Msgs /\ from \in Nat
    BY <1>2, <1>10, <1>5, <1>6
  <2> QED BY <1>1, <2>1 DEF Load
<1>8. loads' = (loads \ {l}) \union {r}
  BY DEF ReadPage, UpTo, PageNumbers, From
<1>9. ASSUME kept = page PROVE items = {log[i] : i \in {j \in cleared + 1 .. UpTo(l) : j >= from}}
  <2>1. page = {i \in cleared + 1 .. UpTo(l) : i >= from}
    <3>1. page # {} => first \in page /\ \A j \in page : first <= j
      BY <1>4, <1>9
    <3>2. UpTo(l) \in Nat
      BY <1>1, <1>2
    <3>3. from = From(page, first)
      BY <1>9
    <3> HIDE DEF first, from
    <3> QED BY <1>1, <3>1, <3>2, <3>3, PageWindow
  <2> HIDE DEF first, from, page, kept
  <2> QED BY <1>9, <2>1
<1> HIDE DEF kept, page, items, from, r
<1> QED BY <1>10, <1>5, <1>7, <1>8, <1>9

----------------------------------------------------------------------------
(* The types *)

\* The log.
LEMMA LogType ==
    ASSUME LogOK, ListOK, DraftsOK, ArrivalsOK, PagesOK, MessageNext, QueueInv
    PROVE  LogOK'
<1>1. ASSUME NEW p \in posting, Stored(p)
      PROVE  LogOK'
  <2>1. p.msg \in Msgs \ ToSet(log) /\ Store(p.msg) /\ UNCHANGED <<cleared, expired>>
    BY <1>1, DraftsAreMine DEF Stored, QueueInv, Mine
  <2> QED BY <2>1, LogGrown
<1>2. CASE PeerSends
  <2>1. PICK m \in Theirs \ ToSet(log) : Store(m)
    BY <1>2 DEF PeerSends
  <2>2. m \in Msgs \ ToSet(log) /\ UNCHANGED <<cleared, expired>>
    BY <1>2, <2>1 DEF PeerSends, Msgs
  <2> QED BY <2>1, <2>2, LogGrown
<1>3. CASE ServerClears
  <2>1. Len(log) \in Nat
    BY DEF LogOK
  <2> QED BY <1>3, <2>1 DEF ServerClears, LogOK
<1>4. ASSUME NEW e \in Msgs, Expire(e)
      PROVE  LogOK'
  BY <1>4 DEF Expire, LogOK
<1>5. CASE OpenThread \/ LoadOlder \/ Send \/ StartPosting \/ Receive \/ Disconnect \/ ClearThread
           \/ Cleared \/ ClearFailed \/ PurgeExpired \/ ReloadPage \/ (\E l \in loads : ReadPage(l)
           \/ ApplyPage(l) \/ LoadFailed(l)) \/ (\E p \in posting : Sealed(p) \/ PostAnswered(p) \/
           PostFailed(p)) \/ (\E m \in decoding : Decoded(m))
  <2>1. UNCHANGED <<log, cleared, expired>>
    BY <1>5 DEF OpenThread, Ask, LoadOlder, ReadPage, ApplyPage, CacheMessages, LoadFailed, Send,
       StartPosting, TurnComes, Sealed, PostAnswered, PostFailed, Receive, Decoded, Disconnect,
       ClearThread, Cleared, ClearFailed, PurgeExpired, ReloadPage
  <2> QED BY <2>1 DEF LogOK
<1> QED BY <1>1, <1>2, <1>3, <1>4, <1>5 DEF MessageNext

\* The list and its cache.
LEMMA ListType ==
    ASSUME LogOK, ListOK, DraftsOK, ArrivalsOK, PagesOK, MessageNext, PageInv
    PROVE  ListOK'
<1>1. CASE OpenThread
  BY <1>1 DEF OpenThread, ListOK
<1>2. ASSUME NEW l \in loads, ApplyPage(l)
      PROVE  ListOK'
  <2>1. l.items \subseteq Msgs /\ l.more \in 0 .. Len(log)
    BY <1>2 DEF ApplyPage, PageInv, PageOK, PagesOK, Load
  <2>2. As("saved", l.items) \subseteq Entry /\ Marked("pending") \subseteq list
    BY <2>1 DEF As, Entry, Marked
  <2> QED BY <1>2, <2>1, <2>2 DEF ApplyPage, Merged, CacheMessages, ListOK
<1>3. CASE Send
  <2>1. drafted' \in Mine
    BY <1>3, MessageAssumption DEF Send, DraftsOK, Mine
  <2>2. As("pending", {drafted'}) \subseteq Entry
    BY <2>1 DEF As, Entry, Msgs
  <2> QED BY <1>3, <2>2 DEF Send, ListOK
<1>4. ASSUME NEW p \in posting, Stored(p)
      PROVE  ListOK'
  <2>1. Len(log) \in Nat /\ Len(log') = Len(log) + 1
    BY <1>4 DEF Stored, Store, LogOK
  <2> QED BY <1>4, <2>1 DEF Stored, ListOK
<1>5. ASSUME NEW p \in posting, PostAnswered(p)
      PROVE  ListOK'
  <2>1. p.msg \in Msgs
    BY DraftsAreMine
  <2>2. As("saved", {p.msg}) \subseteq Entry
    BY <2>1 DEF As, Entry
  <2> QED BY <1>5, <2>2 DEF PostAnswered, Replaced, CacheMessages, ListOK
<1>6. ASSUME NEW p \in posting, PostFailed(p)
      PROVE  ListOK'
  <2>1. PICK draft \in SUBSET list :
          list' = (list \ draft) \union {[e EXCEPT !.mark = "failed"] : e \in draft}
          /\ UNCHANGED <<log, opened, more, cache>>
    BY <1>6 DEF PostFailed, Of
  <2>2. \A e \in list : [e EXCEPT !.mark = "failed"] \in Entry
    BY DEF ListOK, Entry
  <2> QED BY <2>1, <2>2 DEF ListOK
<1>7. CASE PeerSends
  <2>1. Len(log) \in Nat /\ Len(log') = Len(log) + 1
    BY <1>7 DEF PeerSends, Store, LogOK
  <2> QED BY <1>7, <2>1 DEF PeerSends, ListOK
<1>8. ASSUME NEW m \in decoding, Decoded(m)
      PROVE  ListOK'
  <2>1. CASE NotWanted(m)
    BY <1>8, <2>1 DEF Decoded, ListOK
  <2>2. CASE ~NotWanted(m)
    <3>1. m \in Msgs /\ opened
      BY <2>2 DEF ArrivalsOK, LogOK, ToSet, NotWanted, ListOK
    <3>2. As("saved", {m}) \subseteq Entry
      BY <3>1 DEF As, Entry
    <3> QED BY <1>8, <2>2, <3>1, <3>2 DEF Decoded, Replaced, CacheMessages, ListOK
  <2> QED BY <2>1, <2>2
<1>9. CASE Cleared
  BY <1>9 DEF Cleared, ListOK
<1>10. CASE PurgeExpired
  BY <1>10 DEF PurgeExpired, CacheMessages, ListOK
<1>11. CASE ReloadPage
  <2>1. Len(log) \in Nat
    BY DEF LogOK
  <2>2. list' = {} /\ opened' = FALSE /\ more' = 0 /\ cache' = cache /\ log' = log
    BY <1>11 DEF ReloadPage
  <2>3. more' \in 0 .. Len(log')
    BY <2>1, <2>2
  <2> QED BY <2>2, <2>3 DEF ListOK
<1>12. CASE LoadOlder \/ StartPosting \/ Receive \/ Disconnect \/ ClearThread \/ ServerClears \/
           ClearFailed \/ (\E l \in loads : ReadPage(l) \/ LoadFailed(l)) \/ (\E p \in posting :
           Sealed(p)) \/ (\E e \in Msgs : Expire(e))
  <2>1. UNCHANGED <<log, list, opened, more, cache>>
    BY <1>12 DEF LoadOlder, Ask, ReadPage, LoadFailed, StartPosting, TurnComes, Sealed, Receive,
       Disconnect, ClearThread, ServerClears, ClearFailed, Expire
  <2> QED BY <2>1 DEF ListOK
<1> QED BY <1>1, <1>2, <1>3, <1>4, <1>5, <1>6, <1>7, <1>8, <1>9, <1>10, <1>11, <1>12 DEF
   MessageNext

\* The drafts.
LEMMA DraftsType ==
    ASSUME LogOK, ListOK, DraftsOK, ArrivalsOK, PagesOK, MessageNext
    PROVE  DraftsOK'
<1>1. CASE Send
  <2>1. drafted' \in 0 .. MaxMine /\ drafted' \in 1 .. drafted' /\ 1 .. drafted \subseteq 1 .. drafted'
    BY <1>1, MessageAssumption DEF Send, DraftsOK
  <2>2. queue \in Seq(1 .. drafted')
    BY <2>1, Widened DEF DraftsOK
  <2>3. queue' \in Seq(1 .. drafted')
    BY <1>1, <2>1, <2>2, Lengthened DEF Send
  <2>4. posting' \subseteq [msg: 1 .. drafted', step: {"seal", "post", "answer"}]
    BY <1>1, <2>1 DEF Send, DraftsOK
  <2> QED BY <2>1, <2>3, <2>4 DEF DraftsOK
<1>2. CASE StartPosting
  <2>1. Head(queue) \in 1 .. drafted /\ Tail(queue) \in Seq(1 .. drafted)
    BY <1>2 DEF StartPosting, DraftsOK
  <2> QED BY <1>2, <2>1 DEF StartPosting, DraftsOK
<1>3. ASSUME NEW p \in posting, Sealed(p)
      PROVE  DraftsOK'
  BY <1>3 DEF Sealed, DraftsOK
<1>4. ASSUME NEW p \in posting, Stored(p)
      PROVE  DraftsOK'
  BY <1>4 DEF Stored, Store, DraftsOK
<1>5. ASSUME NEW p \in posting, PostAnswered(p)
      PROVE  DraftsOK'
  BY <1>5 DEF PostAnswered, CacheMessages, DraftsOK
<1>6. ASSUME NEW p \in posting, PostFailed(p)
      PROVE  DraftsOK'
  BY <1>6 DEF PostFailed, DraftsOK
<1>7. CASE ReloadPage
  BY <1>7 DEF ReloadPage, DraftsOK
<1>8. CASE OpenThread \/ LoadOlder \/ PeerSends \/ Receive \/ Disconnect \/ ClearThread \/
           ServerClears \/ Cleared \/ ClearFailed \/ PurgeExpired \/ (\E l \in loads : ReadPage(l)
           \/ ApplyPage(l) \/ LoadFailed(l)) \/ (\E m \in decoding : Decoded(m)) \/ (\E e \in Msgs
           : Expire(e))
  <2>1. UNCHANGED <<drafted, queue, posting>>
    BY <1>8 DEF OpenThread, Ask, LoadOlder, ReadPage, ApplyPage, CacheMessages, LoadFailed,
       PeerSends, Store, Receive, Decoded, Disconnect, ClearThread, ServerClears, Cleared,
       ClearFailed, Expire, PurgeExpired
  <2> QED BY <2>1 DEF DraftsOK
<1> QED BY <1>1, <1>2, <1>3, <1>4, <1>5, <1>6, <1>7, <1>8 DEF MessageNext

\* What is coming.
LEMMA ArrivalsType ==
    ASSUME LogOK, ListOK, DraftsOK, ArrivalsOK, PagesOK, MessageNext, QueueInv
    PROVE  ArrivalsOK'
<1>1. ASSUME NEW p \in posting, Stored(p)
      PROVE  ArrivalsOK'
  <2>1. p.msg \in Msgs \ ToSet(log) /\ Store(p.msg) /\ UNCHANGED <<cleared, expired>>
    BY <1>1, DraftsAreMine DEF Stored, QueueInv, Mine
  <2>2. ToSet(log') = ToSet(log) \union {p.msg}
    BY <2>1, LogGrown DEF Store
  <2>3. ToSet(log) \subseteq ToSet(log') /\ p.msg \in ToSet(log') /\ frames' = Append(frames, p.msg) /\ decoding' = decoding
    BY <1>1, <2>1, <2>2 DEF Stored, Store
  <2>4. frames \in Seq(ToSet(log'))
    BY <2>3, Widened DEF ArrivalsOK
  <2>5. frames' \in Seq(ToSet(log'))
    BY <2>3, <2>4, Lengthened
  <2> QED BY <2>3, <2>5 DEF ArrivalsOK
<1>2. CASE PeerSends
  <2>1. PICK m \in Theirs \ ToSet(log) : Store(m)
    BY <1>2 DEF PeerSends
  <2>2. m \in Msgs \ ToSet(log) /\ UNCHANGED <<cleared, expired>>
    BY <1>2, <2>1 DEF PeerSends, Msgs
  <2>6. ToSet(log') = ToSet(log) \union {m}
    BY <2>1, <2>2, LogGrown DEF Store
  <2>3. ToSet(log) \subseteq ToSet(log') /\ m \in ToSet(log') /\ frames' = Append(frames, m) /\ decoding' = decoding
    BY <1>2, <2>1, <2>6 DEF PeerSends, Store
  <2>4. frames \in Seq(ToSet(log'))
    BY <2>3, Widened DEF ArrivalsOK
  <2>5. frames' \in Seq(ToSet(log'))
    BY <2>3, <2>4, Lengthened
  <2> QED BY <2>3, <2>5 DEF ArrivalsOK
<1>3. CASE Receive
  <2>1. frames # <<>> /\ frames \in Seq(ToSet(log))
    BY <1>3 DEF Receive, ArrivalsOK
  <2>2. Head(frames) \in ToSet(log) /\ Tail(frames) \in Seq(ToSet(log))
    BY <2>1
  <2> QED BY <1>3, <2>2 DEF Receive, ArrivalsOK
<1>4. ASSUME NEW m \in decoding, Decoded(m)
      PROVE  ArrivalsOK'
  BY <1>4 DEF Decoded, CacheMessages, ArrivalsOK
<1>5. CASE Disconnect
  BY <1>5 DEF Disconnect, ArrivalsOK
<1>6. CASE ReloadPage
  BY <1>6 DEF ReloadPage, ArrivalsOK
<1>7. CASE OpenThread \/ LoadOlder \/ Send \/ StartPosting \/ ClearThread \/ ServerClears \/
           Cleared \/ ClearFailed \/ PurgeExpired \/ (\E l \in loads : ReadPage(l) \/ ApplyPage(l)
           \/ LoadFailed(l)) \/ (\E p \in posting : Sealed(p) \/ PostAnswered(p) \/ PostFailed(p))
           \/ (\E e \in Msgs : Expire(e))
  <2>1. UNCHANGED <<log, frames, decoding>>
    BY <1>7 DEF OpenThread, Ask, LoadOlder, ReadPage, ApplyPage, CacheMessages, LoadFailed, Send,
       StartPosting, TurnComes, Sealed, PostAnswered, PostFailed, ClearThread, ServerClears,
       Cleared, ClearFailed, Expire, PurgeExpired
  <2> QED BY <2>1 DEF ArrivalsOK
<1> QED BY <1>1, <1>2, <1>3, <1>4, <1>5, <1>6, <1>7 DEF MessageNext

\* The pages.
LEMMA PagesType ==
    ASSUME LogOK, ListOK, DraftsOK, ArrivalsOK, PagesOK, MessageNext, PageInv
    PROVE  PagesOK'
<1>1. CASE OpenThread
  <2>1. PICK i \in 1 .. MaxLoads : loads' = loads \union {[id |-> i, before |-> 0, step |-> "sent",
                                   items |-> {}, more |-> 0, late |-> FALSE]}
    BY <1>1 DEF OpenThread, Ask
  <2>3. missed' \in BOOLEAN
    BY <1>1 DEF OpenThread, PagesOK
  <2>4. [id |-> i, before |-> 0, step |-> "sent", items |-> {}, more |-> 0, late |-> FALSE] \in Load
    BY DEF Load
  <2>5. loads' \subseteq Load
    BY <2>1, <2>4 DEF PagesOK
  <2> QED BY <1>1, <2>3, <2>5 DEF OpenThread, PagesOK
<1>2. CASE LoadOlder
  <2>1. PICK i \in 1 .. MaxLoads : loads' = loads \union {[id |-> i, before |-> more, step |-> "sent",
                                   items |-> {}, more |-> 0, late |-> FALSE]}
    BY <1>2 DEF LoadOlder, Ask
  <2>3. missed' \in BOOLEAN
    BY <1>2 DEF LoadOlder, PagesOK
  <2>4. [id |-> i, before |-> more, step |-> "sent", items |-> {}, more |-> 0, late |-> FALSE] \in Load
    <3>1. more \in Nat
      BY DEF ListOK, LogOK
    <3> QED BY <3>1 DEF Load
  <2>5. loads' \subseteq Load
    BY <2>1, <2>4 DEF PagesOK
  <2> QED BY <1>2, <2>3, <2>5 DEF LoadOlder, PagesOK
<1>3. ASSUME NEW l \in loads, ReadPage(l)
      PROVE  PagesOK'
  <2>1. PICK r \in Load : loads' = (loads \ {l}) \union {r}
    BY <1>3, PageRead
  <2> QED BY <1>3, <2>1 DEF ReadPage, PagesOK
<1>4. ASSUME NEW l \in loads, ApplyPage(l)
      PROVE  PagesOK'
  <2>1. Overtaken(loads \ {l}) \subseteq Load
    BY DEF Overtaken, PagesOK, Load
  <2> QED BY <1>4, <2>1 DEF ApplyPage, PagesOK, Load
<1>5. ASSUME NEW l \in loads, LoadFailed(l)
      PROVE  PagesOK'
  BY <1>5 DEF LoadFailed, PagesOK
<1>6. CASE Send
  BY <1>6 DEF Send, PagesOK
<1>7. ASSUME NEW p \in posting, PostAnswered(p)
      PROVE  PagesOK'
  <2>1. Overtaken(loads) \subseteq Load
    BY DEF Overtaken, PagesOK, Load
  <2> QED BY <1>7, <2>1 DEF PostAnswered, PagesOK
<1>8. ASSUME NEW p \in posting, PostFailed(p)
      PROVE  PagesOK'
  <2>1. Overtaken(loads) \subseteq Load
    BY DEF Overtaken, PagesOK, Load
  <2> QED BY <1>8, <2>1 DEF PostFailed, PagesOK
<1>9. ASSUME NEW m \in decoding, Decoded(m)
      PROVE  PagesOK'
  <2>1. Overtaken(loads) \subseteq Load
    BY DEF Overtaken, PagesOK, Load
  <2> QED BY <1>9, <2>1 DEF Decoded, PagesOK
<1>10. CASE Disconnect
  <2>1. Overtaken(loads) \subseteq Load
    BY DEF Overtaken, PagesOK, Load
  <2> QED BY <1>10, <2>1 DEF Disconnect, PagesOK
<1>11. CASE ClearThread
  BY <1>11 DEF ClearThread, PagesOK
<1>12. CASE ServerClears
  <2>1. Overtaken(loads) \subseteq Load
    BY DEF Overtaken, PagesOK, Load
  <2> QED BY <1>12, <2>1 DEF ServerClears, PagesOK
<1>13. CASE Cleared
  <2>1. Overtaken(loads) \subseteq Load
    BY DEF Overtaken, PagesOK, Load
  <2> QED BY <1>13, <2>1 DEF Cleared, PagesOK
<1>14. CASE ClearFailed
  BY <1>14 DEF ClearFailed, PagesOK
<1>15. CASE ReloadPage
  BY <1>15 DEF ReloadPage, PagesOK
<1>16. CASE StartPosting \/ PeerSends \/ Receive \/ PurgeExpired \/ (\E p \in posting : Sealed(p) \/
           Stored(p)) \/ (\E e \in Msgs : Expire(e))
  <2>1. UNCHANGED <<loads, clearing, missed>>
    BY <1>16 DEF StartPosting, TurnComes, Sealed, Stored, Store, PeerSends, Receive, Expire,
       PurgeExpired, CacheMessages
  <2> QED BY <2>1 DEF PagesOK
<1> QED BY <1>1, <1>2, <1>3, <1>4, <1>5, <1>6, <1>7, <1>8, <1>9, <1>10, <1>11, <1>12, <1>13,
       <1>14, <1>15, <1>16 DEF MessageNext

----------------------------------------------------------------------------
(* Drafts and entries *)

\* What is stored comes before what is being sent, and that before what waits.
LEMMA QueueStep ==
    ASSUME LogOK, ListOK, DraftsOK, ArrivalsOK, PagesOK, MessageNext, QueueInv
    PROVE  QueueInv'
<1>1. CASE Send
  <2>1. /\ drafted' = drafted + 1 /\ drafted \in Nat /\ queue \in Seq(1 .. drafted')
        /\ ToSet(queue) \subseteq 1 .. drafted
    <3>1. drafted \in Nat /\ drafted' = drafted + 1 /\ 1 .. drafted \subseteq 1 .. drafted'
      BY <1>1, MessageAssumption DEF Send, DraftsOK
    <3> QED BY <3>1, Widened DEF DraftsOK
  <2>2. drafted' \in 1 .. drafted' /\ queue' = Append(queue, drafted')
    BY <1>1, <2>1 DEF Send
  <2>3. /\ ToSet(queue') = ToSet(queue) \union {drafted'} /\ DOMAIN queue' = 1 .. Len(queue) + 1
        /\ DOMAIN queue = 1 .. Len(queue) /\ Len(queue) \in Nat /\ queue'[Len(queue) + 1] = drafted'
        /\ \A i \in 1 .. Len(queue) : queue'[i] = queue[i]
    BY <2>1, <2>2, Lengthened
  <2>4. \A i \in 1 .. Len(queue) : queue[i] \in 1 .. drafted
    BY <2>1, <2>3 DEF ToSet
  <2>5. ASSUME NEW i \in DOMAIN queue', NEW j \in DOMAIN queue', i < j PROVE queue'[i] < queue'[j]
    <3>1. i \in 1 .. Len(queue)
      BY <2>3, <2>5
    <3>2. CASE j \in 1 .. Len(queue)
      BY <2>3, <2>5, <3>1, <3>2 DEF QueueInv
    <3>3. CASE j = Len(queue) + 1
      BY <2>1, <2>3, <2>4, <3>1, <3>3
    <3> QED BY <2>3, <2>5, <3>2, <3>3
  <2>6. \A p \in posting, m \in ToSet(queue') : p.msg < m
    BY <2>1, <2>3, DraftsAreMine DEF QueueInv
  <2>7. \A m \in ToSet(log) \intersect Mine : m \in Nat /\ m <= drafted' /\ \A n \in ToSet(queue') : m < n
    BY <2>1, <2>3 DEF QueueInv, Mine
  <2> QED BY <1>1, <2>5, <2>6, <2>7 DEF Send, QueueInv, SentInOrder
<1>2. CASE StartPosting
  <2>1. /\ queue # <<>> /\ posting = {} /\ posting' = {[msg |-> Head(queue), step |-> "seal"]}
        /\ queue' = Tail(queue) /\ UNCHANGED <<log, drafted>>
    BY <1>2 DEF StartPosting, TurnComes
  <2>2. /\ Len(queue) \in Nat \ {0} /\ DOMAIN queue = 1 .. Len(queue) /\ Head(queue) = queue[1]
        /\ DOMAIN queue' = 1 .. Len(queue) - 1 /\ \A i \in 1 .. Len(queue) - 1 : queue'[i] = queue[i + 1]
    BY <2>1 DEF DraftsOK
  <2>3. ToSet(queue) = ToSet(queue') \union {Head(queue)}
    BY <2>1, TimesDropped DEF DraftsOK
  <2>4. \A i, j \in DOMAIN queue' : i < j => queue'[i] < queue'[j]
    <3> TAKE i, j \in DOMAIN queue'
    <3>1. i + 1 \in DOMAIN queue /\ j + 1 \in DOMAIN queue /\ (i < j => i + 1 < j + 1)
      BY <2>2
    <3> QED BY <2>2, <3>1 DEF QueueInv
  <2>5. \A m \in ToSet(queue') : Head(queue) < m
    <3> TAKE m \in ToSet(queue')
    <3>1. PICK i \in 1 .. Len(queue) - 1 : m = queue'[i]
      BY <2>2 DEF ToSet
    <3>2. 1 \in DOMAIN queue /\ i + 1 \in DOMAIN queue /\ 1 < i + 1 /\ m = queue[i + 1]
      BY <2>2, <3>1
    <3> QED BY <2>2, <3>2 DEF QueueInv
  <2> QED BY <2>1, <2>3, <2>4, <2>5 DEF QueueInv, SentInOrder
<1>3. ASSUME NEW p \in posting, Sealed(p)
      PROVE  QueueInv'
  <2>1. /\ p.step = "seal" /\ posting = {p} /\ posting' = {[p EXCEPT !.step = "post"]}
        /\ [p EXCEPT !.step = "post"].msg = p.msg /\ [p EXCEPT !.step = "post"].step = "post"
        /\ UNCHANGED <<log, drafted, queue>>
    BY <1>3 DEF Sealed, QueueInv, DraftsOK
  <2> QED BY <2>1 DEF QueueInv, SentInOrder
<1>4. ASSUME NEW p \in posting, Stored(p)
      PROVE  QueueInv'
  <2>1. p.msg \in Msgs \ ToSet(log) /\ Store(p.msg) /\ UNCHANGED <<cleared, expired>>
    BY <1>4, DraftsAreMine DEF Stored, QueueInv, Mine
  <2>2. ToSet(log') = ToSet(log) \union {p.msg}
    BY <2>1, LogGrown
  <2>3. /\ p.step = "post" /\ posting = {p} /\ posting' = {[p EXCEPT !.step = "answer"]}
        /\ [p EXCEPT !.step = "answer"].msg = p.msg /\ [p EXCEPT !.step = "answer"].step = "answer"
        /\ UNCHANGED <<drafted, queue>> /\ p.msg \in Mine /\ p.msg <= drafted
    BY <1>4, DraftsAreMine DEF Stored, QueueInv, DraftsOK
  <2>4. SentInOrder'
    <3>1. /\ DOMAIN log' = 1 .. Len(log) + 1 /\ DOMAIN log = 1 .. Len(log) /\ Len(log) \in Nat
          /\ log'[Len(log) + 1] = p.msg /\ \A i \in 1 .. Len(log) : log'[i] = log[i]
      BY <2>1, Lengthened DEF LogOK, Store
    <3>2. ASSUME NEW i \in DOMAIN log', NEW j \in DOMAIN log', i < j, log'[i] \in Mine, log'[j] \in Mine
          PROVE  log'[i] < log'[j]
      <4>1. i \in 1 .. Len(log) /\ log'[i] \in ToSet(log)
        BY <3>1, <3>2 DEF ToSet
      <4>2. CASE j \in 1 .. Len(log)
        BY <3>1, <3>2, <4>1, <4>2 DEF QueueInv, SentInOrder
      <4>3. CASE j = Len(log) + 1
        BY <3>1, <3>2, <4>1, <4>3, <2>3 DEF QueueInv
      <4> QED BY <3>1, <3>2, <4>2, <4>3
    <3> QED BY <3>2 DEF SentInOrder
  <2> QED BY <2>2, <2>3, <2>4 DEF QueueInv
<1>5. ASSUME NEW p \in posting, PostAnswered(p)
      PROVE  QueueInv'
  BY <1>5 DEF PostAnswered, QueueInv, SentInOrder
<1>6. ASSUME NEW p \in posting, PostFailed(p)
      PROVE  QueueInv'
  BY <1>6 DEF PostFailed, QueueInv, SentInOrder
<1>7. CASE PeerSends
  <2>5. PICK m \in Theirs \ ToSet(log) : Store(m)
    BY <1>7 DEF PeerSends
  <2>1. m \in Msgs \ ToSet(log) /\ Store(m) /\ UNCHANGED <<cleared, expired, drafted, queue, posting>>
    BY <1>7, <2>5 DEF PeerSends, Msgs
  <2>2. ToSet(log') = ToSet(log) \union {m}
    BY <2>1, LogGrown
  <2>3. m \notin Mine
    BY <2>5, MessageAssumption DEF Theirs, Mine
  <2>4. SentInOrder'
    <3>1. /\ DOMAIN log' = 1 .. Len(log) + 1 /\ DOMAIN log = 1 .. Len(log) /\ Len(log) \in Nat
          /\ log'[Len(log) + 1] = m /\ \A i \in 1 .. Len(log) : log'[i] = log[i]
      BY <2>1, Lengthened DEF LogOK, Store
    <3>2. ASSUME NEW i \in DOMAIN log', NEW j \in DOMAIN log', i < j, log'[i] \in Mine, log'[j] \in Mine
          PROVE  log'[i] < log'[j]
      <4>1. i \in 1 .. Len(log) /\ log'[i] \in ToSet(log)
        BY <3>1, <3>2 DEF ToSet
      <4>2. CASE j \in 1 .. Len(log)
        BY <3>1, <3>2, <4>1, <4>2 DEF QueueInv, SentInOrder
      <4>3. CASE j = Len(log) + 1
        BY <3>1, <3>2, <4>1, <4>3, <2>3
      <4> QED BY <3>1, <3>2, <4>2, <4>3
    <3> QED BY <3>2 DEF SentInOrder
  <2> QED BY <2>1, <2>2, <2>3, <2>4 DEF QueueInv
<1>8. CASE ReloadPage
  <2>1. queue' = <<>> /\ posting' = {} /\ UNCHANGED <<log, drafted>> /\ ToSet(queue') = {}
    BY <1>8 DEF ReloadPage, ToSet
  <2>2. DOMAIN queue' = {}
    BY <2>1
  <2> QED BY <2>1, <2>2 DEF QueueInv, SentInOrder
<1>9. CASE OpenThread \/ LoadOlder \/ Receive \/ Disconnect \/ ClearThread \/ ServerClears \/
           Cleared \/ ClearFailed \/ PurgeExpired \/ (\E l \in loads : ReadPage(l) \/ ApplyPage(l)
           \/ LoadFailed(l)) \/ (\E m \in decoding : Decoded(m)) \/ (\E e \in Msgs : Expire(e))
  <2>1. UNCHANGED <<log, drafted, queue, posting>>
    BY <1>9 DEF OpenThread, Ask, LoadOlder, ReadPage, ApplyPage, CacheMessages, LoadFailed,
       Receive, Decoded, Disconnect, ClearThread, ServerClears, Cleared, ClearFailed, Expire,
       PurgeExpired
  <2> QED BY <2>1 DEF QueueInv, SentInOrder
<1> QED BY <1>1, <1>2, <1>3, <1>4, <1>5, <1>6, <1>7, <1>8, <1>9 DEF MessageNext

\* The mark of an entry tells what became of its message.
LEMMA EntryStep ==
    ASSUME LogOK, ListOK, DraftsOK, ArrivalsOK, PagesOK, MessageNext, QueueInv, PageInv, EntryInv
    PROVE  EntryInv'
<1>1. CASE OpenThread
  BY <1>1 DEF OpenThread, EntryInv, Sound, Underway
<1>2. ASSUME NEW l \in loads, ApplyPage(l)
      PROVE  EntryInv'
  <2>1. l.items \subseteq ToSet(log) /\ UNCHANGED <<log, drafted, queue, posting>> /\ opened'
        /\ list' = Merged(l) /\ cache' = {e \in list' : e.mark # "pending"}
    BY <1>2 DEF ApplyPage, CacheMessages, PageInv, PageOK
  <2>2. \A e \in list' : e \in list \/ (e.mark = "saved" /\ e.msg \in l.items)
    BY <2>1 DEF Merged, Marked, As
  <2> QED BY <2>1, <2>2 DEF EntryInv, Sound, Underway
<1>3. CASE Send
  <2>1. /\ drafted' = drafted + 1 /\ drafted \in Nat /\ queue \in Seq(1 .. drafted')
        /\ ToSet(queue) \subseteq 1 .. drafted
    <3>1. drafted \in Nat /\ drafted' = drafted + 1 /\ 1 .. drafted \subseteq 1 .. drafted'
      BY <1>3, MessageAssumption DEF Send, DraftsOK
    <3> QED BY <3>1, Widened DEF DraftsOK
  <2>2. drafted' \in 1 .. drafted' /\ queue' = Append(queue, drafted')
    BY <1>3, <2>1 DEF Send
  <2>3. ToSet(queue') = ToSet(queue) \union {drafted'}
    BY <2>1, <2>2, Lengthened
  <2>4. UNCHANGED <<log, cache, posting>> /\ opened'
        /\ \A e \in list' : e \in list \/ (e.mark = "pending" /\ e.msg = drafted')
    BY <1>3 DEF Send, As
  <2>5. \A m : Underway(m) => Underway(m)'
    BY <2>3, <2>4 DEF Underway
  <2>6. \A m \in 1 .. drafted : m \in 1 .. drafted' /\ (~Underway(m) => ~Underway(m)')
    BY <2>1, <2>3, <2>4 DEF Underway
  <2>7. \A m : m = drafted' => Underway(m)'
    BY <2>3 DEF Underway
  <2> QED BY <2>4, <2>5, <2>6, <2>7 DEF EntryInv, Sound
<1>4. CASE StartPosting
  <2>1. queue # <<>> /\ queue' = Tail(queue) /\ posting = {} /\ posting' = {[msg |-> Head(queue), step |-> "seal"]}
        /\ UNCHANGED <<log, list, cache, drafted, opened, more>>
    BY <1>4 DEF StartPosting, TurnComes
  <2>2. ToSet(queue) = ToSet(queue') \union {Head(queue)}
    BY <2>1, TimesDropped DEF DraftsOK
  <2>3. \A m : Underway(m)' <=> Underway(m)
    BY <2>1, <2>2 DEF Underway
  <2> QED BY <2>1, <2>3 DEF EntryInv, Sound
<1>5. ASSUME NEW p \in posting, Sealed(p)
      PROVE  EntryInv'
  <2>1. /\ posting = {p} /\ posting' = {[p EXCEPT !.step = "post"]} /\ [p EXCEPT !.step = "post"].msg = p.msg
        /\ UNCHANGED <<log, list, cache, drafted, opened, more, queue>>
    BY <1>5 DEF Sealed, QueueInv, DraftsOK
  <2>2. \A m : Underway(m)' <=> Underway(m)
    BY <2>1 DEF Underway
  <2> QED BY <2>1, <2>2 DEF EntryInv, Sound
<1>6. ASSUME NEW p \in posting, Stored(p)
      PROVE  EntryInv'
  <2>1. p.msg \in Msgs \ ToSet(log) /\ Store(p.msg) /\ UNCHANGED <<cleared, expired>>
    BY <1>6, DraftsAreMine DEF Stored, QueueInv, Mine
  <2>2. ToSet(log') = ToSet(log) \union {p.msg}
    BY <2>1, LogGrown
  <2>3. /\ posting = {p} /\ posting' = {[p EXCEPT !.step = "answer"]} /\ [p EXCEPT !.step = "answer"].msg = p.msg
        /\ UNCHANGED <<list, cache, drafted, opened, more, queue>>
    BY <1>6 DEF Stored, QueueInv, DraftsOK
  <2>4. \A m : Underway(m)' <=> Underway(m)
    BY <2>3 DEF Underway
  <2> QED BY <2>2, <2>3, <2>4 DEF EntryInv, Sound
<1>7. ASSUME NEW p \in posting, PostAnswered(p)
      PROVE  EntryInv'
  <2>1. /\ posting = {p} /\ posting' = {} /\ UNCHANGED <<log, drafted, queue>> /\ opened'
        /\ cache' = {x \in list' : x.mark # "pending"} /\ list' = Replaced(p.msg) /\ p.msg \in ToSet(log)
    BY <1>7 DEF PostAnswered, CacheMessages, QueueInv
  <2>2. \A x \in list' : (x \in list /\ x.msg # p.msg) \/ (x.mark = "saved" /\ x.msg = p.msg)
    BY <2>1 DEF Replaced, Of, As
  <2>3. \A m : m # p.msg => (Underway(m)' <=> Underway(m))
    BY <2>1 DEF Underway
  <2>4. p.msg \in 1 .. drafted /\ \A m : Underway(m)' => Underway(m)
    BY <2>1, DraftsAreMine DEF Underway
  <2> QED BY <2>1, <2>2, <2>3, <2>4 DEF EntryInv, Sound
<1>8. ASSUME NEW p \in posting, PostFailed(p)
      PROVE  EntryInv'
  <2>1. /\ posting = {p} /\ posting' = {} /\ UNCHANGED <<log, drafted, queue, cache, opened, more>>
        /\ \A n \in ToSet(queue) : p.msg < n
    BY <1>8 DEF PostFailed, QueueInv
  <2>2. \A x \in list' : (x \in list /\ (x.mark = "pending" => x.msg # p.msg)) \/ (x.mark = "failed" /\ x.msg = p.msg)
    <3>1. \A y \in list : [y EXCEPT !.mark = "failed"].mark = "failed" /\ [y EXCEPT !.mark = "failed"].msg = y.msg
      BY DEF ListOK, Entry
    <3>2. PICK draft : /\ draft = Of({p.msg}) \intersect Marked("pending")
                       /\ list' = (list \ draft) \union {[y EXCEPT !.mark = "failed"] : y \in draft}
      BY <1>8 DEF PostFailed
    <3>3. draft = {y \in list : y.msg = p.msg /\ y.mark = "pending"}
      BY <3>2 DEF Of, Marked
    <3>4. draft \subseteq list /\ \A y \in list \ draft : y.mark = "pending" => y.msg # p.msg
      BY <3>3
    <3>5. \A x \in list' : x \in list \ draft \/ \E y \in draft : x = [y EXCEPT !.mark = "failed"]
      BY <3>2
    <3>6. \A y \in draft : [y EXCEPT !.mark = "failed"].mark = "failed" /\ [y EXCEPT !.mark = "failed"].msg = p.msg
      BY <3>1, <3>3
    <3>7. ASSUME NEW x \in list', x \notin list \ draft PROVE x.mark = "failed" /\ x.msg = p.msg
      <4>1. PICK y \in draft : x = [y EXCEPT !.mark = "failed"]
        BY <3>5, <3>7
      <4> QED BY <3>6, <4>1
    <3>8. ASSUME NEW x \in list', x \in list \ draft PROVE x \in list /\ (x.mark = "pending" => x.msg # p.msg)
      BY <3>4, <3>8
    <3> QED BY <3>7, <3>8
  <2>3. \A m : m # p.msg => (Underway(m)' <=> Underway(m))
    BY <2>1 DEF Underway
  <2>4. p.msg \in 1 .. drafted /\ \A m : Underway(m)' => Underway(m)
    BY <2>1, DraftsAreMine DEF Underway
  <2>5. ~Underway(p.msg)'
    BY <2>1, <2>4 DEF Underway
  <2>6. opened
    BY <2>1 DEF EntryInv
  <2>8. Sound(list)'
    BY <2>1, <2>2, <2>3, <2>4, <2>5 DEF EntryInv, Sound
  <2>9. Sound(cache)'
    BY <2>1, <2>4 DEF EntryInv, Sound
  <2> QED BY <2>1, <2>6, <2>8, <2>9 DEF EntryInv
<1>9. CASE PeerSends
  <2>5. PICK m \in Theirs \ ToSet(log) : Store(m)
    BY <1>9 DEF PeerSends
  <2>1. m \in Msgs \ ToSet(log) /\ Store(m) /\ UNCHANGED <<cleared, expired, drafted, queue, posting>>
    BY <1>9, <2>5 DEF PeerSends, Msgs
  <2>2. ToSet(log') = ToSet(log) \union {m} /\ UNCHANGED <<list, cache, opened, more>>
    BY <1>9, <2>1, LogGrown DEF PeerSends
  <2> QED BY <2>1, <2>2 DEF EntryInv, Sound, Underway
<1>10. ASSUME NEW m \in decoding, Decoded(m)
      PROVE  EntryInv'
  <2>1. CASE NotWanted(m)
    BY <1>10, <2>1 DEF Decoded, EntryInv, Sound, Underway
  <2>2. CASE ~NotWanted(m)
    <3>1. /\ UNCHANGED <<log, drafted, queue, posting, opened, more>> /\ opened
          /\ cache' = {x \in list' : x.mark # "pending"} /\ list' = Replaced(m) /\ m \in ToSet(log)
      BY <1>10, <2>2 DEF Decoded, CacheMessages, ArrivalsOK, NotWanted
    <3>2. \A x \in list' : x \in list \/ (x.mark = "saved" /\ x.msg = m)
      BY <3>1 DEF Replaced, Of, As
    <3> QED BY <3>1, <3>2 DEF EntryInv, Sound, Underway
  <2> QED BY <2>1, <2>2
<1>11. CASE Cleared
  BY <1>11 DEF Cleared, EntryInv, Sound
<1>12. CASE PurgeExpired
  <2>1. /\ UNCHANGED <<log, drafted, queue, posting, opened, more>> /\ list' \subseteq list
        /\ cache' = {x \in list' : x.mark # "pending"}
    BY <1>12 DEF PurgeExpired, CacheMessages
  <2> QED BY <2>1 DEF EntryInv, Sound, Underway
<1>13. CASE ReloadPage
  <2>1. /\ queue' = <<>> /\ posting' = {} /\ UNCHANGED <<log, drafted, cache>> /\ ToSet(queue') = {}
        /\ list' = {} /\ more' = 0
    BY <1>13 DEF ReloadPage, ToSet
  <2>2. \A m : ~Underway(m)'
    BY <2>1 DEF Underway
  <2> QED BY <2>1, <2>2 DEF EntryInv, Sound
<1>14. CASE LoadOlder \/ Receive \/ Disconnect \/ ClearThread \/ ServerClears \/ ClearFailed \/ (\E
           l \in loads : ReadPage(l) \/ LoadFailed(l)) \/ (\E e \in Msgs : Expire(e))
  <2>1. UNCHANGED <<log, list, opened, more, cache, drafted, queue, posting>>
    BY <1>14 DEF LoadOlder, Ask, ReadPage, LoadFailed, Receive, Disconnect, ClearThread,
       ServerClears, ClearFailed, Expire
  <2> QED BY <2>1 DEF EntryInv, Sound, Underway
<1> QED BY <1>1, <1>2, <1>3, <1>4, <1>5, <1>6, <1>7, <1>8, <1>9, <1>10, <1>11, <1>12, <1>13,
       <1>14 DEF MessageNext

----------------------------------------------------------------------------
(* Pages *)

\* A page that is overtaken promises nothing but that it is of the log.
LEMMA PagesOvertaken ==
    ASSUME PagesOK, PageInv, NEW ls \in SUBSET loads, loads' = Overtaken(ls), log' = log
    PROVE  PageInv'
<1>1. ASSUME NEW r \in loads' PROVE PageOK(r)'
  <2>1. PICK l \in ls : r = IF l.step = "read" \/ l.before # 0 THEN [l EXCEPT !.late = TRUE] ELSE l
    BY DEF Overtaken
  <2>2. l \in Load /\ PageOK(l)
    BY DEF PagesOK, PageInv
  <2>3. /\ r.before = l.before /\ r.step = l.step /\ r.more = l.more /\ r.items = l.items
        /\ (r.step = "read" \/ r.before # 0 => r.late)
    BY <2>1, <2>2 DEF Load
  <2> QED BY <2>2, <2>3 DEF PageOK
<1> QED BY <1>1 DEF PageInv

\* A page that is asked for now.
LEMMA PageAsked ==
    ASSUME ListOK, NEW n \in Nat, n # 0 => n = more' /\ opened', more' = more, log' = log, LogOK
    PROVE  \A i : PageOK([id |-> i, before |-> n, step |-> "sent", items |-> {}, more |-> 0, late |-> FALSE])'
BY DEF PageOK, ListOK, LogOK

\* Nothing that a page depends on has changed, but that the list may have lost entries or
\* got some that are on their way.
LEMMA PageKept ==
    ASSUME PageInv, UNCHANGED <<log, cleared, more, frames, decoding>>, NEW l \in loads, opened => opened',
           \A e \in (IF opened' THEN list' ELSE cache') : e.mark = "pending" \/ e \in (IF opened THEN list ELSE cache)
    PROVE  PageOK(l)'
BY DEF PageInv, PageOK, Window, Coming, Fresh

\* A page that is not overtaken makes the list what ListInv says.
LEMMA PageStep ==
    ASSUME LogOK, ListOK, DraftsOK, ArrivalsOK, PagesOK, MessageNext, QueueInv, EntryInv, PageInv
    PROVE  PageInv'
<1>1. CASE OpenThread
  <2>1. PICK i : loads' = loads \union {[id |-> i, before |-> 0, step |-> "sent",
                                        items |-> {}, more |-> 0, late |-> FALSE]}
    BY <1>1 DEF OpenThread, Ask
  <2>2. /\ UNCHANGED <<log, cleared, more, frames, decoding, cache>> /\ (opened => opened' /\ list' = list)
        /\ (~opened /\ opened' => list' = cache)
    BY <1>1 DEF OpenThread, ListOK
  <2>3. \A l \in loads : PageOK(l)'
    BY <2>2, PageKept
  <2>4. PageOK([id |-> i, before |-> 0, step |-> "sent", items |-> {}, more |-> 0, late |-> FALSE])'
    BY <2>2, PageAsked
  <2> QED BY <2>1, <2>3, <2>4 DEF PageInv
<1>2. CASE LoadOlder
  <2>1. PICK i : loads' = loads \union {[id |-> i, before |-> more, step |-> "sent",
                                        items |-> {}, more |-> 0, late |-> FALSE]}
    BY <1>2 DEF LoadOlder, Ask
  <2>2. /\ UNCHANGED <<log, cleared, more, frames, decoding, cache, list, opened>> /\ opened /\ more \in Nat
    BY <1>2 DEF LoadOlder, EntryInv, ListOK, LogOK
  <2>3. \A l \in loads : PageOK(l)'
    BY <2>2, PageKept
  <2>5. PICK n \in Nat : n = more
    BY <2>2
  <2>4. PageOK([id |-> i, before |-> n, step |-> "sent", items |-> {}, more |-> 0, late |-> FALSE])'
    BY <2>2, <2>5, PageAsked
  <2> QED BY <2>1, <2>3, <2>4, <2>5 DEF PageInv
<1>3. ASSUME NEW l \in loads, ReadPage(l)
      PROVE  PageInv'
  <2>1. PICK r \in Load :
             /\ loads' = (loads \ {l}) \union {r}
             /\ r.step = "read" /\ r.before = l.before /\ (l.late => r.late)
             /\ r.items \subseteq ToSet(log) /\ r.more \in 0 .. UpTo(l)
             /\ ~r.late => r.items = {log[i] : i \in {j \in cleared + 1 .. UpTo(l) : j >= r.more}}
    BY <1>3, PageRead
  <2>2. UNCHANGED <<log, cleared, more, frames, decoding, cache, list, opened>>
    BY <1>3 DEF ReadPage
  <2>3. \A k \in loads : PageOK(k)'
    BY <2>2, PageKept
  <2>4. /\ l.before \in 0 .. Len(log) /\ Len(log) \in Nat /\ cleared \in Nat /\ DOMAIN log = 1 .. Len(log)
        /\ (l.before # 0 /\ ~l.late => l.before = more /\ opened)
    BY DEF PageInv, PageOK, LogOK
  <2>5. r.more \in 0 .. Len(log) /\ (r.before # 0 => r.more <= r.before)
    BY <2>1, <2>4 DEF UpTo
  <2>6. ASSUME ~r.late, l.before = 0 PROVE r.items = Window(r.more)
    <3>1. {j \in cleared + 1 .. UpTo(l) : j >= r.more} = {j \in DOMAIN log : j > cleared /\ j >= r.more}
      BY <2>4, <2>6 DEF UpTo
    <3> QED BY <2>1, <2>6, <3>1 DEF Window
  <2>7. ASSUME ~r.late, l.before # 0 PROVE Window(r.more) = Window(l.before) \union r.items
    <3>1. UpTo(l) = l.before - 1 /\ l.before \in 1 .. Len(log)
      BY <2>4, <2>7 DEF UpTo
    <3>2. {j \in DOMAIN log : j > cleared /\ j >= r.more}
            = {j \in DOMAIN log : j > cleared /\ j >= l.before} \union {j \in cleared + 1 .. UpTo(l) : j >= r.more}
      BY <2>1, <2>4, <3>1
    <3> QED BY <2>1, <2>7, <3>2 DEF Window
  <2>8. PageOK(r)
    BY <2>1, <2>4, <2>5, <2>6, <2>7 DEF PageOK
  <2>9. PageOK(r)'
    BY <2>2, <2>8 DEF PageOK, Window, Coming, Fresh
  <2> QED BY <2>1, <2>3, <2>9 DEF PageInv
<1>4. ASSUME NEW l \in loads, ApplyPage(l)
      PROVE  PageInv'
  <2>1. loads' = Overtaken(loads \ {l}) /\ loads \ {l} \in SUBSET loads /\ log' = log
    BY <1>4 DEF ApplyPage
  <2> QED BY <2>1, PagesOvertaken
<1>5. ASSUME NEW l \in loads, LoadFailed(l)
      PROVE  PageInv'
  <2>1. UNCHANGED <<log, cleared, more, frames, decoding, cache, list, opened>> /\ loads' = loads \ {l}
    BY <1>5 DEF LoadFailed
  <2> QED BY <2>1, PageKept DEF PageInv
<1>6. CASE Send
  <2>1. /\ UNCHANGED <<log, cleared, more, frames, decoding, cache, loads>> /\ opened'
        /\ (~opened => list = {}) /\ \A e \in list' : e \in list \/ e.mark = "pending"
    BY <1>6 DEF Send, EntryInv, As
  <2> QED BY <2>1, PageKept DEF PageInv
<1>7. ASSUME NEW p \in posting, Stored(p)
      PROVE  PageInv'
  <2>1. p.msg \in Msgs \ ToSet(log) /\ Store(p.msg) /\ UNCHANGED <<cleared, expired>> /\ p.msg \in Mine
    BY <1>7, DraftsAreMine DEF Stored, QueueInv, Mine
  <2>2. /\ ToSet(log') = ToSet(log) \union {p.msg} /\ Len(log') = Len(log) + 1
        /\ \A k \in 0 .. Len(log) : Window(k)' = Window(k) \union {p.msg}
    BY <2>1, LogGrown
  <2>3. UNCHANGED <<more, decoding, cache, list, opened, loads>> /\ frames' = Append(frames, p.msg)
    BY <1>7, <2>1 DEF Stored, Store
  <2>4. Coming' = Coming \union {p.msg}
    <3>1. frames \in Seq(ToSet(log')) /\ p.msg \in ToSet(log')
      BY <2>2, Widened DEF ArrivalsOK
    <3>2. ToSet(frames') = ToSet(frames) \union {p.msg}
      BY <2>3, <3>1, Lengthened
    <3> QED BY <2>3, <3>2 DEF Coming
  <2>5. Fresh(IF opened THEN list ELSE cache, p.msg)
    <3>1. opened /\ Underway(p.msg)
      BY <1>7 DEF EntryInv, Underway
    <3> QED BY <2>1, <3>1 DEF Fresh, EntryInv, Sound, ListOK, Entry
  <2>6. ASSUME NEW l \in loads PROVE PageOK(l)'
    <3>1. PageOK(l) /\ l.before \in 0 .. Len(log) /\ Len(log) \in Nat /\ l \in Load
      BY DEF PageInv, PageOK, LogOK, PagesOK
    <3>2. Window(l.before)' = Window(l.before) \union {p.msg}
      BY <2>2, <3>1
    <3>3. l.before \in 0 .. Len(log')
      BY <2>2, <3>1
    <3>4. CASE l.step = "read"
      <4>1. Window(l.more)' = Window(l.more) \union {p.msg} /\ l.more \in 0 .. Len(log')
        BY <2>2, <3>1, <3>4 DEF PageOK
      <4>2. l.items \subseteq ToSet(log')
        BY <2>2, <3>1, <3>4 DEF PageOK
      <4>3. CASE l.before = 0
        <5>1. ASSUME ~l.late PROVE /\ l.items \subseteq Window(l.more)'
                                   /\ \A n \in Window(l.more)' \ l.items :
                                         n \in Coming' /\ Fresh(IF opened' THEN list' ELSE cache', n)
          <6>1. /\ l.items \subseteq Window(l.more)
                /\ \A n \in Window(l.more) \ l.items : n \in Coming /\ Fresh(IF opened THEN list ELSE cache, n)
            BY <3>1, <3>4, <4>3, <5>1 DEF PageOK
          <6>2. \A n \in Window(l.more)' \ l.items : n \in Coming' /\ Fresh(IF opened THEN list ELSE cache, n)
            BY <2>4, <2>5, <4>1, <6>1
          <6> QED BY <2>3, <4>1, <6>1, <6>2 DEF Fresh
        <5> QED BY <3>3, <4>1, <4>2, <4>3, <5>1 DEF PageOK
      <4>4. CASE l.before # 0
        BY <2>3, <3>1, <3>2, <3>3, <3>4, <4>1, <4>2, <4>4 DEF PageOK
      <4> QED BY <4>3, <4>4
    <3>5. CASE l.step # "read"
      BY <2>3, <3>1, <3>3, <3>5 DEF PageOK
    <3> QED BY <3>4, <3>5
  <2> QED BY <2>3, <2>6 DEF PageInv
<1>8. ASSUME NEW p \in posting, PostAnswered(p)
      PROVE  PageInv'
  <2>1. loads' = Overtaken(loads) /\ loads \in SUBSET loads /\ log' = log
    BY <1>8 DEF PostAnswered
  <2> QED BY <2>1, PagesOvertaken
<1>9. ASSUME NEW p \in posting, PostFailed(p)
      PROVE  PageInv'
  <2>1. loads' = Overtaken(loads) /\ loads \in SUBSET loads /\ log' = log
    BY <1>9 DEF PostFailed
  <2> QED BY <2>1, PagesOvertaken
<1>10. CASE PeerSends
  <2>7. PICK m \in Theirs \ ToSet(log) : Store(m)
    BY <1>10 DEF PeerSends
  <2>1. m \in Msgs \ ToSet(log) /\ Store(m) /\ UNCHANGED <<cleared, expired>>
    BY <1>10, <2>7 DEF PeerSends, Msgs
  <2>2. /\ ToSet(log') = ToSet(log) \union {m} /\ Len(log') = Len(log) + 1
        /\ \A k \in 0 .. Len(log) : Window(k)' = Window(k) \union {m}
    BY <2>1, LogGrown
  <2>3. UNCHANGED <<more, decoding, cache, list, opened, loads>> /\ frames' = Append(frames, m)
    BY <1>10, <2>1 DEF PeerSends, Store
  <2>4. Coming' = Coming \union {m}
    <3>1. frames \in Seq(ToSet(log')) /\ m \in ToSet(log')
      BY <2>2, Widened DEF ArrivalsOK
    <3>2. ToSet(frames') = ToSet(frames) \union {m}
      BY <2>3, <3>1, Lengthened
    <3> QED BY <2>3, <3>2 DEF Coming
  <2>5. Fresh(IF opened THEN list ELSE cache, m)
    <3>1. m \notin 1 .. drafted
      BY <2>7, MessageAssumption DEF Theirs, DraftsOK
    <3>2. \A e \in list \union cache : e.msg = m => e.mark = "pending"
      BY <2>1, <3>1 DEF EntryInv, Sound, ListOK, Entry
    <3> QED BY <3>2 DEF Fresh
  <2>6. ASSUME NEW l \in loads PROVE PageOK(l)'
    <3>1. PageOK(l) /\ l.before \in 0 .. Len(log) /\ Len(log) \in Nat /\ l \in Load
      BY DEF PageInv, PageOK, LogOK, PagesOK
    <3>2. Window(l.before)' = Window(l.before) \union {m}
      BY <2>2, <3>1
    <3>3. l.before \in 0 .. Len(log')
      BY <2>2, <3>1
    <3>4. CASE l.step = "read"
      <4>1. Window(l.more)' = Window(l.more) \union {m} /\ l.more \in 0 .. Len(log')
        BY <2>2, <3>1, <3>4 DEF PageOK
      <4>2. l.items \subseteq ToSet(log')
        BY <2>2, <3>1, <3>4 DEF PageOK
      <4>3. CASE l.before = 0
        <5>1. ASSUME ~l.late PROVE /\ l.items \subseteq Window(l.more)'
                                   /\ \A n \in Window(l.more)' \ l.items :
                                         n \in Coming' /\ Fresh(IF opened' THEN list' ELSE cache', n)
          <6>1. /\ l.items \subseteq Window(l.more)
                /\ \A n \in Window(l.more) \ l.items : n \in Coming /\ Fresh(IF opened THEN list ELSE cache, n)
            BY <3>1, <3>4, <4>3, <5>1 DEF PageOK
          <6>2. \A n \in Window(l.more)' \ l.items : n \in Coming' /\ Fresh(IF opened THEN list ELSE cache, n)
            BY <2>4, <2>5, <4>1, <6>1
          <6> QED BY <2>3, <4>1, <6>1, <6>2 DEF Fresh
        <5> QED BY <3>3, <4>1, <4>2, <4>3, <5>1 DEF PageOK
      <4>4. CASE l.before # 0
        BY <2>3, <3>1, <3>2, <3>3, <3>4, <4>1, <4>2, <4>4 DEF PageOK
      <4> QED BY <4>3, <4>4
    <3>5. CASE l.step # "read"
      BY <2>3, <3>1, <3>3, <3>5 DEF PageOK
    <3> QED BY <3>4, <3>5
  <2> QED BY <2>3, <2>6 DEF PageInv
<1>11. CASE Receive
  <2>1. /\ UNCHANGED <<log, cleared, more, cache, list, opened, loads>> /\ frames # <<>> /\ frames' = Tail(frames)
        /\ decoding' = decoding \union (IF Seen(Head(frames)) THEN {} ELSE {Head(frames)})
    BY <1>11 DEF Receive
  <2>2. ToSet(frames) = ToSet(frames') \union {Head(frames)}
    BY <2>1, TimesDropped DEF ArrivalsOK
  <2>3. PICK m : m = Head(frames)
    OBVIOUS
  <2>4. \A n \in Coming : n \in Coming' \/ (n = m /\ Seen(m))
    BY <2>1, <2>2, <2>3 DEF Coming
  <2>5. Seen(m) => ~Fresh(IF opened THEN list ELSE cache, m)
    BY DEF Seen, Of, Fresh, ListOK
  <2>6. \A n \in Coming : Fresh(IF opened THEN list ELSE cache, n) => n \in Coming'
    BY <2>4, <2>5
  <2>7. ASSUME NEW l \in loads PROVE PageOK(l)'
    <3>1. PageOK(l)
      BY DEF PageInv
    <3>2. \A k : Window(k)' = Window(k)
      BY <2>1 DEF Window
    <3> QED BY <2>1, <2>6, <3>1, <3>2 DEF PageOK, Fresh
  <2> QED BY <2>1, <2>7 DEF PageInv
<1>12. ASSUME NEW m \in decoding, Decoded(m)
      PROVE  PageInv'
  <2>1. loads' = Overtaken(loads) /\ loads \in SUBSET loads /\ log' = log
    BY <1>12 DEF Decoded
  <2> QED BY <2>1, PagesOvertaken
<1>13. CASE Disconnect
  <2>1. loads' = Overtaken(loads) /\ loads \in SUBSET loads /\ log' = log
    BY <1>13 DEF Disconnect
  <2> QED BY <2>1, PagesOvertaken
<1>14. CASE ServerClears
  <2>1. loads' = Overtaken(loads) /\ loads \in SUBSET loads /\ log' = log
    BY <1>14 DEF ServerClears
  <2> QED BY <2>1, PagesOvertaken
<1>15. CASE Cleared
  <2>1. loads' = Overtaken(loads) /\ loads \in SUBSET loads /\ log' = log
    BY <1>15 DEF Cleared
  <2> QED BY <2>1, PagesOvertaken
<1>16. CASE PurgeExpired
  <2>1. /\ UNCHANGED <<log, cleared, more, frames, decoding, loads, opened>> /\ opened /\ list' \subseteq list
    BY <1>16 DEF PurgeExpired, Shown, Marked, ListOK
  <2> QED BY <2>1, PageKept DEF PageInv
<1>17. CASE ReloadPage
  BY <1>17 DEF ReloadPage, PageInv
<1>18. CASE StartPosting \/ ClearThread \/ ClearFailed \/ (\E p \in posting : Sealed(p)) \/ (\E e
           \in Msgs : Expire(e))
  <2>1. UNCHANGED <<log, cleared, list, opened, more, cache, frames, decoding, loads>>
    BY <1>18 DEF StartPosting, TurnComes, Sealed, ClearThread, ClearFailed, Expire
  <2> QED BY <2>1 DEF PageInv, PageOK, Window, Coming, Fresh
<1> QED BY <1>1, <1>2, <1>3, <1>4, <1>5, <1>6, <1>7, <1>8, <1>9, <1>10, <1>11, <1>12, <1>13,
       <1>14, <1>15, <1>16, <1>17, <1>18 DEF MessageNext

----------------------------------------------------------------------------
(* The list is the log *)

\* Saved entries join others.
LEMMA SavedAdded ==
    ASSUME NEW es, NEW ms, list' = es \union As("saved", ms)
    PROVE  /\ Shown' = {e.msg : e \in {x \in es : x.mark = "saved"}} \union ms
           /\ Marked("failed")' = {x \in es : x.mark = "failed"}
<1>1. \A x \in As("saved", ms) : x.mark = "saved" /\ x.msg \in ms
  BY DEF As
<1>2. ASSUME NEW m \in ms PROVE \E x \in As("saved", ms) : x.msg = m
  <2>1. [msg |-> m, mark |-> "saved"] \in As("saved", ms) /\ [msg |-> m, mark |-> "saved"].msg = m
    BY DEF As
  <2> QED BY <2>1
<1> HIDE DEF As
<1>3. Marked("saved")' = {x \in es : x.mark = "saved"} \union As("saved", ms)
  BY <1>1 DEF Marked
<1>4. Marked("failed")' = {x \in es : x.mark = "failed"}
  BY <1>1 DEF Marked
<1>5. {e.msg : e \in As("saved", ms)} = ms
  BY <1>1, <1>2
<1>6. Shown' = {e.msg : e \in {x \in es : x.mark = "saved"} \union As("saved", ms)}
  BY <1>3 DEF Shown
<1> QED BY <1>4, <1>5, <1>6

\* A message takes the place of its draft.
LEMMA SavedReplaces ==
    ASSUME NEW m, list' = Replaced(m)
    PROVE  Shown' = Shown \union {m} /\ Marked("failed")' \subseteq Marked("failed")
<1>1. Of({m}) = {e \in list : e.msg = m}
  BY DEF Of
<1>2. Shown' = {e.msg : e \in {x \in list \ Of({m}) : x.mark = "saved"}} \union {m}
      /\ Marked("failed")' = {x \in list \ Of({m}) : x.mark = "failed"}
  BY SavedAdded DEF Replaced
<1>3. \A n : n # m /\ n \in Shown => n \in Shown'
  BY <1>1, <1>2 DEF Shown, Marked
<1>4. \A n : n \in Shown' => n = m \/ n \in Shown
  BY <1>2 DEF Shown, Marked
<1>5. m \in Shown'
  BY <1>2
<1> QED BY <1>2, <1>3, <1>4, <1>5 DEF Marked

\* The list is the log from hasMore on, but for what is coming.
LEMMA ListStep ==
    ASSUME LogOK, ListOK, DraftsOK, ArrivalsOK, PagesOK, MessageNext, QueueInv, EntryInv, PageInv, ListInv
    PROVE  ListInv'
<1>1. CASE OpenThread
  <2>1. missed' \/ UNCHANGED <<list, opened, missed>>
    BY <1>1 DEF OpenThread
  <2>2. UNCHANGED <<log, cleared, expired, more, frames, decoding, clearing>>
    BY <1>1 DEF OpenThread
  <2> QED BY <2>1, <2>2 DEF ListInv, Marked, Shown, Window, Coming
<1>2. ASSUME NEW l \in loads, ApplyPage(l)
      PROVE  ListInv'
  <2>1. SUFFICES ASSUME ~missed' PROVE ListInv'
    BY DEF ListInv
  <2>2. /\ l.step = "read" /\ ~l.late /\ list' = Merged(l) /\ opened' /\ more' = l.more
        /\ UNCHANGED <<log, cleared, expired, frames, decoding, clearing>> /\ (l.before # 0 => ~missed)
    BY <1>2, <2>1 DEF ApplyPage
  <2>3. PageOK(l)
    BY DEF PageInv
  <2>4. CASE l.before = 0
    <3>1. list' = Marked("pending") \union As("saved", l.items)
      BY <2>2, <2>4 DEF Merged
    <3>2. Shown' = l.items /\ Marked("failed")' = {}
      <4>1. {x \in Marked("pending") : x.mark = "saved"} = {} /\ {x \in Marked("pending") : x.mark = "failed"} = {}
        BY DEF Marked
      <4>2. PICK es : es = Marked("pending")
        OBVIOUS
      <4>3. Shown' = {e.msg : e \in {x \in es : x.mark = "saved"}} \union l.items
            /\ Marked("failed")' = {x \in es : x.mark = "failed"}
        BY <3>1, <4>2, SavedAdded
      <4> QED BY <4>1, <4>2, <4>3
    <3>3. l.items \subseteq Window(l.more) /\ \A m \in Window(l.more) \ l.items : m \in Coming
      BY <2>2, <2>3, <2>4 DEF PageOK
    <3>4. Window(more)' = Window(l.more) /\ Coming' = Coming
      BY <2>2 DEF Window, Coming
    <3> QED BY <3>2, <3>3, <3>4 DEF ListInv
  <2>5. CASE l.before # 0
    <3>1. list' = list \union As("saved", l.items)
      BY <2>2, <2>5 DEF Merged
    <3>2. Shown' = Shown \union l.items /\ Marked("failed")' = Marked("failed")
      BY <3>1, SavedAdded DEF Shown, Marked
    <3>3. opened /\ ~missed /\ Window(l.more) = Window(more) \union l.items
      BY <2>2, <2>3, <2>5 DEF PageOK
    <3>4. Window(more)' = Window(l.more) /\ Coming' = Coming
      BY <2>2 DEF Window, Coming
    <3> QED BY <2>2, <3>2, <3>3, <3>4 DEF ListInv
  <2> QED BY <2>4, <2>5
<1>3. CASE Send
  <2>1. /\ (~missed' => ~missed /\ opened) /\ list' = list \union As("pending", {drafted'})
        /\ UNCHANGED <<log, cleared, expired, more, frames, decoding, clearing>>
    BY <1>3 DEF Send
  <2>2. Marked("failed")' = Marked("failed") /\ Shown' = Shown
    BY <2>1 DEF Marked, Shown, As
  <2> QED BY <2>1, <2>2 DEF ListInv, Window, Coming
<1>4. ASSUME NEW p \in posting, Stored(p)
      PROVE  ListInv'
  <2>1. p.msg \in Msgs \ ToSet(log) /\ Store(p.msg) /\ UNCHANGED <<cleared, expired>>
    BY <1>4, DraftsAreMine DEF Stored, QueueInv, Mine
  <2>2. /\ ToSet(log') = ToSet(log) \union {p.msg} /\ \A k \in 0 .. Len(log) : Window(k)' = Window(k) \union {p.msg}
    BY <2>1, LogGrown
  <2>3. UNCHANGED <<more, decoding, expired, list, opened, clearing, missed>> /\ frames' = Append(frames, p.msg)
    BY <1>4, <2>1 DEF Stored, Store
  <2>4. Coming' = Coming \union {p.msg}
    <3>1. frames \in Seq(ToSet(log')) /\ p.msg \in ToSet(log')
      BY <2>2, Widened DEF ArrivalsOK
    <3>2. ToSet(frames') = ToSet(frames) \union {p.msg}
      BY <2>3, <3>1, Lengthened
    <3> QED BY <2>3, <3>2 DEF Coming
  <2>5. PICK k \in 0 .. Len(log) : k = more
    BY DEF ListOK
  <2>6. Window(more)' = Window(more) \union {p.msg}
    <3>1. Window(more)' = Window(k)'
      BY <2>3, <2>5 DEF Window
    <3> QED BY <2>2, <2>5, <3>1
  <2>7. \A e \in Marked("failed") : e.msg # p.msg
    BY DEF EntryInv, Sound, Marked, Underway
  <2>8. Marked("failed")' = Marked("failed") /\ Shown' = Shown
    BY <2>3 DEF Marked, Shown
  <2> QED BY <2>2, <2>3, <2>4, <2>6, <2>7, <2>8 DEF ListInv
<1>5. ASSUME NEW p \in posting, PostAnswered(p)
      PROVE  ListInv'
  <2>1. SUFFICES ASSUME ~missed' PROVE ListInv'
    BY DEF ListInv
  <2>2. /\ list' = Replaced(p.msg) /\ opened /\ ~missed /\ Belongs(p.msg) /\ p.msg \in ToSet(log)
        /\ UNCHANGED <<log, cleared, expired, more, frames, decoding, clearing>>
    BY <1>5, <2>1 DEF PostAnswered, QueueInv, ListOK, PagesOK
  <2>3. p.msg \in Window(more)
    BY <2>2, BelongsToWindow
  <2> PICK m : m = p.msg
    OBVIOUS
  <2>4. Shown' = Shown \union {m} /\ Marked("failed")' \subseteq Marked("failed")
    BY <2>2, SavedReplaces
  <2>5. Window(more)' = Window(more) /\ Coming' = Coming
    BY <2>2 DEF Window, Coming
  <2> QED BY <2>2, <2>3, <2>4, <2>5 DEF ListInv
<1>6. ASSUME NEW p \in posting, PostFailed(p)
      PROVE  ListInv'
  <2>1. SUFFICES ASSUME ~missed', opened' PROVE ListInv'
    BY DEF ListInv
  <2>2. PICK draft : /\ draft = Of({p.msg}) \intersect Marked("pending")
                     /\ list' = (list \ draft) \union {[y EXCEPT !.mark = "failed"] : y \in draft}
                     /\ missed' = (missed \/ (draft # {} /\ p.step = "answer"))
    BY <1>6 DEF PostFailed
  <2>3. UNCHANGED <<log, cleared, expired, more, frames, decoding, clearing, opened>> /\ opened /\ ~missed
    BY <1>6, <2>1, <2>2 DEF PostFailed, PagesOK
  <2>4. draft = {y \in list : y.msg = p.msg /\ y.mark = "pending"}
    BY <2>2 DEF Of, Marked
  <2>5. \A y \in list : [y EXCEPT !.mark = "failed"].mark = "failed" /\ [y EXCEPT !.mark = "failed"].msg = y.msg
    BY DEF ListOK, Entry
  <2>6. \A x \in list' : x \in list \/ (draft # {} /\ x.mark = "failed" /\ x.msg = p.msg)
    <3> TAKE x \in list'
    <3>1. CASE x \in list
      BY <3>1
    <3>2. CASE x \notin list
      <4>1. PICK y \in draft : x = [y EXCEPT !.mark = "failed"]
        BY <2>2, <3>2
      <4> QED BY <2>4, <2>5, <4>1
    <3> QED BY <3>1, <3>2
  <2>7. \A x \in list : x.mark = "saved" => x \in list'
    BY <2>2, <2>4
  <2>8. Marked("saved")' = Marked("saved")
    BY <2>6, <2>7 DEF Marked
  <2>9. draft # {} => p.msg \notin ToSet(log)
    <3> SUFFICES ASSUME draft # {} PROVE p.msg \notin ToSet(log)
      OBVIOUS
    <3>1. p.step # "answer" /\ p.msg \in Mine
      BY <2>1, <2>2, DraftsAreMine
    <3> QED BY <3>1 DEF QueueInv, Mine
  <2>10. \A x \in Marked("failed")' : x.msg \notin ToSet(log)
    <3>1. \A x \in Marked("failed") : x.msg \notin ToSet(log)
      BY <2>3 DEF ListInv
    <3> QED BY <2>6, <2>9, <3>1 DEF Marked
  <2>11. Shown' = Shown /\ Window(more)' = Window(more) /\ Coming' = Coming
    BY <2>3, <2>8 DEF Shown, Window, Coming
  <2> QED BY <2>3, <2>10, <2>11 DEF ListInv
<1>7. CASE PeerSends
  <2>9. PICK m \in Theirs \ ToSet(log) : Store(m)
    BY <1>7 DEF PeerSends
  <2>1. m \in Msgs \ ToSet(log) /\ Store(m) /\ UNCHANGED <<cleared, expired>>
    BY <1>7, <2>9 DEF PeerSends, Msgs
  <2>2. /\ ToSet(log') = ToSet(log) \union {m} /\ \A k \in 0 .. Len(log) : Window(k)' = Window(k) \union {m}
    BY <2>1, LogGrown
  <2>3. UNCHANGED <<more, decoding, expired, list, opened, clearing, missed>> /\ frames' = Append(frames, m)
    BY <1>7, <2>1 DEF PeerSends, Store
  <2>4. Coming' = Coming \union {m}
    <3>1. frames \in Seq(ToSet(log')) /\ m \in ToSet(log')
      BY <2>2, Widened DEF ArrivalsOK
    <3>2. ToSet(frames') = ToSet(frames) \union {m}
      BY <2>3, <3>1, Lengthened
    <3> QED BY <2>3, <3>2 DEF Coming
  <2>5. PICK k \in 0 .. Len(log) : k = more
    BY DEF ListOK
  <2>6. Window(more)' = Window(more) \union {m}
    <3>1. Window(more)' = Window(k)'
      BY <2>3, <2>5 DEF Window
    <3> QED BY <2>2, <2>5, <3>1
  <2>7. \A e \in Marked("failed") : e.msg # m
    <3>1. m \notin 1 .. drafted
      BY <2>9, MessageAssumption DEF Theirs, DraftsOK
    <3> QED BY <3>1 DEF EntryInv, Sound, Marked
  <2>8. Marked("failed")' = Marked("failed") /\ Shown' = Shown
    BY <2>3 DEF Marked, Shown
  <2> QED BY <2>2, <2>3, <2>4, <2>6, <2>7, <2>8 DEF ListInv
<1>8. CASE Receive
  <2>1. SUFFICES ASSUME opened, ~missed PROVE ListInv'
    BY <1>8 DEF ListInv, Receive
  <2>2. /\ UNCHANGED <<log, cleared, expired, more, list, opened, clearing, missed>> /\ frames # <<>>
        /\ frames' = Tail(frames)
        /\ decoding' = decoding \union (IF Seen(Head(frames)) THEN {} ELSE {Head(frames)})
    BY <1>8 DEF Receive
  <2>3. ToSet(frames) = ToSet(frames') \union {Head(frames)} /\ Head(frames) \in ToSet(log)
    BY <2>2, TimesDropped DEF ArrivalsOK
  <2>4. PICK m : m = Head(frames)
    OBVIOUS
  <2>5. \A n \in Coming : n \in Coming' \/ (n = m /\ Seen(m))
    BY <2>2, <2>3, <2>4 DEF Coming
  <2>6. ASSUME Seen(m), opened, ~missed, m \in ToSet(log) PROVE m \in Shown
    <3>1. PICK e \in list : e.msg = m /\ e.mark # "pending"
      BY <2>6 DEF Seen, Of
    <3>2. e.mark # "failed"
      BY <2>6, <3>1 DEF ListInv, Marked
    <3> QED BY <3>1, <3>2 DEF Shown, Marked, ListOK, Entry
  <2>7. Coming \subseteq Coming' \union Shown
    BY <2>1, <2>3, <2>4, <2>5, <2>6
  <2>8. Shown' = Shown /\ Window(more)' = Window(more) /\ Marked("failed")' = Marked("failed")
    BY <2>2 DEF Shown, Marked, Window
  <2> QED BY <2>1, <2>2, <2>7, <2>8 DEF ListInv
<1>9. ASSUME NEW m \in decoding, Decoded(m)
      PROVE  ListInv'
  <2>1. SUFFICES ASSUME opened', ~missed' PROVE ListInv'
    BY DEF ListInv
  <2>2. /\ UNCHANGED <<log, cleared, expired, more, opened, clearing, frames>> /\ decoding' = decoding \ {m}
        /\ opened /\ ~missed /\ m \in ToSet(log)
    BY <1>9, <2>1 DEF Decoded, ArrivalsOK, PagesOK
  <2>3. Window(more)' = Window(more) /\ Coming \subseteq Coming' \union {m}
    BY <2>2 DEF Window, Coming
  <2>4. ASSUME Seen(m), opened, ~missed, m \in ToSet(log) PROVE m \in Shown
    <3>1. PICK e \in list : e.msg = m /\ e.mark # "pending"
      BY <2>4 DEF Seen, Of
    <3>2. e.mark # "failed"
      BY <2>4, <3>1 DEF ListInv, Marked
    <3> QED BY <3>1, <3>2 DEF Shown, Marked, ListOK, Entry
  <2>5. CASE NotWanted(m)
    <3>1. Shown' = Shown /\ Marked("failed")' = Marked("failed")
      BY <1>9, <2>5 DEF Decoded, Shown, Marked
    <3>2. m \in Shown
      BY <2>2, <2>4, <2>5 DEF NotWanted
    <3> QED BY <2>2, <2>3, <3>1, <3>2 DEF ListInv
  <2>6. CASE ~NotWanted(m)
    <3>1. list' = Replaced(m) /\ Belongs(m)
      BY <1>9, <2>1, <2>6 DEF Decoded
    <3>2. Shown' = Shown \union {m} /\ Marked("failed")' \subseteq Marked("failed")
      BY <3>1, SavedReplaces
    <3>3. m \in Window(more)
      BY <2>2, <3>1, BelongsToWindow
    <3> QED BY <2>2, <2>3, <3>2, <3>3 DEF ListInv
  <2> QED BY <2>5, <2>6
<1>10. CASE Disconnect
  BY <1>10 DEF Disconnect, ListInv
<1>11. CASE ClearThread
  BY <1>11 DEF ClearThread, ListInv, Shown, Marked, Window, Coming
<1>12. CASE ServerClears
  <2>1. UNCHANGED <<log, list, opened, missed>> /\ clearing' = "answered"
    BY <1>12 DEF ServerClears
  <2> QED BY <2>1 DEF ListInv, Marked
<1>13. CASE Cleared
  <2>1. SUFFICES ASSUME ~missed' PROVE ListInv'
    BY DEF ListInv
  <2>2. list' = {} /\ log' = log /\ cleared' = cleared /\ ~(cleared < Len(log))
    BY <1>13, <2>1 DEF Cleared
  <2>3. Shown' = {} /\ Marked("failed")' = {}
    BY <2>2 DEF Shown, Marked
  <2>4. Window(more)' = {}
    <3>1. cleared = Len(log) /\ DOMAIN log = 1 .. Len(log) /\ Len(log) \in Nat
      BY <2>2 DEF LogOK
    <3>2. {j \in DOMAIN log : j > cleared /\ j >= more'} = {}
      BY <3>1
    <3> QED BY <2>2, <3>2 DEF Window
  <2> QED BY <2>3, <2>4 DEF ListInv
<1>14. CASE ClearFailed
  BY <1>14 DEF ClearFailed, ListInv
<1>15. ASSUME NEW e \in Msgs, Expire(e)
      PROVE  ListInv'
  <2>1. /\ expired' = expired \union {e}
        /\ UNCHANGED <<log, cleared, list, opened, more, frames, decoding, clearing, missed>>
    BY <1>15 DEF Expire
  <2>2. Shown' = Shown /\ Marked("failed")' = Marked("failed") /\ Window(more)' = Window(more) /\ Coming' = Coming
    BY <2>1 DEF Shown, Marked, Window, Coming
  <2> QED BY <2>1, <2>2 DEF ListInv
<1>16. CASE PurgeExpired
  <2>1. /\ list' = list \ As("saved", expired)
        /\ UNCHANGED <<log, cleared, expired, opened, more, frames, decoding, clearing, missed>>
    BY <1>16 DEF PurgeExpired
  <2>2. Shown' = Shown \ expired /\ Marked("failed")' \subseteq Marked("failed")
    <3>1. \A y \in list : y.mark = "saved" => (y \in As("saved", expired) <=> y.msg \in expired)
      BY DEF As, ListOK, Entry
    <3>2. Marked("saved")' = {y \in list : y.mark = "saved" /\ y.msg \notin expired}
      BY <2>1, <3>1 DEF Marked
    <3> QED BY <2>1, <3>2 DEF Shown, Marked
  <2>3. Window(more)' = Window(more) /\ Coming' = Coming
    BY <2>1 DEF Window, Coming
  <2> QED BY <2>1, <2>2, <2>3 DEF ListInv
<1>17. CASE ReloadPage
  BY <1>17 DEF ReloadPage, ListInv
<1>18. CASE LoadOlder \/ StartPosting \/ (\E l \in loads : ReadPage(l) \/ LoadFailed(l)) \/ (\E p
           \in posting : Sealed(p))
  <2>1. UNCHANGED <<log, cleared, expired, list, opened, more, frames, decoding, clearing, missed>>
    BY <1>18 DEF LoadOlder, Ask, ReadPage, LoadFailed, StartPosting, TurnComes, Sealed
  <2> QED BY <2>1 DEF ListInv, Marked, Shown, Window, Coming
<1> QED BY <1>1, <1>2, <1>3, <1>4, <1>5, <1>6, <1>7, <1>8, <1>9, <1>10, <1>11, <1>12, <1>13,
       <1>14, <1>15, <1>16, <1>17, <1>18 DEF MessageNext

----------------------------------------------------------------------------
(* The whole invariant *)

MessageInv == MessageTypeOK /\ QueueInv /\ EntryInv /\ PageInv /\ ListInv

\* It holds at first,
LEMMA MessageInitial == MessageInit => MessageInv
<1> SUFFICES ASSUME MessageInit PROVE MessageInv
  OBVIOUS
<1>1. /\ log = <<>> /\ Len(log) = 0 /\ DOMAIN log = {} /\ ToSet(log) = {} /\ ToSet(queue) = {}
      /\ DOMAIN queue = {} /\ log \in Seq(Msgs) /\ queue \in Seq(1 .. 0) /\ frames \in Seq({})
  BY DEF MessageInit, ToSet
<1>2. LogOK
  BY <1>1 DEF MessageInit, LogOK, IsInjective
<1>6. ListOK
  <2>1. list = {} /\ opened = FALSE /\ more = 0 /\ cache = {} /\ Len(log) = 0
    BY <1>1 DEF MessageInit
  <2>2. more \in 0 .. Len(log)
    BY <2>1
  <2> QED BY <2>1, <2>2 DEF ListOK
<1>4. DraftsOK
  BY <1>1, MessageAssumption DEF MessageInit, DraftsOK
<1>5. ArrivalsOK /\ PagesOK
  BY <1>1 DEF MessageInit, ArrivalsOK, PagesOK
<1>3. QueueInv /\ EntryInv /\ PageInv /\ ListInv
  BY <1>1 DEF MessageInit, QueueInv, SentInOrder, EntryInv, Sound, PageInv, ListInv
<1> QED BY <1>2, <1>3, <1>4, <1>5, <1>6, MessageParts DEF MessageInv

\* every step keeps it,
LEMMA MessageStep == MessageInv /\ [MessageNext]_messageVars => MessageInv'
<1> SUFFICES ASSUME MessageInv, [MessageNext]_messageVars PROVE MessageInv'
  OBVIOUS
<1>1. LogOK /\ ListOK /\ DraftsOK /\ ArrivalsOK /\ PagesOK /\ QueueInv /\ EntryInv /\ PageInv /\ ListInv
  BY MessageParts DEF MessageInv
<1>2. CASE MessageNext
  <2>1. LogOK' /\ ListOK' /\ DraftsOK' /\ ArrivalsOK' /\ PagesOK'
    BY <1>1, <1>2, LogType, ListType, DraftsType, ArrivalsType, PagesType
  <2>2. MessageTypeOK'
    BY <2>1 DEF MessageTypeOK, LogOK, ListOK, DraftsOK, ArrivalsOK, PagesOK
  <2> QED BY <1>1, <1>2, <2>2, QueueStep, EntryStep, PageStep, ListStep DEF MessageInv
<1>3. CASE UNCHANGED messageVars
  <2>1. MessageTypeOK'
    BY <1>3 DEF MessageInv, MessageTypeOK, messageVars
  <2>2. QueueInv' /\ EntryInv'
    BY <1>1, <1>3 DEF QueueInv, SentInOrder, EntryInv, Sound, Underway, messageVars
  <2>3. PageInv'
    BY <1>1, <1>3 DEF PageInv, PageOK, Window, Coming, Fresh, messageVars
  <2>4. ListInv'
    BY <1>1, <1>3 DEF ListInv, Marked, Shown, Window, Coming, messageVars
  <2> QED BY <2>1, <2>2, <2>3, <2>4 DEF MessageInv
<1> QED BY <1>2, <1>3

\* and so it always holds.
LEMMA MessagesStay == MessageSpec => []MessageInv
<1> QED BY MessageInitial, MessageStep, PTL DEF MessageSpec

\* Whatever is asked for, answered, lost or cleared, the log, the list, the drafts and the
\* pages have their types; in particular a message is stored once, and hasMore is a number
\* of the log.
THEOREM MessageTypes == MessageSpec => []MessageTypeOK
<1>1. MessageInv => MessageTypeOK
  BY DEF MessageInv
<1> QED BY <1>1, MessagesStay, PTL

\* Once everything asked for has arrived the list shows the log from hasMore on, and
\* nothing else.
THEOREM ListFollowsLog == MessageSpec => []ListIsTheLog
<1>1. MessageInv => ListIsTheLog
  <2> SUFFICES ASSUME MessageInv, AtRest, ~missed
               PROVE  Shown \ expired = {log[i] : i \in {j \in DOMAIN log : j > cleared /\ j >= more}} \ expired
    BY DEF ListIsTheLog
  <2>1. Coming = {}
    BY DEF AtRest, Coming, ToSet
  <2>2. Shown \ expired \subseteq Window(more) /\ Window(more) \ expired \subseteq Shown \union Coming
    BY DEF MessageInv, ListInv, AtRest
  <2> QED BY <2>1, <2>2 DEF Window
<1> QED BY <1>1, MessagesStay, PTL

\* No draft waits when nothing is being sent, none is kept beside the message it became,
\* and the server stores the user's messages in the order they were sent.
THEOREM DraftsAreSettled == MessageSpec => []DraftsSettle
<1>1. MessageInv => DraftsSettle
  <2> SUFFICES ASSUME MessageInv PROVE NoStaleDraft /\ SentInOrder
    BY DEF DraftsSettle
  <2>1. SentInOrder
    BY DEF MessageInv, QueueInv
  <2>2. ASSUME AtRest PROVE Marked("pending") = {}
    <3>1. \A m : ~Underway(m)
      BY <2>2 DEF AtRest, Underway, ToSet
    <3> QED BY <3>1 DEF MessageInv, EntryInv, Sound, Marked
  <2>3. ASSUME AtRest, ~missed PROVE \A e \in Marked("failed") : e.msg \notin ToSet(log)
    BY <2>3 DEF MessageInv, ListInv, AtRest
  <2> QED BY <2>1, <2>2, <2>3 DEF NoStaleDraft
<1> QED BY <1>1, MessagesStay, PTL

----------------------------------------------------------------------------
(* The list of chats: its types *)

ServerOK ==
    /\ member \subseteq Threads /\ count \in Counter /\ arrivals \in 0 .. MaxArrivals
    /\ changes \in 0 .. MaxChanges /\ \A t \in Threads : count[t] <= arrivals
TabOK == threads \subseteq Threads /\ unread \in Counter /\ skewed \subseteq Threads
ScreenOK ==
    /\ active \in Threads \union {Nobody} /\ hidden \in BOOLEAN
    /\ reading \subseteq [thread: Threads, step: {"opening", "timer", "post"}]
RequestsOK ==
    /\ rev \in 0 .. MaxListed /\ last \in {"asked", "applied", "failed"}
    /\ timer \in BOOLEAN /\ outdated \in BOOLEAN /\ answers \subseteq Answer
\* A message that did not have its chat listed waited for no request.
RunsOK ==
    /\ incoming \subseteq Incoming
    /\ \A i \in incoming : i.step = "decoding" /\ ~i.fresh => i.rev = 0
AskedOK == asked \subseteq [what: {"create", "leave"}, thread: Threads, step: {"sent", "done"}]
EventsOK == events \in Seq(Frame)

\* No message is counted that was not sent, and what the type invariant says.
ThreadsOK == ServerOK /\ TabOK /\ ScreenOK /\ RequestsOK /\ RunsOK /\ AskedOK /\ EventsOK

\* What an answer that crosses some changes becomes, and how it compares to what it was.
CrossedBy(a, ts) == IF a.step = "read" THEN [a EXCEPT !.crossed = @ \union ts] ELSE a
Kept(a, b) ==
    /\ b.rev = a.rev /\ b.only = a.only /\ b.step = a.step /\ b.chats = a.chats /\ b.count = a.count
    /\ a.crossed \subseteq b.crossed

\* An answer that crosses changes is still the answer it was.
LEMMA CrossedOK ==
    ASSUME NEW a \in Answer, NEW ts \in SUBSET Threads
    PROVE  /\ CrossedBy(a, ts) \in Answer /\ Kept(a, CrossedBy(a, ts))
           /\ a.step = "read" => ts \subseteq CrossedBy(a, ts).crossed
  BY DEF Answer, Kept, CrossedBy

\* So are all of them.
LEMMA CrossingOK ==
    ASSUME NEW as \in SUBSET Answer, NEW ts \in SUBSET Threads
    PROVE  /\ Crossing(as, ts) = {CrossedBy(a, ts) : a \in as}
           /\ Crossing(as, ts) \subseteq Answer
           /\ \A b \in Crossing(as, ts) : \E a \in as :
                 Kept(a, b) /\ (b.step = "read" => ts \subseteq b.crossed)
<1>1. Crossing(as, ts) = {CrossedBy(a, ts) : a \in as}
  BY DEF Crossing, CrossedBy
<1>2. ASSUME NEW a \in as
      PROVE  /\ CrossedBy(a, ts) \in Answer /\ Kept(a, CrossedBy(a, ts))
             /\ CrossedBy(a, ts).step = "read" => ts \subseteq CrossedBy(a, ts).crossed
  BY CrossedOK DEF Kept
<1> QED BY <1>1, <1>2

\* Frames are about chats.
LEMMA FramesOK ==
    ASSUME ThreadsOK
    PROVE  /\ \A e \in ToSet(events) : e \in Frame /\ e.thread \in Threads
           /\ events # <<>> => /\ Head(events) \in Frame /\ Head(events).thread \in Threads
                              /\ Tail(events) \in Seq(Frame)
<1>1. events \in Seq(Frame) /\ \A e \in Frame : e.thread \in Threads
  BY DEF ThreadsOK, EventsOK, Frame
<1>2. \A e \in ToSet(events) : e \in Frame
  BY <1>1 DEF ToSet
<1> QED BY <1>1, <1>2

\* A step by which some answers are lost and the others cross a change of some counters.
Crosses(gone, ts) ==
    /\ gone \subseteq {a \in answers : a.only # Nobody} /\ ts \subseteq Threads
    /\ answers' = Crossing(answers \ gone, ts) /\ UNCHANGED <<rev, last>>

\* The actions that are such steps.
LEMMA CrossesOK ==
    ASSUME ThreadsOK
    PROVE  /\ \A a \in answers : ApplyMembers(a) => Crosses({a}, {a.only})
           /\ \A t \in Threads : OthersInvite(t) => Crosses({}, {t})
           /\ \A i \in incoming : Decrypted(i) =>
                 IF i.fresh THEN UNCHANGED <<answers, rev, last>> ELSE Crosses({}, {i.thread})
           /\ Disconnected =>
                 Crosses({}, {e.thread : e \in {x \in ToSet(events) : x.event = "message"}})
           /\ MarkAllRead => Crosses({}, {t \in threads : unread[t] > 0})
           /\ \A r \in reading : ReadTimer(r) =>
                 UNCHANGED <<answers, rev, last>> \/ Crosses({}, {r.thread})
           /\ \A r \in reading : ServerRead(r) \/ ReadFailed(r) => Crosses({}, {r.thread})
           /\ \A q \in asked : ServerDoes(q) => Crosses({}, {q.thread})
<1>1. /\ threads \subseteq Threads
      /\ \A a \in answers : a.only \in Threads \union {Nobody}
      /\ \A i \in incoming : i.thread \in Threads
      /\ \A r \in reading : r.thread \in Threads
      /\ \A q \in asked : q.thread \in Threads
      /\ \A e \in ToSet(events) : e.thread \in Threads
  <2>1. threads \subseteq Threads /\ \A r \in reading : r.thread \in Threads
    BY DEF ThreadsOK, TabOK, ScreenOK
  <2>2. \A a \in answers : a.only \in Threads \union {Nobody}
    BY DEF ThreadsOK, RequestsOK, Answer
  <2>3. \A i \in incoming : i.thread \in Threads
    BY DEF ThreadsOK, RunsOK, Incoming
  <2>4. \A q \in asked : q.thread \in Threads
    BY DEF ThreadsOK, AskedOK
  <2> QED BY <2>1, <2>2, <2>3, <2>4, FramesOK
<1>2. answers \ {} = answers
  OBVIOUS
<1>3. ASSUME NEW a \in answers, ApplyMembers(a) PROVE Crosses({a}, {a.only})
  BY <1>1, <1>3 DEF ApplyMembers, Crosses
<1>4. ASSUME NEW t \in Threads, OthersInvite(t) PROVE Crosses({}, {t})
  BY <1>2, <1>4 DEF OthersInvite, Crosses
<1>5. ASSUME NEW i \in incoming, Decrypted(i)
      PROVE  IF i.fresh THEN UNCHANGED <<answers, rev, last>> ELSE Crosses({}, {i.thread})
  BY <1>1, <1>2, <1>5 DEF Decrypted, Crosses
<1>6. ASSUME Disconnected
      PROVE  Crosses({}, {e.thread : e \in {x \in ToSet(events) : x.event = "message"}})
  BY <1>1, <1>2, <1>6 DEF Disconnected, Crosses
<1>7. ASSUME MarkAllRead PROVE Crosses({}, {t \in threads : unread[t] > 0})
  BY <1>1, <1>2, <1>7 DEF MarkAllRead, Crosses
<1>8. ASSUME NEW r \in reading, ReadTimer(r)
      PROVE  UNCHANGED <<answers, rev, last>> \/ Crosses({}, {r.thread})
  BY <1>1, <1>2, <1>8 DEF ReadTimer, Crosses
<1>9. ASSUME NEW r \in reading, ServerRead(r) \/ ReadFailed(r) PROVE Crosses({}, {r.thread})
  BY <1>1, <1>2, <1>9 DEF ServerRead, ReadFailed, Crosses
<1>10. ASSUME NEW q \in asked, ServerDoes(q) PROVE Crosses({}, {q.thread})
  BY <1>1, <1>2, <1>10 DEF ServerDoes, Crosses
<1> QED BY <1>3, <1>4, <1>5, <1>6, <1>7, <1>8, <1>9, <1>10

\* Such a step keeps the types of what it touches.
LEMMA CrossesTyped ==
    ASSUME ThreadsOK, NEW gone, NEW ts, Crosses(gone, ts)
    PROVE  /\ answers' \subseteq Answer /\ answers' = {CrossedBy(a, ts) : a \in answers \ gone}
           /\ UNCHANGED <<rev, last>>
  BY CrossingOK DEF Crosses, ThreadsOK, RequestsOK

\* Asking for the list adds the newest request.
LEMMA LoadThreadsOK ==
    ASSUME NEW as \in SUBSET Answer, ThreadsOK, LoadThreads(as)
    PROVE  /\ rev' = rev + 1 /\ rev' \in 0 .. MaxListed /\ last' = "asked" /\ outdated' = FALSE
           /\ Request(rev', Nobody) \in Answer
           /\ answers' = as \union {Request(rev', Nobody)} /\ answers' \subseteq Answer
<1>1. rev' = rev + 1 /\ rev' \in 0 .. MaxListed /\ last' = "asked" /\ outdated' = FALSE
  BY ThreadAssumption DEF ThreadsOK, RequestsOK, LoadThreads
<1>2. [t \in Threads |-> 0] \in Counter
  BY ThreadAssumption DEF Counter
<1>3. Request(rev', Nobody) \in Answer
  BY <1>1, <1>2 DEF Request, Answer
<1> QED BY <1>1, <1>3 DEF LoadThreads

----------------------------------------------------------------------------
(* The list of chats: what is shown is what the server has *)

ListRequests == {a \in answers : a.only = Nobody}
NewestOut == {a \in ListRequests : a.rev = rev}

\* One request of the list is the newest: it is out while the list waits for it.
NewestInv ==
    /\ \A a \in ListRequests : a.rev <= rev /\ (a.rev = rev => last = "asked")
    /\ \A a, b \in ListRequests : a.rev = b.rev => a = b
    /\ last = "asked" => NewestOut # {}

\* The list will be asked again, or its newest answer was lost.
Reload ==
    \/ outdated \/ timer
    \/ \E e \in ToSet(events) : e.event # "message"
    \/ \E q \in asked : q.step = "done"

\* Else the newest answer will bring the chats the user is in, or has brought them.
MemberInv ==
    \/ Reload
    \/ last = "asked" /\ \A a \in NewestOut : a.step = "read" => a.chats = member
    \/ last = "applied" /\ threads = member

\* The newest request survives crossings,
LEMMA CrossesNewest ==
    ASSUME ThreadsOK, NewestInv, NEW gone, NEW ts, Crosses(gone, ts)
    PROVE  /\ NewestInv' /\ last' = last
           /\ \A b \in NewestOut' : \E a \in NewestOut : Kept(a, b)
<1>1. answers \subseteq Answer /\ gone \subseteq answers /\ ts \in SUBSET Threads
      /\ \A a \in gone : a.only # Nobody
  BY DEF ThreadsOK, RequestsOK, Crosses
<1>2. answers' = {CrossedBy(a, ts) : a \in answers \ gone} /\ rev' = rev /\ last' = last
  BY CrossesTyped
<1>3. \A a \in answers : Kept(a, CrossedBy(a, ts))
  BY <1>1, CrossedOK
<1>4. ASSUME NEW b \in ListRequests'
      PROVE  \E a \in ListRequests : b = CrossedBy(a, ts) /\ Kept(a, b)
  BY <1>2, <1>3, <1>4 DEF ListRequests, Kept
<1>5. \A b \in ListRequests' : b.rev <= rev' /\ (b.rev = rev' => last' = "asked")
  BY <1>2, <1>4 DEF NewestInv, Kept
<1>6. \A b, c \in ListRequests' : b.rev = c.rev => b = c
  BY <1>4 DEF NewestInv, Kept
<1>7. \A b \in NewestOut' : \E a \in NewestOut : Kept(a, b)
  BY <1>2, <1>4 DEF NewestOut, Kept
<1>8. ASSUME last' = "asked" PROVE NewestOut' # {}
  <2>1. PICK a \in ListRequests : a.rev = rev
    BY <1>2, <1>8 DEF NewestInv, NewestOut
  <2>2. CrossedBy(a, ts) \in answers' /\ Kept(a, CrossedBy(a, ts))
    BY <1>1, <1>2, <1>3, <2>1 DEF ListRequests
  <2> QED BY <1>2, <2>1, <2>2 DEF NewestOut, ListRequests, Kept
<1> QED BY <1>2, <1>5, <1>6, <1>7, <1>8 DEF NewestInv

\* and asking again makes another one the newest.
LEMMA LoadNewest ==
    ASSUME ThreadsOK, NewestInv, NEW as \in SUBSET Answer, LoadThreads(as),
           as = answers \/ \E t \in Threads : as = Crossing(answers, {t})
    PROVE  /\ NewestInv' /\ last' = "asked" /\ \A a \in NewestOut' : a.step = "sent"
<1>1. answers \subseteq Answer /\ rev \in Nat
  BY ThreadAssumption DEF ThreadsOK, RequestsOK
<1>2. rev' = rev + 1 /\ last' = "asked" /\ answers' = as \union {Request(rev', Nobody)}
  BY LoadThreadsOK
<1>3. \A b \in as : b.only = Nobody => b.rev <= rev
  <2>1. CASE as = answers
    BY <2>1 DEF NewestInv, ListRequests
  <2>2. ASSUME NEW t \in Threads, as = Crossing(answers, {t})
        PROVE  \A b \in as : b.only = Nobody => b.rev <= rev
    <3>1. {t} \in SUBSET Threads
      OBVIOUS
    <3>2. \A b \in as : \E a \in answers : Kept(a, b)
      BY <1>1, <2>2, <3>1, CrossingOK
    <3>3. ASSUME NEW b \in as, b.only = Nobody PROVE b.rev <= rev
      <4>1. PICK a \in answers : Kept(a, b)
        BY <3>2
      <4> QED BY <3>3, <4>1 DEF NewestInv, ListRequests, Kept
    <3> QED BY <3>3
  <2> QED BY <2>1, <2>2
<1>4. \A b, c \in as : b.only = Nobody /\ c.only = Nobody /\ b.rev = c.rev => b = c
  <2>1. CASE as = answers
    BY <2>1 DEF NewestInv, ListRequests
  <2>2. ASSUME NEW t \in Threads, as = Crossing(answers, {t}),
               NEW b \in as, NEW c \in as, b.only = Nobody, c.only = Nobody, b.rev = c.rev
        PROVE  b = c
    <3>1. {t} \in SUBSET Threads
      OBVIOUS
    <3>2. PICK a \in answers : b = CrossedBy(a, {t}) /\ Kept(a, b)
      BY <1>1, <2>2, <3>1, CrossingOK, CrossedOK
    <3>3. PICK d \in answers : c = CrossedBy(d, {t}) /\ Kept(d, c)
      BY <1>1, <2>2, <3>1, CrossingOK, CrossedOK
    <3>4. a = d
      BY <2>2, <3>2, <3>3 DEF NewestInv, ListRequests, Kept
    <3> QED BY <3>2, <3>3, <3>4
  <2> QED BY <2>1, <2>2
<1>5. ASSUME NEW b \in ListRequests'
      PROVE  b = Request(rev', Nobody) \/ (b \in as /\ b.only = Nobody /\ b.rev <= rev' /\ b.rev # rev')
  <2>1. CASE b \in as
    <3>1. b.only = Nobody /\ b.rev <= rev
      BY <1>3, <1>5, <2>1 DEF ListRequests
    <3>2. b \in Answer
      BY <2>1
    <3>3. b.rev \in 0 .. MaxListed
      BY <3>2 DEF Answer
    <3>4. b.rev \in Nat /\ rev \in Nat /\ rev' = rev + 1
      BY <1>1, <1>2, <3>3, ThreadAssumption
    <3>5. b.rev <= rev' /\ b.rev # rev'
      BY <3>1, <3>4
    <3> QED BY <2>1, <3>1, <3>5
  <2> QED BY <1>2, <1>5, <2>1 DEF ListRequests
<1>6. Request(rev', Nobody).rev = rev' /\ Request(rev', Nobody).only = Nobody
      /\ Request(rev', Nobody).step = "sent"
  BY DEF Request
<1>7. rev' <= rev'
  BY <1>1, <1>2
<1>8. Request(rev', Nobody) \in NewestOut' /\ \A b \in NewestOut' : b = Request(rev', Nobody)
  BY <1>2, <1>5, <1>6 DEF NewestOut, ListRequests
<1>9. \A b \in ListRequests' : b.rev <= rev'
  BY <1>5, <1>6, <1>7
<1>10. \A b, c \in ListRequests' : b.rev = c.rev => b = c
  BY <1>4, <1>5, <1>6
<1> QED BY <1>2, <1>6, <1>8, <1>9, <1>10 DEF NewestInv

Notice(t) == [event |-> "message", thread |-> t]

----------------------------------------------------------------------------
(* The list of chats: the counters *)

\* A message being decrypted that its chat will count, and one that no listed chat will.
Run(t) == [thread |-> t, step |-> "decoding", rev |-> 0, fresh |-> FALSE, stale |-> FALSE]
Mislaid(t) == \E i \in incoming : i.thread = t /\ i.step = "decoding" /\ ~i.fresh /\ i.stale
\* The chat was marked as read here, and the server has not been told yet.
Posting(t) == [thread |-> t, step |-> "post"] \in reading
Timing(t) == [thread |-> t, step |-> "timer"] \in reading

\* A counter n of a chat and the messages it will still count make the server's counter.
Owed(t) == Times(events, Notice(t)) + (IF Run(t) \in incoming THEN 1 ELSE 0)
Balanced(t, n) == Posting(t) \/ Mislaid(t) \/ count[t] = n + Owed(t)

\* The chats of which an answer will be believed.
Tells(a) ==
    IF a.only # Nobody THEN {a.only} ELSE IF a.rev = rev THEN a.chats ELSE {}

\* The counters of an answer that crossed nothing are good ones when it comes,
AnswerInv ==
    \A a \in answers : a.step = "read" =>
        \A t \in Tells(a) \ a.crossed : t \in Threads => Balanced(t, a.count[t])

\* and so are the counters shown, unless the list is about to be replaced.
ListedInv ==
    Reload \/ last = "asked" \/ \A t \in threads \ skewed : Timing(t) \/ Balanced(t, unread[t])

\* A step that leaves the balance of all chats but some as it was.
Undisturbed(ts) == \A t \in Threads \ ts, n \in Nat : Balanced(t, n) => Balanced(t, n)'

\* A balance depends on the counter of its chat and on what is on the way to it.
LEMMA BalanceKept ==
    ASSUME NEW t \in Threads, NEW n \in Nat, Balanced(t, n),
           Posting(t) => Posting(t)', Mislaid(t) => Mislaid(t)', count'[t] = count[t],
           Times(events', Notice(t)) = Times(events, Notice(t)),
           Run(t) \in incoming' <=> Run(t) \in incoming
    PROVE  Balanced(t, n)'
  BY DEF Balanced, Owed, Notice, Run

(* What the frames on their way owe. *)
LEMMA EventsOwed ==
    ASSUME ThreadsOK, NEW t \in Threads
    PROVE  /\ Times(events, Notice(t)) \in Nat
           /\ Times(events, Notice(t)) = 0 <=> Notice(t) \notin ToSet(events)
           /\ \A e \in Frame : events' = Append(events, e) =>
                 Times(events', Notice(t)) = Times(events, Notice(t)) + (IF e = Notice(t) THEN 1 ELSE 0)
           /\ events # <<>> /\ events' = Tail(events) =>
                 /\ Times(events, Notice(t)) =
                      Times(events', Notice(t)) + (IF Head(events) = Notice(t) THEN 1 ELSE 0)
                 /\ Times(events', Notice(t)) \in Nat
<1>1. events \in Seq(Frame)
  BY DEF ThreadsOK, EventsOK
<1>2. Times(events, Notice(t)) \in Nat /\ (Times(events, Notice(t)) = 0 <=> Notice(t) \notin ToSet(events))
  BY <1>1, TimesIsNatural
<1>3. ASSUME NEW e \in Frame, events' = Append(events, e)
      PROVE  Times(events', Notice(t)) = Times(events, Notice(t)) + (IF e = Notice(t) THEN 1 ELSE 0)
  BY <1>1, <1>3, TimesAppended
<1>4. ASSUME events # <<>>, events' = Tail(events)
      PROVE  /\ Times(events, Notice(t)) =
                  Times(events', Notice(t)) + (IF Head(events) = Notice(t) THEN 1 ELSE 0)
             /\ Times(events', Notice(t)) \in Nat
  <2>1. events' \in Seq(Frame)
    BY <1>1, <1>4, TimesDropped
  <2>2. Times(events', Notice(t)) \in Nat
    BY <2>1, TimesIsNatural
  <2>3. Times(events, Notice(t)) =
          Times(Tail(events), Notice(t)) + (IF Head(events) = Notice(t) THEN 1 ELSE 0)
    BY <1>1, <1>4, TimesDropped
  <2> QED BY <1>4, <2>2, <2>3
<1> QED BY <1>2, <1>3, <1>4

(* Frames of a changed membership owe no message. *)
LEMMA UpdateOwed ==
    ASSUME ThreadsOK, NEW e \in Frame, e.event # "message",
           events' = Append(events, e) \/ (events # <<>> /\ Head(events) = e /\ events' = Tail(events))
    PROVE  \A t \in Threads : Times(events', Notice(t)) = Times(events, Notice(t))
<1>1. \A t \in Threads : e # Notice(t)
  BY DEF Notice
<1>2. ASSUME NEW t \in Threads
      PROVE  Times(events', Notice(t)) = Times(events, Notice(t))
  BY <1>1, EventsOwed
<1> QED BY <1>2

(* An answer that replaces the list mislays what is being decrypted. *)
LEMMA AppliedRuns ==
    ASSUME ThreadsOK, NEW a \in answers, ApplyThreads(a), NEW t \in Threads
    PROVE  /\ Run(t) \notin incoming' /\ (Run(t) \in incoming \/ Mislaid(t) => Mislaid(t)')
<1>1. incoming' = Detached(incoming \ Waiting(a.rev)) \union GoOn(Waiting(a.rev), a.chats)
  BY DEF ApplyThreads
<1>2. \A i \in Waiting(a.rev) : i \in Incoming /\ i.step = "listing"
  BY DEF Waiting, ThreadsOK, RunsOK
<1>3. ASSUME NEW k \in incoming', k.step = "decoding", ~k.fresh PROVE k.stale
  <2>1. CASE \E i \in Waiting(a.rev) : k = [i EXCEPT !.step = "decoding", !.fresh = TRUE]
    <3>1. PICK i \in Waiting(a.rev) : k = [i EXCEPT !.step = "decoding", !.fresh = TRUE]
      BY <2>1
    <3>2. k.fresh = TRUE
      BY <1>2, <3>1 DEF Incoming
    <3> QED BY <1>3, <3>2
  <2>2. CASE \E i \in incoming : k = IF i.step = "decoding" THEN [i EXCEPT !.stale = TRUE] ELSE i
    <3>1. PICK i \in incoming : k = IF i.step = "decoding" THEN [i EXCEPT !.stale = TRUE] ELSE i
      BY <2>2
    <3>2. i \in Incoming
      BY DEF ThreadsOK, RunsOK
    <3> QED BY <1>3, <3>1, <3>2 DEF Incoming
  <2> QED BY <1>1, <2>1, <2>2 DEF Detached, GoOn
<1>4. ASSUME NEW i \in incoming, i.thread = t, i.step = "decoding", ~i.fresh PROVE Mislaid(t)'
  <2>1. i \in Incoming /\ i \notin Waiting(a.rev)
    BY <1>2, <1>4 DEF ThreadsOK, RunsOK
  <2> DEFINE k == [i EXCEPT !.stale = TRUE]
  <2>2. k \in incoming'
    BY <1>1, <1>4, <2>1 DEF Detached
  <2>3. k.thread = t /\ k.step = "decoding" /\ k.fresh = i.fresh /\ k.stale = TRUE
    BY <1>4, <2>1 DEF Incoming
  <2> QED BY <1>4, <2>2, <2>3 DEF Mislaid
<1>5. Run(t).thread = t /\ Run(t).step = "decoding" /\ ~Run(t).fresh /\ ~Run(t).stale
  BY DEF Run
<1> QED BY <1>3, <1>4, <1>5 DEF Mislaid

(* Giving up waiting, or going on, changes nothing of what is being decrypted. *)
LEMMA WaitingRuns ==
    ASSUME ThreadsOK, NEW a \in answers, DropThreads(a) \/ RequestFailed(a), NEW t \in Threads
    PROVE  /\ Run(t) \in incoming' <=> Run(t) \in incoming
           /\ Mislaid(t) => Mislaid(t)'
<1>1. \A i \in Waiting(a.rev) : i \in Incoming /\ i.step = "listing"
  BY DEF Waiting, ThreadsOK, RunsOK
<1>2. /\ incoming \ Waiting(a.rev) \subseteq incoming'
      /\ incoming' \subseteq incoming \union {[i EXCEPT !.step = "decoding", !.fresh = TRUE] : i \in Waiting(a.rev)}
                              \union {[i EXCEPT !.rev = rev] : i \in Waiting(a.rev)}
  BY DEF DropThreads, RequestFailed, GoOn, ThreadsOK, RequestsOK
<1>3. \A i \in Waiting(a.rev) :
        /\ [i EXCEPT !.step = "decoding", !.fresh = TRUE].fresh = TRUE
        /\ [i EXCEPT !.rev = rev].step = "listing"
  BY <1>1 DEF Incoming
<1>4. Run(t).step = "decoding" /\ Run(t).fresh = FALSE
  BY DEF Run
<1>5. Run(t) \in incoming' <=> Run(t) \in incoming
  BY <1>1, <1>2, <1>3, <1>4
<1>6. Mislaid(t) => Mislaid(t)'
  BY <1>1, <1>2 DEF Mislaid
<1> QED BY <1>5, <1>6

(* The actions that leave every balance as it was, *)
LEMMA Balances ==
    ASSUME ThreadsOK
    PROVE  /\ \A a \in answers : \/ ReadAnswer(a) \/ ApplyThreads(a) \/ DropThreads(a)
                                \/ RequestFailed(a) \/ ApplyMembers(a) => Undisturbed({})
           /\ \A t \in Threads : \/ LoadMembers(t) \/ OthersWrite(t) \/ OthersRemove(t)
                                \/ PickThread(t) => Undisturbed({})
           /\ \A r \in reading : OpenedThread(r) \/ ReadTimer(r) => Undisturbed({})
           /\ \/ ReloadTimer \/ OnUpdated \/ BackToList \/ Visibility \/ MarkAllRead => Undisturbed({})
           /\ \A q \in asked : CreateAnswered(q) \/ LeaveAnswered(q) \/ AskFailed(q) => Undisturbed({})
           /\ \A t \in Threads, w \in {"create", "leave"} : AskFor(w, t) => Undisturbed({})
<1>1. ASSUME UNCHANGED <<count, events, incoming>>, \A t \in Threads : Posting(t) => Posting(t)'
      PROVE  Undisturbed({})
  BY <1>1, BalanceKept DEF Undisturbed, Mislaid
<1>2. ASSUME NEW a \in answers, ReadAnswer(a) \/ ApplyMembers(a)
      PROVE  Undisturbed({})
  BY <1>1, <1>2 DEF ReadAnswer, ApplyMembers, Posting, serverVars, screenVars
<1>3. ASSUME NEW t \in Threads, LoadMembers(t) \/ PickThread(t)
      PROVE  Undisturbed({})
  BY <1>1, <1>3 DEF LoadMembers, PickThread, ShowThread, Posting, serverVars, screenVars
<1>4. ASSUME ReloadTimer \/ BackToList \/ MarkAllRead
      PROVE  Undisturbed({})
  BY <1>1, <1>4 DEF ReloadTimer, BackToList, MarkAllRead, Posting, serverVars, screenVars
<1>5. ASSUME Visibility PROVE Undisturbed({})
  BY <1>1, <1>5 DEF Visibility, MarkReadSoon, Posting, serverVars
<1>6. ASSUME NEW r \in reading, OpenedThread(r) \/ ReadTimer(r) PROVE Undisturbed({})
  BY <1>1, <1>6 DEF OpenedThread, ReadTimer, MarkReadSoon, Posting, serverVars
<1>7. ASSUME NEW q \in asked, CreateAnswered(q) \/ LeaveAnswered(q) \/ AskFailed(q)
      PROVE  Undisturbed({})
  BY <1>1, <1>7 DEF CreateAnswered, LeaveAnswered, AskFailed, ShowThread, Posting, serverVars,
     screenVars
<1>8. ASSUME NEW t \in Threads, NEW w \in {"create", "leave"}, AskFor(w, t) PROVE Undisturbed({})
  BY <1>1, <1>8 DEF AskFor, Posting, serverVars, screenVars
<1>9. ASSUME NEW a \in answers, DropThreads(a) \/ RequestFailed(a) PROVE Undisturbed({})
  <2>1. UNCHANGED <<count, events, reading>>
    BY <1>9 DEF DropThreads, RequestFailed, serverVars, screenVars
  <2> QED BY <1>9, <2>1, WaitingRuns, BalanceKept DEF Undisturbed, Posting
<1>10. ASSUME NEW a \in answers, ApplyThreads(a) PROVE Undisturbed({})
  <2>1. UNCHANGED <<count, events, reading>>
    BY <1>10 DEF ApplyThreads, serverVars, screenVars
  <2>2. ASSUME NEW t \in Threads, NEW n \in Nat, Balanced(t, n) PROVE Balanced(t, n)'
    <3>1. Run(t) \notin incoming' /\ (Run(t) \in incoming \/ Mislaid(t) => Mislaid(t)')
      BY <1>10, AppliedRuns
    <3>2. CASE Run(t) \in incoming
      BY <3>1, <3>2 DEF Balanced
    <3>3. CASE Run(t) \notin incoming
      BY <2>1, <2>2, <3>1, <3>3, BalanceKept DEF Posting
    <3> QED BY <3>2, <3>3
  <2> QED BY <2>2 DEF Undisturbed
<1>11. ASSUME NEW t \in Threads, OthersWrite(t) PROVE Undisturbed({})
  <2>1. /\ UNCHANGED <<incoming, reading>> /\ count' = [count EXCEPT ![t] = @ + 1]
        /\ events' = Append(events, Notice(t)) /\ Notice(t) \in Frame
    BY <1>11 DEF OthersWrite, Tell, Notice, Frame, screenVars
  <2>2. ASSUME NEW s \in Threads, NEW n \in Nat, Balanced(s, n) PROVE Balanced(s, n)'
    <3>1. Times(events', Notice(s)) = Times(events, Notice(s)) + (IF s = t THEN 1 ELSE 0)
          /\ Times(events, Notice(s)) \in Nat
      BY <2>1, EventsOwed DEF Notice
    <3>2. count'[s] = count[s] + (IF s = t THEN 1 ELSE 0) /\ count[s] \in Nat
      BY <2>1, ThreadAssumption DEF ThreadsOK, ServerOK, Counter
    <3>3. CASE s = t
      BY <2>1, <2>2, <3>1, <3>2, <3>3 DEF Balanced, Owed, Posting, Mislaid
    <3>4. CASE s # t
      <4>1. Times(events', Notice(s)) = Times(events, Notice(s)) /\ count'[s] = count[s]
        BY <3>1, <3>2, <3>4
      <4> QED BY <2>1, <2>2, <4>1, BalanceKept DEF Posting, Mislaid
    <3> QED BY <3>3, <3>4
  <2> QED BY <2>2 DEF Undisturbed
<1>12. ASSUME NEW t \in Threads, OthersRemove(t) PROVE Undisturbed({})
  <2>1. /\ UNCHANGED <<incoming, reading, count>>
        /\ events' = Append(events, [event |-> "removed", thread |-> t])
        /\ [event |-> "removed", thread |-> t] \in Frame
    BY <1>12 DEF OthersRemove, Tell, Frame, screenVars
  <2>2. \A s \in Threads : Times(events', Notice(s)) = Times(events, Notice(s))
    BY <2>1, UpdateOwed
  <2> QED BY <2>1, <2>2, BalanceKept DEF Undisturbed, Posting, Mislaid
<1>13. ASSUME OnUpdated PROVE Undisturbed({})
  <2>1. /\ UNCHANGED <<incoming, reading, count>> /\ events # <<>> /\ events' = Tail(events)
        /\ Head(events).event # "message" /\ Head(events) \in Frame
    BY <1>13, FramesOK DEF OnUpdated, serverVars
  <2>2. \A s \in Threads : Times(events', Notice(s)) = Times(events, Notice(s))
    BY <2>1, UpdateOwed
  <2> QED BY <2>1, <2>2, BalanceKept DEF Undisturbed, Posting, Mislaid
<1> QED BY <1>2, <1>3, <1>4, <1>5, <1>6, <1>7, <1>8, <1>9, <1>10, <1>11, <1>12, <1>13

(* and those that disturb the balance of one chat. *)
LEMMA Imbalances ==
    ASSUME ThreadsOK
    PROVE  /\ \A t \in Threads : OthersInvite(t) => Undisturbed({t})
           /\ OnMessage => LET t == Head(events).thread
                           IN  Undisturbed(IF t \in threads THEN {} ELSE {t})
           /\ \A i \in incoming : Decrypted(i) => Undisturbed(IF i.fresh THEN {} ELSE {i.thread})
           /\ Disconnected =>
                 Undisturbed({e.thread : e \in {x \in ToSet(events) : x.event = "message"}})
           /\ \A r \in reading : ServerRead(r) \/ ReadFailed(r) => Undisturbed({r.thread})
           /\ \A q \in asked : ServerDoes(q) => Undisturbed({q.thread})
<1>1. ASSUME NEW t \in Threads, OthersInvite(t) PROVE Undisturbed({t})
  <2>1. /\ UNCHANGED <<incoming, reading>> /\ \A s \in Threads \ {t} : count'[s] = count[s]
        /\ events' = Append(events, [event |-> "updated", thread |-> t])
        /\ [event |-> "updated", thread |-> t] \in Frame
    BY <1>1 DEF OthersInvite, Tell, Frame, screenVars, ThreadsOK, ServerOK, Counter
  <2>2. \A s \in Threads : Times(events', Notice(s)) = Times(events, Notice(s))
    BY <2>1, UpdateOwed
  <2> QED BY <2>1, <2>2, BalanceKept DEF Undisturbed, Posting, Mislaid
<1>2. ASSUME OnMessage
      PROVE  Undisturbed(IF Head(events).thread \in threads THEN {} ELSE {Head(events).thread})
  <2>0. PICK t \in Threads : t = Head(events).thread
    BY <1>2, FramesOK DEF OnMessage
  <2> DEFINE new == [thread |-> t, step |-> IF t \in threads THEN "decoding" ELSE "listing",
                     rev |-> IF t \in threads THEN 0 ELSE rev', fresh |-> FALSE, stale |-> FALSE]
  <2>1. /\ UNCHANGED <<reading, count>> /\ events # <<>> /\ events' = Tail(events) /\ Head(events) = Notice(t)
        /\ new \notin incoming /\ incoming' = incoming \union {new} /\ t \in Threads
    BY <1>2, <2>0, FramesOK DEF OnMessage, Frame, Notice, serverVars, screenVars
  <2>2. \A s \in Threads : Mislaid(s) => Mislaid(s)'
    BY <2>1 DEF Mislaid
  <2>3. ASSUME NEW s \in Threads, s # t, NEW n \in Nat, Balanced(s, n) PROVE Balanced(s, n)'
    <3>1. Run(s) # new
      BY <2>3 DEF Run
    <3>2. Notice(t) # Notice(s)
      BY <2>3 DEF Notice
    <3>3. Times(events', Notice(s)) = Times(events, Notice(s))
      BY <2>1, <3>2, EventsOwed
    <3> HIDE DEF new
    <3> QED BY <2>1, <2>2, <2>3, <3>1, <3>3, BalanceKept DEF Posting
  <2>4. CASE t \in threads
    <3>1. new = Run(t)
      BY <2>4 DEF Run
    <3>2. Times(events, Notice(t)) = Times(events', Notice(t)) + 1 /\ Times(events', Notice(t)) \in Nat
      BY <2>1, EventsOwed
    <3>3. Run(t) \notin incoming /\ Run(t) \in incoming'
      BY <2>1, <3>1
    <3>4. Owed(t)' = Owed(t)
      BY <3>2, <3>3 DEF Owed, Notice, Run
    <3>5. \A n \in Nat : Balanced(t, n) => Balanced(t, n)'
      BY <2>1, <2>2, <3>4 DEF Balanced, Posting
    <3> QED BY <2>0, <2>3, <2>4, <3>5 DEF Undisturbed
  <2>5. CASE t \notin threads
    <3> QED BY <2>0, <2>3, <2>5 DEF Undisturbed
  <2> QED BY <2>4, <2>5
<1>3. ASSUME NEW i \in incoming, Decrypted(i)
      PROVE  Undisturbed(IF i.fresh THEN {} ELSE {i.thread})
  <2>1. /\ UNCHANGED <<count, events>> /\ incoming' = incoming \ {i}
        /\ \A t \in Threads : Posting(t) => Posting(t)'
    BY <1>3 DEF Decrypted, serverVars, Posting, MarkReadSoon
  <2>2. ASSUME NEW t \in Threads, i.fresh \/ t # i.thread, NEW n \in Nat, Balanced(t, n)
        PROVE  Balanced(t, n)'
    <3>1. Run(t) # i
      BY <2>2 DEF Run
    <3>2. Mislaid(t) => Mislaid(t)'
      BY <2>1, <2>2 DEF Mislaid
    <3> QED BY <2>1, <2>2, <3>1, <3>2, BalanceKept
  <2>3. i.fresh \in BOOLEAN
    BY DEF ThreadsOK, RunsOK, Incoming
  <2>4. CASE i.fresh = TRUE
    BY <2>2, <2>4 DEF Undisturbed
  <2>5. CASE i.fresh = FALSE
    BY <2>2, <2>5 DEF Undisturbed
  <2> QED BY <2>3, <2>4, <2>5
<1>4. ASSUME Disconnected
      PROVE  Undisturbed({e.thread : e \in {x \in ToSet(events) : x.event = "message"}})
  <2> DEFINE lost == {e.thread : e \in {x \in ToSet(events) : x.event = "message"}}
  <2>1. UNCHANGED <<count, incoming, reading>> /\ events' = <<>>
    BY <1>4 DEF Disconnected, serverVars, screenVars
  <2>2. ASSUME NEW t \in Threads \ lost, NEW n \in Nat, Balanced(t, n) PROVE Balanced(t, n)'
    <3>1. Notice(t) \notin ToSet(events)
      BY <2>2 DEF Notice
    <3>2. Times(events, Notice(t)) = 0
      BY <3>1, EventsOwed
    <3>3. <<>> \in Seq(Frame) /\ Notice(t) \notin ToSet(<<>>)
      BY DEF ToSet
    <3>4. Times(<<>>, Notice(t)) = 0
      BY <3>3, TimesIsNatural
    <3> QED BY <2>1, <2>2, <3>2, <3>4, BalanceKept DEF Posting, Mislaid
  <2> QED BY <2>2 DEF Undisturbed
<1>5. ASSUME NEW r \in reading, ServerRead(r) \/ ReadFailed(r) PROVE Undisturbed({r.thread})
  <2>1. UNCHANGED <<events, incoming>> /\ reading' = reading \ {r}
        /\ \A t \in Threads \ {r.thread} : count'[t] = count[t]
    BY <1>5 DEF ServerRead, ReadFailed, serverVars, ThreadsOK, ServerOK, Counter
  <2>2. \A t \in Threads \ {r.thread} : Posting(t) => Posting(t)'
    BY <2>1 DEF Posting
  <2> QED BY <2>1, <2>2, BalanceKept DEF Undisturbed, Mislaid
<1>6. ASSUME NEW q \in asked, ServerDoes(q) PROVE Undisturbed({q.thread})
  <2>1. UNCHANGED <<events, incoming, reading>> /\ \A t \in Threads \ {q.thread} : count'[t] = count[t]
    BY <1>6 DEF ServerDoes, screenVars, ThreadsOK, ServerOK, Counter
  <2> QED BY <2>1, BalanceKept DEF Undisturbed, Posting, Mislaid
<1> QED BY <1>1, <1>2, <1>3, <1>4, <1>5, <1>6

(* Answers that are lost, or cross the changes of the disturbed chats, stay right. *)
LEMMA AnswersKept ==
    ASSUME ThreadsOK, AnswerInv, NEW ts \in SUBSET Threads, Undisturbed(ts), rev' = rev \/ rev' = rev + 1,
           \A a \in answers : a.only = Nobody => a.rev <= rev,
           \A b \in answers' : b.step = "read" =>
               \E a \in answers : Kept(a, b) /\ ts \subseteq b.crossed
    PROVE  AnswerInv'
<1> SUFFICES ASSUME NEW b \in answers', b.step = "read", NEW t \in Tells(b)' \ b.crossed, t \in Threads
             PROVE  Balanced(t, b.count[t])'
  BY DEF AnswerInv
<1>1. PICK a \in answers : Kept(a, b) /\ ts \subseteq b.crossed
  OBVIOUS
<1>2. a \in Answer /\ a.count[t] \in Nat /\ rev \in Nat /\ a.rev \in Nat
  <2>1. a \in Answer /\ rev \in 0 .. MaxListed
    BY DEF ThreadsOK, RequestsOK
  <2>2. a.count \in Counter /\ a.rev \in 0 .. MaxListed
    BY <2>1 DEF Answer
  <2> QED BY <2>1, <2>2, ThreadAssumption DEF Counter
<1>3. t \in Tells(a)
  <2>1. CASE a.only # Nobody
    BY <1>1, <2>1 DEF Tells, Kept
  <2>2. CASE a.only = Nobody
    <3>1. b.rev = rev' /\ b.rev = a.rev /\ t \in a.chats /\ a.rev <= rev
      BY <1>1, <2>2 DEF Tells, Kept
    <3>2. a.rev = rev
      BY <1>2, <3>1
    <3> QED BY <2>2, <3>1, <3>2 DEF Tells
  <2> QED BY <2>1, <2>2
<1>4. Balanced(t, a.count[t])
  BY <1>1, <1>3 DEF AnswerInv, Kept
<1>5. Balanced(t, a.count[t])'
  BY <1>1, <1>2, <1>4 DEF Undisturbed
<1> QED BY <1>1, <1>5 DEF Kept

\* The steps of Crosses are of that kind.
LEMMA CrossesAnswers ==
    ASSUME ThreadsOK, NewestInv, AnswerInv, NEW gone, NEW ts, Crosses(gone, ts), Undisturbed(ts)
    PROVE  AnswerInv'
<1>1. answers \subseteq Answer /\ ts \in SUBSET Threads /\ rev' = rev
      /\ answers' = {CrossedBy(a, ts) : a \in answers \ gone}
  BY CrossesTyped DEF ThreadsOK, RequestsOK, Crosses
<1>2. ASSUME NEW b \in answers', b.step = "read"
      PROVE  \E a \in answers : Kept(a, b) /\ ts \subseteq b.crossed
  <2>1. PICK a \in answers : b = CrossedBy(a, ts)
    BY <1>1
  <2>2. Kept(a, b) /\ (a.step = "read" => ts \subseteq b.crossed)
    BY <1>1, <2>1, CrossedOK
  <2> QED BY <1>2, <2>2 DEF Kept
<1> QED BY <1>1, <1>2, AnswersKept DEF NewestInv, ListRequests

\* What holds of all answers holds of fewer.
LEMMA FewerAnswers ==
    ASSUME ThreadsOK, NewestInv, AnswerInv, Undisturbed({}), rev' = rev,
           \A b \in answers' : b.step = "read" => b \in answers
    PROVE  AnswerInv'
<1>1. \A b \in answers' : b.step = "read" => \E a \in answers : Kept(a, b) /\ {} \subseteq b.crossed
  BY DEF Kept
<1> QED BY <1>1, AnswersKept DEF NewestInv, ListRequests

\* A request just made has read nothing.
LEMMA LoadAnswers ==
    ASSUME ThreadsOK, NewestInv, AnswerInv, NEW as \in SUBSET Answer, LoadThreads(as),
           \/ as = answers /\ Undisturbed({})
           \/ \E t \in Threads : as = Crossing(answers, {t}) /\ Undisturbed({t})
    PROVE  AnswerInv'
<1>1. answers \subseteq Answer /\ rev' = rev + 1
      /\ \A b \in answers' : b.step = "read" => b \in as
  <2>1. rev' = rev + 1 /\ answers' = as \union {Request(rev', Nobody)}
    BY LoadThreadsOK
  <2>2. Request(rev', Nobody).step = "sent" /\ answers \subseteq Answer
    BY DEF Request, ThreadsOK, RequestsOK
  <2> QED BY <2>1, <2>2
<1>2. CASE as = answers /\ Undisturbed({})
  <2>1. \A b \in answers' : b.step = "read" => \E a \in answers : Kept(a, b) /\ {} \subseteq b.crossed
    BY <1>1, <1>2 DEF Kept
  <2> QED BY <1>1, <1>2, <2>1, AnswersKept DEF NewestInv, ListRequests
<1>3. ASSUME NEW t \in Threads, as = Crossing(answers, {t}) /\ Undisturbed({t}) PROVE AnswerInv'
  <2>1. {t} \in SUBSET Threads
    OBVIOUS
  <2>2. \A b \in answers' : b.step = "read" => \E a \in answers : Kept(a, b) /\ {t} \subseteq b.crossed
    <3>1. answers \in SUBSET Answer
      BY <1>1
    <3>2. \A b \in Crossing(answers, {t}) : \E a \in answers :
            Kept(a, b) /\ (b.step = "read" => {t} \subseteq b.crossed)
      BY <2>1, <3>1, CrossingOK
    <3> QED BY <1>1, <1>3, <3>2
  <2> QED BY <1>1, <1>3, <2>1, <2>2, AnswersKept DEF NewestInv, ListRequests
<1> QED BY <1>2, <1>3

(* The counters shown stay right when each is kept, put right, or given up. *)
LEMMA ListedKept ==
    ASSUME ThreadsOK, ListedInv, NEW ts, Undisturbed(ts), Reload => Reload', last' = last,
           ASSUME \A t \in threads \ skewed : Timing(t) \/ Balanced(t, unread[t]),
                  NEW t \in threads' \ skewed'
           PROVE  \/ (Timing(t) \/ Balanced(t, unread[t]))'
                  \/ /\ t \in threads \ skewed /\ t \notin ts /\ unread'[t] = unread[t]
                     /\ Timing(t) => Timing(t)'
    PROVE  ListedInv'
<1>1. CASE Reload \/ last = "asked"
  BY <1>1 DEF ListedInv
<1>2. CASE \A t \in threads \ skewed : Timing(t) \/ Balanced(t, unread[t])
  <2>1. ASSUME NEW t \in threads' \ skewed' PROVE (Timing(t) \/ Balanced(t, unread[t]))'
    <3>1. CASE /\ t \in threads \ skewed /\ t \notin ts /\ unread'[t] = unread[t]
               /\ Timing(t) => Timing(t)'
      <4>1. t \in Threads /\ unread[t] \in Nat
        BY <3>1, ThreadAssumption DEF ThreadsOK, TabOK, Counter
      <4>2. Timing(t) \/ Balanced(t, unread[t])
        BY <1>2, <3>1
      <4>3. Balanced(t, unread[t]) => \A n \in Nat : n = unread[t] => Balanced(t, n)'
        BY <3>1, <4>1 DEF Undisturbed
      <4>4. \A n : n = unread[t] /\ Balanced(t, n)' => Balanced(t, unread[t])'
        BY <3>1 DEF Balanced
      <4> QED BY <3>1, <4>1, <4>2, <4>3, <4>4
    <3> QED BY <1>2, <2>1, <3>1
  <2> QED BY <2>1 DEF ListedInv
<1> QED BY <1>1, <1>2 DEF ListedInv

\* A balanced counter that is shown.
LEMMA ShownBalance ==
    ASSUME NEW t, NEW n, n = unread'[t], Balanced(t, n)'
    PROVE  Balanced(t, unread[t])'
  BY DEF Balanced

(* The timer of markReadSoon is one for all chats: what it forgets is given up. *)
LEMMA TimerForgets ==
    ASSUME ThreadsOK, NEW s \in Threads, NEW t \in Threads, Timing(t), t \notin Forgotten(s, reading)
    PROVE  t = s
<1>1. [thread |-> t, step |-> "timer"].step = "timer" /\ [thread |-> t, step |-> "timer"].thread = t
  OBVIOUS
<1> QED BY <1>1 DEF Timing, Forgotten

(* The server's side. *)
LEMMA ServerStep ==
    ASSUME ThreadsOK, ThreadNext
    PROVE  ServerOK'
<1>1. ASSUME NEW t \in Threads, OthersWrite(t)
      PROVE  ServerOK'
  BY ThreadAssumption, <1>1 DEF ServerOK, Counter, ThreadsOK, OthersWrite, Tell
<1>2. ASSUME NEW t \in Threads, OthersInvite(t)
      PROVE  ServerOK'
  BY ThreadAssumption, <1>2 DEF ServerOK, Counter, ThreadsOK, OthersInvite, Tell
<1>3. ASSUME NEW t \in Threads, OthersRemove(t)
      PROVE  ServerOK'
  BY ThreadAssumption, <1>3 DEF ServerOK, Counter, ThreadsOK, OthersRemove, Tell
<1>4. ASSUME NEW r \in reading, ServerRead(r)
      PROVE  ServerOK'
  BY ThreadAssumption, <1>4 DEF ServerOK, Counter, ThreadsOK, ScreenOK, ServerRead
<1>5. ASSUME NEW q \in asked, ServerDoes(q)
      PROVE  ServerOK'
  BY ThreadAssumption, <1>5 DEF ServerOK, Counter, ThreadsOK, AskedOK, ServerDoes
<1>6. CASE ReloadTimer \/ OnUpdated \/ OnMessage \/ Disconnected \/ BackToList \/ Visibility \/
           MarkAllRead \/ (\E a \in answers : ReadAnswer(a) \/ ApplyThreads(a) \/ DropThreads(a) \/
           RequestFailed(a) \/ ApplyMembers(a)) \/ (\E t \in Threads : LoadMembers(t) \/
           PickThread(t)) \/ (\E i \in incoming : Decrypted(i)) \/ (\E r \in reading :
           OpenedThread(r) \/ ReadTimer(r) \/ ReadFailed(r)) \/ (\E q \in asked : CreateAnswered(q)
           \/ LeaveAnswered(q) \/ AskFailed(q)) \/ (\E t \in Threads, w \in {"create", "leave"} :
           AskFor(w, t))
  <2>1. UNCHANGED <<member, count, arrivals, changes>>
    BY <1>6 DEF ReadAnswer, ApplyThreads, DropThreads, RequestFailed, ApplyMembers, ReloadTimer,
       LoadThreads, LoadMembers, OnUpdated, OnMessage, Decrypted, Disconnected, PickThread,
       ShowThread, BackToList, Visibility, MarkAllRead, OpenedThread, ReadTimer, ReadFailed, AskFor,
       CreateAnswered, LeaveAnswered, AskFailed, serverVars
  <2> QED BY ThreadAssumption, <2>1 DEF ThreadsOK, ServerOK
<1> QED BY <1>1, <1>2, <1>3, <1>4, <1>5, <1>6 DEF ThreadNext

(* The listed chats and their counters. *)
LEMMA TabStep ==
    ASSUME ThreadsOK, ThreadNext
    PROVE  TabOK'
<1>1. ASSUME NEW a \in answers, ApplyThreads(a)
      PROVE  TabOK'
  BY ThreadAssumption, <1>1 DEF ThreadsOK, TabOK, RunsOK, RequestsOK, ServerOK, Counter, Answer,
     Incoming, Forgotten, EventsOK, ApplyThreads
<1>2. ASSUME NEW a \in answers, DropThreads(a)
      PROVE  TabOK'
  <2>1. \A i \in Waiting(a.rev) : i.thread \in Threads
    BY DEF Waiting, ThreadsOK, RunsOK, Incoming
  <2>2. skewed' = skewed \union {i.thread : i \in Waiting(a.rev)} /\ UNCHANGED <<threads, unread>>
    BY <1>2 DEF DropThreads
  <2> QED BY <2>1, <2>2 DEF ThreadsOK, TabOK
<1>3. ASSUME NEW a \in answers, RequestFailed(a)
      PROVE  TabOK'
  BY ThreadAssumption, <1>3 DEF ThreadsOK, TabOK, RunsOK, RequestsOK, ServerOK, Counter, Answer,
     Incoming, Forgotten, EventsOK, RequestFailed
<1>4. ASSUME NEW a \in answers, ApplyMembers(a)
      PROVE  TabOK'
  <2>1. a.count \in Counter /\ a.crossed \subseteq Threads /\ threads' = threads
    BY <1>4 DEF ApplyMembers, ThreadsOK, RequestsOK, Answer
  <2>2. CASE a.only \in threads
    <3>1. a.only \in Threads /\ unread' = [unread EXCEPT ![a.only] = a.count[a.only]]
          /\ skewed' = (skewed \ {a.only}) \union (a.crossed \intersect {a.only})
      BY <1>4, <2>2 DEF ApplyMembers, ThreadsOK, TabOK
    <3> QED BY <2>1, <3>1 DEF ThreadsOK, TabOK, Counter
  <2>3. CASE a.only \notin threads
    BY <1>4, <2>1, <2>3 DEF ApplyMembers, ThreadsOK, TabOK
  <2> QED BY <2>2, <2>3
<1>5. ASSUME NEW i \in incoming, Decrypted(i)
      PROVE  TabOK'
  BY ThreadAssumption, <1>5 DEF ThreadsOK, TabOK, RunsOK, ScreenOK, RequestsOK, AskedOK,
     ServerOK, Counter, Answer, Incoming, Forgotten, EventsOK, Decrypted
<1>6. CASE Disconnected
  <2>1. \A e \in ToSet(events) : e.thread \in Threads
    BY FramesOK
  <2>2. UNCHANGED <<threads, unread>>
        /\ skewed' = skewed \union {e.thread : e \in {x \in ToSet(events) : x.event = "message"}}
    BY <1>6 DEF Disconnected
  <2> QED BY <2>1, <2>2 DEF ThreadsOK, TabOK
<1>7. CASE Visibility
  BY ThreadAssumption, <1>7 DEF ThreadsOK, TabOK, RunsOK, ScreenOK, RequestsOK, ServerOK,
     Counter, Answer, Incoming, Forgotten, EventsOK, Visibility
<1>8. CASE MarkAllRead
  BY ThreadAssumption, <1>8 DEF ThreadsOK, TabOK, RunsOK, RequestsOK, ServerOK, Counter, Answer,
     Incoming, Forgotten, EventsOK, MarkAllRead
<1>9. ASSUME NEW r \in reading, OpenedThread(r)
      PROVE  TabOK'
  BY ThreadAssumption, <1>9 DEF ThreadsOK, TabOK, RunsOK, ScreenOK, RequestsOK, ServerOK,
     Counter, Answer, Incoming, Forgotten, EventsOK, OpenedThread
<1>10. ASSUME NEW r \in reading, ReadTimer(r)
      PROVE  TabOK'
  <2>1. r.thread \in Threads /\ 0 \in 0 .. 2 * MaxArrivals
    BY ThreadAssumption DEF ThreadsOK, ScreenOK
  <2>2. threads' = threads /\ unread' \in {unread, [unread EXCEPT ![r.thread] = 0]}
        /\ skewed' \subseteq skewed \union {r.thread}
    BY <1>10 DEF ReadTimer
  <2> QED BY <2>1, <2>2 DEF ThreadsOK, TabOK, Counter
<1>11. ASSUME NEW r \in reading, ServerRead(r)
      PROVE  TabOK'
  BY ThreadAssumption, <1>11 DEF ThreadsOK, TabOK, RunsOK, ScreenOK, RequestsOK, ServerOK,
     Counter, Answer, Incoming, Forgotten, EventsOK, ServerRead
<1>12. ASSUME NEW r \in reading, ReadFailed(r)
      PROVE  TabOK'
  BY ThreadAssumption, <1>12 DEF ThreadsOK, TabOK, RunsOK, ScreenOK, RequestsOK, ServerOK,
     Counter, Answer, Incoming, Forgotten, EventsOK, ReadFailed
<1>13. ASSUME NEW q \in asked, CreateAnswered(q)
      PROVE  TabOK'
  BY ThreadAssumption, <1>13 DEF ThreadsOK, TabOK, RunsOK, RequestsOK, AskedOK, ServerOK,
     Counter, Answer, Incoming, Forgotten, EventsOK, CreateAnswered, LoadThreads, ShowThread
<1>14. ASSUME NEW q \in asked, LeaveAnswered(q)
      PROVE  TabOK'
  BY ThreadAssumption, <1>14 DEF ThreadsOK, TabOK, RunsOK, RequestsOK, ServerOK, Counter, Answer,
     Incoming, Forgotten, EventsOK, LeaveAnswered, LoadThreads
<1>15. CASE ReloadTimer \/ OnUpdated \/ OnMessage \/ BackToList \/ (\E a \in answers :
           ReadAnswer(a)) \/ (\E t \in Threads : LoadMembers(t) \/ OthersWrite(t) \/
           OthersInvite(t) \/ OthersRemove(t) \/ PickThread(t)) \/ (\E q \in asked : ServerDoes(q)
           \/ AskFailed(q)) \/ (\E t \in Threads, w \in {"create", "leave"} : AskFor(w, t))
  <2>1. UNCHANGED <<threads, unread, skewed>>
    BY <1>15 DEF ReadAnswer, ReloadTimer, LoadThreads, LoadMembers, OthersWrite, Tell,
       OthersInvite, OthersRemove, OnUpdated, OnMessage, PickThread, ShowThread, BackToList, AskFor,
       ServerDoes, AskFailed
  <2> QED BY ThreadAssumption, <2>1 DEF ThreadsOK, TabOK
<1> QED BY <1>1, <1>2, <1>3, <1>4, <1>5, <1>6, <1>7, <1>8, <1>9, <1>10, <1>11, <1>12, <1>13,
       <1>14, <1>15 DEF ThreadNext

(* What is on the screen. *)
LEMMA ScreenStep ==
    ASSUME ThreadsOK, ThreadNext
    PROVE  ScreenOK'
<1>1. CASE OnUpdated
  BY <1>1 DEF ThreadsOK, TabOK, RunsOK, ScreenOK, MarkReadSoon, Incoming, OnUpdated
<1>2. ASSUME NEW i \in incoming, Decrypted(i)
      PROVE  ScreenOK'
  BY <1>2 DEF ThreadsOK, TabOK, RunsOK, ScreenOK, MarkReadSoon, Incoming, Decrypted
<1>3. ASSUME NEW t \in Threads, PickThread(t)
      PROVE  ScreenOK'
  BY <1>3 DEF ThreadsOK, TabOK, RunsOK, ScreenOK, MarkReadSoon, Incoming, PickThread, ShowThread
<1>4. CASE BackToList
  BY <1>4 DEF ThreadsOK, TabOK, RunsOK, ScreenOK, MarkReadSoon, Incoming, BackToList
<1>5. CASE Visibility
  BY <1>5 DEF ThreadsOK, TabOK, RunsOK, ScreenOK, MarkReadSoon, Incoming, Visibility
<1>6. CASE MarkAllRead
  BY <1>6 DEF ThreadsOK, TabOK, RunsOK, ScreenOK, MarkReadSoon, Incoming, MarkAllRead
<1>7. ASSUME NEW r \in reading, OpenedThread(r)
      PROVE  ScreenOK'
  BY <1>7 DEF ThreadsOK, TabOK, RunsOK, ScreenOK, MarkReadSoon, Incoming, OpenedThread
<1>8. ASSUME NEW r \in reading, ReadTimer(r)
      PROVE  ScreenOK'
  BY <1>8 DEF ThreadsOK, TabOK, RunsOK, ScreenOK, MarkReadSoon, Incoming, ReadTimer
<1>9. ASSUME NEW r \in reading, ServerRead(r)
      PROVE  ScreenOK'
  BY <1>9 DEF ThreadsOK, TabOK, RunsOK, ScreenOK, MarkReadSoon, Incoming, ServerRead
<1>10. ASSUME NEW r \in reading, ReadFailed(r)
      PROVE  ScreenOK'
  BY <1>10 DEF ThreadsOK, TabOK, RunsOK, ScreenOK, MarkReadSoon, Incoming, ReadFailed
<1>11. ASSUME NEW q \in asked, CreateAnswered(q)
      PROVE  ScreenOK'
  BY <1>11 DEF ThreadsOK, TabOK, RunsOK, ScreenOK, AskedOK, MarkReadSoon, Incoming,
     CreateAnswered, LoadThreads, ShowThread
<1>12. ASSUME NEW q \in asked, LeaveAnswered(q)
      PROVE  ScreenOK'
  BY <1>12 DEF ThreadsOK, TabOK, RunsOK, ScreenOK, MarkReadSoon, Incoming, LeaveAnswered,
     LoadThreads
<1>13. CASE ReloadTimer \/ OnMessage \/ Disconnected \/ (\E a \in answers : ReadAnswer(a) \/
           ApplyThreads(a) \/ DropThreads(a) \/ RequestFailed(a) \/ ApplyMembers(a)) \/ (\E t \in
           Threads : LoadMembers(t) \/ OthersWrite(t) \/ OthersInvite(t) \/ OthersRemove(t)) \/ (\E
           q \in asked : ServerDoes(q) \/ AskFailed(q)) \/ (\E t \in Threads, w \in {"create",
           "leave"} : AskFor(w, t))
  <2>1. UNCHANGED <<active, hidden, reading>>
    BY <1>13 DEF ReadAnswer, ApplyThreads, DropThreads, RequestFailed, ApplyMembers, ReloadTimer,
       LoadThreads, LoadMembers, OthersWrite, Tell, OthersInvite, OthersRemove, OnMessage,
       Disconnected, AskFor, ServerDoes, AskFailed, screenVars
  <2> QED BY <2>1 DEF ThreadsOK, ScreenOK
<1> QED BY <1>1, <1>2, <1>3, <1>4, <1>5, <1>6, <1>7, <1>8, <1>9, <1>10, <1>11, <1>12, <1>13 DEF
   ThreadNext

(* The requests on their way. *)
LEMMA RequestsStep ==
    ASSUME ThreadsOK, ThreadNext
    PROVE  RequestsOK'
<1>1. ASSUME NEW a \in answers, ReadAnswer(a)
      PROVE  RequestsOK'
  <2>1. member \subseteq Threads /\ count \in Counter /\ a \in Answer
    BY DEF ThreadsOK, ServerOK, RequestsOK
  <2>2. [a EXCEPT !.step = "read", !.chats = member, !.count = count,
                  !.crossed = {t \in Threads : Uncounted(t)}] \in Answer
    BY <2>1 DEF Answer
  <2>3. UNCHANGED <<rev, last, timer, outdated>> /\ answers' \subseteq Answer
    BY <1>1, <2>2 DEF ReadAnswer, ThreadsOK, RequestsOK
  <2> QED BY <2>3 DEF ThreadsOK, RequestsOK
<1>2. ASSUME NEW a \in answers, ApplyThreads(a)
      PROVE  RequestsOK'
  BY ThreadAssumption, CrossingOK, <1>2 DEF ThreadsOK, RequestsOK, ServerOK, RunsOK, TabOK,
     Answer, Counter, Incoming, Request, ApplyThreads
<1>3. ASSUME NEW a \in answers, DropThreads(a)
      PROVE  RequestsOK'
  BY ThreadAssumption, CrossingOK, <1>3 DEF ThreadsOK, RequestsOK, ServerOK, RunsOK, TabOK,
     Answer, Counter, Incoming, Request, DropThreads
<1>4. ASSUME NEW a \in answers, RequestFailed(a)
      PROVE  RequestsOK'
  BY ThreadAssumption, CrossingOK, <1>4 DEF ThreadsOK, RequestsOK, ServerOK, RunsOK, TabOK,
     Answer, Counter, Incoming, Request, RequestFailed
<1>5. ASSUME NEW a \in answers, ApplyMembers(a)
      PROVE  RequestsOK'
  <2>1. UNCHANGED <<answers, rev, last>> \/ \E gone, ts : Crosses(gone, ts)
    BY <1>5, CrossesOK
  <2>2. timer' = timer /\ outdated' \in BOOLEAN
    BY <1>5 DEF ApplyMembers, ThreadsOK, RequestsOK
  <2> QED BY <2>1, <2>2, CrossesTyped DEF ThreadsOK, RequestsOK
<1>6. CASE ReloadTimer
  <2>1. LoadThreads(answers) /\ timer' \in BOOLEAN
    BY <1>6 DEF ReloadTimer, ThreadsOK, RequestsOK
  <2>2. answers \subseteq Answer
    BY DEF ThreadsOK, RequestsOK
  <2>3. rev' \in 0 .. MaxListed /\ last' = "asked" /\ outdated' = FALSE /\ answers' \subseteq Answer
    BY LoadThreadsOK, <2>1, <2>2
  <2> QED BY <2>1, <2>3, ThreadAssumption DEF RequestsOK
<1>7. ASSUME NEW t \in Threads, LoadMembers(t)
      PROVE  RequestsOK'
  BY ThreadAssumption, CrossingOK, <1>7 DEF ThreadsOK, RequestsOK, ServerOK, RunsOK, TabOK,
     Answer, Counter, Incoming, Request, LoadMembers
<1>8. ASSUME NEW t \in Threads, OthersInvite(t)
      PROVE  RequestsOK'
  <2>1. UNCHANGED <<answers, rev, last>> \/ \E gone, ts : Crosses(gone, ts)
    BY <1>8, CrossesOK
  <2>2. timer' = timer /\ outdated' \in BOOLEAN
    BY <1>8 DEF OthersInvite, ThreadsOK, RequestsOK
  <2> QED BY <2>1, <2>2, CrossesTyped DEF ThreadsOK, RequestsOK
<1>9. CASE OnUpdated
  BY ThreadAssumption, CrossingOK, <1>9 DEF ThreadsOK, RequestsOK, ServerOK, RunsOK, TabOK,
     Answer, Counter, Incoming, Request, OnUpdated
<1>10. CASE OnMessage
  <2> DEFINE t == Head(events).thread
  <2>1. t \in Threads /\ answers \subseteq Answer /\ timer' = timer
    BY <1>10, FramesOK DEF OnMessage, ThreadsOK, RequestsOK
  <2>2. CASE t \in threads
    <3>1. UNCHANGED <<rev, last, answers, outdated>>
      BY <1>10, <2>2 DEF OnMessage
    <3> QED BY <2>1, <3>1 DEF ThreadsOK, RequestsOK
  <2>3. CASE t \notin threads
    <3>1. LoadThreads(Crossing(answers, {t})) /\ Crossing(answers, {t}) \subseteq Answer
      BY <1>10, <2>1, <2>3, CrossingOK DEF OnMessage
    <3>2. rev' \in 0 .. MaxListed /\ last' = "asked" /\ outdated' = FALSE /\ answers' \subseteq Answer
      BY LoadThreadsOK, <3>1
    <3> QED BY <2>1, <3>2, ThreadAssumption DEF ThreadsOK, RequestsOK
  <2> QED BY <2>2, <2>3
<1>11. ASSUME NEW i \in incoming, Decrypted(i)
      PROVE  RequestsOK'
  <2>1. UNCHANGED <<answers, rev, last>> \/ \E gone, ts : Crosses(gone, ts)
    BY <1>11, CrossesOK
  <2>2. timer' = timer /\ outdated' \in BOOLEAN
    BY <1>11 DEF Decrypted, ThreadsOK, RequestsOK
  <2> QED BY <2>1, <2>2, CrossesTyped DEF ThreadsOK, RequestsOK
<1>12. CASE Disconnected
  <2>1. UNCHANGED <<answers, rev, last>> \/ \E gone, ts : Crosses(gone, ts)
    BY <1>12, CrossesOK
  <2>2. timer' = timer /\ outdated' \in BOOLEAN
    BY <1>12 DEF Disconnected, ThreadsOK, RequestsOK
  <2> QED BY <2>1, <2>2, CrossesTyped DEF ThreadsOK, RequestsOK
<1>13. CASE MarkAllRead
  <2>1. UNCHANGED <<answers, rev, last>> \/ \E gone, ts : Crosses(gone, ts)
    BY <1>13, CrossesOK
  <2>2. timer' = timer /\ outdated' \in BOOLEAN
    BY <1>13 DEF MarkAllRead, ThreadsOK, RequestsOK
  <2> QED BY <2>1, <2>2, CrossesTyped DEF ThreadsOK, RequestsOK
<1>14. ASSUME NEW r \in reading, ReadTimer(r)
      PROVE  RequestsOK'
  <2>1. UNCHANGED <<answers, rev, last>> \/ \E gone, ts : Crosses(gone, ts)
    BY <1>14, CrossesOK
  <2>2. timer' = timer /\ outdated' \in BOOLEAN
    BY <1>14 DEF ReadTimer, ThreadsOK, RequestsOK
  <2> QED BY <2>1, <2>2, CrossesTyped DEF ThreadsOK, RequestsOK
<1>15. ASSUME NEW r \in reading, ServerRead(r)
      PROVE  RequestsOK'
  <2>1. UNCHANGED <<answers, rev, last>> \/ \E gone, ts : Crosses(gone, ts)
    BY <1>15, CrossesOK
  <2>2. timer' = timer /\ outdated' \in BOOLEAN
    BY <1>15 DEF ServerRead, ThreadsOK, RequestsOK
  <2> QED BY <2>1, <2>2, CrossesTyped DEF ThreadsOK, RequestsOK
<1>16. ASSUME NEW r \in reading, ReadFailed(r)
      PROVE  RequestsOK'
  <2>1. UNCHANGED <<answers, rev, last>> \/ \E gone, ts : Crosses(gone, ts)
    BY <1>16, CrossesOK
  <2>2. timer' = timer /\ outdated' \in BOOLEAN
    BY <1>16 DEF ReadFailed, ThreadsOK, RequestsOK
  <2> QED BY <2>1, <2>2, CrossesTyped DEF ThreadsOK, RequestsOK
<1>17. ASSUME NEW q \in asked, ServerDoes(q)
      PROVE  RequestsOK'
  <2>1. UNCHANGED <<answers, rev, last>> \/ \E gone, ts : Crosses(gone, ts)
    BY <1>17, CrossesOK
  <2>2. timer' = timer /\ outdated' \in BOOLEAN
    BY <1>17 DEF ServerDoes, ThreadsOK, RequestsOK
  <2> QED BY <2>1, <2>2, CrossesTyped DEF ThreadsOK, RequestsOK
<1>18. ASSUME NEW q \in asked, CreateAnswered(q)
      PROVE  RequestsOK'
  <2>1. LoadThreads(answers) /\ timer' \in BOOLEAN
    BY <1>18 DEF CreateAnswered, ThreadsOK, RequestsOK
  <2>2. answers \subseteq Answer
    BY DEF ThreadsOK, RequestsOK
  <2>3. rev' \in 0 .. MaxListed /\ last' = "asked" /\ outdated' = FALSE /\ answers' \subseteq Answer
    BY LoadThreadsOK, <2>1, <2>2
  <2> QED BY <2>1, <2>3, ThreadAssumption DEF RequestsOK
<1>19. ASSUME NEW q \in asked, LeaveAnswered(q)
      PROVE  RequestsOK'
  <2>1. LoadThreads(answers) /\ timer' \in BOOLEAN
    BY <1>19 DEF LeaveAnswered, ThreadsOK, RequestsOK
  <2>2. answers \subseteq Answer
    BY DEF ThreadsOK, RequestsOK
  <2>3. rev' \in 0 .. MaxListed /\ last' = "asked" /\ outdated' = FALSE /\ answers' \subseteq Answer
    BY LoadThreadsOK, <2>1, <2>2
  <2> QED BY <2>1, <2>3, ThreadAssumption DEF RequestsOK
<1>20. ASSUME NEW q \in asked, AskFailed(q)
      PROVE  RequestsOK'
  BY ThreadAssumption, CrossingOK, <1>20 DEF ThreadsOK, RequestsOK, ServerOK, RunsOK, TabOK,
     Answer, Counter, Incoming, Request, AskFailed
<1>21. CASE BackToList \/ Visibility \/ (\E t \in Threads : OthersWrite(t) \/ OthersRemove(t) \/
           PickThread(t)) \/ (\E r \in reading : OpenedThread(r)) \/ (\E t \in Threads, w \in
           {"create", "leave"} : AskFor(w, t))
  <2>1. UNCHANGED <<rev, last, answers, timer, outdated>>
    BY <1>21 DEF OthersWrite, Tell, OthersRemove, PickThread, ShowThread, BackToList, Visibility,
       OpenedThread, AskFor, listVars
  <2> QED BY ThreadAssumption, CrossingOK, <2>1 DEF ThreadsOK, RequestsOK
<1> QED BY <1>1, <1>2, <1>3, <1>4, <1>5, <1>6, <1>7, <1>8, <1>9, <1>10, <1>11, <1>12, <1>13,
       <1>14, <1>15, <1>16, <1>17, <1>18, <1>19, <1>20, <1>21 DEF ThreadNext

(* The messages being decrypted. *)
LEMMA RunsStep ==
    ASSUME ThreadsOK, ThreadNext
    PROVE  RunsOK'
<1>1. ASSUME NEW a \in answers, ApplyThreads(a)
      PROVE  RunsOK'
  <2>1. \A i \in Waiting(a.rev) : [i EXCEPT !.step = "decoding", !.fresh = TRUE] \in Incoming
    BY DEF Waiting, ThreadsOK, RunsOK, Incoming
  <2>2. \A i \in incoming : [i EXCEPT !.stale = TRUE] \in Incoming
    BY DEF ThreadsOK, RunsOK, Incoming
  <2>3. incoming' = Detached(incoming \ Waiting(a.rev)) \union GoOn(Waiting(a.rev), a.chats)
    BY <1>1 DEF ApplyThreads
  <2>4. ASSUME NEW k \in incoming'
        PROVE  k \in Incoming /\ (k.step = "decoding" /\ ~k.fresh => k.rev = 0)
    <3>1. CASE \E i \in Waiting(a.rev) : k = [i EXCEPT !.step = "decoding", !.fresh = TRUE]
      BY <2>1, <3>1 DEF Waiting, ThreadsOK, RunsOK, Incoming
    <3>2. CASE \E i \in incoming : k = IF i.step = "decoding" THEN [i EXCEPT !.stale = TRUE] ELSE i
      BY <2>2, <3>2 DEF ThreadsOK, RunsOK, Incoming
    <3> QED BY <2>3, <3>1, <3>2 DEF Detached, GoOn
  <2> QED BY <2>4 DEF RunsOK
<1>2. ASSUME NEW a \in answers, DropThreads(a)
      PROVE  RunsOK'
  <2>1. \A i \in Waiting(a.rev) : [i EXCEPT !.step = "decoding", !.fresh = TRUE] \in Incoming
    BY DEF Waiting, ThreadsOK, RunsOK, Incoming
  <2>2. \A i \in Waiting(a.rev) : [i EXCEPT !.rev = rev] \in Incoming /\ i.step # "decoding"
    BY DEF Waiting, ThreadsOK, RunsOK, RequestsOK, Incoming
  <2>3. incoming' \subseteq incoming \union {[i EXCEPT !.step = "decoding", !.fresh = TRUE] : i \in Waiting(a.rev)}
                              \union {[i EXCEPT !.rev = rev] : i \in Waiting(a.rev)}
    BY <1>2 DEF DropThreads, GoOn, ThreadsOK, RequestsOK
  <2>4. ASSUME NEW k \in incoming'
        PROVE  k \in Incoming /\ (k.step = "decoding" /\ ~k.fresh => k.rev = 0)
    <3>1. CASE \E i \in Waiting(a.rev) : k = [i EXCEPT !.step = "decoding", !.fresh = TRUE]
      BY <2>1, <3>1 DEF Waiting, ThreadsOK, RunsOK, Incoming
    <3>2. CASE \E i \in Waiting(a.rev) : k = [i EXCEPT !.rev = rev]
      BY <2>2, <3>2 DEF Waiting, ThreadsOK, RunsOK, Incoming
    <3>3. CASE k \in incoming
      BY <3>3 DEF ThreadsOK, RunsOK
    <3> QED BY <2>3, <3>1, <3>2, <3>3
  <2> QED BY <2>4 DEF RunsOK
<1>3. ASSUME NEW a \in answers, RequestFailed(a)
      PROVE  RunsOK'
  BY ThreadAssumption, <1>3 DEF ThreadsOK, RunsOK, RequestsOK, Incoming, Answer, Waiting, GoOn,
     Detached, RequestFailed
<1>4. CASE OnMessage
  <2> DEFINE t == Head(events).thread
             new == [thread |-> t, step |-> IF t \in threads THEN "decoding" ELSE "listing",
                     rev |-> IF t \in threads THEN 0 ELSE rev', fresh |-> FALSE, stale |-> FALSE]
  <2>1. t \in Threads /\ incoming' = incoming \union {new}
    BY <1>4, FramesOK DEF OnMessage
  <2>2. t \in threads \/ rev' \in 0 .. MaxListed
    BY <1>4, ThreadAssumption DEF OnMessage, LoadThreads, ThreadsOK, RequestsOK
  <2>3. new \in Incoming /\ (new.step = "decoding" => new.rev = 0)
    BY <2>1, <2>2, ThreadAssumption DEF Incoming
  <2> QED BY <2>1, <2>3 DEF ThreadsOK, RunsOK
<1>5. ASSUME NEW i \in incoming, Decrypted(i)
      PROVE  RunsOK'
  BY ThreadAssumption, <1>5 DEF ThreadsOK, RunsOK, RequestsOK, Incoming, Answer, Waiting, GoOn,
     Detached, Decrypted
<1>6. CASE ReloadTimer \/ OnUpdated \/ Disconnected \/ BackToList \/ Visibility \/ MarkAllRead \/
           (\E a \in answers : ReadAnswer(a) \/ ApplyMembers(a)) \/ (\E t \in Threads :
           LoadMembers(t) \/ OthersWrite(t) \/ OthersInvite(t) \/ OthersRemove(t) \/ PickThread(t))
           \/ (\E r \in reading : OpenedThread(r) \/ ReadTimer(r) \/ ServerRead(r) \/
           ReadFailed(r)) \/ (\E q \in asked : ServerDoes(q) \/ CreateAnswered(q) \/
           LeaveAnswered(q) \/ AskFailed(q)) \/ (\E t \in Threads, w \in {"create", "leave"} :
           AskFor(w, t))
  <2>1. UNCHANGED <<incoming>>
    BY <1>6 DEF ReadAnswer, ApplyMembers, ReloadTimer, LoadThreads, LoadMembers, OthersWrite,
       Tell, OthersInvite, OthersRemove, OnUpdated, Disconnected, PickThread, ShowThread,
       BackToList, Visibility, MarkAllRead, OpenedThread, ReadTimer, ServerRead, ReadFailed, AskFor,
       ServerDoes, CreateAnswered, LeaveAnswered, AskFailed
  <2> QED BY ThreadAssumption, <2>1 DEF ThreadsOK, RunsOK
<1> QED BY <1>1, <1>2, <1>3, <1>4, <1>5, <1>6 DEF ThreadNext

(* The requests that create or leave a chat. *)
LEMMA AskedStep ==
    ASSUME ThreadsOK, ThreadNext
    PROVE  AskedOK'
<1>1. ASSUME NEW t \in Threads, NEW w \in {"create", "leave"}, AskFor(w, t)
      PROVE  AskedOK'
  BY <1>1 DEF ThreadsOK, AskedOK, AskFor
<1>2. ASSUME NEW q \in asked, ServerDoes(q)
      PROVE  AskedOK'
  BY <1>2 DEF ThreadsOK, AskedOK, ServerDoes
<1>3. ASSUME NEW q \in asked, CreateAnswered(q)
      PROVE  AskedOK'
  BY <1>3 DEF ThreadsOK, AskedOK, CreateAnswered, LoadThreads, ShowThread
<1>4. ASSUME NEW q \in asked, LeaveAnswered(q)
      PROVE  AskedOK'
  BY <1>4 DEF ThreadsOK, AskedOK, LeaveAnswered, LoadThreads
<1>5. ASSUME NEW q \in asked, AskFailed(q)
      PROVE  AskedOK'
  BY <1>5 DEF ThreadsOK, AskedOK, AskFailed
<1>6. CASE ReloadTimer \/ OnUpdated \/ OnMessage \/ Disconnected \/ BackToList \/ Visibility \/
           MarkAllRead \/ (\E a \in answers : ReadAnswer(a) \/ ApplyThreads(a) \/ DropThreads(a) \/
           RequestFailed(a) \/ ApplyMembers(a)) \/ (\E t \in Threads : LoadMembers(t) \/
           OthersWrite(t) \/ OthersInvite(t) \/ OthersRemove(t) \/ PickThread(t)) \/ (\E i \in
           incoming : Decrypted(i)) \/ (\E r \in reading : OpenedThread(r) \/ ReadTimer(r) \/
           ServerRead(r) \/ ReadFailed(r))
  <2>1. UNCHANGED <<asked>>
    BY <1>6 DEF ReadAnswer, ApplyThreads, DropThreads, RequestFailed, ApplyMembers, ReloadTimer,
       LoadThreads, LoadMembers, OthersWrite, Tell, OthersInvite, OthersRemove, OnUpdated,
       OnMessage, Decrypted, Disconnected, PickThread, ShowThread, BackToList, Visibility,
       MarkAllRead, OpenedThread, ReadTimer, ServerRead, ReadFailed
  <2> QED BY <2>1 DEF ThreadsOK, AskedOK
<1> QED BY <1>1, <1>2, <1>3, <1>4, <1>5, <1>6 DEF ThreadNext

(* The frames on their way. *)
LEMMA EventsStep ==
    ASSUME ThreadsOK, ThreadNext
    PROVE  EventsOK'
<1>1. ASSUME NEW t \in Threads, OthersWrite(t)
      PROVE  EventsOK'
  BY TimesDropped, <1>1 DEF ThreadsOK, EventsOK, Frame, OthersWrite, Tell
<1>2. ASSUME NEW t \in Threads, OthersInvite(t)
      PROVE  EventsOK'
  BY TimesDropped, <1>2 DEF ThreadsOK, EventsOK, Frame, OthersInvite, Tell
<1>3. ASSUME NEW t \in Threads, OthersRemove(t)
      PROVE  EventsOK'
  BY TimesDropped, <1>3 DEF ThreadsOK, EventsOK, Frame, OthersRemove, Tell
<1>4. CASE OnUpdated
  BY TimesDropped, <1>4 DEF ThreadsOK, EventsOK, Frame, OnUpdated
<1>5. CASE OnMessage
  BY TimesDropped, <1>5 DEF ThreadsOK, EventsOK, Frame, OnMessage, LoadThreads
<1>6. CASE Disconnected
  BY TimesDropped, <1>6 DEF ThreadsOK, EventsOK, Frame, Disconnected
<1>7. CASE ReloadTimer \/ BackToList \/ Visibility \/ MarkAllRead \/ (\E a \in answers :
           ReadAnswer(a) \/ ApplyThreads(a) \/ DropThreads(a) \/ RequestFailed(a) \/
           ApplyMembers(a)) \/ (\E t \in Threads : LoadMembers(t) \/ PickThread(t)) \/ (\E i \in
           incoming : Decrypted(i)) \/ (\E r \in reading : OpenedThread(r) \/ ReadTimer(r) \/
           ServerRead(r) \/ ReadFailed(r)) \/ (\E q \in asked : ServerDoes(q) \/ CreateAnswered(q)
           \/ LeaveAnswered(q) \/ AskFailed(q)) \/ (\E t \in Threads, w \in {"create", "leave"} :
           AskFor(w, t))
  <2>1. UNCHANGED <<events>>
    BY <1>7 DEF ReadAnswer, ApplyThreads, DropThreads, RequestFailed, ApplyMembers, ReloadTimer,
       LoadThreads, LoadMembers, Decrypted, PickThread, ShowThread, BackToList, Visibility,
       MarkAllRead, OpenedThread, ReadTimer, ServerRead, ReadFailed, AskFor, ServerDoes,
       CreateAnswered, LeaveAnswered, AskFailed
  <2> QED BY TimesDropped, <2>1 DEF ThreadsOK, EventsOK
<1> QED BY <1>1, <1>2, <1>3, <1>4, <1>5, <1>6, <1>7 DEF ThreadNext

(* The newest request of the list. *)
LEMMA NewestStep ==
    ASSUME ThreadsOK, NewestInv, ThreadNext
    PROVE  NewestInv'
<1>1. ASSUME NEW a \in answers, ReadAnswer(a)
      PROVE  NewestInv'
  <2> DEFINE f == [a EXCEPT !.step = "read", !.chats = member, !.count = count,
                              !.crossed = {t \in Threads : Uncounted(t)}]
  <2>1. f.rev = a.rev /\ f.only = a.only /\ UNCHANGED <<rev, last>>
        /\ answers' = (answers \ {a}) \union {f}
    BY <1>1 DEF ReadAnswer, ThreadsOK, RequestsOK, Answer
  <2> HIDE DEF f
  <2>2. \A b \in ListRequests' : \E c \in ListRequests : c.rev = b.rev /\ b = (IF c = a THEN f ELSE c)
    BY <2>1 DEF ListRequests
  <2>3. \A c \in ListRequests : (IF c = a THEN f ELSE c) \in ListRequests' /\ (IF c = a THEN f ELSE c).rev = c.rev
    BY <2>1 DEF ListRequests
  <2> QED BY <2>1, <2>2, <2>3 DEF NewestInv, NewestOut
<1>2. ASSUME NEW a \in answers, ApplyThreads(a)
      PROVE  NewestInv'
  <2>1. answers' = answers \ {a} /\ rev' = rev
        /\ \/ a.only = Nobody /\ a.rev = rev /\ last' \in {"applied", "failed"}
           \/ ~(a.only = Nobody /\ a.rev = rev) /\ last' = last
    BY <1>2 DEF ApplyThreads, Newest
  <2>2. ListRequests' = ListRequests \ {a}
    BY <2>1 DEF ListRequests
  <2>3. CASE a.only = Nobody /\ a.rev = rev
    BY <2>1, <2>2, <2>3 DEF NewestInv, NewestOut, ListRequests
  <2>4. CASE ~(a.only = Nobody /\ a.rev = rev)
    BY <2>1, <2>2, <2>4 DEF NewestInv, NewestOut, ListRequests
  <2> QED BY <2>3, <2>4
<1>3. ASSUME NEW a \in answers, DropThreads(a)
      PROVE  NewestInv'
  <2>1. answers' = answers \ {a} /\ rev' = rev
        /\ \/ a.only = Nobody /\ a.rev = rev /\ last' \in {"applied", "failed"}
           \/ ~(a.only = Nobody /\ a.rev = rev) /\ last' = last
    BY <1>3 DEF DropThreads, Newest
  <2>2. ListRequests' = ListRequests \ {a}
    BY <2>1 DEF ListRequests
  <2>3. CASE a.only = Nobody /\ a.rev = rev
    BY <2>1, <2>2, <2>3 DEF NewestInv, NewestOut, ListRequests
  <2>4. CASE ~(a.only = Nobody /\ a.rev = rev)
    BY <2>1, <2>2, <2>4 DEF NewestInv, NewestOut, ListRequests
  <2> QED BY <2>3, <2>4
<1>4. ASSUME NEW a \in answers, RequestFailed(a)
      PROVE  NewestInv'
  <2>1. answers' = answers \ {a} /\ rev' = rev
        /\ \/ a.only = Nobody /\ a.rev = rev /\ last' \in {"applied", "failed"}
           \/ ~(a.only = Nobody /\ a.rev = rev) /\ last' = last
    BY <1>4 DEF RequestFailed, Newest
  <2>2. ListRequests' = ListRequests \ {a}
    BY <2>1 DEF ListRequests
  <2>3. CASE a.only = Nobody /\ a.rev = rev
    BY <2>1, <2>2, <2>3 DEF NewestInv, NewestOut, ListRequests
  <2>4. CASE ~(a.only = Nobody /\ a.rev = rev)
    BY <2>1, <2>2, <2>4 DEF NewestInv, NewestOut, ListRequests
  <2> QED BY <2>3, <2>4
<1>5. ASSUME NEW a \in answers, ApplyMembers(a)
      PROVE  NewestInv'
  <2>1. UNCHANGED <<answers, rev, last>> \/ \E gone, ts : Crosses(gone, ts)
    BY <1>5, CrossesOK
  <2> QED BY <2>1, CrossesNewest DEF NewestInv, NewestOut, ListRequests
<1>6. CASE ReloadTimer
  <2>1. LoadThreads(answers) /\ answers \in SUBSET Answer
    BY <1>6 DEF ReloadTimer, ThreadsOK, RequestsOK
  <2> QED BY <2>1, LoadNewest
<1>7. ASSUME NEW t \in Threads, LoadMembers(t)
      PROVE  NewestInv'
  <2>1. ListRequests' = ListRequests /\ rev' = rev /\ last' = last
    BY <1>7, ThreadAssumption DEF LoadMembers, ListRequests, Request
  <2> QED BY <2>1 DEF NewestInv, NewestOut
<1>8. ASSUME NEW t \in Threads, OthersInvite(t)
      PROVE  NewestInv'
  <2>1. UNCHANGED <<answers, rev, last>> \/ \E gone, ts : Crosses(gone, ts)
    BY <1>8, CrossesOK
  <2> QED BY <2>1, CrossesNewest DEF NewestInv, NewestOut, ListRequests
<1>9. CASE OnMessage
  <2> DEFINE t == Head(events).thread
  <2>1. t \in Threads /\ answers \in SUBSET Answer
    BY <1>9, FramesOK DEF OnMessage, ThreadsOK, RequestsOK
  <2>2. CASE t \in threads
    <3>1. UNCHANGED <<rev, last, answers>>
      BY <1>9, <2>2 DEF OnMessage
    <3> QED BY <3>1 DEF NewestInv, NewestOut, ListRequests
  <2>3. CASE t \notin threads
    <3>1. LoadThreads(Crossing(answers, {t})) /\ Crossing(answers, {t}) \in SUBSET Answer
      BY <1>9, <2>1, <2>3, CrossingOK DEF OnMessage
    <3> QED BY <2>1, <3>1, LoadNewest
  <2> QED BY <2>2, <2>3
<1>10. ASSUME NEW i \in incoming, Decrypted(i)
      PROVE  NewestInv'
  <2>1. UNCHANGED <<answers, rev, last>> \/ \E gone, ts : Crosses(gone, ts)
    BY <1>10, CrossesOK
  <2> QED BY <2>1, CrossesNewest DEF NewestInv, NewestOut, ListRequests
<1>11. CASE Disconnected
  <2>1. UNCHANGED <<answers, rev, last>> \/ \E gone, ts : Crosses(gone, ts)
    BY <1>11, CrossesOK
  <2> QED BY <2>1, CrossesNewest DEF NewestInv, NewestOut, ListRequests
<1>12. CASE MarkAllRead
  <2>1. UNCHANGED <<answers, rev, last>> \/ \E gone, ts : Crosses(gone, ts)
    BY <1>12, CrossesOK
  <2> QED BY <2>1, CrossesNewest DEF NewestInv, NewestOut, ListRequests
<1>13. ASSUME NEW r \in reading, ReadTimer(r)
      PROVE  NewestInv'
  <2>1. UNCHANGED <<answers, rev, last>> \/ \E gone, ts : Crosses(gone, ts)
    BY <1>13, CrossesOK
  <2> QED BY <2>1, CrossesNewest DEF NewestInv, NewestOut, ListRequests
<1>14. ASSUME NEW r \in reading, ServerRead(r)
      PROVE  NewestInv'
  <2>1. UNCHANGED <<answers, rev, last>> \/ \E gone, ts : Crosses(gone, ts)
    BY <1>14, CrossesOK
  <2> QED BY <2>1, CrossesNewest DEF NewestInv, NewestOut, ListRequests
<1>15. ASSUME NEW r \in reading, ReadFailed(r)
      PROVE  NewestInv'
  <2>1. UNCHANGED <<answers, rev, last>> \/ \E gone, ts : Crosses(gone, ts)
    BY <1>15, CrossesOK
  <2> QED BY <2>1, CrossesNewest DEF NewestInv, NewestOut, ListRequests
<1>16. ASSUME NEW q \in asked, ServerDoes(q)
      PROVE  NewestInv'
  <2>1. UNCHANGED <<answers, rev, last>> \/ \E gone, ts : Crosses(gone, ts)
    BY <1>16, CrossesOK
  <2> QED BY <2>1, CrossesNewest DEF NewestInv, NewestOut, ListRequests
<1>17. ASSUME NEW q \in asked, CreateAnswered(q)
      PROVE  NewestInv'
  <2>1. LoadThreads(answers) /\ answers \in SUBSET Answer
    BY <1>17 DEF CreateAnswered, ThreadsOK, RequestsOK
  <2> QED BY <2>1, LoadNewest
<1>18. ASSUME NEW q \in asked, LeaveAnswered(q)
      PROVE  NewestInv'
  <2>1. LoadThreads(answers) /\ answers \in SUBSET Answer
    BY <1>18 DEF LeaveAnswered, ThreadsOK, RequestsOK
  <2> QED BY <2>1, LoadNewest
<1>19. CASE OnUpdated \/ BackToList \/ Visibility \/ (\E t \in Threads : OthersWrite(t) \/
           OthersRemove(t) \/ PickThread(t)) \/ (\E r \in reading : OpenedThread(r)) \/ (\E q \in
           asked : AskFailed(q)) \/ (\E t \in Threads, w \in {"create", "leave"} : AskFor(w, t))
  <2>1. UNCHANGED <<rev, last, answers>>
    BY <1>19 DEF OthersWrite, Tell, OthersRemove, OnUpdated, PickThread, ShowThread, BackToList,
       Visibility, OpenedThread, AskFor, AskFailed, listVars
  <2> QED BY ThreadAssumption, <2>1 DEF NewestInv, NewestOut, ListRequests
<1> QED BY <1>1, <1>2, <1>3, <1>4, <1>5, <1>6, <1>7, <1>8, <1>9, <1>10, <1>11, <1>12, <1>13,
       <1>14, <1>15, <1>16, <1>17, <1>18, <1>19 DEF ThreadNext

(* The listed chats. *)
LEMMA MemberStep ==
    ASSUME ThreadsOK, NewestInv, MemberInv, ThreadNext
    PROVE  MemberInv'
<1>1. ASSUME NEW a \in answers, ReadAnswer(a)
      PROVE  MemberInv'
  <2> DEFINE f == [a EXCEPT !.step = "read", !.chats = member, !.count = count,
                              !.crossed = {t \in Threads : Uncounted(t)}]
  <2>1. f.chats = member /\ f.only = a.only /\ UNCHANGED <<member, rev, last, timer, outdated, threads, events, asked>>
        /\ answers' = (answers \ {a}) \union {f}
    BY <1>1 DEF ReadAnswer, ThreadsOK, RequestsOK, Answer, serverVars
  <2> HIDE DEF f
  <2>2. \A b \in NewestOut' : b \in NewestOut \/ b.chats = member
    BY <2>1 DEF NewestOut, ListRequests
  <2> QED BY <2>1, <2>2 DEF MemberInv, Reload
<1>2. ASSUME NEW a \in answers, ApplyThreads(a)
      PROVE  MemberInv'
  <2>1. a \in NewestOut /\ a.step = "read" /\ threads' = a.chats /\ last' = "applied"
        /\ UNCHANGED <<member, outdated, timer, events, asked>>
    BY <1>2 DEF ApplyThreads, Newest, NewestOut, ListRequests, serverVars
  <2>2. last = "asked"
    BY <2>1 DEF NewestInv, NewestOut
  <2> QED BY <2>1, <2>2 DEF MemberInv, Reload
<1>3. ASSUME NEW a \in answers, DropThreads(a)
      PROVE  MemberInv'
  <2>1. UNCHANGED <<member, rev, last, outdated, timer, threads, events, asked>> /\ NewestOut' \subseteq NewestOut
    BY <1>3, ThreadAssumption DEF DropThreads, NewestOut, ListRequests, Request, serverVars
  <2> QED BY <2>1 DEF MemberInv, Reload
<1>4. ASSUME NEW a \in answers, RequestFailed(a)
      PROVE  MemberInv'
  <2>1. answers' \subseteq answers /\ UNCHANGED <<member, rev, timer, threads, events, asked>>
        /\ (outdated' = TRUE \/ UNCHANGED <<last, outdated>>)
    BY <1>4 DEF RequestFailed, serverVars
  <2> QED BY <2>1 DEF MemberInv, Reload, NewestOut, ListRequests
<1>5. ASSUME NEW a \in answers, ApplyMembers(a)
      PROVE  MemberInv'
  <2>1. UNCHANGED <<answers, rev, last>> \/ \E gone, ts : Crosses(gone, ts)
    BY <1>5, CrossesOK
  <2>2. last' = last /\ \A b \in NewestOut' : \E a0 \in NewestOut : Kept(a0, b)
    BY <2>1, CrossesNewest DEF NewestOut, ListRequests, Kept
  <2>3. UNCHANGED <<member, threads, outdated, timer, events, asked>>
    BY <1>5 DEF ApplyMembers, serverVars
  <2> QED BY <2>2, <2>3 DEF MemberInv, Reload, Kept
<1>6. CASE ReloadTimer
  <2>1. LoadThreads(answers) /\ answers \in SUBSET Answer
    BY <1>6 DEF ReloadTimer, ThreadsOK, RequestsOK
  <2>2. last' = "asked" /\ \A b \in NewestOut' : b.step = "sent"
    BY <2>1, LoadNewest
  <2> QED BY <2>2 DEF MemberInv
<1>7. ASSUME NEW t \in Threads, LoadMembers(t)
      PROVE  MemberInv'
  <2>1. UNCHANGED <<member, rev, last, outdated, timer, threads, events, asked>> /\ NewestOut' \subseteq NewestOut
    BY <1>7, ThreadAssumption DEF LoadMembers, NewestOut, ListRequests, Request, serverVars
  <2> QED BY <2>1 DEF MemberInv, Reload
<1>8. ASSUME NEW t \in Threads, OthersWrite(t)
      PROVE  MemberInv'
  <2>1. events' = Append(events, Notice(t)) /\ UNCHANGED <<member, answers, rev, last, threads, outdated, timer, asked>>
    BY <1>8 DEF OthersWrite, Tell, Notice, listVars
  <2>2. Notice(t) \in Frame /\ events \in Seq(Frame)
    BY DEF Frame, Notice, ThreadsOK, EventsOK
  <2>3. ToSet(events') = ToSet(events) \union {Notice(t)}
    BY <2>1, <2>2, TimesAppended
  <2> QED BY <2>1, <2>3 DEF MemberInv, Reload, NewestOut, ListRequests
<1>9. ASSUME NEW t \in Threads, OthersInvite(t)
      PROVE  MemberInv'
  <2>1. PICK e \in ToSet(events') : e.event # "message"
    <3>1. events' = Append(events, [event |-> "updated", thread |-> t])
      BY <1>9 DEF OthersInvite, Tell
    <3>2. [event |-> "updated", thread |-> t] \in Frame /\ events \in Seq(Frame)
      BY DEF Frame, ThreadsOK, EventsOK
    <3>3. [event |-> "updated", thread |-> t] \in ToSet(events')
      BY <3>1, <3>2, TimesAppended
    <3> QED BY <3>3
  <2> QED BY <2>1 DEF MemberInv, Reload
<1>10. ASSUME NEW t \in Threads, OthersRemove(t)
      PROVE  MemberInv'
  <2>1. PICK e \in ToSet(events') : e.event # "message"
    <3>1. events' = Append(events, [event |-> "removed", thread |-> t])
      BY <1>10 DEF OthersRemove, Tell
    <3>2. [event |-> "removed", thread |-> t] \in Frame /\ events \in Seq(Frame)
      BY DEF Frame, ThreadsOK, EventsOK
    <3>3. [event |-> "removed", thread |-> t] \in ToSet(events')
      BY <3>1, <3>2, TimesAppended
    <3> QED BY <3>3
  <2> QED BY <2>1 DEF MemberInv, Reload
<1>11. CASE OnUpdated
  <2> QED BY <1>11 DEF OnUpdated, MemberInv, Reload
<1>12. CASE OnMessage
  <2> DEFINE t == Head(events).thread
  <2>1. t \in Threads /\ answers \in SUBSET Answer /\ events # <<>> /\ events \in Seq(Frame)
        /\ Head(events).event = "message" /\ events' = Tail(events)
    BY <1>12, FramesOK DEF OnMessage, ThreadsOK, RequestsOK, EventsOK
  <2>2. CASE t \in threads
    <3>1. UNCHANGED <<member, rev, last, answers, outdated, timer, threads, asked>>
      BY <1>12, <2>2 DEF OnMessage, serverVars
    <3>2. ToSet(events) = ToSet(events') \union {Head(events)}
      BY <2>1, TimesDropped
    <3> QED BY <2>1, <3>1, <3>2 DEF MemberInv, Reload, NewestOut, ListRequests
  <2>3. CASE t \notin threads
    <3>1. LoadThreads(Crossing(answers, {t})) /\ Crossing(answers, {t}) \in SUBSET Answer
      BY <1>12, <2>1, <2>3, CrossingOK DEF OnMessage
    <3>2. last' = "asked" /\ \A b \in NewestOut' : b.step = "sent"
      BY <2>1, <3>1, LoadNewest
    <3> QED BY <3>2 DEF MemberInv
  <2> QED BY <2>2, <2>3
<1>13. ASSUME NEW i \in incoming, Decrypted(i)
      PROVE  MemberInv'
  <2>1. UNCHANGED <<answers, rev, last>> \/ \E gone, ts : Crosses(gone, ts)
    BY <1>13, CrossesOK
  <2>2. last' = last /\ \A b \in NewestOut' : \E a0 \in NewestOut : Kept(a0, b)
    BY <2>1, CrossesNewest DEF NewestOut, ListRequests, Kept
  <2>3. UNCHANGED <<member, threads, outdated, timer, events, asked>>
    BY <1>13 DEF Decrypted, serverVars
  <2> QED BY <2>2, <2>3 DEF MemberInv, Reload, Kept
<1>14. CASE Disconnected
  BY <1>14 DEF Disconnected, MemberInv, Reload
<1>15. CASE MarkAllRead
  <2>1. UNCHANGED <<answers, rev, last>> \/ \E gone, ts : Crosses(gone, ts)
    BY <1>15, CrossesOK
  <2>2. last' = last /\ \A b \in NewestOut' : \E a0 \in NewestOut : Kept(a0, b)
    BY <2>1, CrossesNewest DEF NewestOut, ListRequests, Kept
  <2>3. UNCHANGED <<member, threads, outdated, timer, events, asked>>
    BY <1>15 DEF MarkAllRead, serverVars
  <2> QED BY <2>2, <2>3 DEF MemberInv, Reload, Kept
<1>16. ASSUME NEW r \in reading, ReadTimer(r)
      PROVE  MemberInv'
  <2>1. UNCHANGED <<answers, rev, last>> \/ \E gone, ts : Crosses(gone, ts)
    BY <1>16, CrossesOK
  <2>2. last' = last /\ \A b \in NewestOut' : \E a0 \in NewestOut : Kept(a0, b)
    BY <2>1, CrossesNewest DEF NewestOut, ListRequests, Kept
  <2>3. UNCHANGED <<member, threads, outdated, timer, events, asked>>
    BY <1>16 DEF ReadTimer, serverVars
  <2> QED BY <2>2, <2>3 DEF MemberInv, Reload, Kept
<1>17. ASSUME NEW r \in reading, ServerRead(r)
      PROVE  MemberInv'
  <2>1. UNCHANGED <<answers, rev, last>> \/ \E gone, ts : Crosses(gone, ts)
    BY <1>17, CrossesOK
  <2>2. last' = last /\ \A b \in NewestOut' : \E a0 \in NewestOut : Kept(a0, b)
    BY <2>1, CrossesNewest DEF NewestOut, ListRequests, Kept
  <2>3. UNCHANGED <<member, threads, outdated, timer, events, asked>>
    BY <1>17 DEF ServerRead
  <2> QED BY <2>2, <2>3 DEF MemberInv, Reload, Kept
<1>18. ASSUME NEW r \in reading, ReadFailed(r)
      PROVE  MemberInv'
  <2>1. UNCHANGED <<answers, rev, last>> \/ \E gone, ts : Crosses(gone, ts)
    BY <1>18, CrossesOK
  <2>2. last' = last /\ \A b \in NewestOut' : \E a0 \in NewestOut : Kept(a0, b)
    BY <2>1, CrossesNewest DEF NewestOut, ListRequests, Kept
  <2>3. UNCHANGED <<member, threads, outdated, timer, events, asked>>
    BY <1>18 DEF ReadFailed, serverVars
  <2> QED BY <2>2, <2>3 DEF MemberInv, Reload, Kept
<1>19. ASSUME NEW t \in Threads, NEW w \in {"create", "leave"}, AskFor(w, t)
      PROVE  MemberInv'
  <2>1. asked \subseteq asked' /\ UNCHANGED <<member, rev, last, answers, outdated, timer, threads, events>>
    BY <1>19 DEF AskFor, serverVars, listVars
  <2> QED BY <2>1 DEF MemberInv, Reload, NewestOut, ListRequests
<1>20. ASSUME NEW q \in asked, ServerDoes(q)
      PROVE  MemberInv'
  <2>1. [q EXCEPT !.step = "done"] \in asked' /\ [q EXCEPT !.step = "done"].step = "done"
    BY <1>20 DEF ServerDoes, ThreadsOK
  <2> QED BY <2>1 DEF MemberInv, Reload
<1>21. ASSUME NEW q \in asked, CreateAnswered(q)
      PROVE  MemberInv'
  <2>1. LoadThreads(answers) /\ answers \in SUBSET Answer
    BY <1>21 DEF CreateAnswered, ThreadsOK, RequestsOK
  <2>2. last' = "asked" /\ \A b \in NewestOut' : b.step = "sent"
    BY <2>1, LoadNewest
  <2> QED BY <2>2 DEF MemberInv
<1>22. ASSUME NEW q \in asked, LeaveAnswered(q)
      PROVE  MemberInv'
  <2>1. LoadThreads(answers) /\ answers \in SUBSET Answer
    BY <1>22 DEF LeaveAnswered, ThreadsOK, RequestsOK
  <2>2. last' = "asked" /\ \A b \in NewestOut' : b.step = "sent"
    BY <2>1, LoadNewest
  <2> QED BY <2>2 DEF MemberInv
<1>23. ASSUME NEW q \in asked, AskFailed(q)
      PROVE  MemberInv'
  <2>1. UNCHANGED <<member, rev, last, answers, timer, threads, events>> /\ asked' = asked \ {q}
        /\ outdated' = (outdated \/ q.step = "done")
    BY <1>23 DEF AskFailed, serverVars
  <2> QED BY <2>1 DEF MemberInv, Reload, NewestOut, ListRequests
<1>24. CASE BackToList \/ Visibility \/ (\E t \in Threads : PickThread(t)) \/ (\E r \in reading :
           OpenedThread(r))
  <2>1. UNCHANGED <<member, rev, last, answers, timer, outdated, threads, events, asked>>
    BY <1>24 DEF PickThread, ShowThread, BackToList, Visibility, OpenedThread, serverVars,
       listVars
  <2> QED BY <2>1 DEF MemberInv, Reload, NewestOut, ListRequests
<1> QED BY <1>1, <1>2, <1>3, <1>4, <1>5, <1>6, <1>7, <1>8, <1>9, <1>10, <1>11, <1>12, <1>13,
       <1>14, <1>15, <1>16, <1>17, <1>18, <1>19, <1>20, <1>21, <1>22, <1>23, <1>24 DEF
       ThreadNext

(* The answers on their way. *)
LEMMA AnswerStep ==
    ASSUME ThreadsOK, NewestInv, AnswerInv, ThreadNext
    PROVE  AnswerInv'
<1>1. ASSUME NEW a \in answers, ReadAnswer(a)
      PROVE  AnswerInv'
  <2> DEFINE f == [a EXCEPT !.step = "read", !.chats = member, !.count = count,
                              !.crossed = {t \in Threads : Uncounted(t)}]
  <2>1. /\ f.only = a.only /\ f.rev = a.rev /\ f.chats = member /\ f.count = count
        /\ f.crossed = {t \in Threads : Uncounted(t)}
        /\ UNCHANGED <<rev, count, events, incoming, reading>> /\ answers' = (answers \ {a}) \union {f}
    BY <1>1 DEF ReadAnswer, ThreadsOK, RequestsOK, Answer, serverVars, screenVars
  <2> HIDE DEF f
  <2>2. \A t \in Threads : ~Uncounted(t) => Balanced(t, count[t])'
    <3> SUFFICES ASSUME NEW t \in Threads, ~Uncounted(t) PROVE Balanced(t, count[t])'
      OBVIOUS
    <3>1. Notice(t) \notin ToSet(events) /\ Run(t) \notin incoming
      BY DEF Uncounted, Notice, Run
    <3>2. Times(events, Notice(t)) = 0
      BY <3>1, EventsOwed
    <3>3. count[t] \in Nat
      BY ThreadAssumption DEF ThreadsOK, ServerOK, Counter
    <3>4. count[t] = count[t] + Owed(t)
      BY <3>1, <3>2, <3>3 DEF Owed
    <3> QED BY <2>1, <3>4 DEF Balanced, Owed, Notice, Run
  <2>3. Undisturbed({})
    BY <1>1, Balances
  <2>4. ASSUME NEW b \in answers', b.step = "read", NEW t \in Tells(b)' \ b.crossed, t \in Threads
        PROVE  Balanced(t, b.count[t])'
    <3>1. CASE b = f
      BY <2>1, <2>2, <2>4, <3>1
    <3>2. CASE b \in answers
      <4>1. t \in Tells(b)
        BY <2>1, <2>4 DEF Tells
      <4>2. Balanced(t, b.count[t])
        BY <2>4, <3>2, <4>1 DEF AnswerInv
      <4>3. b.count[t] \in Nat
        <5>1. b.count \in Counter
          BY <3>2 DEF ThreadsOK, RequestsOK, Answer
        <5> QED BY <5>1, <2>4, ThreadAssumption DEF Counter
      <4> QED BY <2>3, <2>4, <4>2, <4>3 DEF Undisturbed
    <3> QED BY <2>1, <2>4, <3>1, <3>2
  <2> QED BY <2>4 DEF AnswerInv
<1>2. ASSUME NEW a \in answers, ApplyThreads(a)
      PROVE  AnswerInv'
  <2>1. Undisturbed({})
    BY <1>2, Balances
  <2>2. rev' = rev /\ \A b \in answers' : b.step = "read" => b \in answers
    BY <1>2 DEF ApplyThreads, Request
  <2> QED BY <2>1, <2>2, FewerAnswers
<1>3. ASSUME NEW a \in answers, DropThreads(a)
      PROVE  AnswerInv'
  <2>1. Undisturbed({})
    BY <1>3, Balances
  <2>2. rev' = rev /\ \A b \in answers' : b.step = "read" => b \in answers
    BY <1>3 DEF DropThreads, Request
  <2> QED BY <2>1, <2>2, FewerAnswers
<1>4. ASSUME NEW a \in answers, RequestFailed(a)
      PROVE  AnswerInv'
  <2>1. Undisturbed({})
    BY <1>4, Balances
  <2>2. rev' = rev /\ \A b \in answers' : b.step = "read" => b \in answers
    BY <1>4 DEF RequestFailed, Request
  <2> QED BY <2>1, <2>2, FewerAnswers
<1>5. ASSUME NEW a \in answers, ApplyMembers(a)
      PROVE  AnswerInv'
  <2>1. Undisturbed({})
    BY <1>5, Balances
  <2>2. Crosses({a}, {a.only})
    BY <1>5, CrossesOK
  <2> QED BY <2>1, <2>2, CrossesAnswers DEF Undisturbed
<1>6. CASE ReloadTimer
  <2>1. Undisturbed({})
    BY <1>6, Balances
  <2>2. LoadThreads(answers) /\ answers \in SUBSET Answer
    BY <1>6 DEF ReloadTimer, ThreadsOK, RequestsOK
  <2> QED BY <2>1, <2>2, LoadAnswers
<1>7. ASSUME NEW t \in Threads, LoadMembers(t)
      PROVE  AnswerInv'
  <2>1. Undisturbed({})
    BY <1>7, Balances
  <2>2. rev' = rev /\ \A b \in answers' : b.step = "read" => b \in answers
    BY <1>7 DEF LoadMembers, Request
  <2> QED BY <2>1, <2>2, FewerAnswers
<1>8. ASSUME NEW t \in Threads, OthersWrite(t)
      PROVE  AnswerInv'
  <2>1. Undisturbed({})
    BY <1>8, Balances
  <2>2. rev' = rev /\ \A b \in answers' : b.step = "read" => b \in answers
    BY <1>8 DEF OthersWrite, Request, listVars
  <2> QED BY <2>1, <2>2, FewerAnswers
<1>9. ASSUME NEW t \in Threads, OthersInvite(t)
      PROVE  AnswerInv'
  <2>1. Crosses({}, {t})
    BY <1>9, CrossesOK
  <2>2. Undisturbed({t})
    BY <1>9, Imbalances
  <2> QED BY <2>1, <2>2, CrossesAnswers
<1>10. ASSUME NEW t \in Threads, OthersRemove(t)
      PROVE  AnswerInv'
  <2>1. Undisturbed({})
    BY <1>10, Balances
  <2>2. rev' = rev /\ \A b \in answers' : b.step = "read" => b \in answers
    BY <1>10 DEF OthersRemove, Request, listVars
  <2> QED BY <2>1, <2>2, FewerAnswers
<1>11. CASE OnUpdated
  <2>1. Undisturbed({})
    BY <1>11, Balances
  <2>2. rev' = rev /\ \A b \in answers' : b.step = "read" => b \in answers
    BY <1>11 DEF OnUpdated, Request
  <2> QED BY <2>1, <2>2, FewerAnswers
<1>12. CASE OnMessage
  <2>1. PICK t \in Threads : t = Head(events).thread
    BY <1>12, FramesOK DEF OnMessage
  <2>2. Undisturbed(IF t \in threads THEN {} ELSE {t})
    BY <1>12, <2>1, Imbalances
  <2>3. CASE t \in threads
    <3>1. UNCHANGED <<rev, answers>>
      BY <1>12, <2>1, <2>3 DEF OnMessage
    <3> QED BY <2>2, <2>3, <3>1, FewerAnswers
  <2>4. CASE t \notin threads
    <3>1. answers \subseteq Answer /\ {t} \in SUBSET Threads
      BY DEF ThreadsOK, RequestsOK
    <3>2. LoadThreads(Crossing(answers, {t})) /\ Crossing(answers, {t}) \in SUBSET Answer
      BY <1>12, <2>1, <2>4, <3>1, CrossingOK DEF OnMessage
    <3> QED BY <2>2, <2>4, <3>2, LoadAnswers
  <2> QED BY <2>3, <2>4
<1>13. ASSUME NEW i \in incoming, Decrypted(i)
      PROVE  AnswerInv'
  <2>1. CASE i.fresh
    <3>1. Undisturbed({}) /\ UNCHANGED <<answers, rev>>
      BY <1>13, <2>1, CrossesOK, Imbalances
    <3> QED BY <3>1, FewerAnswers
  <2>2. CASE ~i.fresh
    <3>1. Undisturbed({i.thread}) /\ Crosses({}, {i.thread})
      BY <1>13, <2>2, CrossesOK, Imbalances
    <3> QED BY <3>1, CrossesAnswers
  <2> QED BY <2>1, <2>2
<1>14. CASE Disconnected
  <2>1. Crosses({}, {e.thread : e \in {x \in ToSet(events) : x.event = "message"}})
    BY <1>14, CrossesOK
  <2>2. Undisturbed({e.thread : e \in {x \in ToSet(events) : x.event = "message"}})
    BY <1>14, Imbalances
  <2> QED BY <2>1, <2>2, CrossesAnswers
<1>15. ASSUME NEW t \in Threads, PickThread(t)
      PROVE  AnswerInv'
  <2>1. Undisturbed({})
    BY <1>15, Balances
  <2>2. rev' = rev /\ \A b \in answers' : b.step = "read" => b \in answers
    BY <1>15 DEF PickThread, Request, listVars
  <2> QED BY <2>1, <2>2, FewerAnswers
<1>16. CASE BackToList
  <2>1. Undisturbed({})
    BY <1>16, Balances
  <2>2. rev' = rev /\ \A b \in answers' : b.step = "read" => b \in answers
    BY <1>16 DEF BackToList, Request, listVars
  <2> QED BY <2>1, <2>2, FewerAnswers
<1>17. CASE Visibility
  <2>1. Undisturbed({})
    BY <1>17, Balances
  <2>2. rev' = rev /\ \A b \in answers' : b.step = "read" => b \in answers
    BY <1>17 DEF Visibility, Request, listVars
  <2> QED BY <2>1, <2>2, FewerAnswers
<1>18. CASE MarkAllRead
  <2>1. Undisturbed({})
    BY <1>18, Balances
  <2>2. Crosses({}, {t \in threads : unread[t] > 0})
    BY <1>18, CrossesOK
  <2> QED BY <2>1, <2>2, CrossesAnswers DEF Undisturbed
<1>19. ASSUME NEW r \in reading, OpenedThread(r)
      PROVE  AnswerInv'
  <2>1. Undisturbed({})
    BY <1>19, Balances
  <2>2. rev' = rev /\ \A b \in answers' : b.step = "read" => b \in answers
    BY <1>19 DEF OpenedThread, Request, listVars
  <2> QED BY <2>1, <2>2, FewerAnswers
<1>20. ASSUME NEW r \in reading, ReadTimer(r)
      PROVE  AnswerInv'
  <2>1. Undisturbed({})
    BY <1>20, Balances
  <2>2. CASE UNCHANGED <<answers, rev, last>>
    BY <2>1, <2>2, FewerAnswers
  <2>3. CASE Crosses({}, {r.thread})
    BY <2>1, <2>3, CrossesAnswers DEF Undisturbed
  <2> QED BY <1>20, <2>2, <2>3, CrossesOK
<1>21. ASSUME NEW r \in reading, ServerRead(r)
      PROVE  AnswerInv'
  <2>1. Crosses({}, {r.thread})
    BY <1>21, CrossesOK
  <2>2. Undisturbed({r.thread})
    BY <1>21, Imbalances
  <2> QED BY <2>1, <2>2, CrossesAnswers
<1>22. ASSUME NEW r \in reading, ReadFailed(r)
      PROVE  AnswerInv'
  <2>1. Crosses({}, {r.thread})
    BY <1>22, CrossesOK
  <2>2. Undisturbed({r.thread})
    BY <1>22, Imbalances
  <2> QED BY <2>1, <2>2, CrossesAnswers
<1>23. ASSUME NEW t \in Threads, NEW w \in {"create", "leave"}, AskFor(w, t)
      PROVE  AnswerInv'
  <2>1. Undisturbed({})
    BY <1>23, Balances
  <2>2. rev' = rev /\ \A b \in answers' : b.step = "read" => b \in answers
    BY <1>23 DEF AskFor, Request, listVars
  <2> QED BY <2>1, <2>2, FewerAnswers
<1>24. ASSUME NEW q \in asked, ServerDoes(q)
      PROVE  AnswerInv'
  <2>1. Crosses({}, {q.thread})
    BY <1>24, CrossesOK
  <2>2. Undisturbed({q.thread})
    BY <1>24, Imbalances
  <2> QED BY <2>1, <2>2, CrossesAnswers
<1>25. ASSUME NEW q \in asked, CreateAnswered(q)
      PROVE  AnswerInv'
  <2>1. Undisturbed({})
    BY <1>25, Balances
  <2>2. LoadThreads(answers) /\ answers \in SUBSET Answer
    BY <1>25 DEF CreateAnswered, ThreadsOK, RequestsOK
  <2> QED BY <2>1, <2>2, LoadAnswers
<1>26. ASSUME NEW q \in asked, LeaveAnswered(q)
      PROVE  AnswerInv'
  <2>1. Undisturbed({})
    BY <1>26, Balances
  <2>2. LoadThreads(answers) /\ answers \in SUBSET Answer
    BY <1>26 DEF LeaveAnswered, ThreadsOK, RequestsOK
  <2> QED BY <2>1, <2>2, LoadAnswers
<1>27. ASSUME NEW q \in asked, AskFailed(q)
      PROVE  AnswerInv'
  <2>1. Undisturbed({})
    BY <1>27, Balances
  <2>2. rev' = rev /\ \A b \in answers' : b.step = "read" => b \in answers
    BY <1>27 DEF AskFailed, Request
  <2> QED BY <2>1, <2>2, FewerAnswers
<1> QED BY <1>1, <1>2, <1>3, <1>4, <1>5, <1>6, <1>7, <1>8, <1>9, <1>10, <1>11, <1>12, <1>13,
       <1>14, <1>15, <1>16, <1>17, <1>18, <1>19, <1>20, <1>21, <1>22, <1>23, <1>24, <1>25,
       <1>26, <1>27 DEF ThreadNext

(* The counters shown. *)
LEMMA ListedStep ==
    ASSUME ThreadsOK, AnswerInv, ListedInv, ThreadNext
    PROVE  ListedInv'
<1>1. ASSUME NEW a \in answers, ReadAnswer(a)
      PROVE  ListedInv'
  <2>1. Undisturbed({})
    BY <1>1, Balances
  <2>2. /\ UNCHANGED <<threads, unread, last, outdated, timer, events, asked>>
        /\ skewed \subseteq skewed' /\ \A t \in Threads : Timing(t) => Timing(t)'
    BY <1>1 DEF ReadAnswer, Timing, screenVars
  <2>3. threads \subseteq Threads /\ (Reload => Reload')
    BY <2>2 DEF ThreadsOK, TabOK, Reload
  <2> QED BY <2>1, <2>2, <2>3, ListedKept
<1>2. ASSUME NEW a \in answers, ApplyThreads(a)
      PROVE  ListedInv'
  <2>1. Undisturbed({})
    BY <1>2, Balances
  <2>2. /\ a.only = Nobody /\ a.rev = rev /\ a.step = "read" /\ threads' = a.chats /\ unread' = a.count
        /\ skewed' = a.crossed /\ a \in Answer
    BY <1>2 DEF ApplyThreads, Newest, ThreadsOK, RequestsOK
  <2>3. ASSUME NEW t \in threads' \ skewed' PROVE Balanced(t, unread[t])'
    <3>1. t \in Threads /\ a.count[t] \in Nat
      <4>1. a.count \in Counter /\ a.chats \subseteq Threads
        BY <2>2 DEF Answer
      <4> QED BY <2>2, <2>3, <4>1, ThreadAssumption DEF Counter
    <3>2. Balanced(t, a.count[t])
      BY <2>2, <2>3, <3>1 DEF AnswerInv, Tells
    <3>3. Balanced(t, a.count[t])'
      BY <2>1, <3>1, <3>2 DEF Undisturbed
    <3> QED BY <2>2, <3>3, ShownBalance
  <2> QED BY <2>3 DEF ListedInv
<1>3. ASSUME NEW a \in answers, DropThreads(a)
      PROVE  ListedInv'
  <2>1. Undisturbed({})
    BY <1>3, Balances
  <2>2. /\ UNCHANGED <<threads, unread, last, outdated, timer, events, asked>>
        /\ skewed \subseteq skewed' /\ \A t \in Threads : Timing(t) => Timing(t)'
    BY <1>3 DEF DropThreads, Timing, screenVars
  <2>3. threads \subseteq Threads /\ (Reload => Reload')
    BY <2>2 DEF ThreadsOK, TabOK, Reload
  <2> QED BY <2>1, <2>2, <2>3, ListedKept
<1>4. ASSUME NEW a \in answers, RequestFailed(a)
      PROVE  ListedInv'
  <2>1. Undisturbed({})
    BY <1>4, Balances
  <2>2. /\ UNCHANGED <<threads, unread, timer, events, asked>> /\ skewed \subseteq skewed'
        /\ outdated' = TRUE \/ UNCHANGED <<last, outdated>>
        /\ \A s \in Threads : Timing(s) => Timing(s)'
    BY <1>4 DEF RequestFailed, Timing, screenVars
  <2>3. CASE outdated' = TRUE
    BY <2>3 DEF ListedInv, Reload
  <2>4. CASE UNCHANGED <<last, outdated>>
    <3>1. threads \subseteq Threads /\ (Reload => Reload')
      BY <2>2, <2>4 DEF ThreadsOK, TabOK, Reload
    <3> QED BY <2>1, <2>2, <2>4, <3>1, ListedKept
  <2> QED BY <2>2, <2>3, <2>4
<1>5. ASSUME NEW a \in answers, ApplyMembers(a)
      PROVE  ListedInv'
  <2>1. Undisturbed({})
    BY <1>5, Balances
  <2>2. UNCHANGED <<threads, last, outdated, timer, events, asked, reading>> /\ a \in Answer
        /\ a.step = "read" /\ a.only # Nobody
    BY <1>5 DEF ApplyMembers, screenVars, ThreadsOK, RequestsOK
  <2>3. threads \subseteq Threads /\ (Reload => Reload') /\ \A t \in Threads : Timing(t) => Timing(t)'
    BY <2>2 DEF ThreadsOK, TabOK, Reload, Timing
  <2>4. CASE a.only \notin threads
    <3>1. UNCHANGED <<unread, skewed>>
      BY <1>5, <2>4 DEF ApplyMembers
    <3> QED BY <2>1, <2>2, <2>3, <3>1, ListedKept
  <2>5. CASE a.only \in threads
    <3>1. unread' = [unread EXCEPT ![a.only] = a.count[a.only]]
          /\ skewed' = (skewed \ {a.only}) \union (a.crossed \intersect {a.only})
          /\ unread \in Counter /\ a.only \in Threads /\ a.count[a.only] \in Nat
      <4>1. a.count \in Counter
        BY <2>2 DEF Answer
      <4> QED BY <1>5, <2>3, <2>5, <4>1, ThreadAssumption DEF ApplyMembers, ThreadsOK, TabOK,
         Counter
    <3>2. ASSUME NEW t \in threads' \ skewed', t = a.only PROVE Balanced(t, unread[t])'
      <4>1. Balanced(t, a.count[t])
        BY <2>2, <2>3, <2>5, <3>1, <3>2 DEF AnswerInv, Tells
      <4>2. Balanced(t, a.count[t])'
        BY <2>1, <3>1, <3>2, <4>1 DEF Undisturbed
      <4>3. unread'[t] = a.count[t]
        BY <3>1, <3>2 DEF Counter
      <4> QED BY <4>2, <4>3, ShownBalance
    <3>3. \A t \in threads' \ skewed' : t # a.only => t \in threads \ skewed /\ unread'[t] = unread[t]
      BY <2>2, <2>3, <3>1 DEF Counter
    <3> QED BY <2>1, <2>2, <2>3, <3>2, <3>3, ListedKept
  <2> QED BY <2>4, <2>5
<1>6. CASE ReloadTimer
  BY <1>6 DEF ReloadTimer, LoadThreads, ListedInv
<1>7. ASSUME NEW t \in Threads, LoadMembers(t)
      PROVE  ListedInv'
  <2>1. Undisturbed({})
    BY <1>7, Balances
  <2>2. /\ UNCHANGED <<threads, unread, last, outdated, timer, events, asked>>
        /\ skewed \subseteq skewed' /\ \A s \in Threads : Timing(s) => Timing(s)'
    BY <1>7 DEF LoadMembers, Timing, screenVars
  <2>3. threads \subseteq Threads /\ (Reload => Reload')
    BY <2>2 DEF ThreadsOK, TabOK, Reload
  <2> QED BY <2>1, <2>2, <2>3, ListedKept
<1>8. ASSUME NEW t \in Threads, OthersWrite(t)
      PROVE  ListedInv'
  <2>1. Undisturbed({})
    BY <1>8, Balances
  <2>2. /\ UNCHANGED <<threads, unread, last, outdated, timer, asked, skewed>>
        /\ events' = Append(events, Notice(t)) /\ \A s \in Threads : Timing(s) => Timing(s)'
    BY <1>8 DEF OthersWrite, Tell, Notice, Timing, screenVars, listVars
  <2>3. Notice(t) \in Frame /\ events \in Seq(Frame)
    BY DEF Frame, Notice, ThreadsOK, EventsOK
  <2>4. ToSet(events') = ToSet(events) \union {Notice(t)}
    BY <2>2, <2>3, TimesAppended
  <2>5. threads \subseteq Threads /\ (Reload => Reload')
    BY <2>2, <2>4 DEF ThreadsOK, TabOK, Reload
  <2> QED BY <2>1, <2>2, <2>5, ListedKept
<1>9. ASSUME NEW t \in Threads, OthersInvite(t)
      PROVE  ListedInv'
  <2>1. events' = Append(events, [event |-> "updated", thread |-> t])
        /\ [event |-> "updated", thread |-> t] \in Frame /\ events \in Seq(Frame)
    BY <1>9 DEF OthersInvite, Tell, Frame, ThreadsOK, EventsOK
  <2>2. [event |-> "updated", thread |-> t] \in ToSet(events')
    BY <2>1, TimesAppended
  <2> QED BY <2>2 DEF ListedInv, Reload
<1>10. ASSUME NEW t \in Threads, OthersRemove(t)
      PROVE  ListedInv'
  <2>1. events' = Append(events, [event |-> "removed", thread |-> t])
        /\ [event |-> "removed", thread |-> t] \in Frame /\ events \in Seq(Frame)
    BY <1>10 DEF OthersRemove, Tell, Frame, ThreadsOK, EventsOK
  <2>2. [event |-> "removed", thread |-> t] \in ToSet(events')
    BY <2>1, TimesAppended
  <2> QED BY <2>2 DEF ListedInv, Reload
<1>11. CASE OnUpdated
  BY <1>11 DEF OnUpdated, ListedInv, Reload
<1>12. CASE OnMessage
  <2>1. PICK t \in Threads : t = Head(events).thread
    BY <1>12, FramesOK DEF OnMessage
  <2>2. CASE t \notin threads
    BY <1>12, <2>1, <2>2 DEF OnMessage, LoadThreads, ListedInv
  <2>3. CASE t \in threads
    <3>1. Undisturbed({})
      BY <1>12, <2>1, <2>3, Imbalances
    <3>2. /\ UNCHANGED <<threads, unread, last, outdated, timer, asked, skewed>> /\ events # <<>>
          /\ Head(events).event = "message" /\ events' = Tail(events) /\ events \in Seq(Frame)
          /\ \A s \in Threads : Timing(s) => Timing(s)'
      BY <1>12, <2>1, <2>3 DEF OnMessage, Timing, screenVars, ThreadsOK, EventsOK
    <3>3. ToSet(events) = ToSet(events') \union {Head(events)}
      BY <3>2, TimesDropped
    <3>4. threads \subseteq Threads /\ (Reload => Reload')
      BY <3>2, <3>3 DEF ThreadsOK, TabOK, Reload
    <3> QED BY <3>1, <3>2, <3>4, ListedKept
  <2> QED BY <2>2, <2>3
<1>13. ASSUME NEW i \in incoming, Decrypted(i)
      PROVE  ListedInv'
  <2> DEFINE t == i.thread
             onScreen == active = t /\ ~hidden
  <2>1. Undisturbed(IF i.fresh THEN {} ELSE {t})
    BY <1>13, Imbalances
  <2>2. /\ UNCHANGED <<threads, last, outdated, timer, events, asked, count>> /\ incoming' = incoming \ {i}
        /\ skewed' = skewed \union (IF i.stale THEN {t} ELSE {})
                             \union (IF onScreen THEN Forgotten(t, reading) ELSE {})
        /\ reading' = IF onScreen THEN MarkReadSoon(t, reading) ELSE reading
        /\ unread' = IF ~onScreen /\ Counted(i) /\ unread[t] < 2 * MaxArrivals
                        THEN [unread EXCEPT ![t] = @ + 1] ELSE unread
        /\ i.step = "decoding" /\ i \in Incoming /\ t \in Threads
    BY <1>13 DEF Decrypted, ThreadsOK, RunsOK, Incoming, serverVars
  <2>3. threads \subseteq Threads /\ (Reload => Reload') /\ unread \in Counter
    BY <2>2 DEF ThreadsOK, TabOK, Reload
  <2>4. ASSUME NEW s \in threads' \ skewed', Timing(s) PROVE Timing(s)'
    <3>1. CASE onScreen
      <4>1. s = t
        BY <2>2, <2>3, <2>4, <3>1, TimerForgets
      <4> QED BY <2>2, <3>1, <4>1 DEF Timing, MarkReadSoon
    <3>2. CASE ~onScreen
      BY <2>2, <2>4, <3>2 DEF Timing
    <3> QED BY <3>1, <3>2
  <2>5. \A s \in Threads \ {t} : unread'[s] = unread[s]
    BY <2>2, <2>3 DEF Counter
  <2>6. CASE i.fresh
    <3>1. unread' = unread
      BY <2>2, <2>6 DEF Counted
    <3> QED BY <2>1, <2>2, <2>3, <2>4, <2>6, <3>1, ListedKept
  <2>7. CASE ~i.fresh
    <3>1. ASSUME \A s \in threads \ skewed : Timing(s) \/ Balanced(s, unread[s]), t \in threads' \ skewed'
          PROVE  (Timing(t) \/ Balanced(t, unread[t]))'
      <4>1. ~i.stale /\ t \in threads \ skewed
        BY <2>2, <3>1
      <4>2. i = Run(t)
        <5>1. i.rev = 0 /\ i.fresh = FALSE /\ i.stale = FALSE
          BY <2>2, <2>7, <4>1 DEF ThreadsOK, RunsOK, Incoming
        <5> QED BY <2>2, <5>1 DEF Run, Incoming
      <4>3. CASE onScreen
        BY <2>2, <4>3 DEF Timing, MarkReadSoon
      <4>4. CASE Timing(t)
        BY <2>4, <3>1, <4>4
      <4>5. CASE ~onScreen /\ (Posting(t) \/ Mislaid(t))
        <5>1. Posting(t)' \/ Mislaid(t)'
          BY <2>2, <4>1, <4>5 DEF Posting, Mislaid
        <5> QED BY <5>1 DEF Balanced
      <4>6. CASE ~onScreen /\ count[t] = unread[t] + Owed(t)
        <5>1. Times(events, Notice(t)) \in Nat /\ unread[t] \in Nat /\ count[t] \in 0 .. 2 * MaxArrivals
          BY <2>2, <2>3, EventsOwed, ThreadAssumption DEF ThreadsOK, ServerOK, Counter
        <5>2. Owed(t) = Times(events, Notice(t)) + 1
          BY <4>2 DEF Owed
        <5>3. unread[t] < 2 * MaxArrivals
          BY <4>6, <5>1, <5>2, ThreadAssumption
        <5>4. unread'[t] = unread[t] + 1
          BY <2>2, <2>3, <2>7, <4>1, <4>6, <5>3 DEF Counted, Counter
        <5>5. Run(t) \notin incoming'
          BY <2>2, <4>2
        <5>6. count'[t] = unread'[t] + Times(events', Notice(t))
          BY <2>2, <4>6, <5>1, <5>2, <5>4
        <5>7. Times(events', Notice(t)) + 0 = Times(events', Notice(t))
          BY <2>2, <5>1
        <5> QED BY <5>5, <5>6, <5>7 DEF Balanced, Owed, Notice, Run
      <4> QED BY <3>1, <4>1, <4>3, <4>4, <4>5, <4>6 DEF Balanced
    <3> HIDE DEF onScreen
    <3> QED BY <2>1, <2>2, <2>3, <2>4, <2>5, <2>7, <3>1, ListedKept
  <2> QED BY <2>6, <2>7
<1>14. CASE Disconnected
  BY <1>14 DEF Disconnected, ListedInv, Reload
<1>15. ASSUME NEW t \in Threads, PickThread(t)
      PROVE  ListedInv'
  <2>1. Undisturbed({})
    BY <1>15, Balances
  <2>2. /\ UNCHANGED <<threads, unread, last, outdated, timer, events, asked>>
        /\ skewed \subseteq skewed' /\ \A s \in Threads : Timing(s) => Timing(s)'
    BY <1>15 DEF PickThread, ShowThread, Timing, listVars
  <2>3. threads \subseteq Threads /\ (Reload => Reload')
    BY <2>2 DEF ThreadsOK, TabOK, Reload
  <2> QED BY <2>1, <2>2, <2>3, ListedKept
<1>16. CASE BackToList
  <2>1. Undisturbed({})
    BY <1>16, Balances
  <2>2. /\ UNCHANGED <<threads, unread, last, outdated, timer, events, asked>>
        /\ skewed \subseteq skewed' /\ \A t \in Threads : Timing(t) => Timing(t)'
    BY <1>16 DEF BackToList, Timing, listVars
  <2>3. threads \subseteq Threads /\ (Reload => Reload')
    BY <2>2 DEF ThreadsOK, TabOK, Reload
  <2> QED BY <2>1, <2>2, <2>3, ListedKept
<1>17. CASE Visibility
  <2>1. Undisturbed({})
    BY <1>17, Balances
  <2>2. UNCHANGED <<threads, unread, last, outdated, timer, events, asked>>
    BY <1>17 DEF Visibility, listVars
  <2>3. threads \subseteq Threads /\ (Reload => Reload')
    BY <2>2 DEF ThreadsOK, TabOK, Reload
  <2>4. CASE UNCHANGED <<reading, skewed>>
    BY <2>1, <2>2, <2>3, <2>4, ListedKept DEF Timing
  <2>5. CASE active \in Threads /\ reading' = MarkReadSoon(active, reading)
             /\ skewed' = skewed \union Forgotten(active, reading)
    <3>1. ASSUME NEW t \in threads' \ skewed', Timing(t) PROVE Timing(t)'
      <4>1. t = active
        BY <2>2, <2>3, <2>5, <3>1, TimerForgets
      <4> QED BY <2>5, <4>1 DEF Timing, MarkReadSoon
    <3> QED BY <2>1, <2>2, <2>3, <2>5, <3>1, ListedKept
  <2> QED BY <1>17, <2>4, <2>5 DEF Visibility, ThreadsOK, ScreenOK
<1>18. CASE MarkAllRead
  <2>1. Undisturbed({})
    BY <1>18, Balances
  <2> DEFINE marked == {t \in threads : unread[t] > 0}
  <2>2. /\ UNCHANGED <<threads, last, outdated, timer, events, asked, skewed>>
        /\ unread' = [t \in Threads |-> IF t \in marked THEN 0 ELSE unread[t]]
        /\ reading' = reading \union {[thread |-> t, step |-> "post"] : t \in marked}
    BY <1>18 DEF MarkAllRead
  <2>3. threads \subseteq Threads /\ (Reload => Reload') /\ \A t \in Threads : Timing(t) => Timing(t)'
    BY <2>2 DEF ThreadsOK, TabOK, Reload, Timing
  <2>4. \A t \in marked : Balanced(t, unread[t])'
    BY <2>2 DEF Balanced, Posting
  <2>5. \A t \in Threads \ marked : unread'[t] = unread[t]
    BY <2>2
  <2> HIDE DEF marked
  <2> QED BY <2>1, <2>2, <2>3, <2>4, <2>5, ListedKept
<1>19. ASSUME NEW r \in reading, OpenedThread(r)
      PROVE  ListedInv'
  <2>1. Undisturbed({})
    BY <1>19, Balances
  <2>2. UNCHANGED <<threads, unread, last, outdated, timer, events, asked>>
    BY <1>19 DEF OpenedThread, listVars
  <2>3. threads \subseteq Threads /\ (Reload => Reload')
    BY <2>2 DEF ThreadsOK, TabOK, Reload
  <2>4. r.thread \in Threads /\ reading' = MarkReadSoon(r.thread, reading \ {r})
             /\ skewed' = skewed \union Forgotten(r.thread, reading)
    BY <1>19 DEF OpenedThread, ThreadsOK, ScreenOK
  <2>5. ASSUME NEW t \in threads' \ skewed', Timing(t) PROVE Timing(t)'
    <3>1. t = r.thread
      BY <2>2, <2>3, <2>4, <2>5, TimerForgets
    <3> QED BY <2>4, <3>1 DEF Timing, MarkReadSoon
  <2> QED BY <2>1, <2>2, <2>3, <2>4, <2>5, ListedKept
<1>20. ASSUME NEW r \in reading, ReadTimer(r)
      PROVE  ListedInv'
  <2>1. Undisturbed({})
    BY <1>20, Balances
  <2>2. UNCHANGED <<threads, last, outdated, timer, events, asked>> /\ r.thread \in Threads
    BY <1>20 DEF ReadTimer, ThreadsOK, ScreenOK
  <2>3. threads \subseteq Threads /\ (Reload => Reload') /\ unread \in Counter
    BY <2>2 DEF ThreadsOK, TabOK, Reload
  <2>4. \A t \in Threads : t # r.thread /\ Timing(t) => Timing(t)'
    BY <1>20 DEF ReadTimer, Timing
  <2>5. CASE r.thread \in threads /\ ~hidden /\ active = r.thread
    <3>1. unread' = [unread EXCEPT ![r.thread] = 0] /\ skewed' = skewed
          /\ reading' = (reading \ {r}) \union {[r EXCEPT !.step = "post"]}
      BY <1>20, <2>5 DEF ReadTimer
    <3>2. [r EXCEPT !.step = "post"] = [thread |-> r.thread, step |-> "post"]
      BY DEF ThreadsOK, ScreenOK
    <3>3. Balanced(r.thread, unread[r.thread])'
      BY <3>1, <3>2 DEF Balanced, Posting
    <3>4. \A t \in Threads \ {r.thread} : unread'[t] = unread[t]
      BY <2>3, <3>1 DEF Counter
    <3> QED BY <2>1, <2>2, <2>3, <2>4, <3>1, <3>3, <3>4, ListedKept
  <2>6. CASE ~(r.thread \in threads /\ ~hidden /\ active = r.thread)
    <3>1. unread' = unread /\ skewed' = skewed \union {r.thread}
      BY <1>20, <2>6 DEF ReadTimer
    <3> QED BY <2>1, <2>2, <2>3, <2>4, <3>1, ListedKept
  <2> QED BY <2>5, <2>6
<1>21. ASSUME NEW r \in reading, ServerRead(r)
      PROVE  ListedInv'
  <2>1. Undisturbed({r.thread})
    BY <1>21, Imbalances
  <2>2. UNCHANGED <<threads, unread, last, outdated, timer, events, asked, incoming>> /\ skewed \subseteq skewed'
        /\ r.thread \in Threads /\ count' = [count EXCEPT ![r.thread] = 0]
    BY <1>21 DEF ServerRead, ThreadsOK, ScreenOK
  <2>3. threads \subseteq Threads /\ (Reload => Reload') /\ \A t \in Threads : Timing(t) => Timing(t)'
    BY <1>21, <2>2 DEF ServerRead, ThreadsOK, TabOK, Reload, Timing
  <2>4. ASSUME r.thread \notin skewed' PROVE Balanced(r.thread, unread[r.thread])'
    <3>1. unread[r.thread] = 0 /\ (\A e \in ToSet(events) : e.thread # r.thread)
          /\ \A i \in incoming : i.thread # r.thread
      BY <1>21, <2>4 DEF ServerRead
    <3>2. Notice(r.thread) \notin ToSet(events) /\ Run(r.thread) \notin incoming
      BY <3>1 DEF Notice, Run
    <3>3. Times(events, Notice(r.thread)) = 0
      BY <2>2, <3>2, EventsOwed
    <3>4. count'[r.thread] = 0
      BY <2>2 DEF ThreadsOK, ServerOK, Counter
    <3> QED BY <2>2, <3>1, <3>2, <3>3, <3>4 DEF Balanced, Owed, Notice, Run
  <2> QED BY <2>1, <2>2, <2>3, <2>4, ListedKept
<1>22. ASSUME NEW r \in reading, ReadFailed(r)
      PROVE  ListedInv'
  <2>1. Undisturbed({r.thread})
    BY <1>22, Imbalances
  <2>2. UNCHANGED <<threads, unread, last, outdated, timer, events, asked>> /\ skewed' = skewed \union {r.thread}
    BY <1>22 DEF ReadFailed
  <2>3. threads \subseteq Threads /\ (Reload => Reload') /\ \A t \in Threads : Timing(t) => Timing(t)'
    BY <1>22, <2>2 DEF ReadFailed, ThreadsOK, TabOK, Reload, Timing
  <2> QED BY <2>1, <2>2, <2>3, ListedKept
<1>23. ASSUME NEW t \in Threads, NEW w \in {"create", "leave"}, AskFor(w, t)
      PROVE  ListedInv'
  <2>1. Undisturbed({})
    BY <1>23, Balances
  <2>2. /\ UNCHANGED <<threads, unread, last, outdated, timer, events, skewed>> /\ asked \subseteq asked'
        /\ \A s \in Threads : Timing(s) => Timing(s)'
    BY <1>23 DEF AskFor, Timing, screenVars, listVars
  <2>3. threads \subseteq Threads /\ (Reload => Reload')
    BY <2>2 DEF ThreadsOK, TabOK, Reload
  <2> QED BY <2>1, <2>2, <2>3, ListedKept
<1>24. ASSUME NEW q \in asked, ServerDoes(q)
      PROVE  ListedInv'
  <2>1. [q EXCEPT !.step = "done"] \in asked' /\ [q EXCEPT !.step = "done"].step = "done"
    BY <1>24 DEF ServerDoes, ThreadsOK
  <2> QED BY <2>1 DEF ListedInv, Reload
<1>25. ASSUME NEW q \in asked, CreateAnswered(q)
      PROVE  ListedInv'
  BY <1>25 DEF CreateAnswered, LoadThreads, ListedInv
<1>26. ASSUME NEW q \in asked, LeaveAnswered(q)
      PROVE  ListedInv'
  BY <1>26 DEF LeaveAnswered, LoadThreads, ListedInv
<1>27. ASSUME NEW q \in asked, AskFailed(q)
      PROVE  ListedInv'
  <2>1. Undisturbed({})
    BY <1>27, Balances
  <2>2. /\ UNCHANGED <<threads, unread, last, timer, events, skewed>> /\ asked' = asked \ {q}
        /\ outdated' = (outdated \/ q.step = "done") /\ \A s \in Threads : Timing(s) => Timing(s)'
    BY <1>27 DEF AskFailed, Timing, screenVars
  <2>3. threads \subseteq Threads /\ (Reload => Reload')
    BY <2>2 DEF ThreadsOK, TabOK, Reload
  <2> QED BY <2>1, <2>2, <2>3, ListedKept
<1> QED BY <1>1, <1>2, <1>3, <1>4, <1>5, <1>6, <1>7, <1>8, <1>9, <1>10, <1>11, <1>12, <1>13,
       <1>14, <1>15, <1>16, <1>17, <1>18, <1>19, <1>20, <1>21, <1>22, <1>23, <1>24, <1>25,
       <1>26, <1>27 DEF ThreadNext

----------------------------------------------------------------------------
ThreadInv == ThreadsOK /\ NewestInv /\ MemberInv /\ AnswerInv /\ ListedInv

\* It holds at first,
LEMMA ThreadInitial == ThreadInit => ThreadInv
<1> SUFFICES ASSUME ThreadInit PROVE ThreadInv
  OBVIOUS
<1>1. [t \in Threads |-> 0] \in Counter
  BY ThreadAssumption DEF Counter
<1>2. 1 \in 0 .. MaxListed /\ 0 \in 0 .. MaxArrivals /\ 0 \in 0 .. MaxChanges
  BY ThreadAssumption
<1>3. Request(1, Nobody) \in Answer /\ Request(1, Nobody).only = Nobody /\ Request(1, Nobody).rev = 1
      /\ Request(1, Nobody).step = "sent"
  BY <1>1, <1>2 DEF Request, Answer
<1>4. ServerOK
  BY <1>1, <1>2, ThreadAssumption DEF ThreadInit, ServerOK
<1>5. TabOK /\ ScreenOK /\ AskedOK /\ EventsOK /\ RunsOK
  <2>1. <<>> \in Seq(Frame) /\ FALSE \in BOOLEAN
    OBVIOUS
  <2>2. EventsOK
    BY <2>1 DEF ThreadInit, EventsOK
  <2>3. TabOK
    BY <1>1 DEF ThreadInit, TabOK
  <2>4. ScreenOK
    BY <2>1 DEF ThreadInit, ScreenOK
  <2> QED BY <2>2, <2>3, <2>4 DEF ThreadInit, AskedOK, RunsOK
<1>6. RequestsOK
  BY <1>2, <1>3 DEF ThreadInit, RequestsOK
<1>7. NewestInv
  BY <1>3 DEF ThreadInit, NewestInv, NewestOut, ListRequests
<1>8. MemberInv /\ ListedInv /\ AnswerInv
  BY <1>3 DEF ThreadInit, MemberInv, ListedInv, AnswerInv, NewestOut, ListRequests
<1> QED BY <1>4, <1>5, <1>6, <1>7, <1>8 DEF ThreadInv, ThreadsOK

\* and every step keeps it.
LEMMA ThreadStep == ThreadInv /\ [ThreadNext]_threadVars => ThreadInv'
<1>1. ASSUME ThreadInv, ThreadNext PROVE ThreadInv'
  <2>1. ThreadsOK'
    BY <1>1, ServerStep, TabStep, ScreenStep, RequestsStep, RunsStep, AskedStep, EventsStep DEF
       ThreadInv, ThreadsOK
  <2> QED BY <1>1, <2>1, NewestStep, MemberStep, AnswerStep, ListedStep DEF ThreadInv
<1>2. ASSUME ThreadInv, UNCHANGED threadVars PROVE ThreadInv'
  <2>1. ThreadsOK' /\ NewestInv' /\ MemberInv'
    BY <1>2 DEF ThreadInv, ThreadsOK, ServerOK, TabOK, ScreenOK, RequestsOK, RunsOK, AskedOK,
       EventsOK, NewestInv, MemberInv, NewestOut, ListRequests, Reload, threadVars, serverVars,
       screenVars, listVars
  <2>2. AnswerInv' /\ ListedInv'
    BY <1>2 DEF ThreadInv, AnswerInv, ListedInv, Tells, Balanced, Posting, Mislaid, Owed, Notice,
       Run, Timing, Reload, Times, Places, threadVars, serverVars, screenVars, listVars
  <2> QED BY <2>1, <2>2 DEF ThreadInv
<1> QED BY <1>1, <1>2

(* The variables of the list of chats stay within their types (data.js, the thread list). *)
THEOREM ThreadTypes == ThreadSpec => []ThreadTypeOK
<1>1. ThreadInv => ThreadTypeOK
  BY DEF ThreadInv, ThreadsOK, ServerOK, TabOK, ScreenOK, RequestsOK, RunsOK, AskedOK, EventsOK,
     ThreadTypeOK
<1> QED BY <1>1, ThreadInitial, ThreadStep, PTL DEF ThreadSpec

(* Once everything asked for has come, the list is the server's, and so are the counters    *)
(* that crossed nothing (data.js: only the newest answer of the list is applied).           *)
THEOREM ListIsCurrent == ThreadSpec => []ThreadsCurrent
<1>1. ASSUME ThreadInv, Settled, ~outdated PROVE threads = member
  <2>1. ~Reload /\ NewestOut = {}
    BY <1>1 DEF Settled, Reload, ToSet, NewestOut, ListRequests
  <2> QED BY <1>1, <2>1 DEF ThreadInv, MemberInv, NewestInv
<1>2. ASSUME ThreadInv, Settled, ~outdated, NEW t \in threads \ skewed PROVE unread[t] = count[t]
  <2>1. ~Reload /\ NewestOut = {}
    BY <1>2 DEF Settled, Reload, ToSet, NewestOut, ListRequests
  <2>2. last # "asked"
    BY <1>2, <2>1 DEF ThreadInv, NewestInv
  <2>3. Timing(t) \/ Balanced(t, unread[t])
    BY <1>2, <2>1, <2>2 DEF ThreadInv, ListedInv
  <2>4. t \in Threads /\ unread[t] \in Nat
    BY <1>2, ThreadAssumption DEF ThreadInv, ThreadsOK, TabOK, Counter
  <2>5. Notice(t) \notin ToSet(events)
    BY <1>2 DEF Settled, ToSet
  <2>6. Times(events, Notice(t)) = 0
    BY <1>2, <2>4, <2>5, EventsOwed DEF ThreadInv
  <2>7. count[t] = unread[t] + 0
    BY <1>2, <2>3, <2>6 DEF Settled, Timing, Balanced, Posting, Mislaid, Owed
  <2> QED BY <2>4, <2>7
<1>3. ThreadInv => ThreadsCurrent
  BY <1>1, <1>2 DEF ThreadsCurrent
<1> QED BY <1>3, ThreadInitial, ThreadStep, PTL DEF ThreadSpec
===============================================================================
