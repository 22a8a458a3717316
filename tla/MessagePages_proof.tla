-------------------------- MODULE MessagePages_proof --------------------------
(***************************************************************************)
(* A client that pages through a journal while messages are inserted sees  *)
(* them newest first, none twice, and misses at most ties: for any         *)
(* messages, clients, page size and faults.                                *)
(***************************************************************************)
EXTENDS MessagePages, MessageStore_proof

Paging(q) == q.pc \in {"more", "done"}

Reader == [pc : {"idle", "first", "more", "done"}, journal : Nat, cursor : Nat,
           shown : Seq(Messages), due : SUBSET Messages]

\* The cursor is below all that was shown, as the rows that follow must be.
CursorIsLowest(q) ==
  \A i \in DOMAIN q.shown : q.shown[i] \in Stored /\ sequence[q.shown[i]] >= q.cursor

InOrder(shown) ==
  \A i, k \in DOMAIN shown : i < k => /\ shown[i] # shown[k]
                                      /\ sequence[shown[i]] >= sequence[shown[k]]

\* A row with the number of m was shown, perhaps m.
Matched(q, m) == \E i \in DOMAIN q.shown : sequence[q.shown[i]] = sequence[m]

\* What was there when the client started is still ahead, or matched.
AheadOrMatched(q) ==
  \A m \in q.due :
    /\ m \in Stored /\ Journal[m] = q.journal
    /\ q.pc = "more" => sequence[m] < q.cursor \/ Matched(q, m)
    /\ q.pc = "done" => Matched(q, m)

ReaderInv(q) ==
  /\ q \in Reader
  /\ ~Paging(q) => q.shown = <<>>
  /\ q.pc = "idle" => q.due = {}
  /\ CursorIsLowest(q)
  /\ InOrder(q.shown)
  /\ AheadOrMatched(q)

PageInv ==
  /\ StoreInv
  /\ reader = [p \in Readers |-> reader[p]]
  /\ \A p \in Readers : ReaderInv(reader[p])
-----------------------------------------------------------------------------
(* Pages.                                                                  *)

LEMMA MinOfTwo ==
  ASSUME NEW a \in Nat, NEW b \in Nat
  PROVE  Min({a, b}) = IF a <= b THEN a ELSE b
<1>1. CASE a <= b
  BY <1>1 DEF Min
<1>2. CASE ~(a <= b)
  BY <1>2 DEF Min
<1> QED
  BY <1>1, <1>2

\* A page holds rows, none twice, the highest first and no row it leaves out
\* higher than one it has; it is empty only when there is no row.
LEMMA PageFacts ==
  ASSUME NEW rows \in SUBSET Messages, IsFiniteSet(rows), NEW page \in Pages(rows)
  PROVE  /\ page \in Seq(rows) /\ page \in Seq(Messages)
         /\ \A i, k \in DOMAIN page : i < k =>
              page[i] # page[k] /\ sequence[page[i]] >= sequence[page[k]]
         /\ \A m \in ToSet(page), n \in rows \ ToSet(page) : sequence[m] >= sequence[n]
         /\ page = <<>> => rows = {}
<1> DEFINE size == Min({PageLimit, Cardinality(rows)})
<1>1. Cardinality(rows) \in Nat
  BY FS_CardinalityType
<1>2. size \in Nat /\ (size = 0 => Cardinality(rows) = 0)
  BY <1>1, MinOfTwo, PageAssumption
<1>3. PICK S \in kSubset(size, rows) : page \in SetToSeqs(S)
  BY DEF Pages
<1>4. S \subseteq rows /\ Cardinality(S) = size
  BY <1>3 DEF kSubset
<1>5. /\ page \in [1 .. size -> S]
      /\ \A i, k \in 1 .. size : i # k => page[i] # page[k]
  BY <1>3, <1>4 DEF SetToSeqs
<1> HIDE DEF size
<1>6. page \in Seq(rows) /\ page \in Seq(Messages) /\ DOMAIN page = 1 .. size
  <2>1. page \in [1 .. size -> rows] /\ page \in [1 .. size -> Messages]
    BY <1>4, <1>5
  <2> QED
    BY <2>1, <1>2
<1>7. /\ \A i, k \in DOMAIN page : i < k => sequence[page[i]] >= sequence[page[k]]
      /\ \A m \in ToSet(page), n \in rows \ ToSet(page) : sequence[m] >= sequence[n]
  BY DEF Pages
<1>8. \A i, k \in DOMAIN page : i < k => page[i] # page[k]
  BY <1>2, <1>5, <1>6
<1>9. ASSUME page = <<>>
      PROVE  rows = {}
  <2>1. size = 0
    BY <1>2, <1>6, <1>9
  <2> QED
    BY <2>1, <1>2, FS_EmptySet
<1> QED
  BY <1>6, <1>7, <1>8, <1>9
-----------------------------------------------------------------------------
(* Steps.                                                                  *)

\* Inserts leave a reader as it was: rows stay, and so do their numbers.
LEMMA ReaderStays ==
  ASSUME NEW q, ReaderInv(q), Stored \subseteq Stored',
         \A m \in Stored : sequence'[m] = sequence[m]
  PROVE  /\ q \in Reader
         /\ ~Paging(q) => q.shown = <<>>
         /\ q.pc = "idle" => q.due = {}
         /\ \A i \in DOMAIN q.shown : q.shown[i] \in Stored' /\ sequence'[q.shown[i]] >= q.cursor
         /\ \A i, k \in DOMAIN q.shown : i < k =>
              q.shown[i] # q.shown[k] /\ sequence'[q.shown[i]] >= sequence'[q.shown[k]]
         /\ \A m \in q.due :
              /\ m \in Stored' /\ Journal[m] = q.journal
              /\ q.pc = "more" => \/ sequence'[m] < q.cursor
                                  \/ \E i \in DOMAIN q.shown : sequence'[q.shown[i]] = sequence'[m]
              /\ q.pc = "done" => \E i \in DOMAIN q.shown : sequence'[q.shown[i]] = sequence'[m]
<1>1. \A i \in DOMAIN q.shown : q.shown[i] \in Stored
  BY DEF ReaderInv, CursorIsLowest
<1>2. q.due \subseteq Stored
  BY DEF ReaderInv, AheadOrMatched
<1>3. \A i \in DOMAIN q.shown : sequence'[q.shown[i]] = sequence[q.shown[i]]
  BY <1>1
<1>4. \A m \in q.due : sequence'[m] = sequence[m]
  BY <1>2
<1> QED
  BY <1>1, <1>2, <1>3, <1>4
  DEF ReaderInv, CursorIsLowest, InOrder, AheadOrMatched, Matched

\* The rows that are listed are finitely many.
LEMMA OlderRows ==
  ASSUME StoreInv, NEW q
  PROVE  IsFiniteSet(Older(q)) /\ Older(q) \subseteq Stored /\ Stored \subseteq Messages
<1>1. Older(q) \subseteq Stored
  BY DEF Older
<1> QED
  BY <1>1, FS_Subset DEF StoreInv, Stored

\* A page that is appended continues what was shown.
LEMMA AppendedPage ==
  ASSUME StoreInv, NEW q, ReaderInv(q), q.pc \in {"first", "more"},
         NEW page \in Pages(Older(q)), page # <<>>
  PROVE  ReaderInv([q EXCEPT !.pc = "more", !.cursor = sequence[Last(page)],
                             !.shown = @ \o page])
<1> DEFINE rows == Older(q)
           r == [q EXCEPT !.pc = "more", !.cursor = sequence[Last(page)],
                          !.shown = @ \o page]
<1>1. /\ page \in Seq(rows) /\ page \in Seq(Messages)
      /\ \A i, k \in DOMAIN page : i < k =>
           page[i] # page[k] /\ sequence[page[i]] >= sequence[page[k]]
      /\ \A m \in ToSet(page), n \in rows \ ToSet(page) : sequence[m] >= sequence[n]
  BY OlderRows, PageFacts
<1>2. rows \subseteq Stored /\ Stored \subseteq Messages
  BY OlderRows
<1>3. sequence \in [Messages -> Nat]
  BY DEF StoreInv, RowTypes
<1>4. q \in Reader
  BY DEF ReaderInv
<1>5. \A m \in rows : q.pc = "more" => sequence[m] < q.cursor
  BY DEF Older
<1>6. \A m \in Stored : Journal[m] = q.journal /\ (q.pc = "more" => sequence[m] < q.cursor)
         => m \in rows
  BY DEF Older
<1> HIDE DEF rows
<1>7. /\ Len(page) \in Nat \ {0} /\ DOMAIN page = 1 .. Len(page)
      /\ Len(page) \in DOMAIN page
      /\ Last(page) = page[Len(page)] /\ Last(page) \in rows
  BY <1>1 DEF Last
<1>8. \A i \in DOMAIN page : /\ page[i] \in rows /\ page[i] \in Messages
                             /\ sequence[page[i]] >= sequence[Last(page)]
  <2> SUFFICES ASSUME NEW i \in DOMAIN page
               PROVE  /\ page[i] \in rows /\ page[i] \in Messages
                      /\ sequence[page[i]] >= sequence[Last(page)]
    OBVIOUS
  <2>1. page[i] \in rows /\ page[i] \in Messages
    BY <1>1, <1>2
  <2>2. CASE i < Len(page)
    BY <2>2, <1>1, <1>7
  <2>3. CASE i = Len(page)
    BY <2>1, <2>3, <1>3, <1>7
  <2> QED
    BY <2>1, <2>2, <2>3, <1>7
<1>9. /\ q.shown \in Seq(Messages) /\ page \in Seq(Messages)
      /\ q.shown \o page \in Seq(Messages)
      /\ sequence[Last(page)] \in Nat
  BY <1>1, <1>2, <1>3, <1>4, <1>7 DEF Reader
<1>10. /\ r \in Reader /\ r.pc = "more" /\ r.journal = q.journal /\ r.due = q.due
       /\ r.cursor = sequence[Last(page)] /\ r.shown = q.shown \o page
  BY <1>4, <1>9 DEF Reader
<1> HIDE DEF r
<1>11. q.pc = "first" => q.shown = <<>>
  BY DEF ReaderInv, Paging
<1>12. /\ Len(q.shown) \in Nat /\ DOMAIN q.shown = 1 .. Len(q.shown)
       /\ DOMAIN r.shown = 1 .. Len(q.shown) + Len(page)
       /\ \A i \in 1 .. Len(q.shown) + Len(page) :
            r.shown[i] = IF i <= Len(q.shown) THEN q.shown[i] ELSE page[i - Len(q.shown)]
  BY <1>7, <1>9, <1>10
<1>13. /\ \A i \in DOMAIN r.shown :
            \/ i \in DOMAIN q.shown /\ r.shown[i] = q.shown[i]
            \/ /\ i > Len(q.shown) /\ i - Len(q.shown) \in DOMAIN page
               /\ r.shown[i] = page[i - Len(q.shown)]
       /\ \A i \in DOMAIN page : \E k \in DOMAIN r.shown : r.shown[k] = page[i]
  <2>1. ASSUME NEW i \in DOMAIN page
        PROVE  Len(q.shown) + i \in DOMAIN r.shown /\ r.shown[Len(q.shown) + i] = page[i]
    <3> DEFINE k == Len(q.shown) + i
    <3>1. /\ i \in Nat /\ k \in 1 .. Len(q.shown) + Len(page)
          /\ ~(k <= Len(q.shown)) /\ k - Len(q.shown) = i
      BY <1>7, <1>12
    <3> HIDE DEF k
    <3>2. k \in DOMAIN r.shown /\ r.shown[k] = page[i]
      BY <3>1, <1>12
    <3> QED
      BY <3>2 DEF k
  <2>2. \A i \in DOMAIN page : \E k \in DOMAIN r.shown : r.shown[k] = page[i]
    BY <2>1
  <2>3. ASSUME NEW i \in DOMAIN r.shown
        PROVE  \/ i \in DOMAIN q.shown /\ r.shown[i] = q.shown[i]
               \/ /\ i > Len(q.shown) /\ i - Len(q.shown) \in DOMAIN page
                  /\ r.shown[i] = page[i - Len(q.shown)]
    <3>1. i \in Nat /\ 1 <= i /\ i <= Len(q.shown) + Len(page)
      BY <1>7, <1>12
    <3>2. CASE i <= Len(q.shown)
      BY <3>1, <3>2, <1>12
    <3>3. CASE i > Len(q.shown)
      <4>1. i - Len(q.shown) \in DOMAIN page
        BY <3>1, <3>3, <1>7, <1>12
      <4> QED
        BY <3>1, <3>3, <4>1, <1>12
    <3> QED
      BY <3>1, <3>2, <3>3, <1>12
  <2> QED
    BY <2>2, <2>3
<1>14. \A i \in DOMAIN q.shown : /\ i \in DOMAIN r.shown /\ r.shown[i] = q.shown[i]
                                 /\ q.shown[i] \in Stored /\ q.shown[i] \in Messages
                                 /\ sequence[q.shown[i]] >= q.cursor
  <2>1. \A i \in DOMAIN q.shown : i \in DOMAIN r.shown /\ r.shown[i] = q.shown[i]
    BY <1>7, <1>12
  <2>2. \A i \in DOMAIN q.shown : /\ q.shown[i] \in Stored
                                  /\ sequence[q.shown[i]] >= q.cursor
    BY DEF ReaderInv, CursorIsLowest
  <2> QED
    BY <2>1, <2>2, <1>2
<1>15. \A i \in DOMAIN q.shown, k \in DOMAIN page : sequence[q.shown[i]] > sequence[page[k]]
  <2> SUFFICES ASSUME NEW i \in DOMAIN q.shown, NEW k \in DOMAIN page
               PROVE  sequence[q.shown[i]] > sequence[page[k]]
    OBVIOUS
  <2>1. q.pc = "more"
    BY <1>11
  <2>2. /\ sequence[page[k]] < q.cursor /\ sequence[q.shown[i]] >= q.cursor
        /\ sequence[page[k]] \in Nat /\ sequence[q.shown[i]] \in Nat /\ q.cursor \in Nat
    BY <2>1, <1>3, <1>4, <1>5, <1>8, <1>14 DEF Reader
  <2> QED
    BY <2>2
<1>16. CursorIsLowest(r)
  <2> SUFFICES ASSUME NEW i \in DOMAIN r.shown
               PROVE  r.shown[i] \in Stored /\ sequence[r.shown[i]] >= sequence[Last(page)]
    BY <1>9, <1>10 DEF CursorIsLowest
  <2>1. CASE i \in DOMAIN q.shown /\ r.shown[i] = q.shown[i]
    <3>1. sequence[q.shown[i]] > sequence[page[Len(page)]]
      BY <2>1, <1>7, <1>15
    <3> QED
      BY <2>1, <3>1, <1>3, <1>7, <1>8, <1>14
  <2>2. CASE i - Len(q.shown) \in DOMAIN page /\ r.shown[i] = page[i - Len(q.shown)]
    BY <2>2, <1>2, <1>8
  <2> QED
    BY <2>1, <2>2, <1>13
<1>17. InOrder(r.shown)
  <2> SUFFICES ASSUME NEW i \in DOMAIN r.shown, NEW k \in DOMAIN r.shown, i < k
               PROVE  /\ r.shown[i] # r.shown[k]
                      /\ sequence[r.shown[i]] >= sequence[r.shown[k]]
    BY DEF InOrder
  <2>1. i \in Nat /\ k \in Nat /\ DOMAIN q.shown = 1 .. Len(q.shown) /\ Len(q.shown) \in Nat
    BY <1>12
  <2>2. CASE k \in DOMAIN q.shown
    <3>1. i \in DOMAIN q.shown
      BY <2>1, <2>2, <1>13
    <3> QED
      BY <2>2, <3>1, <1>14 DEF ReaderInv, InOrder
  <2>3. CASE i \in DOMAIN q.shown /\ k \notin DOMAIN q.shown
    <3>1. sequence[r.shown[i]] > sequence[r.shown[k]]
      BY <2>3, <1>13, <1>14, <1>15
    <3>2. r.shown[i] \in Messages /\ r.shown[k] \in Messages
      BY <1>9, <1>10
    <3> QED
      BY <3>1, <3>2, <1>3
  <2>4. CASE i \notin DOMAIN q.shown /\ k \notin DOMAIN q.shown
    <3>1. /\ i - Len(q.shown) \in DOMAIN page /\ r.shown[i] = page[i - Len(q.shown)]
          /\ k - Len(q.shown) \in DOMAIN page /\ r.shown[k] = page[k - Len(q.shown)]
      BY <2>4, <1>13
    <3>2. i - Len(q.shown) < k - Len(q.shown)
      BY <2>1
    <3> QED
      BY <3>1, <3>2, <1>1
  <2>5. CASE i \notin DOMAIN q.shown /\ k \in DOMAIN q.shown
    BY <2>2, <2>5
  <2> QED
    BY <2>2, <2>3, <2>4, <2>5
<1>18. AheadOrMatched(r)
  <2> SUFFICES ASSUME NEW m \in q.due
               PROVE  /\ m \in Stored /\ Journal[m] = q.journal
                      /\ sequence[m] < sequence[Last(page)] \/ Matched(r, m)
    BY <1>9, <1>10 DEF AheadOrMatched
  <2>1. /\ m \in Stored /\ Journal[m] = q.journal
        /\ q.pc = "more" => sequence[m] < q.cursor \/ Matched(q, m)
    BY DEF ReaderInv, AheadOrMatched
  <2>2. CASE m \in rows /\ m \in ToSet(page)
    <3>1. PICK i \in DOMAIN page : page[i] = m
      BY <2>2 DEF ToSet
    <3> QED
      BY <2>1, <3>1, <1>13 DEF Matched
  <2>3. CASE m \in rows /\ m \notin ToSet(page)
    <3>1. Last(page) \in ToSet(page)
      BY <1>7 DEF ToSet
    <3>2. sequence[Last(page)] >= sequence[m]
      BY <2>3, <3>1, <1>1
    <3>3. sequence[m] \in Nat
      BY <2>1, <1>2, <1>3
    <3>4. CASE sequence[m] = sequence[Last(page)]
      <4>1. PICK k \in DOMAIN r.shown : r.shown[k] = Last(page)
        BY <1>7, <1>13
      <4> QED
        BY <2>1, <3>4, <4>1 DEF Matched
    <3> QED
      BY <2>1, <3>2, <3>3, <3>4, <1>9, <1>10
  <2>4. CASE m \notin rows
    <3>1. Matched(q, m)
      BY <2>1, <2>4, <1>6
    <3>2. Matched(r, m)
      BY <3>1, <1>14 DEF Matched
    <3> QED
      BY <2>1, <3>2
  <2> QED
    BY <2>2, <2>3, <2>4
<1> QED
  BY <1>10, <1>16, <1>17, <1>18 DEF ReaderInv, Paging, r

\* An empty page: nothing was ahead.
LEMMA EmptyPage ==
  ASSUME StoreInv, NEW q, ReaderInv(q), q.pc \in {"first", "more"},
         <<>> \in Pages(Older(q))
  PROVE  ReaderInv([q EXCEPT !.pc = "done"])
<1> DEFINE r == [q EXCEPT !.pc = "done"]
<1>1. Older(q) = {}
  BY OlderRows, PageFacts
<1>2. q \in Reader
  BY DEF ReaderInv
<1>3. r = [pc |-> "done", journal |-> q.journal, cursor |-> q.cursor,
           shown |-> q.shown, due |-> q.due]
  BY <1>2 DEF Reader
<1> HIDE DEF r
<1>4. r \in Reader
  BY <1>2, <1>3 DEF Reader
<1>5. CursorIsLowest(r) /\ InOrder(r.shown)
  BY <1>3 DEF ReaderInv, CursorIsLowest, InOrder
<1>6. AheadOrMatched(r)
  <2> SUFFICES ASSUME NEW m \in q.due
               PROVE  m \in Stored /\ Journal[m] = q.journal /\ Matched(q, m)
    BY <1>3 DEF AheadOrMatched, Matched
  <2>1. /\ m \in Stored /\ Journal[m] = q.journal
        /\ q.pc = "more" => sequence[m] < q.cursor \/ Matched(q, m)
    BY DEF ReaderInv, AheadOrMatched
  <2> QED
    BY <2>1, <1>1 DEF Older
<1> QED
  BY <1>3, <1>4, <1>5, <1>6 DEF ReaderInv, Paging, r

LEMMA PageInvNext == PageInv /\ [Next]_vars => PageInv'
<1> SUFFICES ASSUME PageInv, [Next]_vars
             PROVE  PageInv'
  OBVIOUS
<1>1. ASSUME NEW m \in Messages, Insert(m), UNCHANGED reader
      PROVE  PageInv'
  <2>1. /\ StoreInv'
        /\ Stored \subseteq Stored'
        /\ \A n \in Stored : sequence'[n] = sequence[n]
    BY <1>1, InsertKeeps DEF PageInv
  <2>2. ASSUME NEW p \in Readers
        PROVE  ReaderInv(reader[p])'
    <3>1. ReaderInv(reader[p])
      BY DEF PageInv
    <3> QED
      BY <3>1, <2>1, <1>1, ReaderStays
      DEF ReaderInv, CursorIsLowest, InOrder, AheadOrMatched, Matched
  <2> QED
    BY <2>1, <2>2, <1>1 DEF PageInv
<1>2. ASSUME NEW p \in Readers, UNCHANGED <<store, faults>>,
             NEW q, reader' = [reader EXCEPT ![p] = q], ReaderInv(q)
      PROVE  PageInv'
  <2>1. StoreInv' /\ Stored' = Stored /\ sequence' = sequence
    BY <1>2, StoreInvStutter DEF PageInv, store, Stored
  <2>2. /\ reader' = [s \in Readers |-> reader'[s]]
        /\ \A s \in Readers : reader'[s] = q \/ reader'[s] = reader[s]
    BY <1>2 DEF PageInv
  <2>3. \A s \in Readers : ReaderInv(reader'[s])
    BY <1>2, <2>2 DEF PageInv
  <2>4. \A s \in Readers : ReaderInv(reader[s])'
    BY <2>1, <2>3 DEF ReaderInv, CursorIsLowest, InOrder, AheadOrMatched, Matched
  <2> QED
    BY <2>1, <2>2, <2>4 DEF PageInv
<1>3. ASSUME NEW p \in Readers, NEW m \in Messages, Open(p, Journal[m])
      PROVE  PageInv'
  <2> DEFINE q == [reader[p] EXCEPT !.pc = "first", !.journal = Journal[m],
                     !.due = {n \in Stored : Journal[n] = Journal[m]}]
  <2>1. /\ reader[p].pc = "idle" /\ UNCHANGED <<store, faults>>
        /\ reader' = [reader EXCEPT ![p] = q]
    BY <1>3 DEF Open, PageInv
  <2>2. ReaderInv(reader[p]) /\ reader[p] \in Reader
    BY DEF PageInv, ReaderInv
  <2>3. /\ q \in Reader /\ q.pc = "first" /\ q.journal = Journal[m]
        /\ q.shown = reader[p].shown /\ q.due = {n \in Stored : Journal[n] = Journal[m]}
    <3>1. Stored \subseteq Messages /\ Journal[m] \in Nat
      BY MessageAssumption DEF Stored
    <3> QED
      BY <3>1, <2>2 DEF Reader
  <2>4. reader[p].shown = <<>>
    BY <2>1, <2>2 DEF ReaderInv, Paging
  <2>5. ReaderInv(q)
    <3> HIDE DEF q
    <3> QED
      BY <2>2, <2>3, <2>4
      DEF ReaderInv, Reader, Paging, CursorIsLowest, InOrder, AheadOrMatched
  <2> HIDE DEF q
  <2> QED
    BY <2>1, <2>5, <1>2
<1>4. ASSUME NEW p \in Readers, Fetch(p)
      PROVE  PageInv'
  <2>1. /\ reader[p].pc \in {"first", "more"} /\ UNCHANGED <<store, faults>>
        /\ ReaderInv(reader[p]) /\ StoreInv
    BY <1>4 DEF Fetch, PageInv
  <2>2. PICK page \in Pages(Older(reader[p])) :
          reader' = [reader EXCEPT ![p] =
            IF page = <<>> THEN [reader[p] EXCEPT !.pc = "done"]
            ELSE [reader[p] EXCEPT !.pc = "more", !.cursor = sequence[Last(page)],
                                   !.shown = @ \o page]]
    BY <1>4 DEF Fetch
  <2>3. CASE page = <<>>
    <3>1. reader' = [reader EXCEPT ![p] = [reader[p] EXCEPT !.pc = "done"]]
      BY <2>2, <2>3
    <3>2. ReaderInv([reader[p] EXCEPT !.pc = "done"])
      BY <2>1, <2>2, <2>3, EmptyPage
    <3> QED
      BY <2>1, <3>1, <3>2, <1>2
  <2>4. CASE page # <<>>
    <3> DEFINE q == [reader[p] EXCEPT !.pc = "more", !.cursor = sequence[Last(page)],
                                      !.shown = @ \o page]
    <3>1. reader' = [reader EXCEPT ![p] = q]
      BY <2>2, <2>4
    <3>2. ReaderInv(q)
      BY <2>1, <2>4, AppendedPage
    <3> HIDE DEF q
    <3> QED
      BY <2>1, <3>1, <3>2, <1>2
  <2> QED
    BY <2>3, <2>4
<1>5. CASE UNCHANGED vars
  <2>1. StoreInv' /\ Stored' = Stored /\ UNCHANGED <<sequence, reader>>
    BY <1>5, StoreInvStutter DEF PageInv, vars, store, Stored
  <2> QED
    BY <2>1
    DEF PageInv, ReaderInv, CursorIsLowest, InOrder, AheadOrMatched, Matched
<1> QED
  BY <1>1, <1>3, <1>4, <1>5 DEF Next

LEMMA PageInvInit == Init => PageInv
<1> SUFFICES ASSUME Init
             PROVE  PageInv
  OBVIOUS
<1>1. StoreInv
  BY StoreInvInit DEF Init
<1>2. IdleReader \in Reader
  BY DEF IdleReader, Reader
<1>3. ReaderInv(IdleReader)
  BY <1>2 DEF IdleReader, ReaderInv, Paging, CursorIsLowest, InOrder, AheadOrMatched
<1> QED
  BY <1>1, <1>3 DEF Init, PageInv

\* A client sees its journal newest first and no message twice.
THEOREM NewestFirst == Spec => []NewestFirstOnce
<1>1. PageInv => NewestFirstOnce
  BY DEF PageInv, ReaderInv, InOrder, NewestFirstOnce
<1> QED
  BY <1>1, PageInvInit, PageInvNext, PTL DEF Spec

\* A client that has paged to the end missed nothing but ties.
THEOREM MissesOnlyTies == Spec => []MissedOnlyTies
<1>1. ASSUME PageInv
      PROVE  MissedOnlyTies
  <2> SUFFICES ASSUME NEW p \in Readers, reader[p].pc = "done", NEW m \in reader[p].due
               PROVE  \E n \in ToSet(reader[p].shown) : sequence[n] = sequence[m]
    BY DEF MissedOnlyTies
  <2>1. PICK i \in DOMAIN reader[p].shown : sequence[reader[p].shown[i]] = sequence[m]
    BY <1>1 DEF PageInv, ReaderInv, AheadOrMatched, Matched
  <2> QED
    BY <2>1 DEF ToSet
<1> QED
  BY <1>1, PageInvInit, PageInvNext, PTL DEF Spec
=============================================================================
