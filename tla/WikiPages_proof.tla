--------------------------- MODULE WikiPages_proof ---------------------------
(***************************************************************************)
(* Who pages through a category misses a page only if it has risen         *)
(* meanwhile, a patch is applied whole or not at all, a patch of what is   *)
(* shown is not refused, the tree has every lineage, and a page shows      *)
(* every block once and in place; for any graph, page size, finite         *)
(* schemas, number of tabs and any jobs that write in between.             *)
(***************************************************************************)
EXTENDS WikiPages, FiniteSetTheorems, FunctionTheorems, SequenceTheorems, WellFoundedInduction,
        TLAPS

\* The ranking has each entity once.
RankingInv ==
  /\ IsFiniteSet(graph.entities)
  /\ ranking \in SetToSeqs(graph.entities)

\* What has not risen and ranks above the next offset is on the tab already.
Covered(q) ==
  \A k \in DOMAIN ranking :
    ranking[k] \in q.steady /\ (q.token = Finished \/ k <= q.token) => ranking[k] \in ToSet(q.listed)

TabInv(t) ==
  /\ DOMAIN tab[t] = DOMAIN Closed
  /\ tab[t].at = "list" =>
       /\ tab[t].token \in Nat \cup {Finished}
       /\ tab[t].listed \in Seq(graph.entities)
       /\ tab[t].steady \subseteq graph.entities
       /\ Covered(tab[t])
  /\ tab[t].at = "saving" => tab[t].ask \in PatchRequests

WikiInv ==
  /\ RankingInv
  /\ DOMAIN tab = Tabs
  /\ \A t \in Tabs : TabInv(t)
-----------------------------------------------------------------------------
(* Rankings.                                                               *)

LEMMA UpTo ==
  ASSUME NEW m \in Nat
  PROVE  IsFiniteSet(1 .. m) /\ Cardinality(1 .. m) = m
<1>1. IsFiniteSet(1 .. m) /\ Cardinality(1 .. m) = IF 1 > m THEN 0 ELSE m - 1 + 1
  BY FS_Interval
<1> QED
  BY <1>1

\* A ranking of S is a sequence that has each of S at one place.
LEMMA RankingFacts ==
  ASSUME NEW S, IsFiniteSet(S), NEW r \in SetToSeqs(S)
  PROVE  /\ Cardinality(S) \in Nat /\ DOMAIN r = 1 .. Cardinality(S)
         /\ r \in Seq(S) /\ Len(r) = Cardinality(S)
         /\ \A i, k \in DOMAIN r : r[i] = r[k] => i = k
         /\ ToSet(r) = S
<1> DEFINE D == 1 .. Cardinality(S)
<1>1. Cardinality(S) \in Nat
  BY FS_CardinalityType
<1>2. r \in [D -> S] /\ \A i, k \in D : i # k => r[i] # r[k]
  BY DEF SetToSeqs
<1>3. r \in Seq(S) /\ Len(r) = Cardinality(S)
  BY <1>1, <1>2
<1>4. IsFiniteSet(D) /\ Cardinality(D) = Cardinality(S)
  BY <1>1, FS_Interval
<1>5. r \in Injection(D, S)
  BY <1>2 DEF Injection, IsInjective
<1>6. r \in Surjection(D, S)
  BY <1>4, <1>5, FS_Injection
<1>7. ToSet(r) = S
  BY <1>2, <1>6 DEF ToSet, Surjection
<1> QED
  BY <1>1, <1>2, <1>3, <1>7

\* What has not been touched has as many above it as before, or more.
LEMMA OnlyTouchedRise ==
  ASSUME NEW S, IsFiniteSet(S), ranking \in SetToSeqs(S),
         NEW T, IsFiniteSet(T), NEW next \in SetToSeqs(T), NEW touched,
         Reranked(next, touched),
         NEW k \in DOMAIN ranking, ranking[k] \notin touched,
         NEW n \in DOMAIN next, next[n] = ranking[k]
  PROVE  k <= n
<1>1. /\ Cardinality(S) \in Nat /\ DOMAIN ranking = 1 .. Cardinality(S)
      /\ \A i, j \in DOMAIN ranking : ranking[i] = ranking[j] => i = j
  BY RankingFacts
<1>2. /\ Cardinality(T) \in Nat /\ DOMAIN next = 1 .. Cardinality(T)
      /\ \A i, j \in DOMAIN next : next[i] = next[j] => i = j
  BY RankingFacts
<1>3. ASSUME NEW i \in 1 .. k - 1
      PROVE  \E m \in 1 .. n - 1 : next[m] = ranking[i]
  <2>1. i \in DOMAIN ranking /\ i < k
    BY <1>1
  <2>2. PICK m \in DOMAIN next, o \in DOMAIN next :
          m < o /\ next[m] = ranking[i] /\ next[o] = ranking[k]
    BY <2>1 DEF Reranked
  <2>3. o = n
    BY <1>2, <2>2
  <2>4. m \in 1 .. n - 1
    BY <1>2, <2>2, <2>3
  <2> QED
    BY <2>2, <2>4
<1> DEFINE place == [i \in 1 .. k - 1 |-> CHOOSE m \in 1 .. n - 1 : next[m] = ranking[i]]
<1>4. \A i \in 1 .. k - 1 : place[i] \in 1 .. n - 1 /\ next[place[i]] = ranking[i]
  BY <1>3
<1>5. place \in [1 .. k - 1 -> 1 .. n - 1]
  BY <1>4
<1> HIDE DEF place
<1>6. \A i, j \in 1 .. k - 1 : place[i] = place[j] => i = j
  BY <1>1, <1>4
<1>7. place \in Injection(1 .. k - 1, 1 .. n - 1)
  BY <1>5, <1>6 DEF Injection, IsInjective
<1>8. k \in Nat \ {0} /\ n \in Nat \ {0}
  BY <1>1, <1>2
<1>9. /\ IsFiniteSet(1 .. n - 1) /\ Cardinality(1 .. n - 1) = n - 1
      /\ Cardinality(1 .. k - 1) = k - 1
  <2>1. n - 1 \in Nat /\ k - 1 \in Nat
    BY <1>8
  <2> QED
    BY <2>1, UpTo
<1>10. Cardinality(1 .. k - 1) <= Cardinality(1 .. n - 1)
  BY <1>7, <1>9, FS_Injection
<1> QED
  BY <1>8, <1>9, <1>10
-----------------------------------------------------------------------------
(* The pages of a listing.                                                 *)

LEMMA Joined ==
  ASSUME NEW S, NEW a \in Seq(S), NEW b \in Seq(S)
  PROVE  a \o b \in Seq(S) /\ ToSet(a \o b) = ToSet(a) \cup ToSet(b)
<1>1. /\ a \o b \in Seq(S) /\ Len(a) \in Nat /\ Len(b) \in Nat
      /\ DOMAIN a = 1 .. Len(a) /\ DOMAIN b = 1 .. Len(b)
      /\ DOMAIN (a \o b) = 1 .. Len(a) + Len(b)
      /\ \A i \in 1 .. Len(a) + Len(b) :
           (a \o b)[i] = IF i <= Len(a) THEN a[i] ELSE b[i - Len(a)]
  BY ConcatProperties, LenProperties
<1>2. \A i \in 1 .. Len(a) : i \in 1 .. Len(a) + Len(b) /\ (a \o b)[i] = a[i]
  BY <1>1
<1>3. \A i \in 1 .. Len(b) :
        Len(a) + i \in 1 .. Len(a) + Len(b) /\ (a \o b)[Len(a) + i] = b[i]
  BY <1>1
<1>4. \A i \in 1 .. Len(a) + Len(b) :
        \/ i \in 1 .. Len(a) /\ (a \o b)[i] = a[i]
        \/ i - Len(a) \in 1 .. Len(b) /\ (a \o b)[i] = b[i - Len(a)]
  BY <1>1
<1>5. ToSet(a \o b) \subseteq ToSet(a) \cup ToSet(b)
  BY <1>1, <1>4 DEF ToSet
<1>6. ToSet(a) \subseteq ToSet(a \o b)
  BY <1>1, <1>2 DEF ToSet
<1>7. ASSUME NEW x \in ToSet(b)
      PROVE  x \in ToSet(a \o b)
  <2>1. PICK i \in 1 .. Len(b) : b[i] = x
    BY <1>1 DEF ToSet
  <2>2. Len(a) + i \in DOMAIN (a \o b) /\ (a \o b)[Len(a) + i] = x
    BY <1>1, <1>3, <2>1
  <2> QED
    BY <2>2 DEF ToSet
<1> QED
  BY <1>1, <1>5, <1>6, <1>7

LEMMA LeastOfTwo ==
  ASSUME NEW a \in Int, NEW b \in Int
  PROVE  Min({a, b}) = IF a <= b THEN a ELSE b
<1>1. \E x \in {a, b} : \A y \in {a, b} : x <= y
  OBVIOUS
<1> DEFINE x == CHOOSE x \in {a, b} : \A y \in {a, b} : x <= y
<1>2. x \in {a, b} /\ \A y \in {a, b} : x <= y
  BY <1>1
<1> QED
  BY <1>2 DEF Min

\* A page has the rows from its offset on, and the next token tells whether
\* there are more.
LEMMA PageRows ==
  ASSUME NEW S, ranking \in Seq(S), NEW offset \in Nat
  PROVE  /\ Listing(offset) \in Seq(S)
         /\ NextToken(offset) \in {offset + PageSize, Finished}
         /\ \A k \in DOMAIN ranking :
              offset < k /\ (NextToken(offset) = Finished \/ k <= NextToken(offset)) =>
                ranking[k] \in ToSet(Listing(offset))
<1> DEFINE n == Len(ranking)
           last == Min({offset + PageSize + 1, n})
           rows == Rows(offset)
           some == Min({PageSize, Len(rows)})
<1>1. n \in Nat /\ DOMAIN ranking = 1 .. n /\ \A i \in 1 .. n : ranking[i] \in S
  BY LenProperties, ElementOfSeq
<1>2. PageSize \in Nat \ {0}
  BY WikiAssumption
<1>3. last = IF offset + PageSize + 1 <= n THEN offset + PageSize + 1 ELSE n
  BY <1>1, <1>2, LeastOfTwo
<1>4. last \in Nat /\ last <= n
  BY <1>1, <1>2, <1>3
<1>5. rows = SubSeq(ranking, offset + 1, last)
  BY DEF Rows
<1> HIDE DEF rows, last, n
<1>6. \A i \in offset + 1 .. last : ranking[i] \in S
  BY <1>1, <1>4
<1>7. /\ rows \in Seq(S)
      /\ Len(rows) = IF offset + 1 <= last THEN last - offset ELSE 0
      /\ \A i \in 1 .. last - offset : rows[i] = ranking[offset + i]
  <2>1. /\ rows \in Seq(S)
        /\ Len(rows) = IF offset + 1 <= last THEN last - (offset + 1) + 1 ELSE 0
        /\ \A i \in 1 .. last - (offset + 1) + 1 : rows[i] = ranking[offset + 1 + i - 1]
    BY <1>4, <1>5, <1>6, SubSeqProperties
  <2> QED
    BY <1>4, <2>1
<1>8. some = IF PageSize <= Len(rows) THEN PageSize ELSE Len(rows)
  <2>1. Len(rows) \in Nat
    BY <1>4, <1>7
  <2>2. PageSize \in Int /\ Len(rows) \in Int
    BY <1>2, <2>1
  <2> QED
    BY <2>2, LeastOfTwo
<1>9. Listing(offset) = SubSeq(rows, 1, some)
  BY DEF Listing, rows
<1> HIDE DEF some
<1>10. some \in Nat /\ some <= Len(rows)
  BY <1>2, <1>4, <1>7, <1>8
<1>11. \A i \in 1 .. some : rows[i] \in S
  BY <1>7, <1>10, ElementOfSeq
<1>12. /\ Listing(offset) \in Seq(S) /\ Len(Listing(offset)) = some
       /\ \A i \in 1 .. some : Listing(offset)[i] = rows[i]
  <2>1. /\ Listing(offset) \in Seq(S)
        /\ Len(Listing(offset)) = IF 1 <= some THEN some - 1 + 1 ELSE 0
        /\ \A i \in 1 .. some - 1 + 1 : Listing(offset)[i] = rows[1 + i - 1]
    BY <1>9, <1>10, <1>11, SubSeqProperties
  <2> QED
    BY <1>10, <2>1
<1>13. NextToken(offset) = IF Len(rows) > PageSize THEN offset + PageSize ELSE Finished
  BY DEF NextToken, rows
<1>14. ASSUME NEW k \in DOMAIN ranking, offset < k,
              NextToken(offset) = Finished \/ k <= NextToken(offset)
       PROVE  ranking[k] \in ToSet(Listing(offset))
  <2>1. k \in 1 .. n
    BY <1>1
  <2>2. k - offset \in 1 .. some
    <3>1. /\ k \in Nat /\ k <= n /\ n \in Nat
          /\ Len(rows) = IF offset + 1 <= last THEN last - offset ELSE 0
      BY <1>1, <1>7, <2>1
    <3>2. CASE Len(rows) > PageSize
      <4>1. some = PageSize /\ NextToken(offset) = offset + PageSize
        <5>1. Len(rows) \in Nat
          BY <1>4, <3>1
        <5>2. some = PageSize
          BY <1>2, <1>8, <3>2, <5>1
        <5> QED
          BY <1>13, <3>2, <5>2
      <4>2. k <= offset + PageSize
        BY <1>2, <1>14, <4>1 DEF Finished
      <4> QED
        BY <1>2, <1>14, <3>1, <4>1, <4>2
    <3>3. CASE ~(Len(rows) > PageSize)
      <4>1. some = Len(rows)
        BY <1>2, <1>4, <1>8, <3>1, <3>3
      <4>2. last = n
        BY <1>2, <1>3, <3>1, <3>3
      <4> QED
        BY <1>14, <3>1, <4>1, <4>2
    <3> QED
      BY <3>2, <3>3
  <2>3. k - offset \in 1 .. last - offset
    BY <1>4, <1>7, <1>10, <2>2
  <2>4. Listing(offset)[k - offset] = ranking[k]
    <3>1. offset + (k - offset) = k
      BY <2>1
    <3> QED
      BY <1>7, <1>12, <2>2, <2>3, <3>1
  <2>5. k - offset \in DOMAIN Listing(offset)
    BY <1>12, <2>2
  <2> QED
    BY <2>4, <2>5 DEF ToSet
<1> QED
  BY <1>12, <1>13, <1>14
-----------------------------------------------------------------------------
(* The steps of a tab.                                                     *)

\* A tab's request leaves the ranking and the other tabs alone.
LEMMA OneTab ==
  ASSUME WikiInv, NEW t \in Tabs, UNCHANGED <<ranking, graph>>,
         NEW q, tab' = [tab EXCEPT ![t] = q], TabInv(t)'
  PROVE  WikiInv'
<1>1. DOMAIN tab' = Tabs /\ \A u \in Tabs \ {t} : tab'[u] = tab[u]
  BY DEF WikiInv
<1>2. \A u \in Tabs \ {t} : TabInv(u)'
  BY <1>1 DEF WikiInv, TabInv, Covered
<1> QED
  BY <1>1, <1>2 DEF WikiInv, RankingInv

\* What is not a listing is nothing to be sound.
LEMMA NoListing ==
  ASSUME WikiInv, NEW t \in Tabs, UNCHANGED <<ranking, graph>>,
         NEW q, tab' = [tab EXCEPT ![t] = q], DOMAIN q = DOMAIN Closed,
         q.at # "list", q.at = "saving" => q.ask \in PatchRequests
  PROVE  WikiInv'
<1>1. tab'[t] = q
  BY DEF WikiInv
<1>2. TabInv(t)'
  BY <1>1 DEF TabInv
<1> QED
  BY <1>2, OneTab

\* The steps that tell a tab something else than a listing.
LEMMA OtherRequests ==
  ASSUME WikiInv, NEW t \in Tabs,
         \/ OpenTree(t)
         \/ \E page \in Openable : OpenPage(t, page)
         \/ \E ask \in PatchRequests : ReadForPatch(t, ask)
         \/ Patch(t)
         \/ UNCHANGED store /\ \E use \in {"list", "tree"} : Fails(t, use)
  PROVE  WikiInv'
<1>1. UNCHANGED <<ranking, graph>>
  BY DEF OpenTree, OpenPage, ReadForPatch, Patch, store
<1>2. DOMAIN tab[t] = DOMAIN Closed
  BY DEF WikiInv, TabInv
<1> DEFINE Becomes(q) == /\ tab' = [tab EXCEPT ![t] = q] /\ DOMAIN q = DOMAIN Closed
                         /\ q.at # "list" /\ (q.at = "saving" => q.ask \in PatchRequests)
<1>3. ASSUME NEW use, Fails(t, use)
      PROVE  \E q : Becomes(q)
  <2>1. PICK code \in Codes : tab' = [tab EXCEPT ![t] = [Closed EXCEPT !.at = "told", !.answer = Status(use, code)]]
    BY <1>3 DEF Fails
  <2> DEFINE q == [Closed EXCEPT !.at = "told", !.answer = Status(use, code)]
  <2>2. DOMAIN q = DOMAIN Closed /\ q.at = "told"
    BY DEF Closed
  <2> QED
    BY <2>1, <2>2
<1>4. ASSUME NEW status, Told(t, status)
      PROVE  \E q : Becomes(q)
  <2> DEFINE q == [tab[t] EXCEPT !.at = "told", !.answer = status, !.reply = <<>>]
  <2>1. tab' = [tab EXCEPT ![t] = q]
    BY <1>4 DEF Told
  <2>2. DOMAIN q = DOMAIN Closed /\ q.at = "told"
    BY <1>2 DEF Closed
  <2> QED
    BY <2>1, <2>2
<1>5. ASSUME OpenTree(t)
      PROVE  \E q : Becomes(q)
  <2>1. ASSUME NEW schema \in Schemas, tab' = [tab EXCEPT ![t] = [Closed EXCEPT !.at = "tree", !.schema = schema,
                                                      !.tree = Tree(schema)]]
        PROVE  \E q : Becomes(q)
    <3> DEFINE q == [Closed EXCEPT !.at = "tree", !.schema = schema, !.tree = Tree(schema)]
    <3>1. DOMAIN q = DOMAIN Closed /\ q.at = "tree"
      BY DEF Closed
    <3> QED
      BY <2>1, <3>1
  <2> QED
    BY <1>3, <1>5, <2>1 DEF OpenTree
<1>6. ASSUME NEW page \in Openable, OpenPage(t, page)
      PROVE  \E q : Becomes(q)
  <2>1. CASE tab' = [tab EXCEPT ![t] = PageDetail(page)]
    <3>1. DOMAIN PageDetail(page) = DOMAIN Closed /\ PageDetail(page).at = "page"
      BY DEF PageDetail, Closed
    <3> QED
      BY <2>1, <3>1
  <2>2. CASE tab' = [tab EXCEPT ![t] =
             [Closed EXCEPT !.at = "told", !.page = page, !.answer = Status("page", "INTERNAL")]]
    <3> DEFINE q == [Closed EXCEPT !.at = "told", !.page = page, !.answer = Status("page", "INTERNAL")]
    <3>1. DOMAIN q = DOMAIN Closed /\ q.at = "told"
      BY DEF Closed
    <3> QED
      BY <2>2, <3>1
  <2> QED
    BY <1>3, <1>6, <2>1, <2>2 DEF OpenPage
<1>7. ASSUME NEW ask \in PatchRequests, ReadForPatch(t, ask)
      PROVE  \E q : Becomes(q)
  <2> DEFINE saving == [tab[t] EXCEPT !.at = "saving", !.ask = ask,
                             !.reply = Context(tab[t].page, MaxBlockLevel)]
             refused == [tab[t] EXCEPT !.at = "told", !.ask = ask, !.reply = <<>>, !.answer = 400]
  <2>1. /\ DOMAIN saving = DOMAIN Closed /\ saving.at = "saving" /\ saving.ask = ask
        /\ DOMAIN refused = DOMAIN Closed /\ refused.at = "told"
    BY <1>2 DEF Closed
  <2>2. \/ Fails(t, "patch")
        \/ tab' = [tab EXCEPT ![t] = saving]
        \/ tab' = [tab EXCEPT ![t] = refused]
    BY <1>7 DEF ReadForPatch
  <2> HIDE DEF saving, refused
  <2>3. CASE Fails(t, "patch")
    BY <1>3, <2>3
  <2>4. CASE tab' = [tab EXCEPT ![t] = saving]
    <3>1. Becomes(saving)
      BY <2>1, <2>4
    <3> QED
      BY <3>1
  <2>5. CASE tab' = [tab EXCEPT ![t] = refused]
    <3>1. Becomes(refused)
      BY <2>1, <2>5
    <3> QED
      BY <3>1
  <2> QED
    BY <2>2, <2>3, <2>4, <2>5
<1>8. ASSUME Patch(t)
      PROVE  \E q : Becomes(q)
  BY <1>4, <1>8 DEF Patch
<1>9. PICK q : Becomes(q)
  BY <1>3, <1>5, <1>6, <1>7, <1>8
<1> QED
  BY <1>1, <1>9, NoListing

\* The first page starts at the top.
LEMMA FirstPageCovers ==
  ASSUME WikiInv, NEW t \in Tabs, ListCategory(t)
  PROVE  WikiInv'
<1>1. CASE Fails(t, "list")
  BY <1>1, OtherRequests DEF ListCategory
<1>2. CASE ~Fails(t, "list")
  <2> DEFINE S == graph.entities
             next == NextToken(0)
             page == Listing(0)
             all == ToSet(ranking)
             q == [Closed EXCEPT !.at = "list", !.token = next, !.listed = page, !.steady = all]
  <2>1. tab' = [tab EXCEPT ![t] = q] /\ UNCHANGED <<ranking, graph>>
    BY <1>2 DEF ListCategory, store
  <2>2. ranking \in Seq(S) /\ ToSet(ranking) = S /\ \A k \in DOMAIN ranking : k \in Nat \ {0}
    BY RankingFacts DEF WikiInv, RankingInv
  <2>3. /\ page \in Seq(S) /\ next \in {0 + PageSize, Finished}
        /\ \A k \in DOMAIN ranking :
             0 < k /\ (next = Finished \/ k <= next) => ranking[k] \in ToSet(page)
    BY <2>2, PageRows
  <2> HIDE DEF next, page, all
  <2>4. /\ DOMAIN q = DOMAIN Closed /\ q.at = "list"
        /\ q.token = next /\ q.listed = page /\ q.steady = all
    BY DEF Closed
  <2> HIDE DEF q
  <2>5. tab'[t] = q
    BY <2>1 DEF WikiInv
  <2>6. next \in Nat \cup {Finished}
    BY <2>3, WikiAssumption
  <2>7. \A k \in DOMAIN ranking : next = Finished \/ k <= next => ranking[k] \in ToSet(page)
    BY <2>2, <2>3
  <2>8. TabInv(t)'
    BY <2>1, <2>2, <2>3, <2>4, <2>5, <2>6, <2>7 DEF TabInv, Covered, all
  <2> QED
    BY <2>1, <2>8, OneTab
<1> QED
  BY <1>1, <1>2

\* The next page starts where what was covered ends.
LEMMA NextPageCovers ==
  ASSUME WikiInv, NEW t \in Tabs, ListMore(t)
  PROVE  WikiInv'
<1>1. CASE Fails(t, "list")
  BY <1>1, OtherRequests DEF ListMore
<1>2. CASE ~Fails(t, "list")
  <2> DEFINE S == graph.entities
             old == tab[t]
             next == NextToken(old.token)
             page == Listing(old.token)
             listed == old.listed \o page
             q == [old EXCEPT !.token = next, !.listed = listed]
  <2>1. tab' = [tab EXCEPT ![t] = q] /\ UNCHANGED <<ranking, graph>>
    BY <1>2 DEF ListMore, store
  <2>2. /\ DOMAIN old = DOMAIN Closed /\ old.token \in Nat /\ old.listed \in Seq(S)
        /\ old.steady \subseteq S /\ Covered(old) /\ old.at = "list"
    BY DEF WikiInv, TabInv, ListMore
  <2>3. ranking \in Seq(S) /\ \A k \in DOMAIN ranking : k \in Nat
    BY RankingFacts DEF WikiInv, RankingInv
  <2>4. /\ page \in Seq(S) /\ next \in {old.token + PageSize, Finished}
        /\ \A k \in DOMAIN ranking :
             old.token < k /\ (next = Finished \/ k <= next) => ranking[k] \in ToSet(page)
    BY <2>2, <2>3, PageRows
  <2> HIDE DEF next, page
  <2>5. listed \in Seq(S) /\ ToSet(listed) = ToSet(old.listed) \cup ToSet(page)
    <3> DEFINE before == old.listed
    <3>1. before \in Seq(S)
      BY <2>2
    <3> HIDE DEF before, S
    <3>2. before \o page \in Seq(S) /\ ToSet(before \o page) = ToSet(before) \cup ToSet(page)
      BY <2>4, <3>1, Joined
    <3> QED
      BY <3>2 DEF before
  <2> HIDE DEF listed
  <2>6. /\ DOMAIN q = DOMAIN Closed /\ q.at = "list"
        /\ q.token = next /\ q.listed = listed /\ q.steady = old.steady
    BY <2>2 DEF Closed
  <2> HIDE DEF q
  <2>7. tab'[t] = q
    BY <2>1 DEF WikiInv
  <2>8. next \in Nat \cup {Finished}
    BY <2>2, <2>4, WikiAssumption
  <2>9. ASSUME NEW k \in DOMAIN ranking, ranking[k] \in old.steady, next = Finished \/ k <= next
        PROVE  ranking[k] \in ToSet(listed)
    <3>1. CASE old.token < k
      BY <2>4, <2>5, <2>9, <3>1
    <3>2. CASE k <= old.token
      BY <2>2, <2>5, <2>9, <3>2 DEF Covered
    <3> QED
      BY <2>2, <2>3, <3>1, <3>2
  <2>10. TabInv(t)'
    BY <2>1, <2>2, <2>5, <2>6, <2>7, <2>8, <2>9 DEF TabInv, Covered
  <2> QED
    BY <2>1, <2>10, OneTab
<1> QED
  BY <1>1, <1>2

\* A job lifts only what it touches.
LEMMA JobsCover ==
  ASSUME WikiInv, NEW job \in JobDeltas, JobWrites(job)
  PROVE  WikiInv'
<1> DEFINE g == Merged(job.delta, graph)
           touched == Touched(job.delta, g)
<1>1. /\ graph' = g /\ ranking' \in SetToSeqs(g.entities) /\ Reranked(ranking', touched)
      /\ tab' = [t \in Tabs |-> [tab[t] EXCEPT !.steady = @ \ touched]]
  BY DEF JobWrites
<1>2. g.entities = graph.entities \cup EntityIds(job.delta)
  BY DEF Merged
<1> HIDE DEF g, touched
<1>3. IsFiniteSet(EntityIds(job.delta))
  <2> DEFINE es == job.delta.entities
             D == DOMAIN es
             f == [i \in D |-> es[i].id]
  <2>1. es \in Seq([id : Int, sent : SUBSET Sent, universe : Int])
    BY WikiAssumption DEF Delta
  <2>2. D = 1 .. Len(es) /\ Len(es) \in Nat
    BY <2>1, LenProperties
  <2>3. IsFiniteSet(D)
    BY <2>2, FS_Interval
  <2>4. EntityIds(job.delta) = {f[i] : i \in D}
    BY DEF EntityIds
  <2> HIDE DEF es, D
  <2>5. f \in Surjection(D, {f[i] : i \in D})
    BY DEF Surjection
  <2> QED
    BY <2>3, <2>4, <2>5, FS_Surjection
<1>4. IsFiniteSet(g.entities)
  BY <1>2, <1>3, FS_Union DEF WikiInv, RankingInv
<1>5. RankingInv'
  BY <1>1, <1>4 DEF RankingInv
<1>6. ASSUME NEW t \in Tabs
      PROVE  TabInv(t)'
  <2> DEFINE old == tab[t]
             steady == old.steady \ touched
  <2>1. DOMAIN old = DOMAIN Closed
    BY DEF WikiInv, TabInv
  <2>2. /\ DOMAIN tab'[t] = DOMAIN Closed /\ tab'[t].at = old.at
        /\ tab'[t].token = old.token /\ tab'[t].listed = old.listed /\ tab'[t].ask = old.ask
        /\ tab'[t].steady = steady
    <3>1. tab'[t] = [old EXCEPT !.steady = steady]
      BY <1>1
    <3> HIDE DEF steady, old
    <3> QED
      BY <2>1, <3>1 DEF Closed
  <2>3. ASSUME old.at = "list"
        PROVE  /\ old.token \in Nat \cup {Finished} /\ old.listed \in Seq(graph'.entities)
               /\ steady \subseteq graph'.entities
    <3>1. /\ old.token \in Nat \cup {Finished} /\ old.listed \in Seq(graph.entities)
          /\ old.steady \subseteq graph.entities
      BY <2>3 DEF WikiInv, TabInv
    <3>2. graph.entities \subseteq graph'.entities
      BY <1>1, <1>2
    <3> QED
      BY <3>1, <3>2
  <2>4. ASSUME old.at = "list", NEW n \in DOMAIN ranking', ranking'[n] \in steady,
               old.token = Finished \/ n <= old.token
        PROVE  ranking'[n] \in ToSet(old.listed)
    <3>1. old.steady \subseteq graph.entities /\ Covered(old) /\ old.token \in Nat \cup {Finished}
      BY <2>4 DEF WikiInv, TabInv
    <3>2. /\ ToSet(ranking) = graph.entities
          /\ \A i \in DOMAIN ranking : i \in Nat
      BY RankingFacts DEF WikiInv, RankingInv
    <3>3. PICK k \in DOMAIN ranking : ranking[k] = ranking'[n]
      BY <2>4, <3>1, <3>2 DEF ToSet
    <3>4. k <= n
      BY <1>1, <1>4, <2>4, <3>3, OnlyTouchedRise DEF WikiInv, RankingInv
    <3>5. n \in Nat
      BY <1>1, <1>4, RankingFacts
    <3>6. old.token = Finished \/ k <= old.token
      BY <2>4, <3>1, <3>2, <3>4, <3>5
    <3> QED
      BY <2>4, <3>1, <3>3, <3>6 DEF Covered
  <2>5. old.at = "saving" => old.ask \in PatchRequests
    BY DEF WikiInv, TabInv
  <2> HIDE DEF old, steady
  <2> QED
    BY <2>2, <2>3, <2>4, <2>5 DEF TabInv, Covered
<1>7. DOMAIN tab' = Tabs
  BY <1>1
<1> QED
  BY <1>5, <1>6, <1>7 DEF WikiInv

LEMMA WikiInvInit == Init => WikiInv
BY WikiAssumption DEF Init, WikiInv, RankingInv, TabInv, Closed

LEMMA WikiInvNext ==
  ASSUME WikiInv, [Next]_vars
  PROVE  WikiInv'
<1>1. CASE UNCHANGED vars
  BY <1>1 DEF vars, store, WikiInv, RankingInv, TabInv, Covered
<1>2. ASSUME NEW t \in Tabs,
             \/ OpenTree(t) \/ ListCategory(t) \/ ListMore(t)
             \/ \E page \in Openable : OpenPage(t, page)
             \/ \E ask \in PatchRequests : ReadForPatch(t, ask)
             \/ Patch(t)
      PROVE  WikiInv'
  BY <1>2, OtherRequests, FirstPageCovers, NextPageCovers
<1>3. ASSUME NEW job \in JobDeltas, JobWrites(job)
      PROVE  WikiInv'
  BY <1>3, JobsCover
<1> QED
  BY <1>1, <1>2, <1>3 DEF Next

\* Whoever has paged to the end of a category while jobs wrote has seen every
\* page that was there at the first one and has not risen since
\* (ListEntitiesByType's offset token, list_category_pages).
THEOREM PagingMissesOnlyRisen == Spec => []MissedOnlyRisen
<1>1. Init => WikiInv
  BY WikiInvInit
<1>2. WikiInv /\ [Next]_vars => WikiInv'
  BY WikiInvNext
<1>3. WikiInv => MissedOnlyRisen
  <2> SUFFICES ASSUME WikiInv, NEW t \in Tabs, tab[t].at = "list", tab[t].token = Finished,
                      NEW e \in tab[t].steady
               PROVE  e \in ToSet(tab[t].listed)
    BY DEF MissedOnlyRisen
  <2>1. tab[t].steady \subseteq graph.entities /\ Covered(tab[t])
    BY DEF WikiInv, TabInv
  <2>2. PICK k \in DOMAIN ranking : ranking[k] = e
    BY <2>1, RankingFacts DEF WikiInv, RankingInv, ToSet
  <2> QED
    BY <2>1, <2>2 DEF Covered
<1> QED
  BY <1>1, <1>2, <1>3, PTL DEF Spec
-----------------------------------------------------------------------------
(* Patches.                                                                *)

LEMMA Climb ==
  ASSUME NEW n \in Nat, NEW G, 0 \in G, \A i \in 1 .. n : i - 1 \in G => i \in G
  PROVE  0 .. n \subseteq G
<1> DEFINE Bad == {i \in 0 .. n : i \notin G}
<1> SUFFICES ASSUME Bad # {}
             PROVE  FALSE
  OBVIOUS
<1>1. IsWellFoundedOn(OpToRel(<, Nat), Nat)
  BY NatLessThanWellFounded
<1>2. Bad \in SUBSET Nat
  OBVIOUS
<1>3. PICK i \in Bad : \A k \in Bad : ~ (<<k, i>> \in OpToRel(<, Nat))
  <2> HIDE DEF Bad
  <2> QED
    BY <1>1, <1>2, WFMin
<1>4. \A k \in Bad : ~ (k < i)
  BY <1>2, <1>3 DEF OpToRel
<1>5. i \in 1 .. n /\ i - 1 \in 0 .. n /\ i - 1 < i
  OBVIOUS
<1>6. i - 1 \in G
  BY <1>4, <1>5
<1> QED
  BY <1>5, <1>6

Put(texts, item) == [texts EXCEPT ![item.block] = item.text]

LEMMA PutSetsOne ==
  ASSUME NEW texts, NEW item
  PROVE  /\ DOMAIN Put(texts, item) = DOMAIN texts
         /\ \A b \in DOMAIN texts :
              Put(texts, item)[b] = IF b = item.block THEN item.text ELSE texts[b]
BY DEF Put

\* The texts after i items.
Setting(texts, ask) ==
  LET After[i \in 0 .. Len(ask)] == IF i = 0 THEN texts ELSE Put(After[i - 1], ask[i])
  IN After

LEMMA SettingSteps ==
  ASSUME NEW texts, NEW ask, Len(ask) \in Nat
  PROVE  /\ Setting(texts, ask)[0] = texts
         /\ \A i \in 1 .. Len(ask) :
              Setting(texts, ask)[i] = Put(Setting(texts, ask)[i - 1], ask[i])
<1> DEFINE Sets(f, n) == f = [i \in 0 .. n |-> IF i = 0 THEN texts ELSE Put(f[i - 1], ask[i])]
           G == {n \in 0 .. Len(ask) : \E f : Sets(f, n)}
<1>1. 0 \in G
  <2>1. Sets([i \in 0 .. 0 |-> texts], 0)
    OBVIOUS
  <2>2. 0 \in 0 .. Len(ask)
    OBVIOUS
  <2> HIDE DEF Sets
  <2> QED
    BY <2>1, <2>2
<1>2. ASSUME NEW n \in 1 .. Len(ask), n - 1 \in G
      PROVE  n \in G
  <2>1. PICK f : Sets(f, n - 1)
    BY <1>2
  <2> DEFINE g == [i \in 0 .. n |-> IF i = 0 THEN texts ELSE Put(f[i - 1], ask[i])]
  <2>2. \A i \in 0 .. n - 1 : g[i] = f[i]
    BY <2>1
  <2>3. \A i \in 0 .. n : i # 0 => i - 1 \in 0 .. n - 1
    OBVIOUS
  <2>4. \A i \in 0 .. n : i # 0 => g[i] = Put(g[i - 1], ask[i])
    BY <2>2, <2>3
  <2>5. Sets(g, n)
    BY <2>4
  <2>6. n \in 0 .. Len(ask)
    OBVIOUS
  <2> HIDE DEF Sets, g
  <2> QED
    BY <2>5, <2>6
<1>3. 0 .. Len(ask) \subseteq G
  <2> HIDE DEF G
  <2> QED
    BY <1>1, <1>2, Climb
<1>4. Sets(Setting(texts, ask), Len(ask))
  <2>1. \E f : Sets(f, Len(ask))
    BY <1>3
  <2>2. Setting(texts, ask) = CHOOSE f : Sets(f, Len(ask))
    BY DEF Setting
  <2> HIDE DEF Sets
  <2> QED
    BY <2>1, <2>2
<1> DEFINE c == Setting(texts, ask)
<1>5. c = [i \in 0 .. Len(ask) |-> IF i = 0 THEN texts ELSE Put(c[i - 1], ask[i])]
  BY <1>4
<1> HIDE DEF c
<1>6. c[0] = texts /\ \A i \in 1 .. Len(ask) : c[i] = Put(c[i - 1], ask[i])
  BY <1>5
<1> QED
  BY <1>6 DEF c

\* Each block has the text of the last item for it, or the one it had.
LEMMA LastItemStays ==
  ASSUME NEW texts, NEW ask, Len(ask) \in Nat
  PROVE  LET f == Setting(texts, ask)[Len(ask)]
         IN /\ DOMAIN f = DOMAIN texts
            /\ \A b \in DOMAIN f :
                 \/ f[b] = texts[b] /\ \A i \in 1 .. Len(ask) : ask[i].block # b
                 \/ \E i \in 1 .. Len(ask) :
                      /\ ask[i].block = b /\ ask[i].text = f[b]
                      /\ \A k \in i + 1 .. Len(ask) : ask[k].block # b
<1> DEFINE c == Setting(texts, ask)
<1>1. /\ c[0] = texts
      /\ \A i \in 1 .. Len(ask) : c[i] = Put(c[i - 1], ask[i])
  BY SettingSteps
<1> HIDE DEF c
<1> DEFINE D == DOMAIN texts
           By(n, b) ==
             \/ c[n][b] = texts[b] /\ \A i \in 1 .. n : ask[i].block # b
             \/ \E i \in 1 .. n : /\ ask[i].block = b /\ ask[i].text = c[n][b]
                                  /\ \A k \in i + 1 .. n : ask[k].block # b
           G == {n \in 0 .. Len(ask) : DOMAIN c[n] = D /\ \A b \in D : By(n, b)}
<1>2. 0 \in G
  BY <1>1
<1>3. ASSUME NEW n \in 1 .. Len(ask), n - 1 \in G
      PROVE  n \in G
  <2>1. DOMAIN c[n - 1] = D /\ \A b \in D : By(n - 1, b)
    BY <1>3
  <2>2. /\ DOMAIN c[n] = D
        /\ \A b \in D : c[n][b] = IF b = ask[n].block THEN ask[n].text ELSE c[n - 1][b]
    <3>1. c[n] = Put(c[n - 1], ask[n])
      BY <1>1
    <3> QED
      BY <2>1, <3>1, PutSetsOne
  <2>3. ASSUME NEW b \in D
        PROVE  By(n, b)
    <3>1. CASE b = ask[n].block
      <4>1. n \in 1 .. n /\ \A k \in n + 1 .. n : FALSE
        OBVIOUS
      <4>2. ask[n].text = c[n][b]
        BY <2>2, <3>1
      <4> QED
        BY <3>1, <4>1, <4>2
    <3>2. CASE b # ask[n].block
      <4>1. c[n][b] = c[n - 1][b]
        BY <2>2, <3>2
      <4>2. \A i \in 1 .. n : i = n \/ i \in 1 .. n - 1
        OBVIOUS
      <4>3. CASE c[n - 1][b] = texts[b] /\ \A i \in 1 .. n - 1 : ask[i].block # b
        BY <3>2, <4>1, <4>2, <4>3
      <4>4. ASSUME NEW i \in 1 .. n - 1, ask[i].block = b, ask[i].text = c[n - 1][b],
                   \A k \in i + 1 .. n - 1 : ask[k].block # b
            PROVE  By(n, b)
        <5>1. i \in 1 .. n /\ \A k \in i + 1 .. n : k = n \/ k \in i + 1 .. n - 1
          OBVIOUS
        <5> QED
          BY <3>2, <4>1, <4>4, <5>1
      <4> QED
        BY <2>1, <4>3, <4>4
    <3> QED
      BY <3>1, <3>2
  <2>4. n \in 0 .. Len(ask)
    OBVIOUS
  <2> HIDE DEF By, D
  <2> QED
    BY <2>2, <2>3, <2>4
<1>4. 0 .. Len(ask) \subseteq G
  <2> HIDE DEF G
  <2> QED
    BY <1>2, <1>3, Climb
<1>5. Len(ask) \in G
  <2>1. Len(ask) \in 0 .. Len(ask)
    OBVIOUS
  <2> QED
    BY <1>4, <2>1
<1> QED
  BY <1>5 DEF c

\* Only the patch itself ends one.
LEMMA OnlyPatchAnswers ==
  ASSUME WikiInv, [Next]_vars, NEW t \in Tabs, tab[t].at = "saving", tab'[t].at = "told"
  PROVE  Patch(t)
<1>1. CASE UNCHANGED vars
  BY <1>1 DEF vars
<1>2. ASSUME NEW u \in Tabs,
             \/ OpenTree(u) \/ ListCategory(u) \/ ListMore(u)
             \/ \E page \in Openable : OpenPage(u, page)
             \/ \E ask \in PatchRequests : ReadForPatch(u, ask)
             \/ Patch(u)
      PROVE  Patch(t)
  <2>1. CASE u = t
    <3>1. ~OpenTree(u) /\ ~ListMore(u)
      BY <2>1 DEF OpenTree, ListMore
    <3>2. ~ListCategory(u) /\ \A page : ~OpenPage(u, page)
      BY <2>1 DEF ListCategory, OpenPage, Idle
    <3>3. \A ask : ~ReadForPatch(u, ask)
      BY <2>1 DEF ReadForPatch
    <3> QED
      BY <1>2, <2>1, <3>1, <3>2, <3>3
  <2>2. CASE u # t
    <3>1. CASE ListMore(u)
      BY <2>2, <3>1 DEF WikiInv, ListMore, Fails
    <3>2. CASE Patch(u)
      <4>1. PICK status : Told(u, status)
        BY <3>2 DEF Patch
      <4>2. DOMAIN tab = Tabs
        BY DEF WikiInv
      <4>3. tab'[t] = tab[t]
        BY <2>2, <4>1, <4>2 DEF Told
      <4> QED
        BY <4>3
    <3>3. CASE OpenTree(u) \/ ListCategory(u)
      BY <2>2, <3>3 DEF WikiInv, OpenTree, ListCategory, Fails
    <3>4. CASE \E page \in Openable : OpenPage(u, page)
      BY <2>2, <3>4 DEF WikiInv, OpenPage, Fails
    <3>5. CASE \E ask \in PatchRequests : ReadForPatch(u, ask)
      BY <2>2, <3>5 DEF WikiInv, ReadForPatch, Fails
    <3> QED
      BY <1>2, <3>1, <3>2, <3>3, <3>4, <3>5
  <2> QED
    BY <2>1, <2>2
<1>3. ASSUME NEW job \in JobDeltas, JobWrites(job)
      PROVE  FALSE
  <2>1. tab'[t] = [tab[t] EXCEPT !.steady = @ \ Touched(job.delta, Merged(job.delta, graph))]
    BY <1>3 DEF JobWrites
  <2>2. DOMAIN tab[t] = DOMAIN Closed
    BY DEF WikiInv, TabInv
  <2>3. tab'[t].at = tab[t].at
    BY <2>1, <2>2 DEF Closed
  <2> QED
    BY <2>3
<1> QED
  BY <1>1, <1>2, <1>3 DEF Next

\* A patch of blocks sets the asked texts, the last one for each block, and no
\* other, or leaves all alone, and its answer tells which: for any requests, and
\* whatever other tabs and jobs have written since it read the page
\* (patch_page_content_blocks).
THEOREM PatchesAreWhole == Spec => PatchIsAllOrNothing
<1> DEFINE Right(t) ==
             LET ask == tab[t].ask
                 nothing == text' = text
                 all == \A b \in DOMAIN text' :
                          \/ b \notin Asked(ask) /\ text'[b] = text[b]
                          \/ \E i \in DOMAIN ask :
                               /\ ask[i] = [block |-> b, text |-> text'[b]]
                               /\ \A k \in i + 1 .. Len(ask) : ask[k].block # b
                 answer == tab'[t].answer
             IN /\ all \/ nothing
                /\ answer = 200 => all
                /\ answer \in 400 .. 499 => nothing
           Whole == \A t \in Tabs : tab[t].at = "saving" /\ tab'[t].at = "told" => Right(t)
<1> HIDE DEF Right
<1>1. Init => WikiInv
  BY WikiInvInit
<1>2. WikiInv /\ [Next]_vars => WikiInv'
  BY WikiInvNext
<1>3. WikiInv /\ [Next]_vars => Whole
  <2> SUFFICES ASSUME WikiInv, [Next]_vars,
                      NEW t \in Tabs, tab[t].at = "saving", tab'[t].at = "told"
               PROVE  Right(t)
    OBVIOUS
  <2> DEFINE ask == tab[t].ask
             all == \A b \in DOMAIN text' :
                      \/ b \notin Asked(ask) /\ text'[b] = text[b]
                      \/ \E i \in DOMAIN ask :
                           /\ ask[i] = [block |-> b, text |-> text'[b]]
                           /\ \A k \in i + 1 .. Len(ask) : ask[k].block # b
  <2>1. Patch(t)
    BY OnlyPatchAnswers
  <2>2. /\ ask \in PatchRequests /\ Len(ask) \in Nat /\ DOMAIN ask = 1 .. Len(ask)
        /\ \A i \in DOMAIN ask : ask[i] = [block |-> ask[i].block, text |-> ask[i].text]
    <3>1. ask \in PatchRequests
      BY DEF WikiInv, TabInv
    <3>2. ask \in Seq(ToSet(ask))
      BY <3>1, WikiAssumption
    <3> QED
      BY <3>1, <3>2, LenProperties, WikiAssumption
  <2>3. Patched(t) = Setting(text, ask)[Len(ask)]
    BY DEF Patched, Setting, Put
  <2> HIDE DEF ask
  <2>4. ASSUME text' = Patched(t)
        PROVE  all
    <3>1. /\ \A b \in DOMAIN text' :
               \/ text'[b] = text[b] /\ \A i \in 1 .. Len(ask) : ask[i].block # b
               \/ \E i \in 1 .. Len(ask) :
                    /\ ask[i].block = b /\ ask[i].text = text'[b]
                    /\ \A k \in i + 1 .. Len(ask) : ask[k].block # b
      BY <2>2, <2>3, <2>4, LastItemStays
    <3>2. \A b : (\A i \in 1 .. Len(ask) : ask[i].block # b) => b \notin Asked(ask)
      BY <2>2 DEF Asked
    <3>3. ASSUME NEW b \in DOMAIN text', NEW i \in 1 .. Len(ask),
                 ask[i].block = b, ask[i].text = text'[b]
          PROVE  i \in DOMAIN ask /\ ask[i] = [block |-> b, text |-> text'[b]]
      <4>1. i \in DOMAIN ask
        BY <2>2
      <4>2. ask[i] = [block |-> ask[i].block, text |-> ask[i].text]
        BY <2>2, <4>1
      <4> QED
        BY <3>3, <4>1, <4>2
    <3>4. ASSUME NEW b \in DOMAIN text', \A i \in 1 .. Len(ask) : ask[i].block # b
          PROVE  b \notin Asked(ask)
      BY <3>2, <3>4
    <3>5. \A b \in DOMAIN text' : \A i \in 1 .. Len(ask) :
            ask[i].block = b /\ ask[i].text = text'[b] =>
              i \in DOMAIN ask /\ ask[i] = [block |-> b, text |-> text'[b]]
      BY <3>3
    <3> SUFFICES ASSUME NEW b \in DOMAIN text'
                 PROVE  \/ b \notin Asked(ask) /\ text'[b] = text[b]
                        \/ \E i \in DOMAIN ask :
                             /\ ask[i] = [block |-> b, text |-> text'[b]]
                             /\ \A k \in i + 1 .. Len(ask) : ask[k].block # b
      OBVIOUS
    <3>6. CASE text'[b] = text[b] /\ \A i \in 1 .. Len(ask) : ask[i].block # b
      BY <3>4, <3>6
    <3>7. ASSUME NEW i \in 1 .. Len(ask), ask[i].block = b, ask[i].text = text'[b],
                 \A k \in i + 1 .. Len(ask) : ask[k].block # b
          PROVE  \E j \in DOMAIN ask :
                   /\ ask[j] = [block |-> b, text |-> text'[b]]
                   /\ \A k \in j + 1 .. Len(ask) : ask[k].block # b
      BY <3>5, <3>7, Zenon
    <3> QED
      BY <3>1, <3>6, <3>7
  <2> HIDE DEF all
  <2>5. ASSUME NEW status, Told(t, status)
        PROVE  tab'[t].answer = status
    <3>1. DOMAIN tab[t] = DOMAIN Closed /\ DOMAIN tab = Tabs
      BY DEF WikiInv, TabInv
    <3> QED
      BY <2>5, <3>1 DEF Told, Closed
  <2>6. \A code \in Codes : Status("patch", code) \in {502, 503}
    BY DEF Codes, Passing, Status
  <2>7. Status("patch", "INVALID_ARGUMENT") = 400
    BY DEF Passing, Status
  <2>8. \/ tab'[t].answer = 400 /\ text' = text
        \/ tab'[t].answer = 200 /\ all
        \/ tab'[t].answer \in {502, 503} /\ (all \/ text' = text)
    BY <2>1, <2>4, <2>5, <2>6, <2>7 DEF Patch
  <2>9. /\ 200 \notin {400, 502, 503} /\ 400 # 200
        /\ \A n \in {200, 502, 503} : n \notin 400 .. 499
    OBVIOUS
  <2>10. /\ all \/ text' = text
         /\ tab'[t].answer = 200 => all
         /\ tab'[t].answer \in 400 .. 499 => text' = text
    BY <2>8, <2>9
  <2> QED
    BY <2>10, Zenon DEF all, ask, Right
<1> HIDE DEF Whole
<1>4. WikiInv /\ [Next]_vars => [Whole]_vars
  BY <1>3
<1> USE DEF Right, Whole
<1> QED
  BY <1>1, <1>2, <1>4, PTL DEF Spec, PatchIsAllOrNothing
-----------------------------------------------------------------------------
(* What a page shows.                                                      *)

\* For the provers: a concatenation they need not look into.
Joint(a, b) == a \o b

\* The first i of some sequences, joined.
Joining(seqs) ==
  LET flatten[i \in 1 .. Len(seqs)] == IF i = 1 THEN seqs[i] ELSE Joint(flatten[i - 1], seqs[i])
  IN flatten

LEMMA JoiningSteps ==
  ASSUME NEW seqs, Len(seqs) \in Nat \ {0}
  PROVE  /\ Joining(seqs)[1] = seqs[1]
         /\ \A i \in 2 .. Len(seqs) : Joining(seqs)[i] = Joint(Joining(seqs)[i - 1], seqs[i])
<1> DEFINE m == Len(seqs)
           Sets(f, n) == f = [i \in 1 .. n |-> IF i = 1 THEN seqs[i] ELSE Joint(f[i - 1], seqs[i])]
           G == {n \in 0 .. m : \E f : Sets(f, n)}
<1>1. 0 \in G
  <2>1. Sets([i \in 1 .. 0 |-> seqs], 0)
    OBVIOUS
  <2>2. 0 \in 0 .. m
    OBVIOUS
  <2> HIDE DEF Sets
  <2> QED
    BY <2>1, <2>2
<1>2. ASSUME NEW n \in 1 .. m, n - 1 \in G
      PROVE  n \in G
  <2>1. PICK f : Sets(f, n - 1)
    BY <1>2
  <2> DEFINE g == [i \in 1 .. n |-> IF i = 1 THEN seqs[i] ELSE Joint(f[i - 1], seqs[i])]
  <2>2. \A i \in 1 .. n - 1 : g[i] = f[i]
    BY <2>1
  <2>3. \A i \in 1 .. n : i # 1 => i - 1 \in 1 .. n - 1
    OBVIOUS
  <2>4. \A i \in 1 .. n : i # 1 => g[i] = Joint(g[i - 1], seqs[i])
    BY <2>2, <2>3
  <2>5. Sets(g, n)
    BY <2>4
  <2>6. n \in 0 .. m
    OBVIOUS
  <2> HIDE DEF Sets, g
  <2> QED
    BY <2>5, <2>6
<1>3. 0 .. m \subseteq G
  <2> HIDE DEF G, m
  <2>1. m \in Nat
    BY DEF m
  <2> QED
    BY <1>1, <1>2, <2>1, Climb
<1>4. Sets(Joining(seqs), m)
  <2>1. \E f : Sets(f, m)
    <3>1. m \in 0 .. m
      OBVIOUS
    <3> HIDE DEF Sets, m
    <3> QED
      BY <1>3, <3>1
  <2>2. Joining(seqs) = CHOOSE f : Sets(f, m)
    BY DEF Joining
  <2> HIDE DEF Sets
  <2> QED
    BY <2>1, <2>2
<1> DEFINE c == Joining(seqs)
<1>5. c = [i \in 1 .. m |-> IF i = 1 THEN seqs[i] ELSE Joint(c[i - 1], seqs[i])]
  BY <1>4
<1> HIDE DEF c
<1>6. c[1] = seqs[1] /\ \A i \in 2 .. m : c[i] = Joint(c[i - 1], seqs[i])
  BY <1>5
<1> QED
  BY <1>6 DEF c

\* Sequences over S, joined, are a sequence over S.
LEMMA FlattenStays ==
  ASSUME NEW S, NEW n \in Nat, NEW seqs \in [1 .. n -> Seq(S)]
  PROVE  FlattenSeq(seqs) \in Seq(S)
<1>1. seqs \in Seq(Seq(S)) /\ Len(seqs) = n
  OBVIOUS
<1>2. CASE n = 0
  <2>1. seqs \in Seq(S)
    BY <1>2
  <2> QED
    BY <1>1, <1>2, <2>1 DEF FlattenSeq
<1>3. CASE n # 0
  <2> DEFINE c == Joining(seqs)
             G == {0} \cup {i \in 1 .. n : c[i] \in Seq(S)}
  <2>1. FlattenSeq(seqs) = c[n]
    BY <1>1, <1>3 DEF FlattenSeq, Joining, Joint
  <2>2. c[1] = seqs[1] /\ \A i \in 2 .. n : c[i] = Joint(c[i - 1], seqs[i])
    BY <1>1, <1>3, JoiningSteps
  <2> HIDE DEF c
  <2>3. ASSUME NEW i \in 1 .. n, i - 1 \in G
        PROVE  i \in G
    <3>1. CASE i = 1
      BY <2>2, <3>1
    <3>2. CASE i # 1
      <4>1. i \in 2 .. n /\ i - 1 \in 1 .. n
        BY <3>2
      <4>2. c[i - 1] \in Seq(S)
        BY <2>3, <4>1
      <4>3. Joint(c[i - 1], seqs[i]) \in Seq(S)
        BY <4>2, ConcatProperties DEF Joint
      <4> QED
        BY <2>2, <4>1, <4>3
    <3> QED
      BY <3>1, <3>2
  <2>4. 0 .. n \subseteq G
    <3>1. 0 \in G
      OBVIOUS
    <3> HIDE DEF G
    <3> QED
      BY <2>3, <3>1, Climb
  <2>5. n \in 1 .. n /\ n \in 0 .. n
    BY <1>3
  <2> QED
    BY <1>3, <2>1, <2>4, <2>5
<1> QED
  BY <1>2, <1>3

\* The walk below p when the walks below the blocks under p are f.
Own(b) == IF b.text = Blank THEN <<>> ELSE <<b.id>>

Items(reply, f, p) ==
  [i \in DOMAIN reply |-> IF reply[i].parent = p THEN Own(reply[i]) \o f[reply[i].id] ELSE <<>>]

Below(reply, f) == [p \in Int |-> FlattenSeq(Items(reply, f, p))]

\* f and g agree on what has fewer than k levels below it.
Agree(rank, f, g, k) == \A p \in Int : rank[p] < k => f[p] = g[p]

\* In s nothing comes twice, nothing comes before what is above it, and what is
\* below something follows it without a gap.
Ordered(s, up) ==
  /\ \A i, k \in DOMAIN s : s[i] = s[k] => i = k
  /\ \A i, k \in DOMAIN s : i < k =>
       /\ <<s[k], s[i]>> \notin up
       /\ <<s[i], s[k]>> \in up => \A j \in i + 1 .. k : <<s[i], s[j]>> \in up

Strangers(X, Y, up) == \A x \in X, y \in Y : x # y /\ <<x, y>> \notin up /\ <<y, x>> \notin up

LEMMA OrderedJoined ==
  ASSUME NEW S, NEW up, NEW a \in Seq(S), NEW b \in Seq(S), Ordered(a, up), Ordered(b, up),
         Strangers(ToSet(a), ToSet(b), up)
  PROVE  Ordered(a \o b, up)
<1> DEFINE m == Len(a)
           n == Len(b)
           s == a \o b
<1>1. /\ m \in Nat /\ n \in Nat /\ DOMAIN a = 1 .. m /\ DOMAIN b = 1 .. n /\ DOMAIN s = 1 .. m + n
      /\ \A i \in 1 .. m + n : s[i] = IF i <= m THEN a[i] ELSE b[i - m]
  BY ConcatProperties, LenProperties
<1>2. /\ \A i \in 1 .. m : i \in 1 .. m + n /\ s[i] = a[i] /\ a[i] \in ToSet(a)
      /\ \A i \in m + 1 .. m + n : i - m \in 1 .. n /\ s[i] = b[i - m] /\ b[i - m] \in ToSet(b)
  <2>1. \A i \in 1 .. m : i \in 1 .. m + n /\ i <= m
    BY <1>1
  <2>2. \A i \in m + 1 .. m + n : i \in 1 .. m + n /\ ~(i <= m) /\ i - m \in 1 .. n
    BY <1>1
  <2>3. (\A i \in 1 .. m : a[i] \in ToSet(a)) /\ \A i \in 1 .. n : b[i] \in ToSet(b)
    BY <1>1 DEF ToSet
  <2> HIDE DEF m, n, s
  <2> QED
    BY <1>1, <2>1, <2>2, <2>3
<1> HIDE DEF m, n, s
<1>3. \A i \in 1 .. m + n : i \in 1 .. m \/ i \in m + 1 .. m + n
  BY <1>1
<1>4. \A i \in 1 .. m, k \in m + 1 .. m + n :
        s[i] # s[k] /\ <<s[i], s[k]>> \notin up /\ <<s[k], s[i]>> \notin up
  BY <1>2 DEF Strangers
<1>5. ASSUME NEW i \in 1 .. m + n, NEW k \in 1 .. m + n, s[i] = s[k]
      PROVE  i = k
  <2>1. CASE i \in 1 .. m /\ k \in 1 .. m
    BY <1>1, <1>2, <1>5, <2>1 DEF Ordered
  <2>2. CASE i \in m + 1 .. m + n /\ k \in m + 1 .. m + n
    <3>1. i - m \in 1 .. n /\ k - m \in 1 .. n /\ b[i - m] = b[k - m]
      BY <1>2, <1>5, <2>2
    <3>2. \A p, q \in 1 .. n : b[p] = b[q] => p = q
      BY <1>1 DEF Ordered
    <3>3. i - m = k - m
      BY <3>1, <3>2
    <3> QED
      BY <1>1, <3>3
  <2> QED
    BY <1>3, <1>4, <1>5, <2>1, <2>2
<1>6. ASSUME NEW i \in 1 .. m + n, NEW k \in 1 .. m + n, i < k
      PROVE  /\ <<s[k], s[i]>> \notin up
             /\ <<s[i], s[k]>> \in up => \A j \in i + 1 .. k : <<s[i], s[j]>> \in up
  <2>1. CASE k \in 1 .. m
    <3>1. i \in 1 .. m /\ \A j \in i + 1 .. k : j \in 1 .. m
      BY <1>1, <1>6, <2>1
    <3>2. <<a[k], a[i]>> \notin up /\ (<<a[i], a[k]>> \in up => \A j \in i + 1 .. k : <<a[i], a[j]>> \in up)
      BY <1>1, <1>6, <2>1, <3>1 DEF Ordered
    <3> QED
      BY <1>2, <2>1, <3>1, <3>2
  <2>2. CASE i \in m + 1 .. m + n
    <3>1. k \in m + 1 .. m + n /\ i - m < k - m
      BY <1>1, <1>6, <2>2
    <3>2. \A j \in i + 1 .. k : j \in m + 1 .. m + n /\ j - m \in (i - m) + 1 .. k - m
      BY <1>1, <1>6, <2>2
    <3>3. i - m \in 1 .. n /\ k - m \in 1 .. n
      BY <1>2, <2>2, <3>1
    <3>4. /\ <<b[k - m], b[i - m]>> \notin up
          /\ <<b[i - m], b[k - m]>> \in up => \A j \in (i - m) + 1 .. k - m : <<b[i - m], b[j]>> \in up
      BY <1>1, <3>1, <3>3 DEF Ordered
    <3>5. s[i] = b[i - m] /\ s[k] = b[k - m] /\ \A j \in i + 1 .. k : s[j] = b[j - m]
      BY <1>2, <2>2, <3>1, <3>2
    <3> QED
      BY <3>2, <3>4, <3>5
  <2>3. CASE i \in 1 .. m /\ k \in m + 1 .. m + n
    BY <1>4, <2>3
  <2> QED
    BY <1>3, <2>1, <2>2, <2>3
<1> QED
  BY <1>1, <1>5, <1>6 DEF Ordered, s

\* What is below x may follow it.
LEMMA OrderedBelow ==
  ASSUME NEW S, NEW up, NEW x \in S, NEW b \in Seq(S), Ordered(b, up),
         \A y \in ToSet(b) : x # y /\ <<x, y>> \in up /\ <<y, x>> \notin up
  PROVE  Ordered(<<x>> \o b, up)
<1> DEFINE n == Len(b)
           s == <<x>> \o b
<1>1. /\ n \in Nat /\ DOMAIN b = 1 .. n /\ DOMAIN s = 1 .. 1 + n
      /\ \A i \in 1 .. 1 + n : s[i] = IF i <= 1 THEN x ELSE b[i - 1]
  <2>1. <<x>> \in Seq(S) /\ Len(<<x>>) = 1 /\ <<x>>[1] = x
    OBVIOUS
  <2> QED
    BY <2>1, ConcatProperties, LenProperties
<1>2. /\ s[1] = x
      /\ \A i \in 2 .. 1 + n : i - 1 \in 1 .. n /\ s[i] = b[i - 1] /\ s[i] \in ToSet(b)
  BY <1>1 DEF ToSet
<1> HIDE DEF n, s
<1>3. \A i \in 1 .. 1 + n : i = 1 \/ i \in 2 .. 1 + n
  BY <1>1
<1>4. ASSUME NEW i \in 1 .. 1 + n, NEW k \in 1 .. 1 + n, s[i] = s[k]
      PROVE  i = k
  <2>1. CASE i \in 2 .. 1 + n /\ k \in 2 .. 1 + n
    <3>1. i - 1 = k - 1
      BY <1>1, <1>2, <1>4, <2>1 DEF Ordered
    <3> QED
      BY <3>1
  <2> QED
    BY <1>2, <1>3, <1>4, <2>1
<1>5. ASSUME NEW i \in 1 .. 1 + n, NEW k \in 1 .. 1 + n, i < k
      PROVE  /\ <<s[k], s[i]>> \notin up
             /\ <<s[i], s[k]>> \in up => \A j \in i + 1 .. k : <<s[i], s[j]>> \in up
  <2>1. k \in 2 .. 1 + n
    BY <1>1, <1>5
  <2>2. CASE i = 1
    <3>1. \A j \in i + 1 .. k : j \in 2 .. 1 + n
      BY <1>1, <2>1, <2>2
    <3> QED
      BY <1>2, <2>1, <2>2, <3>1
  <2>3. CASE i \in 2 .. 1 + n
    <3>1. \A j \in i + 1 .. k : j \in 2 .. 1 + n /\ j - 1 \in (i - 1) + 1 .. k - 1
      BY <1>1, <2>1, <2>3
    <3>2. i - 1 \in 1 .. n /\ k - 1 \in 1 .. n /\ i - 1 < k - 1
      BY <1>1, <1>5, <2>1, <2>3
    <3>3. /\ <<b[k - 1], b[i - 1]>> \notin up
          /\ <<b[i - 1], b[k - 1]>> \in up => \A j \in (i - 1) + 1 .. k - 1 : <<b[i - 1], b[j]>> \in up
      <4>1. \A p, q \in 1 .. n : p < q =>
              /\ <<b[q], b[p]>> \notin up
              /\ <<b[p], b[q]>> \in up => \A j \in p + 1 .. q : <<b[p], b[j]>> \in up
        BY <1>1 DEF Ordered
      <4> QED
        BY <3>2, <4>1
    <3>4. s[i] = b[i - 1] /\ s[k] = b[k - 1] /\ \A j \in i + 1 .. k : s[j] = b[j - 1]
      BY <1>2, <2>1, <2>3, <3>1
    <3> QED
      BY <3>1, <3>3, <3>4
  <2> QED
    BY <1>3, <2>2, <2>3
<1> QED
  BY <1>1, <1>4, <1>5 DEF Ordered, s

\* Ordered sequences that have nothing to do with each other are in order together.
LEMMA FlattenOrdered ==
  ASSUME NEW S, NEW n \in Nat, NEW seqs \in [1 .. n -> Seq(S)], NEW up,
         \A i \in 1 .. n : Ordered(seqs[i], up),
         \A i, k \in 1 .. n : i # k => Strangers(ToSet(seqs[i]), ToSet(seqs[k]), up)
  PROVE  /\ Ordered(FlattenSeq(seqs), up)
         /\ ToSet(FlattenSeq(seqs)) = UNION {ToSet(seqs[i]) : i \in 1 .. n}
<1>1. seqs \in Seq(Seq(S)) /\ Len(seqs) = n
  OBVIOUS
<1>2. CASE n = 0
  <2>1. FlattenSeq(seqs) = seqs /\ DOMAIN seqs = {}
    BY <1>1, <1>2 DEF FlattenSeq
  <2>2. Ordered(seqs, up) /\ ToSet(seqs) = {}
    BY <2>1 DEF Ordered, ToSet
  <2> QED
    BY <1>2, <2>1, <2>2
<1>3. CASE n # 0
  <2> DEFINE c == Joining(seqs)
             All(i) == UNION {ToSet(seqs[k]) : k \in 1 .. i}
             G == {0} \cup {i \in 1 .. n : c[i] \in Seq(S) /\ Ordered(c[i], up) /\ ToSet(c[i]) = All(i)}
  <2>1. FlattenSeq(seqs) = c[n]
    BY <1>1, <1>3 DEF FlattenSeq, Joining, Joint
  <2>2. c[1] = seqs[1] /\ \A i \in 2 .. n : c[i] = Joint(c[i - 1], seqs[i])
    BY <1>1, <1>3, JoiningSteps
  <2> HIDE DEF c
  <2>3. ASSUME NEW i \in 1 .. n, i - 1 \in G
        PROVE  i \in G
    <3>1. CASE i = 1
      <4>1. All(1) = ToSet(seqs[1])
        OBVIOUS
      <4> HIDE DEF All
      <4> QED
        BY <2>2, <3>1, <4>1
    <3>2. CASE i # 1
      <4>1. i \in 2 .. n /\ i - 1 \in 1 .. n
        BY <3>2
      <4> DEFINE a == c[i - 1]
                 b == seqs[i]
      <4>2. a \in Seq(S) /\ Ordered(a, up) /\ ToSet(a) = All(i - 1) /\ c[i] = a \o b
        <5>1. i - 1 # 0
          BY <4>1
        <5> HIDE DEF All
        <5>2. a \in Seq(S) /\ Ordered(a, up) /\ ToSet(a) = All(i - 1)
          BY <2>3, <5>1
        <5> QED
          BY <2>2, <4>1, <5>2 DEF Joint
      <4>3. \A k \in 1 .. i - 1 : Strangers(ToSet(seqs[k]), ToSet(b), up)
        BY <4>1
      <4>4. Strangers(All(i - 1), ToSet(b), up)
        <5> HIDE DEF b
        <5> QED
          BY <4>3 DEF Strangers
      <4>5. All(i) = All(i - 1) \cup ToSet(b)
        <5>1. \A k : k \in 1 .. i <=> k \in 1 .. i - 1 \/ k = i
          BY <4>1
        <5> QED
          BY <5>1
      <4>6. b \in Seq(S) /\ Ordered(b, up)
        OBVIOUS
      <4> HIDE DEF a, b, All
      <4>7. a \o b \in Seq(S) /\ ToSet(a \o b) = ToSet(a) \cup ToSet(b)
        BY <4>2, <4>6, Joined
      <4>8. Ordered(a \o b, up)
        BY <4>2, <4>4, <4>6, OrderedJoined
      <4> QED
        BY <4>2, <4>5, <4>7, <4>8
    <3> QED
      BY <3>1, <3>2
  <2>4. 0 .. n \subseteq G
    <3>1. 0 \in G
      OBVIOUS
    <3> HIDE DEF G
    <3> QED
      BY <2>3, <3>1, Climb
  <2>5. n \in 1 .. n /\ n \in 0 .. n
    BY <1>3
  <2>6. Ordered(c[n], up) /\ ToSet(c[n]) = All(n)
    <3> HIDE DEF All
    <3> QED
      BY <1>3, <2>4, <2>5
  <2> QED
    BY <2>1, <2>6
<1> QED
  BY <1>2, <1>3

\* Blocks on three levels, each below one of the level above it or, on the
\* topmost, below None.
Levelled(ids, par, lev) ==
  /\ ids \subseteq Int \ {None}
  /\ par \in [ids -> ids \cup {None}]
  /\ lev \in [ids \cup {None} -> 0 .. 3] /\ lev[None] = 3
  /\ \A x \in ids : lev[par[x]] = lev[x] + 1

\* What is above each block.
Over(ids, par) ==
  {q \in (ids \cup {None}) \X ids :
     \/ q[1] = par[q[2]]
     \/ /\ par[q[2]] \in ids
        /\ \/ q[1] = par[par[q[2]]]
           \/ par[par[q[2]]] \in ids /\ q[1] = par[par[par[q[2]]]]}

LEMMA LevelFacts ==
  ASSUME NEW ids, NEW par, NEW lev, Levelled(ids, par, lev)
  PROVE  /\ \A x \in ids \cup {None} : lev[x] \in 0 .. 3
         /\ \A x \in ids : lev[x] \in 0 .. 2 /\ par[x] \in ids \cup {None} /\ lev[par[x]] = lev[x] + 1
<1>1. \A x \in ids \cup {None} : lev[x] \in 0 .. 3
  BY DEF Levelled
<1>2. \A x \in ids : par[x] \in ids \cup {None} /\ lev[par[x]] = lev[x] + 1
  BY DEF Levelled
<1>3. \A x \in ids : lev[par[x]] \in 0 .. 3 /\ lev[x] \in 0 .. 3
  BY <1>1, <1>2
<1>4. \A x \in ids : lev[x] \in 0 .. 2
  BY <1>2, <1>3
<1> QED
  BY <1>1, <1>2, <1>4

\* A block is below its parent and what its parent is below.
LEMMA OverSteps ==
  ASSUME NEW ids, NEW par, NEW lev, Levelled(ids, par, lev), NEW x \in ids, NEW a
  PROVE  <<a, x>> \in Over(ids, par) <=> a = par[x] \/ (par[x] \in ids /\ <<a, par[x]>> \in Over(ids, par))
<1> DEFINE p == par[x]
<1>1. \A z \in ids : par[z] \in ids \cup {None} /\ lev[z] \in 0 .. 2 /\ lev[par[z]] = lev[z] + 1
  BY LevelFacts
<1>2. \A z \in ids : \A b :
        <<b, z>> \in Over(ids, par) <=>
          /\ b \in ids \cup {None}
          /\ \/ b = par[z]
             \/ par[z] \in ids /\ (b = par[par[z]] \/ (par[par[z]] \in ids /\ b = par[par[par[z]]]))
  BY DEF Over
<1>3. p \in ids => ~(par[p] \in ids /\ par[par[p]] \in ids)
  <2> SUFFICES ASSUME p \in ids, par[p] \in ids, par[par[p]] \in ids
               PROVE  FALSE
    OBVIOUS
  <2>1. lev[p] = lev[x] + 1 /\ lev[par[p]] = lev[p] + 1 /\ lev[par[par[p]]] = lev[par[p]] + 1
    BY <1>1
  <2>2. lev[x] \in 0 .. 2 /\ lev[p] \in 0 .. 2 /\ lev[par[p]] \in 0 .. 2 /\ lev[par[par[p]]] \in 0 .. 2
    BY <1>1
  <2> QED
    BY <2>1, <2>2
<1>4. <<a, x>> \in Over(ids, par) <=>
          /\ a \in ids \cup {None}
          /\ \/ a = p
             \/ p \in ids /\ (a = par[p] \/ (par[p] \in ids /\ a = par[par[p]]))
  BY <1>2
<1>5. p \in ids => (<<a, p>> \in Over(ids, par) <=>
          /\ a \in ids \cup {None}
          /\ \/ a = par[p]
             \/ par[p] \in ids /\ (a = par[par[p]] \/ (par[par[p]] \in ids /\ a = par[par[par[p]]])))
  BY <1>2
<1>6. p \in ids \cup {None}
  BY <1>1
<1> HIDE DEF p
<1>7. <<a, x>> \in Over(ids, par) <=> a = p \/ (p \in ids /\ <<a, p>> \in Over(ids, par))
  BY <1>3, <1>4, <1>5, <1>6
<1> QED
  BY <1>7 DEF p

\* What is above is on a higher level.
LEMMA OverIsHigher ==
  ASSUME NEW ids, NEW par, NEW lev, Levelled(ids, par, lev)
  PROVE  \A x \in ids : \A a : <<a, x>> \in Over(ids, par) => a \in ids \cup {None} /\ lev[a] > lev[x]
<1> DEFINE up == Over(ids, par)
           G == {k \in 0 .. 3 : \A x \in ids : \A a :
                   lev[x] >= 3 - k /\ <<a, x>> \in up => lev[a] > lev[x]}
<1>1. \A x \in ids : lev[x] \in 0 .. 2 /\ par[x] \in ids \cup {None} /\ lev[par[x]] = lev[x] + 1
  BY LevelFacts
<1>2. 0 \in G
  BY <1>1
<1>3. \A x \in ids : \A a : <<a, x>> \in up => a \in ids \cup {None}
  BY DEF Over
<1>4. \A x \in ids \cup {None} : lev[x] \in Int
  BY LevelFacts
<1>5. \A x \in ids : \A a : <<a, x>> \in up <=> a = par[x] \/ (par[x] \in ids /\ <<a, par[x]>> \in up)
  BY OverSteps
<1> HIDE DEF up
<1>6. ASSUME NEW k \in 1 .. 3, k - 1 \in G
      PROVE  k \in G
  <2>1. ASSUME NEW x \in ids, NEW a, lev[x] >= 3 - k, <<a, x>> \in up
        PROVE  lev[a] > lev[x]
    <3>1. CASE a = par[x]
      BY <1>1, <3>1
    <3>2. CASE par[x] \in ids /\ <<a, par[x]>> \in up
      <4>1. lev[par[x]] >= 3 - (k - 1)
        BY <1>1, <2>1
      <4>2. lev[a] > lev[par[x]]
        BY <1>6, <3>2, <4>1
      <4>3. lev[a] \in Int /\ lev[x] \in Int /\ lev[par[x]] = lev[x] + 1
        BY <1>1, <1>3, <1>4, <2>1
      <4> QED
        BY <4>2, <4>3
    <3> QED
      BY <1>5, <2>1, <3>1, <3>2
  <2> QED
    BY <2>1
<1>7. 3 \in G
  <2> HIDE DEF G
  <2> QED
    BY <1>2, <1>6, Climb
<1>8. \A x \in ids : lev[x] >= 3 - 3
  BY <1>1
<1> QED
  BY <1>3, <1>7, <1>8 DEF up

\* Above a block are its parent and what is above that one, for every block
\* above the block too.
LEMMA OverIsTransitive ==
  ASSUME NEW ids, NEW par, NEW lev, Levelled(ids, par, lev)
  PROVE  \A a : \A b, c \in ids :
           <<a, b>> \in Over(ids, par) /\ <<b, c>> \in Over(ids, par) => <<a, c>> \in Over(ids, par)
<1> DEFINE up == Over(ids, par)
           G == {k \in 0 .. 3 : \A a : \A b, c \in ids :
                   lev[c] >= 3 - k /\ <<a, b>> \in up /\ <<b, c>> \in up => <<a, c>> \in up}
<1>1. \A x \in ids : lev[x] \in 0 .. 2 /\ par[x] \in ids \cup {None} /\ lev[par[x]] = lev[x] + 1
  BY LevelFacts
<1>2. 0 \in G
  BY <1>1
<1>3. \A x \in ids : \A a : <<a, x>> \in up <=> a = par[x] \/ (par[x] \in ids /\ <<a, par[x]>> \in up)
  BY OverSteps
<1> HIDE DEF up
<1>4. ASSUME NEW k \in 1 .. 3, k - 1 \in G
      PROVE  k \in G
  <2>1. ASSUME NEW a, NEW b \in ids, NEW c \in ids, lev[c] >= 3 - k, <<a, b>> \in up, <<b, c>> \in up
        PROVE  <<a, c>> \in up
    <3>1. CASE b = par[c]
      BY <1>3, <2>1, <3>1
    <3>2. CASE par[c] \in ids /\ <<b, par[c]>> \in up
      <4>1. lev[par[c]] >= 3 - (k - 1)
        BY <1>1, <2>1
      <4>2. <<a, par[c]>> \in up
        BY <1>4, <2>1, <3>2, <4>1
      <4> QED
        BY <1>3, <3>2, <4>2
    <3> QED
      BY <1>3, <2>1, <3>1, <3>2
  <2> QED
    BY <2>1
<1>5. 3 \in G
  <2> HIDE DEF G
  <2> QED
    BY <1>2, <1>4, Climb
<1>6. \A x \in ids : lev[x] >= 3 - 3
  BY <1>1
<1> QED
  BY <1>5, <1>6 DEF up

\* x, or below x.
Within(x, y, up) == y = x \/ <<x, y>> \in up

\* What is below p is a child of p or below one.
LEMMA OverAChild ==
  ASSUME NEW ids, NEW par, NEW lev, Levelled(ids, par, lev)
  PROVE  \A p : \A y \in ids : <<p, y>> \in Over(ids, par) <=>
           \E x \in ids : par[x] = p /\ Within(x, y, Over(ids, par))
<1> DEFINE up == Over(ids, par)
           G == {k \in 0 .. 3 : \A p : \A y \in ids :
                   lev[y] >= 3 - k /\ <<p, y>> \in up => \E x \in ids : par[x] = p /\ Within(x, y, up)}
<1>1. \A x \in ids : lev[x] \in 0 .. 2 /\ par[x] \in ids \cup {None} /\ lev[par[x]] = lev[x] + 1
  BY LevelFacts
<1>2. 0 \in G
  BY <1>1
<1>3. \A x \in ids : \A a : <<a, x>> \in up <=> a = par[x] \/ (par[x] \in ids /\ <<a, par[x]>> \in up)
  BY OverSteps
<1>4. \A a : \A b, c \in ids : <<a, b>> \in up /\ <<b, c>> \in up => <<a, c>> \in up
  BY OverIsTransitive
<1> HIDE DEF up
<1>5. ASSUME NEW k \in 1 .. 3, k - 1 \in G
      PROVE  k \in G
  <2>1. ASSUME NEW p, NEW y \in ids, lev[y] >= 3 - k, <<p, y>> \in up
        PROVE  \E x \in ids : par[x] = p /\ Within(x, y, up)
    <3>1. CASE p = par[y]
      BY <3>1 DEF Within
    <3>2. CASE par[y] \in ids /\ <<p, par[y]>> \in up
      <4>1. lev[par[y]] >= 3 - (k - 1)
        BY <1>1, <2>1
      <4>2. PICK x \in ids : par[x] = p /\ Within(x, par[y], up)
        BY <1>5, <3>2, <4>1
      <4>3. <<x, y>> \in up
        BY <1>3, <3>2, <4>2 DEF Within
      <4> QED
        BY <4>2, <4>3 DEF Within
    <3> QED
      BY <1>3, <2>1, <3>1, <3>2
  <2> QED
    BY <2>1
<1>6. 3 \in G
  <2> HIDE DEF G
  <2> QED
    BY <1>2, <1>5, Climb
<1>7. \A x \in ids : lev[x] >= 3 - 3
  BY <1>1
<1>8. ASSUME NEW p, NEW y \in ids, NEW x \in ids, par[x] = p, Within(x, y, up)
      PROVE  <<p, y>> \in up
  <2>1. <<p, x>> \in up
    BY <1>3, <1>8
  <2> QED
    BY <1>4, <1>8, <2>1 DEF Within
<1>9. \A p : \A y \in ids : <<p, y>> \in up => \E x \in ids : par[x] = p /\ Within(x, y, up)
  BY <1>6, <1>7
<1>10. \A p : \A y \in ids : <<p, y>> \in up <=> \E x \in ids : par[x] = p /\ Within(x, y, up)
  BY <1>8, <1>9
<1> QED
  BY <1>10 DEF up

\* Nothing is within two children of one parent.
LEMMA ChildrenApart ==
  ASSUME NEW ids, NEW par, NEW lev, Levelled(ids, par, lev)
  PROVE  \A a, b, y \in ids :
           par[a] = par[b] /\ Within(a, y, Over(ids, par)) /\ Within(b, y, Over(ids, par)) => a = b
<1> DEFINE up == Over(ids, par)
           G == {k \in 0 .. 3 : \A a, b, y \in ids :
                   lev[y] >= 3 - k /\ par[a] = par[b] /\ Within(a, y, up) /\ Within(b, y, up) => a = b}
<1>1. \A x \in ids : lev[x] \in 0 .. 2 /\ par[x] \in ids \cup {None} /\ lev[par[x]] = lev[x] + 1
  BY LevelFacts
<1>2. 0 \in G
  BY <1>1
<1>3. \A x \in ids : \A a : <<a, x>> \in up <=> a = par[x] \/ (par[x] \in ids /\ <<a, par[x]>> \in up)
  BY OverSteps
<1>4. \A x \in ids : \A a : <<a, x>> \in up => lev[a] > lev[x]
  BY OverIsHigher
<1> HIDE DEF up
<1>5. \A a, b \in ids : par[a] = par[b] => lev[a] = lev[b]
  <2> SUFFICES ASSUME NEW a \in ids, NEW b \in ids, par[a] = par[b]
               PROVE  lev[a] = lev[b]
    OBVIOUS
  <2>1. lev[a] + 1 = lev[b] + 1 /\ lev[a] \in Int /\ lev[b] \in Int
    BY <1>1
  <2> QED
    BY <2>1
<1>6. ASSUME NEW k \in 1 .. 3, k - 1 \in G
      PROVE  k \in G
  <2>1. ASSUME NEW a \in ids, NEW b \in ids, NEW y \in ids,
               lev[y] >= 3 - k, par[a] = par[b], Within(a, y, up), Within(b, y, up)
        PROVE  a = b
    <3>1. lev[a] = lev[b] /\ lev[a] \in Int /\ lev[b] \in Int
      BY <1>1, <1>5, <2>1
    <3>2. CASE y = a \/ y = b
      <4>1. ~(lev[a] > lev[b]) /\ ~(lev[b] > lev[a])
        BY <3>1
      <4> QED
        BY <1>4, <2>1, <3>2, <4>1 DEF Within
    <3>3. CASE y # a /\ y # b
      <4>1. <<a, y>> \in up /\ <<b, y>> \in up
        BY <2>1, <3>3 DEF Within
      <4>2. CASE par[y] \notin ids
        <5>1. a = par[y]
          BY <1>3, <4>1, <4>2
        <5>2. b = par[y]
          BY <1>3, <4>1, <4>2
        <5> QED
          BY <5>1, <5>2
      <4>3. CASE par[y] \in ids
        <5>1. Within(a, par[y], up) /\ Within(b, par[y], up)
          BY <1>3, <4>1 DEF Within
        <5>2. lev[par[y]] >= 3 - (k - 1)
          BY <1>1, <2>1
        <5> QED
          BY <1>6, <2>1, <4>3, <5>1, <5>2
      <4> QED
        BY <4>2, <4>3
    <3> QED
      BY <3>2, <3>3
  <2> QED
    BY <2>1
<1>7. 3 \in G
  <2> HIDE DEF G
  <2> QED
    BY <1>2, <1>6, Climb
<1>8. \A x \in ids : lev[x] >= 3 - 3
  BY <1>1
<1> QED
  BY <1>7, <1>8 DEF up

\* Where the blocks have fewer levels below them than what they are under, the
\* walk ends.
LEMMA WalkEnds ==
  ASSUME NEW n \in Nat, NEW reply, DOMAIN reply = 1 .. n,
         NEW rank \in [Int -> 0 .. 3],
         \A i \in 1 .. n : /\ reply[i].id \in Int /\ reply[i].parent \in Int
                           /\ rank[reply[i].id] < rank[reply[i].parent]
  PROVE  \E walk : walk = Below(reply, walk) /\ ContentBlocks(reply) = walk[None]
<1>a. \A p \in Int : rank[p] \in Nat
  OBVIOUS
<1>b. \A i \in 1 .. n : /\ reply[i].id \in Int /\ reply[i].parent \in Int
                        /\ rank[reply[i].id] < rank[reply[i].parent]
  OBVIOUS
<1>1. ASSUME NEW f, NEW g, NEW k \in Nat, Agree(rank, f, g, k)
      PROVE  Agree(rank, Below(reply, f), Below(reply, g), k + 1)
  <2> SUFFICES ASSUME NEW p \in Int, rank[p] < k + 1
               PROVE  Below(reply, f)[p] = Below(reply, g)[p]
    BY DEF Agree
  <2>1. ASSUME NEW i \in 1 .. n, reply[i].parent = p
        PROVE  f[reply[i].id] = g[reply[i].id]
    <3>1. rank[reply[i].id] < rank[p] /\ reply[i].id \in Int
      BY <1>b, <2>1
    <3>2. rank[reply[i].id] < k
      <4>1. rank[p] \in Nat /\ rank[reply[i].id] \in Nat
        BY <1>a, <3>1
      <4> QED
        BY <3>1, <4>1
    <3> QED
      BY <1>1, <3>1, <3>2 DEF Agree
  <2>2. Items(reply, f, p) = Items(reply, g, p)
    BY <2>1 DEF Items
  <2> QED
    BY <2>2 DEF Below
<1> DEFINE f0 == [p \in Int |-> <<>>]
<1>2. PICK f1 : f1 = Below(reply, f0)
  OBVIOUS
<1>3. PICK f2 : f2 = Below(reply, f1)
  OBVIOUS
<1>4. PICK f3 : f3 = Below(reply, f2)
  OBVIOUS
<1>5. PICK f4 : f4 = Below(reply, f3)
  OBVIOUS
<1>6. Below(reply, f4) = f4
  <2>1. Agree(rank, f0, f1, 0)
    BY DEF Agree
  <2> HIDE DEF f0
  <2>2. Agree(rank, f1, f2, 1)
    BY <1>1, <1>2, <1>3, <2>1
  <2>3. Agree(rank, f2, f3, 2)
    BY <1>1, <1>3, <1>4, <2>2
  <2>4. Agree(rank, f3, f4, 3)
    BY <1>1, <1>4, <1>5, <2>3
  <2>5. Agree(rank, f4, Below(reply, f4), 4)
    BY <1>1, <1>5, <2>4
  <2>6. \A p \in Int : f4[p] = Below(reply, f4)[p]
    BY <2>5 DEF Agree
  <2>7. f4 = [p \in Int |-> f4[p]] /\ Below(reply, f4) = [p \in Int |-> Below(reply, f4)[p]]
    BY <1>5 DEF Below
  <2> QED
    BY <2>6, <2>7
<1> DEFINE walk == CHOOSE f : f = Below(reply, f)
<1>7. walk = Below(reply, walk)
  BY <1>6
<1>8. ContentBlocks(reply) = walk[None]
  BY DEF ContentBlocks, Below, Items, Own
<1> QED
  BY <1>7, <1>8

\* Every block is below None.
LEMMA AllBelowNone ==
  ASSUME NEW ids, NEW par, NEW lev, Levelled(ids, par, lev)
  PROVE  \A x \in ids : <<None, x>> \in Over(ids, par)
<1> DEFINE up == Over(ids, par)
           G == {k \in 0 .. 3 : \A x \in ids : lev[x] >= 3 - k => <<None, x>> \in up}
<1>1. \A x \in ids : lev[x] \in 0 .. 2 /\ par[x] \in ids \cup {None} /\ lev[par[x]] = lev[x] + 1
  BY LevelFacts
<1>2. 0 \in G
  BY <1>1
<1>3. \A x \in ids : \A a : <<a, x>> \in up <=> a = par[x] \/ (par[x] \in ids /\ <<a, par[x]>> \in up)
  BY OverSteps
<1> HIDE DEF up
<1>4. ASSUME NEW k \in 1 .. 3, k - 1 \in G
      PROVE  k \in G
  <2>1. ASSUME NEW x \in ids, lev[x] >= 3 - k
        PROVE  <<None, x>> \in up
    <3>1. CASE par[x] = None
      BY <1>3, <3>1
    <3>2. CASE par[x] \in ids
      <4>1. lev[par[x]] >= 3 - (k - 1)
        BY <1>1, <2>1
      <4> QED
        BY <1>3, <1>4, <3>2, <4>1
    <3> QED
      BY <1>1, <3>1, <3>2
  <2> QED
    BY <2>1
<1>5. 3 \in G
  <2> HIDE DEF G
  <2> QED
    BY <1>2, <1>4, Climb
<1>6. \A x \in ids : lev[x] >= 3 - 3
  BY <1>1
<1> QED
  BY <1>5, <1>6 DEF up

\* A reply that lists the blocks, each one once.
Lists(reply, ids, par, lev) ==
  /\ Levelled(ids, par, lev)
  /\ \E n \in Nat : DOMAIN reply = 1 .. n
  /\ \A i \in DOMAIN reply : reply[i].id \in ids /\ reply[i].parent = par[reply[i].id]
  /\ \A i, k \in DOMAIN reply : reply[i].id = reply[k].id => i = k
  /\ \A x \in ids : \E i \in DOMAIN reply : reply[i].id = x

Filled(reply) == {reply[i].id : i \in {k \in DOMAIN reply : reply[k].text # Blank}}

\* What a walk has that starts at p.
Tells(s, p, reply, ids, up) ==
  s \in Seq(ids) /\ Ordered(s, up) /\ ToSet(s) = {y \in Filled(reply) : <<p, y>> \in up}

\* What it has of one child of p, when it has told what is below that one.
LEMMA ChildTold ==
  ASSUME NEW reply, NEW ids, NEW par, NEW lev, Lists(reply, ids, par, lev), NEW i \in DOMAIN reply,
         NEW w, Tells(w, reply[i].id, reply, ids, Over(ids, par))
  PROVE  /\ Own(reply[i]) \o w \in Seq(ids) /\ Ordered(Own(reply[i]) \o w, Over(ids, par))
         /\ ToSet(Own(reply[i]) \o w) = {y \in Filled(reply) : Within(reply[i].id, y, Over(ids, par))}
<1> DEFINE x == reply[i].id
           up == Over(ids, par)
           own == Own(reply[i])
<1>1. Levelled(ids, par, lev) /\ x \in ids
  BY DEF Lists
<1>2. w \in Seq(ids) /\ Ordered(w, up) /\ ToSet(w) = {y \in Filled(reply) : <<x, y>> \in up}
  BY DEF Tells
<1>3. Filled(reply) \subseteq ids
  BY DEF Filled, Lists
<1>4. x \in Filled(reply) <=> reply[i].text # Blank
  <2>1. \A k \in DOMAIN reply : reply[k].id = x => k = i
    BY DEF Lists
  <2> QED
    BY <2>1 DEF Filled
<1>5. \A a, b \in ids : <<a, b>> \in up => lev[a] > lev[b] /\ lev[a] \in Int /\ lev[b] \in Int
  BY <1>1, OverIsHigher, LevelFacts
<1> HIDE DEF up
<1>6. \A y \in ids : <<x, y>> \in up => x # y /\ <<y, x>> \notin up
  <2> SUFFICES ASSUME NEW y \in ids, <<x, y>> \in up
               PROVE  x # y /\ <<y, x>> \notin up
    OBVIOUS
  <2> HIDE DEF x
  <2>1. lev[x] > lev[y] /\ lev[x] \in Int /\ lev[y] \in Int
    BY <1>1, <1>5
  <2>2. ~(lev[y] > lev[x]) /\ lev[x] # lev[y]
    BY <2>1
  <2> QED
    BY <1>1, <1>5, <2>2
<1>7. {y \in Filled(reply) : Within(x, y, up)} =
        (IF reply[i].text = Blank THEN {} ELSE {x}) \cup ToSet(w)
  BY <1>2, <1>4 DEF Within
<1> HIDE DEF x
<1>8. CASE reply[i].text = Blank
  <2>1. own \o w = w
    <3>1. own = <<>>
      BY <1>8 DEF Own
    <3> QED
      BY <1>2, <3>1
  <2> QED
    BY <1>2, <1>7, <1>8, <2>1 DEF x, up
<1>9. CASE reply[i].text # Blank
  <2>1. own = <<x>> /\ <<x>> \in Seq(ids) /\ ToSet(<<x>>) = {x}
    BY <1>1, <1>9 DEF ToSet, Own, x
  <2>2. Ordered(<<x>> \o w, up)
    BY <1>1, <1>2, <1>3, <1>6, OrderedBelow
  <2>3. <<x>> \o w \in Seq(ids) /\ ToSet(<<x>> \o w) = {x} \cup ToSet(w)
    <3> DEFINE only == <<x>>
    <3>1. only \in Seq(ids) /\ ToSet(only) = {x} /\ w \in Seq(ids)
      BY <1>2, <2>1
    <3> HIDE DEF only
    <3>2. only \o w \in Seq(ids) /\ ToSet(only \o w) = ToSet(only) \cup ToSet(w)
      BY <3>1, Joined
    <3> QED
      BY <3>1, <3>2 DEF only
  <2> QED
    BY <1>7, <1>9, <2>1, <2>2, <2>3 DEF x, up
<1> QED
  BY <1>8, <1>9

\* What there is in two children of p has nothing to do with each other.
LEMMA ChildrenAreStrangers ==
  ASSUME NEW ids, NEW par, NEW lev, Levelled(ids, par, lev), NEW a \in ids, NEW b \in ids,
         a # b, par[a] = par[b], NEW F, F \subseteq ids
  PROVE  LET up == Over(ids, par)
         IN Strangers({y \in F : Within(a, y, up)}, {y \in F : Within(b, y, up)}, up)
<1> DEFINE up == Over(ids, par)
<1>1. \A y \in ids : ~(Within(a, y, up) /\ Within(b, y, up))
  BY ChildrenApart
<1>2. \A q : \A y, z \in ids : <<q, y>> \in up /\ <<y, z>> \in up => <<q, z>> \in up
  BY OverIsTransitive
<1> HIDE DEF up
<1>3. \A q, y, z \in ids : Within(q, y, up) /\ <<y, z>> \in up => Within(q, z, up)
  BY <1>2 DEF Within
<1>4. Strangers({y \in F : Within(a, y, up)}, {y \in F : Within(b, y, up)}, up)
  BY <1>1, <1>3 DEF Strangers
<1> QED
  BY <1>4 DEF up

\* A walk that starts at None tells every block with a text, in order.
LEMMA WalkTells ==
  ASSUME NEW reply, NEW ids, NEW par, NEW lev, Lists(reply, ids, par, lev)
  PROVE  LET s == ContentBlocks(reply)
         IN s \in Seq(ids) /\ Ordered(s, Over(ids, par)) /\ ToSet(s) = Filled(reply)
<1> DEFINE up == Over(ids, par)
           F == Filled(reply)
           rank == [p \in Int |-> IF p \in ids \cup {None} THEN lev[p] ELSE 0]
<1>1. PICK n \in Nat : DOMAIN reply = 1 .. n
  BY DEF Lists
<1>2. Levelled(ids, par, lev) /\ ids \subseteq Int \ {None} /\ None \in Int
  BY DEF Lists, Levelled, None
<1>3. /\ \A x \in ids \cup {None} : lev[x] \in 0 .. 3
      /\ \A x \in ids : lev[x] \in 0 .. 2 /\ par[x] \in ids \cup {None} /\ lev[par[x]] = lev[x] + 1
  BY <1>2, LevelFacts
<1>4. \A i \in 1 .. n : reply[i].id \in ids /\ reply[i].parent = par[reply[i].id]
  BY <1>1 DEF Lists
<1>5. F \subseteq ids
  BY <1>1, <1>4 DEF Filled
<1>6. \E walk : walk = Below(reply, walk) /\ ContentBlocks(reply) = walk[None]
  <2>1. rank \in [Int -> 0 .. 3]
    BY <1>3
  <2>2. ASSUME NEW i \in 1 .. n
        PROVE  /\ reply[i].id \in Int /\ reply[i].parent \in Int
               /\ rank[reply[i].id] < rank[reply[i].parent]
    <3> DEFINE x == reply[i].id
    <3>1. x \in ids /\ reply[i].parent = par[x]
      BY <1>4
    <3> HIDE DEF x
    <3>2. rank[x] = lev[x] /\ rank[par[x]] = lev[x] + 1 /\ lev[x] \in Int /\ par[x] \in Int /\ x \in Int
      BY <1>2, <1>3, <3>1
    <3> QED
      BY <3>1, <3>2 DEF x
  <2> HIDE DEF rank
  <2> QED
    BY <1>1, <2>1, <2>2, WalkEnds
<1>7. PICK walk : walk = Below(reply, walk) /\ ContentBlocks(reply) = walk[None]
  BY <1>6
<1> HIDE DEF up
<1> DEFINE G == {k \in 0 .. 4 : \A p \in ids \cup {None} : lev[p] < k => Tells(walk[p], p, reply, ids, up)}
<1>8. ASSUME NEW k \in 1 .. 4, k - 1 \in G
      PROVE  k \in G
  <2>1. ASSUME NEW p \in ids \cup {None}, lev[p] < k
        PROVE  Tells(walk[p], p, reply, ids, up)
    <3> DEFINE items == Items(reply, walk, p)
               Of(x) == {y \in F : Within(x, y, up)}
    <3>1. ASSUME NEW i \in 1 .. n, reply[i].parent = p
          PROVE  items[i] \in Seq(ids) /\ Ordered(items[i], up) /\ ToSet(items[i]) = Of(reply[i].id)
      <4>1. lev[reply[i].id] < k - 1 /\ reply[i].id \in ids
        <5>1. reply[i].id \in ids /\ lev[p] = lev[reply[i].id] + 1 /\ lev[reply[i].id] \in Int
          BY <1>3, <1>4, <3>1
        <5> QED
          BY <2>1, <5>1
      <4>2. Tells(walk[reply[i].id], reply[i].id, reply, ids, up)
        BY <1>8, <4>1
      <4>3. items[i] = Own(reply[i]) \o walk[reply[i].id]
        BY <1>1, <3>1 DEF Items
      <4> DEFINE t == Own(reply[i]) \o walk[reply[i].id]
      <4>4. i \in DOMAIN reply
        BY <1>1
      <4> HIDE DEF items
      <4>5. t \in Seq(ids) /\ Ordered(t, up) /\ ToSet(t) = {y \in F : Within(reply[i].id, y, up)}
        <5> HIDE DEF G, rank
        <5>1. Tells(walk[reply[i].id], reply[i].id, reply, ids, Over(ids, par))
          BY <4>2 DEF up
        <5> QED
          BY ONLY <4>4, <5>1, Lists(reply, ids, par, lev), ChildTold DEF up
      <4> QED
        BY <4>3, <4>5
    <3>2. ASSUME NEW i \in 1 .. n, reply[i].parent # p
          PROVE  items[i] \in Seq(ids) /\ Ordered(items[i], up) /\ ToSet(items[i]) = {}
      <4>1. items[i] = <<>>
        BY <1>1, <3>2 DEF Items
      <4>2. <<>> \in Seq(ids) /\ Ordered(<<>>, up) /\ ToSet(<<>>) = {}
        BY DEF Ordered, ToSet
      <4> HIDE DEF items
      <4> QED
        BY <4>1, <4>2
    <3>3. items \in [1 .. n -> Seq(ids)] /\ \A i \in 1 .. n : Ordered(items[i], up)
      <4>1. DOMAIN items = 1 .. n /\ items = [i \in DOMAIN items |-> items[i]]
        BY <1>1 DEF Items
      <4> HIDE DEF items
      <4> QED
        BY <3>1, <3>2, <4>1
    <3> HIDE DEF items
    <3>4. ASSUME NEW i \in 1 .. n, NEW k2 \in 1 .. n, i # k2
          PROVE  Strangers(ToSet(items[i]), ToSet(items[k2]), up)
      <4>1. CASE reply[i].parent = p /\ reply[k2].parent = p
        <5> DEFINE a == reply[i].id
                   b == reply[k2].id
        <5>1. a # b
          BY <1>1, <3>4 DEF Lists
        <5>2. a \in ids /\ b \in ids /\ par[a] = p /\ par[b] = p
          BY <1>4, <4>1
        <5> HIDE DEF a, b, F
        <5>3. Strangers(Of(a), Of(b), up)
          BY <1>2, <1>5, <5>1, <5>2, ChildrenAreStrangers DEF up
        <5> QED
          BY <3>1, <4>1, <5>3 DEF a, b
      <4>2. CASE reply[i].parent # p \/ reply[k2].parent # p
        BY <3>2, <4>2 DEF Strangers
      <4> QED
        BY <4>1, <4>2
    <3> DEFINE s == FlattenSeq(items)
    <3>5. s \in Seq(ids) /\ Ordered(s, up) /\ ToSet(s) = UNION {ToSet(items[i]) : i \in 1 .. n}
      BY <3>3, <3>4, FlattenStays, FlattenOrdered
    <3>6. UNION {ToSet(items[i]) : i \in 1 .. n} = {y \in F : <<p, y>> \in up}
      <4>1. \A y \in ids : <<p, y>> \in up <=> \E x \in ids : par[x] = p /\ Within(x, y, up)
        BY <1>2, OverAChild DEF up
      <4>2. \A x \in ids : \E i \in 1 .. n : reply[i].id = x
        BY <1>1 DEF Lists
      <4>3. \A i \in 1 .. n : reply[i].parent = par[reply[i].id] /\ reply[i].id \in ids
        BY <1>4
      <4> HIDE DEF F
      <4>4. \A y : (\E i \in 1 .. n : y \in ToSet(items[i])) <=>
                   (\E i \in 1 .. n : reply[i].parent = p /\ y \in Of(reply[i].id))
        <5> HIDE DEF Of
        <5> QED
          BY <3>1, <3>2
      <4>5. \A y : (\E i \in 1 .. n : reply[i].parent = p /\ y \in Of(reply[i].id)) <=>
                   y \in F /\ <<p, y>> \in up
        BY <1>5, <4>1, <4>2, <4>3
      <4> QED
        BY <4>4, <4>5
    <3>7. walk[p] = s
      <4>1. p \in Int
        BY <1>2
      <4>2. \A f : f = Below(reply, walk) => f[p] = FlattenSeq(Items(reply, walk, p))
        BY <4>1 DEF Below
      <4> QED
        BY <1>7, <4>2 DEF items
    <3> QED
      BY <3>5, <3>6, <3>7 DEF Tells
  <2> QED
    BY <2>1
<1>9. 4 \in G
  <2>1. 0 \in G
    BY <1>3
  <2> HIDE DEF G
  <2> QED
    BY <1>8, <2>1, Climb
<1>10. Tells(walk[None], None, reply, ids, up)
  BY <1>3, <1>9
<1>11. {y \in F : <<None, y>> \in up} = F
  BY <1>2, <1>5, AllBelowNone DEF up
<1> QED
  BY <1>7, <1>10, <1>11 DEF Tells, up
-----------------------------------------------------------------------------
(* The context of a page.                                                  *)

Predecessors(S, less, b) == Cardinality({a \in S : <<a, b>> \in less})

\* In a finite set in which of any two one precedes the other, every rank is
\* taken, and taken once.
LEMMA Ranks ==
  ASSUME NEW S, IsFiniteSet(S), NEW less,
         \A a \in S : <<a, a>> \notin less,
         \A a, b, c \in S : <<a, b>> \in less /\ <<b, c>> \in less => <<a, c>> \in less,
         \A a, b \in S : a = b \/ <<a, b>> \in less \/ <<b, a>> \in less
  PROVE  /\ \A b \in S : Predecessors(S, less, b) \in 0 .. Cardinality(S) - 1
         /\ \A a, b \in S : Predecessors(S, less, a) = Predecessors(S, less, b) => a = b
         /\ \A k \in 0 .. Cardinality(S) - 1 : \E b \in S : Predecessors(S, less, b) = k
<1> DEFINE before(b) == {a \in S : <<a, b>> \in less}
           n == Cardinality(S)
           rank == [b \in S |-> Cardinality(before(b))]
<1>1. n \in Nat
  BY FS_CardinalityType
<1>2. ASSUME NEW b \in S
      PROVE  /\ IsFiniteSet(before(b)) /\ Cardinality(before(b)) \in Nat
             /\ Cardinality(before(b)) < n
  <2>1. before(b) \in SUBSET S /\ before(b) # S
    OBVIOUS
  <2> HIDE DEF before
  <2>2. IsFiniteSet(before(b)) /\ Cardinality(before(b)) <= n /\ Cardinality(before(b)) # n
    BY <2>1, FS_Subset
  <2>3. Cardinality(before(b)) \in Nat
    BY <2>2, FS_CardinalityType
  <2> QED
    BY <1>1, <2>2, <2>3
<1>3. ASSUME NEW a \in S, NEW b \in S, <<a, b>> \in less
      PROVE  rank[a] < rank[b]
  <2>1. before(a) \in SUBSET before(b) /\ before(a) # before(b)
    BY <1>3
  <2> HIDE DEF before
  <2>2. Cardinality(before(a)) <= Cardinality(before(b)) /\ Cardinality(before(a)) # Cardinality(before(b))
    BY <1>2, <2>1, FS_Subset
  <2> QED
    BY <1>2, <2>2
<1>4. rank \in [S -> 0 .. n - 1]
  <2> HIDE DEF before, n
  <2>1. \A b \in S : Cardinality(before(b)) \in 0 .. n - 1
    BY <1>1, <1>2
  <2> QED
    BY <2>1
<1>5. \A b \in S : rank[b] = Predecessors(S, less, b)
  BY DEF Predecessors
<1> HIDE DEF rank, n
<1>6. \A a, b \in S : rank[a] = rank[b] => a = b
  <2> SUFFICES ASSUME NEW a \in S, NEW b \in S, rank[a] = rank[b], a # b
               PROVE  FALSE
    OBVIOUS
  <2>1. rank[a] < rank[b] \/ rank[b] < rank[a]
    BY <1>3
  <2>2. rank[a] \in Int /\ rank[b] \in Int
    BY <1>4
  <2> QED
    BY <2>1, <2>2
<1>7. rank \in Injection(S, 0 .. n - 1)
  BY <1>4, <1>6 DEF Injection, IsInjective
<1>8. IsFiniteSet(0 .. n - 1) /\ Cardinality(0 .. n - 1) = n
  <2>1. /\ IsFiniteSet(0 .. n - 1)
        /\ Cardinality(0 .. n - 1) = IF 0 > n - 1 THEN 0 ELSE n - 1 - 0 + 1
    BY <1>1, FS_Interval
  <2> QED
    BY <1>1, <2>1
<1>9. rank \in Surjection(S, 0 .. n - 1)
  BY <1>7, <1>8, FS_Injection DEF n
<1>10. \A k \in 0 .. n - 1 : \E b \in S : rank[b] = k
  BY <1>9 DEF Surjection
<1> QED
  BY <1>4, <1>5, <1>6, <1>10 DEF n

\* A block as the context has it, and the blocks of the three levels.
Row(d, n) ==
  [id |-> d.to, level |-> n, text |-> text[d.to], parent |-> IF n = 0 THEN None ELSE d.from]

Under(ids) == {x \in graph.edges : x.kind = "SUMMARIZES" /\ x.from \in ids}

Tops(page) == {Row(d, 0) : d \in graph.edges \cap Describing(page)}

Mids(page) == {Row(d, 1) : d \in Under({b.id : b \in Tops(page)})}

Lows(page) == {Row(d, 2) : d \in Under({b.id : b \in Mids(page)})}

LEMMA ThreeLevels ==
  ASSUME NEW page
  PROVE  BlocksOf(page, MaxBlockLevel) = Tops(page) \cup Mids(page) \cup Lows(page)
<1> DEFINE Levels(f) ==
             f = [n \in 0 .. 2 |->
                    IF n = 0 THEN {Row(d, 0) : d \in graph.edges \cap Describing(page)}
                    ELSE LET above == {b.id : b \in f[n - 1]}
                         IN {Row(d, n) : d \in {x \in graph.edges : x.kind = "SUMMARIZES" /\ x.from \in above}}]
           g == [n \in 0 .. 2 |-> IF n = 0 THEN Tops(page) ELSE IF n = 1 THEN Mids(page) ELSE Lows(page)]
           f == CHOOSE f : Levels(f)
<1>1. Levels(g)
  <2>1. g[0] = Tops(page) /\ g[1] = Mids(page) /\ g[2] = Lows(page)
    OBVIOUS
  <2> DEFINE h == [n \in 0 .. 2 |->
                    IF n = 0 THEN {Row(d, 0) : d \in graph.edges \cap Describing(page)}
                    ELSE LET above == {b.id : b \in g[n - 1]}
                         IN {Row(d, n) : d \in {x \in graph.edges : x.kind = "SUMMARIZES" /\ x.from \in above}}]
  <2>2. h[0] = Tops(page)
    BY DEF Tops
  <2>3. h[1] = Mids(page)
    <3>1. 1 \in 0 .. 2 /\ 1 # 0 /\ 1 - 1 = 0
      OBVIOUS
    <3> HIDE DEF g
    <3>2. h[1] = {Row(d, 1) : d \in Under({b.id : b \in g[0]})}
      BY <3>1 DEF Under
    <3> QED
      BY <2>1, <3>2 DEF Mids
  <2>4. h[2] = Lows(page)
    <3>1. 2 \in 0 .. 2 /\ 2 # 0 /\ 2 - 1 = 1
      OBVIOUS
    <3> HIDE DEF g
    <3>2. h[2] = {Row(d, 2) : d \in Under({b.id : b \in g[1]})}
      BY <3>1 DEF Under
    <3> QED
      BY <2>1, <3>2 DEF Lows
  <2>5. g = [n \in 0 .. 2 |-> g[n]] /\ h = [n \in 0 .. 2 |-> h[n]]
    OBVIOUS
  <2>6. \A n \in 0 .. 2 : n = 0 \/ n = 1 \/ n = 2
    OBVIOUS
  <2> HIDE DEF h, g
  <2>7. g = h
    BY <2>1, <2>2, <2>3, <2>4, <2>5, <2>6
  <2> QED
    BY <2>7 DEF h
<1>2. Levels(f)
  <2> HIDE DEF Levels
  <2> QED
    BY <1>1
<1> HIDE DEF f
<1>3. BlocksOf(page, 2) = UNION {f[n] : n \in 0 .. 2}
  BY DEF BlocksOf, f, Row
<1>4. f[0] = Tops(page)
  BY <1>2 DEF Tops
<1>5. f[1] = Mids(page)
  <2>1. 1 \in 0 .. 2 /\ 1 # 0 /\ 1 - 1 = 0
    OBVIOUS
  <2>2. f[1] = {Row(d, 1) : d \in Under({b.id : b \in f[0]})}
    BY <1>2, <2>1 DEF Under
  <2> QED
    BY <1>4, <2>2 DEF Mids
<1>6. f[2] = Lows(page)
  <2>1. 2 \in 0 .. 2 /\ 2 # 0 /\ 2 - 1 = 1
    OBVIOUS
  <2>2. f[2] = {Row(d, 2) : d \in Under({b.id : b \in f[1]})}
    BY <1>2, <2>1 DEF Under
  <2> QED
    BY <1>5, <2>2 DEF Lows
<1>7. \A n : n \in 0 .. 2 <=> n = 0 \/ n = 1 \/ n = 2
  OBVIOUS
<1>8. UNION {f[n] : n \in 0 .. 2} = f[0] \cup f[1] \cup f[2]
  BY <1>7
<1> QED
  BY <1>3, <1>4, <1>5, <1>6, <1>8 DEF MaxBlockLevel

\* The same blocks by the edges above them alone.
TopIds(edges, page) == {d.to : d \in edges \cap Describing(page)}

NextIds(edges, ids) == {d.to : d \in {x \in edges : x.kind = "SUMMARIZES" /\ x.from \in ids}}

MidIds(edges, page) == NextIds(edges, TopIds(edges, page))

LowIds(edges, page) == NextIds(edges, MidIds(edges, page))

Reach(edges, page) == TopIds(edges, page) \cup MidIds(edges, page) \cup LowIds(edges, page)

LEMMA LevelIds ==
  ASSUME NEW page
  PROVE  /\ {b.id : b \in Tops(page)} = TopIds(graph.edges, page)
         /\ {b.id : b \in Mids(page)} = MidIds(graph.edges, page)
         /\ {b.id : b \in Lows(page)} = LowIds(graph.edges, page)
<1>1. ASSUME NEW E, NEW n
      PROVE  {b.id : b \in {Row(d, n) : d \in E}} = {d.to : d \in E}
  <2>1. \A d \in E : Row(d, n).id = d.to
    BY DEF Row
  <2>2. \A x : x \in {b.id : b \in {Row(d, n) : d \in E}} <=> \E d \in E : x = Row(d, n).id
    OBVIOUS
  <2> QED
    BY <2>1, <2>2
<1>2. {b.id : b \in Tops(page)} = TopIds(graph.edges, page)
  BY <1>1 DEF Tops, TopIds
<1>3. {b.id : b \in Mids(page)} = MidIds(graph.edges, page)
  <2>1. {b.id : b \in Mids(page)} = {d.to : d \in Under(TopIds(graph.edges, page))}
    <3> DEFINE D == Under(TopIds(graph.edges, page))
    <3>1. Mids(page) = {Row(d, 1) : d \in D}
      BY <1>2 DEF Mids
    <3> HIDE DEF D
    <3>2. {b.id : b \in {Row(d, 1) : d \in D}} = {d.to : d \in D}
      BY <1>1
    <3> QED
      BY <3>1, <3>2 DEF D
  <2> QED
    BY <2>1 DEF MidIds, NextIds, Under
<1>4. {b.id : b \in Lows(page)} = LowIds(graph.edges, page)
  <2>1. {b.id : b \in Lows(page)} = {d.to : d \in Under(MidIds(graph.edges, page))}
    <3> DEFINE D == Under(MidIds(graph.edges, page))
    <3>1. Lows(page) = {Row(d, 2) : d \in D}
      BY <1>3 DEF Lows
    <3> HIDE DEF D
    <3>2. {b.id : b \in {Row(d, 2) : d \in D}} = {d.to : d \in D}
      BY <1>1
    <3> QED
      BY <3>1, <3>2 DEF D
  <2> QED
    BY <2>1 DEF LowIds, NextIds, Under
<1> QED
  BY <1>2, <1>3, <1>4

LEMMA PatchableIsReach ==
  ASSUME NEW page
  PROVE  Patchable(page) = Reach(graph.edges, page)
<1> DEFINE A == Tops(page)
           B == Mids(page)
           C == Lows(page)
<1>1. Patchable(page) = {b.id : b \in A \cup B \cup C}
  BY ThreeLevels DEF Patchable
<1> HIDE DEF A, B, C
<1>2. {b.id : b \in A \cup B \cup C} = {b.id : b \in A} \cup {b.id : b \in B} \cup {b.id : b \in C}
  OBVIOUS
<1> QED
  BY <1>1, <1>2, LevelIds DEF A, B, C, Reach

\* What can be reached stays in reach.
LEMMA ReachGrows ==
  ASSUME NEW E, NEW F, E \subseteq F, NEW page
  PROVE  Reach(E, page) \subseteq Reach(F, page)
<1>1. TopIds(E, page) \subseteq TopIds(F, page)
  BY DEF TopIds
<1>2. ASSUME NEW ids, NEW more, ids \subseteq more
      PROVE  NextIds(E, ids) \subseteq NextIds(F, more)
  BY <1>2 DEF NextIds
<1>3. MidIds(E, page) \subseteq MidIds(F, page)
  BY <1>1, <1>2 DEF MidIds
<1>4. LowIds(E, page) \subseteq LowIds(F, page)
  BY <1>2, <1>3 DEF LowIds
<1> QED
  BY <1>1, <1>3, <1>4 DEF Reach

\* A graph in which no block has two parents.
GraphInv ==
  /\ graph.edges \subseteq Edge
  /\ IsFiniteSet(graph.edges)
  /\ OneParentEach(graph.edges)

\* A block is on one level only.
LEMMA LevelsApart ==
  ASSUME GraphInv, NEW page
  PROVE  LET A == TopIds(graph.edges, page)
             B == MidIds(graph.edges, page)
             C == LowIds(graph.edges, page)
         IN /\ A \cup B \cup C \subseteq Int \ {None}
            /\ A \cap B = {} /\ A \cap C = {} /\ B \cap C = {}
<1> DEFINE E == graph.edges
           A == TopIds(E, page)
           B == MidIds(E, page)
           C == LowIds(E, page)
<1>1. \A d \in E : d \in Edge
  BY DEF GraphInv
<1>2. \A d, e \in E : d.kind \in ParentKinds /\ e.kind \in ParentKinds =>
         d.to # None /\ (d.to = e.to => d = e)
  BY DEF GraphInv, OneParentEach
<1>3. \A b \in A : \E d \in E : d.to = b /\ d.kind = "DESCRIBED_BY"
  BY DEF TopIds, Describing
<1>4. ASSUME NEW ids
      PROVE  \A b \in NextIds(E, ids) : \E d \in E : d.to = b /\ d.kind = "SUMMARIZES" /\ d.from \in ids
  BY DEF NextIds
<1>5. \A b \in B : \E d \in E : d.to = b /\ d.kind = "SUMMARIZES" /\ d.from \in A
  BY <1>4 DEF MidIds
<1>6. \A b \in C : \E d \in E : d.to = b /\ d.kind = "SUMMARIZES" /\ d.from \in B
  BY <1>4 DEF LowIds
<1>7. "DESCRIBED_BY" \in ParentKinds /\ "SUMMARIZES" \in ParentKinds
  BY DEF ParentKinds
<1>8. \A d \in E : d.to \in Int
  BY <1>1 DEF Edge
<1> HIDE DEF E, A, B, C
<1>9. A \cup B \cup C \subseteq Int \ {None}
  BY <1>2, <1>3, <1>5, <1>6, <1>7, <1>8
<1>10. A \cap B = {} /\ A \cap C = {}
  BY <1>2, <1>3, <1>5, <1>6, <1>7
<1>11. B \cap C = {}
  BY <1>2, <1>5, <1>6, <1>7, <1>10
<1> QED
  BY <1>9, <1>10, <1>11 DEF A, B, C, E

\* The rows are as many as there are edges to the blocks at most, and no two
\* have the same block.
LEMMA RowFacts ==
  ASSUME GraphInv, NEW page
  PROVE  LET blocks == BlocksOf(page, MaxBlockLevel)
         IN /\ IsFiniteSet(blocks)
            /\ \A b \in blocks : b.id \in Int /\ b.parent \in Int /\ b.level \in Int
            /\ \A a, b \in blocks : a.id = b.id /\ a.level = b.level => a = b
<1> DEFINE E == graph.edges
           A == E \cap Describing(page)
           B == Under({b.id : b \in Tops(page)})
           C == Under({b.id : b \in Mids(page)})
           OnLevel(n, D) == {Row(d, n) : d \in D}
<1>1. BlocksOf(page, MaxBlockLevel) = OnLevel(0, A) \cup OnLevel(1, B) \cup OnLevel(2, C)
  BY ThreeLevels DEF Tops, Mids, Lows
<1>2. /\ A \subseteq E /\ B \subseteq E /\ C \subseteq E
      /\ \A d \in A \cup B \cup C : d.kind \in ParentKinds
  BY DEF Under, Describing, ParentKinds
<1> HIDE DEF A, B, C
<1>3. ASSUME NEW n \in 0 .. 2, NEW D, D \subseteq E
      PROVE  /\ IsFiniteSet(OnLevel(n, D))
             /\ \A b \in OnLevel(n, D) : b.id \in Int /\ b.parent \in Int /\ b.level = n
             /\ \A b \in OnLevel(n, D) : \E d \in D : b = Row(d, n) /\ b.id = d.to
  <2>1. IsFiniteSet(D)
    BY <1>3, FS_Subset DEF GraphInv
  <2> DEFINE f == [d \in D |-> Row(d, n)]
  <2>2. f \in Surjection(D, OnLevel(n, D))
    BY DEF Surjection
  <2>3. IsFiniteSet(OnLevel(n, D))
    <3> HIDE DEF f, OnLevel
    <3> QED
      BY <2>1, <2>2, FS_Surjection
  <2>4. \A d \in D : d.to \in Int /\ d.from \in Int
    BY <1>3 DEF GraphInv, Edge
  <2>5. \A d \in D : Row(d, n).id = d.to /\ Row(d, n).level = n /\ Row(d, n).parent \in Int
    BY <2>4 DEF Row, None
  <2> HIDE DEF E
  <2> QED
    BY <2>3, <2>4, <2>5
<1>4. \A d, e \in E : d.kind \in ParentKinds /\ e.kind \in ParentKinds => (d.to = e.to => d = e)
  BY DEF GraphInv, OneParentEach
<1> HIDE DEF OnLevel, E
<1> DEFINE blocks == OnLevel(0, A) \cup OnLevel(1, B) \cup OnLevel(2, C)
<1>5. IsFiniteSet(OnLevel(0, A)) /\ IsFiniteSet(OnLevel(1, B)) /\ IsFiniteSet(OnLevel(2, C))
  BY <1>2, <1>3
<1>6. IsFiniteSet(blocks)
  BY <1>5, FS_Union
<1>7. /\ \A b \in OnLevel(0, A) : b.id \in Int /\ b.parent \in Int /\ b.level = 0
      /\ \A b \in OnLevel(1, B) : b.id \in Int /\ b.parent \in Int /\ b.level = 1
      /\ \A b \in OnLevel(2, C) : b.id \in Int /\ b.parent \in Int /\ b.level = 2
  BY <1>2, <1>3
<1>8. \A n \in 0 .. 2 : \A D \in {A, B, C} : \A a, b \in OnLevel(n, D) : a.id = b.id => a = b
  <2> SUFFICES ASSUME NEW n \in 0 .. 2, NEW D \in {A, B, C}, NEW a \in OnLevel(n, D), NEW b \in OnLevel(n, D),
                      a.id = b.id
               PROVE  a = b
    OBVIOUS
  <2>1. D \subseteq E /\ \A d \in D : d.kind \in ParentKinds
    BY <1>2
  <2>2. PICK d \in D : a = Row(d, n) /\ a.id = d.to
    BY <1>3, <2>1
  <2>3. PICK e \in D : b = Row(e, n) /\ b.id = e.to
    BY <1>3, <2>1
  <2>4. d = e
    BY <1>4, <2>1, <2>2, <2>3
  <2> QED
    BY <2>2, <2>3, <2>4
<1>9. ASSUME NEW a \in blocks, NEW b \in blocks, a.id = b.id, a.level = b.level
      PROVE  a = b
  <2>1. \/ a \in OnLevel(0, A) /\ b \in OnLevel(0, A)
        \/ a \in OnLevel(1, B) /\ b \in OnLevel(1, B)
        \/ a \in OnLevel(2, C) /\ b \in OnLevel(2, C)
    BY <1>7, <1>9
  <2>2. 0 \in 0 .. 2 /\ 1 \in 0 .. 2 /\ 2 \in 0 .. 2
    OBVIOUS
  <2> QED
    BY <1>8, <1>9, <2>1, <2>2
<1>10. \A b \in blocks : b.id \in Int /\ b.parent \in Int /\ b.level \in Int
  BY <1>7
<1> QED
  BY <1>1, <1>6, <1>9, <1>10

\* The context lists the page's blocks, each one once.
LEMMA ContextHasAll ==
  ASSUME GraphInv, NEW page
  PROVE  LET blocks == BlocksOf(page, MaxBlockLevel)
             rows == Context(page, MaxBlockLevel)
         IN /\ Cardinality(blocks) \in Nat /\ DOMAIN rows = 1 .. Cardinality(blocks)
            /\ \A i \in DOMAIN rows : rows[i] \in blocks
            /\ \A i, k \in DOMAIN rows : rows[i] = rows[k] => i = k
            /\ \A b \in blocks : \E i \in DOMAIN rows : rows[i] = b
<1> DEFINE blocks == BlocksOf(page, MaxBlockLevel)
           rows == Context(page, MaxBlockLevel)
           precedes(a, b) == a.level < b.level \/ (a.level = b.level /\ a.id < b.id)
           less == {p \in blocks \X blocks : precedes(p[1], p[2])}
           n == Cardinality(blocks)
           rank(b) == Cardinality({a \in blocks : precedes(a, b)})
<1>1. /\ IsFiniteSet(blocks)
      /\ \A b \in blocks : b.id \in Int /\ b.level \in Int
      /\ \A a, b \in blocks : a.id = b.id /\ a.level = b.level => a = b
  BY RowFacts
<1>2. rows = [i \in 1 .. n |-> CHOOSE b \in blocks : rank(b) = i - 1]
  BY DEF Context
<1> HIDE DEF blocks, rows
<1>3. n \in Nat
  BY <1>1, FS_CardinalityType
<1>4. \A a, b \in blocks : <<a, b>> \in less <=> precedes(a, b)
  OBVIOUS
<1>5. /\ \A a \in blocks : ~precedes(a, a)
      /\ \A a, b, c \in blocks : precedes(a, b) /\ precedes(b, c) => precedes(a, c)
      /\ \A a, b \in blocks : a = b \/ precedes(a, b) \/ precedes(b, a)
  BY <1>1
<1> HIDE DEF less, precedes
<1>6. /\ \A b \in blocks : rank(b) \in 0 .. n - 1
      /\ \A a, b \in blocks : rank(a) = rank(b) => a = b
      /\ \A k \in 0 .. n - 1 : \E b \in blocks : rank(b) = k
  <2>1. /\ \A a \in blocks : <<a, a>> \notin less
        /\ \A a, b, c \in blocks : <<a, b>> \in less /\ <<b, c>> \in less => <<a, c>> \in less
        /\ \A a, b \in blocks : a = b \/ <<a, b>> \in less \/ <<b, a>> \in less
    BY <1>4, <1>5
  <2>2. \A b \in blocks : {a \in blocks : <<a, b>> \in less} = {a \in blocks : precedes(a, b)}
    BY <1>4
  <2>3. \A b \in blocks : Predecessors(blocks, less, b) = rank(b)
    BY <2>2 DEF Predecessors
  <2>4. /\ \A b \in blocks : Predecessors(blocks, less, b) \in 0 .. Cardinality(blocks) - 1
        /\ \A a, b \in blocks : Predecessors(blocks, less, a) = Predecessors(blocks, less, b) => a = b
        /\ \A k \in 0 .. Cardinality(blocks) - 1 : \E b \in blocks : Predecessors(blocks, less, b) = k
    BY <1>1, <2>1, Ranks
  <2> HIDE DEF rank
  <2> QED
    BY <2>3, <2>4
<1> HIDE DEF rank, n
<1>7. DOMAIN rows = 1 .. n
  BY <1>2
<1>8. \A i \in 1 .. n : rows[i] \in blocks /\ rank(rows[i]) = i - 1
  <2>1. \A i \in 1 .. n : i - 1 \in 0 .. n - 1
    BY <1>3
  <2>2. \A i \in 1 .. n : \E b \in blocks : rank(b) = i - 1
    BY <1>6, <2>1
  <2> QED
    BY <1>2, <2>2
<1>9. \A i, k \in 1 .. n : rows[i] = rows[k] => i = k
  <2>1. \A i, k \in 1 .. n : rows[i] = rows[k] => i - 1 = k - 1
    BY <1>8
  <2>2. \A i, k \in 1 .. n : i - 1 = k - 1 => i = k
    OBVIOUS
  <2> QED
    BY <2>1, <2>2
<1>10. ASSUME NEW b \in blocks
       PROVE  \E i \in 1 .. n : rows[i] = b
  <2>1. rank(b) \in 0 .. n - 1
    BY <1>6
  <2>2. rank(b) + 1 \in 1 .. n /\ (rank(b) + 1) - 1 = rank(b)
    BY <1>3, <2>1
  <2>3. rows[rank(b) + 1] \in blocks /\ rank(rows[rank(b) + 1]) = rank(b)
    BY <1>8, <2>2
  <2>4. rows[rank(b) + 1] = b
    BY <1>6, <2>3
  <2> QED
    BY <2>2, <2>4
<1> QED
  BY <1>3, <1>7, <1>8, <1>9, <1>10 DEF blocks, rows, n

\* Where the rows of each level hang.
LEMMA RowPlaces ==
  ASSUME NEW page
  PROVE  /\ \A b \in Tops(page) : b.id \in TopIds(graph.edges, page) /\ b.parent = None /\ b.level = 0
         /\ \A b \in Mids(page) : /\ b.id \in MidIds(graph.edges, page)
                                  /\ b.parent \in TopIds(graph.edges, page) /\ b.level = 1
         /\ \A b \in Lows(page) : /\ b.id \in LowIds(graph.edges, page)
                                  /\ b.parent \in MidIds(graph.edges, page) /\ b.level = 2
<1>1. \A b \in Tops(page) : b.parent = None /\ b.level = 0
  <2>1. \A d : Row(d, 0).parent = None /\ Row(d, 0).level = 0
    BY DEF Row
  <2> QED
    BY <2>1 DEF Tops
<1>2. ASSUME NEW k \in {1, 2}, NEW ids, NEW b \in {Row(d, k) : d \in Under(ids)}
      PROVE  b.parent \in ids /\ b.level = k
  <2>1. PICK d \in Under(ids) : b = Row(d, k)
    BY <1>2
  <2>2. b.parent = d.from /\ b.level = k
    BY <1>2, <2>1 DEF Row
  <2> QED
    BY <2>1, <2>2 DEF Under
<1>3. ASSUME NEW b \in Mids(page)
      PROVE  b.parent \in TopIds(graph.edges, page) /\ b.level = 1
  <2> DEFINE ids == {x.id : x \in Tops(page)}
  <2>1. b \in {Row(d, 1) : d \in Under(ids)}
    BY DEF Mids
  <2> HIDE DEF ids
  <2>2. b.parent \in ids /\ b.level = 1
    BY <1>2, <2>1
  <2> QED
    BY <2>2, LevelIds DEF ids
<1>4. ASSUME NEW b \in Lows(page)
      PROVE  b.parent \in MidIds(graph.edges, page) /\ b.level = 2
  <2> DEFINE ids == {x.id : x \in Mids(page)}
  <2>1. b \in {Row(d, 2) : d \in Under(ids)}
    BY DEF Lows
  <2> HIDE DEF ids
  <2>2. b.parent \in ids /\ b.level = 2
    BY <1>2, <2>1
  <2> QED
    BY <2>2, LevelIds DEF ids
<1> QED
  BY <1>1, <1>3, <1>4, LevelIds

\* What a context lists hangs together.
LEMMA ContextLists ==
  ASSUME GraphInv, NEW page
  PROVE  \E par, lev : Lists(Context(page, MaxBlockLevel), Reach(graph.edges, page), par, lev)
<1> DEFINE E == graph.edges
           A == TopIds(E, page)
           B == MidIds(E, page)
           C == LowIds(E, page)
           ids == A \cup B \cup C
           reply == Context(page, MaxBlockLevel)
           n == Cardinality(BlocksOf(page, MaxBlockLevel))
           par == [x \in ids |-> reply[CHOOSE i \in DOMAIN reply : reply[i].id = x].parent]
           lev == [p \in ids \cup {None} |-> IF p = None THEN 3 ELSE IF p \in A THEN 2 ELSE IF p \in B THEN 1 ELSE 0]
<1>1. /\ ids \subseteq Int \ {None}
      /\ A \cap B = {} /\ A \cap C = {} /\ B \cap C = {}
  BY LevelsApart
<1>2. /\ n \in Nat /\ DOMAIN reply = 1 .. n
      /\ \A i \in 1 .. n : reply[i] \in Tops(page) \cup Mids(page) \cup Lows(page)
      /\ \A i, k \in 1 .. n : reply[i] = reply[k] => i = k
      /\ \A b \in Tops(page) \cup Mids(page) \cup Lows(page) : \E i \in 1 .. n : reply[i] = b
  BY ContextHasAll, ThreeLevels
<1>3. /\ \A b \in Tops(page) : b.id \in A /\ b.parent = None /\ b.level = 0
      /\ \A b \in Mids(page) : b.id \in B /\ b.parent \in A /\ b.level = 1
      /\ \A b \in Lows(page) : b.id \in C /\ b.parent \in B /\ b.level = 2
  BY RowPlaces
<1>4. \A a, b \in Tops(page) \cup Mids(page) \cup Lows(page) : a.id = b.id => a = b
  <2>1. \A a, b \in Tops(page) \cup Mids(page) \cup Lows(page) : a.id = b.id /\ a.level = b.level => a = b
    BY RowFacts, ThreeLevels
  <2> HIDE DEF A, B, C
  <2> QED
    BY <1>1, <1>3, <2>1
<1>5. \A x \in ids : \E b \in Tops(page) \cup Mids(page) \cup Lows(page) : b.id = x
  <2> HIDE DEF A, B, C
  <2>1. ids = {b.id : b \in Tops(page)} \cup {b.id : b \in Mids(page)} \cup {b.id : b \in Lows(page)}
    BY LevelIds DEF A, B, C
  <2> QED
    BY <2>1
<1> HIDE DEF A, B, C, reply, n
<1>6. \A i \in 1 .. n : reply[i].id \in ids
  BY <1>2, <1>3
<1>7. \A i, k \in 1 .. n : reply[i].id = reply[k].id => i = k
  BY <1>2, <1>4
<1>8. \A x \in ids : \E i \in 1 .. n : reply[i].id = x
  BY <1>2, <1>5
<1>9. \A i \in 1 .. n : reply[i].parent = par[reply[i].id]
  <2> SUFFICES ASSUME NEW i \in 1 .. n
               PROVE  reply[i].parent = par[reply[i].id]
    OBVIOUS
  <2> DEFINE k == CHOOSE k \in DOMAIN reply : reply[k].id = reply[i].id
  <2>1. k \in 1 .. n /\ reply[k].id = reply[i].id
    BY <1>2
  <2>2. k = i
    BY <1>7, <2>1
  <2>3. par[reply[i].id] = reply[k].parent
    BY <1>6
  <2> QED
    BY <2>2, <2>3
<1>10. Levelled(ids, par, lev)
  <2>1. /\ lev[None] = 3
        /\ \A p \in A : lev[p] = 2
        /\ \A p \in B : lev[p] = 1
        /\ \A p \in C : lev[p] = 0
    BY <1>1
  <2>2. lev \in [ids \cup {None} -> 0 .. 3]
    OBVIOUS
  <2>3. DOMAIN par = ids /\ par = [x \in ids |-> par[x]]
    OBVIOUS
  <2> HIDE DEF lev, par
  <2>4. ASSUME NEW x \in ids
        PROVE  par[x] \in ids \cup {None} /\ lev[par[x]] = lev[x] + 1
    <3>1. PICK i \in 1 .. n : reply[i].id = x /\ reply[i].parent = par[x]
      BY <1>8, <1>9
    <3>2. \/ x \in A /\ par[x] = None
          \/ x \in B /\ par[x] \in A
          \/ x \in C /\ par[x] \in B
      BY <1>2, <1>3, <3>1
    <3> QED
      BY <2>1, <3>2
  <2>5. par \in [ids -> ids \cup {None}]
    BY <2>3, <2>4
  <2> QED
    BY <1>1, <2>1, <2>2, <2>4, <2>5 DEF Levelled
<1> HIDE DEF par, lev
<1>11. Lists(reply, ids, par, lev)
  BY <1>2, <1>6, <1>7, <1>8, <1>9, <1>10 DEF Lists
<1>12. ids = Reach(E, page)
  BY DEF A, B, C, Reach
<1> QED
  BY <1>11, <1>12 DEF reply, E

\* A page shows what a patch of it may name.
LEMMA ShownReach ==
  ASSUME GraphInv, NEW page
  PROVE  ToSet(ContentBlocks(Context(page, MaxBlockLevel))) \subseteq Reach(graph.edges, page)
<1> DEFINE reply == Context(page, MaxBlockLevel)
           ids == Reach(graph.edges, page)
<1>1. PICK par, lev : Lists(reply, ids, par, lev)
  BY ContextLists
<1> HIDE DEF reply, ids
<1>2. ContentBlocks(reply) \in Seq(ids)
  BY <1>1, WalkTells
<1>3. ToSet(ContentBlocks(reply)) \subseteq ids
  BY <1>2 DEF ToSet
<1> QED
  BY <1>3 DEF reply, ids
-----------------------------------------------------------------------------
(* What a patch of reachable blocks is told.                               *)

LEMMA ReachedHaveOneParent ==
  ASSUME GraphInv, NEW page, NEW b \in Reach(graph.edges, page)
  PROVE  Cardinality(graph.edges \cap Parenting(b)) = 1
<1>1. \E d \in graph.edges : d.kind \in ParentKinds /\ d.to = b
  BY DEF Reach, TopIds, MidIds, LowIds, NextIds, Describing, ParentKinds
<1>2. PICK d \in graph.edges : d.kind \in ParentKinds /\ d.to = b
  BY <1>1
<1>3. d \in Parenting(b)
  BY <1>2 DEF GraphInv, Edge, Parenting
<1>4. \A e \in graph.edges \cap Parenting(b) : e = d
  BY <1>2 DEF GraphInv, OneParentEach, Parenting
<1>5. graph.edges \cap Parenting(b) = {d}
  BY <1>3, <1>4
<1> QED
  BY <1>5, FS_Singleton

\* The delta of a patch has blocks only, so that it is refused for nothing else
\* than a block without a parent.
LEMMA ReachedAreAccepted ==
  ASSUME GraphInv, NEW page, NEW ask, Asked(ask) \subseteq Reach(graph.edges, page)
  PROVE  ~Invalid(PatchDelta(ask), graph)
<1> DEFINE delta == PatchDelta(ask)
<1>1. /\ delta.universes = {} /\ delta.entities = <<>> /\ delta.edges = <<>>
      /\ DOMAIN delta.blocks = DOMAIN ask
      /\ \A i \in DOMAIN ask : delta.blocks[i] = ask[i].block
  BY DEF PatchDelta
<1> HIDE DEF delta
<1>2. DOMAIN delta.entities = {} /\ DOMAIN delta.edges = {}
  BY <1>1
<1>3. ToSet(delta.blocks) \subseteq Asked(ask)
  BY <1>1 DEF ToSet, Asked
<1>4. ASSUME NEW b \in ToSet(delta.blocks)
      PROVE  ~WithoutOneParent(delta, graph, b)
  <2>1. Cardinality(graph.edges \cap Parenting(b)) = 1
    BY <1>3, ReachedHaveOneParent
  <2>2. {i \in DOMAIN delta.edges : delta.edges[i] \in Parenting(b)} = {}
    BY <1>2
  <2>3. Listed(delta, Parenting(b)) = 0
    BY <2>2, FS_EmptySet DEF Listed
  <2> QED
    BY <2>1, <2>3 DEF WithoutOneParent
<1>5. EntityIds(delta) = {}
  BY <1>2 DEF EntityIds
<1>6. ~BreaksStateRules(delta, graph)
  BY <1>1, <1>4, <1>5 DEF BreaksStateRules
<1>7. ~BreaksReferences(delta)
  BY <1>2 DEF BreaksReferences
<1> QED
  BY <1>6, <1>7 DEF Invalid, delta

LEMMA NoneOrOne ==
  ASSUME NEW P, IsFiniteSet(P), NEW L, IsFiniteSet(L), Cardinality(P) + Cardinality(L) = 1
  PROVE  (P = {} /\ \E i : L = {i}) \/ (L = {} /\ \E i : P = {i})
<1>1. Cardinality(P) \in Nat /\ Cardinality(L) \in Nat
  BY FS_CardinalityType
<1>2. \/ Cardinality(P) = 0 /\ Cardinality(L) = 1
      \/ Cardinality(P) = 1 /\ Cardinality(L) = 0
  BY <1>1
<1>3. Cardinality(P) = 0 => P = {}
  BY FS_EmptySet
<1>4. Cardinality(L) = 0 => L = {}
  BY FS_EmptySet
<1>5. Cardinality(P) = 1 => \E i : P = {i}
  BY FS_Singleton
<1>6. Cardinality(L) = 1 => \E i : L = {i}
  BY FS_Singleton
<1> QED
  BY <1>2, <1>3, <1>4, <1>5, <1>6

\* A job that is not refused gives no block a second parent.
LEMMA JobsKeepParents ==
  ASSUME GraphInv, NEW job \in JobDeltas, ~Invalid(job.delta, graph),
         graph' = Merged(job.delta, graph)
  PROVE  GraphInv' /\ graph.edges \subseteq graph'.edges
<1> DEFINE E == graph.edges
           sent == job.delta.edges
           new == ToSet(sent)
           blocks == ToSet(job.delta.blocks)
<1>1. sent \in Seq(Edge) /\ \A d \in new : d.kind \in ParentKinds => d.to \in blocks \ {None}
  BY WikiAssumption DEF Delta
<1>2. graph'.edges = E \cup new
  BY DEF Merged
<1>3. DOMAIN sent = 1 .. Len(sent) /\ Len(sent) \in Nat
  BY <1>1, LenProperties
<1>4. \A i \in DOMAIN sent : sent[i] \in Edge
  BY <1>1
<1>5. IsFiniteSet(DOMAIN sent)
  BY <1>3, UpTo
<1>6. new \subseteq Edge /\ IsFiniteSet(new)
  <2>1. sent \in Surjection(DOMAIN sent, new)
    <3>1. sent \in [DOMAIN sent -> new]
      BY <1>1 DEF ToSet
    <3>2. \A d \in new : \E i \in DOMAIN sent : sent[i] = d
      BY DEF ToSet
    <3> HIDE DEF sent, new
    <3> QED
      BY <3>1, <3>2 DEF Surjection
  <2>2. IsFiniteSet(new)
    BY <1>5, <2>1, FS_Surjection
  <2>3. new \subseteq Edge
    BY <1>4 DEF ToSet
  <2> QED
    BY <2>2, <2>3
<1>7. /\ E \subseteq Edge /\ IsFiniteSet(E)
      /\ \A d, e \in E : d.kind \in ParentKinds /\ e.kind \in ParentKinds =>
           d.to # None /\ (d.to = e.to => d = e)
  BY DEF GraphInv, OneParentEach
<1>8. ASSUME NEW b \in blocks
      PROVE  Cardinality(E \cap Parenting(b)) + Listed(job.delta, Parenting(b)) = 1
  BY DEF Invalid, BreaksStateRules, WithoutOneParent
<1>9. \A i \in DOMAIN sent : sent[i] \in new
  BY DEF ToSet
<1>10. \A d \in new : \E i \in DOMAIN sent : sent[i] = d
  BY DEF ToSet
<1>11. \A b : {i \in DOMAIN sent : sent[i] \in Parenting(b)} =
                {i \in DOMAIN job.delta.edges : job.delta.edges[i] \in Parenting(b)}
  OBVIOUS
<1> HIDE DEF E, sent, new, blocks
<1>12. ASSUME NEW d \in E \cup new, NEW e \in E \cup new,
              d.kind \in ParentKinds, e.kind \in ParentKinds, d.to = e.to
       PROVE  d = e
  <2>1. CASE d.to \notin blocks
    <3>1. d \notin new /\ e \notin new
      BY <1>1, <1>12, <2>1
    <3> QED
      BY <1>7, <1>12, <3>1
  <2>2. CASE d.to \in blocks
    <3> DEFINE b == d.to
               P == E \cap Parenting(b)
               L == {i \in DOMAIN sent : sent[i] \in Parenting(b)}
    <3>1. d \in Parenting(b) /\ e \in Parenting(b)
      <4>1. d \in Edge /\ e \in Edge
        BY <1>6, <1>7
      <4> QED
        BY <1>12, <4>1 DEF Edge, Parenting
    <3>2. Cardinality(P) + Cardinality(L) = 1
      BY <1>8, <1>11, <2>2 DEF Listed
    <3>3. IsFiniteSet(P) /\ IsFiniteSet(L)
      BY <1>5, <1>7, FS_Subset
    <3>4. (P = {} /\ \E i : L = {i}) \/ (L = {} /\ \E i : P = {i})
      <4> HIDE DEF P, L
      <4> QED
        BY <3>2, <3>3, NoneOrOne
    <3>5. d \in P \/ \E i \in L : sent[i] = d
      BY <1>10, <3>1
    <3>6. e \in P \/ \E i \in L : sent[i] = e
      BY <1>10, <3>1
    <3> HIDE DEF P, L, b
    <3> QED
      BY <3>4, <3>5, <3>6
  <2> QED
    BY <2>1, <2>2
<1>13. OneParentEach(E \cup new)
  <2>1. \A d \in E \cup new : d.kind \in ParentKinds => d.to # None
    BY <1>1, <1>7
  <2> QED
    BY <1>12, <2>1 DEF OneParentEach
<1>14. IsFiniteSet(E \cup new)
  BY <1>6, <1>7, FS_Union
<1> QED
  BY <1>2, <1>6, <1>7, <1>13, <1>14 DEF GraphInv, E

\* What a tab shows of a page stays in reach, and so do the blocks of a patch
\* that has been let through.
Editable(q) ==
  /\ q.at \in {"page", "saving"} => ToSet(q.shown) \subseteq Reach(graph.edges, q.page)
  /\ q.at = "saving" => Asked(q.ask) \subseteq Reach(graph.edges, q.page)
  /\ q.at = "told" /\ Asked(q.ask) \subseteq ToSet(q.shown) => q.answer # 400

EditInv ==
  /\ GraphInv
  /\ \A t \in Tabs : Editable(tab[t])

LEMMA OneTabEdits ==
  ASSUME EditInv, WikiInv, NEW t \in Tabs, graph' = graph,
         NEW q, tab' = [tab EXCEPT ![t] = q], Editable(q)
  PROVE  EditInv'
<1>1. \A u \in Tabs : tab'[u] = IF u = t THEN q ELSE tab[u]
  BY DEF WikiInv
<1>2. \A u \in Tabs : Editable(tab'[u])
  BY <1>1 DEF EditInv
<1>3. \A u \in Tabs : Editable(tab[u])'
  BY <1>2 DEF Editable
<1> QED
  BY <1>3 DEF EditInv, GraphInv

\* A failed call is no 400.
LEMMA FailuresAreNo400 ==
  ASSUME EditInv, WikiInv, NEW t \in Tabs, UNCHANGED store, NEW use, Fails(t, use)
  PROVE  EditInv'
<1>1. PICK code \in Codes : tab' = [tab EXCEPT ![t] = [Closed EXCEPT !.at = "told", !.answer = Status(use, code)]]
  BY DEF Fails
<1> DEFINE q == [Closed EXCEPT !.at = "told", !.answer = Status(use, code)]
<1>2. Status(use, code) # 400
  <2>1. CASE code \in Passing
    BY <2>1 DEF Status, Passing
  <2>2. CASE code = "INTERNAL"
    BY <2>2 DEF Status, Passing
  <2> QED
    BY <2>1, <2>2 DEF Codes
<1>3. q.at = "told" /\ q.answer = Status(use, code)
  BY DEF Closed
<1> HIDE DEF q
<1>4. Editable(q)
  BY <1>2, <1>3 DEF Editable
<1> QED
  BY <1>1, <1>4, OneTabEdits DEF q, store

LEMMA TreesAndListings ==
  ASSUME EditInv, WikiInv, NEW t \in Tabs, OpenTree(t) \/ ListCategory(t) \/ ListMore(t)
  PROVE  EditInv'
<1>1. UNCHANGED store
  BY DEF OpenTree, ListCategory, ListMore
<1>2. DOMAIN tab[t] = DOMAIN Closed
  BY DEF WikiInv, TabInv
<1>3. CASE Fails(t, "tree") \/ Fails(t, "list")
  BY <1>1, <1>3, FailuresAreNo400
<1>4. ASSUME NEW q, tab' = [tab EXCEPT ![t] = q], q.at \in {"tree", "list"}
      PROVE  EditInv'
  <2>1. Editable(q)
    BY <1>4 DEF Editable
  <2> QED
    BY <1>1, <1>4, <2>1, OneTabEdits DEF store
<1>5. CASE OpenTree(t) /\ ~Fails(t, "tree")
  <2>1. PICK schema \in Schemas : tab' = [tab EXCEPT ![t] = [Closed EXCEPT !.at = "tree", !.schema = schema,
                                                      !.tree = Tree(schema)]]
    BY <1>5 DEF OpenTree
  <2>2. [Closed EXCEPT !.at = "tree", !.schema = schema, !.tree = Tree(schema)].at = "tree"
    BY DEF Closed
  <2> QED
    BY <1>4, <2>1, <2>2
<1>6. CASE ListCategory(t) /\ ~Fails(t, "list")
  <2>1. tab' = [tab EXCEPT ![t] = [Closed EXCEPT !.at = "list", !.token = NextToken(0),
                             !.listed = Listing(0), !.steady = ToSet(ranking)]]
    BY <1>6 DEF ListCategory
  <2>2. [Closed EXCEPT !.at = "list", !.token = NextToken(0),
                       !.listed = Listing(0), !.steady = ToSet(ranking)].at = "list"
    BY DEF Closed
  <2> QED
    BY <1>4, <2>1, <2>2
<1>7. CASE ListMore(t) /\ ~Fails(t, "list")
  <2> DEFINE next == NextToken(tab[t].token)
             listed == tab[t].listed \o Listing(tab[t].token)
             q == [tab[t] EXCEPT !.token = next, !.listed = listed]
  <2>1. tab' = [tab EXCEPT ![t] = q]
    BY <1>7 DEF ListMore
  <2>2. q.at = "list"
    <3> HIDE DEF next, listed
    <3> QED
      BY <1>2, <1>7 DEF Closed, ListMore
  <2> HIDE DEF q
  <2> QED
    BY <1>4, <2>1, <2>2
<1> QED
  BY <1>3, <1>5, <1>6, <1>7

LEMMA PagesOpen ==
  ASSUME EditInv, WikiInv, NEW t \in Tabs, NEW page, OpenPage(t, page)
  PROVE  EditInv'
<1>1. UNCHANGED store
  BY DEF OpenPage
<1>2. CASE Fails(t, "page")
  BY <1>1, <1>2, FailuresAreNo400
<1>3. CASE tab' = [tab EXCEPT ![t] =
             [Closed EXCEPT !.at = "told", !.page = page, !.answer = Status("page", "INTERNAL")]]
  <2> DEFINE q == [Closed EXCEPT !.at = "told", !.page = page, !.answer = Status("page", "INTERNAL")]
  <2>1. Status("page", "INTERNAL") # 400
    BY DEF Status, Passing
  <2>2. q.at = "told" /\ q.answer = Status("page", "INTERNAL")
    BY DEF Closed
  <2> HIDE DEF q
  <2>3. Editable(q)
    BY <2>1, <2>2 DEF Editable
  <2> QED
    BY <1>1, <1>3, <2>3, OneTabEdits DEF q, store
<1>4. CASE tab' = [tab EXCEPT ![t] = PageDetail(page)]
  <2> DEFINE q == PageDetail(page)
  <2>1. q.at = "page" /\ q.page = page /\ q.shown = ContentBlocks(Context(page, MaxBlockLevel))
    BY DEF PageDetail, Closed
  <2>2. ToSet(ContentBlocks(Context(page, MaxBlockLevel))) \subseteq Reach(graph.edges, page)
    BY ShownReach DEF EditInv
  <2> HIDE DEF q
  <2>3. Editable(q)
    BY <2>1, <2>2 DEF Editable
  <2> QED
    BY <1>1, <1>4, <2>3, OneTabEdits DEF q, store
<1> QED
  BY <1>2, <1>3, <1>4 DEF OpenPage

\* Who is refused has not asked for what is shown only.
LEMMA PatchesBegin ==
  ASSUME EditInv, WikiInv, NEW t \in Tabs, NEW ask, ReadForPatch(t, ask)
  PROVE  EditInv'
<1>1. UNCHANGED store /\ tab[t].at = "page"
  BY DEF ReadForPatch
<1>2. CASE Fails(t, "patch")
  BY <1>1, <1>2, FailuresAreNo400
<1>3. DOMAIN tab[t] = DOMAIN Closed
  BY DEF WikiInv, TabInv
<1>4. ToSet(tab[t].shown) \subseteq Reach(graph.edges, tab[t].page)
  BY <1>1 DEF EditInv, Editable
<1>5. Patchable(tab[t].page) = Reach(graph.edges, tab[t].page)
  BY PatchableIsReach
<1>6. CASE ~Fails(t, "patch") /\ Asked(ask) \subseteq Patchable(tab[t].page)
  <2> DEFINE reply == Context(tab[t].page, MaxBlockLevel)
             q == [tab[t] EXCEPT !.at = "saving", !.ask = ask, !.reply = reply]
  <2>1. tab' = [tab EXCEPT ![t] = q]
    BY <1>6 DEF ReadForPatch
  <2>2. q.at = "saving" /\ q.ask = ask /\ q.shown = tab[t].shown /\ q.page = tab[t].page
    <3> HIDE DEF reply
    <3> QED
      BY <1>3 DEF Closed
  <2> HIDE DEF q
  <2>3. Editable(q)
    BY <1>4, <1>5, <1>6, <2>2 DEF Editable
  <2> QED
    BY <1>1, <2>1, <2>3, OneTabEdits DEF store
<1>7. CASE ~Fails(t, "patch") /\ ~(Asked(ask) \subseteq Patchable(tab[t].page))
  <2> DEFINE q == [tab[t] EXCEPT !.at = "told", !.ask = ask, !.reply = <<>>, !.answer = 400]
  <2>1. tab' = [tab EXCEPT ![t] = q]
    BY <1>7 DEF ReadForPatch
  <2>2. q.at = "told" /\ q.ask = ask /\ q.shown = tab[t].shown
    BY <1>3 DEF Closed
  <2> HIDE DEF q
  <2>3. ~(Asked(ask) \subseteq ToSet(tab[t].shown))
    BY <1>4, <1>5, <1>7
  <2>4. Editable(q)
    BY <2>2, <2>3 DEF Editable
  <2> QED
    BY <1>1, <2>1, <2>4, OneTabEdits DEF store
<1> QED
  BY <1>2, <1>6, <1>7

\* The second call of a patch finds the blocks that the first has found.
LEMMA PatchesEnd ==
  ASSUME EditInv, WikiInv, NEW t \in Tabs, Patch(t)
  PROVE  EditInv'
<1>1. tab[t].at = "saving" /\ graph' = graph
  BY DEF Patch
<1>2. DOMAIN tab[t] = DOMAIN Closed
  BY DEF WikiInv, TabInv
<1>3. ~Invalid(PatchDelta(tab[t].ask), graph)
  BY <1>1, ReachedAreAccepted DEF EditInv, Editable
<1>4. \A code \in Codes : Status("patch", code) # 400
  BY DEF Codes, Passing, Status
<1>5. PICK status : Told(t, status) /\ status # 400
  BY <1>3, <1>4 DEF Patch
<1> DEFINE q == [tab[t] EXCEPT !.at = "told", !.answer = status, !.reply = <<>>]
<1>6. tab' = [tab EXCEPT ![t] = q]
  BY <1>5 DEF Told
<1>7. q.at = "told" /\ q.answer = status
  BY <1>2 DEF Closed
<1> HIDE DEF q
<1>8. Editable(q)
  BY <1>5, <1>7 DEF Editable
<1> QED
  BY <1>1, <1>6, <1>8, OneTabEdits

\* Jobs take nothing out of reach.
LEMMA JobsKeepReach ==
  ASSUME EditInv, WikiInv, NEW job \in JobDeltas, JobWrites(job)
  PROVE  EditInv'
<1>1. ~Invalid(job.delta, graph) /\ graph' = Merged(job.delta, graph)
  BY DEF JobWrites
<1>2. GraphInv' /\ graph.edges \subseteq graph'.edges
  BY <1>1, JobsKeepParents DEF EditInv
<1>3. ASSUME NEW t \in Tabs
      PROVE  Editable(tab[t])'
  <2> DEFINE old == tab[t]
             steady == old.steady \ Touched(job.delta, Merged(job.delta, graph))
  <2>1. DOMAIN old = DOMAIN Closed
    BY DEF WikiInv, TabInv
  <2>2. tab'[t] = [old EXCEPT !.steady = steady]
    BY DEF JobWrites
  <2> HIDE DEF steady
  <2>3. /\ tab'[t].at = old.at /\ tab'[t].shown = old.shown /\ tab'[t].page = old.page
        /\ tab'[t].ask = old.ask /\ tab'[t].answer = old.answer
    BY <2>1, <2>2 DEF Closed
  <2>4. Editable(old)
    BY DEF EditInv
  <2>5. Reach(graph.edges, old.page) \subseteq Reach(graph'.edges, old.page)
    BY <1>2, ReachGrows
  <2> HIDE DEF old
  <2> QED
    BY <2>3, <2>4, <2>5 DEF Editable
<1> QED
  BY <1>2, <1>3 DEF EditInv

LEMMA EditInvInit == Init => EditInv
<1> SUFFICES ASSUME Init
             PROVE  EditInv
  OBVIOUS
<1>1. GraphInv
  <2>1. FirstGraph.edges \subseteq Edge
    BY WikiAssumption DEF Graph
  <2> QED
    BY <2>1, WikiAssumption DEF Init, GraphInv
<1>2. ASSUME NEW t \in Tabs
      PROVE  Editable(tab[t])
  <2>1. tab[t].at = "closed"
    BY DEF Init, Closed
  <2> QED
    BY <2>1 DEF Editable
<1> QED
  BY <1>1, <1>2 DEF EditInv

LEMMA EditInvNext ==
  ASSUME EditInv, WikiInv, [Next]_vars
  PROVE  EditInv'
<1>1. CASE UNCHANGED vars
  BY <1>1 DEF vars, store, EditInv, GraphInv, Editable
<1>2. ASSUME NEW t \in Tabs,
             \/ OpenTree(t) \/ ListCategory(t) \/ ListMore(t)
             \/ \E page \in Openable : OpenPage(t, page)
             \/ \E ask \in PatchRequests : ReadForPatch(t, ask)
             \/ Patch(t)
      PROVE  EditInv'
  BY <1>2, TreesAndListings, PagesOpen, PatchesBegin, PatchesEnd
<1>3. ASSUME NEW job \in JobDeltas, JobWrites(job)
      PROVE  EditInv'
  BY <1>3, JobsKeepReach
<1> QED
  BY <1>1, <1>2, <1>3 DEF Next

\* A patch of blocks that the tab was shown is never refused, neither by the
\* backend, which reads the page's context anew, nor by the knowledge interface,
\* which counts the parents of each block: for any graph whose blocks have one
\* parent each, and whatever jobs and other tabs write in between
\* (patch_page_content_blocks, enforce_graph_state_rules).
THEOREM ShownBlocksCanBePatched == Spec => []ShownIsEditable
<1>1. Init => WikiInv /\ EditInv
  BY WikiInvInit, EditInvInit
<1>2. WikiInv /\ EditInv /\ [Next]_vars => (WikiInv /\ EditInv)'
  BY WikiInvNext, EditInvNext
<1>3. WikiInv /\ EditInv => ShownIsEditable
  BY DEF EditInv, Editable, ShownIsEditable
<1> QED
  BY <1>1, <1>2, <1>3, PTL DEF Spec
-----------------------------------------------------------------------------
(* The tree of categories.                                                 *)

\* What comes of a lineage when each step goes to a kid that it has not met.
Descents(T, kids, lin) ==
  {e \in Seq(T) :
     /\ Len(lin) <= Len(e)
     /\ \A i \in 1 .. Len(lin) : e[i] = lin[i]
     /\ \A i \in Len(lin) .. Len(e) - 1 :
          e[i + 1] \in kids[e[i]] /\ \A j \in 1 .. i : e[j] # e[i + 1]}

\* The lineages below a lineage when those below its kids are f.
Lower(T, kids, f) ==
  [lin \in Seq(T) \ {<<>>} |->
     {lin} \cup UNION {f[Append(lin, c)] : c \in kids[Last(lin)] \ ToSet(lin)}]

LEMMA Grown ==
  ASSUME NEW T, NEW lin \in Seq(T) \ {<<>>}, NEW c \in T
  PROVE  /\ Len(lin) \in Nat \ {0} /\ lin[Len(lin)] \in T /\ Last(lin) = lin[Len(lin)]
         /\ Append(lin, c) \in Seq(T) \ {<<>>} /\ Len(Append(lin, c)) = Len(lin) + 1
         /\ \A i \in 1 .. Len(lin) : Append(lin, c)[i] = lin[i]
         /\ Append(lin, c)[Len(lin) + 1] = c
         /\ ToSet(lin) = {lin[i] : i \in 1 .. Len(lin)} /\ ToSet(lin) \subseteq T
         /\ ToSet(Append(lin, c)) = ToSet(lin) \cup {c}
<1>1. Len(lin) \in Nat \ {0} /\ DOMAIN lin = 1 .. Len(lin) /\ \A i \in 1 .. Len(lin) : lin[i] \in T
  BY LenProperties, ElementOfSeq, EmptySeq
<1> DEFINE m == Len(lin)
           s == Append(lin, c)
<1>2. /\ s \in Seq(T) /\ s # <<>> /\ Len(s) = m + 1 /\ DOMAIN s = 1 .. m + 1
      /\ \A i \in 1 .. m : s[i] = lin[i] 
      /\ s[m + 1] = c
  BY AppendProperties, LenProperties
<1>3. ToSet(lin) = {lin[i] : i \in 1 .. m} /\ ToSet(lin) \subseteq T
  BY <1>1 DEF ToSet
<1> HIDE DEF s
<1>4. ToSet(s) = ToSet(lin) \cup {c}
  <2>1. \A i \in 1 .. m + 1 : i \in 1 .. m \/ i = m + 1
    BY <1>1
  <2>2. 1 .. m \subseteq 1 .. m + 1 /\ m + 1 \in 1 .. m + 1
    BY <1>1
  <2> HIDE DEF m
  <2>3. ToSet(s) = {s[i] : i \in 1 .. m + 1}
    BY <1>2 DEF ToSet
  <2> QED
    BY <1>2, <1>3, <2>1, <2>2, <2>3
<1> QED
  BY <1>1, <1>2, <1>3, <1>4 DEF s, Last

\* The descents are what the recursion asks for,
LEMMA DescentsSolve ==
  ASSUME NEW T, NEW kids \in [T -> SUBSET T]
  PROVE  LET g == [lin \in Seq(T) \ {<<>>} |-> Descents(T, kids, lin)]
         IN Lower(T, kids, g) = g
<1> DEFINE g == [lin \in Seq(T) \ {<<>>} |-> Descents(T, kids, lin)]
<1> SUFFICES ASSUME NEW lin \in Seq(T) \ {<<>>}
             PROVE  {lin} \cup UNION {g[Append(lin, c)] : c \in kids[Last(lin)] \ ToSet(lin)} = Descents(T, kids, lin)
  BY DEF Lower
<1> DEFINE m == Len(lin)
           last == lin[m]
           new == kids[last] \ ToSet(lin)
<1>1. m \in Nat \ {0} /\ last \in T /\ Last(lin) = last
  <2>1. lin[1] \in T
    BY LenProperties, ElementOfSeq, EmptySeq
  <2> QED
    BY <2>1, Grown
<1>2. new \subseteq T
  BY <1>1
<1>3. ASSUME NEW c \in new
      PROVE  /\ Append(lin, c) \in Seq(T) \ {<<>>} /\ Len(Append(lin, c)) = m + 1
             /\ \A i \in 1 .. m : Append(lin, c)[i] = lin[i]
             /\ Append(lin, c)[m + 1] = c
             /\ \A j \in 1 .. m : lin[j] # c
  <2>1. c \in T /\ ToSet(lin) = {lin[i] : i \in 1 .. Len(lin)}
    BY <1>2, Grown
  <2>2. \A j \in 1 .. m : lin[j] # c
    BY <2>1
  <2> QED
    BY <2>1, <2>2, Grown
<1>4. lin \in Descents(T, kids, lin)
  BY <1>1 DEF Descents
<1>5. ASSUME NEW c \in new, NEW e \in g[Append(lin, c)]
      PROVE  e \in Descents(T, kids, lin)
  <2>1. e \in Descents(T, kids, Append(lin, c))
    BY <1>3
  <2>2. /\ e \in Seq(T) /\ Len(e) \in Nat /\ m + 1 <= Len(e)
        /\ \A i \in 1 .. m + 1 : e[i] = Append(lin, c)[i]
        /\ \A i \in m + 1 .. Len(e) - 1 :
             e[i + 1] \in kids[e[i]] /\ \A j \in 1 .. i : e[j] # e[i + 1]
    BY <1>3, <2>1, LenProperties DEF Descents
  <2>3. (\A i \in 1 .. m : e[i] = lin[i]) /\ e[m + 1] = c
    <3>1. m + 1 \in 1 .. m + 1 /\ \A i \in 1 .. m : i \in 1 .. m + 1
      BY <1>1
    <3>2. e[m + 1] = Append(lin, c)[m + 1] /\ \A i \in 1 .. m : e[i] = Append(lin, c)[i]
      BY <2>2, <3>1
    <3> QED
      BY <1>3, <3>2
  <2>4. e[m + 1] \in kids[e[m]] /\ \A j \in 1 .. m : e[j] # e[m + 1]
    <3>1. e[m] = last
      BY <1>1, <2>3
    <3> QED
      BY <1>3, <2>3, <3>1
  <2>5. ASSUME NEW i \in m .. Len(e) - 1
        PROVE  e[i + 1] \in kids[e[i]] /\ \A j \in 1 .. i : e[j] # e[i + 1]
    <3>1. i = m \/ i \in m + 1 .. Len(e) - 1
      BY <1>1, <2>2
    <3> QED
      BY <2>2, <2>4, <3>1
  <2>6. m <= Len(e)
    BY <1>1, <2>2
  <2> HIDE DEF m
  <2>7. /\ e \in Seq(T) /\ Len(lin) <= Len(e)
        /\ \A i \in 1 .. Len(lin) : e[i] = lin[i]
        /\ \A i \in Len(lin) .. Len(e) - 1 :
             e[i + 1] \in kids[e[i]] /\ \A j \in 1 .. i : e[j] # e[i + 1]
    BY <2>2, <2>3, <2>5, <2>6 DEF m
  <2> QED
    BY <2>7 DEF Descents
<1>6. ASSUME NEW e \in Descents(T, kids, lin), e # lin
      PROVE  \E c \in new : e \in g[Append(lin, c)]
  <2>1. /\ e \in Seq(T) /\ Len(e) \in Nat /\ m <= Len(e)
        /\ \A i \in 1 .. m : e[i] = lin[i]
        /\ \A i \in m .. Len(e) - 1 :
             e[i + 1] \in kids[e[i]] /\ \A j \in 1 .. i : e[j] # e[i + 1]
    BY LenProperties DEF Descents
  <2>2. Len(e) # m
    <3> SUFFICES ASSUME Len(e) = m
                 PROVE  FALSE
      OBVIOUS
    <3>1. \A i \in 1 .. Len(e) : e[i] = lin[i]
      BY <2>1
    <3>2. e = lin
      BY <2>1, <3>1, SeqEqual
    <3> QED
      BY <1>6, <3>2
  <2>3. m \in m .. Len(e) - 1
    BY <1>1, <2>1, <2>2
  <2> DEFINE c == e[m + 1]
  <2>4. c \in kids[e[m]] /\ e[m] = last /\ \A j \in 1 .. m : lin[j] # c
    BY <1>1, <2>1, <2>3
  <2>5. c \in new
    <3>1. lin[1] \in T
      BY LenProperties, ElementOfSeq, EmptySeq
    <3>2. ToSet(lin) = {lin[i] : i \in 1 .. Len(lin)}
      BY <3>1, Grown
    <3> QED
      BY <2>4, <3>2
  <2> DEFINE s == Append(lin, c)
  <2>6. /\ s \in Seq(T) \ {<<>>} /\ Len(s) = m + 1
        /\ \A i \in 1 .. m : s[i] = lin[i]
        /\ s[m + 1] = c
    BY <1>3, <2>5
  <2>7. m + 1 <= Len(e)
    BY <1>1, <2>1, <2>2
  <2>8. \A i \in 1 .. m + 1 : e[i] = s[i]
    <3>1. \A i \in 1 .. m + 1 : i \in 1 .. m \/ i = m + 1
      BY <1>1
    <3> HIDE DEF m, s
    <3> QED
      BY <2>1, <2>6, <3>1
  <2>9. \A i \in m + 1 .. Len(e) - 1 :
          e[i + 1] \in kids[e[i]] /\ \A j \in 1 .. i : e[j] # e[i + 1]
    BY <1>1, <2>1
  <2> HIDE DEF s, m
  <2>10. e \in Descents(T, kids, s)
    BY <2>1, <2>6, <2>7, <2>8, <2>9 DEF Descents
  <2>11. e \in g[s]
    BY <2>6, <2>10
  <2> QED
    BY <2>5, <2>11 DEF s
<1> HIDE DEF g
<1>7. \A e : e \in Descents(T, kids, lin) <=> e = lin \/ \E c \in new : e \in g[Append(lin, c)]
  BY <1>4, <1>5, <1>6
<1> QED
  BY <1>1, <1>7

LEMMA WalkedShrinks ==
  ASSUME NEW T, IsFiniteSet(T), NEW lin \in Seq(T) \ {<<>>}, NEW c \in T \ ToSet(lin)
  PROVE  /\ Cardinality(T \ ToSet(lin)) \in Nat
         /\ Cardinality(T \ ToSet(Append(lin, c))) \in Nat
         /\ Cardinality(T \ ToSet(Append(lin, c))) < Cardinality(T \ ToSet(lin))
<1> DEFINE rest == T \ ToSet(lin)
<1>1. IsFiniteSet(rest) /\ Cardinality(rest) \in Nat
  BY FS_Subset, FS_CardinalityType
<1>2. T \ ToSet(Append(lin, c)) = rest \ {c}
  BY Grown
<1>3. Cardinality(rest \ {c}) = Cardinality(rest) - 1 /\ IsFiniteSet(rest \ {c})
  <2>1. c \in rest
    OBVIOUS
  <2> HIDE DEF rest
  <2> QED
    BY <1>1, <2>1, FS_RemoveElement
<1>4. Cardinality(rest \ {c}) \in Nat
  BY <1>3, FS_CardinalityType
<1> HIDE DEF rest
<1>5. Cardinality(rest \ {c}) < Cardinality(rest)
  BY <1>1, <1>3, <1>4
<1> QED
  BY <1>1, <1>2, <1>4, <1>5 DEF rest

\* and nothing else is, where the types are finite.
LEMMA OneSolution ==
  ASSUME NEW T, IsFiniteSet(T), NEW kids \in [T -> SUBSET T],
         NEW f, f = Lower(T, kids, f), NEW g, g = Lower(T, kids, g)
  PROVE  f = g
<1> DEFINE Left(lin) == Cardinality(T \ ToSet(lin))
           L == Seq(T) \ {<<>>}
           Bad == {n \in Nat : \E lin \in L : Left(lin) = n /\ f[lin] # g[lin]}
<1>1. f = [lin \in L |-> f[lin]] /\ g = [lin \in L |-> g[lin]]
  BY DEF Lower
<1>2. \A lin \in L : Left(lin) \in Nat
  <2> SUFFICES ASSUME NEW lin \in L
               PROVE  Left(lin) \in Nat
    OBVIOUS
  <2>1. IsFiniteSet(T \ ToSet(lin))
    BY FS_Subset
  <2> QED
    BY <2>1, FS_CardinalityType
<1>3. Bad = {}
  <2> SUFFICES ASSUME Bad # {}
               PROVE  FALSE
    OBVIOUS
  <2>1. IsWellFoundedOn(OpToRel(<, Nat), Nat)
    BY NatLessThanWellFounded
  <2>2. PICK n \in Bad : \A k \in Bad : ~ (<<k, n>> \in OpToRel(<, Nat))
    <3>1. Bad \in SUBSET Nat
      OBVIOUS
    <3> HIDE DEF Bad
    <3> QED
      BY <2>1, <3>1, WFMin
  <2>3. \A k \in Bad : ~ (k < n)
    <3>1. Bad \subseteq Nat
      OBVIOUS
    <3> HIDE DEF Bad
    <3> QED
      BY <2>2, <3>1 DEF OpToRel
  <2>4. PICK lin \in L : Left(lin) = n /\ f[lin] # g[lin]
    OBVIOUS
  <2> DEFINE new == kids[Last(lin)] \ ToSet(lin)
  <2>5. ASSUME NEW c \in new
        PROVE  f[Append(lin, c)] = g[Append(lin, c)]
    <3>1. c \in T \ ToSet(lin)
      <4>1. lin[1] \in T
        BY LenProperties, ElementOfSeq, EmptySeq
      <4>2. Last(lin) \in T
        BY <4>1, Grown
      <4> QED
        BY <4>2
    <3>2. Append(lin, c) \in L
      BY <3>1, Grown
    <3>3. Left(Append(lin, c)) \in Nat /\ Left(Append(lin, c)) < Left(lin)
      BY <3>1, WalkedShrinks
    <3>4. Left(Append(lin, c)) \notin Bad
      <4> HIDE DEF Left, Bad
      <4> QED
        BY <2>3, <2>4, <3>3
    <3> HIDE DEF Left
    <3> QED
      BY <3>2, <3>3, <3>4
  <2>6. f[lin] = {lin} \cup UNION {f[Append(lin, c)] : c \in new}
    BY DEF Lower
  <2>7. g[lin] = {lin} \cup UNION {g[Append(lin, c)] : c \in new}
    BY DEF Lower
  <2>8. {f[Append(lin, c)] : c \in new} = {g[Append(lin, c)] : c \in new}
    <3> HIDE DEF new
    <3> QED
      BY <2>5
  <2> QED
    BY <2>4, <2>6, <2>7, <2>8
<1>4. \A lin \in L : f[lin] = g[lin]
  <2> HIDE DEF Left, L
  <2> QED
    BY <1>2, <1>3
<1> QED
  BY <1>1, <1>4

\* The categories met in n steps from the roots.
Expanded(schema, cs) == UNION {{c} \cup Children(schema, c) : c \in cs}

ReachedIn(schema) ==
  LET Reached[n \in 0 .. Cardinality(schema.active)] ==
        IF n = 0 THEN Roots(schema) ELSE Expanded(schema, Reached[n - 1])
  IN Reached

LEMMA ReachedSteps ==
  ASSUME NEW schema, Cardinality(schema.active) \in Nat
  PROVE  /\ Included(schema) = ReachedIn(schema)[Cardinality(schema.active)]
         /\ ReachedIn(schema)[0] = Roots(schema)
         /\ \A n \in 1 .. Cardinality(schema.active) :
              ReachedIn(schema)[n] = Expanded(schema, ReachedIn(schema)[n - 1])
<1> DEFINE m == Cardinality(schema.active)
           Sets(f, n) ==
             f = [i \in 0 .. n |-> IF i = 0 THEN Roots(schema) ELSE Expanded(schema, f[i - 1])]
           G == {n \in 0 .. m : \E f : Sets(f, n)}
<1>1. 0 \in G
  <2>1. Sets([i \in 0 .. 0 |-> Roots(schema)], 0)
    OBVIOUS
  <2>2. 0 \in 0 .. m
    OBVIOUS
  <2> HIDE DEF Sets
  <2> QED
    BY <2>1, <2>2
<1>2. ASSUME NEW n \in 1 .. m, n - 1 \in G
      PROVE  n \in G
  <2>1. PICK f : Sets(f, n - 1)
    BY <1>2
  <2> DEFINE g == [i \in 0 .. n |-> IF i = 0 THEN Roots(schema) ELSE Expanded(schema, f[i - 1])]
  <2>2. \A i \in 0 .. n - 1 : g[i] = f[i]
    BY <2>1
  <2>3. \A i \in 0 .. n : i # 0 => i - 1 \in 0 .. n - 1
    OBVIOUS
  <2>4. \A i \in 0 .. n : i # 0 => g[i] = Expanded(schema, g[i - 1])
    BY <2>2, <2>3
  <2>5. Sets(g, n)
    BY <2>4
  <2>6. n \in 0 .. m
    OBVIOUS
  <2> HIDE DEF Sets, g
  <2> QED
    BY <2>5, <2>6
<1>3. 0 .. m \subseteq G
  <2> HIDE DEF G
  <2> QED
    BY <1>1, <1>2, Climb
<1>4. Sets(ReachedIn(schema), m)
  <2>1. \E f : Sets(f, m)
    <3>1. m \in 0 .. m
      OBVIOUS
    <3> HIDE DEF Sets, m
    <3> QED
      BY <1>3, <3>1
  <2>2. ReachedIn(schema) = CHOOSE f : Sets(f, m)
    BY DEF ReachedIn
  <2> HIDE DEF Sets
  <2> QED
    BY <2>1, <2>2
<1> DEFINE c == ReachedIn(schema)
<1>5. c = [i \in 0 .. m |-> IF i = 0 THEN Roots(schema) ELSE Expanded(schema, c[i - 1])]
  BY <1>4
<1>6. Included(schema) = c[m]
  BY DEF Included, ReachedIn, Expanded
<1> HIDE DEF c
<1>7. c[0] = Roots(schema) /\ \A i \in 1 .. m : c[i] = Expanded(schema, c[i - 1])
  BY <1>5
<1> QED
  BY <1>6, <1>7 DEF c

\* What a path from a root meets is included, because a path that meets no type
\* twice is no longer than there are active types.
LEMMA PathsAreIncluded ==
  ASSUME NEW schema \in Schemas, NEW p \in Seq(schema.types), Len(p) \in Nat \ {0},
         p[1] \in Roots(schema), \A i \in 1 .. Len(p) - 1 : p[i + 1] \in Children(schema, p[i]),
         \A i, j \in 1 .. Len(p) : p[i] = p[j] => i = j
  PROVE  \A i \in 1 .. Len(p) : p[i] \in Included(schema)
<1> DEFINE A == schema.active
           m == Cardinality(A)
           n == Len(p)
           R == ReachedIn(schema)
<1>1. IsFiniteSet(A) /\ m \in Nat
  BY WikiAssumption, FS_Subset, FS_CardinalityType
<1>2. \A i \in 1 .. n : p[i] \in A
  <2>1. \A c : Children(schema, c) \subseteq A
    BY DEF Children
  <2>2. \A i \in 1 .. n : i = 1 \/ (i - 1 \in 1 .. n - 1 /\ (i - 1) + 1 = i)
    OBVIOUS
  <2>3. ASSUME NEW i \in 1 .. n
        PROVE  p[i] \in A
    <3>1. CASE i = 1
      BY <2>1, <3>1 DEF Roots
    <3>2. CASE i # 1
      <4>1. p[(i - 1) + 1] \in Children(schema, p[i - 1])
        BY <2>2, <3>2
      <4>2. p[i] \in Children(schema, p[i - 1])
        BY <2>2, <3>2, <4>1
      <4> QED
        BY <2>1, <4>2
    <3> QED
      BY <3>1, <3>2
  <2> QED
    BY <2>3
<1>3. n <= m
  <2>1. DOMAIN p = 1 .. n
    BY LenProperties
  <2>2. p \in [1 .. n -> A]
    BY <1>2, <2>1
  <2>3. p \in Injection(1 .. n, A)
    BY <2>2 DEF Injection, IsInjective
  <2>4. Cardinality(1 .. n) <= m
    BY <1>1, <2>3, FS_Injection
  <2> QED
    BY <2>4, UpTo
<1>4. /\ Included(schema) = R[m] /\ R[0] = Roots(schema)
      /\ \A k \in 1 .. m : R[k] = Expanded(schema, R[k - 1])
  BY <1>1, ReachedSteps
<1> HIDE DEF R
<1> DEFINE G == {k \in 0 .. m : \A i \in 1 .. n : i <= k + 1 => p[i] \in R[k]}
<1>5. 0 \in G
  <2>1. \A i \in 1 .. n : i <= 0 + 1 => i = 1
    OBVIOUS
  <2> QED
    BY <1>1, <1>4, <2>1
<1>6. ASSUME NEW k \in 1 .. m, k - 1 \in G
      PROVE  k \in G
  <2>1. R[k] = Expanded(schema, R[k - 1])
    BY <1>4
  <2>2. ASSUME NEW i \in 1 .. n, i <= k + 1
        PROVE  p[i] \in R[k]
    <3>1. CASE i <= k
      <4>1. p[i] \in R[k - 1]
        BY <1>6, <3>1
      <4> QED
        BY <2>1, <4>1 DEF Expanded
    <3>2. CASE i = k + 1
      <4>1. k \in 1 .. n - 1 /\ k \in 1 .. n
        BY <3>2
      <4>2. p[k] \in R[k - 1]
        BY <1>6, <4>1
      <4>3. p[k + 1] \in Children(schema, p[k])
        BY <4>1
      <4>4. p[k + 1] \in R[k]
        BY <2>1, <4>2, <4>3 DEF Expanded
      <4> QED
        BY <3>2, <4>4
    <3> QED
      BY <1>1, <2>2, <3>1, <3>2
  <2>3. k \in 0 .. m
    OBVIOUS
  <2> QED
    BY <2>2, <2>3
<1>7. m \in G
  <2>1. 0 .. m \subseteq G
    <3> HIDE DEF G, m
    <3> QED
      BY <1>1, <1>5, <1>6, Climb
  <2>2. m \in 0 .. m
    BY <1>1
  <2> HIDE DEF G
  <2> QED
    BY <2>1, <2>2
<1>8. \A i \in 1 .. n : i <= m + 1
  BY <1>1, <1>3
<1> QED
  BY <1>4, <1>7, <1>8

KidsOf(schema) == [c \in schema.types |-> Children(schema, c) \cap Included(schema)]

LEMMA TreeIsDescents ==
  ASSUME NEW schema \in Schemas
  PROVE  Tree(schema) = UNION {Descents(schema.types, KidsOf(schema), <<c>>) : c \in Roots(schema)}
<1> DEFINE T == schema.types
           kids == KidsOf(schema)
           g == [lin \in Seq(T) \ {<<>>} |-> Descents(T, kids, lin)]
           below == CHOOSE f : f = Lower(T, kids, f)
<1>1. IsFiniteSet(T) /\ \A c : Children(schema, c) \subseteq T
  BY WikiAssumption DEF Children
<1>2. kids \in [T -> SUBSET T]
  BY <1>1 DEF KidsOf
<1>3. g = Lower(T, kids, g)
  BY <1>2, DescentsSolve
<1>4. below = Lower(T, kids, below)
  <2> HIDE DEF g
  <2> QED
    BY <1>3
<1>5. below = g
  <2> HIDE DEF g, below, kids, T
  <2> QED
    BY <1>1, <1>2, <1>3, <1>4, OneSolution
<1>6. Tree(schema) = UNION {below[<<c>>] : c \in Roots(schema)}
  BY DEF Tree, Lower, KidsOf
<1>7. ASSUME NEW c \in Roots(schema)
      PROVE  g[<<c>>] = Descents(T, kids, <<c>>)
  <2>1. c \in T
    BY <1>1 DEF Roots
  <2>2. <<c>> \in Seq(T) \ {<<>>}
    <3> HIDE DEF T
    <3>1. <<c>> \in Seq(T) /\ Len(<<c>>) = 1 /\ Len(<<>>) = 0
      BY <2>1
    <3> QED
      BY <3>1
  <2> QED
    BY <2>2
<1> HIDE DEF g, below
<1> QED
  BY <1>5, <1>6, <1>7

\* The paths of active links from a root.
LEMMA LineagesAreDescents ==
  ASSUME NEW schema \in Schemas
  PROVE  AllLineages[schema] = UNION {Descents(schema.types, KidsOf(schema), <<c>>) : c \in Roots(schema)}
<1> DEFINE T == schema.types
           kids == KidsOf(schema)
           Path(p) == /\ p[1] \in Roots(schema)
                      /\ \A i \in 1 .. Len(p) - 1 : p[i + 1] \in Children(schema, p[i])
<1>1. IsFiniteSet(T) /\ \A c : Children(schema, c) \subseteq T
  BY WikiAssumption DEF Children
<1>2. AllLineages[schema] = {p \in UNION {SetToSeqs(S) : S \in (SUBSET T) \ {{}}} : Path(p)}
  BY DEF AllLineages
<1>3. ASSUME NEW S \in (SUBSET T) \ {{}}, NEW p \in SetToSeqs(S), Path(p)
      PROVE  \E c \in Roots(schema) : p \in Descents(T, kids, <<c>>)
  <2>1. IsFiniteSet(S)
    BY <1>1, FS_Subset
  <2>2. /\ Cardinality(S) \in Nat /\ DOMAIN p = 1 .. Cardinality(S) /\ p \in Seq(S)
        /\ Len(p) = Cardinality(S) /\ \A i, k \in DOMAIN p : p[i] = p[k] => i = k
    BY <2>1, RankingFacts
  <2>3. Len(p) \in Nat \ {0}
    <3>1. Cardinality(S) # 0
      BY <2>1, FS_EmptySet
    <3> QED
      BY <2>2, <3>1
  <2>4. p \in Seq(T) /\ \A i \in 1 .. Len(p) : p[i] \in T
    BY <2>2
  <2>5. \A i \in 1 .. Len(p) : p[i] \in Included(schema)
    BY <1>3, <2>2, <2>3, <2>4, PathsAreIncluded
  <2>6. ASSUME NEW i \in 1 .. Len(p) - 1
        PROVE  p[i + 1] \in kids[p[i]] /\ \A j \in 1 .. i : p[j] # p[i + 1]
    <3>1. i \in 1 .. Len(p) /\ i + 1 \in 1 .. Len(p)
      BY <2>3
    <3>2. p[i + 1] \in Children(schema, p[i]) /\ p[i + 1] \in Included(schema) /\ p[i] \in T
      BY <1>3, <2>4, <2>5, <3>1
    <3>3. \A j \in 1 .. i : j \in 1 .. Len(p) /\ j # i + 1
      BY <2>3
    <3>4. \A j \in 1 .. i : p[j] # p[i + 1]
      BY <2>2, <3>1, <3>3
    <3> QED
      BY <3>2, <3>4 DEF KidsOf
  <2> DEFINE c == p[1]
  <2>7. /\ Len(<<c>>) = 1 /\ <<c>>[1] = p[1]
    OBVIOUS
  <2>8. p \in Descents(T, kids, <<c>>)
    <3> HIDE DEF kids
    <3>1. \A i \in 1 .. 1 : p[i] = <<c>>[i]
      BY <2>7
    <3> QED
      BY <2>3, <2>4, <2>6, <2>7, <3>1 DEF Descents
  <2> QED
    BY <1>3, <2>8
<1>4. ASSUME NEW c \in Roots(schema), NEW p \in Descents(T, kids, <<c>>)
      PROVE  Path(p) /\ \E S \in (SUBSET T) \ {{}} : p \in SetToSeqs(S)
  <2>1. Len(<<c>>) = 1 /\ <<c>>[1] = c
    OBVIOUS
  <2>2. /\ p \in Seq(T) /\ Len(p) \in Nat /\ 1 <= Len(p) /\ p[1] = c
        /\ \A i \in 1 .. Len(p) - 1 : p[i + 1] \in kids[p[i]] /\ \A j \in 1 .. i : p[j] # p[i + 1]
    BY <2>1, LenProperties DEF Descents
  <2>3. DOMAIN p = 1 .. Len(p) /\ \A i \in 1 .. Len(p) : p[i] \in T
    BY <2>2, LenProperties, ElementOfSeq
  <2>4. Path(p)
    <3> SUFFICES ASSUME NEW i \in 1 .. Len(p) - 1
                 PROVE  p[i + 1] \in Children(schema, p[i])
      BY <2>2
    <3>1. i \in 1 .. Len(p)
      BY <2>2
    <3> QED
      BY <2>2, <2>3, <3>1 DEF KidsOf
  <2>5. ASSUME NEW i \in 1 .. Len(p), NEW j \in 1 .. Len(p), j < i
        PROVE  p[i] # p[j]
    <3>1. i - 1 \in 1 .. Len(p) - 1 /\ j \in 1 .. i - 1 /\ (i - 1) + 1 = i
      BY <2>2, <2>5
    <3>2. p[j] # p[(i - 1) + 1]
      BY <2>2, <3>1
    <3> QED
      BY <3>1, <3>2
  <2> DEFINE S == {p[i] : i \in 1 .. Len(p)}
  <2>6. \A i, j \in 1 .. Len(p) : i # j => p[i] # p[j]
    <3> SUFFICES ASSUME NEW i \in 1 .. Len(p), NEW j \in 1 .. Len(p), i # j
                 PROVE  p[i] # p[j]
      OBVIOUS
    <3>1. j < i \/ i < j
      BY <2>2
    <3> QED
      BY <2>5, <3>1
  <2>7. S \subseteq T /\ S # {} /\ IsFiniteSet(S)
    <3>1. S \subseteq T /\ p[1] \in S
      BY <2>2, <2>3
    <3> HIDE DEF S
    <3> QED
      BY <1>1, <3>1, FS_Subset
  <2>8. Cardinality(S) = Len(p)
    <3>1. p \in [1 .. Len(p) -> S]
      BY <2>2, <2>3
    <3>2. p \in Injection(1 .. Len(p), S)
      BY <2>6, <3>1 DEF Injection, IsInjective
    <3>3. p \in Surjection(1 .. Len(p), S)
      BY <3>1 DEF Surjection
    <3>4. Cardinality(1 .. Len(p)) = Cardinality(S)
      <4> HIDE DEF S
      <4> QED
        BY <2>7, <3>2, <3>3, FS_Injection
    <3> QED
      BY <2>2, <3>4, UpTo
  <2>9. p \in SetToSeqs(S)
    <3>1. p \in [1 .. Len(p) -> S]
      BY <2>2, <2>3
    <3> HIDE DEF S
    <3> QED
      BY <2>6, <2>8, <3>1 DEF SetToSeqs
  <2> HIDE DEF S
  <2> QED
    BY <2>4, <2>7, <2>9
<1> HIDE DEF Path, kids, T
<1>5. \A p : p \in AllLineages[schema] <=> \E c \in Roots(schema) : p \in Descents(T, kids, <<c>>)
  <2> SUFFICES ASSUME NEW p
               PROVE  p \in AllLineages[schema] <=> \E c \in Roots(schema) : p \in Descents(T, kids, <<c>>)
    OBVIOUS
  <2>1. p \in AllLineages[schema] <=> Path(p) /\ \E S \in (SUBSET T) \ {{}} : p \in SetToSeqs(S)
    BY <1>2
  <2> QED
    BY <1>3, <1>4, <2>1
<1>6. \A p : p \in UNION {Descents(T, kids, <<c>>) : c \in Roots(schema)} <=>
               \E c \in Roots(schema) : p \in Descents(T, kids, <<c>>)
  OBVIOUS
<1>7. AllLineages[schema] = UNION {Descents(T, kids, <<c>>) : c \in Roots(schema)}
  BY <1>5, <1>6
<1> QED
  BY <1>7 DEF T, kids

TreeOf(q) == q.at = "tree" => q.schema \in Schemas /\ q.tree = Tree(q.schema)

TreeInv == \A t \in Tabs : TreeOf(tab[t])

\* What a step leaves on a tab: an answer with a tree, one with a page, another
\* one, or what was there of trees and pages.
Answered(q, old) ==
  \/ q.at \in {"told", "saving", "list"}
  \/ q.at = "tree" /\ \E schema \in Schemas : q.schema = schema /\ q.tree = Tree(schema)
  \/ \E page : q = PageDetail(page)
  \/ /\ q.at = old.at /\ q.schema = old.schema /\ q.tree = old.tree
     /\ q.page = old.page /\ q.reply = old.reply /\ q.shown = old.shown /\ q.summary = old.summary

LEMMA OneAnswer ==
  ASSUME WikiInv, NEW t \in Tabs, NEW q, tab' = [tab EXCEPT ![t] = q], Answered(q, tab[t])
  PROVE  \A u \in Tabs : Answered(tab'[u], tab[u])
<1>1. \A u \in Tabs : tab'[u] = IF u = t THEN q ELSE tab[u]
  BY DEF WikiInv
<1>2. \A u \in Tabs : Answered(tab[u], tab[u])
  BY DEF Answered
<1> QED
  BY <1>1, <1>2

LEMMA FailureAnswers ==
  ASSUME WikiInv, NEW t \in Tabs, NEW use, Fails(t, use)
  PROVE  \A u \in Tabs : Answered(tab'[u], tab[u])
<1>1. PICK code \in Codes : tab' = [tab EXCEPT ![t] = [Closed EXCEPT !.at = "told", !.answer = Status(use, code)]]
  BY DEF Fails
<1> DEFINE q == [Closed EXCEPT !.at = "told", !.answer = Status(use, code)]
<1>2. Answered(q, tab[t])
  BY DEF Closed, Answered
<1> HIDE DEF q
<1> QED
  BY <1>1, <1>2, OneAnswer DEF q

LEMMA RequestAnswers ==
  ASSUME WikiInv, NEW t \in Tabs,
         \/ OpenTree(t) \/ ListCategory(t) \/ ListMore(t)
         \/ \E page \in Openable : OpenPage(t, page)
         \/ \E ask \in PatchRequests : ReadForPatch(t, ask)
         \/ Patch(t)
  PROVE  \A u \in Tabs : Answered(tab'[u], tab[u])
<1>1. DOMAIN tab[t] = DOMAIN Closed
  BY DEF WikiInv, TabInv
<1>2. ASSUME NEW q, tab' = [tab EXCEPT ![t] = q], Answered(q, tab[t])
      PROVE  \A u \in Tabs : Answered(tab'[u], tab[u])
  BY <1>2, OneAnswer
<1>3. CASE \E use : Fails(t, use)
  BY <1>3, FailureAnswers
<1>4. CASE OpenTree(t) /\ ~Fails(t, "tree")
  <2>1. PICK schema \in Schemas : tab' = [tab EXCEPT ![t] = [Closed EXCEPT !.at = "tree", !.schema = schema,
                                                    !.tree = Tree(schema)]]
    BY <1>4 DEF OpenTree
  <2> DEFINE tree == Tree(schema)
             q == [Closed EXCEPT !.at = "tree", !.schema = schema, !.tree = tree]
  <2>2. q.at = "tree" /\ q.schema = schema /\ q.tree = tree
    <3> HIDE DEF tree
    <3> QED
      BY DEF Closed
  <2> HIDE DEF q
  <2>3. Answered(q, tab[t])
    BY <2>2 DEF Answered
  <2> QED
    BY <1>2, <2>1, <2>3 DEF q
<1>5. CASE ListCategory(t) /\ ~Fails(t, "list")
  <2> DEFINE next == NextToken(0)
             listed == Listing(0)
             steady == ToSet(ranking)
             q == [Closed EXCEPT !.at = "list", !.token = next, !.listed = listed, !.steady = steady]
  <2>1. tab' = [tab EXCEPT ![t] = q]
    BY <1>5 DEF ListCategory
  <2>2. q.at = "list"
    <3> HIDE DEF next, listed, steady
    <3> QED
      BY DEF Closed
  <2> HIDE DEF q
  <2> QED
    BY <1>2, <2>1, <2>2 DEF Answered
<1>6. CASE ListMore(t) /\ ~Fails(t, "list")
  <2> DEFINE next == NextToken(tab[t].token)
             listed == tab[t].listed \o Listing(tab[t].token)
             q == [tab[t] EXCEPT !.token = next, !.listed = listed]
  <2>1. tab' = [tab EXCEPT ![t] = q] /\ tab[t].at = "list"
    BY <1>6 DEF ListMore
  <2>2. q.at = "list"
    <3> HIDE DEF next, listed
    <3> QED
      BY <1>1, <2>1 DEF Closed
  <2> HIDE DEF q
  <2> QED
    BY <1>2, <2>1, <2>2 DEF Answered
<1>7. ASSUME NEW page, OpenPage(t, page), ~Fails(t, "page")
      PROVE  \A u \in Tabs : Answered(tab'[u], tab[u])
  <2>1. CASE tab' = [tab EXCEPT ![t] = PageDetail(page)]
    BY <1>2, <2>1 DEF Answered
  <2>2. CASE tab' = [tab EXCEPT ![t] =
             [Closed EXCEPT !.at = "told", !.page = page, !.answer = Status("page", "INTERNAL")]]
    <3> DEFINE q == [Closed EXCEPT !.at = "told", !.page = page, !.answer = Status("page", "INTERNAL")]
    <3>1. Answered(q, tab[t])
      BY DEF Closed, Answered
    <3> HIDE DEF q
    <3> QED
      BY <1>2, <2>2, <3>1 DEF q
  <2> QED
    BY <1>7, <2>1, <2>2 DEF OpenPage
<1>8. ASSUME NEW ask, ReadForPatch(t, ask), ~Fails(t, "patch")
      PROVE  \A u \in Tabs : Answered(tab'[u], tab[u])
  <2> DEFINE reply == Context(tab[t].page, MaxBlockLevel)
             saving == [tab[t] EXCEPT !.at = "saving", !.ask = ask, !.reply = reply]
             refused == [tab[t] EXCEPT !.at = "told", !.ask = ask, !.reply = <<>>, !.answer = 400]
  <2>1. saving.at = "saving" /\ refused.at = "told"
    BY <1>1 DEF Closed
  <2>2. \/ tab' = [tab EXCEPT ![t] = saving]
        \/ tab' = [tab EXCEPT ![t] = refused]
    BY <1>8 DEF ReadForPatch
  <2> HIDE DEF saving, refused
  <2>3. Answered(saving, tab[t]) /\ Answered(refused, tab[t])
    BY <2>1 DEF Answered
  <2> QED
    BY <1>2, <2>2, <2>3
<1>9. CASE Patch(t)
  <2>1. PICK status : Told(t, status)
    BY <1>9 DEF Patch
  <2> DEFINE q == [tab[t] EXCEPT !.at = "told", !.answer = status, !.reply = <<>>]
  <2>2. tab' = [tab EXCEPT ![t] = q]
    BY <2>1 DEF Told
  <2>3. q.at = "told"
    BY <1>1 DEF Closed
  <2> HIDE DEF q
  <2> QED
    BY <1>2, <2>2, <2>3 DEF Answered
<1> QED
  BY <1>3, <1>4, <1>5, <1>6, <1>7, <1>8, <1>9

LEMMA StepAnswers ==
  ASSUME WikiInv, [Next]_vars
  PROVE  \A t \in Tabs : Answered(tab'[t], tab[t])
<1>1. CASE UNCHANGED vars
  BY <1>1 DEF vars, Answered
<1>2. ASSUME NEW job \in JobDeltas, JobWrites(job)
      PROVE  \A t \in Tabs : Answered(tab'[t], tab[t])
  <2> SUFFICES ASSUME NEW t \in Tabs
               PROVE  Answered(tab'[t], tab[t])
    OBVIOUS
  <2> DEFINE steady == tab[t].steady \ Touched(job.delta, Merged(job.delta, graph))
             old == tab[t]
  <2>1. tab'[t] = [old EXCEPT !.steady = steady] /\ DOMAIN old = DOMAIN Closed
    BY <1>2 DEF JobWrites, WikiInv, TabInv
  <2> HIDE DEF steady, old
  <2>2. /\ tab'[t].at = old.at /\ tab'[t].schema = old.schema /\ tab'[t].tree = old.tree
        /\ tab'[t].page = old.page /\ tab'[t].reply = old.reply
        /\ tab'[t].shown = old.shown /\ tab'[t].summary = old.summary
    BY <2>1 DEF Closed
  <2> QED
    BY <2>2 DEF Answered, old
<1> QED
  BY <1>1, <1>2, RequestAnswers DEF Next

LEMMA TreeInvNext ==
  ASSUME TreeInv, WikiInv, [Next]_vars
  PROVE  TreeInv'
<1>1. ASSUME NEW t \in Tabs
      PROVE  TreeOf(tab'[t])
  <2>1. Answered(tab'[t], tab[t])
    BY StepAnswers
  <2>2. \A page : PageDetail(page).at = "page"
    BY DEF PageDetail, Closed
  <2> QED
    BY <2>1, <2>2 DEF Answered, TreeInv, TreeOf
<1> QED
  BY <1>1 DEF TreeInv, TreeOf

\* A category is in the tree once for every path of active links to it from a
\* child of node.entity on which no category comes twice, and the tree has
\* nothing else: for any finite schema, whatever cycles and shared children it
\* has (list_wiki_category_tree, build_sub_categories).
THEOREM TreeHasEveryLineage == Spec => []TreeIsAllLineages
<1>1. Init => WikiInv /\ TreeInv
  <2>1. Init => TreeInv
    BY DEF Init, TreeInv, TreeOf, Closed
  <2> QED
    BY <2>1, WikiInvInit
<1>2. WikiInv /\ TreeInv /\ [Next]_vars => (WikiInv /\ TreeInv)'
  BY WikiInvNext, TreeInvNext
<1>3. WikiInv /\ TreeInv => TreeIsAllLineages
  <2>1. \A schema \in Schemas : Tree(schema) = AllLineages[schema]
    BY TreeIsDescents, LineagesAreDescents
  <2> QED
    BY <2>1 DEF TreeInv, TreeOf, TreeIsAllLineages
<1> QED
  BY <1>1, <1>2, <1>3, PTL DEF Spec
-----------------------------------------------------------------------------
(* What a page tells.                                                     *)

\* PageTellsTheTree of one page, but for its summary.
TreeTold(reply, shown) ==
  LET below(i, k) == shown[i] \in Above(reply, shown[k])
      filled == {b.id : b \in {x \in ToSet(reply) : x.text # Blank}}
  IN /\ ToSet(shown) = filled /\ Len(shown) = Cardinality(filled)
     /\ \A i, k \in DOMAIN shown : i < k =>
          /\ ~below(k, i)
          /\ below(i, k) => \A j \in i + 1 .. k : below(i, j)

\* What a row is above of, by the reply alone and by the whole chain.
LEMMA AboveIsOver ==
  ASSUME NEW reply, NEW ids, NEW par, NEW lev, Lists(reply, ids, par, lev), NEW y \in ids, NEW x \in ids
  PROVE  y \in Above(reply, x) <=> <<y, x>> \in Over(ids, par)
<1> DEFINE parents(s) == {reply[i].parent : i \in {k \in DOMAIN reply : reply[k].id \in s}}
<1>1. /\ Levelled(ids, par, lev) /\ None \notin ids
      /\ \A i \in DOMAIN reply : reply[i].id \in ids /\ reply[i].parent = par[reply[i].id]
      /\ \A z \in ids : \E i \in DOMAIN reply : reply[i].id = z
  BY DEF Lists, Levelled
<1>2. \A z \in ids : lev[z] \in 0 .. 2 /\ par[z] \in ids \cup {None} /\ lev[par[z]] = lev[z] + 1
  BY <1>1, LevelFacts
<1>3. \A z \in ids : parents({z}) = {par[z]}
  BY <1>1
<1>4. parents({None}) = {}
  BY <1>1
<1>5. Above(reply, x) = parents({x}) \cup parents(parents({x}))
  BY DEF Above
<1> HIDE DEF parents
<1>6. y \in Above(reply, x) <=> y = par[x] \/ (par[x] \in ids /\ y = par[par[x]])
  <2>1. Above(reply, x) = {par[x]} \cup parents({par[x]})
    BY <1>3, <1>5
  <2>2. CASE par[x] \in ids
    <3>1. Above(reply, x) = {par[x]} \cup {par[par[x]]}
      BY <1>3, <2>1, <2>2
    <3> QED
      BY <2>2, <3>1
  <2>3. CASE par[x] \notin ids
    <3>1. par[x] = None
      BY <1>2, <2>3
    <3>2. Above(reply, x) = {None}
      BY <1>4, <2>1, <3>1
    <3> QED
      BY <1>1, <2>3, <3>1, <3>2
  <2> QED
    BY <2>2, <2>3
<1>7. ~(par[x] \in ids /\ par[par[x]] \in ids /\ y = par[par[par[x]]])
  <2> SUFFICES ASSUME par[x] \in ids, par[par[x]] \in ids, y = par[par[par[x]]]
               PROVE  FALSE
    OBVIOUS
  <2>1. lev[par[x]] = lev[x] + 1 /\ lev[par[par[x]]] = lev[par[x]] + 1 /\ lev[y] = lev[par[par[x]]] + 1
    BY <1>2
  <2>2. lev[x] \in 0 .. 2 /\ lev[par[x]] \in 0 .. 2 /\ lev[par[par[x]]] \in 0 .. 2 /\ lev[y] \in 0 .. 2
    BY <1>2
  <2> QED
    BY <2>1, <2>2
<1>8. <<y, x>> \in Over(ids, par) <=>
        \/ y = par[x]
        \/ /\ par[x] \in ids
           /\ y = par[par[x]] \/ (par[par[x]] \in ids /\ y = par[par[par[x]]])
  BY DEF Over
<1> QED
  BY <1>6, <1>7, <1>8

\* A sequence without repetition is as long as its set is large.
LEMMA EachOnce ==
  ASSUME NEW S, NEW s \in Seq(S), \A i, k \in DOMAIN s : s[i] = s[k] => i = k
  PROVE  IsFiniteSet(ToSet(s)) /\ Len(s) = Cardinality(ToSet(s))
<1> DEFINE n == Len(s)
           f == [i \in 1 .. n |-> s[i]]
<1>1. n \in Nat /\ DOMAIN s = 1 .. n
  BY LenProperties
<1>2. ToSet(s) = {s[i] : i \in 1 .. n}
  BY <1>1 DEF ToSet
<1>3. f \in Bijection(1 .. n, ToSet(s))
  BY <1>1, <1>2 DEF Bijection, Injection, Surjection, IsInjective
<1>4. IsFiniteSet(1 .. n) /\ Cardinality(1 .. n) = n
  <2> HIDE DEF n
  <2>1. IsFiniteSet(1 .. n) /\ Cardinality(1 .. n) = IF 1 > n THEN 0 ELSE n - 1 + 1
    BY <1>1, FS_Interval
  <2> QED
    BY <1>1, <2>1
<1> HIDE DEF f, n
<1>5. IsFiniteSet(ToSet(s)) /\ Cardinality(ToSet(s)) = Cardinality(1 .. n)
  BY <1>3, <1>4, FS_Bijection DEF ExistsBijection
<1> QED
  BY <1>4, <1>5 DEF n

LEMMA ListedIsTold ==
  ASSUME NEW reply, NEW ids, NEW par, NEW lev, Lists(reply, ids, par, lev)
  PROVE  TreeTold(reply, ContentBlocks(reply))
<1> DEFINE s == ContentBlocks(reply)
           up == Over(ids, par)
           filled == {b.id : b \in {x \in ToSet(reply) : x.text # Blank}}
<1>1. s \in Seq(ids) /\ Ordered(s, up) /\ ToSet(s) = Filled(reply)
  BY WalkTells
<1>2. filled = Filled(reply)
  BY DEF Filled, ToSet
<1> HIDE DEF s, filled, up
<1>3. Len(s) = Cardinality(filled) /\ ToSet(s) = filled
  BY <1>1, <1>2, EachOnce DEF Ordered
<1>4. \A i \in DOMAIN s : s[i] \in ids
  BY <1>1
<1>5. \A i, k \in DOMAIN s : s[i] \in Above(reply, s[k]) <=> <<s[i], s[k]>> \in up
  BY <1>4, AboveIsOver DEF up
<1>6. \A i, k \in DOMAIN s : \A j \in i + 1 .. k : j \in DOMAIN s
  <2>1. Len(s) \in Nat /\ DOMAIN s = 1 .. Len(s)
    BY <1>1, LenProperties
  <2> QED
    BY <2>1
<1>7. \A i, k \in DOMAIN s : i < k =>
        /\ ~(s[k] \in Above(reply, s[i]))
        /\ s[i] \in Above(reply, s[k]) => \A j \in i + 1 .. k : s[i] \in Above(reply, s[j])
  BY <1>1, <1>5, <1>6 DEF Ordered
<1>8. TreeTold(reply, s)
  BY <1>3, <1>7 DEF TreeTold, filled
<1> QED
  BY <1>8 DEF s

\* What is taken as a page's summary describes its entity.
LEMMA SummaryDescribes ==
  ASSUME GraphInv, NEW page
  PROVE  Summary(Context(page, MaxBlockLevel)) \in TopIds(graph.edges, page) \cup {None}
<1> DEFINE reply == Context(page, MaxBlockLevel)
           roots == {i \in DOMAIN reply :
                       reply[i].parent = None /\ reply[i].level = 0 /\ reply[i].text # Blank}
           n == Cardinality(BlocksOf(page, MaxBlockLevel))
<1>1. /\ n \in Nat /\ DOMAIN reply = 1 .. n
      /\ \A i \in DOMAIN reply : reply[i] \in Tops(page) \cup Mids(page) \cup Lows(page)
  BY ContextHasAll, ThreeLevels
<1>2. \A b \in Tops(page) \cup Mids(page) \cup Lows(page) : b.level = 0 => b.id \in TopIds(graph.edges, page)
  BY RowPlaces
<1>3. Summary(reply) = IF roots = {} THEN None ELSE reply[Min(roots)].id
  BY DEF Summary
<1>4. roots # {} => Min(roots) \in roots
  <2> SUFFICES ASSUME roots # {}
               PROVE  Min(roots) \in roots
    OBVIOUS
  <2>1. roots \in SUBSET Nat
    BY <1>1
  <2> HIDE DEF roots
  <2>2. IsWellFoundedOn(OpToRel(<, Nat), Nat)
    BY NatLessThanWellFounded
  <2>3. PICK i \in roots : \A k \in roots : ~ (<<k, i>> \in OpToRel(<, Nat))
    BY <2>1, <2>2, WFMin
  <2>4. \A k \in roots : ~ (k < i)
    BY <2>1, <2>3 DEF OpToRel
  <2>5. \E j \in roots : \A k \in roots : j <= k
    <3>1. \A k \in roots : i <= k
      <4>1. \A k \in roots : k \in Nat /\ i \in Nat
        BY <2>1
      <4> QED
        BY <2>4, <4>1
    <3> QED
      BY <3>1
  <2> QED
    BY <2>5 DEF Min
<1>5. \A i \in roots : reply[i].id \in TopIds(graph.edges, page)
  BY <1>1, <1>2
<1> HIDE DEF roots
<1> QED
  BY <1>3, <1>4, <1>5 DEF reply

PageOf(q) ==
  q.at = "page" => TreeTold(q.reply, q.shown) /\ q.summary \in TopIds(graph.edges, q.page) \cup {None}

PageInv == \A t \in Tabs : PageOf(tab[t])

LEMMA PageInvNext ==
  ASSUME PageInv, EditInv, WikiInv, [Next]_vars
  PROVE  PageInv'
<1>1. graph.edges \subseteq graph'.edges
  <2>1. ASSUME NEW job \in JobDeltas, JobWrites(job)
        PROVE  graph.edges \subseteq graph'.edges
    BY <2>1, JobsKeepParents DEF JobWrites, EditInv
  <2>2. \/ graph' = graph
        \/ \E job \in JobDeltas : JobWrites(job)
    BY DEF Next, vars, store, OpenTree, ListCategory, ListMore, OpenPage, ReadForPatch, Patch
  <2> QED
    BY <2>1, <2>2
<1>2. \A page : TopIds(graph.edges, page) \subseteq TopIds(graph'.edges, page)
  BY <1>1 DEF TopIds
<1>3. ASSUME NEW page
      PROVE  LET q == PageDetail(page)
             IN TreeTold(q.reply, q.shown) /\ q.summary \in TopIds(graph.edges, q.page) \cup {None}
  <2> DEFINE reply == Context(page, MaxBlockLevel)
             q == PageDetail(page)
  <2>1. /\ q.reply = reply /\ q.shown = ContentBlocks(reply) /\ q.summary = Summary(reply)
        /\ q.page = page
    BY DEF PageDetail, Closed
  <2>2. GraphInv
    BY DEF EditInv
  <2>3. PICK par, lev : Lists(reply, Reach(graph.edges, page), par, lev)
    BY <2>2, ContextLists
  <2>4. Summary(reply) \in TopIds(graph.edges, page) \cup {None}
    BY <2>2, SummaryDescribes
  <2> HIDE DEF q, reply
  <2>5. TreeTold(reply, ContentBlocks(reply))
    BY <2>3, ListedIsTold
  <2> QED
    BY <2>1, <2>4, <2>5 DEF q
<1>4. ASSUME NEW t \in Tabs, tab'[t].at = "page"
      PROVE  /\ TreeTold(tab'[t].reply, tab'[t].shown)
             /\ tab'[t].summary \in TopIds(graph.edges, tab'[t].page) \cup {None}
  <2>1. Answered(tab'[t], tab[t])
    BY StepAnswers
  <2>2. CASE \E page : tab'[t] = PageDetail(page)
    BY <1>3, <2>2
  <2>3. CASE ~\E page : tab'[t] = PageDetail(page)
    BY <1>4, <2>1, <2>3 DEF Answered, PageInv, PageOf
  <2> QED
    BY <2>2, <2>3
<1> QED
  BY <1>2, <1>4 DEF PageInv, PageOf

\* A page shows every block with a text once, each below the one it details and
\* next to what details it, and its summary describes the entity: for any graph
\* whose blocks have one parent each, any texts and any number of blocks
\* (_map_content_blocks, _extract_summary_from_described_by_block).
THEOREM PagesTellTheTree == Spec => []PageTellsTheTree
<1>1. Init => WikiInv /\ EditInv /\ PageInv
  <2>1. Init => PageInv
    BY DEF Init, PageInv, PageOf, Closed
  <2> QED
    BY <2>1, WikiInvInit, EditInvInit
<1>2. WikiInv /\ EditInv /\ PageInv /\ [Next]_vars => (WikiInv /\ EditInv /\ PageInv)'
  BY WikiInvNext, EditInvNext, PageInvNext
<1>3. PageInv => PageTellsTheTree
  BY DEF PageInv, PageOf, TreeTold, TopIds, PageTellsTheTree
<1> QED
  BY <1>1, <1>2, <1>3, PTL DEF Spec
=============================================================================
