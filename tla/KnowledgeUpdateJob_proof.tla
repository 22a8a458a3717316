----------------------- MODULE KnowledgeUpdateJob_proof -----------------------
(***************************************************************************)
(* Proofs about KnowledgeUpdateJob: what UpsertGraphDelta keeps of the     *)
(* stored graph, what step nine's delta looks like whatever the models     *)
(* answer, and with both what the script does to the graph.                *)
(***************************************************************************)
EXTENDS KnowledgeUpdateJob, FiniteSetTheorems, NaturalsInduction, SequenceTheorems, TLAPS
-----------------------------------------------------------------------------
(* Recursion.                                                              *)

LEMMA ClimbUp ==
  ASSUME NEW n \in Nat, NEW G, 0 \in G, \A i \in 1 .. n : i - 1 \in G => i \in G
  PROVE  0 .. n \subseteq G
<1> DEFINE Bad == {i \in 0 .. n : i \notin G}
<1> SUFFICES ASSUME Bad # {}
             PROVE  FALSE
  OBVIOUS
<1>1. IsWellFoundedOn(OpToRel(<, Nat), Nat)
  BY NatLessThanWellFounded
<1>2. Bad \in SUBSET Nat
  OBVIOUS
<1>3. PICK i \in Bad : \A k \in Bad : ~ (<<k, i>> \in OpToRel(<, Nat))
  <2> HIDE DEF Bad
  <2> QED
    BY <1>1, <1>2, WFMin
<1>4. \A k \in Bad : ~ (k < i)
  BY <1>2, <1>3 DEF OpToRel
<1>5. i \in 1 .. n /\ i - 1 \in 0 .. n /\ i - 1 < i
  OBVIOUS
<1>6. i - 1 \in G
  BY <1>4, <1>5
<1> QED
  BY <1>5, <1>6

\* A function that is given by its first value and by what follows a value.
Follows(f, N, V, first, F) ==
  /\ f \in [0 .. N -> V] /\ f[0] = first
  /\ \A n \in 1 .. N : f[n] = F[n][f[n - 1]]

LEMMA StepByStep ==
  ASSUME NEW N \in Nat, NEW V, NEW first \in V, NEW F \in [1 .. N -> [V -> V]]
  PROVE  \E f : Follows(f, N, V, first, F)
<1> DEFINE Good(f, n) == /\ f \in [0 .. n -> V] /\ f[0] = first
                         /\ \A i \in 1 .. n : f[i] = F[i][f[i - 1]]
           G == {n \in 0 .. N : \E f : Good(f, n)}
<1>1. 0 \in G
  <2>1. Good([i \in 0 .. 0 |-> first], 0)
    OBVIOUS
  <2>2. 0 \in 0 .. N
    OBVIOUS
  <2> HIDE DEF Good
  <2> QED
    BY <2>1, <2>2
<1>2. ASSUME NEW n \in 1 .. N, n - 1 \in G
      PROVE  n \in G
  <2>1. PICK f : Good(f, n - 1)
    BY <1>2
  <2> DEFINE g == [i \in 0 .. n |-> IF i = n THEN F[n][f[n - 1]] ELSE f[i]]
  <2>2. n - 1 \in 0 .. n - 1 /\ n \in 0 .. N /\ 0 \in 0 .. n - 1
    OBVIOUS
  <2>3. f[n - 1] \in V /\ F[n] \in [V -> V]
    BY <2>1, <2>2
  <2>4. \A i \in 0 .. n : i # n => i \in 0 .. n - 1
    OBVIOUS
  <2>5. g \in [0 .. n -> V]
    BY <2>1, <2>3, <2>4
  <2>6. g[0] = first
    BY <2>1, <2>2
  <2>7. \A i \in 1 .. n - 1 : g[i] = f[i] /\ g[i - 1] = f[i - 1]
    OBVIOUS
  <2>8. g[n] = F[n][f[n - 1]] /\ g[n - 1] = f[n - 1]
    BY <2>2
  <2>9. \A i \in 1 .. n : i = n \/ i \in 1 .. n - 1
    OBVIOUS
  <2> HIDE DEF g
  <2>10. \A i \in 1 .. n : g[i] = F[i][g[i - 1]]
    BY <2>1, <2>7, <2>8, <2>9
  <2>11. Good(g, n)
    BY <2>5, <2>6, <2>10
  <2> HIDE DEF Good
  <2> QED
    BY <2>2, <2>11
<1>3. 0 .. N \subseteq G
  <2> HIDE DEF G
  <2> QED
    BY <1>1, <1>2, ClimbUp
<1>4. N \in G
  <2>1. N \in 0 .. N
    OBVIOUS
  <2> QED
    BY <1>3, <2>1
<1> QED
  BY <1>4 DEF Follows
-----------------------------------------------------------------------------
(* What a delta is made of: entities E, blocks B and edges D.              *)

\* Of any blocks, one hangs from one of the entities or from another block; only
\* the entities are described and only the blocks have parents; each entity is
\* described.
Whole(E, B, D) ==
  /\ \A S : S \cap B # {} =>
       \E d \in D : d.kind \in ParentKinds /\ d.to \in S /\ (d.from \in E \/ d.from \in B \ S)
  /\ \A d \in D : /\ d.kind = "DESCRIBED_BY" => d.from \in E
                  /\ d.kind \in ParentKinds => d.to \in B
  /\ \A e \in E : \E d \in D : d.kind = "DESCRIBED_BY" /\ d.from = e

LEMMA WholeTogether ==
  ASSUME NEW E, NEW B, NEW D, Whole(E, B, D), NEW F, NEW C, NEW G, Whole(F, C, G)
  PROVE  Whole(E \cup F, B \cup C, D \cup G)
<1>1. ASSUME NEW S, S \cap (B \cup C) # {}
      PROVE  \E d \in D \cup G :
               /\ d.kind \in ParentKinds /\ d.to \in S
               /\ d.from \in E \cup F \/ d.from \in (B \cup C) \ S
  <2>1. CASE S \cap B # {}
    <3>1. PICK d \in D : /\ d.kind \in ParentKinds /\ d.to \in S
                         /\ d.from \in E \/ d.from \in B \ S
      BY <2>1 DEF Whole
    <3> QED
      BY <3>1
  <2>2. CASE S \cap C # {}
    <3>1. PICK d \in G : /\ d.kind \in ParentKinds /\ d.to \in S
                         /\ d.from \in F \/ d.from \in C \ S
      BY <2>2 DEF Whole
    <3> QED
      BY <3>1
  <2> QED
    BY <1>1, <2>1, <2>2
<1>2. \A d \in D \cup G : /\ d.kind = "DESCRIBED_BY" => d.from \in E \cup F
                          /\ d.kind \in ParentKinds => d.to \in B \cup C
  BY DEF Whole
<1>3. \A e \in E \cup F : \E d \in D \cup G : d.kind = "DESCRIBED_BY" /\ d.from = e
  BY DEF Whole
<1> QED
  BY <1>1, <1>2, <1>3 DEF Whole

LEMMA WholeOfNothing ==
  ASSUME NEW D, \A d \in D : d.kind \notin ParentKinds
  PROVE  Whole({}, {}, D)
BY DEF Whole, ParentKinds

LEMMA AddToSet ==
  ASSUME NEW T, NEW s \in Seq(T)
  PROVE  /\ \A x \in T : ToSet(Append(s, x)) = ToSet(s) \cup {x}
         /\ \A t \in Seq(T) : ToSet(s \o t) = ToSet(s) \cup ToSet(t)
<1>1. ASSUME NEW x \in T
      PROVE  ToSet(Append(s, x)) = ToSet(s) \cup {x}
  <2> DEFINE r == Append(s, x)
  <2>1. /\ Len(s) \in Nat /\ DOMAIN s = 1 .. Len(s) /\ DOMAIN r = 1 .. Len(s) + 1
        /\ r[Len(s) + 1] = x /\ \A i \in 1 .. Len(s) : r[i] = s[i]
    BY AppendProperties, LenProperties
  <2>2. \A i \in 1 .. Len(s) + 1 : i = Len(s) + 1 \/ i \in 1 .. Len(s)
    BY <2>1
  <2>3. Len(s) + 1 \in 1 .. Len(s) + 1 /\ 1 .. Len(s) \subseteq 1 .. Len(s) + 1
    BY <2>1
  <2> HIDE DEF r
  <2> QED
    BY <2>1, <2>2, <2>3 DEF ToSet
<1>2. ASSUME NEW t \in Seq(T)
      PROVE  ToSet(s \o t) = ToSet(s) \cup ToSet(t)
  <2> DEFINE r == s \o t
  <2>1. /\ Len(s) \in Nat /\ DOMAIN s = 1 .. Len(s)
        /\ Len(t) \in Nat /\ DOMAIN t = 1 .. Len(t)
        /\ DOMAIN r = 1 .. Len(s) + Len(t)
        /\ \A i \in 1 .. Len(s) + Len(t) : r[i] = IF i <= Len(s) THEN s[i] ELSE t[i - Len(s)]
    BY ConcatProperties, LenProperties
  <2> HIDE DEF r
  <2>2. ToSet(r) \subseteq ToSet(s) \cup ToSet(t)
    <3> SUFFICES ASSUME NEW i \in 1 .. Len(s) + Len(t)
                 PROVE  r[i] \in ToSet(s) \cup ToSet(t)
      BY <2>1 DEF ToSet
    <3>1. CASE i <= Len(s)
      BY <2>1, <3>1 DEF ToSet
    <3>2. CASE ~(i <= Len(s))
      <4>1. i - Len(s) \in 1 .. Len(t)
        BY <2>1, <3>2
      <4> QED
        BY <2>1, <3>2, <4>1 DEF ToSet
    <3> QED
      BY <3>1, <3>2
  <2>3. \A i \in 1 .. Len(s) : i \in DOMAIN r /\ r[i] = s[i]
    BY <2>1
  <2>4. \A i \in 1 .. Len(t) : Len(s) + i \in DOMAIN r /\ r[Len(s) + i] = t[i]
    BY <2>1
  <2>5. ToSet(s) \subseteq ToSet(r) /\ ToSet(t) \subseteq ToSet(r)
    <3>1. \A i \in DOMAIN s : s[i] \in ToSet(r)
      BY <2>1, <2>3 DEF ToSet
    <3>2. \A i \in DOMAIN t : t[i] \in ToSet(r)
      BY <2>1, <2>4 DEF ToSet
    <3> QED
      BY <3>1, <3>2 DEF ToSet
  <2> QED
    BY <2>2, <2>5 DEF r
<1> QED
  BY <1>1, <1>2

LEMMA StartIsKept ==
  ASSUME NEW T, NEW s \in Seq(T), NEW t \in Seq(T), NEW p \in DOMAIN s
  PROVE  p \in DOMAIN (s \o t) /\ (s \o t)[p] = s[p]
<1> DEFINE r == s \o t
<1>1. /\ Len(s) \in Nat /\ DOMAIN s = 1 .. Len(s) /\ Len(t) \in Nat
      /\ DOMAIN r = 1 .. Len(s) + Len(t)
      /\ \A i \in 1 .. Len(s) + Len(t) : r[i] = IF i <= Len(s) THEN s[i] ELSE t[i - Len(s)]
  BY ConcatProperties, LenProperties
<1> HIDE DEF r
<1>2. p \in 1 .. Len(s) + Len(t) /\ p <= Len(s)
  BY <1>1
<1>3. p \in DOMAIN r /\ r[p] = s[p]
  BY <1>1, <1>2
<1> QED
  BY <1>3 DEF r
-----------------------------------------------------------------------------
(* The blocks of one entity.                                               *)

Blocks == Seq([id : Int, parent : Int])

Ids(blocks) == {blocks[j].id : j \in DOMAIN blocks}

\* Of any blocks of a tree that is not refused, one hangs from a block that is
\* not among them, or it is the root.
LEMMA TreeHangs ==
  ASSUME NEW blocks \in Blocks, ~BlocksRejected(blocks),
         NEW T \in SUBSET Ids(blocks), T # {}
  PROVE  \E j \in DOMAIN blocks :
           /\ blocks[j].id \in T
           /\ ParentId(blocks[j]) = 0 \/ ParentId(blocks[j]) \in Ids(blocks) \ T
<1> DEFINE ids == Ids(blocks)
           Up(b) == ParentId(blocks[CHOOSE j \in DOMAIN blocks : blocks[j].id = b])
           Above(S) == {b \in ids : Up(b) \in S}
           N == Len(blocks)
           Endless == CHOOSE f : f = [n \in 0 .. N |-> IF n = 0 THEN ids ELSE Above(f[n - 1])]
<1>1. N \in Nat /\ DOMAIN blocks = 1 .. N
  BY LenProperties DEF Blocks
<1>2. /\ Endless[N] = {}
      /\ \A j \in DOMAIN blocks : ParentId(blocks[j]) \in ids \cup {0}
  BY DEF BlocksRejected, Ids
<1>3. Endless = [n \in 0 .. N |-> IF n = 0 THEN ids ELSE Above(Endless[n - 1])]
  <2> DEFINE V == SUBSET ids
             F == [n \in 1 .. N |-> [S \in V |-> Above(S)]]
  <2>1. F \in [1 .. N -> [V -> V]] /\ ids \in V
    OBVIOUS
  <2> HIDE DEF Above, F, V, ids, N
  <2>2. PICK f : Follows(f, N, V, ids, F)
    BY <1>1, <2>1, StepByStep
  <2>3. \A n \in 1 .. N : n - 1 \in 0 .. N
    BY <1>1
  <2>4. \A n \in 1 .. N : f[n] = Above(f[n - 1])
    BY <2>2, <2>3 DEF F, Follows
  <2>5. \A n \in 0 .. N : n = 0 \/ n \in 1 .. N
    BY <1>1
  <2>6. f = [n \in 0 .. N |-> IF n = 0 THEN ids ELSE Above(f[n - 1])]
    BY <2>2, <2>4, <2>5 DEF Follows
  <2> QED
    BY <2>6
<1> HIDE DEF Endless
<1> SUFFICES ASSUME \A j \in DOMAIN blocks : blocks[j].id \in T => ParentId(blocks[j]) \in T
             PROVE  FALSE
  BY <1>2
<1>4. \A b \in T : Up(b) \in T
  <2> SUFFICES ASSUME NEW b \in T
               PROVE  Up(b) \in T
    OBVIOUS
  <2>1. \E j \in DOMAIN blocks : blocks[j].id = b
    BY DEF Ids
  <2> QED
    BY <2>1
<1>5. T \subseteq Endless[0] /\ 0 \in 0 .. N
  BY <1>1, <1>3
<1>6. ASSUME NEW n \in 1 .. N, T \subseteq Endless[n - 1]
      PROVE  T \subseteq Endless[n] /\ n \in 0 .. N
  <2> HIDE DEF Above, ids, N
  <2>1. Endless[n] = Above(Endless[n - 1]) /\ n \in 0 .. N
    BY <1>1, <1>3
  <2> HIDE DEF Up
  <2>2. \A b \in T : b \in Above(Endless[n - 1])
    BY <1>4, <1>6 DEF Above, ids
  <2> QED
    BY <2>1, <2>2
<1> DEFINE G == {n \in 0 .. N : T \subseteq Endless[n]}
<1>7. 0 .. N \subseteq G
  <2>1. 0 \in G /\ \A i \in 1 .. N : i - 1 \in G => i \in G
    BY <1>5, <1>6
  <2> HIDE DEF G
  <2> QED
    BY <1>1, <2>1, ClimbUp
<1>8. N \in 0 .. N
  BY <1>1
<1> QED
  BY <1>2, <1>7, <1>8

LEMMA StoredIdType ==
  ASSUME NEW blocks \in Blocks, NEW base \in Int, NEW b \in Int
  PROVE  StoredId(blocks, base, b) \in Int
<1> DEFINE J == {j \in DOMAIN blocks :
                   /\ blocks[j].id < 0
                   /\ \A k \in DOMAIN blocks : blocks[k].id = b => j <= k}
<1>1. IsFiniteSet(DOMAIN blocks) /\ J \in SUBSET DOMAIN blocks
  <2>1. DOMAIN blocks = 1 .. Len(blocks) /\ Len(blocks) \in Int /\ 1 \in Int
    BY LenProperties DEF Blocks
  <2> QED
    BY <2>1, FS_Interval
<1>2. Cardinality(J) \in Nat
  BY <1>1, FS_Subset, FS_CardinalityType
<1> HIDE DEF J
<1>3. base + Cardinality(J) \in Int
  BY <1>2
<1> QED
  BY <1>3 DEF StoredId, J

\* The blocks of an entity, with the ids they are stored under.
StoredIds(item, base) ==
  [j \in DOMAIN item.blocks |-> StoredId(item.blocks, base, item.blocks[j].id)]

\* What one entity adds to a delta is whole, and describes the entity.
LEMMA ItemIsWhole ==
  ASSUME NEW item \in EntityGraph, ~BlocksRejected(item.blocks),
         NEW entity \in Int, NEW base \in Int
  PROVE  /\ StoredIds(item, base) \in Seq(Int)
         /\ BlockEdges(item, entity, base) \in Seq(Edge)
         /\ Whole({entity}, ToSet(StoredIds(item, base)), ToSet(BlockEdges(item, entity, base)))
<1> DEFINE blocks == item.blocks
           N == Len(blocks)
           B == StoredIds(item, base)
           D == BlockEdges(item, entity, base)
           Id(b) == StoredId(blocks, base, b)
<1>1. /\ blocks \in Blocks /\ N \in Nat /\ DOMAIN blocks = 1 .. N
      /\ \A j \in DOMAIN blocks : blocks[j].id \in Int /\ ParentId(blocks[j]) \in Int
  <2>1. blocks \in Blocks
    BY DEF EntityGraph, Blocks
  <2>2. N \in Nat /\ DOMAIN blocks = 1 .. N
    BY <2>1, LenProperties DEF Blocks
  <2>3. \A j \in DOMAIN blocks : blocks[j] \in [id : Int, parent : Int]
    BY <2>1, <2>2, ElementOfSeq DEF Blocks
  <2>4. \A j \in DOMAIN blocks : blocks[j].id \in Int /\ blocks[j].parent \in Int
    BY <2>3
  <2> QED
    BY <2>1, <2>2, <2>4 DEF ParentId
<1>2. \A b \in Int : Id(b) \in Int
  BY <1>1, StoredIdType
<1>3. DOMAIN B = 1 .. N /\ \A j \in 1 .. N : B[j] = Id(blocks[j].id)
  BY <1>1 DEF StoredIds
<1>4. DOMAIN D = 1 .. N /\ \A j \in 1 .. N :
        D[j] = IF ParentId(blocks[j]) = 0
               THEN [kind |-> "DESCRIBED_BY", from |-> entity, to |-> Id(blocks[j].id)]
               ELSE [kind |-> "SUMMARIZES", from |-> Id(ParentId(blocks[j])), to |-> Id(blocks[j].id)]
  BY <1>1 DEF BlockEdges
<1> HIDE DEF Id, B, D, N, blocks
<1>5. B \in [1 .. N -> Int]
  <2>1. B = [j \in 1 .. N |-> Id(blocks[j].id)]
    BY <1>1 DEF B, StoredIds, Id, blocks
  <2> QED
    BY <1>1, <1>2, <2>1
<1>6. D \in [1 .. N -> Edge]
  <2>1. \A j \in 1 .. N : D[j] \in Edge
    <3> SUFFICES ASSUME NEW j \in 1 .. N
                 PROVE  D[j] \in Edge
      OBVIOUS
    <3>1. Id(blocks[j].id) \in Int /\ Id(ParentId(blocks[j])) \in Int
      BY <1>1, <1>2
    <3>2. \A from, to \in Int : /\ [kind |-> "DESCRIBED_BY", from |-> from, to |-> to] \in Edge
                                /\ [kind |-> "SUMMARIZES", from |-> from, to |-> to] \in Edge
      BY DEF Edge, EdgeKinds
    <3> QED
      BY <1>4, <3>1, <3>2
  <2>2. D = [j \in 1 .. N |-> D[j]]
    BY <1>1 DEF D, BlockEdges, blocks
  <2> QED
    BY <2>1, <2>2
<1>7. /\ \A j \in 1 .. N : D[j].to = B[j] /\ D[j].kind \in ParentKinds
      /\ \A j \in 1 .. N : D[j].kind = "DESCRIBED_BY" => D[j].from = entity
      /\ \A j \in 1 .. N : ParentId(blocks[j]) = 0 => D[j].kind = "DESCRIBED_BY"
      /\ \A j \in 1 .. N : ParentId(blocks[j]) # 0 => D[j].from = Id(ParentId(blocks[j]))
  BY <1>3, <1>4 DEF ParentKinds
<1>8. \E j \in 1 .. N : ParentId(blocks[j]) = 0
  <2>1. Cardinality({j \in DOMAIN blocks : ParentId(blocks[j]) = 0}) = 1
    BY DEF BlocksRejected, blocks
  <2>2. CASE {j \in DOMAIN blocks : ParentId(blocks[j]) = 0} = {}
    BY <2>1, <2>2, FS_EmptySet
  <2> QED
    BY <1>1, <2>2
<1>9. ASSUME NEW S, S \cap ToSet(B) # {}
      PROVE  \E j \in 1 .. N : /\ D[j].to \in S
                               /\ D[j].from = entity \/ D[j].from \in ToSet(B) \ S
  <2> DEFINE T == {c \in Ids(blocks) : Id(c) \in S}
  <2>1. T \in SUBSET Ids(blocks) /\ T # {}
    <3>1. PICK j \in 1 .. N : B[j] \in S
      BY <1>3, <1>9 DEF ToSet
    <3>2. blocks[j].id \in Ids(blocks) /\ Id(blocks[j].id) \in S
      BY <1>1, <1>3, <3>1 DEF Ids
    <3> QED
      BY <3>2
  <2>2. PICK j \in DOMAIN blocks :
          /\ blocks[j].id \in T
          /\ ParentId(blocks[j]) = 0 \/ ParentId(blocks[j]) \in Ids(blocks) \ T
    <3>1. ~BlocksRejected(blocks)
      BY DEF blocks
    <3> HIDE DEF T
    <3> QED
      BY <1>1, <2>1, <3>1, TreeHangs
  <2>3. j \in 1 .. N /\ D[j].to \in S
    BY <1>1, <1>3, <1>7, <2>2
  <2>4. CASE ParentId(blocks[j]) = 0
    BY <1>7, <2>3, <2>4
  <2>5. CASE ParentId(blocks[j]) # 0
    <3>1. ParentId(blocks[j]) \in Ids(blocks) /\ Id(ParentId(blocks[j])) \notin S
      BY <2>2, <2>5
    <3>2. PICK k \in 1 .. N : blocks[k].id = ParentId(blocks[j])
      BY <1>1, <3>1 DEF Ids
    <3>3. B[k] = Id(ParentId(blocks[j])) /\ B[k] \in ToSet(B)
      BY <1>3, <3>2 DEF ToSet
    <3> QED
      BY <1>7, <2>3, <2>5, <3>1, <3>3
  <2> QED
    BY <2>4, <2>5
<1>10. ToSet(D) = {D[j] : j \in 1 .. N} /\ ToSet(B) = {B[j] : j \in 1 .. N}
  BY <1>3, <1>4 DEF ToSet
<1>11. Whole({entity}, ToSet(B), ToSet(D))
  <2>1. ASSUME NEW S, S \cap ToSet(B) # {}
        PROVE  \E d \in ToSet(D) : /\ d.kind \in ParentKinds /\ d.to \in S
                                   /\ d.from \in {entity} \/ d.from \in ToSet(B) \ S
    <3>1. PICK j \in 1 .. N : /\ D[j].to \in S
                              /\ D[j].from = entity \/ D[j].from \in ToSet(B) \ S
      BY <1>9, <2>1
    <3>2. D[j] \in ToSet(D) /\ D[j].kind \in ParentKinds
      BY <1>7, <1>10
    <3> QED
      BY <3>1, <3>2
  <2>2. \A d \in ToSet(D) : /\ d.kind = "DESCRIBED_BY" => d.from \in {entity}
                            /\ d.kind \in ParentKinds => d.to \in ToSet(B)
    BY <1>7, <1>10
  <2>3. \E d \in ToSet(D) : d.kind = "DESCRIBED_BY" /\ d.from = entity
    BY <1>7, <1>8, <1>10
  <2> HIDE DEF ParentKinds
  <2> QED
    BY <2>1, <2>2, <2>3 DEF Whole
<1> QED
  BY <1>1, <1>5, <1>6, <1>11, SeqDef DEF B, D
-----------------------------------------------------------------------------
(* What UpsertGraphDelta keeps.                                            *)

Positions(s, X) == {i \in DOMAIN s : s[i] \in X}

LEMMA PositionsCount ==
  ASSUME NEW T, NEW s \in Seq(T), NEW X
  PROVE  /\ IsFiniteSet(Positions(s, X)) /\ Cardinality(Positions(s, X)) \in Nat
         /\ Cardinality(Positions(s, X)) = 0 => Positions(s, X) = {}
         /\ Cardinality(Positions(s, X)) = 1 => \E i : Positions(s, X) = {i}
         /\ \A i, k \in Positions(s, X) : i # k => Cardinality(Positions(s, X)) > 1
<1> DEFINE P == Positions(s, X)
<1>1. IsFiniteSet(DOMAIN s) /\ P \in SUBSET DOMAIN s
  <2>1. DOMAIN s = 1 .. Len(s) /\ Len(s) \in Int /\ 1 \in Int
    BY LenProperties
  <2> QED
    BY <2>1, FS_Interval DEF Positions
<1> HIDE DEF P
<1>2. IsFiniteSet(P) /\ Cardinality(P) \in Nat
  BY <1>1, FS_Subset, FS_CardinalityType
<1>3. Cardinality(P) = 0 => P = {}
  BY <1>2, FS_EmptySet
<1>4. Cardinality(P) = 1 => \E i : P = {i}
  BY <1>2, FS_Singleton
<1>5. ASSUME NEW i \in P, NEW k \in P, i # k
      PROVE  Cardinality(P) > 1
  BY <1>2, <1>3, <1>4, <1>5
<1> QED
  BY <1>2, <1>3, <1>4, <1>5 DEF P

Both(R, s, X) == R \cup {s[i] : i \in Positions(s, X)}

\* What is stored and what is listed are one together, or none.
LEMMA OneOfBoth ==
  ASSUME NEW T, NEW s \in Seq(T), NEW X, NEW R, IsFiniteSet(R),
         Cardinality(R) + Cardinality(Positions(s, X)) <= 1
  PROVE  /\ Cardinality(Both(R, s, X)) <= 1
         /\ Cardinality(R) + Cardinality(Positions(s, X)) = 1 => \E q : Both(R, s, X) = {q}
<1> DEFINE P == Positions(s, X)
           Q == Both(R, s, X)
<1>1. Cardinality(P) \in Nat /\ Cardinality(R) \in Nat
  BY PositionsCount, FS_CardinalityType
<1>2. CASE Cardinality(P) = 0
  <2>1. Q = R
    BY <1>2, PositionsCount DEF Both
  <2>2. Cardinality(R) <= 1 /\ (Cardinality(R) + Cardinality(P) = 1 => Cardinality(R) = 1)
    BY <1>1, <1>2
  <2> HIDE DEF P, Q
  <2>3. Cardinality(R) = 1 => \E q : R = {q}
    BY FS_Singleton
  <2> QED
    BY <2>1, <2>2, <2>3 DEF P, Q
<1>3. CASE Cardinality(P) # 0
  <2>1. Cardinality(P) = 1 /\ Cardinality(R) = 0
    BY <1>1, <1>3
  <2>2. R = {}
    BY <2>1, FS_EmptySet
  <2>3. PICK i : P = {i}
    BY <2>1, PositionsCount
  <2>4. Q = {s[i]}
    BY <2>2, <2>3 DEF Both
  <2>5. Cardinality({s[i]}) = 1
    BY FS_Singleton
  <2>6. Cardinality(Q) = 1
    BY <2>4, <2>5, Zenon
  <2>7. \E q : Q = {q}
    BY <2>4, Zenon
  <2>8. \A n : n = 1 => n <= 1
    OBVIOUS
  <2> QED
    BY <2>6, <2>7, <2>8, Zenon
<1> QED
  BY <1>2, <1>3

LEMMA FinitelyMany ==
  ASSUME NEW T, NEW s \in Seq(T)
  PROVE  IsFiniteSet(ToSet(s))
<1>1. DOMAIN s = 1 .. Len(s) /\ Len(s) \in Int /\ 1 \in Int
  BY LenProperties
<1>2. IsFiniteSet(DOMAIN s)
  BY <1>1, FS_Interval
<1>3. s \in [DOMAIN s -> ToSet(s)] /\ \A x \in ToSet(s) : \E i \in DOMAIN s : s[i] = x
  <2>1. s = [i \in 1 .. Len(s) |-> s[i]]
    BY <1>1, SeqDef
  <2> QED
    BY <1>1, <2>1 DEF ToSet
<1>4. s \in Surjection(DOMAIN s, ToSet(s))
  BY <1>3 DEF Surjection
<1> QED
  BY <1>2, <1>4, FS_Surjection

LEMMA RootedMerged ==
  ASSUME NEW d, NEW g, Rooted(g), Whole(EntityIds(d), ToSet(d.blocks), ToSet(d.edges))
  PROVE  Rooted(Merged(d, g))
<1> DEFINE h == Merged(d, g)
<1>1. /\ h.blocks = g.blocks \cup ToSet(d.blocks) /\ h.entities = g.entities \cup EntityIds(d)
      /\ h.edges = g.edges \cup ToSet(d.edges)
  BY DEF Merged
<1> HIDE DEF h
<1> SUFFICES ASSUME NEW S \in (SUBSET h.blocks) \ {{}}
             PROVE  Parents(h, S) \cap (h.entities \cup (h.blocks \ S)) # {}
  BY DEF Rooted, h
<1>2. CASE S \cap ToSet(d.blocks) # {}
  <2>1. PICK x \in ToSet(d.edges) :
          /\ x.kind \in ParentKinds /\ x.to \in S
          /\ x.from \in EntityIds(d) \/ x.from \in ToSet(d.blocks) \ S
    BY <1>2 DEF Whole
  <2>2. x.from \in Parents(h, S)
    BY <1>1, <2>1 DEF Parents
  <2> QED
    BY <1>1, <2>1, <2>2
<1>3. CASE S \cap ToSet(d.blocks) = {}
  <2>1. S \in (SUBSET g.blocks) \ {{}}
    BY <1>1, <1>3
  <2>2. PICK x \in g.edges : /\ x.kind \in ParentKinds /\ x.to \in S
                             /\ x.from \in g.entities \cup (g.blocks \ S)
    BY <2>1 DEF Rooted, Parents
  <2>3. x.from \in Parents(h, S)
    BY <1>1, <2>2 DEF Parents
  <2> QED
    BY <1>1, <2>2, <2>3
<1> QED
  BY <1>2, <1>3

\* A delta that is whole and not refused leaves the shape of the graph.
LEMMA ShapeIsKept ==
  ASSUME NEW g \in Graph, IsFiniteSet(g.edges), WellDescribed(g),
         NEW d \in Delta, Whole(EntityIds(d), ToSet(d.blocks), ToSet(d.edges)),
         ~Invalid(d, g)
  PROVE  WellDescribed(Merged(d, g)) /\ IsFiniteSet(Merged(d, g).edges)
<1> DEFINE h == Merged(d, g)
           E == EntityIds(d)
           B == ToSet(d.blocks)
           D == ToSet(d.edges)
<1>1. /\ h.blocks = g.blocks \cup B /\ h.entities = g.entities \cup E
      /\ h.edges = g.edges \cup D
  BY DEF Merged
<1>2. /\ d.edges \in Seq(Edge) /\ g.edges \in SUBSET Edge
      /\ D = {d.edges[i] : i \in DOMAIN d.edges}
  BY DEF Delta, Graph, ToSet
<1>3. D \in SUBSET Edge
  BY <1>2, ElementOfSeq, LenProperties
<1>4. /\ \A e \in E : ~DescribedTwice(d, g, e)
      /\ \A b \in B : ~WithoutOneParent(d, g, b)
  BY DEF Invalid, BreaksStateRules
<1>5. /\ \A x \in D : /\ x.kind = "DESCRIBED_BY" => x.from \in E
                      /\ x.kind \in ParentKinds => x.to \in B
  BY DEF Whole
<1>6. Rooted(h)
  BY RootedMerged DEF WellDescribed
<1>7. \A X : IsFiniteSet(g.edges \cap X)
  BY FS_Subset
<1>8. \A X : Listed(d, X) = Cardinality(Positions(d.edges, X))
  BY DEF Listed, Positions
<1>9. \A X : {d.edges[i] : i \in Positions(d.edges, X)} = D \cap X
  BY <1>2 DEF Positions
<1>10. IsFiniteSet(h.edges)
  <2>1. IsFiniteSet(D)
    BY <1>2, FinitelyMany
  <2>2. IsFiniteSet(g.edges \cup D)
    BY <2>1, FS_Union
  <2> HIDE DEF h, D
  <2> QED
    BY <1>1, <2>2
<1> HIDE DEF h, E, B, D
<1>11. ASSUME NEW e \in h.entities
       PROVE  Cardinality({x \in h.edges : x.kind = "DESCRIBED_BY" /\ x.from = e}) <= 1
  <2>1. CASE e \in E
    <3> DEFINE X == Describing(e)
    <3>1. Cardinality(g.edges \cap X) + Cardinality(Positions(d.edges, X)) <= 1
      <4>1. ~(Cardinality(g.edges \cap X) + Listed(d, X) > 1)
        BY <1>4, <2>1 DEF DescribedTwice
      <4>2. Cardinality(g.edges \cap X) \in Nat /\ Cardinality(Positions(d.edges, X)) \in Nat
        BY <1>2, <1>7, PositionsCount, FS_CardinalityType
      <4> QED
        BY <1>8, <4>1, <4>2
    <3>2. {x \in h.edges : x.kind = "DESCRIBED_BY" /\ x.from = e} = (g.edges \cap X) \cup (D \cap X)
      BY <1>1, <1>2, <1>3 DEF Describing, Edge
    <3> DEFINE Q == {x \in h.edges : x.kind = "DESCRIBED_BY" /\ x.from = e}
    <3>3. Q = Both(g.edges \cap X, d.edges, X)
      BY <1>9, <3>2 DEF Both
    <3> HIDE DEF X, Q
    <3>4. Cardinality(Both(g.edges \cap X, d.edges, X)) <= 1
      BY <1>2, <1>7, <3>1, OneOfBoth
    <3> QED
      BY <3>3, <3>4 DEF Q
  <2>2. CASE e \notin E
    <3>1. {x \in h.edges : x.kind = "DESCRIBED_BY" /\ x.from = e}
            = {x \in g.edges : x.kind = "DESCRIBED_BY" /\ x.from = e}
      BY <1>1, <1>5, <2>2
    <3> QED
      BY <1>1, <2>2, <3>1 DEF WellDescribed
  <2> QED
    BY <2>1, <2>2
<1>12. ASSUME NEW b \in h.blocks
       PROVE  Cardinality(Parents(h, {b})) = 1
  <2>1. CASE b \in B
    <3> DEFINE X == Parenting(b)
    <3>1. Cardinality(g.edges \cap X) + Cardinality(Positions(d.edges, X)) = 1
      BY <1>4, <1>8, <2>1 DEF WithoutOneParent
    <3>2. {x \in h.edges : x.kind \in ParentKinds /\ x.to \in {b}} = (g.edges \cap X) \cup (D \cap X)
      BY <1>1, <1>2, <1>3 DEF Parenting, Edge
    <3> DEFINE Q == {x \in h.edges : x.kind \in ParentKinds /\ x.to \in {b}}
    <3>3. Q = Both(g.edges \cap X, d.edges, X)
      BY <1>9, <3>2 DEF Both
    <3>4. Parents(h, {b}) = {x.from : x \in Q}
      BY DEF Parents
    <3> HIDE DEF X, Q
    <3>5. PICK x : Both(g.edges \cap X, d.edges, X) = {x}
      <4>1. Cardinality(g.edges \cap X) + Cardinality(Positions(d.edges, X)) <= 1
        BY <3>1
      <4> QED
        BY <1>2, <1>7, <3>1, <4>1, OneOfBoth
    <3>6. Parents(h, {b}) = {x.from}
      BY <3>3, <3>4, <3>5
    <3> QED
      BY <3>6, FS_Singleton
  <2>2. CASE b \notin B
    <3>1. Parents(h, {b}) = Parents(g, {b})
      BY <1>1, <1>5, <2>2 DEF Parents
    <3> QED
      BY <1>1, <2>2, <3>1 DEF WellDescribed
  <2> QED
    BY <2>1, <2>2
<1> QED
  BY <1>6, <1>10, <1>11, <1>12 DEF WellDescribed, h
-----------------------------------------------------------------------------
(* Step nine.                                                              *)

WholeDelta(d) == Whole(EntityIds(d), ToSet(d.blocks), ToSet(d.edges))

Describes(d, p, i) == d.edges[p].kind = "DESCRIBED_BY" /\ d.edges[p].from = d.entities[i].id

\* Each entity that is listed has an edge of its own to its root block, even where
\* two have the same id.
Apart(d) ==
  /\ \A i \in DOMAIN d.entities : \E p \in DOMAIN d.edges : Describes(d, p, i)
  /\ \A i, k \in DOMAIN d.entities : i < k /\ d.entities[i].id = d.entities[k].id =>
       \E p, q \in DOMAIN d.edges : p # q /\ Describes(d, p, i) /\ Describes(d, q, k)

ListedEntity == [id : Int, sent : SUBSET Sent, universe : Int]

With(d, e, ids, edges) ==
  [d EXCEPT !.entities = Append(@, e), !.blocks = @ \o ids, !.edges = @ \o edges]

LEMMA WithIsDelta ==
  ASSUME NEW d \in Delta, NEW e \in ListedEntity, NEW ids \in Seq(Int), NEW edges \in Seq(Edge)
  PROVE  /\ With(d, e, ids, edges) \in Delta
         /\ With(d, e, ids, edges).universes = d.universes
         /\ With(d, e, ids, edges).entities = Append(d.entities, e)
         /\ With(d, e, ids, edges).blocks = d.blocks \o ids
         /\ With(d, e, ids, edges).edges = d.edges \o edges
         /\ Len(With(d, e, ids, edges).entities) = Len(d.entities) + 1
<1>1. /\ d.entities \in Seq(ListedEntity) /\ d.blocks \in Seq(Int) /\ d.edges \in Seq(Edge)
  BY DEF Delta, ListedEntity
<1>2. Append(d.entities, e) \in Seq(ListedEntity) /\ Len(Append(d.entities, e)) = Len(d.entities) + 1
  BY <1>1, AppendProperties
<1>3. d.blocks \o ids \in Seq(Int) /\ d.edges \o edges \in Seq(Edge)
  BY <1>1, ConcatProperties
<1> QED
  BY <1>2, <1>3 DEF With, Delta, ListedEntity

LEMMA WithIsWhole ==
  ASSUME NEW d \in Delta, NEW e \in ListedEntity, NEW ids \in Seq(Int), NEW edges \in Seq(Edge),
         WholeDelta(d), Whole({e.id}, ToSet(ids), ToSet(edges))
  PROVE  WholeDelta(With(d, e, ids, edges))
<1> DEFINE r == With(d, e, ids, edges)
<1>1. /\ d.entities \in Seq(ListedEntity) /\ d.blocks \in Seq(Int) /\ d.edges \in Seq(Edge)
  BY DEF Delta, ListedEntity
<1>2. /\ r.entities = Append(d.entities, e)
      /\ r.blocks = d.blocks \o ids /\ r.edges = d.edges \o edges
  BY WithIsDelta
<1> HIDE DEF r
<1>3. ToSet(r.blocks) = ToSet(d.blocks) \cup ToSet(ids)
  BY <1>1, <1>2, AddToSet
<1>4. ToSet(r.edges) = ToSet(d.edges) \cup ToSet(edges)
  BY <1>1, <1>2, AddToSet
<1>5. EntityIds(r) = EntityIds(d) \cup {e.id}
  <2>1. ToSet(r.entities) = ToSet(d.entities) \cup {e}
    BY <1>1, <1>2, AddToSet
  <2>2. \A x : EntityIds(x) = {y.id : y \in ToSet(x.entities)}
    BY DEF EntityIds, ToSet
  <2> QED
    BY <2>1, <2>2
<1> QED
  BY <1>3, <1>4, <1>5, WholeTogether DEF WholeDelta, r

LEMMA WithStaysApart ==
  ASSUME NEW d \in Delta, NEW e \in ListedEntity, NEW ids \in Seq(Int), NEW edges \in Seq(Edge),
         Apart(d), Whole({e.id}, ToSet(ids), ToSet(edges))
  PROVE  Apart(With(d, e, ids, edges))
<1> DEFINE r == With(d, e, ids, edges)
           n == Len(d.entities)
           m == Len(d.edges)
<1>1. /\ n \in Nat /\ DOMAIN d.entities = 1 .. n /\ m \in Nat /\ DOMAIN d.edges = 1 .. m
      /\ Len(edges) \in Nat /\ DOMAIN edges = 1 .. Len(edges)
  BY LenProperties DEF Delta
<1>2. /\ r.entities = Append(d.entities, e) /\ r.edges = d.edges \o edges
  BY WithIsDelta
<1>3. /\ DOMAIN r.entities = 1 .. n + 1 /\ r.entities[n + 1] = e
      /\ \A i \in 1 .. n : r.entities[i] = d.entities[i]
  <2>1. d.entities \in Seq(ListedEntity)
    BY DEF Delta, ListedEntity
  <2> QED
    BY <1>1, <1>2, <2>1, AppendProperties
<1>4. /\ DOMAIN r.edges = 1 .. m + Len(edges)
      /\ \A p \in 1 .. m : r.edges[p] = d.edges[p]
      /\ \A p \in 1 .. Len(edges) : r.edges[m + p] = edges[p]
  <2>1. d.edges \in Seq(Edge)
    BY DEF Delta
  <2>2. /\ DOMAIN r.edges = 1 .. m + Len(edges)
        /\ \A p \in 1 .. m + Len(edges) :
             r.edges[p] = IF p <= m THEN d.edges[p] ELSE edges[p - m]
    BY <1>1, <1>2, <2>1, ConcatProperties, LenProperties
  <2> HIDE DEF r, m
  <2>3. ASSUME NEW p \in 1 .. m
        PROVE  r.edges[p] = d.edges[p]
    <3>1. p \in 1 .. m + Len(edges) /\ p <= m
      BY <1>1
    <3> QED
      BY <2>2, <3>1
  <2>4. ASSUME NEW p \in 1 .. Len(edges)
        PROVE  r.edges[m + p] = edges[p]
    <3>1. m + p \in 1 .. m + Len(edges) /\ ~(m + p <= m) /\ (m + p) - m = p
      BY <1>1
    <3> QED
      BY <2>2, <3>1
  <2> QED
    BY <2>2, <2>3, <2>4
<1> HIDE DEF r, n, m
<1>5. ASSUME NEW i \in 1 .. n, NEW p \in 1 .. m
      PROVE  /\ Describes(r, p, i) = Describes(d, p, i)
             /\ p \in DOMAIN r.edges /\ i \in DOMAIN r.entities
  <2>1. r.entities[i] = d.entities[i] /\ r.edges[p] = d.edges[p]
    BY <1>3, <1>4
  <2>2. p \in 1 .. m + Len(edges) /\ i \in 1 .. n + 1
    BY <1>1
  <2> QED
    BY <1>3, <1>4, <2>1, <2>2 DEF Describes
<1>6. PICK last \in DOMAIN r.edges : last > m /\ Describes(r, last, n + 1)
  <2>1. PICK x \in ToSet(edges) : x.kind = "DESCRIBED_BY" /\ x.from = e.id
    BY DEF Whole
  <2>2. PICK p \in 1 .. Len(edges) : edges[p] = x
    BY <1>1, <2>1 DEF ToSet
  <2>3. m + p \in DOMAIN r.edges /\ m + p > m /\ r.edges[m + p] = x
    BY <1>1, <1>4, <2>2
  <2> QED
    BY <1>3, <2>1, <2>3 DEF Describes
<1>7. \A i \in 1 .. n + 1 : i = n + 1 \/ i \in 1 .. n
  BY <1>1
<1>8. \A i \in 1 .. n : \E p \in 1 .. m : Describes(d, p, i)
  BY <1>1 DEF Apart
<1>9. ASSUME NEW i \in DOMAIN r.entities
      PROVE  \E p \in DOMAIN r.edges : Describes(r, p, i)
  BY <1>3, <1>5, <1>6, <1>7, <1>8
<1>10. ASSUME NEW i \in DOMAIN r.entities, NEW k \in DOMAIN r.entities, i < k,
              r.entities[i].id = r.entities[k].id
       PROVE  \E p, q \in DOMAIN r.edges : p # q /\ Describes(r, p, i) /\ Describes(r, q, k)
  <2>1. i \in 1 .. n
    BY <1>1, <1>3, <1>10
  <2>2. CASE k = n + 1
    <3>1. PICK p \in 1 .. m : Describes(d, p, i)
      BY <1>8, <2>1
    <3>2. p # last /\ p \in DOMAIN r.edges /\ Describes(r, p, i)
      BY <1>1, <1>5, <1>6, <2>1, <3>1
    <3> QED
      BY <1>6, <2>2, <3>2
  <2>3. CASE k \in 1 .. n
    <3>1. d.entities[i].id = d.entities[k].id
      BY <1>3, <1>10, <2>1, <2>3
    <3>2. PICK p, q \in 1 .. m : p # q /\ Describes(d, p, i) /\ Describes(d, q, k)
      BY <1>1, <1>10, <2>1, <2>3, <3>1 DEF Apart
    <3> QED
      BY <1>5, <2>1, <2>3, <3>2
  <2> QED
    BY <1>3, <1>7, <2>2, <2>3
<1> QED
  BY <1>9, <1>10 DEF Apart, r

Resolution == [id : Int, known : BOOLEAN]

Relation == [kind : {"RELATED", "INVENTED"}, from : Int, to : Int]

Match == [status : {"new", "matched", "compare"}, ids : SUBSET Int]

WorkType ==
  /\ DOMAIN work = DOMAIN NoWork
  /\ work.entities \in Seq(Extracted) /\ work.universes \in Nat
  /\ work.matches \in Seq(Match) /\ work.resolved \in Seq(Resolution)
  /\ work.pairs \in Seq(SUBSET Int) /\ work.relations \in Seq(Relation)
  /\ work.answers \in Seq(EntityGraph)

Accumulated == [minted : Nat, delta : Delta]

LEMMA AddGraphAdds ==
  ASSUME WorkType, minted \in Nat, NEW acc \in Accumulated,
         NEW i \in DOMAIN work.answers, i \in DOMAIN work.resolved,
         ~BlocksRejected(work.answers[i].blocks)
  PROVE  /\ AddGraph(acc, i) \in Accumulated
         /\ \E e \in ListedEntity, ids \in Seq(Int), edges \in Seq(Edge) :
              /\ AddGraph(acc, i).delta = With(acc.delta, e, ids, edges)
              /\ Whole({e.id}, ToSet(ids), ToSet(edges))
<1> DEFINE item == work.answers[i]
           entity == IF item.entity = 0 THEN ResolvedId(i) ELSE item.entity
           universe == CASE item.universe = "id" -> Unknown
                         [] item.universe = "name" /\ work.universes > 0 -> minted + 1
                         [] OTHER -> CommonUniverse
           sent == UNION {[key : {p.key}, field : FieldOf(p.value)] : p \in item.properties}
           e == [id |-> entity, universe |-> universe, sent |-> sent]
           ids == StoredIds(item, acc.minted)
           edges == BlockEdges(item, entity, acc.minted)
           minting == {j \in DOMAIN item.blocks : item.blocks[j].id < 0}
<1>1. item \in EntityGraph
  BY ElementOfSeq, LenProperties DEF WorkType
<1>2. entity \in Int
  <2>1. work.resolved[i] \in Resolution
    BY ElementOfSeq, LenProperties DEF WorkType
  <2>2. ResolvedId(i) \in Int
    BY <2>1 DEF ResolvedId, Resolution
  <2> QED
    BY <1>1, <2>2 DEF EntityGraph
<1>3. universe \in Int
  BY DEF Unknown, CommonUniverse
<1>4. sent \in SUBSET Sent
  <2> SUFFICES ASSUME NEW p \in item.properties
               PROVE  [key : {p.key}, field : FieldOf(p.value)] \subseteq Sent
    OBVIOUS
  <2>1. p.key \in STRING /\ p.value \in Values
    BY <1>1 DEF EntityGraph
  <2>2. FieldOf(p.value) \subseteq ValueFields
    BY <2>1 DEF FieldOf, Values, ValueFields
  <2> QED
    BY <2>1, <2>2 DEF Sent
<1>5. acc.minted \in Nat /\ acc.delta \in Delta
  BY DEF Accumulated
<1>6. minting \in SUBSET DOMAIN item.blocks /\ IsFiniteSet(DOMAIN item.blocks)
  <2>1. item.blocks \in Seq([id : Int, parent : Int])
    BY <1>1 DEF EntityGraph
  <2>2. DOMAIN item.blocks = 1 .. Len(item.blocks) /\ Len(item.blocks) \in Int /\ 1 \in Int
    BY <2>1, LenProperties
  <2> QED
    BY <2>2, FS_Interval
<1>7. acc.minted + Cardinality(minting) \in Nat
  <2> HIDE DEF minting
  <2>1. Cardinality(minting) \in Nat
    BY <1>6, FS_Subset, FS_CardinalityType
  <2> QED
    BY <1>5, <2>1
<1>8. AddGraph(acc, i) = [minted |-> acc.minted + Cardinality(minting),
                          delta |-> With(acc.delta, e, ids, edges)]
  BY DEF AddGraph, With, StoredIds
<1> HIDE DEF item, entity, universe, sent, minting
<1>9. e \in ListedEntity
  BY <1>2, <1>3, <1>4 DEF ListedEntity
<1>10. /\ ids \in Seq(Int) /\ edges \in Seq(Edge)
       /\ Whole({e.id}, ToSet(ids), ToSet(edges))
  <2>1. acc.minted \in Int /\ ~BlocksRejected(item.blocks)
    BY <1>5 DEF item
  <2> QED
    BY <1>1, <1>2, <2>1, ItemIsWhole
<1> HIDE DEF e, ids, edges
<1>11. With(acc.delta, e, ids, edges) \in Delta
  BY <1>5, <1>9, <1>10, WithIsDelta
<1>12. AddGraph(acc, i) \in Accumulated /\ AddGraph(acc, i).delta = With(acc.delta, e, ids, edges)
  BY <1>7, <1>8, <1>11 DEF Accumulated
<1> QED
  BY <1>9, <1>10, <1>12, Zenon

\* Step nine's delta before the relationships are put in.
MergedGraphs ==
  LET fresh == (minted + 1) .. (minted + work.universes)
      After[n \in 0 .. Len(work.answers)] ==
        IF n = 0 THEN [minted |-> minted + work.universes,
                       delta |-> [NoDelta EXCEPT !.universes = fresh]]
                 ELSE AddGraph(After[n - 1], n)
  IN After[Len(work.answers)]

LEMMA GraphsAreWhole ==
  ASSUME WorkType, minted \in Nat, Len(work.answers) <= Len(work.resolved),
         \A i \in DOMAIN work.answers : ~BlocksRejected(work.answers[i].blocks)
  PROVE  /\ MergedGraphs \in Accumulated
         /\ WholeDelta(MergedGraphs.delta) /\ Apart(MergedGraphs.delta)
         /\ Len(MergedGraphs.delta.entities) = Len(work.answers)
<1> DEFINE N == Len(work.answers)
           fresh == (minted + 1) .. (minted + work.universes)
           first == [minted |-> minted + work.universes,
                     delta |-> [NoDelta EXCEPT !.universes = fresh]]
           V == Accumulated
           F == [n \in 1 .. N |-> [acc \in V |-> AddGraph(acc, n)]]
           After == CHOOSE f : f = [n \in 0 .. N |-> IF n = 0 THEN first ELSE AddGraph(f[n - 1], n)]
           Right(acc, n) == WholeDelta(acc.delta) /\ Apart(acc.delta) /\ Len(acc.delta.entities) = n
<1>1. /\ N \in Nat /\ DOMAIN work.answers = 1 .. N
      /\ \A i \in 1 .. N : i \in DOMAIN work.resolved
  BY LenProperties DEF WorkType
<1>2. first \in V /\ Right(first, 0)
  <2>1. /\ first.delta.entities = <<>> /\ first.delta.blocks = <<>> /\ first.delta.edges = <<>>
        /\ first.delta.universes = fresh /\ first.minted = minted + work.universes
        /\ DOMAIN first.delta = {"universes", "entities", "blocks", "edges"}
    BY DEF NoDelta
  <2>2. first.delta \in Delta
    <3>1. fresh \in SUBSET Int
      BY DEF WorkType
    <3> HIDE DEF fresh
    <3>2. first.delta = [universes |-> fresh, entities |-> <<>>, blocks |-> <<>>, edges |-> <<>>]
      BY DEF NoDelta
    <3>3. \A T : <<>> \in Seq(T)
      BY EmptySeq
    <3> QED
      BY <3>1, <3>2, <3>3 DEF Delta
  <2>3. first \in V
    BY <2>2 DEF Accumulated, WorkType
  <2> HIDE DEF first
  <2>4. EntityIds(first.delta) = {} /\ ToSet(first.delta.blocks) = {} /\ ToSet(first.delta.edges) = {}
    BY <2>1 DEF EntityIds, ToSet
  <2>5. WholeDelta(first.delta)
    BY <2>4, WholeOfNothing DEF WholeDelta
  <2>6. Apart(first.delta) /\ Len(first.delta.entities) = 0
    BY <2>1 DEF Apart
  <2> QED
    BY <2>3, <2>5, <2>6
<1>3. \A n \in 1 .. N, acc \in V :
        /\ AddGraph(acc, n) \in V
        /\ Right(acc, n - 1) => Right(AddGraph(acc, n), n)
  <2> SUFFICES ASSUME NEW n \in 1 .. N, NEW acc \in V
               PROVE  /\ AddGraph(acc, n) \in V
                      /\ Right(acc, n - 1) => Right(AddGraph(acc, n), n)
    OBVIOUS
  <2>1. PICK e \in ListedEntity, ids \in Seq(Int), edges \in Seq(Edge) :
          /\ AddGraph(acc, n).delta = With(acc.delta, e, ids, edges)
          /\ Whole({e.id}, ToSet(ids), ToSet(edges))
    BY <1>1, AddGraphAdds
  <2>2. acc.delta \in Delta
    BY DEF Accumulated
  <2>3. WholeDelta(acc.delta) => WholeDelta(With(acc.delta, e, ids, edges))
    BY <2>1, <2>2, WithIsWhole
  <2>4. Apart(acc.delta) => Apart(With(acc.delta, e, ids, edges))
    BY <2>1, <2>2, WithStaysApart
  <2>5. Len(With(acc.delta, e, ids, edges).entities) = Len(acc.delta.entities) + 1
    BY <2>2, WithIsDelta
  <2>6. AddGraph(acc, n) \in V
    BY <1>1, AddGraphAdds
  <2>7. n - 1 + 1 = n
    OBVIOUS
  <2> QED
    BY <2>1, <2>3, <2>4, <2>5, <2>6, <2>7
<1> HIDE DEF Right, V, first
<1>4. PICK f : Follows(f, N, V, first, F)
  <2>1. F \in [1 .. N -> [V -> V]]
    BY <1>3
  <2> HIDE DEF F, N
  <2> QED
    BY <1>1, <1>2, <2>1, StepByStep
<1>5. f = [n \in 0 .. N |-> IF n = 0 THEN first ELSE AddGraph(f[n - 1], n)]
  <2> HIDE DEF N
  <2>1. \A n \in 1 .. N : n - 1 \in 0 .. N
    BY <1>1
  <2>2. \A n \in 1 .. N : f[n] = AddGraph(f[n - 1], n)
    BY <1>4, <2>1 DEF Follows
  <2>3. \A n \in 0 .. N : n = 0 \/ n \in 1 .. N
    BY <1>1
  <2> QED
    BY <1>4, <2>2, <2>3 DEF Follows
<1>6. After = [n \in 0 .. N |-> IF n = 0 THEN first ELSE AddGraph(After[n - 1], n)]
  <2> HIDE DEF N
  <2> QED
    BY <1>5
<1>7. MergedGraphs = After[N]
  BY DEF MergedGraphs, first
<1> HIDE DEF After, N
<1> DEFINE G == {n \in 0 .. N : After[n] \in V /\ Right(After[n], n)}
<1>8. 0 .. N \subseteq G
  <2>1. 0 \in G
    BY <1>1, <1>2, <1>6
  <2>2. ASSUME NEW n \in 1 .. N, n - 1 \in G
        PROVE  n \in G
    <3>1. n \in 0 .. N /\ n # 0
      BY <1>1
    <3>2. After[n] = AddGraph(After[n - 1], n)
      BY <1>6, <3>1
    <3> QED
      BY <1>3, <2>2, <3>1, <3>2
  <2> HIDE DEF G
  <2> QED
    BY <1>1, <2>1, <2>2, ClimbUp
<1>9. N \in 0 .. N
  BY <1>1
<1>10. After[N] \in V /\ Right(After[N], N)
  BY <1>8, <1>9
<1> QED
  BY <1>7, <1>10 DEF Right, V, N

\* Step nine's delta.
LEMMA MergedIsWhole ==
  ASSUME WorkType, minted \in Nat, Len(work.answers) <= Len(work.resolved),
         Merge, delta' # delta \/ pc' # "failed"
  PROVE  /\ delta' \in Delta /\ minted' \in Nat
         /\ WholeDelta(delta') /\ Apart(delta')
         /\ Len(delta'.entities) = Len(work.answers)
         /\ ToSet(work.relations) \subseteq ToSet(delta'.edges)
<1> DEFINE d == MergedGraphs.delta
           e == [d EXCEPT !.edges = @ \o work.relations]
<1>1. /\ \A i \in DOMAIN work.answers : ~BlocksRejected(work.answers[i].blocks)
      /\ delta' = e /\ minted' = MergedGraphs.minted
  BY DEF Merge, MergedGraphs, Raise
<1>2. /\ MergedGraphs \in Accumulated
      /\ WholeDelta(d) /\ Apart(d) /\ Len(d.entities) = Len(work.answers)
  BY <1>1, GraphsAreWhole
<1>3. d \in Delta /\ MergedGraphs.minted \in Nat
  BY <1>2 DEF Accumulated
<1> HIDE DEF d
<1>4. d.edges \in Seq(Edge) /\ work.relations \in Seq(Edge)
  <2>1. d.edges \in Seq(Edge)
    BY <1>3 DEF Delta
  <2>2. work.relations \in Seq(Relation) /\ Relation \subseteq Edge
    BY DEF WorkType, Relation, Edge, EdgeKinds
  <2>3. work.relations \in [1 .. Len(work.relations) -> Edge] /\ Len(work.relations) \in Nat
    BY <2>2, LenProperties, ElementOfSeq
  <2> QED
    BY <2>1, <2>3, SeqDef
<1>5. d.edges \o work.relations \in Seq(Edge)
  BY <1>4, ConcatProperties
<1>6. /\ e \in Delta /\ e.entities = d.entities /\ e.blocks = d.blocks
      /\ e.edges = d.edges \o work.relations
  BY <1>3, <1>5 DEF Delta
<1> HIDE DEF e
<1>7. ToSet(e.edges) = ToSet(d.edges) \cup ToSet(work.relations)
  BY <1>4, <1>6, AddToSet
<1>8. WholeDelta(e)
  <2>1. \A x \in ToSet(work.relations) : x.kind \notin ParentKinds
    <3>1. \A i \in DOMAIN work.relations : work.relations[i] \in Relation
      BY ElementOfSeq, LenProperties DEF WorkType
    <3>2. \A x \in Relation : x.kind \notin ParentKinds
      BY DEF Relation, ParentKinds
    <3> QED
      BY <3>1, <3>2 DEF ToSet
  <2>2. Whole({}, {}, ToSet(work.relations))
    BY <2>1, WholeOfNothing
  <2>3. Whole(EntityIds(d) \cup {}, ToSet(d.blocks) \cup {}, ToSet(d.edges) \cup ToSet(work.relations))
    BY <1>2, <2>2, WholeTogether DEF WholeDelta
  <2>4. EntityIds(e) = EntityIds(d) \cup {} /\ ToSet(e.blocks) = ToSet(d.blocks) \cup {}
    BY <1>6 DEF EntityIds
  <2> QED
    BY <1>7, <2>3, <2>4 DEF WholeDelta
<1>9. Apart(e)
  <2>1. \A p \in DOMAIN d.edges : p \in DOMAIN e.edges /\ e.edges[p] = d.edges[p]
    <3>1. \A s, t \in Seq(Edge) : \A p \in DOMAIN s : p \in DOMAIN (s \o t) /\ (s \o t)[p] = s[p]
      BY StartIsKept
    <3>2. \A p \in DOMAIN d.edges : /\ p \in DOMAIN (d.edges \o work.relations)
                                    /\ (d.edges \o work.relations)[p] = d.edges[p]
      BY <1>4, <3>1, Zenon
    <3> QED
      BY <1>6, <3>2, Zenon
  <2>2. \A p \in DOMAIN d.edges : \A i : Describes(d, p, i) => Describes(e, p, i)
    BY <1>6, <2>1 DEF Describes
  <2>3. \A i \in DOMAIN e.entities : \E p \in DOMAIN e.edges : Describes(e, p, i)
    BY <1>2, <1>6, <2>1, <2>2 DEF Apart
  <2>4. ASSUME NEW i \in DOMAIN e.entities, NEW k \in DOMAIN e.entities, i < k,
               e.entities[i].id = e.entities[k].id
        PROVE  \E p, q \in DOMAIN e.edges : p # q /\ Describes(e, p, i) /\ Describes(e, q, k)
    <3>1. PICK p, q \in DOMAIN d.edges : p # q /\ Describes(d, p, i) /\ Describes(d, q, k)
      BY <1>2, <1>6, <2>4 DEF Apart
    <3> QED
      BY <2>1, <2>2, <3>1
  <2> QED
    BY <2>3, <2>4 DEF Apart
<1> QED
  BY <1>1, <1>2, <1>3, <1>6, <1>7, <1>8, <1>9
-----------------------------------------------------------------------------
(* Where the script stands and what it has.                                *)

Lengths(entities, pairs, matches, resolved, answers) ==
  /\ pc \in {"connect", "extraction_schema", "extract"} =>
       matches = 0 /\ resolved = 0 /\ answers = 0
  /\ pc = "match" => at <= entities /\ matches = at - 1 /\ resolved = 0 /\ answers = 0
  /\ pc = "focus" => at <= entities /\ matches = entities /\ resolved = 0 /\ answers = 0
  /\ pc \in {"resolve", "compare"} =>
       at <= entities /\ matches = entities /\ resolved = at - 1 /\ answers = 0
  /\ pc = "pairs" => resolved = entities /\ answers = 0
  /\ pc \in {"edge_schema", "relate"} =>
       at <= pairs /\ entities > 0 /\ resolved = entities /\ answers = 0
  /\ pc \in {"type_context", "entity_context", "final"} =>
       at <= entities /\ resolved = entities /\ answers = at - 1
  /\ pc \in {"merge", "preflight", "upsert", "done"} =>
       resolved = entities /\ answers = entities

Place == Lengths(Len(work.entities), Len(work.pairs), Len(work.matches), Len(work.resolved),
                 Len(work.answers))

DeltaInv ==
  pc \in {"preflight", "upsert", "done"} =>
    /\ WholeDelta(delta) /\ Apart(delta)
    /\ Len(delta.entities) = Len(work.entities)
    /\ ToSet(work.relations) \subseteq ToSet(delta.edges)

GraphInv == WellDescribed(graph) /\ IsFiniteSet(graph.edges)

JobInv == TypeOK /\ WorkType /\ Place /\ DeltaInv /\ GraphInv /\ DoneMeansStored

LEMMA InitEstablishesJobInv ==
  Init => JobInv
<1> SUFFICES ASSUME Init
             PROVE  JobInv
  OBVIOUS
<1>1. NoDelta \in Delta
  BY DEF NoDelta, Delta
<1>2. TypeOK
  <2>1. Len(Extractions) \in Nat /\ Len(Extractions) # 0
    BY JobAssumption, LenProperties, EmptySeq
  <2>2. run \in 1 .. MaxRuns
    BY <2>1 DEF Init, MaxRuns
  <2>3. /\ tries \in 0 .. MaxTries - 1 /\ faults \in 0 .. MaxFaults
        /\ at \in Nat \ {0} /\ minted \in Nat
    <3>1. MaxTries \in Nat \ {0} /\ MaxFaults \in Nat
      BY JobAssumption
    <3> QED
      BY <3>1 DEF Init
  <2>4. asked \in BOOLEAN
    BY DEF Init
  <2> QED
    BY <1>1, <2>2, <2>3, <2>4, JobAssumption DEF TypeOK, Init
<1>3. WorkType
  BY DEF WorkType, Init, NoWork
<1>4. Place /\ DeltaInv /\ DoneMeansStored
  BY DEF Place, Lengths, DeltaInv, DoneMeansStored, Init, NoWork
<1>5. GraphInv
  BY JobAssumption DEF GraphInv, Init
<1> QED
  BY <1>2, <1>3, <1>4, <1>5 DEF JobInv

LEMMA Sizes ==
  ASSUME WorkType
  PROVE  /\ Len(work.entities) \in Nat /\ Len(work.pairs) \in Nat /\ Len(work.matches) \in Nat
         /\ Len(work.resolved) \in Nat /\ Len(work.answers) \in Nat
         /\ work.entities = <<>> <=> Len(work.entities) = 0
         /\ work.answers = <<>> <=> Len(work.answers) = 0
BY LenProperties, EmptySeq DEF WorkType

\* A step that leaves the graph, the delta and what was returned, and does not
\* finish.
LEMMA MoveKeepsJobInv ==
  ASSUME JobInv, UNCHANGED <<work, delta, minted>>, UNCHANGED world, asked' \in BOOLEAN,
         tries' \in 0 .. MaxTries - 1, at' \in Nat \ {0},
         pc' \in {"extraction_schema", "extract", "match", "focus", "resolve", "compare",
                  "pairs", "edge_schema", "relate", "type_context", "entity_context",
                  "final", "merge", "preflight", "upsert", "failed"},
         Place', DeltaInv'
  PROVE  JobInv'
<1>1. TypeOK'
  BY DEF TypeOK, JobInv, world
<1>2. WorkType'
  BY DEF WorkType, JobInv
<1>3. GraphInv'
  BY DEF GraphInv, JobInv, world
<1>4. DoneMeansStored'
  BY DEF DoneMeansStored
<1> QED
  BY <1>1, <1>2, <1>3, <1>4 DEF JobInv

LEMMA RaiseKeepsJobInv ==
  ASSUME JobInv, Raise, UNCHANGED <<schema, run>>,
         graph' = graph \/ (graph' \in Graph /\ GraphInv'), faults' \in 0 .. MaxFaults
  PROVE  JobInv'
<1>1. TypeOK'
  BY DEF TypeOK, JobInv, Raise
<1>2. WorkType'
  BY DEF WorkType, JobInv, Raise
<1>3. GraphInv'
  BY DEF GraphInv, JobInv
<1>4. Place' /\ DeltaInv' /\ DoneMeansStored'
  BY DEF Place, Lengths, DeltaInv, DoneMeansStored, Raise
<1> QED
  BY <1>1, <1>2, <1>3, <1>4 DEF JobInv

LEMMA RetryKeepsJobInv ==
  ASSUME JobInv, ~Ended, NEW transient \in BOOLEAN, Retry(transient),
         UNCHANGED <<schema, run>>,
         graph' = graph \/ (graph' \in Graph /\ GraphInv'), faults' \in 0 .. MaxFaults
  PROVE  JobInv'
<1>1. CASE transient /\ tries + 1 < MaxTries
  <2>1. tries' = tries + 1 /\ UNCHANGED <<pc, at, asked, work, minted, delta>>
    BY <1>1 DEF Retry
  <2>2. TypeOK'
    BY <1>1, <2>1, JobAssumption DEF TypeOK, JobInv
  <2>3. WorkType'
    BY <2>1 DEF WorkType, JobInv
  <2>4. GraphInv'
    BY DEF GraphInv, JobInv
  <2>5. Place' /\ DeltaInv'
    BY <2>1 DEF Place, Lengths, DeltaInv, JobInv
  <2>6. DoneMeansStored'
    BY <2>1 DEF DoneMeansStored, Ended
  <2> QED
    BY <2>2, <2>3, <2>4, <2>5, <2>6 DEF JobInv
<1>2. CASE ~(transient /\ tries + 1 < MaxTries)
  BY <1>2, RaiseKeepsJobInv DEF Retry
<1> QED
  BY <1>1, <1>2

LEMMA CallRaisesKeepsJobInv ==
  ASSUME JobInv, CallRaises
  PROVE  JobInv'
<1>1. faults' \in 0 .. MaxFaults
  BY JobAssumption DEF CallRaises, JobInv, TypeOK
<1>2. PICK transient \in BOOLEAN : Retry(transient /\ pc # "connect")
  BY DEF CallRaises
<1> QED
  BY <1>1, <1>2, RetryKeepsJobInv DEF CallRaises

LEMMA ReadingKeepsJobInv ==
  ASSUME JobInv,
         \/ Connect \/ ReadExtractionSchema \/ Focus \/ ReadCandidates \/ ReadEdgeSchema
         \/ ReadEntityContext \/ Preflight \/ AgentMisbehaves
  PROVE  JobInv'
<1> USE DEF JobInv
<1>1. 0 \in 0 .. MaxTries - 1 /\ at \in Nat \ {0} /\ asked \in BOOLEAN
  BY JobAssumption DEF TypeOK
<1>2. /\ Len(work.entities) \in Nat /\ Len(work.pairs) \in Nat /\ Len(work.matches) \in Nat
      /\ Len(work.resolved) \in Nat /\ Len(work.answers) \in Nat
  BY Sizes
<1>3. faults \in 0 .. MaxFaults
  BY DEF TypeOK
<1>4. CASE Connect
  <2>1. Place' /\ DeltaInv'
    BY <1>4 DEF Connect, GoTo, Place, Lengths, DeltaInv
  <2> QED
    BY <1>1, <1>4, <2>1, MoveKeepsJobInv DEF Connect, GoTo
<1>5. CASE ReadExtractionSchema
  <2>1. Place' /\ DeltaInv'
    BY <1>5 DEF ReadExtractionSchema, GoTo, Place, Lengths, DeltaInv
  <2> QED
    BY <1>1, <1>5, <2>1, MoveKeepsJobInv DEF ReadExtractionSchema, GoTo
<1>6. CASE Focus
  <2>1. /\ UNCHANGED <<asked, work, minted, delta>> /\ UNCHANGED world
        /\ pc = "focus" /\ tries' = 0
        /\ \/ at < Len(work.entities) /\ pc' = "focus" /\ at' = at + 1
           \/ ~(at < Len(work.entities)) /\ pc' = "resolve" /\ at' = 1
    BY <1>6 DEF Focus, Advance, GoTo
  <2>2. Place' /\ DeltaInv'
    BY <1>1, <1>2, <2>1 DEF Place, Lengths, DeltaInv
  <2> QED
    BY <1>1, <2>1, <2>2, MoveKeepsJobInv
<1>7. CASE ReadCandidates
  <2>1. Place' /\ DeltaInv'
    BY <1>7 DEF ReadCandidates, GoTo, Place, Lengths, DeltaInv
  <2> QED
    BY <1>1, <1>7, <2>1, MoveKeepsJobInv DEF ReadCandidates, GoTo
<1>8. CASE ReadEdgeSchema
  <2>1. Place' /\ DeltaInv'
    BY <1>8 DEF ReadEdgeSchema, GoTo, Place, Lengths, DeltaInv
  <2> QED
    BY <1>1, <1>8, <2>1, MoveKeepsJobInv DEF ReadEdgeSchema, GoTo
<1>9. CASE ReadEntityContext
  <2>1. Place' /\ DeltaInv'
    BY <1>9 DEF ReadEntityContext, GoTo, Place, Lengths, DeltaInv
  <2> QED
    BY <1>1, <1>9, <2>1, MoveKeepsJobInv DEF ReadEntityContext, GoTo
<1>10. CASE Preflight
  <2>1. CASE pc' = "failed"
    BY <1>3, <1>10, <2>1, RaiseKeepsJobInv DEF Preflight, GoTo, world
  <2>2. CASE pc' # "failed"
    <3>1. /\ pc = "preflight" /\ GoTo("upsert", 1)
          /\ UNCHANGED <<asked, work, minted, delta>> /\ UNCHANGED world
      BY <1>10, <2>2 DEF Preflight, Raise
    <3>2. Place' /\ DeltaInv'
      BY <3>1 DEF GoTo, Place, Lengths, DeltaInv
    <3> QED
      BY <1>1, <3>1, <3>2, MoveKeepsJobInv DEF GoTo
  <2> QED
    BY <2>1, <2>2
<1>11. CASE AgentMisbehaves
  BY <1>3, <1>11, RaiseKeepsJobInv DEF AgentMisbehaves, world
<1> QED
  BY <1>4, <1>5, <1>6, <1>7, <1>8, <1>9, <1>10, <1>11

\* What a step does that returns something of type WorkType, and goes on.
LEMMA WorkKeepsJobInv ==
  ASSUME JobInv, WorkType', Place', UNCHANGED delta, UNCHANGED world, asked' \in BOOLEAN,
         minted' \in Nat, tries' = 0, at' \in Nat \ {0},
         pc' \in {"extract", "match", "focus", "resolve", "compare", "pairs", "edge_schema",
                  "relate", "type_context", "entity_context", "final", "merge"}
  PROVE  JobInv'
<1>1. TypeOK'
  BY JobAssumption DEF TypeOK, JobInv, world
<1>2. GraphInv'
  BY DEF GraphInv, JobInv, world
<1>3. DeltaInv' /\ DoneMeansStored'
  BY DEF DeltaInv, DoneMeansStored
<1> QED
  BY <1>1, <1>2, <1>3 DEF JobInv

LEMMA ExtractKeepsJobInv ==
  ASSUME JobInv, Extract
  PROVE  JobInv'
<1>1. PICK answer \in Extractions[run] :
        /\ work' = [work EXCEPT !.entities = answer.entities, !.universes = answer.universes]
        /\ Start("match", answer.entities, "pairs")
  BY DEF Extract
<1>2. answer.entities \in Seq(Extracted) /\ answer.universes \in Nat
  <2>1. run \in 1 .. Len(Extractions)
    BY DEF JobInv, TypeOK, MaxRuns
  <2>2. Extractions[run] \in SUBSET [entities : Seq(Extracted), universes : Nat]
    BY <2>1, JobAssumption, ElementOfSeq
  <2> QED
    BY <1>1, <2>2
<1>3. /\ work'.entities = answer.entities
      /\ work'.matches = work.matches /\ work'.resolved = work.resolved
      /\ work'.answers = work.answers /\ WorkType'
  BY <1>1, <1>2 DEF JobInv, WorkType, NoWork
<1>4. /\ answer.entities # <<>> => Len(answer.entities) > 0
      /\ answer.entities = <<>> => Len(answer.entities) = 0
  BY <1>2, EmptySeq, LenProperties
<1>5. /\ Len(work.matches) = 0 /\ Len(work.resolved) = 0 /\ Len(work.answers) = 0
  BY DEF JobInv, Place, Lengths, Extract
<1>6. /\ pc' = IF answer.entities = <<>> THEN "pairs" ELSE "match"
      /\ at' = 1 /\ tries' = 0
  BY <1>1 DEF Start, GoTo
<1>7. Place'
  <2>1. Len(answer.entities) \in Nat
    BY <1>2, LenProperties
  <2> QED
    BY <1>3, <1>4, <1>5, <1>6, <2>1 DEF Place, Lengths
<1> QED
  BY <1>3, <1>6, <1>7, WorkKeepsJobInv DEF Extract, JobInv, TypeOK

LEMMA FindCandidatesKeepsJobInv ==
  ASSUME JobInv, FindCandidates
  PROVE  JobInv'
<1>0. PICK found \in SUBSET graph.entities :
        \E score \in [found -> Scores] :
          work' = [work EXCEPT !.matches = Append(@, Classify(score))]
  BY DEF FindCandidates
<1>1. PICK score \in [found -> Scores] :
        work' = [work EXCEPT !.matches = Append(@, Classify(score))]
  BY <1>0
<1>2. Classify(score) \in Match
  <2>1. DOMAIN score \subseteq Int
    BY <1>1 DEF JobInv, TypeOK, Graph
  <2> DEFINE Over(n) == {e \in DOMAIN score : score[e] > n}
  <2>2. \A n : Over(n) \in SUBSET Int
    BY <2>1
  <2>3. Classify(score) =
          IF Over(10) = {} THEN [status |-> "new", ids |-> {}]
          ELSE IF Cardinality(Over(60)) = 1 THEN [status |-> "matched", ids |-> Over(60)]
          ELSE IF Over(15) = {} THEN [status |-> "new", ids |-> {}]
          ELSE [status |-> "compare", ids |-> Over(15)]
    BY DEF Classify
  <2> HIDE DEF Over
  <2>4. /\ \A I \in SUBSET Int : [status |-> "new", ids |-> I] \in Match
        /\ \A I \in SUBSET Int : [status |-> "matched", ids |-> I] \in Match
        /\ \A I \in SUBSET Int : [status |-> "compare", ids |-> I] \in Match
    BY DEF Match
  <2>5. Over(60) \in SUBSET Int /\ Over(15) \in SUBSET Int /\ {} \in SUBSET Int
    BY <2>2
  <2> QED
    BY <2>3, <2>4, <2>5, Zenon
<1>3. work.matches \in Seq(Match) /\ DOMAIN work = DOMAIN NoWork
  BY DEF JobInv, WorkType
<1>4. /\ Append(work.matches, Classify(score)) \in Seq(Match)
      /\ Len(Append(work.matches, Classify(score))) = Len(work.matches) + 1
  BY <1>2, <1>3, AppendProperties
<1>5. /\ work'.matches = Append(work.matches, Classify(score))
      /\ work'.entities = work.entities /\ work'.resolved = work.resolved
      /\ work'.answers = work.answers /\ work'.pairs = work.pairs
  BY <1>1, <1>3 DEF NoWork
<1>6. WorkType'
  BY <1>1, <1>3, <1>4, <1>5 DEF JobInv, WorkType, NoWork
<1>7. /\ Len(work.entities) \in Nat /\ Len(work.matches) \in Nat /\ at \in Nat \ {0}
  BY Sizes DEF JobInv, TypeOK
<1>8. /\ tries' = 0
      /\ \/ at < Len(work.entities) /\ pc' = "match" /\ at' = at + 1
         \/ ~(at < Len(work.entities)) /\ pc' = "focus" /\ at' = 1
  BY DEF FindCandidates, Advance, GoTo
<1>9. at <= Len(work.entities) /\ Len(work.matches) = at - 1
      /\ Len(work.resolved) = 0 /\ Len(work.answers) = 0
  BY DEF JobInv, Place, Lengths, FindCandidates
<1>10. Len(work'.matches) = at /\ Len(work'.resolved) = 0 /\ Len(work'.answers) = 0
  BY <1>4, <1>5, <1>7, <1>9
<1>11. Place'
  BY <1>5, <1>7, <1>8, <1>9, <1>10 DEF Place, Lengths
<1> QED
  BY <1>6, <1>7, <1>8, <1>11, WorkKeepsJobInv DEF FindCandidates, JobInv, TypeOK

LEMMA ResolveKeepsJobInv ==
  ASSUME JobInv, pc \in {"resolve", "compare"}, NEW e \in Int, NEW known \in BOOLEAN,
         known \/ e \in Nat, Resolve(e, known), UNCHANGED world
  PROVE  JobInv'
<1> DEFINE r == [id |-> e, known |-> known]
           matches == IF at < Len(work.entities) THEN work.matches ELSE <<>>
<1>1. work' = [work EXCEPT !.resolved = Append(@, r), !.matches = matches]
  BY DEF Resolve
<1>2. work.resolved \in Seq(Resolution) /\ DOMAIN work = DOMAIN NoWork /\ r \in Resolution
      /\ matches \in Seq(Match)
  BY EmptySeq DEF JobInv, WorkType, Resolution
<1> HIDE DEF r
<1>3. /\ Append(work.resolved, r) \in Seq(Resolution)
      /\ Len(Append(work.resolved, r)) = Len(work.resolved) + 1
  BY <1>2, AppendProperties
<1>4. /\ work'.resolved = Append(work.resolved, r)
      /\ work'.entities = work.entities /\ work'.matches = matches
      /\ work'.answers = work.answers /\ work'.pairs = work.pairs
  BY <1>1, <1>2 DEF NoWork
<1>5. WorkType'
  BY <1>1, <1>2, <1>3, <1>4 DEF JobInv, WorkType, NoWork
<1>6. /\ Len(work.entities) \in Nat /\ Len(work.resolved) \in Nat /\ at \in Nat \ {0}
      /\ Len(work.matches) \in Nat
  BY Sizes DEF JobInv, TypeOK
<1>7. /\ tries' = 0
      /\ \/ at < Len(work.entities) /\ pc' = "resolve" /\ at' = at + 1
         \/ ~(at < Len(work.entities)) /\ pc' = "pairs" /\ at' = 1
  BY DEF Resolve, Advance, GoTo
<1>8. /\ at <= Len(work.entities) /\ Len(work.matches) = Len(work.entities)
      /\ Len(work.resolved) = at - 1 /\ Len(work.answers) = 0
  BY DEF JobInv, Place, Lengths
<1>9. /\ Len(work'.resolved) = at /\ Len(work'.answers) = 0
      /\ at < Len(work.entities) => Len(work'.matches) = Len(work.entities)
  BY <1>3, <1>4, <1>6, <1>8
<1>10. Place'
  BY <1>4, <1>6, <1>7, <1>8, <1>9 DEF Place, Lengths
<1>11. minted' \in Nat
  BY DEF Resolve, JobInv, TypeOK
<1>12. asked' \in BOOLEAN /\ UNCHANGED delta
  BY Zenon DEF Resolve
<1>13. /\ at' \in Nat \ {0}
       /\ pc' \in {"extract", "match", "focus", "resolve", "compare", "pairs", "edge_schema",
                   "relate", "type_context", "entity_context", "final", "merge"}
  BY <1>6, <1>7
<1> QED
  BY <1>5, <1>7, <1>10, <1>11, <1>12, <1>13, WorkKeepsJobInv

LEMMA DecidingKeepsJobInv ==
  ASSUME JobInv, ResolveAtOnce \/ Compare
  PROVE  JobInv'
<1>1. /\ pc = "resolve" \/ pc = "compare"
      /\ minted + 1 \in Nat /\ minted + 1 \in Int
  <2>1. pc = "resolve" \/ pc = "compare"
    BY Zenon DEF ResolveAtOnce, Compare
  <2> QED
    BY <2>1 DEF JobInv, TypeOK
<1>2. work.matches[at].ids \subseteq Int
  <2>1. at \in 1 .. Len(work.matches)
    BY <1>1, Sizes DEF JobInv, Place, Lengths, TypeOK
  <2>2. work.matches[at] \in Match
    BY <2>1, ElementOfSeq DEF JobInv, WorkType
  <2> QED
    BY <2>2 DEF Match
<1>3. UNCHANGED world
  BY DEF ResolveAtOnce, Compare
<1>4. CASE \E e \in work.matches[at].ids : Resolve(e, TRUE)
  BY <1>1, <1>2, <1>3, <1>4, ResolveKeepsJobInv
<1>5. CASE Resolve(minted + 1, FALSE)
  BY <1>1, <1>3, <1>5, ResolveKeepsJobInv
<1>6. CASE /\ pc = "compare" /\ asked' = TRUE /\ GoTo("compare", at)
           /\ UNCHANGED <<work, minted, delta>>
  <2>1. 0 \in 0 .. MaxTries - 1 /\ at \in Nat \ {0}
    BY JobAssumption DEF JobInv, TypeOK
  <2>2. Place' /\ DeltaInv'
    BY <1>6 DEF GoTo, Place, Lengths, DeltaInv, JobInv
  <2> QED
    BY <1>3, <1>6, <2>1, <2>2, MoveKeepsJobInv DEF GoTo
<1>7. CASE Raise
  BY <1>3, <1>7, RaiseKeepsJobInv DEF world, JobInv, TypeOK
<1> QED
  BY <1>4, <1>5, <1>6, <1>7 DEF ResolveAtOnce, Compare

LEMMA ResolvedType ==
  ASSUME WorkType
  PROVE  /\ Resolved \subseteq Int
         /\ Resolved # {} => Len(work.resolved) > 0
<1>1. /\ Len(work.resolved) \in Nat /\ DOMAIN work.resolved = 1 .. Len(work.resolved)
      /\ \A i \in DOMAIN work.resolved : work.resolved[i] \in Resolution
  BY LenProperties, ElementOfSeq DEF WorkType
<1>2. \A i \in DOMAIN work.resolved : ResolvedId(i) \in Int
  BY <1>1 DEF ResolvedId, Resolution
<1>3. Resolved # {} => \E i : i \in 1 .. Len(work.resolved)
  BY <1>1 DEF Resolved
<1> QED
  BY <1>1, <1>2, <1>3 DEF Resolved

\* Pairs are pairs of entities: where there is none, there is no pair.
LEMMA DeduplicatedType ==
  ASSUME WorkType, NEW answer \in Seq(SUBSET Int)
  PROVE  /\ Deduplicated(answer) \in Seq(SUBSET Int)
         /\ Deduplicated(answer) # <<>> => Resolved # {}
<1> DEFINE N == Len(answer)
           V == {s \in Seq(SUBSET Int) : s # <<>> => Resolved # {}}
           Step(s, p) == IF /\ Cardinality(p) = 2 /\ p \subseteq Resolved
                            /\ ~Contains(s, p) /\ Typed(p)
                         THEN Append(s, p) ELSE s
           F == [n \in 1 .. N |-> [s \in V |-> Step(s, answer[n])]]
           Kept == CHOOSE f : f = [n \in 0 .. N |->
                     IF n = 0 THEN <<>> ELSE Step(f[n - 1], answer[n])]
<1>1. N \in Nat /\ \A n \in 1 .. N : answer[n] \in SUBSET Int
  BY LenProperties, ElementOfSeq
<1>2. <<>> \in V
  BY EmptySeq
<1>3. ASSUME NEW n \in 1 .. N, NEW s \in V
      PROVE  Step(s, answer[n]) \in V
  <2>1. CASE /\ Cardinality(answer[n]) = 2 /\ answer[n] \subseteq Resolved
             /\ ~Contains(s, answer[n]) /\ Typed(answer[n])
    <3>1. Resolved # {}
      <4>1. \A S : S = {} => Cardinality(S) = 0
        BY FS_EmptySet
      <4>2. answer[n] # {}
        BY <2>1, <4>1
      <4> QED
        BY <2>1, <4>2
    <3>2. Append(s, answer[n]) \in Seq(SUBSET Int)
      BY <1>1, AppendProperties
    <3>3. Step(s, answer[n]) = Append(s, answer[n])
      BY <2>1
    <3> QED
      BY <3>1, <3>2, <3>3
  <2>2. CASE ~ /\ Cardinality(answer[n]) = 2 /\ answer[n] \subseteq Resolved
               /\ ~Contains(s, answer[n]) /\ Typed(answer[n])
    <3>1. Step(s, answer[n]) = s
      BY <2>2
    <3> QED
      BY <3>1
  <2> QED
    BY <2>1, <2>2
<1>4. Deduplicated(answer) = Kept[N]
  <2>1. \A f : [n \in 0 .. N |->
           IF n = 0 THEN <<>>
           ELSE IF /\ Cardinality(answer[n]) = 2 /\ answer[n] \subseteq Resolved
                   /\ ~Contains(f[n - 1], answer[n]) /\ Typed(answer[n])
           THEN Append(f[n - 1], answer[n]) ELSE f[n - 1]]
           = [n \in 0 .. N |-> IF n = 0 THEN <<>> ELSE Step(f[n - 1], answer[n])]
    OBVIOUS
  <2> QED
    BY DEF Deduplicated
<1> HIDE DEF V, Step
<1>5. PICK f : Follows(f, N, V, <<>>, F)
  <2>1. F \in [1 .. N -> [V -> V]]
    BY <1>3
  <2> HIDE DEF F, N
  <2> QED
    BY <1>1, <1>2, <2>1, StepByStep
<1>6. f = [n \in 0 .. N |-> IF n = 0 THEN <<>> ELSE Step(f[n - 1], answer[n])]
  <2> HIDE DEF N
  <2>1. \A n \in 1 .. N : n - 1 \in 0 .. N
    BY <1>1
  <2>2. \A n \in 1 .. N : f[n] = Step(f[n - 1], answer[n])
    BY <1>5, <2>1 DEF Follows
  <2>3. \A n \in 0 .. N : n = 0 \/ n \in 1 .. N
    BY <1>1
  <2> QED
    BY <1>5, <2>2, <2>3 DEF Follows
<1>7. Kept = [n \in 0 .. N |-> IF n = 0 THEN <<>> ELSE Step(Kept[n - 1], answer[n])]
  <2> HIDE DEF N
  <2> QED
    BY <1>6
<1> HIDE DEF Kept, N
<1> DEFINE G == {n \in 0 .. N : Kept[n] \in V}
<1>8. 0 .. N \subseteq G
  <2>1. 0 \in G
    BY <1>1, <1>2, <1>7
  <2>2. ASSUME NEW n \in 1 .. N, n - 1 \in G
        PROVE  n \in G
    <3>1. n \in 0 .. N /\ n # 0
      BY <1>1
    <3>2. Kept[n] = Step(Kept[n - 1], answer[n])
      BY <1>7, <3>1
    <3> QED
      BY <1>3, <2>2, <3>1, <3>2
  <2> HIDE DEF G
  <2> QED
    BY <1>1, <2>1, <2>2, ClimbUp
<1>9. N \in 0 .. N
  BY <1>1
<1>10. Kept[N] \in V
  BY <1>8, <1>9
<1> QED
  BY <1>4, <1>10 DEF V

LEMMA FindPairsKeepsJobInv ==
  ASSUME JobInv, FindPairs
  PROVE  JobInv'
<1> DEFINE some == {pair \in SUBSET (Resolved \cup {Unknown}) : Cardinality(pair) \in 1 .. 2}
<1>1. PICK answer \in {<<>>} \cup [1 .. 2 -> some] :
        /\ work' = [work EXCEPT !.pairs = Deduplicated(answer)]
        /\ IF Deduplicated(answer) = <<>> THEN Start("type_context", work.entities, "merge")
                                          ELSE GoTo("edge_schema", 1)
  BY DEF FindPairs
<1>2. answer \in Seq(SUBSET Int)
  <2>1. some \subseteq SUBSET Int
    BY ResolvedType DEF JobInv, Unknown
  <2> HIDE DEF some
  <2>2. answer = <<>> \/ answer \in [1 .. 2 -> SUBSET Int]
    BY <2>1
  <2>3. ASSUME answer \in [1 .. 2 -> SUBSET Int]
        PROVE  answer \in Seq(SUBSET Int)
    <3> DEFINE T == SUBSET Int
    <3>1. answer \in [1 .. 2 -> T] /\ 2 \in Nat
      BY <2>3
    <3> HIDE DEF T
    <3>2. answer \in Seq(T)
      BY <3>1, SeqDef
    <3> QED
      BY <3>2 DEF T
  <2> QED
    BY <2>2, <2>3, EmptySeq
<1> DEFINE pairs == Deduplicated(answer)
<1>3. pairs \in Seq(SUBSET Int) /\ (pairs # <<>> => Len(work.resolved) > 0)
  BY <1>2, DeduplicatedType, ResolvedType DEF JobInv
<1> HIDE DEF pairs
<1>4. DOMAIN work = DOMAIN NoWork
  BY DEF JobInv, WorkType
<1>5. /\ work'.pairs = pairs
      /\ work'.entities = work.entities /\ work'.matches = work.matches
      /\ work'.answers = work.answers /\ work'.resolved = work.resolved
  BY <1>1, <1>4 DEF NoWork, pairs
<1>6. WorkType'
  <2>1. work' = [work EXCEPT !.pairs = pairs]
    BY <1>1 DEF pairs
  <2> QED
    BY <1>3, <1>4, <1>5, <2>1 DEF JobInv, WorkType, NoWork
<1>7. /\ Len(work.entities) \in Nat /\ Len(work.resolved) = Len(work.entities)
      /\ Len(work.answers) = 0 /\ Len(work.matches) \in Nat
      /\ work.entities = <<>> <=> Len(work.entities) = 0
  BY Sizes DEF JobInv, Place, Lengths, FindPairs
<1>8. Len(pairs) \in Nat /\ (pairs # <<>> => Len(pairs) > 0)
  BY <1>3, LenProperties, EmptySeq
<1>9. /\ tries' = 0 /\ at' = 1
      /\ pc' = IF pairs # <<>> THEN "edge_schema"
               ELSE IF work.entities = <<>> THEN "merge" ELSE "type_context"
  BY <1>1 DEF Start, GoTo, pairs
<1>10. Place'
  BY <1>3, <1>5, <1>7, <1>8, <1>9 DEF Place, Lengths
<1>11. asked' \in BOOLEAN /\ minted' \in Nat /\ UNCHANGED delta /\ UNCHANGED world
  BY DEF FindPairs, JobInv, TypeOK
<1> QED
  BY <1>6, <1>9, <1>10, <1>11, WorkKeepsJobInv

LEMMA RelateKeepsJobInv ==
  ASSUME JobInv, Relate
  PROVE  JobInv'
<1> DEFINE pair == work.pairs[at]
<1>1. /\ Len(work.entities) \in Nat /\ Len(work.pairs) \in Nat /\ at \in 1 .. Len(work.pairs)
      /\ Len(work.entities) > 0 /\ Len(work.resolved) = Len(work.entities)
      /\ Len(work.answers) = 0
  BY Sizes DEF JobInv, TypeOK, Place, Lengths, Relate
<1>2. pair \in SUBSET Int
  BY <1>1, ElementOfSeq DEF JobInv, WorkType
<1> HIDE DEF pair
<1>3. PICK answer \in [kind : {"RELATED", "INVENTED"}, from : pair \cup {Unknown},
                       to : pair \cup {Unknown}] :
        work' = [work EXCEPT !.relations = @ \o Related(pair, answer)]
  BY DEF Relate, pair
<1>4. answer \in Relation
  BY <1>2, <1>3 DEF Relation, Unknown
<1>5. Related(pair, answer) \in Seq(Relation)
  BY <1>4, EmptySeq DEF Related
<1>6. work.relations \in Seq(Relation) /\ DOMAIN work = DOMAIN NoWork
  BY DEF JobInv, WorkType
<1>7. work.relations \o Related(pair, answer) \in Seq(Relation)
  BY <1>5, <1>6, ConcatProperties
<1>8. /\ work'.relations = work.relations \o Related(pair, answer)
      /\ work'.entities = work.entities /\ work'.pairs = work.pairs
      /\ work'.answers = work.answers /\ work'.resolved = work.resolved
  BY <1>3, <1>6 DEF NoWork
<1>9. WorkType'
  BY <1>3, <1>6, <1>7, <1>8 DEF JobInv, WorkType, NoWork
<1>10. /\ tries' = 0
       /\ \/ at < Len(work.pairs) /\ pc' = "edge_schema" /\ at' = at + 1
          \/ ~(at < Len(work.pairs)) /\ pc' = "type_context" /\ at' = 1
  BY DEF Relate, GoTo
<1>11. Place'
  BY <1>1, <1>8, <1>10 DEF Place, Lengths
<1>12. asked' \in BOOLEAN /\ minted' \in Nat /\ UNCHANGED delta /\ UNCHANGED world
  BY DEF Relate, JobInv, TypeOK
<1>13. /\ at' \in Nat \ {0}
       /\ pc' \in {"extract", "match", "focus", "resolve", "compare", "pairs", "edge_schema",
                   "relate", "type_context", "entity_context", "final", "merge"}
  BY <1>1, <1>10
<1> QED
  BY <1>9, <1>10, <1>11, <1>12, <1>13, WorkKeepsJobInv

LEMMA ReadTypeContextKeepsJobInv ==
  ASSUME JobInv, ReadTypeContext
  PROVE  JobInv'
<1>1. CASE work.entities[at].typed
  <2>1. /\ work' = [work EXCEPT !.writable = Keys(Writable(schema))]
        /\ GoTo(IF work.resolved[at].known THEN "entity_context" ELSE "final", at)
        /\ UNCHANGED <<asked, minted, delta>> /\ UNCHANGED world
    BY <1>1, Zenon DEF ReadTypeContext
  <2>2. DOMAIN work = DOMAIN NoWork
    BY DEF JobInv, WorkType
  <2>3. /\ work'.entities = work.entities /\ work'.pairs = work.pairs
        /\ work'.matches = work.matches /\ work'.relations = work.relations
        /\ work'.answers = work.answers /\ work'.resolved = work.resolved
        /\ work'.universes = work.universes /\ DOMAIN work' = DOMAIN NoWork
    BY <2>1, <2>2 DEF NoWork
  <2>4. WorkType'
    BY <2>3 DEF JobInv, WorkType
  <2>5. pc' \in {"entity_context", "final"} /\ at' = at /\ tries' = 0
    BY <2>1 DEF GoTo
  <2>6. Place'
    BY <2>3, <2>5 DEF JobInv, Place, Lengths, ReadTypeContext
  <2>7. asked' \in BOOLEAN /\ minted' \in Nat /\ at \in Nat \ {0}
    BY <2>1 DEF JobInv, TypeOK
  <2> QED
    BY <2>1, <2>4, <2>5, <2>6, <2>7, WorkKeepsJobInv
<1>2. CASE ~work.entities[at].typed
  <2>1. Raise /\ UNCHANGED world
    BY <1>2, Zenon DEF ReadTypeContext
  <2> QED
    BY <2>1, RaiseKeepsJobInv DEF world, JobInv, TypeOK
<1> QED
  BY <1>1, <1>2

LEMMA BuildEntityGraphKeepsJobInv ==
  ASSUME JobInv, BuildEntityGraph
  PROVE  JobInv'
<1>1. CASE Raise
  BY <1>1, RaiseKeepsJobInv DEF BuildEntityGraph, world, JobInv, TypeOK
<1>2. CASE ~Raise
  <2>1. PICK answer \in GraphAnswers :
          /\ work' = [work EXCEPT !.answers = Append(@, Normalized(answer))]
          /\ IF at < Len(work.entities) THEN GoTo("type_context", at + 1) ELSE GoTo("merge", 1)
          /\ UNCHANGED <<asked, minted, delta>>
    BY <1>2 DEF BuildEntityGraph
  <2> DEFINE built == Normalized(answer)
  <2>2. built \in EntityGraph
    <3>1. answer \in EntityGraph
      BY JobAssumption
    <3>2. {p \in answer.properties : p.key \in work.writable} \in
            SUBSET [key : STRING, value : Values]
      BY <3>1 DEF EntityGraph
    <3>3. (IF work.entities[at].universe = "id" THEN "id" ELSE answer.universe) \in
            {"none", "name", "id"}
      BY <3>1 DEF EntityGraph
    <3> QED
      BY <3>1, <3>2, <3>3 DEF EntityGraph, Normalized
  <2> HIDE DEF built
  <2>3. work.answers \in Seq(EntityGraph) /\ DOMAIN work = DOMAIN NoWork
    BY DEF JobInv, WorkType
  <2>4. /\ Append(work.answers, built) \in Seq(EntityGraph)
        /\ Len(Append(work.answers, built)) = Len(work.answers) + 1
    BY <2>2, <2>3, AppendProperties
  <2>5. work' = [work EXCEPT !.answers = Append(@, built)]
    BY <2>1 DEF built
  <2>6. /\ work'.answers = Append(work.answers, built)
        /\ work'.entities = work.entities /\ work'.pairs = work.pairs
        /\ work'.resolved = work.resolved
    BY <2>3, <2>5 DEF NoWork
  <2>7. WorkType'
    BY <2>3, <2>4, <2>5, <2>6 DEF JobInv, WorkType, NoWork
  <2>8. /\ Len(work.entities) \in Nat /\ at \in 1 .. Len(work.entities)
        /\ Len(work.resolved) = Len(work.entities) /\ Len(work.answers) = at - 1
    BY Sizes DEF JobInv, TypeOK, Place, Lengths, BuildEntityGraph
  <2>9. /\ tries' = 0
        /\ \/ at < Len(work.entities) /\ pc' = "type_context" /\ at' = at + 1
           \/ ~(at < Len(work.entities)) /\ pc' = "merge" /\ at' = 1
    BY <2>1 DEF GoTo
  <2>10. Len(work'.answers) = at
    BY <2>4, <2>6, <2>8
  <2>11. Place'
    BY <2>6, <2>8, <2>9, <2>10 DEF Place, Lengths
  <2>12. asked' \in BOOLEAN /\ minted' \in Nat /\ UNCHANGED delta /\ UNCHANGED world
    BY <2>1 DEF BuildEntityGraph, JobInv, TypeOK
  <2>13. /\ at' \in Nat \ {0}
         /\ pc' \in {"extract", "match", "focus", "resolve", "compare", "pairs", "edge_schema",
                     "relate", "type_context", "entity_context", "final", "merge"}
    BY <2>8, <2>9
  <2> QED
    BY <2>7, <2>9, <2>11, <2>12, <2>13, WorkKeepsJobInv
<1> QED
  BY <1>1, <1>2

LEMMA MergeKeepsJobInv ==
  ASSUME JobInv, Merge
  PROVE  JobInv'
<1>1. CASE Raise
  BY <1>1, RaiseKeepsJobInv DEF Merge, world, JobInv, TypeOK
<1>2. CASE ~Raise
  <2>1. /\ Start("preflight", work.answers, "upsert") /\ UNCHANGED <<asked, work>>
        /\ UNCHANGED world
    BY <1>2 DEF Merge
  <2>2. /\ pc' \in {"preflight", "upsert"} /\ at' = 1 /\ tries' = 0
    BY <2>1 DEF Start, GoTo
  <2>3. Len(work.answers) = Len(work.entities) /\ Len(work.resolved) = Len(work.entities)
        /\ Len(work.answers) \in Nat
    BY Sizes DEF Merge, JobInv, Place, Lengths
  <2>4. WorkType /\ minted \in Nat
    BY DEF JobInv, TypeOK
  <2>5. /\ delta' \in Delta /\ minted' \in Nat
        /\ WholeDelta(delta') /\ Apart(delta')
        /\ Len(delta'.entities) = Len(work.answers)
        /\ ToSet(work.relations) \subseteq ToSet(delta'.edges)
    BY <2>2, <2>3, <2>4, MergedIsWhole
  <2>6. TypeOK'
    BY <2>1, <2>2, <2>5, JobAssumption DEF JobInv, TypeOK, world
  <2>7. WorkType' /\ GraphInv'
    BY <2>1, <2>4 DEF WorkType, GraphInv, JobInv, world
  <2>8. Place'
    BY <2>1, <2>2, <2>3 DEF Place, Lengths
  <2>9. DeltaInv'
    BY <2>1, <2>3, <2>5 DEF DeltaInv
  <2>10. DoneMeansStored'
    BY <2>2 DEF DoneMeansStored
  <2> QED
    BY <2>6, <2>7, <2>8, <2>9, <2>10 DEF JobInv
<1> QED
  BY <1>1, <1>2

\* A delta that is not refused describes entities that nothing describes yet,
\* each once.
LEMMA TakenOnlyOnce ==
  ASSUME GraphInv, graph \in Graph, delta \in Delta, Apart(delta), ~Invalid(delta, graph)
  PROVE  /\ Cardinality(EntityIds(delta)) = Len(delta.entities)
         /\ \A e \in EntityIds(delta) : ~DescribedIn(graph, e)
<1> DEFINE N == Len(delta.entities)
           Id(i) == delta.entities[i].id
           P(e) == Positions(delta.edges, Describing(e))
           R(e) == graph.edges \cap Describing(e)
<1>1. /\ N \in Nat /\ DOMAIN delta.entities = 1 .. N
      /\ delta.edges \in Seq(Edge)
      /\ \A p \in DOMAIN delta.edges : delta.edges[p] \in Edge
      /\ \A i \in 1 .. N : Id(i) \in Int
  <2>1. delta.entities \in Seq(ListedEntity) /\ delta.edges \in Seq(Edge)
    BY DEF Delta, ListedEntity
  <2>2. \A i \in 1 .. N : delta.entities[i] \in ListedEntity
    BY <2>1, ElementOfSeq
  <2>3. \A i \in 1 .. N : Id(i) \in Int
    BY <2>2 DEF ListedEntity
  <2> QED
    BY <2>1, <2>3, LenProperties, ElementOfSeq
<1>2. \A d \in Edge : d.kind = "DESCRIBED_BY" => d \in Describing(d.from)
  BY DEF Edge, Describing
<1>3. \A i \in 1 .. N, p \in DOMAIN delta.edges : Describes(delta, p, i) => p \in P(Id(i))
  BY <1>1, <1>2 DEF Describes, Positions
<1>4. \A e \in EntityIds(delta) :
        ~(Cardinality(R(e)) + Cardinality(P(e)) > 1)
  BY DEF Invalid, BreaksStateRules, DescribedTwice, Listed, Positions
<1>5. \A e : IsFiniteSet(R(e)) /\ Cardinality(R(e)) \in Nat
  <2> SUFFICES ASSUME NEW e
               PROVE  IsFiniteSet(R(e)) /\ Cardinality(R(e)) \in Nat
    OBVIOUS
  <2>1. R(e) \in SUBSET graph.edges /\ IsFiniteSet(graph.edges)
    BY DEF GraphInv
  <2> QED
    BY <2>1, FS_Subset, FS_CardinalityType
<1>6. \A e : /\ Cardinality(P(e)) \in Nat
             /\ Cardinality(P(e)) = 0 => P(e) = {}
             /\ \A i, k \in P(e) : i # k => Cardinality(P(e)) > 1
  BY <1>1, PositionsCount
<1>7. \A e : Cardinality(R(e)) = 0 => R(e) = {}
  BY <1>5, FS_EmptySet
<1> HIDE DEF P, R, Id, N
<1>8. \A i \in 1 .. N : Id(i) \in EntityIds(delta)
  BY <1>1 DEF EntityIds, Id
<1>9. ASSUME NEW i \in 1 .. N, NEW k \in 1 .. N, i < k, Id(i) = Id(k)
      PROVE  FALSE
  <2>1. PICK p, q \in DOMAIN delta.edges :
          p # q /\ Describes(delta, p, i) /\ Describes(delta, q, k)
    BY <1>1, <1>9 DEF Apart, Id
  <2>2. p \in P(Id(i)) /\ q \in P(Id(i))
    BY <1>3, <1>9, <2>1
  <2>3. Cardinality(P(Id(i))) > 1
    BY <1>6, <2>1, <2>2
  <2> QED
    BY <1>4, <1>5, <1>6, <1>8, <2>3
<1>10. Cardinality(EntityIds(delta)) = N
  <2> DEFINE f == [i \in 1 .. N |-> Id(i)]
  <2>1. f \in Bijection(1 .. N, EntityIds(delta))
    <3>1. EntityIds(delta) = {Id(i) : i \in 1 .. N}
      BY <1>1 DEF EntityIds, Id
    <3>2. \A i, k \in 1 .. N : Id(i) = Id(k) => i = k
      <4> SUFFICES ASSUME NEW i \in 1 .. N, NEW k \in 1 .. N, Id(i) = Id(k), i # k
                   PROVE  FALSE
        OBVIOUS
      <4>1. i < k \/ k < i
        BY <1>1
      <4> QED
        BY <1>9, <4>1
    <3> QED
      BY <3>1, <3>2 DEF Bijection, Injection, Surjection, IsInjective
  <2>2. IsFiniteSet(1 .. N) /\ Cardinality(1 .. N) = N
    <3>1. N \in Int /\ 1 \in Int /\ (1 > N => N = 0) /\ N - 1 + 1 = N
      BY <1>1
    <3> QED
      BY <3>1, FS_Interval
  <2>3. ExistsBijection(1 .. N, EntityIds(delta))
    BY <2>1 DEF ExistsBijection
  <2> QED
    BY <2>2, <2>3, FS_Bijection
<1>11. ASSUME NEW e \in EntityIds(delta), DescribedIn(graph, e)
       PROVE  FALSE
  <2>1. PICK i \in 1 .. N : e = Id(i)
    BY <1>1 DEF EntityIds, Id
  <2>2. PICK p \in DOMAIN delta.edges : Describes(delta, p, i)
    BY <1>1 DEF Apart
  <2>3. p \in P(e)
    BY <1>3, <2>1, <2>2
  <2>4. PICK d \in graph.edges : d.kind = "DESCRIBED_BY" /\ d.from = e
    BY <1>11 DEF DescribedIn
  <2>5. d \in R(e)
    BY <1>2, <2>4 DEF R, Graph
  <2>6. Cardinality(P(e)) # 0 /\ Cardinality(R(e)) # 0
    BY <1>6, <1>7, <2>3, <2>5
  <2> QED
    BY <1>4, <1>5, <1>6, <2>6
<1> QED
  BY <1>10, <1>11 DEF N

LEMMA StoringKeepsGraphInv ==
  ASSUME GraphInv, graph \in Graph, delta \in Delta, WholeDelta(delta), ~Invalid(delta, graph),
         graph' = Merged(delta, graph)
  PROVE  graph' \in Graph /\ GraphInv'
<1>1. Merged(delta, graph) \in Graph
  <2>1. EntityIds(delta) \subseteq Int
    <3>1. delta.entities \in Seq(ListedEntity)
      BY DEF Delta, ListedEntity
    <3>2. \A i \in DOMAIN delta.entities : delta.entities[i] \in ListedEntity
      BY <3>1, LenProperties, ElementOfSeq
    <3> QED
      BY <3>2 DEF EntityIds, ListedEntity
  <2>2. ToSet(delta.blocks) \subseteq Int /\ ToSet(delta.edges) \subseteq Edge
    <3>1. delta.blocks \in Seq(Int) /\ delta.edges \in Seq(Edge)
      BY DEF Delta
    <3> QED
      BY <3>1, LenProperties, ElementOfSeq DEF ToSet
  <2>3. delta.universes \subseteq Int
    BY DEF Delta
  <2> QED
    BY <2>1, <2>2, <2>3 DEF Merged, Graph
<1>2. WellDescribed(Merged(delta, graph)) /\ IsFiniteSet(Merged(delta, graph).edges)
  BY ShapeIsKept DEF GraphInv, WholeDelta
<1> QED
  BY <1>1, <1>2 DEF GraphInv

LEMMA UpsertKeepsJobInv ==
  ASSUME JobInv, Upsert
  PROVE  JobInv'
<1>1. /\ pc = "upsert" /\ ~Ended /\ UNCHANGED <<schema, run>>
      /\ faults \in 0 .. MaxFaults /\ MaxFaults \in Nat
  BY JobAssumption DEF Upsert, Ended, JobInv, TypeOK, world
<1>2. CASE Refused /\ Raise /\ UNCHANGED world
  BY <1>1, <1>2, RaiseKeepsJobInv DEF world
<1>3. CASE ~Refused /\ Retry(TRUE) /\ UNCHANGED world
  BY <1>1, <1>3, RetryKeepsJobInv DEF world
<1>4. CASE /\ ~Refused /\ graph' = Merged(delta, graph)
           /\ \/ GoTo("done", 1) /\ UNCHANGED <<asked, work, minted, delta, faults>>
              \/ faults < MaxFaults /\ faults' = faults + 1 /\ Retry(TRUE)
  <2>1. /\ GraphInv /\ graph \in Graph /\ delta \in Delta /\ WholeDelta(delta) /\ Apart(delta)
        /\ ~Invalid(delta, graph) /\ Len(delta.entities) = Len(work.entities)
        /\ ToSet(work.relations) \subseteq ToSet(delta.edges)
    BY <1>1, <1>4 DEF JobInv, TypeOK, DeltaInv, Refused
  <2>2. graph' \in Graph /\ GraphInv'
    BY <1>4, <2>1, StoringKeepsGraphInv
  <2>3. CASE faults' = faults + 1 /\ faults < MaxFaults /\ Retry(TRUE)
    <3>1. faults' \in 0 .. MaxFaults
      BY <1>1, <2>3
    <3> QED
      BY <1>1, <2>2, <2>3, <3>1, RetryKeepsJobInv
  <2>4. CASE GoTo("done", 1) /\ UNCHANGED <<asked, work, minted, delta, faults>>
    <3>1. pc' = "done" /\ at' = 1 /\ tries' = 0 /\ UNCHANGED <<asked, work, minted, delta, faults>>
      BY <2>4 DEF GoTo
    <3>2. TypeOK'
      BY <1>1, <2>2, <3>1, JobAssumption DEF JobInv, TypeOK
    <3>3. WorkType' /\ Place' /\ DeltaInv'
      BY <1>1, <3>1 DEF JobInv, WorkType, Place, Lengths, DeltaInv
    <3>4. Cardinality(EntityIds(delta)) = Len(work.entities)
      BY <2>1, TakenOnlyOnce
    <3>5. /\ \A e \in EntityIds(delta) :
               \E d \in Merged(delta, graph).edges : d.kind = "DESCRIBED_BY" /\ d.from = e
          /\ ToSet(work.relations) \subseteq Merged(delta, graph).edges
      BY <2>1 DEF Merged, WholeDelta, Whole
    <3>6. DoneMeansStored'
      BY <1>4, <3>1, <3>4, <3>5 DEF DoneMeansStored, DescribedIn
    <3> QED
      BY <2>2, <3>2, <3>3, <3>6 DEF JobInv
  <2> QED
    BY <1>4, <2>3, <2>4
<1> QED
  BY <1>2, <1>3, <1>4, Zenon DEF Upsert

LEMMA OthersKeepJobInv ==
  ASSUME JobInv, ChangeSchema \/ RunAgain \/ UNCHANGED vars
  PROVE  JobInv'
<1>1. CASE ChangeSchema
  <2>1. /\ UNCHANGED <<pc, at, tries, asked, work, minted, delta, graph, run>> /\ ~Ended
        /\ schema' \in Schemas /\ faults' \in 0 .. MaxFaults
    BY <1>1, JobAssumption DEF ChangeSchema, JobInv, TypeOK
  <2>2. TypeOK'
    BY <2>1 DEF JobInv, TypeOK
  <2>3. WorkType' /\ Place' /\ DeltaInv' /\ GraphInv'
    BY <2>1 DEF JobInv, WorkType, Place, Lengths, DeltaInv, GraphInv
  <2>4. DoneMeansStored'
    BY <2>1 DEF DoneMeansStored, Ended
  <2> QED
    BY <2>2, <2>3, <2>4 DEF JobInv
<1>2. CASE RunAgain
  <2>1. /\ pc' = "connect" /\ at' = 1 /\ tries' = 0 /\ asked' = FALSE /\ work' = NoWork
        /\ delta' = NoDelta /\ UNCHANGED <<minted, schema, graph, faults>>
        /\ run' = run + 1 /\ run < MaxRuns
    BY <1>2 DEF RunAgain, GoTo
  <2>2. NoDelta \in Delta
    BY DEF NoDelta, Delta
  <2>3. TypeOK'
    <3>1. run' \in 1 .. MaxRuns
      <4>1. Len(Extractions) \in Nat
        BY JobAssumption, LenProperties
      <4> QED
        BY <2>1, <4>1 DEF MaxRuns, JobInv, TypeOK
    <3>2. asked' \in BOOLEAN
      BY <2>1
    <3> QED
      BY <2>1, <2>2, <3>1, <3>2, JobAssumption DEF JobInv, TypeOK
  <2>4. WorkType'
    BY <2>1 DEF WorkType, NoWork
  <2>5. GraphInv'
    BY <2>1 DEF JobInv, GraphInv
  <2>6. Place' /\ DeltaInv' /\ DoneMeansStored'
    BY <2>1 DEF Place, Lengths, DeltaInv, DoneMeansStored, NoWork
  <2> QED
    BY <2>3, <2>4, <2>5, <2>6 DEF JobInv
<1>3. CASE UNCHANGED vars
  BY <1>3 DEF vars, JobInv, TypeOK, WorkType, Place, Lengths, DeltaInv, GraphInv,
              DoneMeansStored
<1> QED
  BY <1>1, <1>2, <1>3
-----------------------------------------------------------------------------
(* What holds of every behaviour.                                          *)

\* However the models answer and the calls fail, the script stays within its
\* steps and what is stored, sent and returned keeps its type.
THEOREM InvariantHolds ==
  Spec => []JobInv
<1>1. JobInv /\ [Next]_vars => JobInv'
  <2> SUFFICES ASSUME JobInv, [Next]_vars
               PROVE  JobInv'
    OBVIOUS
  <2> QED
    BY ReadingKeepsJobInv, ExtractKeepsJobInv, FindCandidatesKeepsJobInv,
       DecidingKeepsJobInv, FindPairsKeepsJobInv, RelateKeepsJobInv,
       ReadTypeContextKeepsJobInv, BuildEntityGraphKeepsJobInv, MergeKeepsJobInv,
       UpsertKeepsJobInv, CallRaisesKeepsJobInv, OthersKeepJobInv DEF Next
<1> QED
  BY <1>1, InitEstablishesJobInv, PTL DEF Spec

\* TypeOK of every run of the script, however it is repeated.
THEOREM TypeCorrect ==
  Spec => []TypeOK
<1>1. JobInv => TypeOK
  BY DEF JobInv
<1> QED
  BY <1>1, InvariantHolds, PTL

\* Every entity keeps at most one description and every block one parent, from
\* which it hangs from an entity, whatever deltas the script sends.
THEOREM GraphShape ==
  Spec => []GraphKeepsItsShape
<1>1. JobInv => GraphKeepsItsShape
  BY DEF JobInv, GraphInv, GraphKeepsItsShape
<1> QED
  BY <1>1, InvariantHolds, PTL

\* Step nine sends no block that does not hang from an entity of the same delta.
THEOREM DeltaIsWhole ==
  Spec => []DeltaHangsTogether
<1>1. JobInv => DeltaHangsTogether
  <2> DEFINE none == [universes |-> {}, entities |-> {}, blocks |-> {}, edges |-> {}]
  <2> SUFFICES ASSUME JobInv, pc \in {"preflight", "upsert"}
               PROVE  Rooted(Merged(delta, none))
    BY DEF DeltaHangsTogether
  <2>1. Rooted(none)
    BY DEF Rooted
  <2>2. Whole(EntityIds(delta), ToSet(delta.blocks), ToSet(delta.edges))
    BY DEF JobInv, DeltaInv, WholeDelta
  <2> QED
    BY <2>1, <2>2, RootedMerged
<1> QED
  BY <1>1, InvariantHolds, PTL

\* A script that reports success stored everything that it extracted.
THEOREM DoneIsStored ==
  Spec => []DoneMeansStored
<1>1. JobInv => DoneMeansStored
  BY DEF JobInv
<1> QED
  BY <1>1, InvariantHolds, PTL

\* UpsertGraphDelta takes a delta only for entities that nothing describes yet,
\* new ones or the user's own, and describes them all: a job that ran well once
\* and is run again cannot double what it stored.
THEOREM StoredOnce ==
  Spec => DescribedOnce
<1> DEFINE Once == graph' # graph => \A e \in EntityIds(delta) :
                     ~DescribedIn(graph, e) /\ DescribedIn(graph', e)
<1>1. JobInv /\ [Next]_vars => [Once]_vars
  <2> SUFFICES ASSUME JobInv, Next, graph' # graph, NEW e \in EntityIds(delta)
               PROVE  ~DescribedIn(graph, e) /\ DescribedIn(graph', e)
    OBVIOUS
  <2>1. Upsert
    BY DEF Next, world, Connect, ReadExtractionSchema, Extract, FindCandidates, Focus,
           ResolveAtOnce, ReadCandidates, Compare, FindPairs, ReadEdgeSchema, Relate,
           ReadTypeContext, ReadEntityContext, BuildEntityGraph, Merge, Preflight,
           CallRaises, AgentMisbehaves, ChangeSchema, RunAgain
  <2>2. pc = "upsert" /\ ~Refused /\ graph' = Merged(delta, graph)
    BY <2>1 DEF Upsert, world
  <2>3. /\ GraphInv /\ graph \in Graph /\ delta \in Delta /\ Apart(delta)
        /\ ~Invalid(delta, graph) /\ WholeDelta(delta)
    BY <2>2 DEF JobInv, TypeOK, DeltaInv, Refused
  <2>4. ~DescribedIn(graph, e)
    BY <2>3, TakenOnlyOnce
  <2>5. \E d \in ToSet(delta.edges) : d.kind = "DESCRIBED_BY" /\ d.from = e
    BY <2>3 DEF WholeDelta, Whole
  <2>6. DescribedIn(graph', e)
    BY <2>2, <2>5 DEF DescribedIn, Merged
  <2> QED
    BY <2>4, <2>6
<1> QED
  BY <1>1, InvariantHolds, PTL DEF Spec, DescribedOnce
=============================================================================
