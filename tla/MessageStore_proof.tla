-------------------------- MODULE MessageStore_proof --------------------------
(***************************************************************************)
(* Messages of a journal are numbered in the order of their inserts, for   *)
(* any messages and faults.  The modules that compose MessageStore with    *)
(* readers prove their theorems from StoreInv, which every insert keeps.   *)
(***************************************************************************)
EXTENDS MessageStore, FiniteSetTheorems, TLAPS

\* A row keeps what its insert saw: rows that were there, with lower numbers.
\* The rows are finite and their numbers bounded, so MAX means something.
NumberedInOrder ==
  \A m \in Messages :
    /\ insert[m].older \subseteq Stored
    /\ m \notin Stored /\ insert[m].pc = "running" =>
         /\ insert[m].number > 0
         /\ \A n \in insert[m].older : n # m /\ sequence[n] < insert[m].number

RowTypes ==
  /\ insert \in [Messages -> [pc : {"idle", "running", "done"}, number : Nat,
                              older : SUBSET Messages]]
  /\ sequence \in [Messages -> Nat]

StoreInv ==
  /\ RowTypes
  /\ IsFiniteSet(Stored)
  /\ \E b \in Nat : \A m \in Messages : sequence[m] <= b
  /\ NumberedInOrder
  /\ HigherIsNewer
-----------------------------------------------------------------------------
(* Numbers.                                                                *)

LEMMA Smallest ==
  ASSUME NEW T \in SUBSET Nat, T # {}
  PROVE  \E x \in T : \A y \in T : x <= y
<1>1. IsWellFoundedOn(OpToRel(<, Nat), Nat)
  BY NatLessThanWellFounded
<1>2. PICK x \in T : \A y \in T : ~ (<<y, x>> \in OpToRel(<, Nat))
  BY <1>1, WFMin
<1>3. \A y \in T : ~ (y < x)
  BY <1>2 DEF OpToRel
<1> QED
  BY <1>3

\* The least upper bound of a set of numbers is one of them.
LEMMA Largest ==
  ASSUME NEW S \in SUBSET Nat, S # {}, NEW b \in Nat, \A x \in S : x <= b
  PROVE  Max(S) \in S /\ \A y \in S : Max(S) >= y
<1> DEFINE Bounds == {c \in Nat : \A x \in S : x <= c}
<1>1. PICK c \in Bounds : \A d \in Bounds : c <= d
  <2>1. Bounds \in SUBSET Nat /\ b \in Bounds
    OBVIOUS
  <2> HIDE DEF Bounds
  <2> QED
    BY <2>1, Smallest
<1>2. c \in S
  <2> SUFFICES ASSUME c \notin S
               PROVE  FALSE
    OBVIOUS
  <2>1. \A x \in S : x < c
    BY <1>1
  <2>2. c > 0
    <3>1. PICK x \in S : x \in Nat
      OBVIOUS
    <3>2. x < c
      BY <2>1
    <3> QED
      BY <3>1, <3>2
  <2>3. c - 1 \in Bounds
    BY <2>1, <2>2, <1>1
  <2> QED
    BY <2>3, <1>1
<1>3. \E x \in S : \A y \in S : x >= y
  BY <1>1, <1>2
<1> QED
  BY <1>3 DEF Max

\* A number that is computed is above those it is computed from.
LEMMA NextIsHigher ==
  ASSUME StoreInv, NEW m \in Messages
  PROVE  /\ NextNumber(m) \in Nat \ {0}
         /\ \A n \in Siblings(m) : sequence[n] < NextNumber(m)
<1> DEFINE numbers == {0} \cup {sequence[n] : n \in Siblings(m)}
<1>1. Siblings(m) \subseteq Messages /\ sequence \in [Messages -> Nat]
  BY DEF Siblings, Stored, StoreInv, RowTypes
<1>2. PICK b \in Nat : \A n \in Messages : sequence[n] <= b
  BY DEF StoreInv
<1>3. numbers \in SUBSET Nat /\ numbers # {} /\ \A x \in numbers : x <= b
  BY <1>1, <1>2
<1>4. Max(numbers) \in numbers /\ \A y \in numbers : Max(numbers) >= y
  <2> HIDE DEF numbers
  <2> QED
    BY <1>3, Largest
<1>5. Max(numbers) \in Nat
  <2> HIDE DEF numbers
  <2> QED
    BY <1>3, <1>4
<1>6. NextNumber(m) = Max(numbers) + 1
  BY DEF NextNumber
<1>7. \A n \in Siblings(m) : sequence[n] \in numbers
  OBVIOUS
<1> HIDE DEF numbers
<1> QED
  BY <1>1, <1>3, <1>4, <1>5, <1>6, <1>7
-----------------------------------------------------------------------------
(* The insert.                                                             *)

LEMMA StoreInvInit == StoreInit => StoreInv
<1> SUFFICES ASSUME StoreInit
             PROVE  StoreInv
  OBVIOUS
<1>1. RowTypes
  BY DEF StoreInit, RowTypes, IdleInsert
<1>2. Stored = {}
  BY DEF StoreInit, Stored
<1>3. \A m \in Messages : insert[m] = IdleInsert
  BY DEF StoreInit
<1>4. \A m \in Messages : sequence[m] <= 0
  BY DEF StoreInit
<1> QED
  BY <1>1, <1>2, <1>3, <1>4, FS_EmptySet
  DEF StoreInv, NumberedInOrder, HigherIsNewer, IdleInsert

LEMMA BeginKeeps ==
  ASSUME StoreInv, NEW m \in Messages, BeginInsert(m)
  PROVE  StoreInv'
<1> DEFINE running == [pc |-> "running", number |-> NextNumber(m),
              older |-> IF m \in Stored THEN insert[m].older ELSE Siblings(m)]
<1>1. /\ insert' = [insert EXCEPT ![m] = running]
      /\ UNCHANGED sequence
  BY DEF BeginInsert
<1>2. RowTypes
  BY DEF StoreInv
<1>3. Stored' = Stored /\ Stored \subseteq Messages
  BY <1>1 DEF Stored
<1>4. /\ NextNumber(m) \in Nat \ {0}
      /\ \A n \in Siblings(m) : sequence[n] < NextNumber(m)
  BY NextIsHigher
<1>5. /\ Siblings(m) \subseteq Stored
      /\ m \notin Stored => m \notin Siblings(m)
  BY DEF Siblings
<1>6. insert[m].older \subseteq Stored
  BY DEF StoreInv, NumberedInOrder
<1>7. running \in [pc : {"idle", "running", "done"}, number : Nat, older : SUBSET Messages]
  BY <1>3, <1>4, <1>5, <1>6
<1>8. RowTypes'
  <2> HIDE DEF running
  <2> QED
    BY <1>1, <1>2, <1>7 DEF RowTypes
<1>9. /\ \A n \in Messages \ {m} : insert'[n] = insert[n]
      /\ insert'[m] = running
  <2> HIDE DEF running
  <2> QED
    BY <1>1, <1>2 DEF RowTypes
<1>10. NumberedInOrder'
  <2> SUFFICES ASSUME NEW n \in Messages
               PROVE  /\ insert'[n].older \subseteq Stored'
                      /\ n \notin Stored' /\ insert'[n].pc = "running" =>
                           /\ insert'[n].number > 0
                           /\ \A k \in insert'[n].older :
                                k # n /\ sequence'[k] < insert'[n].number
    BY DEF NumberedInOrder
  <2>1. CASE n = m
    BY <2>1, <1>1, <1>3, <1>4, <1>5, <1>6, <1>9
  <2>2. CASE n # m
    BY <2>2, <1>1, <1>3, <1>9 DEF StoreInv, NumberedInOrder
  <2> QED
    BY <2>1, <2>2
<1>11. HigherIsNewer'
  <2> SUFFICES ASSUME NEW n \in Stored, NEW k \in insert'[n].older \ {n}
               PROVE  sequence[k] < sequence[n]
    BY <1>1, <1>3 DEF HigherIsNewer
  <2>1. insert'[n].older = insert[n].older
    BY <1>3, <1>9
  <2> QED
    BY <2>1 DEF StoreInv, HigherIsNewer
<1>12. \E b \in Nat : \A n \in Messages : sequence'[n] <= b
  BY <1>1 DEF StoreInv
<1>13. IsFiniteSet(Stored')
  BY <1>3 DEF StoreInv
<1> QED
  BY <1>8, <1>10, <1>11, <1>12, <1>13 DEF StoreInv

LEMMA EndKeeps ==
  ASSUME StoreInv, NEW m \in Messages, NEW o \in Outcomes, EndInsert(m, o)
  PROVE  StoreInv'
<1> DEFINE next == IF o = "ok" THEN "done" ELSE "idle"
<1>1. /\ insert[m].pc = "running"
      /\ insert' = [insert EXCEPT ![m].pc = next]
      /\ sequence' = IF Happened(o) /\ m \notin Stored
                     THEN [sequence EXCEPT ![m] = insert[m].number] ELSE sequence
  BY DEF EndInsert
<1>2. /\ insert \in [Messages -> [pc : {"idle", "running", "done"}, number : Nat,
                                  older : SUBSET Messages]]
      /\ sequence \in [Messages -> Nat]
  BY DEF StoreInv, RowTypes
<1>3. /\ \A n \in Messages : insert'[n].older = insert[n].older
                              /\ insert'[n].number = insert[n].number
      /\ \A n \in Messages \ {m} : insert'[n] = insert[n]
      /\ insert'[m].pc # "running"
      /\ insert' \in [Messages -> [pc : {"idle", "running", "done"}, number : Nat,
                                   older : SUBSET Messages]]
  <2>1. next \in {"idle", "done"}
    OBVIOUS
  <2> HIDE DEF next
  <2> QED
    BY <1>1, <1>2, <2>1
<1>4. sequence' \in [Messages -> Nat] /\ \A n \in Messages \ {m} : sequence'[n] = sequence[n]
  BY <1>1, <1>2
<1>5. RowTypes'
  BY <1>3, <1>4 DEF RowTypes
<1>6. \A n \in Stored : n \in Messages /\ sequence'[n] = sequence[n]
  BY <1>1, <1>2, <1>4 DEF Stored
<1>7. Stored \subseteq Stored' /\ Stored' \subseteq Stored \cup {m}
  BY <1>4, <1>6 DEF Stored
<1>8. IsFiniteSet(Stored')
  <2>1. IsFiniteSet(Stored \cup {m})
    BY FS_AddElement DEF StoreInv
  <2> QED
    BY <2>1, <1>7, FS_Subset
<1>9. \E b \in Nat : \A n \in Messages : sequence'[n] <= b
  <2>1. PICK b \in Nat : \A n \in Messages : sequence[n] <= b
    BY DEF StoreInv
  <2>2. \A n \in Messages : sequence'[n] <= b + sequence'[m]
    BY <2>1, <1>2, <1>4
  <2>3. b + sequence'[m] \in Nat
    BY <1>4
  <2> QED
    BY <2>2, <2>3
<1>10. NumberedInOrder
  BY DEF StoreInv
<1>11. NumberedInOrder'
  <2> SUFFICES ASSUME NEW n \in Messages
               PROVE  /\ insert'[n].older \subseteq Stored'
                      /\ n \notin Stored' /\ insert'[n].pc = "running" =>
                           /\ insert'[n].number > 0
                           /\ \A k \in insert'[n].older :
                                k # n /\ sequence'[k] < insert'[n].number
    BY DEF NumberedInOrder
  <2>1. insert'[n].older \subseteq Stored
    BY <1>3, <1>10 DEF NumberedInOrder
  <2>2. CASE n = m
    BY <2>1, <2>2, <1>3, <1>7
  <2>3. CASE n # m
    BY <2>1, <2>3, <1>3, <1>6, <1>7, <1>10 DEF NumberedInOrder
  <2> QED
    BY <2>2, <2>3
<1>12. HigherIsNewer'
  <2> SUFFICES ASSUME NEW n \in Stored', NEW k \in insert'[n].older \ {n}
               PROVE  sequence'[k] < sequence'[n]
    BY DEF HigherIsNewer
  <2>1. n \in Messages /\ k \in insert[n].older \ {n} /\ k \in Stored
    BY <1>3, <1>7, <1>6, <1>10 DEF NumberedInOrder
  <2>2. sequence'[k] = sequence[k]
    BY <2>1, <1>6
  <2>3. CASE n \in Stored
    BY <2>1, <2>2, <2>3, <1>6 DEF StoreInv, HigherIsNewer
  <2>4. CASE n \notin Stored
    <3>1. n = m
      BY <2>4, <1>7
    <3>2. sequence'[m] = insert[m].number
      BY <3>1, <2>4, <1>1, <1>2 DEF Stored
    <3> QED
      BY <3>1, <3>2, <2>1, <2>2, <2>4, <1>1, <1>10 DEF NumberedInOrder
  <2> QED
    BY <2>3, <2>4
<1> QED
  BY <1>5, <1>8, <1>9, <1>11, <1>12 DEF StoreInv

\* What an insert may do: StoreInv is kept and a row's number never changes.
LEMMA InsertKeeps ==
  ASSUME StoreInv, NEW m \in Messages, Insert(m)
  PROVE  /\ StoreInv'
         /\ Stored \subseteq Stored'
         /\ \A n \in Stored : sequence'[n] = sequence[n]
<1>1. CASE BeginInsert(m)
  BY <1>1, BeginKeeps DEF BeginInsert, Stored
<1>2. ASSUME NEW o \in Outcomes, EndInsert(m, o)
      PROVE  /\ StoreInv'
             /\ Stored \subseteq Stored'
             /\ \A n \in Stored : sequence'[n] = sequence[n]
  <2>1. \A n \in Stored : sequence'[n] = sequence[n]
    BY <1>2 DEF EndInsert, StoreInv, RowTypes, Stored
  <2> QED
    BY <1>2, <2>1, EndKeeps DEF Stored
<1> QED
  BY <1>1, <1>2 DEF Insert

\* A step that touches neither the rows nor their inserts keeps the rest.
LEMMA StoreInvStutter ==
  ASSUME StoreInv, UNCHANGED <<insert, sequence>>
  PROVE  StoreInv'
<1>1. Stored' = Stored
  BY DEF Stored
<1> QED
  BY <1>1 DEF StoreInv, RowTypes, NumberedInOrder, HigherIsNewer
=============================================================================
