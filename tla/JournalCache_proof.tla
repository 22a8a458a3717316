-------------------------- MODULE JournalCache_proof --------------------------
(***************************************************************************)
(* A key of the journal cache is behind the store only while a write is on *)
(* its way to clear it, or after trouble; and a journal that was created   *)
(* is found.  Both for any journals, keys, requests and bounds.            *)
(***************************************************************************)
EXTENDS JournalCache, TLAPS

Reading(p) == request[p].pc \in {"get", "fetch", "set", "index"}

\* The type, and that a read knows its key.
TypeInv == TypeOK /\ \A p \in Requests : Reading(p) => request[p].key \in Keys

\* Held, and nothing went wrong with it.
Sure(k) == cache[k].held /\ ~cache[k].raced /\ ~cache[k].doubtful

\* The marker for a journal that was not found, which no index lists.
Marker(k) == k[1] = "entry" /\ cache[k].value = Nothing

Listed(k) == k \in index[IndexOf(k)]

\* The write p has not come to clearing k yet.
Pending(p, k) ==
  \/ request[p].pc \in {"touch", "get_reference", "delete_entry"}
  \/ /\ k # EntryKey(request[p].ref)
     /\ request[p].index = ListsIndex => IndexOf(k) = ListsIndex
     /\ request[p].index = IndexOf(k) =>
          \/ request[p].pc = "read_index"
          \/ request[p].pc = "delete_members" /\ k \in request[p].members

WritesClear ==
  \A p \in Requests : \A k \in Keys :
    Writing(p) /\ k \in Touched(request[p].ref) /\ Sure(k) =>
      Pending(p, k) /\ (Marker(k) \/ Listed(k))

IsIndexing(p, k) == At(p, "index") /\ request[p].key = k

ListedSoon ==
  \A k \in Keys : Sure(k) =>
    Marker(k) \/ Listed(k) \/ \E p \in Requests : IsIndexing(p, k)

ReadsAreFresh ==
  \A p \in Requests : (At(p, "fetch") \/ At(p, "set")) /\ ~request[p].raced =>
    /\ ~BeingWritten(request[p].key)
    /\ At(p, "set") => request[p].value = View(request[p].key)

CacheInv == WritesClear /\ ListedSoon /\ ReadsAreFresh /\ BehindOnlyAfterTrouble
-----------------------------------------------------------------------------
(* Keys and indexes.                                                       *)

LEMMA KeyFacts ==
  ASSUME NEW ref \in References, NEW k \in Keys
  PROVE  /\ EntryKey(ref) \in Keys
         /\ RefIndex(ref) # ListsIndex
         /\ IndexOf(k) \in Indexes
         /\ k \in Touched(ref) <=> IndexOf(k) \in {RefIndex(ref), ListsIndex}
         /\ k \in Touched(ref) /\ k[1] = "entry" => k = EntryKey(ref)
<1>1. k \in AllKeys /\ EntryKey(ref) \in Keys
  BY KeyAssumption
<1>2. CASE k = ListKey
  BY <1>1, <1>2 DEF IndexOf, ListKey, ListsIndex, RefIndex, Indexes, Touched
<1>3. ASSUME NEW x \in {"entry", "messages"}, NEW y \in References, k = <<x, y>>
      PROVE  /\ RefIndex(ref) # ListsIndex
             /\ IndexOf(k) \in Indexes
             /\ k \in Touched(ref) <=> IndexOf(k) \in {RefIndex(ref), ListsIndex}
             /\ k \in Touched(ref) /\ k[1] = "entry" => k = EntryKey(ref)
  <2>1. k # ListKey /\ k[1] = x /\ k[2] = y
    BY <1>3 DEF ListKey
  <2>2. IndexOf(k) = RefIndex(y)
    BY <2>1 DEF IndexOf
  <2>3. k \in Touched(ref) <=> y = ref
    BY <2>1 DEF Touched
  <2> QED
    BY <1>3, <2>1, <2>2, <2>3 DEF RefIndex, ListsIndex, Indexes, EntryKey
<1> QED
  BY <1>1, <1>2, <1>3 DEF AllKeys

\* What a key shows is a value, and changes only with a journal that the key
\* shows something of.
LEMMA ViewIsValue ==
  ASSUME TypeOK, NEW k
  PROVE  View(k) \in Values
BY DEF TypeOK, View, Values

LEMMA ViewStays ==
  ASSUME NEW ref \in References, NEW k \in Keys, k \notin Touched(ref),
         \A r \in References \ {ref} : store'[r] = store[r]
  PROVE  View(k)' = View(k)
BY DEF View, Touched

LEMMA IdleIsOperation == Idle \in Operations /\ Absent \in Entries
BY DEF Idle, Operations, Indexes, Nothing, Values, Absent, Entries
-----------------------------------------------------------------------------
(* Types.                                                                  *)

\* The part of TypeInv that is about one request.
RequestOK(p) ==
  /\ request[p] \in Operations
  /\ Writing(p) =>
       /\ request[p].ref \in References
       /\ request[p].index \in {ListsIndex, RefIndex(request[p].ref)}
       /\ request[p].members \subseteq Touched(request[p].ref)
  /\ Reading(p) => request[p].key \in Keys

\* The part that is about the stores and the bounds.
StoresOK ==
  /\ store \in [References -> [row : Nat, messages : Nat, calls : Nat]]
  /\ cache \in [Keys -> Entries]
  /\ index \in [Indexes -> SUBSET Keys]
  /\ writes \in 0..MaxWrites /\ faults \in 0..MaxFaults
  /\ \A i \in Indexes : \A k \in index[i] : IndexOf(k) = i

LEMMA TypeParts ==
  TypeInv <=> /\ StoresOK
              /\ request \in [Requests -> Operations]
              /\ \A p \in Requests : RequestOK(p)
BY DEF TypeInv, TypeOK, StoresOK, RequestOK

\* A step that changes one request.
LEMMA OneRequest ==
  ASSUME TypeInv, NEW p \in Requests, NEW r,
         request' = [request EXCEPT ![p] = r], StoresOK', RequestOK(p)'
  PROVE  TypeInv'
<1>1. \A q \in Requests \ {p} : request'[q] = request[q]
  BY TypeParts
<1>2. \A q \in Requests \ {p} : RequestOK(q)'
  BY <1>1, TypeParts DEF RequestOK, Writing, Invalidating, Reading
<1>3. \A q \in Requests : RequestOK(q)'
  BY <1>2
<1>4. request' \in [Requests -> Operations]
  BY <1>3, TypeParts DEF RequestOK
<1> QED
  BY <1>3, <1>4, TypeParts DEF TypeInv, TypeOK, StoresOK, RequestOK

\* A step that touches neither the requests nor their shape.
LEMMA NoRequest ==
  ASSUME TypeInv, UNCHANGED request, StoresOK'
  PROVE  TypeInv'
BY TypeParts DEF RequestOK, Writing, Invalidating, Reading, TypeInv, TypeOK, StoresOK

LEMMA DoubtedIsEntry ==
  ASSUME NEW e \in Entries
  PROVE  Doubted(e) \in Entries
BY DEF Doubted, Entries

LEMMA BeginWriteType ==
  ASSUME TypeInv, NEW p \in Requests, NEW ref \in References, NEW r \in Operations,
         r.pc \in {"touch", "get_reference", "delete_entry"},
         r.index = ListsIndex, r.members = {},
         store' \in [References -> [row : Nat, messages : Nat, calls : Nat]],
         BeginWrite(p, ref, r)
  PROVE  TypeInv'
<1> DEFINE w == [r EXCEPT !.ref = ref]
<1>1. w \in Operations /\ w.ref = ref /\ w.pc = r.pc /\ w.index = ListsIndex /\ w.members = {}
  BY DEF Operations
<1>2. \A q \in Requests : request'[q] =
        IF q = p THEN w
        ELSE IF request[q].pc \in {"fetch", "set"} /\ request[q].key \in Touched(ref)
             THEN [request[q] EXCEPT !.raced = TRUE] ELSE request[q]
  BY DEF BeginWrite, Disturbed
<1>3. \A q \in Requests : RequestOK(q)'
  <2>1. RequestOK(p)'
    BY <1>1, <1>2 DEF RequestOK, Writing, Invalidating, Reading
  <2>2. ASSUME NEW q \in Requests \ {p}, request'[q] = [request[q] EXCEPT !.raced = TRUE]
        PROVE  RequestOK(q)'
    <3>1. request[q] \in Operations
      BY TypeParts
    <3>2. request'[q] \in Operations
      BY <2>2, <3>1 DEF Operations
    <3>3. /\ request'[q].pc = request[q].pc /\ request'[q].ref = request[q].ref
          /\ request'[q].index = request[q].index /\ request'[q].members = request[q].members
          /\ request'[q].key = request[q].key
      BY <2>2, <3>1 DEF Operations
    <3> QED
      BY <3>2, <3>3, TypeParts DEF RequestOK, Writing, Invalidating, Reading, Touched
  <2>3. ASSUME NEW q \in Requests \ {p}, request'[q] = request[q]
        PROVE  RequestOK(q)'
    BY <2>3, TypeParts DEF RequestOK, Writing, Invalidating, Reading, Touched
  <2> QED
    BY <1>2, <2>1, <2>2, <2>3
<1>4. request' \in [Requests -> Operations]
  <2>1. \A q \in Requests : request'[q] \in Operations
    BY <1>3 DEF RequestOK
  <2> QED
    BY <2>1 DEF BeginWrite, Disturbed
<1>5. cache' \in [Keys -> Entries]
  BY TypeParts, DoubtedIsEntry DEF StoresOK, BeginWrite
<1>6. writes' \in 0..MaxWrites
  BY TypeParts, CacheAssumption DEF StoresOK, BeginWrite
<1>7. StoresOK'
  BY <1>5, <1>6, TypeParts DEF StoresOK, BeginWrite
<1> QED
  BY <1>3, <1>4, <1>7 DEF TypeInv, TypeOK, StoresOK, RequestOK

LEMMA RowChanges ==
  ASSUME NEW ref \in References, StoresOK, store' = [store EXCEPT ![ref].row = @ + 1]
  PROVE  store' \in [References -> [row : Nat, messages : Nat, calls : Nat]]
<1>1. store \in [References -> [row : Nat, messages : Nat, calls : Nat]]
  BY DEF StoresOK
<1>2. store[ref] \in [row : Nat, messages : Nat, calls : Nat]
  BY <1>1
<1>3. [store[ref] EXCEPT !.row = @ + 1] \in [row : Nat, messages : Nat, calls : Nat]
  BY <1>2
<1>4. store' = [store EXCEPT ![ref] = [store[ref] EXCEPT !.row = @ + 1]]
  OBVIOUS
<1> QED
  BY <1>1, <1>3, <1>4

LEMMA WriteType ==
  ASSUME TypeInv, NEW p \in Requests, NEW ref \in References,
         \/ InsertMessage(p, ref) \/ InsertToolCall(p, ref)
         \/ \E create \in BOOLEAN : Ensure(p, ref, create)
  PROVE  TypeInv'
<1> USE IdleIsOperation
<1>1. store \in [References -> [row : Nat, messages : Nat, calls : Nat]]
  BY TypeParts DEF StoresOK
<1>2. CASE InsertMessage(p, ref)
  <2> DEFINE r == [Idle EXCEPT !.pc = "touch"]
  <2>1. r \in Operations /\ r.pc = "touch" /\ r.index = ListsIndex /\ r.members = {}
    BY DEF Operations, Idle
  <2>2. store' \in [References -> [row : Nat, messages : Nat, calls : Nat]]
    BY <1>1, <1>2 DEF InsertMessage
  <2>3. BeginWrite(p, ref, r)
    BY <1>2 DEF InsertMessage
  <2> HIDE DEF r
  <2> QED
    BY <2>1, <2>2, <2>3, BeginWriteType
<1>3. CASE InsertToolCall(p, ref)
  <2> DEFINE r == [Idle EXCEPT !.pc = "get_reference"]
  <2>1. r \in Operations /\ r.pc = "get_reference" /\ r.index = ListsIndex /\ r.members = {}
    BY DEF Operations, Idle
  <2>2. store' \in [References -> [row : Nat, messages : Nat, calls : Nat]]
    BY <1>1, <1>3 DEF InsertToolCall
  <2>3. BeginWrite(p, ref, r)
    BY <1>3 DEF InsertToolCall
  <2> HIDE DEF r
  <2> QED
    BY <2>1, <2>2, <2>3, BeginWriteType
<1>4. ASSUME NEW create \in BOOLEAN, Ensure(p, ref, create)
      PROVE  TypeInv'
  <2> DEFINE r == [Idle EXCEPT !.pc = "delete_entry", !.create = create]
  <2>1. r \in Operations /\ r.pc = "delete_entry" /\ r.index = ListsIndex /\ r.members = {}
    BY DEF Operations, Idle
  <2>2. store' \in [References -> [row : Nat, messages : Nat, calls : Nat]]
    BY <1>4, RowChanges, TypeParts DEF Ensure
  <2>3. BeginWrite(p, ref, r)
    BY <1>4 DEF Ensure
  <2> HIDE DEF r
  <2> QED
    BY <2>1, <2>2, <2>3, BeginWriteType
<1> QED
  BY <1>2, <1>3, <1>4

LEMMA MissType ==
  ASSUME TypeInv, NEW p \in Requests, NEW k \in Keys, Miss(p, k)
  PROVE  TypeInv'
<1> DEFINE r == [Idle EXCEPT !.pc = "fetch", !.key = k, !.raced = BeingWritten(k)]
<1>1. StoresOK' /\ request' = [request EXCEPT ![p] = r]
  BY TypeParts DEF Miss, StoresOK
<1>2. BeingWritten(k) \in BOOLEAN
  BY DEF BeingWritten
<1>3. r \in Operations /\ r.pc = "fetch" /\ r.key = k
  BY <1>2, IdleIsOperation DEF Operations, Idle
<1>4. RequestOK(p)'
  BY <1>1, <1>3, TypeParts DEF RequestOK, Writing, Invalidating, Reading
<1> QED
  BY <1>1, <1>4, OneRequest

\* What follows an invalidation.
LEMMA GoesOn ==
  ASSUME NEW w \in Operations, w.ref \in References
  PROVE  /\ AfterInvalidation(w) \in Operations /\ AfterInvalidation(w).pc \in {"idle", "get"}
         /\ AfterInvalidation(w).pc = "get" => AfterInvalidation(w).key \in Keys
<1>1. EntryKey(w.ref) \in Keys /\ w.kept \in BOOLEAN
  BY KeyAssumption DEF Operations
<1>2. CASE w.create
  <2> DEFINE key == EntryKey(w.ref)
             u == [Idle EXCEPT !.pc = "get", !.key = key, !.kept = w.kept]
  <2>1. AfterInvalidation(w) = u
    BY <1>2 DEF AfterInvalidation
  <2>2. key \in Keys
    BY <1>1
  <2> HIDE DEF key
  <2>3. u \in Operations /\ u.pc = "get" /\ u.key = key
    BY <1>1, <2>2, IdleIsOperation DEF Operations, Idle
  <2> QED
    BY <2>1, <2>2, <2>3
<1>3. CASE ~w.create
  BY <1>3, IdleIsOperation DEF AfterInvalidation, Idle
<1> QED
  BY <1>2, <1>3

LEMMA ProceedType ==
  ASSUME TypeInv, NEW p \in Requests, Proceed(p)
  PROVE  TypeInv'
<1> DEFINE Changed(r) == request' = [request EXCEPT ![p] = r]
<1>1. StoresOK /\ RequestOK(p) /\ request \in [Requests -> Operations] /\ request[p] \in Operations
  BY TypeParts DEF RequestOK
<1>2. CASE TouchConversation(p)
  <2>1. StoresOK'
    <3>1. request[p].ref \in References
      BY <1>1, <1>2 DEF TouchConversation, RequestOK, Writing, Invalidating, At
    <3>2. store' \in [References -> [row : Nat, messages : Nat, calls : Nat]]
      BY <1>1, <1>2, <3>1, RowChanges DEF TouchConversation
    <3> QED
      BY <1>1, <1>2, <3>2 DEF TouchConversation, StoresOK
  <2>2. Changed([request[p] EXCEPT !.pc = "get_reference"])
    BY <1>2 DEF TouchConversation
  <2>3. RequestOK(p)'
    BY <1>1, <1>2, <2>2 DEF TouchConversation, At, RequestOK, Writing, Invalidating, Reading,
       Operations, Touched
  <2> QED
    BY <2>1, <2>2, <2>3, OneRequest
<1>3. CASE FindReference(p)
  <2>1. StoresOK'
    BY <1>1, <1>3 DEF FindReference, StoresOK
  <2>2. Changed([request[p] EXCEPT !.pc = "delete_entry"])
    BY <1>3 DEF FindReference
  <2>3. RequestOK(p)'
    BY <1>1, <1>3, <2>2 DEF FindReference, At, RequestOK, Writing, Invalidating, Reading,
       Operations, Touched
  <2> QED
    BY <2>1, <2>2, <2>3, OneRequest
<1>4. CASE DeleteEntry(p)
  <2>1. StoresOK'
    BY <1>1, <1>4, IdleIsOperation DEF DeleteEntry, StoresOK
  <2>2. Changed([request[p] EXCEPT !.pc = "read_index", !.index = RefIndex(request[p].ref)])
    BY <1>4 DEF DeleteEntry
  <2>3. RefIndex(request[p].ref) \in Indexes
    BY <1>1, <1>4 DEF DeleteEntry, RequestOK, Writing, Invalidating, At, Indexes
  <2>4. RequestOK(p)'
    BY <1>1, <1>4, <2>2, <2>3 DEF DeleteEntry, At, RequestOK, Writing, Invalidating, Reading,
       Operations, Touched
  <2> QED
    BY <2>1, <2>2, <2>4, OneRequest
<1>5. CASE ReadIndex(p)
  <2>1. StoresOK'
    BY <1>1, <1>5 DEF ReadIndex, StoresOK
  <2>2. Changed([request[p] EXCEPT !.pc = "delete_members", !.members = index[request[p].index]])
    BY <1>5 DEF ReadIndex
  <2>3. /\ request[p].ref \in References
        /\ request[p].index \in Indexes
        /\ request[p].index \in {RefIndex(request[p].ref), ListsIndex}
    BY <1>1, <1>5 DEF ReadIndex, At, RequestOK, Writing, Invalidating, Operations
  <2>4. index[request[p].index] \subseteq Touched(request[p].ref)
    BY <1>1, <2>3, KeyFacts DEF StoresOK
  <2>5. index[request[p].index] \subseteq Keys
    BY <1>1, <2>3 DEF StoresOK
  <2>6. RequestOK(p)'
    BY <1>1, <1>5, <2>2, <2>3, <2>4, <2>5 DEF ReadIndex, At, RequestOK, Writing, Invalidating,
       Reading, Operations, Touched
  <2> QED
    BY <2>1, <2>2, <2>6, OneRequest
<1>6. CASE DeleteMembers(p)
  <2>1. StoresOK'
    BY <1>1, <1>6, IdleIsOperation DEF DeleteMembers, StoresOK
  <2>2. Changed([request[p] EXCEPT !.pc = "delete_index", !.members = {}])
    BY <1>6 DEF DeleteMembers
  <2>3. RequestOK(p)'
    BY <1>1, <1>6, <2>2 DEF DeleteMembers, At, RequestOK, Writing, Invalidating, Reading,
       Operations, Touched
  <2> QED
    BY <2>1, <2>2, <2>3, OneRequest
<1>7. CASE DeleteIndex(p)
  <2>1. StoresOK'
    BY <1>1, <1>7 DEF DeleteIndex, StoresOK
  <2> DEFINE next == IF request[p].index = ListsIndex THEN AfterInvalidation(request[p])
                     ELSE [request[p] EXCEPT !.pc = "read_index", !.index = ListsIndex]
  <2>2. Changed(next)
    BY <1>7 DEF DeleteIndex
  <2>3. request[p].ref \in References
    BY <1>1, <1>7 DEF DeleteIndex, At, RequestOK, Writing, Invalidating
  <2>4. CASE request[p].index = ListsIndex
    <3>1. /\ next \in Operations /\ next.pc \in {"idle", "get"}
          /\ next.pc = "get" => next.key \in Keys
      BY <1>1, <2>3, <2>4, GoesOn DEF RequestOK
    <3> QED
      BY <1>1, <2>1, <2>2, <3>1, OneRequest DEF RequestOK, Writing, Invalidating, Reading
  <2>5. CASE request[p].index # ListsIndex
    <3>1. next = [request[p] EXCEPT !.pc = "read_index", !.index = ListsIndex]
      BY <2>5
    <3>2. ListsIndex \in Indexes
      BY DEF Indexes
    <3>3. /\ next \in Operations /\ next.pc = "read_index" /\ next.index = ListsIndex
          /\ next.ref = request[p].ref /\ next.members = request[p].members
      BY <1>1, <3>1, <3>2 DEF Operations
    <3>4. request[p].members \subseteq Touched(request[p].ref)
      BY <1>1, <1>7 DEF DeleteIndex, At, RequestOK, Writing, Invalidating
    <3>5. request'[p] = next
      BY <1>1, <2>2
    <3> HIDE DEF next
    <3>6. RequestOK(p)'
      BY <2>3, <3>3, <3>4, <3>5 DEF RequestOK, Writing, Invalidating, Reading, Touched
    <3> QED
      BY <2>1, <2>2, <3>6, OneRequest
  <2> QED
    BY <2>4, <2>5
<1>8. CASE HitAfterCreate(p)
  <2>1. StoresOK' /\ Changed(Idle)
    BY <1>1, <1>8 DEF HitAfterCreate, StoresOK
  <2>2. RequestOK(p)'
    BY <1>1, <2>1, IdleIsOperation DEF RequestOK, Writing, Invalidating, Reading, Idle
  <2> QED
    BY <2>1, <2>2, OneRequest
<1>9. CASE At(p, "get") /\ Miss(p, request[p].key)
  BY <1>1, <1>9, MissType DEF RequestOK, Reading, At
<1>10. CASE Fetch(p)
  <2>1. StoresOK' /\ Changed([request[p] EXCEPT !.pc = "set", !.value = View(request[p].key)])
    BY <1>1, <1>10 DEF Fetch, StoresOK
  <2>2. View(request[p].key) \in Values
    BY ViewIsValue DEF TypeInv
  <2>3. RequestOK(p)'
    BY <1>1, <1>10, <2>1, <2>2 DEF Fetch, At, RequestOK, Writing, Invalidating, Reading, Operations
  <2> QED
    BY <2>1, <2>3, OneRequest
<1>11. CASE Set(p)
  <2>1. Changed(AfterSet(request[p]))
    BY <1>11 DEF Set
  <2>2. Held(request[p], TRUE) \in Entries
    BY <1>1 DEF Held, Entries, Operations
  <2>3. StoresOK'
    BY <1>1, <1>11, <2>2 DEF Set, StoresOK
  <2>4. RequestOK(p)'
    <3>1. CASE AfterSet(request[p]) = Idle
      BY <1>1, <2>1, <3>1, IdleIsOperation DEF RequestOK, Writing, Invalidating, Reading, Idle
    <3>2. CASE AfterSet(request[p]) = [request[p] EXCEPT !.pc = "index"]
      BY <1>1, <1>11, <2>1, <3>2 DEF Set, At, RequestOK, Writing, Invalidating, Reading, Operations
    <3> QED
      BY <3>1, <3>2 DEF AfterSet
  <2> QED
    BY <2>1, <2>3, <2>4, OneRequest
<1>12. CASE Index(p)
  <2> DEFINE k == request[p].key
  <2>1. k \in Keys
    BY <1>1, <1>12 DEF Index, At, RequestOK, Reading
  <2>2. index' = [index EXCEPT ![IndexOf(k)] = @ \cup {k}] /\ Changed(Idle)
    BY <1>12 DEF Index
  <2>3. StoresOK'
    <3>1. index \in [Indexes -> SUBSET Keys] /\ \A i \in Indexes : \A x \in index[i] : IndexOf(x) = i
      BY <1>1 DEF StoresOK
    <3>2. \A i \in Indexes : index'[i] = IF i = IndexOf(k) THEN index[i] \cup {k} ELSE index[i]
      BY <2>2, <3>1
    <3>3. index' \in [Indexes -> SUBSET Keys]
      BY <2>1, <2>2, <3>1
    <3>4. \A i \in Indexes : \A x \in index'[i] : IndexOf(x) = i
      BY <3>1, <3>2
    <3> HIDE DEF k
    <3> QED
      BY <1>1, <1>12, <3>3, <3>4 DEF Index, StoresOK
  <2>4. RequestOK(p)'
    BY <1>1, <2>2, IdleIsOperation DEF RequestOK, Writing, Invalidating, Reading, Idle
  <2> QED
    BY <2>2, <2>3, <2>4, OneRequest
<1> QED
  BY <1>2, <1>3, <1>4, <1>5, <1>6, <1>7, <1>8, <1>9, <1>10, <1>11, <1>12 DEF Proceed

\* A request that stops, or goes on to read.
LEMMA StopsType ==
  ASSUME TypeInv, NEW p \in Requests, NEW r \in Operations, r.pc \in {"idle", "get"},
         r.pc = "get" => r.key \in Keys,
         request' = [request EXCEPT ![p] = r], LeaveInDoubt(p),
         UNCHANGED <<store, index, writes>>, faults < MaxFaults, faults' = faults + 1
  PROVE  TypeInv'
<1>1. cache' \in [Keys -> Entries]
  BY TypeParts, DoubtedIsEntry DEF StoresOK, LeaveInDoubt
<1>2. StoresOK'
  BY <1>1, TypeParts, CacheAssumption DEF StoresOK
<1>3. RequestOK(p)'
  BY TypeParts DEF RequestOK, Writing, Invalidating, Reading
<1> QED
  BY <1>2, <1>3, OneRequest

LEMMA RaisedIsOperation ==
  ASSUME TypeInv, NEW p \in Requests, InvalidationRaises(p)
  PROVE  LET w == [request[p] EXCEPT !.kept = At(p, "delete_entry")]
         IN w \in Operations /\ w.ref \in References
<1> DEFINE kept == At(p, "delete_entry")
<1>1. kept \in BOOLEAN
  BY DEF At
<1>2. request[p] \in Operations /\ request[p].ref \in References
  BY TypeParts DEF InvalidationRaises, Writing, RequestOK
<1> HIDE DEF kept
<1>3. /\ [request[p] EXCEPT !.kept = kept] \in Operations
      /\ [request[p] EXCEPT !.kept = kept].ref \in References
  BY <1>1, <1>2 DEF Operations
<1> QED
  BY <1>3 DEF kept

LEMMA RaisesType ==
  ASSUME TypeInv, NEW p \in Requests, InvalidationRaises(p)
  PROVE  TypeInv'
<1> DEFINE w == [request[p] EXCEPT !.kept = At(p, "delete_entry")]
           r == AfterInvalidation(w)
<1>1. w \in Operations /\ w.ref \in References
  BY RaisedIsOperation
<1>2. r \in Operations /\ r.pc \in {"idle", "get"} /\ (r.pc = "get" => r.key \in Keys)
  BY <1>1, GoesOn
<1>3. request' = [request EXCEPT ![p] = r]
  BY DEF InvalidationRaises
<1> HIDE DEF r
<1> QED
  BY <1>2, <1>3, StopsType DEF InvalidationRaises

LEMMA BreaksType ==
  ASSUME TypeInv, NEW p \in Requests, Breaks(p)
  PROVE  TypeInv'
<1>1. Idle.pc = "idle"
  BY DEF Idle
<1> QED
  BY <1>1, IdleIsOperation, StopsType DEF Breaks

LEMMA ExpireType ==
  ASSUME TypeInv, NEW k \in Keys, Expire(k)
  PROVE  TypeInv'
BY NoRequest, TypeParts, IdleIsOperation DEF StoresOK, Expire

LEMMA TypeInit ==
  ASSUME Init
  PROVE  TypeInv
<1>1. /\ store \in [References -> [row : Nat, messages : Nat, calls : Nat]]
      /\ cache \in [Keys -> Entries] /\ index \in [Indexes -> SUBSET Keys]
      /\ request \in [Requests -> Operations]
  BY CacheAssumption, IdleIsOperation DEF Init
<1>2. writes \in 0..MaxWrites /\ faults \in 0..MaxFaults
  BY CacheAssumption DEF Init
<1>3. \A p \in Requests : ~Writing(p) /\ ~Reading(p)
  BY DEF Init, Idle, Writing, Invalidating, Reading
<1> QED
  BY <1>1, <1>2, <1>3 DEF TypeInv, TypeOK, Init

LEMMA TypeNext ==
  ASSUME TypeInv, [Next]_vars
  PROVE  TypeInv'
<1>1. CASE UNCHANGED vars
  BY <1>1 DEF vars, TypeInv, TypeOK, Reading, Writing, Invalidating
<1>2. ASSUME NEW p \in Requests, Step(p)
      PROVE  TypeInv'
  <2>1. ASSUME NEW k \in Keys, Hit(p, k)
        PROVE  TypeInv'
    BY <1>1, <2>1 DEF Hit
  <2> QED
    BY <1>2, <2>1, WriteType, MissType, ProceedType, RaisesType, BreaksType DEF Step
<1>3. ASSUME NEW k \in Keys, Expire(k)
      PROVE  TypeInv'
  BY <1>3, ExpireType
<1> QED
  BY <1>1, <1>2, <1>3 DEF Next

\* The control points are the code's, and an invalidation clears keys of its
\* own journal only (_invalidate_for_reference).
THEOREM TypeCorrect == Spec => []TypeOK
<1>1. Init => TypeInv
  BY TypeInit
<1>2. TypeInv /\ [Next]_vars => TypeInv'
  BY TypeNext
<1>3. TypeInv => TypeOK
  BY DEF TypeInv
<1> QED
  BY <1>1, <1>2, <1>3, PTL DEF Spec
-----------------------------------------------------------------------------
(* What the steps of a request p do to keys and to the other requests.     *)

\* The others stay as they are, but may be told that a write overlapped them.
OthersStay(p) ==
  \A q \in Requests \ {p} :
    /\ request'[q].pc = request[q].pc /\ request'[q].ref = request[q].ref
    /\ request'[q].index = request[q].index /\ request'[q].members = request[q].members
    /\ request'[q].key = request[q].key /\ request'[q].value = request[q].value
    /\ ~request'[q].raced => ~request[q].raced

\* Nothing begins to be written under an undisturbed reader.
ReadersAreTold(p) ==
  \A q \in Requests \ {p} :
    (At(q, "fetch") \/ At(q, "set")) /\ ~request'[q].raced /\ BeingWritten(request[q].key)' =>
      BeingWritten(request[q].key)

\* p clears, or has cleared, what it writes.
Clears(p) ==
  \A k \in Keys : Writing(p)' /\ k \in Touched(request'[p].ref) /\ Sure(k)' =>
    Pending(p, k)' /\ (Marker(k)' \/ Listed(k)')

Finishes(p) ==
  \A k \in Keys : Writing(p) /\ k \in Touched(request[p].ref) /\ Sure(k)' =>
    Writing(p)' /\ k \in Touched(request'[p].ref)

HandsOver(p) ==
  \A k \in Keys : IsIndexing(p, k) /\ Sure(k)' => IsIndexing(p, k)' \/ Listed(k)'

StaysListed == \A k \in Keys : Sure(k)' /\ Listed(k) => Listed(k)'

\* What is newly held is what the store answers.
HoldsFresh(p) ==
  \A k \in Keys : Sure(k)' =>
    \/ Sure(k) /\ cache'[k].value = cache[k].value
    \/ ~BeingWritten(k)' /\ cache'[k].value = View(k)' /\ (Marker(k)' \/ IsIndexing(p, k)')

\* The store changes only what is being written.
ShowsWrites == \A k \in Keys : ~BeingWritten(k)' => View(k)' = View(k)

ReadsFresh(p) ==
  (At(p, "fetch") \/ At(p, "set"))' /\ ~request'[p].raced =>
    /\ ~BeingWritten(request[p].key)'
    /\ At(p, "set")' => request'[p].value = View(request[p].key)'

LEMMA CacheInvKept ==
  ASSUME TypeInv, TypeInv', CacheInv, NEW p \in Requests,
         OthersStay(p), ReadersAreTold(p), Clears(p), Finishes(p), HandsOver(p),
         StaysListed, HoldsFresh(p), ShowsWrites, ReadsFresh(p)
  PROVE  CacheInv'
<1>1. ASSUME NEW k \in Keys, BeingWritten(k), Sure(k)'
      PROVE  BeingWritten(k)'
  <2>1. PICK q \in Requests : Writing(q) /\ k \in Touched(request[q].ref)
    BY <1>1 DEF BeingWritten
  <2>2. CASE q = p
    BY <1>1, <2>1, <2>2 DEF Finishes, BeingWritten, Touched
  <2>3. CASE q # p
    BY <2>1, <2>3 DEF OthersStay, BeingWritten, Writing, Invalidating, Touched
  <2> QED
    BY <2>2, <2>3
<1>2. WritesClear'
  <2>1. ASSUME NEW q \in Requests, NEW k \in Keys, q # p,
               Writing(q)', k \in Touched(request'[q].ref), Sure(k)'
        PROVE  Pending(q, k)' /\ (Marker(k)' \/ Listed(k)')
    <3>1. Writing(q) /\ k \in Touched(request[q].ref)
      BY <2>1 DEF OthersStay, Writing, Invalidating
    <3>2. BeingWritten(k)'
      BY <2>1 DEF BeingWritten, Touched
    <3>3. Sure(k) /\ cache'[k].value = cache[k].value
      BY <2>1, <3>2 DEF HoldsFresh
    <3>4. Pending(q, k) /\ (Marker(k) \/ Listed(k))
      BY <3>1, <3>3 DEF CacheInv, WritesClear
    <3>5. Pending(q, k)'
      BY <2>1, <3>4 DEF OthersStay, Pending
    <3>6. Marker(k)' \/ Listed(k)'
      BY <2>1, <3>3, <3>4 DEF Marker, StaysListed
    <3> QED
      BY <3>5, <3>6
  <2> QED
    BY <2>1 DEF Clears, WritesClear, Touched
<1>3. ListedSoon'
  <2>1. ASSUME NEW k \in Keys, Sure(k)', Sure(k), cache'[k].value = cache[k].value
        PROVE  Marker(k)' \/ Listed(k)' \/ \E q \in Requests : IsIndexing(q, k)'
    <3>1. CASE Marker(k)
      BY <2>1, <3>1 DEF Marker
    <3>2. CASE Listed(k)
      BY <2>1, <3>2 DEF StaysListed
    <3>3. ASSUME NEW q \in Requests, IsIndexing(q, k), q # p
          PROVE  IsIndexing(q, k)'
      BY <3>3 DEF OthersStay, IsIndexing, At
    <3>4. CASE IsIndexing(p, k)
      BY <2>1, <3>4 DEF HandsOver
    <3> QED
      BY <2>1, <3>1, <3>2, <3>3, <3>4 DEF CacheInv, ListedSoon
  <2> QED
    BY <2>1 DEF HoldsFresh, ListedSoon
<1>4. ReadsAreFresh'
  <2>1. ASSUME NEW q \in Requests, q # p, (At(q, "fetch") \/ At(q, "set"))', ~request'[q].raced
        PROVE  /\ ~BeingWritten(request[q].key)'
               /\ At(q, "set")' => request'[q].value = View(request[q].key)'
    <3>1. /\ At(q, "fetch") \/ At(q, "set")
          /\ At(q, "set")' => At(q, "set")
          /\ ~request[q].raced
          /\ request'[q].key = request[q].key /\ request'[q].value = request[q].value
      BY <2>1 DEF OthersStay, At
    <3>2. ~BeingWritten(request[q].key) /\ (At(q, "set") => request[q].value = View(request[q].key))
      BY <3>1 DEF CacheInv, ReadsAreFresh
    <3>3. ~BeingWritten(request[q].key)'
      BY <2>1, <3>1, <3>2 DEF ReadersAreTold
    <3>4. request[q].key \in Keys
      BY <3>1 DEF TypeInv, Reading, At
    <3>5. ASSUME NEW k \in Keys, k = request[q].key
          PROVE  View(request[q].key)' = View(request[q].key)
      <4>1. ~BeingWritten(k)'
        BY <3>1, <3>3, <3>5 DEF BeingWritten, Touched
      <4>2. View(k)' = View(k)
        BY <4>1 DEF ShowsWrites
      <4>3. View(request[q].key)' = View(k)'
        BY <3>1, <3>5 DEF View
      <4> QED
        BY <3>5, <4>2, <4>3
    <3> QED
      BY <3>1, <3>2, <3>3, <3>4, <3>5
  <2> QED
    BY <2>1 DEF ReadsFresh, ReadsAreFresh
<1>5. BehindOnlyAfterTrouble'
  <2>1. ASSUME NEW k \in Keys, Behind(k)', ~cache'[k].raced, ~cache'[k].doubtful,
               ~BeingWritten(k)'
        PROVE  FALSE
    <3>1. Sure(k)' /\ cache'[k].value # View(k)'
      BY <2>1 DEF Behind, Sure
    <3>2. Sure(k) /\ cache'[k].value = cache[k].value
      BY <2>1, <3>1 DEF HoldsFresh
    <3>3. View(k)' = View(k)
      BY <2>1 DEF ShowsWrites
    <3>4. Behind(k) /\ ~cache[k].raced /\ ~cache[k].doubtful
      BY <3>1, <3>2, <3>3 DEF Behind, Sure
    <3>5. BeingWritten(k)
      BY <3>4 DEF CacheInv, BehindOnlyAfterTrouble
    <3> QED
      BY <1>1, <2>1, <3>1, <3>5
  <2> QED
    BY <2>1 DEF BehindOnlyAfterTrouble
<1> QED
  BY <1>2, <1>3, <1>4, <1>5 DEF CacheInv

\* A step of p that leaves whether and what p writes.
LEMMA QuietStep ==
  ASSUME TypeInv, NEW p \in Requests, NEW r,
         request' = [request EXCEPT ![p] = r],
         Writing(p)' <=> Writing(p), Writing(p) => request'[p].ref = request[p].ref
  PROVE  /\ OthersStay(p) /\ ReadersAreTold(p) /\ Finishes(p)
         /\ \A k \in Keys : BeingWritten(k)' <=> BeingWritten(k)
<1>1. \A q \in Requests \ {p} : request'[q] = request[q]
  BY TypeParts
<1>2. \A q \in Requests : /\ Writing(q)' <=> Writing(q)
                          /\ Writing(q) => request'[q].ref = request[q].ref
  BY <1>1 DEF Writing, Invalidating
<1>3. \A k \in Keys : BeingWritten(k)' <=> BeingWritten(k)
  BY <1>2 DEF BeingWritten, Touched
<1>4. ASSUME NEW q \in Requests \ {p}, At(q, "fetch") \/ At(q, "set"),
             BeingWritten(request[q].key)'
      PROVE  BeingWritten(request[q].key)
  <2>1. request'[q] = request[q] /\ request[q].key \in Keys
    BY <1>1, <1>4 DEF TypeInv, Reading, At
  <2>2. ASSUME NEW k \in Keys, k = request[q].key
        PROVE  BeingWritten(request[q].key)
    BY <1>2, <1>4, <2>1, <2>2 DEF BeingWritten, Touched
  <2> QED
    BY <2>1, <2>2
<1>5. OthersStay(p)
  BY <1>1 DEF OthersStay
<1>6. Finishes(p)
  BY <1>2 DEF Finishes, Touched
<1> QED
  BY <1>3, <1>4, <1>5, <1>6 DEF ReadersAreTold

LEMMA StoreStays ==
  ASSUME UNCHANGED store
  PROVE  ShowsWrites
BY DEF ShowsWrites, View, Touched

\* A cache that loses keys and an index that grows hold nothing new.
LEMMA Shrinks ==
  ASSUME NEW p \in Requests,
         \A k \in Keys : Sure(k)' => Sure(k) /\ cache'[k] = cache[k]
  PROVE  HoldsFresh(p)
BY DEF HoldsFresh

LEMMA IndexStays ==
  ASSUME UNCHANGED index
  PROVE  StaysListed /\ \A k \in Keys : Listed(k)' <=> Listed(k)
BY DEF StaysListed, Listed

LEMMA SureStays ==
  ASSUME UNCHANGED cache
  PROVE  \A k \in Keys : /\ Sure(k)' => Sure(k) /\ cache'[k] = cache[k]
                         /\ Marker(k)' <=> Marker(k)
BY DEF Sure, Marker

\* Reads that find the key, miss it, or fetch the rows.
LEMMA ReadKeeps ==
  ASSUME TypeInv, TypeInv', CacheInv, NEW p \in Requests,
         \/ HitAfterCreate(p) \/ Fetch(p) \/ \E k \in Keys : Miss(p, k)
  PROVE  CacheInv'
<1>1. CASE HitAfterCreate(p)
  <2>1. request' = [request EXCEPT ![p] = Idle] /\ UNCHANGED <<store, cache, index>>
    BY <1>1 DEF HitAfterCreate
  <2>2. request'[p] = Idle /\ request[p].pc = "get"
    BY <1>1, TypeParts DEF HitAfterCreate, At
  <2>3. ~Writing(p) /\ ~Writing(p)'
    BY <2>2 DEF Writing, Invalidating, Idle
  <2>4. Clears(p) /\ HandsOver(p) /\ ReadsFresh(p)
    BY <2>2, <2>3 DEF Clears, HandsOver, ReadsFresh, IsIndexing, At, Idle
  <2>5. StaysListed /\ HoldsFresh(p)
    BY <2>1, IndexStays, SureStays, Shrinks
  <2> QED
    BY <2>1, <2>3, <2>4, <2>5, QuietStep, StoreStays, CacheInvKept
<1>2. CASE Fetch(p)
  <2> DEFINE r == [request[p] EXCEPT !.pc = "set", !.value = View(request[p].key)]
  <2>1. request' = [request EXCEPT ![p] = r] /\ UNCHANGED <<store, cache, index>>
    BY <1>2 DEF Fetch
  <2>2. /\ request[p] \in Operations /\ request[p].pc = "fetch" /\ request'[p] = r
        /\ request[p].key \in Keys
    BY <1>2, TypeParts DEF Fetch, At, RequestOK, Reading
  <2>3. /\ r.pc = "set" /\ r.value = View(request[p].key)
        /\ r.key = request[p].key /\ r.raced = request[p].raced
    BY <2>2 DEF Operations
  <2> HIDE DEF r
  <2>4. ~Writing(p) /\ ~Writing(p)'
    BY <2>2, <2>3 DEF Writing, Invalidating
  <2>5. Clears(p) /\ HandsOver(p)
    BY <2>2, <2>4 DEF Clears, HandsOver, IsIndexing, At
  <2>6. StaysListed /\ HoldsFresh(p)
    BY <2>1, IndexStays, SureStays, Shrinks
  <2>7. \A k \in Keys : BeingWritten(k)' <=> BeingWritten(k)
    BY <2>1, <2>4, QuietStep
  <2>8. ASSUME ~request'[p].raced, NEW k \in Keys, k = request[p].key
        PROVE  ~BeingWritten(request[p].key)' /\ request'[p].value = View(request[p].key)'
    <3>1. ~BeingWritten(k)
      BY <2>2, <2>3, <2>8 DEF CacheInv, ReadsAreFresh, At
    <3>2. ~BeingWritten(k)'
      BY <2>7, <3>1
    <3>3. request'[p].key = k
      BY <2>2, <2>3, <2>8
    <3>4. ~BeingWritten(request[p].key)'
      BY <3>2, <3>3 DEF BeingWritten, Touched
    <3>5. View(request[p].key)' = View(request[p].key)
      BY <2>1, <2>8, <3>3 DEF View
    <3> QED
      BY <2>2, <2>3, <3>4, <3>5
  <2>9. ReadsFresh(p)
    BY <2>2, <2>8 DEF ReadsFresh
  <2> QED
    BY <2>1, <2>4, <2>5, <2>6, <2>9, QuietStep, StoreStays, CacheInvKept
<1>3. ASSUME NEW k \in Keys, Miss(p, k)
      PROVE  CacheInv'
  <2> DEFINE r == [Idle EXCEPT !.pc = "fetch", !.key = k, !.raced = BeingWritten(k)]
  <2>1. request' = [request EXCEPT ![p] = r] /\ UNCHANGED <<store, cache, index>>
    BY <1>3 DEF Miss
  <2>2. request[p].pc \in {"idle", "get"} /\ request'[p] = r
    BY <1>3, TypeParts DEF Miss, At
  <2>3. r.pc = "fetch" /\ r.key = k /\ r.raced = BeingWritten(k)
    BY DEF Idle
  <2> HIDE DEF r
  <2>4. ~Writing(p) /\ ~Writing(p)'
    BY <2>2, <2>3 DEF Writing, Invalidating
  <2>5. Clears(p) /\ HandsOver(p)
    BY <2>2, <2>4 DEF Clears, HandsOver, IsIndexing, At
  <2>6. StaysListed /\ HoldsFresh(p)
    BY <2>1, IndexStays, SureStays, Shrinks
  <2>7. \A x \in Keys : BeingWritten(x)' <=> BeingWritten(x)
    BY <2>1, <2>4, QuietStep
  <2>8. ASSUME ~request'[p].raced
        PROVE  ~BeingWritten(request[p].key)'
    <3>1. ~BeingWritten(k)
      BY <2>2, <2>3, <2>8
    <3>2. ~BeingWritten(k)' /\ request'[p].key = k
      BY <2>2, <2>3, <2>7, <3>1
    <3> QED
      BY <3>2 DEF BeingWritten, Touched
  <2>9. ReadsFresh(p)
    BY <2>2, <2>3, <2>8 DEF ReadsFresh, At
  <2> QED
    BY <2>1, <2>4, <2>5, <2>6, <2>9, QuietStep, StoreStays, CacheInvKept
<1> QED
  BY <1>1, <1>2, <1>3

\* The cache only loses keys; what p has still to clear it will come to.
OnlyClears == \A k \in Keys : Sure(k)' => Sure(k) /\ cache'[k] = cache[k]

StaysPending(p) ==
  \A k \in Touched(request[p].ref) :
    Sure(k)' /\ Pending(p, k) /\ (Marker(k) \/ Listed(k)) => Pending(p, k)'

\* A step of a write that only goes on, or clears keys, loses nothing that is
\* still to be cleared.
LEMMA ClearingStep ==
  ASSUME TypeInv, TypeInv', CacheInv, NEW p \in Requests, NEW r \in Operations,
         request' = [request EXCEPT ![p] = r], UNCHANGED index,
         Writing(p), Writing(p)', r.ref = request[p].ref,
         ShowsWrites, OnlyClears, StaysPending(p)
  PROVE  CacheInv'
<1>1. request'[p] = r
  BY TypeParts
<1>2. ASSUME NEW k \in Keys, k \in Touched(request'[p].ref), Sure(k)'
      PROVE  Pending(p, k)' /\ (Marker(k)' \/ Listed(k)')
  <2>1. k \in Touched(request[p].ref) /\ Sure(k) /\ cache'[k] = cache[k]
    BY <1>1, <1>2 DEF OnlyClears
  <2>2. Pending(p, k) /\ (Marker(k) \/ Listed(k))
    BY <2>1 DEF CacheInv, WritesClear
  <2>3. Marker(k)' \/ Listed(k)'
    BY <2>1, <2>2 DEF Marker, Listed
  <2> QED
    BY <1>2, <2>1, <2>2, <2>3 DEF StaysPending, Touched
<1>3. Clears(p)
  BY <1>2 DEF Clears, Touched
<1>4. HandsOver(p) /\ ReadsFresh(p)
  BY DEF HandsOver, ReadsFresh, IsIndexing, At, Writing, Invalidating
<1>5. OthersStay(p) /\ ReadersAreTold(p) /\ Finishes(p)
  BY <1>1, QuietStep
<1> QED
  BY <1>3, <1>4, <1>5, IndexStays, Shrinks, CacheInvKept DEF OnlyClears

LEMMA ClearingKeeps ==
  ASSUME TypeInv, TypeInv', CacheInv, NEW p \in Requests,
         \/ TouchConversation(p) \/ FindReference(p)
         \/ DeleteEntry(p) \/ ReadIndex(p) \/ DeleteMembers(p)
  PROVE  CacheInv'
<1>1. request[p] \in Operations /\ request'[p] \in Operations
  BY DEF TypeInv, TypeOK
<1>2. CASE TouchConversation(p)
  <2> DEFINE r == [request[p] EXCEPT !.pc = "get_reference"]
  <2>1. request' = [request EXCEPT ![p] = r] /\ request[p].pc = "touch" /\ UNCHANGED <<cache, index>>
    BY <1>2 DEF TouchConversation, At
  <2>2. r \in Operations /\ r.pc = "get_reference" /\ r.ref = request[p].ref
    BY <1>1 DEF Operations
  <2>3. request'[p] = r
    BY <2>1, TypeParts
  <2> HIDE DEF r
  <2>4. Writing(p) /\ Writing(p)'
    BY <2>1, <2>2, <2>3 DEF Writing, Invalidating
  <2>5. \A k \in Keys : Pending(p, k)'
    BY <2>2, <2>3 DEF Pending
  <2>6. ASSUME NEW k \in Keys, ~BeingWritten(k)'
        PROVE  View(k)' = View(k)
    <3>1. request[p].ref \in References
      BY <2>4, TypeParts DEF RequestOK
    <3>2. k \notin Touched(request[p].ref)
      BY <2>2, <2>3, <2>4, <2>6 DEF BeingWritten, Touched
    <3>3. \A x \in References \ {request[p].ref} : store'[x] = store[x]
      BY <1>2, TypeParts DEF TouchConversation, StoresOK
    <3> QED
      BY <3>1, <3>2, <3>3, ViewStays
  <2>7. ShowsWrites
    BY <2>6 DEF ShowsWrites
  <2>8. OnlyClears /\ StaysPending(p)
    <3>1. OnlyClears
      BY <2>1, <2>5, SureStays DEF OnlyClears
    <3>2. StaysPending(p)
      BY <2>1, <2>5, SureStays DEF StaysPending, Touched
    <3> QED
      BY <3>1, <3>2
  <2> QED
    BY <2>1, <2>2, <2>4, <2>7, <2>8, ClearingStep
<1>3. CASE FindReference(p)
  <2> DEFINE r == [request[p] EXCEPT !.pc = "delete_entry"]
  <2>1. request' = [request EXCEPT ![p] = r] /\ request[p].pc = "get_reference"
        /\ UNCHANGED <<store, cache, index>>
    BY <1>3 DEF FindReference, At
  <2>2. r \in Operations /\ r.pc = "delete_entry" /\ r.ref = request[p].ref
    BY <1>1 DEF Operations
  <2>3. request'[p] = r
    BY <2>1, TypeParts
  <2> HIDE DEF r
  <2>4. Writing(p) /\ Writing(p)'
    BY <2>1, <2>2, <2>3 DEF Writing, Invalidating
  <2>5. \A k \in Keys : Pending(p, k)'
    BY <2>2, <2>3 DEF Pending
  <2>6. OnlyClears /\ StaysPending(p)
    <3>1. OnlyClears
      BY <2>1, <2>5, SureStays DEF OnlyClears
    <3>2. StaysPending(p)
      BY <2>1, <2>5, SureStays DEF StaysPending, Touched
    <3> QED
      BY <3>1, <3>2
  <2> QED
    BY <2>1, <2>2, <2>4, <2>6, StoreStays, ClearingStep
<1>4. CASE DeleteEntry(p)
  <2> DEFINE r == [request[p] EXCEPT !.pc = "read_index", !.index = RefIndex(request[p].ref)]
  <2>1. request' = [request EXCEPT ![p] = r] /\ request[p].pc = "delete_entry"
        /\ UNCHANGED <<store, index>>
    BY <1>4 DEF DeleteEntry, At
  <2>2. request'[p] = r
    BY <2>1, TypeParts
  <2>3. r \in Operations /\ r.pc = "read_index" /\ r.ref = request[p].ref
        /\ r.index = RefIndex(request[p].ref)
    BY <1>1, <2>2 DEF Operations
  <2> HIDE DEF r
  <2>4. Writing(p) /\ Writing(p)'
    BY <2>1, <2>2, <2>3 DEF Writing, Invalidating
  <2>5. \A k \in Keys : Sure(k)' => /\ Sure(k) /\ cache'[k] = cache[k]
                                    /\ k # EntryKey(request[p].ref)
    BY <1>4 DEF DeleteEntry, Sure, Absent
  <2>6. request[p].ref \in References
    BY <2>4, TypeParts DEF RequestOK
  <2>7. \A k \in Keys : Sure(k)' => Pending(p, k)'
    BY <2>2, <2>3, <2>5, <2>6, KeyFacts DEF Pending, EntryKey
  <2>8. OnlyClears /\ StaysPending(p)
    <3>1. OnlyClears
      BY <2>5, <2>7 DEF OnlyClears
    <3>2. StaysPending(p)
      BY <2>5, <2>7 DEF StaysPending, Touched
    <3> QED
      BY <3>1, <3>2
  <2> QED
    BY <2>1, <2>3, <2>4, <2>8, StoreStays, ClearingStep
<1>5. CASE ReadIndex(p)
  <2> DEFINE r == [request[p] EXCEPT !.pc = "delete_members", !.members = index[request[p].index]]
  <2>1. request' = [request EXCEPT ![p] = r] /\ request[p].pc = "read_index"
        /\ UNCHANGED <<store, cache, index>>
    BY <1>5 DEF ReadIndex, At
  <2>2. request'[p] = r
    BY <2>1, TypeParts
  <2>3. r \in Operations /\ r.pc = "delete_members" /\ r.ref = request[p].ref
        /\ r.index = request[p].index /\ r.members = index[request[p].index]
    BY <1>1, <2>2 DEF Operations
  <2> HIDE DEF r
  <2>4. Writing(p) /\ Writing(p)'
    BY <2>1, <2>2, <2>3 DEF Writing, Invalidating
  <2>5. request[p].ref \in References
    BY <2>4, TypeParts DEF RequestOK
  <2>6. ASSUME NEW k \in Keys, k \in Touched(request[p].ref),
               Pending(p, k), Marker(k) \/ Listed(k)
        PROVE  Pending(p, k)'
    <3>1. /\ k # EntryKey(request[p].ref)
          /\ request[p].index = ListsIndex => IndexOf(k) = ListsIndex
      BY <2>1, <2>6 DEF Pending
    <3>2. Listed(k)
      BY <2>5, <2>6, <3>1, KeyFacts DEF Marker
    <3> QED
      BY <2>2, <2>3, <3>1, <3>2 DEF Pending, Listed, EntryKey
  <2>7. OnlyClears /\ StaysPending(p)
    <3>1. OnlyClears
      BY <2>1, <2>6, SureStays DEF OnlyClears
    <3>2. StaysPending(p)
      BY <2>1, <2>6, SureStays DEF StaysPending, Touched
    <3> QED
      BY <3>1, <3>2
  <2> QED
    BY <2>1, <2>3, <2>4, <2>7, StoreStays, ClearingStep
<1>6. CASE DeleteMembers(p)
  <2> DEFINE r == [request[p] EXCEPT !.pc = "delete_index", !.members = {}]
  <2>1. request' = [request EXCEPT ![p] = r] /\ request[p].pc = "delete_members"
        /\ UNCHANGED <<store, index>>
    BY <1>6 DEF DeleteMembers, At
  <2>2. request'[p] = r
    BY <2>1, TypeParts
  <2>3. r \in Operations /\ r.pc = "delete_index" /\ r.ref = request[p].ref
        /\ r.index = request[p].index
    BY <1>1, <2>2 DEF Operations
  <2> HIDE DEF r
  <2>4. Writing(p) /\ Writing(p)'
    BY <2>1, <2>2, <2>3 DEF Writing, Invalidating
  <2>5. \A k \in Keys : Sure(k)' => /\ Sure(k) /\ cache'[k] = cache[k]
                                    /\ k \notin request[p].members
    BY <1>6 DEF DeleteMembers, Sure, Absent
  <2>6. \A k \in Keys : Sure(k)' /\ Pending(p, k) => Pending(p, k)'
    BY <2>1, <2>2, <2>3, <2>5 DEF Pending, EntryKey
  <2>7. OnlyClears /\ StaysPending(p)
    <3>1. OnlyClears
      BY <2>5, <2>6 DEF OnlyClears
    <3>2. StaysPending(p)
      BY <2>5, <2>6 DEF StaysPending, Touched
    <3> QED
      BY <3>1, <3>2
  <2> QED
    BY <2>1, <2>3, <2>4, <2>7, StoreStays, ClearingStep
<1> QED
  BY <1>2, <1>3, <1>4, <1>5, <1>6

\* A step after which p writes nothing.
LEMMA StopsStep ==
  ASSUME TypeInv, NEW p \in Requests, NEW r, request' = [request EXCEPT ![p] = r], ~Writing(p)'
  PROVE  OthersStay(p) /\ ReadersAreTold(p)
<1>1. \A q \in Requests \ {p} : request'[q] = request[q]
  BY TypeParts
<1>2. ASSUME NEW q \in Requests \ {p}, At(q, "fetch") \/ At(q, "set"),
             BeingWritten(request[q].key)'
      PROVE  BeingWritten(request[q].key)
  <2>1. request'[q] = request[q] /\ request[q].key \in Keys
    BY <1>1, <1>2 DEF TypeInv, Reading, At
  <2>2. ASSUME NEW k \in Keys, k = request[q].key
        PROVE  BeingWritten(request[q].key)
    BY <1>1, <1>2, <2>1, <2>2 DEF BeingWritten, Writing, Invalidating, Touched
  <2> QED
    BY <2>1, <2>2
<1> QED
  BY <1>1, <1>2 DEF OthersStay, ReadersAreTold

\* The deletion of an index: what was listed there has been cleared.
LEMMA DeleteIndexKeeps ==
  ASSUME TypeInv, TypeInv', CacheInv, NEW p \in Requests, DeleteIndex(p)
  PROVE  CacheInv'
<1> DEFINE r == IF request[p].index = ListsIndex THEN AfterInvalidation(request[p])
                ELSE [request[p] EXCEPT !.pc = "read_index", !.index = ListsIndex]
<1>1. request' = [request EXCEPT ![p] = r] /\ UNCHANGED <<store, cache>>
  BY DEF DeleteIndex
<1>2. /\ request'[p] = r /\ request[p] \in Operations /\ request[p].pc = "delete_index"
      /\ request[p].ref \in References
      /\ request[p].index \in {ListsIndex, RefIndex(request[p].ref)}
  BY <1>1, TypeParts DEF DeleteIndex, At, RequestOK, Writing, Invalidating
<1>3. Writing(p)
  BY <1>2 DEF Writing, Invalidating
<1>4. ASSUME NEW k \in Keys, k \in Touched(request[p].ref), Sure(k)
      PROVE  /\ request[p].index # ListsIndex /\ IndexOf(k) = ListsIndex
             /\ k # EntryKey(request[p].ref) /\ (Marker(k) \/ Listed(k))
  <2>1. Pending(p, k) /\ (Marker(k) \/ Listed(k))
    BY <1>3, <1>4 DEF CacheInv, WritesClear
  <2>2. /\ k # EntryKey(request[p].ref) /\ request[p].index # IndexOf(k)
        /\ request[p].index = ListsIndex => IndexOf(k) = ListsIndex
    BY <1>2, <2>1 DEF Pending
  <2> QED
    BY <1>2, <1>4, <2>1, <2>2, KeyFacts
<1>5. \A k \in Keys : Sure(k)' => /\ Sure(k) /\ cache'[k] = cache[k]
                                  /\ Marker(k)' <=> Marker(k)
  BY <1>1, SureStays
<1>6. ASSUME NEW k \in Keys, Sure(k), Listed(k)
      PROVE  Listed(k)'
  <2>1. IndexOf(k) \in Indexes
    BY <1>2, KeyFacts
  <2>2. IndexOf(k) # request[p].index
    BY <1>2, <1>4, <1>6, KeyFacts
  <2>3. index'[IndexOf(k)] = index[IndexOf(k)]
    BY <2>1, <2>2, TypeParts DEF DeleteIndex, StoresOK
  <2> QED
    BY <1>6, <2>3 DEF Listed
<1>7. StaysListed /\ HoldsFresh(p)
  BY <1>5, <1>6, Shrinks DEF StaysListed
<1>8. HandsOver(p)
  BY <1>2 DEF HandsOver, IsIndexing, At
<1>9. CASE request[p].index = ListsIndex
  <2>1. r.pc \in {"idle", "get"}
    BY <1>9 DEF AfterInvalidation, Idle
  <2> HIDE DEF r
  <2>2. ~Writing(p)'
    BY <1>2, <2>1 DEF Writing, Invalidating
  <2>3. Finishes(p) /\ Clears(p) /\ ReadsFresh(p)
    BY <1>2, <1>4, <1>5, <1>9, <2>1, <2>2 DEF Finishes, Clears, ReadsFresh, At
  <2>4. OthersStay(p) /\ ReadersAreTold(p)
    BY <1>1, <2>2, StopsStep
  <2> QED
    BY <1>1, <1>7, <1>8, <2>3, <2>4, StoreStays, CacheInvKept
<1>10. CASE request[p].index # ListsIndex
  <2>1. r.pc = "read_index" /\ r.index = ListsIndex /\ r.ref = request[p].ref
    BY <1>2, <1>10 DEF Operations
  <2> HIDE DEF r
  <2>2. Writing(p)'
    BY <1>2, <2>1 DEF Writing, Invalidating
  <2>3. ReadsFresh(p)
    BY <1>2, <2>1 DEF ReadsFresh, At
  <2>4. ASSUME NEW k \in Keys, k \in Touched(request'[p].ref), Sure(k)'
        PROVE  Pending(p, k)' /\ (Marker(k)' \/ Listed(k)')
    <3>1. k \in Touched(request[p].ref) /\ Sure(k)
      BY <1>2, <1>5, <2>1, <2>4
    <3>2. /\ IndexOf(k) = ListsIndex /\ k # EntryKey(request[p].ref)
          /\ Marker(k) \/ Listed(k)
      BY <1>4, <3>1
    <3>3. Marker(k)' \/ Listed(k)'
      BY <1>5, <1>6, <2>4, <3>1, <3>2
    <3>4. Pending(p, k)'
      BY <1>2, <2>1, <3>2 DEF Pending, EntryKey
    <3> QED
      BY <3>3, <3>4
  <2>5. Clears(p)
    BY <2>4 DEF Clears, Touched
  <2>6. OthersStay(p) /\ ReadersAreTold(p) /\ Finishes(p)
    BY <1>1, <1>2, <1>3, <2>1, <2>2, QuietStep
  <2> QED
    BY <1>1, <1>7, <1>8, <2>3, <2>5, <2>6, StoreStays, CacheInvKept
<1> QED
  BY <1>9, <1>10

\* A value is set only where no write came in between, and listed next.
LEMMA SetKeeps ==
  ASSUME TypeInv, TypeInv', CacheInv, NEW p \in Requests, Set(p)
  PROVE  CacheInv'
<1> DEFINE r == AfterSet(request[p])
           key == request[p].key
<1>1. /\ request' = [request EXCEPT ![p] = r] /\ UNCHANGED <<store, index>>
      /\ cache' = [cache EXCEPT ![key] = Held(request[p], TRUE)]
  BY DEF Set
<1>2. request[p] \in Operations /\ request[p].pc = "set" /\ request'[p] = r /\ key \in Keys
  BY <1>1, TypeParts DEF Set, At, RequestOK, Reading
<1>3. \/ r = Idle /\ key[1] = "entry" /\ request[p].value = Nothing
      \/ r.pc = "index" /\ r.key = key
  BY <1>2 DEF AfterSet, Operations
<1>4. r.pc \in {"idle", "index"}
  BY <1>3 DEF Idle
<1>5. \A k \in Keys : cache'[k] = IF k = key THEN Held(request[p], TRUE) ELSE cache[k]
  BY <1>1, TypeParts DEF StoresOK
<1> HIDE DEF r, key
<1>6. ~Writing(p) /\ ~Writing(p)'
  BY <1>2, <1>4 DEF Writing, Invalidating
<1>7. \A k \in Keys : BeingWritten(k)' <=> BeingWritten(k)
  BY <1>1, <1>6, QuietStep
<1>8. ASSUME NEW k \in Keys, k = key, Sure(k)'
      PROVE  ~BeingWritten(k)' /\ cache'[k].value = View(k)' /\ (Marker(k)' \/ IsIndexing(p, k)')
  <2>1. cache'[k].value = request[p].value /\ ~request[p].raced
    BY <1>5, <1>8 DEF Sure, Held
  <2>2. ~BeingWritten(key) /\ request[p].value = View(key)
    BY <1>2, <2>1 DEF CacheInv, ReadsAreFresh, At, key
  <2>3. ~BeingWritten(k)'
    BY <1>7, <1>8, <2>2
  <2>4. View(k)' = View(k)
    BY <1>1, StoreStays, <2>3 DEF ShowsWrites
  <2>5. Marker(k)' \/ IsIndexing(p, k)'
    BY <1>2, <1>3, <1>8, <2>1 DEF Marker, IsIndexing, At
  <2> QED
    BY <1>8, <2>1, <2>2, <2>3, <2>4, <2>5
<1>9. ASSUME NEW k \in Keys, k # key, Sure(k)'
      PROVE  Sure(k) /\ cache'[k].value = cache[k].value
  BY <1>5, <1>9 DEF Sure
<1>10. HoldsFresh(p)
  BY <1>8, <1>9 DEF HoldsFresh
<1>11. Clears(p) /\ HandsOver(p) /\ ReadsFresh(p)
  BY <1>2, <1>4, <1>6 DEF Clears, HandsOver, ReadsFresh, IsIndexing, At
<1> QED
  BY <1>1, <1>6, <1>10, <1>11, QuietStep, StoreStays, IndexStays, CacheInvKept

LEMMA IndexKeeps ==
  ASSUME TypeInv, TypeInv', CacheInv, NEW p \in Requests, Index(p)
  PROVE  CacheInv'
<1> DEFINE key == request[p].key
<1>1. /\ request' = [request EXCEPT ![p] = Idle] /\ UNCHANGED <<store, cache>>
      /\ index' = [index EXCEPT ![IndexOf(key)] = @ \cup {key}]
  BY DEF Index
<1>2. request[p].pc = "index" /\ request'[p] = Idle
  BY <1>1, TypeParts DEF Index, At
<1>3. ~Writing(p) /\ ~Writing(p)'
  BY <1>2 DEF Writing, Invalidating, Idle
<1>4. Clears(p) /\ ReadsFresh(p)
  BY <1>2, <1>3 DEF Clears, ReadsFresh, At, Idle
<1>5. HoldsFresh(p)
  BY <1>1, SureStays, Shrinks
<1>6. index \in [Indexes -> SUBSET Keys]
  BY TypeParts DEF StoresOK
<1>7. StaysListed
  BY <1>1, <1>6 DEF StaysListed, Listed
<1>8. ASSUME NEW k \in Keys, IsIndexing(p, k)
      PROVE  Listed(k)'
  <2>1. k = key
    BY <1>8 DEF IsIndexing
  <2>2. IndexOf(k) \in Indexes
    <3>1. k = ListKey \/ k \in {"entry", "messages"} \X References
      BY KeyAssumption DEF AllKeys
    <3>2. k # ListKey => k[2] \in References
      BY <3>1
    <3> QED
      BY <3>2 DEF IndexOf, Indexes
  <2> HIDE DEF key
  <2> QED
    BY <1>1, <1>6, <2>1, <2>2 DEF Listed
<1>9. HandsOver(p)
  BY <1>8 DEF HandsOver
<1> QED
  BY <1>1, <1>3, <1>4, <1>5, <1>7, <1>9, QuietStep, StoreStays, CacheInvKept

\* A request that stops, or goes on to read, leaves in doubt what it leaves undone.
LEMMA StopsKeeps ==
  ASSUME TypeInv, TypeInv', CacheInv, NEW p \in Requests, NEW r \in Operations,
         r.pc \in {"idle", "get"}, request' = [request EXCEPT ![p] = r],
         LeaveInDoubt(p), UNCHANGED <<store, index>>
  PROVE  CacheInv'
<1>1. request'[p] = r
  BY TypeParts
<1>2. ~Writing(p)'
  BY <1>1 DEF Writing, Invalidating
<1>3. ASSUME NEW k \in Keys, Sure(k)'
      PROVE  /\ Sure(k) /\ cache'[k] = cache[k]
             /\ ~(Writing(p) /\ k \in Touched(request[p].ref)) /\ ~IsIndexing(p, k)
  <2>1. cache[k] \in Entries
    BY TypeParts DEF StoresOK
  <2>2. ~(Doubted(cache[k]).held /\ ~Doubted(cache[k]).doubtful)
    BY <2>1 DEF Doubted, Entries
  <2>3. cache'[k] = IF \/ Writing(p) /\ k \in Touched(request[p].ref)
                       \/ At(p, "index") /\ k = request[p].key
                    THEN Doubted(cache[k]) ELSE cache[k]
    BY DEF LeaveInDoubt
  <2> QED
    BY <1>3, <2>2, <2>3 DEF Sure, IsIndexing
<1>4. HoldsFresh(p)
  BY <1>3, Shrinks
<1>5. Finishes(p) /\ HandsOver(p)
  BY <1>3 DEF Finishes, HandsOver
<1>6. Clears(p) /\ ReadsFresh(p)
  BY <1>1, <1>2 DEF Clears, ReadsFresh, At
<1> QED
  BY <1>2, <1>4, <1>5, <1>6, StopsStep, StoreStays, IndexStays, CacheInvKept

LEMMA RaisesKeeps ==
  ASSUME TypeInv, TypeInv', CacheInv, NEW p \in Requests, InvalidationRaises(p)
  PROVE  CacheInv'
<1> DEFINE w == [request[p] EXCEPT !.kept = At(p, "delete_entry")]
           r == AfterInvalidation(w)
<1>1. r \in Operations /\ r.pc \in {"idle", "get"}
  BY RaisedIsOperation, GoesOn
<1>2. request' = [request EXCEPT ![p] = r]
  BY DEF InvalidationRaises
<1> HIDE DEF r
<1> QED
  BY <1>1, <1>2, StopsKeeps DEF InvalidationRaises

LEMMA BreaksKeeps ==
  ASSUME TypeInv, TypeInv', CacheInv, NEW p \in Requests, Breaks(p)
  PROVE  CacheInv'
<1>1. Idle.pc = "idle"
  BY DEF Idle
<1> QED
  BY <1>1, IdleIsOperation, StopsKeeps DEF Breaks

\* A write that begins tells the reads under way, and leaves in doubt the key
\* that is held and not listed yet.
LEMMA BeginWriteKeeps ==
  ASSUME TypeInv, TypeInv', CacheInv,
         NEW p \in Requests, NEW ref \in References, NEW r \in Operations,
         r.pc \in {"touch", "get_reference", "delete_entry"},
         \A x \in References \ {ref} : store'[x] = store[x],
         BeginWrite(p, ref, r)
  PROVE  CacheInv'
<1> DEFINE w == [r EXCEPT !.ref = ref]
           told(q) == request[q].pc \in {"fetch", "set"} /\ request[q].key \in Touched(ref)
<1>1. \A q \in Requests : request'[q] =
        IF q = p THEN w
        ELSE IF told(q) THEN [request[q] EXCEPT !.raced = TRUE] ELSE request[q]
  BY DEF BeginWrite, Disturbed
<1>2. request[p].pc = "idle" /\ request'[p] = w /\ w.pc = r.pc /\ w.ref = ref
  BY <1>1 DEF BeginWrite, At, Operations
<1>3. ~Writing(p)
  BY <1>2 DEF Writing, Invalidating
<1>4. ASSUME NEW q \in Requests \ {p}
      PROVE  /\ request'[q].pc = request[q].pc /\ request'[q].ref = request[q].ref
             /\ request'[q].index = request[q].index /\ request'[q].members = request[q].members
             /\ request'[q].key = request[q].key /\ request'[q].value = request[q].value
             /\ ~request'[q].raced => ~request[q].raced /\ ~told(q)
  <2>1. request[q] \in Operations
    BY TypeParts
  <2>2. request'[q] = IF told(q) THEN [request[q] EXCEPT !.raced = TRUE] ELSE request[q]
    BY <1>1
  <2> HIDE DEF told
  <2> QED
    BY <2>1, <2>2 DEF Operations
<1>5. OthersStay(p)
  BY <1>4 DEF OthersStay
<1>6. ASSUME NEW q \in Requests \ {p}, At(q, "fetch") \/ At(q, "set"), ~request'[q].raced,
             BeingWritten(request[q].key)'
      PROVE  BeingWritten(request[q].key)
  <2>1. request[q].key \in Keys /\ request'[q].key = request[q].key
    BY <1>4, <1>6 DEF TypeInv, Reading, At
  <2>2. request[q].key \notin Touched(ref)
    BY <1>4, <1>6 DEF At
  <2> HIDE DEF w
  <2>3. ASSUME NEW k \in Keys, k = request[q].key
        PROVE  BeingWritten(request[q].key)
    <3>1. PICK v \in Requests : Writing(v)' /\ k \in Touched(request'[v].ref)
      BY <1>6, <2>1, <2>3 DEF BeingWritten, Touched
    <3>2. v # p
      BY <1>2, <2>2, <2>3, <3>1
    <3>3. Writing(v) /\ k \in Touched(request[v].ref)
      BY <1>4, <3>1, <3>2 DEF Writing, Invalidating
    <3> QED
      BY <2>3, <3>3 DEF BeingWritten
  <2> QED
    BY <2>1, <2>3
<1>7. ReadersAreTold(p)
  BY <1>6 DEF ReadersAreTold
<1>8. ASSUME NEW k \in Keys, Sure(k)'
      PROVE  /\ Sure(k) /\ cache'[k] = cache[k]
             /\ k \in Touched(ref) => \A q \in Requests : ~IsIndexing(q, k)
  <2>1. cache[k] \in Entries
    BY TypeParts DEF StoresOK
  <2>2. ~(Doubted(cache[k]).held /\ ~Doubted(cache[k]).doubtful)
    BY <2>1 DEF Doubted, Entries
  <2>3. cache'[k] = IF k \in Touched(ref) /\ \E q \in Requests : At(q, "index") /\ request[q].key = k
                    THEN Doubted(cache[k]) ELSE cache[k]
    BY DEF BeginWrite
  <2> QED
    BY <1>8, <2>2, <2>3 DEF Sure, IsIndexing
<1>9. HoldsFresh(p)
  BY <1>8, Shrinks
<1>10. ASSUME NEW k \in Keys, k \in Touched(ref), Sure(k)'
       PROVE  Pending(p, k)' /\ (Marker(k)' \/ Listed(k)')
  <2>1. Pending(p, k)'
    BY <1>2 DEF Pending
  <2>2. Marker(k) \/ Listed(k)
    BY <1>8, <1>10 DEF CacheInv, ListedSoon
  <2>3. Marker(k)' \/ Listed(k)'
    BY <1>8, <1>10, <2>2 DEF BeginWrite, Marker, Listed
  <2> QED
    BY <2>1, <2>3
<1>11. Clears(p)
  BY <1>2, <1>10 DEF Clears, Touched
<1>12. Finishes(p) /\ HandsOver(p) /\ ReadsFresh(p)
  BY <1>2, <1>3 DEF Finishes, HandsOver, ReadsFresh, IsIndexing, At
<1>13. StaysListed
  BY IndexStays DEF BeginWrite
<1>14. ASSUME NEW k \in Keys, ~BeingWritten(k)'
       PROVE  View(k)' = View(k)
  <2>1. Writing(p)'
    BY <1>2 DEF Writing, Invalidating
  <2>2. k \notin Touched(ref)
    BY <1>2, <1>14, <2>1 DEF BeingWritten, Touched
  <2> QED
    BY <2>2, ViewStays
<1>15. ShowsWrites
  BY <1>14 DEF ShowsWrites
<1> QED
  BY <1>5, <1>7, <1>9, <1>11, <1>12, <1>13, <1>15, CacheInvKept

LEMMA WriteKeeps ==
  ASSUME TypeInv, TypeInv', CacheInv, NEW p \in Requests, NEW ref \in References,
         \/ InsertMessage(p, ref) \/ InsertToolCall(p, ref)
         \/ \E create \in BOOLEAN : Ensure(p, ref, create)
  PROVE  CacheInv'
<1> USE IdleIsOperation
<1>1. store \in [References -> [row : Nat, messages : Nat, calls : Nat]]
  BY TypeParts DEF StoresOK
<1>2. \A x \in References \ {ref} : store'[x] = store[x]
  BY <1>1 DEF InsertMessage, InsertToolCall, Ensure
<1>3. CASE InsertMessage(p, ref)
  <2> DEFINE r == [Idle EXCEPT !.pc = "touch"]
  <2>1. r \in Operations /\ r.pc = "touch"
    BY DEF Operations, Idle
  <2>2. BeginWrite(p, ref, r)
    BY <1>3 DEF InsertMessage
  <2> HIDE DEF r
  <2> QED
    BY <1>2, <2>1, <2>2, BeginWriteKeeps
<1>4. CASE InsertToolCall(p, ref)
  <2> DEFINE r == [Idle EXCEPT !.pc = "get_reference"]
  <2>1. r \in Operations /\ r.pc = "get_reference"
    BY DEF Operations, Idle
  <2>2. BeginWrite(p, ref, r)
    BY <1>4 DEF InsertToolCall
  <2> HIDE DEF r
  <2> QED
    BY <1>2, <2>1, <2>2, BeginWriteKeeps
<1>5. ASSUME NEW create \in BOOLEAN, Ensure(p, ref, create)
      PROVE  CacheInv'
  <2> DEFINE r == [Idle EXCEPT !.pc = "delete_entry", !.create = create]
  <2>1. r \in Operations /\ r.pc = "delete_entry"
    BY DEF Operations, Idle
  <2>2. BeginWrite(p, ref, r)
    BY <1>5 DEF Ensure
  <2> HIDE DEF r
  <2> QED
    BY <1>2, <2>1, <2>2, BeginWriteKeeps
<1> QED
  BY <1>3, <1>4, <1>5

LEMMA ExpireKeeps ==
  ASSUME TypeInv, CacheInv, NEW key \in Keys, Expire(key)
  PROVE  CacheInv'
<1>1. UNCHANGED <<store, index, request>>
  BY DEF Expire
<1>2. \A k \in Keys : Sure(k)' => Sure(k) /\ cache'[k] = cache[k]
  BY TypeParts DEF StoresOK, Expire, Sure, Absent
<1>3. \A k \in Keys : /\ BeingWritten(k)' <=> BeingWritten(k)
                      /\ View(k)' = View(k)
  BY <1>1 DEF BeingWritten, Writing, Invalidating, View, Touched
<1>4. WritesClear'
  BY <1>1, <1>2 DEF CacheInv, WritesClear, Writing, Invalidating, Touched, Pending, Marker,
     Listed, EntryKey
<1>5. ListedSoon'
  BY <1>1, <1>2 DEF CacheInv, ListedSoon, Marker, Listed, IsIndexing, At
<1>6. ReadsAreFresh'
  BY <1>1 DEF CacheInv, ReadsAreFresh, At, BeingWritten, Writing, Invalidating, View, Touched
<1>7. BehindOnlyAfterTrouble'
  BY <1>2, <1>3 DEF CacheInv, BehindOnlyAfterTrouble, Behind, Sure
<1> QED
  BY <1>4, <1>5, <1>6, <1>7 DEF CacheInv

LEMMA CacheInvInit ==
  ASSUME Init
  PROVE  CacheInv
<1>1. \A k \in Keys : ~cache[k].held
  BY DEF Init, Absent
<1>2. \A p \in Requests : ~Writing(p) /\ ~At(p, "fetch") /\ ~At(p, "set")
  BY DEF Init, Idle, Writing, Invalidating, At
<1> QED
  BY <1>1, <1>2 DEF CacheInv, WritesClear, ListedSoon, ReadsAreFresh, BehindOnlyAfterTrouble,
                    Behind, Sure

LEMMA CacheInvNext ==
  ASSUME TypeInv, TypeInv', CacheInv, [Next]_vars
  PROVE  CacheInv'
<1>1. CASE UNCHANGED vars
  BY <1>1 DEF vars, CacheInv, WritesClear, ListedSoon, ReadsAreFresh, BehindOnlyAfterTrouble,
              Behind, Sure, Marker, Listed, Pending, Writing, Invalidating, IsIndexing, At, BeingWritten,
              View, Touched, EntryKey
<1>2. ASSUME NEW p \in Requests, Step(p)
      PROVE  CacheInv'
  <2>1. CASE \E ref \in References :
               \/ InsertMessage(p, ref) \/ InsertToolCall(p, ref)
               \/ \E create \in BOOLEAN : Ensure(p, ref, create)
    BY <2>1, WriteKeeps
  <2>2. ASSUME NEW k \in Keys, Hit(p, k) \/ Miss(p, k)
        PROVE  CacheInv'
    BY <1>1, <2>2, ReadKeeps DEF Hit
  <2>3. CASE Proceed(p)
    <3>1. CASE At(p, "get") /\ Miss(p, request[p].key)
      <4>1. request[p].key \in Keys
        BY <3>1 DEF TypeInv, Reading, At
      <4> QED
        BY <3>1, <4>1, ReadKeeps
    <3> QED
      BY <2>3, <3>1, ReadKeeps, ClearingKeeps, DeleteIndexKeeps, SetKeeps, IndexKeeps DEF Proceed
  <2>4. CASE InvalidationRaises(p) \/ Breaks(p)
    BY <2>4, RaisesKeeps, BreaksKeeps
  <2> QED
    BY <1>2, <2>1, <2>2, <2>3, <2>4 DEF Step
<1>3. ASSUME NEW k \in Keys, Expire(k)
      PROVE  CacheInv'
  BY <1>3, ExpireKeeps
<1> QED
  BY <1>1, <1>2, <1>3 DEF Next

\* What the journal service answers out of its cache is what the conversation
\* store would answer, unless a write of the same journal is on its way to
\* clear the key, a write overlapped the read that set it, or the setting or
\* the clearing was broken off (get_journal, list_messages, _invalidate_for_reference).
THEOREM FreshUnlessTroubled == Spec => []BehindOnlyAfterTrouble
<1>1. Init => TypeInv /\ CacheInv
  BY TypeInit, CacheInvInit
<1>2. TypeInv /\ CacheInv /\ [Next]_vars => TypeInv' /\ CacheInv'
  BY TypeNext, CacheInvNext
<1>3. CacheInv => BehindOnlyAfterTrouble
  BY DEF CacheInv
<1> QED
  BY <1>1, <1>2, <1>3, PTL DEF Spec

-----------------------------------------------------------------------------
(* What was created is found.                                              *)

\* Held, and no write raced the read that set it.
Unraced(k) == cache[k].held /\ ~cache[k].raced

\* The cache has it that there is no such journal, from a read no write raced.
SaidAbsent(ref) == Unraced(EntryKey(ref)) /\ cache[EntryKey(ref)].value = Nothing

\* The request is creating the journal, to answer with it.
Creates(p, ref) == Writing(p) /\ request[p].create /\ request[p].ref = ref

\* It has created the journal and cleared its entry.
HasCreated(p, ref) ==
  \/ At(p, "get") /\ request[p].key = EntryKey(ref) /\ ~request[p].kept
  \/ /\ request[p].create /\ request[p].ref = ref
     /\ request[p].pc \in {"read_index", "delete_members", "delete_index"}

CreationKnown(p) ==
  /\ At(p, "get") => \E ref \in References : request[p].key = EntryKey(ref)
  /\ \A ref \in References :
       /\ Creates(p, ref) => Exists(ref)
       /\ HasCreated(p, ref) => Exists(ref) /\ ~SaidAbsent(ref)

CreatedInv == \A p \in Requests : CreationKnown(p)

\* Journals stay, and the marker is set only where there is none.
Honest ==
  \A ref \in References :
    /\ Exists(ref) => Exists(ref)'
    /\ SaidAbsent(ref)' /\ Exists(ref) => SaidAbsent(ref)

\* What is true of a request that does not move stays so.
LEMMA BystanderKeeps ==
  ASSUME TypeInv, CreatedInv, Honest, NEW q \in Requests,
         request'[q].pc = request[q].pc, request'[q].key = request[q].key,
         request'[q].create = request[q].create, request'[q].ref = request[q].ref,
         request'[q].kept = request[q].kept
  PROVE  CreationKnown(q)'
<1>1. CreationKnown(q)
  BY DEF CreatedInv
<1>2. At(q, "get")' => \E ref \in References : request'[q].key = EntryKey(ref)
  BY <1>1 DEF CreationKnown, At
<1>3. ASSUME NEW ref \in References
      PROVE  /\ Creates(q, ref)' => Exists(ref)'
             /\ HasCreated(q, ref)' => Exists(ref)' /\ ~SaidAbsent(ref)'
  <2>1. /\ Creates(q, ref)' => Creates(q, ref)
        /\ HasCreated(q, ref)' => HasCreated(q, ref)
    BY DEF Creates, HasCreated, At, EntryKey, Writing, Invalidating
  <2> QED
    BY <1>1, <2>1 DEF CreationKnown, Honest
<1> QED
  BY <1>2, <1>3 DEF CreationKnown, EntryKey

\* The request that moves is p, and what is true of it is known.
LEMMA OneMoves ==
  ASSUME TypeInv, CreatedInv, Honest, NEW p \in Requests, NEW r,
         request' = [request EXCEPT ![p] = r], CreationKnown(p)'
  PROVE  CreatedInv'
<1>1. \A q \in Requests \ {p} : request'[q] = request[q]
  BY DEF TypeInv, TypeOK
<1>2. \A q \in Requests \ {p} : CreationKnown(q)'
  BY <1>1, BystanderKeeps
<1> QED
  BY <1>2 DEF CreatedInv

\* Idle, or a read that is under way.
LEMMA ReadsKnow ==
  ASSUME NEW p, request'[p].pc \in {"idle", "fetch", "set", "index"}
  PROVE  CreationKnown(p)'
BY DEF CreationKnown, Creates, Writing, Invalidating, At, HasCreated

\* Nothing is set, and keys are at most cleared or doubted.
LEMMA ClearingIsHonest ==
  ASSUME TypeInv,
         \A ref \in References : Exists(ref) => Exists(ref)',
         \A k \in Keys : Unraced(k)' => Unraced(k) /\ cache'[k].value = cache[k].value
  PROVE  Honest
BY KeyAssumption DEF Honest, SaidAbsent

LEMMA DoubtsOnly ==
  ASSUME NEW k \in Keys, cache[k] \in Entries, cache'[k] \in {cache[k], Doubted(cache[k]), Absent}
  PROVE  Unraced(k)' => Unraced(k) /\ cache'[k].value = cache[k].value
<1>1. CASE cache'[k] = cache[k]
  BY <1>1 DEF Unraced
<1>2. CASE cache'[k] = Doubted(cache[k])
  <2>1. Doubted(cache[k]).held = cache[k].held
        /\ Doubted(cache[k]).raced = cache[k].raced
        /\ Doubted(cache[k]).value = cache[k].value
    BY DEF Doubted, Entries
  <2> QED
    BY <1>2, <2>1 DEF Unraced
<1>3. CASE cache'[k] = Absent
  BY <1>3 DEF Unraced, Absent
<1> QED
  BY <1>1, <1>2, <1>3

LEMMA WriteIsHonest ==
  ASSUME TypeInv, NEW p \in Requests, NEW ref \in References, NEW r,
         BeginWrite(p, ref, r), \A x \in References : Exists(x) => Exists(x)'
  PROVE  Honest
<1>1. ASSUME NEW k \in Keys
      PROVE  cache[k] \in Entries /\ cache'[k] \in {cache[k], Doubted(cache[k]), Absent}
  BY DEF BeginWrite, TypeInv, TypeOK
<1>2. \A k \in Keys : Unraced(k)' => Unraced(k) /\ cache'[k].value = cache[k].value
  BY <1>1, DoubtsOnly
<1> QED
  BY <1>2, ClearingIsHonest

LEMMA BeginWriteKnows ==
  ASSUME TypeInv, CreatedInv, NEW p \in Requests, NEW ref \in References, NEW r \in Operations,
         r.pc \in {"touch", "get_reference", "delete_entry"}, r.create => Exists(ref)',
         BeginWrite(p, ref, r), \A x \in References : Exists(x) => Exists(x)'
  PROVE  CreatedInv'
<1> DEFINE u == [r EXCEPT !.ref = ref]
<1>1. u.pc = r.pc /\ u.create = r.create /\ u.ref = ref
  BY DEF Operations
<1>2. \A q \in Requests :
        /\ q = p => request'[q] = u
        /\ q # p => request'[q] \in {request[q], [request[q] EXCEPT !.raced = TRUE]}
  BY DEF BeginWrite, Disturbed
<1> HIDE DEF u
<1>3. CreationKnown(p)'
  BY <1>1, <1>2 DEF CreationKnown, Creates, HasCreated, At
<1>4. Honest
  BY WriteIsHonest
<1>5. ASSUME NEW q \in Requests \ {p}
      PROVE  CreationKnown(q)'
  <2>1. request[q] \in Operations
    BY DEF TypeInv, TypeOK
  <2>2. /\ request'[q].pc = request[q].pc /\ request'[q].key = request[q].key
        /\ request'[q].create = request[q].create /\ request'[q].ref = request[q].ref
        /\ request'[q].kept = request[q].kept
    BY <1>2, <2>1 DEF Operations
  <2> QED
    BY <1>4, <2>2, BystanderKeeps
<1> QED
  BY <1>3, <1>5 DEF CreatedInv

LEMMA WriteKnows ==
  ASSUME TypeInv, CreatedInv, NEW p \in Requests, NEW ref \in References,
         \/ InsertMessage(p, ref) \/ InsertToolCall(p, ref)
         \/ \E create \in BOOLEAN : Ensure(p, ref, create)
  PROVE  CreatedInv'
<1>1. store \in [References -> [row : Nat, messages : Nat, calls : Nat]]
  BY DEF TypeInv, TypeOK
<1>2. CASE InsertMessage(p, ref)
  <2> DEFINE r == [Idle EXCEPT !.pc = "touch"]
  <2>1. r \in Operations /\ r.pc = "touch" /\ ~ r.create
    BY IdleIsOperation DEF Operations, Idle
  <2>2. \A x \in References : store'[x].row = store[x].row
    BY <1>1, <1>2 DEF InsertMessage
  <2>3. BeginWrite(p, ref, r)
    BY <1>2 DEF InsertMessage
  <2> HIDE DEF r
  <2> QED
    BY <2>1, <2>2, <2>3, BeginWriteKnows DEF Exists
<1>3. CASE InsertToolCall(p, ref)
  <2> DEFINE r == [Idle EXCEPT !.pc = "get_reference"]
  <2>1. r \in Operations /\ r.pc = "get_reference" /\ ~ r.create
    BY IdleIsOperation DEF Operations, Idle
  <2>2. \A x \in References : store'[x].row = store[x].row
    BY <1>1, <1>3 DEF InsertToolCall
  <2>3. BeginWrite(p, ref, r)
    BY <1>3 DEF InsertToolCall
  <2> HIDE DEF r
  <2> QED
    BY <2>1, <2>2, <2>3, BeginWriteKnows DEF Exists
<1>4. ASSUME NEW create \in BOOLEAN, Ensure(p, ref, create)
      PROVE  CreatedInv'
  <2> DEFINE r == [Idle EXCEPT !.pc = "delete_entry", !.create = create]
  <2>1. r \in Operations /\ r.pc = "delete_entry"
    BY IdleIsOperation DEF Operations, Idle
  <2>2. /\ \A x \in References : Exists(x) => Exists(x)'
        /\ Exists(ref)'
    <3>1. \A x \in References : store'[x].row = IF x = ref THEN store[x].row + 1 ELSE store[x].row
      BY <1>1, <1>4 DEF Ensure
    <3>2. \A x \in References : store[x].row \in Nat
      BY <1>1
    <3> QED
      BY <3>1, <3>2 DEF Exists
  <2>3. BeginWrite(p, ref, r)
    BY <1>4 DEF Ensure
  <2> HIDE DEF r
  <2> QED
    BY <2>1, <2>2, <2>3, BeginWriteKnows
<1> QED
  BY <1>2, <1>3, <1>4

\* The steps of a write after its first.
LEMMA ClearingKnows ==
  ASSUME TypeInv, CreatedInv, NEW p \in Requests,
         \/ TouchConversation(p) \/ FindReference(p) \/ DeleteEntry(p)
         \/ ReadIndex(p) \/ DeleteMembers(p) \/ DeleteIndex(p)
  PROVE  CreatedInv'
<1> DEFINE r == request[p]
<1>1. /\ r \in Operations /\ request \in [Requests -> Operations]
      /\ store \in [References -> [row : Nat, messages : Nat, calls : Nat]]
      /\ cache \in [Keys -> Entries]
  BY DEF TypeInv, TypeOK
<1>2. Writing(p) /\ r.ref \in References /\ CreationKnown(p)
  BY DEF TouchConversation, FindReference, DeleteEntry, ReadIndex, DeleteMembers, DeleteIndex,
         At, Writing, Invalidating, TypeInv, TypeOK, CreatedInv
<1> PICK own \in References : own = r.ref
  BY <1>2
<1>3. \A x \in References : Exists(x) => Exists(x)'
  <2>1. CASE TouchConversation(p)
    <3>1. \A x \in References : store'[x].row = IF x = r.ref THEN store[x].row + 1 ELSE store[x].row
      BY <1>1, <2>1 DEF TouchConversation
    <3>2. \A x \in References : store[x].row \in Nat
      BY <1>1
    <3> QED
      BY <3>1, <3>2 DEF Exists
  <2>2. CASE ~TouchConversation(p)
    BY <2>2 DEF FindReference, DeleteEntry, ReadIndex, DeleteMembers, DeleteIndex, Exists
  <2> QED
    BY <2>1, <2>2
<1>4. \A k \in Keys : cache'[k] \in {cache[k], Absent}
  BY <1>1 DEF TouchConversation, FindReference, DeleteEntry, ReadIndex, DeleteMembers, DeleteIndex
<1>5. Honest
  <2>1. \A k \in Keys : Unraced(k)' => Unraced(k) /\ cache'[k].value = cache[k].value
    BY <1>1, <1>4, DoubtsOnly
  <2> QED
    BY <1>3, <2>1, ClearingIsHonest
<1>6. ASSUME NEW u \in Operations, request' = [request EXCEPT ![p] = u],
             u.pc \in {"get_reference", "delete_entry", "read_index", "delete_members", "delete_index"},
             u.create = r.create, u.ref = r.ref,
             \A ref \in References : HasCreated(p, ref)' => HasCreated(p, ref) \/ ~SaidAbsent(ref)'
      PROVE  CreatedInv'
  <2>1. request'[p] = u
    BY <1>1, <1>6
  <2>2. CreationKnown(p)'
    <3>1. r.create => Exists(own)'
      BY <1>2, <1>3 DEF CreationKnown, Creates
    <3>2. ASSUME NEW ref \in References, HasCreated(p, ref)'
          PROVE  Exists(ref)' /\ ~SaidAbsent(ref)'
      <4>1. r.create /\ ref = own
        BY <1>6, <2>1, <3>2 DEF HasCreated, At
      <4>2. CASE HasCreated(p, ref)
        BY <1>2, <1>5, <4>2 DEF CreationKnown, Honest
      <4>3. CASE ~SaidAbsent(ref)'
        BY <3>1, <4>1, <4>3
      <4> QED
        BY <1>6, <3>2, <4>2, <4>3
    <3> QED
      BY <1>6, <2>1, <3>1, <3>2 DEF CreationKnown, Creates, At
  <2> QED
    BY <1>5, <1>6, <2>2, OneMoves
<1>7. CASE TouchConversation(p) \/ FindReference(p)
  <2>1. PICK label \in {"get_reference", "delete_entry"} :
          request' = [request EXCEPT ![p].pc = label]
    BY <1>7 DEF TouchConversation, FindReference
  <2> DEFINE u == [r EXCEPT !.pc = label]
  <2>2. u \in Operations /\ u.pc = label /\ u.create = r.create /\ u.ref = r.ref
    BY <1>1 DEF Operations
  <2>3. request' = [request EXCEPT ![p] = u]
    BY <1>1, <2>1
  <2> HIDE DEF u
  <2>4. \A ref \in References : ~HasCreated(p, ref)'
    BY <1>1, <2>2, <2>3 DEF HasCreated, At
  <2> QED
    BY <1>6, <2>2, <2>3, <2>4
<1>8. CASE DeleteEntry(p)
  <2> DEFINE u == [r EXCEPT !.pc = "read_index", !.index = RefIndex(r.ref)]
  <2>1. request' = [request EXCEPT ![p] = u]
    BY <1>1, <1>8 DEF DeleteEntry
  <2>2. u \in Operations /\ u.pc = "read_index" /\ u.create = r.create /\ u.ref = r.ref
    BY <1>1, <1>2 DEF Operations, Indexes
  <2> HIDE DEF u
  <2>3. ~SaidAbsent(own)'
    <3>1. cache'[EntryKey(own)] = Absent
      BY <1>2, <1>8, KeyAssumption DEF DeleteEntry
    <3> QED
      BY <3>1 DEF SaidAbsent, Unraced, Absent, EntryKey
  <2>4. \A ref \in References : HasCreated(p, ref)' => ref = own
    BY <1>1, <2>1, <2>2 DEF HasCreated, At
  <2> QED
    BY <1>6, <2>1, <2>2, <2>3, <2>4
<1>9. CASE ReadIndex(p) \/ DeleteMembers(p)
  <2>1. PICK label \in {"delete_members", "delete_index"}, members \in SUBSET Keys :
          request' = [request EXCEPT ![p].pc = label, ![p].members = members]
    <3>1. CASE ReadIndex(p)
      <4>1. index[r.index] \in SUBSET Keys
        BY <1>1 DEF Operations, TypeInv, TypeOK
      <4> QED
        BY <3>1, <4>1 DEF ReadIndex
    <3>2. CASE DeleteMembers(p)
      <4>1. {} \in SUBSET Keys
        OBVIOUS
      <4> QED
        BY <3>2, <4>1 DEF DeleteMembers
    <3> QED
      BY <1>9, <3>1, <3>2
  <2> DEFINE u == [r EXCEPT !.pc = label, !.members = members]
  <2>2. u \in Operations /\ u.pc = label /\ u.create = r.create /\ u.ref = r.ref
    BY <1>1 DEF Operations
  <2>3. request' = [request EXCEPT ![p] = u]
    BY <1>1, <2>1
  <2> HIDE DEF u
  <2>4. r.pc \in {"read_index", "delete_members"}
    BY <1>9 DEF ReadIndex, DeleteMembers, At
  <2>5. \A ref \in References : HasCreated(p, ref)' => HasCreated(p, ref)
    BY <1>1, <2>2, <2>3, <2>4 DEF HasCreated, At
  <2> QED
    BY <1>6, <2>2, <2>3, <2>5
<1>10. CASE DeleteIndex(p) /\ r.index # ListsIndex
  <2> DEFINE u == [r EXCEPT !.pc = "read_index", !.index = ListsIndex]
  <2>1. request' = [request EXCEPT ![p] = u] /\ r.pc = "delete_index"
    BY <1>1, <1>10 DEF DeleteIndex, At
  <2>2. u \in Operations /\ u.pc = "read_index" /\ u.create = r.create /\ u.ref = r.ref
    BY <1>1 DEF Operations, Indexes
  <2> HIDE DEF u
  <2>3. \A ref \in References : HasCreated(p, ref)' => HasCreated(p, ref)
    BY <1>1, <2>1, <2>2 DEF HasCreated, At
  <2> QED
    BY <1>6, <2>1, <2>2, <2>3
<1>11. CASE DeleteIndex(p) /\ r.index = ListsIndex
  <2>1. request' = [request EXCEPT ![p] = AfterInvalidation(r)] /\ r.pc = "delete_index"
    BY <1>1, <1>11 DEF DeleteIndex, At
  <2>2. CASE ~ r.create
    <3>1. request'[p].pc = "idle"
      BY <1>1, <2>1, <2>2 DEF AfterInvalidation, Idle
    <3>2. CreationKnown(p)'
      BY <3>1, ReadsKnow
    <3> QED
      BY <1>5, <2>1, <3>2, OneMoves
  <2>3. CASE r.create
    <3> DEFINE u == [Idle EXCEPT !.pc = "get", !.key = EntryKey(own), !.kept = r.kept]
    <3>1. request' = [request EXCEPT ![p] = u]
      BY <2>1, <2>3 DEF AfterInvalidation
    <3>2. u.pc = "get" /\ u.key = EntryKey(own) /\ ~ u.create
      BY DEF Idle
    <3> HIDE DEF u
    <3>3. request'[p] = u
      BY <1>1, <3>1
    <3>4. HasCreated(p, own)
      BY <2>1, <2>3 DEF HasCreated, At
    <3>5. Exists(own)' /\ ~SaidAbsent(own)'
      BY <1>2, <1>5, <3>4 DEF CreationKnown, Honest
    <3>6. ASSUME NEW ref \in References, HasCreated(p, ref)'
          PROVE  ref = own
      BY <3>2, <3>3, <3>6 DEF HasCreated, At, EntryKey
    <3>7. CreationKnown(p)'
      BY <1>2, <3>2, <3>3, <3>5, <3>6 DEF CreationKnown, Creates, Writing, Invalidating, At,
         EntryKey
    <3> QED
      BY <1>5, <3>1, <3>7, OneMoves
  <2> QED
    BY <2>2, <2>3
<1> QED
  BY <1>7, <1>8, <1>9, <1>10, <1>11

\* Reads, and a request that ends: nothing is set that denies a journal.
LEMMA ReadingKnows ==
  ASSUME TypeInv, CacheInv, CreatedInv, NEW p \in Requests,
         \/ HitAfterCreate(p) \/ \E k \in Keys : Miss(p, k)
         \/ Fetch(p) \/ Set(p) \/ Index(p) \/ Breaks(p)
  PROVE  CreatedInv'
<1>1. /\ request \in [Requests -> Operations] /\ cache \in [Keys -> Entries]
      /\ request[p] \in Operations
  BY DEF TypeInv, TypeOK
<1>2. UNCHANGED store
  BY DEF HitAfterCreate, Miss, Fetch, Set, Index, Breaks
<1>3. \A ref \in References : Exists(ref) => Exists(ref)'
  BY <1>2 DEF Exists
<1>4. CASE HitAfterCreate(p) \/ Index(p) \/ Breaks(p)
  <2>1. request' = [request EXCEPT ![p] = Idle]
    BY <1>4 DEF HitAfterCreate, Index, Breaks
  <2>2. request'[p].pc = "idle"
    BY <1>1, <2>1 DEF Idle
  <2>3. \A k \in Keys : cache[k] \in Entries /\ cache'[k] \in {cache[k], Doubted(cache[k]), Absent}
    BY <1>1, <1>4 DEF HitAfterCreate, Index, Breaks, LeaveInDoubt
  <2>4. \A k \in Keys : Unraced(k)' => Unraced(k) /\ cache'[k].value = cache[k].value
    BY <2>3, DoubtsOnly
  <2>5. Honest
    BY <1>3, <2>4, ClearingIsHonest
  <2>6. CreationKnown(p)'
    BY <2>2, ReadsKnow
  <2> QED
    BY <2>1, <2>5, <2>6, OneMoves
<1>5. CASE (\E k \in Keys : Miss(p, k)) \/ Fetch(p)
  <2>1. PICK r : request' = [request EXCEPT ![p] = r] /\ r.pc \in {"fetch", "set"}
    <3>1. ASSUME NEW k \in Keys, Miss(p, k)
          PROVE  \E r : request' = [request EXCEPT ![p] = r] /\ r.pc \in {"fetch", "set"}
      <4> DEFINE r == [Idle EXCEPT !.pc = "fetch", !.key = k, !.raced = BeingWritten(k)]
      <4>1. r.pc = "fetch"
        BY DEF Idle
      <4>2. request' = [request EXCEPT ![p] = r]
        BY <3>1 DEF Miss
      <4> QED
        BY <4>1, <4>2
    <3>2. CASE Fetch(p)
      <4> DEFINE r == [request[p] EXCEPT !.pc = "set", !.value = View(request[p].key)]
      <4>1. r.pc = "set"
        BY <1>1 DEF Operations
      <4>2. request' = [request EXCEPT ![p] = r]
        BY <1>1, <3>2 DEF Fetch
      <4> QED
        BY <4>1, <4>2
    <3> QED
      BY <1>5, <3>1, <3>2
  <2>2. request'[p].pc \in {"idle", "fetch", "set", "index"}
    BY <1>1, <2>1
  <2>3. UNCHANGED cache
    BY <1>5 DEF Miss, Fetch
  <2>4. \A k \in Keys : Unraced(k)' => Unraced(k) /\ cache'[k].value = cache[k].value
    BY <2>3 DEF Unraced
  <2>5. Honest
    BY <1>3, <2>4, ClearingIsHonest
  <2>6. CreationKnown(p)'
    BY <2>2, ReadsKnow
  <2> QED
    BY <2>1, <2>5, <2>6, OneMoves
<1>6. CASE Set(p)
  <2> DEFINE r == request[p]
  <2>1. /\ request' = [request EXCEPT ![p] = AfterSet(r)]
        /\ cache' = [cache EXCEPT ![r.key] = Held(r, TRUE)]
        /\ r.pc = "set"
    BY <1>6 DEF Set, At
  <2>2. AfterSet(r).pc \in {"idle", "index"}
    BY <1>1 DEF AfterSet, Idle, Operations
  <2>3. request'[p].pc \in {"idle", "fetch", "set", "index"}
    BY <1>1, <2>1, <2>2
  <2>4. ASSUME NEW ref \in References, SaidAbsent(ref)', Exists(ref)
        PROVE  SaidAbsent(ref)
    <3>1. EntryKey(ref) \in Keys
      BY KeyAssumption
    <3>2. CASE r.key # EntryKey(ref)
      <4>1. cache'[EntryKey(ref)] = cache[EntryKey(ref)]
        <5> DEFINE key == r.key
                   set == Held(r, TRUE)
        <5>1. cache' = [cache EXCEPT ![key] = set] /\ key # EntryKey(ref)
          BY <2>1, <3>2
        <5> HIDE DEF key, set
        <5> QED
          BY <1>1, <3>1, <5>1
      <4> QED
        BY <2>4, <4>1 DEF SaidAbsent, Unraced, EntryKey
    <3>3. CASE r.key = EntryKey(ref)
      <4>1. cache'[EntryKey(ref)] = Held(r, TRUE)
        BY <1>1, <2>1, <3>1, <3>3
      <4>2. ~ r.raced /\ r.value = Nothing
        BY <2>4, <4>1 DEF SaidAbsent, Unraced, Held, EntryKey
      <4>3. View(EntryKey(ref)) = Nothing
        BY <2>1, <3>3, <4>2 DEF CacheInv, ReadsAreFresh, At
      <4>4. View(EntryKey(ref))[ref] = <<store[ref].row, store[ref].messages>>
        BY <3>1 DEF View, Touched, EntryKey
      <4>5. store[ref].row = 0
        BY <4>3, <4>4 DEF Nothing
      <4> QED
        BY <2>4, <4>5 DEF Exists
    <3> QED
      BY <3>2, <3>3
  <2>5. Honest
    BY <1>3, <2>4 DEF Honest
  <2>6. CreationKnown(p)'
    BY <2>3, ReadsKnow
  <2> QED
    BY <2>1, <2>5, <2>6, OneMoves
<1> QED
  BY <1>4, <1>5, <1>6

\* An invalidation that raised: if the request goes on to read, it has cleared
\* the entry or it knows that it has kept it.
LEMMA RaisesKnows ==
  ASSUME TypeInv, CreatedInv, NEW p \in Requests, InvalidationRaises(p)
  PROVE  CreatedInv'
<1> DEFINE r == request[p]
           w == [r EXCEPT !.kept = At(p, "delete_entry")]
<1>1. /\ r \in Operations /\ request \in [Requests -> Operations]
      /\ cache \in [Keys -> Entries]
  BY DEF TypeInv, TypeOK
<1>2. Writing(p) /\ r.ref \in References /\ CreationKnown(p)
  BY DEF InvalidationRaises, Writing, TypeInv, TypeOK, CreatedInv
<1> PICK own \in References : own = r.ref
  BY <1>2
<1>3. \A x \in References : Exists(x) => Exists(x)'
  BY DEF InvalidationRaises, Exists
<1>4. Honest
  <2>1. \A k \in Keys : cache[k] \in Entries /\ cache'[k] \in {cache[k], Doubted(cache[k]), Absent}
    BY <1>1 DEF InvalidationRaises, LeaveInDoubt
  <2>2. \A k \in Keys : Unraced(k)' => Unraced(k) /\ cache'[k].value = cache[k].value
    BY <2>1, DoubtsOnly
  <2> QED
    BY <1>3, <2>2, ClearingIsHonest
<1>5. w.create = r.create /\ w.ref = own /\ (At(p, "delete_entry") => w.kept)
  BY <1>1 DEF Operations, At
<1>6. request' = [request EXCEPT ![p] = AfterInvalidation(w)]
  BY DEF InvalidationRaises
<1> HIDE DEF w
<1>7. CASE ~r.create
  <2>1. request'[p].pc = "idle"
    BY <1>1, <1>5, <1>6, <1>7 DEF AfterInvalidation, Idle
  <2>2. CreationKnown(p)'
    BY <2>1, ReadsKnow
  <2> QED
    BY <1>4, <1>6, <2>2, OneMoves
<1>8. CASE r.create
  <2> DEFINE u == [Idle EXCEPT !.pc = "get", !.key = EntryKey(own), !.kept = w.kept]
  <2>1. request' = [request EXCEPT ![p] = u]
    BY <1>5, <1>6, <1>8 DEF AfterInvalidation
  <2>2. u.pc = "get" /\ u.key = EntryKey(own) /\ ~ u.create /\ u.kept = w.kept
    BY DEF Idle
  <2> HIDE DEF u
  <2>3. request'[p] = u
    BY <1>1, <2>1
  <2>4. ASSUME NEW ref \in References, HasCreated(p, ref)'
        PROVE  ref = own /\ Exists(own)' /\ ~SaidAbsent(own)'
    <3>1. ref = own /\ ~At(p, "delete_entry")
      BY <1>5, <2>2, <2>3, <2>4 DEF HasCreated, At, EntryKey
    <3>2. HasCreated(p, own)
      BY <1>8, <3>1 DEF HasCreated, InvalidationRaises, Invalidating, At
    <3> QED
      BY <1>2, <1>4, <3>1, <3>2 DEF CreationKnown, Honest
  <2>5. CreationKnown(p)'
    BY <2>2, <2>3, <2>4 DEF CreationKnown, Creates, Writing, Invalidating, At, EntryKey
  <2> QED
    BY <1>4, <2>1, <2>5, OneMoves
<1> QED
  BY <1>7, <1>8

LEMMA CreatedInvNext ==
  ASSUME TypeInv, CacheInv, CreatedInv, [Next]_vars
  PROVE  CreatedInv'
<1>1. CASE UNCHANGED vars
  BY <1>1 DEF vars, CreatedInv, CreationKnown, Creates, HasCreated, SaidAbsent, Unraced, Exists,
              Writing, Invalidating, At, EntryKey
<1>2. ASSUME NEW p \in Requests, Step(p)
      PROVE  CreatedInv'
  <2>1. CASE \E ref \in References :
               \/ InsertMessage(p, ref) \/ InsertToolCall(p, ref)
               \/ \E create \in BOOLEAN : Ensure(p, ref, create)
    BY <2>1, WriteKnows
  <2>2. ASSUME NEW k \in Keys, Hit(p, k) \/ Miss(p, k)
        PROVE  CreatedInv'
    BY <1>1, <2>2, ReadingKnows DEF Hit
  <2>3. CASE Proceed(p)
    <3>1. CASE At(p, "get") /\ Miss(p, request[p].key)
      <4>1. request[p].key \in Keys
        BY <3>1 DEF TypeInv, Reading, At
      <4> QED
        BY <3>1, <4>1, ReadingKnows
    <3> QED
      BY <2>3, <3>1, ReadingKnows, ClearingKnows DEF Proceed
  <2>4. CASE InvalidationRaises(p) \/ Breaks(p)
    BY <2>4, RaisesKnows, ReadingKnows
  <2> QED
    BY <1>2, <2>1, <2>2, <2>3, <2>4 DEF Step
<1>3. ASSUME NEW key \in Keys, Expire(key)
      PROVE  CreatedInv'
  <2>1. UNCHANGED <<store, request>> /\ cache' = [cache EXCEPT ![key] = Absent]
    BY <1>3 DEF Expire
  <2>2. \A k \in Keys : cache[k] \in Entries /\ cache'[k] \in {cache[k], Doubted(cache[k]), Absent}
    BY <2>1 DEF TypeInv, TypeOK
  <2>3. \A k \in Keys : Unraced(k)' => Unraced(k) /\ cache'[k].value = cache[k].value
    BY <2>2, DoubtsOnly
  <2>4. Honest
    BY <2>1, <2>3, ClearingIsHonest DEF Exists
  <2> QED
    BY <2>1, <2>4, BystanderKeeps DEF CreatedInv
<1> QED
  BY <1>1, <1>2, <1>3 DEF Next

\* GET /today?create=true answers 404 out of the cache, for any journals,
\* requests and bounds, only where the read that set the marker ran into the
\* creation or this request's own DEL of the entry raised, whatever else failed
\* (get_today_journal, _invalidate_for_reference, get_journal).
THEOREM CreatedJournalsAreFound == Spec => CreatedIsFound
<1> DEFINE Inv == TypeInv /\ CacheInv /\ CreatedInv
           Found == \A p \in Requests : HitAfterCreate(p) =>
                      LET entry == cache[request[p].key]
                      IN entry.value # Nothing \/ entry.raced \/ request[p].kept
<1>1. Init => Inv
  <2>1. Init => CreatedInv
    BY DEF Init, CreatedInv, CreationKnown, Creates, HasCreated, Writing, Invalidating, At, Idle
  <2> QED
    BY <2>1, TypeInit, CacheInvInit
<1>2. Inv /\ [Next]_vars => Inv'
  BY TypeNext, CacheInvNext, CreatedInvNext
<1>3. Inv => Found
  <2> SUFFICES ASSUME Inv, NEW p \in Requests, HitAfterCreate(p)
               PROVE  \/ cache[request[p].key].value # Nothing
                      \/ cache[request[p].key].raced \/ request[p].kept
    OBVIOUS
  <2>1. At(p, "get") /\ cache[request[p].key].held
    BY DEF HitAfterCreate
  <2>2. PICK ref \in References : request[p].key = EntryKey(ref)
    BY <2>1 DEF CreatedInv, CreationKnown
  <2>3. SaidAbsent(ref) => request[p].kept
    BY <2>1, <2>2 DEF CreatedInv, CreationKnown, HasCreated
  <2> QED
    BY <2>1, <2>2, <2>3 DEF SaidAbsent, Unraced
<1>4. Inv => [Found]_vars
  BY <1>3
<1> HIDE DEF Inv
<1> QED
  BY <1>1, <1>2, <1>4, PTL DEF Spec, CreatedIsFound
=============================================================================
