----------------------------- MODULE JournalCache -----------------------------
(***************************************************************************)
(* The journal service of the assistant backend and the Redis cache it     *)
(* keeps in front of the conversation store.  Reads are cache-aside: get,  *)
(* on a miss fetch the rows, set the key, add the key to an index.  Writes *)
(* go to the store and then delete, as well as they can, the journal's     *)
(* entry and every key listed in two indexes.  Nothing orders the two.     *)
(*                                                                         *)
(* The journals are one user's.  What a key holds is abstracted to how     *)
(* often the rows behind it have changed; a key's limit and cursor are     *)
(* left out, so each list is one key.                                      *)
(***************************************************************************)
EXTENDS Naturals

CONSTANTS
  References,   \* journals of the user, by date
  Requests,     \* requests the backend may be serving at a time
  Keys,         \* what is asked for
  Earlier,      \* what each journal may hold already, its keys having expired
  MaxWrites,    \* bound: writes that begin
  MaxFaults     \* bound: calls that raise, and crashes

ASSUME CacheAssumption ==
  /\ Earlier \subseteq [row : Nat, messages : Nat, calls : Nat]
  /\ MaxWrites \in Nat /\ MaxFaults \in Nat

VARIABLES
  store,     \* per journal: how often its row, its messages and its tool calls changed
  cache,     \* per key: is it held, with which value, and (for the properties
             \* only) did a write race the read that set it, and has its listing
             \* or its clearing been disturbed
  index,     \* per index: the keys listed in it
  request,   \* per request: the operation under way
  writes,    \* how much of the bounds has been used up
  faults

vars == <<store, cache, index, request, writes, faults>>

\* The keys and the indexes, and which index a key is listed in.
EntryKey(ref) == <<"entry", ref>>
MessagesKey(ref) == <<"messages", ref>>
ListKey == <<"list", "all">>
NoKey == <<"none", "none">>
AllKeys == {"entry", "messages"} \X References \cup {ListKey}

ASSUME KeyAssumption ==
  Keys \subseteq AllKeys /\ \A ref \in References : EntryKey(ref) \in Keys

RefIndex(ref) == <<"reference", ref>>
ListsIndex == <<"lists", "all">>
Indexes == {RefIndex(ref) : ref \in References} \cup {ListsIndex}
IndexOf(k) == IF k = ListKey THEN ListsIndex ELSE RefIndex(k[2])

\* The keys that show something of a journal.
Touched(ref) == {k \in Keys : k = ListKey \/ k[2] = ref}

Exists(ref) == store[ref].row > 0

\* What the conversation store answers for a key: of each journal that the
\* key shows, the counts of what is shown, 0 where there is nothing.
View(k) ==
  [ref \in References |->
     CASE k \notin Touched(ref) -> <<0, 0>>
       [] k \in Touched(ref) /\ k[1] = "messages" -> <<store[ref].messages, store[ref].calls>>
       [] OTHER -> <<store[ref].row, store[ref].messages>>]

Nothing == [ref \in References |-> <<0, 0>>]
Values == [References -> Nat \X Nat]

Absent == [held |-> FALSE, value |-> Nothing, ttl |-> FALSE, raced |-> FALSE, doubtful |-> FALSE]

Idle == [pc |-> "idle", ref |-> "none", create |-> FALSE, index |-> ListsIndex,
         members |-> {}, key |-> NoKey, value |-> Nothing, raced |-> FALSE, kept |-> FALSE]

Init ==
  /\ store \in [References -> Earlier]
  /\ cache = [k \in Keys |-> Absent]
  /\ index = [i \in Indexes |-> {}]
  /\ request = [p \in Requests |-> Idle]
  /\ writes = 0 /\ faults = 0

At(p, pc) == request[p].pc = pc

Invalidating(p) == request[p].pc \in {"delete_entry", "read_index", "delete_members",
                                      "delete_index"}

\* A write is under way from its first change of the store until its
\* invalidation ends.
Writing(p) == request[p].pc \in {"touch", "get_reference"} \/ Invalidating(p)

BeingWritten(k) == \E p \in Requests : Writing(p) /\ k \in Touched(request[p].ref)
-----------------------------------------------------------------------------
(* Writes.                                                                 *)

Doubted(entry) == [entry EXCEPT !.doubtful = @ \/ entry.held]

\* A write that begins while a key is being read disturbs the read.
Disturbed(p, ref, r) ==
  [q \in Requests |->
     IF q = p THEN r
     ELSE IF request[q].pc \in {"fetch", "set"} /\ request[q].key \in Touched(ref)
          THEN [request[q] EXCEPT !.raced = TRUE]
          ELSE request[q]]

BeginWrite(p, ref, r) ==
  /\ At(p, "idle")
  /\ writes < MaxWrites /\ writes' = writes + 1
  /\ request' = Disturbed(p, ref, [r EXCEPT !.ref = ref])
  /\ cache' = [k \in Keys |->
       IF k \in Touched(ref) /\ \E q \in Requests : At(q, "index") /\ request[q].key = k
       THEN Doubted(cache[k]) ELSE cache[k]]
  /\ UNCHANGED <<index, faults>>

\* ensure_journal, for a chat message or for GET /today?create=true.
Ensure(p, ref, create) ==
  /\ store' = [store EXCEPT ![ref].row = @ + 1]
  /\ BeginWrite(p, ref, [Idle EXCEPT !.pc = "delete_entry", !.create = create])

\* create_journal_message: two statements, then the reference is looked up.
InsertMessage(p, ref) ==
  /\ Exists(ref)
  /\ store' = [store EXCEPT ![ref].messages = @ + 1]
  /\ BeginWrite(p, ref, [Idle EXCEPT !.pc = "touch"])

TouchConversation(p) ==
  /\ At(p, "touch")
  /\ store' = [store EXCEPT ![request[p].ref].row = @ + 1]
  /\ request' = [request EXCEPT ![p].pc = "get_reference"]
  /\ UNCHANGED <<cache, index, writes, faults>>

\* create_journal_tool_call: the row is not touched.
InsertToolCall(p, ref) ==
  /\ store[ref].messages > 0
  /\ store' = [store EXCEPT ![ref].calls = @ + 1]
  /\ BeginWrite(p, ref, [Idle EXCEPT !.pc = "get_reference"])

FindReference(p) ==
  /\ At(p, "get_reference")
  /\ request' = [request EXCEPT ![p].pc = "delete_entry"]
  /\ UNCHANGED <<store, cache, index, writes, faults>>

\* Mutant of DeleteEntry: the entry is left to the index.
LeaveEntry(p) ==
  /\ At(p, "delete_entry")
  /\ request' = [request EXCEPT ![p].pc = "read_index", ![p].index = RefIndex(request[p].ref)]
  /\ UNCHANGED <<store, cache, index, writes, faults>>

\* _invalidate_for_reference: the entry, then the keys of the two indexes.
DeleteEntry(p) ==
  /\ At(p, "delete_entry")
  /\ cache' = [k \in Keys |-> IF k = EntryKey(request[p].ref) THEN Absent ELSE cache[k]]
  /\ request' = [request EXCEPT ![p].pc = "read_index", ![p].index = RefIndex(request[p].ref)]
  /\ UNCHANGED <<store, index, writes, faults>>

\* Mutant of ReadIndex: only the entry and the lists are cleared.
ReadListsIndex(p) ==
  /\ At(p, "read_index")
  /\ request' = [request EXCEPT ![p].pc = "delete_members", ![p].index = ListsIndex,
                                ![p].members = index[ListsIndex]]
  /\ UNCHANGED <<store, cache, index, writes, faults>>

\* delete_indexed: SMEMBERS, DEL of the members, DEL of the index.
ReadIndex(p) ==
  /\ At(p, "read_index")
  /\ request' = [request EXCEPT ![p].pc = "delete_members",
                                ![p].members = index[request[p].index]]
  /\ UNCHANGED <<store, cache, index, writes, faults>>

DeleteMembers(p) ==
  /\ At(p, "delete_members")
  /\ cache' = [k \in Keys |-> IF k \in request[p].members THEN Absent ELSE cache[k]]
  /\ request' = [request EXCEPT ![p].pc = "delete_index", ![p].members = {}]
  /\ UNCHANGED <<store, index, writes, faults>>

\* get_today_journal(create=True) goes on to read the entry.
AfterInvalidation(r) ==
  IF r.create THEN [Idle EXCEPT !.pc = "get", !.key = EntryKey(r.ref), !.kept = r.kept] ELSE Idle

DeleteIndex(p) ==
  /\ At(p, "delete_index")
  /\ index' = [index EXCEPT ![request[p].index] = {}]
  /\ request' = [request EXCEPT ![p] =
       IF @.index = ListsIndex THEN AfterInvalidation(@)
                               ELSE [@ EXCEPT !.pc = "read_index", !.index = ListsIndex]]
  /\ UNCHANGED <<store, cache, writes, faults>>

\* What a request that stops here leaves in doubt.
LeaveInDoubt(p) ==
  cache' = [k \in Keys |->
    IF \/ Writing(p) /\ k \in Touched(request[p].ref)
       \/ At(p, "index") /\ k = request[p].key
    THEN Doubted(cache[k]) ELSE cache[k]]

\* A call to Redis raises during the invalidation: _invalidate_for_reference
\* logs the error and returns, the rest is not cleared, and the request goes
\* on.  The request has kept the entry if the first call is the one that
\* raised; a DEL whose answer is lost is DeleteEntry and then this.
InvalidationRaises(p) ==
  /\ Invalidating(p) /\ faults < MaxFaults
  /\ faults' = faults + 1
  /\ request' = [request EXCEPT ![p] = AfterInvalidation([@ EXCEPT !.kept = At(p, "delete_entry")])]
  /\ LeaveInDoubt(p)
  /\ UNCHANGED <<store, index, writes>>
-----------------------------------------------------------------------------
(* Reads: list_journals, get_journal, list_messages.                       *)

\* get_json finds the key and the request is answered.
Hit(p, k) == At(p, "idle") /\ cache[k].held /\ UNCHANGED vars

HitAfterCreate(p) ==
  /\ At(p, "get") /\ cache[request[p].key].held
  /\ request' = [request EXCEPT ![p] = Idle]
  /\ UNCHANGED <<store, cache, index, writes, faults>>

Miss(p, k) ==
  /\ At(p, "idle") \/ (At(p, "get") /\ request[p].key = k)
  /\ ~cache[k].held
  /\ request' = [request EXCEPT ![p] = [Idle EXCEPT !.pc = "fetch", !.key = k,
                                                    !.raced = BeingWritten(k)]]
  /\ UNCHANGED <<store, cache, index, writes, faults>>

Fetch(p) ==
  /\ At(p, "fetch")
  /\ request' = [request EXCEPT ![p].pc = "set", ![p].value = View(request[p].key)]
  /\ UNCHANGED <<store, cache, index, writes, faults>>

\* The marker for a journal that was not found is listed nowhere.
AfterSet(r) ==
  IF r.key[1] = "entry" /\ r.value = Nothing THEN Idle ELSE [r EXCEPT !.pc = "index"]

Held(r, ttl) ==
  [held |-> TRUE, value |-> r.value, ttl |-> ttl, raced |-> r.raced, doubtful |-> FALSE]

\* Mutant of Set: the key is set without a time to live.
SetForever(p) ==
  /\ At(p, "set")
  /\ cache' = [cache EXCEPT ![request[p].key] = Held(request[p], FALSE)]
  /\ request' = [request EXCEPT ![p] = AfterSet(@)]
  /\ UNCHANGED <<store, index, writes, faults>>

Set(p) ==
  /\ At(p, "set")
  /\ cache' = [cache EXCEPT ![request[p].key] = Held(request[p], TRUE)]
  /\ request' = [request EXCEPT ![p] = AfterSet(@)]
  /\ UNCHANGED <<store, index, writes, faults>>

\* Mutant of Index: one index for every key.
IndexInLists(p) ==
  /\ At(p, "index")
  /\ index' = [index EXCEPT ![ListsIndex] = @ \cup {request[p].key}]
  /\ request' = [request EXCEPT ![p] = Idle]
  /\ UNCHANGED <<store, cache, writes, faults>>

Index(p) ==
  LET k == request[p].key IN
  /\ At(p, "index")
  /\ index' = [index EXCEPT ![IndexOf(k)] = @ \cup {k}]
  /\ request' = [request EXCEPT ![p] = Idle]
  /\ UNCHANGED <<store, cache, writes, faults>>
-----------------------------------------------------------------------------
\* Redis drops a key whose time has come.
Expire(k) ==
  /\ cache[k].held /\ cache[k].ttl
  /\ cache' = [cache EXCEPT ![k] = Absent]
  /\ UNCHANGED <<store, index, request, writes, faults>>

\* A call to the store raises, or one to Redis in a read, and the request ends
\* with an error; or the backend goes down, at any point.  A write may have
\* changed the store.
Breaks(p) ==
  /\ ~At(p, "idle") /\ faults < MaxFaults
  /\ faults' = faults + 1
  /\ request' = [request EXCEPT ![p] = Idle]
  /\ LeaveInDoubt(p)
  /\ UNCHANGED <<store, index, writes>>
-----------------------------------------------------------------------------
\* What an operation does next.
Proceed(p) ==
  \/ TouchConversation(p) \/ FindReference(p)
  \/ DeleteEntry(p) \/ ReadIndex(p) \/ DeleteMembers(p) \/ DeleteIndex(p)
  \/ HitAfterCreate(p) \/ (At(p, "get") /\ Miss(p, request[p].key))
  \/ Fetch(p) \/ Set(p) \/ Index(p)

Step(p) ==
  \/ \E ref \in References :
       \/ InsertMessage(p, ref) \/ InsertToolCall(p, ref)
       \/ \E create \in BOOLEAN : Ensure(p, ref, create)
  \/ \E k \in Keys : Hit(p, k) \/ Miss(p, k)
  \/ Proceed(p)
  \/ InvalidationRaises(p) \/ Breaks(p)

Next == (\E p \in Requests : Step(p)) \/ (\E k \in Keys : Expire(k))

\* Every call returns or raises in the end, and every key has a time to live.
Fairness ==
  /\ \A p \in Requests : WF_vars(Proceed(p))
  /\ \A k \in Keys : WF_vars(Expire(k))

Spec == Init /\ [][Next]_vars /\ Fairness
-----------------------------------------------------------------------------
(* Properties.                                                             *)

Entries ==
  [held : BOOLEAN, value : Values, ttl : BOOLEAN, raced : BOOLEAN, doubtful : BOOLEAN]

Operations ==
  [pc : {"idle", "touch", "get_reference", "delete_entry", "read_index", "delete_members",
         "delete_index", "get", "fetch", "set", "index"},
   ref : References \cup {"none"}, create : BOOLEAN, index : Indexes,
   members : SUBSET Keys, key : Keys \cup {NoKey}, value : Values, raced : BOOLEAN,
   kept : BOOLEAN]

\* The control points are the code's; an index lists keys of its own; a write
\* knows its journal and clears the indexes of that journal.
TypeOK ==
  /\ store \in [References -> [row : Nat, messages : Nat, calls : Nat]]
  /\ cache \in [Keys -> Entries]
  /\ index \in [Indexes -> SUBSET Keys]
  /\ request \in [Requests -> Operations]
  /\ writes \in 0..MaxWrites /\ faults \in 0..MaxFaults
  /\ \A i \in Indexes : \A k \in index[i] : IndexOf(k) = i
  /\ \A p \in Requests : Writing(p) =>
       /\ request[p].ref \in References
       /\ request[p].index \in {ListsIndex, RefIndex(request[p].ref)}
       /\ request[p].members \subseteq Touched(request[p].ref)

\* What is held and is not what the store would answer.
Behind(k) == cache[k].held /\ cache[k].value # View(k)

\* A key is behind the store only while a write is on its way to clear it,
\* or after trouble: a write overlapped the read that set it, or its writing
\* or clearing was broken off.  So a request that neither raced nor failed
\* leaves the cache as if the reads had gone to the store, and a client whose
\* write was answered reads what it wrote.
BehindOnlyAfterTrouble ==
  \A k \in Keys : Behind(k) => cache[k].raced \/ cache[k].doubtful \/ BeingWritten(k)

\* GET /today?create=true, which has just created the journal, answers 404 out
\* of the cache in two cases only: the read that set the marker for a missing
\* journal ran into the creation, or this very request's DEL of the entry
\* raised, which get_today_journal is not told.  The marker is listed in no
\* index; a failure after that DEL, or of another write, is no excuse.
CreatedIsFound ==
  [][\A p \in Requests : HitAfterCreate(p) =>
       LET entry == cache[request[p].key] IN
       entry.value # Nothing \/ entry.raced \/ request[p].kept]_vars

\* Whatever raced or failed, no key stays behind for good: once the writes
\* are over the cache agrees with the store, whoever goes on reading.
CatchesUp == <>[](\A k \in Keys : ~Behind(k))
=============================================================================
