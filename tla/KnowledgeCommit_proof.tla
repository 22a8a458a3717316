------------------------- MODULE KnowledgeCommit_proof -------------------------
(***************************************************************************)
(* The requests of KnowledgeCommit, for any messages, requests, token      *)
(* limit and faults.  Nothing is marked that was not queued (QueueInv: all *)
(* that is used of the cut is that EnqueueChunk and MarkChunk look at the  *)
(* same head).  A cut holds each uncommitted message once; from that, an   *)
(* answer covers its listing, and a message is queued twice only by        *)
(* requests that overlapped or failed (CommitInv).  A cut is where it must *)
(* be and nowhere else, row by row (CutSoFar).  And messages are numbered  *)
(* in the order of their inserts.                                          *)
(***************************************************************************)
EXTENDS KnowledgeCommit, MessageStore_proof, SequenceTheorems

\* The fields of a call.
CallShape ==
  /\ call = [r \in Requests |-> call[r]]
  /\ \A r \in Requests :
       call[r] = [pc |-> call[r].pc, chunks |-> call[r].chunks,
                  listed |-> call[r].listed, rivals |-> call[r].rivals]

LEMMA CallShapeNext ==
  ASSUME CallShape, [Next]_vars
  PROVE  CallShape'
<1>1. CASE UNCHANGED call
  BY <1>1 DEF CallShape
<1>2. ASSUME NEW r \in Requests, NEW scope, List(r, scope)
      PROVE  CallShape'
  <2>1. PICK rows \in Listings(scope), window \in Listings(scope) :
          call' = [call EXCEPT ![r] =
            [pc |-> IF ChunksOf(rows, window) = <<>> THEN "conflict" ELSE "enqueue",
             chunks |-> ChunksOf(rows, window),
             listed |-> InScope(scope) \ committed,
             rivals |-> {q \in Requests \ {r} : InProgress(q)}]]
    BY <1>2 DEF List
  <2> QED
    BY <2>1 DEF CallShape
<1>3. ASSUME NEW r \in Requests, NEW o \in Outcomes, EnqueueChunk(r, o)
      PROVE  CallShape'
  BY <1>3 DEF EnqueueChunk, CallShape
<1>4. ASSUME NEW r \in Requests, NEW o \in Outcomes, MarkChunk(r, o)
      PROVE  CallShape'
  BY <1>4 DEF MarkChunk, CallShape
<1>5. ASSUME NEW m \in Messages, StoreMessage(m)
      PROVE  UNCHANGED call
  BY <1>5 DEF StoreMessage
<1>6. CASE UNCHANGED vars
  BY <1>6, <1>1 DEF vars
<1> QED
  BY <1>1, <1>2, <1>3, <1>4, <1>5, <1>6 DEF Next, Serve

\* Jobs stay queued.
LEMMA QueuedStays ==
  ASSUME jobs \subseteq jobs', NEW m, Queued(m)
  PROVE  Queued(m)'
BY DEF Queued

\* Marking a chunk whose messages are queued keeps the invariant, and so does
\* queueing one: the handover of EnqueueChunk to MarkChunk.
LEMMA QueueInvNext ==
  ASSUME CallShape, QueueInv, [Next]_vars
  PROVE  QueueInv'
<1>1. ASSUME NEW m \in Messages, StoreMessage(m)
      PROVE  QueueInv'
  <2>1. UNCHANGED <<call, jobs, committed>>
    BY <1>1 DEF StoreMessage, Insert, BeginInsert, EndInsert
  <2> QED
    BY <2>1 DEF QueueInv, CommittedWasQueued, Queued
<1>2. ASSUME NEW r \in Requests, NEW scope, List(r, scope)
      PROVE  QueueInv'
  <2>1. UNCHANGED <<jobs, committed>>
    BY <1>2 DEF List, store
  <2>2. /\ \A q \in Requests \ {r} : call'[q] = call[q]
        /\ call'[r].pc # "mark"
    BY <1>2 DEF List, CallShape
  <2> QED
    BY <2>1, <2>2 DEF QueueInv, CommittedWasQueued, Queued
<1>3. ASSUME NEW r \in Requests, NEW o \in Outcomes, EnqueueChunk(r, o)
      PROVE  QueueInv'
  <2> DEFINE job == [request |-> r, chunk |-> Head(call[r].chunks)]
  <2>1. /\ committed' = committed
        /\ jobs \subseteq jobs'
        /\ o = "ok" => job \in jobs'
    BY <1>3 DEF EnqueueChunk, store, Happened
  <2>2. /\ \A q \in Requests \ {r} : call'[q] = call[q]
        /\ call'[r].chunks = call[r].chunks
        /\ call'[r].pc = "mark" => o = "ok"
    BY <1>3 DEF EnqueueChunk, CallShape
  <2>3. CommittedWasQueued'
    BY <2>1, QueuedStays DEF QueueInv, CommittedWasQueued
  <2>4. ASSUME NEW q \in Requests, call'[q].pc = "mark",
               NEW m \in ToSet(Head(call'[q].chunks))
        PROVE  Queued(m)'
    <3>1. CASE q = r
      BY <3>1, <2>1, <2>2, <2>4 DEF Queued
    <3>2. CASE q # r
      BY <3>2, <2>1, <2>2, <2>4, QueuedStays DEF QueueInv
    <3> QED
      BY <3>1, <3>2
  <2> QED
    BY <2>3, <2>4 DEF QueueInv
<1>4. ASSUME NEW r \in Requests, NEW o \in Outcomes, MarkChunk(r, o)
      PROVE  QueueInv'
  <2>1. /\ call[r].pc = "mark"
        /\ jobs' = jobs
        /\ committed' \subseteq committed \cup ToSet(Head(call[r].chunks))
    BY <1>4 DEF MarkChunk
  <2> DEFINE rest == Tail(call[r].chunks)
             next == IF o # "ok" THEN "failed"
                     ELSE IF rest = <<>> THEN "replied" ELSE "enqueue"
  <2>2. call' = [call EXCEPT ![r] = [@ EXCEPT !.chunks = rest, !.pc = next]]
    BY <1>4 DEF MarkChunk
  <2>3. next # "mark"
    OBVIOUS
  <2>4. /\ \A q \in Requests \ {r} : call'[q] = call[q]
        /\ call'[r].pc # "mark"
    <3> HIDE DEF rest, next
    <3>1. DOMAIN call = Requests
      BY DEF CallShape
    <3>2. call'[r] = [call[r] EXCEPT !.chunks = rest, !.pc = next]
      BY <2>2, <3>1
    <3>3. "pc" \in DOMAIN call[r]
      BY DEF CallShape
    <3>4. call'[r].pc = next
      BY <3>2, <3>3
    <3> QED
      BY <2>2, <2>3, <3>1, <3>4
  <2>5. \A m : Queued(m) => Queued(m)'
    BY <2>1, QueuedStays
  <2>6. CommittedWasQueued'
    BY <2>1, <2>5 DEF QueueInv, CommittedWasQueued
  <2> QED
    BY <2>4, <2>5, <2>6 DEF QueueInv
<1>5. CASE UNCHANGED vars
  BY <1>5 DEF vars, store, QueueInv, CommittedWasQueued, Queued
<1> QED
  BY <1>1, <1>2, <1>3, <1>4, <1>5 DEF Next, Serve

\* Nothing is marked, and never listed again, that was not queued.
THEOREM NothingIsLost == Spec => []CommittedWasQueued
<1>1. Init => CallShape /\ QueueInv
  BY DEF Init, StoreInit, IdleCall, CallShape, QueueInv, CommittedWasQueued
<1>2. CallShape /\ QueueInv /\ [Next]_vars => CallShape' /\ QueueInv'
  BY CallShapeNext, QueueInvNext
<1>3. CallShape /\ QueueInv => CommittedWasQueued
  BY DEF QueueInv
<1> QED
  BY <1>1, <1>2, <1>3, PTL DEF Spec
-----------------------------------------------------------------------------
\* Requests do not touch the rows' numbers.
LEMMA StoreInvNext == StoreInv /\ [Next]_vars => StoreInv'
<1> SUFFICES ASSUME StoreInv, [Next]_vars
             PROVE  StoreInv'
  OBVIOUS
<1>1. ASSUME NEW m \in Messages, StoreMessage(m)
      PROVE  StoreInv'
  BY <1>1, InsertKeeps DEF StoreMessage
<1>2. CASE UNCHANGED <<insert, sequence>>
  BY <1>2, StoreInvStutter
<1>3. ASSUME NEW r \in Requests, NEW scope, List(r, scope)
      PROVE  UNCHANGED <<insert, sequence>>
  BY <1>3 DEF List, store
<1>4. ASSUME NEW r \in Requests, Serve(r)
      PROVE  UNCHANGED <<insert, sequence>>
  BY <1>4 DEF Serve, EnqueueChunk, MarkChunk, store
<1>5. UNCHANGED vars => UNCHANGED <<insert, sequence>>
  BY DEF vars, store
<1> QED
  BY <1>1, <1>2, <1>3, <1>4, <1>5 DEF Next

\* A message whose insert began when another one of its journal was stored
\* has the higher number, whatever overlaps or raises.
THEOREM NumbersFollowTime == Spec => []HigherIsNewer
<1>1. Init => StoreInv
  BY StoreInvInit DEF Init
<1>2. StoreInv => HigherIsNewer
  BY DEF StoreInv
<1> QED
  BY <1>1, <1>2, StoreInvNext, PTL DEF Spec
-----------------------------------------------------------------------------
(* What a cut consists of.  The theorems on induction do not apply to the  *)
(* recursive function Cutting, so both that it exists and what it computes *)
(* are shown by way of a least counterexample.                             *)

Chunk == Seq(Messages) \ {<<>>}

Partial == [done : Seq(Chunk), chunk : Seq(Messages), tokens : Nat]

Content(chunks) == UNION {ToSet(chunks[i]) : i \in DOMAIN chunks}

Holds(acc) == Content(acc.done) \cup ToSet(acc.chunk)

\* No message is in two chunks.
Apart(chunks) ==
  \A i, k \in DOMAIN chunks : i # k => ToSet(chunks[i]) \cap ToSet(chunks[k]) = {}

\* A chunk has messages of one journal, each once, in the order of their numbers.
OneJournal(chunk) ==
  \A i, k \in DOMAIN chunk : i < k =>
    /\ chunk[i] # chunk[k]
    /\ Journal[chunk[i]] = Journal[chunk[k]]
    /\ sequence[chunk[i]] <= sequence[chunk[k]]

Tidy(acc) ==
  /\ OneJournal(acc.chunk) /\ \A i \in DOMAIN acc.done : OneJournal(acc.done[i])
  /\ Apart(acc.done)
  /\ \A i \in DOMAIN acc.done : ToSet(acc.done[i]) \cap ToSet(acc.chunk) = {}

LEMMA ToSetAppend ==
  ASSUME NEW S, NEW q \in Seq(S), NEW x \in S
  PROVE  /\ ToSet(Append(q, x)) = ToSet(q) \cup {x}
         /\ DOMAIN Append(q, x) = DOMAIN q \cup {Len(q) + 1}
         /\ \A i \in DOMAIN q : Append(q, x)[i] = q[i]
         /\ Append(q, x)[Len(q) + 1] = x
         /\ Len(q) + 1 \notin DOMAIN q
         /\ Append(q, x) \in Seq(S) /\ Append(q, x) # <<>>
<1>1. /\ DOMAIN q = 1 .. Len(q) /\ Len(q) \in Nat
      /\ Append(q, x) \in Seq(S)
      /\ DOMAIN Append(q, x) = 1 .. Len(q) + 1
      /\ \A i \in 1 .. Len(q) : Append(q, x)[i] = q[i]
      /\ Append(q, x)[Len(q) + 1] = x
  BY AppendProperties, LenProperties
<1>2. 1 .. Len(q) + 1 = (1 .. Len(q)) \cup {Len(q) + 1} /\ Len(q) + 1 \notin 1 .. Len(q)
  BY <1>1
<1>3. Append(q, x) # <<>>
  BY <1>1, EmptySeq, LenProperties
<1> QED
  BY <1>1, <1>2, <1>3 DEF ToSet

\* m may follow the messages of the chunk that is open.
Follows(acc, m) ==
  /\ acc.chunk = <<>> \/ Journal[Last(acc.chunk)] = Journal[m]
  /\ \A n \in Holds(acc) : Journal[n] = Journal[m] => sequence[n] <= sequence[m]

LEMMA FlushKeeps ==
  ASSUME NEW acc \in Partial, Tidy(acc)
  PROVE  /\ Flush(acc) \in Partial /\ Flush(acc).chunk = <<>>
         /\ Tidy(Flush(acc)) /\ Holds(Flush(acc)) = Holds(acc)
<1>1. CASE acc.chunk = <<>>
  BY <1>1 DEF Flush
<1>2. CASE acc.chunk # <<>>
  <2>1. /\ acc.done \in Seq(Chunk) /\ acc.chunk \in Chunk
    BY <1>2 DEF Partial, Chunk
  <2>2. /\ Flush(acc).done = Append(acc.done, acc.chunk) /\ Flush(acc).chunk = <<>>
        /\ Flush(acc).tokens = 0
        /\ Flush(acc) = [done |-> Append(acc.done, acc.chunk), chunk |-> <<>>, tokens |-> 0]
    BY <1>2 DEF Flush
  <2>3. ToSet(<<>>) = {} /\ <<>> \in Seq(Messages) /\ OneJournal(<<>>)
    BY EmptySeq, LenProperties DEF ToSet, OneJournal
  <2>4. Append(acc.done, acc.chunk) \in Seq(Chunk)
    BY <2>1, ToSetAppend
  <2>5. Flush(acc) \in Partial
    BY <2>2, <2>3, <2>4 DEF Partial
  <2> DEFINE n == Len(acc.done) + 1
             done == Append(acc.done, acc.chunk)
  <2>6. /\ DOMAIN done = DOMAIN acc.done \cup {n} /\ n \notin DOMAIN acc.done
        /\ \A i \in DOMAIN acc.done : done[i] = acc.done[i]
        /\ done[n] = acc.chunk
    BY <2>1, ToSetAppend
  <2> HIDE DEF n, done
  <2>7. Apart(done)
    BY <2>6 DEF Apart, Tidy
  <2>8. Content(done) = Holds(acc)
    BY <2>6 DEF Holds, Content
  <2>9. \A i \in DOMAIN done : OneJournal(done[i])
    BY <2>6 DEF Tidy
  <2> QED
    BY <2>2, <2>3, <2>5, <2>7, <2>8, <2>9 DEF Tidy, Holds, done
<1> QED
  BY <1>1, <1>2

LEMMA ExtendKeeps ==
  ASSUME NEW acc \in Partial, Tidy(acc), NEW m \in Messages, m \notin Holds(acc),
         Follows(acc, m)
  PROVE  /\ Extend(acc, m) \in Partial
         /\ Tidy(Extend(acc, m)) /\ Holds(Extend(acc, m)) = Holds(acc) \cup {m}
<1> DEFINE next == Extend(acc, m)
<1>1. next = [done |-> acc.done, chunk |-> Append(acc.chunk, m), tokens |-> acc.tokens + Tokens[m]]
  BY DEF Extend
<1>2. /\ ToSet(Append(acc.chunk, m)) = ToSet(acc.chunk) \cup {m}
      /\ Append(acc.chunk, m) \in Seq(Messages)
  BY ToSetAppend DEF Partial
<1>3. acc.tokens + Tokens[m] \in Nat
  BY TokenAssumption DEF Partial
<1> HIDE DEF next
<1>4. /\ next \in Partial /\ next.done = acc.done /\ next.chunk = Append(acc.chunk, m)
  BY <1>1, <1>2, <1>3 DEF Partial
<1>5. \A i \in DOMAIN acc.done : m \notin ToSet(acc.done[i])
  BY DEF Holds, Content
<1>6. OneJournal(next.chunk)
  <2> DEFINE old == acc.chunk
             n == Len(old)
  <2>1. /\ old \in Seq(Messages) /\ n \in Nat /\ DOMAIN old = 1 .. n
        /\ DOMAIN next.chunk = (1 .. n) \cup {n + 1}
        /\ \A i \in 1 .. n : next.chunk[i] = old[i]
        /\ next.chunk[n + 1] = m
        /\ OneJournal(old)
    BY <1>4, ToSetAppend, LenProperties DEF Partial, Tidy
  <2>2. ASSUME NEW i \in 1 .. n
        PROVE  /\ old[i] # m
             /\ Journal[old[i]] = Journal[m] /\ sequence[old[i]] <= sequence[m]
    <3>1. old # <<>> /\ n \in 1 .. n /\ (i = n \/ i < n)
      BY <2>1, <2>2, EmptySeq
    <3>2. Journal[old[n]] = Journal[m]
      BY <3>1 DEF Follows, Last
    <3>3. Journal[old[i]] = Journal[old[n]]
      BY <2>1, <3>1 DEF OneJournal
    <3>4. old[i] \in Holds(acc)
      BY <2>1 DEF Holds, ToSet
    <3> QED
      BY <3>2, <3>3, <3>4 DEF Follows
  <2> HIDE DEF n, old
  <2>3. \A i, k \in (1 .. n) \cup {n + 1} : i < k => i \in 1 .. n /\ (k \in 1 .. n \/ k = n + 1)
    BY <2>1
  <2> QED
    BY <2>1, <2>2, <2>3 DEF OneJournal
<1> QED
  BY <1>1, <1>2, <1>4, <1>5, <1>6 DEF next, Tidy, Holds

LEMMA RowKeeps ==
  ASSUME NEW acc \in Partial, Tidy(acc), NEW m \in Messages, m \notin Holds(acc),
         NEW afterCommitted,
         \A n \in Holds(acc) : Journal[n] = Journal[m] => sequence[n] <= sequence[m]
  PROVE  /\ TakeRow(acc, m, afterCommitted) \in Partial
         /\ Tidy(TakeRow(acc, m, afterCommitted))
         /\ Holds(TakeRow(acc, m, afterCommitted)) = Holds(acc) \cup ({m} \ committed)
<1>1. /\ Flush(acc) \in Partial /\ Tidy(Flush(acc)) /\ Holds(Flush(acc)) = Holds(acc)
      /\ Follows(Flush(acc), m)
  BY FlushKeeps DEF Follows
<1>2. ASSUME NEW a \in Partial, Tidy(a), Holds(a) = Holds(acc), Follows(a, m)
      PROVE  /\ TakeMessage(a, m) \in Partial /\ Tidy(TakeMessage(a, m))
             /\ Holds(TakeMessage(a, m)) = Holds(acc) \cup {m}
  <2>1. Flush(a) \in Partial /\ Tidy(Flush(a)) /\ Holds(Flush(a)) = Holds(a)
        /\ Follows(Flush(a), m)
    BY <1>2, FlushKeeps DEF Follows
  <2> QED
    BY <1>2, <2>1, ExtendKeeps DEF TakeMessage
<1>3. CASE m \in committed
  BY <1>1, <1>3 DEF TakeRow
<1>4. CASE m \notin committed
  <2>1. \/ TakeRow(acc, m, afterCommitted) = TakeMessage(Flush(acc), m)
        \/ TakeRow(acc, m, afterCommitted) = TakeMessage(acc, m) /\ Follows(acc, m)
    BY <1>4 DEF TakeRow, Follows
  <2> QED
    BY <1>1, <1>2, <1>4, <2>1
<1> QED
  BY <1>3, <1>4

\* Cutting is the function its equation describes.
LEMMA CuttingSteps ==
  ASSUME NEW rows, Len(rows) \in Nat, NEW window
  PROVE  /\ Cutting(rows, window)[0] = NoChunks
         /\ \A i \in 1 .. Len(rows) :
              Cutting(rows, window)[i] =
                TakeRow(Cutting(rows, window)[i - 1], rows[i],
                        PreviousCommitted(window, rows[i]))
<1> DEFINE Row(acc, i) == TakeRow(acc, rows[i], PreviousCommitted(window, rows[i]))
           Cuts(f, n) == f = [i \in 0 .. n |-> IF i = 0 THEN NoChunks ELSE Row(f[i - 1], i)]
           Stuck == {n \in Nat : ~ \E f : Cuts(f, n)}
<1> HIDE DEF Row
<1>1. Stuck = {}
  <2> SUFFICES ASSUME Stuck # {}
               PROVE  FALSE
    OBVIOUS
  <2>1. PICK n \in Stuck : \A k \in Stuck : n <= k
    <3> HIDE DEF Stuck
    <3>1. Stuck \in SUBSET Nat
      BY DEF Stuck
    <3> QED
      BY <3>1, Smallest
  <2>2. n # 0
    <3>1. Cuts([i \in 0 .. 0 |-> NoChunks], 0)
      OBVIOUS
    <3> QED
      BY <3>1, <2>1
  <2>3. n - 1 \in Nat /\ n - 1 \notin Stuck
    <3>1. n \in Nat
      BY <2>1
    <3>2. n - 1 \in Nat /\ ~ (n <= n - 1)
      BY <2>2, <3>1
    <3> HIDE DEF Stuck
    <3> QED
      BY <2>1, <3>2
  <2>4. PICK f : Cuts(f, n - 1)
    BY <2>3
  <2> DEFINE g == [i \in 0 .. n |-> IF i = 0 THEN NoChunks ELSE Row(f[i - 1], i)]
  <2>5. \A i \in 0 .. n - 1 : g[i] = f[i]
    BY <2>3, <2>4
  <2>6. \A i \in 0 .. n : i # 0 => g[i] = Row(g[i - 1], i)
    <3>1. \A i \in 0 .. n : i # 0 => i - 1 \in 0 .. n - 1
      BY <2>3
    <3> QED
      BY <3>1, <2>5
  <2>7. Cuts(g, n)
    BY <2>6
  <2> QED
    BY <2>1, <2>7
<1>2. Cuts(Cutting(rows, window), Len(rows))
  <2>1. \E f : Cuts(f, Len(rows))
    BY <1>1
  <2>2. Cutting(rows, window) = CHOOSE f : Cuts(f, Len(rows))
    BY DEF Cutting, Row
  <2> HIDE DEF Cuts
  <2> QED
    BY <2>1, <2>2
<1>3. /\ 0 \in 0 .. Len(rows)
      /\ \A i \in 1 .. Len(rows) : i \in 0 .. Len(rows) /\ i # 0
  OBVIOUS
<1> DEFINE cut == Cutting(rows, window)
<1>4. cut = [i \in 0 .. Len(rows) |-> IF i = 0 THEN NoChunks ELSE Row(cut[i - 1], i)]
  BY <1>2
<1> HIDE DEF cut
<1>5. cut[0] = NoChunks /\ \A i \in 1 .. Len(rows) : cut[i] = Row(cut[i - 1], i)
  BY <1>3, <1>4
<1> QED
  BY <1>5 DEF cut, Row

\* A listing has every row of its scope, once.
LEMMA ListingRows ==
  ASSUME StoreInv, NEW scope, NEW rows \in Listings(scope)
  PROVE  /\ Len(rows) \in Nat /\ DOMAIN rows = 1 .. Len(rows)
         /\ ToSet(rows) = InScope(scope)
         /\ \A i, k \in DOMAIN rows : i # k => rows[i] # rows[k]
         /\ \A i, k \in DOMAIN rows : i < k /\ Journal[rows[i]] = Journal[rows[k]] =>
              sequence[rows[i]] <= sequence[rows[k]]
<1> DEFINE S == InScope(scope)
           n == Cardinality(S)
<1>1. IsFiniteSet(S)
  <2>1. S \in SUBSET Stored /\ IsFiniteSet(Stored)
    BY DEF InScope, StoreInv
  <2> QED
    BY <2>1, FS_Subset
<1>2. n \in Nat /\ IsFiniteSet(1 .. n) /\ Cardinality(1 .. n) = n
  <2>1. n \in Nat
    BY <1>1, FS_CardinalityType
  <2>2. IsFiniteSet(1 .. n) /\ Cardinality(1 .. n) = IF 1 > n THEN 0 ELSE n - 1 + 1
    BY <2>1, FS_Interval
  <2> HIDE DEF n
  <2> QED
    BY <2>1, <2>2
<1>3. /\ rows \in [1 .. n -> S]
      /\ \A i, k \in 1 .. n : i # k => rows[i] # rows[k]
  BY DEF Listings, SetToSeqs
<1>4. rows \in Injection(1 .. n, S)
  BY <1>3 DEF Injection, IsInjective
<1>5. rows \in Surjection(1 .. n, S)
  <2>1. Cardinality(1 .. n) = Cardinality(S) <=> rows \in Surjection(1 .. n, S)
    BY <1>1, <1>4, FS_Injection
  <2> QED
    BY <1>2, <2>1
<1> HIDE DEF n, S
<1>6. \A x \in S : \E i \in 1 .. n : rows[i] = x
  BY <1>5 DEF Surjection
<1>7. DOMAIN rows = 1 .. n /\ rows \in Seq(S) /\ Len(rows) = n
  <2>1. rows \in Seq(S)
    BY <1>2, <1>3, SeqDef
  <2>2. DOMAIN rows = 1 .. n /\ DOMAIN rows = 1 .. Len(rows) /\ Len(rows) \in Nat
    BY <1>3, <2>1, LenProperties
  <2> QED
    BY <1>2, <2>1, <2>2
<1>8. ToSet(rows) = S
  BY <1>3, <1>6, <1>7 DEF ToSet
<1>9. \A i, k \in DOMAIN rows : i < k /\ Journal[rows[i]] = Journal[rows[k]] =>
        sequence[rows[i]] <= sequence[rows[k]]
  <2>1. \A i \in DOMAIN rows : Journal[rows[i]] \in Nat
    BY <1>3, MessageAssumption DEF S, InScope, Stored
  <2>2. \A x, y \in Nat : x = y => ~ (x < y)
    OBVIOUS
  <2> QED
    BY <2>1, <2>2 DEF Listings
<1> QED
  BY <1>2, <1>3, <1>7, <1>8, <1>9 DEF S

\* After i rows the chunks hold those of them that were not committed.
Seen(rows, i) == {rows[k] : k \in 1 .. i}

LEMMA CuttingGoes ==
  ASSUME StoreInv, NEW scope, NEW rows \in Listings(scope), NEW window
  PROVE  \A i \in 0 .. Len(rows) :
           /\ Cutting(rows, window)[i] \in Partial /\ Tidy(Cutting(rows, window)[i])
           /\ Holds(Cutting(rows, window)[i]) = Seen(rows, i) \ committed
<1> DEFINE cut == Cutting(rows, window)
           Good(i) == /\ cut[i] \in Partial /\ Tidy(cut[i])
                      /\ Holds(cut[i]) = Seen(rows, i) \ committed
           Bad == {i \in 0 .. Len(rows) : ~ Good(i)}
<1>1. /\ Len(rows) \in Nat /\ DOMAIN rows = 1 .. Len(rows)
      /\ ToSet(rows) = InScope(scope)
      /\ \A i, k \in DOMAIN rows : i # k => rows[i] # rows[k]
      /\ \A i, k \in DOMAIN rows : i < k /\ Journal[rows[i]] = Journal[rows[k]] =>
           sequence[rows[i]] <= sequence[rows[k]]
  BY ListingRows
<1>2. \A i \in 1 .. Len(rows) : rows[i] \in Messages
  BY <1>1 DEF ToSet, InScope, Stored
<1>3. /\ cut[0] = NoChunks
      /\ \A i \in 1 .. Len(rows) :
           cut[i] = TakeRow(cut[i - 1], rows[i], PreviousCommitted(window, rows[i]))
  BY <1>1, CuttingSteps
<1> HIDE DEF cut
<1>4. Good(0)
  <2>1. /\ <<>> \in Seq(Chunk) /\ <<>> \in Seq(Messages) /\ DOMAIN <<>> = {}
    BY EmptySeq, LenProperties
  <2>2. cut[0] \in Partial /\ cut[0].done = <<>> /\ cut[0].chunk = <<>>
    BY <1>3, <2>1 DEF NoChunks, Partial
  <2>3. Seen(rows, 0) = {}
    BY DEF Seen
  <2> QED
    BY <2>1, <2>2, <2>3 DEF Tidy, Apart, OneJournal, Holds, Content, ToSet
<1>5. ASSUME NEW i \in 1 .. Len(rows), Good(i - 1)
      PROVE  Good(i)
  <2>1. rows[i] \in Messages
    BY <1>2
  <2>2. Seen(rows, i) = Seen(rows, i - 1) \cup {rows[i]}
    <3>1. 1 .. i = (1 .. i - 1) \cup {i}
      BY <1>1
    <3> QED
      BY <3>1 DEF Seen
  <2>3. rows[i] \notin Seen(rows, i - 1)
    <3>1. \A k \in 1 .. i - 1 : k \in DOMAIN rows /\ i \in DOMAIN rows /\ k # i
      BY <1>1
    <3> QED
      BY <1>1, <3>1 DEF Seen
  <2>4. \A n \in Seen(rows, i - 1) :
          Journal[n] = Journal[rows[i]] => sequence[n] <= sequence[rows[i]]
    <3>1. \A k \in 1 .. i - 1 : k \in DOMAIN rows /\ i \in DOMAIN rows /\ k < i
      BY <1>1
    <3> QED
      BY <1>1, <3>1 DEF Seen
  <2>5. \A n \in Holds(cut[i - 1]) :
          Journal[n] = Journal[rows[i]] => sequence[n] <= sequence[rows[i]]
    BY <1>5, <2>4
  <2>6. rows[i] \notin Holds(cut[i - 1])
    BY <1>5, <2>3
  <2> DEFINE after == PreviousCommitted(window, rows[i])
  <2>7. cut[i] = TakeRow(cut[i - 1], rows[i], after)
    BY <1>3
  <2> HIDE DEF after
  <2>8. /\ cut[i] \in Partial /\ Tidy(cut[i])
        /\ Holds(cut[i]) = Holds(cut[i - 1]) \cup ({rows[i]} \ committed)
    BY <1>5, <2>1, <2>5, <2>6, <2>7, RowKeeps
  <2> QED
    BY <1>5, <2>2, <2>8
<1> HIDE DEF Good
<1>6. Bad = {}
  <2> SUFFICES ASSUME Bad # {}
               PROVE  FALSE
    OBVIOUS
  <2>1. PICK i \in Bad : \A k \in Bad : i <= k
    <3> HIDE DEF Bad
    <3>1. Bad \in SUBSET Nat
      BY DEF Bad
    <3> QED
      BY <3>1, Smallest
  <2>2. i \in 0 .. Len(rows) /\ i # 0 /\ ~ Good(i)
    BY <1>4, <2>1
  <2>3. i \in 1 .. Len(rows) /\ i - 1 \in 0 .. Len(rows) /\ ~ (i <= i - 1)
    BY <1>1, <2>2
  <2>4. Good(i - 1)
    BY <2>1, <2>3
  <2> QED
    BY <1>5, <2>2, <2>3, <2>4
<1>7. \A i \in 0 .. Len(rows) : Good(i)
  BY <1>6
<1> QED
  BY <1>7 DEF Good, cut

LEMMA CuttingKeeps ==
  ASSUME StoreInv, NEW scope, NEW rows \in Listings(scope), NEW window
  PROVE  LET acc == Cutting(rows, window)[Len(rows)]
         IN  /\ acc \in Partial /\ Tidy(acc)
             /\ Holds(acc) = InScope(scope) \ committed
<1>1. Len(rows) \in 0 .. Len(rows) /\ Seen(rows, Len(rows)) = InScope(scope)
  BY ListingRows DEF ToSet, Seen
<1> QED
  BY <1>1, CuttingGoes

\* However the rows tie and whatever the limit: each uncommitted message of the
\* scope is in one chunk, and a chunk has messages of one journal, in order.
THEOREM CutCovers ==
  ASSUME StoreInv, NEW scope, NEW rows \in Listings(scope), NEW window
  PROVE  /\ ChunksOf(rows, window) \in Seq(Chunk)
         /\ Apart(ChunksOf(rows, window))
         /\ Content(ChunksOf(rows, window)) = InScope(scope) \ committed
         /\ \A i \in DOMAIN ChunksOf(rows, window) : OneJournal(ChunksOf(rows, window)[i])
<1> DEFINE acc == Cutting(rows, window)[Len(rows)]
<1>1. /\ acc \in Partial /\ Tidy(acc)
      /\ Holds(acc) = InScope(scope) \ committed
  BY CuttingKeeps
<1> HIDE DEF acc
<1>2. /\ Flush(acc) \in Partial /\ Flush(acc).chunk = <<>>
      /\ Tidy(Flush(acc)) /\ Holds(Flush(acc)) = Holds(acc)
  BY <1>1, FlushKeeps
<1>3. ToSet(<<>>) = {}
  BY EmptySeq, LenProperties DEF ToSet
<1>4. ChunksOf(rows, window) = Flush(acc).done
  BY DEF ChunksOf, acc
<1> QED
  BY <1>1, <1>2, <1>3, <1>4 DEF Partial, Tidy, Holds
-----------------------------------------------------------------------------
(* Why a cut is where it is: the token sums, what parts two rows, and what *)
(* is known of the open chunk after each row.                              *)

\* The sums TokensOf takes.
Running(q) ==
  LET sum[i \in 0 .. Len(q)] == IF i = 0 THEN 0 ELSE sum[i - 1] + Tokens[q[i]]
  IN sum

\* Running is the function its equation describes.
LEMMA RunningSteps ==
  ASSUME NEW q, Len(q) \in Nat
  PROVE  /\ Running(q)[0] = 0
         /\ \A i \in 1 .. Len(q) : Running(q)[i] = Running(q)[i - 1] + Tokens[q[i]]
<1> DEFINE Row(sum, i) == sum + Tokens[q[i]]
           Sums(f, n) == f = [i \in 0 .. n |-> IF i = 0 THEN 0 ELSE Row(f[i - 1], i)]
           Stuck == {n \in Nat : ~ \E f : Sums(f, n)}
<1> HIDE DEF Row
<1>1. Stuck = {}
  <2> SUFFICES ASSUME Stuck # {}
               PROVE  FALSE
    OBVIOUS
  <2>1. PICK n \in Stuck : \A k \in Stuck : n <= k
    <3> HIDE DEF Stuck
    <3>1. Stuck \in SUBSET Nat
      BY DEF Stuck
    <3> QED
      BY <3>1, Smallest
  <2>2. n # 0
    <3>1. Sums([i \in 0 .. 0 |-> 0], 0)
      OBVIOUS
    <3> QED
      BY <3>1, <2>1
  <2>3. n - 1 \in Nat /\ n - 1 \notin Stuck
    <3>1. n \in Nat
      BY <2>1
    <3>2. n - 1 \in Nat /\ ~ (n <= n - 1)
      BY <2>2, <3>1
    <3> HIDE DEF Stuck
    <3> QED
      BY <2>1, <3>2
  <2>4. PICK f : Sums(f, n - 1)
    BY <2>3
  <2> DEFINE g == [i \in 0 .. n |-> IF i = 0 THEN 0 ELSE Row(f[i - 1], i)]
  <2>5. \A i \in 0 .. n - 1 : g[i] = f[i]
    BY <2>3, <2>4
  <2>6. \A i \in 0 .. n : i # 0 => g[i] = Row(g[i - 1], i)
    <3>1. \A i \in 0 .. n : i # 0 => i - 1 \in 0 .. n - 1
      BY <2>3
    <3> QED
      BY <3>1, <2>5
  <2>7. Sums(g, n)
    BY <2>6
  <2> QED
    BY <2>1, <2>7
<1>2. Sums(Running(q), Len(q))
  <2>1. \E f : Sums(f, Len(q))
    BY <1>1
  <2>2. Running(q) = CHOOSE f : Sums(f, Len(q))
    BY DEF Running, Row
  <2> HIDE DEF Sums
  <2> QED
    BY <2>1, <2>2
<1>3. /\ 0 \in 0 .. Len(q)
      /\ \A i \in 1 .. Len(q) : i \in 0 .. Len(q) /\ i # 0
  OBVIOUS
<1> DEFINE sum == Running(q)
<1>4. sum = [i \in 0 .. Len(q) |-> IF i = 0 THEN 0 ELSE Row(sum[i - 1], i)]
  BY <1>2
<1> HIDE DEF sum
<1>5. sum[0] = 0 /\ \A i \in 1 .. Len(q) : sum[i] = Row(sum[i - 1], i)
  BY <1>3, <1>4
<1> QED
  BY <1>5 DEF sum, Row

\* The tokens of a chunk grow by those of the message that is added.
LEMMA TokensAdd ==
  ASSUME NEW q \in Seq(Messages), NEW m \in Messages
  PROVE  TokensOf(Append(q, m)) = TokensOf(q) + Tokens[m]
<1> DEFINE longer == Append(q, m)
           n == Len(q)
           Differ == {i \in 0 .. n : Running(longer)[i] # Running(q)[i]}
<1>1. /\ n \in Nat /\ Len(longer) \in Nat /\ Len(longer) = n + 1
      /\ longer[n + 1] = m /\ \A i \in 1 .. n : longer[i] = q[i]
  BY AppendProperties, LenProperties
<1> HIDE DEF longer, n
<1>2. /\ Running(q)[0] = 0
      /\ \A i \in 1 .. n : Running(q)[i] = Running(q)[i - 1] + Tokens[q[i]]
  BY <1>1, RunningSteps DEF n
<1>3. /\ Running(longer)[0] = 0
      /\ \A i \in 1 .. n + 1 :
           Running(longer)[i] = Running(longer)[i - 1] + Tokens[longer[i]]
  BY <1>1, RunningSteps
<1>4. Differ = {}
  <2> SUFFICES ASSUME Differ # {}
               PROVE  FALSE
    OBVIOUS
  <2>1. PICK i \in Differ : \A k \in Differ : i <= k
    <3> HIDE DEF Differ
    <3>1. Differ \in SUBSET Nat
      BY <1>1 DEF Differ
    <3> QED
      BY <3>1, Smallest
  <2>2. i \in 1 .. n /\ i - 1 \in 0 .. n /\ ~ (i <= i - 1) /\ i \in 1 .. n + 1
    <3>1. i \in 0 .. n /\ i # 0
      BY <1>2, <1>3, <2>1
    <3> QED
      BY <1>1, <3>1
  <2>3. Running(longer)[i - 1] = Running(q)[i - 1]
    BY <2>1, <2>2
  <2> QED
    BY <1>1, <1>2, <1>3, <2>1, <2>2, <2>3
<1>5. n \in 0 .. n /\ n + 1 \in 1 .. n + 1 /\ (n + 1) - 1 = n
  BY <1>1
<1>6. Running(longer)[n + 1] = Running(q)[n] + Tokens[m]
  BY <1>1, <1>3, <1>4, <1>5
<1>7. TokensOf(longer) = Running(longer)[n + 1] /\ TokensOf(q) = Running(q)[n]
  BY <1>1 DEF TokensOf, Running, n
<1> QED
  BY <1>6, <1>7 DEF longer

LEMMA NoTokens == TokensOf(<<>>) = 0
<1>1. Len(<<>>) = 0
  BY EmptySeq, LenProperties
<1>2. Len(<<>>) \in Nat
  BY <1>1
<1>3. TokensOf(<<>>) = Running(<<>>)[0]
  BY <1>1 DEF TokensOf, Running
<1> QED
  BY <1>2, <1>3, RunningSteps

\* Committed messages with a number between those of m and n.
CommittedBetween(m, n) ==
  {k \in committed : /\ Journal[k] = Journal[m]
                     /\ sequence[m] < sequence[k]
                     /\ sequence[k] < sequence[n]}

\* A chunk keeps to the limit and spans no committed message.
Sound(chunk) ==
  /\ TokensOf(chunk) <= TokenLimit \/ Len(chunk) = 1
  /\ \A i, k \in DOMAIN chunk : CommittedBetween(chunk[i], chunk[k]) = {}

\* Why two messages cannot be in one chunk: another journal, or a committed
\* message between them; numbers that tie may part as well.
Parted(last, next) ==
  \/ Journal[last] # Journal[next]
  \/ sequence[last] = sequence[next]
  \/ \E k \in committed : /\ Journal[k] = Journal[last]
                          /\ sequence[last] <= sequence[k]
                          /\ sequence[k] <= sequence[next]

Forced(chunk, next) ==
  Parted(Last(chunk), next) \/ TokensOf(chunk) + Tokens[next] > TokenLimit

Seamless(acc) ==
  /\ \A i \in DOMAIN acc.done : Sound(acc.done[i])
  /\ \A i \in 1 .. Len(acc.done) - 1 : Forced(acc.done[i], Head(acc.done[i + 1]))
  /\ acc.chunk # <<>> =>
       /\ Sound(acc.chunk)
       /\ acc.done # <<>> => Forced(Last(acc.done), Head(acc.chunk))

\* The ends of a sequence that is added to.
LEMMA LastOfAppend ==
  ASSUME NEW S, NEW q \in Seq(S), NEW x \in S
  PROVE  /\ Last(Append(q, x)) = x
         /\ Head(Append(q, x)) = IF q = <<>> THEN x ELSE Head(q)
<1>1. /\ Len(q) \in Nat /\ Append(q, x) \in Seq(S) /\ Len(Append(q, x)) = Len(q) + 1
      /\ \A i \in 1 .. Len(q) : Append(q, x)[i] = q[i]
      /\ Append(q, x)[Len(q) + 1] = x
  BY AppendProperties, LenProperties
<1>2. Last(Append(q, x)) = x
  BY <1>1 DEF Last
<1>3. Head(Append(q, x)) = Append(q, x)[1]
  BY <1>1, EmptySeq, HeadTailProperties
<1>4. CASE q = <<>>
  <2>1. Len(q) = 0
    BY <1>4, EmptySeq
  <2> QED
    BY <1>1, <1>2, <1>3, <1>4, <2>1
<1>5. CASE q # <<>>
  <2>1. Head(q) = q[1] /\ 1 \in 1 .. Len(q)
    BY <1>1, <1>5, EmptySeq, HeadTailProperties
  <2> QED
    BY <1>1, <1>2, <1>3, <1>5, <2>1
<1> QED
  BY <1>4, <1>5

\* Closing a chunk leaves the seams as they are.
LEMMA FlushSeamless ==
  ASSUME NEW acc \in Partial, Seamless(acc)
  PROVE  Seamless(Flush(acc))
<1>1. CASE acc.chunk = <<>>
  BY <1>1 DEF Flush
<1>2. CASE acc.chunk # <<>>
  <2> DEFINE done == acc.done
             c == acc.chunk
             n == Len(done)
             all == Append(done, c)
  <2>1. /\ done \in Seq(Chunk) /\ c \in Chunk
    BY <1>2 DEF Partial, Chunk
  <2>2. /\ Flush(acc).done = all /\ Flush(acc).chunk = <<>>
    BY <1>2 DEF Flush
  <2>3. /\ n \in Nat /\ Len(all) = n + 1
        /\ DOMAIN done = 1 .. n /\ DOMAIN all = (1 .. n) \cup {n + 1}
        /\ \A i \in 1 .. n : all[i] = done[i]
        /\ all[n + 1] = c
    BY <2>1, ToSetAppend, AppendProperties, LenProperties
  <2>4. /\ \A i \in 1 .. n : Sound(done[i])
        /\ \A i \in 1 .. n - 1 : Forced(done[i], Head(done[i + 1]))
        /\ Sound(c)
        /\ done # <<>> => Forced(Last(done), Head(c))
    BY <1>2, <2>3 DEF Seamless
  <2>5. n # 0 => done # <<>> /\ Last(done) = done[n]
    BY <2>1, EmptySeq DEF Last
  <2> HIDE DEF all, n, done, c
  <2>6. \A i \in DOMAIN all : Sound(all[i])
    BY <2>3, <2>4
  <2>7. ASSUME NEW i \in 1 .. Len(all) - 1
        PROVE  Forced(all[i], Head(all[i + 1]))
    <3>1. i \in 1 .. n /\ (i = n \/ (i \in 1 .. n - 1 /\ i + 1 \in 1 .. n))
      BY <2>3
    <3>2. CASE i = n
      BY <2>3, <2>4, <2>5, <3>1, <3>2
    <3>3. CASE i \in 1 .. n - 1 /\ i + 1 \in 1 .. n
      BY <2>3, <2>4, <3>1, <3>3
    <3> QED
      BY <3>1, <3>2, <3>3
  <2> QED
    BY <2>2, <2>6, <2>7 DEF Seamless
<1> QED
  BY <1>1, <1>2

\* A message that opens a chunk: the seam before it has to be justified.
LEMMA OpenSeamless ==
  ASSUME NEW acc \in Partial, Seamless(acc), acc.chunk = <<>>, NEW m \in Messages,
         StoreInv, committed \subseteq Messages, acc.done # <<>> => Forced(Last(acc.done), m)
  PROVE  Seamless(Extend(acc, m))
<1> DEFINE c == Append(<<>>, m)
<1>1. /\ Extend(acc, m).done = acc.done /\ Extend(acc, m).chunk = c
  BY DEF Extend
<1>2. <<>> \in Seq(Messages) /\ Len(<<>>) = 0
  BY EmptySeq, LenProperties
<1>3. Head(c) = m /\ DOMAIN c = 1 .. 1 /\ Len(c) = 1 /\ c[1] = m
  BY <1>2, LastOfAppend, AppendProperties
<1>4. \A i \in DOMAIN c : c[i] = m
  BY <1>3
<1> HIDE DEF c
<1>5. (\A k \in Messages : sequence[k] \in Nat) /\ \A x, y \in Nat : ~ (x < y /\ y < x)
  BY DEF StoreInv, RowTypes
<1>6. CommittedBetween(m, m) = {}
  BY <1>5 DEF CommittedBetween
<1>7. Sound(c)
  BY <1>3, <1>4, <1>6 DEF Sound
<1> QED
  BY <1>1, <1>3, <1>7 DEF Seamless

\* A message that is added to an open chunk changes no seam.
LEMMA ExtendSeamless ==
  ASSUME NEW acc \in Partial, Seamless(acc), acc.chunk # <<>>, NEW m \in Messages,
         Sound(Append(acc.chunk, m))
  PROVE  Seamless(Extend(acc, m))
<1> DEFINE c == Append(acc.chunk, m)
<1>1. /\ Extend(acc, m).done = acc.done /\ Extend(acc, m).chunk = c
  BY DEF Extend
<1>2. Head(c) = Head(acc.chunk)
  BY LastOfAppend DEF Partial
<1> HIDE DEF c
<1> QED
  BY <1>1, <1>2 DEF Seamless, c

\* What holds of acc after i rows, besides what it holds of them: the tokens are
\* those of the open chunk; the open chunk ends with the last row and no row
\* since its first is committed; the chunk before an empty one was ended by a
\* committed row.
Seamed(rows, i, acc) ==
  /\ acc.tokens = TokensOf(acc.chunk)
  /\ Seamless(acc)
  /\ acc.chunk # <<>> => i \in 1 .. Len(rows) /\ Last(acc.chunk) = rows[i]
  /\ \A j, l \in 1 .. i : j <= l /\ rows[j] \in ToSet(acc.chunk) => rows[l] \notin committed
  /\ acc.chunk = <<>> /\ acc.done # <<>> =>
       \E j, l \in 1 .. i : /\ j < l /\ rows[l] \in committed
                            /\ rows[j] = Last(Last(acc.done))

\* Rows come by journal, and in a journal by number.
LEMMA ListingOrder ==
  ASSUME StoreInv, NEW scope, NEW rows \in Listings(scope)
  PROVE  /\ \A i, k \in 1 .. Len(rows) : i <= k => Journal[rows[i]] <= Journal[rows[k]]
         /\ \A i, k \in 1 .. Len(rows) : i <= k /\ Journal[rows[i]] = Journal[rows[k]] =>
              sequence[rows[i]] <= sequence[rows[k]]
         /\ \A i \in 1 .. Len(rows) : /\ rows[i] \in Messages
                                      /\ Journal[rows[i]] \in Nat
                                      /\ sequence[rows[i]] \in Nat
<1>1. /\ Len(rows) \in Nat /\ DOMAIN rows = 1 .. Len(rows)
      /\ ToSet(rows) = InScope(scope)
      /\ \A i, k \in DOMAIN rows : i < k /\ Journal[rows[i]] = Journal[rows[k]] =>
           sequence[rows[i]] <= sequence[rows[k]]
  BY ListingRows
<1>2. \A i \in 1 .. Len(rows) : rows[i] \in Messages
  BY <1>1 DEF ToSet, InScope, Stored
<1>3. \A i \in 1 .. Len(rows) : Journal[rows[i]] \in Nat /\ sequence[rows[i]] \in Nat
  BY <1>2, MessageAssumption DEF StoreInv, RowTypes
<1>4. \A i, k \in 1 .. Len(rows) : i <= k => i = k \/ i < k
  BY <1>1
<1>5. \A i, k \in 1 .. Len(rows) : i < k => Journal[rows[i]] <= Journal[rows[k]]
  <2>1. \A i, k \in 1 .. Len(rows) : i < k =>
          Journal[rows[i]] < Journal[rows[k]] \/ Journal[rows[i]] = Journal[rows[k]]
    BY <1>1 DEF Listings
  <2>2. \A x, y \in Nat : x < y \/ x = y => x <= y
    OBVIOUS
  <2> QED
    BY <1>3, <2>1, <2>2
<1>6. \A x \in Nat : x <= x
  OBVIOUS
<1> QED
  BY <1>1, <1>2, <1>3, <1>4, <1>5, <1>6

\* A committed message numbered between two that are listed is listed between
\* them.
LEMMA BetweenIsListed ==
  ASSUME StoreInv, committed \subseteq Messages,
         NEW scope, NEW rows \in Listings(scope)
  PROVE  \A i, j \in 1 .. Len(rows) : Journal[rows[j]] = Journal[rows[i]] =>
           \A k \in CommittedBetween(rows[j], rows[i]) :
             \E l \in 1 .. Len(rows) : rows[l] = k /\ j < l /\ l < i
<1> SUFFICES ASSUME NEW i \in 1 .. Len(rows), NEW j \in 1 .. Len(rows),
                    Journal[rows[j]] = Journal[rows[i]],
                    NEW k \in CommittedBetween(rows[j], rows[i])
             PROVE  \E l \in 1 .. Len(rows) : rows[l] = k /\ j < l /\ l < i
  OBVIOUS
<1>1. /\ k \in committed /\ k \in Messages /\ Journal[k] = Journal[rows[j]]
      /\ sequence[rows[j]] < sequence[k] /\ sequence[k] < sequence[rows[i]]
  BY DEF CommittedBetween
<1>2. /\ DOMAIN rows = 1 .. Len(rows) /\ ToSet(rows) = InScope(scope) /\ Len(rows) \in Nat
  BY ListingRows
<1>3. /\ \A p, q \in 1 .. Len(rows) : p <= q /\ Journal[rows[p]] = Journal[rows[q]] =>
           sequence[rows[p]] <= sequence[rows[q]]
      /\ sequence[rows[j]] \in Nat /\ sequence[rows[i]] \in Nat
  BY ListingOrder
<1>4. sequence[k] \in Nat
  BY <1>1 DEF StoreInv, RowTypes
<1>5. k \in InScope(scope)
  <2>1. rows[j] \in InScope(scope)
    BY <1>2 DEF ToSet
  <2>2. sequence[k] > 0
    BY <1>1, <1>3, <1>4
  <2> QED
    BY <1>1, <2>1, <2>2 DEF InScope, Stored
<1>6. PICK l \in 1 .. Len(rows) : rows[l] = k
  BY <1>2, <1>5 DEF ToSet
<1>7. ~ (l <= j)
  <2>1. l <= j => sequence[k] <= sequence[rows[j]]
    BY <1>1, <1>3, <1>6
  <2> QED
    BY <1>1, <1>3, <1>4, <2>1
<1>8. ~ (i <= l)
  <2>1. i <= l => sequence[rows[i]] <= sequence[k]
    BY <1>1, <1>3, <1>6
  <2> QED
    BY <1>1, <1>3, <1>4, <2>1
<1> QED
  BY <1>2, <1>6, <1>7, <1>8

\* A message that may follow the open chunk leaves it sound.
LEMMA ExtendSound ==
  ASSUME StoreInv, committed \subseteq Messages,
         NEW scope, NEW rows \in Listings(scope), NEW i \in 1 .. Len(rows)
  PROVE  \A acc \in Partial :
           /\ Tidy(acc) /\ Holds(acc) = Seen(rows, i - 1) \ committed
           /\ Seamed(rows, i - 1, acc) /\ acc.chunk # <<>>
           /\ Journal[Last(acc.chunk)] = Journal[rows[i]]
           /\ acc.tokens + Tokens[rows[i]] <= TokenLimit
           => Sound(Append(acc.chunk, rows[i]))
<1> DEFINE m == rows[i]
<1>1. \A j \in 1 .. Len(rows) : Journal[rows[j]] = Journal[m] =>
        \A k \in CommittedBetween(rows[j], m) :
          \E l \in 1 .. Len(rows) : rows[l] = k /\ j < l /\ l < i
  BY BetweenIsListed
<1>2. /\ Len(rows) \in Nat /\ m \in Messages
      /\ i - 1 \in Nat /\ (i - 1) + 1 = i
  BY ListingRows, ListingOrder
<1>3. \A j \in 1 .. Len(rows) : j <= i /\ Journal[rows[j]] = Journal[m] =>
        sequence[rows[j]] <= sequence[m]
  BY ListingOrder
<1> SUFFICES ASSUME NEW acc \in Partial, Tidy(acc),
                    Holds(acc) = Seen(rows, i - 1) \ committed,
                    Seamed(rows, i - 1, acc), acc.chunk # <<>>,
                    Journal[Last(acc.chunk)] = Journal[rows[i]],
                    acc.tokens + Tokens[rows[i]] <= TokenLimit
             PROVE  Sound(Append(acc.chunk, m))
  OBVIOUS
<1> DEFINE old == acc.chunk
           n == Len(old)
           c == Append(old, m)
<1>4. m \in Messages /\ old \in Seq(Messages)
  BY <1>2 DEF Partial
<1>5. TokensOf(c) <= TokenLimit
  BY <1>4, TokensAdd DEF Seamed
<1>6. /\ n \in Nat /\ DOMAIN old = 1 .. n /\ DOMAIN c = (1 .. n) \cup {n + 1}
      /\ \A p \in 1 .. n : c[p] = old[p]
      /\ c[n + 1] = m
      /\ n \in 1 .. n
  <2>1. n \in Nat /\ n # 0
    BY <1>4, EmptySeq, LenProperties
  <2> QED
    BY <1>4, <2>1, ToSetAppend, LenProperties
<1>7. \A k \in Messages : sequence[k] \in Nat
  BY DEF StoreInv, RowTypes
<1>8. ASSUME NEW p \in 1 .. n
      PROVE  /\ old[p] \in Messages /\ Journal[old[p]] = Journal[m]
             /\ \E j \in 1 .. i - 1 : rows[j] = old[p]
             /\ old[p] \in ToSet(old)
  <2>1. old[p] \in ToSet(old) /\ old[p] \in Messages
    BY <1>4, <1>6, ElementOfSeq DEF ToSet
  <2>2. Journal[old[p]] = Journal[old[n]]
    <3>1. OneJournal(old)
      BY DEF Tidy
    <3>2. p = n \/ p < n
      BY <1>6
    <3> QED
      BY <1>6, <3>1, <3>2 DEF OneJournal
  <2>3. Journal[old[n]] = Journal[m]
    BY DEF Last
  <2>4. old[p] \in Seen(rows, i - 1)
    BY <2>1 DEF Holds
  <2> QED
    BY <2>1, <2>2, <2>3, <2>4 DEF Seen
<1>9. ASSUME NEW p \in 1 .. n
      PROVE  CommittedBetween(old[p], m) = {}
  <2> SUFFICES ASSUME NEW k \in CommittedBetween(old[p], m)
               PROVE  FALSE
    OBVIOUS
  <2>1. PICK j \in 1 .. i - 1 : rows[j] = old[p]
    BY <1>8
  <2>2. j \in 1 .. Len(rows) /\ Journal[rows[j]] = Journal[rows[i]]
    BY <1>2, <1>8, <2>1
  <2>3. k \in CommittedBetween(rows[j], rows[i])
    BY <2>1
  <2>4. PICK l \in 1 .. Len(rows) : rows[l] = k /\ j < l /\ l < i
    BY <1>1, <2>2, <2>3
  <2>5. l \in 1 .. i - 1 /\ j <= l
    BY <1>2, <2>2, <2>4
  <2>6. rows[l] \notin committed
    BY <1>8, <2>1, <2>5 DEF Seamed
  <2> QED
    BY <2>3, <2>4, <2>6 DEF CommittedBetween
<1>10. ASSUME NEW p \in 1 .. n
      PROVE  sequence[old[p]] <= sequence[m]
  <2>1. PICK j \in 1 .. i - 1 : rows[j] = old[p]
    BY <1>8
  <2>2. j \in 1 .. Len(rows) /\ j <= i
    BY <1>2, <2>1
  <2> QED
    BY <1>3, <1>8, <2>1, <2>2
<1>11. ASSUME NEW p \in 1 .. n
      PROVE  CommittedBetween(m, old[p]) = {}
  <2> SUFFICES ASSUME NEW k \in CommittedBetween(m, old[p])
               PROVE  FALSE
    OBVIOUS
  <2>1. /\ sequence[m] \in Nat /\ sequence[k] \in Nat /\ sequence[old[p]] \in Nat
        /\ sequence[m] < sequence[k] /\ sequence[k] < sequence[old[p]]
    BY <1>4, <1>7, <1>8 DEF CommittedBetween
  <2> QED
    BY <1>10, <2>1
<1>12. CommittedBetween(m, m) = {}
  <2>1. \A x, y \in Nat : ~ (x < y /\ y < x)
    OBVIOUS
  <2> QED
    BY <1>4, <1>7, <2>1 DEF CommittedBetween
<1>13. \A p, q \in 1 .. n : CommittedBetween(old[p], old[q]) = {}
  BY <1>6 DEF Seamed, Seamless, Sound
<1> HIDE DEF c, old, n, m
<1>14. \A p, q \in DOMAIN c : CommittedBetween(c[p], c[q]) = {}
  BY <1>6, <1>9, <1>11, <1>12, <1>13
<1>15. Sound(c)
  BY <1>5, <1>14 DEF Sound
<1> QED
  BY <1>15 DEF c, old, m

\* A committed row parts the rows before it from those behind it.
LEMMA RowParts ==
  ASSUME StoreInv, NEW scope, NEW rows \in Listings(scope),
         NEW i \in 1 .. Len(rows), NEW l \in 1 .. Len(rows), NEW j \in 1 .. Len(rows),
         j < l, l < i, rows[l] \in committed
  PROVE  Parted(rows[j], rows[i])
<1>1. Len(rows) \in Nat
  BY ListingRows
<1>2. j <= l /\ l <= i
  BY <1>1
<1>3. /\ Journal[rows[j]] <= Journal[rows[l]] /\ Journal[rows[l]] <= Journal[rows[i]]
      /\ Journal[rows[j]] = Journal[rows[l]] => sequence[rows[j]] <= sequence[rows[l]]
      /\ Journal[rows[l]] = Journal[rows[i]] => sequence[rows[l]] <= sequence[rows[i]]
      /\ Journal[rows[j]] \in Nat /\ Journal[rows[l]] \in Nat /\ Journal[rows[i]] \in Nat
  BY <1>2, ListingOrder
<1>4. CASE Journal[rows[j]] # Journal[rows[i]]
  BY <1>4 DEF Parted
<1>5. CASE Journal[rows[j]] = Journal[rows[i]]
  <2>1. Journal[rows[l]] = Journal[rows[j]] /\ Journal[rows[l]] = Journal[rows[i]]
    BY <1>3, <1>5
  <2> QED
    BY <1>3, <2>1 DEF Parted
<1> QED
  BY <1>4, <1>5

\* So does one that only the window function saw before the row: the rows that
\* were listed before it are numbered below the committed one, or tie.
LEMMA WindowParts ==
  ASSUME StoreInv, NEW scope, NEW rows \in Listings(scope), NEW window \in Listings(scope),
         NEW i \in 1 .. Len(rows), NEW j \in 1 .. Len(rows), j < i,
         rows[j] \notin committed, PreviousCommitted(window, rows[i])
  PROVE  Parted(rows[j], rows[i])
<1> DEFINE m == rows[i]
           n == rows[j]
<1>1. /\ Len(rows) \in Nat /\ DOMAIN rows = 1 .. Len(rows) /\ ToSet(rows) = InScope(scope)
      /\ \A p, q \in DOMAIN rows : p # q => rows[p] # rows[q]
  BY ListingRows
<1>2. /\ Len(window) \in Nat /\ DOMAIN window = 1 .. Len(window)
      /\ ToSet(window) = InScope(scope)
  BY ListingRows
<1>3. PICK w \in 2 .. Len(window) : /\ window[w] = m /\ window[w - 1] \in committed
                                    /\ Journal[window[w - 1]] = Journal[m]
  BY DEF PreviousCommitted
<1>4. n # m /\ n \in InScope(scope)
  BY <1>1 DEF ToSet
<1>5. PICK v \in 1 .. Len(window) : window[v] = n
  BY <1>2, <1>4 DEF ToSet
<1>6. w \in 1 .. Len(window) /\ w - 1 \in 1 .. Len(window) /\ w - 1 <= w
  BY <1>2
<1>7. v <= w - 1 \/ w <= v
  BY <1>2
<1>8. \A p, q \in 1 .. Len(window) : p <= q /\ Journal[window[p]] = Journal[window[q]] =>
        sequence[window[p]] <= sequence[window[q]]
  BY ListingOrder
<1>9. /\ Journal[n] = Journal[m] => sequence[n] <= sequence[m]
      /\ sequence[n] \in Nat /\ sequence[m] \in Nat
  <2>1. j <= i
    BY <1>1
  <2> QED
    BY <2>1, ListingOrder
<1> SUFFICES Parted(n, m)
  OBVIOUS
<1> HIDE DEF m, n
<1>10. CASE Journal[n] # Journal[m]
  BY <1>10 DEF Parted
<1>11. CASE Journal[n] = Journal[m] /\ v <= w - 1
  <2>1. sequence[n] <= sequence[window[w - 1]]
    BY <1>3, <1>5, <1>6, <1>8, <1>11
  <2>2. sequence[window[w - 1]] <= sequence[m]
    BY <1>3, <1>6, <1>8
  <2> QED
    BY <1>3, <1>11, <2>1, <2>2 DEF Parted
<1>12. CASE Journal[n] = Journal[m] /\ w <= v
  <2>1. sequence[m] <= sequence[n]
    BY <1>3, <1>5, <1>6, <1>8, <1>12
  <2>2. sequence[m] = sequence[n]
    BY <1>9, <1>12, <2>1
  <2> QED
    BY <2>2 DEF Parted
<1> QED
  BY <1>7, <1>10, <1>11, <1>12

\* The ways a row is taken: it ends the run; it opens a chunk, behind one that
\* had to end; or it is added to the open chunk.
LEMMA TakeRowCases ==
  ASSUME NEW acc \in Partial, NEW m \in Messages, NEW after
  PROVE  \/ m \in committed /\ TakeRow(acc, m, after) = Flush(acc)
         \/ /\ m \notin committed
            /\ TakeRow(acc, m, after) = Extend(Flush(acc), m)
            /\ \/ acc.chunk = <<>> \/ after
               \/ Journal[Last(acc.chunk)] # Journal[m]
               \/ acc.tokens + Tokens[m] > TokenLimit
         \/ /\ m \notin committed
            /\ TakeRow(acc, m, after) = Extend(acc, m)
            /\ acc.chunk # <<>>
            /\ Journal[Last(acc.chunk)] = Journal[m]
            /\ acc.tokens + Tokens[m] <= TokenLimit
<1>1. acc.tokens \in Nat /\ Tokens[m] \in Nat /\ TokenLimit \in Nat
  BY TokenAssumption DEF Partial
<1>2. \/ acc.tokens + Tokens[m] > TokenLimit
      \/ acc.tokens + Tokens[m] <= TokenLimit
  BY <1>1
<1>3. Flush(acc).chunk = <<>> /\ (acc.chunk = <<>> => Flush(acc) = acc)
  BY DEF Flush
<1>4. TakeMessage(Flush(acc), m) = Extend(Flush(acc), m)
  BY <1>3 DEF TakeMessage
<1>5. \/ TakeMessage(acc, m) = Extend(Flush(acc), m)
         /\ (acc.chunk = <<>> \/ acc.tokens + Tokens[m] > TokenLimit)
      \/ TakeMessage(acc, m) = Extend(acc, m) /\ acc.chunk # <<>>
         /\ acc.tokens + Tokens[m] <= TokenLimit
  <2>1. CASE acc.chunk = <<>>
    BY <1>3, <2>1 DEF TakeMessage
  <2>2. CASE acc.chunk # <<>>
    <3>1. CASE acc.tokens + Tokens[m] > TokenLimit
      BY <2>2, <3>1 DEF TakeMessage
    <3>2. CASE ~ (acc.tokens + Tokens[m] > TokenLimit)
      BY <1>2, <2>2, <3>2 DEF TakeMessage
    <3> QED
      BY <3>1, <3>2
  <2> QED
    BY <2>1, <2>2
<1> QED
  BY <1>4, <1>5 DEF TakeRow

\* All that is known of acc after i rows.
CutSoFar(rows, i, acc) ==
  /\ acc \in Partial /\ Tidy(acc) /\ Holds(acc) = Seen(rows, i) \ committed
  /\ Seamed(rows, i, acc)

\* What closing leaves: nothing open, and the open chunk as the last one.
LEMMA EmptyChunk ==
  ASSUME NEW acc \in Partial, acc.tokens = TokensOf(acc.chunk)
  PROVE  /\ Flush(acc).chunk = <<>> /\ Flush(acc).tokens = 0
         /\ acc.chunk = <<>> => Flush(acc).done = acc.done
         /\ acc.chunk # <<>> => Last(Flush(acc).done) = acc.chunk
<1>1. CASE acc.chunk = <<>>
  <2>1. acc.tokens = 0
    BY <1>1, NoTokens
  <2>2. Flush(acc) = acc
    BY <1>1 DEF Flush
  <2> QED
    BY <1>1, <2>1, <2>2
<1>2. CASE acc.chunk # <<>>
  <2>1. acc.done \in Seq(Chunk) /\ acc.chunk \in Chunk
    BY <1>2 DEF Partial, Chunk
  <2>2. Last(Append(acc.done, acc.chunk)) = acc.chunk
    BY <2>1, LastOfAppend
  <2>3. Flush(acc) = [done |-> Append(acc.done, acc.chunk), chunk |-> <<>>, tokens |-> 0]
    BY <1>2 DEF Flush
  <2> QED
    BY <1>2, <2>2, <2>3
<1> QED
  BY <1>1, <1>2

\* The row that is taken, and those before it.
LEMMA RowIndices ==
  ASSUME StoreInv, NEW scope, NEW rows \in Listings(scope), NEW i \in 1 .. Len(rows)
  PROVE  /\ rows[i] \in Messages /\ i - 1 \in 0 .. Len(rows) /\ i \in 1 .. i
         /\ \A j \in 1 .. i : j \in 1 .. Len(rows) /\ j <= i
         /\ \A j \in 1 .. i - 1 : j \in 1 .. i /\ j \in 1 .. Len(rows) /\ j < i /\ j <= j
         /\ \A j \in 1 .. i : j = i \/ (j \in 1 .. i - 1 /\ rows[j] # rows[i])
         /\ \A j \in 1 .. i : i <= j => j = i
         /\ i - 1 \in 1 .. Len(rows) => i - 1 \in 1 .. i - 1
<1>1. /\ Len(rows) \in Nat /\ DOMAIN rows = 1 .. Len(rows)
      /\ \A p, q \in DOMAIN rows : p # q => rows[p] # rows[q]
  BY ListingRows
<1>2. rows[i] \in Messages
  BY ListingOrder
<1>3. /\ i - 1 \in 0 .. Len(rows) /\ i \in 1 .. i
      /\ \A j \in 1 .. i : j \in 1 .. Len(rows) /\ j <= i
      /\ \A j \in 1 .. i - 1 : j \in 1 .. i /\ j \in 1 .. Len(rows) /\ j < i /\ j <= j
      /\ \A j \in 1 .. i : j = i \/ (j \in 1 .. i - 1 /\ j # i)
      /\ \A j \in 1 .. i : i <= j => j = i
      /\ i - 1 \in 1 .. Len(rows) => i - 1 \in 1 .. i - 1
  BY <1>1
<1> QED
  BY <1>1, <1>2, <1>3

\* A committed row ends the open chunk.
LEMMA SeamsWhenEnded ==
  ASSUME StoreInv, NEW scope, NEW rows \in Listings(scope), NEW i \in 1 .. Len(rows),
         NEW acc, CutSoFar(rows, i - 1, acc), rows[i] \in committed
  PROVE  Seamed(rows, i, Flush(acc))
<1> DEFINE next == Flush(acc)
<1>1. acc \in Partial /\ Seamed(rows, i - 1, acc)
  BY DEF CutSoFar
<1>2. /\ next.chunk = <<>> /\ next.tokens = 0
      /\ acc.chunk = <<>> => next.done = acc.done
      /\ acc.chunk # <<>> => Last(next.done) = acc.chunk
  BY <1>1, EmptyChunk DEF Seamed
<1>3. /\ \A j \in 1 .. i - 1 : j \in 1 .. i /\ j < i
      /\ i \in 1 .. i /\ (i - 1 \in 1 .. Len(rows) => i - 1 \in 1 .. i - 1)
  BY RowIndices
<1>4. Seamless(next)
  BY <1>1, FlushSeamless DEF Seamed
<1>5. ToSet(<<>>) = {}
  BY EmptySeq, LenProperties DEF ToSet
<1> HIDE DEF next
<1>6. ASSUME next.done # <<>>
      PROVE  \E j, l \in 1 .. i : /\ j < l /\ rows[l] \in committed
                                  /\ rows[j] = Last(Last(next.done))
  <2>1. CASE acc.chunk = <<>>
    BY <1>1, <1>2, <1>3, <1>6, <2>1 DEF Seamed
  <2>2. CASE acc.chunk # <<>>
    <3>1. i - 1 \in 1 .. i - 1 /\ Last(acc.chunk) = rows[i - 1]
      BY <1>1, <1>3, <2>2 DEF Seamed
    <3> QED
      BY <1>2, <1>3, <2>2, <3>1
  <2> QED
    BY <2>1, <2>2
<1>7. Seamed(rows, i, next)
  BY <1>2, <1>4, <1>5, <1>6, NoTokens DEF Seamed
<1> QED
  BY <1>7 DEF next

\* A chunk is opened only where the one before it had to end.
LEMMA OpenForced ==
  ASSUME StoreInv, NEW scope, NEW rows \in Listings(scope), NEW window \in Listings(scope),
         NEW i \in 1 .. Len(rows), NEW acc, CutSoFar(rows, i - 1, acc),
         \/ acc.chunk = <<>> \/ PreviousCommitted(window, rows[i])
         \/ Journal[Last(acc.chunk)] # Journal[rows[i]]
         \/ acc.tokens + Tokens[rows[i]] > TokenLimit,
         Flush(acc).done # <<>>
  PROVE  Forced(Last(Flush(acc).done), rows[i])
<1> DEFINE m == rows[i]
<1>1. acc \in Partial /\ Seamed(rows, i - 1, acc)
  BY DEF CutSoFar
<1>2. /\ acc.chunk = <<>> => Flush(acc).done = acc.done
      /\ acc.chunk # <<>> => Last(Flush(acc).done) = acc.chunk
  BY <1>1, EmptyChunk DEF Seamed
<1>3. /\ \A j \in 1 .. i - 1 : j \in 1 .. i /\ j < i /\ j \in 1 .. Len(rows) /\ j <= j
      /\ (i - 1 \in 1 .. Len(rows) => i - 1 \in 1 .. i - 1)
  BY RowIndices
<1>4. CASE acc.chunk = <<>>
  <2>1. PICK j \in 1 .. i - 1, l \in 1 .. i - 1 :
          /\ j < l /\ rows[l] \in committed /\ rows[j] = Last(Last(acc.done))
    BY <1>1, <1>2, <1>4 DEF Seamed
  <2>2. l < i /\ l \in 1 .. Len(rows) /\ j \in 1 .. Len(rows)
    BY <1>3
  <2>3. Parted(rows[j], rows[i])
    BY <2>1, <2>2, RowParts
  <2> QED
    BY <1>2, <1>4, <2>1, <2>3 DEF Forced
<1>5. CASE acc.chunk # <<>>
  <2> DEFINE j == i - 1
  <2>1. j \in 1 .. i - 1 /\ Last(acc.chunk) = rows[j] /\ j <= j
        /\ j \in 1 .. Len(rows) /\ j < i
    BY <1>1, <1>3, <1>5 DEF Seamed
  <2>2. rows[j] \in ToSet(acc.chunk)
    <3>1. acc.chunk \in Seq(Messages)
      BY <1>1 DEF Partial
    <3>2. Len(acc.chunk) \in Nat /\ Len(acc.chunk) # 0 /\ DOMAIN acc.chunk = 1 .. Len(acc.chunk)
      BY <1>5, <3>1, EmptySeq, LenProperties
    <3>3. Len(acc.chunk) \in DOMAIN acc.chunk
      BY <3>2
    <3> QED
      BY <2>1, <3>3 DEF Last, ToSet
  <2>3. rows[j] \notin committed
    BY <1>1, <2>1, <2>2 DEF Seamed
  <2>4. Last(Flush(acc).done) = acc.chunk /\ acc.tokens = TokensOf(acc.chunk)
    BY <1>1, <1>2, <1>5 DEF Seamed
  <2> HIDE DEF j
  <2>5. CASE PreviousCommitted(window, rows[i])
    <3>1. Parted(rows[j], rows[i])
      BY <2>1, <2>3, <2>5, WindowParts
    <3> QED
      BY <2>1, <2>4, <3>1 DEF Forced
  <2>6. CASE Journal[Last(acc.chunk)] # Journal[rows[i]]
    BY <2>4, <2>6 DEF Forced, Parted
  <2>7. CASE acc.tokens + Tokens[rows[i]] > TokenLimit
    BY <2>4, <2>7 DEF Forced
  <2> QED
    BY <1>5, <2>5, <2>6, <2>7
<1> QED
  BY <1>4, <1>5

\* A row that opens a chunk leaves only itself in it.
LEMMA SeamsWhenOpened ==
  ASSUME StoreInv, committed \subseteq Messages, NEW scope, NEW rows \in Listings(scope),
         NEW i \in 1 .. Len(rows), NEW acc, CutSoFar(rows, i - 1, acc),
         rows[i] \notin committed,
         Flush(acc).done # <<>> => Forced(Last(Flush(acc).done), rows[i])
  PROVE  Seamed(rows, i, Extend(Flush(acc), rows[i]))
<1> DEFINE m == rows[i]
           old == Flush(acc)
           c == Append(<<>>, m)
           next == Extend(old, m)
<1>1. acc \in Partial /\ Seamed(rows, i - 1, acc) /\ Tidy(acc)
  BY DEF CutSoFar
<1>2. old.chunk = <<>> /\ old.tokens = 0
  BY <1>1, EmptyChunk DEF Seamed
<1>3. old \in Partial /\ Seamless(old)
  BY <1>1, FlushKeeps, FlushSeamless DEF Seamed
<1>4. /\ \A j \in 1 .. i : j = i \/ rows[j] # rows[i]
      /\ \A j \in 1 .. i : i <= j => j = i
      /\ m \in Messages
  BY RowIndices
<1> HIDE DEF old
<1>5. next.done = old.done /\ next.chunk = c /\ next.tokens = Tokens[m]
  <2>1. Tokens[m] \in Nat
    BY <1>4, TokenAssumption
  <2> QED
    BY <1>2, <2>1 DEF Extend
<1>6. <<>> \in Seq(Messages) /\ ToSet(<<>>) = {}
  BY EmptySeq, LenProperties DEF ToSet
<1>7. ToSet(c) = {m} /\ c # <<>> /\ Last(c) = m
  <2>1. DOMAIN c = 1 .. 1 /\ Len(c) = 1 /\ c[1] = m
    BY <1>4, <1>6, AppendProperties, EmptySeq
  <2> HIDE DEF c
  <2>2. ToSet(c) = {m}
    BY <2>1 DEF ToSet
  <2>3. Last(c) = m
    BY <2>1 DEF Last
  <2>4. c # <<>>
    BY <2>1, EmptySeq
  <2> QED
    BY <2>2, <2>3, <2>4
<1>8. TokensOf(c) = Tokens[m]
  <2>1. TokensOf(c) = TokensOf(<<>>) + Tokens[m]
    BY <1>4, <1>6, TokensAdd
  <2>2. Tokens[m] \in Nat
    BY <1>4, TokenAssumption
  <2> HIDE DEF m, c
  <2> QED
    BY <2>1, <2>2, NoTokens
<1>9. Seamless(next)
  BY <1>2, <1>3, <1>4, OpenSeamless DEF old
<1> HIDE DEF next, c
<1>10. \A j, l \in 1 .. i : j <= l /\ rows[j] \in ToSet(next.chunk) => rows[l] \notin committed
  BY <1>4, <1>5, <1>7
<1>11. Seamed(rows, i, next)
  BY <1>5, <1>7, <1>8, <1>9, <1>10 DEF Seamed
<1> QED
  BY <1>11 DEF next, old

\* A row that is added to the open chunk comes directly behind its last one.
LEMMA SeamsWhenExtended ==
  ASSUME StoreInv, committed \subseteq Messages, NEW scope, NEW rows \in Listings(scope),
         NEW i \in 1 .. Len(rows), NEW acc, CutSoFar(rows, i - 1, acc),
         rows[i] \notin committed, acc.chunk # <<>>,
         Journal[Last(acc.chunk)] = Journal[rows[i]],
         acc.tokens + Tokens[rows[i]] <= TokenLimit
  PROVE  Seamed(rows, i, Extend(acc, rows[i]))
<1> DEFINE m == rows[i]
           c == Append(acc.chunk, m)
           next == Extend(acc, m)
<1>1. /\ acc \in Partial /\ Seamed(rows, i - 1, acc) /\ Tidy(acc)
      /\ Holds(acc) = Seen(rows, i - 1) \ committed
  BY DEF CutSoFar
<1>2. Sound(c)
  BY <1>1, ExtendSound
<1>3. /\ \A j \in 1 .. i : j = i \/ (j \in 1 .. i - 1 /\ rows[j] # rows[i])
      /\ \A j \in 1 .. i : i <= j => j = i
      /\ m \in Messages
  BY RowIndices
<1>4. Seamless(next)
  BY <1>1, <1>2, <1>3, ExtendSeamless DEF Seamed
<1>5. next.chunk = c /\ next.tokens = acc.tokens + Tokens[m]
  BY DEF Extend
<1>6. acc.chunk \in Seq(Messages)
  BY <1>1 DEF Partial
<1>7. ToSet(c) = ToSet(acc.chunk) \cup {m} /\ c # <<>> /\ Last(c) = m
  BY <1>3, <1>6, ToSetAppend, LastOfAppend
<1>8. TokensOf(c) = acc.tokens + Tokens[m]
  BY <1>1, <1>3, <1>6, TokensAdd DEF Seamed
<1> HIDE DEF next, c
<1>9. ASSUME NEW j \in 1 .. i, NEW l \in 1 .. i, j <= l, rows[j] \in ToSet(next.chunk)
      PROVE  rows[l] \notin committed
  <2>1. CASE l = i
    BY <2>1
  <2>2. CASE l # i
    <3>1. l \in 1 .. i - 1 /\ j \in 1 .. i - 1 /\ rows[j] # rows[i]
      BY <1>3, <1>9, <2>2
    <3>2. rows[j] \in ToSet(acc.chunk)
      BY <1>5, <1>7, <1>9, <3>1
    <3> QED
      BY <1>1, <1>9, <3>1, <3>2 DEF Seamed
  <2> QED
    BY <2>1, <2>2
<1>10. Seamed(rows, i, next)
  BY <1>4, <1>5, <1>7, <1>8, <1>9 DEF Seamed
<1> QED
  BY <1>10 DEF next

\* Whichever way a row is taken, what is known before it is known after it.
LEMMA TakeRowSeams ==
  ASSUME StoreInv, committed \subseteq Messages,
         NEW scope, NEW rows \in Listings(scope), NEW window \in Listings(scope),
         NEW i \in 1 .. Len(rows), NEW acc, CutSoFar(rows, i - 1, acc)
  PROVE  Seamed(rows, i, TakeRow(acc, rows[i], PreviousCommitted(window, rows[i])))
<1> DEFINE after == PreviousCommitted(window, rows[i])
<1>1. acc \in Partial /\ rows[i] \in Messages
  BY RowIndices DEF CutSoFar
<1>2. CASE rows[i] \in committed /\ TakeRow(acc, rows[i], after) = Flush(acc)
  BY <1>2, SeamsWhenEnded
<1>3. CASE /\ rows[i] \notin committed
           /\ TakeRow(acc, rows[i], after) = Extend(Flush(acc), rows[i])
           /\ \/ acc.chunk = <<>> \/ after
              \/ Journal[Last(acc.chunk)] # Journal[rows[i]]
              \/ acc.tokens + Tokens[rows[i]] > TokenLimit
  <2>1. Flush(acc).done # <<>> => Forced(Last(Flush(acc).done), rows[i])
    BY <1>3, OpenForced
  <2> QED
    BY <1>3, <2>1, SeamsWhenOpened
<1>4. CASE /\ rows[i] \notin committed
           /\ TakeRow(acc, rows[i], after) = Extend(acc, rows[i])
           /\ acc.chunk # <<>>
           /\ Journal[Last(acc.chunk)] = Journal[rows[i]]
           /\ acc.tokens + Tokens[rows[i]] <= TokenLimit
  BY <1>4, SeamsWhenExtended
<1> QED
  BY <1>1, <1>2, <1>3, <1>4, TakeRowCases

\* Every row leaves it so, by a least counterexample again.
LEMMA CuttingSeams ==
  ASSUME StoreInv, committed \subseteq Messages,
         NEW scope, NEW rows \in Listings(scope), NEW window \in Listings(scope)
  PROVE  \A i \in 0 .. Len(rows) : CutSoFar(rows, i, Cutting(rows, window)[i])
<1> DEFINE cut == Cutting(rows, window)
           Bad == {i \in 0 .. Len(rows) : ~ Seamed(rows, i, cut[i])}
<1>1. /\ Len(rows) \in Nat
      /\ cut[0] = NoChunks
      /\ \A i \in 1 .. Len(rows) :
           cut[i] = TakeRow(cut[i - 1], rows[i], PreviousCommitted(window, rows[i]))
  BY ListingRows, CuttingSteps
<1>2. \A i \in 0 .. Len(rows) :
        cut[i] \in Partial /\ Tidy(cut[i]) /\ Holds(cut[i]) = Seen(rows, i) \ committed
  BY CuttingGoes
<1>3. ASSUME NEW i \in 1 .. Len(rows), i - 1 \in 0 .. Len(rows), Seamed(rows, i - 1, cut[i - 1])
      PROVE  Seamed(rows, i, cut[i])
  <2>1. CutSoFar(rows, i - 1, cut[i - 1])
    BY <1>2, <1>3 DEF CutSoFar
  <2> HIDE DEF cut
  <2>2. Seamed(rows, i, TakeRow(cut[i - 1], rows[i], PreviousCommitted(window, rows[i])))
    BY <2>1, TakeRowSeams
  <2> QED
    BY <1>1, <2>2
<1> HIDE DEF cut
<1>4. Seamed(rows, 0, cut[0])
  <2>1. /\ cut[0].done = <<>> /\ cut[0].chunk = <<>> /\ cut[0].tokens = 0
    BY <1>1 DEF NoChunks
  <2>2. DOMAIN <<>> = {} /\ Len(<<>>) = 0 /\ 1 .. 0 = {}
    BY EmptySeq, LenProperties
  <2>3. Seamless(cut[0])
    <3>1. 1 .. Len(cut[0].done) - 1 = {}
      BY <2>1, <2>2
    <3> QED
      BY <2>1, <2>2, <3>1 DEF Seamless
  <2> QED
    BY <2>1, <2>2, <2>3, NoTokens DEF Seamed
<1>5. Bad = {}
  <2> SUFFICES ASSUME Bad # {}
               PROVE  FALSE
    OBVIOUS
  <2>1. PICK i \in Bad : \A k \in Bad : i <= k
    <3> HIDE DEF Bad
    <3>1. Bad \in SUBSET Nat
      BY DEF Bad
    <3> QED
      BY <3>1, Smallest
  <2>2. i \in 0 .. Len(rows) /\ i # 0 /\ ~ Seamed(rows, i, cut[i])
    BY <1>4, <2>1
  <2>3. i \in 1 .. Len(rows) /\ i - 1 \in 0 .. Len(rows) /\ ~ (i <= i - 1)
    BY <1>1, <2>2
  <2>4. Seamed(rows, i - 1, cut[i - 1])
    BY <2>1, <2>3
  <2> QED
    BY <1>3, <2>2, <2>3, <2>4
<1>6. \A i \in 0 .. Len(rows) : Seamed(rows, i, cut[i])
  BY <1>5
<1> QED
  BY <1>2, <1>6 DEF CutSoFar, cut

\* So all chunks of a cut are sound, and each ends where it had to.
LEMMA ChunksSeamless ==
  ASSUME StoreInv, committed \subseteq Messages,
         NEW scope, NEW rows \in Listings(scope), NEW window \in Listings(scope)
  PROVE  LET chunks == ChunksOf(rows, window)
         IN  /\ \A i \in DOMAIN chunks : Sound(chunks[i])
             /\ \A i \in 1 .. Len(chunks) - 1 : Forced(chunks[i], Head(chunks[i + 1]))
<1> DEFINE acc == Cutting(rows, window)[Len(rows)]
<1>1. Len(rows) \in 0 .. Len(rows)
  BY ListingRows
<1>2. acc \in Partial /\ Seamless(acc)
  BY <1>1, CuttingSeams DEF CutSoFar, Seamed
<1>3. ChunksOf(rows, window) = Flush(acc).done
  BY DEF ChunksOf
<1> HIDE DEF acc
<1>4. Seamless(Flush(acc))
  BY <1>2, FlushSeamless
<1> QED
  BY <1>3, <1>4 DEF Seamless

\* A listing is cut as the reference definition says.
LEMMA ChunksAreCut ==
  ASSUME StoreInv, committed \subseteq Messages,
         NEW scope, NEW rows \in Listings(scope), NEW window \in Listings(scope)
  PROVE  IsCut(ChunksOf(rows, window), InScope(scope) \ committed)
<1> DEFINE chunks == ChunksOf(rows, window)
           messages == InScope(scope) \ committed
<1>1. /\ chunks \in Seq(Chunk) /\ Apart(chunks) /\ Content(chunks) = messages
      /\ \A i \in DOMAIN chunks : OneJournal(chunks[i])
  BY CutCovers
<1>2. /\ \A i \in DOMAIN chunks : Sound(chunks[i])
      /\ \A i \in 1 .. Len(chunks) - 1 : Forced(chunks[i], Head(chunks[i + 1]))
  BY ChunksSeamless
<1> HIDE DEF chunks, messages
<1>3. ASSUME NEW i \in DOMAIN chunks
      PROVE  /\ DOMAIN chunks[i] = 1 .. Len(chunks[i]) /\ Len(chunks[i]) \in Nat
             /\ \A k \in DOMAIN chunks[i] : chunks[i][k] \in ToSet(chunks[i])
  <2>1. chunks[i] \in Seq(Messages)
    BY <1>1, ElementOfSeq, LenProperties DEF Chunk
  <2> QED
    BY <2>1, LenProperties DEF ToSet
<1>4. \A x, y \in Nat : x = y \/ x < y \/ y < x
  OBVIOUS
<1>5. ASSUME NEW i \in DOMAIN chunks, NEW k \in DOMAIN chunks[i], NEW l \in DOMAIN chunks[i]
      PROVE  k = l \/ k < l \/ l < k
  BY <1>3
<1>6. ASSUME NEW i \in DOMAIN chunks, NEW j \in DOMAIN chunks,
             NEW k \in DOMAIN chunks[i], NEW l \in DOMAIN chunks[j],
             chunks[i][k] = chunks[j][l]
      PROVE  i = j /\ k = l
  <2>1. i = j
    BY <1>1, <1>3, <1>6 DEF Apart
  <2> QED
    BY <1>1, <1>5, <1>6, <2>1 DEF OneJournal
<1>7. ASSUME NEW i \in DOMAIN chunks, NEW k \in DOMAIN chunks[i], NEW l \in DOMAIN chunks[i]
      PROVE  /\ Journal[chunks[i][k]] = Journal[chunks[i][l]]
             /\ k < l => sequence[chunks[i][k]] <= sequence[chunks[i][l]]
             /\ CommittedBetween(chunks[i][k], chunks[i][l]) = {}
  BY <1>1, <1>2, <1>5 DEF OneJournal, Sound
<1>8. IsCut(chunks, messages)
  <2>1. UNION {ToSet(chunks[i]) : i \in DOMAIN chunks} = messages
    BY <1>1 DEF Content
  <2>2. \A i \in DOMAIN chunks : TokensOf(chunks[i]) <= TokenLimit \/ Len(chunks[i]) = 1
    BY <1>2 DEF Sound
  <2> QED
    BY <1>2, <1>6, <1>7, <2>1, <2>2 DEF IsCut, CommittedBetween, Forced, Parted
<1> QED
  BY <1>8 DEF chunks, messages
-----------------------------------------------------------------------------
(* What a request has left to do, against what is marked, what is queued   *)
(* and what the other requests listed.                                     *)

CallType ==
  [pc : {"idle", "enqueue", "mark", "replied", "failed", "conflict"},
   chunks : Seq(Chunk), listed : SUBSET Messages, rivals : SUBSET Requests]

\* What was listed is marked or still in a chunk, unless the request failed.
CallSound(r) ==
  /\ Apart(call[r].chunks) /\ Content(call[r].chunks) \subseteq call[r].listed
  /\ InProgress(r) => call[r].chunks # <<>>
  /\ call[r].pc \in {"idle", "replied", "conflict"} => call[r].chunks = <<>>
  /\ call[r].pc # "failed" =>
       call[r].listed \subseteq committed \cup Content(call[r].chunks)

\* What a request queued it has listed, and will not queue again.
JobSound(job) ==
  LET c == call[job.request]
      messages == ToSet(job.chunk)
  IN /\ c.pc # "idle" /\ messages \subseteq c.listed
     /\ c.pc = "enqueue" => messages \cap Content(c.chunks) = {}
     /\ c.pc = "mark" => messages \cap Content(Tail(c.chunks)) = {}

JobsApart ==
  \A a, b \in jobs : a # b /\ a.request = b.request =>
    ToSet(a.chunk) \cap ToSet(b.chunk) = {}

\* Two requests that listed a message in common were in progress together, or
\* one of them failed.
Excused(p, q) ==
  \/ "failed" \in {call[p].pc, call[q].pc}
  \/ p \in call[q].rivals \/ q \in call[p].rivals
  \/ call[p].listed \cap call[q].listed = {}

CommitInv ==
  /\ StoreInv /\ committed \subseteq Messages /\ faults \in 0 .. MaxFaults
  /\ call \in [Requests -> CallType]
  /\ jobs \subseteq Job
  /\ \A r \in Requests : CallSound(r)
  /\ \A job \in jobs : JobSound(job)
  /\ JobsApart
  /\ \A p, q \in Requests : p # q => Excused(p, q)

LEMMA ChargeKeeps ==
  ASSUME faults \in 0 .. MaxFaults, NEW o, Charge(o)
  PROVE  faults' \in 0 .. MaxFaults
BY MessageAssumption DEF Charge

LEMMA HeadAndTail ==
  ASSUME NEW chunks \in Seq(Chunk), chunks # <<>>
  PROVE  /\ Head(chunks) \in Chunk /\ Tail(chunks) \in Seq(Chunk)
         /\ Content(chunks) = ToSet(Head(chunks)) \cup Content(Tail(chunks))
         /\ Apart(chunks) =>
              /\ Apart(Tail(chunks))
              /\ ToSet(Head(chunks)) \cap Content(Tail(chunks)) = {}
<1> DEFINE n == Len(chunks)
           rest == Tail(chunks)
<1>1. /\ n \in Nat \ {0} /\ DOMAIN chunks = 1 .. n
      /\ Head(chunks) = chunks[1]
      /\ rest \in Seq(Chunk) /\ DOMAIN rest = 1 .. n - 1
      /\ \A i \in 1 .. n - 1 : rest[i] = chunks[i + 1]
  BY HeadTailProperties, LenProperties, EmptySeq
<1> HIDE DEF n, rest
<1>2. /\ 1 \in 1 .. n
      /\ \A i \in 1 .. n : i = 1 \/ (i - 1 \in 1 .. n - 1 /\ (i - 1) + 1 = i)
      /\ \A i \in 1 .. n - 1 : i + 1 \in 1 .. n /\ i + 1 # 1
      /\ \A i, k \in 1 .. n - 1 : i # k => i + 1 # k + 1
  BY <1>1
<1>3. chunks[1] \in Chunk
  BY <1>1, <1>2, ElementOfSeq
<1>4. Content(chunks) = ToSet(chunks[1]) \cup Content(rest)
  <2>1. ASSUME NEW m \in Content(chunks)
        PROVE  m \in ToSet(chunks[1]) \cup Content(rest)
    BY <1>1, <1>2, <2>1 DEF Content
  <2>2. ToSet(chunks[1]) \cup Content(rest) \subseteq Content(chunks)
    BY <1>1, <1>2 DEF Content
  <2> QED
    BY <2>1, <2>2
<1>5. ASSUME Apart(chunks)
      PROVE  Apart(rest) /\ ToSet(chunks[1]) \cap Content(rest) = {}
  <2>1. ASSUME NEW i \in 1 .. n - 1, NEW k \in 1 .. n - 1, i # k
        PROVE  ToSet(rest[i]) \cap ToSet(rest[k]) = {}
    <3>1. i + 1 \in DOMAIN chunks /\ k + 1 \in DOMAIN chunks /\ i + 1 # k + 1
      BY <1>1, <1>2, <2>1
    <3>2. rest[i] = chunks[i + 1] /\ rest[k] = chunks[k + 1]
      BY <1>1
    <3> QED
      BY <1>5, <3>1, <3>2 DEF Apart
  <2>2. ASSUME NEW i \in 1 .. n - 1
        PROVE  ToSet(chunks[1]) \cap ToSet(rest[i]) = {}
    <3>1. 1 \in DOMAIN chunks /\ i + 1 \in DOMAIN chunks /\ 1 # i + 1
      BY <1>1, <1>2
    <3>2. rest[i] = chunks[i + 1]
      BY <1>1
    <3> QED
      BY <1>5, <3>1, <3>2 DEF Apart
  <2>3. Apart(rest)
    BY <1>1, <2>1 DEF Apart
  <2>4. ToSet(chunks[1]) \cap Content(rest) = {}
    BY <1>1, <2>2 DEF Content
  <2> QED
    BY <2>3, <2>4
<1> QED
  BY <1>1, <1>3, <1>4, <1>5 DEF rest

\* Every element of a chunk is a message, and there is one.
LEMMA ChunkHolds ==
  ASSUME NEW chunk \in Chunk
  PROVE  ToSet(chunk) \subseteq Messages /\ ToSet(chunk) # {}
<1>1. chunk \in Seq(Messages) /\ Len(chunk) \in Nat \ {0} /\ DOMAIN chunk = 1 .. Len(chunk)
  BY LenProperties, EmptySeq DEF Chunk
<1>2. 1 \in 1 .. Len(chunk)
  BY <1>1
<1>3. \A i \in 1 .. Len(chunk) : chunk[i] \in Messages
  BY <1>1, ElementOfSeq
<1> QED
  BY <1>1, <1>2, <1>3 DEF ToSet

LEMMA CommitInvInit == Init => CommitInv
<1> SUFFICES ASSUME Init
             PROVE  CommitInv
  OBVIOUS
<1>1. StoreInv /\ committed = {} /\ faults = 0 /\ jobs = {}
  BY StoreInvInit DEF Init, StoreInit
<1>2. <<>> \in Seq(Chunk) /\ DOMAIN <<>> = {}
  BY EmptySeq, LenProperties
<1>3. IdleCall \in CallType
  BY <1>2 DEF IdleCall, CallType
<1>4. call \in [Requests -> CallType]
  BY <1>3 DEF Init
<1>5. ASSUME NEW r \in Requests
      PROVE  /\ call[r].pc = "idle" /\ call[r].chunks = <<>> /\ call[r].listed = {}
             /\ CallSound(r)
  <2>1. call[r].pc = "idle" /\ call[r].chunks = <<>> /\ call[r].listed = {}
    BY DEF Init, IdleCall
  <2> QED
    BY <1>2, <2>1 DEF CallSound, InProgress, Apart, Content
<1>6. \A p, q \in Requests : p # q => Excused(p, q)
  BY <1>5 DEF Excused
<1> QED
  BY <1>1, <1>4, <1>5, <1>6, MessageAssumption DEF CommitInv, JobsApart

LEMMA StoreStep ==
  ASSUME CommitInv, NEW m \in Messages, StoreMessage(m)
  PROVE  CommitInv'
<1>1. UNCHANGED <<call, jobs, committed>>
  BY DEF StoreMessage, Insert, BeginInsert, EndInsert
<1>2. StoreInv'
  BY InsertKeeps DEF StoreMessage, CommitInv
<1>3. faults' \in 0 .. MaxFaults
  BY ChargeKeeps DEF StoreMessage, Insert, BeginInsert, EndInsert, CommitInv
<1>4. /\ \A r \in Requests : CallSound(r)' = CallSound(r)
      /\ \A job \in jobs : JobSound(job)' = JobSound(job)
      /\ JobsApart' = JobsApart
      /\ \A p, q \in Requests : Excused(p, q)' = Excused(p, q)
  BY <1>1 DEF CallSound, InProgress, JobSound, JobsApart, Excused
<1> QED
  BY <1>1, <1>2, <1>3, <1>4 DEF CommitInv

\* What is listed is not marked, so it is none of what answered requests listed;
\* the requests still in progress are its rivals.
LEMMA ListStep ==
  ASSUME CommitInv, NEW r \in Requests, NEW scope, List(r, scope)
  PROVE  CommitInv'
<1>1. PICK rows \in Listings(scope), window \in Listings(scope) :
        call' = [call EXCEPT ![r] =
          [pc |-> IF ChunksOf(rows, window) = <<>> THEN "conflict" ELSE "enqueue",
           chunks |-> ChunksOf(rows, window),
           listed |-> InScope(scope) \ committed,
           rivals |-> {q \in Requests \ {r} : InProgress(q)}]]
  BY DEF List
<1> DEFINE chunks == ChunksOf(rows, window)
           listed == InScope(scope) \ committed
           rivals == {q \in Requests \ {r} : InProgress(q)}
           pc == IF chunks = <<>> THEN "conflict" ELSE "enqueue"
           new == [pc |-> pc, chunks |-> chunks, listed |-> listed, rivals |-> rivals]
<1>2. chunks \in Seq(Chunk) /\ Apart(chunks) /\ Content(chunks) = listed
  BY CutCovers DEF CommitInv
<1>3. /\ call[r].pc = "idle"
      /\ UNCHANGED <<insert, sequence, committed, faults, jobs>>
  BY DEF List, store
<1>4. listed \subseteq Messages /\ listed \cap committed = {}
  BY DEF InScope, Stored
<1>5. rivals \subseteq Requests /\ \A q \in Requests : q # r /\ InProgress(q) => q \in rivals
  OBVIOUS
<1>6. pc \in {"conflict", "enqueue"} /\ (pc = "conflict" <=> chunks = <<>>)
  OBVIOUS
<1> HIDE DEF chunks, listed, rivals, pc
<1>7. new \in CallType
  BY <1>2, <1>4, <1>5, <1>6 DEF CallType
<1>8. /\ new.pc = pc /\ new.chunks = chunks /\ new.listed = listed /\ new.rivals = rivals
  OBVIOUS
<1>9. call' = [call EXCEPT ![r] = new]
  BY <1>1 DEF chunks, listed, rivals, pc
<1> HIDE DEF new
<1>10. /\ call' \in [Requests -> CallType]
       /\ call'[r] = new /\ \A q \in Requests : q # r => call'[q] = call[q]
  BY <1>7, <1>9 DEF CommitInv
<1>11. StoreInv'
  BY <1>3, StoreInvStutter DEF CommitInv
<1>12. ASSUME NEW q \in Requests
       PROVE  CallSound(q)'
  <2>1. CASE q = r
    BY <1>2, <1>3, <1>6, <1>8, <1>10, <2>1 DEF CallSound, InProgress
  <2>2. CASE q # r
    BY <1>3, <1>10, <2>2 DEF CommitInv, CallSound, InProgress
  <2> QED
    BY <2>1, <2>2
<1>13. ASSUME NEW job \in jobs
       PROVE  JobSound(job)'
  <2>1. job.request \in Requests /\ job.request # r
    BY <1>3 DEF CommitInv, Job, JobSound
  <2> QED
    BY <1>10, <2>1 DEF CommitInv, JobSound
<1>14. ASSUME NEW q \in Requests, q # r
       PROVE  Excused(q, r)' /\ Excused(r, q)'
  <2>1. CASE InProgress(q)
    BY <1>5, <1>8, <1>10, <1>14, <2>1 DEF Excused
  <2>2. CASE ~ InProgress(q) /\ call[q].pc # "failed"
    <3>1. call[q].pc \in {"idle", "replied", "conflict"}
      BY <2>2 DEF CommitInv, CallType, InProgress
    <3>2. call[q].listed \subseteq committed
      <4>1. Content(<<>>) = {}
        BY EmptySeq, LenProperties DEF Content
      <4> QED
        BY <3>1, <4>1 DEF CommitInv, CallSound
    <3> QED
      BY <1>4, <1>8, <1>10, <1>14, <3>2 DEF Excused
  <2>3. CASE call[q].pc = "failed"
    BY <1>10, <1>14, <2>3 DEF Excused
  <2> QED
    BY <2>1, <2>2, <2>3
<1>15. ASSUME NEW p \in Requests, NEW q \in Requests, p # q
       PROVE  Excused(p, q)'
  <2>1. CASE p # r /\ q # r
    BY <1>10, <1>15, <2>1 DEF CommitInv, Excused
  <2> QED
    BY <1>14, <1>15, <2>1
<1> QED
  BY <1>3, <1>10, <1>11, <1>12, <1>13, <1>15 DEF CommitInv, JobsApart

\* The chunk that is queued is in none of the jobs the request queued before.
LEMMA EnqueueStep ==
  ASSUME CommitInv, NEW r \in Requests, NEW o \in Outcomes, EnqueueChunk(r, o)
  PROVE  CommitInv'
<1> DEFINE chunk == Head(call[r].chunks)
           new == [request |-> r, chunk |-> chunk]
           next == IF o = "ok" THEN "mark" ELSE "failed"
<1>1. /\ call[r].pc = "enqueue"
      /\ call' = [call EXCEPT ![r].pc = next]
      /\ jobs' = jobs \/ jobs' = jobs \cup {new}
      /\ UNCHANGED <<insert, sequence, committed>>
  BY DEF EnqueueChunk, store
<1>2. call \in [Requests -> CallType] /\ CallSound(r)
  BY DEF CommitInv
<1>3. /\ call[r].chunks \in Seq(Chunk) /\ call[r].chunks # <<>>
      /\ call[r].listed \subseteq Messages
  BY <1>1, <1>2 DEF CallType, CallSound, InProgress
<1>4. /\ chunk \in Chunk
      /\ Content(call[r].chunks) = ToSet(chunk) \cup Content(Tail(call[r].chunks))
      /\ ToSet(chunk) \cap Content(Tail(call[r].chunks)) = {}
  BY <1>2, <1>3, HeadAndTail DEF CallSound
<1>5. next \in {"mark", "failed"}
  OBVIOUS
<1> HIDE DEF chunk, next
<1>6. /\ call' \in [Requests -> CallType]
      /\ call'[r].pc = next /\ call'[r].chunks = call[r].chunks
      /\ call'[r].listed = call[r].listed /\ call'[r].rivals = call[r].rivals
      /\ \A q \in Requests : q # r => call'[q] = call[q]
  <2> DEFINE after == [call[r] EXCEPT !.pc = next]
             type == CallType
  <2>1. /\ after \in type /\ after.pc = next
        /\ after.chunks = call[r].chunks
        /\ after.listed = call[r].listed /\ after.rivals = call[r].rivals
    <3>1. call[r] \in CallType
      BY <1>2
    <3> QED
      BY <1>5, <3>1 DEF CallType
  <2>2. call' = [call EXCEPT ![r] = after] /\ call \in [Requests -> type]
    BY <1>1, <1>2
  <2> HIDE DEF after, type
  <2>3. call' \in [Requests -> type]
    BY <2>1, <2>2
  <2>4. call'[r] = after /\ \A q \in Requests : q # r => call'[q] = call[q]
    BY <2>2
  <2> QED
    BY <2>1, <2>3, <2>4 DEF type
<1>7. /\ new.request = r /\ new.chunk = chunk
      /\ ToSet(chunk) \subseteq call[r].listed
  BY <1>2, <1>4 DEF CallSound
<1>8. new \in Job
  BY <1>4 DEF Job, Chunk
<1> HIDE DEF new
<1>9. StoreInv' /\ faults' \in 0 .. MaxFaults
  <2>1. faults' \in 0 .. MaxFaults
    BY ChargeKeeps DEF EnqueueChunk, CommitInv
  <2> QED
    BY <1>1, <2>1, StoreInvStutter DEF CommitInv
<1>10. ASSUME NEW q \in Requests
       PROVE  CallSound(q)'
  <2>1. CASE q = r
    BY <1>1, <1>2, <1>3, <1>5, <1>6, <2>1 DEF CallSound, InProgress
  <2>2. CASE q # r
    BY <1>1, <1>6, <2>2 DEF CommitInv, CallSound, InProgress
  <2> QED
    BY <2>1, <2>2
<1>11. ASSUME NEW job \in jobs
       PROVE  JobSound(job)'
  <2>1. CASE job.request = r
    <3>1. /\ ToSet(job.chunk) \subseteq call[r].listed
          /\ ToSet(job.chunk) \cap Content(call[r].chunks) = {}
      BY <1>1, <2>1 DEF CommitInv, JobSound
    <3> QED
      BY <1>4, <1>5, <1>6, <2>1, <3>1 DEF JobSound
  <2>2. CASE job.request # r
    BY <1>6, <2>2 DEF CommitInv, Job, JobSound
  <2> QED
    BY <2>1, <2>2
<1>12. ASSUME NEW job, job = new
       PROVE  JobSound(job)'
  BY <1>4, <1>5, <1>6, <1>7, <1>12 DEF JobSound
<1>13. ASSUME NEW job \in jobs, job.request = r
       PROVE  ToSet(job.chunk) \cap ToSet(new.chunk) = {}
  <2>1. ToSet(job.chunk) \cap Content(call[r].chunks) = {}
    BY <1>1, <1>13 DEF CommitInv, JobSound
  <2> QED
    BY <1>4, <1>7, <2>1
<1>14. JobsApart'
  BY <1>1, <1>7, <1>13 DEF CommitInv, JobsApart
<1>15. \A p, q \in Requests : p # q => Excused(p, q)'
  <2>1. \A q \in Requests : call[q].pc = "failed" => call'[q].pc = "failed"
    BY <1>1, <1>6
  <2>2. \A q \in Requests : call'[q].rivals = call[q].rivals /\ call'[q].listed = call[q].listed
    BY <1>6
  <2> QED
    BY <2>1, <2>2 DEF CommitInv, Excused
<1>16. jobs' \subseteq Job /\ \A job \in jobs' : JobSound(job)'
  <2>1. \A job \in jobs' : job \in jobs \/ job = new
    BY <1>1
  <2> QED
    BY <1>8, <1>11, <1>12, <2>1 DEF CommitInv
<1> QED
  BY <1>1, <1>6, <1>9, <1>10, <1>14, <1>15, <1>16 DEF CommitInv

\* What leaves the chunks is marked, or the request has failed.
LEMMA MarkStep ==
  ASSUME CommitInv, NEW r \in Requests, NEW o \in Outcomes, MarkChunk(r, o)
  PROVE  CommitInv'
<1> DEFINE chunk == Head(call[r].chunks)
           rest == Tail(call[r].chunks)
           next == IF o # "ok" THEN "failed"
                   ELSE IF rest = <<>> THEN "replied" ELSE "enqueue"
<1>1. /\ call[r].pc = "mark"
      /\ call' = [call EXCEPT ![r] = [@ EXCEPT !.chunks = rest, !.pc = next]]
      /\ committed \subseteq committed'
      /\ committed' \subseteq committed \cup ToSet(chunk)
      /\ o = "ok" => committed' = committed \cup ToSet(chunk)
      /\ UNCHANGED <<insert, sequence, jobs>>
  BY DEF MarkChunk, Happened
<1>2. call \in [Requests -> CallType] /\ CallSound(r)
  BY DEF CommitInv
<1>3. /\ call[r].chunks \in Seq(Chunk) /\ call[r].chunks # <<>>
      /\ call[r] \in CallType
  BY <1>1, <1>2 DEF CallType, CallSound, InProgress
<1>4. /\ chunk \in Chunk /\ rest \in Seq(Chunk) /\ Apart(rest)
      /\ Content(call[r].chunks) = ToSet(chunk) \cup Content(rest)
  BY <1>2, <1>3, HeadAndTail DEF CallSound
<1>5. /\ next \in {"failed", "replied", "enqueue"}
      /\ next # "failed" => o = "ok"
      /\ next = "replied" => rest = <<>>
      /\ next = "enqueue" => rest # <<>>
  OBVIOUS
<1> HIDE DEF chunk, rest, next
<1> DEFINE new == [call[r] EXCEPT !.chunks = rest, !.pc = next]
<1>6. /\ new \in CallType /\ new.pc = next /\ new.chunks = rest
      /\ new.listed = call[r].listed /\ new.rivals = call[r].rivals
  BY <1>3, <1>4, <1>5 DEF CallType
<1>7. call' = [call EXCEPT ![r] = new]
  BY <1>1
<1> HIDE DEF new
<1>8. /\ call' \in [Requests -> CallType] /\ call'[r] = new
      /\ \A q \in Requests : q # r => call'[q] = call[q]
  <2>1. new \in CallType /\ call \in [Requests -> CallType]
    BY <1>2, <1>6
  <2> DEFINE type == CallType
  <2> HIDE DEF type
  <2>2. /\ [call EXCEPT ![r] = new] \in [Requests -> type]
        /\ [call EXCEPT ![r] = new][r] = new
        /\ \A q \in Requests : q # r => [call EXCEPT ![r] = new][q] = call[q]
    <3>1. new \in type /\ call \in [Requests -> type]
      BY <2>1 DEF type
    <3> QED
      BY <3>1
  <2> QED
    BY <1>7, <2>2 DEF type
<1>9. StoreInv' /\ faults' \in 0 .. MaxFaults
  <2>1. faults' \in 0 .. MaxFaults
    BY ChargeKeeps DEF MarkChunk, CommitInv
  <2> QED
    BY <1>1, <2>1, StoreInvStutter DEF CommitInv
<1>10. committed' \subseteq Messages
  BY <1>1, <1>4, ChunkHolds DEF CommitInv
<1>11. ASSUME NEW q \in Requests
       PROVE  CallSound(q)'
  <2>1. CASE q = r
    <3>1. call[r].listed \subseteq committed \cup ToSet(chunk) \cup Content(rest)
      BY <1>1, <1>2, <1>4 DEF CallSound
    <3>2. next # "failed" => call[r].listed \subseteq committed' \cup Content(rest)
      BY <1>1, <1>5, <3>1
    <3>3. Content(rest) \subseteq call[r].listed
      BY <1>2, <1>4 DEF CallSound
    <3> QED
      BY <1>4, <1>5, <1>6, <1>8, <2>1, <3>2, <3>3 DEF CallSound, InProgress
  <2>2. CASE q # r
    <3>1. call'[q] = call[q] /\ CallSound(q)
      BY <1>8, <2>2 DEF CommitInv
    <3> QED
      BY <1>1, <3>1 DEF CallSound, InProgress
  <2> QED
    BY <2>1, <2>2
<1>12. ASSUME NEW job \in jobs
       PROVE  JobSound(job)'
  <2>1. CASE job.request = r
    <3>1. ToSet(job.chunk) \subseteq call[r].listed /\ ToSet(job.chunk) \cap Content(rest) = {}
      BY <1>1, <2>1 DEF CommitInv, JobSound, rest
    <3> QED
      BY <1>5, <1>6, <1>8, <2>1, <3>1 DEF JobSound
  <2>2. CASE job.request # r
    BY <1>8, <2>2 DEF CommitInv, Job, JobSound
  <2> QED
    BY <2>1, <2>2
<1>13. \A p, q \in Requests : p # q => Excused(p, q)'
  <2>1. \A q \in Requests : call[q].pc = "failed" => call'[q].pc = "failed"
    BY <1>1, <1>8
  <2>2. \A q \in Requests : call'[q].rivals = call[q].rivals /\ call'[q].listed = call[q].listed
    BY <1>6, <1>8
  <2> QED
    BY <2>1, <2>2 DEF CommitInv, Excused
<1> QED
  BY <1>1, <1>8, <1>9, <1>10, <1>11, <1>12, <1>13 DEF CommitInv, JobsApart

LEMMA CommitInvNext == CommitInv /\ [Next]_vars => CommitInv'
<1> SUFFICES ASSUME CommitInv, [Next]_vars
             PROVE  CommitInv'
  OBVIOUS
<1>1. CASE UNCHANGED vars
  <2>1. StoreInv'
    BY <1>1, StoreInvStutter DEF vars, store, CommitInv
  <2> QED
    BY <1>1, <2>1 DEF vars, store, CommitInv, CallSound, InProgress, JobSound, JobsApart, Excused
<1> QED
  BY <1>1, StoreStep, ListStep, EnqueueStep, MarkStep DEF Next, Serve

LEMMA CommitInvHolds == Spec => []CommitInv
BY CommitInvInit, CommitInvNext, PTL DEF Spec

\* The variables have their types; a job that is queued is never empty.
THEOREM TypesHold == Spec => []TypeOK
<1>1. CommitInv => TypeOK
  BY DEF CommitInv, StoreInv, RowTypes, TypeOK, StoreTypeOK, CallType, Chunk
<1> QED
  BY <1>1, CommitInvHolds, PTL

\* A request that is answered with a job id has queued and marked all it
\* listed, whatever the cut and whoever else was marking.
THEOREM AnswerCoversListing == Spec => []ReplyCoversListing
<1>1. CommitInv => ReplyCoversListing
  <2>1. Content(<<>>) = {}
    BY EmptySeq, LenProperties DEF Content
  <2> QED
    BY <2>1 DEF CommitInv, CallSound, ReplyCoversListing
<1> QED
  BY <1>1, CommitInvHolds, PTL

\* The same message in two jobs is the work of two requests that overlapped or
\* of which one failed; one request alone never queues a message twice.
THEOREM TwiceOnlyAfterTrouble == Spec => []QueuedAgainOnlyAfterTrouble
<1>1. ASSUME CommitInv, NEW a \in jobs, NEW b \in jobs, a # b,
             ToSet(a.chunk) \cap ToSet(b.chunk) # {}
      PROVE  a.request # b.request /\ Excused(a.request, b.request)
             /\ call[a.request].listed \cap call[b.request].listed # {}
  <2>1. a.request # b.request
    BY <1>1 DEF CommitInv, JobsApart
  <2>2. a.request \in Requests /\ b.request \in Requests
    BY <1>1 DEF CommitInv, Job
  <2>3. /\ ToSet(a.chunk) \subseteq call[a.request].listed
        /\ ToSet(b.chunk) \subseteq call[b.request].listed
    BY <1>1 DEF CommitInv, JobSound
  <2> QED
    BY <1>1, <2>1, <2>2, <2>3 DEF CommitInv
<1>2. CommitInv => QueuedAgainOnlyAfterTrouble
  BY <1>1 DEF QueuedAgainOnlyAfterTrouble, Excused
<1> QED
  BY <1>2, CommitInvHolds, PTL

\* However the rows tie, whatever is committed and whatever the limit, a request
\* cuts what it lists as the reference definition says: each message in one
\* place, no chunk over a committed message or over the limit, and no cut
\* without need.
THEOREM EveryListingIsCut == Spec => ListingIsCut
<1>1. ASSUME CommitInv, [Next]_vars, NEW r \in Requests,
             call[r].pc = "idle", call'[r].pc # "idle"
      PROVE  IsCut(call'[r].chunks, call'[r].listed)
  <2>1. call \in [Requests -> CallType]
    BY <1>1 DEF CommitInv
  <2>2. ~ UNCHANGED call
    BY <1>1
  <2>3. ASSUME NEW q \in Requests, NEW o \in Outcomes, EnqueueChunk(q, o) \/ MarkChunk(q, o)
        PROVE  FALSE
    <3>1. call[q].pc # "idle" /\ q # r
      BY <1>1, <2>3 DEF EnqueueChunk, MarkChunk
    <3>2. call'[r] = call[r]
      BY <2>1, <2>3, <3>1 DEF EnqueueChunk, MarkChunk
    <3> QED
      BY <1>1, <3>2
  <2>4. PICK q \in Requests, scope \in {AllJournals} \cup {Journal[m] : m \in Messages} :
          List(q, scope)
    BY <1>1, <2>2, <2>3 DEF Next, Serve, StoreMessage, vars
  <2>5. PICK rows \in Listings(scope), window \in Listings(scope) :
          call' = [call EXCEPT ![q] =
            [pc |-> IF ChunksOf(rows, window) = <<>> THEN "conflict" ELSE "enqueue",
             chunks |-> ChunksOf(rows, window),
             listed |-> InScope(scope) \ committed,
             rivals |-> {p \in Requests \ {q} : InProgress(p)}]]
    BY <2>4 DEF List
  <2>6. /\ call'[r].chunks = ChunksOf(rows, window)
        /\ call'[r].listed = InScope(scope) \ committed
    <3>1. q = r
      BY <1>1, <2>1, <2>5
    <3> QED
      BY <2>1, <2>5, <3>1
  <2> QED
    BY <1>1, <2>6, ChunksAreCut DEF CommitInv
<1>2. CommitInv /\ [Next]_vars =>
        \A r \in Requests : call[r].pc = "idle" /\ call'[r].pc # "idle" =>
          IsCut(call'[r].chunks, call'[r].listed)
  BY <1>1
<1> QED
  BY <1>2, CommitInvHolds, PTL DEF Spec, ListingIsCut
=============================================================================
