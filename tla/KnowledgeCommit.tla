---------------------------- MODULE KnowledgeCommit ----------------------------
(***************************************************************************)
(* KnowledgeService.enqueue_update_job: list the uncommitted messages of a *)
(* user, cut them into chunks, and for each chunk queue a job and then     *)
(* mark its messages as committed.  Requests of the same user run          *)
(* concurrently with each other and with messages being inserted; nothing  *)
(* locks the rows between the listing and the mark.                        *)
(***************************************************************************)
EXTENDS MessageStore, SequencesExt

CONSTANTS
  Tokens,      \* Tokens[m]: _count_text_tokens of m's content
  TokenLimit,  \* settings.knowledge_update_max_tokens
  Requests,    \* POST /api/knowledge/update requests
  AllJournals  \* the scope of a request without a journal_reference

ASSUME TokenAssumption ==
  /\ Tokens \in [Messages -> Nat]
  /\ TokenLimit \in Nat
  /\ AllJournals \notin Nat

VARIABLES
  call,   \* call[r]: where request r stands
  jobs    \* the knowledge.update jobs that were queued

vars == <<store, faults, call, jobs>>

IdleCall == [pc |-> "idle", chunks |-> <<>>, listed |-> {}, rivals |-> {}]

InProgress(r) == call[r].pc \in {"enqueue", "mark"}

Init == StoreInit /\ call = [r \in Requests |-> IdleCall] /\ jobs = {}
-----------------------------------------------------------------------------
(* Chunks.                                                                 *)

\* The chunks that are closed, the open one and the tokens it holds.
NoChunks == [done |-> <<>>, chunk |-> <<>>, tokens |-> 0]

\* Mutant of Flush: an empty chunk is closed as well.
FlushAlways(acc) ==
  [done |-> Append(acc.done, acc.chunk), chunk |-> <<>>, tokens |-> 0]

Flush(acc) ==
  IF acc.chunk = <<>> THEN acc
  ELSE [done |-> Append(acc.done, acc.chunk), chunk |-> <<>>, tokens |-> 0]

\* Add m to the chunk that is open.
Extend(acc, m) ==
  [done |-> acc.done, chunk |-> Append(acc.chunk, m), tokens |-> acc.tokens + Tokens[m]]

\* _split_by_token_limit, one row.
TakeMessage(acc, m) ==
  Extend(IF acc.chunk # <<>> /\ acc.tokens + Tokens[m] > TokenLimit
         THEN Flush(acc) ELSE acc, m)

\* Mutant of TakeRow: a committed row is skipped and does not end the run.
TakeRowBridges(acc, m, afterCommitted) ==
  IF m \in committed THEN acc
  ELSE IF acc.chunk # <<>> /\ Journal[Last(acc.chunk)] # Journal[m]
       THEN TakeMessage(Flush(acc), m) ELSE TakeMessage(acc, m)

\* One row of the listing: a committed row, or the first one of another
\* journal or after a committed one, ends the run of messages that is cut.
TakeRow(acc, m, afterCommitted) ==
  IF m \in committed THEN Flush(acc)
  ELSE IF \/ afterCommitted
          \/ acc.chunk # <<>> /\ Journal[Last(acc.chunk)] # Journal[m]
       THEN TakeMessage(Flush(acc), m) ELSE TakeMessage(acc, m)

\* previous_committed of m, with `window` the order in which LAG sees the rows.
PreviousCommitted(window, m) ==
  \E i \in 2 .. Len(window) : /\ window[i] = m
                              /\ window[i - 1] \in committed
                              /\ Journal[window[i - 1]] = Journal[m]

\* What has been cut after the first i rows.
Cutting(rows, window) ==
  LET cut[i \in 0 .. Len(rows)] ==
        IF i = 0 THEN NoChunks
        ELSE TakeRow(cut[i - 1], rows[i], PreviousCommitted(window, rows[i]))
  IN cut

ChunksOf(rows, window) == Flush(Cutting(rows, window)[Len(rows)]).done

InScope(scope) ==
  {m \in Stored : scope = AllJournals \/ Journal[m] = scope}

\* ORDER BY reference, sequence; rows that tie come in any order, and the
\* window function may see them in another one than the result has.
Listings(scope) ==
  {rows \in SetToSeqs(InScope(scope)) :
     \A i, k \in DOMAIN rows : i < k =>
       \/ Journal[rows[i]] < Journal[rows[k]]
       \/ /\ Journal[rows[i]] = Journal[rows[k]]
          /\ sequence[rows[i]] <= sequence[rows[k]]}
-----------------------------------------------------------------------------
(* The request.                                                            *)

\* `listed` and `rivals` are history: what was listed, and which requests were
\* in progress then.
List(r, scope) ==
  /\ call[r].pc = "idle"
  /\ \E rows, window \in Listings(scope) :
       LET chunks == ChunksOf(rows, window)
       IN call' = [call EXCEPT ![r] =
            [pc |-> IF chunks = <<>> THEN "conflict" ELSE "enqueue",
             chunks |-> chunks,
             listed |-> InScope(scope) \ committed,
             rivals |-> {q \in Requests \ {r} : InProgress(q)}]]
  /\ UNCHANGED <<store, faults, jobs>>

\* Mutant of EnqueueChunk: an exhausted deadline is taken for a success.
EnqueueChunkHopes(r, o) ==
  /\ call[r].pc = "enqueue"
  /\ jobs' = IF Happened(o)
             THEN jobs \cup {[request |-> r, chunk |-> Head(call[r].chunks)]}
             ELSE jobs
  /\ call' = [call EXCEPT ![r].pc = "mark"]
  /\ Charge(o)
  /\ UNCHANGED store

\* EnqueueJob under its deadline; the error may hide a queued job.
EnqueueChunk(r, o) ==
  /\ call[r].pc = "enqueue"
  /\ jobs' = IF Happened(o)
             THEN jobs \cup {[request |-> r, chunk |-> Head(call[r].chunks)]}
             ELSE jobs
  /\ call' = [call EXCEPT ![r].pc = IF o = "ok" THEN "mark" ELSE "failed"]
  /\ Charge(o)
  /\ UNCHANGED store

\* Mutants of MarkChunk: only the first chunk is handled; only the first
\* message of a chunk is marked.
MarkChunkOnce(r, o) ==
  /\ call[r].pc = "mark"
  /\ committed' = IF Happened(o) THEN committed \cup ToSet(Head(call[r].chunks))
                                 ELSE committed
  /\ call' = [call EXCEPT ![r].pc = IF o = "ok" THEN "replied" ELSE "failed"]
  /\ Charge(o)
  /\ UNCHANGED <<insert, sequence, jobs>>

MarkChunkHead(r, o) ==
  LET rest == Tail(call[r].chunks)
  IN /\ call[r].pc = "mark"
     /\ committed' = committed \cup {Head(Head(call[r].chunks))}
     /\ call' = [call EXCEPT ![r] = [@ EXCEPT !.chunks = rest,
          !.pc = IF rest = <<>> THEN "replied" ELSE "enqueue"]]
     /\ Charge("ok")
     /\ UNCHANGED <<insert, sequence, jobs>>

MarkChunk(r, o) ==
  LET rest == Tail(call[r].chunks)
  IN /\ call[r].pc = "mark"
     /\ committed' = IF Happened(o) THEN committed \cup ToSet(Head(call[r].chunks))
                                    ELSE committed
     /\ call' = [call EXCEPT ![r] = [@ EXCEPT !.chunks = rest,
          !.pc = IF o # "ok" THEN "failed"
                 ELSE IF rest = <<>> THEN "replied" ELSE "enqueue"]]
     /\ Charge(o)
     /\ UNCHANGED <<insert, sequence, jobs>>

StoreMessage(m) == Insert(m) /\ UNCHANGED <<call, jobs>>

Serve(r) == \E o \in Outcomes : EnqueueChunk(r, o) \/ MarkChunk(r, o)

Next ==
  \/ \E m \in Messages : StoreMessage(m)
  \/ \E r \in Requests :
       \/ \E scope \in {AllJournals} \cup {Journal[m] : m \in Messages} : List(r, scope)
       \/ Serve(r)

Spec == Init /\ [][Next]_vars
-----------------------------------------------------------------------------
Job == [request : Requests, chunk : Seq(Messages) \ {<<>>}]

TypeOK ==
  /\ StoreTypeOK
  /\ call \in [Requests ->
       [pc : {"idle", "enqueue", "mark", "replied", "failed", "conflict"},
        chunks : Seq(Seq(Messages) \ {<<>>}), listed : SUBSET Messages,
        rivals : SUBSET Requests]]
  /\ jobs \subseteq Job
-----------------------------------------------------------------------------
(* Properties.                                                             *)

Queued(m) == \E job \in jobs : m \in ToSet(job.chunk)

\* No message is lost on its way to the knowledge base: what is marked, and
\* never listed again, was queued, whatever raised in between.
CommittedWasQueued == \A m \in committed : Queued(m)

\* Why: a chunk is marked only when its own job is queued.
QueueInv ==
  /\ CommittedWasQueued
  /\ \A r \in Requests : call[r].pc = "mark" =>
       \A m \in ToSet(Head(call[r].chunks)) : Queued(m)

\* A request is answered with a job id only when everything it listed has been
\* queued and marked, the chunks behind the first one included.
ReplyCoversListing ==
  \A r \in Requests : call[r].pc = "replied" => call[r].listed \subseteq committed

\* A message is queued twice only by two requests of which one failed half-way
\* or that overlapped; a request alone queues nothing twice.
QueuedAgainOnlyAfterTrouble ==
  \A a, b \in jobs : a # b /\ ToSet(a.chunk) \cap ToSet(b.chunk) # {} =>
    /\ a.request # b.request
    /\ \/ "failed" \in {call[a.request].pc, call[b.request].pc}
       \/ a.request \in call[b.request].rivals
       \/ b.request \in call[a.request].rivals

\* The sum over a chunk.
TokensOf(chunk) ==
  LET sum[i \in 0 .. Len(chunk)] == IF i = 0 THEN 0 ELSE sum[i - 1] + Tokens[chunk[i]]
  IN sum[Len(chunk)]

\* The reference definition of a cut: the chunks hold exactly the uncommitted
\* messages, none twice; a chunk has messages of one journal, in order, within
\* the token limit unless it is a single message, and spans no committed one;
\* two chunks of an unbroken run are separate only because the limit forces it
\* (two messages with the same number may be separated without need).
IsCut(chunks, messages) ==
  LET Between(m, n) == {k \in committed : /\ Journal[k] = Journal[m]
                                          /\ sequence[m] < sequence[k]
                                          /\ sequence[k] < sequence[n]}
  IN /\ UNION {ToSet(chunks[i]) : i \in DOMAIN chunks} = messages
     /\ \A i, j \in DOMAIN chunks : \A k \in DOMAIN chunks[i], l \in DOMAIN chunks[j] :
          chunks[i][k] = chunks[j][l] => i = j /\ k = l
     /\ \A i \in DOMAIN chunks :
          /\ TokensOf(chunks[i]) <= TokenLimit \/ Len(chunks[i]) = 1
          /\ \A k, l \in DOMAIN chunks[i] :
               LET m == chunks[i][k]
                   n == chunks[i][l]
               IN /\ Journal[m] = Journal[n] /\ Between(m, n) = {}
                  /\ k < l => sequence[m] <= sequence[n]
     /\ \A i \in 1 .. Len(chunks) - 1 :
          LET last == Last(chunks[i])
              next == Head(chunks[i + 1])
          IN \/ Journal[last] # Journal[next]
             \/ sequence[last] = sequence[next]
             \/ \E k \in committed : /\ Journal[k] = Journal[last]
                                     /\ sequence[last] <= sequence[k]
                                     /\ sequence[k] <= sequence[next]
             \/ TokensOf(chunks[i]) + Tokens[next] > TokenLimit

\* Every listing is cut that way.
ListingIsCut ==
  [][\A r \in Requests :
       call[r].pc = "idle" /\ call'[r].pc # "idle" =>
         IsCut(call'[r].chunks, call'[r].listed)]_vars
=============================================================================
