# Exobrain: TLA+ models and proofs

Exobrain is a personal assistant with a journal and a knowledge graph. Users
chat with an assistant; the conversation of a day is a journal; on request the
journal's messages are turned into updates of a knowledge graph by an
asynchronous job. This directory holds TLA+ models of its core logic, the TLC
configurations that check them, and proofs checked by TLAPS.

## 1. Inventory

| component | state | operations | interacts with | what is hard | what makes it correct |
|---|---|---|---|---|---|
| **job-orchestrator worker** (`apps/job-orchestrator/app/orchestrator.py`, `job_repository.py`, `main_worker.py`) | rows of `orchestrator_jobs`; deliveries in memory; the position of each `process_message` call | take a delivery, register, mark, run the script, publish events, ack or nak, dead-letter | JetStream (deliveries, acks, publishes), Postgres, the job script in a child process | every `await` is an interleaving point; redelivery while a job runs; crash between two calls; a call that raises after it took effect; retries | success is reported only for a script that succeeded; nothing leaves the queue unannounced; bounded work; every request is settled |
| **job-orchestrator API** (`app/transport/grpc/service.py`, `main_api.py`) | none of its own | EnqueueJob, GetJobStatus, WatchJobStatus | publishes to JetStream, reads the worker's rows, subscribes to `jobs.status.<id>` | two publishes that are not atomic; snapshot then subscription; rows and events written at different times | a watch ends, only when the job is decided, and tells the truth |
| **assistant-backend: knowledge service** (`services/knowledge_service.py`) | `messages.committed_to_knowledge_base` | list uncommitted messages, split by token budget, enqueue a job per chunk, mark the chunk committed, forward a watch as SSE | job-orchestrator API, Postgres | concurrent requests list the same messages; enqueue and mark are not atomic; deadline on a call that took effect | no message is marked without having been queued; duplicates only after a fault or an overlap; jobs fit the budget |
| **assistant-backend: chat** (`services/chat_service.py`) | a dictionary of queues, one per stream id; producer tasks | start a stream, produce chunks, read events | agent, journal service, SSE clients | two readers of one queue, no reader, agent failure after the question was stored | every reader ends; the reply is stored once |
| **assistant-backend: conversations** (`services/conversation_service.py`) | `conversations`, `messages` (sequence per conversation), `tool_calls` | ensure, insert, list by cursor | Postgres | `MAX(sequence) + 1` under READ COMMITTED without a unique index | paging returns every message once |
| **assistant-backend: journal and cache** (`services/journal_service.py`, `journal_cache_store.py`) | Redis entries and index sets | cache-aside reads, invalidation after writes | conversations, Redis | fill after invalidation, entry before index, swallowed errors | a read after a write does not return older data for longer than the TTL |
| **assistant-backend: sessions, auth, user configuration** | sessions, users, configuration values | log in, log out, read and write a setting | Postgres, Redis | nothing beyond single calls | - |
| **assistant-frontend** (`src/routes/+page.svelte`, `src/lib/services`) | the page: journal, messages, streaming and pending flags; session storage | select a journal, send, consume a stream, resume, load older, update the knowledge base, log out | the backend's HTTP and SSE endpoints | answers out of order, a stream closed under its consumer, reload | the page shows the selected journal; no flag stays set |
| **knowledge-interface: graph writes** (`application/use_cases`, `infrastructure/repository`, `infrastructure/qdrant.rs`) | Memgraph nodes and edges, Qdrant points | validate and upsert a delta, list, fetch context | two stores without a common transaction | checks outside the transaction, vectors before the commit, compensation, retry | one parent per block; every block has its vector |
| **knowledge-interface: schema and users** (`application/mod.rs`) | schema types in Postgres with vectors in Qdrant; initialised users | upsert a type, synchronise vectors, initialise a user | Postgres, Qdrant, Memgraph | write then vector; delta then mark | restart repairs what a crash left |
| **knowledge.update script** (`app/worker/jobs/knowledge_update`) | none between runs | read schema, extract, match, compare, relate, build, merge, check, upsert, each with retried calls | model-provider, knowledge-interface | answers of models that fit no schema; an upsert whose answer is lost; a rerun after success; a schema that changes on the way | the stored graph keeps its shape; success means everything extracted is stored |
| **assistant-backend: wiki pages** (`services/knowledge_service.py`, `api/routers/knowledge.py`) | what a tab was answered | category tree, page listing, page detail, patch of blocks | knowledge-interface | a listing by offset over rows that move; a patch in two calls | tree and page tell what the graph holds; a patch is applied whole |
| **model-provider** (`app/main.py`, `app/providers`) | a semaphore per client | check a history, take a permit, repeat after a rate limit, turn an upstream stream into frames | upstream APIs, agents, job script | permits held while streaming or not, errors in mid-stream | permits are neither lost nor made |
| **mcp-server** (`app/services`, `app/transport`) | none | authenticate, invoke a tool, envelope of its result | Redis sessions, backend's MCP client | which answers are errors of the tool, which of the call | a tool's failure reaches the model |
| **infra, scripts, e2e, docs** | - | deployment and tooling | - | - | - |

`PROJECT.json` lists the hazards of this code, each at its line, and what covers it.

## 2. Plan

Modules, in the order they were written; those marked * exist.

1. `JobOrchestrator`*: worker, queue, rows and events; `JobPromise`*, the
   at-least-once promise it implements; `JobOrchestrator_proof`*.
2. `JobStatusWatch`*: the API's watch on top of the whole of `JobOrchestrator`;
   its theorems stand at the end of `JobOrchestrator_proof`.
3. `MessageStore`*: inserting and numbering messages, and on top of it
   `KnowledgeCommit`* (list, cut, enqueue, mark, with overlapping requests and
   deadlines) and `MessagePages`* (cursor pages); `MessageStore_proof`* and, on top of
   it, `KnowledgeCommit_proof`* and `MessagePages_proof`*.
4. `KnowledgeGraph`*: the stored graph and what UpsertGraphDelta checks and
   writes; on top of it `KnowledgeUpdateJob`* (the script) and `WikiPages`* (the
   pages of the graph, and their patches, next to jobs that write);
   `KnowledgeUpdateJob_proof`* and `WikiPages_proof`*.
5. `ModelProvider`* and `ToolServer`*, which `ChatStream`* composes with the
   producer of a stream, the agent's thread, and the stream's readers;
   `ChatStream_proof`*.
6. `JournalCache`*: cache-aside reads against writes and best-effort
   invalidation; `JournalCache_proof`*.

What is left, in order:

7. `GraphCommit`: the graph and its vectors, two stores without a common
   transaction, with compensation and with the checks outside the transaction.
   Then `SchemaTypeSync`: a schema type and its vector, with rollback.
8. The page of the frontend on top of `ChatStream` and `JobStatusWatch`: send,
   resume after a reload, switch the journal while a stream runs.
9. Theorems about these two, once they exist.

## 3. The modules

### JobOrchestrator

| variable | in the code |
|---|---|
| `client` | where the `EnqueueJob` call that creates the job stands (`service.py:69-85`) |
| `consumer`, `delivered`, `inbox` | the durable consumer's state of the request message, its `num_delivered`, and the deliveries held by the worker's subscription (external: JetStream with explicit acks, `ack_wait`, no `max_deliver`, see `main_worker.py:54-60`) |
| `handler` | one `process_message` call per permit of the semaphore (`main_worker.py:47-52`); its label names the call it is about to make |
| `row` | the row of `orchestrator_jobs`: status, attempt, `is_terminal`, `terminal_reason` |
| `statusLog` | what the stream keeps on `jobs.status.<job>` |
| `results`, `dlq` | what was published under `jobs.events` and on `jobs.dlq` |
| `returned` | history: jobs whose script exited with status 0 |
| `used` | how much of each bound has been spent |

The actions are the awaits of `process_message` in its order: `Receive` (parse
and validate, no await), `Register`, `EmitPending`, `MarkProcessing`,
`EmitStarted`, then the try block `RunReturns`/`RunFails`, `MarkCompleted`,
`EmitCompleted`, `EmitSucceeded`, `Ack`; the except branch `MarkRetrying`,
`EmitRetrying`, `Nak` or `MarkTerminal`, `EmitFailed`, `EmitFailedFinal`,
`EmitDlq`, `Ack`; and the two publishes of `EnqueueJob`. Each call to Postgres
or NATS ends in one of three ways: it returns ("ok"), it raises without effect
("lost"), or it raises after its effect ("late"). An exception inside the try
block enters the except branch (`RaisedLabel`); any other one leaves the handler
without ack or nak, and the message waits for its ack timer. `_emit_dlq` catches
its own exception, so `EmitDlq` continues to the ack in all three cases.

The environment: `Deliver`, `AckWaitExpires` (the timer runs from delivery, so
it also expires while a delivery waits or its job runs), `Crash` (deliveries in
memory and running handlers are gone, the stores stay), `Rebind` (the worker
restarts under another `JOB_CONSUMER_DURABLE` - the default is already called
`-v2` - and the stream is replayed from its start), and `ForeignRequest`, a
malformed request put on the subject by somebody else.

Abstracted: payloads (a job is valid, has a bad payload or a bad envelope),
timestamps and error texts, the script (its exit status), the
time-outs of the clients (a call that raises). The client library may
await the callbacks of a subscription one at a time; then one slot is what runs
whatever the semaphore admits. The runs therefore take both one and two slots.

### JobPromise and KeepsPromise

`JobPromise` says what a producer may rely on: a request stays open until the
end of its job was announced, success is announced only for a script that
succeeded, and an open request is closed in the end. `JobOrchestrator` implements
it (`KeepsPromise`) under the mapping in its last section, as long as the
durable consumer is not replaced: the duplicate check would ack a replayed
request of an unfinished job.

### JobStatusWatch

Extends `JobOrchestrator` with the streams of `WatchJobStatus`: `Open`,
`Snapshot` (row to event, `NOT_FOUND`, or the end if the row is terminal),
`Subscribe` (an ephemeral consumer: it replays the subject from its start),
`Forward` one event until a terminal one, `HangUp`. The SSE endpoint of the
backend forwards these events one to one and turns the terminal one into `done`.

### MessageStore, KnowledgeCommit, MessagePages

`MessageStore` has the messages of one user's journals and no behaviour of its
own; the two modules that extend it compose it with their readers.

| variable | in the code |
|---|---|
| `insert` | the `insert_message` call of a message: `BeginInsert` is the snapshot in which the statement computes `MAX(sequence) + 1`, `EndInsert` its commit. Inserts overlap between the two, because nothing locks the conversation. A call that raised may be repeated with its `client_message_id`; then ON CONFLICT keeps the row and its number |
| `sequence`, `committed` | the columns `sequence` (0: no row yet) and `committed_to_knowledge_base` |
| `faults` | how many calls have raised, before their effect ("lost") or after it ("late") |
| `call` (KnowledgeCommit) | where an `enqueue_update_job` stands and which chunks it has left; `listed` and `rivals` are history |
| `jobs` (KnowledgeCommit) | the jobs the orchestrator has accepted, with the messages they carry |
| `reader` (MessagePages) | a client that calls `list_messages` with the lowest sequence it has; `due` is history |

`List` is one SELECT and the cutting of its rows, with no await between them;
`EnqueueChunk` and `MarkChunk` are the two awaits per chunk. An error of either
ends the request with the chunks behind it untouched; `EnqueueJob` runs under a
deadline, so its error may hide a queued job ("late"). A backend that stops in
the middle of a request leaves the same stores as one of its calls raising.
Rows with equal numbers come in any order, in the listing, in the window
function that yields `previous_committed`, and in a page.

`Cutting` takes `TakeRow` and `TakeMessage` over the rows one by one: the loops of
`_list_uncommitted_message_sequences` and `_split_by_token_limit`. The code
splits a run when it ends, `Cutting` while it grows; the result is the same.
`ListingIsCut` compares it with `IsCut`, which says where a cut may and must be and not
how it is found.

Abstracted: contents (a message is its token count), message payloads, who wrote
a message, the touch of `conversations.updated_at`, the cache between router and
`list_messages`, and what the job then does (that is `JobOrchestrator`).

### KnowledgeGraph, KnowledgeUpdateJob

`KnowledgeGraph` has no variables. A graph is its universes, entities, blocks and
edges; `Invalid` is what `validate_delta_against_schema` and
`enforce_graph_state_rules` answer INVALID_ARGUMENT to, `Dangles` the edge without
an end that rolls the transaction back, `Merged` the writes of
`apply_delta_in_tx`: nodes and edges are merged by identity.

| variable of `KnowledgeUpdateJob` | in the code |
|---|---|
| `pc`, `at`, `tries` | the call `run()` is about to make, for which item of its step's list, and how often it has failed (`_call_with_retry`) |
| `asked` | step five has complained about a decision once already |
| `work`, `delta` | what the steps have returned; step nine's delta |
| `minted` | ids made by `uuid4`: a counter, so that none comes twice |
| `schema` | the properties of the entity type: key, value type, writable, required; another client may change them |
| `graph` | what is stored; it survives the script and its reruns |
| `run`, `faults` | bounds |

One action per call of the script, in its order: `Connect`,
`ReadExtractionSchema`, `Extract`, `FindCandidates`, `Focus`, `ResolveAtOnce` or
`ReadCandidates` and `Compare`, `FindPairs`, `ReadEdgeSchema` and `Relate` per
pair, `ReadTypeContext`, `ReadEntityContext` and `BuildEntityGraph` per entity,
`Merge`, `Preflight`, `Upsert`. `CallRaises` is a call that fails, passing or not;
`AgentMisbehaves` an answer that its model class rejects. Everything a model
answers is taken from small sets that contain what its schema allows and a
mistaken model may say: ids of other entities, placeholders twice, cycles,
two roots, unknown parents, words for "nothing", values that are null.
`RunAgain` is the orchestrator, which may run a script that has succeeded.

`Preflight` (the script) and `Misfits` (the knowledge interface) do not ask the
same of a property: the script insists on `writable` and on value types and
ignores required properties nobody may write; the interface only looks at which
keys are there. Both are modelled. A property of a date type is refused by the
script whatever the model writes, because `_to_property_value_dict` never makes a
`datetime_value`: an entity given such a property ends the job.

What the code computes in loops over the answers is a recursive function here: `Kept`
of `Deduplicated` (step seven's skip of untyped pairs is taken together with it, it
looks at one pair only), `Endless` of `BlocksRejected`, which stands for the walk of
`_visit`, and `After` of `Merge`. The graph before the job is any finite one that is
well described: each entity has at most one description, each block one parent.
`user_init_delta` gives the user's own person entity no description, so an entity that
is stored may have none. A job that resolves a mention of the user to it and sends a
first root block is let through, once; in the run it is entity 2. `Resolve` drops the
matches with the last entity, because no later step reads them.

Abstracted: prompts, documents, texts, names, descriptions, types other than one
entity type (and none), confidence values. Steps zero and ten and
`core.run`, which the entry point does not call, are not in the model.

### WikiPages

| variable | in the code |
|---|---|
| `graph`, `text`, `ranking` | the graph, the blocks' texts, and the order in which `ListEntitiesByType` lists a category: by relevance (the number of its blocks, whose it is, its neighbours), then the newest update, then the id |
| `tab` | what a browser tab was answered last, and the patch it has under way |
| `faults` | calls that failed |

`OpenTree` is `list_wiki_category_tree` over any of the `Schemas`; a category in
the tree stands for its lineage from a root. `ListCategory` and `ListMore` read a
page by offset and one row beyond it; `OpenPage` is `get_page_detail`, with the
blocks down to a level and their walk in `_map_content_blocks`. A patch is two
calls: `ReadForPatch` holds the asked ids against the page's context, `Patch`
sends a delta of blocks. `JobWrites` merges a job's delta, and moves what it
touched up in the listing, because blocks and edges it adds raise the relevance and
the write is the newest: `Reranked` says what must keep its order. A patch changes
neither. The rules of
`KnowledgeGraph` decide about both deltas. `Patched` sets the blocks one after the
other, because an item may come twice. `tab.steady` is history. Titles, properties, links and timestamps are left
out.

### ModelProvider, ToolServer, ChatStream

`ModelProvider` has the client in use, the free permits of its semaphore and per
caller the request it has open: `Queue` (with `Accepts`, the check of the
history's tool calls), `Acquire`, `RateLimited` (repeated or not), `Opened`, the
frames, and the ways a stream ends. The two clients differ: Anthropic's keeps the
permit while it streams, OpenAI's gives it back when the stream opens; the model
takes either. `ToolServer` has no state: the answers of an invocation, and which
of them the MCP client raises for or repeats.

| variable of `ChatStream` | in the code |
|---|---|
| `known`, `told`, `taken` | `_streams`: which queues can be found, every event put in one, how many were taken out |
| `task` | the producer `_produce_journal_stream` and, below it, the agent's run: its label names the call it awaits |
| `thread` | LangGraph's checkpoint of the day's thread (external; how it is used is in `main_assistant.py`) |
| `journal` | what the conversation store holds of a stream: the message, the answer, the rows of tool calls |
| `reader` | a `GET /stream/{id}`: its stream, how it stands and what it got |

`Start` to `AllStored` follow the producer; `HearText`, `HearToolCall`,
`AnswerFinishes`, `AnswerBreaks` (an error frame), `AnswerStops` (no finish
reason) and `ConnectionLost` are what comes of a model's answer; `ToolReturns`,
`ArgumentsRefused`, `ToolTimesOut` and `ToolRaises` what comes of a call. Tools of
one answer run at once. `Crash` ends tasks and queues and keeps thread and
journal. Readers `Open`, `Read` and `Disconnect`; two readers of one queue divide
its events, so the properties are about a reader that is alone. A job asks the
same provider. Words and blanks are told apart, because an answer of blanks is
not stored. `Chosen` picks the events of a kind out of a stream: a recursive function
instead of `SelectSeq`, so that it can be proved about.

### JournalCache

| variable | in the code |
|---|---|
| `store` | per journal, how often its row, its messages and its tool calls have changed: what a read returns is these counts |
| `cache`, `index` | the Redis keys and the two kinds of index sets; `raced` (a write overlapped the read that set the key) and `doubtful` (its listing or its clearing was broken off) are history |
| `request` | the operation a request has under way, one label per call to Postgres or Redis; `raced` and `kept` (its own DEL of the entry raised) are history |
| `writes`, `faults` | bounds |

Reads: `Hit`, or `Miss`, `Fetch`, `Set`, `Index` (the key is set before it is
listed; the marker of a journal that was not found is not listed). Writes: the
statement(s), the lookup of the reference, then `_invalidate_for_reference` as
`DeleteEntry` and twice `ReadIndex`, `DeleteMembers`, `DeleteIndex`. A call that
raises in there is logged and swallowed (`InvalidationRaises`): the rest is not
cleared, the request goes on, and with create=true it reads the entry as after a whole
invalidation (`AfterInvalidation`). `Breaks` is everything that ends a request: a
call to the store or of a read that raises, or a backend that goes down at any point.
`Expire` is Redis.

## 4. Runs

| run | instance | shows |
|---|---|---|
| `jobs_single` | 1 job, 1 slot, 2 attempts, 1 raising call, 1 crash, 1 early ack timeout | reports are truthful, acks come after announcements, dead letters announced, events agree with the row, attempts go up, the promise is kept, every request is settled |
| `jobs_concurrent` | a valid job and a bad envelope, 2 slots, 1 early ack timeout, 1 replaced consumer; handlers symmetric | the inductive invariant `AckInv` of a proof; a replay never repeats a first attempt |
| `jobs_watch` | 1 job, 1 slot, 1 watcher that may reconnect, 1 raising call, 1 crash | a watch ends, not before the job is decided, and does not claim a success that did not happen |
| `jobs_terminal_final` | 1 job, 1 slot, 1 early ack timeout | finding: events follow the terminal one |
| `knowledge_commit` | 2 days with 3 + 1 messages, 2 requests (symmetric) after an earlier one, token limit 3, 1 raising call | nothing marked was left unqueued, an answer covers the listing, duplicates need an overlap or a failure, listings are cut as defined and each chunk fits the limit, higher numbers are newer |
| `message_pages` | the same messages, 1 client, 2 rows per page, 1 raising insert | newest first, nothing twice, nothing missed but ties |
| `knowledge_update_job` | 2 runs over a graph with 1 described entity and the user's own without a description, 2 entities extracted at most, 4 schemas, 2 tries per call, 1 failure or schema change | the graph keeps its shape, a delta hangs together, success means stored, an entity that has a description is not written again |
| `chat_stream` | 1 chat turn with up to two rounds, 2 readers, a job, 1 permit, 1 failure anywhere | permits, journal and stream agree, a sole reader gets everything and is released, the thread stays acceptable |
| `chat_error_told` | the same | finding: a broken answer passes for a whole one |
| `journal_cache` | 1 journal, new or with a message, its entry and its messages as keys, 2 requests, 2 writes, 1 failure | a key is behind only after trouble, a created journal is denied only after a race with the creation or a failed DEL of the request's own, the cache catches up |
| `wiki_pages` | 2 tabs (symmetric), 3 pages of one category, 1 row per page, jobs that add blocks and relations, 1 failure | the tree is all lineages, paging misses only what rose, page and patch agree with the graph |
| `wiki_missing_page` | 1 page that is not there | finding: 502 instead of 404 |

Bounds. Two attempts give a retry and a give-up; two jobs are needed only for
handlers and inbox to be contended, and the second one is a malformed message, so
that it also takes the path of the invalid envelope (an invalid payload takes the
last part of that path at its first delivery; the proofs cover it). One raising call reaches every except path,
because a job has at most a dozen calls and each is tried at every position; a
second fault adds another path of the same shape. `delivered` grows without bound
only through faults, crashes and early timeouts, which are bounded by
`MaxFaults`, `MaxCrashes`, `MaxLate` and `MaxRebinds`. In `knowledge_commit` the
messages have 1, 4, 2 and 1 tokens under a limit of 3: one is too large for any
chunk, two fill a chunk exactly, and the other day follows without a committed
message between. `Backlog` starts with one message of the first day stored, or
all three, of which an earlier request has marked any subset; a gap comes about
when an insert is overtaken by others and by a request. Ties come about by overlapping inserts.
Two requests are what an overlap takes. Two rows per page and three messages put
a page boundary both before and inside a tie.

In `knowledge_update_job` two entities give a pair and a conflict of ids, one of the
stored ones has a description and the other has none, and the second run sees what the
first one stored; the scores lie on and around the three
thresholds of `_classify_candidate_matches`, the answers of step eight are one for
each way a tree of blocks can be right or wrong, and the schemas one for each way
a property can be allowed, required, typed and writable. Three tries would repeat
the second one. In `chat_stream` one text frame and one tool call per answer, for
a mapped and an unmapped tool, reach every event; the second reader stands for a
reconnect or a second tab; one permit makes the job and the stream wait for each
other. One stream at a time: two streams of a day on one thread are allowed by the
module and too many states for a run. `journal_cache` needs two requests and two
writes for a fill that overlaps an invalidation that overlaps another; the proof
covers any number and any keys. In `wiki_pages` a page size of 1 and three pages
give a listing that moves between two requests; a visit starts with the tree
and does not come back to it, of the jobs' two deltas one hangs a block below a shown one, which is
refused when it comes again, the other touches a page without changing its blocks;
everything belongs to one user and nothing is hidden.

Symmetry is used only where no liveness is checked. Deadlock is not an error: once all requests are
settled and the bounds are spent the system rests.

Fairness. In the jobs' modules, weak fairness of delivery, of the ack timer of messages that nobody
holds any more (`ack_wait` is finite), of each handler (the event loop resumes a
coroutine whose call has ended; every call has a time-out or ends with the
connection; a script ends) and of the second publish of `EnqueueJob`. Crashes,
early timeouts, faults and clients are not fair. `EveryWatchEnds` also needs weak
fairness of serving a stream. In `ChatStream`: weak fairness of a task's next step
and of the job's answer, because the event loop resumes them and every call out
has a time-out; strong fairness of getting a permit, because `asyncio.Semaphore`
serves its waiters in turn; weak fairness of a reader that stays. Model answers
that go on for ever are excluded by the bound on frames, as the upstream token
limit does. In `JournalCache`: weak fairness of an operation's next step, and of
`Expire`, because every key is set with a time to live. `KnowledgeUpdateJob`,
`WikiPages` and the readers of messages state safety only.

### Findings

* `TerminalEventIsFinal`. The SSE contract says that `terminal` is true only for
  the final update. `process_message` does not look at `is_terminal`: when the
  ack timer expires while the job still runs, the redelivery is processed after
  the job has completed; STARTED, a second run and a second terminal event
  follow.
* `StreamErrorsAreTold`. The chat stream contract says that the error event is
  emitted for stream errors. `_chunk_from_frame` returns nothing for an error frame
  of the model provider, so an answer that broke off after some text is stored as
  the whole answer and ends with `done`.
* `MissingPageIs404`. The page contract lists 404 for a page that is not there. The
  knowledge interface reports it as an internal failure, like every error that is
  not a validation, and the backend answers 502; its branch for NOT_FOUND is dead.

Seen while modelling, without a run of their own: a redelivery of a completed job
leaves `is_terminal` set while the row says `processing`, so a watch opened then is
closed with state STARTED; messages with equal numbers (two overlapping inserts)
at a page's end are on no page, which is why `MissedOnlyTies` has its name;
`content_blocks` are in the order of a walk down the tree, where the backend's
README speaks of upstream order; a tool that raises ends the run without a result
in the thread, and so does a crash while tools run; every later message of that day is
then refused by the provider (`RunKeepsHistoryInOrder` says that a run which comes to
ask the model again has not done this); an update of an entity
that has a description is always refused, because the script sends a root block
again (`DescribedOnce`), so of what is stored only the user's own entity can be
updated, and that once; GET /today?create=true answers 404 for the journal it
has just created when the DEL of its entry fails while a marker for the missing
journal is held (`CreatedIsFound` allows it for that reason); the page stops asking for
older messages when it shows as many as the entry's count (`canLoadOlderMessages`),
which may be before the empty page that `message_pages` takes for the end.

## 5. Proofs

`JobOrchestrator_proof` proves, for any jobs, handlers and bounds:

* `TypeCorrect`: `Spec => []TypeOK`. `TypeOK` is inductive. `StepType` and
  `EnvironmentType` have one step per action; the effect of a call that may
  raise is proved once (`ChargeType`, `ProceedType`, `EmitStatusType`,
  `PublishResultType`, `RowStepType`).
* `SuccessReported`: `Spec => []SuccessMeansRan`. The property alone is not
  inductive: that `MarkCompleted` may write "completed" is known only from the
  handler's position. `SuccessInv` adds it: past the first call of the try block
  the script of the handler's job has succeeded.
* `AckAnnounced`: `Spec => []AckedIsAnnounced`. `AckInv` adds why an ack is due:
  `AckIsDue` (before an ack inside the try block, or after a dead letter, the
  terminal event is in the log) and `FirstDeliveryIsUnique` (on the first
  consumer, attempt 1 is delivered once and before the row exists), which shows
  that the ack of the duplicate branch is never taken there.

The arguments are the same for all of them: `Init => Inv`, one case per action,
`PTL`. `StepEffect` and `EnvironmentStepEffect` state once what a step can do to
logs, rows and handlers. Assumed: `JobAssumption` and `BoundAssumption`, which say
what the constants are.

* `AckIsAlwaysDue`: `Spec => []AckInv`, the same invariant as a theorem of its own.

From there the module describes once what any step of a handler does: to its own label
(`Move`), to the log (`LogStep`), to the row (`RowStep`) and to everything else
(`RestStep`). `StepIsHandlerStep` shows it for all actions, and each property then has
to look at one description instead of every action:

* `DeadLettersAreAnnounced`: `Spec => []DeadLetterIsAnnounced`. `ExhaustedInv` adds what a
  handler that gives up has published so far; its events survive in the log whatever
  other handlers of the job do.
* `FirstStartIsOne`: `Spec => []FirstAttemptStartsOnce`, with any number of replays of the
  stream. The property speaks of the log only and is not inductive: nothing in it stops
  a second handler from reporting attempt 1. `StartInv` says why none can: the handlers
  on their way to that report (`Launching`) are those whose insert made the job's row,
  so there is at most one, the report is not yet in the log while there is one, and a
  job without a row has none.
* `AttemptsGoUp`: `AttemptsIncrease`, an action property, with one handler
  (`OneHandler`) and a consumer that is kept (`MaxRebinds = 0`). `OrderInv`: the
  deliveries of a job wait in the order of their attempts, above the handler's,
  which is not below the row's. Both hypotheses are the property's own: with two handlers a stale
  delivery overwrites a younger one, and a new consumer counts from 1 again.
* `EventsFollowRow`: `Spec => []EventsAgreeWithRow` with one handler, replays included.
  `AgreeInv`: at each label the row says what the handler's last statement wrote.
* `PromiseKept`: `Spec => Promise!Spec` while the consumer is kept, the step
  refinement of `JobPromise`: each step submits, runs, announces or closes one request,
  or changes nothing the promise speaks of. `PromiseInv` adds that only what was
  published is delivered and that a malformed request never reaches the script. That
  an open request is closed in the end, the other half of `KeepsPromise`, needs
  fairness and is model-checked.

`JobOrchestrator_proof` ends with the composition, `WatchersToldTruth`:
`WatchSpec => []ToldSuccessMeansRan`, for any number of clients next to any workers.
A step of `WatchSpec` is a step of `JobOrchestrator` or one of the watch, so
`SuccessInv` is carried over as it stands and gives that every row and every event
of a log tells the truth; `WatchInv` adds that a stream belongs to a job, and a
script that has succeeded stays so (`returned` only grows). `WatchersToldEnd`:
`WatchSpec => [](used.rebinds = 0 => DoneMeansDecided)`. `DecidedInv` is about the worker:
a terminal row or event exists only of a job whose script succeeded or whose attempts
were all delivered. A new consumer delivers from attempt 1 again, so "all delivered"
is not kept by it; the run has none.

`JournalCache_proof` proves, for any keys, readers, writers and faults:

* `TypeCorrect`: `Spec => []TypeOK`.
* `FreshUnlessTroubled`: `Spec => []BehindOnlyAfterTrouble`, that an entry older than
  the store is explained by a write under way, a failed invalidation or a read that
  a write overtook. `CacheInv` adds why, for a key that is held and not
  doubtful: `WritesClear` (a committed write that touches it has still to clear it,
  and the way it will take reaches it), `ListedSoon` (it is the marker for no
  journal, or in its index, or the read that set it is about to put it there) and
  `ReadsAreFresh` (a read that no write ran into holds what the store answers).
* `CreatedJournalsAreFound`: `Spec => CreatedIsFound`, an action property. `CreatedInv`
  adds that a request that created a journal has cleared its entry before it
  looks, unless its own DEL raised (`kept`), and that no marker which did not race comes
  back (`Honest`): where no write ran into the read, by `ReadsAreFresh` it holds what
  the store answers, which has the row. A failure later in the invalidation therefore
  excuses nothing.

Assumed: `CacheAssumption` and `KeyAssumption`, on what the constants are.

`KnowledgeCommit_proof` proves, for any messages, requests, token limit and number of
faults:

* `NothingIsLost`: `Spec => []CommittedWasQueued`. `QueueInv` adds the handover between the
  two awaits: a request stands before `MarkChunk` only when the chunk it is about to
  mark is in a queued job. `CallShape` says which fields a call has; that much of the
  type is enough, because the proof uses of the chunks only that both awaits take the
  same head.
* `CutCovers`, about the cut itself: every uncommitted message of the scope is in
  exactly one chunk, and a chunk has messages of one journal in the order of their
  numbers, each once. `Cutting` is a recursive function over the rows, and the prover cannot take
  an induction theorem; that the function exists (`CuttingSteps`) and that every prefix of the
  rows is cut `Tidy` is shown by the least prefix for which it fails.
* `AnswerCoversListing` (`ReplyCoversListing`), `TwiceOnlyAfterTrouble`
  (`QueuedAgainOnlyAfterTrouble`) and `TypesHold`, of the inductive invariant `CommitInv`:
  what was listed is marked or in a chunk still to come unless the request failed
  (`CallSound`), what a request queued it has listed and will not queue again
  (`JobSound`), the jobs of one request have no message in common (`JobsApart`), and
  two requests that listed a message in common overlapped or one failed (`Excused`).
  They rest on `CutCovers`: without it a message could be cut away, or into two chunks.

* `EveryListingIsCut`: `Spec => ListingIsCut`. What holds after each row (`CutSoFar`,
  by the least row after which it fails) is that the tokens are the sum over the open
  chunk, that the open chunk ends with that row and no row since its first is
  committed, that a chunk with none open behind it was ended by a committed row, and
  that every chunk so far had to end where it did (`Seamless`). `RowParts` and `WindowParts` give
  the reason for an end from the order of the rows; the second is where the window
  function may see tied rows in another order than the listing has them, and why
  `IsCut` lets tied messages be parted without need. `TokensAdd` unfolds the recursive sum
  `TokensOf` by one message.

`MessageStore_proof` has the lemmas about the rows that the modules on top of
`MessageStore` share. `StoreInv`: an insert on its way carries a number above those
of all the rows it saw, and a row keeps what its insert saw. `MAX` is a maximum only
because the numbers are bounded, so `StoreInv` says that too, and `Largest` shows that
the least bound of a set of numbers is one of them. From it:

* `NumbersFollowTime` (in `KnowledgeCommit_proof`): `Spec => []HigherIsNewer`.
* `NewestFirst` and `MissesOnlyTies` (in `MessagePages_proof`):
  `Spec => []NewestFirstOnce` and `Spec => []MissedOnlyTies`, for any page size. Neither
  is inductive without the cursor: `PageInv` adds that nothing shown is below it
  (`CursorIsLowest`; what follows is, so an appended page continues the order) and
  that each message that was there at the start is ahead of it or has the number of
  one that was shown (`AheadOrMatched`). `PageFacts` says what ORDER BY and LIMIT
  give; that an empty page means no row needs `PageLimit > 0`.

Assumed: `MessageAssumption` and `PageAssumption`.

`ChatStream_proof` proves, for any streams, readers, jobs, threads, frames, faults and
either client of the provider:

* `StoryIsStored`: `Spec => []StoredAsTold`. `StreamsInv` says of every stream that its task,
  its events and its part of the journal are `Good` together, and `Good` speaks of one
  stream only, so a step has to be looked at once, for the stream it moves
  (`OneStream`). `GoodStory`: while the task runs, its chunks are the text told so far,
  each row has its call told, and an outcome told is in the row; `EndStory`: what that
  comes to when the task is over. `Chosen` picks the text out of the events, and
  what it does when one event is added is shown by a least counterexample (`Climb`).
* `HistoryStaysInOrder`: `Spec => []RunKeepsHistoryInOrder`. `GoodHistory`: a history
  that began in order is accepted at each request, and while tools run just the calls
  of the last answer are open. That numbers of calls go up makes them different, so
  each result closes one.
* `ChatTypes`: `Spec => []TypeOK`, which says that permits held and free add up to the
  semaphore's size. `PermitInv` counts the holders, `RequestsInv` says that a task has a
  request at the provider only while it listens; without it a lost task would take
  its permit along.
* `SoleReaderGetsTheStream`: `Spec => []SoleReaderSeesAll`. `ReadersInv`: of a stream with
  one reader nothing was taken before that reader came, and what it got is what was
  taken. `GoodEnd`: Done and the sentinel are put once, last, next to each other.

Assumed: `ChatAssumption`. It says that streams and jobs are different callers of the
provider, which the model needs to tell whose permit is whose, and that the threads
given are sequences.

`KnowledgeUpdateJob_proof` proves all five properties of the script, for any answers of
the models, scores, schemas, failures and runs, and any graph before the first:

* `TypeCorrect`: `Spec => []TypeOK`.
* `DeltaIsWhole`: `Spec => []DeltaHangsTogether`. `TreeHangs`: blocks that are not
  rejected hang together, because some blocks that hang from none outside would be
  in every `Endless[n]`. `ItemIsWhole` takes that through the ids (even if `uuid4` gave one
  that a model has named), `WholeTogether` through the merge.
  That `After` and the others exist and what they come to is shown by `StepByStep`
  and `ClimbUp`, the least number for which it fails.
* `GraphShape`: `Spec => []GraphKeepsItsShape`. `ShapeIsKept`: of any finite graph of the
  right shape, entities without a description included, and any whole delta that is not
  refused. What is stored and what is
  listed are one description, or one parent, together (`OneOfBoth`); an entity or a
  block the delta does not list gets none from it.
* `DoneIsStored`: `Spec => []DoneMeansStored`. Two listed entities with one id each have
  an edge to a root of their own (`Apart`), so such a delta is refused and the ids that
  go through are as many as the entities extracted; `Place` counts what each step has
  returned when the next one begins.
* `StoredOnce`: `Spec => DescribedOnce`, an action property: a delta that changes the graph
  lists no entity that had a description. Every listed entity has an edge to a root, and
  `enforce_graph_state_rules` lets none have a second (`TakenOnlyOnce`).

The invariant is `JobInv`: types, `Place`, `DeltaInv` (the delta on its way is whole,
apart and complete) and `GraphInv` (shape and finiteness).

Assumed: `JobAssumption`. That `uuid4` gives fresh ids is not: the checks of
`UpsertGraphDelta` alone keep the shape.

`WikiPages_proof` proves, for any tabs, page size, graph, requests, jobs and faults:

* `PagingMissesOnlyRisen`: `Spec => []MissedOnlyRisen`. The property speaks of a finished
  listing; `WikiInv` says of one under way that what has not risen since its first
  page and ranks above the next offset is on the tab (`Covered`). A job
  moves what it touched and nothing else past the rest, so an untouched page never has
  fewer pages above it than before: the ones that were above still are, and as many
  positions (`OnlyTouchedRise`, a pigeonhole argument). `PageRows` says what offset and limit give.
* `PatchesAreWhole`: `Spec => PatchIsAllOrNothing`, an action property. `LastItemStays`: after
  the items are set, a block has the text of the last item for it, or its old one; the
  recursion is followed by the least item for which that fails. `OnlyPatchAnswers`:
  nothing but the patch itself ends one.
* `ShownBlocksCanBePatched`: `Spec => []ShownIsEditable`. `EditInv` says that blocks have one
  parent (`GraphInv`), that what a tab shows of a page is in `Reach` of it, and so is what
  a patch under way was let through for. `ShownReach` takes the shown blocks back to the
  graph: every rank of the context is taken (`Ranks`, a finite strict order), a
  block is on one level only because it has one parent (`LevelsApart`), so the
  recursive walk ends and meets no block that is not in the reply (`WalkEnds`, `WalkTells`).
  `ReachedAreAccepted`: `enforce_graph_state_rules` refuses no patch of such blocks.
  Jobs only add to `Reach`, and one that is not refused gives no block a second
  parent (`JobsKeepParents`).
* `TreeHasEveryLineage`: `Spec => []TreeIsAllLineages`. `Descents` says without walking
  what is below a lineage, and solves the recursion of `build_sub_categories`
  (`DescentsSolve`); as a lineage meets no category twice and categories are finitely
  many, no other function does (`OneSolution`), which TLAPS needs to know because it
  takes a recursive function for some solution. `PathsAreIncluded`: a path that
  repeats nothing is no longer than there are active categories, so the sweep that
  collects the included ones reaches each category of it.
* `PagesTellTheTree`: `Spec => []PageTellsTheTree`. The context lists the page's blocks, each
  once, with their parents (`ContextLists`; `Ranks`: the order by level and id gives each
  block a position of its own). `WalkTells` climbs the levels: what the walk has of a
  block is what is below it, in order (`Ordered`), because what is below two children
  of one parent has nothing in common and no block of one above one of the other
  (`ChildrenAreStrangers`), and sequences without any such relation are in order when
  they are joined (`FlattenOrdered`). `StepAnswers` says once for both theorems what a
  step leaves on a tab.

Assumed: `WikiAssumption`. A schema has finitely many types, and the active ones are among
them; a page size is positive, as the backend's query parameters
require; requests are sequences of items; the first ranking lists the first graph; in
that graph no block has two parents and none is 0, the id of no block; a job gives a parent only to
blocks it sends, which `KnowledgeUpdateJob_proof` shows of step nine (`DeltaInv`).

Only model-checked: everything under fairness (`EveryRequestSettles`,
`EveryWatchEnds`, `SoleReaderIsReleased`, `CatchesUp` and the leads-to half of
`KeepsPromise`), because liveness is outside what the prover handles.

## 6. Not modelled

* The frontend: Svelte handlers around a browser's EventSource. What its requests
  meet in the backend is in `ChatStream`, `JobStatusWatch` and `WikiPages`.
* Vectors and Qdrant, the race between the checks of a delta and its transaction,
  visibility of other users' nodes: `KnowledgeGraph` takes check and write as one
  step on one user's graph.
* Schema types and user initialisation, but for the changes of a schema that
  `KnowledgeUpdateJob` and `WikiPages` meet.
* The rest of the model provider (message conversion, the architect's token) and
  what the MCP tools compute; search in journals.
* Steps zero and ten of the script, disabled in `run()`, and `core.run`, which
  nothing calls.
* Sessions, authentication and configuration, beyond what `ToolServer` asks:
  single reads and writes of independent keys.
* Deployment, scripts, tests and generated code.
