------------------------------ MODULE ChatStream ------------------------------
(***************************************************************************)
(* A chat message and the stream that answers it: POST /message starts a   *)
(* task, the task stores the message, lets the assistant agent run on the  *)
(* day's thread, puts every event in the stream's queue and at the end     *)
(* stores the answer; GET /stream/{id} reads the queue.                    *)
(*                                                                         *)
(* All streams are of one user and one day, so of one journal and of one   *)
(* LangGraph thread.  The agent loop and its checkpoints are LangGraph's,  *)
(* modelled from how the backend uses them: the thread is saved after      *)
(* every step, the last writer wins, and a tool that raises ends the run.  *)
(* The model provider and a job that shares its permits run alongside.     *)
(***************************************************************************)
EXTENDS ModelProvider, ToolServer

CONSTANTS
  Streams,       \* calls of POST /message, numbered as they come
  Jobs,          \* callers of the model provider that do not stream
  Readers,       \* GET requests, numbered as they come
  Watched,       \* bound: the streams they may ask for
  MappedTools,   \* tools with a stream event mapper
  MaxRetries,    \* max_retries of the MCP client
  Threads,       \* what earlier days' runs of the agent may have left
  MaxChunks,     \* bound: text frames of each stream
  Calls,         \* bound: per stream, the tools its first, second... call may be for
  MaxFaults      \* bound: failures and crashes

ASSUME ChatAssumption ==
  /\ Streams \subseteq Nat \ {0} /\ Readers \subseteq Nat \ {0}
  /\ Callers = Streams \cup Jobs /\ Streams \cap Jobs = {} /\ Watched \subseteq Streams
  /\ MaxChunks \in [Streams -> Nat]
  /\ MaxRetries \in Nat /\ MaxFaults \in Nat
  /\ \A history \in Threads : history \in Seq(Range(history))

VARIABLES
  known,     \* _streams: the streams whose queue can be found
  told,      \* per stream: every event put in its queue, in order
  taken,     \* per stream: how many of them have been taken out
  task,      \* per stream: the task that produces it
  thread,    \* the thread's checkpointed messages
  journal,   \* per stream: what the conversation store holds
  reader,    \* per reader: its stream, how it stands, and what it got, kept
             \* for a reader that has the stream to itself
  faults     \* how much of the bound has been used up

chatVars == <<known, told, taken, task, thread, journal, reader, faults>>
vars == <<providerVars, chatVars>>

\* The elements of s that are in S, in order.
Chosen(s, S) ==
  LET chosen[i \in 0..Len(s)] ==
        IF i = 0 THEN <<>>
        ELSE IF s[i] \in S THEN Append(chosen[i - 1], s[i]) ELSE chosen[i - 1]
  IN  chosen[Len(s)]

Event(type, of) == [type |-> type, of |-> of]
NoCall == <<0, "none">>
Done == Event("done", NoCall)
Sentinel == Event("sentinel", NoCall)
StreamFailed == Event("error", NoCall)
UnknownStream == Event("unknown", NoCall)

\* text, calls and results belong to the model's current answer, chunks and
\* rows to the whole stream.
NoTask == [pc |-> "none", history |-> <<>>, text |-> FALSE, calls |-> <<>>,
           tries |-> <<>>, results |-> {}, chunks |-> <<>>, rows |-> <<>>, made |-> 0,
           broken |-> FALSE]

Init ==
  /\ ProviderInit
  /\ known = {} /\ thread \in Threads /\ faults = 0
  /\ told = [s \in Streams |-> <<>>]
  /\ taken = [s \in Streams |-> 0]
  /\ task = [s \in Streams |-> NoTask]
  /\ journal = [s \in Streams |-> [message |-> FALSE, answer |-> <<>>, rows |-> <<>>]]
  /\ reader = [r \in Readers |-> [of |-> 0, got |-> <<>>, at |-> "none"]]
-----------------------------------------------------------------------------
(* The task.                                                               *)

Pc(s, label) == task[s].pc = label

\* Events put by a step of s.
Put(s, events) == told' = [told EXCEPT ![s] = @ \o events]

\* How a task looks when it has ended: nothing of it is used again.
Over(t, label) == [NoTask EXCEPT !.pc = label, !.broken = t.broken]

\* The `finally` of _produce_journal_stream.
End(s) ==
  /\ task' = [task EXCEPT ![s] = Over(@, "ended")]
  /\ Put(s, <<Done, Sentinel>>)

\* Mutant of Fail: an exception leaves the queue without an end.
FailSilently(s) ==
  /\ task' = [task EXCEPT ![s] = Over(@, "ended")]
  /\ Put(s, <<StreamFailed>>)

\* Any exception in it.
Fail(s) ==
  /\ task' = [task EXCEPT ![s] = Over(@, "ended")]
  /\ Put(s, <<StreamFailed, Done, Sentinel>>)

Fault == faults < MaxFaults /\ faults' = faults + 1

Working(t) == task[t].pc \notin {"none", "ended", "lost"}

Start(s) ==
  /\ Pc(s, "none")
  /\ \A t \in Streams : t < s => ~Pc(t, "none")
  /\ known' = known \cup {s}
  /\ task' = [task EXCEPT ![s].pc = "store_message"]
  /\ UNCHANGED <<providerVars, told, taken, thread, journal, reader, faults>>

StoreMessage(s) ==
  /\ Pc(s, "store_message")
  /\ journal' = [journal EXCEPT ![s].message = TRUE]
  /\ task' = [task EXCEPT ![s].pc = "begin"]
  /\ UNCHANGED <<providerVars, known, told, taken, thread, reader, faults>>

\* The conversation store raises, before or after the answer.
StoreFails(s) ==
  /\ task[s].pc \in {"store_message", "store_answer", "store_rows"}
  /\ Fault /\ Fail(s)
  /\ UNCHANGED <<providerVars, known, taken, thread, journal, reader>>

UserMessage == Message("user", TRUE, {}, {})
AnswerMessage(text, calls) == Message("assistant", text, ToSet(calls), {})
ResultMessage(call) == Message("user", FALSE, {}, {call})

\* The agent starts on the thread as it finds it.
BeginRun(s) ==
  /\ Pc(s, "begin")
  /\ thread' = Append(thread, UserMessage)
  /\ task' = [task EXCEPT ![s].pc = "ask", ![s].history = thread']
  /\ UNCHANGED <<providerVars, known, told, taken, journal, reader, faults>>

\* The whole history goes to the provider, which may refuse it with 422.
Ask(s) ==
  /\ Pc(s, "ask")
  /\ IF Accepts(task[s].history)
     THEN /\ Queue(s)
          /\ task' = [task EXCEPT ![s].pc = "listen"]
          /\ UNCHANGED told
     ELSE Fail(s) /\ UNCHANGED providerVars
  /\ UNCHANGED <<known, taken, thread, journal, reader, faults>>

GetsPermit(c) == Acquire(c) /\ UNCHANGED chatVars

StreamOpens(s) == Pc(s, "listen") /\ Opened(s) /\ UNCHANGED chatVars

StreamRateLimited(s) == Pc(s, "listen") /\ RateLimited(s, TRUE) /\ UNCHANGED chatVars

\* A text frame becomes a chunk becomes an event.  A chunk may be blank.
HearText(s, text) ==
  /\ Pc(s, "listen") /\ Len(task[s].chunks) < MaxChunks[s]
  /\ TextDelta(s)
  /\ Put(s, <<Event("message_chunk", text)>>)
  /\ task' = [task EXCEPT ![s].text = TRUE, ![s].chunks = Append(@, text)]
  /\ UNCHANGED <<known, taken, thread, journal, reader, faults>>

\* Tool calls are collected in the answer; no event yet.
HearToolCall(s, tool) ==
  LET call == <<task[s].made + 1, tool>> IN
  /\ Pc(s, "listen") /\ call[1] \in DOMAIN Calls[s] /\ tool \in Calls[s][call[1]]
  /\ CollectToolCall(s, call)
  /\ task' = [task EXCEPT ![s].made = @ + 1, ![s].calls = @ \o ToolCallFrames(call)]
  /\ UNCHANGED <<known, told, taken, thread, journal, reader, faults>>

Mapped(calls) == Chosen(calls, {call \in ToSet(calls) : call[2] \in MappedTools})

Row(call, outcome) == [call |-> call, outcome |-> outcome]

\* The model node is done: its message joins the thread, its tool calls are
\* told.  An answer without calls is the last.
AnswerComplete(s, calls, broken) ==
  LET history == Append(task[s].history, AnswerMessage(task[s].text, calls))
      shown == Mapped(calls)
  IN  /\ thread' = history
      /\ Put(s, [i \in DOMAIN shown |-> Event("tool_call", shown[i])])
      /\ task' = [task EXCEPT ![s].history = history,
                              ![s].pc = IF calls = <<>> THEN "store_answer" ELSE "tools",
                              ![s].calls = calls,
                              ![s].tries = [i \in DOMAIN calls |-> 0],
                              ![s].text = FALSE,
                              ![s].broken = broken,
                              ![s].rows = @ \o [i \in DOMAIN shown |-> Row(shown[i], "none")]]

\* The model finishes its answer.
AnswerFinishes(s) ==
  /\ Pc(s, "listen") /\ Finish(s)
  /\ AnswerComplete(s, task[s].calls \o FinishFrames(s), task[s].broken)
  /\ UNCHANGED <<known, taken, journal, reader, faults>>

Yielded(s) == task[s].text \/ task[s].calls # <<>>

\* _chunk_from_frame drops the error frame, so what came before it passes
\* for the answer; LangChain raises when nothing did.
AnswerBreaks(s) ==
  /\ Pc(s, "listen") /\ Fault
  /\ StreamError(s)
  /\ IF Yielded(s)
     THEN AnswerComplete(s, task[s].calls, TRUE)
     ELSE Fail(s) /\ UNCHANGED thread
  /\ UNCHANGED <<known, taken, journal, reader>>

\* The upstream stream stops short of a finish reason.
AnswerStops(s) ==
  /\ Pc(s, "listen") /\ Fault
  /\ EndUnfinished(s)
  /\ IF Yielded(s)
     THEN AnswerComplete(s, task[s].calls, task[s].broken)
     ELSE Fail(s) /\ UNCHANGED thread
  /\ UNCHANGED <<known, taken, journal, reader>>

\* The connection to the model provider is lost: httpx raises.
ConnectionLost(s) ==
  /\ Pc(s, "listen") /\ Fault
  /\ Release(s) /\ Fail(s)
  /\ UNCHANGED <<known, taken, thread, journal, reader>>
-----------------------------------------------------------------------------
(* Tools, which all run at once.                                           *)

\* Mutant of ThreadWith: a result that has no mapper is not kept.
ThreadWithShown(history, calls) ==
  LET shown == Mapped(calls) IN history \o [i \in DOMAIN shown |-> ResultMessage(shown[i])]

ThreadWith(history, calls) == history \o [i \in DOMAIN calls |-> ResultMessage(calls[i])]

\* Mutant of Outcomes: an error leaves its row as it was.
OutcomesOfResponses(rows, call, outcome) ==
  [i \in DOMAIN rows |-> IF rows[i].call = call /\ outcome = "tool_response"
                         THEN Row(call, outcome) ELSE rows[i]]

Outcomes(rows, call, outcome) ==
  [i \in DOMAIN rows |-> IF rows[i].call = call THEN Row(call, outcome) ELSE rows[i]]

Unanswered(s) == {i \in DOMAIN task[s].calls : task[s].calls[i] \notin task[s].results}

\* The tool node makes a message of call i, a result or an error.
ToolMessage(s, i, outcome) ==
  LET call == task[s].calls[i]
      results == task[s].results \cup {call}
      last == results = ToSet(task[s].calls)
      history == IF last THEN ThreadWith(task[s].history, task[s].calls) ELSE task[s].history
  IN  /\ Pc(s, "tools") /\ i \in Unanswered(s)
      /\ Put(s, IF call[2] \in MappedTools THEN <<Event(outcome, call)>> ELSE <<>>)
      /\ thread' = IF last THEN history ELSE thread
      /\ task' = [task EXCEPT ![s].results = IF last THEN {} ELSE results,
                              ![s].calls = IF last THEN <<>> ELSE @,
                              ![s].tries = IF last THEN <<>> ELSE @,
                              ![s].history = history,
                              ![s].pc = IF last THEN "ask" ELSE @,
                              ![s].rows = Outcomes(@, call, outcome)]
      /\ UNCHANGED <<providerVars, known, taken, journal, reader, faults>>

\* The tool server answers and the client returns the result.
ToolReturns(s, i) ==
  /\ \E reply \in Replies : ~Raises(reply)
  /\ ToolMessage(s, i, "tool_response")

\* The model's arguments do not fit the tool's schema: LangGraph makes an
\* error message of it, and the server is not called.
ArgumentsRefused(s, i) == ToolMessage(s, i, "error")

ToolTimesOut(s, i) ==
  /\ Pc(s, "tools") /\ i \in Unanswered(s)
  /\ RepeatsCall(task[s].tries[i], MaxRetries)
  /\ task' = [task EXCEPT ![s].tries[i] = @ + 1]
  /\ UNCHANGED <<providerVars, known, told, taken, thread, journal, reader, faults>>

\* The MCP client raises: after the last timeout, or on any answer but a
\* result.  That is no tool message: the run ends, and the thread is left
\* with calls that have no result.
ToolRaises(s, i) ==
  /\ Pc(s, "tools") /\ i \in Unanswered(s)
  /\ \/ ~RepeatsCall(task[s].tries[i], MaxRetries)
     \/ \E reply \in Replies : Raises(reply)
  /\ Fault /\ Fail(s)
  /\ UNCHANGED <<providerVars, known, taken, thread, journal, reader>>
-----------------------------------------------------------------------------
(* Storing the answer.                                                     *)

\* "".join(chunks).strip(): an answer of blanks is none.
HasWords(chunks) == "word" \in ToSet(chunks)

StoreAnswer(s) ==
  /\ Pc(s, "store_answer") /\ HasWords(task[s].chunks)
  /\ journal' = [journal EXCEPT ![s].answer = task[s].chunks]
  /\ task' = [task EXCEPT ![s].pc = "store_rows"]
  /\ UNCHANGED <<providerVars, known, told, taken, thread, reader, faults>>

NothingToStore(s) ==
  /\ Pc(s, "store_answer") /\ ~HasWords(task[s].chunks)
  /\ End(s)
  /\ UNCHANGED <<providerVars, known, taken, thread, journal, reader, faults>>

\* One create_journal_tool_call.
StoreRow(s) ==
  /\ Pc(s, "store_rows") /\ task[s].rows # <<>>
  /\ journal' = [journal EXCEPT ![s].rows = Append(@, Head(task[s].rows))]
  /\ task' = [task EXCEPT ![s].rows = Tail(@)]
  /\ UNCHANGED <<providerVars, known, told, taken, thread, reader, faults>>

AllStored(s) ==
  /\ Pc(s, "store_rows") /\ task[s].rows = <<>>
  /\ End(s)
  /\ UNCHANGED <<providerVars, known, taken, thread, journal, reader, faults>>

\* The backend goes down: queues, tasks and connections are gone, the thread
\* and the journal are in the database.
Crash ==
  /\ Fault
  /\ \E s \in Streams : Working(s)
  /\ known' = {}
  /\ task' = [s \in Streams |-> IF Working(s) THEN Over(task[s], "lost") ELSE task[s]]
  /\ reader' = [r \in Readers |-> IF reader[r].at = "reading"
                                  THEN [reader[r] EXCEPT !.at = "cut"] ELSE reader[r]]
  /\ request' = [c \in Callers |-> IF c \in Streams THEN NoRequest ELSE request[c]]
  /\ free' = free + Cardinality({s \in Streams : HasPermit(s)})
  /\ UNCHANGED <<provider, told, taken, thread, journal>>
-----------------------------------------------------------------------------
(* Readers.                                                                *)

Alone(r) == \A q \in Readers \ {r} : reader[q].of # reader[r].of

\* stream_events looks the queue up once.
Open(r, s) ==
  LET others == {q \in Readers : reader[q].of = s} IN
  /\ reader[r].at = "none" /\ ~Pc(s, "none")
  /\ \A q \in Readers : q < r => reader[q].at # "none"
  /\ reader' = [q \in Readers |->
       CASE q = r -> [of |-> s, got |-> IF s \in known THEN <<>> ELSE <<UnknownStream>>,
                      at |-> IF s \in known THEN "reading" ELSE "closed"]
         [] q \in others -> [reader[q] EXCEPT !.got = <<>>]
         [] OTHER -> reader[q]]
  /\ UNCHANGED <<providerVars, known, told, taken, task, thread, journal, faults>>

Waiting(s) == taken[s] < Len(told[s])

Receive(r, event) ==
  IF Alone(r) THEN [reader[r] EXCEPT !.got = Append(@, event)] ELSE reader[r]

\* Mutant of AfterEvent: the reader of a failed stream closes on the error.
CloseOnError(r, event) ==
  IF event \in {Sentinel, StreamFailed} THEN [reader[r] EXCEPT !.at = "closed"]
                                        ELSE Receive(r, event)

AfterEvent(r, event) ==
  IF event = Sentinel THEN [reader[r] EXCEPT !.at = "closed"] ELSE Receive(r, event)

\* queue.get() and what is done with the event.  One reader gets the
\* sentinel; others of the same queue are left waiting.
Read(r) ==
  LET s == reader[r].of
      event == told[s][taken[s] + 1]
  IN  /\ reader[r].at = "reading" /\ Waiting(s)
      /\ taken' = [taken EXCEPT ![s] = @ + 1]
      /\ reader' = [reader EXCEPT ![r] = AfterEvent(r, event)]
      /\ known' = IF event = Sentinel THEN known \ {s} ELSE known
      /\ UNCHANGED <<providerVars, told, task, thread, journal, faults>>

\* The page is closed or reloaded, or the connection is lost, perhaps with
\* an event on the way.  Nothing takes the queue away.
Disconnect(r) ==
  LET s == reader[r].of IN
  /\ reader[r].at = "reading"
  /\ reader' = [reader EXCEPT ![r].at = "gone", ![r].got = <<>>]
  /\ \/ UNCHANGED taken
     \/ Waiting(s) /\ told[s][taken[s] + 1] # Sentinel /\ taken' = [taken EXCEPT ![s] = @ + 1]
  /\ UNCHANGED <<providerVars, known, told, task, thread, journal, faults>>
-----------------------------------------------------------------------------
(* A knowledge job asks the same provider, without streaming.  It may do so *)
(* at any time; the bound leaves out the times when nobody is in its way.  *)

JobAsks(j) ==
  /\ \E s \in Streams : task[s].pc \in {"ask", "listen"}
  /\ Queue(j) /\ UNCHANGED chatVars
JobRateLimited(j) == RateLimited(j, FALSE) /\ UNCHANGED chatVars
JobAnswered(j) == AnswerWhole(j) /\ UNCHANGED chatVars
-----------------------------------------------------------------------------
\* What a task does unless something goes wrong.
Proceed(s) ==
  \/ StoreMessage(s) \/ BeginRun(s) \/ Ask(s) \/ StreamOpens(s)
  \/ AnswerFinishes(s)
  \/ \E i \in DOMAIN task[s].calls : ToolReturns(s, i)
  \/ StoreAnswer(s) \/ NothingToStore(s) \/ StoreRow(s) \/ AllStored(s)

Step(s) ==
  \/ Start(s) \/ Proceed(s) \/ StreamRateLimited(s)
  \/ \E text \in {"word", "blank"} : HearText(s, text)
  \/ \E tool \in UNION Range(Calls[s]) : HearToolCall(s, tool)
  \/ \E i \in DOMAIN task[s].calls :
       ArgumentsRefused(s, i) \/ ToolTimesOut(s, i) \/ ToolRaises(s, i)
  \/ StoreFails(s) \/ AnswerBreaks(s) \/ AnswerStops(s) \/ ConnectionLost(s)

Next ==
  \/ \E s \in Streams : Step(s)
  \/ Crash
  \/ \E c \in Callers : GetsPermit(c)
  \/ \E r \in Readers : Read(r) \/ Disconnect(r) \/ \E s \in Watched : Open(r, s)
  \/ \E j \in Jobs : JobAsks(j) \/ JobRateLimited(j) \/ JobAnswered(j)

\* Tasks are run by the event loop and every call out has a timeout; the
\* semaphore serves in turn; the server reads the queue for an open reader.
Fairness ==
  /\ \A s \in Streams : WF_vars(Proceed(s))
  /\ \A s \in Streams : SF_vars(GetsPermit(s))
  /\ \A j \in Jobs : WF_vars(JobAnswered(j))
  /\ \A r \in Readers : WF_vars(Read(r))

Spec == Init /\ [][Next]_vars /\ Fairness
-----------------------------------------------------------------------------
(* Properties.                                                             *)

\* The control points are the code's, and permits are neither lost nor made.
TypeOK ==
  /\ ProviderTypeOK
  /\ known \subseteq Streams /\ faults \in 0..MaxFaults
  /\ \A s \in Streams :
       /\ task[s].pc \in {"none", "store_message", "begin", "ask", "listen", "tools",
                          "store_answer", "store_rows", "ended", "lost"}
       /\ ~Pc(s, "listen") => At(s, "none")
       /\ taken[s] \in 0..Len(told[s])
  /\ \A r \in Readers : reader[r].at \in {"none", "reading", "closed", "gone", "cut"}

Texts(events) ==
  LET chunks == Chosen(events, {Event("message_chunk", text) : text \in {"word", "blank"}})
  IN  [i \in DOMAIN chunks |-> chunks[i].of]

Told(s, type, call) == Event(type, call) \in ToSet(told[s])

\* The journal and the stream tell the same story.  What is stored was told,
\* text and outcome of each tool; and a stream that ended without an error of
\* its own has stored all that it told, unless it told no words.  A reader
\* who reloads the page sees the journal in place of the stream.
StoredAsTold ==
  \A s \in Streams :
    /\ journal[s].answer # <<>> => journal[s].answer = Texts(told[s])
    /\ \A i \in DOMAIN journal[s].rows :
         LET row == journal[s].rows[i] IN
         Told(s, "tool_call", row.call) /\ Told(s, row.outcome, row.call)
    /\ Pc(s, "ended") /\ StreamFailed \notin ToSet(told[s]) =>
         /\ journal[s].message
         /\ HasWords(Texts(told[s])) =>
              /\ journal[s].answer # <<>>
              /\ \A e \in ToSet(told[s]) : e.type = "tool_call" =>
                   \E i \in DOMAIN journal[s].rows : journal[s].rows[i].call = e.of

\* A reader that shares its stream with no other gets the events as they were
\* put, none missing and none twice; if the server closes the stream, the
\* last is "done", the only one.  Whoever opens a stream that is gone gets
\* one error.
SoleReaderSeesAll ==
  \A r \in Readers :
    LET got == reader[r].got
        s == reader[r].of
    IN  reader[r].at \in {"reading", "closed", "cut"} /\ Alone(r) =>
          \/ got = <<UnknownStream>> /\ s \notin known
          \/ /\ IsPrefix(got, told[s])
             /\ reader[r].at = "reading" => Len(got) = taken[s]
             /\ reader[r].at = "closed" =>
                  got # <<>> /\ \A i \in DOMAIN got : got[i] = Done <=> i = Len(got)

\* The history up to the message that this run answers.
Opening(history) ==
  SubSeq(history, 1, CHOOSE i \in DOMAIN history :
                       /\ history[i] = UserMessage
                       /\ \A j \in DOMAIN history : j > i => history[j] # UserMessage)

\* A run that found the conversation in order keeps it so: whatever the model
\* and the tools did, a broken answer included, the provider accepts the next
\* request too.  (A thread is spoilt by a run that ends while tools are at
\* work, because one raises or the backend goes down; every later message of
\* the day is then refused.)
RunKeepsHistoryInOrder ==
  \A s \in Streams :
    Pc(s, "ask") /\ Accepts(Opening(task[s].history)) => Accepts(task[s].history)

\* A reader of a stream is released in the end, whatever fails, unless
\* another reader takes the end of the stream away from it.
SoleReaderIsReleased ==
  \A r \in Readers :
    reader[r].at = "reading" ~> (reader[r].at # "reading" \/ ~Alone(r))

\* docs/chat-stream-sse-contract.md: an error event is "emitted for stream
\* errors".  Does the reader of a stream whose answer broke off hear of it?
StreamErrorsAreTold ==
  \A s \in Streams :
    task[s].broken /\ Pc(s, "ended") => StreamFailed \in ToSet(told[s])
=============================================================================
