---------------------------- MODULE ModelProvider ----------------------------
(***************************************************************************)
(* The model provider: a proxy in front of Anthropic's and OpenAI's chat   *)
(* APIs.  It checks the tool calls of the history it is sent, lets a few   *)
(* requests through at a time, and turns the upstream answer into frames.  *)
(* The two clients differ in how long they keep a permit, in which calls   *)
(* they repeat after a rate limit, and in when a tool call becomes a frame.*)
(*                                                                         *)
(* A caller is one HTTP request at a time; the modules that extend this    *)
(* one say what the caller does with the frames.  The upstream APIs are    *)
(* external.                                                               *)
(***************************************************************************)
EXTENDS Integers, Sequences, FiniteSets, SequencesExt

CONSTANTS
  Callers,         \* who may have a request open
  MaxConcurrent,   \* max_concurrent_requests of the client
  MaxAttempts      \* attempts of _with_rate_limit_retry

ASSUME ProviderAssumption ==
  MaxConcurrent \in Nat \ {0} /\ MaxAttempts \in Nat \ {0}

VARIABLES
  provider,   \* which client the alias is configured for
  free,       \* permits of the client's semaphore
  request     \* per caller: the request it has open

providerVars == <<provider, free, request>>

\* `pending` are the tool calls of which OpenAI has sent fragments.
NoRequest == [at |-> "none", attempt |-> 1, pending |-> <<>>]

ProviderInit ==
  /\ provider \in {"anthropic", "openai"}
  /\ free = MaxConcurrent
  /\ request = [c \in Callers |-> NoRequest]
-----------------------------------------------------------------------------
(* Histories.                                                              *)

\* A message as far as the check looks at it: is there text, which tool
\* calls does it make, which does it answer.
Message(role, text, calls, results) ==
  [role |-> role, text |-> text, calls |-> calls, results |-> results]

AfterMessage(seen, m) ==
  CASE m.role = "assistant" ->
         [ok |-> seen.ok /\ (seen.open = {} \/ m.calls = {}),
          open |-> seen.open \cup m.calls]
    [] m.role # "assistant" /\ seen.open = {} ->
         [ok |-> seen.ok /\ m.results = {}, open |-> {}]
    [] OTHER ->
         [ok |-> seen.ok /\ m.role = "user" /\ ~m.text /\ m.results \subseteq seen.open,
          open |-> seen.open \ m.results]

\* validate_tool_call_sequence: every call is answered before anyone speaks.
Accepts(messages) ==
  LET after[i \in 0..Len(messages)] ==
        IF i = 0 THEN [ok |-> TRUE, open |-> {}] ELSE AfterMessage(after[i - 1], messages[i])
      seen == after[Len(messages)]
  IN  seen.ok /\ seen.open = {}
-----------------------------------------------------------------------------
(* Permits.                                                                *)

At(c, place) == request[c].at = place

\* A request that passed the check queues for a permit.
Queue(c) ==
  /\ At(c, "none")
  /\ request' = [request EXCEPT ![c].at = "queued"]
  /\ UNCHANGED <<provider, free>>

Acquire(c) ==
  /\ At(c, "queued") /\ free > 0
  /\ free' = free - 1
  /\ request' = [request EXCEPT ![c].at = "calling"]
  /\ UNCHANGED provider

\* The OpenAI client gives its permit back once the stream is open; the
\* Anthropic client keeps it for as long as the stream lasts.
KeepsPermit == provider = "anthropic"

HasPermit(c) == At(c, "calling") \/ (At(c, "streaming") /\ KeepsPermit)

\* Mutant of Release: the permit is given back at the end in any case.
ReleaseAlways(c) ==
  /\ free' = free + 1
  /\ request' = [request EXCEPT ![c] = NoRequest]
  /\ UNCHANGED provider

\* The request ends, however it ends.
Release(c) ==
  /\ free' = IF HasPermit(c) THEN free + 1 ELSE free
  /\ request' = [request EXCEPT ![c] = NoRequest]
  /\ UNCHANGED provider

\* Upstream says 429 and the client sleeps, its permit in hand.  Anthropic's
\* streams are opened without this.
Repeats(c, stream) ==
  /\ ~(stream /\ KeepsPermit)
  /\ request[c].attempt < MaxAttempts

RateLimited(c, stream) ==
  /\ At(c, "calling") /\ Repeats(c, stream)
  /\ request' = [request EXCEPT ![c].attempt = @ + 1]
  /\ UNCHANGED <<provider, free>>
-----------------------------------------------------------------------------
(* Frames of a stream.                                                     *)

Opened(c) ==
  /\ At(c, "calling")
  /\ free' = IF KeepsPermit THEN free ELSE free + 1
  /\ request' = [request EXCEPT ![c].at = "streaming"]
  /\ UNCHANGED provider

\* Text becomes a frame at once.
TextDelta(c) == At(c, "streaming") /\ UNCHANGED providerVars

\* A tool call: Anthropic's becomes a frame when its block is complete,
\* OpenAI's is put together from fragments and waits for the end.
CollectToolCall(c, call) ==
  /\ At(c, "streaming")
  /\ request' = IF provider = "openai"
                THEN [request EXCEPT ![c].pending = Append(@, call)]
                ELSE request
  /\ UNCHANGED <<provider, free>>

ToolCallFrames(call) == IF provider = "openai" THEN <<>> ELSE <<call>>

\* The frames of tool calls that are sent together with the finish reason.
FinishFrames(c) == request[c].pending

Finish(c) == At(c, "streaming") /\ Release(c)

\* Upstream closes the stream and gives no finish reason: what is pending
\* never becomes a frame.  The response ends like any other.
EndUnfinished(c) == At(c, "streaming") /\ Release(c)

\* Upstream fails.  A response that streams has begun with 200, so the error
\* is one more frame, which has no type.
StreamError(c) ==
  /\ At(c, "calling") \/ At(c, "streaming")
  /\ Release(c)

\* A request that does not stream keeps its permit until it is answered or
\* the error is mapped to a status.
AnswerWhole(c) == At(c, "calling") /\ Release(c)

ProviderTypeOK ==
  /\ provider \in {"anthropic", "openai"}
  /\ free \in 0..MaxConcurrent
  /\ \A c \in Callers :
       /\ request[c].at \in {"none", "queued", "calling", "streaming"}
       /\ request[c].attempt \in 1..MaxAttempts
  /\ free + Cardinality({c \in Callers : HasPermit(c)}) = MaxConcurrent
=============================================================================
