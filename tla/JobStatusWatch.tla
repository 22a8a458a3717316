--------------------------- MODULE JobStatusWatch ---------------------------
(***************************************************************************)
(* WatchJobStatus of the job orchestrator API on top of the worker, and    *)
(* the SSE endpoint of the assistant backend that forwards it: an optional *)
(* snapshot of the row, then a subscription to jobs.status.<job> that      *)
(* replays the log from its start, until a terminal event.                 *)
(***************************************************************************)
EXTENDS JobOrchestrator

CONSTANT Watchers   \* SSE connections of the clients

VARIABLE watch      \* watch[w]: the stream served to w

watchVars == <<vars, watch>>

NoEvent == StatusEvent("ENQUEUED_OR_PENDING", 0, FALSE)

\* pos counts the events forwarded from the log, last is what w saw last.
NoWatch == [phase |-> "idle", job |-> NoJob, pos |-> 0, last |-> NoEvent]

Streaming == {"snapshot", "subscribe", "stream"}

WatchInit == Init /\ watch = [w \in Watchers |-> NoWatch]

\* A client can only ask for an id that EnqueueJob has returned.
Open(w, j, includeCurrent) ==
  /\ watch[w].phase = "idle"
  /\ j \in ValidJobs /\ client[j] = "replied"
  /\ watch' = [watch EXCEPT ![w] =
       [NoWatch EXCEPT !.job = j,
                       !.phase = IF includeCurrent THEN "snapshot"
                                                   ELSE "subscribe"]]
  /\ UNCHANGED vars

\* The event built from the stored row; is_terminal is copied as it stands.
SnapshotEvent(r) == StatusEvent(LifecycleOf(r), r.attempt, r.terminal)

Snapshot(w) ==
  LET r == row[watch[w].job]
  IN /\ watch[w].phase = "snapshot"
     /\ watch' = [watch EXCEPT ![w] =
          IF r.status = "absent" THEN [@ EXCEPT !.phase = "not_found"]
          ELSE [@ EXCEPT !.last = SnapshotEvent(r),
                         !.phase = IF r.terminal THEN "done" ELSE "subscribe"]]
     /\ UNCHANGED vars

\* Mutant of Subscribe: only events published from now on are delivered.
SubscribeNewOnly(w) ==
  /\ watch[w].phase = "subscribe"
  /\ watch' = [watch EXCEPT ![w].phase = "stream",
                            ![w].pos = Len(statusLog[watch[w].job])]
  /\ UNCHANGED vars

\* An ephemeral consumer with the default policy: it starts at the oldest
\* event, not at the time of the subscription.
Subscribe(w) ==
  /\ watch[w].phase = "subscribe"
  /\ watch' = [watch EXCEPT ![w].phase = "stream", ![w].pos = 0]
  /\ UNCHANGED vars

Forward(w) ==
  LET j == watch[w].job
      next == watch[w].pos + 1
  IN /\ watch[w].phase = "stream"
     /\ next <= Len(statusLog[j])
     /\ watch' = [watch EXCEPT ![w] =
          [@ EXCEPT !.pos = next, !.last = statusLog[j][next],
                    !.phase = IF statusLog[j][next].terminal THEN "done"
                                                             ELSE "stream"]]
     /\ UNCHANGED vars

\* The client closes the connection, and may connect again.
HangUp(w) ==
  /\ watch[w].phase \in Streaming \cup {"not_found"}
  /\ watch' = [watch EXCEPT ![w] = NoWatch]
  /\ UNCHANGED vars

Serve(w) == Snapshot(w) \/ Subscribe(w) \/ Forward(w)

WatchNext ==
  \/ Next /\ UNCHANGED watch
  \/ \E w \in Watchers :
       \/ \E j \in Jobs, includeCurrent \in BOOLEAN : Open(w, j, includeCurrent)
       \/ Serve(w) \/ HangUp(w)

WatchSpec == WatchInit /\ [][WatchNext]_watchVars

\* The fairness of the worker, and the API keeps serving every stream.
WatchFairSpec ==
  /\ WatchSpec /\ Fairness
  /\ \A w \in Watchers : WF_watchVars(Serve(w))
-----------------------------------------------------------------------------
\* A stream says done only when the job is decided: its script has exited
\* with status 0, or all attempts were used up.  A retry, a crash or a slow
\* consumer never closes a watch early.
DoneMeansDecided ==
  \A w \in Watchers : watch[w].phase = "done" =>
    \/ watch[w].job \in returned
    \/ delivered[watch[w].job] >= MaxAttempts

\* A client that was told SUCCEEDED can trust it, whether it heard it from the
\* row or from the log.
ToldSuccessMeansRan ==
  \A w \in Watchers :
    watch[w].last.state = "SUCCEEDED" => watch[w].job \in returned

\* A stream that is being served ends, or its client hangs up: the terminal
\* event cannot slip through between the snapshot and the subscription.
EveryWatchEnds ==
  \A w \in Watchers :
    watch[w].phase \in Streaming ~> watch[w].phase \notin Streaming
=============================================================================
