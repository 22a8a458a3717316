-------------------------- MODULE JobOrchestrator --------------------------
(***************************************************************************)
(* The job orchestrator: the EnqueueJob handler that publishes requests,   *)
(* the JetStream work queue, and the worker that takes deliveries from it, *)
(* runs the job script, keeps one row per job in orchestrator_jobs and     *)
(* publishes lifecycle events.                                             *)
(*                                                                         *)
(* Every await of the worker is a step of its own, so handlers, the ack    *)
(* timer, the API and a crash interleave between any two of them.  A call  *)
(* to Postgres or NATS may return, raise without having taken effect, or   *)
(* raise after it took effect (the answer was lost).                       *)
(***************************************************************************)
EXTENDS Naturals, Sequences, FiniteSets

CONSTANTS
  Jobs,         \* job ids, one request message each
  BadEnvelope,  \* jobs whose message is not a JobEnvelope
  BadPayload,   \* jobs whose payload does not fit the model of their type
  Slots,        \* handlers the semaphore admits: worker_replica_count of them
  MaxAttempts,  \* settings.job_max_attempts
  NoJob,        \* the job of an idle slot
  MaxFaults,    \* bound: calls to Postgres or NATS that raise
  MaxCrashes,   \* bound: worker crashes
  MaxLate,      \* bound: ack_wait expiries while a delivery is still held
  MaxRebinds    \* bound: times the durable consumer is created afresh

ASSUME JobAssumption ==
  /\ NoJob \notin Jobs
  /\ BadEnvelope \subseteq Jobs
  /\ BadPayload \subseteq Jobs \ BadEnvelope

ASSUME BoundAssumption ==
  /\ MaxAttempts \in Nat \ {0}
  /\ MaxFaults \in Nat /\ MaxCrashes \in Nat
  /\ MaxLate \in Nat /\ MaxRebinds \in Nat

VARIABLES
  client,     \* client[j]: where the EnqueueJob call that creates j stands
  consumer,   \* consumer[j]: the durable consumer's view of j's message
  delivered,  \* delivered[j]: num_delivered of j's message
  inbox,      \* deliveries the worker's subscription holds, oldest first
  handler,    \* handler[s]: the process_message call in slot s
  row,        \* row[j]: the row of orchestrator_jobs
  statusLog,  \* statusLog[j]: the events on subject jobs.status.<j>
  results,    \* result events published under jobs.events
  dlq,        \* dead letters published on jobs.dlq
  returned,   \* history: jobs whose script has exited with status 0
  used        \* how much of each bound has been used up

api  == <<client>>
queue == <<consumer, delivered, inbox>>
events == <<statusLog, results, dlq>>
vars == <<api, queue, handler, row, events, returned, used>>

-----------------------------------------------------------------------------
ValidJobs == Jobs \ (BadEnvelope \cup BadPayload)

Delivery == [job : Jobs, attempt : Nat \ {0}]

\* Labels name the call the handler is about to make.
TryBlock == {"run", "mark_completed", "emit_completed", "emit_succeeded",
             "ack_succeeded"}
Labels == TryBlock \cup
  {"idle", "dlq_invalid", "register", "emit_pending", "mark_processing",
   "emit_started", "mark_retrying", "emit_retrying", "nak",
   "mark_terminal", "emit_failed", "emit_failed_final", "dlq_exhausted",
   "ack"}

IdleHandler == [pc |-> "idle", job |-> NoJob, attempt |-> 0]

HandlerState ==
  {IdleHandler} \cup [pc : Labels \ {"idle"}, job : Jobs, attempt : Nat \ {0}]

Row == [status : {"absent", "requested", "processing", "completed", "failed"},
        attempt : Nat, terminal : BOOLEAN, reason : {"null", "max-attempts"}]

AbsentRow == [status |-> "absent", attempt |-> 0, terminal |-> FALSE,
              reason |-> "null"]

StatusEvent(state, attempt, terminal) ==
  [state |-> state, attempt |-> attempt, terminal |-> terminal]

LifecycleStates == {"ENQUEUED_OR_PENDING", "STARTED", "RETRYING",
                    "SUCCEEDED", "FAILED_FINAL"}

Event == [state : LifecycleStates, attempt : Nat, terminal : BOOLEAN]

\* A terminal event has been published for j.
Announced(j) == \E i \in DOMAIN statusLog[j] : statusLog[j][i].terminal

\* Some delivery of j sits in the worker's inbox or in a slot.
Held(j) == \/ \E i \in DOMAIN inbox : inbox[i].job = j
           \/ \E s \in Slots : handler[s].job = j
-----------------------------------------------------------------------------
(* How a call ends, and what the handler does next.                        *)

Outcomes == {"ok", "lost", "late"}

\* "lost" raises before the effect, "late" after it.
Happened(o) == o # "lost"

Charge(o) ==
  \/ o = "ok" /\ UNCHANGED used
  \/ /\ o # "ok" /\ used.faults < MaxFaults
     /\ used' = [used EXCEPT !.faults = @ + 1]

AtLabel(hd, label) == IF label = "idle" THEN IdleHandler
                                        ELSE [hd EXCEPT !.pc = label]

\* Mutant of FailureLabel: no retry at all.
FailureLabelNoRetry(attempt) == "mark_terminal"

\* The except branch: give up at max_attempts, else retry.
FailureLabel(attempt) ==
  IF attempt >= MaxAttempts THEN "mark_terminal" ELSE "mark_retrying"

\* Mutant of RaisedLabel: the semaphore is not released on an exception.
RaisedLabelLeaksSlot(hd) ==
  IF hd.pc \in TryBlock THEN FailureLabel(hd.attempt) ELSE "leaked"

\* An exception inside the try block enters the except branch, any other one
\* leaves process_message without ack or nak.
RaisedLabel(hd) == IF hd.pc \in TryBlock THEN FailureLabel(hd.attempt)
                                         ELSE "idle"

Proceed(s, o, next) ==
  /\ Charge(o)
  /\ handler' = [handler EXCEPT ![s] =
                   AtLabel(@, IF o = "ok" THEN next ELSE RaisedLabel(@))]

\* UPDATE ... WHERE job_id: touches nothing when there is no row.
UpdateRow(j, o, new) ==
  row' = IF Happened(o) /\ row[j].status # "absent"
         THEN [row EXCEPT ![j] = new] ELSE row

PublishStatus(j, o, event) ==
  statusLog' = IF Happened(o)
               THEN [statusLog EXCEPT ![j] = Append(@, event)] ELSE statusLog

\* Step of slot s at a label that only publishes a status event.
EmitStatus(s, o, label, state, attempt, terminal, next) ==
  /\ handler[s].pc = label
  /\ PublishStatus(handler[s].job, o, StatusEvent(state, attempt, terminal))
  /\ Proceed(s, o, next)
  /\ UNCHANGED <<api, queue, row, results, dlq, returned>>
-----------------------------------------------------------------------------
(* Producers.                                                              *)

Init ==
  /\ client = [j \in Jobs |-> "idle"]
  /\ consumer = [j \in Jobs |-> "absent"]
  /\ delivered = [j \in Jobs |-> 0]
  /\ inbox = <<>>
  /\ handler = [s \in Slots |-> IdleHandler]
  /\ row = [j \in Jobs |-> AbsentRow]
  /\ statusLog = [j \in Jobs |-> <<>>]
  /\ results = {}
  /\ dlq = {}
  /\ returned = {}
  /\ used = [faults |-> 0, crashes |-> 0, late |-> 0, rebinds |-> 0]

PublishRequest(j, o) ==
  consumer' = IF Happened(o) THEN [consumer EXCEPT ![j] = "ready"] ELSE consumer

\* EnqueueJob, first publish: the request itself.
EnqueueRequest(j, o) ==
  /\ client[j] = "idle"
  /\ j \in ValidJobs
  /\ PublishRequest(j, o)
  /\ client' = [client EXCEPT ![j] = IF o = "ok" THEN "announcing" ELSE "error"]
  /\ Charge(o)
  /\ UNCHANGED <<delivered, inbox, handler, row, events, returned>>

\* EnqueueJob, second publish: the pending event; then the id is returned.
EnqueueEvent(j, o) ==
  /\ client[j] = "announcing"
  /\ PublishStatus(j, o, StatusEvent("ENQUEUED_OR_PENDING", 0, FALSE))
  /\ client' = [client EXCEPT ![j] = IF o = "ok" THEN "replied" ELSE "error"]
  /\ Charge(o)
  /\ UNCHANGED <<queue, handler, row, results, dlq, returned>>

\* Some other publisher puts a malformed request on the subject.
ForeignRequest(j) ==
  /\ client[j] = "idle"
  /\ j \in Jobs \ ValidJobs
  /\ PublishRequest(j, "ok")
  /\ client' = [client EXCEPT ![j] = "replied"]
  /\ UNCHANGED <<delivered, inbox, handler, row, events, returned, used>>
-----------------------------------------------------------------------------
(* JetStream: the durable consumer with explicit acks and no max_deliver.  *)

\* Mutant of Deliver: num_delivered counts redeliveries only.
DeliverCountsFromZero(j) ==
  /\ consumer[j] = "ready"
  /\ consumer' = [consumer EXCEPT ![j] = "outstanding"]
  /\ delivered' = [delivered EXCEPT ![j] = @ + 1]
  /\ inbox' = Append(inbox, [job |-> j, attempt |-> delivered[j]])
  /\ UNCHANGED <<api, handler, row, events, returned, used>>

Deliver(j) ==
  /\ consumer[j] = "ready"
  /\ consumer' = [consumer EXCEPT ![j] = "outstanding"]
  /\ delivered' = [delivered EXCEPT ![j] = @ + 1]
  /\ inbox' = Append(inbox, [job |-> j, attempt |-> delivered[j] + 1])
  /\ UNCHANGED <<api, handler, row, events, returned, used>>

\* The ack timer runs from delivery, not from the start of the handler: it
\* also expires while the delivery waits in the inbox or its job runs.
AckWaitExpires(j) ==
  /\ consumer[j] = "outstanding"
  /\ consumer' = [consumer EXCEPT ![j] = "ready"]
  /\ \/ ~Held(j) /\ UNCHANGED used
     \/ /\ Held(j) /\ used.late < MaxLate
        /\ used' = [used EXCEPT !.late = @ + 1]
  /\ UNCHANGED <<api, delivered, inbox, handler, row, events, returned>>

\* An ack of any delivery settles the message.
AckMessage(j, o) ==
  consumer' = IF Happened(o) THEN [consumer EXCEPT ![j] = "acked"] ELSE consumer

\* A nak of a message that is already acked is ignored.
NakMessage(j, o) ==
  consumer' = IF Happened(o) /\ consumer[j] = "outstanding"
              THEN [consumer EXCEPT ![j] = "ready"] ELSE consumer

LoseWorkerMemory ==
  /\ inbox' = <<>>
  /\ handler' = [s \in Slots |-> IdleHandler]

Crash ==
  /\ used.crashes < MaxCrashes
  /\ used' = [used EXCEPT !.crashes = @ + 1]
  /\ LoseWorkerMemory
  /\ UNCHANGED <<api, consumer, delivered, row, events, returned>>

\* The worker restarts under a new JOB_CONSUMER_DURABLE: the stream keeps its
\* messages, so the fresh consumer delivers all of them again from 1.
Rebind ==
  /\ used.rebinds < MaxRebinds
  /\ used' = [used EXCEPT !.rebinds = @ + 1]
  /\ LoseWorkerMemory
  /\ consumer' = [j \in Jobs |->
                    IF consumer[j] = "absent" THEN "absent" ELSE "ready"]
  /\ delivered' = [j \in Jobs |-> 0]
  /\ UNCHANGED <<api, row, events, returned>>
-----------------------------------------------------------------------------
(* process_message, up to the try block.                                   *)

\* Label of the first call, chosen without an await.
FirstLabel(d) ==
  IF d.job \in BadEnvelope
  THEN IF d.attempt >= MaxAttempts THEN "dlq_invalid" ELSE "nak"
  ELSE IF d.job \in BadPayload THEN "dlq_invalid"
  ELSE IF d.attempt = 1 THEN "register" ELSE "mark_processing"

Receive(s) ==
  /\ handler[s].pc = "idle"
  /\ inbox # <<>>
  /\ inbox' = Tail(inbox)
  /\ handler' = [handler EXCEPT ![s] =
       [pc |-> FirstLabel(Head(inbox)), job |-> Head(inbox).job,
        attempt |-> Head(inbox).attempt]]
  /\ UNCHANGED <<api, consumer, delivered, row, events, returned, used>>

\* Mutants of Register: the answers are swapped; a conflict is not noticed.
RegisterInverted(s, o) ==
  LET j == handler[s].job
      fresh == row[j].status = "absent"
  IN /\ handler[s].pc = "register"
     /\ row' = IF Happened(o) /\ fresh
               THEN [row EXCEPT ![j].status = "requested"] ELSE row
     /\ Proceed(s, o, IF fresh THEN "ack" ELSE "emit_pending")
     /\ UNCHANGED <<api, queue, events, returned>>

RegisterUpsert(s, o) ==
  LET j == handler[s].job
  IN /\ handler[s].pc = "register"
     /\ row' = IF Happened(o) THEN [row EXCEPT ![j].status = "requested"] ELSE row
     /\ Proceed(s, o, "emit_pending")
     /\ UNCHANGED <<api, queue, events, returned>>

\* INSERT ... ON CONFLICT DO NOTHING: a duplicate is acked and dropped.
Register(s, o) ==
  LET j == handler[s].job
      fresh == row[j].status = "absent"
  IN /\ handler[s].pc = "register"
     /\ row' = IF Happened(o) /\ fresh
               THEN [row EXCEPT ![j].status = "requested"] ELSE row
     /\ Proceed(s, o, IF fresh THEN "emit_pending" ELSE "ack")
     /\ UNCHANGED <<api, queue, events, returned>>

EmitPending(s, o) ==
  EmitStatus(s, o, "emit_pending", "ENQUEUED_OR_PENDING",
             handler[s].attempt - 1, FALSE, "mark_processing")

\* Mutant of MarkProcessing: the attempt is not stored.
MarkProcessingKeepsAttempt(s, o) ==
  LET j == handler[s].job
  IN /\ handler[s].pc = "mark_processing"
     /\ UpdateRow(j, o, [row[j] EXCEPT !.status = "processing"])
     /\ Proceed(s, o, "emit_started")
     /\ UNCHANGED <<api, queue, events, returned>>

\* Sets status and attempt only: is_terminal and terminal_reason stay.
MarkProcessing(s, o) ==
  LET j == handler[s].job
  IN /\ handler[s].pc = "mark_processing"
     /\ UpdateRow(j, o, [row[j] EXCEPT !.status = "processing",
                                       !.attempt = handler[s].attempt])
     /\ Proceed(s, o, "emit_started")
     /\ UNCHANGED <<api, queue, events, returned>>

EmitStarted(s, o) ==
  EmitStatus(s, o, "emit_started", "STARTED", handler[s].attempt, FALSE, "run")
-----------------------------------------------------------------------------
(* process_message, the try block.                                         *)

\* Mutant of RunReturns: the message is acked before anything is recorded.
RunReturnsAckFirst(s) ==
  /\ handler[s].pc = "run"
  /\ returned' = returned \cup {handler[s].job}
  /\ handler' = [handler EXCEPT ![s].pc = "ack_succeeded"]
  /\ UNCHANGED <<api, queue, row, events, used>>

RunReturns(s) ==
  /\ handler[s].pc = "run"
  /\ returned' = returned \cup {handler[s].job}
  /\ handler' = [handler EXCEPT ![s].pc = "mark_completed"]
  /\ UNCHANGED <<api, queue, row, events, used>>

\* Mutant of RunFails: the exit status is not looked at.
RunFailsUnnoticed(s) ==
  /\ handler[s].pc = "run"
  /\ handler' = [handler EXCEPT ![s].pc = "mark_completed"]
  /\ UNCHANGED <<api, queue, row, events, returned, used>>

\* The script exits with a status other than 0, or cannot be launched.
RunFails(s) ==
  /\ handler[s].pc = "run"
  /\ handler' = [handler EXCEPT ![s].pc = FailureLabel(handler[s].attempt)]
  /\ UNCHANGED <<api, queue, row, events, returned, used>>

MarkCompleted(s, o) ==
  LET j == handler[s].job
  IN /\ handler[s].pc = "mark_completed"
     /\ UpdateRow(j, o, [row[j] EXCEPT !.status = "completed",
                                       !.terminal = TRUE, !.reason = "null"])
     /\ Proceed(s, o, "emit_completed")
     /\ UNCHANGED <<api, queue, events, returned>>

PublishResult(s, o, label, status, next) ==
  /\ handler[s].pc = label
  /\ results' = IF Happened(o)
                THEN results \cup {<<handler[s].job, status>>} ELSE results
  /\ Proceed(s, o, next)
  /\ UNCHANGED <<api, queue, row, statusLog, dlq, returned>>

EmitCompleted(s, o) ==
  PublishResult(s, o, "emit_completed", "completed", "emit_succeeded")

EmitSucceeded(s, o) ==
  EmitStatus(s, o, "emit_succeeded", "SUCCEEDED", handler[s].attempt, TRUE,
             "ack_succeeded")

\* msg.ack(): inside the try block once the job succeeded, outside elsewhere.
Ack(s, o) ==
  /\ handler[s].pc \in {"ack_succeeded", "ack"}
  /\ AckMessage(handler[s].job, o)
  /\ Proceed(s, o, "idle")
  /\ UNCHANGED <<api, delivered, inbox, row, events, returned>>
-----------------------------------------------------------------------------
(* process_message, the except branch and the invalid messages.            *)

\* Mutants of MarkRetrying: the retry starts counting again; the failure is
\* stored as terminal.
MarkRetryingResetsAttempt(s, o) ==
  LET j == handler[s].job
  IN /\ handler[s].pc = "mark_retrying"
     /\ UpdateRow(j, o, [row[j] EXCEPT !.status = "failed", !.attempt = 0,
                                       !.terminal = FALSE, !.reason = "null"])
     /\ Proceed(s, o, "emit_retrying")
     /\ UNCHANGED <<api, queue, events, returned>>

MarkRetryingTerminal(s, o) ==
  LET j == handler[s].job
  IN /\ handler[s].pc = "mark_retrying"
     /\ UpdateRow(j, o, [row[j] EXCEPT !.status = "failed", !.terminal = TRUE])
     /\ Proceed(s, o, "emit_retrying")
     /\ UNCHANGED <<api, queue, events, returned>>

MarkRetrying(s, o) ==
  LET j == handler[s].job
  IN /\ handler[s].pc = "mark_retrying"
     /\ UpdateRow(j, o, [row[j] EXCEPT !.status = "failed",
                                       !.terminal = FALSE, !.reason = "null"])
     /\ Proceed(s, o, "emit_retrying")
     /\ UNCHANGED <<api, queue, events, returned>>

EmitRetrying(s, o) ==
  EmitStatus(s, o, "emit_retrying", "RETRYING", handler[s].attempt, FALSE, "nak")

Nak(s, o) ==
  /\ handler[s].pc = "nak"
  /\ NakMessage(handler[s].job, o)
  /\ Proceed(s, o, "idle")
  /\ UNCHANGED <<api, delivered, inbox, row, events, returned>>

MarkTerminal(s, o) ==
  LET j == handler[s].job
  IN /\ handler[s].pc = "mark_terminal"
     /\ UpdateRow(j, o, [row[j] EXCEPT !.status = "failed", !.terminal = TRUE,
                                       !.reason = "max-attempts"])
     /\ Proceed(s, o, "emit_failed")
     /\ UNCHANGED <<api, queue, events, returned>>

\* Mutant of EmitFailed: the watchers are not told.
EmitFailedSilently(s, o) ==
  PublishResult(s, o, "emit_failed", "failed", "dlq_exhausted")

EmitFailed(s, o) ==
  PublishResult(s, o, "emit_failed", "failed", "emit_failed_final")

EmitFailedFinal(s, o) ==
  EmitStatus(s, o, "emit_failed_final", "FAILED_FINAL", handler[s].attempt,
             TRUE, "dlq_exhausted")

\* _emit_dlq swallows its own exception, so the message is acked either way.
EmitDlq(s, o) ==
  /\ handler[s].pc \in {"dlq_invalid", "dlq_exhausted"}
  /\ dlq' = IF Happened(o)
            THEN dlq \cup {<<handler[s].job, handler[s].pc>>} ELSE dlq
  /\ Charge(o)
  /\ handler' = [handler EXCEPT ![s].pc = "ack"]
  /\ UNCHANGED <<api, queue, row, statusLog, results, returned>>
-----------------------------------------------------------------------------
Enqueue(j) == \/ \E o \in Outcomes : EnqueueRequest(j, o) \/ EnqueueEvent(j, o)
              \/ ForeignRequest(j)

Call(s, o) ==
  \/ Register(s, o) \/ EmitPending(s, o) \/ MarkProcessing(s, o)
  \/ EmitStarted(s, o) \/ MarkCompleted(s, o) \/ EmitCompleted(s, o)
  \/ EmitSucceeded(s, o) \/ Ack(s, o) \/ MarkRetrying(s, o)
  \/ EmitRetrying(s, o) \/ Nak(s, o) \/ MarkTerminal(s, o) \/ EmitFailed(s, o)
  \/ EmitFailedFinal(s, o) \/ EmitDlq(s, o)

Step(s) == \/ RunReturns(s) \/ RunFails(s)
           \/ \E o \in Outcomes : Call(s, o)

Next ==
  \/ \E j \in Jobs : Enqueue(j) \/ Deliver(j) \/ AckWaitExpires(j)
  \/ \E s \in Slots : Receive(s) \/ Step(s)
  \/ Crash \/ Rebind

Spec == Init /\ [][Next]_vars

\* NATS delivers what is ready and redelivers what nobody holds; the event
\* loop resumes every handler; a job script ends.
Fairness ==
  /\ \A j \in Jobs : /\ WF_vars(\E o \in Outcomes : EnqueueEvent(j, o))
                     /\ WF_vars(Deliver(j))
                     /\ WF_vars(~Held(j) /\ AckWaitExpires(j))
  /\ \A s \in Slots : WF_vars(Receive(s)) /\ WF_vars(Step(s))

FairSpec == Spec /\ Fairness
-----------------------------------------------------------------------------
TypeOK ==
  /\ client \in [Jobs -> {"idle", "announcing", "replied", "error"}]
  /\ consumer \in [Jobs -> {"absent", "ready", "outstanding", "acked"}]
  /\ delivered \in [Jobs -> Nat]
  /\ inbox \in Seq(Delivery)
  /\ handler \in [Slots -> HandlerState]
  /\ row \in [Jobs -> Row]
  /\ statusLog \in [Jobs -> Seq(Event)]
  /\ results \subseteq Jobs \X {"completed", "failed"}
  /\ dlq \subseteq Jobs \X {"dlq_invalid", "dlq_exhausted"}
  /\ returned \subseteq Jobs
  /\ used \in [faults : 0 .. MaxFaults, crashes : 0 .. MaxCrashes,
               late : 0 .. MaxLate, rebinds : 0 .. MaxRebinds]
-----------------------------------------------------------------------------
(* Properties.                                                             *)

\* j's log carries an event with this state.
Logged(j, state) == \E i \in DOMAIN statusLog[j] : statusLog[j][i].state = state

\* Nobody is told that a job succeeded unless its script really exited with
\* status 0 once: neither the row, nor a lifecycle event, nor a result event
\* says so before, whatever was retried, redelivered or lost in between.
SuccessMeansRan ==
  \A j \in Jobs :
    (row[j].status = "completed" \/ Logged(j, "SUCCEEDED")
      \/ <<j, "completed">> \in results) => j \in returned

\* A valid request leaves the queue only after the end of its job was
\* announced, so no watcher of an acked job waits for an event that never
\* comes.  After the durable consumer was replaced, the duplicate check acks
\* whatever has a row, announced or not.
AckedIsAnnounced ==
  \A j \in ValidJobs :
    consumer[j] = "acked" =>
      \/ Announced(j)
      \/ used.rebinds > 0 /\ row[j].status # "absent"

\* A result event and a dead letter for exhausted attempts need max_attempts
\* deliveries of the very job, and the failure is announced to watchers
\* before the dead letter: whoever drains jobs.dlq finds FAILED_FINAL logged.
DeadLetterIsAnnounced ==
  \A j \in Jobs : <<j, "dlq_exhausted">> \in dlq =>
    /\ <<j, "failed">> \in results
    /\ \E i \in DOMAIN statusLog[j] : /\ statusLog[j][i].state = "FAILED_FINAL"
                                      /\ statusLog[j][i].attempt >= MaxAttempts

\* Mutant of LifecycleOf: every terminal row counts as a success.
LifecycleOfTerminal(r) ==
  CASE r.status = "requested" -> "ENQUEUED_OR_PENDING"
    [] r.status = "processing" -> "STARTED"
    [] r.status = "completed" \/ r.terminal -> "SUCCEEDED"
    [] OTHER -> "RETRYING"

\* The lifecycle state GetJobStatus derives from the stored status.
LifecycleOf(r) ==
  CASE r.status = "requested" -> "ENQUEUED_OR_PENDING"
    [] r.status = "processing" -> "STARTED"
    [] r.status = "completed" -> "SUCCEEDED"
    [] r.status = "failed" /\ r.terminal -> "FAILED_FINAL"
    [] r.status = "failed" /\ ~r.terminal -> "RETRYING"

\* With one handler, an event of the worker is published only while the row
\* says the same: a client that reacts to it by GetJobStatus is not told an
\* older state.  (Pending events also come from the API, and a job whose
\* registration was lost has no row.)
EventsAgreeWithRow ==
  [][\A j \in Jobs :
       statusLog'[j] # statusLog[j] =>
         LET e == statusLog'[j][Len(statusLog'[j])]
         IN \/ e.state = "ENQUEUED_OR_PENDING"
            \/ row[j].status = "absent"
            \/ e.state = LifecycleOf(row[j]) /\ e.attempt = row[j].attempt]_vars

\* With one handler and one consumer, a job's attempt never goes back: a
\* stale delivery is not processed after a younger one.
AttemptsIncrease ==
  [][\A j \in Jobs : row'[j].attempt >= row[j].attempt]_vars

\* Replaying the whole stream to a fresh consumer never repeats a first
\* attempt: the insert on job_id tells a replayed request from a new one.
FirstAttemptStartsOnce ==
  \A j \in Jobs : \A i, k \in DOMAIN statusLog[j] :
    statusLog[j][i] = StatusEvent("STARTED", 1, FALSE)
      /\ statusLog[j][k] = StatusEvent("STARTED", 1, FALSE) => i = k

\* The event contract: `terminal` is true only for the final lifecycle update,
\* so the worker reports nothing after a terminal event (the pending event of
\* a slow EnqueueJob call is let off).  The code breaks it: see the findings.
TerminalEventIsFinal ==
  [][\A j \in Jobs :
       Announced(j) /\ statusLog'[j] # statusLog[j] =>
         statusLog'[j][Len(statusLog'[j])].state = "ENQUEUED_OR_PENDING"]_vars

\* Every request that reached the stream is eventually settled.
EveryRequestSettles ==
  \A j \in Jobs : consumer[j] = "ready" ~> consumer[j] = "acked"
-----------------------------------------------------------------------------
(* Why the two properties above hold at every step: what the handlers'     *)
(* positions say.  These are the invariants the proofs go through.         *)

\* Past the try block's first call the script has exited with status 0.
SuccessInv ==
  /\ SuccessMeansRan
  /\ \A s \in Slots : handler[s].pc \in TryBlock \ {"run"} =>
                        handler[s].job \in returned

\* A valid job may be acked for this reason.
Settled(j) == \/ Announced(j)
              \/ used.rebinds > 0 /\ row[j].status # "absent"

\* A handler of a valid job is about to ack, or to write the dead letter that
\* precedes the ack, only when that is due.
AckIsDue(s) ==
  handler[s].job \in ValidJobs =>
    /\ handler[s].pc # "dlq_invalid"
    /\ handler[s].pc \in {"ack_succeeded", "dlq_exhausted"} =>
         Announced(handler[s].job)
    /\ handler[s].pc = "ack" => Settled(handler[s].job)

Registering(s, j) == handler[s].pc = "register" /\ handler[s].job = j

\* On the first consumer, the one delivery of j with attempt 1 comes before
\* the row of j: the duplicate check has nothing to drop.
FirstDeliveryIsUnique(j) ==
  /\ delivered[j] = 0 =>
       /\ row[j].status = "absent"
       /\ \A i \in DOMAIN inbox : inbox[i].job # j
       /\ \A s \in Slots : ~Registering(s, j)
  /\ \A i \in DOMAIN inbox : inbox[i] = [job |-> j, attempt |-> 1] =>
       /\ row[j].status = "absent"
       /\ \A s \in Slots : ~Registering(s, j)
       /\ \A k \in DOMAIN inbox : inbox[k] = inbox[i] => k = i
  /\ \A s \in Slots : Registering(s, j) =>
       /\ row[j].status = "absent"
       /\ \A t \in Slots : Registering(t, j) => t = s

AckInv ==
  /\ AckedIsAnnounced
  /\ \A s \in Slots : AckIsDue(s)
  /\ used.rebinds = 0 => \A j \in Jobs : FirstDeliveryIsUnique(j)
-----------------------------------------------------------------------------
(* The refinement mapping: a request is open from its publication to its   *)
(* ack; the announcements are the terminal events in its log.              *)

Phase(j) == CASE consumer[j] = "absent" -> "absent"
              [] consumer[j] = "acked" -> "closed"
              [] OTHER -> "open"

Outcome(j) == {state \in {"SUCCEEDED", "FAILED_FINAL"} : Logged(j, state)}

Promise == INSTANCE JobPromise WITH
  Requests <- ValidJobs,
  phase <- [j \in ValidJobs |-> Phase(j)],
  ran <- returned,
  announced <- [j \in ValidJobs |-> Outcome(j)]

\* As long as the durable consumer is kept, queue and worker together keep the
\* at-least-once promise, and every open request is closed in the end.
KeepsPromise == Promise!FairSpec
=============================================================================
