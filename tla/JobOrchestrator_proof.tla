----------------------- MODULE JobOrchestrator_proof -----------------------
(***************************************************************************)
(* Proofs about JobOrchestrator: types, what is reported and what an ack   *)
(* is preceded by, and, from one description of what a step of a handler   *)
(* does, dead letters, first starts, the order of attempts, the agreement  *)
(* of rows and events and the promise; for any number of jobs, handlers,   *)
(* attempts, faults, crashes and early ack timeouts.                       *)
(*                                                                         *)
(* At the end what is proved of the row and the log is carried over to the *)
(* streams of JobStatusWatch that repeat them: a client is told SUCCEEDED  *)
(* only when the script ran, and done only when the job is decided.        *)
(***************************************************************************)
EXTENDS JobStatusWatch, SequenceTheorems, TLAPS

\* The record of what the bounds have been used for.
UsedType == [faults : 0 .. MaxFaults, crashes : 0 .. MaxCrashes,
             late : 0 .. MaxLate, rebinds : 0 .. MaxRebinds]

LEMMA ChargeType ==
  ASSUME TypeOK, NEW o \in Outcomes, Charge(o)
  PROVE  used' \in UsedType /\ used'.rebinds = used.rebinds
BY BoundAssumption DEF Charge, TypeOK, UsedType

\* What every call of a handler does to handler and used.
LEMMA ProceedType ==
  ASSUME TypeOK, NEW s \in Slots, NEW o \in Outcomes, NEW next \in Labels,
         handler[s].pc # "idle", Proceed(s, o, next)
  PROVE  /\ handler' \in [Slots -> HandlerState]
         /\ used' \in UsedType
         /\ used'.rebinds = used.rebinds
         /\ \A t \in Slots : t # s => handler'[t] = handler[t]
         /\ handler'[s] = AtLabel(handler[s], IF o = "ok" THEN next
                                              ELSE RaisedLabel(handler[s]))
<1> DEFINE label == IF o = "ok" THEN next ELSE RaisedLabel(handler[s])
<1>1. handler[s] \in [pc : Labels \ {"idle"}, job : Jobs, attempt : Nat \ {0}]
  BY DEF TypeOK, HandlerState, IdleHandler
<1>2. label \in Labels
  BY DEF RaisedLabel, FailureLabel, Labels
<1>3. AtLabel(handler[s], label) \in HandlerState
  BY <1>1, <1>2 DEF AtLabel, HandlerState
<1>4. handler' = [handler EXCEPT ![s] = AtLabel(handler[s], label)]
  BY DEF Proceed
<1>5. used' \in UsedType /\ used'.rebinds = used.rebinds
  BY ChargeType DEF Proceed
<1> QED
  BY <1>3, <1>4, <1>5 DEF TypeOK

\* A step that publishes one status event keeps the types.
LEMMA EmitStatusType ==
  ASSUME TypeOK, NEW s \in Slots, NEW o \in Outcomes, NEW label \in Labels \ {"idle"},
         NEW state \in LifecycleStates, NEW attempt \in Nat,
         NEW terminal \in BOOLEAN, NEW next \in Labels,
         EmitStatus(s, o, label, state, attempt, terminal, next)
  PROVE  TypeOK'
<1> DEFINE j == handler[s].job
           e == StatusEvent(state, attempt, terminal)
<1>1. handler[s].pc # "idle" /\ j \in Jobs
  BY DEF EmitStatus, TypeOK, HandlerState, IdleHandler, Labels
<1>2. handler' \in [Slots -> HandlerState]
      /\ used' \in UsedType
  BY <1>1, ProceedType DEF EmitStatus
<1>3. Append(statusLog[j], e) \in Seq(Event)
  <2>1. e \in Event
    BY DEF StatusEvent, Event
  <2>2. statusLog[j] \in Seq(Event)
    BY <1>1 DEF TypeOK
  <2> QED
    BY <2>1, <2>2, AppendProperties
<1>4. statusLog' \in [Jobs -> Seq(Event)]
  BY <1>1, <1>3 DEF EmitStatus, PublishStatus, TypeOK
<1> QED
  BY <1>2, <1>4 DEF EmitStatus, TypeOK, UsedType, api, queue

\* So does a step that publishes a result event.
LEMMA PublishResultType ==
  ASSUME TypeOK, NEW s \in Slots, NEW o \in Outcomes, NEW label \in Labels \ {"idle"},
         NEW status \in {"completed", "failed"}, NEW next \in Labels,
         PublishResult(s, o, label, status, next)
  PROVE  TypeOK'
<1>1. handler[s].pc # "idle" /\ handler[s].job \in Jobs
  BY DEF PublishResult, TypeOK, HandlerState, IdleHandler, Labels
<1>2. handler' \in [Slots -> HandlerState]
      /\ used' \in UsedType
  BY <1>1, ProceedType DEF PublishResult
<1>3. results' \subseteq Jobs \X {"completed", "failed"}
  BY <1>1 DEF PublishResult, TypeOK
<1> QED
  BY <1>2, <1>3 DEF PublishResult, TypeOK, UsedType, api, queue

\* And a step that writes the row of the handler's job.
LEMMA RowStepType ==
  ASSUME TypeOK, NEW s \in Slots, NEW o \in Outcomes, NEW next \in Labels,
         handler[s].pc # "idle", Proceed(s, o, next),
         row' \in [Jobs -> Row], UNCHANGED <<api, queue, events, returned>>
  PROVE  TypeOK'
BY ProceedType DEF TypeOK, UsedType, api, queue, events

LEMMA TypeInit == Init => TypeOK
<1> SUFFICES ASSUME Init PROVE TypeOK
  OBVIOUS
<1>1. <<>> \in Seq(Delivery) /\ <<>> \in Seq(Event)
  BY EmptySeq
<1> QED
  BY <1>1, BoundAssumption
  DEF Init, TypeOK, IdleHandler, HandlerState, AbsentRow, Row
\* Every step of a handler keeps the types.
LEMMA StepType ==
  ASSUME TypeOK, NEW s \in Slots, Step(s)
  PROVE  TypeOK'
<1> USE DEF Labels, TryBlock
<1> DEFINE j == handler[s].job
<1>1. ASSUME handler[s].pc # "idle"
      PROVE  /\ handler[s] \in [pc : Labels \ {"idle"}, job : Jobs,
                                attempt : Nat \ {0}]
             /\ row[j] \in Row
  BY <1>1 DEF TypeOK, HandlerState, IdleHandler
<1>2. CASE RunReturns(s)
  BY <1>1, <1>2 DEF RunReturns, TypeOK, HandlerState, api, queue, events
<1>3. CASE RunFails(s)
  <2>1. FailureLabel(handler[s].attempt) \in Labels \ {"idle"}
    BY DEF FailureLabel
  <2> QED
    BY <1>1, <1>3, <2>1 DEF RunFails, TypeOK, HandlerState, api, queue, events
<1>4. ASSUME NEW o \in Outcomes, Register(s, o)
      PROVE  TypeOK'
  <2>1. row' \in [Jobs -> Row]
    BY <1>1, <1>4 DEF Register, TypeOK, Row
  <2> QED
    BY <1>4, <2>1, RowStepType DEF Register
<1>5. ASSUME NEW o \in Outcomes, MarkProcessing(s, o)
      PROVE  TypeOK'
  <2>1. row' \in [Jobs -> Row]
    BY <1>1, <1>5 DEF MarkProcessing, UpdateRow, TypeOK, Row
  <2> QED
    BY <1>5, <2>1, RowStepType DEF MarkProcessing
<1>6. ASSUME NEW o \in Outcomes, MarkCompleted(s, o)
      PROVE  TypeOK'
  <2>1. row' \in [Jobs -> Row]
    BY <1>1, <1>6 DEF MarkCompleted, UpdateRow, TypeOK, Row
  <2> QED
    BY <1>6, <2>1, RowStepType DEF MarkCompleted
<1>7. ASSUME NEW o \in Outcomes, MarkRetrying(s, o)
      PROVE  TypeOK'
  <2>1. row' \in [Jobs -> Row]
    BY <1>1, <1>7 DEF MarkRetrying, UpdateRow, TypeOK, Row
  <2> QED
    BY <1>7, <2>1, RowStepType DEF MarkRetrying
<1>8. ASSUME NEW o \in Outcomes, MarkTerminal(s, o)
      PROVE  TypeOK'
  <2>1. row' \in [Jobs -> Row]
    BY <1>1, <1>8 DEF MarkTerminal, UpdateRow, TypeOK, Row
  <2> QED
    BY <1>8, <2>1, RowStepType DEF MarkTerminal
<1>9. ASSUME NEW o \in Outcomes, EmitPending(s, o)
      PROVE  TypeOK'
  <2>1. handler[s].attempt - 1 \in Nat
    BY <1>1, <1>9 DEF EmitPending, EmitStatus
  <2> QED
    BY <1>9, <2>1, EmitStatusType DEF EmitPending, LifecycleStates
<1>10. ASSUME NEW o \in Outcomes,
              \/ EmitStarted(s, o) \/ EmitSucceeded(s, o)
              \/ EmitRetrying(s, o) \/ EmitFailedFinal(s, o)
       PROVE  TypeOK'
  <2>1. handler[s].attempt \in Nat
    BY <1>1, <1>10
    DEF EmitStarted, EmitSucceeded, EmitRetrying, EmitFailedFinal, EmitStatus
  <2>2. CASE EmitStarted(s, o)
    BY <2>1, <2>2, EmitStatusType DEF EmitStarted, LifecycleStates
  <2>3. CASE EmitSucceeded(s, o)
    BY <2>1, <2>3, EmitStatusType DEF EmitSucceeded, LifecycleStates
  <2>4. CASE EmitRetrying(s, o)
    BY <2>1, <2>4, EmitStatusType DEF EmitRetrying, LifecycleStates
  <2>5. CASE EmitFailedFinal(s, o)
    BY <2>1, <2>5, EmitStatusType DEF EmitFailedFinal, LifecycleStates
  <2> QED
    BY <1>10, <2>2, <2>3, <2>4, <2>5
<1>11. ASSUME NEW o \in Outcomes, EmitCompleted(s, o) \/ EmitFailed(s, o)
       PROVE  TypeOK'
  BY <1>11, PublishResultType DEF EmitCompleted, EmitFailed
<1>12. ASSUME NEW o \in Outcomes, Ack(s, o) \/ Nak(s, o)
       PROVE  TypeOK'
  <2>1. handler[s].pc # "idle" /\ Proceed(s, o, "idle")
    BY <1>12 DEF Ack, Nak
  <2>2. consumer' \in [Jobs -> {"absent", "ready", "outstanding", "acked"}]
    <3>1. CASE Ack(s, o)
      BY <3>1 DEF Ack, AckMessage, TypeOK
    <3>2. CASE Nak(s, o)
      BY <3>2 DEF Nak, NakMessage, TypeOK
    <3> QED
      BY <1>12, <3>1, <3>2
  <2> QED
    BY <1>12, <2>1, <2>2, ProceedType DEF Ack, Nak, TypeOK, UsedType, api, events
<1>13. ASSUME NEW o \in Outcomes, EmitDlq(s, o)
       PROVE  TypeOK'
  <2>1. dlq' \subseteq Jobs \X {"dlq_invalid", "dlq_exhausted"}
    BY <1>1, <1>13 DEF EmitDlq, TypeOK
  <2>2. handler' \in [Slots -> HandlerState]
    BY <1>1, <1>13 DEF EmitDlq, TypeOK, HandlerState
  <2>3. used' \in UsedType
    BY <1>13, ChargeType DEF EmitDlq
  <2>4. UNCHANGED <<client, consumer, delivered, inbox, row, statusLog,
                    results, returned>>
    BY <1>13 DEF EmitDlq, api, queue
  <2> QED
    BY <2>1, <2>2, <2>3, <2>4 DEF TypeOK, UsedType
<1> QED
  BY <1>2, <1>3, <1>4, <1>5, <1>6, <1>7, <1>8, <1>9, <1>10, <1>11, <1>12,
     <1>13 DEF Step, Call

\* And so does every step of the API, the queue and the worker process.
LEMMA EnvironmentType ==
  ASSUME TypeOK,
         \/ \E j \in Jobs : Enqueue(j) \/ Deliver(j) \/ AckWaitExpires(j)
         \/ \E s \in Slots : Receive(s)
         \/ Crash \/ Rebind
  PROVE  TypeOK'
<1> USE BoundAssumption
<1>1. ASSUME NEW j \in Jobs, NEW o \in Outcomes, EnqueueRequest(j, o)
      PROVE  TypeOK'
  <2>1. used' \in UsedType
    BY <1>1, ChargeType DEF EnqueueRequest
  <2>2. /\ client' \in [Jobs -> {"idle", "announcing", "replied", "error"}]
        /\ consumer' \in [Jobs -> {"absent", "ready", "outstanding", "acked"}]
    BY <1>1 DEF EnqueueRequest, PublishRequest, TypeOK
  <2>3. UNCHANGED <<delivered, inbox, handler, row, statusLog, results, dlq,
                    returned>>
    BY <1>1 DEF EnqueueRequest, events
  <2> QED
    BY <2>1, <2>2, <2>3 DEF TypeOK, UsedType
<1>2. ASSUME NEW j \in Jobs, NEW o \in Outcomes, EnqueueEvent(j, o)
      PROVE  TypeOK'
  <2> DEFINE e == StatusEvent("ENQUEUED_OR_PENDING", 0, FALSE)
  <2>1. e \in Event /\ statusLog[j] \in Seq(Event)
    BY DEF StatusEvent, Event, LifecycleStates, TypeOK
  <2>2. Append(statusLog[j], e) \in Seq(Event)
    BY <2>1, AppendProperties
  <2>3. statusLog' \in [Jobs -> Seq(Event)]
    BY <1>2, <2>2 DEF EnqueueEvent, PublishStatus, TypeOK
  <2>4. used' \in UsedType
    BY <1>2, ChargeType DEF EnqueueEvent
  <2>5. client' \in [Jobs -> {"idle", "announcing", "replied", "error"}]
    BY <1>2 DEF EnqueueEvent, TypeOK
  <2>6. UNCHANGED <<consumer, delivered, inbox, handler, row, results, dlq,
                    returned>>
    BY <1>2 DEF EnqueueEvent, queue
  <2> QED
    BY <2>3, <2>4, <2>5, <2>6 DEF TypeOK, UsedType
<1>3. ASSUME NEW j \in Jobs, ForeignRequest(j)
      PROVE  TypeOK'
  BY <1>3 DEF ForeignRequest, PublishRequest, TypeOK, events
<1>4. ASSUME NEW j \in Jobs, Deliver(j)
      PROVE  TypeOK'
  <2>1. [job |-> j, attempt |-> delivered[j] + 1] \in Delivery
    BY DEF Delivery, TypeOK
  <2>2. inbox' \in Seq(Delivery)
    BY <1>4, <2>1, AppendProperties DEF Deliver, TypeOK
  <2> QED
    BY <1>4, <2>2 DEF Deliver, TypeOK, api, events
<1>5. ASSUME NEW j \in Jobs, AckWaitExpires(j)
      PROVE  TypeOK'
  BY <1>5, SMTT(30) DEF AckWaitExpires, TypeOK, api, events
<1>6. ASSUME NEW s \in Slots, Receive(s)
      PROVE  TypeOK'
  <2>1. Head(inbox) \in Delivery /\ Tail(inbox) \in Seq(Delivery)
    BY <1>6, HeadTailProperties DEF Receive, TypeOK
  <2>2. FirstLabel(Head(inbox)) \in Labels \ {"idle"}
    BY DEF FirstLabel, Labels
  <2>3. handler' \in [Slots -> HandlerState]
    BY <1>6, <2>1, <2>2 DEF Receive, TypeOK, HandlerState, Delivery
  <2> QED
    BY <1>6, <2>1, <2>3 DEF Receive, TypeOK, api, events
<1>7. ASSUME LoseWorkerMemory
      PROVE  inbox' \in Seq(Delivery) /\ handler' \in [Slots -> HandlerState]
  BY <1>7, EmptySeq DEF LoseWorkerMemory, HandlerState
<1>8. CASE Crash
  <2>1. used' \in UsedType
    <3>1. /\ used.crashes < MaxCrashes
          /\ used' = [used EXCEPT !.crashes = @ + 1]
      BY <1>8 DEF Crash
    <3>2. used \in UsedType
      BY DEF TypeOK, UsedType
    <3>3. used.crashes + 1 \in 0 .. MaxCrashes
      BY <3>1, <3>2 DEF UsedType
    <3> QED
      BY <3>1, <3>2, <3>3 DEF UsedType
  <2>2. UNCHANGED <<client, row, statusLog, results, dlq, returned>>
    BY <1>8 DEF Crash, api, events
  <2>3. /\ consumer' \in [Jobs -> {"absent", "ready", "outstanding", "acked"}]
        /\ delivered' \in [Jobs -> Nat]
    BY <1>8 DEF Crash, TypeOK
  <2>4. inbox' \in Seq(Delivery) /\ handler' \in [Slots -> HandlerState]
    BY <1>7, <1>8 DEF Crash
  <2> QED
    BY <2>1, <2>2, <2>3, <2>4 DEF TypeOK, UsedType
<1>9. CASE Rebind
  <2>1. used' \in UsedType
    <3>1. /\ used.rebinds < MaxRebinds
          /\ used' = [used EXCEPT !.rebinds = @ + 1]
      BY <1>9 DEF Rebind
    <3>2. used \in UsedType
      BY DEF TypeOK, UsedType
    <3>3. used.rebinds + 1 \in 0 .. MaxRebinds
      BY <3>1, <3>2 DEF UsedType
    <3> QED
      BY <3>1, <3>2, <3>3 DEF UsedType
  <2>2. /\ consumer' \in [Jobs -> {"absent", "ready", "outstanding", "acked"}]
        /\ delivered' \in [Jobs -> Nat]
    BY <1>9 DEF Rebind, TypeOK
  <2>3. UNCHANGED <<client, row, statusLog, results, dlq, returned>>
    BY <1>9 DEF Rebind, api, events
  <2>4. inbox' \in Seq(Delivery) /\ handler' \in [Slots -> HandlerState]
    BY <1>7, <1>9 DEF Rebind
  <2> QED
    BY <2>1, <2>2, <2>3, <2>4 DEF TypeOK, UsedType
<1> QED
  BY <1>1, <1>2, <1>3, <1>4, <1>5, <1>6, <1>8, <1>9 DEF Enqueue

\* The variables keep their types: orchestrator_jobs, the queue, the event
\* logs and the handlers hold only what the code can put there.
THEOREM TypeCorrect == Spec => []TypeOK
<1>1. TypeOK /\ [Next]_vars => TypeOK'
  <2>1. CASE UNCHANGED vars
    BY <2>1 DEF TypeOK, vars, api, queue, events
  <2> QED
    BY <2>1, StepType, EnvironmentType DEF Next
<1> QED
  BY <1>1, TypeInit, PTL DEF Spec
-----------------------------------------------------------------------------
(* What a step of a handler does, as far as the safety proofs look at it.  *)

\* The handler moves on with its job, or gives its slot back.
HandlerEffect(s) ==
  /\ handler[s].pc # "idle" /\ handler[s].job \in Jobs
  /\ \A t \in Slots \ {s} : handler'[t] = handler[t]
  /\ \/ handler'[s] = IdleHandler
     \/ /\ handler'[s].job = handler[s].job
        /\ handler'[s].pc \notin {"idle", "register", "dlq_invalid"}
  /\ handler'[s].pc \in TryBlock \ {"run"} =>
       \/ handler[s].pc \in TryBlock \ {"run"}
       \/ handler[s].job \in returned'
  /\ handler'[s].pc = "ack" =>
       \/ handler[s].pc \in {"dlq_invalid", "dlq_exhausted"}
       \/ handler[s].pc = "register" /\ row[handler[s].job].status # "absent"
  /\ returned \subseteq returned'

\* The deliveries and the other jobs' rows stay; a row appears in "register".
StoreEffect(s) ==
  /\ inbox' = inbox /\ delivered' = delivered
  /\ used'.rebinds = used.rebinds
  /\ \A j \in Jobs :
       /\ row[j].status # "absent" => row'[j].status # "absent"
       /\ row'[j].status # "absent" =>
            row[j].status # "absent" \/ Registering(s, j)
       /\ row'[j].status = "completed" =>
            \/ row[j].status = "completed"
            \/ handler[s].pc = "mark_completed" /\ handler[s].job = j
       /\ consumer'[j] = "acked" =>
            \/ consumer[j] = "acked"
            \/ handler[s].pc \in {"ack", "ack_succeeded"} /\ handler[s].job = j

\* Events and results are only added.
LogEffect(s) ==
  /\ \A j \in Jobs :
       /\ Announced(j) => Announced(j)'
       /\ Logged(j, "SUCCEEDED")' =>
            \/ Logged(j, "SUCCEEDED")
            \/ handler[s].pc = "emit_succeeded" /\ handler[s].job = j
       /\ <<j, "completed">> \in results' =>
            \/ <<j, "completed">> \in results
            \/ handler[s].pc = "emit_completed" /\ handler[s].job = j
       /\ /\ handler'[s].pc \in {"ack_succeeded", "dlq_exhausted"}
          /\ handler[s].job = j
          => Announced(j)'

\* Where a call leaves its handler.
LEMMA LabelAfter ==
  ASSUME TypeOK, NEW s \in Slots, NEW o \in Outcomes, NEW next \in Labels,
         handler[s].pc # "idle", Proceed(s, o, next)
  PROVE  /\ handler[s].job \in Jobs
         /\ \A t \in Slots \ {s} : handler'[t] = handler[t]
         /\ used'.rebinds = used.rebinds
         /\ \/ handler'[s] = IdleHandler
            \/ /\ handler'[s].job = handler[s].job
               /\ \/ o = "ok" /\ next # "idle" /\ handler'[s].pc = next
                  \/ handler'[s].pc \in {"mark_terminal", "mark_retrying"}
<1>1. handler[s] \in [pc : Labels \ {"idle"}, job : Jobs, attempt : Nat \ {0}]
  BY DEF TypeOK, HandlerState, IdleHandler
<1>2. RaisedLabel(handler[s]) \in {"idle", "mark_terminal", "mark_retrying"}
  BY DEF RaisedLabel, FailureLabel
<1>3. /\ \A t \in Slots : t # s => handler'[t] = handler[t]
      /\ used'.rebinds = used.rebinds
      /\ handler'[s] = AtLabel(handler[s], IF o = "ok" THEN next
                                           ELSE RaisedLabel(handler[s]))
  BY ProceedType
<1>4. \A label :
        \/ AtLabel(handler[s], label) = IdleHandler /\ label = "idle"
        \/ /\ AtLabel(handler[s], label).job = handler[s].job
           /\ AtLabel(handler[s], label).pc = label
           /\ label # "idle"
  BY <1>1 DEF AtLabel
<1> QED
  BY <1>1, <1>2, <1>3, <1>4 DEF Outcomes

\* A log that grows by one event.
LEMMA LogAppended ==
  ASSUME TypeOK, NEW j \in Jobs, NEW e \in Event,
         statusLog' = [statusLog EXCEPT ![j] = Append(@, e)]
  PROVE  /\ \A k \in Jobs : Announced(k) => Announced(k)'
         /\ e.terminal => Announced(j)'
         /\ \A k \in Jobs : Logged(k, "SUCCEEDED")' =>
              Logged(k, "SUCCEEDED") \/ (k = j /\ e.state = "SUCCEEDED")
<1> DEFINE log == statusLog[j]
<1>1. log \in Seq(Event)
  BY DEF TypeOK
<1>2. /\ DOMAIN log = 1 .. Len(log) /\ Len(log) \in Nat
      /\ DOMAIN Append(log, e) = 1 .. Len(log) + 1
      /\ \A i \in 1 .. Len(log) : Append(log, e)[i] = log[i]
      /\ Append(log, e)[Len(log) + 1] = e
  BY <1>1, AppendProperties, LenProperties
<1>3. /\ statusLog'[j] = Append(log, e)
      /\ \A k \in Jobs \ {j} : statusLog'[k] = statusLog[k]
  BY DEF TypeOK
<1> HIDE DEF log
<1>4. \A k \in Jobs : Announced(k) => Announced(k)'
  BY <1>2, <1>3 DEF Announced, log
<1>5. e.terminal => Announced(j)'
  BY <1>2, <1>3 DEF Announced
<1>6. ASSUME NEW k \in Jobs, Logged(k, "SUCCEEDED")'
      PROVE  Logged(k, "SUCCEEDED") \/ (k = j /\ e.state = "SUCCEEDED")
  <2>1. CASE k # j
    BY <1>3, <1>6, <2>1 DEF Logged
  <2>2. CASE k = j
    <3>1. PICK i \in 1 .. Len(log) + 1 : Append(log, e)[i].state = "SUCCEEDED"
      BY <1>2, <1>3, <1>6, <2>2 DEF Logged
    <3>2. CASE i = Len(log) + 1
      BY <1>2, <2>2, <3>1, <3>2
    <3>3. CASE i # Len(log) + 1
      <4>1. i \in DOMAIN log /\ log[i].state = "SUCCEEDED"
        BY <1>2, <3>1, <3>3
      <4> QED
        BY <2>2, <4>1 DEF Logged, log
    <3> QED
      BY <3>2, <3>3
  <2> QED
    BY <2>1, <2>2
<1> QED
  BY <1>4, <1>5, <1>6

\* The effect of publishing a status event.
LEMMA EmitStatusEffect ==
  ASSUME TypeOK, NEW s \in Slots, NEW o \in Outcomes, NEW label \in Labels \ {"idle"},
         NEW state \in LifecycleStates, NEW attempt \in Nat,
         NEW terminal \in BOOLEAN,
         NEW next \in Labels \ {"idle", "register", "dlq_invalid", "ack"},
         next \in TryBlock \ {"run"} => label \in TryBlock \ {"run"},
         next \in {"ack_succeeded", "dlq_exhausted"} => terminal,
         state = "SUCCEEDED" => label = "emit_succeeded",
         EmitStatus(s, o, label, state, attempt, terminal, next)
  PROVE  HandlerEffect(s) /\ StoreEffect(s) /\ LogEffect(s)
<1>0. PICK j \in Jobs : j = handler[s].job
  BY DEF EmitStatus, TypeOK, HandlerState, IdleHandler, Labels
<1>9. PICK e \in Event : e = StatusEvent(state, attempt, terminal)
  BY DEF StatusEvent, Event
<1>1. /\ handler[s].pc = label /\ Proceed(s, o, next)
      /\ UNCHANGED <<inbox, delivered, consumer, row, results, returned>>
      /\ statusLog' = IF Happened(o)
                      THEN [statusLog EXCEPT ![j] = Append(@, e)]
                      ELSE statusLog
  BY <1>0, <1>9 DEF EmitStatus, queue, PublishStatus
<1>2. /\ \A t \in Slots \ {s} : handler'[t] = handler[t]
      /\ used'.rebinds = used.rebinds
      /\ \/ handler'[s] = IdleHandler
         \/ /\ handler'[s].job = j
            /\ \/ o = "ok" /\ handler'[s].pc = next
               \/ handler'[s].pc \in {"mark_terminal", "mark_retrying"}
  BY <1>0, <1>1, LabelAfter
<1>3. HandlerEffect(s)
  BY <1>0, <1>1, <1>2 DEF HandlerEffect, IdleHandler, TryBlock
<1>4. StoreEffect(s)
  BY <1>1, <1>2 DEF StoreEffect
<1>5. e.terminal = terminal /\ e.state = state
  BY <1>9 DEF StatusEvent
<1>6. ASSUME statusLog' = [statusLog EXCEPT ![j] = Append(@, e)]
      PROVE  LogEffect(s)
  <2>1. /\ \A k \in Jobs : Announced(k) => Announced(k)'
        /\ terminal => Announced(j)'
        /\ \A k \in Jobs : Logged(k, "SUCCEEDED")' =>
             Logged(k, "SUCCEEDED") \/ (k = j /\ state = "SUCCEEDED")
    BY <1>5, <1>6, LogAppended
  <2> QED
    BY <1>0, <1>1, <1>2, <2>1 DEF LogEffect, IdleHandler
<1>7. ASSUME statusLog' = statusLog, o # "ok"
      PROVE  LogEffect(s)
  <2>1. \A k \in Jobs :
          /\ Announced(k) => Announced(k)'
          /\ Logged(k, "SUCCEEDED")' => Logged(k, "SUCCEEDED")
    BY <1>7 DEF Announced, Logged
  <2>2. handler'[s].pc \in {"idle", "mark_terminal", "mark_retrying"}
    BY <1>2, <1>7 DEF IdleHandler
  <2> QED
    BY <1>1, <2>1, <2>2 DEF LogEffect
<1>8. o = "ok" => Happened(o)
  BY DEF Happened
<1>10. LogEffect(s)
  <2>1. CASE Happened(o)
    BY <1>1, <1>6, <2>1
  <2>2. CASE ~Happened(o)
    BY <1>1, <1>7, <1>8, <2>2
  <2> QED
    BY <2>1, <2>2
<1> QED
  BY <1>3, <1>4, <1>10

\* The effect of publishing a result event.
LEMMA PublishResultEffect ==
  ASSUME TypeOK, NEW s \in Slots, NEW o \in Outcomes,
         EmitCompleted(s, o) \/ EmitFailed(s, o)
  PROVE  HandlerEffect(s) /\ StoreEffect(s) /\ LogEffect(s)
<1> DEFINE next == IF handler[s].pc = "emit_completed" THEN "emit_succeeded"
                                                       ELSE "emit_failed_final"
<1>1. /\ handler[s].pc \in {"emit_completed", "emit_failed"}
      /\ Proceed(s, o, next)
      /\ UNCHANGED <<inbox, delivered, consumer, row, statusLog, returned>>
  BY DEF EmitCompleted, EmitFailed, PublishResult, queue
<1>2. next \in Labels
  BY DEF Labels, TryBlock
<1>3. /\ handler[s].job \in Jobs
      /\ \A t \in Slots \ {s} : handler'[t] = handler[t]
      /\ used'.rebinds = used.rebinds
      /\ \/ handler'[s] = IdleHandler
         \/ /\ handler'[s].job = handler[s].job
            /\ handler'[s].pc \in {next, "mark_terminal", "mark_retrying"}
  BY <1>1, <1>2, LabelAfter
<1>4. \A j \in Jobs : <<j, "completed">> \in results' =>
        \/ <<j, "completed">> \in results
        \/ handler[s].pc = "emit_completed" /\ handler[s].job = j
  BY DEF EmitCompleted, EmitFailed, PublishResult
<1>5. HandlerEffect(s)
  BY <1>1, <1>3 DEF HandlerEffect, IdleHandler, TryBlock
<1>6. StoreEffect(s)
  BY <1>1, <1>3 DEF StoreEffect
<1> QED
  BY <1>1, <1>3, <1>4, <1>5, <1>6
  DEF LogEffect, Announced, Logged, IdleHandler

\* The effect of a write to orchestrator_jobs.
LEMMA RowStepEffect ==
  ASSUME TypeOK, NEW s \in Slots, NEW o \in Outcomes,
         NEW next \in {"emit_pending", "ack", "emit_started", "emit_completed",
                       "emit_retrying", "emit_failed"},
         Proceed(s, o, next), UNCHANGED <<api, queue, events, returned>>,
         handler[s].pc # "idle",
         next = "ack" => /\ handler[s].pc = "register"
                         /\ row[handler[s].job].status # "absent",
         next = "emit_completed" => handler[s].pc = "mark_completed",
         \A j \in Jobs :
           /\ row[j].status # "absent" => row'[j].status # "absent"
           /\ row'[j].status # "absent" =>
                row[j].status # "absent" \/ Registering(s, j)
           /\ row'[j].status = "completed" =>
                \/ row[j].status = "completed"
                \/ handler[s].pc = "mark_completed" /\ handler[s].job = j
  PROVE  HandlerEffect(s) /\ StoreEffect(s) /\ LogEffect(s)
<1>1. next \in Labels /\ next # "idle"
  BY DEF Labels, TryBlock
<1>2. /\ handler[s].job \in Jobs
      /\ \A t \in Slots \ {s} : handler'[t] = handler[t]
      /\ used'.rebinds = used.rebinds
      /\ \/ handler'[s] = IdleHandler
         \/ /\ handler'[s].job = handler[s].job
            /\ handler'[s].pc \in {next, "mark_terminal", "mark_retrying"}
  BY <1>1, LabelAfter
<1>3. UNCHANGED <<inbox, delivered, consumer, statusLog, results, returned>>
  BY DEF queue, events
<1>4. HandlerEffect(s)
  BY <1>2, <1>3 DEF HandlerEffect, IdleHandler, TryBlock
<1>5. StoreEffect(s)
  BY <1>2, <1>3 DEF StoreEffect
<1> QED
  BY <1>2, <1>3, <1>4, <1>5 DEF LogEffect, Announced, Logged, IdleHandler

\* What every step of a handler does.
LEMMA StepEffect ==
  ASSUME TypeOK, NEW s \in Slots, Step(s)
  PROVE  HandlerEffect(s) /\ StoreEffect(s) /\ LogEffect(s)
<1> USE DEF Labels, TryBlock
<1> DEFINE Effect == HandlerEffect(s) /\ StoreEffect(s) /\ LogEffect(s)
<1>1. handler[s].pc # "idle" =>
        /\ handler[s] \in [pc : Labels \ {"idle"}, job : Jobs, attempt : Nat \ {0}]
        /\ handler[s].job \in Jobs
        /\ row \in [Jobs -> Row]
  BY DEF TypeOK, HandlerState, IdleHandler
<1>2. CASE RunReturns(s) \/ RunFails(s)
  <2>1. FailureLabel(handler[s].attempt) \in {"mark_terminal", "mark_retrying"}
    BY DEF FailureLabel
  <2>2. /\ handler[s].pc = "run"
        /\ UNCHANGED <<inbox, delivered, consumer, row, statusLog, results, used>>
        /\ returned \subseteq returned'
        /\ \A t \in Slots \ {s} : handler'[t] = handler[t]
        /\ handler'[s].job = handler[s].job
        /\ \/ handler'[s].pc \in {"mark_terminal", "mark_retrying"}
           \/ handler'[s].pc = "mark_completed" /\ handler[s].job \in returned'
    BY <1>1, <1>2, <2>1 DEF RunReturns, RunFails, TypeOK, queue, events
  <2> QED
    BY <1>1, <2>2 DEF HandlerEffect, StoreEffect, LogEffect, Announced, Logged
<1>3. ASSUME NEW o \in Outcomes, Register(s, o)
      PROVE  Effect
  <2> DEFINE next == IF row[handler[s].job].status = "absent"
                     THEN "emit_pending" ELSE "ack"
  <2>1. /\ handler[s].pc = "register" /\ Proceed(s, o, next)
        /\ UNCHANGED <<api, queue, events, returned>>
        /\ next \in {"emit_pending", "ack"}
        /\ next = "ack" => row[handler[s].job].status # "absent"
    BY <1>3 DEF Register
  <2>2. \A j \in Jobs :
          /\ row[j].status # "absent" => row'[j].status # "absent"
          /\ row'[j].status # "absent" =>
               row[j].status # "absent" \/ Registering(s, j)
          /\ row'[j].status = "completed" => row[j].status = "completed"
    BY <1>1, <1>3 DEF Register, Row, Registering
  <2> HIDE DEF next
  <2> QED
    BY <2>1, <2>2, RowStepEffect
<1>4. ASSUME NEW o \in Outcomes, NEW new \in Row,
             UpdateRow(handler[s].job, o, new), handler[s].pc # "idle",
             new.status # "absent",
             new.status = "completed" => handler[s].pc = "mark_completed"
      PROVE  \A j \in Jobs :
               /\ row[j].status # "absent" => row'[j].status # "absent"
               /\ row'[j].status # "absent" => row[j].status # "absent"
               /\ row'[j].status = "completed" =>
                    \/ row[j].status = "completed"
                    \/ handler[s].pc = "mark_completed" /\ handler[s].job = j
  BY <1>1, <1>4 DEF UpdateRow
<1>5. ASSUME NEW o \in Outcomes,
             \/ MarkProcessing(s, o) \/ MarkCompleted(s, o)
             \/ MarkRetrying(s, o) \/ MarkTerminal(s, o)
      PROVE  Effect
  <2> DEFINE j == handler[s].job
             r == row[j]
  <2>0. handler[s].pc # "idle" /\ r \in Row /\ handler[s].attempt \in Nat
    BY <1>1, <1>5 DEF MarkProcessing, MarkCompleted, MarkRetrying, MarkTerminal
  <2>1. CASE MarkProcessing(s, o)
    <3>1. [r EXCEPT !.status = "processing", !.attempt = handler[s].attempt] \in Row
      BY <2>0 DEF Row
    <3>2. [r EXCEPT !.status = "processing",
                    !.attempt = handler[s].attempt].status = "processing"
      BY <2>0 DEF Row
    <3> QED
      BY <1>4, <2>0, <2>1, <3>1, <3>2, RowStepEffect DEF MarkProcessing
  <2>2. CASE MarkCompleted(s, o)
    <3> DEFINE new == [r EXCEPT !.status = "completed", !.terminal = TRUE,
                                !.reason = "null"]
    <3>1. new \in Row /\ new.status = "completed"
      BY <2>0 DEF Row
    <3> QED
      BY <1>4, <2>0, <2>2, <3>1, RowStepEffect DEF MarkCompleted
  <2>3. CASE MarkRetrying(s, o)
    <3> DEFINE new == [r EXCEPT !.status = "failed", !.terminal = FALSE,
                                !.reason = "null"]
    <3>1. new \in Row /\ new.status = "failed"
      BY <2>0 DEF Row
    <3> QED
      BY <1>4, <2>0, <2>3, <3>1, RowStepEffect DEF MarkRetrying
  <2>4. CASE MarkTerminal(s, o)
    <3> DEFINE new == [r EXCEPT !.status = "failed", !.terminal = TRUE,
                                !.reason = "max-attempts"]
    <3>1. new \in Row /\ new.status = "failed"
      BY <2>0 DEF Row
    <3> QED
      BY <1>4, <2>0, <2>4, <3>1, RowStepEffect DEF MarkTerminal
  <2> QED
    BY <1>5, <2>1, <2>2, <2>3, <2>4
<1>6. ASSUME NEW o \in Outcomes,
             \/ EmitPending(s, o) \/ EmitStarted(s, o) \/ EmitSucceeded(s, o)
             \/ EmitRetrying(s, o) \/ EmitFailedFinal(s, o)
      PROVE  Effect
  <2>1. handler[s].pc # "idle"
    BY <1>6 DEF EmitPending, EmitStarted, EmitSucceeded, EmitRetrying,
                EmitFailedFinal, EmitStatus
  <2>2. PICK n \in Nat : n = handler[s].attempt /\ n - 1 \in Nat
    <3>1. handler[s].attempt \in Nat \ {0}
      BY <1>1, <2>1
    <3> QED
      BY <3>1
  <2>3. PICK no \in BOOLEAN : no = FALSE
    OBVIOUS
  <2>4. CASE EmitPending(s, o)
    <3>1. EmitStatus(s, o, "emit_pending", "ENQUEUED_OR_PENDING", n - 1,
                    no, "mark_processing")
      BY <2>2, <2>4, <2>3 DEF EmitPending
    <3> QED
      BY <2>2, <2>3, <3>1, EmitStatusEffect DEF LifecycleStates
  <2>5. CASE EmitStarted(s, o)
    <3>1. EmitStatus(s, o, "emit_started", "STARTED", n, no, "run")
      BY <2>2, <2>5, <2>3 DEF EmitStarted
    <3>2. /\ "run" \notin TryBlock \ {"run"}
          /\ "run" \notin {"ack_succeeded", "dlq_exhausted"}
      OBVIOUS
    <3> QED
      BY <2>2, <2>3, <3>1, <3>2, EmitStatusEffect DEF LifecycleStates
  <2>6. CASE EmitSucceeded(s, o)
    BY <2>2, <2>6, EmitStatusEffect DEF EmitSucceeded, LifecycleStates
  <2>7. CASE EmitRetrying(s, o)
    <3>1. EmitStatus(s, o, "emit_retrying", "RETRYING", n, no, "nak")
      BY <2>2, <2>7, <2>3 DEF EmitRetrying
    <3> QED
      BY <2>2, <2>3, <3>1, EmitStatusEffect DEF LifecycleStates
  <2>8. CASE EmitFailedFinal(s, o)
    BY <2>2, <2>8, EmitStatusEffect DEF EmitFailedFinal, LifecycleStates
  <2> QED
    BY <1>6, <2>4, <2>5, <2>6, <2>7, <2>8
<1>7. ASSUME NEW o \in Outcomes, EmitCompleted(s, o) \/ EmitFailed(s, o)
      PROVE  Effect
  BY <1>7, PublishResultEffect
<1>8. ASSUME NEW o \in Outcomes, Ack(s, o) \/ Nak(s, o)
      PROVE  Effect
  <2>1. /\ handler[s].pc \in {"ack", "ack_succeeded", "nak"}
        /\ Proceed(s, o, "idle")
        /\ UNCHANGED <<inbox, delivered, row, statusLog, results, returned>>
    BY <1>8 DEF Ack, Nak, events
  <2>2. /\ handler[s].job \in Jobs
        /\ \A t \in Slots \ {s} : handler'[t] = handler[t]
        /\ used'.rebinds = used.rebinds
        /\ \/ handler'[s] = IdleHandler
           \/ /\ handler'[s].job = handler[s].job
              /\ handler'[s].pc \in {"mark_terminal", "mark_retrying"}
    BY <2>1, LabelAfter
  <2>3. \A j \in Jobs : consumer'[j] = "acked" =>
          \/ consumer[j] = "acked"
          \/ handler[s].pc \in {"ack", "ack_succeeded"} /\ handler[s].job = j
    BY <1>8, <2>2 DEF Ack, Nak, AckMessage, NakMessage, TypeOK
  <2>4. HandlerEffect(s)
    BY <2>1, <2>2 DEF HandlerEffect, IdleHandler
  <2>5. StoreEffect(s)
    BY <2>1, <2>2, <2>3 DEF StoreEffect
  <2> QED
    BY <2>1, <2>2, <2>4, <2>5 DEF LogEffect, Announced, Logged, IdleHandler
<1>9. ASSUME NEW o \in Outcomes, EmitDlq(s, o)
      PROVE  Effect
  <2>1. /\ handler[s].pc \in {"dlq_invalid", "dlq_exhausted"}
        /\ UNCHANGED <<inbox, delivered, consumer, row, statusLog, results,
                       returned>>
        /\ used'.rebinds = used.rebinds
    BY <1>9, ChargeType DEF EmitDlq, queue
  <2>2. /\ handler'[s].pc = "ack" /\ handler'[s].job = handler[s].job
        /\ \A t \in Slots \ {s} : handler'[t] = handler[t]
    BY <1>1, <1>9, <2>1 DEF EmitDlq, TypeOK
  <2>3. HandlerEffect(s)
    BY <1>1, <2>1, <2>2 DEF HandlerEffect
  <2>4. StoreEffect(s)
    BY <2>1, <2>2 DEF StoreEffect
  <2> QED
    BY <2>1, <2>2, <2>3, <2>4 DEF LogEffect, Announced, Logged
<1> QED
  BY <1>2, <1>3, <1>5, <1>6, <1>7, <1>8, <1>9 DEF Step, Call
-----------------------------------------------------------------------------
(* What the API, the queue and the worker process do to the same state.    *)

EnvironmentStep == \/ \E j \in Jobs : Enqueue(j) \/ Deliver(j) \/ AckWaitExpires(j)
                   \/ \E s \in Slots : Receive(s)
                   \/ Crash \/ Rebind

\* A handler starts at its first label or goes with the worker's memory.
StartEffect ==
  \/ handler' = handler
  \/ \A s \in Slots : handler'[s] = IdleHandler
  \/ \E s \in Slots :
       /\ inbox # <<>>
       /\ \A t \in Slots \ {s} : handler'[t] = handler[t]
       /\ handler'[s] = [pc |-> FirstLabel(Head(inbox)), job |-> Head(inbox).job,
                         attempt |-> Head(inbox).attempt]

EnvironmentEffect ==
  /\ StartEffect
  /\ UNCHANGED <<row, results, returned>>
  /\ used'.rebinds \in Nat /\ used'.rebinds >= used.rebinds
  /\ \A j \in Jobs :
       /\ Announced(j) => Announced(j)'
       /\ Logged(j, "SUCCEEDED")' => Logged(j, "SUCCEEDED")
       /\ consumer'[j] = "acked" => consumer[j] = "acked"

LEMMA EnvironmentStepEffect ==
  ASSUME TypeOK, EnvironmentStep
  PROVE  EnvironmentEffect
<1>1. used.rebinds \in Nat
  BY BoundAssumption DEF TypeOK
<1>2. ASSUME UNCHANGED statusLog
      PROVE  \A j \in Jobs : /\ Announced(j) => Announced(j)'
                             /\ Logged(j, "SUCCEEDED")' => Logged(j, "SUCCEEDED")
  BY <1>2 DEF Announced, Logged
<1>3. ASSUME NEW j \in Jobs, NEW o \in Outcomes, EnqueueRequest(j, o)
      PROVE  EnvironmentEffect
  <2>1. /\ UNCHANGED <<handler, row, statusLog, results, returned>>
        /\ used'.rebinds = used.rebinds
    BY <1>3, ChargeType DEF EnqueueRequest, events
  <2>2. \A k \in Jobs : consumer'[k] = "acked" => consumer[k] = "acked"
    BY <1>3 DEF EnqueueRequest, PublishRequest, TypeOK
  <2> QED
    BY <1>1, <1>2, <2>1, <2>2 DEF EnvironmentEffect, StartEffect
<1>4. ASSUME NEW j \in Jobs, NEW o \in Outcomes, EnqueueEvent(j, o)
      PROVE  EnvironmentEffect
  <2>1. /\ UNCHANGED <<consumer, handler, row, results, returned>>
        /\ used'.rebinds = used.rebinds
    BY <1>4, ChargeType DEF EnqueueEvent, queue
  <2>2. PICK e \in Event : e = StatusEvent("ENQUEUED_OR_PENDING", 0, FALSE)
    BY DEF StatusEvent, Event, LifecycleStates
  <2>3. e.state # "SUCCEEDED"
    BY <2>2 DEF StatusEvent
  <2>4. \A k \in Jobs : /\ Announced(k) => Announced(k)'
                        /\ Logged(k, "SUCCEEDED")' => Logged(k, "SUCCEEDED")
    <3>1. CASE statusLog' = statusLog
      BY <1>2, <3>1
    <3>2. CASE statusLog' = [statusLog EXCEPT ![j] = Append(@, e)]
      BY <2>3, <3>2, LogAppended
    <3> QED
      BY <1>4, <2>2, <3>1, <3>2 DEF EnqueueEvent, PublishStatus
  <2> QED
    BY <1>1, <2>1, <2>4 DEF EnvironmentEffect, StartEffect
<1>5. ASSUME NEW j \in Jobs, ForeignRequest(j) \/ Deliver(j) \/ AckWaitExpires(j)
      PROVE  EnvironmentEffect
  <2>1. /\ UNCHANGED <<handler, row, statusLog, results, returned>>
        /\ used'.rebinds = used.rebinds
    BY <1>5 DEF ForeignRequest, Deliver, AckWaitExpires, events, TypeOK
  <2>2. \A k \in Jobs : consumer'[k] = "acked" => consumer[k] = "acked"
    BY <1>5 DEF ForeignRequest, Deliver, AckWaitExpires, PublishRequest, TypeOK
  <2> QED
    BY <1>1, <1>2, <2>1, <2>2 DEF EnvironmentEffect, StartEffect
<1>6. ASSUME NEW s \in Slots, Receive(s)
      PROVE  EnvironmentEffect
  <2>1. UNCHANGED <<consumer, row, statusLog, results, returned, used>>
    BY <1>6 DEF Receive, events
  <2>2. StartEffect
    BY <1>6 DEF Receive, StartEffect, TypeOK
  <2> QED
    BY <1>1, <1>2, <2>1, <2>2 DEF EnvironmentEffect
<1>7. CASE Crash \/ Rebind
  <2>1. /\ UNCHANGED <<row, statusLog, results, returned>>
        /\ used'.rebinds \in {used.rebinds, used.rebinds + 1}
    BY <1>7 DEF Crash, Rebind, events, TypeOK
  <2>2. \A k \in Jobs : consumer'[k] = "acked" => consumer[k] = "acked"
    BY <1>7 DEF Crash, Rebind, TypeOK
  <2>3. StartEffect
    BY <1>7 DEF Crash, Rebind, LoseWorkerMemory, StartEffect
  <2> QED
    BY <1>1, <1>2, <2>1, <2>2, <2>3 DEF EnvironmentEffect
<1> QED
  BY <1>3, <1>4, <1>5, <1>6, <1>7 DEF EnvironmentStep, Enqueue
-----------------------------------------------------------------------------
LEMMA SuccessInvInit == Init => SuccessInv
BY DEF Init, SuccessInv, SuccessMeansRan, Logged, AbsentRow, IdleHandler, TryBlock

LEMMA SuccessInvNext ==
  ASSUME TypeOK, SuccessInv, [Next]_vars
  PROVE  SuccessInv'
<1>1. ASSUME NEW s \in Slots, Step(s)
      PROVE  SuccessInv'
  <2>1. HandlerEffect(s) /\ StoreEffect(s) /\ LogEffect(s)
    BY <1>1, StepEffect
  <2>2. handler[s].pc \in {"mark_completed", "emit_completed", "emit_succeeded"}
          => handler[s].job \in returned'
    BY <2>1 DEF SuccessInv, HandlerEffect, TryBlock
  <2>3. SuccessMeansRan'
    BY <2>1, <2>2
    DEF SuccessInv, SuccessMeansRan, HandlerEffect, StoreEffect, LogEffect
  <2>4. ASSUME NEW t \in Slots, handler'[t].pc \in TryBlock \ {"run"}
        PROVE  handler'[t].job \in returned'
    <3>1. CASE t = s
      BY <2>1, <2>4, <3>1 DEF SuccessInv, HandlerEffect, IdleHandler, TryBlock
    <3>2. CASE t # s
      BY <2>1, <2>4, <3>2 DEF SuccessInv, HandlerEffect
    <3> QED
      BY <3>1, <3>2
  <2> QED
    BY <2>3, <2>4 DEF SuccessInv
<1>2. CASE EnvironmentStep
  <2>1. EnvironmentEffect
    BY <1>2, EnvironmentStepEffect
  <2>2. SuccessMeansRan'
    BY <2>1 DEF EnvironmentEffect, SuccessInv, SuccessMeansRan
  <2>3. \A d : FirstLabel(d) \notin TryBlock
    BY DEF FirstLabel, TryBlock
  <2>4. \A t \in Slots : handler'[t].pc \in TryBlock \ {"run"} =>
                           handler'[t].job \in returned'
    BY <2>1, <2>3
    DEF EnvironmentEffect, StartEffect, SuccessInv, IdleHandler, TryBlock
  <2> QED
    BY <2>2, <2>4 DEF SuccessInv
<1>3. CASE UNCHANGED vars
  BY <1>3 DEF SuccessInv, SuccessMeansRan, Logged, vars, api, queue, events
<1> QED
  BY <1>1, <1>2, <1>3 DEF Next, EnvironmentStep

\* Nobody is told a success that did not happen: a completed row, a SUCCEEDED
\* event and a "completed" result event all follow a run of the script that
\* exited with status 0, under any faults, crashes, early ack timeouts and
\* consumer replacements.
THEOREM SuccessReported == Spec => []SuccessMeansRan
<1>1. Init => TypeOK /\ SuccessInv
  BY TypeInit, SuccessInvInit
<1>2. TypeOK /\ SuccessInv /\ [Next]_vars => SuccessInv'
  BY SuccessInvNext
<1>3. SuccessInv => SuccessMeansRan
  BY DEF SuccessInv
<1> QED
  BY <1>1, <1>2, <1>3, TypeCorrect, PTL DEF Spec
-----------------------------------------------------------------------------
(* A settled request has announced its end.                                *)

LEMMA AckInvInit == Init => AckInv
<1> SUFFICES ASSUME Init PROVE AckInv
  OBVIOUS
<1>1. AckedIsAnnounced /\ \A s \in Slots : AckIsDue(s)
  BY DEF Init, AckedIsAnnounced, AckIsDue, IdleHandler, ValidJobs
<1>2. DOMAIN inbox = {}
  BY LenProperties, EmptySeq DEF Init
<1>3. \A j \in Jobs : FirstDeliveryIsUnique(j)
  BY <1>2 DEF Init, FirstDeliveryIsUnique, Registering, AbsentRow, IdleHandler
<1> QED
  BY <1>1, <1>3 DEF AckInv

\* The reasons for an ack stay true.
LEMMA SettledStays ==
  ASSUME TypeOK, NEW j \in Jobs, Announced(j) => Announced(j)',
         used'.rebinds \in Nat, used'.rebinds >= used.rebinds,
         row[j].status # "absent" => row'[j].status # "absent"
  PROVE  Settled(j) => Settled(j)'
<1>1. used.rebinds \in Nat
  BY BoundAssumption DEF TypeOK
<1> QED
  BY <1>1 DEF Settled

\* The first delivery stays unique when a handler moves on.
LEMMA FirstDeliveryStep ==
  ASSUME TypeOK, NEW s \in Slots, HandlerEffect(s), StoreEffect(s),
         NEW j \in Jobs, FirstDeliveryIsUnique(j)
  PROVE  FirstDeliveryIsUnique(j)'
<1>1. \A t \in Slots : Registering(t, j)' => t # s /\ Registering(t, j)
  BY DEF HandlerEffect, Registering, IdleHandler
<1>2. row'[j].status # "absent" => row[j].status # "absent" \/ Registering(s, j)
  BY DEF StoreEffect
<1>3. inbox' = inbox /\ delivered' = delivered
  BY DEF StoreEffect
<1> QED
  BY <1>1, <1>2, <1>3 DEF FirstDeliveryIsUnique

\* And when a delivery is put into the inbox or taken out of it.
LEMMA FirstDeliveryDeliver ==
  ASSUME TypeOK, NEW k \in Jobs, Deliver(k),
         NEW j \in Jobs, FirstDeliveryIsUnique(j)
  PROVE  FirstDeliveryIsUnique(j)'
<1> DEFINE d == [job |-> k, attempt |-> delivered[k] + 1]
           n == Len(inbox)
<1>1. /\ d \in Delivery /\ inbox \in Seq(Delivery) /\ delivered[k] \in Nat
      /\ n \in Nat /\ DOMAIN inbox = 1 .. n
  BY LenProperties DEF TypeOK, Delivery
<1>2. inbox' = Append(inbox, d) /\ UNCHANGED <<handler, row>>
  BY DEF Deliver
<1>3. /\ DOMAIN inbox' = 1 .. n + 1
      /\ \A i \in 1 .. n : inbox'[i] = inbox[i]
      /\ inbox'[n + 1] = d
  BY <1>1, <1>2, AppendProperties
<1>4. delivered'[j] = 0 => j # k /\ delivered[j] = 0
  BY <1>1 DEF Deliver, TypeOK
<1>5. d = [job |-> j, attempt |-> 1] => j = k /\ delivered[j] = 0
  BY <1>1
<1>6. \A t \in Slots : Registering(t, j)' <=> Registering(t, j)
  BY <1>2 DEF Registering
<1>7. d.job = k
  OBVIOUS
<1> HIDE DEF d, n
<1>8. \A i \in DOMAIN inbox' : i \in DOMAIN inbox \/ i = n + 1
  BY <1>1, <1>3
<1>9. delivered'[j] = 0 =>
        /\ row'[j].status = "absent"
        /\ \A i \in DOMAIN inbox' : inbox'[i].job # j
        /\ \A t \in Slots : ~Registering(t, j)'
  BY <1>1, <1>2, <1>3, <1>4, <1>6, <1>7, <1>8 DEF FirstDeliveryIsUnique
<1>10. ASSUME NEW i \in DOMAIN inbox', inbox'[i] = [job |-> j, attempt |-> 1]
       PROVE  /\ row'[j].status = "absent"
              /\ \A t \in Slots : ~Registering(t, j)'
              /\ \A l \in DOMAIN inbox' : inbox'[l] = inbox'[i] => l = i
  <2>1. CASE i = n + 1
    <3>1. j = k /\ delivered[j] = 0
      BY <1>3, <1>5, <1>10, <2>1
    <3>2. \A l \in DOMAIN inbox : inbox[l].job # j
      BY <3>1 DEF FirstDeliveryIsUnique
    <3> QED
      BY <1>1, <1>2, <1>3, <1>6, <1>7, <1>8, <2>1, <3>1, <3>2
      DEF FirstDeliveryIsUnique
  <2>2. CASE i # n + 1
    <3>1. i \in DOMAIN inbox /\ inbox[i] = [job |-> j, attempt |-> 1]
      BY <1>1, <1>3, <1>8, <1>10, <2>2
    <3>2. delivered[j] # 0
      BY <3>1 DEF FirstDeliveryIsUnique
    <3>3. d # [job |-> j, attempt |-> 1]
      BY <1>5, <3>2
    <3> QED
      BY <1>1, <1>2, <1>3, <1>6, <1>8, <1>10, <2>2, <3>1, <3>3
      DEF FirstDeliveryIsUnique
  <2> QED
    BY <2>1, <2>2
<1>11. \A t \in Slots : Registering(t, j)' =>
         /\ row'[j].status = "absent"
         /\ \A u \in Slots : Registering(u, j)' => u = t
  BY <1>2, <1>6 DEF FirstDeliveryIsUnique
<1> QED
  BY <1>9, <1>10, <1>11 DEF FirstDeliveryIsUnique

LEMMA FirstDeliveryReceive ==
  ASSUME TypeOK, NEW s \in Slots, Receive(s),
         NEW j \in Jobs, FirstDeliveryIsUnique(j)
  PROVE  FirstDeliveryIsUnique(j)'
<1> DEFINE d == Head(inbox)
           n == Len(inbox)
<1>1. /\ inbox \in Seq(Delivery) /\ inbox # <<>> /\ n \in Nat /\ n >= 1
      /\ DOMAIN inbox = 1 .. n
      /\ d = inbox[1] /\ d \in Delivery
  BY LenProperties, HeadTailProperties, EmptySeq DEF Receive, TypeOK
<1>2. /\ DOMAIN inbox' = 1 .. n - 1
      /\ \A i \in 1 .. n - 1 : inbox'[i] = inbox[i + 1]
  BY <1>1, HeadTailProperties DEF Receive
<1>3. /\ UNCHANGED <<delivered, row>>
      /\ handler[s].pc = "idle"
      /\ \A t \in Slots \ {s} : handler'[t] = handler[t]
      /\ handler'[s].pc = FirstLabel(d) /\ handler'[s].job = d.job
  BY DEF Receive, TypeOK
<1> HIDE DEF d, n
<1>4. FirstLabel(d) = "register" => d.attempt = 1
  BY DEF FirstLabel
<1>5. d.attempt = 1 /\ d.job = j => d = [job |-> j, attempt |-> 1]
  BY <1>1 DEF Delivery
<1>6. \A i \in DOMAIN inbox' : i + 1 \in DOMAIN inbox /\ i + 1 # 1
                              /\ inbox'[i] = inbox[i + 1]
  BY <1>1, <1>2
<1>7. Registering(s, j)' => inbox[1] = [job |-> j, attempt |-> 1]
  BY <1>1, <1>3, <1>4, <1>5 DEF Registering
<1>8. \A t \in Slots : Registering(t, j)' => t = s \/ Registering(t, j)
  BY <1>3 DEF Registering
<1>9. 1 \in DOMAIN inbox
  BY <1>1
<1>10. delivered'[j] = 0 =>
         /\ row'[j].status = "absent"
         /\ \A i \in DOMAIN inbox' : inbox'[i].job # j
         /\ \A t \in Slots : ~Registering(t, j)'
  <2> SUFFICES ASSUME delivered'[j] = 0
               PROVE  /\ row'[j].status = "absent"
                      /\ \A i \in DOMAIN inbox' : inbox'[i].job # j
                      /\ \A t \in Slots : ~Registering(t, j)'
    OBVIOUS
  <2>1. /\ row[j].status = "absent"
        /\ \A i \in DOMAIN inbox : inbox[i].job # j
        /\ \A t \in Slots : ~Registering(t, j)
    BY <1>3 DEF FirstDeliveryIsUnique
  <2>2. ~Registering(s, j)'
    BY <1>7, <1>9, <2>1
  <2> QED
    BY <1>3, <1>6, <1>8, <2>1, <2>2
<1>11. ASSUME NEW i \in DOMAIN inbox', inbox'[i] = [job |-> j, attempt |-> 1]
       PROVE  /\ row'[j].status = "absent"
              /\ \A t \in Slots : ~Registering(t, j)'
              /\ \A l \in DOMAIN inbox' : inbox'[l] = inbox'[i] => l = i
  <2>1. i + 1 \in DOMAIN inbox /\ inbox[i + 1] = [job |-> j, attempt |-> 1]
    BY <1>6, <1>11
  <2>2. /\ row[j].status = "absent"
        /\ \A t \in Slots : ~Registering(t, j)
        /\ \A l \in DOMAIN inbox : inbox[l] = inbox[i + 1] => l = i + 1
    BY <2>1 DEF FirstDeliveryIsUnique
  <2>3. ~Registering(s, j)'
    BY <1>6, <1>7, <1>9, <2>1, <2>2
  <2>4. \A l \in DOMAIN inbox' : inbox'[l] = inbox'[i] => l = i
    BY <1>1, <1>2, <1>6, <2>2
  <2> QED
    BY <1>3, <1>8, <2>2, <2>3, <2>4
<1>12. ASSUME NEW t \in Slots, Registering(t, j)'
       PROVE  /\ row'[j].status = "absent"
              /\ \A u \in Slots : Registering(u, j)' => u = t
  <2>1. CASE Registering(s, j)'
    <3>1. /\ row[j].status = "absent"
          /\ \A u \in Slots : ~Registering(u, j)
      BY <1>7, <1>9, <2>1 DEF FirstDeliveryIsUnique
    <3> QED
      BY <1>3, <1>8, <1>12, <3>1
  <2>2. CASE ~Registering(s, j)'
    BY <1>3, <1>8, <1>12, <2>2 DEF FirstDeliveryIsUnique
  <2> QED
    BY <2>1, <2>2
<1> QED
  BY <1>10, <1>11, <1>12 DEF FirstDeliveryIsUnique

LEMMA AckInvNext ==
  ASSUME TypeOK, AckInv, [Next]_vars
  PROVE  AckInv'
<1> USE BoundAssumption
<1>1. used.rebinds \in Nat
  BY DEF TypeOK
<1>2. ASSUME NEW s \in Slots, Step(s)
      PROVE  AckInv'
  <2>1. HandlerEffect(s) /\ StoreEffect(s) /\ LogEffect(s)
    BY <1>2, StepEffect
  <2>2. PICK h \in Jobs : h = handler[s].job
    BY <2>1 DEF HandlerEffect
  <2>3. \A j \in Jobs : Settled(j) => Settled(j)'
    <3>1. used'.rebinds \in Nat /\ used'.rebinds >= used.rebinds
      BY <1>1, <2>1 DEF StoreEffect
    <3>2. \A j \in Jobs :
            /\ Announced(j) => Announced(j)'
            /\ row[j].status # "absent" => row'[j].status # "absent"
      BY <2>1 DEF StoreEffect, LogEffect
    <3> QED
      BY <3>1, <3>2, SettledStays
  <2>4. /\ handler[s].pc = "ack_succeeded" /\ h \in ValidJobs => Announced(h)'
        /\ handler[s].pc = "dlq_exhausted" /\ h \in ValidJobs => Announced(h)'
        /\ handler[s].pc = "ack" /\ h \in ValidJobs => Settled(h)'
        /\ handler[s].pc = "dlq_invalid" => h \notin ValidJobs
    BY <2>1, <2>2, <2>3 DEF AckInv, AckIsDue, LogEffect
  <2>5. \A j \in Jobs : Announced(j)' => Settled(j)'
    BY DEF Settled
  <2>6. AckedIsAnnounced'
    <3> SUFFICES ASSUME NEW j \in ValidJobs, consumer'[j] = "acked"
                 PROVE  Settled(j)'
      BY DEF AckedIsAnnounced, Settled
    <3>1. j \in Jobs
      BY DEF ValidJobs
    <3>2. CASE consumer[j] = "acked"
      BY <2>3, <3>1, <3>2 DEF AckInv, AckedIsAnnounced, Settled
    <3>3. CASE handler[s].pc \in {"ack", "ack_succeeded"} /\ h = j
      BY <2>4, <2>5, <3>1, <3>3
    <3> QED
      BY <2>1, <2>2, <3>1, <3>2, <3>3 DEF StoreEffect
  <2>7. ASSUME NEW t \in Slots
        PROVE  AckIsDue(t)'
    <3>1. CASE t # s
      <4>1. handler'[t] = handler[t]
        BY <2>1, <3>1 DEF HandlerEffect
      <4>2. PICK k : k = handler[t].job
        OBVIOUS
      <4>3. k \in ValidJobs => k \in Jobs
        BY DEF ValidJobs
      <4>4. k \in ValidJobs =>
              /\ handler'[t].pc # "dlq_invalid"
              /\ handler'[t].pc \in {"ack_succeeded", "dlq_exhausted"} =>
                   Announced(k)'
              /\ handler'[t].pc = "ack" => Settled(k)'
        BY <2>1, <2>3, <4>1, <4>2, <4>3 DEF AckInv, AckIsDue, LogEffect
      <4> QED
        BY <4>1, <4>2, <4>4 DEF AckIsDue
    <3>2. CASE t = s /\ handler'[s] = IdleHandler
      BY <3>2 DEF AckIsDue, IdleHandler
    <3>3. CASE t = s /\ handler'[s] # IdleHandler
      <4>1. handler'[s].job = h /\ handler'[s].pc # "dlq_invalid"
        BY <2>1, <2>2, <3>3 DEF HandlerEffect
      <4>2. handler'[s].pc \in {"ack_succeeded", "dlq_exhausted"} => Announced(h)'
        BY <2>1, <2>2 DEF LogEffect
      <4>3. handler'[s].pc = "ack" /\ h \in ValidJobs => Settled(h)'
        <5>1. CASE handler[s].pc \in {"dlq_invalid", "dlq_exhausted"}
          BY <2>4, <2>5, <5>1
        <5>2. CASE handler[s].pc = "register" /\ row[h].status # "absent"
          <6>1. Registering(s, h)
            BY <2>2, <5>2 DEF Registering
          <6>2. used.rebinds # 0
            BY <5>2, <6>1 DEF AckInv, FirstDeliveryIsUnique
          <6>3. Settled(h)
            BY <1>1, <5>2, <6>2 DEF Settled
          <6> QED
            BY <2>3, <6>3
        <5> QED
          BY <2>1, <2>2, <5>1, <5>2 DEF HandlerEffect
      <4> QED
        BY <3>3, <4>1, <4>2, <4>3 DEF AckIsDue
    <3> QED
      BY <3>1, <3>2, <3>3
  <2>8. used'.rebinds = 0 => \A j \in Jobs : FirstDeliveryIsUnique(j)'
    BY <2>1, FirstDeliveryStep DEF AckInv, StoreEffect
  <2> QED
    BY <2>6, <2>7, <2>8 DEF AckInv
<1>3. CASE EnvironmentStep
  <2>1. EnvironmentEffect
    BY <1>3, EnvironmentStepEffect
  <2>2. \A j \in Jobs : Settled(j) => Settled(j)'
    BY <2>1, SettledStays DEF EnvironmentEffect
  <2>3. AckedIsAnnounced'
    BY <2>1, <2>2 DEF AckInv, AckedIsAnnounced, EnvironmentEffect, Settled, ValidJobs
  <2>4. ASSUME NEW t \in Slots
        PROVE  AckIsDue(t)'
    <3>1. CASE handler'[t] = handler[t]
      <4>1. PICK k : k = handler[t].job
        OBVIOUS
      <4>2. k \in ValidJobs => k \in Jobs
        BY DEF ValidJobs
      <4>3. k \in ValidJobs =>
              /\ handler'[t].pc # "dlq_invalid"
              /\ handler'[t].pc \in {"ack_succeeded", "dlq_exhausted"} =>
                   Announced(k)'
              /\ handler'[t].pc = "ack" => Settled(k)'
        BY <2>1, <2>2, <3>1, <4>1, <4>2 DEF AckInv, AckIsDue, EnvironmentEffect
      <4> QED
        BY <3>1, <4>1, <4>3 DEF AckIsDue
    <3>2. CASE handler'[t] = IdleHandler
      BY <3>2 DEF AckIsDue, IdleHandler
    <3>3. CASE handler'[t].pc = FirstLabel(Head(inbox))
               /\ handler'[t].job = Head(inbox).job
      <4>1. FirstLabel(Head(inbox)) \notin {"ack", "ack_succeeded", "dlq_exhausted"}
        BY DEF FirstLabel
      <4>2. Head(inbox).job \in ValidJobs => FirstLabel(Head(inbox)) # "dlq_invalid"
        BY DEF FirstLabel, ValidJobs
      <4> QED
        BY <3>3, <4>1, <4>2 DEF AckIsDue
    <3> QED
      BY <2>1, <3>1, <3>2, <3>3 DEF EnvironmentEffect, StartEffect
  <2>5. ASSUME used'.rebinds = 0, NEW j \in Jobs
        PROVE  FirstDeliveryIsUnique(j)'
    <3>1. used.rebinds = 0 /\ FirstDeliveryIsUnique(j)
      BY <1>1, <2>1, <2>5 DEF EnvironmentEffect, AckInv
    <3>2. CASE \E k \in Jobs : Enqueue(k) \/ AckWaitExpires(k)
      <4>1. UNCHANGED <<delivered, inbox, handler, row>>
        BY <3>2 DEF Enqueue, AckWaitExpires, EnqueueRequest, EnqueueEvent,
                    ForeignRequest, queue
      <4> QED
        BY <3>1, <4>1 DEF FirstDeliveryIsUnique, Registering
    <3>3. CASE \E k \in Jobs : Deliver(k)
      BY <3>1, <3>3, FirstDeliveryDeliver
    <3>4. CASE \E s \in Slots : Receive(s)
      BY <3>1, <3>4, FirstDeliveryReceive
    <3>5. CASE Crash
      <4>1. /\ UNCHANGED <<delivered, row>>
            /\ inbox' = <<>>
            /\ \A s \in Slots : ~Registering(s, j)'
        BY <3>5 DEF Crash, LoseWorkerMemory, Registering, IdleHandler
      <4>2. DOMAIN inbox' = {}
        BY <4>1, LenProperties, EmptySeq
      <4> QED
        BY <3>1, <4>1, <4>2 DEF FirstDeliveryIsUnique
    <3>6. CASE Rebind
      <4>1. used'.rebinds = used.rebinds + 1
        BY <3>6 DEF Rebind, TypeOK
      <4> QED
        BY <2>5, <3>1, <4>1
    <3> QED
      BY <1>3, <3>2, <3>3, <3>4, <3>5, <3>6 DEF EnvironmentStep
  <2> QED
    BY <2>3, <2>4, <2>5 DEF AckInv
<1>4. CASE UNCHANGED vars
  BY <1>4 DEF AckInv, AckedIsAnnounced, AckIsDue, Settled, Announced,
              FirstDeliveryIsUnique, Registering, vars, api, queue, events
<1> QED
  BY <1>2, <1>3, <1>4 DEF Next, EnvironmentStep

\* Nothing a handler is about to ack, and no first delivery, breaks the order
\* the worker relies on: the inductive invariant behind the next theorem, and
\* one that holds of the running system in its own right.
THEOREM AckIsAlwaysDue == Spec => []AckInv
<1>1. Init => TypeOK /\ AckInv
  BY TypeInit, AckInvInit
<1>2. TypeOK /\ AckInv /\ [Next]_vars => AckInv'
  BY AckInvNext
<1> QED
  BY <1>1, <1>2, TypeCorrect, PTL DEF Spec

\* No valid request is settled in silence: while the durable consumer is kept,
\* an acked message has a terminal event in its log, whatever is lost, retried,
\* redelivered or handled twice at the same time.
THEOREM AckAnnounced == Spec => []AckedIsAnnounced
<1>1. AckInv => AckedIsAnnounced
  BY DEF AckInv
<1> QED
  BY <1>1, AckIsAlwaysDue, PTL
-----------------------------------------------------------------------------
(* What a step of a handler does to the handler itself, the log, the row,  *)
(* the queue and the published results.                                    *)

Busy == [pc : Labels \ {"idle"}, job : Jobs, attempt : Nat \ {0}]

\* The call a handler makes after one that returned.
Onward ==
  {<<"register", "emit_pending">>, <<"register", "ack">>,
   <<"emit_pending", "mark_processing">>, <<"mark_processing", "emit_started">>,
   <<"emit_started", "run">>, <<"run", "mark_completed">>,
   <<"mark_completed", "emit_completed">>, <<"emit_completed", "emit_succeeded">>,
   <<"emit_succeeded", "ack_succeeded">>,
   <<"mark_retrying", "emit_retrying">>, <<"emit_retrying", "nak">>,
   <<"mark_terminal", "emit_failed">>, <<"emit_failed", "emit_failed_final">>,
   <<"emit_failed_final", "dlq_exhausted">>,
   <<"dlq_exhausted", "ack">>, <<"dlq_invalid", "ack">>}

GoesOn(s) == handler[s].pc # "idle" /\ <<handler[s].pc, handler'[s].pc>> \in Onward

\* A handler goes on with its delivery, turns to the failure branch from the
\* try block, or is done.
Move(s) ==
  /\ handler[s] \in Busy
  /\ \A t \in Slots \ {s} : handler'[t] = handler[t]
  /\ \/ handler'[s] = IdleHandler
     \/ /\ handler'[s].job = handler[s].job /\ handler'[s].attempt = handler[s].attempt
        /\ \/ GoesOn(s)
           \/ handler[s].pc \in TryBlock /\ handler'[s].pc = FailureLabel(handler[s].attempt)

\* The event a handler publishes at a label that publishes one.
Emitting == {"emit_pending", "emit_started", "emit_retrying", "emit_succeeded",
             "emit_failed_final"}

ReportedState(pc) ==
  CASE pc = "emit_pending" -> "ENQUEUED_OR_PENDING"
    [] pc = "emit_started" -> "STARTED"
    [] pc = "emit_retrying" -> "RETRYING"
    [] pc = "emit_succeeded" -> "SUCCEEDED"
    [] pc = "emit_failed_final" -> "FAILED_FINAL"

Report(hd) ==
  StatusEvent(ReportedState(hd.pc),
              IF hd.pc = "emit_pending" THEN hd.attempt - 1 ELSE hd.attempt,
              hd.pc \in {"emit_succeeded", "emit_failed_final"})

Publishes(s, j) ==
  /\ handler[s].pc \in Emitting /\ handler[s].job = j
  /\ statusLog'[j] = Append(statusLog[j], Report(handler[s]))

LogStep(s) ==
  \A j \in Jobs :
    \/ Publishes(s, j)
    \/ /\ statusLog'[j] = statusLog[j]
       /\ handler[s].pc \in Emitting /\ handler[s].job = j => ~GoesOn(s)

\* The statement of the handler's label takes hold in the row of its job.
Marking == {"mark_processing", "mark_completed", "mark_retrying", "mark_terminal"}

StatusMarked(pc) == CASE pc = "register" -> "requested"
                      [] pc = "mark_processing" -> "processing"
                      [] pc = "mark_completed" -> "completed"
                      [] pc \in {"mark_retrying", "mark_terminal"} -> "failed"

Writes(s, j) ==
  /\ handler[s].pc \in {"register"} \cup Marking /\ handler[s].job = j
  /\ (row[j].status = "absent") <=> (handler[s].pc = "register")
  /\ row'[j].status = StatusMarked(handler[s].pc)
  /\ row'[j].attempt = IF handler[s].pc = "mark_processing" THEN handler[s].attempt
                                                            ELSE row[j].attempt
  /\ row'[j].terminal = CASE handler[s].pc \in {"register", "mark_processing"} -> row[j].terminal
                          [] handler[s].pc = "mark_retrying" -> FALSE
                          [] handler[s].pc \in {"mark_completed", "mark_terminal"} -> TRUE

RowStep(s) ==
  /\ \A j \in Jobs :
       \/ Writes(s, j)
       \/ /\ row'[j] = row[j]
          /\ GoesOn(s) /\ handler[s].job = j =>
               /\ handler[s].pc \in Marking => row[j].status = "absent"
               /\ handler[s].pc = "register" => row[j].status # "absent"
  /\ GoesOn(s) /\ handler[s].pc = "register" =>
       (handler'[s].pc = "emit_pending" <=> row[handler[s].job].status = "absent")

\* The rest: the script's exit, the message, the result event, the dead letter.
RestStep(s) ==
  /\ UNCHANGED <<client, delivered, inbox>> /\ used'.rebinds = used.rebinds
  /\ returned' = IF handler[s].pc = "run" /\ GoesOn(s)
                 THEN returned \cup {handler[s].job} ELSE returned
  /\ \A j \in Jobs :
       \/ consumer'[j] = consumer[j]
       \/ handler[s].job = j /\ handler[s].pc \in {"ack", "ack_succeeded"} /\ consumer'[j] = "acked"
       \/ /\ handler[s].job = j /\ handler[s].pc = "nak"
          /\ consumer[j] = "outstanding" /\ consumer'[j] = "ready"
  /\ results \subseteq results'
  /\ handler[s].pc = "emit_failed" /\ GoesOn(s) => <<handler[s].job, "failed">> \in results'
  /\ \/ dlq' = dlq
     \/ /\ handler[s].pc \in {"dlq_invalid", "dlq_exhausted"}
        /\ dlq' = dlq \cup {<<handler[s].job, handler[s].pc>>}

HandlerStep(s) == Move(s) /\ LogStep(s) /\ RowStep(s) /\ RestStep(s)
-----------------------------------------------------------------------------
LEMMA BusyHandler ==
  ASSUME TypeOK, NEW s \in Slots, handler[s].pc # "idle"
  PROVE  /\ handler[s] \in Busy /\ handler[s].job \in Jobs /\ handler[s].attempt \in Nat \ {0}
         /\ row[handler[s].job] \in Row
BY DEF TypeOK, HandlerState, IdleHandler, Busy

\* Where a call leaves its handler, seen along the path it follows.
LEMMA ProceedMove ==
  ASSUME TypeOK, NEW s \in Slots, NEW o \in Outcomes, NEW next \in Labels,
         handler[s].pc # "idle", Proceed(s, o, next),
         next = "idle" \/ <<handler[s].pc, next>> \in Onward
  PROVE  /\ Move(s)
         /\ GoesOn(s) => o = "ok" /\ handler'[s].pc = next
         /\ used'.rebinds = used.rebinds
<1>1. handler[s] \in Busy
  BY BusyHandler
<1>2. /\ \A t \in Slots : t # s => handler'[t] = handler[t]
      /\ used'.rebinds = used.rebinds
      /\ handler'[s] = AtLabel(handler[s], IF o = "ok" THEN next ELSE RaisedLabel(handler[s]))
  BY ProceedType
<1>3. \A label :
        \/ label = "idle" /\ AtLabel(handler[s], label) = IdleHandler
        \/ /\ label # "idle"
           /\ AtLabel(handler[s], label).job = handler[s].job
           /\ AtLabel(handler[s], label).attempt = handler[s].attempt
           /\ AtLabel(handler[s], label).pc = label
  BY <1>1 DEF AtLabel, Busy
<1>4. /\ handler'[s].pc \in {"idle", "mark_terminal", "mark_retrying"} => ~GoesOn(s)
      /\ handler'[s] = IdleHandler => handler'[s].pc = "idle"
  BY DEF Onward, GoesOn, IdleHandler
<1>5. CASE o = "ok"
  <2>1. handler'[s] = AtLabel(handler[s], next)
    BY <1>2, <1>5
  <2>2. CASE next = "idle"
    BY <1>1, <1>2, <1>3, <1>4, <2>1, <2>2 DEF Move
  <2>3. CASE next # "idle"
    BY <1>1, <1>2, <1>3, <1>5, <2>1, <2>3 DEF Move, GoesOn
  <2> QED
    BY <2>2, <2>3
<1>6. CASE o # "ok"
  <2>1. handler'[s] = AtLabel(handler[s], RaisedLabel(handler[s]))
    BY <1>2, <1>6
  <2>2. FailureLabel(handler[s].attempt) \in {"mark_terminal", "mark_retrying"}
    BY DEF FailureLabel
  <2>3. CASE handler[s].pc \in TryBlock
    <3>1. RaisedLabel(handler[s]) = FailureLabel(handler[s].attempt)
      BY <2>3 DEF RaisedLabel
    <3>2. /\ handler'[s].job = handler[s].job /\ handler'[s].attempt = handler[s].attempt
          /\ handler'[s].pc = FailureLabel(handler[s].attempt)
      BY <1>3, <2>1, <2>2, <3>1
    <3> QED
      BY <1>1, <1>2, <1>4, <2>2, <2>3, <3>2 DEF Move
  <2>4. CASE handler[s].pc \notin TryBlock
    <3>1. RaisedLabel(handler[s]) = "idle"
      BY <2>4 DEF RaisedLabel
    <3>2. handler'[s] = IdleHandler
      BY <1>3, <2>1, <3>1
    <3> QED
      BY <1>1, <1>2, <1>4, <3>2 DEF Move
  <2> QED
    BY <2>3, <2>4
<1> QED
  BY <1>5, <1>6

LEMMA ReportAt ==
  ASSUME NEW s \in Slots
  PROVE  /\ handler[s].pc = "emit_pending" => Report(handler[s]) =
              StatusEvent("ENQUEUED_OR_PENDING", handler[s].attempt - 1, FALSE)
         /\ handler[s].pc = "emit_started" => Report(handler[s]) =
              StatusEvent("STARTED", handler[s].attempt, FALSE)
         /\ handler[s].pc = "emit_retrying" => Report(handler[s]) =
              StatusEvent("RETRYING", handler[s].attempt, FALSE)
         /\ handler[s].pc = "emit_succeeded" => Report(handler[s]) =
              StatusEvent("SUCCEEDED", handler[s].attempt, TRUE)
         /\ handler[s].pc = "emit_failed_final" => Report(handler[s]) =
              StatusEvent("FAILED_FINAL", handler[s].attempt, TRUE)
<1> DEFINE pc == handler[s].pc
<1>1. /\ pc = "emit_pending" => ReportedState(pc) = "ENQUEUED_OR_PENDING"
      /\ pc = "emit_started" => ReportedState(pc) = "STARTED"
      /\ pc = "emit_retrying" => ReportedState(pc) = "RETRYING"
      /\ pc = "emit_succeeded" => ReportedState(pc) = "SUCCEEDED"
      /\ pc = "emit_failed_final" => ReportedState(pc) = "FAILED_FINAL"
  BY DEF ReportedState
<1>2. /\ pc \in {"emit_pending", "emit_started", "emit_retrying"} =>
           (pc \in {"emit_succeeded", "emit_failed_final"}) = FALSE
      /\ pc \in {"emit_succeeded", "emit_failed_final"} =>
           (pc \in {"emit_succeeded", "emit_failed_final"}) = TRUE
  OBVIOUS
<1> DEFINE n == IF pc = "emit_pending" THEN handler[s].attempt - 1 ELSE handler[s].attempt
<1>3. Report(handler[s]) =
        StatusEvent(ReportedState(pc), n, pc \in {"emit_succeeded", "emit_failed_final"})
  BY DEF Report
<1>4. /\ pc = "emit_pending" => n = handler[s].attempt - 1
      /\ pc # "emit_pending" => n = handler[s].attempt
  OBVIOUS
<1> HIDE DEF pc, n
<1>5. CASE pc \in {"emit_pending", "emit_started", "emit_retrying"}
  <2>1. Report(handler[s]) = StatusEvent(ReportedState(pc), n, FALSE)
    BY <1>2, <1>3, <1>5, Zenon
  <2> QED
    BY <1>1, <1>4, <1>5, <2>1 DEF pc
<1>6. CASE pc \in {"emit_succeeded", "emit_failed_final"}
  <2>1. Report(handler[s]) = StatusEvent(ReportedState(pc), n, TRUE)
    BY <1>2, <1>3, <1>6, Zenon
  <2> QED
    BY <1>1, <1>4, <1>6, <2>1 DEF pc
<1> QED
  BY <1>5, <1>6 DEF pc

\* A call of the handler that publishes a status event.
LEMMA EmitStep ==
  ASSUME TypeOK, NEW s \in Slots, NEW o \in Outcomes,
         \/ EmitPending(s, o) \/ EmitStarted(s, o) \/ EmitSucceeded(s, o)
         \/ EmitRetrying(s, o) \/ EmitFailedFinal(s, o)
  PROVE  HandlerStep(s)
<1> DEFINE next == CASE handler[s].pc = "emit_pending" -> "mark_processing"
                     [] handler[s].pc = "emit_started" -> "run"
                     [] handler[s].pc = "emit_succeeded" -> "ack_succeeded"
                     [] handler[s].pc = "emit_retrying" -> "nak"
                     [] handler[s].pc = "emit_failed_final" -> "dlq_exhausted"
<1>1. /\ handler[s].pc \in Emitting
      /\ PublishStatus(handler[s].job, o, Report(handler[s]))
      /\ Proceed(s, o, next)
      /\ UNCHANGED <<client, consumer, delivered, inbox, row, results, dlq, returned>>
  <2>1. CASE EmitPending(s, o)
    BY <2>1, ReportAt DEF EmitPending, EmitStatus, Emitting, api, queue
  <2>2. CASE EmitStarted(s, o)
    BY <2>2, ReportAt DEF EmitStarted, EmitStatus, Emitting, api, queue
  <2>3. CASE EmitSucceeded(s, o)
    BY <2>3, ReportAt DEF EmitSucceeded, EmitStatus, Emitting, api, queue
  <2>4. CASE EmitRetrying(s, o)
    BY <2>4, ReportAt DEF EmitRetrying, EmitStatus, Emitting, api, queue
  <2>5. CASE EmitFailedFinal(s, o)
    BY <2>5, ReportAt DEF EmitFailedFinal, EmitStatus, Emitting, api, queue
  <2> QED
    BY <2>1, <2>2, <2>3, <2>4, <2>5
<1>2. next \in Labels /\ <<handler[s].pc, next>> \in Onward /\ handler[s].pc # "idle"
  BY <1>1 DEF Emitting, Onward, Labels, TryBlock
<1> HIDE DEF next
<1>3. Move(s) /\ (GoesOn(s) => o = "ok") /\ used'.rebinds = used.rebinds
  BY <1>1, <1>2, ProceedMove
<1>4. LogStep(s)
  <2>1. statusLog' = IF Happened(o)
                     THEN [statusLog EXCEPT ![handler[s].job] = Append(@, Report(handler[s]))]
                     ELSE statusLog
    BY <1>1 DEF PublishStatus
  <2>2. CASE Happened(o)
    BY <1>1, <2>1, <2>2 DEF LogStep, Publishes, TypeOK
  <2>3. CASE ~Happened(o)
    BY <1>1, <1>3, <2>1, <2>3 DEF LogStep, Happened
  <2> QED
    BY <2>2, <2>3
<1>5. RowStep(s)
  BY <1>1 DEF RowStep, Emitting, Marking
<1>6. RestStep(s)
  BY <1>1, <1>3 DEF RestStep, Emitting
<1> QED
  BY <1>3, <1>4, <1>5, <1>6 DEF HandlerStep

\* A call that writes the row.
LEMMA MarkStep ==
  ASSUME TypeOK, NEW s \in Slots, NEW o \in Outcomes,
         \/ Register(s, o) \/ MarkProcessing(s, o) \/ MarkCompleted(s, o)
         \/ MarkRetrying(s, o) \/ MarkTerminal(s, o)
  PROVE  HandlerStep(s)
<1> DEFINE j == handler[s].job
           next == CASE handler[s].pc = "register" ->
                          (IF row[j].status = "absent" THEN "emit_pending" ELSE "ack")
                     [] handler[s].pc = "mark_processing" -> "emit_started"
                     [] handler[s].pc = "mark_completed" -> "emit_completed"
                     [] handler[s].pc = "mark_retrying" -> "emit_retrying"
                     [] handler[s].pc = "mark_terminal" -> "emit_failed"
<1>1. /\ handler[s].pc \in {"register"} \cup Marking
      /\ Proceed(s, o, next)
      /\ UNCHANGED <<client, consumer, delivered, inbox, statusLog, results, dlq, returned>>
  <2>1. CASE Register(s, o)
    BY <2>1 DEF Register, api, queue, events
  <2>2. CASE MarkProcessing(s, o)
    BY <2>2 DEF MarkProcessing, Marking, api, queue, events
  <2>3. CASE MarkCompleted(s, o)
    BY <2>3 DEF MarkCompleted, Marking, api, queue, events
  <2>4. CASE MarkRetrying(s, o)
    BY <2>4 DEF MarkRetrying, Marking, api, queue, events
  <2>5. CASE MarkTerminal(s, o)
    BY <2>5 DEF MarkTerminal, Marking, api, queue, events
  <2> QED
    BY <2>1, <2>2, <2>3, <2>4, <2>5
<1>2. /\ next \in Labels /\ <<handler[s].pc, next>> \in Onward /\ handler[s].pc # "idle"
      /\ handler[s].pc = "register" => (next = "emit_pending" <=> row[j].status = "absent")
  BY <1>1 DEF Marking, Onward, Labels, TryBlock
<1> HIDE DEF next
<1>3. /\ Move(s) /\ used'.rebinds = used.rebinds
      /\ GoesOn(s) => o = "ok" /\ handler'[s].pc = next
  BY <1>1, <1>2, ProceedMove
<1>4. handler[s] \in Busy /\ j \in Jobs /\ handler[s].attempt \in Nat \ {0} /\ row[j] \in Row
      /\ row \in [Jobs -> Row]
  BY <1>2, BusyHandler DEF TypeOK
<1>5. /\ \A k \in Jobs \ {j} : row'[k] = row[k]
      /\ \/ Writes(s, j)
         \/ /\ row'[j] = row[j]
            /\ \/ o # "ok"
               \/ handler[s].pc = "register" /\ row[j].status # "absent"
               \/ handler[s].pc \in Marking /\ row[j].status = "absent"
  <2>1. CASE Register(s, o)
    <3>1. handler[s].pc = "register"
          /\ row' = IF Happened(o) /\ row[j].status = "absent"
                    THEN [row EXCEPT ![j].status = "requested"] ELSE row
      BY <2>1 DEF Register
    <3> QED
      BY <1>4, <3>1 DEF Writes, StatusMarked, Happened, Row
  <2>2. CASE MarkProcessing(s, o)
    <3>1. handler[s].pc = "mark_processing"
          /\ row' = IF Happened(o) /\ row[j].status # "absent"
                    THEN [row EXCEPT ![j] = [row[j] EXCEPT !.status = "processing",
                                                           !.attempt = handler[s].attempt]]
                    ELSE row
      BY <2>2 DEF MarkProcessing, UpdateRow
    <3> QED
      BY <1>4, <3>1 DEF Writes, StatusMarked, Happened, Row, Marking
  <2>3. CASE MarkCompleted(s, o)
    <3>1. handler[s].pc = "mark_completed"
          /\ row' = IF Happened(o) /\ row[j].status # "absent"
                    THEN [row EXCEPT ![j] = [row[j] EXCEPT !.status = "completed",
                                                !.terminal = TRUE, !.reason = "null"]]
                    ELSE row
      BY <2>3 DEF MarkCompleted, UpdateRow
    <3> QED
      BY <1>4, <3>1 DEF Writes, StatusMarked, Happened, Row, Marking
  <2>4. CASE MarkRetrying(s, o)
    <3>1. handler[s].pc = "mark_retrying"
          /\ row' = IF Happened(o) /\ row[j].status # "absent"
                    THEN [row EXCEPT ![j] = [row[j] EXCEPT !.status = "failed",
                                                !.terminal = FALSE, !.reason = "null"]]
                    ELSE row
      BY <2>4 DEF MarkRetrying, UpdateRow
    <3> QED
      BY <1>4, <3>1 DEF Writes, StatusMarked, Happened, Row, Marking
  <2>5. CASE MarkTerminal(s, o)
    <3>1. handler[s].pc = "mark_terminal"
          /\ row' = IF Happened(o) /\ row[j].status # "absent"
                    THEN [row EXCEPT ![j] = [row[j] EXCEPT !.status = "failed",
                                                !.terminal = TRUE, !.reason = "max-attempts"]]
                    ELSE row
      BY <2>5 DEF MarkTerminal, UpdateRow
    <3> QED
      BY <1>4, <3>1 DEF Writes, StatusMarked, Happened, Row, Marking
  <2> QED
    BY <2>1, <2>2, <2>3, <2>4, <2>5
<1>6. RowStep(s)
  <2>1. GoesOn(s) => \/ Writes(s, j)
                     \/ /\ row'[j] = row[j]
                        /\ handler[s].pc \in Marking => row[j].status = "absent"
                        /\ handler[s].pc = "register" => row[j].status # "absent"
    BY <1>3, <1>5 DEF Marking
  <2> QED
    BY <1>2, <1>3, <1>5, <2>1 DEF RowStep
<1>7. LogStep(s)
  BY <1>1 DEF LogStep, Marking, Emitting
<1>8. RestStep(s)
  BY <1>1, <1>3 DEF RestStep, Marking
<1> QED
  BY <1>3, <1>6, <1>7, <1>8 DEF HandlerStep

\* The script ends.
LEMMA RunStep ==
  ASSUME TypeOK, NEW s \in Slots, RunReturns(s) \/ RunFails(s)
  PROVE  HandlerStep(s)
<1>1. /\ handler[s].pc = "run" /\ handler[s] \in Busy
      /\ UNCHANGED <<client, consumer, delivered, inbox, row, statusLog, results, dlq, used>>
  BY BusyHandler DEF RunReturns, RunFails, api, queue, events
<1>2. FailureLabel(handler[s].attempt) \in {"mark_terminal", "mark_retrying"}
  BY DEF FailureLabel
<1>3. /\ \A t \in Slots \ {s} : handler'[t] = handler[t]
      /\ handler'[s].job = handler[s].job /\ handler'[s].attempt = handler[s].attempt
      /\ \/ handler'[s].pc = "mark_completed" /\ returned' = returned \cup {handler[s].job}
         \/ handler'[s].pc = FailureLabel(handler[s].attempt) /\ returned' = returned
  BY <1>1 DEF RunReturns, RunFails, TypeOK, Busy
<1>4. /\ handler'[s].pc = "mark_completed" => GoesOn(s)
      /\ handler'[s].pc \in {"mark_terminal", "mark_retrying"} => ~GoesOn(s)
  BY <1>1 DEF GoesOn, Onward
<1>5. Move(s)
  BY <1>1, <1>3, <1>4 DEF Move, TryBlock
<1>6. LogStep(s) /\ RowStep(s)
  BY <1>1 DEF LogStep, RowStep, Emitting, Marking
<1>7. RestStep(s)
  BY <1>1, <1>2, <1>3, <1>4 DEF RestStep
<1> QED
  BY <1>5, <1>6, <1>7 DEF HandlerStep

\* A result event is published.
LEMMA ResultStep ==
  ASSUME TypeOK, NEW s \in Slots, NEW o \in Outcomes, EmitCompleted(s, o) \/ EmitFailed(s, o)
  PROVE  HandlerStep(s)
<1> DEFINE next == IF handler[s].pc = "emit_completed" THEN "emit_succeeded"
                                                       ELSE "emit_failed_final"
<1>1. /\ handler[s].pc \in {"emit_completed", "emit_failed"}
      /\ Proceed(s, o, next)
      /\ UNCHANGED <<client, consumer, delivered, inbox, row, statusLog, dlq, returned>>
  BY DEF EmitCompleted, EmitFailed, PublishResult, api, queue
<1>2. next \in Labels /\ <<handler[s].pc, next>> \in Onward
  BY <1>1 DEF Labels, TryBlock, Onward
<1> HIDE DEF next
<1>3. Move(s) /\ (GoesOn(s) => o = "ok") /\ used'.rebinds = used.rebinds
  BY <1>1, <1>2, ProceedMove
<1>4. /\ results \subseteq results'
      /\ handler[s].pc = "emit_failed" /\ o = "ok" => <<handler[s].job, "failed">> \in results'
  BY DEF EmitCompleted, EmitFailed, PublishResult, Happened
<1>5. LogStep(s) /\ RowStep(s)
  BY <1>1 DEF LogStep, RowStep, Emitting, Marking
<1>6. RestStep(s)
  BY <1>1, <1>3, <1>4 DEF RestStep
<1> QED
  BY <1>3, <1>5, <1>6 DEF HandlerStep

\* The message is acked or handed back.
LEMMA SettleStep ==
  ASSUME TypeOK, NEW s \in Slots, NEW o \in Outcomes, Ack(s, o) \/ Nak(s, o)
  PROVE  HandlerStep(s)
<1>1. /\ handler[s].pc \in {"ack", "ack_succeeded", "nak"}
      /\ Proceed(s, o, "idle")
      /\ UNCHANGED <<client, delivered, inbox, row, statusLog, results, dlq, returned>>
  BY DEF Ack, Nak, api, events
<1>2. "idle" \in Labels
  BY DEF Labels
<1>3. Move(s) /\ (GoesOn(s) => handler'[s].pc = "idle") /\ used'.rebinds = used.rebinds
  BY <1>1, <1>2, ProceedMove
<1>4. \A j \in Jobs :
        \/ consumer'[j] = consumer[j]
        \/ handler[s].job = j /\ handler[s].pc \in {"ack", "ack_succeeded"} /\ consumer'[j] = "acked"
        \/ /\ handler[s].job = j /\ handler[s].pc = "nak"
           /\ consumer[j] = "outstanding" /\ consumer'[j] = "ready"
  <2>1. CASE Ack(s, o)
    BY <2>1 DEF Ack, AckMessage, TypeOK
  <2>2. CASE Nak(s, o)
    BY <2>2 DEF Nak, NakMessage, TypeOK
  <2> QED
    BY <2>1, <2>2
<1>5. LogStep(s) /\ RowStep(s)
  BY <1>1 DEF LogStep, RowStep, Emitting, Marking
<1>6. RestStep(s)
  BY <1>1, <1>3, <1>4 DEF RestStep
<1> QED
  BY <1>3, <1>5, <1>6 DEF HandlerStep

\* A dead letter is written, or lost.
LEMMA DlqStep ==
  ASSUME TypeOK, NEW s \in Slots, NEW o \in Outcomes, EmitDlq(s, o)
  PROVE  HandlerStep(s)
<1>1. /\ handler[s].pc \in {"dlq_invalid", "dlq_exhausted"} /\ handler[s] \in Busy
      /\ UNCHANGED <<client, consumer, delivered, inbox, row, statusLog, results, returned>>
      /\ used'.rebinds = used.rebinds
      /\ dlq' = dlq \/ dlq' = dlq \cup {<<handler[s].job, handler[s].pc>>}
  BY BusyHandler, ChargeType DEF EmitDlq, api, queue
<1>2. /\ \A t \in Slots \ {s} : handler'[t] = handler[t]
      /\ handler'[s].job = handler[s].job /\ handler'[s].attempt = handler[s].attempt
      /\ handler'[s].pc = "ack"
  BY <1>1 DEF EmitDlq, TypeOK, Busy
<1>3. Move(s)
  BY <1>1, <1>2 DEF Move, GoesOn, Onward
<1>4. LogStep(s) /\ RowStep(s)
  BY <1>1 DEF LogStep, RowStep, Emitting, Marking
<1>5. RestStep(s)
  BY <1>1 DEF RestStep
<1> QED
  BY <1>3, <1>4, <1>5 DEF HandlerStep

\* What a step of a handler does.
LEMMA StepIsHandlerStep ==
  ASSUME TypeOK, NEW s \in Slots, Step(s)
  PROVE  HandlerStep(s)
<1>1. CASE RunReturns(s) \/ RunFails(s)
  BY <1>1, RunStep
<1>2. ASSUME NEW o \in Outcomes, Call(s, o)
      PROVE  HandlerStep(s)
  BY <1>2, EmitStep, MarkStep, ResultStep, SettleStep, DlqStep DEF Call
<1> QED
  BY <1>1, <1>2 DEF Step
-----------------------------------------------------------------------------
(* What a log that grows keeps and gains.                                  *)

LEMMA LogGrown ==
  ASSUME TypeOK, NEW j \in Jobs, NEW e \in Event, statusLog'[j] = Append(statusLog[j], e)
  PROVE  /\ \A i \in DOMAIN statusLog[j] :
              i \in DOMAIN statusLog'[j] /\ statusLog'[j][i] = statusLog[j][i]
         /\ \A i \in DOMAIN statusLog'[j] :
              \/ i \in DOMAIN statusLog[j] /\ statusLog'[j][i] = statusLog[j][i]
              \/ i \notin DOMAIN statusLog[j] /\ i = Len(statusLog'[j]) /\ statusLog'[j][i] = e
         /\ Len(statusLog'[j]) \in DOMAIN statusLog'[j]
         /\ statusLog'[j][Len(statusLog'[j])] = e
<1> DEFINE log == statusLog[j]
<1>1. log \in Seq(Event)
  BY DEF TypeOK
<1>2. /\ DOMAIN log = 1 .. Len(log) /\ Len(log) \in Nat
      /\ DOMAIN Append(log, e) = 1 .. Len(log) + 1
      /\ Len(Append(log, e)) = Len(log) + 1
      /\ \A i \in 1 .. Len(log) : Append(log, e)[i] = log[i]
      /\ Append(log, e)[Len(log) + 1] = e
  BY <1>1, AppendProperties, LenProperties
<1>3. statusLog'[j] = Append(log, e)
  OBVIOUS
<1> HIDE DEF log
<1> QED
  BY <1>2, <1>3 DEF log

LEMMA ReportIsEvent ==
  ASSUME TypeOK, NEW s \in Slots, handler[s].pc \in Emitting
  PROVE  /\ Report(handler[s]) \in Event
         /\ Report(handler[s]).state = ReportedState(handler[s].pc)
         /\ handler[s].pc # "emit_pending" => Report(handler[s]).attempt = handler[s].attempt
         /\ Report(handler[s]).terminal <=> handler[s].pc \in {"emit_succeeded", "emit_failed_final"}
<1>1. handler[s].attempt \in Nat \ {0}
  BY BusyHandler DEF Emitting
<1>2. handler[s].attempt - 1 \in Nat
  BY <1>1
<1>3. CASE handler[s].pc = "emit_pending"
  <2>1. Report(handler[s]) = StatusEvent("ENQUEUED_OR_PENDING", handler[s].attempt - 1, FALSE)
    BY <1>3, ReportAt
  <2>2. ReportedState(handler[s].pc) = "ENQUEUED_OR_PENDING"
    BY <1>3 DEF ReportedState
  <2> QED
    BY <1>2, <1>3, <2>1, <2>2 DEF StatusEvent, Event, LifecycleStates
<1>4. CASE handler[s].pc = "emit_started"
  <2>1. Report(handler[s]) = StatusEvent("STARTED", handler[s].attempt, FALSE)
    BY <1>4, ReportAt
  <2>2. ReportedState(handler[s].pc) = "STARTED"
    BY <1>4 DEF ReportedState
  <2> QED
    BY <1>1, <1>4, <2>1, <2>2 DEF StatusEvent, Event, LifecycleStates
<1>5. CASE handler[s].pc = "emit_retrying"
  <2>1. Report(handler[s]) = StatusEvent("RETRYING", handler[s].attempt, FALSE)
    BY <1>5, ReportAt
  <2>2. ReportedState(handler[s].pc) = "RETRYING"
    BY <1>5 DEF ReportedState
  <2> QED
    BY <1>1, <1>5, <2>1, <2>2 DEF StatusEvent, Event, LifecycleStates
<1>6. CASE handler[s].pc = "emit_succeeded"
  <2>1. Report(handler[s]) = StatusEvent("SUCCEEDED", handler[s].attempt, TRUE)
    BY <1>6, ReportAt
  <2>2. ReportedState(handler[s].pc) = "SUCCEEDED"
    BY <1>6 DEF ReportedState
  <2> QED
    BY <1>1, <1>6, <2>1, <2>2 DEF StatusEvent, Event, LifecycleStates
<1>7. CASE handler[s].pc = "emit_failed_final"
  <2>1. Report(handler[s]) = StatusEvent("FAILED_FINAL", handler[s].attempt, TRUE)
    BY <1>7, ReportAt
  <2>2. ReportedState(handler[s].pc) = "FAILED_FINAL"
    BY <1>7 DEF ReportedState
  <2> QED
    BY <1>1, <1>7, <2>1, <2>2 DEF StatusEvent, Event, LifecycleStates
<1> QED
  BY <1>3, <1>4, <1>5, <1>6, <1>7 DEF Emitting

\* What the API, the queue and the worker process do to the logs and the rest.
PendingEvent == StatusEvent("ENQUEUED_OR_PENDING", 0, FALSE)

Surroundings ==
  /\ StartEffect
  /\ UNCHANGED <<row, results, dlq, returned>>
  /\ \A j \in Jobs : \/ statusLog'[j] = statusLog[j]
                     \/ statusLog'[j] = Append(statusLog[j], PendingEvent)

LEMMA PendingIsEvent ==
  /\ PendingEvent \in Event /\ PendingEvent.state = "ENQUEUED_OR_PENDING"
  /\ ~PendingEvent.terminal
BY DEF PendingEvent, StatusEvent, Event, LifecycleStates

LEMMA EnvironmentIsSurroundings ==
  ASSUME TypeOK, EnvironmentStep
  PROVE  Surroundings
<1>1. StartEffect /\ UNCHANGED <<row, results, returned>>
  BY EnvironmentStepEffect DEF EnvironmentEffect
<1>2. UNCHANGED dlq
  BY DEF EnvironmentStep, Enqueue, EnqueueRequest, EnqueueEvent, ForeignRequest, Deliver,
         AckWaitExpires, Receive, Crash, Rebind, events
<1>3. ASSUME NEW j \in Jobs, statusLog'[j] # statusLog[j]
      PROVE  statusLog'[j] = Append(statusLog[j], PendingEvent)
  <2>1. PICK k \in Jobs, o \in Outcomes : EnqueueEvent(k, o)
    BY <1>3 DEF EnvironmentStep, Enqueue, EnqueueRequest, ForeignRequest, Deliver,
       AckWaitExpires, Receive, Crash, Rebind, events
  <2> QED
    BY <1>3, <2>1 DEF EnqueueEvent, PublishStatus, TypeOK, PendingEvent
<1> QED
  BY <1>1, <1>2, <1>3 DEF Surroundings
-----------------------------------------------------------------------------
(* A dead letter for exhausted attempts follows the announcement.          *)

FailureTold(j) ==
  \E i \in DOMAIN statusLog[j] : /\ statusLog[j][i].state = "FAILED_FINAL"
                                 /\ statusLog[j][i].attempt >= MaxAttempts

GivingUp == {"mark_terminal", "emit_failed", "emit_failed_final", "dlq_exhausted"}

\* A handler gives a job up only at its last attempt, and has then published
\* what comes before the call it is about to make.
GivesUpInOrder(s) ==
  handler[s].pc \in GivingUp =>
    /\ handler[s].attempt >= MaxAttempts
    /\ handler[s].pc \in {"emit_failed_final", "dlq_exhausted"} =>
         <<handler[s].job, "failed">> \in results
    /\ handler[s].pc = "dlq_exhausted" => FailureTold(handler[s].job)

ExhaustedInv == DeadLetterIsAnnounced /\ \A s \in Slots : GivesUpInOrder(s)

LEMMA ExhaustedInvStep ==
  ASSUME TypeOK, ExhaustedInv, NEW s \in Slots, Step(s)
  PROVE  ExhaustedInv'
<1>1. Move(s) /\ LogStep(s) /\ RestStep(s)
  BY StepIsHandlerStep DEF HandlerStep
<1>2. PICK h \in Jobs : h = handler[s].job /\ handler[s].attempt \in Nat
  BY <1>1 DEF Move, Busy
<1>3. ASSUME NEW j \in Jobs, FailureTold(j)
      PROVE  FailureTold(j)'
  <2>1. CASE statusLog'[j] = statusLog[j]
    BY <1>3, <2>1 DEF FailureTold
  <2>2. CASE statusLog'[j] # statusLog[j]
    <3>1. Publishes(s, j)
      BY <1>1, <2>2 DEF LogStep
    <3>2. \A i \in DOMAIN statusLog[j] :
            i \in DOMAIN statusLog'[j] /\ statusLog'[j][i] = statusLog[j][i]
      BY <3>1, LogGrown, ReportIsEvent DEF Publishes
    <3> QED
      BY <1>3, <3>2 DEF FailureTold
  <2> QED
    BY <2>1, <2>2
<1>4. ASSUME handler[s].pc = "emit_failed_final", GoesOn(s)
      PROVE  FailureTold(h)'
  <2>1. Publishes(s, h)
    BY <1>1, <1>2, <1>4 DEF LogStep, Emitting
  <2>2. /\ Report(handler[s]).state = "FAILED_FINAL"
        /\ Report(handler[s]).attempt = handler[s].attempt
        /\ Report(handler[s]) \in Event
    BY <1>4, ReportIsEvent DEF Emitting, ReportedState
  <2>3. handler[s].attempt >= MaxAttempts
    BY <1>4 DEF ExhaustedInv, GivesUpInOrder, GivingUp
  <2>4. /\ Len(statusLog'[h]) \in DOMAIN statusLog'[h]
        /\ statusLog'[h][Len(statusLog'[h])] = Report(handler[s])
    BY <1>2, <2>1, <2>2, LogGrown DEF Publishes
  <2> QED
    BY <2>2, <2>3, <2>4 DEF FailureTold
<1>5. DeadLetterIsAnnounced'
  <2> SUFFICES ASSUME NEW j \in Jobs, <<j, "dlq_exhausted">> \in dlq'
               PROVE  <<j, "failed">> \in results' /\ FailureTold(j)'
    BY DEF DeadLetterIsAnnounced, FailureTold
  <2>1. <<j, "failed">> \in results /\ FailureTold(j)
    <3>1. CASE <<j, "dlq_exhausted">> \in dlq
      BY <3>1 DEF ExhaustedInv, DeadLetterIsAnnounced, FailureTold
    <3>2. CASE <<j, "dlq_exhausted">> \notin dlq
      <4>1. handler[s].pc = "dlq_exhausted" /\ h = j
        BY <1>1, <1>2, <3>2 DEF RestStep
      <4> QED
        BY <1>2, <4>1 DEF ExhaustedInv, GivesUpInOrder, GivingUp
    <3> QED
      BY <3>1, <3>2
  <2> QED
    BY <1>1, <1>3, <2>1 DEF RestStep
<1>6. ASSUME NEW t \in Slots, handler'[t].pc \in GivingUp
      PROVE  GivesUpInOrder(t)'
  <2>1. CASE t # s
    <3>1. handler'[t] = handler[t] /\ handler[t].job \in Jobs
      BY <1>1, <1>6, <2>1, BusyHandler DEF Move, GivingUp
    <3>2. results \subseteq results'
      BY <1>1 DEF RestStep
    <3> QED
      BY <1>3, <3>1, <3>2 DEF ExhaustedInv, GivesUpInOrder
  <2>2. CASE t = s
    <3>1. /\ handler'[s].job = h /\ handler'[s].attempt = handler[s].attempt
          /\ GoesOn(s) \/ handler'[s].pc = FailureLabel(handler[s].attempt)
      BY <1>1, <1>2, <1>6, <2>2 DEF Move, GivingUp, IdleHandler
    <3>2. CASE GoesOn(s)
      <4>1. /\ handler[s].pc \in GivingUp
            /\ handler'[s].pc = "emit_failed_final" => handler[s].pc = "emit_failed"
            /\ handler'[s].pc = "dlq_exhausted" => handler[s].pc = "emit_failed_final"
            /\ handler'[s].pc # "mark_terminal"
        BY <1>6, <2>2, <3>2 DEF GoesOn, Onward, GivingUp
      <4>2. handler[s].attempt >= MaxAttempts
        BY <4>1 DEF ExhaustedInv, GivesUpInOrder
      <4>3. handler'[s].pc \in {"emit_failed_final", "dlq_exhausted"} =>
              <<h, "failed">> \in results'
        BY <1>1, <1>2, <3>2, <4>1 DEF ExhaustedInv, GivesUpInOrder, GivingUp, RestStep
      <4>4. handler'[s].pc = "dlq_exhausted" => FailureTold(h)'
        BY <1>4, <3>2, <4>1
      <4> QED
        BY <2>2, <3>1, <4>2, <4>3, <4>4 DEF GivesUpInOrder
    <3>3. CASE handler'[s].pc = FailureLabel(handler[s].attempt)
      <4>1. handler'[s].pc = "mark_terminal" /\ handler[s].attempt >= MaxAttempts
        BY <1>6, <2>2, <3>3 DEF FailureLabel, GivingUp
      <4> QED
        BY <2>2, <3>1, <4>1 DEF GivesUpInOrder
    <3> QED
      BY <3>1, <3>2, <3>3
  <2> QED
    BY <2>1, <2>2
<1> QED
  BY <1>5, <1>6 DEF ExhaustedInv, GivesUpInOrder

\* No handler starts by giving up, and nothing else writes dead letters.
LEMMA ExhaustedInvSurroundings ==
  ASSUME TypeOK, ExhaustedInv, Surroundings
  PROVE  ExhaustedInv'
<1>1. ASSUME NEW j \in Jobs, FailureTold(j)
      PROVE  FailureTold(j)'
  <2>1. CASE statusLog'[j] = statusLog[j]
    BY <1>1, <2>1 DEF FailureTold
  <2>2. CASE statusLog'[j] = Append(statusLog[j], PendingEvent)
    <3>1. \A i \in DOMAIN statusLog[j] :
            i \in DOMAIN statusLog'[j] /\ statusLog'[j][i] = statusLog[j][i]
      BY <2>2, LogGrown, PendingIsEvent
    <3> QED
      BY <1>1, <3>1 DEF FailureTold
  <2> QED
    BY <2>1, <2>2 DEF Surroundings
<1>2. ASSUME NEW t \in Slots, handler'[t].pc \in GivingUp
      PROVE  handler'[t] = handler[t] /\ handler[t].job \in Jobs
  <2>1. \A d : FirstLabel(d) \notin GivingUp
    BY DEF FirstLabel, GivingUp
  <2>2. handler'[t] = handler[t]
    BY <1>2, <2>1 DEF Surroundings, StartEffect, GivingUp, IdleHandler
  <2> QED
    BY <1>2, <2>2, BusyHandler DEF GivingUp
<1>3. UNCHANGED <<results, dlq>>
  BY DEF Surroundings
<1>4. DeadLetterIsAnnounced'
  BY <1>1, <1>3 DEF ExhaustedInv, DeadLetterIsAnnounced, FailureTold
<1>5. \A t \in Slots : GivesUpInOrder(t)'
  BY <1>1, <1>2, <1>3 DEF ExhaustedInv, GivesUpInOrder
<1> QED
  BY <1>4, <1>5 DEF ExhaustedInv

LEMMA ExhaustedInvInit == Init => ExhaustedInv
BY DEF Init, ExhaustedInv, DeadLetterIsAnnounced, GivesUpInOrder, GivingUp, IdleHandler

LEMMA ExhaustedInvNext ==
  ASSUME TypeOK, ExhaustedInv, [Next]_vars
  PROVE  ExhaustedInv'
<1>1. CASE UNCHANGED vars
  BY <1>1 DEF ExhaustedInv, DeadLetterIsAnnounced, GivesUpInOrder, FailureTold, vars, events
<1> QED
  BY <1>1, ExhaustedInvStep, ExhaustedInvSurroundings, EnvironmentIsSurroundings
  DEF Next, EnvironmentStep

\* A dead letter for exhausted attempts is never the first anyone hears of the
\* failure: the failed result event and a FAILED_FINAL event of at least the
\* last attempt are published before it, whichever of the calls are lost and
\* however many handlers hold deliveries of the same job (process_message's
\* except branch).
THEOREM DeadLettersAreAnnounced == Spec => []DeadLetterIsAnnounced
<1>1. ExhaustedInv => DeadLetterIsAnnounced
  BY DEF ExhaustedInv
<1> QED
  BY <1>1, ExhaustedInvInit, ExhaustedInvNext, TypeCorrect, PTL DEF Spec
-----------------------------------------------------------------------------
(* The attempt a handler works on.                                         *)

LEMMA DeliveredOnce ==
  ASSUME TypeOK, NEW k \in Jobs, Deliver(k)
  PROVE  /\ DOMAIN inbox' = DOMAIN inbox \cup {Len(inbox) + 1} /\ DOMAIN inbox \subseteq 1 .. Len(inbox)
         /\ Len(inbox) \in Nat
         /\ \A i \in DOMAIN inbox : inbox'[i] = inbox[i]
         /\ inbox'[Len(inbox) + 1].job = k
         /\ inbox'[Len(inbox) + 1].attempt = delivered'[k]
         /\ delivered'[k] = delivered[k] + 1
         /\ \A j \in Jobs \ {k} : delivered'[j] = delivered[j]
         /\ UNCHANGED <<handler, row>>
<1> DEFINE d == [job |-> k, attempt |-> delivered[k] + 1]
           n == Len(inbox)
<1>1. d \in Delivery /\ inbox \in Seq(Delivery)
  BY DEF TypeOK, Delivery
<1>2. n \in Nat /\ DOMAIN inbox = 1 .. n
  BY <1>1, LenProperties
<1>3. inbox' = Append(inbox, d) /\ delivered' = [delivered EXCEPT ![k] = @ + 1]
      /\ UNCHANGED <<handler, row>>
  BY DEF Deliver
<1>4. /\ DOMAIN inbox' = 1 .. n + 1
      /\ \A i \in 1 .. n : inbox'[i] = inbox[i]
      /\ inbox'[n + 1] = d
  BY <1>1, <1>2, <1>3, AppendProperties
<1>5. d.job = k /\ d.attempt = delivered[k] + 1
  OBVIOUS
<1>6. delivered'[k] = delivered[k] + 1 /\ \A j \in Jobs \ {k} : delivered'[j] = delivered[j]
  BY <1>3 DEF TypeOK
<1> HIDE DEF d, n
<1>7. 1 .. n + 1 = (1 .. n) \cup {n + 1}
  BY <1>2
<1> QED
  BY <1>2, <1>3, <1>4, <1>5, <1>6, <1>7 DEF n

LEMMA ReceivedOldest ==
  ASSUME TypeOK, NEW s \in Slots, Receive(s)
  PROVE  /\ 1 \in DOMAIN inbox /\ inbox[1] \in Delivery
         /\ DOMAIN inbox \subseteq Nat /\ DOMAIN inbox' \subseteq Nat \ {0}
         /\ \A i \in DOMAIN inbox' : i + 1 \in DOMAIN inbox /\ inbox'[i] = inbox[i + 1]
         /\ UNCHANGED <<delivered, row>> /\ handler[s].pc = "idle"
         /\ \A t \in Slots \ {s} : handler'[t] = handler[t]
         /\ handler'[s].pc = FirstLabel(inbox[1])
         /\ handler'[s].job = inbox[1].job /\ handler'[s].attempt = inbox[1].attempt
<1> DEFINE n == Len(inbox)
<1>1. /\ inbox \in Seq(Delivery) /\ inbox # <<>> /\ n \in Nat /\ n >= 1
      /\ DOMAIN inbox = 1 .. n
      /\ Head(inbox) = inbox[1] /\ Head(inbox) \in Delivery
  BY LenProperties, HeadTailProperties, EmptySeq DEF Receive, TypeOK
<1>2. /\ DOMAIN inbox' = 1 .. n - 1
      /\ \A i \in 1 .. n - 1 : inbox'[i] = inbox[i + 1]
  BY <1>1, HeadTailProperties DEF Receive
<1>3. /\ UNCHANGED <<delivered, row>> /\ handler[s].pc = "idle"
      /\ handler' = [handler EXCEPT ![s] = [pc |-> FirstLabel(Head(inbox)), job |-> Head(inbox).job,
                                            attempt |-> Head(inbox).attempt]]
  BY DEF Receive
<1>4. /\ \A t \in Slots \ {s} : handler'[t] = handler[t]
      /\ handler'[s].pc = FirstLabel(inbox[1])
      /\ handler'[s].job = inbox[1].job /\ handler'[s].attempt = inbox[1].attempt
  BY <1>1, <1>3 DEF TypeOK
<1> HIDE DEF n
<1> QED
  BY <1>1, <1>2, <1>3, <1>4

\* No delivery and no handler is ahead of num_delivered.
AttemptsCounted ==
  /\ \A i \in DOMAIN inbox : inbox[i].attempt <= delivered[inbox[i].job]
  /\ \A s \in Slots : handler[s].pc # "idle" => handler[s].attempt <= delivered[handler[s].job]

LEMMA DeliveriesTyped ==
  ASSUME TypeOK
  PROVE  \A i \in DOMAIN inbox : inbox[i].job \in Jobs /\ inbox[i].attempt \in Nat
<1>1. inbox \in Seq(Delivery)
  BY DEF TypeOK
<1>2. \A i \in 1 .. Len(inbox) : inbox[i] \in Delivery
  BY <1>1, ElementOfSeq
<1> QED
  BY <1>1, <1>2, LenProperties DEF Delivery

LEMMA AttemptsCountedNext ==
  ASSUME TypeOK, AttemptsCounted, [Next]_vars
  PROVE  AttemptsCounted'
<1>1. ASSUME NEW s \in Slots, Step(s)
      PROVE  AttemptsCounted'
  <2>1. Move(s) /\ UNCHANGED <<delivered, inbox>>
    BY <1>1, StepIsHandlerStep DEF HandlerStep, RestStep
  <2>2. \A t \in Slots : handler'[t].pc # "idle" =>
          /\ handler[t].pc # "idle"
          /\ handler'[t].job = handler[t].job /\ handler'[t].attempt = handler[t].attempt
    BY <2>1 DEF Move, IdleHandler, Busy
  <2> QED
    BY <2>1, <2>2 DEF AttemptsCounted
<1>2. ASSUME NEW k \in Jobs, Deliver(k)
      PROVE  AttemptsCounted'
  <2>1. \A j \in Jobs : delivered[j] \in Nat
    BY DEF TypeOK
  <2>2. \A j \in Jobs : delivered'[j] \in Nat /\ delivered[j] <= delivered'[j]
    BY <1>2, <2>1, DeliveredOnce
  <2>3. \A i \in DOMAIN inbox' : inbox'[i].attempt <= delivered'[inbox'[i].job]
    BY <1>2, <2>1, <2>2, DeliveredOnce, DeliveriesTyped DEF AttemptsCounted
  <2>4. \A s \in Slots : handler'[s].pc # "idle" =>
          handler'[s].attempt <= delivered'[handler'[s].job]
    <3> SUFFICES ASSUME NEW s \in Slots, handler'[s].pc # "idle"
                 PROVE  handler'[s].attempt <= delivered'[handler'[s].job]
      OBVIOUS
    <3>1. handler'[s] = handler[s]
      BY <1>2, DeliveredOnce
    <3>2. handler[s].job \in Jobs /\ handler[s].attempt \in Nat
      BY <3>1, BusyHandler
    <3> QED
      BY <2>1, <2>2, <3>1, <3>2 DEF AttemptsCounted
  <2> QED
    BY <2>3, <2>4 DEF AttemptsCounted
<1>3. ASSUME NEW s \in Slots, Receive(s)
      PROVE  AttemptsCounted'
  BY <1>3, ReceivedOldest DEF AttemptsCounted
<1>4. CASE Crash \/ Rebind
  <2>1. /\ DOMAIN inbox' = {}
        /\ \A s \in Slots : handler'[s].pc = "idle"
    BY <1>4, LenProperties, EmptySeq DEF Crash, Rebind, LoseWorkerMemory, IdleHandler
  <2> QED
    BY <2>1 DEF AttemptsCounted
<1>5. CASE UNCHANGED <<delivered, inbox, handler>>
  BY <1>5 DEF AttemptsCounted
<1> QED
  BY <1>1, <1>2, <1>3, <1>4, <1>5 DEF Next, Enqueue, EnqueueRequest, EnqueueEvent,
     ForeignRequest, AckWaitExpires, vars, queue
-----------------------------------------------------------------------------
(* A job whose end is stored or announced is decided.                      *)

\* The script has exited with status 0, or every attempt was delivered.
Decided(j) == j \in returned \/ delivered[j] >= MaxAttempts

DecidedInv ==
  used.rebinds = 0 => \A j \in Jobs : row[j].terminal \/ Announced(j) => Decided(j)

\* As long as the consumer is kept, what is decided stays so.
LEMMA DecidedStays ==
  ASSUME TypeOK, [Next]_vars, used'.rebinds = 0, NEW j \in Jobs
  PROVE  used.rebinds = 0 /\ (Decided(j) => Decided(j)')
<1>1. ASSUME NEW s \in Slots, Step(s)
      PROVE  used.rebinds = 0 /\ UNCHANGED delivered /\ returned \subseteq returned'
  BY <1>1, StepIsHandlerStep DEF HandlerStep, RestStep
<1>2. CASE EnvironmentStep
  <2>1. EnvironmentEffect /\ UNCHANGED returned
    BY <1>2, EnvironmentStepEffect DEF EnvironmentEffect
  <2>2. used.rebinds = 0 /\ ~Rebind
    BY <2>1, BoundAssumption DEF EnvironmentEffect, TypeOK, Rebind
  <2>3. delivered[j] \in Nat
    BY DEF TypeOK
  <2>4. ASSUME NEW k \in Jobs, Deliver(k)
        PROVE  delivered'[j] \in {delivered[j], delivered[j] + 1}
    BY <2>3, <2>4, DeliveredOnce
  <2>5. UNCHANGED delivered \/ \E k \in Jobs : Deliver(k)
    BY <1>2, <2>2 DEF EnvironmentStep, Enqueue, EnqueueRequest, EnqueueEvent,
       ForeignRequest, AckWaitExpires, Receive, Crash, queue
  <2>6. delivered'[j] \in {delivered[j], delivered[j] + 1}
    BY <2>4, <2>5
  <2> QED
    BY <2>1, <2>2, <2>3, <2>6, BoundAssumption DEF Decided
<1>3. CASE UNCHANGED vars
  BY <1>3 DEF Decided, vars, queue
<1> QED
  BY <1>1, <1>2, <1>3 DEF Next, EnvironmentStep, Decided

\* Only two calls publish a terminal event.
LEMMA AnnouncedBy ==
  ASSUME TypeOK, NEW s \in Slots, HandlerStep(s), NEW j \in Jobs, Announced(j)'
  PROVE  \/ Announced(j)
         \/ handler[s].job = j /\ handler[s].pc \in {"emit_succeeded", "emit_failed_final"}
<1>1. CASE statusLog'[j] = statusLog[j]
  BY <1>1 DEF Announced
<1>2. CASE statusLog'[j] # statusLog[j]
  <2>1. Publishes(s, j)
    BY <1>2 DEF HandlerStep, LogStep
  <2>2. PICK i \in DOMAIN statusLog'[j] : statusLog'[j][i].terminal
    BY DEF Announced
  <2>3. \/ i \in DOMAIN statusLog[j] /\ statusLog'[j][i] = statusLog[j][i]
        \/ statusLog'[j][i] = Report(handler[s])
    BY <2>1, LogGrown, ReportIsEvent DEF Publishes
  <2> QED
    BY <2>1, <2>2, <2>3, ReportIsEvent DEF Publishes, Announced
<1> QED
  BY <1>1, <1>2

LEMMA DecidedInvNext ==
  ASSUME TypeOK, SuccessInv, ExhaustedInv, AttemptsCounted, DecidedInv, [Next]_vars
  PROVE  DecidedInv'
<1>1. ASSUME NEW s \in Slots, Step(s), used'.rebinds = 0, NEW j \in Jobs,
             row'[j].terminal \/ Announced(j)'
      PROVE  Decided(j)'
  <2>1. HandlerStep(s) /\ Move(s) /\ RowStep(s) /\ RestStep(s)
    BY <1>1, StepIsHandlerStep DEF HandlerStep
  <2>2. /\ used.rebinds = 0 /\ UNCHANGED delivered
        /\ returned \subseteq returned'
    BY <1>1, <2>1 DEF RestStep
  <2>3. CASE row[j].terminal \/ Announced(j)
    BY <2>2, <2>3 DEF DecidedInv, Decided
  <2>4. CASE ~(row[j].terminal \/ Announced(j))
    <3>1. /\ handler[s].job = j
          /\ handler[s].pc \in {"mark_completed", "emit_succeeded", "mark_terminal",
                                "emit_failed_final"}
      <4>1. CASE Announced(j)'
        BY <2>1, <2>4, <4>1, AnnouncedBy
      <4>2. CASE row'[j].terminal
        BY <2>1, <2>4, <4>2 DEF RowStep, Writes, Marking
      <4> QED
        BY <1>1, <4>1, <4>2
    <3>2. CASE handler[s].pc \in {"mark_completed", "emit_succeeded"}
      BY <2>2, <3>1, <3>2 DEF SuccessInv, TryBlock, Decided
    <3>3. CASE handler[s].pc \in {"mark_terminal", "emit_failed_final"}
      <4>1. handler[s].attempt >= MaxAttempts /\ handler[s].attempt <= delivered[j]
        BY <3>1, <3>3 DEF ExhaustedInv, GivesUpInOrder, GivingUp, AttemptsCounted
      <4>2. handler[s].attempt \in Nat /\ delivered[j] \in Nat
        BY <3>3, BusyHandler DEF TypeOK
      <4> QED
        BY BoundAssumption, <2>2, <4>1, <4>2 DEF Decided
    <3> QED
      BY <3>1, <3>2, <3>3
  <2> QED
    BY <2>3, <2>4
<1>2. ASSUME EnvironmentStep, used'.rebinds = 0, NEW j \in Jobs, row'[j].terminal \/ Announced(j)'
      PROVE  Decided(j)'
  <2>1. Surroundings /\ EnvironmentEffect
    BY <1>2, EnvironmentIsSurroundings, EnvironmentStepEffect
  <2>2. used.rebinds = 0
    BY <1>2, <2>1, BoundAssumption DEF EnvironmentEffect, TypeOK
  <2>3. row[j].terminal \/ Announced(j)
    <3>1. CASE row'[j].terminal
      BY <2>1, <3>1 DEF Surroundings
    <3>2. CASE Announced(j)' /\ statusLog'[j] = statusLog[j]
      BY <3>2 DEF Announced
    <3>3. CASE Announced(j)' /\ statusLog'[j] = Append(statusLog[j], PendingEvent)
      <4>1. PICK i \in DOMAIN statusLog'[j] : statusLog'[j][i].terminal
        BY <3>3 DEF Announced
      <4>2. i \in DOMAIN statusLog[j] /\ statusLog'[j][i] = statusLog[j][i]
        BY <3>3, <4>1, LogGrown, PendingIsEvent
      <4> QED
        BY <4>1, <4>2 DEF Announced
    <3> QED
      BY <1>2, <2>1, <3>1, <3>2, <3>3 DEF Surroundings
  <2>4. Decided(j)
    BY <2>2, <2>3 DEF DecidedInv
  <2> QED
    BY <1>2, <2>4, DecidedStays DEF Next, EnvironmentStep
<1>3. CASE UNCHANGED vars
  BY <1>3 DEF DecidedInv, Decided, Announced, vars, events, queue
<1> QED
  BY <1>1, <1>2, <1>3 DEF Next, EnvironmentStep, DecidedInv

LEMMA DecidedInvInit == Init => AttemptsCounted /\ DecidedInv
<1>1. ASSUME Init
      PROVE  /\ DOMAIN inbox = {} /\ \A s \in Slots : handler[s].pc = "idle"
             /\ \A j \in Jobs : ~row[j].terminal /\ DOMAIN statusLog[j] = {}
  BY <1>1, LenProperties, EmptySeq DEF Init, IdleHandler, AbsentRow
<1> QED
  BY <1>1 DEF AttemptsCounted, DecidedInv, Announced
-----------------------------------------------------------------------------
(* A worker with one handler on its first consumer.                        *)

OneHandler == \A s, t \in Slots : s = t

Works(s, j) == handler[s].pc # "idle" /\ handler[s].job = j

\* The row of j, the delivery being handled, the deliveries waiting in the inbox
\* and num_delivered carry attempts in this order.
AttemptsInOrder(j) ==
  /\ row[j].attempt <= delivered[j]
  /\ \A i \in DOMAIN inbox : inbox[i].job = j =>
       /\ row[j].attempt < inbox[i].attempt /\ inbox[i].attempt <= delivered[j]
       /\ \A k \in DOMAIN inbox : inbox[k].job = j /\ i < k =>
            inbox[i].attempt < inbox[k].attempt
  /\ \A s \in Slots : Works(s, j) =>
       /\ row[j].attempt <= handler[s].attempt /\ handler[s].attempt <= delivered[j]
       /\ \A i \in DOMAIN inbox : inbox[i].job = j => handler[s].attempt < inbox[i].attempt

OrderInv == OneHandler /\ used.rebinds = 0 => \A j \in Jobs : AttemptsInOrder(j)

LEMMA RowAttempts ==
  ASSUME TypeOK
  PROVE  \A j \in Jobs : row[j].attempt \in Nat /\ delivered[j] \in Nat
BY DEF TypeOK, Row

\* A step of the handler changes at most the attempt in its job's row.
LEMMA OrderStep ==
  ASSUME TypeOK, OneHandler, NEW s \in Slots, HandlerStep(s),
         NEW j \in Jobs, AttemptsInOrder(j)
  PROVE  AttemptsInOrder(j)' /\ row'[j].attempt >= row[j].attempt
<1>1. Move(s) /\ RowStep(s) /\ UNCHANGED <<delivered, inbox>>
  BY DEF HandlerStep, RestStep
<1>2. \A t \in Slots : Works(t, j)' => Works(t, j) /\ handler'[t].attempt = handler[t].attempt
  BY <1>1 DEF Move, Works, IdleHandler, Busy
<1>3. /\ row[j].attempt \in Nat /\ delivered[j] \in Nat
      /\ \A i \in DOMAIN inbox : inbox[i].attempt \in Nat
      /\ handler[s].attempt \in Nat /\ handler[s].pc # "idle"
  BY <1>1, RowAttempts, DeliveriesTyped DEF Move, Busy
<1>4. \/ row'[j].attempt = row[j].attempt
      \/ Works(s, j) /\ row'[j].attempt = handler[s].attempt
  BY <1>1, <1>3 DEF RowStep, Writes, Works
<1>5. CASE row'[j].attempt = row[j].attempt
  BY <1>1, <1>2, <1>3, <1>5 DEF AttemptsInOrder
<1>6. CASE Works(s, j) /\ row'[j].attempt = handler[s].attempt
  <2>1. /\ row[j].attempt <= handler[s].attempt /\ handler[s].attempt <= delivered[j]
        /\ \A i \in DOMAIN inbox : inbox[i].job = j => handler[s].attempt < inbox[i].attempt
    BY <1>6 DEF AttemptsInOrder
  <2>2. \A t \in Slots : t = s
    BY DEF OneHandler
  <2>3. \A i \in DOMAIN inbox : inbox[i].job = j =>
          /\ inbox[i].attempt <= delivered[j]
          /\ \A k \in DOMAIN inbox : inbox[k].job = j /\ i < k =>
               inbox[i].attempt < inbox[k].attempt
    BY DEF AttemptsInOrder
  <2>4. \A t \in Slots : Works(t, j)' => handler'[t].attempt = handler[s].attempt
    BY <1>2, <2>2
  <2> QED
    BY <1>1, <1>3, <1>6, <2>1, <2>3, <2>4 DEF AttemptsInOrder
<1> QED
  BY <1>4, <1>5, <1>6

LEMMA OrderDeliver ==
  ASSUME TypeOK, NEW k \in Jobs, Deliver(k), NEW j \in Jobs, AttemptsInOrder(j)
  PROVE  AttemptsInOrder(j)'
<1> DEFINE n == Len(inbox) + 1
<1>1. /\ DOMAIN inbox' = DOMAIN inbox \cup {n} /\ n \in Nat
      /\ \A i \in DOMAIN inbox : i \in Nat /\ i < n
      /\ \A i \in DOMAIN inbox : inbox'[i] = inbox[i]
      /\ inbox'[n].job = k /\ inbox'[n].attempt = delivered'[k]
      /\ delivered'[k] = delivered[k] + 1
      /\ \A l \in Jobs \ {k} : delivered'[l] = delivered[l]
      /\ UNCHANGED <<handler, row>>
  <2>1. /\ Len(inbox) \in Nat /\ DOMAIN inbox \subseteq 1 .. Len(inbox)
        /\ DOMAIN inbox' = DOMAIN inbox \cup {n}
        /\ \A i \in DOMAIN inbox : inbox'[i] = inbox[i]
        /\ inbox'[n].job = k /\ inbox'[n].attempt = delivered'[k]
        /\ delivered'[k] = delivered[k] + 1
        /\ \A l \in Jobs \ {k} : delivered'[l] = delivered[l]
        /\ UNCHANGED <<handler, row>>
    BY DeliveredOnce, Zenon
  <2>2. n \in Nat /\ \A i \in 1 .. Len(inbox) : i \in Nat /\ i < n
    BY <2>1
  <2> QED
    BY <2>1, <2>2
<1> HIDE DEF n
<1>2. /\ row[j].attempt \in Nat /\ delivered[j] \in Nat
      /\ \A i \in DOMAIN inbox : inbox[i].attempt \in Nat
      /\ \A t \in Slots : Works(t, j) => handler[t].attempt \in Nat
  BY RowAttempts, DeliveriesTyped, BusyHandler DEF Works
<1>3. \A t \in Slots : Works(t, j)' <=> Works(t, j)
  BY <1>1 DEF Works
<1>4. delivered'[j] \in Nat /\ delivered[j] <= delivered'[j]
  BY <1>1, <1>2
<1>5. row'[j].attempt <= delivered'[j]
  BY <1>1, <1>2, <1>4 DEF AttemptsInOrder
<1>6. ASSUME NEW i \in DOMAIN inbox', inbox'[i].job = j
      PROVE  /\ row'[j].attempt < inbox'[i].attempt /\ inbox'[i].attempt <= delivered'[j]
             /\ \A l \in DOMAIN inbox' : inbox'[l].job = j /\ i < l =>
                  inbox'[i].attempt < inbox'[l].attempt
             /\ \A t \in Slots : Works(t, j)' => handler'[t].attempt < inbox'[i].attempt
  <2>1. CASE i = n
    BY <1>1, <1>2, <1>3, <1>6, <2>1 DEF AttemptsInOrder
  <2>2. CASE i # n
    <3>1. i \in DOMAIN inbox /\ inbox'[i] = inbox[i] /\ inbox[i].job = j
      BY <1>1, <1>6, <2>2
    <3>2. /\ row[j].attempt < inbox[i].attempt /\ inbox[i].attempt <= delivered[j]
          /\ \A l \in DOMAIN inbox : inbox[l].job = j /\ i < l =>
               inbox[i].attempt < inbox[l].attempt
          /\ \A t \in Slots : Works(t, j) => handler[t].attempt < inbox[i].attempt
      BY <3>1 DEF AttemptsInOrder
    <3>3. inbox'[n].job = j => inbox[i].attempt < inbox'[n].attempt
      BY <1>1, <1>2, <3>1, <3>2
    <3> QED
      BY <1>1, <1>2, <1>3, <1>4, <3>1, <3>2, <3>3
  <2> QED
    BY <2>1, <2>2
<1>7. \A t \in Slots : Works(t, j)' =>
        row'[j].attempt <= handler'[t].attempt /\ handler'[t].attempt <= delivered'[j]
  BY <1>1, <1>2, <1>3, <1>4 DEF AttemptsInOrder
<1> QED
  BY <1>5, <1>6, <1>7 DEF AttemptsInOrder

LEMMA OrderReceive ==
  ASSUME TypeOK, OneHandler, NEW s \in Slots, Receive(s), NEW j \in Jobs, AttemptsInOrder(j)
  PROVE  AttemptsInOrder(j)'
<1>1. /\ 1 \in DOMAIN inbox
      /\ DOMAIN inbox \subseteq Nat /\ DOMAIN inbox' \subseteq Nat \ {0}
      /\ \A i \in DOMAIN inbox' : i + 1 \in DOMAIN inbox /\ inbox'[i] = inbox[i + 1]
      /\ UNCHANGED <<delivered, row>>
      /\ handler'[s].job = inbox[1].job /\ handler'[s].attempt = inbox[1].attempt
  BY ReceivedOldest
<1>2. /\ row[j].attempt \in Nat /\ delivered[j] \in Nat
      /\ \A i \in DOMAIN inbox : inbox[i].attempt \in Nat
  BY RowAttempts, DeliveriesTyped
<1>3. \A t \in Slots : t = s
  BY DEF OneHandler
<1>4. \A i \in DOMAIN inbox : inbox[i].job = j =>
        /\ row[j].attempt < inbox[i].attempt /\ inbox[i].attempt <= delivered[j]
        /\ \A l \in DOMAIN inbox : inbox[l].job = j /\ i < l =>
             inbox[i].attempt < inbox[l].attempt
  BY DEF AttemptsInOrder
<1>5. ASSUME NEW i \in DOMAIN inbox', inbox'[i].job = j
      PROVE  /\ row'[j].attempt < inbox'[i].attempt /\ inbox'[i].attempt <= delivered'[j]
             /\ \A l \in DOMAIN inbox' : inbox'[l].job = j /\ i < l =>
                  inbox'[i].attempt < inbox'[l].attempt
             /\ inbox[1].job = j => inbox[1].attempt < inbox'[i].attempt
  <2>1. i \in Nat \ {0} /\ i + 1 \in DOMAIN inbox /\ 1 < i + 1 /\ inbox'[i] = inbox[i + 1]
    BY <1>1, <1>5
  <2>2. ASSUME NEW l \in DOMAIN inbox', inbox'[l].job = j, i < l
        PROVE  inbox'[i].attempt < inbox'[l].attempt
    <3>1. l \in Nat /\ l + 1 \in DOMAIN inbox /\ inbox'[l] = inbox[l + 1] /\ i + 1 < l + 1
      BY <1>1, <2>1, <2>2
    <3> QED
      BY <1>4, <1>5, <2>1, <2>2, <3>1
  <2> QED
    BY <1>1, <1>4, <1>5, <2>1, <2>2
<1>6. ASSUME NEW t \in Slots, Works(t, j)'
      PROVE  /\ inbox[1].job = j /\ handler'[t].attempt = inbox[1].attempt
             /\ row[j].attempt < inbox[1].attempt /\ inbox[1].attempt <= delivered[j]
  BY <1>1, <1>3, <1>4, <1>6 DEF Works
<1>7. row'[j].attempt <= delivered'[j]
  BY <1>1 DEF AttemptsInOrder
<1>8. ASSUME NEW t \in Slots, Works(t, j)'
      PROVE  row'[j].attempt <= handler'[t].attempt /\ handler'[t].attempt <= delivered'[j]
  BY <1>1, <1>2, <1>6, <1>8
<1> QED
  BY <1>5, <1>6, <1>7, <1>8 DEF AttemptsInOrder

LEMMA OrderInvNext ==
  ASSUME TypeOK, OrderInv, [Next]_vars, OneHandler, used'.rebinds = 0
  PROVE  \A j \in Jobs : AttemptsInOrder(j)' /\ row'[j].attempt >= row[j].attempt
<1> SUFFICES ASSUME NEW j \in Jobs
             PROVE  AttemptsInOrder(j)' /\ row'[j].attempt >= row[j].attempt
  OBVIOUS
<1>1. used.rebinds = 0
  BY DecidedStays
<1>2. AttemptsInOrder(j) /\ row[j].attempt \in Nat
  BY <1>1, RowAttempts DEF OrderInv
<1>3. ASSUME NEW s \in Slots, Step(s)
      PROVE  AttemptsInOrder(j)' /\ row'[j].attempt >= row[j].attempt
  BY <1>2, <1>3, OrderStep, StepIsHandlerStep
<1>4. ASSUME row' = row, AttemptsInOrder(j)'
      PROVE  AttemptsInOrder(j)' /\ row'[j].attempt >= row[j].attempt
  BY <1>2, <1>4
<1>5. ASSUME NEW k \in Jobs, Deliver(k)
      PROVE  AttemptsInOrder(j)' /\ row'[j].attempt >= row[j].attempt
  BY <1>2, <1>4, <1>5, DeliveredOnce, OrderDeliver
<1>6. ASSUME NEW s \in Slots, Receive(s)
      PROVE  AttemptsInOrder(j)' /\ row'[j].attempt >= row[j].attempt
  BY <1>2, <1>4, <1>6, ReceivedOldest, OrderReceive
<1>7. CASE Crash
  <2>1. /\ UNCHANGED <<row, delivered>> /\ DOMAIN inbox' = {}
        /\ \A s \in Slots : handler'[s].pc = "idle"
    BY <1>7, LenProperties, EmptySeq DEF Crash, LoseWorkerMemory, IdleHandler
  <2>2. AttemptsInOrder(j)'
    BY <1>2, <2>1 DEF AttemptsInOrder, Works
  <2> QED
    BY <1>4, <2>1, <2>2
<1>8. ~Rebind
  BY <1>1 DEF Rebind, TypeOK
<1>9. CASE UNCHANGED <<delivered, inbox, handler, row>>
  BY <1>2, <1>4, <1>9 DEF AttemptsInOrder, Works
<1> QED
  BY <1>3, <1>5, <1>6, <1>7, <1>8, <1>9 DEF Next, Enqueue, EnqueueRequest, EnqueueEvent,
     ForeignRequest, AckWaitExpires, vars, queue

LEMMA OrderInvInit == Init => OrderInv
<1>1. ASSUME Init, NEW j \in Jobs
      PROVE  /\ DOMAIN inbox = {} /\ \A s \in Slots : handler[s].pc = "idle"
             /\ row[j].attempt = 0 /\ delivered[j] = 0
  BY <1>1, LenProperties, EmptySeq DEF Init, IdleHandler, AbsentRow
<1> QED
  BY <1>1 DEF OrderInv, AttemptsInOrder, Works

\* While the durable consumer is kept, a worker with one handler never takes a
\* job's attempt back: neither a redelivery after an early ack timeout nor a
\* crash lets a stale delivery overwrite a younger one (mark_processing).
THEOREM AttemptsGoUp ==
  ASSUME OneHandler, MaxRebinds = 0
  PROVE  Spec => AttemptsIncrease
<1>1. Init => OrderInv
  BY OrderInvInit
<1>2. TypeOK /\ OrderInv /\ [Next]_vars => OrderInv'
  BY OrderInvNext DEF OrderInv
<1>3. TypeOK /\ TypeOK' /\ OrderInv /\ [Next]_vars =>
        [\A j \in Jobs : row'[j].attempt >= row[j].attempt]_vars
  <2>1. TypeOK' => used'.rebinds = 0
    BY DEF TypeOK
  <2> QED
    BY <2>1, OrderInvNext
<1> QED
  BY <1>1, <1>2, <1>3, TypeCorrect, PTL DEF Spec, AttemptsIncrease
-----------------------------------------------------------------------------
(* What one handler publishes is what the row says.                        *)

\* The labels after the delivery's attempt was stored.
Underway == {"emit_started", "run", "mark_completed", "emit_completed", "emit_succeeded",
             "ack_succeeded", "mark_retrying", "emit_retrying", "mark_terminal",
             "emit_failed", "emit_failed_final"}

\* The row of s's job, if there is one, carries what s stored last.
RowFollows(s) ==
  LET h == handler[s]
      r == row[h.job]
  IN h.pc \in Underway /\ r.status # "absent" =>
       /\ r.attempt = h.attempt
       /\ h.pc = "emit_started" => r.status = "processing"
       /\ h.pc \in {"emit_completed", "emit_succeeded"} => r.status = "completed"
       /\ h.pc = "emit_retrying" => r.status = "failed" /\ ~r.terminal
       /\ h.pc \in {"emit_failed", "emit_failed_final"} => r.status = "failed" /\ r.terminal

AgreeInv == OneHandler => \A s \in Slots : RowFollows(s)

LEMMA AgreeStep ==
  ASSUME TypeOK, OneHandler, NEW s \in Slots, HandlerStep(s), RowFollows(s)
  PROVE  RowFollows(s)'
<1>1. Move(s) /\ RowStep(s)
  BY DEF HandlerStep
<1>2. PICK j \in Jobs : j = handler[s].job
  BY <1>1 DEF Move, Busy
<1>3. SUFFICES ASSUME handler'[s].pc \in Underway, row'[j].status # "absent",
                      handler'[s].job = j, handler'[s].attempt = handler[s].attempt,
                      \/ GoesOn(s)
                      \/ /\ handler[s].pc \in TryBlock
                         /\ handler'[s].pc \in {"mark_retrying", "mark_terminal"}
               PROVE  /\ row'[j].attempt = handler[s].attempt
                      /\ handler'[s].pc = "emit_started" => row'[j].status = "processing"
                      /\ handler'[s].pc \in {"emit_completed", "emit_succeeded"} =>
                           row'[j].status = "completed"
                      /\ handler'[s].pc = "emit_retrying" =>
                           row'[j].status = "failed" /\ ~row'[j].terminal
                      /\ handler'[s].pc \in {"emit_failed", "emit_failed_final"} =>
                           row'[j].status = "failed" /\ row'[j].terminal
  <2>1. handler'[s].pc \in Underway =>
          /\ handler'[s].job = j /\ handler'[s].attempt = handler[s].attempt
          /\ \/ GoesOn(s)
             \/ /\ handler[s].pc \in TryBlock
                /\ handler'[s].pc \in {"mark_retrying", "mark_terminal"}
    BY <1>1, <1>2 DEF Move, FailureLabel, Underway, IdleHandler
  <2> QED
    BY <2>1 DEF RowFollows
<1>4. CASE handler[s].pc \in Marking /\ GoesOn(s)
  <2>1. /\ handler[s].pc = "mark_processing" => handler'[s].pc = "emit_started"
        /\ handler[s].pc = "mark_completed" => handler'[s].pc = "emit_completed"
        /\ handler[s].pc = "mark_retrying" => handler'[s].pc = "emit_retrying"
        /\ handler[s].pc = "mark_terminal" => handler'[s].pc = "emit_failed"
    BY <1>4 DEF GoesOn, Onward, Marking
  <2>2. Writes(s, j)
    BY <1>1, <1>2, <1>3, <1>4 DEF RowStep
  <2>3. /\ row[j].status # "absent"
        /\ handler[s].pc # "mark_processing" => row[j].attempt = handler[s].attempt
    BY <1>2, <1>4, <2>2 DEF Writes, Marking, RowFollows, Underway
  <2>4. CASE handler[s].pc = "mark_processing"
    BY <2>1, <2>2, <2>4 DEF Writes, StatusMarked, Marking
  <2>5. CASE handler[s].pc = "mark_completed"
    BY <2>1, <2>2, <2>3, <2>5 DEF Writes, StatusMarked, Marking
  <2>6. CASE handler[s].pc = "mark_retrying"
    BY <2>1, <2>2, <2>3, <2>6 DEF Writes, StatusMarked, Marking
  <2>7. CASE handler[s].pc = "mark_terminal"
    BY <2>1, <2>2, <2>3, <2>7 DEF Writes, StatusMarked, Marking
  <2> QED
    BY <1>4, <2>4, <2>5, <2>6, <2>7 DEF Marking
<1>5. CASE handler[s].pc \notin Marking /\ GoesOn(s)
  <2>1. /\ handler[s].pc \in Underway
        /\ handler'[s].pc # "emit_started" /\ handler'[s].pc \notin {"emit_completed", "emit_retrying", "emit_failed"}
        /\ handler'[s].pc = "emit_succeeded" => handler[s].pc = "emit_completed"
        /\ handler'[s].pc = "emit_failed_final" => handler[s].pc = "emit_failed"
        /\ handler[s].pc # "register"
    BY <1>3, <1>5 DEF GoesOn, Onward, Marking, Underway
  <2>2. row'[j] = row[j]
    BY <1>1, <1>5, <2>1 DEF RowStep, Writes
  <2> QED
    BY <1>2, <1>3, <2>1, <2>2 DEF RowFollows
<1>6. CASE ~GoesOn(s)
  <2>1. /\ handler[s].pc \in Underway /\ handler[s].pc \notin {"register", "mark_processing"}
        /\ handler'[s].pc \in {"mark_retrying", "mark_terminal"}
    BY <1>3, <1>6 DEF TryBlock, Underway
  <2>2. /\ row'[j].attempt = row[j].attempt
        /\ row[j].status # "absent"
    BY <1>1, <1>3, <2>1 DEF RowStep, Writes
  <2> QED
    BY <1>2, <2>1, <2>2 DEF RowFollows
<1> QED
  BY <1>4, <1>5, <1>6

LEMMA AgreeInvNext ==
  ASSUME TypeOK, AgreeInv, [Next]_vars
  PROVE  AgreeInv'
<1> SUFFICES ASSUME OneHandler, NEW s \in Slots
             PROVE  RowFollows(s)'
  BY DEF AgreeInv
<1>1. RowFollows(s) /\ \A t \in Slots : t = s
  BY DEF AgreeInv, OneHandler
<1>2. CASE Step(s)
  BY <1>1, <1>2, AgreeStep, StepIsHandlerStep
<1>3. CASE EnvironmentStep
  <2>1. StartEffect /\ UNCHANGED row
    BY <1>3, EnvironmentIsSurroundings DEF Surroundings
  <2>2. CASE handler' = handler
    BY <1>1, <2>1, <2>2 DEF RowFollows
  <2>3. CASE handler' # handler
    <3>1. \A d : FirstLabel(d) \notin Underway
      BY DEF FirstLabel, Underway
    <3>2. handler'[s].pc \notin Underway
      BY <1>1, <2>1, <2>3, <3>1 DEF StartEffect, Underway, IdleHandler
    <3> QED
      BY <3>2 DEF RowFollows
  <2> QED
    BY <2>2, <2>3
<1>4. CASE UNCHANGED vars
  BY <1>1, <1>4 DEF RowFollows, vars
<1> QED
  BY <1>1, <1>2, <1>3, <1>4 DEF Next, EnvironmentStep

LEMMA AgreeInvInit == Init => AgreeInv
BY DEF Init, AgreeInv, RowFollows, Underway, IdleHandler

\* The last event of j's log is a pending event, is of a job without a row, or
\* says what the row said when it was published.
LastEventAgrees(j) ==
  LET e == statusLog'[j][Len(statusLog'[j])]
  IN \/ e.state = "ENQUEUED_OR_PENDING"
     \/ row[j].status = "absent"
     \/ e.state = LifecycleOf(row[j]) /\ e.attempt = row[j].attempt

LEMMA PublishedAgrees ==
  ASSUME TypeOK, NEW s \in Slots, RowFollows(s), NEW j \in Jobs, Publishes(s, j)
  PROVE  LastEventAgrees(j)
<1> DEFINE e == Report(handler[s])
<1>1. /\ handler[s].pc \in Emitting /\ handler[s].job = j
      /\ statusLog'[j][Len(statusLog'[j])] = e
  BY LogGrown, ReportIsEvent DEF Publishes
<1>2. CASE handler[s].pc = "emit_pending"
  BY <1>1, <1>2, ReportIsEvent DEF LastEventAgrees, ReportedState
<1>3. ASSUME handler[s].pc # "emit_pending", row[j].status # "absent"
      PROVE  e.state = LifecycleOf(row[j]) /\ e.attempt = row[j].attempt
  <2>1. e.attempt = handler[s].attempt /\ row[j].attempt = handler[s].attempt
    BY <1>1, <1>3, ReportIsEvent DEF RowFollows, Emitting, Underway
  <2>2. CASE handler[s].pc = "emit_started"
    <3>1. row[j].status = "processing"
      BY <1>1, <1>3, <2>2 DEF RowFollows, Underway
    <3>2. LifecycleOf(row[j]) = "STARTED"
      BY <3>1 DEF LifecycleOf
    <3> QED
      BY <1>1, <2>1, <2>2, <3>2, ReportIsEvent DEF ReportedState
  <2>3. CASE handler[s].pc = "emit_succeeded"
    <3>1. row[j].status = "completed"
      BY <1>1, <1>3, <2>3 DEF RowFollows, Underway
    <3>2. LifecycleOf(row[j]) = "SUCCEEDED"
      BY <3>1 DEF LifecycleOf
    <3> QED
      BY <1>1, <2>1, <2>3, <3>2, ReportIsEvent DEF ReportedState
  <2>4. CASE handler[s].pc = "emit_retrying"
    <3>1. row[j].status = "failed" /\ ~row[j].terminal
      BY <1>1, <1>3, <2>4 DEF RowFollows, Underway
    <3>2. LifecycleOf(row[j]) = "RETRYING"
      BY <3>1 DEF LifecycleOf
    <3> QED
      BY <1>1, <2>1, <2>4, <3>2, ReportIsEvent DEF ReportedState
  <2>5. CASE handler[s].pc = "emit_failed_final"
    <3>1. row[j].status = "failed" /\ row[j].terminal
      BY <1>1, <1>3, <2>5 DEF RowFollows, Underway
    <3>2. LifecycleOf(row[j]) = "FAILED_FINAL"
      BY <3>1 DEF LifecycleOf
    <3> QED
      BY <1>1, <2>1, <2>5, <3>2, ReportIsEvent DEF ReportedState
  <2> QED
    BY <1>1, <1>3, <2>2, <2>3, <2>4, <2>5 DEF Emitting
<1> HIDE DEF e
<1> QED
  BY <1>1, <1>2, <1>3 DEF LastEventAgrees

\* A worker with one handler publishes no event that the row contradicts: who
\* asks GetJobStatus after an event is not told an older state, even after a
\* lost write, a crash or the replacement of the durable consumer.
THEOREM EventsFollowRow ==
  ASSUME OneHandler
  PROVE  Spec => EventsAgreeWithRow
<1>1. TypeOK /\ AgreeInv /\ [Next]_vars =>
        [\A j \in Jobs : statusLog'[j] # statusLog[j] => LastEventAgrees(j)]_vars
  <2> SUFFICES ASSUME TypeOK, AgreeInv, Next,
                      NEW j \in Jobs, statusLog'[j] # statusLog[j]
               PROVE  LastEventAgrees(j)
    OBVIOUS
  <2>1. CASE EnvironmentStep
    <3>1. statusLog'[j] = Append(statusLog[j], PendingEvent)
      BY <2>1, EnvironmentIsSurroundings DEF Surroundings
    <3> QED
      BY <3>1, LogGrown, PendingIsEvent DEF LastEventAgrees
  <2>2. ASSUME NEW s \in Slots, Step(s)
        PROVE  LastEventAgrees(j)
    <3>1. Publishes(s, j)
      BY <2>2, StepIsHandlerStep DEF HandlerStep, LogStep
    <3>2. RowFollows(s)
      BY DEF AgreeInv
    <3> QED
      BY <3>1, <3>2, PublishedAgrees
  <2> QED
    BY <2>1, <2>2 DEF Next, EnvironmentStep
<1> QED
  BY <1>1, AgreeInvInit, AgreeInvNext, TypeCorrect, PTL DEF Spec, EventsAgreeWithRow, LastEventAgrees
-----------------------------------------------------------------------------
(* Queue and worker keep the promise of JobPromise.                        *)

\* Only what was published is delivered and handled, a malformed request never
\* reaches the script, and a terminal event is one of the two outcomes.
PromiseInv ==
  /\ \A j \in Jobs : client[j] = "idle" => consumer[j] = "absent"
  /\ \A i \in DOMAIN inbox : consumer[inbox[i].job] # "absent"
  /\ \A s \in Slots : handler[s].pc # "idle" =>
       /\ consumer[handler[s].job] # "absent"
       /\ handler[s].job \notin ValidJobs => handler[s].pc \in {"dlq_invalid", "nak", "ack"}
  /\ \A j \in Jobs : Announced(j) => Outcome(j) # {}

\* The outcomes in j's log grow by what s announces.
LEMMA OutcomeStep ==
  ASSUME TypeOK, NEW s \in Slots, HandlerStep(s), NEW j \in Jobs
  PROVE  Outcome(j)' = IF /\ Publishes(s, j)
                          /\ handler[s].pc \in {"emit_succeeded", "emit_failed_final"}
                       THEN Outcome(j) \cup {ReportedState(handler[s].pc)} ELSE Outcome(j)
<1>1. CASE statusLog'[j] = statusLog[j]
  <2>1. Outcome(j)' = Outcome(j)
    BY <1>1 DEF Outcome, Logged
  <2>2. ~Publishes(s, j)
    <3>1. SUFFICES ASSUME Publishes(s, j) PROVE FALSE
      OBVIOUS
    <3>2. statusLog[j] \in Seq(Event) /\ Report(handler[s]) \in Event
      BY <3>1, ReportIsEvent DEF Publishes, TypeOK
    <3>3. /\ Len(Append(statusLog[j], Report(handler[s]))) = Len(statusLog[j]) + 1
          /\ Len(statusLog[j]) \in Nat
      BY <3>2, AppendProperties, LenProperties
    <3> QED
      BY <1>1, <3>1, <3>3 DEF Publishes
  <2> QED
    BY <2>1, <2>2
<1>2. CASE statusLog'[j] # statusLog[j]
  <2>1. Publishes(s, j)
    BY <1>2 DEF HandlerStep, LogStep
  <2> DEFINE e == Report(handler[s])
  <2>2. /\ \A i \in DOMAIN statusLog[j] :
             i \in DOMAIN statusLog'[j] /\ statusLog'[j][i] = statusLog[j][i]
        /\ \A i \in DOMAIN statusLog'[j] :
             \/ i \in DOMAIN statusLog[j] /\ statusLog'[j][i] = statusLog[j][i]
             \/ statusLog'[j][i] = e
        /\ \E i \in DOMAIN statusLog'[j] : statusLog'[j][i] = e
        /\ e.state = ReportedState(handler[s].pc)
    BY <2>1, LogGrown, ReportIsEvent DEF Publishes
  <2> HIDE DEF e
  <2>3. \A state : Logged(j, state)' <=> Logged(j, state) \/ state = ReportedState(handler[s].pc)
    BY <2>2 DEF Logged
  <2>4. handler[s].pc \in Emitting \ {"emit_succeeded", "emit_failed_final"} =>
          ReportedState(handler[s].pc) \notin {"SUCCEEDED", "FAILED_FINAL"}
    BY DEF Emitting, ReportedState
  <2>5. handler[s].pc \in {"emit_succeeded", "emit_failed_final"} =>
          ReportedState(handler[s].pc) \in {"SUCCEEDED", "FAILED_FINAL"}
    BY DEF ReportedState
  <2> QED
    BY <2>1, <2>3, <2>4, <2>5 DEF Outcome, Publishes
<1> QED
  BY <1>1, <1>2

LEMMA OutcomeSurroundings ==
  ASSUME TypeOK, Surroundings, NEW j \in Jobs
  PROVE  Outcome(j)' = Outcome(j) /\ (Announced(j)' => Announced(j))
<1>1. CASE statusLog'[j] = statusLog[j]
  BY <1>1 DEF Outcome, Logged, Announced
<1>2. CASE statusLog'[j] = Append(statusLog[j], PendingEvent)
  <2>1. /\ \A i \in DOMAIN statusLog[j] :
             i \in DOMAIN statusLog'[j] /\ statusLog'[j][i] = statusLog[j][i]
        /\ \A i \in DOMAIN statusLog'[j] :
             \/ i \in DOMAIN statusLog[j] /\ statusLog'[j][i] = statusLog[j][i]
             \/ statusLog'[j][i] = PendingEvent
        /\ PendingEvent.state = "ENQUEUED_OR_PENDING" /\ ~PendingEvent.terminal
    BY <1>2, LogGrown, PendingIsEvent
  <2>2. \A state \in {"SUCCEEDED", "FAILED_FINAL"} : Logged(j, state)' <=> Logged(j, state)
    BY <2>1 DEF Logged
  <2> QED
    BY <2>1, <2>2 DEF Outcome, Announced
<1> QED
  BY <1>1, <1>2 DEF Surroundings

LEMMA PromiseInvStep ==
  ASSUME TypeOK, PromiseInv, NEW s \in Slots, Step(s)
  PROVE  PromiseInv'
<1>1. HandlerStep(s) /\ Move(s) /\ RestStep(s) /\ UNCHANGED <<client, inbox>>
  BY StepIsHandlerStep DEF HandlerStep, RestStep
<1>2. \A j \in Jobs : consumer'[j] = "absent" <=> consumer[j] = "absent"
  <2>1. handler[s].pc # "idle"
    BY <1>1 DEF Move, Busy
  <2> QED
    BY <1>1, <2>1 DEF RestStep, PromiseInv
<1>3. \A j \in Jobs : client'[j] = "idle" => consumer'[j] = "absent"
  BY <1>1, <1>2 DEF PromiseInv
<1>4. \A i \in DOMAIN inbox' : consumer'[inbox'[i].job] # "absent"
  BY <1>1, <1>2, DeliveriesTyped DEF PromiseInv
<1>5. ASSUME NEW t \in Slots, handler'[t].pc # "idle"
      PROVE  /\ consumer'[handler'[t].job] # "absent"
             /\ handler'[t].job \notin ValidJobs => handler'[t].pc \in {"dlq_invalid", "nak", "ack"}
  <2>1. /\ handler[t].pc # "idle" /\ handler[t].job \in Jobs
        /\ handler'[t].job = handler[t].job
    BY <1>1, <1>5, BusyHandler DEF Move, IdleHandler, Busy
  <2>2. handler[t].pc \in {"dlq_invalid", "nak", "ack"} => handler'[t].pc \in {"dlq_invalid", "nak", "ack"}
    <3>1. CASE t # s
      BY <1>1, <3>1 DEF Move
    <3>2. CASE t = s
      BY <1>1, <1>5, <3>2 DEF Move, GoesOn, Onward, TryBlock, IdleHandler
    <3> QED
      BY <3>1, <3>2
  <2> QED
    BY <1>2, <2>1, <2>2 DEF PromiseInv
<1>6. ASSUME NEW j \in Jobs, Announced(j)'
      PROVE  Outcome(j)' # {}
  <2>1. CASE Announced(j)
    BY <1>1, <2>1, OutcomeStep DEF PromiseInv
  <2>2. CASE ~Announced(j)
    <3>1. statusLog'[j] # statusLog[j]
      BY <1>6, <2>2 DEF Announced
    <3>2. Publishes(s, j)
      BY <1>1, <3>1 DEF HandlerStep, LogStep
    <3>3. handler[s].pc \in {"emit_succeeded", "emit_failed_final"}
      BY <1>1, <1>6, <2>2, AnnouncedBy
    <3> QED
      BY <1>1, <3>2, <3>3, OutcomeStep
  <2> QED
    BY <2>1, <2>2
<1> QED
  BY <1>3, <1>4, <1>5, <1>6 DEF PromiseInv

LEMMA PromiseInvEnvironment ==
  ASSUME TypeOK, PromiseInv, EnvironmentStep
  PROVE  PromiseInv'
<1>1. Surroundings
  BY EnvironmentIsSurroundings
<1>2. \A j \in Jobs : Announced(j)' => Outcome(j)' # {}
  BY <1>1, OutcomeSurroundings DEF PromiseInv
<1>3. \A j \in Jobs : consumer'[j] = "absent" => consumer[j] = "absent"
  <2>1. ASSUME NEW k \in Jobs, NEW v \in {"ready", "outstanding"},
               consumer' = [consumer EXCEPT ![k] = v]
        PROVE  \A j \in Jobs : consumer'[j] = "absent" => consumer[j] = "absent"
    BY <2>1 DEF TypeOK
  <2>2. ASSUME NEW k \in Jobs, NEW o \in Outcomes, EnqueueRequest(k, o)
        PROVE  \A j \in Jobs : consumer'[j] = "absent" => consumer[j] = "absent"
    BY <2>1, <2>2 DEF EnqueueRequest, PublishRequest
  <2>3. ASSUME NEW k \in Jobs, ForeignRequest(k) \/ Deliver(k) \/ AckWaitExpires(k)
        PROVE  \A j \in Jobs : consumer'[j] = "absent" => consumer[j] = "absent"
    BY <2>1, <2>3 DEF ForeignRequest, PublishRequest, Deliver, AckWaitExpires, Happened
  <2>4. CASE Rebind
    BY <2>4 DEF Rebind
  <2>5. UNCHANGED consumer \/ Rebind
        \/ \E k \in Jobs : \/ ForeignRequest(k) \/ Deliver(k) \/ AckWaitExpires(k)
                           \/ \E o \in Outcomes : EnqueueRequest(k, o)
    BY DEF EnvironmentStep, Enqueue, EnqueueEvent, Receive, Crash, queue
  <2> QED
    BY <2>2, <2>3, <2>4, <2>5
<1>4. \A j \in Jobs : client'[j] = "idle" => consumer'[j] = "absent"
  <2>1. ASSUME NEW k \in Jobs, NEW o \in Outcomes, EnqueueRequest(k, o) \/ EnqueueEvent(k, o)
        PROVE  \A j \in Jobs : client'[j] = "idle" => consumer'[j] = "absent"
    <3>1. \A j \in Jobs : client'[j] = IF j # k THEN client[j] ELSE client'[k]
      BY <2>1 DEF EnqueueRequest, EnqueueEvent, TypeOK
    <3>2. client'[k] # "idle"
      BY <2>1 DEF EnqueueRequest, EnqueueEvent, TypeOK
    <3>3. \A j \in Jobs \ {k} : consumer'[j] = consumer[j]
      BY <2>1 DEF EnqueueRequest, EnqueueEvent, PublishRequest, TypeOK, queue
    <3> QED
      BY <3>1, <3>2, <3>3 DEF PromiseInv
  <2>2. ASSUME NEW k \in Jobs, ForeignRequest(k)
        PROVE  \A j \in Jobs : client'[j] = "idle" => consumer'[j] = "absent"
    BY <2>2 DEF ForeignRequest, PublishRequest, TypeOK, PromiseInv
  <2>3. ASSUME NEW k \in Jobs, Deliver(k) \/ AckWaitExpires(k)
        PROVE  \A j \in Jobs : client'[j] = "idle" => consumer'[j] = "absent"
    BY <2>3 DEF Deliver, AckWaitExpires, TypeOK, PromiseInv, api
  <2>4. CASE (\E s \in Slots : Receive(s)) \/ Crash \/ Rebind
    BY <2>4 DEF Receive, Crash, Rebind, PromiseInv, api
  <2> QED
    BY <2>1, <2>2, <2>3, <2>4 DEF EnvironmentStep, Enqueue
<1>5. \A i \in DOMAIN inbox' : consumer'[inbox'[i].job] # "absent"
  <2>1. CASE UNCHANGED inbox
    BY <1>3, <2>1, DeliveriesTyped DEF PromiseInv
  <2>2. ASSUME NEW k \in Jobs, Deliver(k)
        PROVE  \A i \in DOMAIN inbox' : inbox'[i].job \in Jobs /\ consumer[inbox'[i].job] # "absent"
    <3>1. consumer[k] # "absent"
      BY <2>2 DEF Deliver
    <3> QED
      BY <2>2, <3>1, DeliveredOnce, DeliveriesTyped DEF PromiseInv
  <2>3. ASSUME NEW s \in Slots, Receive(s)
        PROVE  \A i \in DOMAIN inbox' : inbox'[i].job \in Jobs /\ consumer[inbox'[i].job] # "absent"
    BY <2>3, ReceivedOldest, DeliveriesTyped DEF PromiseInv
  <2>4. CASE Crash \/ Rebind
    BY <2>4, LenProperties, EmptySeq DEF Crash, Rebind, LoseWorkerMemory
  <2> QED
    BY <1>3, <2>1, <2>2, <2>3, <2>4 DEF EnvironmentStep, Enqueue, EnqueueRequest, EnqueueEvent,
       ForeignRequest, AckWaitExpires, queue
<1>6. ASSUME NEW t \in Slots, handler'[t].pc # "idle"
      PROVE  /\ consumer'[handler'[t].job] # "absent"
             /\ handler'[t].job \notin ValidJobs => handler'[t].pc \in {"dlq_invalid", "nak", "ack"}
  <2>1. CASE handler'[t] = handler[t]
    <3>1. handler[t].job \in Jobs
      BY <1>6, <2>1, BusyHandler
    <3> QED
      BY <1>3, <1>6, <2>1, <3>1 DEF PromiseInv
  <2>2. CASE handler'[t] # handler[t]
    <3>1. Receive(t)
      <4>1. ~LoseWorkerMemory
        BY <1>6 DEF LoseWorkerMemory, IdleHandler
      <4>2. PICK s \in Slots : Receive(s)
        BY <2>2, <4>1 DEF EnvironmentStep, Enqueue, EnqueueRequest, EnqueueEvent,
           ForeignRequest, Deliver, AckWaitExpires, Crash, Rebind
      <4> QED
        BY <2>2, <4>2, ReceivedOldest
    <3>2. /\ handler'[t].job = inbox[1].job /\ handler'[t].pc = FirstLabel(inbox[1])
          /\ inbox[1].job \in Jobs /\ consumer[inbox[1].job] # "absent"
      BY <3>1, ReceivedOldest, DeliveriesTyped DEF PromiseInv
    <3>3. inbox[1].job \notin ValidJobs => FirstLabel(inbox[1]) \in {"dlq_invalid", "nak", "ack"}
      BY <3>2 DEF FirstLabel, ValidJobs
    <3> QED
      BY <1>3, <3>2, <3>3
  <2> QED
    BY <2>1, <2>2
<1> QED
  BY <1>2, <1>4, <1>5, <1>6 DEF PromiseInv

LEMMA PromiseInvInit == Init => PromiseInv
<1>1. ASSUME Init
      PROVE  /\ DOMAIN inbox = {} /\ \A s \in Slots : handler[s].pc = "idle"
             /\ \A j \in Jobs : consumer[j] = "absent" /\ DOMAIN statusLog[j] = {}
  BY <1>1, LenProperties, EmptySeq DEF Init, IdleHandler
<1> QED
  BY <1>1 DEF PromiseInv, Announced

\* The values JobPromise's variables have under the mapping.
Phases == [j \in ValidJobs |-> Phase(j)]
OutcomesOf == [j \in ValidJobs |-> Outcome(j)]

PromiseStep == [Promise!Next]_(Promise!vars)

\* A step that maps to a stutter.
LEMMA PromiseStutter ==
  ASSUME UNCHANGED returned,
         \A j \in ValidJobs : Phase(j)' = Phase(j) /\ Outcome(j)' = Outcome(j)
  PROVE  PromiseStep
<1>1. UNCHANGED <<Phases, OutcomesOf>>
  BY DEF Phases, OutcomesOf
<1> QED
  BY <1>1 DEF PromiseStep, Promise!vars, Phases, OutcomesOf

\* A step that maps to a step of one request.
LEMMA PromiseOne ==
  ASSUME NEW r \in ValidJobs,
         \A j \in ValidJobs \ {r} : Phase(j)' = Phase(j) /\ Outcome(j)' = Outcome(j),
         \/ /\ Phase(r) = "absent" /\ Phase(r)' = "open"
            /\ Outcome(r)' = Outcome(r) /\ UNCHANGED returned
         \/ /\ Phase(r) # "absent" /\ returned' = returned \cup {r}
            /\ Phase(r)' = Phase(r) /\ Outcome(r)' = Outcome(r)
         \/ /\ Phase(r) = "open" /\ Outcome(r) # {} /\ Phase(r)' = "closed"
            /\ Outcome(r)' = Outcome(r) /\ UNCHANGED returned
         \/ \E outcome \in {"SUCCEEDED", "FAILED_FINAL"} :
              /\ Phase(r) # "absent" /\ (outcome = "SUCCEEDED" => r \in returned)
              /\ Outcome(r)' = Outcome(r) \cup {outcome}
              /\ Phase(r)' = Phase(r) /\ UNCHANGED returned
  PROVE  PromiseStep
<1>1. CASE Phase(r) = "absent" /\ Phase(r)' = "open" /\ Outcome(r)' = Outcome(r) /\ UNCHANGED returned
  <2>1. Promise!Submit(r)
    BY <1>1 DEF Promise!Submit
  <2> QED
    BY <2>1 DEF PromiseStep, Promise!Next
<1>2. CASE /\ Phase(r) # "absent" /\ returned' = returned \cup {r}
           /\ Phase(r)' = Phase(r) /\ Outcome(r)' = Outcome(r)
  <2>1. Promise!Run(r)
    BY <1>2 DEF Promise!Run
  <2> QED
    BY <2>1 DEF PromiseStep, Promise!Next
<1>3. CASE /\ Phase(r) = "open" /\ Outcome(r) # {} /\ Phase(r)' = "closed"
           /\ Outcome(r)' = Outcome(r) /\ UNCHANGED returned
  <2>1. Promise!Close(r)
    BY <1>3 DEF Promise!Close
  <2> QED
    BY <2>1 DEF PromiseStep, Promise!Next
<1>4. ASSUME NEW outcome \in {"SUCCEEDED", "FAILED_FINAL"},
             Phase(r) # "absent", outcome = "SUCCEEDED" => r \in returned,
             Outcome(r)' = Outcome(r) \cup {outcome}, Phase(r)' = Phase(r), UNCHANGED returned
      PROVE  PromiseStep
  <2>1. Promise!Announce(r, outcome)
    BY <1>4 DEF Promise!Announce
  <2> QED
    BY <2>1 DEF PromiseStep, Promise!Next, Promise!Terminal
<1> QED
  BY <1>1, <1>2, <1>3, <1>4

LEMMA PhaseAt ==
  ASSUME TypeOK, NEW j \in Jobs
  PROVE  /\ Phase(j) = "absent" <=> consumer[j] = "absent"
         /\ Phase(j) = "closed" <=> consumer[j] = "acked"
         /\ Phase(j) = "open" <=> consumer[j] \in {"ready", "outstanding"}
         /\ Phase(j)' = "closed" <=> consumer'[j] = "acked"
         /\ Phase(j)' = "open" <=> consumer'[j] \notin {"absent", "acked"}
BY DEF Phase, TypeOK

LEMMA HandlerKeepsPromise ==
  ASSUME TypeOK, PromiseInv, AckInv, SuccessInv, used.rebinds = 0,
         NEW s \in Slots, HandlerStep(s)
  PROVE  PromiseStep
<1>1. PICK h \in Jobs : h = handler[s].job
  BY DEF HandlerStep, Move, Busy
<1>2. /\ handler[s].pc # "idle" /\ consumer[h] # "absent" /\ Phase(h) # "absent"
      /\ h \notin ValidJobs => handler[s].pc \in {"dlq_invalid", "nak", "ack"}
  BY <1>1, PhaseAt DEF HandlerStep, Move, Busy, PromiseInv
<1>3. ASSUME NEW j \in Jobs \ {h}
      PROVE  Phase(j)' = Phase(j) /\ Outcome(j)' = Outcome(j)
  <2>1. consumer'[j] = consumer[j] /\ ~Publishes(s, j)
    BY <1>1, <1>3 DEF HandlerStep, RestStep, Publishes
  <2> QED
    BY <2>1, OutcomeStep DEF Phase
<1>4. handler[s].pc \notin {"ack", "ack_succeeded"} => Phase(h)' = Phase(h)
  BY <1>1, PhaseAt DEF HandlerStep, RestStep, Phase
<1>5. ~(handler[s].pc = "run" /\ GoesOn(s)) => UNCHANGED returned
  BY DEF HandlerStep, RestStep
<1>6. CASE h \in ValidJobs /\ Publishes(s, h) /\ handler[s].pc \in {"emit_succeeded", "emit_failed_final"}
  <2>1. Outcome(h)' = Outcome(h) \cup {ReportedState(handler[s].pc)}
    BY <1>6, OutcomeStep
  <2>2. /\ ReportedState(handler[s].pc) \in {"SUCCEEDED", "FAILED_FINAL"}
        /\ ReportedState(handler[s].pc) = "SUCCEEDED" => h \in returned
    BY <1>1, <1>6 DEF ReportedState, SuccessInv, TryBlock
  <2>3. Phase(h)' = Phase(h) /\ UNCHANGED returned
    BY <1>4, <1>5, <1>6
  <2>4. \A j \in ValidJobs \ {h} : Phase(j)' = Phase(j) /\ Outcome(j)' = Outcome(j)
    BY <1>3 DEF ValidJobs
  <2> QED
    BY <1>2, <1>6, <2>1, <2>2, <2>3, <2>4, PromiseOne
<1>7. CASE h \in ValidJobs /\ ~(Publishes(s, h) /\ handler[s].pc \in {"emit_succeeded", "emit_failed_final"})
  <2>1. Outcome(h)' = Outcome(h)
    BY <1>7, OutcomeStep
  <2>2. \A j \in ValidJobs \ {h} : Phase(j)' = Phase(j) /\ Outcome(j)' = Outcome(j)
    BY <1>3 DEF ValidJobs
  <2>3. CASE handler[s].pc = "run" /\ GoesOn(s)
    <3>1. returned' = returned \cup {h} /\ Phase(h)' = Phase(h)
      BY <1>1, <1>4, <2>3 DEF HandlerStep, RestStep
    <3> QED
      BY <1>2, <1>7, <2>1, <2>2, <3>1, PromiseOne
  <2>4. CASE Phase(h)' = Phase(h) /\ UNCHANGED returned
    BY <1>7, <2>1, <2>2, <2>4, PromiseStutter
  <2>5. CASE Phase(h)' # Phase(h)
    <3>1. handler[s].pc \in {"ack", "ack_succeeded"} /\ consumer'[h] = "acked" /\ consumer[h] # "acked"
      BY <1>1, <1>4, <2>5, PhaseAt DEF HandlerStep, RestStep, Phase
    <3>2. Announced(h)
      BY <1>1, <1>7, <3>1 DEF AckInv, AckIsDue, Settled
    <3>3. Phase(h) = "open" /\ Phase(h)' = "closed" /\ UNCHANGED returned
      BY <1>2, <1>5, <3>1, PhaseAt DEF TypeOK
    <3>4. Outcome(h) # {}
      BY <3>2 DEF PromiseInv
    <3> QED
      BY <1>7, <2>1, <2>2, <3>3, <3>4, PromiseOne
  <2> QED
    BY <1>5, <2>3, <2>4, <2>5
<1>8. CASE h \notin ValidJobs
  <2>1. UNCHANGED returned
    BY <1>2, <1>5, <1>8
  <2>2. \A j \in ValidJobs : Phase(j)' = Phase(j) /\ Outcome(j)' = Outcome(j)
    BY <1>3, <1>8 DEF ValidJobs
  <2> QED
    BY <2>1, <2>2, PromiseStutter
<1> QED
  BY <1>6, <1>7, <1>8

LEMMA EnvironmentKeepsPromise ==
  ASSUME TypeOK, PromiseInv, EnvironmentStep, ~Rebind
  PROVE  PromiseStep
<1>1. /\ UNCHANGED returned
      /\ \A j \in Jobs : Outcome(j)' = Outcome(j)
  <2>1. Surroundings
    BY EnvironmentIsSurroundings
  <2> QED
    BY <2>1, OutcomeSurroundings DEF Surroundings
<1>2. ASSUME NEW r \in Jobs, NEW o \in Outcomes, EnqueueRequest(r, o)
      PROVE  PromiseStep
  <2>1. r \in ValidJobs /\ consumer[r] = "absent" /\ Phase(r) = "absent"
    BY <1>2, PhaseAt DEF EnqueueRequest, PromiseInv
  <2>2. /\ \A j \in Jobs \ {r} : consumer'[j] = consumer[j]
        /\ consumer'[r] \in {"absent", "ready"}
    BY <1>2, <2>1 DEF EnqueueRequest, PublishRequest, TypeOK
  <2>3. \A j \in ValidJobs \ {r} : Phase(j)' = Phase(j) /\ Outcome(j)' = Outcome(j)
    BY <1>1, <2>2 DEF Phase, ValidJobs
  <2>4. CASE consumer'[r] = "absent"
    <3>1. Phase(r)' = Phase(r)
      BY <2>1, <2>4 DEF Phase
    <3> QED
      BY <1>1, <2>1, <2>3, <3>1, PromiseStutter
  <2>5. CASE consumer'[r] = "ready"
    <3>1. Phase(r)' = "open"
      BY <2>5 DEF Phase
    <3> QED
      BY <1>1, <2>1, <2>3, <3>1, PromiseOne
  <2> QED
    BY <2>2, <2>4, <2>5
<1>3. ASSUME ~\E r \in Jobs, o \in Outcomes : EnqueueRequest(r, o)
      PROVE  PromiseStep
  <2>1. \A j \in ValidJobs : Phase(j)' = Phase(j)
    <3>1. ASSUME NEW k \in Jobs, ForeignRequest(k)
          PROVE  \A j \in ValidJobs : consumer'[j] = consumer[j]
      BY <3>1 DEF ForeignRequest, PublishRequest, TypeOK, ValidJobs
    <3>2. ASSUME NEW k \in Jobs, Deliver(k) \/ AckWaitExpires(k)
          PROVE  \A j \in Jobs : \/ consumer'[j] = consumer[j]
                                 \/ {consumer[j], consumer'[j]} \subseteq {"ready", "outstanding"}
      BY <3>2 DEF Deliver, AckWaitExpires, TypeOK
    <3>3. UNCHANGED consumer \/ \E k \in Jobs : ForeignRequest(k) \/ Deliver(k) \/ AckWaitExpires(k)
      BY <1>3 DEF EnvironmentStep, Enqueue, EnqueueEvent, Receive, Crash, Rebind, queue
    <3> QED
      BY <3>1, <3>2, <3>3 DEF Phase, ValidJobs
  <2> QED
    BY <1>1, <2>1, PromiseStutter DEF ValidJobs
<1> QED
  BY <1>2, <1>3

LEMMA PromiseInitially == Init => Promise!Init
<1>1. ASSUME Init
      PROVE  /\ \A j \in ValidJobs : Phase(j) = "absent" /\ Outcome(j) = {}
             /\ returned = {}
  <2>1. \A j \in Jobs : consumer[j] = "absent" /\ DOMAIN statusLog[j] = {}
    BY <1>1, LenProperties, EmptySeq DEF Init
  <2> QED
    BY <1>1, <2>1 DEF Phase, Outcome, Logged, ValidJobs, Init
<1> QED
  BY <1>1 DEF Promise!Init

\* As long as the durable consumer is kept, queue and worker implement the
\* at-least-once promise: every step of the API, of JetStream, of any handler
\* and of a crash is a step of JobPromise or changes nothing it speaks of.
THEOREM PromiseKept ==
  ASSUME MaxRebinds = 0
  PROVE  Spec => Promise!Spec
<1>1. Init => TypeOK /\ PromiseInv /\ AckInv /\ SuccessInv /\ Promise!Init
  BY TypeInit, PromiseInvInit, AckInvInit, SuccessInvInit, PromiseInitially
<1>2. TypeOK /\ PromiseInv /\ [Next]_vars => PromiseInv'
  <2> SUFFICES ASSUME TypeOK, PromiseInv, [Next]_vars
               PROVE  PromiseInv'
    OBVIOUS
  <2>1. CASE UNCHANGED vars
    BY <2>1 DEF PromiseInv, Announced, Outcome, Logged, vars, api, queue, events
  <2> QED
    BY <2>1, PromiseInvStep, PromiseInvEnvironment DEF Next, EnvironmentStep
<1>3. TypeOK /\ PromiseInv /\ AckInv /\ SuccessInv /\ [Next]_vars => PromiseStep
  <2> SUFFICES ASSUME TypeOK, PromiseInv, AckInv, SuccessInv, [Next]_vars
               PROVE  PromiseStep
    OBVIOUS
  <2>1. used.rebinds = 0
    BY BoundAssumption DEF TypeOK
  <2>2. CASE UNCHANGED vars
    <3>1. UNCHANGED <<consumer, statusLog, returned>>
      BY <2>2 DEF vars, queue, events
    <3> QED
      BY <3>1, PromiseStutter DEF Phase, Outcome, Logged
  <2>3. CASE EnvironmentStep
    <3>1. ~Rebind
      BY <2>1 DEF Rebind
    <3> QED
      BY <2>3, <3>1, EnvironmentKeepsPromise
  <2>4. ASSUME NEW s \in Slots, Step(s)
        PROVE  PromiseStep
    BY <2>1, <2>4, StepIsHandlerStep, HandlerKeepsPromise
  <2> QED
    BY <2>2, <2>3, <2>4 DEF Next, EnvironmentStep
<1> QED
  BY <1>1, <1>2, <1>3, AckInvNext, SuccessInvNext, TypeCorrect, PTL
  DEF Spec, Promise!Spec, PromiseStep
-----------------------------------------------------------------------------
(* The first attempt of a job is started once, for any number of handlers, *)
(* faults, crashes, early ack timeouts and consumer replacements: the      *)
(* insert on job_id lets one handler per job through to it.                *)

FirstStart == StatusEvent("STARTED", 1, FALSE)

HasStarted(j) == \E i \in DOMAIN statusLog[j] : statusLog[j][i] = FirstStart

StartedOnce(j) ==
  \A i, k \in DOMAIN statusLog[j] :
    statusLog[j][i] = FirstStart /\ statusLog[j][k] = FirstStart => i = k

\* s has registered j and is on its way to report the first start.
Launching(s, j) ==
  /\ handler[s].job = j /\ handler[s].attempt = 1
  /\ handler[s].pc \in {"emit_pending", "mark_processing", "emit_started"}

StartInv ==
  \A j \in Jobs :
    /\ StartedOnce(j)
    /\ row[j].status = "absent" => ~HasStarted(j)
    /\ \A s \in Slots : Launching(s, j) =>
         /\ row[j].status # "absent" /\ ~HasStarted(j)
         /\ \A t \in Slots : Launching(t, j) => t = s

\* The log of j stays, or grows by an event that is the first start only if
\* s was to report it, and then s goes on.
LogGrows(s, j) ==
  \/ statusLog'[j] = statusLog[j]
  \/ \E e \in Event :
       /\ statusLog'[j] = Append(statusLog[j], e)
       /\ e = FirstStart => Launching(s, j) /\ ~Launching(s, j)'

\* s comes to the start of j by the insert of its row.
LEMMA LaunchStep ==
  ASSUME TypeOK, NEW s \in Slots, HandlerStep(s), NEW j \in Jobs
  PROVE  /\ LogGrows(s, j)
         /\ Launching(s, j)' =>
              \/ Launching(s, j)
              \/ Registering(s, j) /\ row[j].status = "absent" /\ row'[j].status # "absent"
<1>1. Move(s) /\ LogStep(s) /\ RowStep(s)
  BY DEF HandlerStep
<1>2. LogGrows(s, j)
  <2>1. CASE statusLog'[j] = statusLog[j]
    BY <2>1 DEF LogGrows
  <2>2. CASE statusLog'[j] # statusLog[j]
    <3>1. Publishes(s, j)
      BY <1>1, <2>2 DEF LogStep
    <3>2. PICK e \in Event : /\ e = Report(handler[s]) /\ e.state = ReportedState(handler[s].pc)
                             /\ handler[s].pc # "emit_pending" => e.attempt = handler[s].attempt
      BY <3>1, ReportIsEvent DEF Publishes
    <3>3. ASSUME e = FirstStart
          PROVE  handler[s].pc = "emit_started" /\ handler[s].attempt = 1
      <4>1. e.state = "STARTED" /\ e.attempt = 1
        BY <3>3 DEF FirstStart, StatusEvent
      <4> QED
        BY <3>1, <3>2, <4>1 DEF ReportedState, Publishes, Emitting
    <3>4. handler[s].pc = "emit_started" =>
            handler'[s].pc \notin {"emit_pending", "mark_processing", "emit_started"}
      BY <1>1 DEF Move, GoesOn, Onward, IdleHandler, FailureLabel
    <3> QED
      BY <3>1, <3>2, <3>3, <3>4 DEF LogGrows, Launching, Publishes
  <2> QED
    BY <2>1, <2>2
<1>3. ASSUME Launching(s, j)', ~Launching(s, j)
      PROVE  Registering(s, j) /\ row[j].status = "absent" /\ row'[j].status # "absent"
  <2>1. /\ handler'[s].job = handler[s].job /\ handler'[s].attempt = handler[s].attempt
        /\ handler'[s].pc \in {"emit_pending", "mark_processing", "emit_started"}
    BY <1>1, <1>3 DEF Move, Launching, IdleHandler
  <2>2. GoesOn(s) /\ handler[s].pc = "register" /\ handler'[s].pc = "emit_pending"
    BY <1>1, <1>3, <2>1 DEF Move, Launching, IdleHandler, GoesOn, Onward, FailureLabel
  <2>3. handler[s].job = j /\ row[j].status = "absent"
    BY <1>1, <1>3, <2>1, <2>2 DEF RowStep, Launching
  <2>4. row'[j].status = "requested"
    BY <1>1, <2>2, <2>3 DEF RowStep, Writes, StatusMarked
  <2> QED
    BY <2>2, <2>3, <2>4 DEF Registering
<1> QED
  BY <1>2, <1>3

LEMMA AppendStart ==
  ASSUME TypeOK, NEW j \in Jobs, NEW e \in Event, statusLog'[j] = Append(statusLog[j], e)
  PROVE  /\ HasStarted(j)' => HasStarted(j) \/ e = FirstStart
         /\ StartedOnce(j) /\ (e = FirstStart => ~HasStarted(j)) => StartedOnce(j)'
<1>1. \A i \in DOMAIN statusLog'[j] :
        \/ i \in DOMAIN statusLog[j] /\ statusLog'[j][i] = statusLog[j][i]
        \/ i = Len(statusLog'[j]) /\ statusLog'[j][i] = e
  BY LogGrown
<1> QED
  BY <1>1 DEF StartedOnce, HasStarted

LEMMA StartInvStep ==
  ASSUME TypeOK, StartInv, NEW s \in Slots, Step(s)
  PROVE  StartInv'
<1>1. HandlerEffect(s) /\ StoreEffect(s) /\ HandlerStep(s)
  BY StepEffect, StepIsHandlerStep
<1>2. \A t \in Slots \ {s} : \A j \in Jobs : Launching(t, j)' <=> Launching(t, j)
  BY <1>1 DEF HandlerEffect, Launching
<1>3. ASSUME NEW j \in Jobs
      PROVE  /\ StartedOnce(j)'
             /\ HasStarted(j)' => HasStarted(j) \/ (Launching(s, j) /\ ~Launching(s, j)')
  <2>1. CASE statusLog'[j] = statusLog[j]
    BY <2>1 DEF StartInv, StartedOnce, HasStarted
  <2>2. CASE statusLog'[j] # statusLog[j]
    <3>1. PICK e \in Event : /\ statusLog'[j] = Append(statusLog[j], e)
                             /\ e = FirstStart => Launching(s, j) /\ ~Launching(s, j)'
      BY <1>1, <2>2, LaunchStep DEF LogGrows
    <3>2. e = FirstStart => ~HasStarted(j)
      BY <3>1 DEF StartInv
    <3> QED
      BY <3>1, <3>2, AppendStart DEF StartInv
  <2> QED
    BY <2>1, <2>2
<1>4. ASSUME NEW j \in Jobs, row'[j].status = "absent"
      PROVE  ~HasStarted(j)'
  <2>1. row[j].status = "absent"
    BY <1>1, <1>4 DEF StoreEffect
  <2> QED
    BY <1>3, <2>1 DEF StartInv
<1>5. ASSUME NEW j \in Jobs, NEW t \in Slots, Launching(t, j)'
      PROVE  /\ row'[j].status # "absent" /\ ~HasStarted(j)'
             /\ \A u \in Slots : Launching(u, j)' => u = t
  <2>1. CASE Launching(t, j)
    <3>1. /\ row[j].status # "absent" /\ ~HasStarted(j)
          /\ \A u \in Slots : Launching(u, j) => u = t
      BY <2>1 DEF StartInv
    <3>2. row'[j].status # "absent"
      BY <1>1, <3>1 DEF StoreEffect
    <3>3. ~HasStarted(j)'
      BY <1>3, <1>5, <3>1
    <3>4. Launching(s, j)' => s = t
      BY <1>1, <3>1, LaunchStep
    <3> QED
      BY <1>2, <3>1, <3>2, <3>3, <3>4
  <2>2. CASE ~Launching(t, j)
    <3>1. t = s
      BY <1>2, <1>5, <2>2
    <3>2. row[j].status = "absent" /\ row'[j].status # "absent"
      BY <1>1, <1>5, <2>2, <3>1, LaunchStep
    <3>3. ~HasStarted(j) /\ \A u \in Slots : ~Launching(u, j)
      BY <3>2 DEF StartInv
    <3>4. ~HasStarted(j)'
      BY <1>3, <3>3
    <3> QED
      BY <1>2, <3>1, <3>2, <3>3, <3>4
  <2> QED
    BY <2>1, <2>2
<1> QED
  BY <1>3, <1>4, <1>5 DEF StartInv

\* The API, the queue and the worker process start no job.
LEMMA StartInvEnvironment ==
  ASSUME TypeOK, StartInv, EnvironmentStep
  PROVE  StartInv'
<1>1. Surroundings
  BY EnvironmentIsSurroundings
<1>2. ASSUME NEW s \in Slots, NEW j \in Jobs, Launching(s, j)'
      PROVE  Launching(s, j)
  <2>1. \/ handler'[s] = handler[s] \/ handler'[s].pc = "idle"
        \/ handler'[s].pc = FirstLabel(Head(inbox)) /\ handler'[s].attempt = Head(inbox).attempt
    BY <1>1 DEF Surroundings, StartEffect, IdleHandler
  <2> QED
    BY <1>2, <2>1 DEF Launching, FirstLabel
<1>3. ASSUME NEW j \in Jobs
      PROVE  StartedOnce(j)' /\ (HasStarted(j)' => HasStarted(j))
  <2>1. CASE statusLog'[j] = statusLog[j]
    BY <2>1 DEF StartInv, StartedOnce, HasStarted
  <2>2. CASE statusLog'[j] = Append(statusLog[j], PendingEvent)
    <3>1. PendingEvent # FirstStart
      BY DEF PendingEvent, FirstStart, StatusEvent
    <3> QED
      BY <2>2, <3>1, AppendStart, PendingIsEvent DEF StartInv
  <2> QED
    BY <1>1, <2>1, <2>2 DEF Surroundings
<1> QED
  BY <1>1, <1>2, <1>3 DEF StartInv, Surroundings

LEMMA StartInvInit == Init => StartInv
<1> SUFFICES ASSUME Init PROVE StartInv
  OBVIOUS
<1>1. \A j \in Jobs : DOMAIN statusLog[j] = {}
  BY LenProperties, EmptySeq DEF Init
<1>2. \A s \in Slots : handler[s].pc = "idle"
  BY DEF Init, IdleHandler
<1> QED
  BY <1>1, <1>2 DEF StartInv, StartedOnce, HasStarted, Launching

\* However often a request is delivered, to however many handlers at a time,
\* and even when a fresh consumer replays the stream, the first attempt of a
\* job is reported as started once (register_job, process_message).
THEOREM FirstStartIsOne == Spec => []FirstAttemptStartsOnce
<1>1. Init => StartInv
  BY StartInvInit
<1>2. TypeOK /\ StartInv /\ [Next]_vars => StartInv'
  <2>1. CASE UNCHANGED vars
    BY <2>1 DEF vars, events, StartInv, StartedOnce, HasStarted, Launching
  <2> QED
    BY <2>1, StartInvStep, StartInvEnvironment DEF Next, EnvironmentStep
<1>3. StartInv => FirstAttemptStartsOnce
  BY DEF StartInv, StartedOnce, FirstAttemptStartsOnce, FirstStart
<1> QED
  BY <1>1, <1>2, <1>3, TypeCorrect, PTL DEF Spec
-----------------------------------------------------------------------------
(* Watchers.                                                               *)

\* A stream is of a job, what it told is true, and its end is the job's.
WatchInv ==
  /\ watch \in [Watchers -> [phase : {"idle", "not_found", "done"} \cup Streaming,
                             job : Jobs \cup {NoJob}, pos : Nat, last : Event]]
  /\ \A w \in Watchers : watch[w].phase \in Streaming \cup {"done"} => watch[w].job \in Jobs
  /\ ToldSuccessMeansRan
  /\ used.rebinds = 0 => DoneMeansDecided

LEMMA WatchInvInit == WatchInit => WatchInv
<1>1. NoEvent \in Event /\ NoEvent.state = "ENQUEUED_OR_PENDING"
  BY DEF NoEvent, StatusEvent, Event, LifecycleStates
<1> QED
  BY <1>1 DEF WatchInit, NoWatch, WatchInv, ToldSuccessMeansRan, DoneMeansDecided, Streaming

\* What the row and the log tell of a success, or of the end, is true.
LEMMA RowTellsTruth ==
  ASSUME TypeOK, SuccessInv, DecidedInv, NEW j \in Jobs
  PROVE  /\ used.rebinds = 0 /\ row[j].terminal => Decided(j)
         /\ row[j].status # "absent" => SnapshotEvent(row[j]) \in Event
         /\ row[j].status # "absent" /\ SnapshotEvent(row[j]).state = "SUCCEEDED" => j \in returned
<1>1. row[j] \in Row
  BY DEF TypeOK
<1>2. row[j].status = "completed" => j \in returned
  BY DEF SuccessInv, SuccessMeansRan
<1>3. ASSUME row[j].status # "absent"
      PROVE  /\ LifecycleOf(row[j]) \in LifecycleStates
             /\ LifecycleOf(row[j]) = "SUCCEEDED" => row[j].status = "completed"
  <2>1. CASE row[j].status = "requested"
    BY <2>1 DEF LifecycleOf, LifecycleStates
  <2>2. CASE row[j].status = "processing"
    BY <2>2 DEF LifecycleOf, LifecycleStates
  <2>3. CASE row[j].status = "completed"
    BY <2>3 DEF LifecycleOf, LifecycleStates
  <2>4. CASE row[j].status = "failed" /\ row[j].terminal
    BY <2>4 DEF LifecycleOf, LifecycleStates
  <2>5. CASE row[j].status = "failed" /\ ~row[j].terminal
    BY <2>5 DEF LifecycleOf, LifecycleStates
  <2> QED
    BY <1>1, <1>3, <2>1, <2>2, <2>3, <2>4, <2>5 DEF Row
<1> HIDE DEF LifecycleOf
<1> QED
  BY <1>1, <1>2, <1>3 DEF SnapshotEvent, StatusEvent, Event, Row, DecidedInv

LEMMA LogTellsTruth ==
  ASSUME TypeOK, SuccessInv, DecidedInv, NEW j \in Jobs,
         NEW i \in Nat \ {0}, i <= Len(statusLog[j])
  PROVE  /\ statusLog[j][i] \in Event
         /\ used.rebinds = 0 /\ statusLog[j][i].terminal => Decided(j)
         /\ statusLog[j][i].state = "SUCCEEDED" => j \in returned
<1>1. statusLog[j] \in Seq(Event)
  BY DEF TypeOK
<1>2. i \in DOMAIN statusLog[j] /\ statusLog[j][i] \in Event
  BY <1>1, LenProperties, ElementOfSeq
<1> QED
  BY <1>2 DEF SuccessInv, SuccessMeansRan, Logged, DecidedInv, Announced

\* A step of one stream.
LEMMA OneWatch ==
  ASSUME WatchInv, UNCHANGED vars, NEW w \in Watchers,
         NEW new \in [phase : {"idle", "not_found", "done"} \cup Streaming,
                      job : Jobs \cup {NoJob}, pos : Nat, last : Event],
         watch' = [watch EXCEPT ![w] = new],
         new.phase \in Streaming \cup {"done"} => new.job \in Jobs,
         new.last.state = "SUCCEEDED" => new.job \in returned,
         used.rebinds = 0 /\ new.phase = "done" => Decided(new.job)
  PROVE  WatchInv'
<1>1. \A v \in Watchers : watch'[v] = IF v = w THEN new ELSE watch[v]
  BY DEF WatchInv
<1>2. watch' \in [Watchers -> [phase : {"idle", "not_found", "done"} \cup Streaming,
                               job : Jobs \cup {NoJob}, pos : Nat, last : Event]]
  BY DEF WatchInv
<1>3. UNCHANGED <<delivered, returned, used>>
  BY DEF vars, queue
<1>4. used.rebinds = 0 => DoneMeansDecided'
  BY <1>1, <1>3 DEF WatchInv, DoneMeansDecided, Decided
<1>5. ToldSuccessMeansRan'
  BY <1>1, <1>3 DEF WatchInv, ToldSuccessMeansRan
<1>6. \A v \in Watchers : watch'[v].phase \in Streaming \cup {"done"} => watch'[v].job \in Jobs
  BY <1>1 DEF WatchInv, Streaming
<1> QED
  BY <1>2, <1>3, <1>4, <1>5, <1>6 DEF WatchInv, Streaming

LEMMA WatchInvWatch ==
  ASSUME TypeOK, SuccessInv, DecidedInv, WatchInv, NEW w \in Watchers, UNCHANGED vars,
         \/ \E j \in Jobs, includeCurrent \in BOOLEAN : Open(w, j, includeCurrent)
         \/ Serve(w) \/ HangUp(w)
  PROVE  WatchInv'
<1> DEFINE Streams == [phase : {"idle", "not_found", "done"} \cup Streaming,
                       job : Jobs \cup {NoJob}, pos : Nat, last : Event]
           j == watch[w].job
<1>1. /\ watch[w] \in Streams /\ UNCHANGED returned
      /\ watch[w].phase \in Streaming => j \in Jobs
      /\ watch[w].last.state = "SUCCEEDED" => j \in returned
  BY DEF WatchInv, ToldSuccessMeansRan, vars
<1>2. NoEvent \in Event /\ NoEvent.state = "ENQUEUED_OR_PENDING"
  BY DEF NoEvent, StatusEvent, Event, LifecycleStates
<1>3. NoWatch \in Streams /\ NoWatch.last.state # "SUCCEEDED" /\ NoWatch.phase = "idle"
  BY <1>2 DEF NoWatch
<1>4. ASSUME NEW k \in Jobs, NEW includeCurrent \in BOOLEAN, Open(w, k, includeCurrent)
      PROVE  WatchInv'
  <2> DEFINE new == [NoWatch EXCEPT !.job = k,
                                    !.phase = IF includeCurrent THEN "snapshot" ELSE "subscribe"]
  <2>1. /\ new \in Streams /\ new.phase \in {"snapshot", "subscribe"}
        /\ new.job = k /\ new.last.state # "SUCCEEDED"
    BY <1>2 DEF NoWatch, Streaming
  <2>2. watch' = [watch EXCEPT ![w] = new]
    BY <1>4 DEF Open
  <2> HIDE DEF new
  <2> QED
    BY <1>1, <2>1, <2>2, OneWatch
<1>5. CASE Snapshot(w)
  <2> DEFINE r == row[j]
             new == IF r.status = "absent" THEN [watch[w] EXCEPT !.phase = "not_found"]
                    ELSE [watch[w] EXCEPT !.last = SnapshotEvent(r),
                                          !.phase = IF r.terminal THEN "done" ELSE "subscribe"]
  <2>1. watch' = [watch EXCEPT ![w] = new] /\ j \in Jobs
    BY <1>1, <1>5 DEF Snapshot, Streaming
  <2>2. CASE r.status = "absent"
    <3>1. /\ new \in Streams /\ new.phase = "not_found" /\ new.job = j
          /\ new.last = watch[w].last
      BY <1>1, <2>2
    <3> HIDE DEF new
    <3> QED
      BY <1>1, <2>1, <3>1, OneWatch DEF Streaming
  <2>3. CASE r.status # "absent"
    <3>1. /\ SnapshotEvent(r) \in Event /\ (SnapshotEvent(r).state = "SUCCEEDED" => j \in returned)
          /\ used.rebinds = 0 /\ r.terminal => Decided(j)
      BY <2>1, <2>3, RowTellsTruth
    <3>2. /\ new \in Streams /\ new.job = j /\ new.last = SnapshotEvent(r)
          /\ new.phase = "done" => r.terminal
      BY <1>1, <2>3, <3>1 DEF Streaming
    <3> HIDE DEF new
    <3> QED
      BY <1>1, <2>1, <3>1, <3>2, OneWatch
  <2> QED
    BY <2>2, <2>3
<1>6. CASE Subscribe(w)
  <2> DEFINE new == [watch[w] EXCEPT !.phase = "stream", !.pos = 0]
  <2>1. watch' = [watch EXCEPT ![w] = new] /\ j \in Jobs
    BY <1>1, <1>6 DEF Subscribe, Streaming
  <2>2. new \in Streams /\ new.phase = "stream" /\ new.job = j /\ new.last = watch[w].last
    BY <1>1 DEF Streaming
  <2> HIDE DEF new
  <2> QED
    BY <1>1, <2>1, <2>2, OneWatch
<1>7. CASE Forward(w)
  <2> DEFINE next == watch[w].pos + 1
             new == [watch[w] EXCEPT !.pos = next, !.last = statusLog[j][next],
                                     !.phase = IF statusLog[j][next].terminal THEN "done"
                                                                              ELSE "stream"]
  <2>1. watch' = [watch EXCEPT ![w] = new] /\ j \in Jobs /\ next <= Len(statusLog[j])
    BY <1>1, <1>7 DEF Forward, Streaming
  <2>2. next \in Nat \ {0}
    BY <1>1
  <2>3. /\ statusLog[j][next] \in Event /\ (statusLog[j][next].state = "SUCCEEDED" => j \in returned)
        /\ used.rebinds = 0 /\ statusLog[j][next].terminal => Decided(j)
    BY <2>1, <2>2, LogTellsTruth
  <2>4. /\ new \in Streams /\ new.job = j /\ new.last = statusLog[j][next]
        /\ new.phase = "done" => statusLog[j][next].terminal
    BY <1>1, <2>2, <2>3 DEF Streaming
  <2> HIDE DEF new
  <2> QED
    BY <1>1, <2>1, <2>3, <2>4, OneWatch
<1>8. CASE HangUp(w)
  <2>1. watch' = [watch EXCEPT ![w] = NoWatch]
    BY <1>8 DEF HangUp
  <2> QED
    BY <1>1, <1>3, <2>1, OneWatch DEF Streaming
<1> QED
  BY <1>4, <1>5, <1>6, <1>7, <1>8 DEF Serve

\* The worker goes on: what has exited, or is decided, stays so.
LEMMA WatchInvNext ==
  ASSUME TypeOK, SuccessInv, WatchInv, Next, UNCHANGED watch
  PROVE  WatchInv'
<1>1. returned \subseteq returned'
  <2>1. ASSUME NEW s \in Slots, Step(s)
        PROVE  returned \subseteq returned'
    BY <2>1, StepEffect DEF HandlerEffect
  <2>2. CASE EnvironmentStep
    BY <2>2, EnvironmentStepEffect DEF EnvironmentEffect
  <2> QED
    BY <2>1, <2>2 DEF Next, EnvironmentStep
<1>2. ASSUME used'.rebinds = 0, NEW w \in Watchers, watch[w].phase = "done"
      PROVE  Decided(watch[w].job)'
  <2>1. PICK j \in Jobs : j = watch[w].job
    BY <1>2 DEF WatchInv
  <2>2. used.rebinds = 0 /\ (Decided(j) => Decided(j)')
    BY <1>2, DecidedStays
  <2>3. Decided(j)
    BY <1>2, <2>1, <2>2 DEF WatchInv, DoneMeansDecided, Decided
  <2> QED
    BY <2>1, <2>2, <2>3 DEF Decided
<1>3. used'.rebinds = 0 => DoneMeansDecided'
  BY <1>2 DEF DoneMeansDecided, Decided
<1> QED
  BY <1>1, <1>3 DEF WatchInv, ToldSuccessMeansRan, Streaming

\* All that is known of the worker and of the streams.
WorkerInv == TypeOK /\ SuccessInv /\ ExhaustedInv /\ AttemptsCounted /\ DecidedInv

LEMMA WorkerInvNext ==
  ASSUME WorkerInv, [Next]_vars
  PROVE  WorkerInv'
<1>1. TypeOK'
  <2>1. CASE UNCHANGED vars
    BY <2>1 DEF WorkerInv, TypeOK, vars, api, queue, events
  <2> QED
    BY <2>1, StepType, EnvironmentType DEF Next, WorkerInv
<1> QED
  BY <1>1, SuccessInvNext, ExhaustedInvNext, AttemptsCountedNext, DecidedInvNext DEF WorkerInv

LEMMA WatchedNext ==
  ASSUME WorkerInv, WatchInv, [WatchNext]_watchVars
  PROVE  WorkerInv' /\ WatchInv'
<1>1. [Next]_vars
  BY DEF WatchNext, watchVars, Open, Serve, Snapshot, Subscribe, Forward, HangUp
<1>2. WatchInv'
  <2>1. CASE UNCHANGED watchVars
    BY <2>1 DEF watchVars, vars, queue, WatchInv, ToldSuccessMeansRan, DoneMeansDecided, Streaming
  <2>2. CASE Next /\ UNCHANGED watch
    BY <2>2, WatchInvNext DEF WorkerInv
  <2>3. ASSUME NEW w \in Watchers,
               \/ \E j \in Jobs, includeCurrent \in BOOLEAN : Open(w, j, includeCurrent)
               \/ Serve(w) \/ HangUp(w)
        PROVE  WatchInv'
    <3>1. UNCHANGED vars
      BY <2>3 DEF Open, Serve, Snapshot, Subscribe, Forward, HangUp
    <3> QED
      BY <2>3, <3>1, WatchInvWatch DEF WorkerInv
  <2> QED
    BY <2>1, <2>2, <2>3 DEF WatchNext
<1> QED
  BY <1>1, <1>2, WorkerInvNext

LEMMA WatchedInit == WatchInit => WorkerInv /\ WatchInv
BY TypeInit, SuccessInvInit, ExhaustedInvInit, DecidedInvInit, WatchInvInit DEF WatchInit, WorkerInv

\* Whatever a stream of WatchJobStatus tells of a success, by the snapshot of
\* the row or by an event of the log, the script has exited with status 0.
THEOREM WatchersToldTruth == WatchSpec => []ToldSuccessMeansRan
<1>1. WatchInv => ToldSuccessMeansRan
  BY DEF WatchInv
<1> QED
  BY <1>1, WatchedInit, WatchedNext, PTL DEF WatchSpec

\* A stream says done only of a decided job, whether it read the end in the
\* row or in the log, as long as the durable consumer is kept: a fresh consumer
\* starts to count a job's deliveries again.
THEOREM WatchersToldEnd == WatchSpec => [](used.rebinds = 0 => DoneMeansDecided)
<1>1. WatchInv => (used.rebinds = 0 => DoneMeansDecided)
  BY DEF WatchInv
<1> QED
  BY <1>1, WatchedInit, WatchedNext, PTL DEF WatchSpec
=============================================================================
