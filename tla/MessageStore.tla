----------------------------- MODULE MessageStore -----------------------------
(***************************************************************************)
(* The messages of one user's journals in Postgres: ConversationService    *)
(* inserts them and numbers them per conversation.  The number is computed *)
(* inside the INSERT from the rows its snapshot sees, and no constraint    *)
(* keeps it unique.                                                        *)
(*                                                                         *)
(* This module has the state and the operations; KnowledgeCommit and       *)
(* MessagePages compose them with the readers.                             *)
(***************************************************************************)
EXTENDS Naturals, Sequences, FiniteSetsExt

CONSTANTS
  Messages,   \* messages, each with a client_message_id of its own
  Journal,    \* Journal[m]: the reference of m's journal, a day
  MaxFaults   \* bound: calls to Postgres or to the orchestrator that raise

ASSUME MessageAssumption ==
  /\ Journal \in [Messages -> Nat]
  /\ MaxFaults \in Nat

VARIABLES
  insert,     \* insert[m]: the insert_message call that stores m
  sequence,   \* sequence[m]: the column of that name, 0 before m has a row
  committed,  \* messages with committed_to_knowledge_base
  faults      \* how much of the bound has been used up

store == <<insert, sequence, committed>>

Stored == {m \in Messages : sequence[m] > 0}

Outcomes == {"ok", "lost", "late"}

\* "lost" raises before the effect, "late" after it.
Happened(o) == o # "lost"

Charge(o) ==
  \/ o = "ok" /\ UNCHANGED faults
  \/ o # "ok" /\ faults < MaxFaults /\ faults' = faults + 1
-----------------------------------------------------------------------------
IdleInsert == [pc |-> "idle", number |-> 0, older |-> {}]

StoreInit ==
  /\ insert = [m \in Messages |-> IdleInsert]
  /\ sequence = [m \in Messages |-> 0]
  /\ committed = {}
  /\ faults = 0

\* Rows of m's journal that a statement started now can see.
Siblings(m) == {n \in Stored : Journal[n] = Journal[m]}

\* Mutant of NextNumber: the + 1 is forgotten once there are rows.
NextNumberRepeats(m) == Max({1} \cup {sequence[n] : n \in Siblings(m)})

\* COALESCE(MAX(sequence), 0) + 1.
NextNumber(m) == Max({0} \cup {sequence[n] : n \in Siblings(m)}) + 1

\* The INSERT takes its snapshot; `older` (history) is what it saw when it was
\* to create the row.
BeginInsert(m) ==
  /\ insert[m].pc = "idle"
  /\ insert' = [insert EXCEPT ![m] = [pc |-> "running", number |-> NextNumber(m),
                   older |-> IF m \in Stored THEN insert[m].older
                                             ELSE Siblings(m)]]
  /\ UNCHANGED <<sequence, committed, faults>>

\* It commits.  ON CONFLICT keeps the row of an earlier try as it is; a call
\* that raised may be repeated with the same client_message_id.
EndInsert(m, o) ==
  /\ insert[m].pc = "running"
  /\ sequence' = IF Happened(o) /\ m \notin Stored
                 THEN [sequence EXCEPT ![m] = insert[m].number] ELSE sequence
  /\ insert' = [insert EXCEPT ![m].pc = IF o = "ok" THEN "done" ELSE "idle"]
  /\ Charge(o)
  /\ UNCHANGED committed

Insert(m) == BeginInsert(m) \/ \E o \in Outcomes : EndInsert(m, o)
-----------------------------------------------------------------------------
StoreTypeOK ==
  /\ insert \in [Messages -> [pc : {"idle", "running", "done"}, number : Nat,
                              older : SUBSET Messages]]
  /\ sequence \in [Messages -> Nat]
  /\ committed \subseteq Messages
  /\ faults \in 0 .. MaxFaults

\* "Higher is newer": a message whose insert began when another message of
\* its journal was already stored has the higher sequence.  Nothing is said of
\* inserts that overlap: they may get the same number.
HigherIsNewer ==
  \A m \in Stored : \A n \in insert[m].older \ {m} : sequence[n] < sequence[m]
=============================================================================
