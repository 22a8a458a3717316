------------------------------ MODULE MessagePages ------------------------------
(***************************************************************************)
(* A client that pages through a journal (list_messages and the page's     *)
(* loadOlderMessages) while messages are being inserted.                   *)
(* The cursor of the next page is the lowest sequence shown so far.        *)
(***************************************************************************)
EXTENDS MessageStore, SequencesExt

CONSTANTS
  Readers,    \* clients
  PageLimit   \* rows per page

ASSUME PageAssumption == PageLimit \in Nat \ {0}

VARIABLE reader   \* reader[p]: how far p has paged

vars == <<store, faults, reader>>

IdleReader == [pc |-> "idle", journal |-> 0, cursor |-> 0, shown |-> <<>>, due |-> {}]

Init == StoreInit /\ reader = [p \in Readers |-> IdleReader]

\* `due` is history: the messages that were stored when p started.
Open(p, journal) ==
  /\ reader[p].pc = "idle"
  /\ reader' = [reader EXCEPT ![p] =
       [@ EXCEPT !.pc = "first", !.journal = journal,
                 !.due = {m \in Stored : Journal[m] = journal}]]
  /\ UNCHANGED <<store, faults>>

\* Mutant of Older: the row at the cursor is sent again.
OlderOrEqual(q) == {m \in Stored : /\ Journal[m] = q.journal
                                   /\ q.pc = "more" => sequence[m] <= q.cursor}

\* WHERE reference = $2 AND ($3 IS NULL OR sequence < $3).
Older(q) == {m \in Stored : /\ Journal[m] = q.journal
                            /\ q.pc = "more" => sequence[m] < q.cursor}

\* Mutant of Pages: the order is ascending.
PagesAscending(rows) ==
  {page \in UNION {SetToSeqs(S) : S \in kSubset(Min({PageLimit, Cardinality(rows)}), rows)} :
     /\ \A i, k \in DOMAIN page : i < k => sequence[page[i]] <= sequence[page[k]]
     /\ \A m \in ToSet(page), n \in rows \ ToSet(page) : sequence[m] <= sequence[n]}

\* ORDER BY sequence DESC LIMIT $4; rows that tie come in any order, and any
\* of them may fall behind the limit.
Pages(rows) ==
  {page \in UNION {SetToSeqs(S) : S \in kSubset(Min({PageLimit, Cardinality(rows)}), rows)} :
     /\ \A i, k \in DOMAIN page : i < k => sequence[page[i]] >= sequence[page[k]]
     /\ \A m \in ToSet(page), n \in rows \ ToSet(page) : sequence[m] >= sequence[n]}

\* Mutant of Fetch: the cursor counts rows.
FetchByOffset(p) ==
  LET q == reader[p]
  IN /\ q.pc \in {"first", "more"}
     /\ \E page \in Pages(Older(q)) :
          reader' = [reader EXCEPT ![p] =
            IF page = <<>> THEN [q EXCEPT !.pc = "done"]
            ELSE [q EXCEPT !.pc = "more", !.cursor = @ + Len(page),
                           !.shown = @ \o page]]
     /\ UNCHANGED <<store, faults>>

\* One page; an empty one tells the client that there is nothing older.
Fetch(p) ==
  LET q == reader[p]
  IN /\ q.pc \in {"first", "more"}
     /\ \E page \in Pages(Older(q)) :
          reader' = [reader EXCEPT ![p] =
            IF page = <<>> THEN [q EXCEPT !.pc = "done"]
            ELSE [q EXCEPT !.pc = "more", !.cursor = sequence[Last(page)],
                           !.shown = @ \o page]]
     /\ UNCHANGED <<store, faults>>

Next ==
  \/ \E m \in Messages : Insert(m) /\ UNCHANGED reader
  \/ \E p \in Readers : \/ \E m \in Messages : Open(p, Journal[m])
                        \/ Fetch(p)

Spec == Init /\ [][Next]_vars
-----------------------------------------------------------------------------
(* Properties.                                                             *)

\* A client sees its journal newest first and no message twice, although rows
\* are inserted between its pages.
NewestFirstOnce ==
  \A p \in Readers : LET shown == reader[p].shown
                     IN \A i, k \in DOMAIN shown : i < k =>
                          /\ shown[i] # shown[k]
                          /\ sequence[shown[i]] >= sequence[shown[k]]

\* A client that has paged to the end misses a message that was there when it
\* started only if a message it did see has the same number.
MissedOnlyTies ==
  \A p \in Readers : reader[p].pc = "done" =>
    \A m \in reader[p].due \ ToSet(reader[p].shown) :
      \E n \in ToSet(reader[p].shown) : sequence[n] = sequence[m]
=============================================================================
