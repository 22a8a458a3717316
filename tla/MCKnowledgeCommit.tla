--------------------------- MODULE MCKnowledgeCommit ---------------------------
(* Instances of KnowledgeCommit for TLC. *)
EXTENDS KnowledgeCommit, TLC

CONSTANTS m1, m2, m3, m4, r0, r1, r2

\* Three messages on one day, one on the next.
TwoDays == m1 :> 1 @@ m2 :> 1 @@ m3 :> 1 @@ m4 :> 2

\* Under a limit of 3: one message is larger, two others fill a chunk exactly.
Sizes == m1 :> 1 @@ m2 :> 4 @@ m3 :> 2 @@ m4 :> 1

\* The store as a longer history leaves it: some of the first day's messages
\* are stored, and any of these were committed by request r0 (a gap between
\* them takes an insert that was overtaken by other inserts and by a request).
Backlog ==
  \E old \in {{m1}, {m1, m2, m3}} :
    /\ sequence = [m \in Messages |->
                     IF m \notin old THEN 0
                     ELSE CASE m = m1 -> 1 [] m = m2 -> 2 [] m = m3 -> 3]
    /\ insert = [m \in Messages |->
                   IF m \notin old THEN IdleInsert
                   ELSE [pc |-> "done", number |-> sequence[m], older |-> {}]]
    /\ committed \in SUBSET old
    /\ faults = 0
    /\ call = [r \in Requests |->
                 IF r # r0 THEN IdleCall
                 ELSE [IdleCall EXCEPT !.pc = "replied", !.listed = committed]]
    /\ jobs = {[request |-> r0, chunk |-> <<m>>] : m \in committed}

BacklogSpec == Backlog /\ [][Next]_vars

RequestSymmetry == Permutations(Requests \ {r0})
=============================================================================
