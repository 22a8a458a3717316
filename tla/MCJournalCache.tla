---------------------------- MODULE MCJournalCache ----------------------------
(* An instance of JournalCache for TLC. *)
EXTENDS JournalCache

CONSTANT today

EntryAndMessages == {<<"entry", today>>, <<"messages", today>>}

\* No journal yet, and one with a message.
SomeEarlier == {[row |-> 0, messages |-> 0, calls |-> 0], [row |-> 2, messages |-> 1, calls |-> 0]}
=============================================================================
