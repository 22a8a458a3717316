------------------------- MODULE MCKnowledgeUpdateJob -------------------------
(* An instance of KnowledgeUpdateJob for TLC. *)
EXTENDS KnowledgeUpdateJob

Entity(typed, universe) == [typed |-> typed, universe |-> universe]

Plain == Entity(TRUE, "none")

Found(entities, universes) == [entities |-> entities, universes |-> universes]

\* A first run over up to two entities, and a second one that finds one.
TwoRuns ==
  << {Found(<<>>, 0), Found(<<>>, 1), Found(<<Plain>>, 0), Found(<<Plain, Plain>>, 1),
      Found(<<Entity(TRUE, "id")>>, 0), Found(<<Plain, Entity(FALSE, "none")>>, 0)},
     {Found(<<Plain>>, 0)} >>

\* Around 0.1, 0.15 and 0.6.
SomeScores == {10, 12, 30, 80}

\* Entity 1 is described by block 11, which summarises block 12.  Entity 2 is the
\* user's own, which user initialisation relates to and describes by nothing.
InUse ==
  [universes |-> {}, entities |-> {1, 2}, blocks |-> {11, 12},
   edges |-> {[kind |-> "DESCRIBED_BY", from |-> 1, to |-> 11],
              [kind |-> "SUMMARIZES", from |-> 11, to |-> 12],
              [kind |-> "RELATED", from |-> 1, to |-> 2]}]

Block(id, parent) == [id |-> id, parent |-> parent]

Value(key, value) == [key |-> key, value |-> value]

Names == {Value("name", "text"), Value("aliases", "list")}

Answer(entity, properties, universe, blocks) ==
  [entity |-> entity, properties |-> properties, universe |-> universe, blocks |-> blocks]

Tree == <<Block(-1, 0), Block(-2, -1)>>

SomeAnswers ==
  {Answer(0, Names, "none", Tree),
   Answer(0, Names, "name", <<Block(-2, -1), Block(-1, NoneWord)>>),
   Answer(0, Names, "none", <<Block(11, 0), Block(-1, 11)>>),        \* block 11 again
   Answer(0, Names, "none", <<Block(-1, 0), Block(12, -1)>>),        \* block 12 moves
   Answer(1, Names, "none", Tree),                                   \* another entity's id
   Answer(2, Names, "none", Tree),                                   \* the user's own
   Answer(50, Names, "none", Tree),                                  \* an id of its own
   Answer(0, Names \cup {Value("since", "text")}, "none", <<Block(-1, 0)>>),
   Answer(0, {Value("name", "null"), Value("aliases", "list")}, "none", <<Block(-1, 0)>>),
   Answer(0, {Value("name", "text")}, "none", <<Block(-1, 0)>>),                    \* no aliases
   Answer(0, Names, "none", <<Block(-1, 0), Block(-2, -3), Block(-3, -2)>>),
   Answer(0, Names, "none", <<Block(-1, 0), Block(-2, 0)>>),
   Answer(0, Names, "none", <<Block(-1, 0), Block(-1, -1)>>),
   Answer(0, Names, "none", <<Block(-1, 0), Block(-2, -7)>>),
   Answer(0, Names, "none", <<>>)}

Property(key, type, writable, required) ==
  [key |-> key, type |-> type, writable |-> writable, required |-> required]

Seeded ==
  {Property("id", "string", FALSE, TRUE), Property("name", "string", TRUE, TRUE),
   Property("aliases", "json", TRUE, FALSE)}

\* "since" is a date that may be left out, is not there, is a required text, or
\* is required and nobody's to write.
SomeSchemas ==
  {Seeded, Seeded \cup {Property("since", "datetime", TRUE, FALSE)},
   Seeded \cup {Property("since", "string", TRUE, TRUE)},
   Seeded \cup {Property("since", "string", FALSE, TRUE)}}
=============================================================================
