----------------------------- MODULE MCWikiPages -----------------------------
(* An instance of WikiPages for TLC. *)
EXTENDS WikiPages

Link(child, parent, active) == [child |-> child, parent |-> parent, active |-> active]

Types == {"node.entity", "node.block", "person", "place", "group"}

\* Two parents, a cycle of two, a cycle through node.entity, and a child of
\* node.block; each link may be missing, and one type or link inactive.
SomeLinks ==
  {Link("person", "node.entity", TRUE), Link("place", "node.entity", TRUE),
   Link("node.block", "node.entity", TRUE), Link("group", "person", TRUE),
   Link("group", "place", TRUE), Link("place", "group", TRUE),
   Link("node.entity", "group", TRUE), Link("node.block", "group", TRUE),
   Link("person", "node.block", TRUE)}

SomeSchemas ==
  {[types |-> Types, active |-> Types, links |-> SomeLinks \ gone] :
     gone \in {x \in SUBSET SomeLinks : Cardinality(x) <= 1}}
  \cup {[types |-> Types, active |-> Types \ {c}, links |-> SomeLinks] : c \in Types}
  \cup {[types |-> Types, active |-> Types,
         links |-> (SomeLinks \ {l}) \cup {[l EXCEPT !.active = FALSE]}] : l \in SomeLinks}

Describes(e, b) == [kind |-> "DESCRIBED_BY", from |-> e, to |-> b]
Summarizes(a, b) == [kind |-> "SUMMARIZES", from |-> a, to |-> b]
Relates(a, b) == [kind |-> "RELATED", from |-> a, to |-> b]

\* Page 1: block 11 over 12 and 13, 14 below 12, 15 below 14 and too deep to be
\* shown.
ThreePages ==
  [universes |-> {CommonUniverse}, entities |-> {1, 2, 3}, blocks |-> {11, 12, 13, 14, 15, 21},
   edges |-> {Describes(1, 11), Summarizes(11, 12), Summarizes(11, 13), Summarizes(12, 14),
              Summarizes(14, 15), Describes(2, 21)}]

Texts == [b \in ThreePages.blocks |-> IF b = 12 THEN Blank ELSE "first"]

Ranking == <<1, 3, 2>>

Item(block, to) == [block |-> block, text |-> to]

\* Two blocks, one block twice, and a block that is too deep.
SomePatches ==
  {<<Item(14, "edit"), Item(11, Blank)>>, <<Item(13, "draft"), Item(13, "edit")>>,
   <<Item(13, "edit"), Item(15, "edit")>>}

Upsert(entities, blocks, edges) ==
  [universes |-> {}, edges |-> edges, blocks |-> blocks,
   entities |-> [i \in DOMAIN entities |-> [id |-> entities[i], sent |-> {}, universe |-> CommonUniverse]]]

Symmetry == Permutations(Tabs)

\* A block below 11, which is refused the second time, and a relation.
SomeDeltas ==
  {[delta |-> Upsert(<<1>>, <<16>>, <<Summarizes(11, 16)>>), texts |-> [b \in {16} |-> "job"]],
   [delta |-> Upsert(<<>>, <<>>, <<Relates(2, 2)>>), texts |-> <<>>]}
=============================================================================
