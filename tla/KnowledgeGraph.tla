---------------------------- MODULE KnowledgeGraph ----------------------------
(***************************************************************************)
(* The graph behind the knowledge interface, and UpsertGraphDelta as its   *)
(* callers see it: a delta is checked against the rows that are stored,    *)
(* then merged into them in one transaction.  Nodes and edges are merged   *)
(* by identity: what is stored already is stored once.                     *)
(***************************************************************************)
EXTENDS Integers, Sequences, FiniteSets, SequencesExt

\* The universe of everything that names no other one.
CommonUniverse == 0

EdgeKinds == {"DESCRIBED_BY", "SUMMARIZES", "RELATED", "INVENTED"}

Edge == [kind : EdgeKinds, from : Int, to : Int]

\* A property as it is sent: under its key, in one field.
ValueFields == {"bool_value", "int_value", "float_value", "string_value",
                "datetime_value", "json_value"}

Sent == [key : STRING, field : ValueFields]

\* A delta lists what its sender put into it; only its universes, which always
\* have fresh ids, are a set.
Delta == [universes : SUBSET Int,
          entities : Seq([id : Int, sent : SUBSET Sent, universe : Int]),
          blocks : Seq(Int), edges : Seq(Edge)]

Graph == [universes : SUBSET Int, entities : SUBSET Int, blocks : SUBSET Int,
          edges : SUBSET Edge]

ParentKinds == {"DESCRIBED_BY", "SUMMARIZES"}

EntityIds(delta) == {delta.entities[i].id : i \in DOMAIN delta.entities}

NodeIds(g) == g.universes \cup g.entities \cup g.blocks

\* How often `delta` lists an edge of S.
Listed(delta, S) == Cardinality({i \in DOMAIN delta.edges : delta.edges[i] \in S})
-----------------------------------------------------------------------------
(* enforce_graph_state_rules.                                              *)

Describing(e) == [kind : {"DESCRIBED_BY"}, from : {e}, to : Int]

Parenting(b) == [kind : ParentKinds, from : Int, to : {b}]

DescribedTwice(delta, g, e) ==
  Cardinality(g.edges \cap Describing(e)) + Listed(delta, Describing(e)) > 1

WithoutOneParent(delta, g, b) ==
  Cardinality(g.edges \cap Parenting(b)) + Listed(delta, Parenting(b)) # 1

\* Mutant of BreaksStateRules: the parents a block has in the graph, and what
\* describes an entity there, are not counted.
BreaksPayloadRules(delta, g) ==
  LET empty == [g EXCEPT !.edges = {}]
  IN \/ \E e \in EntityIds(delta) : DescribedTwice(delta, empty, e)
     \/ \E b \in ToSet(delta.blocks) : WithoutOneParent(delta, empty, b)

BreaksStateRules(delta, g) ==
  \/ \E u \in delta.universes :
       \A i \in DOMAIN delta.entities : delta.entities[i].universe # u
  \/ \E e \in EntityIds(delta) : DescribedTwice(delta, g, e)
  \/ \E b \in ToSet(delta.blocks) : WithoutOneParent(delta, g, b)

\* The part of validate_delta_against_schema that is not about properties.
BreaksReferences(delta) ==
  \/ \E i \in DOMAIN delta.entities :
       delta.entities[i].universe \notin delta.universes \cup {CommonUniverse}
  \/ \E i \in DOMAIN delta.edges : delta.edges[i].kind = "INVENTED"

\* An answer that repeating cannot change: INVALID_ARGUMENT.
Invalid(delta, g) == BreaksReferences(delta) \/ BreaksStateRules(delta, g)
-----------------------------------------------------------------------------
(* apply_delta_in_tx.                                                      *)

Merged(delta, g) ==
  [universes |-> g.universes \cup delta.universes,
   entities |-> g.entities \cup EntityIds(delta),
   blocks |-> g.blocks \cup ToSet(delta.blocks),
   edges |-> g.edges \cup ToSet(delta.edges)]

\* An edge whose ends are not both there rolls the transaction back: INTERNAL,
\* which the callers take for a passing failure.
Dangles(delta, g) ==
  \E d \in ToSet(delta.edges) : ~({d.from, d.to} \subseteq NodeIds(Merged(delta, g)))
-----------------------------------------------------------------------------
Parents(g, ids) ==
  {d.from : d \in {x \in g.edges : x.kind \in ParentKinds /\ x.to \in ids}}

\* Every block hangs, over blocks, from an entity: of any blocks one hangs from
\* an entity or from a block that is not among them.
Rooted(g) ==
  \A S \in (SUBSET g.blocks) \ {{}} :
    Parents(g, S) \cap (g.entities \cup (g.blocks \ S)) # {}

\* One block describes an entity, every block has one parent, and every block
\* hangs from an entity.
WellDescribed(g) ==
  /\ \A e \in g.entities :
       Cardinality({d \in g.edges : d.kind = "DESCRIBED_BY" /\ d.from = e}) <= 1
  /\ \A b \in g.blocks : Cardinality(Parents(g, {b})) = 1
  /\ Rooted(g)
=============================================================================
