-------------------------- MODULE KnowledgeUpdateJob --------------------------
(***************************************************************************)
(* The knowledge.update script that the job orchestrator runs for one      *)
(* chunk of messages.  Models and the knowledge interface are asked step   *)
(* by step, every call through _call_with_retry; what the steps return is  *)
(* merged into one delta and sent to UpsertGraphDelta.  The orchestrator   *)
(* may run the script again, from nothing, whatever the last run did.      *)
(*                                                                         *)
(* What a model answers is any member of a small set, malformed answers    *)
(* included.  Ids are integers: positive for a UUID, negative for the      *)
(* placeholder of a new block, 0 where there is none.  Prompts, documents  *)
(* and texts decide nothing and are left out.                              *)
(***************************************************************************)
EXTENDS KnowledgeGraph

CONSTANTS
  Extractions,    \* Extractions[n]: step two's possible answers in run n
  Scores,         \* scores FindEntityCandidates gives, in hundredths
  GraphAnswers,   \* step eight's possible answers
  Schemas,        \* the sets of properties that the entity type can have
  InitialGraph,   \* what the user's graph holds before the job
  MaxTries,       \* max_attempts of _call_with_retry
  MaxFaults       \* bound: calls that fail

MaxRuns == Len(Extractions)

Extracted == [typed : BOOLEAN, universe : {"none", "id"}]

Values == {"text", "number", "list", "null"}

\* What step eight's agent may say of an entity.
EntityGraph == [entity : Int, properties : SUBSET [key : STRING, value : Values],
                universe : {"none", "name", "id"},
                blocks : Seq([id : Int, parent : Int])]

ASSUME JobAssumption ==
  /\ Extractions \in Seq(SUBSET [entities : Seq(Extracted), universes : Nat])
  /\ Extractions # <<>>
  /\ GraphAnswers \subseteq EntityGraph
  /\ InitialGraph \in Graph /\ IsFiniteSet(InitialGraph.edges)
  /\ WellDescribed(InitialGraph)
  /\ MaxTries \in Nat \ {0} /\ MaxFaults \in Nat
  /\ \A context \in Schemas : \A p, q \in context :
       p.type \in STRING /\ p.key = q.key => p = q

VARIABLES
  pc,        \* the call the script is about to make, or how it ended
  at,        \* the item of the step's list it is made for
  tries,     \* failed tries of this call
  asked,     \* whether step five has complained about a decision already
  work,      \* what the steps have returned
  minted,    \* the last id that uuid4 returned
  delta,     \* step nine's delta
  schema,    \* the properties of the entity type, at this moment
  graph,     \* the stored graph
  run,       \* runs of the script, this one included
  faults     \* how much of the bound has been used up

vars == <<pc, at, tries, asked, work, minted, delta, schema, graph, run, faults>>

world == <<schema, graph, run, faults>>

NoWork == [entities |-> <<>>, universes |-> 0, matches |-> <<>>, resolved |-> <<>>,
           pairs |-> <<>>, relations |-> <<>>, writable |-> {}, answers |-> <<>>]

NoDelta == [universes |-> {}, entities |-> <<>>, blocks |-> <<>>, edges |-> <<>>]

Init ==
  /\ pc = "connect" /\ at = 1 /\ tries = 0 /\ asked = FALSE
  /\ work = NoWork /\ minted = 100 /\ delta = NoDelta
  /\ schema \in Schemas
  /\ graph = InitialGraph
  /\ run = 1 /\ faults = 0
-----------------------------------------------------------------------------
(* Control.                                                                *)

Ended == pc \in {"done", "failed"}

\* The script's own checks raise: nothing is retried.
Raise == pc' = "failed" /\ UNCHANGED <<at, tries, asked, work, minted, delta>>

GoTo(label, i) == pc' = label /\ at' = i /\ tries' = 0

\* The first call of step `label` for a list, or what follows an empty list.
Start(label, list, after) ==
  IF list = <<>> THEN GoTo(after, 1) ELSE GoTo(label, 1)

\* The next item of a step, or what follows the last one.
Advance(label, list, after) ==
  IF at < Len(list) THEN GoTo(label, at + 1) ELSE GoTo(after, 1)

\* Mutant of Retry: the tries are not limited.
RetryForever(transient) ==
  IF transient
  THEN tries' = tries + 1 /\ UNCHANGED <<pc, at, asked, work, minted, delta>>
  ELSE Raise

\* _call_with_retry, after a try that raised.
Retry(transient) ==
  IF transient /\ tries + 1 < MaxTries
  THEN tries' = tries + 1 /\ UNCHANGED <<pc, at, asked, work, minted, delta>>
  ELSE Raise

\* A call raises before anything happened, a passing error or not.  The wait
\* for the channel is not repeated.
CallRaises ==
  /\ ~Ended
  /\ faults < MaxFaults
  /\ faults' = faults + 1
  /\ \E transient \in BOOLEAN : Retry(transient /\ pc # "connect")
  /\ UNCHANGED <<schema, graph, run>>

\* An agent answers something that its model class or _validate_model rejects.
AgentMisbehaves ==
  /\ pc \in {"extract", "focus", "compare", "pairs", "relate", "final"}
  /\ Raise
  /\ UNCHANGED world

Connect ==
  /\ pc = "connect"
  /\ GoTo("extraction_schema", 1)
  /\ UNCHANGED <<asked, work, minted, delta>> /\ UNCHANGED world
-----------------------------------------------------------------------------
(* Steps two to four: entities, their candidates, their documents.         *)

ReadExtractionSchema ==
  /\ pc = "extraction_schema"
  /\ GoTo("extract", 1)
  /\ UNCHANGED <<asked, work, minted, delta>> /\ UNCHANGED world

Extract ==
  /\ pc = "extract"
  /\ \E answer \in Extractions[run] :
       /\ work' = [work EXCEPT !.entities = answer.entities,
                               !.universes = answer.universes]
       /\ Start("match", answer.entities, "pairs")
  /\ UNCHANGED <<asked, minted, delta>> /\ UNCHANGED world

\* _classify_candidate_matches; `score` maps the candidates to hundredths.
Classify(score) ==
  LET Over(n) == {e \in DOMAIN score : score[e] > n}
  IN IF Over(10) = {} THEN [status |-> "new", ids |-> {}]
     ELSE IF Cardinality(Over(60)) = 1 THEN [status |-> "matched", ids |-> Over(60)]
     ELSE IF Over(15) = {} THEN [status |-> "new", ids |-> {}]
     ELSE [status |-> "compare", ids |-> Over(15)]

FindCandidates ==
  /\ pc = "match"
  /\ \E found \in SUBSET graph.entities : \E score \in [found -> Scores] :
       work' = [work EXCEPT !.matches = Append(@, Classify(score))]
  /\ Advance("match", work.entities, "focus")
  /\ UNCHANGED <<asked, minted, delta>> /\ UNCHANGED world

Focus ==
  /\ pc = "focus"
  /\ Advance("focus", work.entities, "resolve")
  /\ UNCHANGED <<asked, work, minted, delta>> /\ UNCHANGED world
-----------------------------------------------------------------------------
(* Step five: the id of every entity.                                      *)

\* The entity at hand is the stored e, or a new one.  After the last one nobody
\* reads the matches any more.
Resolve(e, known) ==
  /\ work' = [work EXCEPT !.resolved = Append(@, [id |-> e, known |-> known]),
                          !.matches = IF at < Len(work.entities) THEN @ ELSE <<>>]
  /\ minted' = IF known THEN minted ELSE e
  /\ asked' = FALSE
  /\ Advance("resolve", work.entities, "pairs")
  /\ UNCHANGED delta

\* Status "matched" or "new_entity": no call is made.
ResolveAtOnce ==
  /\ pc = "resolve"
  /\ LET match == work.matches[at]
     IN \/ match.status = "matched" /\ \E e \in match.ids : Resolve(e, TRUE)
        \/ match.status = "new" /\ Resolve(minted + 1, FALSE)
  /\ UNCHANGED world

\* The contexts of the candidates are read one by one: a single call here,
\* which fails when any of them does.
ReadCandidates ==
  /\ pc = "resolve"
  /\ work.matches[at].status = "compare"
  /\ GoTo("compare", at)
  /\ UNCHANGED <<asked, work, minted, delta>> /\ UNCHANGED world

\* The comparison agent decides.  A decision that is no decision is complained
\* about once; one for an unknown candidate never.
Compare ==
  /\ pc = "compare"
  /\ \/ \E e \in work.matches[at].ids : Resolve(e, TRUE)
     \/ Resolve(minted + 1, FALSE)
     \/ ~asked /\ asked' = TRUE /\ GoTo("compare", at)
               /\ UNCHANGED <<work, minted, delta>>
     \/ Raise
  /\ UNCHANGED world
-----------------------------------------------------------------------------
(* Steps six and seven: pairs of entities and their relationships.         *)

ResolvedId(i) == work.resolved[i].id

Resolved == {ResolvedId(i) : i \in DOMAIN work.resolved}

\* An id that nothing has.
Unknown == 99

\* Step seven passes over a pair with an untyped entity without a call.  Of
\* several entities with one id it knows the last.
Typed(pair) ==
  \A e \in pair : \E i \in DOMAIN work.resolved :
     /\ ResolvedId(i) = e /\ work.entities[i].typed
     /\ \A k \in DOMAIN work.resolved : k > i => ResolvedId(k) # e

\* _deduplicate_entity_pairs: unordered pairs of two known entities, once; and
\* of these the typed ones.
Deduplicated(answer) ==
  LET Kept[n \in 0 .. Len(answer)] ==
        IF n = 0 THEN <<>>
        ELSE IF /\ Cardinality(answer[n]) = 2 /\ answer[n] \subseteq Resolved
                /\ ~Contains(Kept[n - 1], answer[n]) /\ Typed(answer[n])
        THEN Append(Kept[n - 1], answer[n]) ELSE Kept[n - 1]
  IN Kept[Len(answer)]

FindPairs ==
  /\ pc = "pairs"
  /\ LET some == {pair \in SUBSET (Resolved \cup {Unknown}) : Cardinality(pair) \in 1 .. 2}
     IN \E answer \in {<<>>} \cup [1 .. 2 -> some] :
          LET pairs == Deduplicated(answer)
          IN /\ work' = [work EXCEPT !.pairs = pairs]
             /\ IF pairs = <<>> THEN Start("type_context", work.entities, "merge")
                                ELSE GoTo("edge_schema", 1)
  /\ UNCHANGED <<asked, minted, delta>> /\ UNCHANGED world

ReadEdgeSchema ==
  /\ pc = "edge_schema"
  /\ GoTo("relate", at)
  /\ UNCHANGED <<asked, work, minted, delta>> /\ UNCHANGED world

\* An answer about other entities than the pair's is dropped.
Related(pair, answer) ==
  IF {answer.from, answer.to} = pair THEN <<answer>> ELSE <<>>

\* The agent gives direction and type; the type is not held against the schema.
Relate ==
  /\ pc = "relate"
  /\ \E answer \in [kind : {"RELATED", "INVENTED"}, from : work.pairs[at] \cup {Unknown},
                    to : work.pairs[at] \cup {Unknown}] :
       work' = [work EXCEPT !.relations = @ \o Related(work.pairs[at], answer)]
  /\ IF at < Len(work.pairs) THEN GoTo("edge_schema", at + 1)
                             ELSE GoTo("type_context", 1)
  /\ UNCHANGED <<asked, minted, delta>> /\ UNCHANGED world
-----------------------------------------------------------------------------
(* Step eight: the properties and blocks of every entity.                  *)

Keys(properties) == {p.key : p \in properties}

Writable(context) == {p \in context : p.writable}

\* For an entity without a type the step raises before it asks.
ReadTypeContext ==
  /\ pc = "type_context"
  /\ IF work.entities[at].typed
     THEN /\ work' = [work EXCEPT !.writable = Keys(Writable(schema))]
          /\ GoTo(IF work.resolved[at].known THEN "entity_context" ELSE "final", at)
          /\ UNCHANGED <<asked, minted, delta>>
     ELSE Raise
  /\ UNCHANGED world

ReadEntityContext ==
  /\ pc = "entity_context"
  /\ GoTo("final", at)
  /\ UNCHANGED <<asked, work, minted, delta>> /\ UNCHANGED world

\* _normalize_step_eight_structured_response: other keys than the writable ones
\* are dropped, and step two's universe_id is put in if there is none.
Normalized(answer) ==
  [answer EXCEPT !.properties = {p \in @ : p.key \in work.writable},
     !.universe = IF work.entities[at].universe = "id" THEN "id" ELSE @]

\* The entity_id is the answer's: "same" stands for the resolved one.
BuildEntityGraph ==
  /\ pc = "final"
  /\ \E answer \in GraphAnswers :
       LET built == Normalized(answer)
       IN IF {"name", "aliases"} \subseteq Keys(built.properties)
          THEN /\ work' = [work EXCEPT !.answers = Append(@, built)]
               /\ IF at < Len(work.entities) THEN GoTo("type_context", at + 1)
                                             ELSE GoTo("merge", 1)
               /\ UNCHANGED <<asked, minted, delta>>
          ELSE Raise
  /\ UNCHANGED world
-----------------------------------------------------------------------------
(* Step nine: one delta.                                                   *)

\* A word for "nothing" that models write.
NoneWord == -9

\* _normalize_block_parent_id.
ParentId(block) == IF block.parent = NoneWord THEN 0 ELSE block.parent

\* Mutant of BlocksRejected: cycles are not looked for.
BlocksRejectedLoosely(blocks) ==
  LET ids == {blocks[j].id : j \in DOMAIN blocks}
  IN \/ 0 \in ids \/ Cardinality(ids) < Len(blocks)
     \/ Cardinality({j \in DOMAIN blocks : ParentId(blocks[j]) = 0}) # 1
     \/ \E j \in DOMAIN blocks : ParentId(blocks[j]) \notin ids \cup {0}

\* A block without an id or with another one's, not exactly one root, a parent
\* that is not there, or (_visit) a block from which the walk up never ends:
\* Endless[n] are those from which it takes n steps at least.
BlocksRejected(blocks) ==
  LET ids == {blocks[j].id : j \in DOMAIN blocks}
      Up(b) == ParentId(blocks[CHOOSE j \in DOMAIN blocks : blocks[j].id = b])
      Endless[n \in 0 .. Len(blocks)] ==
        IF n = 0 THEN ids ELSE {b \in ids : Up(b) \in Endless[n - 1]}
  IN \/ 0 \in ids \/ Cardinality(ids) < Len(blocks)
     \/ Cardinality({j \in DOMAIN blocks : ParentId(blocks[j]) = 0}) # 1
     \/ \E j \in DOMAIN blocks : ParentId(blocks[j]) \notin ids \cup {0}
     \/ Endless[Len(blocks)] # {}

\* id_map: a UUID stays, a placeholder gets a fresh id after `base`.
StoredId(blocks, base, b) ==
  IF b > 0 THEN b
  ELSE base + Cardinality({j \in DOMAIN blocks :
         /\ blocks[j].id < 0
         /\ \A k \in DOMAIN blocks : blocks[k].id = b => j <= k})

\* Mutant of BlockEdges: a stored entity keeps the root it has.
BlockEdgesOfNew(item, entity, base) ==
  LET Id(b) == StoredId(item.blocks, base, b)
      Link(block) == IF ParentId(block) = 0
        THEN [kind |-> "DESCRIBED_BY", from |-> entity, to |-> Id(block.id)]
        ELSE [kind |-> "SUMMARIZES", from |-> Id(ParentId(block)), to |-> Id(block.id)]
      links == [j \in DOMAIN item.blocks |-> Link(item.blocks[j])]
  IN IF entity \in graph.entities
     THEN SelectSeq(links, LAMBDA d : d.kind = "SUMMARIZES") ELSE links

\* Every block hangs from its parent and the root from the entity, whatever
\* is stored already.
BlockEdges(item, entity, base) ==
  LET Id(b) == StoredId(item.blocks, base, b)
      Link(block) == IF ParentId(block) = 0
        THEN [kind |-> "DESCRIBED_BY", from |-> entity, to |-> Id(block.id)]
        ELSE [kind |-> "SUMMARIZES", from |-> Id(ParentId(block)), to |-> Id(block.id)]
  IN [j \in DOMAIN item.blocks |-> Link(item.blocks[j])]

\* _to_property_value_dict: the field that a value is sent in; null is not sent.
FieldOf(value) ==
  CASE value = "text" -> {"string_value"}
    [] value = "number" -> {"float_value"}
    [] value = "list" -> {"json_value"}
    [] value = "null" -> {}

\* One final entity context graph, added to what is merged so far.
AddGraph(acc, i) ==
  LET item == work.answers[i]
      entity == IF item.entity = 0 THEN ResolvedId(i) ELSE item.entity
      universe == CASE item.universe = "id" -> Unknown
                    [] item.universe = "name" /\ work.universes > 0 -> minted + 1
                    [] OTHER -> CommonUniverse
      blocks == [j \in DOMAIN item.blocks |->
                   StoredId(item.blocks, acc.minted, item.blocks[j].id)]
      minting == {j \in DOMAIN item.blocks : item.blocks[j].id < 0}
  IN [minted |-> acc.minted + Cardinality(minting),
      delta |-> [acc.delta EXCEPT
        !.entities = Append(@, [id |-> entity, universe |-> universe, sent |->
          UNION {[key : {p.key}, field : FieldOf(p.value)] : p \in item.properties}]),
        !.blocks = @ \o blocks,
        !.edges = @ \o BlockEdges(item, entity, acc.minted)]]

\* The relationships come last, with step five's ids.
Merge ==
  /\ pc = "merge"
  /\ IF \E i \in DOMAIN work.answers : BlocksRejected(work.answers[i].blocks)
     THEN Raise
     ELSE LET fresh == (minted + 1) .. (minted + work.universes)
              After[n \in 0 .. Len(work.answers)] ==
                IF n = 0 THEN [minted |-> minted + work.universes,
                               delta |-> [NoDelta EXCEPT !.universes = fresh]]
                         ELSE AddGraph(After[n - 1], n)
              merged == After[Len(work.answers)]
          IN /\ delta' = [merged.delta EXCEPT !.edges = @ \o work.relations]
             /\ minted' = merged.minted
             /\ Start("preflight", work.answers, "upsert")
             /\ UNCHANGED <<asked, work>>
  /\ UNCHANGED world
-----------------------------------------------------------------------------
(* Preflight and upsert.                                                   *)

\* What the knowledge interface checks of an entity's properties: `writable`
\* and the types are not its concern, and "id" is no property that is sent.
Misfits(sent) ==
  \/ ~(Keys(sent) \subseteq Keys(schema))
  \/ \E p \in schema : p.required /\ p.key # "id" /\ p.key \notin Keys(sent)

\* _is_value_type_compatible.
Accepts(type, field) ==
  CASE type \in {"float", "double", "number"} -> field \in {"float_value", "int_value"}
    [] type \in {"datetime", "timestamp", "date"} -> field = "datetime_value"
    [] type \in {"json", "object", "array"} -> field = "json_value"
    [] type \in {"int", "integer"} -> field = "int_value"
    [] type \in {"bool", "boolean"} -> field = "bool_value"
    [] type = "string" -> field = "string_value"
    [] OTHER -> FALSE

\* _validate_entity_payload_against_property_context.
Unfit(sent) ==
  \/ \E s \in sent :
       \A p \in Writable(schema) : p.key = s.key => ~Accepts(p.type, s.field)
  \/ \E p \in Writable(schema) : p.required /\ p.key \notin Keys(sent)

\* Every edge is sent with these.
DefaultEdgeProperties ==
  {[key |-> "confidence", field |-> "float_value"],
   [key |-> "status", field |-> "string_value"],
   [key |-> "provenance_hint", field |-> "string_value"]}

\* An edge must say how sure it is, as a number, and two more things, as texts.
EdgeUnfit(sent) ==
  LET Has(key, fields) == \E s \in sent : s.key = key /\ s.field \in fields
  IN \/ ~Has("confidence", {"float_value", "int_value"})
     \/ ~Has("status", {"string_value"})
     \/ ~Has("provenance_hint", {"string_value"})

\* The entities' contexts are read again, one call each; the edges come last.
Preflight ==
  /\ pc = "preflight"
  /\ IF \/ \E i \in DOMAIN delta.entities : Unfit(delta.entities[i].sent)
        \/ delta.edges # <<>> /\ EdgeUnfit(DefaultEdgeProperties)
     THEN Raise
     ELSE GoTo("upsert", 1) /\ UNCHANGED <<asked, work, minted, delta>>
  /\ UNCHANGED world

Refused ==
  Invalid(delta, graph) \/ \E i \in DOMAIN delta.entities : Misfits(delta.entities[i].sent)

\* Mutant of Upsert: a refusal is taken for "it is there already".
UpsertHopes ==
  /\ pc = "upsert"
  /\ GoTo("done", 1)
  /\ graph' = IF Refused \/ Dangles(delta, graph) THEN graph ELSE Merged(delta, graph)
  /\ UNCHANGED <<asked, work, minted, delta, schema, run, faults>>

\* INVALID_ARGUMENT ends the job; INTERNAL, and an answer that is lost after
\* the delta was stored, are retried.
Upsert ==
  /\ pc = "upsert"
  /\ \/ Refused /\ Raise /\ UNCHANGED world
     \/ ~Refused /\ Dangles(delta, graph) /\ Retry(TRUE) /\ UNCHANGED world
     \/ /\ ~Refused /\ ~Dangles(delta, graph)
        /\ graph' = Merged(delta, graph)
        /\ \/ GoTo("done", 1) /\ UNCHANGED <<asked, work, minted, delta, faults>>
           \/ faults < MaxFaults /\ faults' = faults + 1 /\ Retry(TRUE)
        /\ UNCHANGED <<schema, run>>
-----------------------------------------------------------------------------
(* The world around the script.                                            *)

\* Someone changes the entity type.
ChangeSchema ==
  /\ ~Ended /\ faults < MaxFaults
  /\ schema' \in Schemas \ {schema} /\ faults' = faults + 1
  /\ UNCHANGED <<pc, at, tries, asked, work, minted, delta, graph, run>>

\* The orchestrator runs the script again: after a failure, or because its own
\* record of a success was lost.
RunAgain ==
  /\ Ended /\ run < MaxRuns
  /\ run' = run + 1
  /\ GoTo("connect", 1) /\ asked' = FALSE /\ work' = NoWork /\ delta' = NoDelta
  /\ UNCHANGED <<minted, schema, graph, faults>>

Next ==
  \/ Connect \/ ReadExtractionSchema \/ Extract \/ FindCandidates \/ Focus
  \/ ResolveAtOnce \/ ReadCandidates \/ Compare
  \/ FindPairs \/ ReadEdgeSchema \/ Relate
  \/ ReadTypeContext \/ ReadEntityContext \/ BuildEntityGraph
  \/ Merge \/ Preflight \/ Upsert
  \/ CallRaises \/ AgentMisbehaves \/ ChangeSchema \/ RunAgain

Spec == Init /\ [][Next]_vars
-----------------------------------------------------------------------------
TypeOK ==
  /\ pc \in {"connect", "extraction_schema", "extract", "match", "focus", "resolve",
             "compare", "pairs", "edge_schema", "relate", "type_context",
             "entity_context", "final", "merge", "preflight", "upsert", "done", "failed"}
  /\ at \in Nat \ {0} /\ tries \in 0 .. MaxTries - 1 /\ asked \in BOOLEAN
  /\ minted \in Nat /\ schema \in Schemas
  /\ delta \in Delta /\ graph \in Graph
  /\ run \in 1 .. MaxRuns /\ faults \in 0 .. MaxFaults
-----------------------------------------------------------------------------
(* Properties.                                                             *)

\* However often the script is run and whatever the models answer, the stored
\* graph keeps its shape: one block describes an entity, a block has one parent.
GraphKeepsItsShape == WellDescribed(graph)

\* What leaves step nine is whole: every block of the delta hangs, over blocks
\* of the delta, from an entity of the delta.
DeltaHangsTogether ==
  pc \in {"preflight", "upsert"} =>
    Rooted(Merged(delta, [universes |-> {}, entities |-> {}, blocks |-> {}, edges |-> {}]))

DescribedIn(g, e) == \E d \in g.edges : d.kind = "DESCRIBED_BY" /\ d.from = e

\* A run that ends well stored one described entity for each one it extracted,
\* none of them folded into another, and every relationship it found.
DoneMeansStored ==
  pc = "done" =>
    /\ Cardinality(EntityIds(delta)) = Len(work.entities)
    /\ \A e \in EntityIds(delta) : DescribedIn(graph, e)
    /\ ToSet(work.relations) \subseteq graph.edges

\* An entity is written once, with what describes it: UpsertGraphDelta takes a
\* delta only if nothing describes any entity of it yet, be it a new one or the
\* user's own, and everything describes it after.  An update of a described
\* entity never goes through, and neither does a delta that is sent again
\* after an answer was lost.
DescribedOnce ==
  [][graph' # graph => \A e \in EntityIds(delta) :
       ~DescribedIn(graph, e) /\ DescribedIn(graph', e)]_vars
=============================================================================
