------------------------------ MODULE WikiPages ------------------------------
(***************************************************************************)
(* The wiki: the category tree, the paged listing of a category, a page    *)
(* and the patch of its blocks, as the backend serves them to the tabs of  *)
(* one user from the knowledge interface, while knowledge update jobs      *)
(* write to the same graph.  A patch reads the page's context and writes   *)
(* its blocks in two calls; everything else is one call.                   *)
(*                                                                         *)
(* All entities are of one category and of one owner, and nothing is       *)
(* hidden from the user.  Nothing deletes nodes or edges, so that the      *)
(* relevance of an entity never falls.                                     *)
(***************************************************************************)
EXTENDS KnowledgeGraph

CONSTANTS
  Tabs,          \* a tab shows one answer at a time
  Schemas,       \* the replies of GetSchema: [types, active, links]
  PageSize,      \* of a listing
  Openable,      \* the page ids tabs open, of entities that exist or not
  PatchRequests, \* sequences of [block, text]
  JobDeltas,     \* what jobs write: [delta, texts]
  FirstGraph, FirstTexts, FirstRanking,
  MaxFaults      \* calls that fail

None == 0

\* No block has two parents, and None is no block.
OneParentEach(edges) ==
  \A d, e \in edges : {d.kind, e.kind} \subseteq ParentKinds =>
    d.to # None /\ (d.to = e.to => d = e)

ASSUME WikiAssumption ==
  /\ \A schema \in Schemas : IsFiniteSet(schema.types) /\ schema.active \subseteq schema.types
  /\ PageSize \in Nat \ {0}
  /\ FirstGraph \in Graph /\ IsFiniteSet(FirstGraph.edges) /\ OneParentEach(FirstGraph.edges)
  /\ \A job \in JobDeltas : \* step nine gives no parent to a block it does not send
       /\ job.delta \in Delta
       /\ \A d \in ToSet(job.delta.edges) :
            d.kind \in ParentKinds => d.to \in ToSet(job.delta.blocks) \ {None}
  /\ \A ask \in PatchRequests :
       /\ ask \in Seq(ToSet(ask))
       /\ \A i \in DOMAIN ask : ask[i] = [block |-> ask[i].block, text |-> ask[i].text]
  /\ IsFiniteSet(FirstGraph.entities) /\ FirstRanking \in SetToSeqs(FirstGraph.entities)

VARIABLES
  graph, \* as in KnowledgeGraph
  text,  \* the text of every block
  ranking, \* the entities, by descending relevance
  tab,
  faults

store == <<graph, text, ranking>>
vars == <<store, tab, faults>>

Blank == "blank"
Finished == -1  \* a listing without a next page token

\* What a tab shows, and the patch it waits for.
Closed ==
  [at |-> "closed", answer |-> None, schema |-> <<>>, tree |-> {}, listed |-> <<>>, token |-> None, steady |-> {},
   page |-> None, reply |-> <<>>, shown |-> <<>>, summary |-> None, ask |-> <<>>]
-----------------------------------------------------------------------------
(* list_wiki_category_tree.  A category in the tree stands for its lineage  *)
(* from a root; siblings are sorted by name, which is left out.             *)

ExcludedRoots == {"node.block", "node.universe"}

\* The active links between active types.
Children(schema, c) ==
  {l.child : l \in {x \in schema.links :
                      x.active /\ x.parent = c /\ {x.child, c} \subseteq schema.active}}

Roots(schema) == Children(schema, "node.entity") \ ExcludedRoots

Included(schema) ==
  LET Reached[n \in 0 .. Cardinality(schema.active)] ==
        IF n = 0 THEN Roots(schema)
        ELSE UNION {{c} \cup Children(schema, c) : c \in Reached[n - 1]}
  IN Reached[Cardinality(schema.active)]

\* Mutant of Tree: a category is listed under one parent only, the first that
\* is met.
TreeOfFirstParents(schema) ==
  LET parents(c) == {p \in Included(schema) : c \in Children(schema, p)}
      Up[n \in Nat, c \in schema.types] ==
        IF c \in Roots(schema) \/ n = 0 THEN <<c>>
        ELSE Append(Up[n - 1, CHOOSE p \in parents(c) : TRUE], c)
  IN {Up[Cardinality(schema.active), c] : c \in Included(schema)}

\* build_sub_categories: a child that is in its own lineage is left out.
Tree(schema) ==
  LET included == Included(schema)
      kids == [c \in schema.types |-> Children(schema, c) \cap included]
      Below[lineage \in Seq(schema.types) \ {<<>>}] ==
        {lineage} \cup UNION {Below[Append(lineage, c)] :
                              c \in kids[Last(lineage)] \ ToSet(lineage)}
  IN UNION {Below[<<c>>] : c \in Roots(schema)}
-----------------------------------------------------------------------------
(* ListEntitiesByType and list_category_pages.                             *)

\* One row more than a page is fetched.
Rows(offset) == SubSeq(ranking, offset + 1, Min({offset + PageSize + 1, Len(ranking)}))

Listing(offset) == SubSeq(Rows(offset), 1, Min({PageSize, Len(Rows(offset))}))

\* Mutant of NextToken: the extra row counts as one of the page.
NextTokenByRows(offset) ==
  IF Len(Rows(offset)) > PageSize THEN offset + Len(Rows(offset)) ELSE Finished

NextToken(offset) ==
  IF Len(Rows(offset)) > PageSize THEN offset + PageSize ELSE Finished
-----------------------------------------------------------------------------
(* GetEntityContext and get_page_detail.                                   *)

\* The blocks of `page` down to a level, with their parents, by level and id.
BlocksOf(page, depth) ==
  LET Row(d, n) == [id |-> d.to, level |-> n, text |-> text[d.to],
                    parent |-> IF n = 0 THEN None ELSE d.from]
      Level[n \in 0 .. depth] ==
        IF n = 0 THEN {Row(d, 0) : d \in graph.edges \cap Describing(page)}
        ELSE LET above == {b.id : b \in Level[n - 1]}
             IN {Row(d, n) : d \in {x \in graph.edges : x.kind = "SUMMARIZES" /\ x.from \in above}}
  IN UNION {Level[n] : n \in 0 .. depth}

Context(page, depth) ==
  LET blocks == BlocksOf(page, depth)
      precedes(a, b) == a.level < b.level \/ (a.level = b.level /\ a.id < b.id)
      before(b) == {a \in blocks : precedes(a, b)}
  IN [i \in 1 .. Cardinality(blocks) |->
        CHOOSE b \in blocks : Cardinality(before(b)) = i - 1]

MaxBlockLevel == 2

\* Mutant of ContentBlocks: what is below a blank block is left out with it.
ContentAboveBlanks(reply) ==
  LET Walk[parent \in Int] ==
        FlattenSeq([i \in DOMAIN reply |->
                      IF reply[i].parent = parent /\ reply[i].text # Blank
                      THEN <<reply[i].id>> \o Walk[reply[i].id] ELSE <<>>])
  IN Walk[None]

\* _map_content_blocks.
ContentBlocks(reply) ==
  LET Own(b) == IF b.text = Blank THEN <<>> ELSE <<b.id>>
      Walk[parent \in Int] ==
        FlattenSeq([i \in DOMAIN reply |-> IF reply[i].parent = parent
                                          THEN Own(reply[i]) \o Walk[reply[i].id] ELSE <<>>])
  IN Walk[None]

\* _extract_summary_from_described_by_block.
Summary(reply) ==
  LET roots == {i \in DOMAIN reply :
                  reply[i].parent = None /\ reply[i].level = 0 /\ reply[i].text # Blank}
  IN IF roots = {} THEN None ELSE reply[Min(roots)].id
-----------------------------------------------------------------------------
(* Answers.  The knowledge interface knows no NOT_FOUND: an entity that is  *)
(* not there is an internal failure.                                       *)

Passing == {"UNAVAILABLE", "DEADLINE_EXCEEDED"}

Codes == Passing \cup {"INTERNAL"}

\* The HTTP status of a failed call, by what it was for.
Status(use, code) ==
  CASE code \in Passing -> 503
    [] code = "NOT_FOUND" /\ use \in {"page", "patch"} -> 404
    [] code = "INVALID_ARGUMENT" /\ use \in {"tree", "list", "patch"} -> 400
    [] OTHER -> 502

Told(t, status) ==
  tab' = [tab EXCEPT ![t].at = "told", ![t].answer = status, ![t].reply = <<>>]

\* A call fails and changes nothing.
Fails(t, use) ==
  /\ faults < MaxFaults
  /\ faults' = faults + 1
  /\ \E code \in Codes :
       tab' = [tab EXCEPT ![t] = [Closed EXCEPT !.at = "told",
                                                !.answer = Status(use, code)]]

Idle(t) == tab[t].at # "saving"
-----------------------------------------------------------------------------
(* The requests of a tab.                                                  *)

\* A visit starts with the tree (the model's bound: nothing leads back to it).
OpenTree(t) ==
  /\ tab[t].at = "closed"
  /\ UNCHANGED store
  /\ \/ Fails(t, "tree")
     \/ /\ \E schema \in Schemas :
             tab' = [tab EXCEPT ![t] = [Closed EXCEPT !.at = "tree", !.schema = schema,
                                                      !.tree = Tree(schema)]]
        /\ UNCHANGED faults

\* The first page of a category, and the next ones.  `steady` is not in the
\* code: what was listed when the first page was, and has not risen since.
ListCategory(t) ==
  /\ Idle(t)
  /\ UNCHANGED store
  /\ \/ Fails(t, "list")
     \/ /\ tab' = [tab EXCEPT ![t] =
              [Closed EXCEPT !.at = "list", !.token = NextToken(0),
                             !.listed = Listing(0),
                             !.steady = ToSet(ranking)]]
        /\ UNCHANGED faults

ListMore(t) ==
  /\ tab[t].at = "list" /\ tab[t].token # Finished
  /\ UNCHANGED store
  /\ \/ Fails(t, "list")
     \/ /\ tab' = [tab EXCEPT
              ![t].token = NextToken(@),
              ![t].listed = @ \o Listing(tab[t].token)]
        /\ UNCHANGED faults

\* What a page is shown as: its blocks in order, and its summary.
PageDetail(page) ==
  LET reply == Context(page, MaxBlockLevel)
  IN [Closed EXCEPT !.at = "page", !.page = page, !.reply = reply,
                    !.shown = ContentBlocks(reply), !.summary = Summary(reply)]

OpenPage(t, page) ==
  /\ Idle(t)
  /\ UNCHANGED store
  /\ \/ Fails(t, "page")
     \/ /\ page \notin graph.entities
        /\ tab' = [tab EXCEPT ![t] =
             [Closed EXCEPT !.at = "told", !.page = page, !.answer = Status("page", "INTERNAL")]]
        /\ UNCHANGED faults
     \/ /\ page \in graph.entities
        /\ tab' = [tab EXCEPT ![t] = PageDetail(page)]
        /\ UNCHANGED faults
-----------------------------------------------------------------------------
(* patch_page_content_blocks.                                              *)

Asked(ask) == {ask[i].block : i \in DOMAIN ask}

\* The ids of the page's context, which the patch reads anew.
ShallowPatchable(page) == {b.id : b \in BlocksOf(page, 1)} \* mutant of Patchable
Patchable(page) == {b.id : b \in BlocksOf(page, MaxBlockLevel)}

\* Unknown ids, and blank ones, are refused before anything is written.
ReadForPatch(t, ask) ==
  /\ tab[t].at = "page"
  /\ UNCHANGED store
  /\ \/ Fails(t, "patch")
     \/ /\ tab' = [tab EXCEPT ![t] =
              IF Asked(ask) \subseteq Patchable(tab[t].page)
              THEN [tab[t] EXCEPT !.at = "saving", !.ask = ask,
                             !.reply = Context(tab[t].page, MaxBlockLevel)]
              ELSE [tab[t] EXCEPT !.at = "told", !.ask = ask, !.reply = <<>>, !.answer = 400]]
        /\ UNCHANGED faults

\* The delta has blocks only, an item for each asked one.
PatchDelta(ask) ==
  [universes |-> {}, entities |-> <<>>, edges |-> <<>>,
   blocks |-> [i \in DOMAIN ask |-> ask[i].block]]

\* Mutant of Patched: a block for each of the context, the others with the text
\* the tab was shown.
PatchedFromPage(t) ==
  LET ask == tab[t].ask
  IN [b \in DOMAIN text |->
        IF b \in Asked(ask) THEN ask[CHOOSE i \in DOMAIN ask : ask[i].block = b].text
        ELSE IF \E i \in DOMAIN tab[t].reply : tab[t].reply[i].id = b
        THEN tab[t].reply[CHOOSE i \in DOMAIN tab[t].reply : tab[t].reply[i].id = b].text
        ELSE text[b]]

\* The blocks are set one after the other, so that the last item for a block
\* stays.
Patched(t) ==
  LET ask == tab[t].ask
      After[i \in 0 .. Len(ask)] ==
        IF i = 0 THEN text ELSE [After[i - 1] EXCEPT ![ask[i].block] = ask[i].text]
  IN After[Len(ask)]

\* UpsertGraphDelta: refused, failed without a trace, or applied; and an
\* answer that comes late is an error.
Patch(t) ==
  /\ tab[t].at = "saving"
  /\ UNCHANGED <<graph, ranking>>
  /\ \/ /\ Invalid(PatchDelta(tab[t].ask), graph)
        /\ Told(t, Status("patch", "INVALID_ARGUMENT"))
        /\ UNCHANGED <<text, faults>>
     \/ /\ ~Invalid(PatchDelta(tab[t].ask), graph)
        /\ text' = Patched(t)
        /\ Told(t, 200)
        /\ UNCHANGED faults
     \/ /\ faults < MaxFaults
        /\ faults' = faults + 1
        /\ \/ text' = text
           \/ ~Invalid(PatchDelta(tab[t].ask), graph) /\ text' = Patched(t)
        /\ \E code \in Codes : Told(t, Status("patch", code))
-----------------------------------------------------------------------------
(* Jobs.                                                                   *)

\* The entities whose relevance may rise: of an entity, a relation or a block
\* of the delta.
Touched(delta, g) ==
  LET ends == UNION {{d.from, d.to} : d \in ToSet(delta.edges)} \cup ToSet(delta.blocks)
      Up[n \in Nat] == IF n = 0 THEN ends ELSE UNION {{i} \cup Parents(g, {i}) : i \in Up[n - 1]}
  IN EntityIds(delta) \cup (Up[Cardinality(g.blocks)] \cap g.entities)

\* `next` ranks the touched entities no lower than `ranking` does.
Reranked(next, touched) ==
  \A i, k \in DOMAIN ranking : i < k /\ ranking[k] \notin touched =>
    \E m, n \in DOMAIN next : m < n /\ next[m] = ranking[i] /\ next[n] = ranking[k]

JobWrites(job) ==
  LET g == Merged(job.delta, graph)
      touched == Touched(job.delta, g)
  IN /\ ~Invalid(job.delta, graph) /\ ~Dangles(job.delta, graph)
     /\ graph' = g
     /\ text' = [b \in g.blocks |-> IF b \in DOMAIN job.texts THEN job.texts[b] ELSE text[b]]
     /\ ranking' \in {r \in SetToSeqs(g.entities) : Reranked(r, touched)}
     /\ tab' = [t \in Tabs |-> [tab[t] EXCEPT !.steady = @ \ touched]]
     /\ UNCHANGED faults
-----------------------------------------------------------------------------
Init ==
  /\ graph = FirstGraph /\ text = FirstTexts /\ ranking = FirstRanking
  /\ tab = [t \in Tabs |-> Closed]
  /\ faults = 0

Next ==
  \/ \E t \in Tabs : \/ OpenTree(t)
                     \/ ListCategory(t)
                     \/ ListMore(t)
                     \/ \E page \in Openable : OpenPage(t, page)
                     \/ \E ask \in PatchRequests : ReadForPatch(t, ask)
                     \/ Patch(t)
  \/ \E job \in JobDeltas : JobWrites(job)

Spec == Init /\ [][Next]_vars
-----------------------------------------------------------------------------
(* Properties.                                                             *)

\* The reference for the tree: every path of active links from a child of
\* node.entity that meets no category twice.
AllLineages ==
  [schema \in Schemas |->
     {p \in UNION {SetToSeqs(S) : S \in (SUBSET schema.types) \ {{}}} :
        /\ p[1] \in Roots(schema)
        /\ \A i \in 1 .. Len(p) - 1 : p[i + 1] \in Children(schema, p[i])}]

\* A category is in the tree under each of its parents, however they are
\* connected, and a cycle of parents does not make the tree infinite.
TreeIsAllLineages ==
  \A t \in Tabs : tab[t].at = "tree" => tab[t].tree = AllLineages[tab[t].schema]

\* Who pages through a category while jobs write misses a page only if it has
\* risen meanwhile: an offset into a ranking loses nothing that stays.
MissedOnlyRisen ==
  \A t \in Tabs : tab[t].at = "list" /\ tab[t].token = Finished =>
    tab[t].steady \subseteq ToSet(tab[t].listed)

Above(reply, id) ==
  LET parents(ids) == {reply[i].parent : i \in {k \in DOMAIN reply : reply[k].id \in ids}}
  IN parents({id}) \cup parents(parents({id}))

\* A page shows every block with a text once, each below the one it details and
\* next to what details it; its summary is the block that describes the entity.
PageTellsTheTree ==
  \A t \in Tabs : tab[t].at = "page" =>
    LET reply == tab[t].reply
        shown == tab[t].shown
        below(i, k) == shown[i] \in Above(reply, shown[k])
        filled == {b.id : b \in {x \in ToSet(reply) : x.text # Blank}}
    IN /\ ToSet(shown) = filled /\ Len(shown) = Cardinality(filled)
       /\ \A i, k \in DOMAIN shown : i < k =>
            /\ ~below(k, i)
            /\ below(i, k) => \A j \in i + 1 .. k : below(i, j)
       /\ tab[t].summary \in {d.to : d \in graph.edges \cap Describing(tab[t].page)} \cup {None}

\* A patch of blocks that the tab was shown is not refused, whatever jobs and
\* other tabs have written since.
ShownIsEditable ==
  \A t \in Tabs : tab[t].at = "told" /\ Asked(tab[t].ask) \subseteq ToSet(tab[t].shown) =>
    tab[t].answer # 400

\* A patch leaves alone what it was not asked to change, and is answered in
\* accord with what it did: all of it, nothing, or after a failure one of both.
PatchIsAllOrNothing ==
  [][\A t \in Tabs : tab[t].at = "saving" /\ tab'[t].at = "told" =>
       LET ask == tab[t].ask
           nothing == text' = text
           all == \A b \in DOMAIN text' :
                    \/ b \notin Asked(ask) /\ text'[b] = text[b]
                    \/ \E i \in DOMAIN ask :
                         /\ ask[i] = [block |-> b, text |-> text'[b]]
                         /\ \A k \in i + 1 .. Len(ask) : ask[k].block # b
           answer == tab'[t].answer
       IN /\ all \/ nothing
          /\ answer = 200 => all
          /\ answer \in 400 .. 499 => nothing]_vars

\* Who opens a page that does not exist is told so, with 404.  The code breaks
\* it: see the findings.
MissingPageIs404 ==
  \A t \in Tabs : tab[t].at = "told" /\ tab[t].page \notin graph.entities \cup {None} =>
    tab[t].answer = 404
=============================================================================
