------------------------------- MODULE Retrieval -------------------------------
(***************************************************************************)
(* What one user reads of a workspace while documents are shared, ingested *)
(* and deleted.  Four requests read it: a question (the context of a chat  *)
(* turn), the list of documents, the preview of one and the pages of the   *)
(* graph.  None sees one state: the permissions come from OpenFGA, the     *)
(* candidates from Qdrant and the rows from Postgres, read one statement   *)
(* after the other under READ COMMITTED.                                   *)
(*                                                                         *)
(* A document stands for its row and its chunk, its own name for the       *)
(* chunk's point.  A node is the number of its place in (created_at, id).  *)
(***************************************************************************)
EXTENDS Naturals, Sequences, FiniteSets

CONSTANTS
  Docs,
  Here,        \* the documents whose workspace is the one that is read
  MaxNode,     \* graph nodes of the workspace: 1..MaxNode
  Links,       \* graph_edges, as pairs of nodes
  TopK,        \* DEFAULT_TOP_K
  PageLimit,   \* effective_limit of the graph pages
  MaxChanges   \* bound: changes made by others during the request

Nodes == 1..MaxNode

ASSUME HereAssumption  == Here \subseteq Docs /\ IsFiniteSet(Docs)
ASSUME NodeAssumption  == MaxNode \in Nat /\ Links \subseteq Nodes \X Nodes
ASSUME LimitAssumption == TopK \in Nat \ {0} /\ PageLimit \in Nat \ {0}
ASSUME BoundAssumption == MaxChanges \in Nat

VARIABLES
  viewer,       \* documents OpenFGA lets the user view
  accessor,     \* whether it lets the user into the workspace
  row,          \* committed documents, with their chunk
  points,       \* documents with a chunk point in Qdrant
  nodeRow,      \* committed graph nodes, which are the nodes with a point
  prov,         \* graph_node_documents
  kind,         \* the request
  at,           \* its place
  listed,       \* ids OpenFGA listed
  allowed,      \* accessible_document_ids
  todo,         \* candidates still to be looked at
  docs,         \* documents of the result
  nodes,        \* nodes of the result
  seen,         \* nodes the search has looked at; of a page, those it shows
  fallback,     \* needs_fallback
  links,        \* edges of the result
  cursor,       \* last node of the last page
  was,          \* history: documents viewable, and provenance, since the request began
  steady,       \* history: documents nobody touched since
  changes

worldVars  == <<viewer, accessor, row, points, nodeRow, prov>>
resultVars == <<docs, nodes, links>>
pastVars   == <<was, steady, changes>>
vars       == <<worldVars, kind, at, listed, allowed, todo, resultVars, seen, fallback, cursor,
                pastVars>>

Places == {"embed", "enter", "list", "meet", "search", "join", "listAgain", "meetAgain",
           "searchGraph", "hydrate", "match", "screen", "edges", "select", "check", "page",
           "pageList", "pageMeet", "pageEdges", "done", "failed"}

TypeOK ==
  /\ viewer \subseteq Docs /\ row \subseteq Docs /\ points \subseteq Docs
  /\ accessor \in BOOLEAN /\ fallback \in BOOLEAN
  /\ nodeRow \subseteq Nodes /\ prov \subseteq Nodes \X Docs
  /\ kind \in {"ask", "documents", "preview", "graph"} /\ at \in Places
  /\ listed \subseteq Docs /\ allowed \subseteq Docs
  /\ todo \in Seq(Docs \cup Nodes) /\ docs \in Seq(Docs) /\ nodes \in Seq(Nodes)
  /\ seen \subseteq Nodes /\ links \subseteq Links /\ cursor \in 0..MaxNode
  /\ was \in [docs : SUBSET Docs, prov : SUBSET (Nodes \X Docs)] /\ steady \subseteq Docs
  /\ changes \in 0..MaxChanges

Start == [ask |-> "embed", documents |-> "list", preview |-> "select", graph |-> "page"]

\* A row's point is there (VectorIndex); points without a row are left-overs.
Init ==
  /\ viewer \in SUBSET Docs /\ accessor = TRUE
  /\ row \in SUBSET Docs /\ points \in {P \in SUBSET Docs : row \subseteq P}
  /\ prov \in SUBSET (Nodes \X row) /\ nodeRow = {p[1] : p \in prov}
  /\ kind \in DOMAIN Start /\ at = Start[kind]
  /\ listed = {} /\ allowed = {} /\ todo = <<>> /\ docs = <<>> /\ nodes = <<>> /\ links = {}
  /\ seen = {} /\ fallback = FALSE /\ cursor = 0
  /\ was = [docs |-> viewer, prov |-> prov] /\ steady = Docs /\ changes = 0

InSeq(s) == {s[i] : i \in 1..Len(s)}

\* list_objects answers with every object of the type, of any workspace, in one piece.
Viewable == viewer

\* What search_chunks may return of the candidates S: the TopK best, in the order of a score
\* that the model leaves open.
Ranked(S, n) ==
  LET k == IF Cardinality(S) < n THEN Cardinality(S) ELSE n
  IN  {s \in [1..k -> S] : \A i, j \in 1..k : s[i] = s[j] => i = j}

\* search_graph_nodes filters by the workspace, and by no document.
SearchGraphNodes == Ranked(nodeRow, TopK)

\* node_visible_via_provenance
Visible(n) == \E d \in allowed : <<n, d>> \in prov

-------------------------------------------------------------------------------
\* What others do meanwhile.

Change(d) ==
  /\ at \notin {"done", "failed"}
  /\ changes < MaxChanges /\ changes' = changes + 1
  /\ steady' = steady \ {d}
  /\ was' = [docs |-> was.docs \cup viewer', prov |-> was.prov \cup prov']
  /\ UNCHANGED <<kind, at, listed, allowed, todo, resultVars, seen, fallback, cursor>>

Share(d) ==
  /\ d \notin viewer
  /\ viewer' = viewer \cup {d}
  /\ UNCHANGED <<accessor, row, points, nodeRow, prov>>
  /\ Change(d)

Unshare(d) ==
  /\ d \in viewer
  /\ viewer' = viewer \ {d}
  /\ UNCHANGED <<accessor, row, points, nodeRow, prov>>
  /\ Change(d)

\* The member is removed; their own documents stay theirs.
Expel ==
  /\ accessor
  /\ accessor' = FALSE
  /\ viewer' \in SUBSET viewer
  /\ UNCHANGED <<row, points, nodeRow, prov>>
  /\ steady' = {} /\ at \notin {"done", "failed"}
  /\ changes < MaxChanges /\ changes' = changes + 1
  /\ UNCHANGED <<was, kind, at, listed, allowed, todo, resultVars, seen, fallback, cursor>>

\* delete_document commits; the point went before, or its removal failed.
Delete(d) ==
  /\ d \in row
  /\ row' = row \ {d} /\ points' \in {points, points \ {d}}
  /\ prov' = {p \in prov : p[2] # d} /\ nodeRow' = {p[1] : p \in prov'}
  /\ UNCHANGED <<viewer, accessor>>
  /\ Change(d)

Ingest(d, N) ==
  /\ d \notin row /\ d \notin {p[2] : p \in was.prov}
  /\ row' = row \cup {d} /\ points' = points \cup {d}
  /\ prov' = prov \cup (N \X {d}) /\ nodeRow' = nodeRow \cup N
  /\ UNCHANGED <<viewer, accessor>>
  /\ Change(d)

-------------------------------------------------------------------------------
\* The question: embed, chunks, then the graph with permissions read anew.

Go(from, to) == at = from /\ at' = to /\ UNCHANGED <<worldVars, kind, pastVars>>

\* The provider answers with one vector, or the request fails.
Embed ==
  /\ Go("embed", "enter")
  /\ UNCHANGED <<listed, allowed, todo, resultVars, seen, fallback, cursor>>

\* ensure_workspace_member
Enter ==
  /\ Go("enter", IF accessor THEN "list" ELSE "failed")
  /\ UNCHANGED <<listed, allowed, todo, resultVars, seen, fallback, cursor>>

\* The documents the user may view, as OpenFGA knows them, whatever their workspace.
ListObjects ==
  /\ kind = "ask"
  /\ \/ Go("list", IF Viewable = {} THEN "listAgain" ELSE "meet")
     \/ Go("listAgain", IF Viewable = {} THEN "searchGraph" ELSE "meetAgain")
  /\ listed' = Viewable /\ allowed' = {}
  /\ UNCHANGED <<todo, resultVars, seen, fallback, cursor>>

\* Only ids with a row in this workspace are trusted.
Meet ==
  /\ kind = "ask"
  /\ \/ Go("meet", IF listed \cap row \cap Here = {} THEN "listAgain" ELSE "search")
     \/ Go("meetAgain", "searchGraph")
  /\ allowed' = listed \cap row \cap Here
  /\ UNCHANGED <<listed, todo, resultVars, seen, fallback, cursor>>

\* Qdrant filters by workspace and document before it ranks.
SearchChunks ==
  /\ Go("search", "join")
  /\ todo' \in Ranked(points \cap allowed, TopK)
  /\ UNCHANGED <<listed, allowed, resultVars, seen, fallback, cursor>>

\* A hit whose row is gone is skipped; the others are numbered in order.
JoinRow ==
  /\ todo # <<>>
  /\ Go("join", "join")
  /\ docs' = IF Head(todo) \in allowed \cap row THEN Append(docs, Head(todo)) ELSE docs
  /\ todo' = Tail(todo)
  /\ UNCHANGED <<listed, allowed, nodes, links, seen, fallback, cursor>>

ChunksDone ==
  /\ todo = <<>>
  /\ Go("join", "listAgain")
  /\ UNCHANGED <<listed, allowed, todo, resultVars, seen, fallback, cursor>>

\* The workspace's best nodes, cut at the score threshold; any cut asks for the fallback.
SearchGraph ==
  /\ Go("searchGraph", "hydrate")
  /\ \E s \in SearchGraphNodes, cut \in 0..TopK :
       /\ cut <= Len(s)
       /\ todo' = SubSeq(s, 1, cut)
       /\ fallback' = (Len(s) = 0 \/ cut < Len(s))
  /\ UNCHANGED <<listed, allowed, resultVars, seen, cursor>>

\* Row and provenance; what has a provenance row has its node row.
Hydrate ==
  /\ todo # <<>>
  /\ Go("hydrate", "hydrate")
  /\ nodes' = IF Visible(Head(todo)) THEN Append(nodes, Head(todo)) ELSE nodes
  /\ seen' = seen \cup {Head(todo)}
  /\ todo' = Tail(todo)
  /\ UNCHANGED <<listed, allowed, docs, links, fallback, cursor>>

Hydrated ==
  /\ todo = <<>>
  /\ Go("hydrate", IF fallback /\ Len(nodes) < TopK THEN "match" ELSE "edges")
  /\ UNCHANGED <<listed, allowed, todo, resultVars, seen, fallback, cursor>>

\* Faulty: what the search already found is not left out (ResultIsClosed).
MatchSeenAgain ==
  /\ Go("match", "screen")
  /\ \E M \in SUBSET nodeRow : todo' \in Ranked(M, TopK)
  /\ UNCHANGED <<listed, allowed, resultVars, seen, fallback, cursor>>

\* ILIKE: any TopK of the nodes whose text matches, without those already looked at.  (As
\* the text leaves M open, it is the same to drop these before the cut or after it.)
Match ==
  /\ Go("match", "screen")
  /\ \E M \in SUBSET (nodeRow \ seen) : todo' \in Ranked(M, TopK)
  /\ UNCHANGED <<listed, allowed, resultVars, seen, fallback, cursor>>

\* Faulty: the fallback's nodes are taken as they come (NothingUnreadableShown).
ScreenAll ==
  /\ todo # <<>> /\ Len(nodes) < TopK
  /\ Go("screen", "screen")
  /\ nodes' = Append(nodes, Head(todo))
  /\ seen' = seen \cup {Head(todo)}
  /\ todo' = Tail(todo)
  /\ UNCHANGED <<listed, allowed, docs, links, fallback, cursor>>

Screen ==
  /\ todo # <<>> /\ Len(nodes) < TopK
  /\ Go("screen", "screen")
  /\ nodes' = IF Visible(Head(todo)) THEN Append(nodes, Head(todo)) ELSE nodes
  /\ seen' = seen \cup {Head(todo)}
  /\ todo' = Tail(todo)
  /\ UNCHANGED <<listed, allowed, docs, links, fallback, cursor>>

Screened ==
  /\ todo = <<>> \/ Len(nodes) >= TopK
  /\ Go("screen", "edges")
  /\ UNCHANGED <<listed, allowed, todo, resultVars, seen, fallback, cursor>>

\* Edges that touch a node of the context, of which those with both ends in it are kept.
LoadEdges ==
  /\ Go("edges", "done")
  /\ links' = {e \in Links : /\ {e[1], e[2]} \subseteq nodeRow
                             /\ {e[1], e[2]} \subseteq InSeq(nodes)}
  /\ UNCHANGED <<listed, allowed, todo, docs, nodes, seen, fallback, cursor>>

\* A call or a statement fails: the request answers an error and shows nothing.
Fail ==
  /\ at \notin {"done", "failed"} /\ Go(at, "failed")
  /\ UNCHANGED <<listed, allowed, todo, resultVars, seen, fallback, cursor>>

Ask ==
  \/ Embed \/ Enter \/ ListObjects \/ Meet \/ SearchChunks \/ JoinRow \/ ChunksDone
  \/ SearchGraph \/ Hydrate \/ Hydrated \/ Match \/ Screen \/ Screened \/ LoadEdges

-------------------------------------------------------------------------------
\* The other three requests.  A list is of one workspace or of them all.

ListDocuments ==
  /\ kind = "documents"
  /\ \/ /\ Go("list", IF Viewable = {} THEN "done" ELSE "meet")
        /\ listed' = Viewable /\ docs' = docs
     \/ /\ Go("meet", "done")
        /\ \E W \in {Here, Docs} : docs' \in Ranked(listed \cap row \cap W, Cardinality(Docs))
        /\ listed' = listed
  /\ UNCHANGED <<allowed, todo, nodes, links, seen, fallback, cursor>>

\* The row is loaded before the permission is checked, the chunks after.
Preview ==
  /\ \/ \E d \in row : Go("select", "check") /\ todo' = <<d>> /\ docs' = docs
     \/ /\ Go("check", IF Head(todo) \in viewer THEN "done" ELSE "failed")
        /\ docs' = IF Head(todo) \in viewer THEN todo ELSE docs
        /\ todo' = todo
  /\ UNCHANGED <<listed, allowed, nodes, links, seen, fallback, cursor>>

\* The rows after the cursor, one more than the page holds.
After(c)  == {n \in nodeRow : n > c}
PageOf(c) == {n \in After(c) : Cardinality({m \in After(c) : m < n}) < PageLimit}

\* Faulty: the cursor is the row looked at beyond the page (SteadyIsShown).
NextCursorBeyond(c) ==
  IF After(c) = PageOf(c) THEN 0
  ELSE CHOOSE n \in After(c) \ PageOf(c) : \A m \in After(c) \ PageOf(c) : n <= m

\* The cursor of the next page is the last row of this one; 0 stands for no cursor.
NextCursor(c) ==
  IF After(c) = PageOf(c) THEN 0 ELSE CHOOSE n \in PageOf(c) : \A m \in PageOf(c) : m <= n

\* A set of the one sequence that lists S in order.
Ascending(S) == {s \in [1..Cardinality(S) -> S] : \A i, j \in DOMAIN s : i < j => s[i] < s[j]}

GetPage ==
  /\ Go("page", IF accessor THEN "pageList" ELSE "failed")
  /\ todo' \in Ascending(PageOf(cursor))
  /\ cursor' = NextCursor(cursor)
  /\ seen' = {}
  /\ UNCHANGED <<listed, allowed, resultVars, fallback>>

PageAccess ==
  /\ \/ Go("pageList", "pageMeet") /\ listed' = Viewable /\ allowed' = allowed
     \/ Go("pageMeet", "pageEdges") /\ listed' = listed /\ allowed' = listed \cap row \cap Here
  /\ UNCHANGED <<todo, resultVars, seen, fallback, cursor>>

PageNode ==
  /\ todo # <<>>
  /\ Go("pageEdges", "pageEdges")
  /\ nodes' = IF Visible(Head(todo)) THEN Append(nodes, Head(todo)) ELSE nodes
  /\ seen'  = IF Visible(Head(todo)) THEN seen \cup {Head(todo)} ELSE seen
  /\ todo' = Tail(todo)
  /\ UNCHANGED <<listed, allowed, docs, links, fallback, cursor>>

\* A page has the edges between its own nodes.  The client asks for the next page as
\* long as there is a cursor.
PageDone ==
  /\ todo = <<>>
  /\ Go("pageEdges", IF cursor = 0 THEN "done" ELSE "page")
  /\ links' = links \cup {e \in Links : {e[1], e[2]} \subseteq seen \cap nodeRow}
  /\ UNCHANGED <<listed, allowed, todo, docs, nodes, seen, fallback, cursor>>

Browse == ListDocuments \/ Preview \/ GetPage \/ PageAccess \/ PageNode \/ PageDone

Others ==
  \/ Expel
  \/ \E d \in Docs : \/ Share(d) \/ Unshare(d) \/ Delete(d)
                     \/ \E N \in SUBSET Nodes : Ingest(d, N)

Next == Ask \/ Browse \/ Fail \/ Others

Spec == Init /\ [][Next]_vars

-------------------------------------------------------------------------------
\* Whatever is shared, unshared or deleted meanwhile, nothing enters a result that the
\* user could not read at some moment of the request: documents were viewable, nodes
\* were extracted from a document of this workspace that was (retrieval.rs:119-131,
\* 464-473).
NothingUnreadableShown ==
  /\ InSeq(docs) \subseteq was.docs
  /\ kind = "ask" => InSeq(docs) \subseteq Here
  /\ \A n \in InSeq(nodes) : \E d \in was.docs \cap Here : <<n, d>> \in was.prov

\* A result has no entry twice, a context at most TopK of each, and no edge without
\* its ends.
ResultIsClosed ==
  /\ \A s \in {docs, nodes} : \A i, j \in 1..Len(s) : s[i] = s[j] => i = j
  /\ kind = "ask" => Len(docs) <= TopK /\ Len(nodes) <= TopK
  /\ \A e \in links : {e[1], e[2]} \subseteq InSeq(nodes)

\* What stays readable during the whole request is found: a document that is among the
\* TopK candidates whatever the ranking, every listed document, every node of the pages.
Readable == {d \in steady : d \in viewer \cap row \cap Here}
SteadyIsShown ==
  at = "done" =>
    /\ kind = "documents" => Readable \subseteq InSeq(docs)
    /\ kind = "graph" => \A n \in Nodes : (\E d \in Readable : <<n, d>> \in prov) => n \in InSeq(nodes)
    /\ kind = "ask" /\ Cardinality(was.docs \cap Here) <= TopK => Readable \subseteq InSeq(docs)
===============================================================================
