----------------------------- MODULE RetrievalProofs -----------------------------
(***************************************************************************)
(* Proofs about Retrieval, for any documents, nodes and limits, and any    *)
(* number of changes during the request.                                   *)
(*                                                                         *)
(* What is shown could be read (Inv): what a request listed was viewable   *)
(* when it was listed, and only what is both listed and of this workspace  *)
(* passes; a node passes by a provenance row of such a document.           *)
(*                                                                         *)
(* The result is closed (ShapeInv): the candidates are distinct and none   *)
(* of them is shown yet, and the pages so far end at the cursor.           *)
(*                                                                         *)
(* What stays readable is shown (SteadyInv): from step to step it is among *)
(* what is listed, allowed, and shown or still to be looked at.            *)
(***************************************************************************)
EXTENDS Retrieval, FiniteSetTheorems, FunctionTheorems, SequenceTheorems, WellFoundedInduction, TLAPS

USE HereAssumption, NodeAssumption, LimitAssumption, BoundAssumption

-------------------------------------------------------------------------------
Typed ==
  /\ viewer \subseteq Docs /\ row \subseteq Docs /\ prov \subseteq Nodes \X Docs
  /\ docs \in Seq(Docs) /\ nodes \in Seq(Nodes)
  /\ was.docs \subseteq Docs

\* What the request knows is of some moment of it.
PastInv ==
  /\ viewer \subseteq was.docs /\ prov \subseteq was.prov
  /\ listed \subseteq was.docs /\ allowed \subseteq was.docs \cap Here

\* The preview looks at one document.
PreviewInv ==
  /\ at \in {"select", "check"} => kind = "preview"
  /\ at = "check" => \E d \in Docs : todo = <<d>>

Inv == Typed /\ PastInv /\ PreviewInv /\ NothingUnreadableShown

-------------------------------------------------------------------------------
LEMMA InEmpty == InSeq(<<>>) = {}
BY DEF InSeq

LEMMA InAppend ==
  ASSUME NEW S, NEW s \in Seq(S), NEW x \in S
  PROVE  Append(s, x) \in Seq(S) /\ InSeq(Append(s, x)) = InSeq(s) \cup {x}
<1>. DEFINE t == Append(s, x)
<1>1. t \in Seq(S) /\ Len(t) = Len(s) + 1 /\ Len(s) \in Nat
  OBVIOUS
<1>2. t[Len(s) + 1] = x /\ \A i \in 1..Len(s) : t[i] = s[i]
  OBVIOUS
<1>. HIDE DEF t
<1>3. 1..Len(t) = 1..Len(s) \cup {Len(s) + 1}
  BY <1>1
<1>4. InSeq(t) = InSeq(s) \cup {x}
  BY <1>1, <1>2, <1>3 DEF InSeq
<1>. QED
  BY <1>1, <1>4 DEF t

LEMMA InOne ==
  ASSUME NEW S, NEW x \in S
  PROVE  <<x>> \in Seq(S) /\ InSeq(<<x>>) = {x}
BY DEF InSeq

\* A ranking of a part of the documents lists some of it.
LEMMA RankedFrom ==
  ASSUME NEW S \in SUBSET Docs, NEW n \in Nat, NEW s \in Ranked(S, n)
  PROVE  s \in Seq(Docs) /\ InSeq(s) \subseteq S
<1>. DEFINE k == IF Cardinality(S) < n THEN Cardinality(S) ELSE n
<1>1. k \in Nat
  BY FS_Subset, FS_CardinalityType
<1>2. s \in [1..k -> S]
  BY DEF Ranked
<1>. HIDE DEF k
<1>3. s \in Seq(S) /\ Len(s) = k
  BY <1>1, <1>2
<1>4. s \in Seq(Docs)
  BY <1>1, <1>2
<1>. QED
  BY <1>2, <1>3, <1>4 DEF InSeq

LEMMA InitInv == Init => Inv
<1>. SUFFICES ASSUME Init PROVE Inv
  OBVIOUS
<1>1. Typed /\ PastInv
  BY DEF Init, Typed, PastInv
<1>2. PreviewInv
  BY DEF Init, PreviewInv, Start
<1>3. NothingUnreadableShown
  BY InEmpty DEF Init, NothingUnreadableShown
<1>. QED
  BY <1>1, <1>2, <1>3 DEF Inv

-------------------------------------------------------------------------------
\* The past only grows.
LEMMA OthersKeepInv ==
  ASSUME Inv, Others
  PROVE  Inv'
<1>1. UNCHANGED <<kind, at, listed, allowed, todo, resultVars>>
  BY DEF Others, Expel, Share, Unshare, Delete, Ingest, Change
<1>2. was.docs \subseteq was'.docs /\ was.prov \subseteq was'.prov /\ was'.docs \subseteq Docs
  BY DEF Others, Expel, Share, Unshare, Delete, Ingest, Change, Inv, Typed
<1>3. viewer' \subseteq was'.docs /\ prov' \subseteq was'.prov
  BY DEF Others, Expel, Share, Unshare, Delete, Ingest, Change, Inv, PastInv
<1>4. viewer' \subseteq Docs /\ row' \subseteq Docs /\ prov' \subseteq Nodes \X Docs
  BY DEF Others, Expel, Share, Unshare, Delete, Ingest, Inv, Typed
<1>5. Typed' /\ PastInv' /\ PreviewInv'
  BY <1>1, <1>2, <1>3, <1>4 DEF Inv, Typed, PastInv, PreviewInv, resultVars
<1>6. NothingUnreadableShown'
  BY <1>1, <1>2 DEF Inv, NothingUnreadableShown, resultVars, InSeq
<1>. QED
  BY <1>5, <1>6 DEF Inv

\* A step of the request that shows nothing new and learns no more than it may.
LEMMA Learns ==
  ASSUME Inv, UNCHANGED <<worldVars, kind, pastVars, docs, nodes>>,
         listed' \subseteq was.docs, allowed' \subseteq was.docs \cap Here,
         PreviewInv'
  PROVE  Inv'
BY DEF Inv, Typed, PastInv, NothingUnreadableShown, InSeq, worldVars, pastVars

\* A step that may show one more node, which it sees by its provenance.
LEMMA ShowsNode ==
  ASSUME Inv, UNCHANGED <<worldVars, kind, pastVars, listed, allowed, docs>>, PreviewInv',
         nodes' = IF Visible(Head(todo)) THEN Append(nodes, Head(todo)) ELSE nodes
  PROVE  Inv'
<1>1. CASE ~Visible(Head(todo))
  BY <1>1, Learns DEF Inv, PastInv
<1>2. CASE Visible(Head(todo))
  <2>1. PICK d \in allowed : <<Head(todo), d>> \in prov
    BY <1>2 DEF Visible
  <2>2. Head(todo) \in Nodes
    BY <2>1 DEF Inv, Typed
  <2>3. d \in was.docs \cap Here /\ <<Head(todo), d>> \in was.prov
    BY <2>1 DEF Inv, PastInv
  <2>4. nodes' \in Seq(Nodes) /\ InSeq(nodes)' = InSeq(nodes) \cup {Head(todo)}
    BY <1>2, <2>2, InAppend DEF Inv, Typed
  <2>5. NothingUnreadableShown'
    BY <2>3, <2>4 DEF Inv, NothingUnreadableShown, pastVars, InSeq
  <2>. QED
    BY <2>4, <2>5 DEF Inv, Typed, PastInv, worldVars, pastVars
<1>. QED
  BY <1>1, <1>2

\* A step that shows documents it may.
LEMMA ShowsDocs ==
  ASSUME Inv, UNCHANGED <<worldVars, kind, pastVars, listed, allowed, nodes>>, PreviewInv',
         docs' \in Seq(Docs), InSeq(docs') \subseteq was.docs,
         kind = "ask" => InSeq(docs') \subseteq Here
  PROVE  Inv'
BY DEF Inv, Typed, PastInv, NothingUnreadableShown, InSeq, worldVars, pastVars

LEMMA AskKeepsInv ==
  ASSUME Inv, Ask
  PROVE  Inv'
<1>. USE DEF Go
<1>0. /\ UNCHANGED <<worldVars, kind, pastVars>>
      /\ at' \notin {"select", "check"}
  BY DEF Ask, Embed, Enter, ListObjects, Meet, SearchChunks, JoinRow, ChunksDone, SearchGraph,
     Hydrate, Hydrated, Match, Screen, Screened, LoadEdges
<1>1. PreviewInv'
  BY <1>0 DEF PreviewInv
<1>2. CASE Embed \/ Enter \/ SearchChunks \/ ChunksDone \/ SearchGraph \/ Hydrated \/ Match
           \/ Screened \/ LoadEdges
  <2>1. UNCHANGED <<listed, allowed, docs, nodes>>
    BY <1>2 DEF Embed, Enter, SearchChunks, ChunksDone, SearchGraph, Hydrated, Match, Screened,
       LoadEdges, resultVars
  <2>. QED
    BY <1>0, <1>1, <2>1, Learns DEF Inv, PastInv
<1>3. CASE ListObjects
  BY <1>0, <1>1, <1>3, Learns DEF ListObjects, Viewable, Inv, PastInv, resultVars
<1>4. CASE Meet
  BY <1>0, <1>1, <1>4, Learns DEF Meet, Inv, PastInv, resultVars
<1>5. CASE JoinRow
  <2>1. CASE Head(todo) \in allowed \cap row
    <3>1. Head(todo) \in Docs /\ Head(todo) \in was.docs \cap Here
      BY <2>1 DEF Inv, Typed, PastInv
    <3>2. docs' \in Seq(Docs) /\ InSeq(docs') = InSeq(docs) \cup {Head(todo)}
      BY <1>5, <2>1, <3>1, InAppend DEF JoinRow, Inv, Typed
    <3>3. UNCHANGED <<listed, allowed, nodes>>
      BY <1>5 DEF JoinRow
    <3>. QED
      BY <1>0, <1>1, <3>1, <3>2, <3>3, ShowsDocs DEF Inv, NothingUnreadableShown
  <2>2. CASE Head(todo) \notin allowed \cap row
    BY <1>0, <1>1, <1>5, <2>2, Learns DEF JoinRow, Inv, PastInv
  <2>. QED
    BY <2>1, <2>2
<1>6. CASE Hydrate \/ Screen
  BY <1>0, <1>1, <1>6, ShowsNode DEF Hydrate, Screen
<1>. QED
  BY <1>2, <1>3, <1>4, <1>5, <1>6 DEF Ask

LEMMA BrowseKeepsInv ==
  ASSUME Inv, Browse
  PROVE  Inv'
<1>. USE DEF Go
<1>1. CASE ListDocuments
  <2>1. PreviewInv' /\ UNCHANGED <<worldVars, kind, pastVars, allowed, nodes>> /\ kind = "documents"
    BY <1>1 DEF ListDocuments, PreviewInv
  <2>2. CASE listed' = Viewable /\ docs' = docs
    BY <2>1, <2>2, Learns DEF Viewable, Inv, PastInv
  <2>3. ASSUME NEW W \in {Here, Docs}, docs' \in Ranked(listed \cap row \cap W, Cardinality(Docs)),
               listed' = listed
        PROVE  Inv'
    <3>1. listed \cap row \cap W \in SUBSET Docs /\ listed \subseteq was.docs
      BY DEF Inv, Typed, PastInv
    <3>2. Cardinality(Docs) \in Nat
      BY FS_CardinalityType
    <3>3. docs' \in Seq(Docs) /\ InSeq(docs') \subseteq listed \cap row \cap W
      BY <2>3, <3>1, <3>2, RankedFrom
    <3>. QED
      BY <2>1, <2>3, <3>1, <3>3, ShowsDocs
  <2>. QED
    BY <1>1, <2>2, <2>3 DEF ListDocuments
<1>2. CASE Preview
  <2>1. UNCHANGED <<worldVars, kind, pastVars, listed, allowed, nodes>>
    BY <1>2 DEF Preview
  <2>2. ASSUME NEW d \in row, Go("select", "check"), todo' = <<d>>, docs' = docs PROVE Inv'
    <3>1. PreviewInv'
      BY <2>2 DEF PreviewInv, Inv, Typed
    <3>. QED
      BY <2>1, <2>2, <3>1, Learns DEF Inv, PastInv
  <2>3. CASE /\ Go("check", IF Head(todo) \in viewer THEN "done" ELSE "failed")
             /\ docs' = IF Head(todo) \in viewer THEN todo ELSE docs
    <3>1. PreviewInv' /\ kind = "preview"
      BY <2>3 DEF PreviewInv, Inv
    <3>2. PICK d \in Docs : todo = <<d>>
      BY <2>3 DEF Inv, PreviewInv
    <3>3. CASE Head(todo) \in viewer
      <4>1. docs' = <<d>> /\ d \in was.docs
        BY <2>3, <3>2, <3>3 DEF Inv, PastInv
      <4>2. docs' \in Seq(Docs) /\ InSeq(docs') = {d}
        BY <4>1, InOne
      <4>. QED
        BY <2>1, <3>1, <4>1, <4>2, ShowsDocs
    <3>4. CASE Head(todo) \notin viewer
      BY <2>1, <2>3, <3>1, <3>4, Learns DEF Inv, PastInv
    <3>. QED
      BY <3>3, <3>4
  <2>. QED
    BY <1>2, <2>2, <2>3 DEF Preview
<1>3. CASE GetPage \/ PageAccess \/ PageDone
  <2>1. UNCHANGED <<worldVars, kind, pastVars, docs, nodes>> /\ at' \notin {"select", "check"}
    BY <1>3 DEF GetPage, PageAccess, PageDone, resultVars
  <2>2. listed' \subseteq was.docs /\ allowed' \subseteq was.docs \cap Here
    BY <1>3 DEF GetPage, PageAccess, PageDone, Viewable, Inv, PastInv
  <2>. QED
    BY <2>1, <2>2, Learns DEF PreviewInv
<1>4. CASE PageNode
  <2>1. PreviewInv'
    BY <1>4 DEF PageNode, PreviewInv
  <2>. QED
    BY <1>4, <2>1, ShowsNode DEF PageNode
<1>. QED
  BY <1>1, <1>2, <1>3, <1>4 DEF Browse

LEMMA StepInv == Inv /\ [Next]_vars => Inv'
<1>. SUFFICES ASSUME Inv, [Next]_vars PROVE Inv'
  OBVIOUS
<1>1. CASE UNCHANGED vars
  BY <1>1, Learns DEF vars, resultVars, Inv, PastInv, PreviewInv
<1>2. CASE Fail
  BY <1>2, Learns DEF Fail, Go, resultVars, Inv, PastInv, PreviewInv
<1>. QED
  BY <1>1, <1>2, OthersKeepInv, AskKeepsInv, BrowseKeepsInv DEF Next

\* Nothing enters a context, a list, a preview or a page of the graph that the user could not
\* read at some moment of the request (retrieval.rs:119-131, 464-473; documents.rs: list,
\* preview; graph.rs: nodes).
THEOREM ShownWasReadable == Spec => []NothingUnreadableShown
BY InitInv, StepInv, PTL DEF Spec, Inv

-------------------------------------------------------------------------------
(***************************************************************************)
(* The result is closed.  What is still to be looked at has no entry twice *)
(* and nothing of the result; nothing that was looked at comes back.       *)
(***************************************************************************)
Distinct(s)    == \A i, j \in 1..Len(s) : s[i] = s[j] => i = j
Disjoint(s, t) == InSeq(s) \cap InSeq(t) = {}

AskPlaces  == {"embed", "enter", "search", "join", "listAgain", "meetAgain", "searchGraph",
               "hydrate", "match", "screen", "edges"}
PagePlaces == {"pageList", "pageMeet", "pageEdges"}

\* The places of a request, and what it has not begun with.
PlaceInv ==
  /\ at \in AskPlaces => kind = "ask"
  /\ at \in {"list", "meet"} => kind \in {"ask", "documents"}
  /\ at \in PagePlaces \cup {"page"} => kind = "graph"
  /\ at \in {"embed", "enter", "list", "meet", "search", "select", "check"} => docs = <<>>
  /\ at \in {"embed", "enter", "list", "meet", "search", "join", "listAgain", "meetAgain", "searchGraph"} =>
       nodes = <<>>

\* The candidates.
TodoInv ==
  /\ at = "join" => todo \in Seq(Docs) /\ Distinct(todo) /\ Disjoint(todo, docs)
  /\ at \in {"hydrate", "screen"} \cup PagePlaces =>
       todo \in Seq(Nodes) /\ Distinct(todo) /\ Disjoint(todo, nodes)
  /\ at \in {"hydrate", "match", "screen"} => InSeq(nodes) \subseteq seen
  /\ at \in PagePlaces => seen \subseteq InSeq(nodes)

\* The sizes.
SizeInv ==
  /\ kind = "ask" => Len(docs) <= TopK /\ Len(nodes) <= TopK
  /\ at = "join" => Len(docs) + Len(todo) <= TopK
  /\ at = "hydrate" => Len(nodes) + Len(todo) <= TopK

\* The pages so far end at the cursor.
PageInv ==
  /\ nodeRow \subseteq Nodes /\ cursor \in Nat
  /\ at = "page" => \A n \in InSeq(nodes) : n <= cursor
  /\ at \in PagePlaces /\ cursor # 0 => \A n \in InSeq(nodes) \cup InSeq(todo) : n <= cursor

ClosedInv ==
  /\ Distinct(docs) /\ Distinct(nodes)
  /\ \A e \in links : {e[1], e[2]} \subseteq InSeq(nodes)

ShapeInv == PlaceInv /\ TodoInv /\ SizeInv /\ PageInv /\ ClosedInv

(***************************************************************************)
(* What stays readable is shown.  It is among what the request has listed, *)
(* allowed, and shown or still to look at; others can only make it less.   *)
(***************************************************************************)
Few == Cardinality(was.docs \cap Here) <= TopK

ReadableNodes == {n \in Nodes : \E d \in Readable : <<n, d>> \in prov}

AfterChunks == {"listAgain", "meetAgain", "searchGraph", "hydrate", "match", "screen", "edges", "done"}

ListedInv ==
  /\ row \subseteq points /\ \A p \in prov : p[1] \in nodeRow
  /\ at \in {"meet", "pageMeet"} => steady \cap viewer \subseteq listed
  /\ at \in {"search", "join", "pageEdges"} => Readable \subseteq allowed

ShownInv ==
  /\ at = "join" /\ Few => Readable \subseteq InSeq(docs) \cup InSeq(todo)
  /\ at \in AfterChunks /\ kind = "ask" /\ Few => Readable \subseteq InSeq(docs)
  /\ at = "done" /\ kind = "documents" => Readable \subseteq InSeq(docs)
  /\ at = "page" => \A n \in ReadableNodes : n <= cursor => n \in InSeq(nodes)
  /\ at \in PagePlaces =>
       \A n \in ReadableNodes : n \in InSeq(nodes) \cup InSeq(todo) \/ (cursor # 0 /\ cursor < n)
  /\ at = "done" /\ kind = "graph" => ReadableNodes \subseteq InSeq(nodes)

SteadyInv == ListedInv /\ ShownInv

-------------------------------------------------------------------------------
\* Sequences without a double entry.
LEMMA EmptyDistinct == Distinct(<<>>) /\ InSeq(<<>>) = {} /\ Len(<<>>) = 0
BY InEmpty DEF Distinct

LEMMA OneDistinct ==
  ASSUME NEW x
  PROVE  Distinct(<<x>>)
BY DEF Distinct

\* The next candidate is added to the result, or dropped.
LEMMA TakeNext ==
  ASSUME NEW S, NEW s \in Seq(S), NEW c \in Seq(S), c # <<>>,
         Distinct(s), Distinct(c), Disjoint(c, s)
  PROVE  /\ Head(c) \in S /\ Tail(c) \in Seq(S) /\ Len(Tail(c)) + 1 = Len(c)
         /\ Distinct(Tail(c)) /\ Disjoint(Tail(c), s)
         /\ InSeq(c) = InSeq(Tail(c)) \cup {Head(c)}
         /\ Append(s, Head(c)) \in Seq(S) /\ Len(Append(s, Head(c))) = Len(s) + 1
         /\ InSeq(Append(s, Head(c))) = InSeq(s) \cup {Head(c)}
         /\ Distinct(Append(s, Head(c))) /\ Disjoint(Tail(c), Append(s, Head(c)))
<1>. DEFINE x == Head(c)  r == Tail(c)  t == Append(s, x)
<1>1. /\ x \in S /\ r \in Seq(S) /\ Len(r) + 1 = Len(c) /\ Len(r) \in Nat /\ 1 \in 1..Len(c) /\ x = c[1]
      /\ \A i \in 1..Len(r) : r[i] = c[i + 1] /\ i + 1 \in 1..Len(c)
      /\ \A i \in 1..Len(c) : i = 1 \/ (i - 1 \in 1..Len(r) /\ r[i - 1] = c[i])
  OBVIOUS
<1>2. t \in Seq(S) /\ Len(t) = Len(s) + 1 /\ Len(s) \in Nat /\ InSeq(t) = InSeq(s) \cup {x}
  BY <1>1, InAppend
<1>3. t[Len(s) + 1] = x /\ \A i \in 1..Len(s) : t[i] = s[i]
  BY <1>1
<1>. HIDE DEF x, r, t
<1>4. InSeq(c) = InSeq(r) \cup {x}
  <2>1. InSeq(c) \subseteq InSeq(r) \cup {x}
    BY <1>1 DEF InSeq
  <2>2. InSeq(r) \cup {x} \subseteq InSeq(c)
    BY <1>1 DEF InSeq
  <2>. QED
    BY <2>1, <2>2
<1>5. x \notin InSeq(r)
  <2>. SUFFICES ASSUME NEW i \in 1..Len(r), r[i] = x PROVE FALSE
    BY DEF InSeq
  <2>1. c[i + 1] = c[1] /\ i + 1 \in 1..Len(c) /\ 1 \in 1..Len(c)
    BY <1>1
  <2>2. i + 1 = 1
    BY <2>1 DEF Distinct
  <2>. QED
    BY <2>2
<1>6. Distinct(r)
  <2>. SUFFICES ASSUME NEW i \in 1..Len(r), NEW j \in 1..Len(r), r[i] = r[j] PROVE i = j
    BY DEF Distinct
  <2>1. c[i + 1] = c[j + 1] /\ i + 1 \in 1..Len(c) /\ j + 1 \in 1..Len(c)
    BY <1>1
  <2>2. i + 1 = j + 1
    BY <2>1 DEF Distinct
  <2>. QED
    BY <2>2
<1>7. x \notin InSeq(s)
  BY <1>4 DEF Disjoint
<1>8. Distinct(t)
  <2>. SUFFICES ASSUME NEW i \in 1..Len(t), NEW j \in 1..Len(t), t[i] = t[j] PROVE i = j
    BY DEF Distinct
  <2>1. \A k \in 1..Len(s) : s[k] # x
    BY <1>7 DEF InSeq
  <2>2. CASE i = Len(s) + 1 \/ j = Len(s) + 1
    BY <1>2, <1>3, <2>1, <2>2
  <2>3. CASE i \in 1..Len(s) /\ j \in 1..Len(s)
    BY <1>3, <2>3 DEF Distinct
  <2>. QED
    BY <1>2, <2>2, <2>3
<1>9. Disjoint(r, s) /\ Disjoint(r, t)
  BY <1>2, <1>4, <1>5 DEF Disjoint
<1>. QED
  BY <1>1, <1>2, <1>4, <1>6, <1>8, <1>9 DEF x, r, t

\* The first entries of a sequence.
LEMMA CutIs ==
  ASSUME NEW S, NEW s \in Seq(S), Distinct(s), NEW k \in Nat, k <= Len(s)
  PROVE  LET t == SubSeq(s, 1, k)
         IN  t \in Seq(S) /\ Len(t) = k /\ Distinct(t)
<1>. DEFINE t == SubSeq(s, 1, k)
<1>1. t \in Seq(S) /\ Len(t) = k /\ \A i \in 1..k : t[i] = s[i]
  OBVIOUS
<1>. HIDE DEF t
<1>2. Distinct(t)
  BY <1>1 DEF Distinct
<1>. QED
  BY <1>1, <1>2 DEF t

\* A ranking lists distinct members, no more than asked for, and all of them if they are few.
LEMMA RankedIs ==
  ASSUME NEW U, NEW S \in SUBSET U, IsFiniteSet(S), NEW n \in Nat, NEW s \in Ranked(S, n)
  PROVE  /\ s \in Seq(U) /\ Distinct(s) /\ Len(s) <= n /\ InSeq(s) \subseteq S
         /\ Cardinality(S) <= n => InSeq(s) = S
<1>. DEFINE k == IF Cardinality(S) < n THEN Cardinality(S) ELSE n
<1>1. Cardinality(S) \in Nat
  BY FS_CardinalityType
<1>2. k \in Nat /\ k <= n /\ (Cardinality(S) <= n => k = Cardinality(S))
  BY <1>1
<1>3. s \in [1..k -> S] /\ \A i, j \in 1..k : s[i] = s[j] => i = j
  BY DEF Ranked
<1>. HIDE DEF k
<1>4. s \in Seq(U) /\ Len(s) = k
  BY <1>2, <1>3
<1>5. InSeq(s) \subseteq S /\ Distinct(s)
  BY <1>3, <1>4 DEF InSeq, Distinct
<1>6. ASSUME Cardinality(S) <= n PROVE InSeq(s) = S
  <2>1. s \in Injection(1..k, S)
    BY <1>3 DEF Injection, IsInjective
  <2>2. Cardinality(1..k) = Cardinality(S)
    BY <1>2, <1>6, FS_Interval
  <2>3. s \in Surjection(1..k, S)
    BY <2>1, <2>2, FS_Injection
  <2>4. S \subseteq InSeq(s)
    BY <1>4, <2>3 DEF Surjection, InSeq
  <2>. QED
    BY <1>5, <2>4
<1>. QED
  BY <1>2, <1>4, <1>5, <1>6

LEMMA NodesAreNat == Nodes \subseteq Nat /\ 0 \notin Nodes
BY DEF Nodes

\* A page in order.
LEMMA AscendingIs ==
  ASSUME NEW S \in SUBSET Nodes, NEW s \in Ascending(S)
  PROVE  s \in Seq(Nodes) /\ Distinct(s) /\ InSeq(s) = S
<1>. DEFINE k == Cardinality(S)
<1>1. IsFiniteSet(S) /\ k \in Nat
  <2>1. IsFiniteSet(1..MaxNode)
    BY FS_Interval
  <2>. QED
    BY <2>1, FS_Subset, FS_CardinalityType DEF Nodes
<1>2. s \in [1..k -> S] /\ \A i, j \in 1..k : i < j => s[i] < s[j]
  BY DEF Ascending
<1>3. \A i \in 1..k : s[i] \in Nat
  <2>1. S \subseteq Nat
    BY NodesAreNat
  <2>. HIDE DEF k
  <2>. QED
    BY <1>2, <2>1
<1>4. \A i, j \in 1..k : s[i] = s[j] => i = j
  BY <1>1, <1>2, <1>3
<1>5. s \in Ranked(S, k)
  BY <1>1, <1>2, <1>4 DEF Ranked
<1>. HIDE DEF k
<1>6. s \in Seq(Nodes) /\ Distinct(s) /\ (Cardinality(S) <= k => InSeq(s) = S)
  BY <1>1, <1>5, RankedIs
<1>. QED
  BY <1>1, <1>6 DEF k

\* The ends of a finite set of numbers, by the well-founded order of its parts.
LEMMA Ends ==
  ASSUME NEW T \in SUBSET Nat, IsFiniteSet(T), T # {}
  PROVE  (\E x \in T : \A y \in T : x <= y) /\ (\E x \in T : \A y \in T : y <= x)
<1>. DEFINE R == StrictSubsetOrdering(T)  F == FiniteSubsetsOf(T)
            Below(x) == {y \in T : y <= x}   Above(x) == {y \in T : x <= y}
            B == {Below(x) : x \in T}  A == {Above(x) : x \in T}
<1>1. IsWellFoundedOn(R, F)
  BY FS_StrictSubsetOrderingWellFounded
<1>2. A \subseteq F /\ B \subseteq F /\ A # {} /\ B # {}
  <2>1. \A x \in T : Below(x) \in SUBSET T /\ Above(x) \in SUBSET T
    OBVIOUS
  <2>2. \A U \in SUBSET T : U \in F
    BY FS_Subset DEF FiniteSubsetsOf
  <2>. HIDE DEF F, Below, Above
  <2>. QED
    BY <2>1, <2>2
<1>3. \A X, Y \in F : X \subseteq Y /\ X # Y => <<X, Y>> \in R
  BY DEF StrictSubsetOrdering, FiniteSubsetsOf
<1>. HIDE DEF R, F
<1>4. PICK X \in B : \A Y \in B : ~(<<Y, X>> \in R)
  <2>. HIDE DEF B
  <2>. QED
    BY <1>1, <1>2, WFMin
<1>5. PICK Z \in A : \A Y \in A : ~(<<Y, Z>> \in R)
  <2>. HIDE DEF A
  <2>. QED
    BY <1>1, <1>2, WFMin
<1>6. \E x \in T : \A y \in T : x <= y
  <2>1. PICK x \in T : X = Below(x)
    BY <1>4
  <2>2. ASSUME NEW y \in T, y < x PROVE FALSE
    <3>0. x \in Nat /\ y \in Nat
      OBVIOUS
    <3>a. Below(y) \subseteq Below(x)
      <4>. SUFFICES ASSUME NEW z \in T, z <= y PROVE z \in Below(x)
        OBVIOUS
      <4>1. z \in Nat
        OBVIOUS
      <4>. QED
        BY <2>2, <3>0, <4>1
    <3>b. x \in Below(x) /\ x \notin Below(y)
      BY <2>2, <3>0
    <3>c. Below(y) \in B
      OBVIOUS
    <3>1. Below(y) \in B /\ Below(y) \subseteq X /\ x \in X /\ x \notin Below(y)
      BY <2>1, <3>a, <3>b, <3>c
    <3>2. <<Below(y), X>> \in R
      BY <1>2, <1>3, <1>4, <3>1
    <3>. QED
      BY <1>4, <3>1, <3>2
  <2>. QED
    BY <2>2
<1>7. \E x \in T : \A y \in T : y <= x
  <2>1. PICK x \in T : Z = Above(x)
    BY <1>5
  <2>2. ASSUME NEW y \in T, x < y PROVE FALSE
    <3>0. x \in Nat /\ y \in Nat
      OBVIOUS
    <3>a. Above(y) \subseteq Above(x)
      <4>. SUFFICES ASSUME NEW z \in T, y <= z PROVE z \in Above(x)
        OBVIOUS
      <4>1. z \in Nat
        OBVIOUS
      <4>. QED
        BY <2>2, <3>0, <4>1
    <3>b. x \in Above(x) /\ x \notin Above(y)
      BY <2>2, <3>0
    <3>c. Above(y) \in A
      OBVIOUS
    <3>1. Above(y) \in A /\ Above(y) \subseteq Z /\ x \in Z /\ x \notin Above(y)
      BY <2>1, <3>a, <3>b, <3>c
    <3>2. <<Above(y), Z>> \in R
      BY <1>2, <1>3, <1>5, <3>1
    <3>. QED
      BY <1>5, <3>1, <3>2
  <2>. QED
    BY <2>2
<1>. QED
  BY <1>6, <1>7

\* A page ends at the cursor of the next, and what is not on it comes after.
LEMMA CursorIs ==
  ASSUME nodeRow \subseteq Nodes, NEW c \in Nat
  PROVE  LET d == NextCursor(c)
         IN  /\ d \in Nat
             /\ PageOf(c) \subseteq Nodes /\ \A n \in PageOf(c) : n \in Nat /\ c < n
             /\ d # 0 => c < d /\ \A n \in PageOf(c) : n <= d
             /\ \A n \in nodeRow : c < n /\ n \notin PageOf(c) => d # 0 /\ d < n
<1>. DEFINE P == PageOf(c)  Q == After(c)  L(n) == {m \in Q : m < n}
<1>1. Q \subseteq Nodes /\ P \subseteq Q /\ Q \subseteq Nat /\ P \subseteq Nat /\ \A n \in Q : c < n
  BY NodesAreNat DEF After, PageOf
<1>2. IsFiniteSet(Q) /\ IsFiniteSet(P)
  <2>1. IsFiniteSet(1..MaxNode)
    BY FS_Interval
  <2>. QED
    BY <1>1, <2>1, FS_Subset DEF Nodes
<1>3. \A n \in Q : n \in P <=> Cardinality(L(n)) < PageLimit
  BY DEF PageOf
<1>4. ASSUME NEW m \in P, NEW n \in Q \ P PROVE m < n
  <2>. SUFFICES ASSUME n <= m PROVE FALSE
    BY <1>1
  <2>1. L(n) \subseteq L(m)
    BY <1>1
  <2>2. IsFiniteSet(L(m))
    BY <1>2, FS_Subset
  <2>3. Cardinality(L(n)) <= Cardinality(L(m)) /\ Cardinality(L(n)) \in Nat /\ Cardinality(L(m)) \in Nat
    <3>1. IsFiniteSet(L(n))
      BY <1>2, FS_Subset
    <3>. HIDE DEF L
    <3>. QED
      BY <2>1, <2>2, <3>1, FS_Subset, FS_CardinalityType
  <2>4. Cardinality(L(m)) < PageLimit /\ ~(Cardinality(L(n)) < PageLimit)
    BY <1>1, <1>3
  <2>. HIDE DEF L
  <2>. QED
    BY <2>3, <2>4
<1>5. CASE Q = P
  <2>1. NextCursor(c) = 0
    BY <1>5 DEF NextCursor
  <2>2. \A n \in nodeRow : c < n => n \in P
    BY <1>5 DEF After
  <2>. QED
    BY <1>1, <2>1, <2>2
<1>6. CASE Q # P
  <2>1. P # {}
    <3>1. PICK n \in Q : \A m \in Q : n <= m
      <4>1. Q # {}
        BY <1>1, <1>6
      <4>. HIDE DEF Q
      <4>. QED
        BY <1>1, <1>2, <4>1, Ends
    <3>2. L(n) = {}
      BY <1>1, <3>1
    <3>3. Cardinality(L(n)) = 0
      BY <3>2, FS_EmptySet
    <3>. QED
      BY <1>3, <3>1, <3>3
  <2>2. PICK x \in P : \A m \in P : m <= x
    <3>. HIDE DEF P
    <3>. QED
      BY <1>1, <1>2, <2>1, Ends
  <2>. DEFINE d == NextCursor(c)
  <2>3. d \in P /\ \A m \in P : m <= d
    BY <1>6, <2>2 DEF NextCursor
  <2>4. d \in Nat /\ d # 0
    BY <1>1, <2>3 DEF Nodes
  <2>5. \A n \in nodeRow : c < n => n \in Q
    BY DEF After
  <2>6. \A n \in nodeRow : c < n /\ n \notin P => d # 0 /\ d < n
    BY <1>4, <2>3, <2>4, <2>5
  <2>. QED
    BY <1>1, <2>3, <2>4, <2>6
<1>. QED
  BY <1>5, <1>6

-------------------------------------------------------------------------------
LEMMA ShapeInit == Init => ShapeInv
<1>. SUFFICES ASSUME Init PROVE ShapeInv
  OBVIOUS
<1>1. /\ docs = <<>> /\ nodes = <<>> /\ links = {} /\ cursor = 0
      /\ nodeRow \subseteq Nodes /\ at = Start[kind] /\ kind \in DOMAIN Start
  BY DEF Init
<1>2. at \in {"embed", "list", "select", "page"} /\ PlaceInv
  BY <1>1 DEF Start, PlaceInv, AskPlaces, PagePlaces
<1>3. TodoInv /\ PageInv
  BY <1>1, <1>2, EmptyDistinct DEF TodoInv, PageInv, PagePlaces
<1>4. SizeInv /\ ClosedInv
  BY <1>1, <1>2, EmptyDistinct DEF SizeInv, ClosedInv
<1>. QED
  BY <1>2, <1>3, <1>4 DEF ShapeInv

\* The candidates and the result are no concern of others.
LEMMA OthersKeepShape ==
  ASSUME Inv, ShapeInv, Others
  PROVE  ShapeInv'
<1>1. UNCHANGED <<kind, at, todo, docs, nodes, links, seen, cursor>>
  BY DEF Others, Expel, Share, Unshare, Delete, Ingest, Change, resultVars
<1>2. nodeRow' \subseteq Nodes
  <2>1. CASE Expel \/ \E d \in Docs : Share(d) \/ Unshare(d)
    BY <2>1 DEF Expel, Share, Unshare, ShapeInv, PageInv
  <2>2. ASSUME NEW d \in Docs, Delete(d) PROVE nodeRow' \subseteq Nodes
    BY <2>2 DEF Delete, Inv, Typed
  <2>3. ASSUME NEW d \in Docs, NEW N \in SUBSET Nodes, Ingest(d, N) PROVE nodeRow' \subseteq Nodes
    BY <2>3 DEF Ingest, ShapeInv, PageInv
  <2>. QED
    BY <2>1, <2>2, <2>3 DEF Others
<1>3. PlaceInv' /\ SizeInv'
  BY <1>1 DEF ShapeInv, PlaceInv, SizeInv
<1>4. TodoInv'
  BY <1>1 DEF ShapeInv, TodoInv, PagePlaces
<1>5. PageInv'
  BY <1>1, <1>2 DEF ShapeInv, PageInv, PagePlaces
<1>6. ClosedInv'
  BY <1>1 DEF ShapeInv, ClosedInv
<1>. QED
  BY <1>3, <1>4, <1>5, <1>6 DEF ShapeInv

\* A step of a request: the world stays, and so do the results but for what is said.
LEMMA ShapeStep ==
  ASSUME Inv, ShapeInv, UNCHANGED <<worldVars, kind>>, PlaceInv', TodoInv', SizeInv',
         ClosedInv', cursor' \in Nat,
         at' = "page" => \A n \in InSeq(nodes') : n <= cursor',
         at' \in PagePlaces /\ cursor' # 0 => \A n \in InSeq(nodes') \cup InSeq(todo') : n <= cursor'
  PROVE  ShapeInv'
BY DEF ShapeInv, PageInv, worldVars, InSeq

\* Steps that show nothing and take up nothing.
LEMMA ShapeMoves ==
  ASSUME Inv, ShapeInv, UNCHANGED <<worldVars, kind, docs, nodes, links, seen, cursor>>, PlaceInv',
         at' \notin {"join", "hydrate", "screen", "page"} \cup PagePlaces,
         at' = "match" => InSeq(nodes) \subseteq seen
  PROVE  ShapeInv'
<1>1. TodoInv'
  BY DEF TodoInv, PagePlaces, InSeq
<1>2. SizeInv' /\ ClosedInv'
  BY DEF ShapeInv, SizeInv, ClosedInv, Distinct, InSeq
<1>. QED
  BY <1>1, <1>2, ShapeStep DEF ShapeInv, PageInv, PagePlaces

LEMMA AskKeepsShape ==
  ASSUME Inv, ShapeInv, Ask
  PROVE  ShapeInv'
<1>0. UNCHANGED <<worldVars, kind, pastVars>>
  BY DEF Go, Ask, Embed, Enter, ListObjects, Meet, SearchChunks, JoinRow, ChunksDone, SearchGraph,
     Hydrate, Hydrated, Match, Screen, Screened, LoadEdges
<1>a. TopK \in Nat /\ 0 <= TopK /\ Len(docs) \in Nat /\ Len(nodes) \in Nat
  BY LimitAssumption DEF Inv, Typed
<1>1. CASE Embed \/ Enter \/ ListObjects \/ Meet
  <2>1. UNCHANGED <<docs, nodes, links, seen, cursor>>
    BY <1>1 DEF Embed, Enter, ListObjects, Meet, resultVars
  <2>2. /\ at \in {"embed", "enter", "list", "meet", "listAgain", "meetAgain"} /\ kind = "ask"
        /\ at' \in {"enter", "list", "failed", "listAgain", "meet", "searchGraph", "meetAgain", "search"}
        /\ at' \in {"enter", "list", "meet", "search"} => at \in {"embed", "enter", "list", "meet"}
    BY <1>1 DEF Embed, Enter, ListObjects, Meet, Go, ShapeInv, PlaceInv, AskPlaces
  <2>3. PlaceInv'
    BY <1>0, <2>1, <2>2 DEF ShapeInv, PlaceInv, AskPlaces, PagePlaces
  <2>. QED
    BY <1>0, <2>1, <2>2, <2>3, ShapeMoves DEF PagePlaces
<1>2. CASE SearchChunks
  <2>1. /\ at = "search" /\ at' = "join" /\ docs' = docs /\ nodes' = nodes /\ links' = links
        /\ cursor' = cursor /\ todo' \in Ranked(points \cap allowed, TopK)
    BY <1>2 DEF SearchChunks, Go, resultVars
  <2>2. docs = <<>> /\ nodes = <<>> /\ kind = "ask"
    BY <2>1 DEF ShapeInv, PlaceInv, AskPlaces
  <2>3. points \cap allowed \in SUBSET Docs /\ IsFiniteSet(points \cap allowed)
    BY FS_Subset DEF Inv, PastInv, Typed
  <2>4. todo' \in Seq(Docs) /\ Distinct(todo') /\ Len(todo') <= TopK
    <3>1. PICK S \in SUBSET Docs : IsFiniteSet(S) /\ todo' \in Ranked(S, TopK)
      BY <2>1, <2>3
    <3>. QED
      BY <1>a, <3>1, RankedIs
  <2>5. PlaceInv'
    BY <1>0, <2>1, <2>2 DEF PlaceInv, AskPlaces, PagePlaces
  <2>6. TodoInv'
    BY <2>1, <2>2, <2>4, EmptyDistinct DEF TodoInv, PagePlaces, Disjoint
  <2>7. SizeInv'
    BY <1>a, <2>1, <2>2, <2>4, EmptyDistinct DEF SizeInv
  <2>8. ClosedInv'
    BY <2>1 DEF ShapeInv, ClosedInv
  <2>. QED
    BY <1>0, <2>1, <2>5, <2>6, <2>7, <2>8, ShapeStep DEF ShapeInv, PageInv, PagePlaces
<1>3. CASE JoinRow
  <2>1. /\ at = "join" /\ at' = "join" /\ nodes' = nodes /\ links' = links /\ cursor' = cursor
        /\ docs' = docs \/ docs' = Append(docs, Head(todo))
        /\ todo' = Tail(todo) /\ todo # <<>>
    BY <1>3 DEF JoinRow, Go
  <2>2. nodes = <<>> /\ kind = "ask"
    BY <2>1 DEF ShapeInv, PlaceInv, AskPlaces
  <2>3. docs \in Seq(Docs) /\ todo \in Seq(Docs) /\ Distinct(docs) /\ Distinct(todo) /\ Disjoint(todo, docs)
    BY <2>1 DEF Inv, Typed, ShapeInv, TodoInv, ClosedInv
  <2>4. /\ todo' \in Seq(Docs) /\ Len(todo') + 1 = Len(todo) /\ Distinct(todo') /\ Disjoint(todo', docs')
        /\ Distinct(docs') /\ Len(docs') \in {Len(docs), Len(docs) + 1}
    <3>1. /\ Tail(todo) \in Seq(Docs) /\ Len(Tail(todo)) + 1 = Len(todo) /\ Distinct(Tail(todo))
          /\ Disjoint(Tail(todo), docs)
          /\ Disjoint(Tail(todo), Append(docs, Head(todo))) /\ Distinct(Append(docs, Head(todo)))
          /\ Len(Append(docs, Head(todo))) = Len(docs) + 1
      BY <2>1, <2>3, TakeNext
    <3>. QED
      BY <2>1, <2>3, <3>1
  <2>5. Len(docs) + Len(todo) <= TopK /\ Len(todo') \in Nat
    BY <2>1, <2>4 DEF ShapeInv, SizeInv
  <2>6. PlaceInv'
    BY <1>0, <2>1, <2>2 DEF PlaceInv, AskPlaces, PagePlaces
  <2>7. TodoInv'
    BY <2>1, <2>4 DEF TodoInv, PagePlaces
  <2>8. SizeInv'
    BY <1>a, <2>1, <2>2, <2>4, <2>5, EmptyDistinct DEF SizeInv
  <2>9. ClosedInv'
    BY <2>1, <2>4 DEF ShapeInv, ClosedInv
  <2>. QED
    BY <1>0, <2>1, <2>6, <2>7, <2>8, <2>9, ShapeStep DEF ShapeInv, PageInv, PagePlaces
<1>4. CASE ChunksDone
  <2>1. at = "join" /\ at' = "listAgain" /\ UNCHANGED <<docs, nodes, links, seen, cursor>>
    BY <1>4 DEF ChunksDone, Go, resultVars
  <2>2. PlaceInv'
    BY <1>0, <2>1 DEF ShapeInv, PlaceInv, AskPlaces, PagePlaces
  <2>. QED
    BY <1>0, <2>1, <2>2, ShapeMoves DEF PagePlaces
<1>5. CASE SearchGraph
  <2>1. /\ at = "searchGraph" /\ at' = "hydrate"
        /\ docs' = docs /\ nodes' = nodes /\ links' = links /\ seen' = seen /\ cursor' = cursor
    BY <1>5 DEF SearchGraph, Go, resultVars
  <2>2. nodes = <<>> /\ kind = "ask"
    BY <2>1 DEF ShapeInv, PlaceInv, AskPlaces
  <2>3. PICK s \in Ranked(nodeRow, TopK), cut \in 0..TopK : cut <= Len(s) /\ todo' = SubSeq(s, 1, cut)
    BY <1>5 DEF SearchGraph, SearchGraphNodes
  <2>4. nodeRow \in SUBSET Nodes /\ IsFiniteSet(nodeRow)
    <3>1. IsFiniteSet(1..MaxNode)
      BY FS_Interval
    <3>. QED
      BY <3>1, FS_Subset DEF ShapeInv, PageInv, Nodes
  <2>5. s \in Seq(Nodes) /\ Distinct(s)
    BY <1>a, <2>4, RankedIs
  <2>6. todo' \in Seq(Nodes) /\ Distinct(todo') /\ Len(todo') = cut /\ cut \in Nat /\ cut <= TopK
    BY <1>a, <2>3, <2>5, CutIs
  <2>7. PlaceInv'
    BY <1>0, <2>1, <2>2 DEF PlaceInv, AskPlaces, PagePlaces
  <2>8. TodoInv'
    BY <2>1, <2>2, <2>6, EmptyDistinct DEF TodoInv, PagePlaces, Disjoint
  <2>9. SizeInv'
    BY <1>a, <2>1, <2>2, <2>6, EmptyDistinct DEF ShapeInv, SizeInv
  <2>10. ClosedInv'
    BY <2>1 DEF ShapeInv, ClosedInv
  <2>. QED
    BY <1>0, <2>1, <2>7, <2>8, <2>9, <2>10, ShapeStep DEF ShapeInv, PageInv, PagePlaces
<1>6. CASE Hydrate \/ Screen
  <2>1. /\ at \in {"hydrate", "screen"} /\ at' = at /\ docs' = docs /\ links' = links /\ cursor' = cursor
        /\ nodes' = nodes \/ nodes' = Append(nodes, Head(todo))
        /\ seen' = seen \cup {Head(todo)} /\ todo' = Tail(todo) /\ todo # <<>>
        /\ at = "screen" => Len(nodes) < TopK
    BY <1>6 DEF Hydrate, Screen, Go
  <2>2. kind = "ask"
    BY <2>1 DEF ShapeInv, PlaceInv, AskPlaces
  <2>3. nodes \in Seq(Nodes) /\ todo \in Seq(Nodes) /\ Distinct(nodes) /\ Distinct(todo) /\ Disjoint(todo, nodes)
    BY <2>1 DEF Inv, Typed, ShapeInv, TodoInv, ClosedInv
  <2>4. /\ todo' \in Seq(Nodes) /\ Len(todo') + 1 = Len(todo) /\ Distinct(todo') /\ Disjoint(todo', nodes')
        /\ Distinct(nodes') /\ Len(nodes') \in {Len(nodes), Len(nodes) + 1}
        /\ InSeq(nodes) \subseteq InSeq(nodes') /\ InSeq(nodes') \subseteq InSeq(nodes) \cup {Head(todo)}
    <3>1. /\ Tail(todo) \in Seq(Nodes) /\ Len(Tail(todo)) + 1 = Len(todo) /\ Distinct(Tail(todo))
          /\ Disjoint(Tail(todo), nodes)
          /\ Disjoint(Tail(todo), Append(nodes, Head(todo))) /\ Distinct(Append(nodes, Head(todo)))
          /\ Len(Append(nodes, Head(todo))) = Len(nodes) + 1
          /\ InSeq(Append(nodes, Head(todo))) = InSeq(nodes) \cup {Head(todo)}
      BY <2>1, <2>3, TakeNext
    <3>. QED
      BY <2>1, <2>3, <3>1
  <2>5. Len(todo') \in Nat /\ Len(todo) \in Nat
    BY <2>3, <2>4
  <2>6. at = "hydrate" => Len(nodes) + Len(todo) <= TopK
    BY DEF ShapeInv, SizeInv
  <2>7. Len(nodes') <= TopK /\ (at = "hydrate" => Len(nodes') + Len(todo') <= TopK)
    BY <1>a, <2>1, <2>4, <2>5, <2>6
  <2>8. PlaceInv'
    BY <1>0, <2>1, <2>2 DEF PlaceInv, AskPlaces, PagePlaces
  <2>9. InSeq(nodes') \subseteq seen'
    BY <2>1, <2>4 DEF ShapeInv, TodoInv
  <2>10. TodoInv'
    BY <2>1, <2>4, <2>9 DEF TodoInv, PagePlaces, InSeq
  <2>11. SizeInv'
    BY <2>1, <2>2, <2>7 DEF ShapeInv, SizeInv
  <2>12. ClosedInv'
    <3>1. \A e \in links : {e[1], e[2]} \subseteq InSeq(nodes')
      BY <2>4 DEF ShapeInv, ClosedInv
    <3>. QED
      BY <2>1, <2>4, <3>1 DEF ShapeInv, ClosedInv, InSeq
  <2>. QED
    BY <1>0, <2>1, <2>8, <2>10, <2>11, <2>12, ShapeStep DEF ShapeInv, PageInv, PagePlaces
<1>7. CASE Hydrated
  <2>1. /\ at = "hydrate" /\ at' \in {"match", "edges"}
        /\ UNCHANGED <<docs, nodes, links, seen, cursor>>
    BY <1>7 DEF Hydrated, Go, resultVars
  <2>2. PlaceInv'
    BY <1>0, <2>1 DEF ShapeInv, PlaceInv, AskPlaces, PagePlaces
  <2>3. InSeq(nodes) \subseteq seen
    BY <2>1 DEF ShapeInv, TodoInv
  <2>. QED
    BY <1>0, <2>1, <2>2, <2>3, ShapeMoves DEF PagePlaces
<1>8. CASE Match
  <2>1. /\ at = "match" /\ at' = "screen"
        /\ docs' = docs /\ nodes' = nodes /\ links' = links /\ seen' = seen /\ cursor' = cursor
    BY <1>8 DEF Match, Go, resultVars
  <2>2. PICK M \in SUBSET (nodeRow \ seen) : todo' \in Ranked(M, TopK)
    BY <1>8 DEF Match
  <2>3. M \in SUBSET Nodes /\ IsFiniteSet(M)
    <3>1. IsFiniteSet(1..MaxNode)
      BY FS_Interval
    <3>. QED
      BY <3>1, FS_Subset DEF ShapeInv, PageInv, Nodes
  <2>4. todo' \in Seq(Nodes) /\ Distinct(todo') /\ InSeq(todo') \subseteq M
    BY <1>a, <2>2, <2>3, RankedIs
  <2>5. Disjoint(todo', nodes') /\ InSeq(nodes') \subseteq seen'
    BY <2>1, <2>2, <2>4 DEF Disjoint, ShapeInv, TodoInv
  <2>6. PlaceInv'
    BY <1>0, <2>1 DEF ShapeInv, PlaceInv, AskPlaces, PagePlaces
  <2>7. TodoInv'
    BY <2>1, <2>4, <2>5 DEF TodoInv, PagePlaces, InSeq
  <2>8. SizeInv' /\ ClosedInv'
    BY <1>0, <2>1 DEF ShapeInv, SizeInv, ClosedInv
  <2>. QED
    BY <1>0, <2>1, <2>6, <2>7, <2>8, ShapeStep DEF ShapeInv, PageInv, PagePlaces
<1>9. CASE Screened
  <2>1. at = "screen" /\ at' = "edges" /\ UNCHANGED <<docs, nodes, links, seen, cursor>>
    BY <1>9 DEF Screened, Go, resultVars
  <2>2. PlaceInv'
    BY <1>0, <2>1 DEF ShapeInv, PlaceInv, AskPlaces, PagePlaces
  <2>. QED
    BY <1>0, <2>1, <2>2, ShapeMoves DEF PagePlaces
<1>10. CASE LoadEdges
  <2>1. /\ at = "edges" /\ at' = "done" /\ docs' = docs /\ nodes' = nodes /\ cursor' = cursor
        /\ \A e \in links' : {e[1], e[2]} \subseteq InSeq(nodes)
    BY <1>10 DEF LoadEdges, Go
  <2>2. PlaceInv'
    BY <1>0, <2>1 DEF PlaceInv, AskPlaces, PagePlaces
  <2>3. TodoInv'
    BY <2>1 DEF TodoInv, PagePlaces
  <2>4. SizeInv'
    BY <1>0, <2>1 DEF ShapeInv, SizeInv
  <2>5. ClosedInv'
    BY <2>1 DEF ShapeInv, ClosedInv
  <2>. QED
    BY <1>0, <2>1, <2>2, <2>3, <2>4, <2>5, ShapeStep DEF ShapeInv, PageInv, PagePlaces
<1>. QED
  BY <1>1, <1>2, <1>3, <1>4, <1>5, <1>6, <1>7, <1>8, <1>9, <1>10 DEF Ask

\* A page node is shown or dropped, in the order of the page.
LEMMA BrowseKeepsShape ==
  ASSUME Inv, ShapeInv, Browse
  PROVE  ShapeInv'
<1>0. UNCHANGED <<worldVars, kind, pastVars>>
  BY DEF Go, Browse, ListDocuments, Preview, GetPage, PageAccess, PageNode, PageDone
<1>1. CASE ListDocuments
  <2>1. /\ kind = "documents" /\ at \in {"list", "meet"} /\ at' \in {"meet", "done"}
        /\ nodes' = nodes /\ links' = links /\ cursor' = cursor
        /\ at' = "meet" => docs' = docs /\ at = "list"
    BY <1>1 DEF ListDocuments, Go
  <2>2. Distinct(docs')
    <3>1. CASE docs' = docs
      BY <3>1 DEF ShapeInv, ClosedInv
    <3>2. CASE \E W \in {Here, Docs} : docs' \in Ranked(listed \cap row \cap W, Cardinality(Docs))
      <4>1. PICK S \in SUBSET Docs : docs' \in Ranked(S, Cardinality(Docs))
        BY <3>2 DEF Inv, Typed
      <4>2. IsFiniteSet(S) /\ Cardinality(Docs) \in Nat
        BY FS_Subset, FS_CardinalityType
      <4>. QED
        BY <4>1, <4>2, RankedIs
    <3>. QED
      BY <1>1, <3>1, <3>2 DEF ListDocuments
  <2>3. PlaceInv'
    BY <1>0, <2>1 DEF ShapeInv, PlaceInv, AskPlaces, PagePlaces
  <2>4. TodoInv' /\ SizeInv'
    BY <1>0, <2>1 DEF TodoInv, SizeInv, PagePlaces
  <2>5. ClosedInv'
    BY <2>1, <2>2 DEF ShapeInv, ClosedInv
  <2>. QED
    BY <1>0, <2>1, <2>3, <2>4, <2>5, ShapeStep DEF ShapeInv, PageInv, PagePlaces
<1>2. CASE Preview
  <2>1. /\ at \in {"select", "check"} /\ at' \in {"check", "done", "failed"}
        /\ nodes' = nodes /\ links' = links /\ cursor' = cursor
        /\ at' = "check" => docs' = docs /\ at = "select"
        /\ docs' = docs \/ (at = "check" /\ docs' = todo)
    BY <1>2 DEF Preview, Go
  <2>2. kind = "preview"
    BY <2>1 DEF Inv, PreviewInv
  <2>3. Distinct(docs')
    BY <2>1, OneDistinct DEF Inv, PreviewInv, ShapeInv, ClosedInv
  <2>4. PlaceInv'
    BY <1>0, <2>1, <2>2 DEF ShapeInv, PlaceInv, AskPlaces, PagePlaces
  <2>5. TodoInv' /\ SizeInv'
    BY <1>0, <2>1, <2>2 DEF TodoInv, SizeInv, PagePlaces
  <2>6. ClosedInv'
    BY <2>1, <2>3 DEF ShapeInv, ClosedInv
  <2>. QED
    BY <1>0, <2>1, <2>4, <2>5, <2>6, ShapeStep DEF ShapeInv, PageInv, PagePlaces
<1>3. CASE GetPage
  <2>1. /\ at = "page" /\ at' \in {"pageList", "failed"}
        /\ docs' = docs /\ nodes' = nodes /\ links' = links /\ seen' = {}
        /\ cursor' = NextCursor(cursor) /\ todo' \in Ascending(PageOf(cursor))
    BY <1>3 DEF GetPage, Go, resultVars
  <2>2. kind = "graph" /\ \A n \in InSeq(nodes) : n <= cursor
    BY <2>1 DEF ShapeInv, PlaceInv, PagePlaces, PageInv
  <2>3. /\ cursor' \in Nat /\ cursor \in Nat
        /\ PageOf(cursor) \in SUBSET Nodes /\ \A n \in PageOf(cursor) : n \in Nat /\ cursor < n
        /\ cursor' # 0 => cursor < cursor' /\ \A n \in PageOf(cursor) : n <= cursor'
    BY <2>1, CursorIs DEF ShapeInv, PageInv
  <2>4. todo' \in Seq(Nodes) /\ Distinct(todo') /\ InSeq(todo') = PageOf(cursor)
    <3>1. PICK S \in SUBSET Nodes : S = PageOf(cursor) /\ todo' \in Ascending(S)
      BY <2>1, <2>3
    <3>2. todo' \in Seq(Nodes) /\ Distinct(todo') /\ InSeq(todo') = S
      BY <3>1, AscendingIs
    <3>. QED
      BY <3>1, <3>2
  <2>5. \A n \in InSeq(nodes) : n \in Nat
    <3>1. \A i \in 1..Len(nodes) : nodes[i] \in Nodes
      BY DEF Inv, Typed
    <3>. QED
      BY <3>1, NodesAreNat DEF InSeq
  <2>6. Disjoint(todo', nodes)
    <3>. SUFFICES ASSUME NEW n \in InSeq(nodes), n \in PageOf(cursor) PROVE FALSE
      BY <2>4 DEF Disjoint
    <3>. QED
      BY <2>2, <2>3, <2>5
  <2>7. cursor' # 0 => \A n \in InSeq(nodes) \cup InSeq(todo') : n <= cursor'
    BY <2>2, <2>3, <2>4, <2>5
  <2>8. PlaceInv'
    BY <1>0, <2>1, <2>2 DEF ShapeInv, PlaceInv, AskPlaces, PagePlaces
  <2>9. TodoInv'
    BY <2>1, <2>4, <2>6 DEF TodoInv, PagePlaces
  <2>10. SizeInv' /\ ClosedInv'
    BY <1>0, <2>1, <2>2 DEF SizeInv, ShapeInv, ClosedInv
  <2>11. cursor' # 0 => \A n \in InSeq(nodes') \cup InSeq(todo') : n <= cursor'
    BY <2>1, <2>7
  <2>. QED
    BY <1>0, <2>1, <2>3, <2>8, <2>9, <2>10, <2>11, ShapeStep DEF PagePlaces
<1>4. CASE PageAccess
  <2>1. /\ at \in {"pageList", "pageMeet"} /\ at' \in {"pageMeet", "pageEdges"}
        /\ todo' = todo /\ docs' = docs /\ nodes' = nodes /\ links' = links /\ seen' = seen /\ cursor' = cursor
    BY <1>4 DEF PageAccess, Go, resultVars
  <2>2. PlaceInv'
    BY <1>0, <2>1 DEF ShapeInv, PlaceInv, AskPlaces, PagePlaces
  <2>3. TodoInv'
    BY <2>1 DEF ShapeInv, TodoInv, PagePlaces
  <2>4. SizeInv' /\ ClosedInv'
    BY <1>0, <2>1 DEF ShapeInv, SizeInv, ClosedInv
  <2>5. cursor' # 0 => \A n \in InSeq(nodes') \cup InSeq(todo') : n <= cursor'
    BY <2>1 DEF ShapeInv, PageInv, PagePlaces
  <2>6. cursor' \in Nat
    BY <2>1 DEF ShapeInv, PageInv
  <2>. QED
    BY <1>0, <2>1, <2>2, <2>3, <2>4, <2>5, <2>6, ShapeStep DEF PagePlaces
<1>5. CASE PageNode
  <2>1. /\ at = "pageEdges" /\ at' = "pageEdges" /\ docs' = docs /\ links' = links /\ cursor' = cursor
        /\ \/ nodes' = nodes /\ seen' = seen
           \/ nodes' = Append(nodes, Head(todo)) /\ seen' = seen \cup {Head(todo)}
        /\ todo' = Tail(todo) /\ todo # <<>>
    BY <1>5 DEF PageNode, Go
  <2>2. kind = "graph"
    BY <2>1 DEF ShapeInv, PlaceInv, PagePlaces
  <2>3. nodes \in Seq(Nodes) /\ todo \in Seq(Nodes) /\ Distinct(nodes) /\ Distinct(todo) /\ Disjoint(todo, nodes)
    BY <2>1 DEF Inv, Typed, ShapeInv, TodoInv, ClosedInv, PagePlaces
  <2>4. /\ todo' \in Seq(Nodes) /\ Distinct(todo') /\ Disjoint(todo', nodes') /\ Distinct(nodes')
        /\ InSeq(nodes) \subseteq InSeq(nodes')
        /\ InSeq(nodes') \cup InSeq(todo') \subseteq InSeq(nodes) \cup InSeq(todo)
        /\ seen' \subseteq seen \cup InSeq(nodes')
    <3>1. /\ Tail(todo) \in Seq(Nodes) /\ Distinct(Tail(todo)) /\ Disjoint(Tail(todo), nodes)
          /\ Disjoint(Tail(todo), Append(nodes, Head(todo))) /\ Distinct(Append(nodes, Head(todo)))
          /\ InSeq(Append(nodes, Head(todo))) = InSeq(nodes) \cup {Head(todo)}
          /\ InSeq(todo) = InSeq(Tail(todo)) \cup {Head(todo)}
      BY <2>1, <2>3, TakeNext
    <3>2. CASE nodes' = nodes /\ seen' = seen
      BY <2>1, <2>3, <3>1, <3>2
    <3>3. CASE nodes' = Append(nodes, Head(todo)) /\ seen' = seen \cup {Head(todo)}
      BY <2>1, <2>3, <3>1, <3>3
    <3>. QED
      BY <2>1, <3>2, <3>3
  <2>5. seen' \subseteq InSeq(nodes')
    BY <2>1, <2>4 DEF ShapeInv, TodoInv, PagePlaces
  <2>6. PlaceInv'
    BY <1>0, <2>1, <2>2 DEF PlaceInv, AskPlaces, PagePlaces
  <2>7. TodoInv'
    BY <2>1, <2>4, <2>5 DEF TodoInv, PagePlaces
  <2>8. SizeInv'
    BY <1>0, <2>1, <2>2 DEF SizeInv
  <2>9. ClosedInv'
    <3>1. \A e \in links : {e[1], e[2]} \subseteq InSeq(nodes')
      BY <2>4 DEF ShapeInv, ClosedInv
    <3>. QED
      BY <2>1, <2>4, <3>1 DEF ShapeInv, ClosedInv
  <2>10. cursor' # 0 => \A n \in InSeq(nodes') \cup InSeq(todo') : n <= cursor'
    <3>1. cursor # 0 => \A n \in InSeq(nodes) \cup InSeq(todo) : n <= cursor
      BY <2>1 DEF ShapeInv, PageInv, PagePlaces
    <3>. QED
      BY <2>1, <2>4, <3>1
  <2>11. cursor' \in Nat
    BY <2>1 DEF ShapeInv, PageInv
  <2>. QED
    BY <1>0, <2>1, <2>6, <2>7, <2>8, <2>9, <2>10, <2>11, ShapeStep
<1>6. CASE PageDone
  <2>1. /\ at = "pageEdges" /\ at' = (IF cursor = 0 THEN "done" ELSE "page")
        /\ docs' = docs /\ nodes' = nodes /\ cursor' = cursor
        /\ \A e \in links' : e \in links \/ {e[1], e[2]} \subseteq seen
    BY <1>6 DEF PageDone, Go
  <2>2. kind = "graph" /\ seen \subseteq InSeq(nodes)
    BY <2>1 DEF ShapeInv, PlaceInv, TodoInv, PagePlaces
  <2>3. PlaceInv'
    BY <1>0, <2>1, <2>2 DEF ShapeInv, PlaceInv, AskPlaces, PagePlaces
  <2>4. TodoInv' /\ SizeInv'
    BY <1>0, <2>1, <2>2 DEF TodoInv, SizeInv, PagePlaces
  <2>5. ClosedInv'
    <3>1. \A e \in links' : {e[1], e[2]} \subseteq InSeq(nodes)
      BY <2>1, <2>2 DEF ShapeInv, ClosedInv
    <3>. QED
      BY <2>1, <3>1 DEF ShapeInv, ClosedInv
  <2>6. at' = "page" => \A n \in InSeq(nodes') : n <= cursor'
    BY <2>1 DEF ShapeInv, PageInv, PagePlaces
  <2>7. cursor' \in Nat
    BY <2>1 DEF ShapeInv, PageInv
  <2>. QED
    BY <1>0, <2>1, <2>3, <2>4, <2>5, <2>6, <2>7, ShapeStep DEF PagePlaces
<1>. QED
  BY <1>1, <1>2, <1>3, <1>4, <1>5, <1>6 DEF Browse

LEMMA NextKeepsShape == Inv /\ ShapeInv /\ [Next]_vars => ShapeInv'
<1>. SUFFICES ASSUME Inv, ShapeInv, [Next]_vars PROVE ShapeInv'
  OBVIOUS
<1>1. CASE Fail
  <2>1. /\ UNCHANGED <<worldVars, kind, docs, nodes, links, seen, cursor>> /\ at' = "failed"
    BY <1>1 DEF Fail, Go, resultVars
  <2>2. PlaceInv'
    BY <2>1 DEF ShapeInv, PlaceInv, AskPlaces, PagePlaces
  <2>. QED
    BY <2>1, <2>2, ShapeMoves DEF PagePlaces
<1>2. CASE UNCHANGED vars
  <2>1. UNCHANGED <<nodeRow, kind, at, todo, docs, nodes, links, seen, cursor>>
    BY <1>2 DEF vars, worldVars, resultVars
  <2>2. PlaceInv' /\ SizeInv'
    BY <2>1 DEF ShapeInv, PlaceInv, SizeInv
  <2>3. TodoInv'
    BY <2>1 DEF ShapeInv, TodoInv, PagePlaces
  <2>4. PageInv'
    BY <2>1 DEF ShapeInv, PageInv, PagePlaces
  <2>5. ClosedInv'
    BY <2>1 DEF ShapeInv, ClosedInv
  <2>. QED
    BY <2>2, <2>3, <2>4, <2>5 DEF ShapeInv
<1>. QED
  BY <1>1, <1>2, AskKeepsShape, BrowseKeepsShape, OthersKeepShape DEF Next

\* A context, a list or the pages of the graph have no entry twice, a context at most TopK of
\* each, and no edge comes without its ends, whatever others change meanwhile
\* (retrieval.rs:215-344, 375-462, 505-530; graph.rs:105-225).
THEOREM ResultsAreClosed == Spec => []ResultIsClosed
<1>1. ShapeInv => ResultIsClosed
  BY DEF ShapeInv, SizeInv, ClosedInv, Distinct, ResultIsClosed
<1>. QED
  BY <1>1, InitInv, StepInv, ShapeInit, NextKeepsShape, PTL DEF Spec

-------------------------------------------------------------------------------
LEMMA SteadyInit == Init => SteadyInv
<1>. SUFFICES ASSUME Init PROVE SteadyInv
  OBVIOUS
<1>1. /\ cursor = 0 /\ row \subseteq points /\ \A p \in prov : p[1] \in nodeRow
      /\ at = Start[kind] /\ kind \in DOMAIN Start
  BY DEF Init
<1>2. at \in {"embed", "list", "select", "page"}
  BY <1>1 DEF Start
<1>3. \A n \in ReadableNodes : ~(n <= cursor)
  BY <1>1 DEF ReadableNodes, Nodes
<1>. QED
  BY <1>1, <1>2, <1>3 DEF SteadyInv, ListedInv, ShownInv, AfterChunks, PagePlaces

\* Others make what is readable less, and the candidates more.
LEMMA OthersKeepSteady ==
  ASSUME Inv, SteadyInv, Others
  PROVE  SteadyInv'
<1>1. UNCHANGED <<kind, at, listed, allowed, todo, docs, nodes, cursor>>
  BY DEF Others, Expel, Share, Unshare, Delete, Ingest, Change, resultVars
<1>. DEFINE Less ==
             /\ row' \subseteq points' /\ \A p \in prov' : p[1] \in nodeRow'
             /\ steady' \cap viewer' \subseteq steady \cap viewer /\ Readable' \subseteq Readable
             /\ \A d \in steady', n \in Nodes : <<n, d>> \in prov' => <<n, d>> \in prov
             /\ was.docs \subseteq was'.docs /\ (was' = was \/ was'.docs = was.docs \cup viewer')
             /\ viewer' \subseteq Docs
<1>2. Less
  <2>1. CASE Expel
    BY <2>1 DEF Expel, SteadyInv, ListedInv, Readable, Inv, Typed
  <2>2. ASSUME NEW d \in Docs, Share(d) \/ Unshare(d) PROVE Less
    BY <2>2 DEF Share, Unshare, Change, SteadyInv, ListedInv, Readable, Inv, Typed
  <2>3. ASSUME NEW d \in Docs, Delete(d) PROVE Less
    BY <2>3 DEF Delete, Change, SteadyInv, ListedInv, Readable, Inv, Typed
  <2>4. ASSUME NEW d \in Docs, NEW N \in SUBSET Nodes, Ingest(d, N) PROVE Less
    BY <2>4 DEF Ingest, Change, SteadyInv, ListedInv, Readable, Inv, Typed
  <2>. QED
    BY <2>1, <2>2, <2>3, <2>4 DEF Others
<1>3. ReadableNodes' \subseteq ReadableNodes
  BY <1>2 DEF ReadableNodes, Readable
<1>4. Few' => Few
  <2>1. was.docs \cap Here \subseteq was'.docs \cap Here /\ IsFiniteSet(was'.docs \cap Here)
    BY <1>2, FS_Subset DEF Inv, Typed
  <2>2. /\ Cardinality(was.docs \cap Here) <= Cardinality(was'.docs \cap Here)
        /\ Cardinality(was.docs \cap Here) \in Nat /\ Cardinality(was'.docs \cap Here) \in Nat
        /\ TopK \in Nat
    BY <2>1, FS_Subset, FS_CardinalityType
  <2>. QED
    BY <2>2 DEF Few
<1>5. ListedInv'
  BY <1>1, <1>2 DEF SteadyInv, ListedInv
<1>6. ShownInv'
  BY <1>1, <1>2, <1>3, <1>4 DEF SteadyInv, ShownInv, AfterChunks, PagePlaces
<1>. QED
  BY <1>5, <1>6 DEF SteadyInv

\* A step of the request leaves the world, so the same documents and nodes are readable.
LEMMA SteadyStep ==
  ASSUME SteadyInv, UNCHANGED <<worldVars, kind, pastVars>>,
         at' \in {"meet", "pageMeet"} => steady \cap viewer \subseteq listed',
         at' \in {"search", "join", "pageEdges"} => Readable \subseteq allowed',
         at' = "join" /\ Few => Readable \subseteq InSeq(docs') \cup InSeq(todo'),
         at' \in AfterChunks /\ kind = "ask" /\ Few => Readable \subseteq InSeq(docs'),
         at' = "done" /\ kind = "documents" => Readable \subseteq InSeq(docs'),
         at' = "page" => \A n \in ReadableNodes : n <= cursor' => n \in InSeq(nodes'),
         at' \in PagePlaces =>
           \A n \in ReadableNodes : n \in InSeq(nodes') \cup InSeq(todo') \/ (cursor' # 0 /\ cursor' < n),
         at' = "done" /\ kind = "graph" => ReadableNodes \subseteq InSeq(nodes')
  PROVE  SteadyInv'
<1>1. UNCHANGED <<viewer, row, points, nodeRow, prov, kind, was, steady>>
  BY DEF worldVars, pastVars
<1>2. Readable' = Readable /\ Few' = Few
  BY <1>1 DEF Readable, Few
<1>3. ReadableNodes' = ReadableNodes
  BY <1>1, <1>2 DEF ReadableNodes
<1>4. ListedInv'
  BY <1>1, <1>2 DEF SteadyInv, ListedInv
<1>5. ShownInv'
  BY <1>1, <1>2, <1>3 DEF SteadyInv, ShownInv, AfterChunks, PagePlaces, InSeq
<1>. QED
  BY <1>4, <1>5 DEF SteadyInv

LEMMA AskKeepsSteady ==
  ASSUME Inv, ShapeInv, SteadyInv, Ask
  PROVE  SteadyInv'
<1>0. UNCHANGED <<worldVars, kind, pastVars>>
  BY DEF Go, Ask, Embed, Enter, ListObjects, Meet, SearchChunks, JoinRow, ChunksDone, SearchGraph,
     Hydrate, Hydrated, Match, Screen, Screened, LoadEdges
<1>a. Readable \subseteq steady \cap viewer /\ Readable \subseteq row \cap Here /\ row \subseteq points
  BY DEF Readable, SteadyInv, ListedInv
<1>1. CASE Embed \/ Enter
  <2>1. at' \in {"enter", "list", "failed"}
    BY <1>1 DEF Embed, Enter, Go
  <2>. QED
    BY <1>0, <2>1, SteadyStep DEF AfterChunks, PagePlaces
<1>2. CASE ListObjects
  <2>1. /\ kind = "ask" /\ docs' = docs /\ listed' = viewer
        /\ \/ at = "list" /\ at' = "meet"
           \/ at = "list" /\ at' = "listAgain" /\ viewer = {}
           \/ at = "listAgain" /\ at' \in {"searchGraph", "meetAgain"}
    BY <1>2 DEF ListObjects, Go, Viewable, resultVars
  <2>2. at' \in AfterChunks /\ Few => Readable \subseteq InSeq(docs')
    BY <1>a, <2>1 DEF SteadyInv, ShownInv, AfterChunks
  <2>. QED
    BY <1>0, <2>1, <2>2, SteadyStep DEF PagePlaces
<1>3. CASE Meet
  <2>1. /\ kind = "ask" /\ docs' = docs /\ allowed' = listed \cap row \cap Here
        /\ \/ at = "meet" /\ at' = "search"
           \/ at = "meet" /\ at' = "listAgain" /\ listed \cap row \cap Here = {}
           \/ at = "meetAgain" /\ at' = "searchGraph"
    BY <1>3 DEF Meet, Go, resultVars
  <2>2. at = "meet" => Readable \subseteq listed \cap row \cap Here
    BY <1>a DEF SteadyInv, ListedInv
  <2>3. at' \in AfterChunks /\ Few => Readable \subseteq InSeq(docs')
    BY <2>1, <2>2 DEF SteadyInv, ShownInv, AfterChunks
  <2>. QED
    BY <1>0, <2>1, <2>2, <2>3, SteadyStep DEF PagePlaces
<1>4. CASE SearchChunks
  <2>1. /\ at = "search" /\ at' = "join" /\ docs' = docs /\ allowed' = allowed
        /\ todo' \in Ranked(points \cap allowed, TopK)
    BY <1>4 DEF SearchChunks, Go, resultVars
  <2>2. Readable \subseteq points \cap allowed
    BY <1>a, <2>1 DEF SteadyInv, ListedInv
  <2>3. ASSUME Few PROVE Readable \subseteq InSeq(todo')
    <3>1. /\ points \cap allowed \subseteq was.docs \cap Here /\ IsFiniteSet(was.docs \cap Here)
          /\ was.docs \cap Here \subseteq Docs
      BY FS_Subset DEF Inv, PastInv, Typed
    <3>2. PICK S \in SUBSET Docs : S = points \cap allowed
      BY <3>1
    <3>3. IsFiniteSet(S) /\ Cardinality(S) <= Cardinality(was.docs \cap Here)
      BY <3>1, <3>2, FS_Subset
    <3>4. /\ Cardinality(S) \in Nat /\ Cardinality(was.docs \cap Here) \in Nat /\ TopK \in Nat
          /\ Cardinality(was.docs \cap Here) <= TopK
      BY <2>3, <3>1, <3>3, FS_CardinalityType DEF Few
    <3>5. Cardinality(S) <= TopK
      BY <3>3, <3>4
    <3>6. todo' \in Ranked(S, TopK)
      BY <2>1, <3>2
    <3>7. InSeq(todo') = S
      BY <3>3, <3>4, <3>5, <3>6, RankedIs
    <3>. QED
      BY <2>2, <3>2, <3>7
  <2>. QED
    BY <1>0, <2>1, <2>2, <2>3, SteadyStep DEF AfterChunks, PagePlaces
<1>5. CASE JoinRow
  <2>1. /\ at = "join" /\ at' = "join" /\ allowed' = allowed /\ todo' = Tail(todo) /\ todo # <<>>
        /\ docs' = docs \/ docs' = Append(docs, Head(todo))
        /\ Head(todo) \in allowed \cap row => docs' = Append(docs, Head(todo))
    BY <1>5 DEF JoinRow, Go
  <2>2. docs \in Seq(Docs) /\ todo \in Seq(Docs) /\ Distinct(docs) /\ Distinct(todo) /\ Disjoint(todo, docs)
    BY <2>1 DEF Inv, Typed, ShapeInv, TodoInv, ClosedInv
  <2>3. /\ InSeq(todo) = InSeq(Tail(todo)) \cup {Head(todo)}
        /\ InSeq(Append(docs, Head(todo))) = InSeq(docs) \cup {Head(todo)}
    BY <2>1, <2>2, TakeNext
  <2>4. InSeq(todo') = InSeq(Tail(todo)) /\ (InSeq(docs') = InSeq(docs) \/ InSeq(docs') = InSeq(docs) \cup {Head(todo)})
    BY <2>1, <2>3
  <2>5. Head(todo) \in Readable => Head(todo) \in InSeq(docs')
    BY <1>a, <2>1, <2>3 DEF SteadyInv, ListedInv
  <2>6. Few => Readable \subseteq InSeq(docs') \cup InSeq(todo')
    <3>1. Few => Readable \subseteq InSeq(docs) \cup InSeq(todo)
      BY <2>1 DEF SteadyInv, ShownInv
    <3>. QED
      BY <2>3, <2>4, <2>5, <3>1
  <2>7. Readable \subseteq allowed'
    BY <2>1 DEF SteadyInv, ListedInv
  <2>. QED
    BY <1>0, <2>1, <2>6, <2>7, SteadyStep DEF AfterChunks, PagePlaces
<1>6. CASE ChunksDone
  <2>1. at = "join" /\ at' = "listAgain" /\ todo = <<>> /\ docs' = docs
    BY <1>6 DEF ChunksDone, Go, resultVars
  <2>2. Few => Readable \subseteq InSeq(docs')
    BY <2>1, InEmpty DEF SteadyInv, ShownInv
  <2>. QED
    BY <1>0, <2>1, <2>2, SteadyStep DEF PagePlaces
<1>7. CASE SearchGraph \/ Hydrate \/ Hydrated \/ Match \/ Screen \/ Screened \/ LoadEdges
  <2>1. /\ at \in {"searchGraph", "hydrate", "match", "screen", "edges"}
        /\ at' \in {"hydrate", "match", "screen", "edges", "done"} /\ docs' = docs
    BY <1>7 DEF SearchGraph, Hydrate, Hydrated, Match, Screen, Screened, LoadEdges, Go, resultVars
  <2>2. kind = "ask"
    BY <2>1 DEF ShapeInv, PlaceInv, AskPlaces
  <2>3. Few => Readable \subseteq InSeq(docs')
    BY <2>1, <2>2 DEF SteadyInv, ShownInv, AfterChunks
  <2>. QED
    BY <1>0, <2>1, <2>2, <2>3, SteadyStep DEF PagePlaces
<1>. QED
  BY <1>1, <1>2, <1>3, <1>4, <1>5, <1>6, <1>7 DEF Ask

LEMMA BrowseKeepsSteady ==
  ASSUME Inv, ShapeInv, SteadyInv, Browse
  PROVE  SteadyInv'
<1>0. UNCHANGED <<worldVars, kind, pastVars>>
  BY DEF Go, Browse, ListDocuments, Preview, GetPage, PageAccess, PageNode, PageDone
<1>a. Readable \subseteq steady \cap viewer /\ Readable \subseteq row \cap Here
  BY DEF Readable
<1>b. \A n \in ReadableNodes : n \in nodeRow /\ n \in Nat /\ n # 0 /\ \E d \in Readable : <<n, d>> \in prov
  BY NodesAreNat DEF ReadableNodes, SteadyInv, ListedInv
<1>1. CASE ListDocuments
  <2>1. kind = "documents"
    BY <1>1 DEF ListDocuments
  <2>2. CASE at = "list"
    <3>1. at' \in {"done", "meet"} /\ (at' = "done" => viewer = {}) /\ listed' = viewer
      BY <1>1, <2>2 DEF ListDocuments, Go, Viewable
    <3>2. at' = "done" => Readable = {}
      BY <1>a, <3>1
    <3>. QED
      BY <1>0, <2>1, <3>1, <3>2, SteadyStep DEF AfterChunks, PagePlaces
  <2>3. CASE at # "list"
    <3>1. /\ at = "meet" /\ at' = "done"
          /\ \E W \in {Here, Docs} : docs' \in Ranked(listed \cap row \cap W, Cardinality(Docs))
      BY <1>1, <2>3 DEF ListDocuments, Go
    <3>2. PICK W \in {Here, Docs} : docs' \in Ranked(listed \cap row \cap W, Cardinality(Docs))
      BY <3>1
    <3>3. PICK S \in SUBSET Docs : S = listed \cap row \cap W
      BY DEF Inv, Typed
    <3>4. IsFiniteSet(S) /\ Cardinality(S) <= Cardinality(Docs) /\ Cardinality(Docs) \in Nat
      BY FS_Subset, FS_CardinalityType
    <3>5. InSeq(docs') = S
      <4>1. docs' \in Ranked(S, Cardinality(Docs))
        BY <3>2, <3>3
      <4>. QED
        BY <3>4, <4>1, RankedIs
    <3>6. Readable \subseteq S
      BY <1>a, <3>1, <3>3 DEF SteadyInv, ListedInv
    <3>. QED
      BY <1>0, <2>1, <3>1, <3>5, <3>6, SteadyStep DEF PagePlaces
  <2>. QED
    BY <2>2, <2>3
<1>2. CASE Preview
  <2>1. at \in {"select", "check"} /\ at' \in {"check", "done", "failed"}
    BY <1>2 DEF Preview, Go
  <2>2. kind = "preview"
    BY <2>1 DEF Inv, PreviewInv
  <2>. QED
    BY <1>0, <2>1, <2>2, SteadyStep DEF PagePlaces
<1>3. CASE GetPage
  <2>1. /\ at = "page" /\ at' \in {"pageList", "failed"} /\ nodes' = nodes
        /\ cursor' = NextCursor(cursor) /\ todo' \in Ascending(PageOf(cursor))
    BY <1>3 DEF GetPage, Go, resultVars
  <2>2. /\ PageOf(cursor) \in SUBSET Nodes /\ cursor \in Nat
        /\ \A n \in nodeRow : cursor < n /\ n \notin PageOf(cursor) => cursor' # 0 /\ cursor' < n
    BY <2>1, CursorIs DEF ShapeInv, PageInv
  <2>3. InSeq(todo') = PageOf(cursor)
    <3>1. PICK S \in SUBSET Nodes : S = PageOf(cursor) /\ todo' \in Ascending(S)
      BY <2>1, <2>2
    <3>2. InSeq(todo') = S
      BY <3>1, AscendingIs
    <3>. QED
      BY <3>1, <3>2
  <2>4. ASSUME NEW n \in ReadableNodes
        PROVE  n \in InSeq(nodes') \cup InSeq(todo') \/ (cursor' # 0 /\ cursor' < n)
    <3>1. n <= cursor => n \in InSeq(nodes)
      BY <2>1 DEF SteadyInv, ShownInv
    <3>2. n <= cursor \/ cursor < n
      BY <1>b, <2>2
    <3>3. n <= cursor => n \in InSeq(nodes')
      BY <2>1, <3>1
    <3>. QED
      BY <1>b, <2>2, <2>3, <3>2, <3>3
  <2>. QED
    BY <1>0, <2>1, <2>4, SteadyStep DEF AfterChunks, PagePlaces
<1>4. CASE PageAccess
  <2>1. /\ \/ at = "pageList" /\ at' = "pageMeet" /\ listed' = viewer
           \/ at = "pageMeet" /\ at' = "pageEdges" /\ allowed' = listed \cap row \cap Here
        /\ todo' = todo /\ nodes' = nodes /\ cursor' = cursor
    BY <1>4 DEF PageAccess, Go, Viewable, resultVars
  <2>2. at = "pageMeet" => Readable \subseteq listed \cap row \cap Here
    BY <1>a DEF SteadyInv, ListedInv
  <2>3. \A n \in ReadableNodes : n \in InSeq(nodes') \cup InSeq(todo') \/ (cursor' # 0 /\ cursor' < n)
    BY <2>1 DEF SteadyInv, ShownInv, PagePlaces
  <2>. QED
    BY <1>0, <2>1, <2>2, <2>3, SteadyStep DEF AfterChunks
<1>5. CASE PageNode
  <2>1. /\ at = "pageEdges" /\ at' = "pageEdges" /\ allowed' = allowed /\ cursor' = cursor
        /\ todo' = Tail(todo) /\ todo # <<>>
        /\ nodes' = nodes \/ nodes' = Append(nodes, Head(todo))
        /\ Visible(Head(todo)) => nodes' = Append(nodes, Head(todo))
    BY <1>5 DEF PageNode, Go
  <2>2. nodes \in Seq(Nodes) /\ todo \in Seq(Nodes) /\ Distinct(nodes) /\ Distinct(todo) /\ Disjoint(todo, nodes)
    BY <2>1 DEF Inv, Typed, ShapeInv, TodoInv, ClosedInv, PagePlaces
  <2>3. /\ InSeq(todo) = InSeq(Tail(todo)) \cup {Head(todo)}
        /\ InSeq(Append(nodes, Head(todo))) = InSeq(nodes) \cup {Head(todo)}
    BY <2>1, <2>2, TakeNext
  <2>4. InSeq(todo') = InSeq(Tail(todo)) /\ (InSeq(nodes') = InSeq(nodes) \/ InSeq(nodes') = InSeq(nodes) \cup {Head(todo)})
    BY <2>1, <2>3
  <2>5. Readable \subseteq allowed
    BY <2>1 DEF SteadyInv, ListedInv
  <2>6. Head(todo) \in ReadableNodes => Head(todo) \in InSeq(nodes')
    <3>1. Head(todo) \in ReadableNodes => Visible(Head(todo))
      BY <1>b, <2>5 DEF Visible
    <3>. QED
      BY <2>1, <2>3, <3>1
  <2>7. \A n \in ReadableNodes : n \in InSeq(nodes') \cup InSeq(todo') \/ (cursor' # 0 /\ cursor' < n)
    <3>1. \A n \in ReadableNodes : n \in InSeq(nodes) \cup InSeq(todo) \/ (cursor # 0 /\ cursor < n)
      BY <2>1 DEF SteadyInv, ShownInv, PagePlaces
    <3>. QED
      BY <2>1, <2>3, <2>4, <2>6, <3>1
  <2>. QED
    BY <1>0, <2>1, <2>5, <2>7, SteadyStep DEF AfterChunks
<1>6. CASE PageDone
  <2>1. /\ at = "pageEdges" /\ at' = (IF cursor = 0 THEN "done" ELSE "page") /\ todo = <<>>
        /\ nodes' = nodes /\ cursor' = cursor
    BY <1>6 DEF PageDone, Go
  <2>2. kind = "graph" /\ cursor \in Nat
    BY <2>1 DEF ShapeInv, PlaceInv, PageInv, PagePlaces
  <2>3. \A n \in ReadableNodes : n \in InSeq(nodes) \/ (cursor # 0 /\ cursor < n)
    BY <2>1, InEmpty DEF SteadyInv, ShownInv, PagePlaces
  <2>4. at' = "page" => \A n \in ReadableNodes : n <= cursor' => n \in InSeq(nodes')
    BY <1>b, <2>1, <2>2, <2>3
  <2>5. at' = "done" => ReadableNodes \subseteq InSeq(nodes')
    BY <2>1, <2>3
  <2>. QED
    BY <1>0, <2>1, <2>2, <2>4, <2>5, SteadyStep DEF PagePlaces
<1>. QED
  BY <1>1, <1>2, <1>3, <1>4, <1>5, <1>6 DEF Browse

LEMMA NextKeepsSteady == Inv /\ ShapeInv /\ SteadyInv /\ [Next]_vars => SteadyInv'
<1>. SUFFICES ASSUME Inv, ShapeInv, SteadyInv, [Next]_vars PROVE SteadyInv'
  OBVIOUS
<1>1. CASE Fail
  <2>1. UNCHANGED <<worldVars, kind, pastVars>> /\ at' = "failed"
    BY <1>1 DEF Fail, Go
  <2>. QED
    BY <2>1, SteadyStep DEF AfterChunks, PagePlaces
<1>2. CASE UNCHANGED vars
  <2>1. UNCHANGED <<worldVars, kind, pastVars, at, listed, allowed, todo, docs, nodes, cursor>>
    BY <1>2 DEF vars, resultVars
  <2>. QED
    BY <2>1, SteadyStep DEF SteadyInv, ListedInv, ShownInv, AfterChunks, PagePlaces
<1>. QED
  BY <1>1, <1>2, AskKeepsSteady, BrowseKeepsSteady, OthersKeepSteady DEF Next

\* What stays readable from the first step to the last is found: every document by a list,
\* every node by the pages, and by a question every document if no more than TopK of the
\* workspace could be read (retrieval.rs:132-326; documents.rs:113-155; graph.rs:105-225).
THEOREM SteadyWasFound == Spec => []SteadyIsShown
<1>1. SteadyInv => SteadyIsShown
  BY DEF SteadyInv, ShownInv, SteadyIsShown, Few, AfterChunks, ReadableNodes
<1>. QED
  BY <1>1, InitInv, StepInv, ShapeInit, NextKeepsShape, SteadyInit, NextKeepsSteady, PTL DEF Spec
================================================================================
