------------------------------- MODULE IngestRun -------------------------------
(***************************************************************************)
(* One run of the ingestion of a document, from its bytes to the vectors   *)
(* handed to the dual writer, while the owner changes the tenant's LLM     *)
(* settings.  The run reads the settings twice, each time in a transaction *)
(* of its own; the API reads them for every question.                      *)
(*                                                                         *)
(* A page is a sequence of characters, "w" being one of several bytes.  A  *)
(* vector is the embedder that made it and the text it is of.              *)
(***************************************************************************)
EXTENDS Naturals, Sequences, FiniteSets

CONSTANTS
  Documents,    \* the documents, as sequences of pages
  Size,         \* CHUNK_SIZE_TOKENS
  Overlap,      \* CHUNK_OVERLAP_TOKENS
  Entities,     \* how many nodes the model may extract
  BatchSize,    \* DEFAULT_BATCH_SIZE
  Concurrency,  \* DEFAULT_CONCURRENCY
  Retries,      \* DEFAULT_RETRIES
  Puts,         \* the settings an owner may put
  MaxPuts,      \* bound: changes of the settings during the run
  MaxLost       \* bound: pages whose text cannot be extracted

ASSUME SizeAssumption     == Size \in Nat \ {0} /\ Overlap \in Nat /\ Overlap < Size
ASSUME BatchAssumption    == BatchSize \in Nat \ {0} /\ Concurrency \in Nat \ {0}
ASSUME TextAssumption     == Documents \subseteq Seq(Seq(STRING))
ASSUME RunBoundAssumption == Retries \in Nat /\ MaxPuts \in Nat /\ MaxLost \in Nat /\ Entities \subseteq Nat

VARIABLES
  cfg,        \* the tenant_llm_config row
  secret,     \* whether GMRAG_TENANT_KEY_ENCRYPTION_KEY is set
  puts,
  pages,      \* of the document, and from "chunk" on those that were extracted
  pc,
  taken,      \* history: the ranges of the joined text the splitter took
  chunks,     \* their text and pages as the chunker found them
  embedder,
  extractor,
  nodes,      \* number of nodes extracted
  tries,      \* failed attempts at a batch, or at the extraction
  results,    \* outcomes of the batches, in the order in which they came
  vectors     \* vectors of the chunks and of the nodes

settingVars == <<cfg, secret, puts>>
embedVars   == <<tries, results, vectors>>
runVars        == <<settingVars, pages, pc, taken, chunks, embedder, extractor, nodes, embedVars>>

NoRow == [provider |-> "none"]

\* A key is sealed under the secret, or under another; "plain" and "blank" are of the time
\* before keys were encrypted.  The chat URL is only read beside a chat model.
Rows == {row \in [provider : {"ollama", "openai"}, key : {"none", "blank", "plain", "sealed", "unreadable"},
                  llm : BOOLEAN, url : BOOLEAN, enabled : BOOLEAN] : row.url => row.llm}

ASSUME PutsAssumption == Puts \subseteq Rows

Error      == "error"
Unreadable == [url |-> Error, key |-> Error]

-------------------------------------------------------------------------------
\* The settings.

\* put_llm_settings: a key is encrypted or refused, and its absence clears the old one.
Puttable(row) ==
  /\ row.key = "none" \/ (row.key = "sealed" /\ secret)
  /\ row.provider = "openai" => row.key = "sealed"

\* decrypt_with_aad under the secret: the tag of a key sealed under another secret, or for
\* another tenant, does not fit.
Decrypt(key) == IF key = "sealed" THEN "tenant" ELSE Error

\* resolve_masked_key, which get_llm_settings answers with.
MaskedKey(row) ==
  CASE row.key \in {"sealed", "unreadable"} -> IF secret THEN Decrypt(row.key) ELSE Error
    [] row.key = "plain"                    -> "tenant"
    [] OTHER                                -> "none"

\* get_llm_settings
GetSettings(row) == IF row = NoRow THEN "unconfigured" ELSE MaskedKey(row)

Platform == [url |-> "platform", key |-> "platform"]

\* resolve_llm_config, of the API: where questions are embedded and answered.
ResolveLlm(row) ==
  LET key == CASE row.key \in {"sealed", "unreadable"} -> IF secret THEN Decrypt(row.key) ELSE Error
               [] row.key = "plain"                    -> "tenant"
               [] OTHER                                -> "none"
      url == IF row.url THEN "tenant" ELSE IF row.provider = "openai" THEN "openai" ELSE "platform"
  IN  IF row = NoRow \/ ~row.enabled THEN [embed |-> "ollama", chat |-> Platform]
      ELSE IF key = Error THEN [embed |-> Error, chat |-> Unreadable]
      ELSE IF key = "none" THEN [embed |-> "ollama", chat |-> Platform]
      ELSE [embed |-> row.provider, chat |-> IF row.llm THEN [url |-> url, key |-> key] ELSE Platform]

\* resolve_byok_api_key, of the worker.
ByokKey(row) ==
  CASE row.key \in {"sealed", "unreadable"} -> IF ~secret THEN Error ELSE Decrypt(row.key)
    [] row.key = "plain"                    -> "tenant"
    [] OTHER                                -> "none"

\* select_embedder
SelectEmbedder(row) ==
  IF row = NoRow \/ ~row.enabled \/ row.provider # "openai" \/ ByokKey(row) = "none" THEN "ollama"
  ELSE IF ByokKey(row) = Error THEN Error ELSE "openai"

\* Wrong: a key that cannot be read counts as none.
GraphKeyLenient(row) ==
  IF row.key = "plain" \/ (row.key = "sealed" /\ secret) THEN "tenant" ELSE "none"

\* resolve_graph_api_key and select_graph_extractor
GraphKey(row) ==
  CASE row.key \in {"sealed", "unreadable"} -> IF secret THEN Decrypt(row.key) ELSE Error
    [] row.key = "plain"                    -> "tenant"
    [] OTHER                                -> "none"

SelectExtractor(row) ==
  IF row = NoRow \/ ~row.enabled THEN Platform
  ELSE IF GraphKey(row) = Error THEN Unreadable
  ELSE IF GraphKey(row) = "tenant" /\ row.llm THEN
    [url |-> IF row.url THEN "tenant" ELSE IF row.provider = "openai" THEN "openai" ELSE "platform",
     key |-> "tenant"]
  ELSE Platform

-------------------------------------------------------------------------------
\* The text and its chunks.

\* Pages are trimmed, blank ones skipped, the others joined by an empty line.
Ink(doc) == {i \in 1..Len(doc) : doc[i] # <<>>}
Start(doc) ==
  LET f[i \in 1..Len(doc) + 1] ==
        IF i = 1 THEN 0
        ELSE f[i - 1] + Len(doc[i - 1]) + IF i - 1 \in Ink(doc) /\ \E j \in Ink(doc) : j >= i THEN 1 ELSE 0
  IN  f
Joined(doc) ==
  LET f[i \in 0..Len(doc)] ==
        IF i = 0 THEN <<>>
        ELSE f[i - 1] \o (IF i \in Ink(doc) /\ f[i - 1] # <<>> THEN <<" ">> ELSE <<>>) \o doc[i]
  IN  f[Len(doc)]

\* Wrong: the page that ends with the first character of the chunk is left out.
PageRangeOpen(doc, from, to) ==
  LET hit == {i \in Ink(doc) : Start(doc)[i] < to /\ Start(doc)[i] + Len(doc[i]) > from}
  IN  IF hit = {} THEN <<0, 0>>
      ELSE <<CHOOSE i \in hit : \A j \in hit : i <= j, CHOOSE i \in hit : \A j \in hit : j <= i>>

\* page_range_for: the pages that overlap the characters from..to of the joined text.
PageRange(doc, from, to) ==
  LET hit == {i \in Ink(doc) : Start(doc)[i] < to /\ Start(doc)[i] + Len(doc[i]) >= from}
  IN  IF hit = {} THEN <<0, 0>>
      ELSE <<CHOOSE i \in hit : \A j \in hit : i <= j, CHOOSE i \in hit : \A j \in hit : j <= i>>

Piece(r)      == SubSeq(Joined(pages), r[1], r[2])
PlacesOf(t)   == {i \in 1..Len(Joined(pages)) - Len(t) + 1 :
                    SubSeq(Joined(pages), i, i + Len(t) - 1) = t}
Last(s, none) == IF s = <<>> THEN none ELSE s[Len(s)]

\* What TextSplitter may take next: a trimmed piece that leaves nothing out, starts after the
\* last one and reaches back over at most Overlap of it.  It ends with the last page that
\* fits, or inside the page when none does.
Taking(from, to) ==
  LET s    == Joined(pages)
      prev == Last(taken, <<0, 0>>)
      fits == {k \in from .. Len(s) : k - from < Size /\ (k = Len(s) \/ s[k + 1] = " ")}
  IN  /\ s[from] # " " /\ s[to] # " " /\ to \in from .. from + Size - 1
      /\ \A k \in fits : k <= to
      /\ fits # {} => to \in fits
      /\ from > prev[1] /\ to > prev[2] /\ from + Overlap > prev[2]
      /\ \A i \in prev[2] + 1 .. from - 1 : s[i] = " "

Go(from, to) == pc = from /\ pc' = to

Ends == {"done", "failed", "panicked"}

RunInit ==
  /\ cfg \in Rows \cup {NoRow} /\ secret \in BOOLEAN /\ puts = 0
  /\ pages \in Documents
  /\ pc = "download" /\ taken = <<>> /\ chunks = <<>>
  /\ embedder = "none" /\ extractor = Platform /\ nodes = 0
  /\ tries = <<>> /\ results = <<>> /\ vectors = [chunks |-> <<>>, nodes |-> <<>>]

Put(row) ==
  /\ pc \notin Ends /\ puts < MaxPuts
  /\ Puttable(row)
  /\ cfg' = row /\ puts' = puts + 1
  /\ UNCHANGED <<secret, pages, pc, taken, chunks, embedder, extractor, nodes, embedVars>>

\* The object is gone, or the storage or its answer breaks off.
Download ==
  /\ Go("download", "parse") \/ Go("download", "failed")
  /\ UNCHANGED <<settingVars, pages, taken, chunks, embedder, extractor, nodes, embedVars>>

\* A page whose text cannot be extracted is a blank one: nobody is told.
ExtractPages(doc) ==
  {[i \in 1..Len(doc) |-> IF i \in lost THEN <<>> ELSE doc[i]] :
     lost \in {S \in SUBSET (1..Len(doc)) : Cardinality(S) <= MaxLost}}

\* The document itself may be unreadable, or too slow to read; where OCR is built in and
\* asked for, a page of little text fails it too, as the renderer is a stub.
Parse ==
  /\ \/ Go("parse", "chunk") /\ pages' \in ExtractPages(pages)
     \/ Go("parse", "failed") /\ pages' = pages
  /\ UNCHANGED <<settingVars, taken, chunks, embedder, extractor, nodes, embedVars>>

\* The piece is searched from the character after the place of the last one, by bytes: the
\* slice panics when that one starts with a character of several.
Chunk(from, to) ==
  /\ pc = "chunk" /\ Taking(from, to)
  /\ LET s     == Joined(pages)
         prev  == Last(chunks, [at |-> 0, pages |-> <<0, 0>>]).at
         found == {i \in PlacesOf(Piece(<<from, to>>)) : i > prev}
         place == CHOOSE i \in found : \A j \in found : i <= j
     IN  IF prev > 0 /\ s[prev] = "w"
         THEN pc' = "panicked" /\ UNCHANGED <<taken, chunks>>
         ELSE /\ pc' = pc
              /\ taken' = Append(taken, <<from, to>>)
              /\ chunks' = Append(chunks, [at    |-> place,
                                           pages |-> PageRange(pages, place, place + to - from)])
  /\ UNCHANGED <<settingVars, pages, embedder, extractor, nodes, embedVars>>

-------------------------------------------------------------------------------
\* Embedding, first of the chunks and then of the nodes.

Embedding == {"embedChunks", "embedNodes"}
Texts     == IF pc = "embedChunks" THEN Len(chunks) ELSE nodes
Batches   == 1..((Texts + BatchSize - 1) \div BatchSize)
First(b)  == (b - 1) * BatchSize + 1
Batch(b)  == First(b) .. IF First(b) + BatchSize - 1 < Texts THEN First(b) + BatchSize - 1 ELSE Texts
Vector(i) == <<embedder, pc, i>>
Answered  == {results[i].batch : i \in 1..Len(results)}

\* buffer_unordered starts the batches in order, Concurrency at a time.
InFlight == {b \in Batches \ Answered : Cardinality({c \in Batches \ Answered : c < b}) < Concurrency}

SelectsEmbedder ==
  /\ Last(taken, <<0, 0>>)[2] = Len(Joined(pages))
  /\ Go("chunk", IF SelectEmbedder(cfg) = Error THEN "failed" ELSE "embedChunks")
  /\ embedder' = SelectEmbedder(cfg)
  /\ tries' = [b \in 1..Len(chunks) |-> 0]
  /\ UNCHANGED <<settingVars, pages, taken, chunks, extractor, nodes, results, vectors>>

\* A request answers with a vector for each text of the batch, in their order.
Answer(b) ==
  /\ pc \in Embedding /\ b \in InFlight
  /\ results' = Append(results, [batch |-> b, ok |-> TRUE,
                                 vectors |-> [i \in 1..Cardinality(Batch(b)) |-> Vector(First(b) + i - 1)]])
  /\ UNCHANGED <<settingVars, pages, pc, taken, chunks, embedder, extractor, nodes, tries, vectors>>

\* A failed call, a timeout before the headers, or an answer with too few or empty vectors.
AttemptFails(b) ==
  /\ pc \in Embedding /\ b \in InFlight
  /\ IF tries[b] < Retries
     THEN tries' = [tries EXCEPT ![b] = @ + 1] /\ results' = results
     ELSE tries' = tries /\ results' = Append(results, [batch |-> b, ok |-> FALSE, vectors |-> <<>>])
  /\ UNCHANGED <<settingVars, pages, pc, taken, chunks, embedder, extractor, nodes, vectors>>

\* Wrong: the vectors are put one after the other as the batches came.
StitchedAsTheyCame ==
  LET f[k \in 0..Len(results)] == IF k = 0 THEN <<>> ELSE f[k - 1] \o results[k].vectors
  IN  f[Len(results)]

\* The first error that came ends the run; else the vectors are put at the places of their texts.
Stitched ==
  [i \in 1..Texts |->
     LET r == CHOOSE k \in 1..Len(results) : i \in Batch(results[k].batch)
     IN  results[r].vectors[i - First(results[r].batch) + 1]]

Stitch ==
  /\ pc \in Embedding /\ Answered = Batches
  /\ IF \E k \in 1..Len(results) : ~results[k].ok
     THEN pc' = "failed" /\ vectors' = vectors
     ELSE \/ /\ Go("embedChunks", "select")
             /\ vectors' = [vectors EXCEPT !.chunks = Stitched]
          \/ /\ Go("embedNodes", "done")
             /\ vectors' = [vectors EXCEPT !.nodes = Stitched]
  /\ results' = <<>> /\ tries' = <<>>
  /\ UNCHANGED <<settingVars, pages, taken, chunks, embedder, extractor, nodes>>

SelectsExtractor ==
  /\ Go("select", IF SelectExtractor(cfg) = Unreadable THEN "failed" ELSE "extract")
  /\ extractor' = SelectExtractor(cfg)
  /\ tries' = <<0>>
  /\ UNCHANGED <<settingVars, pages, taken, chunks, embedder, nodes, results, vectors>>

\* The completion is retried, its JSON is not asked for again.
Extract ==
  /\ \E n \in Entities :
       /\ Go("extract", IF n = 0 THEN "done" ELSE "embedNodes")
       /\ nodes' = n /\ tries' = [b \in 1..n |-> 0]
  /\ UNCHANGED <<settingVars, pages, taken, chunks, embedder, extractor, results, vectors>>

ExtractFails ==
  /\ \/ Go("extract", "extract") /\ tries[1] < Retries /\ tries' = <<tries[1] + 1>>
     \/ Go("extract", "failed") /\ tries' = <<>>
  /\ UNCHANGED <<settingVars, pages, taken, chunks, embedder, extractor, nodes, results, vectors>>

RunNext ==
  \/ \E row \in Puts : Put(row)
  \/ Download \/ Parse
  \/ \E from, to \in 1..Len(Joined(pages)) : Chunk(from, to)
  \/ SelectsEmbedder
  \/ \E b \in 1..Len(tries) : Answer(b) \/ AttemptFails(b)
  \/ Stitch \/ SelectsExtractor \/ Extract \/ ExtractFails

RunSpec == RunInit /\ [][RunNext]_runVars

RunTypeOK ==
  /\ cfg \in Rows \cup {NoRow} /\ secret \in BOOLEAN /\ puts \in 0..MaxPuts
  /\ \E d \in Documents : pages \in ExtractPages(d)
  /\ pc \in {"download", "parse", "chunk", "select", "extract"} \cup Embedding \cup Ends
  /\ taken \in Seq(Nat \X Nat) /\ chunks \in Seq([at : Nat, pages : Nat \X Nat])
  /\ embedder \in {"none", "ollama", "openai", Error} /\ nodes \in Entities \cup {0}
  /\ extractor \in [url : {"platform", "openai", "tenant", Error},
                   key : {"platform", "tenant", Error}]
  /\ tries \in Seq(0..Retries)
  /\ \A k \in 1..Len(results) : results[k].batch \in Batches /\ results[k].ok \in BOOLEAN

-------------------------------------------------------------------------------
\* Whatever order the batches come back in, and whatever the owner puts meanwhile, the run
\* hands over the vector of each text at its place, chunks and nodes all of one embedder
\* (embedding.rs:143-148, job.rs:198).
VectorsFitTexts ==
  pc = "done" =>
    /\ vectors.chunks = [i \in 1..Len(chunks) |-> <<embedder, "embedChunks", i>>]
    /\ vectors.nodes = [i \in 1..nodes |-> <<embedder, "embedNodes", i>>]

\* The worker, the API and the settings page each resolve the tenant's key on their own and
\* agree: a question is embedded as the documents are, an answer comes from the model that
\* extracts the graph, nobody passes over a key that cannot be read, and the platform's key
\* is only sent to the platform's endpoint (byok.rs:58-61, embedding.rs:473-481).
ResolversAgree ==
  LET api == ResolveLlm(cfg)
      on  == cfg # NoRow /\ cfg.enabled
  IN  /\ api.embed # Error => api.embed = SelectEmbedder(cfg) /\ api.chat = SelectExtractor(cfg)
      /\ api.embed = Error => SelectExtractor(cfg) = Unreadable
      /\ GetSettings(cfg) = "unconfigured" => api.chat = Platform
      /\ on => /\ (GetSettings(cfg) = Error <=> api.embed = Error)
               /\ cfg.provider = "openai" => (SelectEmbedder(cfg) = Error <=> api.embed = Error)
      /\ \A e \in {api.chat, SelectExtractor(cfg)} :
           e.key = "platform" => e.url = "platform"

\* A chunk whose text occurs once is given the first and the last page it has a character
\* of (chunking.rs:88-91).
TextOf(i)    == Start(pages)[i] + 1 .. Start(pages)[i] + Len(pages[i])
PagesHold(c, r) ==
  LET on == {i \in 1..Len(pages) : TextOf(i) \cap (r[1]..r[2]) # {}}
  IN  /\ {c.pages[1], c.pages[2]} \subseteq on
      /\ on \subseteq c.pages[1]..c.pages[2]

PagesOfChunks ==
  \A k \in 1..Len(chunks) :
    Cardinality(PlacesOf(Piece(taken[k]))) = 1 => PagesHold(chunks[k], taken[k])

\* Not true of the code, though chunking.rs:137-138 says so: that a chunk whose text is
\* repeated gets its own pages.  The search goes on one character after the last place, so
\* of five equal pages the second chunk is found a page too early.
PagesOfRepeatedText ==
  \A k \in 1..Len(chunks) : PagesHold(chunks[k], taken[k])
===============================================================================
