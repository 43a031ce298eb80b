------------------------------ MODULE MCIngestRun ------------------------------
(***************************************************************************)
(* Small instances of IngestRun.                                           *)
(***************************************************************************)
EXTENDS IngestRun

\* Nothing but blank pages; chunks of two pages with a blank one between; a character of
\* several bytes; a page longer than a chunk.  In each a page may get lost.
MCDocuments ==
  {<< <<>> >>, << <<"a", "b">>, <<>>, <<"c">>, <<"d">> >>,
   << <<"a", "b", "c">>, <<"w", "d", "e">>, <<"f">> >>,
   << <<"a", "b">>, <<"c", "d", "e", "f", "g", "h">> >>}

\* From one embedder to the other, with and without a model for the answers.
MCPuts ==
  {[provider |-> "ollama", key |-> "none",   llm |-> FALSE, url |-> FALSE, enabled |-> TRUE],
   [provider |-> "ollama", key |-> "sealed", llm |-> TRUE,  url |-> FALSE, enabled |-> TRUE],
   [provider |-> "openai", key |-> "sealed", llm |-> TRUE,  url |-> TRUE,  enabled |-> TRUE],
   [provider |-> "openai", key |-> "none",   llm |-> FALSE, url |-> FALSE, enabled |-> TRUE]}
===============================================================================
