--------------------------- MODULE MCIngestPipeline ---------------------------
EXTENDS IngestPipeline, TLC

Symmetry == Permutations(Workers) \cup Permutations(Tasks)
===============================================================================
