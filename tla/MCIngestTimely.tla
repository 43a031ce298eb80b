---------------------------- MODULE MCIngestTimely ----------------------------
EXTENDS IngestTimely, TLC

Symmetry == Permutations(Workers) \cup Permutations(Tasks)
===============================================================================
