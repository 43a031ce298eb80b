SPECIFICATION RunSpec
CONSTANTS
  Documents <- MCDocuments
  Size = 5
  Overlap = 2
  Entities = {0, 5}
  BatchSize = 2
  Concurrency = 2
  Retries = 1
  Puts <- MCPuts
  MaxPuts = 1
  MaxLost = 1
INVARIANTS
  VectorsFitTexts
  ResolversAgree
  PagesOfChunks
CHECK_DEADLOCK FALSE
