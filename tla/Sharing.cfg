SPECIFICATION Spec
CONSTANTS
  Docs = {d1, d2, d3}
  People = {p1}
  MaxDocs = 1
  PageSize = 2
  MaxUploads = 2
  MaxRequests = 2
  MaxFaults = 1
INVARIANTS
  QuotaOvershootBounded
  DocumentsAreWhole
  GrantsAsAnswered
PROPERTIES
  TuplesSettle
CHECK_DEADLOCK FALSE
