SPECIFICATION FairSpec
CONSTANTS
  Users = {u1, u2}
  Requests = {r1}
  AutoFix = TRUE
  MaxRequests = 2
  MaxLateFaults = 1
PROPERTIES
  RepairCompletes
