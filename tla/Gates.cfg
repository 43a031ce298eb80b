SPECIFICATION Spec
CONSTANTS
  Requests = {r1, r2, r3}
  Kids = {k1, k2}
  Accepted = {"backend", "frontend"}
  Claims <- MCClaims
  Calls <- MCCalls
  Limits <- MCLimits
  Window = 2
  CacheTTL = 2
  Timeout = 1
  Delay = 1
  MaxTime = 4
  MaxFaults = 1
SYMMETRY Symmetry
INVARIANTS
  RetiredKeysExpire
  RateHolds
  RetryAfterSuffices
CHECK_DEADLOCK FALSE
