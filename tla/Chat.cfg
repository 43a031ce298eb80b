SPECIFICATION FairSpec
CONSTANTS
  Sessions = {s1}
  Turns = {t1, t2, t3}
  Limit = 2
  MaxFaults = 1
INVARIANTS
  FailedTurnsLeaveNoOrphan
  SlotsMatchStreams
PROPERTIES
  ImplementsConversation
  SlotsComeBack
CHECK_DEADLOCK FALSE
