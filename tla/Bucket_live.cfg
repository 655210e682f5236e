SPECIFICATION FairSpec
CONSTANTS
  p1 = p1
  p2 = p2
  p3 = p3
  p4 = p4
  t1 = t1
  t2 = t2
  Procs <- Three
  Killable = {p1}
  SEMAEM = 2
  SEMVMX = 2
  UIntMax = 30
  MaxWaits = 30
  Tuples <- TwoTuples
  Patterns <- AllPatterns
  MatchedBy <- Matches
  PushArgs <- HostPushes
  PeekArgs <- AllPeek
  Budget <- HostTwoGuestsOne
INVARIANTS BucketTypeOK NoLostTuple
PROPERTIES CallsReturnUnlessWaiting WokenLeavesLoop
CHECK_DEADLOCK FALSE
