SPECIFICATION Spec
CONSTANTS
  p1 = p1
  p2 = p2
  p3 = p3
  p4 = p4
  t1 = t1
  t2 = t2
  Procs <- Four
  Killable <- NoProcs
  SEMAEM = 30
  SEMVMX = 30
  UIntMax = 30
  MaxWaits = 30
  Tuples <- TwoTuples
  Patterns <- AllPatterns
  MatchedBy <- Matches
  PushArgs <- FactoriesPush
  PeekArgs <- ConsumersPeek
  Budget <- OneEach
INVARIANTS NoReaderStranded
CHECK_DEADLOCK FALSE
