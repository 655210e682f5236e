SPECIFICATION Spec
CONSTANTS
  p1 = p1
  p2 = p2
  p3 = p3
  t1 = t1
  t2 = t2
  Nobody = Nobody
  Procs <- Three
  Tuples <- TwoTuples
  Patterns <- AllPatterns
  MatchedBy <- Matches
  Addresses <- SixBlocks
  SizeModulus = 8
  Calls <- HostAndGuests
  Budget <- HostFour
  Conventions <- TwoConventions
INVARIANTS ListTypeOK NothingLost NoStrayPointer TeardownFreesAll AnswersMatch
PROPERTIES IsTupleSpace
CHECK_DEADLOCK FALSE
