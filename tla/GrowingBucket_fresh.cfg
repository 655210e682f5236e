SPECIFICATION Spec
CONSTANTS
  h1 = h1
  g1 = g1
  g2 = g2
  t1 = t1
  Nobody = Nobody
  Others = Others
  Pushers <- OnePusher
  Readers <- TwoReaders
  Added <- OneEach
  Wanted <- FirstTuple
  Initial <- NoTuple
  MaxSegments = 3
  OthersGrow = TRUE
INVARIANTS GrowingTypeOK PushesStay FreshWaitersServed
SYMMETRY ReaderSymmetry
CHECK_DEADLOCK FALSE
