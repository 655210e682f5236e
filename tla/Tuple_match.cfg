SPECIFICATION TupleSpec
CONSTANTS
  Values = {1, 2, 3}
  MaxLen = 2
  HashModulus = 65536
  BucketsCount = 32
INVARIANTS TupleTypeOK MatchInSameBucket EqualPatternIsEquality SignatureFits
CHECK_DEADLOCK FALSE
