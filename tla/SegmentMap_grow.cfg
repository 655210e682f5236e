SPECIFICATION FairSpec
CONSTANTS
  p1 = p1
  p2 = p2
  p3 = p3
  Nobody = Nobody
  Procs <- Three
  Killable <- One
  Late <- Last
  MaxSegments = 3
  Budget <- HostTwice
INVARIANTS SegmentTypeOK CurrentSegmentExists WorksOnCurrent ReplacedSegmentsGo WritesSurvive
PROPERTIES CallsReturnUnlessOvertaken
CHECK_DEADLOCK FALSE
