SPECIFICATION MonitorSpec
CONSTANTS
  p1 = p1
  p2 = p2
  p3 = p3
  Procs <- AllProcs
  Killable = {p1}
  SEMAEM = 2
  SEMVMX = 2
  UIntMax = 7
  MaxWaits = 2
INVARIANTS MonitorTypeOK MutualExclusion UndoMatchesHeld LocksNeverLost
           WaitAccounting WaitersCounted HandshakeFunded
CHECK_DEADLOCK FALSE
