SPECIFICATION Spec
CONSTANTS
  Values <- OneOfEach
  MaxLen = 2
  Local <- LocalPool
  Remote <- RemotePool
  MaxStored = 1
INVARIANTS MemoryTypeOK BlocksOwnedOnce ClonesAreEqual
CHECK_DEADLOCK FALSE
