CONSTANTS
  Address = {1,2,3,4,5,6,7,8,9,10,11,12,13}
  Client = 0
  NullFile = 99
  MaxHeld = 2
  MaxCalls = 6
  Malloc <- LowestFree
SPECIFICATION Spec
INVARIANTS TypeOK NoDangling OneHolder NothingLost NullObjectsExist
CHECK_DEADLOCK FALSE
