SPECIFICATION Spec
CONSTANTS
  SCALE = 2
  MIN_REQUEST_SIZE = 6
  AddressSpace = 64
  Base = 1
  HeapStart = 4
  HeapEnd = 22
  Requests = {1, 2, 63}
  FollowDamage = FALSE
INVARIANTS
  TypeOK
  BlocksDisjoint
  MemoryAccounted
  ListCircular
PROPERTIES
  CallsReturn
