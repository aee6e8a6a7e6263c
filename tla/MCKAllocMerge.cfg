SPECIFICATION Spec
CONSTANTS
  SCALE = 2
  MIN_REQUEST_SIZE = 6
  AddressSpace = 64
  Base = 1
  HeapStart = 4
  HeapEnd = 16
  Requests = {1, 4}
  FollowDamage = TRUE
INVARIANT
  NoSharing
