SPECIFICATION Spec
CONSTANTS
  KB_QUEUE_SIZE = 2
  Key = {k}
  Overrun = Overrun
  Nothing = Nothing
  MaxTyped = 4
INVARIANTS
  TypeOK
  FIFOWithoutRaces
  LossBounded
  ShiftFollowsKeys
PROPERTIES
  EventuallyDelivered
