SPECIFICATION Spec
CONSTANTS
  Lines = {0, 1, 7, 14, 15}
  Noisy = {0, 14}
  FirmwareMasks <- MCFirmwareMasks
  TickSpace = 2
INVARIANTS
  Released
  GatesComplete
PROPERTIES
  EoiEndsItsOwn
  TicksTaken
