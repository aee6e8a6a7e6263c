SPECIFICATION Spec
CONSTANTS
  MEMORY_BLOCK_SIZE = 4
  BLOCKS_PER_UNIT = 4
  WordSize = 4
  AddressSpace = 96
  CounterSpace = 32
  MemorySize = 80
  LowMemory = 4
  KernelStart = 4
  KernelSize = 16
  FirmwareRegions = {}
  OverrunContents = {{}}
INVARIANT
  BitmapNeverHeld
