SPECIFICATION SeriesSpec
CONSTANTS
  MEMORY_BLOCK_SIZE = 4
  BLOCKS_PER_UNIT = 4
  WordSize = 4
  AddressSpace = 48
  CounterSpace = 16
  MemorySize = 36
  LowMemory = 4
  KernelStart = 4
  KernelSize = 1
  FirmwareRegions <- MCFirmwareRegions
  OverrunContents <- MCOverrunContents
  Requests = {0, 1, 2}
PROPERTY
  SeriesTakesFreeBlocks
