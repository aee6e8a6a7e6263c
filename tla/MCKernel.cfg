SPECIFICATION KernelSpec
CONSTANTS
  DEVICE_MAX = 3
  DEVICE_MAXPATH = 4
  Names <- MCNames
  Drivers <- MCDrivers
  Tty0 <- MCTty0
  Loaders <- MCLoaders
  Firmwares <- MCFirmwares
  DeviceLoaders <- MCDeviceLoaders
  SizeSpace = 4194304
  BLOCK_KB = 4
  LongSpace = 256
  BehindKeymap = 99
  Strings <- MCStrings
  Lengths = {0, 1, 2, 3}
  Memory <- MCMemory
  Numerals <- MCNumerals
  Bases = {0, 1, 2, 8, 9, 10, 16, 17, 36, 37}
  Formats <- MCFormats
  LibraryStarts <- MCLibraryStarts
INVARIANTS
  MapDelivered
  DevicesKept
  StringsAgree
  NumeralsAgree
  KeysTyped
PROPERTIES
  BootEnds
