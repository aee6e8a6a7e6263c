SPECIFICATION Spec
CONSTANTS
  Frame = {f1, f2, f3, f4}
  Low = {f1, f2, f3}
  Data = {d1, d2}
  Directories = {p1}
  BootDir = BootDir
  BootTable = BootTable
  Null = Null
  LAST = 7
  IDENTITY = {0}
  KERNEL_START = 2
  KernelEntries = {0, 2, 6}
  Temporary <- MCTemporary
  ClientPages <- MCClientPages
SYMMETRY MCSymmetry
INVARIANTS
  MapsWhatWasAsked
  TablesAccounted
  KernelStaysMapped
