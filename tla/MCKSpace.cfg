SPECIFICATION Spec
CONSTANTS
  KERNEL_PAGE_SIZE = 4
  KHEAP_PAGE_START = 32
  KHEAP_PAGE_MAX = 48
  AddressSpace = 64
  EntriesPerTable = 2
  Frame = {f1, f2, f3, f4, f5, f6}
  Null = Null
  Increments = {0, 1, 3, 6, 30}
  Leftovers <- MCLeftovers
SYMMETRY BlockSymmetry
INVARIANTS
  TypeOK
  FreshMemory
  GrantedBacked
  BlocksAccounted
PROPERTY
  BreakKept
