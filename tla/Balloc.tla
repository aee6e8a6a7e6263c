------------------------------- MODULE Balloc -------------------------------
(***************************************************************************)
(* The physical block allocator, kernel/kernel/memory/balloc.c, as the     *)
(* kernel drives it: balloc_initialize, then one balloc_init_region per    *)
(* entry of the boot loader's memory map that is not usable RAM            *)
(* (kmemory_initialize), then balloc_get and balloc_free from the page     *)
(* table and kernel heap code.                                             *)
(*                                                                         *)
(* The bitmap m_bmp is the set of the bits that are 1, numbered from the   *)
(* first word.  The C code never checks a bit number against bmp_sz, so    *)
(* the set also holds the bits of whatever lies in memory behind the       *)
(* bitmap: `junk' is what those were when the kernel was started.          *)
(***************************************************************************)
EXTENDS Integers, FiniteSets

CONSTANTS
  MEMORY_BLOCK_SIZE,  \* bytes in a block (4096)
  BLOCKS_PER_UNIT,    \* bits in a word of the bitmap (32)
  AddressSpace,       \* bytes an unsigned int can address (2^32)
  CounterSpace,       \* values of free_blocks (2^32)
  MemorySize,         \* memory_sz, the bytes of RAM the boot loader reports
  LowMemory,          \* bytes below the kernel's load address (0x100000)
  KernelStart,        \* physical address of the kernel image (kstart_phys)
  KernelSize,         \* bytes of the kernel image (kernel_sz)
  WordSize,           \* bytes of a word of the bitmap, sizeof(unsigned int)
  FirmwareRegions,    \* entries a memory map may hold, none of them RAM
  OverrunContents     \* sets of bits that may be set behind the bitmap

Region == [base : Nat, length : Nat]

ASSUME BlockAssumption ==
  /\ MEMORY_BLOCK_SIZE \in Nat \ {0}
  /\ BLOCKS_PER_UNIT \in Nat \ {0}
  /\ WordSize \in Nat \ {0}
  /\ CounterSpace \in Nat \ {0}

ASSUME MemoryAssumption ==
  /\ AddressSpace \in Nat \ {0}
  /\ MemorySize \in Nat /\ MemorySize < AddressSpace
  /\ LowMemory \in Nat /\ LowMemory < AddressSpace
  /\ KernelStart \in Nat /\ KernelStart < AddressSpace
  /\ KernelSize \in Nat
  /\ FirmwareRegions \subseteq Region

VARIABLES
  m_bmp,        \* the set bits of the bitmap, and of the memory behind it
  free_blocks,  \* the counter balloc_free_block_count returns
  mmap,         \* memory map entries kmemory_initialize has yet to process
  returned,     \* block number the last balloc_get returned, 0 being NULL
  held,         \* history: blocks handed out by balloc_get and not freed
  reserved,     \* history: regions passed to balloc_init_region
  junk          \* history: the bits behind the bitmap before the kernel ran

vars == <<m_bmp, free_blocks, mmap, returned, held, reserved, junk>>

-----------------------------------------------------------------------------
Block(address) == address \div MEMORY_BLOCK_SIZE

total_blocks == Block(MemorySize)
bmp_sz == (total_blocks \div BLOCKS_PER_UNIT) + 1

(* The blocks the allocator's searches look at.                            *)
BitmapBits == 0 .. (bmp_sz * BLOCKS_PER_UNIT - 1)

(* (unsigned int) map_entry.base and .length: the entries are 64 bits wide.*)
Truncate(x) == x % AddressSpace

(* Mutant: one block per whole 4096 bytes, the last partial one forgotten. *)
RegionBlocksRoundedDown(r) == Block(r.base) .. (Block(r.base) + Block(r.length) - 1)

(* The blocks the loop of balloc_init_region and balloc_deinit_region      *)
(* walks through.                                                          *)
RegionBlocks(r) == Block(r.base) .. (Block(r.base) + Block(r.length))

(* kernel_total_sz adds a bit count to a byte count.                       *)
LowRegion == [base |-> 0, length |-> LowMemory]
KernelRegion == [base |-> KernelStart,
                 length |-> KernelSize + bmp_sz * BLOCKS_PER_UNIT]

(* Mutant: a counter without a width.                                      *)
NoWrap(n) == n

(* free_blocks is unsigned and wraps around.                               *)
Wrap(n) == n % CounterSpace

ASSUME OverrunAssumption ==
  \A contents \in OverrunContents :
     contents \subseteq Nat \ BitmapBits /\ IsFiniteSet(contents)

NoResult == -1    \* no balloc_get since the last other call

(* m_bmp = (unsigned int * )&kernel_start + kernel_sz: pointer arithmetic   *)
(* on words, so the bitmap starts WordSize * kernel_sz bytes up.           *)
BitmapStart == KernelStart + WordSize * KernelSize
BitmapBlocks == Block(BitmapStart) .. Block(BitmapStart + WordSize * bmp_sz - 1)

-----------------------------------------------------------------------------
(* Mutant: low memory is not reserved, so block 0 stays clear.             *)
InitWithoutLowRegion ==
  /\ mmap \in SUBSET FirmwareRegions
  /\ junk \in OverrunContents
  /\ reserved = {KernelRegion}
  /\ m_bmp = junk \union RegionBlocks(KernelRegion)
  /\ free_blocks = Wrap(total_blocks - Cardinality(RegionBlocks(KernelRegion) \ junk))
  /\ held = {}
  /\ returned = NoResult

(* balloc_initialize: clear the words of the bitmap, count every block as  *)
(* free, then reserve low memory and the kernel with its bitmap.           *)
Init ==
  /\ mmap \in SUBSET FirmwareRegions
  /\ junk \in OverrunContents
  /\ reserved = {LowRegion, KernelRegion}
  /\ LET taken == RegionBlocks(LowRegion) \union RegionBlocks(KernelRegion)
     IN /\ m_bmp = junk \union taken
        /\ free_blocks = Wrap(total_blocks - Cardinality(taken \ junk))
  /\ held = {}
  /\ returned = NoResult

(* Mutant: every block of the region is counted, set before or not.        *)
InitRegionCountsTwice(entry) ==
  LET r == [base |-> Truncate(entry.base), length |-> Truncate(entry.length)]
  IN /\ entry \in mmap
     /\ mmap' = mmap \ {entry}
     /\ m_bmp' = m_bmp \union RegionBlocks(r)
     /\ free_blocks' = Wrap(free_blocks - Cardinality(RegionBlocks(r)))
     /\ reserved' = reserved \union {r}
     /\ returned' = NoResult
     /\ UNCHANGED <<held, junk>>

(* One turn of the loop over the memory map.                               *)
InitRegion(entry) ==
  LET r == [base |-> Truncate(entry.base), length |-> Truncate(entry.length)]
  IN /\ entry \in mmap
     /\ mmap' = mmap \ {entry}
     /\ m_bmp' = m_bmp \union RegionBlocks(r)
     /\ free_blocks' = Wrap(free_blocks - Cardinality(RegionBlocks(r) \ m_bmp))
     /\ reserved' = reserved \union {r}
     /\ returned' = NoResult
     /\ UNCHANGED <<held, junk>>

Booted == mmap = {}

(* block_alloc_first_free: the first clear bit of the bitmap, 0 if none.   *)
IsFirstFree(b) ==
  \/ /\ b \in BitmapBits \ m_bmp
     /\ \A c \in BitmapBits \ m_bmp : b <= c
  \/ /\ b = 0
     /\ BitmapBits \subseteq m_bmp

(* Mutant: the bit of the block handed out is left clear.                  *)
GetWithoutMark(b) ==
  /\ Booted
  /\ IsFirstFree(b)
  /\ b # 0
  /\ free_blocks' = Wrap(free_blocks - 1)
  /\ held' = held \union {b}
  /\ returned' = b
  /\ UNCHANGED <<m_bmp, mmap, reserved, junk>>

Get(b) ==
  /\ Booted
  /\ IsFirstFree(b)
  /\ b # 0
  /\ m_bmp' = m_bmp \union {b}
  /\ free_blocks' = Wrap(free_blocks - 1)
  /\ held' = held \union {b}
  /\ returned' = b
  /\ UNCHANGED <<mmap, reserved, junk>>

(* balloc_get returns NULL: the search came back with 0.                   *)
GetNull ==
  /\ Booted
  /\ IsFirstFree(0)
  /\ returned' = 0
  /\ UNCHANGED <<m_bmp, free_blocks, mmap, held, reserved, junk>>

(* balloc_free, called with a block its caller was given.                  *)
Free(b) ==
  /\ Booted
  /\ b \in held
  /\ m_bmp' = m_bmp \ {b}
  /\ free_blocks' = Wrap(free_blocks + 1)
  /\ held' = held \ {b}
  /\ returned' = NoResult
  /\ UNCHANGED <<mmap, reserved, junk>>

Next == \/ \E entry \in mmap : InitRegion(entry)
        \/ \E b \in BitmapBits : Get(b)
        \/ GetNull
        \/ \E b \in held : Free(b)

Spec == Init /\ [][Next]_vars

-----------------------------------------------------------------------------
TypeOK ==
  /\ m_bmp \subseteq Nat /\ IsFiniteSet(m_bmp)
  /\ free_blocks \in 0 .. CounterSpace - 1
  /\ mmap \subseteq FirmwareRegions
  /\ returned \in BitmapBits \union {NoResult}
  /\ held \subseteq BitmapBits
  /\ reserved \subseteq Region
  /\ junk \in OverrunContents

(* The blocks that hold at least one byte of a region.                     *)
Touched(r) == IF r.length = 0 THEN {}
              ELSE Block(r.base) .. Block(r.base + r.length - 1)

(* The region does not reach one block further than length / 4096 + 1      *)
(* blocks, which is all that balloc_init_region counts.                    *)
Counted(r) ==
  (r.base % MEMORY_BLOCK_SIZE) + (r.length % MEMORY_BLOCK_SIZE)
     <= MEMORY_BLOCK_SIZE

(* No block that holds a byte of a reserved region - low memory, the       *)
(* kernel, a firmware region of the memory map - is ever with a caller,    *)
(* however calls to balloc_get and balloc_free alternate.  Regions that    *)
(* straddle one block more than balloc_init_region counts are left out:    *)
(* their last block is not reserved.                                       *)
ReservedNeverHeld ==
  \A r \in reserved : Counted(r) => Touched(r) \intersect held = {}

(* balloc_get reports that memory is exhausted (NULL) only when every      *)
(* block its bitmap describes is in use.  Since 0 is both "no block" and   *)
(* the number of the first block, this rests on block 0 staying reserved   *)
(* and on nothing being freed that was not handed out.                     *)
NullOnlyWhenExhausted == returned = 0 => BitmapBits \subseteq m_bmp

(* The counter that balloc_free_block_count returns never drifts from the  *)
(* bitmap: it is the number of blocks of RAM less the bits the allocator   *)
(* itself has set, modulo the width of the counter, those it set behind    *)
(* the bitmap included.                                                    *)
CounterMatchesBitmap ==
  free_blocks = Wrap(total_blocks - Cardinality(m_bmp \ junk))

(* The allocator is a pool of frames: no block is handed out while someone *)
(* holds it, freeing makes a block available again, and NULL is returned   *)
(* exactly when the pool is empty.                                         *)
Pool == INSTANCE FramePool WITH Frame <- BitmapBits,
                                avail <- BitmapBits \ m_bmp
PoolSpec == Pool!Spec

(* The bitmap itself, which balloc_initialize means to reserve together    *)
(* with the kernel ("make sure the region occupied by the kernel and       *)
(* bitmap are not given out"), is never handed out.  The code does not     *)
(* keep to it: the bitmap is placed by pointer arithmetic on words and     *)
(* reserved by arithmetic that adds bits to bytes.                         *)
BitmapNeverHeld == BitmapBlocks \intersect held = {}
=============================================================================
