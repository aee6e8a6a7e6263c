---------------------------- MODULE BallocProofs ----------------------------
(***************************************************************************)
(* Theorems about Balloc for every size of memory, every memory map and    *)
(* every content of the memory behind the bitmap.                          *)
(***************************************************************************)
EXTENDS Balloc, FiniteSetTheorems, TLAPS

-----------------------------------------------------------------------------
(* Facts about division by any positive number.                            *)

(* Quotient and remainder of a number.                                     *)
LEMMA DivMod ==
  ASSUME NEW d \in Nat \ {0}, NEW x \in Int
  PROVE  /\ x \div d \in Int
         /\ x % d \in 0 .. d - 1
         /\ x = d * (x \div d) + (x % d)
  OBVIOUS

(* A number below the divisor is the remainder of what it is added to.     *)
LEMMA ModUnique ==
  ASSUME NEW d \in Nat \ {0}, NEW q \in Int, NEW r \in 0 .. d - 1
  PROVE  (d * q + r) % d = r
  OBVIOUS

(* And the factor of the divisor is the quotient.                          *)
LEMMA DivUnique ==
  ASSUME NEW d \in Nat \ {0}, NEW q \in Int, NEW r \in 0 .. d - 1
  PROVE  (d * q + r) \div d = q
  OBVIOUS

(* Division never reorders numbers.                                        *)
LEMMA DivMonotone ==
  ASSUME NEW d \in Nat \ {0}, NEW x \in Int, NEW y \in Int, x <= y
  PROVE  x \div d <= y \div d
  OBVIOUS

LEMMA DivNat ==
  ASSUME NEW d \in Nat \ {0}, NEW x \in Nat
  PROVE  x \div d \in Nat
  OBVIOUS

(* A counter may wrap at every step or once at the end.                    *)
LEMMA ModPlus ==
  ASSUME NEW d \in Nat \ {0}, NEW x \in Int, NEW n \in Int
  PROVE  ((x % d) + n) % d = (x + n) % d
<1> DEFINE q == x \div d
           r == x % d
           p == (r + n) \div d
           s == (r + n) % d
<1>1. q \in Int /\ r \in 0 .. d - 1 /\ x = d * q + r
  BY DivMod
<1>2. p \in Int /\ s \in 0 .. d - 1 /\ r + n = d * p + s
  BY <1>1, DivMod
<1> HIDE DEF q, r, p, s
<1>3. x + n = d * (q + p) + s
  <2>1. d * (q + p) = d * q + d * p
    BY <1>1, <1>2
  <2>2. d * q \in Int /\ d * p \in Int
    BY <1>1, <1>2
  <2> QED
    BY <2>1, <2>2, <1>1, <1>2
<1>4. (x + n) % d = s
  <2>1. q + p \in Int
    BY <1>1, <1>2
  <2>2. (d * (q + p) + s) % d = s
    BY <2>1, <1>2, ModUnique
  <2> QED
    BY <2>2, <1>3
<1> QED
  BY <1>4 DEF s, r

(* The blocks of `length' bytes from `base' are base's block and as many   *)
(* more as length holds, if the two remainders fit in one block.           *)
LEMMA SpanBound ==
  ASSUME NEW d \in Nat \ {0}, NEW base \in Nat, NEW length \in Nat \ {0},
         (base % d) + (length % d) <= d
  PROVE  (base + length - 1) \div d <= (base \div d) + (length \div d)
<1> DEFINE a == base \div d
           p == base % d
           b == length \div d
           q == length % d
<1>1. a \in Int /\ p \in 0 .. d - 1 /\ base = d * a + p
  BY DivMod
<1>2. b \in Int /\ q \in 0 .. d - 1 /\ length = d * b + q
  BY DivMod
<1>3. p + q - 1 <= d - 1
  BY <1>1, <1>2
<1> HIDE DEF a, p, b, q
<1>4. d * (a + b) = d * a + d * b /\ d * a \in Int /\ d * b \in Int
  BY <1>1, <1>2
<1>5. base + length - 1 <= d * (a + b) + (d - 1)
  BY <1>1, <1>2, <1>3, <1>4
<1>6. (d * (a + b) + (d - 1)) \div d = a + b
  BY <1>1, <1>2, DivUnique
<1>7. (base + length - 1) \div d <= a + b
  BY <1>1, <1>2, <1>4, <1>5, <1>6, DivMonotone
<1> QED
  BY <1>7 DEF a, b

-----------------------------------------------------------------------------
(* The inductive invariant.  TypeOK and the properties are not inductive   *)
(* by themselves: Free clears a bit, and what keeps it from clearing a     *)
(* reserved one (block 0 above all) is that held and reserved blocks are   *)
(* disjoint, which in turn needs both to be marked, and the memory map to  *)
(* be processed before the first block is handed out.                      *)
FixedReserved == LowRegion \in reserved /\ KernelRegion \in reserved
JunkMarked == junk \subseteq m_bmp
ReservedMarked == \A r \in reserved : RegionBlocks(r) \subseteq m_bmp
HeldMarked == held \subseteq m_bmp
ReservedApart == \A r \in reserved : RegionBlocks(r) \intersect held = {}
BootBeforeGet == mmap # {} => held = {}

IInv == /\ TypeOK
        /\ FixedReserved
        /\ JunkMarked
        /\ ReservedMarked
        /\ HeldMarked
        /\ ReservedApart
        /\ BootBeforeGet
        /\ CounterMatchesBitmap
        /\ NullOnlyWhenExhausted

-----------------------------------------------------------------------------
LEMMA Sizes == /\ total_blocks \in Nat
               /\ bmp_sz \in Nat \ {0}
               /\ BitmapBits \subseteq Nat
               /\ 0 \in BitmapBits
<1>1. total_blocks \in Nat
  BY BlockAssumption, MemoryAssumption, DivNat DEF total_blocks, Block
<1>2. bmp_sz \in Nat \ {0}
  <2>1. total_blocks \div BLOCKS_PER_UNIT \in Nat
    BY <1>1, BlockAssumption, DivNat
  <2> QED
    BY <2>1 DEF bmp_sz
<1>3. bmp_sz * BLOCKS_PER_UNIT \in Nat \ {0}
  BY <1>2, BlockAssumption
<1> QED
  BY <1>1, <1>2, <1>3 DEF BitmapBits

(* The blocks of a region are a finite set of natural numbers.             *)
LEMMA RegionFinite ==
  ASSUME NEW r \in Region
  PROVE  RegionBlocks(r) \subseteq Nat /\ IsFiniteSet(RegionBlocks(r))
<1>1. Block(r.base) \in Nat /\ Block(r.length) \in Nat
  BY BlockAssumption, DivNat DEF Block, Region
<1> DEFINE first == Block(r.base)
           last == Block(r.base) + Block(r.length)
<1>2. first \in Nat /\ last \in Nat
  BY <1>1
<1> HIDE DEF first, last
<1>3. first .. last \subseteq Nat /\ IsFiniteSet(first .. last)
  BY <1>2, FS_Interval
<1> QED
  BY <1>3 DEF RegionBlocks, first, last

LEMMA FixedRegions == LowRegion \in Region /\ KernelRegion \in Region
  BY Sizes, MemoryAssumption, BlockAssumption
     DEF LowRegion, KernelRegion, Region

(* Block 0, whose number doubles as NULL, is in low memory.                *)
LEMMA BlockZeroReserved == 0 \in RegionBlocks(LowRegion)
<1>1. Block(0) = 0
  <2>1. MEMORY_BLOCK_SIZE * 0 + 0 = 0 /\ 0 \in 0 .. MEMORY_BLOCK_SIZE - 1
    BY BlockAssumption
  <2> QED
    BY <2>1, BlockAssumption, DivUnique DEF Block
<1>2. Block(LowMemory) \in Nat
  BY BlockAssumption, MemoryAssumption, DivNat DEF Block
<1> QED
  BY <1>1, <1>2 DEF RegionBlocks, LowRegion

LEMMA WrapPlus ==
  ASSUME NEW x \in Int, NEW n \in Int
  PROVE  /\ Wrap(x) \in 0 .. CounterSpace - 1
         /\ Wrap(Wrap(x) + n) = Wrap(x + n)
  BY BlockAssumption, DivMod, ModPlus DEF Wrap

LEMMA WrapMinus ==
  ASSUME NEW x \in Int, NEW n \in Nat
  PROVE  Wrap(Wrap(x) - n) = Wrap(x - n)
<1>1. -n \in Int /\ Wrap(x) \in Int
  BY WrapPlus, BlockAssumption
<1>2. Wrap(Wrap(x) + (-n)) = Wrap(x + (-n))
  BY <1>1, WrapPlus
<1> QED
  BY <1>1, <1>2

(* Truncating an entry of the memory map leaves a region.                  *)
LEMMA TruncatedRegion ==
  ASSUME NEW entry \in FirmwareRegions
  PROVE  [base |-> Truncate(entry.base), length |-> Truncate(entry.length)]
            \in Region
<1>1. entry.base \in Nat /\ entry.length \in Nat
  BY MemoryAssumption DEF Region
<1>2. Truncate(entry.base) \in Nat /\ Truncate(entry.length) \in Nat
  <2>1. \A x \in Nat : x % AddressSpace \in Nat
    BY MemoryAssumption, DivMod
  <2> QED
    BY <1>1, <2>1 DEF Truncate
<1> QED
  BY <1>2 DEF Region

-----------------------------------------------------------------------------
LEMMA InitIInv == Init => IInv
<1> SUFFICES ASSUME Init PROVE IInv
  OBVIOUS
<1> DEFINE taken == RegionBlocks(LowRegion) \union RegionBlocks(KernelRegion)
<1>1. taken \subseteq Nat /\ IsFiniteSet(taken)
  BY FixedRegions, RegionFinite, FS_Union
<1>2. junk \in OverrunContents /\ junk \subseteq Nat /\ IsFiniteSet(junk)
  BY OverrunAssumption DEF Init
<1>3. /\ m_bmp = junk \union taken
      /\ free_blocks = Wrap(total_blocks - Cardinality(taken \ junk))
      /\ reserved = {LowRegion, KernelRegion}
      /\ held = {} /\ returned = NoResult /\ mmap \subseteq FirmwareRegions
  BY DEF Init
<1> HIDE DEF taken
<1>4. IsFiniteSet(taken \ junk) /\ Cardinality(taken \ junk) \in Nat
  BY <1>1, FS_Difference, FS_CardinalityType
<1>5. TypeOK
  <2>1. free_blocks \in 0 .. CounterSpace - 1
    BY <1>3, <1>4, Sizes, WrapPlus
  <2>2. m_bmp \subseteq Nat /\ IsFiniteSet(m_bmp)
    BY <1>1, <1>2, <1>3, FS_Union
  <2> QED
    BY <2>1, <2>2, <1>2, <1>3, FixedRegions DEF TypeOK
<1>6. CounterMatchesBitmap
  <2>1. m_bmp \ junk = taken \ junk
    BY <1>3
  <2> QED
    BY <2>1, <1>3 DEF CounterMatchesBitmap
<1>7. ReservedMarked /\ FixedReserved /\ JunkMarked
  BY <1>3 DEF ReservedMarked, FixedReserved, JunkMarked, taken
<1>8. HeldMarked /\ ReservedApart /\ BootBeforeGet
  BY <1>3 DEF HeldMarked, ReservedApart, BootBeforeGet
<1>9. NullOnlyWhenExhausted
  BY <1>3 DEF NullOnlyWhenExhausted, NoResult
<1> QED
  BY <1>5, <1>6, <1>7, <1>8, <1>9 DEF IInv

(* The number of bits the allocator has set is a natural number.           *)
LEMMA CountSet ==
  ASSUME TypeOK
  PROVE  /\ IsFiniteSet(m_bmp \ junk)
         /\ Cardinality(m_bmp \ junk) \in Nat
         /\ total_blocks - Cardinality(m_bmp \ junk) \in Int
<1>1. IsFiniteSet(m_bmp \ junk)
  BY FS_Difference DEF TypeOK
<1> QED
  BY <1>1, FS_CardinalityType, Sizes

(* Two sets with nothing in common add up.                                 *)
LEMMA DisjointUnion ==
  ASSUME NEW S, NEW T, IsFiniteSet(S), IsFiniteSet(T), S \intersect T = {}
  PROVE  Cardinality(S \union T) = Cardinality(S) + Cardinality(T)
<1>1. Cardinality(S \union T)
        = Cardinality(S) + Cardinality(T) - Cardinality(S \intersect T)
  BY FS_Union
<1>2. Cardinality(S \intersect T) = 0
  BY FS_EmptySet
<1>3. Cardinality(S) \in Nat /\ Cardinality(T) \in Nat
  BY FS_CardinalityType
<1> QED
  BY <1>1, <1>2, <1>3

LEMMA InitRegionIInv ==
  ASSUME IInv, NEW entry \in mmap, InitRegion(entry)
  PROVE  IInv'
<1> DEFINE r == [base |-> Truncate(entry.base), length |-> Truncate(entry.length)]
           R == RegionBlocks(r)
<1>1. r \in Region
  BY TruncatedRegion DEF IInv, TypeOK
<1>2. R \subseteq Nat /\ IsFiniteSet(R)
  BY <1>1, RegionFinite
<1>3. /\ mmap' = mmap \ {entry}
      /\ m_bmp' = m_bmp \union R
      /\ free_blocks' = Wrap(free_blocks - Cardinality(R \ m_bmp))
      /\ reserved' = reserved \union {r}
      /\ returned' = NoResult
      /\ held' = held /\ junk' = junk /\ held = {}
  BY DEF InitRegion, IInv, BootBeforeGet
<1> HIDE DEF r, R
<1>4. /\ IsFiniteSet(R \ m_bmp)
      /\ Cardinality(R \ m_bmp) \in Nat
  BY <1>2, FS_Difference, FS_CardinalityType
<1>5. TypeOK'
  <2>1. free_blocks' \in 0 .. CounterSpace - 1
    <3>1. free_blocks \in Int
      BY BlockAssumption DEF IInv, TypeOK
    <3> QED
      BY <3>1, <1>3, <1>4, WrapPlus
  <2>2. m_bmp' \subseteq Nat /\ IsFiniteSet(m_bmp')
    BY <1>2, <1>3, FS_Union DEF IInv, TypeOK
  <2> QED
    BY <2>1, <2>2, <1>1, <1>3 DEF IInv, TypeOK
<1>6. CounterMatchesBitmap'
  <2>1. m_bmp' \ junk' = (m_bmp \ junk) \union (R \ m_bmp)
    BY <1>3 DEF IInv, JunkMarked
  <2>2. /\ IsFiniteSet(m_bmp \ junk)
        /\ Cardinality(m_bmp \ junk) \in Nat
        /\ total_blocks - Cardinality(m_bmp \ junk) \in Int
    BY CountSet DEF IInv
  <2>3. Cardinality((m_bmp \ junk) \union (R \ m_bmp))
          = Cardinality(m_bmp \ junk) + Cardinality(R \ m_bmp)
    <3>1. (m_bmp \ junk) \intersect (R \ m_bmp) = {}
      OBVIOUS
    <3> QED
      BY <3>1, <2>2, <1>4, DisjointUnion
  <2>4. free_blocks = Wrap(total_blocks - Cardinality(m_bmp \ junk))
    BY DEF IInv, CounterMatchesBitmap
  <2>5. free_blocks' = Wrap((total_blocks - Cardinality(m_bmp \ junk))
                            - Cardinality(R \ m_bmp))
    BY <2>2, <2>4, <1>3, <1>4, WrapMinus
  <2>6. (total_blocks - Cardinality(m_bmp \ junk)) - Cardinality(R \ m_bmp)
          = total_blocks - Cardinality(m_bmp' \ junk')
    <3> DEFINE c == Cardinality(m_bmp \ junk)
               n == Cardinality(R \ m_bmp)
    <3>1. Cardinality(m_bmp' \ junk') = c + n
      BY <2>1, <2>3
    <3>2. c \in Nat /\ n \in Nat
      BY <2>2, <1>4
    <3> HIDE DEF c, n
    <3>3. (total_blocks - c) - n = total_blocks - (c + n)
      BY <3>2, Sizes
    <3> QED
      BY <3>1, <3>3 DEF c, n
  <2> QED
    BY <2>5, <2>6 DEF CounterMatchesBitmap
<1>7. FixedReserved' /\ JunkMarked' /\ ReservedMarked' /\ HeldMarked'
  BY <1>3 DEF IInv, FixedReserved, JunkMarked, ReservedMarked, HeldMarked, R
<1>8. ReservedApart' /\ BootBeforeGet'
  BY <1>3 DEF ReservedApart, BootBeforeGet
<1>9. NullOnlyWhenExhausted'
  BY <1>3 DEF NullOnlyWhenExhausted, NoResult
<1> QED
  BY <1>5, <1>6, <1>7, <1>8, <1>9 DEF IInv

LEMMA GetIInv ==
  ASSUME IInv, NEW b \in BitmapBits, Get(b)
  PROVE  IInv'
<1>1. /\ m_bmp' = m_bmp \union {b}
      /\ free_blocks' = Wrap(free_blocks - 1)
      /\ held' = held \union {b}
      /\ returned' = b /\ b # 0
      /\ mmap' = mmap /\ mmap = {}
      /\ reserved' = reserved /\ junk' = junk
      /\ b \notin m_bmp
  BY DEF Get, IsFirstFree, Booted
<1>2. TypeOK'
  <2>1. free_blocks' \in 0 .. CounterSpace - 1
    <3>1. free_blocks - 1 \in Int
      BY BlockAssumption DEF IInv, TypeOK
    <3>2. Wrap(free_blocks - 1) \in 0 .. CounterSpace - 1
      BY <3>1, WrapPlus
    <3> QED
      BY <3>2, <1>1
  <2>2. m_bmp' \subseteq Nat /\ IsFiniteSet(m_bmp')
    BY <1>1, Sizes, FS_AddElement DEF IInv, TypeOK
  <2> QED
    BY <2>1, <2>2, <1>1 DEF IInv, TypeOK
<1>3. CounterMatchesBitmap'
  <2>1. b \notin junk
    BY <1>1 DEF IInv, JunkMarked
  <2>2. m_bmp' \ junk' = (m_bmp \ junk) \union {b}
    BY <2>1, <1>1
  <2>3. /\ IsFiniteSet(m_bmp \ junk)
        /\ Cardinality(m_bmp \ junk) \in Nat
        /\ total_blocks - Cardinality(m_bmp \ junk) \in Int
    BY CountSet DEF IInv
  <2>4. Cardinality(m_bmp' \ junk') = Cardinality(m_bmp \ junk) + 1
    BY <2>2, <2>3, <1>1, FS_AddElement
  <2>5. free_blocks' = Wrap((total_blocks - Cardinality(m_bmp \ junk)) - 1)
    <3>1. free_blocks = Wrap(total_blocks - Cardinality(m_bmp \ junk))
      BY DEF IInv, CounterMatchesBitmap
    <3> QED
      BY <3>1, <2>3, <1>1, WrapMinus
  <2>6. (total_blocks - Cardinality(m_bmp \ junk)) - 1
          = total_blocks - Cardinality(m_bmp' \ junk')
    BY <2>3, <2>4, Sizes
  <2> QED
    BY <2>5, <2>6 DEF CounterMatchesBitmap
<1>4. FixedReserved' /\ JunkMarked' /\ ReservedMarked' /\ HeldMarked'
  BY <1>1 DEF IInv, FixedReserved, JunkMarked, ReservedMarked, HeldMarked
<1>5. ReservedApart' /\ BootBeforeGet'
  BY <1>1 DEF IInv, ReservedApart, ReservedMarked, BootBeforeGet
<1>6. NullOnlyWhenExhausted'
  BY <1>1 DEF NullOnlyWhenExhausted
<1> QED
  BY <1>2, <1>3, <1>4, <1>5, <1>6 DEF IInv

(* Block 0 is reserved, so a search that comes back with 0 found nothing.  *)
LEMMA ZeroMeansFull ==
  ASSUME IInv, IsFirstFree(0)
  PROVE  BitmapBits \subseteq m_bmp
<1>1. 0 \in m_bmp
  BY BlockZeroReserved DEF IInv, FixedReserved, ReservedMarked
<1> QED
  BY <1>1 DEF IsFirstFree

LEMMA GetNullIInv ==
  ASSUME IInv, GetNull
  PROVE  IInv'
<1>1. NullOnlyWhenExhausted'
  BY ZeroMeansFull DEF GetNull, NullOnlyWhenExhausted, BitmapBits
<1>2. TypeOK'
  BY Sizes DEF IInv, TypeOK, GetNull
<1>3. CounterMatchesBitmap'
  BY DEF IInv, CounterMatchesBitmap, GetNull
<1> QED
  BY <1>1, <1>2, <1>3 DEF IInv, GetNull, FixedReserved, JunkMarked, ReservedMarked,
     HeldMarked, ReservedApart, BootBeforeGet

LEMMA FreeIInv ==
  ASSUME IInv, NEW b \in held, Free(b)
  PROVE  IInv'
<1>1. /\ m_bmp' = m_bmp \ {b}
      /\ free_blocks' = Wrap(free_blocks + 1)
      /\ held' = held \ {b}
      /\ returned' = NoResult
      /\ mmap' = mmap /\ mmap = {}
      /\ reserved' = reserved /\ junk' = junk
  BY DEF Free, Booted
<1>2. b \in m_bmp /\ b \in BitmapBits
  BY DEF IInv, HeldMarked, TypeOK
<1>3. b \notin junk
  BY <1>2, OverrunAssumption DEF IInv, TypeOK
<1>4. TypeOK'
  <2>1. free_blocks' \in 0 .. CounterSpace - 1
    <3>1. free_blocks + 1 \in Int
      BY BlockAssumption DEF IInv, TypeOK
    <3>2. Wrap(free_blocks + 1) \in 0 .. CounterSpace - 1
      BY <3>1, WrapPlus
    <3> QED
      BY <3>2, <1>1
  <2>2. m_bmp' \subseteq Nat /\ IsFiniteSet(m_bmp')
    BY <1>1, FS_RemoveElement DEF IInv, TypeOK
  <2> QED
    BY <2>1, <2>2, <1>1 DEF IInv, TypeOK
<1>5. CounterMatchesBitmap'
  <2>1. m_bmp' \ junk' = (m_bmp \ junk) \ {b} /\ b \in m_bmp \ junk
    BY <1>1, <1>2, <1>3
  <2>2. /\ IsFiniteSet(m_bmp \ junk)
        /\ Cardinality(m_bmp \ junk) \in Nat
        /\ total_blocks - Cardinality(m_bmp \ junk) \in Int
    BY CountSet DEF IInv
  <2>3. Cardinality(m_bmp' \ junk') = Cardinality(m_bmp \ junk) - 1
    BY <2>1, <2>2, FS_RemoveElement
  <2>4. free_blocks' = Wrap((total_blocks - Cardinality(m_bmp \ junk)) + 1)
    <3>1. free_blocks = Wrap(total_blocks - Cardinality(m_bmp \ junk))
      BY DEF IInv, CounterMatchesBitmap
    <3> QED
      BY <3>1, <2>2, <1>1, WrapPlus
  <2>5. (total_blocks - Cardinality(m_bmp \ junk)) + 1
          = total_blocks - Cardinality(m_bmp' \ junk')
    BY <2>2, <2>3, Sizes
  <2> QED
    BY <2>4, <2>5 DEF CounterMatchesBitmap
<1>6. FixedReserved' /\ JunkMarked' /\ HeldMarked'
  BY <1>1, <1>3 DEF IInv, FixedReserved, JunkMarked, HeldMarked
<1>7. ReservedMarked'
  BY <1>1 DEF IInv, ReservedMarked, ReservedApart
<1>8. ReservedApart' /\ BootBeforeGet'
  BY <1>1 DEF IInv, ReservedApart, BootBeforeGet
<1>9. NullOnlyWhenExhausted'
  BY <1>1 DEF NullOnlyWhenExhausted, NoResult
<1> QED
  BY <1>4, <1>5, <1>6, <1>7, <1>8, <1>9 DEF IInv

LEMMA NextIInv == IInv /\ [Next]_vars => IInv'
<1> SUFFICES ASSUME IInv, [Next]_vars PROVE IInv'
  OBVIOUS
<1>1. ASSUME NEW entry \in mmap, InitRegion(entry) PROVE IInv'
  BY <1>1, InitRegionIInv
<1>2. ASSUME NEW b \in BitmapBits, Get(b) PROVE IInv'
  BY <1>2, GetIInv
<1>3. CASE GetNull
  BY <1>3, GetNullIInv
<1>4. ASSUME NEW b \in held, Free(b) PROVE IInv'
  BY <1>4, FreeIInv
<1>5. CASE UNCHANGED vars
  BY <1>5 DEF vars, IInv, TypeOK, FixedReserved, JunkMarked, ReservedMarked,
     HeldMarked, ReservedApart, BootBeforeGet, CounterMatchesBitmap,
     NullOnlyWhenExhausted
<1> QED
  BY <1>1, <1>2, <1>3, <1>4, <1>5 DEF Next

THEOREM Inductive == Spec => []IInv
<1>1. Init => IInv
  BY InitIInv
<1>2. IInv /\ [Next]_vars => IInv'
  BY NextIInv
<1> QED
  BY <1>1, <1>2, PTL DEF Spec

-----------------------------------------------------------------------------
(* Every variable keeps the type the code gives it; free_blocks stays a    *)
(* CounterSpace-valued counter whatever balloc_init_region subtracts.      *)
THEOREM TypeCorrect == Spec => []TypeOK
<1>1. IInv => TypeOK
  BY DEF IInv
<1> QED
  BY <1>1, Inductive, PTL

(* balloc_get never hands out a block with a byte of low memory, of the    *)
(* kernel or of a firmware region in it, for every memory map whose        *)
(* regions do not straddle a block more than balloc_init_region counts.    *)
THEOREM ReservedSafe == Spec => []ReservedNeverHeld
<1>1. IInv => ReservedNeverHeld
  <2> SUFFICES ASSUME IInv, NEW r \in reserved, Counted(r)
               PROVE  Touched(r) \intersect held = {}
    BY DEF ReservedNeverHeld
  <2>1. r.base \in Nat /\ r.length \in Nat
    BY DEF IInv, TypeOK, Region
  <2>2. CASE r.length = 0
    BY <2>2 DEF Touched
  <2>3. CASE r.length # 0
    <3>1. Block(r.base + r.length - 1) <= Block(r.base) + Block(r.length)
      BY <2>1, <2>3, BlockAssumption, SpanBound DEF Counted, Block
    <3>2. /\ Block(r.base) \in Nat
          /\ Block(r.length) \in Nat
          /\ Block(r.base + r.length - 1) \in Nat
      <4>1. r.base + r.length - 1 \in Nat
        BY <2>1, <2>3
      <4> QED
        BY <4>1, <2>1, BlockAssumption, DivNat DEF Block
    <3>3. Touched(r) \subseteq RegionBlocks(r)
      BY <3>1, <3>2, <2>3 DEF Touched, RegionBlocks
    <3> QED
      BY <3>3 DEF IInv, ReservedApart
  <2> QED
    BY <2>2, <2>3
<1> QED
  BY <1>1, Inductive, PTL

(* NULL from balloc_get always means that the bitmap is full, although 0   *)
(* is a block number as well.                                              *)
THEOREM NullSafe == Spec => []NullOnlyWhenExhausted
<1>1. IInv => NullOnlyWhenExhausted
  BY DEF IInv
<1> QED
  BY <1>1, Inductive, PTL

(* free_blocks agrees with the bitmap after every call.                    *)
THEOREM CounterSafe == Spec => []CounterMatchesBitmap
<1>1. IInv => CounterMatchesBitmap
  BY DEF IInv
<1> QED
  BY <1>1, Inductive, PTL

(* Whatever the memory map and whatever lies behind the bitmap: if the     *)
(* three kernel sizes between the ends of kernel and bitmap are more than  *)
(* the bits of the bitmap, taken as bytes, and a block - for 128 MB of RAM *)
(* a kernel of more than 12 kB - then none of the blocks of the bitmap is  *)
(* marked in use when balloc_initialize returns, so balloc_get will hand   *)
(* them out.                                                               *)
THEOREM BitmapExposed ==
  ASSUME KernelStart >= LowMemory,
         (WordSize - 1) * KernelSize >= bmp_sz * BLOCKS_PER_UNIT + MEMORY_BLOCK_SIZE,
         Init
  PROVE  BitmapBlocks \intersect m_bmp \subseteq junk
<1> DEFINE d == MEMORY_BLOCK_SIZE
           bits == bmp_sz * BLOCKS_PER_UNIT
           length == KernelSize + bits
<1>1. /\ d \in Nat \ {0} /\ bits \in Nat /\ length \in Nat
      /\ KernelStart \in Nat /\ LowMemory \in Nat /\ BitmapStart \in Nat
      /\ BitmapStart >= KernelStart + length + d
  <2>1. /\ bmp_sz \in Nat /\ BLOCKS_PER_UNIT \in Nat /\ WordSize \in Nat
        /\ KernelStart \in Nat /\ KernelSize \in Nat /\ LowMemory \in Nat
        /\ d \in Nat \ {0}
    BY BlockAssumption, MemoryAssumption, Sizes
  <2>2. bits \in Nat
    BY <2>1
  <2>3. WordSize * KernelSize \in Nat
    BY <2>1
  <2>4. (WordSize - 1) * KernelSize = WordSize * KernelSize - KernelSize
    BY <2>1
  <2> HIDE DEF bits, d
  <2>5. WordSize * KernelSize - KernelSize >= bits + d
    BY <2>4 DEF bits, d
  <2> QED
    BY <2>1, <2>2, <2>3, <2>5 DEF BitmapStart
<1> HIDE DEF d, bits, length
<1>2. ASSUME NEW b \in BitmapBlocks
      PROVE  b \in Int /\ b >= (KernelStart + length) \div d + 1
  <2>1. (KernelStart + length + d) \div d = (KernelStart + length) \div d + 1
    <3> DEFINE x == KernelStart + length
               q == x \div d
               r == x % d
    <3>1. x \in Int
      BY <1>1
    <3>2. q \in Int /\ r \in 0 .. d - 1 /\ x = d * q + r
      <4> HIDE DEF x
      <4> QED
        BY <1>1, <3>1, DivMod
    <3> HIDE DEF x, q, r
    <3>3. x + d = d * (q + 1) + r
      <4>1. d * (q + 1) = d * q + d /\ d * q \in Int
        BY <1>1, <3>2
      <4> QED
        BY <1>1, <3>2, <4>1
    <3>4. (d * (q + 1) + r) \div d = q + 1
      BY <1>1, <3>2, DivUnique
    <3> QED
      BY <3>3, <3>4 DEF q, x
  <2>2. (KernelStart + length + d) \div d <= BitmapStart \div d
    BY <1>1, DivMonotone
  <2>3. b \in Int /\ b >= BitmapStart \div d
    BY DEF BitmapBlocks, Block, d
  <2> QED
    BY <1>1, <2>1, <2>2, <2>3, DivNat
<1>3. ASSUME NEW b \in RegionBlocks(KernelRegion) \union RegionBlocks(LowRegion)
      PROVE  b <= (KernelStart + length) \div d
  <2>1. KernelStart \div d + length \div d <= (KernelStart + length) \div d
    <3>1. /\ KernelStart \div d \in Int /\ length \div d \in Int
          /\ KernelStart % d \in 0 .. d - 1 /\ length % d \in 0 .. d - 1
          /\ KernelStart = d * (KernelStart \div d) + (KernelStart % d)
          /\ length = d * (length \div d) + (length % d)
      BY <1>1, DivMod
    <3> DEFINE u == KernelStart \div d
               v == length \div d
    <3>2. d * (u + v) = d * u + d * v /\ d * u \in Int /\ d * v \in Int
      BY <1>1, <3>1
    <3>3. d * (u + v) + 0 <= KernelStart + length
      BY <1>1, <3>1, <3>2
    <3>4. (d * (u + v) + 0) \div d = u + v
      BY <1>1, <3>1, DivUnique
    <3> QED
      BY <1>1, <3>1, <3>3, <3>4, DivMonotone
  <2>2. LowMemory \div d <= (KernelStart + length) \div d
    BY <1>1, DivMonotone
  <2>3. CASE b \in RegionBlocks(KernelRegion)
    <3>1. b \in Int /\ b <= KernelStart \div d + length \div d
      BY <2>3 DEF RegionBlocks, KernelRegion, Block, length, bits, d
    <3> QED
      BY <1>1, <2>1, <3>1, DivNat
  <2>4. CASE b \in RegionBlocks(LowRegion)
    <3>1. b \in Int /\ b <= 0 \div d + LowMemory \div d
      BY <2>4 DEF RegionBlocks, LowRegion, Block, d
    <3>2. 0 \div d = 0
      BY <1>1
    <3> QED
      BY <1>1, <2>2, <3>1, <3>2, DivNat
  <2> QED
    BY <2>3, <2>4
<1>4. \A b \in BitmapBlocks :
        b \notin RegionBlocks(KernelRegion) \union RegionBlocks(LowRegion)
  <2>1. (KernelStart + length) \div d \in Int
    BY <1>1, DivNat
  <2> QED
    BY <1>2, <1>3, <2>1
<1> QED
  BY <1>4 DEF Init

-----------------------------------------------------------------------------
(* The bitmap allocator implements the abstract pool of frames.            *)
LEMMA InitPool == Init => Pool!Init
  BY DEF Init, Pool!Init

LEMMA NextPool == IInv /\ [Next]_vars => [Pool!Next]_(Pool!vars)
<1> SUFFICES ASSUME IInv, [Next]_vars PROVE [Pool!Next]_(Pool!vars)
  OBVIOUS
<1>1. ASSUME NEW entry \in mmap, InitRegion(entry) PROVE Pool!Withdraw
  BY <1>1 DEF InitRegion, IInv, BootBeforeGet, Pool!Withdraw
<1>2. ASSUME NEW b \in BitmapBits, Get(b) PROVE Pool!Get(b)
  BY <1>2 DEF Get, IsFirstFree, Pool!Get
<1>3. ASSUME GetNull PROVE Pool!GetFails
  BY <1>3, ZeroMeansFull DEF GetNull, Pool!GetFails, Pool!vars
<1>4. ASSUME NEW b \in held, Free(b) PROVE b \in BitmapBits /\ Pool!Free(b)
  BY <1>4 DEF Free, IInv, TypeOK, Pool!Free
<1>5. CASE UNCHANGED vars
  BY <1>5 DEF vars, Pool!vars
<1> QED
  BY <1>1, <1>2, <1>3, <1>4, <1>5 DEF Next, Pool!Next

(* Exclusive ownership is what the callers of the allocator rely on: every *)
(* behaviour of the bitmap is one of the pool in FramePool.                *)
THEOREM ImplementsPool == Spec => PoolSpec
<1>1. Init => Pool!Init
  BY InitPool
<1>2. IInv /\ [Next]_vars => [Pool!Next]_(Pool!vars)
  BY NextPool
<1> QED
  BY <1>1, <1>2, Inductive, PTL DEF Spec, PoolSpec, Pool!Spec
=============================================================================
