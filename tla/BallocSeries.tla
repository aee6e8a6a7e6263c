---------------------------- MODULE BallocSeries ----------------------------
(***************************************************************************)
(* The rest of the interface of kernel/kernel/memory/balloc.c, which       *)
(* include/balloc.h exports and the kernel does not call yet:              *)
(* balloc_get_n, balloc_free_n and balloc_deinit_region, next to the calls *)
(* of Balloc.                                                              *)
(*                                                                         *)
(* The bitmap macros do not put their argument in parentheses:             *)
(* memory_bitmap_set(blk+i) reads blk+i/32 and blk+i%32, so the bit it     *)
(* sets is not bit blk+i (SpacedBit below).                                *)
(***************************************************************************)
EXTENDS Balloc

CONSTANT Requests     \* the n callers ask balloc_get_n for

VARIABLE series       \* history: <<first block, n>> handed out and not freed

seriesVars == <<vars, series>>

(* The bit that the macros reach for the argument x+y.  The shift count is *)
(* taken modulo the width of a word, as the i386 does.                     *)
SpacedBit(x, y) == BLOCKS_PER_UNIT * (x + (y \div BLOCKS_PER_UNIT))
                   + ((x + (y % BLOCKS_PER_UNIT)) % BLOCKS_PER_UNIT)

Series(b, n) == b .. b + n - 1

(* What the inner loop of block_alloc_first_free_n probes for clear bit b: *)
(* it adds `bit', the mask 1 << j, where the bit number j was meant.       *)
ProbeStart(b) == BLOCKS_PER_UNIT * (b \div BLOCKS_PER_UNIT)
                 + 2 ^ (b % BLOCKS_PER_UNIT)

Accepted(b, n) ==
  Cardinality({c \in 0 .. n : SpacedBit(ProbeStart(b), c) \notin m_bmp}) >= n

(* block_alloc_first_free_n.                                               *)
IsFirstFreeN(b, n) ==
  LET candidates == {c \in BitmapBits \ m_bmp : Accepted(c, n)}
  IN CASE n = 0 -> b = 0
       [] n = 1 -> IsFirstFree(b)
       [] OTHER -> \/ b \in candidates /\ \A c \in candidates : b <= c
                   \/ b = 0 /\ candidates = {}

GetN(b, n) ==
  /\ Booted
  /\ IsFirstFreeN(b, n)
  /\ b # 0
  /\ m_bmp' = m_bmp \union {SpacedBit(b, i) : i \in 0 .. n - 1}
  /\ free_blocks' = Wrap(free_blocks - n)
  /\ held' = held \union Series(b, n)
  /\ series' = series \union {<<b, n>>}
  /\ returned' = b
  /\ UNCHANGED <<mmap, reserved, junk>>

GetNNull(n) ==
  /\ Booted
  /\ IsFirstFreeN(0, n)
  /\ returned' = 0
  /\ UNCHANGED <<m_bmp, free_blocks, mmap, held, reserved, junk, series>>

(* balloc_free_n of a series its caller was given: one balloc_free a block.*)
FreeN(s) ==
  /\ Booted
  /\ s \in series
  /\ series' = series \ {s}
  /\ m_bmp' = m_bmp \ Series(s[1], s[2])
  /\ free_blocks' = Wrap(free_blocks + s[2])
  /\ held' = held \ Series(s[1], s[2])
  /\ returned' = NoResult
  /\ UNCHANGED <<mmap, reserved, junk>>

(* balloc_deinit_region of a region that was reserved.                     *)
DeinitRegion(r) ==
  /\ Booted
  /\ r \in reserved
  /\ m_bmp' = m_bmp \ RegionBlocks(r)
  /\ free_blocks' = Wrap(free_blocks + Cardinality(RegionBlocks(r) \intersect m_bmp))
  /\ reserved' = reserved \ {r}
  /\ returned' = NoResult
  /\ UNCHANGED <<mmap, held, junk, series>>

SeriesInit == Init /\ series = {}

(* A caller frees a block with the call that matches the one that gave it. *)
SeriesNext ==
  \/ \E n \in Requests : (\E b \in BitmapBits : GetN(b, n)) \/ GetNNull(n)
  \/ \E s \in series : FreeN(s)
  \/ \E r \in reserved : DeinitRegion(r)
  \/ /\ \/ \E entry \in mmap : InitRegion(entry)
        \/ \E b \in BitmapBits : Get(b)
        \/ GetNull
        \/ \E b \in held \ UNION {Series(s[1], s[2]) : s \in series} : Free(b)
     /\ UNCHANGED series

SeriesSpec == SeriesInit /\ [][SeriesNext]_seriesVars

-----------------------------------------------------------------------------
(* What the comment of balloc_get_n says of it: "Allocate a series of      *)
(* memory blocks".  None of the n blocks it returns is with a caller.      *)
SeriesTakesFreeBlocks ==
  [][\A b \in BitmapBits, n \in Requests :
        GetN(b, n) => Series(b, n) \intersect held = {}]_seriesVars
=============================================================================
