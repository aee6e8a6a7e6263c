------------------------------- MODULE KAlloc -------------------------------
(***************************************************************************)
(* The kernel heap allocator, kernel/kernel/memory/kalloc.c: kernel_alloc, *)
(* kernel_free and morecore on a circular list of free blocks, each headed *)
(* by its `next' and its size.                                             *)
(*                                                                         *)
(* The unit of addresses and sizes is the 4-byte word, so a header takes 2 *)
(* cells of memory and headers that overlap share cells, as in the code    *)
(* for requests of whole words.  kspace_sbrk is that of HeapBreak, which   *)
(* KSpace implements for requests of at most a page.                       *)
(***************************************************************************)
EXTENDS Integers, FiniteSets

CONSTANTS
  SCALE,             \* sizeof(m_header), by which C scales header pointers (8)
  MIN_REQUEST_SIZE,  \* what morecore asks for at least (1024 bytes)
  AddressSpace,      \* words in the address space (2^30)
  Base,              \* address of the header `base', below the heap
  HeapStart,         \* first word of the heap
  HeapEnd,           \* bound: the heap never grows past this
  Requests,          \* the sizes callers ask kernel_alloc for
  FollowDamage       \* bound: are calls made once the list is damaged?

HEADER == 2          \* words of an m_header

ASSUME HeapAssumption ==
  /\ SCALE \in Nat \ {0}
  /\ MIN_REQUEST_SIZE \in Nat /\ MIN_REQUEST_SIZE >= HEADER
  /\ Base \in Nat \ {0} /\ HeapStart \in Nat /\ HeapEnd \in Nat
  /\ Base + HEADER <= HeapStart /\ HeapStart <= HeapEnd
  /\ AddressSpace \in Nat /\ HeapEnd < AddressSpace
  /\ Requests \subseteq 0 .. AddressSpace - 1
  /\ FollowDamage \in BOOLEAN

VARIABLES
  mem,        \* the words of base and of the heap
  free_hdr,   \* where the next search starts
  kernel_break, \* end of the heap
  pc,         \* "idle", "search" (kernel_alloc), "place" (kernel_free), "fault"
  nbytes,     \* the argument of the kernel_alloc in progress, or None
  prev_hdr, hdr, blk,  \* its variables, and those of kernel_free
  live,       \* history: blocks the callers hold
  broken      \* history: what has gone wrong with the list

walk == <<nbytes, prev_hdr, hdr, blk>>
vars == <<mem, free_hdr, kernel_break, pc, walk, live, broken>>

NULL == 0
None == -1

-----------------------------------------------------------------------------
Header(first) == first .. first + HEADER - 1
Link(m, h) == m[h]
Size(m, h) == m[h + 1]

(* A header the code can use, and one it can use only if the words behind  *)
(* the heap happen to be mapped: either it does, or there is a page fault. *)
Readable(h) == Header(h) \subseteq DOMAIN mem
Mapped(h) == h = Base \/ Header(h) \subseteq HeapStart .. kernel_break - 1

(* hdr + n, in C.                                                          *)
Advance(h, n) == (h + SCALE * n) % AddressSpace

(* Mutant: the header is not counted.                                      *)
AllocSizeWithoutHeader(n) == n

(* alloc_sz.                                                               *)
AllocSize(n) == (n + HEADER) % AddressSpace

(* What morecore asks kspace_sbrk for.                                     *)
Growth(n) == LET nu == (n + HEADER) % AddressSpace
             IN IF nu < MIN_REQUEST_SIZE THEN MIN_REQUEST_SIZE ELSE nu

(* kspace_sbrk.                                                            *)
Break == INSTANCE HeapBreak WITH
           Start <- HeapStart, Limit <- HeapEnd,
           Sizes <- {Growth(AllocSize(n)) : n \in Requests},
           brk <- kernel_break, memory <- HeapStart .. kernel_break - 1

Fits(h) == Size(mem, h) >= AllocSize(nbytes)

(* The variables of a call end with it.                                    *)
Returns == /\ pc' = "idle"
           /\ nbytes' = None
           /\ prev_hdr' = NULL /\ hdr' = NULL /\ blk' = NULL

(* kernel_alloc returns the block whose header is at h.                    *)
Granted(h) == /\ live' = live \union {[at |-> h, words |-> nbytes]}
              /\ free_hdr' = prev_hdr
              /\ Returns
              /\ UNCHANGED kernel_break

(* The list has never been damaged: no split has left less than a header,  *)
(* no two free blocks were merged that do not touch, no size has wrapped.  *)
Intact == broken = {}

CallsMade == pc = "idle" /\ (Intact \/ FollowDamage)

Init ==
  /\ mem = [a \in Header(Base) \union (HeapStart .. HeapEnd - 1) |-> 0]
  /\ free_hdr = NULL
  /\ kernel_break = HeapStart
  /\ pc = "idle"
  /\ nbytes = None /\ prev_hdr = NULL /\ hdr = NULL /\ blk = NULL
  /\ live = {} /\ broken = {}

-----------------------------------------------------------------------------
(* A call of kernel_alloc: the first one makes base the list.              *)
Alloc(n) ==
  /\ CallsMade
  /\ IF free_hdr = NULL
     THEN /\ mem' = [mem EXCEPT ![Base] = Base, ![Base + 1] = 0]
          /\ free_hdr' = Base /\ prev_hdr' = Base /\ hdr' = Base
     ELSE /\ prev_hdr' = free_hdr /\ hdr' = Link(mem, free_hdr)
          /\ UNCHANGED <<mem, free_hdr>>
  /\ pc' = "search"
  /\ nbytes' = n
  /\ broken' = IF n + HEADER >= AddressSpace THEN broken \union {"wrap"}
               ELSE broken
  /\ UNCHANGED <<kernel_break, blk, live>>

(* One turn of its loop: the block has the exact size ...                  *)
TakeExact ==
  /\ pc = "search" /\ Readable(hdr)
  /\ Size(mem, hdr) = AllocSize(nbytes)
  /\ mem' = [mem EXCEPT ![prev_hdr] = Link(mem, hdr)]
  /\ Granted(hdr)
  /\ UNCHANGED broken

(* Mutant: a block that is too small is split as well.                     *)
SplitTooSmall ==
  LET rest == Size(mem, hdr) - AllocSize(nbytes)
      tail == hdr + rest
  IN /\ pc = "search" /\ Readable(hdr)
     /\ rest # 0 /\ Readable(tail)
     /\ mem' = [mem EXCEPT ![hdr + 1] = rest, ![tail + 1] = AllocSize(nbytes)]
     /\ broken' = IF rest < HEADER THEN broken \union {"sliver"} ELSE broken
     /\ Granted(tail)

(* ... or is larger, and its tail is split off ...                         *)
Split ==
  LET rest == Size(mem, hdr) - AllocSize(nbytes)
      tail == hdr + rest
  IN /\ pc = "search" /\ Readable(hdr)
     /\ rest > 0 /\ Readable(tail)
     /\ mem' = [mem EXCEPT ![hdr + 1] = rest, ![tail + 1] = AllocSize(nbytes)]
     /\ broken' = IF rest < HEADER THEN broken \union {"sliver"} ELSE broken
     /\ Granted(tail)

(* ... or is too small, and the list goes on ...                           *)
Skip ==
  /\ pc = "search" /\ Readable(hdr)
  /\ ~Fits(hdr) /\ hdr # free_hdr
  /\ prev_hdr' = hdr
  /\ hdr' = Link(mem, hdr)
  /\ UNCHANGED <<mem, free_hdr, kernel_break, pc, nbytes, blk, live, broken>>

(* ... or has wrapped around, and morecore gets a new block, which it      *)
(* passes to kernel_free ...                                               *)
MoreCore ==
  LET nu == Growth(AllocSize(nbytes))
  IN /\ pc = "search" /\ Readable(hdr)
     /\ ~Fits(hdr) /\ hdr = free_hdr
     /\ Break!Sbrk(nu)
     /\ mem' = [mem EXCEPT ![kernel_break + 1] = nu]
     /\ blk' = kernel_break
     /\ pc' = "place"
     /\ UNCHANGED <<free_hdr, nbytes, prev_hdr, hdr, live, broken>>

(* ... unless kspace_sbrk fails, for want of addresses or of blocks.       *)
NoCore ==
  /\ pc = "search" /\ Readable(hdr)
  /\ ~Fits(hdr) /\ hdr = free_hdr
  /\ Returns
  /\ UNCHANGED <<mem, free_hdr, kernel_break, live, broken>>

-----------------------------------------------------------------------------
(* A call of kernel_free with a block its caller holds.                    *)
Free(b) ==
  /\ CallsMade
  /\ b \in live
  /\ live' = live \ {b}
  /\ blk' = b.at
  /\ hdr' = free_hdr
  /\ pc' = "place"
  /\ UNCHANGED <<mem, free_hdr, kernel_break, nbytes, prev_hdr, broken>>

(* Mutant: the end of the list is not looked for.                          *)
FoundInside ==
  blk > hdr /\ blk < Link(mem, hdr)

(* Mutant: the first place is taken.                                       *)
FoundAnywhere == TRUE

(* The block belongs behind hdr: between it and its successor, or at the   *)
(* end of the list where the addresses wrap around.                        *)
Found ==
  LET next == Link(mem, hdr)
  IN \/ blk > hdr /\ blk < next
     \/ hdr >= next /\ (blk > hdr \/ blk < next)

Walk ==
  /\ pc = "place" /\ Readable(hdr)
  /\ ~Found
  /\ hdr' = Link(mem, hdr)
  /\ UNCHANGED <<mem, free_hdr, kernel_break, pc, nbytes, prev_hdr, blk, live,
                 broken>>

(* The list without and with the block, merged with the successor ...      *)
JoinNext(m) ==
  LET next == Link(m, hdr)
  IN IF Advance(blk, Size(m, blk)) = next
     THEN [m EXCEPT ![blk + 1] = (Size(m, blk) + Size(m, next)) % AddressSpace,
                    ![blk] = Link(m, next)]
     ELSE [m EXCEPT ![blk] = next]

(* Mutant: the block that is not merged is not linked.                     *)
JoinPreviousDrops(m) ==
  IF Advance(hdr, Size(m, hdr)) = blk
  THEN [m EXCEPT ![hdr + 1] = (Size(m, hdr) + Size(m, blk)) % AddressSpace,
                 ![hdr] = Link(m, blk)]
  ELSE m

(* ... and with the predecessor.                                           *)
JoinPrevious(m) ==
  IF Advance(hdr, Size(m, hdr)) = blk
  THEN [m EXCEPT ![hdr + 1] = (Size(m, hdr) + Size(m, blk)) % AddressSpace,
                 ![hdr] = Link(m, blk)]
  ELSE [m EXCEPT ![hdr] = blk]

(* The rest of kernel_free.  On the way back from morecore, the search of  *)
(* kernel_alloc goes on behind the block morecore has returned.            *)
Place ==
  LET joined == JoinNext(mem)
      merges == \/ Advance(blk, Size(mem, blk)) = Link(mem, hdr)
                \/ Advance(hdr, Size(joined, hdr)) = blk
  IN /\ pc = "place" /\ Readable(hdr)
     /\ Found
     /\ Advance(blk, Size(mem, blk)) = Link(mem, hdr) => Readable(Link(mem, hdr))
     /\ mem' = JoinPrevious(joined)
     /\ free_hdr' = hdr
     /\ broken' = IF merges THEN broken \union {"merge"} ELSE broken
     /\ IF nbytes = None
        THEN Returns
        ELSE /\ pc' = "search"
             /\ prev_hdr' = blk /\ hdr' = Link(mem', blk) /\ blk' = NULL
             /\ UNCHANGED nbytes
     /\ UNCHANGED <<kernel_break, live>>

(* A header outside the heap: the page fault handler prints and halts.     *)
Fault ==
  /\ \/ pc \in {"search", "place"} /\ ~Mapped(hdr)
     \/ /\ pc = "search" /\ Readable(hdr)
        /\ Size(mem, hdr) > AllocSize(nbytes)
        /\ ~Mapped(hdr + Size(mem, hdr) - AllocSize(nbytes))
     \/ /\ pc = "place" /\ Readable(hdr) /\ Found
        /\ Advance(blk, Size(mem, blk)) = Link(mem, hdr)
        /\ ~Mapped(Link(mem, hdr))
  /\ pc' = "fault"
  /\ UNCHANGED <<mem, free_hdr, kernel_break, walk, live, broken>>

Halted == /\ pc = "fault" \/ (pc = "idle" /\ ~CallsMade)
          /\ UNCHANGED vars

-----------------------------------------------------------------------------
(* The steps of a call in progress.                                        *)
Step == TakeExact \/ Split \/ Skip \/ MoreCore \/ NoCore \/ Walk \/ Place \/ Fault

Next == \/ \E n \in Requests : Alloc(n)
        \/ \E b \in live : Free(b)
        \/ Step
        \/ Halted

(* A call in progress runs on; nobody has to call.                         *)
Spec == Init /\ [][Next]_vars /\ WF_vars(Step)

-----------------------------------------------------------------------------
TypeOK ==
  /\ mem \in [Header(Base) \union (HeapStart .. HeapEnd - 1) -> 0 .. AddressSpace - 1]
  /\ free_hdr \in 0 .. AddressSpace - 1
  /\ kernel_break \in HeapStart .. HeapEnd
  /\ pc \in {"idle", "search", "place", "fault"}
  /\ nbytes \in Requests \union {None}
  /\ {prev_hdr, hdr, blk} \subseteq 0 .. AddressSpace - 1
  /\ live \subseteq [at : 0 .. AddressSpace - 1, words : Requests]
  /\ broken \subseteq {"wrap", "sliver", "merge"}

(* The headers that lead from base round the list that m holds: headers    *)
(* that follow each other in the heap are fewer than its words.            *)
Round(m) ==
  LET step[k \in 0 .. HeapEnd - HeapStart] ==
        IF k = 0 THEN Base ELSE Link(m, step[k - 1])
  IN {step[k] : k \in 0 .. HeapEnd - HeapStart}

OnList == IF free_hdr = NULL THEN {} ELSE Round(mem)

Block(of, at, size) == [of |-> of, at |-> at, size |-> size]
Extent(b) == b.at .. b.at + b.size - 1

(* Free blocks, the one on its way into the list, and what callers hold.   *)
Blocks ==
  {Block("list", h, Size(mem, h)) : h \in OnList \ {Base}}
  \union {Block("free", h, Size(mem, h)) : h \in IF pc = "place" THEN {blk} ELSE {}}
  \union {Block("caller", b.at, b.words + HEADER) : b \in live}

(* What callers hold, their headers included, never overlaps what another  *)
(* caller holds or what the list calls free, in any order of allocations,  *)
(* frees and growth, as long as the list is intact.                        *)
BlocksDisjoint ==
  Intact => \A a, b \in Blocks : a # b => Extent(a) \intersect Extent(b) = {}

(* Nothing is lost either: all the heap's memory is on the list or with a  *)
(* caller, after allocations that failed too.                              *)
MemoryAccounted ==
  Intact => UNION {Extent(b) : b \in Blocks} = HeapStart .. kernel_break - 1

(* The list is a single circle in the order of addresses through base and  *)
(* the place where searches start, and a search stands on it.              *)
ListCircular ==
  Intact /\ free_hdr # NULL =>
    /\ \A h \in OnList : Link(mem, h) = Base \/ Link(mem, h) > h
    /\ free_hdr \in OnList
    /\ pc = "search" => prev_hdr \in OnList /\ hdr = Link(mem, prev_hdr)

(* Every call returns: the searches of kernel_alloc and kernel_free end,   *)
(* although the former starts again behind each block it adds.             *)
CallsReturn == pc \in {"search", "place"} ~> (pc = "idle" \/ ~Intact)

-----------------------------------------------------------------------------
(* What the comments of the code say, where the code does otherwise.       *)

(* "Allocate nbytes bytes from the kernel heap": no two callers share any. *)
NoSharing ==
  \A a, b \in live :
     a # b => Extent(Block("caller", a.at, a.words + HEADER))
              \intersect Extent(Block("caller", b.at, b.words + HEADER)) = {}
=============================================================================
