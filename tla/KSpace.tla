------------------------------- MODULE KSpace -------------------------------
(***************************************************************************)
(* The kernel heap's address space, kernel/kernel/memory/kmemory.c:        *)
(* kspace_initialize, kspace_sbrk and kspace_brk, with the page table      *)
(* entries vmmngr_map_page (arch/i386/memory/memory_virt.c) makes for      *)
(* them.  Blocks come from the pool of FramePool, which the allocator of   *)
(* Balloc implements; it may run out at any call.                          *)
(*                                                                         *)
(* The heap has one caller at a time (morecore, in kalloc.c), and no       *)
(* interrupt handler touches it, so only the order of the steps inside one *)
(* call matters.                                                           *)
(***************************************************************************)
EXTENDS Integers, FiniteSets

CONSTANTS
  KERNEL_PAGE_SIZE,   \* bytes of a page (4096)
  KHEAP_PAGE_START,   \* address of the first heap page (0xd0000000)
  KHEAP_PAGE_MAX,     \* address the break may not pass (0xeffff000)
  AddressSpace,       \* values of a uint32_t (2^32)
  EntriesPerTable,    \* entries of a page table (1024)
  Frame,              \* physical blocks the allocator may have left
  Null,               \* what balloc_get returns when it has none: block 0
  Increments,         \* the sizes callers pass to kspace_sbrk
  Leftovers           \* sets of entries a new page table may show present

(* Leftovers: vmmngr_map_page clears a new table with memset.  Compiled    *)
(* inline (gcc -O2) that clears all of it: {{}}.  The library's memset     *)
(* stores only the first byte, so whatever the block held may show through.*)

ASSUME PageAssumption ==
  /\ KERNEL_PAGE_SIZE \in Nat \ {0}
  /\ EntriesPerTable \in Nat \ {0}
  /\ KHEAP_PAGE_START \in Nat /\ KHEAP_PAGE_START % KERNEL_PAGE_SIZE = 0
  /\ KHEAP_PAGE_MAX \in Nat /\ KHEAP_PAGE_START <= KHEAP_PAGE_MAX
  /\ AddressSpace \in Nat /\ KHEAP_PAGE_MAX + KERNEL_PAGE_SIZE <= AddressSpace

ASSUME HeapAssumption ==
  /\ Null \notin Frame
  /\ {"absent", "leftover"} \intersect (Frame \union {Null}) = {}
  /\ Increments \subseteq 0 .. AddressSpace - 1
  /\ Leftovers \subseteq SUBSET (0 .. EntriesPerTable - 1)

VARIABLES
  kernel_break,     \* end of the heap
  kheap_last_page,  \* address of the last page that was given a block
  pdir,             \* page directory: table number -> block of the table
  tables,           \* memory: block -> entries, for blocks that are tables
  avail, held,      \* the pool of physical blocks
  call,             \* the call in progress
  latest,           \* history: bytes the last kspace_sbrk returned
  granted,          \* history: bytes the earlier ones returned
  failures          \* history: how calls have gone wrong

pool == <<avail, held>>
vars == <<kernel_break, kheap_last_page, pdir, tables, avail, held, call,
          latest, granted, failures>>

Pool == INSTANCE FramePool

Absent == "absent"          \* an entry with the present bit clear
Leftover == "leftover"      \* a present entry nobody wrote

-----------------------------------------------------------------------------
PageOf(address) == address - (address % KERNEL_PAGE_SIZE)   \* bp &~ 0xfff
PageNumber(address) == address \div KERNEL_PAGE_SIZE

(* i386_virtual_to_pgidx.                                                  *)
TableOf(address) == PageNumber(address) \div EntriesPerTable
EntryOf(address) == PageNumber(address) % EntriesPerTable

(* A call record: where the code is, the break asked for, the blocks still *)
(* to get, the block in hand, and the size the caller asked for.           *)
Call(at, bp, left, block, size) ==
  [at |-> at, bp |-> bp, left |-> left, block |-> block, size |-> size]
At(at) == Call(at, 0, 0, Null, 0)
Idle == At("idle")

(* Bytes from `first' on, in 32-bit address arithmetic.                    *)
Bytes(first, size) == {(first + k) % AddressSpace : k \in 0 .. size - 1}

(* kspace_sbrk returns: the old break, or -1.                              *)
Return(bytes) ==
  /\ call' = Idle
  /\ latest' = bytes
  /\ granted' = granted \union latest

Fail(why) ==
  /\ Return({})
  /\ failures' = failures \union {why}

-----------------------------------------------------------------------------
(* vmmngr_map_page (block, page), in the three cases of the code.          *)
MapInTable(page, block) ==
  LET t == pdir[TableOf(page)]
  IN /\ t # Absent
     /\ tables[t][EntryOf(page)] = Absent
     /\ tables' = [tables EXCEPT ![t][EntryOf(page)] = block]
     /\ UNCHANGED <<pdir, pool>>

AlreadyMapped(page) ==
  /\ pdir[TableOf(page)] # Absent
  /\ tables[pdir[TableOf(page)]][EntryOf(page)] # Absent

(* A new page table, in a block whose balloc_get is not checked: with none *)
(* left the table goes to physical block 0.                                *)
MapInNewTable(page, block) ==
  /\ pdir[TableOf(page)] = Absent
  /\ \E t \in avail \union {Null}, stale \in Leftovers :
       /\ IF t = Null THEN Pool!GetFails ELSE Pool!Get(t)
       /\ pdir' = [pdir EXCEPT ![TableOf(page)] = t]
       /\ tables' = [tables EXCEPT ![t] =
             [e \in 0 .. EntriesPerTable - 1 |->
                IF e = EntryOf(page) THEN block
                ELSE IF e \in stale THEN Leftover ELSE Absent]]

MapPage(page, block) ==
  MapInTable(page, block) \/ MapInNewTable(page, block)

-----------------------------------------------------------------------------
Init ==
  /\ Pool!Init
  /\ kernel_break = 0                \* the end of the kernel image
  /\ kheap_last_page = KHEAP_PAGE_START - KERNEL_PAGE_SIZE
  /\ pdir = [t \in 0 .. TableOf(AddressSpace - 1) |-> Absent]
  /\ tables = [f \in Frame \union {Null} |->
                 [e \in 0 .. EntriesPerTable - 1 |-> Absent]]
  /\ call = At("boot")
  /\ latest = {} /\ granted = {} /\ failures = {}

(* kspace_initialize: the first page of the heap, or kernel_panic.         *)
BootGet(block) ==
  /\ call.at = "boot"
  /\ Pool!Get(block)
  /\ call' = Call("bootmap", 0, 0, block, 0)
  /\ UNCHANGED <<kernel_break, kheap_last_page, pdir, tables, latest, granted,
                 failures>>

BootPanic ==
  /\ call.at = "boot"
  /\ Pool!GetFails
  /\ call' = At("panic")
  /\ UNCHANGED <<kernel_break, kheap_last_page, pdir, tables, latest, granted,
                 failures>>

BootMap ==
  /\ call.at = "bootmap"
  /\ MapPage(KHEAP_PAGE_START, call.block)
  /\ kernel_break' = KHEAP_PAGE_START
  /\ kheap_last_page' = KHEAP_PAGE_START
  /\ call' = Idle
  /\ UNCHANGED <<latest, granted, failures>>

(* kernel_panic stops the machine.                                         *)
Halted == call.at = "panic" /\ UNCHANGED vars

-----------------------------------------------------------------------------
(* The call kspace_sbrk (increment): bp is the new break, computed in 32   *)
(* bits.  Requests past the end of the heap's addresses are refused.       *)
NewBreak(increment) == (kernel_break + increment) % AddressSpace

(* Mutant: counted from the break, not from the last page.                 *)
BlocksNeededFromBreak(bp) == (bp - kernel_break) \div KERNEL_PAGE_SIZE

BlocksNeeded(bp) == (PageOf(bp) - kheap_last_page) \div KERNEL_PAGE_SIZE

SbrkRefused(increment) ==
  /\ call = Idle
  /\ NewBreak(increment) > KHEAP_PAGE_MAX
  /\ Fail("range")
  /\ UNCHANGED <<kernel_break, kheap_last_page, pdir, tables, pool>>

(* An increment that wraps is not told from one that needs no page.        *)
Wrapped(increment) ==
  IF kernel_break + increment >= AddressSpace THEN {"wrap"} ELSE {}

(* Mutant: the break stays where it was.                                   *)
SbrkInsideKeepsBreak(increment) ==
  LET bp == NewBreak(increment)
  IN /\ call = Idle
     /\ bp <= KHEAP_PAGE_MAX
     /\ PageOf(bp) <= kheap_last_page
     /\ Return(Bytes(kernel_break, increment))
     /\ failures' = failures \union Wrapped(increment)
     /\ UNCHANGED <<kernel_break, kheap_last_page, pdir, tables, pool>>

(* The new break is in the last page the heap has, or in front of it, in   *)
(* which case kspace_brk changes nothing and still returns 0.              *)
SbrkInside(increment) ==
  LET bp == NewBreak(increment)
  IN /\ call = Idle
     /\ bp <= KHEAP_PAGE_MAX
     /\ PageOf(bp) <= kheap_last_page
     /\ kernel_break' = IF PageOf(bp) = kheap_last_page THEN bp ELSE kernel_break
     /\ Return(Bytes(kernel_break, increment))
     /\ failures' = failures \union Wrapped(increment)
     /\ UNCHANGED <<kheap_last_page, pdir, tables, pool>>

(* Mutant: the end of the heap's addresses is not checked.                 *)
SbrkGrowUnchecked(increment) ==
  LET bp == NewBreak(increment)
  IN /\ call = Idle
     /\ PageOf(bp) > kheap_last_page
     /\ call' = Call("get", bp, BlocksNeeded(bp), Null, increment)
     /\ UNCHANGED <<kernel_break, kheap_last_page, pdir, tables, pool, latest,
                    granted, failures>>

SbrkGrow(increment) ==
  LET bp == NewBreak(increment)
  IN /\ call = Idle
     /\ bp <= KHEAP_PAGE_MAX
     /\ PageOf(bp) > kheap_last_page
     /\ call' = Call("get", bp, BlocksNeeded(bp), Null, increment)
     /\ UNCHANGED <<kernel_break, kheap_last_page, pdir, tables, pool, latest,
                    granted, failures>>

(* One turn of the loop of kspace_brk: balloc_get, which moves             *)
(* kheap_last_page if it finds a block ...                                 *)
GetBlock(block) ==
  /\ call.at = "get" /\ call.left > 0
  /\ Pool!Get(block)
  /\ kheap_last_page' = kheap_last_page + KERNEL_PAGE_SIZE
  /\ call' = [call EXCEPT !.at = "map", !.block = block]
  /\ UNCHANGED <<kernel_break, pdir, tables, latest, granted, failures>>

(* Mutant: the break is moved before the pages are there.                  *)
NoBlockMovesBreak ==
  /\ call.at = "get" /\ call.left > 0
  /\ Pool!GetFails
  /\ Fail(IF kheap_last_page = PageOf(kernel_break) THEN "memory" ELSE "partial")
  /\ kernel_break' = call.bp
  /\ UNCHANGED <<kheap_last_page, pdir, tables>>

(* "partial": earlier turns of this call, or of one that failed before it, *)
(* have moved kheap_last_page ahead of the break.                          *)
NoBlock ==
  /\ call.at = "get" /\ call.left > 0
  /\ Pool!GetFails
  /\ Fail(IF kheap_last_page = PageOf(kernel_break) THEN "memory" ELSE "partial")
  /\ UNCHANGED <<kernel_break, kheap_last_page, pdir, tables>>

(* ... and vmmngr_map_page, whose failure gives the block back.            *)
MapBlock ==
  /\ call.at = "map"
  /\ MapPage(kheap_last_page, call.block)
  /\ call' = Call("get", call.bp, call.left - 1, Null, call.size)
  /\ UNCHANGED <<kernel_break, kheap_last_page, latest, granted, failures>>

(* Mutant: the block is not given back.                                    *)
MapFailsLeak ==
  /\ call.at = "map"
  /\ AlreadyMapped(kheap_last_page)
  /\ Fail("mapping")
  /\ UNCHANGED <<kernel_break, kheap_last_page, pdir, tables, pool>>

MapFails ==
  /\ call.at = "map"
  /\ AlreadyMapped(kheap_last_page)
  /\ Pool!Free(call.block)
  /\ Fail("mapping")
  /\ UNCHANGED <<kernel_break, kheap_last_page, pdir, tables>>

(* The loop is over: move the break and return the old one.                *)
Grown ==
  /\ call.at = "get" /\ call.left = 0
  /\ kernel_break' = call.bp
  /\ Return(Bytes(kernel_break, call.size))
  /\ UNCHANGED <<kheap_last_page, pdir, tables, pool, failures>>

Next ==
  \/ \E block \in Frame : BootGet(block) \/ GetBlock(block)
  \/ BootPanic \/ BootMap \/ Halted
  \/ \E increment \in Increments :
        SbrkRefused(increment) \/ SbrkInside(increment) \/ SbrkGrow(increment)
  \/ NoBlock \/ MapBlock \/ MapFails \/ Grown

Spec == Init /\ [][Next]_vars

-----------------------------------------------------------------------------
Entry == Frame \union {Absent, Leftover}

TypeOK ==
  /\ kernel_break \in 0 .. KHEAP_PAGE_MAX
  /\ kheap_last_page + KERNEL_PAGE_SIZE \in 0 .. AddressSpace
  /\ pdir \in [0 .. TableOf(AddressSpace - 1) -> Frame \union {Null, Absent}]
  /\ tables \in [Frame \union {Null} -> [0 .. EntriesPerTable - 1 -> Entry]]
  /\ avail \subseteq Frame /\ held \subseteq Frame
  /\ call.at \in {"boot", "bootmap", "panic", "idle", "get", "map"}
  /\ call.bp \in 0 .. KHEAP_PAGE_MAX
  /\ call.left \in 0 .. AddressSpace
  /\ call.block \in Frame \union {Null}
  /\ call.size \in Increments \union {0}
  /\ latest \union granted \subseteq 0 .. AddressSpace - 1
  /\ failures \subseteq {"range", "memory", "partial", "mapping", "wrap"}

(* What a page of the address space shows: a block, or nothing.            *)
Translate(page) == IF pdir[TableOf(page)] = Absent THEN Absent
                   ELSE tables[pdir[TableOf(page)]][EntryOf(page)]

HeapPages == {page \in KHEAP_PAGE_START .. kheap_last_page :
                page % KERNEL_PAGE_SIZE = 0}

TablesInUse == {pdir[t] : t \in DOMAIN pdir} \ {Absent}

(* No page table had to be put into block 0 for want of a block.           *)
TablesAllocated == Null \notin TablesInUse

(* No call has failed in its middle, and no increment has wrapped.         *)
Whole == failures \subseteq {"range", "memory"}

(* kspace_sbrk never returns memory it has returned before, as long as no  *)
(* call has failed with some of its pages mapped and no increment has      *)
(* wrapped: however the sizes mix growth inside the last page, growth by   *)
(* several pages, requests that are refused and requests that find no      *)
(* block.                                                                  *)
FreshMemory ==
  Whole => latest \intersect granted = {}

(* Every byte kspace_sbrk has returned is backed by a block of its own:    *)
(* its page is mapped, and to a block the heap holds and uses nowhere else,*)
(* not for another page and not for a page table.  Running out of blocks   *)
(* in the middle of a call does not break this; a page that was mapped     *)
(* already (a table with leftovers), a page table in block 0 and an        *)
(* increment that wraps do.                                                *)
GrantedBacked ==
  TablesAllocated /\ failures \intersect {"mapping", "wrap"} = {} =>
    \A byte \in latest \union granted :
       LET page == PageOf(byte) IN
       /\ Translate(page) \in held \ TablesInUse
       /\ \A other \in HeapPages \ {page} : Translate(other) # Translate(page)

(* No block is lost, whichever call fails at whichever step: the blocks    *)
(* taken from the allocator are the heap's pages, its page tables and the  *)
(* block in the hand of the call in progress.                              *)
BlocksAccounted ==
  TablesAllocated =>
    held = (TablesInUse \union {call.block}
            \union {Translate(page) : page \in HeapPages})
           \ {Null, Absent, Leftover}

-----------------------------------------------------------------------------
(* What the heap allocator relies on.  Before kspace_initialize the break  *)
(* is at the end of the kernel, and nobody calls.                          *)
Break == INSTANCE HeapBreak WITH
           Start <- KHEAP_PAGE_START, Limit <- KHEAP_PAGE_MAX, Sizes <- Increments,
           brk <- IF call.at \in {"boot", "bootmap", "panic"} THEN KHEAP_PAGE_START
                  ELSE kernel_break,
           memory <- latest \union granted

(* What kspace_sbrk does is what the heap allocator relies on: it moves    *)
(* the break by what was asked for and returns the memory it has passed,   *)
(* or it changes nothing - whether it finds room in the last page, takes   *)
(* several blocks, a page table too, or finds no block, and whether a page *)
(* table had to be put into block 0.  Up to the first call that fails with *)
(* some of its pages mapped (after which the break does not move for a     *)
(* request that finds them), or that wraps.                                *)
BreakKept == Break!Init /\ [][Break!Next \/ ~Whole']_(Break!vars)

(* No request needs more than one new page, the largest break and a page   *)
(* do not wrap, and page tables are cleared.                               *)
PageRequests ==
  /\ Increments \subseteq 0 .. KERNEL_PAGE_SIZE
  /\ KHEAP_PAGE_MAX + KERNEL_PAGE_SIZE < AddressSpace
  /\ Leftovers \subseteq {{}}

(* With PageRequests no call ever fails in its middle or wraps, and so     *)
(* kspace_sbrk implements the heap break: a call that finds no block for   *)
(* its page, or for the table of that page, changes nothing.               *)
BreakSpec == Break!Spec
=============================================================================
