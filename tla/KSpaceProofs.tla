---------------------------- MODULE KSpaceProofs ----------------------------
(***************************************************************************)
(* Theorems about KSpace for every page size, every region of addresses    *)
(* for the heap, every supply of physical blocks and all sizes of requests.*)
(***************************************************************************)
EXTENDS KSpace, TLAPS

-----------------------------------------------------------------------------
(* Facts about division by any positive number.                            *)

(* Quotient and remainder of a number.                                     *)
LEMMA DivMod ==
  ASSUME NEW d \in Nat \ {0}, NEW x \in Int
  PROVE  /\ x \div d \in Int
         /\ x % d \in 0 .. d - 1
         /\ x = d * (x \div d) + (x % d)
  OBVIOUS

(* A number below the divisor is the remainder of what it is added to.     *)
LEMMA ModUnique ==
  ASSUME NEW d \in Nat \ {0}, NEW q \in Int, NEW r \in 0 .. d - 1
  PROVE  (d * q + r) % d = r
  OBVIOUS

(* And the factor of the divisor is the quotient.                          *)
LEMMA DivUnique ==
  ASSUME NEW d \in Nat \ {0}, NEW q \in Int, NEW r \in 0 .. d - 1
  PROVE  (d * q + r) \div d = q
  OBVIOUS

(* Division never reorders numbers.                                        *)
LEMMA DivMonotone ==
  ASSUME NEW d \in Nat \ {0}, NEW x \in Int, NEW y \in Int, x <= y
  PROVE  x \div d <= y \div d
  OBVIOUS

LEMMA DivNat ==
  ASSUME NEW d \in Nat \ {0}, NEW x \in Nat
  PROVE  x \div d \in Nat
  OBVIOUS

-----------------------------------------------------------------------------
(* The inductive invariant.                                                *)
Aligned(x) == x % KERNEL_PAGE_SIZE = 0
Pages == {page \in 0 .. AddressSpace - 1 : Aligned(page)}

Booting == call.at \in {"boot", "bootmap", "panic"}

(* The call in progress: a block in hand while it is being mapped, and as  *)
(* many blocks to get as there are pages up to the one of the new break.   *)
Calls ==
  /\ call \in [at : {"boot", "bootmap", "panic", "idle", "get", "map"},
               bp : 0 .. KHEAP_PAGE_MAX, left : 0 .. AddressSpace,
               block : Frame \union {Null}, size : Increments \union {0}]
  /\ IF call.at \in {"bootmap", "map"} THEN call.block \in Frame
                                       ELSE call.block = Null
  /\ call.at \in {"get", "map"} => call.bp = kernel_break + call.size
  /\ call.at = "get" =>
       kheap_last_page + KERNEL_PAGE_SIZE * call.left = PageOf(call.bp)
  /\ call.at = "map" =>
       /\ call.left > 0
       /\ kheap_last_page + KERNEL_PAGE_SIZE * (call.left - 1) = PageOf(call.bp)

(* The break never passes the last page.                                   *)
Breaks ==
  /\ kheap_last_page \in Int /\ Aligned(kheap_last_page)
  /\ kheap_last_page <= KHEAP_PAGE_MAX
  /\ kernel_break \in 0 .. KHEAP_PAGE_MAX
  /\ Booting => /\ kheap_last_page = KHEAP_PAGE_START - KERNEL_PAGE_SIZE
                /\ latest = {} /\ granted = {}
  /\ ~Booting => /\ KHEAP_PAGE_START <= kernel_break
                 /\ PageOf(kernel_break) <= kheap_last_page

(* Before calls go wrong it is in the last page whenever no call is in     *)
(* progress, and everything that was returned is below it.                 *)
Fresh ==
  failures \subseteq {"range", "memory"} =>
    /\ latest \intersect granted = {}
    /\ latest \union granted \subseteq 0 .. kernel_break - 1
    /\ call.at = "idle" => kheap_last_page = PageOf(kernel_break)

(* Every block that is held has one use, and every use is of a held block. *)
Owned ==
  TablesAllocated =>
    /\ avail \intersect held = {}
    /\ TablesInUse \subseteq held
    /\ \A s, t \in DOMAIN pdir : pdir[s] = pdir[t] /\ pdir[s] # Absent => s = t
    /\ call.block \in Frame => call.block \in held \ TablesInUse
    /\ \A page \in HeapPages : Translate(page) \in Frame =>
         /\ Translate(page) \in held \ (TablesInUse \union {call.block})
         /\ \A other \in HeapPages :
              Translate(other) = Translate(page) => other = page
    /\ \A block \in held :
         \/ block \in TablesInUse \union {call.block}
         \/ \E page \in HeapPages : Translate(page) = block

(* No page in front of the heap's end is mapped to a block; the last one   *)
(* is not yet while its block is in the hand.                              *)
Ahead ==
  TablesAllocated =>
    \A page \in Pages :
      page > kheap_last_page \/ (page = kheap_last_page /\ call.at = "map") =>
        Translate(page) \in {Absent, Leftover}

(* Before a call has found a page mapped or has wrapped, all other pages   *)
(* of the heap are, and what was returned lies in them.                    *)
Backed ==
  TablesAllocated /\ failures \intersect {"mapping", "wrap"} = {} =>
    /\ \A page \in HeapPages :
         page # kheap_last_page \/ call.at # "map" => Translate(page) \in Frame
    /\ \A byte \in latest \union granted :
         /\ KHEAP_PAGE_START <= byte
         /\ byte < kheap_last_page + KERNEL_PAGE_SIZE
         /\ call.at = "map" => byte < kheap_last_page

IInv == /\ TypeOK
        /\ Calls
        /\ Breaks
        /\ Fresh
        /\ Owned
        /\ Ahead
        /\ Backed

-----------------------------------------------------------------------------
(* Page arithmetic.                                                        *)
LEMMA PageOfProps ==
  ASSUME NEW x \in Int
  PROVE  /\ PageOf(x) \in Int /\ Aligned(PageOf(x))
         /\ PageOf(x) <= x /\ x < PageOf(x) + KERNEL_PAGE_SIZE
         /\ Aligned(x) => PageOf(x) = x
<1> DEFINE q == x \div KERNEL_PAGE_SIZE
           r == x % KERNEL_PAGE_SIZE
<1>1. q \in Int /\ r \in 0 .. KERNEL_PAGE_SIZE - 1 /\ x = KERNEL_PAGE_SIZE * q + r
  BY DivMod, PageAssumption
<1>2. PageOf(x) = x - r
  BY DEF PageOf
<1>3. Aligned(x) <=> r = 0
  BY DEF Aligned
<1> HIDE DEF q, r
<1>4. KERNEL_PAGE_SIZE * q \in Int
  BY <1>1, PageAssumption
<1>5. PageOf(x) = KERNEL_PAGE_SIZE * q + 0
  BY <1>1, <1>2, <1>4
<1>6. Aligned(PageOf(x))
  BY <1>1, <1>5, ModUnique, PageAssumption DEF Aligned
<1> QED
  BY <1>1, <1>2, <1>3, <1>4, <1>6, PageAssumption

LEMMA AlignedQuotient ==
  ASSUME NEW x \in Int, Aligned(x)
  PROVE  /\ x \div KERNEL_PAGE_SIZE \in Int
         /\ x = KERNEL_PAGE_SIZE * (x \div KERNEL_PAGE_SIZE)
<1>1. /\ x \div KERNEL_PAGE_SIZE \in Int
      /\ x = KERNEL_PAGE_SIZE * (x \div KERNEL_PAGE_SIZE) + (x % KERNEL_PAGE_SIZE)
  BY DivMod, PageAssumption
<1> DEFINE p == KERNEL_PAGE_SIZE * (x \div KERNEL_PAGE_SIZE)
<1>2. p \in Int
  BY <1>1, PageAssumption
<1>3. x = p + 0
  BY <1>1 DEF Aligned
<1> HIDE DEF p
<1>4. x = p
  BY <1>2, <1>3
<1> QED
  BY <1>1, <1>4 DEF p

LEMMA AlignedStep ==
  ASSUME NEW x \in Int, Aligned(x)
  PROVE  Aligned(x + KERNEL_PAGE_SIZE) /\ Aligned(x - KERNEL_PAGE_SIZE)
<1> DEFINE q == x \div KERNEL_PAGE_SIZE
<1>1. q \in Int /\ x = KERNEL_PAGE_SIZE * q
  BY AlignedQuotient
<1> HIDE DEF q
<1>2. /\ x + KERNEL_PAGE_SIZE = KERNEL_PAGE_SIZE * (q + 1) + 0
      /\ x - KERNEL_PAGE_SIZE = KERNEL_PAGE_SIZE * (q - 1) + 0
  BY <1>1, PageAssumption
<1>3. \A k \in Int : (KERNEL_PAGE_SIZE * k + 0) % KERNEL_PAGE_SIZE = 0
  BY ModUnique, PageAssumption
<1>4. q + 1 \in Int /\ q - 1 \in Int
  BY <1>1
<1> QED
  BY <1>2, <1>3, <1>4 DEF Aligned

LEMMA AlignedGap ==
  ASSUME NEW x \in Int, Aligned(x), NEW y \in Int, Aligned(y), x < y
  PROVE  x + KERNEL_PAGE_SIZE <= y
<1> DEFINE p == x \div KERNEL_PAGE_SIZE
           q == y \div KERNEL_PAGE_SIZE
<1>1. /\ p \in Int /\ x = KERNEL_PAGE_SIZE * p
      /\ q \in Int /\ y = KERNEL_PAGE_SIZE * q
  BY AlignedQuotient
<1> HIDE DEF p, q
<1>2. p < q
  BY <1>1, PageAssumption
<1>3. KERNEL_PAGE_SIZE * (p + 1) <= KERNEL_PAGE_SIZE * q
  BY <1>1, <1>2, PageAssumption
<1>4. KERNEL_PAGE_SIZE * (p + 1) = x + KERNEL_PAGE_SIZE
  BY <1>1, PageAssumption
<1> QED
  BY <1>1, <1>3, <1>4

LEMMA PageOfMonotone ==
  ASSUME NEW x \in Int, NEW y \in Int, x <= y
  PROVE  PageOf(x) <= PageOf(y)
<1>1. /\ PageOf(x) \in Int /\ PageOf(y) \in Int
      /\ Aligned(PageOf(x)) /\ Aligned(PageOf(y))
      /\ PageOf(x) <= x /\ y < PageOf(y) + KERNEL_PAGE_SIZE
  BY PageOfProps
<1>2. ASSUME PageOf(y) < PageOf(x) PROVE FALSE
  BY <1>1, <1>2, AlignedGap, PageAssumption
<1> QED
  BY <1>1, <1>2

(* BlocksNeeded counts the pages between two page addresses.               *)
LEMMA PagesBetween ==
  ASSUME NEW x \in Int, Aligned(x), NEW y \in Int, Aligned(y), x < y
  PROVE  /\ (y - x) \div KERNEL_PAGE_SIZE \in 0 .. y - x
         /\ x + KERNEL_PAGE_SIZE * ((y - x) \div KERNEL_PAGE_SIZE) = y
<1> DEFINE p == x \div KERNEL_PAGE_SIZE
           q == y \div KERNEL_PAGE_SIZE
<1>1. /\ p \in Int /\ x = KERNEL_PAGE_SIZE * p
      /\ q \in Int /\ y = KERNEL_PAGE_SIZE * q
  BY AlignedQuotient
<1> HIDE DEF p, q
<1> DEFINE n == q - p
<1>2. n \in Int /\ y - x = KERNEL_PAGE_SIZE * n + 0
  BY <1>1, PageAssumption
<1> HIDE DEF n
<1>3. (y - x) \div KERNEL_PAGE_SIZE = n
  BY <1>2, DivUnique, PageAssumption
<1>4. n > 0 /\ n <= KERNEL_PAGE_SIZE * n
  BY <1>2, PageAssumption
<1> QED
  BY <1>2, <1>3, <1>4, PageAssumption

LEMMA OneMorePage ==
  ASSUME NEW left \in Nat
  PROVE  /\ KERNEL_PAGE_SIZE * left \in Nat
         /\ left > 0 => KERNEL_PAGE_SIZE * left
                          = KERNEL_PAGE_SIZE + KERNEL_PAGE_SIZE * (left - 1)
  BY PageAssumption

(* A page has an entry of its own in a page table.                         *)
LEMMA PageIndex ==
  ASSUME NEW page \in 0 .. AddressSpace - 1
  PROVE  /\ TableOf(page) \in 0 .. TableOf(AddressSpace - 1)
         /\ EntryOf(page) \in 0 .. EntriesPerTable - 1
<1>1. /\ PageNumber(page) \in Nat /\ PageNumber(AddressSpace - 1) \in Nat
      /\ PageNumber(page) <= PageNumber(AddressSpace - 1)
  BY DivNat, DivMonotone, PageAssumption DEF PageNumber
<1>2. /\ TableOf(page) \in Nat /\ TableOf(AddressSpace - 1) \in Nat
      /\ TableOf(page) <= TableOf(AddressSpace - 1)
  BY <1>1, DivNat, DivMonotone, PageAssumption DEF TableOf
<1>3. EntryOf(page) \in 0 .. EntriesPerTable - 1
  BY <1>1, DivMod, PageAssumption DEF EntryOf
<1> QED
  BY <1>2, <1>3

LEMMA PageIndexUnique ==
  ASSUME NEW p \in Pages, NEW q \in Pages,
         TableOf(p) = TableOf(q), EntryOf(p) = EntryOf(q)
  PROVE  p = q
<1>1. p \in Int /\ q \in Int /\ Aligned(p) /\ Aligned(q)
  BY PageAssumption DEF Pages
<1>2. /\ PageNumber(p) \in Int /\ p = KERNEL_PAGE_SIZE * PageNumber(p)
      /\ PageNumber(q) \in Int /\ q = KERNEL_PAGE_SIZE * PageNumber(q)
  BY <1>1, AlignedQuotient DEF PageNumber
<1>3. /\ PageNumber(p) = EntriesPerTable * TableOf(p) + EntryOf(p)
      /\ PageNumber(q) = EntriesPerTable * TableOf(q) + EntryOf(q)
  BY <1>2, DivMod, PageAssumption DEF TableOf, EntryOf
<1> QED
  BY <1>2, <1>3

(* The bytes a call returns.                                               *)
LEMMA BytesTyped ==
  ASSUME NEW first \in Nat, NEW size \in Nat
  PROVE  Bytes(first, size) \subseteq 0 .. AddressSpace - 1
  BY DivMod, PageAssumption DEF Bytes

LEMMA BytesUnwrapped ==
  ASSUME NEW first \in Nat, NEW size \in Nat, first + size <= AddressSpace
  PROVE  \A byte \in Bytes(first, size) : byte \in first .. first + size - 1
<1>1. ASSUME NEW k \in 0 .. size - 1
      PROVE  /\ (first + k) % AddressSpace = first + k
             /\ first + k \in first .. first + size - 1
  <2>1. /\ AddressSpace \in Nat \ {0} /\ first + k \in 0 .. AddressSpace - 1
        /\ first + k = AddressSpace * 0 + (first + k)
    BY PageAssumption
  <2> QED
    BY <2>1, ModUnique
<1> QED
  BY <1>1 DEF Bytes

(* The sum that kspace_sbrk computes, and when it wraps.                   *)
LEMMA NewBreakCases ==
  ASSUME kernel_break \in 0 .. KHEAP_PAGE_MAX,
         NEW increment \in 0 .. AddressSpace - 1
  PROVE  /\ NewBreak(increment) \in 0 .. AddressSpace - 1
         /\ kernel_break + increment < AddressSpace =>
              NewBreak(increment) = kernel_break + increment
         /\ kernel_break + increment >= AddressSpace =>
              NewBreak(increment) < kernel_break
<1>1. AddressSpace \in Nat \ {0} /\ KHEAP_PAGE_MAX < AddressSpace
  BY PageAssumption
<1>2. NewBreak(increment) \in 0 .. AddressSpace - 1
  BY <1>1, DivMod, PageAssumption DEF NewBreak
<1>3. ASSUME kernel_break + increment < AddressSpace
      PROVE  NewBreak(increment) = kernel_break + increment
  <2>1. /\ kernel_break + increment \in 0 .. AddressSpace - 1
        /\ kernel_break + increment = AddressSpace * 0 + (kernel_break + increment)
    BY <1>1, <1>3, PageAssumption
  <2> QED
    BY <1>1, <2>1, ModUnique DEF NewBreak
<1>4. ASSUME kernel_break + increment >= AddressSpace
      PROVE  NewBreak(increment) < kernel_break
  <2> DEFINE r == kernel_break + increment - AddressSpace
  <2>1. /\ r \in 0 .. AddressSpace - 1 /\ r < kernel_break
        /\ kernel_break + increment = AddressSpace * 1 + r
    BY <1>1, <1>4, PageAssumption
  <2> HIDE DEF r
  <2> QED
    BY <1>1, <2>1, ModUnique DEF NewBreak
<1> QED
  BY <1>2, <1>3, <1>4

-----------------------------------------------------------------------------
(* The pages of the heap, before and after it grows by one.                *)
LEMMA HeapPagesProps ==
  ASSUME Breaks
  PROVE  /\ HeapPages \subseteq Pages
         /\ \A page \in HeapPages : page <= kheap_last_page
         /\ ~Booting => kheap_last_page \in HeapPages
         /\ Booting => HeapPages = {}
<1>1. ~Booting => KHEAP_PAGE_START <= kheap_last_page
  <2> SUFFICES ASSUME ~Booting PROVE KHEAP_PAGE_START <= kheap_last_page
    OBVIOUS
  <2>1. /\ KHEAP_PAGE_START \in Int /\ kernel_break \in Int
        /\ KHEAP_PAGE_START <= kernel_break /\ Aligned(KHEAP_PAGE_START)
        /\ PageOf(kernel_break) <= kheap_last_page /\ kheap_last_page \in Int
    BY PageAssumption DEF Breaks, Aligned
  <2>2. PageOf(KHEAP_PAGE_START) <= PageOf(kernel_break)
    BY <2>1, PageOfMonotone
  <2>3. PageOf(KHEAP_PAGE_START) = KHEAP_PAGE_START /\ PageOf(kernel_break) \in Int
    BY <2>1, PageOfProps
  <2> QED
    BY <2>1, <2>2, <2>3, PageAssumption
<1> QED
  BY <1>1, PageAssumption DEF Breaks, HeapPages, Pages, Aligned

LEMMA HeapPagesGrow ==
  ASSUME Breaks, Aligned(kheap_last_page'), ~Booting,
         kheap_last_page' = kheap_last_page + KERNEL_PAGE_SIZE
  PROVE  HeapPages' = HeapPages \union {kheap_last_page'}
<1>1. /\ kheap_last_page \in Int /\ kheap_last_page' \in Int
      /\ KHEAP_PAGE_START <= kheap_last_page
      /\ KHEAP_PAGE_START \in Int /\ Aligned(kheap_last_page)
      /\ kheap_last_page < kheap_last_page'
  BY HeapPagesProps, PageAssumption DEF Breaks, HeapPages
<1>2. ASSUME NEW page \in HeapPages', page > kheap_last_page
      PROVE  page = kheap_last_page'
  <2>1. page \in Int /\ Aligned(page) /\ page <= kheap_last_page'
    BY <1>1 DEF HeapPages, Aligned
  <2>2. kheap_last_page + KERNEL_PAGE_SIZE <= page
    BY <1>1, <1>2, <2>1, AlignedGap
  <2> QED
    BY <1>1, <2>1, <2>2, PageAssumption
<1>3. ASSUME NEW page \in HeapPages', page <= kheap_last_page
      PROVE  page \in HeapPages
  BY <1>1, <1>3 DEF HeapPages
<1>4. HeapPages' \subseteq HeapPages \union {kheap_last_page'}
  <2> SUFFICES ASSUME NEW page \in HeapPages'
               PROVE  page \in HeapPages \union {kheap_last_page'}
    OBVIOUS
  <2>1. page \in Int
    BY <1>1 DEF HeapPages
  <2> QED
    BY <1>1, <1>2, <1>3, <2>1
<1>5. HeapPages \subseteq HeapPages' /\ kheap_last_page' \in HeapPages'
  BY <1>1 DEF HeapPages, Aligned
<1> QED
  BY <1>4, <1>5

(* A page is mapped, by vmmngr_map_page, and no other is touched, except   *)
(* for what a new table shows.                                             *)
LEMMA MapPageTyped ==
  ASSUME TypeOK, NEW page \in Pages, NEW block \in Frame, MapPage(page, block)
  PROVE  /\ pdir' \in [0 .. TableOf(AddressSpace - 1) -> Frame \union {Null, Absent}]
         /\ tables' \in [Frame \union {Null} -> [0 .. EntriesPerTable - 1 -> Entry]]
         /\ avail' \subseteq Frame /\ held' \subseteq Frame
<1>1. /\ TableOf(page) \in 0 .. TableOf(AddressSpace - 1)
      /\ EntryOf(page) \in 0 .. EntriesPerTable - 1
  BY PageIndex DEF Pages
<1>2. CASE MapInTable(page, block)
  BY <1>1, <1>2 DEF MapInTable, TypeOK, Entry, pool
<1>3. CASE MapInNewTable(page, block)
  <2>1. PICK t \in avail \union {Null}, stale \in Leftovers :
          /\ IF t = Null THEN Pool!GetFails ELSE Pool!Get(t)
          /\ pdir' = [pdir EXCEPT ![TableOf(page)] = t]
          /\ tables' = [tables EXCEPT ![t] =
                [e \in 0 .. EntriesPerTable - 1 |->
                   IF e = EntryOf(page) THEN block
                   ELSE IF e \in stale THEN Leftover ELSE Absent]]
    BY <1>3 DEF MapInNewTable
  <2>2. t \in Frame \union {Null}
    BY DEF TypeOK
  <2>3. pdir' \in [0 .. TableOf(AddressSpace - 1) -> Frame \union {Null, Absent}]
    BY <1>1, <2>1, <2>2 DEF TypeOK
  <2>4. tables' \in [Frame \union {Null} -> [0 .. EntriesPerTable - 1 -> Entry]]
    BY <2>1, <2>2 DEF TypeOK, Entry
  <2>5. avail' \subseteq Frame /\ held' \subseteq Frame
    BY <2>1, <2>2 DEF TypeOK, Pool!Get, Pool!GetFails, Pool!vars
  <2> QED
    BY <2>3, <2>4, <2>5
<1> QED
  BY <1>2, <1>3 DEF MapPage

LEMMA MapPageTranslates ==
  ASSUME TypeOK, Owned, NEW page \in Pages, NEW block \in Frame,
         MapPage(page, block), Translate(page) \in {Absent, Leftover},
         TablesAllocated'
  PROVE  /\ TablesAllocated
         /\ Translate(page)' = block
         /\ \A other \in Pages \ {page} :
              \/ Translate(other)' = Translate(other)
              \/ Translate(other) = Absent /\ Translate(other)' = Leftover
         /\ \A s, t \in DOMAIN pdir' :
              pdir'[s] = pdir'[t] /\ pdir'[s] # Absent => s = t
         /\ \E new \in SUBSET avail : /\ TablesInUse' = TablesInUse \union new
                                      /\ held' = held \union new
                                      /\ avail' = avail \ new
<1> DEFINE d == TableOf(page)
           e == EntryOf(page)
<1>1. /\ d \in DOMAIN pdir /\ e \in 0 .. EntriesPerTable - 1
      /\ \A other \in Pages : /\ TableOf(other) \in DOMAIN pdir
                              /\ EntryOf(other) \in 0 .. EntriesPerTable - 1
      /\ \A other \in Pages \ {page} : TableOf(other) # d \/ EntryOf(other) # e
  BY PageIndex, PageIndexUnique DEF Pages, TypeOK
<1>2. /\ pdir \in [DOMAIN pdir -> Frame \union {Null, Absent}]
      /\ tables \in [Frame \union {Null} -> [0 .. EntriesPerTable - 1 -> Entry]]
      /\ held \subseteq Frame /\ avail \subseteq Frame
      /\ Absent \notin Frame \union {Null} /\ Leftover \notin Frame \union {Null}
      /\ Null \notin Frame /\ Absent # Leftover
  BY HeapAssumption DEF TypeOK, Absent, Leftover
<1> HIDE DEF d, e
<1>3. CASE MapInTable(page, block)
  <2> DEFINE t == pdir[d]
  <2>1. /\ t # Absent /\ tables[t][e] = Absent
        /\ tables' = [tables EXCEPT ![t][e] = block]
        /\ pdir' = pdir /\ avail' = avail /\ held' = held
    BY <1>3 DEF MapInTable, pool, d, e
  <2>2. TablesInUse' = TablesInUse /\ TablesAllocated
    BY <2>1 DEF TablesInUse, TablesAllocated
  <2>3. \A s, u \in DOMAIN pdir : pdir[s] = pdir[u] /\ pdir[s] # Absent => s = u
    BY <2>2 DEF Owned
  <2>4. t \in Frame \union {Null}
    BY <1>1, <1>2, <2>1
  <2>5. tables'[t][e] = block
    BY <1>1, <1>2, <2>1, <2>4
  <2>6. Translate(page)' = block
    BY <2>1, <2>5 DEF Translate, d, e
  <2>7. ASSUME NEW other \in Pages \ {page}
        PROVE  Translate(other)' = Translate(other)
    <3>1. CASE pdir[TableOf(other)] = Absent
      BY <3>1, <2>1 DEF Translate
    <3>2. CASE pdir[TableOf(other)] # Absent
      <4>1. /\ pdir[TableOf(other)] \in Frame \union {Null}
            /\ EntryOf(other) \in 0 .. EntriesPerTable - 1
        BY <3>2, <1>1, <1>2
      <4>2. pdir[TableOf(other)] # t \/ EntryOf(other) # e
        BY <3>2, <1>1, <2>3
      <4>3. tables'[pdir[TableOf(other)]][EntryOf(other)]
              = tables[pdir[TableOf(other)]][EntryOf(other)]
        BY <4>1, <4>2, <1>2, <2>1, <2>4
      <4> QED
        BY <3>2, <4>3, <2>1 DEF Translate
    <3> QED
      BY <3>1, <3>2
  <2> HIDE DEF t
  <2>8. \E new \in SUBSET avail : /\ TablesInUse' = TablesInUse \union new
                                  /\ held' = held \union new
                                  /\ avail' = avail \ new
    <3>1. {} \in SUBSET avail
      OBVIOUS
    <3> QED
      BY <3>1, <2>1, <2>2
  <2> QED
    BY <2>1, <2>2, <2>3, <2>6, <2>7, <2>8
<1>4. CASE MapInNewTable(page, block)
  <2>1. PICK t \in avail \union {Null}, stale \in Leftovers :
          /\ IF t = Null THEN Pool!GetFails ELSE Pool!Get(t)
          /\ pdir' = [pdir EXCEPT ![d] = t]
          /\ tables' = [tables EXCEPT ![t] =
                [x \in 0 .. EntriesPerTable - 1 |->
                   IF x = e THEN block
                   ELSE IF x \in stale THEN Leftover ELSE Absent]]
    BY <1>4 DEF MapInNewTable, d, e
  <2>2. pdir[d] = Absent
    BY <1>4 DEF MapInNewTable, d
  <2>3. t # Absent
    BY <1>2
  <2>4. TablesInUse' = TablesInUse \union {t}
    BY <1>1, <1>2, <2>1, <2>2, <2>3 DEF TablesInUse
  <2>5. t # Null /\ t \in avail /\ TablesAllocated
    BY <2>4, <2>1 DEF TablesAllocated
  <2>6. avail' = avail \ {t} /\ held' = held \union {t}
    BY <2>1, <2>5 DEF Pool!Get
  <2>7. t \notin TablesInUse
    BY <2>5 DEF Owned
  <2>8. \A s \in DOMAIN pdir : pdir[s] # t
    BY <2>3, <2>7 DEF TablesInUse
  <2>9. /\ DOMAIN pdir' = DOMAIN pdir /\ pdir'[d] = t
        /\ \A s \in DOMAIN pdir \ {d} : pdir'[s] = pdir[s]
    BY <1>1, <1>2, <2>1
  <2>10. \A s, u \in DOMAIN pdir' : pdir'[s] = pdir'[u] /\ pdir'[s] # Absent => s = u
    BY <2>5, <2>8, <2>9 DEF Owned
  <2>11. \A x \in 0 .. EntriesPerTable - 1 :
           tables'[t][x] = IF x = e THEN block
                           ELSE IF x \in stale THEN Leftover ELSE Absent
    BY <1>2, <2>1, <2>5
  <2>12. Translate(page)' = block
    <3>1. tables'[t][e] = block
      BY <1>1, <2>11
    <3> QED
      BY <3>1, <2>3, <2>9 DEF Translate, d, e
  <2>13. ASSUME NEW other \in Pages \ {page}
         PROVE  \/ Translate(other)' = Translate(other)
                \/ Translate(other) = Absent /\ Translate(other)' = Leftover
    <3>1. CASE TableOf(other) = d
      <4>1. Translate(other) = Absent
        BY <3>1, <2>2 DEF Translate
      <4>2. Translate(other)' = tables'[t][EntryOf(other)]
        BY <3>1, <2>3, <2>9 DEF Translate
      <4>3. tables'[t][EntryOf(other)] \in {Absent, Leftover}
        BY <3>1, <1>1, <2>11
      <4> QED
        BY <4>1, <4>2, <4>3
    <3>2. CASE TableOf(other) # d
      <4>1. pdir'[TableOf(other)] = pdir[TableOf(other)]
        BY <3>2, <1>1, <2>9
      <4>2. pdir[TableOf(other)] # Absent =>
              tables'[pdir[TableOf(other)]] = tables[pdir[TableOf(other)]]
        BY <1>1, <1>2, <2>1, <2>5, <2>8
      <4> QED
        BY <4>1, <4>2 DEF Translate
    <3> QED
      BY <3>1, <3>2
  <2>14. \E new \in SUBSET avail : /\ TablesInUse' = TablesInUse \union new
                                   /\ held' = held \union new
                                   /\ avail' = avail \ new
    <3>1. {t} \in SUBSET avail
      BY <2>5
    <3> QED
      BY <3>1, <2>4, <2>6
  <2> QED
    BY <2>5, <2>10, <2>12, <2>13, <2>14
<1> QED
  BY <1>3, <1>4 DEF MapPage

-----------------------------------------------------------------------------
(* What the kinds of steps do to the use of the blocks: nothing; a block   *)
(* is taken; it is given back; it is mapped.                               *)
LEMMA SameBlocks ==
  ASSUME TypeOK, Owned, call.block = Null, call'.block = Null,
         UNCHANGED <<kheap_last_page, pdir, tables, avail, held>>
  PROVE  Owned'
<1>1. /\ HeapPages' = HeapPages /\ TablesInUse' = TablesInUse
      /\ \A page : Translate(page)' = Translate(page)
  BY DEF HeapPages, TablesInUse, Translate
<1>2. TablesAllocated' = TablesAllocated
  BY <1>1 DEF TablesAllocated
<1> QED
  BY <1>1, <1>2 DEF Owned

LEMMA BlockTaken ==
  ASSUME TypeOK, Owned, NEW block \in Frame, Pool!Get(block),
         call.block = Null, call'.block = block, UNCHANGED <<pdir, tables>>,
         HeapPages \subseteq HeapPages',
         TablesAllocated =>
           \A page \in HeapPages' \ HeapPages : Translate(page) \notin Frame
  PROVE  Owned'
<1>1. /\ TablesInUse' = TablesInUse
      /\ \A page : Translate(page)' = Translate(page)
      /\ pdir' = pdir
  BY DEF TablesInUse, Translate
<1>2. TablesAllocated' = TablesAllocated
  BY <1>1 DEF TablesAllocated
<1>3. /\ block \in avail /\ avail' = avail \ {block} /\ held' = held \union {block}
      /\ held \subseteq Frame /\ Null \notin Frame
  BY HeapAssumption DEF Pool!Get, TypeOK
<1> SUFFICES ASSUME TablesAllocated
             PROVE  Owned'
  BY <1>2 DEF Owned
<1>4. block \notin held
  BY <1>3 DEF Owned
<1>5. /\ avail' \intersect held' = {} /\ TablesInUse' \subseteq held'
      /\ call'.block \in held' \ TablesInUse'
  BY <1>1, <1>3, <1>4 DEF Owned
<1>6. ASSUME NEW page \in HeapPages', Translate(page)' \in Frame
      PROVE  /\ Translate(page)' \in held' \ (TablesInUse' \union {call'.block})
             /\ \A other \in HeapPages' :
                  Translate(other)' = Translate(page)' => other = page
  <2>1. page \in HeapPages
    BY <1>1, <1>6
  <2>2. /\ Translate(page) \in held \ TablesInUse
        /\ \A other \in HeapPages : Translate(other) = Translate(page) => other = page
    BY <1>1, <1>6, <2>1 DEF Owned
  <2>3. \A other \in HeapPages' :
          Translate(other)' = Translate(page)' => other \in HeapPages
    BY <1>1, <1>6
  <2> QED
    BY <1>1, <1>3, <1>4, <2>2, <2>3
<1>7. ASSUME NEW b \in held'
      PROVE  \/ b \in TablesInUse' \union {call'.block}
             \/ \E page \in HeapPages' : Translate(page)' = b
  <2>1. CASE b = block
    BY <2>1
  <2>2. CASE b \in held
    BY <2>2, <1>1, <1>3 DEF Owned
  <2> QED
    BY <1>3, <2>1, <2>2
<1> QED
  BY <1>1, <1>5, <1>6, <1>7 DEF Owned

LEMMA BlockReturned ==
  ASSUME TypeOK, Owned, call.block \in Frame, Pool!Free(call.block),
         call'.block = Null, UNCHANGED <<kheap_last_page, pdir, tables>>
  PROVE  Owned'
<1>1. /\ HeapPages' = HeapPages /\ TablesInUse' = TablesInUse
      /\ \A page : Translate(page)' = Translate(page)
      /\ pdir' = pdir
  BY DEF HeapPages, TablesInUse, Translate
<1>2. TablesAllocated' = TablesAllocated
  BY <1>1 DEF TablesAllocated
<1>3. /\ held' = held \ {call.block} /\ avail' = avail \union {call.block}
      /\ Null \notin Frame
  BY HeapAssumption DEF Pool!Free
<1> SUFFICES ASSUME TablesAllocated
             PROVE  Owned'
  BY <1>2 DEF Owned
<1>4. avail' \intersect held' = {} /\ TablesInUse' \subseteq held'
  BY <1>1, <1>3 DEF Owned
<1>5. ASSUME NEW page \in HeapPages', Translate(page)' \in Frame
      PROVE  /\ Translate(page)' \in held' \ (TablesInUse' \union {call'.block})
             /\ \A other \in HeapPages' :
                  Translate(other)' = Translate(page)' => other = page
  <2>1. /\ Translate(page) \in held \ (TablesInUse \union {call.block})
        /\ \A other \in HeapPages : Translate(other) = Translate(page) => other = page
    BY <1>1, <1>5 DEF Owned
  <2> QED
    BY <1>1, <1>3, <1>5, <2>1
<1>6. ASSUME NEW b \in held'
      PROVE  \/ b \in TablesInUse' \union {call'.block}
             \/ \E page \in HeapPages' : Translate(page)' = b
  BY <1>1, <1>3, <1>6 DEF Owned
<1> QED
  BY <1>1, <1>3, <1>4, <1>5, <1>6 DEF Owned

LEMMA BlockMapped ==
  ASSUME TypeOK, Owned, call.block \in Frame, call'.block = Null,
         NEW page \in Pages, MapPage(page, call.block),
         HeapPages \subseteq Pages, HeapPages' = HeapPages \union {page},
         TablesAllocated => Translate(page) \in {Absent, Leftover}
  PROVE  Owned'
<1> SUFFICES ASSUME TablesAllocated'
             PROVE  Owned'
  BY DEF Owned
<1>1. TablesAllocated
  <2>1. ASSUME NEW s \in DOMAIN pdir, pdir[s] = Null
        PROVE  \E u \in DOMAIN pdir' : pdir'[u] = Null
    BY <2>1, HeapAssumption
       DEF MapPage, MapInTable, MapInNewTable, TypeOK, Absent
  <2>2. Null # Absent
    BY HeapAssumption DEF Absent
  <2> QED
    BY <2>1, <2>2 DEF TablesAllocated, TablesInUse
<1>2. /\ Translate(page)' = call.block
      /\ \A other \in Pages \ {page} :
           \/ Translate(other)' = Translate(other)
           \/ Translate(other) = Absent /\ Translate(other)' = Leftover
      /\ \A s, t \in DOMAIN pdir' :
           pdir'[s] = pdir'[t] /\ pdir'[s] # Absent => s = t
  BY <1>1, MapPageTranslates
<1>3. PICK new \in SUBSET avail : /\ TablesInUse' = TablesInUse \union new
                                  /\ held' = held \union new
                                  /\ avail' = avail \ new
  BY <1>1, MapPageTranslates
<1>4. /\ avail \intersect held = {} /\ TablesInUse \subseteq held
      /\ call.block \in held \ TablesInUse
      /\ held \subseteq Frame /\ Null \notin Frame
      /\ Absent \notin Frame /\ Leftover \notin Frame
  BY <1>1, HeapAssumption DEF Owned, TypeOK, Absent, Leftover
<1>5. avail' \intersect held' = {} /\ TablesInUse' \subseteq held'
  BY <1>3, <1>4
<1>6. \A other \in HeapPages' \ {page} :
         Translate(other)' \in Frame => /\ Translate(other)' = Translate(other)
                                        /\ other \in HeapPages
  BY <1>2, <1>4
<1>7. ASSUME NEW p \in HeapPages', Translate(p)' \in Frame
      PROVE  /\ Translate(p)' \in held' \ (TablesInUse' \union {call'.block})
             /\ \A other \in HeapPages' :
                  Translate(other)' = Translate(p)' => other = p
  <2>1. CASE p = page
    <3>1. \A other \in HeapPages' \ {page} : Translate(other)' # call.block
      BY <1>1, <1>4, <1>6 DEF Owned
    <3> QED
      BY <2>1, <3>1, <1>2, <1>3, <1>4
  <2>2. CASE p # page
    <3>1. /\ Translate(p)' = Translate(p) /\ p \in HeapPages
          /\ Translate(p) \in held \ (TablesInUse \union {call.block})
          /\ \A other \in HeapPages : Translate(other) = Translate(p) => other = p
      BY <2>2, <1>1, <1>6, <1>7 DEF Owned
    <3> QED
      BY <3>1, <1>2, <1>3, <1>4, <1>6, <1>7
  <2> QED
    BY <2>1, <2>2
<1>8. ASSUME NEW b \in held'
      PROVE  \/ b \in TablesInUse' \union {call'.block}
             \/ \E p \in HeapPages' : Translate(p)' = b
  <2>1. CASE b \in new
    BY <2>1, <1>3
  <2>2. CASE b = call.block
    BY <2>2, <1>2
  <2>3. CASE b \in held /\ b # call.block
    <3>1. b \in TablesInUse \/ \E p \in HeapPages : Translate(p) = b
      BY <2>3, <1>1 DEF Owned
    <3>2. ASSUME NEW p \in HeapPages, Translate(p) = b
          PROVE  Translate(p)' = b
      <4>1. p # page /\ b # Absent
        BY <2>3, <3>2, <1>1, <1>4
      <4> QED
        BY <4>1, <3>2, <1>2
    <3> QED
      BY <3>1, <3>2, <1>3
  <2> QED
    BY <1>3, <2>1, <2>2, <2>3
<1> QED
  BY <1>2, <1>4, <1>5, <1>7, <1>8 DEF Owned

-----------------------------------------------------------------------------
LEMMA InitIInv == Init => IInv
<1> SUFFICES ASSUME Init PROVE IInv
  OBVIOUS
<1>1. /\ Aligned(KHEAP_PAGE_START) /\ KHEAP_PAGE_START \in Int
      /\ Aligned(KHEAP_PAGE_START - KERNEL_PAGE_SIZE)
  <2>1. Aligned(KHEAP_PAGE_START) /\ KHEAP_PAGE_START \in Int
    BY PageAssumption DEF Aligned
  <2> QED
    BY <2>1, AlignedStep
<1>2. call = [at |-> "boot", bp |-> 0, left |-> 0, block |-> Null, size |-> 0]
  BY DEF Init, At, Call
<1>3. Calls
  BY <1>2, PageAssumption, HeapAssumption DEF Calls
<1>4. Breaks
  BY <1>1, <1>2, PageAssumption DEF Init, Breaks, Booting
<1>5. avail \subseteq Frame /\ held = {}
  BY DEF Init, Pool!Init
<1>6. TypeOK
  <2>1. tables \in [Frame \union {Null} -> [0 .. EntriesPerTable - 1 -> Entry]]
    BY DEF Init, Entry
  <2>2. kheap_last_page + KERNEL_PAGE_SIZE \in 0 .. AddressSpace
    BY PageAssumption DEF Init
  <2>3. pdir \in [0 .. TableOf(AddressSpace - 1) -> Frame \union {Null, Absent}]
    BY DEF Init
  <2>4. kernel_break = 0 /\ latest = {} /\ granted = {} /\ failures = {}
    BY DEF Init
  <2> QED
    BY <1>2, <1>5, <2>1, <2>2, <2>3, <2>4, PageAssumption DEF TypeOK
<1>7. \A t \in DOMAIN pdir : pdir[t] = Absent
  BY DEF Init
<1>8. HeapPages = {} /\ TablesInUse = {}
  BY <1>2, <1>4, <1>7, HeapPagesProps DEF Booting, TablesInUse
<1>9. Owned
  BY <1>2, <1>5, <1>7, <1>8, HeapAssumption DEF Owned
<1>10. Ahead
  BY <1>7, PageIndex DEF Ahead, Translate, Pages, Init
<1>11. Fresh /\ Backed
  BY <1>2, <1>8 DEF Init, Fresh, Backed
<1> QED
  BY <1>3, <1>4, <1>6, <1>9, <1>10, <1>11 DEF IInv

(* The boot: the first page, or a panic.                                   *)
LEMMA BootGetIInv ==
  ASSUME IInv, NEW block \in Frame, BootGet(block)
  PROVE  IInv'
<1>1. /\ call.at = "boot" /\ Pool!Get(block) /\ call.block = Null
      /\ call' = [at |-> "bootmap", bp |-> 0, left |-> 0, block |-> block, size |-> 0]
      /\ UNCHANGED <<kernel_break, kheap_last_page, pdir, tables, latest, granted,
                     failures>>
  BY DEF BootGet, Call, IInv, Calls
<1>2. HeapPages = {} /\ HeapPages' = {}
  BY <1>1, HeapPagesProps DEF IInv, Booting, HeapPages
<1>3. Calls' /\ Breaks'
  BY <1>1, PageAssumption DEF IInv, Calls, Breaks, Booting
<1>4. TypeOK'
  BY <1>1, PageAssumption DEF IInv, TypeOK, Pool!Get
<1>5. Fresh' /\ Backed'
  BY <1>1, <1>2 DEF IInv, Fresh, Backed, Breaks, Booting
<1>6. Owned'
  BY <1>1, <1>2, BlockTaken DEF IInv
<1>7. Ahead'
  BY <1>1 DEF IInv, Ahead, Translate, TablesAllocated, TablesInUse
<1> QED
  BY <1>3, <1>4, <1>5, <1>6, <1>7 DEF IInv

LEMMA BootPanicIInv == IInv /\ BootPanic => IInv'
<1> SUFFICES ASSUME IInv, BootPanic PROVE IInv'
  OBVIOUS
<1>1. /\ call.at = "boot" /\ call.block = Null
      /\ call' = [at |-> "panic", bp |-> 0, left |-> 0, block |-> Null, size |-> 0]
      /\ UNCHANGED <<kernel_break, kheap_last_page, pdir, tables, avail, held,
                     latest, granted, failures>>
  BY DEF BootPanic, At, Call, IInv, Calls, Pool!GetFails, Pool!vars
<1>2. HeapPages' = {}
  BY <1>1, HeapPagesProps DEF IInv, Booting, HeapPages
<1>3. Calls' /\ Breaks'
  BY <1>1, PageAssumption DEF IInv, Calls, Breaks, Booting
<1>4. TypeOK'
  BY <1>1, PageAssumption DEF IInv, TypeOK
<1>5. Fresh' /\ Backed'
  BY <1>1, <1>2 DEF IInv, Fresh, Backed, Breaks, Booting
<1>6. Owned'
  BY <1>1, SameBlocks DEF IInv
<1>7. Ahead'
  BY <1>1 DEF IInv, Ahead, Translate, TablesAllocated, TablesInUse
<1> QED
  BY <1>3, <1>4, <1>5, <1>6, <1>7 DEF IInv

(* No page in front of the end changes its state when another is mapped.   *)
LEMMA AheadKept ==
  ASSUME IInv, NEW page \in Pages, MapPage(page, call.block), call.block \in Frame,
         TablesAllocated => Translate(page) \in {Absent, Leftover},
         page <= kheap_last_page', kheap_last_page <= kheap_last_page',
         kheap_last_page' \in Int, call'.at # "map", Owned'
  PROVE  Ahead' /\ (TablesAllocated' => TablesAllocated)
<1>1. TablesAllocated' => TablesAllocated
  <2>1. ASSUME NEW s \in DOMAIN pdir, pdir[s] = Null
        PROVE  \E u \in DOMAIN pdir' : pdir'[u] = Null
    BY <2>1, HeapAssumption
       DEF MapPage, MapInTable, MapInNewTable, IInv, TypeOK, Absent
  <2>2. Null # Absent
    BY HeapAssumption DEF Absent
  <2> QED
    BY <2>1, <2>2 DEF TablesAllocated, TablesInUse
<1>2. ASSUME TablesAllocated', NEW other \in Pages, other > kheap_last_page'
      PROVE  Translate(other)' \in {Absent, Leftover}
  <2>1. /\ other > kheap_last_page /\ other # page
        /\ Translate(other) \in {Absent, Leftover}
    BY <1>1, <1>2, PageAssumption DEF IInv, Breaks, Ahead, Pages
  <2> QED
    BY <2>1, <1>1, <1>2, MapPageTranslates DEF IInv
<1> QED
  BY <1>1, <1>2 DEF Ahead

LEMMA BootMapIInv == IInv /\ BootMap => IInv'
<1> SUFFICES ASSUME IInv, BootMap PROVE IInv'
  OBVIOUS
<1>1. /\ call.at = "bootmap" /\ call.block \in Frame
      /\ MapPage(KHEAP_PAGE_START, call.block)
      /\ kernel_break' = KHEAP_PAGE_START /\ kheap_last_page' = KHEAP_PAGE_START
      /\ call' = [at |-> "idle", bp |-> 0, left |-> 0, block |-> Null, size |-> 0]
      /\ UNCHANGED <<latest, granted, failures>>
      /\ latest = {} /\ granted = {}
      /\ kheap_last_page = KHEAP_PAGE_START - KERNEL_PAGE_SIZE
  BY DEF BootMap, Idle, At, Call, IInv, Calls, Breaks, Booting
<1>2. /\ KHEAP_PAGE_START \in Pages /\ KHEAP_PAGE_START \in Int
      /\ Aligned(KHEAP_PAGE_START) /\ PageOf(KHEAP_PAGE_START) = KHEAP_PAGE_START
  BY PageOfProps, PageAssumption DEF Pages, Aligned
<1>3. HeapPages = {} /\ HeapPages' = {KHEAP_PAGE_START}
  BY <1>1, <1>2, HeapPagesProps DEF IInv, Booting, HeapPages, Aligned
<1>4. TablesAllocated => Translate(KHEAP_PAGE_START) \in {Absent, Leftover}
  BY <1>1, <1>2, PageAssumption DEF IInv, Ahead
<1>5. Calls' /\ Breaks'
  BY <1>1, <1>2, PageAssumption, HeapAssumption DEF Calls, Breaks, Booting
<1>6. TypeOK'
  <2>1. kheap_last_page' + KERNEL_PAGE_SIZE \in 0 .. AddressSpace
    BY <1>1, PageAssumption
  <2> QED
    BY <1>1, <1>2, <2>1, MapPageTyped, PageAssumption DEF IInv, TypeOK
<1>7. Owned'
  BY <1>1, <1>2, <1>3, <1>4, BlockMapped DEF IInv
<1>8. Ahead' /\ (TablesAllocated' => TablesAllocated)
  BY <1>1, <1>2, <1>4, <1>7, AheadKept, PageAssumption
<1>9. Fresh'
  BY <1>1, <1>2 DEF Fresh
<1>10. Backed'
  <2>1. TablesAllocated' => Translate(KHEAP_PAGE_START)' = call.block
    BY <1>1, <1>2, <1>4, <1>8, MapPageTranslates DEF IInv
  <2> QED
    BY <1>1, <1>3, <2>1 DEF Backed
<1> QED
  BY <1>5, <1>6, <1>7, <1>8, <1>9, <1>10 DEF IInv

-----------------------------------------------------------------------------
(* kspace_sbrk: a request that is refused, or fits the last page.          *)
LEMMA SbrkRefusedIInv ==
  ASSUME IInv, NEW increment \in Increments, SbrkRefused(increment)
  PROVE  IInv'
<1>1. /\ call = [at |-> "idle", bp |-> 0, left |-> 0, block |-> Null, size |-> 0]
      /\ call' = call /\ latest' = {} /\ granted' = granted \union latest
      /\ failures' = failures \union {"range"}
      /\ UNCHANGED <<kernel_break, kheap_last_page, pdir, tables, avail, held>>
  BY DEF SbrkRefused, Fail, Return, Idle, At, Call, pool
<1>2. Calls' /\ Breaks' /\ TypeOK'
  BY <1>1 DEF IInv, Calls, Breaks, Booting, TypeOK
<1>3. Owned'
  BY <1>1, SameBlocks DEF IInv
<1>4. Ahead'
  BY <1>1 DEF IInv, Ahead, Translate, TablesAllocated, TablesInUse
<1>5. Fresh'
  BY <1>1 DEF IInv, Fresh
<1>6. Backed'
  BY <1>1 DEF IInv, Backed, Translate, TablesAllocated, TablesInUse, HeapPages
<1> QED
  BY <1>2, <1>3, <1>4, <1>5, <1>6 DEF IInv

LEMMA SbrkInsideIInv ==
  ASSUME IInv, NEW increment \in Increments, SbrkInside(increment)
  PROVE  IInv'
<1> DEFINE bp == NewBreak(increment)
<1>1. /\ call = [at |-> "idle", bp |-> 0, left |-> 0, block |-> Null, size |-> 0]
      /\ call' = call
      /\ bp <= KHEAP_PAGE_MAX /\ PageOf(bp) <= kheap_last_page
      /\ kernel_break' = IF PageOf(bp) = kheap_last_page THEN bp ELSE kernel_break
      /\ latest' = Bytes(kernel_break, increment)
      /\ granted' = granted \union latest
      /\ failures' = failures \union Wrapped(increment)
      /\ UNCHANGED <<kheap_last_page, pdir, tables, avail, held>>
  BY DEF SbrkInside, Return, Idle, At, Call, pool
<1>2. /\ increment \in 0 .. AddressSpace - 1 /\ increment \in Nat
      /\ kernel_break \in 0 .. KHEAP_PAGE_MAX /\ kernel_break \in Nat
      /\ kheap_last_page \in Int
      /\ KHEAP_PAGE_START <= kernel_break /\ PageOf(kernel_break) <= kheap_last_page
      /\ KHEAP_PAGE_START \in Nat /\ AddressSpace \in Nat /\ KHEAP_PAGE_MAX \in Nat
      /\ KERNEL_PAGE_SIZE \in Nat
  BY <1>1, HeapAssumption, PageAssumption DEF IInv, Breaks, Booting
<1>3. /\ bp \in 0 .. AddressSpace - 1
      /\ kernel_break + increment < AddressSpace => bp = kernel_break + increment
  BY <1>2, NewBreakCases
<1>4. /\ PageOf(bp) \in Int /\ bp < PageOf(bp) + KERNEL_PAGE_SIZE
      /\ kernel_break <= bp => PageOf(kernel_break) <= PageOf(bp)
  BY <1>2, <1>3, PageOfProps, PageOfMonotone
<1>5. KHEAP_PAGE_START <= kernel_break' /\ kernel_break' \in 0 .. KHEAP_PAGE_MAX
      /\ PageOf(kernel_break') <= kheap_last_page
  <2>1. CASE PageOf(bp) = kheap_last_page
    <3>1. PageOf(KHEAP_PAGE_START) = KHEAP_PAGE_START
      BY <1>2, PageOfProps, PageAssumption DEF Aligned
    <3>2. PageOf(KHEAP_PAGE_START) <= PageOf(kernel_break)
      BY <1>2, PageOfMonotone
    <3>3. PageOf(bp) <= bp /\ PageOf(kernel_break) \in Int
      BY <1>2, <1>3, PageOfProps
    <3> QED
      BY <2>1, <3>1, <3>2, <3>3, <1>1, <1>2, <1>3, <1>4
  <2>2. CASE PageOf(bp) # kheap_last_page
    BY <2>2, <1>1, <1>2
  <2> QED
    BY <2>1, <2>2
<1>6. ASSUME "wrap" \notin failures'
      PROVE  /\ bp = kernel_break + increment
             /\ \A byte \in latest' : byte \in kernel_break .. bp - 1
  <2>1. kernel_break + increment < AddressSpace
    BY <1>1, <1>2, <1>6 DEF Wrapped
  <2>2. \A byte \in Bytes(kernel_break, increment) :
           byte \in kernel_break .. kernel_break + increment - 1
    <3>1. kernel_break + increment <= AddressSpace
      BY <2>1, <1>2
    <3> QED
      BY <3>1, <1>2, BytesUnwrapped
  <2>3. bp = kernel_break + increment
    BY <2>1, <1>3
  <2>4. latest' = Bytes(kernel_break, increment)
    BY <1>1
  <2> HIDE DEF bp
  <2> QED
    BY <2>2, <2>3, <2>4, <1>2
<1> HIDE DEF bp
<1>7. Calls' /\ Breaks'
  BY <1>1, <1>5 DEF IInv, Calls, Breaks, Booting
<1>8. TypeOK'
  <2>1. latest' \subseteq 0 .. AddressSpace - 1
    BY <1>1, <1>2, BytesTyped
  <2>2. Wrapped(increment) \subseteq {"wrap"}
    BY DEF Wrapped
  <2> QED
    BY <1>1, <1>5, <2>1, <2>2 DEF IInv, TypeOK
<1>9. Owned'
  BY <1>1, SameBlocks DEF IInv
<1>10. Ahead'
  BY <1>1 DEF IInv, Ahead, Translate, TablesAllocated, TablesInUse
<1>11. Fresh'
  <2> SUFFICES ASSUME failures' \subseteq {"range", "memory"}
               PROVE  Fresh'
    BY DEF Fresh
  <2>1. /\ latest \intersect granted = {}
        /\ latest \union granted \subseteq 0 .. kernel_break - 1
        /\ kheap_last_page = PageOf(kernel_break)
    BY <1>1 DEF IInv, Fresh
  <2>2. /\ bp = kernel_break + increment
        /\ \A byte \in latest' : byte \in kernel_break .. bp - 1
    BY <1>6
  <2>3. kernel_break' = bp /\ PageOf(bp) = kheap_last_page
    BY <2>1, <2>2, <1>1, <1>2, <1>4
  <2>4. latest' \intersect granted' = {}
    BY <2>1, <2>2, <1>1, <1>2
  <2>5. latest' \union granted' \subseteq 0 .. kernel_break' - 1
    BY <2>1, <2>2, <2>3, <1>1, <1>2
  <2> QED
    BY <2>3, <2>4, <2>5, <1>1 DEF Fresh
<1>12. Backed'
  <2> SUFFICES ASSUME TablesAllocated', failures' \intersect {"mapping", "wrap"} = {}
               PROVE  Backed'
    BY DEF Backed
  <2>1. /\ TablesAllocated /\ failures \intersect {"mapping", "wrap"} = {}
        /\ HeapPages' = HeapPages /\ \A page : Translate(page)' = Translate(page)
    BY <1>1 DEF TablesAllocated, TablesInUse, HeapPages, Translate
  <2>2. \A byte \in latest' : byte \in kernel_break .. bp - 1
    BY <1>6
  <2>3. \A byte \in latest' : /\ KHEAP_PAGE_START <= byte
                              /\ byte < kheap_last_page + KERNEL_PAGE_SIZE
    BY <2>2, <1>1, <1>2, <1>3, <1>4
  <2> QED
    BY <2>1, <2>3, <1>1 DEF IInv, Backed
<1> QED
  BY <1>7, <1>8, <1>9, <1>10, <1>11, <1>12 DEF IInv

(* A request for pages.  Since its new break is behind the last page, the  *)
(* sum has not wrapped.                                                    *)
LEMMA SbrkGrowIInv ==
  ASSUME IInv, NEW increment \in Increments, SbrkGrow(increment)
  PROVE  IInv'
<1> DEFINE bp == NewBreak(increment)
<1>1. /\ call = [at |-> "idle", bp |-> 0, left |-> 0, block |-> Null, size |-> 0]
      /\ bp <= KHEAP_PAGE_MAX /\ PageOf(bp) > kheap_last_page
      /\ call' = [at |-> "get", bp |-> bp, left |-> BlocksNeeded(bp),
                  block |-> Null, size |-> increment]
      /\ UNCHANGED <<kernel_break, kheap_last_page, pdir, tables, avail, held,
                     latest, granted, failures>>
  BY DEF SbrkGrow, Idle, At, Call, pool
<1>2. /\ increment \in 0 .. AddressSpace - 1
      /\ kernel_break \in 0 .. KHEAP_PAGE_MAX /\ kernel_break \in Int
      /\ kheap_last_page \in Int /\ Aligned(kheap_last_page)
      /\ PageOf(kernel_break) <= kheap_last_page
      /\ KHEAP_PAGE_START <= kernel_break
      /\ KHEAP_PAGE_START \in Nat /\ AddressSpace \in Nat /\ KHEAP_PAGE_MAX \in Nat
      /\ KHEAP_PAGE_MAX < AddressSpace
  BY <1>1, HeapAssumption, PageAssumption DEF IInv, Breaks, Booting
<1>3. /\ bp \in 0 .. AddressSpace - 1 /\ bp \in Int
      /\ kernel_break + increment < AddressSpace => bp = kernel_break + increment
      /\ kernel_break + increment >= AddressSpace => bp < kernel_break
  BY <1>2, NewBreakCases
<1> HIDE DEF bp
<1>4. /\ PageOf(bp) \in Int /\ Aligned(PageOf(bp)) /\ PageOf(bp) <= bp
      /\ PageOf(kernel_break) \in Int
  BY <1>2, <1>3, PageOfProps
<1>5. bp = kernel_break + increment
  <2>1. ASSUME bp < kernel_break PROVE FALSE
    <3>1. PageOf(bp) <= PageOf(kernel_break)
      BY <2>1, <1>2, <1>3, PageOfMonotone
    <3> QED
      BY <3>1, <1>1, <1>2, <1>4
  <2> QED
    BY <2>1, <1>2, <1>3
<1>6. /\ BlocksNeeded(bp) \in 0 .. PageOf(bp) - kheap_last_page
      /\ kheap_last_page + KERNEL_PAGE_SIZE * BlocksNeeded(bp) = PageOf(bp)
  BY <1>1, <1>2, <1>4, PagesBetween DEF BlocksNeeded
<1>7. BlocksNeeded(bp) \in 0 .. AddressSpace
  <2>1. KHEAP_PAGE_START <= kheap_last_page
    <3>1. PageOf(KHEAP_PAGE_START) = KHEAP_PAGE_START
      BY <1>2, PageOfProps, PageAssumption DEF Aligned
    <3>2. PageOf(KHEAP_PAGE_START) <= PageOf(kernel_break)
      BY <1>2, PageOfMonotone
    <3> QED
      BY <3>1, <3>2, <1>2, <1>4
  <2> QED
    BY <2>1, <1>1, <1>2, <1>3, <1>4, <1>6
<1>8. Calls' /\ Breaks'
  BY <1>1, <1>2, <1>3, <1>5, <1>6, <1>7 DEF IInv, Calls, Breaks, Booting
<1>9. TypeOK'
  BY <1>1, <1>2, <1>3, <1>7 DEF IInv, TypeOK
<1>10. Owned'
  BY <1>1, SameBlocks DEF IInv
<1>11. Ahead'
  BY <1>1 DEF IInv, Ahead, Translate, TablesAllocated, TablesInUse
<1>12. Fresh' /\ Backed'
  BY <1>1 DEF IInv, Fresh, Backed, Translate, TablesAllocated, TablesInUse,
              HeapPages
<1> QED
  BY <1>8, <1>9, <1>10, <1>11, <1>12 DEF IInv

-----------------------------------------------------------------------------
(* The loop: a block is taken for the next page, ...                       *)
LEMMA GetBlockIInv ==
  ASSUME IInv, NEW block \in Frame, GetBlock(block)
  PROVE  IInv'
<1>1. /\ call.at = "get" /\ call.left > 0 /\ call.block = Null
      /\ Pool!Get(block)
      /\ kheap_last_page' = kheap_last_page + KERNEL_PAGE_SIZE
      /\ call' = [call EXCEPT !.at = "map", !.block = block]
      /\ UNCHANGED <<kernel_break, pdir, tables, latest, granted, failures>>
  BY DEF GetBlock, IInv, Calls
<1>2. /\ call'.at = "map" /\ call'.block = block /\ call'.left = call.left
      /\ call'.bp = call.bp /\ call'.size = call.size
      /\ call' \in [at : {"boot", "bootmap", "panic", "idle", "get", "map"},
                    bp : 0 .. KHEAP_PAGE_MAX, left : 0 .. AddressSpace,
                    block : Frame \union {Null}, size : Increments \union {0}]
      /\ ~Booting /\ ~Booting'
  BY <1>1 DEF IInv, Calls, Booting
<1>3. /\ kheap_last_page \in Int /\ KERNEL_PAGE_SIZE \in Nat \ {0}
      /\ Aligned(kheap_last_page) /\ Aligned(kheap_last_page')
      /\ KHEAP_PAGE_MAX \in Nat /\ AddressSpace \in Nat
      /\ KHEAP_PAGE_MAX + KERNEL_PAGE_SIZE <= AddressSpace
      /\ kernel_break \in Nat /\ PageOf(kernel_break) <= kheap_last_page
      /\ call.bp \in 0 .. KHEAP_PAGE_MAX /\ call.left \in Nat
  BY <1>1, <1>2, AlignedStep, PageAssumption DEF IInv, Breaks, Calls
<1>4. /\ kheap_last_page + KERNEL_PAGE_SIZE * call.left = PageOf(call.bp)
      /\ KERNEL_PAGE_SIZE * call.left
           = KERNEL_PAGE_SIZE + KERNEL_PAGE_SIZE * (call.left - 1)
      /\ KERNEL_PAGE_SIZE * (call.left - 1) \in Nat
      /\ PageOf(call.bp) <= call.bp /\ PageOf(call.bp) \in Int
      /\ PageOf(kernel_break) \in Int
  <2>1. call.left - 1 \in Nat
    BY <1>1, <1>3
  <2> QED
    BY <1>1, <1>3, <2>1, OneMorePage, PageOfProps DEF IInv, Calls
<1>5. /\ kheap_last_page' + KERNEL_PAGE_SIZE * (call.left - 1) = PageOf(call.bp)
      /\ kheap_last_page' <= KHEAP_PAGE_MAX
  BY <1>1, <1>3, <1>4
<1>6. Calls'
  BY <1>1, <1>2, <1>5 DEF IInv, Calls
<1>7. Breaks'
  <2>1. PageOf(kernel_break) <= kheap_last_page'
    BY <1>1, <1>3, <1>4
  <2> QED
    BY <2>1, <1>1, <1>2, <1>3, <1>5 DEF IInv, Breaks
<1>8. /\ HeapPages' = HeapPages \union {kheap_last_page'}
      /\ HeapPages \subseteq Pages /\ kheap_last_page' \in Pages
      /\ \A page \in HeapPages : page <= kheap_last_page
  <2>1. /\ HeapPages \subseteq Pages /\ kheap_last_page \in HeapPages
        /\ \A page \in HeapPages : page <= kheap_last_page
    BY <1>2, HeapPagesProps DEF IInv
  <2>2. kheap_last_page' \in 0 .. AddressSpace - 1
    BY <2>1, <1>1, <1>3, <1>5 DEF Pages
  <2>3. HeapPages' = HeapPages \union {kheap_last_page'}
    BY <1>1, <1>2, <1>3, HeapPagesGrow DEF IInv
  <2> QED
    BY <2>1, <2>2, <2>3, <1>3 DEF Pages
<1>9. TablesAllocated => Translate(kheap_last_page') \in {Absent, Leftover}
  BY <1>1, <1>3, <1>8 DEF IInv, Ahead
<1>10. /\ \A page : Translate(page)' = Translate(page)
       /\ TablesAllocated' = TablesAllocated
  BY <1>1 DEF Translate, TablesAllocated, TablesInUse
<1>11. TypeOK'
  <2>1. kheap_last_page' + KERNEL_PAGE_SIZE \in 0 .. AddressSpace
    <3>1. kheap_last_page + KERNEL_PAGE_SIZE >= 0
      BY <1>3 DEF IInv, TypeOK
    <3> QED
      BY <3>1, <1>1, <1>3, <1>5
  <2>2. avail' \subseteq Frame /\ held' \subseteq Frame
    BY <1>1 DEF IInv, TypeOK, Pool!Get
  <2> QED
    BY <2>1, <2>2, <1>1, <1>2 DEF IInv, TypeOK
<1>12. Owned'
  <2>1. TablesAllocated =>
          \A page \in HeapPages' \ HeapPages : Translate(page) \notin Frame
    BY <1>8, <1>9, HeapAssumption DEF Absent, Leftover
  <2> QED
    BY <2>1, <1>1, <1>2, <1>8, BlockTaken DEF IInv
<1>13. Ahead'
  <2> SUFFICES ASSUME TablesAllocated, NEW page \in Pages, page >= kheap_last_page'
               PROVE  Translate(page) \in {Absent, Leftover}
    BY <1>1, <1>3, <1>10 DEF Ahead, Pages
  <2>1. page > kheap_last_page
    BY <1>1, <1>3 DEF Pages
  <2> QED
    BY <2>1 DEF IInv, Ahead
<1>14. Fresh'
  BY <1>1, <1>2 DEF IInv, Fresh
<1>15. Backed'
  <2> SUFFICES ASSUME TablesAllocated, failures \intersect {"mapping", "wrap"} = {}
               PROVE  Backed'
    BY <1>1, <1>10 DEF Backed
  <2>1. \A page \in HeapPages' : page # kheap_last_page' => Translate(page)' \in Frame
    BY <1>1, <1>8, <1>10 DEF IInv, Backed
  <2>2. \A byte \in latest \union granted : /\ byte \in Int
                                            /\ KHEAP_PAGE_START <= byte
                                            /\ byte < kheap_last_page'
    BY <1>1 DEF IInv, Backed, TypeOK
  <2>3. \A byte \in latest' \union granted' :
           /\ KHEAP_PAGE_START <= byte
           /\ byte < kheap_last_page' + KERNEL_PAGE_SIZE
           /\ byte < kheap_last_page'
    BY <2>2, <1>1, <1>3
  <2> QED
    BY <2>1, <2>3, <1>2 DEF Backed
<1> QED
  BY <1>6, <1>7, <1>11, <1>12, <1>13, <1>14, <1>15 DEF IInv

(* ... or there is none; ...                                               *)
LEMMA NoBlockIInv == IInv /\ NoBlock => IInv'
<1> SUFFICES ASSUME IInv, NoBlock PROVE IInv'
  OBVIOUS
<1>1. /\ call.at = "get" /\ call.block = Null
      /\ call' = [at |-> "idle", bp |-> 0, left |-> 0, block |-> Null, size |-> 0]
      /\ latest' = {} /\ granted' = granted \union latest
      /\ failures' = failures \union
           {IF kheap_last_page = PageOf(kernel_break) THEN "memory" ELSE "partial"}
      /\ UNCHANGED <<kernel_break, kheap_last_page, pdir, tables, avail, held>>
  BY DEF NoBlock, Fail, Return, Idle, At, Call, IInv, Calls, Pool!GetFails,
         Pool!vars
<1>2. Calls' /\ Breaks'
  BY <1>1, PageAssumption DEF IInv, Calls, Breaks, Booting
<1>3. TypeOK'
  BY <1>1, PageAssumption DEF IInv, TypeOK
<1>4. Owned'
  BY <1>1, SameBlocks DEF IInv
<1>5. Ahead'
  BY <1>1 DEF IInv, Ahead, Translate, TablesAllocated, TablesInUse
<1>6. Fresh'
  BY <1>1 DEF IInv, Fresh
<1>7. Backed'
  BY <1>1 DEF IInv, Backed, Translate, TablesAllocated, TablesInUse, HeapPages
<1> QED
  BY <1>2, <1>3, <1>4, <1>5, <1>6, <1>7 DEF IInv

(* ... it is mapped at the last page, ...                                  *)
LEMMA MapBlockIInv == IInv /\ MapBlock => IInv'
<1> SUFFICES ASSUME IInv, MapBlock PROVE IInv'
  OBVIOUS
<1>1. /\ call.at = "map" /\ call.block \in Frame /\ call.left > 0
      /\ MapPage(kheap_last_page, call.block)
      /\ call' = [at |-> "get", bp |-> call.bp, left |-> call.left - 1,
                  block |-> Null, size |-> call.size]
      /\ UNCHANGED <<kernel_break, kheap_last_page, latest, granted, failures>>
      /\ ~Booting
  BY DEF MapBlock, Call, IInv, Calls, Booting
<1>2. /\ HeapPages \subseteq Pages /\ kheap_last_page \in HeapPages
      /\ HeapPages' = HeapPages /\ kheap_last_page \in Int
      /\ \A page \in HeapPages : page <= kheap_last_page
  BY <1>1, HeapPagesProps DEF IInv, HeapPages, Breaks
<1>3. TablesAllocated => Translate(kheap_last_page) \in {Absent, Leftover}
  BY <1>1, <1>2 DEF IInv, Ahead
<1>4. Calls' /\ Breaks'
  <2>1. /\ call.bp \in 0 .. KHEAP_PAGE_MAX /\ call.left \in 0 .. AddressSpace
        /\ call.size \in Increments \union {0}
        /\ call.bp = kernel_break + call.size
        /\ kheap_last_page + KERNEL_PAGE_SIZE * (call.left - 1) = PageOf(call.bp)
    BY <1>1 DEF IInv, Calls
  <2>2. call.left - 1 \in 0 .. AddressSpace
    BY <2>1, <1>1, PageAssumption
  <2>3. Calls'
    BY <2>1, <2>2, <1>1 DEF Calls
  <2>4. Breaks'
    BY <1>1 DEF IInv, Breaks, Booting
  <2> QED
    BY <2>3, <2>4
<1>5. TypeOK'
  BY <1>1, <1>2, <1>4, MapPageTyped DEF IInv, TypeOK, Calls
<1>6. Owned'
  <2>1. kheap_last_page \in Pages /\ HeapPages' = HeapPages \union {kheap_last_page}
    BY <1>2
  <2> QED
    BY <2>1, <1>1, <1>2, <1>3, BlockMapped DEF IInv
<1>7. Ahead' /\ (TablesAllocated' => TablesAllocated)
  BY <1>1, <1>2, <1>3, <1>6, AheadKept
<1>8. Fresh'
  BY <1>1 DEF IInv, Fresh
<1>9. Backed'
  <2> SUFFICES ASSUME TablesAllocated', failures \intersect {"mapping", "wrap"} = {}
               PROVE  Backed'
    BY <1>1 DEF Backed
  <2>1. /\ \A page \in HeapPages \ {kheap_last_page} : Translate(page) \in Frame
        /\ \A byte \in latest \union granted :
             /\ KHEAP_PAGE_START <= byte
             /\ byte < kheap_last_page + KERNEL_PAGE_SIZE
    BY <1>1, <1>7 DEF IInv, Backed
  <2>2. /\ Translate(kheap_last_page)' = call.block
        /\ \A other \in Pages \ {kheap_last_page} :
             \/ Translate(other)' = Translate(other)
             \/ Translate(other) = Absent /\ Translate(other)' = Leftover
    BY <1>1, <1>2, <1>3, <1>7, MapPageTranslates DEF IInv
  <2>3. \A page \in HeapPages : Translate(page)' \in Frame
    BY <2>1, <2>2, <1>1, <1>2, HeapAssumption DEF Absent
  <2> QED
    BY <2>1, <2>3, <1>1, <1>2 DEF Backed
<1> QED
  BY <1>4, <1>5, <1>6, <1>7, <1>8, <1>9 DEF IInv

(* ... or goes back, since that page is mapped already; ...                *)
LEMMA MapFailsIInv == IInv /\ MapFails => IInv'
<1> SUFFICES ASSUME IInv, MapFails PROVE IInv'
  OBVIOUS
<1>1. /\ call.at = "map" /\ call.block \in Frame
      /\ Pool!Free(call.block)
      /\ call' = [at |-> "idle", bp |-> 0, left |-> 0, block |-> Null, size |-> 0]
      /\ latest' = {} /\ granted' = granted \union latest
      /\ failures' = failures \union {"mapping"}
      /\ UNCHANGED <<kernel_break, kheap_last_page, pdir, tables>>
  BY DEF MapFails, Fail, Return, Idle, At, Call, IInv, Calls
<1>2. Calls' /\ Breaks'
  BY <1>1, PageAssumption DEF IInv, Calls, Breaks, Booting
<1>3. TypeOK'
  BY <1>1, PageAssumption DEF IInv, TypeOK, Pool!Free
<1>4. Owned'
  BY <1>1, BlockReturned DEF IInv
<1>5. Ahead'
  BY <1>1 DEF IInv, Ahead, Translate, TablesAllocated, TablesInUse
<1>6. Fresh' /\ Backed'
  BY <1>1 DEF Fresh, Backed
<1> QED
  BY <1>2, <1>3, <1>4, <1>5, <1>6 DEF IInv

(* ... and when there are as many as needed, the break is moved.           *)
LEMMA GrownIInv == IInv /\ Grown => IInv'
<1> SUFFICES ASSUME IInv, Grown PROVE IInv'
  OBVIOUS
<1>1. /\ call.at = "get" /\ call.left = 0 /\ call.block = Null
      /\ kernel_break' = call.bp
      /\ call' = [at |-> "idle", bp |-> 0, left |-> 0, block |-> Null, size |-> 0]
      /\ latest' = Bytes(kernel_break, call.size)
      /\ granted' = granted \union latest
      /\ UNCHANGED <<kheap_last_page, pdir, tables, avail, held, failures>>
  BY DEF Grown, Return, Idle, At, Call, IInv, Calls, pool
<1>2. /\ call.size \in Nat /\ kernel_break \in Nat /\ kheap_last_page \in Int
      /\ call.bp \in 0 .. KHEAP_PAGE_MAX
      /\ call.bp = kernel_break + call.size
      /\ KHEAP_PAGE_START <= kernel_break /\ KHEAP_PAGE_START \in Nat
      /\ KHEAP_PAGE_MAX \in Nat /\ AddressSpace \in Nat
      /\ KHEAP_PAGE_MAX < AddressSpace /\ KERNEL_PAGE_SIZE \in Nat
  <2>1. /\ call.size \in Increments \union {0} /\ call.bp \in 0 .. KHEAP_PAGE_MAX
        /\ call.bp = kernel_break + call.size
    BY <1>1 DEF IInv, Calls
  <2>2. call.size \in Nat
    <3>1. CASE call.size \in Increments
      <4>1. call.size \in 0 .. AddressSpace - 1
        BY <3>1, HeapAssumption
      <4> QED
        BY <4>1, PageAssumption
    <3>2. CASE call.size = 0
      BY <3>2
    <3> QED
      BY <2>1, <3>1, <3>2
  <2>3. /\ kernel_break \in Nat /\ kheap_last_page \in Int
        /\ KHEAP_PAGE_START <= kernel_break
    BY <1>1, PageAssumption DEF IInv, Breaks, Booting
  <2>4. KHEAP_PAGE_MAX < AddressSpace
    BY PageAssumption
  <2> QED
    BY <2>1, <2>2, <2>3, <2>4, PageAssumption
<1>3. PageOf(call.bp) = kheap_last_page
  <2>1. kheap_last_page + KERNEL_PAGE_SIZE * 0 = PageOf(call.bp)
    BY <1>1 DEF IInv, Calls
  <2> QED
    BY <2>1, <1>2
<1>4. call.bp < kheap_last_page + KERNEL_PAGE_SIZE
  BY <1>2, <1>3, PageOfProps
<1>5. \A byte \in latest' : byte \in kernel_break .. call.bp - 1
  <2>1. kernel_break + call.size <= AddressSpace
    BY <1>2
  <2> QED
    BY <2>1, <1>1, <1>2, BytesUnwrapped
<1>6. Calls' /\ Breaks'
  BY <1>1, <1>2, <1>3, PageAssumption DEF IInv, Calls, Breaks, Booting
<1>7. TypeOK'
  <2>1. latest' \subseteq 0 .. AddressSpace - 1
    BY <1>1, <1>2, BytesTyped
  <2> QED
    BY <2>1, <1>1, <1>2, PageAssumption DEF IInv, TypeOK
<1>8. Owned'
  BY <1>1, SameBlocks DEF IInv
<1>9. Ahead'
  BY <1>1 DEF IInv, Ahead, Translate, TablesAllocated, TablesInUse
<1>10. Fresh'
  <2> SUFFICES ASSUME failures \subseteq {"range", "memory"}
               PROVE  Fresh'
    BY <1>1 DEF Fresh
  <2>1. latest \union granted \subseteq 0 .. kernel_break - 1
    BY DEF IInv, Fresh
  <2>2. latest' \intersect granted' = {}
    BY <2>1, <1>1, <1>2, <1>5
  <2>3. latest' \union granted' \subseteq 0 .. kernel_break' - 1
    BY <2>1, <1>1, <1>2, <1>5
  <2> QED
    BY <2>2, <2>3, <1>1, <1>3 DEF Fresh
<1>11. Backed'
  <2> SUFFICES ASSUME TablesAllocated', failures \intersect {"mapping", "wrap"} = {}
               PROVE  Backed'
    BY <1>1 DEF Backed
  <2>1. /\ TablesAllocated
        /\ HeapPages' = HeapPages /\ \A page : Translate(page)' = Translate(page)
    BY <1>1 DEF TablesAllocated, TablesInUse, HeapPages, Translate
  <2>2. \A byte \in latest' : /\ KHEAP_PAGE_START <= byte
                              /\ byte < kheap_last_page + KERNEL_PAGE_SIZE
    BY <1>2, <1>4, <1>5
  <2> QED
    BY <2>1, <2>2, <1>1 DEF IInv, Backed
<1> QED
  BY <1>6, <1>7, <1>8, <1>9, <1>10, <1>11 DEF IInv

LEMMA UnchangedIInv == IInv /\ UNCHANGED vars => IInv'
  BY DEF IInv, vars, TypeOK, Calls, Breaks, Booting, Fresh, Owned, Ahead, Backed,
         TablesAllocated, TablesInUse, HeapPages, Translate

LEMMA NextIInv == IInv /\ [Next]_vars => IInv'
<1> SUFFICES ASSUME IInv, [Next]_vars PROVE IInv'
  OBVIOUS
<1>1. CASE \E block \in Frame : BootGet(block) \/ GetBlock(block)
  BY <1>1, BootGetIInv, GetBlockIInv
<1>2. CASE BootPanic \/ BootMap \/ Halted
  BY <1>2, BootPanicIInv, BootMapIInv, UnchangedIInv DEF Halted
<1>3. CASE \E increment \in Increments :
        SbrkRefused(increment) \/ SbrkInside(increment) \/ SbrkGrow(increment)
  BY <1>3, SbrkRefusedIInv, SbrkInsideIInv, SbrkGrowIInv
<1>4. CASE NoBlock \/ MapBlock \/ MapFails \/ Grown
  BY <1>4, NoBlockIInv, MapBlockIInv, MapFailsIInv, GrownIInv
<1> QED
  BY <1>1, <1>2, <1>3, <1>4, UnchangedIInv DEF Next

THEOREM Invariance == Spec => []IInv
<1>1. Init => IInv
  BY InitIInv
<1>2. IInv /\ [Next]_vars => IInv'
  BY NextIInv
<1> QED
  BY <1>1, <1>2, PTL DEF Spec

-----------------------------------------------------------------------------
(* The break, the last page, the page tables and the pool keep their types *)
(* whichever call fails.                                                   *)
THEOREM TypeCorrect == Spec => []TypeOK
<1>1. IInv => TypeOK
  BY DEF IInv
<1> QED
  BY <1>1, Invariance, PTL

(* kspace_sbrk returns no byte twice, before a call has failed in its      *)
(* middle or an increment has wrapped.                                     *)
THEOREM FreshSafe == Spec => []FreshMemory
<1>1. IInv => FreshMemory
  BY DEF IInv, Fresh, FreshMemory, Whole
<1> QED
  BY <1>1, Invariance, PTL

(* No block is lost and none is used twice, whichever call of kspace_sbrk  *)
(* fails at whichever step.                                                *)
THEOREM BlocksSafe == Spec => []BlocksAccounted
<1>1. ASSUME IInv PROVE BlocksAccounted
  <2> SUFFICES ASSUME TablesAllocated
               PROVE  held = (TablesInUse \union {call.block}
                              \union {Translate(page) : page \in HeapPages})
                             \ {Null, Absent, Leftover}
    BY DEF BlocksAccounted
  <2>1. /\ held \subseteq Frame /\ Null \notin Frame
        /\ Absent \notin Frame /\ Leftover \notin Frame
        /\ call.block \in Frame \union {Null}
    BY <1>1, HeapAssumption DEF IInv, TypeOK, Absent, Leftover
  <2>2. \A page \in HeapPages : Translate(page) \in Frame \union {Absent, Leftover}
    <3> SUFFICES ASSUME NEW page \in HeapPages
                 PROVE  Translate(page) \in Frame \union {Absent, Leftover}
      OBVIOUS
    <3>1. page \in 0 .. AddressSpace - 1
      BY <1>1, HeapPagesProps DEF IInv, Pages
    <3>2. /\ TableOf(page) \in 0 .. TableOf(AddressSpace - 1)
          /\ EntryOf(page) \in 0 .. EntriesPerTable - 1
      BY <3>1, PageIndex
    <3>3. /\ pdir \in [0 .. TableOf(AddressSpace - 1) -> Frame \union {Null, Absent}]
          /\ tables \in [Frame \union {Null} -> [0 .. EntriesPerTable - 1 -> Entry]]
      BY <1>1 DEF IInv, TypeOK
    <3> QED
      BY <3>2, <3>3 DEF Translate, Entry
  <2>3. \A block \in held :
          block \in (TablesInUse \union {call.block}
                     \union {Translate(page) : page \in HeapPages})
    BY <1>1 DEF IInv, Owned
  <2>4. /\ TablesInUse \subseteq held
        /\ call.block \in Frame => call.block \in held
        /\ \A page \in HeapPages : Translate(page) \in Frame => Translate(page) \in held
    BY <1>1 DEF IInv, Owned
  <2> QED
    BY <2>1, <2>2, <2>3, <2>4
<1> QED
  BY <1>1, Invariance, PTL

(* Every byte kspace_sbrk has returned is in a page with a block of its    *)
(* own.                                                                    *)
THEOREM BackedSafe == Spec => []GrantedBacked
<1>1. ASSUME IInv PROVE GrantedBacked
  <2> SUFFICES ASSUME TablesAllocated, failures \intersect {"mapping", "wrap"} = {},
                      NEW byte \in latest \union granted
               PROVE  /\ Translate(PageOf(byte)) \in held \ TablesInUse
                      /\ \A other \in HeapPages \ {PageOf(byte)} :
                           Translate(other) # Translate(PageOf(byte))
    BY DEF GrantedBacked
  <2> DEFINE page == PageOf(byte)
  <2>1. /\ byte \in Int /\ KHEAP_PAGE_START \in Int /\ kheap_last_page \in Int
        /\ KHEAP_PAGE_START <= byte /\ Aligned(KHEAP_PAGE_START)
        /\ byte < kheap_last_page + KERNEL_PAGE_SIZE
        /\ call.at = "map" => byte < kheap_last_page
        /\ Aligned(kheap_last_page)
    BY <1>1, PageAssumption DEF IInv, Backed, TypeOK, Breaks, Aligned
  <2>2. /\ page \in Int /\ Aligned(page) /\ page <= byte
        /\ PageOf(KHEAP_PAGE_START) = KHEAP_PAGE_START
        /\ PageOf(KHEAP_PAGE_START) <= page
    BY <2>1, PageOfProps, PageOfMonotone
  <2> HIDE DEF page
  <2>3. page <= kheap_last_page
    <3>1. ASSUME kheap_last_page < page PROVE FALSE
      <4>1. kheap_last_page + KERNEL_PAGE_SIZE <= page
        BY <3>1, <2>1, <2>2, AlignedGap
      <4> QED
        BY <4>1, <2>1, <2>2, PageAssumption
    <3> QED
      BY <3>1, <2>1, <2>2
  <2>4. page \in HeapPages
    BY <2>1, <2>2, <2>3 DEF HeapPages, Aligned
  <2>5. page # kheap_last_page \/ call.at # "map"
    BY <2>1, <2>2
  <2>6. Translate(page) \in Frame
    BY <1>1, <2>4, <2>5 DEF IInv, Backed
  <2>7. /\ Translate(page) \in held \ TablesInUse
        /\ \A other \in HeapPages : Translate(other) = Translate(page) => other = page
    BY <1>1, <2>4, <2>6 DEF IInv, Owned
  <2> QED
    BY <2>7 DEF page
<1> QED
  BY <1>1, Invariance, PTL

-----------------------------------------------------------------------------
(* The heap break.  What was returned is all memory up to the break.       *)
Contiguous ==
  latest \union granted =
    IF Booting THEN {} ELSE KHEAP_PAGE_START .. kernel_break - 1

BInv == IInv /\ (Whole => Contiguous)

LEMMA BytesRange ==
  ASSUME NEW first \in Nat, NEW size \in Nat, first + size <= AddressSpace
  PROVE  Bytes(first, size) = first .. first + size - 1
<1>1. \A byte \in Bytes(first, size) : byte \in first .. first + size - 1
  BY BytesUnwrapped
<1>2. ASSUME NEW byte \in first .. first + size - 1
      PROVE  byte \in Bytes(first, size)
  <2>1. /\ byte - first \in 0 .. size - 1 /\ byte = first + (byte - first)
        /\ byte \in 0 .. AddressSpace - 1 /\ AddressSpace \in Nat \ {0}
        /\ byte = AddressSpace * 0 + byte
    BY PageAssumption
  <2>2. byte % AddressSpace = byte
    BY <2>1, ModUnique
  <2> QED
    BY <2>1, <2>2 DEF Bytes
<1> QED
  BY <1>1, <1>2

(* What a step that does not move the break has to leave alone.            *)
LEMMA BreakStutters ==
  ASSUME Contiguous, Booting' = Booting, UNCHANGED kernel_break,
         latest' \union granted' = latest \union granted
  PROVE  Contiguous' /\ UNCHANGED Break!vars
  BY DEF Contiguous, Break!vars, Booting

(* The memory between two breaks.                                          *)
LEMMA BreakMoves ==
  ASSUME IInv, Contiguous, ~Booting, ~Booting', NEW size \in Nat,
         kernel_break' = kernel_break + size, kernel_break' <= KHEAP_PAGE_MAX,
         latest' = Bytes(kernel_break, size), granted' = granted \union latest
  PROVE  Contiguous' /\ Break!Sbrk(size)
<1>1. /\ kernel_break \in Nat /\ KHEAP_PAGE_START \in Nat
      /\ KHEAP_PAGE_START <= kernel_break
      /\ KHEAP_PAGE_MAX \in Nat /\ kernel_break + size <= AddressSpace
  BY PageAssumption DEF IInv, Breaks
<1>2. latest' = kernel_break .. kernel_break + size - 1
  BY <1>1, BytesRange
<1>3. latest \union granted = KHEAP_PAGE_START .. kernel_break - 1
  BY DEF Contiguous
<1>4. KHEAP_PAGE_START .. kernel_break + size - 1
        = (KHEAP_PAGE_START .. kernel_break - 1)
          \union (kernel_break .. kernel_break + size - 1)
  BY <1>1
<1>5. Contiguous'
  <2>1. latest' \union granted' = KHEAP_PAGE_START .. kernel_break + size - 1
    <3>1. latest' \union granted' = latest' \union (latest \union granted)
      OBVIOUS
    <3> QED
      BY <3>1, <1>2, <1>3, <1>4
  <2>2. kernel_break' - 1 = kernel_break + size - 1
    BY <1>1
  <2> QED
    BY <2>1, <2>2 DEF Contiguous
<1>6. /\ latest' \union granted'
           = (latest \union granted) \union (kernel_break .. kernel_break + size - 1)
      /\ call.at \notin {"boot", "bootmap", "panic"}
      /\ call'.at \notin {"boot", "bootmap", "panic"}
  BY <1>2 DEF Booting
<1> QED
  BY <1>5, <1>6 DEF Break!Sbrk

LEMMA BootBreak ==
  ASSUME IInv, Contiguous, BootPanic \/ BootMap \/ \E block \in Frame : BootGet(block)
  PROVE  Contiguous' /\ UNCHANGED Break!vars
<1>1. CASE BootPanic \/ \E block \in Frame : BootGet(block)
  <2>1. /\ call.at = "boot" /\ call'.at \in {"panic", "bootmap"}
        /\ UNCHANGED <<kernel_break, latest, granted>>
    BY <1>1 DEF BootPanic, BootGet, At, Call
  <2> QED
    BY <2>1, BreakStutters DEF Booting
<1>2. CASE BootMap
  <2>1. /\ call.at = "bootmap" /\ call'.at = "idle"
        /\ kernel_break' = KHEAP_PAGE_START
        /\ UNCHANGED <<latest, granted>>
    BY <1>2 DEF BootMap, Idle, At, Call
  <2>2. latest \union granted = {} /\ KHEAP_PAGE_START .. KHEAP_PAGE_START - 1 = {}
    BY <2>1, PageAssumption DEF Contiguous, Booting
  <2>3. Contiguous'
    BY <2>1, <2>2 DEF Contiguous, Booting
  <2> QED
    BY <2>1, <2>3 DEF Break!vars
<1> QED
  BY <1>1, <1>2

(* Inside the last page the break moves, for the break was in it.          *)
LEMMA InsideBreak ==
  ASSUME IInv, Contiguous, NEW increment \in Increments, SbrkInside(increment), Whole'
  PROVE  Contiguous' /\ Break!Sbrk(increment)
<1> DEFINE bp == NewBreak(increment)
<1>1. /\ call.at = "idle" /\ call'.at = "idle"
      /\ bp <= KHEAP_PAGE_MAX /\ PageOf(bp) <= kheap_last_page
      /\ kernel_break' = IF PageOf(bp) = kheap_last_page THEN bp ELSE kernel_break
      /\ latest' = Bytes(kernel_break, increment)
      /\ granted' = granted \union latest
      /\ failures' = failures \union Wrapped(increment)
  BY DEF SbrkInside, Return, Idle, At, Call
<1>2. Whole /\ Wrapped(increment) = {}
  BY <1>1 DEF Whole, Wrapped
<1>3. /\ increment \in Nat /\ increment < AddressSpace
      /\ kernel_break \in Nat /\ kernel_break <= KHEAP_PAGE_MAX
      /\ kheap_last_page = PageOf(kernel_break) /\ kheap_last_page \in Int
  BY <1>1, <1>2, HeapAssumption, PageAssumption DEF IInv, Breaks, Fresh, Whole
<1>4. kernel_break + increment < AddressSpace
  BY <1>2, <1>3, PageAssumption DEF Wrapped
<1>5. bp = kernel_break + increment
  BY <1>3, <1>4, NewBreakCases, PageAssumption
<1>6. PageOf(kernel_break) <= PageOf(bp) /\ PageOf(bp) \in Int
  BY <1>3, <1>5, PageOfMonotone, PageOfProps
<1> HIDE DEF bp
<1>7. kernel_break' = kernel_break + increment /\ kernel_break' <= KHEAP_PAGE_MAX
  BY <1>1, <1>3, <1>5, <1>6
<1> QED
  BY <1>1, <1>3, <1>7, BreakMoves DEF Booting

(* A call that needed pages moves it when it has them all.                 *)
LEMMA GrownBreak ==
  ASSUME IInv, Contiguous, Grown
  PROVE  Contiguous' /\ [Break!Next]_(Break!vars)
<1>1. /\ call.at = "get" /\ call'.at = "idle"
      /\ kernel_break' = call.bp
      /\ latest' = Bytes(kernel_break, call.size)
      /\ granted' = granted \union latest
  BY DEF Grown, Return, Idle, At, Call
<1>2. /\ call.size \in Increments \union {0} /\ call.bp = kernel_break + call.size
      /\ call.bp <= KHEAP_PAGE_MAX /\ call.size \in Nat /\ kernel_break \in Nat
  <2>1. /\ call.size \in Increments \union {0} /\ call.bp \in 0 .. KHEAP_PAGE_MAX
        /\ call.bp = kernel_break + call.size
        /\ kernel_break \in 0 .. KHEAP_PAGE_MAX
    BY <1>1 DEF IInv, Calls, Breaks
  <2>2. call.size \in 0 .. AddressSpace - 1 \/ call.size = 0
    BY <2>1, HeapAssumption
  <2> QED
    BY <2>1, <2>2, PageAssumption
<1>3. Contiguous' /\ Break!Sbrk(call.size)
  BY <1>1, <1>2, BreakMoves DEF Booting
<1>4. CASE call.size \in Increments
  BY <1>3, <1>4 DEF Break!Next
<1>5. CASE call.size = 0
  <2>1. kernel_break .. kernel_break + 0 - 1 = {} /\ kernel_break + 0 = kernel_break
    BY <1>2
  <2>2. /\ call.at \notin {"boot", "bootmap", "panic"}
        /\ call'.at \notin {"boot", "bootmap", "panic"}
    BY <1>1
  <2>3. UNCHANGED Break!vars
    BY <2>1, <2>2, <1>2, <1>3, <1>5 DEF Break!Sbrk, Break!vars
  <2> QED
    BY <2>3, <1>3
<1> QED
  BY <1>2, <1>4, <1>5

(* No other step of a call moves it, the one that fails included.          *)
LEMMA CallBreak ==
  ASSUME IInv, Contiguous,
         \/ \E increment \in Increments : SbrkRefused(increment) \/ SbrkGrow(increment)
         \/ \E block \in Frame : GetBlock(block)
         \/ NoBlock \/ MapBlock \/ MapFails
  PROVE  Contiguous' /\ UNCHANGED Break!vars
<1>1. /\ call.at \in {"idle", "get", "map"} /\ call'.at \in {"idle", "get", "map"}
      /\ UNCHANGED kernel_break
      /\ latest' \union granted' = latest \union granted
  <2>1. CASE \E increment \in Increments : SbrkRefused(increment)
    BY <2>1 DEF SbrkRefused, Fail, Return, Idle, At, Call
  <2>2. CASE \E increment \in Increments : SbrkGrow(increment)
    BY <2>2 DEF SbrkGrow, Idle, At, Call
  <2>3. CASE \E block \in Frame : GetBlock(block)
    BY <2>3 DEF GetBlock, IInv, Calls
  <2>4. CASE NoBlock
    BY <2>4 DEF NoBlock, Fail, Return, Idle, At, Call
  <2>5. CASE MapBlock
    BY <2>5 DEF MapBlock, Call
  <2>6. CASE MapFails
    BY <2>6 DEF MapFails, Fail, Return, Idle, At, Call
  <2> QED
    BY <2>1, <2>2, <2>3, <2>4, <2>5, <2>6
<1> QED
  BY <1>1, BreakStutters DEF Booting

(* A call that has failed in its middle or wrapped is never forgotten.     *)
LEMMA WholeBefore == [Next]_vars /\ Whole' => Whole
<1>1. [Next]_vars => failures \subseteq failures'
  BY DEF Next, vars, BootGet, BootPanic, BootMap, Halted, SbrkRefused, SbrkInside,
         SbrkGrow, GetBlock, NoBlock, MapBlock, MapFails, Grown, Fail
<1> QED
  BY <1>1 DEF Whole

LEMMA BNextHolds ==
  ASSUME BInv, [Next]_vars
  PROVE  BInv' /\ [Break!Next \/ ~Whole']_(Break!vars)
<1>1. IInv'
  BY NextIInv DEF BInv
<1> SUFFICES ASSUME Whole' PROVE Contiguous' /\ [Break!Next]_(Break!vars)
  BY <1>1 DEF BInv
<1>2. IInv /\ Contiguous
  BY WholeBefore DEF BInv
<1>3. CASE BootPanic \/ BootMap \/ \E block \in Frame : BootGet(block)
  BY <1>2, <1>3, BootBreak
<1>4. CASE \E increment \in Increments : SbrkInside(increment)
  BY <1>2, <1>4, InsideBreak DEF Break!Next
<1>5. CASE \/ \E increment \in Increments : SbrkRefused(increment) \/ SbrkGrow(increment)
           \/ \E block \in Frame : GetBlock(block)
           \/ NoBlock \/ MapBlock \/ MapFails
  BY <1>2, <1>5, CallBreak
<1>6. CASE Grown
  BY <1>2, <1>6, GrownBreak
<1>7. CASE Halted \/ UNCHANGED vars
  BY <1>2, <1>7 DEF Halted, vars, Contiguous, Booting, Break!vars
<1> QED
  BY <1>3, <1>4, <1>5, <1>6, <1>7 DEF Next

LEMMA InitBreak == Init => BInv /\ Break!Init
<1> SUFFICES ASSUME Init PROVE BInv /\ Break!Init
  OBVIOUS
<1>1. call.at = "boot" /\ latest = {} /\ granted = {}
  BY DEF Init, At, Call
<1> QED
  BY <1>1, InitIInv DEF BInv, Contiguous, Booting, Break!Init

(* What kspace_sbrk does is what the heap allocator relies on: up to the   *)
(* first call that fails in its middle or wraps, every call moves the      *)
(* break by what was asked for and returns the memory it has passed, or it *)
(* changes nothing.                                                        *)
THEOREM BreakSafe == Spec => BreakKept
<1>1. Init => BInv /\ Break!Init
  BY InitBreak
<1>2. BInv /\ [Next]_vars => BInv' /\ [Break!Next \/ ~Whole']_(Break!vars)
  BY BNextHolds
<1> QED
  BY <1>1, <1>2, PTL DEF Spec, BreakKept

-----------------------------------------------------------------------------
(* Requests of at most a page.  The last page that is mapped, or was when  *)
(* its turn came; no table and no page behind it is present, whichever     *)
(* block the tables are in.                                                *)
LastMapped ==
  IF call.at = "map" THEN kheap_last_page - KERNEL_PAGE_SIZE ELSE kheap_last_page

Clear ==
  /\ \A t \in DOMAIN pdir : pdir[t] # Absent => t <= TableOf(LastMapped)
  /\ \A page \in Pages : page > LastMapped => Translate(page) = Absent

LEMMA TableOfMonotone ==
  ASSUME NEW x \in Int, NEW y \in Int, x <= y
  PROVE  TableOf(x) \in Int /\ TableOf(y) \in Int /\ TableOf(x) <= TableOf(y)
<1>1. /\ PageNumber(x) \in Int /\ PageNumber(y) \in Int
      /\ PageNumber(x) <= PageNumber(y)
  BY DivMod, DivMonotone, PageAssumption DEF PageNumber
<1> QED
  BY <1>1, DivMod, DivMonotone, PageAssumption DEF TableOf

(* Mapping the next page leaves all behind it clear.                       *)
LEMMA ClearKept ==
  ASSUME IInv, PageRequests, Clear, NEW page \in Pages, NEW block \in Frame,
         MapPage(page, block), page > LastMapped, LastMapped' = page
  PROVE  Clear'
<1> DEFINE d == TableOf(page)
<1>1. /\ pdir \in [0 .. TableOf(AddressSpace - 1) -> Frame \union {Null, Absent}]
      /\ tables \in [Frame \union {Null} -> [0 .. EntriesPerTable - 1 -> Entry]]
      /\ avail \subseteq Frame /\ Absent \notin Frame \union {Null}
  BY HeapAssumption DEF IInv, TypeOK, Absent
<1>2. /\ page \in Int /\ LastMapped \in Int
      /\ TableOf(LastMapped) \in Int /\ d \in Int /\ TableOf(LastMapped) <= d
      /\ d \in 0 .. TableOf(AddressSpace - 1)
      /\ EntryOf(page) \in 0 .. EntriesPerTable - 1
  <2>1. page \in Int /\ LastMapped \in Int /\ page \in 0 .. AddressSpace - 1
    BY PageAssumption DEF IInv, Breaks, LastMapped, Pages
  <2> QED
    BY <2>1, TableOfMonotone, PageIndex
<1>3. ASSUME NEW t \in DOMAIN pdir', pdir'[t] # Absent
      PROVE  t <= d
  <2>1. t \in DOMAIN pdir /\ (t = d \/ pdir[t] # Absent)
    BY <1>1, <1>2, <1>3 DEF MapPage, MapInTable, MapInNewTable
  <2>2. pdir[t] # Absent => t <= TableOf(LastMapped)
    BY <2>1 DEF Clear
  <2>3. t \in Int
    BY <1>1, <2>1
  <2> HIDE DEF d
  <2> QED
    BY <2>1, <2>2, <2>3, <1>2
<1>4. ASSUME NEW other \in Pages, other > page
      PROVE  Translate(other)' = Absent
  <2> DEFINE u == TableOf(other)
             e == EntryOf(other)
  <2>1. /\ u \in 0 .. TableOf(AddressSpace - 1) /\ e \in 0 .. EntriesPerTable - 1
        /\ u \in Int /\ d <= u /\ other \in Int
    <3>1. other \in Int /\ other \in 0 .. AddressSpace - 1
      BY PageAssumption DEF Pages
    <3> QED
      BY <3>1, <1>2, <1>4, TableOfMonotone, PageIndex
  <2>2. Translate(other) = Absent
    BY <2>1, <1>2, <1>4 DEF Clear
  <2>3. CASE pdir'[u] = Absent
    BY <2>3 DEF Translate
  <2>4. CASE pdir'[u] # Absent
    <3>1. u \in DOMAIN pdir'
      BY <1>1, <2>1 DEF MapPage, MapInTable, MapInNewTable
    <3>2. u = d
      BY <2>1, <2>4, <3>1, <1>2, <1>3
    <3>3. e # EntryOf(page)
      BY <3>2, <1>2, <1>4, <2>1, PageIndexUnique
    <3>4. CASE MapInTable(page, block)
      <4>1. /\ pdir' = pdir /\ pdir[d] # Absent
            /\ tables' = [tables EXCEPT ![pdir[d]][EntryOf(page)] = block]
        BY <3>4 DEF MapInTable
      <4>2. tables[pdir[d]][e] = Absent
        BY <2>2, <3>2, <4>1 DEF Translate
      <4>3. pdir[d] \in Frame \union {Null}
        BY <1>1, <1>2, <4>1
      <4>4. tables'[pdir[d]][e] = Absent
        BY <4>1, <4>2, <4>3, <3>3, <1>1, <2>1
      <4> QED
        BY <4>1, <4>4, <3>2 DEF Translate
    <3>5. CASE MapInNewTable(page, block)
      <4>1. PICK t \in avail \union {Null}, stale \in Leftovers :
              /\ pdir' = [pdir EXCEPT ![d] = t]
              /\ tables' = [tables EXCEPT ![t] =
                    [k \in 0 .. EntriesPerTable - 1 |->
                       IF k = EntryOf(page) THEN block
                       ELSE IF k \in stale THEN Leftover ELSE Absent]]
        BY <3>5 DEF MapInNewTable
      <4>2. stale = {}
        BY DEF PageRequests
      <4>3. pdir'[d] = t /\ t \in Frame \union {Null}
        BY <4>1, <1>1, <1>2
      <4>4. tables'[t][e] = Absent
        BY <4>1, <4>2, <4>3, <3>3, <1>1, <2>1
      <4> QED
        BY <4>3, <4>4, <3>2 DEF Translate
    <3> QED
      BY <3>4, <3>5 DEF MapPage
  <2> QED
    BY <2>3, <2>4
<1> QED
  BY <1>3, <1>4 DEF Clear

(* Nothing moves the last page or what the tables show.                    *)
LEMMA ClearSame ==
  ASSUME Clear, LastMapped' = LastMapped, UNCHANGED <<pdir, tables>>
  PROVE  Clear'
  BY DEF Clear, Translate

LEMMA OnePageCalls ==
  ASSUME PageRequests, NEW size \in Increments \union {0}
  PROVE  size \in 0 .. KERNEL_PAGE_SIZE
<1>1. CASE size \in Increments
  BY <1>1 DEF PageRequests
<1>2. CASE size = 0
  BY <1>2, PageAssumption
<1> QED
  BY <1>1, <1>2

LEMMA BootClear ==
  ASSUME PageRequests, IInv, Clear,
         BootPanic \/ BootMap \/ \E block \in Frame : BootGet(block)
  PROVE  Clear'
<1>1. CASE BootPanic \/ \E block \in Frame : BootGet(block)
  <2>1. /\ call.at = "boot" /\ call'.at \in {"panic", "bootmap"}
        /\ UNCHANGED <<kheap_last_page, pdir, tables>>
    BY <1>1 DEF BootPanic, BootGet, At, Call
  <2> QED
    BY <2>1, ClearSame DEF LastMapped
<1>2. CASE BootMap
  <2>1. /\ call.at = "bootmap" /\ call.block \in Frame
        /\ MapPage(KHEAP_PAGE_START, call.block)
        /\ kheap_last_page' = KHEAP_PAGE_START /\ call'.at = "idle"
        /\ kheap_last_page = KHEAP_PAGE_START - KERNEL_PAGE_SIZE
    BY <1>2 DEF BootMap, Idle, At, Call, IInv, Calls, Breaks, Booting
  <2>2. /\ KHEAP_PAGE_START \in Pages /\ KHEAP_PAGE_START \in Nat
        /\ KHEAP_PAGE_START > kheap_last_page
    BY <2>1, PageAssumption DEF Pages, Aligned
  <2> QED
    BY <2>1, <2>2, ClearKept DEF LastMapped
<1> QED
  BY <1>1, <1>2

(* A call that needs a page needs one, and has got none when it asks.      *)
LEMMA OnePageAhead ==
  ASSUME PageRequests, IInv, call.at = "get", call.left > 0
  PROVE  kheap_last_page = PageOf(kernel_break)
<1>1. /\ kheap_last_page + KERNEL_PAGE_SIZE * call.left = PageOf(call.bp)
      /\ call.bp = kernel_break + call.size
      /\ call.left \in Nat /\ call.size \in Increments \union {0}
  BY PageAssumption DEF IInv, Calls
<1>2. call.size \in 0 .. KERNEL_PAGE_SIZE
  BY <1>1, OnePageCalls
<1>3. /\ PageOf(kernel_break) <= kheap_last_page /\ kheap_last_page \in Int
      /\ kernel_break \in Int /\ Aligned(kheap_last_page)
  BY PageAssumption DEF IInv, Breaks, Booting
<1>4. /\ PageOf(kernel_break) \in Int /\ PageOf(call.bp) \in Int
      /\ Aligned(PageOf(kernel_break))
      /\ kernel_break < PageOf(kernel_break) + KERNEL_PAGE_SIZE
      /\ PageOf(call.bp) <= call.bp
  BY <1>1, <1>2, <1>3, PageOfProps, PageAssumption
<1>5. kheap_last_page + KERNEL_PAGE_SIZE <= PageOf(call.bp)
  BY <1>1, <1>3, OneMorePage, PageAssumption
<1>6. kheap_last_page < PageOf(kernel_break) + KERNEL_PAGE_SIZE
  BY <1>1, <1>2, <1>3, <1>4, <1>5, PageAssumption
<1>7. ASSUME PageOf(kernel_break) < kheap_last_page
      PROVE  FALSE
  BY <1>3, <1>4, <1>6, <1>7, AlignedGap, PageAssumption
<1> QED
  BY <1>3, <1>4, <1>7

LEMMA LoopClear ==
  ASSUME PageRequests, IInv, Clear, Whole,
         NoBlock \/ MapBlock \/ MapFails \/ \E block \in Frame : GetBlock(block)
  PROVE  Clear' /\ Whole'
<1>1. CASE \E block \in Frame : GetBlock(block)
  <2>1. /\ call.at = "get" /\ call'.at = "map"
        /\ kheap_last_page' = kheap_last_page + KERNEL_PAGE_SIZE
        /\ UNCHANGED <<pdir, tables, failures>>
    BY <1>1 DEF GetBlock, IInv, Calls
  <2>2. LastMapped' = LastMapped
    BY <2>1, PageAssumption DEF LastMapped, IInv, Breaks
  <2> QED
    BY <2>1, <2>2, ClearSame DEF Whole
<1>2. CASE NoBlock
  <2>1. /\ call.at = "get" /\ call.left > 0 /\ call'.at = "idle"
        /\ failures' = failures \union
             {IF kheap_last_page = PageOf(kernel_break) THEN "memory" ELSE "partial"}
        /\ UNCHANGED <<kheap_last_page, pdir, tables>>
    BY <1>2 DEF NoBlock, Fail, Return, Idle, At, Call
  <2>2. Clear'
    BY <2>1, ClearSame DEF LastMapped
  <2> QED
    BY <2>1, <2>2, OnePageAhead DEF Whole
<1>3. CASE MapBlock
  <2>1. /\ call.at = "map" /\ call.block \in Frame /\ call'.at = "get"
        /\ MapPage(kheap_last_page, call.block)
        /\ UNCHANGED <<kheap_last_page, failures>>
    BY <1>3 DEF MapBlock, Call, IInv, Calls
  <2>2. kheap_last_page \in Pages /\ kheap_last_page \in Int
    BY <2>1, HeapPagesProps DEF IInv, Booting, Breaks
  <2>3. Clear'
    BY <2>1, <2>2, ClearKept, PageAssumption DEF LastMapped
  <2> QED
    BY <2>1, <2>3 DEF Whole
<1>4. CASE MapFails
  <2>1. call.at = "map" /\ AlreadyMapped(kheap_last_page)
    BY <1>4 DEF MapFails
  <2>2. kheap_last_page \in Pages /\ kheap_last_page \in Int
    BY <2>1, HeapPagesProps DEF IInv, Booting, Breaks
  <2>3. Translate(kheap_last_page) = Absent
    BY <2>1, <2>2, PageAssumption DEF Clear, LastMapped
  <2> QED
    BY <2>1, <2>3 DEF AlreadyMapped, Translate
<1> QED
  BY <1>1, <1>2, <1>3, <1>4

LEMMA SbrkClear ==
  ASSUME PageRequests, IInv, Clear, Whole, NEW increment \in Increments,
         SbrkRefused(increment) \/ SbrkInside(increment) \/ SbrkGrow(increment)
  PROVE  Clear' /\ Whole'
<1>1. /\ call.at = "idle" /\ call'.at \in {"idle", "get"}
      /\ UNCHANGED <<kheap_last_page, pdir, tables>>
      /\ failures' \subseteq failures \union {"range"} \union Wrapped(increment)
  BY DEF SbrkRefused, SbrkInside, SbrkGrow, Fail, Return, Idle, At, Call
<1>2. Wrapped(increment) = {}
  <2>1. increment \in 0 .. KERNEL_PAGE_SIZE /\ KHEAP_PAGE_MAX + KERNEL_PAGE_SIZE < AddressSpace
    BY DEF PageRequests
  <2>2. kernel_break \in 0 .. KHEAP_PAGE_MAX
    BY DEF IInv, Breaks
  <2> QED
    BY <2>1, <2>2, PageAssumption DEF Wrapped
<1>3. Clear'
  BY <1>1, ClearSame DEF LastMapped
<1> QED
  BY <1>1, <1>2, <1>3 DEF Whole

LEMMA NextClear ==
  ASSUME PageRequests, IInv, Clear, Whole, [Next]_vars
  PROVE  Clear' /\ Whole'
<1>1. CASE BootPanic \/ BootMap \/ \E block \in Frame : BootGet(block)
  <2>1. UNCHANGED failures
    BY <1>1 DEF BootPanic, BootMap, BootGet
  <2> QED
    BY <1>1, <2>1, BootClear DEF Whole
<1>2. CASE \E increment \in Increments :
        SbrkRefused(increment) \/ SbrkInside(increment) \/ SbrkGrow(increment)
  BY <1>2, SbrkClear
<1>3. CASE NoBlock \/ MapBlock \/ MapFails \/ \E block \in Frame : GetBlock(block)
  BY <1>3, LoopClear
<1>4. CASE Grown
  <2>1. /\ call.at = "get" /\ call'.at = "idle"
        /\ UNCHANGED <<kheap_last_page, pdir, tables, failures>>
    BY <1>4 DEF Grown, Return, Idle, At, Call
  <2> QED
    BY <2>1, ClearSame DEF LastMapped, Whole
<1>5. CASE Halted \/ UNCHANGED vars
  BY <1>5 DEF Halted, vars, Clear, LastMapped, Translate, Whole
<1> QED
  BY <1>1, <1>2, <1>3, <1>4, <1>5 DEF Next

(* If no request is larger than a page, kspace_sbrk implements the heap    *)
(* break: no call ever fails in its middle or wraps.                       *)
THEOREM ImplementsBreak ==
  ASSUME PageRequests
  PROVE  Spec => BreakSpec
<1>1. Init => Clear /\ Whole
  <2> SUFFICES ASSUME Init PROVE Clear /\ Whole
    OBVIOUS
  <2>1. failures = {} /\ pdir = [t \in 0 .. TableOf(AddressSpace - 1) |-> Absent]
    BY DEF Init
  <2> QED
    BY <2>1, PageIndex DEF Clear, Translate, Pages, Whole
<1>2. IInv /\ Clear /\ Whole /\ [Next]_vars => Clear' /\ Whole'
  BY NextClear
<1>3. [Break!Next \/ ~Whole']_(Break!vars) /\ Whole' => [Break!Next]_(Break!vars)
  OBVIOUS
<1> QED
  BY <1>1, <1>2, <1>3, Invariance, BreakSafe, PTL DEF Spec, BreakKept, BreakSpec, Break!Spec
=============================================================================
