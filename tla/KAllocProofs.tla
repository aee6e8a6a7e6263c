---------------------------- MODULE KAllocProofs ----------------------------
(***************************************************************************)
(* Proofs about the kernel heap allocator of KAlloc, for every size of the *)
(* heap and of the address space, every scale of header pointers and every *)
(* set of requests.                                                        *)
(*                                                                         *)
(* As long as the list of free blocks is intact, it is a circle of headers *)
(* in the order of their addresses, and the free blocks, the block on its  *)
(* way into the list and the blocks of the callers tile the heap.  What    *)
(* is on the list is defined by following it from base, a recursion; that  *)
(* the recursion is well defined, and that it reaches every header of such *)
(* a circle and nothing else, is proved by the least counterexample.       *)
(***************************************************************************)
EXTENDS KAlloc, WellFoundedInduction, TLAPS

-----------------------------------------------------------------------------
(* Facts about division by any positive number.                            *)

(* Quotient and remainder of a number.                                     *)
LEMMA DivMod ==
  ASSUME NEW d \in Nat \ {0}, NEW x \in Int
  PROVE  /\ x \div d \in Int
         /\ x % d \in 0 .. d - 1
         /\ x = d * (x \div d) + (x % d)
  OBVIOUS

(* A number below the divisor is the remainder of what it is added to.     *)
LEMMA ModUnique ==
  ASSUME NEW d \in Nat \ {0}, NEW q \in Int, NEW r \in 0 .. d - 1
  PROVE  (d * q + r) % d = r
  OBVIOUS

-----------------------------------------------------------------------------
(* Where headers are.                                                      *)

Cells == Header(Base) \union (HeapStart .. HeapEnd - 1)
Places == HeapStart .. HeapEnd - HEADER
Spots == {h \in Cells : h + 1 \in Cells}
Words == 0 .. AddressSpace - 1

-----------------------------------------------------------------------------
(* Circles of headers.                                                     *)

(* The headers F are linked in m in the order of their addresses, the last *)
(* one to base.                                                            *)
Circle(m, F) ==
  /\ Base \in F /\ F \subseteq {Base} \union Places
  /\ \A h \in F :
       /\ Link(m, h) \in F
       /\ IF Link(m, h) = Base
          THEN \A g \in F : g <= h
          ELSE /\ h < Link(m, h)
               /\ \A g \in F : g <= h \/ Link(m, h) <= g

(* A set of numbers that is not empty has a least element.                 *)
LEMMA NatLeast ==
  ASSUME NEW T, T \subseteq Nat, T # {}
  PROVE  \E x \in T : \A y \in T : x <= y
<1> DEFINE R == OpToRel(<, Nat)
<1>1. IsWellFoundedOn(R, Nat)
  BY NatLessThanWellFounded
<1> HIDE DEF R
<1>2. PICK x \in T : \A y \in T : ~(<<y, x>> \in R)
  BY <1>1, WFMin
<1>3. \A y \in T : ~(y < x)
  BY <1>2 DEF R, OpToRel
<1> QED
  BY <1>2, <1>3

(* The walk from base over the links of m, n steps of it.                  *)
IsWalk(f, m, n) ==
  f = [k \in 0 .. n |-> IF k = 0 THEN Base ELSE Link(m, f[k - 1])]

(* There is one of every length: the recursion of Round is well defined.   *)
LEMMA WalkExists ==
  ASSUME NEW m, NEW n \in Nat
  PROVE  \E f : IsWalk(f, m, n)
<1> DEFINE T == {i \in Nat : ~ \E f : IsWalk(f, m, i)}
<1>1. SUFFICES ASSUME T # {} PROVE FALSE
  OBVIOUS
<1>2. PICK i \in T : \A j \in T : i <= j
  BY <1>1, NatLeast
<1>3. i # 0
  <2>1. IsWalk([k \in 0 .. 0 |-> Base], m, 0)
    BY DEF IsWalk
  <2> QED
    BY <2>1
<1>4. PICK f : IsWalk(f, m, i - 1)
  BY <1>2, <1>3
<1> DEFINE g == [k \in 0 .. i |-> IF k = 0 THEN Base ELSE Link(m, f[k - 1])]
<1>5. \A k \in 0 .. i - 1 : g[k] = f[k]
  BY <1>4, <1>2 DEF IsWalk
<1>6. IsWalk(g, m, i)
  <2>1. \A k \in 0 .. i : k # 0 => Link(m, f[k - 1]) = Link(m, g[k - 1])
    BY <1>5, <1>2
  <2> QED
    BY <2>1 DEF IsWalk
<1> QED
  BY <1>6, <1>2

(* What Round gathers are the steps of such a walk.                        *)
LEMMA RoundIsWalk ==
  ASSUME NEW m
  PROVE  \E f : /\ Round(m) = {f[k] : k \in 0 .. HeapEnd - HeapStart}
                /\ f[0] = Base
                /\ \A k \in 1 .. HeapEnd - HeapStart : f[k] = Link(m, f[k - 1])
<1> DEFINE N == HeapEnd - HeapStart
           f == CHOOSE x : x = [k \in 0 .. N |-> IF k = 0 THEN Base ELSE Link(m, x[k - 1])]
<1>1. N \in Nat
  BY HeapAssumption
<1>2. Round(m) = {f[k] : k \in 0 .. N}
  BY DEF Round
<1>3. IsWalk(f, m, N)
  BY <1>1, WalkExists DEF IsWalk
<1> HIDE DEF f, N
<1>4. f[0] = Base
  BY <1>3, <1>1 DEF IsWalk
<1>5. \A k \in 1 .. N : f[k] = Link(m, f[k - 1])
  BY <1>3, <1>1 DEF IsWalk
<1> QED
  BY <1>2, <1>4, <1>5 DEF N

(* Following a circle from base reaches all its headers and no others.     *)
LEMMA CircleRound ==
  ASSUME NEW m, NEW F, Circle(m, F)
  PROVE  Round(m) = F
<1> DEFINE N == HeapEnd - HeapStart
<1>1. N \in Nat /\ Base \in Nat /\ HeapStart \in Nat /\ Base < HeapStart
  BY HeapAssumption DEF HEADER
<1>2. F \subseteq Nat /\ \A h \in F : h # Base => h \in Places
  BY <1>1 DEF Circle, Places
<1>3. PICK f : /\ Round(m) = {f[k] : k \in 0 .. N}
               /\ f[0] = Base
               /\ \A k \in 1 .. N : f[k] = Link(m, f[k - 1])
  BY RoundIsWalk
<1> HIDE DEF N
<1>4. \A k \in 0 .. N : f[k] \in F
  <2> DEFINE T == {k \in 0 .. N : f[k] \notin F}
  <2>1. SUFFICES ASSUME T # {} PROVE FALSE
    OBVIOUS
  <2>2. PICK k \in T : \A j \in T : k <= j
    <3>1. T \subseteq Nat
      BY <1>1
    <3> QED
      BY <3>1, <2>1, NatLeast
  <2>3. k # 0
    BY <1>3 DEF Circle
  <2>4. k - 1 \in 0 .. N /\ k \in 1 .. N /\ f[k - 1] \in F
    BY <2>2, <2>3, <1>1
  <2> QED
    BY <2>4, <2>2, <1>3 DEF Circle
<1>5. F \subseteq Round(m)
  <2>1. SUFFICES ASSUME NEW h \in F, \A k \in 0 .. N : f[k] # h PROVE FALSE
    BY <1>3
  <2>2. h \in Places /\ h > Base
    BY <2>1, <1>2, <1>3, <1>1 DEF Places
  <2> DEFINE T == {k \in 0 .. N : ~(f[k] < h /\ (k # 0 => f[k] >= HeapStart + k - 1))}
  <2>3. T = {}
    <3>1. SUFFICES ASSUME T # {} PROVE FALSE
      OBVIOUS
    <3>2. PICK k \in T : \A j \in T : k <= j
      <4>1. T \subseteq Nat
        BY <1>1
      <4> QED
        BY <4>1, <3>1, NatLeast
    <3>3. k # 0
      BY <3>2, <1>3, <2>2
    <3>4. k - 1 \in 0 .. N /\ k \in 1 .. N /\ k - 1 \notin T /\ k \in Nat
      BY <3>2, <3>3, <1>1
    <3>5. /\ f[k - 1] \in F /\ f[k - 1] < h
          /\ k - 1 # 0 => f[k - 1] >= HeapStart + (k - 1) - 1
      BY <3>4, <1>4
    <3>6. f[k] = Link(m, f[k - 1]) /\ f[k] \in F /\ f[k] # h
      BY <3>4, <1>3, <1>4, <2>1
    <3>7. k \in 0 .. N /\ ~(f[k] < h /\ (k # 0 => f[k] >= HeapStart + k - 1))
      BY <3>2
    <3> HIDE DEF T
    <3>8. f[k - 1] \in Nat /\ h \in Nat /\ f[k] \in Nat
      BY <1>2, <3>5, <3>6, <2>1
    <3>9. f[k] # Base
      BY <3>5, <3>6, <3>8, <2>1 DEF Circle
    <3>10. f[k - 1] < f[k] /\ f[k] <= h
      BY <3>9, <3>5, <3>6, <3>8, <2>1 DEF Circle
    <3>11. f[k] \in Places
      BY <3>6, <3>9, <1>2
    <3>12. f[k] >= HeapStart /\ HeapStart \in Nat
      BY <3>11, HeapAssumption DEF Places, HEADER
    <3>13. f[k] >= HeapStart + k - 1
      BY <3>10, <3>12, <3>5, <3>8, <3>3, <3>4
    <3>14. f[k] < h
      BY <3>10, <3>6, <3>8
    <3> QED
      BY <3>13, <3>14, <3>7
  <2>4. N \in 0 .. N /\ f[N] < h /\ (N # 0 => f[N] >= HeapStart + N - 1)
    BY <2>3, <1>1
  <2>5. h >= HeapStart /\ h <= HeapEnd - 2 /\ h \in Nat
    BY <2>2, HeapAssumption DEF Places, HEADER
  <2>6. f[N] \in Nat
    BY <2>4, <1>4, <1>2
  <2> QED
    BY <2>4, <2>5, <2>6, <1>1, HeapAssumption DEF N
<1> QED
  BY <1>3, <1>4, <1>5

(* A circle depends on its own links only.                                 *)
LEMMA CircleSame ==
  ASSUME NEW m, NEW n, NEW F, Circle(m, F), \A h \in F : Link(n, h) = Link(m, h)
  PROVE  Circle(n, F)
  BY DEF Circle

(* Its headers are numbers, base the least of them.                        *)
LEMMA CircleNat ==
  ASSUME NEW m, NEW F, Circle(m, F)
  PROVE  /\ F \subseteq Nat
         /\ \A h \in F : h # Base => h \in Places /\ h > Base
         /\ Base \in F /\ Base \in Nat
  BY HeapAssumption DEF Circle, Places, HEADER

(* Unlinking the header h behind p, as kernel_alloc does.                  *)
LEMMA CircleRemove ==
  ASSUME NEW m, NEW n, NEW F, Circle(m, F),
         NEW p \in F, NEW h, h = Link(m, p), h # Base,
         Link(n, p) = Link(m, h),
         \A g \in F \ {p} : Link(n, g) = Link(m, g)
  PROVE  Circle(n, F \ {h}) /\ p # h /\ h \in F
<1>1. F \subseteq Nat /\ h \in F /\ Link(m, h) \in F
  BY CircleNat DEF Circle
<1>2. p < h /\ \A g \in F : g <= p \/ h <= g
  BY DEF Circle
<1>3. p # h
  BY <1>1, <1>2
<1>4. ASSUME NEW g \in F \ {h}, g # p
      PROVE  Link(m, g) # h
  <2>1. SUFFICES ASSUME Link(m, g) = h PROVE FALSE
    OBVIOUS
  <2>2. g < h /\ \A x \in F : x <= g \/ h <= x
    BY <2>1 DEF Circle
  <2> QED
    BY <2>2, <1>1, <1>2, <1>4
<1>5. ASSUME NEW g \in F \ {h}, g # p
      PROVE  /\ Link(n, g) \in F \ {h}
             /\ IF Link(n, g) = Base
                THEN \A x \in F \ {h} : x <= g
                ELSE g < Link(n, g) /\ \A x \in F \ {h} : x <= g \/ Link(n, g) <= x
  BY <1>4, <1>5 DEF Circle
<1>6. Link(n, p) \in F \ {h}
  BY <1>1 DEF Circle
<1>7. CASE Link(m, h) = Base
  <2>1. \A x \in F : x <= h
    BY <1>7, <1>1 DEF Circle
  <2>2. \A x \in F \ {h} : x <= p
    BY <2>1, <1>1, <1>2
  <2> QED
    BY <2>2, <1>3, <1>5, <1>6, <1>7, <1>1 DEF Circle
<1>8. CASE Link(m, h) # Base
  <2>1. h < Link(m, h) /\ \A x \in F : x <= h \/ Link(m, h) <= x
    BY <1>8, <1>1 DEF Circle
  <2>2. p < Link(n, p)
    <3>1. p \in Nat /\ h \in Nat /\ Link(m, h) \in Nat
      BY <1>1
    <3>2. p < h /\ h < Link(m, h)
      BY <2>1, <1>2
    <3> QED
      BY <3>1, <3>2
  <2>3. ASSUME NEW x \in F, x # h PROVE x <= p \/ Link(n, p) <= x
    <3>1. x \in Nat /\ h \in Nat /\ p \in Nat /\ Link(m, h) \in Nat
      BY <1>1
    <3>2. x <= p \/ h < x
      BY <3>1, <1>2, <2>3
    <3> QED
      BY <3>1, <3>2, <2>1
  <2> QED
    BY <2>2, <2>3, <1>3, <1>5, <1>6, <1>8, <1>1 DEF Circle
<1> QED
  BY <1>7, <1>8

(* Linking the header b behind p, where kernel_free finds its place.       *)
LEMMA CircleInsert ==
  ASSUME NEW m, NEW n, NEW F, Circle(m, F),
         NEW p \in F, NEW b \in Places, b \notin F,
         \/ b > p /\ b < Link(m, p)
         \/ p >= Link(m, p) /\ (b > p \/ b < Link(m, p)),
         Link(n, b) = Link(m, p), Link(n, p) = b,
         \A g \in F \ {p} : Link(n, g) = Link(m, g)
  PROVE  Circle(n, F \union {b})
<1> DEFINE nx == Link(m, p)
<1>1. /\ \A x \in F : x \in Nat
      /\ nx \in F /\ nx \in Nat /\ b \in Nat /\ b > Base /\ Base \in Nat
      /\ p \in Nat /\ b # p
  <2>1. nx \in F
    BY DEF Circle
  <2> QED
    BY <2>1, CircleNat, HeapAssumption DEF Places, HEADER
<1>2. CASE nx = Base
  <2>1. \A x \in F : x <= p
    BY <1>2 DEF Circle
  <2>2. p < b
    BY <1>1, <1>2
  <2>3. ASSUME NEW g \in F, g # p
        PROVE  /\ Link(n, g) \in F
               /\ Link(n, g) # Base
               /\ g < Link(n, g)
               /\ \A x \in F \union {b} : x <= g \/ Link(n, g) <= x
    <3>1. Link(n, g) = Link(m, g) /\ Link(m, g) \in F
      BY <2>3 DEF Circle
    <3>2. g < p
      BY <2>1, <2>3, <1>1
    <3>3. Link(m, g) # Base
      BY <3>2, <1>1 DEF Circle
    <3>4. g < Link(m, g) /\ \A x \in F : x <= g \/ Link(m, g) <= x
      BY <3>3 DEF Circle
    <3>5. g \in Nat /\ Link(m, g) \in Nat /\ Link(m, g) <= p
      <4>1. g \in Nat /\ Link(m, g) \in Nat
        BY <3>1, <1>1
      <4>2. p <= g \/ Link(m, g) <= p
        BY <3>4
      <4> QED
        BY <4>1, <4>2, <3>2, <1>1
    <3>6. Link(m, g) <= b
      BY <3>5, <2>2, <1>1
    <3> QED
      BY <3>1, <3>3, <3>4, <3>6
  <2>4. \A x \in F \union {b} : x <= b
    BY <2>1, <2>2, <1>1
  <2>5. \A x \in F \union {b} : x <= p \/ b <= x
    BY <2>1, <1>1
  <2> QED
    BY <2>2, <2>3, <2>4, <2>5, <1>1, <1>2 DEF Circle
<1>3. CASE nx # Base
  <2>1. p < nx /\ \A x \in F : x <= p \/ nx <= x
    BY <1>3 DEF Circle
  <2>2. p < b /\ b < nx
    BY <2>1, <1>1
  <2>3. ASSUME NEW g \in F, g # p
        PROVE  /\ Link(n, g) \in F
               /\ IF Link(n, g) = Base
                  THEN \A x \in F \union {b} : x <= g
                  ELSE /\ g < Link(n, g)
                       /\ \A x \in F \union {b} : x <= g \/ Link(n, g) <= x
    <3>1. Link(n, g) = Link(m, g) /\ Link(m, g) \in F
      BY <2>3 DEF Circle
    <3>2. CASE Link(m, g) = Base
      <4>1. \A x \in F : x <= g
        BY <3>2 DEF Circle
      <4>2. b <= g
        BY <4>1, <2>2, <1>1
      <4> QED
        BY <3>1, <3>2, <4>1, <4>2
    <3>3. CASE Link(m, g) # Base
      <4>1. g < Link(m, g) /\ \A x \in F : x <= g \/ Link(m, g) <= x
        BY <3>3 DEF Circle
      <4>2. CASE p < g
        <5>1. nx <= g
          BY <4>2, <2>1, <1>1
        <5> QED
          BY <5>1, <4>1, <3>1, <3>3, <2>2, <1>1
      <4>3. CASE g < p
        <5>1. g \in Nat /\ Link(m, g) \in Nat
          BY <3>1, <1>1
        <5>2. p <= g \/ Link(m, g) <= p
          BY <4>1
        <5>3. Link(m, g) <= p
          BY <5>1, <5>2, <4>3, <1>1
        <5>4. Link(m, g) <= b
          BY <5>1, <5>3, <2>2, <1>1
        <5> QED
          BY <5>4, <4>1, <3>1, <3>3
      <4> QED
        BY <4>2, <4>3, <2>3, <1>1
    <3> QED
      BY <3>2, <3>3
  <2>4. \A x \in F \union {b} : x <= b \/ nx <= x
    BY <2>1, <2>2, <1>1
  <2>5. \A x \in F \union {b} : x <= p \/ b <= x
    BY <2>1, <2>2, <1>1
  <2> QED
    BY <2>2, <2>3, <2>4, <2>5, <1>1, <1>3 DEF Circle
<1> QED
  BY <1>2, <1>3

-----------------------------------------------------------------------------
(* The inductive invariant.                                                *)

(* The blocks of m that begin at H tile the heap up to kb.                 *)
Tiles(m, H, kb) ==
  /\ H \subseteq Places
  /\ \A h \in H : Size(m, h) >= HEADER /\ h + Size(m, h) <= kb
  /\ \A g, h \in H : g < h => g + Size(m, g) <= h
  /\ \A a \in HeapStart .. kb - 1 : \E h \in H : h <= a /\ a < h + Size(m, h)

Entering == IF pc = "place" THEN {blk} ELSE {}
Held == {b.at : b \in live}
Heads == (OnList \ {Base}) \union Entering \union Held

(* TypeOK in the words of the proofs.                                      *)
Typed ==
  /\ mem \in [Cells -> Words]
  /\ free_hdr \in Words
  /\ kernel_break \in HeapStart .. HeapEnd
  /\ pc \in {"idle", "search", "place", "fault"}
  /\ nbytes \in Requests \union {None}
  /\ prev_hdr \in Words /\ hdr \in Words /\ blk \in Words
  /\ live \subseteq [at : Words, words : Requests]
  /\ broken \subseteq {"wrap", "sliver", "merge"}

(* The pointers the code reads through are pointers to headers, even when  *)
(* the list is damaged; and before the first call there is nothing.        *)
Pointers ==
  /\ free_hdr # NULL => free_hdr \in Spots
  /\ pc = "idle" => nbytes = None
  /\ pc = "search" => prev_hdr \in Spots /\ nbytes \in Requests
  /\ pc = "place" => blk \in Spots
  /\ Held \subseteq Spots
  /\ free_hdr = NULL => pc = "idle" /\ live = {} /\ kernel_break = HeapStart

(* The list of free blocks, and where a call stands on it.                 *)
Listed ==
  /\ Circle(mem, OnList)
  /\ Size(mem, Base) = 0
  /\ free_hdr \in OnList
  /\ pc = "search" => prev_hdr \in OnList /\ hdr = Link(mem, prev_hdr)
  /\ pc = "place" => hdr \in OnList

(* Every word of the heap belongs to one block, with one owner.            *)
Parted ==
  /\ Tiles(mem, Heads, kernel_break)
  /\ Base \notin Entering \union Held
  /\ OnList \intersect Held = {}
  /\ OnList \intersect Entering = {}
  /\ Held \intersect Entering = {}
  /\ \A b \in live : Size(mem, b.at) = b.words + HEADER

(* What an intact list promises.                                           *)
Sound ==
  /\ pc # "fault"
  /\ nbytes # None => nbytes + HEADER < AddressSpace
  /\ free_hdr # NULL => Listed /\ Parted

IInv == Typed /\ Pointers /\ (Intact => Sound)

-----------------------------------------------------------------------------
(* Tilings of the heap.                                                    *)

(* Blocks begin above base, in memory, and are as long as a header.        *)
LEMMA TilesNat ==
  ASSUME NEW m \in [Cells -> Words], NEW H, NEW kb, Tiles(m, H, kb)
  PROVE  /\ H \subseteq Nat /\ Base \notin H
         /\ \A h \in H : /\ h >= HeapStart /\ h >= Base + 2
                         /\ h \in Cells /\ h + 1 \in Cells
                         /\ Size(m, h) \in Nat /\ Size(m, h) >= 2
<1>1. \A h \in H : h \in Nat /\ h >= HeapStart /\ h >= Base + 2 /\ h <= HeapEnd - 2
  BY HeapAssumption DEF Tiles, Places, HEADER
<1>2. \A h \in H : h \in Cells /\ h + 1 \in Cells
  BY <1>1, HeapAssumption DEF Cells
<1>3. \A h \in H : Size(m, h) \in Nat /\ Size(m, h) >= 2
  BY <1>1, <1>2, HeapAssumption DEF Size, Words, Tiles, HEADER
<1> QED
  BY <1>1, <1>2, <1>3, HeapAssumption

(* Headers do not share a word.                                            *)
LEMMA HeadersApart ==
  ASSUME NEW m \in [Cells -> Words], NEW H, NEW kb, Tiles(m, H, kb),
         NEW g \in H \union {Base}, NEW h \in H \union {Base}
  PROVE  h + 1 # g
<1>1. H \subseteq Nat /\ Base \in Nat
  BY TilesNat, HeapAssumption
<1>2. CASE g = Base \/ h = Base
  BY <1>1, <1>2, TilesNat
<1>3. CASE g \in H /\ h \in H
  <2>1. SUFFICES ASSUME h + 1 = g PROVE FALSE
    OBVIOUS
  <2>2. h + Size(m, h) <= g
    BY <2>1, <1>1, <1>3 DEF Tiles
  <2> QED
    BY <2>1, <2>2, <1>1, <1>3, TilesNat
<1> QED
  BY <1>2, <1>3

(* A tiling depends on the sizes of its own blocks only.                   *)
LEMMA TilesSame ==
  ASSUME NEW m, NEW n, NEW H, NEW kb, Tiles(m, H, kb),
         \A h \in H : Size(n, h) = Size(m, h)
  PROVE  Tiles(n, H, kb)
  BY DEF Tiles

(* Splitting the block h after r words.                                    *)
LEMMA TilesSplit ==
  ASSUME NEW m \in [Cells -> Words], NEW n, NEW H, NEW kb \in HeapStart .. HeapEnd,
         Tiles(m, H, kb),
         NEW h \in H, NEW r \in Nat, r >= HEADER, r + HEADER <= Size(m, h),
         Size(n, h) = r, Size(n, h + r) = Size(m, h) - r,
         \A g \in H \ {h, h + r} : Size(n, g) = Size(m, g)
  PROVE  /\ Tiles(n, H \union {h + r}, kb)
         /\ h + r \notin H /\ h + r # Base
         /\ \A g \in H : h + r + 1 # g
<1> DEFINE s == Size(m, h)
           t == h + r
<1>1. /\ H \subseteq Nat /\ h \in Nat /\ s \in Nat /\ t \in Nat /\ h >= HeapStart
      /\ \A g \in H : Size(m, g) \in Nat /\ Size(m, g) >= 2
  BY TilesNat
<1>2. /\ Base \in Nat /\ HeapStart \in Nat /\ HeapEnd \in Nat /\ kb \in Nat
      /\ Base + 2 <= HeapStart
  BY HeapAssumption DEF HEADER
<1>3. h + s <= kb /\ \A g \in H : g < h => g + Size(m, g) <= h
  BY DEF Tiles
<1>4. \A g \in H : h < g => h + s <= g
  BY DEF Tiles
<1>5. r >= 2 /\ r + 2 <= s
  BY DEF HEADER
<1> HIDE DEF s, t
<1>6. t + 2 <= h + s /\ t >= h + 2 /\ t + (s - r) = h + s
  BY <1>1, <1>5 DEF t
<1>7. t \notin H /\ t # Base /\ \A g \in H : t + 1 # g
  <2>1. ASSUME NEW g \in H PROVE g # t /\ g # t + 1
    <3>1. g <= h \/ h + s <= g
      BY <1>1, <1>4
    <3> QED
      BY <3>1, <1>1, <1>6
  <2> QED
    BY <2>1, <1>1, <1>2, <1>6
<1>8. /\ Size(n, t) = s - r /\ Size(n, h) = r
      /\ \A g \in H : g # h => Size(n, g) = Size(m, g)
  BY <1>7 DEF t, s
<1>9. H \union {t} \subseteq Places
  <2>1. t >= HeapStart /\ t <= HeapEnd - 2
    BY <1>6, <1>1, <1>2, <1>3
  <2> QED
    BY <2>1, <1>1, <1>2 DEF Tiles, Places, HEADER
<1>10. \A g \in H \union {t} : Size(n, g) >= 2 /\ g + Size(n, g) <= kb
  <2>1. ASSUME NEW g \in H, g # h PROVE Size(n, g) >= 2 /\ g + Size(n, g) <= kb
    BY <1>8, <2>1 DEF Tiles, HEADER
  <2>2. Size(n, h) >= 2 /\ h + Size(n, h) <= kb
    BY <1>8, <1>3, <1>5, <1>1, <1>2
  <2>3. Size(n, t) >= 2 /\ t + Size(n, t) <= kb
    BY <1>8, <1>3, <1>5, <1>6, <1>1, <1>2
  <2> QED
    BY <2>1, <2>2, <2>3
<1>11. \A f, g \in H \union {t} : f < g => f + Size(n, f) <= g
  <2>1. SUFFICES ASSUME NEW f \in H \union {t}, NEW g \in H \union {t}, f < g
                 PROVE  f + Size(n, f) <= g
    OBVIOUS
  <2>2. CASE f = t
    <3>1. g \in H /\ h < g
      BY <2>1, <2>2, <1>1, <1>6
    <3>2. h + s <= g
      BY <3>1, <1>4
    <3> QED
      BY <3>2, <2>2, <1>6, <1>8
  <2>3. CASE f = h
    <3>1. CASE g = t
      BY <3>1, <2>3, <1>8, <1>1 DEF t
    <3>2. CASE g \in H
      <4>1. h + s <= g
        BY <3>2, <2>1, <2>3, <1>4
      <4> QED
        BY <4>1, <2>3, <1>8, <1>1, <1>5, <3>2
    <3> QED
      BY <3>1, <3>2
  <2>4. CASE f \in H /\ f # h
    <3>1. Size(n, f) = Size(m, f)
      BY <1>8, <2>4
    <3>2. CASE g = t
      <4>1. f < h
        <5>1. ~(h < f)
          BY <2>1, <3>2, <2>4, <1>4, <1>1, <1>6
        <5> QED
          BY <5>1, <2>4, <1>1
      <4>2. f + Size(m, f) <= h
        BY <4>1, <2>4, <1>3
      <4> QED
        BY <4>2, <3>1, <3>2, <1>1, <1>6, <2>4
    <3>3. CASE g \in H
      BY <3>1, <3>3, <2>1, <2>4 DEF Tiles
    <3> QED
      BY <3>2, <3>3
  <2> QED
    BY <2>2, <2>3, <2>4
<1>12. \A a \in HeapStart .. kb - 1 : \E g \in H \union {t} : g <= a /\ a < g + Size(n, g)
  <2>1. SUFFICES ASSUME NEW a \in HeapStart .. kb - 1
                 PROVE  \E g \in H \union {t} : g <= a /\ a < g + Size(n, g)
    OBVIOUS
  <2>2. PICK g \in H : g <= a /\ a < g + Size(m, g)
    BY DEF Tiles
  <2>3. CASE g # h
    BY <1>8, <2>2, <2>3
  <2>4. CASE g = h
    <3>1. a \in Nat /\ h <= a /\ a < h + s
      BY <2>2, <2>4, <1>2 DEF s
    <3>2. CASE a < t
      <4>1. h <= a /\ a < h + Size(n, h)
        BY <3>1, <3>2, <1>8 DEF t
      <4> QED
        BY <4>1
    <3>3. CASE ~(a < t)
      <4>1. t <= a /\ a < t + Size(n, t)
        BY <3>1, <3>3, <1>6, <1>8, <1>1
      <4> QED
        BY <4>1
    <3> QED
      BY <3>2, <3>3
  <2> QED
    BY <2>3, <2>4
<1>13. Tiles(n, H \union {t}, kb)
  BY <1>9, <1>10, <1>11, <1>12 DEF Tiles, HEADER
<1> QED
  BY <1>13, <1>7 DEF t

(* Growing the heap at its end by a block of nu words.                     *)
LEMMA TilesGrow ==
  ASSUME NEW m \in [Cells -> Words], NEW n, NEW H, NEW kb \in HeapStart .. HeapEnd,
         Tiles(m, H, kb),
         NEW nu \in Nat, nu >= HEADER, kb + nu <= HeapEnd,
         Size(n, kb) = nu,
         \A g \in H \ {kb} : Size(n, g) = Size(m, g)
  PROVE  /\ Tiles(n, H \union {kb}, kb + nu)
         /\ kb \notin H /\ kb # Base
         /\ \A g \in H : g + 2 <= kb
<1>1. H \subseteq Nat /\ \A g \in H : Size(m, g) \in Nat /\ Size(m, g) >= 2
  BY TilesNat
<1>2. /\ Base \in Nat /\ HeapStart \in Nat /\ HeapEnd \in Nat /\ kb \in Nat
      /\ kb >= HeapStart /\ Base + 2 <= HeapStart
  BY HeapAssumption DEF HEADER
<1>3. \A g \in H : g + Size(m, g) <= kb
  BY DEF Tiles
<1>4. \A g \in H : g + 2 <= kb /\ Size(n, g) = Size(m, g)
  BY <1>1, <1>2, <1>3
<1>5. H \union {kb} \subseteq Places
  BY <1>2 DEF Tiles, Places, HEADER
<1>6. \A g \in H \union {kb} : Size(n, g) >= 2 /\ g + Size(n, g) <= kb + nu
  <2>1. ASSUME NEW g \in H PROVE Size(n, g) >= 2 /\ g + Size(n, g) <= kb + nu
    BY <1>1, <1>2, <1>3, <1>4
  <2> QED
    BY <2>1, <1>2 DEF HEADER
<1>7. \A f, g \in H \union {kb} : f < g => f + Size(n, f) <= g
  <2>1. ASSUME NEW f \in H, NEW g \in H, f < g PROVE f + Size(n, f) <= g
    BY <2>1, <1>4 DEF Tiles
  <2>2. ASSUME NEW f \in H PROVE f + Size(n, f) <= kb /\ ~(kb < f)
    BY <1>1, <1>2, <1>3, <1>4
  <2> QED
    BY <2>1, <2>2, <1>2
<1>8. \A a \in HeapStart .. (kb + nu) - 1 :
        \E g \in H \union {kb} : g <= a /\ a < g + Size(n, g)
  <2>1. SUFFICES ASSUME NEW a \in HeapStart .. (kb + nu) - 1
                 PROVE  \E g \in H \union {kb} : g <= a /\ a < g + Size(n, g)
    OBVIOUS
  <2>2. CASE a < kb
    <3>1. a \in HeapStart .. kb - 1
      BY <2>2, <1>2
    <3>2. PICK g \in H : g <= a /\ a < g + Size(m, g)
      BY <3>1 DEF Tiles
    <3> QED
      BY <3>2, <1>4
  <2>3. CASE ~(a < kb)
    BY <2>3, <1>2
  <2> QED
    BY <2>2, <2>3
<1>9. Tiles(n, H \union {kb}, kb + nu)
  BY <1>5, <1>6, <1>7, <1>8 DEF Tiles, HEADER
<1> QED
  BY <1>9, <1>4, <1>2, <1>1

-----------------------------------------------------------------------------
(* The types, and the pointers the code reads through.                     *)

(* Addresses of memory and of headers.                                     *)
LEMMA CellsWords ==
  /\ Cells \subseteq Words /\ Spots \subseteq Cells /\ Places \subseteq Spots
  /\ Base \in Spots /\ NULL \notin Spots
  /\ AddressSpace \in Nat \ {0} /\ NULL \in Words /\ Words \subseteq Nat
  /\ None \notin Requests
  BY HeapAssumption DEF Cells, Words, Header, HEADER, Places, Spots, NULL, None

(* A pointer is readable where there is room for a header.                 *)
LEMMA ReadableSpots ==
  ASSUME DOMAIN mem = Cells, NEW h \in Int
  PROVE  Readable(h) <=> h \in Spots
  BY DEF Readable, Header, HEADER, Spots

(* C's arithmetic on addresses and sizes.                                  *)
LEMMA ModWord ==
  ASSUME NEW x \in Int
  PROVE  x % AddressSpace \in Words
  BY DivMod, HeapAssumption DEF Words

LEMMA AllocSizeWord ==
  ASSUME NEW n \in Requests
  PROVE  /\ AllocSize(n) \in Words
         /\ n + HEADER < AddressSpace => AllocSize(n) = n + HEADER
<1>1. n \in Nat /\ AddressSpace \in Nat \ {0}
  BY HeapAssumption
<1>2. n + HEADER \in Nat
  BY <1>1 DEF HEADER
<1>3. AllocSize(n) \in Words
  BY <1>2, ModWord DEF AllocSize
<1>4. ASSUME n + HEADER < AddressSpace PROVE (n + HEADER) % AddressSpace = n + HEADER
  <2>1. (AddressSpace * 0 + (n + HEADER)) % AddressSpace = n + HEADER
    BY <1>1, <1>2, <1>4, ModUnique
  <2> QED
    BY <2>1, <1>1, <1>2
<1> QED
  BY <1>3, <1>4 DEF AllocSize

LEMMA GrowthNat ==
  ASSUME NEW x \in Words
  PROVE  Growth(x) \in Nat /\ Growth(x) >= HEADER
<1>1. (x + HEADER) % AddressSpace \in Words
  BY ModWord DEF HEADER, Words
<1> QED
  BY <1>1, HeapAssumption DEF Growth, HEADER, Words

LEMMA TypeTyped == TypeOK <=> Typed
  BY DEF TypeOK, Typed, Cells, Words

(* A call that returns leaves the pointers of the others alone.            *)
LEMMA GrantedTyped ==
  ASSUME Typed, Pointers, pc = "search", NEW h \in Spots, Granted(h),
         mem' \in [Cells -> Words], broken' \subseteq {"wrap", "sliver", "merge"}
  PROVE  Typed' /\ Pointers'
<1>1. /\ pc' = "idle" /\ nbytes' = None
      /\ prev_hdr' = NULL /\ hdr' = NULL /\ blk' = NULL
      /\ live' = live \union {[at |-> h, words |-> nbytes]}
      /\ free_hdr' = prev_hdr /\ kernel_break' = kernel_break
  BY DEF Granted, Returns
<1>2. /\ prev_hdr \in Spots /\ nbytes \in Requests /\ prev_hdr # NULL
      /\ h \in Words /\ Held \subseteq Spots
  BY CellsWords DEF Pointers
<1>3. [at |-> h, words |-> nbytes] \in [at : Words, words : Requests]
  BY <1>2
<1>4. Typed'
  BY <1>1, <1>2, <1>3, CellsWords DEF Typed
<1>5. Held' = Held \union {h}
  <2> DEFINE new == [at |-> h, words |-> nbytes]
  <2>1. new.at = h
    OBVIOUS
  <2> HIDE DEF new
  <2>2. live' = live \union {new}
    BY <1>1 DEF new
  <2> QED
    BY <2>1, <2>2 DEF Held
<1> QED
  BY <1>1, <1>2, <1>4, <1>5 DEF Pointers

(* The types and the pointers survive every step, on a damaged list too.   *)
LEMMA TypeStep ==
  ASSUME Typed, Pointers, [Next]_vars
  PROVE  Typed' /\ Pointers'
<1> USE CellsWords
<1>1. /\ mem \in [Cells -> Words] /\ DOMAIN mem = Cells /\ free_hdr \in Words
      /\ nbytes \in Requests \union {None}
      /\ kernel_break \in HeapStart .. HeapEnd
      /\ hdr \in Words /\ hdr \in Int /\ blk \in Words
      /\ \A h \in Spots : mem[h] \in Words /\ mem[h + 1] \in Words
      /\ \A h \in Words : Readable(h) => h \in Spots
  BY ReadableSpots DEF Typed, Spots
<1>2. ASSUME NEW n \in Requests, Alloc(n)
      PROVE  Typed' /\ Pointers'
  <2>1. /\ mem' \in [Cells -> Words]
        /\ free_hdr' \in Spots /\ prev_hdr' \in Spots /\ hdr' \in Words
    <3>1. CASE free_hdr = NULL
      <4>1. /\ mem' = [mem EXCEPT ![Base] = Base, ![Base + 1] = 0]
            /\ free_hdr' = Base /\ prev_hdr' = Base /\ hdr' = Base
        BY <1>2, <3>1 DEF Alloc
      <4>2. Base \in Words /\ 0 \in Words
        BY DEF NULL
      <4> QED
        BY <4>1, <4>2, <1>1
    <3>2. CASE free_hdr # NULL
      BY <1>1, <1>2, <3>2 DEF Alloc, Link, Pointers
    <3> QED
      BY <3>1, <3>2
  <2>2. /\ pc' = "search" /\ nbytes' = n
        /\ broken' \subseteq {"wrap", "sliver", "merge"}
        /\ UNCHANGED <<kernel_break, blk, live>>
    BY <1>2 DEF Alloc, Typed
  <2>3. Typed'
    BY <2>1, <2>2, <1>1 DEF Typed
  <2> QED
    BY <2>1, <2>2, <2>3 DEF Pointers, Held
<1>3. ASSUME NEW b \in live, Free(b)
      PROVE  Typed' /\ Pointers'
  <2>1. b.at \in Spots /\ b.at \in Words /\ free_hdr # NULL
    BY <1>3 DEF Pointers, Held, Typed
  <2>2. /\ live' = live \ {b} /\ blk' = b.at /\ hdr' = free_hdr /\ pc' = "place"
        /\ UNCHANGED <<mem, free_hdr, kernel_break, nbytes, prev_hdr, broken>>
    BY <1>3 DEF Free
  <2>3. Typed'
    BY <2>1, <2>2, <1>1 DEF Typed
  <2> QED
    BY <2>1, <2>2, <2>3 DEF Pointers, Held
<1>4. ASSUME TakeExact
      PROVE  Typed' /\ Pointers'
  <2>1. hdr \in Spots /\ pc = "search"
    BY <1>1, <1>4 DEF TakeExact
  <2>2. mem' \in [Cells -> Words] /\ broken' \subseteq {"wrap", "sliver", "merge"}
    BY <2>1, <1>1, <1>4 DEF TakeExact, Link, Typed
  <2> QED
    BY <2>1, <2>2, <1>4, GrantedTyped DEF TakeExact
<1>5. ASSUME Split
      PROVE  Typed' /\ Pointers'
  <2> DEFINE rest == Size(mem, hdr) - AllocSize(nbytes)
             tail == hdr + rest
  <2>1. hdr \in Spots /\ pc = "search" /\ nbytes \in Requests
    BY <1>1, <1>5 DEF Split, Pointers
  <2>2. AllocSize(nbytes) \in Words /\ Size(mem, hdr) \in Words
    BY <2>1, <1>1, AllocSizeWord DEF Size
  <2>3. rest \in Int /\ rest > 0 /\ rest \in Words /\ tail \in Int
    BY <2>1, <2>2, <1>1, <1>5 DEF Split, Words
  <2>4. tail \in Spots
    BY <2>3, <1>1, <1>5, ReadableSpots DEF Split
  <2>5. mem' \in [Cells -> Words]
    <3>1. mem' = [mem EXCEPT ![hdr + 1] = rest, ![tail + 1] = AllocSize(nbytes)]
      BY <1>5 DEF Split
    <3> HIDE DEF rest, tail
    <3> QED
      BY <3>1, <2>1, <2>2, <2>3, <2>4, <1>1 DEF Spots
  <2>6. broken' \subseteq {"wrap", "sliver", "merge"} /\ Granted(tail)
    BY <1>5 DEF Split, Typed
  <2> HIDE DEF tail
  <2> QED
    BY <2>1, <2>4, <2>5, <2>6, GrantedTyped
<1>6. ASSUME Skip
      PROVE  Typed' /\ Pointers'
  <2>1. /\ hdr \in Spots /\ prev_hdr' = hdr /\ hdr' \in Words /\ pc = "search"
        /\ UNCHANGED <<mem, free_hdr, kernel_break, pc, nbytes, blk, live, broken>>
    BY <1>1, <1>6 DEF Skip, Link
  <2>2. Typed'
    BY <2>1, <1>1 DEF Typed
  <2> QED
    BY <2>1, <2>2 DEF Pointers, Held
<1>7. ASSUME MoreCore
      PROVE  Typed' /\ Pointers'
  <2> DEFINE nu == Growth(AllocSize(nbytes))
  <2>1. pc = "search" /\ nbytes \in Requests /\ kernel_break + nu <= HeapEnd
    BY <1>7 DEF MoreCore, Break!Sbrk, Pointers
  <2>2. nu \in Nat /\ nu >= 2
    BY <2>1, AllocSizeWord, GrowthNat DEF HEADER
  <2>3. /\ mem' = [mem EXCEPT ![kernel_break + 1] = nu]
        /\ blk' = kernel_break /\ pc' = "place" /\ kernel_break' = kernel_break + nu
        /\ UNCHANGED <<free_hdr, nbytes, prev_hdr, hdr, live, broken>>
    BY <1>7 DEF MoreCore, Break!Sbrk
  <2> HIDE DEF nu
  <2>4. kernel_break \in Spots /\ nu \in Words
    BY <1>1, <2>1, <2>2, HeapAssumption DEF Spots, Cells, Words
  <2>5. mem' \in [Cells -> Words]
    BY <2>3, <2>4, <1>1
  <2>6. kernel_break' \in HeapStart .. HeapEnd
    BY <2>1, <2>2, <2>3, <1>1, HeapAssumption
  <2>7. Typed'
    BY <2>3, <2>4, <2>5, <2>6, <1>1 DEF Typed
  <2> QED
    BY <2>1, <2>3, <2>4, <2>7 DEF Pointers, Held
<1>8. ASSUME NoCore
      PROVE  Typed' /\ Pointers'
  BY <1>8 DEF NoCore, Returns, Typed, Pointers, Held
<1>9. ASSUME Walk
      PROVE  Typed' /\ Pointers'
  <2>1. /\ hdr' \in Words /\ pc = "place"
        /\ UNCHANGED <<mem, free_hdr, kernel_break, pc, nbytes, prev_hdr, blk,
                       live, broken>>
    BY <1>1, <1>9 DEF Walk, Link
  <2>2. Typed'
    BY <2>1, <1>1 DEF Typed
  <2> QED
    BY <2>1, <2>2 DEF Pointers, Held
<1>10. ASSUME Place
       PROVE  Typed' /\ Pointers'
  <2> DEFINE joined == JoinNext(mem)
  <2>1. pc = "place" /\ hdr \in Spots /\ blk \in Spots
    BY <1>1, <1>10 DEF Place, Pointers
  <2>2. joined \in [Cells -> Words]
    <3>1. CASE Advance(blk, Size(mem, blk)) = Link(mem, hdr)
      <4>1. Link(mem, hdr) \in Spots
        BY <3>1, <2>1, <1>1, <1>10 DEF Place, Link
      <4>2. (Size(mem, blk) + Size(mem, Link(mem, hdr))) % AddressSpace \in Words
        <5>1. Size(mem, blk) + Size(mem, Link(mem, hdr)) \in Int
          <6>1. mem[blk + 1] \in Words /\ mem[Link(mem, hdr) + 1] \in Words
            BY <4>1, <2>1, <1>1
          <6> QED
            BY <6>1 DEF Size, Words
        <5> QED
          BY <5>1, ModWord
      <4> QED
        BY <3>1, <4>1, <4>2, <2>1, <1>1 DEF JoinNext, Link, Spots
    <3>2. CASE Advance(blk, Size(mem, blk)) # Link(mem, hdr)
      BY <3>2, <2>1, <1>1 DEF JoinNext, Link
    <3> QED
      BY <3>1, <3>2
  <2>3. mem' = JoinPrevious(joined) /\ free_hdr' = hdr
    BY <1>10 DEF Place
  <2> HIDE DEF joined
  <2>4. mem' \in [Cells -> Words]
    <3>1. (Size(joined, hdr) + Size(joined, blk)) % AddressSpace \in Words
      <4>1. Size(joined, hdr) + Size(joined, blk) \in Int
        <5>1. /\ hdr + 1 \in Cells /\ blk + 1 \in Cells
              /\ joined[hdr + 1] \in Words /\ joined[blk + 1] \in Words
          BY <2>1, <2>2 DEF Spots
        <5> QED
          BY <5>1 DEF Size, Words
      <4> QED
        BY <4>1, ModWord
    <3> QED
      BY <3>1, <2>1, <2>2, <2>3 DEF JoinPrevious, Link, Spots
  <2>5. broken' \subseteq {"wrap", "sliver", "merge"} /\ UNCHANGED <<kernel_break, live>>
    BY <1>10 DEF Place, Typed
  <2>6. CASE nbytes = None
    <3>1. /\ pc' = "idle" /\ nbytes' = None
          /\ prev_hdr' = NULL /\ hdr' = NULL /\ blk' = NULL
      BY <1>10, <2>6 DEF Place, Returns
    <3>2. Typed'
      BY <3>1, <2>1, <2>3, <2>4, <2>5 DEF Typed
    <3> QED
      BY <3>1, <3>2, <2>1, <2>3, <2>5 DEF Pointers, Held
  <2>7. CASE nbytes # None
    <3>1. /\ pc' = "search" /\ nbytes' = nbytes
          /\ prev_hdr' = blk /\ hdr' = mem'[blk] /\ blk' = NULL
      BY <1>10, <2>7 DEF Place, Link
    <3>2. Typed'
      BY <3>1, <2>1, <2>3, <2>4, <2>5 DEF Typed
    <3> QED
      BY <3>1, <3>2, <2>1, <2>3, <2>5, <2>7 DEF Pointers, Held, Typed
  <2> QED
    BY <2>6, <2>7
<1>11. ASSUME Fault
       PROVE  Typed' /\ Pointers'
  <2>1. /\ pc' = "fault" /\ pc # "idle"
        /\ UNCHANGED <<mem, free_hdr, kernel_break, nbytes, prev_hdr, hdr, blk,
                       live, broken>>
    BY <1>11 DEF Fault, walk
  <2> QED
    BY <2>1 DEF Typed, Pointers, Held
<1>12. ASSUME UNCHANGED vars
       PROVE  Typed' /\ Pointers'
  BY <1>12 DEF vars, walk, Typed, Pointers, Held
<1> QED
  BY <1>2, <1>3, <1>4, <1>5, <1>6, <1>7, <1>8, <1>9, <1>10, <1>11, <1>12
  DEF Next, Step, Halted

-----------------------------------------------------------------------------
(* The list and the tiling.                                                *)

(* Headers of blocks and of the list are cells, and do not share one.      *)
LEMMA Apart ==
  ASSUME Typed, Listed, Parted
  PROVE  /\ \A h \in OnList \union Heads :
               h \in Nat /\ h \in Cells /\ h + 1 \in Cells /\ h \in Spots
         /\ \A g, h \in OnList \union Heads : h + 1 # g
         /\ Heads \subseteq Places /\ Base \in OnList /\ Base \notin Heads
         /\ OnList \union Heads = Heads \union {Base}
         /\ OnList \union Heads \subseteq Spots
         /\ \A b \in live : b.at \in Heads
<1>1. mem \in [Cells -> Words] /\ Tiles(mem, Heads, kernel_break)
  BY DEF Typed, Parted
<1>2. Heads \subseteq Places /\ Base \in OnList /\ Base \notin Heads
  BY <1>1, TilesNat DEF Tiles, Listed, Circle
<1>3. OnList \union Heads = Heads \union {Base}
  BY <1>2 DEF Heads
<1>4. \A h \in OnList \union Heads :
         h \in Nat /\ h \in Cells /\ h + 1 \in Cells /\ h \in Spots
  BY <1>2, <1>3, CellsWords DEF Spots
<1>5. \A g, h \in OnList \union Heads : h + 1 # g
  BY <1>1, <1>3, HeadersApart
<1> QED
  BY <1>2, <1>3, <1>4, <1>5 DEF Heads, Held

(* Sound is kept by each step: a call of kernel_alloc ...                  *)
LEMMA AllocSound ==
  ASSUME Typed, Pointers, Sound, NEW n \in Requests, Alloc(n), broken' = {}
  PROVE  Sound'
<1>1. /\ pc = "idle" /\ pc' = "search" /\ nbytes' = n
      /\ n + HEADER < AddressSpace
      /\ live' = live /\ kernel_break' = kernel_break
  <2>1. n + HEADER \in Int /\ AddressSpace \in Int
    BY HeapAssumption DEF HEADER
  <2> QED
    BY <2>1 DEF Alloc, CallsMade
<1>2. Entering = {} /\ Entering' = {} /\ Held' = Held
  BY <1>1 DEF Entering, Held
<1>3. CASE free_hdr = NULL
  <2>1. /\ mem' = [mem EXCEPT ![Base] = Base, ![Base + 1] = 0]
        /\ free_hdr' = Base /\ prev_hdr' = Base /\ hdr' = Base
        /\ live = {} /\ kernel_break = HeapStart
    BY <1>3 DEF Alloc, Pointers
  <2>2. Link(mem', Base) = Base /\ Size(mem', Base) = 0
    BY <2>1, CellsWords DEF Typed, Spots, Link, Size
  <2>3. Circle(mem', {Base})
    BY <2>2, HeapAssumption DEF Circle
  <2>4. OnList' = {Base}
    <3>1. free_hdr' # NULL
      BY <2>1, CellsWords
    <3> QED
      BY <3>1, <2>3, CircleRound DEF OnList
  <2>5. Held' = {} /\ Heads' = {}
    BY <2>1, <2>4, <1>1, <1>2 DEF Heads, Held
  <2>6. Tiles(mem', {}, HeapStart)
    BY HeapAssumption DEF Tiles
  <2>7. Listed'
    BY <2>1, <2>2, <2>3, <2>4, <1>1 DEF Listed
  <2>8. Parted'
    BY <2>1, <2>4, <2>5, <2>6, <1>1, <1>2 DEF Parted
  <2> QED
    BY <2>7, <2>8, <1>1 DEF Sound
<1>4. CASE free_hdr # NULL
  <2>1. /\ mem' = mem /\ free_hdr' = free_hdr
        /\ prev_hdr' = free_hdr /\ hdr' = Link(mem, free_hdr)
    BY <1>4 DEF Alloc
  <2>2. OnList' = OnList /\ Heads' = Heads
    BY <2>1, <1>1, <1>2 DEF OnList, Heads
  <2>3. Listed /\ Parted
    BY <1>4 DEF Sound
  <2>4. Listed'
    BY <2>1, <2>2, <2>3, <1>1 DEF Listed
  <2>5. Parted'
    BY <2>1, <2>2, <2>3, <1>1, <1>2 DEF Parted
  <2> QED
    BY <2>4, <2>5, <1>1 DEF Sound
<1> QED
  BY <1>3, <1>4

(* ... a call of kernel_free ...                                           *)
LEMMA FreeSound ==
  ASSUME Typed, Pointers, Sound, NEW b \in live, Free(b)
  PROVE  Sound'
<1>1. /\ pc = "idle" /\ pc' = "place"
      /\ live' = live \ {b} /\ blk' = b.at /\ hdr' = free_hdr
      /\ UNCHANGED <<mem, free_hdr, kernel_break, nbytes, prev_hdr, broken>>
  BY DEF Free, CallsMade
<1>2. free_hdr # NULL /\ Listed /\ Parted
  BY DEF Pointers, Sound
<1>3. Held' = Held \ {b.at}
  <2>1. ASSUME NEW c \in live, c.at = b.at PROVE c = b
    <3>1. c \in [at : Words, words : Requests] /\ b \in [at : Words, words : Requests]
      <4>1. live \subseteq [at : Words, words : Requests]
        BY DEF Typed
      <4> QED
        BY <4>1
    <3>2. c.words \in Int /\ b.words \in Int
      <4>1. \A n \in Requests : n \in Int
        BY HeapAssumption
      <4>2. c.words \in Requests /\ b.words \in Requests
        BY <3>1
      <4> QED
        BY <4>1, <4>2
    <3>3. c.words + 2 = b.words + 2
      BY <1>2, <2>1 DEF Parted, HEADER
    <3>4. c.words = b.words
      BY <3>2, <3>3
    <3> QED
      BY <3>1, <3>4, <2>1
  <2> QED
    BY <2>1, <1>1 DEF Held
<1>4. /\ OnList' = OnList /\ Entering = {} /\ Entering' = {b.at} /\ b.at \in Held
      /\ Heads' = Heads
  <2>1. /\ OnList' = OnList /\ Entering = {} /\ Entering' = {b.at} /\ b.at \in Held
    BY <1>1 DEF OnList, Entering, Held
  <2> QED
    BY <2>1, <1>3 DEF Heads
<1>5. Listed'
  BY <1>1, <1>2, <1>4 DEF Listed
<1>6. Parted'
  BY <1>1, <1>2, <1>3, <1>4 DEF Parted
<1> QED
  BY <1>1, <1>5, <1>6 DEF Sound

(* What kernel_alloc knows of the block it looks at.                       *)
LEMMA Searching ==
  ASSUME Typed, Pointers, Sound, pc = "search"
  PROVE  /\ free_hdr # NULL /\ Listed /\ Parted
         /\ prev_hdr \in OnList /\ hdr \in OnList /\ hdr = Link(mem, prev_hdr)
         /\ nbytes \in Requests /\ nbytes \in Nat
         /\ AllocSize(nbytes) = nbytes + HEADER /\ AllocSize(nbytes) >= HEADER
         /\ Entering = {}
<1>1. free_hdr # NULL /\ Listed /\ Parted
  BY DEF Pointers, Sound
<1>2. prev_hdr \in OnList /\ hdr \in OnList /\ hdr = Link(mem, prev_hdr)
  BY <1>1 DEF Listed, Circle
<1>3. nbytes \in Requests /\ nbytes \in Nat /\ nbytes # None
  <2>1. nbytes \in Requests
    BY DEF Pointers
  <2> QED
    BY <2>1, HeapAssumption, CellsWords
<1>4. AllocSize(nbytes) = nbytes + HEADER
  BY <1>3, AllocSizeWord DEF Sound
<1> QED
  BY <1>1, <1>2, <1>3, <1>4 DEF Entering, HEADER

(* ... a block taken whole ...                                             *)
LEMMA TakeExactSound ==
  ASSUME Typed, Pointers, Sound, TakeExact
  PROVE  Sound'
<1>1. /\ pc = "search" /\ Size(mem, hdr) = AllocSize(nbytes)
      /\ mem' = [mem EXCEPT ![prev_hdr] = Link(mem, hdr)]
      /\ live' = live \union {[at |-> hdr, words |-> nbytes]}
      /\ free_hdr' = prev_hdr /\ pc' = "idle" /\ nbytes' = None
      /\ kernel_break' = kernel_break
  BY DEF TakeExact, Granted, Returns
<1>2. /\ free_hdr # NULL /\ Listed /\ Parted
      /\ prev_hdr \in OnList /\ hdr \in OnList /\ hdr = Link(mem, prev_hdr)
      /\ nbytes \in Nat /\ AllocSize(nbytes) = nbytes + HEADER
      /\ Entering = {} /\ Entering' = {}
  BY <1>1, Searching DEF Entering
<1>3. hdr # Base
  BY <1>1, <1>2 DEF Listed, HEADER
<1>4. /\ mem \in [Cells -> Words] /\ prev_hdr \in Cells
      /\ \A h \in OnList \union Heads : h + 1 # prev_hdr
  BY <1>2, Apart DEF Typed
<1>5. /\ Link(mem', prev_hdr) = Link(mem, hdr)
      /\ \A h \in OnList : h # prev_hdr => Link(mem', h) = Link(mem, h)
      /\ \A h \in OnList \union Heads : Size(mem', h) = Size(mem, h)
  BY <1>1, <1>2, <1>4, Apart DEF Link, Size
<1>6. Circle(mem', OnList \ {hdr}) /\ prev_hdr # hdr
  BY <1>2, <1>3, <1>5, CircleRemove DEF Listed
<1>7. OnList' = OnList \ {hdr}
  <2>1. free_hdr' # NULL
    BY <1>1, <1>2, Apart, CellsWords
  <2> QED
    BY <2>1, <1>6, CircleRound DEF OnList
<1>8. Held' = Held \union {hdr}
  <2> DEFINE new == [at |-> hdr, words |-> nbytes]
  <2>1. new.at = hdr
    OBVIOUS
  <2>2. live' = live \union {new}
    BY <1>1
  <2> HIDE DEF new
  <2> QED
    BY <2>1, <2>2 DEF Held
<1>9. Heads' = Heads
  BY <1>2, <1>3, <1>7, <1>8 DEF Heads
<1>10. Listed'
  BY <1>1, <1>2, <1>3, <1>5, <1>6, <1>7, Apart DEF Listed
<1>11. Parted'
  <2>1. Tiles(mem', Heads', kernel_break')
    BY <1>1, <1>2, <1>5, <1>9, TilesSame DEF Parted
  <2>2. ASSUME NEW b \in live' PROVE Size(mem', b.at) = b.words + HEADER
    <3>1. CASE b \in live
      BY <3>1, <1>2, <1>5, Apart DEF Parted
    <3>2. CASE b = [at |-> hdr, words |-> nbytes]
      BY <3>2, <1>1, <1>2, <1>5
    <3> QED
      BY <3>1, <3>2, <1>1
  <2> QED
    BY <2>1, <2>2, <1>2, <1>3, <1>7, <1>8 DEF Parted
<1> QED
  BY <1>1, <1>10, <1>11 DEF Sound

(* ... a block split ...                                                   *)
LEMMA SplitSound ==
  ASSUME Typed, Pointers, Sound, Split, broken' = {}
  PROVE  Sound'
<1> DEFINE rest == Size(mem, hdr) - AllocSize(nbytes)
           tail == hdr + rest
<1>1. /\ pc = "search" /\ rest > 0 /\ ~(rest < HEADER)
      /\ mem' = [mem EXCEPT ![hdr + 1] = rest, ![tail + 1] = AllocSize(nbytes)]
      /\ live' = live \union {[at |-> tail, words |-> nbytes]}
      /\ free_hdr' = prev_hdr /\ pc' = "idle" /\ nbytes' = None
      /\ kernel_break' = kernel_break
  BY DEF Split, Granted, Returns
<1>2. /\ free_hdr # NULL /\ Listed /\ Parted
      /\ prev_hdr \in OnList /\ hdr \in OnList /\ hdr = Link(mem, prev_hdr)
      /\ nbytes \in Nat /\ AllocSize(nbytes) = nbytes + HEADER
      /\ AllocSize(nbytes) >= HEADER
      /\ Entering = {} /\ Entering' = {}
  BY <1>1, Searching DEF Entering
<1>3. /\ mem \in [Cells -> Words] /\ kernel_break \in HeapStart .. HeapEnd
      /\ Tiles(mem, Heads, kernel_break)
  BY <1>2 DEF Typed, Parted
<1>4. hdr \in Nat /\ Size(mem, hdr) \in Nat /\ hdr + 1 \in Cells
  BY <1>2, <1>3, Apart, CellsWords DEF Size
<1>5. rest \in Nat /\ rest >= HEADER /\ rest + HEADER <= Size(mem, hdr) /\ tail \in Nat
  BY <1>1, <1>2, <1>4 DEF HEADER
<1>6. hdr \in Heads
  <2>1. hdr # Base
    BY <1>5, <1>2 DEF Listed, HEADER
  <2> QED
    BY <2>1, <1>2 DEF Heads
<1>7. hdr + Size(mem, hdr) <= kernel_break
  BY <1>3, <1>6 DEF Tiles
<1>8. tail \in Spots
  <2>1. tail >= HeapStart
    BY <1>3, <1>4, <1>5, <1>6, TilesNat, HeapAssumption
  <2>2. tail + HEADER <= HeapEnd
    BY <1>3, <1>4, <1>5, <1>7, HeapAssumption DEF HEADER
  <2>3. tail \in Places
    BY <2>1, <2>2, <1>5, HeapAssumption DEF Places, HEADER
  <2> QED
    BY <2>3, CellsWords
<1>9. AllocSize(nbytes) = Size(mem, hdr) - rest
  BY <1>2, <1>4 DEF HEADER
<1> HIDE DEF rest
<1>10. /\ Size(mem', hdr) = rest /\ Size(mem', tail) = AllocSize(nbytes)
       /\ \A g \in Spots : g # hdr /\ g # tail => Size(mem', g) = Size(mem, g)
       /\ \A g \in Spots : g # hdr + 1 /\ g # tail + 1 => Link(mem', g) = Link(mem, g)
  <2>1. tail + 1 \in Cells /\ tail # hdr
    BY <1>4, <1>5, <1>8 DEF Spots, HEADER
  <2>2. mem' = [mem EXCEPT ![hdr + 1] = rest, ![tail + 1] = AllocSize(nbytes)]
    BY <1>1
  <2> HIDE DEF tail
  <2>3. mem'[hdr + 1] = rest /\ mem'[tail + 1] = AllocSize(nbytes)
    BY <2>1, <2>2, <1>3, <1>4, <1>5
  <2>4. \A c \in Cells : c # hdr + 1 /\ c # tail + 1 => mem'[c] = mem[c]
    BY <2>2, <1>3
  <2>5. \A g \in Spots : g \in Nat /\ g \in Cells /\ g + 1 \in Cells
    BY CellsWords DEF Spots
  <2>6. \A g \in Spots : g # hdr /\ g # tail => g + 1 # hdr + 1 /\ g + 1 # tail + 1
    BY <2>5, <1>4, <1>5
  <2> QED
    BY <2>3, <2>4, <2>5, <2>6 DEF Size, Link
<1>11. /\ Tiles(mem', Heads \union {tail}, kernel_break)
       /\ tail \notin Heads /\ tail # Base
       /\ \A g \in Heads : tail + 1 # g
  <2>1. \A g \in Heads \ {hdr, hdr + rest} : Size(mem', g) = Size(mem, g)
    BY <1>10, <1>2, Apart
  <2> QED
    BY <2>1, <1>3, <1>5, <1>6, <1>9, <1>10, TilesSplit
<1> HIDE DEF tail
<1>12. Circle(mem', OnList)
  <2>1. \A g \in OnList : g # hdr + 1 /\ g # tail + 1
    <3>1. tail + 1 # Base
      BY <1>5, <1>8, <1>11, CellsWords, HeapAssumption DEF Spots, Cells, Header, HEADER
    <3> QED
      BY <3>1, <1>2, <1>11, Apart
  <2>2. \A g \in OnList : Link(mem', g) = Link(mem, g)
    BY <2>1, <1>2, <1>10, Apart
  <2> QED
    BY <2>2, <1>2, CircleSame DEF Listed
<1>13. OnList' = OnList
  <2>1. free_hdr' # NULL
    BY <1>1, <1>2, Apart, CellsWords
  <2> QED
    BY <2>1, <1>12, CircleRound DEF OnList
<1>14. Held' = Held \union {tail}
  <2> DEFINE new == [at |-> tail, words |-> nbytes]
  <2>1. new.at = tail
    OBVIOUS
  <2>2. live' = live \union {new}
    BY <1>1
  <2> HIDE DEF new
  <2> QED
    BY <2>1, <2>2 DEF Held
<1>15. Heads' = Heads \union {tail}
  BY <1>2, <1>13, <1>14 DEF Heads
<1>16. Listed'
  <2>1. Size(mem', Base) = 0
    BY <1>2, <1>6, <1>10, <1>11, Apart DEF Listed
  <2> QED
    BY <2>1, <1>1, <1>2, <1>12, <1>13 DEF Listed
<1>17. Parted'
  <2>1. Tiles(mem', Heads', kernel_break')
    BY <1>1, <1>11, <1>15
  <2>2. ASSUME NEW b \in live' PROVE Size(mem', b.at) = b.words + HEADER
    <3>1. CASE b \in live
      <4>1. b.at # hdr
        BY <3>1, <1>2, <1>6, Apart DEF Parted, Held
      <4>2. b.at \in Heads /\ b.at \in Nat /\ b.at # tail
        BY <3>1, <1>2, <1>11, Apart
      <4>3. b.at \in Spots
        BY <4>2, <1>2, Apart
      <4> QED
        BY <3>1, <4>1, <4>2, <4>3, <1>2, <1>10 DEF Parted
    <3>2. CASE b = [at |-> tail, words |-> nbytes]
      BY <3>2, <1>2, <1>10
    <3> QED
      BY <3>1, <3>2, <1>1
  <2>3. tail \notin OnList /\ tail \notin Held
    BY <1>2, <1>11, Apart DEF Heads
  <2> QED
    BY <2>1, <2>2, <2>3, <1>2, <1>11, <1>13, <1>14 DEF Parted
<1> QED
  BY <1>1, <1>16, <1>17 DEF Sound

(* ... the heap grown ...                                                  *)
LEMMA MoreCoreSound ==
  ASSUME Typed, Pointers, Sound, MoreCore
  PROVE  Sound'
<1> DEFINE nu == Growth(AllocSize(nbytes))
<1>1. /\ pc = "search" /\ hdr = free_hdr /\ kernel_break + nu <= HeapEnd
      /\ kernel_break' = kernel_break + nu
      /\ mem' = [mem EXCEPT ![kernel_break + 1] = nu]
      /\ blk' = kernel_break /\ pc' = "place"
      /\ UNCHANGED <<free_hdr, nbytes, prev_hdr, hdr, live, broken>>
  BY DEF MoreCore, Break!Sbrk
<1>2. /\ free_hdr # NULL /\ Listed /\ Parted /\ hdr \in OnList
      /\ Entering = {} /\ Entering' = {kernel_break} /\ Held' = Held
  BY <1>1, Searching DEF Entering, Held
<1>3. nu \in Nat /\ nu >= HEADER
  BY <1>1, Searching, AllocSizeWord, GrowthNat
<1> HIDE DEF nu
<1>4. /\ mem \in [Cells -> Words] /\ kernel_break \in HeapStart .. HeapEnd
      /\ Tiles(mem, Heads, kernel_break)
  BY <1>2 DEF Typed, Parted
<1>5. kernel_break \in Nat /\ kernel_break + 1 \in Cells
  BY <1>1, <1>3, <1>4, HeapAssumption DEF Cells, HEADER
<1>6. /\ Size(mem', kernel_break) = nu
      /\ \A g \in Spots : g # kernel_break => Size(mem', g) = Size(mem, g)
      /\ \A g \in Spots : g # kernel_break + 1 => Link(mem', g) = Link(mem, g)
  <2>1. \A g \in Spots : g \in Nat /\ g \in Cells /\ g + 1 \in Cells
    BY CellsWords DEF Spots
  <2> QED
    BY <2>1, <1>1, <1>4, <1>5 DEF Size, Link
<1>7. /\ Tiles(mem', Heads \union {kernel_break}, kernel_break + nu)
      /\ kernel_break \notin Heads /\ kernel_break # Base
      /\ \A g \in Heads : g + 2 <= kernel_break
  <2>1. \A g \in Heads \ {kernel_break} : Size(mem', g) = Size(mem, g)
    BY <1>6, <1>2, Apart
  <2>2. kernel_break + nu <= HeapEnd /\ Size(mem', kernel_break) = nu
    BY <1>1, <1>6
  <2> QED
    BY <2>1, <2>2, <1>3, <1>4, TilesGrow
<1>8. Circle(mem', OnList)
  <2>1. ASSUME NEW g \in OnList PROVE g # kernel_break + 1
    <3>1. g \in Nat /\ (g \in Heads \/ g = Base)
      BY <1>2, Apart
    <3>2. g < kernel_break
      BY <3>1, <1>4, <1>5, <1>7, HeapAssumption DEF HEADER
    <3> QED
      BY <3>1, <3>2, <1>5
  <2>2. \A g \in OnList : Link(mem', g) = Link(mem, g)
    BY <2>1, <1>2, <1>6, Apart
  <2> QED
    BY <2>2, <1>2, CircleSame DEF Listed
<1>9. OnList' = OnList
  BY <1>1, <1>2, <1>8, CircleRound DEF OnList
<1>10. Heads' = Heads \union {kernel_break}
  BY <1>2, <1>9 DEF Heads
<1>11. Listed'
  <2>1. Size(mem', Base) = 0
    BY <1>2, <1>6, <1>7, Apart DEF Listed
  <2> QED
    BY <2>1, <1>1, <1>2, <1>8, <1>9 DEF Listed
<1>12. Parted'
  <2>1. Tiles(mem', Heads', kernel_break')
    BY <1>1, <1>7, <1>10
  <2>2. \A b \in live' : Size(mem', b.at) = b.words + HEADER
    BY <1>1, <1>2, <1>6, <1>7, Apart DEF Parted
  <2>3. kernel_break \notin OnList /\ kernel_break \notin Held
    BY <1>2, <1>7, Apart DEF Heads
  <2> QED
    BY <2>1, <2>2, <2>3, <1>2, <1>7, <1>9 DEF Parted
<1> QED
  BY <1>1, <1>11, <1>12 DEF Sound

(* ... and a block put in its place.                                       *)
LEMMA PlaceSound ==
  ASSUME Typed, Pointers, Sound, Place, broken' = {}
  PROVE  Sound'
<1> DEFINE joined == JoinNext(mem)
<1>1. /\ pc = "place" /\ Found /\ free_hdr' = hdr
      /\ mem' = JoinPrevious(joined)
      /\ Advance(blk, Size(mem, blk)) # Link(mem, hdr)
      /\ Advance(hdr, Size(joined, hdr)) # blk
      /\ UNCHANGED <<kernel_break, live>>
  BY DEF Place
<1>2. /\ joined = [mem EXCEPT ![blk] = Link(mem, hdr)]
      /\ mem' = [joined EXCEPT ![hdr] = blk]
  BY <1>1 DEF JoinNext, JoinPrevious
<1>3. /\ free_hdr # NULL /\ Listed /\ Parted /\ hdr \in OnList
      /\ Entering = {blk} /\ Held' = Held /\ blk \in Heads
  BY <1>1 DEF Pointers, Sound, Listed, Entering, Held, Heads
<1>4. /\ IF nbytes = None
         THEN pc' = "idle" /\ nbytes' = None
         ELSE /\ pc' = "search" /\ nbytes' = nbytes
              /\ prev_hdr' = blk /\ hdr' = Link(mem', blk)
      /\ Entering' = {}
  BY DEF Place, Returns, Entering
<1> HIDE DEF joined
<1>5. /\ mem \in [Cells -> Words] /\ blk \in Places /\ blk \notin OnList /\ blk # hdr
      /\ blk \in Cells /\ hdr \in Cells
  BY <1>3, Apart DEF Typed, Parted
<1>6. /\ Link(mem', blk) = Link(mem, hdr) /\ Link(mem', hdr) = blk
      /\ \A g \in OnList \ {hdr} : Link(mem', g) = Link(mem, g)
      /\ \A g \in OnList \union Heads : Size(mem', g) = Size(mem, g)
  <2>1. \A g \in Cells : g # hdr /\ g # blk => mem'[g] = mem[g]
    BY <1>2, <1>5
  <2>2. mem'[blk] = Link(mem, hdr) /\ mem'[hdr] = blk
    BY <1>2, <1>5
  <2>3. \A g \in OnList \union Heads : g + 1 # hdr /\ g + 1 # blk /\ g + 1 \in Cells
    BY <1>3, Apart
  <2> QED
    BY <2>1, <2>2, <2>3, <1>3, <1>5, Apart DEF Link, Size
<1>7. Circle(mem', OnList \union {blk})
  <2>1. \/ blk > hdr /\ blk < Link(mem, hdr)
        \/ hdr >= Link(mem, hdr) /\ (blk > hdr \/ blk < Link(mem, hdr))
    BY <1>1 DEF Found
  <2> QED
    BY <2>1, <1>3, <1>5, <1>6, CircleInsert DEF Listed
<1>8. OnList' = OnList \union {blk}
  <2>1. free_hdr' # NULL
    BY <1>1, <1>3, Apart, CellsWords
  <2> QED
    BY <2>1, <1>7, CircleRound DEF OnList
<1>9. Heads' = Heads
  BY <1>3, <1>4, <1>8, Apart DEF Heads
<1>10. Listed'
  <2>1. Size(mem', Base) = 0
    BY <1>3, <1>6, Apart DEF Listed
  <2> QED
    BY <2>1, <1>1, <1>3, <1>4, <1>7, <1>8 DEF Listed
<1>11. Parted'
  <2>1. Tiles(mem', Heads', kernel_break')
    BY <1>1, <1>3, <1>6, <1>9, TilesSame DEF Parted
  <2>2. \A b \in live' : Size(mem', b.at) = b.words + HEADER
    BY <1>1, <1>3, <1>6, Apart DEF Parted
  <2> QED
    BY <2>1, <2>2, <1>3, <1>4, <1>8 DEF Parted
<1>12. nbytes' # None => nbytes' + HEADER < AddressSpace
  BY <1>4 DEF Sound
<1> QED
  BY <1>4, <1>10, <1>11, <1>12 DEF Sound

(* On an intact list no header lies outside the heap.                      *)
LEMMA NoFault ==
  ASSUME Typed, Pointers, Sound
  PROVE  ~Fault
<1>1. SUFFICES ASSUME Fault PROVE FALSE
  OBVIOUS
<1>2. pc \in {"search", "place"}
  BY <1>1 DEF Fault
<1>3. free_hdr # NULL /\ Listed /\ Parted /\ hdr \in OnList
  BY <1>2, Searching DEF Pointers, Sound, Listed
<1>4. ASSUME NEW h \in OnList PROVE Mapped(h)
  <2>1. CASE h = Base
    BY <2>1 DEF Mapped
  <2>2. CASE h # Base
    <3>1. h \in Heads /\ h \in Nat
      BY <2>2, <1>3, Apart DEF Heads
    <3>2. h >= HeapStart /\ Size(mem, h) \in Nat /\ Size(mem, h) >= 2
      BY <3>1, <1>3, TilesNat DEF Typed, Parted
    <3>3. h + Size(mem, h) <= kernel_break /\ kernel_break \in Int
      BY <3>1, <1>3 DEF Parted, Tiles, Typed
    <3>4. h + 1 < kernel_break
      BY <3>1, <3>2, <3>3
    <3> QED
      BY <3>1, <3>2, <3>3, <3>4, HeapAssumption DEF Mapped, Header, HEADER
  <2> QED
    BY <2>1, <2>2
<1>5. CASE pc = "search" /\ Size(mem, hdr) > AllocSize(nbytes)
  <2> DEFINE s == Size(mem, hdr)
             a == AllocSize(nbytes)
  <2>1. a = nbytes + HEADER /\ nbytes \in Nat
    BY <1>5, Searching
  <2>2. hdr \in Heads /\ hdr \in Nat
    <3>1. hdr # Base
      <4>1. Size(mem, Base) = 0
        BY <1>3 DEF Listed
      <4> QED
        BY <4>1, <1>5, <2>1 DEF HEADER
    <3> QED
      BY <3>1, <1>3, Apart DEF Heads
  <2>3. hdr >= HeapStart /\ s \in Nat
    BY <2>2, <1>3, TilesNat DEF Typed, Parted
  <2>4. hdr + s <= kernel_break /\ kernel_break \in Int
    BY <2>2, <1>3 DEF Parted, Tiles, Typed
  <2>5. s > a
    BY <1>5
  <2> HIDE DEF s, a
  <2>6. hdr + s - a >= HeapStart /\ hdr + s - a + 1 < kernel_break /\ hdr + s - a \in Int
    BY <2>1, <2>2, <2>3, <2>4, <2>5, HeapAssumption DEF HEADER
  <2>7. Mapped(hdr + s - a)
    BY <2>4, <2>6, HeapAssumption DEF Mapped, Header, HEADER
  <2> QED
    BY <2>7, <1>1, <1>3, <1>4, <1>5 DEF Fault, s, a
<1>6. Link(mem, hdr) \in OnList
  BY <1>3 DEF Listed, Circle
<1> QED
  BY <1>1, <1>3, <1>4, <1>5, <1>6 DEF Fault

(* The list and the tiling survive every step that does not damage them.   *)
LEMMA SoundStep ==
  ASSUME Typed, Pointers, Sound, [Next]_vars, broken' = {}
  PROVE  Sound'
<1>1. ASSUME Skip PROVE Sound'
  <2>1. /\ pc = "search" /\ prev_hdr' = hdr /\ hdr' = Link(mem, hdr)
        /\ UNCHANGED <<mem, free_hdr, kernel_break, pc, nbytes, blk, live, broken>>
    BY <1>1 DEF Skip
  <2>2. Listed /\ Parted /\ free_hdr # NULL /\ hdr \in OnList
    BY <2>1, Searching
  <2>3. OnList' = OnList /\ Heads' = Heads /\ Held' = Held /\ Entering' = Entering
    BY <2>1 DEF OnList, Heads, Held, Entering
  <2> QED
    BY <2>1, <2>2, <2>3 DEF Sound, Listed, Parted
<1>2. ASSUME Walk PROVE Sound'
  <2>1. /\ pc = "place" /\ hdr' = Link(mem, hdr)
        /\ UNCHANGED <<mem, free_hdr, kernel_break, pc, nbytes, prev_hdr, blk,
                       live, broken>>
    BY <1>2 DEF Walk
  <2>2. Listed /\ Parted /\ hdr \in OnList /\ Link(mem, hdr) \in OnList
    BY <2>1 DEF Pointers, Sound, Listed, Circle
  <2>3. OnList' = OnList /\ Heads' = Heads /\ Held' = Held /\ Entering' = Entering
    BY <2>1 DEF OnList, Heads, Held, Entering
  <2> QED
    BY <2>1, <2>2, <2>3 DEF Sound, Listed, Parted
<1>3. ASSUME NoCore PROVE Sound'
  <2>1. /\ pc = "search" /\ pc' = "idle" /\ nbytes' = None
        /\ UNCHANGED <<mem, free_hdr, kernel_break, live, broken>>
    BY <1>3 DEF NoCore, Returns
  <2>2. Listed /\ Parted
    BY <2>1, Searching
  <2>3. OnList' = OnList /\ Heads' = Heads /\ Held' = Held /\ Entering' = {} /\ Entering = {}
    BY <2>1 DEF OnList, Heads, Held, Entering
  <2> QED
    BY <2>1, <2>2, <2>3 DEF Sound, Listed, Parted
<1>4. ASSUME UNCHANGED vars PROVE Sound'
  BY <1>4 DEF vars, walk, Sound, Listed, Parted, OnList, Heads, Held, Entering
<1> QED
  BY <1>1, <1>2, <1>3, <1>4, AllocSound, FreeSound, TakeExactSound, SplitSound,
     MoreCoreSound, PlaceSound, NoFault
  DEF Next, Step, Halted

-----------------------------------------------------------------------------
(* The blocks of the properties are the tiles of the invariant.            *)

LEMMA BlockTiles ==
  ASSUME Typed, Listed, Parted
  PROVE  /\ \A b \in Blocks :
               /\ b.at \in Heads /\ b = Block(b.of, b.at, Size(mem, b.at))
               /\ \/ b.of = "list" /\ b.at \in OnList
                  \/ b.of = "free" /\ b.at \in Entering
                  \/ b.of = "caller" /\ b.at \in Held
         /\ \A h \in Heads : \E b \in Blocks : b.at = h /\ b.size = Size(mem, h)
<1>1. \A o, h, z : /\ Block(o, h, z).of = o
                   /\ Block(o, h, z).at = h
                   /\ Block(o, h, z).size = z
  BY DEF Block
<1>2. \A b \in live : Size(mem, b.at) = b.words + HEADER
  BY DEF Parted
<1>3. Blocks = {Block("list", h, Size(mem, h)) : h \in OnList \ {Base}}
               \union {Block("free", h, Size(mem, h)) : h \in Entering}
               \union {Block("caller", b.at, b.words + HEADER) : b \in live}
  BY DEF Blocks, Entering
<1>4. ASSUME NEW b \in Blocks
      PROVE  /\ b.at \in Heads /\ b = Block(b.of, b.at, Size(mem, b.at))
             /\ \/ b.of = "list" /\ b.at \in OnList
                \/ b.of = "free" /\ b.at \in Entering
                \/ b.of = "caller" /\ b.at \in Held
  <2>1. CASE \E h \in OnList \ {Base} : b = Block("list", h, Size(mem, h))
    BY <2>1, <1>1 DEF Heads
  <2>2. CASE \E h \in Entering : b = Block("free", h, Size(mem, h))
    BY <2>2, <1>1 DEF Heads
  <2>3. CASE \E c \in live : b = Block("caller", c.at, c.words + HEADER)
    <3>1. PICK c \in live : b = Block("caller", c.at, c.words + HEADER)
      BY <2>3
    <3>2. b = Block("caller", c.at, Size(mem, c.at)) /\ c.at \in Held
      BY <3>1, <1>2 DEF Held
    <3> QED
      BY <3>2, <1>1 DEF Heads
  <2> QED
    BY <2>1, <2>2, <2>3, <1>3
<1>5. ASSUME NEW h \in Heads
      PROVE  \E b \in Blocks : b.at = h /\ b.size = Size(mem, h)
  <2>1. CASE h \in OnList \ {Base}
    BY <2>1, <1>1, <1>3
  <2>2. CASE h \in Entering
    BY <2>2, <1>1, <1>3
  <2>3. CASE h \in Held
    <3>1. PICK c \in live : h = c.at
      BY <2>3 DEF Held
    <3>2. Block("caller", c.at, c.words + HEADER) \in Blocks
      BY <1>3
    <3> QED
      BY <3>1, <3>2, <1>1, <1>2
  <2> QED
    BY <2>1, <2>2, <2>3 DEF Heads
<1> QED
  BY <1>4, <1>5

(* Before the first call there are none.                                   *)
LEMMA NoBlocks ==
  ASSUME Pointers, free_hdr = NULL
  PROVE  Blocks = {} /\ kernel_break = HeapStart
  BY DEF Pointers, Blocks, OnList

-----------------------------------------------------------------------------
(* The theorems.                                                           *)

LEMMA InductiveInvariant == Spec => []IInv
<1>1. Init => IInv
  <2>1. SUFFICES ASSUME Init PROVE IInv
    OBVIOUS
  <2>2. mem \in [Cells -> Words]
    BY <2>1, HeapAssumption DEF Init, Cells, Words
  <2>3. Typed
    BY <2>1, <2>2, CellsWords, HeapAssumption DEF Init, Typed
  <2> QED
    BY <2>1, <2>3, HeapAssumption DEF Init, IInv, Pointers, Held, Sound
<1>2. IInv /\ [Next]_vars => IInv'
  <2>1. SUFFICES ASSUME IInv, [Next]_vars PROVE IInv'
    OBVIOUS
  <2>2. Typed' /\ Pointers'
    BY <2>1, TypeStep DEF IInv
  <2>3. Intact' => Intact
    BY <2>1 DEF Next, Step, Halted, Alloc, Free, TakeExact, Split, Skip, MoreCore, Break!Sbrk,
                NoCore, Walk, Place, Fault, vars, walk, Intact
  <2>4. Intact' => Sound'
    BY <2>1, <2>3, SoundStep DEF IInv, Intact
  <2> QED
    BY <2>2, <2>4 DEF IInv
<1> QED
  BY <1>1, <1>2, PTL DEF Spec

(* The words of kernel_alloc, kernel_free and morecore keep their types,   *)
(* and the pointers they write through are never NULL or halfway out of    *)
(* the heap, on a damaged list too.                                        *)
THEOREM TypeCorrect == Spec => []TypeOK
<1>1. IInv => TypeOK
  BY TypeTyped DEF IInv
<1> QED
  BY <1>1, InductiveInvariant, PTL

(* The free list of kalloc.c is one circle in the order of addresses, and  *)
(* the place where searches start and a search in progress are on it.      *)
THEOREM ListSafe == Spec => []ListCircular
<1>1. IInv => ListCircular
  <2>1. SUFFICES ASSUME IInv, Intact, free_hdr # NULL
                 PROVE  /\ \A h \in OnList : Link(mem, h) = Base \/ Link(mem, h) > h
                        /\ free_hdr \in OnList
                        /\ pc = "search" => prev_hdr \in OnList /\ hdr = Link(mem, prev_hdr)
    BY DEF ListCircular
  <2>2. Listed /\ Typed
    BY <2>1 DEF IInv, Sound
  <2>3. ASSUME NEW h \in OnList, Link(mem, h) # Base PROVE Link(mem, h) > h
    <3>1. h < Link(mem, h)
      BY <2>2, <2>3 DEF Listed, Circle
    <3>2. h \in Nat /\ Link(mem, h) \in Nat
      BY <2>2, CircleNat DEF Listed, Circle
    <3> QED
      BY <3>1, <3>2
  <2> QED
    BY <2>2, <2>3 DEF Listed
<1> QED
  BY <1>1, InductiveInvariant, PTL

(* As long as the list is intact, nothing a caller of kernel_alloc holds   *)
(* overlaps what another caller holds or what the list calls free.         *)
THEOREM BlocksSeparate == Spec => []BlocksDisjoint
<1>1. IInv => BlocksDisjoint
  <2>1. SUFFICES ASSUME IInv, Intact, NEW a \in Blocks, NEW b \in Blocks, a # b
                 PROVE  Extent(a) \intersect Extent(b) = {}
    BY DEF BlocksDisjoint
  <2>2. Typed /\ Listed /\ Parted
    BY <2>1, NoBlocks DEF IInv, Sound
  <2>3. ASSUME NEW x \in Blocks
        PROVE  /\ x.at \in Heads /\ x.at \in Nat /\ x.size = Size(mem, x.at)
               /\ x.size \in Nat
    <3>1. x.at \in Heads /\ x = Block(x.of, x.at, Size(mem, x.at))
      BY <2>2, BlockTiles
    <3>2. x.size = Size(mem, x.at)
      BY <3>1 DEF Block
    <3> QED
      BY <3>1, <3>2, <2>2, TilesNat DEF Typed, Parted
  <2>4. a.at # b.at
    <3>1. SUFFICES ASSUME a.at = b.at PROVE a = b
      BY <2>1
    <3>2. a.of = b.of
      BY <3>1, <2>2, BlockTiles DEF Parted
    <3> QED
      BY <3>1, <3>2, <2>2, BlockTiles
  <2>5. a.at + a.size <= b.at \/ b.at + b.size <= a.at
    <3>1. a.at < b.at \/ b.at < a.at
      BY <2>3, <2>4
    <3>2. Tiles(mem, Heads, kernel_break)
      BY <2>2 DEF Parted
    <3> QED
      BY <3>1, <3>2, <2>3 DEF Tiles
  <2> QED
    BY <2>3, <2>5 DEF Extent
<1> QED
  BY <1>1, InductiveInvariant, PTL

(* Nothing is lost: every word between the start of the heap and its break *)
(* is in a free block or with a caller, as long as the list is intact.     *)
THEOREM NothingLost == Spec => []MemoryAccounted
<1>1. IInv => MemoryAccounted
  <2>1. SUFFICES ASSUME IInv, Intact
                 PROVE  UNION {Extent(b) : b \in Blocks} = HeapStart .. kernel_break - 1
    BY DEF MemoryAccounted
  <2>2. kernel_break \in Int /\ HeapStart \in Int
    BY <2>1, HeapAssumption DEF IInv, Typed
  <2>3. CASE free_hdr = NULL
    <3>1. Blocks = {} /\ HeapStart .. kernel_break - 1 = {}
      BY <2>1, <2>2, <2>3, NoBlocks DEF IInv
    <3> QED
      BY <3>1
  <2>4. CASE free_hdr # NULL
    <3>1. Typed /\ Listed /\ Parted
      BY <2>1, <2>4 DEF IInv, Sound
    <3>2. Tiles(mem, Heads, kernel_break) /\ mem \in [Cells -> Words]
      BY <3>1 DEF Parted, Typed
    <3>3. ASSUME NEW b \in Blocks, NEW c \in Extent(b)
          PROVE  c \in HeapStart .. kernel_break - 1
      <4>1. b.at \in Heads /\ b = Block(b.of, b.at, Size(mem, b.at))
        BY <3>1, BlockTiles
      <4>2. b.size = Size(mem, b.at)
        BY <4>1 DEF Block
      <4>3. /\ b.at \in Nat /\ b.at >= HeapStart /\ b.size \in Nat
        BY <4>1, <4>2, <3>2, TilesNat
      <4>4. b.at + b.size <= kernel_break
        BY <4>1, <4>2, <3>2 DEF Tiles
      <4> QED
        BY <4>3, <4>4, <3>3, <2>2 DEF Extent
    <3>4. ASSUME NEW c \in HeapStart .. kernel_break - 1
          PROVE  \E b \in Blocks : c \in Extent(b)
      <4>1. PICK h \in Heads : h <= c /\ c < h + Size(mem, h)
        BY <3>2 DEF Tiles
      <4>2. PICK b \in Blocks : b.at = h /\ b.size = Size(mem, h)
        BY <3>1, BlockTiles
      <4>3. h \in Nat /\ Size(mem, h) \in Nat /\ c \in Int
        BY <3>2, <2>2, TilesNat
      <4> QED
        BY <4>1, <4>2, <4>3 DEF Extent
    <3> QED
      BY <3>3, <3>4
  <2> QED
    BY <2>3, <2>4
<1> QED
  BY <1>1, InductiveInvariant, PTL

(* While the list is intact, the allocator reads no header outside base    *)
(* and the heap: only a damaged list leads to the page fault handler.      *)
THEOREM IntactNeverFaults == Spec => [](Intact => pc # "fault")
<1>1. IInv => (Intact => pc # "fault")
  BY DEF IInv, Sound
<1> QED
  BY <1>1, InductiveInvariant, PTL
=============================================================================
