---------------------------- MODULE PagingProofs ----------------------------
(***************************************************************************)
(* Theorems about Paging for tables of every size, every choice of the     *)
(* entries that low memory and the kernel have, any blocks, pages and      *)
(* address spaces.                                                         *)
(***************************************************************************)
EXTENDS Paging, TLAPS

-----------------------------------------------------------------------------
(* The inductive invariant.                                                *)
UserPages == Users \X Entry
Value == Block \union {Absent, Junk}

TypeOK ==
  /\ mem \in [Block -> [Entry -> Value]]
  /\ cr3 \in Block /\ pdir_physical \in Block /\ new_pdir \in Block
  /\ avail \subseteq Frame /\ held \subseteq Frame
  /\ pc \in {"boot", "map", "copy", "switch", "unmap", "ready", "create", "fault"}
  /\ spaces \subseteq Directories /\ revoked \subseteq Directories \X Entry
  /\ mapped \in [ClientPages -> Data \union {Absent}]

Exclusive == avail \intersect held = {}

(* Directory d has the kernel, and d's recursive entry leads to r.         *)
Directory(d, r) ==
  /\ \A e \in KernelEntries : mem[d][e] = BootTable
  /\ mem[d][LAST] = r

LowAndKernel == mem[BootTable] = [e \in Entry |-> Junk]

(* On the way to the new directory, the old one is as the boot code has    *)
(* filled it, but for the table of the temporary page.                     *)
FirstTable == mem[BootDir][Temporary[1]]
Booting ==
  pc \in {"boot", "map", "copy", "switch"} =>
    /\ cr3 = BootDir /\ pdir_physical = BootDir
    /\ spaces = {} /\ mapped = [page \in ClientPages |-> Absent]
    /\ new_pdir \in Frame \union {Null}
    /\ Directory(BootDir, BootDir) /\ LowAndKernel
    /\ \A e \in Users \ {Temporary[1]} : mem[BootDir][e] = Absent
    /\ pc = "boot" => held = {}
    /\ pc = "map" => held = {new_pdir} \ {Null}
    /\ pc \in {"boot", "map"} => FirstTable = Absent
    /\ pc \in {"copy", "switch"} =>
         /\ FirstTable \in Frame \union {Null}
         /\ held = {new_pdir, FirstTable} \ {Null}
         /\ FirstTable # Null =>
              /\ FirstTable # new_pdir
              /\ mem[FirstTable] = [x \in Entry |->
                   IF x = Temporary[2] THEN new_pdir ELSE Absent]
    /\ pc = "switch" =>
         mem[new_pdir] = [mem[BootDir] EXCEPT ![LAST] = new_pdir]

(* From then on, all directories lead to the kernel's.                     *)
Paged == pc \in {"unmap", "ready", "create"}
Rooted ==
  Paged =>
    /\ pdir_physical \in Frame \union {Null}
    /\ cr3 \in spaces \union {pdir_physical}
    /\ \A d \in spaces \union {pdir_physical} : Directory(d, pdir_physical)
    /\ LowAndKernel
    /\ pc = "create" => new_pdir \in Directories

(* The blocks held are the directory and the tables its entries lead to,   *)
(* no two to the same one and none to an empty one.                        *)
Accounts ==
  /\ pdir_physical \in held
  /\ held = Tables \union {pdir_physical}
  /\ \A e \in Users :
       mem[pdir_physical][e] \in (held \ {pdir_physical}) \union {Absent}
  /\ \A e, f \in Users :
       /\ mem[pdir_physical][e] = mem[pdir_physical][f]
       /\ mem[pdir_physical][e] # Absent
       => e = f
  /\ \A table \in Tables : \E e \in Entry : mem[table][e] # Absent
Owned == Paged /\ NullUnused => Accounts

Shown ==
  Paged /\ NullUnused =>
    \A page \in ClientPages : Translate(pdir_physical, page) = mapped[page]

(* Where an address space has a copied entry, the kernel's directory has   *)
(* the same table, until it is given back.                                 *)
Copies ==
  /\ pc = "unmap" => spaces = {}
  /\ Paged =>
    \A d \in spaces, e \in Users :
      Copied(e) /\ <<d, e>> \notin revoked =>
        mem[d][e] \in {mem[pdir_physical][e], Absent}

IInv == /\ TypeOK
        /\ Exclusive
        /\ Booting
        /\ Rooted
        /\ Owned
        /\ Shown

-----------------------------------------------------------------------------
(* What differs from what.                                                 *)
LEMMA Distinct ==
  /\ LAST \in Entry /\ KernelEntries \subseteq Entry /\ LAST \notin KernelEntries
  /\ Frame \subseteq Block /\ Data \subseteq Block /\ Directories \subseteq Block
  /\ BootDir \in Block /\ BootTable \in Block /\ Null \in Block
  /\ BootDir # BootTable /\ Null # BootDir /\ Null # BootTable
  /\ {BootDir, BootTable, Null} \intersect (Frame \union Data \union Directories) = {}
  /\ Frame \intersect (Data \union Directories) = {}
  /\ Absent \notin Block /\ Junk \notin Block /\ Absent # Junk
  BY PagingAssumption DEF Entry, Block, Absent, Junk

LEMMA Pages ==
  /\ Temporary \in UserPages /\ ClientPages \subseteq UserPages
  /\ Temporary \notin ClientPages
  /\ Users \subseteq Entry /\ LAST \notin Users /\ Users \intersect KernelEntries = {}
  /\ \A page \in UserPages : /\ page[1] \in Users /\ page[2] \in Entry
                             /\ page = <<page[1], page[2]>>
  BY PagingAssumption DEF Users, UserPages

(* Through the recursive entry, the code reaches the kernel's directory    *)
(* and its tables whatever address space is in use.                        *)
LEMMA Recursive ==
  ASSUME Rooted, Paged
  PROVE  /\ pdir_virtual = pdir_physical
         /\ \A t \in Entry : p_table(t) = mem[pdir_physical][t]
  BY DEF Rooted, Directory, pdir_virtual, p_table

LEMMA DirectoryUsed ==
  ASSUME Rooted, Paged, NullUnused
  PROVE  pdir_physical \in Frame
  BY Distinct DEF Rooted, Directory, NullUnused

LEMMA TableUse ==
  Tables = {mem[pdir_physical][e] : e \in Users} \ {Absent}
  BY DEF Tables, Users

LEMMA TypedWrite ==
  ASSUME NEW m \in [Block -> [Entry -> Value]],
         NEW b \in Block, NEW e \in Entry, NEW v \in Value
  PROVE  /\ [m EXCEPT ![b][e] = v] \in [Block -> [Entry -> Value]]
         /\ [m EXCEPT ![b][e] = v][b] = [m[b] EXCEPT ![e] = v]
         /\ [m EXCEPT ![b][e] = v][b][e] = v
         /\ \A x \in Entry \ {e} : [m EXCEPT ![b][e] = v][b][x] = m[b][x]
         /\ \A c \in Block \ {b} : [m EXCEPT ![b][e] = v][c] = m[c]
  OBVIOUS

(* What an entry of the directory says of a page.                          *)
LEMMA Walk ==
  ASSUME Accounts, TypeOK, NEW page \in UserPages
  PROVE  Translate(pdir_physical, page) =
           IF mem[pdir_physical][page[1]] = Absent THEN Absent
           ELSE mem[mem[pdir_physical][page[1]]][page[2]]
<1>1. mem[pdir_physical][page[1]] \in Frame \union {Absent}
  BY Pages DEF Accounts, TypeOK
<1> QED
  BY <1>1, Distinct DEF Translate

-----------------------------------------------------------------------------
(* Mapping a page that is free: nothing changes but tables, and the        *)
(* directory in the entry of the page.                                     *)
LEMMA MapTyped ==
  ASSUME TypeOK, Exclusive, Rooted, Paged, NullUnused, Accounts,
         NEW page \in UserPages, NEW phys \in Data \union Directories,
         MapPage(page, phys), pdir_physical' = pdir_physical
  PROVE  /\ mem' \in [Block -> [Entry -> Value]]
         /\ avail' \subseteq Frame /\ held' \subseteq Frame /\ Exclusive'
         /\ cr3' = pdir_physical
         /\ \A b \in Block \ (Frame \union {Null}) : mem'[b] = mem[b]
         /\ \A e \in Entry \ {page[1]} :
              mem'[pdir_physical][e] = mem[pdir_physical][e]
<1> DEFINE D == pdir_physical
           t == page[1]
           e == page[2]
<1>1. /\ t \in Users /\ t \in Entry /\ e \in Entry /\ phys \in Block /\ phys \in Value
      /\ D \in Frame /\ D \in Block /\ mem \in [Block -> [Entry -> Value]]
      /\ avail \subseteq Frame /\ held \subseteq Frame
  BY Pages, Distinct, DirectoryUsed DEF TypeOK, Value
<1>2. pdir_virtual = D /\ p_table(t) = mem[D][t]
  BY <1>1, Recursive
<1> HIDE DEF D, t, e
<1>3. CASE MapInTable(page, phys)
  <2> DEFINE T == mem[D][t]
  <2>1. /\ T # Absent /\ mem' = [mem EXCEPT ![T][e] = phys]
        /\ avail' = avail /\ held' = held
    BY <1>2, <1>3 DEF MapInTable, pool, t, e
  <2>2. T \in held \ {D}
    BY <1>1, <2>1 DEF Accounts, D
  <2>3. T \in Frame /\ T \in Block
    BY <1>1, <2>2, Distinct
  <2> HIDE DEF T
  <2>4. /\ mem' \in [Block -> [Entry -> Value]]
        /\ \A c \in Block \ {T} : mem'[c] = mem[c]
    BY <1>1, <2>1, <2>3, TypedWrite
  <2>5. cr3' = D
    BY DEF MapPage, D
  <2> QED
    BY <1>1, <2>1, <2>2, <2>3, <2>4, <2>5 DEF D, Exclusive
<1>4. CASE MapInNewTable(page, phys)
  <2> DEFINE New == [x \in Entry |-> IF x = e THEN phys ELSE Absent]
  <2>1. PICK T \in avail \union {Null} :
          /\ IF T = Null THEN Pool!GetFails ELSE Pool!Get(T)
          /\ mem' = [mem EXCEPT ![D][t] = T, ![T] = New]
    BY <1>2, <1>4 DEF MapInNewTable, t, e
  <2> DEFINE m == [mem EXCEPT ![D][t] = T]
  <2>2. T \in Frame \union {Null} /\ T \in Block /\ T \in Value /\ T # D
    BY <1>1, <2>1, Distinct DEF Value, Accounts, Exclusive, D
  <2>3. /\ avail' \subseteq Frame /\ held' \subseteq Frame /\ Exclusive'
    BY <1>1, <2>1, <2>2 DEF Exclusive, Pool!Get, Pool!GetFails, Pool!vars
  <2>4. New \in [Entry -> Value]
    BY <1>1 DEF Value
  <2>5. /\ m \in [Block -> [Entry -> Value]]
        /\ \A x \in Entry \ {t} : m[D][x] = mem[D][x]
        /\ \A c \in Block \ {D} : m[c] = mem[c]
    BY <1>1, <2>2, TypedWrite
  <2>6. mem' = [m EXCEPT ![T] = New]
    BY <2>1
  <2> HIDE DEF m, New
  <2>7. cr3' = D
    BY DEF MapPage, D
  <2>8. mem' \in [Block -> [Entry -> Value]] /\ mem'[D] = m[D]
        /\ \A c \in Block \ {T} : mem'[c] = m[c]
    BY <1>1, <2>2, <2>4, <2>5, <2>6
  <2> QED
    BY <1>1, <2>2, <2>3, <2>5, <2>7, <2>8, Distinct DEF D, t
<1> QED
  BY <1>3, <1>4 DEF MapPage

(* One page more is shown, and the accounts are right still, with a new    *)
(* table or without.                                                       *)
LEMMA MapShows ==
  ASSUME TypeOK, Exclusive, Rooted, Paged, NullUnused, Accounts,
         NEW page \in UserPages, NEW phys \in Data \union Directories,
         MapPage(page, phys), pdir_physical' = pdir_physical, NullUnused'
  PROVE  /\ Accounts'
         /\ Translate(pdir_physical, page)' = phys
         /\ \A other \in UserPages \ {page} :
              Translate(pdir_physical, other)' = Translate(pdir_physical, other)
<1> DEFINE D == pdir_physical
           t == page[1]
           e == page[2]
<1>1. /\ t \in Users /\ t \in Entry /\ e \in Entry
      /\ phys \in Block /\ phys \in Value /\ phys # Absent
      /\ D \in Frame /\ D \in Block /\ mem \in [Block -> [Entry -> Value]]
      /\ avail \subseteq Frame /\ held \subseteq Frame
      /\ Users \subseteq Entry
  BY Pages, Distinct, DirectoryUsed DEF TypeOK, Value
<1>2. pdir_virtual = D /\ p_table(t) = mem[D][t]
  BY <1>1, Recursive
<1>3. \A other \in UserPages \ {page} :
        /\ other[1] \in Users /\ other[2] \in Entry
        /\ other[1] # t \/ other[2] # e
  BY Pages
<1>4. /\ D \in held
      /\ held = ({mem[D][x] : x \in Users} \ {Absent}) \union {D}
      /\ \A x \in Users : mem[D][x] \in (held \ {D}) \union {Absent}
      /\ \A x, y \in Users : mem[D][x] = mem[D][y] /\ mem[D][x] # Absent => x = y
      /\ \A x \in Users : mem[D][x] # Absent =>
           \E y \in Entry : mem[mem[D][x]][y] # Absent
  BY TableUse DEF Accounts
<1>5. SUFFICES
        /\ D \in held'
        /\ held' = ({mem'[D][x] : x \in Users} \ {Absent}) \union {D}
        /\ \A x \in Users : mem'[D][x] \in (held' \ {D}) \union {Absent}
        /\ \A x, y \in Users :
             mem'[D][x] = mem'[D][y] /\ mem'[D][x] # Absent => x = y
        /\ \A x \in Users : mem'[D][x] # Absent =>
             \E y \in Entry : mem'[mem'[D][x]][y] # Absent
        /\ mem'[D][t] # Absent /\ mem'[mem'[D][t]][e] = phys
        /\ \A other \in UserPages \ {page} :
             \/ /\ mem'[D][other[1]] = mem[D][other[1]]
                /\ mem[D][other[1]] # Absent =>
                     mem'[mem[D][other[1]]][other[2]] = mem[mem[D][other[1]]][other[2]]
             \/ /\ mem[D][other[1]] = Absent /\ mem'[D][other[1]] # Absent
                /\ mem'[mem'[D][other[1]]][other[2]] = Absent
  <2>1. Accounts'
    BY <1>5, TableUse DEF Accounts, Tables, Users
  <2>2. /\ held' \subseteq Frame
        /\ \A x \in Users : mem'[D][x] \in Frame \union {Absent}
    BY <1>5, MapTyped
  <2>3. Absent \notin Frame /\ Junk \notin Frame /\ Absent # Junk
    BY Distinct
  <2>4. Translate(D, page)' = phys
    BY <1>1, <1>5, <2>2, <2>3 DEF Translate
  <2>5. ASSUME NEW other \in UserPages \ {page}
        PROVE  Translate(D, other)' = Translate(D, other)
    <3>1. mem[D][other[1]] \in Frame \union {Absent}
      BY <1>1, <1>3, <1>4
    <3>2. mem'[D][other[1]] \in Frame \union {Absent}
      BY <1>3, <2>2
    <3> QED
      BY <1>5, <2>3, <3>1, <3>2 DEF Translate
  <2> QED
    BY <2>1, <2>4, <2>5
<1> HIDE DEF D, t, e
<1>6. CASE MapInTable(page, phys)
  <2> DEFINE T == mem[D][t]
  <2>1. /\ T # Absent /\ mem' = [mem EXCEPT ![T][e] = phys]
        /\ held' = held
    BY <1>2, <1>6 DEF MapInTable, pool, t, e
  <2>2. T \in held \ {D}
    BY <1>1, <1>4, <2>1
  <2>3. T \in Frame /\ T \in Block
    BY <1>1, <2>2, Distinct
  <2>4. \A x \in Users \ {t} : mem[D][x] # T
    BY <1>1, <1>4, <2>1
  <2>5. T = mem[D][t]
    OBVIOUS
  <2> HIDE DEF T
  <2>6. /\ mem'[T][e] = phys
        /\ \A x \in Entry \ {e} : mem'[T][x] = mem[T][x]
        /\ \A c \in Block \ {T} : mem'[c] = mem[c]
    BY <1>1, <2>1, <2>3, TypedWrite
  <2>7. mem'[D] = mem[D]
    BY <1>1, <2>2, <2>6
  <2>8. \A x \in Users : mem[D][x] # Absent => mem[D][x] \in Block
    BY <1>1, <1>4, Distinct
  <2>9. ASSUME NEW x \in Users, mem[D][x] # Absent
        PROVE  \E y \in Entry : mem'[mem[D][x]][y] # Absent
    <3>1. CASE x = t
      BY <1>1, <2>5, <2>6, <3>1
    <3>2. CASE x # t
      BY <1>4, <2>4, <2>6, <2>8, <2>9, <3>2
    <3> QED
      BY <3>1, <3>2
  <2>10. ASSUME NEW other \in UserPages \ {page}, mem[D][other[1]] # Absent
         PROVE  mem'[mem[D][other[1]]][other[2]] = mem[mem[D][other[1]]][other[2]]
    BY <1>3, <2>4, <2>5, <2>6, <2>8, <2>10
  <2> QED
    BY <1>1, <1>4, <2>1, <2>5, <2>6, <2>7, <2>9, <2>10
<1>7. CASE MapInNewTable(page, phys)
  <2> DEFINE New == [x \in Entry |-> IF x = e THEN phys ELSE Absent]
  <2>1. PICK T \in avail \union {Null} :
          /\ IF T = Null THEN Pool!GetFails ELSE Pool!Get(T)
          /\ mem' = [mem EXCEPT ![D][t] = T, ![T] = New]
    BY <1>2, <1>7 DEF MapInNewTable, t, e
  <2> DEFINE m == [mem EXCEPT ![D][t] = T]
  <2>2. T \in Block /\ T \in Value /\ T # D /\ T \notin held
    BY <1>1, <2>1, Distinct DEF Value, Accounts, Exclusive, D
  <2>3. /\ m \in [Block -> [Entry -> Value]] /\ m[D][t] = T
        /\ \A x \in Entry \ {t} : m[D][x] = mem[D][x]
        /\ \A c \in Block \ {D} : m[c] = mem[c]
    BY <1>1, <2>2, TypedWrite
  <2>4. mem' = [m EXCEPT ![T] = New]
    BY <2>1
  <2> HIDE DEF m
  <2>5. /\ mem'[T] = New
        /\ \A x \in Entry \ {t} : mem'[D][x] = mem[D][x]
        /\ mem'[D][t] = T
        /\ \A c \in Block \ {D, T} : mem'[c] = mem[c]
    BY <1>1, <2>2, <2>3, <2>4
  <2>6. T # Null
    BY <1>1, <2>5 DEF NullUnused, D
  <2>7. T \in avail /\ held' = held \union {T} /\ T \in Frame /\ T # Absent
    BY <1>1, <2>1, <2>6, Distinct DEF Pool!Get
  <2>8. mem[D][t] = Absent
    BY <1>2, <1>7 DEF MapInNewTable, t
  <2>9. /\ mem'[T][e] = phys
        /\ \A x \in Entry \ {e} : mem'[T][x] = Absent
    BY <1>1, <2>5
  <2> HIDE DEF New
  <2>10. \A x \in Users \ {t} : /\ mem'[D][x] = mem[D][x]
                                /\ mem[D][x] # Absent =>
                                     /\ mem[D][x] \in held \ {D}
                                     /\ mem[D][x] \in Block \ {D, T}
                                     /\ mem'[mem[D][x]] = mem[mem[D][x]]
    BY <1>1, <1>4, <2>2, <2>5, Distinct
  <2>11. held' = ({mem'[D][x] : x \in Users} \ {Absent}) \union {D}
    BY <1>1, <1>4, <2>5, <2>7, <2>8, <2>10
  <2>12. \A x, y \in Users :
           mem'[D][x] = mem'[D][y] /\ mem'[D][x] # Absent => x = y
    BY <1>1, <1>4, <2>2, <2>5, <2>10
  <2>13. \A x \in Users : mem'[D][x] # Absent =>
           \E y \in Entry : mem'[mem'[D][x]][y] # Absent
    BY <1>1, <1>4, <2>5, <2>9, <2>10
  <2>14. \A x \in Users : mem'[D][x] \in (held' \ {D}) \union {Absent}
    BY <1>1, <1>4, <2>2, <2>5, <2>7, <2>10
  <2>15. ASSUME NEW other \in UserPages \ {page}
         PROVE
             \/ /\ mem'[D][other[1]] = mem[D][other[1]]
                /\ mem[D][other[1]] # Absent =>
                     mem'[mem[D][other[1]]][other[2]] = mem[mem[D][other[1]]][other[2]]
             \/ /\ mem[D][other[1]] = Absent /\ mem'[D][other[1]] # Absent
                /\ mem'[mem'[D][other[1]]][other[2]] = Absent
    <3>1. CASE other[1] = t
      BY <1>3, <2>5, <2>7, <2>8, <2>9, <3>1
    <3>2. CASE other[1] # t
      BY <1>3, <2>10, <3>2
    <3> QED
      BY <3>1, <3>2
  <2> QED
    BY <1>1, <1>4, <2>5, <2>7, <2>9, <2>11, <2>12, <2>13, <2>14, <2>15
<1> QED
  BY <1>6, <1>7 DEF MapPage

-----------------------------------------------------------------------------
(* Unmapping a page, with its table when that has become empty.            *)
LEMMA UnmapShows ==
  ASSUME TypeOK, Exclusive, Rooted, Paged, NullUnused, Accounts,
         NEW page \in UserPages, UnmapPage(page), pdir_physical' = pdir_physical
  PROVE  /\ mem' \in [Block -> [Entry -> Value]]
         /\ avail' \subseteq Frame /\ held' \subseteq Frame /\ Exclusive'
         /\ \A b \in Block \ Frame : mem'[b] = mem[b]
         /\ \A e \in Entry \ {page[1]} :
              mem'[pdir_physical][e] = mem[pdir_physical][e]
         /\ Accounts'
         /\ Translate(pdir_physical, page)' = Absent
         /\ \A other \in UserPages \ {page} :
              Translate(pdir_physical, other)' = Translate(pdir_physical, other)
<1> DEFINE D == pdir_physical
           t == page[1]
           e == page[2]
           T == mem[D][t]
<1>1. /\ t \in Users /\ t \in Entry /\ e \in Entry
      /\ Absent \in Value
      /\ D \in Frame /\ D \in Block /\ mem \in [Block -> [Entry -> Value]]
      /\ avail \subseteq Frame /\ held \subseteq Frame
      /\ Users \subseteq Entry
  BY Pages, Distinct, DirectoryUsed DEF TypeOK, Value
<1>2. pdir_virtual = D /\ p_table(t) = T
  BY <1>1, Recursive
<1>3. \A other \in UserPages :
        /\ other[1] \in Users /\ other[2] \in Entry
        /\ other # page => other[1] # t \/ other[2] # e
  BY Pages
<1>4. /\ D \in held
      /\ held = ({mem[D][x] : x \in Users} \ {Absent}) \union {D}
      /\ \A x \in Users : mem[D][x] \in (held \ {D}) \union {Absent}
      /\ \A x, y \in Users : mem[D][x] = mem[D][y] /\ mem[D][x] # Absent => x = y
      /\ \A x \in Users : mem[D][x] # Absent =>
           \E y \in Entry : mem[mem[D][x]][y] # Absent
  BY TableUse DEF Accounts
<1>5. \A x \in Users : mem[D][x] \in Frame \union {Absent}
  BY <1>1, <1>4
<1>6. CASE T = Absent
  <2>1. mem' = mem /\ avail' = avail /\ held' = held
    BY <1>2, <1>6 DEF UnmapPage, pool, t
  <2>2. Accounts' /\ Exclusive'
    BY <2>1, TableUse DEF Accounts, Exclusive, Tables
  <2>3. \A other \in UserPages : Translate(D, other)' = Translate(D, other)
    BY <2>1 DEF Translate
  <2>4. Translate(D, page) = Absent
    BY <1>6 DEF Translate
  <2> QED
    BY <1>1, <2>1, <2>2, <2>3, <2>4
<1>7. CASE T # Absent
  <2> DEFINE cleared == [mem EXCEPT ![T][e] = Absent]
             empty == \A x \in Entry : cleared[T][x] = Absent
  <2>1. /\ mem' = IF empty THEN [cleared EXCEPT ![D][t] = Absent] ELSE cleared
        /\ IF empty THEN Pool!Free(T) ELSE avail' = avail /\ held' = held
    <3> HIDE DEF D, T
    <3> QED
      BY <1>2, <1>7, <1>1 DEF UnmapPage, pool, T
  <2>2. T \in held \ {D} /\ T \in Frame /\ T \in Block /\ D # T
    BY <1>1, <1>4, <1>7, Distinct
  <2>3. \A x \in Users \ {t} : mem[D][x] # T
    BY <1>1, <1>4, <1>7
  <2>4. mem[D][t] = T /\ pdir_physical' = D
    OBVIOUS
  <2>5. SUFFICES
          /\ mem' \in [Block -> [Entry -> Value]]
          /\ avail' \subseteq Frame /\ held' \subseteq Frame
          /\ avail' \intersect held' = {}
          /\ \A b \in Block \ Frame : mem'[b] = mem[b]
          /\ \A x \in Entry \ {t} : mem'[D][x] = mem[D][x]
          /\ D \in held'
          /\ held' = ({mem'[D][x] : x \in Users} \ {Absent}) \union {D}
          /\ \A x \in Users : mem'[D][x] \in (held' \ {D}) \union {Absent}
          /\ \A x, y \in Users :
               mem'[D][x] = mem'[D][y] /\ mem'[D][x] # Absent => x = y
          /\ \A x \in Users : mem'[D][x] # Absent =>
               \E y \in Entry : mem'[mem'[D][x]][y] # Absent
          /\ \A other \in UserPages :
               IF other = page
               THEN mem'[D][t] = Absent \/ mem'[mem'[D][t]][e] = Absent
               ELSE \/ /\ mem'[D][other[1]] = mem[D][other[1]]
                       /\ mem[D][other[1]] # Absent =>
                            mem'[mem[D][other[1]]][other[2]]
                              = mem[mem[D][other[1]]][other[2]]
                    \/ /\ mem'[D][other[1]] = Absent
                       /\ mem[D][other[1]] # Absent
                       /\ mem[mem[D][other[1]]][other[2]] = Absent
    <3>1. Accounts' /\ Exclusive'
      BY <2>5, TableUse DEF Accounts, Tables, Users, Exclusive
    <3>2. \A x \in Users : mem'[D][x] \in Frame \union {Absent}
      BY <2>5
    <3>3. Absent \notin Frame /\ Junk \notin Frame /\ Absent # Junk
      BY Distinct
    <3>4. Translate(D, page)' = Absent
      BY <1>1, <2>4, <2>5, <3>2, <3>3 DEF Translate
    <3>5. ASSUME NEW other \in UserPages \ {page}
          PROVE  Translate(D, other)' = Translate(D, other)
      <4>1. mem[D][other[1]] \in Frame \union {Absent}
        BY <1>3, <1>5
      <4>2. mem'[D][other[1]] \in Frame \union {Absent}
        BY <1>3, <3>2
      <4> QED
        BY <2>5, <3>3, <4>1, <4>2 DEF Translate
    <3> QED
      BY <2>5, <3>1, <3>4, <3>5
  <2> HIDE DEF D, T, t, e
  <2>6. /\ cleared \in [Block -> [Entry -> Value]]
        /\ cleared[T][e] = Absent
        /\ \A x \in Entry \ {e} : cleared[T][x] = mem[T][x]
        /\ \A c \in Block \ {T} : cleared[c] = mem[c]
    BY <1>1, <2>2, TypedWrite
  <2>7. CASE empty
    <3>1. /\ mem' \in [Block -> [Entry -> Value]]
          /\ mem'[D][t] = Absent
          /\ \A x \in Entry \ {t} : mem'[D][x] = cleared[D][x]
          /\ \A c \in Block \ {D} : mem'[c] = cleared[c]
      <4>1. mem' = [cleared EXCEPT ![D][t] = Absent]
        BY <2>1, <2>7
      <4> HIDE DEF cleared
      <4> QED
        BY <1>1, <2>6, <4>1, TypedWrite
    <3>2. held' = held \ {T} /\ avail' = avail \union {T}
      BY <2>1, <2>7 DEF Pool!Free
    <3>3. \A x \in Entry : x # e => mem[T][x] = Absent
      BY <2>6, <2>7
    <3> HIDE DEF cleared, empty
    <3>4. /\ \A x \in Entry \ {t} : mem'[D][x] = mem[D][x]
          /\ \A c \in Block \ {D, T} : mem'[c] = mem[c]
      BY <1>1, <2>2, <2>6, <3>1
    <3>5. \A x \in Users \ {t} : mem[D][x] # Absent => mem[D][x] \in Block \ {D, T}
      BY <1>1, <1>4, <2>3, Distinct
    <3>6. held' = ({mem'[D][x] : x \in Users} \ {Absent}) \union {D}
      BY <1>1, <1>4, <2>2, <2>3, <2>4, <3>1, <3>2, <3>4
    <3>7. \A x \in Users : mem'[D][x] # Absent =>
            \E y \in Entry : mem'[mem'[D][x]][y] # Absent
      BY <1>1, <1>4, <3>1, <3>4, <3>5
    <3>8. /\ avail' \subseteq Frame /\ held' \subseteq Frame
          /\ avail' \intersect held' = {} /\ D \in held'
      BY <1>1, <1>4, <2>2, <3>2 DEF Exclusive
    <3>9. \A x \in Users \ {t} : mem'[D][x] = mem[D][x] /\ mem[D][x] # T
      BY <1>1, <2>3, <3>4
    <3>11. \A x \in Users : mem'[D][x] \in (held' \ {D}) \union {Absent}
      BY <1>4, <3>1, <3>2, <3>9
    <3>12. \A x, y \in Users :
             mem'[D][x] = mem'[D][y] /\ mem'[D][x] # Absent => x = y
      BY <1>4, <3>1, <3>9
    <3>10. ASSUME NEW other \in UserPages \ {page}
           PROVE  \/ /\ mem'[D][other[1]] = mem[D][other[1]]
                     /\ mem[D][other[1]] # Absent =>
                          mem'[mem[D][other[1]]][other[2]]
                            = mem[mem[D][other[1]]][other[2]]
                  \/ /\ mem'[D][other[1]] = Absent
                     /\ mem[D][other[1]] # Absent
                     /\ mem[mem[D][other[1]]][other[2]] = Absent
      <4>1. CASE other[1] = t
        BY <1>3, <1>7, <2>4, <3>1, <3>3, <4>1
      <4>2. CASE other[1] # t
        BY <1>1, <1>3, <3>4, <3>5, <4>2
      <4> QED
        BY <4>1, <4>2
    <3> QED
      BY <1>1, <2>2, <3>1, <3>4, <3>6, <3>7, <3>8, <3>10, <3>11, <3>12
  <2>8. CASE ~empty
    <3>1. mem' = cleared /\ avail' = avail /\ held' = held
      BY <2>1, <2>8
    <3>2. \E x \in Entry : mem'[T][x] # Absent
      BY <2>8, <3>1
    <3> HIDE DEF cleared, empty
    <3>3. /\ mem'[T][e] = Absent
          /\ \A x \in Entry \ {e} : mem'[T][x] = mem[T][x]
          /\ \A c \in Block \ {T} : mem'[c] = mem[c]
          /\ mem'[D] = mem[D]
      BY <1>1, <2>2, <2>6, <3>1
    <3>4. \A x \in Users \ {t} : mem[D][x] # Absent =>
            mem[D][x] \in Block \ {T}
      BY <1>1, <1>4, <2>3, Distinct
    <3>5. \A x \in Users : mem'[D][x] # Absent =>
            \E y \in Entry : mem'[mem'[D][x]][y] # Absent
      BY <1>1, <1>4, <2>4, <3>2, <3>3, <3>4
    <3>6. ASSUME NEW other \in UserPages \ {page}, mem[D][other[1]] # Absent
          PROVE  mem'[mem[D][other[1]]][other[2]] = mem[mem[D][other[1]]][other[2]]
      BY <1>3, <2>4, <3>3, <3>4, <3>6
    <3> QED
      BY <1>1, <1>4, <2>2, <2>4, <2>6, <3>1, <3>3, <3>5, <3>6 DEF Exclusive
  <2> QED
    BY <2>7, <2>8
<1> QED
  BY <1>6, <1>7

-----------------------------------------------------------------------------
(* Writes to tables, and to one entry of a user's in the directory, leave  *)
(* the kernel in every address space.                                      *)
LEMMA RootedKept ==
  ASSUME TypeOK, Rooted, Paged, NEW t \in Users,
         pdir_physical' = pdir_physical, spaces' = spaces,
         cr3' \in spaces \union {pdir_physical},
         \A b \in Block \ (Frame \union {Null}) : mem'[b] = mem[b],
         \A e \in Entry \ {t} : mem'[pdir_physical][e] = mem[pdir_physical][e],
         pc' = "create" => new_pdir' \in Directories
  PROVE  Rooted'
<1>1. /\ \A e \in KernelEntries \union {LAST} : e \in Entry \ {t}
      /\ spaces \subseteq Block \ (Frame \union {Null})
      /\ BootTable \in Block \ (Frame \union {Null})
  BY Pages, Distinct DEF TypeOK
<1> QED
  BY <1>1 DEF Rooted, Directory, LowAndKernel

(* The invariant holds, from the boot code's directory on.                 *)
LEMMA InitIInv == Init => IInv
<1> SUFFICES ASSUME Init PROVE IInv
  OBVIOUS
<1>1. /\ mem = [b \in Block |-> IF b = BootDir THEN BootEntries
                                ELSE [e \in Entry |-> Junk]]
      /\ cr3 = BootDir /\ pdir_physical = BootDir /\ pc = "boot" /\ new_pdir = Null
      /\ spaces = {} /\ revoked = {}
      /\ mapped = [page \in ClientPages |-> Absent]
      /\ avail \in SUBSET Frame /\ held = {}
  BY DEF Init, Pool!Init
<1>2. /\ BootEntries \in [Entry -> Value] /\ BootEntries[LAST] = BootDir
      /\ \A e \in KernelEntries : BootEntries[e] = BootTable
      /\ \A e \in Users : BootEntries[e] = Absent
  BY Distinct DEF BootEntries, Value, Users
<1>3. TypeOK
  BY <1>1, <1>2, Distinct DEF TypeOK, Value
<1>6. /\ \A e \in Users : mem[BootDir][e] = Absent
      /\ Directory(BootDir, BootDir) /\ LowAndKernel
  BY <1>1, <1>2, Distinct DEF Directory, LowAndKernel
<1>4. Booting
  BY <1>1, <1>6, Pages DEF Booting, FirstTable
<1>5. Exclusive /\ ~Paged
  BY <1>1 DEF Exclusive, Paged
<1> QED
  BY <1>3, <1>4, <1>5 DEF IInv, Rooted, Owned, Shown

LEMMA InitializeGetIInv ==
  ASSUME IInv, NEW block \in Frame \union {Null}, InitializeGet(block)
  PROVE  IInv'
<1>1. /\ pc = "boot" /\ pc' = "map" /\ new_pdir' = block
      /\ mem' = mem /\ cr3' = cr3 /\ pdir_physical' = pdir_physical
      /\ spaces' = spaces /\ revoked' = revoked /\ mapped' = mapped /\ held = {} /\ avail \subseteq Frame
      /\ IF block = Null THEN Pool!GetFails ELSE Pool!Get(block)
  BY DEF InitializeGet, IInv, Booting, TypeOK
<1>2. /\ held' = {block} \ {Null} /\ avail' \subseteq Frame /\ held' \subseteq Frame
      /\ avail' \intersect held' = {}
  BY <1>1, Distinct DEF Pool!Get, Pool!GetFails, Pool!vars
<1>3. TypeOK' /\ Exclusive'
  BY <1>1, <1>2, Distinct DEF IInv, TypeOK, Exclusive
<1>4. Booting'
  BY <1>1, <1>2 DEF IInv, Booting, FirstTable, Directory, LowAndKernel
<1> QED
  BY <1>1, <1>3, <1>4 DEF IInv, Rooted, Owned, Shown, Paged

LEMMA InitializeMapIInv ==
  ASSUME IInv, InitializeMap
  PROVE  IInv'
<1> DEFINE t == Temporary[1]
           e == Temporary[2]
           New == [x \in Entry |-> IF x = e THEN new_pdir ELSE Absent]
<1>1. /\ pc = "map" /\ pc' = "copy" /\ pdir_physical' = pdir_physical
      /\ new_pdir' = new_pdir /\ spaces' = spaces /\ revoked' = revoked /\ mapped' = mapped
      /\ MapPage(Temporary, new_pdir) /\ cr3' = pdir_physical
  BY DEF InitializeMap, MapPage
<1>2. /\ cr3 = BootDir /\ pdir_physical = BootDir
      /\ spaces = {} /\ mapped = [page \in ClientPages |-> Absent]
      /\ new_pdir \in Frame \union {Null}
      /\ \A x \in KernelEntries : mem[BootDir][x] = BootTable
      /\ mem[BootDir][LAST] = BootDir /\ LowAndKernel
      /\ \A x \in Users \ {t} : mem[BootDir][x] = Absent
      /\ mem[BootDir][t] = Absent
      /\ held = {new_pdir} \ {Null}
      /\ mem \in [Block -> [Entry -> Value]] /\ avail \subseteq Frame
      /\ avail \intersect held = {}
  BY <1>1 DEF IInv, Booting, TypeOK, Exclusive, FirstTable, Directory
<1>3. /\ t \in Users /\ t \in Entry /\ e \in Entry /\ t # LAST
      /\ t \notin KernelEntries /\ Users \subseteq Entry
  BY Pages DEF Users
<1>4. pdir_virtual = BootDir
  BY <1>2 DEF pdir_virtual
<1>5. PICK T \in avail \union {Null} :
        /\ IF T = Null THEN Pool!GetFails ELSE Pool!Get(T)
        /\ mem' = [mem EXCEPT ![BootDir][t] = T, ![T] = New]
  BY <1>1, <1>2, <1>4 DEF MapPage, MapInTable, MapInNewTable
<1> HIDE DEF t, e
<1> DEFINE m == [mem EXCEPT ![BootDir][t] = T]
<1>6. /\ T \in Frame \union {Null} /\ T \in Block /\ T \in Value
      /\ T # BootDir /\ T # BootTable
  BY <1>2, <1>5, Distinct DEF Value
<1>7. /\ m \in [Block -> [Entry -> Value]] /\ m[BootDir][t] = T
      /\ \A x \in Entry \ {t} : m[BootDir][x] = mem[BootDir][x]
      /\ \A c \in Block \ {BootDir} : m[c] = mem[c]
  BY <1>2, <1>3, <1>6, Distinct, TypedWrite
<1>8. mem' = [m EXCEPT ![T] = New]
  BY <1>5
<1>9. New \in [Entry -> Value]
  BY <1>2, Distinct DEF Value
<1> HIDE DEF m, New
<1>10. /\ mem' \in [Block -> [Entry -> Value]] /\ mem'[T] = New
       /\ mem'[BootDir][t] = T
       /\ \A x \in Entry \ {t} : mem'[BootDir][x] = mem[BootDir][x]
       /\ mem'[BootTable] = mem[BootTable]
  BY <1>6, <1>7, <1>8, <1>9, Distinct
<1>11. /\ held' = {new_pdir, T} \ {Null} /\ avail' \subseteq Frame
       /\ held' \subseteq Frame /\ avail' \intersect held' = {}
       /\ T # Null => T # new_pdir
  BY <1>2, <1>5, <1>6, Distinct DEF Pool!Get, Pool!GetFails, Pool!vars
<1>12. TypeOK' /\ Exclusive'
  BY <1>1, <1>2, <1>10, <1>11, Distinct DEF IInv, TypeOK, Exclusive
<1>13. /\ \A x \in KernelEntries : mem'[BootDir][x] = BootTable
       /\ mem'[BootDir][LAST] = BootDir
       /\ \A x \in Users \ {t} : mem'[BootDir][x] = Absent
  BY <1>2, <1>3, <1>10, Distinct
<1>14. Booting'
  BY <1>1, <1>2, <1>6, <1>10, <1>11, <1>13
     DEF Booting, FirstTable, Directory, LowAndKernel, New, t, e
<1> QED
  BY <1>1, <1>12, <1>14 DEF IInv, Rooted, Owned, Shown, Paged

LEMMA InitializeCopyIInv ==
  ASSUME IInv, InitializeCopy
  PROVE  IInv'
<1>1. /\ pc = "copy" /\ pdir_physical' = pdir_physical /\ cr3' = cr3
      /\ avail' = avail /\ held' = held
      /\ new_pdir' = new_pdir /\ spaces' = spaces /\ revoked' = revoked /\ mapped' = mapped
  BY DEF InitializeCopy, pool
<1>2. CASE pc' = "fault"
  <2>1. mem' = mem
    BY <1>2 DEF InitializeCopy
  <2> QED
    BY <1>1, <1>2, <2>1
       DEF IInv, TypeOK, Exclusive, Booting, Rooted, Owned, Shown, Paged
<1>3. CASE pc' = "switch"
  <2> DEFINE row == [mem[BootDir] EXCEPT ![LAST] = new_pdir]
             T == FirstTable
  <2>1. /\ cr3 = BootDir /\ mem[BootDir][LAST] = BootDir
        /\ pdir_virtual = BootDir /\ new_pdir \in Frame \union {Null}
        /\ T \in Frame \union {Null}
    BY <1>1 DEF IInv, Booting, pdir_virtual, Directory
  <2>2. mem' = [mem EXCEPT ![new_pdir] = row]
    BY <1>3, <2>1 DEF InitializeCopy
  <2>3. /\ mem \in [Block -> [Entry -> Value]] /\ new_pdir \in Block
        /\ new_pdir # BootDir /\ new_pdir # BootTable /\ T \in Block
        /\ row \in [Entry -> Value]
    BY <2>1, Distinct DEF IInv, TypeOK, Value
  <2> HIDE DEF row
  <2>4. /\ mem' \in [Block -> [Entry -> Value]] /\ mem'[new_pdir] = row
        /\ mem'[BootDir] = mem[BootDir] /\ mem'[BootTable] = mem[BootTable]
        /\ T # new_pdir => mem'[T] = mem[T]
    BY <2>2, <2>3, Distinct
  <2>5. FirstTable' = T
    BY <2>4 DEF FirstTable
  <2> HIDE DEF T
  <2>6. TypeOK' /\ Exclusive'
    BY <1>1, <1>3, <2>4 DEF IInv, TypeOK, Exclusive
  <2>7. Booting'
    BY <1>1, <1>3, <2>4, <2>5
       DEF IInv, Booting, Directory, LowAndKernel, row, T
  <2> QED
    BY <1>3, <2>6, <2>7 DEF IInv, Rooted, Owned, Shown, Paged
<1> QED
  BY <1>2, <1>3 DEF InitializeCopy

LEMMA InitializeSwitchIInv ==
  ASSUME IInv, InitializeSwitch
  PROVE  IInv'
<1> DEFINE t == Temporary[1]
           e == Temporary[2]
           D == new_pdir
           T == FirstTable
<1>1. /\ pc = "switch" /\ pc' = "unmap" /\ cr3' = D /\ pdir_physical' = D
      /\ mem' = mem /\ avail' = avail /\ held' = held
      /\ new_pdir' = new_pdir /\ spaces' = spaces /\ revoked' = revoked /\ mapped' = mapped
  BY DEF InitializeSwitch, pool
<1>2. /\ spaces = {} /\ mapped = [page \in ClientPages |-> Absent]
      /\ D \in Frame \union {Null} /\ LowAndKernel
      /\ \A x \in KernelEntries : mem[BootDir][x] = BootTable
      /\ \A x \in Users \ {t} : mem[BootDir][x] = Absent
      /\ mem[BootDir][t] = T /\ T \in Frame \union {Null}
      /\ held = {D, T} \ {Null}
      /\ T # Null => /\ T # D
                     /\ mem[T] = [x \in Entry |-> IF x = e THEN D ELSE Absent]
      /\ mem[D] = [mem[BootDir] EXCEPT ![LAST] = D]
      /\ mem[BootDir] \in [Entry -> Value]
  BY <1>1, Distinct DEF IInv, Booting, Directory, FirstTable, TypeOK
<1>3. /\ t \in Users /\ t \in Entry /\ e \in Entry
      /\ Users \subseteq Entry \ {LAST} /\ KernelEntries \subseteq Entry \ {LAST}
      /\ LAST \in Entry
  BY Pages, Distinct
<1>4. /\ mem[D][LAST] = D /\ mem[D][t] = T
      /\ \A x \in KernelEntries : mem[D][x] = BootTable
      /\ \A x \in Users \ {t} : mem[D][x] = Absent
  BY <1>2, <1>3
<1>5. TypeOK' /\ Exclusive'
  BY <1>1, <1>2, Distinct DEF IInv, TypeOK, Exclusive
<1>6. Rooted' /\ Booting'
  BY <1>1, <1>2, <1>4 DEF Rooted, Booting, Directory, LowAndKernel
<1> HIDE DEF t, e, T, D
<1>7. ASSUME NullUnused'
      PROVE  /\ D # Null /\ T # Null /\ T # D /\ T # Absent
             /\ D # Absent /\ T # Junk /\ held = {D, T}
             /\ mem[T] = [x \in Entry |-> IF x = e THEN D ELSE Absent]
  BY <1>1, <1>2, <1>3, <1>4, <1>7, Distinct DEF NullUnused
<1>8. ASSUME NullUnused' PROVE Accounts'
  <2>1. Tables' = {T}
    BY <1>1, <1>3, <1>4, <1>7, <1>8 DEF Tables, Users
  <2>2. mem[T][e] # Absent
    BY <1>3, <1>7, <1>8
  <2> QED
    BY <1>1, <1>3, <1>4, <1>7, <1>8, <2>1, <2>2 DEF Accounts
<1>9. ASSUME NullUnused', NEW page \in ClientPages
      PROVE  Translate(pdir_physical, page)' = Absent
  <2>1. /\ page[1] \in Users /\ page[2] \in Entry
        /\ page[1] # t \/ page[2] # e
    BY Pages DEF t, e
  <2>2. Translate(pdir_physical, page)' =
          IF mem[D][page[1]] \in {Absent, Junk} THEN mem[D][page[1]]
          ELSE mem[mem[D][page[1]]][page[2]]
    BY <1>1 DEF Translate
  <2> QED
    BY <1>4, <1>7, <1>9, <2>1, <2>2
<1> QED
  BY <1>1, <1>2, <1>5, <1>6, <1>8, <1>9 DEF IInv, Owned, Shown

LEMMA InitializeUnmapIInv ==
  ASSUME IInv, InitializeUnmap
  PROVE  IInv'
<1>1. /\ pc = "unmap" /\ pc' = "ready" /\ NullUnused /\ Paged /\ Paged'
      /\ pdir_physical' = pdir_physical /\ cr3' = pdir_physical
      /\ new_pdir' = new_pdir /\ spaces' = spaces /\ revoked' = revoked /\ mapped' = mapped
      /\ UnmapPage(Temporary)
  BY DEF InitializeUnmap, Callable, Paged
<1>2. /\ TypeOK /\ Exclusive /\ Rooted /\ Accounts
      /\ \A page \in ClientPages : Translate(pdir_physical, page) = mapped[page]
  BY <1>1 DEF IInv, Owned, Shown
<1>3. /\ mem' \in [Block -> [Entry -> Value]]
      /\ avail' \subseteq Frame /\ held' \subseteq Frame /\ Exclusive'
      /\ \A b \in Block \ Frame : mem'[b] = mem[b]
      /\ \A x \in Entry \ {Temporary[1]} :
           mem'[pdir_physical][x] = mem[pdir_physical][x]
      /\ Accounts'
      /\ \A page \in UserPages \ {Temporary} :
           Translate(pdir_physical, page)' = Translate(pdir_physical, page)
  BY <1>1, <1>2, Pages, UnmapShows
<1>4. TypeOK'
  BY <1>1, <1>2, <1>3 DEF TypeOK
<1>5. Rooted'
  BY <1>1, <1>2, <1>3, Pages, RootedKept
<1>6. Shown'
  BY <1>1, <1>2, <1>3, Pages DEF Shown
<1> QED
  BY <1>1, <1>3, <1>4, <1>5, <1>6 DEF IInv, Booting, Owned

LEMMA MapIInv ==
  ASSUME IInv, NEW page \in ClientPages, NEW phys \in Data, Map(page, phys)
  PROVE  IInv'
<1>1. /\ pc = "ready" /\ pc' = "ready" /\ NullUnused /\ Paged /\ Paged'
      /\ pdir_physical' = pdir_physical /\ new_pdir' = new_pdir
      /\ spaces' = spaces /\ revoked' = revoked /\ mapped' = [mapped EXCEPT ![page] = phys]
      /\ MapPage(page, phys)
  BY DEF Map, Callable, Paged
<1>2. /\ TypeOK /\ Exclusive /\ Rooted /\ Accounts
      /\ \A other \in ClientPages : Translate(pdir_physical, other) = mapped[other]
  BY <1>1 DEF IInv, Owned, Shown
<1>3. page \in UserPages /\ ClientPages \subseteq UserPages
  BY Pages
<1>4. /\ mem' \in [Block -> [Entry -> Value]]
      /\ avail' \subseteq Frame /\ held' \subseteq Frame /\ Exclusive'
      /\ cr3' = pdir_physical
      /\ \A b \in Block \ (Frame \union {Null}) : mem'[b] = mem[b]
      /\ \A e \in Entry \ {page[1]} :
           mem'[pdir_physical][e] = mem[pdir_physical][e]
  BY <1>1, <1>2, <1>3, MapTyped
<1>5. TypeOK'
  BY <1>1, <1>2, <1>4 DEF TypeOK
<1>6. Rooted'
  BY <1>1, <1>2, <1>3, <1>4, Pages, RootedKept
<1>7. ASSUME NullUnused'
      PROVE  /\ Accounts'
             /\ Translate(pdir_physical, page)' = phys
             /\ \A other \in UserPages \ {page} :
                  Translate(pdir_physical, other)' = Translate(pdir_physical, other)
  BY <1>1, <1>2, <1>3, <1>7, MapShows
<1>8. Owned' /\ Shown'
  BY <1>1, <1>2, <1>3, <1>7 DEF Owned, Shown, TypeOK
<1> QED
  BY <1>1, <1>4, <1>5, <1>6, <1>8 DEF IInv, Booting

LEMMA UnmapIInv ==
  ASSUME IInv, NEW page \in ClientPages, Unmap(page)
  PROVE  IInv'
<1>1. /\ pc = "ready" /\ pc' = "ready" /\ NullUnused /\ Paged /\ Paged'
      /\ pdir_physical' = pdir_physical /\ cr3' = pdir_physical
      /\ new_pdir' = new_pdir /\ spaces' = spaces
      /\ mapped' = [mapped EXCEPT ![page] = Absent]
      /\ UnmapPage(page)
      /\ revoked' \subseteq revoked \union (spaces \X Entry)
  BY DEF Unmap, Callable, Paged
<1>2. /\ TypeOK /\ Exclusive /\ Rooted /\ Accounts
      /\ \A other \in ClientPages : Translate(pdir_physical, other) = mapped[other]
  BY <1>1 DEF IInv, Owned, Shown
<1>3. page \in UserPages /\ ClientPages \subseteq UserPages
  BY Pages
<1>4. /\ mem' \in [Block -> [Entry -> Value]]
      /\ avail' \subseteq Frame /\ held' \subseteq Frame /\ Exclusive'
      /\ \A b \in Block \ Frame : mem'[b] = mem[b]
      /\ \A e \in Entry \ {page[1]} :
           mem'[pdir_physical][e] = mem[pdir_physical][e]
      /\ Accounts'
      /\ Translate(pdir_physical, page)' = Absent
      /\ \A other \in UserPages \ {page} :
           Translate(pdir_physical, other)' = Translate(pdir_physical, other)
  BY <1>1, <1>2, <1>3, UnmapShows
<1>5. TypeOK'
  BY <1>1, <1>2, <1>4 DEF TypeOK
<1>6. Rooted'
  BY <1>1, <1>2, <1>3, <1>4, Pages, RootedKept
<1>7. Shown'
  BY <1>1, <1>2, <1>3, <1>4 DEF Shown, TypeOK
<1> QED
  BY <1>1, <1>4, <1>5, <1>6, <1>7 DEF IInv, Booting, Owned

LEMMA CreateMapIInv ==
  ASSUME IInv, NEW p \in Directories, CreateMap(p)
  PROVE  IInv'
<1>1. /\ pc = "ready" /\ pc' = "create" /\ NullUnused /\ Paged /\ Paged'
      /\ pdir_physical' = pdir_physical /\ new_pdir' = p
      /\ spaces' = spaces /\ revoked' = revoked /\ mapped' = mapped
      /\ MapPage(Temporary, p)
  BY DEF CreateMap, Callable, Paged
<1>2. /\ TypeOK /\ Exclusive /\ Rooted /\ Accounts
      /\ \A page \in ClientPages : Translate(pdir_physical, page) = mapped[page]
  BY <1>1 DEF IInv, Owned, Shown
<1>3. /\ mem' \in [Block -> [Entry -> Value]]
      /\ avail' \subseteq Frame /\ held' \subseteq Frame /\ Exclusive'
      /\ cr3' = pdir_physical
      /\ \A b \in Block \ (Frame \union {Null}) : mem'[b] = mem[b]
      /\ \A e \in Entry \ {Temporary[1]} :
           mem'[pdir_physical][e] = mem[pdir_physical][e]
  BY <1>1, <1>2, Pages, MapTyped
<1>4. TypeOK'
  BY <1>1, <1>2, <1>3, Distinct DEF TypeOK
<1>5. Rooted'
  BY <1>1, <1>2, <1>3, Pages, RootedKept
<1>6. ASSUME NullUnused'
      PROVE  /\ Accounts'
             /\ \A page \in UserPages \ {Temporary} :
                  Translate(pdir_physical, page)' = Translate(pdir_physical, page)
  BY <1>1, <1>2, <1>6, Pages, MapShows
<1>7. Owned' /\ Shown'
  BY <1>1, <1>2, <1>6, Pages DEF Owned, Shown
<1> QED
  BY <1>1, <1>3, <1>4, <1>5, <1>7 DEF IInv, Booting

(* The directory that is filled is neither the kernel's nor one of its     *)
(* tables.                                                                 *)
LEMMA CreateCopyIInv ==
  ASSUME IInv, CreateCopy
  PROVE  IInv'
<1> DEFINE D == pdir_physical
           p == new_pdir
           row == [e \in Entry |-> IF Copied(e) THEN mem[D][e] ELSE mem[p][e]]
<1>1. /\ pc = "create" /\ pc' = "ready" /\ NullUnused /\ Paged /\ Paged'
      /\ pdir_physical' = D /\ cr3' = cr3 /\ new_pdir' = p
      /\ avail' = avail /\ held' = held
      /\ spaces' = spaces \union {p} /\ revoked' = revoked /\ mapped' = mapped
  BY DEF CreateCopy, Callable, Paged, pool
<1>2. /\ TypeOK /\ Exclusive /\ Rooted /\ Accounts
      /\ \A page \in ClientPages : Translate(D, page) = mapped[page]
  BY <1>1 DEF IInv, Owned, Shown
<1>3. /\ p \in Directories /\ p \in Block /\ D \in Frame /\ D \in Block
      /\ mem \in [Block -> [Entry -> Value]] /\ pdir_virtual = D
  BY <1>1, <1>2, Distinct, Recursive, DirectoryUsed DEF Rooted, TypeOK
<1>4. row \in [Entry -> Value] /\ mem' = [mem EXCEPT ![p] = row]
  BY <1>3 DEF CreateCopy
<1>5. \A e \in KernelEntries \union {LAST} : e \in Entry /\ Copied(e)
  BY PagingAssumption DEF Copied, Entry
<1>6. /\ \A e \in KernelEntries \union {LAST} : row[e] = mem[D][e]
  BY <1>5
<1> HIDE DEF row, D, p
<1>7. /\ mem' \in [Block -> [Entry -> Value]] /\ mem'[p] = row
      /\ \A b \in Block \ {p} : mem'[b] = mem[b]
  BY <1>3, <1>4
<1>8. /\ \A b \in Frame \union {BootTable} : mem'[b] = mem[b]
      /\ \A d \in spaces : d \in Block
  BY <1>2, <1>3, <1>7, Distinct DEF TypeOK
<1>9. TypeOK' /\ Exclusive'
  BY <1>1, <1>2, <1>3, <1>7 DEF TypeOK, Exclusive, p
<1>10. \A d \in spaces \union {p, D} : Directory(d, D)'
  <2>1. /\ \A d \in spaces \union {D} : Directory(d, D)
    BY <1>2, <1>1 DEF Rooted, D
  <2>2. mem'[D] = mem[D] /\ D' = D
    BY <1>1, <1>3, <1>8 DEF D
  <2>3. \A d \in spaces \union {D} : mem'[d] = mem[d] \/ mem'[d] = row
    BY <1>3, <1>7, <1>8
  <2> QED
    BY <1>6, <1>7, <2>1, <2>2, <2>3 DEF Directory
<1>11. Rooted'
  <2>1. LowAndKernel' /\ D \in Frame \union {Null} /\ cr3 \in spaces \union {D}
    BY <1>1, <1>2, <1>3, <1>8 DEF Rooted, LowAndKernel, D
  <2> QED
    BY <1>1, <1>10, <2>1 DEF Rooted, D
<1>12. \A x \in Users : mem[D][x] \in Frame \union {Absent} /\ mem'[D] = mem[D]
  BY <1>2, <1>3, <1>8 DEF Accounts, TypeOK, D
<1>13. Tables' = Tables
  BY <1>1, <1>3, <1>8 DEF Tables, D
<1>14. Tables \subseteq Frame
  BY <1>12, TableUse DEF D
<1>15. Accounts'
  BY <1>1, <1>2, <1>8, <1>12, <1>13, <1>14 DEF Accounts, D
<1>16. \A page \in ClientPages : Translate(D, page)' = Translate(D, page)
  BY <1>1, <1>8, <1>12, Pages, Distinct DEF Translate, D
<1> QED
  BY <1>1, <1>2, <1>9, <1>11, <1>15, <1>16
     DEF IInv, Booting, Owned, Shown, D

LEMMA SwitchIInv ==
  ASSUME IInv, NEW p \in Directories \union Frame, Switch(p)
  PROVE  IInv'
<1>1. /\ pc = "ready" /\ pc' = "ready" /\ NullUnused /\ Paged /\ Paged'
      /\ p \in spaces \union {pdir_physical} /\ cr3' = p
      /\ mem' = mem /\ pdir_physical' = pdir_physical
      /\ avail' = avail /\ held' = held
      /\ new_pdir' = new_pdir /\ spaces' = spaces /\ revoked' = revoked /\ mapped' = mapped
  BY DEF Switch, Callable, Paged, pool
<1>2. TypeOK' /\ Exclusive'
  BY <1>1, Distinct DEF IInv, TypeOK, Exclusive
<1>3. Rooted'
  BY <1>1 DEF IInv, Rooted, Directory, LowAndKernel
<1>4. Owned' /\ Shown'
  BY <1>1 DEF IInv, Owned, Shown, Accounts, Tables, Translate, NullUnused
<1> QED
  BY <1>1, <1>2, <1>3, <1>4 DEF IInv, Booting

LEMMA StutterIInv ==
  ASSUME IInv, UNCHANGED vars
  PROVE  IInv'
<1>1. /\ mem' = mem /\ cr3' = cr3 /\ pdir_physical' = pdir_physical
      /\ avail' = avail /\ held' = held /\ pc' = pc
      /\ new_pdir' = new_pdir /\ spaces' = spaces /\ revoked' = revoked /\ mapped' = mapped
  BY DEF vars, pool
<1>2. TypeOK' /\ Exclusive' /\ Booting' /\ Rooted'
  BY <1>1 DEF IInv, TypeOK, Exclusive, Booting, FirstTable, Rooted, Paged,
              Directory, LowAndKernel
<1>3. Owned' /\ Shown'
  BY <1>1 DEF IInv, Owned, Shown, Accounts, Tables, Translate, NullUnused, Paged
<1> QED
  BY <1>2, <1>3 DEF IInv

LEMMA NextIInv == IInv /\ [Next]_vars => IInv'
<1> SUFFICES ASSUME IInv, [Next]_vars PROVE IInv'
  OBVIOUS
<1>1. CASE \E block \in Frame \union {Null} : InitializeGet(block)
  BY <1>1, InitializeGetIInv
<1>2. CASE InitializeMap \/ InitializeCopy \/ InitializeSwitch \/ InitializeUnmap
  BY <1>2, InitializeMapIInv, InitializeCopyIInv, InitializeSwitchIInv,
     InitializeUnmapIInv
<1>3. CASE \E page \in ClientPages : \E phys \in Data : Map(page, phys)
  BY <1>3, MapIInv
<1>4. CASE \E page \in ClientPages : Unmap(page)
  BY <1>4, UnmapIInv
<1>5. CASE \E p \in Directories : CreateMap(p)
  BY <1>5, CreateMapIInv
<1>6. CASE CreateCopy
  BY <1>6, CreateCopyIInv
<1>7. CASE \E p \in Directories \union Frame : Switch(p)
  BY <1>7, SwitchIInv
<1>8. CASE \/ \E page \in ClientPages : MapRefused(page)
           \/ CreateRefused \/ Halted \/ UNCHANGED vars
  BY <1>8, StutterIInv DEF MapRefused, CreateRefused, Halted
<1> QED
  BY <1>1, <1>2, <1>3, <1>4, <1>5, <1>6, <1>7, <1>8 DEF Next

-----------------------------------------------------------------------------
(* The entry of a table that is there does not change when a page is       *)
(* mapped, and when one is unmapped, it is cleared as the table goes back. *)
LEMMA MapKeepsTable ==
  ASSUME TypeOK, Exclusive, Rooted, Paged, NullUnused, Accounts,
         NEW page \in UserPages, NEW phys \in Data \union Directories,
         MapPage(page, phys), mem[pdir_physical][page[1]] # Absent
  PROVE  mem'[pdir_physical][page[1]] = mem[pdir_physical][page[1]]
<1> DEFINE D == pdir_physical
           t == page[1]
           T == mem[D][t]
<1>1. /\ t \in Users /\ t \in Entry /\ page[2] \in Entry /\ phys \in Value
      /\ D \in Frame /\ D \in Block /\ mem \in [Block -> [Entry -> Value]]
  BY Pages, Distinct, DirectoryUsed DEF TypeOK, Value
<1>2. pdir_virtual = D /\ p_table(t) = T
  BY <1>1, Recursive
<1>3. mem' = [mem EXCEPT ![T][page[2]] = phys]
  BY <1>2 DEF MapPage, MapInTable, MapInNewTable
<1>4. T \in held \ {D} /\ T \in Block
  BY <1>1, Distinct DEF Accounts, TypeOK
<1> HIDE DEF D, T
<1>5. mem'[D] = mem[D]
  BY <1>1, <1>3, <1>4, TypedWrite
<1> QED
  BY <1>5 DEF D

LEMMA UnmapGivesBack ==
  ASSUME TypeOK, Exclusive, Rooted, Paged, NullUnused, Accounts,
         NEW page \in UserPages, UnmapPage(page)
  PROVE  \/ mem'[pdir_physical][page[1]] = mem[pdir_physical][page[1]]
         \/ mem[pdir_physical][page[1]] \in avail' \ avail
<1> DEFINE D == pdir_physical
           t == page[1]
           T == mem[D][t]
           cleared == [mem EXCEPT ![T][page[2]] = Absent]
           empty == \A x \in Entry : cleared[T][x] = Absent
<1>1. /\ t \in Users /\ t \in Entry /\ page[2] \in Entry /\ Absent \in Value
      /\ D \in Frame /\ D \in Block /\ mem \in [Block -> [Entry -> Value]]
  BY Pages, Distinct, DirectoryUsed DEF TypeOK, Value
<1>2. pdir_virtual = D /\ p_table(t) = T
  BY <1>1, Recursive
<1>3. CASE T = Absent
  BY <1>2, <1>3 DEF UnmapPage
<1>4. CASE T # Absent
  <2>1. T \in held \ {D} /\ T \in Block
    BY <1>1, <1>4, Distinct DEF Accounts, TypeOK
  <2>2. /\ empty => Pool!Free(T)
        /\ ~empty => mem' = cleared
    <3> HIDE DEF D, T
    <3> QED
      BY <1>1, <1>2, <1>4 DEF UnmapPage, T
  <2>3. cleared[D] = mem[D]
    <3> HIDE DEF D, T
    <3> QED
      BY <1>1, <2>1, TypedWrite
  <2>4. CASE empty
    BY <2>1, <2>2, <2>4 DEF Pool!Free, Exclusive
  <2>5. CASE ~empty
    BY <2>2, <2>3, <2>5
  <2> QED
    BY <2>4, <2>5
<1> QED
  BY <1>3, <1>4

(* An address space keeps its copies, and the kernel's directory its       *)
(* tables until they are given back.                                       *)
LEMMA CopiesMap ==
  ASSUME IInv, Copies, pc = "ready", NullUnused,
         NEW page \in UserPages, NEW phys \in Data \union Directories,
         MapPage(page, phys), pc' # "unmap",
         pdir_physical' = pdir_physical, spaces' = spaces, revoked' = revoked
  PROVE  Copies'
<1>1. /\ TypeOK /\ Exclusive /\ Rooted /\ Paged /\ Accounts
      /\ spaces \subseteq Block \ (Frame \union {Null})
  BY Distinct DEF IInv, Owned, Paged, TypeOK
<1>2. /\ \A d \in spaces : mem'[d] = mem[d]
      /\ \A e \in Entry \ {page[1]} :
           mem'[pdir_physical][e] = mem[pdir_physical][e]
  BY <1>1, MapTyped
<1>3. mem[pdir_physical][page[1]] # Absent =>
        mem'[pdir_physical][page[1]] = mem[pdir_physical][page[1]]
  BY <1>1, MapKeepsTable
<1>4. Users \subseteq Entry /\ \A e : Copied(e)' = Copied(e)
  BY Pages DEF Copied
<1> QED
  BY <1>1, <1>2, <1>3, <1>4 DEF Copies

LEMMA CopiesUnmap ==
  ASSUME IInv, Copies, NEW page \in ClientPages, Unmap(page)
  PROVE  Copies'
<1>1. /\ TypeOK /\ Exclusive /\ Rooted /\ Paged /\ NullUnused /\ Accounts
      /\ spaces \subseteq Block \ Frame /\ UnmapPage(page) /\ page \in UserPages
      /\ pdir_physical' = pdir_physical /\ spaces' = spaces /\ pc' = "ready"
  BY Pages, Distinct DEF IInv, Owned, Paged, TypeOK, Unmap, Callable
<1>2. /\ \A d \in spaces : mem'[d] = mem[d]
      /\ \A e \in Entry \ {page[1]} :
           mem'[pdir_physical][e] = mem[pdir_physical][e]
  BY <1>1, UnmapShows
<1>3. \/ mem'[pdir_physical][page[1]] = mem[pdir_physical][page[1]]
      \/ mem[pdir_physical][page[1]] \in avail' \ avail
  BY <1>1, UnmapGivesBack
<1>4. Users \subseteq Entry /\ \A e : Copied(e)' = Copied(e)
  BY Pages DEF Copied
<1>5. \A d \in spaces, e \in Entry :
        <<d, e>> \notin revoked' =>
          <<d, e>> \notin revoked /\ mem[d][e] \notin avail' \ avail
  BY DEF Unmap
<1> SUFFICES ASSUME NEW d \in spaces, NEW e \in Users,
                    Copied(e), <<d, e>> \notin revoked'
             PROVE  mem'[d][e] \in {mem'[pdir_physical][e], Absent}
  BY <1>1, <1>4 DEF Copies
<1>6. mem[d][e] \in {mem[pdir_physical][e], Absent} /\ mem[d][e] \notin avail' \ avail
  BY <1>1, <1>4, <1>5 DEF Copies
<1>7. CASE e = page[1]
  BY <1>2, <1>3, <1>6, <1>7
<1>8. CASE e # page[1]
  BY <1>2, <1>4, <1>6, <1>8
<1> QED
  BY <1>7, <1>8

LEMMA CopiesCreate ==
  ASSUME IInv, Copies, CreateCopy
  PROVE  Copies'
<1>1. /\ TypeOK /\ Rooted /\ Paged /\ NullUnused /\ pc' = "ready"
      /\ pdir_physical' = pdir_physical /\ spaces' = spaces \union {new_pdir}
      /\ revoked' = revoked /\ new_pdir \in Directories
  BY DEF IInv, Paged, CreateCopy, Callable, Rooted
<1>2. /\ pdir_virtual = pdir_physical /\ pdir_physical \in Frame
  BY <1>1, Recursive, DirectoryUsed
<1>3. /\ new_pdir \in Block /\ mem \in [Block -> [Entry -> Value]]
      /\ new_pdir # pdir_physical /\ pdir_physical \in Block
      /\ \A d \in spaces : d \in Block
  BY <1>1, <1>2, Distinct DEF TypeOK
<1>4. /\ \A b \in Block \ {new_pdir} : mem'[b] = mem[b]
      /\ \A e \in Entry : Copied(e) => mem'[new_pdir][e] = mem[pdir_physical][e]
  BY <1>2, <1>3 DEF CreateCopy
<1>5. Users \subseteq Entry /\ \A e : Copied(e)' = Copied(e)
  BY Pages DEF Copied
<1> SUFFICES ASSUME NEW d \in spaces \union {new_pdir}, NEW e \in Users,
                    Copied(e), <<d, e>> \notin revoked
             PROVE  mem'[d][e] \in {mem'[pdir_physical][e], Absent}
  BY <1>1, <1>5 DEF Copies
<1>6. CASE d = new_pdir
  BY <1>3, <1>4, <1>5, <1>6
<1>7. CASE d # new_pdir
  BY <1>1, <1>3, <1>4, <1>5, <1>7 DEF Copies
<1> QED
  BY <1>6, <1>7

LEMMA CopiesKept ==
  ASSUME IInv, Copies, [Next]_vars
  PROVE  Copies'
<1>1. CASE \E block \in Frame \union {Null} : InitializeGet(block)
  BY <1>1 DEF InitializeGet, Copies, Paged
<1>2. CASE InitializeMap \/ InitializeCopy
  BY <1>2 DEF InitializeMap, InitializeCopy, Copies, Paged
<1>3. CASE InitializeSwitch \/ InitializeUnmap
  BY <1>3 DEF InitializeSwitch, InitializeUnmap, Callable, Copies, Paged, IInv, Booting
<1>4. CASE \E page \in ClientPages : \E phys \in Data : Map(page, phys)
  BY <1>4, Pages, CopiesMap DEF Map, Callable
<1>5. CASE \E page \in ClientPages : Unmap(page)
  BY <1>5, CopiesUnmap
<1>6. CASE \E p \in Directories : CreateMap(p)
  BY <1>6, Pages, CopiesMap DEF CreateMap, Callable
<1>7. CASE CreateCopy
  BY <1>7, CopiesCreate
<1>8. CASE \/ \E p \in Directories \union Frame : Switch(p)
           \/ \E page \in ClientPages : MapRefused(page)
           \/ CreateRefused \/ Halted \/ UNCHANGED vars
  <2>1. /\ mem' = mem /\ pdir_physical' = pdir_physical /\ pc' = pc
        /\ spaces' = spaces /\ revoked' = revoked
    BY <1>8 DEF Switch, MapRefused, CreateRefused, Halted, vars
  <2> QED
    BY <2>1 DEF Copies, Paged, Copied
<1> QED
  BY <1>1, <1>2, <1>3, <1>4, <1>5, <1>6, <1>7, <1>8 DEF Next

LEMMA Invariance == Spec => [](IInv /\ Copies)
<1>1. Init => Copies
  BY DEF Init, Copies, Paged
<1>2. IInv /\ Copies /\ [Next]_vars => (IInv /\ Copies)'
  BY NextIInv, CopiesKept
<1> QED
  BY <1>1, <1>2, InitIInv, PTL DEF Spec

-----------------------------------------------------------------------------
(* What entries hold is a block, nothing or what nobody has cleared, the   *)
(* directories in use are blocks, and the pool keeps to its own.           *)
THEOREM TypeCorrect == Spec => []TypeOK
<1>1. IInv => TypeOK
  BY DEF IInv
<1> QED
  BY <1>1, Invariance, PTL

(* vmmngr_map_page and vmmngr_unmap_page show each page as the last call   *)
(* for it said, whatever tables are made and given back for others and     *)
(* through whichever address space they are reached.                       *)
THEOREM MappingSafe == Spec => []MapsWhatWasAsked
<1>1. IInv => MapsWhatWasAsked
  BY DEF IInv, Shown, Paged, MapsWhatWasAsked
<1> QED
  BY <1>1, Invariance, PTL

(* The blocks taken from balloc are the page directory and its tables,     *)
(* none of them empty: vmmngr_unmap_page gives back each table that is no  *)
(* longer needed, and no other; and every address space leads to the same  *)
(* tables where it has a copy of the kernel's entries, but for those that  *)
(* were given back after they had been copied.                             *)
THEOREM TablesSafe == Spec => []TablesAccounted
<1>1. IInv /\ Copies => TablesAccounted
  BY DEF IInv, Owned, Accounts, Copies, Paged, TablesAccounted
<1> QED
  BY <1>1, Invariance, PTL

(* Every directory that vmmngr_create_address_space has filled keeps the   *)
(* kernel, low memory and a recursive entry that works.                    *)
THEOREM KernelSafe == Spec => []KernelStaysMapped
<1>1. IInv => KernelStaysMapped
  BY DEF IInv, Rooted, Directory, LowAndKernel, Paged, KernelStaysMapped
<1> QED
  BY <1>1, Invariance, PTL
=============================================================================
