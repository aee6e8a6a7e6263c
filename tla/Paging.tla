------------------------------- MODULE Paging -------------------------------
(***************************************************************************)
(* The virtual memory manager, arch/i386/memory/memory_virt.c: the page    *)
(* directory that the boot code builds (arch/i386/init/kboot.asm), the new *)
(* one of vmmngr_initialize, mapping and unmapping through the recursive   *)
(* entry, and further address spaces.                                      *)
(*                                                                         *)
(* Directories and tables are blocks of physical memory, and the last      *)
(* entry of a directory points to a directory, through which the code      *)
(* reaches the tables: mem says what each block holds, and every access    *)
(* goes through cr3 as the processor's would.  The blocks for tables come  *)
(* from the pool of FramePool; what is mapped belongs to the callers.      *)
(***************************************************************************)
EXTENDS Integers

CONSTANTS
  Frame,         \* the blocks balloc_get may return
  Low,           \* those below 4 MB, which are identity-mapped
  Data,          \* blocks that callers map
  Directories,   \* blocks callers provide for new address spaces
  BootDir, BootTable,  \* what the boot code has filled; the latter stands
                       \*   for the tables of low memory, kernel and stack
  Null,          \* block 0
  LAST,          \* number of the last entry of a table (1023)
  IDENTITY,      \* the entries vmmngr_create_address_space copies for low
  KERNEL_START,  \*   memory (0 .. 255) and from where on for the kernel (768)
  KernelEntries, \* directory entries the boot code fills, 0 among them
  Temporary,     \* the page I386_TEMP_PDIR_VIRTUAL: <<directory entry, entry>>
  ClientPages    \* the pages that callers map

Entry == 0 .. LAST
Block == Frame \union Data \union Directories \union {BootDir, BootTable, Null}

ASSUME PagingAssumption ==
  /\ LAST \in Nat /\ KERNEL_START \in Entry /\ IDENTITY \subseteq Entry
  /\ Low \subseteq Frame /\ BootDir # BootTable
  /\ Null \notin {BootDir, BootTable}
  /\ (Frame \union Data \union Directories)
       \intersect {BootDir, BootTable, Null} = {}
  /\ Frame \intersect (Data \union Directories) = {}
  /\ {"absent", "junk"} \intersect Block = {}
  /\ 0 \in KernelEntries /\ KernelEntries \subseteq Entry \ {LAST}
  /\ KernelEntries \subseteq IDENTITY \union (KERNEL_START .. LAST)
  /\ ClientPages \union {Temporary} \subseteq
       (Entry \ (KernelEntries \union {LAST})) \X Entry
  /\ Temporary \notin ClientPages

VARIABLES
  mem,            \* what the blocks hold, read as tables
  cr3,            \* the directory the processor uses
  pdir_physical,  \* the directory the code reloads
  avail, held,    \* the pool of blocks
  pc,             \* "boot", "copy", "switch", "ready" or "fault"
  new_pdir,       \* the new directory of vmmngr_initialize
  spaces,         \* history: the address spaces that were created
  revoked,        \* history: their entries that lead to a table that was given
                  \*   back after it had been copied
  mapped          \* history: what the callers were told is mapped

pool == <<avail, held>>
vars == <<mem, cr3, pdir_physical, pool, pc, new_pdir, spaces, revoked, mapped>>

Pool == INSTANCE FramePool

Absent == "absent"   \* the present bit is clear
Junk == "junk"       \* what nobody has cleared, and what BootTable maps

-----------------------------------------------------------------------------
(* 0xfffff000 and 0xffc00000 + t * 0x1000: the directory, and table t of   *)
(* it, as the recursive entry of cr3 shows them.                           *)
pdir_virtual == mem[mem[cr3][LAST]][LAST]
p_table(t) == mem[mem[cr3][LAST]][t]

(* vmmngr_map_page succeeds: the page is free in a table that is there ... *)
MapInTable(page, phys) ==
  LET t == page[1]  e == page[2]
  IN /\ mem[pdir_virtual][t] # Absent
     /\ mem[p_table(t)][e] = Absent
     /\ mem' = [mem EXCEPT ![p_table(t)][e] = phys]
     /\ UNCHANGED pool

(* ... or a new table is made, in block 0 when there is no other.          *)
MapInNewTable(page, phys) ==
  LET t == page[1]  e == page[2]
  IN /\ mem[pdir_virtual][t] = Absent
     /\ \E table \in avail \union {Null} :
          /\ IF table = Null THEN Pool!GetFails ELSE Pool!Get(table)
          /\ mem' = [mem EXCEPT
                ![pdir_virtual][t] = table,
                ![table] = [x \in Entry |-> IF x = e THEN phys ELSE Absent]]

MapPage(page, phys) ==
  /\ MapInTable(page, phys) \/ MapInNewTable(page, phys)
  /\ cr3' = pdir_physical

AlreadyMapped(page) ==
  /\ mem[pdir_virtual][page[1]] # Absent
  /\ mem[p_table(page[1])][page[2]] # Absent

(* Mutant: the table is given back, but stays in the directory.            *)
UnmapPageKeepsEntry(page) ==
  LET t == page[1]  e == page[2]
      cleared == [mem EXCEPT ![p_table(t)][e] = Absent]
      empty == \A x \in Entry : cleared[p_table(t)][x] = Absent
  IN IF mem[pdir_virtual][t] = Absent
     THEN UNCHANGED <<mem, pool>>
     ELSE /\ mem' = cleared
          /\ IF empty THEN Pool!Free(p_table(t)) ELSE UNCHANGED pool

(* Mutant: the last page but one already gives the table back.             *)
UnmapPageEager(page) ==
  LET t == page[1]  e == page[2]
      cleared == [mem EXCEPT ![p_table(t)][e] = Absent]
      empty == \A x \in Entry \ {0} : cleared[p_table(t)][x] = Absent
  IN IF mem[pdir_virtual][t] = Absent
     THEN UNCHANGED <<mem, pool>>
     ELSE /\ mem' = IF empty THEN [cleared EXCEPT ![pdir_virtual][t] = Absent]
                    ELSE cleared
          /\ IF empty THEN Pool!Free(p_table(t)) ELSE UNCHANGED pool

(* vmmngr_unmap_page: a table without entries goes back to the allocator.  *)
UnmapPage(page) ==
  LET t == page[1]  e == page[2]
      cleared == [mem EXCEPT ![p_table(t)][e] = Absent]
      empty == \A x \in Entry : cleared[p_table(t)][x] = Absent
  IN IF mem[pdir_virtual][t] = Absent
     THEN UNCHANGED <<mem, pool>>
     ELSE /\ mem' = IF empty THEN [cleared EXCEPT ![pdir_virtual][t] = Absent]
                    ELSE cleared
          /\ IF empty THEN Pool!Free(p_table(t)) ELSE UNCHANGED pool

-----------------------------------------------------------------------------
(* The directory as setup_paging of the boot code fills it, and            *)
(* pdir_physical as vmmngr_initialize reads it from the recursive entry.   *)
BootEntries ==
  [[e \in Entry |-> IF e \in KernelEntries THEN BootTable ELSE Absent]
     EXCEPT ![LAST] = BootDir]

Init ==
  /\ Pool!Init
  /\ mem = [b \in Block |-> IF b = BootDir THEN BootEntries
                            ELSE [e \in Entry |-> Junk]]
  /\ cr3 = BootDir /\ pdir_physical = BootDir
  /\ pc = "boot" /\ new_pdir = Null
  /\ spaces = {} /\ revoked = {}
  /\ mapped = [page \in ClientPages |-> Absent]

(* vmmngr_initialize: a block for the new directory, which is not checked, *)
InitializeGet(block) ==
  /\ pc = "boot"
  /\ IF block = Null THEN Pool!GetFails ELSE Pool!Get(block)
  /\ new_pdir' = block
  /\ pc' = "map"
  /\ UNCHANGED <<mem, cr3, pdir_physical, spaces, revoked, mapped>>

(* mapped at the temporary page,                                           *)
InitializeMap ==
  /\ pc = "map"
  /\ MapPage(Temporary, new_pdir)
  /\ pc' = "copy"
  /\ UNCHANGED <<pdir_physical, new_pdir, spaces, revoked, mapped>>

(* Mutant: the recursive entry is the copy of the old one.                 *)
InitializeCopyOnly ==
  /\ pc = "copy"
  /\ mem' = [mem EXCEPT ![new_pdir] = mem[pdir_virtual]]
  /\ pc' = "switch"
  /\ UNCHANGED <<cr3, pdir_physical, pool, new_pdir, spaces, revoked, mapped>>

(* filled with a copy of the old one, and with its own recursive entry     *)
(* through its physical address, which has to be identity-mapped,          *)
InitializeCopy ==
  /\ pc = "copy"
  /\ IF new_pdir \in Low \union {Null}
     THEN /\ mem' = [mem EXCEPT
                ![new_pdir] = [mem[pdir_virtual] EXCEPT ![LAST] = new_pdir]]
          /\ pc' = "switch"
     ELSE pc' = "fault" /\ UNCHANGED mem
  /\ UNCHANGED <<cr3, pdir_physical, pool, new_pdir, spaces, revoked, mapped>>

(* and used from now on; the temporary page is unmapped.                   *)
InitializeSwitch ==
  /\ pc = "switch"
  /\ cr3' = new_pdir
  /\ pdir_physical' = new_pdir
  /\ pc' = "unmap"
  /\ UNCHANGED <<mem, pool, new_pdir, spaces, revoked, mapped>>

(* Bound: nothing is called once a table or directory lies in block 0.     *)
NullUnused == \A e \in Entry : mem[pdir_physical][e] # Null
Callable(at) == pc = at /\ NullUnused

InitializeUnmap ==
  /\ Callable("unmap")
  /\ UnmapPage(Temporary)
  /\ cr3' = pdir_physical
  /\ pc' = "ready"
  /\ UNCHANGED <<pdir_physical, new_pdir, spaces, revoked, mapped>>

-----------------------------------------------------------------------------
(* Callers map a block at a page, are refused, and unmap it.               *)
Map(page, phys) ==
  /\ Callable("ready")
  /\ MapPage(page, phys)
  /\ mapped' = [mapped EXCEPT ![page] = phys]
  /\ UNCHANGED <<pdir_physical, pc, new_pdir, spaces, revoked>>

MapRefused(page) ==
  /\ Callable("ready")
  /\ AlreadyMapped(page)
  /\ UNCHANGED vars

Unmap(page) ==
  /\ Callable("ready")
  /\ UnmapPage(page)
  /\ cr3' = pdir_physical
  /\ mapped' = [mapped EXCEPT ![page] = Absent]
  /\ revoked' = revoked \union
       {entry \in spaces \X Entry : mem[entry[1]][entry[2]] \in avail' \ avail}
  /\ UNCHANGED <<pdir_physical, pc, new_pdir, spaces>>

(* Mutant: the kernel's entries are not copied.                            *)
CopiedIdentityOnly(e) == e \in IDENTITY

(* vmmngr_create_address_space copies low memory and the kernel, the       *)
(* recursive entry included, into a directory at the temporary page, where *)
(* that stays mapped, so a second call fails.                              *)
Copied(e) == e \in IDENTITY \/ e >= KERNEL_START

CreateMap(p) ==
  /\ Callable("ready")
  /\ p \notin spaces
  /\ MapPage(Temporary, p)
  /\ pc' = "create" /\ new_pdir' = p
  /\ UNCHANGED <<pdir_physical, spaces, revoked, mapped>>

CreateCopy ==
  /\ Callable("create")
  /\ mem' = [mem EXCEPT ![new_pdir] =
               [e \in Entry |-> IF Copied(e) THEN mem[pdir_virtual][e] ELSE @[e]]]
  /\ spaces' = spaces \union {new_pdir}
  /\ pc' = "ready"
  /\ UNCHANGED <<cr3, pdir_physical, pool, new_pdir, revoked, mapped>>

CreateRefused ==
  /\ Callable("ready")
  /\ AlreadyMapped(Temporary)
  /\ UNCHANGED vars

(* vmmngr_switch_address_space.                                            *)
Switch(p) ==
  /\ Callable("ready")
  /\ p \in spaces \union {pdir_physical}
  /\ cr3' = p
  /\ UNCHANGED <<mem, pdir_physical, pool, pc, new_pdir, spaces, revoked, mapped>>

Halted == /\ pc = "fault" \/ ~NullUnused
          /\ UNCHANGED vars

Next ==
  \/ \E block \in Frame \union {Null} : InitializeGet(block)
  \/ InitializeMap \/ InitializeCopy \/ InitializeSwitch \/ InitializeUnmap
  \/ \E page \in ClientPages :
       (\E phys \in Data : Map(page, phys)) \/ MapRefused(page) \/ Unmap(page)
  \/ \E p \in Directories : CreateMap(p)
  \/ CreateCopy \/ CreateRefused \/ Halted
  \/ \E p \in Directories \union Frame : Switch(p)

Spec == Init /\ [][Next]_vars

-----------------------------------------------------------------------------
(* The walk of the processor through directory d.                          *)
Translate(d, page) ==
  IF mem[d][page[1]] \in {Absent, Junk} THEN mem[d][page[1]]
  ELSE mem[mem[d][page[1]]][page[2]]

(* The kernel's directory maps what the calls said and nothing else, for   *)
(* every page, in any order of maps and unmaps, while tables come and go,  *)
(* and whichever address space is in use when they are called.             *)
MapsWhatWasAsked ==
  pc = "ready" /\ NullUnused =>
    \A page \in ClientPages : Translate(pdir_physical, page) = mapped[page]

(* No block is lost: those taken are the kernel's directory and its        *)
(* tables, each of which maps something.  And no directory leads to a      *)
(* table that was given back: where vmmngr_create_address_space has copied *)
(* an entry, the address space has the table that the kernel has there, or *)
(* none yet.  (Not once vmmngr_unmap_page gives back a table that has been *)
(* copied: it clears the entry of the kernel's directory only.)            *)
Users == Entry \ (KernelEntries \union {LAST})
Tables == {mem[pdir_physical][e] : e \in Users} \ {Absent}
TablesAccounted ==
  pc = "ready" /\ NullUnused =>
    /\ held = Tables \union {pdir_physical}
    /\ \A table \in Tables : \E e \in Entry : mem[table][e] # Absent
    /\ \A d \in spaces, e \in Users :
         Copied(e) /\ <<d, e>> \notin revoked =>
           mem[d][e] \in {mem[pdir_physical][e], Absent}

(* In every address space that can be switched to, the kernel and low      *)
(* memory are mapped as the boot code mapped them, and the recursive entry *)
(* leads to a directory with a recursive entry, so that the code that runs *)
(* after the switch is there and can map and unmap.                        *)
KernelStaysMapped ==
  pc = "ready" =>
    \A d \in spaces \union {cr3, pdir_physical} :
      /\ \A e \in KernelEntries : mem[d][e] = BootTable
      /\ mem[BootTable] = [e \in Entry |-> Junk]
      /\ mem[d][LAST] = pdir_physical
      /\ mem[pdir_physical][LAST] = pdir_physical
=============================================================================
