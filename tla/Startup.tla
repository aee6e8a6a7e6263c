------------------------------ MODULE Startup ------------------------------
(***************************************************************************)
(* kernel_early_init, kernel/kernel/kernel.c: the initialisers in their    *)
(* order, on what the boot loader and the firmware have left in memory;    *)
(* then kernel_main, and calls of the device functions.                    *)
(*                                                                         *)
(* cpu_init is module Interrupts, the block allocator Balloc (`regions' is *)
(* what it is given), vmmngr_initialize Paging and kspace_initialize       *)
(* KSpace; here they succeed or fail.                                      *)
(***************************************************************************)
EXTENDS Devices, Multiboot

CONSTANTS
  Loaders,         \* what the boot loader may leave
  Firmwares,       \* the paragraphs that acpi_locate_rsdp looks at: the EBDA,
                   \*   then the upper area; "none", "valid" or "corrupt"
  SizeSpace,       \* KB in 2^32 bytes
  BLOCK_KB,        \* KB in a block of the allocator
  Tty0,            \* tty_ops
  DeviceLoaders    \* bound: the loaders after which devices are used (what was
                   \*   left in memory makes no difference to the table)

ASSUME StartupAssumption ==
  /\ {SizeSpace, BLOCK_KB} \subseteq Nat \ {0}
  /\ \A f \in Firmwares : f \in Seq({"none", "valid", "corrupt"})
  /\ \A l \in Loaders : WellFormed(l)
  /\ \E name \in Names : ~Overlong(name)   \* "tty0"

VARIABLES
  stage,     \* the initialiser that is next; "running", "panic", "fault"
  loader, firmware,
  wanted, tag,     \* mboot2_find_tag: the type, and the word it looks at
  mapTag,          \* mb2_memory_map
  kb,              \* mb_memory_sz
  cur,             \* multiboot_cur_mmap
  regions,         \* history: the entries balloc_init_region was given
  refused          \* history: an initialiser of another module has failed

bootVars == <<stage, loader, firmware, wanted, tag, mapTag, kb, cur, regions, refused>>
startupVars == <<bootVars, deviceVars>>

TtyName == CHOOSE name \in Names : ~Overlong(name)

StartupInit ==
  /\ stage = "terminal"
  /\ loader \in Loaders /\ firmware \in Firmwares
  /\ wanted = MBOOT2_TYPETAG_END /\ tag = NoTag /\ mapTag = NoTag
  /\ kb = 0 /\ cur = 0 /\ regions = <<>> /\ refused = FALSE
  /\ DeviceInit

Panic == stage' = "panic"
NoDevices == UNCHANGED deviceVars

(* terminal_initialize registers tty0.                                     *)
TerminalInitialize ==
  /\ stage = "terminal"
  /\ register_chrdev(0, TtyName, Tty0)
  /\ stage' = "multiboot"
  /\ UNCHANGED <<loader, firmware, wanted, tag, mapTag, kb, cur, regions, refused>>

(* multiboot_data_init.                                                    *)
Multiboot1 ==
  /\ stage = "multiboot" /\ loader.magic = MULTIBOOT_MAGIC
  /\ kb' = IF "MEMSZ_PRESENT" \in loader.flags THEN loader.kb ELSE kb
  /\ stage' = IF {"MEMSZ_PRESENT", "MMAP_PRESENT"} \subseteq loader.flags
           THEN "cpu" ELSE "panic"
  /\ UNCHANGED <<loader, firmware, wanted, tag, mapTag, cur, regions, refused>>
  /\ NoDevices

Multiboot2 ==
  /\ stage = "multiboot" /\ loader.magic = MULTIBOOT2_MAGIC
  /\ wanted' = MBOOT2_TYPETAG_MEMSZ /\ tag' = FirstTag
  /\ stage' = "find"
  /\ UNCHANGED <<loader, firmware, mapTag, kb, cur, regions, refused>>
  /\ NoDevices

NoMultiboot ==
  /\ stage = "multiboot" /\ loader.magic \notin {MULTIBOOT_MAGIC, MULTIBOOT2_MAGIC}
  /\ Panic
  /\ UNCHANGED <<loader, firmware, wanted, tag, mapTag, kb, cur, regions, refused>>
  /\ NoDevices

(* mboot2_find_tag, one turn of its loop: there is no such tag, ...        *)
FindEnds ==
  /\ stage = "find" /\ TagType(loader, tag) = MBOOT2_TYPETAG_END
  /\ Panic
  /\ UNCHANGED <<loader, firmware, wanted, tag, mapTag, kb, cur, regions, refused>>
  /\ NoDevices

(* ... this is the one, ...                                                *)
FindFinds ==
  /\ stage = "find" /\ TagType(loader, tag) = wanted
  /\ IF wanted = MBOOT2_TYPETAG_MEMSZ
     THEN /\ kb' = MemorySize(loader, tag)
          /\ wanted' = MBOOT2_TYPETAG_MMAP /\ tag' = FirstTag
          /\ UNCHANGED <<stage, mapTag>>
     ELSE /\ mapTag' = tag /\ stage' = "cpu"
          /\ UNCHANGED <<kb, wanted, tag>>
  /\ UNCHANGED <<loader, firmware, cur, regions, refused>>
  /\ NoDevices

(* ... or the next one is looked at, if it is anywhere in mapped memory.   *)
FindNext ==
  /\ stage = "find" /\ TagType(loader, tag) \notin {MBOOT2_TYPETAG_END, wanted}
  /\ tag' = NextTag(loader, tag)
  /\ stage' \in IF tag' < Len(loader.words) THEN {"find"} ELSE {"find", "fault"}
  /\ UNCHANGED <<loader, firmware, wanted, mapTag, kb, cur, regions, refused>>
  /\ NoDevices

CpuInit ==
  /\ stage = "cpu" /\ stage' = "memory"
  /\ UNCHANGED <<loader, firmware, wanted, tag, mapTag, kb, cur, regions, refused>>
  /\ NoDevices

-----------------------------------------------------------------------------
(* kmemory_initialize: the size in bytes, as a 32-bit number, is 0 or less *)
(* than a block, ...                                                       *)
Blocks == (kb % SizeSpace) \div BLOCK_KB

MemoryInitialize ==
  /\ stage = "memory"
  /\ stage' = IF Blocks = 0 THEN "panic" ELSE "first"
  /\ UNCHANGED <<loader, firmware, wanted, tag, mapTag, kb, cur, regions, refused>>
  /\ NoDevices

(* ... the number of entries is a quotient by 0, or, if the size of what   *)
(* is taken for a tag is smaller than one, so large that memory ends, ...  *)
Countable ==
  loader.magic = MULTIBOOT2_MAGIC =>
    EntrySize(loader, mapTag) # 0 /\ TagSize(loader, mapTag) >= 8 * TagMmapWords

MapFaults ==
  /\ stage \in {"first", "map"} /\ ~Countable
  /\ stage' = "fault"
  /\ UNCHANGED <<loader, firmware, wanted, tag, mapTag, kb, cur, regions, refused>>
  /\ NoDevices

(* ... an entry is there, and given to the block allocator if it is not    *)
(* memory, or there is none (any more).                                    *)
MapEntry ==
  /\ stage \in {"first", "map"} /\ Countable
  /\ LET entry == NextEntry(loader, mapTag, cur)
     IN IF entry = <<>>
        THEN /\ stage' = IF stage = "first" THEN "panic" ELSE "vmmngr"
             /\ UNCHANGED <<cur, regions>>
        ELSE /\ cur' = cur + 1
             /\ regions' = IF entry[1].type # 1 THEN Append(regions, entry[1])
                           ELSE regions
             /\ stage' = "map"
  /\ UNCHANGED <<loader, firmware, wanted, tag, mapTag, kb, refused>>
  /\ NoDevices

(* vmmngr_initialize and kspace_initialize.                                *)
MemoryManager ==
  /\ stage \in {"vmmngr", "kspace"}
  /\ \/ stage' = (IF stage = "vmmngr" THEN "kspace" ELSE "devices") /\ UNCHANGED refused
     \/ Panic /\ refused' = TRUE
  /\ UNCHANGED <<loader, firmware, wanted, tag, mapTag, kb, cur, regions>>
  /\ NoDevices

DeviceListInit ==
  /\ stage = "devices"
  /\ device_list_init
  /\ stage' = "acpi"
  /\ UNCHANGED <<loader, firmware, wanted, tag, mapTag, kb, cur, regions, refused>>

(* acpi_locate_rsdp takes the first paragraph with the signature, and      *)
(* acpi_get_checksum sums it up.                                           *)
rsdp == SelectInSeq(firmware, LAMBDA paragraph : paragraph # "none")

AcpiTables ==
  /\ stage = "acpi"
  /\ stage' = IF rsdp # 0 /\ firmware[rsdp] = "valid" THEN "running" ELSE "panic"
  /\ UNCHANGED <<loader, firmware, wanted, tag, mapTag, kb, cur, regions, refused>>
  /\ NoDevices

(* Any kernel code may use the devices.                                    *)
UseDevices ==
  /\ stage = "running" /\ loader \in DeviceLoaders
  /\ \E major \in -1 .. DEVICE_MAX :
       \/ \E name \in Names, ops \in Drivers : register_chrdev(major, name, ops)
       \/ chrdev_read(major)
       \/ chrdev_write(major)
  /\ UNCHANGED bootVars

(* kernel_panic, the loop of the exception handlers, or nothing to do.     *)
AtRest == stage \in {"panic", "fault", "running"} /\ UNCHANGED startupVars

Boot == \/ TerminalInitialize \/ Multiboot1 \/ Multiboot2 \/ NoMultiboot
        \/ FindEnds \/ FindFinds \/ FindNext \/ CpuInit \/ MemoryInitialize
        \/ MapFaults \/ MapEntry \/ MemoryManager \/ DeviceListInit \/ AcpiTables

StartupNext == Boot \/ UseDevices \/ AtRest

(* The start-up goes on: nobody else runs, and interrupt handlers return.  *)
StartupSpec == StartupInit /\ [][StartupNext]_startupVars /\ WF_startupVars(Boot)

-----------------------------------------------------------------------------
(* `list' is what is reserved in this part of a memory map, in its order.  *)
Reserves(list, map, part) ==
  \E f \in [DOMAIN list -> part] :
    /\ \A j, k \in DOMAIN list : j < k => f[j] < f[k]
    /\ {f[k] : k \in DOMAIN list} = {i \in part : map[i].type # 1}
    /\ \A k \in DOMAIN list : list[k] = map[f[k]]

TagFound(type) ==
  \E i \in loader.tags : i >= FirstTag /\ TagType(loader, i) = type

(* The walk begins at a tag.                                               *)
Aligned == loader.magic = MULTIBOOT2_MAGIC => FirstTag \in loader.tags

(* A multiboot 1 map begins with an entry for memory, and so does what is  *)
(* found behind it.                                                        *)
MemoryAround ==
  loader.magic = MULTIBOOT_MAGIC =>
    \A i \in {1, Len(loader.map)} : loader.map[i].type = 1

(* When the memory manager starts, the block allocator has been given all  *)
(* reserved entries of the loader's memory map, with their bases, lengths  *)
(* and types, in their order, and no others.                               *)
(*                                                                         *)
(* The code misses this in two cases, which the property leaves out.  It   *)
(* "makes sure we are within the range of entries" (multiboot.c:149), but  *)
(* begins behind the first and ends one behind the last: a reserved first  *)
(* entry of a multiboot 1 map is never delivered, and what lies behind the *)
(* map is, if it does not look like memory (MemoryAround).  And the tags   *)
(* of multiboot 2 are looked for from the eighth word behind the header    *)
(* on, where there need not be a tag (Aligned).                            *)
MapDelivered ==
  /\ stage \in {"vmmngr", "kspace", "devices", "acpi", "running"}
  /\ Aligned /\ MemoryAround
  => Reserves(regions, loader.entries, DOMAIN loader.entries)

(* With what it needs - a size and a map where the code looks for them,    *)
(* memory, and valid tables, with no corrupt ones before them - the kernel *)
(* gets to run.                                                            *)
Usable ==
  /\ CASE loader.magic = MULTIBOOT_MAGIC ->
            {"MEMSZ_PRESENT", "MMAP_PRESENT"} \subseteq loader.flags
       [] loader.magic = MULTIBOOT2_MAGIC ->
            Aligned /\ TagFound(MBOOT2_TYPETAG_MEMSZ) /\ TagFound(MBOOT2_TYPETAG_MMAP)
       [] OTHER -> FALSE
  /\ loader.entries # <<>>
  /\ loader.kb % SizeSpace >= BLOCK_KB
  /\ \E i \in DOMAIN firmware :
       firmware[i] = "valid" /\ \A j \in 1 .. i - 1 : firmware[j] = "none"

(* The start-up ends, with the kernel running or a panic that says why     *)
(* not; and with what it needs, it runs, unless a module that manages      *)
(* memory fails.  (Not when the walk over the tags does not begin at one.) *)
BootEnds ==
  /\ (Aligned ~> stage \in {"running", "panic"})
  /\ (Usable ~> (stage = "running" \/ refused))
=============================================================================
