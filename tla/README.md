# A verification of MISSY Microsystem in TLA+

This directory holds TLA+ models of the MISSY kernel (`kernel/`, `libc/`), the
configurations that check them with TLC, and proofs checked by TLAPS.
Line numbers below refer to the C and assembly files of the repository.
`PROJECT.json` lists, in a form tools can read, which definition models which
lines, which run checks which property, and the hazards of the code.

1. [The system](#1-the-system)
2. [The modules](#2-the-modules)
3. [What the runs check](#3-what-the-runs-check)
4. [Where the code does not do what it says](#4-where-the-code-does-not-do-what-it-says)
5. [What is proved](#5-what-is-proved)
6. [What is not modelled](#6-what-is-not-modelled)

## 1. The system

MISSY is a single-processor i386 kernel with one thread of control,
`kernel_main`, and interrupt handlers that run on top of it. At the present
commit it boots, sets up memory and interrupts and runs a small command line on
the console. There are no processes yet.

| Component | State it keeps | Operations | Used by |
|---|---|---|---|
| physical block allocator, `kernel/memory/balloc.c` | bitmap `m_bmp` (placed by address arithmetic behind the kernel), `bmp_sz`, `total_blocks`, `free_blocks` | `balloc_initialize`, `balloc_init_region`, `balloc_deinit_region`, `balloc_get`, `balloc_get_n`, `balloc_free`, `balloc_free_n` | memory manager, kernel address space |
| virtual memory manager, `arch/i386/memory/memory_virt.c` | page directory and page tables, seen through the recursive mapping; `pdir_virtual`, `pdir_physical`, cr3 | `vmmngr_initialize`, `map_page`, `unmap_page`, `create_address_space`, `switch_address_space` | kernel address space |
| kernel address space, `kernel/memory/kmemory.c` | `kernel_break`, `kheap_last_page` | `kmemory_initialize` (the loop over the memory map), `kspace_initialize`, `kspace_brk`, `kspace_sbrk` | heap allocator |
| kernel heap allocator, `kernel/memory/kalloc.c` | circular free list `free_hdr`, headers in the heap | `kernel_alloc`, `kernel_free`, `morecore` | command line |
| keyboard, `arch/i386/vga_tty/ps2_keyb.c`, `ps2_kb.asm` | `key_queue`, `queue_tail`, `_shift` | interrupt `keyb_interrupt` -> `ps2_keyboard_enqueue`; `ps2_keyb_getbyte` -> `ps2_keyboard_dequeue` | console input |
| console, `arch/i386/vga_tty/tty.c` | `_curX`, `_curY`, video memory | `terminal_printchar`, `puts`, `printf`, `scroll`, `clrscr`, `kernel_tty_read` | everything |
| start-up and command line, `kernel/kernel.c` | a 255 byte buffer per command | `kernel_early_init`, `kernel_main`, `kernel_command_line` | - |
| interrupts: `arch/i386/cpu/i386_cpu.c`, `pic-8259/`, `pit/` | GDT, IDT, in-service and mask registers of the two 8259s, timer reload value, tick and spurious counts | `cpu_init`, `cpu_setvector`, `i386_pic_*`, `i386_pit_start`, handlers | start-up, keyboard |
| exception handlers, `arch/i386/exception/` | the error codes they pop, and what is on the stack | 21 handlers in assembly, `i386_system_stop` | processor |
| devices, `kernel/device/device.c` | table of ten character devices | `device_list_init`, `register_chrdev`, `chrdev_read`, `chrdev_write` | console |
| boot information, `kernel/etc/multiboot.c` | memory size, pointer to the memory map, cursor in it | `multiboot_data_init`, `multiboot_get_mmap_next` | memory initialisation |
| ACPI, `kernel/etc/acpi.c` | - | `acpi_locate_rsdp`, `acpi_get_checksum` | start-up |
| C library, `libc/` | - | functions on strings, numbers and memory, `printf` | all |
| panic, `kernel/etc/exception.c` | - | `kernel_panic` | all initialisers |
| boot code, `arch/i386/init/kboot.asm` | the first page directory, the kernel's stack | straight-line code | - |

How the components meet:

* Calls go downwards: command line -> heap allocator -> kernel address space ->
  memory manager and block allocator. A failure travels upwards as NULL or -1,
  and some callers do not look at it.
* State is shared between the main thread and the interrupt handlers without
  any locking: the key queue, the cursor of the console, the IDT.
* The block allocator trusts the boot loader's memory map; its own bitmap lives
  in the memory it manages.

What is hard about it, and so what the properties are about: the allocator's
sizes and addresses at boundaries (rounding, 32-bit wrap-around, 0 as NULL);
calls that fail half-way and are followed by others; a keyboard interrupt
between two steps of a dequeue; conditions that hold only after long sequences
of legal calls. What makes each component correct:

* *block allocator* - a block is reserved, available, or held by one caller;
  reserved memory is never handed out; NULL means exhausted; the counter agrees
  with the bitmap.
* *kernel address space* - memory is granted once, is backed by blocks nobody
  else uses, and a call that fails loses no block.
* *virtual memory manager* - a mapping changes only by a call for its page;
  page tables are allocated blocks and given back when empty.
* *heap allocator* - allocations are disjoint and lie in granted memory; freed
  memory can be allocated again.
* *keyboard* - what is typed is read, once, in order, in the right case.
* *console* - the cursor stays on the screen; a line fits its buffer.
* *interrupts* - an interrupt that was raised is eventually handled, and every
  real one is acknowledged once.
* *exception handlers* - the kernel gets back its registers and its stack, or
  the machine stops with the right report on the screen.
* *devices* - a registered device stays, whatever is registered after it.
* *boot information* - the reserved regions of the loader's map reach the block
  allocator, all of them and nothing else; the start-up ends.
* *C library* - the functions do what their names promise, or it is known for
  which arguments they do not.

## 2. The modules

| Module | Models | Uses |
|---|---|---|
| `FramePool` | what the block allocator promises: a pool of frames (abstract specification) | |
| `Balloc` | `balloc.c` as the kernel drives it, with the memory map loop of `kmemory_initialize` | implements `FramePool` |
| `BallocSeries` | the calls of `balloc.c` that nothing uses yet | extends `Balloc` |
| `HeapBreak` | what `kspace_sbrk` promises the heap allocator: a break that moves up (abstract specification) | |
| `KSpace` | `kspace_initialize/brk/sbrk` and `vmmngr_map_page` | client of `FramePool`; implements `HeapBreak` while no call fails half-way |
| `KAlloc` | `kalloc.c` on the words of the heap | client of `HeapBreak` |
| `Keyboard` | queue, shift state, interrupt handler, polling reader | |
| `Interrupts` | the gates, handlers and 8259s from `cpu_init` to the command line | |
| `Console` | printing, scrolling, `kernel_tty_read`, the command line, and the default interrupt handler on the same screen | |
| `Exceptions` | the exception handlers, instruction by instruction, and their vectors | |
| `LibC`, `Keymap` | the functions of the C library; the keymap and what a scancode does (operators, no state) | |
| `Library` | calls of these functions, compared with what they promise | extends `LibC`, `Keymap` |
| `Devices` | `device.c`; names are strings of `LibC` | extends `LibC` |
| `Multiboot` | what the boot loader leaves, and the cursors over it (operators) | |
| `Startup` | `kernel_early_init`: all initialisers in their order, then the use of devices | extends `Devices`, `Multiboot` |
| `Kernel` | the start-up, and then the use of the library and the keymap | extends `Startup`, `Library` |
| `Paging` | `memory_virt.c` on the tables that the boot code builds | client of `FramePool` |
| `BallocProofs`, `KSpaceProofs`, `KAllocProofs`, `PagingProofs`, `KeyboardProofs`, `ConsoleProofs`, `ExceptionsProofs` | theorems | each extends the module it is about |
| `StartupProofs` | theorems about `Interrupts`, `Startup` with `Devices` and `Multiboot`, and `Kernel` | extends them |
| `MC*` | constants for TLC | |

`KSpace` and `Paging` are composed with the allocator through `FramePool`: they INSTANCE the
pool's `Get`, `GetFails` and `Free` instead of the bitmap, and `Balloc` is shown
(by TLC and by proof) to implement that pool. In the same way `KAlloc` gets its
memory by `HeapBreak`'s `Sbrk`, and `KSpace` is shown to implement that break
up to the first call that fails half-way or wraps, and for good if nobody asks for
more than a page at once.

**Balloc.** `m_bmp` is the set of bits that are 1. The C code never compares a
bit number with `bmp_sz`, so the set also holds bits of the memory behind the
bitmap, which is arbitrary at boot (`junk`). `Init` is `balloc_initialize`
including its two calls of `balloc_init_region`; `InitRegion` is one turn of the
loop of `kmemory_initialize` (entries are taken in any order, which covers the
order the boot loader chose); `Get`, `GetNull` and `Free` are `balloc_get` and
`balloc_free`. `IsFirstFree` says what the two nested loops of
`block_alloc_first_free` find. Block numbers are plain numbers, 64-bit map
entries are truncated to the address space, the counter has a width.
Nothing runs concurrently with the allocator, so a call is one action.
`held`, `reserved` and `junk` are history variables.

**BallocSeries.** `SpacedBit(x, y)` is the bit that `memory_bitmap_set(x+y)`
reaches, given that the macro does not parenthesise `bit`. The x86 takes a shift
count modulo 32, which the C standard leaves undefined.

**KSpace.** A call of `kspace_sbrk` is cut where it can fail: the range check
(`SbrkRefused`), the case in which no page is needed (`SbrkInside`), and for
each page `GetBlock` or `NoBlock`, then `MapBlock` or `MapFails`, and `Grown` at
the end. `call` is the activation record. Because balloc may run dry at any of
these steps (`Frame` is any set, small in the runs) every partial failure
occurs. `pdir` and `tables` are the page directory and the page tables; the
recursive mapping is abstracted to looking a table up by its block. Block 0,
where a page table goes when `balloc_get` returned NULL, is the model value
`Null`. A new table is cleared by `memset`: the one of `libc` stores only the
first byte, but at -O2 the compiler expands the call inline; `Leftovers` lets
the runs have both. `latest` and `granted` are history.

`failures` records how calls have gone wrong: the conditions under which the
properties hold are stated with it.

**KAlloc.** `mem` is the memory of the heap, and a header is two of its words,
`next` and `size`, so headers that overlap share words, as they do in the
machine. The unit is the 4-byte word; pointers to headers are scaled by
`SCALE` when the code adds to them (`Advance`). One turn of a loop is one
action: `TakeExact`, `Split`, `Skip`, `MoreCore` and `NoCore` are the search of
`kernel_alloc`, `Walk` and `Place` those of `kernel_free`, which `morecore`
calls as well (`nbytes` tells the two callers apart). A read of a header behind
the heap is a page fault (`Fault`) or, when the rest of the page is mapped,
goes on. `MoreCore` takes its memory by `Break!Sbrk` of `HeapBreak`, which grows the
heap at its end; `NoCore` is the call that fails and changes nothing. That this is
what `kspace_sbrk` does is shown in `KSpace`, up to the first call that fails
half-way (`BreakKept`), which a request of at most a page cannot do (`BreakSpec`).
`OnList` is the round of the links from `base`;
`Blocks` gives each block an owner: the list, the caller it was given to, or the
`kernel_free` or `morecore` that is about to put it on the list.
`live` and `broken` are history; `broken` records
the three ways in which the code damages its list (section 4): a merge of
blocks that do not touch, or that do, by the scaled comparison; a remainder
shorter than a header; a size that wraps.

**Keyboard.** The interrupt handler runs with interrupts disabled and is one
action per kind of scancode; the reader `kernel_tty_read` polls
`ps2_keyb_getbyte`, and its dequeue is cut at every access to shared memory:
`Poll`, `Take`, one `Copy` per turn of the loop, `CopyDone`, `Drop`. The
variables are not volatile, so the compiler may use a copy of `queue_tail` from
any earlier read in the same call; every use in the model takes either the
register copy `n` or the variable (`TailRead`). The array has one more slot than
the code's, since the loop reads `key_queue[i+1]` up to `i+1 = KB_QUEUE_SIZE`;
`Overrun` is what it finds there. Keys are queued on release (break code).

**Interrupts.** `Kernel` is the start-up as far as interrupts see it: the IDT
is filled, the 8259s are reset and keep the masks that the firmware left, the
timer gets its vector, interrupts are enabled, and much later
`ps2_keyb_initialize` sets the vector of the keyboard. That last call of
`i386_idt_setvector` runs with interrupts enabled, so it is cut into the
clearing of the gate and one `SetField` per field, in any order, as the
compiler may emit the stores. `Raise`, `Accept` and `AcceptSpurious` are the hardware:
8259s in fixed-priority mode with the slave on line 2, a request that vanishes
is answered with line 7 or 15. A handler is an action for its body, `SendEOI`
and `Iret`; all gates are interrupt gates, so handlers do not nest.
`irq15.asm` defines `X86_PIC2_PORT_DATA` twice; the assembler
uses the later value, the slave's mask register. The keyboard raises its line for a byte and not
again before the byte was read. `early` is history.

**Console.** A screen is a record: cursor, cells, and the stray indices written
outside of it. `printing` is what is being printed: the characters left and the
next access to the cursor for the first of them. `terminal_printchar` is cut at
each such access (`Load`, `PutCell`, `Right`, `Left`, `Return`, `Down`,
`Check`, `Scroll`, `Up`), since `DefaultHandler` may come between any two: it
prints its message with the same functions on the same variables, while
`kernel` keeps what was interrupted. The cursor is not volatile; each use takes
the value that a register holds from the beginning of the character or the
variable (`XRead`, `YRead`). The index is a `uint16_t` (`IndexSpace`), so a
cursor left of the first cell would write far behind the screen.
`kernel_tty_read` is one action per key, taken when nothing is being printed:
the first key is stored whatever it is; `Reading` compares a signed with an
unsigned number, so a negative count ends the loop. The buffer has the byte in
front of it and the one behind it. `Execute` compares the line with the builtins
in their order; because the run-time `strlen` counts the terminator, `strncmp`
compares whole strings. Keys come from `ps2_keyb_getbyte`: any key may come
next. `plain`, `broken` and `line` are history.

**Exceptions.** A handler is the sequence of its instructions, where pushing
arguments, calling a print function and removing the arguments again is one;
`Returns` and `Stops` are the two forms that most handlers have. `stack` is what
lies above the kernel's own words, `regs` says whose values the registers hold,
and the processor takes an exception, pushes an error code with some of them,
and returns through the three words that `iretd` finds on top. A frame that is
not one raises a general protection fault (`IretFaults`) or happens to be a code
segment (`IretWild`). Vectors are set one by one while exceptions may already
occur. A non-maskable interrupt comes between any two instructions of anybody.
`last`, `fatal` and `skewed` are history.

**LibC, Keymap, Library.** A pointer to a string is the sequence of bytes from
there on, behind its terminator too, for `strlen` counts the terminator and
`memcmp` and `strtol` look one character further than they should. `strtol` is
the loop of the code as a fold, with the wrap-around of a `long`. `printf` is
also `terminal_printf`: both have the same conversions. `Keymap` is the whole
table of `ps2_keyb.c`, and `Enqueued` is `ps2_keyboard_enqueue` without the
queue. `Library` calls a function with any arguments of its instance and keeps
the result in `call`; its properties say what the functions promise in other
words, and for which arguments they keep the promise. `Kernel` makes these calls
after the start-up, as any kernel code may; no function of the library has state
of its own.

**Devices.** An entry is a name of `DEVICE_MAXPATH` bytes, a byte of padding and
a pointer to the driver: a longer name runs over the pointer (`Named`), which is
`Damaged`. `RegisterGiven` accepts numbers behind the table, where any memory
counts as an entry. `device_list_init` initialises a list that nothing uses.
`registered` is history.

**Multiboot, Startup.** The multiboot 2 information is a sequence of 8-byte
words, so that the walk of `mboot2_find_tag` may begin anywhere in it and take
data for a tag; the map of multiboot 1 has one entry more than the loader wrote,
because the reader looks there. `Startup` is `kernel_early_init`, one action per
initialiser, per turn of the loop over the tags and per entry of the memory map.
What `cpu_init`, the block allocator and the memory managers do is in the other
modules; here they succeed or fail. `loader` and `firmware` are what was left in
memory; `regions` and `refused` are history. `WellFormed` says what a loader that keeps to
its format leaves (the assumption on `Loaders`); `Reserves` compares a list of
regions with the reserved entries of a map - base, length and type - and their
order.

**Paging.** Directories and tables are blocks, and `mem` says what each holds.
Every access goes through cr3 and the last entry of the directory, as the
recursive mapping makes the processor do (`pdir_virtual`, `p_table`), so that
it shows whose tables a map or unmap reaches when another directory is in use.
`Init` is `setup_paging` of the boot code: low memory, kernel and stack are
mapped through boot tables, which one block `BootTable` stands for.
`vmmngr_initialize` is cut into the block for the directory, the mapping at
the temporary page, the copy, the load of cr3 and the unmapping. The write through
the physical address of the new directory faults unless it is below 4 MB
(`Low`). What a block holds before someone clears it is `Junk`; the new table
is cleared by `memset` (`KSpace` has the case in which it is not). `revoked` is
history: the entries of copied directories whose table was given back.

## 3. What the runs check

Every passing run explores all reachable states of its instance.

| Run | Instance | Properties |
|---|---|---|
| `balloc` | 9 blocks of RAM in a bitmap of 12, an address space of 12 blocks, blocks of 4 bytes; the memory map is any subset of five entries (inside RAM, partly behind the bitmap, empty, in the hole after RAM, above 2^32); memory behind the bitmap clear or partly set | `TypeOK`, `ReservedNeverHeld`, `NullOnlyWhenExhausted`, `CounterMatchesBitmap`, refinement `PoolSpec` |
| `kspace` | pages of 4 bytes, tables of 2 entries, heap of 5 pages, 6 blocks, increments 0, 1, 3, 6 and 30 (which wraps) | `TypeOK`, `FreshMemory`, `GrantedBacked`, `BlocksAccounted`, action property `BreakKept` |
| `kalloc` | words of one byte, so `SCALE` is 2; 64 addresses, a heap of up to 18 that grows by 6 at least; requests of 1, 2 and 63 words (which wraps) | `TypeOK`, `BlocksDisjoint`, `MemoryAccounted`, `ListCircular`, liveness `CallsReturn` |
| `keyboard` | queue of 2, 4 characters typed, both shift keys | `TypeOK`, `FIFOWithoutRaces`, `LossBounded`, `ShiftFollowsKeys`, liveness `EventuallyDelivered` |
| `interrupts` | timer, keyboard, lines 7 and 15, and line 14 of the slave, which has no handler; lines 0 and 14 may be spurious; nothing masked, 7 and 15 masked, or 0 and 14 masked; counters of 1 bit | `Released`, `GatesComplete`, `EoiEndsItsOwn`, liveness `TicksTaken` |
| `console` | 2 rows of 9 columns, tabs of 2, a prompt of 7, lines of 6, one letter, return, backspace and a key without a character, two builtins, one message of 2 characters in a command | `TypeOK`, `WritesInBounds`, `ShownIsRead` |
| `paging` | directories and tables of 8 entries, 4 blocks of which 3 are below 4 MB, any subset of them free at boot; 4 pages in 3 tables for callers, 2 blocks to map, one further address space | `MapsWhatWasAsked`, `TablesAccounted`, `KernelStaysMapped` |
| `exceptions` | all 32 vectors, error codes 0 and 2, 26 words of stack, one non-maskable interrupt | `MainIntact`, `ReportShown`, liveness `HandlersEnd` |
| `kernel` | multiboot 1 with 4 maps, 6 memory sizes and all flags, multiboot 2 with about 400 orders and lengths of tags, 4 firmwares; 3 devices, names of 3, 6 and 7 bytes in an entry of 4, two drivers; strings of up to 2 of 3 characters, a `long` of 8 bits, numerals of up to 4 of 8 characters, formats of two conversions; every number, base and scancode | `MapDelivered`, `DevicesKept`, `StringsAgree`, `NumeralsAgree`, `KeysTyped`, liveness `BootEnds` |

Why these bounds are enough to be interesting:

* `balloc` has a bitmap with a partial last word and bits behind it, regions
  that overlap and regions that touch both, and few enough blocks that the
  allocator is exhausted and refilled. Region sizes fall on and off block
  boundaries.
* `kspace` has requests inside a page, of exactly up to a page and of two pages;
  page tables are needed in the middle of a request; 6 blocks are fewer than the
  heap and its tables would take, so running dry happens at the first page, at
  a later page and at a page table, and `Increments` reach KHEAP_PAGE_MAX.
  Blocks are symmetric: the code never compares them.
* `kalloc` grows its heap up to three times, with requests that leave
  remainders of 0 to 3 words. With `SCALE` 2 and blocks of 6 words the distances
  at which the scaled comparisons merge blocks occur, so the cases in which the
  list is damaged are reached as well as those in which it is not.
  `FollowDamage` is a bound: when it is FALSE a behaviour ends at the call that
  has damaged the list, since the properties say nothing of what follows; the
  run `kalloc_merge` sets it to TRUE. `HeapEnd` bounds the heap; `NoCore` may happen
  at any growth, with the bound reached or not.
* `interrupts` has a line of each kind: with its own handler, with a handler that
  reads the wrong register, without one, on the master and on the slave, and
  real and spurious interrupts of each. `TickSpace` only makes the counters
  wrap. Lines that share a handler behave alike but for their priority.
* `console` wraps a line (the prompt and six letters take two rows and the
  extra cell of one), erases over the wrap, and scrolls at every command. That
  the cursor never gets in front of video memory depends on the prompt being
  longer than the number of rows a line can take, since every wrap prints two
  characters into one cell and erasing goes one cell back for each: the proof
  needs two characters more than rows (`TextAssumption`), and 9 columns are the
  fewest with which an instance has them - 7 characters here, 9 in the code,
  where a line of 255 letters takes 4 rows. `MessageAt` bounds where the message
  comes: in the prompt, in a line, also when it is almost full, and in what a
  command prints, at every access to the cursor of these.
* `paging` has pages that share a table and pages that do not, a table for a
  page below the kernel (not copied into further address spaces) and above it,
  and too few blocks for all tables. `NullUnused` is a bound: nothing is called
  once a table or directory lies in block 0. `CreateRefused` is what happens to
  every further address space, so one is enough. Blocks are symmetric.
* `exceptions` has room on the stack for three handlers within each other, so
  that a fault of a handler and the fault of that one are taken and the next one
  resets the processor.
* `kernel` has tags whose lengths are and are not multiples of 8, texts that
  read as tags, and the first tag of interest before, at and behind the word
  where the walk begins. Names are shorter than an entry, exactly as long as
  entry and padding, and longer. After the start-up only one loader is followed
  (`DeviceLoaders`): what the table holds does not depend on it. The library is
  called behind one loader and firmware (`LibraryStarts`), before the devices are
  used: its functions read nothing that these change. It has an 8-bit `long`, so every number is tried and numerals of four
  characters are long enough to overflow it in every base. Strings of two
  characters differ, end and compare equal in every position, with a character
  that is negative as a `char`.
* `keyboard` fills its queue of 2, types 2 more, and can have up to 4 keys in
  one dequeue. A longer queue only adds turns of the copy loop. `MaxTyped` is
  the only bound on an otherwise unbounded counter.

Properties that need a condition say so in their formula, and the condition is
the code's real limit: `FreshMemory` holds until a call has run out of memory
with a page of it mapped or an increment has wrapped, `GrantedBacked` until a
page table was put into block 0, a page was mapped already or an increment has
wrapped, `BlocksAccounted` until a page table was put into block 0, `BreakKept` like
`FreshMemory`, the properties of `KAlloc` until the list is damaged, `Released` and `GatesComplete`
unless a key was pressed before the keyboard had its vector, `MapsWhatWasAsked`
and `TablesAccounted` until block 0 is used as a table, `ShownIsRead` for lines
of letters on one row with no more erased than typed, `WritesInBounds` unless
something is erased of a line in which a message has come, `FIFOWithoutRaces` until a
key arrives in the middle of a dequeue, `MapDelivered` and `BootEnds` when a
tag begins where the walk over the tags does, `MapDelivered` also when the first
entry of a multiboot 1 map, and what lies behind its last one, say that they
are memory (`MemoryAround`), `TablesAccounted` for the entries of an address
space whose table was not given back after they were copied (`revoked`),
`KeysTyped` for the keys whose entry is in its place (`Placed`), `DevicesKept`
for names that fit and numbers inside the table. Section 4 says what happens
without these conditions.

**Fairness.** `Keyboard`, `KAlloc`, `Interrupts`, `Exceptions` and `Startup` have a liveness property. `WF_vars(Reader)` is
justified because the reader is the only thread of the kernel and busy-waits in
`kernel_tty_read`, and every interrupt returns to it. The user is not fair: keys
need not arrive. `WF_vars(Step)` of `KAlloc` says that a call in progress runs
on, which is so on a single processor whose interrupt handlers return; nobody
has to call. `Interrupts` assumes `WF_vars(Processor)` - the processor takes a
request that the controller passes on and its handlers run to their end - and
`WF_vars(Kernel)`: the start-up goes on when no handler runs. No line has to be
raised. `WF_vars(Execute)` of `Exceptions` is that the processor executes the
instructions of a handler; no exception has to occur. `WF_vars(Boot)` of
`Startup` is that the only thread goes on. Nothing else is assumed.

**Deadlock** is checked in every passing run. `Halted` in `KSpace` is the endless loop of
`kernel_panic`; in `KAlloc` it is the endless loop of the page fault handler and the
end of a behaviour that `FollowDamage` cuts off; in `Keyboard`, `PollEmpty` is the busy-wait; in `Interrupts` and `Paging`,
`Halted` is the endless loop of `i386_system_stop` (in `Paging` also the end at
the bound `NullUnused`), and `Prompt` the loop of `kernel_main`; in `Exceptions` `Halted`, in `Startup` `AtRest`
is the stopped machine, a reset, or a kernel with nothing to do. `Unfollowed` in
`Console` is the end of a behaviour that the bound on `broken` cuts off.

## 4. Where the code does not do what it says

Each of these runs checks one property that a comment of the code states, and
TLC finds a behaviour of the code that violates it. `PROJECT.json` quotes the
comments.

| Run | The code |
|---|---|
| `balloc_bitmap` | places the bitmap four times as far behind the start of the kernel as the region assumes that is reserved for both, and hands out its blocks: with 128 MB of memory if the kernel is larger than 12 kB, and the four sections that link.ld aligns to pages always make it so (balloc.c:61, against :77). The run has 20 blocks of memory and a kernel of 4 |
| `balloc_series` | sets the wrong bits for a series of blocks (balloc.c:151) |
| `kalloc_merge` | merges two free blocks together with a block in use between them, since a byte count is added to a header pointer (kalloc.c:101) |

The properties of the passing runs state in their conditions what else the code
does not do:

* after a `kspace_sbrk` that ran out of blocks half-way, a later one returns the
  same memory to two callers (`"partial"` in `failures`, kmemory.c:123);
* a key that arrives in the middle of a dequeue is lost, repeated or misplaced
  (`races`, ps2_keyb.c:245); how many are lost is bounded (`LossBounded`), which
  ones, and that none comes twice in the place of another, is not;
* a key pressed between `cpu_enable` and the setting of the keyboard's vector
  runs the default handler, which sends no end of interrupt and does not read the
  byte: line 1 stays in service and the command line gets no input (`early` in
  `Released`, i386_cpu.c:180);
* the handler of general protection faults ends in a label that was meant to be
  the call that stops the machine, with two words too many on the stack; that
  of alignment checks does not take the error code off the stack, nor does the
  default handler for the vectors 21 and 29: the next `iretd` returns through a
  wrong frame (`skewed` in `HandlersEnd`, i386_genprotectfault.asm:73);
* the handler of breakpoints "will simply halt", says i386_breakpoint.asm:2, but
  it returns and the kernel goes on; that of non-maskable interrupts "will
  simply continue", says i386_nmi.asm:3, if a watchdog timer elapsed, but it
  halts then too. `MainIntact` takes both as they are: 2 is among the
  exceptions behind which the kernel never runs, 3 is not (`Fatal`);
* the device error and security exceptions are reported without their number
  (`ReportShown`);
* a name longer than an entry overwrites the pointer to the driver, and
  `register_chrdev` accepts numbers behind the table (`DevicesKept`,
  device.c:63, :78);
* `multiboot_next_mmap` "makes sure we are within the range of entries"
  (multiboot.c:149), but begins with the second entry and ends with one from
  behind the map: a reserved first entry is never delivered, and memory that is
  no entry is (`MemoryAround`, multiboot.c:152); in multiboot 2 information the walk
  begins 64 bytes behind the start instead of 8 (`Aligned`, multiboot.c:176);
* `strtol` skips a character behind white space, divides by a base of 0, does
  not know the prefix `0x`, does not notice further digits behind those of
  LONG_MIN, and sets `endptr` to the last digit (`ReadsRight`, strtol.c);
  `memset`, which is to fill n bytes (memset.c:11), stores one; `memcmp`, which is to
  return the order of two blocks (memcmp.c:13), returns the difference of the bytes
  behind the first that differ, whatever its sign, and may read one byte behind
  the blocks; `strlen`, "the length of a string" and a "standard library function"
  (strlen.c:11, :4), counts the terminator; and a number printed by `printf` is
  followed by a NUL (`StringsAgree`, `NumeralsAgree`);
* the keymap has no entries for 0x4a to 0x4f, so that the nine that follow, which
  its comments place at 0x50 to 0x58, are found at 0x4a to 0x52: 0x4a types a '2',
  0x51 and 0x52 are F11 and F12, and 0x53 to 0x58, the true F11 and F12 among
  them, find what lies behind the table (`Misplaced` in `KeysTyped`,
  ps2_keyb.c:106-114);
* a memory map entry behind the end of RAM sets bits behind the bitmap (`m_bmp`
  has them, balloc.c:97);
* when no block is left, block 0 becomes a page table (`TablesAllocated`,
  memory_virt.c:174), and block 0 the page directory (memory_virt.c:80);
* a split may leave a free block shorter than its header, whose size is then
  overwritten (`"sliver"` in `broken`, kalloc.c:68);
* a reserved region that straddles one block more than its length needs is
  reserved one block short (`Counted` in `ReservedNeverHeld`, balloc.c:91);
* the tail bits of the last bitmap word describe blocks behind the end of RAM,
  which are handed out like the others (`BitmapBits`, balloc.c:68);
* an increment that wraps around 2^32 succeeds without growing the heap
  (`"wrap"` in `failures`, kmemory.c:148), and a request that wraps with its
  header gets a block of a few bytes (`"wrap"` in `broken`, kalloc.c:46);
* after `morecore` the search goes on behind the block it has added, so it
  meets the end of the list and grows the heap a second time before it looks at
  that block (`Place` and `MoreCore`, kalloc.c:80).

And the models show, without a property that could quote the code:

* a real interrupt on an unmasked line 7 or 15 is taken for a spurious one and
  stays in service (`Irq7`, `Irq15`);
* the terminator of an input line is written in front of the buffer when more
  is erased than typed, and behind it when the line is full (`WritesInBounds`,
  tty.c:94); the first key of a line is stored even if it is a backspace or the
  return key;
* a character in the last column of a row is followed by one that is overwritten
  (`Right`, tty.c:154), and a message of the default handler may be printed over
  the characters of the kernel, or one row below the screen (`PutCell`,
  tty.c:150);
* if nothing is left for the buffer of a command, the line is read into page 0,
  which is mapped; nothing that the command line does depends on its address
  (kernel.c:151);
* a second address space cannot be created, since the first stays mapped at the
  temporary page; the recursive entry of a new directory leads to the old one;
  its entries between low memory and the kernel keep what the block held before; and the
  first map or unmap after a switch loads the old directory again (`CreateRefused`,
  `CreateCopy`, `MapPage`, memory_virt.c:112-149);
* a page table that `vmmngr_unmap_page` gives back is still entered in the
  address spaces that have copied its entry, since it clears only the entry of the directory it
  works in: after a switch, pages are translated through a block that may belong
  to somebody else (`revoked` in `TablesAccounted`, memory_virt.c:204-217).

## 5. What is proved

All theorems hold for every value of the constants that satisfies the module's
assumptions. Each module proves one inductive invariant `IInv` - `InitIInv`, one
lemma per action, `Invariance` - and the properties follow from it.

**`BallocProofs`**, for every size of memory, blocks, words and kernel, every
memory map and every content of the memory behind the bitmap:

* `TypeCorrect`, `ReservedSafe`, `NullSafe`, `CounterSafe`: the safety
  properties that the run `balloc` checks;
* `BitmapExposed`: how far the run `balloc_bitmap` reaches. If three kernel sizes
  (the words of 4 bytes less one) are at least the bits of the bitmap, counted as
  bytes, and a block, then `balloc_initialize` has marked no block of the bitmap,
  but for bits that were set before. For 128 MB (32800 bits, blocks of 4096) that
  is a kernel of 12299 bytes; link.ld makes it 16384 at least;
* `ImplementsPool`: `Spec => PoolSpec`, every step of the bitmap allocator is a
  step of `FramePool` or leaves the pool unchanged.

The assumptions are those of `Balloc`: sizes are positive, memory and the
kernel's start are below 2^32, the memory behind the bitmap is finite. `IInv` is
`TypeOK` and the properties with six more parts. `Free(b)` clears a bit; what
keeps it from clearing the bit of a reserved block - block 0 above all, which
doubles as NULL - is that held blocks and reserved ones are disjoint
(`ReservedApart`). For `Get` to preserve this, bits of reserved blocks must be
set (`ReservedMarked`), and for `InitRegion` to preserve it, nothing may be held
while the memory map is processed (`BootBeforeGet`). `CounterMatchesBitmap`
needs the bits set before boot to stay set (`JunkMarked`) and held ones to be
set (`HeldMarked`); `NullSafe` needs the low region to be among the reserved
ones (`FixedReserved`). The lemmas in front hold the facts about `\div` and `%` that
the solver does not know (uniqueness and monotonicity of quotients, `SpanBound`
on the blocks a span of bytes touches).

**`KSpaceProofs`**, for every page size, heap region, supply of blocks, size of
request and content of new page tables: all properties of the run
`kspace` - `TypeCorrect`, `FreshSafe`, `BackedSafe`, `BlocksSafe` and `BreakSafe`. What makes
them inductive is:

* `Calls`: the pages still to get end exactly at the page of the new break, and
  the break asked for is the old one plus the size. That the 32-bit sum of a
  growing call has not wrapped is proved, not assumed: its break lies behind the
  last page, and a wrapped sum lies in front of the old break;
* `Breaks`: the break never passes the last page, which stays page-aligned and
  within the heap's region, so that page directory and table are indexed in
  range;
* `Fresh`: before a call has failed in its middle, the break is in the last page
  whenever no call is in progress, and everything returned is below it - which
  is what fails when `kspace_brk` leaves `kheap_last_page` ahead of the break;
* `Owned`: every block held has one use - a page table, a page, or the block in
  hand - no two pages show the same block, and no two directory entries the same
  table; `Ahead`: no page in front of the end shows a block; `Backed`: every
  other page does. `SameBlocks`, `BlockTaken`, `BlockReturned` and `BlockMapped`
  say once for all actions what taking, mapping and returning a block does to
  `Owned`, and `MapPageTranslates` that `vmmngr_map_page` changes what one page
  shows and no other, for which the indices of a page must be unique
  (`PageIndexUnique`).

* `BInv`, for `BreakSafe`: as long as no call has failed in its middle or wrapped
  (`Whole`), what was returned is all memory from the start of the heap to the break
  (`Contiguous`). It is `Grown` that moves the break of `HeapBreak`, or
  `SbrkInside`; all other steps leave it alone (`CallBreak`), a failing call and one
  in which a page table goes to block 0 included.

`ImplementsBreak` says that with `PageRequests` - requests of at most a page, cleared
page tables and a heap that ends more than a page before the end of the address
space - `KSpace` implements `HeapBreak` for good. No page and no table behind the last mapped
page is present (`Clear`), so a call finds nothing in its way, and if it needs a
page it needs one only (`OnePageAhead`): when it fails, none is left mapped, so
`Whole` is an invariant. With a request of more than a page, an increment that wraps or
a page table with leftovers TLC finds that it is not.

The assumptions are those of `KSpace`: a positive page size, an aligned heap
start below its end, and room for one page behind the end of the heap's region.
`ImplementsBreak` needs `PageRequests` too.

**`PagingProofs`**, for every size of tables, choice of the entries that low
memory and the kernel have, and sets of pages, blocks and address spaces: all
three properties of the run `paging` - `MappingSafe`, `TablesSafe` and
`KernelSafe` - and `TypeCorrect`. `Booting` follows `vmmngr_initialize` up to the
load of cr3: the old directory is as the boot code left it but for the table of
the temporary page, and the blocks held are that table and the new directory.
`Rooted` says that from then on every directory in use leads to the kernel's through
its last entry, which is why `Recursive` can show that a map or unmap reaches the
same tables from each. `Accounts` says that no two entries of the directory lead to
the same table, none to the directory itself and none to a table that is empty;
with it, `MapShows` and `UnmapShows` prove that one page changes and no other,
a new table, or one that is given back, included. `RootedKept` keeps the kernel
apart: writes go to blocks of the allocator, and the entries of the directory they
change are not the kernel's.

The assumptions are those of `Paging`: the blocks of the allocator, those of the
boot code and those that callers bring differ, the pages of callers and the
temporary page are not in entries of the kernel, and those entries (0, 768 and
that of the stack) are among the ones `vmmngr_create_address_space` copies. As in
the run, nothing is claimed once a table or the directory lies in block 0
(`NullUnused`), but for the kernel's entries. `Copies`, an invariant on top of `IInv`, is what
`TablesAccounted` says of address spaces: an entry that was copied and not revoked
leads to the kernel's table or to none. `MapKeepsTable` (a map replaces no table)
and `UnmapGivesBack` (an unmap leaves the entry of its page as it is or gives the
table back, which revokes the copies) are why maps and unmaps keep it.

**`KeyboardProofs`**, for every size of the queue, set of keys and number of
characters: `TypeCorrect`, `LossSafe`, `ShiftSafe` and `OrderSafe`, all the
invariants of the run `keyboard`. During a dequeue the register copy of
`queue_tail` lags behind the variable by the keys that arrived since; `Dequeues`
bounds the loss by that lag, whichever of the two each use reads (a bound on the
number of characters; it does not say which were read). `InOrder` says
where the k-th waiting character is in the middle of the copy loop: in `retval`,
already moved, or not yet moved. `NotBothDown` is what `ShiftFollowsKeys` needs
when a shift key is released.

**`StartupProofs`**, on `Interrupts`, for every set of connected and noisy lines and whatever
masks the firmware leaves: `TypeCorrect`, `LinesReleased`, `GatesSafe` and the
action property `EoiSafe`. `Starting` says that nothing is taken before
interrupts are enabled, `GatesSet` which gates are set when the kernel has come
how far, `Pressed` and `Serves` that the handler running is the one of its line
(the keyboard's alone may be another, after an early key). `InService` carries
the argument about the end of interrupt, which does not name the interrupt it
ends: while a handler other than that of line 7 runs, the line of the master it
came by is in service and nothing there is prior to it, so that
`EOI(isr, Master)` removes exactly that line (`EOIForemost`).

And on `Startup`, for every well-formed loader, every content of the firmware, sizes
and devices: `MapSafe` (`MapDelivered`) and `DevicesSafe` (`DevicesKept`). Both
invariants were checked by TLC first.

* `MapInv` follows the walk over the tags (`Walking`): if it begins at a tag it
  stays on tags, since the next tag begins at the first word behind this one and
  that is where the rounded size leads (`NextTagIsTag`); so the tag that is taken
  for the map is one, and the quotient of its size is the number of entries
  (`EntriesOfTag`). `Delivering` says that the regions given to the block allocator
  are the reserved ones among the entries passed so far, in order; `ReservesMore`
  carries that over one more entry. `ReservesElsewhere` and `ReservesSame` go from the
  entries 2 to n + 1 that are read of a multiboot 1 map to the n that it has, which
  have the same reserved ones if the first and the one behind are memory
  (`MemoryAround`): no more than that can be proved of the code.
* `DeviceInv` says of each registration that its entry is still what it was
  (`Kept`) and that no two have the same number (`Apart`). What is left to show is that a
  registration takes an entry that nobody has, that `device_list_init` and calls for
  numbers behind the table leave the entries alone, and that a name that fits
  comes back from its entry unchanged: `strlen` and `strncpy` see the first NUL, the least index with
  that byte (`StrlenIs`, `NameEnds`, `NameCopied`).

The assumptions are those of `Startup` and `Devices`: positive sizes; loaders that
keep to their format (`WellFormed`), which the code trusts them to do; at least one
name that fits an entry; and a table that is not longer than an entry by more than
two (they have 10 and 255), since `register_chrdev` copies `DEVICE_MAX - 1` bytes of
a name that is too long.

`KernelStarts` says that the kernel with the library, `KernelSpec`, implements
`StartupSpec`, fairness included, so that both theorems hold of what the run
`kernel` checks.

**`KAllocProofs`**, for every scale of header pointers, least increment of the heap, set of requests, place
and size of the heap below the end of the address space: the four properties of the runs `kalloc` and
`kalloc_merge` - `TypeCorrect`, `BlocksSeparate`, `NothingLost`, `ListSafe` - and
`IntactNeverFaults`: while `broken` is empty, no header behind the heap is read.
The list is words of `mem`; the headers on it are those met along `next`
from the base (`Round`). `Sound` says that they form one circle through the base,
which goes up in addresses and down once (`Listed`), and that the free blocks,
those of the caller and the block between `kernel_free` or `morecore` and the list
tile the heap without gap or overlap (`Parted`). Both are claimed only as long as
nothing in `broken` has happened (`Intact => Sound`): an overlong release, a
sliver or a wrapped size does break the list, as the findings show, and `Pointers`
is what is left of it then. Each step changes at most two links, and the lemmas on
circles say what becomes of `Round` when one header is put in, taken out, or
replaced by the part that is left of it. Facts about all turns of a walk - that it
meets every header before it is back at the base - are had from the least number of
links at which they fail (`NatLeast`, from the well-ordering of `Nat`) rather than
from the library's induction theorems.

**`ConsoleProofs`**, for every size of the screen and of the line buffer, every
prompt, builtin and message, every set of letters and every place where the default
handler comes in: all three properties of the run `console` - `TypeCorrect`,
`BoundsSafe` and `LineSafe`. `IInv` was checked by TLC on this instance first.

* `Texts` says what is left to print, by who prints it: a character of the line and
  what a backspace becomes, or the tail of the message that ends in a return.
* `Vertical` bounds the row. A printer that begins a new row is in the one behind
  the last until the screen has scrolled. If the kernel is interrupted there
  (`High`), the whole message is printed one row below the screen, and the kernel,
  whose register still holds that row, scrolls once more; that is why the
  cursor comes back to the last row and why the writes stop at the row behind.
* `Horizontal` bounds the column: a line that is erased over a wrap moves the cursor
  to the left of the first column, one column for each character at most (`Lag`
  counts the one that is being typed or erased). A message leaves the cursor at the
  beginning of a later row (`Moved`), so that whichever of register and variable each
  use reads, the place is one of the line's (`ReadWithin`).
* `Reach` is why erasing does not get in front of video memory: before the screen
  has scrolled, the cursor stands as many cells behind its beginning as there are
  characters to erase, with one to spare for each row the line can take. Below
  that row there is room for a whole line (`Erasable`).
* `OnRow` carries `ShownIsRead` from one character to the next: what is in the cells
  behind the prompt and how far the character being printed has got.

The assumptions are those of `Console`: sizes are positive and the screen has fewer
cells than an index has values; what is typed is visible; prompt and message are
visible characters of at most one row; only the backspace key goes to the left; the
longest line fits above the last row, and the prompt has two characters more than
that line has rows. The code has 80 columns, 25 rows, a buffer of 255 and a prompt
of 9 characters.

**`ExceptionsProofs`**, for every depth of the stack, set of exceptions and error
codes, and number of non-maskable interrupts: both properties of the run
`exceptions`, `MainKept` (`MainIntact`) and `ReportSafe` (`ReportShown`). `Layout`
reads the stack as a sequence of words: each return address on it belongs to a
context - the kernel's own code, or a handler at one of its instructions - and what
lies below it is what the rest of that context pops. A handler either finds the
frame it returns through or has an error code in the way, through which nothing
returns: its `iret` faults or goes wild, and nothing is claimed after that. `Calm` says that no return address
leads to a handler that stops the machine, or to that of general protection faults,
which returns nowhere, so that nothing gets from an exception of `Fatal` back to the
kernel. `Fatal` says what the handlers do; the breakpoint's comment says
otherwise (section 4), and of a breakpoint nothing is claimed but that stack and
registers are kept. `Reporting` follows the order of the message: what
such a handler has printed so far names the exception that came last, and no other
report can be put in its place. `Pushed`, `Behind` and `TakeStep` are the facts
about words put in front of a sequence that the lemmas on instructions share.

Model-checked only: the safety properties of `Library` (`StringsAgree`,
`NumeralsAgree`, `KeysTyped`). The first two say what folds, `SelectSeq` and other
operators of the community modules on sequences compute for every input; that takes
an induction which the library states with an operator for a parameter, and the
prover cannot instantiate it. The last is about one table, and the run has every
scancode. Liveness (`EventuallyDelivered`, `TicksTaken`, `CallsReturn`,
`HandlersEnd`, `BootEnds`) stays with TLC, since fairness and ENABLED are out of the
prover's reach.

## 6. What is not modelled

* `Interrupts` leaves out the functions of `pic.c` that nothing calls, and the
  reload value of the timer. `Console` leaves out colours and the hardware
  cursor, which no control depends on.
* The modules meet through abstract specifications (`FramePool`, `HeapBreak`) or
  through what they assume of each other, not in one composed specification:
  `KAlloc` lets `kspace_sbrk` fail at any time, `Startup` lets each initialiser
  fail, and `Console` takes the buffer of a command from nowhere. One specification
  of all of them would have too many states for TLC and would say no more about
  any of the properties. After a `kspace_sbrk` that failed half-way the
  heap is outside `HeapBreak`; what later calls return is in `KSpace`, and what
  `kernel_alloc` makes of it is not modelled.
* What memory that is written by mistake does to the machine - the memory behind
  the bitmap, block 0, the row behind the screen, the entries behind the device
  table - is part of the models as far as the place that is written; what other
  code then reads there is not.
* The bit layout of GDT and IDT entries, port programming sequences and the text
  of messages are data without a state to get wrong over time; the boot assembly
  and the C library's stubs are straight-line code; `i386_memory.c` is not built;
  the headers for processes and file systems have no implementation; build
  scripts are not part of the running system.
