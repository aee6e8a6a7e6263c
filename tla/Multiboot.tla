----------------------------- MODULE Multiboot -----------------------------
(***************************************************************************)
(* What the boot loader leaves in memory, and how kernel/etc/multiboot.c   *)
(* reads it.                                                               *)
(*                                                                         *)
(* Multiboot 2 information is a sequence of 8-byte words, each two 32-bit  *)
(* numbers, lo and hi.  Every tag begins at a word, of which hi is its     *)
(* size and the lower half of lo its type.  For multiboot 1, `map' is the  *)
(* memory from mmap_addr on, in entries of 24 bytes with sz = 20, and has  *)
(* one more than the loader has written.                                   *)
(***************************************************************************)
EXTENDS Integers, Sequences, SequencesExt

MULTIBOOT_MAGIC == "0x2badb002"
MULTIBOOT2_MAGIC == "0x36d76289"
MBOOT2_TYPETAG_END == 0
MBOOT2_TYPETAG_MEMSZ == 4
MBOOT2_TYPETAG_MMAP == 6

HeaderWords == 1    \* total size and a reserved word
FirstTag == 8       \* mb2_start+8: eight tags, not eight bytes
TagMmapWords == 2   \* multiboot2_tag_mmap
EntryWords == 3     \* multiboot2_entry_mmap, 24 bytes

(* The loader's information:                                               *)
(*   magic     what it passes to the kernel                                *)
(*   flags     of MEMSZ_PRESENT and MMAP_PRESENT those that are set        *)
(*   kb        memorySzLo + memorySzHi                                     *)
(*   map       as above                                                    *)
(*   words     the multiboot 2 information, from word 0 on                 *)
(*   entries   what it says: the entries of its memory map                 *)
(*   tags      and the words at which its tags begin                       *)

(* A word behind the information is 0.                                     *)
Word(loader, i) ==
  IF i + 1 \in DOMAIN loader.words THEN loader.words[i + 1] ELSE [lo |-> 0, hi |-> 0]

TagType(loader, i) == Word(loader, i).lo % 65536
TagSize(loader, i) == Word(loader, i).hi

(* Mutant: the size is not rounded up.                                     *)
NextTagDown(loader, i) == i + TagSize(loader, i) \div 8

(* The size is rounded up to words.                                        *)
NextTag(loader, i) == i + (TagSize(loader, i) + 7) \div 8

(* The tag at i says how much memory there is, in KB.                      *)
MemorySize(loader, i) == Word(loader, i + 1).lo + Word(loader, i + 1).hi

(* Mutant: the entries begin where the tag does.                           *)
EntryAtTag(loader, i, k) ==
  LET at == i + EntryWords * k
  IN [base |-> Word(loader, at).lo, len |-> Word(loader, at + 1).lo,
      type |-> Word(loader, at + 2).lo]

(* The entries that the tag at i is taken to have, and one of them.        *)
EntrySize(loader, i) == Word(loader, i + 1).lo
EntryCount(loader, i) == (TagSize(loader, i) - 8 * TagMmapWords) \div EntrySize(loader, i)
EntryAt(loader, i, k) ==
  LET at == i + TagMmapWords + EntryWords * k
  IN [base |-> Word(loader, at).lo, len |-> Word(loader, at + 1).lo,
      type |-> Word(loader, at + 2).lo]

(* A loader keeps to its format: a map in front of what lies behind it; or *)
(* tags of which each but the last is followed by one at the first word    *)
(* behind it, and a map with entries of 24 bytes.                          *)
Entry == [base : Nat, len : Nat, type : Nat]
Follows(loader, i, j) == 8 * i + TagSize(loader, i) \in 8 * (j - 1) + 1 .. 8 * j
WellFormed(loader) ==
  /\ loader.entries \in Seq(Entry)
  /\ \A i \in DOMAIN loader.words :
       loader.words[i].lo \in Nat /\ loader.words[i].hi \in Nat
  /\ loader.magic = MULTIBOOT_MAGIC =>
       /\ loader.map \in Seq(Entry) /\ Len(loader.map) = Len(loader.entries) + 1
       /\ \A i \in DOMAIN loader.entries : loader.map[i] = loader.entries[i]
  /\ loader.tags \subseteq Nat
  /\ \A i \in loader.tags :
       /\ TagType(loader, i) # MBOOT2_TYPETAG_END =>
            \E j \in loader.tags : Follows(loader, i, j)
       /\ TagType(loader, i) = MBOOT2_TYPETAG_MMAP =>
            /\ TagSize(loader, i) = 16 + 24 * Len(loader.entries)
            /\ Word(loader, i + 1).lo = 24
            /\ \A k \in DOMAIN loader.entries :
                 /\ Word(loader, i + 3 * k - 1).lo = loader.entries[k].base
                 /\ Word(loader, i + 3 * k).lo = loader.entries[k].len
                 /\ Word(loader, i + 3 * k + 1).lo = loader.entries[k].type

-----------------------------------------------------------------------------
(* The state of the reader: the tag of the memory map, and the cursor.     *)
NoTag == -1

(* multiboot_next_mmap: its first entry is the one behind the first.       *)
NextEntry1(loader, cur) ==
  IF cur < Len(loader.map) - 1 THEN <<loader.map[cur + 2]>> ELSE <<>>

(* mboot2_next_mmap.                                                       *)
NextEntry2(loader, tag, cur) ==
  IF cur < EntryCount(loader, tag) THEN <<EntryAt(loader, tag, cur)>> ELSE <<>>

(* multiboot_get_mmap_next: an entry or none.                              *)
NextEntry(loader, tag, cur) ==
  IF loader.magic = MULTIBOOT_MAGIC THEN NextEntry1(loader, cur)
  ELSE NextEntry2(loader, tag, cur)
=============================================================================
