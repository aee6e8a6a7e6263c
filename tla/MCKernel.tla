------------------------------ MODULE MCKernel ------------------------------
(* Multiboot 1 with maps of up to three entries, with and without the      *)
(* flags.  Multiboot 2 with five or six tags in many orders, so that the   *)
(* walk over the tags begins at a tag, inside one, or behind what it looks *)
(* for, and finds data that it takes for a tag.                            *)
(*                                                                         *)
(* A long of 8 bits; strings of up to two characters, one of which is      *)
(* negative as a char; numerals of up to four of the characters that       *)
(* strtol treats differently.                                              *)
EXTENDS Kernel

W(l, h) == [lo |-> l, hi |-> h]
E(b, l, t) == [base |-> b, len |-> l, type |-> t]
Low == E(0, 654336, 1)
Rom == E(983040, 65536, 2)
High == E(1048576, 1048576, 1)
Acpi == E(2097152, 4096, 3)
Maps == {<<>>, <<Low>>, <<Low, Rom, High>>, <<Low, Rom, Acpi>>}
BothFlags == {"MEMSZ_PRESENT", "MMAP_PRESENT"}

Loader1(flags, size, entries, after) ==
  [magic |-> MULTIBOOT_MAGIC, flags |-> flags, kb |-> size, map |-> Append(entries, after),
   words |-> <<>>, entries |-> entries, tags |-> {}]
Loaders1 ==
  {Loader1(flags, size, entries, after) :
     flags \in SUBSET BothFlags, size \in {0, 3, 1024, 4194304, 4194307, 4194400},
     entries \in Maps, after \in {Low, Rom}}

(* The tags, as words: a text ends with a word that has a few characters.  *)
CmdLine == <<W(1, 16), W(29541, 0)>>
MidCmdLine == <<W(1, 24), W(1819242339, 1701667182), W(116, 0)>>
LongCmdLine == <<W(1, 32), W(1819242339, 1701667182), W(1635017060, 1701667182), W(116, 0)>>
Name == <<W(2, 18), W(1112888903, 842018336), W(48, 0)>>
Memsz == <<W(4, 16), W(640, 384)>>
BootDev == <<W(5, 20), W(128, 0), W(0, 0)>>
Elf(shndx) == <<W(9, 20), W(6, 40), W(shndx, 0)>>
Mmap == <<W(6, 16 + 24 * 2), W(24, 0),
          W(0, 0), W(654336, 0), W(1, 0), W(983040, 0), W(65536, 0), W(2, 0)>>
MmapEntries == <<Low, Rom>>

StartOf(seq, i) ==
  HeaderWords + FoldLeft(LAMBDA n, t : n + Len(t), 0, SubSeq(seq, 1, i - 1))
Loader2(seq, size, entries) ==
  LET end == StartOf(seq, Len(seq) + 1)
  IN [magic |-> MULTIBOOT2_MAGIC, flags |-> {}, kb |-> size, map |-> <<>>,
      words |-> <<W(8 * (end + 1), 0)>> \o FlattenSeq(seq) \o <<W(0, 8)>>,
      entries |-> entries,
      tags |-> {StartOf(seq, i) : i \in DOMAIN seq} \union {end}]
Loaders2 ==
  {Loader2(<<cmdline, Name>> \o seq, 1024, MmapEntries) :
     cmdline \in {CmdLine, MidCmdLine, LongCmdLine},
     seq \in UNION {SetToSeqs({Memsz, Mmap, BootDev, Elf(n)}) : n \in {0, 5}}}
  \union {Loader2(seq, 1024, MmapEntries) :
            seq \in SetToSeqs({CmdLine, MidCmdLine, Name, Memsz, Mmap})}
  \union {Loader2(<<LongCmdLine, Name, Memsz>>, 1024, <<>>),
           Loader2(<<LongCmdLine, Name, Mmap>>, 0, MmapEntries)}

MCLoaders == Loaders1 \union Loaders2
  \union {[magic |-> "other", flags |-> {}, kb |-> 0, map |-> <<>>, words |-> <<>>,
           entries |-> <<>>, tags |-> {}]}

MCDeviceLoaders == {Loader1(BothFlags, 1024, <<Low, Rom, High>>, Rom)}

MCFirmwares ==
  {<<"none", "valid">>, <<"valid", "corrupt">>, <<"corrupt", "valid">>, <<"none", "none">>}

MCNames == {[k \in 1 .. n |-> 97] \o <<NUL, 98, 98, 98, 98, 98, 98, 98>> : n \in {2, 4, 5}}
MCTty0 == [id |-> "tty", read |-> TRUE, write |-> TRUE]
MCDrivers == {MCTty0, [id |-> "reader", read |-> TRUE, write |-> FALSE]}

-----------------------------------------------------------------------------
Behind == <<98, 97, 98, 97>>
MCStrings == {text \o <<NUL>> \o Behind : text \in BoundedSeq({97, 98, 200}, 2)}
MCMemory == <<1, 2, 3, 4, 5, 6>>
MCNumerals ==
  {text \o <<NUL>> \o Behind :
     text \in BoundedSeq({ZERO, ZERO + 1, ZERO + 8, 102, 120, MINUS, SPACE, 79}, 4)}

NumberArg(n) == <<[word |-> n, string |-> <<NUL>>]>>
PointerArg(s) == <<[word |-> 0, string |-> s]>>
Piece(text, args, shows) == [text |-> text, args |-> args, shows |-> shows]
LonePercent == Piece(<<PERCENT>>, <<>>, <<PERCENT>>)
Conversion(c, base, n) == Piece(<<PERCENT, c>>, NumberArg(n), StringOf(itoa_s(n, base)))
Pieces ==
  {Conversion(c, 10, n) : c \in {100, 105}, n \in {0, 107}}
  \union {Conversion(98, 2, n) : n \in {0, 107}}
  \union {Conversion(c, 16, 107) : c \in {88, 120}}
  \union {Piece(<<PERCENT, 115>>, PointerArg(s), StringOf(s)) :
            s \in {<<NUL>>, <<97, PERCENT, NUL>>}}
  \union {Piece(<<PERCENT, 99>>, NumberArg(97), <<97>>),
          Piece(<<PERCENT, PERCENT>>, <<>>, <<PERCENT>>),
          Piece(<<97>>, <<>>, <<97>>), LonePercent}
MCFormats ==
  {[format |-> p.text \o q.text \o <<NUL>> \o Behind,
    args |-> p.args \o q.args,
    shows |-> p.shows \o q.shows] : p \in Pieces \ {LonePercent}, q \in Pieces}

MCLibraryStarts == {<<l, <<"none", "valid">>>> : l \in MCDeviceLoaders}
=============================================================================
