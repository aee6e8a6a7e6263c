-------------------------------- MODULE LibC --------------------------------
(***************************************************************************)
(* The C library, libc/: strings, numbers and printf, as functions of what *)
(* the memory holds.                                                       *)
(*                                                                         *)
(* A pointer to a string is the sequence of the bytes from there on, which *)
(* goes on behind the terminator: some of these functions look there.      *)
(***************************************************************************)
EXTENDS Integers, Sequences, SequencesExt

CONSTANTS
  LongSpace    \* values of a long (2^32)

ASSUME LongAssumption == LongSpace \in Nat /\ LongSpace > 72 /\ LongSpace % 2 = 0

NUL == 0
TABCHAR == 9
LF == 10
SPACE == 32
PERCENT == 37
PLUS == 43
MINUS == 45
ZERO == 48

LONG_MAX == LongSpace \div 2 - 1
LONG_MIN == -LONG_MAX - 1
Wrapped(x) == ((x - LONG_MIN) % LongSpace) + LONG_MIN
signed_char(byte) == IF byte < 128 THEN byte ELSE byte - 256

(* The string that starts here, without its terminator; and a string that  *)
(* is followed by nothing else.                                            *)
StringOf(s) == SubSeq(s, 1, SelectInSeq(s, LAMBDA c : c = NUL) - 1)
Terminated(text) == Append(text, NUL)

-----------------------------------------------------------------------------
(* ctype.c; a tab and a space are white space.                             *)
isdigit(c) == c \in ZERO .. ZERO + 9
isupper(c) == c \in 65 .. 90
isalpha(c) == isupper(c) \/ c \in 97 .. 122
isalnum(c) == isdigit(c) \/ isalpha(c)
isspace(c) == c \in {SPACE, TABCHAR}

(* The loop has passed the terminator when it ends.                        *)
strlen(s) == SelectInSeq(s, LAMBDA c : c = NUL)

(* The strings differ at i, or s ends there.                               *)
StopsAt(s, t, i) == s[i] # t[i] \/ s[i] = NUL
FirstStop(s, t) ==
  CHOOSE i \in DOMAIN s : StopsAt(s, t, i) /\ \A j \in 1 .. i - 1 : ~StopsAt(s, t, j)

strcmp(s, t) ==
  LET i == FirstStop(s, t) IN signed_char(s[i]) - signed_char(t[i])

(* Mutant: the last of the characters is not compared.                     *)
strncmpShort(s, t, len) == IF FirstStop(s, t) >= len THEN 0 ELSE strcmp(s, t)

strncmp(s, t, len) == IF FirstStop(s, t) > len THEN 0 ELSE strcmp(s, t)

(* The difference is that of the bytes behind the first that differ.       *)
memcmp(s, t, n) ==
  LET differ == {i \in 1 .. n : s[i] # t[i]}
      i == CHOOSE i \in differ : \A j \in differ : i <= j
  IN IF differ = {} THEN 0 ELSE s[i + 1] - t[i + 1]

(* What the functions that write make of the memory at dst.                *)
strncpy(dst, src, bytes) ==
  LET text == StringOf(src)
  IN [k \in DOMAIN dst |->
        IF k > bytes THEN dst[k] ELSE IF k <= Len(text) THEN text[k] ELSE NUL]

strcpy(dst, src) == strncpy(dst, src, strlen(src))

(* Every turn writes to the same byte.                                     *)
memset(dst, val, n) == IF n = 0 THEN dst ELSE [dst EXCEPT ![1] = val % 256]

(* Mutant: from the end.                                                   *)
memcpyBackwards(mem, dst, src, n) ==
  FoldLeft(LAMBDA m, i : [m EXCEPT ![dst + n - i] = m[src + n - i]],
           mem, [i \in 1 .. n |-> i])

(* memcpy from mem[src] to mem[dst], byte by byte.                         *)
memcpy(mem, dst, src, n) ==
  FoldLeft(LAMBDA m, i : [m EXCEPT ![dst + i] = m[src + i]],
           mem, [i \in 1 .. n |-> i - 1])

-----------------------------------------------------------------------------
lettermap(d) == IF d < 10 THEN ZERO + d ELSE 97 + d - 10

(* The digits of num, the last one first, as itoa_s puts them in `buffer'. *)
buffer(num, base) ==
  LET Quotient[k \in Nat] == IF k = 0 THEN num ELSE Quotient[k - 1] \div base
      length == CHOOSE k \in 1 .. LongSpace :
                  Quotient[k] = 0 /\ \A j \in 0 .. k - 1 : Quotient[j] # 0
  IN [k \in 1 .. length |-> lettermap(Quotient[k - 1] % base)]

(* Mutant: the digits are not turned around.                               *)
itoa_sReversed(num, base) ==
  IF num = 0 \/ base > 16 THEN <<ZERO, NUL>>
  ELSE Terminated(buffer(num, base))

itoa_s(num, base) ==
  IF num = 0 \/ base > 16 THEN <<ZERO, NUL>>
  ELSE Terminated(Reverse(buffer(num, base)))

(* strtol.  `at' counts the characters before the one that is looked at.   *)
Digit(c) == IF isdigit(c) THEN c - ZERO ELSE IF isupper(c) THEN c - 55 ELSE c - 87

(* The white space, and the character behind it.                           *)
SkipSpace(s) ==
  IF isspace(s[1]) THEN SelectInSeq(s, LAMBDA c : ~isspace(c)) ELSE 0

(* "0x" is never found: *numstr+1 is '1'.                                  *)
Prefix(s, at, base) == IF base = 0 /\ s[at + 1] = 79 THEN 8 ELSE base

(* One turn of the loop over the digits.                                   *)
Accumulate(st, c, base, limit) ==
  IF st.done \/ ~isalnum(c) \/ Digit(c) >= base THEN [st EXCEPT !.done = TRUE]
  ELSE IF \/ st.any < 0
          \/ st.retval > limit \div base
          \/ st.retval = limit \div base /\ Digit(c) > limit % base
  THEN [st EXCEPT !.any = -1, !.at = @ + 1]
  ELSE [st EXCEPT !.any = 1, !.at = @ + 1, !.retval = Wrapped(@ * base + Digit(c))]

(* The result: the value, endptr and whether errno is ERANGE.              *)
strtol(s, base) ==
  LET start == SkipSpace(s)
      negative == s[start + 1] = MINUS
      signed == IF s[start + 1] \in {MINUS, PLUS} THEN start + 1 ELSE start
      radix == Prefix(s, signed, base)
      first == IF radix # base THEN signed + 1 ELSE signed
      limit == IF negative THEN LONG_MAX + 1 ELSE LONG_MAX
      st == FoldLeft(LAMBDA r, c : Accumulate(r, c, radix, limit),
                     [retval |-> 0, any |-> 0, at |-> first, done |-> FALSE],
                     SubSeq(s, first + 1, Len(s)))
      value == IF st.any >= 0 THEN st.retval ELSE IF negative THEN LONG_MIN ELSE LONG_MAX
  IN IF base # 0 /\ base \notin 2 .. 36
     THEN [value |-> 0, endptr |-> "unset", range |-> TRUE, fault |-> FALSE]
     ELSE IF radix = 0   \* a division by zero
     THEN [value |-> 0, endptr |-> "unset", range |-> FALSE, fault |-> TRUE]
     ELSE [value |-> Wrapped(IF negative THEN -value ELSE value),
           endptr |-> IF st.any # 0 THEN st.at - 1 ELSE 0,
           range |-> st.any < 0, fault |-> FALSE]

-----------------------------------------------------------------------------
(* printf and terminal_printf: what goes to the screen.  A number is       *)
(* followed by its terminator, which strlen has counted.  An argument is a *)
(* word, `word', or a pointer to a string, `string'.                       *)
Number(arg, base) == SubSeq(itoa_s(arg, base), 1, strlen(itoa_s(arg, base)))

Convert(c, arg) ==
  CASE c \in {100, 105} -> Number(arg.word, 10)       \* d, i
    [] c = 98 -> Number(arg.word, 2)                  \* b
    [] c \in {88, 120} -> Number(arg.word, 16)        \* X, x
    [] c = 115 -> StringOf(arg.string)           \* s
    [] c = 99 -> <<arg.word % 256>>              \* c
    [] OTHER -> <<c>>
NoArgument == [word |-> 0, string |-> <<NUL>>]
Consumes(c) == c \in {100, 105, 98, 88, 120, 115, 99}

(* The loop, character by character.  Behind a '%' even the terminator is  *)
(* a conversion, and the loop goes on behind it.                           *)
PrintfTurn(st, c) ==
  IF st.done THEN st
  ELSE IF st.percent
  THEN [st EXCEPT !.percent = FALSE,
                  !.out = @ \o Convert(c, IF st.args = <<>> THEN NoArgument ELSE Head(st.args)),
                  !.args = IF Consumes(c) /\ @ # <<>> THEN Tail(@) ELSE @]
  ELSE IF c = NUL THEN [st EXCEPT !.done = TRUE]
  ELSE IF c = PERCENT THEN [st EXCEPT !.percent = TRUE]
  ELSE [st EXCEPT !.out = Append(@, c)]

printf(format, args) ==
  FoldLeft(PrintfTurn,
           [out |-> <<>>, args |-> args, percent |-> FALSE, done |-> FALSE],
           format).out

puts(s) == [out |-> Append(StringOf(s), LF), returns |-> Len(StringOf(s)) + 1]
=============================================================================
