------------------------------ MODULE Library ------------------------------
(***************************************************************************)
(* Calls of the pure functions of LibC and Keymap, one after the other,    *)
(* with any arguments from small sets.  `call' is the last one: the        *)
(* function, its arguments, and what it has returned or has made of the    *)
(* memory it was given.                                                    *)
(***************************************************************************)
EXTENDS LibC, Keymap, FiniteSets

CONSTANTS
  Strings,    \* memory that holds a string, and what follows it
  Lengths,    \* for the functions that take one
  Memory,     \* the memory that memcpy, strcpy and memset write to
  Numerals,   \* what strtol is given: strings
  Bases,
  Formats     \* what printf is given: formats with their arguments

ASSUME LibraryAssumption ==
  /\ \A s \in Strings \union Numerals :
       SelectInSeq(s, LAMBDA c : c = NUL) \in 1 .. Len(s) - 1
  /\ Lengths \subseteq Nat /\ Bases \subseteq Nat

VARIABLE call

Idle == <<"none">>
Call(f, args, returns) == call' = <<f, args, returns>>

LibraryInit == call = Idle

CallStrncmp(s, t, n) ==
  Call("strncmp", <<s, t, n>>, [strncmp |-> strncmp(s, t, n), strcmp |-> strcmp(s, t)])
CallMemcmp(s, t, n) == Call("memcmp", <<s, t, n>>, memcmp(s, t, n))
CallStrcpy(s) == Call("strcpy", <<s>>, strcpy(Memory, s))
CallStrncpy(s, n) == Call("strncpy", <<s, n>>, strncpy(Memory, s, n))
CallMemcpy(dst, src, n) ==
  /\ dst + n <= Len(Memory) + 1 /\ src + n <= Len(Memory) + 1
  /\ Call("memcpy", <<dst, src, n>>, memcpy(Memory, dst, src, n))
CallMemset(c, n) == Call("memset", <<c, n>>, memset(Memory, c, n))
CallItoa(num, base) == Call("itoa_s", <<num, base>>, itoa_s(num, base))
CallStrtol(s, base) == Call("strtol", <<s, base>>, strtol(s, base))
CallPrintf(f) == Call("printf", <<f>>, printf(f.format, f.args))
CallPuts(s) == Call("puts", <<s>>, puts(s))
CallEnqueue(scancode, shift) ==
  Call("enqueue", <<scancode, shift>>, Enqueued(scancode, shift))

Return == call # Idle /\ call' = Idle

LibraryNext ==
  \/ Return
  \/ /\ call = Idle
     /\ \/ \E s, t \in Strings, n \in Lengths : CallStrncmp(s, t, n) \/ CallMemcmp(s, t, n)
        \/ \E s \in Strings : CallStrcpy(s) \/ CallPuts(s)
        \/ \E s \in Strings, n \in Lengths : CallStrncpy(s, n)
        \/ \E dst, src \in DOMAIN Memory, n \in Lengths : CallMemcpy(dst, src, n)
        \/ \E c \in 0 .. 255, n \in Lengths : CallMemset(c, n)
        \/ \E num \in 0 .. LongSpace - 1, base \in Bases \intersect 2 .. 17 :
             CallItoa(num, base)
        \/ \E s \in Numerals, base \in Bases : CallStrtol(s, base)
        \/ \E f \in Formats : CallPrintf(f)
        \/ \E scancode \in 0 .. 255, shift \in BOOLEAN : CallEnqueue(scancode, shift)

-----------------------------------------------------------------------------
(* What the functions promise, said another way.                           *)
Written(mem, at, bytes) ==
  [k \in DOMAIN mem |-> IF k \in at .. at + Len(bytes) - 1 THEN bytes[k - at + 1]
                        ELSE mem[k]]
Padded(text, n) == [k \in 1 .. n |-> IF k <= Len(text) THEN text[k] ELSE NUL]
AtMost(text, n) == SubSeq(text, 1, IF Len(text) < n THEN Len(text) ELSE n)

(* In the order of dictionaries, where characters are signed and a string  *)
(* ends with 0.                                                            *)
Before(text1, text2) ==
  LET s == Terminated(text1)
      t == Terminated(text2)
  IN \E i \in DOMAIN s \intersect DOMAIN t :
        /\ SubSeq(s, 1, i - 1) = SubSeq(t, 1, i - 1)
        /\ signed_char(s[i]) < signed_char(t[i])
Compares(result, text1, text2) ==
  /\ result = 0 <=> text1 = text2
  /\ result < 0 <=> Before(text1, text2)

(* strcmp and strncmp compare strings, strcpy copies one with its          *)
(* terminator and writes nothing behind it, and so does strncpy, padding   *)
(* or cutting it.  memcpy moves a block, unless it moves it up over        *)
(* itself.                                                                 *)
(*                                                                         *)
(* Three functions do not do what their comments say, and of them the      *)
(* property asks less: memset.c:11 has memset fill n bytes, and it writes  *)
(* the first only, so that only this one and what lies behind the n bytes  *)
(* are looked at; memcmp.c:13 has memcmp return the order of two blocks,   *)
(* and it returns that of the bytes behind the difference, so that only    *)
(* equal blocks are; strlen.c:11 has strlen return the length of a string, *)
(* and it returns one more, on which strcpy depends.                       *)
StringsAgree ==
  LET args == call[2]
      result == call[3]
  IN CASE call[1] = "strncmp" ->
            LET s == StringOf(args[1])
                t == StringOf(args[2])
            IN /\ Compares(result.strcmp, s, t)
               /\ Compares(result.strncmp, AtMost(s, args[3]), AtMost(t, args[3]))
       [] call[1] = "memcmp" ->
            AtMost(args[1], args[3]) = AtMost(args[2], args[3]) => result = 0
       [] call[1] = "strcpy" ->
            result = Written(Memory, 1, Terminated(StringOf(args[1])))
       [] call[1] = "strncpy" ->
            result = Written(Memory, 1, Padded(StringOf(args[1]), args[2]))
       [] call[1] = "memcpy" ->
            args[1] \notin args[2] + 1 .. args[2] + args[3] - 1 =>
              result = Written(Memory, args[1],
                               SubSeq(Memory, args[2], args[2] + args[3] - 1))
       [] call[1] = "memset" ->
            /\ args[2] > 0 => result[1] = args[1]
            /\ \A k \in DOMAIN Memory : k > args[2] => result[k] = Memory[k]
       [] call[1] = "puts" ->
            /\ result.returns = Len(result.out)
            /\ result.out = Append(StringOf(args[1]), LF)
       [] OTHER -> TRUE

(* The number that digits stand for, without a limit.                      *)
Value(digits, base) == FoldLeft(LAMBDA v, c : v * base + Digit(c), 0, digits)
IsDigit(c, base) == isalnum(c) /\ Digit(c) < base
LeadingDigits(text, base) ==
  LET ends == SelectInSeq(text, LAMBDA c : ~IsDigit(c, base))
  IN IF ends = 0 THEN text ELSE SubSeq(text, 1, ends - 1)

Unsigned(text) ==
  IF text # <<>> /\ Head(text) \in {MINUS, PLUS} THEN Tail(text) ELSE text
Prefixed(text, base) ==
  /\ base = 16 /\ Len(text) >= 3
  /\ text[1] = ZERO /\ text[2] = 120 /\ IsDigit(text[3], base)

(* strtol as the standard has it, but for endptr, which points at the last *)
(* digit and not behind it.                                                *)
Read(text, base) ==
  LET number == Unsigned(text)
      negative == text # <<>> /\ Head(text) = MINUS
      digits == LeadingDigits(IF Prefixed(number, base) THEN SubSeq(number, 3, Len(number))
                              ELSE number, base)
      value == IF negative THEN -Value(digits, base) ELSE Value(digits, base)
  IN [value |-> IF value > LONG_MAX THEN LONG_MAX
                ELSE IF value < LONG_MIN THEN LONG_MIN ELSE value,
      endptr |-> IF digits = <<>> THEN 0
                 ELSE Len(digits) - 1 + Len(text) - Len(number)
                        + (IF Prefixed(number, base) THEN 2 ELSE 0),
      range |-> value \notin LONG_MIN .. LONG_MAX,
      fault |-> FALSE]

(* strtol is right unless the string begins with white space (it skips a   *)
(* character behind it), the base is 0 (it divides by it), the base is 16  *)
(* and the number has the prefix "0x" (it reads 0), or the number begins   *)
(* with the digits of LONG_MIN (after which it does not notice that there  *)
(* are too many).                                                          *)
ReadsRight(text, base) ==
  /\ base \in 2 .. 36
  /\ text # <<>> => ~isspace(Head(text))
  /\ ~Prefixed(Unsigned(text), base)
  /\ ~\E k \in 2 .. Len(text) - 1 :
        Head(text) = MINUS /\ Value(SubSeq(text, 2, k), base) = LONG_MAX + 1

(* itoa_s writes the numeral of a number, in bases up to 16, and strtol    *)
(* reads it back; what printf shows, without the NUL that it prints behind *)
(* every number, is the text with its arguments in their places, if it     *)
(* does not end in a '%'.                                                  *)
NumeralsAgree ==
  LET args == call[2]
      result == call[3]
  IN CASE call[1] = "itoa_s" /\ args[2] <= 16 ->
            LET text == StringOf(result)
            IN /\ Value(text, args[2]) = args[1]
               /\ Head(text) = ZERO => text = <<ZERO>>
               /\ \A k \in DOMAIN text : IsDigit(text[k], args[2])
               /\ args[1] <= LONG_MAX => strtol(Terminated(text), args[2]).value = args[1]
       [] call[1] = "strtol" ->
            ReadsRight(StringOf(args[1]), args[2]) =>
              result = Read(StringOf(args[1]), args[2])
       [] call[1] = "printf" ->
            Last(StringOf(args[1].format)) # PERCENT =>
              SelectSeq(result, LAMBDA c : c # NUL) = args[1].shows
       [] OTHER -> TRUE

(* The keys of the typewriter part of the keyboard, and those of the whole *)
(* keymap that have the entry that is meant for them.  Six entries are     *)
(* missing behind that of 0x49, and the comments of the nine that follow,  *)
(* ps2_keyb.c:106-114, have them at 0x50 to 0x58 where they are not: 0x4a  *)
(* types a '2', 0x51 and 0x52 are F11 and F12, and 0x53 to 0x58 find       *)
(* whatever lies behind the table.                                         *)
Typewriter == 0 .. 57 \ {55}
Misplaced == 74 .. 88
Placed == 0 .. 88 \ Misplaced

Printable == 32 .. 126
Typed(scancode, shift) == Enqueued(scancode + 128, shift).queued
TypedBy(c) == {key \in Typewriter \X BOOLEAN : Typed(key[1], key[2]) = c}
EveryCharacterTyped == \A c \in Printable : TypedBy(c) # {}

(* Every character can be typed, in one way only, but for the space, which *)
(* needs no shift; a letter with shift is its capital; a key of the        *)
(* function keys or the keypad needs no shift and types nothing that no    *)
(* other key types.  The keys without a character put no character, and no *)
(* end of line, into the line, and of those only the tab key puts a NUL    *)
(* there.  Nothing is queued twice: pressing a key queues nothing.  (Not   *)
(* for the keys that have another's entry, or none, because six entries    *)
(* are missing; nor for codes of no key, and the prefix 0xe0, which index  *)
(* the memory behind the keymap.)                                          *)
KeysTyped ==
  call[1] = "enqueue" =>
    LET scancode == call[2][1]
        index == scancode % 128
        key == call[3].queued
    IN /\ scancode < 128 => key = Nothing
       /\ index \in Typewriter /\ key \in Printable \ {32} =>
            TypedBy(key) = {<<index, call[2][2]>>}
       /\ index \in Typewriter /\ Typed(index, FALSE) \in 97 .. 122 =>
            Typed(index, TRUE) = Typed(index, FALSE) - 32
       /\ index \in Placed \ Typewriter =>
            /\ Typed(index, TRUE) = Typed(index, FALSE)
            /\ key \in Printable => TypedBy(key) # {}
       /\ index < Len(lowercase) /\ key >= 256 =>
            /\ Byte(key) \notin Printable \union {KEY_RETURN}
            /\ Byte(key) = NUL => key = KEY_TAB
       /\ EveryCharacterTyped
=============================================================================
