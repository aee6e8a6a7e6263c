------------------------------ MODULE Console ------------------------------
(***************************************************************************)
(* The console: printing (arch/i386/vga_tty/tty.c), reading a line         *)
(* (kernel_tty_read) and the command line that uses both (kernel_main and  *)
(* kernel_command_line, kernel/kernel/kernel.c); and the default interrupt *)
(* handler, which prints on the same screen between any two steps of it.   *)
(*                                                                         *)
(* Keys come from ps2_keyb_getbyte, module Keyboard; here any key may come *)
(* next, of which KEY_TAB stands for the keys without a character.         *)
(* Colours are left out: no control depends on them.  memset is the one    *)
(* that the compiler expands (module LibC has that of the library).        *)
(***************************************************************************)
EXTENDS Integers, Sequences, SequencesExt

CONSTANTS
  VGA_VIDEO_ROWS, VGA_VIDEO_COLUMNS, VGA_TABSIZE,  \* 25, 80, 4
  IndexSpace,     \* values of a uint16_t (2^16)
  LEN,            \* length of the line buffer (255)
  Letters,        \* the visible characters that are typed
  PromptText,     \* what kernel_command_line prints first
  Builtins,       \* a sequence of commands: their names and what they print
  UnknownText,    \* what it prints when there is no such command
  Message,        \* what the default interrupt handler prints
  MessageAt       \* bound: where it does: values of pc and count

Blank == " "
CR == "return"
BS == "backspace"
TAB == "tab"
NUL == "NUL"
KEY_TAB == "KEY_TAB"   \* the key, whose code is 0x4000 and not that of TAB
LEFT == "left"         \* half of a backspace: the cursor moves to the left
CLEAR == "clear"       \* not printed: a call of terminal_clrscr
Control == {CR, BS, KEY_TAB}
Unwritten == "unwritten"

ASSUME ScreenAssumption ==
  /\ {VGA_VIDEO_ROWS, VGA_VIDEO_COLUMNS, VGA_TABSIZE, LEN} \subseteq Nat \ {0}
  /\ IndexSpace \in Nat /\ VGA_VIDEO_ROWS * VGA_VIDEO_COLUMNS < IndexSpace
  /\ Letters \intersect (Control \union {TAB, LEFT, CLEAR, Blank, NUL, Unwritten}) = {}

(* The rows that a line of LEN characters may take.                        *)
LineRows == (LEN + 2 + VGA_VIDEO_COLUMNS) \div VGA_VIDEO_COLUMNS

(* What is printed goes to the left for no other reason than a backspace   *)
(* key, the prompt and the message are visible characters of one row, and  *)
(* the longest line fits on the screen, above its last row.                *)
ASSUME TextAssumption ==
  /\ \A text \in {PromptText, Message} :
       /\ text \in Seq(Range(text)) /\ Len(text) <= VGA_VIDEO_COLUMNS
       /\ Range(text) \intersect {CR, BS, TAB, LEFT, CLEAR, KEY_TAB} = {}
  /\ Builtins \in Seq(Range(Builtins))
  /\ \A text \in {UnknownText} \union {builtin.prints : builtin \in Range(Builtins)} :
       text \in Seq(Range(text)) /\ Range(text) \intersect {BS, LEFT} = {}
  /\ LineRows <= VGA_VIDEO_ROWS - 1 /\ LineRows + 2 <= Len(PromptText)
  /\ LEN + 4 <= IndexSpace

VARIABLES
  screen,   \* _curX, _curY and video_memory
  printing, \* what is being printed, by whoever runs
  kernel,   \* what the kernel was printing when it was interrupted, or None
  buf,      \* the line buffer, with the byte before and the one behind it
  count,    \* characters read
  pc,       \* "prompt", "first", "more" (in kernel_tty_read), "execute"
  line,     \* history: the cell in which the line being read begins
  plain,    \* history: only letters and backspaces so far, on a single row
  broken    \* history: "no", "in" a line a message has come, and of such a
            \*   line some was "erased"

command == <<buf, count, pc, line>>
vars == <<screen, printing, kernel, command, plain, broken>>

-----------------------------------------------------------------------------
(* A screen is a record: the cursor, x and y, the cells of the screen, and *)
(* as a history `stray', the other places that were written.               *)
Cells == 0 .. VGA_VIDEO_ROWS * VGA_VIDEO_COLUMNS - 1
LastRow == VGA_VIDEO_ROWS - 1
Position(x, y) == y * VGA_VIDEO_COLUMNS + x
Here == Position(screen.x, screen.y)

(* Printing is a record: the characters, what is to be done next for the   *)
(* first of them, and the values of the cursor that the processor has in   *)
(* registers.  Every use of the cursor reads a register or the variable,   *)
(* as the compiler chose: they differ when a handler has printed.          *)
Output(text) == [todo |-> text, at |-> "load", x |-> 0, y |-> 0]
Finished == Output(<<>>)
None == [Finished EXCEPT !.at = "none"]

What == Head(printing.todo)
At(step) == printing.todo # <<>> /\ printing.at = step
XRead == {printing.x, screen.x}
YRead == {printing.y, screen.y}
Goto(step) == printing' = [printing EXCEPT !.at = step]
Done == printing' = Output(Tail(printing.todo))
Elsewhere == UNCHANGED <<kernel, command, plain, broken>>

(* What a key leaves in a character.                                       *)
Byte(key) == IF key = KEY_TAB THEN NUL ELSE key

(* terminal_printchar: which character is it?  '\n' does what '\r' does, a *)
(* backspace is three characters, and a tab is spaces.                     *)
Load ==
  /\ At("load")
  /\ LET Loaded(text, step) == [todo |-> text \o Tail(printing.todo), at |-> step,
                                x |-> screen.x, y |-> screen.y]
     IN printing' =
          CASE What = CR -> Loaded(<<CR>>, "return")
            [] What = LEFT -> Loaded(<<LEFT>>, "left")
            [] What = CLEAR -> Loaded(<<CLEAR>>, "clear")
            [] What = BS -> Output(<<LEFT, Blank, LEFT>> \o Tail(printing.todo))
            [] What = TAB -> Output([i \in 1 .. VGA_TABSIZE |-> Blank] \o Tail(printing.todo))
            [] OTHER -> Loaded(<<Byte(What)>>, "cell")
  /\ UNCHANGED screen /\ Elsewhere

(* A visible character.                                                    *)
PutCell ==
  /\ At("cell")
  /\ \E x \in XRead, y \in YRead :
       LET idx == Position(x, y) % IndexSpace
       IN screen' = IF idx \in Cells THEN [screen EXCEPT !.vm[idx] = What]
                    ELSE [screen EXCEPT !.stray = @ \union {idx}]
  /\ Goto("right") /\ Elsewhere

(* The cursor leaves the row only after one more character than the row    *)
(* has columns.                                                            *)
Right ==
  /\ At("right")
  /\ \E x \in XRead :
       IF x >= VGA_VIDEO_COLUMNS
       THEN screen' = [screen EXCEPT !.x = 0] /\ Goto("down")
       ELSE screen' = [screen EXCEPT !.x = x + 1] /\ Done
  /\ Elsewhere

Left ==
  /\ At("left")
  /\ \E x \in XRead : screen' = [screen EXCEPT !.x = x - 1]
  /\ Done /\ Elsewhere

(* A new row: _curX = 0, ...                                               *)
Return ==
  /\ At("return")
  /\ screen' = [screen EXCEPT !.x = 0]
  /\ Goto("down") /\ Elsewhere

(* ... _curY++, ...                                                        *)
Down ==
  /\ At("down")
  /\ \E y \in YRead :
       /\ screen' = [screen EXCEPT !.y = y + 1]
       /\ printing' = [printing EXCEPT !.at = "check", !.y = y + 1]
  /\ Elsewhere

(* Mutant: the cursor may be behind the screen.                            *)
CheckNoScroll ==
  /\ At("check")
  /\ Done
  /\ UNCHANGED screen /\ Elsewhere

(* ... if that is behind the last row, ...                                 *)
Check ==
  /\ At("check")
  /\ \E y \in YRead : IF y > LastRow THEN Goto("scroll") ELSE Done
  /\ UNCHANGED screen /\ Elsewhere

(* ... terminal_scroll, ...                                                *)
Scroll ==
  /\ At("scroll")
  /\ screen' = [screen EXCEPT !.vm =
       [i \in Cells |-> IF i < VGA_VIDEO_COLUMNS * LastRow
                        THEN screen.vm[i + VGA_VIDEO_COLUMNS] ELSE Blank]]
  /\ Goto("up") /\ Elsewhere

(* ... and _curY--.                                                        *)
Up ==
  /\ At("up")
  /\ \E y \in YRead : screen' = [screen EXCEPT !.y = y - 1]
  /\ Done /\ Elsewhere

(* terminal_clrscr: the cells, and then the cursor.                        *)
Clear ==
  /\ At("clear")
  /\ screen' = [screen EXCEPT !.vm = [i \in Cells |-> Blank]]
  /\ Goto("home") /\ Elsewhere

Home ==
  /\ At("home")
  /\ screen' = [screen EXCEPT !.x = 0, !.y = 0]
  /\ Done /\ Elsewhere

Printing == \/ Load \/ PutCell \/ Right \/ Left \/ Return \/ Down \/ Check
            \/ Scroll \/ Up \/ Clear \/ Home

(* An interrupt without a handler of its own, at any step of the kernel:   *)
(* i386_defaulthandler prints its message with terminal_puts ...           *)
DefaultHandler ==
  /\ kernel = None /\ broken = "no" /\ <<pc, count>> \in MessageAt
  /\ kernel' = printing
  /\ printing' = Output(Append(Message, CR))
  /\ broken' = "in"
  /\ plain' = FALSE
  /\ UNCHANGED <<screen, command>>

(* ... and returns.                                                        *)
Iret ==
  /\ kernel # None /\ printing = Finished
  /\ printing' = kernel
  /\ kernel' = None
  /\ UNCHANGED <<screen, command, plain, broken>>

-----------------------------------------------------------------------------
Init ==
  /\ screen = [x |-> 0, y |-> 0, vm |-> [i \in Cells |-> Blank], stray |-> {}]
  /\ printing = Finished /\ kernel = None
  /\ buf = [k \in -1 .. LEN |-> Unwritten]
  /\ count = 0
  /\ pc = "prompt"
  /\ line = 0 /\ plain = TRUE /\ broken = "no"

(* The kernel runs and has printed what it had to.                         *)
Kernel(at) ==
  pc = at /\ kernel = None /\ printing = Finished /\ UNCHANGED <<kernel, screen>>

Unfollowed == Kernel("prompt") /\ broken = "erased" /\ UNCHANGED vars

(* kernel_command_line: the prompt, and a cleared buffer from the heap,    *)
(* which is not given back.  (A bound: if in a line in which a message has *)
(* come something is erased, the rest of it is erased as well, and what    *)
(* comes after it is not looked at.)                                       *)
Prompt ==
  /\ Kernel("prompt") /\ broken # "erased"
  /\ printing' = Output(PromptText)
  /\ buf' = [k \in -1 .. LEN |-> IF k \in 0 .. LEN - 1 THEN NUL ELSE Unwritten]
  /\ count' = 0
  /\ pc' = "first"
  /\ broken' = "no"
  /\ plain' = TRUE
  /\ UNCHANGED line

(* Does the key keep the line on one row, character by character?          *)
StaysPlain(c) ==
  c \in Letters \union {BS} /\ ~(c \in Letters /\ screen.x >= VGA_VIDEO_COLUMNS)

(* The first key of kernel_tty_read is stored, whatever it is.             *)
ReadFirst(c) ==
  /\ Kernel("first")
  /\ line' = Here
  /\ buf' = [buf EXCEPT ![0] = Byte(c)]
  /\ count' = 1
  /\ printing' = Output(<<c>>)
  /\ pc' = "more"
  /\ plain' = (plain /\ c \in Letters /\ StaysPlain(c))
  /\ broken' = IF c = BS /\ broken = "in" THEN "erased" ELSE broken

(* Mutant: a signed comparison.                                            *)
ReadingSigned == Kernel("more") /\ count < LEN

(* count < len: ssize_t against size_t, so a count of -1 is a large one.   *)
Reading == Kernel("more") /\ count \in 0 .. LEN - 1

ReadLetter(c) ==
  /\ Reading /\ broken # "erased"
  /\ c \notin {CR, BS}
  /\ buf' = [buf EXCEPT ![count] = Byte(c)]
  /\ count' = count + 1
  /\ printing' = Output(<<c>>)
  /\ plain' = (plain /\ StaysPlain(c))
  /\ UNCHANGED <<pc, line, broken>>

ReadBackspace ==
  /\ Reading
  /\ count' = count - 1
  /\ printing' = Output(<<BS>>)
  /\ broken' = IF broken = "in" THEN "erased" ELSE broken
  /\ UNCHANGED <<buf, pc, line, plain>>

(* Mutant: the terminator is one byte late.                                *)
TerminateBehind ==
  /\ buf' = [buf EXCEPT ![count + 1] = NUL]
  /\ pc' = "execute"
  /\ printing' = Output(<<CR>>)
  /\ UNCHANGED <<count, line, plain, broken>>

(* buf[count] = '\0', when the line has ended; terminal_puts ends it on    *)
(* the screen, too, ...                                                    *)
Terminate ==
  /\ buf' = [buf EXCEPT ![count] = NUL]
  /\ pc' = "execute"
  /\ printing' = Output(<<CR>>)
  /\ UNCHANGED <<count, line, plain, broken>>

ReadReturn == Reading /\ Terminate

(* ... or the buffer is full, or more was erased than typed.               *)
ReadStops == Kernel("more") /\ count \notin 0 .. LEN - 1 /\ Terminate

-----------------------------------------------------------------------------
(* The string in the buffer, as strlen and strncmp see it.                 *)
Text == LET end == CHOOSE k \in 0 .. LEN :
                     buf[k] = NUL /\ \A j \in 0 .. k - 1 : buf[j] # NUL
        IN [k \in 1 .. end |-> buf[k - 1]]

(* strncmp (cmdstr, name, strlen (cmdstr)), where strlen counts the        *)
(* terminator (module LibC): cmdstr is the name.                           *)
Matches(builtin) == Text = builtin.name

(* The rest of kernel_command_line: the first builtin that matches runs.   *)
Execute ==
  /\ Kernel("execute")
  /\ LET found == SelectInSeq(Builtins, Matches)
     IN printing' = Output(IF found = 0 THEN Append(UnknownText, CR)
                          ELSE Builtins[found].prints)
  /\ pc' = "prompt"
  /\ UNCHANGED <<buf, count, line, plain, broken>>

Next == \/ Prompt \/ Execute
        \/ \E c \in Letters \union Control : ReadFirst(c) \/ ReadLetter(c)
        \/ ReadBackspace \/ ReadReturn \/ ReadStops
        \/ Printing \/ DefaultHandler \/ Iret \/ Unfollowed

Spec == Init /\ [][Next]_vars

-----------------------------------------------------------------------------
TypeOK ==
  /\ screen.x \in -IndexSpace .. VGA_VIDEO_COLUMNS
  /\ screen.y \in 0 .. VGA_VIDEO_ROWS + 1
  /\ DOMAIN screen.vm = Cells
  /\ count \in -1 .. LEN
  /\ DOMAIN buf = -1 .. LEN
  /\ pc \in {"prompt", "first", "more", "execute"}
  /\ plain \in BOOLEAN

(* kernel_tty_read writes one byte in front of its buffer, when more is    *)
(* erased than was typed, or one behind it, when the line is full, and     *)
(* that byte is the terminator.  And however lines wrap, are erased and    *)
(* scroll, and wherever the default handler prints in between: when the    *)
(* kernel is not printing, the cursor is on a row of the screen, and       *)
(* nothing is written in front of video memory or far behind the screen -  *)
(* only to the cell behind the last row, when a row is written full, and   *)
(* to the row there, when a message comes before the screen has scrolled.  *)
(* (Not if a line is erased in which a message has come: the cursor goes   *)
(* back further than the line reaches.)                                    *)
Behind == VGA_VIDEO_ROWS * VGA_VIDEO_COLUMNS
WritesInBounds ==
  /\ \A k \in {-1, LEN} : buf[k] \in {Unwritten, NUL}
  /\ broken # "erased" =>
       /\ kernel = None /\ printing = Finished => screen.y <= LastRow
       /\ screen.stray \subseteq {Behind} \union (Behind .. Behind + Len(Message) - 1)

(* A line of letters, corrected with backspaces, that stays on its row is  *)
(* read as the screen shows it: what stands on the screen behind the       *)
(* prompt is what is in the buffer, and in the end it is the string that   *)
(* the command line gets.  (After more backspaces than letters it is not:  *)
(* the first letter has been erased, but stays in the buffer.)             *)
ShownIsRead ==
  /\ plain /\ count >= 0 /\ kernel = None
  /\ \/ pc = "more" /\ printing = Finished
     \/ pc = "execute" /\ printing = Output(<<CR>>)
  => /\ Here = line + count
     /\ \A k \in 0 .. count - 1 : line + k \in Cells =>
           screen.vm[line + k] = buf[k]
     /\ pc = "execute" => Len(Text) = count
=============================================================================
