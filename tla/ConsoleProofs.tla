--------------------------- MODULE ConsoleProofs ---------------------------
(***************************************************************************)
(* Proofs about the console of Console, for every size of the screen and   *)
(* of the line buffer, every text that is printed and every place where    *)
(* the default interrupt handler comes in.                                 *)
(***************************************************************************)
EXTENDS Console, SequenceTheorems, WellFoundedInduction, TLAPS

Rows == VGA_VIDEO_ROWS
Columns == VGA_VIDEO_COLUMNS

(* Places in terminal_printchar: those at which registers hold the column, *)
(* those of a new row, and all.                                            *)
Moving == {"cell", "right", "left"}
Going == {"down", "check", "scroll", "up"}
Steps == Moving \union Going \union {"load", "return", "clear", "home"}

(* Characters, and those that fill a cell.                                 *)
Special == {CR, BS, TAB, LEFT, CLEAR, KEY_TAB}
Marks == Letters \union Special \union {Blank, NUL}
         \union (UNION {Range(text) : text \in {PromptText, Message, UnknownText}})
         \union (UNION {Range(builtin.prints) : builtin \in Range(Builtins)})
Visible == Marks \ Special
Outputs == [todo : Seq(Marks), at : Steps \union {"none"}, x : Int, y : Int]

Typed ==
  /\ screen \in [x : Int, y : Int, vm : [Cells -> Marks], stray : SUBSET Int]
  /\ printing \in Outputs /\ printing.at # "none"
  /\ kernel \in Outputs /\ (kernel.at = "none" => kernel = None)
  /\ buf \in [-1 .. LEN -> Marks \union {Unwritten}]
  /\ \A k \in {-1, LEN} : buf[k] \in {Unwritten, NUL}
  /\ count \in -1 .. LEN /\ line \in Int
  /\ pc \in {"prompt", "first", "more", "execute"}
  /\ plain \in BOOLEAN /\ broken \in {"no", "in", "erased"}

-----------------------------------------------------------------------------
(* What is left to print.                                                  *)
Fits(p) ==
  /\ p.todo = <<>> => p.at = "load"
  /\ p.at = "load" => p = Output(p.todo)
  /\ p.at \in {"cell", "right"} => Head(p.todo) \in Visible
  /\ p.at = "left" => Head(p.todo) = LEFT
  /\ p.at = "return" => Head(p.todo) = CR
  /\ p.at \in {"clear", "home"} => Head(p.todo) = CLEAR
  /\ p.at \in Going => Head(p.todo) \in Visible \union {CR}

(* A key, or what a backspace becomes.                                     *)
Erasing == {<<BS>>, <<LEFT, Blank, LEFT>>, <<LEFT>>}
Typing == {<<>>, <<Blank, LEFT>>} \union Erasing
          \union {<<c>> : c \in Letters \union {CR, KEY_TAB, NUL}}

(* How far to the left the cursor still goes.                              *)
Net(text) ==
  IF text \in Erasing THEN 1
  ELSE IF text \in {<<>>, <<CR>>, <<Blank, LEFT>>} THEN 0 ELSE -1

(* What the kernel prints, when.                                           *)
OwnText(p) ==
  /\ pc = "prompt" => p.todo \in Seq(Marks \ {BS, LEFT})
  /\ pc = "first" => p.todo \in Seq(Visible)
  /\ pc = "more" => p.todo \in Typing /\ (p.todo = <<CR>> => count <= 1)
  /\ pc = "execute" => p.todo \in {<<>>, <<CR>>}

(* The handler's message.                                                  *)
HandlerText(p) ==
  /\ p.at \notin {"left", "clear", "home"}
  /\ Len(p.todo) <= Len(Message) + 1
  /\ p.todo # <<>> => /\ p.todo[Len(p.todo)] = CR
                      /\ \A i \in 1 .. Len(p.todo) - 1 : p.todo[i] \in Visible

Texts == /\ Fits(printing)
         /\ kernel = None => OwnText(printing)
         /\ kernel # None => /\ Fits(kernel) /\ OwnText(kernel)
                             /\ HandlerText(printing) /\ broken = "in" /\ ~plain

-----------------------------------------------------------------------------
(* The row of the cursor.  A printer that begins a new row in row top is   *)
(* in the one behind it until the screen has scrolled.                     *)
RowOf(p, top) ==
  /\ p.at \in Steps \ {"check", "scroll", "up"} => screen.y <= top
  /\ p.at = "check" => /\ screen.y <= top + 1 /\ p.y <= top + 1
                       /\ screen.y = top + 1 <=> p.y = top + 1
  /\ p.at \in {"scroll", "up"} => screen.y = top + 1 /\ p.y = top + 1

(* Steps that know the row.                                                *)
InRow == Moving \union Going \union {"return"}

(* The kernel was interrupted behind the last row.                         *)
High == kernel.at \in {"check", "scroll", "up"} /\ kernel.y = Rows
Top == IF kernel # None /\ High THEN Rows ELSE LastRow

(* What a handler leaves of the cursor.                                    *)
Moved(p) == broken # "no" /\ screen.x = 0 /\ screen.y >= 1 /\ p.y <= screen.y

Vertical ==
  /\ screen.y >= 0
  /\ printing.at = "check" => screen.y >= 1
  /\ RowOf(printing, Top)
  /\ kernel = None /\ printing.at \in InRow =>
       printing.y >= 0 /\ (printing.y = screen.y \/ Moved(printing))
  /\ kernel # None =>
       /\ printing.at \in InRow => printing.y = screen.y
       /\ kernel.at \in InRow => 0 <= kernel.y /\ kernel.y <= screen.y
       /\ kernel.at \in InRow /\ ~High =>
            kernel.y <= LastRow /\ kernel.at \notin {"scroll", "up"}
       /\ High => screen.y >= Rows /\ (printing.at = "check" => screen.y = Rows + 1)

-----------------------------------------------------------------------------
(* The column.                                                             *)
Rest(p) == IF p.at \in Going THEN Tail(p.todo) ELSE p.todo
Lag(p) == Net(Rest(p))

Within(x, y, p) ==
  /\ x <= Columns
  /\ pc \in {"prompt", "first"} => x >= 0
  /\ pc = "execute" => x >= -LEN - 4 /\ (p.todo = <<>> => x >= 0)
  /\ pc = "more" => /\ x >= count - LEN - 2 + Lag(p)
                    /\ p.todo = <<Blank, LEFT>> => x < Columns
  /\ broken # "erased" =>
       Position(x, y) >= 0 /\ (pc = "more" => Position(x, y) >= Lag(p))

Horizontal ==
  /\ printing.at \in Going => screen.x = 0
  /\ kernel = None /\ printing.at \notin Moving => Within(screen.x, screen.y, printing)
  /\ kernel = None /\ printing.at \in Moving =>
       /\ Within(printing.x, printing.y, printing)
       /\ (printing.x = screen.x /\ printing.y = screen.y) \/ Moved(printing)
  /\ kernel # None =>
       /\ kernel.at \in Moving => Within(kernel.x, kernel.y, kernel)
       /\ -LEN - 4 <= screen.x /\ screen.x <= Columns
       /\ Position(screen.x, screen.y) >= 0
       /\ printing.at \in Moving => printing.x = screen.x
       /\ printing.todo = <<>> => screen.x = 0 /\ screen.y >= 1
       /\ High /\ printing.at \in {"load", "cell", "right"} =>
            0 <= screen.x /\ screen.x + Len(printing.todo) <= Len(Message) + 1

(* How far the line reaches from where the screen begins, in rows of one   *)
(* column more, before it has scrolled.                                    *)
Margin(p) == IF pc = "first" THEN Len(PromptText) - Len(Rest(p))
             ELSE LineRows + count + Lag(p)
Reach ==
  kernel = None /\ broken = "no" /\ pc \in {"first", "more"} /\ screen.y < LineRows =>
    LET reached == Here + screen.y
    IN /\ printing.at \in {"load", "cell", "right", "left"} /\ printing.todo # <<CR>> =>
            reached >= Margin(printing)
       /\ printing.at = "down" => reached + Columns + 1 >= Margin(printing)
       /\ printing.at = "check" => reached >= Margin(printing)

Outside ==
  broken # "erased" =>
    screen.stray \subseteq {Behind} \union (Behind .. Behind + Len(Message) - 1)

(* A line that has stayed on its row.                                      *)
Stored(n) ==
  \A k \in 0 .. n - 1 : line + k \in Cells => screen.vm[line + k] = buf[k]
InLetters == \A k \in 0 .. count - 1 : buf[k] \in Letters
OnRow ==
  plain =>
    /\ broken = "no"
    /\ pc = "more" =>
         /\ printing.at \in {"load"} \union Moving /\ printing.todo # <<CR>>
         /\ InLetters
         /\ Here = line + count + Net(printing.todo)
         /\ Stored(IF Net(printing.todo) = -1 /\ printing.at # "right"
                   THEN count - 1 ELSE count)
         /\ printing.todo # <<>> /\ Head(printing.todo) \in Visible =>
              screen.x < Columns
         /\ Net(printing.todo) = -1 =>
              count >= 1 /\ printing.todo = <<buf[count - 1]>>
    /\ pc = "execute" /\ printing = Output(<<CR>>) /\ count >= 0 =>
         /\ InLetters
         /\ buf[count] = NUL
         /\ Here = line + count
         /\ Stored(count)

IInv == Typed /\ Texts /\ Vertical /\ Horizontal /\ Reach /\ Outside /\ OnRow

-----------------------------------------------------------------------------
(* Numbers.                                                                *)

LEMMA Sizes ==
  /\ Rows \in Nat /\ Columns \in Nat /\ LEN \in Nat /\ IndexSpace \in Nat
  /\ VGA_TABSIZE \in Nat /\ Rows >= 1 /\ Columns >= 1 /\ LEN >= 1
  /\ Rows * Columns \in Nat /\ Rows * Columns < IndexSpace
  /\ LEN + 4 <= IndexSpace
BY ScreenAssumption, TextAssumption DEF Rows, Columns

(* Rows are next to each other.                                            *)
LEMMA RowStarts ==
  ASSUME NEW y \in Int, NEW z \in Int, y <= z
  PROVE  /\ y * Columns \in Int /\ z * Columns \in Int
         /\ y * Columns <= z * Columns
         /\ (z + 1) * Columns = z * Columns + Columns
         /\ y < z => y * Columns + Columns <= z * Columns
<1>1. Columns \in Nat
  BY Sizes
<1>2. ASSUME NEW c \in Nat, NEW d \in Nat
      PROVE  d * c \in Nat
  OBVIOUS
<1>3. ASSUME NEW c \in Nat, NEW u \in Int, NEW v \in Int
      PROVE  /\ u * c \in Int /\ v * c \in Int /\ (v + 1) * c = v * c + c
             /\ (v - u) * c = v * c - u * c
             /\ (v - u - 1) * c = v * c - u * c - c
  OBVIOUS
<1>4. (z - y) * Columns \in Nat
  BY <1>1, <1>2
<1>5. ASSUME y < z
      PROVE  (z - y - 1) * Columns \in Nat
  BY <1>1, <1>2, <1>5
<1> QED
  BY <1>1, <1>3, <1>4, <1>5

(* Quotient and remainder of a number.                                     *)
LEMMA DivMod ==
  ASSUME NEW d \in Nat \ {0}, NEW x \in Int
  PROVE  /\ x \div d \in Int
         /\ x % d \in 0 .. d - 1
         /\ x = d * (x \div d) + (x % d)
OBVIOUS

LEMMA Lines ==
  /\ LineRows \in Nat /\ LineRows >= 1 /\ LineRows <= LastRow
  /\ LineRows * Columns >= LEN + 3
  /\ LineRows + 2 <= Len(PromptText) /\ LineRows + 2 <= Columns
<1> DEFINE n == LEN + 2 + Columns
<1>1. n \in Nat /\ Columns \in Nat /\ Columns >= 1 /\ n >= Columns
  BY Sizes
<1>2. LineRows = n \div Columns
  BY DEF LineRows, Columns
<1> HIDE DEF n
<1>3. /\ n \div Columns \in Int /\ n % Columns \in 0 .. Columns - 1
      /\ n = Columns * (n \div Columns) + (n % Columns)
  <2>1. Columns \in Nat \ {0} /\ n \in Int
    BY <1>1
  <2> QED
    BY <2>1, DivMod
<1>4. Columns * LineRows > n - Columns
  BY <1>1, <1>2, <1>3
<1>5. LineRows \in Int /\ LineRows * Columns = Columns * LineRows
  BY <1>1, <1>2, <1>3
<1>6. LineRows >= 1
  <2>1. LEN + 2 > 0 /\ n - Columns = LEN + 2
    BY <1>1, Sizes DEF n
  <2>2. ASSUME LineRows <= 0
        PROVE  LineRows * Columns <= 0 * Columns
    BY <1>5, <2>2, RowStarts
  <2> QED
    BY <1>1, <1>4, <1>5, <2>1, <2>2
<1>7. LineRows <= LastRow /\ LineRows + 2 <= Len(PromptText) /\ Len(PromptText) <= Columns
  BY TextAssumption DEF LastRow, Columns
<1>8. Len(PromptText) \in Nat
  BY TextAssumption
<1> QED
  BY <1>1, <1>4, <1>5, <1>6, <1>7, <1>8, Sizes DEF n

-----------------------------------------------------------------------------
(* Characters and texts.                                                   *)

LEMMA Characters ==
  /\ Special \subseteq Marks /\ Blank \in Visible /\ NUL \in Visible
  /\ Letters \subseteq Visible /\ NUL \notin Letters /\ Unwritten \notin Letters
  /\ Blank \notin Letters
BY ScreenAssumption DEF Special, Visible, Marks, Control, CR, BS, TAB, LEFT, CLEAR,
   KEY_TAB, Blank, NUL, Unwritten

LEMMA GivenTexts ==
  /\ PromptText \in Seq(Visible) /\ Message \in Seq(Visible)
  /\ UnknownText \in Seq(Marks \ {BS, LEFT})
  /\ \A i \in 1 .. Len(Builtins) : Builtins[i].prints \in Seq(Marks \ {BS, LEFT})
<1>1. ASSUME NEW text, text \in Seq(Range(text)), NEW S, Range(text) \subseteq S
      PROVE  text \in Seq(S)
  BY <1>1
<1>2. ASSUME NEW text \in {PromptText, Message}
      PROVE  text \in Seq(Visible)
  <2>1. text \in Seq(Range(text)) /\ Range(text) \intersect Special = {}
    BY TextAssumption DEF Special
  <2>2. Range(text) \subseteq Marks
    BY DEF Marks
  <2> QED
    BY <1>1, <2>1, <2>2 DEF Visible
<1>3. UnknownText \in Seq(Marks \ {BS, LEFT})
  <2>1. /\ UnknownText \in Seq(Range(UnknownText))
        /\ Range(UnknownText) \intersect {BS, LEFT} = {}
    BY TextAssumption
  <2>2. Range(UnknownText) \subseteq Marks
    BY DEF Marks
  <2> QED
    BY <1>1, <2>1, <2>2
<1>4. ASSUME NEW i \in 1 .. Len(Builtins)
      PROVE  Builtins[i].prints \in Seq(Marks \ {BS, LEFT})
  <2>1. Builtins[i] \in Range(Builtins)
    BY TextAssumption DEF Range
  <2> DEFINE text == Builtins[i].prints
  <2>2. text \in {builtin.prints : builtin \in Range(Builtins)}
    BY <2>1
  <2>3. text \in Seq(Range(text)) /\ Range(text) \intersect {BS, LEFT} = {}
    BY <2>2, TextAssumption
  <2>4. Range(text) \subseteq Marks
    BY <2>1 DEF Marks
  <2> HIDE DEF text
  <2>5. text \in Seq(Marks \ {BS, LEFT})
    BY <1>1, <2>3, <2>4
  <2> QED
    BY <2>5 DEF text
<1> QED
  BY <1>2, <1>3, <1>4

(* A set of numbers that is not empty has a least element.                 *)
LEMMA NatLeast ==
  ASSUME NEW T, T \subseteq Nat, T # {}
  PROVE  \E x \in T : \A y \in T : x <= y
<1> DEFINE R == OpToRel(<, Nat)
<1>1. IsWellFoundedOn(R, Nat)
  BY NatLessThanWellFounded
<1> HIDE DEF R
<1>2. PICK x \in T : \A y \in T : ~(<<y, x>> \in R)
  BY <1>1, WFMin
<1>3. \A y \in T : ~(y < x)
  BY <1>2 DEF R, OpToRel
<1> QED
  BY <1>2, <1>3

(* What the command line finds is one of its commands.                     *)
LEMMA Found ==
  LET found == SelectInSeq(Builtins, Matches)
  IN found = 0 \/ found \in 1 .. Len(Builtins)
<1> DEFINE I == {i \in 1 .. Len(Builtins) : Matches(Builtins[i])}
<1>1. SelectInSeq(Builtins, Matches) = IF I # {} THEN Min(I) ELSE 0
  BY DEF SelectInSeq
<1>2. Len(Builtins) \in Nat /\ I \subseteq 1 .. Len(Builtins)
  BY TextAssumption
<1> HIDE DEF I
<1>3. ASSUME I # {}
      PROVE  Min(I) \in I
  <2>1. I \subseteq Nat
    BY <1>2
  <2>2. PICK x \in I : \A y \in I : x <= y
    BY <1>3, <2>1, NatLeast
  <2> QED
    BY <2>2 DEF Min
<1> QED
  BY <1>1, <1>2, <1>3

(* A sequence with its first element replaced.                             *)
LEMMA Replaced ==
  ASSUME NEW S, NEW s \in Seq(S), s # <<>>, NEW e \in S
  PROVE  LET t == <<e>> \o Tail(s)
         IN /\ t \in Seq(S) /\ t # <<>> /\ Head(t) = e /\ Tail(t) = Tail(s)
            /\ Len(t) = Len(s) /\ (e = Head(s) => t = s)
            /\ Tail(s) \in Seq(S) /\ Len(Tail(s)) = Len(s) - 1 /\ Head(s) \in S
            /\ Len(s) \in Nat
OBVIOUS

(* Sequences of one, two and three elements.                               *)
LEMMA ShortTexts ==
  /\ \A c : /\ <<c>> # <<>> /\ Head(<<c>>) = c /\ Tail(<<c>>) = <<>>
            /\ Len(<<c>>) = 1 /\ <<c>>[1] = c
  /\ \A c, d : /\ <<c, d>> # <<>> /\ Head(<<c, d>>) = c /\ Tail(<<c, d>>) = <<d>>
               /\ Len(<<c, d>>) = 2
  /\ \A c, d, e : /\ <<c, d, e>> # <<>> /\ Head(<<c, d, e>>) = c
                  /\ Tail(<<c, d, e>>) = <<d, e>>
                  /\ Len(<<c, d, e>>) = 3
OBVIOUS

(* What a key leaves to print, and how far that goes to the left.          *)
LEMMA NetOf ==
  /\ Net(<<>>) = 0 /\ Net(<<CR>>) = 0 /\ Net(<<Blank, LEFT>>) = 0
  /\ Net(<<BS>>) = 1 /\ Net(<<LEFT, Blank, LEFT>>) = 1 /\ Net(<<LEFT>>) = 1
  /\ \A c \in Letters \union {KEY_TAB, NUL} : Net(<<c>>) = -1
  /\ \A t : Net(t) \in {-1, 0, 1}
<1>1. CR # BS /\ CR # LEFT
  BY DEF CR, BS, LEFT
<1>2. \A c \in Letters \union {KEY_TAB, NUL} : c \notin {BS, LEFT, CR}
  BY ScreenAssumption DEF Control, CR, BS, LEFT, KEY_TAB, NUL
<1> QED
  BY <1>1, <1>2, ShortTexts DEF Net, Erasing

LEMMA TypingTexts ==
  ASSUME NEW t \in Typing
  PROVE  /\ t \in Seq(Marks)
         /\ t # <<>> =>
              /\ Head(t) \in Marks \ {TAB, CLEAR}
              /\ Head(t) = LEFT => /\ Net(t) = 1
                                   /\ Tail(t) \in {<<>>, <<Blank, LEFT>>}
              /\ Head(t) = BS => t = <<BS>>
              /\ Head(t) = CR => t = <<CR>>
              /\ Head(t) \in Visible \union {KEY_TAB} =>
                   \/ t = <<Blank, LEFT>> /\ Head(t) = Blank /\ Tail(t) = <<LEFT>>
                   \/ t = <<Head(t)>> /\ Net(t) = -1 /\ Tail(t) = <<>>
<1>1. /\ BS \in Marks \ {TAB, CLEAR} /\ LEFT \in Marks \ {TAB, CLEAR}
      /\ Blank \in Marks \ {TAB, CLEAR} /\ LEFT \notin Visible \union {KEY_TAB}
      /\ BS \notin Visible \union {KEY_TAB} /\ BS # LEFT /\ Blank # LEFT /\ Blank # BS
      /\ CR \notin Visible \union {KEY_TAB} /\ CR \notin {LEFT, BS, Blank}
  BY Characters DEF Special, Visible, CR, BS, LEFT, Blank, KEY_TAB, TAB, CLEAR
<1>2. \A c \in Letters \union {CR, KEY_TAB, NUL} :
        c \in Marks \ {TAB, CLEAR} /\ c \notin {LEFT, BS}
  BY Characters, ScreenAssumption
     DEF Special, Visible, Control, CR, BS, LEFT, NUL, KEY_TAB, TAB, CLEAR
<1>3. CASE t = <<>>
  BY <1>3
<1>4. CASE t = <<BS>>
  BY <1>1, <1>4, ShortTexts, NetOf
<1>5. CASE t = <<LEFT>>
  BY <1>1, <1>5, ShortTexts, NetOf
<1>6. CASE t = <<Blank, LEFT>>
  BY <1>1, <1>6, ShortTexts, NetOf
<1>7. CASE t = <<LEFT, Blank, LEFT>>
  BY <1>1, <1>7, ShortTexts, NetOf
<1>8. ASSUME NEW c \in Letters \union {CR, KEY_TAB, NUL}, t = <<c>>
      PROVE  /\ t \in Seq(Marks) /\ t # <<>> /\ Head(t) = c /\ Tail(t) = <<>>
             /\ c # CR => Net(t) = -1
  BY <1>2, <1>8, ShortTexts, NetOf
<1>9. CASE \E c \in Letters \union {CR, KEY_TAB, NUL} : t = <<c>>
  BY <1>1, <1>2, <1>8, <1>9
<1> QED
  BY <1>3, <1>4, <1>5, <1>6, <1>7, <1>9 DEF Typing, Erasing

(* What is left of a message, after one of its characters.                 *)
LEMMA HandlerTail ==
  ASSUME NEW p \in Outputs, HandlerText(p), p.todo # <<>>
  PROVE  /\ Head(p.todo) \in Visible \union {CR}
         /\ Len(Tail(p.todo)) = Len(p.todo) - 1
         /\ Tail(p.todo) # <<>> =>
              /\ Tail(p.todo)[Len(Tail(p.todo))] = CR
              /\ \A i \in 1 .. Len(Tail(p.todo)) - 1 : Tail(p.todo)[i] \in Visible
         /\ Head(p.todo) \in Visible => Tail(p.todo) # <<>> /\ Len(p.todo) >= 2
<1> DEFINE s == p.todo
<1>1. s \in Seq(Marks) /\ s # <<>> /\ s[Len(s)] = CR
  BY DEF Outputs, HandlerText
<1>2. \A i \in 1 .. Len(s) - 1 : s[i] \in Visible
  BY DEF HandlerText
<1>3. CR \notin Visible
  BY DEF Visible, Special
<1> HIDE DEF s
<1>4. /\ Len(s) \in Nat /\ Len(s) >= 1 /\ Head(s) = s[1] /\ Len(Tail(s)) = Len(s) - 1
      /\ \A i \in 1 .. Len(s) - 1 : Tail(s)[i] = s[i + 1]
      /\ Tail(s) = <<>> <=> Len(s) = 1
  BY <1>1
<1>5. Head(s) \in Visible => Tail(s) # <<>> /\ Len(s) >= 2
  BY <1>1, <1>3, <1>4
<1>6. Head(s) \in Visible \union {CR}
  BY <1>1, <1>2, <1>4
<1>7. ASSUME Tail(s) # <<>>
      PROVE  /\ Tail(s)[Len(Tail(s))] = CR
             /\ \A i \in 1 .. Len(Tail(s)) - 1 : Tail(s)[i] \in Visible
  BY <1>1, <1>2, <1>4, <1>7
<1>8. Len(Tail(s)) = Len(s) - 1
  BY <1>4
<1> QED
  BY ONLY <1>5, <1>6, <1>7, <1>8 DEF s

-----------------------------------------------------------------------------
(* The steps of terminal_printchar.                                        *)

Blanks == [i \in 1 .. VGA_TABSIZE |-> Blank]
Loaded(text, step) ==
  [todo |-> text \o Tail(printing.todo), at |-> step, x |-> screen.x, y |-> screen.y]

LEMMA LoadCases ==
  ASSUME Load
  PROVE  /\ What = CR => printing' = Loaded(<<CR>>, "return")
         /\ What = LEFT => printing' = Loaded(<<LEFT>>, "left")
         /\ What = CLEAR => printing' = Loaded(<<CLEAR>>, "clear")
         /\ What = BS =>
              printing' = Output(<<LEFT, Blank, LEFT>> \o Tail(printing.todo))
         /\ What = TAB => printing' = Output(Blanks \o Tail(printing.todo))
         /\ What \notin {CR, LEFT, CLEAR, BS, TAB} =>
              printing' = Loaded(<<Byte(What)>>, "cell")
<1>1. /\ CR # LEFT /\ CR # CLEAR /\ CR # BS /\ CR # TAB
      /\ LEFT # CLEAR /\ LEFT # BS /\ LEFT # TAB
      /\ CLEAR # BS /\ CLEAR # TAB /\ BS # TAB
  BY DEF CR, LEFT, CLEAR, BS, TAB
<1> DEFINE a == Loaded(<<CR>>, "return")
           b == Loaded(<<LEFT>>, "left")
           c == Loaded(<<CLEAR>>, "clear")
           d == Output(<<LEFT, Blank, LEFT>> \o Tail(printing.todo))
           e == Output(Blanks \o Tail(printing.todo))
           f == Loaded(<<Byte(What)>>, "cell")
<1>2. printing' = CASE What = CR -> a [] What = LEFT -> b [] What = CLEAR -> c
                    [] What = BS -> d [] What = TAB -> e [] OTHER -> f
  BY DEF Load, Loaded, Blanks
<1> HIDE DEF a, b, c, d, e, f
<1>3. What = CR => printing' = a
  BY <1>1, <1>2, Zenon
<1>4. What = LEFT => printing' = b
  BY <1>1, <1>2, Zenon
<1>5. What = CLEAR => printing' = c
  BY <1>1, <1>2, Zenon
<1>6. What = BS => printing' = d
  BY <1>1, <1>2, Zenon
<1>7. What = TAB => printing' = e
  BY <1>1, <1>2, Zenon
<1>8. What \notin {CR, LEFT, CLEAR, BS, TAB} => printing' = f
  BY <1>1, <1>2, Zenon
<1> QED
  BY <1>3, <1>4, <1>5, <1>6, <1>7, <1>8 DEF a, b, c, d, e, f

(* What printing leaves alone.                                             *)
Kept == /\ kernel' = kernel /\ buf' = buf /\ count' = count /\ pc' = pc
        /\ line' = line /\ plain' = plain /\ broken' = broken

LEMMA ElsewhereKept == Elsewhere => Kept
BY DEF Elsewhere, Kept, command

LEMMA BlanksVisible == Blanks \in Seq(Visible)
BY Characters, Sizes DEF Blanks

LEMMA LoadStep ==
  ASSUME Typed, Load
  PROVE  /\ printing.todo # <<>> /\ printing.at = "load" /\ What \in Marks
         /\ screen' = screen /\ Kept
         /\ printing' \in Outputs
         /\ printing'.at \in {"load", "return", "left", "clear", "cell"}
         /\ printing'.at = "load" <=> What \in {BS, TAB}
         /\ printing'.at = "return" => What = CR
         /\ printing'.at = "left" => What = LEFT
         /\ printing'.at = "clear" => What = CLEAR
         /\ printing'.at = "cell" => What \in Visible \union {KEY_TAB}
         /\ printing'.at = "load" => printing' = Output(printing'.todo)
         /\ printing'.at # "load" =>
              /\ printing'.x = screen.x /\ printing'.y = screen.y
              /\ printing'.todo # <<>> /\ Len(printing'.todo) = Len(printing.todo)
              /\ Head(printing'.todo) = Byte(What)
              /\ Tail(printing'.todo) = Tail(printing.todo)
              /\ printing'.todo = <<Byte(What)>> \o Tail(printing.todo)
              /\ What # KEY_TAB => printing'.todo = printing.todo
         /\ What = BS => printing'.todo = <<LEFT, Blank, LEFT>> \o Tail(printing.todo)
         /\ What = TAB => printing'.todo = Blanks \o Tail(printing.todo)
         /\ Byte(What) \in Marks /\ (printing'.at = "cell" => Byte(What) \in Visible)
<1>1. /\ printing.todo # <<>> /\ printing.at = "load" /\ screen' = screen /\ Elsewhere
      /\ printing.todo \in Seq(Marks) /\ screen.x \in Int /\ screen.y \in Int
  BY DEF Load, At, Typed, Outputs
<1>2. Kept
  BY <1>1, ElsewhereKept
<1>3. What \in Marks /\ Tail(printing.todo) \in Seq(Marks)
  BY <1>1 DEF What
<1>4. /\ {CR, BS, LEFT, CLEAR, TAB, KEY_TAB, NUL, Blank} \subseteq Marks
      /\ NUL \in Visible
  BY Characters DEF Special, Visible
<1>5. /\ Byte(What) \in Marks /\ (What # KEY_TAB => Byte(What) = What)
      /\ What \notin {CR, LEFT, CLEAR, BS, TAB} => Byte(What) \in Visible
      /\ What \notin {CR, LEFT, CLEAR, BS, TAB} => What \in Visible \union {KEY_TAB}
  BY <1>3, <1>4 DEF Byte, Visible, Special
<1>6. \A c \in Marks :
        LET t == <<c>> \o Tail(printing.todo)
        IN /\ t \in Seq(Marks) /\ t # <<>> /\ Head(t) = c
           /\ Tail(t) = Tail(printing.todo) /\ Len(t) = Len(printing.todo)
           /\ (c = What => t = printing.todo)
  BY <1>1, Replaced DEF What
<1>7. ASSUME NEW text \in Seq(Marks)
      PROVE  text \o Tail(printing.todo) \in Seq(Marks)
  BY <1>3, <1>7
<1>8. Blanks \in Seq(Marks) /\ <<LEFT, Blank, LEFT>> \in Seq(Marks)
  BY <1>4, BlanksVisible DEF Visible
<1>9. CASE What \in {BS, TAB}
  <2>1. \/ What = BS /\ printing' = Output(<<LEFT, Blank, LEFT>> \o Tail(printing.todo))
        \/ What = TAB /\ printing' = Output(Blanks \o Tail(printing.todo))
    BY <1>9, LoadCases
  <2>2. PICK s \in Seq(Marks) :
             /\ printing' = Output(s)
             /\ What = BS => s = <<LEFT, Blank, LEFT>> \o Tail(printing.todo)
             /\ What = TAB => s = Blanks \o Tail(printing.todo)
    <3>1. BS # TAB
      BY DEF BS, TAB
    <3> QED
      BY <2>1, <3>1, <1>7, <1>8
  <2>3. printing'.todo = s /\ printing'.at = "load" /\ printing' \in Outputs
    BY <2>2 DEF Output, Outputs, Steps
  <2> QED
    BY <1>1, <1>2, <1>3, <1>5, <1>9, <2>2, <2>3 DEF BS, TAB
<1>10. CASE What \notin {BS, TAB}
  <2>1. PICK step \in {"return", "left", "clear", "cell"} :
             /\ printing' = Loaded(<<Byte(What)>>, step)
             /\ step = "return" => What = CR
             /\ step = "left" => What = LEFT
             /\ step = "clear" => What = CLEAR
             /\ step = "cell" => What \notin {CR, LEFT, CLEAR, BS, TAB}
    <3>1. KEY_TAB \notin {CR, LEFT, CLEAR}
      BY DEF KEY_TAB, CR, LEFT, CLEAR
    <3> QED
      BY <1>5, <1>10, <3>1, LoadCases
  <2> DEFINE t == <<Byte(What)>> \o Tail(printing.todo)
  <2>2. /\ printing'.todo = t /\ printing'.at = step
        /\ printing'.x = screen.x /\ printing'.y = screen.y
    BY <2>1 DEF Loaded
  <2>3. /\ t \in Seq(Marks) /\ t # <<>> /\ Head(t) = Byte(What)
        /\ Tail(t) = Tail(printing.todo) /\ Len(t) = Len(printing.todo)
        /\ What # KEY_TAB => t = printing.todo
    BY <1>5, <1>6
  <2> HIDE DEF t
  <2>4. printing' \in Outputs
    BY <1>1, <2>1, <2>3 DEF t, Loaded, Outputs, Steps, Moving
  <2> QED
    BY <1>1, <1>2, <1>3, <1>5, <1>10, <2>1, <2>2, <2>3, <2>4 DEF t
<1> QED
  BY <1>9, <1>10

LEMMA GotoStep ==
  ASSUME Typed, printing.todo # <<>>, NEW step \in Steps, Goto(step)
  PROVE  /\ printing' \in Outputs /\ printing'.at = step
         /\ printing'.todo = printing.todo
         /\ printing'.x = printing.x /\ printing'.y = printing.y
BY DEF Goto, Typed, Outputs

LEMMA DoneStep ==
  ASSUME Typed, printing.todo # <<>>, Done
  PROVE  /\ printing' \in Outputs /\ printing'.at = "load"
         /\ printing'.todo = Tail(printing.todo)
         /\ printing' = Output(printing'.todo)
<1>1. Tail(printing.todo) \in Seq(Marks)
  BY DEF Typed, Outputs
<1> QED
  BY <1>1 DEF Done, Output, Outputs, Steps

LEMMA Reads ==
  ASSUME Typed
  PROVE  XRead \subseteq Int /\ YRead \subseteq Int /\ Here \in Int
BY Sizes DEF Typed, Outputs, XRead, YRead, Here, Position, Columns

(* The types are kept by printing.                                         *)
LEMMA PrintingTyped ==
  ASSUME Typed, Printing
  PROVE  Typed'
<1>1. ASSUME Kept, printing' \in Outputs, printing'.at # "none",
             screen' \in [x : Int, y : Int, vm : [Cells -> Marks], stray : SUBSET Int]
      PROVE  Typed'
  BY <1>1 DEF Kept, Typed, Outputs, None, Finished, Output
<1>2. ASSUME printing.todo # <<>>, NEW step \in Steps, Goto(step)
      PROVE  printing' \in Outputs /\ printing'.at # "none"
  BY <1>2, GotoStep DEF Steps, Moving, Going
<1>3. ASSUME printing.todo # <<>>, Done
      PROVE  printing' \in Outputs /\ printing'.at # "none"
  BY <1>3, DoneStep
<1>4. /\ screen \in [x : Int, y : Int, vm : [Cells -> Marks], stray : SUBSET Int]
      /\ screen.x \in Int /\ screen.y \in Int /\ XRead \subseteq Int /\ YRead \subseteq Int
      /\ {"right", "down", "check", "scroll", "up", "home"} \subseteq Steps
      /\ Blank \in Marks
  BY Reads, Characters DEF Typed, Steps, Moving, Going, Visible
<1>5. CASE Load
  BY <1>1, <1>4, <1>5, LoadStep
<1>6. CASE PutCell
  <2>1. PICK x \in XRead, y \in YRead :
          LET idx == Position(x, y) % IndexSpace
          IN screen' = IF idx \in Cells THEN [screen EXCEPT !.vm[idx] = What]
                       ELSE [screen EXCEPT !.stray = @ \union {idx}]
    BY <1>6 DEF PutCell
  <2> DEFINE idx == Position(x, y) % IndexSpace
  <2>2. idx \in Int
    <3>1. x \in Int /\ y \in Int /\ VGA_VIDEO_COLUMNS \in Nat /\ IndexSpace \in Nat \ {0}
      BY <1>4, Sizes DEF Columns
    <3>2. Position(x, y) \in Int
      BY <3>1 DEF Position
    <3> QED
      BY <3>1, <3>2, DivMod
  <2>3. printing.todo # <<>> /\ What \in Marks /\ Goto("right") /\ Elsewhere
    BY <1>6 DEF PutCell, At, What, Typed, Outputs
  <2> HIDE DEF idx
  <2>4. screen' = IF idx \in Cells THEN [screen EXCEPT !.vm[idx] = What]
                  ELSE [screen EXCEPT !.stray = @ \union {idx}]
    BY <2>1 DEF idx
  <2>5. screen' \in [x : Int, y : Int, vm : [Cells -> Marks], stray : SUBSET Int]
    BY <1>4, <2>2, <2>3, <2>4
  <2> QED
    BY <1>1, <1>2, <1>4, <2>3, <2>5, ElsewhereKept
<1>7. CASE Right
  <2>1. PICK x \in XRead :
          IF x >= VGA_VIDEO_COLUMNS
          THEN screen' = [screen EXCEPT !.x = 0] /\ Goto("down")
          ELSE screen' = [screen EXCEPT !.x = x + 1] /\ Done
    BY <1>7 DEF Right
  <2>2. printing.todo # <<>> /\ Elsewhere
    BY <1>7 DEF Right, At
  <2>3. x + 1 \in Int
    BY <1>4
  <2> QED
    BY <1>1, <1>2, <1>3, <1>4, <2>1, <2>2, <2>3, ElsewhereKept
<1>8. CASE Left
  <2>1. PICK x \in XRead : screen' = [screen EXCEPT !.x = x - 1]
    BY <1>8 DEF Left
  <2>2. printing.todo # <<>> /\ Elsewhere /\ Done /\ x - 1 \in Int
    BY <1>4, <1>8 DEF Left, At
  <2> QED
    BY <1>1, <1>3, <1>4, <2>1, <2>2, ElsewhereKept
<1>9. CASE Return
  <2>1. /\ printing.todo # <<>> /\ Elsewhere /\ Goto("down")
        /\ screen' = [screen EXCEPT !.x = 0]
    BY <1>9 DEF Return, At
  <2> QED
    BY <1>1, <1>2, <1>4, <2>1, ElsewhereKept
<1>10. CASE Down
  <2>1. PICK y \in YRead :
          /\ screen' = [screen EXCEPT !.y = y + 1]
          /\ printing' = [printing EXCEPT !.at = "check", !.y = y + 1]
    BY <1>10 DEF Down
  <2>2. Elsewhere /\ y + 1 \in Int
    BY <1>4, <1>10 DEF Down
  <2>3. printing' \in Outputs /\ printing'.at # "none"
    BY <1>4, <2>1, <2>2 DEF Typed, Outputs
  <2> QED
    BY <1>1, <1>4, <2>1, <2>2, <2>3, ElsewhereKept
<1>11. CASE Check
  <2>1. /\ printing.todo # <<>> /\ Elsewhere /\ (Goto("scroll") \/ Done)
        /\ screen' = screen
    BY <1>11 DEF Check, At
  <2> QED
    BY <1>1, <1>2, <1>3, <1>4, <2>1, ElsewhereKept
<1>12. CASE Scroll
  <2> DEFINE v == [i \in Cells |-> IF i < VGA_VIDEO_COLUMNS * LastRow
                                   THEN screen.vm[i + VGA_VIDEO_COLUMNS] ELSE Blank]
  <2>1. /\ printing.todo # <<>> /\ Elsewhere /\ Goto("up")
        /\ screen' = [screen EXCEPT !.vm = v]
    BY <1>12 DEF Scroll, At
  <2>2. ASSUME NEW i \in Cells, i < VGA_VIDEO_COLUMNS * LastRow
        PROVE  i + VGA_VIDEO_COLUMNS \in Cells
    <3>1. /\ VGA_VIDEO_COLUMNS \in Nat /\ VGA_VIDEO_ROWS \in Nat
          /\ VGA_VIDEO_COLUMNS * VGA_VIDEO_ROWS \in Int
          /\ VGA_VIDEO_COLUMNS * (VGA_VIDEO_ROWS - 1)
               = VGA_VIDEO_COLUMNS * VGA_VIDEO_ROWS - VGA_VIDEO_COLUMNS
          /\ VGA_VIDEO_ROWS * VGA_VIDEO_COLUMNS = VGA_VIDEO_COLUMNS * VGA_VIDEO_ROWS
      BY Sizes DEF Columns, Rows
    <3> QED
      BY <2>2, <3>1 DEF Cells, LastRow
  <2>3. v \in [Cells -> Marks]
    BY <1>4, <2>2
  <2> HIDE DEF v
  <2> QED
    BY <1>1, <1>2, <1>4, <2>1, <2>3, ElsewhereKept
<1>13. CASE Up
  <2>1. PICK y \in YRead : screen' = [screen EXCEPT !.y = y - 1]
    BY <1>13 DEF Up
  <2>2. printing.todo # <<>> /\ Elsewhere /\ Done /\ y - 1 \in Int
    BY <1>4, <1>13 DEF Up, At
  <2> QED
    BY <1>1, <1>3, <1>4, <2>1, <2>2, ElsewhereKept
<1>14. CASE Clear
  <2>1. /\ printing.todo # <<>> /\ Elsewhere /\ Goto("home")
        /\ screen' = [screen EXCEPT !.vm = [i \in Cells |-> Blank]]
    BY <1>14 DEF Clear, At
  <2> QED
    BY <1>1, <1>2, <1>4, <2>1, ElsewhereKept
<1>15. CASE Home
  <2>1. /\ printing.todo # <<>> /\ Elsewhere /\ Done
        /\ screen' = [screen EXCEPT !.x = 0, !.y = 0]
    BY <1>15 DEF Home, At
  <2>2. screen' \in [x : Int, y : Int, vm : [Cells -> Marks], stray : SUBSET Int]
    <3> DEFINE S == [x : Int, y : Int, vm : [Cells -> Marks], stray : SUBSET Int]
               t == [screen EXCEPT !.x = 0]
    <3>1. t \in S
      BY <1>4
    <3>2. screen' = [t EXCEPT !.y = 0]
      BY <1>4, <2>1
    <3> HIDE DEF t
    <3> QED
      BY <3>1, <3>2
  <2> QED
    BY <1>1, <1>3, <2>1, <2>2, ElsewhereKept
<1> QED
  BY <1>5, <1>6, <1>7, <1>8, <1>9, <1>10, <1>11, <1>12, <1>13, <1>14, <1>15
     DEF Printing

-----------------------------------------------------------------------------
(* The steps of the kernel, and the interrupt.                             *)

LEMMA OutputOf ==
  ASSUME NEW t
  PROVE  /\ Output(t).todo = t /\ Output(t).at = "load"
         /\ Output(t).x = 0 /\ Output(t).y = 0
         /\ t \in Seq(Marks) => Output(t) \in Outputs
BY DEF Output, Outputs, Steps

LEMMA KernelStep ==
  ASSUME NEW at, Kernel(at)
  PROVE  /\ pc = at /\ kernel = None /\ kernel' = None /\ screen' = screen
         /\ printing = Output(<<>>) /\ printing.todo = <<>> /\ printing.at = "load"
BY OutputOf DEF Kernel, Finished

LEMMA NoneOf ==
  /\ None \in Outputs /\ None.at = "none"
  /\ \A p : p.at # "none" => p # None
<1>1. None = [todo |-> <<>>, at |-> "none", x |-> 0, y |-> 0]
  BY DEF None, Finished, Output
<1>2. <<>> \in Seq(Marks)
  OBVIOUS
<1> QED
  BY <1>1, <1>2 DEF Outputs

(* A key leaves a character.                                               *)
LEMMA Keys ==
  ASSUME NEW c \in Letters \union Control
  PROVE  /\ c \in Marks /\ Byte(c) \in Marks /\ <<c>> \in Seq(Marks)
         /\ c \notin {TAB, CLEAR, LEFT}
         /\ <<c>> \in Typing
         /\ c \notin {CR, BS} => Net(<<c>>) = -1
<1>1. c \in Letters \union {CR, BS, KEY_TAB}
  BY DEF Control
<1>2. c \in Marks /\ Byte(c) \in Marks
  BY <1>1, Characters DEF Byte, Special, Visible
<1>3. c \notin {TAB, CLEAR, LEFT}
  BY <1>1, ScreenAssumption DEF TAB, CLEAR, LEFT, CR, BS, KEY_TAB
<1>4. <<c>> \in Typing
  BY <1>1 DEF Typing, Erasing
<1>5. c \notin {CR, BS} => Net(<<c>>) = -1
  BY <1>1, NetOf
<1> QED
  BY <1>2, <1>3, <1>4, <1>5

LEMMA KernelTyped ==
  ASSUME Typed,
         \/ Prompt \/ Execute \/ ReadBackspace \/ ReadReturn \/ ReadStops \/ Unfollowed
         \/ \E c \in Letters \union Control : ReadFirst(c) \/ ReadLetter(c)
  PROVE  Typed'
<1>1. ASSUME NEW at, Kernel(at), NEW t \in Seq(Marks), printing' = Output(t),
             buf' \in [-1 .. LEN -> Marks \union {Unwritten}],
             \A k \in {-1, LEN} : buf'[k] \in {Unwritten, NUL},
             count' \in -1 .. LEN, line' \in Int,
             pc' \in {"prompt", "first", "more", "execute"},
             plain' \in BOOLEAN, broken' \in {"no", "in", "erased"}
      PROVE  Typed'
  <2>1. printing' \in Outputs /\ printing'.at = "load"
    BY <1>1, OutputOf
  <2>2. screen' = screen /\ kernel' = None /\ None \in Outputs
    BY <1>1, KernelStep, NoneOf
  <2> QED
    BY <1>1, <2>1, <2>2 DEF Typed
<1>2. /\ buf \in [-1 .. LEN -> Marks \union {Unwritten}]
      /\ \A k \in {-1, LEN} : buf[k] \in {Unwritten, NUL}
      /\ count \in -1 .. LEN /\ line \in Int /\ Here \in Int /\ LEN \in Nat /\ LEN >= 1
      /\ plain \in BOOLEAN /\ broken \in {"no", "in", "erased"}
      /\ NUL \in Marks /\ CR \in Marks /\ BS \in Marks
  BY Reads, Sizes, Characters DEF Typed, Visible, Special
<1>3. CASE Prompt
  <2>1. /\ Kernel("prompt") /\ printing' = Output(PromptText) /\ count' = 0
        /\ pc' = "first" /\ broken' = "no" /\ plain' = TRUE /\ line' = line
        /\ buf' = [k \in -1 .. LEN |-> IF k \in 0 .. LEN - 1 THEN NUL ELSE Unwritten]
    BY <1>3 DEF Prompt
  <2>2. PromptText \in Seq(Marks)
    BY GivenTexts DEF Visible
  <2> QED
    BY <1>1, <1>2, <2>1, <2>2
<1>4. CASE Execute
  <2> DEFINE found == SelectInSeq(Builtins, Matches)
  <2> DEFINE t == IF found = 0 THEN Append(UnknownText, CR) ELSE Builtins[found].prints
  <2>1. /\ Kernel("execute") /\ printing' = Output(t) /\ pc' = "prompt"
        /\ UNCHANGED <<buf, count, line, plain, broken>>
    BY <1>4 DEF Execute
  <2>2. found = 0 \/ found \in 1 .. Len(Builtins)
    BY Found
  <2> HIDE DEF found
  <2>3. t \in Seq(Marks)
    BY <1>2, <2>2, GivenTexts
  <2> HIDE DEF t
  <2> QED
    BY <1>1, <1>2, <2>1, <2>3
<1>5. CASE Reading /\ (ReadBackspace \/ \E c \in Letters \union Control : ReadLetter(c))
  <2>1. Kernel("more") /\ count \in 0 .. LEN - 1
    BY <1>5 DEF Reading
  <2>2. CASE ReadBackspace
    <3>1. /\ count' = count - 1 /\ printing' = Output(<<BS>>)
          /\ broken' \in {"no", "in", "erased"} /\ UNCHANGED <<buf, pc, line, plain>>
      BY <1>2, <2>2 DEF ReadBackspace
    <3>2. <<BS>> \in Seq(Marks) /\ pc = "more" /\ count - 1 \in -1 .. LEN
      BY <1>2, <2>1, KernelStep
    <3> QED
      BY <1>1, <1>2, <2>1, <3>1, <3>2
  <2>3. ASSUME NEW c \in Letters \union Control, ReadLetter(c)
        PROVE  Typed'
    <3>1. /\ buf' = [buf EXCEPT ![count] = Byte(c)] /\ count' = count + 1
          /\ printing' = Output(<<c>>) /\ plain' = (plain /\ StaysPlain(c))
          /\ UNCHANGED <<pc, line, broken>>
      BY <2>3 DEF ReadLetter
    <3>2. <<c>> \in Seq(Marks) /\ Byte(c) \in Marks /\ pc = "more"
      BY <2>1, Keys, KernelStep
    <3>3. /\ buf' \in [-1 .. LEN -> Marks \union {Unwritten}]
          /\ \A k \in {-1, LEN} : buf'[k] \in {Unwritten, NUL}
      BY <1>2, <2>1, <3>1, <3>2
    <3> QED
      BY <1>1, <1>2, <2>1, <3>1, <3>2, <3>3
  <2> QED
    BY <1>5, <2>2, <2>3
<1>6. ASSUME NEW c \in Letters \union Control, ReadFirst(c)
      PROVE  Typed'
  <2>1. /\ Kernel("first") /\ line' = Here /\ buf' = [buf EXCEPT ![0] = Byte(c)]
        /\ count' = 1 /\ printing' = Output(<<c>>) /\ pc' = "more"
        /\ plain' = (plain /\ c \in Letters /\ StaysPlain(c))
        /\ broken' \in {"no", "in", "erased"}
    BY <1>2, <1>6 DEF ReadFirst
  <2>2. <<c>> \in Seq(Marks) /\ Byte(c) \in Marks
    BY Keys
  <2>3. /\ buf' \in [-1 .. LEN -> Marks \union {Unwritten}]
        /\ \A k \in {-1, LEN} : buf'[k] \in {Unwritten, NUL}
    BY <1>2, <2>1, <2>2
  <2> QED
    BY <1>1, <1>2, <2>1, <2>2, <2>3
<1>7. CASE ReadReturn \/ ReadStops
  <2>1. /\ Kernel("more") /\ buf' = [buf EXCEPT ![count] = NUL] /\ pc' = "execute"
        /\ printing' = Output(<<CR>>) /\ UNCHANGED <<count, line, plain, broken>>
    BY <1>7 DEF ReadReturn, ReadStops, Reading, Terminate
  <2>2. <<CR>> \in Seq(Marks)
    BY <1>2
  <2>3. /\ buf' \in [-1 .. LEN -> Marks \union {Unwritten}]
        /\ \A k \in {-1, LEN} : buf'[k] \in {Unwritten, NUL}
    BY <1>2, <2>1
  <2> QED
    BY <1>1, <1>2, <2>1, <2>2, <2>3
<1>8. CASE Unfollowed
  BY <1>8 DEF Unfollowed, vars, command, Typed
<1> QED
  BY <1>3, <1>4, <1>5, <1>6, <1>7, <1>8 DEF ReadBackspace, ReadLetter

LEMMA HandlerTyped ==
  ASSUME Typed, DefaultHandler \/ Iret
  PROVE  Typed'
<1>1. Append(Message, CR) \in Seq(Marks)
  BY GivenTexts, Characters DEF Visible, Special
<1>2. CASE DefaultHandler
  <2>1. /\ kernel' = printing /\ printing' = Output(Append(Message, CR))
        /\ broken' = "in" /\ plain' = FALSE /\ UNCHANGED <<screen, command>>
    BY <1>2 DEF DefaultHandler
  <2>2. printing' \in Outputs /\ printing'.at = "load"
    BY <1>1, <2>1, OutputOf
  <2> QED
    BY <2>1, <2>2 DEF Typed, command
<1>3. CASE Iret
  <2>1. /\ printing' = kernel /\ kernel' = None /\ kernel # None
        /\ UNCHANGED <<screen, command, plain, broken>>
    BY <1>3 DEF Iret
  <2> QED
    BY <2>1, NoneOf DEF Typed, command
<1> QED
  BY <1>2, <1>3

-----------------------------------------------------------------------------
(* What is printed.                                                        *)

LEMMA SameText ==
  ASSUME Typed, Texts, Kept, Fits(printing'), printing'.todo = printing.todo,
         kernel # None => printing'.at \notin {"left", "clear", "home"}
  PROVE  Texts'
BY DEF Texts, Kept, OwnText, HandlerText, Typing, Erasing

(* A character has been printed.                                           *)
LEMMA DoneText ==
  ASSUME Typed, Texts, Kept, printing.todo # <<>>, printing.at # "load", Done
  PROVE  Texts'
<1> DEFINE s == printing.todo
<1>1. /\ printing' \in Outputs /\ printing'.at = "load" /\ printing'.todo = Tail(s)
      /\ printing' = Output(printing'.todo)
  BY DoneStep
<1>2. Fits(printing')
  BY <1>1 DEF Fits, Moving, Going
<1>3. s \in Seq(Marks) /\ s # <<>> /\ printing \in Outputs
  BY DEF Typed, Outputs
<1>4. ASSUME kernel = None
      PROVE  OwnText(printing)'
  <2>1. OwnText(printing) /\ pc' = pc
    BY <1>4 DEF Texts, Kept
  <2>2. pc = "prompt" => Tail(s) \in Seq(Marks \ {BS, LEFT})
    BY <1>3, <2>1 DEF OwnText
  <2>3. pc = "first" => Tail(s) \in Seq(Visible)
    BY <1>3, <2>1 DEF OwnText
  <2>4. ASSUME pc = "more"
        PROVE  Tail(s) \in Typing /\ Tail(s) # <<CR>>
    <3>1. s \in Typing
      BY <2>1, <2>4 DEF OwnText
    <3>2. Head(s) \in Visible \union {LEFT, CR, CLEAR}
      BY DEF Texts, Fits, Typed, Outputs, Steps, Moving, Going
    <3>3. Tail(s) \in {<<>>, <<LEFT>>, <<Blank, LEFT>>}
      BY <1>3, <3>1, <3>2, TypingTexts, ShortTexts
    <3> QED
      BY <3>3, ShortTexts DEF Typing, Erasing, CR, LEFT
  <2>5. pc = "execute" => Tail(s) = <<>>
    BY <1>3, <2>1, ShortTexts DEF OwnText
  <2> QED
    BY <1>1, <2>1, <2>2, <2>3, <2>4, <2>5 DEF OwnText
<1>5. ASSUME kernel # None
      PROVE  HandlerText(printing)'
  <2>1. HandlerText(printing)
    BY <1>5 DEF Texts
  <2>2. Len(s) \in Nat /\ Len(Message) \in Nat /\ Len(s) <= Len(Message) + 1
    BY <1>3, <2>1, GivenTexts DEF HandlerText
  <2> HIDE DEF s
  <2>3. /\ Len(Tail(s)) = Len(s) - 1
        /\ Tail(s) # <<>> =>
              /\ Tail(s)[Len(Tail(s))] = CR
              /\ \A i \in 1 .. Len(Tail(s)) - 1 : Tail(s)[i] \in Visible
    BY <1>3, <2>1, HandlerTail DEF s
  <2>4. Len(Tail(s)) <= Len(Message) + 1
    BY <2>2, <2>3
  <2> QED
    BY <1>1, <2>3, <2>4 DEF HandlerText
<1>6. kernel # None => OwnText(kernel)'
  BY DEF Texts, Kept, OwnText
<1> QED
  BY <1>2, <1>4, <1>5, <1>6 DEF Texts, Kept

LEMMA LoadText ==
  ASSUME Typed, Texts, Load
  PROVE  Texts'
<1> DEFINE s == printing.todo
<1>1. Kept /\ s # <<>> /\ printing' \in Outputs /\ s \in Seq(Marks) /\ What = Head(s)
  BY LoadStep DEF Typed, Outputs, What
<1>2. Fits(printing')
  <2>1. /\ printing'.at \in {"load", "return", "left", "clear", "cell"}
        /\ printing'.at = "load" => printing' = Output(printing'.todo)
        /\ printing'.at # "load" =>
             printing'.todo # <<>> /\ Head(printing'.todo) = Byte(What)
        /\ printing'.at = "return" => Byte(What) = CR
        /\ printing'.at = "left" => Byte(What) = LEFT
        /\ printing'.at = "clear" => Byte(What) = CLEAR
        /\ printing'.at = "cell" => Byte(What) \in Visible
    BY LoadStep DEF Byte, KEY_TAB, CR, LEFT, CLEAR
  <2> QED
    BY <2>1 DEF Fits, Going
<1>3. CASE What \notin {KEY_TAB, BS, TAB}
  <2>1. printing'.todo = printing.todo
    BY <1>3, LoadStep
  <2>2. ASSUME kernel # None
        PROVE  printing'.at \notin {"left", "clear", "home"}
    <3>1. Head(s) \in Visible \union {CR}
      BY <1>1, <2>2, HandlerTail DEF Typed, Texts
    <3> QED
      BY <1>1, <3>1, LoadStep DEF Visible, Special, CR, LEFT, CLEAR
  <2> QED
    BY <1>1, <1>2, <2>1, <2>2, SameText
<1>4. CASE What \in {KEY_TAB, BS, TAB}
  <2>1. kernel = None
    <3>1. ASSUME kernel # None
          PROVE  Head(s) \in Visible \union {CR}
      BY <1>1, <3>1, HandlerTail DEF Typed, Texts
    <3> QED
      BY <1>1, <1>4, <3>1 DEF Visible, Special, CR, KEY_TAB, BS, TAB
  <2>2. OwnText(printing) /\ pc' = pc /\ kernel' = None
    BY <1>1, <2>1 DEF Texts, Kept
  <2>3. pc # "first"
    BY <1>1, <1>4, <2>2 DEF OwnText, Visible, Special
  <2>4. pc # "execute"
    <3>1. CR \notin {KEY_TAB, BS, TAB}
      BY DEF CR, KEY_TAB, BS, TAB
    <3> QED
      BY <1>1, <1>4, <2>2, <3>1, ShortTexts DEF OwnText
  <2>5. ASSUME pc = "prompt"
        PROVE  printing'.todo \in Seq(Marks \ {BS, LEFT})
    <3>1. s \in Seq(Marks \ {BS, LEFT})
      BY <2>2, <2>5 DEF OwnText
    <3>2. What \in {KEY_TAB, TAB} /\ Tail(s) \in Seq(Marks \ {BS, LEFT})
      BY <1>1, <1>4, <3>1
    <3>3. NUL \in Marks \ {BS, LEFT} /\ Blank \in Marks \ {BS, LEFT}
      BY Characters DEF Visible, Special
    <3>4. Blanks \in Seq(Marks \ {BS, LEFT}) /\ <<NUL>> \in Seq(Marks \ {BS, LEFT})
      BY <3>3, Sizes DEF Blanks
    <3>5. CASE What = TAB
      <4>1. printing'.todo = Blanks \o Tail(s)
        BY <3>5, LoadStep
      <4> HIDE DEF s
      <4> QED
        BY <3>2, <3>4, <4>1
    <3>6. CASE What = KEY_TAB
      <4>1. printing'.at # "load"
        BY <3>6, LoadStep DEF KEY_TAB, BS, TAB
      <4>2. printing'.todo = <<NUL>> \o Tail(s)
        BY <3>6, <4>1, LoadStep DEF Byte
      <4> HIDE DEF s
      <4> QED
        BY <3>2, <3>4, <4>2
    <3> QED
      BY <3>2, <3>5, <3>6
  <2>6. ASSUME pc = "more"
        PROVE  printing'.todo \in Typing /\ printing'.todo # <<CR>>
    <3>1. s \in Typing
      BY <2>2, <2>6 DEF OwnText
    <3>2. What # TAB /\ (What = BS => s = <<BS>>)
      BY <1>1, <3>1, TypingTexts
    <3>3. What = KEY_TAB => s = <<KEY_TAB>>
      <4>1. KEY_TAB # Blank
        BY DEF KEY_TAB, Blank
      <4> QED
        BY <1>1, <3>1, <4>1, TypingTexts
    <3>4. CASE What = BS
      <4>1. printing'.todo = <<LEFT, Blank, LEFT>> \o <<>>
        BY <3>2, <3>4, LoadStep, ShortTexts
      <4>2. printing'.todo = <<LEFT, Blank, LEFT>>
        BY <4>1
      <4> QED
        BY <4>2, ShortTexts DEF Typing, Erasing
    <3>5. CASE What = KEY_TAB
      <4>1. printing'.at # "load"
        BY <3>5, LoadStep DEF KEY_TAB, BS, TAB
      <4>2. printing'.todo = <<NUL>> \o <<>>
        BY <3>3, <3>5, <4>1, LoadStep, ShortTexts DEF Byte
      <4>3. printing'.todo = <<NUL>>
        BY <4>2
      <4> QED
        BY <4>3, ShortTexts DEF Typing, CR, NUL
    <3> QED
      BY <1>4, <3>2, <3>4, <3>5
  <2>7. OwnText(printing)'
    BY <2>2, <2>3, <2>4, <2>5, <2>6 DEF OwnText
  <2> QED
    BY <1>2, <2>2, <2>7 DEF Texts
<1> QED
  BY <1>3, <1>4

LEMMA PrintingTexts ==
  ASSUME Typed, Texts, Printing
  PROVE  Texts'
<1>1. ASSUME NEW step \in {"right", "down", "scroll", "up", "home"}, Goto(step), Kept,
             printing.todo # <<>>,
             step = "right" => Head(printing.todo) \in Visible,
             step = "home" => Head(printing.todo) = CLEAR /\ kernel = None,
             step \in Going => Head(printing.todo) \in Visible \union {CR}
      PROVE  Texts'
  <2>1. /\ printing' \in Outputs /\ printing'.at = step
        /\ printing'.todo = printing.todo
    BY <1>1, GotoStep DEF Steps, Moving, Going
  <2>2. Fits(printing')
    BY <1>1, <2>1 DEF Fits, Going
  <2> QED
    BY <1>1, <2>1, <2>2, SameText
<1>2. /\ printing.at \in {"cell", "right"} => Head(printing.todo) \in Visible
      /\ printing.at \in {"clear", "home"} => Head(printing.todo) = CLEAR /\ kernel = None
      /\ printing.at = "return" => Head(printing.todo) = CR
      /\ printing.at \in Going => Head(printing.todo) \in Visible \union {CR}
  BY DEF Texts, Fits, HandlerText
<1>3. CASE Load
  BY <1>3, LoadText
<1>4. CASE PutCell
  <2>1. Kept /\ Goto("right") /\ printing.todo # <<>> /\ printing.at = "cell"
    BY <1>4, ElsewhereKept DEF PutCell, At
  <2> QED
    BY <1>1, <1>2, <2>1 DEF Going
<1>5. CASE Right
  <2>1. /\ Kept /\ (Goto("down") \/ Done) /\ printing.todo # <<>>
        /\ printing.at = "right"
    BY <1>5, ElsewhereKept DEF Right, At
  <2> QED
    BY <1>1, <1>2, <2>1, DoneText DEF Going
<1>6. CASE Left
  <2>1. Kept /\ Done /\ printing.todo # <<>> /\ printing.at = "left"
    BY <1>6, ElsewhereKept DEF Left, At
  <2> QED
    BY <2>1, DoneText
<1>7. CASE Return
  <2>1. Kept /\ Goto("down") /\ printing.todo # <<>> /\ printing.at = "return"
    BY <1>7, ElsewhereKept DEF Return, At
  <2> QED
    BY <1>1, <1>2, <2>1 DEF Going
<1>8. CASE Down
  <2>1. PICK y \in YRead : printing' = [printing EXCEPT !.at = "check", !.y = y + 1]
    BY <1>8 DEF Down
  <2>2. Kept /\ printing.todo # <<>> /\ printing.at = "down"
    BY <1>8, ElsewhereKept DEF Down, At
  <2>3. printing'.todo = printing.todo /\ printing'.at = "check"
    BY <2>1 DEF Typed, Outputs
  <2>4. Fits(printing')
    BY <1>2, <2>2, <2>3 DEF Fits, Going
  <2> QED
    BY <2>2, <2>3, <2>4, SameText
<1>9. CASE Check
  <2>1. /\ Kept /\ (Goto("scroll") \/ Done) /\ printing.todo # <<>>
        /\ printing.at = "check"
    BY <1>9, ElsewhereKept DEF Check, At
  <2> QED
    BY <1>1, <1>2, <2>1, DoneText DEF Going
<1>10. CASE Scroll
  <2>1. Kept /\ Goto("up") /\ printing.todo # <<>> /\ printing.at = "scroll"
    BY <1>10, ElsewhereKept DEF Scroll, At
  <2> QED
    BY <1>1, <1>2, <2>1 DEF Going
<1>11. CASE Up
  <2>1. Kept /\ Done /\ printing.todo # <<>> /\ printing.at = "up"
    BY <1>11, ElsewhereKept DEF Up, At
  <2> QED
    BY <2>1, DoneText
<1>12. CASE Clear
  <2>1. Kept /\ Goto("home") /\ printing.todo # <<>> /\ printing.at = "clear"
    BY <1>12, ElsewhereKept DEF Clear, At
  <2> QED
    BY <1>1, <1>2, <2>1 DEF Going
<1>13. CASE Home
  <2>1. Kept /\ Done /\ printing.todo # <<>> /\ printing.at = "home"
    BY <1>13, ElsewhereKept DEF Home, At
  <2> QED
    BY <2>1, DoneText
<1> QED
  BY <1>3, <1>4, <1>5, <1>6, <1>7, <1>8, <1>9, <1>10, <1>11, <1>12, <1>13
     DEF Printing

LEMMA KernelTexts ==
  ASSUME Typed, Texts,
         \/ Prompt \/ Execute \/ ReadBackspace \/ ReadReturn \/ ReadStops \/ Unfollowed
         \/ \E c \in Letters \union Control : ReadFirst(c) \/ ReadLetter(c)
  PROVE  Texts'
<1>1. ASSUME NEW at, Kernel(at), NEW t, printing' = Output(t),
             \/ pc' = "prompt" /\ t \in Seq(Marks \ {BS, LEFT})
             \/ pc' = "first" /\ t \in Seq(Visible)
             \/ pc' = "more" /\ t \in Typing /\ (t = <<CR>> => count' <= 1)
             \/ pc' = "execute" /\ t = <<CR>>
      PROVE  Texts'
  <2>1. /\ kernel' = None /\ printing'.todo = t /\ printing'.at = "load"
        /\ printing' = Output(printing'.todo)
    BY <1>1, KernelStep, OutputOf
  <2>2. Fits(printing')
    BY <2>1 DEF Fits, Moving, Going
  <2>3. OwnText(printing)'
    BY <1>1, <2>1 DEF OwnText
  <2> QED
    BY <2>1, <2>2, <2>3 DEF Texts
<1>2. CASE Prompt
  BY <1>1, <1>2, GivenTexts DEF Prompt
<1>3. CASE Execute
  <2> DEFINE found == SelectInSeq(Builtins, Matches)
  <2> DEFINE t == IF found = 0 THEN Append(UnknownText, CR) ELSE Builtins[found].prints
  <2>1. Kernel("execute") /\ printing' = Output(t) /\ pc' = "prompt"
    BY <1>3 DEF Execute
  <2>2. found = 0 \/ found \in 1 .. Len(Builtins)
    BY Found
  <2>3. CR \in Marks \ {BS, LEFT}
    BY Characters DEF Special, CR, BS, LEFT
  <2> HIDE DEF found
  <2>4. t \in Seq(Marks \ {BS, LEFT})
    BY <2>2, <2>3, GivenTexts
  <2> HIDE DEF t
  <2> QED
    BY <1>1, <2>1, <2>4
<1>4. CASE ReadBackspace
  <2>1. Kernel("more") /\ pc' = pc /\ printing' = Output(<<BS>>)
    BY <1>4 DEF ReadBackspace, Reading
  <2>2. <<BS>> \in Typing /\ pc = "more" /\ <<BS>> # <<CR>>
    BY <2>1, KernelStep, ShortTexts DEF Typing, Erasing, BS, CR
  <2> QED
    BY <1>1, <2>1, <2>2
<1>5. CASE ReadReturn \/ ReadStops
  BY <1>1, <1>5 DEF ReadReturn, ReadStops, Reading, Terminate
<1>6. ASSUME NEW c \in Letters \union Control, ReadFirst(c) \/ ReadLetter(c)
      PROVE  Texts'
  <2>1. PICK at : Kernel(at) /\ printing' = Output(<<c>>) /\ pc' = "more"
    BY <1>6, KernelStep DEF ReadFirst, ReadLetter, Reading
  <2>2. <<c>> \in Typing
    BY Keys
  <2>3. <<c>> = <<CR>> => count' <= 1
    BY <1>6, ShortTexts DEF ReadFirst, ReadLetter
  <2> QED
    BY <1>1, <2>1, <2>2, <2>3
<1>7. CASE Unfollowed
  BY <1>7 DEF Unfollowed, vars, command, Texts, OwnText, HandlerText
<1> QED
  BY <1>2, <1>3, <1>4, <1>5, <1>6, <1>7

LEMMA HandlerTexts ==
  ASSUME Typed, Texts, DefaultHandler \/ Iret
  PROVE  Texts'
<1>1. CASE DefaultHandler
  <2> DEFINE m == Append(Message, CR)
  <2>1. /\ kernel = None /\ kernel' = printing /\ printing' = Output(m)
        /\ broken' = "in" /\ plain' = FALSE /\ pc' = pc
    BY <1>1 DEF DefaultHandler, command
  <2>2. /\ m # <<>> /\ Len(m) = Len(Message) + 1 /\ m[Len(m)] = CR
        /\ \A i \in 1 .. Len(m) - 1 : m[i] \in Visible
    BY GivenTexts
  <2> HIDE DEF m
  <2>3. printing'.todo = m /\ printing'.at = "load" /\ printing' = Output(printing'.todo)
    BY <2>1, OutputOf
  <2>4. Fits(printing') /\ HandlerText(printing)'
    <3>1. Len(m) <= Len(Message) + 1
      BY <2>2, GivenTexts
    <3> QED
      BY <2>2, <2>3, <3>1 DEF Fits, HandlerText, Moving, Going
  <2>5. Fits(printing) /\ OwnText(printing)
    BY <2>1 DEF Texts
  <2>6. OwnText(kernel)'
    BY <1>1, <2>1, <2>5 DEF DefaultHandler, command, OwnText
  <2>7. kernel' # None
    BY <2>1, NoneOf DEF Typed
  <2> QED
    BY <2>1, <2>4, <2>5, <2>6, <2>7 DEF Texts
<1>2. CASE Iret
  BY <1>2 DEF Iret, Texts, OwnText, command
<1> QED
  BY <1>1, <1>2

-----------------------------------------------------------------------------
(* What each step of printing does to the cursor.                          *)

At2(step) == printing.todo # <<>> /\ printing.at = step /\ Kept
Turns(step) == /\ printing'.at = step /\ printing'.todo = printing.todo
               /\ printing'.x = printing.x /\ printing'.y = printing.y
Ends == /\ printing'.at = "load" /\ printing'.todo = Tail(printing.todo)
        /\ printing' = Output(printing'.todo)

LEMMA PrintingSteps ==
  ASSUME Typed
  PROVE  /\ PutCell => /\ At2("cell") /\ Turns("right")
                       /\ screen'.x = screen.x /\ screen'.y = screen.y
         /\ Right => /\ At2("right") /\ screen'.y = screen.y /\ screen'.vm = screen.vm
                     /\ \E x \in XRead :
                          \/ x >= Columns /\ screen'.x = 0 /\ Turns("down")
                          \/ x < Columns /\ screen'.x = x + 1 /\ Ends
         /\ Left => /\ At2("left") /\ screen'.y = screen.y /\ screen'.vm = screen.vm
                    /\ Ends /\ \E x \in XRead : screen'.x = x - 1
         /\ Return => /\ At2("return") /\ Turns("down")
                      /\ screen'.x = 0 /\ screen'.y = screen.y /\ screen'.vm = screen.vm
         /\ Down => /\ At2("down") /\ printing'.at = "check"
                    /\ printing'.todo = printing.todo /\ printing'.x = printing.x
                    /\ printing'.y = screen'.y
                    /\ screen'.x = screen.x /\ screen'.vm = screen.vm
                    /\ \E y \in YRead : screen'.y = y + 1
         /\ Check => /\ At2("check") /\ screen' = screen
                     /\ \E y \in YRead : \/ y > LastRow /\ Turns("scroll")
                                         \/ y <= LastRow /\ Ends
         /\ Scroll => /\ At2("scroll") /\ Turns("up")
                      /\ screen'.x = screen.x /\ screen'.y = screen.y
         /\ Up => /\ At2("up") /\ Ends
                  /\ screen'.x = screen.x /\ screen'.vm = screen.vm
                  /\ \E y \in YRead : screen'.y = y - 1
         /\ Clear => /\ At2("clear") /\ Turns("home")
                     /\ screen'.x = screen.x /\ screen'.y = screen.y
         /\ Home => /\ At2("home") /\ Ends
                    /\ screen'.x = 0 /\ screen'.y = 0 /\ screen'.vm = screen.vm
         /\ ~PutCell /\ Printing => screen'.stray = screen.stray
<1>1. ASSUME NEW step \in Steps, Goto(step), printing.todo # <<>>
      PROVE  Turns(step)
  BY <1>1, GotoStep DEF Turns
<1>2. ASSUME Done, printing.todo # <<>>
      PROVE  Ends
  BY <1>2, DoneStep DEF Ends
<1>3. {"right", "down", "scroll", "up", "home"} \subseteq Steps
  BY DEF Steps, Moving, Going
<1>4. /\ screen \in [x : Int, y : Int, vm : [Cells -> Marks], stray : SUBSET Int]
      /\ XRead \subseteq Int /\ YRead \subseteq Int /\ Columns \in Nat /\ LastRow \in Int
  BY Reads, Sizes DEF Typed, LastRow, Rows
<1>5. ASSUME PutCell
      PROVE  /\ At2("cell") /\ Turns("right")
             /\ screen'.x = screen.x /\ screen'.y = screen.y
  <2>1. At("cell") /\ Goto("right") /\ Elsewhere
    BY <1>5 DEF PutCell
  <2>2. PICK x \in XRead, y \in YRead :
          LET idx == Position(x, y) % IndexSpace
          IN screen' = IF idx \in Cells THEN [screen EXCEPT !.vm[idx] = What]
                       ELSE [screen EXCEPT !.stray = @ \union {idx}]
    BY <1>5 DEF PutCell
  <2>3. screen'.x = screen.x /\ screen'.y = screen.y
    BY <1>4, <2>2
  <2> QED
    BY <1>1, <1>3, <2>1, <2>3, ElsewhereKept DEF At, At2
<1>6. ASSUME Right
      PROVE  /\ At2("right") /\ screen'.y = screen.y /\ screen'.vm = screen.vm
             /\ screen'.stray = screen.stray
             /\ \E x \in XRead :
                  \/ x >= Columns /\ screen'.x = 0 /\ Turns("down")
                  \/ x < Columns /\ screen'.x = x + 1 /\ Ends
  <2>1. At("right") /\ Elsewhere
    BY <1>6 DEF Right
  <2>2. PICK x \in XRead :
          IF x >= Columns
          THEN screen' = [screen EXCEPT !.x = 0] /\ Goto("down")
          ELSE screen' = [screen EXCEPT !.x = x + 1] /\ Done
    BY <1>6 DEF Right, Columns
  <2>3. /\ screen'.y = screen.y /\ screen'.vm = screen.vm /\ screen'.stray = screen.stray
        /\ x >= Columns => screen'.x = 0
        /\ x < Columns => screen'.x = x + 1
    BY <1>4, <2>2
  <2> QED
    BY <1>1, <1>2, <1>3, <1>4, <2>1, <2>2, <2>3, ElsewhereKept DEF At, At2
<1>7. ASSUME Left
      PROVE  /\ At2("left") /\ screen'.y = screen.y /\ screen'.vm = screen.vm
             /\ screen'.stray = screen.stray
             /\ Ends /\ \E x \in XRead : screen'.x = x - 1
  <2>1. At("left") /\ Elsewhere /\ Done
    BY <1>7 DEF Left
  <2>2. PICK x \in XRead : screen' = [screen EXCEPT !.x = x - 1]
    BY <1>7 DEF Left
  <2> QED
    BY <1>2, <1>4, <2>1, <2>2, ElsewhereKept DEF At, At2
<1>8. ASSUME Return
      PROVE  /\ At2("return") /\ Turns("down") /\ screen'.stray = screen.stray
             /\ screen'.x = 0 /\ screen'.y = screen.y /\ screen'.vm = screen.vm
  <2>1. /\ At("return") /\ Elsewhere /\ Goto("down")
        /\ screen' = [screen EXCEPT !.x = 0]
    BY <1>8 DEF Return
  <2> QED
    BY <1>1, <1>3, <1>4, <2>1, ElsewhereKept DEF At, At2
<1>9. ASSUME Down
      PROVE  /\ At2("down") /\ printing'.at = "check"
             /\ printing'.todo = printing.todo /\ printing'.x = printing.x
             /\ printing'.y = screen'.y
             /\ screen'.x = screen.x /\ screen'.vm = screen.vm
             /\ screen'.stray = screen.stray
             /\ \E y \in YRead : screen'.y = y + 1
  <2>1. At("down") /\ Elsewhere
    BY <1>9 DEF Down
  <2>2. PICK y \in YRead :
          /\ screen' = [screen EXCEPT !.y = y + 1]
          /\ printing' = [printing EXCEPT !.at = "check", !.y = y + 1]
    BY <1>9 DEF Down
  <2>3. /\ printing'.at = "check" /\ printing'.y = y + 1
        /\ printing'.todo = printing.todo /\ printing'.x = printing.x
    BY <2>2 DEF Typed, Outputs
  <2>4. /\ screen'.y = y + 1 /\ screen'.x = screen.x /\ screen'.vm = screen.vm
        /\ screen'.stray = screen.stray
    BY <1>4, <2>2
  <2> QED
    BY <2>1, <2>2, <2>3, <2>4, ElsewhereKept DEF At, At2
<1>10. ASSUME Check
      PROVE  /\ At2("check") /\ screen' = screen
             /\ \E y \in YRead : \/ y > LastRow /\ Turns("scroll")
                                 \/ y <= LastRow /\ Ends
  <2>1. At("check") /\ Elsewhere /\ screen' = screen
    BY <1>10 DEF Check
  <2>2. PICK y \in YRead : IF y > LastRow THEN Goto("scroll") ELSE Done
    BY <1>10 DEF Check
  <2> QED
    BY <1>1, <1>2, <1>3, <1>4, <2>1, <2>2, ElsewhereKept DEF At, At2
<1>11. ASSUME Scroll
      PROVE  /\ At2("scroll") /\ Turns("up") /\ screen'.stray = screen.stray
             /\ screen'.x = screen.x /\ screen'.y = screen.y
  <2>1. At("scroll") /\ Elsewhere /\ Goto("up")
    BY <1>11 DEF Scroll
  <2>2. PICK v : screen' = [screen EXCEPT !.vm = v]
    BY <1>11 DEF Scroll
  <2> QED
    BY <1>1, <1>3, <1>4, <2>1, <2>2, ElsewhereKept DEF At, At2
<1>12. ASSUME Up
      PROVE  /\ At2("up") /\ Ends
             /\ screen'.x = screen.x /\ screen'.vm = screen.vm
             /\ screen'.stray = screen.stray
             /\ \E y \in YRead : screen'.y = y - 1
  <2>1. At("up") /\ Elsewhere /\ Done
    BY <1>12 DEF Up
  <2>2. PICK y \in YRead : screen' = [screen EXCEPT !.y = y - 1]
    BY <1>12 DEF Up
  <2> QED
    BY <1>2, <1>4, <2>1, <2>2, ElsewhereKept DEF At, At2
<1>13. ASSUME Clear
      PROVE  /\ At2("clear") /\ Turns("home") /\ screen'.stray = screen.stray
             /\ screen'.x = screen.x /\ screen'.y = screen.y
  <2>1. At("clear") /\ Elsewhere /\ Goto("home")
    BY <1>13 DEF Clear
  <2>2. PICK v : screen' = [screen EXCEPT !.vm = v]
    BY <1>13 DEF Clear
  <2> QED
    BY <1>1, <1>3, <1>4, <2>1, <2>2, ElsewhereKept DEF At, At2
<1>14. ASSUME Home
      PROVE  /\ At2("home") /\ Ends /\ screen'.stray = screen.stray
             /\ screen'.x = 0 /\ screen'.y = 0 /\ screen'.vm = screen.vm
  <2>1. At("home") /\ Elsewhere /\ Done
    BY <1>14 DEF Home
  <2>2. screen' = [screen EXCEPT !.x = 0, !.y = 0]
    BY <1>14 DEF Home
  <2>3. /\ screen'.x = 0 /\ screen'.y = 0 /\ screen'.vm = screen.vm
        /\ screen'.stray = screen.stray
    BY <1>4, <2>2
  <2> QED
    BY <1>2, <2>1, <2>3, ElsewhereKept DEF At, At2
<1>15. ASSUME ~PutCell, Printing
       PROVE  screen'.stray = screen.stray
  <2>1. Load => screen' = screen
    BY DEF Load
  <2> QED
    BY <1>6, <1>7, <1>8, <1>9, <1>10, <1>11, <1>12, <1>13, <1>14, <1>15, <2>1
       DEF Printing
<1> QED
  BY <1>5, <1>6, <1>7, <1>8, <1>9, <1>10, <1>11, <1>12, <1>13, <1>14, <1>15

-----------------------------------------------------------------------------
(* The row of the cursor.                                                  *)

LEMMA PrintingVertical ==
  ASSUME Typed, Texts, Vertical, Printing
  PROVE  Vertical'
<1>1. /\ Rows \in Nat /\ LastRow = Rows - 1 /\ Rows >= 2 /\ LastRow \in Int
      /\ screen.y \in Int /\ screen.x \in Int /\ printing.y \in Int /\ kernel.y \in Int
      /\ printing.at \in Steps
  <2>1. Rows \in Nat /\ LastRow = Rows - 1 /\ LineRows \in Nat /\ LineRows >= 1 /\ LineRows <= LastRow
    BY Sizes, Lines DEF LastRow, Rows
  <2> QED
    BY <2>1 DEF Typed, Outputs
<1>2. ASSUME Kept
      PROVE  /\ kernel' = kernel /\ broken' = broken
             /\ (High <=> High') /\ Top' = Top
             /\ (kernel = None => Top = LastRow)
             /\ (kernel # None /\ High => Top = Rows)
             /\ (kernel # None /\ ~High => Top = LastRow)
             /\ Top \in {LastRow, Rows}
  BY <1>2 DEF Kept, High, Top, LastRow
<1>3. \A y \in YRead : y = printing.y \/ y = screen.y
  BY DEF YRead
<1>4. CASE Load
  <2>1. /\ Kept /\ screen' = screen /\ printing.at = "load"
        /\ printing'.at \in {"load", "return", "left", "clear", "cell"}
        /\ printing'.at # "load" => printing'.y = screen.y
    BY <1>4, LoadStep
  <2> QED
    BY <1>1, <1>2, <2>1 DEF Vertical, RowOf, InRow, Moving, Going, Steps
<1>5. CASE PutCell
  BY <1>1, <1>2, <1>5, PrintingSteps
     DEF At2, Turns, Vertical, RowOf, InRow, Moved, Moving, Going, Steps
<1>6. CASE Right
  <2>1. /\ At2("right") /\ screen'.y = screen.y
        /\ \/ Turns("down") /\ screen'.x = 0
           \/ Ends
    BY <1>6, PrintingSteps
  <2> QED
    BY <1>1, <1>2, <2>1
       DEF At2, Turns, Ends, Vertical, RowOf, InRow, Moved, Moving, Going, Steps
<1>7. CASE Left
  BY <1>1, <1>2, <1>7, PrintingSteps
     DEF At2, Ends, Vertical, RowOf, InRow, Moving, Going, Steps
<1>8. CASE Return
  BY <1>1, <1>2, <1>8, PrintingSteps
     DEF At2, Turns, Vertical, RowOf, InRow, Moved, Moving, Going, Steps
<1>9. CASE Down
  <2>1. At2("down") /\ printing'.at = "check" /\ printing'.y = screen'.y
    BY <1>9, PrintingSteps
  <2>2. \/ screen'.y = printing.y + 1
        \/ screen'.y = screen.y + 1
    BY <1>3, <1>9, PrintingSteps
  <2> QED
    BY <1>1, <1>2, <2>1, <2>2
       DEF At2, Vertical, RowOf, InRow, Moved, Moving, Going, Steps
<1>10. CASE Check
  <2>1. At2("check") /\ screen' = screen
    BY <1>10, PrintingSteps
  <2>2. \/ Turns("scroll") /\ (printing.y > LastRow \/ screen.y > LastRow)
        \/ Ends /\ (printing.y <= LastRow \/ screen.y <= LastRow)
    BY <1>3, <1>10, PrintingSteps
  <2> QED
    BY <1>1, <1>2, <2>1, <2>2
       DEF At2, Turns, Ends, Vertical, RowOf, InRow, Moved, Moving, Going, Steps
<1>11. CASE Scroll
  BY <1>1, <1>2, <1>11, PrintingSteps
     DEF At2, Turns, Vertical, RowOf, InRow, Moved, Moving, Going, Steps
<1>12. CASE Up
  <2>1. At2("up") /\ Ends
    BY <1>12, PrintingSteps
  <2>2. screen'.y = printing.y - 1 \/ screen'.y = screen.y - 1
    BY <1>3, <1>12, PrintingSteps
  <2>3. screen.y = Top + 1 /\ printing.y = Top + 1 /\ Top \in Int
    BY <1>1, <1>2, <2>1 DEF At2, Vertical, RowOf
  <2>4. screen'.y = Top /\ Top >= 1
    BY <1>1, <1>2, <2>1, <2>2, <2>3 DEF At2
  <2>5. RowOf(printing, Top)' /\ printing'.at = "load"
    BY <1>2, <2>1, <2>3, <2>4 DEF At2, Ends, RowOf
  <2>6. kernel # None =>
          /\ kernel.at \in InRow => 0 <= kernel.y /\ kernel.y <= Top
          /\ kernel.at \in InRow /\ ~High =>
               kernel.y <= LastRow /\ kernel.at \notin {"scroll", "up"}
    <3>1. CASE High
      BY <1>1, <1>2, <2>1, <3>1 DEF High, InRow, Going, At2, Vertical
    <3>2. CASE ~High
      BY <1>1, <1>2, <2>1, <3>2 DEF InRow, Going, At2, Vertical
    <3> QED
      BY <3>1, <3>2
  <2> QED
    BY <1>1, <1>2, <2>1, <2>4, <2>5, <2>6
       DEF At2, Vertical, InRow, Moving, Going
<1>13. CASE Clear
  BY <1>1, <1>2, <1>13, PrintingSteps
     DEF At2, Turns, Vertical, RowOf, InRow, Moving, Going, Steps
<1>14. CASE Home
  <2>1. At2("home") /\ Ends /\ screen'.y = 0
    BY <1>14, PrintingSteps
  <2>2. kernel = None
    BY <2>1 DEF At2, Texts, HandlerText
  <2> QED
    BY <1>1, <1>2, <2>1, <2>2
       DEF At2, Ends, Vertical, RowOf, InRow, Moving, Going, Steps
<1> QED
  BY <1>4, <1>5, <1>6, <1>7, <1>8, <1>9, <1>10, <1>11, <1>12, <1>13, <1>14
     DEF Printing

LEMMA KernelVertical ==
  ASSUME Typed, Texts, Vertical,
         \/ Prompt \/ Execute \/ ReadBackspace \/ ReadReturn \/ ReadStops \/ Unfollowed
         \/ \E c \in Letters \union Control : ReadFirst(c) \/ ReadLetter(c)
  PROVE  Vertical'
<1>1. PICK at, t : Kernel(at) /\ (printing' = Output(t) \/ UNCHANGED vars)
  BY DEF Prompt, Execute, ReadFirst, ReadLetter, ReadBackspace, ReadReturn, ReadStops,
         Reading, Terminate, Unfollowed
<1>2. /\ kernel = None /\ kernel' = None /\ screen' = screen /\ printing.at = "load"
      /\ printing'.at = "load"
  <2>1. UNCHANGED vars => printing' = printing
    BY DEF vars
  <2> QED
    BY <1>1, <2>1, KernelStep, OutputOf
<1>3. Top = LastRow /\ Top' = LastRow
  BY <1>2 DEF Top, LastRow
<1> QED
  BY <1>2, <1>3 DEF Vertical, RowOf, InRow, Moving, Going, Steps

LEMMA HandlerVertical ==
  ASSUME Typed, Texts, Vertical, Horizontal, DefaultHandler \/ Iret
  PROVE  Vertical'
<1>1. /\ Rows \in Nat /\ LastRow = Rows - 1 /\ LastRow \in Int
      /\ screen.y \in Int /\ printing.y \in Int /\ kernel.y \in Int
      /\ printing.at \in Steps
  BY Sizes DEF Typed, Outputs, LastRow, Rows
<1>2. CASE DefaultHandler
  <2>1. /\ kernel = None /\ kernel' = printing /\ printing'.at = "load"
        /\ broken = "no" /\ screen' = screen
    BY <1>2, OutputOf DEF DefaultHandler
  <2>2. kernel' # None
    BY <2>1, NoneOf DEF Typed
  <2>3. /\ Top = LastRow
        /\ High' <=> printing.at \in {"check", "scroll", "up"} /\ printing.y = Rows
        /\ Top' = IF High' THEN Rows ELSE LastRow
    BY <2>1, <2>2 DEF Top, High, LastRow, Rows
  <2> QED
    BY <1>1, <2>1, <2>2, <2>3
       DEF Vertical, RowOf, InRow, Moved, Moving, Going, Steps
<1>3. CASE Iret
  <2>1. /\ kernel # None /\ kernel' = None /\ printing' = kernel /\ screen' = screen
        /\ printing.todo = <<>> /\ printing.at = "load" /\ broken' = broken
    BY <1>3, OutputOf DEF Iret, Finished
  <2>2. /\ Top' = LastRow /\ Top = IF High THEN Rows ELSE LastRow
        /\ High <=> kernel.at \in {"check", "scroll", "up"} /\ kernel.y = Rows
    BY <2>1 DEF Top, High, LastRow
  <2>3. broken = "in" /\ screen.x = 0 /\ screen.y >= 1
    BY <2>1 DEF Texts, Horizontal
  <2>4. kernel.at \in Steps
    BY <2>1 DEF Typed, Outputs
  <2> QED
    BY <1>1, <2>1, <2>2, <2>3, <2>4
       DEF Vertical, RowOf, InRow, Moved, Moving, Going, Steps
<1> QED
  BY <1>2, <1>3

-----------------------------------------------------------------------------
(* The column of the cursor.                                               *)

LEMMA Positions ==
  ASSUME NEW x \in Int, NEW y \in Int
  PROVE  /\ Position(x, y) \in Int
         /\ Position(x + 1, y) = Position(x, y) + 1
         /\ Position(x - 1, y) = Position(x, y) - 1
         /\ \A z \in Int : z >= y => Position(x, z) >= Position(x, y)
         /\ y >= 0 /\ x >= 0 => Position(x, y) >= 0
         /\ y >= 1 /\ x >= 0 => Position(x, y) >= Columns
<1>1. Columns \in Nat /\ y * Columns \in Int
  BY Sizes
<1>2. \A u \in Int : Position(u, y) = y * Columns + u
  BY DEF Position, Columns
<1>3. \A z \in Int : z >= y => z * Columns >= y * Columns /\ z * Columns \in Int
  BY RowStarts
<1>4. \A z \in Int : Position(x, z) = z * Columns + x
  BY DEF Position, Columns
<1>5. y >= 0 => y * Columns >= 0 * Columns /\ 0 * Columns = 0
  BY <1>1, RowStarts
<1>6. y >= 1 => y * Columns >= 1 * Columns /\ 1 * Columns = Columns
  BY <1>1, RowStarts
<1>7. \A z \in Int : z >= y => Position(x, z) >= Position(x, y)
  BY <1>1, <1>3, <1>4
<1> QED
  BY <1>1, <1>2, <1>5, <1>6, <1>7

LEMMA FirstColumn ==
  ASSUME NEW y \in Int
  PROVE  Position(0, y) \in Int /\ (y >= 0 => Position(0, y) >= 0)
BY Positions

LEMMA Values ==
  ASSUME Typed
  PROVE  /\ Columns \in Nat /\ Columns >= 1 /\ Rows \in Nat /\ Rows >= 2
         /\ LastRow = Rows - 1 /\ LEN \in Nat /\ LEN >= 1
         /\ screen.x \in Int /\ screen.y \in Int
         /\ printing.x \in Int /\ printing.y \in Int /\ kernel.x \in Int /\ kernel.y \in Int
         /\ count \in Int /\ count >= -1 /\ count <= LEN
         /\ printing.todo \in Seq(Marks) /\ printing.at \in Steps
         /\ Lag(printing) \in {-1, 0, 1}
<1>1. LineRows \in Nat /\ LineRows >= 1 /\ LineRows <= LastRow
  BY Lines
<1>2. LastRow = Rows - 1
  BY DEF LastRow, Rows
<1>3. Lag(printing) \in {-1, 0, 1}
  BY NetOf DEF Lag
<1> QED
  BY <1>1, <1>2, <1>3, Sizes DEF Typed, Outputs

(* A place in an earlier row, or at the beginning of a later one.          *)
LEMMA WithinBelow ==
  ASSUME Typed, NEW x \in Int, NEW y \in Int, NEW z \in Int, NEW p,
         Lag(p) \in {-1, 0, 1},
         \/ Within(x, y, p) /\ y <= z
         \/ x = 0 /\ z >= 1
  PROVE  Within(x, z, p)
<1>1. CASE Within(x, y, p) /\ y <= z
  <2>1. Position(x, z) >= Position(x, y) /\ Position(x, z) \in Int /\ Position(x, y) \in Int
    BY <1>1, Positions
  <2> QED
    BY <1>1, <2>1 DEF Within
<1>2. CASE x = 0 /\ z >= 1
  <2>1. Position(x, z) >= Columns /\ Position(x, z) \in Int
    BY <1>2, Positions
  <2>2. /\ Columns >= 1 /\ Columns \in Nat /\ LEN \in Nat /\ count \in Int /\ count <= LEN
        /\ Lag(p) <= 1 /\ Lag(p) \in Int
    BY Values
  <2>3. 0 >= count - LEN - 2 + Lag(p) /\ 0 >= -LEN - 4 /\ 0 < Columns
    BY <2>2
  <2>4. Position(x, z) >= Lag(p) /\ Position(x, z) >= 0
    BY <2>1, <2>2
  <2> QED
    BY <1>2, <2>2, <2>3, <2>4 DEF Within
<1> QED
  BY <1>1, <1>2

(* Whatever column the compiler reads is one of the line's.                *)
LEMMA ReadWithin ==
  ASSUME Typed, Texts, Vertical, Horizontal, kernel = None, printing.at \in Moving,
         NEW x \in XRead
  PROVE  Within(x, screen.y, printing) /\ x \in Int
<1>1. Within(printing.x, printing.y, printing)
  BY DEF Horizontal
<1>2. \/ printing.x = screen.x /\ printing.y = screen.y
      \/ screen.x = 0 /\ screen.y >= 1 /\ printing.y <= screen.y
  BY DEF Horizontal, Moved
<1>3. x = printing.x \/ x = screen.x
  BY DEF XRead
<1>4. CASE x = printing.x
  BY <1>1, <1>2, <1>4, Values, WithinBelow
<1>5. CASE x = screen.x /\ screen.x = 0 /\ screen.y >= 1
  BY <1>5, Values, WithinBelow
<1> QED
  BY <1>1, <1>2, <1>3, <1>4, <1>5, Values

(* How far the cursor goes to the left after the next character.           *)
LEMMA NetTail ==
  ASSUME Typed, Texts, kernel = None, pc = "more", printing.todo # <<>>,
         printing.at # "load"
  PROVE  LET s == printing.todo
         IN /\ Head(s) = LEFT => /\ Net(s) = 1 /\ Net(Tail(s)) = 0
            /\ Head(s) = CR => Net(s) = 0 /\ Net(Tail(s)) = 0 /\ Tail(s) = <<>>
            /\ Head(s) \in Visible =>
                 /\ Net(Tail(s)) = Net(s) + 1 /\ Tail(s) # <<Blank, LEFT>>
                 /\ s = <<Blank, LEFT>> \/ Net(Tail(s)) = 0
            /\ Head(s) # CLEAR
<1> DEFINE s == printing.todo
<1>1. s \in Typing /\ s # <<>>
  BY DEF Texts, OwnText
<1> HIDE DEF s
<1>2. LEFT \notin Visible /\ CR \notin Visible
  BY DEF Visible, Special
<1>3. /\ Head(s) # CLEAR
      /\ Head(s) = LEFT => Net(s) = 1 /\ Tail(s) \in {<<>>, <<Blank, LEFT>>}
      /\ Head(s) = CR => s = <<CR>>
      /\ Head(s) \in Visible =>
           \/ s = <<Blank, LEFT>> /\ Tail(s) = <<LEFT>>
           \/ Net(s) = -1 /\ Tail(s) = <<>>
  BY <1>1, TypingTexts
<1>4. <<LEFT>> # <<Blank, LEFT>> /\ <<>> # <<Blank, LEFT>>
  BY ShortTexts
<1>5. Head(s) = CR => Net(s) = 0 /\ Tail(s) = <<>> /\ Net(Tail(s)) = 0
  BY <1>3, NetOf, ShortTexts
<1>6. Head(s) = LEFT => Net(s) = 1 /\ Net(Tail(s)) = 0
  BY <1>3, NetOf
<1>7. Head(s) \in Visible =>
        /\ Net(Tail(s)) = Net(s) + 1 /\ Tail(s) # <<Blank, LEFT>>
        /\ s = <<Blank, LEFT>> \/ Net(Tail(s)) = 0
  <2>1. CASE s = <<Blank, LEFT>> /\ Tail(s) = <<LEFT>>
    <3>1. Net(s) = 0 /\ Net(Tail(s)) = 1
      BY <2>1, NetOf
    <3> QED
      BY <1>4, <2>1, <3>1
  <2>2. CASE Net(s) = -1 /\ Tail(s) = <<>>
    <3>1. Net(Tail(s)) = 0
      BY <2>2, NetOf
    <3> QED
      BY <1>4, <2>2, <3>1
  <2> QED
    BY <1>3, <2>1, <2>2
<1> QED
  BY <1>3, <1>5, <1>6, <1>7 DEF s

LEMMA LoadNet ==
  ASSUME Typed, Texts, kernel = None, pc = "more", Load
  PROVE  /\ Net(printing'.todo) = Net(printing.todo)
         /\ printing'.todo = <<Blank, LEFT>> => printing.todo = <<Blank, LEFT>>
<1>1. /\ printing.todo \in Typing /\ printing.todo # <<>> /\ What = Head(printing.todo)
  BY LoadStep DEF Texts, OwnText, What
<1>2. CASE What \notin {KEY_TAB, BS, TAB}
  BY <1>2, LoadStep
<1>3. CASE What = BS
  <2>1. printing.todo = <<BS>>
    BY <1>1, <1>3, TypingTexts
  <2>2. printing'.todo = <<LEFT, Blank, LEFT>> \o <<>>
    BY <1>3, <2>1, LoadStep, ShortTexts
  <2>3. printing'.todo = <<LEFT, Blank, LEFT>>
    BY <2>2
  <2>4. <<LEFT, Blank, LEFT>> # <<Blank, LEFT>>
    BY ShortTexts
  <2> QED
    BY <2>1, <2>3, <2>4, NetOf
<1>4. What # TAB
  BY <1>1, TypingTexts
<1>5. CASE What = KEY_TAB
  <2>1. Tail(printing.todo) = <<>> /\ Net(printing.todo) = -1
    <3>1. KEY_TAB # Blank
      BY DEF KEY_TAB, Blank
    <3> QED
      BY <1>1, <1>5, <3>1, TypingTexts
  <2>2. printing'.at # "load"
    BY <1>5, LoadStep DEF KEY_TAB, BS, TAB
  <2>3. printing'.todo = <<NUL>> \o <<>>
    BY <1>5, <2>1, <2>2, LoadStep DEF Byte
  <2>4. printing'.todo = <<NUL>>
    BY <2>3
  <2> QED
    BY <2>1, <2>4, NetOf, ShortTexts
<1> QED
  BY <1>2, <1>3, <1>4, <1>5

(* The screen is cleared by a command.                                     *)
LEMMA ClearsFirst ==
  ASSUME Typed, Texts, kernel = None, printing.at \in {"clear", "home"},
         printing.todo # <<>>
  PROVE  pc = "prompt"
<1>1. Head(printing.todo) = CLEAR /\ OwnText(printing)
  BY DEF Texts, Fits
<1>2. printing.todo \notin Seq(Visible) /\ CR # CLEAR
  BY <1>1, Values DEF Visible, Special, CR, CLEAR
<1>3. pc # "more"
  BY <1>1, NetTail
<1> QED
  BY <1>1, <1>2, <1>3, ShortTexts DEF OwnText, Typed

(* The kernel prints.                                                      *)
LEMMA OwnHorizontal ==
  ASSUME Typed, Texts, Vertical, Horizontal, Printing, kernel = None
  PROVE  Horizontal'
<1> DEFINE s == printing.todo
<1>1. ASSUME Kept, printing'.at \notin Moving, printing'.at \in Going => screen'.x = 0,
             Within(screen.x, screen.y, printing)'
      PROVE  Horizontal'
  BY <1>1 DEF Horizontal, Kept
<1>2. ASSUME Kept, NEW x \in Int, NEW y \in Int, NEW r \in Int, x <= Columns,
             screen'.x = x, screen'.y = y,
             pc \in {"prompt", "first"} => x >= 0,
             pc = "execute" => x >= -LEN - 4 /\ (printing'.todo = <<>> => x >= 0),
             pc = "more" => /\ Lag(printing') = r /\ x >= count - LEN - 2 + r
                            /\ printing'.todo = <<Blank, LEFT>> => x < Columns,
             broken # "erased" => Position(x, y) >= 0 /\ (pc = "more" => Position(x, y) >= r)
      PROVE  Within(screen.x, screen.y, printing)'
  BY <1>2 DEF Within, Kept, Lag, Rest
<1>3. Within(screen.x, screen.y, printing) \/ printing.at \in Moving
  BY DEF Horizontal
<1>4. /\ Columns \in Nat /\ Columns >= 1 /\ LastRow \in Int /\ LastRow >= 1
      /\ LEN \in Nat /\ count \in Int /\ count <= LEN /\ count >= -1
      /\ screen.x \in Int /\ screen.y \in Int /\ screen.y >= 0 /\ printing.y \in Int
      /\ Lag(printing) \in {-1, 0, 1} /\ Top = LastRow
      /\ pc \in {"prompt", "first", "more", "execute"}
  BY Values DEF Vertical, Top, Typed
<1>5. OwnText(printing)
  BY DEF Texts
<1>6. /\ printing.at \in {"cell", "right"} => Head(s) \in Visible
      /\ printing.at = "left" => Head(s) = LEFT
      /\ printing.at = "return" => Head(s) = CR
      /\ printing.at \in {"clear", "home"} => Head(s) = CLEAR
      /\ printing.at \in Going => Head(s) \in Visible \union {CR}
  BY DEF Texts, Fits
<1>7. /\ printing.at \in Moving => Lag(printing) = Net(s)
      /\ printing.at \in Going => Lag(printing) = Net(Tail(s))
      /\ printing.at \in {"load", "return", "clear", "home"} => Lag(printing) = Net(s)
  BY DEF Lag, Rest, Moving, Going
<1>8. printing'.at \notin Going => Lag(printing') = Net(printing'.todo)
  BY DEF Lag, Rest
<1>9. printing'.at \in Going => Lag(printing') = Net(Tail(printing'.todo))
  BY DEF Lag, Rest
<1>10. CASE Load
  <2>1. /\ Kept /\ screen' = screen /\ printing.at = "load"
        /\ printing'.at \in {"load", "return", "left", "clear", "cell"}
        /\ printing'.at # "load" => printing'.x = screen.x /\ printing'.y = screen.y
        /\ printing'.todo = <<>> => printing'.at = "load"
        /\ printing'.at = "load" => What \in {BS, TAB}
    BY <1>10, LoadStep
  <2>2. Within(screen.x, screen.y, printing)
    BY <1>3, <2>1 DEF Moving
  <2>3. pc = "execute" => printing'.at # "load"
    <3>1. pc = "execute" => What = CR
      BY <1>5, <1>10, LoadStep, ShortTexts DEF OwnText, What
    <3> QED
      BY <2>1, <3>1 DEF CR, BS, TAB
  <2>4. pc = "more" => Lag(printing') = Lag(printing)
    BY <1>7, <1>8, <1>10, <2>1, LoadNet DEF Going
  <2>5. pc = "more" /\ printing'.todo = <<Blank, LEFT>> => printing.todo = <<Blank, LEFT>>
    BY <1>10, LoadNet
  <2>7. Within(screen.x, screen.y, printing)'
    BY <1>2, <1>4, <2>1, <2>2, <2>3, <2>4, <2>5 DEF Within
  <2>8. CASE printing'.at \in Moving
    <3>1. /\ printing'.x = screen'.x /\ printing'.y = screen'.y /\ printing'.at # "load"
          /\ printing'.at \notin Going
      BY <2>1, <2>8 DEF Moving, Going
    <3>2. Within(printing.x, printing.y, printing)'
      BY <2>7, <3>1 DEF Within
    <3> QED
      BY <2>1, <2>8, <3>1, <3>2 DEF Horizontal, Kept
  <2>9. CASE printing'.at \notin Moving
    BY <1>1, <2>1, <2>7, <2>9 DEF Going
  <2> QED
    BY <2>8, <2>9
<1>11. CASE PutCell
  <2>1. At2("cell") /\ Turns("right") /\ screen'.x = screen.x /\ screen'.y = screen.y
    BY <1>11, PrintingSteps
  <2>2. Within(printing.x, printing.y, printing)
    BY <2>1 DEF Horizontal, At2, Moving
  <2>3. Lag(printing') = Lag(printing)
    BY <1>7, <1>8, <2>1 DEF At2, Turns, Moving, Going
  <2>4. Within(printing.x, printing.y, printing)'
    BY <2>1, <2>2, <2>3 DEF At2, Kept, Turns, Within
  <2> QED
    BY <2>1, <2>4 DEF At2, Kept, Turns, Horizontal, Moved, Moving, Going
<1>12. CASE Right
  <2>1. At2("right") /\ screen'.y = screen.y
    BY <1>12, PrintingSteps
  <2>2. PICK x \in XRead : \/ x >= Columns /\ screen'.x = 0 /\ Turns("down")
                           \/ x < Columns /\ screen'.x = x + 1 /\ Ends
    BY <1>12, PrintingSteps
  <2>3. x \in Int /\ Within(x, screen.y, printing)
    BY <2>1, ReadWithin DEF At2, Moving
  <2>4. Head(s) \in Visible /\ s # <<>> /\ pc # "execute" /\ Lag(printing) = Net(s)
    <3>1. Head(s) \in Visible /\ s # <<>>
      BY <1>6, <2>1 DEF At2
    <3>2. CR \notin Visible
      BY DEF Visible, Special
    <3> QED
      BY <1>5, <1>7, <2>1, <3>1, <3>2, ShortTexts DEF OwnText, At2, Moving
  <2>5. pc = "more" =>
          /\ Net(Tail(s)) = Net(s) + 1 /\ Tail(s) # <<Blank, LEFT>>
          /\ s = <<Blank, LEFT>> \/ Net(Tail(s)) = 0
    BY <2>1, <2>4, NetTail DEF At2
  <2>6. CASE x >= Columns /\ screen'.x = 0 /\ Turns("down")
    <3>1. pc = "more" => s # <<Blank, LEFT>>
      BY <1>4, <2>3, <2>6 DEF Within
    <3>2. /\ printing'.at = "down" /\ printing'.todo = s
          /\ pc = "more" => Lag(printing') = 0
      BY <1>9, <2>5, <2>6, <3>1 DEF Turns, Going
    <3>3. Position(0, screen.y) >= 0
      BY <1>4, FirstColumn
    <3>5. Within(screen.x, screen.y, printing)'
      <4>1. pc = "more" => 0 >= count - LEN - 2 + 0 /\ 0 < Columns
        BY <1>4
      <4>2. Kept /\ screen'.y = screen.y /\ screen'.x = 0 /\ screen.y \in Int
        BY <1>4, <2>1, <2>6 DEF At2
      <4>3. Position(0, screen.y) \in Int
        BY <1>4, FirstColumn
      <4> QED
        BY <1>4, <2>4, <3>1, <3>2, <3>3, <4>1, <4>2, <4>3 DEF Within, Kept, Lag, Rest
    <3> QED
      BY <1>1, <2>1, <2>6, <3>2, <3>5 DEF At2, Moving
  <2>7. CASE x < Columns /\ screen'.x = x + 1 /\ Ends
    <3>1. /\ printing'.at = "load" /\ printing'.todo = Tail(s)
          /\ Lag(printing') = Net(Tail(s))
      BY <1>8, <2>7 DEF Ends, Going
    <3>2. Position(x + 1, screen.y) = Position(x, screen.y) + 1 /\ Position(x, screen.y) \in Int
      BY <1>4, <2>3, Positions
    <3>3. pc = "more" => /\ Lag(printing') = Lag(printing) + 1
                         /\ printing'.todo # <<Blank, LEFT>>
      BY <2>4, <2>5, <3>1
    <3>5. Within(screen.x, screen.y, printing)'
      BY <1>2, <1>4, <2>1, <2>3, <2>4, <2>7, <3>2, <3>3 DEF At2, Within
    <3> QED
      BY <1>1, <2>1, <3>1, <3>5 DEF At2, Moving, Going
  <2> QED
    BY <2>2, <2>6, <2>7
<1>13. CASE Left
  <2>1. At2("left") /\ screen'.y = screen.y /\ Ends
    BY <1>13, PrintingSteps
  <2>2. PICK x \in XRead : screen'.x = x - 1
    BY <1>13, PrintingSteps
  <2>3. x \in Int /\ Within(x, screen.y, printing)
    BY <2>1, ReadWithin DEF At2, Moving
  <2>4. Head(s) = LEFT /\ s # <<>> /\ Lag(printing) = Net(s) /\ s \in Seq(Marks)
    BY <1>6, <1>7, <2>1, Values DEF At2, Moving
  <2>5. pc = "more"
    <3>1. s \notin Seq(Marks \ {BS, LEFT}) /\ s \notin Seq(Visible)
      BY <2>4 DEF Visible, Special
    <3>2. CR # LEFT
      BY DEF CR, LEFT
    <3> QED
      BY <1>4, <1>5, <2>4, <3>1, <3>2, ShortTexts DEF OwnText
  <2>6. Lag(printing) = 1 /\ Lag(printing') = 0
    BY <1>8, <2>1, <2>4, <2>5, NetTail DEF At2, Ends, Going
  <2>7. Position(x - 1, screen.y) = Position(x, screen.y) - 1 /\ Position(x, screen.y) \in Int
    BY <1>4, <2>3, Positions
  <2>9. Within(screen.x, screen.y, printing)'
    BY <1>2, <1>4, <2>1, <2>2, <2>3, <2>5, <2>6, <2>7 DEF At2, Within
  <2> QED
    BY <1>1, <2>1, <2>9 DEF At2, Ends, Moving, Going
<1>14. CASE Return
  <2>1. At2("return") /\ Turns("down") /\ screen'.x = 0 /\ screen'.y = screen.y
    BY <1>14, PrintingSteps
  <2>2. pc = "more" => Lag(printing') = 0
    BY <1>6, <1>9, <2>1, NetTail DEF At2, Turns, Going
  <2>3. Position(0, screen.y) >= 0
    BY <1>4, FirstColumn
  <2>5. Within(screen.x, screen.y, printing)'
    BY <1>2, <1>4, <2>1, <2>2, <2>3 DEF At2
  <2> QED
    BY <1>1, <2>1, <2>5 DEF At2, Turns, Moving
<1>15. ASSUME Kept, printing.at \in Going, printing.todo # <<>>, screen'.x = 0,
              screen'.y \in Int, screen'.y >= 1 \/ screen'.y = screen.y,
              \/ printing'.at \in Going /\ printing'.todo = printing.todo
              \/ printing'.at = "load" /\ printing'.todo = Tail(printing.todo)
       PROVE  Horizontal'
  <2>1. Lag(printing') = Lag(printing)
    BY <1>7, <1>8, <1>9, <1>15 DEF Going
  <2>2. screen.x = 0 /\ Within(0, screen.y, printing) /\ printing'.at \notin Moving
    BY <1>3, <1>15 DEF Horizontal, Moving, Going
  <2>3. Within(0, screen'.y, printing)
    BY <1>4, <1>15, <2>2, WithinBelow
  <2>4. Position(0, screen'.y) \in Int
    BY <1>15, FirstColumn
  <2>6. Within(screen.x, screen.y, printing)'
    BY <1>2, <1>4, <1>15, <2>1, <2>3, <2>4 DEF Within
  <2> QED
    BY <1>1, <1>15, <2>2, <2>6
<1>16. printing.at \in Going => screen.x = 0
  BY DEF Horizontal
<1>17. CASE Down
  <2>1. /\ At2("down") /\ printing'.at = "check" /\ printing'.todo = printing.todo
        /\ screen'.x = screen.x
        /\ screen'.y = printing.y + 1 \/ screen'.y = screen.y + 1
    BY <1>17, PrintingSteps DEF YRead
  <2>2. printing.y >= 0
    BY <2>1 DEF At2, Vertical, InRow, Going
  <2> QED
    BY <1>4, <1>15, <1>16, <2>1, <2>2 DEF At2, Going
<1>18. CASE Check
  <2>1. At2("check") /\ screen' = screen /\ (Turns("scroll") \/ Ends)
    BY <1>18, PrintingSteps
  <2> QED
    BY <1>4, <1>15, <1>16, <2>1 DEF At2, Turns, Ends, Going
<1>19. CASE Scroll
  <2>1. At2("scroll") /\ Turns("up") /\ screen'.x = screen.x /\ screen'.y = screen.y
    BY <1>19, PrintingSteps
  <2> QED
    BY <1>4, <1>15, <1>16, <2>1 DEF At2, Turns, Going
<1>20. CASE Up
  <2>1. /\ At2("up") /\ Ends /\ screen'.x = screen.x
        /\ screen'.y = printing.y - 1 \/ screen'.y = screen.y - 1
    BY <1>20, PrintingSteps DEF YRead
  <2>2. printing.y = LastRow + 1 /\ screen.y = LastRow + 1
    BY <1>4, <2>1 DEF At2, Vertical, RowOf
  <2> QED
    BY <1>4, <1>15, <1>16, <2>1, <2>2 DEF At2, Ends, Going
<1>21. CASE Clear
  <2>1. At2("clear") /\ Turns("home") /\ screen'.x = screen.x /\ screen'.y = screen.y
    BY <1>21, PrintingSteps
  <2>2. pc = "prompt" /\ Within(screen.x, screen.y, printing)
    BY <1>3, <1>6, <2>1, ClearsFirst DEF At2, Moving
  <2>3. Within(screen.x, screen.y, printing)'
    BY <2>1, <2>2 DEF At2, Kept, Within
  <2> QED
    BY <1>1, <2>1, <2>3 DEF At2, Turns, Moving, Going
<1>22. CASE Home
  <2>1. At2("home") /\ Ends /\ screen'.x = 0 /\ screen'.y = 0
    BY <1>22, PrintingSteps
  <2>2. pc = "prompt"
    BY <1>6, <2>1, ClearsFirst DEF At2
  <2>3. Position(0, 0) >= 0
    BY Positions
  <2>4. Within(screen.x, screen.y, printing)'
    BY <1>4, <2>1, <2>2, <2>3 DEF At2, Kept, Within
  <2> QED
    BY <1>1, <2>1, <2>4 DEF At2, Ends, Moving, Going
<1> QED
  BY <1>10, <1>11, <1>12, <1>13, <1>14, <1>17, <1>18, <1>19, <1>20, <1>21, <1>22
     DEF Printing

(* The handler prints.                                                     *)
LEMMA MessageHorizontal ==
  ASSUME Typed, Texts, Vertical, Horizontal, Printing, kernel # None
  PROVE  Horizontal'
<1> DEFINE s == printing.todo
<1>1. HandlerText(printing) /\ printing \in Outputs /\ s \in Seq(Marks)
  BY Values DEF Texts, Typed
<1>2. /\ Columns \in Nat /\ Columns >= 1 /\ LastRow \in Int /\ LastRow >= 1
      /\ LEN \in Nat /\ screen.x \in Int /\ screen.y \in Int /\ screen.y >= 0
      /\ Top \in Int /\ Top >= 1 /\ Len(Message) \in Nat /\ Len(s) \in Nat
      /\ (High => Top = LastRow + 1)
  <2>1. Top = IF High THEN Rows ELSE LastRow
    BY DEF Top, LastRow
  <2>2. Rows = LastRow + 1 /\ Rows \in Nat /\ Rows >= 2
    BY Values
  <2>3. Top \in Int /\ Top >= 1 /\ (High => Top = LastRow + 1)
    BY <2>1, <2>2
  <2>4. Len(Message) \in Nat /\ Len(s) \in Nat
    BY <1>1, GivenTexts
  <2>5. screen.y >= 0
    BY DEF Vertical
  <2> QED
    BY <2>2, <2>3, <2>4, <2>5, Values
<1>3. /\ -LEN - 4 <= screen.x /\ screen.x <= Columns
      /\ Position(screen.x, screen.y) >= 0
      /\ kernel.at \in Moving => Within(kernel.x, kernel.y, kernel)
      /\ printing.at \in Going => screen.x = 0
      /\ printing.at \in Moving => printing.x = screen.x
      /\ High /\ printing.at \in {"load", "cell", "right"} =>
            0 <= screen.x /\ screen.x + Len(s) <= Len(Message) + 1
  BY DEF Horizontal
<1>4. ASSUME Kept, screen'.x \in Int, screen'.y \in Int,
             printing'.at \in Going => screen'.x = 0,
             -LEN - 4 <= screen'.x, screen'.x <= Columns,
             Position(screen'.x, screen'.y) >= 0,
             printing'.at \in Moving => printing'.x = screen'.x,
             printing'.todo = <<>> => screen'.x = 0 /\ screen'.y >= 1,
             High /\ printing'.at \in {"load", "cell", "right"} =>
               0 <= screen'.x /\ screen'.x + Len(printing'.todo) <= Len(Message) + 1
      PROVE  Horizontal'
  <2>1. Position(screen.x, screen.y)' = Position(screen'.x, screen'.y)
    BY DEF Position
  <2>2. (kernel.at \in Moving => Within(kernel.x, kernel.y, kernel))'
    BY <1>3, <1>4 DEF Kept, Within, Lag, Rest, Position
  <2>3. High' <=> High
    BY <1>4 DEF Kept, High
  <2> QED
    BY <1>4, <2>1, <2>2, <2>3 DEF Kept, Horizontal
<1>5. /\ printing.at \in {"cell", "right"} => Head(s) \in Visible
      /\ printing.at \notin {"left", "clear", "home"}
  BY <1>1 DEF Texts, Fits, HandlerText
<1>6. s # <<>> =>
        /\ Head(s) \in Visible \union {CR} /\ Len(Tail(s)) = Len(s) - 1
        /\ Head(s) \in Visible => Tail(s) # <<>> /\ Len(s) >= 2
  BY <1>1, HandlerTail
<1>7. CASE Load
  <2>1. /\ Kept /\ screen' = screen /\ printing.at = "load" /\ s # <<>> /\ What = Head(s)
        /\ printing'.at \in {"load", "return", "left", "clear", "cell"}
        /\ printing'.at = "load" <=> What \in {BS, TAB}
        /\ printing'.at = "left" => What = LEFT
        /\ What # KEY_TAB /\ printing'.at # "load" => printing'.todo = s
        /\ printing'.at # "load" => printing'.x = screen.x
    BY <1>7, LoadStep DEF What
  <2>2. printing'.at # "load" /\ printing'.at # "left" /\ printing'.todo = s
    BY <1>6, <2>1 DEF Visible, Special, CR, BS, TAB, LEFT, KEY_TAB
  <2> QED
    BY <1>2, <1>3, <1>4, <2>1, <2>2 DEF Going, Moving
<1>8. CASE PutCell
  <2>1. At2("cell") /\ Turns("right") /\ screen'.x = screen.x /\ screen'.y = screen.y
    BY <1>8, PrintingSteps
  <2> QED
    BY <1>2, <1>3, <1>4, <2>1 DEF At2, Turns, Moving, Going
<1>9. CASE Right
  <2>1. At2("right") /\ screen'.y = screen.y /\ screen.x = printing.x
    BY <1>3, <1>9, PrintingSteps DEF At2, Moving
  <2>2. \/ screen.x >= Columns /\ screen'.x = 0 /\ Turns("down")
        \/ screen.x < Columns /\ screen'.x = screen.x + 1 /\ Ends
    BY <1>9, <2>1, PrintingSteps DEF XRead
  <2>3. Tail(s) # <<>> /\ Len(Tail(s)) = Len(s) - 1
    BY <1>5, <1>6, <2>1 DEF At2
  <2>4. CASE screen'.x = 0 /\ Turns("down")
    <3>1. Position(0, screen.y) >= 0
      BY <1>2, FirstColumn
    <3> QED
      BY <1>2, <1>4, <2>1, <2>4, <3>1 DEF At2, Turns, Going, Moving
  <2>5. CASE screen.x < Columns /\ screen'.x = screen.x + 1 /\ Ends
    <3>1. Position(screen.x + 1, screen.y) >= 0
      <4>1. /\ Position(screen.x, screen.y) \in Int
            /\ Position(screen.x + 1, screen.y) = Position(screen.x, screen.y) + 1
        BY <1>2, Positions
      <4> QED
        BY <1>3, <4>1
    <3>2. High => 0 <= screen'.x /\ screen'.x + Len(Tail(s)) <= Len(Message) + 1
      BY <1>2, <1>3, <2>1, <2>3, <2>5 DEF At2
    <3> QED
      BY <1>2, <1>3, <1>4, <2>1, <2>3, <2>5, <3>1, <3>2 DEF At2, Ends, Going, Moving
  <2> QED
    BY <2>2, <2>4, <2>5
<1>10. CASE Return
  <2>1. At2("return") /\ Turns("down") /\ screen'.x = 0 /\ screen'.y = screen.y
    BY <1>10, PrintingSteps
  <2>2. Position(0, screen.y) >= 0
    BY <1>2, FirstColumn
  <2> QED
    BY <1>2, <1>4, <2>1, <2>2 DEF At2, Turns, Going, Moving
<1>11. ASSUME Kept, printing.at \in Going, s # <<>>, screen'.x = 0,
              screen'.y \in Int, screen'.y >= 0,
              \/ printing'.at \in Going /\ printing'.todo = s
              \/ /\ printing'.at = "load" /\ printing'.todo = Tail(s) /\ screen'.y >= 1
       PROVE  Horizontal'
  <2>1. Position(0, screen'.y) >= 0
    BY <1>11, FirstColumn
  <2>2. HandlerText(printing)' /\ printing' \in Outputs
    BY <1>11, PrintingTexts, PrintingTyped DEF Texts, Kept, Typed
  <2>3. Len(printing'.todo) \in Int /\ Len(printing'.todo) <= Len(Message) + 1
    BY <2>2 DEF HandlerText, Outputs
  <2>4. /\ printing'.at \notin Moving
        /\ printing'.todo = <<>> => screen'.y >= 1
    BY <1>11 DEF Going, Moving
  <2> QED
    <3>1. /\ screen'.x \in Int /\ -LEN - 4 <= screen'.x /\ screen'.x <= Columns
          /\ Position(screen'.x, screen'.y) >= 0
      BY <1>2, <1>11, <2>1
    <3>2. printing'.at \in {"load", "cell", "right"} =>
            0 <= screen'.x /\ screen'.x + Len(printing'.todo) <= Len(Message) + 1
      BY <1>2, <1>11, <2>3
    <3> QED
      BY <1>4, <1>11, <2>4, <3>1, <3>2
<1>12. printing.at \in Going => printing.y = screen.y
  BY DEF Vertical, InRow
<1>13. CASE Down
  <2>1. /\ At2("down") /\ printing'.at = "check" /\ printing'.todo = s
        /\ screen'.x = screen.x
        /\ screen'.y = printing.y + 1 \/ screen'.y = screen.y + 1
    BY <1>13, PrintingSteps DEF YRead
  <2> QED
    BY <1>2, <1>3, <1>11, <1>12, <2>1 DEF At2, Going
<1>14. CASE Check
  <2>1. At2("check") /\ screen' = screen /\ (Turns("scroll") \/ Ends)
    BY <1>14, PrintingSteps
  <2>2. screen.y >= 1
    BY <2>1 DEF At2, Vertical
  <2> QED
    BY <1>2, <1>3, <1>11, <2>1, <2>2 DEF At2, Turns, Ends, Going
<1>15. CASE Scroll
  <2>1. At2("scroll") /\ Turns("up") /\ screen'.x = screen.x /\ screen'.y = screen.y
    BY <1>15, PrintingSteps
  <2> QED
    BY <1>2, <1>3, <1>11, <2>1 DEF At2, Turns, Going
<1>16. CASE Up
  <2>1. /\ At2("up") /\ Ends /\ screen'.x = screen.x
        /\ screen'.y = printing.y - 1 \/ screen'.y = screen.y - 1
    BY <1>16, PrintingSteps DEF YRead
  <2>2. screen.y = Top + 1
    BY <2>1 DEF At2, Vertical, RowOf
  <2> QED
    BY <1>2, <1>3, <1>11, <1>12, <2>1, <2>2 DEF At2, Ends, Going
<1>17. CASE Left \/ Clear \/ Home
  BY <1>5, <1>17, PrintingSteps DEF At2
<1> QED
  BY <1>7, <1>8, <1>9, <1>10, <1>13, <1>14, <1>15, <1>16, <1>17 DEF Printing

-----------------------------------------------------------------------------
(* How far the line reaches.                                               *)

LEMMA Columnwise ==
  ASSUME NEW x \in Int, NEW y \in Int
  PROVE  /\ Position(x, y) = Position(0, y) + x
         /\ Position(0, y + 1) = Position(0, y) + Columns
<1>1. Columns \in Nat /\ y * Columns \in Int /\ (y + 1) * Columns = y * Columns + Columns
  BY Sizes, RowStarts
<1> QED
  BY <1>1 DEF Position, Columns

LEMMA PrintingReach ==
  ASSUME Typed, Texts, Vertical, Horizontal, Reach, Printing
  PROVE  Reach'
<1> DEFINE s == printing.todo
           reached == Here + screen.y
<1> SUFFICES ASSUME kernel' = None, broken' = "no", pc' \in {"first", "more"},
                    screen'.y < LineRows
             PROVE  LET after == (Here + screen.y)'
                    IN /\ printing'.at \in {"load", "cell", "right", "left"}
                            /\ printing'.todo # <<CR>> => after >= Margin(printing)'
                       /\ printing'.at = "down" => after + Columns + 1 >= Margin(printing)'
                       /\ printing'.at = "check" => after >= Margin(printing)'
  BY DEF Reach
<1>1. Kept
  BY LoadStep, PrintingSteps DEF Printing, At2
<1>2. kernel = None /\ broken = "no" /\ pc \in {"first", "more"} /\ pc' = pc
  BY <1>1 DEF Kept
<1>3. /\ Columns \in Nat /\ LineRows \in Nat /\ LineRows <= LastRow /\ LineRows + 2 <= Columns
      /\ screen.x \in Int /\ screen.y \in Int /\ Here \in Int /\ screen.x <= Columns
      /\ count \in Int /\ s \in Seq(Marks) /\ Len(s) \in Nat /\ LastRow \in Int
      /\ Len(PromptText) \in Nat /\ Top = LastRow
      /\ Position(0, screen.y) \in Int /\ Here = Position(0, screen.y) + screen.x
  <2>1. screen.x <= Columns
    BY <1>2 DEF Horizontal, Within, Moved
  <2>2. screen.x \in Int /\ screen.y \in Int /\ 0 \in Int
    BY Values
  <2>3. Position(screen.x, screen.y) = Position(0, screen.y) + screen.x
    BY <2>2, Columnwise
  <2>4. Position(0, screen.y) \in Int
    BY <2>2, Positions
  <2>5. Here = Position(0, screen.y) + screen.x /\ Here \in Int
    BY <2>2, <2>3, <2>4 DEF Here
  <2>6. s \in Seq(Marks) /\ Len(s) \in Nat
    BY Values
  <2>7. /\ Columns \in Nat /\ LineRows \in Nat /\ LineRows <= LastRow /\ LastRow \in Int
        /\ LineRows + 2 <= Columns /\ Len(PromptText) \in Nat /\ count \in Int
    <3>1. Len(PromptText) \in Nat
      BY GivenTexts
    <3>2. /\ Columns \in Nat /\ LineRows \in Nat /\ LineRows <= LastRow
          /\ LineRows + 2 <= Columns
      BY Values, Lines
    <3>3. LastRow \in Int /\ count \in Int
      BY Values
    <3> QED
      BY <3>1, <3>2, <3>3
  <2>8. Top = LastRow
    BY <1>2 DEF Top
  <2> QED
    BY <2>1, <2>2, <2>4, <2>5, <2>6, <2>7, <2>8
<1>4. /\ printing.at \in Moving => printing.x = screen.x
      /\ printing.at \in InRow => printing.y = screen.y
  BY <1>2 DEF Horizontal, Vertical, Moved
<1>5. screen.y < LineRows =>
        /\ printing.at \in {"load", "cell", "right", "left"} /\ s # <<CR>> =>
             reached >= Margin(printing)
        /\ printing.at = "down" => reached + Columns + 1 >= Margin(printing)
        /\ printing.at = "check" => reached >= Margin(printing)
  BY <1>2 DEF Reach
<1>6. /\ printing.at \notin Going =>
           Margin(printing) = IF pc = "first" THEN Len(PromptText) - Len(s)
                              ELSE LineRows + count + Net(s)
      /\ printing.at \in Going =>
           Margin(printing) = IF pc = "first" THEN Len(PromptText) - Len(Tail(s))
                              ELSE LineRows + count + Net(Tail(s))
  BY DEF Margin, Rest, Lag
<1>7. /\ printing'.at \notin Going =>
           Margin(printing)' = IF pc = "first" THEN Len(PromptText) - Len(printing'.todo)
                               ELSE LineRows + count + Net(printing'.todo)
      /\ printing'.at \in Going =>
           Margin(printing)' = IF pc = "first" THEN Len(PromptText) - Len(Tail(printing'.todo))
                               ELSE LineRows + count + Net(Tail(printing'.todo))
  BY <1>1 DEF Kept, Margin, Rest, Lag
<1>8. \A t : Net(t) \in Int
  BY NetOf
<1>9. Here' = Position(screen'.x, screen'.y)
  BY DEF Here, Position
<1>10. /\ OwnText(printing)
       /\ printing.at \in {"cell", "right"} => Head(s) \in Visible
       /\ printing.at = "left" => Head(s) = LEFT
       /\ printing.at = "return" => Head(s) = CR
  BY <1>2 DEF Texts, Fits
<1>11. CR \notin Visible /\ LEFT \notin Visible
  BY DEF Visible, Special
<1>12. CASE Load
  <2>1. /\ screen' = screen /\ printing.at = "load" /\ s # <<>> /\ What = Head(s)
        /\ printing'.at \in {"load", "return", "left", "clear", "cell"}
        /\ printing'.at = "load" <=> What \in {BS, TAB}
        /\ printing'.at # "load" => Len(printing'.todo) = Len(s)
        /\ What \notin {KEY_TAB, BS, TAB} => printing'.todo = s
    BY <1>12, LoadStep DEF What
  <2>2. pc = "first" => Len(printing'.todo) = Len(s)
    BY <1>10, <2>1 DEF OwnText, Visible, Special
  <2>3. pc = "more" => Net(printing'.todo) = Net(s)
    BY <1>2, <1>12, LoadNet
  <2>4. printing'.todo # <<CR>> => s # <<CR>>
    BY <2>1, ShortTexts DEF CR, KEY_TAB, BS, TAB
  <2>5. Here' = Here /\ Margin(printing)' = Margin(printing)
    BY <1>2, <1>6, <1>7, <2>1, <2>2, <2>3 DEF Going, Here, Position
  <2> QED
    BY <1>5, <2>1, <2>4, <2>5 DEF Here
<1>13. CASE PutCell
  <2>1. At2("cell") /\ Turns("right") /\ screen'.x = screen.x /\ screen'.y = screen.y
    BY <1>13, PrintingSteps
  <2>2. Here' = Here /\ Margin(printing)' = Margin(printing)
    BY <1>6, <1>7, <2>1 DEF At2, Turns, Going, Here, Position
  <2> QED
    BY <1>5, <2>1, <2>2 DEF At2, Turns
<1>14. CASE Right
  <2>1. At2("right") /\ screen'.y = screen.y /\ s # <<>> /\ Head(s) \in Visible
    BY <1>10, <1>14, PrintingSteps DEF At2
  <2>2. \/ screen.x >= Columns /\ screen'.x = 0 /\ Turns("down")
        \/ screen.x < Columns /\ screen'.x = screen.x + 1 /\ Ends
    BY <1>4, <1>14, <2>1, PrintingSteps DEF XRead, At2, Moving
  <2>3. s # <<CR>> /\ reached >= Margin(printing)
    BY <1>5, <1>11, <2>1, ShortTexts DEF At2
  <2>4. Len(Tail(s)) = Len(s) - 1 /\ (pc = "more" => Net(Tail(s)) = Net(s) + 1)
    BY <1>2, <1>3, <2>1, NetTail DEF At2
  <2>5. CASE screen.x >= Columns /\ screen'.x = 0 /\ Turns("down")
    <3>1. Here' + Columns = Here /\ Here' \in Int
      BY <1>3, <1>9, <2>1, <2>5
    <3>2. Margin(printing)' = Margin(printing) + 1 /\ Margin(printing) \in Int
      BY <1>2, <1>3, <1>6, <1>7, <1>8, <2>1, <2>4, <2>5 DEF At2, Turns, Going
    <3>3. Here' + screen'.y + Columns + 1 >= Margin(printing)'
      <4>1. Here \in Int /\ screen.y \in Int /\ Columns \in Int /\ screen'.y = screen.y
        BY <1>3, <2>1
      <4>2. Here + screen.y >= Margin(printing)
        BY <2>3
      <4>3. ASSUME NEW h \in Int, NEW g \in Int, NEW c \in Int, NEW y \in Int, NEW m \in Int,
                   g + c = h, h + y >= m
            PROVE  g + y + c + 1 >= m + 1
        BY ONLY <4>3
      <4> QED
        BY <3>1, <3>2, <4>1, <4>2, <4>3
    <3> QED
      BY <2>5, <3>3 DEF Turns
  <2>6. CASE screen.x < Columns /\ screen'.x = screen.x + 1 /\ Ends
    <3>1. Here' = Here + 1
      <4>1. Position(screen.x + 1, screen.y) = Position(screen.x, screen.y) + 1
        BY <1>3, Positions
      <4> QED
        BY <1>9, <2>1, <2>6, <4>1 DEF Here
    <3>2. Margin(printing)' = Margin(printing) + 1 /\ Margin(printing) \in Int
      BY <1>2, <1>3, <1>6, <1>7, <1>8, <2>1, <2>4, <2>6 DEF At2, Ends, Going
    <3>3. Here' + screen'.y >= Margin(printing)'
      BY <1>3, <2>1, <2>3, <3>1, <3>2
    <3> QED
      BY <2>6, <3>3 DEF Ends
  <2> QED
    BY <2>2, <2>5, <2>6
<1>15. CASE Left
  <2>1. At2("left") /\ screen'.y = screen.y /\ Ends /\ s # <<>> /\ Head(s) = LEFT
    BY <1>10, <1>15, PrintingSteps DEF At2
  <2>2. screen'.x = screen.x - 1
    BY <1>4, <1>15, <2>1, PrintingSteps DEF XRead, At2, Moving
  <2>3. s # <<CR>> /\ reached >= Margin(printing)
    <3>1. CR # LEFT
      BY DEF CR, LEFT
    <3> QED
      BY <1>5, <2>1, <3>1, ShortTexts DEF At2
  <2>4. pc = "more" /\ Net(s) = 1 /\ Net(Tail(s)) = 0
    <3>1. pc = "more"
      BY <1>2, <1>3, <1>10, <1>11, <2>1 DEF OwnText
    <3> QED
      BY <1>2, <2>1, <3>1, NetTail DEF At2
  <2>5. Here' = Here - 1
    <3>1. Position(screen.x - 1, screen.y) = Position(screen.x, screen.y) - 1
      BY <1>3, Positions
    <3> QED
      BY <1>9, <2>1, <2>2, <3>1 DEF Here
  <2>6. Margin(printing)' = Margin(printing) - 1 /\ Margin(printing) \in Int
    BY <1>2, <1>3, <1>6, <1>7, <2>1, <2>4 DEF At2, Ends, Going
  <2>7. Here' + screen'.y >= Margin(printing)'
    BY <1>3, <2>1, <2>3, <2>5, <2>6
  <2> QED
    BY <2>1, <2>7 DEF Ends
<1>16. CASE Return
  <2>1. /\ At2("return") /\ Turns("down") /\ screen'.x = 0 /\ screen'.y = screen.y
        /\ s # <<>> /\ Head(s) = CR
    BY <1>10, <1>16, PrintingSteps DEF At2
  <2>2. pc = "more"
    BY <1>2, <1>3, <1>10, <1>11, <2>1 DEF OwnText
  <2>3. s = <<CR>> /\ count <= 1 /\ Net(Tail(s)) = 0
    <3>1. s \in Typing /\ (s = <<CR>> => count <= 1)
      BY <1>10, <2>2 DEF OwnText
    <3>2. s = <<CR>>
      BY <2>1, <3>1, TypingTexts
    <3> QED
      BY <1>2, <2>1, <2>2, <3>1, <3>2, NetTail DEF At2
  <2>4. Margin(printing)' = LineRows + count
    BY <1>3, <1>7, <2>1, <2>2, <2>3 DEF Turns, Going
  <2>5. Here' + screen'.y >= 0 /\ Here' \in Int
    <3>1. screen.y >= 0 /\ Position(0, screen.y) >= 0
      BY <1>3, FirstColumn DEF Vertical
    <3> QED
      BY <1>3, <1>9, <2>1, <3>1
  <2> QED
    BY <1>3, <2>1, <2>3, <2>4, <2>5 DEF Turns
<1>17. CASE Down
  <2>1. /\ At2("down") /\ printing'.at = "check" /\ printing'.todo = s
        /\ screen'.x = screen.x /\ screen'.y = screen.y + 1
    BY <1>4, <1>17, PrintingSteps DEF YRead, At2, InRow, Going
  <2>2. Here' = Here + Columns
    <3>1. screen.y + 1 \in Int /\ screen.x \in Int /\ screen.y \in Int
      BY <1>3
    <3>2. Position(screen.x, screen.y + 1) = Position(0, screen.y + 1) + screen.x
      BY <3>1, Columnwise
    <3>3. Position(0, screen.y + 1) = Position(0, screen.y) + Columns
      BY <3>1, Columnwise
    <3> QED
      BY <1>3, <1>9, <2>1, <3>2, <3>3
  <2>3. Margin(printing)' = Margin(printing) /\ Margin(printing) \in Int
    BY <1>3, <1>6, <1>7, <1>8, <2>1 DEF At2, Going
  <2>4. reached + Columns + 1 >= Margin(printing)
    BY <1>3, <1>5, <2>1 DEF At2
  <2> QED
    BY <1>3, <2>1, <2>2, <2>3, <2>4
<1>18. CASE Check
  <2>1. At2("check") /\ screen' = screen /\ (Turns("scroll") \/ Ends)
    BY <1>18, PrintingSteps
  <2>2. Here' = Here /\ reached >= Margin(printing)
    BY <1>5, <2>1 DEF At2, Here, Position
  <2>3. CASE Turns("scroll")
    BY <2>3 DEF Turns
  <2>4. CASE Ends
    <3>1. printing'.at = "load" /\ printing'.todo = Tail(s)
      BY <2>4 DEF Ends
    <3>2. Margin(printing)' = Margin(printing)
      BY <1>6, <1>7, <2>1, <3>1 DEF At2, Going
    <3> QED
      BY <2>1, <2>2, <3>1, <3>2
  <2> QED
    BY <2>1, <2>3, <2>4
<1>19. CASE Scroll
  BY <1>19, PrintingSteps DEF Turns
<1>20. CASE Up
  <2>1. screen'.y = printing.y - 1 \/ screen'.y = screen.y - 1
    BY <1>20, PrintingSteps DEF YRead
  <2>2. printing.y = LastRow + 1 /\ screen.y = LastRow + 1
    BY <1>3, <1>20, PrintingSteps DEF At2, Vertical, RowOf
  <2> QED
    BY <1>3, <2>1, <2>2
<1>21. CASE Clear \/ Home
  BY <1>2, <1>21, PrintingSteps, ClearsFirst DEF At2
<1> QED
  BY <1>12, <1>13, <1>14, <1>15, <1>16, <1>17, <1>18, <1>19, <1>20, <1>21
     DEF Printing


-----------------------------------------------------------------------------
(* The column and how far the line reaches, when the kernel steps.         *)

(* There is something in front of the cursor to be erased.                 *)
LEMMA Erasable ==
  ASSUME Typed, Vertical, Horizontal, Reach, NEW at \in {"first", "more"}, Kernel(at),
         broken = "no", at = "more" => count >= 0
  PROVE  Here >= 1
<1>1. /\ pc = at /\ kernel = None /\ printing.todo = <<>> /\ printing.at = "load"
      /\ printing = Output(<<>>)
  BY KernelStep
<1>2. /\ screen.x \in Int /\ screen.y \in Int /\ Here \in Int /\ count \in Int
      /\ LEN \in Nat /\ LEN >= 1
      /\ LineRows \in Nat /\ LineRows * Columns >= LEN + 3
      /\ LineRows + 2 <= Len(PromptText) /\ Len(PromptText) \in Nat
  BY Values, Reads, Lines, GivenTexts
<1>3. Rest(printing) = <<>> /\ Lag(printing) = 0
  BY <1>1, NetOf DEF Rest, Lag, Going
<1>4. Within(screen.x, screen.y, printing)
  BY <1>1 DEF Horizontal, Moving
<1>5. CASE screen.y < LineRows
  <2>1. Here + screen.y >= Margin(printing)
    <3>1. printing.todo # <<CR>>
      BY <1>1
    <3> QED
      BY <1>1, <1>5, <3>1 DEF Reach
  <2>2. Margin(printing) >= LineRows
    <3>1. CASE at = "first"
      <4>1. Margin(printing) = Len(PromptText) - 0
        BY <1>1, <1>3, <3>1 DEF Margin
      <4> QED
        BY <1>2, <4>1
    <3>2. CASE at = "more"
      <4>1. Margin(printing) = LineRows + count + 0
        BY <1>1, <1>3, <3>2 DEF Margin
      <4> QED
        BY <1>2, <3>2, <4>1
    <3> QED
      BY <3>1, <3>2
  <2>3. Margin(printing) \in Int
    BY <1>1, <1>2, <1>3 DEF Margin
  <2> QED
    BY <1>2, <1>5, <2>1, <2>2, <2>3
<1>6. CASE screen.y >= LineRows
  <2>1. Position(screen.x, screen.y) >= Position(screen.x, LineRows)
    <3>1. LineRows \in Int
      BY <1>2
    <3> QED
      BY <1>2, <1>6, <3>1, Positions
  <2>2. /\ Position(screen.x, LineRows) = Position(0, LineRows) + screen.x
        /\ Position(0, LineRows) = LineRows * Columns + 0
    <3>1. LineRows \in Int
      BY <1>2
    <3> QED
      BY <1>2, <3>1, Columnwise DEF Position, Columns
  <2>3. screen.x >= -LEN - 2
    <3>1. CASE at = "first"
      BY <1>1, <1>2, <1>4, <3>1 DEF Within
    <3>2. CASE at = "more"
      BY <1>1, <1>2, <1>3, <1>4, <3>2 DEF Within
    <3> QED
      BY <3>1, <3>2
  <2>4. LineRows * Columns \in Int
    BY <1>2, Sizes
  <2> HIDE DEF Rows, Columns
  <2> QED
    BY <1>2, <2>1, <2>2, <2>3, <2>4 DEF Here
<1> QED
  BY <1>2, <1>5, <1>6

LEMMA KernelColumns ==
  ASSUME Typed, Vertical, Horizontal, Reach,
         \/ Prompt \/ Execute \/ ReadBackspace \/ ReadReturn \/ ReadStops \/ Unfollowed
         \/ \E c \in Letters \union Control : ReadFirst(c) \/ ReadLetter(c)
  PROVE  Horizontal' /\ Reach'
<1>1. /\ screen.x \in Int /\ screen.y \in Int /\ Here \in Int /\ count \in Int
      /\ count >= -1 /\ LEN \in Nat /\ LEN >= 1 /\ screen.y >= 0
      /\ LineRows \in Nat /\ LineRows + 2 <= Len(PromptText) /\ Len(PromptText) \in Nat
  BY Values, Reads, Lines, GivenTexts DEF Vertical
<1>2. ASSUME NEW at, Kernel(at)
      PROVE  /\ screen.x <= Columns
             /\ at \in {"prompt", "first", "execute"} => screen.x >= 0
             /\ at = "more" => screen.x >= count - LEN - 2
             /\ broken # "erased" => Here >= 0
             /\ broken = "no" /\ screen.y < LineRows =>
                  /\ at = "first" => Here + screen.y >= Len(PromptText)
                  /\ at = "more" => Here + screen.y >= LineRows + count
  <2>1. /\ pc = at /\ kernel = None /\ printing.todo = <<>> /\ printing.at = "load"
        /\ printing = Output(<<>>)
    BY <1>2, KernelStep
  <2>2. Rest(printing) = <<>> /\ Lag(printing) = 0
    BY <2>1, NetOf DEF Rest, Lag, Going
  <2>3. Within(screen.x, screen.y, printing)
    BY <2>1 DEF Horizontal, Moving
  <2>4. ASSUME broken = "no", screen.y < LineRows, at \in {"first", "more"}
        PROVE  Here + screen.y >= Margin(printing)
    <3>1. printing.todo # <<CR>>
      BY <2>1
    <3> QED
      BY <2>1, <2>4, <3>1 DEF Reach
  <2>5. at = "first" => Margin(printing) = Len(PromptText) - 0
    BY <2>1, <2>2 DEF Margin
  <2>6. at = "more" => Margin(printing) = LineRows + count + 0
    BY <2>1, <2>2 DEF Margin
  <2>7. at = "more" => screen.x >= count - LEN - 2 + 0
    BY <2>1, <2>2, <2>3 DEF Within
  <2>8. screen.x <= Columns /\ (broken # "erased" => Here >= 0)
        /\ (at \in {"prompt", "first", "execute"} => screen.x >= 0)
    BY <2>1, <2>3 DEF Within, Here
  <2> QED
    BY <1>1, <2>4, <2>5, <2>6, <2>7, <2>8
<1>3. ASSUME NEW at, Kernel(at), NEW t, printing' = Output(t), NEW r \in Int, Net(t) = r,
             t # <<Blank, LEFT>>,
             pc' \in {"prompt", "first"} => screen.x >= 0,
             pc' = "execute" => screen.x >= -LEN - 4 /\ t # <<>>,
             pc' = "more" => count' \in Int /\ screen.x >= count' - LEN - 2 + r,
             broken' # "erased" => Here >= 0 /\ (pc' = "more" => Here >= r),
             broken' = "no" /\ screen.y < LineRows =>
               /\ pc' = "first" => Here + screen.y >= Len(PromptText) - Len(t)
               /\ pc' = "more" => Here + screen.y >= LineRows + count' + r
      PROVE  Horizontal' /\ Reach'
  <2>1. /\ screen' = screen /\ kernel' = None
        /\ printing'.todo = t /\ printing'.at = "load" /\ screen.x <= Columns
    BY <1>2, <1>3, KernelStep, OutputOf
  <2>2. Rest(printing)' = t /\ Lag(printing)' = r
    BY <1>3, <2>1 DEF Rest, Lag, Going
  <2>3. Position(screen'.x, screen'.y) = Here /\ Here' = Here
    BY <2>1 DEF Here, Position
  <2>4. Within(screen.x, screen.y, printing)'
    BY <1>3, <2>1, <2>2, <2>3 DEF Within, Lag, Position
  <2>5. Horizontal'
    BY <2>1, <2>4 DEF Horizontal, Going, Moving
  <2>6. Reach'
    <3>1. pc' = "first" => Margin(printing)' = Len(PromptText) - Len(t)
      BY <2>2 DEF Margin
    <3>2. pc' = "more" => Margin(printing)' = LineRows + count' + r
      BY <2>2 DEF Margin
    <3> QED
      BY <1>3, <2>1, <2>3, <3>1, <3>2 DEF Reach
  <2> QED
    BY <2>5, <2>6
<1>4. CASE Prompt
  <2>1. /\ Kernel("prompt") /\ broken # "erased" /\ printing' = Output(PromptText)
        /\ pc' = "first"
    BY <1>4 DEF Prompt
  <2>2. Net(PromptText) \in Int
    BY NetOf
  <2>3. PromptText # <<Blank, LEFT>>
    <3>1. PromptText \in Seq(Visible) /\ LEFT \notin Visible /\ PromptText # <<>>
      BY <1>1, GivenTexts DEF Visible, Special
    <3>2. <<Blank, LEFT>>[2] = LEFT /\ Len(<<Blank, LEFT>>) = 2
      OBVIOUS
    <3> QED
      BY <3>1, <3>2
  <2>4. screen.x >= 0 /\ Here >= 0
    BY <1>2, <2>1
  <2>5. Here + screen.y >= Len(PromptText) - Len(PromptText)
    BY <1>1, <2>4
  <2> QED
    BY <1>3, <2>1, <2>2, <2>3, <2>4, <2>5
<1>5. CASE Execute
  <2> DEFINE found == SelectInSeq(Builtins, Matches)
  <2> DEFINE t == IF found = 0 THEN Append(UnknownText, CR) ELSE Builtins[found].prints
  <2>1. /\ Kernel("execute") /\ printing' = Output(t) /\ pc' = "prompt" /\ broken' = broken
    BY <1>5 DEF Execute
  <2>2. found = 0 \/ found \in 1 .. Len(Builtins)
    BY Found
  <2> HIDE DEF found
  <2>3. t \in Seq(Marks \ {BS, LEFT})
    <3>1. CR \in Marks \ {BS, LEFT}
      BY Characters DEF Special, CR, BS, LEFT
    <3> QED
      BY <2>2, <3>1, GivenTexts
  <2> HIDE DEF t
  <2>4. t # <<Blank, LEFT>>
    <3>1. <<Blank, LEFT>>[2] = LEFT /\ Len(<<Blank, LEFT>>) = 2
      OBVIOUS
    <3> QED
      BY <2>3, <3>1
  <2>5. Net(t) \in Int /\ screen.x >= 0 /\ (broken # "erased" => Here >= 0)
    BY <1>2, <2>1, NetOf
  <2> QED
    BY <1>3, <2>1, <2>4, <2>5
<1>6. ASSUME NEW c \in Letters \union Control, ReadFirst(c)
      PROVE  Horizontal' /\ Reach'
  <2>1. /\ Kernel("first") /\ printing' = Output(<<c>>) /\ pc' = "more" /\ count' = 1
        /\ broken' = IF c = BS /\ broken = "in" THEN "erased" ELSE broken
    BY <1>6 DEF ReadFirst
  <2>2. Net(<<c>>) \in {-1, 0, 1} /\ <<c>> # <<Blank, LEFT>> /\ (Net(<<c>>) = 1 => c = BS)
    <3>1. c = CR => Net(<<c>>) = 0
      BY NetOf
    <3>2. c \notin {CR, BS} => Net(<<c>>) = -1
      BY Keys
    <3>3. Len(<<c>>) = 1 /\ Len(<<Blank, LEFT>>) = 2 /\ Net(<<c>>) \in {-1, 0, 1}
      BY ShortTexts, NetOf
    <3> QED
      BY <3>1, <3>2, <3>3
  <2>3. broken' # "erased" => broken # "erased" /\ (c = BS => broken = "no" )
    BY <2>1 DEF Typed
  <2>4. screen.x >= 0 /\ (broken # "erased" => Here >= 0)
    BY <1>2, <2>1
  <2>5. broken' # "erased" => Here >= 0 /\ Here >= Net(<<c>>)
    <3>1. broken = "no" => Here >= 1
      <4>1. "first" \in {"first", "more"}
        OBVIOUS
      <4> QED
        BY <2>1, <4>1, Erasable
    <3> QED
      BY <1>1, <2>2, <2>3, <2>4, <3>1
  <2>6. count' \in Int /\ screen.x >= count' - LEN - 2 + Net(<<c>>)
    BY <1>1, <2>1, <2>2, <2>4
  <2>7. broken' = "no" /\ screen.y < LineRows =>
          Here + screen.y >= LineRows + count' + Net(<<c>>)
    <3>1. broken' = "no" => broken = "no"
      BY <2>1
    <3>2. broken = "no" /\ screen.y < LineRows => Here + screen.y >= Len(PromptText)
      BY <1>2, <2>1
    <3> QED
      BY <1>1, <2>1, <2>2, <3>1, <3>2
  <2>8. Net(<<c>>) \in Int
    BY <2>2
  <2> QED
    BY <1>3, <2>1, <2>2, <2>5, <2>6, <2>7, <2>8
<1>7. ASSUME NEW c \in Letters \union Control, ReadLetter(c)
      PROVE  Horizontal' /\ Reach'
  <2>1. /\ Kernel("more") /\ printing' = Output(<<c>>) /\ pc' = "more" /\ count' = count + 1
        /\ broken' = broken /\ c \notin {CR, BS}
    BY <1>7, KernelStep DEF ReadLetter, Reading
  <2>2. Net(<<c>>) = -1 /\ <<c>> # <<Blank, LEFT>>
    <3>1. Len(<<c>>) = 1 /\ Len(<<Blank, LEFT>>) = 2
      BY ShortTexts
    <3> QED
      BY <2>1, <3>1, Keys
  <2>3. screen.x >= count - LEN - 2 /\ (broken # "erased" => Here >= 0)
    BY <1>2, <2>1
  <2>4. count' \in Int /\ screen.x >= count' - LEN - 2 + -1 /\ -1 \in Int
    BY <1>1, <2>1, <2>3
  <2>5. broken' # "erased" => Here >= 0 /\ Here >= -1
    BY <1>1, <2>1, <2>3
  <2>6. broken' = "no" /\ screen.y < LineRows => Here + screen.y >= LineRows + count' + -1
    <3>1. broken = "no" /\ screen.y < LineRows => Here + screen.y >= LineRows + count
      BY <1>2, <2>1
    <3> QED
      BY <1>1, <2>1, <3>1
  <2> QED
    BY <1>3, <2>1, <2>2, <2>4, <2>5, <2>6
<1>8. CASE ReadBackspace
  <2>1. /\ Kernel("more") /\ printing' = Output(<<BS>>) /\ pc' = "more" /\ count' = count - 1
        /\ broken' = (IF broken = "in" THEN "erased" ELSE broken) /\ count >= 0
    BY <1>8, KernelStep DEF ReadBackspace, Reading
  <2>2. Net(<<BS>>) = 1 /\ <<BS>> # <<Blank, LEFT>>
    <3>1. Len(<<BS>>) = 1 /\ Len(<<Blank, LEFT>>) = 2
      BY ShortTexts
    <3> QED
      BY <3>1, NetOf
  <2>3. screen.x >= count - LEN - 2
    BY <1>2, <2>1
  <2>4. count' \in Int /\ screen.x >= count' - LEN - 2 + 1 /\ 1 \in Int
    BY <1>1, <2>1, <2>3
  <2>5. broken' # "erased" => Here >= 0 /\ Here >= 1
    <3>1. broken' # "erased" => broken = "no"
      BY <2>1 DEF Typed
    <3>2. broken = "no" => Here >= 1
      <4>1. "more" \in {"first", "more"}
        OBVIOUS
      <4> QED
        BY <2>1, <4>1, Erasable
    <3> QED
      BY <1>1, <3>1, <3>2
  <2>6. broken' = "no" /\ screen.y < LineRows => Here + screen.y >= LineRows + count' + 1
    <3>1. broken = "no" /\ screen.y < LineRows => Here + screen.y >= LineRows + count
      BY <1>2, <2>1
    <3>2. broken' = "no" => broken = "no"
      BY <2>1
    <3> QED
      BY <1>1, <2>1, <3>1, <3>2
  <2> QED
    BY <1>3, <2>1, <2>2, <2>4, <2>5, <2>6
<1>9. CASE ReadReturn \/ ReadStops
  <2>1. /\ Kernel("more") /\ pc' = "execute" /\ printing' = Output(<<CR>>) /\ broken' = broken
    BY <1>9 DEF ReadReturn, ReadStops, Reading, Terminate
  <2>2. screen.x >= count - LEN - 2 /\ (broken # "erased" => Here >= 0)
    BY <1>2, <2>1
  <2>3. screen.x >= -LEN - 4
    BY <1>1, <2>2
  <2>4. Net(<<CR>>) = 0 /\ 0 \in Int /\ <<CR>> # <<Blank, LEFT>> /\ <<CR>> # <<>>
    <3>1. Len(<<CR>>) = 1 /\ Len(<<Blank, LEFT>>) = 2 /\ <<CR>> # <<>>
      BY ShortTexts
    <3> QED
      BY <3>1, NetOf
  <2> QED
    BY <1>3, <2>1, <2>2, <2>3, <2>4
<1>10. CASE Unfollowed
  <2>1. /\ screen' = screen /\ printing' = printing /\ kernel' = kernel /\ pc' = pc
        /\ count' = count /\ broken' = broken
    BY <1>10 DEF Unfollowed, vars, command
  <2>2. Here' = Here /\ Margin(printing)' = Margin(printing)
    BY <2>1 DEF Here, Position, Margin, Lag, Rest
  <2>3. Within(screen.x, screen.y, printing)' <=> Within(screen.x, screen.y, printing)
    BY <2>1 DEF Within, Position, Lag, Rest
  <2>4. kernel = None /\ printing.at = "load"
    BY <1>10, KernelStep DEF Unfollowed
  <2>5. Horizontal'
    BY <2>1, <2>3, <2>4 DEF Horizontal, Moving, Going
  <2> QED
    BY <2>1, <2>2, <2>5 DEF Reach
<1> QED
  BY <1>4, <1>5, <1>6, <1>7, <1>8, <1>9, <1>10

-----------------------------------------------------------------------------
(* A message comes, and has been printed.                                  *)

LEMMA HandlerHorizontal ==
  ASSUME Typed, Texts, Vertical, Horizontal, DefaultHandler \/ Iret
  PROVE  Horizontal' /\ Reach'
<1>1. CASE DefaultHandler
  <2> DEFINE m == Append(Message, CR)
  <2>1. /\ kernel = None /\ kernel' = printing /\ printing' = Output(m)
        /\ broken = "no" /\ broken' = "in" /\ screen' = screen /\ pc' = pc /\ count' = count
    BY <1>1 DEF DefaultHandler, command
  <2>2. m # <<>> /\ Len(m) = Len(Message) + 1 /\ Len(Message) \in Nat
    BY GivenTexts
  <2> HIDE DEF m
  <2>3. /\ printing'.todo = m /\ printing'.at = "load" /\ kernel' # None
        /\ pc \in {"prompt", "first", "more", "execute"}
    BY <2>1, OutputOf, NoneOf DEF Typed
  <2>4. Within(screen.x, screen.y, printing)
    BY <2>1 DEF Horizontal, Moved
  <2>5. -LEN - 4 <= screen.x /\ screen.x <= Columns /\ Position(screen.x, screen.y) >= 0
    <3>1. /\ LEN \in Nat /\ screen.x \in Int /\ count \in Int /\ count >= -1
          /\ Lag(printing) \in {-1, 0, 1}
      BY Values
    <3>2. screen.x <= Columns /\ Position(screen.x, screen.y) >= 0
      BY <2>1, <2>4 DEF Within
    <3>3. \/ screen.x >= 0 \/ screen.x >= -LEN - 4
          \/ screen.x >= count - LEN - 2 + Lag(printing)
      BY <2>3, <2>4 DEF Within
    <3> QED
      BY <3>1, <3>2, <3>3
  <2>6. Position(screen.x, screen.y)' = Position(screen.x, screen.y)
    BY <2>1 DEF Position
  <2>7. (kernel.at \in Moving => Within(kernel.x, kernel.y, kernel))'
    <3>1. printing.at \in Moving => Within(printing.x, printing.y, printing)
      BY <2>1 DEF Horizontal
    <3> QED
      BY <2>1, <3>1 DEF Within, Lag, Rest, Position
  <2>8. High' => 0 <= screen.x /\ screen.x + Len(m) <= Len(Message) + 1
    <3>1. High' => screen.x = 0
      BY <2>1 DEF High, Horizontal, Going
    <3> QED
      BY <2>2, <3>1
  <2> QED
    BY <2>1, <2>2, <2>3, <2>5, <2>6, <2>7, <2>8 DEF Horizontal, Reach, Moving, Going
<1>2. CASE Iret
  <2>1. /\ kernel # None /\ kernel' = None /\ printing' = kernel /\ screen' = screen
        /\ printing.todo = <<>> /\ broken' = broken /\ pc' = pc /\ count' = count
    BY <1>2, OutputOf DEF Iret, Finished, command
  <2>2. broken = "in" /\ screen.x = 0 /\ screen.y >= 1 /\ screen.y \in Int
    BY <2>1, Values DEF Texts, Horizontal
  <2>3. /\ kernel.at \in Moving => Within(kernel.x, kernel.y, kernel)
        /\ kernel.at \in Moving => kernel.y <= screen.y
    BY <2>1 DEF Horizontal, Vertical, InRow
  <2>4. Within(screen.x, screen.y, kernel)
    <3>1. Lag(kernel) \in {-1, 0, 1} /\ 0 \in Int
      BY NetOf DEF Lag
    <3> QED
      BY <2>2, <3>1, WithinBelow
  <2>5. Within(screen.x, screen.y, printing)'
    BY <2>1, <2>4 DEF Within, Lag, Rest, Position
  <2>6. kernel.at \in Moving => Within(printing.x, printing.y, printing)'
    BY <2>1, <2>3 DEF Within, Lag, Rest, Position
  <2> QED
    BY <2>1, <2>2, <2>3, <2>5, <2>6 DEF Horizontal, Moved, Reach
<1> QED
  BY <1>1, <1>2

-----------------------------------------------------------------------------
(* Where characters are written.                                           *)

LEMMA Remainder ==
  ASSUME NEW d \in Nat \ {0}, NEW n \in Int
  PROVE  /\ 0 <= n /\ n < d => n % d = n
         /\ d <= n /\ n < d + d => n % d = n - d
<1>1. ASSUME 0 <= n, n < d
      PROVE  n % d = n
  BY <1>1
<1>2. ASSUME d <= n, n < d + d
      PROVE  n % d = n - d
  BY <1>2
<1> QED
  BY <1>1, <1>2

(* Where the screen ends.                                                  *)
LEMMA Ending ==
  /\ Behind \in Nat /\ Behind < IndexSpace /\ IndexSpace \in Nat \ {0}
  /\ Columns \in Nat /\ Columns <= Behind /\ Cells = 0 .. Behind - 1
  /\ \A x, y \in Int : x <= Columns /\ y <= LastRow => Position(x, y) <= Behind
  /\ \A x \in Int : Position(x, Rows) = Behind + x
<1>1. /\ Rows \in Nat /\ Columns \in Nat /\ Columns >= 1 /\ Rows >= 1 /\ IndexSpace \in Nat
      /\ Rows * Columns \in Nat /\ Rows * Columns < IndexSpace
  BY Sizes
<1>2. Behind = Rows * Columns
  BY DEF Behind, Rows, Columns
<1>3. LastRow \in Int /\ LastRow + 1 = Rows
  BY <1>1 DEF LastRow, Rows
<1>4. LastRow * Columns + Columns = Behind /\ LastRow * Columns \in Int
  BY <1>2, <1>3, RowStarts
<1>5. Columns <= Behind
  <2>1. 1 * Columns <= Rows * Columns /\ 1 * Columns = Columns
    BY <1>1, RowStarts
  <2> QED
    BY <1>2, <2>1
<1>6. ASSUME NEW x \in Int, NEW y \in Int, x <= Columns, y <= LastRow
      PROVE  Position(x, y) <= Behind
  <2>1. y * Columns <= LastRow * Columns /\ y * Columns \in Int
    BY <1>3, <1>6, RowStarts
  <2>2. Position(x, y) = y * Columns + x
    BY DEF Position, Columns
  <2> QED
    BY <1>1, <1>4, <1>6, <2>1, <2>2
<1>7. \A x \in Int : Position(x, Rows) = Behind + x
  BY <1>2 DEF Position, Columns
<1>8. Cells = 0 .. Behind - 1
  BY DEF Cells, Behind
<1> QED
  BY <1>1, <1>2, <1>5, <1>6, <1>7, <1>8

(* The place in memory: a cell, or one behind the last.                    *)
LEMMA PlaceOf ==
  ASSUME Typed, Texts, Vertical, Horizontal, printing.at = "cell", printing.todo # <<>>,
         broken # "erased", NEW x \in XRead, NEW y \in YRead
  PROVE  LET idx == Position(x, y) % IndexSpace
         IN /\ idx \in Cells \union {Behind} \union (Behind .. Behind + Len(Message) - 1)
            /\ kernel = None /\ Position(x, y) < Behind => idx = Position(x, y)
<1> DEFINE place == Position(x, y)
<1>1. /\ x \in Int /\ y \in Int /\ place \in Int /\ Len(Message) \in Nat
      /\ screen.x \in Int /\ screen.y \in Int /\ printing.x \in Int /\ printing.y \in Int
      /\ Rows \in Nat /\ LastRow = Rows - 1
  <2>1. x \in Int /\ y \in Int
    BY Reads
  <2>2. place \in Int
    BY <2>1, Positions
  <2>3. Len(Message) \in Nat
    BY GivenTexts
  <2> QED
    BY <2>1, <2>2, <2>3, Values
<1>2. /\ x = printing.x \/ x = screen.x
      /\ y = printing.y \/ y = screen.y
  BY DEF XRead, YRead
<1>3. screen.y <= Top /\ screen.y >= 0
  BY DEF Vertical, RowOf, Steps, Moving
<1>4. ASSUME 0 <= place, place <= Behind
      PROVE  place % IndexSpace = place /\ place \in Cells \union {Behind}
  <2>1. place < IndexSpace
    BY <1>1, <1>4, Ending
  <2>2. place % IndexSpace = place
    BY <1>1, <1>4, <2>1, Ending, Remainder
  <2>3. Cells = 0 .. Behind - 1 /\ Behind \in Nat
    BY Ending
  <2> HIDE DEF place
  <2> QED
    BY <1>1, <1>4, <2>2, <2>3
<1>5. CASE kernel = None
  <2>1. Top = LastRow
    BY <1>5 DEF Top
  <2>2. /\ printing.y >= 0
        /\ printing.y = screen.y \/ Moved(printing)
        /\ Within(printing.x, printing.y, printing)
        /\ (printing.x = screen.x /\ printing.y = screen.y) \/ Moved(printing)
    BY <1>5 DEF Vertical, Horizontal, InRow, Moving
  <2>3. x <= Columns /\ y <= LastRow
    <3>1. screen.x <= Columns /\ printing.x <= Columns
      BY <1>1, <2>2, Values DEF Within, Moved
    <3>2. printing.y <= LastRow /\ screen.y <= LastRow
      BY <1>1, <1>3, <2>1, <2>2 DEF Moved
    <3> QED
      BY <1>2, <3>1, <3>2
  <2>4. place >= 0
    <3>1. CASE x = printing.x /\ y = printing.y
      BY <2>2, <3>1 DEF Within
    <3>2. CASE x = printing.x /\ y = screen.y
      BY <1>5, <3>2, ReadWithin DEF Moving, Within
    <3>3. CASE x = screen.x /\ printing.x = screen.x /\ printing.y = screen.y
      BY <1>2, <2>2, <3>3 DEF Within
    <3>4. CASE x = screen.x /\ Moved(printing)
      <4>1. x = 0 /\ y >= 0
        BY <1>2, <1>3, <2>2, <3>4 DEF Moved
      <4> QED
        BY <1>1, <4>1, FirstColumn
    <3> QED
      BY <1>2, <2>2, <3>1, <3>2, <3>3, <3>4
  <2>5. place <= Behind
    BY <1>1, <2>3, Ending
  <2> QED
    BY <1>4, <2>4, <2>5
<1>6. CASE kernel # None
  <2>1. /\ printing.x = screen.x /\ printing.y = screen.y
        /\ screen.x <= Columns /\ Position(screen.x, screen.y) >= 0
    BY <1>6 DEF Vertical, Horizontal, InRow, Moving
  <2>2. x = screen.x /\ y = screen.y /\ place >= 0
    BY <1>2, <2>1
  <2>3. CASE ~High
    <3>1. y <= LastRow
      BY <1>3, <2>2, <2>3 DEF Top
    <3>2. place <= Behind
      BY <1>1, <2>1, <2>2, <3>1, Ending
    <3> QED
      BY <1>4, <1>6, <2>2, <3>2
  <2>4. CASE High
    <3>1. y = Rows
      BY <1>1, <1>3, <1>6, <2>2, <2>4 DEF Top, Vertical
    <3>2. Len(printing.todo) >= 2 /\ Len(printing.todo) \in Nat
      <4>1. printing \in Outputs /\ HandlerText(printing) /\ Head(printing.todo) \in Visible
        BY <1>6 DEF Texts, Typed, Fits
      <4> QED
        BY <4>1, HandlerTail DEF Outputs
    <3>3. 0 <= x /\ x + Len(printing.todo) <= Len(Message) + 1
      BY <1>6, <2>2, <2>4 DEF Horizontal
    <3>4. x <= Len(Message) - 1 /\ Len(Message) <= Columns
      <4>1. Len(Message) <= Columns
        BY TextAssumption DEF Columns
      <4> QED
        BY <1>1, <3>2, <3>3, <4>1
    <3>5. place = Behind + x
      BY <1>1, <3>1, Ending
    <3>6. /\ Behind \in Nat /\ Behind < IndexSpace /\ IndexSpace \in Nat \ {0}
          /\ Columns \in Nat /\ Columns <= Behind /\ Cells = 0 .. Behind - 1
      BY Ending
    <3> HIDE DEF place
    <3>7. CASE place < IndexSpace
      <4>1. place % IndexSpace = place
        BY <1>1, <2>2, <3>6, <3>7, Remainder
      <4>2. place \in Behind .. Behind + Len(Message) - 1
        BY <1>1, <3>3, <3>4, <3>5, <3>6
      <4> QED
        BY <1>6, <4>1, <4>2 DEF place
    <3>8. CASE place >= IndexSpace
      <4>1. place < IndexSpace + IndexSpace
        BY <1>1, <3>4, <3>5, <3>6
      <4>2. place % IndexSpace = place - IndexSpace
        BY <1>1, <3>6, <3>8, <4>1, Remainder
      <4>3. place - IndexSpace \in Cells
        BY <1>1, <3>4, <3>5, <3>6, <3>8
      <4> QED
        BY <1>6, <4>2, <4>3 DEF place
    <3> QED
      BY <1>1, <3>6, <3>7, <3>8
  <2> QED
    BY <2>3, <2>4
<1> QED
  BY <1>5, <1>6

LEMMA OutsideKept ==
  ASSUME Typed, Texts, Vertical, Horizontal, Outside, Next
  PROVE  Outside'
<1>1. ASSUME screen'.stray = screen.stray, broken' # "erased" => broken # "erased"
      PROVE  Outside'
  BY <1>1 DEF Outside, Behind
<1>2. CASE PutCell
  <2>1. printing.at = "cell" /\ printing.todo # <<>> /\ broken' = broken
    BY <1>2, PrintingSteps DEF At2, Kept
  <2>2. PICK x \in XRead, y \in YRead :
          LET idx == Position(x, y) % IndexSpace
          IN screen' = IF idx \in Cells THEN [screen EXCEPT !.vm[idx] = What]
                       ELSE [screen EXCEPT !.stray = @ \union {idx}]
    BY <1>2 DEF PutCell
  <2> DEFINE idx == Position(x, y) % IndexSpace
  <2>3. ASSUME broken # "erased"
        PROVE  idx \in Cells \union {Behind} \union (Behind .. Behind + Len(Message) - 1)
    BY <2>1, <2>3, PlaceOf
  <2>4. /\ idx \in Cells => screen'.stray = screen.stray
        /\ idx \notin Cells => screen'.stray = screen.stray \union {idx}
    BY <2>2 DEF Typed
  <2> HIDE DEF idx
  <2> QED
    BY <2>1, <2>3, <2>4 DEF Outside, Behind
<1>3. CASE Printing /\ ~PutCell
  <2>1. screen'.stray = screen.stray /\ broken' = broken
    BY <1>3, PrintingSteps, LoadStep DEF Printing, At2, Kept
  <2> QED
    BY <1>1, <2>1
<1>4. CASE DefaultHandler \/ Iret
  BY <1>1, <1>4 DEF DefaultHandler, Iret
<1>5. ASSUME NEW at, Kernel(at), broken' # "erased" => broken # "erased"
      PROVE  Outside'
  BY <1>1, <1>5, KernelStep
<1>6. CASE \/ Prompt \/ Execute \/ ReadBackspace \/ ReadReturn \/ ReadStops \/ Unfollowed
           \/ \E c \in Letters \union Control : ReadFirst(c) \/ ReadLetter(c)
  <2>1. CASE Prompt \/ Execute
    BY <1>5, <2>1 DEF Prompt, Execute
  <2>2. CASE ReadBackspace \/ ReadReturn \/ ReadStops
    BY <1>5, <2>2 DEF ReadBackspace, ReadReturn, ReadStops, Reading, Terminate
  <2>3. CASE \E c \in Letters \union Control : ReadFirst(c) \/ ReadLetter(c)
    BY <1>5, <2>3 DEF ReadFirst, ReadLetter, Reading
  <2>4. CASE Unfollowed
    BY <1>5, <2>4 DEF Unfollowed, vars
  <2> QED
    BY <1>6, <2>1, <2>2, <2>3, <2>4
<1> QED
  BY <1>2, <1>3, <1>4, <1>6 DEF Next

-----------------------------------------------------------------------------
(* A line that stays on its row.                                           *)

(* What is known of it while it is read.                                   *)
OnRowMore ==
  /\ printing.at \in {"load"} \union Moving /\ printing.todo # <<CR>>
  /\ InLetters
  /\ Here = line + count + Net(printing.todo)
  /\ Stored(IF Net(printing.todo) = -1 /\ printing.at # "right" THEN count - 1 ELSE count)
  /\ printing.todo # <<>> /\ Head(printing.todo) \in Visible => screen.x < Columns
  /\ Net(printing.todo) = -1 => count >= 1 /\ printing.todo = <<buf[count - 1]>>

LEMMA PrintingOnRow ==
  ASSUME Typed, Texts, Vertical, Horizontal, OnRowMore, Printing, plain, broken = "no",
         pc = "more"
  PROVE  OnRowMore'
<1> DEFINE s == printing.todo
<1>1. /\ kernel = None /\ s \in Typing /\ s \in Seq(Marks)
      /\ screen.x \in Int /\ screen.y \in Int /\ Here \in Int
      /\ count \in Int /\ count <= LEN /\ LEN \in Nat /\ line \in Int /\ Columns \in Nat
  BY Values, Reads DEF Texts, OwnText, Typed
<1>2. /\ printing.at \in Moving => printing.x = screen.x /\ printing.y = screen.y
      /\ screen.x <= Columns
  BY <1>1 DEF Horizontal, Within, Moved
<1>3. /\ printing.at \in {"cell", "right"} => Head(s) \in Visible
      /\ printing.at = "left" => Head(s) = LEFT
  BY DEF Texts, Fits
<1>4. Kept
  BY LoadStep, PrintingSteps DEF Printing, At2
<1>5. buf' = buf /\ count' = count /\ line' = line /\ InLetters'
  BY <1>4 DEF Kept, OnRowMore, InLetters
<1>6. LEFT \notin Visible
  BY DEF Visible, Special
<1>7. \A c \in Letters : c \notin {KEY_TAB, BS, TAB, CR, LEFT, CLEAR}
  BY Characters DEF Visible, Special
<1>8. Net(s) = -1 => s # <<>> /\ Head(s) \in Letters
  <2>1. ASSUME Net(s) = -1
        PROVE  s # <<>> /\ Head(s) \in Letters
    <3>1. count >= 1 /\ s = <<buf[count - 1]>> /\ count - 1 \in 0 .. count - 1
      BY <1>1, <2>1 DEF OnRowMore
    <3>2. buf[count - 1] \in Letters
      BY <3>1 DEF OnRowMore, InLetters
    <3> QED
      BY <3>1, <3>2, ShortTexts
  <2> QED
    BY <2>1
<1>9. CASE Load
  <2>1. /\ screen' = screen /\ printing.at = "load" /\ s # <<>> /\ What = Head(s)
        /\ printing'.at \in {"load", "return", "left", "clear", "cell"}
        /\ printing'.at = "return" => What = CR
        /\ printing'.at = "clear" => What = CLEAR
        /\ What \notin {KEY_TAB, BS, TAB} => printing'.todo = s
    BY <1>9, LoadStep DEF What
  <2>2. What # CR /\ What # CLEAR
    <3>1. What = CR => s = <<CR>>
      BY <1>1, <2>1, TypingTexts
    <3>2. What # CLEAR
      BY <1>1, <2>1, TypingTexts
    <3> QED
      BY <3>1, <3>2 DEF OnRowMore
  <2>3. Net(printing'.todo) = Net(s)
    BY <1>1, <1>9, LoadNet
  <2>4. Net(s) = -1 => printing'.todo = s
    BY <1>7, <1>8, <2>1
  <2>5. /\ printing'.todo # <<>> /\ Head(printing'.todo) \in Visible => Head(s) \in Visible
        /\ printing'.todo # <<CR>>
    <3>1. CASE printing'.todo = s
      BY <3>1 DEF OnRowMore
    <3>2. CASE What = BS
      <4>1. s = <<BS>>
        BY <1>1, <2>1, <3>2, TypingTexts
      <4>2. printing'.todo = <<LEFT, Blank, LEFT>> \o <<>>
        BY <1>9, <3>2, <4>1, LoadStep, ShortTexts
      <4>3. printing'.todo = <<LEFT, Blank, LEFT>>
        BY <4>2
      <4> QED
        BY <1>6, <4>3, ShortTexts
    <3>3. What # TAB
      BY <1>1, <2>1, TypingTexts
    <3>4. What # KEY_TAB
      <4>1. What = KEY_TAB => Net(s) = -1
        <5>1. KEY_TAB # Blank
          BY DEF KEY_TAB, Blank
        <5> QED
          BY <1>1, <2>1, <5>1, TypingTexts
      <4> QED
        BY <1>7, <1>8, <2>1, <4>1
    <3> QED
      BY <2>1, <3>1, <3>2, <3>3, <3>4
  <2>6. Here' = Here
    BY <2>1 DEF Here, Position
  <2>7. /\ Stored(count - 1)' <=> Stored(count - 1)
        /\ Stored(count)' <=> Stored(count)
    BY <1>5, <2>1 DEF Stored
  <2>8. printing'.at \in {"load"} \union Moving /\ printing'.at # "right"
    BY <2>1, <2>2 DEF Moving
  <2> QED
    BY <1>5, <2>1, <2>3, <2>4, <2>5, <2>6, <2>7, <2>8 DEF OnRowMore
<1>10. CASE PutCell
  <2>1. /\ At2("cell") /\ Turns("right") /\ screen'.x = screen.x /\ screen'.y = screen.y
        /\ s # <<>> /\ Head(s) \in Visible
    BY <1>3, <1>10, PrintingSteps DEF At2
  <2>2. screen.x < Columns /\ What = Head(s)
    BY <2>1 DEF OnRowMore, What
  <2>3. PICK x \in XRead, y \in YRead :
          LET idx == Position(x, y) % IndexSpace
          IN screen' = IF idx \in Cells THEN [screen EXCEPT !.vm[idx] = What]
                       ELSE [screen EXCEPT !.stray = @ \union {idx}]
    BY <1>10 DEF PutCell
  <2>4. x = screen.x /\ y = screen.y /\ Position(x, y) = Here
    BY <1>2, <2>1 DEF XRead, YRead, At2, Moving, Here
  <2>5. Here < Behind
    <3>1. screen.y <= LastRow
      BY <1>1, <2>1 DEF At2, Vertical, RowOf, Top, Steps, Moving
    <3>2. Position(screen.x + 1, screen.y) <= Behind
      <4>1. screen.x + 1 \in Int /\ screen.x + 1 <= Columns /\ screen.y \in Int
        BY <1>1, <2>2
      <4> QED
        BY <3>1, <4>1, Ending
    <3>3. Position(screen.x + 1, screen.y) = Here + 1
      BY <1>1, Positions DEF Here
    <3> QED
      BY <1>1, <3>2, <3>3, Ending
  <2>6. Here \in Cells /\ Here % IndexSpace = Here
    <3>1. Within(screen.x, screen.y, printing)
      BY <1>1, <1>2, <2>1 DEF Horizontal, At2, Moving
    <3>2. Here >= 0
      BY <3>1 DEF Within, Here
    <3>3. Cells = 0 .. Behind - 1 /\ Behind \in Nat /\ Behind < IndexSpace /\ IndexSpace \in Nat \ {0}
      BY Ending
    <3>4. Here \in Cells
      BY <1>1, <2>5, <3>2, <3>3
    <3>5. 0 <= Here /\ Here < IndexSpace
      BY <1>1, <2>5, <3>2, <3>3
    <3> QED
      BY <1>1, <3>3, <3>4, <3>5, Remainder
  <2>7. screen'.vm = [screen.vm EXCEPT ![Here] = Head(s)]
    BY <2>2, <2>3, <2>4, <2>6 DEF Typed
  <2>8. Here = line + count + Net(s) /\ Net(s) \in {-1, 0}
    <3>1. Net(s) \in {-1, 0, 1} /\ Net(Tail(s)) = Net(s) + 1 /\ Net(Tail(s)) \in {-1, 0, 1}
      BY <1>1, <2>1, NetOf, NetTail DEF At2
    <3> QED
      BY <3>1 DEF OnRowMore
  <2>9. Stored(count)'
    <3>1. ASSUME NEW k \in 0 .. count - 1, line + k \in Cells
          PROVE  screen'.vm[line + k] = buf[k]
      <4>1. CASE line + k = Here
        <5>1. Net(s) = -1 /\ k = count - 1
          BY <1>1, <2>8, <3>1, <4>1
        <5>2. s = <<buf[k]>>
          BY <5>1 DEF OnRowMore
        <5>3. Head(s) = buf[k]
          BY <5>2, ShortTexts
        <5> QED
          BY <2>6, <2>7, <4>1, <5>3 DEF Typed
      <4>2. CASE line + k # Here
        <5>1. screen'.vm[line + k] = screen.vm[line + k]
          BY <2>7, <3>1, <4>2 DEF Typed
        <5>2. k \in 0 .. (IF Net(s) = -1 THEN count - 1 ELSE count) - 1
          BY <1>1, <2>8, <3>1, <4>2
        <5>3. Stored(IF Net(s) = -1 THEN count - 1 ELSE count)
          BY <2>1 DEF OnRowMore, At2
        <5> QED
          BY <3>1, <5>1, <5>2, <5>3 DEF Stored
      <4> QED
        BY <4>1, <4>2
    <3> QED
      BY <1>5, <3>1 DEF Stored
  <2>10. Here' = Here
    BY <2>1 DEF Here, Position
  <2> QED
    BY <1>5, <2>1, <2>9, <2>10 DEF OnRowMore, Turns, Moving
<1>11. CASE Right
  <2>1. /\ At2("right") /\ screen'.y = screen.y /\ screen'.vm = screen.vm
        /\ s # <<>> /\ Head(s) \in Visible
    BY <1>3, <1>11, PrintingSteps DEF At2
  <2>2. screen.x < Columns
    BY <2>1 DEF OnRowMore
  <2>3. screen'.x = screen.x + 1 /\ Ends
    BY <1>1, <1>2, <1>11, <2>1, <2>2, PrintingSteps DEF XRead, At2, Moving
  <2>4. Here' = Here + 1
    <3>1. Position(screen.x + 1, screen.y) = Position(screen.x, screen.y) + 1
      BY <1>1, Positions
    <3> QED
      BY <2>1, <2>3, <3>1 DEF Here, Position
  <2>5. Net(Tail(s)) = Net(s) + 1 /\ Net(Tail(s)) # -1 /\ Net(s) \in Int
    <3>1. Net(s) \in {-1, 0, 1} /\ Net(Tail(s)) = Net(s) + 1
      BY <1>1, <2>1, NetOf, NetTail DEF At2
    <3> QED
      BY <3>1
  <2>6. Tail(s) \in {<<>>, <<LEFT>>}
    <3>1. \/ s = <<Blank, LEFT>> /\ Tail(s) = <<LEFT>>
          \/ Tail(s) = <<>>
      BY <1>1, <2>1, TypingTexts
    <3> QED
      BY <3>1
  <2>7. /\ Tail(s) # <<>> => Head(Tail(s)) \notin Visible
        /\ Tail(s) # <<CR>>
    <3>1. CASE Tail(s) = <<>>
      BY <3>1, ShortTexts
    <3>2. CASE Tail(s) = <<LEFT>>
      <4>1. Head(<<LEFT>>) = LEFT /\ Head(<<CR>>) = CR /\ CR # LEFT
        BY ShortTexts DEF CR, LEFT
      <4>2. Head(Tail(s)) \notin Visible
        BY <1>6, <3>2, <4>1
      <4>3. <<LEFT>> # <<CR>>
        BY <4>1
      <4> QED
        BY <3>2, <4>2, <4>3
    <3> QED
      BY <2>6, <3>1, <3>2
  <2>8. Stored(count)'
    <3>1. Stored(count)
      BY <2>1 DEF OnRowMore, At2
    <3> QED
      BY <1>5, <2>1, <3>1 DEF Stored
  <2>9. Here' = line + count + Net(Tail(s))
    <3>1. Here = line + count + Net(s)
      BY DEF OnRowMore
    <3> QED
      BY <1>1, <2>4, <2>5, <3>1
  <2> QED
    BY <1>5, <2>3, <2>5, <2>7, <2>8, <2>9 DEF OnRowMore, Ends
<1>12. CASE Left
  <2>1. /\ At2("left") /\ screen'.y = screen.y /\ screen'.vm = screen.vm /\ Ends
        /\ s # <<>> /\ Head(s) = LEFT
    BY <1>3, <1>12, PrintingSteps DEF At2
  <2>2. screen'.x = screen.x - 1
    BY <1>2, <1>12, <2>1, PrintingSteps DEF XRead, At2, Moving
  <2>3. Here' = Here - 1
    <3>1. Position(screen.x - 1, screen.y) = Position(screen.x, screen.y) - 1
      BY <1>1, Positions
    <3> QED
      BY <2>1, <2>2, <3>1 DEF Here, Position
  <2>4. Net(s) = 1 /\ Net(Tail(s)) = 0
    BY <1>1, <2>1, NetTail DEF At2
  <2>5. Tail(s) # <<CR>>
    <3>1. Tail(s) \in {<<>>, <<Blank, LEFT>>}
      BY <1>1, <2>1, TypingTexts
    <3>2. Len(<<CR>>) = 1 /\ Len(<<Blank, LEFT>>) = 2 /\ <<CR>> # <<>>
      BY ShortTexts
    <3>3. <<Blank, LEFT>> # <<CR>>
      BY <3>2
    <3> QED
      BY <3>1, <3>2, <3>3
  <2>6. screen'.x < Columns
    BY <1>1, <1>2, <2>2
  <2>7. Stored(count)'
    <3>1. Stored(count)
      BY <2>1, <2>4 DEF OnRowMore
    <3> QED
      BY <1>5, <2>1, <3>1 DEF Stored
  <2>8. Here' = line + count + Net(Tail(s))
    <3>1. Here = line + count + 1
      BY <2>4 DEF OnRowMore
    <3> QED
      BY <1>1, <2>3, <2>4, <3>1
  <2> QED
    BY <1>5, <2>1, <2>4, <2>5, <2>6, <2>7, <2>8 DEF OnRowMore, Ends
<1>13. CASE Return \/ Down \/ Check \/ Scroll \/ Up \/ Clear \/ Home
  BY <1>13, PrintingSteps DEF At2, OnRowMore, Moving
<1> QED
  BY <1>9, <1>10, <1>11, <1>12, <1>13 DEF Printing

LEMMA ExecutingOnRow ==
  ASSUME Typed, Texts, Printing, kernel = None, pc = "execute"
  PROVE  printing' # Output(<<CR>>)
<1>1. printing.todo \in {<<>>, <<CR>>}
  BY DEF Texts, OwnText
<1>2. /\ CR \notin {BS, TAB} /\ Output(<<CR>>).at = "load" /\ Output(<<CR>>).todo = <<CR>>
      /\ Head(<<CR>>) = CR /\ Tail(<<CR>>) = <<>> /\ <<CR>> # <<>>
  BY OutputOf, ShortTexts DEF CR, BS, TAB
<1>3. ASSUME printing.todo # <<>>, Ends
      PROVE  printing'.todo # <<CR>>
  BY <1>1, <1>2, <1>3 DEF Ends
<1>4. CASE Load
  BY <1>1, <1>2, <1>4, LoadStep DEF What
<1>5. CASE PutCell \/ Return \/ Scroll \/ Clear \/ Down
  BY <1>2, <1>5, PrintingSteps DEF Turns
<1>6. CASE Right \/ Left \/ Check \/ Up \/ Home
  <2>1. printing.todo # <<>> /\ (Ends \/ Turns("down") \/ Turns("scroll"))
    BY <1>6, PrintingSteps DEF At2
  <2> QED
    BY <1>2, <1>3, <2>1 DEF Turns
<1> QED
  BY <1>4, <1>5, <1>6 DEF Printing

LEMMA ReadingOnRow ==
  ASSUME Typed, OnRow,
         \/ ReadBackspace \/ \E c \in Letters \union Control : ReadFirst(c) \/ ReadLetter(c)
  PROVE  OnRow'
<1> SUFFICES ASSUME plain'
             PROVE  /\ broken' = "no"
                    /\ pc' = "more" => OnRowMore'
                    /\ pc' # "execute"
  BY DEF OnRow, OnRowMore
<1>1. /\ buf \in [-1 .. LEN -> Marks \union {Unwritten}]
      /\ count \in Int /\ line \in Int /\ Here \in Int /\ Columns \in Nat /\ screen.x \in Int
      /\ LEN \in Nat /\ LEN >= 1
  BY Values, Reads DEF Typed
<1>2. ASSUME plain, Kernel("more")
      PROVE  /\ broken = "no" /\ InLetters /\ Here = line + count /\ Stored(count)
             /\ screen' = screen /\ Here' = Here
  <2>1. /\ pc = "more" /\ printing.todo = <<>> /\ printing.at = "load" /\ screen' = screen
    BY <1>2, KernelStep
  <2>2. Net(<<>>) = 0
    BY NetOf
  <2>3. Here' = Here
    BY <2>1 DEF Here, Position
  <2> QED
    BY <1>1, <1>2, <2>1, <2>2, <2>3 DEF OnRow
<1>3. ASSUME NEW c \in Letters, screen.x < Columns, screen' = screen,
             printing' = Output(<<c>>), count' \in Nat, count' >= 1,
             buf'[count' - 1] = c, InLetters',
             Here' = line' + count' - 1, line' \in Int, Stored(count - 1)'
      PROVE  OnRowMore'
  <2>1. printing'.todo = <<c>> /\ printing'.at = "load" /\ Net(<<c>>) = -1
    BY OutputOf, NetOf, <1>3
  <2>2. c # CR /\ <<c>> # <<CR>>
    <3>1. c # CR
      BY ScreenAssumption DEF Control
    <3> QED
      BY <3>1, ShortTexts
  <2>3. Here' = line' + count' + -1
    BY <1>3
  <2> QED
    BY <1>3, <2>1, <2>2, <2>3 DEF OnRowMore
<1>4. ASSUME NEW c \in Letters \union Control, ReadFirst(c)
      PROVE  broken' = "no" /\ pc' = "more" /\ OnRowMore'
  <2>1. /\ Kernel("first") /\ line' = Here /\ buf' = [buf EXCEPT ![0] = Byte(c)]
        /\ count' = 1 /\ printing' = Output(<<c>>) /\ pc' = "more"
        /\ plain' = (plain /\ c \in Letters /\ StaysPlain(c))
        /\ broken' = (IF c = BS /\ broken = "in" THEN "erased" ELSE broken)
    BY <1>4 DEF ReadFirst
  <2>2. plain /\ c \in Letters /\ screen.x < Columns
    <3>1. plain /\ c \in Letters /\ StaysPlain(c)
      BY <2>1, Zenon
    <3>2. ~(screen.x >= Columns)
      BY <3>1, Zenon DEF StaysPlain, Columns
    <3> QED
      BY <1>1, <3>1, <3>2
  <2>3. c # BS /\ Byte(c) = c
    BY <2>2, ScreenAssumption DEF Control, Byte
  <2>4. screen' = screen /\ Here' = Here
    BY <2>1, KernelStep DEF Here, Position
  <2>5. buf'[0] = c
    BY <1>1, <2>1, <2>3
  <2>6. InLetters'
    BY <2>1, <2>2, <2>5 DEF InLetters
  <2>7. Stored(count - 1)'
    BY <2>1 DEF Stored
  <2>8. count' \in Nat /\ count' >= 1 /\ buf'[count' - 1] = c
    BY <2>1, <2>5
  <2>9. Here' = line' + count' - 1 /\ line' \in Int
    BY <1>1, <2>1, <2>4
  <2>10. OnRowMore'
    BY <1>3, <2>1, <2>2, <2>4, <2>6, <2>7, <2>8, <2>9
  <2>11. broken' = "no"
    BY <2>1, <2>2, <2>3 DEF OnRow
  <2> QED
    BY <2>1, <2>10, <2>11
<1>5. ASSUME NEW c \in Letters \union Control, ReadLetter(c)
      PROVE  broken' = "no" /\ pc' = "more" /\ OnRowMore'
  <2>1. /\ Kernel("more") /\ count \in 0 .. LEN - 1 /\ pc = "more"
        /\ buf' = [buf EXCEPT ![count] = Byte(c)] /\ count' = count + 1
        /\ printing' = Output(<<c>>) /\ plain' = (plain /\ StaysPlain(c))
        /\ pc' = pc /\ line' = line /\ broken' = broken /\ c \notin {CR, BS}
    BY <1>5, KernelStep DEF ReadLetter, Reading
  <2>2. plain /\ c \in Letters /\ screen.x < Columns
    <3>1. plain /\ StaysPlain(c)
      BY <2>1, Zenon
    <3>2. c \in Letters /\ ~(screen.x >= Columns)
      BY <2>1, <3>1 DEF StaysPlain, Columns
    <3> QED
      BY <1>1, <3>1, <3>2
  <2>3. Byte(c) = c
    BY <2>2, ScreenAssumption DEF Control, Byte
  <2>4. /\ broken = "no" /\ InLetters /\ Here = line + count /\ Stored(count)
        /\ screen' = screen /\ Here' = Here
    BY <1>2, <2>1, <2>2
  <2>5. /\ buf'[count] = c
        /\ \A k \in 0 .. count - 1 : buf'[k] = buf[k]
    BY <1>1, <2>1, <2>3
  <2>6. InLetters'
    BY <1>1, <2>1, <2>2, <2>4, <2>5 DEF InLetters
  <2>7. Stored(count - 1)'
    <3>1. count' - 1 = count
      BY <1>1, <2>1
    <3> QED
      BY <2>1, <2>4, <2>5, <3>1 DEF Stored
  <2>8. count' \in Nat /\ count' >= 1 /\ buf'[count' - 1] = c
    BY <1>1, <2>1, <2>5
  <2>9. Here' = line' + count' - 1 /\ line' \in Int
    BY <1>1, <2>1, <2>4
  <2>10. OnRowMore'
    BY <1>3, <2>1, <2>2, <2>4, <2>6, <2>7, <2>8, <2>9
  <2> QED
    BY <2>1, <2>4, <2>10
<1>6. CASE ReadBackspace
  <2>1. /\ Kernel("more") /\ count \in 0 .. LEN - 1 /\ pc = "more"
        /\ count' = count - 1 /\ printing' = Output(<<BS>>)
        /\ broken' = (IF broken = "in" THEN "erased" ELSE broken)
        /\ buf' = buf /\ pc' = pc /\ line' = line /\ plain' = plain
    BY <1>6, KernelStep DEF ReadBackspace, Reading
  <2>2. /\ broken = "no" /\ InLetters /\ Here = line + count /\ Stored(count)
        /\ screen' = screen /\ Here' = Here
    BY <1>2, <2>1
  <2>3. /\ printing'.todo = <<BS>> /\ printing'.at = "load" /\ Net(<<BS>>) = 1
        /\ Head(<<BS>>) = BS /\ BS \notin Visible /\ <<BS>> # <<CR>>
    <3>1. BS \notin Visible /\ BS # CR
      BY DEF Visible, Special, BS, CR
    <3>2. Head(<<BS>>) = BS /\ Head(<<CR>>) = CR
      BY ShortTexts
    <3>3. <<BS>> # <<CR>>
      BY <3>1, <3>2
    <3> QED
      BY <2>1, <3>1, <3>2, <3>3, OutputOf, NetOf
  <2>4. InLetters'
    BY <1>1, <2>1, <2>2 DEF InLetters
  <2>5. Stored(count)'
    BY <1>1, <2>1, <2>2 DEF Stored
  <2>6. Here' = line' + count' + 1
    BY <1>1, <2>1, <2>2
  <2> QED
    BY <2>1, <2>2, <2>3, <2>4, <2>5, <2>6 DEF OnRowMore
<1> QED
  BY <1>4, <1>5, <1>6

LEMMA OnRowKept ==
  ASSUME Typed, Texts, Vertical, Horizontal, OnRow, Next
  PROVE  OnRow'
<1>1. CASE Printing
  <2>1. Kept
    BY <1>1, LoadStep, PrintingSteps DEF Printing, At2
  <2>2. SUFFICES ASSUME plain
                 PROVE  /\ pc = "more" => OnRowMore'
                        /\ pc = "execute" => printing' # Output(<<CR>>)
    <3>1. plain' = plain /\ broken' = broken /\ pc' = pc
      BY <2>1 DEF Kept
    <3> QED
      BY <2>2, <3>1 DEF OnRow, OnRowMore
  <2>3. kernel = None /\ broken = "no"
    BY <2>2 DEF Texts, OnRow
  <2>4. pc = "more" => OnRowMore
    BY <2>2 DEF OnRow, OnRowMore
  <2> QED
    BY <1>1, <2>2, <2>3, <2>4, PrintingOnRow, ExecutingOnRow
<1>2. CASE ReadBackspace \/ \E c \in Letters \union Control : ReadFirst(c) \/ ReadLetter(c)
  BY <1>2, ReadingOnRow
<1>3. CASE Prompt
  BY <1>3 DEF Prompt, OnRow
<1>4. CASE Execute
  <2>1. pc' = "prompt" /\ plain' = plain /\ broken' = broken
    BY <1>4 DEF Execute
  <2> QED
    BY <2>1 DEF OnRow
<1>5. CASE ReadReturn \/ ReadStops
  <2>1. /\ Kernel("more") /\ buf' = [buf EXCEPT ![count] = NUL] /\ pc' = "execute"
        /\ count' = count /\ line' = line /\ plain' = plain /\ broken' = broken
    BY <1>5 DEF ReadReturn, ReadStops, Reading, Terminate
  <2>2. /\ pc = "more" /\ printing.todo = <<>> /\ printing.at = "load" /\ screen' = screen
    BY <2>1, KernelStep
  <2>3. ASSUME plain, count >= 0
        PROVE  /\ InLetters' /\ buf'[count] = NUL /\ Here' = line' + count' /\ Stored(count)'
    <3>1. InLetters /\ Here = line + count + 0 /\ Stored(count)
      <4>1. Net(<<>>) = 0
        BY NetOf
      <4> QED
        BY <2>2, <2>3, <4>1 DEF OnRow
    <3>2. /\ buf \in [-1 .. LEN -> Marks \union {Unwritten}] /\ count \in -1 .. LEN
          /\ count \in Int /\ line \in Int
      BY Values DEF Typed
    <3>3. buf'[count] = NUL /\ \A k \in 0 .. count - 1 : buf'[k] = buf[k]
      BY <2>1, <3>2
    <3>4. Here' = Here
      BY <2>2 DEF Here, Position
    <3> QED
      BY <2>1, <2>2, <3>1, <3>2, <3>3, <3>4 DEF InLetters, Stored
  <2> QED
    BY <2>1, <2>3 DEF OnRow
<1>6. CASE DefaultHandler
  BY <1>6 DEF DefaultHandler, OnRow
<1>7. CASE Iret
  BY <1>7 DEF Iret, Texts, OnRow
<1>8. CASE Unfollowed
  BY <1>8, KernelStep DEF Unfollowed, vars, command, OnRow
<1> QED
  BY <1>1, <1>2, <1>3, <1>4, <1>5, <1>6, <1>7, <1>8 DEF Next

-----------------------------------------------------------------------------
(* The invariant.                                                          *)

LEMMA IInvInit ==
  ASSUME Init
  PROVE  IInv
<1>1. /\ screen = [x |-> 0, y |-> 0, vm |-> [i \in Cells |-> Blank], stray |-> {}]
      /\ printing = Output(<<>>) /\ kernel = None
      /\ buf = [k \in -1 .. LEN |-> Unwritten] /\ count = 0 /\ pc = "prompt"
      /\ line = 0 /\ plain = TRUE /\ broken = "no"
  BY DEF Init, Finished
<1>2. /\ printing \in Outputs /\ printing.at = "load" /\ printing.todo = <<>>
      /\ printing = Output(printing.todo)
  <2>1. <<>> \in Seq(Marks)
    OBVIOUS
  <2>2. printing \in Outputs /\ printing.at = "load" /\ printing.todo = <<>>
    BY <1>1, <2>1, OutputOf
  <2> QED
    BY <1>1, <2>2
<1>3. Blank \in Marks /\ LEN \in Nat /\ LEN >= 1
  BY Characters, Sizes DEF Visible
<1>4. Typed
  <2>1. screen \in [x : Int, y : Int, vm : [Cells -> Marks], stray : SUBSET Int]
    BY <1>1, <1>3
  <2>2. kernel \in Outputs /\ kernel = None
    BY <1>1, NoneOf
  <2>3. buf \in [-1 .. LEN -> Marks \union {Unwritten}] /\ buf[-1] = Unwritten /\ buf[LEN] = Unwritten
    BY <1>1, <1>3
  <2>4. count \in -1 .. LEN
    BY <1>1, <1>3
  <2> QED
    BY <1>1, <1>2, <2>1, <2>2, <2>3, <2>4 DEF Typed
<1>5. Texts
  <2>1. <<>> \in Seq(Marks \ {BS, LEFT})
    OBVIOUS
  <2>2. OwnText(printing)
    BY <1>1, <1>2, <2>1 DEF OwnText
  <2>3. Fits(printing)
    BY <1>2 DEF Fits, Moving, Going
  <2> QED
    BY <1>1, <2>2, <2>3 DEF Texts
<1>6. /\ Columns \in Nat /\ Rows \in Nat /\ Rows >= 2 /\ LastRow = Rows - 1
      /\ screen.x = 0 /\ screen.y = 0
  BY <1>1, <1>4, Values
<1>7. Vertical
  BY <1>1, <1>2, <1>6 DEF Vertical, RowOf, Top, InRow, Moving, Going, Steps
<1>8. Horizontal
  <2>1. Position(0, 0) >= 0
    <3>1. 0 \in Int /\ 0 >= 0
      OBVIOUS
    <3> QED
      BY <3>1, FirstColumn
  <2>2. Within(screen.x, screen.y, printing)
    BY <1>1, <1>6, <2>1 DEF Within
  <2> QED
    BY <1>1, <1>2, <2>2 DEF Horizontal, Moving, Going
<1>9. Reach /\ Outside /\ OnRow
  BY <1>1 DEF Reach, Outside, OnRow
<1> QED
  BY <1>4, <1>5, <1>7, <1>8, <1>9 DEF IInv

LEMMA IInvNext ==
  ASSUME IInv, [Next]_vars
  PROVE  IInv'
<1>1. Typed /\ Texts /\ Vertical /\ Horizontal /\ Reach /\ Outside /\ OnRow
  BY DEF IInv
<1>2. CASE Printing
  <2>1. Typed' /\ Texts'
    BY <1>1, <1>2, PrintingTyped, PrintingTexts
  <2>2. Vertical' /\ Reach'
    BY <1>1, <1>2, PrintingVertical, PrintingReach
  <2>3. Horizontal'
    BY <1>1, <1>2, OwnHorizontal, MessageHorizontal
  <2>4. Outside' /\ OnRow'
    BY <1>1, <1>2, OutsideKept, OnRowKept DEF Next
  <2> QED
    BY <2>1, <2>2, <2>3, <2>4 DEF IInv
<1>3. CASE \/ Prompt \/ Execute \/ ReadBackspace \/ ReadReturn \/ ReadStops \/ Unfollowed
           \/ \E c \in Letters \union Control : ReadFirst(c) \/ ReadLetter(c)
  <2>1. Typed' /\ Texts'
    BY <1>1, <1>3, KernelTyped, KernelTexts
  <2>2. Vertical' /\ Horizontal' /\ Reach'
    BY <1>1, <1>3, KernelVertical, KernelColumns
  <2>3. Outside' /\ OnRow'
    BY <1>1, <1>3, OutsideKept, OnRowKept DEF Next
  <2> QED
    BY <2>1, <2>2, <2>3 DEF IInv
<1>4. CASE DefaultHandler \/ Iret
  <2>1. Typed' /\ Texts'
    BY <1>1, <1>4, HandlerTyped, HandlerTexts
  <2>2. Vertical' /\ Horizontal' /\ Reach'
    BY <1>1, <1>4, HandlerVertical, HandlerHorizontal
  <2>3. Outside' /\ OnRow'
    BY <1>1, <1>4, OutsideKept, OnRowKept DEF Next
  <2> QED
    BY <2>1, <2>2, <2>3 DEF IInv
<1>5. CASE UNCHANGED vars
  <2>1. /\ screen' = screen /\ printing' = printing /\ kernel' = kernel /\ buf' = buf
        /\ count' = count /\ pc' = pc /\ line' = line /\ plain' = plain /\ broken' = broken
    BY <1>5 DEF vars, command
  <2>2. Typed' /\ Texts'
    BY <1>1, <2>1 DEF Typed, Texts, OwnText, HandlerText
  <2>3. Vertical'
    BY <1>1, <2>1 DEF Vertical, RowOf, Top, High, Moved
  <2>4. Horizontal'
    BY <1>1, <2>1 DEF Horizontal, Within, Position, Lag, Rest, High, Moved
  <2>5. Reach' /\ Outside'
    BY <1>1, <2>1 DEF Reach, Outside, Here, Position, Margin, Lag, Rest
  <2>6. OnRow'
    BY <1>1, <2>1 DEF OnRow, InLetters, Stored, Here, Position
  <2> QED
    BY <2>2, <2>3, <2>4, <2>5, <2>6 DEF IInv
<1> QED
  BY <1>2, <1>3, <1>4, <1>5 DEF Next

LEMMA Invariance == Spec => []IInv
BY IInvInit, IInvNext, PTL DEF Spec

(* However far a line is erased and wherever the default handler prints:   *)
(* _curX gets one column behind the last at most, and never so far to the  *)
(* left that a uint16_t index would go around; _curY gets two rows behind  *)
(* the last at most; and kernel_tty_read counts from -1 to LEN.            *)
THEOREM TypeCorrect == Spec => []TypeOK
<1>1. ASSUME IInv
      PROVE  TypeOK
  <2>1. Typed /\ Vertical /\ Horizontal
    BY <1>1 DEF IInv
  <2>2. /\ LEN \in Nat /\ count \in Int /\ count >= -1 /\ Columns \in Nat /\ IndexSpace \in Nat
        /\ LEN + 4 <= IndexSpace /\ screen.x \in Int /\ screen.y \in Int /\ printing.at \in Steps
        /\ Lag(printing) \in {-1, 0, 1} /\ Rows \in Nat /\ LastRow = Rows - 1 /\ Columns >= 1
    BY <2>1, Values, Sizes
  <2>3. ASSUME Within(screen.x, screen.y, printing) \/ (screen.x = 0 /\ Moved(printing))
        PROVE  -LEN - 4 <= screen.x /\ screen.x <= Columns
    <3>1. pc \in {"prompt", "first", "more", "execute"}
      BY <2>1 DEF Typed
    <3>2. \/ screen.x >= 0 \/ screen.x >= -LEN - 4
          \/ screen.x >= count - LEN - 2 + Lag(printing)
      BY <2>3, <3>1 DEF Within
    <3> QED
      BY <2>2, <2>3, <3>2 DEF Within
  <2>4. -LEN - 4 <= screen.x /\ screen.x <= Columns
    <3>1. CASE kernel = None
      <4>1. \/ Within(screen.x, screen.y, printing)
            \/ (screen.x = 0 /\ Moved(printing))
        BY <2>1, <3>1 DEF Horizontal, Moved
      <4> QED
        BY <2>3, <4>1
    <3>2. CASE kernel # None
      BY <2>1, <3>2 DEF Horizontal
    <3> QED
      BY <3>1, <3>2
  <2>5. screen.x \in -IndexSpace .. VGA_VIDEO_COLUMNS
    BY <2>2, <2>4 DEF Columns
  <2>6. screen.y \in 0 .. VGA_VIDEO_ROWS + 1
    <3>1. screen.y >= 0 /\ screen.y <= Top + 1 /\ Top \in {LastRow, Rows}
      <4>1. screen.y <= Top \/ screen.y <= Top + 1 \/ screen.y = Top + 1
        BY <2>1, <2>2 DEF Vertical, RowOf
      <4>2. Top \in {LastRow, Rows}
        BY DEF Top
      <4> QED
        BY <2>1, <2>2, <4>1, <4>2 DEF Vertical
    <3> QED
      BY <2>2, <3>1 DEF Rows
  <2> QED
    BY <2>1, <2>5, <2>6 DEF Typed, TypeOK
<1> QED
  BY <1>1, Invariance, PTL

(* However lines wrap, are erased and scroll, and wherever the default     *)
(* handler prints: kernel_tty_read writes outside its buffer no more than  *)
(* a terminator next to it, and terminal_putentryat outside the screen no  *)
(* more than the row behind it - as long as no line is erased in which a   *)
(* message has come.                                                       *)
THEOREM BoundsSafe == Spec => []WritesInBounds
<1>1. ASSUME IInv
      PROVE  WritesInBounds
  <2>1. Typed /\ Vertical /\ Outside
    BY <1>1 DEF IInv
  <2>2. ASSUME kernel = None, printing = Finished
        PROVE  screen.y <= LastRow
    <3>1. printing.at = "load"
      BY <2>2, OutputOf DEF Finished
    <3> QED
      BY <2>1, <2>2, <3>1 DEF Vertical, RowOf, Top, Steps
  <2> QED
    BY <2>1, <2>2 DEF WritesInBounds, Typed, Outside
<1> QED
  BY <1>1, Invariance, PTL

(* Letters and backspaces on one row: what kernel_tty_read has in its      *)
(* buffer is what stands behind the prompt on the screen, and the string   *)
(* that kernel_command_line gets is as long.                               *)
THEOREM LineSafe == Spec => []ShownIsRead
<1>1. ASSUME IInv
      PROVE  ShownIsRead
  <2>1. Typed /\ OnRow
    BY <1>1 DEF IInv
  <2>2. count \in Int /\ LEN \in Nat /\ count <= LEN /\ line \in Int
    BY <2>1, Values DEF Typed
  <2>3. SUFFICES ASSUME plain, count >= 0, kernel = None,
                        \/ pc = "more" /\ printing = Finished
                        \/ pc = "execute" /\ printing = Output(<<CR>>)
                 PROVE  /\ Here = line + count
                        /\ \A k \in 0 .. count - 1 : line + k \in Cells =>
                              screen.vm[line + k] = buf[k]
                        /\ pc = "execute" => Len(Text) = count
    BY DEF ShownIsRead
  <2>4. CASE pc = "more" /\ printing = Finished
    <3>1. printing.todo = <<>> /\ Net(<<>>) = 0
      BY <2>4, OutputOf, NetOf DEF Finished
    <3> QED
      BY <2>1, <2>2, <2>3, <2>4, <3>1 DEF OnRow, Stored
  <2>5. CASE pc = "execute" /\ printing = Output(<<CR>>)
    <3>1. InLetters /\ buf[count] = NUL /\ Here = line + count /\ Stored(count)
      BY <2>1, <2>3, <2>5 DEF OnRow
    <3>2. Len(Text) = count
      <4> DEFINE Ended(k) == buf[k] = NUL /\ \A j \in 0 .. k - 1 : buf[j] # NUL
      <4>1. count \in 0 .. LEN /\ Ended(count)
        BY <2>2, <2>3, <3>1, Characters DEF InLetters
      <4>2. ASSUME NEW k \in 0 .. LEN, Ended(k)
            PROVE  k = count
        <5>1. ~(k < count)
          BY <2>2, <2>3, <4>1, <4>2
        <5>2. ~(count < k)
          BY <2>2, <2>3, <4>1, <4>2
        <5> QED
          BY <2>2, <5>1, <5>2
      <4> DEFINE end == CHOOSE k \in 0 .. LEN : Ended(k)
      <4>3. end = count
        BY <4>1, <4>2
      <4>4. Text = [k \in 1 .. end |-> buf[k - 1]]
        BY DEF Text
      <4> HIDE DEF end
      <4> QED
        BY <2>2, <2>3, <4>3, <4>4
    <3> QED
      BY <2>3, <3>1, <3>2 DEF Stored
  <2> QED
    BY <2>3, <2>4, <2>5
<1> QED
  BY <1>1, Invariance, PTL
=============================================================================
