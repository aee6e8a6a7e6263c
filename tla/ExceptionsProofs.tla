-------------------------- MODULE ExceptionsProofs --------------------------
(***************************************************************************)
(* Proofs about the exception handlers of Exceptions, for every depth of   *)
(* the stack, every set of exceptions and error codes and every number of  *)
(* non-maskable interrupts.                                                *)
(*                                                                         *)
(* The invariant reads the stack: each return address on it belongs to a   *)
(* context - the kernel's own code, or a handler at an instruction - and   *)
(* what lies below it is what that context has to find there.  A handler   *)
(* that returns finds its frame, one with an error code in the way never   *)
(* returns, and from one that stops the machine nothing leads back.        *)
(***************************************************************************)
EXTENDS Exceptions, SequenceTheorems, TLAPS

(* Handlers that return, when no error code is in their way; those that    *)
(* stop the machine; what nothing leads back from, which the handler of    *)
(* general protection faults is, as it returns to its own fault.           *)
Returners == {"default", "divbyzero", "debugtrap", "breakpoint", "bounderror",
              "fpuexception", "aligncheck", "virtualizeexception"}
Stoppers == {"nmi", "overflow", "badopcode", "deviceerror", "doublefault",
             "invalidtss", "segnotpresent", "stacksegfault", "pagefault",
             "machinecheck", "simdexception", "securityexception"}
Ended == Stoppers \union {"genprotectfault", "stopped", "wild", "reset"}
Owners == {"main", "handler", "garbage"}

(* Where a handler of Stoppers prints its number, and where it stops.      *)
PrintAt(c) == IF c = "pagefault" THEN 4 ELSE 3
StopAt(c) == IF c = "pagefault" THEN 6 ELSE IF c = "nmi" THEN 5 ELSE 4

VectorOf ==
  [nmi |-> 2, overflow |-> 4, badopcode |-> 6, deviceerror |-> 7,
   doublefault |-> 8, invalidtss |-> 10, segnotpresent |-> 11,
   stacksegfault |-> 12, pagefault |-> 14, machinecheck |-> 18,
   simdexception |-> 19, securityexception |-> 30]

NumberShown(v) == IF v \in {7, 30} THEN NoNumber ELSE v

-----------------------------------------------------------------------------
(* The handlers' instructions and the vectors that lead to them.           *)

LEMMA HandlerNames ==
  /\ DOMAIN Text = Returners \union Stoppers \union {"genprotectfault"}
  /\ Returners \intersect Stoppers = {}
  /\ "genprotectfault" \notin Returners \union Stoppers
  /\ {"main", "stopped", "wild", "reset"} \intersect DOMAIN Text = {}
  BY DEF Text, Returners, Stoppers

(* Handlers that return are four instructions.                             *)
LEMMA ReturnersText ==
  ASSUME NEW c \in Returners
  PROVE  /\ Text[c][1].op = "pushad" /\ Text[c][3].op = "popad" /\ Text[c][4].op = "iretd"
         /\ Text[c][2].op \in {"print", "puts"}
<1>1. Text[c] = i386_defaulthandler \/ \E n \in Int : Text[c] = Returns(n)
  BY DEF Text, Returners, i386_divbyzero, i386_debugtrap, i386_breakpoint,
         i386_bounderror, i386_fpuexception, i386_aligncheck,
         i386_virtualizeexception
<1>2. CASE Text[c] = i386_defaulthandler
  BY <1>2 DEF i386_defaulthandler, pushad, popad, iretd, puts
<1>3. CASE \E n \in Int : Text[c] = Returns(n)
  BY <1>3 DEF Returns, pushad, popad, iretd, print
<1> QED
  BY <1>1, <1>2, <1>3

(* Handlers that stop the machine, but for two.                            *)
LEMMA StoppersText ==
  ASSUME NEW c \in Stoppers \ {"nmi", "pagefault"}
  PROVE  /\ Text[c][1].op = "pushad" /\ Text[c][2].op = "set_disp"
         /\ Text[c][3].op = "print" /\ Text[c][4].op = "stop"
         /\ Text[c][3].number = NumberShown(VectorOf[c])
<1>1. Text[c] = Stops(NumberShown(VectorOf[c]))
  BY DEF Text, Stoppers, VectorOf, NumberShown, i386_overflow, i386_badopcode,
         i386_deviceerror, i386_doublefault, i386_invalidtss,
         i386_segnotpresent, i386_stacksegfault, i386_machinecheck,
         i386_simdexception, i386_securityexception
<1> QED
  BY <1>1 DEF Stops, pushad, set_disp, print, stop

LEMMA NmiText ==
  LET t == Text["nmi"]
  IN /\ t[1].op = "pushad" /\ t[2].op = "set_disp" /\ t[3].op = "print"
     /\ t[4].op = "puts" /\ t[5].op = "stop" /\ t[3].number = 2
<1>1. Text["nmi"] = i386_nmi
  BY DEF Text
<1> QED
  BY <1>1 DEF i386_nmi, pushad, set_disp, print, puts, stop

LEMMA PageFaultText ==
  LET t == Text["pagefault"]
  IN /\ t[1].op = "pop" /\ t[2].op = "pushad" /\ t[3].op = "set_disp"
     /\ t[4].op = "print" /\ t[5].op = "explain" /\ t[6].op = "stop"
     /\ t[1].var = "int_pfErrorCode" /\ t[4].number = 14
     /\ t[5].var = "int_pfErrorCode"
<1>1. Text["pagefault"] = i386_pagefault
  BY DEF Text
<1> QED
  BY <1>1 DEF i386_pagefault, pop, pushad, set_disp, print, explain, stop

LEMMA ProtectionText ==
  LET t == Text["genprotectfault"]
  IN /\ t[1].op = "pop" /\ t[2].op = "pushad" /\ t[3].op = "set_disp"
     /\ t[4].op = "print" /\ t[5].op = "puts" /\ t[6].op = "explain"
     /\ t[7].op = "push" /\ t[8].op = "popad" /\ t[9].op = "iretd"
     /\ t[1].var = "int_gpfCode" /\ t[4].number = 13 /\ t[6].var = "int_gpfCode"
     /\ t[7].count = 2
<1>1. Text["genprotectfault"] = i386_genprotectfault
  BY DEF Text
<1> QED
  BY <1>1 DEF i386_genprotectfault, pop, pushad, set_disp, print, puts, explain,
              push, popad, iretd

(* Where an exception leads.                                               *)
LEMMA Gates ==
  ASSUME set \in 0 .. 20, NEW v \in 0 .. 31
  PROVE  /\ Gate(v) \in DOMAIN Text
         /\ Gate(v) \in Stoppers => VectorOf[Gate(v)] = v /\ set >= 3
         /\ Gate(v) # "default" /\ v \in Fatal =>
              Gate(v) \in Stoppers \union {"genprotectfault"}
         /\ Gate(v) = "genprotectfault" => v = 13 /\ set >= 13
         /\ set >= 13 /\ v = 13 => Gate(v) = "genprotectfault"
         /\ set >= 3 /\ v = 2 => Gate(v) = "nmi"
<1> DEFINE mine == {k \in 1 .. set : VectorTable[k][1] = v}
<1>1. CASE mine = {}
  <2>1. Gate(v) = "default"
    BY <1>1 DEF Gate
  <2>2. ~(set >= 3 /\ v = 2) /\ ~(set >= 13 /\ v = 13)
    <3>1. VectorTable[3][1] = 2 /\ VectorTable[13][1] = 13
      BY DEF VectorTable
    <3> QED
      BY <3>1, <1>1
  <2> QED
    BY <2>1, <2>2, HandlerNames DEF Returners, Stoppers
<1>2. CASE mine # {}
  <2>1. PICK k \in mine : Gate(v) = VectorTable[k][2]
    BY <1>2 DEF Gate
  <2>2. k \in 1 .. 20 /\ k <= set /\ VectorTable[k][1] = v
    BY <2>1
  <2>3. /\ VectorTable[k][2] \in DOMAIN Text
        /\ VectorTable[k][2] \in Stoppers => VectorOf[VectorTable[k][2]] = v /\ k >= 3
        /\ v \in Fatal => VectorTable[k][2] \in Stoppers \union {"genprotectfault"}
        /\ VectorTable[k][2] = "genprotectfault" => v = 13 /\ k >= 13
        /\ v = 13 => VectorTable[k][2] = "genprotectfault"
        /\ v = 2 => VectorTable[k][2] = "nmi"
    BY <2>2, HandlerNames DEF VectorTable, Returners, Stoppers, VectorOf, Fatal
  <2> QED
    BY <2>1, <2>2, <2>3
<1> QED
  BY <1>1, <1>2

-----------------------------------------------------------------------------
(* The stack.                                                              *)

Codes == DOMAIN Text \union {"main", "stopped"}
Word == {Flags, Segment, <<"argument">>}
        \union {<<"eip", c, p>> : c \in Codes, p \in Nat}
        \union {Error(e) : e \in Nat}
        \union {<<"reg", k, q>> : k \in 1 .. 8, q \in Owners}

(* In what follows a stack s comes with the owners G of the registers at   *)
(* the time each of its return addresses was pushed.                       *)

(* The word at j of s is an error code, which no handler returns through,  *)
(* or a return address to a context whose registers are r's.               *)
Frame(s, G, j, r) ==
  j <= Len(s) /\ (s[j][1] = "error" \/ (s[j][1] = "eip" /\ G[j] = r))

(* The registers of q, where pushad has put them.                          *)
Saved(s, off, q) ==
  off + 8 <= Len(s) /\ \A k \in 1 .. 8 : s[off + k] = <<"reg", k, q>>

(* What the code c at its instruction p finds behind the first off words   *)
(* of s, when the registers are r's.                                       *)
Context(s, G, off, c, p, r) ==
  /\ c \in Codes /\ p \in Nat /\ off <= Len(s)
  /\ c = "main" => off = Len(s) /\ r = "main"
  /\ c \in Returners =>
       /\ p \in 1 .. 4
       /\ p \in {1, 4} => Frame(s, G, off + 1, r)
       /\ p \in {2, 3} => \E q \in Owners : Saved(s, off, q) /\ Frame(s, G, off + 9, q)
  /\ c = "genprotectfault" =>
       /\ p \in 1 .. 9
       /\ p = 1 => off < Len(s)
       /\ p \in 3 .. 7 => \E q \in Owners : Saved(s, off, q)
       /\ p = 8 => \E q \in Owners : Saved(s, off + 2, q)
       /\ p = 9 => off < Len(s) /\ s[off + 1][1] = "reg"
  /\ c \in Stoppers => p \in 1 .. StopAt(c)

(* Each return address of s leads to a context that finds what it needs.   *)
Chain(s, G) ==
  /\ s \in Seq(Word) /\ G \in [1 .. Len(s) -> Owners]
  /\ \A i \in 1 .. Len(s) :
       s[i][1] = "eip" =>
         i + 2 <= Len(s) /\ Context(s, G, i + 2, s[i][2], s[i][3], G[i])

(* t has the words of s behind n others.                                   *)
Shifted(s, G, t, H, n) ==
  /\ Len(t) = Len(s) + n
  /\ \A i \in 1 .. Len(s) : t[i + n] = s[i] /\ H[i + n] = G[i]

LEMMA Words ==
  /\ {Flags, Segment, <<"argument">>} \subseteq Word
  /\ \A c \in Codes, p \in Nat : <<"eip", c, p>> \in Word
  /\ \A e \in Nat : Error(e) \in Word /\ Error(e)[1] = "error" /\ Error(e)[2] = e
  /\ \A k \in 1 .. 8, q \in Owners : <<"reg", k, q>> \in Word
  /\ Flags[1] = "eflags" /\ Segment[1] = "cs"
  /\ \A w \in Word : w[1] = "error" => w[2] \in Nat
  /\ \A w \in Word : w[1] = "eip" => w[2] \in Codes /\ w[3] \in Nat
<1>1. /\ {Flags, Segment, <<"argument">>} \subseteq Word
      /\ \A c \in Codes, p \in Nat : <<"eip", c, p>> \in Word
      /\ \A e \in Nat : Error(e) \in Word /\ Error(e)[1] = "error" /\ Error(e)[2] = e
      /\ \A k \in 1 .. 8, q \in Owners : <<"reg", k, q>> \in Word
      /\ Flags[1] = "eflags" /\ Segment[1] = "cs"
  BY DEF Word, Error, Flags, Segment
<1>2. ASSUME NEW w \in Word
      PROVE  /\ w[1] = "error" => w[2] \in Nat
             /\ w[1] = "eip" => w[2] \in Codes /\ w[3] \in Nat
  BY DEF Word, Error, Flags, Segment
<1> QED
  BY <1>1, <1>2

LEMMA ContextShift ==
  ASSUME NEW s \in Seq(Word), NEW t \in Seq(Word), NEW G, NEW H, NEW n \in Nat,
         Shifted(s, G, t, H, n), NEW off \in Nat, NEW c, NEW p, NEW r
  PROVE  Context(s, G, off, c, p, r) <=> Context(t, H, off + n, c, p, r)
<1>1. Len(s) \in Nat /\ Len(t) = Len(s) + n /\ Len(t) \in Nat
  BY DEF Shifted
<1>2. ASSUME NEW j \in Nat \ {0}, NEW q
      PROVE  Frame(s, G, j, q) <=> Frame(t, H, j + n, q)
  <2>1. j <= Len(s) <=> j + n <= Len(t)
    BY <1>1
  <2>2. j <= Len(s) => t[j + n] = s[j] /\ H[j + n] = G[j]
    BY <1>1 DEF Shifted
  <2> QED
    BY <2>1, <2>2 DEF Frame
<1>3. ASSUME NEW j \in Nat, NEW q
      PROVE  Saved(s, j, q) <=> Saved(t, j + n, q)
  <2>1. j + 8 <= Len(s) <=> (j + n) + 8 <= Len(t)
    BY <1>1
  <2>2. ASSUME j + 8 <= Len(s), NEW k \in 1 .. 8
        PROVE  t[(j + n) + k] = s[j + k]
    <3>1. j + k \in 1 .. Len(s) /\ (j + k) + n = (j + n) + k
      BY <2>2, <1>1
    <3> QED
      BY <3>1 DEF Shifted
  <2> QED
    BY <2>1, <2>2 DEF Saved
<1>4. /\ off <= Len(s) <=> off + n <= Len(t)
      /\ off < Len(s) <=> off + n < Len(t)
      /\ off = Len(s) <=> off + n = Len(t)
  BY <1>1
<1>5. off < Len(s) => t[(off + n) + 1] = s[off + 1]
  <2>1. SUFFICES ASSUME off < Len(s) PROVE t[(off + n) + 1] = s[off + 1]
    OBVIOUS
  <2>2. off + 1 \in 1 .. Len(s) /\ (off + 1) + n = (off + n) + 1
    BY <2>1, <1>1
  <2> QED
    BY <2>2 DEF Shifted
<1>6. \A q : /\ Frame(s, G, off + 1, q) <=> Frame(t, H, (off + n) + 1, q)
             /\ Frame(s, G, off + 9, q) <=> Frame(t, H, (off + n) + 9, q)
             /\ Saved(s, off, q) <=> Saved(t, off + n, q)
             /\ Saved(s, off + 2, q) <=> Saved(t, (off + n) + 2, q)
  <2>1. /\ off + 1 \in Nat \ {0} /\ (off + 1) + n = (off + n) + 1
        /\ off + 9 \in Nat \ {0} /\ (off + 9) + n = (off + n) + 9
        /\ off + 2 \in Nat /\ (off + 2) + n = (off + n) + 2
    OBVIOUS
  <2>2. \A q : /\ Frame(s, G, off + 1, q) <=> Frame(t, H, (off + 1) + n, q)
               /\ Frame(s, G, off + 9, q) <=> Frame(t, H, (off + 9) + n, q)
               /\ Saved(s, off, q) <=> Saved(t, off + n, q)
               /\ Saved(s, off + 2, q) <=> Saved(t, (off + 2) + n, q)
    BY <2>1, <1>2, <1>3
  <2> QED
    BY <2>1, <2>2
<1> QED
  BY <1>4, <1>5, <1>6 DEF Context

(* Words are pushed in the context c, p with the registers of r: a return  *)
(* address among them leads back to it.                                    *)
LEMMA PushChain ==
  ASSUME NEW s, NEW G, Chain(s, G), NEW w \in Seq(Word), NEW r \in Owners,
         \A i \in 1 .. Len(w) :
           w[i][1] = "eip" => i + 2 = Len(w) /\ Context(s, G, 0, w[i][2], w[i][3], r)
  PROVE  \E H : /\ Chain(w \o s, H)
                /\ Shifted(s, G, w \o s, H, Len(w))
                /\ \A i \in 1 .. Len(w) : H[i] = r
<1> DEFINE n == Len(w)
           t == w \o s
           H == [i \in 1 .. Len(t) |-> IF i <= n THEN r ELSE G[i - n]]
<1>1. /\ s \in Seq(Word) /\ Len(s) \in Nat /\ G \in [1 .. Len(s) -> Owners] /\ n \in Nat
  BY DEF Chain
<1>2. /\ t \in Seq(Word) /\ Len(t) = Len(s) + n /\ Len(t) \in Nat
      /\ \A i \in 1 .. n : t[i] = w[i]
      /\ \A i \in 1 .. Len(s) : t[i + n] = s[i]
  BY <1>1
<1> HIDE DEF n, t
<1>3. H \in [1 .. Len(t) -> Owners]
  <2>1. \A i \in 1 .. Len(t) : ~(i <= n) => i - n \in 1 .. Len(s)
    BY <1>1, <1>2
  <2> QED
    BY <2>1, <1>1
<1>4. /\ \A i \in 1 .. n : H[i] = r
      /\ \A i \in 1 .. Len(s) : H[i + n] = G[i]
  BY <1>1, <1>2
<1> HIDE DEF H
<1>5. Shifted(s, G, t, H, n)
  BY <1>2, <1>4 DEF Shifted
<1>6. ASSUME NEW i \in 1 .. Len(t), t[i][1] = "eip"
      PROVE  i + 2 <= Len(t) /\ Context(t, H, i + 2, t[i][2], t[i][3], H[i])
  <2>1. CASE i <= n
    <3>1. i \in 1 .. n /\ t[i] = w[i] /\ H[i] = r
      BY <2>1, <1>1, <1>2, <1>4
    <3>2. i + 2 = n /\ Context(s, G, 0, w[i][2], w[i][3], r)
      <4>1. i \in 1 .. Len(w) /\ w[i][1] = "eip" /\ n = Len(w)
        BY <3>1, <1>6 DEF n
      <4> QED
        BY <4>1
    <3>3. Context(t, H, 0 + n, w[i][2], w[i][3], r)
      <4>1. s \in Seq(Word) /\ t \in Seq(Word) /\ n \in Nat /\ 0 \in Nat
        BY <1>1, <1>2
      <4> QED
        BY ONLY <4>1, <3>2, <1>5, ContextShift
    <3>4. 0 + n = i + 2
      BY <3>2, <1>1
    <3> QED
      BY <3>1, <3>3, <3>4, <1>1, <1>2
  <2>2. CASE ~(i <= n)
    <3> DEFINE j == i - n
    <3>1. j \in 1 .. Len(s) /\ j + n = i /\ j + 2 \in Nat
      BY <2>2, <1>1, <1>2
    <3> HIDE DEF j
    <3>2. t[i] = s[j] /\ H[i] = G[j]
      BY <3>1, <1>2, <1>4
    <3>3. j + 2 <= Len(s) /\ Context(s, G, j + 2, s[j][2], s[j][3], G[j])
      BY <3>1, <3>2, <1>6 DEF Chain
    <3>4. Context(t, H, (j + 2) + n, s[j][2], s[j][3], G[j])
      BY <3>1, <3>3, <1>1, <1>2, <1>5, ContextShift
    <3>5. (j + 2) + n = i + 2 /\ i + 2 <= Len(t)
      <4>1. j \in Nat /\ n \in Nat /\ i \in Nat
        BY <3>1, <1>1, <1>2
      <4> QED
        BY <4>1, <3>1, <3>3, <1>1, <1>2
    <3> QED
      BY <3>2, <3>4, <3>5
  <2> QED
    BY <2>1, <2>2
<1>7. Chain(t, H)
  BY <1>2, <1>3, <1>6 DEF Chain
<1> QED
  BY <1>4, <1>5, <1>7 DEF n, t

(* The first n words are taken off.                                        *)
LEMMA DropChain ==
  ASSUME NEW s, NEW G, Chain(s, G), NEW n \in Nat, n <= Len(s)
  PROVE  \E H : /\ Chain(SubSeq(s, n + 1, Len(s)), H)
                /\ Shifted(SubSeq(s, n + 1, Len(s)), H, s, G, n)
<1> DEFINE t == SubSeq(s, n + 1, Len(s))
           H == [i \in 1 .. Len(t) |-> G[i + n]]
<1>1. s \in Seq(Word) /\ Len(s) \in Nat /\ G \in [1 .. Len(s) -> Owners]
  BY DEF Chain
<1>2. /\ t \in Seq(Word) /\ Len(s) = Len(t) + n /\ Len(t) \in Nat
      /\ \A i \in 1 .. Len(t) : s[i + n] = t[i]
  BY <1>1, SubSeqProperties
<1> HIDE DEF t
<1>3. H \in [1 .. Len(t) -> Owners] /\ \A i \in 1 .. Len(t) : G[i + n] = H[i]
  BY <1>1, <1>2
<1> HIDE DEF H
<1>4. Shifted(t, H, s, G, n)
  BY <1>2, <1>3 DEF Shifted
<1>5. ASSUME NEW i \in 1 .. Len(t), t[i][1] = "eip"
      PROVE  i + 2 <= Len(t) /\ Context(t, H, i + 2, t[i][2], t[i][3], H[i])
  <2>1. i + n \in 1 .. Len(s) /\ s[i + n] = t[i] /\ G[i + n] = H[i] /\ i + 2 \in Nat
    BY <1>2, <1>3
  <2>2. /\ (i + n) + 2 <= Len(s)
        /\ Context(s, G, (i + n) + 2, t[i][2], t[i][3], H[i])
    BY <2>1, <1>5 DEF Chain
  <2>3. (i + n) + 2 = (i + 2) + n
    BY <1>2
  <2> QED
    BY <2>1, <2>2, <2>3, <1>1, <1>2, <1>4, ContextShift
<1> QED
  BY <1>2, <1>3, <1>4, <1>5 DEF Chain, t

-----------------------------------------------------------------------------
(* The inductive invariant.                                                *)

Typed ==
  /\ set \in 0 .. 20 /\ ip \in Nat /\ regs \in Owners
  /\ code \in Codes \union {"wild", "reset"}
  /\ stack \in Seq(Word)
  /\ saved \in [int_gpfCode : Nat, int_pfErrorCode : Nat]
  /\ shown \in [number : Int, error : Nat]
  /\ last \in [vector : Int, error : Nat]

(* Whoever runs, and whoever was interrupted, finds what it needs.         *)
Layout ==
  code \notin {"wild", "reset"} =>
    \E G : Chain(stack, G) /\ Context(stack, G, 0, code, ip, regs)

(* No return address of s leads to a handler that stops the machine.       *)
Harmless(s) ==
  \A i \in 1 .. Len(s) : s[i][1] = "eip" => s[i][2] \notin Ended

Calm ==
  /\ code \notin Ended => ~fatal /\ Harmless(stack)
  /\ code = "genprotectfault" => set >= 13

(* What a handler that stops the machine has put on the screen so far.     *)
Reporting ==
  /\ code \in Stoppers =>
       /\ set >= 3 /\ last.vector = VectorOf[code]
       /\ ip > PrintAt(code) => shown.number = NumberShown(last.vector)
       /\ code = "pagefault" =>
            /\ ip = 1 => stack # <<>> /\ stack[1] = Error(last.error)
            /\ ip >= 2 => saved.int_pfErrorCode = last.error
            /\ ip = 6 => shown.error = last.error
  /\ code = "stopped" =>
       /\ set >= 3 /\ shown.number = NumberShown(last.vector)
       /\ last.vector = 14 => shown.error = last.error

IInv == Typed /\ Layout /\ Calm /\ Reporting

-----------------------------------------------------------------------------
(* It is kept by every step.                                               *)

LEMMA FrameShift ==
  ASSUME NEW s \in Seq(Word), NEW t \in Seq(Word), NEW G, NEW H, NEW n \in Nat,
         Shifted(s, G, t, H, n), NEW j \in Nat \ {0}, NEW q
  PROVE  Frame(s, G, j, q) <=> Frame(t, H, j + n, q)
<1>1. Len(s) \in Nat /\ Len(t) = Len(s) + n
  BY DEF Shifted
<1>2. j <= Len(s) <=> j + n <= Len(t)
  BY <1>1
<1>3. j <= Len(s) => t[j + n] = s[j] /\ H[j + n] = G[j]
  <2>1. j <= Len(s) => j \in 1 .. Len(s)
    BY <1>1
  <2> QED
    BY <2>1 DEF Shifted
<1> QED
  BY <1>2, <1>3 DEF Frame

LEMMA HarmlessPush ==
  ASSUME NEW s \in Seq(Word), NEW w \in Seq(Word), Harmless(s), Harmless(w)
  PROVE  Harmless(w \o s)
<1>1. SUFFICES ASSUME NEW i \in 1 .. Len(w \o s), (w \o s)[i][1] = "eip"
               PROVE  (w \o s)[i][2] \notin Ended
  BY DEF Harmless
<1>2. CASE i <= Len(w)
  <2>1. i \in 1 .. Len(w) /\ (w \o s)[i] = w[i]
    BY <1>2
  <2> QED
    BY <2>1, <1>1 DEF Harmless
<1>3. CASE ~(i <= Len(w))
  <2>1. i - Len(w) \in 1 .. Len(s) /\ (w \o s)[i] = s[i - Len(w)]
    BY <1>3
  <2> QED
    BY <2>1, <1>1 DEF Harmless
<1> QED
  BY <1>2, <1>3

LEMMA HarmlessDrop ==
  ASSUME NEW s \in Seq(Word), Harmless(s), NEW n \in Nat, n <= Len(s)
  PROVE  Harmless(SubSeq(s, n + 1, Len(s)))
<1> DEFINE t == SubSeq(s, n + 1, Len(s))
<1>1. /\ Len(s) \in Nat /\ Len(t) = Len(s) - n
      /\ \A i \in 1 .. Len(t) : t[i] = s[i + n] /\ i + n \in 1 .. Len(s)
  BY SubSeqProperties
<1> QED
  BY <1>1 DEF Harmless

LEMMA Behind ==
  ASSUME NEW S, NEW a \in Seq(S), NEW b \in Seq(S), Len(a) = 1, Len(b) = 3
  PROVE  /\ Len(a \o b) = 4 /\ (a \o b)[1] = a[1] /\ (a \o b)[2] = b[1]
         /\ (a \o b)[3] = b[2] /\ (a \o b)[4] = b[3]
<1> DEFINE m == Len(a)
           n == Len(b)
           c == a \o b
<1>1. Len(c) = m + n /\ \A i \in 1 .. m + n : c[i] = IF i <= m THEN a[i] ELSE b[i - m]
  BY ConcatProperties
<1>2. m = 1 /\ n = 3
  OBVIOUS
<1> HIDE DEF m, n, c
<1>3. Len(c) = 4 /\ \A i \in 1 .. 4 : c[i] = IF i <= 1 THEN a[i] ELSE b[i - 1]
  BY <1>1, <1>2
<1>4. c[1] = a[1] /\ c[2] = b[1] /\ c[3] = b[2] /\ c[4] = b[3]
  BY ONLY <1>3
<1> QED
  BY <1>3, <1>4 DEF c

(* The processor takes an exception: from the kernel's code, from a        *)
(* handler whose return faults, or a non-maskable interrupt from anybody.  *)
LEMMA TakeStep ==
  ASSUME IInv, NEW v \in 0 .. 31, NEW e \in Nat, Take(v, e),
         code \notin {"wild", "reset"},
         code \in Ended => v = 2 \/ (code = "genprotectfault" /\ v = 13),
         UNCHANGED <<regs, set, saved, shown>>
  PROVE  IInv'
<1> DEFINE frame == (IF v \in WithCode THEN <<Error(e)>> ELSE <<>>)
                      \o <<Return, Segment, Flags>>
           n == Len(frame)
<1>1. /\ set \in 0 .. 20 /\ ip \in Nat /\ regs \in Owners /\ code \in Codes
      /\ stack \in Seq(Word)
  BY DEF IInv, Typed
<1>2. PICK G : Chain(stack, G) /\ Context(stack, G, 0, code, ip, regs)
  BY DEF IInv, Layout
<1>3. /\ Return = <<"eip", code, ip>> /\ Return \in Word /\ Segment \in Word
      /\ Flags \in Word /\ Error(e) \in Word
      /\ Error(e)[1] = "error" /\ Segment[1] = "cs" /\ Flags[1] = "eflags"
  BY <1>1, Words DEF Return
<1>4. /\ frame \in Seq(Word) /\ n \in {3, 4}
      /\ \A i \in 1 .. n : frame[i][1] = "eip" => i + 2 = n /\ frame[i] = Return
      /\ frame[1] = IF v \in WithCode THEN Error(e) ELSE Return
  <2>1. CASE v \in WithCode
    <3> DEFINE a == <<Error(e)>>
               b == <<Return, Segment, Flags>>
    <3>1. frame = a \o b
      BY <2>1
    <3>2. /\ a \in Seq(Word) /\ Len(a) = 1 /\ a[1] = Error(e)
          /\ b \in Seq(Word) /\ Len(b) = 3
          /\ b[1] = Return /\ b[2] = Segment /\ b[3] = Flags
      BY <1>3
    <3> HIDE DEF frame, a, b
    <3>3. /\ frame \in Seq(Word) /\ Len(frame) = 4
          /\ frame[1] = Error(e) /\ frame[2] = Return
          /\ frame[3] = Segment /\ frame[4] = Flags
      <4>1. /\ Len(a \o b) = 4 /\ (a \o b)[1] = a[1] /\ (a \o b)[2] = b[1]
            /\ (a \o b)[3] = b[2] /\ (a \o b)[4] = b[3]
        BY ONLY <3>2, Behind
      <4>2. a \o b \in Seq(Word)
        BY <3>2
      <4> QED
        BY <4>1, <4>2, <3>1, <3>2
    <3> QED
      BY <3>3, <2>1, <1>3
  <2>2. CASE v \notin WithCode
    <3> DEFINE b == <<Return, Segment, Flags>>
    <3>1. frame = <<>> \o b
      BY <2>2
    <3>2. /\ b \in Seq(Word) /\ Len(b) = 3
          /\ b[1] = Return /\ b[2] = Segment /\ b[3] = Flags
      BY <1>3
    <3> HIDE DEF frame, b
    <3>3. frame = b
      BY <3>1, <3>2, ConcatEmptySeq
    <3>4. /\ frame \in Seq(Word) /\ Len(frame) = 3
          /\ frame[1] = Return /\ frame[2] = Segment /\ frame[3] = Flags
      BY <3>2, <3>3
    <3>5. n = 3
      BY <3>4
    <3> HIDE DEF n
    <3>6. ASSUME NEW i \in 1 .. n, frame[i][1] = "eip"
          PROVE  i + 2 = n /\ frame[i] = Return
      <4>1. i \in 1 .. 3
        BY <3>5
      <4> QED
        BY <4>1, <3>4, <3>5, <3>6, <1>3
    <3> QED
      BY <3>4, <3>5, <3>6, <2>2
  <2> HIDE DEF frame, n
  <2> QED
    BY <2>1, <2>2
<1>5. /\ Gate(v) \in DOMAIN Text
      /\ Gate(v) \in Stoppers => VectorOf[Gate(v)] = v /\ set >= 3
      /\ Gate(v) # "default" /\ v \in Fatal =>
           Gate(v) \in Stoppers \union {"genprotectfault"}
      /\ Gate(v) = "genprotectfault" => v = 13 /\ set >= 13
      /\ set >= 13 /\ v = 13 => Gate(v) = "genprotectfault"
      /\ set >= 3 /\ v = 2 => Gate(v) = "nmi"
  BY <1>1, Gates
<1>6. /\ IF Len(frame \o stack) <= Depth
         THEN stack' = frame \o stack /\ code' = Gate(v)
         ELSE stack' = <<>> /\ code' = "reset"
      /\ ip' = 1 /\ regs' = regs /\ set' = set /\ saved' = saved /\ shown' = shown
      /\ last' = IF Gate(v) # "default" THEN [vector |-> v, error |-> e] ELSE last
      /\ fatal' = (fatal \/ (Gate(v) # "default" /\ v \in Fatal))
  BY DEF Take, Push, Room
<1> HIDE DEF frame, n
<1>7. last' \in [vector : Int, error : Nat]
  BY <1>6 DEF IInv, Typed
<1>8. CASE code' = "reset" /\ stack' = <<>>
  <2>1. Typed'
    BY <1>1, <1>6, <1>7, <1>8 DEF IInv, Typed
  <2>2. "reset" \in Ended /\ "reset" \notin Stoppers
    BY DEF Ended, Stoppers
  <2> QED
    BY <1>8, <2>1, <2>2 DEF IInv, Layout, Calm, Reporting
<1>9. CASE stack' = frame \o stack /\ code' = Gate(v)
  <2>1. PICK H : /\ Chain(stack', H)
                 /\ Shifted(stack, G, stack', H, n)
                 /\ \A i \in 1 .. n : H[i] = regs
    <3>1. \A i \in 1 .. Len(frame) :
            frame[i][1] = "eip" =>
              /\ i + 2 = Len(frame)
              /\ Context(stack, G, 0, frame[i][2], frame[i][3], regs)
      BY <1>2, <1>3, <1>4 DEF n
    <3>2. Chain(stack, G) /\ frame \in Seq(Word) /\ regs \in Owners
      BY <1>1, <1>2, <1>4
    <3>3. \E H : /\ Chain(frame \o stack, H)
                 /\ Shifted(stack, G, frame \o stack, H, Len(frame))
                 /\ \A i \in 1 .. Len(frame) : H[i] = regs
      BY ONLY <3>1, <3>2, PushChain
    <3> QED
      BY <3>3, <1>9 DEF n
  <2>2. stack' \in Seq(Word) /\ Len(stack') >= 3 /\ stack'[1] = frame[1] /\ H[1] = regs
    <3>1. stack' \in Seq(Word) /\ Len(stack') = n + Len(stack)
      BY <1>1, <1>4, <1>9 DEF n
    <3>2. 1 \in 1 .. Len(frame) /\ 1 \in 1 .. n
      BY <1>4 DEF n
    <3>3. (frame \o stack)[1] = frame[1]
      BY <3>2, <1>1, <1>4
    <3> QED
      BY <3>1, <3>2, <3>3, <2>1, <1>1, <1>4, <1>9
  <2>3. Typed'
    BY <2>2, <1>1, <1>5, <1>6, <1>7, <1>9 DEF IInv, Typed, Codes
  <2>4. Layout'
    <3>1. Frame(stack', H, 1, regs)
      BY <2>2, <1>3, <1>4 DEF Frame
    <3>2. \A c \in Stoppers : 1 \in 1 .. StopAt(c)
      BY DEF StopAt
    <3>3. Gate(v) # "main" /\ Gate(v) \in Codes
      BY <1>5, HandlerNames DEF Codes
    <3>4. Context(stack', H, 0, Gate(v), 1, regs)
      BY <3>1, <3>2, <3>3, <2>2 DEF Context
    <3> QED
      BY <3>4, <2>1, <1>6, <1>9 DEF Layout
  <2>5. Calm'
    <3>1. SUFFICES ASSUME Gate(v) \notin Ended PROVE ~fatal' /\ Harmless(stack')
      BY <1>5, <1>6, <1>9 DEF Calm
    <3>2. code \notin Ended
      <4>1. CASE code = "genprotectfault"
        <5>1. set >= 13
          BY <4>1 DEF IInv, Calm
        <5> QED
          BY <4>1, <5>1, <3>1, <1>1, <1>5 DEF Ended, Stoppers
      <4>2. CASE code \in Stoppers \union {"stopped"}
        <5>1. set >= 3
          BY <4>2, HandlerNames DEF IInv, Reporting
        <5>2. code # "genprotectfault" /\ code \in Ended
          BY <4>2, HandlerNames DEF Ended
        <5>3. v = 2
          BY <5>2
        <5> QED
          BY <5>1, <5>3, <3>1, <1>1, <1>5 DEF Ended, Stoppers
      <4> QED
        BY <4>1, <4>2, <1>1 DEF Ended
    <3>3. ~fatal /\ Harmless(stack)
      BY <3>2 DEF IInv, Calm
    <3>4. ~fatal'
      BY <3>1, <3>3, <1>5, <1>6 DEF Ended
    <3>5. Harmless(frame)
      BY <3>2, <1>3, <1>4 DEF Harmless, n
    <3> QED
      BY <3>3, <3>4, <3>5, <1>1, <1>4, <1>9, HarmlessPush
  <2>6. Reporting'
    <3>1. Gate(v) # "stopped"
      BY <1>5, HandlerNames
    <3>2. ASSUME Gate(v) \in Stoppers
          PROVE  /\ set >= 3 /\ last'.vector = VectorOf[Gate(v)]
                 /\ Gate(v) = "pagefault" =>
                      stack' # <<>> /\ stack'[1] = Error(last'.error)
      <4>1. last' = [vector |-> v, error |-> e]
        BY <3>2, <1>6 DEF Stoppers
      <4>2. last'.vector = v /\ last'.error = e
        BY <4>1
      <4>3. Gate(v) = "pagefault" => v = 14
        BY <3>2, <1>5 DEF VectorOf
      <4>4. stack' # <<>>
        BY <2>2
      <4> QED
        BY <3>2, <4>2, <4>3, <4>4, <2>2, <1>4, <1>5 DEF WithCode
    <3>3. ~(1 > PrintAt(Gate(v)))
      BY DEF PrintAt
    <3> QED
      BY <3>1, <3>2, <3>3, <1>6, <1>9 DEF Reporting
  <2> QED
    BY <2>3, <2>4, <2>5, <2>6 DEF IInv
<1> QED
  BY <1>6, <1>8, <1>9
(* Which instruction of a handler it is that does something.               *)
LEMMA Instructions ==
  ASSUME NEW c \in DOMAIN Text, NEW p \in Nat,
         c \in Returners => p \in 1 .. 4,
         c = "genprotectfault" => p \in 1 .. 9,
         c \in Stoppers => p \in 1 .. StopAt(c)
  PROVE  LET op == Text[c][p].op
         IN /\ op = "pushad" =>
                 \/ c \in Returners /\ p = 1
                 \/ c = "genprotectfault" /\ p = 2
                 \/ c \in Stoppers /\ p = PrintAt(c) - 2
            /\ op = "popad" =>
                 \/ c \in Returners /\ p = 3
                 \/ c = "genprotectfault" /\ p = 8
            /\ op = "iretd" =>
                 \/ c \in Returners /\ p = 4
                 \/ c = "genprotectfault" /\ p = 9
            /\ op = "pop" =>
                 /\ p = 1
                 /\ \/ c = "genprotectfault" /\ Text[c][p].var = "int_gpfCode"
                    \/ c = "pagefault" /\ Text[c][p].var = "int_pfErrorCode"
            /\ op = "push" => c = "genprotectfault" /\ p = 7 /\ Text[c][p].count = 2
            /\ op = "stop" => c \in Stoppers /\ p = StopAt(c)
            /\ op \in {"set_disp", "print", "explain", "puts"} =>
                 \/ c \in Returners /\ p = 2
                 \/ c = "genprotectfault" /\ p \in 3 .. 6
                 \/ c \in Stoppers /\ p >= PrintAt(c) - 1 /\ p < StopAt(c)
            /\ op \in {"set_disp", "print", "explain", "puts"} /\ c \in Stoppers =>
                 /\ op = "set_disp" => p < PrintAt(c)
                 /\ op = "print" => p = PrintAt(c)
                                      /\ Text[c][p].number = NumberShown(VectorOf[c])
                 /\ op = "explain" => p > PrintAt(c) /\ c = "pagefault" /\ p = 5
                                        /\ Text[c][p].var = "int_pfErrorCode"
                 /\ op = "puts" => p > PrintAt(c)
                 /\ c = "pagefault" /\ p = 5 => op = "explain"
            /\ op = "print" => Text[c][p].number \in Int
            /\ op = "explain" => Text[c][p].var \in {"int_gpfCode", "int_pfErrorCode"}
<1>1. \/ c \in Returners \/ c \in Stoppers \ {"nmi", "pagefault"}
      \/ c = "nmi" \/ c = "pagefault" \/ c = "genprotectfault"
  BY HandlerNames
<1>2. CASE c \in Returners
  <2>1. p \in 1 .. 4 /\ c \notin Stoppers /\ c # "genprotectfault"
    BY <1>2, HandlerNames
  <2>2. Text[c][2].op = "print" => Text[c][2].number \in Int
    BY <1>2 DEF Returners, Text, i386_defaulthandler, i386_divbyzero,
         i386_debugtrap, i386_breakpoint, i386_bounderror, i386_fpuexception,
         i386_aligncheck, i386_virtualizeexception, Returns, print, puts
  <2> QED
    BY <1>2, <2>1, <2>2, ReturnersText
<1>3. CASE c \in Stoppers \ {"nmi", "pagefault"}
  <2>1. p \in 1 .. 4 /\ PrintAt(c) = 3 /\ StopAt(c) = 4
    BY <1>3 DEF PrintAt, StopAt
  <2>2. c \notin Returners /\ c # "genprotectfault"
    BY <1>3, HandlerNames
  <2>3. NumberShown(VectorOf[c]) \in Int
    BY <1>3 DEF Stoppers, VectorOf, NumberShown, NoNumber
  <2> QED
    BY <1>3, <2>1, <2>2, <2>3, StoppersText
<1>4. CASE c = "nmi"
  <2>1. p \in 1 .. 5 /\ PrintAt(c) = 3 /\ StopAt(c) = 5
    BY <1>4 DEF PrintAt, StopAt, Stoppers
  <2>2. c \notin Returners /\ c # "genprotectfault" /\ c \in Stoppers
    BY <1>4 DEF Returners, Stoppers
  <2>3. NumberShown(VectorOf[c]) = 2
    BY <1>4 DEF VectorOf, NumberShown
  <2> QED
    BY <1>4, <2>1, <2>2, <2>3, NmiText
<1>5. CASE c = "pagefault"
  <2>1. p \in 1 .. 6 /\ PrintAt(c) = 4 /\ StopAt(c) = 6
    BY <1>5 DEF PrintAt, StopAt, Stoppers
  <2>2. c \notin Returners /\ c # "genprotectfault" /\ c \in Stoppers
    BY <1>5 DEF Returners, Stoppers
  <2>3. NumberShown(VectorOf[c]) = 14
    BY <1>5 DEF VectorOf, NumberShown
  <2> QED
    BY <1>5, <2>1, <2>2, <2>3, PageFaultText
<1>6. CASE c = "genprotectfault"
  <2>1. p \in 1 .. 9 /\ c \notin Returners /\ c \notin Stoppers
    BY <1>6 DEF Returners, Stoppers
  <2> QED
    BY <1>6, <2>1, ProtectionText
<1> QED
  BY <1>1, <1>2, <1>3, <1>4, <1>5, <1>6

(* What a handler that runs can rely on.                                   *)
LEMMA Running ==
  ASSUME IInv, code \in DOMAIN Text
  PROVE  /\ code \in Codes /\ code \notin {"main", "stopped", "wild", "reset"}
         /\ ip \in Nat /\ regs \in Owners /\ stack \in Seq(Word)
         /\ code \in Returners => ip \in 1 .. 4
         /\ code = "genprotectfault" => ip \in 1 .. 9
         /\ code \in Stoppers => ip \in 1 .. StopAt(code)
         /\ code \in Returners => code \notin Ended /\ ~fatal /\ Harmless(stack)
         /\ \E G : Chain(stack, G) /\ Context(stack, G, 0, code, ip, regs)
<1>1. code \in Codes /\ code \notin {"main", "stopped", "wild", "reset"}
  BY HandlerNames DEF Codes
<1>2. PICK G : Chain(stack, G) /\ Context(stack, G, 0, code, ip, regs)
  BY <1>1 DEF IInv, Layout
<1>3. code \in Returners => code \notin Ended
  BY <1>1, HandlerNames DEF Ended
<1> QED
  BY <1>1, <1>2, <1>3 DEF Context, IInv, Typed, Calm

(* A handler goes on to its next instruction, which finds what it needs.   *)
LEMMA GoOn ==
  ASSUME IInv, code \in DOMAIN Text, code' = code, ip' = ip + 1,
         UNCHANGED <<set, last, fatal>>,
         regs' \in Owners, saved' \in [int_gpfCode : Nat, int_pfErrorCode : Nat],
         shown' \in [number : Int, error : Nat],
         NEW H, Chain(stack', H), Context(stack', H, 0, code, ip + 1, regs'),
         code \notin Ended => Harmless(stack'),
         Reporting'
  PROVE  IInv'
<1>1. stack' \in Seq(Word)
  BY DEF Chain
<1>2. Typed'
  BY <1>1 DEF IInv, Typed
<1>3. Layout'
  BY DEF Layout
<1>4. Calm'
  BY DEF IInv, Calm
<1> QED
  BY <1>2, <1>3, <1>4 DEF IInv

LEMMA Pushed ==
  ASSUME NEW s \in Seq(Word), NEW w \in Seq(Word)
  PROVE  /\ w \o s \in Seq(Word) /\ Len(w \o s) = Len(w) + Len(s) /\ Len(s) \in Nat
         /\ Len(w) \in Nat /\ \A k \in 1 .. Len(w) : (w \o s)[k] = w[k]
  OBVIOUS

LEMMA PushadStep ==
  ASSUME IInv, Pushad
  PROVE  IInv'
<1>1. /\ code \in DOMAIN Text /\ Text[code][ip].op = "pushad"
      /\ UNCHANGED <<regs, saved, shown, set, last, fatal>>
      /\ IF Len(Registers \o stack) <= Depth
         THEN stack' = Registers \o stack /\ ip' = ip + 1 /\ code' = code
         ELSE stack' = <<>> /\ ip' = 1 /\ code' = "reset"
  BY DEF Pushad, At, Push, Room, Go, NoException
<1>2. /\ code \in Codes /\ code \notin {"main", "stopped", "wild", "reset"}
      /\ ip \in Nat /\ regs \in Owners /\ stack \in Seq(Word)
      /\ code \in Returners => ip \in 1 .. 4
      /\ code = "genprotectfault" => ip \in 1 .. 9
      /\ code \in Stoppers => ip \in 1 .. StopAt(code)
      /\ \E G : Chain(stack, G) /\ Context(stack, G, 0, code, ip, regs)
  BY <1>1, Running
<1>3. \/ code \in Returners /\ ip = 1
      \/ code = "genprotectfault" /\ ip = 2
      \/ code \in Stoppers /\ ip = PrintAt(code) - 2
  BY <1>1, <1>2, Instructions
<1>4. PICK G : Chain(stack, G) /\ Context(stack, G, 0, code, ip, regs)
  BY <1>2
<1>5. CASE code' = "reset" /\ stack' = <<>> /\ ip' = 1
  <2>1. Typed'
    BY <1>1, <1>5 DEF IInv, Typed
  <2>2. "reset" \in Ended /\ "reset" \notin Stoppers
    BY DEF Ended, Stoppers
  <2> QED
    BY <1>5, <2>1, <2>2 DEF IInv, Layout, Calm, Reporting
<1>6. CASE stack' = Registers \o stack /\ ip' = ip + 1 /\ code' = code
  <2>1. /\ Registers \in Seq(Word) /\ Len(Registers) = 8
        /\ \A k \in 1 .. 8 : Registers[k] = <<"reg", k, regs>> /\ Registers[k][1] = "reg"
    <3>1. \A k \in 1 .. 8 : <<"reg", k, regs>> \in Word
      BY <1>2, Words
    <3> QED
      BY <3>1 DEF Registers
  <2> DEFINE w == Registers
             n == Len(w)
  <2>2. w \in Seq(Word) /\ n = 8 /\ stack' = w \o stack
        /\ \A k \in 1 .. 8 : w[k] = <<"reg", k, regs>> /\ w[k][1] = "reg"
    BY <2>1, <1>6
  <2> HIDE DEF w
  <2>a. /\ n \in Nat /\ Len(stack) \in Nat /\ stack' \in Seq(Word)
        /\ Len(stack') = n + Len(stack)
        /\ \A k \in 1 .. n : stack'[k] = w[k]
    BY ONLY <2>2, <1>2, Pushed DEF n
  <2>b. n = Len(w)
    OBVIOUS
  <2> HIDE DEF n
  <2>3. \A i \in 1 .. Len(w) : w[i][1] # "eip"
    BY <2>2, <2>b
  <2>4. PICK H : Chain(stack', H) /\ Shifted(stack, G, stack', H, Len(w))
    <3>1. \E H : Chain(w \o stack, H) /\ Shifted(stack, G, w \o stack, H, Len(w))
      <4>1. Chain(stack, G) /\ w \in Seq(Word) /\ regs \in Owners
        BY <2>2, <1>2, <1>4
      <4>2. \A i \in 1 .. Len(w) :
              w[i][1] = "eip" =>
                i + 2 = Len(w) /\ Context(stack, G, 0, w[i][2], w[i][3], regs)
        BY ONLY <2>3
      <4> QED
        BY ONLY <4>1, <4>2, PushChain
    <3> QED
      BY <3>1, <2>2
  <2>5. stack' \in Seq(Word) /\ Len(stack') = 8 + Len(stack) /\ Len(stack) \in Nat
    BY <2>2, <2>a
  <2>6. \A k \in 1 .. 8 : stack'[k] = <<"reg", k, regs>>
    BY <2>2, <2>a
  <2>7. Saved(stack', 0, regs)
    BY <2>5, <2>6 DEF Saved
  <2>8. Shifted(stack, G, stack', H, 8)
    BY <2>2, <2>4, <2>b
  <2>9. \A j \in Nat \ {0} : Frame(stack, G, j, regs) => Frame(stack', H, j + 8, regs)
    BY <2>5, <2>8, <1>2, FrameShift
  <2>10. Context(stack', H, 0, code, ip + 1, regs)
    <3>1. code \in Codes /\ ip + 1 \in Nat /\ 0 <= Len(stack') /\ code # "main"
      BY <1>2, <2>5
    <3>2. ASSUME code \in Returners
          PROVE  ip = 1 /\ Frame(stack', H, 0 + 9, regs)
      <4>1. ip = 1
        BY <3>2, <1>3, HandlerNames
      <4>2. Frame(stack, G, 0 + 1, regs)
        BY <3>2, <4>1, <1>4 DEF Context
      <4>3. Frame(stack, G, 1, regs)
        BY <4>2
      <4>4. Frame(stack', H, 1 + 8, regs)
        BY <4>3, <2>9
      <4> QED
        BY <4>1, <4>4
    <3>3. code = "genprotectfault" => ip = 2
      BY <1>3, HandlerNames
    <3>4. code \in Stoppers => ip + 1 \in 1 .. StopAt(code)
      <4>1. code \in Stoppers => ip = PrintAt(code) - 2
        BY <1>3, HandlerNames
      <4> QED
        BY <4>1 DEF PrintAt, StopAt
    <3>5. ~(code \in Returners /\ code = "genprotectfault")
      BY HandlerNames
    <3> QED
      BY <3>1, <3>2, <3>3, <3>4, <3>5, <2>7, <1>2 DEF Context
  <2>11. code \notin Ended => Harmless(stack')
    <3>1. Harmless(w)
      BY <2>3 DEF Harmless
    <3> QED
      BY <3>1, <2>2, <1>2, HarmlessPush DEF IInv, Calm
  <2>12. Reporting'
    <3>1. code \in Stoppers => ip' = PrintAt(code) - 1
      <4>1. PrintAt(code) \in Int
        BY DEF PrintAt
      <4> QED
        BY <4>1, <1>2, <1>3, <1>6, HandlerNames
    <3>2. code = "pagefault" => ip = 2 /\ ip' = 3
      BY <1>3, <1>6, HandlerNames DEF PrintAt, Stoppers, Returners
    <3>3. code' \in Stoppers => ~(ip' > PrintAt(code))
      BY <3>1, <1>6 DEF PrintAt
    <3> QED
      BY <3>2, <3>3, <1>1, <1>2, <1>6 DEF IInv, Reporting
  <2>13. /\ regs' \in Owners /\ saved' \in [int_gpfCode : Nat, int_pfErrorCode : Nat]
         /\ shown' \in [number : Int, error : Nat]
    BY <1>1 DEF IInv, Typed
  <2>14. Context(stack', H, 0, code, ip + 1, regs')
    BY <2>10, <1>1
  <2> QED
    BY <2>4, <2>11, <2>12, <2>13, <2>14, <1>1, <1>6, GoOn
<1> QED
  BY <1>1, <1>5, <1>6

(* popad takes the registers that pushad has put there, whoever ran in     *)
(* between; after a general protection fault it takes two arguments and    *)
(* six of them.                                                            *)
LEMMA PopadStep ==
  ASSUME IInv, Popad
  PROVE  IInv'
<1> DEFINE words == SubSeq(stack, 1, 8)
           owner == {r \in {"main", "handler", "garbage"} :
                       words = [k \in 1 .. 8 |-> <<"reg", k, r>>]}
<1>1. /\ code \in DOMAIN Text /\ Text[code][ip].op = "popad"
      /\ UNCHANGED <<code, saved, shown, set, last, fatal>>
      /\ regs' = IF owner = {} THEN "garbage" ELSE CHOOSE r \in owner : TRUE
      /\ stack' = SubSeq(stack, 9, Len(stack)) /\ ip' = ip + 1
  BY DEF Popad, At, Go, NoException
<1>2. /\ code \in Codes /\ code \notin {"main", "stopped", "wild", "reset"}
      /\ ip \in Nat /\ regs \in Owners /\ stack \in Seq(Word)
      /\ code \in Returners => ip \in 1 .. 4
      /\ code = "genprotectfault" => ip \in 1 .. 9
      /\ code \in Stoppers => ip \in 1 .. StopAt(code)
      /\ code \in Returners => code \notin Ended /\ ~fatal /\ Harmless(stack)
      /\ \E G : Chain(stack, G) /\ Context(stack, G, 0, code, ip, regs)
  BY <1>1, Running
<1>3. \/ code \in Returners /\ ip = 3
      \/ code = "genprotectfault" /\ ip = 8
  BY <1>1, <1>2, Instructions
<1>4. PICK G : Chain(stack, G) /\ Context(stack, G, 0, code, ip, regs)
  BY <1>2
<1>5. (code \notin Ended => Harmless(stack)) /\ code \notin Stoppers
  BY <1>2, <1>3, HandlerNames DEF IInv, Calm
<1>6. Len(stack) \in Nat /\ 8 <= Len(stack)
  <2>1. Len(stack) \in Nat
    BY <1>2
  <2>2. CASE code \in Returners /\ ip = 3
    BY <2>1, <2>2, <1>4 DEF Context, Saved
  <2>3. CASE code = "genprotectfault" /\ ip = 8
    BY <2>1, <2>3, <1>4 DEF Context, Saved
  <2> QED
    BY <2>1, <2>2, <2>3, <1>3
<1>7. PICK H : Chain(stack', H) /\ Shifted(stack', H, stack, G, 8)
  <2>1. SubSeq(stack, 8 + 1, Len(stack)) = stack'
    BY <1>1
  <2>2. Chain(stack, G) /\ 8 \in Nat /\ 8 <= Len(stack)
    BY <1>4, <1>6
  <2> QED
    BY <2>1, <2>2, DropChain
<1>8. stack' \in Seq(Word) /\ Len(stack) = Len(stack') + 8 /\ Len(stack') \in Nat
  BY <1>7 DEF Chain, Shifted
<1>9. code \notin Ended => Harmless(stack')
  <2>1. SubSeq(stack, 8 + 1, Len(stack)) = stack'
    BY <1>1
  <2> QED
    BY <2>1, <1>2, <1>5, <1>6, HarmlessDrop
<1>10. regs' \in Owners
  <2>1. owner \subseteq Owners /\ "garbage" \in Owners
    BY DEF Owners
  <2>2. owner # {} => (CHOOSE r \in owner : TRUE) \in owner
    OBVIOUS
  <2> HIDE DEF owner
  <2> QED
    BY <2>1, <2>2, <1>1
<1>11. Context(stack', H, 0, code, ip + 1, regs')
  <2>1. CASE code \in Returners /\ ip = 3
    <3>1. PICK q \in Owners : Saved(stack, 0, q) /\ Frame(stack, G, 0 + 9, q)
      BY <2>1, <1>4 DEF Context
    <3>2. \A k \in 1 .. 8 : stack[k] = <<"reg", k, q>>
      BY <3>1 DEF Saved
    <3>3. words = [k \in 1 .. 8 |-> <<"reg", k, q>>]
      <4>1. words = [k \in 1 .. 8 |-> stack[k]]
        BY <1>2, <1>6
      <4> QED
        BY <4>1, <3>2
    <3>4. owner = {q}
      <4>1. q \in owner
        BY <3>3 DEF Owners
      <4>2. ASSUME NEW r \in owner
            PROVE  r = q
        <5>1. [k \in 1 .. 8 |-> <<"reg", k, r>>] = [k \in 1 .. 8 |-> <<"reg", k, q>>]
          BY <3>3
        <5>2. [k \in 1 .. 8 |-> <<"reg", k, r>>][1] = [k \in 1 .. 8 |-> <<"reg", k, q>>][1]
          BY <5>1
        <5>3. <<"reg", 1, r>> = <<"reg", 1, q>>
          BY <5>2
        <5> QED
          BY <5>3
      <4> HIDE DEF owner
      <4> QED
        BY <4>1, <4>2
    <3>5. regs' = q
      <4> HIDE DEF owner
      <4> QED
        BY <3>4, <1>1
    <3>6. Frame(stack', H, 1, q)
      <4>1. Frame(stack, G, 1 + 8, q) /\ 1 \in Nat \ {0} /\ 8 \in Nat
        BY <3>1
      <4> QED
        BY ONLY <4>1, <1>2, <1>7, <1>8, FrameShift
    <3>7. code # "main" /\ code # "genprotectfault" /\ code \notin Stoppers
      BY <2>1, HandlerNames
    <3> QED
      BY <2>1, <3>5, <3>6, <3>7, <1>2, <1>8 DEF Context
  <2>2. CASE code = "genprotectfault" /\ ip = 8
    <3>1. PICK q \in Owners : Saved(stack, 0 + 2, q)
      BY <2>2, <1>4 DEF Context
    <3>2. Saved(stack, 2, q)
      BY <3>1
    <3>3. 2 + 8 <= Len(stack) /\ \A k \in 1 .. 8 : stack[2 + k] = <<"reg", k, q>>
      BY <3>2 DEF Saved
    <3>4. stack[2 + 7] = <<"reg", 7, q>>
      BY <3>3
    <3>5. 1 \in 1 .. Len(stack')
      BY <3>3, <1>8
    <3>6. stack'[1] = stack[1 + 8]
      BY <3>5, <1>7 DEF Shifted
    <3>7. stack'[1][1] = "reg"
      BY <3>4, <3>6
    <3>8. code # "main" /\ code \notin Returners /\ code \notin Stoppers
      BY <2>2, HandlerNames
    <3> QED
      BY <2>2, <3>5, <3>7, <3>8, <1>2, <1>8 DEF Context
  <2> QED
    BY <2>1, <2>2, <1>3
<1>12. Reporting'
  BY <1>1, <1>2, <1>5 DEF Reporting
<1>13. /\ saved' \in [int_gpfCode : Nat, int_pfErrorCode : Nat]
       /\ shown' \in [number : Int, error : Nat]
  BY <1>1 DEF IInv, Typed
<1> QED
  BY <1>1, <1>7, <1>9, <1>10, <1>11, <1>12, <1>13, GoOn

(* The error code is taken; a general protection fault of iretd's, too,    *)
(* has one.                                                                *)
LEMMA PopCodeStep ==
  ASSUME IInv, PopCode
  PROVE  IInv'
<1> DEFINE var == Text[code][ip].var
<1>1. /\ code \in DOMAIN Text /\ Text[code][ip].op = "pop"
      /\ UNCHANGED <<code, regs, shown, set, last, fatal>>
      /\ saved' = [saved EXCEPT ![var] =
                     IF stack[1][1] = "error" THEN stack[1][2] ELSE @]
      /\ stack' = Tail(stack) /\ ip' = ip + 1
  BY DEF PopCode, At, Go, NoException, Operand
<1>2. /\ code \in Codes /\ code \notin {"main", "stopped", "wild", "reset"}
      /\ ip \in Nat /\ regs \in Owners /\ stack \in Seq(Word)
      /\ code \in Returners => ip \in 1 .. 4
      /\ code = "genprotectfault" => ip \in 1 .. 9
      /\ code \in Stoppers => ip \in 1 .. StopAt(code)
      /\ \E G : Chain(stack, G) /\ Context(stack, G, 0, code, ip, regs)
  BY <1>1, Running
<1>3. /\ ip = 1
      /\ \/ code = "genprotectfault" /\ var = "int_gpfCode"
         \/ code = "pagefault" /\ var = "int_pfErrorCode"
  BY <1>1, <1>2, Instructions
<1>4. PICK G : Chain(stack, G) /\ Context(stack, G, 0, code, ip, regs)
  BY <1>2
<1>5. "pagefault" \in Stoppers
  BY DEF Stoppers
<1>6. code = "pagefault" => stack # <<>> /\ stack[1] = Error(last.error)
  BY <1>3, <1>5 DEF IInv, Reporting
<1>7. Len(stack) \in Nat /\ 1 <= Len(stack)
  <2>1. code = "genprotectfault" => 0 < Len(stack)
    BY <1>3, <1>4 DEF Context
  <2> QED
    BY <2>1, <1>2, <1>3, <1>6
<1>8. SubSeq(stack, 1 + 1, Len(stack)) = stack'
  BY <1>1, <1>2, <1>7
<1>9. PICK H : Chain(stack', H) /\ Shifted(stack', H, stack, G, 1)
  <2>1. Chain(stack, G) /\ 1 \in Nat /\ 1 <= Len(stack)
    BY <1>4, <1>7
  <2> QED
    BY <2>1, <1>8, DropChain
<1>10. Len(stack') \in Nat
  BY <1>9 DEF Chain
<1>11. code \notin Ended => Harmless(stack')
  BY <1>2, <1>7, <1>8, HarmlessDrop DEF IInv, Calm
<1>12. Context(stack', H, 0, code, ip + 1, regs)
  BY <1>2, <1>3, <1>10, HandlerNames DEF Context, StopAt, Stoppers, Returners
<1>13. /\ saved' \in [int_gpfCode : Nat, int_pfErrorCode : Nat]
       /\ code = "pagefault" => saved'.int_pfErrorCode = last.error
  <2>1. saved \in [int_gpfCode : Nat, int_pfErrorCode : Nat] /\ last.error \in Nat
    BY DEF IInv, Typed
  <2>2. stack[1] \in Word
    BY <1>2, <1>7
  <2>3. stack[1][1] = "error" => stack[1][2] \in Nat
    BY <2>2, Words
  <2>4. code = "pagefault" => stack[1][1] = "error" /\ stack[1][2] = last.error
    BY <2>1, <1>6, Words
  <2> HIDE DEF var
  <2>5. CASE code = "genprotectfault"
    <3>1. var = "int_gpfCode" /\ code # "pagefault"
      BY <2>5, <1>3
    <3> QED
      BY <3>1, <2>1, <2>3, <1>1
  <2>6. CASE code = "pagefault"
    <3>1. var = "int_pfErrorCode"
      BY <2>6, <1>3
    <3> QED
      BY <3>1, <2>1, <2>3, <2>4, <1>1
  <2> QED
    BY <2>5, <2>6, <1>3
<1>14. Reporting'
  <2>1. code = "genprotectfault" => code \notin Stoppers
    BY HandlerNames
  <2>2. PrintAt("pagefault") = 4
    BY DEF PrintAt
  <2> QED
    BY <2>1, <2>2, <1>1, <1>2, <1>3, <1>13 DEF IInv, Reporting
<1>15. regs' \in Owners /\ shown' \in [number : Int, error : Nat]
  BY <1>1 DEF IInv, Typed
<1>16. Context(stack', H, 0, code, ip + 1, regs')
  BY <1>1, <1>12
<1> QED
  BY <1>1, <1>9, <1>11, <1>13, <1>14, <1>15, <1>16, GoOn

(* The two arguments nobody removes.                                       *)
LEMMA PushArgumentsStep ==
  ASSUME IInv, PushArguments
  PROVE  IInv'
<1>1. /\ code \in DOMAIN Text /\ Text[code][ip].op = "push"
      /\ UNCHANGED <<code, regs, saved, shown, set, last, fatal>>
      /\ stack' = [k \in 1 .. Text[code][ip].count |-> <<"argument">>] \o stack
      /\ ip' = ip + 1
  BY DEF PushArguments, At, Go, NoException, Operand
<1>2. /\ code \in Codes /\ code \notin {"main", "stopped", "wild", "reset"}
      /\ ip \in Nat /\ regs \in Owners /\ stack \in Seq(Word)
      /\ code \in Returners => ip \in 1 .. 4
      /\ code = "genprotectfault" => ip \in 1 .. 9
      /\ code \in Stoppers => ip \in 1 .. StopAt(code)
      /\ code \in Returners => code \notin Ended /\ ~fatal /\ Harmless(stack)
      /\ \E G : Chain(stack, G) /\ Context(stack, G, 0, code, ip, regs)
  BY <1>1, Running
<1>3. code = "genprotectfault" /\ ip = 7 /\ Text[code][ip].count = 2
  BY <1>1, <1>2, Instructions
<1>4. PICK G : Chain(stack, G) /\ Context(stack, G, 0, code, ip, regs)
  BY <1>2
<1> DEFINE w == [k \in 1 .. 2 |-> <<"argument">>]
           n == Len(w)
<1>5. w \in Seq(Word) /\ n = 2 /\ \A k \in 1 .. 2 : w[k][1] = "argument"
  <2>1. <<"argument">> \in Word
    BY Words
  <2> QED
    BY <2>1
<1>6. stack' = w \o stack
  BY <1>1, <1>3
<1>7. n = Len(w)
  OBVIOUS
<1> HIDE DEF w, n
<1>8. \A i \in 1 .. Len(w) : w[i][1] # "eip"
  BY <1>5, <1>7
<1>9. PICK H : Chain(stack', H) /\ Shifted(stack, G, stack', H, Len(w))
  <2>1. Chain(stack, G) /\ w \in Seq(Word) /\ regs \in Owners
    BY <1>2, <1>4, <1>5
  <2>2. \A i \in 1 .. Len(w) :
          w[i][1] = "eip" =>
            i + 2 = Len(w) /\ Context(stack, G, 0, w[i][2], w[i][3], regs)
    BY ONLY <1>8
  <2>3. \E H : Chain(w \o stack, H) /\ Shifted(stack, G, w \o stack, H, Len(w))
    BY ONLY <2>1, <2>2, PushChain
  <2> QED
    BY <2>3, <1>6
<1>10. Shifted(stack, G, stack', H, 2)
  BY <1>5, <1>7, <1>9
<1>11. PICK q \in Owners : Saved(stack, 0, q)
  BY <1>3, <1>4 DEF Context
<1>12. Saved(stack', 2, q)
  <2>1. Len(stack) \in Nat /\ Len(stack') = Len(stack) + 2
    BY <1>2, <1>10 DEF Shifted
  <2>2. 8 <= Len(stack) /\ \A k \in 1 .. 8 : stack[k] = <<"reg", k, q>>
    BY <1>11 DEF Saved
  <2>3. ASSUME NEW k \in 1 .. 8
        PROVE  stack'[2 + k] = <<"reg", k, q>>
    <3>1. k \in 1 .. Len(stack) /\ 2 + k = k + 2
      BY <2>1, <2>2
    <3>2. stack'[k + 2] = stack[k]
      BY <3>1, <1>10 DEF Shifted
    <3> QED
      BY <3>1, <3>2, <2>2
  <2> QED
    BY <2>1, <2>2, <2>3 DEF Saved
<1>13. Context(stack', H, 0, code, ip + 1, regs')
  <2>1. Saved(stack', 0 + 2, q) /\ Len(stack') \in Nat
    BY <1>9, <1>12 DEF Chain
  <2>2. code # "main" /\ code \notin Returners /\ code \notin Stoppers
    BY <1>2, <1>3, HandlerNames
  <2> QED
    BY <2>1, <2>2, <1>2, <1>3 DEF Context
<1>14. code \notin Ended => Harmless(stack')
  BY <1>3 DEF Ended
<1>15. Reporting'
  <2>1. code \notin Stoppers
    BY <1>3, HandlerNames
  <2> QED
    BY <2>1, <1>1, <1>2 DEF Reporting
<1>16. /\ regs' \in Owners /\ saved' \in [int_gpfCode : Nat, int_pfErrorCode : Nat]
       /\ shown' \in [number : Int, error : Nat]
  BY <1>1 DEF IInv, Typed
<1> QED
  BY <1>1, <1>9, <1>13, <1>14, <1>15, <1>16, GoOn

(* A message: those of the handlers that stop the machine come in order.   *)
LEMMA MessageStep ==
  ASSUME IInv, Message
  PROVE  IInv'
<1> DEFINE op == Text[code][ip].op
<1>1. /\ code \in DOMAIN Text /\ op \in {"set_disp", "print", "explain", "puts"}
      /\ op = "set_disp" => shown' = Nothing
      /\ op = "print" => shown' = [number |-> Text[code][ip].number, error |-> 0]
      /\ op = "explain" =>
           shown' = [shown EXCEPT !.error = saved[Text[code][ip].var]]
      /\ op = "puts" => shown' = shown
      /\ UNCHANGED <<stack, code, saved, set, last, fatal>>
      /\ regs' = "handler" /\ ip' = ip + 1
  BY DEF Message, At, Go, NoException, Operand
<1>2. /\ code \in Codes /\ code \notin {"main", "stopped", "wild", "reset"}
      /\ ip \in Nat /\ regs \in Owners /\ stack \in Seq(Word)
      /\ code \in Returners => ip \in 1 .. 4
      /\ code = "genprotectfault" => ip \in 1 .. 9
      /\ code \in Stoppers => ip \in 1 .. StopAt(code)
      /\ \E G : Chain(stack, G) /\ Context(stack, G, 0, code, ip, regs)
  BY <1>1, Running
<1>3. /\ \/ code \in Returners /\ ip = 2
         \/ code = "genprotectfault" /\ ip \in 3 .. 6
         \/ code \in Stoppers /\ ip >= PrintAt(code) - 1 /\ ip < StopAt(code)
      /\ code \in Stoppers =>
           /\ op = "set_disp" => ip < PrintAt(code)
           /\ op = "print" =>
                ip = PrintAt(code) /\ Text[code][ip].number = NumberShown(VectorOf[code])
           /\ op = "explain" =>
                /\ ip > PrintAt(code) /\ code = "pagefault" /\ ip = 5
                /\ Text[code][ip].var = "int_pfErrorCode"
           /\ op = "puts" => ip > PrintAt(code)
           /\ code = "pagefault" /\ ip = 5 => op = "explain"
      /\ op = "print" => Text[code][ip].number \in Int
      /\ op = "explain" => Text[code][ip].var \in {"int_gpfCode", "int_pfErrorCode"}
  BY <1>1, <1>2, Instructions
<1>4. PICK G : Chain(stack, G) /\ Context(stack, G, 0, code, ip, regs)
  BY <1>2
<1> HIDE DEF op
<1>5. /\ shown \in [number : Int, error : Nat] /\ last.error \in Nat
      /\ saved \in [int_gpfCode : Nat, int_pfErrorCode : Nat]
  BY DEF IInv, Typed
<1>6. shown' \in [number : Int, error : Nat]
  <2>1. CASE op = "set_disp"
    BY <2>1, <1>1 DEF Nothing, NoNumber
  <2>2. CASE op = "print"
    BY <2>2, <1>1, <1>3
  <2>3. CASE op = "explain"
    <3>1. saved[Text[code][ip].var] \in Nat
      BY <2>3, <1>3, <1>5
    <3> QED
      BY <2>3, <3>1, <1>1, <1>5
  <2>4. CASE op = "puts"
    BY <2>4, <1>1, <1>5
  <2> QED
    BY <2>1, <2>2, <2>3, <2>4, <1>1
<1>7. Context(stack', G, 0, code, ip + 1, regs')
  <2>1. Len(stack) \in Nat /\ stack' = stack
    BY <1>1, <1>2
  <2>2. CASE code \in Returners /\ ip = 2
    <3>1. code # "genprotectfault" /\ code \notin Stoppers
      BY <2>2, HandlerNames
    <3> QED
      BY <2>1, <2>2, <3>1, <1>2, <1>4 DEF Context
  <2>3. CASE code = "genprotectfault" /\ ip \in 3 .. 6
    <3>1. code \notin Returners /\ code \notin Stoppers
      BY <2>3, HandlerNames
    <3> QED
      BY <2>1, <2>3, <3>1, <1>2, <1>4 DEF Context
  <2>4. CASE code \in Stoppers /\ ip < StopAt(code)
    <3>1. code # "genprotectfault" /\ code \notin Returners
      BY <2>4, HandlerNames
    <3>2. StopAt(code) \in Nat
      BY DEF StopAt
    <3>3. ip + 1 \in 1 .. StopAt(code)
      BY <2>4, <3>2, <1>2
    <3> QED
      BY <2>1, <2>4, <3>1, <3>3, <1>2 DEF Context
  <2> QED
    BY <2>2, <2>3, <2>4, <1>3
<1>8. Reporting'
  <2>1. SUFFICES ASSUME code \in Stoppers PROVE Reporting'
    BY <1>1, <1>2 DEF Reporting
  <2>2. /\ set >= 3 /\ last.vector = VectorOf[code]
        /\ ip > PrintAt(code) => shown.number = NumberShown(last.vector)
        /\ code = "pagefault" /\ ip >= 2 => saved.int_pfErrorCode = last.error
    BY <2>1 DEF IInv, Reporting
  <2>3. ip >= PrintAt(code) - 1
    BY <2>1, <1>3, HandlerNames
  <2>4. PrintAt(code) \in {3, 4} /\ (code = "pagefault" => PrintAt(code) = 4)
    BY DEF PrintAt
  <2>5. ip + 1 > PrintAt(code) => shown'.number = NumberShown(last.vector)
    <3>1. CASE op = "set_disp"
      BY <3>1, <2>1, <2>4, <1>2, <1>3
    <3>2. CASE op = "print"
      BY <3>2, <2>1, <2>2, <1>1, <1>3
    <3>3. CASE op = "explain"
      <4>1. shown'.number = shown.number
        BY <3>3, <1>1, <1>5
      <4> QED
        BY <3>3, <4>1, <2>1, <2>2, <1>3
    <3>4. CASE op = "puts"
      BY <3>4, <2>1, <2>2, <1>1, <1>3
    <3> QED
      BY <3>1, <3>2, <3>3, <3>4, <1>1
  <2>6. code = "pagefault" /\ ip + 1 = 6 => shown'.error = last.error
    <3>1. SUFFICES ASSUME code = "pagefault", ip = 5 PROVE shown'.error = last.error
      BY <1>2
    <3>2. op = "explain" /\ Text[code][ip].var = "int_pfErrorCode"
      BY <3>1, <2>1, <1>3
    <3>3. shown'.error = saved.int_pfErrorCode
      BY <3>2, <1>1, <1>5
    <3> QED
      BY <3>1, <3>3, <2>2
  <2>7. code = "pagefault" => ip >= 3 /\ ip + 1 # 1
    BY <2>3, <2>4, <1>2
  <2> QED
    BY <2>1, <2>2, <2>5, <2>6, <2>7, <1>1, <1>2 DEF Reporting
<1>9. regs' \in Owners /\ saved' \in [int_gpfCode : Nat, int_pfErrorCode : Nat]
  BY <1>1, <1>5 DEF Owners
<1>10. Chain(stack', G)
  BY <1>1, <1>4
<1>11. code \notin Ended => Harmless(stack')
  BY <1>1 DEF IInv, Calm
<1> QED
  BY <1>1, <1>6, <1>7, <1>8, <1>9, <1>10, <1>11, GoOn

(* The machine is stopped after the handler's last message.                *)
LEMMA StopStep ==
  ASSUME IInv, SystemStop
  PROVE  IInv'
<1>1. /\ code \in DOMAIN Text /\ Text[code][ip].op = "stop" /\ code' = "stopped"
      /\ UNCHANGED <<stack, ip, regs, saved, shown, set, last, fatal>>
  BY DEF SystemStop, At, NoException
<1>2. /\ code \in Codes /\ code \notin {"main", "stopped", "wild", "reset"}
      /\ ip \in Nat /\ regs \in Owners /\ stack \in Seq(Word)
      /\ code \in Returners => ip \in 1 .. 4
      /\ code = "genprotectfault" => ip \in 1 .. 9
      /\ code \in Stoppers => ip \in 1 .. StopAt(code)
      /\ \E G : Chain(stack, G) /\ Context(stack, G, 0, code, ip, regs)
  BY <1>1, Running
<1>3. code \in Stoppers /\ ip = StopAt(code)
  BY <1>1, <1>2, Instructions
<1>4. PICK G : Chain(stack, G)
  BY <1>2
<1>5. /\ "stopped" \in Codes /\ "stopped" \in Ended
      /\ "stopped" \notin Returners \union Stoppers
      /\ "stopped" # "genprotectfault" /\ "stopped" # "main"
  BY DEF Codes, Ended, Returners, Stoppers
<1>6. Typed'
  BY <1>1, <1>5 DEF IInv, Typed
<1>7. Layout'
  <2>1. 0 <= Len(stack)
    BY <1>2
  <2>2. Context(stack, G, 0, "stopped", ip, regs)
    BY <2>1, <1>2, <1>5 DEF Context
  <2> QED
    BY <2>2, <1>1, <1>4 DEF Layout
<1>8. Calm'
  BY <1>1, <1>5 DEF Calm
<1>9. Reporting'
  <2>1. StopAt(code) > PrintAt(code) /\ (code = "pagefault" => StopAt(code) = 6)
    BY DEF StopAt, PrintAt
  <2>2. last.vector = 14 => code = "pagefault"
    BY <1>3 DEF IInv, Reporting, VectorOf, Stoppers
  <2> QED
    BY <2>1, <2>2, <1>1, <1>3, <1>5 DEF IInv, Reporting
<1> QED
  BY <1>6, <1>7, <1>8, <1>9 DEF IInv

(* iretd goes back to the context that was interrupted, with its registers *)
(* and its stack.                                                          *)
LEMMA IretStep ==
  ASSUME IInv, Iret
  PROVE  IInv'
<1>1. /\ code \in DOMAIN Text /\ Text[code][ip].op = "iretd" /\ stack[1][1] = "eip"
      /\ code' = stack[1][2] /\ ip' = stack[1][3]
      /\ stack' = SubSeq(stack, 4, Len(stack))
      /\ UNCHANGED <<regs, saved, shown, set, last, fatal>>
  BY DEF Iret, At, NoException
<1>2. /\ code \in Codes /\ code \notin {"main", "stopped", "wild", "reset"}
      /\ ip \in Nat /\ regs \in Owners /\ stack \in Seq(Word)
      /\ code \in Returners => ip \in 1 .. 4
      /\ code = "genprotectfault" => ip \in 1 .. 9
      /\ code \in Stoppers => ip \in 1 .. StopAt(code)
      /\ code \in Returners => code \notin Ended /\ ~fatal /\ Harmless(stack)
      /\ \E G : Chain(stack, G) /\ Context(stack, G, 0, code, ip, regs)
  BY <1>1, Running
<1>3. \/ code \in Returners /\ ip = 4
      \/ code = "genprotectfault" /\ ip = 9
  BY <1>1, <1>2, Instructions
<1>4. PICK G : Chain(stack, G) /\ Context(stack, G, 0, code, ip, regs)
  BY <1>2
<1>5. code \in Returners /\ ip = 4
  <2>1. code = "genprotectfault" /\ ip = 9 => stack[0 + 1][1] = "reg"
    BY <1>4 DEF Context
  <2> QED
    BY <2>1, <1>1, <1>3
<1>6. 1 <= Len(stack) /\ G[1] = regs /\ Len(stack) \in Nat
  <2>1. Frame(stack, G, 0 + 1, regs)
    BY <1>4, <1>5 DEF Context
  <2>2. Frame(stack, G, 1, regs)
    BY <2>1
  <2> QED
    BY <2>2, <1>1, <1>2 DEF Frame
<1>7. 1 + 2 <= Len(stack) /\ Context(stack, G, 1 + 2, code', ip', regs)
  <2>1. 1 \in 1 .. Len(stack)
    BY <1>6
  <2> QED
    BY <2>1, <1>1, <1>4, <1>6 DEF Chain
<1>8. SubSeq(stack, 3 + 1, Len(stack)) = stack'
  BY <1>1
<1>9. PICK H : Chain(stack', H) /\ Shifted(stack', H, stack, G, 3)
  <2>1. Chain(stack, G) /\ 3 \in Nat /\ 3 <= Len(stack)
    BY <1>4, <1>6, <1>7
  <2> QED
    BY <2>1, <1>8, DropChain
<1>10. Context(stack', H, 0, code', ip', regs)
  <2>1. Context(stack, G, 0 + 3, code', ip', regs)
    BY <1>7
  <2>2. stack' \in Seq(Word) /\ 3 \in Nat /\ 0 \in Nat
    BY <1>9 DEF Chain
  <2> QED
    BY ONLY <2>1, <2>2, <1>2, <1>9, ContextShift
<1>11. code' \in Codes /\ ip' \in Nat
  BY <1>10 DEF Context
<1>12. ~fatal /\ Harmless(stack) /\ code' \notin Ended
  <2>1. ~fatal /\ Harmless(stack)
    BY <1>2, <1>5
  <2>2. 1 \in 1 .. Len(stack)
    BY <1>6
  <2> QED
    BY <2>1, <2>2, <1>1 DEF Harmless
<1>13. Harmless(stack')
  <2>1. 3 \in Nat /\ 3 <= Len(stack)
    BY <1>6, <1>7
  <2> QED
    BY <2>1, <1>2, <1>8, <1>12, HarmlessDrop
<1>14. Typed'
  BY <1>1, <1>9, <1>11 DEF IInv, Typed, Chain
<1>15. Layout'
  BY <1>1, <1>9, <1>10 DEF Layout
<1>16. Calm'
  BY <1>1, <1>12, <1>13 DEF Calm, Ended
<1>17. Reporting'
  BY <1>12 DEF Reporting, Ended
<1> QED
  BY <1>14, <1>15, <1>16, <1>17 DEF IInv

(* The words are not a frame: a fault, ...                                 *)
LEMMA IretFaultsStep ==
  ASSUME IInv, NEW e \in ErrorCodes, IretFaults(e)
  PROVE  IInv'
<1>1. /\ code \in DOMAIN Text /\ Text[code][ip].op = "iretd" /\ Take(13, e)
      /\ UNCHANGED <<regs, set, saved, shown>>
  BY DEF IretFaults, At
<1>2. /\ code \notin {"main", "stopped", "wild", "reset"} /\ ip \in Nat
      /\ code \in Returners => ip \in 1 .. 4
      /\ code = "genprotectfault" => ip \in 1 .. 9
      /\ code \in Stoppers => ip \in 1 .. StopAt(code)
      /\ code \in Returners => code \notin Ended
  BY <1>1, Running
<1>3. code \in Returners \union {"genprotectfault"}
  BY <1>1, <1>2, Instructions
<1>4. 13 \in 0 .. 31 /\ e \in Nat
  BY ExceptionAssumption
<1> QED
  BY <1>1, <1>2, <1>3, <1>4, TakeStep

(* ... or anything.                                                        *)
LEMMA IretWildStep ==
  ASSUME IInv, IretWild
  PROVE  IInv'
<1>1. /\ code \in DOMAIN Text /\ Text[code][ip].op = "iretd" /\ code' = "wild"
      /\ UNCHANGED <<stack, ip, regs, saved, shown, set, last, fatal>>
  BY DEF IretWild, At, NoException
<1>2. /\ ip \in Nat
      /\ code \in Returners => ip \in 1 .. 4
      /\ code = "genprotectfault" => ip \in 1 .. 9
      /\ code \in Stoppers => ip \in 1 .. StopAt(code)
  BY <1>1, Running
<1>3. code \in Returners \union {"genprotectfault"}
  BY <1>1, <1>2, Instructions
<1>4. "wild" \in Ended /\ "wild" \notin Stoppers
  BY DEF Ended, Stoppers
<1>5. Typed'
  BY <1>1 DEF IInv, Typed
<1>6. Layout' /\ Calm' /\ Reporting'
  BY <1>1, <1>2, <1>3, <1>4 DEF Layout, Calm, Reporting, Ended
<1> QED
  BY <1>5, <1>6 DEF IInv

LEMMA RaiseStep ==
  ASSUME IInv, NEW v \in Vectors, NEW e \in ErrorCodes, Raise(v, e)
  PROVE  IInv'
<1>1. code = "main" /\ Take(v, e) /\ UNCHANGED <<regs, set, saved, shown>>
  BY DEF Raise
<1>2. code \notin Ended
  BY <1>1 DEF Ended, Stoppers
<1>3. v \in 0 .. 31 /\ e \in Nat
  BY ExceptionAssumption
<1> QED
  BY <1>1, <1>2, <1>3, TakeStep

LEMMA NonMaskableStep ==
  ASSUME IInv, NonMaskable
  PROVE  IInv'
<1>1. /\ code \notin {"wild", "reset"} /\ Take(2, 0)
      /\ UNCHANGED <<regs, set, saved, shown>>
  BY DEF NonMaskable
<1>2. 2 \in 0 .. 31 /\ 0 \in Nat
  OBVIOUS
<1> QED
  BY <1>1, <1>2, TakeStep

LEMMA SetVectorStep ==
  ASSUME IInv, SetVector
  PROVE  IInv'
<1>1. /\ code = "main" /\ set < Len(VectorTable) /\ set' = set + 1
      /\ UNCHANGED <<stack, code, ip, regs, saved, shown, last, fatal>>
  BY DEF SetVector
<1>2. Len(VectorTable) = 20
  BY DEF VectorTable
<1>3. "main" \notin Ended
  BY DEF Ended, Stoppers
<1>4. Typed'
  BY <1>1, <1>2 DEF IInv, Typed
<1>5. Layout' /\ Calm' /\ Reporting'
  BY <1>1, <1>3 DEF IInv, Layout, Calm, Reporting, Ended
<1> QED
  BY <1>4, <1>5 DEF IInv

LEMMA IInvInit ==
  ASSUME Init
  PROVE  IInv
<1>1. /\ stack = <<>> /\ code = "main" /\ ip = 0 /\ regs = "main" /\ set = 0
      /\ saved = [int_gpfCode |-> 0, int_pfErrorCode |-> 0] /\ shown = Nothing
      /\ last = [vector |-> NoNumber, error |-> 0] /\ fatal = FALSE
  BY DEF Init
<1>2. /\ "main" \in Codes /\ "main" \notin Returners \union Stoppers
      /\ "main" # "genprotectfault" /\ "main" \notin Ended
  BY DEF Codes, Returners, Stoppers, Ended
<1>3. Typed
  BY <1>1, <1>2 DEF Typed, Nothing, NoNumber, Owners
<1>4. Layout
  <2> DEFINE G == [i \in 1 .. Len(stack) |-> "main"]
  <2>1. Len(stack) = 0
    BY <1>1
  <2>2. G \in [1 .. Len(stack) -> Owners]
    BY DEF Owners
  <2> HIDE DEF G
  <2>3. stack \in Seq(Word)
    BY <1>1
  <2>4. Chain(stack, G)
    BY <2>1, <2>2, <2>3 DEF Chain
  <2>5. Context(stack, G, 0, code, ip, regs)
    BY <2>1, <1>1, <1>2 DEF Context
  <2> QED
    BY <2>4, <2>5 DEF Layout
<1>5. Calm
  BY <1>1 DEF Calm, Harmless
<1>6. Reporting
  BY <1>1, <1>2 DEF Reporting
<1> QED
  BY <1>3, <1>4, <1>5, <1>6 DEF IInv

LEMMA IInvNext ==
  ASSUME IInv, [Next]_vars
  PROVE  IInv'
<1>1. CASE SetVector
  BY <1>1, SetVectorStep
<1>2. CASE Execute
  <2>1. CASE Pushad
    BY <2>1, PushadStep
  <2>2. CASE Popad
    BY <2>2, PopadStep
  <2>3. CASE PopCode
    BY <2>3, PopCodeStep
  <2>4. CASE PushArguments
    BY <2>4, PushArgumentsStep
  <2>5. CASE Message
    BY <2>5, MessageStep
  <2>6. CASE SystemStop
    BY <2>6, StopStep
  <2>7. CASE Iret
    BY <2>7, IretStep
  <2>8. CASE IretWild
    BY <2>8, IretWildStep
  <2>9. CASE \E e \in ErrorCodes : IretFaults(e)
    BY <2>9, IretFaultsStep
  <2> QED
    BY <2>1, <2>2, <2>3, <2>4, <2>5, <2>6, <2>7, <2>8, <2>9, <1>2 DEF Execute
<1>3. CASE NonMaskable
  BY <1>3, NonMaskableStep
<1>4. CASE \E v \in Vectors, e \in ErrorCodes : Raise(v, e)
  BY <1>4, RaiseStep
<1>5. CASE UNCHANGED vars
  BY <1>5 DEF vars, IInv, Typed, Layout, Calm, Reporting
<1>6. CASE Halted
  BY <1>5, <1>6 DEF Halted
<1> QED
  BY <1>1, <1>2, <1>3, <1>4, <1>5, <1>6 DEF Next

LEMMA Invariant == Spec => []IInv
<1>1. Init => IInv
  BY IInvInit
<1>2. IInv /\ [Next]_vars => IInv'
  BY IInvNext
<1> QED
  BY <1>1, <1>2, PTL DEF Spec

-----------------------------------------------------------------------------
(* Whatever exceptions came, and non-maskable interrupts at any of their   *)
(* handlers' instructions, to any depth: when the kernel's own code runs   *)
(* its stack and its registers are as they were (pushad, popad, iretd) and *)
(* no exception of Fatal was handled before: neither one whose handler     *)
(* stops the machine nor a general protection fault.  The breakpoint is    *)
(* left out, whose handler goes on although its comment says it halts.     *)
THEOREM MainKept == Spec => []MainIntact
<1>1. IInv => MainIntact
  <2>1. SUFFICES ASSUME IInv, code = "main"
                 PROVE  stack = <<>> /\ regs = "main" /\ ~fatal
    BY DEF MainIntact
  <2>2. PICK G : Chain(stack, G) /\ Context(stack, G, 0, code, ip, regs)
    BY <2>1 DEF IInv, Layout
  <2>3. Len(stack) = 0 /\ regs = "main" /\ stack \in Seq(Word)
    BY <2>1, <2>2 DEF Context, Chain
  <2>4. ~fatal
    BY <2>1 DEF IInv, Calm, Ended, Stoppers
  <2> QED
    BY <2>3, <2>4
<1> QED
  BY <1>1, Invariant, PTL

(* When a handler has stopped the machine (i386_system_stop), the report   *)
(* on the screen is of the exception that was handled last: its number,    *)
(* and for a page fault the error code the processor pushed.               *)
THEOREM ReportSafe == Spec => []ReportShown
<1>1. IInv => ReportShown
  BY DEF IInv, Reporting, ReportShown, NumberShown
<1> QED
  BY <1>1, Invariant, PTL

=============================================================================
