-------------------------- MODULE StartupProofs --------------------------
(***************************************************************************)
(* Theorems about Interrupts for every set of connected and noisy lines,   *)
(* whatever masks the firmware leaves; and about Startup for every boot    *)
(* loader that keeps to its format, every firmware and every set of        *)
(* devices.                                                                *)
(***************************************************************************)
EXTENDS Interrupts, Kernel, WellFoundedInduction, TLAPS

-----------------------------------------------------------------------------
(* Interrupts.  The inductive invariant.                                   *)

(* Nothing is taken before interrupts are enabled.                         *)
Starting ==
  pc \in {"idt", "pic", "pit", "enable"} =>
    handler = None /\ ~enabled /\ isr = {}

(* The gates that are set when the kernel has come to pc.                  *)
GatesSet ==
  /\ pc # "idt" => \A n \in Line \ {0, 1, 7, 15} : idt[n] = Gate("default")
  /\ pc \notin {"idt", "pic"} => idt[7] = Gate("irq7") /\ idt[15] = Gate("irq15")
  /\ pc \notin {"idt", "pic", "pit"} => idt[0] = Gate("pit")
  /\ idt[1].lo \in {"zero", "default", "keyb"}
  /\ pc = "fields" => \A f \in Fields \ todo : idt[1][f] = Gate("keyb")[f]
  /\ pc = "run" => idt[1] = Gate("keyb")

Pressed == 1 \in irr => early \/ pc = "run"

(* The handler that runs is the one of its line, and sends the ends of     *)
(* interrupt that it has to.                                               *)
Codes(n) == CASE n = 0 -> {"pit"}
              [] n = 1 -> {"keyb", "default", "segnotpresent", "wild"}
              [] n = 7 -> {"irq7"}
              [] n = 15 -> {"irq15"}
              [] OTHER -> {"default"}
Serves ==
  handler # None =>
    /\ handler.line \in Unserved \union {0, 1, 7, 15}
    /\ handler.code \in Codes(handler.line)
    /\ handler.line = 1 => early \/ handler.code = "keyb"
    /\ handler.at = "both" => handler.line = 15 /\ 15 \in imr
    /\ handler.at = "eoi" =>
         \/ handler.line \in {0, 15}
         \/ handler.line = 1
         \/ handler.line = 7 /\ 7 \in imr

(* What may be in service between handlers, and what else while the one of *)
(* line n runs: n itself, and the line of the master that it came by, to   *)
(* which nothing in service there is prior.  (Behind the vector of line 7  *)
(* there may be no line in service at all.)                                *)
Left == Unserved \union {7, 15}
          \union (IF early THEN {1} ELSE {})
          \union (IF Unserved \intersect Slave = {} THEN {} ELSE {Cascade})
MasterLine(n) == IF n \in Slave THEN Cascade ELSE n
InService ==
  /\ handler = None \/ handler.at = "iret" => isr \subseteq Left
  /\ handler # None /\ handler.at # "iret" =>
       /\ isr \subseteq Left \union {handler.line, MasterLine(handler.line)}
       /\ handler.line # 7 =>
            /\ MasterLine(handler.line) \in isr
            /\ \A m \in isr \intersect Master : MasterLine(handler.line) <= m

IInv == /\ TypeOK
        /\ Starting
        /\ GatesSet
        /\ Pressed
        /\ Serves
        /\ InService

-----------------------------------------------------------------------------
(* An end of interrupt takes nothing into service, and ends the foremost   *)
(* line of the chip.                                                       *)
LEMMA EOISubset ==
  ASSUME NEW service, NEW chip
  PROVE  EOI(service, chip) \subseteq service
  BY DEF EOI

LEMMA EOIForemost ==
  ASSUME NEW service \in SUBSET Line, NEW head \in service \intersect Master,
         \A m \in service \intersect Master : head <= m
  PROVE  EOI(service, Master) = service \ {head}
<1>1. \A n \in service : n \in EOI(service, Master) <=> n # head
  BY DEF EOI, Line, Master
<1> QED
  BY <1>1, EOISubset

(* The lines with a gate of their own or none, and the rest.               *)
LEMMA LeftLines == Left \subseteq Lines \union {7, 15, 1, Cascade} /\ 0 \notin Left
  BY DEF Left, Unserved, Cascade

LEMMA InitIInv == Init => IInv
<1> SUFFICES ASSUME Init PROVE IInv
  OBVIOUS
<1>1. TypeOK
  <2>1. Cleared \in [attr : {"present", "zero"},
                     lo : {"zero", "default", "irq7", "irq15", "pit", "keyb"},
                     hi : {"kernel", "zero"}]
    BY DEF Cleared
  <2>2. idt \in [Line -> [attr : {"present", "zero"},
                          lo : {"zero", "default", "irq7", "irq15", "pit", "keyb"},
                          hi : {"kernel", "zero"}]]
    BY <2>1 DEF Init
  <2>3. {pit_tick_count, spurious} \subseteq 0 .. TickSpace - 1
    BY LineAssumption DEF Init
  <2> QED
    BY <2>2, <2>3 DEF Init, TypeOK
<1>2. Starting /\ Pressed /\ Serves /\ InService
  BY DEF Init, Starting, Pressed, Serves, InService, None
<1>3. GatesSet
  BY DEF Init, GatesSet, Cleared, Line
<1> QED
  BY <1>1, <1>2, <1>3 DEF IInv

-----------------------------------------------------------------------------
(* The steps of the kernel.  Until interrupts are enabled no handler runs. *)
LEMMA IdtInitializeIInv == IInv /\ IdtInitialize => IInv'
<1> SUFFICES ASSUME IInv, IdtInitialize PROVE IInv'
  OBVIOUS
<1> USE DEF IInv, IdtInitialize, Main, hardware, counters
<1>1. TypeOK'
  BY DEF TypeOK, Gate
<1>2. Starting' /\ Pressed' /\ Serves' /\ InService'
  BY DEF Starting, Pressed, Serves, InService, Left
<1>3. GatesSet'
  BY DEF GatesSet, Gate, Line
<1> QED
  BY <1>1, <1>2, <1>3

LEMMA PicInitializeIInv == IInv /\ PicInitialize => IInv'
<1> SUFFICES ASSUME IInv, PicInitialize PROVE IInv'
  OBVIOUS
<1> USE DEF IInv, PicInitialize, Main, hardware, counters
<1>1. TypeOK'
  BY DEF TypeOK, Gate, Line
<1>2. Starting' /\ Pressed' /\ Serves' /\ InService'
  BY DEF Starting, Pressed, Serves, InService, Left
<1>3. GatesSet'
  BY DEF GatesSet, Gate, Line, TypeOK
<1> QED
  BY <1>1, <1>2, <1>3

LEMMA PitInitializeIInv == IInv /\ PitInitialize => IInv'
<1> SUFFICES ASSUME IInv, PitInitialize PROVE IInv'
  OBVIOUS
<1> USE DEF IInv, PitInitialize, Main, hardware, counters
<1>1. TypeOK'
  BY DEF TypeOK, Gate, Line
<1>2. Starting' /\ Pressed' /\ Serves' /\ InService'
  BY DEF Starting, Pressed, Serves, InService, Left
<1>3. GatesSet'
  BY DEF GatesSet, Gate, Line, TypeOK
<1> QED
  BY <1>1, <1>2, <1>3

LEMMA CpuEnableIInv == IInv /\ CpuEnable => IInv'
<1> SUFFICES ASSUME IInv, CpuEnable PROVE IInv'
  OBVIOUS
<1> USE DEF IInv, CpuEnable, Main, hardware, counters
<1>1. TypeOK'
  BY DEF TypeOK
<1>2. Starting' /\ Pressed' /\ Serves' /\ InService'
  BY DEF Starting, Pressed, Serves, InService, Left
<1>3. GatesSet'
  BY DEF GatesSet
<1> QED
  BY <1>1, <1>2, <1>3

(* The vector of the keyboard, field by field.                             *)
LEMMA SetVectorIInv == IInv /\ SetVector => IInv'
<1> SUFFICES ASSUME IInv, SetVector PROVE IInv'
  OBVIOUS
<1> USE DEF IInv, SetVector, Main, hardware, counters
<1>1. TypeOK'
  BY DEF TypeOK, Cleared, Line
<1>2. Starting' /\ Pressed' /\ Serves' /\ InService'
  BY DEF Starting, Pressed, Serves, InService, Left
<1>3. GatesSet'
  BY DEF GatesSet, Cleared, Line, TypeOK
<1> QED
  BY <1>1, <1>2, <1>3

LEMMA SetFieldIInv ==
  ASSUME IInv, NEW f \in Fields, SetField(f)
  PROVE  IInv'
<1> USE DEF SetField, Main, hardware, counters
<1>1. /\ idt \in [Line -> [attr : {"present", "zero"},
                           lo : {"zero", "default", "irq7", "irq15", "pit", "keyb"},
                           hi : {"kernel", "zero"}]]
      /\ f \in {"attr", "lo", "hi"} /\ 1 \in Line
  BY DEF IInv, TypeOK, Fields, Cleared, Line
<1>2. /\ idt' \in [Line -> [attr : {"present", "zero"},
                            lo : {"zero", "default", "irq7", "irq15", "pit", "keyb"},
                            hi : {"kernel", "zero"}]]
      /\ \A n \in Line \ {1} : idt'[n] = idt[n]
      /\ idt'[1].lo \in {idt[1].lo, "keyb"}
      /\ \A g \in Fields :
            idt'[1][g] = IF g = f THEN Gate("keyb")[g] ELSE idt[1][g]
  <2>1. CASE f = "attr"
    BY <2>1, <1>1 DEF Gate, Fields, Cleared
  <2>2. CASE f = "lo"
    BY <2>2, <1>1 DEF Gate, Fields, Cleared
  <2>3. CASE f = "hi"
    BY <2>3, <1>1 DEF Gate, Fields, Cleared
  <2> QED
    BY <2>1, <2>2, <2>3, <1>1
<1>3. TypeOK'
  BY <1>2 DEF IInv, TypeOK
<1>4. Starting' /\ Pressed' /\ Serves' /\ InService'
  BY DEF IInv, Starting, Pressed, Serves, InService, Left
<1>5. GatesSet'
  <2>1. pc' = "run" => idt'[1] = Gate("keyb")
    <3> SUFFICES ASSUME pc' = "run" PROVE idt'[1] = Gate("keyb")
      OBVIOUS
    <3>1. \A g \in Fields : idt'[1][g] = Gate("keyb")[g]
      BY <1>2 DEF IInv, GatesSet
    <3> QED
      BY <3>1, <1>2, <1>1 DEF Fields, Cleared, Gate
  <2>2. pc' = "fields" => \A g \in Fields \ todo' : idt'[1][g] = Gate("keyb")[g]
    BY <1>2 DEF IInv, GatesSet
  <2>3. idt'[1].lo \in {"zero", "default", "keyb"}
    BY <1>2 DEF IInv, GatesSet
  <2> QED
    BY <1>2, <2>1, <2>2, <2>3 DEF IInv, GatesSet, Line
<1> QED
  BY <1>3, <1>4, <1>5 DEF IInv

-----------------------------------------------------------------------------
(* A device raises a line.                                                 *)
LEMMA RaiseIInv ==
  ASSUME IInv, NEW n \in Lines, Raise(n)
  PROVE  IInv'
<1>1. TypeOK'
  <2>1. keyboard' \in BOOLEAN /\ early' \in BOOLEAN
    BY DEF Raise
  <2>2. enabled' \in BOOLEAN /\ irr' \subseteq Lines
    BY DEF Raise, IInv, TypeOK
  <2>3. {keyboard', enabled', early'} \subseteq BOOLEAN
    BY <2>1, <2>2
  <2>4. UNCHANGED <<isr, imr, idt, pc, todo, handler, pit_tick_count, spurious>>
    BY DEF Raise, counters
  <2> QED
    BY <2>2, <2>3, <2>4 DEF IInv, TypeOK
<1> USE DEF IInv, Raise
<1>2. Starting' /\ GatesSet' /\ Pressed' /\ Serves'
  BY DEF Starting, GatesSet, Pressed, Serves
<1>3. InService'
  <2>1. Left \subseteq Left'
    BY DEF Left
  <2> QED
    BY <2>1 DEF InService
<1> QED
  BY <1>1, <1>2, <1>3

(* The processor enters a handler: that of the line, whose gate is set.    *)
LEMMA EnterServes ==
  ASSUME IInv, NEW n \in Unserved \union {0, 1, 7, 15}, Enter(n),
         n = 1 => 1 \in irr
  PROVE  Serves' /\ handler'.line = n /\ handler'.at = "body" /\ handler' # None
<1>1. handler' = [line |-> n, code |-> Target(idt[n]), at |-> "body"]
  BY DEF Enter
<1>2. /\ pc \notin {"idt", "pic", "pit", "enable"}
      /\ pc' = pc /\ early' = early /\ n \in Line
  BY LineAssumption DEF Enter, IInv, Starting, Line, Unserved
<1>3. Target(idt[n]) \in Codes(n)
  <2>1. CASE n \in {0, 7, 15}
    BY <2>1, <1>2 DEF IInv, GatesSet, Target, Gate, Codes
  <2>2. CASE n = 1
    BY <2>2, <1>2 DEF IInv, GatesSet, Target, Codes
  <2>3. CASE n \notin {0, 1, 7, 15}
    BY <2>3, <1>2 DEF IInv, GatesSet, Target, Gate, Codes
  <2> QED
    BY <2>1, <2>2, <2>3
<1>4. n = 1 => early \/ Target(idt[n]) = "keyb"
  BY <1>2 DEF IInv, Pressed, GatesSet, Target, Gate
<1> QED
  BY <1>1, <1>2, <1>3, <1>4 DEF Serves, None

(* A real interrupt is put in service in front of what was there.          *)
LEMMA AcceptIInv ==
  ASSUME IInv, NEW n \in Line, Accept(n)
  PROVE  IInv'
<1>1. /\ n \in irr /\ n \in Lines /\ n \in Unserved \union {0, 1, 7, 15}
      /\ Requesting(n) /\ Enter(n) /\ n # Cascade
  BY LineAssumption DEF Accept, Foremost, Requesting, IInv, TypeOK, Unserved
<1>2. Serves' /\ handler'.line = n /\ handler'.at = "body" /\ handler' # None
  BY <1>1, EnterServes DEF IInv
<1>3. /\ isr' = isr \union {n, MasterLine(n)} /\ irr' = irr \ {n}
      /\ handler = None /\ enabled /\ enabled' = FALSE
      /\ UNCHANGED <<imr, keyboard, idt, pc, todo, pit_tick_count, spurious, early>>
      /\ handler' = [line |-> n, code |-> Target(idt[n]), at |-> "body"]
  BY DEF Accept, Enter, MasterLine, counters
<1>4. TypeOK'
  <2>1. Codes(n) \subseteq {"default", "irq7", "irq15", "pit", "keyb",
                            "segnotpresent", "wild"}
    BY DEF Codes
  <2>2. handler'.code \in Codes(n)
    BY <1>2 DEF Serves
  <2>3. isr' \subseteq Lines \union {Cascade}
    BY <1>1, <1>3 DEF IInv, TypeOK, MasterLine
  <2> QED
    BY <1>3, <2>1, <2>2, <2>3 DEF IInv, TypeOK
<1>5. Starting' /\ GatesSet' /\ Pressed'
  BY <1>3 DEF IInv, Starting, GatesSet, Pressed
<1>6. InService'
  <2>1. isr \subseteq Left /\ Left' = Left
    BY <1>3 DEF IInv, InService, Left
  <2>2. \A m \in isr \intersect Master : MasterLine(n) < m
    BY <1>1 DEF Requesting, Passes, MasterLine, Line, Master, Slave
  <2>3. MasterLine(n) \in Int
    BY DEF MasterLine, Line, Cascade
  <2>4. \A m \in isr' \intersect Master : MasterLine(n) <= m
    BY <1>3, <2>2, <2>3 DEF MasterLine, Line, Master, Slave, Cascade
  <2> QED
    BY <1>2, <1>3, <2>1, <2>4 DEF InService
<1> QED
  BY <1>2, <1>4, <1>5, <1>6 DEF IInv

(* A spurious one comes by the cascade, if at all.                         *)
LEMMA AcceptSpuriousIInv ==
  ASSUME IInv, NEW n \in Line, AcceptSpurious(n)
  PROVE  IInv'
<1> DEFINE last == IF n \in Slave THEN 15 ELSE 7
<1>1. n \in irr /\ Requesting(n) /\ Enter(last)
  BY DEF AcceptSpurious, Foremost, Requesting
<1>2. Serves' /\ handler'.line = last /\ handler'.at = "body" /\ handler' # None
  BY <1>1, EnterServes
<1>3. /\ isr' = isr \union (IF n \in Slave THEN {Cascade} ELSE {})
      /\ irr' = irr \ {n}
      /\ handler = None /\ enabled /\ enabled' = FALSE
      /\ UNCHANGED <<imr, keyboard, idt, pc, todo, pit_tick_count, spurious, early>>
      /\ handler' = [line |-> last, code |-> Target(idt[last]), at |-> "body"]
  BY DEF AcceptSpurious, Enter, counters
<1>4. TypeOK'
  <2>1. Codes(last) \subseteq {"default", "irq7", "irq15", "pit", "keyb",
                               "segnotpresent", "wild"}
    BY DEF Codes
  <2>2. handler'.code \in Codes(last) /\ last \in Line
    BY <1>2 DEF Serves, Line
  <2>3. isr' \subseteq Lines \union {Cascade}
    BY <1>3 DEF IInv, TypeOK
  <2> QED
    BY <1>3, <2>1, <2>2, <2>3 DEF IInv, TypeOK
<1>5. Starting' /\ GatesSet' /\ Pressed'
  BY <1>3 DEF IInv, Starting, GatesSet, Pressed
<1>6. InService'
  <2>1. isr \subseteq Left /\ Left' = Left
    BY <1>3 DEF IInv, InService, Left
  <2>2. CASE n \in Slave
    <3>1. last = 15 /\ MasterLine(last) = Cascade /\ isr' = isr \union {Cascade}
      BY <2>2, <1>3 DEF MasterLine, Slave
    <3>2. \A m \in isr \intersect Master : Cascade < m
      BY <2>2, <1>1 DEF Requesting, Passes, Master, Slave
    <3>3. \A m \in isr' \intersect Master : Cascade <= m
      BY <3>1, <3>2 DEF Cascade, Master
    <3> QED
      BY <1>2, <1>3, <2>1, <3>1, <3>3 DEF InService
  <2>3. CASE n \notin Slave
    BY <2>3, <1>2, <1>3, <2>1 DEF InService
  <2> QED
    BY <2>2, <2>3
<1> QED
  BY <1>2, <1>4, <1>5, <1>6 DEF IInv

-----------------------------------------------------------------------------
(* A handler goes on to at, without touching what is in service.           *)
LEMMA GotoIInv ==
  ASSUME IInv, NEW at \in {"eoi", "both", "iret"},
         handler.at = "body", Goto(at),
         at = "both" => handler.line = 15 /\ 15 \in imr,
         at = "eoi" => handler.line \in {0, 1, 15} \union ({7} \intersect imr),
         at = "iret" => {handler.line, MasterLine(handler.line)} \subseteq Left,
         keyboard' \in BOOLEAN,
         {pit_tick_count', spurious'} \subseteq 0 .. TickSpace - 1,
         UNCHANGED <<irr, isr, imr, enabled, idt, pc, todo, early>>
  PROVE  IInv'
<1>1. /\ handler # None /\ handler' # None
      /\ handler'.line = handler.line /\ handler'.code = handler.code
      /\ handler'.at = at
      /\ handler' \in [line : Line,
                       code : {"default", "irq7", "irq15", "pit", "keyb",
                               "segnotpresent", "wild"},
                       at : {"body", "eoi", "both", "iret"}]
  BY DEF IInv, TypeOK, Goto, None
<1>2. TypeOK'
  BY <1>1 DEF IInv, TypeOK
<1>3. Starting' /\ GatesSet' /\ Pressed'
  BY <1>1 DEF IInv, Starting, GatesSet, Pressed
<1>4. Serves'
  BY <1>1 DEF IInv, Serves
<1>5. InService'
  BY <1>1 DEF IInv, InService, Left
<1> QED
  BY <1>2, <1>3, <1>4, <1>5 DEF IInv

(* What the handlers do in their bodies.                                   *)
LEMMA BodyIInv ==
  IInv /\ (PitHandler \/ KeybInterrupt \/ DefaultHandler \/ Irq7 \/ Irq15) => IInv'
<1> SUFFICES ASSUME IInv,
                    PitHandler \/ KeybInterrupt \/ DefaultHandler \/ Irq7 \/ Irq15
             PROVE  IInv'
  OBVIOUS
<1> USE DEF hardware, counters, Running
<1>1. /\ handler # None /\ handler.at = "body"
      /\ handler.line \in Unserved \union {0, 1, 7, 15}
      /\ handler.code \in Codes(handler.line)
      /\ handler.line = 1 => early \/ handler.code = "keyb"
      /\ keyboard \in BOOLEAN
      /\ pit_tick_count \in 0 .. TickSpace - 1 /\ spurious \in 0 .. TickSpace - 1
  BY DEF PitHandler, KeybInterrupt, DefaultHandler, Irq7, Irq15, IInv, TypeOK,
         Serves, None
<1>2. \A count \in 0 .. TickSpace - 1 : Count(count) \in 0 .. TickSpace - 1
  BY LineAssumption DEF Count
<1>3. CASE PitHandler
  <2>1. handler.line = 0
    BY <1>3, <1>1 DEF PitHandler, Codes
  <2> QED
    BY <1>3, <1>1, <1>2, <2>1, GotoIInv DEF PitHandler
<1>4. CASE KeybInterrupt
  <2>1. handler.line = 1
    BY <1>4, <1>1 DEF KeybInterrupt, Codes
  <2> QED
    BY <1>4, <1>1, <2>1, GotoIInv DEF KeybInterrupt
<1>5. CASE DefaultHandler
  <2>1. handler.line \in Unserved \/ (handler.line = 1 /\ early)
    BY <1>5, <1>1 DEF DefaultHandler, Codes
  <2>2. {handler.line, MasterLine(handler.line)} \subseteq Left
    BY <2>1 DEF Left, MasterLine, Slave
  <2> QED
    BY <1>5, <1>1, <2>2, GotoIInv DEF DefaultHandler
<1>6. CASE Irq7
  <2>1. handler.line = 7 /\ {7, MasterLine(7)} \subseteq Left
    BY <1>6, <1>1 DEF Irq7, Codes, Left, MasterLine, Slave
  <2>2. CASE 7 \in imr
    BY <2>2, <1>6, <1>1, <2>1, GotoIInv DEF Irq7
  <2>3. CASE 7 \notin imr
    BY <2>3, <1>6, <1>1, <1>2, <2>1, GotoIInv DEF Irq7
  <2> QED
    BY <2>2, <2>3
<1>7. CASE Irq15
  <2>1. handler.line = 15
    BY <1>7, <1>1 DEF Irq15, Codes
  <2>2. CASE 15 \in imr
    BY <2>2, <1>7, <1>1, <2>1, GotoIInv DEF Irq15
  <2>3. CASE 15 \notin imr
    BY <2>3, <1>7, <1>1, <1>2, <2>1, GotoIInv DEF Irq15
  <2> QED
    BY <2>2, <2>3
<1> QED
  BY <1>3, <1>4, <1>5, <1>6, <1>7

(* The end of interrupt takes the head of its line out of service.         *)
LEMMA SendEOIEnds ==
  ASSUME IInv, SendEOI
  PROVE  /\ isr' \subseteq isr
         /\ handler.line # 7 =>
              EOI(isr, Master) = isr \ {MasterLine(handler.line)}
         /\ handler.line \in {0, 1, 7, 15}
         /\ handler.at = "both" => handler.line = 15 /\ 15 \in imr
         /\ handler.line = 7 => 7 \in imr
         /\ handler # None /\ handler.at # "iret"
<1>1. /\ handler # None /\ handler.at # "iret"
      /\ handler.line \in {0, 1, 7, 15}
      /\ handler.at = "both" => handler.line = 15 /\ 15 \in imr
      /\ handler.line = 7 => 7 \in imr
  BY DEF SendEOI, IInv, Serves, None
<1>2. isr' \subseteq isr
  BY EOISubset DEF SendEOI
<1>3. ASSUME handler.line # 7
      PROVE  EOI(isr, Master) = isr \ {MasterLine(handler.line)}
  <2>1. isr \subseteq Line
    BY LineAssumption DEF IInv, TypeOK, Line, Cascade
  <2>2. MasterLine(handler.line) \in isr \intersect Master
    BY <1>1, <1>3 DEF IInv, InService, MasterLine, Master, Slave, Cascade
  <2>3. \A m \in isr \intersect Master : MasterLine(handler.line) <= m
    BY <1>1, <1>3 DEF IInv, InService
  <2> QED
    BY <2>1, <2>2, <2>3, EOIForemost
<1> QED
  BY <1>1, <1>2, <1>3

LEMMA SendEOIIInv == IInv /\ SendEOI => IInv'
<1> SUFFICES ASSUME IInv, SendEOI PROVE IInv'
  OBVIOUS
<1>1. /\ isr' \subseteq isr /\ handler # None /\ handler' # None
      /\ handler.at # "iret"
      /\ handler'.line = handler.line /\ handler'.code = handler.code
      /\ handler'.at = "iret"
      /\ handler' \in [line : Line,
                       code : {"default", "irq7", "irq15", "pit", "keyb",
                               "segnotpresent", "wild"},
                       at : {"body", "eoi", "both", "iret"}]
      /\ UNCHANGED <<irr, imr, keyboard, enabled, idt, pc, todo, pit_tick_count,
                     spurious, early>>
  BY SendEOIEnds DEF SendEOI, IInv, TypeOK, Goto, None, counters
<1>2. TypeOK'
  BY <1>1 DEF IInv, TypeOK
<1>3. Starting' /\ GatesSet' /\ Pressed' /\ Serves'
  BY <1>1 DEF IInv, Starting, GatesSet, Pressed, Serves
<1>4. InService'
  <2>1. isr \subseteq Left \union {handler.line, MasterLine(handler.line)} /\ Left' = Left
    BY <1>1 DEF IInv, InService, Left
  <2>2. handler.line # 7 => isr' \subseteq isr \ {MasterLine(handler.line)}
    BY SendEOIEnds, EOISubset DEF SendEOI
  <2>3. {7, 15} \subseteq Left
    BY DEF Left
  <2>4. isr' \subseteq Left
    BY <1>1, <2>1, <2>2, <2>3, SendEOIEnds DEF MasterLine, Slave
  <2> QED
    BY <1>1, <2>1, <2>4 DEF InService
<1> QED
  BY <1>2, <1>3, <1>4 DEF IInv

LEMMA IretIInv == IInv /\ Iret => IInv'
<1> SUFFICES ASSUME IInv, Iret PROVE IInv'
  OBVIOUS
<1> USE DEF IInv, Iret, hardware, counters
<1>1. TypeOK'
  BY DEF TypeOK
<1>2. Starting' /\ GatesSet' /\ Pressed' /\ Serves'
  BY DEF Starting, GatesSet, Pressed, Serves, None
<1>3. InService'
  BY DEF InService, Left
<1> QED
  BY <1>1, <1>2, <1>3

LEMMA UnchangedIInv == IInv /\ UNCHANGED vars => IInv'
  BY DEF IInv, vars, hardware, counters, TypeOK, Starting, GatesSet, Pressed,
         Serves, InService, Left

LEMMA NextIInv == IInv /\ [Next]_vars => IInv'
<1> SUFFICES ASSUME IInv, [Next]_vars PROVE IInv'
  OBVIOUS
<1>1. CASE Kernel
  BY <1>1, IdtInitializeIInv, PicInitializeIInv, PitInitializeIInv,
     CpuEnableIInv, SetVectorIInv, SetFieldIInv DEF Kernel
<1>2. CASE Handler
  BY <1>2, BodyIInv, SendEOIIInv, IretIInv DEF Handler
<1>3. CASE \E n \in Line : Accept(n) \/ AcceptSpurious(n)
  BY <1>3, AcceptIInv, AcceptSpuriousIInv
<1>4. CASE \E n \in Lines : Raise(n)
  BY <1>4, RaiseIInv
<1> QED
  BY <1>1, <1>2, <1>3, <1>4, UnchangedIInv DEF Next, Processor, Halted, Prompt

THEOREM Invariance == Spec => []IInv
<1>1. Init => IInv
  BY InitIInv
<1>2. IInv /\ [Next]_vars => IInv'
  BY NextIInv
<1> QED
  BY <1>1, <1>2, PTL DEF Spec

-----------------------------------------------------------------------------
(* The controllers, the gates and the handlers keep their types: no line   *)
(* is entered through a vector outside the sixteen of the controllers.     *)
THEOREM TypeCorrect == Spec => []TypeOK
<1>1. IInv => TypeOK
  BY DEF IInv
<1> QED
  BY <1>1, Invariance, PTL

(* A handler that returns leaves its line out of service: the timer always,*)
(* the keyboard unless a key came before its vector, the cascade unless a  *)
(* slave line without a handler was raised.                                *)
THEOREM LinesReleased == Spec => []Released
<1>1. IInv => Released
  BY DEF IInv, InService, Left, Released
<1> QED
  BY <1>1, Invariance, PTL

(* An interrupt finds its gate complete, although i386_idt_setvector       *)
(* writes one while interrupts are enabled, unless it is the keyboard's.   *)
THEOREM GatesSafe == Spec => []GatesComplete
<1>1. IInv => GatesComplete
  BY DEF IInv, Serves, Codes, GatesComplete, Stopped, None
<1> QED
  BY <1>1, Invariance, PTL

(* A non-specific end of interrupt ends the interrupt it is meant for.     *)
THEOREM EoiSafe == Spec => EoiEndsItsOwn
<1> DEFINE Own == \A n \in isr \ isr' :
                     \/ pc = "pic" /\ pc' = "pit"
                     \/ n = handler.line
                     \/ n = Cascade /\ handler.line \in Slave
                     \/ handler.line \in {7, 15} \intersect imr
<1>1. ASSUME IInv, [Next]_vars PROVE [Own]_vars
  <2>1. CASE SendEOI
    <3>1. handler.line \in {7, 15} \intersect imr \/ isr' = isr \ {MasterLine(handler.line)}
      BY <1>1, <2>1, SendEOIEnds DEF SendEOI
    <3> QED
      BY <3>1 DEF MasterLine
  <2>2. CASE PicInitialize
    BY <2>2 DEF PicInitialize, Main
  <2>3. CASE Kernel /\ ~PicInitialize
    BY <2>3 DEF Kernel, IdtInitialize, PitInitialize, CpuEnable, SetVector,
                SetField, hardware
  <2>4. CASE Handler /\ ~SendEOI
    BY <2>4 DEF Handler, PitHandler, KeybInterrupt, DefaultHandler, Irq7, Irq15,
                Iret, hardware
  <2>5. CASE \E n \in Line : Accept(n) \/ AcceptSpurious(n)
    BY <2>5 DEF Accept, AcceptSpurious
  <2>6. CASE \E n \in Lines : Raise(n)
    BY <2>6 DEF Raise
  <2>7. CASE UNCHANGED vars
    BY <2>7
  <2> QED
    BY <1>1, <2>1, <2>2, <2>3, <2>4, <2>5, <2>6, <2>7
       DEF Next, Processor, Halted, Prompt
<1> QED
  BY <1>1, Invariance, PTL DEF Spec, EoiEndsItsOwn

-----------------------------------------------------------------------------
(* The start-up.  The inductive invariant: the walk over the tags of a     *)
(* multiboot 2 loader goes from tag to tag and ends at the memory map; ... *)
Walking ==
  /\ stage = "find" =>
       /\ loader.magic = MULTIBOOT2_MAGIC /\ tag \in loader.tags
       /\ wanted \in {MBOOT2_TYPETAG_MEMSZ, MBOOT2_TYPETAG_MMAP}
  /\ stage \in {"cpu", "memory", "first", "map"} =>
       \/ loader.magic = MULTIBOOT_MAGIC
       \/ /\ loader.magic = MULTIBOOT2_MAGIC
          /\ mapTag \in loader.tags /\ TagType(loader, mapTag) = MBOOT2_TYPETAG_MMAP

(* ... what has been delivered is what is reserved in the part of the map  *)
(* that the cursor has passed.                                             *)
Delivering ==
  /\ stage \in {"terminal", "multiboot", "find", "cpu", "memory", "first"} =>
       cur = 0 /\ regions = <<>>
  /\ stage = "map" =>
       /\ cur \in 0 .. Len(loader.entries) /\ regions \in Seq(Entry)
       /\ IF loader.magic = MULTIBOOT_MAGIC
          THEN cur > 0 /\ Reserves(regions, loader.map, 2 .. cur + 1)
          ELSE Reserves(regions, loader.entries, 1 .. cur)

MapInv == /\ loader \in Loaders
          /\ Aligned => Walking /\ Delivering
          /\ MapDelivered

-----------------------------------------------------------------------------
(* A part of a map without entries, ...                                    *)
LEMMA ReservesNone ==
  ASSUME NEW map
  PROVE  Reserves(<<>>, map, {})
<1> DEFINE f == [k \in {} |-> 0]
<1>1. DOMAIN <<>> = {}
  OBVIOUS
<1>2. f \in [DOMAIN <<>> -> {}]
  BY <1>1
<1> QED
  BY <1>1, <1>2 DEF Reserves

(* ... with one entry more, ...                                            *)
LEMMA ReservesMore ==
  ASSUME NEW list \in Seq(Entry), NEW map, NEW a \in Int, NEW b \in Int, a <= b,
         map[b] \in Entry, Reserves(list, map, a .. b - 1)
  PROVE  Reserves(IF map[b].type # 1 THEN Append(list, map[b]) ELSE list, map, a .. b)
<1>1. PICK f \in [DOMAIN list -> a .. b - 1] :
        /\ \A j, k \in DOMAIN list : j < k => f[j] < f[k]
        /\ {f[k] : k \in DOMAIN list} = {i \in a .. b - 1 : map[i].type # 1}
        /\ \A k \in DOMAIN list : list[k] = map[f[k]]
  BY DEF Reserves
<1>2. a .. b = (a .. b - 1) \union {b} /\ b \notin a .. b - 1
  OBVIOUS
<1>3. CASE map[b].type # 1
  <2> DEFINE more == Append(list, map[b])
             g == [k \in DOMAIN more |-> IF k = Len(list) + 1 THEN b ELSE f[k]]
  <2>1. /\ more \in Seq(Entry) /\ Len(more) = Len(list) + 1
        /\ DOMAIN list = 1 .. Len(list) /\ DOMAIN more = 1 .. Len(list) + 1
        /\ \A k \in DOMAIN list : more[k] = list[k]
        /\ more[Len(list) + 1] = map[b] /\ Len(list) \in Nat
    OBVIOUS
  <2> HIDE DEF more
  <2>2. /\ g \in [DOMAIN more -> a .. b] /\ g[Len(list) + 1] = b
        /\ \A k \in DOMAIN list : g[k] = f[k] /\ g[k] \in a .. b - 1
    BY <1>1, <1>2, <2>1
  <2> HIDE DEF g
  <2>3. ASSUME NEW j \in DOMAIN more, NEW k \in DOMAIN more, j < k
        PROVE  g[j] < g[k]
    <3>1. j \in DOMAIN list /\ j \in Int /\ k \in Int
      BY <2>1, <2>3
    <3>2. CASE k \in DOMAIN list
      BY <1>1, <2>2, <2>3, <3>1, <3>2
    <3>3. CASE k = Len(list) + 1
      BY <2>2, <3>1, <3>3
    <3> QED
      BY <2>1, <3>2, <3>3
  <2>4. {g[k] : k \in DOMAIN more} = {f[k] : k \in DOMAIN list} \union {b}
    <3>1. DOMAIN more = DOMAIN list \union {Len(list) + 1}
      BY <2>1
    <3> QED
      BY <2>2, <3>1
  <2>5. {g[k] : k \in DOMAIN more} = {i \in a .. b : map[i].type # 1}
    BY <1>1, <1>2, <1>3, <2>4
  <2>6. \A k \in DOMAIN more : more[k] = map[g[k]]
    BY <1>1, <2>1, <2>2
  <2> QED
    BY <1>3, <2>2, <2>3, <2>5, <2>6 DEF Reserves, more
<1>4. CASE map[b].type = 1
  <2>1. {i \in a .. b : map[i].type # 1} = {i \in a .. b - 1 : map[i].type # 1}
    BY <1>2, <1>4
  <2>2. f \in [DOMAIN list -> a .. b]
    BY <1>2
  <2> QED
    BY <1>1, <1>4, <2>1, <2>2 DEF Reserves
<1> QED
  BY <1>3, <1>4

(* ... in another part with the same reserved entries, ...                 *)
LEMMA ReservesElsewhere ==
  ASSUME NEW list, NEW map, NEW part, NEW other, Reserves(list, map, part),
         {i \in part : map[i].type # 1} = {i \in other : map[i].type # 1}
  PROVE  Reserves(list, map, other)
<1>1. PICK f \in [DOMAIN list -> part] :
        /\ \A j, k \in DOMAIN list : j < k => f[j] < f[k]
        /\ {f[k] : k \in DOMAIN list} = {i \in part : map[i].type # 1}
        /\ \A k \in DOMAIN list : list[k] = map[f[k]]
  BY DEF Reserves
<1>2. f \in [DOMAIN list -> other]
  BY <1>1
<1> QED
  BY <1>1, <1>2 DEF Reserves

(* ... and where two maps agree.                                           *)
LEMMA ReservesSame ==
  ASSUME NEW list, NEW map, NEW other, NEW part, Reserves(list, map, part),
         \A i \in part : map[i] = other[i]
  PROVE  Reserves(list, other, part)
<1>1. PICK f \in [DOMAIN list -> part] :
        /\ \A j, k \in DOMAIN list : j < k => f[j] < f[k]
        /\ {f[k] : k \in DOMAIN list} = {i \in part : map[i].type # 1}
        /\ \A k \in DOMAIN list : list[k] = map[f[k]]
  BY DEF Reserves
<1>2. {i \in part : map[i].type # 1} = {i \in part : other[i].type # 1}
  OBVIOUS
<1> QED
  BY <1>1, <1>2 DEF Reserves

(* A tag is followed by a tag.                                             *)
LEMMA NextTagIsTag ==
  ASSUME NEW l \in Loaders, NEW i \in l.tags, TagType(l, i) # MBOOT2_TYPETAG_END
  PROVE  NextTag(l, i) \in l.tags
<1>1. WellFormed(l)
  BY StartupAssumption
<1>2. PICK j \in l.tags : Follows(l, i, j)
  BY <1>1 DEF WellFormed
<1>3. i \in Nat /\ j \in Nat /\ TagSize(l, i) \in Nat
  BY <1>1, <1>2 DEF WellFormed, TagSize, Word
<1>4. 8 * (j - i) <= TagSize(l, i) + 7 /\ TagSize(l, i) + 7 < 8 * (j - i) + 8
  BY <1>2, <1>3 DEF Follows
<1>5. (TagSize(l, i) + 7) \div 8 = j - i
  BY <1>3, <1>4
<1> QED
  BY <1>2, <1>3, <1>5 DEF NextTag

LEMMA Quotient24 == \A n \in Nat : (24 * n) \div 24 = n
  OBVIOUS

(* The entries that multiboot_get_mmap_next returns are those of the       *)
(* loader's map, for multiboot 1 from the second on.                       *)
LEMMA EntriesOfTag ==
  ASSUME NEW l \in Loaders, NEW i \in l.tags, TagType(l, i) = MBOOT2_TYPETAG_MMAP,
         NEW n \in Nat
  PROVE  NextEntry2(l, i, n) =
           IF n < Len(l.entries) THEN <<l.entries[n + 1]>> ELSE <<>>
<1>1. /\ WellFormed(l) /\ i \in Nat /\ l.entries \in Seq(Entry) /\ Len(l.entries) \in Nat
  BY StartupAssumption DEF WellFormed
<1>2. EntryCount(l, i) = Len(l.entries)
  <2>1. TagSize(l, i) = 16 + 24 * Len(l.entries) /\ EntrySize(l, i) = 24
    BY <1>1 DEF WellFormed, EntrySize
  <2>2. TagSize(l, i) - 8 * TagMmapWords = 24 * Len(l.entries)
    BY <1>1, <2>1 DEF TagMmapWords
  <2>3. (24 * Len(l.entries)) \div 24 = Len(l.entries)
    BY <1>1, Quotient24
  <2> QED
    BY <2>1, <2>2, <2>3 DEF EntryCount
<1>3. ASSUME n < Len(l.entries)
      PROVE  EntryAt(l, i, n) = l.entries[n + 1]
  <2>1. n + 1 \in DOMAIN l.entries
    BY <1>1, <1>3
  <2>2. /\ Word(l, i + 3 * (n + 1) - 1).lo = l.entries[n + 1].base
        /\ Word(l, i + 3 * (n + 1)).lo = l.entries[n + 1].len
        /\ Word(l, i + 3 * (n + 1) + 1).lo = l.entries[n + 1].type
    BY <1>1, <2>1 DEF WellFormed
  <2>3. /\ i + TagMmapWords + EntryWords * n = i + 3 * (n + 1) - 1
        /\ i + TagMmapWords + EntryWords * n + 1 = i + 3 * (n + 1)
        /\ i + TagMmapWords + EntryWords * n + 2 = i + 3 * (n + 1) + 1
    BY <1>1 DEF TagMmapWords, EntryWords
  <2>4. EntryAt(l, i, n) = [base |-> l.entries[n + 1].base, len |-> l.entries[n + 1].len,
                         type |-> l.entries[n + 1].type]
    BY <2>2, <2>3 DEF EntryAt
  <2>5. l.entries[n + 1] \in Entry
    BY <1>1, <2>1
  <2> QED
    BY <2>4, <2>5 DEF Entry
<1> QED
  BY <1>2, <1>3 DEF NextEntry2

LEMMA EntriesOfMap ==
  ASSUME NEW l \in Loaders, l.magic = MULTIBOOT_MAGIC, NEW n \in Nat
  PROVE  /\ NextEntry1(l, n) = IF n < Len(l.entries) THEN <<l.map[n + 2]>> ELSE <<>>
         /\ n < Len(l.entries) => l.map[n + 2] \in Entry
<1>1. /\ l.map \in Seq(Entry) /\ Len(l.map) = Len(l.entries) + 1
      /\ Len(l.entries) \in Nat
  BY StartupAssumption DEF WellFormed
<1> QED
  BY <1>1 DEF NextEntry1

-----------------------------------------------------------------------------
LEMMA InitMapInv == StartupInit => MapInv
  BY DEF StartupInit, MapInv, Walking, Delivering, MapDelivered

(* Before the memory map.                                                  *)
LEMMA EarlyMapInv ==
  ASSUME MapInv,
         \/ TerminalInitialize \/ Multiboot1 \/ Multiboot2 \/ NoMultiboot
         \/ FindEnds \/ FindFinds \/ CpuInit \/ MemoryInitialize
  PROVE  MapInv'
<1>1. UNCHANGED <<loader, cur, regions>>
  BY DEF TerminalInitialize, Multiboot1, Multiboot2, NoMultiboot, FindEnds, FindFinds,
         CpuInit, MemoryInitialize
<1>2. /\ stage \in {"terminal", "multiboot", "find", "cpu", "memory"}
      /\ stage' \in {"multiboot", "find", "cpu", "memory", "first", "panic"}
  BY DEF TerminalInitialize, Multiboot1, Multiboot2, NoMultiboot, FindEnds, FindFinds,
         CpuInit, MemoryInitialize, Panic
<1>3. Aligned' = Aligned
  BY <1>1 DEF Aligned
<1>4. ASSUME Aligned PROVE Walking'
  <2>1. Walking
    BY <1>4 DEF MapInv
  <2>2. CASE TerminalInitialize \/ NoMultiboot \/ FindEnds
    BY <2>2 DEF TerminalInitialize, NoMultiboot, FindEnds, Walking, Panic
  <2>3. CASE Multiboot1
    BY <2>3 DEF Multiboot1, Walking
  <2>4. CASE Multiboot2
    BY <1>4, <2>4 DEF Multiboot2, Walking, Aligned
  <2>5. CASE FindFinds
    BY <1>4, <2>1, <2>5 DEF FindFinds, Walking, Aligned, MBOOT2_TYPETAG_MEMSZ,
                           MBOOT2_TYPETAG_MMAP, TagType, Word
  <2>6. CASE CpuInit \/ MemoryInitialize
    BY <2>1, <2>6 DEF CpuInit, MemoryInitialize, Walking, TagType, Word
  <2> QED
    BY <2>2, <2>3, <2>4, <2>5, <2>6
<1>5. ASSUME Aligned PROVE Delivering'
  BY <1>1, <1>2, <1>5 DEF MapInv, Delivering
<1>6. MapDelivered'
  BY <1>2 DEF MapDelivered
<1> QED
  BY <1>1, <1>3, <1>4, <1>5, <1>6 DEF MapInv

LEMMA FindNextMapInv ==
  ASSUME MapInv, FindNext
  PROVE  MapInv'
<1>1. /\ stage = "find" /\ stage' \in {"find", "fault"}
      /\ TagType(loader, tag) # MBOOT2_TYPETAG_END /\ tag' = NextTag(loader, tag)
      /\ UNCHANGED <<loader, wanted, cur, regions>>
  BY DEF FindNext
<1>2. Aligned' = Aligned
  BY <1>1 DEF Aligned
<1>3. ASSUME Aligned PROVE Walking' /\ Delivering'
  <2>1. loader.magic = MULTIBOOT2_MAGIC /\ tag \in loader.tags
    BY <1>1, <1>3 DEF MapInv, Walking
  <2>2. tag' \in loader.tags
    BY <1>1, <2>1, NextTagIsTag DEF MapInv
  <2> QED
    BY <1>1, <1>3, <2>1, <2>2 DEF MapInv, Walking, Delivering
<1>4. MapDelivered'
  BY <1>1 DEF MapDelivered
<1> QED
  BY <1>1, <1>2, <1>3, <1>4 DEF MapInv

LEMMA MapEntryMapInv ==
  ASSUME MapInv, MapEntry
  PROVE  MapInv'
<1> DEFINE entry == NextEntry(loader, mapTag, cur)
           count == Len(loader.entries)
<1>1. /\ stage \in {"first", "map"} /\ UNCHANGED <<loader, mapTag>>
      /\ entry = <<>> => /\ stage' \in {"panic", "vmmngr"}
                         /\ stage' = "vmmngr" => stage = "map"
                         /\ UNCHANGED <<cur, regions>>
      /\ entry # <<>> => /\ stage' = "map" /\ cur' = cur + 1
                         /\ regions' = IF entry[1].type # 1
                                       THEN Append(regions, entry[1]) ELSE regions
  BY DEF MapEntry, Panic
<1>2. /\ Aligned' = Aligned /\ MemoryAround' = MemoryAround
      /\ loader \in Loaders /\ loader.entries \in Seq(Entry)
      /\ count \in Nat /\ DOMAIN loader.entries = 1 .. count
  BY <1>1, StartupAssumption DEF Aligned, MemoryAround, MapInv, WellFormed
<1>3. ASSUME Aligned
      PROVE  /\ cur \in 0 .. count /\ regions \in Seq(Entry)
             /\ \/ loader.magic = MULTIBOOT_MAGIC
                \/ /\ loader.magic = MULTIBOOT2_MAGIC
                   /\ mapTag \in loader.tags
                   /\ TagType(loader, mapTag) = MBOOT2_TYPETAG_MMAP
             /\ IF loader.magic = MULTIBOOT_MAGIC
                THEN Reserves(regions, loader.map, 2 .. cur + 1)
                ELSE Reserves(regions, loader.entries, 1 .. cur)
             /\ stage = "map" /\ loader.magic = MULTIBOOT_MAGIC => cur > 0
  <2>1. Walking /\ Delivering
    BY <1>3 DEF MapInv
  <2>2. CASE stage = "first"
    <3>1. cur = 0 /\ regions = <<>> /\ 2 .. cur + 1 = {} /\ 1 .. cur = {}
      BY <2>1, <2>2 DEF Delivering
    <3> QED
      BY <1>2, <2>1, <2>2, <3>1, ReservesNone DEF Walking
  <2>3. CASE stage = "map"
    BY <2>1, <2>3 DEF Walking, Delivering
  <2> QED
    BY <1>1, <2>2, <2>3
<1>4. MULTIBOOT_MAGIC # MULTIBOOT2_MAGIC
  BY DEF MULTIBOOT_MAGIC, MULTIBOOT2_MAGIC
<1>5. ASSUME Aligned, loader.magic = MULTIBOOT_MAGIC
      PROVE  /\ cur < count => entry = <<loader.map[cur + 2]>> /\ loader.map[cur + 2] \in Entry
             /\ ~(cur < count) => entry = <<>>
  BY <1>2, <1>3, <1>5, EntriesOfMap DEF NextEntry
<1>6. ASSUME Aligned, loader.magic = MULTIBOOT2_MAGIC
      PROVE  /\ cur < count => entry = <<loader.entries[cur + 1]>>
             /\ ~(cur < count) => entry = <<>>
  BY <1>2, <1>3, <1>4, <1>6, EntriesOfTag DEF NextEntry
<1> HIDE DEF entry, count
<1>7. ASSUME Aligned, stage' = "map"
      PROVE  Walking' /\ Delivering'
  <2>1. cur < count /\ cur' = cur + 1 /\ cur' \in 0 .. count
    BY <1>1, <1>2, <1>3, <1>5, <1>6, <1>7
  <2>2. CASE loader.magic = MULTIBOOT_MAGIC
    <3>1. /\ entry[1] = loader.map[cur + 2] /\ loader.map[cur + 2] \in Entry
          /\ regions' = IF loader.map[cur + 2].type # 1
                        THEN Append(regions, loader.map[cur + 2]) ELSE regions
      BY <1>1, <1>5, <1>7, <2>1, <2>2
    <3>2. Reserves(regions', loader.map, 2 .. cur' + 1)
      <4> DEFINE a == 2
                 b == cur + 2
      <4>1. /\ a \in Int /\ b \in Int /\ a <= b /\ b - 1 = cur + 1
            /\ a .. b = 2 .. cur' + 1
        BY <1>2, <1>3, <1>7, <2>1
      <4>2. /\ Reserves(regions, loader.map, a .. b - 1) /\ loader.map[b] \in Entry
            /\ regions' = IF loader.map[b].type # 1 THEN Append(regions, loader.map[b])
                          ELSE regions
        BY <1>3, <1>7, <2>2, <3>1, <4>1
      <4> HIDE DEF a, b
      <4>3. Reserves(regions', loader.map, a .. b)
        BY <1>3, <1>7, <4>1, <4>2, ReservesMore
      <4> QED
        BY <4>1, <4>3
    <3>3. regions' \in Seq(Entry)
      BY <1>3, <1>7, <3>1
    <3> QED
      BY <1>1, <1>3, <1>7, <2>1, <2>2, <3>2, <3>3
         DEF Walking, Delivering, count
  <2>3. CASE loader.magic = MULTIBOOT2_MAGIC
    <3>1. /\ entry[1] = loader.entries[cur + 1] /\ loader.entries[cur + 1] \in Entry
          /\ regions' = IF loader.entries[cur + 1].type # 1
                        THEN Append(regions, loader.entries[cur + 1]) ELSE regions
      BY <1>1, <1>2, <1>3, <1>6, <1>7, <2>1, <2>3
    <3>2. Reserves(regions', loader.entries, 1 .. cur')
      BY <1>2, <1>3, <1>4, <1>7, <2>1, <2>3, <3>1, ReservesMore, cur + 1 - 1 = cur
    <3>3. regions' \in Seq(Entry)
      BY <1>3, <1>7, <3>1
    <3> QED
      BY <1>1, <1>3, <1>4, <1>7, <2>1, <2>3, <3>2, <3>3
         DEF Walking, Delivering, TagType, Word, count
  <2> QED
    BY <1>3, <1>7, <2>2, <2>3
<1>8. ASSUME Aligned, MemoryAround, stage' = "vmmngr"
      PROVE  MapDelivered'
  <2>1. cur = count /\ stage = "map" /\ UNCHANGED <<cur, regions>>
    <3>1. entry = <<>>
      BY <1>1, <1>8
    <3>2. ~(cur < count)
      <4>1. \A e : <<e>> # <<>>
        OBVIOUS
      <4> QED
        BY <1>3, <1>5, <1>6, <1>8, <3>1, <4>1
    <3> QED
      BY <1>1, <1>2, <1>3, <1>8, <3>1, <3>2
  <2>2. CASE loader.magic = MULTIBOOT_MAGIC
    <3>1. count > 0 /\ Reserves(regions, loader.map, 2 .. count + 1)
      BY <1>3, <1>8, <2>1, <2>2
    <3>2. loader.map[1].type = 1 /\ loader.map[count + 1].type = 1
      BY <1>2, <1>8, <2>2, StartupAssumption DEF MemoryAround, WellFormed, count
    <3>3. {i \in 2 .. count + 1 : loader.map[i].type # 1}
            = {i \in 1 .. count : loader.map[i].type # 1}
      BY <1>2, <3>1, <3>2
    <3>4. Reserves(regions, loader.map, 1 .. count)
      BY <3>1, <3>3, ReservesElsewhere
    <3>5. \A i \in 1 .. count : loader.map[i] = loader.entries[i]
      BY <1>2, <2>2, StartupAssumption DEF WellFormed
    <3>6. Reserves(regions, loader.entries, 1 .. count)
      BY <3>4, <3>5, ReservesSame
    <3> QED
      BY <1>1, <1>2, <2>1, <3>6 DEF MapDelivered
  <2>3. CASE loader.magic = MULTIBOOT2_MAGIC
    <3>1. Reserves(regions, loader.entries, 1 .. count)
      BY <1>3, <1>4, <1>8, <2>1, <2>3
    <3> QED
      BY <1>1, <1>2, <1>4, <2>1, <2>3, <3>1 DEF MapDelivered
  <2> QED
    BY <1>3, <1>8, <2>2, <2>3
<1>9. CASE stage' = "panic"
  BY <1>1, <1>2, <1>9 DEF MapInv, Walking, Delivering, MapDelivered
<1>10. CASE stage' = "map"
  <2>1. MapDelivered'
    BY <1>10 DEF MapDelivered
  <2> QED
    BY <1>1, <1>2, <1>7, <1>10, <2>1 DEF MapInv
<1>11. CASE stage' = "vmmngr"
  <2>1. MapDelivered'
    BY <1>2, <1>8, <1>11 DEF MapDelivered
  <2>2. Walking' /\ Delivering'
    BY <1>11 DEF Walking, Delivering
  <2> QED
    BY <1>1, <1>2, <2>1, <2>2 DEF MapInv
<1> QED
  BY <1>1, <1>9, <1>10, <1>11

(* Behind the memory map.                                                  *)
LEMMA LateMapInv ==
  ASSUME MapInv,
         \/ MapFaults \/ MemoryManager \/ DeviceListInit \/ AcpiTables \/ UseDevices
         \/ UNCHANGED startupVars
  PROVE  MapInv'
<1>1. UNCHANGED <<loader, cur, regions>>
  BY DEF MapFaults, MemoryManager, DeviceListInit, AcpiTables, UseDevices, bootVars,
         startupVars
<1>2. \/ UNCHANGED <<stage, tag, wanted, mapTag>>
      \/ stage' \in {"panic", "fault"}
      \/ /\ stage \in {"vmmngr", "kspace", "devices", "acpi"}
         /\ stage' \in {"kspace", "devices", "acpi", "running"}
  BY DEF MapFaults, MemoryManager, DeviceListInit, AcpiTables, UseDevices, bootVars,
         startupVars, Panic
<1>3. /\ Aligned' = Aligned /\ MemoryAround' = MemoryAround
      /\ loader' \in Loaders
  BY <1>1 DEF Aligned, MemoryAround, MapInv
<1>4. CASE UNCHANGED <<stage, tag, wanted, mapTag>>
  BY <1>1, <1>3, <1>4 DEF MapInv, Walking, Delivering, MapDelivered, TagType, Word
<1>5. CASE stage' \in {"panic", "fault"}
  BY <1>3, <1>5 DEF MapInv, Walking, Delivering, MapDelivered
<1>6. CASE /\ stage \in {"vmmngr", "kspace", "devices", "acpi"}
           /\ stage' \in {"kspace", "devices", "acpi", "running"}
  BY <1>1, <1>3, <1>6 DEF MapInv, Walking, Delivering, MapDelivered
<1> QED
  BY <1>2, <1>4, <1>5, <1>6

LEMMA NextMapInv == MapInv /\ [StartupNext]_startupVars => MapInv'
  BY EarlyMapInv, FindNextMapInv, MapEntryMapInv, LateMapInv
     DEF StartupNext, Boot, AtRest

(* When the memory manager starts, the block allocator has been given the  *)
(* reserved entries of the loader's memory map, all of them, in their      *)
(* order, and no others: for every loader that keeps to its format, with   *)
(* memory before and behind a multiboot 1 map and a tag where the walk     *)
(* over the tags of multiboot 2 begins.                                    *)
THEOREM MapSafe == StartupSpec => []MapDelivered
<1>1. MapInv => MapDelivered
  BY DEF MapInv
<1> QED
  BY <1>1, InitMapInv, NextMapInv, PTL DEF StartupSpec

-----------------------------------------------------------------------------
(* The devices.  A set of numbers that is not empty has a least element.   *)
LEMMA NatLeast ==
  ASSUME NEW T, T \subseteq Nat, T # {}
  PROVE  \E x \in T : \A y \in T : x <= y
<1> DEFINE R == OpToRel(<, Nat)
<1>1. IsWellFoundedOn(R, Nat)
  BY NatLessThanWellFounded
<1> HIDE DEF R
<1>2. PICK x \in T : \A y \in T : ~(<<y, x>> \in R)
  BY <1>1, WFMin
<1>3. \A y \in T : ~(y < x)
  BY <1>2 DEF R, OpToRel
<1> QED
  BY <1>2, <1>3

(* strlen returns the place of the terminator, ...                         *)
LEMMA StrlenIs ==
  ASSUME NEW s \in Seq(Nat), NEW n \in 1 .. Len(s), s[n] = NUL,
         \A i \in 1 .. n - 1 : s[i] # NUL
  PROVE  strlen(s) = n
<1> DEFINE I == {i \in 1 .. Len(s) : s[i] = NUL}
<1>1. strlen(s) = IF I # {} THEN Min(I) ELSE 0
  BY DEF strlen, SelectInSeq
<1>2. n \in I /\ \A i \in I : i \in Int /\ n <= i
  OBVIOUS
<1> HIDE DEF I
<1>3. Min(I) = n
  <2>1. \A x \in I : (\A y \in I : x <= y) => x = n
    BY <1>2
  <2> QED
    BY <1>2, <2>1 DEF Min
<1> QED
  BY <1>1, <1>2, <1>3

(* ... which every name has.                                               *)
LEMMA NameEnds ==
  ASSUME NEW name \in Names
  PROVE  /\ name \in Seq(Nat) /\ strlen(name) \in 1 .. Len(name)
         /\ name[strlen(name)] = NUL
         /\ \A i \in 1 .. strlen(name) - 1 : name[i] # NUL
<1> DEFINE I == {i \in 1 .. Len(name) : name[i] = NUL}
<1>1. name \in Seq(Nat) /\ strlen(name) # 0
  BY DeviceAssumption
<1>2. strlen(name) = IF I # {} THEN Min(I) ELSE 0
  BY DEF strlen, SelectInSeq
<1>3. I \subseteq Nat /\ I # {}
  BY <1>1, <1>2
<1>4. PICK n \in I : \A i \in I : n <= i
  BY <1>3, NatLeast
<1>5. n \in 1 .. Len(name) /\ name[n] = NUL /\ \A i \in 1 .. n - 1 : name[i] # NUL
  BY <1>1, <1>4
<1>6. strlen(name) = n
  BY <1>1, <1>5, StrlenIs
<1> QED
  BY <1>1, <1>5, <1>6

LEMMA SeqsEqual ==
  ASSUME NEW s \in Seq(Nat), NEW t \in Seq(Nat), Len(s) = Len(t),
         \A i \in 1 .. Len(s) : s[i] = t[i]
  PROVE  s = t
  OBVIOUS

LEMMA StringOfIs == \A s : StringOf(s) = SubSeq(s, 1, strlen(s) - 1)
  BY DEF StringOf, strlen

(* A name that is copied with its terminator arrives.                      *)
LEMMA NameCopied ==
  ASSUME NEW dst \in [1 .. DEVICE_MAXPATH -> Nat], NEW name \in Names, NEW bytes \in Nat
  PROVE  LET copy == strncpy(dst, name, bytes)
         IN /\ copy \in [1 .. DEVICE_MAXPATH -> Nat]
            /\ strlen(name) <= bytes /\ strlen(name) <= DEVICE_MAXPATH =>
                 StringOf(copy) = StringOf(name)
<1> DEFINE copy == strncpy(dst, name, bytes)
           n == strlen(name)
           text == SubSeq(name, 1, n - 1)
<1>1. /\ name \in Seq(Nat) /\ n \in 1 .. Len(name) /\ name[n] = NUL
      /\ \A i \in 1 .. n - 1 : name[i] # NUL
  BY NameEnds
<1>2. DEVICE_MAXPATH \in Nat
  BY DeviceAssumption
<1>3. copy = [k \in 1 .. DEVICE_MAXPATH |->
                IF k > bytes THEN dst[k] ELSE IF k <= Len(text) THEN text[k] ELSE NUL]
  BY StringOfIs DEF strncpy
<1> HIDE DEF n, copy
<1>4. text \in Seq(Nat) /\ Len(text) = n - 1 /\ \A k \in 1 .. n - 1 : text[k] = name[k]
  BY <1>1
<1> HIDE DEF text
<1>5. copy \in [1 .. DEVICE_MAXPATH -> Nat]
  <2>1. ASSUME NEW k \in 1 .. DEVICE_MAXPATH
        PROVE  (IF k > bytes THEN dst[k] ELSE IF k <= Len(text) THEN text[k] ELSE NUL) \in Nat
    <3>1. k <= Len(text) => text[k] \in Nat
      BY <1>1, <1>4
    <3> QED
      BY <3>1 DEF NUL
  <2> QED
    BY <1>3, <2>1
<1>6. ASSUME n <= bytes, n <= DEVICE_MAXPATH
      PROVE  StringOf(copy) = StringOf(name)
  <2>1. copy \in Seq(Nat) /\ Len(copy) = DEVICE_MAXPATH
    BY <1>2, <1>5
  <2>2. copy[n] = NUL /\ \A i \in 1 .. n - 1 : copy[i] = name[i]
    BY <1>1, <1>2, <1>3, <1>4, <1>6
  <2>3. strlen(copy) = n
    <3>1. n \in 1 .. Len(copy)
      BY <1>1, <1>6, <2>1
    <3>2. \A i \in 1 .. n - 1 : copy[i] # NUL
      BY <1>1, <2>2
    <3> QED
      BY <2>1, <2>2, <3>1, <3>2, StrlenIs
  <2>4. SubSeq(copy, 1, n - 1) = SubSeq(name, 1, n - 1)
    <3>1. /\ SubSeq(copy, 1, n - 1) \in Seq(Nat) /\ Len(SubSeq(copy, 1, n - 1)) = n - 1
          /\ \A i \in 1 .. n - 1 : SubSeq(copy, 1, n - 1)[i] = copy[i]
      BY <1>1, <1>6, <2>1
    <3>2. /\ SubSeq(name, 1, n - 1) \in Seq(Nat) /\ Len(SubSeq(name, 1, n - 1)) = n - 1
          /\ \A i \in 1 .. n - 1 : SubSeq(name, 1, n - 1)[i] = name[i]
      BY <1>1
    <3> QED
      BY <2>2, <3>1, <3>2, SeqsEqual
  <2> QED
    BY <2>3, <2>4, StringOfIs DEF n
<1> QED
  BY <1>5, <1>6 DEF copy, n

(* The table has an entry for each device that is registered, and no       *)
(* others, and DevicesKept, said of one device.                            *)
Tabled ==
  /\ char_devices \in
       [Majors -> [allocated : BOOLEAN, name : [1 .. DEVICE_MAXPATH -> Nat],
                   fns : Drivers \union {Tty0, Unset, Damaged}]]
  /\ registered \in
       Seq([major : Nat, name : Names, ops : Drivers \union {Tty0}])
  /\ \A m \in Majors : char_devices[m].allocated =>
       \E r \in DOMAIN registered : registered[r].major = m

Apart == \A r, q \in DOMAIN registered : registered[r].major = registered[q].major => r = q

EntryKept(device, entry) ==
  /\ entry.allocated
  /\ strlen(device.name) < DEVICE_MAXPATH =>
       StringOf(entry.name) = StringOf(device.name)
  /\ ~Overlong(device.name) => entry.fns = device.ops

Kept(r) ==
  registered[r].major \in Majors =>
    /\ EntryKept(registered[r], char_devices[registered[r].major])
    /\ /\ ~Overlong(registered[r].name)
       /\ "driver" \in DOMAIN result /\ result.major = registered[r].major
       => result.driver = registered[r].ops.id

DeviceInv == Tabled /\ Apart /\ \A r \in DOMAIN registered : Kept(r)

(* A registration that succeeds puts one device behind the others.         *)
LEMMA OneMore ==
  ASSUME Tabled, NEW m \in Nat, NEW name \in Names, NEW ops \in Drivers \union {Tty0},
         Succeeds(m, name, ops), Apart, \A r \in DOMAIN registered : registered[r].major # m
  PROVE  /\ registered' \in Seq([major : Nat, name : Names, ops : Drivers \union {Tty0}])
         /\ Apart'
         /\ \A r \in DOMAIN registered' :
              \/ r \in DOMAIN registered /\ registered'[r] = registered[r]
              \/ registered'[r] = [major |-> m, name |-> name, ops |-> ops]
         /\ \E r \in DOMAIN registered' : registered'[r].major = m
         /\ \A r \in DOMAIN registered :
              r \in DOMAIN registered' /\ registered'[r] = registered[r]
         /\ "driver" \notin DOMAIN result'
<1> DEFINE device == [major |-> m, name |-> name, ops |-> ops]
           Device == [major : Nat, name : Names, ops : Drivers \union {Tty0}]
<1>1. registered \in Seq(Device) /\ device \in Device /\ device.major = m
  BY DEF Tabled
<1>2. registered' = Append(registered, device) /\ "driver" \notin DOMAIN result'
  BY DEF Succeeds
<1> HIDE DEF device, Device
<1>3. /\ registered' \in Seq(Device) /\ Len(registered) \in Nat
      /\ DOMAIN registered = 1 .. Len(registered)
      /\ DOMAIN registered' = 1 .. Len(registered) + 1
      /\ \A r \in DOMAIN registered : registered'[r] = registered[r]
      /\ registered'[Len(registered) + 1] = device
  BY <1>1, <1>2
<1>4. \A r \in DOMAIN registered' :
        \/ r \in DOMAIN registered /\ registered'[r] = registered[r]
        \/ r = Len(registered) + 1 /\ registered'[r] = device
  BY <1>3
<1>5. Apart'
  BY <1>1, <1>4 DEF Apart
<1>6. Len(registered) + 1 \in DOMAIN registered' /\ DOMAIN registered \subseteq DOMAIN registered'
  BY <1>3
<1> QED
  BY <1>1, <1>2, <1>3, <1>4, <1>5, <1>6 DEF Device, device

(* The entry of a device that is registered.                               *)
LEMMA FillDeviceInv ==
  ASSUME DeviceInv, NEW m \in Majors, ~char_devices[m].allocated,
         NEW name \in Names, NEW ops \in Drivers \union {Tty0}, NEW bytes \in Nat,
         strlen(name) < DEVICE_MAXPATH => strlen(name) <= bytes,
         ~Overlong(name) => bytes <= DEVICE_MAXPATH + 1,
         Fill(m, name, ops, bytes)
  PROVE  DeviceInv'
<1> DEFINE old == char_devices[m]
           new == Named([old EXCEPT !.allocated = TRUE, !.fns = ops], name, bytes)
           device == [major |-> m, name |-> name, ops |-> ops]
<1>1. /\ m \in Nat /\ DEVICE_MAXPATH \in Nat /\ strlen(name) \in Nat
  <2>1. strlen(name) \in 1 .. Len(name) /\ name \in Seq(Nat)
    BY NameEnds
  <2> QED
    BY <2>1, DeviceAssumption DEF Majors
<1>2. /\ Tabled /\ Apart /\ \A r \in DOMAIN registered : Kept(r)
  BY DEF DeviceInv
<1>3. \A r \in DOMAIN registered : registered[r].major # m
  BY <1>2 DEF Kept, EntryKept
<1>4. /\ Succeeds(m, name, ops) /\ char_devices' = [char_devices EXCEPT ![m] = new]
  BY DEF Fill
<1>5. /\ old \in [allocated : BOOLEAN, name : [1 .. DEVICE_MAXPATH -> Nat],
                  fns : Drivers \union {Tty0, Unset, Damaged}]
  BY <1>2 DEF Tabled
<1>6. /\ new.allocated /\ new.name = strncpy(old.name, name, bytes)
      /\ new.fns = IF bytes > DEVICE_MAXPATH + 1 THEN Damaged ELSE ops
      /\ new = [allocated |-> new.allocated, name |-> new.name, fns |-> new.fns]
  <2> DEFINE taken == [old EXCEPT !.allocated = TRUE, !.fns = ops]
             fns == IF bytes > DEVICE_MAXPATH + 1 THEN Damaged ELSE ops
  <2> HIDE DEF old
  <2>1. taken = [allocated |-> TRUE, name |-> old.name, fns |-> ops]
    <3> DEFINE yes == TRUE
               marked == [old EXCEPT !.allocated = yes]
    <3> HIDE DEF yes
    <3>1. marked = [allocated |-> yes, name |-> old.name, fns |-> old.fns]
      BY <1>5
    <3> HIDE DEF marked
    <3>2. [marked EXCEPT !.fns = ops] = [allocated |-> yes, name |-> old.name, fns |-> ops]
      BY <3>1
    <3> QED
      BY <3>2 DEF marked, yes, taken
  <2>2. new = [taken EXCEPT !.name = strncpy(@, name, bytes),
                            !.fns = IF bytes > DEVICE_MAXPATH + 1 THEN Damaged ELSE @]
    BY DEF Named, old
  <2> HIDE DEF new, taken
  <2>3. new = [allocated |-> TRUE, name |-> strncpy(old.name, name, bytes), fns |-> fns]
    BY <2>1, <2>2
  <2> QED
    BY <2>3
<1> HIDE DEF new, old, device
<1>7. /\ new.name \in [1 .. DEVICE_MAXPATH -> Nat]
      /\ strlen(name) <= bytes /\ strlen(name) <= DEVICE_MAXPATH =>
           StringOf(new.name) = StringOf(name)
  BY <1>5, <1>6, NameCopied
<1>8. new \in [allocated : BOOLEAN, name : [1 .. DEVICE_MAXPATH -> Nat],
               fns : Drivers \union {Tty0, Unset, Damaged}]
  BY <1>6, <1>7
<1>9. EntryKept(device, new)
  BY <1>1, <1>6, <1>7 DEF EntryKept, device, Overlong
<1>10. /\ registered' \in Seq([major : Nat, name : Names, ops : Drivers \union {Tty0}])
       /\ Apart'
       /\ \A r \in DOMAIN registered' :
            \/ r \in DOMAIN registered /\ registered'[r] = registered[r]
            \/ registered'[r] = device
       /\ \E r \in DOMAIN registered' : registered'[r].major = m
       /\ \A r \in DOMAIN registered :
            r \in DOMAIN registered' /\ registered'[r] = registered[r]
       /\ "driver" \notin DOMAIN result'
  BY <1>1, <1>2, <1>3, <1>4, OneMore DEF device
<1>11. /\ char_devices'[m] = new
       /\ \A k \in Majors : k # m => char_devices'[k] = char_devices[k]
       /\ char_devices' \in
            [Majors -> [allocated : BOOLEAN, name : [1 .. DEVICE_MAXPATH -> Nat],
                        fns : Drivers \union {Tty0, Unset, Damaged}]]
  BY <1>2, <1>4, <1>8 DEF Tabled
<1>12. Tabled'
  <2>1. ASSUME NEW k \in Majors, char_devices'[k].allocated
        PROVE  \E r \in DOMAIN registered' : registered'[r].major = k
    <3>1. CASE k = m
      BY <1>10, <3>1
    <3>2. CASE k # m
      <4>1. PICK r \in DOMAIN registered : registered[r].major = k
        BY <1>2, <1>11, <2>1, <3>2 DEF Tabled
      <4> QED
        BY <1>10, <4>1
    <3> QED
      BY <3>1, <3>2
  <2> QED
    BY <1>10, <1>11, <2>1 DEF Tabled
<1>13. ASSUME NEW r \in DOMAIN registered'
       PROVE  Kept(r)'
  <2>1. CASE r \in DOMAIN registered /\ registered'[r] = registered[r]
    <3>1. registered[r].major # m /\ Kept(r)
      BY <1>2, <1>3, <2>1
    <3> QED
      BY <1>10, <1>11, <2>1, <3>1 DEF Kept
  <2>2. CASE registered'[r] = device
    BY <1>9, <1>10, <1>11, <2>2 DEF Kept, device
  <2> QED
    BY <1>10, <1>13, <2>1, <2>2
<1> QED
  BY <1>10, <1>12, <1>13 DEF DeviceInv

(* A number behind the table, which no other device has.                   *)
LEMMA BehindDeviceInv ==
  ASSUME DeviceInv, NEW m \in Int, m >= DEVICE_MAX,
         NEW name \in Names, NEW ops \in Drivers \union {Tty0},
         Succeeds(m, name, ops), UNCHANGED char_devices,
         \A r \in DOMAIN registered : registered[r].major # m
  PROVE  DeviceInv'
<1> DEFINE device == [major |-> m, name |-> name, ops |-> ops]
<1>1. m \in Nat /\ m \notin Majors /\ Tabled /\ Apart
  BY DeviceAssumption DEF Majors, DeviceInv
<1>2. /\ registered' \in Seq([major : Nat, name : Names, ops : Drivers \union {Tty0}])
      /\ Apart'
      /\ \A r \in DOMAIN registered' :
           \/ r \in DOMAIN registered /\ registered'[r] = registered[r]
           \/ registered'[r] = device
      /\ \E r \in DOMAIN registered' : registered'[r].major = m
      /\ \A r \in DOMAIN registered :
           r \in DOMAIN registered' /\ registered'[r] = registered[r]
      /\ "driver" \notin DOMAIN result'
  BY <1>1, OneMore DEF device
<1>3. Tabled'
  <2>1. ASSUME NEW k \in Majors, char_devices'[k].allocated
        PROVE  \E r \in DOMAIN registered' : registered'[r].major = k
    <3>1. PICK r \in DOMAIN registered : registered[r].major = k
      BY <2>1 DEF DeviceInv, Tabled
    <3> QED
      BY <1>2, <3>1
  <2> QED
    BY <1>2, <2>1 DEF DeviceInv, Tabled
<1>4. ASSUME NEW r \in DOMAIN registered'
      PROVE  Kept(r)'
  <2>1. CASE r \in DOMAIN registered /\ registered'[r] = registered[r]
    BY <1>2, <2>1 DEF DeviceInv, Kept
  <2>2. CASE registered'[r] = device
    BY <1>1, <2>2 DEF Kept
  <2> QED
    BY <1>2, <1>4, <2>1, <2>2
<1> QED
  BY <1>2, <1>3, <1>4 DEF DeviceInv

LEMMA RefusedDeviceInv ==
  ASSUME DeviceInv, NEW func, NEW errno, Refused(func, errno)
  PROVE  DeviceInv'
<1>1. UNCHANGED <<char_devices, registered>> /\ "driver" \notin DOMAIN result'
  BY DEF Refused
<1> QED
  BY <1>1 DEF DeviceInv, Tabled, Apart, Kept

(* A driver runs: the one of the entry, unless there is no entry.          *)
LEMMA DriveDeviceInv ==
  ASSUME DeviceInv, NEW func, NEW m \in Int, NEW driver, Drive(func, m, driver),
         m \in Majors => driver = char_devices[m].fns
  PROVE  DeviceInv'
<1>1. /\ UNCHANGED <<char_devices, registered>>
      /\ result' = [call |-> func, major |-> m, driver |-> driver.id]
  BY DEF Drive
<1>2. ASSUME NEW r \in DOMAIN registered
      PROVE  Kept(r)'
  <2>1. Kept(r)
    BY DEF DeviceInv
  <2>2. ASSUME registered[r].major \in Majors, ~Overlong(registered[r].name),
               result'.major = registered[r].major
        PROVE  result'.driver = registered[r].ops.id
    <3>1. m = registered[r].major /\ driver = char_devices[m].fns
      BY <1>1, <2>2
    <3>2. char_devices[m].fns = registered[r].ops
      BY <2>1, <2>2, <3>1 DEF Kept, EntryKept
    <3> QED
      BY <1>1, <3>1, <3>2
  <2> QED
    BY <1>1, <2>1, <2>2 DEF Kept
<1> QED
  BY <1>1, <1>2 DEF DeviceInv, Tabled, Apart

LEMMA RegisterDeviceInv ==
  ASSUME DeviceInv, NEW major \in Int, NEW name \in Names,
         NEW ops \in Drivers \union {Tty0}, register_chrdev(major, name, ops)
  PROVE  DeviceInv'
<1>1. /\ DEVICE_MAX \in Nat /\ DEVICE_MAXPATH \in Nat /\ strlen(name) \in Nat
      /\ DEVICE_MAX > 0 /\ DEVICE_MAX <= DEVICE_MAXPATH + 2
  <2>1. strlen(name) \in 1 .. Len(name) /\ name \in Seq(Nat)
    BY NameEnds
  <2> QED
    BY <2>1, DeviceAssumption
<1>2. CASE RegisterAny(name, ops)
  <2> DEFINE free == {m \in Majors : ~char_devices[m].allocated}
             first == CHOOSE m \in free : \A k \in free : m <= k
  <2>1. CASE free = {}
    BY <1>2, <2>1, RefusedDeviceInv DEF RegisterAny
  <2>2. CASE free # {}
    <3>1. free \subseteq Nat
      BY <1>1 DEF Majors
    <3>2. first \in free
      <4>1. \E m \in free : \A k \in free : m <= k
        BY <2>2, <3>1, NatLeast
      <4> HIDE DEF free
      <4> QED
        BY <4>1
    <3>3. Fill(first, name, ops, AutoBytes(name))
      BY <1>2, <2>2 DEF RegisterAny
    <3>4. first \in Majors /\ ~char_devices[first].allocated
      BY <3>2
    <3> HIDE DEF first
    <3>5. /\ AutoBytes(name) \in Nat
          /\ strlen(name) < DEVICE_MAXPATH => strlen(name) <= AutoBytes(name)
          /\ ~Overlong(name) => AutoBytes(name) <= DEVICE_MAXPATH + 1
      BY <1>1 DEF AutoBytes, Overlong
    <3> QED
      BY <3>3, <3>4, <3>5, FillDeviceInv
  <2> QED
    BY <2>1, <2>2
<1>3. CASE RegisterGiven(major, name, ops)
  <2>1. CASE major \in Majors /\ ~char_devices[major].allocated
    <3>1. Fill(major, name, ops, GivenBytes(name))
      BY <1>3, <2>1 DEF RegisterGiven
    <3>2. /\ GivenBytes(name) \in Nat
          /\ strlen(name) < DEVICE_MAXPATH => strlen(name) <= GivenBytes(name)
          /\ ~Overlong(name) => GivenBytes(name) <= DEVICE_MAXPATH + 1
      BY <1>1 DEF GivenBytes, Overlong
    <3> QED
      BY <2>1, <3>1, <3>2, FillDeviceInv
  <2>2. CASE ~(major \in Majors /\ ~char_devices[major].allocated)
    BY <1>3, <2>2, RefusedDeviceInv, BehindDeviceInv DEF RegisterGiven
  <2> QED
    BY <2>1, <2>2
<1>4. CASE Refused("register", "ERANGE")
  BY <1>4, RefusedDeviceInv
<1> QED
  BY <1>2, <1>3, <1>4 DEF register_chrdev

LEMMA TransferDeviceInv ==
  ASSUME DeviceInv, NEW major \in Int, chrdev_read(major) \/ chrdev_write(major)
  PROVE  DeviceInv'
<1>1. \E func \in {"read", "write"} :
        \/ \E errno \in {"ENOSYS", "ENODEV"} : Refused(func, errno)
        \/ major \notin Majors /\ Drive(func, major, Damaged)
        \/ major \in Majors /\ Drive(func, major, char_devices[major].fns)
  BY DEF chrdev_read, chrdev_write, Transfer
<1> QED
  BY <1>1, RefusedDeviceInv, DriveDeviceInv

LEMMA InitDeviceInv == StartupInit => DeviceInv
<1> SUFFICES ASSUME StartupInit PROVE DeviceInv
  OBVIOUS
<1>1. /\ char_devices = [m \in Majors |-> Unused] /\ registered = <<>>
  BY DEF StartupInit, DeviceInit
<1>2. Unused \in [allocated : BOOLEAN, name : [1 .. DEVICE_MAXPATH -> Nat],
                  fns : Drivers \union {Tty0, Unset, Damaged}]
  BY DEF Unused, NUL
<1>3. ~Unused.allocated
  BY DEF Unused
<1> QED
  BY <1>1, <1>2, <1>3 DEF DeviceInv, Tabled, Apart

LEMMA NextDeviceInv == DeviceInv /\ [StartupNext]_startupVars => DeviceInv'
<1> SUFFICES ASSUME DeviceInv, [StartupNext]_startupVars PROVE DeviceInv'
  OBVIOUS
<1>1. CASE TerminalInitialize
  <2>1. TtyName \in Names
    BY StartupAssumption DEF TtyName
  <2> QED
    BY <1>1, <2>1, RegisterDeviceInv DEF TerminalInitialize
<1>2. CASE UseDevices
  <2>1. PICK major \in -1 .. DEVICE_MAX :
          \/ \E name \in Names, ops \in Drivers : register_chrdev(major, name, ops)
          \/ chrdev_read(major) \/ chrdev_write(major)
    BY <1>2 DEF UseDevices
  <2>2. major \in Int
    BY <2>1, DeviceAssumption
  <2> QED
    BY <2>1, <2>2, RegisterDeviceInv, TransferDeviceInv
<1>3. CASE UNCHANGED <<char_devices, registered, result>>
  BY <1>3 DEF DeviceInv, Tabled, Apart, Kept
<1>4. \/ TerminalInitialize \/ UseDevices
      \/ UNCHANGED <<char_devices, registered, result>>
  BY DEF StartupNext, Boot, AtRest, startupVars, deviceVars, NoDevices, Multiboot1,
         Multiboot2, NoMultiboot, FindEnds, FindFinds, FindNext, CpuInit,
         MemoryInitialize, MapFaults, MapEntry, MemoryManager, DeviceListInit,
         device_list_init, AcpiTables
<1> QED
  BY <1>1, <1>2, <1>3, <1>4

(* A device that is registered keeps its number, its entry, its name and   *)
(* its driver, whatever is registered and called after it: for every size  *)
(* of the table and of names.                                              *)
THEOREM DevicesSafe == StartupSpec => []DevicesKept
<1>1. DeviceInv => DevicesKept
  BY DEF DeviceInv, DevicesKept, Apart, Kept, EntryKept
<1> QED
  BY <1>1, InitDeviceInv, NextDeviceInv, PTL DEF StartupSpec

-----------------------------------------------------------------------------
(* The whole.  A kernel that uses the library starts as one that does not, *)
(* ends its start-up under the same fairness, and so has every property of *)
(* StartupSpec: no call of the library reaches the state of the start-up   *)
(* or of the devices.                                                      *)
THEOREM KernelStarts == KernelSpec => StartupSpec
<1>1. KernelInit => StartupInit
  BY DEF KernelInit
<1>2. [KernelNext]_kernelVars => [StartupNext]_startupVars
  BY DEF KernelNext, UseLibrary, kernelVars
<1> QED
  BY <1>1, <1>2, PTL DEF KernelSpec, StartupSpec
=============================================================================
