----------------------------- MODULE Interrupts -----------------------------
(***************************************************************************)
(* Interrupts from the start of the kernel to the command line: cpu_init   *)
(* (arch/i386/cpu/i386_cpu.c), the two 8259 interrupt controllers          *)
(* (pic-8259/), the timer (pit/), the handlers of the interrupt lines, and *)
(* the vector that ps2_keyb_initialize sets while interrupts are enabled.  *)
(*                                                                         *)
(* All gates are interrupt gates and no handler enables interrupts before  *)
(* its last instruction, so handlers do not nest.                          *)
(***************************************************************************)
EXTENDS Integers, FiniteSets

CONSTANTS
  Lines,          \* the interrupt lines that devices are connected to
  Noisy,          \* those whose request may vanish before it is acknowledged
  FirmwareMasks,  \* what the firmware may leave in the mask registers
  TickSpace       \* values of pit_tick_count and of spurious (2^32)

Line == 0 .. 15
Master == 0 .. 7
Slave == 8 .. 15
Cascade == 2      \* the master's line from the slave

ASSUME LineAssumption ==
  /\ Lines \subseteq Line \ {Cascade}
  /\ Noisy \subseteq Lines
  /\ FirmwareMasks \subseteq SUBSET Line
  /\ TickSpace \in Nat \ {0}

VARIABLES
  irr, isr, imr,   \* both 8259s: requests, in service, masked
  keyboard,        \* does the keyboard hold a byte nobody has read?
  enabled,         \* the processor's interrupt flag
  idt,             \* the gates of the vectors 0x20 to 0x2f
  pc,              \* where kernel_main and what it calls are
  todo,            \* fields of a gate still to be written
  handler,         \* the handler that runs, or None
  pit_tick_count, spurious,
  early            \* history: a key was pressed before its vector was set

hardware == <<irr, isr, imr, keyboard>>
counters == <<pit_tick_count, spurious>>
vars == <<hardware, enabled, idt, pc, todo, handler, counters, early>>

None == [line |-> -1, code |-> "none", at |-> "none"]

-----------------------------------------------------------------------------
(* A gate: the attributes with the present bit and the selector, and the   *)
(* two halves of the address.  The kernel's code is smaller than 64 KB, so *)
(* the upper halves of its handlers are the same.                          *)
Gate(code) == [attr |-> "present", lo |-> code, hi |-> "kernel"]
Cleared == [attr |-> "zero", lo |-> "zero", hi |-> "zero"]
Fields == DOMAIN Cleared

(* The code an interrupt reaches: a gate that is not present raises an     *)
(* exception, whose handler stops the machine.                             *)
Target(gate) ==
  IF gate.attr # "present" THEN "segnotpresent"
  ELSE IF gate.hi = "kernel" /\ gate.lo # "zero" THEN gate.lo ELSE "wild"

(* 8259: a request is passed on when it is not masked and nothing of the   *)
(* same or a higher priority is in service; the slave's requests come in   *)
(* at line 2 of the master.                                                *)
Passes(n, chip) == n \notin imr /\ \A m \in isr \intersect chip : m > n
Requesting(n) ==
  /\ n \in irr
  /\ IF n \in Master THEN Passes(n, Master)
     ELSE Passes(n, Slave) /\ Passes(Cascade, Master)

Rank(n) == IF n \in Slave THEN 16 * Cascade + n ELSE 16 * n
Foremost(n) == /\ Requesting(n)
               /\ \A m \in irr : Requesting(m) => Rank(n) <= Rank(m)

(* Non-specific end of interrupt: the highest priority in service.         *)
EOI(service, chip) ==
  {n \in service : n \in chip =>
     \E m \in service \intersect chip : m < n}

-----------------------------------------------------------------------------
Init ==
  /\ irr = {} /\ isr = {} /\ imr \in FirmwareMasks
  /\ keyboard = FALSE
  /\ enabled = FALSE
  /\ idt = [n \in Line |-> Cleared]
  /\ pc = "idt" /\ todo = {}
  /\ handler = None
  /\ pit_tick_count = 0 /\ spurious = 0
  /\ early = FALSE

(* The kernel runs when no handler does.                                   *)
Main(at) == pc = at /\ handler = None

(* Mutant: the loop ends two vectors short.                                *)
IdtInitializeShort ==
  /\ Main("idt")
  /\ idt' = [n \in Line |-> IF n < 14 THEN Gate("default") ELSE Cleared]
  /\ pc' = "pic"
  /\ UNCHANGED <<hardware, enabled, todo, handler, counters, early>>

(* cpu_init: i386_idt_initialize points every vector at the default        *)
(* handler, after cpu_disable ...                                          *)
IdtInitialize ==
  /\ Main("idt")
  /\ idt' = [n \in Line |-> Gate("default")]
  /\ pc' = "pic"
  /\ UNCHANGED <<hardware, enabled, todo, handler, counters, early>>

(* ... i386_pic_initialize resets the controllers, keeps their masks and   *)
(* sets the vectors of the two lines on which spurious interrupts arrive   *)
(* ...                                                                     *)
PicInitialize ==
  /\ Main("pic")
  /\ irr' = {} /\ isr' = {}
  /\ idt' = [idt EXCEPT ![7] = Gate("irq7"), ![15] = Gate("irq15")]
  /\ pc' = "pit"
  /\ UNCHANGED <<imr, keyboard, enabled, todo, handler, counters, early>>

(* ... i386_pit_initialize sets the vector of the timer ...                *)
PitInitialize ==
  /\ Main("pit")
  /\ idt' = [idt EXCEPT ![0] = Gate("pit")]
  /\ pc' = "enable"
  /\ UNCHANGED <<hardware, enabled, todo, handler, counters, early>>

(* ... and interrupts are enabled.                                         *)
CpuEnable ==
  /\ Main("enable")
  /\ enabled' = TRUE
  /\ pc' = "boot"
  /\ UNCHANGED <<hardware, idt, todo, handler, counters, early>>

(* The rest of the start-up, up to cpu_setvector in ps2_keyb_initialize.   *)
(* i386_idt_setvector clears the gate - a memset that the compiler may     *)
(* drop, since all of the gate is written after it -                       *)
SetVector ==
  /\ Main("boot")
  /\ idt' \in {idt, [idt EXCEPT ![1] = Cleared]}
  /\ pc' = "fields" /\ todo' = Fields
  /\ UNCHANGED <<hardware, enabled, handler, counters, early>>

(* and writes its fields, in the order the compiler chooses.               *)
SetField(f) ==
  /\ Main("fields")
  /\ f \in todo
  /\ idt' = [idt EXCEPT ![1][f] = Gate("keyb")[f]]
  /\ todo' = todo \ {f}
  /\ pc' = IF todo' = {} THEN "run" ELSE pc
  /\ UNCHANGED <<hardware, enabled, handler, counters, early>>

-----------------------------------------------------------------------------
(* A device raises its line.  The keyboard does so for a byte, and not for *)
(* another one before that has been read.                                  *)
Raise(n) ==
  /\ n \in Lines \ irr
  /\ n = 1 => ~keyboard
  /\ keyboard' = (keyboard \/ n = 1)
  /\ irr' = irr \union {n}
  /\ early' = (early \/ (n = 1 /\ pc # "run"))
  /\ UNCHANGED <<isr, imr, enabled, idt, pc, todo, handler, counters>>

(* The processor goes through the gate of line n.                          *)
Enter(n) ==
  /\ enabled /\ handler = None
  /\ enabled' = FALSE
  /\ handler' = [line |-> n, code |-> Target(idt[n]), at |-> "body"]
  /\ UNCHANGED <<imr, keyboard, idt, pc, todo, counters, early>>

Accept(n) ==
  /\ Foremost(n)
  /\ Enter(n)
  /\ irr' = irr \ {n}
  /\ isr' = isr \union (IF n \in Slave THEN {n, Cascade} ELSE {n})

(* The request vanishes between the signal to the processor and the        *)
(* acknowledgement: the controller answers with its last line, and puts    *)
(* nothing in service (the master does for the slave).                     *)
AcceptSpurious(n) ==
  /\ n \in Noisy
  /\ Foremost(n)
  /\ Enter(IF n \in Slave THEN 15 ELSE 7)
  /\ irr' = irr \ {n}
  /\ isr' = isr \union (IF n \in Slave THEN {Cascade} ELSE {})

-----------------------------------------------------------------------------
Goto(at) == handler' = [handler EXCEPT !.at = at]
Running(code) == handler.code = code /\ handler.at = "body"

(* Mutant: no end of interrupt.                                            *)
PitHandlerSilent ==
  /\ Running("pit")
  /\ pit_tick_count' = (pit_tick_count + 1) % TickSpace
  /\ Goto("iret")
  /\ UNCHANGED <<hardware, enabled, idt, pc, todo, spurious, early>>
KeybInterruptSilent ==
  /\ Running("keyb")
  /\ keyboard' = FALSE
  /\ Goto("iret")
  /\ UNCHANGED <<irr, isr, imr, enabled, idt, pc, todo, counters, early>>

Count(count) == (count + 1) % TickSpace

PitHandler ==
  /\ Running("pit")
  /\ pit_tick_count' = Count(pit_tick_count)
  /\ Goto("eoi")
  /\ UNCHANGED <<hardware, enabled, idt, pc, todo, spurious, early>>

(* keyb_interrupt reads the byte; what becomes of it is module Keyboard.   *)
KeybInterrupt ==
  /\ Running("keyb")
  /\ keyboard' = FALSE
  /\ Goto("eoi")
  /\ UNCHANGED <<irr, isr, imr, enabled, idt, pc, todo, counters, early>>

(* i386_defaulthandler prints, reads nothing and ends nothing.             *)
DefaultHandler ==
  /\ Running("default")
  /\ Goto("iret")
  /\ UNCHANGED <<hardware, enabled, idt, pc, todo, counters, early>>

(* Mutant: the end of interrupt is sent in any case.                       *)
Irq7Always ==
  /\ Running("irq7")
  /\ Goto("eoi")
  /\ spurious' = IF 7 \in imr THEN spurious ELSE Count(spurious)
  /\ UNCHANGED <<hardware, enabled, idt, pc, todo, pit_tick_count, early>>

(* i386_handler_irq7 and i386_handler_irq15 read the data port, which is   *)
(* the mask register: an interrupt is taken for spurious if its line is    *)
(* not masked.                                                             *)
Irq7 ==
  /\ Running("irq7")
  /\ IF 7 \in imr
     THEN Goto("eoi") /\ UNCHANGED spurious
     ELSE Goto("iret") /\ spurious' = Count(spurious)
  /\ UNCHANGED <<hardware, enabled, idt, pc, todo, pit_tick_count, early>>

Irq15 ==
  /\ Running("irq15")
  /\ IF 15 \in imr
     THEN Goto("both") /\ UNCHANGED spurious
     ELSE Goto("eoi") /\ spurious' = Count(spurious)
  /\ UNCHANGED <<hardware, enabled, idt, pc, todo, pit_tick_count, early>>

(* out 0x20 to the master, or to both.                                     *)
SendEOI ==
  /\ handler.at \in {"eoi", "both"}
  /\ isr' = IF handler.at = "both" THEN EOI(EOI(isr, Master), Slave)
            ELSE EOI(isr, Master)
  /\ Goto("iret")
  /\ UNCHANGED <<irr, imr, keyboard, enabled, idt, pc, todo, counters, early>>

Iret ==
  /\ handler.at = "iret"
  /\ handler' = None
  /\ enabled' = TRUE
  /\ UNCHANGED <<hardware, idt, pc, todo, counters, early>>

(* The exception handler ends in an endless loop with interrupts disabled; *)
(* what happens at an address that is no handler is anybody's guess.       *)
Stopped == handler.code \in {"segnotpresent", "wild"}
Halted == Stopped /\ UNCHANGED vars

(* The endless loop of kernel_main.                                        *)
Prompt == Main("run") /\ UNCHANGED vars

-----------------------------------------------------------------------------
Kernel == \/ IdtInitialize \/ PicInitialize \/ PitInitialize \/ CpuEnable
          \/ SetVector \/ \E f \in Fields : SetField(f)
Handler == \/ PitHandler \/ KeybInterrupt \/ DefaultHandler \/ Irq7 \/ Irq15
           \/ SendEOI \/ Iret
Processor == Handler \/ \E n \in Line : Accept(n) \/ AcceptSpurious(n)

Next == Kernel \/ Processor \/ Halted \/ Prompt \/ \E n \in Lines : Raise(n)

(* The processor runs: it takes interrupts, its handlers return and the    *)
(* kernel goes on.  No device has to raise its line.                       *)
Spec == Init /\ [][Next]_vars /\ WF_vars(Processor) /\ WF_vars(Kernel)

-----------------------------------------------------------------------------
TypeOK ==
  /\ irr \subseteq Lines /\ isr \subseteq Lines \union {Cascade}
  /\ imr \in FirmwareMasks
  /\ {keyboard, enabled, early} \subseteq BOOLEAN
  /\ idt \in [Line -> [attr : {"present", "zero"},
                       lo : {"zero", "default", "irq7", "irq15", "pit", "keyb"},
                       hi : {"kernel", "zero"}]]
  /\ pc \in {"idt", "pic", "pit", "enable", "boot", "fields", "run"}
  /\ todo \subseteq Fields
  /\ handler = None \/
     handler \in [line : Line,
                  code : {"default", "irq7", "irq15", "pit", "keyb",
                          "segnotpresent", "wild"},
                  at : {"body", "eoi", "both", "iret"}]
  /\ {pit_tick_count, spurious} \subseteq 0 .. TickSpace - 1

(* The lines nobody has written a handler for.                             *)
Unserved == {n \in Lines : n \notin {0, 1, 7, 15}}

(* When no handler runs, no line that has a handler is left in service, in *)
(* which it would block itself and the lines behind it: not the timer, not *)
(* the keyboard if no key was pressed before its vector was set, and not   *)
(* the cascade because of line 15.  (The lines 7 and 15 themselves are     *)
(* left in service, since their handlers take real interrupts for spurious *)
(* ones.)                                                                  *)
Released ==
  handler = None =>
    isr \subseteq Unserved \union {7, 15}
                  \union (IF early THEN {1} ELSE {})
                  \union (IF Unserved \intersect Slave = {} THEN {} ELSE {Cascade})

(* An end of interrupt never ends another interrupt than that whose        *)
(* handler sent it, although the command does not say which it means.      *)
(* (A spurious interrupt on a masked line 7 or 15 is taken for a real one, *)
(* and ends whatever a default handler has left in service.)               *)
EoiEndsItsOwn ==
  [][\A n \in isr \ isr' :
       \/ pc = "pic" /\ pc' = "pit"
       \/ n = handler.line
       \/ n = Cascade /\ handler.line \in Slave
       \/ handler.line \in {7, 15} \intersect imr]_vars

(* No interrupt finds a gate that is not complete, unless a key is pressed *)
(* before the vector of the keyboard is set.                               *)
GatesComplete == Stopped => early

(* Whatever is left in service and however often other lines are raised,   *)
(* a request of the timer that is not masked does not stay pending.        *)
TicksTaken ==
  (0 \in irr \ imr /\ pc \notin {"idt", "pic"}) ~> (0 \notin irr \/ Stopped)
=============================================================================
