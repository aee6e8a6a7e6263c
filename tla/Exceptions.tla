----------------------------- MODULE Exceptions -----------------------------
(***************************************************************************)
(* The exception handlers, arch/i386/exception/, and the vectors cpu_init  *)
(* gives them (arch/i386/cpu/i386_cpu.c), on the stack of the kernel.      *)
(*                                                                         *)
(* A handler is the sequence of its instructions, where printing a message *)
(* - push the arguments, call, add to esp - is one.  What matters is what  *)
(* each leaves on the stack, for the processor returns through the words   *)
(* it finds there, and whether it comes back at all.                       *)
(***************************************************************************)
EXTENDS Integers, Sequences

CONSTANTS
  Vectors,    \* exceptions that occur (0 .. 31)
  ErrorCodes, \* what the processor may push with one
  Depth,      \* words on the kernel's stack
  MaxNMI      \* bound: non-maskable interrupts in a behaviour

ASSUME ExceptionAssumption ==
  /\ Vectors \subseteq 0 .. 31 /\ ErrorCodes \subseteq Nat
  /\ Depth \in Nat /\ MaxNMI \in Nat

VARIABLES
  stack,      \* from its top; the program's own words are not shown
  code, ip,   \* the handler that runs and its next instruction;
              \*   or "main", "stopped", "wild", "reset"
  regs,       \* whose values the general registers hold
  set,        \* vectors cpu_init has set
  saved,      \* int_gpfCode and int_pfErrorCode
  shown,      \* the last report that is still on the screen
  nmi,        \* non-maskable interrupts left; are they blocked?
  last,       \* history: the last exception that was handled
  fatal,      \* history: there was one after which the machine must stop
  skewed      \* history: a handler did not take its error code, or left more

vars == <<stack, code, ip, regs, set, saved, shown, nmi, last, fatal, skewed>>

NoNumber == -1
Nothing == [number |-> NoNumber, error |-> 0]

-----------------------------------------------------------------------------
(* Instructions.                                                           *)
pushad == [op |-> "pushad"]
popad == [op |-> "popad"]
iretd == [op |-> "iretd"]
set_disp == [op |-> "set_disp"]          \* i386_exception_set_disp
stop == [op |-> "stop"]                  \* i386_system_stop
print(n) == [op |-> "print", number |-> n]
puts == [op |-> "puts"]                  \* a message without a number
pop(var) == [op |-> "pop", var |-> var]
explain(var) == [op |-> "explain", var |-> var]
push(k) == [op |-> "push", count |-> k]  \* arguments nobody removes

(* Mutants: the registers are left on the stack; the screen is cleared     *)
(* after the report.                                                       *)
ReturnsUnbalanced(n) == <<pushad, print(n), iretd>>
StopsBlank(n) == <<pushad, print(n), set_disp, stop, popad, iretd>>

(* The two forms most handlers have.                                       *)
Returns(n) == <<pushad, print(n), popad, iretd>>
Stops(n) == <<pushad, set_disp, print(n), stop, popad, iretd>>

OverflowReturns == Returns(4)   \* a mutant

i386_defaulthandler == <<pushad, puts, popad, iretd>>
i386_divbyzero == Returns(0)
i386_debugtrap == Returns(1)
i386_breakpoint == Returns(3)
i386_overflow == Stops(4)
i386_bounderror == Returns(5)
i386_badopcode == Stops(6)
i386_deviceerror == Stops(NoNumber)  \* pushes the address of its number
i386_doublefault == Stops(8)
i386_invalidtss == Stops(10)
i386_segnotpresent == Stops(11)
i386_stacksegfault == Stops(12)
i386_fpuexception == Returns(16)
i386_aligncheck == Returns(17)
i386_machinecheck == Stops(18)
i386_simdexception == Stops(19)
i386_virtualizeexception == Returns(20)
i386_securityexception == Stops(NoNumber)  \* its text is the format as well

(* One of four messages says where a non-maskable interrupt came from.     *)
i386_nmi == <<pushad, set_disp, print(2), puts, stop, popad, iretd>>

i386_pagefault ==
  <<pop("int_pfErrorCode"), pushad, set_disp, print(14),
    explain("int_pfErrorCode"), stop, popad, iretd>>

(* i386_stop_system is not the name of the routine that stops the system:  *)
(* it is a label, and the handler goes on, with two arguments of its last  *)
(* message still on the stack.                                             *)
i386_genprotectfault ==
  <<pop("int_gpfCode"), pushad, set_disp, print(13), puts,
    explain("int_gpfCode"), push(2), popad, iretd>>

Text ==
  [default |-> i386_defaulthandler, divbyzero |-> i386_divbyzero,
   debugtrap |-> i386_debugtrap, nmi |-> i386_nmi,
   breakpoint |-> i386_breakpoint, overflow |-> i386_overflow,
   bounderror |-> i386_bounderror, badopcode |-> i386_badopcode,
   deviceerror |-> i386_deviceerror, doublefault |-> i386_doublefault,
   invalidtss |-> i386_invalidtss, segnotpresent |-> i386_segnotpresent,
   stacksegfault |-> i386_stacksegfault,
   genprotectfault |-> i386_genprotectfault, pagefault |-> i386_pagefault,
   fpuexception |-> i386_fpuexception, aligncheck |-> i386_aligncheck,
   machinecheck |-> i386_machinecheck, simdexception |-> i386_simdexception,
   virtualizeexception |-> i386_virtualizeexception,
   securityexception |-> i386_securityexception]

(* The calls of cpu_setvector in cpu_init, in their order.                 *)
VectorTable ==
  << <<0, "divbyzero">>, <<1, "debugtrap">>, <<2, "nmi">>, <<3, "breakpoint">>,
     <<4, "overflow">>, <<5, "bounderror">>, <<6, "badopcode">>,
     <<7, "deviceerror">>, <<8, "doublefault">>, <<10, "invalidtss">>,
     <<11, "segnotpresent">>, <<12, "stacksegfault">>,
     <<13, "genprotectfault">>, <<14, "pagefault">>, <<16, "fpuexception">>,
     <<17, "aligncheck">>, <<18, "machinecheck">>, <<19, "simdexception">>,
     <<20, "virtualizeexception">>, <<30, "securityexception">> >>

(* i386_idt_initialize has pointed all vectors at the default handler.     *)
Gate(v) ==
  LET mine == {k \in 1 .. set : VectorTable[k][1] = v}
  IN IF mine = {} THEN "default"
     ELSE VectorTable[CHOOSE k \in mine : TRUE][2]

(* The exceptions with which the processor pushes an error code.           *)
WithCode == {8, 10, 11, 12, 13, 14, 17, 21, 29, 30}

(* Those after which the kernel does not go on: their handlers call        *)
(* i386_system_stop, or (13) return to a wrong address.  Two handlers do   *)
(* otherwise than their comments say, and Fatal follows what they do: the  *)
(* breakpoint's (3) "will simply halt" (i386_breakpoint.asm:2) but returns *)
(* to the kernel, and the non-maskable interrupt's (2) "will simply        *)
(* continue" after a watchdog timer (i386_nmi.asm:3) but always halts.     *)
Fatal == {2, 4, 6, 7, 8, 10, 11, 12, 13, 14, 18, 19, 30}

-----------------------------------------------------------------------------
Init ==
  /\ stack = <<>> /\ code = "main" /\ ip = 0
  /\ regs = "main"
  /\ set = 0
  /\ saved = [int_gpfCode |-> 0, int_pfErrorCode |-> 0]
  /\ shown = Nothing
  /\ nmi = [left |-> MaxNMI, blocked |-> FALSE]
  /\ last = [vector |-> NoNumber, error |-> 0]
  /\ fatal = FALSE /\ skewed = FALSE

(* cpu_init sets the next vector; what follows it is the rest of the       *)
(* kernel.                                                                 *)
SetVector ==
  /\ code = "main" /\ set < Len(VectorTable)
  /\ set' = set + 1
  /\ UNCHANGED <<stack, code, ip, regs, saved, shown, nmi, last, fatal, skewed>>

Flags == <<"eflags">>
Segment == <<"cs">>
Return == <<"eip", code, ip>>
Error(e) == <<"error", e>>

(* Words go on the stack, or, when it is full, the fault that this raises  *)
(* cannot be taken, nor the double fault, and the processor resets.        *)
Push(words) ==
  IF Len(words \o stack) <= Depth
  THEN stack' = words \o stack
  ELSE stack' = <<>>

Room(words) == Len(words \o stack) <= Depth

(* The processor takes exception v, at the instruction that `code' and     *)
(* `ip' say.                                                               *)
Take(v, e) ==
  LET frame == (IF v \in WithCode THEN <<Error(e)>> ELSE <<>>)
                 \o <<Return, Segment, Flags>>
      handled == Gate(v) # "default"
  IN /\ Push(frame)
     /\ code' = IF Room(frame) THEN Gate(v) ELSE "reset"
     /\ ip' = 1
     /\ last' = IF handled THEN [vector |-> v, error |-> e] ELSE last
     /\ fatal' = (fatal \/ (handled /\ v \in Fatal))
     /\ skewed' = (skewed \/ v = 13 \/ Gate(v) = "aligncheck"
                     \/ (v \in WithCode /\ ~handled))

(* An instruction of the kernel raises an exception.                       *)
Raise(v, e) ==
  /\ code = "main"
  /\ v # 2
  /\ Take(v, e)
  /\ UNCHANGED <<regs, set, saved, shown, nmi>>

(* A non-maskable interrupt, at any instruction of anybody, unless one is  *)
(* being handled.                                                          *)
NonMaskable ==
  /\ code \notin {"wild", "reset"}
  /\ nmi.left > 0 /\ ~nmi.blocked
  /\ nmi' = [left |-> nmi.left - 1, blocked |-> TRUE]
  /\ Take(2, 0)
  /\ UNCHANGED <<regs, set, saved, shown>>

-----------------------------------------------------------------------------
At(op) == code \in DOMAIN Text /\ Text[code][ip].op = op
Operand == Text[code][ip]
Go == ip' = ip + 1
NoException == UNCHANGED <<set, last, fatal, skewed>>

Registers == [k \in 1 .. 8 |-> <<"reg", k, regs>>]

Pushad ==
  /\ At("pushad")
  /\ Push(Registers)
  /\ IF Room(Registers) THEN Go /\ UNCHANGED code
     ELSE ip' = 1 /\ code' = "reset"
  /\ UNCHANGED <<regs, saved, shown, nmi>> /\ NoException

(* Eight words come back; they are somebody's registers only if they are   *)
(* the eight that were put there.                                          *)
Popad ==
  /\ At("popad")
  /\ LET words == SubSeq(stack, 1, 8)
         owner == {r \in {"main", "handler", "garbage"} :
                     words = [k \in 1 .. 8 |-> <<"reg", k, r>>]}
     IN regs' = IF owner = {} THEN "garbage" ELSE CHOOSE r \in owner : TRUE
  /\ stack' = SubSeq(stack, 9, Len(stack))
  /\ Go
  /\ UNCHANGED <<code, saved, shown, nmi>> /\ NoException

(* pop dword [int_gpfCode]: the error code, or whatever is there.          *)
PopCode ==
  /\ At("pop")
  /\ saved' = [saved EXCEPT ![Operand.var] =
                 IF stack[1][1] = "error" THEN stack[1][2] ELSE @]
  /\ stack' = Tail(stack)
  /\ Go
  /\ UNCHANGED <<code, regs, shown, nmi>> /\ NoException

PushArguments ==
  /\ At("push")
  /\ stack' = [k \in 1 .. Operand.count |-> <<"argument">>] \o stack
  /\ Go
  /\ UNCHANGED <<code, regs, saved, shown, nmi>> /\ NoException

(* A call of C code: it may change registers.                              *)
Message ==
  /\ \/ At("set_disp") /\ shown' = Nothing
     \/ At("print") /\ shown' = [number |-> Operand.number, error |-> 0]
     \/ At("explain") /\ shown' = [shown EXCEPT !.error = saved[Operand.var]]
     \/ At("puts") /\ UNCHANGED shown
  /\ regs' = "handler"
  /\ Go
  /\ UNCHANGED <<stack, code, saved, nmi>> /\ NoException

(* cli, jmp $.                                                             *)
SystemStop ==
  /\ At("stop")
  /\ code' = "stopped"
  /\ UNCHANGED <<stack, ip, regs, saved, shown, nmi>> /\ NoException

(* The processor returns through the three words on top of the stack.      *)
Iret ==
  /\ At("iretd")
  /\ stack[1][1] = "eip"
  /\ code' = stack[1][2] /\ ip' = stack[1][3]
  /\ stack' = SubSeq(stack, 4, Len(stack))
  /\ nmi' = [nmi EXCEPT !.blocked = FALSE]
  /\ UNCHANGED <<regs, saved, shown>> /\ NoException

(* When they are not what it has pushed, it finds no code segment in them  *)
(* and raises a general protection fault, ...                              *)
IretFaults(e) ==
  /\ At("iretd")
  /\ stack[1][1] # "eip"
  /\ Take(13, e)
  /\ UNCHANGED <<regs, set, saved, shown, nmi>>

(* ... or they happen to be one, and it goes on somewhere.                 *)
IretWild ==
  /\ At("iretd")
  /\ stack[1][1] # "eip"
  /\ code' = "wild"
  /\ UNCHANGED <<stack, ip, regs, saved, shown, nmi>> /\ NoException

Halted == code \in {"stopped", "wild", "reset"} /\ UNCHANGED vars

Execute == \/ Pushad \/ Popad \/ PopCode \/ PushArguments \/ Message
           \/ SystemStop \/ Iret \/ IretWild
           \/ \E e \in ErrorCodes : IretFaults(e)

Next == \/ SetVector \/ Execute \/ NonMaskable \/ Halted
        \/ \E v \in Vectors, e \in ErrorCodes : Raise(v, e)

(* Instructions are executed; nothing has to raise an exception.           *)
Spec == Init /\ [][Next]_vars /\ WF_vars(Execute)

-----------------------------------------------------------------------------
(* Whatever exceptions there were, and a non-maskable interrupt at any of  *)
(* their instructions: when the kernel runs, its registers and its stack   *)
(* are as they were, and none of them was of Fatal.  A breakpoint is not,  *)
(* whose handler lets the kernel go on against its comment.                *)
MainIntact == code = "main" => stack = <<>> /\ regs = "main" /\ ~fatal

(* When the machine has stopped, the screen shows the number of the        *)
(* exception that stopped it, and for a page fault its error code: no      *)
(* other report was put in its place.  (Device errors and security         *)
(* exceptions are reported without their number.)                          *)
ReportShown ==
  code = "stopped" =>
    /\ shown.number = IF last.vector \in {7, 30} THEN NoNumber ELSE last.vector
    /\ last.vector = 14 => shown.error = last.error

(* Every handler comes to its end: the kernel goes on or the machine       *)
(* stops.  (After a return through a wrong frame, it may do anything, and  *)
(* the handler of general protection faults, returning to a fault again    *)
(* and again, fills the stack until the processor resets.)                 *)
HandlersEnd ==
  code \in DOMAIN Text ~>
    (code \in {"main", "stopped"} \/ (skewed /\ code \in {"wild", "reset"}))
=============================================================================
