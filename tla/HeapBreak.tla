------------------------------ MODULE HeapBreak ------------------------------
(***************************************************************************)
(* What kspace_sbrk (kernel/kernel/memory/kmemory.c) promises morecore of  *)
(* the heap allocator: a call moves the break up by as much as was asked   *)
(* for and hands out the memory it has passed, or it fails and changes     *)
(* nothing, which is a stuttering step here.                               *)
(*                                                                         *)
(* KSpace implements this module when no request is larger than a page;    *)
(* KAlloc is a client that gets its memory from it.                        *)
(***************************************************************************)
EXTENDS Integers

CONSTANTS Start, Limit,   \* where the break begins, and what it may not pass
          Sizes           \* what callers ask for

VARIABLES brk,            \* the break
          memory          \* what has been handed out

vars == <<brk, memory>>

Init == brk = Start /\ memory = {}

Sbrk(n) == /\ brk + n <= Limit
           /\ brk' = brk + n
           /\ memory' = memory \union (brk .. brk + n - 1)

Next == \E n \in Sizes : Sbrk(n)

Spec == Init /\ [][Next]_vars
=============================================================================
