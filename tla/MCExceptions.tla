---------------------------- MODULE MCExceptions ----------------------------
(* Every vector, two error codes, a stack for three faults within each     *)
(* other, and one non-maskable interrupt.                                  *)
EXTENDS Exceptions

MCVectors == 0 .. 31
=============================================================================
