------------------------------ MODULE MCKAlloc ------------------------------
(* A machine with words of one byte, so that a header is scaled by 2, on   *)
(* which morecore asks for 6 bytes at least: the heap grows up to 3 times, *)
(* requests leave remainders of 0, 1, 2 and 3 bytes and blocks lie at the  *)
(* distances that the scaled comparisons of kernel_free look at.           *)
EXTENDS KAlloc
=============================================================================
