------------------------------ MODULE MCBalloc ------------------------------
(* Small machines for Balloc: blocks of 4 bytes, words of 4 bits.          *)
EXTENDS Balloc

(* For 9 blocks of RAM in a 12 block address space: a page inside RAM, a   *)
(* hole between the end of RAM and the end of the bitmap, one that reaches *)
(* behind the bitmap, an empty one, and one above the address space, which *)
(* truncation turns into the first block.                                  *)
MCFirmwareRegions ==
  { [base |-> 24, length |-> 2], [base |-> 40, length |-> 3],
    [base |-> 44, length |-> 8], [base |-> 28, length |-> 0],
    [base |-> 48, length |-> 2] }

(* The memory behind the bitmap is clear, or some bits of it are set.      *)
MCOverrunContents == { {}, {12}, {13, 15, 16} }
=============================================================================
