------------------------------ MODULE MCKSpace ------------------------------
(* A heap of up to 5 pages of 4 bytes, in page tables of 2 entries, on a   *)
(* machine of 64 addresses.                                                *)
EXTENDS KSpace, TLC

BlockSymmetry == Permutations(Frame)

(* A new page table is clear, or its second entry shows something present. *)
MCLeftovers == { {}, {1} }
Cleared == { {} }
=============================================================================
