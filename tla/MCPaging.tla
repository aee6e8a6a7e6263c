------------------------------ MODULE MCPaging ------------------------------
(* Directories and tables of 8 entries: low memory, a user entry, the      *)
(* kernel, the temporary page, two for the heap, the stack, and the        *)
(* recursive entry.                                                        *)
EXTENDS Paging, TLC

MCTemporary == <<3, 7>>
MCClientPages == { <<1, 0>>, <<4, 0>>, <<4, 1>>, <<5, 0>> }
MCSymmetry == Permutations(Data) \union Permutations(Low)
                \union Permutations(Frame \ Low)
=============================================================================
