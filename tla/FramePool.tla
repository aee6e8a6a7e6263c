----------------------------- MODULE FramePool -----------------------------
(***************************************************************************)
(* What the physical block allocator (kernel/kernel/memory/balloc.c)       *)
(* promises its callers: a frame is withdrawn from the pool before         *)
(* anything is handed out, or it is available, or one caller holds it.     *)
(* balloc_get picks any available frame and fails only when there is none; *)
(* balloc_free puts back a frame that is held.                             *)
(*                                                                         *)
(* Balloc implements this module with the bitmap of the code; KSpace is a  *)
(* client that takes its frames from it.                                   *)
(***************************************************************************)
EXTENDS FiniteSets

CONSTANT Frame        \* the frames the allocator can hand out

VARIABLES avail,      \* frames that can be handed out
          held        \* frames handed out and not freed

vars == <<avail, held>>

TypeOK == /\ avail \subseteq Frame
          /\ held \subseteq Frame

Init == /\ avail \in SUBSET Frame
        /\ held = {}

(* Frames taken out of the pool at boot, before any caller has one.        *)
Withdraw == /\ held = {}
            /\ avail' \in SUBSET avail
            /\ UNCHANGED held

Get(f) == /\ f \in avail
          /\ avail' = avail \ {f}
          /\ held' = held \union {f}

(* balloc_get returns NULL.                                                *)
GetFails == /\ avail = {}
            /\ UNCHANGED vars

Free(f) == /\ f \in held
           /\ held' = held \ {f}
           /\ avail' = avail \union {f}

Next == \/ Withdraw
        \/ \E f \in Frame : Get(f) \/ Free(f)
        \/ GetFails

Spec == Init /\ [][Next]_vars

(* No frame is both available and held: two callers never share one.       *)
Exclusive == avail \intersect held = {}
=============================================================================
