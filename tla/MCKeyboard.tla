----------------------------- MODULE MCKeyboard -----------------------------
(* A queue of 2 slots and one key, in upper and in lower case, typed up to *)
(* 4 times: the queue fills up, and keys arrive at every step of a dequeue.*)
EXTENDS Keyboard
=============================================================================
