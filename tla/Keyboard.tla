------------------------------ MODULE Keyboard ------------------------------
(***************************************************************************)
(* The PS/2 keyboard queue, kernel/arch/i386/vga_tty/ps2_keyb.c: the       *)
(* interrupt handler keyb_interrupt calls ps2_keyboard_enqueue, and the    *)
(* terminal's read loop polls ps2_keyb_getbyte, which calls                *)
(* ps2_keyboard_dequeue with interrupts enabled.  So a key can arrive      *)
(* between any two steps of a dequeue; the handler itself runs to its end. *)
(*                                                                         *)
(* queue_tail is neither volatile nor protected: each use of it in a       *)
(* dequeue reads the variable or the copy the compiler keeps in a register,*)
(* whichever the build chose, and the model allows both at every use.      *)
(***************************************************************************)
EXTENDS Integers, Sequences

CONSTANTS
  KB_QUEUE_SIZE,   \* slots of key_queue (256)
  Key,             \* keys that are not a shift key
  Overrun,         \* what the word behind key_queue holds
  Nothing,         \* what a slot holds that was never written
  MaxTyped         \* bound: characters the user types in a behaviour

ASSUME QueueAssumption ==
  /\ KB_QUEUE_SIZE \in Nat \ {0}
  /\ MaxTyped \in Nat

Shift == {"KEY_LSHIFT", "KEY_RSHIFT"}

(* keymap[code].uppercase and .lowercase.                                  *)
Char == [key : Key, upper : BOOLEAN]

VARIABLES
  key_queue,    \* slots 0 .. KB_QUEUE_SIZE, the last one not its own
  queue_tail,
  _shift,
  pc,           \* where the reader is: "poll", "take", "copy", "drop"
  n, i,         \* its register copy of queue_tail, and its loop index
  retval,
  down,         \* history: shift keys the user holds down
  both,         \* history: both shift keys have been down at once
  typed,        \* history: the characters that were enqueued
  delivered,    \* history: the characters getbyte returned
  races         \* history: characters enqueued in the middle of a dequeue

reader == <<pc, n, i, retval>>
vars == <<key_queue, queue_tail, _shift, reader, down, both, typed,
          delivered, races>>

-----------------------------------------------------------------------------
(* Mutant: the release of a shift key is not looked at.                    *)
ShiftKeyPressOnly(key, pressed) ==
  /\ _shift' = (_shift \/ pressed)
  /\ down' = IF pressed THEN down \union {key} ELSE down \ {key}
  /\ both' = (both \/ Shift \subseteq down')
  /\ UNCHANGED <<key_queue, queue_tail, reader, typed, delivered, races>>

(* keyb_interrupt with the scancode of a shift key, pressed or released.   *)
ShiftKey(key, pressed) ==
  /\ _shift' = pressed
  /\ down' = IF pressed THEN down \union {key} ELSE down \ {key}
  /\ both' = (both \/ Shift \subseteq down')
  /\ UNCHANGED <<key_queue, queue_tail, reader, typed, delivered, races>>

(* Mutant: the last slot is taken for the word behind the array as well.   *)
EnqueueOneTooMany(key) ==
  LET char == [key |-> key, upper |-> _shift]
  IN /\ Len(typed) < MaxTyped
     /\ queue_tail <= KB_QUEUE_SIZE
     /\ key_queue' = [key_queue EXCEPT ![queue_tail] = char]
     /\ queue_tail' = queue_tail + 1
     /\ typed' = Append(typed, char)
     /\ races' = IF pc = "poll" THEN races ELSE races + 1
     /\ UNCHANGED <<_shift, reader, down, both, delivered>>

(* keyb_interrupt with a break code: the key is queued when it is released,*)
(* unless the queue is full.  A make code changes nothing.                 *)
Enqueue(key) ==
  LET char == [key |-> key, upper |-> _shift]
  IN /\ Len(typed) < MaxTyped
     /\ queue_tail < KB_QUEUE_SIZE
     /\ key_queue' = [key_queue EXCEPT ![queue_tail] = char]
     /\ queue_tail' = queue_tail + 1
     /\ typed' = Append(typed, char)
     /\ races' = IF pc = "poll" THEN races ELSE races + 1
     /\ UNCHANGED <<_shift, reader, down, both, delivered>>

(* The break code finds the queue full and is dropped.                     *)
EnqueueFull ==
  /\ queue_tail = KB_QUEUE_SIZE
  /\ UNCHANGED vars

Interrupt ==
  \/ \E key \in Shift, pressed \in BOOLEAN :
        (key \in down) # pressed /\ ShiftKey(key, pressed)
  \/ \E key \in Key : Enqueue(key)
  \/ EnqueueFull

-----------------------------------------------------------------------------
(* What a use of queue_tail in ps2_keyboard_dequeue can read.              *)
TailRead == {n, queue_tail}

(* ps2_keyb_getbyte finds the queue empty and returns -1.                  *)
PollEmpty ==
  /\ pc = "poll"
  /\ queue_tail = 0
  /\ UNCHANGED vars

Poll ==
  /\ pc = "poll"
  /\ queue_tail > 0
  /\ pc' = "take"
  /\ n' = queue_tail
  /\ UNCHANGED <<key_queue, queue_tail, _shift, i, retval, down, both, typed,
                 delivered, races>>

(* int retval = key_queue[0].                                              *)
Take ==
  /\ pc = "take"
  /\ retval' = key_queue[0]
  /\ i' = 0
  /\ pc' = "copy"
  /\ UNCHANGED <<key_queue, queue_tail, _shift, n, down, both, typed,
                 delivered, races>>

(* Mutant: source and destination swapped.                                 *)
CopyBackwards ==
  /\ pc = "copy"
  /\ \E tail \in TailRead : i < tail
  /\ key_queue' = [key_queue EXCEPT ![i + 1] = key_queue[i]]
  /\ i' = i + 1
  /\ UNCHANGED <<queue_tail, _shift, pc, n, retval, down, both, typed,
                 delivered, races>>

(* One turn of the loop that copies the data forward.                      *)
Copy ==
  /\ pc = "copy"
  /\ \E tail \in TailRead : i < tail
  /\ key_queue' = [key_queue EXCEPT ![i] = key_queue[i + 1]]
  /\ i' = i + 1
  /\ UNCHANGED <<queue_tail, _shift, pc, n, retval, down, both, typed,
                 delivered, races>>

CopyDone ==
  /\ pc = "copy"
  /\ \E tail \in TailRead : i >= tail
  /\ pc' = "drop"
  /\ UNCHANGED <<key_queue, queue_tail, _shift, n, i, retval, down, both,
                 typed, delivered, races>>

(* Mutant: the queue is emptied by every dequeue.                          *)
DropAll ==
  /\ pc = "drop"
  /\ queue_tail' = 0
  /\ delivered' = Append(delivered, retval)
  /\ pc' = "poll"
  /\ UNCHANGED <<key_queue, _shift, n, i, retval, down, both, typed, races>>

(* if (queue_tail > 0) queue_tail--; return retval.                        *)
Drop ==
  /\ pc = "drop"
  /\ \E tail \in TailRead :
        queue_tail' = IF tail > 0 THEN tail - 1 ELSE queue_tail
  /\ delivered' = Append(delivered, retval)
  /\ pc' = "poll"
  /\ UNCHANGED <<key_queue, _shift, n, i, retval, down, both, typed, races>>

Reader == PollEmpty \/ Poll \/ Take \/ Copy \/ CopyDone \/ Drop

-----------------------------------------------------------------------------
Init ==
  /\ key_queue = [slot \in 0 .. KB_QUEUE_SIZE |->
                    IF slot = KB_QUEUE_SIZE THEN Overrun ELSE Nothing]
  /\ queue_tail = 0
  /\ _shift = FALSE
  /\ pc = "poll" /\ n = 0 /\ i = 0 /\ retval = Nothing
  /\ down = {} /\ both = FALSE
  /\ typed = << >> /\ delivered = << >> /\ races = 0

Next == Interrupt \/ Reader

(* The reader is the only thread of the kernel and loops until it has a    *)
(* line; an interrupt always returns to it.  The user need not type.       *)
Spec == Init /\ [][Next]_vars /\ WF_vars(Reader)

-----------------------------------------------------------------------------
TypeOK ==
  /\ key_queue \in [0 .. KB_QUEUE_SIZE -> Char \union {Nothing, Overrun}]
  /\ queue_tail \in 0 .. KB_QUEUE_SIZE
  /\ _shift \in BOOLEAN
  /\ pc \in {"poll", "take", "copy", "drop"}
  /\ n \in 0 .. KB_QUEUE_SIZE
  /\ i \in 0 .. KB_QUEUE_SIZE
  /\ retval \in Char \union {Nothing, Overrun}
  /\ down \subseteq Shift /\ both \in BOOLEAN
  /\ typed \in Seq(Char) /\ Len(typed) <= MaxTyped
  /\ delivered \in Seq(Char \union {Nothing, Overrun})
  /\ races \in 0 .. MaxTyped

(* The characters that wait in the queue.                                  *)
Waiting == [k \in 1 .. queue_tail |-> key_queue[k - 1]]

(* As long as no key arrives in the middle of a dequeue, the terminal gets *)
(* what was typed, in that order, and the rest is waiting in the queue.    *)
FIFOWithoutRaces ==
  races = 0 /\ pc \in {"poll", "take"} => delivered \o Waiting = typed

(* Whatever the interleaving and whichever uses of queue_tail are cached:  *)
(* as many characters as were typed are returned or wait, less at most one *)
(* for each that arrived in the middle of a dequeue.  This counts: a key   *)
(* that raced may still be read twice where another one was lost.          *)
LossBounded ==
  /\ Len(delivered) + queue_tail <= Len(typed)
  /\ Len(typed) <= Len(delivered) + queue_tail + races

(* The shift state follows the keys of the user for as long as only one of *)
(* the two shift keys is used at a time.                                   *)
ShiftFollowsKeys == ~both => _shift = (down # {})

(* Every character typed is delivered in the end, unless one arrived in    *)
(* the middle of a dequeue.                                                *)
EventuallyDelivered ==
  \A k \in 1 .. MaxTyped :
     Len(typed) >= k ~> (Len(delivered) >= k \/ races > 0)
=============================================================================
