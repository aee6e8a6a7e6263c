------------------------------- MODULE Keymap -------------------------------
(***************************************************************************)
(* The keys of arch/i386/include/ps2_kb.h, the keymap of ps2_keyb.c and    *)
(* what ps2_keyboard_enqueue makes of one scancode.  Keys with a character *)
(* have its code; the others have codes from 4096 on.                      *)
(***************************************************************************)
EXTENDS Integers, Sequences

CONSTANT BehindKeymap    \* the key that stands in the memory behind the table

KEY_BACKSPACE == 8
KEY_RETURN == 13
KEY_ESCAPE == 4097
KEY_F(n) == 4608 + (IF n <= 11 THEN n ELSE n - 1)   \* F11 and F12 are one
KEY_KP_NUMLOCK == 12303
KEY_TAB == 16384
KEY_CAPSLOCK == 16385
KEY_LSHIFT == 16386
KEY_LCTRL == 16387
KEY_RSHIFT == 16390
KEY_RALT == 16392
KEY_HOME == 16396
KEY_PAGEUP == 16398
KEY_SCROLLLOCK == 16400
KEY_UNKNOWN == 16402

(* From scancode 0x37 on, a key is the same with and without shift.  The   *)
(* entries behind KEY_PAGEUP, which their comments number from 0x50, stand  *)
(* from 0x4a on.                                                           *)
Keypad ==
  <<42, KEY_RALT, 32, KEY_CAPSLOCK>> \o [n \in 1 .. 10 |-> KEY_F(n)]
    \o <<KEY_KP_NUMLOCK, KEY_SCROLLLOCK, KEY_HOME, 56, KEY_PAGEUP,
         50, 51, 48, 46, KEY_UNKNOWN, KEY_UNKNOWN, KEY_UNKNOWN,
         KEY_F(11), KEY_F(12)>>

lowercase ==
  <<KEY_UNKNOWN, KEY_ESCAPE,
    49, 50, 51, 52, 53, 54, 55, 56, 57, 48, 45, 61, KEY_BACKSPACE,
    KEY_TAB, 113, 119, 101, 114, 116, 121, 117, 105, 111, 112, 91, 93,
    KEY_RETURN, KEY_LCTRL, 97, 115, 100, 102, 103, 104, 106, 107, 108, 59, 39,
    96, KEY_LSHIFT, 92, 122, 120, 99, 118, 98, 110, 109, 44, 46, 47,
    KEY_RSHIFT>> \o Keypad

uppercase ==
  <<KEY_UNKNOWN, KEY_ESCAPE,
    33, 64, 35, 36, 37, 94, 38, 42, 40, 41, 95, 43, KEY_BACKSPACE,
    KEY_TAB, 81, 87, 69, 82, 84, 89, 85, 73, 79, 80, 123, 125,
    KEY_RETURN, KEY_LCTRL, 65, 83, 68, 70, 71, 72, 74, 75, 76, 58, 34,
    126, KEY_LSHIFT, 124, 90, 88, 67, 86, 66, 78, 77, 60, 62, 63,
    KEY_RSHIFT>> \o Keypad

KeyAt(table, index) == IF index < Len(table) THEN table[index + 1] ELSE BehindKeymap

Nothing == -1

(* Mutant: shift is not looked at.                                         *)
EnqueuedLower(scancode, shift) ==
  LET key == KeyAt(lowercase, scancode % 128)
  IN IF key \in {KEY_LSHIFT, KEY_RSHIFT}
     THEN [shift |-> scancode < 128, queued |-> Nothing]
     ELSE [shift |-> shift, queued |-> IF scancode < 128 THEN Nothing ELSE key]

(* The shift state, and the key that goes into the queue, if any: the one  *)
(* that is released.                                                       *)
Enqueued(scancode, shift) ==
  LET index == scancode % 128
  IN IF KeyAt(lowercase, index) \in {KEY_LSHIFT, KEY_RSHIFT}
     THEN [shift |-> scancode < 128, queued |-> Nothing]
     ELSE [shift |-> shift,
           queued |-> IF scancode < 128 THEN Nothing
                      ELSE KeyAt(IF shift THEN uppercase ELSE lowercase, index)]

(* What kernel_tty_read stores of it.                                      *)
Byte(key) == key % 256
=============================================================================
