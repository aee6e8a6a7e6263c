---------------------------- MODULE MCInterrupts ----------------------------
(* The timer, the keyboard, the two lines on which spurious interrupts     *)
(* arrive, and one of the slave's that has no handler.                     *)
EXTENDS Interrupts

(* Everything unmasked, the last lines masked, the timer masked.           *)
MCFirmwareMasks == { {}, {7, 15}, {0, 14} }
=============================================================================
