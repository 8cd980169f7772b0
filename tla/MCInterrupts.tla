---------------------------- MODULE MCInterrupts ----------------------------
(***************************************************************************)
(* The timer, the keyboard, the mouse's line and two lines without a       *)
(* handler: the serial port's on the first controller, the clock's on the  *)
(* second, above the mouse.  The BIOS has masked nothing, or all but what  *)
(* it uses itself.                                                         *)
(***************************************************************************)
EXTENDS Interrupts

MCMasks == {{}, {3, 4, 5, 7, 9, 10, 11, 15}, {3, 8}}
MCLines == {0, 1, 3, 8, 12}
=============================================================================
