------------------------------ MODULE MCKeyPath ------------------------------
(***************************************************************************)
(* A screen of two lines of two cells, and a keyboard of a letter,         *)
(* backspace, shift and ctrl.                                              *)
(***************************************************************************)
EXTENDS KeyPath

Plain(c) ==
  [make  |-> <<[bytes |-> <<c>>, code |-> c, down |-> TRUE]>>,
   break |-> <<[bytes |-> <<128 + c>>, code |-> c, down |-> FALSE]>>]

MCKernelTexts == {<<"A", "\n", "a">>}
MCWelcome == <<"A", "\n">>
MCPanicTexts == {<<"A", "a">>}

a == 30
left_shift == 42
left_ctrl == 29
MCCodes == {a, left_shift, left_ctrl, backspace}
MCKeys == {Plain(c) : c \in MCCodes}
MCLower == [c \in MCCodes |-> IF c = a THEN "a" ELSE NUL]
MCUpper == [c \in MCCodes |-> IF c = a THEN "A" ELSE NUL]
=============================================================================
