-------------------------- MODULE MCKeyboardState --------------------------
(***************************************************************************)
(* Keys with one byte and with two; right ctrl and pause, which share a    *)
(* code; right shift and print screen, which puts an extended left shift   *)
(* around its own code: two codes with one modifier; the last codes the    *)
(* bitmap has room for, one past the last, and an extended code the kernel *)
(* does not list (a Windows key).                                          *)
(***************************************************************************)
EXTENDS KeyboardState

Up(c) == 128 + c
Key(prefix, c, code) ==
    [make  |-> <<[bytes |-> Append(prefix, c), code |-> code, down |-> TRUE]>>,
     break |-> <<[bytes |-> Append(prefix, Up(c)), code |-> code, down |-> FALSE]>>]
Plain(c)   == Key(<<>>, c, c)
Escaped(c) == Key(<<224>>, c, c)

left_win == Key(<<224>>, 91, None)
f12 == 88
f13 == Key(<<>>, 100, None)

num_lock == 69
Pause ==
    [make |-> <<[bytes |-> <<225, left_ctrl>>, code |-> left_ctrl, down |-> TRUE],
                [bytes |-> <<num_lock>>, code |-> num_lock, down |-> TRUE],
                [bytes |-> <<225, Up(left_ctrl)>>, code |-> left_ctrl, down |-> FALSE],
                [bytes |-> <<Up(num_lock)>>, code |-> num_lock, down |-> FALSE]>>,
     break |-> <<>>]

\* The keyboard leaves the shift out when a shift key is down already; sending
\* it always only adds the case that its end lets go of a shift that is held.
print_screen == 55
PrintScreen ==
    [make  |-> Escaped(left_shift).make \o Escaped(print_screen).make,
     break |-> Escaped(print_screen).break \o Escaped(left_shift).break]

MCKeys == {Escaped(left_ctrl), Plain(right_shift), Plain(f12),
           left_win, f13, Pause, PrintScreen}
=============================================================================
