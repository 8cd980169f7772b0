------------------------------ MODULE Barebones ------------------------------
(***************************************************************************)
(* The terminal of the barebones kernel (barebones/kernel.c), the first    *)
(* form of VGATerminal: global variables, no cursor, no way back.  The     *)
(* kernel writes three short lines with it; here any text is written, one  *)
(* character a step.  Colours are left out.                                *)
(***************************************************************************)
EXTENDS Integers

CONSTANTS VGA_HEIGHT, VGA_WIDTH,   \* 25 and 80
          Glyphs                   \* what is written, " " among it

VARIABLES terminal_row, terminal_column, terminal_buffer

Indices == 0 .. VGA_HEIGHT * VGA_WIDTH - 1

\* terminal_initialize.
Init == /\ terminal_row = 0 /\ terminal_column = 0
        /\ terminal_buffer = [i \in Indices |-> " "]

terminal_putentryat(c, x, y) ==
    terminal_buffer' = [terminal_buffer EXCEPT ![y * VGA_WIDTH + x] = c]

terminal_advance_row ==
    terminal_row' = IF terminal_row + 1 = VGA_HEIGHT THEN 0 ELSE terminal_row + 1

\* Slip: a full line is started over.
advance_char_same_row ==
    /\ terminal_column' = (terminal_column + 1) % VGA_WIDTH
    /\ UNCHANGED terminal_row

terminal_advance_char ==
    IF terminal_column + 1 = VGA_WIDTH
    THEN terminal_column' = 0 /\ terminal_advance_row
    ELSE terminal_column' = terminal_column + 1 /\ UNCHANGED terminal_row

terminal_putchar(c) ==
    CASE c = "\n" -> /\ terminal_advance_row
                     /\ terminal_column' = 0
                     /\ UNCHANGED terminal_buffer
      [] c = "\r" -> /\ terminal_column' = 0
                     /\ UNCHANGED <<terminal_row, terminal_buffer>>
      [] OTHER    -> /\ terminal_putentryat(c, terminal_column, terminal_row)
                     /\ terminal_advance_char

Next == \E c \in Glyphs \cup {"\n", "\r"} : terminal_putchar(c)

Tape == INSTANCE TextTape WITH Cells <- VGA_HEIGHT * VGA_WIDTH, Line <- VGA_WIDTH,
                               Blank <- " ", tape <- terminal_buffer,
                               pos <- terminal_row * VGA_WIDTH + terminal_column
=============================================================================
