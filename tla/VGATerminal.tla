----------------------------- MODULE VGATerminal -----------------------------
(***************************************************************************)
(* VGATerminal (vga.cpp): a row and a column of its own over the one text  *)
(* buffer of the machine.  The operators below are its methods, from the   *)
(* terminal and the buffer before a call to those after it.                *)
(*                                                                         *)
(* A terminal t is a record of its row and column.  Its colour and indent  *)
(* are left out: set_color(uint8_t) and set_indent assign their parameter  *)
(* to itself (vga.cpp:20, vga.cpp:24), so that both keep for ever the      *)
(* value of the constructor, light grey on black and 0, which every cell   *)
(* and every start of a line shows.                                        *)
(***************************************************************************)
EXTENDS Integers, Sequences

CONSTANTS HEIGHT, WIDTH,   \* of the screen: 25 and 80
          BYTE,            \* values of one register of the cursor: 256
          Glyphs           \* what the program writes, Blank among it

ASSUME ScreenAssumption ==
  /\ HEIGHT \in Nat /\ HEIGHT >= 2
  /\ WIDTH \in Nat /\ WIDTH >= 2
  /\ BYTE \in Nat /\ HEIGHT * WIDTH <= BYTE * BYTE

Blank == " "
NUL == ""      \* the character 0

ASSUME GlyphAssumption == Blank \in Glyphs /\ {"\n", "\r", NUL} \cap Glyphs = {}

indent == 0

Index(row, column) == row * WIDTH + column

Indices == 0 .. HEIGHT * WIDTH - 1

Terminals == [row : 0 .. HEIGHT - 1, column : 0 .. WIDTH - 1]

new_terminal == [row |-> 0, column |-> 0]

cleared == [i \in Indices |-> Blank]

advance_row(t) == [t EXCEPT !.row = IF @ + 1 = HEIGHT THEN 0 ELSE @ + 1]

cr(t) == [t EXCEPT !.column = indent]

crlf(t) == advance_row(cr(t))

\* Slip: one column past the line before it is ended.
advance_char_late(t) ==
  IF t.column = WIDTH THEN crlf(t) ELSE [t EXCEPT !.column = @ + 1]

advance_char(t) ==
  IF t.column + 1 = WIDTH THEN crlf(t) ELSE [t EXCEPT !.column = @ + 1]

\* Slip: back from the start of a line to its own end.
retreat_char_same_row(t) ==
  IF t.column = indent THEN [t EXCEPT !.column = WIDTH - 1]
                       ELSE [t EXCEPT !.column = @ - 1]

retreat_char(t) ==
  IF t.column = indent
  THEN [row |-> IF t.row = 0 THEN HEIGHT - 1 ELSE t.row - 1, column |-> WIDTH - 1]
  ELSE [t EXCEPT !.column = @ - 1]

set_pos(t, r, c) == [row |-> r, column |-> c]

\* The two registers of the cursor after set_cursor(r, c).
set_cursor(r, c) ==
  [low |-> Index(r, c) % BYTE, high |-> (Index(r, c) \div BYTE) % BYTE]

\* putc(c, advance) of terminal t on buffer b.
putc(t, b, c, advance) ==
  CASE c = "\n" -> [term |-> crlf(t), buffer |-> b]
    [] c = "\r" -> [term |-> cr(t), buffer |-> b]
    [] OTHER    -> [term |-> IF advance THEN advance_char(t) ELSE t,
                    buffer |-> [b EXCEPT ![Index(t.row, t.column)] = c]]
=============================================================================
