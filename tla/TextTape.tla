------------------------------ MODULE TextTape ------------------------------
(***************************************************************************)
(* What a text screen promises whoever writes to it: a closed tape of      *)
(* cells, cut into lines of equal length, and one position on it.  Writing *)
(* a character moves the position on by one cell, a line feed moves it to  *)
(* the start of the next line, backing up takes the cell before it away.   *)
(* The tape has no rows, columns or edges: its end is joined to its start. *)
(***************************************************************************)
EXTENDS Integers

CONSTANTS Cells,   \* how many cells the tape has
          Line,    \* how many of them make a line
          Glyphs,  \* what a cell can show
          Blank    \* what an empty cell shows

VARIABLES tape, pos

Places == 0 .. Cells - 1

Init == tape = [p \in Places |-> Blank] /\ pos = 0

Put(c) == /\ tape' = [tape EXCEPT ![pos] = c]
          /\ pos' = (pos + 1) % Cells

Feed == /\ pos' = ((pos \div Line + 1) * Line) % Cells
        /\ UNCHANGED tape

Return == /\ pos' = (pos \div Line) * Line
          /\ UNCHANGED tape

Back == /\ pos' = (pos + Cells - 1) % Cells
        /\ tape' = [tape EXCEPT ![pos'] = Blank]

Wipe == /\ tape' = [p \in Places |-> Blank]
        /\ pos' = 0

Next == (\E c \in Glyphs : Put(c)) \/ Feed \/ Return \/ Back \/ Wipe

Spec == Init /\ [][Next]_<<tape, pos>>
=============================================================================
