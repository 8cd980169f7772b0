-------------------------- MODULE MCEarlierPrograms --------------------------
(***************************************************************************)
(* Three rows, five columns and bytes with eight values: a second line     *)
(* longer than a row, a key's line just as long as one, and a line counter *)
(* that runs past the screen and wraps.                                    *)
(***************************************************************************)
EXTENDS EarlierPrograms

MCSplash == <<"W">>
MCSplash2 == <<"P", "r", "e", "s", "s", "!">>
MCOutstr16 == <<"=">>
=============================================================================
