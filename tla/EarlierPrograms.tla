--------------------------- MODULE EarlierPrograms ---------------------------
(***************************************************************************)
(* The two programs that came before gullfoss, a boot sector with a key    *)
(* handler and a kernel with a terminal: the machine boots one or the      *)
(* other.                                                                  *)
(***************************************************************************)
EXTENDS BabyBoot

CONSTANT Glyphs    \* of Barebones

VARIABLES image,   \* what the machine boots
          terminal_row, terminal_column, terminal_buffer

Bare == INSTANCE Barebones WITH VGA_HEIGHT <- HEIGHT, VGA_WIDTH <- WIDTH

terminal == <<terminal_row, terminal_column, terminal_buffer>>

EitherInit == image \in {"baby_boot", "barebones"} /\ Init /\ Bare!Init

BabyBootRuns == image = "baby_boot" /\ Next /\ UNCHANGED <<image, terminal>>

BarebonesRuns == image = "barebones" /\ Bare!Next /\ UNCHANGED <<image, vars>>

\* The processor runs, the keyboard controller does, and an interrupt that can
\* be taken is taken; no key need be pressed.
EitherSpec ==
    /\ EitherInit
    /\ [][BabyBootRuns \/ BarebonesRuns]_<<image, vars, terminal>>
    /\ image = "baby_boot" =>
          WF_vars(Program) /\ WF_vars(Deliver) /\ WF_vars(offer)

-----------------------------------------------------------------------------

\* The barebones terminal keeps the same promise as its successor, for any text:
\* its row and column, their wrapping and the order in which a line feed and a
\* full line set them are one position on a closed tape.
BarebonesImplementsTape == Bare!Tape!Spec

\* KeysTaken, of the machine that boots the boot sector.
KeyTakenAlways == image = "baby_boot" => KeysTaken
=============================================================================
