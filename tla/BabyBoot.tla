------------------------------ MODULE BabyBoot ------------------------------
(***************************************************************************)
(* The boot sector (baby_boot.s, video_print.s): it prints two lines,      *)
(* takes over the keyboard's interrupt and prints a line with the scan     *)
(* code of every key that is pressed.  Its main program then loops, so all *)
(* registers belong to the handler, which saves none.                      *)
(*                                                                         *)
(* The keyboard, its controller, the interrupt controller and the BIOS are *)
(* external.  A line of the screen is a row; what is stored past the       *)
(* screen's last row is not seen and left out.                             *)
(***************************************************************************)
EXTENDS SequencesExt

CONSTANTS
    HEIGHT, WIDTH,     \* of the screen: 25 and 80
    BYTE,              \* values of xpos and of ypos: 256
    splash, splash2,   \* what it greets with
    outstr16,          \* what stands before the digits: "reg16 = 0x"
    ScanCodes,         \* the bytes the keyboard sends
    MaxQueue           \* bound: bytes waiting in the keyboard

ASSUME BootAssumption ==
    /\ HEIGHT \in Nat \ {0} /\ WIDTH \in Nat \ {0} /\ BYTE \in Nat
    /\ HEIGHT <= BYTE /\ WIDTH <= BYTE
    /\ {splash, splash2, outstr16} \subseteq Seq(STRING)
    /\ Len(splash) <= WIDTH /\ Len(splash2) <= BYTE /\ Len(outstr16) + 4 <= WIDTH
    /\ ScanCodes \subseteq 0 .. 255 /\ MaxQueue \in Nat

None == -1
NUL == ""

VARIABLES
    todo,         \* the steps left of the handler that runs, then of main
    iflag,        \* the processor takes interrupts
    vector,       \* the keyboard's entry of the vector table: its two words
    irr, isr,     \* the keyboard's interrupt is requested, in service
    kbd, obf,     \* bytes in the keyboard; the byte in port 0x60, or None
    port60, si,   \* the byte read; what is left of the text being printed
    xpos, ypos,   \* where the next character goes
    screen,
    log, line     \* history: what each row should show; the row the next
                  \* key belongs in

vars == <<todo, iflag, vector, irr, isr, kbd, obf, port60, si, xpos, ypos,
          screen, log, line>>
machine == <<iflag, vector, irr, isr, kbd, obf>>
text == <<si, xpos, ypos, screen>>
history == <<log, line>>

Cells == 0 .. HEIGHT * WIDTH - 1
Rows == 0 .. HEIGHT - 1

-----------------------------------------------------------------------------
(* The program, step by step.                                              *)

BiosVector == <<"bios", "bios">>
OurVector == <<"keyhandler", "ds">>

\* Slip: the vector is written with interrupts on.
start_without_cli ==
    <<"video_clear", "splash", "sprint", "splash2", "sprint",
      "offset", "segment", "sti">>

_start == <<"video_clear", "splash", "sprint", "splash2", "sprint",
            "cli", "offset", "segment", "sti">>

\* Slip: interrupts are let in once this one is ended.
keyhandler_sti == <<"in", "eoi", "sti", "print", "iret">>

\* Slip: the interrupt is not ended.
keyhandler_no_eoi == <<"in", "print", "iret">>

keyhandler == <<"in", "eoi", "print", "iret">>

hexstr == <<"0", "1", "2", "3", "4", "5", "6", "7", "8", "9",
            "a", "b", "c", "d", "e", "f">>

\* printreg16: the four digits of a word, the highest first.
outstr16val(n) == [i \in 1 .. 4 |-> hexstr[((n \div 16^(4 - i)) % 16) + 1]]

KeyLine(code) == outstr16 \o outstr16val(code)

Init ==
    /\ todo = _start /\ iflag = TRUE /\ vector = BiosVector
    /\ irr = FALSE /\ isr = FALSE /\ kbd = <<>> /\ obf = None
    /\ port60 = 0 /\ si = <<>> /\ xpos = 0 /\ ypos = 0
    /\ screen = [i \in Cells |-> NUL]
    /\ log = [r \in Rows |-> CASE r = 0 -> splash [] r = 1 -> splash2 [] OTHER -> <<>>]
    /\ line = 2

At(step) == todo # <<>> /\ Head(todo) = step /\ todo' = Tail(todo)

video_clear ==
    /\ At("video_clear")
    /\ screen' = [i \in Cells |-> NUL]
    /\ UNCHANGED <<machine, port60, si, xpos, ypos, history>>

load_text ==
    /\ \/ At("splash") /\ si' = splash
       \/ At("splash2") /\ si' = splash2
    /\ UNCHANGED <<machine, port60, xpos, ypos, screen, history>>

\* cprint: a line longer than a row goes on in the next one.
cprint ==
    /\ todo # <<>> /\ Head(todo) = "sprint" /\ si # <<>>
    /\ LET di == WIDTH * ypos + xpos
       IN  screen' = IF di \in Cells THEN [screen EXCEPT ![di] = Head(si)]
                                     ELSE screen
    /\ xpos' = (xpos + 1) % BYTE
    /\ si' = Tail(si)
    /\ UNCHANGED <<todo, machine, port60, ypos, history>>

end_line ==
    /\ At("sprint") /\ si = <<>>
    /\ ypos' = (ypos + 1) % BYTE
    /\ xpos' = 0
    /\ UNCHANGED <<machine, port60, si, screen, history>>

bind_keyhandler ==
    /\ \/ At("cli") /\ iflag' = FALSE /\ UNCHANGED vector
       \/ At("offset") /\ vector' = [vector EXCEPT ![1] = OurVector[1]] /\ UNCHANGED iflag
       \/ At("segment") /\ vector' = [vector EXCEPT ![2] = OurVector[2]] /\ UNCHANGED iflag
       \/ At("sti") /\ iflag' = TRUE /\ UNCHANGED vector
    /\ UNCHANGED <<irr, isr, kbd, obf, port60, text, history>>

released(code) == code >= 128

\* In the history a key that is pressed gets the next row, while there are rows.
read_port ==
    /\ At("in")
    /\ port60' = obf /\ obf' = None
    /\ IF released(obf) THEN UNCHANGED history
       ELSE /\ log' = IF line \in Rows THEN [log EXCEPT ![line] = KeyLine(obf)] ELSE log
            /\ line' = (line + 1) % BYTE
    /\ UNCHANGED <<iflag, vector, irr, isr, kbd, text>>

finish_interrupt ==
    /\ At("eoi")
    /\ isr' = FALSE
    /\ UNCHANGED <<iflag, vector, irr, kbd, obf, port60, text, history>>

print_key ==
    /\ todo # <<>> /\ Head(todo) = "print"
    /\ IF released(port60)
       THEN todo' = Tail(todo) /\ UNCHANGED si
       ELSE todo' = <<"sprint">> \o Tail(todo) /\ si' = KeyLine(port60)
    /\ UNCHANGED <<machine, port60, xpos, ypos, screen, history>>

iret ==
    /\ At("iret")
    /\ iflag' = TRUE
    /\ UNCHANGED <<vector, irr, isr, kbd, obf, port60, text, history>>

\* Main has nothing left to do.
end == todo = <<>> /\ UNCHANGED vars

Program == video_clear \/ load_text \/ cprint \/ end_line \/ bind_keyhandler
              \/ read_port \/ finish_interrupt \/ print_key \/ iret

-----------------------------------------------------------------------------
(* The machine.                                                            *)

press(c) ==
    /\ Len(kbd) < MaxQueue
    /\ kbd' = Append(kbd, c)
    /\ UNCHANGED <<todo, iflag, vector, irr, isr, obf, port60, text, history>>

offer ==
    /\ obf = None /\ kbd # <<>>
    /\ obf' = Head(kbd) /\ kbd' = Tail(kbd)
    /\ irr' = TRUE
    /\ UNCHANGED <<todo, iflag, vector, isr, port60, text, history>>

Interrupts == iflag /\ irr /\ ~isr

\* The BIOS reads the byte, ends the interrupt and restores the registers.
BiosTakesKey ==
    /\ Interrupts /\ vector = BiosVector
    /\ irr' = FALSE /\ obf' = None
    /\ UNCHANGED <<todo, iflag, vector, isr, kbd, port60, text, history>>

EnterHandler ==
    /\ Interrupts /\ vector = OurVector
    /\ irr' = FALSE /\ isr' = TRUE
    /\ iflag' = FALSE
    /\ todo' = keyhandler \o todo
    /\ UNCHANGED <<vector, kbd, obf, port60, text, history>>

Deliver == BiosTakesKey \/ EnterHandler

Next == Program \/ end \/ Deliver \/ offer \/ \E c \in ScanCodes : press(c)

Spec == Init /\ [][Next]_vars

-----------------------------------------------------------------------------

\* Whenever the handler has returned, every key pressed since it was bound has a
\* line of its own below the greeting, whole and in the order of the keys, until
\* the line counter wraps and the lines start over at the top: releases print
\* nothing, and a key that comes while one is printed, the interrupt already
\* ended, neither mixes with it nor is skipped.
LinesShown ==
    todo = <<>> =>
        \A r \in Rows : \A i \in 1 .. Len(log[r]) :
            i <= WIDTH => screen[WIDTH * r + i - 1] = log[r][i]

\* No interrupt is taken through a vector of which one word is the BIOS's and
\* the other the program's.
VectorWhole == Interrupts => vector \in {BiosVector, OurVector}

\* Every byte the keyboard offers is eventually read, by the BIOS or by the
\* handler, and the handler always returns, however fast the keys come.
KeysTaken ==
    /\ (obf # None) ~> (obf = None)
    /\ []<>(todo = <<>>)
=============================================================================
