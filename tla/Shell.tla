-------------------------------- MODULE Shell --------------------------------
(***************************************************************************)
(* Who writes to the screen, and when: kernel_main its greeting and the    *)
(* results of its tests (kernel.cpp:97-130, test.h), the shell its own     *)
(* greeting and then, in the handler of every key, what is typed           *)
(* (shell.cpp), and panic its message (panic.cpp), which may come at any   *)
(* time and ends everything.                                               *)
(*                                                                         *)
(* A text is written one character a step.  A key is one step: its handler *)
(* runs with interrupts off, and main sleeps or has yet to hand the shell  *)
(* to the keyboard.  The terminals of kernel_main, of the shell (a copy of *)
(* the first) and of panic are different objects on one buffer; each is    *)
(* done with before the next begins, so term is the one in use.            *)
(***************************************************************************)
EXTENDS VGATerminal, SequencesExt

CONSTANTS KernelTexts,   \* what kernel_main may write
          Welcome,       \* what the shell greets with
          PanicTexts,    \* what panic may write
          Codes,         \* the key codes that are reported
          Lower, Upper   \* the tables of USKeyMap: Codes -> characters

Texts == Seq(Glyphs \cup {"\n"})

ASSUME TextAssumption ==
  /\ KernelTexts \subseteq Texts /\ PanicTexts \subseteq Texts
  /\ Welcome \in Texts
  /\ Lower \in [Codes -> Glyphs \cup {"\n", NUL}]
  /\ Upper \in [Codes -> Glyphs \cup {"\n", NUL}]

\* The greeting is one line that leaves a column of its row free.
ASSUME WelcomeAssumption ==
  /\ Len(Welcome) \in 1 .. WIDTH
  /\ \A i \in 1 .. Len(Welcome) : Welcome[i] = "\n" <=> i = Len(Welcome)

backspace == 14    \* KeyCode::backspace

\* The modifiers the key map and the shell look at.
Mods == {"shift", "ctrl", "alt"}

VARIABLES phase,    \* which part of the program writes
          todo,     \* what is left of the text being written
          term,     \* the terminal in use
          buffer,   \* what the cells show
          cursor,   \* the registers of the cursor, low and high
          line      \* history: the characters last written, up to the screen's
                    \* size, without those erased or before a line feed

vars == <<phase, todo, term, buffer, cursor, line>>

Init == /\ phase = "kernel" /\ todo \in KernelTexts
        /\ term = new_terminal /\ buffer = cleared
        \* wherever the firmware left it
        /\ cursor \in [low : 0 .. BYTE - 1, high : 0 .. BYTE - 1]
        /\ line = <<>>

-----------------------------------------------------------------------------

Fresh(p, text) ==
  /\ phase' = p /\ todo' = text
  /\ term' = new_terminal /\ buffer' = cleared
  /\ line' = <<>>

\* The history of a character written.
Written(c) ==
  IF c \in {"\n", "\r"} THEN <<>>
  ELSE LET l == Append(line, c)
       IN  IF Len(l) > HEIGHT * WIDTH THEN Tail(l) ELSE l

Shows(c) ==
  LET after == putc(term, buffer, c, TRUE)
  IN  /\ term' = after.term /\ buffer' = after.buffer
      /\ line' = Written(c)

\* One round of the loop of write.
Write ==
  /\ todo # <<>>
  /\ Shows(Head(todo))
  /\ todo' = Tail(todo)
  /\ UNCHANGED <<phase, cursor>>

\* The first half of the shell's constructor, up to its greeting.
StartShell ==
  /\ phase = "kernel" /\ todo = <<>>
  /\ phase' = "welcome" /\ todo' = Welcome
  /\ term' = set_pos(term, 0, 0)
  /\ buffer' = cleared
  /\ line' = <<>>
  /\ UNCHANGED cursor

\* Slip: the cursor stays where the firmware left it.
ShellReady_no_cursor ==
  /\ phase = "welcome" /\ todo = <<>>
  /\ phase' = "shell"
  /\ UNCHANGED <<todo, term, buffer, line, cursor>>

\* The second half; the keyboard then reports to the shell, which sleeps.
ShellReady ==
  /\ phase = "welcome" /\ todo = <<>>
  /\ phase' = "shell"
  /\ cursor' = set_cursor(1, 0)
  /\ UNCHANGED <<todo, term, buffer, line>>

to_ascii(code, mods) == IF "shift" \in mods THEN Upper[code] ELSE Lower[code]

\* Slip: the blank of a backspace moves the position on like any character.
Erases_advancing ==
  LET t == retreat_char(term)
      after == putc(t, buffer, Blank, TRUE)
  IN  /\ term' = after.term /\ buffer' = after.buffer
      /\ line' = IF line = <<>> THEN <<>> ELSE Front(line)

Erases ==
  LET t == retreat_char(term)
      after == putc(t, buffer, Blank, FALSE)
  IN  /\ term' = after.term /\ buffer' = after.buffer
      /\ line' = IF line = <<>> THEN <<>> ELSE Front(line)

key_down(code, mods) ==
  LET c == to_ascii(code, mods)
  IN  /\ phase = "shell"
      /\ IF code = backspace THEN Erases
         ELSE IF "ctrl" \notin mods /\ "alt" \notin mods /\ c # NUL THEN Shows(c)
         ELSE UNCHANGED <<term, buffer, line>>
      /\ cursor' = set_cursor(term'.row, term'.column)
      /\ UNCHANGED <<phase, todo>>

panic(text) ==
  /\ phase \notin {"panic", "halted"}
  /\ Fresh("panic", text)
  /\ UNCHANGED cursor

\* The message is out and the processor stops, interrupts off.
Halt ==
  /\ phase = "panic" /\ todo = <<>>
  /\ phase' = "halted"
  /\ UNCHANGED <<todo, term, buffer, cursor, line>>

Next ==
  \/ Write
  \/ StartShell
  \/ ShellReady
  \/ \E code \in Codes, mods \in SUBSET Mods : key_down(code, mods)
  \/ \E text \in PanicTexts : panic(text)
  \/ Halt

Spec == Init /\ [][Next]_vars

-----------------------------------------------------------------------------

Position == Index(term.row, term.column)

\* The row and the column are always on the screen, which the asserts of
\* set_pos and set_cursor ask for and the indexing of putc and
\* set_cursor_to_pos relies on.
TypeOK ==
  /\ phase \in {"kernel", "welcome", "shell", "panic", "halted"}
  /\ todo \in Seq(Glyphs \cup {"\n"})
  /\ term \in Terminals
  /\ buffer \in [Indices -> Glyphs]
  /\ cursor \in [low : 0 .. BYTE - 1, high : 0 .. BYTE - 1]
  /\ line \in Seq(Glyphs) /\ Len(line) <= HEIGHT * WIDTH

\* From the moment the shell takes keys, the cursor the user sees stands where
\* the next character will appear: after the greeting, whose length the
\* constructor's set_cursor(1, 0) takes for granted, and after every key.
CursorFollows ==
  phase = "shell" => cursor.low + BYTE * cursor.high = Position

\* What was written last, less what was erased, stands in the cells right before
\* the position, in order and across the ends of lines and of the screen: the
\* lines of kernel_main, a panic's message, and what is typed and corrected in
\* the shell, where a backspace takes exactly one character back.
LineShown ==
  \A k \in 1 .. Len(line) :
    buffer[(Position + HEIGHT * WIDTH - k) % (HEIGHT * WIDTH)]
      = line[Len(line) + 1 - k]

Tape == INSTANCE TextTape WITH Cells <- HEIGHT * WIDTH, Line <- WIDTH,
                               tape <- buffer, pos <- Position

\* Rows, columns and their wrapping, advance_char, crlf and retreat_char, and
\* the two resets (the shell's and a new terminal's) are a tape closed to a ring.
ImplementsTape == Tape!Spec
=============================================================================
