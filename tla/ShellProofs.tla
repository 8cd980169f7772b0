----------------------------- MODULE ShellProofs -----------------------------
(***************************************************************************)
(* Proofs about the screen of gullfoss and its writers, for a screen of    *)
(* any size, any texts, any keys and any key map.                          *)
(***************************************************************************)
EXTENDS Shell, RingArithmetic, SequenceTheorems

Cells == HEIGHT * WIDTH

Pos(t) == Index(t.row, t.column)

-----------------------------------------------------------------------------
(* The terminal's moves are moves on a ring of cells.                      *)

\* The sizes are positive.
LEMMA SizeFacts == HEIGHT \in Nat \ {0} /\ WIDTH \in Nat \ {0}
BY ScreenAssumption

\* A terminal's row, column and position.
LEMMA TerminalFacts ==
    ASSUME NEW t \in Terminals
    PROVE  /\ t.row \in 0 .. HEIGHT - 1 /\ t.column \in 0 .. WIDTH - 1
           /\ t = [row |-> t.row, column |-> t.column]
           /\ Pos(t) = t.row * WIDTH + t.column
           /\ Pos(t) \in 0 .. Cells - 1
           /\ Cells \in Nat \ {0}
<1>1. t.row \in 0 .. HEIGHT - 1 /\ t.column \in 0 .. WIDTH - 1
  BY DEF Terminals
<1>2. t = [row |-> t.row, column |-> t.column]
  BY DEF Terminals
<1>3. Pos(t) = t.row * WIDTH + t.column
  BY DEF Pos, Index
<1>4. t.row * WIDTH + t.column \in 0 .. Cells - 1 /\ Cells \in Nat \ {0}
  BY <1>1, SizeFacts, IndexBounds DEF Cells
<1>5. QED
  BY <1>1, <1>2, <1>3, <1>4

\* A terminal from its row and column.
LEMMA ATerminal ==
    ASSUME NEW r \in 0 .. HEIGHT - 1, NEW c \in 0 .. WIDTH - 1
    PROVE  /\ [row |-> r, column |-> c] \in Terminals
           /\ Pos([row |-> r, column |-> c]) = r * WIDTH + c
BY DEF Terminals, Pos, Index

\* advance_char is one cell on.
LEMMA Advance ==
    ASSUME NEW t \in Terminals
    PROVE  /\ advance_char(t) \in Terminals
           /\ Pos(advance_char(t)) = (Pos(t) + 1) % Cells
<1> DEFINE r == IF t.row + 1 = HEIGHT THEN 0 ELSE t.row + 1
<1>1. /\ t.row \in 0 .. HEIGHT - 1 /\ t.column \in 0 .. WIDTH - 1
      /\ t = [row |-> t.row, column |-> t.column]
      /\ Pos(t) = t.row * WIDTH + t.column
  BY TerminalFacts
<1>2. (t.row * WIDTH + t.column + 1) % Cells
        = IF t.column + 1 = WIDTH THEN r * WIDTH ELSE t.row * WIDTH + (t.column + 1)
  BY <1>1, SizeFacts, NextIndex DEF Cells
<1>3. CASE t.column + 1 = WIDTH
  <2>1. r \in 0 .. HEIGHT - 1 /\ 0 \in 0 .. WIDTH - 1
    BY <1>1, SizeFacts
  <2>2. advance_char(t) = [row |-> r, column |-> 0]
    BY <1>1, <1>3 DEF advance_char, crlf, cr, advance_row, indent
  <2>3. r * WIDTH + 0 = r * WIDTH
    BY <2>1, SizeFacts, SMTT(30)
  <2>4. QED
    BY <1>1, <1>2, <1>3, <2>1, <2>2, <2>3, ATerminal
<1>4. CASE t.column + 1 # WIDTH
  <2>1. t.column + 1 \in 0 .. WIDTH - 1
    BY <1>1, <1>4, SizeFacts
  <2>2. advance_char(t) = [row |-> t.row, column |-> t.column + 1]
    BY <1>1, <1>4 DEF advance_char
  <2>3. QED
    BY <1>1, <1>2, <1>4, <2>1, <2>2, ATerminal
<1>5. QED
  BY <1>3, <1>4

\* crlf goes to the start of the next line.
LEMMA LineFeed ==
    ASSUME NEW t \in Terminals
    PROVE  /\ crlf(t) \in Terminals
           /\ Pos(crlf(t)) = ((Pos(t) \div WIDTH + 1) * WIDTH) % Cells
<1> DEFINE r == IF t.row + 1 = HEIGHT THEN 0 ELSE t.row + 1
<1>1. /\ t.row \in 0 .. HEIGHT - 1 /\ t.column \in 0 .. WIDTH - 1
      /\ t = [row |-> t.row, column |-> t.column]
      /\ Pos(t) = t.row * WIDTH + t.column
  BY TerminalFacts
<1>2. (((t.row * WIDTH + t.column) \div WIDTH + 1) * WIDTH) % Cells = r * WIDTH
  BY <1>1, SizeFacts, FeedIndex DEF Cells
<1>3. r \in 0 .. HEIGHT - 1 /\ 0 \in 0 .. WIDTH - 1
  BY <1>1, SizeFacts
<1>4. crlf(t) = [row |-> r, column |-> 0]
  <2>1. cr(t) = [row |-> t.row, column |-> 0]
    BY <1>1 DEF cr, indent
  <2>2. QED
    BY <2>1 DEF crlf, advance_row
<1>5. r * WIDTH + 0 = r * WIDTH
  BY <1>3, SizeFacts, SMTT(30)
<1>6. QED
  BY <1>1, <1>2, <1>3, <1>4, <1>5, ATerminal

\* retreat_char is one cell back.
LEMMA Retreat ==
    ASSUME NEW t \in Terminals
    PROVE  /\ retreat_char(t) \in Terminals
           /\ Pos(retreat_char(t)) = (Pos(t) + Cells - 1) % Cells
<1> DEFINE r == IF t.row = 0 THEN HEIGHT - 1 ELSE t.row - 1
<1>1. /\ t.row \in 0 .. HEIGHT - 1 /\ t.column \in 0 .. WIDTH - 1
      /\ t = [row |-> t.row, column |-> t.column]
      /\ Pos(t) = t.row * WIDTH + t.column
  BY TerminalFacts
<1>2. (t.row * WIDTH + t.column + Cells - 1) % Cells
        = IF t.column = 0 THEN r * WIDTH + (WIDTH - 1)
                          ELSE t.row * WIDTH + (t.column - 1)
  BY <1>1, SizeFacts, PreviousIndex DEF Cells
<1>3. CASE t.column = 0
  <2>1. r \in 0 .. HEIGHT - 1 /\ WIDTH - 1 \in 0 .. WIDTH - 1
    BY <1>1, SizeFacts
  <2>2. retreat_char(t) = [row |-> r, column |-> WIDTH - 1]
    BY <1>3 DEF retreat_char, indent
  <2>3. QED
    BY <1>1, <1>2, <1>3, <2>1, <2>2, ATerminal
<1>4. CASE t.column # 0
  <2>1. t.column - 1 \in 0 .. WIDTH - 1
    BY <1>1, <1>4, SizeFacts
  <2>2. retreat_char(t) = [row |-> t.row, column |-> t.column - 1]
    BY <1>1, <1>4 DEF retreat_char, indent
  <2>3. QED
    BY <1>1, <1>2, <1>4, <2>1, <2>2, ATerminal
<1>5. QED
  BY <1>3, <1>4

\* The position both resets leave.
LEMMA Reset ==
    /\ new_terminal \in Terminals /\ Pos(new_terminal) = 0
    /\ \A t \in Terminals : /\ set_pos(t, 0, 0) \in Terminals
                            /\ Pos(set_pos(t, 0, 0)) = 0
<1>1. 0 \in 0 .. HEIGHT - 1 /\ 0 \in 0 .. WIDTH - 1 /\ 0 * WIDTH + 0 = 0
  BY SizeFacts
<1>2. \A t \in Terminals : set_pos(t, 0, 0) = [row |-> 0, column |-> 0]
  BY DEF set_pos
<1>3. QED
  BY <1>1, <1>2, ATerminal DEF new_terminal

-----------------------------------------------------------------------------
(* What putc does with the characters of a text.                           *)

Buffers == [Indices -> Glyphs]

\* A glyph is stored where the terminal stands, which then moves on.
LEMMA ShowsGlyph ==
    ASSUME TypeOK, NEW c \in Glyphs, Shows(c)
    PROVE  /\ term' = advance_char(term) /\ term' \in Terminals
           /\ Pos(term') = (Pos(term) + 1) % Cells
           /\ buffer' = [buffer EXCEPT ![Pos(term)] = c] /\ buffer' \in Buffers
           /\ line' = Written(c)
<1>1. c # "\n" /\ c # "\r"
  BY GlyphAssumption
<1>2. term' = advance_char(term)
  BY <1>1 DEF Shows, putc
<1>3. buffer' = [buffer EXCEPT ![Pos(term)] = c]
  BY <1>1 DEF Shows, putc, Pos
<1>4. line' = Written(c)
  BY DEF Shows
<1>5. [buffer EXCEPT ![Pos(term)] = c] \in Buffers
  BY DEF TypeOK, Buffers
<1>6. advance_char(term) \in Terminals /\ Pos(advance_char(term)) = (Pos(term) + 1) % Cells
  BY Advance DEF TypeOK
<1>7. QED
  BY <1>2, <1>3, <1>4, <1>5, <1>6

\* A line feed moves the terminal only.
LEMMA ShowsFeed ==
    ASSUME TypeOK, Shows("\n")
    PROVE  /\ term' = crlf(term) /\ term' \in Terminals
           /\ Pos(term') = ((Pos(term) \div WIDTH + 1) * WIDTH) % Cells
           /\ buffer' = buffer
           /\ line' = <<>>
<1>1. term' = crlf(term) /\ buffer' = buffer /\ line' = <<>>
  BY DEF Shows, putc, Written
<1>2. QED
  BY <1>1, LineFeed DEF TypeOK

\* The history of a line after a glyph.
LEMMA WrittenGlyph ==
    ASSUME NEW c \in Glyphs, line \in Seq(Glyphs), Len(line) <= Cells
    PROVE  /\ Written(c) \in Seq(Glyphs)
           /\ Len(Written(c)) = IF Len(line) = Cells THEN Cells ELSE Len(line) + 1
           /\ Written(c)[Len(Written(c))] = c
           /\ \A k \in 2 .. Len(Written(c)) :
                 Written(c)[Len(Written(c)) + 1 - k] = line[Len(line) + 2 - k]
<1> DEFINE l == Append(line, c)
<1>1. c \notin {"\n", "\r"}
  BY GlyphAssumption
<1>2. /\ l \in Seq(Glyphs) /\ l # <<>> /\ Len(l) = Len(line) + 1
      /\ \A i \in 1 .. Len(line) : l[i] = line[i]
      /\ l[Len(line) + 1] = c
  BY AppendProperties
<1>3. Len(line) \in Nat /\ Cells \in Nat \ {0}
  BY SizeFacts, TerminalFacts, Reset, LenProperties
<1>4. Written(c) = IF Len(l) > Cells THEN Tail(l) ELSE l
  BY <1>1 DEF Written, Cells
<1> HIDE DEF l
<1>5. CASE Len(line) = Cells
  <2>1. /\ Tail(l) \in Seq(Glyphs) /\ Len(Tail(l)) = Cells
        /\ \A i \in 1 .. Cells : Tail(l)[i] = l[i + 1]
    BY <1>2, <1>3, <1>5, HeadTailProperties
  <2>2. Written(c) = Tail(l)
    BY <1>2, <1>3, <1>4, <1>5
  <2> DEFINE w == Tail(l)
  <2> HIDE DEF w
  <2>3. w[Cells] = c
    BY <1>2, <1>3, <1>5, <2>1 DEF w
  <2>4. ASSUME NEW k \in 2 .. Cells PROVE w[Cells + 1 - k] = line[Cells + 2 - k]
    <3>1. Cells + 1 - k \in 1 .. Cells /\ Cells + 2 - k \in 1 .. Len(line)
      BY <1>3, <1>5
    <3>2. w[Cells + 1 - k] = l[(Cells + 1 - k) + 1]
      BY <2>1, <3>1 DEF w
    <3>3. (Cells + 1 - k) + 1 = Cells + 2 - k
      BY <1>3
    <3>4. QED
      BY <1>2, <3>1, <3>2, <3>3
  <2>5. QED
    BY <1>3, <1>5, <2>1, <2>2, <2>3, <2>4 DEF w
<1>6. CASE Len(line) # Cells
  <2>1. Written(c) = l
    BY <1>2, <1>3, <1>4, <1>6
  <2>2. ASSUME NEW k \in 2 .. Len(l)
        PROVE  l[Len(l) + 1 - k] = line[Len(line) + 2 - k]
    <3>1. Len(l) + 1 - k = Len(line) + 2 - k /\ Len(line) + 2 - k \in 1 .. Len(line)
      BY <1>2, <1>3
    <3>2. QED
      BY <1>2, <3>1
  <2>3. QED
    BY <1>2, <1>6, <2>1, <2>2
<1>7. QED
  BY <1>5, <1>6

\* The cursor's registers hold its place: the 16 bits are enough for a screen.
LEMMA CursorRegisters ==
    ASSUME NEW t \in Terminals
    PROVE  LET s == set_cursor(t.row, t.column)
           IN  /\ s \in [low : 0 .. BYTE - 1, high : 0 .. BYTE - 1]
               /\ s.low + BYTE * s.high = Pos(t)
<1> DEFINE i == Pos(t)
           q == i \div BYTE
<1>1. BYTE \in Nat \ {0} /\ Cells <= BYTE * BYTE /\ BYTE * BYTE \in Nat
  <2>1. BYTE \in Nat /\ Cells <= BYTE * BYTE
    BY ScreenAssumption DEF Cells
  <2>2. Cells >= 1
    BY TerminalFacts
  <2>3. BYTE * BYTE \in Nat
    BY <2>1, SMTT(30)
  <2>4. BYTE # 0
    BY <2>1, <2>2, <2>3, TerminalFacts
  <2>5. QED
    BY <2>1, <2>3, <2>4
<1>2. i \in Nat /\ i < BYTE * BYTE
  BY <1>1, TerminalFacts
<1>3. set_cursor(t.row, t.column) = [low |-> i % BYTE, high |-> q % BYTE]
  BY DEF set_cursor, Pos
<1> HIDE DEF i
<1>4. /\ q \in Nat /\ i % BYTE \in 0 .. BYTE - 1
      /\ i = BYTE * q + (i % BYTE) /\ BYTE * q \in Nat
  BY <1>1, <1>2, SMTT(30)
<1> HIDE DEF q
<1>5. q < BYTE
  <2>1. SUFFICES ASSUME BYTE <= q PROVE FALSE
    BY <1>1, <1>4
  <2>2. BYTE * BYTE <= BYTE * q
    BY <1>1, <1>4, <2>1, SMTT(30)
  <2>3. QED
    BY <1>1, <1>2, <1>4, <2>2
<1>6. q % BYTE = q
  <2>1. q \in 0 .. 2 * BYTE - 1
    BY <1>1, <1>4, <1>5
  <2>2. QED
    BY <1>1, <1>4, <1>5, <2>1, ModRing
<1>7. set_cursor(t.row, t.column) = [low |-> i % BYTE, high |-> q]
  BY <1>3, <1>6
<1>8. (i % BYTE) + BYTE * q = i
  BY <1>1, <1>2, <1>4
<1>9. QED
  BY <1>1, <1>4, <1>5, <1>7, <1>8 DEF i

-----------------------------------------------------------------------------
(* Types.                                                                  *)

\* The texts are made of what the terminal can write.
LEMMA TextFacts ==
    /\ \A text \in KernelTexts \cup PanicTexts \cup {Welcome} : text \in Texts
    /\ Lower \in [Codes -> Glyphs \cup {"\n", NUL}]
    /\ Upper \in [Codes -> Glyphs \cup {"\n", NUL}]
BY TextAssumption

\* A character is written: terminal, buffer and history keep their types.
LEMMA ShowsTypeOK ==
    ASSUME TypeOK, NEW c \in Glyphs \cup {"\n"}, Shows(c)
    PROVE  /\ term' \in Terminals /\ buffer' \in Buffers
           /\ line' \in Seq(Glyphs) /\ Len(line') <= Cells
<1>1. /\ term \in Terminals /\ buffer \in Buffers
      /\ line \in Seq(Glyphs) /\ Len(line) <= Cells
  BY DEF TypeOK, Buffers, Cells
<1>2. Cells \in Nat /\ Len(line) \in Nat
  BY <1>1, TerminalFacts, LenProperties
<1>3. CASE c = "\n"
  BY <1>1, <1>2, <1>3, ShowsFeed, EmptySeq
<1>4. CASE c \in Glyphs
  <2>1. Written(c) \in Seq(Glyphs) /\ Len(Written(c)) <= Cells
    BY <1>1, <1>2, <1>4, WrittenGlyph
  <2>2. QED
    BY <1>4, <2>1, ShowsGlyph
<1>5. QED
  BY <1>3, <1>4

\* The history without its last character.
LEMMA FrontFacts ==
    ASSUME NEW l \in Seq(Glyphs), l # <<>>
    PROVE  /\ Front(l) \in Seq(Glyphs) /\ Len(Front(l)) = Len(l) - 1
           /\ \A i \in 1 .. Len(l) - 1 : Front(l)[i] = l[i]
<1>1. Len(l) \in Nat \ {0}
  BY EmptySeq
<1>2. \A i \in 1 .. Len(l) - 1 : l[i] \in Glyphs
  BY <1>1, ElementOfSeq
<1>3. /\ SubSeq(l, 1, Len(l) - 1) \in Seq(Glyphs)
      /\ Len(SubSeq(l, 1, Len(l) - 1)) = Len(l) - 1
      /\ \A i \in 1 .. Len(l) - 1 : SubSeq(l, 1, Len(l) - 1)[i] = l[i]
  <2> DEFINE n == Len(l) - 1
  <2>1. n \in Int /\ 1 \in Int /\ (\A i \in 1 .. n : l[i] \in Glyphs)
    BY <1>1, <1>2
  <2> HIDE DEF n
  <2>2. /\ SubSeq(l, 1, n) \in Seq(Glyphs)
        /\ Len(SubSeq(l, 1, n)) = IF 1 <= n THEN n - 1 + 1 ELSE 0
        /\ \A i \in 1 .. n - 1 + 1 : SubSeq(l, 1, n)[i] = l[1 + i - 1]
    BY <2>1, SubSeqProperties
  <2>3. n \in Nat
    BY <1>1 DEF n
  <2>4. Len(SubSeq(l, 1, n)) = n /\ \A i \in 1 .. n : SubSeq(l, 1, n)[i] = l[i]
    BY <2>2, <2>3
  <2>5. QED
    BY <2>2, <2>4 DEF n
<1>4. QED
  BY <1>3 DEF Front

\* What a backspace does, and that it keeps the types.
LEMMA ErasesFacts ==
    ASSUME TypeOK, Erases
    PROVE  /\ term' = retreat_char(term) /\ term' \in Terminals
           /\ buffer' = [buffer EXCEPT ![Pos(term')] = Blank] /\ buffer' \in Buffers
           /\ line' = IF line = <<>> THEN <<>> ELSE Front(line)
           /\ line' \in Seq(Glyphs) /\ Len(line') <= Cells
<1>1. /\ term \in Terminals /\ buffer \in Buffers
      /\ line \in Seq(Glyphs) /\ Len(line) <= Cells
  BY DEF TypeOK, Buffers, Cells
<1>2. retreat_char(term) \in Terminals
  BY <1>1, Retreat
<1>3. Blank \in Glyphs
  BY GlyphAssumption
<1>4. /\ term' = retreat_char(term)
      /\ buffer' = [buffer EXCEPT ![Pos(term')] = Blank] /\ buffer' \in Buffers
  <2>1. Blank # "\n" /\ Blank # "\r"
    BY GlyphAssumption
  <2>2. term' = retreat_char(term)
    BY <2>1 DEF Erases, putc
  <2>3. buffer' = [buffer EXCEPT ![Pos(retreat_char(term))] = Blank]
    BY <2>1 DEF Erases, putc, Pos
  <2>4. [buffer EXCEPT ![Pos(retreat_char(term))] = Blank] \in Buffers
    BY <1>1, <1>3 DEF Buffers
  <2>5. QED
    BY <2>2, <2>3, <2>4
<1>5. line' = IF line = <<>> THEN <<>> ELSE Front(line)
  BY DEF Erases
<1>6. Cells \in Nat
  BY <1>1, TerminalFacts
<1>7. CASE line = <<>>
  BY <1>2, <1>4, <1>5, <1>6, <1>7, EmptySeq
<1>8. CASE line # <<>>
  <2>1. /\ Front(line) \in Seq(Glyphs) /\ Len(Front(line)) = Len(line) - 1
        /\ Len(line) \in Nat
    BY <1>1, <1>8, FrontFacts, LenProperties
  <2>2. QED
    BY <1>1, <1>2, <1>4, <1>5, <1>6, <1>8, <2>1
<1>9. QED
  BY <1>7, <1>8

-----------------------------------------------------------------------------
(* What a step does to the screen.                                         *)

\* The two resets, of a new terminal and of the shell.
Resets == /\ term' \in Terminals /\ Pos(term') = 0
          /\ buffer' = cleared /\ line' = <<>>

LEMMA ClearedFacts == cleared \in Buffers
BY GlyphAssumption DEF cleared, Buffers

\* What a key does.
LEMMA KeyCases ==
    ASSUME TypeOK, NEW code \in Codes, NEW mods \in SUBSET Mods, key_down(code, mods)
    PROVE  /\ phase = "shell" /\ phase' = phase /\ todo' = todo
           /\ cursor' = set_cursor(term'.row, term'.column)
           /\ \/ \E c \in Glyphs \cup {"\n"} : Shows(c)
              \/ Erases
              \/ UNCHANGED <<term, buffer, line>>
<1> DEFINE c == to_ascii(code, mods)
<1>1. c \in Glyphs \cup {"\n", NUL}
  BY TextFacts DEF to_ascii
<1>2. /\ phase = "shell" /\ phase' = phase /\ todo' = todo
      /\ cursor' = set_cursor(term'.row, term'.column)
  BY DEF key_down
<1>3. \/ Erases \/ (c # NUL /\ Shows(c)) \/ UNCHANGED <<term, buffer, line>>
  BY DEF key_down
<1>4. QED
  BY <1>1, <1>2, <1>3

\* The first character of a text and what is left of it.
LEMMA TodoFacts ==
    ASSUME TypeOK, todo # <<>>
    PROVE  /\ Head(todo) \in Glyphs \cup {"\n"}
           /\ Tail(todo) \in Texts
BY HeadTailProperties DEF TypeOK, Texts

\* Every step writes a character, erases one, resets the screen or leaves it.
LEMMA ScreenCases ==
    ASSUME TypeOK, [Next]_vars
    PROVE  \/ \E c \in Glyphs \cup {"\n"} : Shows(c)
           \/ Erases
           \/ Resets
           \/ UNCHANGED <<term, buffer, line>>
<1>1. CASE Write
  BY <1>1, TodoFacts DEF Write
<1>2. CASE StartShell
  <2>1. term \in Terminals
    BY DEF TypeOK
  <2>2. Resets
    BY <1>2, <2>1, Reset DEF StartShell, Resets
  <2>3. QED
    BY <2>2
<1>3. CASE ShellReady
  BY <1>3 DEF ShellReady
<1>4. ASSUME NEW code \in Codes, NEW mods \in SUBSET Mods, key_down(code, mods)
      PROVE  \/ \E c \in Glyphs \cup {"\n"} : Shows(c)
             \/ Erases
             \/ UNCHANGED <<term, buffer, line>>
  BY <1>4, KeyCases
<1>5. ASSUME NEW text \in PanicTexts, panic(text)
      PROVE  Resets
  BY <1>5, Reset DEF panic, Fresh, Resets
<1>6. CASE Halt
  BY <1>6 DEF Halt
<1>7. CASE UNCHANGED vars
  BY <1>7 DEF vars
<1>8. QED
  BY <1>1, <1>2, <1>3, <1>4, <1>5, <1>6, <1>7 DEF Next

-----------------------------------------------------------------------------
(* The invariant.                                                          *)

\* While the greeting is written the terminal has moved one column for each of
\* its characters, and to the next row with the last.
GreetingWritten ==
  phase = "welcome" =>
     \E j \in 0 .. Len(Welcome) :
        /\ todo = SubSeq(Welcome, j + 1, Len(Welcome))
        /\ term = IF j = Len(Welcome) THEN [row |-> 1, column |-> 0]
                                      ELSE [row |-> 0, column |-> j]

\* In the shell nothing but a key moves the terminal, and every key sets the
\* cursor.
CursorSet ==
  phase = "shell" => /\ todo = <<>>
                     /\ cursor = set_cursor(term.row, term.column)

IInv == TypeOK /\ LineShown /\ GreetingWritten /\ CursorSet

\* Initially.
LEMMA InitIInv == Init => IInv
<1> SUFFICES ASSUME Init PROVE IInv
  OBVIOUS
<1>1. TypeOK
  <2>1. todo \in Texts
    BY TextFacts DEF Init
  <2>2. term \in Terminals /\ buffer \in Buffers
    BY Reset, ClearedFacts DEF Init
  <2>3. line \in Seq(Glyphs) /\ Len(line) <= HEIGHT * WIDTH
    BY EmptySeq, Reset, TerminalFacts DEF Init, Cells
  <2>4. QED
    BY <2>1, <2>2, <2>3 DEF Init, TypeOK, Texts, Buffers
<1>2. LineShown
  BY EmptySeq DEF Init, LineShown
<1>3. QED
  BY <1>1, <1>2 DEF Init, IInv, GreetingWritten, CursorSet

\* Types are kept.
LEMMA StepTypeOK ==
    ASSUME TypeOK, [Next]_vars
    PROVE  TypeOK'
<1>1. /\ term' \in Terminals /\ buffer' \in Buffers
      /\ line' \in Seq(Glyphs) /\ Len(line') <= Cells
  <2>1. ASSUME NEW c \in Glyphs \cup {"\n"}, Shows(c)
        PROVE  /\ term' \in Terminals /\ buffer' \in Buffers
               /\ line' \in Seq(Glyphs) /\ Len(line') <= Cells
    BY <2>1, ShowsTypeOK
  <2>2. CASE Erases
    BY <2>2, ErasesFacts
  <2>3. CASE Resets
    BY <2>3, ClearedFacts, EmptySeq, TerminalFacts DEF Resets
  <2>4. CASE UNCHANGED <<term, buffer, line>>
    BY <2>4 DEF TypeOK, Buffers, Cells
  <2>5. QED
    BY <2>1, <2>2, <2>3, <2>4, ScreenCases
<1>2. /\ phase' \in {"kernel", "welcome", "shell", "panic", "halted"}
      /\ todo' \in Texts
      /\ cursor' \in [low : 0 .. BYTE - 1, high : 0 .. BYTE - 1]
  <2>1. CASE Write
    BY <2>1, TodoFacts DEF Write, TypeOK
  <2>2. CASE StartShell
    BY <2>2, TextFacts DEF StartShell, TypeOK
  <2>3. CASE ShellReady
    <3>1. 1 \in 0 .. HEIGHT - 1 /\ 0 \in 0 .. WIDTH - 1
      BY ScreenAssumption
    <3>2. [row |-> 1, column |-> 0] \in Terminals
      BY <3>1, ATerminal
    <3>3. set_cursor(1, 0) \in [low : 0 .. BYTE - 1, high : 0 .. BYTE - 1]
      BY <3>2, CursorRegisters
    <3>4. QED
      BY <2>3, <3>3 DEF ShellReady, TypeOK, Texts
  <2>4. ASSUME NEW code \in Codes, NEW mods \in SUBSET Mods, key_down(code, mods)
        PROVE  /\ phase' = "shell" /\ todo' \in Texts
               /\ cursor' \in [low : 0 .. BYTE - 1, high : 0 .. BYTE - 1]
    <3>1. set_cursor(term'.row, term'.column)
            \in [low : 0 .. BYTE - 1, high : 0 .. BYTE - 1]
      BY <1>1, CursorRegisters
    <3>2. QED
      BY <2>4, <3>1, KeyCases DEF TypeOK, Texts
  <2>5. ASSUME NEW text \in PanicTexts, panic(text)
        PROVE  /\ phase' = "panic" /\ todo' \in Texts /\ cursor' = cursor
    BY <2>5, TextFacts DEF panic, Fresh
  <2>6. CASE Halt
    BY <2>6 DEF Halt, TypeOK, Texts
  <2>7. CASE UNCHANGED vars
    BY <2>7 DEF vars, TypeOK, Texts
  <2>8. QED
    BY <2>1, <2>2, <2>3, <2>4, <2>5, <2>6, <2>7 DEF Next, TypeOK
<1>3. QED
  BY <1>1, <1>2 DEF TypeOK, Texts, Buffers, Cells

\* What LineShown says, in steps back from the position.
LEMMA LineShownBack ==
    LineShown <=> \A k \in 1 .. Len(line) :
                     buffer[Back(Pos(term), k, Cells)] = line[Len(line) + 1 - k]
BY DEF LineShown, Back, Pos, Position, Cells

\* A glyph: the line moves one step back and gets a last character; the one
\* that a full screen overwrites is no longer in it.
LEMMA GlyphLineShown ==
    ASSUME TypeOK, LineShown, NEW c \in Glyphs, Shows(c)
    PROVE  \A k \in 1 .. Len(line') :
              buffer'[Back(Pos(term'), k, Cells)] = line'[Len(line') + 1 - k]
<1> DEFINE p == Pos(term)
           q == Pos(term')
<1>1. /\ term \in Terminals /\ buffer \in [0 .. Cells - 1 -> Glyphs]
      /\ line \in Seq(Glyphs) /\ Len(line) \in Nat /\ Len(line) <= Cells
  BY LenProperties DEF TypeOK, Cells, Indices
<1>2. p \in 0 .. Cells - 1 /\ Cells \in Nat \ {0} /\ q = (p + 1) % Cells
  BY <1>1, TerminalFacts, ShowsGlyph
<1>3. buffer' = [buffer EXCEPT ![p] = c] /\ line' = Written(c)
  BY ShowsGlyph
<1> HIDE DEF p, q
<1>4. /\ Len(line') = IF Len(line) = Cells THEN Cells ELSE Len(line) + 1
      /\ line'[Len(line')] = c
      /\ \A k \in 2 .. Len(line') :
            line'[Len(line') + 1 - k] = line[Len(line) + 2 - k]
  BY <1>1, <1>3, WrittenGlyph
<1>5. Len(line') \in 1 .. Cells /\ Len(line') <= Len(line) + 1
  BY <1>1, <1>2, <1>4
<1>6. buffer'[Back(q, 1, Cells)] = line'[Len(line') + 1 - 1]
  <2>1. Back(q, 1, Cells) = p
    BY <1>2, BeforeNext
  <2>2. Len(line') + 1 - 1 = Len(line')
    BY <1>5
  <2>3. QED
    BY <1>1, <1>2, <1>3, <1>4, <2>1, <2>2
<1>7. ASSUME NEW k \in 2 .. Len(line')
      PROVE  buffer'[Back(q, k, Cells)] = line'[Len(line') + 1 - k]
  <2>1. k \in 2 .. Cells /\ k - 1 \in 1 .. Len(line)
    BY <1>1, <1>2, <1>5
  <2>2. /\ Back(q, k, Cells) = Back(p, k - 1, Cells)
        /\ Back(p, k - 1, Cells) # p
        /\ Back(p, k - 1, Cells) \in 0 .. Cells - 1
    BY <1>2, <2>1, BeforeNext
  <2>3. buffer'[Back(q, k, Cells)] = buffer[Back(p, k - 1, Cells)]
    BY <1>1, <1>3, <2>2
  <2>4. buffer[Back(p, k - 1, Cells)] = line[Len(line) + 1 - (k - 1)]
    BY <2>1, LineShownBack DEF p
  <2>5. Len(line) + 1 - (k - 1) = Len(line) + 2 - k
    BY <1>1, <2>1
  <2>6. QED
    BY <1>4, <2>3, <2>4, <2>5
<1>8. ASSUME NEW k \in 1 .. Len(line')
      PROVE  buffer'[Back(q, k, Cells)] = line'[Len(line') + 1 - k]
  <2>1. k = 1 \/ k \in 2 .. Len(line')
    BY <1>5
  <2>2. QED
    BY <1>6, <1>7, <2>1
<1>9. QED
  BY <1>8 DEF q

\* A backspace: the line moves one step forward and loses its last character.
LEMMA ErasesLineShown ==
    ASSUME TypeOK, LineShown, Erases
    PROVE  \A k \in 1 .. Len(line') :
              buffer'[Back(Pos(term'), k, Cells)] = line'[Len(line') + 1 - k]
<1> DEFINE p == Pos(term)
           q == Pos(term')
<1>1. /\ term \in Terminals /\ buffer \in [0 .. Cells - 1 -> Glyphs]
      /\ line \in Seq(Glyphs) /\ Len(line) \in Nat /\ Len(line) <= Cells
  BY LenProperties DEF TypeOK, Cells, Indices
<1>2. p \in 0 .. Cells - 1 /\ Cells \in Nat \ {0} /\ q = Back(p, 1, Cells)
  BY <1>1, TerminalFacts, ErasesFacts, Retreat DEF Back
<1>3. buffer' = [buffer EXCEPT ![q] = Blank]
  BY ErasesFacts
<1> HIDE DEF p, q
<1>4. CASE line = <<>>
  <2>1. Len(line') = 0
    BY <1>4, ErasesFacts
  <2>2. QED
    BY <2>1
<1>5. CASE line # <<>>
  <2>1. /\ Len(line') = Len(line) - 1
        /\ \A i \in 1 .. Len(line) - 1 : line'[i] = line[i]
    BY <1>1, <1>5, ErasesFacts, FrontFacts
  <2>2. ASSUME NEW k \in 1 .. Len(line')
        PROVE  buffer'[Back(q, k, Cells)] = line'[Len(line') + 1 - k]
    <3>1. k \in 1 .. Cells - 1 /\ k + 1 \in 1 .. Len(line)
      BY <1>1, <1>2, <2>1
    <3>2. /\ Back(q, k, Cells) = Back(p, k + 1, Cells)
          /\ Back(p, k + 1, Cells) # q
          /\ Back(p, k + 1, Cells) \in 0 .. Cells - 1
      BY <1>2, <3>1, BeforePrevious
    <3>3. buffer'[Back(q, k, Cells)] = buffer[Back(p, k + 1, Cells)]
      BY <1>1, <1>3, <3>2
    <3>4. buffer[Back(p, k + 1, Cells)] = line[Len(line) + 1 - (k + 1)]
      BY <3>1, LineShownBack DEF p
    <3>5. /\ Len(line) + 1 - (k + 1) = Len(line') + 1 - k
          /\ Len(line') + 1 - k \in 1 .. Len(line) - 1
      BY <1>1, <2>1
    <3>6. QED
      BY <2>1, <3>3, <3>4, <3>5
  <2>3. QED
    BY <2>2 DEF q
<1>6. QED
  BY <1>4, <1>5

\* What was written last stays shown.
LEMMA StepLineShown ==
    ASSUME TypeOK, LineShown, [Next]_vars
    PROVE  LineShown'
<1> SUFFICES \A k \in 1 .. Len(line') :
                buffer'[Back(Pos(term'), k, Cells)] = line'[Len(line') + 1 - k]
  BY DEF LineShown, Back, Pos, Position, Cells
<1>1. ASSUME NEW c \in Glyphs \cup {"\n"}, Shows(c)
      PROVE  \A k \in 1 .. Len(line') :
                buffer'[Back(Pos(term'), k, Cells)] = line'[Len(line') + 1 - k]
  <2>1. CASE c = "\n"
    <3>1. Len(line') = 0
      BY <1>1, <2>1, ShowsFeed
    <3>2. QED
      BY <3>1
  <2>2. CASE c \in Glyphs
    BY <1>1, <2>2, GlyphLineShown
  <2>3. QED
    BY <2>1, <2>2
<1>2. CASE Erases
  BY <1>2, ErasesLineShown
<1>3. CASE Resets
  <2>1. Len(line') = 0
    BY <1>3 DEF Resets
  <2>2. QED
    BY <2>1
<1>4. CASE UNCHANGED <<term, buffer, line>>
  BY <1>4, LineShownBack
<1>5. QED
  BY <1>1, <1>2, <1>3, <1>4, ScreenCases

\* The greeting's characters are its glyphs and the line feed at its end.
LEMMA WelcomeFacts ==
    /\ Welcome \in Texts /\ Len(Welcome) \in Nat
    /\ Len(Welcome) >= 1 /\ Len(Welcome) <= WIDTH
    /\ \A i \in 1 .. Len(Welcome) - 1 : Welcome[i] \in Glyphs
    /\ Welcome[Len(Welcome)] = "\n"
<1>1. /\ Welcome \in Texts /\ Len(Welcome) \in 1 .. WIDTH
      /\ \A i \in 1 .. Len(Welcome) : Welcome[i] = "\n" <=> i = Len(Welcome)
  BY WelcomeAssumption, TextFacts
<1>2. \A i \in 1 .. Len(Welcome) : Welcome[i] \in Glyphs \cup {"\n"}
  BY <1>1, ElementOfSeq DEF Texts
<1>3. QED
  BY <1>1, <1>2, SizeFacts

\* The rest of the greeting, from its character j + 1.
LEMMA WelcomeRest ==
    ASSUME NEW j \in 0 .. Len(Welcome)
    PROVE  /\ SubSeq(Welcome, j + 1, Len(Welcome)) = <<>> <=> j = Len(Welcome)
           /\ j < Len(Welcome) =>
                 /\ Head(SubSeq(Welcome, j + 1, Len(Welcome))) = Welcome[j + 1]
                 /\ Tail(SubSeq(Welcome, j + 1, Len(Welcome)))
                       = SubSeq(Welcome, (j + 1) + 1, Len(Welcome))
<1>1. Welcome \in Seq(Glyphs \cup {"\n"}) /\ Len(Welcome) \in Nat
  BY WelcomeFacts DEF Texts
<1>2. CASE j = Len(Welcome)
  <2>1. SubSeq(Welcome, j + 1, Len(Welcome)) = <<>>
    BY <1>1, <1>2, SubSeqEmpty
  <2>2. QED
    BY <1>1, <1>2, <2>1
<1>3. CASE j < Len(Welcome)
  <2> DEFINE m == j + 1
  <2>1. m \in 1 .. Len(Welcome) /\ Len(Welcome) \in m .. Len(Welcome)
    BY <1>1, <1>3
  <2> HIDE DEF m
  <2>2. /\ Head(SubSeq(Welcome, m, Len(Welcome))) = Welcome[m]
        /\ Tail(SubSeq(Welcome, m, Len(Welcome)))
              = SubSeq(Welcome, m + 1, Len(Welcome))
    BY <1>1, <2>1, HeadTailOfSubSeq
  <2>3. SubSeq(Welcome, m, Len(Welcome)) # <<>>
    <3> DEFINE r == SubSeq(Welcome, m, Len(Welcome))
    <3>1. Len(r) = Len(Welcome) - m + 1
      BY <1>1, <2>1
    <3> HIDE DEF r
    <3>2. Len(r) # 0
      BY <1>1, <2>1, <3>1
    <3>3. r # <<>>
      BY <3>2
    <3>4. QED
      BY <3>3 DEF r
  <2>4. QED
    BY <1>1, <1>3, <2>2, <2>3 DEF m
<1>4. QED
  BY <1>1, <1>2, <1>3

\* A character of the greeting moves the terminal on.
LEMMA WriteGreeting ==
    ASSUME TypeOK, GreetingWritten, phase = "welcome", Write
    PROVE  GreetingWritten'
<1>1. PICK j \in 0 .. Len(Welcome) :
         /\ todo = SubSeq(Welcome, j + 1, Len(Welcome))
         /\ term = IF j = Len(Welcome) THEN [row |-> 1, column |-> 0]
                                       ELSE [row |-> 0, column |-> j]
  BY DEF GreetingWritten
<1>2. todo # <<>> /\ todo' = Tail(todo) /\ Shows(Head(todo)) /\ phase' = phase
  BY DEF Write
<1>3. j < Len(Welcome) /\ j \in Nat /\ Len(Welcome) \in Nat /\ Len(Welcome) <= WIDTH
  BY <1>1, <1>2, WelcomeRest, WelcomeFacts
<1>4. /\ Head(todo) = Welcome[j + 1]
      /\ todo' = SubSeq(Welcome, (j + 1) + 1, Len(Welcome))
  BY <1>1, <1>2, <1>3, WelcomeRest
<1>5. term = [row |-> 0, column |-> j]
  BY <1>1, <1>3
<1>6. term' = IF j + 1 = Len(Welcome) THEN [row |-> 1, column |-> 0]
                                      ELSE [row |-> 0, column |-> j + 1]
  <2>1. CASE j + 1 = Len(Welcome)
    <3>1. Shows("\n")
      BY <1>2, <1>4, <2>1, WelcomeFacts
    <3>2. term' = crlf(term)
      BY <3>1, ShowsFeed
    <3>3. 0 + 1 # HEIGHT
      BY ScreenAssumption
    <3>4. cr(term) = [row |-> 0, column |-> 0]
      BY <1>5 DEF cr, indent
    <3>5. crlf(term) = [row |-> 1, column |-> 0]
      BY <3>3, <3>4 DEF crlf, advance_row
    <3>6. QED
      BY <2>1, <3>2, <3>5
  <2>2. CASE j + 1 # Len(Welcome)
    <3>1. Head(todo) \in Glyphs
      BY <1>3, <1>4, <2>2, WelcomeFacts
    <3>2. term' = advance_char(term)
      BY <1>2, <3>1, ShowsGlyph
    <3>3. j + 1 # WIDTH
      BY <1>3, <2>2
    <3>4. advance_char(term) = [row |-> 0, column |-> j + 1]
      BY <1>5, <3>3 DEF advance_char
    <3>5. QED
      BY <2>2, <3>2, <3>4
  <2>3. QED
    BY <2>1, <2>2
<1>7. j + 1 \in 0 .. Len(Welcome)
  BY <1>3
<1>8. QED
  BY <1>4, <1>6, <1>7 DEF GreetingWritten

\* The greeting ends where the constructor puts the cursor.
LEMMA ReadySetsCursor ==
    ASSUME GreetingWritten, ShellReady
    PROVE  todo' = <<>> /\ cursor' = set_cursor(term'.row, term'.column)
<1>1. phase = "welcome" /\ todo = <<>> /\ todo' = todo /\ term' = term
      /\ cursor' = set_cursor(1, 0)
  BY DEF ShellReady
<1>2. PICK j \in 0 .. Len(Welcome) :
         /\ todo = SubSeq(Welcome, j + 1, Len(Welcome))
         /\ term = IF j = Len(Welcome) THEN [row |-> 1, column |-> 0]
                                       ELSE [row |-> 0, column |-> j]
  BY <1>1 DEF GreetingWritten
<1>3. j = Len(Welcome)
  BY <1>1, <1>2, WelcomeRest
<1>4. term = [row |-> 1, column |-> 0]
  BY <1>2, <1>3
<1>5. QED
  BY <1>1, <1>4

\* The greeting and the cursor.
LEMMA StepCursor ==
    ASSUME TypeOK, GreetingWritten, CursorSet, [Next]_vars
    PROVE  GreetingWritten' /\ CursorSet'
<1>1. CASE Write
  <2>1. CASE phase = "welcome"
    <3>1. phase' # "shell"
      BY <1>1, <2>1 DEF Write
    <3>2. QED
      BY <1>1, <2>1, <3>1, WriteGreeting DEF CursorSet
  <2>2. CASE phase # "welcome"
    <3>1. phase' # "welcome" /\ phase' # "shell"
      BY <1>1, <2>2 DEF Write, CursorSet
    <3>2. QED
      BY <3>1 DEF GreetingWritten, CursorSet
  <2>3. QED
    BY <2>1, <2>2
<1>2. CASE StartShell
  <2>1. phase' = "welcome" /\ todo' = Welcome /\ term' = [row |-> 0, column |-> 0]
    BY <1>2 DEF StartShell, set_pos
  <2>2. 0 \in 0 .. Len(Welcome) /\ 0 # Len(Welcome)
    BY WelcomeFacts
  <2>3. SubSeq(Welcome, 0 + 1, Len(Welcome)) = Welcome
    <3>1. Welcome \in Seq(Glyphs \cup {"\n"})
      BY WelcomeFacts DEF Texts
    <3>2. SubSeq(Welcome, 1, Len(Welcome)) = Welcome
      BY <3>1, SubSeqFull
    <3>3. QED
      BY <3>2
  <2>4. QED
    BY <2>1, <2>2, <2>3 DEF GreetingWritten, CursorSet
<1>3. CASE ShellReady
  <2>1. phase' = "shell"
    BY <1>3 DEF ShellReady
  <2>2. QED
    BY <1>3, <2>1, ReadySetsCursor DEF GreetingWritten, CursorSet
<1>4. ASSUME NEW code \in Codes, NEW mods \in SUBSET Mods, key_down(code, mods)
      PROVE  GreetingWritten' /\ CursorSet'
  <2>1. /\ phase = "shell" /\ phase' = phase /\ todo' = todo
        /\ cursor' = set_cursor(term'.row, term'.column)
    BY <1>4, KeyCases
  <2>2. QED
    BY <2>1 DEF GreetingWritten, CursorSet
<1>5. ASSUME NEW text \in PanicTexts, panic(text)
      PROVE  GreetingWritten' /\ CursorSet'
  BY <1>5 DEF panic, Fresh, GreetingWritten, CursorSet
<1>6. CASE Halt
  BY <1>6 DEF Halt, GreetingWritten, CursorSet
<1>7. CASE UNCHANGED vars
  BY <1>7 DEF vars, GreetingWritten, CursorSet
<1>8. QED
  BY <1>1, <1>2, <1>3, <1>4, <1>5, <1>6, <1>7 DEF Next

LEMMA Inductive == Spec => []IInv
<1>1. IInv /\ [Next]_vars => IInv'
  BY StepTypeOK, StepLineShown, StepCursor DEF IInv
<1>2. QED
  BY InitIInv, <1>1, PTL DEF Spec

-----------------------------------------------------------------------------
(* What holds of the screen.                                               *)

\* Every variable keeps its type: whatever is written and typed, row and
\* column stay on the screen, as the asserts of set_pos and set_cursor ask,
\* putc writes no cell outside the buffer, and the cursor's place fits in its
\* two registers.
THEOREM ShellTypeCorrect == Spec => []TypeOK
<1>1. IInv => TypeOK
  BY DEF IInv
<1>2. QED
  BY Inductive, <1>1, PTL

\* The last characters written and not erased stand right before the position,
\* across the ends of lines and of the screen, for every text and every key.
THEOREM LineShownAlways == Spec => []LineShown
<1>1. IInv => LineShown
  BY DEF IInv
<1>2. QED
  BY Inductive, <1>1, PTL

\* When the shell takes keys the cursor the user sees is where the next
\* character will appear: set_cursor(1, 0) is right for every greeting of one
\* line, and the two registers hold every position of the screen.
THEOREM CursorFollowsAlways == Spec => []CursorFollows
<1>1. IInv => CursorFollows
  <2>1. SUFFICES ASSUME IInv, phase = "shell"
                 PROVE  cursor.low + BYTE * cursor.high = Position
    BY DEF CursorFollows
  <2>2. term \in Terminals /\ cursor = set_cursor(term.row, term.column)
    BY <2>1 DEF IInv, TypeOK, CursorSet
  <2>3. cursor.low + BYTE * cursor.high = Pos(term)
    BY <2>2, CursorRegisters
  <2>4. QED
    BY <2>3 DEF Pos, Position
<1>2. QED
  BY Inductive, <1>1, PTL

-----------------------------------------------------------------------------
(* The screen implements the tape.                                         *)

\* A character written is a move of the tape.
LEMMA ShowsIsTape ==
    ASSUME TypeOK, NEW c \in Glyphs \cup {"\n"}, Shows(c)
    PROVE  Tape!Next
<1>1. CASE c = "\n"
  <2>1. /\ Pos(term') = ((Pos(term) \div WIDTH + 1) * WIDTH) % Cells
        /\ buffer' = buffer
    BY <1>1, ShowsFeed
  <2>2. Tape!Feed
    BY <2>1 DEF Tape!Feed, Pos, Position, Cells
  <2>3. QED
    BY <2>2 DEF Tape!Next
<1>2. CASE c \in Glyphs
  <2>1. /\ Pos(term') = (Pos(term) + 1) % Cells
        /\ buffer' = [buffer EXCEPT ![Pos(term)] = c]
    BY <1>2, ShowsGlyph
  <2>2. Tape!Put(c)
    BY <2>1 DEF Tape!Put, Pos, Position, Cells
  <2>3. QED
    BY <1>2, <2>2 DEF Tape!Next
<1>3. QED
  BY <1>1, <1>2

\* A backspace is the tape's.
LEMMA ErasesIsTape ==
    ASSUME TypeOK, Erases
    PROVE  Tape!Next
<1>1. /\ Pos(term') = (Pos(term) + Cells - 1) % Cells
      /\ buffer' = [buffer EXCEPT ![Pos(term')] = Blank]
  BY ErasesFacts, Retreat DEF TypeOK
<1>2. Tape!Back
  BY <1>1 DEF Tape!Back, Pos, Position, Cells
<1>3. QED
  BY <1>2 DEF Tape!Next

\* Both resets wipe the tape.
LEMMA ResetsIsTape ==
    ASSUME Resets
    PROVE  Tape!Next
<1>1. Tape!Wipe
  BY DEF Resets, cleared, Indices, Tape!Wipe, Tape!Places, Pos, Position
<1>2. QED
  BY <1>1 DEF Tape!Next

\* The terminal's rows, columns and wrapping, its backing up and the resets are
\* a closed tape with one position, and nothing else ever changes a cell:
\* every step of the kernel, the shell and panic is one of the tape's or none.
THEOREM ShellImplementsTape == Spec => ImplementsTape
<1>1. Init => Tape!Init
  BY Reset DEF Init, Tape!Init, Tape!Places, cleared, Indices, Pos, Position
<1>2. IInv /\ [Next]_vars => [Tape!Next]_<<buffer, Position>>
  <2>1. SUFFICES ASSUME TypeOK, [Next]_vars
                 PROVE  Tape!Next \/ UNCHANGED <<buffer, Position>>
    BY DEF IInv
  <2>2. CASE UNCHANGED <<term, buffer, line>>
    BY <2>2 DEF Position
  <2>3. QED
    BY <2>1, <2>2, ScreenCases, ShowsIsTape, ErasesIsTape, ResetsIsTape
<1>3. QED
  BY <1>1, <1>2, Inductive, PTL DEF Spec, ImplementsTape, Tape!Spec

=============================================================================
