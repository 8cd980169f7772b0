------------------------ MODULE EarlierProgramsProofs ------------------------
(***************************************************************************)
(* Proofs about the two earlier programs: the terminal of the barebones    *)
(* kernel for a screen of any size and any text, and the boot sector, its  *)
(* take-over of the keyboard's interrupt and the lines it shows, for every *)
(* order of its steps and the keyboard's.                                  *)
(***************************************************************************)
EXTENDS EarlierPrograms, RingArithmetic, SequenceTheorems

-----------------------------------------------------------------------------
(* The barebones terminal.                                                 *)

\* Row and column are on the screen.
OnScreen == /\ terminal_row \in 0 .. HEIGHT - 1
            /\ terminal_column \in 0 .. WIDTH - 1

Place == terminal_row * WIDTH + terminal_column

\* The row after this one.
NextRow == IF terminal_row + 1 = HEIGHT THEN 0 ELSE terminal_row + 1

\* The sizes are positive.
LEMMA SizeFacts == HEIGHT \in Nat \ {0} /\ WIDTH \in Nat \ {0}
BY BootAssumption

\* The start of the next line.
LEMMA NextRowFacts ==
    ASSUME OnScreen
    PROVE  /\ NextRow \in 0 .. HEIGHT - 1 /\ 0 \in 0 .. WIDTH - 1
           /\ NextRow * WIDTH + 0 = NextRow * WIDTH
           /\ ((Place \div WIDTH + 1) * WIDTH) % (HEIGHT * WIDTH) = NextRow * WIDTH
<1>1. NextRow \in 0 .. HEIGHT - 1 /\ 0 \in 0 .. WIDTH - 1
  BY SizeFacts DEF OnScreen, NextRow
<1>2. NextRow * WIDTH + 0 = NextRow * WIDTH
  BY <1>1, SizeFacts, SMTT(30)
<1>3. ((Place \div WIDTH + 1) * WIDTH) % (HEIGHT * WIDTH) = NextRow * WIDTH
  BY SizeFacts, FeedIndex DEF OnScreen, Place, NextRow
<1>4. QED
  BY <1>1, <1>2, <1>3

\* The end of a line, by a line feed.
LEMMA FeedIsTape ==
    ASSUME OnScreen, terminal_row' = NextRow, terminal_column' = 0
    PROVE  OnScreen' /\ Place' = ((Place \div WIDTH + 1) * WIDTH) % (HEIGHT * WIDTH)
<1>1. Place' = NextRow * WIDTH + 0
  BY DEF Place
<1>2. QED
  BY <1>1, NextRowFacts DEF OnScreen

\* A carriage return.
LEMMA ReturnIsTape ==
    ASSUME OnScreen, terminal_row' = terminal_row, terminal_column' = 0
    PROVE  OnScreen' /\ Place' = (Place \div WIDTH) * WIDTH
<1>1. Place \div WIDTH = terminal_row
  BY SizeFacts, IndexRow DEF OnScreen, Place
<1>2. terminal_row * WIDTH + 0 = terminal_row * WIDTH
  BY SizeFacts, SMTT(30) DEF OnScreen
<1>3. Place' = terminal_row * WIDTH + 0
  BY DEF Place
<1>4. 0 \in 0 .. WIDTH - 1
  BY SizeFacts
<1>5. QED
  BY <1>1, <1>2, <1>3, <1>4 DEF OnScreen

\* A character moves the place on by one, over the end of a line too.
LEMMA AdvanceIsTape ==
    ASSUME OnScreen, Bare!terminal_advance_char
    PROVE  OnScreen' /\ Place' = (Place + 1) % (HEIGHT * WIDTH)
<1>1. (Place + 1) % (HEIGHT * WIDTH)
        = IF terminal_column + 1 = WIDTH
          THEN NextRow * WIDTH
          ELSE terminal_row * WIDTH + (terminal_column + 1)
  BY SizeFacts, NextIndex DEF OnScreen, Place, NextRow
<1>2. CASE terminal_column + 1 = WIDTH
  <2>1. terminal_column' = 0 /\ terminal_row' = NextRow
    BY <1>2 DEF Bare!terminal_advance_char, Bare!terminal_advance_row, NextRow
  <2>2. Place' = NextRow * WIDTH + 0
    BY <2>1 DEF Place
  <2>3. QED
    BY <1>1, <1>2, <2>1, <2>2, NextRowFacts DEF OnScreen
<1>3. CASE terminal_column + 1 # WIDTH
  <2>1. terminal_column' = terminal_column + 1 /\ terminal_row' = terminal_row
    BY <1>3 DEF Bare!terminal_advance_char
  <2>2. Place' = terminal_row * WIDTH + (terminal_column + 1)
    BY <2>1 DEF Place
  <2>3. terminal_column + 1 \in 0 .. WIDTH - 1
    BY <1>3, SizeFacts DEF OnScreen
  <2>4. QED
    BY <1>1, <1>3, <2>1, <2>2, <2>3 DEF OnScreen
<1>4. QED
  BY <1>2, <1>3

\* Every character is one move of the tape.
LEMMA PutcharIsTape ==
    ASSUME OnScreen, NEW c \in Glyphs \cup {"\n", "\r"}, Bare!terminal_putchar(c)
    PROVE  OnScreen' /\ Bare!Tape!Next
<1>1. CASE c = "\n"
  <2>1. /\ terminal_row' = NextRow /\ terminal_column' = 0
        /\ terminal_buffer' = terminal_buffer
    BY <1>1 DEF Bare!terminal_putchar, Bare!terminal_advance_row, NextRow
  <2>2. OnScreen' /\ Place' = ((Place \div WIDTH + 1) * WIDTH) % (HEIGHT * WIDTH)
    BY <2>1, FeedIsTape
  <2>3. Bare!Tape!Feed
    BY <2>1, <2>2 DEF Bare!Tape!Feed, Place
  <2>4. QED
    BY <2>2, <2>3 DEF Bare!Tape!Next
<1>2. CASE c = "\r"
  <2>1. /\ terminal_row' = terminal_row /\ terminal_column' = 0
        /\ terminal_buffer' = terminal_buffer
    BY <1>2 DEF Bare!terminal_putchar
  <2>2. OnScreen' /\ Place' = (Place \div WIDTH) * WIDTH
    BY <2>1, ReturnIsTape
  <2>3. Bare!Tape!Return
    BY <2>1, <2>2 DEF Bare!Tape!Return, Place
  <2>4. QED
    BY <2>2, <2>3 DEF Bare!Tape!Next
<1>3. CASE c \notin {"\n", "\r"}
  <2>1. /\ terminal_buffer' = [terminal_buffer EXCEPT ![Place] = c]
        /\ Bare!terminal_advance_char
    BY <1>3 DEF Bare!terminal_putchar, Bare!terminal_putentryat, Place
  <2>2. OnScreen' /\ Place' = (Place + 1) % (HEIGHT * WIDTH)
    BY <2>1, AdvanceIsTape
  <2>3. Bare!Tape!Put(c)
    BY <2>1, <2>2 DEF Bare!Tape!Put, Place
  <2>4. QED
    BY <1>3, <2>2, <2>3 DEF Bare!Tape!Next
<1>4. QED
  BY <1>1, <1>2, <1>3

\* The terminal of the barebones kernel keeps the promise of its successor: its
\* row and column, and the order in which a full line and a line feed set them,
\* are one position on a closed tape, whatever is written.
THEOREM BarebonesImplementsTapeAlways == EitherSpec => BarebonesImplementsTape
<1> DEFINE Either == BabyBootRuns \/ BarebonesRuns
<1>1. EitherInit => OnScreen /\ Bare!Tape!Init
  <2>1. SUFFICES ASSUME EitherInit PROVE OnScreen /\ Bare!Tape!Init
    OBVIOUS
  <2>2. /\ terminal_row = 0 /\ terminal_column = 0
        /\ terminal_buffer = [i \in Bare!Indices |-> " "]
    BY <2>1 DEF EitherInit, Bare!Init
  <2>3. 0 * WIDTH + 0 = 0 /\ 0 \in 0 .. HEIGHT - 1 /\ 0 \in 0 .. WIDTH - 1
    BY SizeFacts
  <2>4. OnScreen
    BY <2>2, <2>3 DEF OnScreen
  <2>5. Bare!Tape!Init
    BY <2>2, <2>3 DEF Bare!Tape!Init, Bare!Tape!Places, Bare!Indices
  <2>6. QED
    BY <2>4, <2>5
<1>2. OnScreen /\ [Either]_<<image, vars, terminal>>
        => OnScreen' /\ [Bare!Tape!Next]_<<terminal_buffer, Place>>
  <2>1. SUFFICES ASSUME OnScreen, [Either]_<<image, vars, terminal>>
                 PROVE  OnScreen' /\ (Bare!Tape!Next \/ UNCHANGED <<terminal_buffer, Place>>)
    OBVIOUS
  <2>2. CASE BarebonesRuns
    BY <2>1, <2>2, PutcharIsTape DEF BarebonesRuns, Bare!Next
  <2>3. CASE UNCHANGED terminal
    BY <2>1, <2>3 DEF terminal, OnScreen, Place
  <2>4. QED
    BY <2>1, <2>2, <2>3 DEF BabyBootRuns, terminal
<1>3. QED
  BY <1>1, <1>2, PTL DEF EitherSpec, BarebonesImplementsTape, Bare!Tape!Spec, Place

-----------------------------------------------------------------------------
(* The boot sector's vector.                                               *)

\* The steps of main from its step i on, those of the handler, and what is left
\* of the handler while it prints.
MainFrom(i) == SubSeq(_start, i, 9)
HandlerFrom(i) == SubSeq(keyhandler, i, 4)
Printing == <<"sprint">> \o HandlerFrom(4)

\* Where main is says what it has written of the vector: its two words while
\* interrupts are off, between cli and sti.
InMain ==
  \E i \in 1 .. 10 :
     /\ todo = MainFrom(i)
     /\ iflag => i \notin 7 .. 9
     /\ vector = <<IF i <= 7 THEN "bios" ELSE "keyhandler",
                   IF i <= 8 THEN "bios" ELSE "ds">>

\* The handler runs, interrupts off, with the vector written.
InHandler ==
  /\ ~iflag /\ vector = OurVector
  /\ \/ \E i \in 1 .. 4 : todo = HandlerFrom(i)
     \/ todo = Printing

VectorIInv == InMain \/ InHandler

\* The steps, one by one.
LEMMA MainSteps ==
    ASSUME NEW i \in 1 .. 10
    PROVE  /\ i = 10 => MainFrom(i) = <<>>
           /\ i < 10 => /\ MainFrom(i) # <<>>
                        /\ Head(MainFrom(i)) = _start[i]
                        /\ Tail(MainFrom(i)) = MainFrom(i + 1)
<1> DEFINE S == {"video_clear", "splash", "sprint", "splash2", "cli", "offset",
                 "segment", "sti"}
<1>1. _start \in Seq(S) /\ Len(_start) = 9
  BY DEF _start
<1> HIDE DEF S
<1>2. CASE i = 10
  BY <1>1, <1>2, SubSeqEmpty DEF MainFrom
<1>3. CASE i < 10
  <2>1. i \in 1 .. Len(_start) /\ 9 \in i .. Len(_start)
    BY <1>1, <1>3
  <2>2. Head(MainFrom(i)) = _start[i] /\ Tail(MainFrom(i)) = MainFrom(i + 1)
    BY <1>1, <2>1, HeadTailOfSubSeq DEF MainFrom
  <2>3. Len(MainFrom(i)) = 9 - i + 1
    BY <1>1, <2>1 DEF MainFrom
  <2>4. MainFrom(i) # <<>>
    BY <1>3, <2>3
  <2>5. QED
    BY <1>3, <2>2, <2>4
<1>4. QED
  BY <1>2, <1>3

LEMMA HandlerSteps ==
    ASSUME NEW i \in 1 .. 4
    PROVE  /\ HandlerFrom(i) # <<>>
           /\ Head(HandlerFrom(i)) = keyhandler[i]
           /\ i < 4 => Tail(HandlerFrom(i)) = HandlerFrom(i + 1)
           /\ i = 4 => Tail(HandlerFrom(i)) = <<>>
<1> DEFINE S == {"in", "eoi", "print", "iret"}
<1>1. keyhandler \in Seq(S) /\ Len(keyhandler) = 4
  BY DEF keyhandler
<1> HIDE DEF S
<1>2. i \in 1 .. Len(keyhandler) /\ 4 \in i .. Len(keyhandler)
  BY <1>1
<1>3. /\ Head(HandlerFrom(i)) = keyhandler[i]
      /\ Tail(HandlerFrom(i)) = SubSeq(keyhandler, i + 1, 4)
  BY <1>1, <1>2, HeadTailOfSubSeq DEF HandlerFrom
<1>4. Len(HandlerFrom(i)) = 4 - i + 1
  BY <1>1, <1>2 DEF HandlerFrom
<1>5. HandlerFrom(i) # <<>>
  BY <1>4
<1>6. SubSeq(keyhandler, 5, 4) = <<>>
  BY <1>1, SubSeqEmpty
<1>7. QED
  BY <1>3, <1>5, <1>6 DEF HandlerFrom

LEMMA PrintingSteps ==
    /\ Printing # <<>> /\ Head(Printing) = "sprint"
    /\ Tail(Printing) = HandlerFrom(4)
<1> DEFINE S == {"in", "eoi", "print", "iret", "sprint"}
           r == HandlerFrom(4)
<1>1. keyhandler \in Seq(S) /\ Len(keyhandler) = 4
  BY DEF keyhandler
<1>2. r \in Seq(S) /\ <<"sprint">> \in Seq(S)
  BY <1>1 DEF HandlerFrom
<1>3. Printing = <<"sprint">> \o r
  BY DEF Printing
<1> HIDE DEF S, r
<1>4. Head(<<"sprint">> \o r) = "sprint" /\ Tail(<<"sprint">> \o r) = r
  BY <1>2
<1>5. <<"sprint">> \o r # <<>>
  BY <1>2
<1>6. QED
  BY <1>3, <1>4, <1>5 DEF r

\* Where main stands while it has something left to do.
LEMMA NotAtEnd ==
    ASSUME NEW i \in 1 .. 10, todo = MainFrom(i), todo # <<>>
    PROVE  /\ i \in 1 .. 9 /\ i < 10
           /\ Head(todo) = _start[i] /\ Tail(todo) = MainFrom(i + 1)
<1>1. i # 10
  BY MainSteps
<1>2. i \in 1 .. 9 /\ i < 10
  BY <1>1
<1>3. Head(MainFrom(i)) = _start[i] /\ Tail(MainFrom(i)) = MainFrom(i + 1)
  BY <1>2, MainSteps
<1>4. QED
  BY <1>2, <1>3

\* The names of the steps.
LEMMA StepNames ==
    /\ _start[1] = "video_clear" /\ _start[2] = "splash" /\ _start[3] = "sprint"
    /\ _start[4] = "splash2" /\ _start[5] = "sprint" /\ _start[6] = "cli"
    /\ _start[7] = "offset" /\ _start[8] = "segment" /\ _start[9] = "sti"
    /\ keyhandler[1] = "in" /\ keyhandler[2] = "eoi" /\ keyhandler[3] = "print"
    /\ keyhandler[4] = "iret"
BY DEF _start, keyhandler

\* Which step of main a name is.
LEMMA MainNames ==
    ASSUME NEW i \in 1 .. 9
    PROVE  /\ _start[i] \in {"video_clear", "splash", "sprint", "splash2", "cli",
                             "offset", "segment", "sti"}
           /\ _start[i] = "cli" <=> i = 6
           /\ _start[i] = "offset" <=> i = 7
           /\ _start[i] = "segment" <=> i = 8
           /\ _start[i] = "sti" <=> i = 9
<1>1. \/ i = 1 \/ i = 2 \/ i = 3 \/ i = 4 \/ i = 5
      \/ i = 6 \/ i = 7 \/ i = 8 \/ i = 9
  OBVIOUS
<1>2. QED
  BY <1>1, StepNames

\* Which step of the handler a name is.
LEMMA HandlerNames ==
    ASSUME NEW i \in 1 .. 4
    PROVE  /\ keyhandler[i] \in {"in", "eoi", "print", "iret"}
           /\ keyhandler[i] = "iret" <=> i = 4
           /\ keyhandler[i] = "print" <=> i = 3
<1>1. i = 1 \/ i = 2 \/ i = 3 \/ i = 4
  OBVIOUS
<1>2. QED
  BY <1>1, StepNames

\* A step of main that binds nothing.
LEMMA MainGoesOn ==
    ASSUME InMain, todo # <<>>, todo' = Tail(todo), UNCHANGED <<iflag, vector>>,
           Head(todo) \notin {"cli", "offset", "segment", "sti"}
    PROVE  InMain'
<1>1. PICK i \in 1 .. 10 :
         /\ todo = MainFrom(i)
         /\ iflag => i \notin 7 .. 9
         /\ vector = <<IF i <= 7 THEN "bios" ELSE "keyhandler",
                       IF i <= 8 THEN "bios" ELSE "ds">>
  BY DEF InMain
<1>2. i < 10 /\ Head(todo) = _start[i] /\ todo' = MainFrom(i + 1)
  BY <1>1, NotAtEnd
<1>3. i \in 1 .. 5
  BY <1>1, <1>2, MainNames
<1>4. vector' = <<IF i + 1 <= 7 THEN "bios" ELSE "keyhandler",
                  IF i + 1 <= 8 THEN "bios" ELSE "ds">>
  BY <1>1, <1>3
<1>5. i + 1 \in 1 .. 10 /\ i + 1 \notin 7 .. 9
  BY <1>3
<1>6. QED
  BY <1>2, <1>4, <1>5 DEF InMain

\* A step of the handler before its last.
LEMMA HandlerGoesOn ==
    ASSUME InHandler, todo' = Tail(todo), UNCHANGED <<iflag, vector>>,
           Head(todo) # "iret"
    PROVE  InHandler'
<1>1. CASE todo = Printing
  BY <1>1, PrintingSteps DEF InHandler
<1>2. CASE todo # Printing
  <2>1. PICK i \in 1 .. 4 : todo = HandlerFrom(i)
    BY <1>2 DEF InHandler
  <2>2. i # 4
    BY <2>1, HandlerSteps, HandlerNames
  <2>3. i + 1 \in 1 .. 4 /\ todo' = HandlerFrom(i + 1)
    BY <2>1, <2>2, HandlerSteps
  <2>4. QED
    BY <2>3 DEF InHandler
<1>3. QED
  BY <1>1, <1>2

\* No step of the handler is one of binding, and none of main's ends a handler.
LEMMA WhoseStep ==
    /\ InHandler => /\ todo # <<>>
                    /\ Head(todo) \in {"in", "eoi", "print", "iret", "sprint"}
    /\ InMain /\ todo # <<>> => Head(todo) \notin {"in", "eoi", "print", "iret"}
<1>1. ASSUME InHandler
      PROVE  /\ todo # <<>>
             /\ Head(todo) \in {"in", "eoi", "print", "iret", "sprint"}
  <2>1. CASE todo = Printing
    BY <2>1, PrintingSteps
  <2>2. CASE todo # Printing
    <3>1. PICK i \in 1 .. 4 : todo = HandlerFrom(i)
      BY <1>1, <2>2 DEF InHandler
    <3>2. QED
      BY <3>1, HandlerSteps, HandlerNames
  <2>3. QED
    BY <2>1, <2>2
<1>2. ASSUME InMain, todo # <<>>
      PROVE  Head(todo) \notin {"in", "eoi", "print", "iret"}
  <2>1. PICK i \in 1 .. 10 : todo = MainFrom(i)
    BY <1>2 DEF InMain
  <2>2. i \in 1 .. 9 /\ Head(todo) = _start[i]
    BY <1>2, <2>1, NotAtEnd
  <2>3. QED
    BY <2>2, MainNames
<1>3. QED
  BY <1>1, <1>2

\* Steps that neither bind nor return.
LEMMA GoesOn ==
    ASSUME VectorIInv, todo # <<>>, todo' = Tail(todo), UNCHANGED <<iflag, vector>>,
           Head(todo) \notin {"cli", "offset", "segment", "sti", "iret"}
    PROVE  VectorIInv'
BY MainGoesOn, HandlerGoesOn DEF VectorIInv

\* The four steps of binding, in order.
LEMMA Binds ==
    ASSUME VectorIInv, bind_keyhandler
    PROVE  VectorIInv'
<1>1. /\ todo # <<>> /\ todo' = Tail(todo)
      /\ Head(todo) \in {"cli", "offset", "segment", "sti"}
  BY DEF bind_keyhandler, At
<1>2. InMain
  BY <1>1, WhoseStep DEF VectorIInv
<1>3. PICK i \in 1 .. 10 :
         /\ todo = MainFrom(i)
         /\ iflag => i \notin 7 .. 9
         /\ vector = <<IF i <= 7 THEN "bios" ELSE "keyhandler",
                       IF i <= 8 THEN "bios" ELSE "ds">>
  BY <1>2 DEF InMain
<1>4. /\ i \in 1 .. 9 /\ Head(todo) = _start[i] /\ todo' = MainFrom(i + 1)
      /\ i + 1 \in 1 .. 10
  BY <1>1, <1>3, NotAtEnd
<1>5. CASE At("cli") /\ iflag' = FALSE /\ UNCHANGED vector
  <2>1. i = 6
    BY <1>4, <1>5, MainNames DEF At
  <2>2. vector' = <<"bios", "bios">>
    BY <1>3, <1>5, <2>1
  <2>3. QED
    BY <1>4, <1>5, <2>1, <2>2 DEF InMain, VectorIInv
<1>6. CASE At("offset") /\ vector' = [vector EXCEPT ![1] = OurVector[1]] /\ UNCHANGED iflag
  <2>1. i = 7
    BY <1>4, <1>6, MainNames DEF At
  <2>2. vector = <<"bios", "bios">> /\ ~iflag
    BY <1>3, <2>1
  <2>3. vector' = <<"keyhandler", "bios">>
    BY <1>6, <2>2 DEF OurVector
  <2>4. QED
    BY <1>4, <1>6, <2>1, <2>2, <2>3 DEF InMain, VectorIInv
<1>7. CASE At("segment") /\ vector' = [vector EXCEPT ![2] = OurVector[2]] /\ UNCHANGED iflag
  <2>1. i = 8
    BY <1>4, <1>7, MainNames DEF At
  <2>2. vector = <<"keyhandler", "bios">> /\ ~iflag
    BY <1>3, <2>1
  <2>3. vector' = <<"keyhandler", "ds">>
    BY <1>7, <2>2 DEF OurVector
  <2>4. QED
    BY <1>4, <1>7, <2>1, <2>2, <2>3 DEF InMain, VectorIInv
<1>8. CASE At("sti") /\ iflag' = TRUE /\ UNCHANGED vector
  <2>1. i = 9
    BY <1>4, <1>8, MainNames DEF At
  <2>2. vector' = <<"keyhandler", "ds">>
    BY <1>3, <1>8, <2>1
  <2>3. QED
    BY <1>4, <2>1, <2>2 DEF InMain, VectorIInv
<1>9. QED
  BY <1>5, <1>6, <1>7, <1>8 DEF bind_keyhandler

\* print_key prints a line or goes on.
LEMMA PrintsKey ==
    ASSUME VectorIInv, print_key
    PROVE  VectorIInv'
<1>1. /\ todo # <<>> /\ Head(todo) = "print" /\ UNCHANGED <<iflag, vector>>
      /\ todo' = Tail(todo) \/ todo' = <<"sprint">> \o Tail(todo)
  BY DEF print_key, machine
<1>2. CASE todo' = Tail(todo)
  BY <1>1, <1>2, GoesOn
<1>3. CASE todo' = <<"sprint">> \o Tail(todo)
  <2>1. InHandler
    BY <1>1, WhoseStep DEF VectorIInv
  <2>2. PICK i \in 1 .. 4 : todo = HandlerFrom(i)
    BY <1>1, <2>1, PrintingSteps DEF InHandler
  <2>3. i = 3
    BY <1>1, <2>2, HandlerSteps, HandlerNames
  <2>4. todo' = Printing
    <3>1. Tail(HandlerFrom(3)) = HandlerFrom(3 + 1)
      BY HandlerSteps
    <3>2. Tail(todo) = HandlerFrom(4)
      BY <2>2, <2>3, <3>1
    <3>3. QED
      BY <1>3, <3>2 DEF Printing
  <2>5. QED
    BY <1>1, <2>1, <2>4 DEF InHandler, VectorIInv
<1>4. QED
  BY <1>1, <1>2, <1>3

\* The handler returns to where main ends.
LEMMA Returns ==
    ASSUME VectorIInv, iret
    PROVE  VectorIInv'
<1>1. /\ todo # <<>> /\ Head(todo) = "iret" /\ todo' = Tail(todo)
      /\ UNCHANGED vector
  BY DEF iret, At
<1>2. InHandler
  BY <1>1, WhoseStep DEF VectorIInv
<1>3. PICK i \in 1 .. 4 : todo = HandlerFrom(i)
  BY <1>1, <1>2, PrintingSteps DEF InHandler
<1>4. i = 4
  BY <1>1, <1>3, HandlerSteps, HandlerNames
<1>5. todo' = MainFrom(10)
  <2>1. Tail(HandlerFrom(4)) = <<>>
    BY HandlerSteps
  <2>2. MainFrom(10) = <<>>
    BY MainSteps
  <2>3. QED
    BY <1>1, <1>3, <1>4, <2>1, <2>2
<1>6. vector' = <<"keyhandler", "ds">>
  BY <1>1, <1>2 DEF InHandler, OurVector
<1>7. 10 \in 1 .. 10 /\ 10 \notin 7 .. 9
  OBVIOUS
<1>8. QED
  BY <1>5, <1>6, <1>7 DEF InMain, VectorIInv

\* The handler is entered from the end of main only.
LEMMA Enters ==
    ASSUME VectorIInv, EnterHandler
    PROVE  VectorIInv'
<1>1. /\ iflag /\ vector = OurVector /\ vector' = vector /\ iflag' = FALSE
      /\ todo' = keyhandler \o todo
  BY DEF EnterHandler, Interrupts
<1>2. PICK i \in 1 .. 10 :
         /\ todo = MainFrom(i)
         /\ iflag => i \notin 7 .. 9
         /\ vector = <<IF i <= 7 THEN "bios" ELSE "keyhandler",
                       IF i <= 8 THEN "bios" ELSE "ds">>
  BY <1>1 DEF VectorIInv, InHandler, InMain
<1>3. i = 10
  BY <1>1, <1>2 DEF OurVector
<1>4. todo = <<>>
  BY <1>2, <1>3, MainSteps
<1>5. keyhandler \in Seq({"in", "eoi", "print", "iret"}) /\ Len(keyhandler) = 4
  BY DEF keyhandler
<1>6. keyhandler \o <<>> = keyhandler /\ SubSeq(keyhandler, 1, 4) = keyhandler
  BY <1>5, ConcatEmptySeq, SubSeqFull
<1>7. todo' = HandlerFrom(1)
  BY <1>1, <1>4, <1>6 DEF HandlerFrom
<1>8. QED
  BY <1>1, <1>7 DEF InHandler, VectorIInv

\* Every step of the machine.
LEMMA StepVectorIInv ==
    ASSUME VectorIInv, [Next]_vars
    PROVE  VectorIInv'
<1>1. CASE video_clear \/ load_text \/ end_line \/ read_port \/ finish_interrupt
  <2>1. /\ todo # <<>> /\ todo' = Tail(todo) /\ UNCHANGED <<iflag, vector>>
        /\ Head(todo) \notin {"cli", "offset", "segment", "sti", "iret"}
    BY <1>1
       DEF video_clear, load_text, end_line, read_port, finish_interrupt, At, machine
  <2>2. QED
    BY <2>1, GoesOn
<1>2. CASE bind_keyhandler
  BY <1>2, Binds
<1>3. CASE print_key
  BY <1>3, PrintsKey
<1>4. CASE iret
  BY <1>4, Returns
<1>5. CASE EnterHandler
  BY <1>5, Enters
<1>6. ASSUME UNCHANGED <<todo, iflag, vector>>
      PROVE  VectorIInv'
  BY <1>6 DEF VectorIInv, InMain, InHandler
<1>7. CASE cprint \/ end \/ BiosTakesKey \/ offer \/ UNCHANGED vars
  <2>1. UNCHANGED <<todo, iflag, vector>>
    BY <1>7 DEF cprint, end, BiosTakesKey, offer, vars, machine
  <2>2. QED
    BY <1>6, <2>1
<1>8. ASSUME NEW c \in ScanCodes, press(c)
      PROVE  VectorIInv'
  <2>1. UNCHANGED <<todo, iflag, vector>>
    BY <1>8 DEF press
  <2>2. QED
    BY <1>6, <2>1
<1>9. QED
  BY <1>1, <1>2, <1>3, <1>4, <1>5, <1>7, <1>8 DEF Next, Program, Deliver

\* The machine when it is turned on.
LEMMA VectorInit ==
    ASSUME EitherInit
    PROVE  VectorIInv
<1>1. todo = _start /\ vector = <<"bios", "bios">>
  BY DEF EitherInit, Init, BiosVector
<1>2. _start \in Seq({"video_clear", "splash", "sprint", "splash2", "cli",
                      "offset", "segment", "sti"}) /\ Len(_start) = 9
  BY DEF _start
<1>3. todo = MainFrom(1)
  BY <1>1, <1>2, SubSeqFull DEF MainFrom
<1>4. 1 \in 1 .. 10 /\ 1 \notin 7 .. 9
  OBVIOUS
<1>5. QED
  BY <1>1, <1>3, <1>4 DEF InMain, VectorIInv

\* No interrupt is taken through a vector that is half the BIOS's and half the
\* program's: cli comes before the first word is written and sti after the
\* second, and the handler, which lets interrupts in with iret only, never runs
\* in between.
THEOREM VectorWholeAlways == EitherSpec => []VectorWhole
<1> DEFINE Either == BabyBootRuns \/ BarebonesRuns
<1>1. EitherInit => VectorIInv
  BY VectorInit
<1>2. VectorIInv /\ [Either]_<<image, vars, terminal>> => VectorIInv'
  BY StepVectorIInv DEF BabyBootRuns, BarebonesRuns
<1>3. VectorIInv => VectorWhole
  <2>1. SUFFICES ASSUME VectorIInv, iflag
                 PROVE  vector \in {BiosVector, OurVector}
    BY DEF VectorWhole, Interrupts
  <2>2. PICK i \in 1 .. 10 :
           /\ i \notin 7 .. 9
           /\ vector = <<IF i <= 7 THEN "bios" ELSE "keyhandler",
                         IF i <= 8 THEN "bios" ELSE "ds">>
    BY <2>1 DEF VectorIInv, InHandler, InMain
  <2>3. CASE i <= 6
    BY <2>2, <2>3 DEF BiosVector
  <2>4. CASE i = 10
    BY <2>2, <2>4 DEF OurVector
  <2>5. QED
    BY <2>2, <2>3, <2>4
<1>4. QED
  BY <1>1, <1>2, <1>3, PTL DEF EitherSpec

-----------------------------------------------------------------------------
(* The boot sector's lines.                                                *)

\* What a cell of the screen may hold.
Letters == {NUL} \cup STRING
           \cup UNION {{outstr16val(c)[i] : i \in 1 .. 4} : c \in 0 .. 255}

\* The first n characters of a row are those of its line, as far as it is wide.
Shown(r, n) == \A i \in 1 .. Len(log[r]) :
                  i <= n /\ i <= WIDTH => screen[WIDTH * r + i - 1] = log[r][i]

\* So is each whole row but the one that is being printed.
OthersShown == \A r \in Rows : r # ypos => Shown(r, WIDTH)

\* The line t is the one to be printed in the row ypos.
Owes(t) == ypos \in Rows => log[ypos] = t

\* Its first characters are on the screen and si is the rest.
Prints(t) ==
    \E p \in 0 .. Len(t) :
       /\ si = SubSeq(t, p + 1, Len(t))
       /\ p < Len(t) => xpos = p
       /\ ypos \in Rows => log[ypos] = t /\ Shown(ypos, p)

\* Nothing is being printed.
Quiet == si = <<>> /\ xpos = 0

\* Every line is shown, and the next one goes where the history says.
Idle == Quiet /\ line = ypos /\ \A r \in Rows : Shown(r, WIDTH)

\* The history has run ahead of the screen by one line.
Ahead == line = (ypos + 1) % BYTE /\ OthersShown

\* The history before the first key.
Greeting ==
    /\ line = 2
    /\ log = [r \in Rows |-> CASE r = 0 -> splash [] r = 1 -> splash2 [] OTHER -> <<>>]

TextTypes ==
    /\ screen \in [Cells -> Letters] /\ log \in [Rows -> Seq(Letters)]
    /\ ypos \in 0 .. BYTE - 1 /\ line \in 0 .. BYTE - 1
    /\ kbd \in Seq(ScanCodes) /\ (irr => obf \in ScanCodes)

\* What is on the screen at each step of main and of the handler.
Stage ==
    \/ (\E i \in 1 .. 2 : todo = MainFrom(i)) /\ Greeting /\ Quiet /\ ypos = 0
    \/ todo = MainFrom(3) /\ Greeting /\ ypos = 0 /\ Prints(splash)
    \/ todo = MainFrom(4) /\ Greeting /\ Quiet /\ ypos = 1 /\ Shown(0, WIDTH)
    \/ todo = MainFrom(5) /\ Greeting /\ ypos = 1 /\ Shown(0, WIDTH) /\ Prints(splash2)
    \/ (\E i \in 6 .. 10 : todo = MainFrom(i)) /\ Idle
    \/ todo = HandlerFrom(1) /\ Idle /\ obf \in ScanCodes /\ ~irr
    \/ /\ \E i \in 2 .. 3 : todo = HandlerFrom(i)
       /\ port60 \in ScanCodes
       /\ IF released(port60) THEN Idle
          ELSE Quiet /\ Ahead /\ Owes(KeyLine(port60))
    \/ todo = Printing /\ port60 \in ScanCodes /\ Ahead /\ Prints(KeyLine(port60))
    \/ todo = HandlerFrom(4) /\ Idle

LineIInv == VectorIInv /\ TextTypes /\ Stage

\* The texts.
LEMMA TextFacts ==
    /\ splash \in Seq(Letters) /\ splash2 \in Seq(Letters)
    /\ Len(splash) <= WIDTH /\ Len(splash) <= BYTE /\ Len(splash2) <= BYTE
    /\ \A c \in ScanCodes : /\ KeyLine(c) \in Seq(Letters)
                            /\ Len(KeyLine(c)) <= WIDTH /\ Len(KeyLine(c)) <= BYTE
    /\ BYTE \in Nat /\ BYTE > 2
<1>1. /\ splash \in Seq(STRING) /\ splash2 \in Seq(STRING) /\ outstr16 \in Seq(STRING)
      /\ BYTE \in Nat /\ WIDTH \in Nat /\ WIDTH <= BYTE /\ ScanCodes \subseteq 0 .. 255
      /\ Len(splash) <= WIDTH /\ Len(splash2) <= BYTE /\ Len(outstr16) + 4 <= WIDTH
  BY BootAssumption
<1>2. STRING \subseteq Letters
  BY DEF Letters
<1>3. /\ splash \in Seq(Letters) /\ splash2 \in Seq(Letters) /\ outstr16 \in Seq(Letters)
  BY <1>1, <1>2, SeqMonotonic
<1>4. Len(splash) \in Nat /\ Len(outstr16) \in Nat
  BY <1>3
<1>5. ASSUME NEW c \in ScanCodes
      PROVE  /\ KeyLine(c) \in Seq(Letters)
             /\ Len(KeyLine(c)) <= WIDTH /\ Len(KeyLine(c)) <= BYTE
  <2>1. \A i \in 1 .. 4 : outstr16val(c)[i] \in Letters
    <3> DEFINE Digits(n) == {outstr16val(n)[i] : i \in 1 .. 4}
    <3>1. c \in 0 .. 255
      BY <1>1
    <3>2. \A i \in 1 .. 4 : outstr16val(c)[i] \in Digits(c)
      OBVIOUS
    <3>3. Letters = {NUL} \cup STRING \cup UNION {Digits(n) : n \in 0 .. 255}
      BY DEF Letters
    <3> HIDE DEF Digits
    <3>4. QED
      BY <3>1, <3>2, <3>3
  <2> DEFINE d == outstr16val(c)
  <2>2. d = [i \in 1 .. 4 |-> d[i]]
    BY DEF outstr16val
  <2>3. \A i \in 1 .. 4 : d[i] \in Letters
    BY <2>1
  <2> HIDE DEF d
  <2>4. d \in Seq(Letters) /\ Len(d) = 4
    BY <2>2, <2>3
  <2>5. outstr16 \o d \in Seq(Letters) /\ Len(outstr16 \o d) = Len(outstr16) + 4
    <3>1. /\ outstr16 \o d \in Seq(Letters)
          /\ Len(outstr16 \o d) = Len(outstr16) + Len(d)
      BY <1>3, <2>4, ConcatProperties, Zenon
    <3>2. QED
      BY <2>4, <3>1
  <2>6. KeyLine(c) = outstr16 \o d
    BY DEF KeyLine, d
  <2>7. QED
    BY <1>1, <1>4, <2>5, <2>6
<1>6. QED
  BY <1>1, <1>3, <1>4, <1>5

\* The steps by name.
LEMMA MainByName ==
    /\ \A i \in 1 .. 9 : MainFrom(i) # <<>> /\ Tail(MainFrom(i)) = MainFrom(i + 1)
    /\ MainFrom(10) = <<>>
    /\ Head(MainFrom(1)) = "video_clear" /\ Head(MainFrom(2)) = "splash"
    /\ Head(MainFrom(3)) = "sprint" /\ Head(MainFrom(4)) = "splash2"
    /\ Head(MainFrom(5)) = "sprint"
    /\ \A i \in 6 .. 9 : Head(MainFrom(i)) \in {"cli", "offset", "segment", "sti"}
<1>1. ASSUME NEW i \in 1 .. 9
      PROVE  /\ MainFrom(i) # <<>> /\ Tail(MainFrom(i)) = MainFrom(i + 1)
             /\ Head(MainFrom(i)) = _start[i]
  <2>1. i \in 1 .. 10 /\ i < 10
    OBVIOUS
  <2>2. QED
    BY <2>1, MainSteps
<1>2. MainFrom(10) = <<>>
  BY MainSteps
<1>3. ASSUME NEW i \in 6 .. 9
      PROVE  Head(MainFrom(i)) \in {"cli", "offset", "segment", "sti"}
  <2>1. i \in 1 .. 9 /\ (i = 6 \/ i = 7 \/ i = 8 \/ i = 9)
    OBVIOUS
  <2>2. QED
    BY <1>1, <2>1, StepNames
<1>4. /\ Head(MainFrom(1)) = _start[1] /\ Head(MainFrom(2)) = _start[2]
      /\ Head(MainFrom(3)) = _start[3] /\ Head(MainFrom(4)) = _start[4]
      /\ Head(MainFrom(5)) = _start[5]
  BY <1>1
<1>5. QED
  BY <1>1, <1>2, <1>3, <1>4, StepNames

LEMMA HandlerByName ==
    /\ \A i \in 1 .. 4 : HandlerFrom(i) # <<>>
    /\ Head(HandlerFrom(1)) = "in" /\ Tail(HandlerFrom(1)) = HandlerFrom(2)
    /\ Head(HandlerFrom(2)) = "eoi" /\ Tail(HandlerFrom(2)) = HandlerFrom(3)
    /\ Head(HandlerFrom(3)) = "print" /\ Tail(HandlerFrom(3)) = HandlerFrom(4)
    /\ Head(HandlerFrom(4)) = "iret" /\ Tail(HandlerFrom(4)) = <<>>
<1>1. /\ Head(HandlerFrom(1)) = "in" /\ Tail(HandlerFrom(1)) = HandlerFrom(2)
      /\ HandlerFrom(1) # <<>>
  <2>1. 1 \in 1 .. 4 /\ 1 < 4 /\ 1 + 1 = 2
    OBVIOUS
  <2>2. QED
    BY <2>1, HandlerSteps, StepNames
<1>2. /\ Head(HandlerFrom(2)) = "eoi" /\ Tail(HandlerFrom(2)) = HandlerFrom(3)
      /\ HandlerFrom(2) # <<>>
  <2>1. 2 \in 1 .. 4 /\ 2 < 4 /\ 2 + 1 = 3
    OBVIOUS
  <2>2. QED
    BY <2>1, HandlerSteps, StepNames
<1>3. /\ Head(HandlerFrom(3)) = "print" /\ Tail(HandlerFrom(3)) = HandlerFrom(4)
      /\ HandlerFrom(3) # <<>>
  <2>1. 3 \in 1 .. 4 /\ 3 < 4 /\ 3 + 1 = 4
    OBVIOUS
  <2>2. QED
    BY <2>1, HandlerSteps, StepNames
<1>4. /\ Head(HandlerFrom(4)) = "iret" /\ Tail(HandlerFrom(4)) = <<>>
      /\ HandlerFrom(4) # <<>>
  BY HandlerSteps, StepNames
<1>5. QED
  BY <1>1, <1>2, <1>3, <1>4

\* The place of a character on the screen.
LEMMA CellFacts ==
    ASSUME NEW r \in Rows, NEW i \in 1 .. WIDTH
    PROVE  WIDTH * r + i - 1 \in Cells
<1>1. HEIGHT \in Nat \ {0} /\ WIDTH \in Nat \ {0} /\ r \in 0 .. HEIGHT - 1
      /\ i - 1 \in 0 .. WIDTH - 1
  BY SizeFacts DEF Rows
<1>2. r * WIDTH + (i - 1) \in 0 .. HEIGHT * WIDTH - 1
  BY <1>1, IndexBounds
<1>3. WIDTH * r + i - 1 = r * WIDTH + (i - 1)
  BY <1>1, SMTT(30)
<1>4. QED
  BY <1>2, <1>3 DEF Cells

\* Two characters have two places, as long as the one that is written is in
\* its row or below the other.
LEMMA CellsApart ==
    ASSUME NEW r \in Nat, NEW y \in Nat, NEW i \in 1 .. WIDTH, NEW p \in Nat,
           \/ r < y
           \/ r = y /\ i # p + 1
           \/ r > y /\ p < WIDTH
    PROVE  WIDTH * r + i - 1 # WIDTH * y + p
<1>1. WIDTH \in Nat \ {0}
  BY SizeFacts
<1>2. CASE r < y
  <2>1. WIDTH * (r + 1) <= WIDTH * y
    BY <1>1, <1>2, SMTT(30)
  <2>2. WIDTH * (r + 1) = WIDTH * r + WIDTH
    BY <1>1, SMTT(30)
  <2>3. WIDTH * r \in Nat /\ WIDTH * y \in Nat
    BY <1>1, SMTT(30)
  <2>4. QED
    BY <1>1, <2>1, <2>2, <2>3
<1>3. CASE r = y /\ i # p + 1
  <2>1. WIDTH * r \in Nat
    BY <1>1, SMTT(30)
  <2>2. QED
    BY <1>3, <2>1
<1>4. CASE r > y /\ p < WIDTH
  <2>1. WIDTH * (y + 1) <= WIDTH * r
    BY <1>1, <1>4, SMTT(30)
  <2>2. WIDTH * (y + 1) = WIDTH * y + WIDTH
    BY <1>1, SMTT(30)
  <2>3. WIDTH * r \in Nat /\ WIDTH * y \in Nat
    BY <1>1, SMTT(30)
  <2>4. QED
    BY <1>1, <1>4, <2>1, <2>2, <2>3
<1>5. QED
  BY <1>2, <1>3, <1>4

\* A character written elsewhere leaves what a row shows.
LEMMA RowKept ==
    ASSUME TextTypes, NEW r \in Rows, NEW n \in Nat, NEW d, NEW c,
           log' = log, Shown(r, n),
           screen' = IF d \in Cells THEN [screen EXCEPT ![d] = c] ELSE screen,
           \A i \in 1 .. Len(log[r]) : i <= n /\ i <= WIDTH => WIDTH * r + i - 1 # d
    PROVE  Shown(r, n)'
<1> SUFFICES ASSUME NEW i \in 1 .. Len(log[r]), i <= n, i <= WIDTH
             PROVE  screen'[WIDTH * r + i - 1] = log[r][i]
  BY DEF Shown
<1> DEFINE x == WIDTH * r + i - 1
<1>1. x \in Cells /\ x # d /\ screen[x] = log[r][i]
  <2>1. log[r] \in Seq(Letters)
    BY DEF TextTypes
  <2>2. i \in 1 .. WIDTH
    BY <2>1, SizeFacts
  <2>3. QED
    BY <2>2, CellFacts DEF Shown
<1>2. screen \in [Cells -> Letters]
  BY DEF TextTypes
<1> HIDE DEF x
<1>3. screen'[x] = screen[x]
  BY <1>1, <1>2
<1>4. QED
  BY <1>1, <1>3 DEF x

\* The next character of a line.  A line longer than a row goes on below, where
\* nothing is to be shown yet.
LEMMA PrintsOn ==
    ASSUME TextTypes, NEW t \in Seq(Letters), Len(t) <= BYTE, Prints(t),
           Len(t) <= WIDTH \/ \A r \in Rows : r > ypos => log[r] = <<>>,
           cprint
    PROVE  /\ Prints(t)' /\ screen' \in [Cells -> Letters]
           /\ \A r \in Rows : r # ypos /\ Shown(r, WIDTH) => Shown(r, WIDTH)'
           /\ UNCHANGED <<todo, ypos, log, line, kbd, irr, obf, port60>>
<1> DEFINE rest(q) == SubSeq(t, q + 1, Len(t))
           at == WIDTH * ypos + xpos
<1>1. PICK p \in 0 .. Len(t) :
         /\ si = rest(p)
         /\ p < Len(t) => xpos = p
         /\ ypos \in Rows => log[ypos] = t /\ Shown(ypos, p)
  BY DEF Prints
<1>2. /\ si # <<>> /\ si' = Tail(si) /\ xpos' = (xpos + 1) % BYTE
      /\ screen' = IF at \in Cells THEN [screen EXCEPT ![at] = Head(si)] ELSE screen
      /\ UNCHANGED <<todo, ypos, log, line, kbd, irr, obf, port60>>
  BY DEF cprint, machine, history
<1>3. Len(t) \in Nat /\ BYTE \in Nat /\ ypos \in Nat
  BY TextFacts DEF TextTypes
<1>4. p < Len(t)
  <2>1. SUFFICES ASSUME p = Len(t) PROVE FALSE
    BY <1>3
  <2>2. rest(p) = <<>>
    BY <1>3, <2>1, SubSeqEmpty
  <2>3. QED
    BY <1>1, <1>2, <2>2
<1>5. Head(si) = t[p + 1] /\ Tail(si) = rest(p + 1) /\ t[p + 1] \in Letters
  <2>1. p + 1 \in 1 .. Len(t) /\ Len(t) \in p + 1 .. Len(t)
    BY <1>3, <1>4
  <2>2. Head(rest(p)) = t[p + 1] /\ Tail(rest(p)) = SubSeq(t, (p + 1) + 1, Len(t))
    BY <2>1, HeadTailOfSubSeq
  <2>3. t[p + 1] \in Letters
    BY <2>1, ElementOfSeq
  <2>4. QED
    BY <1>1, <2>2, <2>3
<1> HIDE DEF rest
<1>6. xpos = p /\ at = WIDTH * ypos + p
  BY <1>1, <1>4
<1> HIDE DEF at
<1>7. p + 1 < Len(t) => xpos' = p + 1
  <2>1. SUFFICES ASSUME p + 1 < Len(t) PROVE (p + 1) % BYTE = p + 1
    BY <1>2, <1>6
  <2>2. BYTE \in Nat \ {0} /\ p + 1 \in 0 .. 2 * BYTE - 1 /\ p + 1 < BYTE
    BY <1>3, <2>1
  <2>3. QED
    BY <2>2, ModRing
<1>8. screen' \in [Cells -> Letters]
  BY <1>2, <1>5 DEF TextTypes
<1>9. ASSUME NEW r \in Rows, r # ypos, Shown(r, WIDTH)
      PROVE  Shown(r, WIDTH)'
  <2>1. r \in Nat /\ WIDTH \in Nat /\ log[r] \in Seq(Letters)
    BY SizeFacts DEF Rows, TextTypes
  <2>2. ASSUME NEW i \in 1 .. Len(log[r]), i <= WIDTH
        PROVE  WIDTH * r + i - 1 # at
    <3>1. i \in 1 .. WIDTH /\ log[r] # <<>>
      BY <2>1, <2>2
    <3>2. r < ypos \/ (r > ypos /\ p < WIDTH)
      BY <1>3, <1>4, <1>9, <2>1, <3>1
    <3>3. QED
      BY <1>3, <1>6, <2>1, <3>1, <3>2, CellsApart
  <2>3. QED
    BY <1>2, <1>9, <2>1, <2>2, RowKept
<1>10. ASSUME ypos \in Rows
       PROVE  Shown(ypos, p + 1)'
  <2>1. log[ypos] = t /\ Shown(ypos, p) /\ log' = log /\ ypos' = ypos
    BY <1>1, <1>2, <1>10
  <2>2. Shown(ypos, p) => \A i \in 1 .. Len(t) : i <= p /\ i <= WIDTH =>
                             screen'[WIDTH * ypos + i - 1] = t[i]
    <3>1. ASSUME NEW i \in 1 .. Len(t), i <= p, i <= WIDTH
          PROVE  WIDTH * ypos + i - 1 # at
      <4>1. i \in 1 .. WIDTH /\ i # p + 1
        BY <3>1, <1>3, SizeFacts
      <4>2. QED
        BY <1>3, <1>6, <4>1, CellsApart
    <3>2. \A i \in 1 .. Len(log[ypos]) : i <= p /\ i <= WIDTH =>
             WIDTH * ypos + i - 1 # at
      BY <2>1, <3>1
    <3>3. PICK y \in Rows : y = ypos
      BY <1>10
    <3>4. /\ Shown(y, p) /\ p \in Nat
          /\ \A i \in 1 .. Len(log[y]) : i <= p /\ i <= WIDTH => WIDTH * y + i - 1 # at
      BY <1>3, <2>1, <3>2, <3>3
    <3>5. Shown(y, p)'
      BY <1>2, <3>4, RowKept
    <3>6. QED
      BY <2>1, <3>3, <3>5 DEF Shown
  <2>3. p + 1 <= WIDTH => screen'[WIDTH * ypos + (p + 1) - 1] = t[p + 1]
    <3>1. SUFFICES ASSUME p + 1 <= WIDTH
                   PROVE  screen'[WIDTH * ypos + (p + 1) - 1] = t[p + 1]
      OBVIOUS
    <3>2. p + 1 \in 1 .. WIDTH
      BY <3>1, SizeFacts
    <3>3. WIDTH * ypos + (p + 1) - 1 \in Cells
      BY <1>10, <3>2, CellFacts
    <3>4. WIDTH * ypos + (p + 1) - 1 = at
      BY <1>3, <1>6, SizeFacts, SMTT(30)
    <3>5. QED
      BY <1>2, <1>5, <3>3, <3>4 DEF TextTypes
  <2>4. \A i \in 1 .. Len(t) : i <= p + 1 => i <= p \/ i = p + 1
    BY <1>3
  <2>5. \A i \in 1 .. Len(t) : i <= p + 1 /\ i <= WIDTH =>
            screen'[WIDTH * ypos + i - 1] = t[i]
    BY <2>1, <2>2, <2>3, <2>4
  <2>6. QED
    BY <2>1, <2>5 DEF Shown
<1>11. Prints(t)'
  <2>1. p + 1 \in 0 .. Len(t) /\ si' = SubSeq(t, (p + 1) + 1, Len(t))
    BY <1>2, <1>3, <1>4, <1>5 DEF rest
  <2>2. ypos' \in Rows => log'[ypos'] = t /\ Shown(ypos, p + 1)'
    BY <1>1, <1>2, <1>10
  <2>3. QED
    BY <1>7, <2>1, <2>2 DEF Prints
<1>12. QED
  BY <1>2, <1>8, <1>9, <1>11

\* A line whose characters are all out is shown.
LEMMA LineEnds ==
    ASSUME TextTypes, NEW t \in Seq(Letters), Prints(t), si = <<>>, ypos \in Rows
    PROVE  log[ypos] = t /\ Shown(ypos, WIDTH)
<1>1. PICK p \in 0 .. Len(t) :
         si = SubSeq(t, p + 1, Len(t)) /\ log[ypos] = t /\ Shown(ypos, p)
  BY DEF Prints
<1>2. p = Len(t)
  <2>1. SUFFICES ASSUME p < Len(t) PROVE FALSE
    OBVIOUS
  <2>2. \A i \in p + 1 .. Len(t) : t[i] \in Letters
    BY ElementOfSeq
  <2>3. Len(SubSeq(t, p + 1, Len(t))) = Len(t) - (p + 1) + 1
    BY <2>1, <2>2, SubSeqProperties
  <2>4. Len(SubSeq(t, p + 1, Len(t))) = 0
    BY <1>1, EmptySeq
  <2>5. Len(t) \in Nat
    OBVIOUS
  <2>6. QED
    BY <2>1, <2>3, <2>4, <2>5
<1>3. QED
  BY <1>1, <1>2 DEF Shown

\* A text is taken up.
LEMMA TextTaken ==
    ASSUME NEW t \in Seq(Letters), si' = t, xpos' = 0, Owes(t)'
    PROVE  Prints(t)'
<1>1. SubSeq(t, 0 + 1, Len(t)) = t /\ 0 \in 0 .. Len(t)
  BY SubSeqFull
<1>2. Shown(ypos, 0)'
  BY DEF Shown
<1>3. QED
  BY <1>1, <1>2 DEF Prints, Owes

\* Steps that leave text and history alone leave what is said of them.
LEMMA SameText ==
    ASSUME UNCHANGED <<text, history>>
    PROVE  /\ Idle' = Idle /\ Quiet' = Quiet /\ Ahead' = Ahead
           /\ Greeting' = Greeting /\ Shown(0, WIDTH)' = Shown(0, WIDTH)
           /\ \A t : Prints(t)' = Prints(t) /\ Owes(t)' = Owes(t)
<1>1. UNCHANGED <<si, xpos, ypos, screen, log, line>>
  BY DEF text, history
<1>2. \A r, n : Shown(r, n)' = Shown(r, n)
  BY <1>1 DEF Shown
<1>3. Idle' = Idle /\ Quiet' = Quiet /\ Ahead' = Ahead
  BY <1>1, <1>2 DEF Idle, Quiet, Ahead, OthersShown
<1>4. Greeting' = Greeting
  BY <1>1 DEF Greeting
<1>5. \A t : Prints(t)' = Prints(t) /\ Owes(t)' = Owes(t)
  BY <1>1, <1>2 DEF Prints, Owes
<1>6. QED
  BY <1>2, <1>3, <1>4, <1>5

\* Where a step of a name stands, and what is on the screen there.
LEMMA WhereMain ==
    ASSUME Stage, todo # <<>>
    PROVE  /\ Head(todo) = "video_clear" =>
                 todo = MainFrom(1) /\ Greeting /\ Quiet /\ ypos = 0
           /\ Head(todo) = "splash" =>
                 todo = MainFrom(2) /\ Greeting /\ Quiet /\ ypos = 0
           /\ Head(todo) = "splash2" =>
                 todo = MainFrom(4) /\ Greeting /\ Quiet /\ ypos = 1 /\ Shown(0, WIDTH)
           /\ Head(todo) \in {"cli", "offset", "segment", "sti"} =>
                 Idle /\ \E i \in 6 .. 9 : todo = MainFrom(i)
<1>1. CASE (\E i \in 1 .. 2 : todo = MainFrom(i)) /\ Greeting /\ Quiet /\ ypos = 0
  <2>1. todo = MainFrom(1) \/ todo = MainFrom(2)
    <3>1. \A i \in 1 .. 2 : i = 1 \/ i = 2
      OBVIOUS
    <3>2. QED
      BY <1>1, <3>1
  <2>2. QED
    BY <1>1, <2>1, MainByName
<1>2. CASE todo = MainFrom(3) \/ todo = MainFrom(5)
  BY <1>2, MainByName
<1>3. CASE todo = MainFrom(4) /\ Greeting /\ Quiet /\ ypos = 1 /\ Shown(0, WIDTH)
  BY <1>3, MainByName
<1>4. CASE (\E i \in 6 .. 10 : todo = MainFrom(i)) /\ Idle
  <2>1. PICK i \in 6 .. 10 : todo = MainFrom(i)
    BY <1>4
  <2>2. i \in 6 .. 9
    <3>1. i # 10
      BY <2>1, MainByName
    <3>2. QED
      BY <3>1
  <2>3. Head(todo) \in {"cli", "offset", "segment", "sti"}
    BY <2>1, <2>2, MainByName
  <2>4. QED
    BY <1>4, <2>1, <2>2, <2>3
<1>5. CASE (\E i \in 1 .. 4 : todo = HandlerFrom(i)) \/ todo = Printing
  <2>1. Head(todo) \in {"in", "eoi", "print", "iret", "sprint"}
    BY <1>5, HandlerSteps, HandlerNames, PrintingSteps
  <2>2. QED
    BY <2>1
<1>6. Stage => \/ (\E i \in 1 .. 2 : todo = MainFrom(i)) /\ Greeting /\ Quiet /\ ypos = 0
               \/ todo = MainFrom(3) \/ todo = MainFrom(5)
               \/ todo = MainFrom(4) /\ Greeting /\ Quiet /\ ypos = 1 /\ Shown(0, WIDTH)
               \/ (\E i \in 6 .. 10 : todo = MainFrom(i)) /\ Idle
               \/ (\E i \in 1 .. 4 : todo = HandlerFrom(i)) \/ todo = Printing
  BY DEF Stage
<1>7. QED
  BY <1>1, <1>2, <1>3, <1>4, <1>5, <1>6

LEMMA WhereHandler ==
    ASSUME Stage, todo # <<>>
    PROVE  /\ Head(todo) = "in" =>
                 todo = HandlerFrom(1) /\ Idle /\ obf \in ScanCodes /\ ~irr
           /\ Head(todo) \in {"eoi", "print"} =>
                 /\ todo = HandlerFrom(IF Head(todo) = "eoi" THEN 2 ELSE 3)
                 /\ port60 \in ScanCodes
                 /\ IF released(port60) THEN Idle
                    ELSE Quiet /\ Ahead /\ Owes(KeyLine(port60))
           /\ Head(todo) = "iret" => todo = HandlerFrom(4) /\ Idle
<1>1. CASE \E i \in 1 .. 10 : todo = MainFrom(i)
  <2>1. PICK i \in 1 .. 10 : todo = MainFrom(i)
    BY <1>1
  <2>2. i \in 1 .. 9 /\ Head(todo) = _start[i]
    BY <2>1, NotAtEnd
  <2>3. QED
    BY <2>2, MainNames
<1>2. CASE ~ \E i \in 1 .. 10 : todo = MainFrom(i)
  <2>1. \/ todo = HandlerFrom(1) \/ todo = HandlerFrom(2) \/ todo = HandlerFrom(3)
        \/ todo = HandlerFrom(4) \/ todo = Printing
    BY <1>2 DEF Stage
  <2>2. Stage =>
          \/ todo = HandlerFrom(1) /\ Idle /\ obf \in ScanCodes /\ ~irr
          \/ /\ todo = HandlerFrom(2) \/ todo = HandlerFrom(3)
             /\ port60 \in ScanCodes
             /\ IF released(port60) THEN Idle
                ELSE Quiet /\ Ahead /\ Owes(KeyLine(port60))
          \/ todo = Printing
          \/ todo = HandlerFrom(4) /\ Idle
    BY <1>2 DEF Stage
  <2>3. QED
    BY <2>2, HandlerByName, PrintingSteps
<1>3. QED
  BY <1>1, <1>2

LEMMA WherePrinting ==
    ASSUME Stage, todo # <<>>, Head(todo) = "sprint"
    PROVE  \/ todo = MainFrom(3) /\ Greeting /\ ypos = 0 /\ Prints(splash)
           \/ /\ todo = MainFrom(5) /\ Greeting /\ ypos = 1 /\ Shown(0, WIDTH)
              /\ Prints(splash2)
           \/ /\ todo = Printing /\ port60 \in ScanCodes /\ Ahead
              /\ Prints(KeyLine(port60))
<1>1. CASE \E i \in 1 .. 10 : todo = MainFrom(i)
  <2>1. PICK i \in 1 .. 10 : todo = MainFrom(i)
    BY <1>1
  <2>2. i = 3 \/ i = 5
    <3>1. i # 10
      BY <2>1, MainByName
    <3>2. \/ i = 1 \/ i = 2 \/ i = 3 \/ i = 4 \/ i = 5 \/ i \in 6 .. 9
      BY <3>1
    <3>3. QED
      BY <2>1, <3>2, MainByName
  <2>3. /\ todo # MainFrom(1) /\ todo # MainFrom(2) /\ todo # MainFrom(4)
        /\ \A k \in 6 .. 10 : todo # MainFrom(k)
        /\ \A k \in 1 .. 4 : todo # HandlerFrom(k)
    <3>1. \A k \in 6 .. 10 : k = 10 \/ k \in 6 .. 9
      OBVIOUS
    <3>2. \A k \in 1 .. 4 : k = 1 \/ k = 2 \/ k = 3 \/ k = 4
      OBVIOUS
    <3>3. QED
      BY <3>1, <3>2, MainByName, HandlerByName
  <2>4. QED
    BY <2>3 DEF Stage
<1>2. CASE ~ \E i \in 1 .. 10 : todo = MainFrom(i)
  <2>1. \A k \in 1 .. 4 : todo # HandlerFrom(k)
    <3>1. \A k \in 1 .. 4 : k = 1 \/ k = 2 \/ k = 3 \/ k = 4
      OBVIOUS
    <3>2. QED
      BY <3>1, HandlerByName
  <2>2. QED
    BY <1>2, <2>1 DEF Stage
<1>3. QED
  BY <1>1, <1>2

\* The three texts that are printed, at each of their characters.
LEMMA StepChar ==
    ASSUME LineIInv, cprint
    PROVE  TextTypes' /\ Stage'
<1>1. /\ TextTypes /\ Stage /\ todo # <<>> /\ Head(todo) = "sprint"
  BY DEF LineIInv, cprint
<1>2. /\ 1 \in Nat /\ (ypos = 1 => \A r \in Rows : r > ypos => r # 0 /\ r # 1)
  BY SizeFacts DEF Rows
<1>3. ASSUME NEW t \in Seq(Letters), Len(t) <= BYTE, Prints(t),
             Len(t) <= WIDTH \/ \A r \in Rows : r > ypos => log[r] = <<>>
      PROVE  /\ Prints(t)' /\ TextTypes'
             /\ \A r \in Rows : r # ypos /\ Shown(r, WIDTH) => Shown(r, WIDTH)'
             /\ UNCHANGED <<todo, ypos, log, line, port60>>
  <2>1. /\ Prints(t)' /\ screen' \in [Cells -> Letters]
        /\ \A r \in Rows : r # ypos /\ Shown(r, WIDTH) => Shown(r, WIDTH)'
        /\ UNCHANGED <<todo, ypos, log, line, kbd, irr, obf, port60>>
    BY <1>1, <1>3, PrintsOn
  <2>2. QED
    BY <1>1, <2>1 DEF TextTypes
<1>4. CASE todo = MainFrom(3) /\ Greeting /\ ypos = 0 /\ Prints(splash)
  <2>1. Prints(splash)' /\ TextTypes' /\ UNCHANGED <<todo, ypos, log, line>>
    BY <1>3, <1>4, TextFacts
  <2>2. Greeting'
    BY <1>4, <2>1 DEF Greeting
  <2>3. QED
    BY <1>4, <2>1, <2>2 DEF Stage
<1>5. CASE /\ todo = MainFrom(5) /\ Greeting /\ ypos = 1 /\ Shown(0, WIDTH)
           /\ Prints(splash2)
  <2>1. \A r \in Rows : r > ypos => log[r] = <<>>
    BY <1>2, <1>5 DEF Greeting
  <2>2. /\ Prints(splash2)' /\ TextTypes' /\ UNCHANGED <<todo, ypos, log, line>>
        /\ \A r \in Rows : r # ypos /\ Shown(r, WIDTH) => Shown(r, WIDTH)'
    BY <1>3, <1>5, <2>1, TextFacts
  <2>3. Greeting' /\ 0 \in Rows
    BY <1>5, <2>2, SizeFacts DEF Greeting, Rows
  <2>4. Shown(0, WIDTH)'
    BY <1>5, <2>2, <2>3
  <2>5. QED
    BY <1>5, <2>2, <2>3, <2>4 DEF Stage
<1>6. CASE /\ todo = Printing /\ port60 \in ScanCodes /\ Ahead
           /\ Prints(KeyLine(port60))
  <2>1. PICK t \in Seq(Letters) : t = KeyLine(port60)
    BY <1>6, TextFacts
  <2>2. Len(t) <= BYTE /\ Len(t) <= WIDTH /\ Prints(t)
    BY <1>6, <2>1, TextFacts
  <2>3. /\ Prints(t)' /\ TextTypes' /\ UNCHANGED <<todo, ypos, log, line, port60>>
        /\ \A r \in Rows : r # ypos /\ Shown(r, WIDTH) => Shown(r, WIDTH)'
    BY <1>3, <2>2
  <2>4. Ahead'
    BY <1>6, <2>3 DEF Ahead, OthersShown
  <2>5. Prints(KeyLine(port60))'
    <3>1. KeyLine(port60)' = t
      BY <2>1, <2>3 DEF KeyLine
    <3>2. QED
      BY <2>3, <3>1 DEF Prints
  <2>6. QED
    BY <1>6, <2>3, <2>4, <2>5 DEF Stage
<1>7. QED
  BY <1>1, <1>4, <1>5, <1>6, WherePrinting

\* The ends of the three.
LEMMA StepLine ==
    ASSUME LineIInv, end_line
    PROVE  TextTypes' /\ Stage'
<1>1. /\ TextTypes /\ Stage /\ todo # <<>> /\ Head(todo) = "sprint"
      /\ todo' = Tail(todo) /\ si = <<>> /\ si' = <<>>
      /\ ypos' = (ypos + 1) % BYTE /\ xpos' = 0
      /\ UNCHANGED <<screen, log, line, kbd, irr, obf, port60>>
  BY DEF LineIInv, end_line, At, machine, history
<1>2. \A r, n : Shown(r, n)' = Shown(r, n)
  BY <1>1 DEF Shown
<1>3. TextTypes' /\ Quiet'
  <2>1. (ypos + 1) % BYTE \in 0 .. BYTE - 1
    BY <1>1, TextFacts DEF TextTypes
  <2>2. QED
    BY <1>1, <2>1 DEF TextTypes, Quiet
<1>4. BYTE \in Nat \ {0} /\ 1 % BYTE = 1 /\ 2 % BYTE = 2
  <2>1. /\ BYTE \in Nat \ {0} /\ 1 < BYTE /\ 2 < BYTE
        /\ 1 \in 0 .. 2 * BYTE - 1 /\ 2 \in 0 .. 2 * BYTE - 1
    BY TextFacts
  <2>2. QED
    BY <2>1, ModRing
<1>5. CASE todo = MainFrom(3) /\ Greeting /\ ypos = 0 /\ Prints(splash)
  <2>1. 0 \in Rows
    BY SizeFacts DEF Rows
  <2>2. Shown(0, WIDTH)'
    BY <1>1, <1>2, <1>5, <2>1, LineEnds, TextFacts
  <2>3. todo' = MainFrom(4) /\ ypos' = 1
    <3>1. Tail(MainFrom(3)) = MainFrom(3 + 1)
      BY MainByName
    <3>2. QED
      BY <1>1, <1>4, <1>5, <3>1
  <2>4. Greeting'
    BY <1>1, <1>5 DEF Greeting
  <2>5. QED
    BY <1>3, <2>2, <2>3, <2>4 DEF Stage
<1>6. CASE /\ todo = MainFrom(5) /\ Greeting /\ ypos = 1 /\ Shown(0, WIDTH)
           /\ Prints(splash2)
  <2>1. todo' = MainFrom(6) /\ ypos' = 2 /\ line' = 2
    <3>1. Tail(MainFrom(5)) = MainFrom(5 + 1)
      BY MainByName
    <3>2. QED
      BY <1>1, <1>4, <1>6, <3>1 DEF Greeting
  <2>2. ASSUME NEW r \in Rows
        PROVE  Shown(r, WIDTH)
    <3>1. CASE r = 0
      BY <1>6, <3>1
    <3>2. CASE r = 1
      BY <1>1, <1>6, <3>2, LineEnds, TextFacts
    <3>3. CASE r # 0 /\ r # 1
      <4>1. log[r] = <<>>
        BY <1>6, <3>3 DEF Greeting
      <4>2. QED
        BY <4>1 DEF Shown
    <3>4. QED
      BY <3>1, <3>2, <3>3
  <2>3. Idle'
    BY <1>2, <1>3, <2>1, <2>2 DEF Idle
  <2>4. 6 \in 6 .. 10
    OBVIOUS
  <2>5. QED
    BY <1>3, <2>1, <2>3, <2>4 DEF Stage
<1>7. CASE /\ todo = Printing /\ port60 \in ScanCodes /\ Ahead
           /\ Prints(KeyLine(port60))
  <2>1. todo' = HandlerFrom(4) /\ ypos' = line /\ line' = line
    BY <1>1, <1>7, PrintingSteps DEF Ahead
  <2>2. ASSUME NEW r \in Rows
        PROVE  Shown(r, WIDTH)
    <3>1. CASE r = ypos
      <4>1. KeyLine(port60) \in Seq(Letters) /\ ypos \in Rows
        BY <1>7, <3>1, TextFacts
      <4>2. QED
        BY <1>1, <1>7, <3>1, <4>1, LineEnds
    <3>2. CASE r # ypos
      BY <1>7, <3>2 DEF Ahead, OthersShown
    <3>3. QED
      BY <3>1, <3>2
  <2>3. Idle'
    BY <1>2, <1>3, <2>1, <2>2 DEF Idle
  <2>4. QED
    BY <1>3, <2>1, <2>3 DEF Stage
<1>8. QED
  BY <1>1, <1>5, <1>6, <1>7, WherePrinting

\* The steps of main that do not print.
LEMMA StepClear ==
    ASSUME LineIInv, video_clear
    PROVE  TextTypes' /\ Stage'
<1>1. /\ TextTypes /\ Stage /\ todo # <<>> /\ Head(todo) = "video_clear"
      /\ todo' = Tail(todo) /\ screen' = [x \in Cells |-> NUL]
      /\ UNCHANGED <<si, xpos, ypos, log, line, kbd, irr, obf>>
  BY DEF LineIInv, video_clear, At, machine, history
<1>2. todo = MainFrom(1) /\ Greeting /\ Quiet /\ ypos = 0
  BY <1>1, WhereMain
<1>3. todo' = MainFrom(2)
  <2>1. Tail(MainFrom(1)) = MainFrom(1 + 1)
    BY MainByName
  <2>2. QED
    BY <1>1, <1>2, <2>1
<1>4. Greeting' /\ Quiet' /\ ypos' = 0 /\ 2 \in 1 .. 2
  BY <1>1, <1>2 DEF Greeting, Quiet
<1>5. TextTypes'
  <2>1. NUL \in Letters
    BY DEF Letters
  <2>2. screen' \in [Cells -> Letters]
    BY <1>1, <2>1
  <2>3. QED
    BY <1>1, <2>2 DEF TextTypes
<1>6. QED
  BY <1>3, <1>4, <1>5 DEF Stage

LEMMA StepText ==
    ASSUME LineIInv, load_text
    PROVE  TextTypes' /\ Stage'
<1>1. /\ TextTypes /\ Stage /\ todo # <<>> /\ todo' = Tail(todo)
      /\ \/ Head(todo) = "splash" /\ si' = splash
         \/ Head(todo) = "splash2" /\ si' = splash2
      /\ UNCHANGED <<screen, xpos, ypos, log, line, kbd, irr, obf>>
  BY DEF LineIInv, load_text, At, machine, history
<1>2. TextTypes'
  BY <1>1 DEF TextTypes
<1>3. CASE Head(todo) = "splash" /\ si' = splash
  <2>1. todo = MainFrom(2) /\ Greeting /\ Quiet /\ ypos = 0
    BY <1>1, <1>3, WhereMain
  <2>2. todo' = MainFrom(3)
    <3>1. Tail(MainFrom(2)) = MainFrom(2 + 1)
      BY MainByName
    <3>2. QED
      BY <1>1, <2>1, <3>1
  <2>3. Greeting' /\ xpos' = 0 /\ ypos' = 0
    BY <1>1, <2>1 DEF Greeting, Quiet
  <2>4. Owes(splash)'
    BY <2>3 DEF Greeting, Owes
  <2>5. Prints(splash)'
    BY <1>3, <2>3, <2>4, TextFacts, TextTaken
  <2>6. QED
    BY <1>2, <2>2, <2>3, <2>5 DEF Stage
<1>4. CASE Head(todo) = "splash2" /\ si' = splash2
  <2>1. todo = MainFrom(4) /\ Greeting /\ Quiet /\ ypos = 1 /\ Shown(0, WIDTH)
    BY <1>1, <1>4, WhereMain
  <2>2. todo' = MainFrom(5)
    <3>1. Tail(MainFrom(4)) = MainFrom(4 + 1)
      BY MainByName
    <3>2. QED
      BY <1>1, <2>1, <3>1
  <2>3. Greeting' /\ xpos' = 0 /\ ypos' = 1 /\ Shown(0, WIDTH)'
    BY <1>1, <2>1 DEF Greeting, Quiet, Shown
  <2>4. Owes(splash2)'
    BY <2>3 DEF Greeting, Owes
  <2>5. Prints(splash2)'
    BY <1>4, <2>3, <2>4, TextFacts, TextTaken
  <2>6. QED
    BY <1>2, <2>2, <2>3, <2>5 DEF Stage
<1>5. QED
  BY <1>1, <1>3, <1>4

LEMMA StepBind ==
    ASSUME LineIInv, bind_keyhandler
    PROVE  TextTypes' /\ Stage'
<1>1. /\ TextTypes /\ Stage /\ todo # <<>> /\ todo' = Tail(todo)
      /\ Head(todo) \in {"cli", "offset", "segment", "sti"}
      /\ UNCHANGED <<text, history, kbd, irr, obf>>
  BY DEF LineIInv, bind_keyhandler, At
<1>2. Idle /\ \E i \in 6 .. 9 : todo = MainFrom(i)
  BY <1>1, WhereMain
<1>3. PICK i \in 6 .. 9 : todo = MainFrom(i)
  BY <1>2
<1>4. todo' = MainFrom(i + 1) /\ i + 1 \in 6 .. 10
  <2>1. i \in 1 .. 9 /\ i + 1 \in 6 .. 10
    OBVIOUS
  <2>2. QED
    BY <1>1, <1>3, <2>1, MainByName
<1>5. Idle'
  BY <1>1, <1>2, SameText
<1>6. TextTypes'
  BY <1>1 DEF TextTypes, text, history
<1>7. QED
  BY <1>4, <1>5, <1>6 DEF Stage

\* A key is read: a line is owed for it, in the row where nothing is printed yet.
LEMMA StepRead ==
    ASSUME LineIInv, read_port
    PROVE  TextTypes' /\ Stage'
<1>1. /\ TextTypes /\ Stage /\ todo # <<>> /\ Head(todo) = "in" /\ todo' = Tail(todo)
      /\ port60' = obf
      /\ IF released(obf) THEN UNCHANGED <<log, line>>
         ELSE /\ log' = IF line \in Rows THEN [log EXCEPT ![line] = KeyLine(obf)] ELSE log
              /\ line' = (line + 1) % BYTE
      /\ UNCHANGED <<si, xpos, ypos, screen, kbd, irr>>
  BY DEF LineIInv, read_port, At, text, history
<1>2. todo = HandlerFrom(1) /\ Idle /\ obf \in ScanCodes /\ ~irr
  BY <1>1, WhereHandler
<1>3. todo' = HandlerFrom(2) /\ 2 \in 2 .. 3 /\ port60' \in ScanCodes
  BY <1>1, <1>2, HandlerByName
<1>4. Quiet' /\ line = ypos
  BY <1>1, <1>2 DEF Idle, Quiet
<1>5. CASE released(obf)
  <2>1. Idle'
    BY <1>1, <1>2, <1>5, SameText DEF text, history
  <2>2. TextTypes'
    BY <1>1, <1>2, <1>5 DEF TextTypes
  <2>3. released(port60')
    BY <1>1, <1>5
  <2>4. QED
    BY <1>3, <2>1, <2>2, <2>3 DEF Stage, released
<1>6. CASE ~released(obf)
  <2>1. KeyLine(obf) \in Seq(Letters)
    BY <1>2, TextFacts
  <2>2. /\ log' = IF ypos \in Rows THEN [log EXCEPT ![ypos] = KeyLine(obf)] ELSE log
        /\ line' = (ypos + 1) % BYTE /\ log \in [Rows -> Seq(Letters)]
    BY <1>1, <1>4, <1>6 DEF TextTypes
  <2>3. TextTypes'
    <3>1. log' \in [Rows -> Seq(Letters)]
      BY <2>1, <2>2
    <3>2. (ypos + 1) % BYTE \in 0 .. BYTE - 1
      BY <1>1, TextFacts DEF TextTypes
    <3>3. QED
      BY <1>1, <1>2, <2>2, <3>1, <3>2 DEF TextTypes
  <2>4. ASSUME NEW r \in Rows, r # ypos
        PROVE  Shown(r, WIDTH)'
    <3>1. log'[r] = log[r] /\ Shown(r, WIDTH)
      BY <1>2, <2>2, <2>4 DEF Idle
    <3>2. QED
      BY <1>1, <3>1 DEF Shown
  <2>5. Ahead'
    BY <1>1, <2>2, <2>4 DEF Ahead, OthersShown
  <2>6. Owes(KeyLine(port60))'
    <3>1. KeyLine(port60)' = KeyLine(obf)
      BY <1>1 DEF KeyLine
    <3>2. ypos \in Rows => log'[ypos] = KeyLine(obf)
      BY <2>2
    <3>3. QED
      BY <1>1, <3>1, <3>2 DEF Owes
  <2>7. ~released(port60')
    BY <1>1, <1>6
  <2>8. QED
    BY <1>3, <1>4, <2>3, <2>5, <2>6, <2>7 DEF Stage, released
<1>7. QED
  BY <1>5, <1>6

\* The interrupt is ended.
LEMMA StepEoi ==
    ASSUME LineIInv, finish_interrupt
    PROVE  TextTypes' /\ Stage'
<1>1. /\ TextTypes /\ Stage /\ todo # <<>> /\ Head(todo) = "eoi" /\ todo' = Tail(todo)
      /\ UNCHANGED <<text, history, kbd, irr, obf, port60>>
  BY DEF LineIInv, finish_interrupt, At
<1>2. /\ todo = HandlerFrom(2) /\ port60 \in ScanCodes
      /\ IF released(port60) THEN Idle
         ELSE Quiet /\ Ahead /\ Owes(KeyLine(port60))
  BY <1>1, WhereHandler
<1>3. todo' = HandlerFrom(3) /\ 3 \in 2 .. 3
  BY <1>1, <1>2, HandlerByName
<1>4. /\ Idle' = Idle /\ Quiet' = Quiet /\ Ahead' = Ahead
      /\ Owes(KeyLine(port60))' = Owes(KeyLine(port60))
      /\ released(port60)' = released(port60)
  BY <1>1, SameText DEF text, history, Owes, KeyLine, released
<1>5. TextTypes'
  BY <1>1 DEF TextTypes, text, history
<1>6. QED
  BY <1>1, <1>2, <1>3, <1>4, <1>5 DEF Stage

\* The key's line is taken up, unless it is a release.
LEMMA StepPrint ==
    ASSUME LineIInv, print_key
    PROVE  TextTypes' /\ Stage'
<1>1. /\ TextTypes /\ Stage /\ todo # <<>> /\ Head(todo) = "print"
      /\ IF released(port60) THEN todo' = Tail(todo) /\ UNCHANGED si
         ELSE todo' = <<"sprint">> \o Tail(todo) /\ si' = KeyLine(port60)
      /\ UNCHANGED <<xpos, ypos, screen, history, kbd, irr, obf, port60>>
  BY DEF LineIInv, print_key, machine
<1>2. /\ todo = HandlerFrom(3) /\ port60 \in ScanCodes
      /\ IF released(port60) THEN Idle
         ELSE Quiet /\ Ahead /\ Owes(KeyLine(port60))
  BY <1>1, WhereHandler
<1>3. Tail(todo) = HandlerFrom(4)
  BY <1>2, HandlerByName
<1>4. TextTypes'
  BY <1>1 DEF TextTypes, history
<1>5. CASE released(port60)
  <2>1. Idle'
    BY <1>1, <1>2, <1>5, SameText DEF text
  <2>2. QED
    BY <1>1, <1>3, <1>4, <1>5, <2>1 DEF Stage
<1>6. CASE ~released(port60)
  <2>1. todo' = Printing /\ port60' \in ScanCodes
    BY <1>1, <1>2, <1>3, <1>6 DEF Printing
  <2>2. Ahead'
    <3>1. UNCHANGED <<xpos, ypos, screen, log, line>>
      BY <1>1 DEF history
    <3>2. \A r : Shown(r, WIDTH)' = Shown(r, WIDTH)
      BY <3>1 DEF Shown
    <3>3. QED
      BY <1>2, <1>6, <3>1, <3>2 DEF Ahead, OthersShown
  <2>3. PICK t \in Seq(Letters) : t = KeyLine(port60)
    BY <1>2, TextFacts
  <2>4. si' = t /\ xpos' = 0 /\ Owes(t)'
    BY <1>1, <1>2, <1>6, <2>3 DEF Quiet, Owes, history
  <2>5. Prints(t)'
    BY <2>4, TextTaken
  <2>6. Prints(KeyLine(port60))'
    <3>1. KeyLine(port60)' = t
      BY <1>1, <2>3 DEF KeyLine
    <3>2. QED
      BY <2>5, <3>1 DEF Prints
  <2>7. QED
    BY <1>4, <2>1, <2>2, <2>6 DEF Stage
<1>7. QED
  BY <1>5, <1>6

LEMMA StepReturn ==
    ASSUME LineIInv, iret
    PROVE  TextTypes' /\ Stage'
<1>1. /\ TextTypes /\ Stage /\ todo # <<>> /\ Head(todo) = "iret" /\ todo' = Tail(todo)
      /\ UNCHANGED <<text, history, kbd, irr, obf>>
  BY DEF LineIInv, iret, At
<1>2. todo = HandlerFrom(4) /\ Idle
  BY <1>1, WhereHandler
<1>3. todo' = MainFrom(10) /\ 10 \in 6 .. 10
  <2>1. Tail(HandlerFrom(4)) = <<>> /\ MainFrom(10) = <<>>
    BY HandlerByName, MainByName
  <2>2. QED
    BY <1>1, <1>2, <2>1
<1>4. Idle'
  BY <1>1, <1>2, SameText
<1>5. TextTypes'
  BY <1>1 DEF TextTypes, text, history
<1>6. QED
  BY <1>3, <1>4, <1>5 DEF Stage

\* Where an interrupt may come: to the BIOS while main has not written the
\* vector, to the handler once main is done.
LEMMA WhereInterrupted ==
    ASSUME VectorIInv, Interrupts
    PROVE  /\ vector = BiosVector => todo # HandlerFrom(1)
           /\ vector = OurVector => todo = <<>>
<1>1. InMain
  BY DEF VectorIInv, InHandler, Interrupts
<1>2. PICK i \in 1 .. 10 :
         /\ todo = MainFrom(i)
         /\ iflag => i \notin 7 .. 9
         /\ vector = <<IF i <= 7 THEN "bios" ELSE "keyhandler",
                       IF i <= 8 THEN "bios" ELSE "ds">>
  BY <1>1 DEF InMain
<1>3. todo # HandlerFrom(1)
  <2>1. SUFFICES ASSUME todo = HandlerFrom(1) PROVE FALSE
    OBVIOUS
  <2>2. todo # <<>> /\ Head(todo) = "in"
    BY <2>1, HandlerByName
  <2>3. QED
    BY <1>1, <2>2, WhoseStep
<1>4. vector = OurVector => todo = <<>>
  <2>1. SUFFICES ASSUME vector = OurVector PROVE todo = <<>>
    OBVIOUS
  <2>2. i = 10
    BY <1>2, <2>1 DEF OurVector, Interrupts
  <2>3. QED
    BY <1>2, <2>2, MainByName
<1>5. QED
  BY <1>3, <1>4

\* Nothing is left to do at the end of main only.
LEMMA AtTheEnd ==
    ASSUME Stage, todo = <<>>
    PROVE  Idle
<1>1. \A k \in 1 .. 5 : todo # MainFrom(k)
  <2>1. \A k \in 1 .. 5 : k \in 1 .. 9
    OBVIOUS
  <2>2. QED
    BY <2>1, MainByName
<1>2. /\ todo # Printing /\ \A k \in 1 .. 4 : todo # HandlerFrom(k)
  BY PrintingSteps, HandlerByName
<1>3. \A k \in 2 .. 3 : todo # HandlerFrom(k)
  BY <1>2
<1>4. \A k \in 1 .. 2 : todo # MainFrom(k)
  BY <1>1
<1>5. QED
  BY <1>1, <1>2, <1>3, <1>4 DEF Stage

LEMMA StepEnter ==
    ASSUME LineIInv, EnterHandler
    PROVE  TextTypes' /\ Stage'
<1>1. /\ VectorIInv /\ TextTypes /\ Stage /\ Interrupts /\ vector = OurVector /\ irr
      /\ irr' = FALSE /\ todo' = keyhandler \o todo
      /\ UNCHANGED <<kbd, obf, text, history>>
  BY DEF LineIInv, EnterHandler, Interrupts
<1>2. todo = <<>> /\ Idle
  BY <1>1, WhereInterrupted, AtTheEnd
<1>3. todo' = HandlerFrom(1)
  <2>1. keyhandler \in Seq({"in", "eoi", "print", "iret"}) /\ Len(keyhandler) = 4
    BY DEF keyhandler
  <2>2. keyhandler \o <<>> = keyhandler /\ SubSeq(keyhandler, 1, 4) = keyhandler
    BY <2>1, ConcatEmptySeq, SubSeqFull
  <2>3. QED
    BY <1>1, <1>2, <2>2 DEF HandlerFrom
<1>4. obf' \in ScanCodes
  BY <1>1 DEF TextTypes
<1>5. Idle'
  BY <1>1, <1>2, SameText
<1>6. TextTypes'
  BY <1>1 DEF TextTypes, text, history
<1>7. QED
  BY <1>1, <1>3, <1>4, <1>5, <1>6 DEF Stage

\* Steps of the machine that leave program and text alone.
LEMMA SameStage ==
    ASSUME Stage, UNCHANGED <<todo, port60, text, history>>,
           todo = HandlerFrom(1) => UNCHANGED <<obf, irr>>
    PROVE  Stage'
<1>1. /\ Idle' = Idle /\ Quiet' = Quiet /\ Ahead' = Ahead
      /\ Greeting' = Greeting /\ Shown(0, WIDTH)' = Shown(0, WIDTH)
      /\ \A t : Prints(t)' = Prints(t) /\ Owes(t)' = Owes(t)
  BY SameText
<1>2. Prints(splash)' = Prints(splash) /\ Prints(splash2)' = Prints(splash2)
  BY <1>1
<1>3. Prints(KeyLine(port60))' = Prints(KeyLine(port60))
  <2>1. PICK t : t = KeyLine(port60)
    OBVIOUS
  <2>2. KeyLine(port60)' = t
    BY <2>1 DEF KeyLine
  <2>3. Prints(t)' = Prints(t)
    BY <1>1
  <2>4. QED
    BY <2>1, <2>2, <2>3 DEF Prints
<1>4. Owes(KeyLine(port60))' = Owes(KeyLine(port60))
  BY DEF Owes, KeyLine, text, history
<1>5. released(port60)' = released(port60)
  BY DEF released
<1>6. UNCHANGED <<todo, port60, ypos>>
  BY DEF text
<1>7. QED
  BY <1>1, <1>2, <1>3, <1>4, <1>5, <1>6 DEF Stage

LEMMA StepMachine ==
    ASSUME LineIInv,
           BiosTakesKey \/ offer \/ (\E c \in ScanCodes : press(c)) \/ end \/ UNCHANGED vars
    PROVE  TextTypes' /\ Stage'
<1>1. VectorIInv /\ TextTypes /\ Stage
  BY DEF LineIInv
<1>2. CASE BiosTakesKey
  <2>1. /\ Interrupts /\ vector = BiosVector /\ irr' = FALSE
        /\ UNCHANGED <<todo, kbd, port60, text, history>>
    BY <1>2 DEF BiosTakesKey
  <2>2. Stage'
    BY <1>1, <2>1, WhereInterrupted, SameStage
  <2>3. QED
    BY <1>1, <2>1, <2>2 DEF TextTypes, text, history
<1>3. CASE offer
  <2>1. /\ obf = None /\ kbd # <<>> /\ obf' = Head(kbd) /\ kbd' = Tail(kbd)
        /\ UNCHANGED <<todo, port60, text, history>>
    BY <1>3 DEF offer
  <2>2. todo # HandlerFrom(1)
    <3>1. SUFFICES ASSUME todo = HandlerFrom(1) PROVE FALSE
      OBVIOUS
    <3>2. todo # <<>> /\ Head(todo) = "in"
      BY <3>1, HandlerByName
    <3>3. obf \in ScanCodes
      BY <1>1, <3>2, WhereHandler
    <3>4. QED
      BY <2>1, <3>3, BootAssumption DEF None
  <2>3. Stage'
    BY <1>1, <2>1, <2>2, SameStage
  <2>4. obf' \in ScanCodes /\ kbd' \in Seq(ScanCodes)
    BY <1>1, <2>1 DEF TextTypes
  <2>5. QED
    BY <1>1, <2>1, <2>3, <2>4 DEF TextTypes, text, history
<1>4. ASSUME NEW c \in ScanCodes, press(c)
      PROVE  TextTypes' /\ Stage'
  <2>1. /\ kbd' = Append(kbd, c)
        /\ UNCHANGED <<todo, port60, text, history, irr, obf>>
    BY <1>4 DEF press
  <2>2. Stage'
    BY <1>1, <2>1, SameStage
  <2>3. kbd' \in Seq(ScanCodes)
    BY <1>1, <1>4, <2>1 DEF TextTypes
  <2>4. QED
    BY <1>1, <2>1, <2>2, <2>3 DEF TextTypes, text, history
<1>5. CASE end \/ UNCHANGED vars
  <2>1. UNCHANGED <<todo, port60, text, history, irr, obf, kbd>>
    BY <1>5 DEF end, vars, text, history
  <2>2. Stage'
    BY <1>1, <2>1, SameStage
  <2>3. QED
    BY <1>1, <2>1, <2>2 DEF TextTypes, text, history
<1>6. QED
  BY <1>2, <1>3, <1>4, <1>5

\* Every step of the machine.
LEMMA StepLineIInv ==
    ASSUME LineIInv, [Next]_vars
    PROVE  LineIInv'
<1>1. VectorIInv'
  BY StepVectorIInv DEF LineIInv
<1>2. TextTypes' /\ Stage'
  <2>1. CASE video_clear \/ load_text \/ cprint \/ end_line \/ bind_keyhandler
    BY <2>1, StepClear, StepText, StepChar, StepLine, StepBind
  <2>2. CASE read_port \/ finish_interrupt \/ print_key \/ iret
    BY <2>2, StepRead, StepEoi, StepPrint, StepReturn
  <2>3. CASE EnterHandler
    BY <2>3, StepEnter
  <2>4. CASE BiosTakesKey \/ offer \/ (\E c \in ScanCodes : press(c)) \/ end
                \/ UNCHANGED vars
    BY <2>4, StepMachine
  <2>5. QED
    BY <2>1, <2>2, <2>3, <2>4 DEF Next, Program, Deliver
<1>3. QED
  BY <1>1, <1>2 DEF LineIInv

\* The machine when it is turned on.
LEMMA InitLines ==
    ASSUME EitherInit
    PROVE  TextTypes /\ Stage
<1>1. Init
  BY DEF EitherInit
<1>2. todo = MainFrom(1)
  <2>1. _start \in Seq({"video_clear", "splash", "sprint", "splash2", "cli", "offset",
                        "segment", "sti"}) /\ Len(_start) = 9
    BY DEF _start
  <2>2. QED
    BY <1>1, <2>1, SubSeqFull DEF Init, MainFrom
<1>3. Greeting /\ Quiet /\ ypos = 0 /\ 1 \in 1 .. 2
  BY <1>1 DEF Init, Greeting, Quiet
<1>4. log \in [Rows -> Seq(Letters)]
  <2>1. \A r \in Rows : log[r] \in {splash, splash2, <<>>}
    BY <1>3 DEF Greeting
  <2>2. log = [r \in Rows |-> log[r]]
    BY <1>3 DEF Greeting
  <2>3. {splash, splash2, <<>>} \subseteq Seq(Letters)
    BY TextFacts, EmptySeq
  <2>4. QED
    BY <2>1, <2>2, <2>3
<1>5. screen \in [Cells -> Letters]
  <2>1. NUL \in Letters
    BY DEF Letters
  <2>2. QED
    BY <1>1, <2>1 DEF Init
<1>6. kbd \in Seq(ScanCodes) /\ ~irr
  BY <1>1, EmptySeq DEF Init
<1>7. ypos \in 0 .. BYTE - 1 /\ line \in 0 .. BYTE - 1
  BY <1>3, TextFacts DEF Greeting
<1>8. QED
  BY <1>2, <1>3, <1>4, <1>5, <1>6, <1>7 DEF TextTypes, Stage

\* Whenever the handler has returned, every key pressed since it was bound has a
\* line of its own, whole and in the order of the keys, whatever the greeting and
\* the sizes: a key's line is owed from the moment its byte is read to the end
\* of its printing, and with interrupts off nothing else can write in between.
THEOREM LinesShownAlways == EitherSpec => []LinesShown
<1> DEFINE Either == BabyBootRuns \/ BarebonesRuns
<1>1. EitherInit => LineIInv
  BY VectorInit, InitLines DEF LineIInv
<1>2. LineIInv /\ [Either]_<<image, vars, terminal>> => LineIInv'
  BY StepLineIInv DEF BabyBootRuns, BarebonesRuns
<1>3. LineIInv => LinesShown
  <2>1. SUFFICES ASSUME LineIInv, todo = <<>>, NEW r \in Rows,
                        NEW i \in 1 .. Len(log[r]), i <= WIDTH
                 PROVE  screen[WIDTH * r + i - 1] = log[r][i]
    BY DEF LinesShown
  <2>2. Shown(r, WIDTH)
    BY <2>1, AtTheEnd DEF LineIInv, Idle
  <2>3. QED
    BY <2>1, <2>2 DEF Shown
<1>4. QED
  BY <1>1, <1>2, <1>3, PTL DEF EitherSpec

=============================================================================
