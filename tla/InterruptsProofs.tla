-------------------------- MODULE InterruptsProofs --------------------------
(***************************************************************************)
(* Proofs about the interrupts, for every wiring of the lines, every mask  *)
(* the BIOS may leave and every number of keys.                            *)
(***************************************************************************)
EXTENDS Interrupts, SequenceTheorems, TLAPS

-----------------------------------------------------------------------------
(* The inductive invariant.                                                *)

Unhandled(i) == Gate(irq_offset + i) = "id_handler"

\* A handler runs only once interrupts are on, and what is left of it is a
\* suffix of the body of its gate, so it still holds the end of interrupt.
Suffixes(h) == {<<>>, Body(h)} \cup (IF h = "handle_keyboard"
                                        \/ h = "handle_ps2_mouse"
                                     THEN {Tail(Body(h))} ELSE {})
HandlerRuns ==
    /\ ~on => running = None
    /\ running = None => todo = <<>>
    /\ running # None => todo \in Suffixes(Gate(irq_offset + running))

\* Port 0x60 holds the byte of every requested keyboard interrupt, and of the
\* handler that has not read it yet; a byte raises the line once.
BytePending == todo # <<>> /\ Head(todo).op = "in8"
PortHeld ==
    /\ Keyboard \in irr => obf \in Bytes
    /\ BytePending => obf \in Bytes /\ Keyboard \notin irr

\* Until its end of interrupt the running handler's line is in service, the
\* most urgent of its controllers; all else in service has no handler. The
\* first controller serves the cascade exactly while the second serves a line.
OwnFirst ==
    todo # <<>> =>
        /\ running \in isr
        /\ \A j \in isr \cap First :
              (IF running \in Second THEN Cascade ELSE running) <= j
        /\ running \in Second => isr \cap Second = {running}
RestUnhandled ==
    \A i \in isr \ {Cascade} : Unhandled(i) \/ (todo # <<>> /\ i = running)
CascadeFollows == Cascade \in isr <=> isr \cap Second # {}

IInv ==
    /\ TypeOK /\ KeysInOrder
    /\ HandlerRuns /\ PortHeld
    /\ OwnFirst /\ RestUnhandled /\ CascadeFollows

-----------------------------------------------------------------------------
(* Gates, bodies and what is left of them.                                 *)

LEMMA LineFacts ==
    /\ Lines \subseteq 0 .. 15 /\ Cascade \notin Lines
    /\ Timer \in Lines /\ Keyboard \in Lines /\ Mouse \in Lines
    /\ None \notin Lines
    /\ Timer = 0 /\ Keyboard = 1 /\ Cascade = 2 /\ Mouse = 12 /\ None = -1
BY WiringAssumption DEF IRQ, Timer, Keyboard, Cascade, Mouse, None

LEMMA GateOf ==
    ASSUME NEW i \in Lines
    PROVE  Gate(irq_offset + i) = IF i = Timer THEN "handle_timer"
                                  ELSE IF i = Keyboard THEN "handle_keyboard"
                                  ELSE IF i = Mouse THEN "handle_ps2_mouse"
                                  ELSE "id_handler"
<1>1. i \in 0 .. 15 /\ irq_offset + i \in 32 .. 47
  BY LineFacts DEF irq_offset
<1>2. CASE i = Timer
  BY <1>1, <1>2, LineFacts DEF Gate, irq_offset
<1>3. CASE i = Keyboard
  BY <1>1, <1>3, LineFacts DEF Gate, irq_offset
<1>4. CASE i = Mouse
  BY <1>1, <1>4, LineFacts DEF Gate, irq_offset
<1>5. CASE i \notin {Timer, Keyboard, Mouse}
  <2>1. irq_offset + i \in 34 .. 47 \ {44}
    BY <1>1, <1>5, LineFacts DEF irq_offset
  <2>2. QED
    BY <1>5, <2>1, LineFacts DEF Gate
<1>6. QED
  BY <1>2, <1>3, <1>4, <1>5, LineFacts

\* What can be left of the handler of line i.
LEMMA SuffixFacts ==
    ASSUME NEW i \in Lines
    PROVE  LET h == Gate(irq_offset + i)
           IN  /\ i = Timer => Body(h) = <<Eoi(Timer)>>
                               /\ Suffixes(h) = {<<>>, <<Eoi(Timer)>>}
               /\ i = Keyboard =>
                     /\ Body(h) = <<Step("in8"), Eoi(Keyboard)>>
                     /\ Suffixes(h) = {<<>>, <<Eoi(Keyboard)>>,
                                       <<Step("in8"), Eoi(Keyboard)>>}
               /\ i = Mouse =>
                     /\ Body(h) = <<Step("serial_printf"), Eoi(Mouse)>>
                     /\ Suffixes(h) = {<<>>, <<Eoi(Mouse)>>,
                                       <<Step("serial_printf"), Eoi(Mouse)>>}
               /\ i \notin {Timer, Keyboard, Mouse} =>
                     Body(h) = <<>> /\ Suffixes(h) = {<<>>}
               /\ Unhandled(i) <=> i \notin {Timer, Keyboard, Mouse}
<1>1. CASE i = Timer
  <2>1. Gate(irq_offset + i) = "handle_timer"
    BY <1>1, GateOf
  <2>2. Body("handle_timer") = <<Eoi(Timer)>>
    BY DEF Body
  <2>3. QED
    BY <1>1, <2>1, <2>2, LineFacts DEF Suffixes, Unhandled
<1>2. CASE i = Keyboard
  <2>1. Gate(irq_offset + i) = "handle_keyboard"
    BY <1>2, GateOf, LineFacts
  <2>2. Body("handle_keyboard") = <<Step("in8"), Eoi(Keyboard)>>
    BY DEF Body
  <2>3. Tail(<<Step("in8"), Eoi(Keyboard)>>) = <<Eoi(Keyboard)>>
    OBVIOUS
  <2>4. Suffixes("handle_keyboard") =
           {<<>>, <<Eoi(Keyboard)>>, <<Step("in8"), Eoi(Keyboard)>>}
    <3>1. Suffixes("handle_keyboard") = {<<>>, Body("handle_keyboard")} \cup {Tail(Body("handle_keyboard"))}
      BY DEF Suffixes
    <3>2. QED
      BY <2>2, <2>3, <3>1, Zenon
  <2>5. i # Timer /\ i # Mouse
    BY <1>2, LineFacts
  <2>6. QED
    BY <1>2, <2>1, <2>2, <2>4, <2>5 DEF Unhandled
<1>3. CASE i = Mouse
  <2>1. Gate(irq_offset + i) = "handle_ps2_mouse"
    BY <1>3, GateOf, LineFacts
  <2>2. Body("handle_ps2_mouse") = <<Step("serial_printf"), Eoi(Mouse)>>
    BY DEF Body
  <2>3. Tail(<<Step("serial_printf"), Eoi(Mouse)>>) = <<Eoi(Mouse)>>
    OBVIOUS
  <2>4. Suffixes("handle_ps2_mouse") =
           {<<>>, <<Eoi(Mouse)>>, <<Step("serial_printf"), Eoi(Mouse)>>}
    <3>1. Suffixes("handle_ps2_mouse") = {<<>>, Body("handle_ps2_mouse")} \cup {Tail(Body("handle_ps2_mouse"))}
      BY DEF Suffixes
    <3>2. QED
      BY <2>2, <2>3, <3>1, Zenon
  <2>5. i # Timer /\ i # Keyboard
    BY <1>3, LineFacts
  <2>6. QED
    BY <1>3, <2>1, <2>2, <2>4, <2>5 DEF Unhandled
<1>4. CASE i \notin {Timer, Keyboard, Mouse}
  <2>1. Gate(irq_offset + i) = "id_handler"
    BY <1>4, GateOf
  <2>2. Body("id_handler") = <<>>
    BY DEF Body
  <2>3. QED
    BY <1>4, <2>1, <2>2 DEF Suffixes, Unhandled
<1>5. QED
  BY <1>1, <1>2, <1>3, <1>4

\* The shapes of what is left of a running handler.
LEMMA TodoFacts ==
    ASSUME IInv, todo # <<>>
    PROVE  /\ running \in {Timer, Keyboard, Mouse}
           /\ \/ todo = <<Eoi(running)>>
              \/ todo = <<Step("in8"), Eoi(running)>> /\ running = Keyboard
              \/ todo = <<Step("serial_printf"), Eoi(running)>> /\ running = Mouse
<1>1. running \in Lines /\ todo \in Suffixes(Gate(irq_offset + running))
  BY DEF IInv, HandlerRuns, TypeOK
<1>2. QED
  BY <1>1, SuffixFacts

-----------------------------------------------------------------------------
(* The sequences.                                                          *)

LEMMA BytesFacts == Bytes \subseteq Nat /\ None \notin Bytes /\ AuxByte \notin Bytes
BY WiringAssumption DEF None, AuxByte

\* An element moved from the head of the last of three parts to the middle,
\* and from the middle to the first.
LEMMA HeadToMiddle ==
    ASSUME NEW S, NEW s \in Seq(S), NEW t \in Seq(S), t # <<>>
    PROVE  s \o <<>> \o t = s \o <<Head(t)>> \o Tail(t)
<1>1. Head(t) \in S /\ Tail(t) \in Seq(S)
  BY HeadTailProperties
<1>2. t = <<Head(t)>> \o Tail(t)
  <2>1. <<Head(t)>> \in Seq(S) /\ Len(<<Head(t)>>) = 1 /\ <<Head(t)>>[1] = Head(t)
    BY <1>1
  <2>2. /\ Len(Tail(t)) = Len(t) - 1
        /\ \A i \in 1 .. Len(Tail(t)) : Tail(t)[i] = t[i + 1]
    BY HeadTailProperties
  <2> DEFINE u == <<Head(t)>> \o Tail(t)
  <2>3. /\ u \in Seq(S) /\ Len(u) = 1 + Len(Tail(t))
        /\ \A i \in 1 .. 1 + Len(Tail(t)) :
              u[i] = IF i <= 1 THEN <<Head(t)>>[i] ELSE Tail(t)[i - 1]
    BY <1>1, <2>1, ConcatProperties
  <2>4. Len(t) \in Nat \ {0} /\ Head(t) = t[1]
    BY EmptySeq
  <2> HIDE DEF u
  <2>5. ASSUME NEW i \in 1 .. Len(t) PROVE t[i] = u[i]
    <3>1. CASE i = 1
      BY <2>1, <2>2, <2>3, <2>4, <3>1
    <3>2. CASE i # 1
      <4>1. i - 1 \in 1 .. Len(Tail(t)) /\ (i - 1) + 1 = i
        BY <2>2, <2>4, <3>2
      <4>2. Tail(t)[i - 1] = t[i]
        BY <2>2, <4>1
      <4>3. QED
        BY <2>2, <2>3, <2>4, <3>2, <4>2
    <3>3. QED
      BY <3>1, <3>2
  <2>6. t = u
    BY <2>2, <2>3, <2>4, <2>5, SeqEqual
  <2>7. QED
    BY <2>6 DEF u
<1>3. s \o <<>> = s
  BY ConcatEmptySeq
<1>4. s \o (<<Head(t)>> \o Tail(t)) = s \o <<Head(t)>> \o Tail(t)
  <2>1. <<Head(t)>> \in Seq(S)
    BY <1>1
  <2>2. QED
    BY <1>1, <2>1, ConcatAssociative
<1>5. QED
  BY <1>2, <1>3, <1>4

LEMMA MiddleToFirst ==
    ASSUME NEW S, NEW s \in Seq(S), NEW x \in S, NEW t \in Seq(S)
    PROVE  s \o <<x>> \o t = Append(s, x) \o <<>> \o t
<1>1. Append(s, x) = s \o <<x>> /\ Append(s, x) \in Seq(S)
  BY AppendIsConcat, AppendProperties
<1>2. QED
  BY <1>1, ConcatEmptySeq

-----------------------------------------------------------------------------
(* The invariant is inductive.                                             *)

\* The three conjuncts about what is in service.
InService == OwnFirst /\ RestUnhandled /\ CascadeFollows

\* The byte port 0x60 holds for the keyboard, as a sequence.
Held == IF obf \in Bytes THEN <<obf>> ELSE <<>>

LEMMA InitIInv == Init => IInv
<1> SUFFICES ASSUME Init PROVE IInv
  OBVIOUS
<1>1. TypeOK
  <2>1. <<>> \in Seq(Bytes) /\ Len(<<>>) = 0
    BY EmptySeq
  <2>2. Len(<<>>) <= MaxKeys /\ Len(<<>>) <= 2
    BY <2>1, WiringAssumption
  <2>3. QED
    BY <2>1, <2>2 DEF Init, TypeOK
<1>2. KeysInOrder
  BY BytesFacts DEF Init, KeysInOrder
<1>3. HandlerRuns /\ PortHeld
  BY DEF Init, HandlerRuns, PortHeld, BytePending
<1>4. InService
  BY DEF Init, InService, OwnFirst, RestUnhandled, CascadeFollows
<1>5. QED
  BY <1>1, <1>2, <1>3, <1>4 DEF IInv, InService

LEMMA InitInterruptsIInv == ASSUME IInv, init_interrupts PROVE IInv'
<1>1. /\ ~on /\ on' = TRUE /\ irr' = {} /\ isr' = {}
      /\ UNCHANGED <<reports, mask, todo, running, sent, kbd, obf, got>>
      /\ early' \in BOOLEAN
  BY DEF init_interrupts
<1>2. running = None /\ todo = <<>>
  BY <1>1 DEF IInv, HandlerRuns
<1>3. TypeOK'
  BY <1>1 DEF IInv, TypeOK
<1>4. KeysInOrder'
  BY <1>1 DEF IInv, KeysInOrder
<1>5. HandlerRuns' /\ PortHeld'
  BY <1>1, <1>2 DEF IInv, HandlerRuns, PortHeld, BytePending
<1>6. InService'
  BY <1>1, <1>2 DEF InService, OwnFirst, RestUnhandled, CascadeFollows
<1>7. QED
  BY <1>3, <1>4, <1>5, <1>6 DEF IInv, InService

\* An interrupt is delivered past what is in service only if it is more
\* urgent in each controller it passes.
LEMMA DeliverIInv == ASSUME IInv, NEW i \in Lines, Deliver(i) PROVE IInv'
<1> DEFINE h == Gate(irq_offset + i)
<1>1. /\ on /\ running = None /\ i \in irr /\ ~Blocked(i)
      /\ irr' = irr \ {i}
      /\ isr' = isr \cup {i} \cup (IF i \in Second THEN {Cascade} ELSE {})
      /\ running' = i /\ todo' = Body(h)
      /\ UNCHANGED <<on, reports, mask, sent, kbd, obf, got, early>>
  BY DEF Deliver, Deliverable
<1>2. todo = <<>>
  BY <1>1 DEF IInv, HandlerRuns
<1>3. i \in 0 .. 15 /\ i # Cascade /\ i # None
  BY LineFacts
<1>4. /\ \A j \in isr \cap First : ~(j <= (IF i \in Second THEN Cascade ELSE i))
      /\ i \in Second => \A j \in isr \cap Second : ~(j <= i)
  BY <1>1 DEF Blocked
<1>5. isr \subseteq 0 .. 15
  BY LineFacts DEF IInv, TypeOK
<1>6. TypeOK'
  <2>1. Len(Body(h)) <= 2
    <3>1. Body(h) \in {<<>>, <<Eoi(Timer)>>, <<Step("in8"), Eoi(Keyboard)>>,
                       <<Step("serial_printf"), Eoi(Mouse)>>}
      BY SuffixFacts
    <3>2. /\ Len(<<>>) = 0 /\ Len(<<Eoi(Timer)>>) = 1
          /\ Len(<<Step("in8"), Eoi(Keyboard)>>) = 2
          /\ Len(<<Step("serial_printf"), Eoi(Mouse)>>) = 2
      OBVIOUS
    <3>3. Len(Body(h)) \in {0, 1, 2}
      BY <3>1, <3>2, Zenon
    <3>4. \A x \in {0, 1, 2} : x <= 2
      OBVIOUS
    <3>5. QED
      BY <3>3, <3>4, Zenon
  <2>2. isr' \subseteq Lines \cup {Cascade}
    BY <1>1 DEF IInv, TypeOK
  <2>3. QED
    BY <1>1, <2>1, <2>2 DEF IInv, TypeOK
<1>7. KeysInOrder'
  BY <1>1 DEF IInv, KeysInOrder
<1>8. HandlerRuns'
  BY <1>1, <1>3 DEF HandlerRuns, Suffixes
<1>9. PortHeld'
  <2>1. BytePending' => i = Keyboard
    BY <1>1, SuffixFacts DEF BytePending, Step, Eoi
  <2>2. QED
    BY <1>1, <2>1 DEF IInv, PortHeld
<1>10. InService'
  <2>1. CASE i \in Second
    <3>1. Cascade \notin isr
      <4>1. Cascade \in First /\ Cascade <= Cascade
        BY DEF Cascade, First
      <4>2. QED
        BY <1>4, <2>1, <4>1
    <3>2. isr \cap Second = {}
      BY <3>1 DEF IInv, CascadeFollows
    <3>3. isr' = isr \cup {i, Cascade}
      BY <1>1, <2>1
    <3>4. Cascade \in First /\ Cascade \notin Second /\ i \notin First
      BY <2>1 DEF Cascade, First, Second
    <3>5. isr' \cap Second = {i} /\ isr' \cap First = (isr \cap First) \cup {Cascade}
      BY <2>1, <3>2, <3>3, <3>4
    <3>6. \A j \in isr' \cap First : Cascade <= j
      BY <1>4, <2>1, <3>5 DEF Cascade, First
    <3>7. OwnFirst'
      BY <1>1, <2>1, <3>3, <3>5, <3>6 DEF OwnFirst
    <3>8. CascadeFollows'
      BY <3>3, <3>5 DEF CascadeFollows
    <3>9. RestUnhandled'
      BY <1>1, <1>2, <3>3, SuffixFacts DEF IInv, RestUnhandled
    <3>10. QED
      BY <3>7, <3>8, <3>9 DEF InService
  <2>2. CASE i \notin Second
    <3>1. i \in First
      BY <1>3, <2>2 DEF First, Second
    <3>2. isr' = isr \cup {i}
      BY <1>1, <2>2
    <3>3. \A j \in isr' \cap First : i <= j
      BY <1>4, <2>2, <3>1, <3>2 DEF First
    <3>4. OwnFirst'
      BY <1>1, <2>2, <3>2, <3>3 DEF OwnFirst
    <3>5. CascadeFollows'
      BY <1>3, <2>2, <3>2 DEF IInv, CascadeFollows
    <3>6. RestUnhandled'
      BY <1>1, <1>2, <3>2, SuffixFacts DEF IInv, RestUnhandled
    <3>7. QED
      BY <3>4, <3>5, <3>6 DEF InService
  <2>3. QED
    BY <2>1, <2>2
<1>11. QED
  BY <1>6, <1>7, <1>8, <1>9, <1>10 DEF IInv, InService

\* The handler reads a byte of the keyboard's, and it is the oldest unread.
LEMMA ReadScanCodeIInv == ASSUME IInv, read_scan_code PROVE IInv'
<1>1. /\ todo # <<>> /\ Head(todo).op = "in8"
      /\ got' = Append(got, obf) /\ obf' = None /\ todo' = Tail(todo)
      /\ UNCHANGED <<on, reports, mask, irr, isr, running, sent, kbd, early>>
  BY DEF read_scan_code
<1>2. obf \in Bytes /\ Keyboard \notin irr
  BY <1>1 DEF IInv, PortHeld, BytePending
<1>3. running = Keyboard /\ todo = <<Step("in8"), Eoi(running)>>
  <2>1. Head(<<Eoi(running)>>).op # "in8"
    BY DEF Eoi
  <2>2. Head(<<Step("serial_printf"), Eoi(running)>>).op # "in8"
    BY DEF Step
  <2>3. QED
    BY <1>1, <2>1, <2>2, TodoFacts
<1>4. todo' = <<Eoi(Keyboard)>> /\ todo' # <<>> /\ Len(todo') = 1
      /\ Head(todo').op # "in8"
  BY <1>1, <1>3 DEF Eoi
<1>5. TypeOK'
  <2>1. got' \in Seq(Bytes)
    BY <1>1, <1>2, AppendProperties DEF IInv, TypeOK
  <2>2. QED
    BY <1>1, <1>4, <2>1 DEF IInv, TypeOK
<1>6. KeysInOrder'
  <2>1. sent = got \o <<obf>> \o kbd
    BY <1>2 DEF IInv, KeysInOrder
  <2>2. got \o <<obf>> \o kbd = Append(got, obf) \o <<>> \o kbd
    BY <1>2, MiddleToFirst DEF IInv, TypeOK
  <2>3. QED
    BY <1>1, <2>1, <2>2, BytesFacts DEF KeysInOrder
<1>7. HandlerRuns'
  <2>1. running \in Lines /\ running # None
    BY <1>3, LineFacts
  <2>2. <<Eoi(Keyboard)>> \in Suffixes(Gate(irq_offset + running))
    BY <1>3, <2>1, SuffixFacts
  <2>3. QED
    BY <1>1, <1>4, <2>1, <2>2 DEF IInv, HandlerRuns
<1>8. PortHeld'
  BY <1>1, <1>2, <1>4 DEF PortHeld, BytePending
<1>9. InService'
  BY <1>1, <1>4 DEF IInv, InService, OwnFirst, RestUnhandled, CascadeFollows
<1>10. QED
  BY <1>5, <1>6, <1>7, <1>8, <1>9 DEF IInv, InService

LEMMA PrintMouseIInv == ASSUME IInv, print_mouse PROVE IInv'
<1>1. /\ todo # <<>> /\ Head(todo).op = "serial_printf" /\ todo' = Tail(todo)
      /\ UNCHANGED <<on, reports, mask, irr, isr, running, sent, kbd, obf, got, early>>
  BY DEF print_mouse
<1>2. running = Mouse /\ todo = <<Step("serial_printf"), Eoi(running)>>
  <2>1. Head(<<Eoi(running)>>).op # "serial_printf"
    BY DEF Eoi
  <2>2. Head(<<Step("in8"), Eoi(running)>>).op # "serial_printf"
    BY DEF Step
  <2>3. QED
    BY <1>1, <2>1, <2>2, TodoFacts
<1>3. todo' = <<Eoi(Mouse)>> /\ todo' # <<>> /\ Len(todo') = 1
      /\ Head(todo').op # "in8"
  BY <1>1, <1>2 DEF Eoi
<1>4. TypeOK' /\ KeysInOrder'
  BY <1>1, <1>3 DEF IInv, TypeOK, KeysInOrder
<1>5. HandlerRuns'
  <2>1. running \in Lines /\ running # None
    BY <1>2, LineFacts
  <2>2. <<Eoi(Mouse)>> \in Suffixes(Gate(irq_offset + running))
    BY <1>2, <2>1, SuffixFacts
  <2>3. QED
    BY <1>1, <1>3, <2>1, <2>2 DEF IInv, HandlerRuns
<1>6. PortHeld'
  BY <1>1, <1>3 DEF IInv, PortHeld, BytePending
<1>7. InService'
  BY <1>1, <1>3 DEF IInv, InService, OwnFirst, RestUnhandled, CascadeFollows
<1>8. QED
  BY <1>4, <1>5, <1>6, <1>7 DEF IInv, InService

\* The end of interrupt ends the handler's own, in both controllers.
LEMMA SendEoiFacts ==
    ASSUME IInv, send_eoi
    PROVE  /\ running \in Lines /\ running \in isr
           /\ todo = <<Eoi(running)>> /\ todo' = <<>>
           /\ isr' = isr \ ({running} \cup
                            (IF running \in Second THEN {Cascade} ELSE {}))
           /\ running \in Second => Cascade \in isr /\ isr \cap Second = {running}
           /\ UNCHANGED <<on, reports, mask, irr, running, sent, kbd, obf, got, early>>
<1>1. /\ todo # <<>> /\ Head(todo).op = "pic_send_eoi"
      /\ pic_send_eoi(Head(todo).irq) /\ todo' = Tail(todo)
      /\ UNCHANGED <<on, reports, mask, irr, running, sent, kbd, obf, got, early>>
  BY DEF send_eoi
<1>2. todo = <<Eoi(running)>>
  <2>1. Head(<<Step("in8"), Eoi(running)>>).op # "pic_send_eoi"
    BY DEF Step
  <2>2. Head(<<Step("serial_printf"), Eoi(running)>>).op # "pic_send_eoi"
    BY DEF Step
  <2>3. QED
    BY <1>1, <2>1, <2>2, TodoFacts
<1>3. todo' = <<>> /\ pic_send_eoi(running)
  BY <1>1, <1>2 DEF Eoi
<1>4. /\ running \in isr
      /\ \A j \in isr \cap First :
            (IF running \in Second THEN Cascade ELSE running) <= j
      /\ running \in Second => isr \cap Second = {running}
  BY <1>1 DEF IInv, OwnFirst
<1>5. running \in Lines /\ running \in 0 .. 15 /\ running # Cascade
  BY <1>1, TodoFacts, LineFacts
<1>6. CASE running \in Second
  <2>1. Cascade \in isr /\ Cascade \in isr \cap First
    BY <1>4, <1>6 DEF IInv, CascadeFollows, Cascade, First
  <2>2. Highest(isr \cap First) = {Cascade}
    BY <1>4, <1>6, <2>1 DEF Highest, First, Cascade
  <2>3. Highest(isr \cap Second) = {running}
    BY <1>4, <1>6 DEF Highest, Second
  <2>4. isr' = isr \ {Cascade, running}
    BY <1>3, <1>6, <2>2, <2>3 DEF pic_send_eoi
  <2>5. QED
    BY <1>1, <1>2, <1>3, <1>4, <1>5, <1>6, <2>1, <2>4
<1>7. CASE running \notin Second
  <2>1. running \in isr \cap First
    BY <1>4, <1>5, <1>7 DEF First, Second
  <2>2. Highest(isr \cap First) = {running}
    BY <1>4, <1>7, <2>1 DEF Highest, First
  <2>3. isr' = isr \ {running}
    BY <1>3, <1>7, <2>2 DEF pic_send_eoi
  <2>4. QED
    BY <1>1, <1>2, <1>3, <1>4, <1>5, <1>7, <2>3
<1>8. QED
  BY <1>6, <1>7

LEMMA SendEoiIInv == ASSUME IInv, send_eoi PROVE IInv'
<1>1. /\ running \in Lines /\ running \in isr /\ todo # <<>> /\ todo' = <<>>
      /\ isr' = isr \ ({running} \cup (IF running \in Second THEN {Cascade} ELSE {}))
      /\ running \in Second => Cascade \in isr /\ isr \cap Second = {running}
      /\ UNCHANGED <<on, reports, mask, irr, running, sent, kbd, obf, got, early>>
  BY SendEoiFacts
<1>2. Len(todo') = 0
  BY <1>1
<1>3. TypeOK' /\ KeysInOrder'
  BY <1>1, <1>2 DEF IInv, TypeOK, KeysInOrder
<1>4. HandlerRuns' /\ PortHeld'
  BY <1>1 DEF IInv, HandlerRuns, Suffixes, PortHeld, BytePending
<1>5. OwnFirst' /\ RestUnhandled'
  BY <1>1 DEF IInv, OwnFirst, RestUnhandled
<1>6. CascadeFollows'
  <2>1. running # Cascade /\ Cascade \notin Second
    BY <1>1, LineFacts DEF Second, Cascade
  <2>2. CASE running \in Second
    BY <1>1, <2>1, <2>2 DEF CascadeFollows
  <2>3. CASE running \notin Second
    BY <1>1, <2>1, <2>3 DEF IInv, CascadeFollows
  <2>4. QED
    BY <2>2, <2>3
<1>7. QED
  BY <1>3, <1>4, <1>5, <1>6 DEF IInv

LEMMA ReturnIInv == ASSUME IInv, return_from_interrupt PROVE IInv'
<1>1. /\ todo = <<>> /\ running' = None
      /\ UNCHANGED <<on, reports, mask, irr, isr, todo, sent, kbd, obf, got, early>>
  BY DEF return_from_interrupt
<1>2. TypeOK' /\ KeysInOrder' /\ HandlerRuns' /\ PortHeld'
  BY <1>1 DEF IInv, TypeOK, KeysInOrder, HandlerRuns, PortHeld, BytePending
<1>3. InService'
  BY <1>1 DEF IInv, InService, OwnFirst, RestUnhandled, CascadeFollows
<1>4. QED
  BY <1>2, <1>3 DEF IInv, InService

-----------------------------------------------------------------------------
(* The devices keep it.                                                    *)

LEMMA PressIInv == ASSUME IInv, NEW b \in Bytes, press(b) PROVE IInv'
<1>1. /\ Len(sent) < MaxKeys /\ sent' = Append(sent, b) /\ kbd' = Append(kbd, b)
      /\ UNCHANGED <<on, reports, mask, irr, isr, todo, running, obf, got, early>>
  BY DEF press
<1>2. TypeOK'
  <2>1. /\ sent' \in Seq(Bytes) /\ Len(sent') = Len(sent) + 1
        /\ kbd' \in Seq(Bytes) /\ Len(sent) \in Nat
    BY <1>1, AppendProperties, LenProperties DEF IInv, TypeOK
  <2>2. Len(sent') <= MaxKeys
    BY <1>1, <2>1, WiringAssumption
  <2>3. QED
    BY <1>1, <2>1, <2>2 DEF IInv, TypeOK
<1>3. KeysInOrder'
  <2> DEFINE p == got \o Held
             e == <<b>>
  <2>1. p \in Seq(Bytes) /\ kbd \in Seq(Bytes) /\ e \in Seq(Bytes)
    <3>1. Held \in Seq(Bytes)
      BY EmptySeq DEF Held
    <3>2. QED
      BY <3>1, ConcatProperties DEF IInv, TypeOK
  <2>2. sent = p \o kbd
    BY DEF IInv, KeysInOrder, Held
  <2>3. sent' = sent \o e /\ kbd' = kbd \o e
    BY <1>1, AppendIsConcat DEF IInv, TypeOK
  <2> HIDE DEF p, e
  <2>4. (p \o kbd) \o e = p \o (kbd \o e)
    BY <2>1, ConcatAssociative
  <2>5. sent' = p \o kbd'
    BY <2>2, <2>3, <2>4, Zenon
  <2>6. QED
    BY <1>1, <2>5 DEF KeysInOrder, Held, p
<1>4. HandlerRuns' /\ PortHeld'
  BY <1>1 DEF IInv, HandlerRuns, PortHeld, BytePending
<1>5. InService'
  BY <1>1 DEF IInv, InService, OwnFirst, RestUnhandled, CascadeFollows
<1>6. QED
  BY <1>2, <1>3, <1>4, <1>5 DEF IInv, InService

\* The keyboard controller offers a byte only in an empty port, so no handler
\* that has still to read is overtaken.
LEMMA OfferKeyIInv == ASSUME IInv, offer_key PROVE IInv'
<1>1. /\ obf = None /\ kbd # <<>>
      /\ obf' = Head(kbd) /\ kbd' = Tail(kbd) /\ irr' = irr \cup {Keyboard}
      /\ UNCHANGED <<on, reports, mask, isr, todo, running, sent, got, early>>
  BY DEF offer_key
<1>2. Head(kbd) \in Bytes /\ Tail(kbd) \in Seq(Bytes)
  BY <1>1, HeadTailProperties DEF IInv, TypeOK
<1>3. TypeOK'
  BY <1>1, <1>2, LineFacts DEF IInv, TypeOK
<1>4. KeysInOrder'
  <2>1. sent = got \o <<>> \o kbd
    BY <1>1, BytesFacts DEF IInv, KeysInOrder
  <2>2. got \o <<>> \o kbd = got \o <<Head(kbd)>> \o Tail(kbd)
    BY <1>1, HeadToMiddle DEF IInv, TypeOK
  <2>3. QED
    BY <1>1, <1>2, <2>1, <2>2 DEF KeysInOrder
<1>5. HandlerRuns'
  BY <1>1 DEF IInv, HandlerRuns
<1>6. PortHeld'
  BY <1>1, <1>2, BytesFacts DEF IInv, PortHeld, BytePending
<1>7. InService'
  BY <1>1 DEF IInv, InService, OwnFirst, RestUnhandled, CascadeFollows
<1>8. QED
  BY <1>3, <1>4, <1>5, <1>6, <1>7 DEF IInv, InService

LEMMA OfferMouseIInv == ASSUME IInv, offer_mouse PROVE IInv'
<1>1. /\ obf = None /\ obf' = AuxByte /\ irr' = irr \cup {Mouse}
      /\ UNCHANGED <<on, reports, mask, isr, todo, running, sent, kbd, got, early>>
  BY DEF offer_mouse
<1>2. obf \notin Bytes /\ obf' \notin Bytes
  BY <1>1, BytesFacts
<1>3. Mouse \in Lines /\ Mouse # Keyboard
  BY LineFacts
<1>4. TypeOK' /\ KeysInOrder'
  BY <1>1, <1>2, <1>3 DEF IInv, TypeOK, KeysInOrder
<1>5. HandlerRuns' /\ PortHeld'
  BY <1>1, <1>2, <1>3 DEF IInv, HandlerRuns, PortHeld, BytePending
<1>6. InService'
  BY <1>1 DEF IInv, InService, OwnFirst, RestUnhandled, CascadeFollows
<1>7. QED
  BY <1>4, <1>5, <1>6 DEF IInv, InService

LEMMA RequestIInv == ASSUME IInv, NEW i \in Lines, request(i) PROVE IInv'
<1>1. /\ i # Keyboard /\ irr' = irr \cup {i}
      /\ UNCHANGED <<on, reports, mask, isr, todo, running, sent, kbd, obf, got, early>>
  BY DEF request
<1>2. TypeOK' /\ KeysInOrder'
  BY <1>1 DEF IInv, TypeOK, KeysInOrder
<1>3. HandlerRuns' /\ PortHeld'
  BY <1>1 DEF IInv, HandlerRuns, PortHeld, BytePending
<1>4. InService'
  BY <1>1 DEF IInv, InService, OwnFirst, RestUnhandled, CascadeFollows
<1>5. QED
  BY <1>2, <1>3, <1>4 DEF IInv, InService

LEMMA StepIInv == IInv /\ [Next]_vars => IInv'
<1> SUFFICES ASSUME IInv, [Next]_vars PROVE IInv'
  OBVIOUS
<1>1. CASE init_interrupts
  BY <1>1, InitInterruptsIInv
<1>2. ASSUME NEW i \in Lines, Deliver(i) PROVE IInv'
  BY <1>2, DeliverIInv
<1>3. CASE Handler
  BY <1>3, ReadScanCodeIInv, SendEoiIInv, PrintMouseIInv, ReturnIInv DEF Handler
<1>4. CASE Devices
  BY <1>4, PressIInv, OfferKeyIInv, OfferMouseIInv, RequestIInv DEF Devices
<1>5. CASE UNCHANGED vars
  BY <1>5
     DEF vars, IInv, TypeOK, KeysInOrder, HandlerRuns, PortHeld, BytePending,
         OwnFirst, RestUnhandled, CascadeFollows
<1>6. QED
  BY <1>1, <1>2, <1>3, <1>4, <1>5 DEF Next

LEMMA Inductive == Spec => []IInv
BY InitIInv, StepIInv, PTL DEF Spec

-----------------------------------------------------------------------------
(* What holds of the interrupts.                                           *)

\* Every variable keeps its type: only wired lines are requested and served,
\* and what runs is the handler of one of them.
THEOREM InterruptsTypeCorrect == Spec => []TypeOK
<1>1. IInv => TypeOK
  BY DEF IInv
<1>2. QED
  BY Inductive, <1>1, PTL

\* handle_scan_code is given every scan code once and in the order the
\* keyboard sent them, and never a byte that is not the keyboard's.
THEOREM KeysInOrderAlways == Spec => []KeysInOrder
<1>1. IInv => KeysInOrder
  BY DEF IInv
<1>2. QED
  BY Inductive, <1>1, PTL

\* The nonspecific end of interrupt always ends the handler's own interrupt,
\* and the cascade's with it, whatever stays in service without a handler.
THEOREM EoiEndsOwnAlways == Spec => EoiEndsOwn
<1> DEFINE EndsOwn == send_eoi => isr \ isr' = {running} \cup
                                     (IF running \in Second THEN {Cascade} ELSE {})
<1>1. IInv /\ [Next]_vars => [EndsOwn]_vars
  BY SendEoiFacts
<1>2. QED
  BY Inductive, <1>1, PTL DEF Spec, EoiEndsOwn

\* Between handlers only lines without a handler are left in service.
THEOREM OnlyUnhandledStayAlways == Spec => []OnlyUnhandledStay
<1>1. IInv => OnlyUnhandledStay
  BY DEF IInv, HandlerRuns, RestUnhandled, CascadeFollows, Unhandled,
         OnlyUnhandledStay
<1>2. QED
  BY Inductive, <1>1, PTL

=============================================================================
