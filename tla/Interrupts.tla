----------------------------- MODULE Interrupts -----------------------------
(***************************************************************************)
(* Interrupts of gullfoss (interrupt_manager.cpp, interrupt_impl.cpp): the *)
(* table of gates, the two cascaded interrupt controllers init_interrupts  *)
(* programs, the handlers step by step, and the devices as the handlers    *)
(* use them.  Gates are interrupt gates, so a handler runs to its end      *)
(* before the next interrupt; the main program only waits.                 *)
(***************************************************************************)
EXTENDS Integers, Sequences, FiniteSets

CONSTANTS
    Masks,      \* what the BIOS may have masked: sets of IRQs
    Lines,      \* IRQ lines something is wired to
    Bytes,      \* scan codes
    MaxKeys     \* bound: scan codes sent

irq_offset == 32                  \* 0x20
IRQ == 0 .. 15
Timer == 0
Keyboard == 1
Cascade == 2
Mouse == 12
None == -1
AuxByte == -2                     \* a byte of the mouse

ASSUME WiringAssumption ==
    /\ Lines \subseteq IRQ \ {Cascade}
    /\ {Timer, Keyboard, Mouse} \subseteq Lines
    /\ \A m \in Masks : m \subseteq IRQ
    /\ MaxKeys \in Nat
    /\ Bytes \subseteq Nat

VARIABLES
    on,        \* init_interrupts is done: IDT loaded, interrupts enabled
    reports,   \* the mouse reports: nothing in the kernel asks it to
    mask,      \* the masks reprogram_pics saves and restores
    irr, isr,  \* interrupts requested, in service; 0-7 are the first
               \* controller's, 8-15 the second's
    todo,      \* what is left of the running handler: a sequence of steps
    running,   \* the IRQ it was entered for, or None
    sent,      \* history: every scan code the keyboard sent
    kbd,       \* scan codes waiting in the keyboard
    obf,       \* the byte port 0x60 holds, or None
    got,       \* history: the bytes handle_scan_code was given
    early      \* history: a byte was in port 0x60 when interrupts came on

vars == <<on, reports, mask, irr, isr, todo, running, sent, kbd, obf, got, early>>

-----------------------------------------------------------------------------
(* The gates (load_idt) and the bodies of the handlers.                    *)

Gate(v) ==
    CASE v \in 0 .. 14 \cup 16 .. 21 -> "exception"   \* handle_div0 ...
      [] v = 32 -> "handle_timer"
      [] v = 33 -> "handle_keyboard"
      [] v = 44 -> "handle_ps2_mouse"
      [] v \in 34 .. 47 \ {44} -> "id_handler"
      [] OTHER -> "assert_no_handler"

Eoi(i) == [op |-> "pic_send_eoi", irq |-> i]
Step(o) == [op |-> o, irq |-> None]

\* Slip: the keyboard handler's body is given to the mouse.
BodyMouseReads(h) ==
    CASE h = "handle_timer"      -> <<Eoi(Timer)>>
      [] h = "handle_ps2_mouse"  -> <<Step("in8"), Eoi(Mouse)>>
      [] h = "handle_keyboard"   -> <<Step("serial_printf"), Eoi(Keyboard)>>
      [] OTHER                   -> <<>>

\* Slip: the keyboard handler ends the interrupt and returns when it has
\* nobody to give the byte to.
BodyWithoutRead(h) ==
    CASE h = "handle_timer"     -> <<Eoi(Timer)>>
      [] h = "handle_keyboard"  -> <<Eoi(Keyboard)>>
      [] h = "handle_ps2_mouse" -> <<Step("serial_printf"), Eoi(Mouse)>>
      [] OTHER                  -> <<>>

\* Slip: the mouse handler is left as empty as the unhandled ones.
BodyMouseUnended(h) ==
    CASE h = "handle_timer"    -> <<Eoi(Timer)>>
      [] h = "handle_keyboard" -> <<Step("in8"), Eoi(Keyboard)>>
      [] OTHER                 -> <<>>

\* Slip: the byte is read again for the decoder.
BodyReadsTwice(h) ==
    CASE h = "handle_keyboard"  -> <<Step("in8"), Step("in8"), Eoi(Keyboard)>>
      [] h = "handle_timer"     -> <<Eoi(Timer)>>
      [] h = "handle_ps2_mouse" -> <<Step("serial_printf"), Eoi(Mouse)>>
      [] OTHER                  -> <<>>

Body(h) ==
    CASE h = "handle_timer"      -> <<Eoi(Timer)>>
      [] h = "handle_keyboard"   -> <<Step("in8"), Eoi(Keyboard)>>
      [] h = "handle_ps2_mouse"  -> <<Step("serial_printf"), Eoi(Mouse)>>
      [] h = "assert_no_handler" -> <<Step("panic")>>
      [] OTHER                   -> <<>>

-----------------------------------------------------------------------------
(* The controllers: fixed priorities, the second cascaded at IRQ 2.        *)

First == 0 .. 7
Second == 8 .. 15
Before(i, j) == LET At(k) == IF k \in Second THEN <<Cascade, k>> ELSE <<k, 0>>
                IN  \/ At(i)[1] < At(j)[1]
                    \/ At(i)[1] = At(j)[1] /\ At(i)[2] < At(j)[2]

Blocked(i) ==
    \/ \E j \in isr \cap First : j <= (IF i \in Second THEN Cascade ELSE i)
    \/ i \in Second /\ \E j \in isr \cap Second : j <= i

Unmasked(i) == i \notin mask /\ (i \in Second => Cascade \notin mask)

Deliverable == {i \in irr : Unmasked(i) /\ ~Blocked(i)}

Highest(S) == {i \in S : \A j \in S : i <= j}

\* Slip: the first controller is told only of its own interrupts.
EoiToOneController(i) ==
    isr' = isr \ (IF i \in Second THEN Highest(isr \cap Second)
                                  ELSE Highest(isr \cap First))

\* A nonspecific end of interrupt: each controller it is sent to clears its
\* highest interrupt in service.
pic_send_eoi(i) ==
    isr' = isr \ (Highest(isr \cap First) \cup
                  (IF i \in Second THEN Highest(isr \cap Second) ELSE {}))

TypeOK ==
    /\ on \in BOOLEAN /\ early \in BOOLEAN
    /\ reports \in BOOLEAN /\ mask \in Masks
    /\ irr \subseteq Lines
    /\ isr \subseteq Lines \cup {Cascade}
    /\ running \in Lines \cup {None}
    /\ Len(todo) <= 2
    /\ sent \in Seq(Bytes) /\ Len(sent) <= MaxKeys
    /\ kbd \in Seq(Bytes)
    /\ obf \in Bytes \cup {None, AuxByte}
    /\ got \in Seq(Bytes)

Init ==
    /\ on = FALSE
    /\ reports \in BOOLEAN /\ mask \in Masks
    /\ irr = {} /\ isr = {}
    /\ todo = <<>> /\ running = None
    /\ sent = <<>> /\ kbd = <<>> /\ obf = None /\ got = <<>>
    /\ early = FALSE

-----------------------------------------------------------------------------
(* The kernel.                                                             *)

\* init_interrupts: reprogram_pics resets both controllers, which forgets
\* what was requested and waits for the next rising edge; lidt; sti.
init_interrupts ==
    /\ ~on
    /\ on' = TRUE
    /\ irr' = {} /\ isr' = {}
    /\ early' = (obf # None)
    /\ UNCHANGED <<reports, mask, todo, running, sent, kbd, obf, got>>

\* The processor takes an interrupt and enters its gate.
Deliver(i) ==
    /\ on /\ running = None
    /\ i \in Deliverable
    /\ \A j \in Deliverable : i # j => Before(i, j)
    /\ irr' = irr \ {i}
    /\ isr' = isr \cup {i} \cup (IF i \in Second THEN {Cascade} ELSE {})
    /\ running' = i
    /\ todo' = Body(Gate(irq_offset + i))
    /\ UNCHANGED <<on, reports, mask, sent, kbd, obf, got, early>>

\* The next step of the running handler.
read_scan_code ==
    /\ todo # <<>> /\ Head(todo).op = "in8"
    /\ got' = Append(got, obf)
    /\ obf' = None
    /\ todo' = Tail(todo)
    /\ UNCHANGED <<on, reports, mask, irr, isr, running, sent, kbd, early>>

send_eoi ==
    /\ todo # <<>> /\ Head(todo).op = "pic_send_eoi"
    /\ pic_send_eoi(Head(todo).irq)
    /\ todo' = Tail(todo)
    /\ UNCHANGED <<on, reports, mask, irr, running, sent, kbd, obf, got, early>>

print_mouse ==
    /\ todo # <<>> /\ Head(todo).op = "serial_printf"
    /\ todo' = Tail(todo)
    /\ UNCHANGED <<on, reports, mask, irr, isr, running, sent, kbd, obf, got, early>>

return_from_interrupt ==
    /\ running # None /\ todo = <<>>
    /\ running' = None
    /\ UNCHANGED <<on, reports, mask, irr, isr, todo, sent, kbd, obf, got, early>>

Handler == read_scan_code \/ send_eoi \/ print_mouse \/ return_from_interrupt

-----------------------------------------------------------------------------
(* The devices.                                                            *)

press(b) ==
    /\ Len(sent) < MaxKeys
    /\ sent' = Append(sent, b)
    /\ kbd' = Append(kbd, b)
    /\ UNCHANGED <<on, reports, mask, irr, isr, todo, running, obf, got, early>>

\* The keyboard controller moves the next byte to port 0x60 when the last
\* one has been read, and raises its line.
offer_key ==
    /\ obf = None /\ kbd # <<>>
    /\ obf' = Head(kbd) /\ kbd' = Tail(kbd)
    /\ irr' = irr \cup {Keyboard}
    /\ UNCHANGED <<on, reports, mask, isr, todo, running, sent, got, early>>

offer_mouse ==
    /\ reports /\ obf = None
    /\ obf' = AuxByte
    /\ irr' = irr \cup {Mouse}
    /\ UNCHANGED <<on, reports, mask, isr, todo, running, sent, kbd, got, early>>

\* Any other line: the timer's ticks, a disk, a clock.
request(i) ==
    /\ i \notin {Keyboard, Mouse}
    /\ irr' = irr \cup {i}
    /\ UNCHANGED <<on, reports, mask, isr, todo, running, sent, kbd, obf, got, early>>

Devices == (\E b \in Bytes : press(b)) \/ offer_key \/ offer_mouse
              \/ \E i \in Lines : request(i)

Next == init_interrupts \/ (\E i \in Lines : Deliver(i)) \/ Handler \/ Devices

Spec == Init /\ [][Next]_vars

\* The processor runs, and so does the keyboard controller; an interrupt that
\* is the most urgent one again and again is delivered.
FairSpec ==
    /\ Spec
    /\ WF_vars(init_interrupts) /\ WF_vars(Handler) /\ WF_vars(offer_key)
    /\ \A i \in Lines : SF_vars(Deliver(i))

-----------------------------------------------------------------------------
(* Properties.                                                             *)

\* Every scan code reaches handle_scan_code once and in order, and the
\* handler never reads the port when it holds no byte of the keyboard's.
KeysInOrder ==
    sent = got \o (IF obf \in Bytes THEN <<obf>> ELSE <<>>) \o kbd

\* The end of interrupt that pic_send_eoi sends does not name an interrupt:
\* it must end the handler's own, in both controllers, whatever unhandled
\* interrupts are still in service below it.
EoiEndsOwn ==
    [][send_eoi => isr \ isr' = {running} \cup
                     (IF running \in Second THEN {Cascade} ELSE {})]_vars

\* Every scan code is eventually handled, also between timer ticks and after
\* any number of unhandled interrupts, with two exceptions the code has: a byte
\* was in the port when the controllers were reset, whose edge is forgotten; or
\* the mouse reports, whose handler leaves its byte in the port they share.
\* The timer, which goes first, is assumed to leave time: it ticks every 55 ms.
TimerLeavesTime == []<>(running = None /\ Timer \notin irr)
KeysServed ==
    TimerLeavesTime =>
        \A n \in 1 .. MaxKeys :
            (Len(sent) >= n) ~> (Len(got) >= n \/ early \/ reports)

\* Between handlers only lines without one are still in service (id_handler sends
\* no end of interrupt, so they stay for ever, and keep what is below them out),
\* and the cascade exactly as long as such a line of the second controller is:
\* no handled line is ever left behind, whatever was in service when it came.
OnlyUnhandledStay ==
    running = None =>
        /\ \A i \in isr \ {Cascade} : Gate(irq_offset + i) = "id_handler"
        /\ Cascade \in isr <=> isr \cap Second # {}
=============================================================================
