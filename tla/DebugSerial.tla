---------------------------- MODULE DebugSerial ----------------------------
(***************************************************************************)
(* The serial log (debug_serial.cpp, io.h): init_serial on the registers   *)
(* of the UART, and serial_printf called by the main program and, between  *)
(* any two of its port accesses, by an interrupt handler.  A handler runs  *)
(* to its end with interrupts off.                                         *)
(*                                                                         *)
(* A register is the set of its bits that are 1.                           *)
(***************************************************************************)
EXTENDS Printf

CONSTANTS
    Calls,        \* what main prints: [fmt, args, means]
    HandlerText,  \* what the handler prints, already formatted
    MaxHandlers   \* bound: interrupts whose handler prints

Bit == 0 .. 7
Byte(n) == {b \in Bit : (n \div 2^b) % 2 = 1}

ASSUME CallsAssumption == /\ \A c \in Calls : DOMAIN c = {"fmt", "args", "means"}
                          /\ MaxHandlers \in Nat

DLAB == 7                         \* DLAB_BIT
PROTOCOL_BITS == Byte(63)         \* 0b00111111
Writer == {"main", "handler"}

VARIABLES
    reg,       \* the registers: "ier", "fcr", "lcr", "mcr", "dll", "dlm"
    fifo,      \* bytes in the transmitter, each <<writer, character>>
    line,      \* history: what is read at the other end of the line
    todo,      \* what each writer has still to put
    checked,   \* the writer has seen the transmitter empty
    written,   \* history: what each writer has put so far
    printing,  \* history: the call main makes
    handlers   \* interrupts so far

vars == <<reg, fifo, line, todo, checked, written, printing, handlers>>

-----------------------------------------------------------------------------
(* The UART.                                                               *)

\* The register behind a port depends on the divisor latch bit.
Port(r, n) ==
    CASE n = 0 -> IF DLAB \in r.lcr THEN "dll" ELSE "thr"
      [] n = 1 -> IF DLAB \in r.lcr THEN "dlm" ELSE "ier"
      [] n = 2 -> "fcr"
      [] n = 3 -> "lcr"
      [] n = 4 -> "mcr"

out8(r, n, val) == [r EXCEPT ![Port(r, n)] = val]
set_bits8(r, n, mask) == [r EXCEPT ![Port(r, n)] = @ \cup mask]
unset_bits8(r, n, mask) == [r EXCEPT ![Port(r, n)] = @ \ mask]
write_bits8(r, n, val, mask) ==
    [r EXCEPT ![Port(r, n)] = (@ \ mask) \cup (val \cap mask)]

\* Bit 0 of the FIFO control register turns on a queue of 16 bytes.
Capacity == IF 0 \in reg.fcr THEN 16 ELSE 1

thre == fifo = <<>>

\* The other end expects 38400 baud (the clock divided by 3), 8 bits, no
\* parity, one stop bit; of a byte sent in any other way it reads nonsense.
Understood == /\ reg.dll = Byte(3) /\ reg.dlm = {}
              /\ reg.lcr \cap PROTOCOL_BITS = Byte(3)

-----------------------------------------------------------------------------
\* Slip: the queues are reset and sized but not enabled.
init_serial_no_fifo(r) ==
    LET a == out8(r, 1, {})
        b == set_bits8(a, 3, {DLAB})
        c == out8(out8(b, 0, Byte(3)), 1, {})
        d == write_bits8(c, 3, Byte(3), PROTOCOL_BITS)
        e == unset_bits8(d, 3, {DLAB})
    IN  out8(out8(e, 2, Byte(198)), 4, Byte(11))

\* Slip: the latch bit is not taken back.
init_serial_latched(r) ==
    LET a == out8(r, 1, {})
        b == set_bits8(a, 3, {DLAB})
        c == out8(out8(b, 0, Byte(3)), 1, {})
        d == write_bits8(c, 3, Byte(3), PROTOCOL_BITS)
    IN  out8(out8(d, 2, Byte(199)), 4, Byte(11))

init_serial(r) ==
    LET a == out8(r, 1, {})
        b == set_bits8(a, 3, {DLAB})
        c == out8(out8(b, 0, Byte(3)), 1, {})
        d == write_bits8(c, 3, Byte(3), PROTOCOL_BITS)
        e == unset_bits8(d, 3, {DLAB})
    IN  out8(out8(e, 2, Byte(199)), 4, Byte(11))

\* Whatever word format, divisor and interrupts the BIOS left.
Left == [ier : {{}, {1}}, fcr : {{}}, mcr : {{}}, dll : {Byte(12)}, dlm : {{}},
         thr : {{}}, lcr : {Byte(3), Byte(26), Byte(7)}]

Init ==
    /\ \E r \in Left : reg = init_serial(r)
    /\ fifo = <<>> /\ line = <<>>
    /\ printing \in Calls
    /\ todo = [main |-> vfprintf(printing.fmt, printing.args), handler |-> <<>>]
    /\ checked = [w \in Writer |-> FALSE]
    /\ written = [w \in Writer |-> <<>>]
    /\ handlers = 0

\* Main does not run while a handler does.
Runs(w) == todo[w] # <<>> /\ (w = "main" => todo["handler"] = <<>>)

\* The two accesses of serial_putc: the loop sees THRE, then the byte goes to
\* port 0.  A byte that does not fit is lost; one that meets the divisor latch
\* changes the divisor (to what, is left out) and leaves the transmitter empty.
wait_thre(w) ==
    /\ Runs(w) /\ ~checked[w]
    /\ thre
    /\ checked' = [checked EXCEPT ![w] = TRUE]
    /\ UNCHANGED <<reg, fifo, line, todo, written, printing, handlers>>

put(w) ==
    /\ Runs(w) /\ checked[w]
    /\ LET sent == Port(reg, 0) = "thr"
       IN  /\ reg' = IF sent THEN reg ELSE out8(reg, 0, {})
           /\ fifo' = IF sent /\ Len(fifo) < Capacity
                      THEN Append(fifo, <<w, Head(todo[w])>>)
                      ELSE fifo
    /\ written' = [written EXCEPT ![w] = Append(@, Head(todo[w]))]
    /\ todo' = [todo EXCEPT ![w] = Tail(@)]
    /\ checked' = [checked EXCEPT ![w] = FALSE]
    /\ UNCHANGED <<line, printing, handlers>>

\* The transmitter empties its queue whatever the latch bit is.
transmit ==
    /\ fifo # <<>>
    /\ line' = Append(line, IF Understood THEN Head(fifo)
                            ELSE [Head(fifo) EXCEPT ![2] = "garbled"])
    /\ fifo' = Tail(fifo)
    /\ UNCHANGED <<reg, todo, checked, written, printing, handlers>>

\* handle_ps2_mouse prints.
interrupt ==
    /\ todo["handler"] = <<>>
    /\ handlers < MaxHandlers
    /\ handlers' = handlers + 1
    /\ todo' = [todo EXCEPT !["handler"] = HandlerText]
    /\ UNCHANGED <<reg, fifo, line, checked, written, printing>>

Putc == \E w \in Writer : wait_thre(w) \/ put(w)
Next == Putc \/ transmit \/ interrupt

Spec == Init /\ [][Next]_vars

\* The processor and the UART go on.
FairSpec == Spec /\ WF_vars(Putc) /\ WF_vars(transmit)

-----------------------------------------------------------------------------
(* Properties.                                                             *)

From(w, s) == LET t == SelectSeq(s, LAMBDA x : x[1] = w)
              IN  [i \in DOMAIN t |-> t[i][2]]

\* Although a handler may print between main's look at the transmitter and
\* its byte, no byte is lost and neither writer's bytes change order: the
\* queue that init_serial enables takes the byte main wrongly thinks there is
\* room for, which is the only one that ever waits behind another.
NoByteLost ==
    /\ \A w \in Writer : From(w, line \o fifo) = written[w]
    /\ Len(fifo) <= 2

\* Every text is in the end read in full at the other end of the line, whatever
\* state the UART was found in, with up to MaxHandlers handlers in between: the
\* registers init_serial leaves let every byte reach the transmitter, at the
\* rate and in the format the other end expects.
AllPrinted ==
    \A w \in Writer :
        (todo[w] # <<>>) ~> (todo[w] = <<>> /\ From(w, line) = written[w])

\* The log shows each number as C would: digits, sign, width and fill, for
\* fields filled with zeros or no wider than the number.  (Others come out in
\* another order: a zero or a minus sign stands before the spaces.)
PrintsAsC ==
    todo["main"] = <<>> /\ thre => Prints(From("main", line), printing.means)
=============================================================================
