--------------------------- MODULE KeyboardState ---------------------------
(***************************************************************************)
(* The keyboard (keyboard_state.cpp): the decoder of scan codes, the bit   *)
(* of every key, the modifiers, and the calls of the subscriber.  The      *)
(* keyboard itself is external: it sends some bytes for each key pressed,  *)
(* repeated or released, which the interrupt handler passes to             *)
(* handle_scan_code in order (KeysInOrder of Interrupts).                  *)
(*                                                                         *)
(* What a key sends is a sequence of signals, as the kernel's table of     *)
(* codes reads them: the bytes, the code they stand for (None if the       *)
(* kernel has no name for it), and whether it goes down.  Most keys send   *)
(* one signal when they go down and one when they are released; print      *)
(* screen puts a shift of its own around them, and the pause key sends     *)
(* four at once and none when it is released.                              *)
(***************************************************************************)
EXTENDS Integers, SequencesExt

CONSTANTS
    Keys,     \* the keyboard's keys: [make, break], sequences of signals
    MaxWire   \* bound: bytes on the way when a signal joins others

None == -1                 \* the code of a key the kernel has no name for
KeyCode == 0 .. 89
_last == 89                \* KeyCode::_last, del

left_ctrl == 29
left_shift == 42
right_shift == 54
left_alt == 56

\* The codes handle_scan_code accepts after 0xe0.
Extended == {28, left_ctrl, left_shift, 53, right_shift, 55, left_alt, 70,
             71, 72, 73, 75, 77, 79, 80, 81, 82, 83}

Signal == [bytes : Seq(0 .. 255), code : KeyCode \cup {None}, down : BOOLEAN]

ASSUME KeysAssumption ==
    /\ Keys \subseteq [make : Seq(Signal), break : Seq(Signal)]
    /\ MaxWire \in Nat

VARIABLES
    scan_state,  \* "ready" or "e0_b1"
    key_states,  \* the bits of the array: codes of keys that are down
    lock_state,  \* the byte behind the array, as the set of its bits
    mod_state,   \* set of modifiers
    subscriber,  \* whether one is set
    event,       \* history: what the latest byte made of a key, and who heard
    wire,        \* bytes the keyboard has sent, and which of them end a signal
    held,        \* keys that are down
    lit,         \* history: marks the signals sent so far leave (see Marks)
    due,         \* history: the signals that end on the wire, with the
                 \* modifiers of their moment
    strayed,     \* history: an extended code that is not listed was handled,
                 \* and no listed code since
    lost         \* history: codes whose latest signal was not acted on

vars == <<scan_state, key_states, lock_state, mod_state, subscriber, event,
          wire, held, lit, due, strayed, lost>>
keyboard == <<wire, held, lit, due, strayed, lost>>

Modifier == {"shift", "ctrl", "alt"}
ModOf(code) ==
    CASE code \in {left_shift, right_shift} -> {"shift"}
      [] code = left_ctrl                   -> {"ctrl"}
      [] code = left_alt                    -> {"alt"}
      [] OTHER                              -> {}

NoEvent == [code |-> None, make |-> FALSE, mod |-> {}, heard |-> FALSE]

\* key_states[(KeyCode::_last+1)/8] has a byte for every eight codes up to
\* 87; the bits of the last two, f12 and del, fall into lock_state.
ArrayBytes == (_last + 1) \div 8
InArray(code) == code \div 8 < ArrayBytes

\* Every bit that stands for a key, wherever it is kept.
Down == key_states \cup {ArrayBytes * 8 + b : b \in lock_state}

TypeOK ==
    /\ scan_state \in {"ready", "e0_b1"}
    /\ key_states \subseteq {c \in KeyCode : InArray(c)}
    /\ lock_state \subseteq 0 .. 7
    /\ mod_state \subseteq Modifier
    /\ subscriber \in BOOLEAN
    /\ event \in [code : KeyCode \cup {None}, make : BOOLEAN,
                  mod : SUBSET Modifier, heard : BOOLEAN]
    /\ \A i \in DOMAIN wire : wire[i] \in [byte : 0 .. 255, ends : BOOLEAN]
    /\ held \subseteq Keys
    /\ Len(due) = Cardinality({i \in DOMAIN wire : wire[i].ends})
    /\ strayed \in BOOLEAN
    /\ lost \subseteq KeyCode

Init ==
    /\ scan_state = "ready"
    /\ key_states = {} /\ lock_state = {} /\ mod_state = {}
    /\ subscriber = FALSE
    /\ event = NoEvent
    /\ wire = <<>> /\ held = {} /\ lit = {} /\ due = <<>>
    /\ strayed = FALSE /\ lost = {}

-----------------------------------------------------------------------------
(* The kernel.                                                             *)

set_subscriber ==
    /\ ~subscriber
    /\ subscriber' = TRUE
    /\ event' = NoEvent
    /\ UNCHANGED <<scan_state, key_states, lock_state, mod_state, keyboard>>

\* Slip: a released key keeps its modifier.
key_update_keeps_mod(code, make) ==
    /\ key_states' = IF ~InArray(code) THEN key_states
                     ELSE IF make THEN key_states \cup {code}
                                  ELSE key_states \ {code}
    /\ lock_state' = IF InArray(code) THEN lock_state
                     ELSE IF make THEN lock_state \cup {code % 8}
                                  ELSE lock_state \ {code % 8}
    /\ mod_state' = IF make THEN mod_state \cup ModOf(code) ELSE mod_state
    /\ event' = [code |-> code, make |-> make, mod |-> mod_state',
                 heard |-> subscriber]

\* Slip: the bit is shifted by the whole code.
key_update_whole_code(code, make) ==
    /\ key_states' = IF ~InArray(code) THEN key_states
                     ELSE IF make THEN key_states \cup {code}
                                  ELSE key_states \ {code}
    /\ lock_state' = IF InArray(code) THEN lock_state
                     ELSE IF make THEN lock_state \cup {code}
                                  ELSE lock_state \ {code}
    /\ mod_state' = IF make THEN mod_state \cup ModOf(code)
                            ELSE mod_state \ ModOf(code)
    /\ event' = [code |-> code, make |-> make, mod |-> mod_state',
                 heard |-> subscriber]

\* key_set_state and key_unset_state, with the call of the subscriber.
key_update_state(code, make) ==
    /\ key_states' = IF ~InArray(code) THEN key_states
                     ELSE IF make THEN key_states \cup {code}
                                  ELSE key_states \ {code}
    /\ lock_state' = IF InArray(code) THEN lock_state
                     ELSE IF make THEN lock_state \cup {code % 8}
                                  ELSE lock_state \ {code % 8}
    /\ mod_state' = IF make THEN mod_state \cup ModOf(code)
                            ELSE mod_state \ ModOf(code)
    /\ event' = [code |-> code, make |-> make, mod |-> mod_state',
                 heard |-> subscriber]

no_update ==
    /\ event' = NoEvent
    /\ UNCHANGED <<key_states, lock_state, mod_state>>

unset_break_bit(c) == c % 128
break_bit_set(c) == c \div 128 = 1

\* Codes past KeyCode::_last are ignored.
Tracked(code) == code <= _last

\* case ready; 0xe1 is skipped.
ready_code(c) ==
    /\ scan_state = "ready"
    /\ scan_state' = IF c = 224 THEN "e0_b1" ELSE "ready"
    /\ IF c \in {224, 225} \/ ~Tracked(unset_break_bit(c))
       THEN no_update
       ELSE key_update_state(unset_break_bit(c), ~break_bit_set(c))

\* Slip: the state is not reset.
e0_code_stays(c) ==
    /\ scan_state = "e0_b1"
    /\ IF unset_break_bit(c) \in Extended
       THEN key_update_state(unset_break_bit(c), ~break_bit_set(c))
       ELSE no_update
    /\ UNCHANGED scan_state

\* case e0_b1: a code the switch does not list changes nothing.
e0_code(c) ==
    /\ scan_state = "e0_b1"
    /\ IF unset_break_bit(c) \in Extended
       THEN /\ key_update_state(unset_break_bit(c), ~break_bit_set(c))
            /\ scan_state' = "ready"
       ELSE no_update /\ UNCHANGED scan_state

\* What the byte ended, and what came of it, for the history.
Ended ==
    LET signal == Head(due)
    IN  /\ due' = Tail(due)
        /\ strayed' = CASE signal.code \in Extended -> FALSE
                        [] signal.stray              -> TRUE
                        [] OTHER                     -> strayed
        /\ lost' = IF event' = NoEvent THEN lost \cup ({signal.code} \ {None})
                                       ELSE lost \ {signal.code}

handle_scan_code ==
    /\ wire # <<>>
    /\ ready_code(Head(wire).byte) \/ e0_code(Head(wire).byte)
    /\ wire' = Tail(wire)
    /\ IF Head(wire).ends THEN Ended ELSE UNCHANGED <<due, strayed, lost>>
    /\ UNCHANGED <<subscriber, held, lit>>

-----------------------------------------------------------------------------
(* The keyboard.                                                           *)

\* What a key that is down lights up: its bit, and its modifier.
Marks(code) == IF code = None THEN {}
               ELSE {<<"key", code>>} \cup {<<"mod", m>> : m \in ModOf(code)}
MarksOf(K) == UNION {Marks(signal.code) : signal \in UNION {ToSet(k.make) : k \in K}}
ModsOf(marks) == {x[2] : x \in {y \in marks : y[1] = "mod"}}

\* What is lit after a signal.
After(marks, signal) == IF signal.down THEN marks \cup Marks(signal.code)
                                       ELSE marks \ Marks(signal.code)

LitAfter(signals, n) == FoldLeft(After, lit, SubSeq(signals, 1, n))

Bytes(signal) ==
    [i \in DOMAIN signal.bytes |->
        [byte |-> signal.bytes[i], ends |-> i = Len(signal.bytes)]]

Send(signals) ==
    LET bytes == FlattenSeq([i \in DOMAIN signals |-> Bytes(signals[i])])
    IN  /\ wire = <<>> \/ Len(wire) + Len(bytes) <= MaxWire
        /\ wire' = wire \o bytes
        /\ due' = due \o
              [i \in DOMAIN signals |->
                  [code |-> signals[i].code, make |-> signals[i].down,
                   mod |-> ModsOf(LitAfter(signals, i)),
                   stray |-> signals[i].bytes[1] = 224 /\ signals[i].code = None]]
        /\ lit' = LitAfter(signals, Len(signals))
        /\ event' = NoEvent
        /\ UNCHANGED <<scan_state, key_states, lock_state, mod_state, subscriber,
                       strayed, lost>>

\* A key is pressed, or repeats.  The pause key does not repeat, and says
\* nothing when it is released: it is never seen down.
press(k) ==
    /\ held' = IF k.break = <<>> THEN held ELSE held \cup {k}
    /\ Send(k.make)

release(k) ==
    /\ k \in held
    /\ held' = held \ {k}
    /\ Send(k.break)

Next ==
    \/ set_subscriber
    \/ handle_scan_code
    \/ \E k \in Keys : press(k) \/ release(k)

Spec == Init /\ [][Next]_vars

-----------------------------------------------------------------------------
(* Properties.                                                             *)

\* A byte makes the decoder act on a key exactly when it ends a signal of a key
\* the kernel knows, once, in order and in the right direction, with the
\* modifiers of the moment the signal was sent and not of those that are down
\* by now.  The one exception: after an extended code the switch does not list
\* (a Windows key) the one-byte codes are swallowed, but never those that are
\* extended codes too, the first of which sets the decoder right again.  The
\* pause key is taken for ctrl and num lock, both pressed and released.
EventsExact ==
    [][handle_scan_code =>
          IF ~Head(wire).ends THEN event' = NoEvent
          ELSE LET signal == Head(due)
               IN  IF event' = NoEvent
                   THEN \/ signal.code = None
                        \/ strayed /\ signal.code \notin Extended
                   ELSE /\ event'.code = signal.code
                        /\ event'.make = signal.make
                        /\ event'.mod = signal.mod]_vars

\* When every byte is handled nothing is stuck: a modifier is set only if a key
\* that carries it is down, whatever else was pressed, and is as the latest
\* signal of its keys left it (one release clears it for all, and so do the
\* pause key for ctrl and print screen for shift); so is the bit of every key
\* whose latest signal was not swallowed, wherever the bit is kept.
NoneStuck ==
    wire = <<>> =>
        LET kept(marks) == {x \in marks : x[1] = "mod" \/ x[2] \notin lost}
            set == {<<"key", c>> : c \in Down} \cup {<<"mod", m>> : m \in mod_state}
        IN  kept(set) = kept(lit) /\ kept(set) \subseteq MarksOf(held)
=============================================================================
