------------------------------- MODULE KeyPath -------------------------------
(***************************************************************************)
(* The way of a key to the screen: the keyboard's signals and the decoder  *)
(* (KeyboardState), whose events go to the shell once it is subscribed     *)
(* (Shell), while main writes its texts.  A byte's handler, interrupts     *)
(* off, is one step of both: decoding, the call of key_down, the cells     *)
(* and the cursor.                                                         *)
(***************************************************************************)
EXTENDS Shell

CONSTANTS Keys, MaxWire    \* of KeyboardState

VARIABLES scan_state, key_states, lock_state, mod_state, subscriber, event,
          wire, held, lit, due, strayed, lost,
          typed    \* history: the line as the signals sent since the shell took
                   \* over spell it, each with the modifiers of its moment

K == INSTANCE KeyboardState

keyVars == <<scan_state, key_states, lock_state, mod_state, subscriber, event,
             wire, held, lit, due, strayed, lost>>
pathVars == <<vars, keyVars, typed>>

PathInit == Init /\ K!Init /\ typed = <<>>

Main == /\ Write \/ StartShell
        /\ UNCHANGED <<keyVars, typed>>

\* From here on the handler's events reach the shell.
TakeOver == ShellReady /\ K!set_subscriber /\ UNCHANGED typed

\* panic leaves interrupts as they are until it stops.  In the shell's time it
\* comes from a handler, where they are off; earlier nobody is subscribed.
InterruptsOn == phase # "halted" /\ (phase = "panic" => ~subscriber)

\* What a user expects of a key.
Spelled(signal) ==
  LET c == to_ascii(signal.code, signal.mod)
  IN  CASE ~signal.make                           -> typed
        [] signal.code = backspace                -> IF typed = <<>> THEN <<>>
                                                                     ELSE Front(typed)
        [] {"ctrl", "alt"} \cap signal.mod # {}   -> typed
        [] c = NUL                                -> typed
        [] c = "\n"                               -> <<>>
        [] OTHER                                  -> Append(typed, c)

LastScreen(text) ==
  IF Len(text) > HEIGHT * WIDTH THEN Tail(text) ELSE text

\* handle_keyboard, for the next byte.
handle_keyboard ==
  /\ InterruptsOn
  /\ K!handle_scan_code
  /\ IF event'.heard /\ event'.make
     THEN key_down(event'.code, event'.mod)
     ELSE UNCHANGED vars
  /\ typed' = IF subscriber /\ Head(wire).ends THEN LastScreen(Spelled(Head(due)))
                                               ELSE typed

keyboard ==
  /\ \E k \in Keys : K!press(k) \/ K!release(k)
  /\ UNCHANGED <<vars, typed>>

Stop ==
  /\ Halt \/ \E text \in PanicTexts : panic(text)
  /\ UNCHANGED <<keyVars, typed>>

PathNext == Main \/ TakeOver \/ handle_keyboard \/ keyboard \/ Stop

PathSpec == PathInit /\ [][PathNext]_pathVars

-----------------------------------------------------------------------------

\* What stands before the cursor is what was typed since the shell took over:
\* the keys in the order they were pressed, each in the case that shift had when
\* it was pressed and not when its byte is handled, keys with ctrl or alt left
\* out, and as many characters taken back as backspace was pressed, whatever was
\* pressed and released before, while main was still writing.
ShownAsTyped ==
  phase = "shell" =>
    \A k \in 1 .. Len(typed) :
      buffer[(Position + HEIGHT * WIDTH - k) % (HEIGHT * WIDTH)]
        = typed[Len(typed) + 1 - k]
=============================================================================
