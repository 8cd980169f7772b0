--------------------------- MODULE MCDebugSerial ---------------------------
(***************************************************************************)
(* Main prints the formats the kernel uses, and the decimal ones it does   *)
(* not, over numbers on both sides of a digit's end; a percent sign that   *)
(* begins nothing is text.  The handler prints two characters, twice.      *)
(***************************************************************************)
EXTENDS DebugSerial

Number(w, z, b, a) == [width |-> w, zeros |-> z, base |-> b, arg |-> a]
Lit(c) == [lit |-> c]
Call(f, a, m) == [fmt |-> f, args |-> a, means |-> m]

Addresses == {0, 9, 16, 255, 4096, 2147483647}
MCCalls ==
    {Call(<<"%", "0", "8", "x", " ">>, <<a>>, <<Number(8, TRUE, 16, a), Lit(" ")>>) :
        a \in Addresses}
    \cup {Call(<<"%", "0", "2", "x", ",", "%", "0", "2", "x">>, <<a, b>>,
               <<Number(2, TRUE, 16, a), Lit(","), Number(2, TRUE, 16, b)>>) :
            a \in {0, 184}, b \in {15, 255}}
    \cup {Call(<<"%", "u">>, <<a>>, <<Number(0, FALSE, 10, a)>>) : a \in {0, 10, 99}}
    \cup {Call(<<"%", "0", "4", "d">>, <<a>>, <<Number(4, TRUE, 10, a)>>) :
            a \in {-9999, -7, 0, 100}}
    \cup {Call(<<"%", "3", "i", "%">>, <<a>>, <<Number(3, FALSE, 10, a), Lit("%")>>) :
            a \in {1, 12, 1234, -123}}
MCHandlerText == <<"I", "n">>
=============================================================================
