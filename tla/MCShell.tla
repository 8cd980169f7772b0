------------------------------- MODULE MCShell -------------------------------
(***************************************************************************)
(* A screen of three lines of two cells, and cursor registers that hold    *)
(* less than a screen, so that both of them matter.                        *)
(***************************************************************************)
EXTENDS Shell

MCKernelTexts == {<<"k", "\n", "A", "a">>, <<"k", "k", "k", "\n", "k", "k", "k">>}
MCWelcome == <<"k", "\n">>
MCPanicTexts == {<<"\n", "k", "a">>}
a == 30
enter == 28
f1 == 59
MCCodes == {backspace, a, enter, f1}
MCLower == [c \in MCCodes |-> CASE c = a -> "a" [] c = enter -> "\n" [] OTHER -> NUL]
MCUpper == [c \in MCCodes |-> CASE c = a -> "A" [] c = enter -> "\n" [] OTHER -> NUL]
=============================================================================
