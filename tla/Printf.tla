------------------------------- MODULE Printf -------------------------------
(***************************************************************************)
(* vfprintf of stdlib.cpp as a function from a format and its arguments to *)
(* the characters handed to putc.  A character is a string of length one,  *)
(* a text a sequence of them.                                              *)
(***************************************************************************)
EXTENDS Integers, SequencesExt

Digits16 == <<"0", "1", "2", "3", "4", "5", "6", "7", "8", "9",
              "a", "b", "c", "d", "e", "f">>
Decimal == {Digits16[i] : i \in 1 .. 10}
DigitValue(c) == (CHOOSE i \in 1 .. 16 : Digits16[i] = c) - 1

FlagChars == {"-", "+", " ", "#", "0"}
Specifiers == {"d", "i", "u", "x", "c", "s", "p", "%"}

\* The end of the characters of C that begin at i.
SpanEnd(s, i, C) ==
    CHOOSE j \in i .. Len(s) + 1 :
        /\ j > Len(s) \/ s[j] \notin C
        /\ \A k \in i .. j - 1 : s[k] \in C

\* min_width and precision are int16_t, -1 when absent.
Int16(n) == ((n + 32768) % 65536) - 32768
NumberIn(s) ==
    FoldLeft(LAMBDA n, c : IF n < 0 THEN DigitValue(c)
                           ELSE Int16(n * 10 + DigitValue(c)), -1, s)

\* A number, or a star, which is skipped.
NumberEnd(s, i) ==
    LET j == SpanEnd(s, i, Decimal)
    IN  IF j <= Len(s) /\ s[j] = "*" THEN j + 1 ELSE j

\* The specification that begins after the percent sign, at i.
parse_format_spec(s, i) ==
    LET j == SpanEnd(s, i, FlagChars)
        k == NumberEnd(s, j)
        width == NumberIn(SubSeq(s, j, SpanEnd(s, j, Decimal) - 1))
        e == IF k <= Len(s) /\ s[k] = "." THEN NumberEnd(s, k + 1) ELSE k
        known == e <= Len(s) /\ s[e] \in Specifiers
    IN  [flags |-> {s[n] : n \in i .. j - 1},
         min_width |-> IF width > 1024 THEN 1024 ELSE width,
         specifier |-> IF known THEN s[e] ELSE "",
         next |-> IF known THEN e + 1 ELSE e]

\* unsigned_to_buf and hex_to_buf, most significant digit first; nothing
\* for zero.
Buf(base) ==
    LET buf[n \in Nat] ==
          IF n = 0 THEN <<>>
          ELSE Append(buf[n \div base], Digits16[(n % base) + 1])
    IN  buf

\* Slip: the sign or the zero is not counted.
write_fill_uncounted(spec, extra, buf) ==
    LET n == spec.min_width - Len(buf)
    IN  [i \in 1 .. n |-> IF "0" \in spec.flags THEN "0" ELSE " "]

write_fill(spec, extra, buf) ==
    LET n == spec.min_width - (Len(extra) + Len(buf))
    IN  [i \in 1 .. n |-> IF "0" \in spec.flags THEN "0" ELSE " "]

\* format_int, format_unsigned and format_hex: a sign or the zero, the fill,
\* the digits.
FormatNumber(spec, base, arg) ==
    LET extra == CASE arg = 0 -> <<"0">> [] arg < 0 -> <<"-">> [] OTHER -> <<>>
        buf == Buf(base)[IF arg < 0 THEN -arg ELSE arg]
    IN  extra \o write_fill(spec, extra, buf) \o buf

\* The loop over the format from i on; a specification that is not known is
\* printed character by character.
RECURSIVE vfprintf_from(_, _, _)
vfprintf_from(s, i, args) ==
    IF i > Len(s) THEN <<>>
    ELSE IF s[i] # "%" THEN <<s[i]>> \o vfprintf_from(s, i + 1, args)
    ELSE LET spec == parse_format_spec(s, i + 1)
         IN  IF spec.specifier \in {"d", "i", "u", "x"}
             THEN FormatNumber(spec, IF spec.specifier = "x" THEN 16 ELSE 10, Head(args))
                    \o vfprintf_from(s, spec.next, Tail(args))
             ELSE <<s[i]>> \o vfprintf_from(s, i + 1, args)

vfprintf(s, args) == vfprintf_from(s, 1, args)

-----------------------------------------------------------------------------
(* What C says a format prints, the minus flag and precision aside.  A     *)
(* format means a sequence of items: literal characters, [lit], and        *)
(* numbers in fields, [width, zeros, base, arg].                           *)

NumberOf(text, base) ==
    FoldLeft(LAMBDA n, c : n * base + DigitValue(c), 0, text)

\* Some padding, the sign, the digits: no padding in front of zeros or when
\* the field is too narrow, and zeros in front only to fill the field.
IsField(text, f) ==
    \E m \in 0 .. Len(text) :
        LET rest == SubSeq(text, m + 1, Len(text))
            negative == rest # <<>> /\ rest[1] = "-"
            digits == IF negative THEN Tail(rest) ELSE rest
            filled == f.zeros /\ Len(text) = f.width
        IN  /\ \A i \in 1 .. m : text[i] = " "
            /\ negative <=> f.arg < 0
            /\ digits # <<>>
            /\ \A i \in DOMAIN digits :
                  digits[i] \in {Digits16[d] : d \in 1 .. f.base}
            /\ NumberOf(digits, f.base) = IF negative THEN -f.arg ELSE f.arg
            /\ Len(text) >= f.width
            /\ f.zeros \/ Len(text) > f.width => m = 0
            /\ ~filled /\ Len(digits) > 1 => digits[1] # "0"

RECURSIVE Prints(_, _)
Prints(text, items) ==
    IF items = <<>> THEN text = <<>>
    ELSE IF "lit" \in DOMAIN Head(items)
    THEN /\ text # <<>> /\ Head(text) = Head(items).lit
         /\ Prints(Tail(text), Tail(items))
    ELSE \E n \in 1 .. Len(text) :
            /\ IsField(SubSeq(text, 1, n), Head(items))
            /\ Prints(SubSeq(text, n + 1, Len(text)), Tail(items))
=============================================================================
