----------------------------- MODULE RespBytes -----------------------------
(* The bytes of the protocol, as far as the two ends of a connection tell   *)
(* them apart, and its numbers.                                             *)
EXTENDS Integers, Sequences

Digit   == {"0", "1", "2", "3", "4", "5", "6", "7", "8", "9"}
Mark    == {"+", "-", ":", "$", "*"}
Control == {"CR", "LF", "NUL"}
Char    == Digit \cup Mark \cup Control \cup {"a", "8bit"}
CRLF    == <<"CR", "LF">>

\* `c - '0'' as bufferToLong computes it, with the assertion before it left out
\* of the build: the only character that is no digit and gets there is '-'.
DigitValue == [c \in Digit \cup {"-"} |->
    CASE c = "0" -> 0 [] c = "1" -> 1 [] c = "2" -> 2 [] c = "3" -> 3
      [] c = "4" -> 4 [] c = "5" -> 5 [] c = "6" -> 6 [] c = "7" -> 7
      [] c = "8" -> 8 [] c = "9" -> 9 [] c = "-" -> -3]

\* A number in decimal: std::to_string, and what a server does.
Decimal[n \in Nat] ==
    LET last == CHOOSE c \in Digit : DigitValue[c] = n % 10
    IN  IF n < 10 THEN <<last>> ELSE Append(Decimal[n \div 10], last)
Signed(n) == IF n < 0 THEN <<"-">> \o Decimal[-n] ELSE Decimal[n]
=============================================================================
