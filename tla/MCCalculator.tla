---------------------------- MODULE MCCalculator ----------------------------
(* An instance of Calculator for TLC: four characters a line at most, and   *)
(* ints of four bits.                                                        *)
EXTENDS Calculator, TLC

CONSTANTS c1, c2

SomeDigits == ("0" :> 0) @@ ("1" :> 1) @@ ("2" :> 2) @@ ("3" :> 3) @@ ("5" :> 5)
              @@ ("6" :> 6) @@ ("8" :> 8)

\* A sum, a product that is no int, a division by zero, a difference, a
\* quotient, a line without an operator, a divisor that is zero as an int,
\* the least int by -1.
SomeTexts == { <<"5", "+", "2", NL>>, <<"5", "*", "2", NL>>, <<"5", "/", "0", NL>>,
               <<"2", "-", "5", NL>>, <<"5", "/", "2", NL>>, <<"5", NL>>,
               <<"5", "/", "1", "6", NL>>, <<"8", "/", "1", "5", NL>> }

\* A buffer that holds a number, and one without a zero.
SomeGarbage == { <<" ", "2", "0", "2", "2", ZERO>>, <<" ", "2", "/", "0", "2", "1">> }

\* Nothing behind the buffer, or a digit.
SomeBeyond == { <<ZERO>>, <<"6", ZERO>> }
=============================================================================
