-------------------------- MODULE MCEncodedTransfer --------------------------
(* An instance of EncodedTransfer for TLC: chars of three bits, ints of five. *)
EXTENDS EncodedTransfer, TLC

Bits(b0, b1, b2) ==
  [i \in 0..W-1 |-> IF i = 0 THEN b0 ELSE IF i = 1 THEN b1 ELSE b2]

a == Bits(TRUE, FALSE, FALSE)
b == Bits(TRUE, TRUE, FALSE)
newline == Bits(FALSE, TRUE, FALSE)
umlaut == Bits(FALSE, FALSE, TRUE)

\* As many lines as the client reads, one less, and one more.
SomeSources ==
  { <<<<a, umlaut, newline>>, <<b>>>>, <<<<a, newline>>>>,
    <<<<b, newline>>, <<a, newline>>, <<b>>>> }

SomeUnread == {<<>>, <<b, b>>}
=============================================================================
