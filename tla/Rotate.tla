------------------------------- MODULE Rotate -------------------------------
(***************************************************************************)
(* encode() of A3/h2/client.c and decode() of A3/h1/server.c: an int is    *)
(* rotated to the left and to the right by shifts.  It is signed, so that  *)
(* >> repeats the sign bit.  A word is the function from the place of a    *)
(* bit, the lowest at 0, to the bit.                                       *)
(***************************************************************************)
EXTENDS Integers

CONSTANTS W,        \* bits of an int, 32
          CharBits, \* bits of a char, 8
          KEY       \* 2

ASSUME RotateAssumption ==
  /\ W \in Nat /\ CharBits \in Nat /\ KEY \in Nat
  /\ 0 < KEY /\ 0 < CharBits /\ CharBits + KEY <= W

Word == [0..W-1 -> BOOLEAN]

ShiftRight(n, k) == [i \in 0..W-1 |-> IF i + k < W THEN n[i + k] ELSE n[W-1]]

ShiftLeft(n, k) == [i \in 0..W-1 |-> IF i >= k THEN n[i - k] ELSE FALSE]

Either(m, n) == [i \in 0..W-1 |-> m[i] \/ n[i]]

encode(n, key) == Either(ShiftRight(n, W - key), ShiftLeft(n, key))

\* Mutant: the two programs do not have the same KEY.
decodeMutant(n, key) == Either(ShiftRight(n, key + 1), ShiftLeft(n, W - key - 1))
decode(n, key) == Either(ShiftRight(n, key), ShiftLeft(n, W - key))

-----------------------------------------------------------------------------
\* The int of a char, which is signed, and the char of an int.
Chars == { n \in Word : \A i \in CharBits-1..W-1 : n[i] = n[W-1] }

AsChar(n) == [i \in 0..W-1 |-> n[IF i < CharBits THEN i ELSE CharBits - 1]]

Ascii == { n \in Chars : ~n[W-1] }

\* -1, the char 255.
MinusOne == [i \in 0..W-1 |-> TRUE]

\* What encoding and decoding leave of a char.
Rotated(n) == IF n[W-1] THEN MinusOne ELSE n
=============================================================================
