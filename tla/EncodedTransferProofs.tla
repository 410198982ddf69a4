----------------------- MODULE EncodedTransferProofs -----------------------
(***************************************************************************)
(* What TLAPS proves of A3: what encoding and decoding do to every char,   *)
(* for every width of an int and every key that leaves room for a char,    *)
(* and what the server decodes of the stream, however it is cut.           *)
(***************************************************************************)
EXTENDS EncodedTransfer, FiniteSetTheorems, SequenceTheorems, TLAPS

-----------------------------------------------------------------------------
(* A char.                                                                 *)

LEMMA CharBit ==
  ASSUME NEW n \in Chars, NEW i \in CharBits-1..W-1
  PROVE  n \in Word /\ n[i] = n[W-1]
BY DEF Chars

\* The bits of an encoded char: from KEY on those of the char, and below KEY,
\* where a rotation would bring the highest bits, the sign.
LEMMA EncodedBits ==
  ASSUME NEW n \in Chars, NEW i \in 0..W-1
  PROVE  /\ encode(n, KEY) \in Word
         /\ encode(n, KEY)[i] = (n[W-1] \/ (i >= KEY /\ n[i - KEY]))
<1>1. n \in Word
  BY DEF Chars
<1>2. i + (W - KEY) < W => n[i + (W - KEY)] = n[W-1]
  BY RotateAssumption DEF Chars
<1>3. ShiftRight(n, W - KEY)[i] = n[W-1]
  BY <1>2 DEF ShiftRight
<1>4. ShiftLeft(n, KEY)[i] = (i >= KEY /\ n[i - KEY])
  <2>1. CASE i >= KEY
    <3>1. n[i - KEY] \in BOOLEAN
      BY <1>1, <2>1, RotateAssumption DEF Word
    <3>2. ShiftLeft(n, KEY)[i] = n[i - KEY]
      BY <2>1 DEF ShiftLeft
    <3> QED
      BY <2>1, <3>1, <3>2
  <2>2. CASE ~(i >= KEY)
    <3>1. ShiftLeft(n, KEY)[i] = FALSE
      BY <2>2 DEF ShiftLeft
    <3> QED
      BY <2>2, <3>1
  <2> QED
    BY <2>1, <2>2
<1>5. encode(n, KEY)[i] = (n[W-1] \/ (i >= KEY /\ n[i - KEY]))
  BY <1>3, <1>4 DEF encode, Either
<1>6. encode(n, KEY) \in Word
  <2>1. ASSUME NEW k \in 0..W-1
        PROVE  (ShiftRight(n, W - KEY)[k] \/ ShiftLeft(n, KEY)[k]) \in BOOLEAN
    OBVIOUS
  <2> QED
    BY <2>1 DEF encode, Either, Word
<1> QED
  BY <1>5, <1>6

\* An ASCII character that client.c encodes is what server.c decodes.
THEOREM AsciiComesBack ==
  ASSUME NEW n \in Ascii
  PROVE  decode(encode(n, KEY), KEY) = n
<1>1. n \in Chars /\ n \in Word /\ ~n[W-1]
  BY DEF Ascii, Chars
<1> DEFINE m == encode(n, KEY)
<1>2. ASSUME NEW i \in 0..W-1
      PROVE  m[i] = (i >= KEY /\ n[i - KEY])
  BY <1>1, EncodedBits
<1> HIDE DEF m
<1>3. ASSUME NEW i \in 0..W-1
      PROVE  decode(m, KEY)[i] = n[i]
  <2>1. ShiftRight(m, KEY)[i] = n[i]
    <3>1. CASE i + KEY < W
      <4>1. ShiftRight(m, KEY)[i] = m[i + KEY] /\ i + KEY \in 0..W-1
        BY <3>1, RotateAssumption DEF ShiftRight
      <4>2. m[i + KEY] = (i + KEY >= KEY /\ n[(i + KEY) - KEY])
        BY <4>1, <1>2
      <4>3. (i + KEY) - KEY = i /\ i + KEY >= KEY
        BY RotateAssumption
      <4> QED
        BY <4>1, <4>2, <4>3, <1>1 DEF Word
    <3>2. CASE ~(i + KEY < W)
      <4>1. ShiftRight(m, KEY)[i] = m[W-1] /\ W-1 \in 0..W-1
        BY <3>2, RotateAssumption DEF ShiftRight
      <4>2. (W - 1) - KEY \in CharBits-1..W-1 /\ i \in CharBits-1..W-1
        BY <3>2, RotateAssumption
      <4>3. ~n[(W - 1) - KEY] /\ ~n[i]
        BY <4>2, <1>1, CharBit
      <4>4. ~m[W-1]
        BY <4>1, <4>3, <1>2
      <4>5. m[W-1] = FALSE /\ n[i] = FALSE
        <5>1. n[i] \in BOOLEAN
          BY <1>1 DEF Word
        <5>2. m[W-1] \in BOOLEAN
          BY <1>2, <4>1
        <5> QED
          BY <4>3, <4>4, <5>1, <5>2
      <4> QED
        BY <4>1, <4>5
    <3> QED
      BY <3>1, <3>2
  <2>2. ShiftLeft(m, W - KEY)[i] = FALSE
    <3>1. CASE i >= W - KEY
      <4>1. ShiftLeft(m, W - KEY)[i] = m[i - (W - KEY)]
        BY <3>1 DEF ShiftLeft
      <4>2. i - (W - KEY) \in 0..W-1 /\ ~(i - (W - KEY) >= KEY)
        BY <3>1, RotateAssumption
      <4> QED
        BY <4>1, <4>2, <1>2
    <3>2. CASE ~(i >= W - KEY)
      BY <3>2 DEF ShiftLeft
    <3> QED
      BY <3>1, <3>2
  <2>3. decode(m, KEY)[i] = (ShiftRight(m, KEY)[i] \/ ShiftLeft(m, W - KEY)[i])
    BY DEF decode, Either
  <2>4. n[i] \in BOOLEAN
    BY <1>1 DEF Word
  <2> QED
    BY <2>1, <2>2, <2>3, <2>4
<1>4. decode(m, KEY) = [i \in 0..W-1 |-> n[i]]
  BY <1>3 DEF decode, Either
<1>5. n = [i \in 0..W-1 |-> n[i]]
  BY <1>1 DEF Word
<1> QED
  BY <1>4, <1>5 DEF m

\* Every char that is not ASCII, negative as an int, is decoded to -1: the
\* rotation by signed shifts does not come back.
THEOREM OthersAreLost ==
  ASSUME NEW n \in Chars, n[W-1]
  PROVE  decode(encode(n, KEY), KEY) = MinusOne
<1> DEFINE m == encode(n, KEY)
<1>0. n[W-1] \in BOOLEAN
  BY RotateAssumption DEF Chars, Word
<1>1. ASSUME NEW i \in 0..W-1
      PROVE  m[i] = TRUE
  BY EncodedBits, <1>0
<1> HIDE DEF m
<1>2. ASSUME NEW i \in 0..W-1
      PROVE  decode(m, KEY)[i] = TRUE
  <2>1. i + KEY < W => i + KEY \in 0..W-1
    BY RotateAssumption
  <2>2. W-1 \in 0..W-1
    BY RotateAssumption
  <2>3. ShiftRight(m, KEY)[i] = TRUE
    BY <1>1, <2>1, <2>2 DEF ShiftRight
  <2> QED
    BY <2>3 DEF decode, Either
<1>3. decode(m, KEY) = [i \in 0..W-1 |-> TRUE]
  BY <1>2 DEF decode, Either
<1> QED
  BY <1>3 DEF MinusOne, m

\* The two cases together: what the transfer of a char is expected to give.
THEOREM EveryCharRotated ==
  ASSUME NEW n \in Chars
  PROVE  decode(encode(n, KEY), KEY) = Rotated(n)
<1>1. CASE n[W-1]
  BY <1>1, OthersAreLost DEF Rotated
<1>2. CASE ~n[W-1]
  <2>1. n \in Ascii
    BY <1>2 DEF Ascii
  <2> QED
    BY <1>2, <2>1, AsciiComesBack DEF Rotated
<1> QED
  BY <1>1, <1>2

-----------------------------------------------------------------------------
(* Flattening, part by part.                                               *)

\* A set of natural numbers that is not empty has a least element.
LEMMA LeastNumber ==
  ASSUME NEW T \in SUBSET Nat, T # {}
  PROVE  \E m \in T : \A k \in T : m <= k
<1> DEFINE R == OpToRel(<, Nat)
<1>1. IsWellFoundedOn(R, Nat)
  BY NatLessThanWellFounded
<1>2. \A x, y \in Nat : x < y => <<x, y>> \in R
  BY DEF OpToRel
<1> HIDE DEF R
<1>3. PICK x \in T : \A y \in T : ~ (<<y, x>> \in R)
  BY <1>1, WFMin
<1>4. \A y \in T : ~ (y < x)
  BY <1>2, <1>3
<1>5. \A y \in T : x <= y
  BY <1>4
<1> QED
  BY <1>5

\* f holds the first parts of s, put together one by one.
Gathers(f, s, n) == f = [i \in 1..n |-> IF i = 1 THEN s[i] ELSE f[i-1] \o s[i]]

LEMMA GatherMore ==
  ASSUME NEW s, NEW n \in Nat, n > 1, NEW g, Gathers(g, s, n - 1)
  PROVE  \E f : Gathers(f, s, n)
<1> DEFINE f == [i \in 1..n |-> IF i = n THEN g[n-1] \o s[n] ELSE g[i]]
<1>1. \A i \in 1..n-1 : g[i] = IF i = 1 THEN s[i] ELSE g[i-1] \o s[i]
  BY DEF Gathers
<1>2. \A i \in 1..n : f[i] = IF i = 1 THEN s[i] ELSE f[i-1] \o s[i]
  <2> SUFFICES ASSUME NEW i \in 1..n PROVE f[i] = IF i = 1 THEN s[i] ELSE f[i-1] \o s[i]
    OBVIOUS
  <2>1. CASE i = n
    <3>1. f[i] = g[n-1] \o s[n]
      BY <2>1
    <3>2. n - 1 \in 1..n /\ n - 1 # n
      OBVIOUS
    <3>3. f[n-1] = g[n-1]
      BY <3>2
    <3> HIDE DEF f
    <3>4. f[n] = f[n-1] \o s[n] /\ n # 1
      BY <2>1, <3>1, <3>3
    <3> QED
      BY <2>1, <3>4
  <2>2. CASE i # n /\ i # 1
    <3>1. i - 1 \in 1..n /\ i - 1 # n /\ i \in 1..n-1
      BY <2>2
    <3>2. f[i-1] = g[i-1] /\ f[i] = g[i]
      BY <2>2, <3>1
    <3> QED
      BY <1>1, <2>2, <3>1, <3>2
  <2>3. CASE i # n /\ i = 1
    <3>1. i \in 1..n-1 /\ f[i] = g[i]
      BY <2>3
    <3> QED
      BY <1>1, <2>3, <3>1
  <2> QED
    BY <2>1, <2>2, <2>3
<1>3. Gathers(f, s, n)
  <2> DEFINE h == [i \in 1..n |-> IF i = 1 THEN s[i] ELSE f[i-1] \o s[i]]
  <2>1. \A i \in 1..n : f[i] = h[i]
    BY <1>2
  <2>2. f = h
    <3> HIDE DEF h
    <3>1. DOMAIN h = 1..n /\ h = [i \in 1..n |-> h[i]]
      BY DEF h
    <3>2. DOMAIN f = 1..n /\ f = [i \in 1..n |-> f[i]]
      OBVIOUS
    <3> HIDE DEF f
    <3> QED
      BY <2>1, <3>1, <3>2
  <2> QED
    BY <2>2 DEF Gathers
<1> QED
  BY <1>3

LEMMA GatherExists ==
  ASSUME NEW s, NEW n \in Nat \ {0}
  PROVE  \E f : Gathers(f, s, n)
<1> DEFINE T == { k \in Nat \ {0} : ~ \E f : Gathers(f, s, k) }
<1>1. SUFFICES ASSUME T # {} PROVE FALSE
  OBVIOUS
<1>2. PICK m \in T : \A k \in T : m <= k
  <2>1. T \in SUBSET Nat
    OBVIOUS
  <2> HIDE DEF T
  <2> QED
    BY <1>1, <2>1, LeastNumber
<1>3. CASE m = 1
  <2> DEFINE f == [i \in 1..1 |-> s[i]]
  <2>1. Gathers(f, s, 1)
    BY DEF Gathers
  <2> QED
    BY <1>2, <1>3, <2>1
<1>4. CASE m # 1
  <2>1. m - 1 \in Nat \ {0} /\ ~(m <= m - 1) /\ m > 1 /\ m \in Nat
    BY <1>4
  <2>2. m - 1 \notin T
    BY <1>2, <2>1
  <2>3. PICK g : Gathers(g, s, m - 1)
    BY <2>1, <2>2
  <2>4. \E f : Gathers(f, s, m)
    BY <2>1, <2>3, GatherMore
  <2> QED
    BY <2>4
<1> QED
  BY <1>3, <1>4

\* Flattening a sequence that is not empty gathers all of it.
LEMMA FlattenGathers ==
  ASSUME NEW s, Len(s) \in Nat \ {0}
  PROVE  \E f : Gathers(f, s, Len(s)) /\ FlattenSeq(s) = f[Len(s)]
<1> DEFINE g == CHOOSE f : f = [i \in 1..Len(s) |-> IF i = 1 THEN s[i] ELSE f[i-1] \o s[i]]
<1>1. FlattenSeq(s) = g[Len(s)]
  BY DEF FlattenSeq
<1>2. \E f : f = [i \in 1..Len(s) |-> IF i = 1 THEN s[i] ELSE f[i-1] \o s[i]]
  BY GatherExists DEF Gathers
<1>3. g = [i \in 1..Len(s) |-> IF i = 1 THEN s[i] ELSE g[i-1] \o s[i]]
  BY <1>2
<1> HIDE DEF g
<1> QED
  BY <1>1, <1>3 DEF Gathers

\* If R[i] holds all that the first i parts can give, it holds what they give.
LEMMA GatherWithin ==
  ASSUME NEW s, NEW n \in Nat \ {0}, NEW f, Gathers(f, s, n), NEW R,
         s[1] \in R[1],
         \A i \in 2..n : \A x \in R[i-1] : x \o s[i] \in R[i]
  PROVE  \A i \in 1..n : f[i] \in R[i]
<1> DEFINE T == { k \in 1..n : f[k] \notin R[k] }
<1>1. SUFFICES ASSUME T # {} PROVE FALSE
  OBVIOUS
<1>2. PICK m \in T : \A k \in T : m <= k
  <2>1. T \in SUBSET Nat
    OBVIOUS
  <2> HIDE DEF T
  <2> QED
    BY <1>1, <2>1, LeastNumber
<1>3. m \in 1..n /\ f[m] = IF m = 1 THEN s[m] ELSE f[m-1] \o s[m]
  BY DEF Gathers
<1>4. CASE m = 1
  BY <1>2, <1>3, <1>4
<1>5. CASE m # 1
  <2>1. m - 1 \in 1..n /\ ~(m <= m - 1) /\ m \in 2..n
    BY <1>3, <1>5
  <2>2. f[m-1] \in R[m-1]
    BY <1>2, <2>1
  <2>3. f[m-1] \o s[m] \in R[m]
    BY <2>1, <2>2
  <2>4. f[m] \in R[m]
    BY <1>3, <1>5, <2>3
  <2> QED
    BY <2>4
<1> QED
  BY <1>4, <1>5

-----------------------------------------------------------------------------
(* The encrypted text: numbers, each with its separator, and separators.   *)

\* The first and the second part of the number at p are there, and stand for c.
Stands(s, p, c) ==
  \E n \in Word : /\ s[p] = [of |-> n, part |-> 1]
                  /\ s[p+1] = [of |-> n, part |-> 2]
                  /\ AsChar(decode(n, KEY)) = c

\* The numbers of s, at the places p, are those of text, and all else separates.
Coded(s, text, p) ==
  /\ p \in [1..Len(text) -> Int]
  /\ \A j \in 1..Len(text) :
       p[j] >= 1 /\ p[j] + 2 <= Len(s) /\ Stands(s, p[j], text[j]) /\ s[p[j]+2] = SPACE
  /\ \A i \in 1..Len(s) : s[i] = SPACE \/ \E j \in 1..Len(text) : i = p[j] \/ i = p[j] + 1
  /\ \A j, k \in 1..Len(text) : j < k => p[j] + 3 <= p[k]

Texts == Seq(Word)
Files == Seq(Digits \cup {SPACE})

\* s is text, encoded.
Codes(s, text) == s \in Files /\ text \in Texts /\ \E p : Coded(s, text, p)

LEMMA JoinedAt ==
  ASSUME NEW S, NEW s \in Seq(S), NEW t \in Seq(S)
  PROVE  /\ s \o t \in Seq(S) /\ Len(s \o t) = Len(s) + Len(t)
         /\ Len(s) \in Nat /\ Len(t) \in Nat
         /\ \A i \in 1..Len(s) : (s \o t)[i] = s[i]
         /\ \A i \in 1..Len(t) : (s \o t)[Len(s) + i] = t[i]
OBVIOUS

LEMMA CodesJoin ==
  ASSUME NEW s, NEW t, NEW x, NEW y, Codes(s, x), Codes(t, y)
  PROVE  Codes(s \o t, x \o y)
<1>1. s \in Files /\ t \in Files /\ x \in Texts /\ y \in Texts
  BY DEF Codes
<1>2. PICK p : Coded(s, x, p)
  BY DEF Codes
<1>3. PICK q : Coded(t, y, q)
  BY DEF Codes
<1> DEFINE st == s \o t
           xy == x \o y
           pq == [j \in 1..Len(xy) |-> IF j <= Len(x) THEN p[j] ELSE Len(s) + q[j - Len(x)]]
<1>4. /\ st \in Files /\ Len(st) = Len(s) + Len(t) /\ Len(s) \in Nat /\ Len(t) \in Nat
      /\ \A i \in 1..Len(s) : st[i] = s[i]
      /\ \A i \in 1..Len(t) : st[Len(s) + i] = t[i]
  BY <1>1, JoinedAt DEF Files
<1>5. /\ xy \in Texts /\ Len(xy) = Len(x) + Len(y) /\ Len(x) \in Nat /\ Len(y) \in Nat
      /\ \A i \in 1..Len(x) : xy[i] = x[i]
      /\ \A i \in 1..Len(y) : xy[Len(x) + i] = y[i]
  BY <1>1, JoinedAt DEF Texts
<1> HIDE DEF st, xy
<1>6. \A j \in 1..Len(x) : j \in 1..Len(xy) /\ pq[j] = p[j] /\ p[j] \in Int
  <2> SUFFICES ASSUME NEW j \in 1..Len(x)
               PROVE  j \in 1..Len(xy) /\ pq[j] = p[j] /\ p[j] \in Int
    OBVIOUS
  <2>1. j \in 1..Len(xy) /\ j <= Len(x)
    BY <1>5
  <2>2. p[j] \in Int
    BY <1>2 DEF Coded
  <2> QED
    BY <2>1, <2>2
<1>7. \A j \in 1..Len(y) :
        Len(x) + j \in 1..Len(xy) /\ pq[Len(x) + j] = Len(s) + q[j] /\ q[j] \in Int
  <2> SUFFICES ASSUME NEW j \in 1..Len(y)
               PROVE  Len(x) + j \in 1..Len(xy) /\ pq[Len(x) + j] = Len(s) + q[j] /\ q[j] \in Int
    OBVIOUS
  <2>1. Len(x) + j \in 1..Len(xy) /\ ~(Len(x) + j <= Len(x)) /\ (Len(x) + j) - Len(x) = j
    BY <1>5
  <2>2. q[j] \in Int
    BY <1>3 DEF Coded
  <2> QED
    BY <2>1, <2>2
<1>8. \A j \in 1..Len(xy) : j \in 1..Len(x) \/ \E k \in 1..Len(y) : j = Len(x) + k
  <2> SUFFICES ASSUME NEW j \in 1..Len(xy), j \notin 1..Len(x)
               PROVE  \E k \in 1..Len(y) : j = Len(x) + k
    OBVIOUS
  <2>1. j - Len(x) \in 1..Len(y) /\ j = Len(x) + (j - Len(x))
    BY <1>5
  <2> QED
    BY <2>1
<1>9. \A i \in 1..Len(st) : i \in 1..Len(s) \/ \E k \in 1..Len(t) : i = Len(s) + k
  <2> SUFFICES ASSUME NEW i \in 1..Len(st), i \notin 1..Len(s)
               PROVE  \E k \in 1..Len(t) : i = Len(s) + k
    OBVIOUS
  <2>1. i - Len(s) \in 1..Len(t) /\ i = Len(s) + (i - Len(s))
    BY <1>4
  <2> QED
    BY <2>1
<1>10. \A j \in 1..Len(xy) : pq[j] \in Int
  <2> SUFFICES ASSUME NEW j \in 1..Len(xy) PROVE pq[j] \in Int
    OBVIOUS
  <2>1. CASE j \in 1..Len(x)
    BY <1>6, <2>1
  <2>2. ASSUME NEW k \in 1..Len(y), j = Len(x) + k PROVE pq[j] \in Int
    <3>1. pq[j] = Len(s) + q[k] /\ q[k] \in Int
      BY <1>7, <2>2
    <3> HIDE DEF pq
    <3> QED
      BY <1>4, <3>1
  <2> QED
    BY <1>8, <2>1, <2>2
<1>11. pq \in [1..Len(xy) -> Int]
  BY <1>10
<1> HIDE DEF pq
<1>12. ASSUME NEW j \in 1..Len(x)
       PROVE  pq[j] >= 1 /\ pq[j] + 2 <= Len(s) /\ Stands(st, pq[j], xy[j]) /\ st[pq[j]+2] = SPACE
  <2>1. p[j] >= 1 /\ p[j] + 2 <= Len(s) /\ Stands(s, p[j], x[j]) /\ s[p[j]+2] = SPACE
    BY <1>2 DEF Coded
  <2>2. p[j] \in 1..Len(s) /\ p[j] + 1 \in 1..Len(s) /\ p[j] + 2 \in 1..Len(s)
    BY <1>4, <1>6, <2>1
  <2>3. st[p[j]] = s[p[j]] /\ st[p[j]+1] = s[p[j]+1] /\ st[p[j]+2] = s[p[j]+2]
    BY <1>4, <2>2
  <2>4. Stands(st, p[j], x[j])
    BY <2>1, <2>3 DEF Stands
  <2> QED
    BY <1>5, <1>6, <2>1, <2>3, <2>4
<1>13. ASSUME NEW j \in 1..Len(y)
       PROVE  LET k == pq[Len(x) + j] IN
              k >= Len(s) + 1 /\ k + 2 <= Len(st) /\ Stands(st, k, xy[Len(x) + j]) /\ st[k+2] = SPACE
  <2>1. q[j] >= 1 /\ q[j] + 2 <= Len(t) /\ Stands(t, q[j], y[j]) /\ t[q[j]+2] = SPACE
    BY <1>3 DEF Coded
  <2>a. PICK i \in Int : i = q[j]
    BY <1>7
  <2>b. PICK a \in Nat : a = Len(s)
    BY <1>4
  <2>c. PICK l \in Nat : l = Len(t)
    BY <1>4
  <2>d. i >= 1 /\ i + 2 <= l
    BY <2>1, <2>a, <2>c
  <2>2. i \in 1..Len(t) /\ i + 1 \in 1..Len(t) /\ i + 2 \in 1..Len(t)
    BY <2>c, <2>d
  <2>3. PICK k \in Int : k = a + i
    OBVIOUS
  <2>4. k = a + i /\ k + 1 = a + (i + 1) /\ k + 2 = a + (i + 2)
    BY <2>3
  <2>5. st[k] = t[i] /\ st[k+1] = t[i+1] /\ st[k+2] = t[i+2]
    BY <1>4, <2>2, <2>4, <2>b
  <2>6. Stands(st, k, y[j])
    BY <2>1, <2>5, <2>a DEF Stands
  <2>7. xy[Len(x) + j] = y[j] /\ pq[Len(x) + j] = k
    BY <1>5, <1>7, <2>4, <2>a, <2>b
  <2>8. k >= Len(s) + 1 /\ k + 2 <= Len(st)
    <3>1. PICK b \in Nat : b = Len(t)
      BY <1>4
    <3>2. Len(st) = a + b /\ Len(s) = a
      BY <1>4, <2>b, <3>1
    <3>3. i \in 1..b /\ i + 2 \in 1..b
      BY <2>2, <3>1
    <3>4. k >= a + 1 /\ k + 2 <= a + b
      BY <2>4, <3>3
    <3> QED
      BY <3>2, <3>4
  <2> QED
    BY <2>1, <2>5, <2>6, <2>7, <2>8, <2>a
<1>14. ASSUME NEW j \in 1..Len(xy)
       PROVE  pq[j] >= 1 /\ pq[j] + 2 <= Len(st) /\ Stands(st, pq[j], xy[j]) /\ st[pq[j]+2] = SPACE
  <2>0. pq[j] \in Int
    BY <1>11
  <2>1. CASE j \in 1..Len(x)
    BY <1>4, <1>12, <2>0, <2>1
  <2>2. ASSUME NEW k \in 1..Len(y), j = Len(x) + k
        PROVE  pq[j] >= 1 /\ pq[j] + 2 <= Len(st) /\ Stands(st, pq[j], xy[j]) /\ st[pq[j]+2] = SPACE
    BY <1>4, <1>13, <2>0, <2>2
  <2> QED
    BY <1>8, <2>1, <2>2
<1>15. ASSUME NEW i \in 1..Len(st)
       PROVE  st[i] = SPACE \/ \E j \in 1..Len(xy) : i = pq[j] \/ i = pq[j] + 1
  <2>1. CASE i \in 1..Len(s)
    <3>1. s[i] = SPACE \/ \E j \in 1..Len(x) : i = p[j] \/ i = p[j] + 1
      BY <1>2, <2>1 DEF Coded
    <3> QED
      BY <1>4, <1>6, <2>1, <3>1
  <2>2. ASSUME NEW k \in 1..Len(t), i = Len(s) + k
        PROVE  st[i] = SPACE \/ \E j \in 1..Len(xy) : i = pq[j] \/ i = pq[j] + 1
    <3>1. t[k] = SPACE \/ \E j \in 1..Len(y) : k = q[j] \/ k = q[j] + 1
      BY <1>3 DEF Coded
    <3>2. CASE t[k] = SPACE
      BY <1>4, <2>2, <3>2
    <3>3. ASSUME NEW j \in 1..Len(y), k = q[j] \/ k = q[j] + 1
          PROVE  \E l \in 1..Len(xy) : i = pq[l] \/ i = pq[l] + 1
      <4>1. Len(x) + j \in 1..Len(xy) /\ pq[Len(x) + j] = Len(s) + q[j] /\ q[j] \in Int
        BY <1>7
      <4>2. PICK m \in Int : m = q[j]
        BY <4>1
      <4>3. PICK l \in Int : l = pq[Len(x) + j]
        BY <1>11, <4>1
      <4>4. l = Len(s) + m
        BY <4>1, <4>2, <4>3
      <4>5. i = l \/ i = l + 1
        <5>1. PICK a \in Nat : a = Len(s)
          BY <1>4
        <5>2. i = a + k /\ l = a + m /\ (k = m \/ k = m + 1)
          BY <2>2, <3>3, <4>2, <4>4, <5>1
        <5>3. k \in Int
          OBVIOUS
        <5> QED
          BY <5>2, <5>3
      <4> QED
        BY <4>1, <4>3, <4>5
    <3> QED
      BY <3>1, <3>2, <3>3
  <2> QED
    BY <1>9, <2>1, <2>2
<1>16. ASSUME NEW j \in 1..Len(xy), NEW k \in 1..Len(xy), j < k
       PROVE  pq[j] + 3 <= pq[k]
  <2>1. CASE k \in 1..Len(x)
    <3>1. j \in 1..Len(x)
      BY <1>5, <1>16, <2>1
    <3> QED
      BY <1>2, <1>6, <1>16, <2>1, <3>1 DEF Coded
  <2>2. ASSUME j \in 1..Len(x), NEW n \in 1..Len(y), k = Len(x) + n PROVE pq[j] + 3 <= pq[k]
    <3>1. pq[j] + 2 <= Len(s) /\ pq[k] >= Len(s) + 1 /\ pq[j] \in Int /\ pq[k] \in Int
      BY <1>11, <1>12, <1>13, <2>2
    <3> QED
      BY SMTT(20), <1>4, <3>1
  <2>3. ASSUME NEW m \in 1..Len(y), NEW n \in 1..Len(y), j = Len(x) + m, k = Len(x) + n
        PROVE  pq[j] + 3 <= pq[k]
    <3>1. m < n
      BY <1>5, <1>16, <2>3
    <3>2. q[m] + 3 <= q[n]
      BY <1>3, <3>1 DEF Coded
    <3>3. pq[j] = Len(s) + q[m] /\ pq[k] = Len(s) + q[n] /\ q[m] \in Int /\ q[n] \in Int
      BY <1>7, <2>3
    <3> QED
      BY SMTT(20), <1>4, <3>2, <3>3
  <2> QED
    BY <1>8, <2>1, <2>2, <2>3
<1>17. Coded(st, xy, pq)
  BY <1>11, <1>14, <1>15, <1>16 DEF Coded
<1> QED
  BY <1>4, <1>5, <1>17 DEF Codes, st, xy

LEMMA RotatedChar ==
  ASSUME NEW c \in Chars
  PROVE  /\ AsChar(decode(encode(c, KEY), KEY)) = Rotated(c)
         /\ encode(c, KEY) \in Word /\ Rotated(c) \in Word
<1>1. c \in Word /\ MinusOne \in Word
  BY DEF Chars, Word, MinusOne
<1>2. 0 \in 0..W-1
  BY RotateAssumption
<1>3. encode(c, KEY) \in Word
  BY <1>2, EncodedBits
<1>4. decode(encode(c, KEY), KEY) = Rotated(c)
  BY EveryCharRotated
<1>5. AsChar(c) = c
  <2>1. ASSUME NEW i \in 0..W-1 PROVE c[IF i < CharBits THEN i ELSE CharBits - 1] = c[i]
    <3>1. CASE i < CharBits
      BY <3>1
    <3>2. CASE ~(i < CharBits)
      <4>1. i \in CharBits-1..W-1 /\ CharBits - 1 \in CharBits-1..W-1
        BY <3>2, RotateAssumption
      <4> QED
        BY <3>2, <4>1, CharBit
    <3> QED
      BY <3>1, <3>2
  <2>2. c = [i \in 0..W-1 |-> c[i]]
    BY <1>1 DEF Word
  <2> QED
    BY <2>1, <2>2 DEF AsChar
<1>6. AsChar(MinusOne) = MinusOne
  <2>1. \A i \in 0..W-1 : (IF i < CharBits THEN i ELSE CharBits - 1) \in 0..W-1
    BY RotateAssumption
  <2> QED
    BY <2>1 DEF AsChar, MinusOne
<1> QED
  BY <1>1, <1>3, <1>4, <1>5, <1>6 DEF Rotated

LEMMA EmptyCodes == Codes(<<>>, <<>>) /\ Codes(<<SPACE>>, <<>>)
<1> DEFINE p == [j \in 1..0 |-> 0]
<1>1. p \in [1..Len(<<>>) -> Int]
  OBVIOUS
<1>2. Coded(<<>>, <<>>, p) /\ Coded(<<SPACE>>, <<>>, p)
  BY <1>1 DEF Coded
<1>3. <<>> \in Files /\ <<SPACE>> \in Files /\ <<>> \in Texts
  BY DEF Files, Texts
<1> QED
  BY <1>2, <1>3 DEF Codes

LEMMA NumberCodes ==
  ASSUME NEW n \in Word, NEW c \in Word, AsChar(decode(n, KEY)) = c
  PROVE  Codes(Append(Number(n), SPACE), <<c>>)
<1> DEFINE s == Append(Number(n), SPACE)
           p == [j \in 1..1 |-> 1]
<1>1. /\ [of |-> n, part |-> 1] \in Digits /\ [of |-> n, part |-> 2] \in Digits
  BY DEF Digits
<1>2. s = << [of |-> n, part |-> 1], [of |-> n, part |-> 2], SPACE >>
  <2> DEFINE S == Digits \cup {SPACE}
  <2>1. \A x, y, z \in S : Append(<<x, y>>, z) = <<x, y, z>>
    <3> SUFFICES ASSUME NEW x \in S, NEW y \in S, NEW z \in S
                 PROVE  Append(<<x, y>>, z) = <<x, y, z>>
      OBVIOUS
    <3> HIDE DEF S
    <3>1. <<x, y>> \in Seq(S) /\ Len(<<x, y>>) = 2
      OBVIOUS
    <3>2. Append(<<x, y>>, z) \in Seq(S) /\ Len(Append(<<x, y>>, z)) = 3
      BY <3>1
    <3>3. <<x, y, z>> \in Seq(S) /\ Len(<<x, y, z>>) = 3
      OBVIOUS
    <3>4. \A i \in 1..3 : Append(<<x, y>>, z)[i] = <<x, y, z>>[i]
      BY <3>1
    <3> QED
      BY <3>2, <3>3, <3>4, SeqEqual
  <2>2. s = Append(<< [of |-> n, part |-> 1], [of |-> n, part |-> 2] >>, SPACE)
    BY DEF Number
  <2> QED
    BY <1>1, <2>1, <2>2
<1>3. s \in Files /\ <<c>> \in Texts
  BY <1>1, <1>2 DEF Files, Texts
<1>4. Len(s) = 3 /\ s[1] = [of |-> n, part |-> 1] /\ s[2] = [of |-> n, part |-> 2] /\ s[3] = SPACE
  BY <1>2
<1>5. Len(<<c>>) = 1 /\ <<c>>[1] = c
  OBVIOUS
<1>6. p \in [1..Len(<<c>>) -> Int] /\ p[1] = 1
  BY <1>5
<1> HIDE DEF s, p
<1>7. Stands(s, 1, c)
  BY <1>4 DEF Stands
<1>8. \A i \in 1..Len(s) : i = 1 \/ i = 2 \/ i = 3
  BY <1>4
<1>9. \A j \in 1..Len(<<c>>) : j = 1
  BY <1>5
<1>10. Coded(s, <<c>>, p)
  <2>1. \A j \in 1..Len(<<c>>) :
          p[j] >= 1 /\ p[j] + 2 <= Len(s) /\ Stands(s, p[j], <<c>>[j]) /\ s[p[j]+2] = SPACE
    BY <1>4, <1>5, <1>6, <1>7, <1>9
  <2>2. \A i \in 1..Len(s) : s[i] = SPACE \/ \E j \in 1..Len(<<c>>) : i = p[j] \/ i = p[j] + 1
    BY <1>4, <1>5, <1>6, <1>8
  <2>3. \A j, k \in 1..Len(<<c>>) : j < k => p[j] + 3 <= p[k]
    BY <1>9
  <2> QED
    BY <1>6, <2>1, <2>2, <2>3 DEF Coded
<1> QED
  BY <1>3, <1>10 DEF Codes, s

\* A line, char by char.
LEMMA LineCodes ==
  ASSUME NEW line \in Lines
  PROVE  Codes(EncodedLine(line), [j \in DOMAIN line |-> Rotated(line[j])])
<1> DEFINE n == Len(line)
           s == [j \in DOMAIN line |-> Append(Number(encode(line[j], KEY)), SPACE)]
           t(i) == [j \in 1..i |-> Rotated(line[j])]
           R == [i \in 1..n |-> { x \in Files : Codes(x, t(i)) }]
<1>1. n \in Nat /\ DOMAIN line = 1..n /\ \A j \in 1..n : line[j] \in Chars
  BY DEF Lines
<1>2. Len(s) = n /\ EncodedLine(line) = FlattenSeq(s)
  BY <1>1 DEF EncodedLine
<1>3. ASSUME NEW j \in 1..n PROVE Codes(s[j], <<Rotated(line[j])>>)
  <2>1. s[j] = Append(Number(encode(line[j], KEY)), SPACE)
    BY <1>1
  <2> QED
    BY <1>1, <2>1, RotatedChar, NumberCodes
<1>4. CASE n = 0
  <2>1. s = <<>>
    BY <1>1, <1>4
  <2>2. [j \in DOMAIN line |-> Rotated(line[j])] = <<>>
    BY <1>1, <1>4
  <2>3. FlattenSeq(s) = s
    BY <1>2, <1>4 DEF FlattenSeq
  <2> QED
    BY <1>2, <2>1, <2>2, <2>3, EmptyCodes
<1>5. CASE n # 0
  <2> HIDE DEF s
  <2>1. PICK f : Gathers(f, s, n) /\ FlattenSeq(s) = f[n]
    BY <1>1, <1>2, <1>5, FlattenGathers
  <2>2. s[1] \in R[1]
    <3>1. t(1) = <<Rotated(line[1])>>
      OBVIOUS
    <3>2. 1 \in 1..n
      BY <1>1, <1>5
    <3>3. Codes(s[1], t(1))
      BY <1>3, <3>1, <3>2
    <3> QED
      BY <3>2, <3>3 DEF Codes
  <2>3. ASSUME NEW i \in 2..n, NEW x \in R[i-1] PROVE x \o s[i] \in R[i]
    <3>1. i - 1 \in 1..n /\ i \in 1..n
      BY <1>1
    <3>2. Codes(x, t(i-1))
      BY <3>1
    <3>3. Codes(x \o s[i], t(i-1) \o <<Rotated(line[i])>>)
      BY <1>3, <3>1, <3>2, CodesJoin
    <3>4. t(i-1) \o <<Rotated(line[i])>> = t(i)
      <4>1. t(i-1) \in Seq(Word) /\ Len(t(i-1)) = i - 1
        BY <1>1, <3>1, RotatedChar
      <4>2. <<Rotated(line[i])>> \in Seq(Word)
        BY <1>1, <3>1, RotatedChar
      <4>3. t(i) \in Seq(Word) /\ Len(t(i)) = i
        BY <1>1, <3>1, RotatedChar
      <4> QED
        BY <4>1, <4>2, <4>3
    <3>5. Codes(x \o s[i], t(i))
      BY <3>3, <3>4
    <3> QED
      BY <3>1, <3>5 DEF Codes
  <2>4. \A i \in 1..n : f[i] \in R[i]
    <3> HIDE DEF R, n
    <3> QED
      BY <1>1, <1>5, <2>1, <2>2, <2>3, GatherWithin
  <2>5. f[n] \in R[n] /\ n \in 1..n
    <3> HIDE DEF R, n
    <3> QED
      BY <1>1, <1>5, <2>4
  <2>6. Codes(f[n], t(n))
    BY <2>5
  <2>7. [j \in DOMAIN line |-> Rotated(line[j])] = t(n)
    BY <1>1
  <2> QED
    BY <1>2, <2>1, <2>6, <2>7
<1> QED
  BY <1>4, <1>5

\* The file, line by line: what client.c writes is its text, encoded.
LEMMA FileCodes ==
  ASSUME arr \in [1..SENTENCE -> Lines]
  PROVE  Codes(Encrypted, Expected)
<1> DEFINE n == SENTENCE
           s == [i \in 1..n |-> Append(EncodedLine(arr[i]), SPACE)]
           t == [i \in 1..n |-> [j \in DOMAIN arr[i] |-> Rotated(arr[i][j])]]
<1>1. n \in Nat
  BY TransferAssumption
<1>2. /\ Len(s) = n /\ Encrypted = FlattenSeq(s)
      /\ Len(t) = n /\ Expected = FlattenSeq(t)
  BY <1>1 DEF Encrypted, Expected
<1>3. ASSUME NEW i \in 1..n PROVE Codes(s[i], t[i])
  <2>1. Codes(EncodedLine(arr[i]), t[i])
    BY LineCodes
  <2>2. Codes(EncodedLine(arr[i]) \o <<SPACE>>, t[i] \o <<>>)
    <3> HIDE DEF t
    <3> QED
      BY <2>1, EmptyCodes, CodesJoin
  <2>3. EncodedLine(arr[i]) \o <<SPACE>> = s[i] /\ t[i] \o <<>> = t[i]
    <3>1. t[i] \in Seq(Word) /\ EncodedLine(arr[i]) \in Seq(Digits \cup {SPACE})
      BY <2>1 DEF Codes, Texts, Files
    <3>2. EncodedLine(arr[i]) \o <<SPACE>> = Append(EncodedLine(arr[i]), SPACE)
      BY <3>1
    <3>3. t[i] \o <<>> = t[i]
      <4> HIDE DEF t
      <4> QED
        BY <3>1
    <3> QED
      BY <3>2, <3>3
  <2> QED
    BY <2>2, <2>3
<1>4. CASE n = 0
  <2>1. s = <<>> /\ t = <<>>
    BY <1>4
  <2>2. FlattenSeq(s) = s /\ FlattenSeq(t) = t
    BY <1>2, <1>4 DEF FlattenSeq
  <2> QED
    BY <1>2, <2>1, <2>2, EmptyCodes
<1>5. CASE n # 0
  <2> HIDE DEF s, t, n
  <2>1. PICK f : Gathers(f, s, n) /\ FlattenSeq(s) = f[n]
    BY <1>1, <1>2, <1>5, FlattenGathers
  <2>2. PICK g : Gathers(g, t, n) /\ FlattenSeq(t) = g[n]
    BY <1>1, <1>2, <1>5, FlattenGathers
  <2>3. \A i \in 1..n : g[i] = IF i = 1 THEN t[i] ELSE g[i-1] \o t[i]
    BY <2>2 DEF Gathers
  <2> DEFINE R == [i \in 1..n |-> { x \in Files : Codes(x, g[i]) }]
  <2>4. s[1] \in R[1]
    <3>1. 1 \in 1..n
      BY <1>1, <1>5
    <3>2. g[1] = t[1]
      BY <2>3, <3>1
    <3>3. Codes(s[1], g[1])
      BY <1>3, <3>1, <3>2
    <3> QED
      BY <3>1, <3>3 DEF Codes
  <2>5. ASSUME NEW i \in 2..n, NEW x \in R[i-1] PROVE x \o s[i] \in R[i]
    <3>1. i - 1 \in 1..n /\ i \in 1..n /\ i # 1
      BY <1>1
    <3>2. Codes(x, g[i-1])
      BY <3>1
    <3>3. Codes(x \o s[i], g[i-1] \o t[i])
      BY <1>3, <3>1, <3>2, CodesJoin
    <3>4. g[i-1] \o t[i] = g[i]
      BY <2>3, <3>1
    <3>5. Codes(x \o s[i], g[i])
      BY <3>3, <3>4
    <3> QED
      BY <3>1, <3>5 DEF Codes
  <2>6. \A i \in 1..n : f[i] \in R[i]
    <3> HIDE DEF R
    <3> QED
      BY <1>1, <1>5, <2>1, <2>4, <2>5, GatherWithin
  <2>7. f[n] \in R[n] /\ n \in 1..n
    BY <1>1, <1>5, <2>6
  <2>8. Codes(f[n], g[n])
    BY <2>7
  <2> QED
    BY <1>2, <2>1, <2>2, <2>8
<1> QED
  BY <1>4, <1>5

-----------------------------------------------------------------------------
(* Scanning: the runs of bytes between separators.                         *)

Firsts(r) == { i \in DOMAIN r : r[i] # SPACE /\ (i = 1 \/ r[i-1] = SPACE) }
Lasts(r) == { i \in DOMAIN r : r[i] # SPACE /\ (i = Len(r) \/ r[i+1] = SPACE) }
Nth(S, j) == CHOOSE i \in S : Cardinality({ k \in S : k <= i }) = j

LEMMA ScannedIs ==
  Scanned = [j \in 1..Cardinality(Firsts(Readable)) |->
               Decoded(SubSeq(Readable, Nth(Firsts(Readable), j), Nth(Lasts(Readable), j)))]
BY DEF Scanned, Firsts, Lasts, Nth

\* a lists a set of numbers in ascending order.
Ascending(a, n) == a \in [1..n -> Int] /\ \A j, k \in 1..n : j < k => a[j] < a[k]

LEMMA CountUpTo ==
  ASSUME NEW n \in Nat, NEW a, Ascending(a, n), NEW m \in 0..n
  PROVE  Cardinality({ a[k] : k \in 1..m }) = m
<1> DEFINE T == { a[k] : k \in 1..m }
           f == [k \in 1..m |-> a[k]]
<1>1. \A j, k \in 1..m : j # k => a[j] # a[k]
  <2> SUFFICES ASSUME NEW j \in 1..m, NEW k \in 1..m, j # k PROVE a[j] # a[k]
    OBVIOUS
  <2>1. j \in 1..n /\ k \in 1..n /\ (j < k \/ k < j)
    OBVIOUS
  <2>2. a[j] \in Int /\ a[k] \in Int /\ (a[j] < a[k] \/ a[k] < a[j])
    BY <2>1 DEF Ascending
  <2> QED
    BY <2>2
<1>2. f \in Bijection(1..m, T)
  BY <1>1 DEF Bijection, Injection, Surjection, IsInjective
<1>3. ExistsBijection(1..m, T)
  BY <1>2 DEF ExistsBijection
<1>4. m \in Nat
  OBVIOUS
<1>5. Cardinality(T) = m
  <2> HIDE DEF T
  <2> QED
    BY <1>3, <1>4, FS_CountingElements
<1> QED
  BY <1>5

LEMMA NthIs ==
  ASSUME NEW n \in Nat, NEW a, Ascending(a, n), NEW S, S = { a[k] : k \in 1..n }
  PROVE  Cardinality(S) = n /\ \A j \in 1..n : Nth(S, j) = a[j]
<1>1. Cardinality(S) = n
  <2>1. n \in 0..n
    OBVIOUS
  <2> QED
    BY <2>1, CountUpTo
<1>2. ASSUME NEW j \in 1..n PROVE Cardinality({ k \in S : k <= a[j] }) = j
  <2>1. { k \in S : k <= a[j] } = { a[k] : k \in 1..j }
    <3>1. ASSUME NEW k \in 1..n PROVE a[k] <= a[j] <=> k \in 1..j
      <4>1. a[k] \in Int /\ a[j] \in Int /\ (k < j => a[k] < a[j]) /\ (j < k => a[j] < a[k])
        BY DEF Ascending
      <4>2. k = j => a[k] = a[j]
        OBVIOUS
      <4> QED
        BY <4>1, <4>2
    <3>2. 1..j \subseteq 1..n
      OBVIOUS
    <3> QED
      BY <3>1, <3>2
  <2>2. j \in 0..n
    OBVIOUS
  <2> QED
    BY <2>1, <2>2, CountUpTo
<1>3. ASSUME NEW j \in 1..n PROVE Nth(S, j) = a[j]
  <2>1. a[j] \in S
    OBVIOUS
  <2>2. \A i \in S : Cardinality({ k \in S : k <= i }) = j => i = a[j]
    <3> SUFFICES ASSUME NEW i \in S, Cardinality({ k \in S : k <= i }) = j PROVE i = a[j]
      OBVIOUS
    <3>1. PICK l \in 1..n : i = a[l]
      OBVIOUS
    <3>2. l = j
      BY <1>2, <3>1
    <3> QED
      BY <3>1, <3>2
  <2>3. Cardinality({ k \in S : k <= a[j] }) = j
    BY <1>2
  <2>4. \E i \in S : Cardinality({ k \in S : k <= i }) = j
    BY <2>1, <2>3
  <2> DEFINE v == CHOOSE i \in S : Cardinality({ k \in S : k <= i }) = j
  <2>5. v \in S /\ Cardinality({ k \in S : k <= v }) = j
    BY <2>4
  <2> HIDE DEF v
  <2>6. v = a[j]
    BY <2>2, <2>5
  <2> QED
    BY <2>6 DEF v, Nth
<1> QED
  BY <1>1, <1>3

\* The runs of r: the j-th is from a[j] to b[j].
Runs(r, n, a, b) ==
  /\ a \in [1..n -> Int] /\ b \in [1..n -> Int]
  /\ \A j \in 1..n : 1 <= a[j] /\ a[j] <= b[j] /\ b[j] <= Len(r)
  /\ \A j, k \in 1..n : j < k => b[j] + 1 < a[k]
  /\ \A i \in 1..Len(r) : r[i] # SPACE <=> \E j \in 1..n : a[j] <= i /\ i <= b[j]

Covered(n, a, b) == UNION { a[k]..b[k] : k \in 1..n }

LEMMA RunsApart ==
  ASSUME NEW r, NEW n \in Nat, NEW a, NEW b, Runs(r, n, a, b), NEW j \in 1..n
  PROVE  a[j] - 1 \notin Covered(n, a, b) /\ b[j] + 1 \notin Covered(n, a, b)
<1> SUFFICES ASSUME NEW k \in 1..n PROVE a[j] - 1 \notin a[k]..b[k] /\ b[j] + 1 \notin a[k]..b[k]
  BY DEF Covered
<1>1. PICK aj \in Int, bj \in Int, ak \in Int, bk \in Int :
        aj = a[j] /\ bj = b[j] /\ ak = a[k] /\ bk = b[k]
  BY DEF Runs
<1>2. aj <= bj /\ ak <= bk /\ (j < k => bj + 1 < ak) /\ (k < j => bk + 1 < aj)
  BY <1>1 DEF Runs
<1>3. j = k => aj = ak /\ bj = bk
  BY <1>1
<1>4. j < k \/ k < j \/ j = k
  OBVIOUS
<1>5. aj - 1 \notin ak..bk /\ bj + 1 \notin ak..bk
  BY <1>2, <1>3, <1>4
<1> QED
  BY <1>1, <1>5

LEMMA RunsFound ==
  ASSUME NEW r \in Seq(Bytes), NEW n \in Nat, NEW a, NEW b, Runs(r, n, a, b)
  PROVE  Firsts(r) = { a[j] : j \in 1..n } /\ Lasts(r) = { b[j] : j \in 1..n }
<1> DEFINE In == Covered(n, a, b)
<1>1. /\ DOMAIN r = 1..Len(r) /\ Len(r) \in Nat
      /\ \A j \in 1..n : /\ a[j] \in Int /\ b[j] \in Int
                         /\ a[j] \in 1..Len(r) /\ b[j] \in 1..Len(r)
  <2>1. ASSUME NEW j \in 1..n
        PROVE  a[j] \in Int /\ b[j] \in Int /\ a[j] \in 1..Len(r) /\ b[j] \in 1..Len(r)
    <3>1. PICK aj \in Int, bj \in Int : aj = a[j] /\ bj = b[j]
      BY DEF Runs
    <3>2. 1 <= aj /\ aj <= bj /\ bj <= Len(r)
      BY <3>1 DEF Runs
    <3> QED
      BY <3>1, <3>2
  <2> QED
    BY <2>1
<1>2. \A i \in 1..Len(r) : r[i] # SPACE <=> i \in In
  <2> SUFFICES ASSUME NEW i \in 1..Len(r) PROVE r[i] # SPACE <=> i \in In
    OBVIOUS
  <2>1. r[i] # SPACE <=> \E j \in 1..n : a[j] <= i /\ i <= b[j]
    BY DEF Runs
  <2>2. i \in Int /\ \A j \in 1..n : a[j] \in Int /\ b[j] \in Int
    BY <1>1
  <2>3. \A j \in 1..n : i \in a[j]..b[j] <=> a[j] <= i /\ i <= b[j]
    BY <2>2
  <2> QED
    BY <2>1, <2>3 DEF Covered
<1>3. \A j \in 1..n : a[j] \in In /\ b[j] \in In /\ a[j] - 1 \notin In /\ b[j] + 1 \notin In
  <2> SUFFICES ASSUME NEW j \in 1..n
               PROVE  a[j] \in In /\ b[j] \in In /\ a[j] - 1 \notin In /\ b[j] + 1 \notin In
    OBVIOUS
  <2>1. a[j] <= b[j]
    BY DEF Runs
  <2>2. a[j] \in a[j]..b[j] /\ b[j] \in a[j]..b[j]
    BY <1>1, <2>1
  <2>3. a[j] \in In /\ b[j] \in In
    BY <2>2 DEF Covered
  <2>4. a[j] - 1 \notin In /\ b[j] + 1 \notin In
    BY RunsApart
  <2> QED
    BY <2>3, <2>4
<1>4. ASSUME NEW i \in In
      PROVE  /\ i \in Int
             /\ i - 1 \in In \/ \E j \in 1..n : i = a[j]
             /\ i + 1 \in In \/ \E j \in 1..n : i = b[j]
  <2>1. PICK j \in 1..n : i \in a[j]..b[j]
    BY DEF Covered
  <2>2. PICK aj \in Int, bj \in Int : aj = a[j] /\ bj = b[j]
    BY <1>1
  <2>3. i \in Int /\ (i = aj \/ i - 1 \in aj..bj) /\ (i = bj \/ i + 1 \in aj..bj)
    BY <2>1, <2>2
  <2>4. aj..bj \subseteq In
    BY <2>2 DEF Covered
  <2> QED
    BY <2>2, <2>3, <2>4
<1> HIDE DEF In
<1>5. ASSUME NEW i \in Firsts(r) PROVE \E j \in 1..n : i = a[j]
  <2>1. i \in 1..Len(r) /\ r[i] # SPACE /\ (i = 1 \/ r[i-1] = SPACE)
    BY <1>1 DEF Firsts
  <2>2. i \in In
    BY <1>2, <2>1
  <2>3. ASSUME i - 1 \in In PROVE FALSE
    <3>1. CASE i = 1
      <4>1. 0 \in In
        BY <2>3, <3>1
      <4>2. PICK j \in 1..n : 0 \in a[j]..b[j]
        BY <4>1 DEF In, Covered
      <4> QED
        BY <1>1, <4>2
    <3>2. CASE i # 1
      <4>1. i - 1 \in 1..Len(r)
        BY <2>1, <3>2
      <4>2. r[i-1] # SPACE
        BY <1>2, <2>3, <4>1
      <4> QED
        BY <2>1, <3>2, <4>2
    <3> QED
      BY <3>1, <3>2
  <2> QED
    BY <1>4, <2>2, <2>3
<1>6. ASSUME NEW i \in Lasts(r) PROVE \E j \in 1..n : i = b[j]
  <2>1. i \in 1..Len(r) /\ r[i] # SPACE /\ (i = Len(r) \/ r[i+1] = SPACE)
    BY <1>1 DEF Lasts
  <2>2. i \in In
    BY <1>2, <2>1
  <2>3. ASSUME i + 1 \in In PROVE FALSE
    <3>1. CASE i = Len(r)
      <4>1. PICK j \in 1..n : i + 1 \in a[j]..b[j]
        BY <2>3 DEF In, Covered
      <4>2. PICK aj \in Int, bj \in Int : aj = a[j] /\ bj = b[j]
        BY <1>1
      <4>3. i + 1 \in aj..bj /\ bj <= i
        BY <1>1, <3>1, <4>1, <4>2
      <4>4. i \in Int
        BY <2>1
      <4> QED
        BY <4>3, <4>4
    <3>2. CASE i # Len(r)
      <4>1. i + 1 \in 1..Len(r)
        <5>1. Len(r) \in Nat
          BY <1>1
        <5> QED
          BY <2>1, <3>2, <5>1
      <4>2. r[i+1] # SPACE
        BY <1>2, <2>3, <4>1
      <4> QED
        BY <2>1, <3>2, <4>2
    <3> QED
      BY <3>1, <3>2
  <2> QED
    BY <1>4, <2>2, <2>3
<1>7. ASSUME NEW j \in 1..n PROVE a[j] \in Firsts(r)
  <2>1. PICK i \in Int : i = a[j]
    BY <1>1
  <2>2. i \in 1..Len(r) /\ r[i] # SPACE /\ i - 1 \notin In
    BY <1>1, <1>2, <1>3, <2>1
  <2>3. i = 1 \/ r[i-1] = SPACE
    <3>1. CASE i # 1
      <4>1. i - 1 \in 1..Len(r)
        BY <1>1, <2>2, <3>1
      <4> QED
        BY <1>2, <2>2, <4>1
    <3> QED
      BY <3>1
  <2> QED
    BY <1>1, <2>1, <2>2, <2>3 DEF Firsts
<1>8. ASSUME NEW j \in 1..n PROVE b[j] \in Lasts(r)
  <2>1. PICK i \in Int : i = b[j]
    BY <1>1
  <2>2. i \in 1..Len(r) /\ r[i] # SPACE /\ i + 1 \notin In
    BY <1>1, <1>2, <1>3, <2>1
  <2>3. i = Len(r) \/ r[i+1] = SPACE
    <3>1. CASE i # Len(r)
      <4>1. i + 1 \in 1..Len(r)
        <5>1. Len(r) \in Nat
          BY <1>1
        <5> QED
          BY <2>2, <3>1, <5>1
      <4> QED
        BY <1>2, <2>2, <4>1
    <3> QED
      BY <3>1
  <2> QED
    BY <1>1, <2>1, <2>2, <2>3 DEF Lasts
<1>9. Firsts(r) = { a[j] : j \in 1..n }
  BY <1>5, <1>7
<1>10. Lasts(r) = { b[j] : j \in 1..n }
  BY <1>6, <1>8
<1> QED
  BY <1>9, <1>10

\* The scanner takes the runs, one after the other.
LEMMA ScansRuns ==
  ASSUME Readable \in Seq(Bytes), NEW n \in Nat, NEW a, NEW b, Runs(Readable, n, a, b)
  PROVE  Scanned = [j \in 1..n |-> Decoded(SubSeq(Readable, a[j], b[j]))]
<1>1. Ascending(a, n) /\ Ascending(b, n)
  <2>1. ASSUME NEW j \in 1..n, NEW k \in 1..n, j < k PROVE a[j] < a[k] /\ b[j] < b[k]
    <3>1. PICK aj \in Int, bj \in Int, ak \in Int, bk \in Int :
            aj = a[j] /\ bj = b[j] /\ ak = a[k] /\ bk = b[k]
      BY DEF Runs
    <3>2. aj <= bj /\ ak <= bk /\ bj + 1 < ak
      BY <2>1, <3>1 DEF Runs
    <3> QED
      BY <3>1, <3>2
  <2>2. a \in [1..n -> Int] /\ b \in [1..n -> Int]
    BY DEF Runs
  <2> QED
    BY <2>1, <2>2 DEF Ascending
<1>2. Firsts(Readable) = { a[j] : j \in 1..n } /\ Lasts(Readable) = { b[j] : j \in 1..n }
  BY RunsFound
<1> DEFINE F == Firsts(Readable)
           L == Lasts(Readable)
<1> HIDE DEF F, L
<1>a. F = { a[j] : j \in 1..n } /\ Ascending(a, n)
  BY <1>1, <1>2 DEF F
<1>b. Cardinality(F) = n
  BY <1>a, NthIs
<1>e. \A j \in 1..n : Nth(F, j) = a[j]
  BY <1>a, NthIs
<1>c. L = { b[j] : j \in 1..n } /\ Ascending(b, n)
  BY <1>1, <1>2 DEF L
<1>d. \A j \in 1..n : Nth(L, j) = b[j]
  BY <1>c, NthIs
<1>3. Cardinality(Firsts(Readable)) = n /\ \A j \in 1..n : Nth(Firsts(Readable), j) = a[j]
  BY <1>b, <1>e DEF F
<1>4. \A j \in 1..n : Nth(Lasts(Readable), j) = b[j]
  BY <1>d DEF L
<1> QED
  BY <1>3, <1>4, ScannedIs

-----------------------------------------------------------------------------
(* What is decoded of a first part of the encrypted text.                  *)

LEMMA PieceIs ==
  ASSUME NEW S, NEW s \in Seq(S), NEW m \in Int, NEW n \in Int, 1 <= m, m <= n + 1, n <= Len(s)
  PROVE  /\ SubSeq(s, m, n) \in Seq(S) /\ Len(SubSeq(s, m, n)) = n - m + 1
         /\ \A i \in 1..(n - m + 1) : SubSeq(s, m, n)[i] = s[m + i - 1]
<1>1. \A i \in m..n : s[i] \in S
  OBVIOUS
<1> QED
  BY <1>1

\* What is behind the first m elements.
LEMMA PieceFrom ==
  ASSUME NEW S, NEW s \in Seq(S), NEW m \in Nat, NEW n \in Nat, m <= n, n <= Len(s)
  PROVE  /\ SubSeq(s, m + 1, n) \in Seq(S) /\ Len(SubSeq(s, m + 1, n)) = n - m
         /\ \A k \in 1..(n - m) : SubSeq(s, m + 1, n)[k] = s[m + k]
<1> DEFINE q == SubSeq(s, m + 1, n)
<1>1. /\ m + 1 \in Int /\ n \in Int /\ 1 <= m + 1 /\ m + 1 <= n + 1
      /\ n - (m + 1) + 1 = n - m /\ \A k \in 1..(n - m) : (m + 1) + k - 1 = m + k
  OBVIOUS
<1>2. /\ q \in Seq(S) /\ Len(q) = n - (m + 1) + 1
      /\ \A k \in 1..(n - (m + 1) + 1) : q[k] = s[(m + 1) + k - 1]
  BY <1>1, PieceIs
<1> HIDE DEF q
<1>3. q \in Seq(S) /\ Len(q) = n - m /\ \A k \in 1..(n - m) : q[k] = s[m + k]
  BY <1>1, <1>2
<1> QED
  BY <1>3 DEF q

\* How many of the numbers at the places p begin up to m.
LEMMA BegunBy ==
  ASSUME NEW n \in Nat, NEW p, Ascending(p, n), NEW m \in Int
  PROVE  \E k \in 0..n : \A j \in 1..n : p[j] <= m <=> j <= k
<1> DEFINE T == { j \in 1..n : ~(p[j] <= m) }
<1>1. CASE T = {}
  <2>1. n \in 0..n /\ \A j \in 1..n : p[j] <= m <=> j <= n
    BY <1>1
  <2> QED
    BY <2>1
<1>2. CASE T # {}
  <2>1. PICK l \in T : \A j \in T : l <= j
    <3>1. T \in SUBSET Nat
      OBVIOUS
    <3> HIDE DEF T
    <3> QED
      BY <1>2, <3>1, LeastNumber
  <2>2. l - 1 \in 0..n /\ l \in 1..n
    OBVIOUS
  <2>3. ASSUME NEW j \in 1..n PROVE p[j] <= m <=> j <= l - 1
    <3>1. CASE j < l
      <4>1. j \notin T
        BY <2>1, <2>2, <3>1
      <4> QED
        BY <2>2, <3>1, <4>1
    <3>2. CASE j = l
      BY <2>2, <3>2
    <3>3. CASE l < j
      <4>1. PICK pl \in Int, pj \in Int : pl = p[l] /\ pj = p[j]
        BY <2>2 DEF Ascending
      <4>2. pl < pj /\ ~(pl <= m)
        BY <2>2, <3>3, <4>1 DEF Ascending
      <4> QED
        BY <2>2, <3>3, <4>1, <4>2
    <3> QED
      BY <2>2, <3>1, <3>2, <3>3
  <2> QED
    BY <2>2, <2>3
<1> QED
  BY <1>1, <1>2

\* In a first part of a file every run is a number, but the last, which may
\* lack its second part.
LEMMA PrefixRuns ==
  ASSUME NEW s \in Files, NEW x \in Texts, NEW p, Coded(s, x, p), NEW m \in 0..Len(s)
  PROVE  \E n \in 0..Len(x) : \E a, b :
           /\ Runs(SubSeq(s, 1, m), n, a, b)
           /\ m = Len(s) => n = Len(x)
           /\ \A j \in 1..n : /\ a[j] = p[j] /\ b[j] = IF p[j] + 1 <= m THEN p[j] + 1 ELSE p[j]
                              /\ j < n => p[j] + 1 <= m
                              /\ m = Len(s) => p[j] + 1 <= m
<1>1. Len(x) \in Nat /\ Len(s) \in Nat /\ m \in Int
  BY DEF Texts, Files
<1>2. Ascending(p, Len(x))
  <2>1. ASSUME NEW j \in 1..Len(x), NEW k \in 1..Len(x), j < k PROVE p[j] < p[k]
    <3>1. PICK pj \in Int, pk \in Int : pj = p[j] /\ pk = p[k]
      BY DEF Coded
    <3>2. pj + 3 <= pk
      BY <2>1, <3>1 DEF Coded
    <3> QED
      BY <3>1, <3>2
  <2> QED
    BY <2>1 DEF Ascending, Coded
<1>3. PICK n \in 0..Len(x) : \A j \in 1..Len(x) : p[j] <= m <=> j <= n
  BY <1>1, <1>2, BegunBy
<1> DEFINE r == SubSeq(s, 1, m)
           a == [j \in 1..n |-> p[j]]
           b == [j \in 1..n |-> IF p[j] + 1 <= m THEN p[j] + 1 ELSE p[j]]
<1>4. Len(r) = m /\ \A i \in 1..m : r[i] = s[i]
  <2>1. /\ s \in Seq(Digits \cup {SPACE}) /\ 1 <= 1 /\ 1 <= m + 1 /\ m <= Len(s) /\ 1 \in Int
        /\ m - 1 + 1 = m
    BY <1>1 DEF Files
  <2>2. Len(r) = m - 1 + 1 /\ \A i \in 1..(m - 1 + 1) : r[i] = s[1 + i - 1]
    BY <1>1, <2>1, PieceIs
  <2> QED
    BY <1>1, <2>1, <2>2
<1>5. ASSUME NEW j \in 1..n
      PROVE  /\ j \in 1..Len(x) /\ p[j] \in Int /\ 1 <= p[j] /\ p[j] <= m /\ p[j] + 2 <= Len(s)
             /\ Stands(s, p[j], x[j]) /\ s[p[j] + 2] = SPACE
             /\ m = Len(s) => p[j] + 1 <= m
  <2>1. j \in 1..Len(x) /\ j <= n
    BY <1>1
  <2>2. PICK q \in Int : q = p[j]
    BY <2>1 DEF Coded
  <2>3. q >= 1 /\ q + 2 <= Len(s) /\ Stands(s, q, x[j]) /\ s[q + 2] = SPACE /\ q <= m
    BY <1>3, <2>1, <2>2 DEF Coded
  <2>4. m = Len(s) => q + 1 <= m
    BY <1>1, <2>3
  <2> QED
    BY <2>1, <2>2, <2>3, <2>4
<1>6. ASSUME NEW j \in 1..n, NEW k \in 1..n, j < k PROVE p[j] + 3 <= p[k]
  BY <1>5, <1>6 DEF Coded
<1>7. \A j \in 1..n : a[j] = p[j] /\ b[j] = IF p[j] + 1 <= m THEN p[j] + 1 ELSE p[j]
  OBVIOUS
<1>8. a \in [1..n -> Int] /\ b \in [1..n -> Int]
  <2>1. ASSUME NEW j \in 1..n PROVE p[j] \in Int /\ (IF p[j] + 1 <= m THEN p[j] + 1 ELSE p[j]) \in Int
    BY <1>5
  <2> QED
    BY <2>1
<1> HIDE DEF r, a, b
<1>9. ASSUME NEW j \in 1..n
      PROVE  /\ 1 <= a[j] /\ a[j] <= b[j] /\ b[j] <= Len(r)
             /\ j < n => p[j] + 1 <= m
  <2>1. PICK q \in Int : q = p[j]
    BY <1>5
  <2>2. 1 <= q /\ q <= m
    BY <1>5, <2>1
  <2>3. b[j] = (IF q + 1 <= m THEN q + 1 ELSE q) /\ a[j] = q
    BY <1>7, <2>1
  <2>4. ASSUME j < n PROVE q + 1 <= m
    <3>1. n \in 1..n
      BY <1>1, <2>4
    <3>2. PICK l \in Int : l = p[n]
      BY <1>5, <3>1
    <3>3. q + 3 <= l /\ l <= m
      BY <1>5, <1>6, <2>1, <2>4, <3>1, <3>2
    <3> QED
      BY <1>1, <3>3
  <2> QED
    BY <1>1, <1>4, <2>1, <2>2, <2>3, <2>4
<1>10. ASSUME NEW j \in 1..n, NEW k \in 1..n, j < k PROVE b[j] + 1 < a[k]
  <2>1. PICK q \in Int, l \in Int : q = p[j] /\ l = p[k]
    BY <1>5
  <2>2. q + 3 <= l
    BY <1>6, <1>10, <2>1
  <2>3. b[j] = (IF q + 1 <= m THEN q + 1 ELSE q) /\ a[k] = l
    BY <1>7, <2>1
  <2> QED
    BY <2>2, <2>3
<1>11. ASSUME NEW i \in 1..Len(r) PROVE r[i] # SPACE <=> \E j \in 1..n : a[j] <= i /\ i <= b[j]
  <2>1. i \in 1..m /\ i \in 1..Len(s) /\ r[i] = s[i] /\ i \in Int
    BY <1>1, <1>4
  <2>2. ASSUME r[i] # SPACE PROVE \E j \in 1..n : a[j] <= i /\ i <= b[j]
    <3>1. PICK j \in 1..Len(x) : i = p[j] \/ i = p[j] + 1
      BY <2>1, <2>2 DEF Coded
    <3>2. PICK q \in Int : q = p[j]
      BY DEF Coded
    <3>3. q <= m /\ (i = q \/ i = q + 1)
      BY <1>1, <2>1, <3>1, <3>2
    <3>4. j \in 1..n
      BY <1>1, <1>3, <3>2, <3>3
    <3>5. b[j] = (IF q + 1 <= m THEN q + 1 ELSE q) /\ a[j] = q
      BY <1>7, <3>2, <3>4
    <3>6. a[j] <= i /\ i <= b[j]
      BY <1>1, <2>1, <3>3, <3>5
    <3> QED
      BY <3>4, <3>6
  <2>3. ASSUME NEW j \in 1..n, a[j] <= i, i <= b[j] PROVE r[i] # SPACE
    <3>1. PICK q \in Int : q = p[j]
      BY <1>5
    <3>2. b[j] = (IF q + 1 <= m THEN q + 1 ELSE q) /\ a[j] = q
      BY <1>7, <3>1
    <3>3. i = q \/ i = q + 1
      BY <2>1, <2>3, <3>2
    <3>4. Stands(s, q, x[j])
      BY <1>5, <3>1
    <3>5. PICK w \in Word : s[q] = [of |-> w, part |-> 1] /\ s[q+1] = [of |-> w, part |-> 2]
      BY <3>4 DEF Stands
    <3>6. [of |-> w, part |-> 1] \in Digits /\ [of |-> w, part |-> 2] \in Digits /\ SPACE \notin Digits
      BY ByteAssumption DEF Digits
    <3>7. s[i] \in Digits
      BY <3>3, <3>5, <3>6
    <3> QED
      BY <2>1, <3>6, <3>7
  <2> QED
    BY <2>2, <2>3
<1>12. Runs(r, n, a, b)
  BY <1>8, <1>9, <1>10, <1>11 DEF Runs
<1>13. ASSUME m = Len(s) PROVE n = Len(x)
  <2>1. CASE Len(x) = 0
    BY <1>1, <2>1
  <2>2. CASE Len(x) # 0
    <3>1. Len(x) \in 1..Len(x)
      BY <1>1, <2>2
    <3>2. PICK q \in Int : q = p[Len(x)]
      BY <3>1 DEF Coded
    <3>3. q + 2 <= Len(s)
      BY <3>1, <3>2 DEF Coded
    <3>4. q <= m
      BY <1>1, <1>13, <3>3
    <3>5. Len(x) <= n
      BY <1>3, <3>1, <3>2, <3>4
    <3> QED
      BY <1>1, <3>5
  <2> QED
    BY <2>1, <2>2
<1> QED
  BY <1>5, <1>7, <1>9, <1>12, <1>13 DEF r

\* A number that is whole is decoded to the char it stands for.
LEMMA WholeDecoded ==
  ASSUME NEW d \in Seq(Bytes), Len(d) = 2, NEW n \in Word,
         d[1] = [of |-> n, part |-> 1], d[2] = [of |-> n, part |-> 2]
  PROVE  Decoded(d) = AsChar(decode(n, KEY))
<1>1. d[1].of = n
  OBVIOUS
<1>2. d = Number(n)
  <2>1. d = <<d[1], d[2]>>
    <3>1. d[1] \in Bytes /\ d[2] \in Bytes
      BY SMTT(20)
    <3>2. <<d[1], d[2]>> \in Seq(Bytes) /\ Len(<<d[1], d[2]>>) = 2
      BY <3>1
    <3>3. \A i \in 1..Len(d) : i = 1 \/ i = 2
      OBVIOUS
    <3>4. \A i \in 1..Len(d) : d[i] = <<d[1], d[2]>>[i]
      BY <3>3
    <3> QED
      BY <3>2, <3>4, SeqEqual
  <2> QED
    BY <2>1 DEF Number
<1> QED
  BY <1>1, <1>2 DEF Decoded

\* Digits that are not two are no number of the client's.
LEMMA PartDecoded ==
  ASSUME NEW d \in Seq(Bytes), Len(d) = 1
  PROVE  Decoded(d) = CUT
<1>1. Len(Number(d[1].of)) = 2
  BY DEF Number
<1>2. ASSUME d = Number(d[1].of) PROVE FALSE
  <2>1. Len(d) = 2
    BY <1>1, <1>2
  <2> QED
    BY <2>1
<1> QED
  BY <1>2 DEF Decoded



\* What was scanned is a first part of text; at most its last char is wrong.
Reads(scan, text) ==
  /\ scan \in Seq(Word \cup {CUT}) /\ Len(scan) <= Len(text)
  /\ \A j \in 1..Len(scan) : scan[j] = text[j] \/ (j = Len(scan) /\ scan[j] = CUT)

\* The scans of the runs of a piece of a file.
Scans(r, n, a, b) == [j \in 1..n |-> Decoded(SubSeq(r, a[j], b[j]))]

LEMMA FilesAreBytes == Files \subseteq Seq(Bytes) /\ Bytes # {}
BY DEF Files, Bytes

LEMMA PrefixScans ==
  ASSUME NEW s \in Files, NEW x \in Texts, NEW p, Coded(s, x, p), NEW m \in 0..Len(s)
  PROVE  \E n \in 0..Len(x) : \E a, b :
           /\ Runs(SubSeq(s, 1, m), n, a, b)
           /\ Reads(Scans(SubSeq(s, 1, m), n, a, b), x) /\ Len(Scans(SubSeq(s, 1, m), n, a, b)) = n
           /\ m = Len(s) => Scans(SubSeq(s, 1, m), n, a, b) = x
<1> DEFINE r == SubSeq(s, 1, m)
<1>1. PICK n \in 0..Len(x) : \E a, b :
           /\ Runs(r, n, a, b)
           /\ m = Len(s) => n = Len(x)
           /\ \A j \in 1..n : /\ a[j] = p[j] /\ b[j] = IF p[j] + 1 <= m THEN p[j] + 1 ELSE p[j]
                              /\ j < n => p[j] + 1 <= m
                              /\ m = Len(s) => p[j] + 1 <= m
  BY PrefixRuns
<1>2. PICK a, b :
           /\ Runs(r, n, a, b)
           /\ m = Len(s) => n = Len(x)
           /\ \A j \in 1..n : /\ a[j] = p[j] /\ b[j] = IF p[j] + 1 <= m THEN p[j] + 1 ELSE p[j]
                              /\ j < n => p[j] + 1 <= m
                              /\ m = Len(s) => p[j] + 1 <= m
  BY <1>1
<1> DEFINE d == Scans(r, n, a, b)
<1>3. Len(x) \in Nat /\ Len(s) \in Nat /\ m \in Nat /\ n \in Nat /\ \A j \in 1..n : j \in 1..Len(x)
  BY DEF Texts, Files
<1>4. r \in Seq(Bytes) /\ Len(r) = m /\ \A i \in 1..m : r[i] = s[i]
  <2>1. /\ s \in Seq(Bytes) /\ 1 <= 1 /\ 1 <= m + 1 /\ m <= Len(s) /\ 1 \in Int
        /\ m - 1 + 1 = m /\ m \in Int
    BY <1>3, FilesAreBytes
  <2>2. r \in Seq(Bytes) /\ Len(r) = m - 1 + 1 /\ \A i \in 1..(m - 1 + 1) : r[i] = s[1 + i - 1]
    BY <2>1, PieceIs
  <2> QED
    BY <1>3, <2>1, <2>2
<1> HIDE DEF r
<1>5. ASSUME NEW j \in 1..n
      PROVE  LET v == Decoded(SubSeq(r, a[j], b[j])) IN
             /\ x[j] \in Word
             /\ p[j] + 1 <= m => v = x[j]
             /\ ~(p[j] + 1 <= m) => v = CUT
  <2>0. x[j] \in Word
    BY <1>3 DEF Texts
  <2>1. PICK q \in Int : q = p[j]
    BY <1>3 DEF Coded
  <2>2. Stands(s, q, x[j]) /\ 1 <= q /\ a[j] = q /\ b[j] = IF q + 1 <= m THEN q + 1 ELSE q
    BY <1>2, <1>3, <2>1 DEF Coded
  <2>3. q <= m
    <3>1. a[j] <= b[j] /\ b[j] <= m
      BY <1>2, <1>4 DEF Runs
    <3> QED
      BY <1>3, <2>2, <3>1
  <2>4. CASE q + 1 <= m
    <3>1. PICK w \in Word : /\ s[q] = [of |-> w, part |-> 1] /\ s[q+1] = [of |-> w, part |-> 2]
                            /\ AsChar(decode(w, KEY)) = x[j]
      BY <2>2 DEF Stands
    <3> DEFINE d2 == SubSeq(r, q, q + 1)
    <3>2. q \in Int /\ q + 1 \in Int /\ q <= (q + 1) + 1 /\ q + 1 <= Len(r) /\ (q + 1) - q + 1 = 2
      BY <1>4, <2>4
    <3>3. d2 \in Seq(Bytes) /\ Len(d2) = 2 /\ \A i \in 1..2 : d2[i] = r[q + i - 1]
      BY <1>4, <2>2, <3>2, PieceIs
    <3>4. q \in 1..m /\ q + 1 \in 1..m /\ q + 1 - 1 = q /\ q + 2 - 1 = q + 1
      BY <2>2, <2>3, <2>4
    <3>5. d2[1] = s[q] /\ d2[2] = s[q+1]
      <4>1. 1 \in 1..2 /\ 2 \in 1..2
        OBVIOUS
      <4>2. d2[1] = r[q + 1 - 1] /\ d2[2] = r[q + 2 - 1]
        BY <3>3, <4>1
      <4>3. d2[1] = r[q] /\ d2[2] = r[q+1]
        BY <3>4, <4>2
      <4> QED
        BY <1>4, <3>4, <4>3
    <3> HIDE DEF d2
    <3>6. Decoded(d2) = x[j]
      BY <3>1, <3>3, <3>5, WholeDecoded
    <3>7. a[j] = q /\ b[j] = q + 1
      BY <2>2, <2>4
    <3> QED
      BY <2>0, <2>1, <2>4, <3>6, <3>7 DEF d2
  <2>5. CASE ~(q + 1 <= m)
    <3> DEFINE d2 == SubSeq(r, q, q)
    <3>2. q \in Int /\ q <= q + 1 /\ q <= Len(r) /\ q - q + 1 = 1
      BY <1>4, <2>3
    <3>3. d2 \in Seq(Bytes) /\ Len(d2) = 1
      BY <1>4, <2>2, <3>2, PieceIs
    <3> HIDE DEF d2
    <3>6. Decoded(d2) = CUT
      BY <3>3, PartDecoded
    <3>7. a[j] = q /\ b[j] = q
      BY <2>2, <2>5
    <3> QED
      BY <2>0, <2>1, <2>5, <3>6, <3>7 DEF d2
  <2> QED
    BY <2>4, <2>5
<1>6. ASSUME NEW j \in 1..n
      PROVE  /\ d[j] \in Word \cup {CUT}
             /\ d[j] = x[j] \/ (j = n /\ d[j] = CUT)
             /\ m = Len(s) => d[j] = x[j]
  <2>1. d[j] = Decoded(SubSeq(r, a[j], b[j]))
    BY DEF Scans
  <2> HIDE DEF d
  <2>2. (j < n => p[j] + 1 <= m) /\ (m = Len(s) => p[j] + 1 <= m)
    BY <1>2
  <2>3. j < n \/ j = n
    BY <1>3
  <2> QED
    BY <1>5, <2>1, <2>2, <2>3
<1>7. d \in Seq(Word \cup {CUT}) /\ Len(d) = n
  <2>1. d = [j \in 1..n |-> d[j]]
    BY DEF Scans
  <2> HIDE DEF d
  <2> QED
    BY <1>3, <1>6, <2>1
<1> HIDE DEF d
<1>8. Reads(d, x)
  BY <1>3, <1>6, <1>7 DEF Reads
<1>9. ASSUME m = Len(s) PROVE d = x
  <2>1. x \in Seq(Word \cup {CUT}) /\ Len(d) = Len(x)
    BY <1>2, <1>7, <1>9 DEF Texts
  <2>2. \A j \in 1..Len(d) : d[j] = x[j]
    BY <1>6, <1>7, <1>9
  <2> QED
    BY <1>7, <2>1, <2>2, SeqEqual
<1> QED
  BY <1>2, <1>7, <1>8, <1>9 DEF d, r

\* A byte and the piece behind it.
Leads(r, z, t) == r = <<z>> \o t

\* The runs c to d of r are the runs a to b one place on, but for the first of
\* them, and i more.
Led(r, n, i, a, b, c, d) ==
  /\ n + i >= 1 /\ Runs(r, n + i, c, d)
  /\ c[1] = 1
  /\ \A j \in 2..(n + i) : c[j] = a[j - i] + 1 /\ d[j] = b[j - i] + 1

\* A byte in front of a piece that begins no run of its own joins the first one
\* or is one.
LEMMA LeadRuns ==
  ASSUME NEW t \in Seq(Bytes), NEW z \in Bytes, z # SPACE,
         NEW n \in Nat, NEW a, NEW b, Runs(t, n, a, b), NEW r, Leads(r, z, t)
  PROVE  \E i \in {0, 1} : \E c, d : Led(r, n, i, a, b, c, d)
<1> DEFINE N == Len(t)
<1>1. /\ N \in Nat /\ r \in Seq(Bytes) /\ Len(r) = N + 1 /\ r[1] = z
      /\ \A k \in 1..N : r[k + 1] = t[k]
  <2>1. <<z>> \in Seq(Bytes) /\ Len(<<z>>) = 1 /\ <<z>>[1] = z
    OBVIOUS
  <2>2. /\ r \in Seq(Bytes) /\ Len(r) = 1 + N /\ N \in Nat
        /\ \A k \in 1..1 : r[k] = <<z>>[k]
        /\ \A k \in 1..N : r[1 + k] = t[k]
    BY <2>1, JoinedAt DEF Leads
  <2> QED
    BY <2>1, <2>2
<1>2. ASSUME NEW j \in 1..n
      PROVE  a[j] \in Int /\ b[j] \in Int /\ 1 <= a[j] /\ a[j] <= b[j] /\ b[j] <= N
  BY DEF Runs
<1>3. ASSUME NEW j \in 1..n, NEW k \in 1..n, j < k PROVE b[j] + 1 < a[k]
  BY <1>3 DEF Runs
<1>4. ASSUME NEW k \in 1..N PROVE t[k] # SPACE <=> \E j \in 1..n : a[j] <= k /\ k <= b[j]
  BY DEF Runs
<1> DEFINE joins == n >= 1 /\ a[1] = 1
<1>5. CASE joins
  <2> DEFINE c == [j \in 1..n |-> IF j = 1 THEN 1 ELSE a[j] + 1]
             d == [j \in 1..n |-> b[j] + 1]
  <2>1. ASSUME NEW j \in 1..n
        PROVE  /\ c[j] = (IF j = 1 THEN a[j] ELSE a[j] + 1) /\ d[j] = b[j] + 1
               /\ c[j] \in Int /\ d[j] \in Int
    BY <1>2, <1>5
  <2>2. c \in [1..n -> Int] /\ d \in [1..n -> Int] /\ c[1] = 1
    <3>1. \A j \in 1..n : (IF j = 1 THEN 1 ELSE a[j] + 1) \in Int /\ b[j] + 1 \in Int
      BY <1>2
    <3>2. 1 \in 1..n
      BY <1>5
    <3> QED
      BY <3>1, <3>2
  <2> HIDE DEF c, d
  <2>3. ASSUME NEW j \in 1..n PROVE 1 <= c[j] /\ c[j] <= d[j] /\ d[j] <= N + 1
    <3>1. PICK u \in Int, v \in Int : u = a[j] /\ v = b[j]
      BY <1>2
    <3>2. 1 <= u /\ u <= v /\ v <= N
      BY <1>2, <3>1
    <3>3. c[j] = (IF j = 1 THEN u ELSE u + 1) /\ d[j] = v + 1
      BY <2>1, <3>1
    <3> QED
      BY <1>1, <3>2, <3>3
  <2>4. ASSUME NEW j \in 1..n, NEW k \in 1..n, j < k PROVE d[j] + 1 < c[k]
    <3>1. PICK v \in Int, u \in Int : v = b[j] /\ u = a[k]
      BY <1>2
    <3>2. v + 1 < u
      BY <1>3, <2>4, <3>1
    <3>3. c[k] = u + 1 /\ d[j] = v + 1
      BY <2>1, <2>4, <3>1
    <3> QED
      BY <3>2, <3>3
  <2>5. ASSUME NEW l \in 1..(N + 1)
        PROVE  r[l] # SPACE <=> \E j \in 1..n : c[j] <= l /\ l <= d[j]
    <3>1. CASE l = 1
      <4>1. 1 \in 1..n
        BY <1>5
      <4>2. 1 <= d[1] /\ d[1] \in Int
        BY <1>1, <2>1, <2>2, <2>3, <4>1
      <4> QED
        BY <1>1, <2>2, <3>1, <4>1, <4>2
    <3>2. CASE l # 1
      <4>1. PICK k \in 1..N : l = k + 1
        <5>1. l - 1 \in 1..N /\ l = (l - 1) + 1
          BY <1>1, <3>2
        <5> QED
          BY <5>1
      <4>2. r[l] = t[k] /\ k \in Int
        BY <1>1, <4>1
      <4>3. ASSUME NEW j \in 1..n PROVE (a[j] <= k /\ k <= b[j]) <=> (c[j] <= l /\ l <= d[j])
        <5>1. PICK u \in Int, v \in Int : u = a[j] /\ v = b[j]
          BY <1>2
        <5>2. c[j] = (IF j = 1 THEN u ELSE u + 1) /\ d[j] = v + 1
          BY <2>1, <5>1
        <5>3. j = 1 => u = 1
          BY <1>5, <5>1
        <5> QED
          BY <4>1, <4>2, <5>1, <5>2, <5>3
      <4> QED
        BY <1>4, <4>2, <4>3
    <3> QED
      BY <3>1, <3>2
  <2>6. Runs(r, n, c, d)
    BY <1>1, <2>2, <2>3, <2>4, <2>5 DEF Runs
  <2>7. \A j \in 2..n : c[j] = a[j - 0] + 1 /\ d[j] = b[j - 0] + 1
    <3> SUFFICES ASSUME NEW j \in 2..n PROVE c[j] = a[j] + 1 /\ d[j] = b[j] + 1
      OBVIOUS
    <3>1. j \in 1..n /\ j # 1
      OBVIOUS
    <3> QED
      BY <2>1, <3>1
  <2>8. n + 0 = n /\ n + 0 >= 1
    BY <1>5
  <2>9. Led(r, n, 0, a, b, c, d)
    BY <2>2, <2>6, <2>7, <2>8 DEF Led
  <2> QED
    BY <2>9
<1>6. CASE ~joins
  <2> DEFINE c == [j \in 1..(n + 1) |-> IF j = 1 THEN 1 ELSE a[j-1] + 1]
             d == [j \in 1..(n + 1) |-> IF j = 1 THEN 1 ELSE b[j-1] + 1]
  <2>1. ASSUME NEW j \in 1..n
        PROVE  /\ c[j+1] = a[j] + 1 /\ d[j+1] = b[j] + 1
               /\ j + 1 \in 1..(n + 1)
    <3>1. j + 1 \in 1..(n + 1) /\ j + 1 # 1 /\ (j + 1) - 1 = j
      OBVIOUS
    <3> QED
      BY <3>1
  <2>2. c \in [1..(n+1) -> Int] /\ d \in [1..(n+1) -> Int] /\ c[1] = 1 /\ d[1] = 1
    <3>1. ASSUME NEW j \in 1..(n + 1)
          PROVE  /\ (IF j = 1 THEN 1 ELSE a[j-1] + 1) \in Int
                 /\ (IF j = 1 THEN 1 ELSE b[j-1] + 1) \in Int
      <4>1. CASE j # 1
        <5>1. j - 1 \in 1..n
          BY <4>1
        <5> QED
          BY <1>2, <4>1, <5>1
      <4> QED
        BY <4>1
    <3>2. 1 \in 1..(n + 1)
      OBVIOUS
    <3> QED
      BY <3>1, <3>2
  <2> HIDE DEF c, d
  <2>3. \A j \in 1..(n + 1) : j = 1 \/ \E k \in 1..n : j = k + 1
    <3> SUFFICES ASSUME NEW j \in 1..(n + 1), j # 1 PROVE \E k \in 1..n : j = k + 1
      OBVIOUS
    <3>1. j - 1 \in 1..n /\ j = (j - 1) + 1
      OBVIOUS
    <3> QED
      BY <3>1
  <2>4. ASSUME NEW k \in 1..n PROVE a[k] >= 2
    <3>1. 1 \in 1..n
      OBVIOUS
    <3>2. PICK u \in Int, v \in Int, w \in Int : u = a[1] /\ v = b[1] /\ w = a[k]
      BY <1>2, <3>1
    <3>3. 1 <= u /\ u # 1 /\ u <= v
      BY <1>2, <1>6, <3>1, <3>2
    <3>4. k = 1 => w = u
      BY <3>2
    <3>5. 1 < k => v + 1 < w
      BY <1>3, <3>1, <3>2
    <3>6. k = 1 \/ 1 < k
      OBVIOUS
    <3> QED
      BY <3>2, <3>3, <3>4, <3>5, <3>6
  <2>5. ASSUME NEW j \in 1..(n + 1) PROVE 1 <= c[j] /\ c[j] <= d[j] /\ d[j] <= N + 1
    <3>1. CASE j = 1
      BY <1>1, <2>2, <3>1
    <3>2. ASSUME NEW k \in 1..n, j = k + 1 PROVE 1 <= c[j] /\ c[j] <= d[j] /\ d[j] <= N + 1
      <4>1. PICK u \in Int, v \in Int : u = a[k] /\ v = b[k]
        BY <1>2
      <4>2. 1 <= u /\ u <= v /\ v <= N /\ c[j] = u + 1 /\ d[j] = v + 1
        BY <1>2, <2>1, <3>2, <4>1
      <4> QED
        BY <1>1, <4>2
    <3> QED
      BY <2>3, <3>1, <3>2
  <2>6. ASSUME NEW j \in 1..(n + 1), NEW k \in 1..(n + 1), j < k PROVE d[j] + 1 < c[k]
    <3>1. PICK l \in 1..n : k = l + 1
      BY <2>3, <2>6
    <3>2. PICK w \in Int : w = a[l]
      BY <1>2
    <3>3. c[k] = w + 1 /\ w >= 2
      BY <2>1, <2>4, <3>1, <3>2
    <3>4. CASE j = 1
      BY <2>2, <3>3, <3>4
    <3>5. ASSUME NEW i \in 1..n, j = i + 1 PROVE d[j] + 1 < c[k]
      <4>1. PICK v \in Int : v = b[i]
        BY <1>2
      <4>2. i < l
        BY <2>6, <3>1, <3>5
      <4>3. v + 1 < w /\ d[j] = v + 1
        BY <1>3, <2>1, <3>2, <3>5, <4>1, <4>2
      <4> QED
        BY <3>3, <4>3
    <3> QED
      BY <2>3, <3>4, <3>5
  <2>7. ASSUME NEW l \in 1..(N + 1)
        PROVE  r[l] # SPACE <=> \E j \in 1..(n + 1) : c[j] <= l /\ l <= d[j]
    <3>1. CASE l = 1
      <4>1. 1 \in 1..(n + 1)
        OBVIOUS
      <4> QED
        BY <1>1, <2>2, <3>1, <4>1
    <3>2. CASE l # 1
      <4>1. PICK k \in 1..N : l = k + 1
        <5>1. l - 1 \in 1..N /\ l = (l - 1) + 1
          BY <1>1, <3>2
        <5> QED
          BY <5>1
      <4>2. r[l] = t[k] /\ k \in Int /\ l \in Int
        BY <1>1, <4>1
      <4>3. ASSUME NEW j \in 1..n
            PROVE  (a[j] <= k /\ k <= b[j]) <=> (c[j+1] <= l /\ l <= d[j+1])
        <5>1. PICK u \in Int, v \in Int : u = a[j] /\ v = b[j]
          BY <1>2
        <5>2. c[j+1] = u + 1 /\ d[j+1] = v + 1
          BY <2>1, <5>1
        <5> QED
          BY <4>1, <4>2, <5>1, <5>2
      <4>4. ~(l <= d[1])
        BY <2>2, <3>2
      <4>5. (\E j \in 1..(n + 1) : c[j] <= l /\ l <= d[j]) <=> \E j \in 1..n : a[j] <= k /\ k <= b[j]
        <5>1. ASSUME NEW j \in 1..(n + 1), c[j] <= l, l <= d[j]
              PROVE  \E i \in 1..n : a[i] <= k /\ k <= b[i]
          <6>1. PICK i \in 1..n : j = i + 1
            BY <2>3, <4>4, <5>1
          <6> QED
            BY <4>3, <5>1, <6>1
        <5>2. ASSUME NEW j \in 1..n, a[j] <= k, k <= b[j]
              PROVE  \E i \in 1..(n + 1) : c[i] <= l /\ l <= d[i]
          BY <2>1, <4>3, <5>2
        <5> QED
          BY <5>1, <5>2
      <4> QED
        BY <1>4, <4>2, <4>5
    <3> QED
      BY <3>1, <3>2
  <2>8. Runs(r, n + 1, c, d)
    BY <1>1, <2>2, <2>5, <2>6, <2>7 DEF Runs
  <2>9. \A j \in 2..(n + 1) : c[j] = a[j - 1] + 1 /\ d[j] = b[j - 1] + 1
    <3> SUFFICES ASSUME NEW j \in 2..(n + 1) PROVE c[j] = a[j - 1] + 1 /\ d[j] = b[j - 1] + 1
      OBVIOUS
    <3>1. j - 1 \in 1..n /\ (j - 1) + 1 = j
      OBVIOUS
    <3> QED
      BY <2>1, <3>1
  <2>10. n + 1 >= 1
    OBVIOUS
  <2>11. Led(r, n, 1, a, b, c, d)
    BY <2>2, <2>8, <2>9, <2>10 DEF Led
  <2> QED
    BY <2>11
<1> QED
  BY <1>5, <1>6

\* A second part is no beginning of a number.
LEMMA SecondDecoded ==
  ASSUME NEW d \in Seq(Bytes), Len(d) >= 1, NEW w \in Word, d[1] = [of |-> w, part |-> 2]
  PROVE  Decoded(d) = CUT
<1>1. d[1].of = w /\ d[1].part = 2
  OBVIOUS
<1>2. Number(w)[1] = [of |-> w, part |-> 1]
  BY DEF Number
<1>3. ASSUME d = Number(w) PROVE FALSE
  <2>1. d[1] = [of |-> w, part |-> 1]
    BY <1>2, <1>3
  <2>2. d[1].part = 1
    BY <2>1
  <2> QED
    BY <1>1, <2>2
<1> QED
  BY <1>1, <1>3 DEF Decoded

LEMMA PieceTyped ==
  ASSUME NEW s \in Files, NEW m \in 0..Len(s)
  PROVE  /\ SubSeq(s, 1, m) \in Seq(Bytes) /\ Len(SubSeq(s, 1, m)) = m
         /\ \A i \in 1..m : SubSeq(s, 1, m)[i] = s[i]
<1>1. /\ s \in Seq(Bytes) /\ m \in Int /\ 1 \in Int /\ 1 <= 1 /\ 1 <= m + 1 /\ m <= Len(s)
      /\ m - 1 + 1 = m /\ \A i \in 1..m : 1 + i - 1 = i
  BY FilesAreBytes DEF Files
<1>2. /\ SubSeq(s, 1, m) \in Seq(Bytes) /\ Len(SubSeq(s, 1, m)) = m - 1 + 1
      /\ \A i \in 1..(m - 1 + 1) : SubSeq(s, 1, m)[i] = s[1 + i - 1]
  BY <1>1, PieceIs
<1> QED
  BY <1>1, <1>2

LEMMA PrefixOut ==
  ASSUME NEW s \in Files, NEW x \in Texts, NEW p, Coded(s, x, p), NEW m \in 0..Len(s),
         Readable = SubSeq(s, 1, m)
  PROVE  Reads(Scanned, x) /\ (m = Len(s) => Scanned = x)
<1>1. PICK n \in 0..Len(x) : \E a, b :
           /\ Runs(Readable, n, a, b)
           /\ Reads(Scans(Readable, n, a, b), x)
           /\ m = Len(s) => Scans(Readable, n, a, b) = x
  BY PrefixScans
<1>2. PICK a, b :
           /\ Runs(Readable, n, a, b)
           /\ Reads(Scans(Readable, n, a, b), x)
           /\ m = Len(s) => Scans(Readable, n, a, b) = x
  BY <1>1
<1>3. Readable \in Seq(Bytes) /\ n \in Nat
  BY PieceTyped DEF Texts
<1>4. Scanned = Scans(Readable, n, a, b)
  BY <1>2, <1>3, ScansRuns DEF Scans
<1> QED
  BY <1>2, <1>4

\* A piece of scan is a piece of text from place i on; at most its ends are wrong.
Within(scan, text, i) ==
  \A k \in 1..Len(scan) : \/ k \in {1, Len(scan)} /\ scan[k] = CUT
                          \/ k + i \in 1..Len(text) /\ scan[k] = text[k + i]

LEMMA LeadOut ==
  ASSUME NEW s \in Files, NEW x \in Texts, NEW p, Coded(s, x, p), NEW m \in 0..Len(s),
         NEW z \in Bytes, \E w \in Word : z = [of |-> w, part |-> 2],
         Leads(Readable, z, SubSeq(s, 1, m))
  PROVE  /\ Scanned \in Seq(Word \cup {CUT})
         /\ Within(Scanned, x, 0) \/ Within(Scanned, x, -1)
<1> DEFINE t == SubSeq(s, 1, m)
           r == <<z>> \o t
<1>1. PICK n \in 0..Len(x) : \E a, b :
           /\ Runs(t, n, a, b)
           /\ Reads(Scans(t, n, a, b), x) /\ Len(Scans(t, n, a, b)) = n
  BY PrefixScans
<1>2. PICK a, b : Runs(t, n, a, b) /\ Reads(Scans(t, n, a, b), x) /\ Len(Scans(t, n, a, b)) = n
  BY <1>1
<1>3. t \in Seq(Bytes) /\ n \in Nat /\ Len(x) \in Nat
  BY PieceTyped DEF Texts
<1> HIDE DEF t
<1>4. z # SPACE
  <2>1. ASSUME NEW w \in Word PROVE [of |-> w, part |-> 2] # SPACE
    BY ByteAssumption DEF Digits
  <2> QED
    BY <2>1, ByteAssumption
<1>5. PICK i \in {0, 1} : \E c, d : Led(r, n, i, a, b, c, d)
  <2>1. /\ t \in Seq(Bytes) /\ z \in Bytes /\ z # SPACE /\ n \in Nat /\ Runs(t, n, a, b)
        /\ Leads(r, z, t)
    BY <1>2, <1>3, <1>4 DEF Leads
  <2> HIDE DEF r
  <2> QED
    BY <2>1, LeadRuns
<1>6. PICK c, d :
           /\ n + i >= 1 /\ Runs(r, n + i, c, d)
           /\ c[1] = 1
           /\ \A j \in 2..(n + i) : c[j] = a[j - i] + 1 /\ d[j] = b[j - i] + 1
  BY <1>5 DEF Led
<1>7. /\ r \in Seq(Bytes) /\ Len(r) = Len(t) + 1 /\ r[1] = z /\ Len(t) \in Nat
      /\ \A k \in 1..Len(t) : r[k + 1] = t[k]
  <2>1. <<z>> \in Seq(Bytes) /\ Len(<<z>>) = 1 /\ <<z>>[1] = z
    OBVIOUS
  <2>2. /\ r \in Seq(Bytes) /\ Len(r) = 1 + Len(t) /\ Len(t) \in Nat
        /\ \A k \in 1..1 : r[k] = <<z>>[k]
        /\ \A k \in 1..Len(t) : r[1 + k] = t[k]
    BY <1>3, <2>1, JoinedAt
  <2> QED
    BY <2>1, <2>2
<1>8. PICK N \in Nat : N = n + i /\ N >= 1
  BY <1>3, <1>6
<1> DEFINE D == Scans(t, n, a, b)
<1>9. Scanned = Scans(r, N, c, d)
  <2>1. Readable = r
    BY DEF t, Leads
  <2> HIDE DEF r
  <2>2. Readable \in Seq(Bytes) /\ Runs(Readable, N, c, d)
    BY <1>6, <1>7, <1>8, <2>1
  <2>3. Scanned = [j \in 1..N |-> Decoded(SubSeq(Readable, c[j], d[j]))]
    BY <1>8, <2>2, ScansRuns
  <2> QED
    BY <2>1, <2>3 DEF Scans
<1> HIDE DEF r
<1>10. ASSUME NEW k \in 1..N
       PROVE  /\ c[k] \in Int /\ d[k] \in Int /\ 1 <= c[k] /\ c[k] <= d[k] /\ d[k] <= Len(r)
  BY <1>6, <1>8 DEF Runs
<1>11. Scanned[1] = CUT
  <2>1. 1 \in 1..N
    BY <1>8
  <2>2. PICK v \in Int : v = d[1]
    BY <1>10, <2>1
  <2>3. 1 <= v /\ v <= Len(r) /\ 1 \in Int /\ 1 <= 1 /\ 1 <= v + 1 /\ v - 1 + 1 = v
    BY <1>6, <1>10, <2>1, <2>2
  <2> DEFINE q == SubSeq(r, 1, v)
  <2>4. q \in Seq(Bytes) /\ Len(q) = v - 1 + 1 /\ \A l \in 1..(v - 1 + 1) : q[l] = r[1 + l - 1]
    BY <1>7, <2>3, PieceIs
  <2>5. Len(q) >= 1 /\ q[1] = z
    <3>1. 1 \in 1..(v - 1 + 1) /\ 1 + 1 - 1 = 1
      BY <2>3
    <3>2. q[1] = r[1 + 1 - 1]
      BY <2>4, <3>1
    <3> QED
      BY <1>7, <2>3, <2>4, <3>1, <3>2
  <2> HIDE DEF q
  <2>6. Decoded(q) = CUT
    BY <2>4, <2>5, SecondDecoded
  <2>7. Scanned[1] = Decoded(SubSeq(r, c[1], d[1]))
    BY <1>9, <2>1 DEF Scans
  <2> QED
    BY <1>6, <2>2, <2>6, <2>7 DEF q
<1>12. ASSUME NEW k \in 2..N
       PROVE  k - i \in 1..n /\ Scanned[k] = D[k - i]
  <2>1. k \in 1..N /\ k - i \in 1..n
    BY <1>3, <1>8
  <2>2. PICK l \in Int : l = k - i
    OBVIOUS
  <2>3. PICK u \in Int, v \in Int : u = a[l] /\ v = b[l]
    BY <1>2, <2>1, <2>2 DEF Runs
  <2>4. 1 <= u /\ u <= v /\ v <= Len(t)
    BY <1>2, <2>1, <2>2, <2>3 DEF Runs
  <2>5. c[k] = u + 1 /\ d[k] = v + 1
    BY <1>6, <1>8, <2>2, <2>3
  <2> DEFINE q1 == SubSeq(t, u, v)
             q2 == SubSeq(r, u + 1, v + 1)
             M == v - u + 1
  <2>6. M \in Nat /\ (v + 1) - (u + 1) + 1 = M
    BY <2>4
  <2>7. q1 \in Seq(Bytes) /\ Len(q1) = M /\ \A j \in 1..M : q1[j] = t[u + j - 1]
    <3>1. u <= v + 1
      BY <2>4
    <3> QED
      BY <1>3, <2>4, <3>1, PieceIs
  <2>8. q2 \in Seq(Bytes) /\ Len(q2) = M /\ \A j \in 1..M : q2[j] = r[(u + 1) + j - 1]
    <3>1. u + 1 \in Int /\ v + 1 \in Int /\ 1 <= u + 1 /\ u + 1 <= (v + 1) + 1 /\ v + 1 <= Len(r)
      BY <1>7, <2>4
    <3>2. /\ q2 \in Seq(Bytes) /\ Len(q2) = (v + 1) - (u + 1) + 1
          /\ \A j \in 1..((v + 1) - (u + 1) + 1) : q2[j] = r[(u + 1) + j - 1]
      BY <1>7, <3>1, PieceIs
    <3> QED
      BY <2>6, <3>2
  <2>9. ASSUME NEW j \in 1..M PROVE q2[j] = q1[j]
    <3>1. u + j - 1 \in 1..Len(t) /\ (u + 1) + j - 1 = (u + j - 1) + 1
      <4>1. PICK L \in Nat : L = Len(t)
        BY <1>7
      <4>2. v <= L /\ j \in 1..(v - u + 1)
        BY <2>4, <4>1
      <4>3. u + j - 1 \in 1..L /\ (u + 1) + j - 1 = (u + j - 1) + 1
        BY <2>4, <4>2
      <4> QED
        BY <4>1, <4>3
    <3>2. r[(u + j - 1) + 1] = t[u + j - 1]
      BY <1>7, <3>1
    <3>3. q1[j] = t[u + j - 1] /\ q2[j] = r[(u + 1) + j - 1]
      BY <2>7, <2>8
    <3> QED
      BY <3>1, <3>2, <3>3
  <2>10. q2 = q1
    <3> HIDE DEF q1, q2, M
    <3> QED
      BY <2>7, <2>8, <2>9, SeqEqual
  <2>11. Scanned[k] = Decoded(q2)
    BY <1>9, <2>1, <2>5 DEF Scans
  <2>12. D[l] = Decoded(q1)
    BY <2>1, <2>2, <2>3 DEF Scans
  <2> HIDE DEF D, q1, q2
  <2> QED
    BY <2>1, <2>2, <2>10, <2>11, <2>12
<1> HIDE DEF D
<1>13. ASSUME NEW k \in 1..n
       PROVE  /\ D[k] \in Word \cup {CUT} /\ k \in 1..Len(x)
              /\ D[k] = x[k] \/ (k = n /\ D[k] = CUT)
  BY <1>2, <1>3 DEF Reads, D
<1>14. ASSUME NEW k \in 1..N PROVE Scanned[k] \in Word \cup {CUT}
  <2>1. k = 1 \/ k \in 2..N
    OBVIOUS
  <2> QED
    BY <1>11, <1>12, <1>13, <2>1
<1>15. Scanned \in Seq(Word \cup {CUT}) /\ Len(Scanned) = N
  <2>1. Scanned = [k \in 1..N |-> Scanned[k]]
    BY <1>9 DEF Scans
  <2> QED
    BY <1>8, <1>14, <2>1
<1>16. Within(Scanned, x, 0 - i)
  <2> SUFFICES ASSUME NEW k \in 1..N
               PROVE  \/ k \in {1, N} /\ Scanned[k] = CUT
                      \/ k + (0 - i) \in 1..Len(x) /\ Scanned[k] = x[k + (0 - i)]
    BY <1>15 DEF Within
  <2>1. CASE k = 1
    BY <1>11, <2>1
  <2>2. CASE k \in 2..N
    <3>1. k + (0 - i) = k - i /\ k - i \in 1..n /\ Scanned[k] = D[k - i]
      BY <1>12, <2>2
    <3>2. PICK l \in 1..n : l = k - i
      BY <3>1
    <3>3. D[l] = x[l] \/ (l = n /\ D[l] = CUT)
      BY <1>13
    <3>4. l = n => k = N
      BY <1>3, <1>8, <3>2
    <3> QED
      BY <1>13, <3>1, <3>2, <3>3, <3>4
  <2> QED
    BY <2>1, <2>2
<1>17. 0 - i = 0 \/ 0 - i = -1
  OBVIOUS
<1> QED
  BY <1>15, <1>16, <1>17

-----------------------------------------------------------------------------
(* Pieces of pieces.                                                       *)

LEMMA CutAgain ==
  ASSUME NEW S, NEW s \in Seq(S), NEW lo \in Nat, NEW hi \in Nat, lo <= hi, hi <= Len(s),
         NEW i \in Nat, NEW j \in Nat, i <= j, j <= hi - lo
  PROVE  SubSeq(SubSeq(s, lo + 1, hi), i + 1, j) = SubSeq(s, lo + i + 1, lo + j)
<1> DEFINE t == SubSeq(s, lo + 1, hi)
           u == SubSeq(t, i + 1, j)
           v == SubSeq(s, lo + i + 1, lo + j)
<1>1. t \in Seq(S) /\ Len(t) = hi - lo /\ \A k \in 1..(hi - lo) : t[k] = s[lo + k]
  <2>1. /\ lo + 1 \in Int /\ hi \in Int /\ 1 <= lo + 1 /\ lo + 1 <= hi + 1
        /\ hi - (lo + 1) + 1 = hi - lo /\ \A k \in 1..(hi - lo) : (lo + 1) + k - 1 = lo + k
    OBVIOUS
  <2>2. /\ t \in Seq(S) /\ Len(t) = hi - (lo + 1) + 1
        /\ \A k \in 1..(hi - (lo + 1) + 1) : t[k] = s[(lo + 1) + k - 1]
    BY <2>1, PieceIs
  <2> QED
    BY <2>1, <2>2
<1> HIDE DEF t
<1>2. u \in Seq(S) /\ Len(u) = j - i /\ \A k \in 1..(j - i) : u[k] = t[i + k]
  <2>1. /\ i + 1 \in Int /\ j \in Int /\ 1 <= i + 1 /\ i + 1 <= j + 1 /\ j <= Len(t)
        /\ j - (i + 1) + 1 = j - i /\ \A k \in 1..(j - i) : (i + 1) + k - 1 = i + k
    BY <1>1
  <2>2. /\ u \in Seq(S) /\ Len(u) = j - (i + 1) + 1
        /\ \A k \in 1..(j - (i + 1) + 1) : u[k] = t[(i + 1) + k - 1]
    BY <1>1, <2>1, PieceIs
  <2> QED
    BY <2>1, <2>2
<1>3. v \in Seq(S) /\ Len(v) = j - i /\ \A k \in 1..(j - i) : v[k] = s[lo + i + k]
  <2>1. /\ lo + i + 1 \in Int /\ lo + j \in Int /\ 1 <= lo + i + 1 /\ lo + i + 1 <= (lo + j) + 1
        /\ lo + j <= Len(s) /\ (lo + j) - (lo + i + 1) + 1 = j - i
        /\ \A k \in 1..(j - i) : (lo + i + 1) + k - 1 = lo + i + k
    OBVIOUS
  <2>2. /\ v \in Seq(S) /\ Len(v) = (lo + j) - (lo + i + 1) + 1
        /\ \A k \in 1..((lo + j) - (lo + i + 1) + 1) : v[k] = s[(lo + i + 1) + k - 1]
    BY <2>1, PieceIs
  <2> QED
    BY <2>1, <2>2
<1> HIDE DEF u, v
<1>4. ASSUME NEW k \in 1..(j - i) PROVE u[k] = v[k]
  <2>1. i + k \in 1..(hi - lo) /\ lo + (i + k) = lo + i + k
    OBVIOUS
  <2> QED
    BY <1>1, <1>2, <1>3, <2>1
<1>5. u = v
  BY <1>2, <1>3, <1>4, SeqEqual
<1> QED
  BY <1>5 DEF t, u, v

LEMMA Glued ==
  ASSUME NEW S, NEW s \in Seq(S), NEW lo \in Nat, NEW mid \in Nat, NEW hi \in Nat,
         lo <= mid, mid <= hi, hi <= Len(s)
  PROVE  SubSeq(s, lo + 1, mid) \o SubSeq(s, mid + 1, hi) = SubSeq(s, lo + 1, hi)
<1> DEFINE t == SubSeq(s, lo + 1, mid)
           u == SubSeq(s, mid + 1, hi)
           v == SubSeq(s, lo + 1, hi)
<1>1. ASSUME NEW m \in Nat, NEW n \in Nat, m <= n, n <= Len(s)
      PROVE  /\ SubSeq(s, m + 1, n) \in Seq(S) /\ Len(SubSeq(s, m + 1, n)) = n - m
             /\ \A k \in 1..(n - m) : SubSeq(s, m + 1, n)[k] = s[m + k]
  <2>1. /\ m + 1 \in Int /\ n \in Int /\ 1 <= m + 1 /\ m + 1 <= n + 1
        /\ n - (m + 1) + 1 = n - m /\ \A k \in 1..(n - m) : (m + 1) + k - 1 = m + k
    BY <1>1
  <2> DEFINE q == SubSeq(s, m + 1, n)
  <2>2. /\ q \in Seq(S) /\ Len(q) = n - (m + 1) + 1
        /\ \A k \in 1..(n - (m + 1) + 1) : q[k] = s[(m + 1) + k - 1]
    BY <1>1, <2>1, PieceIs
  <2> HIDE DEF q
  <2>3. q \in Seq(S) /\ Len(q) = n - m /\ \A k \in 1..(n - m) : q[k] = s[m + k]
    BY <2>1, <2>2
  <2> QED
    BY <2>3 DEF q
<1>2. t \in Seq(S) /\ Len(t) = mid - lo /\ \A k \in 1..(mid - lo) : t[k] = s[lo + k]
  <2>1. mid <= Len(s)
    OBVIOUS
  <2> QED
    BY <1>1, <2>1
<1>3. u \in Seq(S) /\ Len(u) = hi - mid /\ \A k \in 1..(hi - mid) : u[k] = s[mid + k]
  BY <1>1
<1>4. v \in Seq(S) /\ Len(v) = hi - lo /\ \A k \in 1..(hi - lo) : v[k] = s[lo + k]
  <2>1. lo <= hi
    OBVIOUS
  <2> QED
    BY <1>1, <2>1
<1> HIDE DEF t, u, v
<1> DEFINE w == t \o u
<1>5. /\ w \in Seq(S) /\ Len(w) = Len(t) + Len(u)
      /\ \A k \in 1..Len(t) : w[k] = t[k]
      /\ \A k \in 1..Len(u) : w[Len(t) + k] = u[k]
  <2>1. t \in Seq(S) /\ u \in Seq(S)
    BY <1>2, <1>3
  <2> QED
    BY <2>1, JoinedAt
<1> HIDE DEF w
<1>6. ASSUME NEW k \in 1..(hi - lo) PROVE w[k] = v[k]
  <2>1. CASE k <= mid - lo
    <3>1. k \in 1..(mid - lo)
      BY <2>1
    <3> QED
      BY <1>2, <1>4, <1>5, <3>1
  <2>2. CASE ~(k <= mid - lo)
    <3>1. PICK l \in 1..(hi - mid) : l = k - (mid - lo)
      BY <2>2
    <3>2. k = (mid - lo) + l /\ mid + l = lo + k
      BY <3>1
    <3>3. w[k] = u[l] /\ u[l] = s[mid + l] /\ v[k] = s[lo + k]
      BY <1>2, <1>3, <1>4, <1>5, <3>2
    <3> QED
      BY <3>2, <3>3
  <2> QED
    BY <2>1, <2>2
<1>7. Len(w) = hi - lo
  BY <1>2, <1>3, <1>5
<1>8. w = v
  BY <1>4, <1>5, <1>6, <1>7, SeqEqual
<1> QED
  BY <1>8 DEF t, u, v, w

-----------------------------------------------------------------------------
(* What is decoded of any piece of the encrypted text.                     *)

\* A file from k on is the rest of its text, encoded, perhaps behind a second
\* part without its first.
LEMMA SuffixCoded ==
  ASSUME NEW s \in Files, NEW x \in Texts, NEW p, Coded(s, x, p), NEW k \in 0..Len(s)
  PROVE  \E l \in 0..Len(x), i \in {0, 1} :
           /\ k + i <= Len(s)
           /\ i = 1 => \E w \in Word : s[k + 1] = [of |-> w, part |-> 2]
           /\ k = 0 => l = 0 /\ i = 0
           /\ \E q : Coded(SubSeq(s, k + i + 1, Len(s)), SubSeq(x, l + 1, Len(x)), q)
<1>1. Len(x) \in Nat /\ Len(s) \in Nat /\ k \in Nat /\ k <= Len(s)
  BY DEF Texts, Files
<1>2. ASSUME NEW j \in 1..Len(x)
      PROVE  /\ p[j] \in Int /\ p[j] >= 1 /\ p[j] + 2 <= Len(s)
             /\ Stands(s, p[j], x[j]) /\ s[p[j] + 2] = SPACE
  BY DEF Coded
<1>3. ASSUME NEW j \in 1..Len(x), NEW n \in 1..Len(x), j < n PROVE p[j] + 3 <= p[n]
  BY <1>3 DEF Coded
<1>4. Ascending(p, Len(x))
  <2>1. ASSUME NEW j \in 1..Len(x), NEW n \in 1..Len(x), j < n PROVE p[j] < p[n]
    BY <1>2, <1>3, <2>1
  <2> QED
    BY <2>1 DEF Ascending, Coded
<1>5. PICK l \in 0..Len(x) : \A j \in 1..Len(x) : p[j] <= k <=> j <= l
  <2>1. k \in Int
    OBVIOUS
  <2> QED
    BY <1>1, <1>4, <2>1, BegunBy
<1> DEFINE cut == l >= 1 /\ p[l] = k
           i == IF cut THEN 1 ELSE 0
<1>6. i \in {0, 1} /\ (i = 1 <=> cut)
  OBVIOUS
<1> HIDE DEF i
<1>7. k + i <= Len(s) /\ (i = 1 => \E w \in Word : s[k + 1] = [of |-> w, part |-> 2])
  <2>1. CASE cut
    <3>1. l \in 1..Len(x)
      BY <1>1, <2>1
    <3>2. PICK u \in Int : u = p[l]
      BY <1>2, <3>1
    <3>3. u = k /\ u + 2 <= Len(s) /\ Stands(s, u, x[l])
      BY <1>2, <2>1, <3>1, <3>2
    <3>4. \E w \in Word : s[u + 1] = [of |-> w, part |-> 2]
      BY <3>3 DEF Stands
    <3> QED
      BY <1>1, <1>6, <3>3, <3>4
  <2>2. CASE ~cut
    BY <1>1, <1>6, <2>2
  <2> QED
    BY <2>1, <2>2
<1>8. k = 0 => l = 0 /\ i = 0
  <2>1. ASSUME k = 0, l # 0 PROVE FALSE
    <3>1. 1 \in 1..Len(x) /\ 1 <= l
      BY <1>1, <2>1
    <3>2. p[1] <= k
      BY <1>5, <3>1
    <3> QED
      BY <1>2, <2>1, <3>1, <3>2
  <2> QED
    BY <1>6, <2>1
<1> DEFINE h == k + i
           t == SubSeq(s, h + 1, Len(s))
           y == SubSeq(x, l + 1, Len(x))
           N == Len(x) - l
           M == Len(s) - h
           q == [j \in 1..N |-> p[j + l] - h]
<1>9. h \in Nat /\ M \in Nat /\ N \in Nat
  BY <1>1, <1>6, <1>7
<1>10. Len(t) = M /\ \A j \in 1..M : t[j] = s[h + j]
  <2>1. /\ s \in Seq(Digits \cup {SPACE}) /\ h + 1 \in Int /\ 1 <= h + 1 /\ h + 1 <= Len(s) + 1
        /\ Len(s) - (h + 1) + 1 = M /\ \A j \in 1..M : (h + 1) + j - 1 = h + j
    BY <1>1, <1>7, <1>9 DEF Files
  <2>2. /\ Len(t) = Len(s) - (h + 1) + 1
        /\ \A j \in 1..(Len(s) - (h + 1) + 1) : t[j] = s[(h + 1) + j - 1]
    BY <1>1, <2>1, PieceIs
  <2> HIDE DEF t, M, h
  <2> QED
    BY <2>1, <2>2
<1>11. Len(y) = N /\ \A j \in 1..N : y[j] = x[l + j]
  <2>1. /\ x \in Seq(Word) /\ l \in Nat /\ l <= Len(x) /\ Len(x) \in Nat /\ Len(x) <= Len(x)
    BY <1>1 DEF Texts
  <2> QED
    BY <2>1, PieceFrom
<1>12. ASSUME NEW j \in 1..N
       PROVE  /\ j + l \in 1..Len(x) /\ j + l > l /\ l + j = j + l /\ j \in Int
              /\ p[j + l] \in Int /\ q[j] = p[j + l] - h /\ q[j] \in Int
  <2>1. j + l \in 1..Len(x) /\ j + l > l /\ l + j = j + l /\ j \in Int
    BY <1>1
  <2>2. PICK u \in Int : u = p[j + l]
    BY <1>2, <2>1
  <2>3. q[j] = u - h
    BY <2>2
  <2> HIDE DEF q, h
  <2> QED
    BY <1>9, <2>1, <2>2, <2>3
<1>13. q \in [1..N -> Int]
  <2>1. \A j \in 1..N : p[j + l] - h \in Int
    BY <1>9, <1>12
  <2> QED
    BY <2>1
<1> HIDE DEF q, t, y
<1>14. ASSUME NEW j \in 1..N PROVE p[j + l] >= h + 1
  <2>1. PICK n \in 1..Len(x) : n = j + l /\ n > l
    BY <1>12
  <2>2. PICK v \in Int : v = p[n]
    BY <1>2
  <2>3. ~(v <= k)
    BY <1>1, <1>5, <2>1, <2>2
  <2>4. CASE cut
    <3>1. l \in 1..Len(x) /\ i = 1
      BY <1>1, <1>6, <2>4
    <3>2. PICK u \in Int : u = p[l]
      BY <1>2, <3>1
    <3>3. u + 3 <= v /\ u = k
      BY <1>3, <2>1, <2>2, <2>4, <3>1, <3>2
    <3> QED
      BY <1>1, <2>1, <2>2, <3>1, <3>3
  <2>5. CASE ~cut
    <3>1. i = 0
      BY <1>6, <2>5
    <3> QED
      BY <1>1, <2>1, <2>2, <2>3, <3>1
  <2> QED
    BY <2>4, <2>5
<1>15. ASSUME NEW j \in 1..N
       PROVE  q[j] >= 1 /\ q[j] + 2 <= Len(t) /\ Stands(t, q[j], y[j]) /\ t[q[j] + 2] = SPACE
  <2>1. PICK n \in 1..Len(x) : n = j + l /\ n = l + j
    BY <1>12
  <2>2. PICK v \in Int, u \in Int : v = p[n] /\ u = q[j]
    BY <1>2, <1>12
  <2>3. u = v - h /\ v >= h + 1 /\ v + 2 <= Len(s) /\ Stands(s, v, x[n]) /\ s[v + 2] = SPACE
    BY <1>2, <1>12, <1>14, <2>1, <2>2
  <2> HIDE DEF h
  <2>4. /\ u \in 1..M /\ u + 1 \in 1..M /\ u + 2 \in 1..M
        /\ h + u = v /\ h + (u + 1) = v + 1 /\ h + (u + 2) = v + 2
    BY <1>1, <1>9, <2>3
  <2> HIDE DEF M
  <2>5. t[u] = s[v] /\ t[u + 1] = s[v + 1] /\ t[u + 2] = s[v + 2]
    BY <1>10, <2>4
  <2>6. y[j] = x[n]
    BY <1>11, <2>1
  <2>7. Stands(t, u, y[j])
    BY <2>3, <2>5, <2>6 DEF Stands
  <2>8. u >= 1 /\ u + 2 <= Len(t)
    BY <1>9, <1>10, <2>4
  <2> QED
    BY <2>2, <2>3, <2>5, <2>7, <2>8
<1>16. ASSUME NEW a \in 1..Len(t), t[a] # SPACE PROVE \E j \in 1..N : a = q[j] \/ a = q[j] + 1
  <2>1. a \in 1..M /\ a \in Int
    BY <1>9, <1>10
  <2>2. h + a \in 1..Len(s) /\ s[h + a] # SPACE
    <3>1. h + a \in 1..Len(s)
      BY <1>1, <1>9, <2>1
    <3> QED
      BY <1>10, <1>16, <2>1, <3>1
  <2>3. PICK n \in 1..Len(x) : h + a = p[n] \/ h + a = p[n] + 1
    BY <2>2 DEF Coded
  <2>4. PICK v \in Int : v = p[n]
    BY <1>2
  <2>5. h + a = v \/ h + a = v + 1
    BY <2>3, <2>4
  <2>6. n > l
    <3>1. ASSUME n <= l PROVE FALSE
      <4>1. v <= k
        BY <1>5, <2>4, <3>1
      <4>2. h = k + i /\ a >= 1 /\ k \in Int /\ i \in {0, 1}
        BY <1>1, <1>6, <2>1
      <4> HIDE DEF h
      <4>3. i = 0 /\ v = k
        BY <2>1, <2>5, <4>1, <4>2
      <4>4. n # l /\ n < l
        <5>1. n = l => cut
          <6>1. n >= 1
            BY <2>3
          <6> QED
            BY <2>4, <4>3, <6>1
        <5> QED
          BY <1>6, <3>1, <4>3, <5>1
      <4>5. l \in 1..Len(x)
        BY <1>1, <4>4
      <4>6. PICK u \in Int : u = p[l]
        BY <1>2, <4>5
      <4>7. v + 3 <= u /\ u <= k
        BY <1>3, <1>5, <2>4, <4>4, <4>5, <4>6
      <4> QED
        BY <4>2, <4>3, <4>7
    <3> QED
      BY <3>1
  <2>7. PICK j \in 1..N : n = j + l
    <3>1. n - l \in 1..N /\ n = (n - l) + l
      BY <1>1, <2>6
    <3> QED
      BY <3>1
  <2>8. PICK u \in Int : u = q[j]
    BY <1>12
  <2>9. u = v - h
    BY <1>12, <2>4, <2>7, <2>8
  <2> HIDE DEF h, N
  <2>10. a = u \/ a = u + 1
    BY <1>9, <2>1, <2>5, <2>9
  <2> QED
    BY <2>8, <2>10
<1>17. ASSUME NEW j \in 1..N, NEW n \in 1..N, j < n PROVE q[j] + 3 <= q[n]
  <2>1. PICK a \in 1..Len(x), b \in 1..Len(x) : a = j + l /\ b = n + l
    BY <1>12
  <2>2. PICK u \in Int, v \in Int : u = p[a] /\ v = p[b]
    BY <1>2
  <2>3. a < b
    BY <1>1, <1>17, <2>1
  <2>4. u + 3 <= v
    BY <1>3, <2>2, <2>3
  <2>5. q[j] = u - h /\ q[n] = v - h
    BY <1>12, <2>1, <2>2
  <2> HIDE DEF h
  <2> QED
    BY <1>9, <2>4, <2>5
<1>18. Coded(t, y, q)
  <2>1. \A a \in 1..Len(t) : t[a] = SPACE \/ \E j \in 1..N : a = q[j] \/ a = q[j] + 1
    BY <1>16
  <2> HIDE DEF N, M, h
  <2> QED
    BY <1>11, <1>13, <1>15, <1>17, <2>1 DEF Coded
<1> QED
  BY <1>6, <1>7, <1>8, <1>18 DEF t, y

-----------------------------------------------------------------------------
(* The inductive invariant.  The stream is the block and the file; what the *)
(* first recv() took, what later ones took and what waits are one behind    *)
(* the other in it.                                                         *)

\* All that the client has to say.
Stream == file_size \o encrypted

\* How much of it the server has taken.
Read == header + Len(received)

\* The program and its file.
ClientFile ==
  /\ source \in Sources
  /\ arr \in [1..SENTENCE -> Lines]

  /\ encrypted = IF cpc = "start" THEN <<>> ELSE Encrypted
  /\ offset \in 0..Len(encrypted)
  /\ cpc \in {"start", "connected", "sending"} \cup Over
  /\ cpc \in {"start", "connected"} => offset = 0
  /\ rst \in BOOLEAN
  /\ cpc = "closed" => Left <= 0 \/ rst

\* What the server has read it has read in one piece, and it is counted.
ServerRead ==
  /\ spc \in {"accept", "size", "data", "decode", "ended"}
  /\ spc = "accept" \/ cpc # "start"
  /\ header \in 0..BUFSIZ
  /\ received \in Seq(Bytes) /\ Read <= Len(Stream)
  /\ received = SubSeq(Stream, header + 1, Read)
  /\ remain_data \in Int
  /\ spc \in {"accept", "size"} => header = 0 /\ remain_data = 0
  /\ header = 0 => received = <<>> /\ remain_data \in {0, 1}
  /\ header > 0 => LET s == Len(encrypted) IN
                   /\ remain_data + Len(received) \in {s, 10 * s}
                   /\ header > 1 => remain_data + Len(received) = s
  /\ IF spc = "ended" THEN decoded \in Scannings ELSE decoded = <<>>

\* Until the server closes, what waits follows on what was read, and is all that
\* was sent.
Waits ==
  /\ wire \in Seq(Bytes)
  /\ ~Closed =>
       /\ ~rst
       /\ \E e \in Read..Len(Stream) :
            /\ wire = SubSeq(Stream, Read + 1, e)
            /\ cpc \in {"start", "connected"} => e = 0
            /\ cpc \in {"sending", "closed"} => e = BLOCK + offset
  /\ spc = "data" /\ header = 0 => AtEnd

\* A server that read the size from the block alone closes when it has the file.
WholeFile ==
  Closed /\ header = BLOCK => cpc = "killed" \/ Len(received) = Len(encrypted)

IInv == ClientFile /\ ServerRead /\ Waits /\ WholeFile

LEMMA MinIs ==
  ASSUME NEW x \in Int, NEW y \in Int, x <= y
  PROVE  Min({x, y}) = x
<1>1. x \in {x, y} /\ \A z \in {x, y} : x <= z
  OBVIOUS
<1>2. \A v \in {x, y} : (\A z \in {x, y} : v <= z) => v = x
  OBVIOUS
<1> QED
  BY <1>1, <1>2 DEF Min

\* The block: digits, a zero, and memory that was never written.
LEMMA BlockIs ==
  /\ BLOCK \in Nat /\ BLOCK >= 2 /\ file_size \in Seq(Bytes) /\ Len(file_size) = BLOCK
  /\ file_size[2] = NUL /\ \A i \in 3..BLOCK : file_size[i] = UNWRITTEN
<1> DEFINE start == <<SIZE, NUL>>
           rest == [i \in 1..BLOCK - 2 |-> UNWRITTEN]
<1>1. BLOCK \in Nat /\ BLOCK >= 2 /\ BLOCK - 2 \in Nat
  BY TransferAssumption
<1>2. start \in Seq(Bytes) /\ Len(start) = 2 /\ start[2] = NUL
  BY DEF Bytes
<1>3. rest \in Seq(Bytes) /\ Len(rest) = BLOCK - 2 /\ \A i \in 1..BLOCK - 2 : rest[i] = UNWRITTEN
  BY <1>1 DEF Bytes
<1> DEFINE both == start \o rest
<1>4. file_size = both
  BY DEF file_size
<1> HIDE DEF start, rest
<1>5. /\ file_size \in Seq(Bytes) /\ Len(file_size) = 2 + (BLOCK - 2)
      /\ \A i \in 1..2 : file_size[i] = start[i]
      /\ \A i \in 1..BLOCK - 2 : file_size[2 + i] = rest[i]
  <2>1. /\ both \in Seq(Bytes) /\ Len(both) = Len(start) + Len(rest)
        /\ \A i \in 1..Len(start) : both[i] = start[i]
        /\ \A i \in 1..Len(rest) : both[Len(start) + i] = rest[i]
    <3>1. start \in Seq(Bytes) /\ rest \in Seq(Bytes)
      BY <1>2, <1>3
    <3> QED
      BY <3>1, JoinedAt
  <2> HIDE DEF both
  <2> QED
    BY <1>2, <1>3, <1>4, <2>1
<1>6. ASSUME NEW i \in 3..BLOCK PROVE file_size[i] = UNWRITTEN
  <2>1. PICK k \in 1..BLOCK - 2 : i = 2 + k
    BY <1>1
  <2> QED
    BY <1>3, <1>5, <2>1
<1> QED
  BY <1>1, <1>2, <1>5, <1>6

LEMMA StreamIs ==
  ASSUME ClientFile
  PROVE  /\ encrypted \in Files /\ encrypted \in Seq(Bytes) /\ Len(encrypted) \in Nat
         /\ Stream \in Seq(Bytes) /\ Len(file_size) = BLOCK /\ file_size \in Seq(Bytes)
         /\ BLOCK \in Nat /\ BLOCK >= 2 /\ Len(Stream) = BLOCK + Len(encrypted)
         /\ Stream[2] = NUL /\ \A i \in 3..BLOCK : Stream[i] = UNWRITTEN
         /\ \A i \in 1..Len(encrypted) : Stream[BLOCK + i] = encrypted[i]
         /\ SubSeq(Stream, 1, BLOCK) = file_size
         /\ SubSeq(Stream, BLOCK + 1, BLOCK + Len(encrypted)) = encrypted
         /\ cpc # "start" => Codes(encrypted, Expected)
<1>1. BLOCK \in Nat /\ BLOCK >= 2
  BY BlockIs
<1>2. /\ file_size \in Seq(Bytes) /\ Len(file_size) = BLOCK
      /\ file_size[2] = NUL /\ \A i \in 3..BLOCK : file_size[i] = UNWRITTEN
  BY BlockIs
<1>3. Codes(Encrypted, Expected)
  BY FileCodes DEF ClientFile
<1>4. encrypted \in Files
  BY <1>3 DEF ClientFile, Codes, Files
<1>5. encrypted \in Seq(Bytes) /\ Len(encrypted) \in Nat
  BY <1>4, FilesAreBytes
<1>6. /\ Stream \in Seq(Bytes) /\ Len(Stream) = BLOCK + Len(encrypted)
      /\ \A i \in 1..BLOCK : Stream[i] = file_size[i]
      /\ \A i \in 1..Len(encrypted) : Stream[BLOCK + i] = encrypted[i]
  <2>1. /\ Stream \in Seq(Bytes) /\ Len(Stream) = Len(file_size) + Len(encrypted)
        /\ \A i \in 1..Len(file_size) : Stream[i] = file_size[i]
        /\ \A i \in 1..Len(encrypted) : Stream[Len(file_size) + i] = encrypted[i]
    <3> DEFINE st == file_size \o encrypted
    <3>1. /\ st \in Seq(Bytes) /\ Len(st) = Len(file_size) + Len(encrypted)
          /\ \A i \in 1..Len(file_size) : st[i] = file_size[i]
          /\ \A i \in 1..Len(encrypted) : st[Len(file_size) + i] = encrypted[i]
      <4>1. file_size \in Seq(Bytes) /\ encrypted \in Seq(Bytes)
        BY <1>2, <1>5
      <4> QED
        BY <4>1, JoinedAt
    <3> QED
      BY <3>1 DEF Stream
  <2> QED
    BY <1>2, <2>1
<1>7. Stream[2] = NUL /\ \A i \in 3..BLOCK : Stream[i] = UNWRITTEN
  <2>1. 2 \in 1..BLOCK /\ \A i \in 3..BLOCK : i \in 1..BLOCK
    BY <1>1
  <2> QED
    BY <1>2, <1>6, <2>1
<1>8. SubSeq(Stream, 1, BLOCK) = file_size
  <2> DEFINE t == SubSeq(Stream, 1, BLOCK)
  <2>1. /\ BLOCK <= Len(Stream) /\ BLOCK - 1 + 1 = BLOCK /\ 1 \in Int /\ BLOCK \in Int /\ 1 <= 1 /\ 1 <= BLOCK + 1
        /\ \A i \in 1..BLOCK : 1 + i - 1 = i
    BY <1>1, <1>5, <1>6
  <2>2. t \in Seq(Bytes) /\ Len(t) = BLOCK - 1 + 1 /\ \A i \in 1..(BLOCK - 1 + 1) : t[i] = Stream[1 + i - 1]
    BY <1>6, <2>1, PieceIs
  <2> HIDE DEF t
  <2>3. Len(t) = Len(file_size) /\ \A i \in 1..Len(t) : t[i] = file_size[i]
    BY <1>2, <1>6, <2>1, <2>2
  <2>4. t = file_size
    BY <1>2, <2>2, <2>3, SeqEqual
  <2> QED
    BY <2>4 DEF t
<1>9. SubSeq(Stream, BLOCK + 1, BLOCK + Len(encrypted)) = encrypted
  <2> DEFINE N == Len(encrypted)
             t == SubSeq(Stream, BLOCK + 1, BLOCK + N)
  <2>1. /\ BLOCK + N <= Len(Stream) /\ (BLOCK + N) - (BLOCK + 1) + 1 = N /\ BLOCK + 1 \in Int /\ BLOCK + N \in Int
        /\ 1 <= BLOCK + 1 /\ BLOCK + 1 <= (BLOCK + N) + 1
        /\ \A i \in 1..N : (BLOCK + 1) + i - 1 = BLOCK + i
    BY <1>1, <1>5, <1>6
  <2>2. /\ t \in Seq(Bytes) /\ Len(t) = (BLOCK + N) - (BLOCK + 1) + 1
        /\ \A i \in 1..((BLOCK + N) - (BLOCK + 1) + 1) : t[i] = Stream[(BLOCK + 1) + i - 1]
    BY <1>6, <2>1, PieceIs
  <2> HIDE DEF t
  <2>3. Len(t) = N /\ \A i \in 1..N : t[i] = Stream[BLOCK + i]
    BY <2>1, <2>2
  <2>4. t = encrypted
    BY <1>5, <1>6, <2>2, <2>3, SeqEqual
  <2> QED
    BY <2>4 DEF t
<1> QED
  BY <1>1, <1>2, <1>3, <1>4, <1>5, <1>6, <1>7, <1>8, <1>9 DEF ClientFile

LEMMA EmptyPiece ==
  ASSUME NEW S, NEW s \in Seq(S), NEW n \in Nat, n <= Len(s)
  PROVE  SubSeq(s, n + 1, n) = <<>>
<1>1. n + 1 \in Int /\ n \in Int /\ 1 <= n + 1 /\ n + 1 <= n + 1 /\ n - (n + 1) + 1 = 0
  OBVIOUS
<1>2. SubSeq(s, n + 1, n) \in Seq(S) /\ Len(SubSeq(s, n + 1, n)) = n - (n + 1) + 1
  BY <1>1, PieceIs
<1> QED
  BY <1>1, <1>2

LEMMA InitInv == Init => IInv
<1> SUFFICES ASSUME Init PROVE IInv
  OBVIOUS
<1>1. ClientFile
  <2>1. arr \in [1..SENTENCE -> Lines]
    <3>1. PICK u \in Unread : arr = [i \in 1..SENTENCE |-> IF i <= Len(source) THEN source[i] ELSE u]
      BY DEF Init
    <3>2. source \in Seq(Lines) /\ u \in Lines
      BY TransferAssumption DEF Init
    <3>3. ASSUME NEW i \in 1..SENTENCE PROVE (IF i <= Len(source) THEN source[i] ELSE u) \in Lines
      BY <3>2, TransferAssumption
    <3> QED
      BY <3>1, <3>3
  <2>2. encrypted = <<>> /\ Len(encrypted) = 0
    BY DEF Init
  <2>3. offset \in 0..Len(encrypted) /\ offset = 0
    BY <2>2 DEF Init
  <2>4. source \in Sources
    BY DEF Init
  <2>5. cpc = "start" /\ rst = FALSE /\ encrypted = <<>>
    BY DEF Init
  <2> QED
    BY <2>1, <2>3, <2>4, <2>5 DEF ClientFile
<1>2. ServerRead /\ Waits
  <2>1. received = <<>> /\ header = 0 /\ wire = <<>> /\ Len(received) = 0 /\ Read = 0
    BY DEF Init, Read
  <2>2. Stream \in Seq(Bytes) /\ Len(Stream) \in Nat
    BY <1>1, StreamIs
  <2>3. SubSeq(Stream, 0 + 1, 0) = <<>>
    BY <2>2, EmptyPiece
  <2>4. received \in Seq(Bytes) /\ wire \in Seq(Bytes)
    BY <2>1
  <2>5. ServerRead
    BY <2>1, <2>2, <2>3, <2>4, TransferAssumption DEF Init, ServerRead
  <2>6. 0 \in Read..Len(Stream) /\ wire = SubSeq(Stream, Read + 1, 0)
    BY <2>1, <2>2, <2>3
  <2>7. Waits
    BY <2>4, <2>6 DEF Init, Waits, Closed
  <2> QED
    BY <2>5, <2>7
<1>3. WholeFile
  BY DEF Init, WholeFile, Closed
<1> QED
  BY <1>1, <1>2, <1>3 DEF IInv

LEMMA ScannedSame == ASSUME UNCHANGED received PROVE Scannings' = Scannings
<1>1. Unwritten' = Unwritten
  BY DEF Unwritten
<1>2. Readable' = Readable
  BY <1>1 DEF Readable
<1>3. Scanned' = Scanned
  BY <1>2 DEF Scanned
<1> QED
  BY <1>1, <1>3 DEF Scannings

LEMMA ClientKept ==
  ASSUME ClientFile, UNCHANGED <<clientVars, cpc, rst>>
  PROVE  ClientFile'
BY DEF ClientFile, clientVars, Encrypted, Left

LEMMA ServerKept ==
  ASSUME ServerRead, UNCHANGED <<serverVars, encrypted>>, cpc' # "start" \/ UNCHANGED cpc
  PROVE  ServerRead'
<1>1. UNCHANGED <<spc, remain_data, received, decoded, header, encrypted>>
  BY DEF serverVars
<1>2. Stream' = Stream /\ Read' = Read /\ Scannings' = Scannings
  BY <1>1, ScannedSame DEF Stream, Read
<1> QED
  BY <1>1, <1>2 DEF ServerRead

-----------------------------------------------------------------------------
(* The steps of the client.                                                *)

LEMMA ConnectStep == IInv /\ Connect => IInv'
<1> SUFFICES ASSUME IInv, Connect PROVE IInv'
  OBVIOUS
<1>1. /\ cpc = "start" /\ cpc' = "connected" /\ encrypted' = Encrypted /\ encrypted = <<>>
      /\ UNCHANGED <<source, arr, offset, wire, rst, serverVars>>
      /\ spc = "accept" /\ offset = 0
  BY DEF Connect, IInv, ClientFile, ServerRead
<1>2. UNCHANGED <<spc, remain_data, received, decoded, header>>
  BY <1>1 DEF serverVars
<1>3. header = 0 /\ received = <<>> /\ remain_data = 0 /\ decoded = <<>> /\ Read = 0 /\ Read' = 0
  <2>1. header = 0 /\ received = <<>> /\ remain_data = 0 /\ decoded = <<>>
    BY <1>1 DEF IInv, ServerRead
  <2> QED
    BY <1>2, <2>1 DEF Read
<1>4. Encrypted \in Files /\ Len(Encrypted) \in Nat
  BY FileCodes DEF IInv, ClientFile, Codes, Files
<1>5. ClientFile'
  <2>1. Encrypted' = Encrypted
    BY <1>1 DEF Encrypted
  <2>2. offset' \in 0..Len(encrypted')
    BY <1>1, <1>4
  <2> QED
    BY <1>1, <2>1, <2>2 DEF ClientFile, IInv
<1>6. Stream' \in Seq(Bytes) /\ Len(Stream') \in Nat
  <2>1. Stream' = file_size \o Encrypted
    BY <1>1 DEF Stream
  <2>2. file_size \in Seq(Bytes) /\ Encrypted \in Seq(Bytes)
    BY <1>4, StreamIs, FilesAreBytes DEF IInv
  <2>3. file_size \o Encrypted \in Seq(Bytes)
    BY <2>2, JoinedAt
  <2> QED
    BY <2>1, <2>3
<1>7. SubSeq(Stream', 0 + 1, 0) = <<>>
  BY <1>6, EmptyPiece
<1>8. ServerRead'
  <2>1. Read' <= Len(Stream') /\ received' = SubSeq(Stream', header' + 1, Read')
    BY <1>2, <1>3, <1>6, <1>7
  <2>2. received' \in Seq(Bytes)
    BY <1>2, <1>3
  <2> QED
    BY <1>1, <1>2, <1>3, <2>1, <2>2, TransferAssumption DEF ServerRead
<1>9. Waits'
  <2>1. wire = <<>> /\ ~rst
    <3>1. PICK e \in Read..Len(Stream) : wire = SubSeq(Stream, Read + 1, e) /\ e = 0
      BY <1>1 DEF IInv, Waits, Closed
    <3>2. Stream \in Seq(Bytes) /\ Len(Stream) \in Nat
      BY StreamIs DEF IInv
    <3>3. SubSeq(Stream, 0 + 1, 0) = <<>>
      BY <3>2, EmptyPiece
    <3> QED
      BY <1>1, <1>3, <3>1, <3>3 DEF IInv, Waits, Closed
  <2>2. 0 \in Read'..Len(Stream') /\ wire' = SubSeq(Stream', Read' + 1, 0)
    BY <1>1, <1>3, <1>6, <1>7, <2>1
  <2>3. wire' \in Seq(Bytes) /\ ~rst'
    BY <1>1, <2>1
  <2> QED
    BY <1>1, <1>2, <2>2, <2>3 DEF Waits
<1>10. WholeFile'
  BY <1>1, <1>2 DEF WholeFile, Closed
<1> QED
  BY <1>5, <1>8, <1>9, <1>10 DEF IInv

LEMMA SendSizeStep == IInv /\ SendSize => IInv'
<1> SUFFICES ASSUME IInv, SendSize PROVE IInv'
  OBVIOUS
<1>1. /\ cpc = "connected" /\ cpc' = "sending" /\ wire' = wire \o file_size
      /\ UNCHANGED <<source, arr, encrypted, offset, rst, serverVars>>
      /\ offset = 0
  BY DEF SendSize, IInv, ClientFile, clientVars
<1>2. UNCHANGED <<spc, remain_data, received, decoded, header>>
  BY <1>1 DEF serverVars
<1>3. Stream' = Stream /\ Read' = Read
  BY <1>1, <1>2 DEF Stream, Read
<1>4. ClientFile'
  BY <1>1 DEF IInv, ClientFile, Encrypted
<1>5. ServerRead'
  BY <1>1, ServerKept DEF IInv
<1>6. /\ Stream \in Seq(Bytes) /\ Len(Stream) \in Nat /\ Len(Stream) >= BLOCK /\ BLOCK \in Nat
      /\ Len(file_size) = BLOCK /\ file_size \in Seq(Bytes) /\ SubSeq(Stream, 1, BLOCK) = file_size
  BY StreamIs DEF IInv
<1>7. wire \in Seq(Bytes)
  BY DEF IInv, Waits
<1>8. wire' \in Seq(Bytes)
  BY <1>1, <1>6, <1>7, JoinedAt
<1>9. ASSUME ~Closed PROVE /\ ~rst
                           /\ BLOCK \in Read..Len(Stream) /\ wire' = SubSeq(Stream, Read + 1, BLOCK)
  <2>1. PICK e \in Read..Len(Stream) : wire = SubSeq(Stream, Read + 1, e) /\ e = 0
    BY <1>1, <1>9 DEF IInv, Waits
  <2>2. Read \in Nat
    <3>1. header \in Nat /\ Len(received) \in Nat
      BY TransferAssumption DEF IInv, ServerRead
    <3> QED
      BY <3>1 DEF Read
  <2>3. Read = 0
    BY <2>1, <2>2
  <2>4. wire = <<>>
    <3>1. SubSeq(Stream, 0 + 1, 0) = <<>>
      BY <1>6, EmptyPiece
    <3> QED
      BY <2>1, <2>3, <3>1
  <2>5. wire' = file_size
    BY <1>1, <1>6, <2>4
  <2> QED
    BY <1>6, <1>9, <2>3, <2>5 DEF IInv, Waits
<1>10. spc = "data" => header # 0
  BY <1>1 DEF IInv, Waits, AtEnd, Over
<1>11. Waits'
  <2>1. Closed' <=> Closed
    BY <1>2 DEF Closed
  <2>2. ASSUME ~Closed'
        PROVE  /\ ~rst'
               /\ \E e \in Read'..Len(Stream') :
                    /\ wire' = SubSeq(Stream', Read' + 1, e)
                    /\ cpc' \in {"start", "connected"} => e = 0
                    /\ cpc' \in {"sending", "closed"} => e = BLOCK + offset'
    <3>1. BLOCK \in Read'..Len(Stream') /\ wire' = SubSeq(Stream', Read' + 1, BLOCK) /\ ~rst'
      BY <1>1, <1>3, <1>9, <2>1, <2>2
    <3>2. BLOCK = BLOCK + offset'
      BY <1>1, <1>6
    <3> QED
      BY <1>1, <3>1, <3>2
  <2> QED
    BY <1>2, <1>8, <1>10, <2>2 DEF Waits
<1>12. WholeFile'
  BY <1>1, <1>2 DEF IInv, WholeFile, Closed
<1> QED
  BY <1>4, <1>5, <1>11, <1>12 DEF IInv

LEMMA SendPieceStep == IInv /\ SendPiece => IInv'
<1> SUFFICES ASSUME IInv, SendPiece PROVE IInv'
  OBVIOUS
<1>1. PICK n \in Piece :
        offset' = offset + n /\ wire' = IF Closed THEN wire ELSE wire \o Part(n)
  BY DEF SendPiece
<1>2. /\ cpc = "sending" /\ cpc' = "sending" /\ rst' = Closed
      /\ UNCHANGED <<source, arr, encrypted, serverVars>>
  BY DEF SendPiece
<1>3. UNCHANGED <<spc, remain_data, received, decoded, header>>
  BY <1>2 DEF serverVars
<1>4. Stream' = Stream /\ Read' = Read
  BY <1>2, <1>3 DEF Stream, Read
<1>5. PICK N \in Nat : N = Len(encrypted)
  BY StreamIs DEF IInv
<1>6. n \in Nat /\ offset \in Nat /\ offset + n <= N /\ offset' = offset + n
  BY <1>1, <1>5, TransferAssumption DEF Piece, Left, IInv, ClientFile
<1>7. ClientFile'
  <2>1. offset' \in 0..Len(encrypted')
    BY <1>2, <1>5, <1>6
  <2>2. rst' \in BOOLEAN
    BY <1>2 DEF Closed
  <2> QED
    BY <1>2, <2>1, <2>2 DEF IInv, ClientFile, Encrypted
<1>8. ServerRead'
  BY <1>2, ServerKept DEF IInv
<1>9. /\ Stream \in Seq(Bytes) /\ Len(Stream) = BLOCK + N /\ Len(file_size) = BLOCK /\ BLOCK \in Nat
      /\ encrypted \in Seq(Bytes) /\ SubSeq(Stream, BLOCK + 1, BLOCK + N) = encrypted
  BY <1>5, StreamIs DEF IInv
<1>10. Part(n) = SubSeq(encrypted, offset + 1, offset + n)
  <2>1. Min({offset + n, Len(encrypted)}) = offset + n
    BY <1>5, <1>6, MinIs
  <2> QED
    BY <2>1 DEF Part
<1>11. Part(n) \in Seq(Bytes)
  <2>1. offset + 1 \in Int /\ offset + n \in Int /\ 1 <= offset + 1 /\ offset + 1 <= (offset + n) + 1
    BY <1>6
  <2> QED
    BY <1>5, <1>6, <1>9, <1>10, <2>1, PieceIs
<1>12. wire \in Seq(Bytes) /\ wire' \in Seq(Bytes)
  <2>1. wire \in Seq(Bytes)
    BY DEF IInv, Waits
  <2>2. wire \o Part(n) \in Seq(Bytes)
    BY <1>11, <2>1, JoinedAt
  <2> QED
    BY <1>1, <2>1, <2>2
<1>13. Part(n) = SubSeq(Stream, (BLOCK + offset) + 1, (BLOCK + offset) + n)
  <2>1. /\ BLOCK \in Nat /\ BLOCK + N \in Nat /\ BLOCK <= BLOCK + N /\ BLOCK + N <= Len(Stream)
        /\ offset + n \in Nat /\ offset <= offset + n /\ offset + n <= (BLOCK + N) - BLOCK
    BY <1>6, <1>9
  <2>2. SubSeq(SubSeq(Stream, BLOCK + 1, BLOCK + N), offset + 1, offset + n)
        = SubSeq(Stream, BLOCK + offset + 1, BLOCK + (offset + n))
    BY <1>6, <1>9, <2>1, CutAgain
  <2>3. BLOCK + (offset + n) = (BLOCK + offset) + n
    BY <1>6, <1>9
  <2> QED
    BY <1>9, <1>10, <2>2, <2>3
<1>14. ASSUME ~Closed
       PROVE  /\ ~rst'
              /\ (BLOCK + offset) + n \in Read..Len(Stream)
              /\ wire' = SubSeq(Stream, Read + 1, (BLOCK + offset) + n)
  <2>1. PICK e \in Read..Len(Stream) : wire = SubSeq(Stream, Read + 1, e) /\ e = BLOCK + offset
    BY <1>2, <1>9, <1>14 DEF IInv, Waits
  <2>2. PICK R \in Nat : R = Read
    <3>1. header \in Nat /\ Len(received) \in Nat
      BY TransferAssumption DEF IInv, ServerRead
    <3> QED
      BY <3>1 DEF Read
  <2>3. /\ e \in Nat /\ (BLOCK + offset) + n \in Nat /\ R <= e /\ e <= (BLOCK + offset) + n
        /\ (BLOCK + offset) + n <= Len(Stream) /\ e + n = (BLOCK + offset) + n
    BY <1>6, <1>9, <2>1, <2>2
  <2>4. SubSeq(Stream, R + 1, e) \o SubSeq(Stream, e + 1, (BLOCK + offset) + n)
        = SubSeq(Stream, R + 1, (BLOCK + offset) + n)
    <3>1. PICK k \in Nat : k = (BLOCK + offset) + n
      BY <2>3
    <3>2. Stream \in Seq(Bytes) /\ R <= e /\ e <= k /\ k <= Len(Stream) /\ e \in Nat
      BY <1>9, <2>3, <3>1
    <3>3. SubSeq(Stream, R + 1, e) \o SubSeq(Stream, e + 1, k) = SubSeq(Stream, R + 1, k)
      BY <3>2, Glued
    <3> QED
      BY <3>1, <3>3
  <2>5. wire' = wire \o Part(n)
    BY <1>1, <1>14
  <2> QED
    <3>1. PICK k \in Nat : k = (BLOCK + offset) + n
      BY <2>3
    <3>2. wire = SubSeq(Stream, R + 1, e) /\ Part(n) = SubSeq(Stream, e + 1, k)
      BY <1>13, <2>1, <2>2, <3>1
    <3>3. wire' = SubSeq(Stream, R + 1, k)
      BY <2>4, <2>5, <3>1, <3>2
    <3>4. k \in R..Len(Stream)
      BY <1>9, <2>2, <2>3, <3>1
    <3> QED
      BY <1>2, <1>14, <2>2, <3>1, <3>3, <3>4
<1>15. spc = "data" => header # 0
  BY <1>2 DEF IInv, Waits, AtEnd, Over
<1>16. Waits'
  <2>1. Closed' <=> Closed
    BY <1>3 DEF Closed
  <2>2. ASSUME ~Closed'
        PROVE  /\ ~rst'
               /\ \E e \in Read'..Len(Stream') :
                    /\ wire' = SubSeq(Stream', Read' + 1, e)
                    /\ cpc' \in {"start", "connected"} => e = 0
                    /\ cpc' \in {"sending", "closed"} => e = BLOCK + offset'
    <3>1. PICK k \in Nat : k = (BLOCK + offset) + n
      BY <1>6, <1>9
    <3>2. k \in Read'..Len(Stream') /\ wire' = SubSeq(Stream', Read' + 1, k) /\ ~rst'
      BY <1>4, <1>14, <2>1, <2>2, <3>1
    <3>3. k = BLOCK + offset'
      BY <1>2, <1>6, <1>9, <3>1
    <3> QED
      BY <1>2, <3>2, <3>3
  <2> QED
    BY <1>3, <1>12, <1>15, <2>2 DEF Waits
<1>17. WholeFile'
  BY <1>2, <1>3 DEF IInv, WholeFile, Closed
<1> QED
  BY <1>7, <1>8, <1>16, <1>17 DEF IInv

LEMMA ClientEndsStep == IInv /\ (CloseClient \/ Kill) => IInv'
<1> SUFFICES ASSUME IInv, CloseClient \/ Kill PROVE IInv'
  OBVIOUS
<1>1. /\ cpc \in {"connected", "sending"}
      /\ \/ cpc = "sending" /\ cpc' = "closed" /\ (Left <= 0 \/ rst)
         \/ cpc' = "killed"
      /\ UNCHANGED <<source, arr, encrypted, offset, wire, rst, serverVars>>
  BY DEF CloseClient, Kill, Sent, clientVars
<1>2. UNCHANGED <<spc, remain_data, received, decoded, header>>
  BY <1>1 DEF serverVars
<1>3. Stream' = Stream /\ Read' = Read /\ Left' = Left
  BY <1>1, <1>2 DEF Stream, Read, Left
<1>4. ClientFile'
  BY <1>1, <1>3 DEF IInv, ClientFile, Encrypted, Over
<1>5. ServerRead'
  <2>1. cpc' # "start"
    BY <1>1
  <2> QED
    BY <1>1, <2>1, ServerKept DEF IInv
<1>6. Waits'
  <2>1. Closed' <=> Closed
    BY <1>2 DEF Closed
  <2>2. ASSUME ~Closed'
        PROVE  /\ ~rst'
               /\ \E e \in Read'..Len(Stream') :
                    /\ wire' = SubSeq(Stream', Read' + 1, e)
                    /\ cpc' \in {"start", "connected"} => e = 0
                    /\ cpc' \in {"sending", "closed"} => e = BLOCK + offset'
    <3>1. PICK e \in Read..Len(Stream) :
            /\ wire = SubSeq(Stream, Read + 1, e)
            /\ cpc \in {"sending", "closed"} => e = BLOCK + offset
      BY <2>1, <2>2 DEF IInv, Waits
    <3>2. ~rst'
      BY <1>1, <2>1, <2>2 DEF IInv, Waits
    <3>3. cpc' \in {"sending", "closed"} => cpc = "sending"
      BY <1>1
    <3>4. cpc' \notin {"start", "connected"}
      BY <1>1
    <3> QED
      BY <1>1, <1>3, <3>1, <3>2, <3>3, <3>4
  <2>3. wire' \in Seq(Bytes)
    BY <1>1 DEF IInv, Waits
  <2>4. spc' = "data" => header' # 0
    BY <1>1, <1>2 DEF IInv, Waits, AtEnd, Over
  <2> QED
    BY <2>2, <2>3, <2>4 DEF Waits
<1>7. WholeFile'
  BY <1>1, <1>2 DEF IInv, WholeFile, Closed
<1> QED
  BY <1>4, <1>5, <1>6, <1>7 DEF IInv

-----------------------------------------------------------------------------
(* The steps of the server.                                                *)

LEMMA AcceptStep == IInv /\ Accept => IInv'
<1> SUFFICES ASSUME IInv, Accept PROVE IInv'
  OBVIOUS
<1>1. /\ spc = "accept" /\ spc' = "size" /\ cpc # "start"
      /\ UNCHANGED <<clientVars, cpc, wire, rst, remain_data, received, decoded, header>>
  BY DEF Accept
<1>2. UNCHANGED <<encrypted, offset>>
  BY <1>1 DEF clientVars
<1>3. Stream' = Stream /\ Read' = Read
  BY <1>1, <1>2 DEF Stream, Read
<1>4. ClientFile'
  BY <1>1, ClientKept DEF IInv
<1>5. ServerRead'
  BY <1>1, <1>2, <1>3 DEF IInv, ServerRead
<1>6. Waits'
  BY <1>1, <1>2, <1>3 DEF IInv, Waits, Closed
<1>7. WholeFile'
  BY <1>1 DEF WholeFile, Closed
<1> QED
  BY <1>4, <1>5, <1>6, <1>7 DEF IInv

LEMMA ReadTyped ==
  ASSUME IInv
  PROVE  header \in Nat /\ Len(received) \in Nat /\ Read \in Nat /\ Read = header + Len(received)
<1>1. header \in Nat /\ Len(received) \in Nat
  BY TransferAssumption DEF IInv, ServerRead
<1> QED
  BY <1>1 DEF Read

\* What waits begins with what one recv() takes of it.
LEMMA TakenFirst ==
  ASSUME IInv, ~Closed, NEW n \in Taken
  PROVE  \E e \in Nat :
           /\ Read + n <= e /\ e <= Len(Stream) /\ n \in Nat /\ 0 < n
           /\ SubSeq(wire, 1, n) = SubSeq(Stream, Read + 1, Read + n)
           /\ SubSeq(wire, n + 1, Len(wire)) = SubSeq(Stream, (Read + n) + 1, e)
           /\ wire = SubSeq(Stream, Read + 1, e)
           /\ cpc \in {"start", "connected"} => e = 0
           /\ cpc \in {"sending", "closed"} => e = BLOCK + offset
<1>1. PICK e \in Read..Len(Stream) :
        /\ wire = SubSeq(Stream, Read + 1, e)
        /\ cpc \in {"start", "connected"} => e = 0
        /\ cpc \in {"sending", "closed"} => e = BLOCK + offset
  BY DEF IInv, Waits
<1>2. Stream \in Seq(Bytes) /\ Len(Stream) \in Nat /\ Len(file_size) = BLOCK
  BY StreamIs DEF IInv
<1>3. PICK R \in Nat : R = Read
  BY ReadTyped
<1>4. e \in Nat /\ R <= e /\ e <= Len(Stream)
  BY <1>1, <1>2, <1>3
<1>5. Len(wire) = e - R
  <2>1. /\ R + 1 \in Int /\ e \in Int /\ 1 <= R + 1 /\ R + 1 <= e + 1 /\ e - (R + 1) + 1 = e - R
    BY <1>4
  <2>2. Len(SubSeq(Stream, R + 1, e)) = e - (R + 1) + 1
    BY <1>2, <1>4, <2>1, PieceIs
  <2> QED
    BY <1>1, <1>3, <2>1, <2>2
<1>6. n \in Nat /\ 0 < n /\ n <= e - R
  BY <1>5, TransferAssumption DEF Taken
<1>7. SubSeq(wire, 1, n) = SubSeq(Stream, R + 1, R + n)
  <2>1. SubSeq(SubSeq(Stream, R + 1, e), 0 + 1, n) = SubSeq(Stream, R + 0 + 1, R + n)
    BY <1>2, <1>4, <1>6, CutAgain
  <2>2. R + 0 + 1 = R + 1 /\ 0 + 1 = 1
    OBVIOUS
  <2> QED
    BY <1>1, <1>3, <2>1, <2>2
<1>8. SubSeq(wire, n + 1, Len(wire)) = SubSeq(Stream, (R + n) + 1, e)
  <2>1. e - R \in Nat /\ n <= e - R /\ e - R <= e - R /\ R + (e - R) = e
    BY <1>4, <1>6
  <2>2. SubSeq(SubSeq(Stream, R + 1, e), n + 1, e - R) = SubSeq(Stream, R + n + 1, R + (e - R))
    BY <1>2, <1>4, <1>6, <2>1, CutAgain
  <2> QED
    BY <1>1, <1>3, <1>5, <2>1, <2>2
<1>9. R + n <= e
  BY <1>4, <1>6
<1> QED
  BY <1>1, <1>2, <1>3, <1>4, <1>6, <1>7, <1>8, <1>9

\* The rest of the stream waits on after a recv().
LEMMA StillWaits ==
  ASSUME IInv, ~Closed, UNCHANGED <<clientVars, cpc, rst>>, NEW n \in Taken,
         wire' = SubSeq(wire, n + 1, Len(wire)), Read' = Read + n,
         spc' = "data", header' # 0
  PROVE  Waits'
<1>1. PICK e \in Nat :
           /\ Read + n <= e /\ e <= Len(Stream) /\ n \in Nat /\ 0 < n
           /\ SubSeq(wire, n + 1, Len(wire)) = SubSeq(Stream, (Read + n) + 1, e)
           /\ cpc \in {"start", "connected"} => e = 0
           /\ cpc \in {"sending", "closed"} => e = BLOCK + offset
  BY TakenFirst
<1>2. UNCHANGED <<encrypted, offset>> /\ Stream' = Stream
  BY DEF clientVars, Stream
<1>3. Stream \in Seq(Bytes) /\ Len(Stream) \in Nat /\ Len(file_size) = BLOCK /\ Read \in Nat
  BY StreamIs, ReadTyped DEF IInv
<1>4. PICK R \in Nat : R = Read + n
  BY <1>1, <1>3
<1>5. wire' = SubSeq(Stream', Read' + 1, e)
  BY <1>1, <1>2
<1>6. e \in Read'..Len(Stream')
  BY <1>1, <1>2, <1>3, <1>4
<1>7. wire' \in Seq(Bytes)
  <2>1. R + 1 \in Int /\ e \in Int /\ 1 <= R + 1 /\ R + 1 <= e + 1 /\ e <= Len(Stream)
    BY <1>1, <1>4
  <2>2. SubSeq(Stream, R + 1, e) \in Seq(Bytes)
    BY <1>3, <2>1, PieceIs
  <2> QED
    BY <1>1, <1>4, <2>2
<1>8. ~rst'
  BY DEF IInv, Waits
<1>9. /\ cpc' \in {"start", "connected"} => e = 0
      /\ cpc' \in {"sending", "closed"} => e = BLOCK + offset'
  BY <1>1, <1>2, <1>3
<1> QED
  BY <1>5, <1>6, <1>7, <1>8, <1>9 DEF Waits

LEMMA RecvSizeStep == IInv /\ RecvSize => IInv'
<1> SUFFICES ASSUME IInv, RecvSize PROVE IInv'
  OBVIOUS
<1>1. /\ spc = "size" /\ spc' = "data"
      /\ UNCHANGED <<clientVars, cpc, rst, received, decoded>>
      /\ ~Closed /\ cpc # "start"
  BY DEF RecvSize, Closed, IInv, ServerRead
<1>2. UNCHANGED <<encrypted, offset>>
  BY <1>1 DEF clientVars
<1>3. Stream' = Stream
  BY <1>2 DEF Stream
<1>4. header = 0 /\ received = <<>> /\ decoded = <<>> /\ Len(received) = 0 /\ Read = 0 /\ Len(received') = 0
  <2>1. header = 0 /\ received = <<>> /\ decoded = <<>>
    BY <1>1 DEF IInv, ServerRead
  <2> QED
    BY <1>1, <2>1 DEF Read
<1>5. Stream \in Seq(Bytes) /\ Len(Stream) \in Nat /\ Len(encrypted) \in Nat
  BY StreamIs DEF IInv
<1>6. ClientFile'
  BY <1>1, ClientKept DEF IInv
<1>7. WholeFile'
  BY <1>1 DEF WholeFile, Closed
<1>8. ASSUME NEW n \in Taken, remain_data' \in SizesRead(n),
             wire' = SubSeq(wire, n + 1, Len(wire)), header' = n
      PROVE  IInv'
  <2>1. PICK e \in Nat : Read + n <= e /\ e <= Len(Stream) /\ n \in Nat /\ 0 < n
    BY <1>1, TakenFirst
  <2>2. n \in 1..BUFSIZ /\ n <= Len(Stream) /\ Read' = n /\ n \in Nat
    <3>1. n \in 1..BUFSIZ
      BY DEF Taken
    <3>2. Read' = header' + Len(received')
      BY DEF Read
    <3>3. n \in Nat /\ n <= Len(Stream)
      BY <1>4, <1>5, <2>1
    <3> QED
      BY <1>4, <1>8, <3>1, <3>2, <3>3
  <2>3. Waits'
    <3>1. Read' = Read + n /\ header' # 0
      BY <1>4, <1>8, <2>2
    <3> QED
      BY <1>1, <1>8, <3>1, StillWaits
  <2>4. SubSeq(Stream, n + 1, n) = <<>>
    BY <1>5, <2>2, EmptyPiece
  <2>5. ServerRead'
    <3>1. header' \in 0..BUFSIZ /\ header' > 0 /\ header' # 0
      BY <1>8, <2>2, TransferAssumption
    <3>2. received' \in Seq(Bytes) /\ received' = <<>>
      BY <1>1, <1>4
    <3>3. Read' <= Len(Stream') /\ received' = SubSeq(Stream', header' + 1, Read')
      BY <1>3, <1>8, <2>2, <2>4, <3>2
    <3>4. /\ remain_data' \in Int
          /\ remain_data' + Len(received') \in {Len(encrypted'), 10 * Len(encrypted')}
          /\ header' > 1 => remain_data' + Len(received') = Len(encrypted')
      <4>1. /\ remain_data' \in {Len(encrypted), 10 * Len(encrypted)}
            /\ n > 1 => remain_data' = Len(encrypted)
        BY <1>8, <2>2 DEF SizesRead
      <4>2. PICK s \in Nat : s = Len(encrypted)
        BY <1>5
      <4>3. remain_data' + 0 = remain_data'
        BY <4>1, <4>2
      <4> QED
        BY <1>2, <1>4, <1>8, <4>1, <4>2, <4>3
    <3>5. decoded' = <<>> /\ cpc' # "start"
      BY <1>1, <1>4
    <3> QED
      BY <1>1, <3>1, <3>2, <3>3, <3>4, <3>5 DEF ServerRead
  <2> QED
    BY <1>6, <1>7, <2>3, <2>5 DEF IInv
<1>9. ASSUME AtEnd, remain_data' \in {0, 1}, UNCHANGED <<wire, header>>
      PROVE  IInv'
  <2>1. Read' = Read /\ Read' = 0 /\ header' = 0
    BY <1>1, <1>4, <1>9 DEF Read
  <2>2. ServerRead'
    <3>1. SubSeq(Stream, 0 + 1, 0) = <<>>
      BY <1>5, EmptyPiece
    <3>2. received' = SubSeq(Stream', header' + 1, Read') /\ received' = <<>> /\ received' \in Seq(Bytes)
      BY <1>1, <1>3, <1>4, <2>1, <3>1
    <3>3. Read' <= Len(Stream')
      BY <1>3, <1>5, <2>1
    <3> QED
      BY <1>1, <1>4, <1>9, <2>1, <3>2, <3>3, TransferAssumption DEF ServerRead
  <2>3. Waits'
    <3>1. AtEnd'
      BY <1>1, <1>9 DEF AtEnd
    <3>2. PICK k \in Read..Len(Stream) :
            /\ wire = SubSeq(Stream, Read + 1, k)
            /\ cpc \in {"start", "connected"} => k = 0
            /\ cpc \in {"sending", "closed"} => k = BLOCK + offset
      BY <1>1 DEF IInv, Waits
    <3>3. wire \in Seq(Bytes) /\ ~rst
      BY <1>1 DEF IInv, Waits
    <3> QED
      BY <1>1, <1>2, <1>3, <1>9, <2>1, <3>1, <3>2, <3>3 DEF Waits
  <2> QED
    BY <1>6, <1>7, <2>2, <2>3 DEF IInv
<1> QED
  BY <1>8, <1>9 DEF RecvSize

LEMMA RecvDataStep == IInv /\ RecvData => IInv'
<1> SUFFICES ASSUME IInv, RecvData PROVE IInv'
  OBVIOUS
<1>1. /\ spc = "data" /\ spc' = "data" /\ header' = header /\ decoded' = decoded
      /\ UNCHANGED <<clientVars, cpc, rst>>
      /\ ~Closed /\ cpc # "start"
  BY DEF RecvData, Closed, IInv, ServerRead
<1>2. PICK n \in Taken :
       /\ received' = received \o SubSeq(wire, 1, n)
       /\ remain_data' = remain_data - n
       /\ wire' = SubSeq(wire, n + 1, Len(wire))
  BY DEF RecvData
<1>3. UNCHANGED <<encrypted, offset>> /\ Stream' = Stream
  BY <1>1 DEF clientVars, Stream
<1>4. PICK e \in Nat :
           /\ Read + n <= e /\ e <= Len(Stream) /\ n \in Nat /\ 0 < n
           /\ SubSeq(wire, 1, n) = SubSeq(Stream, Read + 1, Read + n)
           /\ wire = SubSeq(Stream, Read + 1, e)
  BY <1>1, TakenFirst
<1>5. Stream \in Seq(Bytes) /\ Len(Stream) \in Nat /\ Len(encrypted) \in Nat
  BY StreamIs DEF IInv
<1>6. PICK R \in Nat, H \in Nat, L \in Nat :
        R = Read /\ H = header /\ L = Len(received) /\ R = H + L
  BY ReadTyped
<1>7. header # 0 /\ H > 0
  <2>1. wire # <<>>
    <3>1. n <= Len(wire) /\ 0 < n /\ n \in Nat
      BY <1>2, <1>4 DEF Taken
    <3>2. Len(<<>>) = 0
      OBVIOUS
    <3> QED
      BY <3>1, <3>2
  <2> QED
    BY <1>1, <1>2, <1>6, <2>1 DEF IInv, Waits, AtEnd
<1>8. received' = SubSeq(Stream, H + 1, R + n)
  <2>1. received = SubSeq(Stream, H + 1, R)
    BY <1>6 DEF IInv, ServerRead
  <2>2. R + n \in Nat /\ H <= R /\ R <= R + n /\ R + n <= Len(Stream)
    BY <1>4, <1>5, <1>6
  <2>3. SubSeq(Stream, H + 1, R) \o SubSeq(Stream, R + 1, R + n) = SubSeq(Stream, H + 1, R + n)
    <3>1. PICK k \in Nat : k = R + n
      BY <2>2
    <3>2. SubSeq(Stream, H + 1, R) \o SubSeq(Stream, R + 1, k) = SubSeq(Stream, H + 1, k)
      <4>1. H <= R /\ R <= k /\ k <= Len(Stream) /\ Stream \in Seq(Bytes)
        BY <1>5, <2>2, <3>1
      <4> QED
        BY <4>1, Glued
    <3> QED
      BY <3>1, <3>2
  <2> QED
    BY <1>2, <1>4, <1>6, <2>1, <2>3
<1>9. received' \in Seq(Bytes) /\ Len(received') = L + n
  <2>1. /\ H + 1 \in Int /\ R + n \in Int /\ 1 <= H + 1 /\ H + 1 <= (R + n) + 1 /\ R + n <= Len(Stream)
        /\ (R + n) - (H + 1) + 1 = L + n
    BY <1>4, <1>5, <1>6
  <2>2. /\ SubSeq(Stream, H + 1, R + n) \in Seq(Bytes)
        /\ Len(SubSeq(Stream, H + 1, R + n)) = (R + n) - (H + 1) + 1
    BY <1>5, <2>1, PieceIs
  <2> QED
    BY <1>8, <2>1, <2>2
<1>10. Read' = R + n
  <2>1. Read' = H + (L + n)
    BY <1>1, <1>6, <1>9 DEF Read
  <2> QED
    BY <1>4, <1>6, <2>1
<1>11. ClientFile'
  BY <1>1, ClientKept DEF IInv
<1>12. Waits'
  BY <1>1, <1>2, <1>6, <1>7, <1>10, StillWaits
<1>13. WholeFile'
  BY <1>1 DEF WholeFile, Closed
<1>14. ServerRead'
  <2>1. Read' <= Len(Stream') /\ received' = SubSeq(Stream', header' + 1, Read')
    BY <1>1, <1>3, <1>4, <1>6, <1>8, <1>10
  <2>2. remain_data' + Len(received') = remain_data + Len(received)
    <3>2. remain_data \in Int
      BY DEF IInv, ServerRead
    <3>3. PICK m \in Int : m = remain_data
      BY <3>2
    <3>4. remain_data' = m - n /\ Len(received') = L + n /\ n \in Nat
      BY <1>2, <1>4, <1>9, <3>3
    <3>5. (m - n) + (L + n) = m + L
      BY <3>4
    <3> QED
      BY <1>6, <3>3, <3>4, <3>5
  <2>3. /\ remain_data' + Len(received') \in {Len(encrypted'), 10 * Len(encrypted')}
        /\ header' > 1 => remain_data' + Len(received') = Len(encrypted')
    BY <1>1, <1>3, <1>6, <1>7, <2>2 DEF IInv, ServerRead
  <2>4. header' \in 0..BUFSIZ /\ header' # 0
    BY <1>1, <1>7 DEF IInv, ServerRead
  <2>5. decoded' = <<>>
    BY <1>1 DEF IInv, ServerRead
  <2>6. remain_data' \in Int
    BY <1>2, <1>4 DEF IInv, ServerRead
  <2> QED
    BY <1>1, <1>9, <2>1, <2>3, <2>4, <2>5, <2>6 DEF ServerRead
<1> QED
  BY <1>11, <1>12, <1>13, <1>14 DEF IInv

LEMMA CloseServerStep == IInv /\ CloseServer => IInv'
<1> SUFFICES ASSUME IInv, CloseServer PROVE IInv'
  OBVIOUS
<1>1. /\ spc = "data" /\ spc' = "decode" /\ rst' = (wire # <<>>) /\ (remain_data <= 0 \/ AtEnd)
      /\ UNCHANGED <<clientVars, cpc, wire, remain_data, received, decoded, header>>
      /\ ~Closed /\ ~rst
  BY DEF CloseServer, HasAll, Closed, IInv, Waits
<1>2. UNCHANGED <<source, arr, encrypted, offset>>
  BY <1>1 DEF clientVars
<1>3. Stream' = Stream /\ Read' = Read
  BY <1>1, <1>2 DEF Stream, Read
<1>4. ClientFile'
  <2>1. cpc = "closed" => Left <= 0
    BY <1>1 DEF IInv, ClientFile
  <2>2. Left' = Left /\ Encrypted' = Encrypted
    BY <1>2 DEF Left, Encrypted
  <2>3. rst' \in BOOLEAN
    BY <1>1
  <2> QED
    BY <1>1, <1>2, <2>1, <2>2, <2>3 DEF IInv, ClientFile
<1>5. ServerRead'
  BY <1>1, <1>2, <1>3 DEF IInv, ServerRead
<1>6. Waits'
  BY <1>1 DEF IInv, Waits, Closed
<1>7. WholeFile'
  <2> SUFFICES ASSUME header = BLOCK, cpc # "killed" PROVE Len(received) = Len(encrypted)
    BY <1>1, <1>2 DEF WholeFile
  <2>1. PICK L \in Nat, N \in Nat :
          /\ L = Len(received) /\ N = Len(encrypted) /\ Len(Stream) = BLOCK + N /\ Read = BLOCK + L
          /\ Stream \in Seq(Bytes) /\ BLOCK \in Nat /\ BLOCK >= 2
    BY ReadTyped, StreamIs DEF IInv
  <2>2. L <= N
    BY <2>1 DEF IInv, ServerRead
  <2>3. CASE remain_data <= 0
    <3>1. remain_data + L = N
      BY <2>1 DEF IInv, ServerRead
    <3>2. remain_data \in Int
      BY DEF IInv, ServerRead
    <3> QED
      BY <2>1, <2>2, <2>3, <3>1, <3>2
  <2>4. CASE AtEnd
    <3>1. cpc = "closed" /\ wire = <<>>
      BY <2>4 DEF AtEnd, Over
    <3>2. PICK e \in Read..Len(Stream) : wire = SubSeq(Stream, Read + 1, e) /\ e = BLOCK + offset
      BY <1>1, <3>1 DEF IInv, Waits
    <3>3. PICK o \in Nat : o = offset /\ N - o <= 0 /\ o <= N
      BY <1>1, <2>1, <3>1 DEF IInv, ClientFile, Left
    <3>4. e = BLOCK + N /\ e \in Nat
      BY <2>1, <3>2, <3>3
    <3>5. Len(wire) = e - (BLOCK + L)
      <4>1. /\ (BLOCK + L) + 1 \in Int /\ e \in Int /\ 1 <= (BLOCK + L) + 1 /\ (BLOCK + L) + 1 <= e + 1
            /\ e <= Len(Stream) /\ e - ((BLOCK + L) + 1) + 1 = e - (BLOCK + L)
        BY <2>1, <2>2, <3>4
      <4>2. Len(SubSeq(Stream, (BLOCK + L) + 1, e)) = e - ((BLOCK + L) + 1) + 1
        BY <2>1, <4>1, PieceIs
      <4> QED
        BY <2>1, <3>2, <4>1, <4>2
    <3>6. Len(wire) = 0
      BY <3>1
    <3> QED
      BY <2>1, <3>4, <3>5, <3>6
  <2> QED
    BY <1>1, <2>3, <2>4
<1> QED
  BY <1>4, <1>5, <1>6, <1>7 DEF IInv

LEMMA DecodeFileStep == IInv /\ DecodeFile => IInv'
<1> SUFFICES ASSUME IInv, DecodeFile PROVE IInv'
  OBVIOUS
<1>1. /\ spc = "decode" /\ spc' = "ended" /\ decoded' \in Scannings
      /\ UNCHANGED <<clientVars, cpc, wire, rst, remain_data, received, header>>
  BY DEF DecodeFile
<1>2. UNCHANGED <<encrypted, offset>>
  BY <1>1 DEF clientVars
<1>3. Stream' = Stream /\ Read' = Read /\ Scannings' = Scannings
  BY <1>1, <1>2, ScannedSame DEF Stream, Read
<1>4. ClientFile'
  BY <1>1, ClientKept DEF IInv
<1>5. ServerRead'
  BY <1>1, <1>2, <1>3 DEF IInv, ServerRead
<1>6. Waits'
  BY <1>1 DEF IInv, Waits, Closed
<1>7. WholeFile'
  BY <1>1, <1>2 DEF IInv, WholeFile, Closed
<1> QED
  BY <1>4, <1>5, <1>6, <1>7 DEF IInv

LEMMA Inductive == IInv /\ [Next]_vars => IInv'
<1> SUFFICES ASSUME IInv, [Next]_vars PROVE IInv'
  OBVIOUS
<1>1. CASE UNCHANGED vars
  <2>1. UNCHANGED <<clientVars, cpc, wire, rst, serverVars>>
    BY <1>1 DEF vars, clientVars, serverVars
  <2>2. UNCHANGED <<spc, received, header, offset, encrypted>>
    BY <2>1 DEF clientVars, serverVars
  <2>3. Stream' = Stream /\ Read' = Read
    BY <2>2 DEF Stream, Read
  <2>4. ClientFile' /\ ServerRead'
    BY <2>1, <2>2, ClientKept, ServerKept DEF IInv
  <2>5. Waits'
    BY <2>1, <2>2, <2>3 DEF IInv, Waits, Closed, AtEnd
  <2>6. WholeFile'
    BY <2>1, <2>2 DEF IInv, WholeFile, Closed
  <2> QED
    BY <2>4, <2>5, <2>6 DEF IInv
<1>2. CASE Next
  BY <1>2, ConnectStep, SendSizeStep, SendPieceStep, ClientEndsStep, AcceptStep, RecvSizeStep,
     RecvDataStep, CloseServerStep, DecodeFileStep DEF Next, Client, Server
<1> QED
  BY <1>1, <1>2

LEMMA Invariant == Spec => []IInv
BY InitInv, Inductive, PTL DEF Spec

-----------------------------------------------------------------------------
(* What the invariant says of the text that is decoded.                    *)

LEMMA FilePiece ==
  ASSUME NEW s \in Files, NEW m \in Nat, NEW n \in Nat, m <= n, n <= Len(s)
  PROVE  LET t == SubSeq(s, m + 1, n) IN
         /\ t \in Files /\ t \in Seq(Bytes) /\ Len(t) = n - m
         /\ \A i \in 1..(n - m) : t[i] = s[m + i]
<1> DEFINE t == SubSeq(s, m + 1, n)
<1>1. /\ m + 1 \in Int /\ n \in Int /\ 1 <= m + 1 /\ m + 1 <= n + 1 /\ n - (m + 1) + 1 = n - m
      /\ \A i \in 1..(n - m) : (m + 1) + i - 1 = m + i
  OBVIOUS
<1>2. /\ t \in Seq(Digits \cup {SPACE}) /\ Len(t) = n - (m + 1) + 1
      /\ \A i \in 1..(n - (m + 1) + 1) : t[i] = s[(m + 1) + i - 1]
  BY <1>1, PieceIs DEF Files
<1> HIDE DEF t
<1>3. t \in Files /\ t \in Seq(Bytes) /\ Len(t) = n - m
  BY <1>1, <1>2, FilesAreBytes DEF Files
<1>4. ASSUME NEW i \in 1..(n - m) PROVE t[i] = s[m + i]
  BY <1>1, <1>2
<1> QED
  BY <1>3, <1>4 DEF t

\* What the scanner gives is a piece of text: of the text itself, or of an end of it.
Piecewise(scan, text) ==
  /\ scan \in Seq(Word \cup {CUT})
  /\ \E i \in -1..Len(text) : Within(scan, text, i)

LEMMA NothingScanned ==
  ASSUME Readable = <<>>, NEW x \in Texts
  PROVE  Piecewise(Scanned, x) /\ Scanned = <<>>
<1>1. <<>> \in Files /\ <<>> \in Texts /\ Len(<<>>) = 0
  BY DEF Files, Texts
<1>2. PICK p : Coded(<<>>, <<>>, p)
  BY EmptyCodes DEF Codes
<1>3. SubSeq(<<>>, 0 + 1, 0) = <<>>
  BY EmptyPiece
<1>4. Scanned = <<>>
  BY <1>1, <1>2, <1>3, PrefixOut
<1>5. Len(x) \in Nat
  BY DEF Texts
<1>6. 0 \in -1..Len(x) /\ Within(<<>>, x, 0)
  BY <1>1, <1>5 DEF Within
<1> QED
  BY <1>4, <1>6 DEF Piecewise

LEMMA ReadsWithin ==
  ASSUME NEW d, NEW x, Reads(d, x)
  PROVE  Within(d, x, 0)
<1>1. Len(d) \in Nat /\ Len(d) <= Len(x)
  BY DEF Reads
<1> SUFFICES ASSUME NEW k \in 1..Len(d)
             PROVE  \/ k \in {1, Len(d)} /\ d[k] = CUT
                    \/ k + 0 \in 1..Len(x) /\ d[k] = x[k + 0]
  BY DEF Within
<1>2. k + 0 = k
  OBVIOUS
<1>3. CASE d[k] = CUT /\ k = Len(d)
  BY <1>3
<1>4. CASE d[k] = x[k]
  <2>1. PICK N \in Int : N = Len(x)
    BY DEF Reads
  <2> QED
    BY <1>1, <1>2, <1>4
<1> QED
  BY <1>3, <1>4 DEF Reads

\* A piece of an end of the text is a piece of the text.
LEMMA EndWithin ==
  ASSUME NEW d, Len(d) \in Nat, NEW x \in Texts, NEW l \in 0..Len(x), NEW i \in {-1, 0},
         Within(d, SubSeq(x, l + 1, Len(x)), i)
  PROVE  \E j \in -1..Len(x) : Within(d, x, j)
<1> DEFINE y == SubSeq(x, l + 1, Len(x))
           N == Len(x)
<1>1. N \in Nat /\ x \in Seq(Word)
  BY DEF Texts
<1>2. Len(y) = N - l /\ \A k \in 1..(N - l) : y[k] = x[l + k]
  <2>1. /\ l \in Nat /\ l <= Len(x) /\ Len(x) \in Nat /\ Len(x) <= Len(x)
    BY <1>1
  <2> QED
    BY <1>1, <2>1, PieceFrom
<1> HIDE DEF y
<1>3. Within(d, x, l + i)
  <2> SUFFICES ASSUME NEW k \in 1..Len(d)
               PROVE  \/ k \in {1, Len(d)} /\ d[k] = CUT
                      \/ k + (l + i) \in 1..N /\ d[k] = x[k + (l + i)]
    BY DEF Within
  <2>1. \/ k \in {1, Len(d)} /\ d[k] = CUT
        \/ k + i \in 1..Len(y) /\ d[k] = y[k + i]
    BY DEF Within, y
  <2>2. ASSUME k + i \in 1..Len(y), d[k] = y[k + i]
        PROVE  k + (l + i) \in 1..N /\ d[k] = x[k + (l + i)]
    <3>1. PICK m \in 1..(N - l) : m = k + i
      BY <1>2, <2>2
    <3>2. y[m] = x[l + m]
      BY <1>2
    <3>3. l + m = k + (l + i) /\ l + m \in 1..N
      BY <1>1, <3>1
    <3> QED
      BY <2>2, <3>1, <3>2, <3>3
  <2> QED
    BY <2>1, <2>2
<1>4. l + i \in -1..N
  BY <1>1
<1> QED
  BY <1>3, <1>4

\* Any piece of a file is scanned to a piece of its text.
LEMMA PieceScanned ==
  ASSUME NEW s, NEW x, Codes(s, x), NEW m \in Nat, NEW n \in Nat, m <= n, n <= Len(s),
         Readable = SubSeq(s, m + 1, n)
  PROVE  Piecewise(Scanned, x)
<1>1. s \in Files /\ x \in Texts /\ Len(s) \in Nat /\ Len(x) \in Nat
  BY DEF Codes, Files, Texts
<1>2. PICK p : Coded(s, x, p)
  BY DEF Codes
<1>3. m \in 0..Len(s)
  BY <1>1
<1>4. PICK l \in 0..Len(x), i \in {0, 1} :
           /\ m + i <= Len(s)
           /\ i = 1 => \E w \in Word : s[m + 1] = [of |-> w, part |-> 2]
           /\ \E q : Coded(SubSeq(s, m + i + 1, Len(s)), SubSeq(x, l + 1, Len(x)), q)
  BY <1>1, <1>2, <1>3, SuffixCoded
<1> DEFINE t == SubSeq(s, m + i + 1, Len(s))
           y == SubSeq(x, l + 1, Len(x))
<1>5. PICK q : Coded(t, y, q)
  BY <1>4
<1>6. PICK h \in Nat : h = m + i /\ h <= Len(s)
  BY <1>4
<1>7. t \in Files /\ Len(t) = Len(s) - h
  <2>1. LET u == SubSeq(s, h + 1, Len(s)) IN u \in Files /\ Len(u) = Len(s) - h
    <3>1. Len(s) \in Nat /\ h <= Len(s) /\ Len(s) <= Len(s)
      BY <1>1, <1>6
    <3> QED
      BY <1>1, <1>6, <3>1, FilePiece
  <2> QED
    BY <1>6, <2>1
<1>8. y \in Texts
  <2>1. /\ l + 1 \in Int /\ Len(x) \in Int /\ 1 <= l + 1 /\ l + 1 <= Len(x) + 1
        /\ Len(x) <= Len(x) /\ x \in Seq(Word)
    BY <1>1 DEF Texts
  <2> QED
    BY <2>1, PieceIs DEF Texts
<1>9. ASSUME NEW c \in Nat, h + c <= Len(s)
      PROVE  SubSeq(t, 1, c) = SubSeq(s, h + 1, h + c) /\ c \in 0..Len(t)
  <2>1. SubSeq(SubSeq(s, h + 1, Len(s)), 0 + 1, c) = SubSeq(s, h + 0 + 1, h + c)
    <3>1. /\ s \in Seq(Digits \cup {SPACE}) /\ 0 \in Nat /\ 0 <= c /\ c <= Len(s) - h /\ Len(s) <= Len(s)
      BY <1>1, <1>6, <1>9 DEF Files
    <3> QED
      BY <1>1, <1>6, <3>1, CutAgain
  <2>2. h + 0 + 1 = h + 1 /\ 0 + 1 = 1
    OBVIOUS
  <2>3. c \in 0..Len(t)
    BY <1>1, <1>6, <1>7, <1>9
  <2> QED
    BY <1>6, <2>1, <2>2, <2>3
<1>10. CASE i = 0
  <2>1. h = m /\ n - m \in Nat /\ h + (n - m) = n
    BY <1>6, <1>10
  <2>2. Readable = SubSeq(t, 1, n - m) /\ n - m \in 0..Len(t)
    BY <1>9, <2>1
  <2> HIDE DEF t, y
  <2>3. Reads(Scanned, y)
    BY <1>5, <1>7, <1>8, <2>2, PrefixOut
  <2>4. Within(Scanned, y, 0) /\ Scanned \in Seq(Word \cup {CUT}) /\ Len(Scanned) \in Nat
    BY <2>3, ReadsWithin DEF Reads
  <2>5. \E j \in -1..Len(x) : Within(Scanned, x, j)
    BY <1>1, <2>4, EndWithin DEF y
  <2> QED
    BY <2>4, <2>5 DEF Piecewise
<1>11. CASE i = 1 /\ m = n
  <2>1. Readable = <<>>
    BY <1>1, <1>11, EmptyPiece DEF Files
  <2> QED
    BY <1>1, <2>1, NothingScanned
<1>12. CASE i = 1 /\ m # n
  <2>1. h = m + 1 /\ n - h \in Nat /\ h + (n - h) = n /\ h <= n
    BY <1>6, <1>12
  <2>2. SubSeq(t, 1, n - h) = SubSeq(s, h + 1, n) /\ n - h \in 0..Len(t)
    BY <1>9, <2>1
  <2>3. PICK w \in Word : s[m + 1] = [of |-> w, part |-> 2]
    BY <1>4, <1>12
  <2> DEFINE z == s[m + 1]
  <2>4. z \in Bytes
    BY <2>3 DEF Bytes, Digits
  <2>5. SubSeq(s, m + 1, h) = <<z>>
    <3>1. h - m = 1 /\ m <= h /\ h \in Nat
      BY <2>1
    <3> DEFINE u == SubSeq(s, m + 1, h)
    <3>2. u \in Seq(Bytes) /\ Len(u) = h - m /\ \A k \in 1..(h - m) : u[k] = s[m + k]
      BY <1>1, <1>6, <3>1, FilePiece
    <3> HIDE DEF u
    <3>3. <<z>> \in Seq(Bytes) /\ Len(<<z>>) = 1 /\ <<z>>[1] = z
      BY <2>4
    <3>4. \A k \in 1..1 : u[k] = <<z>>[k]
      BY <3>1, <3>2, <3>3
    <3>5. u = <<z>>
      <4> HIDE DEF z
      <4> QED
        BY <3>1, <3>2, <3>3, <3>4, SeqEqual
    <3> QED
      BY <3>5 DEF u
  <2>6. SubSeq(s, m + 1, h) \o SubSeq(s, h + 1, n) = SubSeq(s, m + 1, n)
    <3>1. s \in Seq(Bytes) /\ m <= h /\ h <= n
      BY <1>1, <2>1, FilesAreBytes
    <3> QED
      BY <1>6, <3>1, Glued
  <2>7. Readable = <<z>> \o SubSeq(t, 1, n - h)
    BY <2>2, <2>5, <2>6
  <2>8. \E v \in Word : z = [of |-> v, part |-> 2]
    BY <2>3
  <2> HIDE DEF t, y, z
  <2>9. /\ Scanned \in Seq(Word \cup {CUT})
        /\ Within(Scanned, y, 0) \/ Within(Scanned, y, -1)
    <3>1. Leads(Readable, z, SubSeq(t, 1, n - h))
      BY <2>7 DEF Leads
    <3> QED
      BY <1>5, <1>7, <1>8, <2>2, <2>4, <2>8, <3>1, LeadOut
  <2>10. \E j \in -1..Len(x) : Within(Scanned, x, j)
    BY <1>1, <2>9, EndWithin DEF y
  <2> QED
    BY <2>9, <2>10 DEF Piecewise
<1> QED
  BY <1>10, <1>11, <1>12

\* The stream behind the block is the file.
LEMMA BehindBlock ==
  ASSUME ClientFile, NEW i \in Nat, NEW j \in Nat, i <= j, j <= Len(encrypted)
  PROVE  SubSeq(Stream, BLOCK + i + 1, BLOCK + j) = SubSeq(encrypted, i + 1, j)
<1>1. /\ Stream \in Seq(Bytes) /\ BLOCK \in Nat /\ BLOCK + Len(encrypted) \in Nat /\ BLOCK <= BLOCK + Len(encrypted)
      /\ BLOCK + Len(encrypted) <= Len(Stream) /\ j <= (BLOCK + Len(encrypted)) - BLOCK
      /\ SubSeq(Stream, BLOCK + 1, BLOCK + Len(encrypted)) = encrypted
  BY StreamIs
<1>2. SubSeq(SubSeq(Stream, BLOCK + 1, BLOCK + Len(encrypted)), i + 1, j) = SubSeq(Stream, BLOCK + i + 1, BLOCK + j)
  BY <1>1, CutAgain
<1> QED
  BY <1>1, <1>2

LEMMA ReceivedAt ==
  ASSUME IInv
  PROVE  /\ header \in Nat /\ Len(received) \in Nat /\ received \in Seq(Bytes)
         /\ Len(encrypted) \in Nat /\ header + Len(received) <= BLOCK + Len(encrypted)
         /\ received = SubSeq(Stream, header + 1, header + Len(received))
         /\ \A i \in 1..Len(received) : received[i] = Stream[header + i]
<1>1. header \in Nat /\ Len(received) \in Nat /\ Read = header + Len(received)
  BY ReadTyped
<1>2. /\ received \in Seq(Bytes) /\ Stream \in Seq(Bytes) /\ Read <= Len(Stream)
      /\ received = SubSeq(Stream, header + 1, Read)
      /\ Len(Stream) = BLOCK + Len(encrypted) /\ Len(encrypted) \in Nat
  BY StreamIs DEF IInv, ServerRead
<1> DEFINE L == Len(received)
           t == SubSeq(Stream, header + 1, header + L)
<1>3. /\ header + 1 \in Int /\ header + L \in Int /\ 1 <= header + 1 /\ header + 1 <= (header + L) + 1
      /\ header + L <= Len(Stream) /\ (header + L) - (header + 1) + 1 = L
      /\ \A i \in 1..L : (header + 1) + i - 1 = header + i
  BY <1>1, <1>2
<1>4. \A i \in 1..((header + L) - (header + 1) + 1) : t[i] = Stream[(header + 1) + i - 1]
  BY SMTT(20), <1>2, <1>3, PieceIs
<1>5. \A i \in 1..L : t[i] = Stream[header + i]
  <2> HIDE DEF t
  <2> QED
    BY <1>3, <1>4
<1>6. received = t
  BY <1>1, <1>2
<1> QED
  BY <1>1, <1>2, <1>5, <1>6

LEMMA UnwrittenTyped ==
  ASSUME received \in Seq(Bytes)
  PROVE  Unwritten \in Nat
<1> DEFINE T == { i \in DOMAIN received : received[i] = UNWRITTEN }
<1>1. DOMAIN received = 1..Len(received) /\ Len(received) \in Nat
  OBVIOUS
<1>2. IsFiniteSet(1..Len(received))
  BY <1>1, FS_Interval
<1>3. IsFiniteSet(T)
  BY <1>1, <1>2, FS_Subset
<1> QED
  BY <1>3, FS_CardinalityType DEF Unwritten

\* What the server stores is memory that was never written, if the first recv()
\* left some of it in the stream, and behind it a piece of the file.
LEMMA TextStored ==
  ASSUME IInv, header >= 2 \/ Len(received) = 0
  PROVE  /\ Unwritten \in 0..Len(received)
         /\ \E m, n \in Nat : m <= n /\ n <= Len(encrypted) /\ Readable = SubSeq(encrypted, m + 1, n)
         /\ header >= BLOCK => Unwritten = 0
<1>1. /\ header \in Nat /\ received \in Seq(Bytes)
      /\ header + Len(received) <= BLOCK + Len(encrypted)
      /\ received = SubSeq(Stream, header + 1, header + Len(received))
      /\ \A i \in 1..Len(received) : received[i] = Stream[header + i]
  BY ReceivedAt
<1>2. /\ ClientFile /\ encrypted \in Files /\ Stream \in Seq(Bytes) /\ BLOCK >= 2
      /\ Len(Stream) = BLOCK + Len(encrypted)
      /\ \A i \in 3..BLOCK : Stream[i] = UNWRITTEN
      /\ \A i \in 1..Len(encrypted) : Stream[BLOCK + i] = encrypted[i]
  BY StreamIs DEF IInv
<1>3. PICK H \in Nat, L \in Nat, N \in Nat, B \in Nat :
        H = header /\ L = Len(received) /\ N = Len(encrypted) /\ B = BLOCK
  BY ReceivedAt, BlockIs
<1>4. H + L <= B + N /\ B >= 2 /\ (H >= 2 \/ L = 0)
  BY <1>1, <1>2, <1>3
<1>5. PICK u \in 0..L : /\ H >= B => u = 0
                        /\ L = 0 => u = 0
                        /\ \A i \in 1..L : i <= u <=> H + i <= B
  <2>1. CASE H + L <= B
    <3>1. L \in 0..L /\ (H >= B => L = 0) /\ (L = 0 => L = 0) /\ \A i \in 1..L : i <= L <=> H + i <= B
      BY <1>4, <2>1
    <3> QED
      BY <3>1
  <2>2. CASE H + L > B /\ H <= B
    <3>1. /\ B - H \in 0..L /\ (H >= B => B - H = 0) /\ (L = 0 => B - H = 0)
          /\ \A i \in 1..L : i <= B - H <=> H + i <= B
      BY <1>4, <2>2
    <3> QED
      BY <3>1
  <2>3. CASE H > B
    <3>1. 0 \in 0..L /\ \A i \in 1..L : i <= 0 <=> H + i <= B
      BY <1>4, <2>3
    <3> QED
      BY <3>1
  <2> QED
    BY <1>4, <2>1, <2>2, <2>3
<1>6. ASSUME NEW i \in 1..L PROVE received[i] = UNWRITTEN <=> i <= u
  <2>1. received[i] = Stream[H + i] /\ H >= 2
    BY <1>1, <1>3, <1>4
  <2>2. CASE H + i <= B
    <3>1. H + i \in 3..B
      BY <2>1, <2>2
    <3> QED
      BY <1>2, <1>3, <1>5, <2>1, <2>2, <3>1
  <2>3. CASE ~(H + i <= B)
    <3>1. PICK k \in 1..N : H + i = B + k
      BY <1>4, <2>3
    <3>2. received[i] = encrypted[k]
      BY <1>2, <1>3, <2>1, <3>1
    <3>3. encrypted[k] \in Digits \cup {SPACE}
      BY <1>2, <1>3 DEF Files
    <3>4. received[i] # UNWRITTEN
      BY <3>2, <3>3, ByteAssumption
    <3> QED
      BY <1>5, <2>3, <3>4
  <2> QED
    BY <2>2, <2>3
<1>7. Unwritten = u
  <2>1. { i \in DOMAIN received : received[i] = UNWRITTEN } = 1..u
    <3>1. DOMAIN received = 1..L /\ \A i \in 1..u : i \in 1..L
      BY <1>1, <1>3
    <3> QED
      BY <1>6, <3>1
  <2>2. Cardinality(1..u) = u
    BY FS_Interval
  <2> QED
    BY <2>1, <2>2 DEF Unwritten
<1>8. Readable = SubSeq(received, u + 1, L)
  BY <1>3, <1>7 DEF Readable
<1>9. CASE u = L
  <2>1. Readable = <<>>
    BY <1>1, <1>3, <1>8, <1>9, EmptyPiece
  <2>2. SubSeq(encrypted, 0 + 1, 0) = <<>>
    BY <1>2, EmptyPiece DEF Files
  <2>3. 0 \in Nat /\ 0 <= 0 /\ 0 <= Len(encrypted)
    BY <1>3
  <2> QED
    BY <1>3, <1>5, <1>7, <2>1, <2>2, <2>3
<1>10. CASE u # L
  <2>1. PICK v \in Nat : v = u
    OBVIOUS
  <2>2. v <= L /\ ~(H + (v + 1) <= B)
    <3>1. v + 1 \in 1..L /\ ~(v + 1 <= u)
      BY <1>10, <2>1
    <3> QED
      BY <1>5, <2>1, <3>1
  <2>3. PICK m \in Nat, n \in Nat : H + v = B + m /\ H + L = B + n /\ m <= n /\ n <= N
    <3>1. /\ (H + v) - B \in Nat /\ (H + L) - B \in Nat
          /\ H + v = B + ((H + v) - B) /\ H + L = B + ((H + L) - B)
          /\ (H + v) - B <= (H + L) - B /\ (H + L) - B <= N
      BY <1>4, <2>2
    <3> QED
      BY <3>1
  <2>4. SubSeq(SubSeq(Stream, H + 1, H + L), v + 1, L) = SubSeq(Stream, H + v + 1, H + L)
    <3>1. H + L \in Nat /\ H <= H + L /\ H + L <= Len(Stream) /\ v <= L /\ L <= (H + L) - H
      BY <1>2, <1>3, <1>4, <2>2
    <3> QED
      BY <1>2, <3>1, CutAgain
  <2>5. SubSeq(Stream, BLOCK + m + 1, BLOCK + n) = SubSeq(encrypted, m + 1, n)
    BY <1>2, <1>3, <2>3, BehindBlock
  <2>6. Readable = SubSeq(encrypted, m + 1, n)
    <3>1. Readable = SubSeq(SubSeq(Stream, H + 1, H + L), v + 1, L)
      BY <1>1, <1>3, <1>8, <2>1
    <3>2. SubSeq(Stream, H + v + 1, H + L) = SubSeq(Stream, BLOCK + m + 1, BLOCK + n)
      BY <1>3, <2>3
    <3> QED
      BY <2>4, <2>5, <3>1, <3>2
  <2> QED
    BY <1>3, <1>5, <1>7, <2>3, <2>6
<1> QED
  BY <1>9, <1>10

\* A number that digits run into is one that is wrong, at an end.
LEMMA RunsInto ==
  ASSUME NEW d, NEW x, Piecewise(d, x)
  PROVE  Piecewise(RunInto(d), x)
<1> DEFINE r == RunInto(d)
<1>1. d \in Seq(Word \cup {CUT}) /\ Len(d) \in Nat
  BY DEF Piecewise
<1>2. r \in Seq(Word \cup {CUT}) /\ Len(r) = Len(d)
      /\ \A k \in 1..Len(d) : r[k] = IF k = 1 THEN CUT ELSE d[k]
  <2>1. r = [k \in 1..Len(d) |-> IF k = 1 THEN CUT ELSE d[k]]
    BY <1>1 DEF RunInto
  <2>2. \A k \in 1..Len(d) : (IF k = 1 THEN CUT ELSE d[k]) \in Word \cup {CUT}
    BY <1>1
  <2> HIDE DEF r
  <2> QED
    BY <1>1, <2>1, <2>2
<1>3. PICK i \in -1..Len(x) : Within(d, x, i)
  BY DEF Piecewise
<1> HIDE DEF r
<1>4. Within(r, x, i)
  <2> SUFFICES ASSUME NEW k \in 1..Len(d)
               PROVE  \/ k \in {1, Len(d)} /\ r[k] = CUT
                      \/ k + i \in 1..Len(x) /\ r[k] = x[k + i]
    BY <1>2 DEF Within
  <2>1. r[k] = IF k = 1 THEN CUT ELSE d[k]
    BY <1>2
  <2>2. \/ k \in {1, Len(d)} /\ d[k] = CUT
        \/ k + i \in 1..Len(x) /\ d[k] = x[k + i]
    BY <1>3 DEF Within
  <2> QED
    BY <2>1, <2>2
<1>5. Piecewise(r, x)
  BY <1>2, <1>3, <1>4 DEF Piecewise
<1> QED
  BY <1>5 DEF r

\* The first m of what is decoded are anything, and a piece of text follows.
Behind(scan, text, m) ==
  /\ scan \in Seq(Word \cup {CUT})
  /\ Piecewise(SubSeq(scan, m + 1, Len(scan)), text)

\* A scan is a piece of itself, the whole of it.
LEMMA NothingBefore ==
  ASSUME NEW d, NEW x, Piecewise(d, x)
  PROVE  Behind(d, x, 0)
<1> DEFINE n == Len(d)
           q == SubSeq(d, 0 + 1, n)
<1>1. d \in Seq(Word \cup {CUT}) /\ n \in Nat /\ 0 \in Nat /\ 0 <= n /\ n <= Len(d)
  BY DEF Piecewise
<1>2. /\ q \in Seq(Word \cup {CUT}) /\ Len(q) = n - 0
      /\ \A k \in 1..(n - 0) : q[k] = d[0 + k]
  <2> HIDE DEF n
  <2> QED
    BY <1>1, PieceFrom
<1>3. n - 0 = n /\ \A k \in 1..n : 0 + k = k
  BY <1>1
<1> HIDE DEF q
<1>4. q = d
  BY <1>1, <1>2, <1>3, SeqEqual
<1> QED
  BY <1>1, <1>4 DEF q, Behind

\* So is one behind numbers that were invented.
LEMMA InventedBefore ==
  ASSUME NEW m \in Nat, NEW t, NEW x, Piecewise(t, x)
  PROVE  Behind(Invented(m) \o t, x, m)
<1> DEFINE S == Word \cup {CUT}
           inv == Invented(m)
           d == inv \o t
           q == SubSeq(d, m + 1, Len(d))
<1>1. inv \in Seq(S) /\ Len(inv) = m
  BY DEF Invented
<1>2. t \in Seq(S) /\ Len(t) \in Nat
  BY DEF Piecewise
<1> HIDE DEF S, inv
<1>3. d \in Seq(S) /\ Len(d) = m + Len(t) /\ \A k \in 1..Len(t) : d[m + k] = t[k]
  <2>1. d \in Seq(S) /\ Len(d) = Len(inv) + Len(t) /\ \A k \in 1..Len(t) : d[Len(inv) + k] = t[k]
    <3>1. inv \in Seq(S) /\ t \in Seq(S)
      BY <1>1, <1>2
    <3> QED
      BY <3>1, JoinedAt
  <2> HIDE DEF d
  <2> QED
    BY <1>1, <2>1
<1> HIDE DEF d
<1>4. PICK n \in Nat : n = Len(d) /\ m <= n /\ n - m = Len(t)
  BY <1>2, <1>3
<1>5. q \in Seq(S) /\ Len(q) = n - m /\ \A k \in 1..(n - m) : q[k] = d[m + k]
  <2>1. n <= Len(d)
    BY <1>4
  <2> QED
    BY <1>3, <1>4, <2>1, PieceFrom
<1> HIDE DEF q
<1>6. q = t
  BY <1>2, <1>3, <1>4, <1>5, SeqEqual
<1> QED
  BY <1>3, <1>6 DEF d, q, inv, S, Behind

\* However the stream is cut, a piece of the text is decoded, behind no more
\* chars than memory that was never written.
LEMMA EndsPiecewise ==
  ASSUME IInv, spc = "ended"
  PROVE  \E m \in 0..Unwritten : Behind(decoded, Expected, m)
<1>1. /\ header \in Nat /\ Len(received) \in Nat /\ received \in Seq(Bytes)
      /\ \A i \in 1..Len(received) : received[i] = Stream[header + i]
  BY ReceivedAt
<1>2. cpc # "start" /\ decoded \in Scannings /\ (header = 0 => received = <<>>) /\ ClientFile
  BY DEF IInv, ServerRead
<1>3. Codes(encrypted, Expected) /\ Stream[2] = NUL
  BY <1>2, StreamIs
<1>4. Expected \in Texts
  BY <1>3 DEF Codes
<1>5. Piecewise(<<>>, Expected)
  <2>1. Len(Expected) \in Nat
    BY <1>4 DEF Texts
  <2>2. 0 \in -1..Len(Expected) /\ Within(<<>>, Expected, 0)
    BY <2>1 DEF Within
  <2> QED
    BY <2>2 DEF Piecewise
<1>6. Unwritten \in Nat
  BY <1>1, UnwrittenTyped
<1>7. CASE received # <<>> /\ received[1] = NUL
  <2>1. decoded = <<>>
    BY <1>2, <1>7 DEF Scannings
  <2> QED
    BY <1>5, <1>6, <2>1, NothingBefore
<1>8. CASE ~(received # <<>> /\ received[1] = NUL)
  <2>1. header >= 2 \/ Len(received) = 0
    <3>1. CASE header = 1 /\ received # <<>>
      <4>1. 1 \in 1..Len(received)
        BY <1>1, <3>1
      <4>2. received[1] = Stream[1 + 1]
        BY <1>1, <3>1, <4>1
      <4> QED
        BY <1>3, <1>8, <3>1, <4>2
    <3>2. CASE received = <<>>
      BY <3>2
    <3>3. CASE header >= 2
      BY <3>3
    <3>4. header = 0 \/ header = 1 \/ header >= 2
      BY <1>1
    <3> QED
      BY <1>2, <3>1, <3>2, <3>3, <3>4
  <2>2. PICK m, n \in Nat : m <= n /\ n <= Len(encrypted) /\ Readable = SubSeq(encrypted, m + 1, n)
    BY <2>1, TextStored
  <2>3. Piecewise(Scanned, Expected)
    BY <1>3, <2>2, PieceScanned
  <2>4. CASE Unwritten = 0
    <3>1. decoded = Scanned
      BY <1>2, <1>8, <2>4 DEF Scannings
    <3> QED
      BY <1>6, <2>3, <3>1, NothingBefore
  <2>5. CASE Unwritten # 0
    <3>1. PICK i \in 0..Unwritten, t \in {<<>>, Scanned, RunInto(Scanned)} : decoded = Invented(i) \o t
      BY <1>2, <1>8, <2>5 DEF Scannings
    <3>2. Piecewise(t, Expected)
      BY <1>5, <2>3, <3>1, RunsInto
    <3>3. i \in Nat
      BY <1>6, <3>1
    <3> QED
      BY <3>1, <3>2, <3>3, InventedBefore
  <2> QED
    BY <2>4, <2>5
<1> QED
  BY <1>7, <1>8

-----------------------------------------------------------------------------
(* The theorems about the transfer.                                        *)

LEMMA Typed == IInv => TypeOK
<1> SUFFICES ASSUME IInv PROVE TypeOK
  OBVIOUS
<1>1. /\ header \in Nat /\ Len(received) \in Nat /\ Len(encrypted) \in Nat
      /\ header + Len(received) <= BLOCK + Len(encrypted)
  BY ReceivedAt
<1>2. remain_data \in 1 - BLOCK..10 * Len(encrypted) + 1
  <2>1. PICK s \in Nat, l \in Nat : s = Len(encrypted) /\ l = Len(received)
    BY <1>1
  <2>2. remain_data \in Int /\ (header = 0 => remain_data \in {0, 1})
    BY DEF IInv, ServerRead
  <2>3. header > 0 => remain_data + l \in {s, 10 * s}
    BY <2>1 DEF IInv, ServerRead
  <2>4. CASE header = 0
    BY <2>1, <2>2, <2>4, BlockIs
  <2>5. CASE header > 0
    <3>1. remain_data + l = s \/ remain_data + l = 10 * s
      BY <2>3, <2>5
    <3>2. l <= (BLOCK - 1) + s
      BY <1>1, <2>1, <2>5, BlockIs
    <3>3. 1 - BLOCK <= remain_data /\ remain_data <= 10 * s + 1
      BY <2>1, <2>2, <3>1, <3>2, BlockIs
    <3> QED
      BY <2>1, <2>2, <3>3
  <2> QED
    BY <1>1, <2>4, <2>5
<1>3. decoded \in Seq(Word \cup {CUT})
  <2>1. CASE spc = "ended"
    BY <2>1, EndsPiecewise DEF Behind
  <2>2. CASE spc # "ended"
    BY <2>2 DEF IInv, ServerRead
  <2> QED
    BY <2>1, <2>2
<1>4. encrypted \in Seq(Bytes)
  BY StreamIs DEF IInv
<1>5. /\ source \in Sources /\ DOMAIN arr = 1..SENTENCE /\ offset \in 0..Len(encrypted)
      /\ cpc \in {"start", "connected", "sending"} \cup Over /\ rst \in BOOLEAN
  BY DEF IInv, ClientFile
<1>6. /\ wire \in Seq(Bytes) /\ received \in Seq(Bytes) /\ header \in 0..BUFSIZ
      /\ spc \in {"accept", "size", "data", "decode", "ended"}
  BY DEF IInv, ServerRead, Waits
<1> QED
  BY <1>2, <1>3, <1>4, <1>5, <1>6 DEF TypeOK

LEMMA TextLength == IInv => Expected \in Texts /\ Len(Expected) \in Nat
<1> SUFFICES ASSUME IInv PROVE Expected \in Texts /\ Len(Expected) \in Nat
  OBVIOUS
<1>1. Codes(Encrypted, Expected)
  BY FileCodes DEF IInv, ClientFile
<1> QED
  BY <1>1 DEF Codes, Texts

LEMMA Pieces == IInv => NothingInvented
<1> SUFFICES ASSUME IInv PROVE NothingInvented
  OBVIOUS
<1>1. Expected \in Seq(Word) /\ Len(Expected) \in Nat
  BY TextLength DEF Texts
<1>2. ASSUME NEW m \in 0..Unwritten, Behind(decoded, Expected, m)
      PROVE  NothingInvented
  <2> DEFINE d == SubSeq(decoded, m + 1, Len(decoded))
  <2>1. Piecewise(d, Expected)
    BY <1>2 DEF Behind
  <2> HIDE DEF d
  <2>2. d \in Seq(Word \cup {CUT}) /\ Len(d) \in Nat
    BY <2>1 DEF Piecewise
  <2>3. PICK i \in -1..Len(Expected) : Within(d, Expected, i)
    BY <2>1 DEF Piecewise
  <2>4. ASSUME NEW k \in DOMAIN d, ~(k \in {1, Len(d)} /\ d[k] = CUT)
        PROVE  i + k \in DOMAIN Expected /\ d[k] = Expected[i + k]
    <3>1. k \in 1..Len(d)
      BY <2>2
    <3>2. k + i \in 1..Len(Expected) /\ d[k] = Expected[k + i]
      BY <2>3, <2>4, <3>1 DEF Within
    <3>3. k + i = i + k /\ DOMAIN Expected = 1..Len(Expected)
      BY <1>1, <3>1
    <3> QED
      BY <3>2, <3>3
  <2> HIDE DEF Expected
  <2> QED
    BY <2>3, <2>4 DEF NothingInvented, d
<1>3. CASE spc = "ended"
  BY <1>2, <1>3, EndsPiecewise
<1>4. CASE spc # "ended"
  <2>1. decoded = <<>>
    BY <1>4 DEF IInv, ServerRead
  <2>2. received \in Seq(Bytes)
    BY DEF IInv, ServerRead
  <2>3. Unwritten \in Nat
    BY UnwrittenTyped DEF IInv, ServerRead
  <2>4. Len(Expected) \in Nat /\ 0 \in -1..Len(Expected)
    BY <1>1
  <2>5. Within(<<>>, Expected, 0)
    BY DEF Within
  <2>6. Behind(decoded, Expected, 0)
    <3>1. Piecewise(<<>>, Expected)
      BY <2>4, <2>5 DEF Piecewise
    <3> QED
      BY <2>1, <3>1, NothingBefore
  <2> QED
    BY <1>2, <2>3, <2>6
<1> QED
  BY <1>2, <1>3, <1>4

\* Every variable has its type, whatever the client holds and however its bytes
\* are cut by sendfile() and recv(); no more is counted below zero in remain_data
\* than there is behind the size in its block.
THEOREM EncodedTyped == Spec => []TypeOK
BY Invariant, Typed, PTL

\* What h1/server.c stores and decodes is a piece of what h2/client.c sent, each
\* byte once and in order, wherever the first recv() ended and wherever the
\* client was ended; only the first and the last char of it may be wrong.  If the
\* first recv() cut the block, what memory that was never written held may be
\* decoded in front of it, to no more chars than bytes of it were stored.
THEOREM DecodesAPiece == Spec => []PieceOfText
<1>1. IInv => PieceOfText
  BY Typed, Pieces DEF PieceOfText
<1> QED
  BY <1>1, Invariant, PTL

\* What the server reads when the first recv() took the block is a first part.
LEMMA WholeOrBeginning ==
  ASSUME IInv, spc = "ended", header = BLOCK
  PROVE  /\ Reads(decoded, Expected)
         /\ decoded = Expected \/ cpc = "killed"
<1> DEFINE L == Len(received)
<1>1. /\ L \in Nat /\ received \in Seq(Bytes) /\ Len(encrypted) \in Nat /\ L <= Len(encrypted)
      /\ received = SubSeq(Stream, BLOCK + 1, BLOCK + L)
  BY ReceivedAt
<1>2. cpc # "start" /\ decoded \in Scannings /\ ClientFile
  BY DEF IInv, ServerRead
<1>3. /\ Codes(encrypted, Expected) /\ encrypted \in Files /\ Len(file_size) = BLOCK
      /\ BLOCK \in Nat /\ BLOCK >= 2 /\ encrypted \in Seq(Bytes)
  BY <1>2, StreamIs
<1>4. PICK p : Coded(encrypted, Expected, p)
  BY <1>3 DEF Codes
<1>5. received = SubSeq(encrypted, 0 + 1, L)
  <2>1. 0 \in Nat /\ 0 <= L
    BY <1>1
  <2>2. SubSeq(Stream, BLOCK + 0 + 1, BLOCK + L) = SubSeq(encrypted, 0 + 1, L)
    BY <1>1, <1>2, <2>1, BehindBlock
  <2>3. BLOCK + 0 + 1 = BLOCK + 1
    BY <1>3
  <2> QED
    BY <1>1, <2>2, <2>3
<1>6. Unwritten = 0
  BY <1>3, TextStored
<1>7. Readable = SubSeq(encrypted, 1, L)
  <2>1. received = SubSeq(encrypted, 1, L) /\ 0 + 1 = 1
    BY <1>5
  <2>2. Readable = SubSeq(received, 1, L)
    BY <1>6 DEF Readable
  <2>3. SubSeq(SubSeq(encrypted, 0 + 1, L), 0 + 1, L) = SubSeq(encrypted, 0 + 0 + 1, 0 + L)
    <3>1. 0 \in Nat /\ 0 <= L /\ L <= L - 0
      BY <1>1
    <3> QED
      BY <1>1, <1>3, <3>1, CutAgain
  <2>4. 0 + 0 + 1 = 1 /\ 0 + L = L
    BY <1>1
  <2> QED
    BY <2>1, <2>2, <2>3, <2>4
<1>8. L \in 0..Len(encrypted) /\ Expected \in Texts
  BY <1>1, <1>3 DEF Codes
<1>9. Reads(Scanned, Expected) /\ (L = Len(encrypted) => Scanned = Expected)
  <2> HIDE DEF L
  <2> QED
    BY <1>3, <1>4, <1>7, <1>8, PrefixOut
<1>10. cpc = "killed" \/ L = Len(encrypted)
  BY <1>3 DEF IInv, WholeFile, Closed
<1>11. decoded = Scanned
  <2>1. ASSUME received # <<>> PROVE received[1] # NUL
    <3>1. 1 \in 1..L
      BY <1>1, <2>1
    <3>2. received[1] = encrypted[0 + 1]
      <4>1. 0 \in Nat /\ 0 <= L /\ 1 \in 1..(L - 0)
        BY <1>1, <3>1
      <4> QED
        BY <1>1, <1>3, <1>5, <4>1, FilePiece
    <3>3. encrypted[1] \in Digits \cup {SPACE}
      BY <1>1, <1>3, <3>1 DEF Files
    <3> QED
      BY <3>2, <3>3, ByteAssumption
  <2> QED
    BY <1>2, <1>6, <2>1 DEF Scannings
<1> QED
  BY <1>9, <1>10, <1>11

\* A first part of a text is a prefix of it, or is one without its last char.
LEMMA ReadsPrefix ==
  ASSUME NEW d, NEW x \in Texts, Reads(d, x)
  PROVE  IsPrefix(d, x) \/ (d[Len(d)] = CUT /\ IsPrefix(Front(d), x))
<1> DEFINE S == Word \cup {CUT}
<1>1. PICK n \in Nat : n = Len(d)
  BY DEF Reads
<1>2. d \in Seq(S) /\ x \in Seq(S) /\ n <= Len(x) /\ Len(x) \in Nat
  <2>1. x \in Seq(Word)
    BY DEF Texts
  <2> QED
    BY <1>1, <2>1 DEF Reads
<1> HIDE DEF S
<1>3. ASSUME NEW m \in 0..n, \A k \in 1..m : d[k] = x[k]
      PROVE  SubSeq(d, 1, m) = SubSeq(x, 1, m) /\ Len(SubSeq(d, 1, m)) = m
  <2> DEFINE u == SubSeq(d, 1, m)
             v == SubSeq(x, 1, m)
  <2>1. /\ 1 \in Int /\ m \in Int /\ 1 <= 1 /\ 1 <= m + 1 /\ m <= Len(d) /\ m <= Len(x)
        /\ m - 1 + 1 = m /\ \A k \in 1..m : 1 + k - 1 = k
    BY <1>1, <1>2
  <2>2. u \in Seq(S) /\ Len(u) = m - 1 + 1 /\ \A k \in 1..(m - 1 + 1) : u[k] = d[1 + k - 1]
    BY <1>2, <2>1, PieceIs
  <2>3. v \in Seq(S) /\ Len(v) = m - 1 + 1 /\ \A k \in 1..(m - 1 + 1) : v[k] = x[1 + k - 1]
    BY <1>2, <2>1, PieceIs
  <2> HIDE DEF u, v
  <2>4. Len(u) = m /\ Len(v) = m /\ \A k \in 1..m : u[k] = v[k]
    BY <1>3, <2>1, <2>2, <2>3
  <2>5. u = v
    BY <2>2, <2>3, <2>4, SeqEqual
  <2> QED
    BY <2>4, <2>5 DEF u, v
<1>4. ASSUME NEW k \in 1..n PROVE d[k] = x[k] \/ (k = n /\ d[k] = CUT)
  BY <1>1 DEF Reads
<1>5. CASE n = 0 \/ d[n] = x[n]
  <2>1. \A k \in 1..n : d[k] = x[k]
    BY <1>4, <1>5
  <2>2. SubSeq(d, 1, n) = SubSeq(x, 1, n)
    BY <1>3, <2>1
  <2> QED
    BY <1>1, <1>2, <2>2 DEF IsPrefix
<1>6. CASE n # 0 /\ d[n] # x[n]
  <2>1. n \in 1..n /\ n - 1 \in 0..n /\ \A k \in 1..(n - 1) : k \in 1..n /\ k # n
    BY <1>6
  <2>2. d[n] = CUT
    BY <1>4, <1>6, <2>1
  <2>3. \A k \in 1..(n - 1) : d[k] = x[k]
    BY <1>4, <2>1
  <2> DEFINE f == SubSeq(d, 1, n - 1)
  <2>4. f = SubSeq(x, 1, n - 1) /\ Len(f) = n - 1
    BY <1>3, <2>1, <2>3
  <2>5. SubSeq(f, 1, n - 1) = f
    <3>1. f \in Seq(S)
      <4>1. 1 \in Int /\ n - 1 \in Int /\ 1 <= 1 /\ 1 <= (n - 1) + 1 /\ n - 1 <= Len(d)
        BY <1>1, <1>6
      <4> QED
        BY <1>2, <4>1, PieceIs
    <3> HIDE DEF f
    <3> DEFINE g == SubSeq(f, 1, n - 1)
    <3>2. /\ 1 \in Int /\ n - 1 \in Int /\ 1 <= 1 /\ 1 <= (n - 1) + 1 /\ n - 1 <= Len(f)
          /\ (n - 1) - 1 + 1 = n - 1 /\ \A k \in 1..(n - 1) : 1 + k - 1 = k
      BY <1>6, <2>4
    <3>3. g \in Seq(S) /\ Len(g) = (n - 1) - 1 + 1 /\ \A k \in 1..((n - 1) - 1 + 1) : g[k] = f[1 + k - 1]
      BY <3>1, <3>2, PieceIs
    <3> HIDE DEF g
    <3>4. Len(g) = Len(f) /\ \A k \in 1..Len(g) : g[k] = f[k]
      BY <2>4, <3>2, <3>3
    <3>5. g = f
      BY <3>1, <3>3, <3>4, SeqEqual
    <3> QED
      BY <3>5 DEF g
  <2>6. Front(d) = f
    BY <1>1 DEF Front
  <2> HIDE DEF f
  <2>7. n - 1 <= Len(x)
    BY <1>2
  <2>8. IsPrefix(Front(d), x)
    <3>1. Len(Front(d)) = n - 1 /\ SubSeq(Front(d), 1, n - 1) = SubSeq(x, 1, n - 1)
      BY <2>4, <2>5, <2>6
    <3> QED
      BY <2>7, <3>1 DEF IsPrefix
  <2> QED
    BY <1>1, <2>2, <2>8
<1> QED
  BY <1>5, <1>6

\* When the first recv() took the block and no byte of the file, h1/server.c
\* decodes all that h2/client.c shows, or, of a client that was ended, its
\* beginning: what a negative char becomes is all that is lost.
THEOREM BlockAloneDecodesAll == Spec => []DecodedExact
<1>1. IInv => DecodedExact
  <2> SUFFICES ASSUME IInv, spc = "ended", header = Len(file_size)
               PROVE  \/ decoded = Expected
                      \/ /\ cpc = "killed"
                         /\ \/ IsPrefix(decoded, Expected)
                            \/ decoded[Len(decoded)] = CUT /\ IsPrefix(Front(decoded), Expected)
    BY DEF DecodedExact
  <2>1. header = BLOCK /\ Expected \in Texts
    BY StreamIs, TextLength DEF IInv
  <2>2. Reads(decoded, Expected) /\ (decoded = Expected \/ cpc = "killed")
    BY <2>1, WholeOrBeginning
  <2> HIDE DEF Expected
  <2>3. \/ IsPrefix(decoded, Expected)
        \/ decoded[Len(decoded)] = CUT /\ IsPrefix(Front(decoded), Expected)
    BY <2>1, <2>2, ReadsPrefix
  <2> QED
    BY <2>2, <2>3
<1> QED
  BY <1>1, Invariant, PTL
=============================================================================
