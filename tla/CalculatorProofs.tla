-------------------------- MODULE CalculatorProofs --------------------------
(***************************************************************************)
(* What TLAPS proves of A1/B: whatever the buffers held at the beginning    *)
(* and whatever stands behind them, a line of two numbers and an operator   *)
(* that arrives whole gets its value, and only a line without one, or one   *)
(* that came in pieces, ends the server.                                    *)
(***************************************************************************)
EXTENDS Calculator, FiniteSetTheorems, SequenceTheorems, TLAPS

-----------------------------------------------------------------------------
(* Ints.                                                                   *)

\* How many ints there are.
Width == 2 * (INT_MAX + 1)

LEMMA WidthIs == Width \in Nat \ {0} /\ INT_MAX \in Nat /\ Ints \subseteq Int /\ 0 \in Ints
<1>1. INT_MAX \in Nat
  BY CalculatorAssumption
<1> QED
  BY <1>1 DEF Width, Ints

\* A multiple that lies strictly between -m and m is none.
LEMMA NoMultiple ==
  ASSUME NEW m \in Nat \ {0}, NEW k \in Int, -m < m * k, m * k < m
  PROVE  k = 0
<1>1. CASE k >= 1
  <2>1. PICK j \in Nat : k = j + 1
    BY <1>1
  <2>2. m * k = m * j + m
    BY <2>1
  <2>3. m * j \in Nat
    OBVIOUS
  <2> QED
    BY <2>2, <2>3
<1>2. CASE k <= -1
  <2>1. PICK j \in Nat : k = -1 - j
    BY <1>2
  <2>2. m * k = -m - m * j
    BY <2>1
  <2>3. m * j \in Nat
    OBVIOUS
  <2> QED
    BY <2>2, <2>3
<1> QED
  BY <1>1, <1>2

LEMMA ModIs ==
  ASSUME NEW m \in Nat \ {0}, NEW n \in Int, NEW q \in Int, NEW r \in 0..m-1, n = m * q + r
  PROVE  n % m = r
<1>1. PICK d \in Int, s \in 0..m-1 : d = n \div m /\ s = n % m /\ n = m * d + s
  OBVIOUS
<1>2. m * (d - q) = r - s
  <2>1. m * (d - q) = m * d - m * q
    OBVIOUS
  <2>2. m * d \in Int /\ m * q \in Int
    OBVIOUS
  <2> QED
    BY <1>1, <2>1, <2>2
<1>3. d - q \in Int /\ -m < m * (d - q) /\ m * (d - q) < m
  BY <1>1, <1>2
<1>4. d - q = 0
  BY <1>3, NoMultiple
<1>5. d = q
  BY <1>1, <1>4
<1> QED
  BY <1>1, <1>5

\* An int differs from the number it stands for by a multiple.
LEMMA WrapTyped ==
  ASSUME NEW n \in Int
  PROVE  Wrap(n) \in Ints /\ \E j \in Int : Wrap(n) = n - Width * j
<1>1. PICK d \in Int, s \in 0..Width-1 : s = n % Width /\ n = Width * d + s
  BY WidthIs
<1>2. Wrap(n) = IF s <= INT_MAX THEN s ELSE s - Width
  BY <1>1 DEF Wrap, Width
<1>3. Wrap(n) \in Ints
  BY <1>1, <1>2, WidthIs DEF Ints, Width
<1>4. PICK w \in Int : w = Width * d
  BY <1>1, WidthIs
<1>5. CASE s <= INT_MAX
  <2>1. Wrap(n) = n - Width * d
    BY <1>1, <1>2, <1>4, <1>5
  <2> QED
    BY <1>3, <2>1
<1>6. CASE ~(s <= INT_MAX)
  <2>1. Width * (d + 1) = w + Width /\ d + 1 \in Int
    BY <1>4, WidthIs
  <2>2. Wrap(n) = n - Width * (d + 1)
    BY <1>1, <1>2, <1>4, <1>6, <2>1, WidthIs
  <2> QED
    BY <1>3, <2>1, <2>2
<1> QED
  BY <1>5, <1>6

LEMMA WrapIs ==
  ASSUME NEW n \in Int, NEW v \in Ints, NEW j \in Int, n = v + Width * j
  PROVE  Wrap(n) = v
<1>1. PICK w \in Int : w = Width * j
  BY WidthIs
<1>2. v \in Int /\ -INT_MAX-1 <= v /\ v <= INT_MAX
  BY WidthIs DEF Ints
<1>3. CASE v >= 0
  <2>1. v \in 0..Width-1 /\ n = Width * j + v
    BY <1>1, <1>2, <1>3, WidthIs DEF Width
  <2>2. n % Width = v
    BY <2>1, WidthIs, ModIs
  <2> QED
    BY <1>2, <2>2 DEF Wrap, Width
<1>4. CASE v < 0
  <2>1. v + Width \in 0..Width-1 /\ v + Width > INT_MAX
    BY <1>2, <1>4, WidthIs DEF Width
  <2>2. Width * (j - 1) = w - Width /\ j - 1 \in Int
    BY <1>1, WidthIs
  <2>3. n = Width * (j - 1) + (v + Width)
    BY <1>1, <1>2, <2>2, WidthIs
  <2>4. n % Width = v + Width
    BY <2>1, <2>2, <2>3, WidthIs, ModIs
  <2>5. Wrap(n) = (v + Width) - Width
    <3>1. ~(n % Width <= INT_MAX)
      BY <1>2, <2>1, <2>4, WidthIs
    <3>2. Wrap(n) = (n % Width) - Width
      BY <3>1 DEF Wrap, Width
    <3> QED
      BY <2>4, <3>2
  <2> QED
    BY <1>2, <2>5, WidthIs
<1> QED
  BY <1>2, <1>3, <1>4

LEMMA WrapSame == ASSUME NEW v \in Ints PROVE Wrap(v) = v
<1>1. v \in Int /\ 0 \in Int /\ Width * 0 = 0
  BY WidthIs
<1>2. v = v + Width * 0
  BY <1>1
<1> QED
  BY <1>1, <1>2, WrapIs

\* That a number wraps around at every digit is as if it did at the end.
LEMMA LongerWraps ==
  ASSUME NEW n \in Int, NEW d \in Int
  PROVE  Wrap(Wrap(n) * 10 + d) = Wrap(10 * n + d)
<1>1. PICK j \in Int : Wrap(n) = n - Width * j
  BY WrapTyped
<1>2. PICK w \in Int : w = Width * j
  BY WidthIs
<1> DEFINE a == 10 * n + d
           b == Wrap(n) * 10 + d
<1>3. a \in Int /\ b \in Int /\ b = a - 10 * w
  BY <1>1, <1>2
<1>4. PICK i \in Int : Wrap(a) = a - Width * i
  BY <1>3, WrapTyped
<1>5. PICK v \in Int : v = Width * i
  BY WidthIs
<1>6. Width * (i - 10 * j) = v - 10 * w /\ i - 10 * j \in Int
  BY <1>2, <1>5, WidthIs
<1>7. Wrap(a) \in Ints
  BY <1>3, WrapTyped
<1>8. b = Wrap(a) + Width * (i - 10 * j)
  BY <1>3, <1>4, <1>5, <1>6
<1> HIDE DEF a, b
<1>9. Wrap(b) = Wrap(a)
  BY <1>3, <1>6, <1>7, <1>8, WrapIs
<1> QED
  BY <1>9 DEF a, b

-----------------------------------------------------------------------------
(* Division.                                                               *)

\* A quotient of natural numbers.
LEMMA QuotientIs ==
  ASSUME NEW a \in Nat, NEW b \in Nat \ {0}
  PROVE  /\ a \div b \in 0..a
         /\ b >= 2 /\ a >= 1 => a \div b <= a - 1
<1>1. PICK q \in Int, r \in 0..b-1 : q = a \div b /\ a = b * q + r
  OBVIOUS
<1>2. q >= 0
  <2>1. SUFFICES ASSUME q <= -1 PROVE FALSE
    OBVIOUS
  <2>2. PICK k \in Nat : q = -1 - k
    BY <2>1
  <2>3. b * q = -b - b * k /\ b * k \in Nat
    BY <2>2
  <2> QED
    BY <1>1, <2>3
<1>3. PICK c \in Nat : b = c + 1
  OBVIOUS
<1>4. b * q = c * q + q /\ c * q \in Nat
  BY <1>2, <1>3
<1>5. q <= a
  BY <1>1, <1>4
<1>6. ASSUME b >= 2, a >= 1 PROVE q <= a - 1
  <2>1. CASE q = 0
    BY <1>6, <2>1
  <2>2. CASE q >= 1
    <3>1. PICK e \in Nat : c = e + 1
      BY <1>3, <1>6
    <3>2. c * q = e * q + q /\ e * q \in Nat
      BY <1>2, <3>1
    <3> QED
      BY <1>1, <1>4, <2>2, <3>2
  <2> QED
    BY <1>2, <2>1, <2>2
<1> QED
  BY <1>1, <1>2, <1>5, <1>6

\* Of two numbers that are not negative it is the quotient.
LEMMA QuotientPlain ==
  ASSUME NEW m \in Nat, NEW n \in Nat \ {0}
  PROVE  Quotient(m, n) = m \div n
<1>1. ~(m < 0) /\ ~(n < 0)
  OBVIOUS
<1> QED
  BY <1>1 DEF Quotient

\* What the processor divides has an int as its quotient.
LEMMA QuotientTyped ==
  ASSUME NEW m \in Ints, NEW n \in Ints, n # 0, ~(n = -1 /\ m = -INT_MAX-1)
  PROVE  Quotient(m, n) \in Ints
<1>1. m \in Int /\ n \in Int /\ INT_MAX \in Nat
  BY WidthIs
<1>2. PICK a \in Nat : a = IF m < 0 THEN -m ELSE m
  BY <1>1
<1>3. PICK b \in Nat \ {0} : b = IF n < 0 THEN -n ELSE n
  BY <1>1
<1>4. PICK q \in Int : q = a \div b
  BY QuotientIs
<1>5. Quotient(m, n) = IF (m < 0) = (n < 0) THEN q ELSE -q
  BY <1>2, <1>3, <1>4 DEF Quotient
<1>6. q \in 0..a /\ (b >= 2 /\ a >= 1 => q <= a - 1)
  BY <1>4, QuotientIs
<1>7. m \in -INT_MAX-1..INT_MAX
  BY DEF Ints
<1>8. a <= INT_MAX + 1 /\ (a = INT_MAX + 1 => m = -INT_MAX-1)
  BY <1>1, <1>2, <1>7
<1>9. Quotient(m, n) \in -INT_MAX-1..INT_MAX
  <2>1. CASE a <= INT_MAX
    BY <1>1, <1>5, <1>6, <2>1
  <2>2. CASE a = INT_MAX + 1 /\ b >= 2
    BY <1>1, <1>5, <1>6, <2>2
  <2>3. CASE a = INT_MAX + 1 /\ b = 1
    <3>1. n = 1 /\ m < 0
      BY <1>1, <1>3, <1>8, <2>3
    <3>2. Quotient(m, n) = -q
      BY <1>1, <1>5, <3>1
    <3> QED
      BY <1>1, <1>6, <2>3, <3>2
  <2> QED
    BY <1>1, <1>8, <2>1, <2>2, <2>3
<1> QED
  BY <1>9 DEF Ints

\* A result of calc() is an int.
LEMMA ValueTyped ==
  ASSUME NEW calc, calc.num1 \in Ints, calc.num2 \in Ints, NEW op, ~Dies(calc, op)
  PROVE  Value(calc, op) \in Ints
<1> DEFINE m == calc.num1
           n == calc.num2
<1>1. m \in Int /\ n \in Int
  BY WidthIs
<1>2. PICK p \in Int : p = m * n
  BY <1>1
<1>3. Wrap(m + n) \in Ints /\ Wrap(m - n) \in Ints /\ Wrap(m * n) \in Ints
  BY <1>1, <1>2, WrapTyped
<1>4. ASSUME op = "/" PROVE Quotient(m, n) \in Ints
  <2>1. n # 0 /\ ~(n = -1 /\ m = -INT_MAX-1)
    BY <1>4 DEF Dies
  <2> QED
    BY <2>1, QuotientTyped
<1> QED
  BY <1>3, <1>4, WidthIs DEF Value

-----------------------------------------------------------------------------
(* Loops over the characters of a line.                                    *)

LEMMA LeastNumber ==
  ASSUME NEW T \in SUBSET Nat, T # {}
  PROVE  \E m \in T : \A k \in T : m <= k
<1> DEFINE R == OpToRel(<, Nat)
<1>1. IsWellFoundedOn(R, Nat)
  BY NatLessThanWellFounded
<1>2. \A x, y \in Nat : x < y => <<x, y>> \in R
  BY DEF OpToRel
<1> HIDE DEF R
<1>3. PICK x \in T : \A y \in T : ~ (<<y, x>> \in R)
  BY <1>1, WFMin
<1>4. \A y \in T : ~ (y < x)
  BY <1>2, <1>3
<1>5. \A y \in T : x <= y
  BY <1>4
<1> QED
  BY <1>5

\* f[i] is what g makes of begin in i steps.
Steps(f, n, begin, g) ==
  f = [i \in 0..n |-> IF i = 0 THEN begin ELSE g[<<f[i-1], i>>]]

LEMMA StepsAre ==
  ASSUME NEW n \in Nat, NEW begin, NEW g, NEW f, Steps(f, n, begin, g)
  PROVE  f[0] = begin /\ \A i \in 1..n : i - 1 \in 0..n /\ f[i] = g[<<f[i-1], i>>]
<1>1. 0 \in 0..n /\ \A i \in 1..n : i - 1 \in 0..n /\ i \in 0..n /\ i # 0
  OBVIOUS
<1>2. \A i \in 0..n : f[i] = IF i = 0 THEN begin ELSE g[<<f[i-1], i>>]
  BY DEF Steps
<1> QED
  BY <1>1, <1>2

LEMMA StepsExist ==
  ASSUME NEW n \in Nat, NEW begin, NEW g
  PROVE  \E f : Steps(f, n, begin, g)
<1> DEFINE T == { k \in Nat : ~ \E f : Steps(f, k, begin, g) }
<1>1. SUFFICES ASSUME T # {} PROVE FALSE
  OBVIOUS
<1>2. PICK m \in T : \A k \in T : m <= k
  <2>1. T \in SUBSET Nat
    OBVIOUS
  <2> HIDE DEF T
  <2> QED
    BY <1>1, <2>1, LeastNumber
<1>3. CASE m = 0
  <2> DEFINE f == [i \in 0..0 |-> begin]
  <2>1. \A i \in 0..0 : i = 0
    OBVIOUS
  <2>2. Steps(f, 0, begin, g)
    BY <2>1 DEF Steps
  <2> QED
    BY <1>2, <1>3, <2>2
<1>4. CASE m # 0
  <2>1. m \in Nat /\ m - 1 \in Nat /\ ~(m <= m - 1)
    BY <1>4
  <2>2. PICK h : Steps(h, m - 1, begin, g)
    BY <1>2, <2>1
  <2> DEFINE f == [i \in 0..m |-> IF i = m THEN g[<<h[m-1], m>>] ELSE h[i]]
  <2>3. ASSUME NEW i \in 0..m PROVE f[i] = IF i = 0 THEN begin ELSE g[<<f[i-1], i>>]
    <3>1. \A k \in 0..(m - 1) : k \in 0..m /\ k # m
      BY <2>1
    <3>2. \A k \in 0..(m - 1) : f[k] = h[k]
      BY <3>1
    <3>3. f[m] = g[<<h[m-1], m>>] /\ m - 1 \in 0..(m - 1) /\ m # 0
      BY <1>4, <2>1
    <3> HIDE DEF f
    <3>4. CASE i = m
      BY <3>2, <3>3, <3>4
    <3>5. CASE i # m /\ i = 0
      <4>1. 0 \in 0..(m - 1)
        BY <2>1
      <4>2. h[0] = begin
        BY <2>1, <2>2, StepsAre
      <4> QED
        BY <3>2, <3>5, <4>1, <4>2
    <3>6. CASE i # m /\ i # 0
      <4>1. i \in 1..(m - 1) /\ i \in 0..(m - 1) /\ i - 1 \in 0..(m - 1)
        BY <2>1, <3>6
      <4>2. h[i] = g[<<h[i-1], i>>]
        BY <2>1, <2>2, <4>1, StepsAre
      <4> QED
        BY <3>2, <3>6, <4>1, <4>2
    <3> QED
      BY <3>4, <3>5, <3>6
  <2>4. Steps(f, m, begin, g)
    <3> DEFINE d == [i \in 0..m |-> IF i = 0 THEN begin ELSE g[<<f[i-1], i>>]]
    <3>1. \A i \in 0..m : f[i] = d[i]
      BY <2>3
    <3>2. f = [i \in 0..m |-> f[i]]
      OBVIOUS
    <3>3. d = [i \in 0..m |-> d[i]]
      OBVIOUS
    <3>4. f = d
      <4> HIDE DEF f, d
      <4> QED
        BY <3>1, <3>2, <3>3
    <3> QED
      BY <3>4 DEF Steps
  <2> QED
    BY <1>2, <2>4
<1> QED
  BY <1>3, <1>4

\* What holds at the beginning of a loop and is kept by every step holds at its end.
LEMMA LoopKeeps ==
  ASSUME NEW n \in Nat, NEW good \in SUBSET (0..n), 0 \in good,
         \A i \in 1..n : i - 1 \in good => i \in good
  PROVE  \A i \in 0..n : i \in good
<1> DEFINE T == { k \in 0..n : k \notin good }
<1>1. SUFFICES ASSUME T # {} PROVE FALSE
  OBVIOUS
<1>2. PICK m \in T : \A k \in T : m <= k
  <2>1. T \in SUBSET Nat
    OBVIOUS
  <2> HIDE DEF T
  <2> QED
    BY <1>1, <2>1, LeastNumber
<1>3. m \in 1..n /\ m - 1 \in 0..n /\ ~(m <= m - 1)
  OBVIOUS
<1>4. m - 1 \in good
  BY <1>2, <1>3
<1> QED
  BY <1>3, <1>4

-----------------------------------------------------------------------------
(* calc()                                                                  *)

\* What calc() sees: there is a zero at its end.
IsString(b) == b \in Seq(Characters) /\ Len(b) \in Nat \ {0} /\ b[Len(b)] = ZERO

\* The characters before the first zero.
LEMMA StrlenIs ==
  ASSUME NEW b \in Seq(Characters), NEW k \in 1..Len(b), b[k] = ZERO,
         \A i \in 1..k-1 : b[i] # ZERO
  PROVE  strlen(b) = k - 1
<1> DEFINE zeros == { i \in DOMAIN b : b[i] = ZERO }
<1>1. k \in zeros /\ \A i \in zeros : i \in Int /\ k <= i
  <2>1. DOMAIN b = 1..Len(b) /\ Len(b) \in Nat
    OBVIOUS
  <2> QED
    BY <2>1
<1>2. strlen(b) = Min(zeros) - 1
  BY DEF strlen
<1> HIDE DEF zeros
<1>3. Min(zeros) = k
  <2>1. \A v \in zeros : (\A z \in zeros : v <= z) => v = k
    BY <1>1
  <2> QED
    BY <1>1, <2>1 DEF Min
<1> QED
  BY <1>2, <1>3

LEMMA StrlenTyped ==
  ASSUME NEW b, IsString(b)
  PROVE  strlen(b) \in Nat /\ strlen(b) < Len(b) /\ \A i \in 1..strlen(b) : b[i] \in Characters \ {ZERO}
<1> DEFINE T == { i \in 1..Len(b) : b[i] = ZERO }
<1>1. b \in Seq(Characters) /\ Len(b) \in Nat /\ Len(b) \in 1..Len(b) /\ b[Len(b)] = ZERO
  BY DEF IsString
<1>2. PICK k \in T : \A i \in T : k <= i
  <2>1. T \in SUBSET Nat /\ T # {}
    BY <1>1
  <2> HIDE DEF T
  <2> QED
    BY <2>1, LeastNumber
<1>3. k \in 1..Len(b) /\ b[k] = ZERO
  OBVIOUS
<1>4. ASSUME NEW i \in 1..k-1 PROVE b[i] # ZERO
  <2>1. i \in 1..Len(b) /\ ~(k <= i)
    BY <1>1, <1>3
  <2> QED
    BY <1>2, <2>1
<1>5. strlen(b) = k - 1
  BY <1>1, <1>3, <1>4, StrlenIs
<1>6. ASSUME NEW i \in 1..k-1 PROVE b[i] \in Characters
  <2>1. i \in 1..Len(b)
    BY <1>1, <1>3
  <2> QED
    BY <1>1, <2>1
<1> QED
  BY <1>1, <1>3, <1>4, <1>5, <1>6

\* What calc() can have in its variables.
Looks == [state : {0, 1}, num1 : Ints, num2 : Ints, op : Operators \cup {NULL, " "}]

LEMMA LongerTyped ==
  ASSUME NEW n \in Ints, NEW ch \in DOMAIN Digit
  PROVE  Longer(n, ch) \in Ints /\ Digit[ch] \in 0..9
<1>1. Digit[ch] \in 0..9
  BY CalculatorAssumption
<1>2. n * 10 + Digit[ch] \in Int
  BY <1>1, WidthIs
<1> QED
  BY <1>1, <1>2, WrapTyped DEF Longer

\* The cases of a character exclude each other.
LEMMA CharacterIs ==
  ASSUME NEW ch \in Characters \ {ZERO}
  PROVE  \/ ch = NL /\ ~IsDigit(ch)
         \/ ch # NL /\ IsDigit(ch)
         \/ ch # NL /\ ~IsDigit(ch) /\ ch \in Operators \cup {" "}
<1>1. DOMAIN Digit \cap (Operators \cup {NL, ZERO, " "}) = {}
  BY CalculatorAssumption
<1> QED
  BY <1>1 DEF IsDigit, Characters

LEMMA LookedIs ==
  ASSUME NEW calc \in Looks, NEW ch
  PROVE  /\ ch = NL => Looked(calc, ch) = calc
         /\ ch # NL /\ IsDigit(ch) /\ calc.state = 0
              => Looked(calc, ch) = [calc EXCEPT !.num1 = Longer(calc.num1, ch)]
         /\ ch # NL /\ IsDigit(ch) /\ calc.state = 1
              => Looked(calc, ch) = [calc EXCEPT !.num2 = Longer(calc.num2, ch)]
         /\ ch # NL /\ ~IsDigit(ch) => Looked(calc, ch) = [state |-> 1, num1 |-> calc.num1, num2 |-> calc.num2, op |-> ch]
<1>1. calc.state \in {0, 1}
  BY DEF Looks
<1>2. ~(0 = 1)
  OBVIOUS
<1>3. ASSUME ch = NL PROVE Looked(calc, ch) = calc
  <2>1. ~IsDigit(ch)
    BY <1>3, CalculatorAssumption DEF IsDigit
  <2> QED
    BY <1>3, <2>1 DEF Looked
<1>4. ASSUME ch # NL, IsDigit(ch), calc.state = 0
      PROVE  Looked(calc, ch) = [calc EXCEPT !.num1 = Longer(calc.num1, ch)]
  BY <1>2, <1>4 DEF Looked
<1>5. ASSUME ch # NL, IsDigit(ch), calc.state = 1
      PROVE  Looked(calc, ch) = [calc EXCEPT !.num2 = Longer(calc.num2, ch)]
  BY <1>2, <1>5 DEF Looked
<1>6. ASSUME ch # NL, ~IsDigit(ch)
      PROVE  Looked(calc, ch) = [state |-> 1, num1 |-> calc.num1, num2 |-> calc.num2, op |-> ch]
  BY <1>6 DEF Looked
<1> QED
  BY <1>3, <1>4, <1>5, <1>6

LEMMA LookedTyped ==
  ASSUME NEW calc \in Looks, NEW ch \in Characters \ {ZERO}
  PROVE  Looked(calc, ch) \in Looks
<1>1. /\ calc.state \in {0, 1} /\ calc.num1 \in Ints /\ calc.num2 \in Ints
      /\ calc.op \in Operators \cup {NULL, " "}
  BY DEF Looks
<1>2. CASE ch = NL
  BY <1>2, LookedIs
<1>3. CASE ch # NL /\ IsDigit(ch)
  <2>1. Longer(calc.num1, ch) \in Ints /\ Longer(calc.num2, ch) \in Ints
    BY <1>1, <1>3, LongerTyped DEF IsDigit
  <2>2. /\ [calc EXCEPT !.num1 = Longer(calc.num1, ch)] \in Looks
        /\ [calc EXCEPT !.num2 = Longer(calc.num2, ch)] \in Looks
    BY <2>1 DEF Looks
  <2> QED
    BY <1>1, <1>3, <2>2, LookedIs
<1>4. CASE ch # NL /\ ~IsDigit(ch)
  <2>1. ch \in Operators \cup {NULL, " "}
    BY <1>4, CharacterIs
  <2>2. [state |-> 1, num1 |-> calc.num1, num2 |-> calc.num2, op |-> ch] \in Looks
    BY <2>1 DEF Looks
  <2> QED
    BY <1>4, <2>2, LookedIs
<1> QED
  BY <1>2, <1>3, <1>4

LEMMA BeginTyped == Begin \in Looks
BY WidthIs DEF Begin, Looks

\* The values of the variables of calc() in the course of the loop.
Loop(f, b) == f = [i \in 0..strlen(b) |-> IF i = 0 THEN Begin ELSE Looked(f[i-1], b[i])]

LEMMA LoopExists ==
  ASSUME NEW b, IsString(b)
  PROVE  \E f : Loop(f, b) /\ Parsed(b) = f[strlen(b)]
<1> DEFINE n == strlen(b)
<1>1. n \in Nat
  BY StrlenTyped
<1>2. \E f : Loop(f, b)
  <2> DEFINE g == [p \in Looks \X (1..n) |-> Looked(p[1], b[p[2]])]
  <2>1. PICK f : Steps(f, n, Begin, g)
    <3> HIDE DEF g, n
    <3> QED
      BY <1>1, StepsExist
  <2>2. f[0] = Begin /\ \A i \in 1..n : i - 1 \in 0..n /\ f[i] = g[<<f[i-1], i>>]
    <3> HIDE DEF g, n
    <3> QED
      BY <1>1, <2>1, StepsAre
  <2> DEFINE good == { i \in 0..n : f[i] \in Looks }
  <2>3. ASSUME NEW i \in 1..n, f[i-1] \in Looks
        PROVE  f[i] = Looked(f[i-1], b[i]) /\ f[i] \in Looks
    <3>1. g[<<f[i-1], i>>] = Looked(f[i-1], b[i])
      BY <2>3
    <3>2. b[i] \in Characters \ {ZERO}
      BY StrlenTyped
    <3>3. Looked(f[i-1], b[i]) \in Looks
      BY <2>3, <3>2, LookedTyped
    <3> QED
      BY <2>2, <3>1, <3>3
  <2>4. \A i \in 0..n : i \in good
    <3>1. good \in SUBSET (0..n) /\ 0 \in good
      BY <1>1, <2>2, BeginTyped
    <3>2. \A i \in 1..n : i - 1 \in good => i \in good
      BY <2>3
    <3> HIDE DEF good, n
    <3> QED
      BY <1>1, <3>1, <3>2, LoopKeeps
  <2>5. ASSUME NEW i \in 0..n PROVE f[i] = IF i = 0 THEN Begin ELSE Looked(f[i-1], b[i])
    <3>1. CASE i = 0
      BY <2>2, <3>1
    <3>2. CASE i # 0
      <4>1. i \in 1..n /\ i - 1 \in 0..n
        BY <1>1, <3>2
      <4> QED
        BY <2>3, <2>4, <3>2, <4>1
    <3> QED
      BY <3>1, <3>2
  <2>6. f = [i \in 0..n |-> f[i]]
    <3> HIDE DEF g
    <3> QED
      BY <2>1 DEF Steps
  <2> HIDE DEF g
  <2> DEFINE d == [i \in 0..n |-> IF i = 0 THEN Begin ELSE Looked(f[i-1], b[i])]
  <2>7. f = d
    <3>1. d = [i \in 0..n |-> d[i]] /\ \A i \in 0..n : d[i] = f[i]
      BY <2>5
    <3> HIDE DEF d
    <3> QED
      BY <2>6, <3>1
  <2>8. Loop(f, b)
    BY <2>7 DEF Loop
  <2> QED
    BY <2>8
<1> DEFINE h == CHOOSE f : f = [i \in 0..strlen(b) |-> IF i = 0 THEN Begin ELSE Looked(f[i-1], b[i])]
<1>3. Parsed(b) = h[strlen(b)]
  BY DEF Parsed
<1>4. h = [i \in 0..strlen(b) |-> IF i = 0 THEN Begin ELSE Looked(h[i-1], b[i])]
  <2>1. \E f : f = [i \in 0..strlen(b) |-> IF i = 0 THEN Begin ELSE Looked(f[i-1], b[i])]
    BY <1>2 DEF Loop
  <2> QED
    BY <2>1
<1> HIDE DEF h
<1> QED
  BY <1>3, <1>4 DEF Loop

LEMMA LoopIs ==
  ASSUME NEW b, IsString(b), NEW f, Loop(f, b)
  PROVE  /\ f[0] = Begin /\ \A i \in 0..strlen(b) : f[i] \in Looks
         /\ \A i \in 1..strlen(b) : i - 1 \in 0..strlen(b) /\ f[i] = Looked(f[i-1], b[i])
<1> DEFINE n == strlen(b)
           good == { i \in 0..n : f[i] \in Looks }
<1>1. n \in Nat /\ \A i \in 1..n : b[i] \in Characters \ {ZERO}
  BY StrlenTyped
<1>2. \A i \in 0..n : f[i] = IF i = 0 THEN Begin ELSE Looked(f[i-1], b[i])
  BY DEF Loop
<1> HIDE DEF n
<1>3. 0 \in 0..n /\ \A i \in 1..n : i \in 0..n /\ i - 1 \in 0..n /\ i # 0
  BY <1>1
<1>4. f[0] = Begin /\ \A i \in 1..n : f[i] = Looked(f[i-1], b[i])
  BY <1>2, <1>3
<1>5. ASSUME NEW i \in 1..n, i - 1 \in good PROVE i \in good
  BY <1>1, <1>3, <1>4, <1>5, LookedTyped
<1>6. good \in SUBSET (0..n) /\ 0 \in good
  BY <1>3, <1>4, BeginTyped
<1>7. \A i \in 0..n : i \in good
  <2> HIDE DEF good
  <2> QED
    BY <1>1, <1>5, <1>6, LoopKeeps
<1> QED
  BY <1>3, <1>4, <1>7 DEF n

LEMMA ParsedTyped ==
  ASSUME NEW b, IsString(b)
  PROVE  Parsed(b) \in Looks
<1>1. PICK f : Loop(f, b) /\ Parsed(b) = f[strlen(b)]
  BY LoopExists
<1>2. strlen(b) \in 0..strlen(b)
  BY StrlenTyped
<1> QED
  BY <1>1, <1>2, LoopIs


-----------------------------------------------------------------------------
(* A line of two numbers.                                                  *)

\* What a number is after each of its digits.
Digits(f, s) ==
  /\ f[0] = 0
  /\ \A i \in 0..Len(s) : f[i] \in Nat
  /\ \A i \in 1..Len(s) : f[i] = 10 * f[i-1] + Digit[s[i]]

LEMMA DecimalIs ==
  ASSUME NEW s, Len(s) \in Nat, \A i \in 1..Len(s) : IsDigit(s[i])
  PROVE  \E f : Digits(f, s) /\ Decimal(s) = f[Len(s)]
<1> DEFINE n == Len(s)
           g == [p \in Nat \X (1..n) |-> 10 * p[1] + Digit[s[p[2]]]]
<1>1. ASSUME NEW i \in 1..n PROVE Digit[s[i]] \in Nat
  <2>1. s[i] \in DOMAIN Digit
    BY DEF IsDigit
  <2>2. Digit[s[i]] \in 0..9
    BY <2>1, CalculatorAssumption
  <2> QED
    BY <2>2
<1>2. \A f : Steps(f, n, 0, g) => Digits(f, s) /\
        f = [i \in 0..n |-> IF i = 0 THEN 0 ELSE 10 * f[i-1] + Digit[s[i]]]
  <2> TAKE f
  <2> HAVE Steps(f, n, 0, g)
  <2> DEFINE good == { i \in 0..n : f[i] \in Nat }
  <2>1. f[0] = 0 /\ \A i \in 1..n : i - 1 \in 0..n /\ f[i] = g[<<f[i-1], i>>]
    <3> HIDE DEF g, n
    <3>1. n \in Nat
      BY DEF n
    <3> QED
      BY <3>1, StepsAre
  <2>2. ASSUME NEW i \in 1..n, f[i-1] \in Nat
        PROVE  f[i] = 10 * f[i-1] + Digit[s[i]] /\ f[i] \in Nat
    <3>1. g[<<f[i-1], i>>] = 10 * f[i-1] + Digit[s[i]]
      BY <2>2
    <3>2. PICK k \in Nat : k = f[i-1]
      BY <2>2
    <3>3. PICK d \in Nat : d = Digit[s[i]]
      BY <1>1
    <3>4. 10 * k + d \in Nat
      OBVIOUS
    <3> QED
      BY <2>1, <3>1, <3>2, <3>3, <3>4
  <2>3. \A i \in 0..n : i \in good
    <3>1. good \in SUBSET (0..n) /\ 0 \in good
      BY <2>1
    <3>2. \A i \in 1..n : i - 1 \in good => i \in good
      BY <2>2
    <3>3. n \in Nat
      OBVIOUS
    <3> HIDE DEF good, n
    <3> QED
      BY <3>1, <3>2, <3>3, LoopKeeps
  <2>4. \A i \in 0..n : f[i] \in Nat
    BY <2>3
  <2>5. \A i \in 1..n : f[i] = 10 * f[i-1] + Digit[s[i]]
    <3>1. \A i \in 1..n : i - 1 \in 0..n
      BY <2>1
    <3> QED
      BY <2>2, <2>4, <3>1
  <2>6. f = [i \in 0..n |-> f[i]]
    <3> HIDE DEF g, n
    <3> QED
      BY DEF Steps
  <2> HIDE DEF g
  <2> DEFINE d == [i \in 0..n |-> IF i = 0 THEN 0 ELSE 10 * f[i-1] + Digit[s[i]]]
  <2>7. f = d
    <3>1. \A i \in 0..n : i = 0 \/ i \in 1..n
      OBVIOUS
    <3>2. \A i \in 0..n : d[i] = f[i]
      BY <2>1, <2>5, <3>1
    <3>3. d = [i \in 0..n |-> d[i]]
      OBVIOUS
    <3> HIDE DEF d
    <3> QED
      BY <2>6, <3>2, <3>3
  <2> QED
    BY <2>1, <2>4, <2>5, <2>7 DEF Digits
<1>3. \E f : Steps(f, n, 0, g)
  <2>1. n \in Nat
    OBVIOUS
  <2> HIDE DEF n, g
  <2> QED
    BY <2>1, StepsExist
<1> HIDE DEF g
<1> DEFINE h == CHOOSE f : f = [i \in 0..Len(s) |-> IF i = 0 THEN 0 ELSE 10 * f[i-1] + Digit[s[i]]]
<1>4. Decimal(s) = h[Len(s)]
  BY DEF Decimal
<1>5. h = [i \in 0..Len(s) |-> IF i = 0 THEN 0 ELSE 10 * h[i-1] + Digit[s[i]]]
  <2>1. \E f : f = [i \in 0..Len(s) |-> IF i = 0 THEN 0 ELSE 10 * f[i-1] + Digit[s[i]]]
    BY <1>2, <1>3
  <2> QED
    BY <2>1
<1> HIDE DEF h
<1>6. \E f : Steps(f, n, 0, g) /\ f = h
  <2> SUFFICES Steps(h, n, 0, g)
    OBVIOUS
  <2>1. PICK f : Steps(f, n, 0, g)
    BY <1>3
  <2>2. Digits(f, s) /\ f = [i \in 0..n |-> IF i = 0 THEN 0 ELSE 10 * f[i-1] + Digit[s[i]]]
    BY <1>2, <2>1
  <2> DEFINE same == { i \in 0..n : f[i] = h[i] }
  <2>3. f[0] = 0 /\ \A i \in 1..n : f[i] = 10 * f[i-1] + Digit[s[i]]
    BY <2>2 DEF Digits
  <2>4. \A i \in 1..n : i # 0 /\ i \in 0..n
    OBVIOUS
  <2>5. 0 \in 0..n
    OBVIOUS
  <2>6. h[0] = 0 /\ \A i \in 1..n : h[i] = 10 * h[i-1] + Digit[s[i]]
    <3>1. \A i \in 0..n : h[i] = IF i = 0 THEN 0 ELSE 10 * h[i-1] + Digit[s[i]]
      BY <1>5
    <3> QED
      BY <2>4, <2>5, <3>1
  <2>7. \A i \in 0..n : i \in same
    <3>1. same \in SUBSET (0..n) /\ 0 \in same
      BY <2>3, <2>5, <2>6
    <3>2. ASSUME NEW i \in 1..n, i - 1 \in same PROVE i \in same
      <4>1. f[i-1] = h[i-1]
        BY <3>2
      <4>2. f[i] = 10 * h[i-1] + Digit[s[i]]
        BY <2>3, <4>1
      <4>3. h[i] = 10 * h[i-1] + Digit[s[i]]
        BY <2>6
      <4> QED
        BY <2>4, <4>2, <4>3
    <3>3. n \in Nat
      OBVIOUS
    <3> HIDE DEF same, n
    <3> QED
      BY <3>1, <3>2, <3>3, LoopKeeps
  <2>8. f = [i \in 0..n |-> f[i]] /\ h = [i \in 0..n |-> h[i]]
    <3>1. f = [i \in 0..n |-> f[i]]
      BY <2>2
    <3>2. h = [i \in 0..n |-> h[i]]
      BY <1>5
    <3> QED
      BY <3>1, <3>2
  <2>9. f = h
    BY <2>7, <2>8
  <2> QED
    BY <2>1, <2>9
<1> QED
  BY <1>2, <1>4, <1>6

\* A piece of a sequence, place by place.
LEMMA PieceFrom ==
  ASSUME NEW S, NEW s \in Seq(S), NEW m \in Nat, NEW n \in Nat, m <= n, n <= Len(s)
  PROVE  /\ SubSeq(s, m + 1, n) \in Seq(S) /\ Len(SubSeq(s, m + 1, n)) = n - m
         /\ \A k \in 1..(n - m) : SubSeq(s, m + 1, n)[k] = s[m + k]
<1> DEFINE q == SubSeq(s, m + 1, n)
<1>1. \A i \in m+1..n : s[i] \in S
  OBVIOUS
<1>2. /\ q \in Seq(S) /\ Len(q) = n - (m + 1) + 1
      /\ \A k \in 1..(n - (m + 1) + 1) : q[k] = s[(m + 1) + k - 1]
  BY <1>1
<1>3. n - (m + 1) + 1 = n - m /\ \A k \in 1..(n - m) : (m + 1) + k - 1 = m + k
  OBVIOUS
<1> HIDE DEF q
<1>4. q \in Seq(S) /\ Len(q) = n - m /\ \A k \in 1..(n - m) : q[k] = s[m + k]
  BY <1>2, <1>3
<1> QED
  BY <1>4 DEF q

\* The number that stands in a line behind the place m.
LEMMA NumberIs ==
  ASSUME NEW t \in Seq(Characters), NEW m \in Nat, NEW n \in Nat, m <= n, n <= Len(t),
         \A k \in 1..(n - m) : IsDigit(t[m + k])
  PROVE  \E d : /\ d[0] = 0 /\ \A k \in 0..(n - m) : d[k] \in Nat
                /\ \A k \in 1..(n - m) : d[k] = 10 * d[k-1] + Digit[t[m + k]]
                /\ Decimal(SubSeq(t, m + 1, n)) = d[n - m]
<1> DEFINE s == SubSeq(t, m + 1, n)
<1>1. Len(s) = n - m /\ \A k \in 1..(n - m) : s[k] = t[m + k]
  BY PieceFrom
<1>2. Len(s) \in Nat /\ \A k \in 1..Len(s) : IsDigit(s[k])
  <2>1. n - m \in Nat
    OBVIOUS
  <2>2. \A k \in 1..(n - m) : IsDigit(s[k])
    <3> HIDE DEF s
    <3> QED
      BY <1>1
  <2> HIDE DEF s
  <2> QED
    BY <1>1, <2>1, <2>2
<1> HIDE DEF s
<1>3. PICK d : Digits(d, s) /\ Decimal(s) = d[Len(s)]
  BY <1>2, DecimalIs
<1>4. /\ d[0] = 0 /\ \A k \in 0..(n - m) : d[k] \in Nat
      /\ \A k \in 1..(n - m) : d[k] = 10 * d[k-1] + Digit[t[m + k]]
  BY <1>1, <1>3 DEF Digits
<1>5. Decimal(SubSeq(t, m + 1, n)) = d[n - m]
  BY <1>1, <1>3 DEF s
<1> QED
  BY <1>4, <1>5

LEMMA TextIs ==
  ASSUME NEW t \in Texts
  PROVE  /\ t \in Seq(Characters) /\ Len(t) \in 1..BLOCK-1 /\ Len(t) \in Nat /\ t[Len(t)] = NL
         /\ \A i \in 1..Len(t) : t[i] \in Characters \ {ZERO}
<1>1. t \in Seq(Characters) /\ Len(t) \in 1..BLOCK-1 /\ t[Len(t)] = NL /\ ~Contains(t, ZERO)
  BY CalculatorAssumption
<1>2. \A i \in 1..Len(t) : t[i] # ZERO
  BY <1>1 DEF Contains
<1> QED
  BY <1>1, <1>2

\* The operator of a line of two numbers, and the characters around it.
LEMMA MiddleIs ==
  ASSUME NEW t \in Texts, WellFormed(t)
  PROVE  /\ Middle(t) \in 2..Len(t) - 2 /\ t[Middle(t)] \in Operators
         /\ \A j \in 1..Len(t) - 1 : j = Middle(t) \/ IsDigit(t[j])
<1>1. PICK i \in 2..Len(t) - 2 :
        t[i] \in Operators /\ \A j \in 1..Len(t) - 1 : j = i \/ IsDigit(t[j])
  BY DEF WellFormed
<1>2. \A j \in DOMAIN t : t[j] \in Operators => j = i
  <2> SUFFICES ASSUME NEW j \in DOMAIN t, t[j] \in Operators, j # i PROVE FALSE
    OBVIOUS
  <2>1. DOMAIN t = 1..Len(t) /\ Len(t) \in Nat /\ t[Len(t)] = NL
    BY TextIs
  <2>2. ~IsDigit(t[j]) /\ t[j] # NL
    BY CalculatorAssumption DEF IsDigit
  <2>3. j \in 1..Len(t) - 1
    BY <2>1, <2>2
  <2> QED
    BY <1>1, <2>2, <2>3
<1>3. i \in DOMAIN t
  <2>1. DOMAIN t = 1..Len(t) /\ Len(t) \in Nat
    BY TextIs
  <2> QED
    BY <2>1
<1>4. Middle(t) = i
  BY <1>1, <1>2, <1>3 DEF Middle
<1> QED
  BY <1>1, <1>4

\* What calc() has after i characters of the line t, whose numbers are d and e.
Expected(t, d, e, i) ==
  IF i < Middle(t)
  THEN [state |-> 0, num1 |-> Wrap(d[i]), num2 |-> 0, op |-> NULL]
  ELSE [state |-> 1, num1 |-> Wrap(d[Middle(t) - 1]), num2 |-> Wrap(e[i - Middle(t)]),
        op |-> t[Middle(t)]]

\* One character of a line of two numbers.
LEMMA ExpectedNext ==
  ASSUME NEW t \in Texts, WellFormed(t), NEW d, NEW e, d[0] = 0, e[0] = 0,
         \A k \in 0..Middle(t) - 1 : d[k] \in Nat,
         \A k \in 1..Middle(t) - 1 : d[k] = 10 * d[k-1] + Digit[t[k]],
         \A k \in 0..(Len(t) - 1 - Middle(t)) : e[k] \in Nat,
         \A k \in 1..(Len(t) - 1 - Middle(t)) : e[k] = 10 * e[k-1] + Digit[t[Middle(t) + k]],
         NEW i \in 1..Len(t) - 1, Expected(t, d, e, i - 1) \in Looks
  PROVE  Looked(Expected(t, d, e, i - 1), t[i]) = Expected(t, d, e, i)
<1> DEFINE mid == Middle(t)
           calc == Expected(t, d, e, i - 1)
<1>1. /\ Len(t) \in Nat /\ mid \in 2..Len(t) - 2 /\ t[mid] \in Operators
      /\ \A j \in 1..Len(t) - 1 : j = mid \/ IsDigit(t[j])
      /\ i \in Int /\ 1 <= i /\ i <= Len(t) - 1
  BY TextIs, MiddleIs
<1>2. \A ch : ch \in Operators \/ IsDigit(ch) => ch # NL
  BY CalculatorAssumption DEF IsDigit
<1>3. \A ch : ch \in Operators => ~IsDigit(ch)
  BY CalculatorAssumption DEF IsDigit
<1>4. \A n \in Nat : \A ch : IsDigit(ch) => Longer(Wrap(n), ch) = Wrap(10 * n + Digit[ch])
  <2> SUFFICES ASSUME NEW n \in Nat, NEW ch, IsDigit(ch)
               PROVE  Longer(Wrap(n), ch) = Wrap(10 * n + Digit[ch])
    OBVIOUS
  <2>1. PICK v \in Int : v = Digit[ch]
    BY LongerTyped, WidthIs DEF IsDigit
  <2>2. Wrap(Wrap(n) * 10 + v) = Wrap(10 * n + v)
    <3>1. n \in Int
      OBVIOUS
    <3> QED
      BY <2>1, <3>1, LongerWraps, Zenon
  <2> QED
    BY <2>1, <2>2 DEF Longer
<1> HIDE DEF mid
<1>8. calc \in Looks
  OBVIOUS
<1>5. CASE i < mid
  <2>1. IsDigit(t[i]) /\ t[i] # NL
    BY <1>1, <1>2, <1>5
  <2>2. i - 1 < mid /\ i - 1 \in 0..mid - 1 /\ i \in 1..mid - 1
    BY <1>1, <1>5
  <2>3. calc = [state |-> 0, num1 |-> Wrap(d[i-1]), num2 |-> 0, op |-> NULL]
    BY <2>2 DEF Expected, mid
  <2>4. Longer(Wrap(d[i-1]), t[i]) = Wrap(d[i])
    <3>1. d[i-1] \in Nat /\ d[i] = 10 * d[i-1] + Digit[t[i]]
      BY <2>2 DEF mid
    <3>2. Longer(Wrap(d[i-1]), t[i]) = Wrap(10 * d[i-1] + Digit[t[i]])
      BY <1>4, <2>1, <3>1
    <3> QED
      BY <3>1, <3>2
  <2>5. Looked(calc, t[i]) = [calc EXCEPT !.num1 = Longer(calc.num1, t[i])]
    <3>1. calc.state = 0
      BY <2>3
    <3> HIDE DEF calc
    <3> QED
      BY <1>8, <2>1, <3>1, LookedIs
  <2>6. Expected(t, d, e, i) = [state |-> 0, num1 |-> Wrap(d[i]), num2 |-> 0, op |-> NULL]
    BY <1>5 DEF Expected, mid
  <2> QED
    BY <2>3, <2>4, <2>5, <2>6
<1>6. CASE i = mid
  <2>1. ~IsDigit(t[i]) /\ t[i] # NL
    BY <1>1, <1>2, <1>3, <1>6
  <2>2. i - 1 < mid /\ ~(i < mid) /\ i - mid = 0
    BY <1>1, <1>6
  <2>3. calc = [state |-> 0, num1 |-> Wrap(d[i-1]), num2 |-> 0, op |-> NULL]
    BY <2>2 DEF Expected, mid
  <2>4. Looked(calc, t[i]) = [state |-> 1, num1 |-> calc.num1, num2 |-> calc.num2, op |-> t[i]]
    <3> HIDE DEF calc
    <3> QED
      BY <1>8, <2>1, LookedIs
  <2>5. Expected(t, d, e, i) = [state |-> 1, num1 |-> Wrap(d[mid-1]), num2 |-> Wrap(e[0]), op |-> t[mid]]
    BY <2>2 DEF Expected, mid
  <2>6. Wrap(e[0]) = 0
    BY WidthIs, WrapSame
  <2>7. calc.num1 = Wrap(d[i-1]) /\ calc.num2 = 0
    BY <2>3
  <2> HIDE DEF calc
  <2>8. Looked(calc, t[i]) = Expected(t, d, e, i)
    BY <1>6, <2>4, <2>5, <2>6, <2>7
  <2> QED
    BY <2>8 DEF calc
<1>7. CASE i > mid
  <2>1. IsDigit(t[i]) /\ t[i] # NL
    BY <1>1, <1>2, <1>7
  <2>2. PICK k \in Int : k = i - mid
    BY <1>1
  <2>3. /\ ~(i - 1 < mid) /\ ~(i < mid) /\ k - 1 \in 0..(Len(t) - 1 - mid) /\ k \in 1..(Len(t) - 1 - mid)
        /\ (i - 1) - mid = k - 1 /\ mid + k = i
    BY <1>1, <1>7, <2>2
  <2>4. calc = [state |-> 1, num1 |-> Wrap(d[mid-1]), num2 |-> Wrap(e[k-1]), op |-> t[mid]]
    BY <2>3 DEF Expected, mid
  <2>5. Longer(Wrap(e[k-1]), t[i]) = Wrap(e[k])
    <3>1. e[k-1] \in Nat /\ e[k] = 10 * e[k-1] + Digit[t[i]]
      BY <2>3 DEF mid
    <3>2. Longer(Wrap(e[k-1]), t[i]) = Wrap(10 * e[k-1] + Digit[t[i]])
      BY <1>4, <2>1, <3>1
    <3> QED
      BY <3>1, <3>2
  <2>6. Looked(calc, t[i]) = [calc EXCEPT !.num2 = Longer(calc.num2, t[i])]
    <3>1. calc.state = 1
      BY <2>4
    <3> HIDE DEF calc
    <3> QED
      BY <1>8, <2>1, <3>1, LookedIs
  <2>7. Expected(t, d, e, i) = [state |-> 1, num1 |-> Wrap(d[mid-1]), num2 |-> Wrap(e[k]), op |-> t[mid]]
    BY <2>2, <2>3 DEF Expected, mid
  <2> QED
    BY <2>4, <2>5, <2>6, <2>7
<1> QED
  BY <1>1, <1>5, <1>6, <1>7 DEF mid

\* What calc() makes of a string that begins with such a line and a zero.
LEMMA LineParsed ==
  ASSUME NEW t \in Texts, WellFormed(t), NEW b, IsString(b), strlen(b) = Len(t),
         \A i \in 1..Len(t) : b[i] = t[i]
  PROVE  /\ Operand1(t) \in Nat /\ Operand2(t) \in Nat
         /\ Parsed(b) = [state |-> 1, num1 |-> Wrap(Operand1(t)), num2 |-> Wrap(Operand2(t)),
                         op |-> t[Middle(t)]]
<1> DEFINE mid == Middle(t)
           n == Len(t) - 1
<1>1. /\ t \in Seq(Characters) /\ Len(t) \in Nat /\ mid \in 2..Len(t) - 2 /\ t[mid] \in Operators
      /\ \A j \in 1..n : j = mid \/ IsDigit(t[j])
      /\ t[Len(t)] = NL
  BY TextIs, MiddleIs
<1> HIDE DEF mid
<1>2. /\ n \in Nat /\ mid \in Nat /\ mid - 1 \in Nat /\ 0 <= mid - 1 /\ mid - 1 <= Len(t)
      /\ mid <= n /\ n <= Len(t) /\ (mid - 1) - 0 = mid - 1 /\ 0 + 1 = 1
  BY <1>1
<1>3. PICK d : /\ d[0] = 0 /\ \A k \in 0..mid - 1 : d[k] \in Nat
               /\ \A k \in 1..mid - 1 : d[k] = 10 * d[k-1] + Digit[t[k]]
               /\ Operand1(t) = d[mid - 1]
  <2>1. \A k \in 1..((mid - 1) - 0) : 0 + k = k /\ IsDigit(t[0 + k])
    <3> SUFFICES ASSUME NEW k \in 1..((mid - 1) - 0) PROVE 0 + k = k /\ IsDigit(t[0 + k])
      OBVIOUS
    <3>1. 0 + k = k /\ k \in 1..n /\ k # mid
      BY <1>1, <1>2
    <3> QED
      BY <1>1, <3>1
  <2>2. \E d : /\ d[0] = 0 /\ \A k \in 0..((mid - 1) - 0) : d[k] \in Nat
               /\ \A k \in 1..((mid - 1) - 0) : d[k] = 10 * d[k-1] + Digit[t[0 + k]]
               /\ Decimal(SubSeq(t, 0 + 1, mid - 1)) = d[(mid - 1) - 0]
    <3>1. /\ t \in Seq(Characters) /\ 0 \in Nat /\ mid - 1 \in Nat
          /\ 0 <= mid - 1 /\ mid - 1 <= Len(t)
          /\ \A k \in 1..((mid - 1) - 0) : IsDigit(t[0 + k])
      BY <1>1, <1>2, <2>1
    <3> QED
      BY <3>1, NumberIs
  <2> QED
    BY <1>2, <2>1, <2>2 DEF Operand1, mid
<1>4. PICK e : /\ e[0] = 0 /\ \A k \in 0..(n - mid) : e[k] \in Nat
               /\ \A k \in 1..(n - mid) : e[k] = 10 * e[k-1] + Digit[t[mid + k]]
               /\ Operand2(t) = e[n - mid]
  <2>1. \A k \in 1..(n - mid) : IsDigit(t[mid + k])
    <3> SUFFICES ASSUME NEW k \in 1..(n - mid) PROVE IsDigit(t[mid + k])
      OBVIOUS
    <3>1. mid + k \in 1..n /\ mid + k # mid
      BY <1>1, <1>2
    <3> QED
      BY <1>1, <3>1
  <2> QED
    BY <1>1, <1>2, <2>1, NumberIs DEF Operand2, mid
<1>5. PICK f : Loop(f, b) /\ Parsed(b) = f[Len(t)]
  BY LoopExists
<1>6. /\ f[0] = Begin /\ \A i \in 0..Len(t) : f[i] \in Looks
      /\ \A i \in 1..Len(t) : i - 1 \in 0..Len(t) /\ f[i] = Looked(f[i-1], t[i])
  BY <1>5, LoopIs
<1> DEFINE good == { i \in 0..n : f[i] = Expected(t, d, e, i) }
<1>7. Expected(t, d, e, 0) = Begin
  <2>1. 0 < mid /\ Wrap(0) = 0
    BY <1>1, WidthIs, WrapSame
  <2> QED
    BY <1>3, <2>1 DEF Expected, Begin, mid
<1>8. ASSUME NEW i \in 1..n, i - 1 \in good PROVE i \in good
  <2>1. i \in 1..Len(t) /\ i \in 0..n /\ i - 1 \in 0..Len(t)
    BY <1>1
  <2>2. f[i-1] = Expected(t, d, e, i - 1)
    BY <1>8
  <2>3. Expected(t, d, e, i - 1) \in Looks
    BY <1>6, <2>1, <2>2
  <2>4. Looked(Expected(t, d, e, i - 1), t[i]) = Expected(t, d, e, i)
    BY <1>3, <1>4, <2>3, ExpectedNext DEF mid
  <2>5. f[i] = Expected(t, d, e, i)
    BY <1>6, <2>1, <2>2, <2>4
  <2> QED
    BY <2>1, <2>5
<1>9. f[n] = Expected(t, d, e, n)
  <2>1. good \in SUBSET (0..n) /\ 0 \in good
    BY <1>2, <1>6, <1>7
  <2>2. n \in 0..n
    BY <1>2
  <2>3. \A i \in 0..n : i \in good
    <3> HIDE DEF good, n
    <3> QED
      BY <1>2, <1>8, <2>1, LoopKeeps
  <2> QED
    BY <2>2, <2>3
<1>10. f[Len(t)] = f[n]
  <2>1. Len(t) \in 1..Len(t) /\ n \in 0..Len(t)
    BY <1>1, <1>2
  <2>2. f[Len(t)] = Looked(f[n], NL) /\ f[n] \in Looks
    BY <1>1, <1>6, <2>1
  <2> QED
    BY <2>2, LookedIs
<1>11. Expected(t, d, e, n) = [state |-> 1, num1 |-> Wrap(Operand1(t)), num2 |-> Wrap(Operand2(t)),
                               op |-> t[Middle(t)]]
  <2>1. ~(n < mid)
    BY <1>1
  <2> QED
    BY <1>3, <1>4, <2>1 DEF Expected, mid
<1>12. Operand1(t) \in Nat /\ Operand2(t) \in Nat
  <2>1. mid - 1 \in 0..mid - 1 /\ n - mid \in 0..(n - mid)
    BY <1>1
  <2> QED
    BY <1>3, <1>4, <2>1
<1> QED
  BY <1>5, <1>9, <1>10, <1>11, <1>12

-----------------------------------------------------------------------------
(* Blocks and answers.                                                     *)

\* A line of numbers that has an answer.
Answerable(t) == WellFormed(t) /\ {Operand1(t), Operand2(t), Meant(t)} \subseteq Ints

LEMMA BlockSize == BLOCK \in Nat /\ BLOCK > 0
<1>1. BLOCK \in Nat \ {0}
  BY CalculatorAssumption
<1> QED
  BY <1>1

\* Two sequences in a row, place by place.
LEMMA JoinedAt ==
  ASSUME NEW S, NEW s \in Seq(S), NEW t \in Seq(S)
  PROVE  /\ s \o t \in Seq(S) /\ Len(s \o t) = Len(s) + Len(t)
         /\ \A i \in 1..Len(s) : (s \o t)[i] = s[i]
         /\ \A k \in 1..Len(t) : (s \o t)[Len(s) + k] = t[k]
OBVIOUS

\* What calc() sees in a buffer that holds the characters b, with m behind it.
LEMMA BufferSeen ==
  ASSUME NEW b \in Seq(Characters), Len(b) = BLOCK, NEW m \in Beyond
  PROVE  IsString(b \o m)
<1>1. m \in Seq(Characters) /\ m # <<>> /\ m[Len(m)] = ZERO
  BY CalculatorAssumption
<1>2. Len(m) \in Nat \ {0}
  BY <1>1
<1>3. /\ b \o m \in Seq(Characters) /\ Len(b \o m) = Len(b) + Len(m)
      /\ (b \o m)[Len(b) + Len(m)] = m[Len(m)]
  <2>1. Len(m) \in 1..Len(m)
    BY <1>2
  <2> QED
    BY <1>1, <2>1, JoinedAt
<1>4. Len(b) + Len(m) \in Nat \ {0}
  BY <1>2, BlockSize
<1> QED
  BY <1>1, <1>3, <1>4 DEF IsString

\* A block has the line at its front, and a zero behind it.
LEMMA BlockIs ==
  ASSUME NEW t \in Texts, NEW g \in Garbage
  PROVE  /\ Block(t, g) \in Seq(Characters) /\ Len(Block(t, g)) = BLOCK
         /\ Len(t) + 1 \in 1..BLOCK /\ Block(t, g)[Len(t) + 1] = ZERO
         /\ \A i \in 1..Len(t) : Block(t, g)[i] = t[i]
<1> DEFINE n == Len(t)
           x == Append(t, ZERO)
           y == SubSeq(g, n + 2, BLOCK)
           b == x \o y
<1>1. /\ t \in Seq(Characters) /\ n \in 1..BLOCK-1 /\ n \in Nat
      /\ \A i \in 1..n : t[i] \in Characters \ {ZERO}
  BY TextIs
<1>2. g \in Seq(Characters) /\ Len(g) = BLOCK /\ BLOCK \in Nat \ {0}
  BY CalculatorAssumption
<1>3. ZERO \in Characters
  BY DEF Characters
<1>4. /\ x \in Seq(Characters) /\ Len(x) = n + 1 /\ x[n + 1] = ZERO
      /\ \A i \in 1..n : x[i] = t[i]
  BY <1>1, <1>3
<1>5. /\ y \in Seq(Characters) /\ Len(y) = BLOCK - (n + 1)
      /\ \A k \in 1..BLOCK - (n + 1) : y[k] = g[(n + 1) + k]
  <2>1. n + 1 \in Nat /\ BLOCK \in Nat /\ n + 1 <= BLOCK /\ BLOCK <= Len(g) /\ (n + 1) + 1 = n + 2
    BY <1>1, <1>2
  <2>2. /\ SubSeq(g, (n + 1) + 1, BLOCK) \in Seq(Characters)
        /\ Len(SubSeq(g, (n + 1) + 1, BLOCK)) = BLOCK - (n + 1)
        /\ \A k \in 1..BLOCK - (n + 1) : SubSeq(g, (n + 1) + 1, BLOCK)[k] = g[(n + 1) + k]
    <3>1. PICK i \in Nat : i = n + 1 /\ i <= BLOCK
      BY <2>1
    <3>2. /\ SubSeq(g, i + 1, BLOCK) \in Seq(Characters) /\ Len(SubSeq(g, i + 1, BLOCK)) = BLOCK - i
          /\ \A k \in 1..BLOCK - i : SubSeq(g, i + 1, BLOCK)[k] = g[i + k]
      BY <1>2, <3>1, PieceFrom
    <3> QED
      BY <3>1, <3>2
  <2> QED
    BY <2>1, <2>2
<1> HIDE DEF n, x, y
<1>6. /\ b \in Seq(Characters) /\ Len(b) = Len(x) + Len(y)
      /\ \A i \in 1..Len(x) : b[i] = x[i]
      /\ \A k \in 1..Len(y) : b[Len(x) + k] = y[k]
  <2>1. x \in Seq(Characters) /\ y \in Seq(Characters)
    BY <1>4, <1>5
  <2> QED
    BY <2>1, JoinedAt
<1> HIDE DEF b
<1>7. Len(b) = BLOCK
  BY <1>1, <1>2, <1>4, <1>5, <1>6
<1>8. b[n + 1] = ZERO /\ \A i \in 1..n : b[i] = t[i]
  <2>1. n + 1 \in 1..Len(x) /\ \A i \in 1..n : i \in 1..Len(x)
    BY <1>1, <1>4
  <2> QED
    BY <1>4, <1>6, <2>1
<1>9. n + 1 \in 1..BLOCK
  BY <1>1, <1>2
<1>10. b = Block(t, g)
  BY DEF b, x, y, n, Block
<1> QED
  BY <1>6, <1>7, <1>8, <1>9, <1>10 DEF n

\* What strlen() sees of a block is the line, whatever stands behind the buffer.
LEMMA BlockSeen ==
  ASSUME NEW t \in Texts, NEW g \in Garbage, NEW m \in Beyond
  PROVE  /\ IsString(Block(t, g) \o m) /\ strlen(Block(t, g) \o m) = Len(t)
         /\ \A i \in 1..Len(t) : (Block(t, g) \o m)[i] = t[i]
<1> DEFINE b == Block(t, g)
           s == b \o m
           n == Len(t)
<1>1. /\ b \in Seq(Characters) /\ Len(b) = BLOCK /\ n + 1 \in 1..BLOCK /\ b[n + 1] = ZERO
      /\ \A i \in 1..n : b[i] = t[i]
  BY BlockIs
<1>2. n \in Nat /\ \A i \in 1..n : t[i] # ZERO
  BY TextIs
<1>3. m \in Seq(Characters)
  BY CalculatorAssumption
<1> HIDE DEF b
<1>4. s \in Seq(Characters) /\ Len(s) = Len(b) + Len(m) /\ \A i \in 1..Len(b) : s[i] = b[i]
  BY <1>1, <1>3, JoinedAt
<1>5. IsString(s)
  BY <1>1, BufferSeen
<1> HIDE DEF s, n
<1>6. n + 1 \in 1..Len(s) /\ (n + 1) - 1 = n
  <2>1. Len(m) \in Nat /\ BLOCK \in Nat
    BY <1>3, BlockSize
  <2> QED
    BY <1>1, <1>2, <1>4, <2>1
<1>7. s[n + 1] = ZERO /\ \A i \in 1..n : s[i] = t[i]
  <2>1. \A i \in 1..n : i \in 1..BLOCK
    BY <1>1, <1>2, BlockSize
  <2> QED
    BY <1>1, <1>4, <2>1
<1>8. strlen(s) = n
  <2>1. \A i \in 1..(n + 1) - 1 : s[i] # ZERO
    BY <1>2, <1>6, <1>7
  <2> QED
    BY <1>4, <1>6, <1>7, <2>1, StrlenIs
<1> QED
  BY <1>5, <1>7, <1>8 DEF s, b, n

\* What calc() makes of a block whose line is one of two numbers.
LEMMA BlockParsed ==
  ASSUME NEW t \in Texts, NEW g \in Garbage, NEW m \in Beyond, WellFormed(t)
  PROVE  /\ Operand1(t) \in Nat /\ Operand2(t) \in Nat /\ t[Middle(t)] \in Operators
         /\ Parsed(Block(t, g) \o m) = [state |-> 1, num1 |-> Wrap(Operand1(t)),
                                        num2 |-> Wrap(Operand2(t)), op |-> t[Middle(t)]]
BY BlockSeen, LineParsed, MiddleIs

\* Only a division ends the server.
LEMMA LineDies ==
  ASSUME NEW t \in Texts, NEW g \in Garbage, NEW e \in Beyond, WellFormed(t),
         NEW op \in Ops(Parsed(Block(t, g) \o e)), Dies(Parsed(Block(t, g) \o e), op)
  PROVE  LET n == Wrap(Operand2(t)) IN
         t[Middle(t)] = "/" /\ (n = 0 \/ (n = -1 /\ Wrap(Operand1(t)) = -INT_MAX-1))
<1> DEFINE calc == Parsed(Block(t, g) \o e)
<1>1. calc = [state |-> 1, num1 |-> Wrap(Operand1(t)), num2 |-> Wrap(Operand2(t)), op |-> t[Middle(t)]]
  BY BlockParsed
<1>2. Dies(calc, op) /\ op \in Ops(calc)
  OBVIOUS
<1>3. /\ calc.state = 1 /\ calc.op = t[Middle(t)]
      /\ calc.num1 = Wrap(Operand1(t)) /\ calc.num2 = Wrap(Operand2(t))
  BY <1>1
<1> HIDE DEF calc
<1>4. op = t[Middle(t)]
  BY <1>2, <1>3 DEF Ops
<1> QED
  BY <1>2, <1>3, <1>4 DEF Dies

\* The result of a line that has an answer is the answer.
LEMMA LineValue ==
  ASSUME NEW t \in Texts, NEW g \in Garbage, NEW e \in Beyond, Answerable(t),
         NEW op \in Ops(Parsed(Block(t, g) \o e)), ~Dies(Parsed(Block(t, g) \o e), op)
  PROVE  Value(Parsed(Block(t, g) \o e), op) = Meant(t)
<1> DEFINE calc == Parsed(Block(t, g) \o e)
<1>1. WellFormed(t) /\ Operand1(t) \in Ints /\ Operand2(t) \in Ints /\ Meant(t) \in Ints
  BY DEF Answerable
<1>2. PICK m \in Nat : m = Operand1(t)
  BY <1>1, BlockParsed
<1>3. PICK n \in Nat : n = Operand2(t)
  BY <1>1, BlockParsed
<1>4. calc = [state |-> 1, num1 |-> Wrap(m), num2 |-> Wrap(n), op |-> t[Middle(t)]]
  BY <1>1, <1>2, <1>3, BlockParsed
<1>5. calc.state = 1 /\ calc.op = t[Middle(t)] /\ calc.num1 = m /\ calc.num2 = n
  <2>1. Wrap(m) = m /\ Wrap(n) = n
    BY <1>1, <1>2, <1>3, WrapSame
  <2> QED
    BY <1>4, <2>1
<1>6. ~Dies(calc, op) /\ op \in Ops(calc)
  OBVIOUS
<1> HIDE DEF calc
<1>7. op = t[Middle(t)] /\ op \in Operators
  BY <1>1, <1>5, <1>6, BlockParsed DEF Ops
<1>8. Meant(t) = CASE op = "+" -> m + n [] op = "-" -> m - n
                   [] op = "*" -> m * n [] op = "/" -> IF n = 0 THEN 0 ELSE m \div n
  BY <1>2, <1>3, <1>7 DEF Meant
<1>9. Value(calc, op) = CASE op = "+" -> Wrap(m + n) [] op = "-" -> Wrap(m - n)
                   [] op = "*" -> Wrap(m * n) [] op = "/" -> Quotient(m, n) [] OTHER -> 0
  BY <1>5 DEF Value
<1>10. CASE op = "+"
  <2>1. Meant(t) = m + n /\ Value(calc, op) = Wrap(m + n)
    BY <1>8, <1>9, <1>10
  <2> QED
    BY <1>1, <2>1, WrapSame DEF calc
<1>11. CASE op = "-"
  <2>1. Meant(t) = m - n /\ Value(calc, op) = Wrap(m - n)
    BY <1>8, <1>9, <1>11
  <2> QED
    BY <1>1, <2>1, WrapSame DEF calc
<1>12. CASE op = "*"
  <2>1. Meant(t) = m * n /\ Value(calc, op) = Wrap(m * n)
    BY <1>8, <1>9, <1>12
  <2> QED
    BY <1>1, <2>1, WrapSame DEF calc
<1>13. CASE op = "/"
  <2>1. n # 0
    BY <1>5, <1>6, <1>13 DEF Dies
  <2>2. Meant(t) = m \div n /\ Value(calc, op) = Quotient(m, n)
    BY <1>8, <1>9, <1>13, <2>1
  <2>3. n \in Nat \ {0}
    BY <2>1
  <2> QED
    BY <2>2, <2>3, QuotientPlain DEF calc
<1> QED
  BY <1>7, <1>10, <1>11, <1>12, <1>13 DEF Operators

-----------------------------------------------------------------------------
(* The inductive invariant.                                                *)

\* Whom the server serves has sent its block, or has gone.
Service ==
  /\ pc # "accept" => cur \in Clients
  /\ pc \in {"calc", "send", "dead"} => phase[cur] \notin {"idle", "connected"}

\* A client that has not typed its line has sent nothing and is told nothing.
Silent == \A c \in Clients : phase[c] \in {"idle", "connected"} =>
  up[c] = <<>> /\ down[c] = NOTHING /\ told[c] = NOTHING

\* A whole block on its way is that of the client's line.
Sent == \A c \in Clients : Len(up[c]) = BLOCK =>
  asked[c] \in Texts /\ \E g \in Garbage : up[c] = Block(asked[c], g)

\* What calc() gets is the block of the client, unless it came in pieces.
Buffered == pc = "calc" /\ cur \notin torn =>
  asked[cur] \in Texts /\ \E g \in Garbage : buffer = Block(asked[cur], g)

\* The result r is what a client whose line t came whole may get.
Right(t, whole, r) == whole /\ Answerable(t) => r = <<Meant(t)>>

Promised ==
  /\ pc = "send" => Right(asked[cur], cur \notin torn, <<result>>)
  /\ \A c \in Clients : down[c] # NOTHING => Right(asked[c], c \notin torn, down[c])

Informed == \A c \in Clients : told[c] # NOTHING => Right(asked[c], c \notin torn, told[c])

IInv == /\ TypeOK /\ Service /\ Silent /\ Sent /\ Buffered
        /\ Promised /\ Informed /\ DiesForAReason

LEMMA EnoughForCalculates == IInv => Calculates
BY DEF IInv, Calculates, Informed, AnsweredRight, Right, Answerable

LEMMA InitInv == Init => IInv
<1> SUFFICES ASSUME Init PROVE IInv
  OBVIOUS
<1> USE DEF Init
<1>1. TypeOK
  <2>1. buffer \in Seq(Characters) /\ Len(buffer) = BLOCK
    BY CalculatorAssumption
  <2>2. \A S : <<>> \in Seq(S) /\ Len(<<>>) = 0
    BY EmptySeq
  <2>3. 0 <= BLOCK
    BY BlockSize
  <2> QED
    BY <2>1, <2>2, <2>3, WidthIs DEF TypeOK, NOTHING
<1>2. Sent
  <2>1. BLOCK # 0
    BY BlockSize
  <2> QED
    BY <2>1 DEF Sent
<1>3. Service /\ Silent /\ Buffered /\ Promised /\ Informed /\ DiesForAReason
  BY DEF Service, Silent, Buffered, Promised, Informed, DiesForAReason, NOTHING
<1> QED
  BY <1>1, <1>2, <1>3 DEF IInv

\* Every step keeps it.
LEMMA ConnectKeeps ==
  ASSUME IInv, NEW c \in Clients, Connect(c)
  PROVE  IInv'
<1> USE DEF IInv, Connect, clientVars, connVars, calcVars
<1>1. TypeOK'
  <2>1. backlog' \in Seq(Clients)
    <3>1. backlog \in Seq(Clients) /\ backlog' = Append(backlog, c)
      BY DEF TypeOK
    <3>2. Append(backlog, c) \in Seq(Clients)
      BY <3>1, AppendProperties
    <3> QED
      BY <3>1, <3>2
  <2>2. phase' \in [Clients -> {"idle", "connected", "waiting"} \cup Ended]
    BY DEF TypeOK
  <2> QED
    BY <2>1, <2>2 DEF TypeOK
<1>2. Service'
  BY DEF TypeOK, Service
<1>3. Silent'
  BY DEF TypeOK, Silent
<1>4. Sent' /\ Buffered' /\ Promised' /\ Informed'
  BY DEF Sent, Buffered, Promised, Informed
<1>5. DiesForAReason'
  BY DEF DiesForAReason
<1> QED
  BY <1>1, <1>2, <1>3, <1>4, <1>5

LEMMA SendTextKeeps ==
  ASSUME IInv, NEW c \in Clients, SendText(c)
  PROVE  IInv'
<1> USE DEF IInv, connVars, calcVars
<1>1. PICK t \in Texts, g \in Garbage :
        /\ asked' = [asked EXCEPT ![c] = t]
        /\ up' = [up EXCEPT ![c] = IF pc = "dead" THEN @ ELSE Block(t, g)]
  BY DEF SendText
<1>2. /\ phase[c] = "connected" /\ phase' \in {[phase EXCEPT ![c] = "waiting"], [phase EXCEPT ![c] = "left"]}
      /\ UNCHANGED <<told, down, rst, backlog, pc, cur, calcVars, torn>>
  BY DEF SendText
<1>3. /\ phase \in [Clients -> {"idle", "connected", "waiting"} \cup Ended]
      /\ asked \in [Clients -> Texts \cup {NOTHING}]
      /\ up \in [Clients -> Seq(Characters)]
  BY DEF TypeOK
<1>4. up[c] = <<>> /\ down[c] = NOTHING /\ told[c] = NOTHING
  BY <1>2 DEF Silent
<1>5. /\ asked'[c] = t /\ phase'[c] \in {"waiting", "left"} /\ up'[c] \in {<<>>, Block(t, g)}
      /\ \A d \in Clients : d # c =>
           asked'[d] = asked[d] /\ up'[d] = up[d] /\ phase'[d] = phase[d]
  BY <1>1, <1>2, <1>3, <1>4
<1>6. Block(t, g) \in Seq(Characters) /\ Len(Block(t, g)) = BLOCK
  BY BlockIs
<1>7. pc \in {"calc", "send", "dead"} => cur \in Clients /\ cur # c
  BY <1>2 DEF Service
<1>8. TypeOK'
  <2>1. phase' \in [Clients -> {"idle", "connected", "waiting"} \cup Ended]
    BY <1>2, <1>3 DEF Ended
  <2>2. asked' \in [Clients -> Texts \cup {NOTHING}]
    BY <1>1, <1>3
  <2>3. up' \in [Clients -> Seq(Characters)]
    BY <1>1, <1>3, <1>6
  <2>4. \A d \in Clients : Len(up'[d]) <= BLOCK
    <3>1. BLOCK \in Nat
      BY BlockSize
    <3>2. Len(up'[c]) <= BLOCK
      BY <1>5, <1>6, <3>1
    <3> QED
      BY <1>5, <3>2 DEF TypeOK
  <2> QED
    BY <1>2, <2>1, <2>2, <2>3, <2>4 DEF TypeOK
<1>9. Service'
  BY <1>2, <1>5, <1>7 DEF Service
<1>10. Silent'
  BY <1>2, <1>5 DEF Silent
<1>11. Sent'
  <2> SUFFICES ASSUME NEW d \in Clients, Len(up'[d]) = BLOCK
               PROVE  asked'[d] \in Texts /\ \E h \in Garbage : up'[d] = Block(asked'[d], h)
    BY DEF Sent
  <2>1. CASE d = c
    <3>1. BLOCK # 0
      BY BlockSize
    <3> QED
      BY <1>5, <2>1, <3>1
  <2>2. CASE d # c
    BY <1>5, <2>2 DEF Sent
  <2> QED
    BY <2>1, <2>2
<1>12. Buffered'
  BY <1>2, <1>5, <1>7 DEF Buffered
<1>13. Promised' /\ Informed'
  BY <1>2, <1>4, <1>5, <1>7 DEF Promised, Informed
<1>14. DiesForAReason'
  BY <1>2, <1>5, <1>7 DEF DiesForAReason
<1> QED
  BY <1>8, <1>9, <1>10, <1>11, <1>12, <1>13, <1>14

LEMMA RecvResultKeeps ==
  ASSUME IInv, NEW c \in Clients, RecvResult(c)
  PROVE  IInv'
<1> USE DEF IInv, connVars, calcVars
<1>1. /\ phase[c] = "waiting" /\ phase' = [phase EXCEPT ![c] = "done"]
      /\ UNCHANGED <<asked, connVars, backlog, pc, cur, calcVars, torn>>
      /\ \/ down[c] # NOTHING /\ told' = [told EXCEPT ![c] = down[c]]
         \/ told' = told
  BY DEF RecvResult
<1>2. phase \in [Clients -> {"idle", "connected", "waiting"} \cup Ended] /\ told \in [Clients -> Seq(Ints)]
  BY DEF TypeOK
<1>3. /\ phase'[c] = "done" /\ \A d \in Clients : d # c => phase'[d] = phase[d] /\ told'[d] = told[d]
      /\ (down[c] # NOTHING /\ told'[c] = down[c]) \/ told'[c] = told[c]
  BY <1>1, <1>2
<1>4. TypeOK'
  <2>1. phase' \in [Clients -> {"idle", "connected", "waiting"} \cup Ended]
    BY <1>1, <1>2 DEF Ended
  <2>2. told' \in [Clients -> Seq(Ints)]
    BY <1>1, <1>2 DEF TypeOK
  <2> QED
    BY <1>1, <2>1, <2>2 DEF TypeOK
<1>5. Service'
  BY <1>1, <1>3 DEF Service
<1>6. Silent'
  BY <1>1, <1>3 DEF Silent
<1>7. Sent' /\ Buffered' /\ Promised'
  BY <1>1 DEF Sent, Buffered, Promised
<1>8. Informed'
  BY <1>1, <1>3 DEF Informed, Promised
<1>9. DiesForAReason'
  BY <1>1 DEF DiesForAReason
<1> QED
  BY <1>4, <1>5, <1>6, <1>7, <1>8, <1>9

LEMMA KillKeeps ==
  ASSUME IInv, NEW c \in Clients, Kill(c)
  PROVE  IInv'
<1> USE DEF IInv, Kill, connVars, calcVars
<1>1. TypeOK'
  BY DEF TypeOK, Ended
<1>2. Service'
  BY DEF TypeOK, Service
<1>3. Silent'
  BY DEF TypeOK, Silent
<1>4. Sent' /\ Buffered' /\ Promised' /\ Informed'
  BY DEF Sent, Buffered, Promised, Informed
<1>5. DiesForAReason'
  BY DEF DiesForAReason
<1> QED
  BY <1>1, <1>2, <1>3, <1>4, <1>5

LEMMA AcceptKeeps ==
  ASSUME IInv, Accept
  PROVE  IInv'
<1> USE DEF IInv, Accept, clientVars, connVars, calcVars
<1>1. backlog' \in Seq(Clients) /\ cur' \in Clients
  <2>1. backlog \in Seq(Clients) /\ backlog # <<>> /\ backlog' = Tail(backlog) /\ cur' = Head(backlog)
    BY DEF TypeOK
  <2>2. Tail(backlog) \in Seq(Clients) /\ Head(backlog) \in Clients
    BY <2>1, HeadTailProperties
  <2> QED
    BY <2>1, <2>2
<1>2. TypeOK'
  BY <1>1 DEF TypeOK
<1>3. Service' /\ Buffered' /\ DiesForAReason'
  BY <1>1 DEF Service, Buffered, DiesForAReason
<1>4. Silent' /\ Sent' /\ Informed'
  BY DEF Silent, Sent, Informed
<1>5. Promised'
  BY DEF Promised
<1> QED
  BY <1>2, <1>3, <1>4, <1>5

\* What was received joined with what stood behind it.
LEMMA OverlayIs ==
  ASSUME NEW x \in Seq(Characters), NEW b \in Seq(Characters), NEW k \in Nat,
         k <= Len(x), Len(x) <= BLOCK, Len(b) = BLOCK
  PROVE  LET y == SubSeq(x, 1, k) \o SubSeq(b, k + 1, BLOCK) IN
         /\ y \in Seq(Characters) /\ Len(y) = BLOCK
         /\ k = BLOCK => y = x
<1> DEFINE p == SubSeq(x, 1, k)
           q == SubSeq(b, k + 1, BLOCK)
           y == p \o q
<1>1. BLOCK \in Nat /\ k <= BLOCK /\ Len(x) \in Nat
  BY BlockSize
<1>2. p \in Seq(Characters) /\ Len(p) = k /\ \A i \in 1..k : p[i] = x[i]
  <2>1. 0 \in Nat /\ 0 <= k /\ k - 0 = k /\ 0 + 1 = 1 /\ \A i \in 1..k : 0 + i = i
    OBVIOUS
  <2>2. /\ SubSeq(x, 0 + 1, k) \in Seq(Characters) /\ Len(SubSeq(x, 0 + 1, k)) = k - 0
        /\ \A i \in 1..(k - 0) : SubSeq(x, 0 + 1, k)[i] = x[0 + i]
    BY <2>1, PieceFrom
  <2> QED
    BY <2>1, <2>2
<1>3. q \in Seq(Characters) /\ Len(q) = BLOCK - k /\ \A i \in 1..(BLOCK - k) : q[i] = b[k + i]
  BY <1>1, PieceFrom
<1> HIDE DEF p, q
<1>4. /\ y \in Seq(Characters) /\ Len(y) = Len(p) + Len(q)
      /\ \A i \in 1..Len(p) : y[i] = p[i]
      /\ \A i \in 1..Len(q) : y[Len(p) + i] = q[i]
  <2>1. p \in Seq(Characters) /\ q \in Seq(Characters)
    BY <1>2, <1>3
  <2> QED
    BY <2>1, JoinedAt
<1> HIDE DEF y
<1>5. Len(y) = BLOCK
  BY <1>1, <1>2, <1>3, <1>4
<1>7. ASSUME k = BLOCK PROVE y = x
  <2>1. Len(x) = BLOCK /\ Len(y) = Len(x)
    BY <1>1, <1>5, <1>7
  <2>2. \A i \in 1..Len(y) : y[i] = x[i]
    BY <1>2, <1>4, <1>5, <1>7
  <2> QED
    BY <1>4, <2>1, <2>2, SeqEqual
<1> QED
  BY <1>4, <1>5, <1>7 DEF y, p, q

LEMMA ReceiveKeeps ==
  ASSUME IInv, Receive
  PROVE  IInv'
<1> USE DEF IInv, clientVars
<1>1. cur \in Clients /\ pc = "recv" /\ Waits
  BY DEF Receive, Service
<1>2. /\ up \in [Clients -> Seq(Characters)] /\ \A c \in Clients : Len(up[c]) <= BLOCK
      /\ buffer \in Seq(Characters) /\ Len(buffer) = BLOCK
      /\ torn \subseteq Clients /\ phase \in [Clients -> {"idle", "connected", "waiting"} \cup Ended]
  BY DEF TypeOK
<1>3. up[cur] \in Seq(Characters) /\ Len(up[cur]) \in Nat /\ Len(up[cur]) <= BLOCK /\ BLOCK \in Nat \ {0}
  BY <1>1, <1>2, BlockSize
<1>4. PICK k \in Sizes :
        /\ buffer' = Overlay(k)
        /\ up' = [up EXCEPT ![cur] = SubSeq(@, k + 1, Len(@))]
        /\ torn' = IF k < BLOCK THEN torn \cup {cur} ELSE torn
  BY DEF Receive
<1>5. pc' = "calc" /\ UNCHANGED <<clientVars, down, rst, backlog, cur, left, result>>
  BY DEF Receive
<1>6. k \in Nat /\ k <= Len(up[cur]) /\ (Len(up[cur]) > 0 => k > 0)
  <2> DEFINE n == Len(up[cur])
  <2>1. k \in IF cur \in Split /\ n > 0 THEN 1..n ELSE {n}
    BY DEF Sizes
  <2>2. n \in Nat
    BY <1>3
  <2> HIDE DEF n
  <2>3. k \in Nat /\ k <= n /\ (n > 0 => k > 0)
    BY <2>1, <2>2
  <2> QED
    BY <2>3 DEF n
<1>7. phase[cur] \notin {"idle", "connected"}
  BY <1>1 DEF Waits, Silent, Ended
<1>8. /\ buffer' \in Seq(Characters) /\ Len(buffer') = BLOCK
      /\ k = BLOCK => buffer' = up[cur]
  <2> DEFINE y == SubSeq(up[cur], 1, k) \o SubSeq(buffer, k + 1, BLOCK)
  <2>1. /\ y \in Seq(Characters) /\ Len(y) = BLOCK
        /\ k = BLOCK => y = up[cur]
    <3>1. /\ up[cur] \in Seq(Characters) /\ buffer \in Seq(Characters) /\ k \in Nat
          /\ k <= Len(up[cur]) /\ Len(up[cur]) <= BLOCK /\ Len(buffer) = BLOCK
      BY <1>2, <1>3, <1>6
    <3> QED
      BY <3>1, OverlayIs
  <2>2. buffer' = y
    BY <1>4 DEF Overlay
  <2> HIDE DEF y
  <2> QED
    BY <1>2, <2>1, <2>2
<1>9. /\ up'[cur] \in Seq(Characters) /\ Len(up'[cur]) = Len(up[cur]) - k
      /\ \A c \in Clients : c # cur => up'[c] = up[c]
  <2> DEFINE n == Len(up[cur])
  <2>1. up'[cur] = SubSeq(up[cur], k + 1, n)
    BY <1>1, <1>2, <1>4
  <2>2. SubSeq(up[cur], k + 1, n) \in Seq(Characters) /\ Len(SubSeq(up[cur], k + 1, n)) = n - k
    BY <1>3, <1>6, PieceFrom
  <2>3. \A c \in Clients : c # cur => up'[c] = up[c]
    BY <1>2, <1>4
  <2> QED
    BY <2>1, <2>2, <2>3
<1>10. Len(up'[cur]) < BLOCK
  BY <1>3, <1>6, <1>9
<1>11. k = BLOCK => asked[cur] \in Texts /\ \E g \in Garbage : up[cur] = Block(asked[cur], g)
  BY <1>1, <1>3, <1>6 DEF Sent

<1>13. torn \subseteq torn' /\ torn' \subseteq Clients /\ (cur \notin torn' => k = BLOCK)
  BY <1>1, <1>2, <1>3, <1>4, <1>6
<1>14. TypeOK'
  <2>1. up' \in [Clients -> Seq(Characters)]
    BY <1>2, <1>4, <1>9
  <2>2. \A c \in Clients : Len(up'[c]) <= BLOCK
    <3>1. Len(up'[cur]) <= BLOCK
      BY <1>3, <1>6, <1>9
    <3> QED
      BY <1>2, <1>9, <3>1
  <2> QED
    BY <1>5, <1>8, <1>13, <2>1, <2>2 DEF TypeOK
<1>15. Service'
  BY <1>1, <1>5, <1>7 DEF Service
<1>16. Silent'
  BY <1>5, <1>7, <1>9 DEF Silent
<1>17. Sent'
  BY <1>3, <1>5, <1>9, <1>10 DEF Sent
<1>18. Buffered'
  <2> SUFFICES ASSUME cur \notin torn'
               PROVE  asked[cur] \in Texts /\ \E g \in Garbage : buffer' = Block(asked[cur], g)
    BY <1>5 DEF Buffered
  <2> QED
    BY <1>8, <1>11, <1>13
<1>19. Promised' /\ Informed'
  BY <1>5, <1>13 DEF Promised, Informed, Right
<1>20. DiesForAReason'
  BY <1>5 DEF DiesForAReason
<1> QED
  BY <1>14, <1>15, <1>16, <1>17, <1>18, <1>19, <1>20

LEMMA CalcKeeps ==
  ASSUME IInv, Calc
  PROVE  IInv'
<1> USE DEF IInv, clientVars, connVars
<1> DEFINE t == asked[cur]
<1>1. cur \in Clients /\ pc = "calc" /\ phase[cur] \notin {"idle", "connected"}
  BY DEF Calc, Service
<1>0. PICK m \in Beyond : \E op \in Ops(Parsed(buffer \o m)) :
        IF Dies(Parsed(buffer \o m), op) THEN pc' = "dead" /\ UNCHANGED <<left, result>>
        ELSE pc' = "send" /\ left' = op /\ result' = Value(Parsed(buffer \o m), op)
  BY DEF Calc
<1> DEFINE calc == Parsed(buffer \o m)
<1>2. PICK op \in Ops(calc) :
        IF Dies(calc, op) THEN pc' = "dead" /\ UNCHANGED <<left, result>>
        ELSE pc' = "send" /\ left' = op /\ result' = Value(calc, op)
  BY <1>0
<1>3. UNCHANGED <<clientVars, connVars, backlog, cur, buffer, torn>>
  BY DEF Calc
<1>4. calc \in Looks
  <2>1. IsString(buffer \o m)
    BY BufferSeen DEF TypeOK
  <2> QED
    BY <2>1, ParsedTyped
<1>5. ASSUME cur \notin torn
      PROVE  t \in Texts /\ \E g \in Garbage : buffer = Block(t, g)
  BY <1>1, <1>5 DEF Buffered
<1>6. left' \in Operators \cup {NULL, " "} /\ result' \in Ints
  <2>1. left \in Operators \cup {NULL, " "} /\ result \in Ints
    BY DEF TypeOK
  <2>2. /\ calc.state \in {0, 1} /\ calc.num1 \in Ints /\ calc.num2 \in Ints
        /\ calc.op \in Operators \cup {NULL, " "}
    <3> HIDE DEF calc
    <3> QED
      BY <1>4 DEF Looks
  <2> HIDE DEF calc
  <2>3. op \in Operators \cup {NULL, " "}
    BY <1>2, <2>1, <2>2 DEF Ops
  <2>4. ~Dies(calc, op) => Value(calc, op) \in Ints
    BY <2>2, ValueTyped
  <2> QED
    BY <1>2, <2>1, <2>3, <2>4
<1>7. TypeOK'
  <2>1. pc' \in {"accept", "recv", "calc", "send", "dead"}
    BY <1>2
  <2> QED
    BY <1>3, <1>6, <2>1 DEF TypeOK
<1>8. Service' /\ Silent' /\ Sent' /\ Informed'
  BY <1>1, <1>3 DEF Service, Silent, Sent, Informed
<1>9. Buffered'
  BY <1>2 DEF Buffered
<1>10. ASSUME pc' = "send", cur \notin torn, Answerable(t)
       PROVE  <<result'>> = <<Meant(t)>>
  <2>1. PICK g \in Garbage : t \in Texts /\ buffer = Block(t, g)
    BY <1>5, <1>10
  <2>2. ~Dies(calc, op) /\ result' = Value(calc, op)
    BY <1>2, <1>10
  <2>3. op \in Ops(Parsed(Block(t, g) \o m)) /\ ~Dies(Parsed(Block(t, g) \o m), op)
        /\ result' = Value(Parsed(Block(t, g) \o m), op)
    BY <1>2, <2>1, <2>2
  <2> HIDE DEF t, calc
  <2>4. Value(Parsed(Block(t, g) \o m), op) = Meant(t)
    BY <1>10, <2>1, <2>3, LineValue
  <2> QED
    BY <2>3, <2>4 DEF t
<1>11. Promised'
  <2>1. pc' = "send" => Right(t, cur \notin torn, <<result'>>)
    BY <1>10 DEF Right
  <2>2. \A c \in Clients : down[c] # NOTHING => Right(asked[c], c \notin torn, down[c])
    BY DEF Promised
  <2> QED
    BY <1>3, <2>1, <2>2 DEF Promised
<1>12. ASSUME pc' = "dead", cur \notin torn, WellFormed(t)
       PROVE  LET n == Wrap(Operand2(t)) IN
              t[Middle(t)] = "/" /\ (n = 0 \/ (n = -1 /\ Wrap(Operand1(t)) = -INT_MAX-1))
  <2>1. PICK g \in Garbage : t \in Texts /\ buffer = Block(t, g)
    BY <1>5, <1>12
  <2>2. Dies(calc, op)
    BY <1>2, <1>12
  <2>3. op \in Ops(Parsed(Block(t, g) \o m)) /\ Dies(Parsed(Block(t, g) \o m), op)
    BY <1>2, <2>1, <2>2
  <2> HIDE DEF t, calc
  <2>4. LET n == Wrap(Operand2(t)) IN
        t[Middle(t)] = "/" /\ (n = 0 \/ (n = -1 /\ Wrap(Operand1(t)) = -INT_MAX-1))
    BY <1>12, <2>1, <2>3, LineDies
  <2> QED
    BY <2>4 DEF t
<1>13. DiesForAReason'
  BY <1>3, <1>12 DEF DiesForAReason
<1> QED
  BY <1>7, <1>8, <1>9, <1>11, <1>13

LEMMA SendResultKeeps ==
  ASSUME IInv, SendResult
  PROVE  IInv'
<1> USE DEF IInv, clientVars, calcVars
<1>1. cur \in Clients /\ pc = "send" /\ phase[cur] \notin {"idle", "connected"}
  BY DEF SendResult, Service
<1>2. /\ down' = [down EXCEPT ![cur] = <<result>>] /\ rst' = [rst EXCEPT ![cur] = up[cur] # <<>>]
      /\ pc' = "accept" /\ UNCHANGED <<clientVars, up, backlog, cur, calcVars, torn>>
  BY DEF SendResult
<1>3. down \in [Clients -> Seq(Ints)] /\ rst \in [Clients -> BOOLEAN] /\ result \in Ints
  BY DEF TypeOK
<1>4. down'[cur] = <<result>> /\ \A c \in Clients : c # cur => down'[c] = down[c]
  BY <1>1, <1>2, <1>3
<1>5. TypeOK'
  <2>1. <<result>> \in Seq(Ints)
    BY <1>3
  <2>2. down' \in [Clients -> Seq(Ints)]
    BY <1>2, <1>3, <2>1
  <2>3. rst' \in [Clients -> BOOLEAN]
    BY <1>2, <1>3
  <2> QED
    BY <1>2, <2>2, <2>3 DEF TypeOK
<1>6. Service' /\ Sent' /\ Buffered' /\ Informed' /\ DiesForAReason'
  BY <1>2 DEF Service, Sent, Buffered, Informed, DiesForAReason
<1>7. Silent'
  BY <1>1, <1>2, <1>4 DEF Silent
<1>8. Promised'
  BY <1>1, <1>2, <1>4 DEF Promised
<1> QED
  BY <1>5, <1>6, <1>7, <1>8

LEMMA NextInv == IInv /\ [Next]_vars => IInv'
<1> SUFFICES ASSUME IInv, [Next]_vars PROVE IInv'
  OBVIOUS
<1>1. CASE UNCHANGED vars
  BY <1>1 DEF IInv, vars, clientVars, connVars, calcVars, TypeOK, Service, Silent, Sent, Buffered,
              Promised, Informed, DiesForAReason
<1>2. CASE Server
  BY <1>2, AcceptKeeps, ReceiveKeeps, CalcKeeps, SendResultKeeps DEF Server
<1>3. CASE \E c \in Clients : Connect(c) \/ SendText(c) \/ RecvResult(c) \/ Kill(c)
  BY <1>3, ConnectKeeps, SendTextKeeps, RecvResultKeeps, KillKeeps
<1> QED
  BY <1>1, <1>2, <1>3 DEF Next

\* A client whose block came whole and whose line is of two numbers gets the value
\* of its own line, whatever the uninitialised buffers held, stands behind the
\* server's, or was received before; and only a line without a value, or a block
\* that came in pieces, ends the server.
THEOREM CalculatorWorks == Spec => []Calculates
<1>1. IInv => Calculates
  BY EnoughForCalculates
<1> QED
  BY InitInv, NextInv, <1>1, PTL DEF Spec
=============================================================================
