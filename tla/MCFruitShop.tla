---------------------------- MODULE MCFruitShop ----------------------------
(* Instances of FruitShop for TLC.                                          *)
EXTENDS FruitShop, TLC

CONSTANTS c1, c2, c3, a1, a2

\* The first and the last client come from the same address and port.
ReusedPort == (c1 :> a1) @@ (c2 :> a2) @@ (c3 :> a1)
TwoPorts   == (c1 :> a1) @@ (c2 :> a2)

FewLetters == {"a", "A", "f", "g", "k"}
LowerCase == [ch \in FewLetters |-> IF ch = "A" THEN "a" ELSE ch]

AFig  == <<"A", "f">>
Fig   == <<"a", "f">>
Kiwi  == <<"k", "g">>
Gage  == <<"g">>

Num(n, w) == [n |-> n, w |-> w]
Ask(name, n, w) == [name |-> name, qty |-> Num(n, w)]

\* Different fruits, small quantities of one digit.
PlainNamesList == <<Fig, Kiwi>>
PlainStock  == <<6, 1>>
PlainOrders == {Ask(AFig, 3, 1), Ask(Kiwi, 2, 1), Ask(Gage, 1, 1)}

\* Numbers of two widths.
WidthOrders  == {Ask(Kiwi, 12, 2), Ask(Kiwi, 3, 1)}
WidthStock   == <<5, 60>>
=============================================================================
