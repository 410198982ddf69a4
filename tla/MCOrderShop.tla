----------------------------- MODULE MCOrderShop -----------------------------
(* An instance of OrderShop for TLC.                                        *)
EXTENDS OrderShop, TLC

CONSTANTS c1, c2, apple, mango

SmallStock == (apple :> 3) @@ (mango :> 2)

Buy(f, n) == [item |-> f, qty |-> n]

\* One that is met once, one that is met twice; too many; nothing the shop has; the return key.
SomeOrders == {Buy(apple, 2), Buy(mango, 1), Buy(mango, 3), Buy(NOITEM, 1), Buy(SHORT, 0)}

SomeGarbage == {Buy(NOITEM, 0), Buy(mango, 0)}
=============================================================================
