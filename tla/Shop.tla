-------------------------------- MODULE Shop --------------------------------
(***************************************************************************)
(* What a shop server promises about its stock: a quantity goes down only  *)
(* by a sale that is on record, never below zero, and never goes up.       *)
(***************************************************************************)
EXTENDS Integers, Sequences

CONSTANT Items       \* what is sold

VARIABLES stock,     \* stock[i]: how many of i are left
          sales      \* the sales so far, in order

shopVars == <<stock, sales>>

Init == /\ stock \in [Items -> Nat]
        /\ sales = <<>>

Sell(i) == LET q == stock[i] - stock'[i] IN
           /\ q >= 0 /\ q <= stock[i]
           /\ stock' = [stock EXCEPT ![i] = @ - q]
           /\ sales' = Append(sales, [item |-> i, qty |-> q])

Next == \E i \in Items : Sell(i)

Spec == Init /\ [][Next]_shopVars
=============================================================================
