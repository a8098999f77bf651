----------------------------- MODULE ProductShelf -----------------------------
(***************************************************************************)
(* What the catalogue promises its readers, those of the table and those   *)
(* of the topic, whatever transactions and calls lie behind it: a product  *)
(* is put up under an id of its own, keeps its price, changes its stock    *)
(* and is taken down for good, and only the deletion of a product that was *)
(* put up and is not cheap is ever announced.  ProductCatalogue implements *)
(* this specification.                                                     *)
(***************************************************************************)
EXTENDS Integers

CONSTANTS
    ProductId,   \* ids of products
    Prices,      \* prices of products
    CheapPrice,  \* what costs less is never announced while it is there
    MaxAmount    \* the largest value of a Postgres INTEGER

VARIABLES
    used,        \* the ids that were given to a product
    price,       \* the price of a product, 0 when it is not there
    stock,       \* how many there are of it
    announced    \* the products whose deletion the topic announces

vars == <<used, price, stock, announced>>

Exists(p) == price[p] > 0

Init ==
    /\ used = {}
    /\ price = [p \in ProductId |-> 0]
    /\ stock = [p \in ProductId |-> 0]
    /\ announced = {}

\* A product is put up under an id that no product has had.
PutUp(p, pr, n) ==
    /\ p \notin used
    /\ used' = used \cup {p}
    /\ price' = [price EXCEPT ![p] = pr]
    /\ stock' = [stock EXCEPT ![p] = n]
    /\ UNCHANGED announced

\* Somebody who saw some of it adds to what he saw.
Restock(p, n) ==
    /\ Exists(p)
    /\ n > 1
    /\ stock' = [stock EXCEPT ![p] = n]
    /\ UNCHANGED <<used, price, announced>>

TakeDown(p) ==
    /\ Exists(p)
    /\ price' = [price EXCEPT ![p] = 0]
    /\ stock' = [stock EXCEPT ![p] = 0]
    /\ UNCHANGED <<used, announced>>

\* The announcement may come before the deletion, and even without one.
Announce(p) ==
    /\ p \in used
    /\ Exists(p) => price[p] >= CheapPrice
    /\ announced' = announced \cup {p}
    /\ UNCHANGED <<used, price, stock>>

Next ==
    \E p \in ProductId :
       \/ \E pr \in Prices, n \in 1 .. MaxAmount : PutUp(p, pr, n)
       \/ \E n \in 1 .. MaxAmount : Restock(p, n)
       \/ TakeDown(p)
       \/ Announce(p)

Spec == Init /\ [][Next]_vars
===============================================================================
