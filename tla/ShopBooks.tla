------------------------------- MODULE ShopBooks -------------------------------
(***************************************************************************)
(* What the two services promise together to somebody who reads both       *)
(* databases and the topic.  Each keeps its own books, as ProductShelf and *)
(* OrderLedger say, and no transaction spans the two; all the same a       *)
(* purchase is offered, and an order takes in, only what has been put up   *)
(* on the shelf, and an item is flagged as deleted only once the topic     *)
(* announces the deletion of its product.  Shop implements this            *)
(* specification.                                                          *)
(***************************************************************************)
EXTENDS Integers

CONSTANTS
    Handlers, Users, NoUser, Products, Prices, CheapPrice, MaxOrders, HoursFor,
    Int32Max

VARIABLES
    used, price, stock, announced,                    \* of the shelf
    owner, hours, amount, exists, purchase, removal   \* of the ledger

Shelf == INSTANCE ProductShelf WITH ProductId <- Products, MaxAmount <- Int32Max

Ledger == INSTANCE OrderLedger

shelf == <<used, price, stock, announced>>
ledger == <<owner, hours, amount, exists, purchase, removal>>
vars == <<shelf, ledger>>

Init == Shelf!Init /\ Ledger!Init

ShelfMoves == Shelf!Next /\ UNCHANGED ledger

\* The ledger's purchases are offered products from the shelf, so it holds no
\* others, and it has their ends from the topic.
LedgerMoves ==
    /\ Ledger!Next
    /\ \A h \in Handlers : purchase'[h].offered \subseteq used
    /\ \A o \in Ledger!OrderId, p \in Products :
          /\ amount'[o][p] > amount[o][p] => p \in used
          /\ (exists[o][p] /\ ~exists'[o][p]) => p \in announced
    /\ UNCHANGED shelf

Next == ShelfMoves \/ LedgerMoves

Spec == Init /\ [][Next]_vars
===============================================================================
