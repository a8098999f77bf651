----------------------------- MODULE OrderLedger -----------------------------
(***************************************************************************)
(* What the order tables promise a reader, whatever transactions, locks    *)
(* and half-finished requests lie behind them: an order appears whole,     *)
(* grows by one whole request at a time, is marked and removed, and no     *)
(* step undoes or loses part of an earlier one.                            *)
(*                                                                         *)
(* Besides the tables there are the requests under way.  A purchase is     *)
(* known from the moment the core service has offered what it asks for;    *)
(* the tables take in exactly its pieces, all of them at once and at most  *)
(* once, for the user who asked.  OrderService implements this             *)
(* specification.                                                          *)
(*                                                                         *)
(* An item row that does not exist is an amount of 0 with the default      *)
(* item_exists: the table's CHECK keeps every real amount above 0.         *)
(***************************************************************************)
EXTENDS Integers

CONSTANTS
    Handlers,    \* whoever handles a request
    Users,       \* ids of the users that order
    NoUser,      \* the owner of an id that names no order
    Products,    \* ids of the products of the core service
    MaxOrders,   \* the last value of the sequence behind orders.id
    HoursFor,    \* the hours it takes to deliver a set of products
    Int32Max     \* the largest value of a Postgres INTEGER

VARIABLES
    owner,       \* orders.user_id, by order id
    hours,       \* orders.delivery_time_hours
    amount,      \* order_items.product_amount_in_order, by order and product
    exists,      \* order_items.item_exists
    purchase,    \* the purchase each handler is at, or NoPurchase
    removal      \* the order it has been asked to delete, or 0

tables == <<owner, hours, amount, exists>>
requests == <<purchase, removal>>
vars == <<tables, requests>>

OrderId == 1 .. MaxOrders

\* Who buys, which products he asked for, those of them he was offered, and
\* how many pieces, as the order tables' INTEGER has the number.
Purchase == [buyer: Users, asked: SUBSET Products, offered: SUBSET Products,
             pieces: [Products -> Int]]

NoPurchase == [buyer |-> NoUser, asked |-> {}, offered |-> {},
               pieces |-> [p \in Products |-> 0]]

IsOrder(o) == owner[o] # NoUser

MaxOf(a, b) == IF a >= b THEN a ELSE b

Init ==
    /\ owner = [o \in OrderId |-> NoUser]
    /\ hours = [o \in OrderId |-> 0]
    /\ amount = [o \in OrderId |-> [p \in Products |-> 0]]
    /\ exists = [o \in OrderId |-> [p \in Products |-> TRUE]]
    /\ purchase = [h \in Handlers |-> NoPurchase]
    /\ removal = [h \in Handlers |-> 0]

----------------------------------------------------------------------------

\* The core service has answered what a purchase can be made of.
Offer(h) ==
    /\ purchase[h] = NoPurchase
    /\ purchase'[h] \in Purchase
    /\ purchase'[h].offered \subseteq purchase'[h].asked
    /\ purchase' = [purchase EXCEPT ![h] = purchase'[h]]
    /\ UNCHANGED <<tables, removal>>

Ask(h, o) ==
    /\ removal[h] = 0
    /\ removal' = [removal EXCEPT ![h] = o]
    /\ UNCHANGED <<tables, purchase>>

\* The purchase has been made: it is not made a second time.
Done(h) ==
    /\ purchase[h] # NoPurchase
    /\ purchase' = [purchase EXCEPT ![h] = NoPurchase]
    /\ UNCHANGED removal

\* A request that ends without effect: refused, failed, its order gone, or
\* its commit lost.
Drop(h) ==
    /\ \/ Done(h)
       \/ /\ removal[h] # 0
          /\ removal' = [removal EXCEPT ![h] = 0]
          /\ UNCHANGED purchase
    /\ UNCHANGED tables

\* What a purchase brings of a product.
Brings(h, p) ==
    IF p \in purchase[h].offered THEN purchase[h].pieces[p] ELSE 0

\* A purchase with an item of no pieces is never made.
IsSound(h) == \A p \in purchase[h].offered : purchase[h].pieces[p] > 0

\* A new order with all the items of the purchase.  Its time is that of all
\* that was asked for, of which the offer may lack some.
Place(h, o) ==
    /\ ~IsOrder(o)
    /\ IsSound(h)
    /\ owner' = [owner EXCEPT ![o] = purchase[h].buyer]
    /\ hours' = [hours EXCEPT ![o] = HoursFor[purchase[h].asked]]
    /\ amount' = [amount EXCEPT ![o] = [p \in Products |-> Brings(h, p)]]
    /\ Done(h)
    /\ UNCHANGED exists

\* All of a purchase is added to what its buyer's order holds, nothing else
\* of the order changes, and it takes as long as either would alone.
Add(h, o) ==
    /\ IsOrder(o)
    /\ owner[o] = purchase[h].buyer
    /\ IsSound(h)
    /\ \A p \in Products : amount[o][p] + Brings(h, p) <= Int32Max
    /\ hours' = [hours EXCEPT ![o] = MaxOf(hours[o], HoursFor[purchase[h].asked])]
    /\ amount' = [amount EXCEPT ![o] =
                    [p \in Products |-> amount[o][p] + Brings(h, p)]]
    /\ Done(h)
    /\ UNCHANGED <<owner, exists>>

\* An order goes with all its items, once somebody has asked for that.
Remove(h, o) ==
    /\ IsOrder(o)
    /\ removal[h] = o
    /\ owner' = [owner EXCEPT ![o] = NoUser]
    /\ hours' = [hours EXCEPT ![o] = 0]
    /\ amount' = [amount EXCEPT ![o] = [p \in Products |-> 0]]
    /\ exists' = [exists EXCEPT ![o] = [p \in Products |-> TRUE]]
    /\ removal' = [removal EXCEPT ![h] = 0]
    /\ UNCHANGED purchase

\* A product is flagged as deleted in some of the orders that hold it.
Flag(p, O) ==
    /\ \A o \in O : amount[o][p] > 0
    /\ exists' = [o \in OrderId |->
                    IF o \in O THEN [exists[o] EXCEPT ![p] = FALSE]
                               ELSE exists[o]]
    /\ UNCHANGED <<owner, hours, amount, requests>>

Next ==
    \/ \E h \in Handlers : Offer(h) \/ Drop(h)
    \/ \E h \in Handlers, o \in OrderId :
          Ask(h, o) \/ Place(h, o) \/ Add(h, o) \/ Remove(h, o)
    \/ \E p \in Products, O \in SUBSET OrderId : Flag(p, O)

Spec == Init /\ [][Next]_vars
==============================================================================
