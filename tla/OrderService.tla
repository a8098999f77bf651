----------------------------- MODULE OrderService -----------------------------
(***************************************************************************)
(* The order service (internal/service/order/service.go) over its Postgres *)
(* repository (internal/repo/postgres/order/order_repo.go).                *)
(*                                                                         *)
(* A handler is an HTTP request's goroutine: it places an order (Create)   *)
(* or deletes one (Delete) and is then free for the next request.  The     *)
(* Kafka consumer's goroutine marks the items of a deleted product.  All   *)
(* of them meet only in the database, so a step is one statement of a      *)
(* transaction at the READ COMMITTED level the repository asks for:        *)
(*   - owner, hours, amount and exists are the committed tables;           *)
(*   - what an open transaction has written is in the handler's draft;     *)
(*   - orderLock and itemLock are the row locks its writes hold until the  *)
(*     commit or the rollback.  A statement that needs a row another       *)
(*     transaction has locked waits.                                       *)
(* An item row that does not exist is an amount of 0 with the default      *)
(* item_exists: CHECK (product_amount_in_order > 0) rules out a real 0.    *)
(* The columns copied from the core service for display (description,      *)
(* product_name, product_price, product_amount_in_core) are left out, and  *)
(* so are requests the validation refuses before it touches any state.     *)
(***************************************************************************)
EXTENDS Integers, FiniteSets

CONSTANTS
    Handlers,    \* goroutines of the HTTP server
    Consumer,    \* the goroutine of the Kafka consumer
    Nobody,      \* the holder of a free lock
    Users,       \* ids of the users that order
    NoUser,      \* the owner of an id that names no order
    Products,    \* ids of the products of the core service
    NoItem,      \* no product: the item loop is over
    Quantities,  \* quantities a client may ask for
    MaxOrders,   \* the last value of the sequence behind orders.id
    Int32Max     \* the largest value of int32 and of a Postgres INTEGER

ASSUME AgentsAssumption ==
    /\ Consumer \notin Handlers
    /\ Nobody \notin Handlers \cup {Consumer}

ASSUME RowsAssumption ==
    /\ NoUser \notin Users
    /\ NoItem \notin Products
    /\ IsFiniteSet(Products)

ASSUME NumbersAssumption ==
    /\ MaxOrders \in Nat
    /\ Int32Max \in Nat
    /\ Quantities \subseteq Nat \ {0}

VARIABLES
    owner,       \* orders.user_id, by order id
    hours,       \* orders.delivery_time_hours
    amount,      \* order_items.product_amount_in_order, by order and product
    exists,      \* order_items.item_exists
    nextId,      \* the sequence behind orders.id
    orderLock,   \* who has locked the row of an order
    itemLock,    \* who has locked the row of an item
    pc,          \* where the handler is
    user,        \* the UserID of its request
    qty,         \* its quantityMap, 0 for a product that is not ordered
    found,       \* the products the core service returned
    target,      \* the order it creates, merges into or deletes
    todo,        \* the items its loop has still to write
    cur,         \* the one of them it writes next
    draftHours,  \* the uncommitted delivery time
    draftAmount, \* the uncommitted item amounts
    draftExists, \* the uncommitted item flags
    reply,       \* what it answered to its last request
    marking,     \* the product the consumer is marking, or NoItem
    markTodo,    \* the orders whose item it has still to mark
    markCur      \* the one of them it marks next, 0 when the loop is over

tables == <<owner, hours, amount, exists>>
locks == <<orderLock, itemLock>>
request == <<user, qty>>
draft == <<draftHours, draftAmount, draftExists>>
loop == <<todo, cur>>
consumer == <<marking, markTodo, markCur>>
vars == <<tables, nextId, locks, pc, request, found, target, loop, draft,
          reply, consumer>>

OrderId == 1 .. MaxOrders
Agents == Handlers \cup {Consumer}
IsOrder(o) == owner[o] # NoUser
OrdersOf(u) == {o \in OrderId : owner[o] = u}
Unset == [p \in Products |-> 0]
AllExist == [p \in Products |-> TRUE]

\* A bug: a quantity stored as it was asked for.
WideInt32(n) == n

\* Go's conversion int32(n): the low bits of n, read as a signed number.
ToInt32(n) ==
    ((n + Int32Max + 1) % (2 * (Int32Max + 1))) - (Int32Max + 1)

Positions(q) == {p \in Products : q[p] > 0}

calculateDeliveryTimeHours(positionCount) == 12 * positionCount

\* GREATEST(delivery_time_hours, $1)
Greatest(a, b) == IF a >= b THEN a ELSE b

TablesOK ==
    /\ owner \in [OrderId -> Users \cup {NoUser}]
    /\ hours \in [OrderId -> Nat]
    /\ amount \in [OrderId -> [Products -> 0 .. Int32Max]]
    /\ exists \in [OrderId -> [Products -> BOOLEAN]]
    /\ nextId \in 1 .. MaxOrders + 1

LocksOK ==
    /\ orderLock \in [OrderId -> Handlers \cup {Nobody}]
    /\ itemLock \in [OrderId -> [Products -> Agents \cup {Nobody}]]

RequestsOK ==
    /\ pc \in [Handlers -> {"idle", "fetch", "find", "insert", "create",
                            "lock", "upsert", "delete", "cascade"}]
    /\ user \in [Handlers -> Users \cup {NoUser}]
    /\ qty \in [Handlers -> [Products -> Quantities \cup {0}]]
    /\ found \in [Handlers -> SUBSET Products]
    /\ target \in [Handlers -> OrderId \cup {0}]
    /\ \A h \in Handlers :
          pc[h] \in {"create", "lock", "upsert", "delete", "cascade"} =>
             target[h] \in OrderId
    /\ reply \in [Handlers -> {"none", "ok", "error"}]

LoopsOK ==
    /\ todo \in [Handlers -> SUBSET Products]
    /\ cur \in [Handlers -> Products \cup {NoItem}]

DraftsOK ==
    /\ draftHours \in [Handlers -> Nat]
    /\ draftAmount \in [Handlers -> [Products -> 0 .. Int32Max]]
    /\ draftExists \in [Handlers -> [Products -> BOOLEAN]]

ConsumerOK ==
    /\ marking \in Products \cup {NoItem}
    /\ markTodo \in SUBSET OrderId
    /\ markCur \in OrderId \cup {0}

TypeOK ==
    TablesOK /\ LocksOK /\ RequestsOK /\ LoopsOK /\ DraftsOK /\ ConsumerOK

Init ==
    /\ owner = [o \in OrderId |-> NoUser]
    /\ hours = [o \in OrderId |-> 0]
    /\ amount = [o \in OrderId |-> Unset]
    /\ exists = [o \in OrderId |-> AllExist]
    /\ nextId = 1
    /\ orderLock = [o \in OrderId |-> Nobody]
    /\ itemLock = [o \in OrderId |-> [p \in Products |-> Nobody]]
    /\ pc = [h \in Handlers |-> "idle"]
    /\ user = [h \in Handlers |-> NoUser]
    /\ qty = [h \in Handlers |-> Unset]
    /\ found = [h \in Handlers |-> {}]
    /\ target = [h \in Handlers |-> 0]
    /\ todo = [h \in Handlers |-> {}]
    /\ cur = [h \in Handlers |-> NoItem]
    /\ draftHours = [h \in Handlers |-> 0]
    /\ draftAmount = [h \in Handlers |-> Unset]
    /\ draftExists = [h \in Handlers |-> AllExist]
    /\ reply = [h \in Handlers |-> "none"]
    /\ marking = NoItem
    /\ markTodo = {}
    /\ markCur = 0

----------------------------------------------------------------------------
(* The pieces the handlers' steps are made of.                             *)

\* The request is answered; what the handler remembered of it is forgotten.
Finish(h, r) ==
    /\ pc' = [pc EXCEPT ![h] = "idle"]
    /\ reply' = [reply EXCEPT ![h] = r]
    /\ user' = [user EXCEPT ![h] = NoUser]
    /\ qty' = [qty EXCEPT ![h] = Unset]
    /\ found' = [found EXCEPT ![h] = {}]
    /\ target' = [target EXCEPT ![h] = 0]
    /\ todo' = [todo EXCEPT ![h] = {}]
    /\ cur' = [cur EXCEPT ![h] = NoItem]
    /\ draftHours' = [draftHours EXCEPT ![h] = 0]
    /\ draftAmount' = [draftAmount EXCEPT ![h] = Unset]
    /\ draftExists' = [draftExists EXCEPT ![h] = AllExist]

\* The end of a transaction, by Commit or by the deferred Rollback.
ReleaseLocks(h) ==
    /\ orderLock' = [o \in OrderId |->
                        IF orderLock[o] = h THEN Nobody ELSE orderLock[o]]
    /\ itemLock' = [o \in OrderId |-> [p \in Products |->
                        IF itemLock[o][p] = h THEN Nobody
                                              ELSE itemLock[o][p]]]

\* A bug: the loop takes an item up again that it has written.
NextOfAll(h, S) ==
    /\ todo' = [todo EXCEPT ![h] = todo[h] \cup S]
    /\ \/ S = {} /\ cur' = [cur EXCEPT ![h] = NoItem]
       \/ \E p \in S : cur' = [cur EXCEPT ![h] = p]

\* The loop goes on with the items of S, whose order nothing fixes: it is
\* that of a map's keys and of a SELECT with no ORDER BY.
NextItem(h, S) ==
    /\ todo' = [todo EXCEPT ![h] = S]
    /\ \/ S = {} /\ cur' = [cur EXCEPT ![h] = NoItem]
       \/ \E p \in S : cur' = [cur EXCEPT ![h] = p]

\* The amount an item has once a request for q more is merged into it.
MergedAmount(old, q) == old + q

----------------------------------------------------------------------------
(* OrderService.Create                                                     *)

CreateRequest(h, u, q) ==
    /\ pc[h] = "idle"
    /\ Positions(q) # {}
    /\ pc' = [pc EXCEPT ![h] = "fetch"]
    /\ user' = [user EXCEPT ![h] = u]
    /\ qty' = [qty EXCEPT ![h] = q]
    /\ reply' = [reply EXCEPT ![h] = "none"]
    /\ UNCHANGED <<tables, nextId, locks, found, target, loop, draft, consumer>>

\* The gRPC call: the ordered products that are in available.  A product
\* the core service does not return is dropped from the order in silence.
FetchProducts(h, available) ==
    /\ pc[h] = "fetch"
    /\ pc' = [pc EXCEPT ![h] = "find"]
    /\ found' = [found EXCEPT ![h] = Positions(qty[h]) \cap available]
    /\ UNCHANGED <<tables, nextId, locks, request, target, loop, draft, reply,
                   consumer>>

\* A bug: whatever error the query returns is taken for "no order".
FindOrNone(h) ==
    /\ pc[h] = "find"
    /\ \/ /\ pc' = [pc EXCEPT ![h] = "insert"]
          /\ UNCHANGED target
       \/ \E o \in OrdersOf(user[h]) :
          /\ \A other \in OrdersOf(user[h]) : other <= o
          /\ pc' = [pc EXCEPT ![h] = "lock"]
          /\ target' = [target EXCEPT ![h] = o]
    /\ UNCHANGED <<tables, nextId, locks, request, found, loop, draft, reply,
                   consumer>>

\* The user's newest order, read outside of any transaction.
FindOrderIDByUser(h) ==
    /\ pc[h] = "find"
    /\ \/ /\ OrdersOf(user[h]) = {}
          /\ pc' = [pc EXCEPT ![h] = "insert"]
          /\ UNCHANGED target
       \/ \E o \in OrdersOf(user[h]) :
          /\ \A other \in OrdersOf(user[h]) : other <= o
          /\ pc' = [pc EXCEPT ![h] = "lock"]
          /\ target' = [target EXCEPT ![h] = o]
    /\ UNCHANGED <<tables, nextId, locks, request, found, loop, draft, reply,
                   consumer>>

\* INSERT INTO orders: the row is the transaction's own until the commit,
\* but its id is drawn from the sequence for good.
InsertOrder(h) ==
    /\ pc[h] = "insert"
    /\ nextId <= MaxOrders
    /\ nextId' = nextId + 1
    /\ target' = [target EXCEPT ![h] = nextId]
    /\ pc' = [pc EXCEPT ![h] = "create"]
    /\ UNCHANGED <<tables, locks, request, found, loop, draft, reply, consumer>>

\* The item INSERTs, which no other transaction can see or block, and the
\* commit.  A commit whose answer is lost is reported as an error.
CommitOrder(h) ==
    /\ pc[h] = "create"
    /\ \A p \in found[h] : ToInt32(qty[h][p]) > 0
    /\ owner' = [owner EXCEPT ![target[h]] = user[h]]
    /\ hours' = [hours EXCEPT ![target[h]] =
                   calculateDeliveryTimeHours(Cardinality(Positions(qty[h])))]
    /\ amount' = [amount EXCEPT ![target[h]] =
                   [p \in Products |->
                      IF p \in found[h] THEN ToInt32(qty[h][p]) ELSE 0]]
    /\ exists' = [exists EXCEPT ![target[h]] = AllExist]
    /\ \E r \in {"ok", "error"} : Finish(h, r)
    /\ UNCHANGED <<nextId, locks, consumer>>

\* A bug: the order's row is updated only after its items.
LockNoOrder(h) ==
    /\ pc[h] = "lock"
    /\ draftHours' = [draftHours EXCEPT ![h] =
          Greatest(hours[target[h]],
                   calculateDeliveryTimeHours(Cardinality(Positions(qty[h]))))]
    /\ NextItem(h, found[h])
    /\ pc' = [pc EXCEPT ![h] = "upsert"]
    /\ UNCHANGED <<tables, nextId, locks, request, found, target,
                   draftAmount, draftExists, reply, consumer>>

\* UPDATE orders: the statement waits for the row, and updates nothing and
\* locks nothing when the order has gone in the meantime.
LockOrder(h) ==
    /\ pc[h] = "lock"
    /\ orderLock[target[h]] = Nobody
    /\ \/ /\ ~IsOrder(target[h])
          /\ UNCHANGED <<orderLock, draftHours>>
       \/ /\ IsOrder(target[h])
          /\ orderLock' = [orderLock EXCEPT ![target[h]] = h]
          /\ draftHours' = [draftHours EXCEPT ![h] =
                Greatest(hours[target[h]],
                  calculateDeliveryTimeHours(Cardinality(Positions(qty[h]))))]
    /\ NextItem(h, found[h])
    /\ pc' = [pc EXCEPT ![h] = "upsert"]
    /\ UNCHANGED <<tables, nextId, itemLock, request, found, target,
                   draftAmount, draftExists, reply, consumer>>

\* A bug: the item is read by a SELECT that locks nothing, and what the loop
\* makes of it is written at the end.
UpsertFromRead(h) ==
    /\ pc[h] = "upsert"
    /\ cur[h] # NoItem
    /\ IsOrder(target[h])
    /\ LET o == target[h]
           p == cur[h]
           sum == MergedAmount(amount[o][p], ToInt32(qty[h][p]))
       IN  /\ ToInt32(qty[h][p]) > 0
           /\ sum <= Int32Max
           /\ draftAmount' = [draftAmount EXCEPT ![h][p] = sum]
           /\ draftExists' = [draftExists EXCEPT ![h][p] = exists[o][p]]
           /\ NextItem(h, todo[h] \ {p})
    /\ UNCHANGED <<tables, nextId, locks, pc, request, found, target,
                   draftHours, reply, consumer>>

\* INSERT ... ON CONFLICT DO UPDATE of one item: it adds to the row as it is
\* once the lock is granted, and leaves item_exists alone.
UpsertItem(h) ==
    /\ pc[h] = "upsert"
    /\ cur[h] # NoItem
    /\ IsOrder(target[h])
    /\ itemLock[target[h]][cur[h]] = Nobody
    /\ LET o == target[h]
           p == cur[h]
           sum == MergedAmount(amount[o][p], ToInt32(qty[h][p]))
       IN  /\ ToInt32(qty[h][p]) > 0
           /\ sum <= Int32Max
           /\ itemLock' = [itemLock EXCEPT ![o][p] = h]
           /\ draftAmount' = [draftAmount EXCEPT ![h][p] = sum]
           /\ draftExists' = [draftExists EXCEPT ![h][p] = exists[o][p]]
           /\ NextItem(h, todo[h] \ {p})
    /\ UNCHANGED <<tables, nextId, orderLock, pc, request, found, target,
                   draftHours, reply, consumer>>

\* A bug: the loop stops at an item it cannot merge, and what there is so far
\* is committed.
CommitSoFar(h) ==
    /\ pc[h] = "upsert"
    /\ LET written == found[h] \ todo[h]
       IN  \/ /\ orderLock[target[h]] # h
              /\ UNCHANGED tables
           \/ /\ orderLock[target[h]] = h
              /\ hours' = [hours EXCEPT ![target[h]] = draftHours[h]]
              /\ amount' = [amount EXCEPT ![target[h]] = [p \in Products |->
                    IF p \in written THEN draftAmount[h][p]
                                     ELSE amount[target[h]][p]]]
              /\ UNCHANGED <<owner, exists>>
    /\ ReleaseLocks(h)
    /\ Finish(h, "ok")
    /\ UNCHANGED <<nextId, consumer>>

\* The commit of a merge; with no order and no item there is nothing in it.
CommitMerge(h) ==
    /\ pc[h] = "upsert"
    /\ cur[h] = NoItem
    /\ \/ /\ orderLock[target[h]] # h
          /\ UNCHANGED tables
       \/ /\ orderLock[target[h]] = h
          /\ hours' = [hours EXCEPT ![target[h]] = draftHours[h]]
          /\ amount' = [amount EXCEPT ![target[h]] = [p \in Products |->
                IF p \in found[h] THEN draftAmount[h][p]
                                  ELSE amount[target[h]][p]]]
          /\ exists' = [exists EXCEPT ![target[h]] = [p \in Products |->
                IF p \in found[h] THEN draftExists[h][p]
                                  ELSE exists[target[h]][p]]]
          /\ UNCHANGED owner
    /\ ReleaseLocks(h)
    /\ Finish(h, "ok")
    /\ UNCHANGED <<nextId, consumer>>

\* The commit of a merge fails: MergeOrder logs it and returns nil.
LoseMerge(h) ==
    /\ pc[h] = "upsert"
    /\ cur[h] = NoItem
    /\ ReleaseLocks(h)
    /\ Finish(h, "ok")
    /\ UNCHANGED <<tables, nextId, consumer>>

----------------------------------------------------------------------------
(* OrderService.Delete                                                     *)

DeleteRequest(h, o) ==
    /\ pc[h] = "idle"
    /\ pc' = [pc EXCEPT ![h] = "delete"]
    /\ target' = [target EXCEPT ![h] = o]
    /\ reply' = [reply EXCEPT ![h] = "none"]
    /\ UNCHANGED <<tables, nextId, locks, request, found, loop, draft, consumer>>

\* DELETE FROM orders waits for the row; no row affected is an error.
LockDeleted(h) ==
    /\ pc[h] = "delete"
    /\ orderLock[target[h]] = Nobody
    /\ \/ /\ ~IsOrder(target[h])
          /\ Finish(h, "error")
          /\ UNCHANGED orderLock
       \/ /\ IsOrder(target[h])
          /\ orderLock' = [orderLock EXCEPT ![target[h]] = h]
          /\ NextItem(h, {p \in Products : amount[target[h]][p] > 0})
          /\ pc' = [pc EXCEPT ![h] = "cascade"]
          /\ UNCHANGED <<request, found, target, draft, reply>>
    /\ UNCHANGED <<tables, nextId, itemLock, consumer>>

\* ON DELETE CASCADE locks the items one by one.
CascadeItem(h) ==
    /\ pc[h] = "cascade"
    /\ cur[h] # NoItem
    /\ itemLock[target[h]][cur[h]] = Nobody
    /\ itemLock' = [itemLock EXCEPT ![target[h]][cur[h]] = h]
    /\ NextItem(h, todo[h] \ {cur[h]})
    /\ UNCHANGED <<tables, nextId, orderLock, pc, request, found, target, draft,
                   reply, consumer>>

CommitDelete(h) ==
    /\ pc[h] = "cascade"
    /\ cur[h] = NoItem
    /\ owner' = [owner EXCEPT ![target[h]] = NoUser]
    /\ hours' = [hours EXCEPT ![target[h]] = 0]
    /\ amount' = [amount EXCEPT ![target[h]] = Unset]
    /\ exists' = [exists EXCEPT ![target[h]] = AllExist]
    /\ ReleaseLocks(h)
    /\ \E r \in {"ok", "error"} : Finish(h, r)
    /\ UNCHANGED <<nextId, consumer>>

----------------------------------------------------------------------------
(* Every error path returns an error and rolls back what was written.      *)

\* A bug: without the deferred Rollback the locks outlive the request.
AbortWithoutRollback(h) ==
    /\ Finish(h, "error")
    /\ UNCHANGED <<tables, nextId, locks, consumer>>

Abort(h) ==
    /\ ReleaseLocks(h)
    /\ Finish(h, "error")
    /\ UNCHANGED <<tables, nextId, consumer>>

\* A statement the database refuses: the sequence is exhausted, an amount
\* breaks its CHECK or overflows, or the order is gone (the foreign key).
Refused(h) ==
    \/ pc[h] = "insert" /\ nextId > MaxOrders
    \/ pc[h] = "create" /\ \E p \in found[h] : ToInt32(qty[h][p]) <= 0
    \/ /\ pc[h] = "upsert"
       /\ cur[h] # NoItem
       /\ \/ ~IsOrder(target[h])
          \/ ToInt32(qty[h][cur[h]]) <= 0
          \/ MergedAmount(amount[target[h]][cur[h]], ToInt32(qty[h][cur[h]]))
               > Int32Max

RefusedRequest(h) == Refused(h) /\ Abort(h)

\* A call that fails or whose deadline passes before it is answered.
FailedRequest(h) ==
    /\ pc[h] # "idle"
    /\ ~(pc[h] = "upsert" /\ cur[h] = NoItem)
    /\ Abort(h)

----------------------------------------------------------------------------
(* MarkDeletedProduct, called by the Kafka consumer: one UPDATE of the     *)
(* items its snapshot shows.                                               *)

NextRow(O) ==
    /\ markTodo' = O
    /\ \/ O = {} /\ markCur' = 0
       \/ markCur' \in O

StartMark(p) ==
    /\ marking = NoItem
    /\ marking' = p
    /\ NextRow({o \in OrderId : amount[o][p] > 0})
    /\ UNCHANGED <<tables, nextId, locks, pc, request, found, target, loop,
                   draft, reply>>

\* A bug: SKIP LOCKED, the marking passes over the rows that are taken.
MarkFreeRow ==
    /\ marking # NoItem
    /\ markCur # 0
    /\ itemLock' = IF \/ amount[markCur][marking] = 0
                      \/ itemLock[markCur][marking] # Nobody
                   THEN itemLock
                   ELSE [itemLock EXCEPT ![markCur][marking] = Consumer]
    /\ NextRow(markTodo \ {markCur})
    /\ UNCHANGED <<tables, nextId, orderLock, pc, request, found, target, loop,
                   draft, reply, marking>>

\* A row that is gone by the time its lock is granted is skipped.
MarkRow ==
    /\ marking # NoItem
    /\ markCur # 0
    /\ itemLock[markCur][marking] = Nobody
    /\ itemLock' = IF amount[markCur][marking] = 0 THEN itemLock
                   ELSE [itemLock EXCEPT ![markCur][marking] = Consumer]
    /\ NextRow(markTodo \ {markCur})
    /\ UNCHANGED <<tables, nextId, orderLock, pc, request, found, target, loop,
                   draft, reply, marking>>

EndMark ==
    /\ marking' = NoItem
    /\ markTodo' = {}
    /\ markCur' = 0
    /\ ReleaseLocks(Consumer)
    /\ UNCHANGED <<owner, hours, amount, nextId, pc, request, found, target,
                   loop, draft, reply>>

CommitMark ==
    /\ marking # NoItem
    /\ markCur = 0
    /\ exists' = [o \in OrderId |-> [p \in Products |->
                    exists[o][p] /\ itemLock[o][p] # Consumer]]
    /\ EndMark

\* The statement fails: the consumer logs it and goes on.
FailMark ==
    /\ marking # NoItem
    /\ UNCHANGED exists
    /\ EndMark

----------------------------------------------------------------------------

\* The steps of a request under way that need no failure of the outside.
Progress(h) ==
    \/ \E S \in SUBSET Products : FetchProducts(h, S)
    \/ FindOrderIDByUser(h)
    \/ InsertOrder(h)
    \/ CommitOrder(h)
    \/ LockOrder(h)
    \/ UpsertItem(h)
    \/ CommitMerge(h)
    \/ LockDeleted(h)
    \/ CascadeItem(h)
    \/ CommitDelete(h)
    \/ RefusedRequest(h)

Handle(h) ==
    \/ \E u \in Users, q \in [Products -> Quantities \cup {0}] :
          CreateRequest(h, u, q)
    \/ \E o \in OrderId : DeleteRequest(h, o)
    \/ Progress(h)
    \/ LoseMerge(h)
    \/ FailedRequest(h)

MarkProgress == MarkRow \/ CommitMark

Next ==
    \/ \E h \in Handlers : Handle(h)
    \/ \E p \in Products : StartMark(p)
    \/ MarkProgress
    \/ FailMark

Spec == Init /\ [][Next]_vars

\* Nothing stops a running statement, and Postgres queues the transactions
\* that wait for a row, so one that is unblocked again and again runs.
Fairness ==
    /\ \A h \in Handlers : SF_vars(Progress(h))
    /\ SF_vars(MarkProgress)

FairSpec == Spec /\ Fairness

----------------------------------------------------------------------------
(* What must hold.                                                         *)

\* The committed tables are those of the abstract ledger.
HoursFor ==
    [S \in SUBSET Products |-> calculateDeliveryTimeHours(Cardinality(S))]

\* What the ledger knows of the requests under way: a purchase from the answer
\* of the core service on, with the amounts int32(quantity) makes of what was
\* asked for, and a deletion from its start.
Placing(h) == pc[h] \in {"find", "insert", "create", "lock", "upsert"}
Deleting(h) == pc[h] \in {"delete", "cascade"}

NoPurchase == [buyer |-> NoUser, asked |-> {}, offered |-> {}, pieces |-> Unset]

Purchases ==
    [h \in Handlers |->
       IF Placing(h)
       THEN [buyer |-> user[h], asked |-> Positions(qty[h]),
             offered |-> found[h],
             pieces |-> [p \in Products |-> ToInt32(qty[h][p])]]
       ELSE NoPurchase]

Removals == [h \in Handlers |-> IF Deleting(h) THEN target[h] ELSE 0]

Ledger == INSTANCE OrderLedger WITH purchase <- Purchases, removal <- Removals

\* Agent a needs a row that agent b has locked.
WaitsFor(a, b) ==
    \/ /\ a \in Handlers
       /\ pc[a] \in {"lock", "delete"}
       /\ orderLock[target[a]] = b
    \/ /\ a \in Handlers
       /\ pc[a] \in {"upsert", "cascade"}
       /\ cur[a] # NoItem
       /\ itemLock[target[a]][cur[a]] = b
    \/ /\ a = Consumer
       /\ marking # NoItem
       /\ markCur # 0
       /\ itemLock[markCur][marking] = b

\* No transactions wait for each other in a circle, although each locks its
\* rows in an order of its own: merges walk a map, deletes and markings walk
\* the tables.
NoLockCycle ==
    \A S \in SUBSET Agents :
       S # {} => \E a \in S : \A b \in S : ~WaitsFor(a, b)

\* The invariant that rules circles and lost updates out: the row of the
\* order guards its items.
\*
\* The holder of an order's row is its one open merge or deletion, and an
\* order that is gone stays gone for those that found it.
OrderRows ==
    /\ \A o \in OrderId : IsOrder(o) => o < nextId
    /\ \A h \in Handlers, o \in OrderId : orderLock[o] = h =>
          target[h] = o /\ pc[h] \in {"upsert", "cascade"} /\ IsOrder(o)
    /\ \A h \in Handlers :
          /\ pc[h] \in {"create", "lock", "upsert"} => target[h] < nextId
          /\ pc[h] = "create" => ~IsOrder(target[h])
          /\ pc[h] = "cascade" => orderLock[target[h]] = h
          /\ pc[h] = "upsert" /\ IsOrder(target[h]) => orderLock[target[h]] = h
    /\ \A g, h \in Handlers :
          (g # h /\ pc[g] = "create" /\ pc[h] \in {"create", "lock", "upsert"})
             => target[g] # target[h]

\* An order that is gone, or not there yet, has no items.
NoStrayItems ==
    \A o \in OrderId : ~IsOrder(o) => amount[o] = Unset /\ exists[o] = AllExist

\* A handler locks items of the order it holds only, and each of them once.
HandlerItems ==
    \A h \in Handlers, o \in OrderId, p \in Products :
       itemLock[o][p] = h => orderLock[o] = h /\ p \notin todo[h]

\* The consumer locks items of the product it marks only.
ConsumerItems ==
    \A o \in OrderId, p \in Products : itemLock[o][p] = Consumer =>
       marking = p /\ o \notin markTodo /\ amount[o][p] > 0

\* A deletion has locked all items but those its cascade has still to reach.
CascadeItems ==
    \A h \in Handlers, p \in Products :
       (pc[h] = "cascade" /\ p \notin todo[h] /\ amount[target[h]][p] > 0) =>
          itemLock[target[h]][p] = h

\* The next row of a loop is one of those it has left.
Loops ==
    /\ markCur \in markTodo \/ (markTodo = {} /\ markCur = 0)
    /\ \A h \in Handlers :
          /\ cur[h] \in todo[h] \/ (todo[h] = {} /\ cur[h] = NoItem)
          /\ pc[h] = "upsert" => todo[h] \subseteq found[h]

\* A request that is being placed has a user and orders something, and was
\* offered nothing it does not order.
RequestsFilled ==
    \A h \in Handlers :
       /\ pc[h] \in {"fetch", "find", "insert", "create", "lock", "upsert"} =>
             user[h] \in Users /\ Positions(qty[h]) # {}
       /\ pc[h] \in {"find", "insert", "create", "lock", "upsert"} =>
             found[h] \subseteq Positions(qty[h])

\* What a merge has drafted so far is what its commit must leave.
MergeDrafts ==
    \A h \in Handlers : (pc[h] = "upsert" /\ IsOrder(target[h])) =>
       /\ draftHours[h] = Greatest(hours[target[h]],
            calculateDeliveryTimeHours(Cardinality(Positions(qty[h]))))
       /\ \A p \in found[h] \ todo[h] :
            /\ itemLock[target[h]][p] = h
            /\ ToInt32(qty[h][p]) > 0
            /\ draftAmount[h][p] =
                 MergedAmount(amount[target[h]][p], ToInt32(qty[h][p]))
            /\ draftExists[h][p] = exists[target[h]][p]

\* A merge goes into an order of the user who asked for it.
MergesOwn ==
    \A h \in Handlers :
       (pc[h] \in {"lock", "upsert"} /\ IsOrder(target[h])) =>
          owner[target[h]] = user[h]

IndInv ==
    /\ TypeOK
    /\ OrderRows /\ MergesOwn
    /\ NoStrayItems /\ HandlerItems /\ ConsumerItems /\ CascadeItems
    /\ Loops /\ RequestsFilled /\ MergeDrafts

\* What a merge has read stays true until it commits: the amounts in its
\* draft are the committed ones plus what it orders, the flags are the
\* committed ones, whatever other requests and the consumer commit meanwhile.
DraftsCurrent ==
    \A h \in Handlers :
       (pc[h] = "upsert" /\ IsOrder(target[h])) =>
          /\ draftHours[h] >= hours[target[h]]
          /\ \A p \in found[h] \ todo[h] :
                /\ draftAmount[h][p] = amount[target[h]][p] + ToInt32(qty[h][p])
                /\ draftExists[h][p] = exists[target[h]][p]

\* The tables change as the ledger allows.  A purchase that was offered its
\* items goes in with exactly those, in one step and once, or not at all: a
\* merge that commits only some items, loses what another has added or writes
\* other amounts than were asked for is no step of the ledger, whatever the
\* difference comes to.  It goes into an order of its buyer.  A marking or a
\* deletion that commits in between is never undone, only an order somebody
\* asked to delete is deleted, and no item of it is left behind.
ImplementsLedger == Ledger!Spec

\* How many steps a request takes at most until it is answered.
StepsLeft(h) ==
    CASE pc[h] = "idle" -> 0
      [] pc[h] = "create" -> 1
      [] pc[h] = "insert" -> 2
      [] pc[h] \in {"upsert", "cascade"} -> 1 + Cardinality(todo[h])
      [] pc[h] \in {"lock", "delete"} -> 2 + Cardinality(Products)
      [] pc[h] = "find" -> 3 + Cardinality(Products)
      [] pc[h] = "fetch" -> 4 + Cardinality(Products)

Remembered(h) ==
    <<pc[h], user[h], qty[h], found[h], target[h], todo[h], cur[h]>>

\* Every step of a request brings its end nearer, one of others does not touch
\* it: no path of a handler goes back, no loop writes an item twice, and
\* nothing that others commit gives it more to do.  The same goes for the rows
\* of a marking.
StepsRunOut ==
    [][/\ \A h \in Handlers : pc[h] # "idle" =>
             \/ Remembered(h)' = Remembered(h)
             \/ StepsLeft(h)' < StepsLeft(h)
       /\ marking # NoItem =>
             \/ marking' = NoItem
             \/ /\ marking' = marking
                /\ \/ UNCHANGED <<markTodo, markCur>>
                   \/ Cardinality(markTodo') < Cardinality(markTodo)]_vars

\* Every request is answered and every marking ends.
RequestsAnswered == \A h \in Handlers : (pc[h] # "idle") ~> (pc[h] = "idle")
MarkingsEnd == (marking # NoItem) ~> (marking = NoItem)

----------------------------------------------------------------------------
(* What the source says and the code does not do.                          *)

\* service.go: a user who has an order gets the new one merged into it.
OneOrderPerUser == \A u \in Users : Cardinality(OrdersOf(u)) <= 1

\* order_repo.go: an order that is reported as merged has been merged.
MergedWhenReported ==
    [][\A h \in Handlers :
          (pc[h] = "upsert" /\ pc'[h] = "idle" /\ reply'[h] = "ok") =>
             \A p \in found[h] :
                amount'[target[h]][p] > amount[target[h]][p]]_vars

\* service.go: a deleted product is marked in all orders.
MarkedInAllOrders ==
    [][\A p \in Products, o \in OrderId :
          (CommitMark /\ p = marking /\ amount[o][p] > 0) => ~exists'[o][p]]_vars

----------------------------------------------------------------------------
(* When it does: what the code leaves to its callers.                      *)

\* No user has two orders placed at the same time.
OneRequestPerUser ==
    \A g, h \in Handlers : (g # h /\ user[g] # NoUser) => user[g] # user[h]

\* No request that was offered a product is under way while it is marked.
QuietMarking ==
    marking # NoItem => \A h \in Handlers : marking \notin found[h]

MarkingComplete ==
    (marking # NoItem /\ markCur = 0) =>
       \A o \in OrderId :
          amount[o][marking] > 0 => itemLock[o][marking] = Consumer

\* A user whose requests come one after the other has one order at most,
\* whatever else goes on and however his requests end.
OneOrderIfSerial == []OneRequestPerUser => []OneOrderPerUser

\* A marking has all orders that hold its product by the time it commits if
\* no request brings the product in meanwhile, whoever held the rows.
CompleteIfQuiet == []QuietMarking => []MarkingComplete
==============================================================================
