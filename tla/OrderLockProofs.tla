---------------------------- MODULE OrderLockProofs ----------------------------
(***************************************************************************)
(* OrderService keeps IndInv, for any number of handlers, users, products  *)
(* and orders: whoever has locked the row of an order has its items to     *)
(* itself.  From it: no transactions wait for each other in a circle, and  *)
(* what a merge has drafted is current until it commits.                   *)
(***************************************************************************)
EXTENDS OrderTypeProofs

USE AgentsAssumption, RowsAssumption, NumbersAssumption

\* A handler that has answered is idle and has no loop.
LEMMA FinishSelf ==
    ASSUME TypeOK, NEW h \in Handlers, NEW r, Finish(h, r)
    PROVE  pc'[h] = "idle" /\ todo'[h] = {} /\ cur'[h] = NoItem
BY DEF TypeOK, RequestsOK, LoopsOK, Finish

\* A handler that answers leaves the others as they are.
LEMMA FinishOthers ==
    ASSUME TypeOK, NEW h \in Handlers, NEW r, Finish(h, r),
           NEW g \in Handlers \ {h}
    PROVE  /\ pc'[g] = pc[g] /\ user'[g] = user[g] /\ qty'[g] = qty[g]
           /\ found'[g] = found[g] /\ target'[g] = target[g]
           /\ todo'[g] = todo[g] /\ cur'[g] = cur[g]
           /\ draftHours'[g] = draftHours[g]
           /\ draftAmount'[g] = draftAmount[g]
           /\ draftExists'[g] = draftExists[g]
BY DEF TypeOK, RequestsOK, LoopsOK, DraftsOK, Finish

\* A step leaves what the tables say of an order as it is.
Untouched(o) ==
    /\ owner'[o] = owner[o] /\ hours'[o] = hours[o]
    /\ amount'[o] = amount[o] /\ exists'[o] = exists[o]

\* A request that ends leaves the other merges' drafts right if it does not
\* touch the tables under them.
LEMMA FinishKeepsDrafts ==
    ASSUME IndInv, NEW h \in Handlers, NEW r, Finish(h, r),
           UNCHANGED itemLock \/ ReleaseLocks(h),
           \A g \in Handlers \ {h} :
              (pc[g] = "upsert" /\ owner'[target[g]] # NoUser) =>
                 Untouched(target[g])
    PROVE  MergeDrafts'
<1> SUFFICES ASSUME NEW g \in Handlers, pc'[g] = "upsert",
                    owner'[target'[g]] # NoUser
             PROVE  /\ draftHours'[g] = Greatest(hours'[target'[g]],
                         calculateDeliveryTimeHours(Cardinality(Positions(qty'[g]))))
                    /\ \A p \in found'[g] \ todo'[g] :
                         /\ itemLock'[target'[g]][p] = g
                         /\ ToInt32(qty'[g][p]) > 0
                         /\ draftAmount'[g][p] =
                              MergedAmount(amount'[target'[g]][p], ToInt32(qty'[g][p]))
                         /\ draftExists'[g][p] = exists'[target'[g]][p]
  BY DEF MergeDrafts, IsOrder
<1>1. g \in Handlers \ {h}
  BY FinishSelf DEF IndInv
<1>2. /\ pc'[g] = pc[g] /\ qty'[g] = qty[g] /\ found'[g] = found[g]
      /\ target'[g] = target[g] /\ todo'[g] = todo[g]
      /\ draftHours'[g] = draftHours[g]
      /\ draftAmount'[g] = draftAmount[g]
      /\ draftExists'[g] = draftExists[g]
  BY <1>1, FinishOthers DEF IndInv
<1>3. pc[g] = "upsert" /\ target[g] \in OrderId /\ found[g] \subseteq Products
  BY <1>2 DEF IndInv, TypeOK, RequestsOK
<1>4. Untouched(target[g])
  BY <1>1, <1>2, <1>3
<1>5. IsOrder(target[g])
  BY <1>2, <1>4 DEF IsOrder, Untouched
<1>6. ASSUME NEW p \in Products, itemLock[target[g]][p] = g
      PROVE  itemLock'[target[g]][p] = g
  BY <1>1, <1>3, <1>6 DEF ReleaseLocks
<1> QED
  BY <1>2, <1>3, <1>4, <1>5, <1>6 DEF IndInv, MergeDrafts, Untouched

\* No step gives the row of an order to a second transaction.
LEMMA NextOrderRows == IndInv /\ [Next]_vars => OrderRows'
<1> SUFFICES ASSUME IndInv, [Next]_vars PROVE OrderRows'
  OBVIOUS
<1> USE DEF IndInv, TypeOK, tables, locks, request, draft, loop, consumer, IsOrder
<1>1. ASSUME NEW h \in Handlers, NEW u \in Users,
             NEW q \in [Products -> Quantities \cup {0}],
             CreateRequest(h, u, q)
      PROVE  OrderRows'
  BY <1>1
     DEF CreateRequest, Finish, OrderRows, TablesOK, LocksOK, RequestsOK,
         OrderId
<1>2. ASSUME NEW h \in Handlers, NEW S \in SUBSET Products,
             FetchProducts(h, S)
      PROVE  OrderRows'
  BY <1>2 DEF FetchProducts, OrderRows, TablesOK, LocksOK, RequestsOK, OrderId
<1>3. ASSUME NEW h \in Handlers, FindOrderIDByUser(h)
      PROVE  OrderRows'
  <2>1. CASE pc' = [pc EXCEPT ![h] = "insert"] /\ UNCHANGED target
    BY <1>3, <2>1 DEF FindOrderIDByUser, OrderRows, RequestsOK
  <2>2. ASSUME NEW o \in OrdersOf(user[h]), pc' = [pc EXCEPT ![h] = "lock"],
               target' = [target EXCEPT ![h] = o]
        PROVE  OrderRows'
    <3>1. o \in OrderId /\ IsOrder(o) /\ o < nextId
      BY <1>3, RequestsFilled DEF FindOrderIDByUser, OrdersOf, RequestsFilled, OrderRows
    <3> QED
      BY <1>3, <2>2, <3>1 DEF FindOrderIDByUser, OrderRows, RequestsOK
  <2> QED
    BY <1>3, <2>1, <2>2 DEF FindOrderIDByUser
<1>4. ASSUME NEW h \in Handlers, InsertOrder(h)
      PROVE  OrderRows'
  BY <1>4 DEF InsertOrder, OrderRows, TablesOK, LocksOK, RequestsOK, OrderId
<1>5. ASSUME NEW h \in Handlers, CommitOrder(h)
      PROVE  OrderRows'
  BY <1>5
     DEF CommitOrder, Finish, OrderRows, TablesOK, LocksOK, RequestsOK,
         OrderId
<1>6. ASSUME NEW h \in Handlers, LockOrder(h)
      PROVE  OrderRows'
  <2>1. /\ UNCHANGED <<owner, nextId, target>>
        /\ pc' = [pc EXCEPT ![h] = "upsert"]
        /\ pc[h] = "lock" /\ orderLock[target[h]] = Nobody /\ target[h] \in OrderId
    BY <1>6 DEF LockOrder, RequestsOK
  <2>2. CASE ~IsOrder(target[h]) /\ UNCHANGED orderLock
    BY <2>1, <2>2 DEF OrderRows, LocksOK, RequestsOK
  <2>3. CASE IsOrder(target[h]) /\ orderLock' = [orderLock EXCEPT ![target[h]] = h]
    BY <2>1, <2>3 DEF OrderRows, LocksOK, RequestsOK
  <2> QED
    BY <1>6, <2>2, <2>3 DEF LockOrder
<1>7. ASSUME NEW h \in Handlers, UpsertItem(h)
      PROVE  OrderRows'
  BY <1>7
     DEF UpsertItem, NextItem, OrderRows, TablesOK, LocksOK, RequestsOK,
         OrderId
<1>8. ASSUME NEW h \in Handlers, CommitMerge(h)
      PROVE  OrderRows'
  BY <1>8
     DEF CommitMerge, Finish, ReleaseLocks, OrderRows, TablesOK, LocksOK,
         RequestsOK, OrderId
<1>9. ASSUME NEW h \in Handlers, LoseMerge(h)
      PROVE  OrderRows'
  BY <1>9
     DEF LoseMerge, Finish, ReleaseLocks, OrderRows, TablesOK, LocksOK,
         RequestsOK, OrderId
<1>10. ASSUME NEW h \in Handlers, NEW o \in OrderId, DeleteRequest(h, o)
       PROVE  OrderRows'
  BY <1>10
     DEF DeleteRequest, OrderRows, TablesOK, LocksOK, RequestsOK, OrderId
<1>11. ASSUME NEW h \in Handlers, LockDeleted(h)
       PROVE  OrderRows'
  <2>1. CASE ~IsOrder(target[h])
    <3>1. Finish(h, "error") /\ UNCHANGED orderLock
      BY <1>11, <2>1 DEF LockDeleted
    <3>2. \A g \in Handlers : pc'[g] # "idle" =>
             g # h /\ pc'[g] = pc[g] /\ target'[g] = target[g]
      BY <3>1, FinishSelf, FinishOthers
    <3>3. \A o \in OrderId : orderLock[o] # h
      BY <1>11 DEF LockDeleted, OrderRows
    <3>4. \A g \in Handlers, o \in OrderId : orderLock'[o] = g =>
             target'[g] = o /\ pc'[g] \in {"upsert", "cascade"} /\ IsOrder(o)
      BY <3>1, <3>3, FinishOthers DEF OrderRows
    <3> QED
      BY <1>11, <3>1, <3>2, <3>4 DEF LockDeleted, OrderRows
  <2>2. CASE IsOrder(target[h])
    BY <1>11, <2>2 DEF LockDeleted, OrderRows, RequestsOK, LocksOK
  <2> QED
    BY <2>1, <2>2
<1>12. ASSUME NEW h \in Handlers, CascadeItem(h)
       PROVE  OrderRows'
  BY <1>12
     DEF CascadeItem, NextItem, OrderRows, TablesOK, LocksOK, RequestsOK,
         OrderId
<1>13. ASSUME NEW h \in Handlers, CommitDelete(h)
       PROVE  OrderRows'
  BY <1>13
     DEF CommitDelete, Finish, ReleaseLocks, OrderRows, TablesOK, LocksOK,
         RequestsOK, OrderId
<1>14. ASSUME NEW h \in Handlers, Abort(h)
       PROVE  OrderRows'
  BY <1>14
     DEF Abort, Finish, ReleaseLocks, OrderRows, TablesOK, LocksOK,
         RequestsOK, OrderId
<1>15. ASSUME NEW p \in Products, StartMark(p)
       PROVE  OrderRows'
  BY <1>15
     DEF StartMark, NextRow, OrderRows, TablesOK, LocksOK, RequestsOK,
         OrderId
<1>16. ASSUME MarkRow
       PROVE  OrderRows'
  BY <1>16
     DEF MarkRow, NextRow, OrderRows, TablesOK, LocksOK, RequestsOK,
         OrderId
<1>17. ASSUME CommitMark
       PROVE  OrderRows'
  BY <1>17
     DEF CommitMark, EndMark, ReleaseLocks, OrderRows, TablesOK, LocksOK,
         RequestsOK, OrderId
<1>18. ASSUME FailMark
       PROVE  OrderRows'
  BY <1>18
     DEF FailMark, EndMark, ReleaseLocks, OrderRows, TablesOK, LocksOK,
         RequestsOK, OrderId
<1>19. CASE UNCHANGED vars
  BY <1>19 DEF vars, OrderRows
<1> QED
  BY <1>1, <1>2, <1>3, <1>4, <1>5, <1>6, <1>7, <1>8, <1>9, <1>10, <1>11,
     <1>12, <1>13, <1>14, <1>15, <1>16, <1>17, <1>18, <1>19
     DEF Next, Handle, Progress, RefusedRequest, FailedRequest,
         MarkProgress

\* No step leaves an item behind without its order.
LEMMA NextNoStrayItems == IndInv /\ [Next]_vars => NoStrayItems'
<1> SUFFICES ASSUME IndInv, [Next]_vars PROVE NoStrayItems'
  OBVIOUS
<1> USE DEF IndInv, TypeOK, tables, locks, request, draft, loop, consumer, IsOrder
<1>1. ASSUME NEW h \in Handlers, NEW u \in Users,
             NEW q \in [Products -> Quantities \cup {0}],
             CreateRequest(h, u, q)
      PROVE  NoStrayItems'
  BY <1>1 DEF CreateRequest, Finish, NoStrayItems, TablesOK
<1>2. ASSUME NEW h \in Handlers, NEW S \in SUBSET Products,
             FetchProducts(h, S)
      PROVE  NoStrayItems'
  BY <1>2 DEF FetchProducts, NoStrayItems, TablesOK
<1>3. ASSUME NEW h \in Handlers, FindOrderIDByUser(h)
      PROVE  NoStrayItems'
  BY <1>3 DEF FindOrderIDByUser, OrdersOf, NoStrayItems, TablesOK
<1>4. ASSUME NEW h \in Handlers, InsertOrder(h)
      PROVE  NoStrayItems'
  BY <1>4 DEF InsertOrder, NoStrayItems, TablesOK
<1>5. ASSUME NEW h \in Handlers, CommitOrder(h)
      PROVE  NoStrayItems'
  <2>1. target[h] \in OrderId /\ user[h] \in Users
    BY <1>5 DEF CommitOrder, RequestsOK, RequestsFilled
  <2> QED
    BY <1>5, <2>1 DEF CommitOrder, NoStrayItems, TablesOK
<1>6. ASSUME NEW h \in Handlers, LockOrder(h)
      PROVE  NoStrayItems'
  BY <1>6 DEF LockOrder, NextItem, NoStrayItems, TablesOK
<1>7. ASSUME NEW h \in Handlers, UpsertItem(h)
      PROVE  NoStrayItems'
  BY <1>7 DEF UpsertItem, NextItem, NoStrayItems, TablesOK
<1>8. ASSUME NEW h \in Handlers, CommitMerge(h)
      PROVE  NoStrayItems'
  <2> SUFFICES ASSUME NEW o \in OrderId, ~IsOrder(o)'
               PROVE  amount'[o] = Unset /\ exists'[o] = AllExist
    BY DEF NoStrayItems
  <2>1. ~IsOrder(o)
    BY <1>8 DEF CommitMerge
  <2>2. orderLock[target[h]] = h => o # target[h]
    BY <1>8, <2>1 DEF CommitMerge, OrderRows, RequestsOK
  <2> QED
    BY <1>8, <2>1, <2>2 DEF CommitMerge, NoStrayItems, TablesOK
<1>9. ASSUME NEW h \in Handlers, LoseMerge(h)
      PROVE  NoStrayItems'
  BY <1>9 DEF LoseMerge, Finish, ReleaseLocks, NoStrayItems, TablesOK
<1>10. ASSUME NEW h \in Handlers, NEW o \in OrderId, DeleteRequest(h, o)
       PROVE  NoStrayItems'
  BY <1>10 DEF DeleteRequest, NoStrayItems, TablesOK
<1>11. ASSUME NEW h \in Handlers, LockDeleted(h)
       PROVE  NoStrayItems'
  BY <1>11 DEF LockDeleted, NextItem, Finish, NoStrayItems, TablesOK
<1>12. ASSUME NEW h \in Handlers, CascadeItem(h)
       PROVE  NoStrayItems'
  BY <1>12 DEF CascadeItem, NextItem, NoStrayItems, TablesOK
<1>13. ASSUME NEW h \in Handlers, CommitDelete(h)
       PROVE  NoStrayItems'
  <2> SUFFICES ASSUME NEW o \in OrderId, ~IsOrder(o)'
               PROVE  amount'[o] = Unset /\ exists'[o] = AllExist
    BY DEF NoStrayItems
  <2>1. CASE o = target[h]
    BY <1>13, <2>1 DEF CommitDelete, TablesOK
  <2>2. CASE o # target[h]
    BY <1>13, <2>2 DEF CommitDelete, NoStrayItems, TablesOK
  <2> QED
    BY <2>1, <2>2
<1>14. ASSUME NEW h \in Handlers, Abort(h)
       PROVE  NoStrayItems'
  BY <1>14 DEF Abort, Finish, ReleaseLocks, NoStrayItems, TablesOK
<1>15. ASSUME NEW p \in Products, StartMark(p)
       PROVE  NoStrayItems'
  BY <1>15 DEF StartMark, NextRow, NoStrayItems, TablesOK
<1>16. ASSUME MarkRow
       PROVE  NoStrayItems'
  BY <1>16 DEF MarkRow, NextRow, NoStrayItems, TablesOK
<1>17. ASSUME CommitMark
       PROVE  NoStrayItems'
  <2> SUFFICES ASSUME NEW o \in OrderId, ~IsOrder(o)'
               PROVE  amount'[o] = Unset /\ exists'[o] = AllExist
    BY DEF NoStrayItems
  <2>1. ~IsOrder(o) /\ amount'[o] = Unset /\ exists[o] = AllExist
    BY <1>17 DEF CommitMark, EndMark, NoStrayItems
  <2>2. ASSUME NEW p \in Products
        PROVE  exists[o][p] /\ itemLock[o][p] # Consumer
    BY <1>17, <2>1 DEF CommitMark, EndMark, ConsumerItems, Unset, AllExist
  <2>3. exists'[o] = [p \in Products |->
                        exists[o][p] /\ itemLock[o][p] # Consumer]
    BY <1>17 DEF CommitMark
  <2> QED
    BY <2>1, <2>2, <2>3 DEF AllExist
<1>18. ASSUME FailMark
       PROVE  NoStrayItems'
  BY <1>18 DEF FailMark, EndMark, ReleaseLocks, NoStrayItems, TablesOK
<1>19. CASE UNCHANGED vars
  BY <1>19 DEF vars, NoStrayItems
<1> QED
  BY <1>1, <1>2, <1>3, <1>4, <1>5, <1>6, <1>7, <1>8, <1>9, <1>10, <1>11,
     <1>12, <1>13, <1>14, <1>15, <1>16, <1>17, <1>18, <1>19
     DEF Next, Handle, Progress, RefusedRequest, FailedRequest,
         MarkProgress

\* No handler locks an item of an order it has not locked.
LEMMA NextHandlerItems == IndInv /\ [Next]_vars => HandlerItems'
<1> SUFFICES ASSUME IndInv, [Next]_vars PROVE HandlerItems'
  OBVIOUS
<1> USE DEF IndInv, TypeOK, tables, locks, request, draft, loop, consumer, IsOrder
<1>1. ASSUME NEW h \in Handlers, NEW u \in Users,
             NEW q \in [Products -> Quantities \cup {0}],
             CreateRequest(h, u, q)
      PROVE  HandlerItems'
  BY <1>1
     DEF CreateRequest, Finish, HandlerItems, OrderRows, LocksOK,
         RequestsOK, LoopsOK, Agents
<1>2. ASSUME NEW h \in Handlers, NEW S \in SUBSET Products,
             FetchProducts(h, S)
      PROVE  HandlerItems'
  BY <1>2
     DEF FetchProducts, HandlerItems, OrderRows, LocksOK, RequestsOK,
         LoopsOK, Agents
<1>3. ASSUME NEW h \in Handlers, FindOrderIDByUser(h)
      PROVE  HandlerItems'
  BY <1>3
     DEF FindOrderIDByUser, OrdersOf, HandlerItems, OrderRows, LocksOK,
         RequestsOK, LoopsOK, Agents
<1>4. ASSUME NEW h \in Handlers, InsertOrder(h)
      PROVE  HandlerItems'
  BY <1>4
     DEF InsertOrder, HandlerItems, OrderRows, LocksOK, RequestsOK,
         LoopsOK, Agents
<1>5. ASSUME NEW h \in Handlers, CommitOrder(h)
      PROVE  HandlerItems'
  BY <1>5
     DEF CommitOrder, Finish, HandlerItems, OrderRows, LocksOK, RequestsOK,
         LoopsOK, Agents
<1>6. ASSUME NEW h \in Handlers, LockOrder(h)
      PROVE  HandlerItems'
  BY <1>6
     DEF LockOrder, NextItem, HandlerItems, OrderRows, LocksOK, RequestsOK,
         LoopsOK, Agents
<1>7. ASSUME NEW h \in Handlers, UpsertItem(h)
      PROVE  HandlerItems'
  BY <1>7
     DEF UpsertItem, NextItem, HandlerItems, OrderRows, LocksOK,
         RequestsOK, LoopsOK, Agents
<1>8. ASSUME NEW h \in Handlers, CommitMerge(h)
      PROVE  HandlerItems'
  BY <1>8
     DEF CommitMerge, Finish, ReleaseLocks, HandlerItems, OrderRows,
         LocksOK, RequestsOK, LoopsOK, Agents
<1>9. ASSUME NEW h \in Handlers, LoseMerge(h)
      PROVE  HandlerItems'
  BY <1>9
     DEF LoseMerge, Finish, ReleaseLocks, HandlerItems, OrderRows, LocksOK,
         RequestsOK, LoopsOK, Agents
<1>10. ASSUME NEW h \in Handlers, NEW o \in OrderId, DeleteRequest(h, o)
       PROVE  HandlerItems'
  BY <1>10
     DEF DeleteRequest, HandlerItems, OrderRows, LocksOK, RequestsOK,
         LoopsOK, Agents
<1>11. ASSUME NEW h \in Handlers, LockDeleted(h)
       PROVE  HandlerItems'
  <2>1. \A o \in OrderId, p \in Products : itemLock[o][p] # h
    BY <1>11 DEF LockDeleted, HandlerItems, OrderRows
  <2>2. \A g \in Handlers \ {h} : todo'[g] = todo[g]
    BY <1>11, FinishOthers DEF LockDeleted, NextItem, LoopsOK
  <2>3. \A o \in OrderId, g \in Handlers \ {h} :
           orderLock[o] = g => orderLock'[o] = g
    BY <1>11 DEF LockDeleted, LocksOK, RequestsOK
  <2> QED
    BY <1>11, <2>1, <2>2, <2>3 DEF LockDeleted, HandlerItems
<1>12. ASSUME NEW h \in Handlers, CascadeItem(h)
       PROVE  HandlerItems'
  BY <1>12
     DEF CascadeItem, NextItem, HandlerItems, OrderRows, LocksOK,
         RequestsOK, LoopsOK, Agents
<1>13. ASSUME NEW h \in Handlers, CommitDelete(h)
       PROVE  HandlerItems'
  BY <1>13
     DEF CommitDelete, Finish, ReleaseLocks, HandlerItems, OrderRows,
         LocksOK, RequestsOK, LoopsOK, Agents
<1>14. ASSUME NEW h \in Handlers, Abort(h)
       PROVE  HandlerItems'
  BY <1>14
     DEF Abort, Finish, ReleaseLocks, HandlerItems, OrderRows, LocksOK,
         RequestsOK, LoopsOK, Agents
<1>15. ASSUME NEW p \in Products, StartMark(p)
       PROVE  HandlerItems'
  BY <1>15
     DEF StartMark, NextRow, HandlerItems, OrderRows, LocksOK, RequestsOK,
         LoopsOK, Agents
<1>16. ASSUME MarkRow
       PROVE  HandlerItems'
  BY <1>16
     DEF MarkRow, NextRow, HandlerItems, OrderRows, LocksOK, RequestsOK,
         LoopsOK, Agents
<1>17. ASSUME CommitMark
       PROVE  HandlerItems'
  BY <1>17
     DEF CommitMark, EndMark, ReleaseLocks, HandlerItems, OrderRows,
         LocksOK, RequestsOK, LoopsOK, Agents
<1>18. ASSUME FailMark
       PROVE  HandlerItems'
  BY <1>18
     DEF FailMark, EndMark, ReleaseLocks, HandlerItems, OrderRows, LocksOK,
         RequestsOK, LoopsOK, Agents
<1>19. CASE UNCHANGED vars
  BY <1>19 DEF vars, HandlerItems
<1> QED
  BY <1>1, <1>2, <1>3, <1>4, <1>5, <1>6, <1>7, <1>8, <1>9, <1>10, <1>11,
     <1>12, <1>13, <1>14, <1>15, <1>16, <1>17, <1>18, <1>19
     DEF Next, Handle, Progress, RefusedRequest, FailedRequest,
         MarkProgress

\* The consumer locks only rows that are there, of the product it marks.
LEMMA NextConsumerItems == IndInv /\ [Next]_vars => ConsumerItems'
<1> SUFFICES ASSUME IndInv, [Next]_vars PROVE ConsumerItems'
  OBVIOUS
<1> USE DEF IndInv, TypeOK, tables, locks, request, draft, loop, consumer, IsOrder
<1>1. ASSUME NEW h \in Handlers, NEW u \in Users,
             NEW q \in [Products -> Quantities \cup {0}],
             CreateRequest(h, u, q)
      PROVE  ConsumerItems'
  BY <1>1
     DEF CreateRequest, Finish, ConsumerItems, NoStrayItems, CascadeItems,
         OrderRows, TablesOK, LocksOK, RequestsOK, LoopsOK, ConsumerOK,
         Loops, Unset, Agents
<1>2. ASSUME NEW h \in Handlers, NEW S \in SUBSET Products,
             FetchProducts(h, S)
      PROVE  ConsumerItems'
  BY <1>2
     DEF FetchProducts, ConsumerItems, NoStrayItems, CascadeItems,
         OrderRows, TablesOK, LocksOK, RequestsOK, LoopsOK, ConsumerOK,
         Loops, Unset, Agents
<1>3. ASSUME NEW h \in Handlers, FindOrderIDByUser(h)
      PROVE  ConsumerItems'
  BY <1>3
     DEF FindOrderIDByUser, OrdersOf, ConsumerItems, NoStrayItems,
         CascadeItems, OrderRows, TablesOK, LocksOK, RequestsOK, LoopsOK,
         ConsumerOK, Loops, Unset, Agents
<1>4. ASSUME NEW h \in Handlers, InsertOrder(h)
      PROVE  ConsumerItems'
  BY <1>4
     DEF InsertOrder, ConsumerItems, NoStrayItems, CascadeItems, OrderRows,
         TablesOK, LocksOK, RequestsOK, LoopsOK, ConsumerOK, Loops, Unset,
         Agents
<1>5. ASSUME NEW h \in Handlers, CommitOrder(h)
      PROVE  ConsumerItems'
  BY <1>5
     DEF CommitOrder, Finish, ConsumerItems, NoStrayItems, CascadeItems,
         OrderRows, TablesOK, LocksOK, RequestsOK, LoopsOK, ConsumerOK,
         Loops, Unset, Agents
<1>6. ASSUME NEW h \in Handlers, LockOrder(h)
      PROVE  ConsumerItems'
  BY <1>6
     DEF LockOrder, NextItem, ConsumerItems, NoStrayItems, CascadeItems,
         OrderRows, TablesOK, LocksOK, RequestsOK, LoopsOK, ConsumerOK,
         Loops, Unset, Agents
<1>7. ASSUME NEW h \in Handlers, UpsertItem(h)
      PROVE  ConsumerItems'
  BY <1>7
     DEF UpsertItem, NextItem, ConsumerItems, NoStrayItems, CascadeItems,
         OrderRows, TablesOK, LocksOK, RequestsOK, LoopsOK, ConsumerOK,
         Loops, Unset, Agents
<1>8. ASSUME NEW h \in Handlers, CommitMerge(h)
      PROVE  ConsumerItems'
  <2> SUFFICES ASSUME NEW o \in OrderId, NEW p \in Products,
                      itemLock'[o][p] = Consumer
               PROVE  marking' = p /\ o \notin markTodo' /\ amount'[o][p] > 0
    BY DEF ConsumerItems
  <2>1. itemLock[o][p] = Consumer
    BY <1>8 DEF CommitMerge, ReleaseLocks
  <2>2. marking' = p /\ o \notin markTodo' /\ amount[o][p] > 0
    BY <1>8, <2>1 DEF CommitMerge, ConsumerItems
  <2>3. ASSUME orderLock[target[h]] = h, o = target[h]
        PROVE  p \notin found[h]
    <3>1. IsOrder(target[h]) /\ todo[h] = {}
      BY <1>8, <2>3 DEF CommitMerge, OrderRows, Loops, LoopsOK, RequestsOK
    <3> QED
      BY <1>8, <2>1, <2>3, <3>1 DEF CommitMerge, MergeDrafts
  <2>4. amount'[o][p] = amount[o][p]
    BY <1>8, <2>3 DEF CommitMerge, TablesOK
  <2> QED
    BY <2>2, <2>4
<1>9. ASSUME NEW h \in Handlers, LoseMerge(h)
      PROVE  ConsumerItems'
  BY <1>9
     DEF LoseMerge, Finish, ReleaseLocks, ConsumerItems, NoStrayItems,
         CascadeItems, OrderRows, TablesOK, LocksOK, RequestsOK, LoopsOK,
         ConsumerOK, Loops, Unset, Agents
<1>10. ASSUME NEW h \in Handlers, NEW o \in OrderId, DeleteRequest(h, o)
       PROVE  ConsumerItems'
  BY <1>10
     DEF DeleteRequest, ConsumerItems, NoStrayItems, CascadeItems,
         OrderRows, TablesOK, LocksOK, RequestsOK, LoopsOK, ConsumerOK,
         Loops, Unset, Agents
<1>11. ASSUME NEW h \in Handlers, LockDeleted(h)
       PROVE  ConsumerItems'
  BY <1>11
     DEF LockDeleted, NextItem, Finish, ConsumerItems, NoStrayItems,
         CascadeItems, OrderRows, TablesOK, LocksOK, RequestsOK, LoopsOK,
         ConsumerOK, Loops, Unset, Agents
<1>12. ASSUME NEW h \in Handlers, CascadeItem(h)
       PROVE  ConsumerItems'
  BY <1>12
     DEF CascadeItem, NextItem, ConsumerItems, NoStrayItems, CascadeItems,
         OrderRows, TablesOK, LocksOK, RequestsOK, LoopsOK, ConsumerOK,
         Loops, Unset, Agents
<1>13. ASSUME NEW h \in Handlers, CommitDelete(h)
       PROVE  ConsumerItems'
  BY <1>13
     DEF CommitDelete, Finish, ReleaseLocks, ConsumerItems, NoStrayItems,
         CascadeItems, OrderRows, TablesOK, LocksOK, RequestsOK, LoopsOK,
         ConsumerOK, Loops, Unset, Agents
<1>14. ASSUME NEW h \in Handlers, Abort(h)
       PROVE  ConsumerItems'
  BY <1>14
     DEF Abort, Finish, ReleaseLocks, ConsumerItems, NoStrayItems,
         CascadeItems, OrderRows, TablesOK, LocksOK, RequestsOK, LoopsOK,
         ConsumerOK, Loops, Unset, Agents
<1>15. ASSUME NEW p \in Products, StartMark(p)
       PROVE  ConsumerItems'
  BY <1>15
     DEF StartMark, NextRow, ConsumerItems, NoStrayItems, CascadeItems,
         OrderRows, TablesOK, LocksOK, RequestsOK, LoopsOK, ConsumerOK,
         Loops, Unset, Agents
<1>16. ASSUME MarkRow
       PROVE  ConsumerItems'
  BY <1>16
     DEF MarkRow, NextRow, ConsumerItems, NoStrayItems, CascadeItems,
         OrderRows, TablesOK, LocksOK, RequestsOK, LoopsOK, ConsumerOK,
         Loops, Unset, Agents
<1>17. ASSUME CommitMark
       PROVE  ConsumerItems'
  BY <1>17
     DEF CommitMark, EndMark, ReleaseLocks, ConsumerItems, NoStrayItems,
         CascadeItems, OrderRows, TablesOK, LocksOK, RequestsOK, LoopsOK,
         ConsumerOK, Loops, Unset, Agents
<1>18. ASSUME FailMark
       PROVE  ConsumerItems'
  BY <1>18
     DEF FailMark, EndMark, ReleaseLocks, ConsumerItems, NoStrayItems,
         CascadeItems, OrderRows, TablesOK, LocksOK, RequestsOK, LoopsOK,
         ConsumerOK, Loops, Unset, Agents
<1>19. CASE UNCHANGED vars
  BY <1>19 DEF vars, ConsumerItems
<1> QED
  BY <1>1, <1>2, <1>3, <1>4, <1>5, <1>6, <1>7, <1>8, <1>9, <1>10, <1>11,
     <1>12, <1>13, <1>14, <1>15, <1>16, <1>17, <1>18, <1>19
     DEF Next, Handle, Progress, RefusedRequest, FailedRequest,
         MarkProgress

\* A cascade loses none of the locks it has taken.
LEMMA NextCascadeItems == IndInv /\ [Next]_vars => CascadeItems'
<1> SUFFICES ASSUME IndInv, [Next]_vars PROVE CascadeItems'
  OBVIOUS
<1> USE DEF IndInv, TypeOK, tables, locks, request, draft, loop, consumer, IsOrder
<1>1. ASSUME NEW h \in Handlers, NEW u \in Users,
             NEW q \in [Products -> Quantities \cup {0}],
             CreateRequest(h, u, q)
      PROVE  CascadeItems'
  BY <1>1
     DEF CreateRequest, Finish, CascadeItems, NoStrayItems, OrderRows,
         TablesOK, LocksOK, RequestsOK, LoopsOK, Unset, Agents
<1>2. ASSUME NEW h \in Handlers, NEW S \in SUBSET Products,
             FetchProducts(h, S)
      PROVE  CascadeItems'
  BY <1>2
     DEF FetchProducts, CascadeItems, NoStrayItems, OrderRows, TablesOK,
         LocksOK, RequestsOK, LoopsOK, Unset, Agents
<1>3. ASSUME NEW h \in Handlers, FindOrderIDByUser(h)
      PROVE  CascadeItems'
  BY <1>3
     DEF FindOrderIDByUser, OrdersOf, CascadeItems, NoStrayItems,
         OrderRows, TablesOK, LocksOK, RequestsOK, LoopsOK, Unset, Agents
<1>4. ASSUME NEW h \in Handlers, InsertOrder(h)
      PROVE  CascadeItems'
  BY <1>4
     DEF InsertOrder, CascadeItems, NoStrayItems, OrderRows, TablesOK,
         LocksOK, RequestsOK, LoopsOK, Unset, Agents
<1>5. ASSUME NEW h \in Handlers, CommitOrder(h)
      PROVE  CascadeItems'
  BY <1>5
     DEF CommitOrder, Finish, CascadeItems, NoStrayItems, OrderRows,
         TablesOK, LocksOK, RequestsOK, LoopsOK, Unset, Agents
<1>6. ASSUME NEW h \in Handlers, LockOrder(h)
      PROVE  CascadeItems'
  BY <1>6
     DEF LockOrder, NextItem, CascadeItems, NoStrayItems, OrderRows,
         TablesOK, LocksOK, RequestsOK, LoopsOK, Unset, Agents
<1>7. ASSUME NEW h \in Handlers, UpsertItem(h)
      PROVE  CascadeItems'
  BY <1>7
     DEF UpsertItem, NextItem, CascadeItems, NoStrayItems, OrderRows,
         TablesOK, LocksOK, RequestsOK, LoopsOK, Unset, Agents
<1>8. ASSUME NEW h \in Handlers, CommitMerge(h)
      PROVE  CascadeItems'
  <2> SUFFICES ASSUME NEW g \in Handlers, NEW p \in Products, pc'[g] = "cascade",
                      p \notin todo'[g], amount'[target'[g]][p] > 0
               PROVE  itemLock'[target'[g]][p] = g
    BY DEF CascadeItems
  <2>1. /\ g # h /\ pc[g] = "cascade" /\ todo'[g] = todo[g]
        /\ target'[g] = target[g] /\ target[g] \in OrderId
    BY <1>8, FinishSelf, FinishOthers DEF CommitMerge, RequestsOK
  <2>2. orderLock[target[h]] = h => target[g] # target[h]
    BY <1>8, <2>1 DEF OrderRows
  <2>3. amount'[target[g]] = amount[target[g]]
    BY <1>8, <2>1, <2>2 DEF CommitMerge, TablesOK
  <2> QED
    BY <1>8, <2>1, <2>3 DEF CommitMerge, ReleaseLocks, CascadeItems
<1>9. ASSUME NEW h \in Handlers, LoseMerge(h)
      PROVE  CascadeItems'
  BY <1>9
     DEF LoseMerge, Finish, ReleaseLocks, CascadeItems, NoStrayItems,
         OrderRows, TablesOK, LocksOK, RequestsOK, LoopsOK, Unset, Agents
<1>10. ASSUME NEW h \in Handlers, NEW o \in OrderId, DeleteRequest(h, o)
       PROVE  CascadeItems'
  BY <1>10
     DEF DeleteRequest, CascadeItems, NoStrayItems, OrderRows, TablesOK,
         LocksOK, RequestsOK, LoopsOK, Unset, Agents
<1>11. ASSUME NEW h \in Handlers, LockDeleted(h)
       PROVE  CascadeItems'
  <2>1. CASE ~IsOrder(target[h])
    <3>1. Finish(h, "error")
      BY <1>11, <2>1 DEF LockDeleted
    <3>2. \A g \in Handlers : pc'[g] = "cascade" =>
             /\ pc[g] = "cascade"
             /\ todo'[g] = todo[g] /\ target'[g] = target[g]
      BY <3>1, FinishSelf, FinishOthers
    <3> QED
      BY <1>11, <3>2 DEF LockDeleted, CascadeItems
  <2>2. CASE IsOrder(target[h])
    <3>1. todo'[h] = {p \in Products : amount[target[h]][p] > 0}
      BY <1>11, <2>2 DEF LockDeleted, NextItem, LoopsOK
    <3>2. \A g \in Handlers \ {h} : todo'[g] = todo[g] /\ pc'[g] = pc[g]
      BY <1>11, <2>2 DEF LockDeleted, NextItem, LoopsOK, RequestsOK
    <3> QED
      BY <1>11, <2>2, <3>1, <3>2 DEF LockDeleted, CascadeItems
  <2> QED
    BY <2>1, <2>2
<1>12. ASSUME NEW h \in Handlers, CascadeItem(h)
       PROVE  CascadeItems'
  BY <1>12
     DEF CascadeItem, NextItem, CascadeItems, NoStrayItems, OrderRows,
         TablesOK, LocksOK, RequestsOK, LoopsOK, Unset, Agents
<1>13. ASSUME NEW h \in Handlers, CommitDelete(h)
       PROVE  CascadeItems'
  BY <1>13
     DEF CommitDelete, Finish, ReleaseLocks, CascadeItems, NoStrayItems,
         OrderRows, TablesOK, LocksOK, RequestsOK, LoopsOK, Unset, Agents
<1>14. ASSUME NEW h \in Handlers, Abort(h)
       PROVE  CascadeItems'
  BY <1>14
     DEF Abort, Finish, ReleaseLocks, CascadeItems, NoStrayItems,
         OrderRows, TablesOK, LocksOK, RequestsOK, LoopsOK, Unset, Agents
<1>15. ASSUME NEW p \in Products, StartMark(p)
       PROVE  CascadeItems'
  BY <1>15
     DEF StartMark, NextRow, CascadeItems, NoStrayItems, OrderRows,
         TablesOK, LocksOK, RequestsOK, LoopsOK, Unset, Agents
<1>16. ASSUME MarkRow
       PROVE  CascadeItems'
  BY <1>16
     DEF MarkRow, NextRow, CascadeItems, NoStrayItems, OrderRows, TablesOK,
         LocksOK, RequestsOK, LoopsOK, Unset, Agents
<1>17. ASSUME CommitMark
       PROVE  CascadeItems'
  BY <1>17
     DEF CommitMark, EndMark, ReleaseLocks, CascadeItems, NoStrayItems,
         OrderRows, TablesOK, LocksOK, RequestsOK, LoopsOK, Unset, Agents
<1>18. ASSUME FailMark
       PROVE  CascadeItems'
  BY <1>18
     DEF FailMark, EndMark, ReleaseLocks, CascadeItems, NoStrayItems,
         OrderRows, TablesOK, LocksOK, RequestsOK, LoopsOK, Unset, Agents
<1>19. CASE UNCHANGED vars
  BY <1>19 DEF vars, CascadeItems
<1> QED
  BY <1>1, <1>2, <1>3, <1>4, <1>5, <1>6, <1>7, <1>8, <1>9, <1>10, <1>11,
     <1>12, <1>13, <1>14, <1>15, <1>16, <1>17, <1>18, <1>19
     DEF Next, Handle, Progress, RefusedRequest, FailedRequest,
         MarkProgress

\* The loops of the handlers and of the consumer stay inside what is left.
LEMMA NextLoops == IndInv /\ [Next]_vars => Loops'
<1> SUFFICES ASSUME IndInv, [Next]_vars PROVE Loops'
  OBVIOUS
<1> USE DEF IndInv, TypeOK, tables, locks, request, draft, loop, consumer, IsOrder
<1>1. ASSUME NEW h \in Handlers, NEW u \in Users,
             NEW q \in [Products -> Quantities \cup {0}],
             CreateRequest(h, u, q)
      PROVE  Loops'
  BY <1>1 DEF CreateRequest, Finish, Loops, RequestsOK, LoopsOK
<1>2. ASSUME NEW h \in Handlers, NEW S \in SUBSET Products,
             FetchProducts(h, S)
      PROVE  Loops'
  BY <1>2 DEF FetchProducts, Loops, RequestsOK, LoopsOK
<1>3. ASSUME NEW h \in Handlers, FindOrderIDByUser(h)
      PROVE  Loops'
  <2>1. \A g \in Handlers : pc'[g] = "upsert" => pc[g] = "upsert"
    BY <1>3 DEF FindOrderIDByUser, RequestsOK
  <2> QED
    BY <1>3, <2>1 DEF FindOrderIDByUser, Loops
<1>4. ASSUME NEW h \in Handlers, InsertOrder(h)
      PROVE  Loops'
  BY <1>4 DEF InsertOrder, Loops, RequestsOK, LoopsOK
<1>5. ASSUME NEW h \in Handlers, CommitOrder(h)
      PROVE  Loops'
  BY <1>5 DEF CommitOrder, Finish, Loops, RequestsOK, LoopsOK
<1>6. ASSUME NEW h \in Handlers, LockOrder(h)
      PROVE  Loops'
  BY <1>6 DEF LockOrder, NextItem, Loops, RequestsOK, LoopsOK
<1>7. ASSUME NEW h \in Handlers, UpsertItem(h)
      PROVE  Loops'
  BY <1>7 DEF UpsertItem, NextItem, Loops, RequestsOK, LoopsOK
<1>8. ASSUME NEW h \in Handlers, CommitMerge(h)
      PROVE  Loops'
  BY <1>8 DEF CommitMerge, Finish, ReleaseLocks, Loops, RequestsOK, LoopsOK
<1>9. ASSUME NEW h \in Handlers, LoseMerge(h)
      PROVE  Loops'
  BY <1>9 DEF LoseMerge, Finish, ReleaseLocks, Loops, RequestsOK, LoopsOK
<1>10. ASSUME NEW h \in Handlers, NEW o \in OrderId, DeleteRequest(h, o)
       PROVE  Loops'
  BY <1>10 DEF DeleteRequest, Loops, RequestsOK, LoopsOK
<1>11. ASSUME NEW h \in Handlers, LockDeleted(h)
       PROVE  Loops'
  <2>1. \A g \in Handlers : pc'[g] = "upsert" =>
           g # h /\ pc[g] = "upsert" /\ found'[g] = found[g]
    BY <1>11, FinishSelf, FinishOthers DEF LockDeleted, RequestsOK
  <2>2. \A g \in Handlers \ {h} : todo'[g] = todo[g] /\ cur'[g] = cur[g]
    BY <1>11, FinishOthers DEF LockDeleted, NextItem, LoopsOK
  <2>3. cur'[h] \in todo'[h] \/ (todo'[h] = {} /\ cur'[h] = NoItem)
    BY <1>11, FinishSelf DEF LockDeleted, NextItem, LoopsOK
  <2> QED
    BY <1>11, <2>1, <2>2, <2>3 DEF LockDeleted, Loops
<1>12. ASSUME NEW h \in Handlers, CascadeItem(h)
       PROVE  Loops'
  BY <1>12 DEF CascadeItem, NextItem, Loops, RequestsOK, LoopsOK
<1>13. ASSUME NEW h \in Handlers, CommitDelete(h)
       PROVE  Loops'
  BY <1>13 DEF CommitDelete, Finish, ReleaseLocks, Loops, RequestsOK, LoopsOK
<1>14. ASSUME NEW h \in Handlers, Abort(h)
       PROVE  Loops'
  BY <1>14 DEF Abort, Finish, ReleaseLocks, Loops, RequestsOK, LoopsOK
<1>15. ASSUME NEW p \in Products, StartMark(p)
       PROVE  Loops'
  BY <1>15 DEF StartMark, NextRow, Loops, RequestsOK, LoopsOK
<1>16. ASSUME MarkRow
       PROVE  Loops'
  BY <1>16 DEF MarkRow, NextRow, Loops, RequestsOK, LoopsOK
<1>17. ASSUME CommitMark
       PROVE  Loops'
  BY <1>17 DEF CommitMark, EndMark, ReleaseLocks, Loops, RequestsOK, LoopsOK
<1>18. ASSUME FailMark
       PROVE  Loops'
  BY <1>18 DEF FailMark, EndMark, ReleaseLocks, Loops, RequestsOK, LoopsOK
<1>19. CASE UNCHANGED vars
  BY <1>19 DEF vars, Loops
<1> QED
  BY <1>1, <1>2, <1>3, <1>4, <1>5, <1>6, <1>7, <1>8, <1>9, <1>10, <1>11,
     <1>12, <1>13, <1>14, <1>15, <1>16, <1>17, <1>18, <1>19
     DEF Next, Handle, Progress, RefusedRequest, FailedRequest,
         MarkProgress

\* A request under way keeps its user and its positions.
LEMMA NextRequestsFilled == IndInv /\ [Next]_vars => RequestsFilled'
<1> SUFFICES ASSUME IndInv, [Next]_vars PROVE RequestsFilled'
  OBVIOUS
<1> USE DEF IndInv, TypeOK, tables, locks, request, draft, loop, consumer, IsOrder
<1>1. ASSUME NEW h \in Handlers, NEW u \in Users,
             NEW q \in [Products -> Quantities \cup {0}],
             CreateRequest(h, u, q)
      PROVE  RequestsFilled'
  <2>1. user'[h] = u /\ qty'[h] = q
    BY <1>1 DEF CreateRequest, RequestsOK
  <2>2. Positions(qty'[h]) # {}
    BY <1>1, <2>1 DEF CreateRequest
  <2> QED
    BY <1>1, <2>1, <2>2 DEF CreateRequest, RequestsFilled, RequestsOK
<1>2. ASSUME NEW h \in Handlers, NEW S \in SUBSET Products,
             FetchProducts(h, S)
      PROVE  RequestsFilled'
  BY <1>2 DEF FetchProducts, RequestsFilled, RequestsOK
<1>3. ASSUME NEW h \in Handlers, FindOrderIDByUser(h)
      PROVE  RequestsFilled'
  BY <1>3 DEF FindOrderIDByUser, OrdersOf, RequestsFilled, RequestsOK
<1>4. ASSUME NEW h \in Handlers, InsertOrder(h)
      PROVE  RequestsFilled'
  BY <1>4 DEF InsertOrder, RequestsFilled, RequestsOK
<1>5. ASSUME NEW h \in Handlers, CommitOrder(h)
      PROVE  RequestsFilled'
  BY <1>5 DEF CommitOrder, Finish, RequestsFilled, RequestsOK
<1>6. ASSUME NEW h \in Handlers, LockOrder(h)
      PROVE  RequestsFilled'
  BY <1>6 DEF LockOrder, NextItem, RequestsFilled, RequestsOK
<1>7. ASSUME NEW h \in Handlers, UpsertItem(h)
      PROVE  RequestsFilled'
  BY <1>7 DEF UpsertItem, NextItem, RequestsFilled, RequestsOK
<1>8. ASSUME NEW h \in Handlers, CommitMerge(h)
      PROVE  RequestsFilled'
  BY <1>8 DEF CommitMerge, Finish, ReleaseLocks, RequestsFilled, RequestsOK
<1>9. ASSUME NEW h \in Handlers, LoseMerge(h)
      PROVE  RequestsFilled'
  BY <1>9 DEF LoseMerge, Finish, ReleaseLocks, RequestsFilled, RequestsOK
<1>10. ASSUME NEW h \in Handlers, NEW o \in OrderId, DeleteRequest(h, o)
       PROVE  RequestsFilled'
  BY <1>10 DEF DeleteRequest, RequestsFilled, RequestsOK
<1>11. ASSUME NEW h \in Handlers, LockDeleted(h)
       PROVE  RequestsFilled'
  <2>1. \A g \in Handlers :
           pc'[g] \in {"fetch", "find", "insert", "create", "lock", "upsert"} =>
              /\ pc'[g] = pc[g] /\ user'[g] = user[g]
              /\ qty'[g] = qty[g] /\ found'[g] = found[g]
    BY <1>11, FinishSelf, FinishOthers DEF LockDeleted, RequestsOK
  <2> QED
    BY <1>11, <2>1 DEF RequestsFilled
<1>12. ASSUME NEW h \in Handlers, CascadeItem(h)
       PROVE  RequestsFilled'
  BY <1>12 DEF CascadeItem, NextItem, RequestsFilled, RequestsOK
<1>13. ASSUME NEW h \in Handlers, CommitDelete(h)
       PROVE  RequestsFilled'
  BY <1>13 DEF CommitDelete, Finish, ReleaseLocks, RequestsFilled, RequestsOK
<1>14. ASSUME NEW h \in Handlers, Abort(h)
       PROVE  RequestsFilled'
  BY <1>14 DEF Abort, Finish, ReleaseLocks, RequestsFilled, RequestsOK
<1>15. ASSUME NEW p \in Products, StartMark(p)
       PROVE  RequestsFilled'
  BY <1>15 DEF StartMark, NextRow, RequestsFilled, RequestsOK
<1>16. ASSUME MarkRow
       PROVE  RequestsFilled'
  BY <1>16 DEF MarkRow, NextRow, RequestsFilled, RequestsOK
<1>17. ASSUME CommitMark
       PROVE  RequestsFilled'
  BY <1>17 DEF CommitMark, EndMark, ReleaseLocks, RequestsFilled, RequestsOK
<1>18. ASSUME FailMark
       PROVE  RequestsFilled'
  BY <1>18 DEF FailMark, EndMark, ReleaseLocks, RequestsFilled, RequestsOK
<1>19. CASE UNCHANGED vars
  BY <1>19 DEF vars, RequestsFilled
<1> QED
  BY <1>1, <1>2, <1>3, <1>4, <1>5, <1>6, <1>7, <1>8, <1>9, <1>10, <1>11,
     <1>12, <1>13, <1>14, <1>15, <1>16, <1>17, <1>18, <1>19
     DEF Next, Handle, Progress, RefusedRequest, FailedRequest,
         MarkProgress

\* No order passes to another user while a merge is on its way into it.
LEMMA NextMergesOwn == IndInv /\ [Next]_vars => MergesOwn'
<1> SUFFICES ASSUME IndInv, [Next]_vars PROVE MergesOwn'
  OBVIOUS
<1> USE DEF IndInv, TypeOK, RequestsOK, tables, locks, request, draft, loop,
            consumer, IsOrder
<1> DEFINE StaysOn(g) == /\ pc[g] \in {"lock", "upsert"}
                         /\ user'[g] = user[g] /\ target'[g] = target[g]
           Merging(g) == pc'[g] \in {"lock", "upsert"}
<1>1. ASSUME UNCHANGED owner, \A g \in Handlers : Merging(g) => StaysOn(g)
      PROVE  MergesOwn'
  BY <1>1 DEF MergesOwn
<1>2. ASSUME NEW h \in Handlers, NEW u \in Users,
             NEW q \in [Products -> Quantities \cup {0}],
             CreateRequest(h, u, q)
      PROVE  MergesOwn'
  BY <1>1, <1>2 DEF CreateRequest
<1>3. ASSUME NEW h \in Handlers, NEW S \in SUBSET Products,
             FetchProducts(h, S)
      PROVE  MergesOwn'
  BY <1>1, <1>3 DEF FetchProducts
<1>4. ASSUME NEW h \in Handlers, FindOrderIDByUser(h)
      PROVE  MergesOwn'
  BY <1>4 DEF FindOrderIDByUser, OrdersOf, MergesOwn
<1>5. ASSUME NEW h \in Handlers, InsertOrder(h)
      PROVE  MergesOwn'
  BY <1>1, <1>5 DEF InsertOrder
<1>6. ASSUME NEW h \in Handlers, CommitOrder(h)
      PROVE  MergesOwn'
  <2>1. \A g \in Handlers : Merging(g) => StaysOn(g) /\ g # h
    BY <1>6 DEF CommitOrder, Finish
  <2>2. pc[h] = "create" /\ owner' = [owner EXCEPT ![target[h]] = user[h]]
    BY <1>6 DEF CommitOrder
  <2>3. \A g \in Handlers : Merging(g) => target[g] # target[h]
    BY <2>1, <2>2 DEF OrderRows
  <2> QED
    BY <2>1, <2>2, <2>3 DEF MergesOwn, TablesOK
<1>7. ASSUME NEW h \in Handlers, LockOrder(h)
      PROVE  MergesOwn'
  BY <1>1, <1>7 DEF LockOrder
<1>8. ASSUME NEW h \in Handlers, UpsertItem(h)
      PROVE  MergesOwn'
  BY <1>1, <1>8 DEF UpsertItem
<1>9. ASSUME NEW h \in Handlers, CommitMerge(h) \/ LoseMerge(h)
      PROVE  MergesOwn'
  BY <1>1, <1>9 DEF CommitMerge, LoseMerge, Finish
<1>10. ASSUME NEW h \in Handlers, NEW o \in OrderId, DeleteRequest(h, o)
       PROVE  MergesOwn'
  BY <1>1, <1>10 DEF DeleteRequest
<1>11. ASSUME NEW h \in Handlers, LockDeleted(h)
       PROVE  MergesOwn'
  BY <1>1, <1>11 DEF LockDeleted, Finish
<1>12. ASSUME NEW h \in Handlers, CascadeItem(h)
       PROVE  MergesOwn'
  BY <1>1, <1>12 DEF CascadeItem
<1>13. ASSUME NEW h \in Handlers, CommitDelete(h)
       PROVE  MergesOwn'
  <2>1. \A g \in Handlers : Merging(g) => StaysOn(g)
    BY <1>13 DEF CommitDelete, Finish
  <2>2. owner' = [owner EXCEPT ![target[h]] = NoUser]
    BY <1>13 DEF CommitDelete
  <2> QED
    BY <2>1, <2>2 DEF MergesOwn, TablesOK
<1>14. ASSUME NEW h \in Handlers, Abort(h)
       PROVE  MergesOwn'
  BY <1>1, <1>14 DEF Abort, Finish
<1>15. ASSUME NEW p \in Products, StartMark(p)
       PROVE  MergesOwn'
  BY <1>1, <1>15 DEF StartMark
<1>16. ASSUME MarkRow \/ CommitMark \/ FailMark
       PROVE  MergesOwn'
  BY <1>1, <1>16 DEF MarkRow, CommitMark, FailMark, EndMark
<1>17. CASE UNCHANGED vars
  BY <1>1, <1>17 DEF vars
<1> QED
  BY <1>2, <1>3, <1>4, <1>5, <1>6, <1>7, <1>8, <1>9, <1>10, <1>11, <1>12,
     <1>13, <1>14, <1>15, <1>16, <1>17
     DEF Next, Handle, Progress, RefusedRequest, FailedRequest, MarkProgress

\* No step changes the committed row under a merge's draft.
LEMMA NextMergeDrafts == IndInv /\ [Next]_vars => MergeDrafts'
<1> SUFFICES ASSUME IndInv, [Next]_vars PROVE MergeDrafts'
  OBVIOUS
<1> USE DEF IndInv, TypeOK, tables, locks, request, draft, loop, consumer, IsOrder
<1>1. ASSUME NEW h \in Handlers, NEW u \in Users,
             NEW q \in [Products -> Quantities \cup {0}],
             CreateRequest(h, u, q)
      PROVE  MergeDrafts'
  BY <1>1
     DEF CreateRequest, Finish, MergeDrafts, Loops, OrderRows,
         HandlerItems, ConsumerItems, TablesOK, LocksOK, RequestsOK,
         LoopsOK, DraftsOK, Agents
<1>2. ASSUME NEW h \in Handlers, NEW S \in SUBSET Products,
             FetchProducts(h, S)
      PROVE  MergeDrafts'
  BY <1>2
     DEF FetchProducts, MergeDrafts, Loops, OrderRows, HandlerItems,
         ConsumerItems, TablesOK, LocksOK, RequestsOK, LoopsOK, DraftsOK,
         Agents
<1>3. ASSUME NEW h \in Handlers, FindOrderIDByUser(h)
      PROVE  MergeDrafts'
  BY <1>3
     DEF FindOrderIDByUser, OrdersOf, MergeDrafts, Loops, OrderRows,
         HandlerItems, ConsumerItems, TablesOK, LocksOK, RequestsOK,
         LoopsOK, DraftsOK, Agents
<1>4. ASSUME NEW h \in Handlers, InsertOrder(h)
      PROVE  MergeDrafts'
  BY <1>4
     DEF InsertOrder, MergeDrafts, Loops, OrderRows, HandlerItems,
         ConsumerItems, TablesOK, LocksOK, RequestsOK, LoopsOK, DraftsOK,
         Agents
<1>5. ASSUME NEW h \in Handlers, CommitOrder(h)
      PROVE  MergeDrafts'
  <2>1. PICK r \in {"ok", "error"} : Finish(h, r)
    BY <1>5 DEF CommitOrder
  <2>2. ASSUME NEW g \in Handlers \ {h}, pc[g] = "upsert"
        PROVE  Untouched(target[g])
    <3>1. target[g] # target[h] /\ target[g] \in OrderId
      BY <1>5, <2>2 DEF CommitOrder, OrderRows, RequestsOK
    <3> QED
      BY <1>5, <3>1 DEF CommitOrder, TablesOK, Untouched
  <2> QED
    BY <1>5, <2>1, <2>2, FinishKeepsDrafts DEF CommitOrder
<1>6. ASSUME NEW h \in Handlers, LockOrder(h)
      PROVE  MergeDrafts'
  BY <1>6
     DEF LockOrder, NextItem, MergeDrafts, Loops, OrderRows, HandlerItems,
         ConsumerItems, TablesOK, LocksOK, RequestsOK, LoopsOK, DraftsOK,
         Agents
<1>7. ASSUME NEW h \in Handlers, UpsertItem(h)
      PROVE  MergeDrafts'
  BY <1>7
     DEF UpsertItem, NextItem, MergeDrafts, Loops, OrderRows, HandlerItems,
         ConsumerItems, TablesOK, LocksOK, RequestsOK, LoopsOK, DraftsOK,
         Agents
<1>8. ASSUME NEW h \in Handlers, CommitMerge(h)
      PROVE  MergeDrafts'
  <2>1. Finish(h, "ok") /\ ReleaseLocks(h)
    BY <1>8 DEF CommitMerge
  <2>2. ASSUME NEW g \in Handlers \ {h}, pc[g] = "upsert",
               owner'[target[g]] # NoUser
        PROVE  Untouched(target[g])
    <3>1. owner' = owner
      BY <1>8 DEF CommitMerge
    <3>2. target[g] \in OrderId /\ orderLock[target[g]] = g
      BY <2>2, <3>1 DEF OrderRows, RequestsOK
    <3>3. orderLock[target[h]] = h => target[g] # target[h]
      BY <3>2
    <3> QED
      BY <1>8, <3>1, <3>2, <3>3 DEF CommitMerge, TablesOK, Untouched
  <2> QED
    BY <2>1, <2>2, FinishKeepsDrafts
<1>9. ASSUME NEW h \in Handlers, LoseMerge(h)
      PROVE  MergeDrafts'
  BY <1>9, FinishKeepsDrafts DEF LoseMerge, Untouched
<1>10. ASSUME NEW h \in Handlers, NEW o \in OrderId, DeleteRequest(h, o)
       PROVE  MergeDrafts'
  BY <1>10
     DEF DeleteRequest, MergeDrafts, Loops, OrderRows, HandlerItems,
         ConsumerItems, TablesOK, LocksOK, RequestsOK, LoopsOK, DraftsOK,
         Agents
<1>11. ASSUME NEW h \in Handlers, LockDeleted(h)
       PROVE  MergeDrafts'
  <2>1. CASE ~IsOrder(target[h])
    <3>1. Finish(h, "error") /\ UNCHANGED itemLock /\ UNCHANGED tables
      BY <1>11, <2>1 DEF LockDeleted
    <3> QED
      BY <3>1, FinishKeepsDrafts DEF Untouched
  <2>2. CASE IsOrder(target[h])
    BY <1>11, <2>2 DEF LockDeleted, NextItem, MergeDrafts, RequestsOK, LoopsOK
  <2> QED
    BY <2>1, <2>2
<1>12. ASSUME NEW h \in Handlers, CascadeItem(h)
       PROVE  MergeDrafts'
  BY <1>12
     DEF CascadeItem, NextItem, MergeDrafts, Loops, OrderRows,
         HandlerItems, ConsumerItems, TablesOK, LocksOK, RequestsOK,
         LoopsOK, DraftsOK, Agents
<1>13. ASSUME NEW h \in Handlers, CommitDelete(h)
       PROVE  MergeDrafts'
  <2>1. PICK r \in {"ok", "error"} : Finish(h, r)
    BY <1>13 DEF CommitDelete
  <2>2. ASSUME NEW g \in Handlers \ {h}, pc[g] = "upsert",
               owner'[target[g]] # NoUser
        PROVE  Untouched(target[g])
    <3>1. target[g] \in OrderId /\ target[h] \in OrderId
      BY <1>13, <2>2 DEF CommitDelete, RequestsOK
    <3>2. target[g] # target[h]
      BY <1>13, <2>2, <3>1 DEF CommitDelete, TablesOK
    <3> QED
      BY <1>13, <3>1, <3>2 DEF CommitDelete, TablesOK, Untouched
  <2>3. ReleaseLocks(h)
    BY <1>13 DEF CommitDelete
  <2> QED
    BY <2>1, <2>2, <2>3, FinishKeepsDrafts
<1>14. ASSUME NEW h \in Handlers, Abort(h)
       PROVE  MergeDrafts'
  BY <1>14, FinishKeepsDrafts DEF Abort, Untouched
<1>15. ASSUME NEW p \in Products, StartMark(p)
       PROVE  MergeDrafts'
  BY <1>15
     DEF StartMark, NextRow, MergeDrafts, Loops, OrderRows, HandlerItems,
         ConsumerItems, TablesOK, LocksOK, RequestsOK, LoopsOK, DraftsOK,
         Agents
<1>16. ASSUME MarkRow
       PROVE  MergeDrafts'
  BY <1>16
     DEF MarkRow, NextRow, MergeDrafts, Loops, OrderRows, HandlerItems,
         ConsumerItems, TablesOK, LocksOK, RequestsOK, LoopsOK, DraftsOK,
         Agents
<1>17. ASSUME CommitMark
       PROVE  MergeDrafts'
  BY <1>17
     DEF CommitMark, EndMark, ReleaseLocks, MergeDrafts, Loops, OrderRows,
         HandlerItems, ConsumerItems, TablesOK, LocksOK, RequestsOK,
         LoopsOK, DraftsOK, Agents
<1>18. ASSUME FailMark
       PROVE  MergeDrafts'
  BY <1>18
     DEF FailMark, EndMark, ReleaseLocks, MergeDrafts, Loops, OrderRows,
         HandlerItems, ConsumerItems, TablesOK, LocksOK, RequestsOK,
         LoopsOK, DraftsOK, Agents
<1>19. CASE UNCHANGED vars
  BY <1>19 DEF vars, MergeDrafts
<1> QED
  BY <1>1, <1>2, <1>3, <1>4, <1>5, <1>6, <1>7, <1>8, <1>9, <1>10, <1>11,
     <1>12, <1>13, <1>14, <1>15, <1>16, <1>17, <1>18, <1>19
     DEF Next, Handle, Progress, RefusedRequest, FailedRequest,
         MarkProgress

\* The invariant holds at the start.
LEMMA InitIndInv == Init => IndInv
<1> SUFFICES ASSUME Init PROVE IndInv
  OBVIOUS
<1>1. TypeOK
  BY InitTypeOK
<1>2. OrderRows /\ NoStrayItems /\ HandlerItems /\ ConsumerItems
  BY DEF Init, OrderRows, NoStrayItems, HandlerItems, ConsumerItems, IsOrder
<1>3. CascadeItems /\ Loops /\ RequestsFilled /\ MergeDrafts /\ MergesOwn
  BY DEF Init, CascadeItems, Loops, RequestsFilled, MergeDrafts, MergesOwn
<1> QED
  BY <1>1, <1>2, <1>3 DEF IndInv

\* Every step preserves the invariant.
LEMMA NextIndInv == IndInv /\ [Next]_vars => IndInv'
BY NextTypeOK, NextOrderRows, NextNoStrayItems, NextHandlerItems,
   NextConsumerItems, NextCascadeItems, NextLoops, NextRequestsFilled,
   NextMergeDrafts, NextMergesOwn
   DEF IndInv

\* The row of an order guards its items, in every reachable state.
THEOREM IndInvHolds == Spec => []IndInv
<1> QED
  BY InitIndInv, NextIndInv, PTL DEF Spec

----------------------------------------------------------------------------

\* A handler that has locked an item waits for nobody but the consumer, and
\* not for the consumer if it has locked an item of the product it marks.
LEMMA HandlerWaits ==
    ASSUME IndInv, NEW g \in Handlers, NEW a \in Agents, WaitsFor(g, a)
    PROVE  \/ /\ a \in Handlers
              /\ pc[g] \in {"lock", "delete"}
              /\ pc[a] \in {"upsert", "cascade"}
           \/ /\ a = Consumer
              /\ pc[g] \in {"upsert", "cascade"}
              /\ cur[g] = marking
              /\ cur[g] \in todo[g]
<1> USE DEF IndInv, TypeOK
<1>1. target[g] \in OrderId
  BY DEF WaitsFor, RequestsOK
<1>2. CASE pc[g] \in {"lock", "delete"} /\ orderLock[target[g]] = a
  <2>1. a \in Handlers
    BY <1>1, <1>2 DEF LocksOK, Agents
  <2> QED
    BY <1>1, <1>2, <2>1 DEF OrderRows
<1>3. CASE /\ pc[g] \in {"upsert", "cascade"}
           /\ cur[g] # NoItem
           /\ itemLock[target[g]][cur[g]] = a
  <2>1. cur[g] \in todo[g] /\ cur[g] \in Products
    BY <1>3 DEF Loops, LoopsOK
  <2>2. CASE a \in Handlers
    <3>1. orderLock[target[g]] = a /\ cur[g] \notin todo[a]
      BY <1>1, <1>3, <2>1, <2>2 DEF HandlerItems
    <3>2. IsOrder(target[g])
      BY <1>1, <2>2, <3>1 DEF OrderRows
    <3>3. orderLock[target[g]] = g
      BY <1>3, <3>2 DEF OrderRows
    <3> QED
      BY <2>1, <3>1, <3>3
  <2>3. CASE a = Consumer
    BY <1>1, <1>3, <2>1, <2>3 DEF ConsumerItems
  <2> QED
    BY <2>2, <2>3 DEF Agents
<1> QED
  BY <1>2, <1>3 DEF WaitsFor

\* Whom the consumer waits for has locked the order of the row it wants.
LEMMA ConsumerWaits ==
    ASSUME IndInv, NEW a \in Agents, WaitsFor(Consumer, a)
    PROVE  /\ a \in Handlers
           /\ pc[a] \in {"upsert", "cascade"}
           /\ marking \notin todo[a]
<1> USE DEF IndInv, TypeOK
<1>1. /\ markCur \in OrderId /\ marking \in Products
      /\ itemLock[markCur][marking] = a
      /\ markCur \in markTodo
  BY DEF WaitsFor, ConsumerOK, Loops
<1>2. a \in Handlers
  BY <1>1 DEF ConsumerItems, Agents
<1>3. orderLock[markCur] = a /\ marking \notin todo[a]
  BY <1>1, <1>2 DEF HandlerItems
<1> QED
  BY <1>1, <1>2, <1>3 DEF OrderRows

\* Transactions that keep to the invariant never wait in a circle.
LEMMA NoCircle == IndInv => NoLockCycle
<1> SUFFICES ASSUME IndInv, NEW S \in SUBSET Agents, S # {}
             PROVE  \E a \in S : \A b \in S : ~WaitsFor(a, b)
  BY DEF NoLockCycle
<1>1. CASE Consumer \in S
  <2>1. CASE \A b \in S : ~WaitsFor(Consumer, b)
    BY <1>1, <2>1
  <2>2. ASSUME NEW b \in S, WaitsFor(Consumer, b)
        PROVE  \A a \in S : ~WaitsFor(b, a)
    BY <2>2, ConsumerWaits, HandlerWaits
  <2> QED
    BY <2>1, <2>2
<1>2. CASE Consumer \notin S
  <2>1. S \subseteq Handlers
    BY <1>2 DEF Agents
  <2>2. ASSUME NEW a \in S, pc[a] \in {"upsert", "cascade"}
        PROVE  \A b \in S : ~WaitsFor(a, b)
    BY <1>2, <2>1, <2>2, HandlerWaits
  <2>3. ASSUME NEW a \in S, \A b \in S : pc[b] \notin {"upsert", "cascade"}
        PROVE  \A b \in S : ~WaitsFor(a, b)
    BY <1>2, <2>1, <2>3, HandlerWaits
  <2> QED
    BY <2>2, <2>3
<1> QED
  BY <1>1, <1>2

\* The database never has to break a deadlock between orders' transactions.
THEOREM NoLockCycleHolds == Spec => []NoLockCycle
<1> QED
  BY IndInvHolds, NoCircle, PTL

\* The drafts the invariant describes are current.
LEMMA DraftsStayCurrent == IndInv => DraftsCurrent
<1> SUFFICES ASSUME IndInv, NEW h \in Handlers, pc[h] = "upsert",
                    IsOrder(target[h])
             PROVE  /\ draftHours[h] >= hours[target[h]]
                    /\ \A p \in found[h] \ todo[h] :
                          /\ draftAmount[h][p] =
                               amount[target[h]][p] + ToInt32(qty[h][p])
                          /\ draftExists[h][p] = exists[target[h]][p]
  BY DEF DraftsCurrent
<1>1. hours[target[h]] \in Nat
  BY DEF IndInv, TypeOK, TablesOK, RequestsOK
<1>2. draftHours[h] >= hours[target[h]]
  BY <1>1, DeliveryNat DEF IndInv, MergeDrafts, Greatest
<1> QED
  BY <1>2 DEF IndInv, MergeDrafts, MergedAmount

\* No merge commits an amount or a flag that is no longer true.
THEOREM DraftsCurrentHolds == Spec => []DraftsCurrent
<1> QED
  BY IndInvHolds, DraftsStayCurrent, PTL
===============================================================================
