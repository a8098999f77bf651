------------------------------ MODULE ShopProofs ------------------------------
(***************************************************************************)
(* The two services together, for any number of requests, products and     *)
(* orders: each service runs in the shop as it runs by itself, so what is  *)
(* proved of the parts holds of the whole, and from it what relates the    *)
(* two databases and the topic.                                            *)
(*                                                                         *)
(* The theorems about a part speak of the part's module with its proofs    *)
(* (CP and OP); Shop has its own instance of the part without them.  The   *)
(* first lemmas say that both are the same.                                *)
(***************************************************************************)
EXTENDS Shop, FiniteSetTheorems, TLAPS

CP == INSTANCE ProductCatalogueProofs WITH
    nextId <- productSeq, pc <- clientPc, reply <- answer, MaxAmount <- Int32Max

OP == INSTANCE OrderLedgerProofs WITH nextId <- orderSeq, pc <- handlerPc

----------------------------------------------------------------------------
(* The parts and their modules with proofs                                 *)

\* The steps of the catalogue's requests and of its writer.
LEMMA SameCoreSteps ==
    /\ \A c, pr, am : Catalogue!CreateProduct(c, pr, am) <=>
             CP!CreateProduct(c, pr, am)
    /\ \A c : Catalogue!PublishCreated(c) <=> CP!PublishCreated(c)
    /\ \A c, p : Catalogue!DeleteRequest(c, p) <=> CP!DeleteRequest(c, p)
    /\ \A c : Catalogue!GetProduct(c) <=> CP!GetProduct(c)
    /\ \A c : Catalogue!DeleteProductWithTransaction(c) <=>
             CP!DeleteProductWithTransaction(c)
    /\ \A c, r : Catalogue!PublishDeleted(c, r) <=> CP!PublishDeleted(c, r)
    /\ \A c : Catalogue!CommitDelete(c) <=> CP!CommitDelete(c)
    /\ \A c : Catalogue!CommitFails(c) <=> CP!CommitFails(c)
    /\ \A c : Catalogue!CancelTransaction(c) <=> CP!CancelTransaction(c)
    /\ \A c, p, am : Catalogue!AddRequest(c, p, am) <=> CP!AddRequest(c, p, am)
    /\ \A c : Catalogue!ReadStock(c) <=> CP!ReadStock(c)
    /\ \A c : Catalogue!UpdateStock(c) <=> CP!UpdateStock(c)
    /\ \A c : Catalogue!NotFound(c) <=> CP!NotFound(c)
    /\ \A c : Catalogue!StatementFails(c) <=> CP!StatementFails(c)
    /\ \A i : Catalogue!Deliver(i) <=> CP!Deliver(i)
    /\ \A i : Catalogue!Lose(i) <=> CP!Lose(i)
<1> USE DEF Catalogue!rows, CP!rows, Catalogue!events, CP!events,
        Catalogue!vars, CP!vars, Catalogue!ProductId, CP!ProductId,
        Catalogue!Event, CP!Event, Catalogue!Exists, CP!Exists,
        Catalogue!Finish, CP!Finish, Catalogue!Unlock, CP!Unlock,
        Catalogue!Start, CP!Start, Catalogue!Publish, CP!Publish,
        Catalogue!GoesOn, CP!GoesOn, Catalogue!ReplyToFailure,
        CP!ReplyToFailure
<1>1. ASSUME NEW c, NEW pr, NEW am
      PROVE  Catalogue!CreateProduct(c, pr, am) <=> CP!CreateProduct(c, pr, am)
  BY DEF Catalogue!CreateProduct, CP!CreateProduct
<1>2. ASSUME NEW c
      PROVE  Catalogue!PublishCreated(c) <=> CP!PublishCreated(c)
  BY DEF Catalogue!PublishCreated, CP!PublishCreated
<1>3. ASSUME NEW c, NEW p
      PROVE  Catalogue!DeleteRequest(c, p) <=> CP!DeleteRequest(c, p)
  BY DEF Catalogue!DeleteRequest, CP!DeleteRequest
<1>4. ASSUME NEW c
      PROVE  Catalogue!GetProduct(c) <=> CP!GetProduct(c)
  BY DEF Catalogue!GetProduct, CP!GetProduct
<1>5. ASSUME NEW c
      PROVE  Catalogue!DeleteProductWithTransaction(c) <=>
                  CP!DeleteProductWithTransaction(c)
  BY DEF Catalogue!DeleteProductWithTransaction, CP!DeleteProductWithTransaction
<1>6. ASSUME NEW c, NEW r
      PROVE  Catalogue!PublishDeleted(c, r) <=> CP!PublishDeleted(c, r)
  BY DEF Catalogue!PublishDeleted, CP!PublishDeleted
<1>7. ASSUME NEW c
      PROVE  Catalogue!CommitDelete(c) <=> CP!CommitDelete(c)
  BY DEF Catalogue!CommitDelete, CP!CommitDelete
<1>8. ASSUME NEW c
      PROVE  Catalogue!CommitFails(c) <=> CP!CommitFails(c)
  BY DEF Catalogue!CommitFails, CP!CommitFails
<1>9. ASSUME NEW c
      PROVE  Catalogue!CancelTransaction(c) <=> CP!CancelTransaction(c)
  BY DEF Catalogue!CancelTransaction, CP!CancelTransaction
<1>10. ASSUME NEW c, NEW p, NEW am
      PROVE  Catalogue!AddRequest(c, p, am) <=> CP!AddRequest(c, p, am)
  BY DEF Catalogue!AddRequest, CP!AddRequest
<1>11. ASSUME NEW c
      PROVE  Catalogue!ReadStock(c) <=> CP!ReadStock(c)
  BY DEF Catalogue!ReadStock, CP!ReadStock
<1>12. ASSUME NEW c
      PROVE  Catalogue!UpdateStock(c) <=> CP!UpdateStock(c)
  BY DEF Catalogue!UpdateStock, CP!UpdateStock
<1>13. ASSUME NEW c
      PROVE  Catalogue!NotFound(c) <=> CP!NotFound(c)
  BY DEF Catalogue!NotFound, CP!NotFound
<1>14. ASSUME NEW c
      PROVE  Catalogue!StatementFails(c) <=> CP!StatementFails(c)
  BY DEF Catalogue!StatementFails, CP!StatementFails
<1>15. ASSUME NEW i
      PROVE  Catalogue!Deliver(i) <=> CP!Deliver(i)
  BY DEF Catalogue!Deliver, CP!Deliver, Catalogue!RemoveAt, CP!RemoveAt
<1>16. ASSUME NEW i
      PROVE  Catalogue!Lose(i) <=> CP!Lose(i)
  BY DEF Catalogue!Lose, CP!Lose, Catalogue!RemoveAt, CP!RemoveAt
<1> QED
  BY <1>1, <1>2, <1>3, <1>4, <1>5, <1>6, <1>7, <1>8, <1>9, <1>10, <1>11, <1>12,
     <1>13, <1>14, <1>15, <1>16

\* The steps of the order service's requests and of the marking.
LEMMA SameOrderSteps ==
    /\ \A h, u, q : Orders!CreateRequest(h, u, q) <=> OP!CreateRequest(h, u, q)
    /\ \A h, S : Orders!FetchProducts(h, S) <=> OP!FetchProducts(h, S)
    /\ \A h : Orders!FindOrderIDByUser(h) <=> OP!FindOrderIDByUser(h)
    /\ \A h : Orders!InsertOrder(h) <=> OP!InsertOrder(h)
    /\ \A h : Orders!CommitOrder(h) <=> OP!CommitOrder(h)
    /\ \A h : Orders!LockOrder(h) <=> OP!LockOrder(h)
    /\ \A h : Orders!UpsertItem(h) <=> OP!UpsertItem(h)
    /\ \A h : Orders!CommitMerge(h) <=> OP!CommitMerge(h)
    /\ \A h : Orders!LoseMerge(h) <=> OP!LoseMerge(h)
    /\ \A h, o : Orders!DeleteRequest(h, o) <=> OP!DeleteRequest(h, o)
    /\ \A h : Orders!LockDeleted(h) <=> OP!LockDeleted(h)
    /\ \A h : Orders!CascadeItem(h) <=> OP!CascadeItem(h)
    /\ \A h : Orders!CommitDelete(h) <=> OP!CommitDelete(h)
    /\ \A h : Orders!Abort(h) <=> OP!Abort(h)
    /\ \A h : Orders!Refused(h) <=> OP!Refused(h)
    /\ \A p : Orders!StartMark(p) <=> OP!StartMark(p)
    /\ Orders!MarkRow <=> OP!MarkRow
    /\ Orders!EndMark <=> OP!EndMark
<1> USE DEF Orders!tables, OP!tables, Orders!locks, OP!locks, Orders!request,
        OP!request, Orders!draft, OP!draft, Orders!loop, OP!loop,
        Orders!consumer, OP!consumer, Orders!OrderId, OP!OrderId,
        Orders!IsOrder, OP!IsOrder, Orders!OrdersOf, OP!OrdersOf, Orders!Unset,
        OP!Unset, Orders!AllExist, OP!AllExist, Orders!ToInt32, OP!ToInt32,
        Orders!Positions, OP!Positions, Orders!calculateDeliveryTimeHours,
        OP!calculateDeliveryTimeHours, Orders!Greatest, OP!Greatest,
        Orders!MergedAmount, OP!MergedAmount, Orders!Finish, OP!Finish,
        Orders!ReleaseLocks, OP!ReleaseLocks, Orders!NextItem, OP!NextItem,
        Orders!NextRow, OP!NextRow
<1>1. ASSUME NEW h, NEW u, NEW q
      PROVE  Orders!CreateRequest(h, u, q) <=> OP!CreateRequest(h, u, q)
  BY DEF Orders!CreateRequest, OP!CreateRequest
<1>2. ASSUME NEW h, NEW S
      PROVE  Orders!FetchProducts(h, S) <=> OP!FetchProducts(h, S)
  BY DEF Orders!FetchProducts, OP!FetchProducts
<1>3. ASSUME NEW h
      PROVE  Orders!FindOrderIDByUser(h) <=> OP!FindOrderIDByUser(h)
  BY DEF Orders!FindOrderIDByUser, OP!FindOrderIDByUser
<1>4. ASSUME NEW h
      PROVE  Orders!InsertOrder(h) <=> OP!InsertOrder(h)
  BY DEF Orders!InsertOrder, OP!InsertOrder
<1>5. ASSUME NEW h
      PROVE  Orders!CommitOrder(h) <=> OP!CommitOrder(h)
  BY DEF Orders!CommitOrder, OP!CommitOrder, Orders!Cardinality, OP!Cardinality
<1>6. ASSUME NEW h
      PROVE  Orders!LockOrder(h) <=> OP!LockOrder(h)
  BY DEF Orders!LockOrder, OP!LockOrder, Orders!Cardinality, OP!Cardinality
<1>7. ASSUME NEW h
      PROVE  Orders!UpsertItem(h) <=> OP!UpsertItem(h)
  BY DEF Orders!UpsertItem, OP!UpsertItem
<1>8. ASSUME NEW h
      PROVE  Orders!CommitMerge(h) <=> OP!CommitMerge(h)
  BY DEF Orders!CommitMerge, OP!CommitMerge
<1>9. ASSUME NEW h
      PROVE  Orders!LoseMerge(h) <=> OP!LoseMerge(h)
  BY DEF Orders!LoseMerge, OP!LoseMerge
<1>10. ASSUME NEW h, NEW o
      PROVE  Orders!DeleteRequest(h, o) <=> OP!DeleteRequest(h, o)
  BY DEF Orders!DeleteRequest, OP!DeleteRequest
<1>11. ASSUME NEW h
      PROVE  Orders!LockDeleted(h) <=> OP!LockDeleted(h)
  BY DEF Orders!LockDeleted, OP!LockDeleted
<1>12. ASSUME NEW h
      PROVE  Orders!CascadeItem(h) <=> OP!CascadeItem(h)
  BY DEF Orders!CascadeItem, OP!CascadeItem
<1>13. ASSUME NEW h
      PROVE  Orders!CommitDelete(h) <=> OP!CommitDelete(h)
  BY DEF Orders!CommitDelete, OP!CommitDelete
<1>14. ASSUME NEW h
      PROVE  Orders!Abort(h) <=> OP!Abort(h)
  BY DEF Orders!Abort, OP!Abort
<1>15. ASSUME NEW h
      PROVE  Orders!Refused(h) <=> OP!Refused(h)
  BY DEF Orders!Refused, OP!Refused
<1>16. ASSUME NEW p
      PROVE  Orders!StartMark(p) <=> OP!StartMark(p)
  BY DEF Orders!StartMark, OP!StartMark
<1>17. Orders!MarkRow <=> OP!MarkRow
  BY DEF Orders!MarkRow, OP!MarkRow
<1>18. Orders!EndMark <=> OP!EndMark
  BY DEF Orders!EndMark, OP!EndMark
<1> QED
  BY <1>1, <1>2, <1>3, <1>4, <1>5, <1>6, <1>7, <1>8, <1>9, <1>10, <1>11, <1>12,
     <1>13, <1>14, <1>15, <1>16, <1>17, <1>18

\* The shop's catalogue starts as one.
LEMMA CoreInit == Catalogue!Init => CP!Init
BY DEF Catalogue!Init, CP!Init, Catalogue!ProductId, CP!ProductId

\* Its steps are a catalogue's.
LEMMA CoreNext == Catalogue!Next => CP!Next
<1>1. ASSUME NEW c \in Clients, Catalogue!Serve(c)
      PROVE  CP!Serve(c)
  <2>1. CASE \E pr \in Prices, am \in Amounts : Catalogue!CreateProduct(c, pr, am)
    BY <2>1, SameCoreSteps DEF CP!Serve
  <2>2. CASE \E p \in Catalogue!ProductId : Catalogue!DeleteRequest(c, p)
    BY <2>2, SameCoreSteps DEF CP!Serve, Catalogue!ProductId, CP!ProductId
  <2>3. CASE \E p \in Catalogue!ProductId, am \in Amounts :
                Catalogue!AddRequest(c, p, am)
    BY <2>3, SameCoreSteps DEF CP!Serve, Catalogue!ProductId, CP!ProductId
  <2>4. CASE Catalogue!Progress(c)
    <3>1. CP!Progress(c)
      BY <2>4, SameCoreSteps DEF Catalogue!Progress, CP!Progress
    <3> QED
      BY <3>1 DEF CP!Serve
  <2>5. CASE Catalogue!StatementFails(c) \/ Catalogue!CancelTransaction(c)
    BY <2>5, SameCoreSteps DEF CP!Serve
  <2> QED
    BY <1>1, <2>1, <2>2, <2>3, <2>4, <2>5 DEF Catalogue!Serve
<1>2. ASSUME NEW i \in 1 .. Len(sending),
             Catalogue!Deliver(i) \/ Catalogue!Lose(i)
      PROVE  CP!Deliver(i) \/ CP!Lose(i)
  BY <1>2, SameCoreSteps
<1> QED
  BY <1>1, <1>2 DEF Catalogue!Next, CP!Next

\* The shop's orders start as an order service.
LEMMA OrdersInit == Orders!Init => OP!Init
BY DEF Orders!Init, OP!Init, Orders!OrderId, OP!OrderId, Orders!Unset, OP!Unset,
       Orders!AllExist, OP!AllExist

\* Their steps are an order service's.
LEMMA OrdersNext == Orders!Next => OP!Next
<1>1. ASSUME NEW h \in Handlers, Orders!Handle(h)
      PROVE  OP!Handle(h)
  <2>1. CASE \E u \in Users, q \in [Products -> Quantities \cup {0}] :
                Orders!CreateRequest(h, u, q)
    BY <2>1, SameOrderSteps DEF OP!Handle
  <2>2. CASE \E o \in Orders!OrderId : Orders!DeleteRequest(h, o)
    BY <2>2, SameOrderSteps DEF OP!Handle, Orders!OrderId, OP!OrderId
  <2>3. CASE Orders!Progress(h)
    <3>1. OP!Progress(h)
      BY <2>3, SameOrderSteps
         DEF Orders!Progress, OP!Progress, Orders!RefusedRequest, OP!RefusedRequest
    <3> QED
      BY <3>1 DEF OP!Handle
  <2>4. CASE Orders!LoseMerge(h) \/ Orders!FailedRequest(h)
    BY <2>4, SameOrderSteps DEF OP!Handle, Orders!FailedRequest,
       OP!FailedRequest
  <2> QED
    BY <1>1, <2>1, <2>2, <2>3, <2>4 DEF Orders!Handle
<1>2. Orders!MarkProgress => OP!MarkProgress
  BY SameOrderSteps DEF Orders!MarkProgress, OP!MarkProgress,
     Orders!CommitMark, OP!CommitMark, Orders!OrderId, OP!OrderId
<1>3. Orders!FailMark => OP!FailMark
  BY SameOrderSteps DEF Orders!FailMark, OP!FailMark
<1> QED
  BY <1>1, <1>2, <1>3, SameOrderSteps DEF Orders!Next, OP!Next

----------------------------------------------------------------------------
(* The parts in the shop                                                   *)

\* A step of the shop is a step of the catalogue or leaves it alone.
LEMMA StepIsCore == [Next]_vars => [CP!Next]_CP!vars
<1> SUFFICES ASSUME [Next]_vars PROVE [CP!Next]_CP!vars
  OBVIOUS
<1>1. CASE CoreStep
  <2>1. Catalogue!Next
    BY <1>1 DEF CoreStep, Catalogue!Next
  <2> QED
    BY <2>1, CoreNext
<1>2. ASSUME UNCHANGED core
      PROVE  UNCHANGED CP!vars
  BY <1>2 DEF core, CP!vars, CP!rows, CP!events
<1>3. ~CoreStep => UNCHANGED core
  BY DEF Next, vars, OrderStep, Join, ReadNext, ReadMessage, SkipMessage, Close
<1> QED
  BY <1>1, <1>2, <1>3

\* An event that the reader reaches is an event about a product.
LEMMA EventRead ==
    ASSUME CP!TypeOK, NEW i \in 1 .. Len(topic)
    PROVE  topic[i].id \in Products
<1>1. topic[i] \in CP!Event
  BY DEF CP!TypeOK
<1> QED
  BY <1>1 DEF CP!Event, CP!ProductId, Products, Catalogue!ProductId

\* The reader's steps of the orders are the start of a marking, or none.
LEMMA HandlingStarts ==
    ASSUME CP!TypeOK, NEW i \in Offset \ {0}, ReadMessage(i)
    PROVE  /\ i \in 1 .. Len(topic)
           /\ \/ \E p \in Products : Orders!StartMark(p) /\ topic[i] = Announced(p)
              \/ UNCHANGED orders
<1>1. i \in 1 .. Len(topic)
  BY ShopAssumption DEF ReadMessage, Reads, Offset, CP!TypeOK
<1>2. topic[i] \in CP!Event
  BY <1>1 DEF CP!TypeOK
<1>3. CASE topic[i].type = "core.deleted" /\ Orders!StartMark(topic[i].id)
  <2>1. topic[i] = Announced(topic[i].id)
    BY <1>2, <1>3 DEF CP!Event, Announced
  <2> QED
    BY <1>1, <1>3, <2>1, EventRead
<1> QED
  BY <1>1, <1>3 DEF ReadMessage, HandleMessage

\* A step of the shop is a step of the orders or leaves them alone.
LEMMA StepIsOrders == CP!TypeOK /\ [Next]_vars => [OP!Next]_OP!vars
<1> SUFFICES ASSUME CP!TypeOK, [Next]_vars PROVE [OP!Next]_OP!vars
  OBVIOUS
<1>0. ASSUME UNCHANGED orders
      PROVE  UNCHANGED OP!vars
  BY <1>0 DEF orders, OP!vars, OP!tables, OP!locks, OP!request, OP!loop,
       OP!draft, OP!consumer
<1>1. CASE OrderStep
  <2>1. Orders!Next
    BY <1>1 DEF OrderStep, Orders!Next
  <2> QED
    BY <2>1, OrdersNext
<1>2. ASSUME NEW i \in Offset \ {0}, ReadMessage(i)
      PROVE  [OP!Next]_OP!vars
  <2>1. CASE \E p \in Products : Orders!StartMark(p)
    <3>1. Orders!Next
      BY <2>1 DEF Orders!Next
    <3> QED
      BY <3>1, OrdersNext
  <2> QED
    BY <1>0, <1>2, <2>1, HandlingStarts
<1>3. CASE CoreStep \/ Join \/ Close \/ (\E i \in Offset \ {0} : SkipMessage(i))
           \/ UNCHANGED vars
  <2>1. UNCHANGED orders
    BY <1>3 DEF CoreStep, Join, Close, SkipMessage, vars
  <2> QED
    BY <2>1, <1>0
<1> QED
  BY <1>1, <1>2, <1>3 DEF Next, ReadNext

\* What holds of the catalogue alone holds in the shop.
LEMMA CoreInvariant == Spec => []CP!IndInv
<1>1. Init => CP!Init
  BY CoreInit DEF Init
<1>2. CP!Spec => []CP!IndInv
  BY CP!CatalogueIndInvHolds, ShopAssumption
<1> QED
  BY <1>1, <1>2, StepIsCore, PTL DEF Spec, CP!Spec

\* What the order service assumes of its constants is true in the shop.
LEMMA OrdersAssumption ==
    OP!AgentsAssumption /\ OP!RowsAssumption /\ OP!NumbersAssumption
<1>1. IsFiniteSet(Products)
  BY FS_Interval, ShopAssumption DEF Products, Catalogue!ProductId
<1>2. NoItem \notin Products
  BY ShopAssumption DEF Products, Catalogue!ProductId
<1>3. OP!AgentsAssumption
  BY ShopAssumption
<1>4. OP!NumbersAssumption
  BY ShopAssumption
<1>5. OP!IsFiniteSet(Products)
  BY <1>1 DEF IsFiniteSet, OP!IsFiniteSet
<1>6. OP!RowsAssumption
  BY <1>5, <1>2, ShopAssumption
<1> QED
  BY <1>3, <1>4, <1>6

\* And so does what holds of the orders alone.
LEMMA OrdersInvariant == Spec => []OP!IndInv
<1>1. Init => OP!Init
  BY OrdersInit DEF Init
<1>2. CP!IndInv => CP!TypeOK
  BY DEF CP!IndInv
<1>3. OP!Spec => []OP!IndInv
  BY OrdersAssumption, OP!IndInvHolds
<1> QED
  BY <1>1, <1>2, <1>3, CoreInvariant, StepIsOrders, PTL DEF Spec, OP!Spec

\* The invariants of the parts are those of their modules with proofs.
LEMMA SameInvariants ==
    /\ CP!IndInv <=> Catalogue!IndInv
    /\ OP!TypeOK <=> Orders!TypeOK
<1>1. CP!TypeOK <=> Catalogue!TypeOK
  BY DEF CP!TypeOK, Catalogue!TypeOK, CP!ProductId, Catalogue!ProductId,
         CP!Event, Catalogue!Event
<1>2. CP!OpenDeletionHasRow <=> Catalogue!OpenDeletionHasRow
  BY DEF CP!OpenDeletionHasRow, Catalogue!OpenDeletionHasRow, CP!ProductId,
         Catalogue!ProductId, CP!Exists, Catalogue!Exists
<1>3. CP!RequestsKnow <=> Catalogue!RequestsKnow
  BY DEF CP!RequestsKnow, Catalogue!RequestsKnow, CP!Knows, Catalogue!Knows,
         CP!Exists, Catalogue!Exists
<1>4. CP!EventsAreTrue <=> Catalogue!EventsAreTrue
  BY DEF CP!EventsAreTrue, Catalogue!EventsAreTrue, CP!Exists, Catalogue!Exists,
         CP!Range, Catalogue!Range
<1>5. CP!IndInv <=> Catalogue!IndInv
  BY <1>1, <1>2, <1>3, <1>4 DEF CP!IndInv, Catalogue!IndInv, CP!ProductId,
     Catalogue!ProductId, CP!Exists, Catalogue!Exists
<1>6. OP!TypeOK <=> Orders!TypeOK
  BY DEF OP!TypeOK, Orders!TypeOK, OP!TablesOK, Orders!TablesOK, OP!LocksOK,
     Orders!LocksOK, OP!RequestsOK, Orders!RequestsOK, OP!LoopsOK,
     Orders!LoopsOK, OP!DraftsOK, Orders!DraftsOK, OP!ConsumerOK,
     Orders!ConsumerOK, OP!OrderId, Orders!OrderId, OP!Agents, Orders!Agents
<1> QED
  BY <1>5, <1>6

\* What holds of the catalogue alone, and of the orders alone, holds in the
\* shop.
LEMMA PartsHold == Spec => [](Catalogue!IndInv /\ Orders!TypeOK)
<1>1. OP!IndInv => OP!TypeOK
  BY DEF OP!IndInv
<1> QED
  BY <1>1, CoreInvariant, OrdersInvariant, SameInvariants, PTL

\* The shop runs a catalogue and an order service, each as it is by itself.
THEOREM ShopRunsParts == Spec => Catalogue!Spec /\ Orders!Spec
<1>1. Init => Catalogue!Init /\ Orders!Init
  BY DEF Init
<1>2. [Next]_vars => [Catalogue!Next]_Catalogue!vars
  <2> SUFFICES ASSUME [Next]_vars PROVE [Catalogue!Next]_Catalogue!vars
    OBVIOUS
  <2>1. CASE CoreStep
    BY <2>1 DEF CoreStep, Catalogue!Next
  <2>2. CASE UNCHANGED core
    BY <2>2 DEF core, Catalogue!vars, Catalogue!rows, Catalogue!events
  <2> QED
    BY <2>1, <2>2 DEF Next, vars, OrderStep, Join, ReadNext, ReadMessage,
       SkipMessage, Close
<1>3. Catalogue!IndInv /\ [Next]_vars => [Orders!Next]_Orders!vars
  <2> SUFFICES ASSUME Catalogue!IndInv, [Next]_vars
               PROVE  [Orders!Next]_Orders!vars
    OBVIOUS
  <2>0. CP!TypeOK
    BY SameInvariants DEF CP!IndInv
  <2>1. CASE OrderStep
    BY <2>1 DEF OrderStep, Orders!Next
  <2>2. CASE UNCHANGED orders
    BY <2>2 DEF orders, Orders!vars, Orders!tables, Orders!locks,
       Orders!request, Orders!loop, Orders!draft, Orders!consumer
  <2>3. ASSUME NEW i \in Offset \ {0}, ReadMessage(i)
        PROVE  [Orders!Next]_Orders!vars
    BY <2>0, <2>2, <2>3, HandlingStarts DEF Orders!Next
  <2> QED
    BY <2>1, <2>2, <2>3 DEF Next, vars, CoreStep, Join, ReadNext, SkipMessage,
       Close
<1> QED
  BY <1>1, <1>2, <1>3, PartsHold, PTL DEF Spec, Catalogue!Spec, Orders!Spec

----------------------------------------------------------------------------
(* The topic and the group                                                 *)

\* A request to the core service writes nothing to the topic itself, and
\* draws one id at most.
LEMMA RequestsSend ==
    ASSUME NEW c \in Clients, Catalogue!TypeOK, Catalogue!Serve(c)
    PROVE  /\ topic' = topic
           /\ productSeq' \in {productSeq, productSeq + 1}
BY DEF Catalogue!Serve, Catalogue!Progress, Catalogue!CreateProduct,
   Catalogue!PublishCreated, Catalogue!DeleteRequest, Catalogue!GetProduct,
   Catalogue!DeleteProductWithTransaction, Catalogue!PublishDeleted,
   Catalogue!CommitDelete, Catalogue!CommitFails, Catalogue!CancelTransaction,
   Catalogue!AddRequest, Catalogue!ReadStock, Catalogue!UpdateStock,
   Catalogue!NotFound, Catalogue!StatementFails, Catalogue!Publish,
   Catalogue!rows, Catalogue!events

\* What was read of the topic stays, and no id is ever given back.
LEMMA TopicGrows ==
    ASSUME Catalogue!IndInv, [Next]_vars
    PROVE  /\ productSeq \in Nat /\ productSeq' \in Nat
           /\ productSeq <= productSeq'
           /\ Len(topic) \in Nat /\ Len(topic') \in Nat
           /\ Len(topic) <= Len(topic')
           /\ \A i \in 1 .. Len(topic) : topic'[i] = topic[i]
<1>1. /\ productSeq \in Nat
      /\ topic \in Seq(Catalogue!Event)
      /\ sending \in Seq(Catalogue!Event)
  BY ShopAssumption DEF Catalogue!IndInv, Catalogue!TypeOK
<1>2. ASSUME NEW c \in Clients, Catalogue!Serve(c)
      PROVE  topic' = topic /\ productSeq' \in {productSeq, productSeq + 1}
  BY <1>2, RequestsSend DEF Catalogue!IndInv
<1>3. ASSUME NEW i \in 1 .. Len(sending), Catalogue!Deliver(i)
      PROVE  topic' = Append(topic, sending[i]) /\ productSeq' = productSeq
  BY <1>3 DEF Catalogue!Deliver, Catalogue!rows
<1>4. ASSUME NEW i \in 1 .. Len(sending), Catalogue!Lose(i)
      PROVE  topic' = topic /\ productSeq' = productSeq
  BY <1>4 DEF Catalogue!Lose, Catalogue!rows
<1>5. ~CoreStep => topic' = topic /\ productSeq' = productSeq
  BY DEF Next, vars, core, OrderStep, Join, ReadNext, ReadMessage, SkipMessage,
         Close
<1>6. CASE \E i \in 1 .. Len(sending) : Catalogue!Deliver(i)
  BY <1>1, <1>3, <1>6
<1>7. CASE topic' = topic /\ productSeq' \in {productSeq, productSeq + 1}
  BY <1>1, <1>7
<1> QED
  BY <1>2, <1>4, <1>5, <1>6, <1>7 DEF CoreStep

\* What was handled stays handled.
LEMMA StaysHandled ==
    ASSUME Catalogue!IndInv, GroupOK, [Next]_vars,
           NEW p, WasHandled(p)
    PROVE  WasHandled(p)'
<1>1. handled \subseteq handled'
  BY DEF Next, vars, group, CoreStep, OrderStep, Join, ReadNext, ReadMessage,
     HandleMessage, SkipMessage, Close
<1>2. PICK i \in handled : topic[i] = Announced(p)
  BY DEF WasHandled
<1>3. topic'[i] = topic[i]
  BY <1>2, TopicGrows DEF GroupOK
<1> QED
  BY <1>1, <1>2, <1>3 DEF WasHandled, Announced

\* The group is never ahead of the topic, nor a reader behind the group.
LEMMA GroupNext ==
    ASSUME Catalogue!IndInv, GroupOK, GroupInOrder, [Next]_vars
    PROVE  GroupOK' /\ GroupInOrder'
<1>0. /\ Len(topic) \in Nat /\ Len(topic') \in Nat
      /\ Len(topic) <= Len(topic')
  BY TopicGrows
<1> USE <1>0, ShopAssumption DEF GroupOK, GroupInOrder
<1>1. CASE UNCHANGED group
  BY <1>1 DEF group
<1>2. CASE Join
  BY <1>2 DEF Join, core
<1>3. CASE Close
  BY <1>3 DEF Close, core
<1>4. ASSUME NEW i \in Offset \ {0}, ReadMessage(i)
      PROVE  GroupOK' /\ GroupInOrder'
  <2>1. handled' = handled \cup {i} /\ committed' = i /\ position' = i
    BY <1>4 DEF ReadMessage, HandleMessage
  <2>2. position \in Nat /\ i = position + 1 /\ i <= Len(topic)
    BY <1>4 DEF ReadMessage, Reads
  <2> QED
    BY <2>1, <2>2
<1>5. ASSUME NEW i \in Offset \ {0}, SkipMessage(i)
      PROVE  GroupOK' /\ GroupInOrder'
  <2>1. handled' = handled /\ committed' \in {i, committed} /\ position' = i
    BY <1>5 DEF SkipMessage
  <2>2. position \in Nat /\ i = position + 1 /\ i <= Len(topic)
    BY <1>5 DEF SkipMessage, Reads
  <2>3. CASE committed' = i
    <3>1. i \in 0 .. Len(topic') /\ handled' \subseteq 1 .. Len(topic')
      BY <2>1, <2>2
    <3>2. \A k \in handled' : committed' # NoOffset /\ k <= committed'
      <4>1. \A k \in handled : committed # NoOffset /\ k <= committed
        OBVIOUS
      <4>2. \A k \in handled : committed <= position
        BY <2>2, <4>1
      <4>3. \A k \in handled : k \in Nat /\ committed \in Nat
        BY <4>1
      <4> QED
        BY <2>1, <2>2, <2>3, <4>1, <4>2, <4>3
    <3> QED
      BY <2>1, <2>2, <2>3, <3>1, <3>2
  <2>4. CASE committed' = committed
    <3>1. committed # NoOffset => committed \in Nat
      OBVIOUS
    <3> QED
      BY <2>1, <2>2, <2>4, <3>1
  <2> QED
    BY <2>1, <2>3, <2>4
<1> QED
  BY <1>1, <1>2, <1>3, <1>4, <1>5 DEF Next, vars, CoreStep, OrderStep, ReadNext

----------------------------------------------------------------------------
(* What the order service knows                                            *)

\* The types the lemmas below need.
Typed ==
    /\ found \in [Handlers -> SUBSET Products]
    /\ draftExists \in [Handlers -> [Products -> BOOLEAN]]
    /\ amount \in [Orders!OrderId -> [Products -> 0 .. Int32Max]]
    /\ exists \in [Orders!OrderId -> [Products -> BOOLEAN]]
    /\ itemLock \in [Orders!OrderId ->
                       [Products -> Handlers \cup {Consumer, Nobody}]]
    /\ \A h \in Handlers : handlerPc[h] = "upsert" => target[h] \in Orders!OrderId
    /\ cur \in [Handlers -> Products \cup {NoItem}]

\* They are among those of the orders.
LEMMA OrdersTyped == Orders!TypeOK => Typed
BY DEF Orders!TypeOK, Orders!TablesOK, Orders!LocksOK, Orders!RequestsOK,
   Orders!LoopsOK, Orders!DraftsOK, Orders!Agents, Typed

\* A request forgets what it was shown and what it has drafted.
LEMMA FinishKnows ==
    ASSUME Typed, OrdersKnow, NEW h \in Handlers, NEW r, Orders!Finish(h, r)
    PROVE  \A g \in Handlers, p \in Products :
              /\ p \in found'[g] => p < productSeq
              /\ ~draftExists'[g][p] => WasHandled(p)
BY DEF Typed, OrdersKnow, Orders!Finish, Orders!AllExist

\* It gives up its locks, and none of the consumer's.
LEMMA ReleaseKnows ==
    ASSUME Typed, OrdersKnow, NEW h \in Handlers, Orders!ReleaseLocks(h)
    PROVE  \A o \in Orders!OrderId, p \in Products :
              itemLock'[o][p] = Consumer => marking = p
BY ShopAssumption DEF Typed, OrdersKnow, Orders!ReleaseLocks

\* A request under way, while the catalogue and the topic stand still.
LEMMA RequestKnows ==
    ASSUME Catalogue!IndInv, Typed, OrdersKnow,
           NEW h \in Handlers, Orders!Handle(h), IsOffered(h),
           UNCHANGED <<core, group>>
    PROVE  OrdersKnow'
<1> USE DEF OrdersKnow, Typed, core, group, WasHandled, Announced,
        Orders!tables, Orders!locks, Orders!request, Orders!loop, Orders!draft,
        Orders!consumer
<1>1. ASSUME NEW u, NEW q, Orders!CreateRequest(h, u, q)
      PROVE  OrdersKnow'
  BY <1>1 DEF Orders!CreateRequest
<1>2. ASSUME NEW S, Orders!FetchProducts(h, S)
      PROVE  OrdersKnow'
  <2>1. \A p \in Offered : p < productSeq
    BY DEF Offered, Catalogue!Present, Catalogue!IndInv
  <2>2. \A g \in Handlers, p \in Products : p \in found'[g] => p < productSeq
    BY <1>2, <2>1 DEF Orders!FetchProducts, IsOffered
  <2> QED
    BY <1>2, <2>2 DEF Orders!FetchProducts
<1>3. CASE Orders!FindOrderIDByUser(h)
  BY <1>3 DEF Orders!FindOrderIDByUser
<1>4. CASE Orders!InsertOrder(h)
  BY <1>4 DEF Orders!InsertOrder
<1>5. CASE Orders!CommitOrder(h)
  <2>1. \A o \in Orders!OrderId, p \in Products :
           /\ amount'[o][p] > 0 => amount[o][p] > 0 \/ p \in found[h]
           /\ ~exists'[o][p] => ~exists[o][p]
    BY <1>5 DEF Orders!CommitOrder, Orders!AllExist
  <2> QED
    BY <1>5, <2>1, FinishKnows DEF Orders!CommitOrder
<1>6. CASE Orders!LockOrder(h)
  BY <1>6 DEF Orders!LockOrder
<1>7. CASE Orders!UpsertItem(h)
  <2>0. /\ target[h] \in Orders!OrderId /\ cur[h] \in Products
        /\ draftExists' =
             [draftExists EXCEPT ![h][cur[h]] = exists[target[h]][cur[h]]]
    BY <1>7 DEF Orders!UpsertItem
  <2>1. \A g \in Handlers, p \in Products : ~draftExists'[g][p] => WasHandled(p)
    <3> SUFFICES ASSUME NEW g \in Handlers, NEW p \in Products,
                        ~draftExists'[g][p]
                 PROVE  WasHandled(p)
      OBVIOUS
    <3>1. CASE g = h /\ p = cur[h]
      <4>1. draftExists'[g][p] = exists[target[h]][p]
        BY <2>0, <3>1
      <4> QED
        BY <2>0, <4>1
    <3>2. CASE ~(g = h /\ p = cur[h])
      <4>1. draftExists'[g][p] = draftExists[g][p]
        BY <2>0, <3>2
      <4> QED
        BY <4>1
    <3> QED
      BY <3>1, <3>2
  <2>2. \A o \in Orders!OrderId, p \in Products :
           itemLock'[o][p] = Consumer => itemLock[o][p] = Consumer
    BY <1>7, ShopAssumption DEF Orders!UpsertItem
  <2> QED
    BY <1>7, <2>1, <2>2 DEF Orders!UpsertItem
<1>8. CASE Orders!CommitMerge(h)
  <2>1. \A o \in Orders!OrderId, p \in Products :
           /\ amount'[o][p] > 0 => amount[o][p] > 0 \/ p \in found[h]
           /\ ~exists'[o][p] => ~exists[o][p] \/ ~draftExists[h][p]
    <3>1. CASE UNCHANGED Orders!tables
      BY <3>1
    <3>2. CASE ~UNCHANGED Orders!tables
      <4>1. /\ amount' = [amount EXCEPT ![target[h]] = [p \in Products |->
                 IF p \in found[h] THEN draftAmount[h][p]
                                   ELSE amount[target[h]][p]]]
            /\ exists' = [exists EXCEPT ![target[h]] = [p \in Products |->
                 IF p \in found[h] THEN draftExists[h][p]
                                   ELSE exists[target[h]][p]]]
        BY <1>8, <3>2 DEF Orders!CommitMerge
      <4> SUFFICES ASSUME NEW o \in Orders!OrderId, NEW p \in Products
                   PROVE  /\ amount'[o][p] > 0 => amount[o][p] > 0 \/ p \in found[h]
                          /\ ~exists'[o][p] => ~exists[o][p] \/ ~draftExists[h][p]
        OBVIOUS
      <4>2. CASE o = target[h]
        <5>1. /\ amount'[o][p] = IF p \in found[h] THEN draftAmount[h][p]
                                                   ELSE amount[o][p]
              /\ exists'[o][p] = IF p \in found[h] THEN draftExists[h][p]
                                                   ELSE exists[o][p]
          BY <4>1, <4>2
        <5> QED
          BY <5>1
      <4>3. CASE o # target[h]
        BY <4>1, <4>3
      <4> QED
        BY <4>2, <4>3
    <3> QED
      BY <3>1, <3>2
  <2> QED
    BY <1>8, <2>1, FinishKnows, ReleaseKnows DEF Orders!CommitMerge
<1>9. CASE Orders!LoseMerge(h)
  BY <1>9, FinishKnows, ReleaseKnows DEF Orders!LoseMerge
<1>10. ASSUME NEW o, Orders!DeleteRequest(h, o)
       PROVE  OrdersKnow'
  BY <1>10 DEF Orders!DeleteRequest
<1>11. CASE Orders!LockDeleted(h)
  BY <1>11, FinishKnows DEF Orders!LockDeleted
<1>12. CASE Orders!CascadeItem(h)
  <2>1. \A o \in Orders!OrderId, p \in Products :
           itemLock'[o][p] = Consumer => itemLock[o][p] = Consumer
    BY <1>12, ShopAssumption DEF Orders!CascadeItem
  <2> QED
    BY <1>12, <2>1 DEF Orders!CascadeItem
<1>13. CASE Orders!CommitDelete(h)
  <2>1. \A o \in Orders!OrderId, p \in Products :
           /\ amount'[o][p] > 0 => amount[o][p] > 0
           /\ ~exists'[o][p] => ~exists[o][p]
    BY <1>13 DEF Orders!CommitDelete, Orders!AllExist, Orders!Unset
  <2> QED
    BY <1>13, <2>1, FinishKnows, ReleaseKnows DEF Orders!CommitDelete
<1>14. CASE Orders!Abort(h)
  BY <1>14, FinishKnows, ReleaseKnows DEF Orders!Abort
<1> QED
  BY <1>1, <1>2, <1>3, <1>4, <1>5, <1>6, <1>7, <1>8, <1>9, <1>10, <1>11, <1>12,
     <1>13, <1>14 DEF Orders!Handle, Orders!Progress, Orders!RefusedRequest,
     Orders!FailedRequest

\* The consumer, likewise.
LEMMA MarkingKnows ==
    ASSUME Typed, OrdersKnow,
           Orders!MarkProgress \/ Orders!FailMark,
           UNCHANGED <<core, group>>
    PROVE  OrdersKnow'
<1> USE DEF OrdersKnow, Typed, core, group, WasHandled, Announced,
        Orders!tables, Orders!locks, Orders!request, Orders!loop, Orders!draft,
        Orders!consumer
<1>1. CASE Orders!MarkRow
  <2>1. \A o \in Orders!OrderId, p \in Products : itemLock'[o][p] = Consumer =>
           itemLock[o][p] = Consumer \/ p = marking
    BY <1>1 DEF Orders!MarkRow
  <2> QED
    BY <1>1, <2>1 DEF Orders!MarkRow
<1>2. ASSUME Orders!EndMark
      PROVE  /\ \A o \in Orders!OrderId, p \in Products : itemLock'[o][p] # Consumer
             /\ marking' = NoItem
  BY <1>2, ShopAssumption DEF Orders!EndMark, Orders!ReleaseLocks
<1>3. CASE Orders!CommitMark
  <2>1. \A o \in Orders!OrderId, p \in Products :
           ~exists'[o][p] => ~exists[o][p] \/ p = marking
    <3> SUFFICES ASSUME NEW o \in Orders!OrderId, NEW p \in Products,
                        ~exists'[o][p], p # marking
                 PROVE  ~exists[o][p]
      OBVIOUS
    <3>1. exists' = [i \in Orders!OrderId |-> [j \in Products |->
                        exists[i][j] /\ itemLock[i][j] # Consumer]]
      BY <1>3 DEF Orders!CommitMark
    <3>2. exists'[o][p] = (exists[o][p] /\ itemLock[o][p] # Consumer)
      BY <3>1, Zenon
    <3>3. itemLock[o][p] # Consumer
      OBVIOUS
    <3> QED
      BY <3>2, <3>3
  <2>2. \A o \in Orders!OrderId, p \in Products :
           ~exists'[o][p] => WasHandled(p)
    BY <1>3, <2>1, ShopAssumption DEF Orders!CommitMark
  <2> QED
    BY <1>2, <1>3, <2>2 DEF Orders!CommitMark, Orders!EndMark
<1>4. CASE Orders!FailMark
  BY <1>2, <1>4 DEF Orders!FailMark, Orders!EndMark
<1> QED
  BY <1>1, <1>3, <1>4 DEF Orders!MarkProgress

\* Whoever moves, what the order service knows stays true: ids are never
\* given back, and what was handled stays handled.
LEMMA OrdersKnowNext ==
    ASSUME Catalogue!IndInv, Orders!TypeOK, GroupOK, OrdersKnow, [Next]_vars
    PROVE  OrdersKnow'
<1>0. Typed
  BY OrdersTyped
<1>1. CASE OrderStep
  <2>1. CASE \E h \in Handlers : Orders!Handle(h) /\ IsOffered(h)
    BY <1>0, <1>1, <2>1, RequestKnows DEF OrderStep
  <2>2. CASE Orders!MarkProgress \/ Orders!FailMark
    BY <1>0, <1>1, <2>2, MarkingKnows DEF OrderStep
  <2> QED
    BY <1>1, <2>1, <2>2 DEF OrderStep
<1>2. ASSUME NEW p, WasHandled(p)
      PROVE  WasHandled(p)'
  BY <1>2, StaysHandled
<1>3. productSeq \in Nat /\ productSeq' \in Nat /\ productSeq <= productSeq'
  BY TopicGrows
<1>4. CASE UNCHANGED orders
  <2>1. ASSUME NEW p \in Products, p < productSeq
        PROVE  p < productSeq'
    BY <1>3, <2>1 DEF Products, Catalogue!ProductId
  <2>2. \A p \in Products : WasHandled(p) => WasHandled(p)'
    BY <1>2
  <2>3. ASSUME marking # NoItem
        PROVE  WasHandled(marking)'
    <3>1. PICK p : p = marking
      OBVIOUS
    <3>2. WasHandled(p)'
      BY <1>2, <2>3, <3>1 DEF OrdersKnow
    <3> QED
      BY <1>4, <3>1, <3>2 DEF orders, WasHandled, Announced
  <2> QED
    BY <1>4, <2>1, <2>2, <2>3 DEF OrdersKnow, orders
<1>5. ASSUME NEW i \in Offset \ {0}, ReadMessage(i)
      PROVE  OrdersKnow'
  <2>1. CP!TypeOK
    BY SameInvariants DEF CP!IndInv
  <2>2. CASE \E p \in Products : Orders!StartMark(p) /\ topic[i] = Announced(p)
    <3>1. PICK p \in Products : Orders!StartMark(p) /\ topic[i] = Announced(p)
      BY <2>2
    <3>2. i \in handled' /\ UNCHANGED core
      BY <1>5 DEF ReadMessage, HandleMessage
    <3>3. WasHandled(p)'
      BY <3>1, <3>2 DEF WasHandled, Announced, core
    <3>4. \A q \in Products : WasHandled(q) => WasHandled(q)'
      BY <1>2
    <3>5. /\ marking = NoItem /\ marking' = p
          /\ UNCHANGED <<found, draftExists, amount, exists, itemLock>>
      BY <3>1 DEF Orders!StartMark, Orders!tables, Orders!locks, Orders!draft
    <3>6. NoItem \notin Products
      BY ShopAssumption DEF Products, Catalogue!ProductId
    <3> QED
      BY <3>2, <3>3, <3>4, <3>5, <3>6 DEF OrdersKnow, core
  <2> QED
    BY <1>4, <1>5, <2>1, <2>2, HandlingStarts
<1> QED
  BY <1>1, <1>4, <1>5 DEF Next, vars, CoreStep, Join, ReadNext, SkipMessage,
     Close

----------------------------------------------------------------------------
(* The theorems                                                            *)

\* The two services, the topic and the group agree on what was put up, what was
\* announced and what was handled: the inductive invariant of the shop.
THEOREM ShopIndInvHolds == Spec => []IndInv
<1> DEFINE Both == GroupOK /\ GroupInOrder /\ OrdersKnow
<1>1. Init => Both
  BY ShopAssumption DEF Init, Orders!Init, Catalogue!Init, GroupOK,
     GroupInOrder, OrdersKnow, Orders!AllExist, Orders!Unset
<1>2. Catalogue!IndInv /\ Orders!TypeOK /\ Both /\ [Next]_vars => Both'
  BY GroupNext, OrdersKnowNext
<1>3. Catalogue!IndInv /\ Orders!TypeOK /\ Both => IndInv
  BY DEF IndInv, TypeOK, Catalogue!IndInv
<1> HIDE DEF Both
<1> QED
  BY <1>1, <1>2, <1>3, PartsHold, PTL DEF Spec

\* Every variable of the shop keeps its type, and the group is never ahead of
\* the topic.
THEOREM ShopTypeCorrect == Spec => []TypeOK
<1>1. IndInv => TypeOK
  BY DEF IndInv
<1> QED
  BY <1>1, ShopIndInvHolds, PTL

\* The order service holds only products the core service has had, and marks
\* only those whose deletion the core service has announced.
THEOREM MarksAnnouncedHolds == Spec => []MarksAnnounced
<1>1. IndInv => MarksAnnounced
  <2> SUFFICES ASSUME IndInv, NEW o \in Orders!OrderId, NEW p \in Products,
                      amount[o][p] > 0
               PROVE  /\ p < productSeq
                      /\ ~exists[o][p] =>
                           /\ WasHandled(p)
                           /\ Catalogue!Exists(p) => price[p] >= CheapPrice
    BY DEF MarksAnnounced
  <2>1. p < productSeq /\ (~exists[o][p] => WasHandled(p))
    BY DEF IndInv, OrdersKnow
  <2>2. ASSUME WasHandled(p), Catalogue!Exists(p)
        PROVE  price[p] >= CheapPrice
    <3>1. PICK i \in handled : topic[i] = Announced(p)
      BY <2>2 DEF WasHandled
    <3>2. topic \in Seq(Catalogue!Event) /\ i \in 1 .. Len(topic)
      BY DEF IndInv, TypeOK, Catalogue!TypeOK, GroupOK
    <3>3. Announced(p) \in Catalogue!Range(topic)
      BY <3>1, <3>2 DEF Catalogue!Range
    <3> QED
      BY <2>2, <3>3 DEF IndInv, Catalogue!EventsAreTrue, Catalogue!IndInv,
         Announced
  <2> QED
    BY <2>1, <2>2
<1> QED
  BY <1>1, ShopIndInvHolds, PTL

\* A reader that starts again never handles an event a second time.
THEOREM AtMostOnceHolds == Spec => AtMostOnce
<1> DEFINE Once == \A i \in 1 .. Len(topic) :
      (i \in handled /\ Reads(i) /\ position' = i) => UNCHANGED marking
<1>1. IndInv => Once
  <2> SUFFICES ASSUME IndInv, NEW i \in 1 .. Len(topic), i \in handled, Reads(i)
               PROVE  FALSE
    OBVIOUS
  <2>1. /\ committed # NoOffset /\ i <= committed
        /\ position # NoOffset /\ i = position + 1
        /\ committed <= position
    BY DEF IndInv, GroupInOrder, Reads
  <2>2. committed \in Nat /\ position \in Nat
    BY <2>1, ShopAssumption DEF IndInv, TypeOK, GroupOK
  <2> QED
    BY <2>1, <2>2
<1>2. IndInv /\ [Next]_vars => [Once]_vars
  BY <1>1
<1> HIDE DEF Once
<1>3. Spec => [][Once]_vars
  BY <1>2, ShopIndInvHolds, PTL DEF Spec
<1> QED
  BY <1>3 DEF AtMostOnce, Once

----------------------------------------------------------------------------
(* What somebody sees who reads both databases and the topic               *)

\* A step the catalogue's readers may see is one of the shop's shelf.
LEMMA SameShelf ==
    /\ CP!Shelf!Init => Books!Shelf!Init
    /\ CP!Shelf!Next => Books!Shelf!Next
    /\ UNCHANGED CP!Shelf!vars => UNCHANGED <<Used, price, stock, InTopic>>
<1> USE DEF Used, InTopic, CP!Range, Catalogue!Range, CP!ProductId, Products,
        Catalogue!ProductId, CP!Shelf!Exists, Books!Shelf!Exists
<1>1. CP!Shelf!Init => Books!Shelf!Init
  BY DEF CP!Shelf!Init, Books!Shelf!Init
<1>2. ASSUME NEW p, NEW pr, NEW n, CP!Shelf!PutUp(p, pr, n)
      PROVE  Books!Shelf!PutUp(p, pr, n)
  BY <1>2 DEF CP!Shelf!PutUp, Books!Shelf!PutUp
<1>3. ASSUME NEW p, NEW n, CP!Shelf!Restock(p, n)
      PROVE  Books!Shelf!Restock(p, n)
  BY <1>3 DEF CP!Shelf!Restock, Books!Shelf!Restock
<1>4. ASSUME NEW p, CP!Shelf!TakeDown(p)
      PROVE  Books!Shelf!TakeDown(p)
  BY <1>4 DEF CP!Shelf!TakeDown, Books!Shelf!TakeDown
<1>5. ASSUME NEW p, CP!Shelf!Announce(p)
      PROVE  Books!Shelf!Announce(p)
  BY <1>5 DEF CP!Shelf!Announce, Books!Shelf!Announce
<1>6. CP!Shelf!Next => Books!Shelf!Next
  BY <1>2, <1>3, <1>4, <1>5 DEF CP!Shelf!Next, Books!Shelf!Next
<1>7. UNCHANGED CP!Shelf!vars => UNCHANGED <<Used, price, stock, InTopic>>
  BY DEF CP!Shelf!vars
<1> QED
  BY <1>1, <1>6, <1>7

\* Both instances know the same of the requests under way.
LEMMA SameRequests ==
    /\ OP!Purchases = Orders!Purchases /\ OP!Purchases' = Orders!Purchases'
    /\ OP!Removals = Orders!Removals /\ OP!Removals' = Orders!Removals'
BY DEF OP!Purchases, Orders!Purchases, OP!Removals, Orders!Removals,
   OP!Placing, Orders!Placing, OP!Deleting, Orders!Deleting, OP!NoPurchase,
   Orders!NoPurchase, OP!Unset, Orders!Unset, OP!Positions, Orders!Positions,
   OP!ToInt32, Orders!ToInt32

\* A step the order tables' readers may see is one of the shop's ledger.
LEMMA SameLedger ==
    /\ OP!Ledger!Init => Books!Ledger!Init
    /\ OP!Ledger!Next => Books!Ledger!Next
    /\ UNCHANGED OP!Ledger!vars => UNCHANGED Books!ledger
<1> USE SameRequests
    DEF OP!Ledger!OrderId, Books!Ledger!OrderId, OP!Ledger!IsOrder,
        Books!Ledger!IsOrder, OP!Ledger!MaxOf, Books!Ledger!MaxOf,
        OP!Ledger!NoPurchase, Books!Ledger!NoPurchase, OP!Ledger!tables,
        Books!Ledger!tables
<1>0. OP!HoursFor = Orders!HoursFor
  BY DEF OP!HoursFor, Orders!HoursFor, OP!Cardinality, Orders!Cardinality,
     OP!calculateDeliveryTimeHours, Orders!calculateDeliveryTimeHours
<1>1. OP!Ledger!Init => Books!Ledger!Init
  BY DEF OP!Ledger!Init, Books!Ledger!Init
<1>2. ASSUME NEW h
      PROVE  /\ OP!Ledger!Offer(h) => Books!Ledger!Offer(h)
             /\ OP!Ledger!Done(h) => Books!Ledger!Done(h)
             /\ OP!Ledger!Drop(h) => Books!Ledger!Drop(h)
  BY DEF OP!Ledger!Offer, Books!Ledger!Offer, OP!Ledger!Purchase,
     Books!Ledger!Purchase, OP!Ledger!Done, Books!Ledger!Done, OP!Ledger!Drop,
     Books!Ledger!Drop
<1>3. ASSUME NEW h
      PROVE  /\ OP!Ledger!IsSound(h) => Books!Ledger!IsSound(h)
             /\ \A p : OP!Ledger!Brings(h, p) = Books!Ledger!Brings(h, p)
  BY DEF OP!Ledger!IsSound, Books!Ledger!IsSound, OP!Ledger!Brings,
     Books!Ledger!Brings
<1>4. ASSUME NEW h, NEW o, OP!Ledger!Place(h, o)
      PROVE  Books!Ledger!Place(h, o)
  <2>1. [p \in Products |-> OP!Ledger!Brings(h, p)]
           = [p \in Products |-> Books!Ledger!Brings(h, p)]
    BY <1>3
  <2>2. Books!Ledger!Done(h) /\ Books!Ledger!IsSound(h)
    BY <1>2, <1>3, <1>4 DEF OP!Ledger!Place
  <2> QED
    BY <1>0, <1>4, <2>1, <2>2 DEF OP!Ledger!Place, Books!Ledger!Place
<1>5. ASSUME NEW h, NEW o, OP!Ledger!Add(h, o)
      PROVE  Books!Ledger!Add(h, o)
  <2>1. [p \in Products |-> amount[o][p] + OP!Ledger!Brings(h, p)]
           = [p \in Products |-> amount[o][p] + Books!Ledger!Brings(h, p)]
    BY <1>3
  <2>2. Books!Ledger!Done(h) /\ Books!Ledger!IsSound(h)
    BY <1>2, <1>3, <1>5 DEF OP!Ledger!Add
  <2>3. \A p \in Products : amount[o][p] + Books!Ledger!Brings(h, p) <= Int32Max
    BY <1>3, <1>5 DEF OP!Ledger!Add
  <2> QED
    BY <1>0, <1>5, <2>1, <2>2, <2>3 DEF OP!Ledger!Add, Books!Ledger!Add
<1>6. ASSUME NEW h, NEW o
      PROVE  /\ OP!Ledger!Ask(h, o) => Books!Ledger!Ask(h, o)
             /\ OP!Ledger!Remove(h, o) => Books!Ledger!Remove(h, o)
  BY DEF OP!Ledger!Ask, Books!Ledger!Ask, OP!Ledger!Remove, Books!Ledger!Remove
<1>7. ASSUME NEW p, NEW O
      PROVE  OP!Ledger!Flag(p, O) => Books!Ledger!Flag(p, O)
  BY DEF OP!Ledger!Flag, Books!Ledger!Flag, OP!Ledger!requests,
     Books!Ledger!requests
<1>8. OP!Ledger!Next => Books!Ledger!Next
  BY <1>2, <1>4, <1>5, <1>6, <1>7 DEF OP!Ledger!Next, Books!Ledger!Next
<1>9. UNCHANGED OP!Ledger!vars => UNCHANGED Books!ledger
  BY DEF OP!Ledger!vars, OP!Ledger!requests, Books!ledger
<1> QED
  BY <1>1, <1>8, <1>9

TopicHasHandled == \A p : WasHandled(p) => p \in InTopic

\* What was handled is in the topic.
LEMMA HandledInTopic == IndInv => TopicHasHandled
<1> SUFFICES ASSUME IndInv, NEW p, WasHandled(p)
             PROVE  p \in InTopic
  BY DEF TopicHasHandled
<1>1. PICK i \in handled : topic[i] = Announced(p)
  BY DEF WasHandled
<1>2. i \in 1 .. Len(topic) /\ topic \in Seq(Catalogue!Event)
  BY DEF IndInv, TypeOK, GroupOK, Catalogue!TypeOK
<1>3. topic[i] \in Catalogue!Range(topic)
  BY <1>2 DEF Catalogue!Range
<1> QED
  BY <1>1, <1>3 DEF InTopic, Announced

\* What the order service has from the catalogue and from the topic is there
\* when it writes it: its step keeps both books in step.
LEMMA LedgerInStep ==
    ASSUME IndInv, IndInv', UNCHANGED core
    PROVE  /\ \A h \in Handlers : Orders!Purchases'[h].offered \subseteq Used
           /\ \A o \in Orders!OrderId, p \in Products :
                /\ amount'[o][p] > amount[o][p] => p \in Used
                /\ (exists[o][p] /\ ~exists'[o][p]) => p \in InTopic
<1>0. ASSUME NEW p \in Products, p < productSeq'
      PROVE  p \in Used
  BY <1>0, ShopAssumption DEF core, Used, Products, Catalogue!ProductId,
     IndInv, TypeOK, Catalogue!TypeOK
<1>a. ASSUME NEW h \in Handlers, NEW p \in Orders!Purchases'[h].offered
      PROVE  p \in Used
  <2>1. p \in found'[h] /\ found'[h] \subseteq Products
    BY <1>a DEF Orders!Purchases, Orders!NoPurchase, IndInv, TypeOK,
       Orders!TypeOK, Orders!RequestsOK
  <2>2. p < productSeq'
    BY <2>1 DEF IndInv, OrdersKnow
  <2> QED
    BY <1>0, <2>1, <2>2
<1> SUFFICES ASSUME NEW o \in Orders!OrderId, NEW p \in Products
             PROVE  /\ amount'[o][p] > amount[o][p] => p \in Used
                    /\ (exists[o][p] /\ ~exists'[o][p]) => p \in InTopic
  BY <1>a
<1>1. amount[o][p] \in Nat /\ amount'[o][p] \in Nat
  <2>1. Typed /\ Typed'
    BY OrdersTyped, PTL DEF IndInv, TypeOK
  <2>2. amount[o][p] \in 0 .. Int32Max /\ amount'[o][p] \in 0 .. Int32Max
    BY <2>1 DEF Typed, Orders!OrderId
  <2> QED
    BY <2>2
<1>2. ASSUME amount'[o][p] > amount[o][p]
      PROVE  p \in Used
  <2>1. p < productSeq'
    BY <1>1, <1>2 DEF IndInv, OrdersKnow, Orders!OrderId
  <2> QED
    BY <1>0, <2>1
<1>3. ASSUME exists[o][p], ~exists'[o][p]
      PROVE  p \in InTopic
  <2>1. WasHandled(p)'
    BY <1>3 DEF IndInv, OrdersKnow, Orders!OrderId
  <2>2. TopicHasHandled'
    BY HandledInTopic, PTL
  <2> QED
    BY <2>1, <2>2 DEF TopicHasHandled, core, InTopic, Catalogue!Range
<1> QED
  BY <1>2, <1>3

\* Every step of the shop is a step of one of the books, or of neither.
LEMMA BooksNext ==
    IndInv /\ IndInv' /\ OP!IndInv /\ OP!IndInv' /\ [Next]_vars =>
       [Books!Next]_(Books!vars)
<1> SUFFICES ASSUME IndInv, IndInv', OP!IndInv, OP!IndInv', [Next]_vars
             PROVE  [Books!Next]_(Books!vars)
  OBVIOUS
<1> USE DEF Books!vars, Books!shelf
<1>0. CP!IndInv /\ CP!TypeOK
  BY SameInvariants DEF IndInv, CP!IndInv
<1>1. CASE CoreStep
  <2>1. UNCHANGED Books!ledger
    <3>1. UNCHANGED orders
      BY <1>1 DEF CoreStep
    <3>2. UNCHANGED <<Orders!Purchases, Orders!Removals>>
      BY <3>1 DEF orders, Orders!Purchases, Orders!Removals, Orders!Placing,
         Orders!Deleting, Orders!Positions, Orders!ToInt32
    <3> QED
      BY <3>1, <3>2 DEF orders, Books!ledger
  <2>2. [CP!Shelf!Next]_(CP!Shelf!vars)
    BY <1>0, StepIsCore, CP!ShelfStep, ShopAssumption
  <2>3. Books!Shelf!Next \/ UNCHANGED <<Used, price, stock, InTopic>>
    BY <2>2, SameShelf
  <2> QED
    BY <2>1, <2>3 DEF Books!Next, Books!ShelfMoves
<1>2. CASE ~CoreStep
  <2>1. UNCHANGED core
    BY <1>2 DEF Next, vars, OrderStep, Join, ReadNext, ReadMessage, SkipMessage,
       Close
  <2>2. UNCHANGED <<Used, price, stock, InTopic>>
    BY <2>1 DEF core, Used, InTopic, Catalogue!Range
  <2>3. [OP!Ledger!Next]_(OP!Ledger!vars)
    BY <1>0, StepIsOrders, OP!StepIsLedgers, OrdersAssumption
  <2>4. Books!Ledger!Next \/ UNCHANGED Books!ledger
    BY <2>3, SameLedger
  <2>5. Books!Ledger!Next => Books!LedgerMoves
    BY <2>1, <2>2, LedgerInStep
       DEF Books!LedgerMoves, Books!Ledger!OrderId, Orders!OrderId
  <2> QED
    BY <2>2, <2>4, <2>5 DEF Books!Next
<1> QED
  BY <1>1, <1>2

\* Whoever reads both databases and the topic sees the two books of the
\* abstract specification: each moves by its own rules, orders take in only
\* what was put up, and flag only what the topic announces as deleted.
THEOREM ImplementsBooksHolds == Spec => ImplementsBooks
<1>1. Init => Books!Init
  <2> SUFFICES ASSUME Init PROVE Books!Init
    OBVIOUS
  <2>1. Books!Shelf!Init
    <3>1. Used = {} /\ InTopic = {}
      BY DEF Init, Catalogue!Init, Used, InTopic, Catalogue!Range
    <3> QED
      BY <3>1 DEF Init, Catalogue!Init, Books!Shelf!Init, Products
  <2>2. Books!Ledger!Init
    BY DEF Init, Orders!Init, Books!Ledger!Init, Orders!OrderId,
       Books!Ledger!OrderId, Orders!Unset, Orders!AllExist, Orders!Purchases,
       Orders!Removals, Orders!Placing, Orders!Deleting, Orders!NoPurchase,
       Books!Ledger!NoPurchase
  <2> QED
    BY <2>1, <2>2 DEF Books!Init
<1> QED
  BY <1>1, BooksNext, ShopIndInvHolds, OrdersInvariant, PTL
     DEF Spec, ImplementsBooks, Books!Spec

----------------------------------------------------------------------------
(* What the parts promise, in the shop                                     *)

\* With the consumer fed by the topic and the requests by the catalogue there
\* is still no circle of waiting transactions and no merge that works with
\* amounts that have changed, and a dear product still goes only once the
\* broker has accepted its event.
THEOREM PartsKeepPromises ==
    Spec => /\ []Orders!NoLockCycle
            /\ []Orders!DraftsCurrent
            /\ Catalogue!DearOnesAnnounced
<1>1. OP!IndInv => OP!NoLockCycle /\ OP!DraftsCurrent
  BY OrdersAssumption, OP!NoCircle, OP!DraftsStayCurrent
<1>2. OP!NoLockCycle <=> Orders!NoLockCycle
  BY DEF OP!NoLockCycle, Orders!NoLockCycle, OP!WaitsFor, Orders!WaitsFor,
     OP!Agents, Orders!Agents
<1>3. OP!DraftsCurrent <=> Orders!DraftsCurrent
  BY DEF OP!DraftsCurrent, Orders!DraftsCurrent, OP!IsOrder, Orders!IsOrder,
     OP!ToInt32, Orders!ToInt32
<1>4. Spec => CP!Spec
  <2>1. Init => CP!Init
    BY CoreInit DEF Init
  <2> QED
    BY <2>1, StepIsCore, PTL DEF Spec, CP!Spec
<1>5. CP!DearOnesAnnounced <=> Catalogue!DearOnesAnnounced
  BY DEF CP!DearOnesAnnounced, Catalogue!DearOnesAnnounced, CP!ProductId,
     Catalogue!ProductId, CP!vars, Catalogue!vars, CP!rows, Catalogue!rows,
     CP!events, Catalogue!events
<1>6. CP!Spec => CP!DearOnesAnnounced
  BY CP!DearOnesAnnouncedHolds, ShopAssumption
<1> QED
  BY <1>1, <1>2, <1>3, <1>4, <1>5, <1>6, OrdersInvariant, PTL
===============================================================================
