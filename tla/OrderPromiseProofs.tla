-------------------------- MODULE OrderPromiseProofs --------------------------
(***************************************************************************)
(* What the source says of OrderService and the code keeps only in part:   *)
(* a user has one order, what is reported as merged has been merged, a     *)
(* deleted product is marked in all orders.  Runs show how each fails;     *)
(* the theorems below say what has to happen for it to fail, and that      *)
(* nothing else can break it.  The last one counts the steps of a request. *)
(***************************************************************************)
EXTENDS OrderLockProofs, FiniteSetTheorems

----------------------------------------------------------------------------
(* Whose step it is                                                        *)

\* A request's step leaves what other requests remember alone.
LEMMA OthersRemember ==
    ASSUME TypeOK, NEW h \in Handlers, Handle(h), NEW g \in Handlers \ {h}
    PROVE  /\ pc'[g] = pc[g] /\ user'[g] = user[g] /\ qty'[g] = qty[g]
           /\ found'[g] = found[g] /\ target'[g] = target[g]
           /\ todo'[g] = todo[g] /\ cur'[g] = cur[g]
<1> USE DEF TypeOK, RequestsOK, LoopsOK, request, loop, draft
<1>1. ASSUME NEW u \in Users, NEW q \in [Products -> Quantities \cup {0}],
             CreateRequest(h, u, q)
      PROVE  UNCHANGED <<found, target, todo, cur>> /\ pc'[g] = pc[g]
             /\ user'[g] = user[g] /\ qty'[g] = qty[g]
  BY <1>1 DEF CreateRequest
<1>2. ASSUME NEW S \in SUBSET Products, FetchProducts(h, S)
      PROVE  UNCHANGED <<user, qty, target, todo, cur>> /\ pc'[g] = pc[g]
             /\ found'[g] = found[g]
  BY <1>2 DEF FetchProducts
<1>3. ASSUME FindOrderIDByUser(h) \/ InsertOrder(h)
      PROVE  UNCHANGED <<user, qty, found, todo, cur>> /\ pc'[g] = pc[g]
             /\ target'[g] = target[g]
  BY <1>3 DEF FindOrderIDByUser, InsertOrder
<1>4. ASSUME LockOrder(h) \/ UpsertItem(h) \/ CascadeItem(h)
      PROVE  UNCHANGED <<user, qty, found, target>> /\ pc'[g] = pc[g]
             /\ todo'[g] = todo[g] /\ cur'[g] = cur[g]
  BY <1>4 DEF LockOrder, UpsertItem, CascadeItem, NextItem
<1>5. ASSUME NEW o \in OrderId, DeleteRequest(h, o)
      PROVE  UNCHANGED <<user, qty, found, todo, cur>> /\ pc'[g] = pc[g]
             /\ target'[g] = target[g]
  BY <1>5 DEF DeleteRequest
<1>6. ASSUME LockDeleted(h)
      PROVE  \/ \E r : Finish(h, r)
             \/ UNCHANGED <<user, qty, found, target>> /\ pc'[g] = pc[g]
                /\ todo'[g] = todo[g] /\ cur'[g] = cur[g]
  BY <1>6 DEF LockDeleted, NextItem
<1>7. CASE \/ CommitOrder(h) \/ CommitMerge(h) \/ LoseMerge(h)
           \/ CommitDelete(h) \/ Abort(h)
  BY <1>7, FinishOthers
     DEF CommitOrder, CommitMerge, LoseMerge, CommitDelete, Abort
<1> QED
  BY <1>1, <1>2, <1>3, <1>4, <1>5, <1>6, <1>7, FinishOthers
     DEF Handle, Progress, RefusedRequest, FailedRequest

\* Nor does the consumer touch it.
LEMMA ConsumerForgetsNothing ==
    ASSUME [Next]_vars, \A h \in Handlers : ~Handle(h)
    PROVE  UNCHANGED <<pc, user, qty, found, target, todo, cur, reply, owner,
                       amount>>
BY DEF Next, MarkProgress, StartMark, MarkRow, CommitMark, FailMark, EndMark,
       vars, tables, request, loop

\* The tables change by the commits of requests, and the flags of items by
\* those of markings.
LEMMA OnlyCommitsWrite ==
    ASSUME NEW h \in Handlers, Handle(h)
    PROVE  \/ CommitOrder(h) \/ CommitMerge(h) \/ CommitDelete(h)
           \/ UNCHANGED <<owner, hours, amount, exists>>
BY DEF Handle, Progress, CreateRequest, FetchProducts, FindOrderIDByUser,
       InsertOrder, LockOrder, UpsertItem, LoseMerge, DeleteRequest, LockDeleted,
       CascadeItem, RefusedRequest, FailedRequest, Abort, tables

----------------------------------------------------------------------------
(* One order per user                                                      *)

\* No two orders have the same owner.
NoTwins ==
    \A a, b \in OrderId : (IsOrder(a) /\ owner[a] = owner[b]) => a = b

\* A request that has found no order of its user is still right.
NoneYet ==
    \A h \in Handlers : pc[h] \in {"insert", "create"} => OrdersOf(user[h]) = {}

\* Without twins a user has one order at most.
LEMMA NoTwinsCount == NoTwins => OneOrderPerUser
<1> SUFFICES ASSUME NoTwins, NEW u \in Users
             PROVE  Cardinality(OrdersOf(u)) <= 1
  BY DEF OneOrderPerUser
<1>1. CASE OrdersOf(u) = {}
  BY <1>1, FS_EmptySet
<1>2. CASE OrdersOf(u) # {}
  <2>1. PICK o : o \in OrdersOf(u)
    BY <1>2
  <2>2. OrdersOf(u) = {o}
    BY <2>1, RowsAssumption DEF OrdersOf, NoTwins, IsOrder
  <2> QED
    BY <2>2, FS_Singleton
<1> QED
  BY <1>1, <1>2

\* A request that goes on to a new order has found none.
LEMMA FoundNone ==
    ASSUME IndInv, NEW h \in Handlers, Handle(h), NoneYet,
           pc'[h] \in {"insert", "create"}
    PROVE  user'[h] = user[h] /\ OrdersOf(user[h]) = {}
<1> USE DEF IndInv, TypeOK, RequestsOK
<1>1. CASE FindOrderIDByUser(h) \/ InsertOrder(h)
  BY <1>1 DEF FindOrderIDByUser, InsertOrder, NoneYet, request
<1>2. ASSUME NEW r, Finish(h, r)
      PROVE  FALSE
  BY <1>2, FinishSelf
<1>3. ~(CommitOrder(h) \/ CommitMerge(h) \/ LoseMerge(h) \/ CommitDelete(h)
        \/ Abort(h))
  BY <1>2 DEF CommitOrder, CommitMerge, LoseMerge, CommitDelete, Abort
<1>4. ~(UpsertItem(h) \/ CascadeItem(h) \/ LockDeleted(h) \/ LockOrder(h))
  BY <1>2 DEF UpsertItem, CascadeItem, LockDeleted, LockOrder
<1> QED
  BY <1>1, <1>3, <1>4 DEF Handle, Progress, CreateRequest, FetchProducts,
     DeleteRequest, RefusedRequest, FailedRequest

\* As long as no user has two requests at once, twins are never born.
LEMMA SerialNext ==
    IndInv /\ OneRequestPerUser /\ NoTwins /\ NoneYet /\ [Next]_vars
       => NoTwins' /\ NoneYet'
<1> SUFFICES ASSUME IndInv, OneRequestPerUser, NoTwins, NoneYet, [Next]_vars
             PROVE  NoTwins' /\ NoneYet'
  OBVIOUS
<1> USE DEF IsOrder, OrdersOf
<1>1. CASE \A h \in Handlers : ~Handle(h)
  BY <1>1, ConsumerForgetsNothing DEF NoTwins, NoneYet
<1>2. ASSUME NEW h \in Handlers, Handle(h)
      PROVE  NoTwins' /\ NoneYet'
  <2>0. TypeOK /\ owner \in [OrderId -> Users \cup {NoUser}]
    BY DEF IndInv, TypeOK, TablesOK
  <2>1. \A g \in Handlers \ {h} : pc'[g] = pc[g] /\ user'[g] = user[g]
    BY <1>2, <2>0, OthersRemember
  <2>2. pc'[h] \in {"insert", "create"} =>
           user'[h] = user[h] /\ OrdersOf(user[h]) = {}
    BY <1>2, FoundNone
  <2>3. CASE owner' = owner
    <3>1. NoTwins'
      BY <2>3 DEF NoTwins
    <3>2. NoneYet'
      BY <2>1, <2>2, <2>3 DEF NoneYet
    <3> QED
      BY <3>1, <3>2
  <2>4. CASE CommitOrder(h)
    <3>1. /\ pc[h] = "create" /\ pc'[h] = "idle"
          /\ owner' = [owner EXCEPT ![target[h]] = user[h]]
          /\ user[h] \in Users /\ user[h] # NoUser /\ target[h] \in OrderId
      BY <2>0, <2>4, FinishSelf, RowsAssumption
         DEF CommitOrder, IndInv, RequestsFilled, TypeOK, RequestsOK
    <3>2. \A o \in OrderId : owner[o] # user[h]
      BY <3>1 DEF NoneYet
    <3>3. NoTwins'
      BY <2>0, <3>1, <3>2 DEF NoTwins
    <3>4. ASSUME NEW g \in Handlers, pc'[g] \in {"insert", "create"}
          PROVE  \A o \in OrderId : owner'[o] # user'[g]
      <4>1. g # h /\ pc[g] \in {"insert", "create"} /\ user'[g] = user[g]
        BY <2>1, <3>1, <3>4
      <4>2. user[g] # user[h]
        BY <3>1, <4>1 DEF OneRequestPerUser
      <4>3. \A o \in OrderId : owner[o] # user[g]
        BY <4>1 DEF NoneYet
      <4> QED
        BY <2>0, <3>1, <4>1, <4>2, <4>3
    <3>5. NoneYet'
      BY <3>4 DEF NoneYet
    <3> QED
      BY <3>3, <3>5
  <2>5. CASE CommitDelete(h)
    <3>1. /\ pc'[h] = "idle" /\ owner' = [owner EXCEPT ![target[h]] = NoUser]
          /\ target[h] \in OrderId
      BY <2>0, <2>5, FinishSelf DEF CommitDelete, TypeOK, RequestsOK
    <3>2. NoTwins'
      BY <2>0, <3>1 DEF NoTwins
    <3>3. ASSUME NEW g \in Handlers, pc'[g] \in {"insert", "create"}
          PROVE  \A o \in OrderId : owner'[o] # user'[g]
      <4>1. g # h /\ pc[g] \in {"insert", "create"} /\ user'[g] = user[g]
        BY <2>1, <3>1, <3>3
      <4>2. user[g] # NoUser /\ \A o \in OrderId : owner[o] # user[g]
        BY <4>1, RowsAssumption DEF NoneYet, IndInv, RequestsFilled
      <4> QED
        BY <2>0, <3>1, <4>1, <4>2
    <3>4. NoneYet'
      BY <3>3 DEF NoneYet
    <3> QED
      BY <3>2, <3>4
  <2>6. CASE CommitMerge(h)
    <3>1. owner' = owner
      BY <2>6 DEF CommitMerge, tables
    <3> QED
      BY <2>3, <3>1
  <2> QED
    BY <1>2, <2>3, <2>4, <2>5, <2>6, OnlyCommitsWrite
<1> QED
  BY <1>1, <1>2

\* A user gets a second order only if two of his requests are under way at the
\* same time: no failure, no deletion and no other user brings it about.
THEOREM OneOrderIfSerialHolds == Spec => OneOrderIfSerial
<1>1. Init => NoTwins /\ NoneYet
  BY DEF Init, NoTwins, NoneYet, IsOrder
<1> QED
  BY <1>1, SerialNext, NoTwinsCount, IndInvHolds, PTL DEF Spec, OneOrderIfSerial

----------------------------------------------------------------------------
(* Marked in all orders                                                    *)

\* The marking has every order that holds its product, or has it still to do.
NoneLeftOut ==
    marking # NoItem =>
       \A o \in OrderId : amount[o][marking] > 0 =>
          o \in markTodo \/ itemLock[o][marking] = Consumer

\* What it has when its loop is over is all of them.
LEMMA NothingToDo == IndInv /\ NoneLeftOut => MarkingComplete
<1> SUFFICES ASSUME IndInv, NoneLeftOut, marking # NoItem, markCur = 0,
                    NEW o \in OrderId, amount[o][marking] > 0
             PROVE  itemLock[o][marking] = Consumer
  BY DEF MarkingComplete
<1>1. markTodo \subseteq OrderId /\ 0 \notin OrderId
  BY DEF IndInv, TypeOK, ConsumerOK, OrderId
<1>2. markTodo = {}
  BY <1>1 DEF IndInv, Loops
<1> QED
  BY <1>2 DEF NoneLeftOut

\* A request takes no row from the consumer.
LEMMA RowsKept ==
    ASSUME IndInv, NEW h \in Handlers, Handle(h),
           NEW o \in OrderId, NEW p \in Products, itemLock[o][p] = Consumer
    PROVE  itemLock'[o][p] = Consumer
<1> USE DEF IndInv, TypeOK, LocksOK, locks
<1>1. CASE ReleaseLocks(h)
  BY <1>1, AgentsAssumption DEF ReleaseLocks
<1>2. CASE UNCHANGED itemLock
  BY <1>2
<1>3. CASE UpsertItem(h) \/ CascadeItem(h)
  <2>1. /\ itemLock[target[h]][cur[h]] = Nobody
        /\ itemLock' = [itemLock EXCEPT ![target[h]][cur[h]] = h]
    BY <1>3 DEF UpsertItem, CascadeItem
  <2>2. ~(o = target[h] /\ p = cur[h])
    BY <2>1, AgentsAssumption
  <2> QED
    BY <2>1, <2>2
<1> QED
  BY <1>1, <1>2, <1>3
     DEF Handle, Progress, CreateRequest, FetchProducts, FindOrderIDByUser,
         InsertOrder, CommitOrder, LockOrder, CommitMerge, LoseMerge,
         DeleteRequest, LockDeleted, CommitDelete, RefusedRequest,
         FailedRequest, Abort

\* A request brings no more of a product into an order than it was offered.
LEMMA OnlyOffered ==
    ASSUME IndInv, NEW h \in Handlers, Handle(h),
           NEW o \in OrderId, NEW p \in Products \ found[h], amount'[o][p] > 0
    PROVE  amount[o][p] > 0
<1> USE DEF IndInv, TypeOK, TablesOK
<1>0. amount \in [OrderId -> [Products -> 0 .. Int32Max]]
  OBVIOUS
<1>1. CASE UNCHANGED amount
  BY <1>1
<1>2. CASE CommitOrder(h)
  BY <1>0, <1>2 DEF CommitOrder
<1>3. CASE CommitDelete(h)
  BY <1>0, <1>3 DEF CommitDelete, Unset
<1>4. CASE CommitMerge(h)
  <2>1. CASE UNCHANGED tables
    BY <1>1, <2>1 DEF tables
  <2>2. CASE amount' = [amount EXCEPT ![target[h]] = [q \in Products |->
                  IF q \in found[h] THEN draftAmount[h][q]
                                    ELSE amount[target[h]][q]]]
    BY <1>0, <2>2
  <2> QED
    BY <1>4, <2>1, <2>2 DEF CommitMerge
<1> QED
  BY <1>1, <1>2, <1>3, <1>4, OnlyCommitsWrite

\* As long as no request that was offered the product is under way, the marking
\* leaves no order out.
LEMMA QuietNext ==
    IndInv /\ QuietMarking /\ NoneLeftOut /\ [Next]_vars => NoneLeftOut'
<1> SUFFICES ASSUME IndInv, QuietMarking, NoneLeftOut, [Next]_vars,
                    marking' # NoItem, NEW o \in OrderId,
                    amount'[o][marking'] > 0
             PROVE  o \in markTodo' \/ itemLock'[o][marking'] = Consumer
  BY DEF NoneLeftOut
<1>0. TypeOK
  BY DEF IndInv
<1>1. ASSUME NEW h \in Handlers, Handle(h)
      PROVE  o \in markTodo' \/ itemLock'[o][marking'] = Consumer
  <2>1. UNCHANGED <<marking, markTodo>>
    BY <1>1 DEF Handle, Progress, CreateRequest, FetchProducts,
       FindOrderIDByUser, InsertOrder, CommitOrder, LockOrder, UpsertItem,
       CommitMerge, LoseMerge, DeleteRequest, LockDeleted, CascadeItem,
       CommitDelete, RefusedRequest, FailedRequest, Abort, consumer
  <2>2. marking \in Products \ found[h]
    BY <1>0, <2>1 DEF QuietMarking, TypeOK, ConsumerOK
  <2>3. amount[o][marking] > 0
    BY <1>1, <2>1, <2>2, OnlyOffered
  <2>4. o \in markTodo \/ itemLock[o][marking] = Consumer
    BY <2>1, <2>3 DEF NoneLeftOut
  <2> QED
    BY <1>1, <2>1, <2>2, <2>4, RowsKept
<1>2. ASSUME NEW p \in Products, StartMark(p)
      PROVE  o \in markTodo'
  BY <1>2 DEF StartMark, NextRow, tables
<1>3. CASE MarkRow
  <2>1. /\ marking' = marking /\ amount' = amount
        /\ markTodo' = markTodo \ {markCur}
        /\ amount[markCur][marking] # 0 =>
              itemLock' = [itemLock EXCEPT ![markCur][marking] = Consumer]
        /\ itemLock' \in {itemLock,
              [itemLock EXCEPT ![markCur][marking] = Consumer]}
    BY <1>3 DEF MarkRow, NextRow, tables
  <2>2. marking \in Products /\ itemLock \in [OrderId -> [Products -> Agents \cup {Nobody}]]
    BY <1>0, <2>1 DEF TypeOK, ConsumerOK, LocksOK
  <2>3. CASE o = markCur
    BY <2>1, <2>2, <2>3
  <2>4. CASE o # markCur
    <3>1. o \in markTodo \/ itemLock[o][marking] = Consumer
      BY <2>1 DEF NoneLeftOut
    <3> QED
      BY <2>1, <2>2, <2>4, <3>1
  <2> QED
    BY <2>3, <2>4
<1>4. ~(CommitMark \/ FailMark)
  BY DEF CommitMark, FailMark, EndMark
<1>5. ASSUME UNCHANGED vars
      PROVE  o \in markTodo' \/ itemLock'[o][marking'] = Consumer
  BY <1>5 DEF vars, tables, locks, consumer, NoneLeftOut
<1> QED
  BY <1>1, <1>2, <1>3, <1>4, <1>5 DEF Next, MarkProgress

\* The marking waits for everybody who holds one of its rows, and passes none
\* over.
THEOREM CompleteIfQuietHolds == Spec => CompleteIfQuiet
<1>1. Init => NoneLeftOut
  BY DEF Init, NoneLeftOut
<1> QED
  BY <1>1, QuietNext, NothingToDo, IndInvHolds, PTL DEF Spec, CompleteIfQuiet

\* So a product is marked in all orders, as the source says, unless a request
\* that was offered it before its deletion is still under way.
THEOREM MarkedInAllIfQuiet == Spec => ([]QuietMarking => MarkedInAllOrders)
<1> DEFINE Marked == \A p \in Products, o \in OrderId :
              (CommitMark /\ p = marking /\ amount[o][p] > 0) => ~exists'[o][p]
<1>1. MarkingComplete => Marked
  <2> SUFFICES ASSUME MarkingComplete, CommitMark, NEW o \in OrderId,
                      marking \in Products, amount[o][marking] > 0
               PROVE  ~exists'[o][marking]
    OBVIOUS
  <2>1. itemLock[o][marking] = Consumer
    BY DEF CommitMark, MarkingComplete
  <2>2. exists'[o][marking] = (exists[o][marking] /\ itemLock[o][marking] # Consumer)
    BY Zenon DEF CommitMark
  <2> QED
    BY <2>1, <2>2
<1> HIDE DEF Marked
<1>2. MarkingComplete /\ [Next]_vars => [Marked]_vars
  BY <1>1
<1>3. Spec => ([]QuietMarking => [][Marked]_vars)
  BY <1>2, CompleteIfQuietHolds, PTL DEF Spec, CompleteIfQuiet
<1> QED
  BY <1>3 DEF MarkedInAllOrders, Marked

----------------------------------------------------------------------------
(* Merged when reported                                                    *)

\* No order is deleted while a request is merged into it.
DeletedApart ==
    \A g, h \in Handlers :
       (pc[g] \in {"delete", "cascade"} /\ pc[h] \in {"lock", "upsert"}) =>
          target[g] # target[h]

\* A merge still finds the order it has chosen.
StillThere ==
    \A h \in Handlers : pc[h] \in {"lock", "upsert"} => IsOrder(target[h])

\* A merge whose commit does not fail adds something of every product it was
\* offered before it is reported.
MergedUnlessLost ==
    [][\A h \in Handlers :
          (/\ pc[h] = "upsert" /\ pc'[h] = "idle" /\ reply'[h] = "ok"
           /\ ~LoseMerge(h)) =>
             \A p \in found[h] :
                amount'[target[h]][p] > amount[target[h]][p]]_vars

\* A request that goes on to merge has an order, or had it already.
LEMMA OrderChosen ==
    ASSUME IndInv, NEW h \in Handlers, Handle(h), StillThere,
           pc'[h] \in {"lock", "upsert"}
    PROVE  target'[h] \in OrderId /\ IsOrder(target'[h]) /\ owner' = owner
<1> USE DEF IndInv, TypeOK, RequestsOK, IsOrder
<1>1. CASE FindOrderIDByUser(h)
  <2>1. pc[h] = "find" /\ pc'[h] = "lock" /\ owner' = owner
    BY <1>1 DEF FindOrderIDByUser, tables
  <2>2. target'[h] \in OrdersOf(user[h]) /\ user[h] \in Users
    BY <1>1, <2>1 DEF FindOrderIDByUser, RequestsFilled
  <2> QED
    BY <2>1, <2>2, RowsAssumption DEF OrdersOf
<1>2. CASE LockOrder(h) \/ UpsertItem(h)
  <2>1. pc[h] \in {"lock", "upsert"} /\ UNCHANGED <<target, owner>>
    BY <1>2 DEF LockOrder, UpsertItem, tables
  <2> QED
    BY <2>1 DEF StillThere
<1>3. ASSUME NEW r, Finish(h, r)
      PROVE  FALSE
  BY <1>3, FinishSelf
<1>4. ~(CommitOrder(h) \/ CommitMerge(h) \/ LoseMerge(h) \/ CommitDelete(h)
        \/ Abort(h))
  BY <1>3 DEF CommitOrder, CommitMerge, LoseMerge, CommitDelete, Abort
<1>5. ~(CascadeItem(h) \/ LockDeleted(h) \/ InsertOrder(h))
  BY <1>3 DEF CascadeItem, LockDeleted, InsertOrder
<1> QED
  BY <1>1, <1>2, <1>4, <1>5 DEF Handle, Progress, CreateRequest, FetchProducts,
     DeleteRequest, RefusedRequest, FailedRequest

\* Only a deletion of that very order can take it away.
LEMMA ApartNext ==
    IndInv /\ DeletedApart /\ StillThere /\ [Next]_vars => StillThere'
<1> SUFFICES ASSUME IndInv, DeletedApart, StillThere, [Next]_vars,
                    NEW g \in Handlers, pc'[g] \in {"lock", "upsert"}
             PROVE  owner'[target'[g]] # NoUser
  BY DEF StillThere, IsOrder
<1>0. TypeOK /\ owner \in [OrderId -> Users \cup {NoUser}]
  BY DEF IndInv, TypeOK, TablesOK
<1>1. CASE \A h \in Handlers : ~Handle(h)
  BY <1>1, ConsumerForgetsNothing DEF StillThere, IsOrder
<1>2. CASE Handle(g)
  BY <1>2, OrderChosen DEF IsOrder
<1>3. ASSUME NEW h \in Handlers \ {g}, Handle(h)
      PROVE  owner'[target'[g]] # NoUser
  <2>1. pc'[g] = pc[g] /\ target'[g] = target[g]
    BY <1>0, <1>3, OthersRemember
  <2>2. owner[target[g]] # NoUser /\ target[g] \in OrderId
    BY <1>0, <2>1 DEF StillThere, IsOrder, TypeOK, RequestsOK
  <2>3. CASE CommitOrder(h)
    <3>1. user[h] \in Users /\ owner' = [owner EXCEPT ![target[h]] = user[h]]
      BY <2>3 DEF CommitOrder, IndInv, RequestsFilled
    <3> QED
      BY <1>0, <2>1, <2>2, <3>1, RowsAssumption
  <2>4. CASE CommitDelete(h)
    <3>1. pc[h] = "cascade" /\ owner' = [owner EXCEPT ![target[h]] = NoUser]
      BY <2>4 DEF CommitDelete
    <3>2. target[h] # target[g]
      BY <2>1, <3>1 DEF DeletedApart
    <3> QED
      BY <1>0, <2>1, <2>2, <3>1, <3>2
  <2>5. CASE owner' = owner
    BY <2>1, <2>2, <2>5
  <2> QED
    BY <1>3, <2>3, <2>4, <2>5, OnlyCommitsWrite DEF CommitMerge, tables
<1> QED
  BY <1>1, <1>2, <1>3

\* The step that reports a merge is its commit, or the loss of it.
LEMMA ReportedMerge ==
    ASSUME IndInv, [Next]_vars, NEW h \in Handlers,
           pc[h] = "upsert", pc'[h] = "idle", reply'[h] = "ok"
    PROVE  CommitMerge(h) \/ LoseMerge(h)
<1> USE DEF IndInv, TypeOK, RequestsOK
<1>1. Handle(h)
  <2>1. CASE \A g \in Handlers : ~Handle(g)
    BY <2>1, ConsumerForgetsNothing
  <2>2. ASSUME NEW g \in Handlers, Handle(g), g # h
        PROVE  FALSE
    BY <2>2, OthersRemember
  <2> QED
    BY <2>1, <2>2
<1>2. ~Abort(h)
  BY DEF Abort, Finish
<1>3. ~UpsertItem(h)
  BY DEF UpsertItem
<1> QED
  BY <1>1, <1>2, <1>3 DEF Handle, Progress, CreateRequest, FetchProducts,
     FindOrderIDByUser, InsertOrder, CommitOrder, LockOrder, DeleteRequest,
     LockDeleted, CascadeItem, CommitDelete, RefusedRequest, FailedRequest

\* The commit of a merge adds to every item of it.
LEMMA MergeAdds ==
    ASSUME IndInv, NEW h \in Handlers, CommitMerge(h), IsOrder(target[h]),
           NEW p \in found[h]
    PROVE  amount'[target[h]][p] > amount[target[h]][p]
<1>1. /\ target[h] \in OrderId /\ p \in Products
      /\ amount \in [OrderId -> [Products -> 0 .. Int32Max]]
      /\ todo[h] \in SUBSET Products
  BY DEF IndInv, TypeOK, RequestsOK, TablesOK, LoopsOK, CommitMerge
<1>2. pc[h] = "upsert" /\ cur[h] = NoItem /\ orderLock[target[h]] = h
  BY DEF CommitMerge, IndInv, OrderRows
<1>3. todo[h] = {}
  BY <1>1, <1>2, RowsAssumption DEF IndInv, Loops
<1>4. /\ draftAmount[h][p] = amount[target[h]][p] + ToInt32(qty[h][p])
      /\ ToInt32(qty[h][p]) > 0
  BY <1>2, <1>3 DEF IndInv, MergeDrafts, MergedAmount
<1>5. amount'[target[h]][p] = draftAmount[h][p]
  BY <1>1, <1>2 DEF CommitMerge
<1>6. amount[target[h]][p] \in Int /\ ToInt32(qty[h][p]) \in Int
  <2>1. qty[h][p] \in Nat
    BY <1>1, QuantitiesNat DEF IndInv, TypeOK, RequestsOK
  <2> QED
    BY <1>1, <2>1, NumbersAssumption DEF ToInt32
<1> QED
  BY <1>4, <1>5, <1>6

\* So what is reported as merged has been merged, with all its items, unless
\* the commit failed or the order was deleted meanwhile.
THEOREM MergedUnlessLostHolds == Spec => ([]DeletedApart => MergedUnlessLost)
<1> DEFINE Merged == \A h \in Handlers :
          (/\ pc[h] = "upsert" /\ pc'[h] = "idle" /\ reply'[h] = "ok"
           /\ ~LoseMerge(h)) =>
             \A p \in found[h] : amount'[target[h]][p] > amount[target[h]][p]
<1>1. Init => StillThere
  BY DEF Init, StillThere
<1>2. IndInv /\ StillThere /\ [Next]_vars => [Merged]_vars
  BY ReportedMerge, MergeAdds DEF StillThere
<1> HIDE DEF Merged
<1>3. Spec => ([]DeletedApart => [][Merged]_vars)
  BY <1>1, <1>2, ApartNext, IndInvHolds, PTL DEF Spec
<1> QED
  BY <1>3 DEF MergedUnlessLost, Merged

----------------------------------------------------------------------------
(* Nothing goes on for ever                                                *)

\* How much a loop may have to do.
LEMMA Counts ==
    ASSUME TypeOK
    PROVE  /\ Cardinality(Products) \in Nat
           /\ \A S \in SUBSET Products :
                 Cardinality(S) \in Nat /\ Cardinality(S) <= Cardinality(Products)
           /\ \A S \in SUBSET Products : \A p \in S : Cardinality(S \ {p}) < Cardinality(S)
           /\ \A O \in SUBSET OrderId : \A o \in O : Cardinality(O \ {o}) < Cardinality(O)
<1>1. IsFiniteSet(Products)
  BY RowsAssumption
<1>2. IsFiniteSet(OrderId)
  BY NumbersAssumption, FS_Interval DEF OrderId
<1>3. ASSUME NEW T, IsFiniteSet(T)
      PROVE  \A S \in SUBSET T : \A x \in S : Cardinality(S \ {x}) < Cardinality(S)
  <2> SUFFICES ASSUME NEW S \in SUBSET T, NEW x \in S
               PROVE  Cardinality(S \ {x}) < Cardinality(S)
    OBVIOUS
  <2>1. IsFiniteSet(S)
    BY <1>3, FS_Subset
  <2>2. Cardinality(S) \in Nat /\ Cardinality(S \ {x}) = Cardinality(S) - 1
    BY <2>1, FS_CardinalityType, FS_RemoveElement
  <2> QED
    BY <2>2
<1>4. \A S \in SUBSET Products :
         Cardinality(S) \in Nat /\ Cardinality(S) <= Cardinality(Products)
  BY <1>1, FS_Subset, FS_CardinalityType
<1>5. Cardinality(Products) \in Nat
  BY <1>1, FS_CardinalityType
<1> QED
  BY <1>1, <1>2, <1>3, <1>4, <1>5

\* A step of a request is one of at most so many.
LEMMA OwnStepCounts ==
    ASSUME IndInv, NEW h \in Handlers, pc[h] # "idle", Handle(h)
    PROVE  StepsLeft(h)' < StepsLeft(h)
<1> DEFINE N == Cardinality(Products)
           T == Cardinality(todo[h])
           T1 == Cardinality(todo'[h])
<1>0. TypeOK /\ Loops
  BY DEF IndInv
<1>1. /\ N \in Nat
      /\ todo[h] \in SUBSET Products /\ T \in Nat /\ T <= N
      /\ \A p \in todo[h] : Cardinality(todo[h] \ {p}) < T
  BY <1>0, Counts DEF TypeOK, LoopsOK
<1>2. /\ pc \in [Handlers -> {"idle", "fetch", "find", "insert", "create",
                              "lock", "upsert", "delete", "cascade"}]
      /\ todo \in [Handlers -> SUBSET Products]
  BY <1>0 DEF TypeOK, RequestsOK, LoopsOK
<1>3. StepsLeft(h)' = CASE pc'[h] = "idle" -> 0
                        [] pc'[h] = "create" -> 1
                        [] pc'[h] = "insert" -> 2
                        [] pc'[h] \in {"upsert", "cascade"} -> 1 + T1
                        [] pc'[h] \in {"lock", "delete"} -> 2 + N
                        [] pc'[h] = "find" -> 3 + N
                        [] pc'[h] = "fetch" -> 4 + N
  BY DEF StepsLeft
<1>4. StepsLeft(h) \in Nat \ {0}
  BY <1>1, <1>2 DEF StepsLeft
<1> HIDE DEF N, T, T1
<1>5. ASSUME pc'[h] = "idle"
      PROVE  StepsLeft(h)' < StepsLeft(h)
  BY <1>3, <1>4, <1>5
<1>6. ASSUME NEW S \in SUBSET Products, FetchProducts(h, S)
      PROVE  StepsLeft(h)' < StepsLeft(h)
  BY <1>1, <1>2, <1>3, <1>6 DEF FetchProducts, StepsLeft, N
<1>7. CASE FindOrderIDByUser(h)
  BY <1>1, <1>2, <1>3, <1>7 DEF FindOrderIDByUser, StepsLeft, N
<1>8. CASE InsertOrder(h)
  BY <1>1, <1>2, <1>3, <1>8 DEF InsertOrder, StepsLeft
<1>9. ASSUME NEW S \in SUBSET Products, NextItem(h, S),
             pc[h] \in {"lock", "delete"},
             pc'[h] \in {"upsert", "cascade"}
      PROVE  StepsLeft(h)' < StepsLeft(h)
  <2>1. todo'[h] = S
    BY <1>2, <1>9 DEF NextItem
  <2>2. T1 \in Nat /\ T1 <= N
    BY <1>0, <2>1, Counts DEF T1, N
  <2>3. StepsLeft(h) = 2 + N
    BY <1>9 DEF StepsLeft, N
  <2>4. StepsLeft(h)' = 1 + T1
    BY <1>3, <1>9
  <2> QED
    BY <1>1, <2>2, <2>3, <2>4
<1>10. ASSUME NextItem(h, todo[h] \ {cur[h]}), cur[h] # NoItem,
              pc[h] \in {"upsert", "cascade"}, pc'[h] = pc[h]
       PROVE  StepsLeft(h)' < StepsLeft(h)
  <2>1. cur[h] \in todo[h]
    BY <1>0, <1>10 DEF Loops
  <2>2. todo'[h] = todo[h] \ {cur[h]}
    BY <1>2, <1>10 DEF NextItem
  <2>3. T1 \in Nat /\ T1 < T
    <3>1. T1 < T
      BY <1>1, <2>1, <2>2 DEF T1
    <3>2. todo'[h] \in SUBSET Products
      BY <1>1, <2>2
    <3> QED
      BY <1>0, <3>1, <3>2, Counts DEF T1
  <2>4. StepsLeft(h) = 1 + T
    BY <1>10 DEF StepsLeft, T
  <2>5. StepsLeft(h)' = 1 + T1
    BY <1>3, <1>10
  <2> QED
    BY <1>1, <2>3, <2>4, <2>5
<1>11. CASE LockOrder(h)
  <2>1. found[h] \in SUBSET Products /\ pc'[h] = "upsert"
    BY <1>0, <1>2, <1>11 DEF LockOrder, TypeOK, RequestsOK
  <2> QED
    BY <1>9, <1>11, <2>1 DEF LockOrder
<1>12. CASE LockDeleted(h)
  <2>1. CASE Finish(h, "error")
    BY <1>2, <1>5, <2>1 DEF Finish
  <2>2. CASE /\ NextItem(h, {p \in Products : amount[target[h]][p] > 0})
             /\ pc' = [pc EXCEPT ![h] = "cascade"]
    <3>1. pc'[h] = "cascade"
      BY <1>2, <2>2
    <3> QED
      BY <1>9, <1>12, <2>2, <3>1 DEF LockDeleted
  <2> QED
    BY <1>12, <2>1, <2>2 DEF LockDeleted
<1>13. CASE UpsertItem(h)
  BY <1>10, <1>13 DEF UpsertItem
<1>14. CASE CascadeItem(h)
  BY <1>10, <1>14 DEF CascadeItem
<1>15. ASSUME NEW r, Finish(h, r)
       PROVE  StepsLeft(h)' < StepsLeft(h)
  BY <1>2, <1>5, <1>15 DEF Finish
<1> QED
  BY <1>6, <1>7, <1>8, <1>11, <1>12, <1>13, <1>14, <1>15
     DEF Handle, Progress, CreateRequest, DeleteRequest, CommitOrder,
         CommitMerge, LoseMerge, CommitDelete, RefusedRequest, FailedRequest,
         Abort

\* No request gives a marking more rows, or takes any from it.
LEMMA RequestsLeaveMarking ==
    ASSUME NEW h \in Handlers, Handle(h)
    PROVE  UNCHANGED consumer
BY DEF Handle, Progress, CreateRequest, FetchProducts, FindOrderIDByUser,
       InsertOrder, CommitOrder, LockOrder, UpsertItem, CommitMerge, LoseMerge,
       DeleteRequest, LockDeleted, CascadeItem, CommitDelete, RefusedRequest,
       FailedRequest, Abort

\* A marking goes on to the next of its rows, or ends.
LEMMA MarkingCounts ==
    ASSUME IndInv, [Next]_vars, marking # NoItem
    PROVE  \/ marking' = NoItem
           \/ /\ marking' = marking
              /\ \/ UNCHANGED <<markTodo, markCur>>
                 \/ Cardinality(markTodo') < Cardinality(markTodo)
<1>1. CASE MarkRow
  <2>1. markTodo \in SUBSET OrderId /\ markCur \in markTodo
    BY <1>1 DEF MarkRow, IndInv, TypeOK, ConsumerOK, Loops
  <2>2. Cardinality(markTodo \ {markCur}) < Cardinality(markTodo)
    BY <2>1, Counts DEF IndInv
  <2> QED
    BY <1>1, <2>2 DEF MarkRow, NextRow
<1>2. CASE CommitMark \/ FailMark
  BY <1>2 DEF CommitMark, FailMark, EndMark
<1>3. CASE UNCHANGED consumer
  BY <1>3 DEF consumer
<1>4. ASSUME NEW h \in Handlers, Handle(h)
      PROVE  UNCHANGED consumer
  BY <1>4, RequestsLeaveMarking
<1>5. ASSUME NEW p \in Products, StartMark(p)
      PROVE  FALSE
  BY <1>5 DEF StartMark
<1> QED
  BY <1>1, <1>2, <1>3, <1>4, <1>5 DEF Next, MarkProgress, vars

\* Each step of a request is one of finitely many, whatever the others do, and
\* so is each row of a marking: with NoLockCycle this is why every request is
\* answered once the locks are granted in turn.
THEOREM StepsRunOutHolds == Spec => StepsRunOut
<1>1. ASSUME IndInv, [Next]_vars, NEW g \in Handlers, pc[g] # "idle"
      PROVE  Remembered(g)' = Remembered(g) \/ StepsLeft(g)' < StepsLeft(g)
  <2>1. CASE Handle(g)
    BY <1>1, <2>1, OwnStepCounts
  <2>2. ASSUME NEW h \in Handlers, h # g, Handle(h)
        PROVE  Remembered(g)' = Remembered(g)
    <3>1. g \in Handlers \ {h} /\ TypeOK
      BY <1>1, <2>2 DEF IndInv
    <3> QED
      BY <2>2, <3>1, OthersRemember DEF Remembered
  <2>3. CASE \A h \in Handlers : ~Handle(h)
    BY <1>1, <2>3, ConsumerForgetsNothing DEF Remembered
  <2> QED
    BY <2>1, <2>2, <2>3
<1>2. IndInv /\ [Next]_vars =>
        [/\ \A h \in Handlers : pc[h] # "idle" =>
               \/ Remembered(h)' = Remembered(h)
               \/ StepsLeft(h)' < StepsLeft(h)
         /\ marking # NoItem =>
               \/ marking' = NoItem
               \/ /\ marking' = marking
                  /\ \/ UNCHANGED <<markTodo, markCur>>
                     \/ Cardinality(markTodo') < Cardinality(markTodo)]_vars
  BY <1>1, MarkingCounts
<1> QED
  BY <1>2, IndInvHolds, PTL DEF Spec, StepsRunOut
===============================================================================
