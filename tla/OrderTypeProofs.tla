---------------------------- MODULE OrderTypeProofs ----------------------------
(* Proofs about OrderService, for any number of handlers, users, products   *)
(* and orders.                                                              *)
EXTENDS OrderService, FiniteSetTheorems, TLAPS

USE AgentsAssumption, RowsAssumption, NumbersAssumption

\* The quantity of a position, or of none, is a natural number.
LEMMA QuantitiesNat == \A n \in Quantities \cup {0} : n \in Nat
BY NumbersAssumption

\* The conversion to int32 never exceeds the largest int32.
LEMMA ToInt32Bound ==
    ASSUME NEW n \in Nat
    PROVE  ToInt32(n) \in Int /\ ToInt32(n) <= Int32Max
<1> DEFINE w == 2 * (Int32Max + 1)
           k == n + Int32Max + 1
<1>1. w \in Nat \ {0} /\ k \in Nat
  OBVIOUS
<1>2. k % w \in 0 .. w - 1
  <2> HIDE DEF w, k
  <2> QED  BY <1>1
<1>3. ToInt32(n) = (k % w) - (Int32Max + 1)
  BY DEF ToInt32
<1> QED
  BY <1>1, <1>2, <1>3

\* The delivery time of a request is a natural number.
LEMMA DeliveryNat ==
    ASSUME NEW q
    PROVE  /\ Cardinality(Positions(q)) \in Nat
           /\ calculateDeliveryTimeHours(Cardinality(Positions(q))) \in Nat
<1>1. IsFiniteSet(Positions(q))
  BY FS_Subset DEF Positions
<1>2. Cardinality(Positions(q)) \in Nat
  BY <1>1, FS_CardinalityType
<1> QED
  BY <1>2 DEF calculateDeliveryTimeHours

\* The types are right at the start.
LEMMA InitTypeOK == Init => TypeOK
BY DEF Init, TypeOK, TablesOK, LocksOK, RequestsOK, LoopsOK, DraftsOK,
       ConsumerOK, OrderId, Unset, AllExist, Agents

(* The pieces of a step keep the types of what they assign.                *)

\* The end of a request keeps the types of what it resets.
LEMMA FinishTypeOK ==
    ASSUME TypeOK, NEW h \in Handlers, NEW r \in {"ok", "error"}, Finish(h, r)
    PROVE  RequestsOK' /\ LoopsOK' /\ DraftsOK'
<1> USE DEF TypeOK, Finish, Unset, AllExist
<1>1. RequestsOK'
  BY DEF RequestsOK
<1>2. LoopsOK'
  BY DEF LoopsOK
<1>3. DraftsOK'
  BY DEF DraftsOK
<1> QED
  BY <1>1, <1>2, <1>3

\* The end of a transaction keeps the types of the locks.
LEMMA ReleaseTypeOK ==
    ASSUME TypeOK, NEW a \in Agents, ReleaseLocks(a)
    PROVE  LocksOK'
BY DEF TypeOK, LocksOK, ReleaseLocks, Agents

\* A step of a loop keeps the types of the loops.
LEMMA LoopTypeOK ==
    ASSUME TypeOK, NEW h \in Handlers, NEW S \in SUBSET Products, NextItem(h, S)
    PROVE  LoopsOK'
BY DEF TypeOK, LoopsOK, NextItem

\* Every step keeps every type.
LEMMA NextTypeOK == TypeOK /\ [Next]_vars => TypeOK'
<1> SUFFICES ASSUME TypeOK, [Next]_vars PROVE TypeOK'
  OBVIOUS
<1> USE DEF TypeOK, tables, locks, request, draft, loop, consumer
<1>1. ASSUME NEW h \in Handlers, NEW u \in Users,
             NEW q \in [Products -> Quantities \cup {0}], CreateRequest(h, u, q)
      PROVE  TypeOK'
  BY <1>1 DEF CreateRequest, TablesOK, LocksOK, RequestsOK, LoopsOK, DraftsOK, ConsumerOK
<1>2. ASSUME NEW h \in Handlers, NEW S \in SUBSET Products, FetchProducts(h, S)
      PROVE  TypeOK'
  BY <1>2 DEF FetchProducts, Positions, TablesOK, LocksOK, RequestsOK, LoopsOK, DraftsOK, ConsumerOK
<1>3. ASSUME NEW h \in Handlers, FindOrderIDByUser(h)
      PROVE  TypeOK'
  <2>1. CASE pc' = [pc EXCEPT ![h] = "insert"] /\ UNCHANGED target
    BY <1>3, <2>1 DEF FindOrderIDByUser, TablesOK, LocksOK, RequestsOK, LoopsOK, DraftsOK, ConsumerOK
  <2>2. ASSUME NEW o \in OrdersOf(user[h]), pc' = [pc EXCEPT ![h] = "lock"],
               target' = [target EXCEPT ![h] = o]
        PROVE  TypeOK'
    <3>1. o \in OrderId
      BY DEF OrdersOf
    <3> QED
      BY <1>3, <2>2, <3>1 DEF FindOrderIDByUser, TablesOK, LocksOK, RequestsOK, LoopsOK, DraftsOK, ConsumerOK
  <2> QED
    BY <1>3, <2>1, <2>2 DEF FindOrderIDByUser
<1>4. ASSUME NEW h \in Handlers, InsertOrder(h)
      PROVE  TypeOK'
  <2>1. RequestsOK' /\ TablesOK'
    BY <1>4 DEF InsertOrder, OrderId, RequestsOK, TablesOK
  <2> QED
    BY <1>4, <2>1 DEF InsertOrder, LocksOK, LoopsOK, DraftsOK, ConsumerOK
<1>5. ASSUME NEW h \in Handlers, CommitOrder(h)
      PROVE  TypeOK'
  <2>1. PICK r \in {"ok", "error"} : Finish(h, r)
    BY <1>5 DEF CommitOrder
  <2>2. ASSUME NEW p \in found[h]
        PROVE  ToInt32(qty[h][p]) \in 0 .. Int32Max
    <3>1. qty[h][p] \in Nat
      <4>1. /\ found[h] \subseteq Products
            /\ qty[h] \in [Products -> Quantities \cup {0}]
        BY DEF RequestsOK
      <4>2. qty[h][p] \in Quantities \cup {0}
        BY <2>2, <4>1
      <4> QED
        BY <4>2, QuantitiesNat
    <3> QED
      BY <1>5, <2>2, <3>1, ToInt32Bound DEF CommitOrder
  <2>3. [p \in Products |-> IF p \in found[h] THEN ToInt32(qty[h][p]) ELSE 0]
          \in [Products -> 0 .. Int32Max]
    BY <2>2
  <2>4. amount' \in [OrderId -> [Products -> 0 .. Int32Max]]
    BY <1>5, <2>3 DEF CommitOrder, TablesOK
  <2>5. /\ owner' \in [OrderId -> Users \cup {NoUser}]
        /\ hours' \in [OrderId -> Nat]
    BY <1>5, DeliveryNat DEF CommitOrder, TablesOK, RequestsOK
  <2>6. exists' \in [OrderId -> [Products -> BOOLEAN]]
    BY <1>5 DEF CommitOrder, TablesOK, AllExist
  <2>7. TablesOK'
    BY <1>5, <2>4, <2>5, <2>6 DEF CommitOrder, TablesOK
  <2> QED
    BY <1>5, <2>1, <2>7, FinishTypeOK DEF CommitOrder, LocksOK, ConsumerOK
<1>6. ASSUME NEW h \in Handlers, LockOrder(h)
      PROVE  TypeOK'
  <2>1. LoopsOK'
    BY <1>6, LoopTypeOK DEF LockOrder, RequestsOK
  <2>2. Greatest(hours[target[h]],
          calculateDeliveryTimeHours(Cardinality(Positions(qty[h])))) \in Nat
    BY <1>6, DeliveryNat DEF LockOrder, Greatest, RequestsOK, TablesOK
  <2>3. DraftsOK'
    BY <1>6, <2>2 DEF LockOrder, DraftsOK
  <2>4. LocksOK'
    BY <1>6 DEF LockOrder, LocksOK, Agents
  <2>5. RequestsOK'
    BY <1>6 DEF LockOrder, RequestsOK
  <2> QED
    BY <1>6, <2>1, <2>3, <2>4, <2>5 DEF LockOrder, TablesOK, ConsumerOK
<1>7. ASSUME NEW h \in Handlers, UpsertItem(h)
      PROVE  TypeOK'
  <2> DEFINE o == target[h]
             p == cur[h]
             sum == MergedAmount(amount[o][p], ToInt32(qty[h][p]))
  <2>1. o \in OrderId /\ p \in Products
    BY <1>7 DEF UpsertItem, RequestsOK, LoopsOK
  <2>2. qty[h][p] \in Nat
    <3>1. qty[h] \in [Products -> Quantities \cup {0}]
      BY DEF RequestsOK
    <3>2. qty[h][p] \in Quantities \cup {0}
      BY <2>1, <3>1
    <3> QED
      BY <3>2, QuantitiesNat
  <2>3. sum \in 0 .. Int32Max
    <3>1. amount[o][p] \in Nat
      BY <2>1 DEF TablesOK
    <3> QED
      BY <1>7, <2>2, <3>1, ToInt32Bound DEF UpsertItem, MergedAmount
  <2>4. exists[o][p] \in BOOLEAN
    BY <2>1 DEF TablesOK
  <2>5. DraftsOK'
    <3> HIDE DEF o, p, sum
    <3>1. /\ draftAmount' = [draftAmount EXCEPT ![h][p] = sum]
          /\ draftExists' = [draftExists EXCEPT ![h][p] = exists[o][p]]
          /\ UNCHANGED draftHours
      BY <1>7 DEF UpsertItem, o, p, sum
    <3> QED
      BY <2>1, <2>3, <2>4, <3>1 DEF DraftsOK
  <2>6. LocksOK'
    BY <1>7, <2>1 DEF UpsertItem, LocksOK, Agents
  <2>7. LoopsOK'
    BY <1>7, LoopTypeOK DEF UpsertItem, LoopsOK
  <2> QED
    BY <1>7, <2>5, <2>6, <2>7 DEF UpsertItem, TablesOK, RequestsOK, ConsumerOK
<1>8. ASSUME NEW h \in Handlers, CommitMerge(h)
      PROVE  TypeOK'
  <2>1. PICK r \in {"ok", "error"} : Finish(h, r)
    BY <1>8 DEF CommitMerge
  <2>2. LocksOK'
    BY <1>8, ReleaseTypeOK DEF CommitMerge, Agents
  <2>3. TablesOK'
    <3>1. /\ target[h] \in OrderId
          /\ draftHours[h] \in Nat
          /\ draftAmount[h] \in [Products -> 0 .. Int32Max]
          /\ draftExists[h] \in [Products -> BOOLEAN]
      BY <1>8 DEF CommitMerge, RequestsOK, DraftsOK
    <3>2. /\ amount[target[h]] \in [Products -> 0 .. Int32Max]
          /\ exists[target[h]] \in [Products -> BOOLEAN]
      BY <3>1 DEF TablesOK
    <3> DEFINE a == [p \in Products |-> IF p \in found[h] THEN draftAmount[h][p]
                                                         ELSE amount[target[h]][p]]
               e == [p \in Products |-> IF p \in found[h] THEN draftExists[h][p]
                                                         ELSE exists[target[h]][p]]
    <3>3. a \in [Products -> 0 .. Int32Max] /\ e \in [Products -> BOOLEAN]
      BY <3>1, <3>2
    <3>4. UNCHANGED tables \/
            (/\ hours' = [hours EXCEPT ![target[h]] = draftHours[h]]
             /\ amount' = [amount EXCEPT ![target[h]] = a]
             /\ exists' = [exists EXCEPT ![target[h]] = e]
             /\ UNCHANGED owner)
      BY <1>8 DEF CommitMerge
    <3>5. UNCHANGED nextId
      BY <1>8 DEF CommitMerge
    <3> HIDE DEF a, e
    <3>6. CASE UNCHANGED tables
      BY <3>5, <3>6 DEF TablesOK
    <3>7. CASE /\ hours' = [hours EXCEPT ![target[h]] = draftHours[h]]
               /\ amount' = [amount EXCEPT ![target[h]] = a]
               /\ exists' = [exists EXCEPT ![target[h]] = e]
               /\ UNCHANGED owner
      BY <3>1, <3>3, <3>5, <3>7 DEF TablesOK
    <3> QED
      BY <3>4, <3>6, <3>7
  <2> QED
    BY <1>8, <2>1, <2>2, <2>3, FinishTypeOK DEF CommitMerge, ConsumerOK
<1>9. ASSUME NEW h \in Handlers, LoseMerge(h)
      PROVE  TypeOK'
  BY <1>9, FinishTypeOK, ReleaseTypeOK DEF LoseMerge, Agents, TablesOK, ConsumerOK
<1>10. ASSUME NEW h \in Handlers, NEW o \in OrderId, DeleteRequest(h, o)
       PROVE  TypeOK'
  BY <1>10 DEF DeleteRequest, TablesOK, LocksOK, RequestsOK, LoopsOK, DraftsOK, ConsumerOK
<1>11. ASSUME NEW h \in Handlers, LockDeleted(h)
       PROVE  TypeOK'
  <2>1. CASE Finish(h, "error") /\ UNCHANGED orderLock
    BY <1>11, <2>1, FinishTypeOK DEF LockDeleted, TablesOK, LocksOK, ConsumerOK
  <2>2. CASE ~(Finish(h, "error") /\ UNCHANGED orderLock)
    <3>1. LoopsOK'
      BY <1>11, <2>2, LoopTypeOK DEF LockDeleted
    <3>2. LocksOK'
      BY <1>11, <2>2 DEF LockDeleted, LocksOK, Agents
    <3>3. RequestsOK'
      BY <1>11, <2>2 DEF LockDeleted, RequestsOK
    <3> QED
      BY <1>11, <2>2, <3>1, <3>2, <3>3 DEF LockDeleted, TablesOK, DraftsOK, ConsumerOK
  <2> QED
    BY <2>1, <2>2
<1>12. ASSUME NEW h \in Handlers, CascadeItem(h)
       PROVE  TypeOK'
  <2>1. LoopsOK'
    BY <1>12, LoopTypeOK DEF CascadeItem, LoopsOK
  <2>2. LocksOK'
    BY <1>12 DEF CascadeItem, LocksOK, Agents
  <2> QED
    BY <1>12, <2>1, <2>2 DEF CascadeItem, TablesOK, RequestsOK, DraftsOK, ConsumerOK
<1>13. ASSUME NEW h \in Handlers, CommitDelete(h)
       PROVE  TypeOK'
  <2>1. PICK r \in {"ok", "error"} : Finish(h, r)
    BY <1>13 DEF CommitDelete
  <2>2. LocksOK'
    BY <1>13, ReleaseTypeOK DEF CommitDelete, Agents
  <2>3. TablesOK'
    <3>1. /\ owner' \in [OrderId -> Users \cup {NoUser}]
          /\ hours' \in [OrderId -> Nat]
      BY <1>13 DEF CommitDelete, TablesOK
    <3>2. Unset \in [Products -> 0 .. Int32Max] /\ AllExist \in [Products -> BOOLEAN]
      BY DEF Unset, AllExist
    <3>3. /\ amount' \in [OrderId -> [Products -> 0 .. Int32Max]]
          /\ exists' \in [OrderId -> [Products -> BOOLEAN]]
      BY <1>13, <3>2 DEF CommitDelete, TablesOK
    <3> QED
      BY <1>13, <3>1, <3>3 DEF CommitDelete, TablesOK
  <2> QED
    BY <1>13, <2>1, <2>2, <2>3, FinishTypeOK DEF CommitDelete, ConsumerOK
<1>14. ASSUME NEW h \in Handlers, Abort(h)
       PROVE  TypeOK'
  BY <1>14, FinishTypeOK, ReleaseTypeOK DEF Abort, Agents, TablesOK, ConsumerOK
<1>15. ASSUME NEW p \in Products, StartMark(p)
       PROVE  TypeOK'
  BY <1>15 DEF StartMark, NextRow, TablesOK, LocksOK, RequestsOK, LoopsOK, DraftsOK, ConsumerOK
<1>16. ASSUME MarkRow
       PROVE  TypeOK'
  BY <1>16 DEF MarkRow, NextRow, Agents, TablesOK, LocksOK, RequestsOK, LoopsOK, DraftsOK, ConsumerOK
<1>17. ASSUME EndMark, exists' \in [OrderId -> [Products -> BOOLEAN]]
       PROVE  TypeOK'
  <2>1. LocksOK'
    BY <1>17, ReleaseTypeOK DEF EndMark, Agents
  <2> QED
    BY <1>17, <2>1 DEF EndMark, TablesOK, RequestsOK, LoopsOK, DraftsOK, ConsumerOK
<1>18. CASE UNCHANGED vars
  BY <1>18 DEF vars, TablesOK, LocksOK, RequestsOK, LoopsOK, DraftsOK, ConsumerOK
<1>19. CASE Next
  <2> USE <1>19
  <2>1. CASE CommitMark
    <3>1. exists' \in [OrderId -> [Products -> BOOLEAN]]
      BY <2>1 DEF CommitMark, TablesOK
    <3> QED
      BY <1>17, <2>1, <3>1 DEF CommitMark
  <2>2. CASE FailMark
    BY <1>17, <2>2 DEF FailMark, TablesOK
  <2>3. CASE \E p \in Products : StartMark(p)
    BY <1>15, <2>3
  <2>4. CASE \E h \in Handlers : Handle(h)
    <3>1. PICK h \in Handlers : Handle(h)
      BY <2>4
    <3>2. CASE Progress(h)
      BY <1>2, <1>3, <1>4, <1>5, <1>6, <1>7, <1>8, <1>11, <1>12, <1>13, <1>14,
         <3>2 DEF Progress, RefusedRequest
    <3> QED
      BY <1>1, <1>9, <1>10, <1>14, <3>1, <3>2 DEF Handle, FailedRequest
  <2> QED
    BY <1>16, <2>1, <2>2, <2>3, <2>4 DEF Next, MarkProgress
<1> QED
  BY <1>18, <1>19

\* Every variable keeps its type, and every amount fits its column.
THEOREM TypeCorrect == Spec => []TypeOK
<1> QED
  BY InitTypeOK, NextTypeOK, PTL DEF Spec
===============================================================================
