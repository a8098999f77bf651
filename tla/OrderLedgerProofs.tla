--------------------------- MODULE OrderLedgerProofs ---------------------------
(***************************************************************************)
(* OrderService implements OrderLedger: every commit is one step of the    *)
(* ledger, and no other step is visible in the tables.                     *)
(***************************************************************************)
EXTENDS OrderLockProofs

USE AgentsAssumption, RowsAssumption, NumbersAssumption

\* The ledger knows how long what a request asks for takes.
LEMMA DeliveryKnown ==
    ASSUME NEW q
    PROVE  /\ Positions(q) \in SUBSET Products
           /\ HoursFor[Positions(q)] =
                calculateDeliveryTimeHours(Cardinality(Positions(q)))
<1>1. Positions(q) \in SUBSET Products
  BY DEF Positions
<1> QED
  BY <1>1 DEF HoursFor

\* A request under way is one of the ledger's, and no empty one.
LEMMA PurchaseKnown ==
    ASSUME IndInv, NEW h \in Handlers, Placing(h)
    PROVE  /\ Purchases[h] \in Ledger!Purchase
           /\ Purchases[h].offered \subseteq Purchases[h].asked
           /\ Purchases[h] # NoPurchase
           /\ Removals[h] = 0
<1> USE DEF Placing
<1>1. user[h] \in Users /\ found[h] \subseteq Positions(qty[h])
  BY DEF IndInv, RequestsFilled
<1>2. \A p \in Products : ToInt32(qty[h][p]) \in Int
  <2>1. qty[h] \in [Products -> Quantities \cup {0}]
    BY DEF IndInv, TypeOK, RequestsOK
  <2>2. \A p \in Products : qty[h][p] \in Nat
    BY <2>1, QuantitiesNat
  <2> QED
    BY <2>2, ToInt32Bound
<1>3. Purchases[h] =
        [buyer |-> user[h], asked |-> Positions(qty[h]), offered |-> found[h],
         pieces |-> [p \in Products |-> ToInt32(qty[h][p])]]
  BY DEF Purchases
<1>4. Purchases[h] \in Ledger!Purchase
  BY <1>1, <1>2, <1>3 DEF Ledger!Purchase, Positions
<1>5. Purchases[h] # NoPurchase
  BY <1>1, <1>3, RowsAssumption DEF NoPurchase
<1> QED
  BY <1>1, <1>3, <1>4, <1>5 DEF Removals, Deleting

\* The order a deletion is after.
LEMMA RemovalKnown ==
    ASSUME IndInv, NEW h \in Handlers, Deleting(h)
    PROVE  /\ target[h] \in OrderId
           /\ Removals[h] = target[h] /\ Removals[h] # 0
           /\ Purchases[h] = NoPurchase
<1>1. target[h] \in OrderId
  BY DEF Deleting, IndInv, TypeOK, RequestsOK
<1> QED
  BY <1>1 DEF Removals, Purchases, Placing, Deleting, OrderId

\* A request the ledger knows nothing of.
LEMMA NeitherKnown ==
    ASSUME NEW h \in Handlers, ~Placing(h), ~Deleting(h)
    PROVE  Purchases[h] = NoPurchase /\ Removals[h] = 0
BY DEF Purchases, Removals

\* Steps on the way of a request mean nothing to the ledger.
LEMMA RequestsStay ==
    ASSUME \A h \in Handlers :
              /\ Placing(h)' <=> Placing(h)
              /\ Deleting(h)' <=> Deleting(h)
              /\ Placing(h) => UNCHANGED <<user[h], qty[h], found[h]>>
              /\ Deleting(h) => UNCHANGED target[h]
    PROVE  UNCHANGED <<Purchases, Removals>>
<1>1. Purchases' = Purchases
  BY DEF Purchases, Positions, ToInt32
<1>2. Removals' = Removals
  BY DEF Removals
<1> QED
  BY <1>1, <1>2

\* What one handler does to its request changes no other's.
LEMMA OneRequestChanges ==
    ASSUME NEW h \in Handlers,
           \A g \in Handlers \ {h} :
              pc'[g] = pc[g] /\ UNCHANGED <<user[g], qty[g], found[g], target[g]>>
    PROVE  /\ Purchases' = [Purchases EXCEPT ![h] = Purchases'[h]]
           /\ Removals' = [Removals EXCEPT ![h] = Removals'[h]]
<1>1. ASSUME NEW g \in Handlers \ {h}
      PROVE  Purchases'[g] = Purchases[g] /\ Removals'[g] = Removals[g]
  BY <1>1 DEF Purchases, Removals, Placing, Deleting, Positions, ToInt32
<1>2. Purchases' = [Purchases EXCEPT ![h] = Purchases'[h]]
  BY <1>1 DEF Purchases
<1>3. Removals' = [Removals EXCEPT ![h] = Removals'[h]]
  BY <1>1 DEF Removals
<1> QED
  BY <1>2, <1>3

\* A request that is answered is gone from the ledger.
LEMMA AnsweredIsGone ==
    ASSUME IndInv, NEW h \in Handlers, NEW r, Finish(h, r)
    PROVE  /\ Purchases' = [Purchases EXCEPT ![h] = NoPurchase]
           /\ Removals' = [Removals EXCEPT ![h] = 0]
<1>1. Purchases'[h] = NoPurchase /\ Removals'[h] = 0
  BY FinishSelf DEF IndInv, Purchases, Removals, Placing, Deleting
<1>2. \A g \in Handlers \ {h} :
         pc'[g] = pc[g] /\ UNCHANGED <<user[g], qty[g], found[g], target[g]>>
  BY FinishOthers DEF IndInv
<1> QED
  BY <1>1, <1>2, OneRequestChanges

\* A purchase that is answered is done with.
LEMMA PurchaseDone ==
    ASSUME IndInv, NEW h \in Handlers, NEW r, Finish(h, r), Placing(h)
    PROVE  Ledger!Done(h)
<1>1. Removals' = Removals
  BY AnsweredIsGone, PurchaseKnown DEF Removals
<1> QED
  BY <1>1, AnsweredIsGone, PurchaseKnown
     DEF Ledger!Done, Ledger!NoPurchase, NoPurchase, Unset

\* So is a deletion.
LEMMA RemovalDone ==
    ASSUME IndInv, NEW h \in Handlers, NEW r, Finish(h, r), Deleting(h)
    PROVE  /\ Removals[h] = target[h] /\ Removals[h] # 0
           /\ Removals' = [Removals EXCEPT ![h] = 0]
           /\ Purchases' = Purchases
<1>1. Purchases' = Purchases
  BY AnsweredIsGone, RemovalKnown DEF Purchases
<1> QED
  BY <1>1, AnsweredIsGone, RemovalKnown

\* A request that ends without touching the tables is dropped.
LEMMA EndDrops ==
    ASSUME IndInv, NEW h \in Handlers, NEW r, Finish(h, r), UNCHANGED tables
    PROVE  Ledger!Next \/ UNCHANGED Ledger!vars
<1> USE DEF tables, Ledger!tables
<1>0. Ledger!Drop(h) => Ledger!Next
  BY DEF Ledger!Next
<1>1. CASE Placing(h)
  BY <1>0, <1>1, PurchaseDone DEF Ledger!Drop
<1>2. CASE Deleting(h)
  <2>1. Removals[h] # 0 /\ Removals' = [Removals EXCEPT ![h] = 0]
        /\ Purchases' = Purchases
    BY <1>2, RemovalDone
  <2> QED
    BY ONLY <1>0, <2>1, UNCHANGED tables DEF Ledger!Drop
<1>3. CASE ~Placing(h) /\ ~Deleting(h)
  <2>1. Purchases' = Purchases /\ Removals' = Removals
    BY <1>3, AnsweredIsGone, NeitherKnown DEF Purchases, Removals
  <2> QED
    BY <2>1 DEF Ledger!vars, Ledger!requests
<1> QED
  BY <1>1, <1>2, <1>3

\* Every purchase under way is one of the ledger's.
PurchasesFit ==
    \A h \in Handlers : Placing(h) =>
       /\ Purchases[h] \in Ledger!Purchase
       /\ Purchases[h].offered \subseteq Purchases[h].asked
       /\ Removals[h] = 0

\* They are, in every state of the invariant.
LEMMA PurchasesAreFit == IndInv => PurchasesFit
BY PurchaseKnown DEF PurchasesFit

\* The answer of the core service is the offer of a purchase.
LEMMA FetchOffers ==
    ASSUME IndInv, IndInv', NEW h \in Handlers, NEW S \in SUBSET Products,
           FetchProducts(h, S)
    PROVE  Ledger!Next
<1>1. ~Placing(h) /\ ~Deleting(h) /\ Placing(h)'
  BY DEF IndInv, TypeOK, RequestsOK, FetchProducts, Placing, Deleting
<1>2. \A g \in Handlers \ {h} :
         pc'[g] = pc[g] /\ UNCHANGED <<user[g], qty[g], found[g], target[g]>>
  BY DEF IndInv, TypeOK, RequestsOK, FetchProducts, request
<1>3. /\ Purchases' = [Purchases EXCEPT ![h] = Purchases'[h]]
      /\ Removals' = [Removals EXCEPT ![h] = Removals'[h]]
  BY <1>2, OneRequestChanges
<1>4. /\ Purchases'[h] \in Ledger!Purchase
      /\ Purchases'[h].offered \subseteq Purchases'[h].asked
      /\ Removals'[h] = 0
  <2>1. PurchasesFit'
    BY PurchasesAreFit, PTL
  <2> QED
    BY <1>1, <2>1 DEF PurchasesFit
<1>5. Purchases[h] = NoPurchase /\ Removals[h] = 0
  BY <1>1, NeitherKnown
<1>6. Removals' = Removals
  BY <1>3, <1>4, <1>5 DEF Removals
<1>7. Ledger!Offer(h)
  BY <1>3, <1>4, <1>5, <1>6 DEF Ledger!Offer, Ledger!NoPurchase, NoPurchase,
     Unset, FetchProducts, tables, Ledger!tables
<1> QED
  BY <1>7 DEF Ledger!Next

\* A deletion is asked for.
LEMMA DeleteAsks ==
    ASSUME IndInv, NEW h \in Handlers, NEW o \in OrderId, DeleteRequest(h, o)
    PROVE  Ledger!Next
<1>1. ~Placing(h) /\ ~Deleting(h) /\ ~Placing(h)' /\ Deleting(h)'
  BY DEF IndInv, TypeOK, RequestsOK, DeleteRequest, Placing, Deleting
<1>2. \A g \in Handlers \ {h} :
         pc'[g] = pc[g] /\ UNCHANGED <<user[g], qty[g], found[g], target[g]>>
  BY DEF IndInv, TypeOK, RequestsOK, DeleteRequest, request
<1>3. /\ Purchases' = [Purchases EXCEPT ![h] = Purchases'[h]]
      /\ Removals' = [Removals EXCEPT ![h] = Removals'[h]]
  BY <1>2, OneRequestChanges
<1>4. Purchases'[h] = Purchases[h] /\ Removals[h] = 0
  BY <1>1 DEF Purchases, Removals
<1>5. Removals'[h] = o
  BY <1>1 DEF Removals, DeleteRequest, IndInv, TypeOK, RequestsOK
<1>6. Purchases' = Purchases
  BY <1>3, <1>4 DEF Purchases
<1>7. Ledger!Ask(h, o)
  BY <1>3, <1>4, <1>5, <1>6 DEF Ledger!Ask, DeleteRequest, tables, Ledger!tables
<1> QED
  BY <1>7 DEF Ledger!Next, OrderId, Ledger!OrderId

\* What a purchase brings, in the words of the service.
LEMMA BringsKnown ==
    ASSUME NEW h \in Handlers, Placing(h)
    PROVE  /\ Purchases[h].buyer = user[h]
           /\ Purchases[h].asked = Positions(qty[h])
           /\ Purchases[h].offered = found[h]
           /\ \A p \in Products : Purchases[h].pieces[p] = ToInt32(qty[h][p])
           /\ \A p \in Products :
                 Ledger!Brings(h, p) =
                    IF p \in found[h] THEN ToInt32(qty[h][p]) ELSE 0
BY DEF Purchases, Ledger!Brings

\* The commit of a new order places it whole in the ledger.
LEMMA CommitOrderPlaces ==
    ASSUME IndInv, NEW h \in Handlers, CommitOrder(h)
    PROVE  Ledger!Next
<1> USE DEF IndInv
<1> DEFINE o == target[h]
<1>1. o \in OrderId /\ ~IsOrder(o) /\ Placing(h) /\ found[h] \subseteq Products
  BY DEF CommitOrder, TypeOK, RequestsOK, OrderRows, Placing
<1>2. exists' = exists
  <2>1. exists[o] = AllExist
    BY <1>1 DEF NoStrayItems
  <2> QED
    BY <2>1, <1>1 DEF CommitOrder, TypeOK, TablesOK
<1>3. Ledger!IsSound(h)
  BY <1>1, BringsKnown DEF CommitOrder, Ledger!IsSound
<1>4. hours' = [hours EXCEPT ![o] = HoursFor[Purchases[h].asked]]
  BY <1>1, BringsKnown, DeliveryKnown DEF CommitOrder
<1>5. amount' = [amount EXCEPT ![o] = [p \in Products |-> Ledger!Brings(h, p)]]
  BY <1>1, BringsKnown DEF CommitOrder
<1>6. owner' = [owner EXCEPT ![o] = Purchases[h].buyer]
  BY <1>1, BringsKnown DEF CommitOrder
<1>7. Ledger!Done(h)
  BY <1>1, PurchaseDone DEF CommitOrder
<1>8. Ledger!Place(h, o)
  BY <1>1, <1>2, <1>3, <1>4, <1>5, <1>6, <1>7
     DEF Ledger!Place, Ledger!IsOrder, IsOrder
<1> HIDE DEF o
<1> QED
  BY <1>1, <1>8 DEF Ledger!Next, OrderId, Ledger!OrderId

\* The commit of a merge adds all of its purchase to its buyer's order.
LEMMA CommitMergeAdds ==
    ASSUME IndInv, NEW h \in Handlers, CommitMerge(h), orderLock[target[h]] = h
    PROVE  Ledger!Next
<1> USE DEF IndInv
<1> DEFINE o == target[h]
<1>1. o \in OrderId /\ IsOrder(o) /\ todo[h] = {} /\ Placing(h)
  BY DEF CommitMerge, TypeOK, RequestsOK, LoopsOK, OrderRows, Loops, Placing
<1>2. owner[o] = Purchases[h].buyer
  BY <1>1, BringsKnown DEF CommitMerge, MergesOwn
<1>3. \A p \in found[h] :
         /\ ToInt32(qty[h][p]) > 0
         /\ draftAmount[h][p] = amount[o][p] + ToInt32(qty[h][p])
         /\ draftExists[h][p] = exists[o][p]
  BY <1>1 DEF CommitMerge, MergeDrafts, MergedAmount
<1>4. /\ amount[o] \in [Products -> 0 .. Int32Max]
      /\ exists[o] \in [Products -> BOOLEAN]
      /\ draftAmount[h] \in [Products -> 0 .. Int32Max]
      /\ found[h] \subseteq Products
  BY <1>1 DEF TypeOK, TablesOK, DraftsOK, RequestsOK
<1>5. Ledger!IsSound(h)
  BY <1>1, <1>3, <1>4, BringsKnown DEF Ledger!IsSound
<1>6. ASSUME NEW p \in Products
      PROVE  /\ amount[o][p] + Ledger!Brings(h, p) <= Int32Max
             /\ (IF p \in found[h] THEN draftAmount[h][p] ELSE amount[o][p])
                   = amount[o][p] + Ledger!Brings(h, p)
  <2>1. amount[o][p] \in 0 .. Int32Max /\ draftAmount[h][p] \in 0 .. Int32Max
    BY <1>4
  <2>2. Ledger!Brings(h, p) = IF p \in found[h] THEN ToInt32(qty[h][p]) ELSE 0
    BY <1>1, BringsKnown
  <2> QED
    BY <1>3, <2>1, <2>2
<1>7. exists' = exists
  <2>1. [p \in Products |-> IF p \in found[h] THEN draftExists[h][p]
                                              ELSE exists[o][p]] = exists[o]
    BY <1>3, <1>4
  <2>2. exists' = [exists EXCEPT ![o] = exists[o]]
    BY <1>1, <2>1 DEF CommitMerge
  <2> QED
    BY <2>2 DEF TypeOK, TablesOK
<1>8. hours' = [hours EXCEPT
                  ![o] = Ledger!MaxOf(hours[o], HoursFor[Purchases[h].asked])]
  <2>1. draftHours[h] = Ledger!MaxOf(hours[o], HoursFor[Positions(qty[h])])
    BY <1>1, DeliveryKnown DEF CommitMerge, MergeDrafts, Greatest, Ledger!MaxOf
  <2> QED
    BY <1>1, <2>1, BringsKnown DEF CommitMerge
<1>9. amount' = [amount EXCEPT
                   ![o] = [p \in Products |-> amount[o][p] + Ledger!Brings(h, p)]]
  <2>1. [p \in Products |-> IF p \in found[h] THEN draftAmount[h][p]
                                              ELSE amount[o][p]]
           = [p \in Products |-> amount[o][p] + Ledger!Brings(h, p)]
    BY <1>6
  <2> QED
    BY <2>1 DEF CommitMerge
<1>10. owner' = owner /\ Ledger!Done(h)
  BY <1>1, PurchaseDone DEF CommitMerge
<1>11. Ledger!Add(h, o)
  BY <1>1, <1>2, <1>5, <1>6, <1>7, <1>8, <1>9, <1>10
     DEF Ledger!Add, Ledger!IsOrder, IsOrder
<1> HIDE DEF o
<1> QED
  BY <1>1, <1>11 DEF Ledger!Next, OrderId, Ledger!OrderId

\* The commit of a deletion removes the order it was asked for, with its items.
LEMMA CommitDeleteRemoves ==
    ASSUME IndInv, NEW h \in Handlers, CommitDelete(h)
    PROVE  Ledger!Next
<1>1. target[h] \in OrderId /\ IsOrder(target[h]) /\ Deleting(h)
  BY DEF IndInv, TypeOK, RequestsOK, CommitDelete, OrderRows, Deleting
<1>2. /\ Removals[h] = target[h]
      /\ Removals' = [Removals EXCEPT ![h] = 0] /\ Purchases' = Purchases
  BY <1>1, RemovalDone DEF CommitDelete
<1>3. Ledger!Remove(h, target[h])
  BY <1>1, <1>2 DEF CommitDelete, Ledger!Remove, Ledger!IsOrder, IsOrder, Unset,
     AllExist
<1> QED
  BY <1>1, <1>3 DEF Ledger!Next, OrderId, Ledger!OrderId

\* The commit of a marking flags one product in the orders it has locked.
LEMMA CommitMarkFlags ==
    ASSUME IndInv, CommitMark
    PROVE  Ledger!Next
<1> USE DEF IndInv
<1> DEFINE O == {o \in OrderId : itemLock[o][marking] = Consumer}
<1>1. marking \in Products
  BY DEF CommitMark, TypeOK, ConsumerOK
<1>2. \A o \in O : amount[o][marking] > 0
  BY <1>1 DEF ConsumerItems
<1>3. ASSUME NEW o \in OrderId
      PROVE  [p \in Products |-> exists[o][p] /\ itemLock[o][p] # Consumer]
               = IF o \in O THEN [exists[o] EXCEPT ![marking] = FALSE] ELSE exists[o]
  <2>1. exists[o] \in [Products -> BOOLEAN]
    BY DEF TypeOK, TablesOK
  <2>2. \A p \in Products : itemLock[o][p] = Consumer => p = marking
    BY DEF ConsumerItems
  <2>3. CASE o \in O
    <3>1. itemLock[o][marking] = Consumer
      BY <2>3
    <3>2. ASSUME NEW p \in Products
          PROVE  (exists[o][p] /\ itemLock[o][p] # Consumer)
                    = [exists[o] EXCEPT ![marking] = FALSE][p]
      <4>1. CASE p = marking
        BY <1>1, <2>1, <3>1, <4>1
      <4>2. CASE p # marking
        BY <2>1, <2>2, <4>2
      <4> QED
        BY <4>1, <4>2
    <3> QED
      BY <2>1, <2>3, <3>2
  <2>4. CASE o \notin O
    <3>1. ASSUME NEW p \in Products
          PROVE  (exists[o][p] /\ itemLock[o][p] # Consumer) = exists[o][p]
      BY <2>1, <2>2, <2>4
    <3> QED
      BY <2>1, <2>4, <3>1
  <2> QED
    BY <2>3, <2>4
<1>4. exists' = [o \in OrderId |->
                   IF o \in O THEN [exists[o] EXCEPT ![marking] = FALSE]
                              ELSE exists[o]]
  BY <1>3 DEF CommitMark
<1>5. UNCHANGED <<owner, hours, amount>> /\ UNCHANGED <<Purchases, Removals>>
  <2>1. UNCHANGED <<owner, hours, amount, pc, user, qty, found, target>>
    BY DEF CommitMark, EndMark, request
  <2> QED
    BY <2>1, RequestsStay DEF Placing, Deleting
<1>6. O \in SUBSET OrderId
  OBVIOUS
<1> HIDE DEF O
<1>7. Ledger!Flag(marking, O)
  BY <1>2, <1>4, <1>5 DEF Ledger!Flag, Ledger!requests, OrderId, Ledger!OrderId
<1> QED
  BY <1>1, <1>6, <1>7 DEF Ledger!Next, OrderId, Ledger!OrderId

\* Every step of the service is a step of the ledger or leaves it alone.
LEMMA StepIsLedgers ==
    IndInv /\ IndInv' /\ [Next]_vars => [Ledger!Next]_(Ledger!vars)
<1> SUFFICES ASSUME IndInv, IndInv', [Next]_vars
             PROVE  Ledger!Next \/ UNCHANGED Ledger!vars
  OBVIOUS
<1>0. ASSUME UNCHANGED <<tables, Purchases, Removals>>
      PROVE  UNCHANGED Ledger!vars
  BY <1>0 DEF tables, Ledger!vars, Ledger!tables, Ledger!requests
<1>2. ASSUME NEW h \in Handlers, Progress(h)
      PROVE  Ledger!Next \/ UNCHANGED Ledger!vars
  <2>1. CASE \E S \in SUBSET Products : FetchProducts(h, S)
    BY <2>1, FetchOffers
  <2>2. CASE FindOrderIDByUser(h) \/ InsertOrder(h)
    <3>1. UNCHANGED <<tables, request, found>>
      BY <2>2 DEF FindOrderIDByUser, InsertOrder, tables
    <3>2. \A g \in Handlers :
             /\ Placing(g)' <=> Placing(g)
             /\ Deleting(g)' <=> Deleting(g)
             /\ Deleting(g) => target'[g] = target[g]
      BY <2>2 DEF FindOrderIDByUser, InsertOrder, Placing, Deleting, IndInv,
         TypeOK, RequestsOK
    <3> QED
      BY <1>0, <3>1, <3>2, RequestsStay DEF request
  <2>3. CASE CommitOrder(h)
    BY <2>3, CommitOrderPlaces
  <2>4. CASE LockOrder(h)
    BY <2>4, <1>0, RequestsStay DEF LockOrder, request, Placing, Deleting,
       IndInv, TypeOK, RequestsOK
  <2>5. CASE UpsertItem(h)
    BY <2>5, <1>0, RequestsStay DEF UpsertItem, request, Placing, Deleting
  <2>6. CASE CommitMerge(h)
    <3>1. CASE orderLock[target[h]] = h
      BY <2>6, <3>1, CommitMergeAdds
    <3>2. CASE orderLock[target[h]] # h
      BY <2>6, <3>2, EndDrops DEF CommitMerge
    <3> QED
      BY <3>1, <3>2
  <2>7. CASE LockDeleted(h)
    <3>1. CASE Finish(h, "error")
      BY <2>7, <3>1, EndDrops DEF LockDeleted
    <3>2. CASE /\ pc[h] = "delete" /\ pc' = [pc EXCEPT ![h] = "cascade"]
               /\ UNCHANGED <<tables, request, found, target>>
      BY <3>2, <1>0, RequestsStay DEF request, Placing, Deleting, IndInv,
         TypeOK, RequestsOK
    <3> QED
      BY <2>7, <3>1, <3>2 DEF LockDeleted
  <2>8. CASE CascadeItem(h)
    BY <2>8, <1>0, RequestsStay DEF CascadeItem, request, Placing, Deleting
  <2>9. CASE CommitDelete(h)
    BY <2>9, CommitDeleteRemoves
  <2>10. CASE RefusedRequest(h)
    BY <2>10, EndDrops DEF RefusedRequest, Abort
  <2> QED
    BY <1>2, <2>1, <2>2, <2>3, <2>4, <2>5, <2>6, <2>7, <2>8, <2>9, <2>10
       DEF Progress
<1>3. ASSUME NEW h \in Handlers, NEW u, NEW q, CreateRequest(h, u, q)
      PROVE  UNCHANGED Ledger!vars
  BY <1>3, <1>0, RequestsStay DEF CreateRequest, Placing, Deleting, IndInv,
     TypeOK, RequestsOK
<1>4. ASSUME NEW h \in Handlers, LoseMerge(h) \/ FailedRequest(h)
      PROVE  Ledger!Next \/ UNCHANGED Ledger!vars
  BY <1>4, EndDrops DEF LoseMerge, FailedRequest, Abort
<1>5. ASSUME NEW h \in Handlers, Handle(h)
      PROVE  Ledger!Next \/ UNCHANGED Ledger!vars
  BY <1>2, <1>3, <1>4, <1>5, DeleteAsks DEF Handle
<1>6. ASSUME \/ \E p \in Products : StartMark(p)
             \/ MarkRow
             \/ FailMark
             \/ UNCHANGED vars
      PROVE  UNCHANGED Ledger!vars
  <2>1. UNCHANGED <<tables, pc, request, found, target>>
    BY <1>6 DEF StartMark, MarkRow, FailMark, EndMark, vars, tables
  <2> QED
    BY <1>0, <2>1, RequestsStay DEF request, Placing, Deleting
<1> QED
  BY <1>5, <1>6, CommitMarkFlags DEF Next, MarkProgress

\* The service starts with the empty ledger.
LEMMA InitIsLedgers == Init => Ledger!Init
BY DEF Init, Ledger!Init, OrderId, Ledger!OrderId, Unset, AllExist, Purchases,
   Removals, Placing, Deleting, NoPurchase, Ledger!NoPurchase

\* The order tables change only as the ledger promises its readers: whole
\* requests as they were offered, once each.
THEOREM ImplementsLedgerHolds == Spec => ImplementsLedger
<1> QED
  BY InitIsLedgers, IndInvHolds, StepIsLedgers, PTL
     DEF Spec, ImplementsLedger, Ledger!Spec
===============================================================================
