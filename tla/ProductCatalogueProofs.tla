------------------------ MODULE ProductCatalogueProofs ------------------------
(***************************************************************************)
(* The catalogue's deletions exclude each other, its events are true, and  *)
(* what its readers see is a ProductShelf, for any number of clients and   *)
(* products and any prices.                                                *)
(***************************************************************************)
EXTENDS ProductCatalogue, SequenceTheorems, TLAPS

USE CatalogueAssumption

\* A price, or the 0 of a product that is not there.
LEMMA PriceNat == \A x \in Prices \cup {0} : x \in Nat
OBVIOUS

\* An addition to a stock, or the 0 of a request that adds nothing.
LEMMA AmountNat == \A x \in Amounts \cup {0} : x \in Nat
OBVIOUS

----------------------------------------------------------------------------
(* Sequences                                                               *)

\* What is left of a sequence without one of its elements.
LEMMA RemoveAtRange ==
    ASSUME NEW S, NEW s \in Seq(S), NEW i \in 1 .. Len(s)
    PROVE  RemoveAt(s, i) \in Seq(S) /\ Range(RemoveAt(s, i)) \subseteq Range(s)
<1> DEFINE a == SubSeq(s, 1, i - 1)
           b == SubSeq(s, i + 1, Len(s))
<1>1. s \in Seq(Range(s)) /\ Len(s) \in Nat
  BY SeqOfRange, LenProperties
<1>2. \A j \in 1 .. Len(s) : s[j] \in Range(s) /\ s[j] \in S
  BY <1>1, ElementOfSeq
<1>3. a \in Seq(Range(s)) /\ a \in Seq(S)
  BY <1>1, <1>2, SubSeqProperties
<1>4. b \in Seq(Range(s)) /\ b \in Seq(S)
  BY <1>1, <1>2, SubSeqProperties
<1>5. a \o b \in Seq(Range(s)) /\ a \o b \in Seq(S)
  BY <1>3, <1>4, ConcatProperties
<1>6. Range(a \o b) \subseteq Range(s)
  BY <1>5, RangeOfSeq
<1> QED
  BY <1>5, <1>6 DEF RemoveAt

\* An element that is appended is the only new one.
LEMMA AppendRange ==
    ASSUME NEW S, NEW s \in Seq(S), NEW e \in S
    PROVE  /\ Append(s, e) \in Seq(S)
           /\ Range(Append(s, e)) = Range(s) \cup {e}
<1>1. Append(s, e) \in Seq(S)
  BY AppendProperties
<1>2. Range(s) = {s[i] : i \in 1 .. Len(s)} /\ Len(s) \in Nat
  BY RangeEquality, LenProperties
<1>3. Range(Append(s, e)) = {Append(s, e)[i] : i \in 1 .. Len(s) + 1}
  <2>1. Len(Append(s, e)) = Len(s) + 1
    BY AppendProperties
  <2>2. Range(Append(s, e)) = {Append(s, e)[i] : i \in 1 .. Len(Append(s, e))}
    BY <1>1, RangeEquality
  <2> QED
    BY <2>1, <2>2
<1>4. /\ \A i \in 1 .. Len(s) : Append(s, e)[i] = s[i]
      /\ Append(s, e)[Len(s) + 1] = e
  BY AppendProperties
<1>5. 1 .. Len(s) + 1 = (1 .. Len(s)) \cup {Len(s) + 1}
  BY <1>2
<1> QED
  BY <1>1, <1>2, <1>3, <1>4, <1>5

\* An event that is published is the only new one.
LEMMA PublishRange ==
    ASSUME TypeOK, NEW type \in {"core.created", "core.deleted"},
           NEW p \in ProductId, Publish(type, p)
    PROVE  /\ sending' \in Seq(Event)
           /\ Range(sending') \subseteq Range(sending) \cup {[type |-> type, id |-> p]}
<1>1. sending \in Seq(Event) /\ [type |-> type, id |-> p] \in Event
  BY DEF TypeOK, Event
<1>2. CASE sending' = Append(sending, [type |-> type, id |-> p])
  BY <1>1, <1>2, AppendRange
<1>3. CASE sending' = sending
  BY <1>1, <1>3
<1> QED
  BY <1>2, <1>3 DEF Publish

\* The event that the broker takes, or that is lost, is no new one.
LEMMA DeliverRange ==
    ASSUME TypeOK, NEW i \in 1 .. Len(sending), Deliver(i) \/ Lose(i)
    PROVE  /\ sending' \in Seq(Event) /\ topic' \in Seq(Event)
           /\ Range(topic') \cup Range(sending') \subseteq Range(topic) \cup Range(sending)
           /\ topic' = topic \/ Range(topic') = Range(topic) \cup {sending[i]}
           /\ sending[i] \in Event /\ sending[i] \in Range(sending)
<1>1. sending \in Seq(Event) /\ topic \in Seq(Event)
  BY DEF TypeOK
<1>2. sending[i] \in Event /\ sending[i] \in Range(sending)
  BY <1>1, ElementOfSeq, SeqOfRange
<1>3. sending' \in Seq(Event) /\ Range(sending') \subseteq Range(sending)
  BY <1>1, RemoveAtRange DEF Deliver, Lose
<1>4. CASE topic' = Append(topic, sending[i])
  <2>1. topic' \in Seq(Event) /\ Range(topic') = Range(topic) \cup {sending[i]}
    BY <1>1, <1>2, <1>4, AppendRange
  <2> QED
    BY <1>2, <1>3, <2>1
<1>5. CASE topic' = topic
  BY <1>1, <1>2, <1>3, <1>5
<1> QED
  BY <1>4, <1>5 DEF Deliver, Lose

----------------------------------------------------------------------------
(* The types                                                               *)

\* What TypeOK says of the requests.
ClientsTypeOK ==
    /\ pc \in [Clients -> {"idle", "created", "read", "delete", "publish",
                           "commit", "stock", "update"}]
    /\ item \in [Clients -> ProductId \cup {0}]
    /\ seen \in [Clients -> Nat]
    /\ adding \in [Clients -> Amounts \cup {0}]
    /\ told \in [Clients -> {"none", "ok", "error"}]
    /\ reply \in [Clients -> {"none", "ok", "error"}]
    /\ \A c \in Clients : pc[c] # "idle" => item[c] \in ProductId

\* What it says of the table.
TableTypeOK ==
    /\ price \in [ProductId -> Prices \cup {0}]
    /\ stock \in [ProductId -> 0 .. MaxAmount]
    /\ nextId \in 1 .. MaxProducts + 1
    /\ rowLock \in [ProductId -> Clients \cup {Nobody}]
    /\ \A p \in ProductId : stock[p] = 0 <=> price[p] = 0

\* The two are TypeOK but for the events.
LEMMA TypeParts ==
    TypeOK <=> /\ ClientsTypeOK
               /\ TableTypeOK
               /\ sending \in Seq(Event) /\ topic \in Seq(Event)
BY DEF TypeOK, ClientsTypeOK, TableTypeOK

\* A request that is answered stays typed.
LEMMA FinishTyped ==
    ASSUME ClientsTypeOK, NEW c \in Clients, NEW r \in {"ok", "error"}, Finish(c, r)
    PROVE  ClientsTypeOK'
BY DEF ClientsTypeOK, Finish

\* So do the rows that a transaction frees.
LEMMA UnlockTyped ==
    ASSUME TableTypeOK, NEW c, Unlock(c), UNCHANGED rows
    PROVE  TableTypeOK'
BY DEF TableTypeOK, Unlock, rows

\* Every step of a request keeps what it remembers typed.
LEMMA ClientsTypeNext == IndInv /\ [Next]_vars => ClientsTypeOK'
<1> SUFFICES ASSUME IndInv, [Next]_vars PROVE ClientsTypeOK'
  OBVIOUS
<1>0. ClientsTypeOK /\ TableTypeOK
  BY TypeParts DEF IndInv
<1> USE <1>0
<1>1. ASSUME NEW c \in Clients, NEW pr \in Prices, NEW am \in Amounts,
             CreateProduct(c, pr, am)
      PROVE  ClientsTypeOK'
  <2>1. nextId \in ProductId
    BY <1>1 DEF CreateProduct, TableTypeOK, ProductId
  <2> QED
    BY <1>1, <2>1 DEF CreateProduct, Start, ClientsTypeOK
<1>2. ASSUME NEW c \in Clients, NEW p \in ProductId, DeleteRequest(c, p)
      PROVE  ClientsTypeOK'
  BY <1>2 DEF DeleteRequest, Start, ClientsTypeOK
<1>3. ASSUME NEW c \in Clients, NEW p \in ProductId, NEW am \in Amounts,
             AddRequest(c, p, am)
      PROVE  ClientsTypeOK'
  BY <1>3 DEF AddRequest, Start, ClientsTypeOK
<1>4. ASSUME NEW c \in Clients, GetProduct(c)
      PROVE  ClientsTypeOK'
  <2>0. item[c] \in ProductId
    BY <1>4 DEF GetProduct, ClientsTypeOK
  <2>1. price[item[c]] \in Nat
    <3>1. price[item[c]] \in Prices \cup {0}
      BY <2>0 DEF TableTypeOK
    <3> QED
      BY <3>1, PriceNat
  <2> QED
    BY <1>4, <2>1 DEF GetProduct, ClientsTypeOK
<1>5. ASSUME NEW c \in Clients, ReadStock(c)
      PROVE  ClientsTypeOK'
  <2>1. stock[item[c]] \in Nat
    BY <1>5 DEF ReadStock, TableTypeOK, ClientsTypeOK
  <2> QED
    BY <1>5, <2>1 DEF ReadStock, ClientsTypeOK
<1>6. ASSUME NEW c \in Clients, DeleteProductWithTransaction(c)
      PROVE  ClientsTypeOK'
  BY <1>6 DEF DeleteProductWithTransaction, ClientsTypeOK
<1>7. ASSUME NEW c \in Clients, NEW r \in {"ok", "error"}, PublishDeleted(c, r)
      PROVE  ClientsTypeOK'
  <2>1. CASE /\ told' = [told EXCEPT ![c] = r]
             /\ pc' = [pc EXCEPT ![c] = "commit"]
             /\ UNCHANGED <<rowLock, item, seen, adding, reply>>
    BY <1>7, <2>1 DEF PublishDeleted, ClientsTypeOK
  <2>2. CASE Finish(c, "error")
    BY <2>2, FinishTyped
  <2> QED
    BY <1>7, <2>1, <2>2 DEF PublishDeleted
<1>8. ASSUME NEW c \in Clients, NEW r \in {"ok", "error"}, Finish(c, r)
      PROVE  ClientsTypeOK'
  BY <1>8, FinishTyped
<1>9. ASSUME UNCHANGED <<pc, item, seen, adding, told, reply>>
      PROVE  ClientsTypeOK'
  BY <1>9 DEF ClientsTypeOK
<1>10. ASSUME NEW c \in Clients, CommitDelete(c)
       PROVE  ClientsTypeOK'
  BY <1>8, <1>10 DEF CommitDelete, ReplyToFailure
<1>11. ASSUME NEW c \in Clients, CommitFails(c)
       PROVE  ClientsTypeOK'
  BY <1>8, <1>11 DEF CommitFails, ReplyToFailure
<1> QED
  BY <1>1, <1>2, <1>3, <1>4, <1>5, <1>6, <1>7, <1>8, <1>9, <1>10, <1>11
     DEF Next, Serve, Progress, PublishCreated, UpdateStock, NotFound,
         StatementFails, CancelTransaction, Deliver, Lose, vars

\* Every step keeps the table typed: a row has a stock exactly when it has a
\* price, since only a row that is there is added to, and a positive number.
LEMMA TableTypeNext == IndInv /\ [Next]_vars => TableTypeOK'
<1> SUFFICES ASSUME IndInv, [Next]_vars PROVE TableTypeOK'
  OBVIOUS
<1>0. ClientsTypeOK /\ TableTypeOK
  BY TypeParts DEF IndInv
<1> USE <1>0 DEF rows
<1>1. ASSUME NEW c \in Clients, NEW pr \in Prices, NEW am \in Amounts,
             CreateProduct(c, pr, am)
      PROVE  TableTypeOK'
  <2>1. nextId \in ProductId /\ nextId' = nextId + 1 /\ nextId' \in 1 .. MaxProducts + 1
    BY <1>1 DEF CreateProduct, TableTypeOK, ProductId
  <2>2. am \in 0 .. MaxAmount /\ am # 0 /\ pr # 0
    BY <1>1 DEF CreateProduct
  <2> QED
    BY <1>1, <2>1, <2>2 DEF CreateProduct, TableTypeOK
<1>2. ASSUME NEW c \in Clients, DeleteProductWithTransaction(c)
      PROVE  TableTypeOK'
  BY <1>2 DEF DeleteProductWithTransaction, TableTypeOK
<1>3. ASSUME NEW c \in Clients, Unlock(c), UNCHANGED rows
      PROVE  TableTypeOK'
  BY <1>3, UnlockTyped
<1>4. ASSUME UNCHANGED <<rows, rowLock>>
      PROVE  TableTypeOK'
  BY <1>4 DEF TableTypeOK
<1>5. ASSUME NEW c \in Clients, NEW r \in {"ok", "error"}, PublishDeleted(c, r)
      PROVE  TableTypeOK'
  BY <1>3, <1>4, <1>5 DEF PublishDeleted
<1>6. ASSUME NEW c \in Clients, CommitDelete(c)
      PROVE  TableTypeOK'
  <2>1. item[c] \in ProductId
    BY <1>6 DEF CommitDelete, ClientsTypeOK
  <2>2. /\ price' \in [ProductId -> Prices \cup {0}]
        /\ stock' \in [ProductId -> 0 .. MaxAmount]
        /\ nextId' \in 1 .. MaxProducts + 1
    BY <1>6, <2>1 DEF CommitDelete, TableTypeOK
  <2>3. \A p \in ProductId : stock'[p] = 0 <=> price'[p] = 0
    BY <1>6, <2>1 DEF CommitDelete, TableTypeOK
  <2>4. rowLock' \in [ProductId -> Clients \cup {Nobody}]
    BY <1>6 DEF CommitDelete, Unlock, TableTypeOK
  <2> QED
    BY <2>2, <2>3, <2>4 DEF TableTypeOK
<1>7. ASSUME NEW c \in Clients, UpdateStock(c)
      PROVE  TableTypeOK'
  <2> DEFINE n == seen[c] + adding[c]
  <2>0. UNCHANGED <<price, nextId, rowLock>>
    BY <1>7 DEF UpdateStock
  <2>1. CASE Exists(item[c]) /\ n <= MaxAmount
    <3>1. item[c] \in ProductId /\ n \in 0 .. MaxAmount /\ n # 0
      <4>1. /\ seen[c] > 0 /\ adding[c] > 0 /\ seen[c] \in Nat
            /\ adding[c] \in Amounts \cup {0} /\ item[c] \in ProductId
        BY <1>7 DEF UpdateStock, ClientsTypeOK, IndInv, RequestsKnow, Knows
      <4>2. adding[c] \in Nat
        BY <4>1, AmountNat
      <4> QED
        BY <2>1, <4>1, <4>2
    <3>2. stock' = [stock EXCEPT ![item[c]] = n]
      BY <1>7, <2>1 DEF UpdateStock
    <3>3. price[item[c]] # 0
      BY <2>1, <3>1, PriceNat DEF TableTypeOK, Exists
    <3> HIDE DEF n
    <3> QED
      BY <2>0, <3>1, <3>2, <3>3 DEF TableTypeOK
  <2>2. CASE ~(Exists(item[c]) /\ n <= MaxAmount)
    BY <1>4, <1>7, <2>0, <2>2 DEF UpdateStock
  <2> QED
    BY <2>1, <2>2
<1> QED
  BY <1>1, <1>2, <1>3, <1>4, <1>5, <1>6, <1>7
     DEF Next, Serve, Progress, DeleteRequest, AddRequest, GetProduct, ReadStock,
         PublishCreated, CommitFails, NotFound, StatementFails,
         CancelTransaction, Deliver, Lose, vars

\* Every step keeps every variable typed.
LEMMA TypeNext == IndInv /\ [Next]_vars => TypeOK'
<1> SUFFICES ASSUME IndInv, [Next]_vars
             PROVE  sending' \in Seq(Event) /\ topic' \in Seq(Event)
  BY ClientsTypeNext, TableTypeNext DEF TypeOK, ClientsTypeOK, TableTypeOK
<1>0. TypeOK /\ sending \in Seq(Event) /\ topic \in Seq(Event)
  BY DEF IndInv, TypeOK
<1>1. ASSUME NEW c \in Clients, PublishCreated(c)
      PROVE  sending' \in Seq(Event) /\ topic' \in Seq(Event)
  <2>1. item[c] \in ProductId
    BY <1>0, <1>1 DEF TypeOK, PublishCreated
  <2> QED
    BY <1>0, <1>1, <2>1, PublishRange DEF PublishCreated, Publish
<1>2. ASSUME NEW c \in Clients, NEW r \in {"ok", "error"}, PublishDeleted(c, r)
      PROVE  sending' \in Seq(Event) /\ topic' \in Seq(Event)
  <2>1. item[c] \in ProductId
    BY <1>0, <1>2 DEF TypeOK, PublishDeleted
  <2> QED
    BY <1>0, <1>2, <2>1, PublishRange DEF PublishDeleted, Publish
<1>3. ASSUME NEW i \in 1 .. Len(sending), Deliver(i) \/ Lose(i)
      PROVE  sending' \in Seq(Event) /\ topic' \in Seq(Event)
  BY <1>0, <1>3, DeliverRange
<1>4. ASSUME UNCHANGED events
      PROVE  sending' \in Seq(Event) /\ topic' \in Seq(Event)
  BY <1>0, <1>4 DEF events
<1> QED
  BY <1>1, <1>2, <1>3, <1>4
     DEF Next, Serve, Progress, CreateProduct, DeleteRequest, AddRequest,
         GetProduct, ReadStock, DeleteProductWithTransaction, CommitDelete,
         CommitFails, UpdateStock, NotFound, StatementFails, CancelTransaction,
         vars

----------------------------------------------------------------------------
(* The inductive invariant                                                 *)

\* No row has an id that is still to be given.
LEMMA RowsNext ==
    IndInv /\ [Next]_vars => (\A p \in ProductId : Exists(p) => p < nextId)'
<1> SUFFICES ASSUME IndInv, [Next]_vars, NEW p \in ProductId, price'[p] > 0
             PROVE  p < nextId'
  BY DEF Exists
<1>0. TypeOK /\ nextId \in Nat /\ price \in [ProductId -> Prices \cup {0}]
  BY DEF IndInv, TypeOK
<1>1. price[p] > 0 => p < nextId
  BY DEF IndInv, Exists
<1>2. ASSUME NEW c \in Clients, NEW pr \in Prices, NEW am \in Amounts,
             CreateProduct(c, pr, am)
      PROVE  p < nextId'
  BY <1>0, <1>1, <1>2 DEF CreateProduct, ProductId
<1>3. ASSUME NEW c \in Clients, CommitDelete(c)
      PROVE  p < nextId'
  BY <1>0, <1>1, <1>3 DEF CommitDelete
<1>4. ASSUME UNCHANGED <<price, nextId>>
      PROVE  p < nextId'
  BY <1>1, <1>4
<1> QED
  BY <1>2, <1>3, <1>4
     DEF Next, Serve, Progress, DeleteRequest, AddRequest, GetProduct, ReadStock,
         DeleteProductWithTransaction, PublishCreated, PublishDeleted,
         CommitFails, UpdateStock, NotFound, StatementFails, CancelTransaction,
         Deliver, Lose, rows, vars

\* A request that locks nothing may change without harm to the locks.
LEMMA LocksKept ==
    ASSUME TypeOK, OpenDeletionHasRow, NEW c \in Clients,
           pc[c] \notin {"publish", "commit"},
           UNCHANGED rowLock,
           \A d \in Clients \ {c} : pc'[d] = pc[d] /\ item'[d] = item[d],
           \A p \in ProductId : Exists(p) => price'[p] > 0
    PROVE  OpenDeletionHasRow'
<1> SUFFICES ASSUME NEW p \in ProductId, rowLock[p] # Nobody
             PROVE  /\ price'[p] > 0 /\ item'[rowLock[p]] = p
                    /\ pc'[rowLock[p]] \in {"publish", "commit"}
  BY DEF OpenDeletionHasRow, Exists
<1>1. rowLock[p] \in Clients \ {c}
  BY DEF TypeOK, OpenDeletionHasRow
<1> QED
  BY <1>1 DEF OpenDeletionHasRow, Exists

\* A request whose transaction is over holds no row.
LEMMA LocksFreed ==
    ASSUME TypeOK, OpenDeletionHasRow, NEW c \in Clients, Unlock(c),
           \A d \in Clients \ {c} : pc'[d] = pc[d] /\ item'[d] = item[d],
           \A p \in ProductId : Exists(p) /\ rowLock[p] # c => price'[p] > 0
    PROVE  OpenDeletionHasRow'
<1> SUFFICES ASSUME NEW p \in ProductId, rowLock'[p] # Nobody
             PROVE  /\ price'[p] > 0 /\ item'[rowLock'[p]] = p
                    /\ pc'[rowLock'[p]] \in {"publish", "commit"}
  BY DEF OpenDeletionHasRow, Exists
<1>1. rowLock'[p] = rowLock[p] /\ rowLock[p] \in Clients \ {c}
  BY DEF TypeOK, Unlock
<1> QED
  BY <1>1 DEF OpenDeletionHasRow, Exists

\* What Finish leaves of the other requests.
LEMMA OthersStay ==
    ASSUME TypeOK, NEW c \in Clients, NEW r, Finish(c, r)
    PROVE  /\ \A d \in Clients \ {c} :
                 /\ pc'[d] = pc[d] /\ item'[d] = item[d] /\ seen'[d] = seen[d]
                 /\ adding'[d] = adding[d] /\ told'[d] = told[d]
           /\ pc'[c] = "idle"
BY DEF TypeOK, Finish

\* Every step leaves an open deletion its row.
LEMMA LocksNext == IndInv /\ [Next]_vars => OpenDeletionHasRow'
<1> SUFFICES ASSUME IndInv, [Next]_vars PROVE OpenDeletionHasRow'
  OBVIOUS
<1>0. TypeOK /\ OpenDeletionHasRow
  BY DEF IndInv
<1> USE <1>0 DEF rows
<1>1. ASSUME NEW c \in Clients, NEW pr \in Prices, NEW am \in Amounts,
             CreateProduct(c, pr, am)
      PROVE  OpenDeletionHasRow'
  <2>1. \A p \in ProductId : Exists(p) => price'[p] > 0
    BY <1>1, PriceNat DEF CreateProduct, TypeOK, Exists
  <2> QED
    BY <1>1, <2>1, LocksKept DEF CreateProduct, Start, TypeOK
<1>2. ASSUME NEW c \in Clients,
             \/ \E p \in ProductId : DeleteRequest(c, p)
             \/ \E p \in ProductId, am \in Amounts : AddRequest(c, p, am)
             \/ GetProduct(c) \/ ReadStock(c)
      PROVE  OpenDeletionHasRow'
  <2>1. /\ pc[c] \notin {"publish", "commit"}
        /\ UNCHANGED <<rowLock, price>>
        /\ \A d \in Clients \ {c} : pc'[d] = pc[d] /\ item'[d] = item[d]
    BY <1>2 DEF DeleteRequest, AddRequest, GetProduct, ReadStock, Start, TypeOK
  <2> QED
    BY <2>1, LocksKept DEF Exists
<1>3. ASSUME NEW c \in Clients, NEW r \in {"ok", "error"}, Finish(c, r),
             pc[c] \notin {"publish", "commit"}, UNCHANGED <<rowLock, price>>
      PROVE  OpenDeletionHasRow'
  BY <1>3, OthersStay, LocksKept DEF Exists
<1>4. ASSUME NEW c \in Clients, DeleteProductWithTransaction(c)
      PROVE  OpenDeletionHasRow'
  <2> SUFFICES ASSUME NEW p \in ProductId, rowLock'[p] # Nobody
               PROVE  /\ price'[p] > 0 /\ item'[rowLock'[p]] = p
                      /\ pc'[rowLock'[p]] \in {"publish", "commit"}
    BY DEF OpenDeletionHasRow, Exists
  <2>1. CASE p = item[c]
    BY <1>4, <2>1 DEF DeleteProductWithTransaction, TypeOK, Exists
  <2>2. CASE p # item[c]
    <3>1. /\ rowLock'[p] = rowLock[p] /\ rowLock[p] \in Clients \ {c}
          /\ price' = price /\ item' = item
      BY <1>4, <2>2 DEF DeleteProductWithTransaction, TypeOK, OpenDeletionHasRow
    <3>2. pc'[rowLock[p]] = pc[rowLock[p]]
      BY <1>4, <3>1 DEF DeleteProductWithTransaction, TypeOK
    <3> QED
      BY <3>1, <3>2 DEF OpenDeletionHasRow, Exists
  <2> QED
    BY <2>1, <2>2
<1>5. ASSUME NEW c \in Clients, NEW r \in {"ok", "error"}, PublishDeleted(c, r)
      PROVE  OpenDeletionHasRow'
  <2>1. CASE /\ pc' = [pc EXCEPT ![c] = "commit"]
             /\ UNCHANGED <<rowLock, item>>
    BY <1>5, <2>1 DEF PublishDeleted, OpenDeletionHasRow, TypeOK, Exists
  <2>2. CASE Unlock(c) /\ Finish(c, "error")
    BY <1>5, <2>2, OthersStay, LocksFreed DEF PublishDeleted, Exists
  <2> QED
    BY <1>5, <2>1, <2>2 DEF PublishDeleted
<1>6. ASSUME NEW c \in Clients, CommitDelete(c)
      PROVE  OpenDeletionHasRow'
  <2>1. \A d \in Clients \ {c} : pc'[d] = pc[d] /\ item'[d] = item[d]
    BY <1>6, OthersStay DEF CommitDelete
  <2>2. \A p \in ProductId : Exists(p) /\ rowLock[p] # c => price'[p] > 0
    BY <1>6 DEF CommitDelete, Exists, TypeOK
  <2> QED
    BY <1>6, <2>1, <2>2, LocksFreed DEF CommitDelete
<1>7. ASSUME NEW c \in Clients, CommitFails(c)
      PROVE  OpenDeletionHasRow'
  BY <1>7, OthersStay, LocksFreed DEF CommitFails, Exists
<1>8. ASSUME NEW c \in Clients, CancelTransaction(c)
      PROVE  OpenDeletionHasRow'
  BY <1>8, LocksFreed DEF CancelTransaction, Exists
<1>9. ASSUME UNCHANGED <<price, rowLock, pc, item>>
      PROVE  OpenDeletionHasRow'
  BY <1>9 DEF OpenDeletionHasRow, Exists
<1>10. ASSUME NEW c \in Clients, PublishCreated(c)
       PROVE  OpenDeletionHasRow'
  BY <1>3, <1>10 DEF PublishCreated
<1>11. ASSUME NEW c \in Clients, UpdateStock(c)
       PROVE  OpenDeletionHasRow'
  BY <1>3, <1>11 DEF UpdateStock
<1>12. ASSUME NEW c \in Clients, NotFound(c)
       PROVE  OpenDeletionHasRow'
  BY <1>3, <1>12 DEF NotFound
<1>13. ASSUME NEW c \in Clients, StatementFails(c)
       PROVE  OpenDeletionHasRow'
  BY <1>3, <1>13 DEF StatementFails
<1> QED
  BY <1>1, <1>2, <1>4, <1>5, <1>6, <1>7, <1>8, <1>9, <1>10, <1>11, <1>12, <1>13
     DEF Next, Serve, Progress, Deliver, Lose, vars

\* A request that does nothing itself still knows what it knew: ids are only
\* ever given out, a price that is changed is one that goes, and no row comes
\* back under an id that was given.
LEMMA StillKnows ==
    ASSUME IndInv, [Next]_vars, NEW d \in Clients,
           pc'[d] = pc[d], item'[d] = item[d], seen'[d] = seen[d],
           adding'[d] = adding[d], told'[d] = told[d]
    PROVE  Knows(d)'
<1>0. /\ Knows(d) /\ nextId \in Nat /\ price \in [ProductId -> Prices \cup {0}]
      /\ pc[d] # "idle" => item[d] \in ProductId
  BY DEF IndInv, TypeOK, RequestsKnow
<1>1. nextId' \in {nextId, nextId + 1}
  BY DEF Next, Serve, Progress, CreateProduct, DeleteRequest, AddRequest,
         GetProduct, ReadStock, DeleteProductWithTransaction, PublishCreated,
         PublishDeleted, CommitDelete, CommitFails, UpdateStock, NotFound,
         StatementFails, CancelTransaction, Deliver, Lose, rows, vars
<1>2. \A p \in ProductId : p < nextId => price'[p] \in {price[p], 0}
  <2>1. ASSUME NEW c \in Clients, NEW pr \in Prices, NEW am \in Amounts,
               CreateProduct(c, pr, am)
        PROVE  \A p \in ProductId : p < nextId => price'[p] \in {price[p], 0}
    BY <1>0, <2>1 DEF CreateProduct
  <2>2. ASSUME NEW c \in Clients, CommitDelete(c)
        PROVE  \A p \in ProductId : p < nextId => price'[p] \in {price[p], 0}
    BY <1>0, <2>2 DEF CommitDelete
  <2>3. ASSUME UNCHANGED price
        PROVE  \A p \in ProductId : p < nextId => price'[p] \in {price[p], 0}
    BY <2>3
  <2> QED
    BY <2>1, <2>2, <2>3
       DEF Next, Serve, Progress, DeleteRequest, AddRequest, GetProduct,
           ReadStock, DeleteProductWithTransaction, PublishCreated,
           PublishDeleted, CommitFails, UpdateStock, NotFound, StatementFails,
           CancelTransaction, Deliver, Lose, rows, vars
<1>3. item[d] < nextId => item[d] < nextId'
  <2>1. item[d] \in ProductId \cup {0}
    BY DEF IndInv, TypeOK
  <2>2. item[d] \in Nat
    BY <2>1 DEF ProductId
  <2> QED
    BY <1>0, <1>1, <2>2
<1>4. (pc[d] \in {"delete", "publish", "commit"} /\ price'[item[d]] > 0) =>
        price'[item[d]] = seen[d]
  BY <1>0, <1>2 DEF Knows, Exists
<1> QED
  BY <1>0, <1>3, <1>4 DEF Knows, Exists

\* What all requests know stays true by every step, one's own or another's.
LEMMA KnowNext == IndInv /\ [Next]_vars => RequestsKnow'
<1> SUFFICES ASSUME IndInv, [Next]_vars, NEW d \in Clients PROVE Knows(d)'
  BY DEF RequestsKnow, Knows
<1>0. TypeOK /\ Knows(d)
  BY DEF IndInv, RequestsKnow
<1> USE <1>0
<1>1. ASSUME NEW c \in Clients, NEW r, Finish(c, r)
      PROVE  Knows(d)'
  <2>1. CASE c = d
    BY <1>1, <2>1, OthersStay DEF Knows
  <2>2. CASE c # d
    BY <1>1, <2>2, OthersStay, StillKnows
  <2> QED
    BY <2>1, <2>2
<1>2. ASSUME NEW c \in Clients, c # d, Serve(c)
      PROVE  Knows(d)'
  <2>1. CASE \E r \in {"ok", "error"} : Finish(c, r)
    BY <1>1, <2>1
  <2>2. CASE /\ pc'[d] = pc[d] /\ item'[d] = item[d] /\ seen'[d] = seen[d]
             /\ adding'[d] = adding[d] /\ told'[d] = told[d]
    BY <2>2, StillKnows
  <2>3. ASSUME NEW pr \in Prices, NEW am \in Amounts, CreateProduct(c, pr, am)
        PROVE  Knows(d)'
    BY <1>2, <2>2, <2>3 DEF CreateProduct, Start, TypeOK
  <2>4. ASSUME \/ \E p \in ProductId : DeleteRequest(c, p)
               \/ \E p \in ProductId, am \in Amounts : AddRequest(c, p, am)
               \/ GetProduct(c) \/ ReadStock(c) \/ CancelTransaction(c)
               \/ DeleteProductWithTransaction(c)
        PROVE  Knows(d)'
    BY <1>2, <2>2, <2>4 DEF DeleteRequest, AddRequest, GetProduct, ReadStock,
         CancelTransaction, DeleteProductWithTransaction, Start, TypeOK
  <2>5. ASSUME NEW r \in {"ok", "error"}, PublishDeleted(c, r)
        PROVE  Knows(d)'
    BY <1>2, <2>1, <2>2, <2>5 DEF PublishDeleted, TypeOK
  <2> QED
    BY <1>2, <2>1, <2>3, <2>4, <2>5
       DEF Serve, Progress, PublishCreated, CommitDelete, CommitFails,
           ReplyToFailure, UpdateStock, NotFound, StatementFails
<1>3. ASSUME NEW pr \in Prices, NEW am \in Amounts, CreateProduct(d, pr, am)
      PROVE  Knows(d)'
  BY <1>3 DEF CreateProduct, Start, Knows, TypeOK
<1>4. ASSUME NEW p \in ProductId, DeleteRequest(d, p)
      PROVE  Knows(d)'
  BY <1>4 DEF DeleteRequest, Start, Knows, TypeOK
<1>5. ASSUME NEW p \in ProductId, NEW am \in Amounts, AddRequest(d, p, am)
      PROVE  Knows(d)'
  <2>1. am > 0
    OBVIOUS
  <2> QED
    BY <1>5, <2>1 DEF AddRequest, Start, Knows, TypeOK
<1>6. CASE GetProduct(d)
  <2>1. item[d] \in ProductId /\ item[d] < nextId
    BY <1>6 DEF GetProduct, IndInv, TypeOK
  <2> QED
    BY <1>6, <2>1 DEF GetProduct, Knows, TypeOK, rows
<1>7. CASE ReadStock(d)
  <2>1. item[d] \in ProductId /\ stock[item[d]] > 0
    <3>1. item[d] \in ProductId /\ price[item[d]] # 0
      BY <1>7, PriceNat DEF ReadStock, TypeOK, Exists
    <3> QED
      BY <3>1 DEF TypeOK
  <2> QED
    BY <1>7, <2>1 DEF ReadStock, Knows, TypeOK, rows
<1>8. CASE DeleteProductWithTransaction(d)
  <2>1. /\ item' = item /\ seen' = seen /\ price' = price /\ nextId' = nextId
        /\ price[item[d]] = seen[d] /\ item[d] < nextId
        /\ pc'[d] = IF seen[d] < CheapPrice THEN "commit" ELSE "publish"
        /\ seen[d] \in Nat
    BY <1>8 DEF DeleteProductWithTransaction, Knows, TypeOK, rows
  <2> QED
    BY <2>1 DEF Knows
<1>9. ASSUME NEW r \in {"ok", "error"}, PublishDeleted(d, r)
      PROVE  Knows(d)'
  <2>1. CASE /\ GoesOn(d, r)
             /\ told' = [told EXCEPT ![d] = r]
             /\ pc' = [pc EXCEPT ![d] = "commit"]
             /\ UNCHANGED <<rowLock, item, seen, adding, reply>>
    <3>1. /\ pc[d] = "publish" /\ pc'[d] = "commit" /\ told'[d] = r
          /\ UNCHANGED <<price, nextId, item, seen>> /\ seen[d] \in Nat
      BY <1>9, <2>1 DEF PublishDeleted, TypeOK, rows
    <3>2. seen[d] > DearPrice => r = "ok"
      BY <2>1, <3>1 DEF GoesOn
    <3> QED
      BY <3>1, <3>2 DEF Knows, Exists
  <2>2. CASE Finish(d, "error")
    BY <1>1, <2>2
  <2> QED
    BY <1>9, <2>1, <2>2 DEF PublishDeleted
<1>10. CASE CancelTransaction(d)
  BY <1>10, StillKnows DEF CancelTransaction
<1>11. ASSUME UNCHANGED <<pc, item, seen, adding, told>>
       PROVE  Knows(d)'
  BY <1>11, StillKnows
<1> QED
  BY <1>1, <1>2, <1>3, <1>4, <1>5, <1>6, <1>7, <1>8, <1>9, <1>10, <1>11
     DEF Next, Serve, Progress, PublishCreated, CommitDelete, CommitFails,
         UpdateStock, NotFound, StatementFails, Deliver, Lose, vars

\* Every event is about a product that there is or was, and stays true.
LEMMA EventsNext == IndInv /\ [Next]_vars => EventsAreTrue'
<1> SUFFICES ASSUME IndInv, [Next]_vars,
                    NEW e \in (Range(topic) \cup Range(sending))'
             PROVE  /\ e.id < nextId'
                    /\ (e.type = "core.deleted" /\ price'[e.id] > 0) =>
                          price'[e.id] >= CheapPrice
  BY DEF EventsAreTrue, Exists
<1> DEFINE True(f) == /\ f.id < nextId
                      /\ (f.type = "core.deleted" /\ Exists(f.id)) =>
                            price[f.id] >= CheapPrice
           Old == Range(topic) \cup Range(sending)
<1>0. TypeOK /\ RequestsKnow /\ nextId \in Nat
      /\ price \in [ProductId -> Prices \cup {0}]
  BY DEF IndInv, TypeOK
<1>1. \A f \in Old : f \in Event /\ True(f)
  <2>1. sending \in Seq(Event) /\ topic \in Seq(Event)
    BY <1>0 DEF TypeOK
  <2> QED
    BY <2>1, RangeOfSeq DEF IndInv, EventsAreTrue
<1>2. ASSUME NEW type \in {"core.created", "core.deleted"}, NEW c \in Clients,
             pc[c] \in {"created", "publish"},
             type = "core.deleted" => pc[c] = "publish",
             Publish(type, item[c]), UNCHANGED <<price, nextId>>
      PROVE  e.id < nextId' /\ ((e.type = "core.deleted" /\ price'[e.id] > 0)
                                   => price'[e.id] >= CheapPrice)
  <2>1. item[c] \in ProductId /\ item[c] < nextId
    BY <1>0, <1>2 DEF TypeOK, RequestsKnow, Knows
  <2>2. (type = "core.deleted" /\ price[item[c]] > 0) =>
           price[item[c]] >= CheapPrice
    BY <1>0, <1>2, <2>1 DEF TypeOK, RequestsKnow, Knows, Exists
  <2>3. e \in Old \cup {[type |-> type, id |-> item[c]]}
    BY <1>0, <1>2, <2>1, PublishRange DEF Publish
  <2> QED
    BY <1>1, <1>2, <2>1, <2>2, <2>3 DEF Exists
<1>3. CASE \E i \in 1 .. Len(sending) : Deliver(i) \/ Lose(i)
  <2>1. e \in Old
    BY <1>0, <1>3, DeliverRange
  <2>2. UNCHANGED <<price, nextId>>
    BY <1>3 DEF Deliver, Lose, rows
  <2> QED
    BY <1>1, <2>1, <2>2 DEF Exists
<1>4. ASSUME NEW c \in Clients, NEW pr \in Prices, NEW am \in Amounts,
             CreateProduct(c, pr, am)
      PROVE  e.id < nextId' /\ ((e.type = "core.deleted" /\ price'[e.id] > 0)
                                   => price'[e.id] >= CheapPrice)
  <2>1. e \in Event /\ True(e)
    BY <1>1, <1>4 DEF CreateProduct, events
  <2>2. price'[e.id] = price[e.id] /\ nextId' = nextId + 1 /\ e.id \in Nat
    BY <1>0, <1>4, <2>1 DEF CreateProduct, Event, ProductId
  <2> QED
    BY <1>0, <2>1, <2>2 DEF Exists
<1>5. ASSUME NEW c \in Clients, CommitDelete(c)
      PROVE  e.id < nextId' /\ ((e.type = "core.deleted" /\ price'[e.id] > 0)
                                   => price'[e.id] >= CheapPrice)
  <2>1. e \in Event /\ True(e) /\ nextId' = nextId
    BY <1>1, <1>5 DEF CommitDelete, events
  <2>2. price'[e.id] \in {price[e.id], 0}
    BY <1>0, <1>5, <2>1 DEF CommitDelete, Event
  <2> QED
    BY <2>1, <2>2 DEF Exists
<1>6. ASSUME UNCHANGED <<price, nextId, events>>
      PROVE  e.id < nextId' /\ ((e.type = "core.deleted" /\ price'[e.id] > 0)
                                   => price'[e.id] >= CheapPrice)
  BY <1>1, <1>6 DEF events, Exists
<1>7. ASSUME NEW c \in Clients, PublishCreated(c)
      PROVE  e.id < nextId' /\ ((e.type = "core.deleted" /\ price'[e.id] > 0)
                                   => price'[e.id] >= CheapPrice)
  BY <1>2, <1>7 DEF PublishCreated, rows
<1>8. ASSUME NEW c \in Clients, NEW r \in {"ok", "error"}, PublishDeleted(c, r)
      PROVE  e.id < nextId' /\ ((e.type = "core.deleted" /\ price'[e.id] > 0)
                                   => price'[e.id] >= CheapPrice)
  BY <1>2, <1>8 DEF PublishDeleted, rows
<1> QED
  BY <1>3, <1>4, <1>5, <1>6, <1>7, <1>8
     DEF Next, Serve, Progress, DeleteRequest, AddRequest, GetProduct, ReadStock,
         DeleteProductWithTransaction, CommitFails, UpdateStock, NotFound,
         StatementFails, CancelTransaction, rows, vars

\* An open deletion has its row, and what the requests remember of products and
\* the events say of them is true: the invariant the other theorems rest on.
THEOREM CatalogueIndInvHolds == Spec => []IndInv
<1>1. Init => IndInv
  <2> SUFFICES ASSUME Init PROVE IndInv
    OBVIOUS
  <2>1. /\ <<>> \in Seq(Event)
        /\ Range(<<>>) = {}
    BY RangeOfSeq DEF Range
  <2>2. TypeOK
    BY <2>1 DEF Init, TypeOK
  <2>3. EventsAreTrue
    BY <2>1 DEF Init, EventsAreTrue
  <2>4. /\ \A p \in ProductId : ~Exists(p)
        /\ OpenDeletionHasRow /\ RequestsKnow
    BY DEF Init, Exists, OpenDeletionHasRow, RequestsKnow, Knows
  <2> QED
    BY <2>2, <2>3, <2>4 DEF IndInv
<1>2. IndInv /\ [Next]_vars => IndInv'
  BY TypeNext, RowsNext, LocksNext, KnowNext, EventsNext DEF IndInv
<1> QED
  BY <1>1, <1>2, PTL DEF Spec

\* Every variable of the catalogue keeps its type, and a row has a stock
\* exactly when it has a price.
THEOREM CatalogueTypeCorrect == Spec => []TypeOK
<1>1. IndInv => TypeOK
  BY DEF IndInv
<1> QED
  BY <1>1, CatalogueIndInvHolds, PTL

\* The DELETE of an open transaction keeps its row to itself: of any number of
\* requests for a product one deletes it.
THEOREM OpenDeletionHasRowHolds == Spec => []OpenDeletionHasRow
<1>1. IndInv => OpenDeletionHasRow
  BY DEF IndInv
<1> QED
  BY <1>1, CatalogueIndInvHolds, PTL

\* No event is about a product that never was, and no announced deletion about
\* a cheap product that is there.
THEOREM EventsAreTrueHolds == Spec => []EventsAreTrue
<1>1. IndInv => EventsAreTrue
  BY DEF IndInv
<1> QED
  BY <1>1, CatalogueIndInvHolds, PTL

\* A price becomes 0 by the commit of a deletion only.
LEMMA OnlyCommitsDelete ==
    ASSUME IndInv, Next, NEW p \in ProductId, Exists(p), price'[p] # price[p]
    PROVE  \E c \in Clients : CommitDelete(c) /\ item[c] = p
<1>1. ASSUME NEW c \in Clients, NEW pr \in Prices, NEW am \in Amounts,
             CreateProduct(c, pr, am)
      PROVE  FALSE
  BY <1>1 DEF IndInv, TypeOK, CreateProduct, ProductId
<1>2. ASSUME NEW c \in Clients, CommitDelete(c)
      PROVE  item[c] = p
  BY <1>2 DEF CommitDelete, IndInv, TypeOK
<1>3. UNCHANGED price => FALSE
  OBVIOUS
<1> QED
  BY <1>1, <1>2, <1>3
     DEF Next, Serve, Progress, DeleteRequest, AddRequest, GetProduct,
         ReadStock, DeleteProductWithTransaction, PublishCreated,
         PublishDeleted, CommitFails, UpdateStock, NotFound, StatementFails,
         CancelTransaction, Deliver, Lose, rows

\* A product above the threshold goes only when Publish has accepted the event
\* of its deletion, however its requests interleave.
THEOREM DearOnesAnnouncedHolds == Spec => DearOnesAnnounced
<1>1. ASSUME IndInv, Next, NEW p \in ProductId, price[p] > DearPrice, price'[p] = 0
      PROVE  \E c \in Clients : item[c] = p /\ told[c] = "ok"
  <2>0. DearPrice \in Nat /\ price[p] \in Prices \cup {0}
    BY <1>1 DEF IndInv, TypeOK
  <2>1. Exists(p) /\ price'[p] # price[p]
    <3>1. price[p] \in Nat
      BY <2>0, PriceNat
    <3> QED
      BY <1>1, <2>0, <3>1 DEF Exists
  <2>2. PICK c \in Clients : CommitDelete(c) /\ item[c] = p
    BY <1>1, <2>1, OnlyCommitsDelete
  <2>3. told[c] = "ok"
    BY <1>1, <2>1, <2>2 DEF IndInv, RequestsKnow, Knows, CommitDelete
  <2> QED
    BY <2>2, <2>3
<1>2. IndInv /\ Next =>
        [\A p \in ProductId : (price[p] > DearPrice /\ price'[p] = 0) =>
            \E c \in Clients : item[c] = p /\ told[c] = "ok"]_vars
  BY <1>1
<1> QED
  BY <1>2, CatalogueIndInvHolds, PTL DEF Spec, DearOnesAnnounced

\* A step of a request leaves what others are at alone.
LEMMA OthersGoOn ==
    ASSUME TypeOK, NEW d \in Clients, Serve(d), NEW c \in Clients \ {d}
    PROVE  pc'[c] = pc[c] /\ item'[c] = item[c]
<1>1. ASSUME NEW step, pc' = [pc EXCEPT ![d] = step]
      PROVE  pc'[c] = pc[c]
  BY <1>1 DEF TypeOK
<1>2. ASSUME NEW p, item' = [item EXCEPT ![d] = p]
      PROVE  item'[c] = item[c]
  BY <1>2 DEF TypeOK
<1> QED
  BY <1>1, <1>2
     DEF Serve, Progress, CreateProduct, DeleteRequest, AddRequest, Start,
         GetProduct, ReadStock, DeleteProductWithTransaction, PublishCreated,
         PublishDeleted, CommitDelete, CommitFails, UpdateStock, NotFound,
         StatementFails, CancelTransaction, Finish

\* A deletion that has got to its commit ends there, or goes on as it is.
LEMMA CommitsEnd ==
    ASSUME NEW c \in Clients, Serve(c), pc[c] = "commit"
    PROVE  CommitDelete(c) \/ CommitFails(c) \/ CancelTransaction(c)
BY DEF Serve, Progress, CreateProduct, DeleteRequest, AddRequest, Start,
       GetProduct, ReadStock, DeleteProductWithTransaction, PublishCreated,
       PublishDeleted, UpdateStock, NotFound, StatementFails

\* A deletion of a product that is not cheap is answered with success only when
\* it has taken the product away itself.
THEOREM OkDeletionsHappenHolds == Spec => OkDeletionsHappen
<1>1. ASSUME IndInv, Next, NEW c \in Clients,
             pc[c] = "commit", pc'[c] = "idle", reply'[c] = "ok", seen[c] >= CheapPrice
      PROVE  Exists(item[c]) /\ price'[item[c]] = 0
  <2>0. TypeOK /\ OpenDeletionHasRow /\ item[c] \in ProductId
    BY <1>1 DEF IndInv, TypeOK
  <2>1. seen[c] \in Nat /\ ~(seen[c] < CheapPrice)
    BY <1>1, <2>0 DEF TypeOK
  <2>2. PICK d \in Clients : Serve(d)
    BY <1>1 DEF Next, Deliver, Lose
  <2>3. d = c
    BY <1>1, <2>0, <2>2, OthersGoOn
  <2>4. CommitDelete(c) \/ CommitFails(c)
    BY <1>1, <2>2, <2>3, CommitsEnd DEF CancelTransaction
  <2>5. ~CommitFails(c)
    BY <1>1, <2>0, <2>1 DEF CommitFails, ReplyToFailure, Finish, TypeOK
  <2>6. CommitDelete(c) /\ rowLock[item[c]] = c
    BY <2>4, <2>5 DEF CommitDelete
  <2>7. Exists(item[c])
    BY <2>0, <2>6, CatalogueAssumption DEF OpenDeletionHasRow
  <2>8. price'[item[c]] = 0
    BY <2>0, <2>6 DEF CommitDelete, TypeOK
  <2> QED
    BY <2>7, <2>8
<1>2. IndInv /\ Next =>
        [\A c \in Clients :
           (/\ pc[c] = "commit" /\ pc'[c] = "idle"
            /\ reply'[c] = "ok" /\ seen[c] >= CheapPrice) =>
              Exists(item[c]) /\ price'[item[c]] = 0]_vars
  BY <1>1
<1> QED
  BY <1>2, CatalogueIndInvHolds, PTL DEF Spec, OkDeletionsHappen

----------------------------------------------------------------------------
(* When an announcement is true                                            *)

\* A deletion that got as far as its event finds the product gone when it ends.
DeletionsHappen ==
    \A c \in Clients :
       (pc[c] \in {"publish", "commit"} /\ pc'[c] = "idle") => price'[item[c]] = 0

\* A product whose deletion was published is there only as long as that
\* deletion is under way.
AnnouncedAreGoing ==
    \A e \in Range(topic) \cup Range(sending) :
       (e.type = "core.deleted" /\ Exists(e.id)) =>
          \E c \in Clients : pc[c] = "commit" /\ item[c] = e.id

\* A product does not come back.
LEMMA GoneStayGone ==
    ASSUME IndInv, [Next]_vars, NEW p \in ProductId, p < nextId, price'[p] > 0
    PROVE  Exists(p)
<1>1. ASSUME NEW c \in Clients, NEW pr \in Prices, NEW am \in Amounts,
             CreateProduct(c, pr, am)
      PROVE  price'[p] = price[p]
  BY <1>1 DEF IndInv, TypeOK, CreateProduct, ProductId
<1>2. ASSUME NEW c \in Clients, CommitDelete(c)
      PROVE  price'[p] = price[p] \/ price'[p] = 0
  BY <1>2 DEF CommitDelete, IndInv, TypeOK
<1>3. price'[p] = price[p] \/ price'[p] = 0
  BY <1>1, <1>2
     DEF Next, Serve, Progress, DeleteRequest, AddRequest, GetProduct,
         ReadStock, DeleteProductWithTransaction, PublishCreated,
         PublishDeleted, CommitFails, UpdateStock, NotFound, StatementFails,
         CancelTransaction, Deliver, Lose, rows, vars
<1> QED
  BY <1>3 DEF Exists

\* An event is new only if a deletion has just published it, or it is that of
\* a creation.
LEMMA NewDeletions ==
    ASSUME IndInv, [Next]_vars, NEW e \in Range(topic') \cup Range(sending'),
           e.type = "core.deleted", e \notin Range(topic) \cup Range(sending)
    PROVE  \E c \in Clients : \E r \in {"ok", "error"} :
              PublishDeleted(c, r) /\ e.id = item[c]
<1>0. TypeOK
  BY DEF IndInv
<1>1. ASSUME NEW c \in Clients, PublishCreated(c)
      PROVE  FALSE
  <2>1. item[c] \in ProductId /\ Publish("core.created", item[c])
    BY <1>0, <1>1 DEF TypeOK, PublishCreated
  <2>2. Range(sending') \subseteq Range(sending)
                          \cup {[type |-> "core.created", id |-> item[c]]}
    BY <1>0, <2>1, PublishRange
  <2>3. topic' = topic
    BY <2>1 DEF Publish
  <2>4. e = [type |-> "core.created", id |-> item[c]]
    BY <2>2, <2>3
  <2> QED
    BY <2>4
<1>2. ASSUME NEW c \in Clients, NEW r \in {"ok", "error"}, PublishDeleted(c, r)
      PROVE  e.id = item[c]
  <2>1. item[c] \in ProductId /\ Publish("core.deleted", item[c])
    BY <1>0, <1>2 DEF TypeOK, PublishDeleted
  <2>2. Range(sending') \subseteq Range(sending)
                          \cup {[type |-> "core.deleted", id |-> item[c]]}
    BY <1>0, <2>1, PublishRange
  <2>3. topic' = topic
    BY <2>1 DEF Publish
  <2>4. e = [type |-> "core.deleted", id |-> item[c]]
    BY <2>2, <2>3
  <2> QED
    BY <2>4
<1>3. ASSUME NEW i \in 1 .. Len(sending), Deliver(i) \/ Lose(i)
      PROVE  FALSE
  BY <1>0, <1>3, DeliverRange
<1>4. UNCHANGED events => FALSE
  BY DEF events
<1> QED
  BY <1>1, <1>2, <1>3, <1>4
     DEF Next, Serve, Progress, CreateProduct, DeleteRequest, AddRequest,
         GetProduct, ReadStock, DeleteProductWithTransaction, CommitDelete,
         CommitFails, UpdateStock, NotFound, StatementFails, CancelTransaction,
         vars

\* While deletions happen, what they have announced is going or gone.
LEMMA AnnouncedNext ==
    IndInv /\ AnnouncedAreGoing /\ [Next]_vars /\ [DeletionsHappen]_vars
      => AnnouncedAreGoing'
<1> SUFFICES ASSUME IndInv, AnnouncedAreGoing, [Next]_vars, [DeletionsHappen]_vars,
                    NEW e \in Range(topic') \cup Range(sending'),
                    e.type = "core.deleted", price'[e.id] > 0
             PROVE  \E c \in Clients : pc'[c] = "commit" /\ item'[c] = e.id
  BY DEF AnnouncedAreGoing, Exists
<1>0. TypeOK /\ EventsAreTrue
  BY DEF IndInv
<1>1. CASE e \in Range(topic) \cup Range(sending)
  <2>1. e \in Event /\ e.id \in ProductId /\ e.id < nextId
    <3>1. e \in Event
      <4>1. topic \in Seq(Event) /\ sending \in Seq(Event)
        BY <1>0 DEF TypeOK
      <4> QED
        BY <1>1, <4>1, RangeOfSeq
    <3> QED
      BY <1>0, <1>1, <3>1 DEF EventsAreTrue, Event
  <2>2. Exists(e.id)
    BY <2>1, GoneStayGone
  <2>3. PICK c \in Clients : pc[c] = "commit" /\ item[c] = e.id
    BY <1>1, <2>2 DEF AnnouncedAreGoing
  <2>4. ASSUME pc'[c] = "idle"
        PROVE  FALSE
    <3>1. DeletionsHappen
      BY <2>3, <2>4 DEF vars
    <3> QED
      BY <2>3, <2>4, <3>1 DEF DeletionsHappen
  <2>5. CASE Serve(c)
    <3>1. CancelTransaction(c)
      <4>1. ASSUME NEW r, Finish(c, r) PROVE FALSE
        BY <1>0, <2>4, <4>1 DEF Finish, TypeOK
      <4> QED
        BY <2>3, <2>5, <4>1, CommitsEnd DEF CommitDelete, CommitFails
    <3> QED
      BY <2>3, <3>1 DEF CancelTransaction
  <2>6. ASSUME NEW d \in Clients, d # c, Serve(d)
        PROVE  pc'[c] = pc[c] /\ item'[c] = item[c]
    BY <1>0, <2>6, OthersGoOn
  <2>7. CASE UNCHANGED <<pc, item>>
    BY <2>3, <2>7
  <2> QED
    BY <2>3, <2>5, <2>6, <2>7 DEF Next, Deliver, Lose, vars
<1>2. CASE e \notin Range(topic) \cup Range(sending)
  <2>1. PICK c \in Clients, r \in {"ok", "error"} :
               PublishDeleted(c, r) /\ e.id = item[c]
    BY <1>2, NewDeletions
  <2>2. CASE pc' = [pc EXCEPT ![c] = "commit"] /\ UNCHANGED item
    BY <1>0, <2>1, <2>2 DEF TypeOK
  <2>3. CASE Finish(c, "error")
    <3>1. pc[c] = "publish" /\ pc'[c] = "idle"
      BY <1>0, <2>1, <2>3 DEF PublishDeleted, Finish, TypeOK
    <3>2. DeletionsHappen
      BY <3>1 DEF vars
    <3> QED
      BY <2>1, <3>1, <3>2 DEF DeletionsHappen
  <2> QED
    BY <2>1, <2>2, <2>3 DEF PublishDeleted
<1> QED
  BY <1>1, <1>2

\* An announced deletion is untrue for good only after a deletion has published
\* its event and then ended with its product still there: a failed commit, a
\* rollback by the deadline, or that of a dear product whose event the publisher
\* reported as lost.  Order, delay and loss of events alone never do it.
THEOREM AnnouncedGoneIfDeletionsHappen ==
    Spec => ([][DeletionsHappen]_vars => []AnnouncedAreGone)
<1>1. Init => AnnouncedAreGoing
  <2> SUFFICES ASSUME Init PROVE AnnouncedAreGoing
    OBVIOUS
  <2>1. Range(topic) = {} /\ Range(sending) = {}
    BY DEF Init, Range
  <2> QED
    BY <2>1 DEF AnnouncedAreGoing
<1>2. AnnouncedAreGoing => AnnouncedAreGone
  BY DEF AnnouncedAreGoing, AnnouncedAreGone
<1> QED
  BY <1>1, <1>2, AnnouncedNext, CatalogueIndInvHolds, PTL DEF Spec

----------------------------------------------------------------------------
(* What the readers see                                                    *)

\* Every step is one of the shelf's or a stutter: what a request remembers is
\* what makes it one.
LEMMA ShelfStep == IndInv /\ [Next]_vars => [Shelf!Next]_(Shelf!vars)
<1> SUFFICES ASSUME IndInv, [Next]_vars PROVE Shelf!Next \/ UNCHANGED Shelf!vars
  OBVIOUS
<1> DEFINE Dead(t) == {e.id : e \in {f \in Range(t) : f.type = "core.deleted"}}
<1>0. TypeOK /\ RequestsKnow /\ EventsAreTrue /\ nextId \in Nat
  BY DEF IndInv, TypeOK
<1>1. ASSUME UNCHANGED <<price, stock, nextId>>, Dead(topic') = Dead(topic)
      PROVE  UNCHANGED Shelf!vars
  BY <1>1 DEF Shelf!vars
<1>2. ASSUME NEW c \in Clients, NEW pr \in Prices, NEW am \in Amounts,
             CreateProduct(c, pr, am)
      PROVE  Shelf!Next
  <2>1. nextId \in ProductId /\ am \in 1 .. MaxAmount
    BY <1>0, <1>2 DEF CreateProduct, ProductId, TypeOK
  <2>2. /\ nextId \notin 1 .. nextId - 1
        /\ 1 .. nextId' - 1 = (1 .. nextId - 1) \cup {nextId}
    BY <1>0, <1>2, <2>1 DEF CreateProduct, ProductId
  <2>3. Shelf!PutUp(nextId, pr, am)
    BY <1>2, <2>2 DEF CreateProduct, events, Shelf!PutUp
  <2> QED
    BY <2>1, <2>3 DEF Shelf!Next
<1>3. ASSUME NEW c \in Clients, CommitDelete(c)
      PROVE  Shelf!Next
  <2>1. item[c] \in ProductId /\ Exists(item[c])
    BY <1>0, <1>3 DEF CommitDelete, TypeOK, IndInv, OpenDeletionHasRow
  <2>2. Shelf!TakeDown(item[c])
    BY <1>3, <2>1 DEF CommitDelete, events, Shelf!TakeDown, Shelf!Exists, Exists
  <2> QED
    BY <2>1, <2>2 DEF Shelf!Next
<1>4. ASSUME NEW c \in Clients, UpdateStock(c)
      PROVE  Shelf!Next \/ UNCHANGED Shelf!vars
  <2> DEFINE n == seen[c] + adding[c]
  <2>0. UNCHANGED <<price, nextId, topic>>
    BY <1>4 DEF UpdateStock, events
  <2>1. CASE Exists(item[c]) /\ n <= MaxAmount
    <3>1. /\ seen[c] > 0 /\ adding[c] > 0 /\ seen[c] \in Nat
          /\ adding[c] \in Amounts \cup {0} /\ item[c] \in ProductId
      BY <1>0, <1>4 DEF UpdateStock, TypeOK, RequestsKnow, Knows
    <3>2. n \in 1 .. MaxAmount /\ n > 1
      <4>1. adding[c] \in Nat
        BY <3>1, AmountNat
      <4> QED
        BY <2>1, <3>1, <4>1
    <3>3. stock' = [stock EXCEPT ![item[c]] = n]
      BY <1>4, <2>1 DEF UpdateStock
    <3> HIDE DEF n
    <3>4. Shelf!Restock(item[c], n)
      BY <2>0, <2>1, <3>2, <3>3 DEF Shelf!Restock, Shelf!Exists, Exists
    <3> QED
      BY <3>1, <3>2, <3>4 DEF Shelf!Next
  <2>2. CASE ~(Exists(item[c]) /\ n <= MaxAmount)
    BY <1>1, <1>4, <2>0, <2>2 DEF UpdateStock
  <2> QED
    BY <2>1, <2>2
<1>5. ASSUME NEW i \in 1 .. Len(sending), Deliver(i) \/ Lose(i)
      PROVE  Shelf!Next \/ UNCHANGED Shelf!vars
  <2> DEFINE e == sending[i]
  <2>0. UNCHANGED <<price, stock, nextId>>
    BY <1>5 DEF Deliver, Lose, rows
  <2>1. e \in Event /\ e \in Range(sending)
        /\ (topic' = topic \/ Range(topic') = Range(topic) \cup {e})
    BY <1>0, <1>5, DeliverRange
  <2>2. /\ e.id \in ProductId /\ e.id \in 1 .. nextId - 1
        /\ (e.type = "core.deleted" /\ Exists(e.id)) => price[e.id] >= CheapPrice
    BY <1>0, <2>1 DEF EventsAreTrue, Event, ProductId
  <2> HIDE DEF e
  <2>3. CASE topic' = topic
    BY <1>1, <2>0, <2>3
  <2>4. CASE Range(topic') = Range(topic) \cup {e} /\ e.type = "core.deleted"
    <3>1. Dead(topic') = Dead(topic) \cup {e.id}
      BY <2>4
    <3>2. PICK p \in ProductId : p = e.id
      BY <2>2
    <3>3. Shelf!Announce(p)
      BY <2>0, <2>2, <2>4, <3>1, <3>2 DEF Shelf!Announce, Shelf!Exists, Exists
    <3> QED
      BY <3>3 DEF Shelf!Next
  <2>5. CASE Range(topic') = Range(topic) \cup {e} /\ e.type # "core.deleted"
    <3>1. Dead(topic') = Dead(topic)
      BY <2>5
    <3> QED
      BY <1>1, <2>0, <3>1
  <2> QED
    BY <2>1, <2>3, <2>4, <2>5
<1>6. ASSUME UNCHANGED <<rows, topic>>
      PROVE  UNCHANGED Shelf!vars
  BY <1>1, <1>6 DEF rows
<1>7. ASSUME NEW c \in Clients,
             \/ PublishCreated(c)
             \/ \E r \in {"ok", "error"} : PublishDeleted(c, r)
      PROVE  UNCHANGED Shelf!vars
  BY <1>6, <1>7 DEF PublishCreated, PublishDeleted, Publish
<1> QED
  BY <1>2, <1>3, <1>4, <1>5, <1>6, <1>7
     DEF Next, Serve, Progress, DeleteRequest, AddRequest, GetProduct, ReadStock,
         DeleteProductWithTransaction, CommitFails, NotFound, StatementFails,
         CancelTransaction, events, vars

\* For every reader of the table and of the topic the catalogue is a shelf: a
\* price stays, what is taken down does not come back, ids are never given
\* twice, and no cheap product is announced as deleted.
THEOREM ImplementsShelfHolds == Spec => ImplementsShelf
<1>1. Init => Shelf!Init
  <2> SUFFICES ASSUME Init PROVE Shelf!Init
    OBVIOUS
  <2>1. 1 .. nextId - 1 = {} /\ Range(topic) = {}
    BY DEF Init, Range
  <2> QED
    BY <2>1 DEF Init, Shelf!Init
<1> QED
  BY <1>1, ShelfStep, CatalogueIndInvHolds, PTL DEF Spec, ImplementsShelf, Shelf!Spec
===============================================================================
