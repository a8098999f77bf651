--------------------------- MODULE ProductCatalogue ---------------------------
(***************************************************************************)
(* The core service's products (internal/service/core/product/service.go   *)
(* over internal/repo/postgres/product/product_repo.go) and the events it  *)
(* publishes about them (kafka_publisher.go).                              *)
(*                                                                         *)
(* A client is the goroutine of an HTTP request that creates a product,    *)
(* deletes one or adds to its stock.  price and stock are the committed    *)
(* table; the DELETE of a transaction that is still open shows only as the *)
(* lock on the row.  What a request publishes is sent until the broker has *)
(* it in the topic or it is lost: the writer asks for no acknowledgement,  *)
(* so Publish may succeed and the event be lost, and after a timeout it    *)
(* may fail and the event still arrive.                                    *)
(***************************************************************************)
EXTENDS Integers, Sequences, SequencesExt

CONSTANTS
    Clients,     \* goroutines of the HTTP server
    Nobody,      \* the holder of a free lock
    Prices,      \* prices of new products
    Amounts,     \* stocks of new products, and additions to them
    CheapPrice,  \* 1000: what costs less is deleted without an event
    DearPrice,   \* 10000: what costs more is deleted only with its event
    MaxProducts, \* the last value of the sequence behind products.id
    MaxAmount,   \* the largest value of a Postgres INTEGER
    MaxEvents    \* bound: no request starts once so many events are out

ASSUME CatalogueAssumption ==
    /\ Nobody \notin Clients
    /\ Prices \subseteq Nat \ {0}
    /\ Amounts \subseteq Nat \ {0}
    /\ {CheapPrice, DearPrice, MaxProducts, MaxAmount, MaxEvents} \subseteq Nat
    /\ CheapPrice <= DearPrice

VARIABLES
    price,       \* products.price by id, 0 where there is no row
    stock,       \* products.amount
    nextId,      \* the sequence behind products.id
    rowLock,     \* the client whose transaction has deleted the row
    pc,          \* where the client is
    item,        \* the product it works on
    seen,        \* the price, or for an addition the stock, that it read
    adding,      \* what it adds to the stock
    told,        \* what Publish returned to it
    reply,       \* what it answered to its last request
    sending,     \* events on their way to the broker
    topic        \* the topic core-events

rows == <<price, stock, nextId>>
events == <<sending, topic>>
vars == <<rows, rowLock, pc, item, seen, adding, told, reply, events>>

ProductId == 1 .. MaxProducts
Event == [type : {"core.created", "core.deleted"}, id : ProductId]
Exists(p) == price[p] > 0
Present == {p \in ProductId : Exists(p)}

TypeOK ==
    /\ price \in [ProductId -> Prices \cup {0}]
    /\ stock \in [ProductId -> 0 .. MaxAmount]
    /\ nextId \in 1 .. MaxProducts + 1
    /\ rowLock \in [ProductId -> Clients \cup {Nobody}]
    /\ pc \in [Clients -> {"idle", "created", "read", "delete", "publish",
                           "commit", "stock", "update"}]
    /\ item \in [Clients -> ProductId \cup {0}]
    /\ seen \in [Clients -> Nat]
    /\ adding \in [Clients -> Amounts \cup {0}]
    /\ told \in [Clients -> {"none", "ok", "error"}]
    /\ reply \in [Clients -> {"none", "ok", "error"}]
    /\ sending \in Seq(Event)
    /\ topic \in Seq(Event)
    /\ \A p \in ProductId : stock[p] = 0 <=> price[p] = 0
    /\ \A c \in Clients : pc[c] # "idle" => item[c] \in ProductId

Init ==
    /\ price = [p \in ProductId |-> 0]
    /\ stock = [p \in ProductId |-> 0]
    /\ nextId = 1
    /\ rowLock = [p \in ProductId |-> Nobody]
    /\ pc = [c \in Clients |-> "idle"]
    /\ item = [c \in Clients |-> 0]
    /\ seen = [c \in Clients |-> 0]
    /\ adding = [c \in Clients |-> 0]
    /\ told = [c \in Clients |-> "none"]
    /\ reply = [c \in Clients |-> "none"]
    /\ sending = <<>>
    /\ topic = <<>>

----------------------------------------------------------------------------

\* The request is answered and what the client remembered of it is forgotten.
Finish(c, r) ==
    /\ pc' = [pc EXCEPT ![c] = "idle"]
    /\ reply' = [reply EXCEPT ![c] = r]
    /\ item' = [item EXCEPT ![c] = 0]
    /\ seen' = [seen EXCEPT ![c] = 0]
    /\ adding' = [adding EXCEPT ![c] = 0]
    /\ told' = [told EXCEPT ![c] = "none"]

\* A bug: the transaction is left open.
KeptLock(c) == UNCHANGED rowLock

\* The transaction is over: a row it had locked is free.
Unlock(c) ==
    rowLock' = [p \in ProductId |-> IF rowLock[p] = c THEN Nobody ELSE rowLock[p]]

Start(c, p, step) ==
    /\ pc[c] = "idle"
    /\ Len(sending) + Len(topic) < MaxEvents
    /\ pc' = [pc EXCEPT ![c] = step]
    /\ item' = [item EXCEPT ![c] = p]
    /\ reply' = [reply EXCEPT ![c] = "none"]

\* Whatever Publish returns, the event is on its way or lost.
Publish(type, p) ==
    /\ \/ sending' = Append(sending, [type |-> type, id |-> p])
       \/ UNCHANGED sending
    /\ UNCHANGED topic

----------------------------------------------------------------------------
(* Create: the INSERT, and then the event, whose failure is only logged.   *)
(* An amount beyond the column is refused.                                 *)

CreateProduct(c, pr, am) ==
    /\ nextId <= MaxProducts
    /\ am <= MaxAmount
    /\ Start(c, nextId, "created")
    /\ price' = [price EXCEPT ![nextId] = pr]
    /\ stock' = [stock EXCEPT ![nextId] = am]
    /\ nextId' = nextId + 1
    /\ UNCHANGED <<rowLock, seen, adding, told, events>>

PublishCreated(c) ==
    /\ pc[c] = "created"
    /\ Publish("core.created", item[c])
    /\ Finish(c, "ok")
    /\ UNCHANGED <<rows, rowLock>>

----------------------------------------------------------------------------
(* Delete: read the price, DELETE in a transaction, publish, commit.       *)

DeleteRequest(c, p) ==
    /\ Start(c, p, "read")
    /\ UNCHANGED <<rows, rowLock, seen, adding, told, events>>

GetProduct(c) ==
    /\ pc[c] = "read"
    /\ Exists(item[c])
    /\ seen' = [seen EXCEPT ![c] = price[item[c]]]
    /\ pc' = [pc EXCEPT ![c] = "delete"]
    /\ UNCHANGED <<rows, rowLock, item, adding, told, reply, events>>

\* A bug: the deletion of a cheap product is announced, too.
AnnounceAll(c) ==
    /\ pc[c] = "delete"
    /\ rowLock[item[c]] = Nobody
    /\ Exists(item[c])
    /\ rowLock' = [rowLock EXCEPT ![item[c]] = c]
    /\ pc' = [pc EXCEPT ![c] = "publish"]
    /\ UNCHANGED <<rows, item, seen, adding, told, reply, events>>

\* The DELETE waits for a transaction that has the row.
DeleteProductWithTransaction(c) ==
    /\ pc[c] = "delete"
    /\ rowLock[item[c]] = Nobody
    /\ Exists(item[c])
    /\ rowLock' = [rowLock EXCEPT ![item[c]] = c]
    /\ pc' = [pc EXCEPT ![c] =
                IF seen[c] < CheapPrice THEN "commit" ELSE "publish"]
    /\ UNCHANGED <<rows, item, seen, adding, told, reply, events>>

\* A bug: the answer of the publisher is not looked at.
AlwaysGoesOn(c, r) == TRUE

\* May the deletion go on, now that Publish has returned r?
GoesOn(c, r) == r = "ok" \/ seen[c] <= DearPrice

PublishDeleted(c, r) ==
    /\ pc[c] = "publish"
    /\ Publish("core.deleted", item[c])
    /\ \/ /\ GoesOn(c, r)
          /\ told' = [told EXCEPT ![c] = r]
          /\ pc' = [pc EXCEPT ![c] = "commit"]
          /\ UNCHANGED <<rowLock, item, seen, adding, reply>>
       \/ /\ ~GoesOn(c, r)
          /\ Unlock(c)
          /\ Finish(c, "error")
    /\ UNCHANGED rows

\* A bug: nobody looks at the error of a commit, whatever the price.
ReplyOk(c) == "ok"

\* What Delete answers to a commit that fails, as far as it can see: it does
\* not look at the error when the product is cheap.
ReplyToFailure(c) == IF seen[c] < CheapPrice THEN "ok" ELSE "error"

\* The commit, whose answer may be lost.
CommitDelete(c) ==
    /\ pc[c] = "commit"
    /\ rowLock[item[c]] = c
    /\ price' = [price EXCEPT ![item[c]] = 0]
    /\ stock' = [stock EXCEPT ![item[c]] = 0]
    /\ Unlock(c)
    /\ \E r \in {"ok", ReplyToFailure(c)} : Finish(c, r)
    /\ UNCHANGED <<nextId, events>>

\* The commit fails.
CommitFails(c) ==
    /\ pc[c] = "commit"
    /\ Unlock(c)
    /\ Finish(c, ReplyToFailure(c))
    /\ UNCHANGED <<rows, events>>

\* The context of the transaction ends (its 10 seconds are over, or the
\* client has gone) and database/sql rolls it back under Delete's hands.
CancelTransaction(c) ==
    /\ pc[c] \in {"publish", "commit"}
    /\ rowLock[item[c]] = c
    /\ Unlock(c)
    /\ UNCHANGED <<rows, pc, item, seen, adding, told, reply, events>>

----------------------------------------------------------------------------
(* AddProduct: a SELECT and an UPDATE, in no transaction.                  *)

AddRequest(c, p, am) ==
    /\ Start(c, p, "stock")
    /\ adding' = [adding EXCEPT ![c] = am]
    /\ UNCHANGED <<rows, rowLock, seen, told, events>>

ReadStock(c) ==
    /\ pc[c] = "stock"
    /\ Exists(item[c])
    /\ seen' = [seen EXCEPT ![c] = stock[item[c]]]
    /\ pc' = [pc EXCEPT ![c] = "update"]
    /\ UNCHANGED <<rows, rowLock, item, adding, told, reply, events>>

\* A bug: the sum is written whether or not there is a row for it.
UpdateAnyway(c) ==
    /\ pc[c] = "update"
    /\ rowLock[item[c]] = Nobody
    /\ stock' = [stock EXCEPT ![item[c]] = seen[c] + adding[c]]
    /\ Finish(c, "error")
    /\ UNCHANGED <<price, nextId, rowLock, events>>

\* The UPDATE has no RETURNING, so there is no row to scan: the answer is an
\* error even when the new stock is written.
UpdateStock(c) ==
    /\ pc[c] = "update"
    /\ rowLock[item[c]] = Nobody
    /\ stock' = IF Exists(item[c]) /\ seen[c] + adding[c] <= MaxAmount
                THEN [stock EXCEPT ![item[c]] = seen[c] + adding[c]] ELSE stock
    /\ Finish(c, "error")
    /\ UNCHANGED <<price, nextId, rowLock, events>>

----------------------------------------------------------------------------

\* The product is not there, or not any more.
NotFound(c) ==
    /\ \/ pc[c] \in {"read", "stock"}
       \/ pc[c] = "delete" /\ rowLock[item[c]] = Nobody
    /\ ~Exists(item[c])
    /\ Finish(c, "error")
    /\ UNCHANGED <<rows, rowLock, events>>

\* A statement fails before it has changed or locked anything, or after its
\* INSERT or UPDATE has been committed.
StatementFails(c) ==
    /\ pc[c] \in {"created", "read", "delete", "stock", "update"}
    /\ Finish(c, "error")
    /\ UNCHANGED <<rows, rowLock, events>>

\* The broker takes the events in any order (the topic's partitions), or
\* never gets one.
Deliver(i) ==
    /\ topic' = Append(topic, sending[i])
    /\ sending' = RemoveAt(sending, i)
    /\ UNCHANGED <<rows, rowLock, pc, item, seen, adding, told, reply>>

Lose(i) ==
    /\ sending' = RemoveAt(sending, i)
    /\ UNCHANGED <<rows, rowLock, pc, item, seen, adding, told, reply, topic>>

\* The steps of a request under way.
Progress(c) ==
    \/ PublishCreated(c)
    \/ GetProduct(c)
    \/ DeleteProductWithTransaction(c)
    \/ \E r \in {"ok", "error"} : PublishDeleted(c, r)
    \/ CommitDelete(c)
    \/ CommitFails(c)
    \/ ReadStock(c)
    \/ UpdateStock(c)
    \/ NotFound(c)

Serve(c) ==
    \/ \E pr \in Prices, am \in Amounts : CreateProduct(c, pr, am)
    \/ \E p \in ProductId : DeleteRequest(c, p)
    \/ \E p \in ProductId, am \in Amounts : AddRequest(c, p, am)
    \/ Progress(c)
    \/ StatementFails(c)
    \/ CancelTransaction(c)

Next ==
    \/ \E c \in Clients : Serve(c)
    \/ \E i \in 1 .. Len(sending) : Deliver(i) \/ Lose(i)

Spec == Init /\ [][Next]_vars

\* Every call of a request returns, by its deadline at the latest, and
\* Postgres queues those who wait for a row.
FairSpec == Spec /\ \A c \in Clients : SF_vars(Progress(c))

----------------------------------------------------------------------------
(* What must hold.                                                         *)

\* A dear product disappears only if Publish has accepted its event.
DearOnesAnnounced ==
    [][\A p \in ProductId : (price[p] > DearPrice /\ price'[p] = 0) =>
          \E c \in Clients : item[c] = p /\ told[c] = "ok"]_vars

\* A deletion that is answered with success has taken the product away, and
\* itself: a lost commit, a rollback by the deadline or another deletion of the
\* same product never passes for it.  Below CheapPrice this is not so:
\* Delete does not look at the error of that commit (service.go:167).
OkDeletionsHappen ==
    [][\A c \in Clients :
          (/\ pc[c] = "commit" /\ pc'[c] = "idle"
           /\ reply'[c] = "ok" /\ seen[c] >= CheapPrice) =>
             Exists(item[c]) /\ price'[item[c]] = 0]_vars

\* An open deletion still has its row, whoever else wants it: two requests
\* never both delete a product.
OpenDeletionHasRow ==
    \A p \in ProductId : rowLock[p] # Nobody =>
       /\ Exists(p)
       /\ item[rowLock[p]] = p
       /\ pc[rowLock[p]] \in {"publish", "commit"}

\* Every event is about a product there has been, and one about a deletion
\* about a product that was not cheap when it was there.
EventsAreTrue ==
    \A e \in Range(topic) \cup Range(sending) :
       /\ e.id < nextId
       /\ (e.type = "core.deleted" /\ Exists(e.id)) => price[e.id] >= CheapPrice

\* What a request remembers of its product stays true for as long as the
\* product is there: its id is never given to another, its price never
\* changes, and nobody takes it away under an open deletion.
Knows(c) ==
    /\ pc[c] \in {"created", "delete", "publish", "commit"} => item[c] < nextId
    /\ (pc[c] \in {"delete", "publish", "commit"} /\ Exists(item[c])) =>
          price[item[c]] = seen[c]
    /\ pc[c] = "publish" => seen[c] >= CheapPrice
    /\ (pc[c] = "commit" /\ seen[c] > DearPrice) => told[c] = "ok"
    /\ pc[c] \in {"stock", "update"} => adding[c] > 0
    /\ pc[c] = "update" => seen[c] > 0

RequestsKnow == \A c \in Clients : Knows(c)

IndInv ==
    /\ TypeOK
    /\ \A p \in ProductId : Exists(p) => p < nextId
    /\ OpenDeletionHasRow
    /\ RequestsKnow
    /\ EventsAreTrue

Shelf == INSTANCE ProductShelf WITH
    used <- 1 .. nextId - 1,
    announced <- {e.id : e \in {f \in Range(topic) : f.type = "core.deleted"}}

\* What the readers of the table and of the topic see: a price never changes
\* while a product is there, nothing comes back once it is deleted, neither
\* by a late addition to its stock nor under an old id, and no cheap product
\* is announced as deleted.
ImplementsShelf == Shelf!Spec

\* Every request is answered.
RequestsAnswered == \A c \in Clients : (pc[c] # "idle") ~> (pc[c] = "idle")

----------------------------------------------------------------------------
(* What the source says and the code does not do.                          *)

\* service.go: the event is about the deletion of a product.  Once no
\* deletion is under way, a product whose deletion was announced has gone.
AnnouncedAreGone ==
    (\A c \in Clients : pc[c] = "idle") =>
       \A e \in Range(topic) : e.type = "core.deleted" => ~Exists(e.id)
==============================================================================
