--------------------------------- MODULE Shop ---------------------------------
(***************************************************************************)
(* The two services together: the core service with its catalogue          *)
(* (ProductCatalogue), the order service (OrderService), and what passes   *)
(* between them, the gRPC call GetProducts and the topic core-events with  *)
(* the order service's consumer (internal/events/consumers/orders).        *)
(*                                                                         *)
(* The topic is one sequence; ProductCatalogue delivers to it in any       *)
(* order, which stands for its partitions.  Of the consumer group there is *)
(* the offset it has committed and the one the reader has reached.         *)
(* A crash of the order service is a failure of each request under way,    *)
(* which are steps of OrderService, and of the reader (Close).             *)
(***************************************************************************)
EXTENDS Integers, Sequences

CONSTANTS
    Clients, Handlers, Consumer, Nobody,         \* goroutines
    Users, NoUser, Prices, Amounts, Quantities,  \* what requests contain
    NoItem, CheapPrice, DearPrice,
    MaxProducts, MaxOrders, MaxEvents, Int32Max,
    NoOffset     \* the group has committed nothing, or there is no reader

ASSUME ShopAssumption ==
    /\ Consumer \notin Handlers
    /\ Nobody \notin Clients \cup Handlers \cup {Consumer}
    /\ NoUser \notin Users
    /\ NoItem \notin Nat /\ NoOffset \notin Nat
    /\ Prices \cup Amounts \cup Quantities \subseteq Nat \ {0}
    /\ {CheapPrice, DearPrice, MaxProducts, MaxOrders, MaxEvents, Int32Max}
          \subseteq Nat
    /\ CheapPrice <= DearPrice

VARIABLES
    \* of ProductCatalogue
    price, stock, productSeq, rowLock, clientPc, item, seen, adding, told,
    answer, sending, topic,
    \* of OrderService
    owner, hours, amount, exists, orderSeq, orderLock, itemLock, handlerPc,
    user, qty, found, target, todo, cur, draftHours, draftAmount, draftExists,
    reply, marking, markTodo, markCur,
    \* of the consumer
    committed,   \* how many events of the topic the group has committed
    position,    \* how many events the reader has read
    handled      \* the offsets of the events that were handled

Catalogue == INSTANCE ProductCatalogue WITH
    nextId <- productSeq, pc <- clientPc, reply <- answer, MaxAmount <- Int32Max

Products == Catalogue!ProductId

Orders == INSTANCE OrderService WITH nextId <- orderSeq, pc <- handlerPc

core == <<price, stock, productSeq, rowLock, clientPc, item, seen, adding, told,
          answer, sending, topic>>
orders == <<owner, hours, amount, exists, orderSeq, orderLock, itemLock,
            handlerPc, user, qty, found, target, todo, cur, draftHours,
            draftAmount, draftExists, reply, marking, markTodo, markCur>>
group == <<committed, position, handled>>
vars == <<core, orders, group>>

Offset == 0 .. MaxEvents

\* Of the group: it is never ahead of the topic.
GroupOK ==
    /\ \A n \in {committed, position} \ {NoOffset} : n \in 0 .. Len(topic)
    /\ handled \subseteq 1 .. Len(topic)

TypeOK == Catalogue!TypeOK /\ Orders!TypeOK /\ GroupOK

Init ==
    /\ Catalogue!Init
    /\ Orders!Init
    /\ committed = NoOffset
    /\ position = NoOffset
    /\ handled = {}

----------------------------------------------------------------------------

CoreStep ==
    /\ \/ \E c \in Clients : Catalogue!Serve(c)
       \/ \E i \in 1 .. Len(sending) : Catalogue!Deliver(i) \/ Catalogue!Lose(i)
    /\ UNCHANGED <<orders, group>>

\* GetProductsByIDs reads the committed table, and may stop reading early.
Offered == Catalogue!Present

\* A bug: what was asked for is taken for what the core service returned.
TakesAll(h) == found'[h] \subseteq Products

IsOffered(h) == found'[h] \subseteq found[h] \cup Offered

OrderStep ==
    /\ \/ \E h \in Handlers : Orders!Handle(h) /\ IsOffered(h)
       \/ Orders!MarkProgress
       \/ Orders!FailMark
    /\ UNCHANGED <<core, group>>

\* A request, and a marking, goes on without a failure of the outside.
OrderProgress(h) ==
    Orders!Progress(h) /\ IsOffered(h) /\ UNCHANGED <<core, group>>

MarkProgress == Orders!MarkProgress /\ UNCHANGED <<core, group>>

----------------------------------------------------------------------------
(* ProductConsumer                                                         *)

\* A bug: the last offset is taken for that of the last event, not the next.
JoinPastEnd ==
    /\ position = NoOffset
    /\ position' = IF committed = NoOffset THEN Len(topic) + 1 ELSE committed
    /\ UNCHANGED <<core, orders, committed, handled>>

\* A reader starts where the group stopped, or at the end of the topic.
Join ==
    /\ position = NoOffset
    /\ position' = IF committed = NoOffset THEN Len(topic) ELSE committed
    /\ UNCHANGED <<core, orders, committed, handled>>

\* A bug: every event is taken for a deletion.
HandleAny(i) ==
    /\ Orders!StartMark(topic[i].id)
    /\ handled' = handled \cup {i}

\* handleMessage: only a deletion does something.
HandleMessage(i) ==
    /\ \/ /\ topic[i].type = "core.deleted"
          /\ Orders!StartMark(topic[i].id)
       \/ /\ topic[i].type # "core.deleted"
          /\ UNCHANGED orders
    /\ handled' = handled \cup {i}

\* A bug: the last event of the topic is taken for its end.
ReadsAllButLast(i) ==
    /\ marking = NoItem
    /\ position # NoOffset
    /\ i = position + 1
    /\ i < Len(topic)

\* The consumer's goroutine reads the next event.
Reads(i) ==
    /\ marking = NoItem
    /\ position # NoOffset
    /\ i = position + 1
    /\ i <= Len(topic)

\* A bug: FetchMessage, and CommitMessages after the message was handled.
FetchMessage(i) ==
    /\ Reads(i)
    /\ HandleMessage(i)
    /\ position' = i
    /\ committed' \in {i, committed}
    /\ UNCHANGED core

\* ReadMessage commits the offset and returns the message.
ReadMessage(i) ==
    /\ Reads(i)
    /\ HandleMessage(i)
    /\ position' = i
    /\ committed' = i
    /\ UNCHANGED core

\* The commit fails or its answer is lost: ReadMessage returns an error, the
\* reader has moved on all the same, and the loop reads the next message.
SkipMessage(i) ==
    /\ Reads(i)
    /\ position' = i
    /\ committed' \in {i, committed}
    /\ UNCHANGED <<core, orders, handled>>

\* The order service stops or crashes.
Close ==
    /\ marking = NoItem
    /\ position # NoOffset
    /\ position' = NoOffset
    /\ UNCHANGED <<core, orders, committed, handled>>

ReadNext == \E i \in Offset \ {0} : ReadMessage(i) \/ SkipMessage(i)

Next ==
    \/ CoreStep
    \/ OrderStep
    \/ Join
    \/ ReadNext
    \/ Close

Spec == Init /\ [][Next]_vars

\* Statements run as in OrderService, and the consumer's loop goes on.  The
\* core service and the writer owe nothing, and nobody restarts a consumer.
FairSpec ==
    /\ Spec
    /\ \A h \in Handlers : SF_vars(OrderProgress(h))
    /\ SF_vars(MarkProgress)
    /\ WF_vars(ReadNext)

----------------------------------------------------------------------------
(* What must hold.                                                         *)

Unread(i) == position # NoOffset /\ position < i /\ i <= Len(topic)

Announced(p) == [type |-> "core.deleted", id |-> p]

WasHandled(p) == \E i \in handled : topic[i] = Announced(p)

\* Across both databases: an order holds only products the core service has
\* had, and an item is marked only after the core service has announced the
\* deletion of its product, which was then not a cheap one if it is there.
MarksAnnounced ==
    \A o \in Orders!OrderId, p \in Products : amount[o][p] > 0 =>
       /\ p < productSeq
       /\ ~exists[o][p] =>
            /\ WasHandled(p)
            /\ Catalogue!Exists(p) => price[p] >= CheapPrice

\* What was handled is committed, and a reader is never behind that.
GroupInOrder ==
    /\ \A i \in handled : committed # NoOffset /\ i <= committed
    /\ (committed # NoOffset /\ position # NoOffset) => committed <= position

\* What the order service knows of a product it has from the shelf, whatever
\* became of the product since, and what it marks it has from the topic.
OrdersKnow ==
    /\ \A h \in Handlers, p \in Products :
          /\ p \in found[h] => p < productSeq
          /\ ~draftExists[h][p] => WasHandled(p)
    /\ \A o \in Orders!OrderId, p \in Products :
          /\ amount[o][p] > 0 => p < productSeq
          /\ ~exists[o][p] => WasHandled(p)
          /\ itemLock[o][p] = Consumer => marking = p
    /\ marking # NoItem => WasHandled(marking)

IndInv ==
    /\ TypeOK
    /\ Catalogue!IndInv
    /\ GroupInOrder
    /\ OrdersKnow

\* No event is handled twice, however often the order service restarts.
AtMostOnce ==
    [][\A i \in 1 .. Len(topic) :
          (i \in handled /\ Reads(i) /\ position' = i) => UNCHANGED marking]_vars

Used == 1 .. productSeq - 1
InTopic == {e.id : e \in {f \in Catalogue!Range(topic) : f.type = "core.deleted"}}

Books == INSTANCE ShopBooks WITH
    used <- Used, announced <- InTopic, HoursFor <- Orders!HoursFor,
    purchase <- Orders!Purchases, removal <- Orders!Removals

\* Whoever reads both databases and the topic sees two books that move one at a
\* time, each by the rules of its own, and in step: a purchase is offered only
\* what was put up, however old the answer it rests on, an order takes in whole
\* purchases and nothing else, and an item is flagged only after the topic has
\* the deletion of its product.
ImplementsBooks == Books!Spec

\* No event stays unread by a consumer that stays: it never waits for ever
\* behind an event whose marking waits for the rows of requests.
EventsRead == \A i \in Offset \ {0} : Unread(i) ~> ~Unread(i)
===============================================================================
