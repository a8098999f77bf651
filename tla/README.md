# A TLA+ model of go-learn

`go-learn` is a small shop made of two Go services, each with a database of its
own. This directory holds TLA+ modules that model their state, model-checking
configurations for TLC, and proofs for the TLA+ proof system.

## The system

| Component | State it keeps | Operations | Talks to |
|---|---|---|---|
| Order service (`internal/service/order/service.go`, `internal/repo/postgres/order`) | tables `orders`, `order_items` (Postgres) | Create (a new order, or a merge into the user's newest one), Get, Delete, MarkDeletedProduct | core service by gRPC `GetProducts` |
| Purchase counters (`internal/service/order/cache.go`, `internal/repo/redis/order`) | a key with a TTL of 5 s per product (Redis) | BuyProduct, GetOrderCount, DeleteProduct, GetAllProducts | – |
| Consumer (`internal/events/consumers/orders`) | its group's offset (Kafka) | reads `core-events`; for `core.deleted` marks the items and drops the counter | order service, counters, by calls |
| Catalogue (`internal/service/core/product`, `internal/repo/postgres/product`) | table `products` (Postgres) | Create, Get, GetProductsByIDs, GetAllProducts, Delete, AddProduct | publishes `core.created`, `core.deleted` |
| Publisher (`internal/events/producers/products`) | the writer's queue | Publish | Kafka topic `core-events` |
| Sessions (`internal/service/core/auth`, `internal/repo/postgres/sesssion`, `internal/repo/redis/session`) | table `sessions` (Postgres), a copy of some rows for at most 30 s (Redis) | Login, Authenticate (the middleware of every protected route), Logout | – |
| Users (`internal/service/core/user`) | table `users` (Postgres) | Create | read by Login |
| gRPC (`internal/facade/grpc`) | none | GetProducts; the order service's own server is never started | catalogue |
| Process of the order service (`cmd/order/main.go`) | which goroutines run, what is closed | start, stop by signal or by a failing listener, Shutdown within 5 s | HTTP server, consumer, Redis, Postgres |
| REST handlers, metrics, process of the core service (`internal/facade/rest`, `internal/metrics`, `cmd/core`) | none | parse requests, count them, start and stop the rest | all services |

Every HTTP request runs in a goroutine of its own and the consumer in one more.
They share no memory: they meet in Postgres, Redis and Kafka, each statement or
command of which is atomic, and every call has a deadline after which it fails
whatever it has done. What is hard follows from that:

- **between two statements** anything may happen: the order that was found is
  deleted, the stock that was read changes, a logout passes an authentication;
- **row locks**: the transactions of merges, deletions and markings lock rows
  in orders of their own (the iteration of a Go map, the order of a table);
- **failures half way**: of a statement, of a commit (whose answer may be lost),
  of the second of two Redis commands;
- **two systems, one step**: the deletion of a product is announced before it
  is committed, the offset of an event is committed before it is handled;
- **the end of the process**: main waits for HTTP requests, for 5 seconds and no
  longer, and for the consumer not at all, and closes what they may still use;
- **time**: copies and counters with a time to live, calls that are still on
  their way when it ends;
- **numbers**: quantities summed as `int64`, narrowed to `int32`, added up in an
  `INTEGER` column.

What makes each component correct:

- *Orders*: a request goes into the tables with all it was offered (and the
  delivery time of what was asked for), in one step and once, or not at all; no
  concurrent request or marking is lost or undone, no deadlock, every request is
  answered.
- *Catalogue*: two deletions of one product exclude each other, a product above
  10000 goes only when its event was accepted, one below 1000 without an event,
  no announcement without a product; for its readers, a product keeps its price
  and never comes back.
- *Users*: an account that was reported as created stays as it was reported.
- *Sessions*: a logout takes effect within the life of a copy and the time a
  request may take, no copy outlives its token by more than the latter, both but
  for a copy that is set without an expiry; a token that is over stays out.
- *Counters*: a counter goes when nobody buys the product any more.
- *The order service's process*: what main reports of its stop is true, a stop
  comes to an end, the consumer comes back from every event.
- *Both services*: an item is marked only if the deletion of its product has
  been announced, no event is handled twice, and none stays unread.

## The modules

| Module | What it is |
|---|---|
| `OrderLedger` | What the order tables promise a reader who knows the requests under way: each goes in whole and once or not at all; orders are marked, and removed when somebody asks. |
| `OrderService` | The order service, one SQL statement a step, with row locks and uncommitted drafts. Implements `OrderLedger`. |
| `OrderTypeProofs`, `OrderLockProofs`, `OrderLedgerProofs` | Its theorems. |
| `OrderPromiseProofs` | When what the source claims of orders is true, and why requests come to an end. |
| `ProductCatalogue` | The catalogue with its transactions, and its events up to the topic. |
| `ProductShelf` | What the catalogue promises the readers of its table and of the topic. `ProductCatalogue` implements it. |
| `ProductCatalogueProofs` | The catalogue's theorems. |
| `TokenLife` | What a token promises: new, live, fading, over. |
| `Sessions` | Users in Postgres, sessions in Postgres and Redis, in time. Implements `TokenLife`. |
| `SessionsProofs` | Its theorems. |
| `OrderCounters` | The purchase counters in Redis, in time. |
| `OrderProcess` | The order service's process around the counters: main, the HTTP handlers and the consumer, from start to stop or kill. EXTENDS `OrderCounters`. |
| `OrderProcessProofs` | The theorems of both. |
| `Shop` | `ProductCatalogue` and `OrderService` (both by `INSTANCE`), composed with the gRPC call, the topic and the consumer. |
| `ShopBooks` | What the two services promise a reader of both databases and the topic: a shelf and a ledger, and how each is bound to the other. `Shop` implements it. |
| `ShopProofs` | The theorems of the composition. |
| `MC*` | What TLC checks, with the symmetry sets where there is one: clients, emails, passwords and tokens in `MCSessions`, clients in `MCProductCatalogue`, handlers and products in `MCOrderService`. Runs with liveness properties do not use it. |

Definitions carry the names of the source where TLA+ allows it. Operators whose
comment starts with "A bug" are not part of any specification: each is a
mutation of a definition below it, by which some property must fail.

### OrderService and the code

`owner`, `hours`, `amount` and `exists` are the committed columns. An item row
that does not exist is an amount of 0, which the table's CHECK keeps apart from
a real one. `pc[h]` says which statement of the handler comes next:

| `pc` | The code is about to |
|---|---|
| `fetch` | call GetProducts (`service.go:94`) |
| `find` | SELECT the user's newest order (`order_repo.go:25`) |
| `insert`, `create` | INSERT the order; INSERT its items and commit (`order_repo.go:63-101`) |
| `lock` | UPDATE the order's delivery time, which locks its row (`order_repo.go:129`) |
| `upsert` | INSERT ... ON CONFLICT the item `cur[h]`, or commit when the loop is over (`order_repo.go:146-199`) |
| `delete`, `cascade` | DELETE the order, its items one by one, and commit (`order_repo.go:230`, `ON DELETE CASCADE`) |

The consumer's UPDATE (`order_repo.go:255`) is a loop over the rows of its
snapshot (`markTodo`), since it locks them one by one and may have to wait in
the middle. Items inserted into a new order are one step with its commit: no
other transaction can see or block them. A statement waits for a locked row and
then works on the row as committed (READ COMMITTED). `Refused` is what the
database refuses; `FailedRequest` any failed call or deadline, after which the
deferred `Rollback` frees the rows. A failed commit of a merge (`LoseMerge`) is
reported as a success because that is what the code does.
A crash of the service is a failure of each request under way, so it needs no
action.

`OrderLedger` sees the committed tables and, of each handler, what its request
stands for: `purchase` (who asks, for what, what he was offered, and the pieces
`int32(quantity)` makes of it) from the answer of GetProducts to the end of the
request, and `removal` from the start of a deletion. `Purchases` and `Removals`
read both off the variables of `OrderService`. The basket that `Place` and `Add`
put into a table is therefore that of the very request whose step it is, into an
order of its buyer, and `Done` takes the purchase away in the same step: a merge
that commits some of its items, writes other amounts, goes in twice, or loses what
another has added is no step of the ledger, even where the difference is one that
some other request could have made.

There is one consumer goroutine. With two (two replicas in one group would each
run one) the proof of `NoLockCycle` would not go through for two markings of the
same product, which can only occur if an event is delivered twice.

### ProductCatalogue and the code

`pc` follows Create (`created`), Delete (`read`, `delete`, `publish`, `commit`)
and AddProduct (`stock`, `update`). The DELETE in an open transaction shows as
`rowLock`. `CancelTransaction` is the end of the transaction's context, at which
`database/sql` rolls back under the request's hands. The writer asks for no
acknowledgement (the zero value of `RequiredAcks`), so `Publish` may return
either answer whether the event gets to the topic or not. `CreateProduct` takes
amounts that fit the column only, as any other is refused by the INSERT and
leaves nothing.

`ProductShelf` sees the committed rows, the ids that were given out
(`used <- 1 .. nextId - 1`) and the announcements in the topic. Locks, what
requests have read, and events on their way are not in it.

### Sessions and the code

`pc` follows Create of a user (`insert`), Login (`find`, `save`, `copy`),
Authenticate (`cache`, `row`, `expired`, `found`, `refresh`) and Logout (`forget`,
`drop`), which is itself behind the middleware. `claim` is the email and the
password a request came with; a password stands for its hash, which matches that
password and no other. The table's UNIQUE column refuses the second INSERT of an
email (`EmailTaken`); an INSERT whose answer is lost leaves an account that is
not among `confirmed`.

A tick may be as short as one likes: no property depends on how many there are to
a second. What is known of speed is one constant: Create, Login, Authenticate and
Logout are each over `MaxDelay` ticks after they began, so `Tick` waits for a call
that has used up its time. The code gives its calls deadlines of 5 and 2 seconds, in
all less than 10 for any of the four; whether the Redis client keeps its part is its
configuration's business (`cmd/core/main.go:99` does not set
`ContextTimeoutEnabled`, and its own timeouts then count, with retries), which
is why `MaxDelay` is a parameter and not a number. Every bound the properties state
is stated with it.

Authenticate looks at the clock twice, when it compares (`service.go:101`) and when
it works out a time to live (`:107`), and time may pass in between and before the
copy is set (`RowFound`, `WorkOutTTL`, `RefreshCache`). Redis drops a copy at
`cachedTill`. A time to live that is not positive means no expiry at all, as in the
Redis client (`DropTime`). Two oddities of that client add nothing to this: it rounds
a positive time to live of less than a millisecond up, which is within what a late
copy may do anyway, and takes -1 ns for "keep the TTL", after which the copy ends
when it would have or, if there was none, never. A command that Redis carries out
after its call has returned an error is not a case of its own: a call is
taken to be over when its effect is.

Two history variables remember when the row of a token was first deleted by a
logout (`revokedAt`), whether or not the rest of that logout succeeded, and when
a logout first succeeded (`loggedOutAt`).

`TokenLife` sees of a token whether its row stands (`live`), whether a copy is
there or on its way (`fading`), and who is let in. Both refinement mappings are
plain state functions (`Life`).

### OrderCounters, OrderProcess and the code

`pc` follows IncrementOrder (`expire`) and DeleteProductFromOrder (`del`); the
first command of each is the step that begins it. A tick is 2.5 seconds and a
call takes 2 at most. `left` is the TTL that is left. A command that fails may
have been carried out; `lost` are the products whose key was left without an
expiry by an EXPIRE that did not get through.

`OrderProcess` puts them into the process of `cmd/order/main.go`:

| Variable | The code |
|---|---|
| `main` | `serve`: blocked on `<-ctx.Done()`; `drain`: in `Shutdown`; `reader`, `redis`, `db`: what the deferred calls close next; `down`: no process |
| `waited` | how much of Shutdown's 5 seconds is over |
| `clean` | Shutdown has returned without an error, so "all requests are finished" is logged |
| `placing` | the handlers at work on an order, whose steps are those of `OrderService` |
| `at`, `event` | the consumer: in `ReadMessage`, in `MarkDeletedProduct`, in the counters' `DeleteProduct`; the product of the event |

The listener is closed at once but accepted connections may still bring a
request while main drains; when Shutdown has found none at work they are closed,
and when its time is over they are not, so a request may meet a closed client.
The consumer looks at its context only between events. A kill (`Crash`) is
possible everywhere and makes no deferred call.

The core service's main has no module of its own. Nothing it closes is shared
with another process; for the requests under way its end is a failure of the call
they are in, and for the publisher a loss of what it has not sent, both of
which are steps of `ProductCatalogue` and `Sessions` already.

### Shop and the code

`OrderStep` takes the steps of `OrderService` but for the start of a marking,
and lets GetProducts return products of the committed catalogue only, maybe not
all of them (`GetProductsByIDs` does not look at `rows.Err()`). `ReadMessage`
commits the offset and then handles the message, as `kafka.Reader.ReadMessage`
does; `SkipMessage` is a commit that fails. `Join` and `Close` are the start and
the end of the consumer. The second half of `handleMessage`, the counter of the
deleted product, is in `OrderProcess`: it touches no state of `Shop`.

`ShopBooks` takes `ProductShelf` and `OrderLedger` as they are and adds the two
bonds between them, each of which spans both databases: a purchase is offered, and an
amount grows, only for a product that has been put up; a flag falls only for a product
that the topic announces as deleted. Its state is the committed tables of both services, the
requests the ledger knows, the ids that were given out (`Used`) and the announcements
(`InTopic`).

A rebalance of the group while a commit is pending inside the Kafka reader is the
library's affair and not modelled: the reader goes back by `Close` and `Join` only, so
`AtMostOnce` says nothing of what the broker may redeliver to a reader that stays.

## What is checked

Runs that must pass:

| Run | Instance | Shows |
|---|---|---|
| `OrderMerges` | 2 handlers, the consumer, 1 order, 2 products | `NoLockCycle`, `DraftsCurrent`, `IndInv` (what the proofs rest on), `ImplementsLedger`, `StepsRunOut` |
| `OrderRequests` | 2 handlers, the consumer, 2 orders, 1 product, quantities 1 and 2 where int32 ends at 1 | `TypeOK`, `IndInv`, `RequestsAnswered`, `MarkingsEnd`, `OneOrderIfSerial`, `CompleteIfQuiet` |
| `Catalogue` | 2 clients, 1 product, prices on both sides of both thresholds, 3 events | `OpenDeletionHasRow`, `EventsAreTrue`, `IndInv`, `DearOnesAnnounced`, `OkDeletionsHappen`, `RequestsAnswered`, `ImplementsShelf` |
| `Sessions` | 2 clients that take up to 2 ticks, 1 email, 2 passwords, 1 token that lives 3 ticks, copies 2, 7 ticks | `ConfirmedStay`, `LogoutTakesEffect`, `CopiesDieWithTokens`, `IndInv`, `ImplementsTokenLife` |
| `Counters` | 2 handlers and the consumer, 2 products, TTL of 2 ticks, 2 ticks of draining | `ProcessTypeOK`, `CountersExpire`, `CleanStop`, `CountersFade`, `StopsEnd`, `HandlingEnds` |
| `ShopEvents` | 1 client, 1 handler, the consumer, 1 product, 2 events | `TypeOK` (the group is never ahead of the topic), `MarksAnnounced`, `IndInv`, `AtMostOnce`, `EventsRead`, `ImplementsBooks` |

Why the bounds are enough: a circle of lock waits takes two transactions and two
rows; with two handlers and the consumer on two products every pair of kinds of
transactions meets on both rows in both orders, and the theorem covers the rest.
`Int32Max = 1` with a quantity of 2 gives a negative narrowed amount, and two
merges of 1 overflow; `OrderMerges`, where int32 ends at 3, has the sums that
fit. Two orders let a request hold the id of an order that has gone while another
is created. Of two
clients at a session one logs out, or registers, while the other authenticates, and
each may dawdle for longer than any one of its calls needs; seven ticks let a token
expire, a late copy of it run out and a copy without an expiry show. The two runs
that find a violation have three clients, and the theorems any number. Two passwords for
one email are two people who register it at once, or one who mistypes. Two
handlers and the consumer can raise, renew and drop one counter at once; a TTL and
a drain of two ticks are the code's 5 seconds of each, and a counter of 2 has a
purchase on top of a purchase. Two events let
the reader restart between an event and the next; a second deletion of a product
whose first one failed is among the behaviours.

`MaxOrders` is the end of the sequence, which the code meets as a failed INSERT.
`MaxEvents`, `MaxTime` and `MaxCount` are bounds of the models only: no request
starts, no time passes, nobody buys beyond them (the ticks of `OrderProcess`
have no bound: its counters grow old and go, so its states repeat). Since the
catalogue may then be at rest for good, its runs and `Shop`'s do not check for
deadlock; the others do.

Runs that must find a violation, each of what the source says of itself:

| Run | The source says | The code does |
|---|---|---|
| `OrderOnePerUser` | further orders of a user are merged (`service.go:137`) | two first requests at once create two orders |
| `OrderMergeReport` | "Order merged successfully" (`order_repo.go:201`) | said, and returned, although the commit has failed |
| `OrderMarkAll` | marks in all orders (`service.go:220`) | leaves out items committed after its snapshot |
| `CatalogueAnnouncements` | the event is of a deletion (`product/service.go:171`) | it is sent before a commit that may fail |
| `SessionsExpiry` | a token lives 24 hours (`auth/service.go:62`) | a copy whose time to live is worked out at its very end never expires |
| `SessionsLogout` | "logged out successfully" (`auth_handler.go:66`) | an authentication under way restores the copy |

The properties beside these say how far each goes: `LogoutTakesEffect` bounds
how long a restored copy lives unless it never expires, `CopiesDieWithTokens` that
only a copy whose time to live came out as 0 or less does that, and that no other
outlives its token by more than `MaxDelay`, `MarksAnnounced` that at least an event
stands behind every mark. For each of the six a theorem says what has to happen
for it to fail ("When the claims are true" below); `OneOrderIfSerial` and
`CompleteIfQuiet` are checked by a run, too.

Other places where the source says one thing and does another, seen while
modelling and plain enough to need no run:

- `service.go:80` says half a day of delivery for each position; the time is that
  of one request's positions, returned by the core service or not, and of two
  merged requests the greater one. `OrderLedger` has it as it is (`HoursFor`).
- `cmd/order/main.go` logs that all requests are finished (`CleanStop`: they are) and
  that the server has stopped, while the consumer may be in the middle of an
  event; its offset is committed, so the rest of that event is never done.
- `cmd/core/main.go` logs the same after `Shutdown` of the HTTP server alone, while
  calls of the gRPC server may be at work.
- A listener that fails ends the core service by `os.Exit(1)`, without its deferred
  calls (`cmd/core/main.go:211`), and the order service by a stop like any other.
- `WriteTimeout` is 10 seconds, while the calls of one order may take longer: the
  order is then created and its answer is not sent.
- `product/service.go:166` logs that a cheap product was deleted before a commit
  whose error is ignored (`CommitFails`). `OkDeletionsHappen` says that this is the
  only way to a success that is not true.
- `product_repo.go:62` scans an UPDATE that returns no row: `AddProduct` changes the
  stock and reports a failure, always (`UpdateStock`). Of two concurrent additions
  one is lost besides.
- `order_cache.go:119` scans the key `product_id: 7` for a number, which fails: the
  listing of all counters is always empty. No route calls it.
- `kafka_consumer.go:74` marks "the deleted product"; by `CatalogueAnnouncements` that
  product may still be on sale, and its mark is never taken back.

### Fairness

- `OrderService`: strong fairness of each request's own steps and of the
  marking. A statement that waits for a row is enabled and disabled again as
  others take it; Postgres queues the waiting transactions for a row, so one that
  could go on again and again does. Failures are never forced, so the liveness
  properties do not rest on deadlines.
- `ProductCatalogue`: the same, for the same reason. A commit may fail; that the
  transaction then is over is part of the step.
- `OrderProcess`: main runs on, time passes, and every call to Redis or to the
  database returns by its deadline (weak fairness: while such a step is possible
  it stays possible, or its place is taken by the end of the process). Nothing
  makes a client send or end a request, a handler finish an order before
  Shutdown's time is over, or anybody send a signal.
- `Shop`: as in `OrderService` for requests and markings, and the consumer's loop
  reads on (`ReadNext`). The core service and the writer owe nothing, and
  nobody restarts a consumer that has stopped.
- `Sessions` has no liveness property, and so no fairness.

## What is proved

Each theorem holds for all values of the constants of its module that meet the
module's assumptions.

### OrderService

It is parameterised by its sets of handlers, users, products and
quantities and by the ends of its sequence and of int32. Its assumptions are
that the consumer and "nobody" are not handlers, that "no user" and "no item"
are not users and products, that there are finitely many products, and that
quantities are positive numbers (the handler's validation). For all of them:

| Theorem | Statement |
|---|---|
| `TypeCorrect` | `Spec => []TypeOK` |
| `IndInvHolds` | `Spec => []IndInv` |
| `NoLockCycleHolds` | `Spec => []NoLockCycle` |
| `DraftsCurrentHolds` | `Spec => []DraftsCurrent` |
| `ImplementsLedgerHolds` | `Spec => ImplementsLedger`, that is `OrderLedger`'s specification |
| `StepsRunOutHolds` | `Spec => StepsRunOut` |

None of `NoLockCycle`, `DraftsCurrent` and `ImplementsLedger` is inductive. `IndInv` adds what the code never states,
*the row of the order guards its items*: who has an order's row is its one open
merge or deletion (`OrderRows`); only he locks its items, each once, and besides
him only the consumer, items of the product it marks (`HandlerItems`,
`ConsumerItems`); a deletion has locked all items its cascade has passed
(`CascadeItems`), so no marking holds one when it commits; an order that is gone
has no items (`NoStrayItems`); a merge has chosen an order of its own user
(`MergesOwn`, as ids are never given twice); and the draft of a merge is the committed row plus
its request (`MergeDrafts`).

From it, `NoLockCycle`: a handler that waits for an order's row waits for one that
is past that point, and one that waits for an item can wait for the consumer
only, having the order already. The consumer waits for a handler that has locked
the item it wants; that handler, if it waits in turn for the consumer, would want
an item of the same product it has locked already. `ImplementsLedger` maps each
commit to one action of the ledger, the answer of GetProducts to `Offer`, the start of
a deletion to `Ask`, every end without effect to `Drop`, and every other step to a
stutter (`StepIsLedgers`, over one lemma per kind of step); the merge needs
`MergeDrafts` and `MergesOwn`, the marking `ConsumerItems`, the creation that its id is
not in use.

`StepsRunOut` is the half of the termination argument that needs no fairness.
`StepsLeft` bounds the steps of a request, the number of products (which are
finitely many) standing for a loop that has not begun: every step of the request
lowers it, whatever other requests and the consumer do leaves it alone. By
`NoLockCycle` somebody never waits for a lock. What is left to TLC in
`RequestsAnswered` and `MarkingsEnd` is that a fair database lets those go on.

### ProductCatalogue

Assumed are that "nobody" is no client, that prices and amounts are positive (the
handler's validation), that the bounds are natural numbers and that the lower
threshold is not above the upper one.

| Theorem | Statement |
|---|---|
| `CatalogueIndInvHolds` | `Spec => []IndInv` |
| `CatalogueTypeCorrect` | `Spec => []TypeOK` |
| `OpenDeletionHasRowHolds` | `Spec => []OpenDeletionHasRow` |
| `EventsAreTrueHolds` | `Spec => []EventsAreTrue` |
| `DearOnesAnnouncedHolds` | `Spec => DearOnesAnnounced` |
| `OkDeletionsHappenHolds` | `Spec => OkDeletionsHappen` |
| `ImplementsShelfHolds` | `Spec => ImplementsShelf`, that is `ProductShelf`'s specification |

What the code relies on without saying so is that what Delete read stays true
until it is done, although it reads before its transaction starts (`Knows`): ids
are never given twice and no statement changes a price, so the price it has seen
is that of the row as long as there is one. With it a request that publishes
has seen a price that is not cheap, so `EventsAreTrue` is kept by the two steps
that publish; a request that commits the deletion of a dear product has been
told that its event was accepted; and a row is locked by a request that is past its
DELETE, which is why two of them never have the same. `RequestsKnow` says of an
addition that it has seen stock of a product that was there: its UPDATE is then
the shelf's `Restock` or changes nothing. A commit that is answered with success
had its row locked (`CommitDelete`), so nobody else has taken the product away and
it is there until this very step; a commit that failed is answered so unless the
price seen was below the lower threshold.

### Sessions

Assumed are that "no password" and "no token" are none, that the times are
positive, that a copy lives shorter than a token and that a request takes less than
a token's life. The length of a tick is not among the assumptions.

| Theorem | Statement |
|---|---|
| `SessionsIndInvHolds` | `Spec => []IndInv` |
| `SessionsTypeCorrect` | `Spec => []TypeOK` |
| `ConfirmedStayHolds` | `Spec => []ConfirmedStay` |
| `LogoutTakesEffectHolds` | `Spec => []LogoutTakesEffect` |
| `CopiesDieWithTokensHolds` | `Spec => []CopiesDieWithTokens` |
| `ImplementsTokenLifeHolds` | `Spec => ImplementsTokenLife`, that is `TokenLife`'s specification |

`StoresAgree` says what the two stores hold of a token, `Knows` what a request
carries from one store to the other. A request is never older than `MaxDelay`.
The token of a Login under way is nobody else's, so nothing can be known of it but
by that Login. An authentication that is about to write a copy began before the
row of the token was deleted by a logout, if it was, and the life of its copy,
counted from its beginning, ends with the token: the copy is therefore gone
`MaxDelay` after the end of the token, or `CacheTTL` and `MaxDelay` after the deletion
of its row, at the latest. Copies that were there before end by `CacheTTL` after
any instant (the last line of `StoresAgree`). The exception to both is a time to live
of 0 or less, which is worked out only once the token has come to its end: such a copy
stays until a later logout of the token deletes it, if there is one.
For `TokenLife`, `Life` is a chain that no step goes back: a row is
written by the Login alone, and a copy by a request that has read a row or made
one, which is counted as fading until it is over.

### OrderCounters and OrderProcess

Assumed are that "no product" is none, that the TTL is positive, and that the
consumer is one of the callers.

| Theorem | Statement |
|---|---|
| `ProcessKeepsCounters` | `ProcessSpec => Spec`: the process uses the counters as they are meant to be |
| `CountersExpireHolds` | `ProcessSpec => []CountersExpire` |
| `ProcessTypeCorrect` | `ProcessSpec => []ProcessTypeOK` |
| `CleanStopHolds` | `ProcessSpec => []CleanStop` |

Every step of the process is a step of `OrderCounters` or leaves the counters
alone, a kill being `CutOff`; `TypeOK` and `CountersExpire` are then inductive
for the counters by themselves. `CleanStop` is inductive given the type, since no
request starts once `clean` is set.

### Shop

Assumed is what the two parts assume, with the products' ids and the bounds of the
sequences in place of their sets, and that "no offset" is no number.

| Theorem | Statement |
|---|---|
| `ShopRunsParts` | `Spec => Catalogue!Spec /\ Orders!Spec` |
| `ShopIndInvHolds` | `Spec => []IndInv` |
| `ShopTypeCorrect` | `Spec => []TypeOK` |
| `MarksAnnouncedHolds` | `Spec => []MarksAnnounced` |
| `AtMostOnceHolds` | `Spec => AtMostOnce` |
| `ImplementsBooksHolds` | `Spec => ImplementsBooks`, that is `ShopBooks`'s specification |
| `PartsKeepPromises` | `Spec =>` the catalogue's `DearOnesAnnounced` and the orders' `NoLockCycle` and `DraftsCurrent` |

Every step of the shop is one of a part or leaves that part alone; for the
reader's step this needs that the events in the topic are about products. So the
theorems of the parts hold in the shop. `GroupInOrder` then says that what was
handled is committed and that no reader is behind that, wherever it has
started, so the event it reads next was not handled. `OrdersKnow` is what ties the
databases together: a request was shown products that were on the shelf then, so
their ids are below the sequence for good; and a row, a draft or a marking says
"deleted" only of a product of which an announcement was handled. That a merge carries
the flag it has read into a later commit does no harm, as nothing handled is ever
taken back. The last part of `MarksAnnounced`, about the price, is the catalogue's
`EventsAreTrue`.

For `ImplementsBooks` the theorems of the parts are taken over by `INSTANCE`: a step
of the catalogue is one of its shelf, a step of the orders one of their ledger.
What the shop adds is the bonds. An amount grows by the commit of a creation or a
merge, whose products the request was shown by the catalogue (`OrdersKnow`); a flag
falls by the commit of a marking, whose product comes from an event that was
handled, and what was handled stands in the topic for good (`HandledInTopic`).

### When the claims are true

The six claims that the code does not keep (the runs above that find a violation)
hold under a condition each, one of them with a tolerance. A condition is an assumption on the behaviour and not
on the code, and ordinary behaviours meet it: what violates the claim must violate
the condition first, so these theorems name all the ways in which the claim can
fail.

| Theorem | The claim | holds as long as |
|---|---|---|
| `OneOrderIfSerialHolds` | `OneOrderPerUser` | no two requests of one user are under way at once (`OneRequestPerUser`) |
| `MergedUnlessLostHolds` | `MergedWhenReported`, but for a commit that fails | no order is deleted while a request works on it (`DeletedApart`) |
| `CompleteIfQuietHolds`, `MarkedInAllIfQuiet` | `MarkedInAllOrders` | no request that was offered the product is under way while it is marked (`QuietMarking`) |
| `AnnouncedGoneIfDeletionsHappen` | `AnnouncedAreGone` | every deletion that got as far as its event finds its product gone when it ends (`DeletionsHappen`) |
| `TokensExpireUnlessLate` | `TokensExpire`, give or take `MaxDelay` (`NotLongAfter`) | no authentication works out a time to live of 0 or less (`NoneLate`) |
| `LoggedOutUnlessBehind` | `LoggedOutStaysOut` | no authentication that has read the row of a token is on its way after the logout (`NoneBehind`) |

Each comes from an invariant of its own that is inductive together with `IndInv`
and the condition. A user of one request at a time has an order at most, and none
while that request is about to insert one (`NoneYet`). A marking misses only rows it
could not see, and without requests of its product no row appears
(`NoneLeftOut`). A merge has the order it chose (`StillThere`). A product whose
deletion was published is there only while that deletion is at its commit
(`AnnouncedAreGoing`). Without a time to live of 0 or less no copy is kept for ever
(`CopiesGo`): a token then outlives its 24 hours by less than the one request took that
set its last copy late, and `LogoutTakesEffect` has no exception
(`LogoutTakesEffectUnlessLate`). And without requests behind it a logout leaves no copy (`OutIsOut`).
`OneOrderIfSerial` and `CompleteIfQuiet` are checked by `OrderRequests`, too. The
other conditions are in the proof modules only: one on steps (`DeletionsHappen`)
cannot stand left of an implication in TLC, one more would take `OrderRequests`
beyond its time, and one in `Sessions` would cost its run the symmetry.

Only model-checked: liveness (the prover does not do fairness), which is
`RequestsAnswered`, `MarkingsEnd`, `CountersFade`, `StopsEnd`, `HandlingEnds` and
`EventsRead`. No definition is recursive and no proof needs induction over data.

## What is not modelled, and why

- The validation of an email and the hashing of a password. (The address is
  validated without its surrounding blanks and stored with them, so one address
  may have two accounts: `Emails` are the texts that were sent.)
- Reads that change nothing: Get, GetAllProducts, GetOrderCount, GetAllOrders.
- REST parsing: a request is what validation lets through. `PUT /product/add` has
  no parameters in its route while its handler reads them from there, so it
  always answers 400; the service's AddProduct is modelled nevertheless.
- The overflow of the `int64` sum of the quantities of one request.
- Time zones: `sessions.expires_at` is a TIMESTAMP without one, so the life of a
  token may be shifted by the offset of the server's zone.
- The start of the two processes: environment, connections and migrations, each of
  which ends the process when it fails. The order service dials the bare port of
  its gRPC configuration, so reaching the other service depends on that setting.
- The core service's main (see OrderProcess above for what its end amounts to), and
  a second replica of either service.
- The order gRPC server and client, the logging publisher, mocks, tests and
  generated code.

## Plan

1. Done: `OrderLedger`, `OrderService` and its proofs; `ProductCatalogue` with
   `ProductShelf` and their proofs; `Sessions` with users and `TokenLife`, and their
   proofs; `OrderCounters` in `OrderProcess`, and their proofs; `Shop` with its
   liveness, `ShopBooks` and their proofs; the conditions under which the claims of
   the source hold.
2. Next: measures like `StepsLeft` for the catalogue, for the consumer's handling of
   an event and for a stop of the process, so that of each liveness property only the
   fairness is left to TLC; the conditional theorems of the parts taken over into
   `Shop`.
3. Then: `Shop` over two replicas of the order service, whose readers share a
   group and whose markings may wait for each other; more products and clients in
   `ShopEvents`, for which its run has no room in its time.
