----------------------------- MODULE OrderProcess -----------------------------
(***************************************************************************)
(* The process of the order service (cmd/order/main.go): the goroutine of  *)
(* main, those of the HTTP server and that of the Kafka consumer           *)
(* (internal/events/consumers/orders) over the counters in Redis, which    *)
(* are those of OrderCounters and outlive the process.                     *)
(*                                                                         *)
(* main serves until a signal comes or its listener fails, which cancels   *)
(* the consumer's context; waits for the HTTP requests, for 5 seconds at   *)
(* most; closes what it has opened, and leaves.  Nobody waits for the      *)
(* consumer.  A connection that was accepted before may still bring a      *)
(* request while main waits, and after it has waited in vain.              *)
(*                                                                         *)
(* The steps of a request that works on an order are those of OrderService *)
(* and not repeated here, nor are those of a marking.                      *)
(***************************************************************************)
EXTENDS OrderCounters

CONSTANTS
    Consumer,    \* the caller that is the Kafka consumer's goroutine
    DrainTicks   \* ticks main waits for requests: 5 seconds in the code

ASSUME ProcessAssumption ==
    /\ Consumer \in Callers
    /\ DrainTicks \in Nat

VARIABLES
    main,        \* what main does next: "serve", "drain" or close something
    waited,      \* the ticks it has waited for requests
    clean,       \* Shutdown found all requests finished
    placing,     \* the handlers at work on a request about an order
    at,          \* where the consumer is
    event        \* the product whose deletion it handles

server == <<main, waited, clean>>
consumer == <<at, event>>
redis == <<count, left, callers, lost>>
processVars == <<redis, server, placing, consumer>>

Handlers == Callers \ {Consumer}
Idle(h) == pc[h] = "idle" /\ h \notin placing

\* The context that a signal cancels.
Cancelled == main # "serve"

RedisOpen == main \in {"serve", "drain", "reader", "redis"}

ProcessTypeOK ==
    /\ TypeOK
    /\ main \in {"serve", "drain", "reader", "redis", "db", "down"}
    /\ waited \in 0 .. DrainTicks
    /\ clean \in BOOLEAN
    /\ placing \in SUBSET Handlers
    /\ at \in {"off", "read", "mark", "drop"}
    /\ event \in Products \cup {NoProduct}
    /\ at \in {"mark", "drop"} <=> event \in Products
    /\ pc[Consumer] = "del" => at = "drop" /\ item[Consumer] = event
    /\ \A h \in Handlers : pc[h] # "idle" => h \notin placing
    /\ main = "down" => at = "off" /\ \A c \in Callers : pc[c] = "idle"

ProcessInit ==
    /\ Init
    /\ main = "down"
    /\ waited = 0
    /\ clean = FALSE
    /\ placing = {}
    /\ at = "off"
    /\ event = NoProduct

----------------------------------------------------------------------------
(* The HTTP server                                                         *)

\* A bug: the listener and its connections stay open to the end.
ServesOn == main # "down"

\* May a request come in?  Once Shutdown has found no connection at work all
\* of them are closed.
Serving == main # "down" /\ ~clean

BuyProduct(h, p) ==
    /\ Serving /\ RedisOpen
    /\ h \notin placing
    /\ IncrementOrder(h, p)
    /\ UNCHANGED <<server, placing, consumer>>

\* EXPIRE, or its failure, which is certain once the client is closed.
EndPurchase(h) ==
    /\ \/ RedisOpen /\ Expire(h)
       \/ Fail(h)
    /\ UNCHANGED <<server, placing, consumer>>

StartOrder(h) ==
    /\ Serving
    /\ Idle(h)
    /\ placing' = placing \cup {h}
    /\ UNCHANGED <<redis, server, consumer>>

EndOrder(h) ==
    /\ h \in placing
    /\ placing' = placing \ {h}
    /\ UNCHANGED <<redis, server, consumer>>

----------------------------------------------------------------------------
(* The consumer's goroutine                                                *)

\* The loop looks at its context first.
Loop ==
    /\ at' = IF Cancelled THEN "off" ELSE "read"
    /\ event' = NoProduct

\* ReadMessage returns the event of a deletion, its offset being committed;
\* it may still do so when its context is cancelled at that moment.
ReadMessage(p) ==
    /\ at = "read"
    /\ main \in {"serve", "drain", "reader"}
    /\ at' = "mark"
    /\ event' = p
    /\ UNCHANGED <<redis, server, placing>>

\* ReadMessage returns the error of its context.
StopReading ==
    /\ at = "read"
    /\ Cancelled
    /\ Loop
    /\ UNCHANGED <<redis, server, placing>>

\* Whatever MarkDeletedProduct returns, the counter is next.
MarkReturns ==
    /\ at = "mark"
    /\ at' = "drop"
    /\ UNCHANGED <<redis, server, placing, event>>

\* DeleteProduct's GET: no key, or it fails, as it must in a cancelled
\* context; or there is one to delete.
DropStarts ==
    /\ at = "drop"
    /\ pc[Consumer] = "idle"
    /\ \/ Loop /\ UNCHANGED redis
       \/ /\ ~Cancelled
          /\ DeleteProductFromOrder(Consumer, event)
          /\ UNCHANGED consumer
    /\ UNCHANGED <<server, placing>>

\* A bug: a DEL that fails is tried again, with no end of trying.
DropStops ==
    /\ at = "drop"
    /\ Fail(Consumer)
    /\ UNCHANGED <<server, placing, consumer>>

\* DeleteProduct's DEL.
DropReturns ==
    /\ at = "drop"
    /\ \/ RedisOpen /\ Del(Consumer)
       \/ Fail(Consumer)
    /\ Loop
    /\ UNCHANGED <<server, placing>>

----------------------------------------------------------------------------
(* main                                                                    *)

Start ==
    /\ main = "down"
    /\ main' = "serve"
    /\ clean' = FALSE
    /\ at' = "read"
    /\ UNCHANGED <<redis, waited, placing, event>>

\* SIGINT, SIGTERM, or ListenAndServe fails and cancels the same context.
Stop ==
    /\ main = "serve"
    /\ main' = "drain"
    /\ UNCHANGED <<redis, waited, clean, placing, consumer>>

\* Shutdown returns: all requests are finished.
Drained ==
    /\ main = "drain"
    /\ \A h \in Handlers : Idle(h)
    /\ main' = "reader"
    /\ clean' = TRUE
    /\ waited' = 0
    /\ UNCHANGED <<redis, placing, consumer>>

\* A bug: the context of Shutdown has no deadline.
NeverTimesOut == FALSE

\* Shutdown's time is over.
TimesOut == waited = DrainTicks

DrainTimesOut ==
    /\ main = "drain"
    /\ TimesOut
    /\ main' = "reader"
    /\ waited' = 0
    /\ UNCHANGED <<redis, clean, placing, consumer>>

\* The deferred calls, last one first: the consumer's reader and the gRPC
\* connection, the Redis client, the database, and main returns.
CloseNext ==
    /\ \/ main = "reader" /\ main' = "redis"
       \/ main = "redis" /\ main' = "db"
    /\ UNCHANGED <<redis, waited, clean, placing, consumer>>

\* All goroutines end with the process, wherever they are.
Leave ==
    /\ CutOff
    /\ main' = "down"
    /\ waited' = 0
    /\ placing' = {}
    /\ at' = "off"
    /\ event' = NoProduct
    /\ UNCHANGED clean

Exit == main = "db" /\ Leave

\* The process is killed: no deferred call is made.
Crash == main # "down" /\ Leave

\* The deadline of Shutdown is met.
ProcessTick ==
    /\ Tick
    /\ main = "drain" => ~TimesOut
    /\ waited' = IF main = "drain" /\ waited < DrainTicks THEN waited + 1
                 ELSE waited
    /\ UNCHANGED <<main, clean, placing, consumer>>

----------------------------------------------------------------------------

ConsumerStep == StopReading \/ MarkReturns \/ DropStarts \/ DropReturns

MainStep == Drained \/ DrainTimesOut \/ CloseNext \/ Exit

ProcessNext ==
    \/ \E h \in Handlers :
          \/ \E p \in Products : BuyProduct(h, p)
          \/ EndPurchase(h)
          \/ StartOrder(h)
          \/ EndOrder(h)
    \/ \E p \in Products : ReadMessage(p)
    \/ ConsumerStep
    \/ Start
    \/ Stop
    \/ MainStep
    \/ Crash
    \/ ProcessTick

\* main runs on, time passes, and a call to Redis or to the database returns
\* by its deadline.  Nothing makes a client send its request or the handler
\* of an order come to its end before main's patience does.
ProcessFairness ==
    /\ WF_processVars(MainStep)
    /\ WF_processVars(ProcessTick)
    /\ \A h \in Handlers : WF_processVars(EndPurchase(h))
    /\ WF_processVars(ConsumerStep)

ProcessSpec == ProcessInit /\ [][ProcessNext]_processVars /\ ProcessFairness

----------------------------------------------------------------------------
(* What must hold.                                                         *)

\* "All requests are finished" is true when main says so and stays true: no
\* request is under way, none comes in, and so none meets a closed client or
\* the end of the process.
CleanStop == clean => \A h \in Handlers : Idle(h)

\* A stop comes to its end, whatever clients and handlers do.
StopsEnd == (main = "drain") ~> (main = "down")

\* The consumer comes back to its loop from every event.
HandlingEnds == (at \in {"mark", "drop"}) ~> (at \in {"read", "off"})
===============================================================================
