---------------------------- MODULE OrderCounters -----------------------------
(***************************************************************************)
(* The purchase counters the order service keeps in Redis                  *)
(* (internal/service/order/cache.go over                                   *)
(* internal/repo/redis/order/order_cache.go): a key for each product, with *)
(* a time to live that every purchase is to renew.                         *)
(*                                                                         *)
(* A caller is a goroutine that buys a product (BuyProduct) or, for the    *)
(* Kafka consumer, drops the counter of a deleted product (DeleteProduct). *)
(* A step is one command sent to Redis; a command that fails may have been *)
(* carried out all the same.  What only reads is left out.                 *)
(* Time passes in ticks of 2.5 seconds.  A call has a deadline of 2        *)
(* seconds, so while it runs there is one tick at most.                    *)
(***************************************************************************)
EXTENDS Integers

CONSTANTS
    Callers,     \* goroutines of the order service
    Products,    \* ids of products
    NoProduct,   \* no product
    TTL,         \* ticks a counter is kept: 5 seconds in the code
    MaxCount     \* bound: nobody buys a product that was bought so often

ASSUME CountersAssumption ==
    /\ NoProduct \notin Products
    /\ TTL \in Nat \ {0}
    /\ MaxCount \in Nat

VARIABLES
    count,       \* the counter of a product, 0 when there is no key
    left,        \* the ticks left to the key, Forever when it has no expiry
    pc,          \* where the caller is
    item,        \* the product its call is about
    fresh,       \* no tick has passed since its call began
    lost         \* the products whose key was left without an expiry

callers == <<pc, item, fresh>>
vars == <<count, left, callers, lost>>

Forever == TTL + 1
Live(p) == count[p] > 0
Buying(p) == \E c \in Callers : pc[c] = "expire" /\ item[c] = p

TypeOK ==
    /\ count \in [Products -> 0 .. MaxCount]
    /\ left \in [Products -> 0 .. Forever]
    /\ \A p \in Products : Live(p) <=> left[p] > 0
    /\ pc \in [Callers -> {"idle", "expire", "del"}]
    /\ item \in [Callers -> Products \cup {NoProduct}]
    /\ fresh \in [Callers -> BOOLEAN]
    /\ lost \in SUBSET Products
    /\ \A c \in Callers : pc[c] # "idle" => item[c] \in Products

Init ==
    /\ count = [p \in Products |-> 0]
    /\ left = [p \in Products |-> 0]
    /\ pc = [c \in Callers |-> "idle"]
    /\ item = [c \in Callers |-> NoProduct]
    /\ fresh = [c \in Callers |-> TRUE]
    /\ lost = {}

Go(c, step, p) ==
    /\ pc' = [pc EXCEPT ![c] = step]
    /\ item' = [item EXCEPT ![c] = p]
    /\ UNCHANGED fresh

Return(c) ==
    /\ pc' = [pc EXCEPT ![c] = "idle"]
    /\ item' = [item EXCEPT ![c] = NoProduct]
    /\ fresh' = [fresh EXCEPT ![c] = TRUE]

\* A bug: SET to 0.
ResetCount(p) ==
    /\ count' = [count EXCEPT ![p] = 0]
    /\ UNCHANGED left

Drop(p) ==
    /\ count' = [count EXCEPT ![p] = 0]
    /\ left' = [left EXCEPT ![p] = 0]

----------------------------------------------------------------------------
(* BuyProduct: INCR and then EXPIRE.                                       *)

\* A bug: INCR alone.
IncrementOnly(c, p) ==
    /\ pc[c] = "idle"
    /\ count[p] < MaxCount
    /\ count' = [count EXCEPT ![p] = @ + 1]
    /\ left' = [left EXCEPT ![p] = IF Live(p) THEN @ ELSE Forever]
    /\ UNCHANGED <<callers, lost>>

\* INCR leaves the expiry of a key alone, and a new key has none.
IncrementOrder(c, p) ==
    /\ pc[c] = "idle"
    /\ count[p] < MaxCount
    /\ count' = [count EXCEPT ![p] = @ + 1]
    /\ left' = [left EXCEPT ![p] = IF Live(p) THEN @ ELSE Forever]
    /\ \/ Go(c, "expire", p) /\ UNCHANGED lost
       \/ \* the command's answer is lost
          /\ lost' = IF left'[p] = Forever THEN lost \cup {p} ELSE lost
          /\ UNCHANGED callers

\* EXPIRE does nothing, and reports no error, when the key has gone.
Expire(c) ==
    /\ pc[c] = "expire"
    /\ left' = IF Live(item[c]) THEN [left EXCEPT ![item[c]] = TTL] ELSE left
    /\ lost' = lost \ {item[c]}
    /\ Return(c)
    /\ UNCHANGED count

----------------------------------------------------------------------------
(* DeleteProduct: GET and then DEL.                                        *)

DeleteProductFromOrder(c, p) ==
    /\ pc[c] = "idle"
    /\ Live(p)
    /\ Go(c, "del", p)
    /\ UNCHANGED <<count, left, lost>>

Del(c) ==
    /\ pc[c] = "del"
    /\ Drop(item[c])
    /\ lost' = lost \ {item[c]}
    /\ Return(c)

----------------------------------------------------------------------------

\* A second command that fails without an effect.
Fail(c) ==
    /\ pc[c] # "idle"
    /\ lost' = IF pc[c] = "expire" /\ left[item[c]] = Forever
               THEN lost \cup {item[c]} ELSE lost
    /\ Return(c)
    /\ UNCHANGED <<count, left>>

\* Time passes; keys with an expiry grow old and go.
Tick ==
    /\ \A c \in Callers : pc[c] # "idle" => fresh[c]
    /\ fresh' = [c \in Callers |-> pc[c] = "idle"]
    /\ left' = [p \in Products |->
                  IF left[p] \in 1 .. TTL THEN left[p] - 1 ELSE left[p]]
    /\ count' = [p \in Products |-> IF left'[p] = 0 THEN 0 ELSE count[p]]
    /\ lost' = {p \in lost : left'[p] > 0}
    /\ UNCHANGED <<pc, item>>

\* The process ends, and its calls with it, wherever they are.
CutOff ==
    /\ pc' = [c \in Callers |-> "idle"]
    /\ item' = [c \in Callers |-> NoProduct]
    /\ fresh' = [c \in Callers |-> TRUE]
    /\ lost' = lost \cup {p \in Products : left[p] = Forever /\ Buying(p)}
    /\ UNCHANGED <<count, left>>

Call(c) ==
    \/ \E p \in Products : IncrementOrder(c, p) \/ DeleteProductFromOrder(c, p)
    \/ Expire(c)
    \/ Del(c)
    \/ Fail(c)

Next == Tick \/ CutOff \/ \E c \in Callers : Call(c)

Spec == Init /\ [][Next]_vars

----------------------------------------------------------------------------
(* What must hold.                                                         *)

\* A counter without an expiry is one that somebody is just about to give
\* one, or whose EXPIRE has failed and was not made good by a later purchase.
CountersExpire ==
    \A p \in Products : left[p] = Forever => Buying(p) \/ p \in lost

\* Once nobody buys a product any more, and no EXPIRE of it was lost, its
\* counter goes.
CountersFade ==
    \A p \in Products : <>[](~Buying(p) /\ p \notin lost) => []<>~Live(p)
==============================================================================
