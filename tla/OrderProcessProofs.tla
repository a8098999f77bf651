--------------------------- MODULE OrderProcessProofs ---------------------------
(***************************************************************************)
(* The purchase counters and the process of the order service: every step  *)
(* of the process is one of the counters' own or leaves them alone, so     *)
(* what holds of the counters holds in a process that starts, stops and is *)
(* killed; and what main reports of a stop is true.                        *)
(***************************************************************************)
EXTENDS OrderProcess, TLAPS

USE CountersAssumption, ProcessAssumption

----------------------------------------------------------------------------
(* The counters                                                            *)

\* The counters start typed.
LEMMA TypeInit == Init => TypeOK
BY DEF Init, TypeOK, Live, Forever

\* Every step of the counters keeps them typed.
LEMMA TypeNext == TypeOK /\ [Next]_vars => TypeOK'
<1> SUFFICES ASSUME TypeOK, [Next]_vars PROVE TypeOK'
  OBVIOUS
<1> USE DEF callers, Live, Forever
<1>1. ASSUME NEW c \in Callers, NEW p \in Products, IncrementOrder(c, p)
      PROVE  TypeOK'
  BY <1>1 DEF IncrementOrder, Go, TypeOK
<1>2. ASSUME NEW c \in Callers, NEW p \in Products,
             DeleteProductFromOrder(c, p)
      PROVE  TypeOK'
  BY <1>2 DEF DeleteProductFromOrder, Go, TypeOK
<1>0. ASSUME NEW c \in Callers, Return(c)
      PROVE  /\ pc' \in [Callers -> {"idle", "expire", "del"}]
             /\ item' \in [Callers -> Products \cup {NoProduct}]
             /\ fresh' \in [Callers -> BOOLEAN]
             /\ \A d \in Callers : pc'[d] # "idle" => item'[d] \in Products
  BY <1>0 DEF Return, TypeOK
<1>3. ASSUME NEW c \in Callers, Expire(c)
      PROVE  TypeOK'
  <2> DEFINE q == item[c]
  <2>0. q \in Products
    BY <1>3 DEF Expire, TypeOK
  <2>1. /\ left' \in [Products -> 0 .. Forever]
        /\ \A p \in Products : Live(p) <=> left'[p] > 0
    <3>1. CASE Live(q)
      BY <1>3, <2>0, <3>1 DEF Expire, TypeOK
    <3>2. CASE ~Live(q)
      BY <1>3, <3>2 DEF Expire, TypeOK
    <3> QED
      BY <3>1, <3>2
  <2> QED
    BY <1>3, <1>0, <2>1 DEF Expire, TypeOK
<1>4. ASSUME NEW c \in Callers, Del(c)
      PROVE  TypeOK'
  <2>1. /\ left' \in [Products -> 0 .. Forever]
        /\ count' \in [Products -> 0 .. MaxCount]
        /\ \A p \in Products : count'[p] > 0 <=> left'[p] > 0
    <3>1. item[c] \in Products
      BY <1>4 DEF Del, TypeOK
    <3> QED
      BY <1>4, <3>1 DEF Del, Drop, TypeOK
  <2> QED
    BY <1>4, <1>0, <2>1 DEF Del, TypeOK
<1>5. ASSUME NEW c \in Callers, Fail(c)
      PROVE  TypeOK'
  <2>1. lost' \in SUBSET Products
    BY <1>5 DEF Fail, TypeOK
  <2> QED
    BY <1>5, <1>0, <2>1 DEF Fail, TypeOK
<1>6. ASSUME Tick
      PROVE  TypeOK'
  <2>1. /\ left' \in [Products -> 0 .. Forever]
        /\ count' \in [Products -> 0 .. MaxCount]
        /\ \A p \in Products : count'[p] > 0 <=> left'[p] > 0
    BY <1>6 DEF Tick, TypeOK
  <2>2. fresh' \in [Callers -> BOOLEAN] /\ lost' \in SUBSET Products
    BY <1>6 DEF Tick, TypeOK
  <2> QED
    BY <1>6, <2>1, <2>2 DEF Tick, TypeOK
<1>7. ASSUME CutOff
      PROVE  TypeOK'
  BY <1>7 DEF CutOff, TypeOK
<1>8. CASE UNCHANGED vars
  BY <1>8 DEF vars, TypeOK
<1> QED
  BY <1>1, <1>2, <1>3, <1>4, <1>5, <1>6, <1>7, <1>8 DEF Next, Call

\* The return of a caller leaves the purchases of the others under way.
LEMMA OthersBuy ==
    ASSUME TypeOK, NEW c \in Callers, Return(c),
           NEW p \in Products, Buying(p), item[c] # p
    PROVE  Buying(p)'
BY DEF TypeOK, Return, Buying

\* A key without an expiry is still, after any step, about to be given one or
\* known to have lost it.
LEMMA ExpireNext == TypeOK /\ CountersExpire /\ [Next]_vars => CountersExpire'
<1> SUFFICES ASSUME TypeOK, CountersExpire, [Next]_vars,
                    NEW p \in Products, left'[p] = Forever
             PROVE  Buying(p)' \/ p \in lost'
  BY DEF CountersExpire, Forever
<1> USE DEF Forever, Live
<1>1. left[p] = Forever => Buying(p) \/ p \in lost
  BY DEF CountersExpire
<1>2. ASSUME NEW c \in Callers, NEW q \in Products, IncrementOrder(c, q)
      PROVE  Buying(p)' \/ p \in lost'
  <2>1. CASE Go(c, "expire", q) /\ UNCHANGED lost
    <3>1. q # p => left[p] = Forever
      BY <1>2 DEF IncrementOrder, TypeOK
    <3>2. Buying(p) => Buying(p)'
      BY <1>2, <2>1 DEF IncrementOrder, Go, Buying, TypeOK
    <3>3. q = p => Buying(p)'
      BY <2>1 DEF Go, Buying, TypeOK
    <3> QED
      BY <1>1, <2>1, <3>1, <3>2, <3>3
  <2>2. CASE /\ lost' = IF left'[q] = Forever THEN lost \cup {q} ELSE lost
             /\ UNCHANGED callers
    <3>1. q # p => left[p] = Forever
      BY <1>2 DEF IncrementOrder, TypeOK
    <3>2. Buying(p) => Buying(p)'
      BY <2>2 DEF callers, Buying
    <3> QED
      BY <1>1, <2>2, <3>1, <3>2
  <2> QED
    BY <1>2, <2>1, <2>2 DEF IncrementOrder
<1>3. ASSUME NEW c \in Callers, NEW q \in Products,
             DeleteProductFromOrder(c, q)
      PROVE  Buying(p)' \/ p \in lost'
  BY <1>1, <1>3 DEF DeleteProductFromOrder, Go, Buying, TypeOK
<1>4. ASSUME NEW c \in Callers, Expire(c)
      PROVE  Buying(p)' \/ p \in lost'
  <2>1. left[p] = Forever /\ item[c] # p
    BY <1>4 DEF Expire, TypeOK
  <2> QED
    BY <1>1, <1>4, <2>1, OthersBuy DEF Expire
<1>5. ASSUME NEW c \in Callers, Del(c)
      PROVE  Buying(p)' \/ p \in lost'
  <2>1. left[p] = Forever /\ item[c] # p
    BY <1>5 DEF Del, Drop, TypeOK
  <2> QED
    BY <1>1, <1>5, <2>1, OthersBuy DEF Del
<1>6. ASSUME NEW c \in Callers, Fail(c)
      PROVE  Buying(p)' \/ p \in lost'
  <2>1. left[p] = Forever /\ lost \subseteq lost'
    BY <1>6 DEF Fail
  <2>2. CASE pc[c] = "expire" /\ item[c] = p
    BY <1>6, <2>1, <2>2 DEF Fail
  <2>3. CASE ~(pc[c] = "expire" /\ item[c] = p)
    BY <1>1, <1>6, <2>1, <2>3 DEF Fail, Return, Buying, TypeOK
  <2> QED
    BY <2>2, <2>3
<1>7. ASSUME Tick
      PROVE  Buying(p)' \/ p \in lost'
  BY <1>1, <1>7 DEF Tick, Buying, TypeOK
<1>8. ASSUME CutOff
      PROVE  Buying(p)' \/ p \in lost'
  BY <1>1, <1>8 DEF CutOff
<1>9. CASE UNCHANGED vars
  BY <1>1, <1>9 DEF vars, callers, Buying
<1> QED
  BY <1>2, <1>3, <1>4, <1>5, <1>6, <1>7, <1>8, <1>9 DEF Next, Call

\* A counter stays without an expiry only while its purchase is under way, or
\* by an EXPIRE that was lost.
LEMMA CountersExpireAlone == Spec => [](TypeOK /\ CountersExpire)
<1>1. Init => CountersExpire
  BY DEF Init, CountersExpire, Forever
<1> QED
  BY <1>1, TypeInit, TypeNext, ExpireNext, PTL DEF Spec

----------------------------------------------------------------------------
(* The process                                                             *)

\* A step of the process is one of the counters or leaves them alone.
LEMMA StepIsCounters == ProcessTypeOK /\ [ProcessNext]_processVars => [Next]_vars
<1> SUFFICES ASSUME ProcessTypeOK, ProcessNext PROVE [Next]_vars
  BY DEF processVars, redis, vars
<1> USE DEF redis, vars, Next, Call, Handlers
<1>1. ASSUME NEW h \in Handlers, NEW p \in Products, BuyProduct(h, p)
      PROVE  [Next]_vars
  BY <1>1 DEF BuyProduct
<1>2. ASSUME NEW h \in Handlers, EndPurchase(h)
      PROVE  [Next]_vars
  BY <1>2 DEF EndPurchase
<1>3. ASSUME NEW h \in Handlers, StartOrder(h) \/ EndOrder(h)
      PROVE  [Next]_vars
  BY <1>3 DEF StartOrder, EndOrder
<1>4. ASSUME NEW p \in Products, ReadMessage(p)
      PROVE  [Next]_vars
  BY <1>4 DEF ReadMessage
<1>5. ASSUME StopReading \/ MarkReturns
      PROVE  [Next]_vars
  BY <1>5 DEF StopReading, MarkReturns
<1>6. ASSUME DropStarts
      PROVE  [Next]_vars
  <2>1. event \in Products
    BY <1>6 DEF DropStarts, ProcessTypeOK
  <2> QED
    BY <1>6, <2>1 DEF DropStarts
<1>7. ASSUME DropReturns
      PROVE  [Next]_vars
  BY <1>7 DEF DropReturns
<1>8. ASSUME Start \/ Stop \/ Drained \/ DrainTimesOut \/ CloseNext
      PROVE  [Next]_vars
  BY <1>8 DEF Start, Stop, Drained, DrainTimesOut, CloseNext
<1>9. ASSUME Exit \/ Crash
      PROVE  [Next]_vars
  BY <1>9 DEF Exit, Crash, Leave
<1>10. ASSUME ProcessTick
       PROVE  [Next]_vars
  BY <1>10 DEF ProcessTick
<1> QED
  BY <1>1, <1>2, <1>3, <1>4, <1>5, <1>6, <1>7, <1>8, <1>9, <1>10
     DEF ProcessNext, ConsumerStep, MainStep

\* main, the consumer and the handlers stay in step with each other.
LEMMA ProcessTypeNext ==
    ProcessTypeOK /\ [ProcessNext]_processVars => ProcessTypeOK'
<1> SUFFICES ASSUME ProcessTypeOK, [ProcessNext]_processVars
             PROVE  ProcessTypeOK'
  OBVIOUS
<1>1. TypeOK'
  BY StepIsCounters, TypeNext DEF ProcessTypeOK
<1> USE <1>1 DEF ProcessTypeOK, server, consumer, redis, callers, Handlers
<1>2. pc \in [Callers -> {"idle", "expire", "del"}]
      /\ item \in [Callers -> Products \cup {NoProduct}]
  BY DEF TypeOK
<1> USE <1>2
<1>3. ASSUME NEW h \in Handlers, NEW p \in Products, BuyProduct(h, p)
      PROVE  ProcessTypeOK'
  BY <1>3 DEF BuyProduct, IncrementOrder, Go, Serving
<1>4. ASSUME NEW h \in Handlers, EndPurchase(h)
      PROVE  ProcessTypeOK'
  BY <1>4 DEF EndPurchase, Expire, Fail, Return
<1>5. ASSUME NEW h \in Handlers, StartOrder(h) \/ EndOrder(h)
      PROVE  ProcessTypeOK'
  BY <1>5 DEF StartOrder, EndOrder, Idle
<1>6. ASSUME NEW p \in Products, ReadMessage(p)
      PROVE  ProcessTypeOK'
  BY <1>6 DEF ReadMessage
<1>7. ASSUME StopReading \/ MarkReturns
      PROVE  ProcessTypeOK'
  BY <1>7 DEF StopReading, MarkReturns, Loop, Cancelled
<1>8. ASSUME DropStarts
      PROVE  ProcessTypeOK'
  BY <1>8 DEF DropStarts, DeleteProductFromOrder, Go, Loop, Cancelled
<1>9. ASSUME DropReturns
      PROVE  ProcessTypeOK'
  BY <1>9 DEF DropReturns, Del, Fail, Return, Loop, Cancelled
<1>10. ASSUME Start \/ Stop \/ Drained \/ DrainTimesOut \/ CloseNext
       PROVE  ProcessTypeOK'
  <2>1. CASE Start
    BY <2>1 DEF Start
  <2>2. CASE Stop
    BY <2>2 DEF Stop
  <2>3. CASE Drained
    BY <2>3 DEF Drained
  <2>4. CASE DrainTimesOut
    BY <2>4 DEF DrainTimesOut
  <2>5. CASE CloseNext
    BY <2>5 DEF CloseNext
  <2> QED
    BY ONLY <1>10, <2>1, <2>2, <2>3, <2>4, <2>5
<1>11. ASSUME Exit \/ Crash
       PROVE  ProcessTypeOK'
  BY <1>11 DEF Exit, Crash, Leave, CutOff
<1>12. ASSUME ProcessTick
       PROVE  ProcessTypeOK'
  BY <1>12 DEF ProcessTick, Tick
<1>13. CASE UNCHANGED processVars
  BY <1>13 DEF processVars
<1> QED
  BY <1>3, <1>4, <1>5, <1>6, <1>7, <1>8, <1>9, <1>10, <1>11, <1>12, <1>13
     DEF ProcessNext, ConsumerStep, MainStep

\* Every variable of the process keeps its type, and the consumer, main and
\* the calls to Redis agree on what is under way.
THEOREM ProcessTypeCorrect == ProcessSpec => []ProcessTypeOK
<1>1. ASSUME ProcessInit PROVE ProcessTypeOK
  <2>1. TypeOK
    BY <1>1, TypeInit DEF ProcessInit
  <2>2. clean \in BOOLEAN
    BY <1>1 DEF ProcessInit
  <2>3. \A c \in Callers : pc[c] = "idle"
    BY <1>1 DEF ProcessInit, Init
  <2> QED
    BY <1>1, <2>1, <2>2, <2>3 DEF ProcessInit, ProcessTypeOK, Handlers
<1> QED
  BY <1>1, ProcessTypeNext, PTL DEF ProcessSpec

\* However the process starts, stops, drains and is killed, and whatever the
\* consumer does meanwhile, it uses the counters only as they are meant to be.
THEOREM ProcessKeepsCounters == ProcessSpec => Spec
<1>1. ProcessInit => Init
  BY DEF ProcessInit
<1> QED
  BY <1>1, StepIsCounters, ProcessTypeCorrect, PTL DEF ProcessSpec, Spec

\* In every process a key that has no expiry is about to be given one, or the
\* EXPIRE was lost: nothing else leaves a counter behind for good.
THEOREM CountersExpireHolds == ProcessSpec => []CountersExpire
BY ProcessKeepsCounters, CountersExpireAlone, PTL

\* Once main has found all requests finished no other begins.
LEMMA CleanNext ==
    ProcessTypeOK /\ CleanStop /\ [ProcessNext]_processVars => CleanStop'
<1> SUFFICES ASSUME ProcessTypeOK, CleanStop, [ProcessNext]_processVars,
                    clean', NEW h \in Handlers
             PROVE  Idle(h)'
  BY DEF CleanStop, Handlers
<1>1. pc \in [Callers -> {"idle", "expire", "del"}] /\ h \in Callers
  BY DEF ProcessTypeOK, TypeOK, Handlers
<1> USE DEF server, consumer, redis, callers
<1>0. clean => Idle(h)
  BY DEF CleanStop
<1>2. ASSUME NEW g \in Handlers, NEW p \in Products,
             BuyProduct(g, p)
      PROVE  Idle(h)'
  BY <1>0, <1>2 DEF Idle, BuyProduct, Serving
<1>3. ASSUME NEW g \in Handlers, StartOrder(g) \/ EndPurchase(g) \/ EndOrder(g)
      PROVE  Idle(h)'
  BY <1>0, <1>1, <1>3 DEF Idle, StartOrder, Serving, EndPurchase, EndOrder,
                          Expire, Fail, Return, Handlers
<1>4. ASSUME NEW p \in Products, ReadMessage(p)
      PROVE  Idle(h)'
  BY <1>0, <1>4 DEF Idle, ReadMessage
<1>5. ASSUME StopReading \/ MarkReturns
      PROVE  Idle(h)'
  BY <1>0, <1>5 DEF Idle, StopReading, MarkReturns
<1>6. ASSUME DropStarts
      PROVE  Idle(h)'
  BY <1>0, <1>1, <1>6 DEF Idle, DropStarts, DeleteProductFromOrder, Go, Handlers
<1>7. ASSUME DropReturns
      PROVE  Idle(h)'
  BY <1>0, <1>1, <1>7 DEF Idle, DropReturns, Del, Fail, Return, Handlers
<1>8. ASSUME Start \/ Stop \/ Drained \/ DrainTimesOut \/ CloseNext
      PROVE  Idle(h)'
  BY <1>0, <1>8 DEF Idle, Start, Stop, Drained, DrainTimesOut, CloseNext
<1>9. ASSUME Exit \/ Crash
      PROVE  Idle(h)'
  BY <1>0, <1>1, <1>9 DEF Idle, Exit, Crash, Leave, CutOff
<1>10. ASSUME ProcessTick
       PROVE  Idle(h)'
  BY <1>0, <1>10 DEF Idle, ProcessTick, Tick
<1>11. CASE UNCHANGED processVars
  BY <1>0, <1>11 DEF Idle, processVars
<1> QED
  BY <1>2, <1>3, <1>4, <1>5, <1>6, <1>7, <1>8, <1>9, <1>10, <1>11
     DEF ProcessNext, ConsumerStep, MainStep

\* A stop that reports all requests finished has cut none off, and meets none
\* until the process has gone.
THEOREM CleanStopHolds == ProcessSpec => []CleanStop
<1>1. ProcessInit => CleanStop
  BY DEF ProcessInit, CleanStop
<1> QED
  BY <1>1, CleanNext, ProcessTypeCorrect, PTL DEF ProcessSpec
===============================================================================
