\* The services may stop: no request to the core service starts once MaxEvents
\* events are out.
CHECK_DEADLOCK FALSE
SPECIFICATION FairSpec
CONSTANTS
    Clients = {c1}
    Handlers = {h1}
    Consumer = Consumer
    Nobody = Nobody
    Users = {u1}
    NoUser = NoUser
    Prices = {999, 1000, 10001}
    Amounts = {1}
    Quantities = {1}
    NoItem = NoItem
    CheapPrice = 1000
    DearPrice = 10000
    MaxProducts = 1
    MaxOrders = 1
    MaxEvents = 2
    Int32Max = 2
    NoOffset = NoOffset
INVARIANTS TypeOK MarksAnnounced IndInv
PROPERTIES AtMostOnce EventsRead ImplementsBooks
