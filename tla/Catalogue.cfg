\* The service may stop: no request starts once MaxEvents events are out.
CHECK_DEADLOCK FALSE
SPECIFICATION FairSpec
CONSTANTS
    Clients = {c1, c2}
    Nobody = Nobody
    Prices = {999, 1000, 10000, 10001}
    Amounts = {1}
    CheapPrice = 1000
    DearPrice = 10000
    MaxProducts = 1
    MaxAmount = 2
    MaxEvents = 3
INVARIANTS TypeOK OpenDeletionHasRow EventsAreTrue IndInv
PROPERTIES DearOnesAnnounced OkDeletionsHappen RequestsAnswered ImplementsShelf
