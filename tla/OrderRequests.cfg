SPECIFICATION FairSpec
CONSTANTS
    Handlers = {h1, h2}
    Consumer = Consumer
    Nobody = Nobody
    Users = {u1}
    NoUser = NoUser
    Products = {p1}
    NoItem = NoItem
    Quantities = {1, 2}
    MaxOrders = 2
    Int32Max = 1
INVARIANTS TypeOK IndInv
PROPERTIES RequestsAnswered MarkingsEnd OneOrderIfSerial CompleteIfQuiet
