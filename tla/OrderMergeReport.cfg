SPECIFICATION Spec
SYMMETRY Symmetry
CONSTANTS
    Handlers = {h1, h2}
    Consumer = Consumer
    Nobody = Nobody
    Users = {u1}
    NoUser = NoUser
    Products = {p1, p2}
    NoItem = NoItem
    Quantities = {1}
    MaxOrders = 1
    Int32Max = 3
PROPERTIES MergedWhenReported
