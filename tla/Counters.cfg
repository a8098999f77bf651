SPECIFICATION ProcessSpec
CONSTANTS
    Callers = {h1, h2, Consumer}
    Consumer = Consumer
    Products = {p1, p2}
    NoProduct = NoProduct
    TTL = 2
    DrainTicks = 2
    MaxCount = 2
INVARIANTS ProcessTypeOK CountersExpire CleanStop
PROPERTIES CountersFade StopsEnd HandlingEnds
