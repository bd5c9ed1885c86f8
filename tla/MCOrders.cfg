SPECIFICATION Spec
CONSTANTS
    Orders = {o1}
    Workers = {w1, w2, w3}
    Prices = {p1, p2}
    NoPrice = NoPrice
    Flusher = Flusher
    None = None
    MaxHistory = 4
    MaxRestarts = 1
SYMMETRY Symmetry
INVARIANTS
    TypeOK
    StatusIsLogged
    LocksHaveOwners
    FilesOutliveRound
PROPERTIES
    ImplementsBook
    PriceIsFinal
    NoRevival
