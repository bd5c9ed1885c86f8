SPECIFICATION Spec
CONSTANTS
    Orders = {o1}
    Workers = {w1, w2}
    Prices = {}
    NoPrice = NoPrice
    Flusher = Flusher
    None = None
    MaxHistory = 4
    MaxRestarts = 0
SYMMETRY Symmetry
PROPERTIES
    FinalIsFinal
