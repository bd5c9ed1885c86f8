SPECIFICATION FairSpec
CONSTANTS
    Orders = {o1, o2}
    Workers = {w1}
    Prices = {}
    NoPrice = NoPrice
    Flusher = Flusher
    None = None
    MaxHistory = 2
    MaxRestarts = 0
PROPERTIES
    ImplementsBook
    RequestsEnd
    StaleReviewsEnd
