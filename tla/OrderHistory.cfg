SPECIFICATION Spec
CONSTANTS MaxOrders = 4 PageSize = 2 PerMilli = 2 None = None
INVARIANTS NewestFirst NothingSkipped
