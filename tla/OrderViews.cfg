SPECIFICATION Spec
CONSTANTS Orders={o1} Other=other NoPrice=NoPrice None=None Slots={a,b}
INVARIANTS OwnStepSeen PriceOfItsOrder
PROPERTIES SeenInOrder
