\* raise_on_error on: a cancel of an order filled after the fetch raises.
CONSTANTS
    ProductSlots = {0, 1}
    Removed = {}
    NodeCount = 3
    MaxOrderId = 2
    RaiseOnError = TRUE
SPECIFICATION Spec
INVARIANT EveryFetchedOrderClosed
