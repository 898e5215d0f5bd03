\* Product slot 0 was removed: sdk.products is shifted against the slots.
CONSTANTS
    ProductSlots = {0, 1, 2}
    Removed = {0}
    NodeCount = 3
    MaxOrderId = 2
    RaiseOnError = FALSE
SPECIFICATION Spec
INVARIANT CancelsOnlyFetched
