\* Two products, none removed, raise_on_error off: cancel_all_orders
\* racing fills and new orders.
CONSTANTS
    ProductSlots = {0, 1}
    Removed = {}
    NodeCount = 3
    MaxOrderId = 2
    RaiseOnError = FALSE
SPECIFICATION Spec
INVARIANT TypeOK
INVARIANT EveryFetchedOrderClosed
INVARIANT CancelsOnlyFetched
PROPERTY CancelAllTerminates
PROPERTY ReplaceNeverAddsOrder
PROPERTY ImplementsOpenOrders
