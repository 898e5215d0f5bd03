\* Keys of 4 bits: 2 sequence bits, 1 fractional and 1 integer price bit;
\* up to 3 resting orders per side, 4 posts in all.
CONSTANTS
    SeqBits = 2
    FracBits = 1
    IntBits = 1
    SlotCount = 7
    None = None
    Quantities = {1, 2}
    MaxOrders = 3
SPECIFICATION Spec
INVARIANT DistinctPricesDistinctLevels
CHECK_DEADLOCK FALSE
