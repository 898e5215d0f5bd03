\* Fractional.into truncates where fromFloat is specified to round.
CONSTANTS
    Decimals = 2
    Scale = 3
    Wallet0 = 3000
    Literals <- MCLiterals
    FloatTrunc <- MCFloatTrunc
SPECIFICATION Spec
INVARIANT IntoRoundsToNearest
