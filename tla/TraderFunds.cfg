\* deposit, withdraw and place_order amounts with sdk.decimals = 2.
CONSTANTS
    Decimals = 2
    Scale = 3
    Wallet0 = 3000
    Literals <- MCLiterals
    FloatTrunc <- MCFloatTrunc
SPECIFICATION Spec
INVARIANTS TypeOK DepositWithinOneUnit
