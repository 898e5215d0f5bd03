\* withdraw scales a float amount by decimals instead of 10**decimals.
CONSTANTS
    Decimals = 2
    Scale = 3
    Wallet0 = 3000
    Literals <- MCLiterals
    FloatTrunc <- MCFloatTrunc
SPECIFICATION Spec
INVARIANT WithdrawWithinOneUnit
