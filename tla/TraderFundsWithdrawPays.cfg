\* withdraw raises TypeError before anything is sent.
CONSTANTS
    Decimals = 2
    Scale = 3
    Wallet0 = 3000
    Literals <- MCLiterals
    FloatTrunc <- MCFloatTrunc
SPECIFICATION Spec
INVARIANT WithdrawPaysBack
