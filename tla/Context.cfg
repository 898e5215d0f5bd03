\* Signer registration by callers and by register_trader, sends, and
\* nested global_fee_payer blocks whose bodies may raise.
CONSTANTS
    p0 = p0
    o1 = o1
    o2 = o2
    Payer = p0
    Owners <- MCOwners
    UserNames = {"alice"}
    MaxGen = 4
    MaxDepth = 2
    BodyRaises = TRUE
    ConnectPayers = {p0}
    MaxConnects = 1
SPECIFICATION Spec
INVARIANT ScopedFeePayerRestored
