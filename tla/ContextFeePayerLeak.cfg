\* A global_fee_payer body that raises.
CONSTANTS
    p0 = p0
    o1 = o1
    o2 = o2
    Payer = p0
    Owners <- MCOwners
    UserNames = {"alice", "bob"}
    MaxGen = 4
    MaxDepth = 2
    BodyRaises = TRUE
    ConnectPayers = {}
    MaxConnects = 1
SPECIFICATION Spec
INVARIANT PaidByPayerOutsideBlocks
