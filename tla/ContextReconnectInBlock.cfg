\* global_fee_payer blocks whose bodies return normally, with
\* SDKContext.connect called again, possibly inside a block.
CONSTANTS
    p0 = p0
    o1 = o1
    o2 = o2
    Payer = p0
    Owners <- MCOwners
    UserNames = {"alice", "bob"}
    MaxGen = 4
    MaxDepth = 2
    BodyRaises = FALSE
    ConnectPayers = {p0, o1}
    MaxConnects = 1
SPECIFICATION Spec
INVARIANT PaidByPayerOutsideBlocks
