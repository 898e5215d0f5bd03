\* actions.deposit_funds after SDKContext.register_trader: the risk group
\* it names against the one register_trader created.
CONSTANTS
    auth = auth
    t1 = t1
    mint = mint
    oracle = oracle
    clock = clock
    Oracle = oracle
    Clock = clock
    Authority = auth
    Traders = {t1}
    Mint = mint
    Seed = "grp"
    ProductKeys <- MCProductKeys
    Ratio <- MCRatio
    RaiseOnError = FALSE
    MaxInflight = 1
SPECIFICATION Spec

PROPERTY DepositReachesRegisteredGroup
