\* The bootstrap actions called in any order by one authority and one
\* trader, with timeouts, late landings and funders running dry.
CONSTANTS
    auth = auth
    t1 = t1
    mint = mint
    oracle = oracle
    clock = clock
    Oracle = oracle
    Clock = clock
    Authority = auth
    Traders = {t1}
    Mint = mint
    Seed = "grp"
    ProductKeys <- MCProductKeys
    Ratio <- MCRatio
    RaiseOnError = FALSE
    MaxInflight = 1
SPECIFICATION Spec
INVARIANTS TypeOK AddressMeansAccount RerunFindsExisting SeedsMatchAddresses OneComboPerLegs
PROPERTY RegisterTraderConnects
