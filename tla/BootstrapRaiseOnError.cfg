\* As Bootstrap.cfg, under raise_on_error: send_transaction raises on the
\* AccountAlreadyInUse failure before the _post_* helper can return the
\* existing address, so a rerun after a timeout never gets it back.
CONSTANTS
    auth = auth
    t1 = t1
    mint = mint
    oracle = oracle
    clock = clock
    Oracle = oracle
    Clock = clock
    Authority = auth
    Traders = {t1}
    Mint = mint
    Seed = "grp"
    ProductKeys <- MCProductKeys
    Ratio <- MCRatio
    RaiseOnError = TRUE
    MaxInflight = 1
SPECIFICATION Spec
INVARIANT RerunFindsExisting
