------------------------------ MODULE Bootstrap ------------------------------
(***************************************************************************)
(* The market bootstrap actions of src/client/dexterity/dex/actions.py     *)
(* against the accounts they create on chain: create_market_product_group, *)
(* create_fee_register, create_risk_config_acct, create_risk_register,     *)
(* init_market_product_group, create_market_product, create_combo,         *)
(* init_mint, init_trader_mint_account and mint_to_trader, each sent by    *)
(* actionify (utils/solana.py) and answered by its _post_* helper.         *)
(*                                                                         *)
(* An address is the term of its derivation (addrs.py): create_with_seed  *)
(* and find_program_address hash their inputs, and crush hashes the       *)
(* formatted seed layout, so an address is modelled by those inputs.      *)
(* A transaction is the sequence of its operations; the chain runs them   *)
(* in order and keeps none of their effects if one fails, and reports the *)
(* index of the failing instruction and its Custom code.  The programs'   *)
(* side (system program, token programs, the order book and the dex)      *)
(* follows the runtime's rules, not code of this repository.  A caller    *)
(* calls the actions in any order, any number of times: a bootstrap       *)
(* script that crashed and is run again is one such caller.  A send may   *)
(* time out (confirmation raises) while its transaction still lands       *)
(* later; another client may initialize the market product group.        *)
(***************************************************************************)
EXTENDS Naturals, Sequences, FiniteSets, SequencesExt, TLC

CONSTANTS
    Authority,     \* the market authority's public key
    Traders,       \* trader public keys
    Mint,          \* the vault mint keypair given to init_mint
    Seed,          \* the market product group seed
    ProductKeys,   \* product keys create_market_product is given, as
                   \* <<"pk", n>>: n orders them as their base58 strings
    Ratio,         \* the ratio create_combo is given for each product key
    Oracle,        \* the oracle keypair given to initialize_oracle
    Clock,         \* the clock keypair given to initialize_clock
    RaiseOnError,  \* Context.raise_on_error
    MaxInflight    \* bound on timed-out transactions still in flight

DEX == "dex"
AOB == "aaob"
FEES == "constant_fees"
ALPHA == "alpha_risk_engine"
TOKEN == "token"
ATA == "associated_token"
ORACLE == "dummy_oracle"
INSTRUMENTS == "instruments"
NOOP == "noop_risk_engine"

(* solana-py PublicKey.create_with_seed and find_program_address.         *)
WithSeed(base, seed, prog) == <<"with_seed", base, seed, prog>>
Pda(seeds, prog) == <<"pda", seeds, prog>>

(* addrs.crush: the md5 hex digest of the formatted layout.                *)
Crush(layout, args) == <<layout, args>>

(* addrs.get_market_product_group_addr.                                    *)
MarketProductGroupAddr(auth, seed) == WithSeed(auth, Crush("prod_grp", seed), DEX)

(* addrs.get_risk_register_addr.                                           *)
RiskRegisterAddr(auth, group, prog, layout) == WithSeed(auth, Crush(layout, group), prog)

(* addrs.get_fee_register_addr.                                            *)
FeeRegisterAddr(auth, group, prog, layout) == WithSeed(auth, Crush(layout, group), prog)

AobKinds == <<"prod:ob", "prod:eq", "prod:bid", "prod:ask">>

(* Mutant: the bids and asks addresses are returned in swapped order.     *)
OrderbookAddrsSwapped(auth, group, key) ==
    LET a(k) == WithSeed(auth, Crush(k, <<group, key>>), AOB)
    IN  <<a("prod:ob"), a("prod:eq"), a("prod:ask"), a("prod:bid")>>

(* actions.get_orderbook_addrs: orderbook, event queue, bids, asks.        *)
OrderbookAddrs(auth, group, key) ==
    [i \in 1 .. 4 |-> WithSeed(auth, Crush(AobKinds[i], <<group, key>>), AOB)]

(* str(key) < str(key'), the order sorted() puts product keys in.         *)
StrLess(a, b) == a[2] < b[2]

(* Mutant: the product keys are sorted but the ratios keep their order.   *)
ComboProductKeyUnpermuted(keys, ratios) ==
    LET idx == SortSeq([i \in 1 .. Len(keys) |-> i], LAMBDA i, j : StrLess(keys[i], keys[j]))
    IN  Pda([i \in 1 .. Len(keys) |-> keys[idx[i]]] \o ratios, DEX)

(* actions.get_combo_product_key: sort the legs by the string of their    *)
(* product key, then seed with the keys and the ratios in that order.     *)
ComboProductKey(keys, ratios) ==
    LET idx == SortSeq([i \in 1 .. Len(keys) |-> i], LAMBDA i, j : StrLess(keys[i], keys[j]))
    IN  Pda([i \in 1 .. Len(keys) |-> keys[idx[i]]] \o [i \in 1 .. Len(keys) |-> ratios[idx[i]]], DEX)

(* spl get_associated_token_address.                                       *)
AssociatedTokenAddr(owner, mint) == Pda(<<owner, TOKEN, mint>>, ATA)

(* addrs.get_fee_model_configuration_addr and get_trader_fee_state_acct.   *)
FeeModelConfigAddr(group) == Pda(<<"fee_model_config_acct", group>>, FEES)
TraderFeeStateAcct(owner, group) == Pda(<<"trader_fee_acct", owner, group>>, FEES)

(* instruments get_derivative_key and get_fixed_income_key, the numeric  *)
(* seeds (type, strike, periods, dates) being fixed arguments.             *)
DerivativeKey(oracle, group) == Pda(<<"derivative", oracle, group>>, INSTRUMENTS)
FixedIncomeKey(group) == Pda(<<"fixed_income", group>>, INSTRUMENTS)

(* addrs.get_trader_risk_group_addr and get_risk_model_configuration_addr, *)
(* and get_risk_signer, the dex's address of the group.                   *)
TraderRiskGroupAddr(trader, group) == WithSeed(trader, Crush("trdr_grp", group), DEX)
RiskModelConfigAddr(group, prog) == Pda(<<"risk_model_config_acct", group>>, prog)
RiskSigner(group) == Pda(<<group>>, DEX)

(* register_trader's Keypair.generate() for the trader risk group and its *)
(* risk state account, and create_risk_model_configuration_acct's: fresh  *)
(* keys, which no derivation gives.                                       *)
TrgKeypair(t) == <<"keypair", "trader_risk_group", t>>
RiskStateKeypair(t) == <<"keypair", "trader_risk_state", t>>
(* Keypair() in create_risk_model_configuration_acct: a new key each call; *)
(* RiskModelKeys (a model bound) keys stand for them.                     *)
RiskModelKeys == 2
RiskModelKeypair(i) == <<"keypair", "risk_model", i>>

(* A product registered in the market product group.                       *)
Registered(key) == <<"product", key>>

Mpg == MarketProductGroupAddr(Authority, Seed)
(* The orders in which a caller may list the legs of the combo.            *)
Listings == SetToSeqs(ProductKeys)
ComboKeys == {ComboProductKey(l, [i \in 1 .. Len(l) |-> Ratio[l[i]]]) : l \in Listings}
Accts == {Mpg, Mint, FeeRegisterAddr(Authority, Mpg, FEES, "fee"),
          RiskRegisterAddr(Authority, Mpg, ALPHA, "risk_config"),
          RiskRegisterAddr(Authority, Mpg, ALPHA, "out_register_risk")}
         \cup {AssociatedTokenAddr(t, Mint) : t \in Traders}
         \cup {Oracle, Clock, FeeModelConfigAddr(Mpg), DerivativeKey(Oracle, Mpg), FixedIncomeKey(Mpg),
               RiskRegisterAddr(Authority, Mpg, NOOP, "risk_config")}
         \cup {TraderFeeStateAcct(t, Mpg) : t \in Traders}
         \cup UNION {{TrgKeypair(t), TraderFeeStateAcct(TrgKeypair(t), Mpg), TraderRiskGroupAddr(t, Mpg),
                      TraderFeeStateAcct(TraderRiskGroupAddr(t, Mpg), Mpg),
                      RiskRegisterAddr(t, TraderRiskGroupAddr(t, Mpg), ALPHA, "in_register_risk")} : t \in Traders}
         \cup {RiskModelKeypair(i) : i \in 1 .. RiskModelKeys} \cup {RiskModelConfigAddr(Mpg, ALPHA)}
         \cup UNION {Range(OrderbookAddrs(Authority, Mpg, k)) \cup {Registered(k)} : k \in ProductKeys \cup ComboKeys}
(* A transaction is a sequence of operations; an operation names the      *)
(* accounts it brings to state `to', the accounts it needs initialised,   *)
(* the seed of a create_with_seed, and the first two accounts of its     *)
(* instruction.                                                            *)
Op(kind, accts, to, needs, seed, keys) ==
    [accts |-> accts, keys |-> keys, kind |-> kind, needs |-> needs, seed |-> seed, to |-> to]

(* system_program.create_account_with_seed(from, new, base = from, seed). *)
CreateWithSeedOp(from, new, seed, prog) == Op("create", {new}, "allocated", {}, <<from, seed, prog>>, <<from, new>>)

(* system_program.create_account(from, new).                               *)
CreateOp(from, new) == Op("create", {new}, "allocated", {}, <<>>, <<from, new>>)

(* utils/aob/instructions.create_market_aob_ix: the order book program    *)
(* initialises the market, event queue, bids and asks.                     *)
CreateMarketOp(ob) == Op("init", Range(ob), "initialized", {}, <<>>, <<ob[1], ob[2]>>)

(* ixs.initialize_market_product(authority, market_product_group,         *)
(* product, orderbook): the dex adds the product to the group.            *)
InitializeMarketProductOp(auth, key, ob) == Op("register", {Registered(key)}, "initialized", {Mpg, ob}, <<>>, <<auth, Mpg>>)

(* ixs.initialize_combo(authority, market_product_group, orderbook,       *)
(* remaining_accounts = the legs): the dex adds the combo to the group.   *)
InitializeComboOp(auth, key, ob, legs) ==
    Op("register", {Registered(key)}, "initialized", {Mpg, ob} \cup {Registered(p) : p \in Range(legs)}, <<>>, <<auth, Mpg>>)

(* spl initialize_mint, create_associated_token_account(payer, owner,     *)
(* mint) and mint_to_checked(mint, dest, authority).                       *)
InitializeMintOp(mint) == Op("init", {mint}, "initialized", {}, <<>>, <<mint, "sysvar_rent">>)
AtaCreateOp(payer, ata, mint) == Op("create", {ata}, "initialized", {mint}, <<>>, <<payer, ata>>)
MintToOp(mint, dest) == Op("use", {dest}, "initialized", {mint, dest}, <<>>, <<mint, dest>>)

(* The dummy oracle's initialize_oracle_ix / initialize_clock_ix (the      *)
(* account, the update authority) and update_price_ix / update_clock_ix.   *)
OracleInitOp(acct, auth) == Op("init", {acct}, "initialized", {}, <<>>, <<acct, auth>>)
OracleUpdateOp(keys) == Op("use", {keys[1]}, "initialized", {keys[1]}, <<>>, keys)

(* constant_fees update_fees_ix (payer, fee config, group): the fee       *)
(* program writes the group's fee configuration; initialize_trader_acct_ix *)
(* (payer, fee config, trader fee account, ...) creates the trader's fee  *)
(* account.                                                                *)
UpdateFeesOp(payer, cfg) == Op("upsert", {cfg}, "initialized", {Mpg}, <<>>, <<payer, cfg>>)
InitTraderFeeOp(payer, cfg, acct) == Op("create", {acct}, "initialized", {cfg}, <<>>, <<payer, cfg>>)

(* The instruments program: initialize_derivative (derivative metadata,   *)
(* oracle, group, payer, system program, clock), initialize_fixed_income  *)
(* (metadata, group, payer) create the metadata account;                   *)
(* settle_fixed_income (group, metadata, dex) settles it.                  *)
InitDerivativeOp(meta, oracle, clock) == Op("create", {meta}, "initialized", {oracle, clock, Mpg}, <<>>, <<meta, oracle>>)
InitFixedIncomeOp(meta) == Op("create", {meta}, "initialized", {Mpg}, <<>>, <<meta, Mpg>>)
SettleFixedIncomeOp(meta) == Op("use", {meta}, "initialized", {meta, Mpg}, <<>>, <<Mpg, meta>>)

(* risk/actions initialize_risk_config_acct's instruction: group, admin,  *)
(* the risk model configuration account, which the engine initialises.   *)
InitRiskConfigOp(admin, acct) == Op("init", {acct}, "initialized", {Mpg}, <<>>, <<Mpg, admin>>)

(* Custom codes: the system program's AccountAlreadyInUse,                 *)
(* ResultWithNegativeLamports and AddressWithSeedMismatch, and a program's *)
(* own nonzero error; NoCode when the operation succeeds.                  *)
AlreadyInUse == 0
NegativeLamports == 1
SeedMismatch == 5
ProgramErr == 2
NoCode == 100
NoAddr == <<"None">>
States == {"none", "allocated", "initialized"}

VARIABLES
    chain,     \* the state of every account the actions name
    funded,    \* whether the funders still hold the lamports they spend
    inflight,  \* transactions whose confirmation timed out, not landed yet
    last,      \* the last action call: its target account, whether it
               \* existed, the failing code, how it ended, what it returned
    scope,     \* which caller runs beside the group's own set-up: the
               \* market's (products, combos, mint), the instruments'
               \* (oracle, fees, instruments, risk config) or the traders'
    registered \* owners register_trader has added signers for in this
               \* process
vars == <<chain, funded, inflight, last, scope, registered>>

OpCode(op, st) ==
    CASE op.kind = "create" /\ op.seed # <<>> /\ op.keys[2] # WithSeed(op.seed[1], op.seed[2], op.seed[3]) -> SeedMismatch
      [] op.kind = "create" /\ \E a \in op.accts : st[a] # "none"            -> AlreadyInUse
      [] op.kind = "create" /\ ~funded                                       -> NegativeLamports
      [] \E a \in op.needs : st[a] # "initialized"                           -> ProgramErr
      [] op.kind = "init" /\ \E a \in op.accts : st[a] # "allocated"         -> ProgramErr
      [] op.kind = "register" /\ \E a \in op.accts : st[a] # "none"          -> ProgramErr
      [] op.kind = "upsert" /\ \E a \in op.accts : st[a] = "none" /\ ~funded -> NegativeLamports
      [] OTHER                                                               -> NoCode

(* The runtime runs the instructions in order and stops at the first that *)
(* fails: its index and code, and the state the earlier ones produced.     *)
RECURSIVE Run(_, _, _)
Run(ops, st, i) ==
    IF i > Len(ops) THEN [code |-> NoCode, failed |-> FALSE, ix |-> 0, st |-> st]
    ELSE IF OpCode(ops[i], st) # NoCode
         THEN [code |-> OpCode(ops[i], st), failed |-> TRUE, ix |-> i - 1, st |-> st]
         ELSE Run(ops, [a \in DOMAIN st |-> IF a \in ops[i].accts THEN ops[i].to ELSE st[a]], i + 1)

(* A transaction is atomic: a failure keeps none of its effects.           *)
Landed(ops) == LET r == Run(ops, chain, 1) IN IF r.failed THEN chain ELSE r.st
(* Mutant: every failure of the first instruction counts as "exists".     *)
PostExistsAnyError(r) == ~r.failed \/ r.ix = 0

(* Mutant: only a transaction that succeeded counts as "exists".           *)
PostExistsNoRetry(r) == ~r.failed

(* _post_create_market_product_group (and its copies for the risk         *)
(* register, risk config, init_mint and init_trader_mint_account): the    *)
(* account exists if the transaction succeeded or its first instruction   *)
(* failed with Custom 0; the address returned is then                     *)
(* instructions[0]["accounts"][1], else None.  (_post_init_mint's test   *)
(* type(error_info) != str changes nothing: the errors here are Custom.)  *)
PostExists(r) == ~r.failed \/ (r.ix = 0 /\ r.code = 0)

(* Mutant: the address is read from the first account of the first       *)
(* instruction, whatever index the helper names.                          *)
PostAddrFirst(ops, idx) == ops[1].keys[1]

(* The address the post-processing helpers return:                        *)
(* instructions[0]["accounts"][idx], TransactionDetails.instructions       *)
(* mapping account indices to keys; idx is 1 for the _post_* helpers and  *)
(* what extract_acct_addr is given.                                        *)
PostAddr(ops, idx) == ops[1].keys[idx + 1]

(* The account the first operation of a transaction creates or writes.    *)
Target(ops) == CHOOSE a \in ops[1].accts : TRUE

LastOf(act, post, ops, code, res, ret) ==
    [act |-> act, code |-> code, existed |-> chain[Target(ops)] # "none", post |-> post,
     res |-> res, ret |-> ret, target |-> Target(ops)]

(* actionify: build the transaction, send_transaction it, post-process   *)
(* the details.  send_transaction raises ValueError on a failed           *)
(* transaction under raise_on_error, before the post-processing; a send   *)
(* whose confirmation times out raises, its transaction still in flight.  *)
Call(act, ops, post, idx) ==
    /\ \/ LET r == Run(ops, chain, 1)
              raised == r.failed /\ RaiseOnError
          IN  /\ chain' = Landed(ops)
              /\ last' = LastOf(act, post, ops, r.code, IF raised THEN "ValueError" ELSE "returned",
                                IF post /\ ~raised /\ PostExists(r) THEN PostAddr(ops, idx) ELSE NoAddr)
              /\ UNCHANGED inflight
       \/ /\ Cardinality(inflight) < MaxInflight
          /\ inflight' = inflight \cup {ops}
          /\ last' = LastOf(act, post, ops, NoCode, "Timeout", NoAddr)
          /\ UNCHANGED chain
    /\ UNCHANGED <<funded, scope, registered>>

Group == Mpg
FeeRegister == FeeRegisterAddr(Authority, Group, FEES, "fee")
RiskConfig == RiskRegisterAddr(Authority, Group, ALPHA, "risk_config")
RiskRegister == RiskRegisterAddr(Authority, Group, ALPHA, "out_register_risk")

(* The transaction each action builds (its make function under           *)
(* actionify).  The arguments are constants, so each is a constant of the *)
(* model, computed once.                                                   *)

(* create_market_product_group(authority, seed, ...).                      *)
MarketProductGroupTx ==
    << CreateWithSeedOp(Authority, MarketProductGroupAddr(Authority, Seed), Crush("prod_grp", Seed), DEX) >>

(* create_fee_register(authority, group, size).                            *)
FeeRegisterTx ==
    << CreateWithSeedOp(Authority, FeeRegisterAddr(Authority, Group, FEES, "fee"), Crush("fee", Group), FEES) >>

(* create_risk_config_acct(authority, group): the alpha risk engine, an   *)
(* account of size 0.                                                      *)
RiskConfigTx ==
    << CreateWithSeedOp(Authority, RiskRegisterAddr(Authority, Group, ALPHA, "risk_config"),
                        Crush("risk_config", Group), ALPHA) >>

(* create_risk_register(authority, group, size).                           *)
RiskRegisterTx ==
    << CreateWithSeedOp(Authority, RiskRegisterAddr(Authority, Group, ALPHA, "out_register_risk"),
                        Crush("out_register_risk", Group), ALPHA) >>

(* create_aob_orderbook_helper: the four accounts at the addresses        *)
(* get_orderbook_addrs gives, each created with the seed of its layout,   *)
(* then the order book's create_market.                                    *)
CreateAobOrderbookIxs(auth, group, key) ==
    LET ob == OrderbookAddrs(auth, group, key)
    IN  [i \in 1 .. 4 |-> CreateWithSeedOp(auth, ob[i], Crush(AobKinds[i], <<group, key>>), AOB)]
        \o << CreateMarketOp(ob) >>

(* create_market_product(authority, group, product_key, name): the order  *)
(* book accounts and initialize_market_product, one transaction.           *)
MarketProductTx ==
    [key \in ProductKeys |->
        CreateAobOrderbookIxs(Authority, Group, key)
        \o << InitializeMarketProductOp(Authority, key, OrderbookAddrs(Authority, Group, key)[1]) >>]

(* create_combo(authority, group, products, ratios, name): the combo key  *)
(* from get_combo_product_key, its order book, initialize_combo with the  *)
(* legs as remaining accounts.                                             *)
ComboTx ==
    [legs \in Listings |->
        LET key == ComboProductKey(legs, [i \in 1 .. Len(legs) |-> Ratio[legs[i]]])
        IN  CreateAobOrderbookIxs(Authority, Group, key)
            \o << InitializeComboOp(Authority, key, OrderbookAddrs(Authority, Group, key)[1], legs) >>]

(* init_mint(authority, mint): create the mint account, initialize_mint.  *)
MintTx == << CreateOp(Authority, Mint), InitializeMintOp(Mint) >>

(* init_trader_mint_account(trader, mint): the trader's associated token  *)
(* account, the trader paying.                                             *)
TraderMintAccountTx == [t \in Traders |-> << AtaCreateOp(t, AssociatedTokenAddr(t, Mint), Mint) >>]

(* mint_to_trader(trader, mint, ...): mint_to_checked into that account.  *)
MintToTraderTx == [t \in Traders |-> << MintToOp(Mint, AssociatedTokenAddr(t, Mint)) >>]

(* dummy_oracle initialize_oracle(authority, oracle, price) and           *)
(* initialize_clock(authority, clock): create_account, then the init.     *)
OracleTx == << CreateOp(Authority, Oracle), OracleInitOp(Oracle, Authority) >>
ClockTx == << CreateOp(Authority, Clock), OracleInitOp(Clock, Authority) >>

(* dummy_oracle update_clock(clock, ...) and update_price(oracle,         *)
(* authority, price).                                                      *)
UpdateClockTx == << OracleUpdateOp(<<Clock>>) >>
UpdatePriceTx == << OracleUpdateOp(<<Oracle, Authority>>) >>

(* constant_fees update_fees(payer, group, ...): the fee configuration at *)
(* get_fee_model_configuration_addr(group).                                *)
UpdateFeesTx == << UpdateFeesOp(Authority, FeeModelConfigAddr(Mpg)) >>

(* constant_fees initialize_trader_fee_acct(payer, group): the trader     *)
(* fee account is get_trader_fee_state_acct(payer, group, ...).            *)
TraderFeeAcctTx == [t \in Traders |-> << InitTraderFeeOp(t, FeeModelConfigAddr(Mpg), TraderFeeStateAcct(t, Mpg)) >>]

(* instruments initialize_derivative(price_oracle, group, payer, ...,     *)
(* clock) and initialize_fixed_income(..., group, payer, ...).            *)
DerivativeTx == << InitDerivativeOp(DerivativeKey(Oracle, Mpg), Oracle, Clock) >>
FixedIncomeTx == << InitFixedIncomeOp(FixedIncomeKey(Mpg)) >>
SettleFixedIncomeTx == << SettleFixedIncomeOp(FixedIncomeKey(Mpg)) >>

(* initialize_risk_config_acct(admin, group, program_id) for a risk       *)
(* engine other than alpha: the config at get_risk_register_addr.          *)
NoopRiskConfig == RiskRegisterAddr(Authority, Mpg, NOOP, "risk_config")
RiskConfigInitTx == << InitRiskConfigOp(Authority, NoopRiskConfig) >>

(* ixs.initialize_trader_risk_group(owner, trader_risk_group, group,      *)
(* risk_signer, trader_risk_state_acct, trader_fee_state_acct, ...): the   *)
(* dex initialises the allocated risk group with the fee account the fee  *)
(* program made; the risk group records the keys it is given.             *)
InitTraderRiskGroupOp(owner, trg, rsa, fee) ==
    Op("init", {trg}, "initialized", {Mpg, fee}, <<>>, <<owner, trg, Mpg, RiskSigner(Mpg), rsa, fee>>)

(* SDKContext.register_trader(keypair, wallet): the trader's fee account  *)
(* at get_trader_fee_state_acct(trader_risk_group), the risk group        *)
(* allocated by the SDK payer (the authority), and its initialisation.    *)
RegisterTraderTx ==
    [t \in Traders |->
        LET fee == TraderFeeStateAcct(TrgKeypair(t), Mpg)
        IN  << InitTraderFeeOp(Authority, FeeModelConfigAddr(Mpg), fee), CreateOp(Authority, TrgKeypair(t)),
               InitTraderRiskGroupOp(t, TrgKeypair(t), RiskStateKeypair(t), fee) >>]

(* cancel_order(trader, group, product_key, order_id): the risk register, *)
(* the derived risk state account, and the risk model configuration at    *)
(* get_risk_model_configuration_addr(group, risk engine).                 *)
CancelOrderTx ==
    [t \in Traders |-> [k \in ProductKeys |->
        LET trg == TraderRiskGroupAddr(t, Mpg)
        IN  << Op("use", {Registered(k)}, "initialized",
                  {trg, Mpg, Registered(k), RiskRegister, RiskRegisterAddr(t, trg, ALPHA, "in_register_risk"),
                   RiskModelConfigAddr(Mpg, ALPHA)} \cup Range(OrderbookAddrs(Authority, Mpg, k)),
                  <<>>, <<t, trg>>) >>]]

(* deposit_funds(trader, trader_wallet, group, quantity): the trader's    *)
(* token account pays into the risk group get_trader_risk_group_addr     *)
(* names.                                                                  *)
DepositFundsTx ==
    [t \in Traders |->
        LET trg == TraderRiskGroupAddr(t, Mpg)
        IN  << Op("use", {trg}, "initialized", {trg, Mpg, AssociatedTokenAddr(t, Mint)}, <<>>,
                  <<t, AssociatedTokenAddr(t, Mint)>>) >>]

(* The book of product k, which clear_expired_orders and                  *)
(* remove_market_product name.                                             *)
BookOps == [k \in ProductKeys |-> << Op("use", {OrderbookAddrs(Authority, Mpg, k)[1]}, "initialized", {}, <<>>, <<Mpg, k>>) >>]

(* create_risk_model_configuration_acct(authority, program_id): a         *)
(* create_account of a fresh keypair, signed by both.                     *)
RiskModelConfigTx == [i \in 1 .. RiskModelKeys |-> << CreateOp(Authority, RiskModelKeypair(i)) >>]

(* The actions: actionify sends the transaction; the ones with a _post_*  *)
(* helper return an address, the others (None, resp).                     *)
CreateMarketProductGroup == Call("create_market_product_group", MarketProductGroupTx, TRUE, 1)
CreateFeeRegister == Call("create_fee_register", FeeRegisterTx, FALSE, 1)
CreateRiskConfigAcct == Call("create_risk_config_acct", RiskConfigTx, TRUE, 1)
CreateRiskRegister == Call("create_risk_register", RiskRegisterTx, TRUE, 1)
CreateMarketProduct(key) == Call("create_market_product", MarketProductTx[key], FALSE, 1)
CreateCombo(legs) == Call("create_combo", ComboTx[legs], FALSE, 1)
InitMint == Call("init_mint", MintTx, TRUE, 1)
InitTraderMintAccount(t) == Call("init_trader_mint_account", TraderMintAccountTx[t], TRUE, 1)
MintToTrader(t) == Call("mint_to_trader", MintToTraderTx[t], FALSE, 1)

(* init_market_product_group passes vault= to                              *)
(* ixs.initialize_market_product_group, whose parameter is               *)
(* market_product_group_vault: TypeError before anything is sent.          *)
InitMarketProductGroup ==
    /\ last' = LastOf("init_market_product_group", TRUE, MarketProductGroupTx, NoCode, "TypeError", NoAddr)
    /\ UNCHANGED <<chain, funded, inflight, scope, registered>>

InitializeOracle == Call("initialize_oracle", OracleTx, FALSE, 1)
InitializeClock == Call("initialize_clock", ClockTx, FALSE, 1)
UpdateClock == Call("update_clock", UpdateClockTx, FALSE, 1)
UpdatePrice == Call("update_price", UpdatePriceTx, FALSE, 1)
UpdateFees == Call("update_fees", UpdateFeesTx, FALSE, 1)
InitializeTraderFeeAcct(t) == Call("initialize_trader_fee_acct", TraderFeeAcctTx[t], FALSE, 1)
InitializeFixedIncome == Call("initialize_fixed_income", FixedIncomeTx, TRUE, 0)
SettleFixedIncome == Call("settle_fixed_income_ix", SettleFixedIncomeTx, TRUE, 1)

(* instruments initialize_derivative, returning extract_acct_addr(idx=0). *)
(* Without a clock the builder appends None to the keys, and              *)
(* send_transaction's signer scan raises AttributeError on it before      *)
(* anything is sent.                                                       *)
InitializeDerivative(withClock) ==
    IF withClock
    THEN Call("initialize_derivative", DerivativeTx, TRUE, 0)
    ELSE /\ last' = LastOf("initialize_derivative", TRUE, DerivativeTx, NoCode, "AttributeError", NoAddr)
         /\ UNCHANGED <<chain, funded, inflight, scope, registered>>

(* instruments settle_derivative: `_tick += 1' assigns the module's       *)
(* _tick inside the function without `global': UnboundLocalError before  *)
(* the transaction is built.                                               *)
SettleDerivative ==
    /\ last' = LastOf("settle_derivative", FALSE, DerivativeTx, NoCode, "UnboundLocalError", NoAddr)
    /\ UNCHANGED <<chain, funded, inflight, scope, registered>>

(* risk initialize_risk_config_acct: for the alpha engine (the default)   *)
(* the make function returns None, and actionify returns                  *)
(* post_process(None) = (None, None) with nothing sent; for another      *)
(* engine it sends the instruction and _post_init_risk_config reads      *)
(* instructions[0]["accounts"][1].                                        *)
InitializeRiskConfigAcct(prog) ==
    IF prog = ALPHA
    THEN /\ last' = LastOf("initialize_risk_config_acct", FALSE, RiskConfigTx, NoCode, "returned", NoAddr)
         /\ UNCHANGED <<chain, funded, inflight, scope, registered>>
    ELSE Call("initialize_risk_config_acct", RiskConfigInitTx, TRUE, 1)

(* create_risk_config_acct for an engine other than alpha raises          *)
(* Exception("Only alpha risk engine initialization currently            *)
(* implemented") before building the transaction.                          *)
CreateRiskConfigAcctOther ==
    /\ last' = LastOf("create_risk_config_acct", TRUE, RiskConfigInitTx, NoCode, "Exception", NoAddr)
    /\ UNCHANGED <<chain, funded, inflight, scope, registered>>

(* An action that raises exc before anything is sent.                      *)
RaisesBeforeSend(act, ops, exc) ==
    /\ last' = LastOf(act, FALSE, ops, NoCode, exc, NoAddr)
    /\ UNCHANGED <<chain, funded, inflight, scope, registered>>

(* fetch_account_details(group).data_obj, which the actions below read    *)
(* when the authority is not given: the parser raises on an account that  *)
(* is missing or holds no initialised group.                              *)
GroupFetched == chain[Mpg] = "initialized"

(* Mutant: connect derives the fee account from the owner, as             *)
(* constant_fees initialize_trader_fee_acct does.                          *)
ConnectFeeAcctOwner(t) == TraderFeeStateAcct(t, Mpg)

(* The fee account SDKTrader.connect derives for t's risk group.          *)
ConnectFeeAcct(t) == TraderFeeStateAcct(TrgKeypair(t), Mpg)

(* SDKTrader.connect's asserts on the explored risk group: the group, the *)
(* risk state account and the fee account it records, and its owner.     *)
ConnectAsserts(t, ops) ==
    LET k == ops[3].keys
    IN  k[1] = t /\ k[3] = Mpg /\ k[5] = RiskStateKeypair(t) /\ k[6] = ConnectFeeAcct(t)

(* SDKContext.register_trader(keypair, wallet): generate the keypairs and *)
(* add them as signers under owner-derived names, which raises for an     *)
(* owner already registered in this process (the registry is the Context  *)
(* module's); send_instructions, then SDKTrader.connect explores the risk *)
(* group, which raises when the transaction failed and nothing is there.  *)
RegisterTrader(t) ==
    LET ops == RegisterTraderTx[t]
        r == Run(ops, chain, 1)
        res == CASE r.failed /\ RaiseOnError   -> "ValueError"
                 [] r.failed                   -> "FetchError"
                 [] ~ConnectAsserts(t, ops)    -> "AssertionError"
                 [] OTHER                      -> "returned"
    IN  IF t \in registered
        THEN RaisesBeforeSend("register_trader", ops, "ValueError")
        ELSE /\ registered' = registered \cup {t}
             /\ \/ /\ chain' = Landed(ops)
                   /\ last' = LastOf("register_trader", FALSE, ops, r.code, res, NoAddr)
                   /\ UNCHANGED inflight
                \/ /\ Cardinality(inflight) < MaxInflight
                   /\ inflight' = inflight \cup {ops}
                   /\ last' = LastOf("register_trader", FALSE, ops, NoCode, "Timeout", NoAddr)
                   /\ UNCHANGED chain
             /\ UNCHANGED <<funded, scope>>

(* new_order with the optional arguments None: fetch the group, look the  *)
(* product up (None.tick_size when it is not in the group), then call     *)
(* ixs.common.get_fee_model_configuration_addr: the dex instructions      *)
(* package has no `common', so AttributeError before anything is sent.    *)
NewOrder(t, k) ==
    RaisesBeforeSend("new_order", BookOps[k], IF GroupFetched THEN "AttributeError" ELSE "FetchError")

(* cancel_order with authority and risk engine None: fetch the group,     *)
(* send.                                                                   *)
CancelOrder(t, k) ==
    IF GroupFetched THEN Call("cancel_order", CancelOrderTx[t][k], FALSE, 1)
    ELSE RaisesBeforeSend("cancel_order", CancelOrderTx[t][k], "FetchError")

DepositFunds(t) == Call("deposit_funds", DepositFundsTx[t], FALSE, 1)

(* withdraw_funds leaves out risk_engine_program, risk_model_configuration *)
(* _acct, risk_output_register, trader_risk_state_acct and risk_signer,    *)
(* which ixs.withdraw_funds requires: TypeError before anything is sent.   *)
WithdrawFunds(t) == RaisesBeforeSend("withdraw_funds", DepositFundsTx[t], "TypeError")

(* update_trader_funding(group, trader, trader_risk_group): RuntimeError  *)
(* unless exactly one of the two is given, then ixs has no                *)
(* update_trader_funding_ix: AttributeError.                               *)
UpdateTraderFunding(t, byTrader, byTrg) ==
    RaisesBeforeSend("update_trader_funding", DepositFundsTx[t],
                     IF byTrader = byTrg THEN "RuntimeError" ELSE "AttributeError")

(* clear_expired_orders and remove_market_product with authority None:     *)
(* fetch the group, derive the book, then call ixs.clear_expired_orderbook *)
(* _ix / ixs.remove_market_product_ix, which ixs does not define.          *)
ClearExpiredOrders(k) ==
    RaisesBeforeSend("clear_expired_orders", BookOps[k], IF GroupFetched THEN "AttributeError" ELSE "FetchError")
RemoveMarketProduct(k) ==
    RaisesBeforeSend("remove_market_product", BookOps[k], IF GroupFetched THEN "AttributeError" ELSE "FetchError")

(* create_risk_model_configuration_acct(authority, program_id): a bare     *)
(* Exception for a program other than the noop or alpha engine; else     *)
(* send_transaction with preflight on, so a failing transaction is        *)
(* rejected by the node (RPCException) and never lands; the fresh key is *)
(* returned once it is confirmed.                                         *)
(* A key no transaction has touched: a fresh Keypair() is                 *)
(* indistinguishable from an unused one.                                   *)
UnusedRiskModelKey(i) == chain[RiskModelKeypair(i)] = "none" /\ RiskModelConfigTx[i] \notin inflight

CreateRiskModelConfigurationAcct(prog) ==
    IF prog \notin {NOOP, ALPHA}
    THEN RaisesBeforeSend("create_risk_model_configuration_acct", RiskModelConfigTx[1], "Exception")
    ELSE \E i \in 1 .. RiskModelKeys :
         LET tx == RiskModelConfigTx[i]
             r  == Run(tx, chain, 1)
         IN  /\ UnusedRiskModelKey(i)
             /\ \A j \in 1 .. i - 1 : ~UnusedRiskModelKey(j)
             /\ \/ /\ chain' = Landed(tx)
                   /\ last' = LastOf("create_risk_model_configuration_acct", TRUE, tx, r.code,
                                     IF r.failed THEN "RPCException" ELSE "returned",
                                     IF r.failed THEN NoAddr ELSE RiskModelKeypair(i))
                   /\ UNCHANGED inflight
                \/ /\ Cardinality(inflight) < MaxInflight
                   /\ inflight' = inflight \cup {tx}
                   /\ last' = LastOf("create_risk_model_configuration_acct", TRUE, tx, NoCode,
                                     "Timeout", NoAddr)
                   /\ UNCHANGED chain
             /\ UNCHANGED <<funded, scope, registered>>

(* A timed-out transaction lands after all, or its blockhash expires.      *)
Land(ops) ==
    /\ chain' = Landed(ops)
    /\ inflight' = inflight \ {ops}
    /\ UNCHANGED <<funded, last, scope, registered>>

Expire(ops) ==
    /\ inflight' = inflight \ {ops}
    /\ UNCHANGED <<chain, funded, last, scope, registered>>

(* Another client initialises the market product group once the group and *)
(* the registers it names exist.                                           *)
InitMarketProductGroupElsewhere ==
    /\ chain[Mpg] = "allocated"
    /\ \A a \in {FeeRegister, RiskConfig, RiskRegister} : chain[a] # "none"
    /\ chain' = [chain EXCEPT ![Mpg] = "initialized"]
    /\ UNCHANGED <<funded, inflight, last, scope, registered>>

(* The funders run out of lamports, or are topped up.                      *)
Drain == funded /\ funded' = FALSE /\ UNCHANGED <<chain, inflight, last, scope, registered>>
Refund == ~funded /\ funded' = TRUE /\ UNCHANGED <<chain, inflight, last, scope, registered>>

(* The traders' calls start where a bootstrap script's first calls left  *)
(* the chain: create_market_product_group, create_fee_register,         *)
(* create_risk_config_acct, create_risk_register and init_mint done.      *)
SetUpState(a) ==
    CASE a \in {Mpg, FeeRegister, RiskConfig, RiskRegister} -> "allocated"
      [] a = Mint                                          -> "initialized"
      [] OTHER                                             -> "none"

Init ==
    /\ scope \in {"market", "instruments", "trading"}
    /\ chain = [a \in Accts |-> IF scope = "trading" THEN SetUpState(a) ELSE "none"]
    /\ funded = TRUE
    /\ inflight = {}
    /\ last = [act |-> "none", code |-> NoCode, existed |-> FALSE, post |-> FALSE,
               res |-> "none", ret |-> NoAddr, target |-> Mpg]
    /\ registered = {}

(* The market's actions (products, combos, mint) and the instruments'     *)
(* (oracle, fees, instruments, risk config) write disjoint accounts and   *)
(* only read the group's, so their steps commute: a behaviour runs one of *)
(* the two callers beside the group's set-up, which keeps the two state   *)
(* spaces a sum rather than a product.                                     *)
(* The traders' calls trade in one product, the first of the keys.      *)
TradeKey == CHOOSE k \in ProductKeys : \A j \in ProductKeys : ~StrLess(j, k)

Market == scope = "market"
Instruments == scope = "instruments"
Trading == scope = "trading"

Next ==
    \/ CreateMarketProductGroup \/ CreateFeeRegister \/ CreateRiskConfigAcct \/ CreateRiskRegister
    \/ InitMarketProductGroup
    \/ Market /\ \E k \in ProductKeys : CreateMarketProduct(k)
    \/ Market /\ \E l \in Listings : CreateCombo(l)
    \/ Market /\ InitMint
    \/ (Market \/ Trading) /\ \E t \in Traders : InitTraderMintAccount(t)
    \/ Market /\ \E t \in Traders : MintToTrader(t)
    \/ Instruments /\ \E t \in Traders : InitializeTraderFeeAcct(t)
    \/ Instruments /\ InitializeOracle
    \/ Instruments /\ InitializeClock
    \/ Instruments /\ UpdateClock
    \/ Instruments /\ UpdatePrice
    \/ (Instruments \/ Trading) /\ UpdateFees
    \/ Instruments /\ \E c \in BOOLEAN : InitializeDerivative(c)
    \/ Instruments /\ InitializeFixedIncome
    \/ Instruments /\ SettleFixedIncome
    \/ Instruments /\ SettleDerivative
    \/ Instruments /\ \E p \in {ALPHA, NOOP} : InitializeRiskConfigAcct(p)
    \/ Instruments /\ CreateRiskConfigAcctOther
    \/ Trading /\ CreateMarketProduct(TradeKey)
    \/ Trading /\ \E t \in Traders : RegisterTrader(t)
    \/ Trading /\ \E t \in Traders : DepositFunds(t)
    \/ Trading /\ \E t \in Traders : WithdrawFunds(t)
    \/ Trading /\ \E t \in Traders : NewOrder(t, TradeKey)
    \/ Trading /\ \E t \in Traders : CancelOrder(t, TradeKey)
    \/ Trading /\ \E t \in Traders, a, b \in BOOLEAN : UpdateTraderFunding(t, a, b)
    \/ Trading /\ ClearExpiredOrders(TradeKey)
    \/ Trading /\ RemoveMarketProduct(TradeKey)
    \/ Trading /\ \E p \in {ALPHA, NOOP, "other"} : CreateRiskModelConfigurationAcct(p)
    \/ \E ops \in inflight : Land(ops)
    \/ \E ops \in inflight : Expire(ops)
    \/ InitMarketProductGroupElsewhere \/ Drain \/ Refund

Spec == Init /\ [][Next]_vars

TypeOK ==
    /\ chain \in [Accts -> States]
    /\ funded \in BOOLEAN
    /\ Cardinality(inflight) <= MaxInflight
    /\ last.target \in Accts /\ last.ret \in Accts \cup {NoAddr}
    /\ last.res \in {"none", "returned", "ValueError", "TypeError", "Timeout", "AttributeError",
                     "UnboundLocalError", "Exception", "FetchError", "AssertionError",
                     "RuntimeError", "RPCException"}
    /\ registered \subseteq Traders

(* Whatever address an action returns names an account that is on chain:  *)
(* the _post_* helpers read "already exists" only from Custom 0 of the    *)
(* first instruction, never from another failure.                         *)
AddressMeansAccount ==
    last.ret # NoAddr => chain[last.ret] # "none"

(* Calling an address-returning action again for an account that already *)
(* exists returns its address: a bootstrap run again after a crash or a   *)
(* timeout picks up the accounts of the earlier run.                      *)
RerunFindsExisting ==
    last.post /\ last.existed /\ last.res \in {"returned", "ValueError"} => last.ret = last.target

(* No transaction an action sends fails because an account address and    *)
(* the seed it is created with disagree: the address helpers of addrs.py  *)
(* and actions.py derive what the create_with_seed instructions name.     *)
SeedsMatchAddresses ==
    last.code # SeedMismatch

(* Listing the legs of a combo in another order names the same combo: at  *)
(* most one combo of these legs is ever registered in the group.          *)
OneComboPerLegs ==
    Cardinality({k \in ComboKeys : chain[Registered(k)] = "initialized"}) <= 1

(* register_trader on a set-up group (the group and its fee              *)
(* configuration initialised, the payer funded) for an owner not yet     *)
(* registered in this process, whose transaction is confirmed, returns   *)
(* the connected SDKTrader: the fee account the fee instruction creates, *)
(* the one initialize_trader_risk_group records and the one             *)
(* SDKTrader.connect derives and asserts are the same account.            *)
RegisterTraderConnects ==
    [][\A t \in Traders :
         /\ RegisterTrader(t) /\ t \notin registered /\ funded
         /\ chain[Mpg] = "initialized" /\ chain[FeeModelConfigAddr(Mpg)] = "initialized"
         /\ last'.res # "Timeout"
         => last'.res = "returned"]_vars

(* deposit_funds from actions.py for a trader whose register_trader       *)
(* created its risk group, into an initialised group from the trader's    *)
(* initialised token account, lands when it is confirmed: the risk group *)
(* get_trader_risk_group_addr names is the one the trader has.           *)
DepositReachesRegisteredGroup ==
    [][\A t \in Traders :
         /\ DepositFunds(t) /\ chain[TrgKeypair(t)] = "initialized" /\ chain[Mpg] = "initialized"
         /\ chain[AssociatedTokenAddr(t, Mint)] = "initialized" /\ funded /\ last'.res # "Timeout"
         => last'.code = NoCode]_vars
=============================================================================
