------------------------------ MODULE Context ------------------------------
(***************************************************************************)
(* The process-wide Context of src/client/dexterity/utils/solana.py: the   *)
(* signer registry (pubkey -> (Keypair, name)) and the global fee payer,   *)
(* the global_fee_payer context manager, send_transaction's choice of      *)
(* signing keypairs, and SDKContext.register_trader, which registers the   *)
(* keypairs it generates before sending (dex/sdk_context.py), and the SDK  *)
(* calls that send through it: SDKTrader.deposit, SDKProduct.crank_raw and *)
(* dex/actions.py create_trader_risk_group (which raises before it       *)
(* generates or registers a keypair), each with the signers its builders *)
(* mark (module Instructions).                                            *)
(*                                                                         *)
(* Keypairs are model values (Payer, Owners) or Kp(n), the n-th keypair    *)
(* Keypair.generate() returned.  The state starts where         *)
(* SDKContext.connect leaves it: Context.init_globals(fee_payer=payer,     *)
(* signers=[(payer, "payer")]).  A with-body that raises leaves the        *)
(* generator at its yield: the exception propagates out of the            *)
(* contextmanager without running the line after the yield.                *)
(***************************************************************************)
EXTENDS Naturals, Sequences, FiniteSets, SequencesExt, Functions, Instructions

CONSTANTS
    Payer,       \* the payer keypair given to SDKContext.connect
    Owners,      \* trader keypairs register_trader is called with
    UserNames,   \* names callers give the signers they add
    MaxGen,      \* bound on Keypair.generate() calls
    MaxDepth,    \* bound on nested global_fee_payer blocks
    BodyRaises,  \* whether the body of a global_fee_payer block may raise
    ConnectPayers, \* payers SDKContext.connect is called again with
    MaxConnects    \* bound on the repeated SDKContext.connect calls

Kp(n)     == <<"kp", n>>
Generated == {Kp(n) : n \in 1 .. MaxGen}
Keypairs  == {Payer} \cup Owners \cup Generated
(* register_trader names its two keypairs after the owner's key prefix.   *)
TrsName(o) == <<o, "trader_risk_state_acct">>
TrgName(o) == <<o, "trader_risk_group">>
(* Names compared by add_signers are all pairs, so TLC can compare them.  *)
PayerName == <<"connect", "payer">>
UserName(n) == <<"caller", n>>
Names == {PayerName} \cup {UserName(n) : n \in UserNames} \cup {TrsName(o) : o \in Owners}
         \cup {TrgName(o) : o \in Owners}
Results == {"none", "ok", "ValueError", "TypeError", "NameError", "Exception"}

VARIABLES
    signers,   \* Context.signers: registered pubkey -> name
    feePayer,  \* Context.fee_payer
    frames,    \* old_fee_payer saved by each active global_fee_payer block
    gen,       \* number of keypairs generated so far
    lastTx,    \* the last send_transaction: block depth, fee payer, result
    lastAdd,   \* result of the last add_signers call
    lastReg,   \* the last register_trader: owner, owner registered, result
    traders,   \* owner -> the SDKTrader register_trader returned
    lastCreate, \* how the last create_trader_risk_group ended
    sdkPayer,  \* the payer the last SDKContext.connect was given
    connects,  \* SDKContext.connect calls after the first
    raisedOut  \* a global_fee_payer body has raised out of the outermost block
vars == <<signers, feePayer, frames, gen, lastTx, lastAdd, lastReg, traders, lastCreate, sdkPayer, connects, raisedOut>>
sdkVars == <<traders, lastCreate, sdkPayer, connects>>

(* Context.add_signers, the insertion loop: a pubkey already registered   *)
(* keeps its first name.                                                  *)
Inserted(reg, batch) ==
    FoldLeft(LAMBDA r, p : IF p[1] \in DOMAIN r THEN r ELSE r @@ (p[1] :> p[2]), reg, batch)

(* Context.add_signers: insert, then (verify) raise ValueError if two     *)
(* registered signers share a name.  The insertion is not undone.         *)
AddSignersResult(reg, batch, verify) ==
    LET r == Inserted(reg, batch)
    IN  [reg |-> r, res |-> IF verify /\ ~IsInjective(r) THEN "ValueError" ELSE "ok"]

(* send_transaction: the fee payer signs first, then every account an     *)
(* instruction marks is_signer; each needs a keypair among the given      *)
(* signers, or the registry when none are given, else ValueError.         *)
SendResult(reg, required, explicit) ==
    LET keys   == IF explicit = {} THEN DOMAIN reg ELSE explicit
        needed == {feePayer} \cup required
    IN  IF needed \subseteq keys THEN "ok" ELSE "ValueError"

Send(required, explicit) ==
    lastTx' = [depth |-> Len(frames), payer |-> feePayer, sdk |-> sdkPayer,
               res |-> SendResult(signers, required, explicit)]

TypeOK ==
    /\ DOMAIN signers \subseteq Keypairs /\ Range(signers) \subseteq Names
    /\ feePayer \in {Payer} \cup Owners
    /\ frames \in Seq({Payer} \cup Owners) /\ Len(frames) <= MaxDepth
    /\ gen \in 0 .. MaxGen
    /\ lastTx \in [depth : 0 .. MaxDepth, payer : {Payer} \cup Owners, sdk : {Payer} \cup Owners,
                  res : Results]
    /\ sdkPayer \in {Payer} \cup Owners
    /\ connects \in 0 .. MaxConnects
    /\ lastAdd \in Results
    /\ lastReg \in [owner : Owners \cup {"none"}, known : BOOLEAN, res : Results]
    /\ DOMAIN traders \subseteq Owners
    /\ \A o \in DOMAIN traders : traders[o] \in [trg : Generated, trs : Generated]
    /\ lastCreate \in Results
    /\ raisedOut \in BOOLEAN

(* State after SDKContext.connect -> Context.init_globals.                *)
Init ==
    /\ signers = (Payer :> PayerName)
    /\ feePayer = Payer
    /\ frames = <<>>
    /\ gen = 0
    /\ lastTx = [depth |-> 0, payer |-> Payer, sdk |-> Payer, res |-> "none"]
    /\ lastAdd = "none"
    /\ lastReg = [owner |-> "none", known |-> FALSE, res |-> "none"]
    /\ traders = << >>
    /\ lastCreate = "none"
    /\ raisedOut = FALSE
    /\ sdkPayer = Payer
    /\ connects = 0

(* A caller registers a trader keypair: Context.add_signers((kp, name),   *)
(* verify=verify).                                                        *)
AddSigners(kp, name, verify) ==
    LET r == AddSignersResult(signers, << <<kp, UserName(name)>> >>, verify)
    IN  /\ signers' = r.reg
        /\ lastAdd' = r.res
        /\ UNCHANGED <<feePayer, frames, gen, lastTx, lastReg, sdkVars, raisedOut>>

(* register_trader's transaction: the fee account, the trader risk group *)
(* allocated by the payer, and its initialisation.                        *)
RegisterTraderIxs(o, trg, trs) ==
    InitializeTraderAcctIx(Payer, TraderFeeAcct(trg), trg)
    \o CreateAccountIx(Payer, trg)
    \o InitializeTraderRiskGroupIx(o, trg, trs, TraderFeeAcct(trg))

(* SDKContext.register_trader(keypair): generate the trader risk group    *)
(* and risk state keypairs, add them as signers (raising on a duplicate   *)
(* name), send the fee-account, create-account and                       *)
(* initialize_trader_risk_group instructions, and return the SDKTrader    *)
(* (SDKTrader.connect re-reads what the program wrote).                   *)
RegisterTrader(o) ==
    LET trg == Kp(gen + 1)
        trs == Kp(gen + 2)
        r   == AddSignersResult(signers, << <<trs, TrsName(o)>>, <<trg, TrgName(o)>> >>, TRUE)
        sent == IF r.res = "ok" THEN SendResult(r.reg, SignerKeys(RegisterTraderIxs(o, trg, trs)), {}) ELSE "none"
    IN  /\ gen + 2 <= MaxGen
        /\ gen' = gen + 2
        /\ signers' = r.reg
        /\ lastAdd' = r.res
        /\ IF r.res = "ok"
           THEN lastTx' = [depth |-> Len(frames), payer |-> feePayer, sdk |-> sdkPayer, res |-> sent]
           ELSE UNCHANGED lastTx
        /\ lastReg' = [owner |-> o, known |-> o \in DOMAIN signers,
                       res |-> IF r.res = "ok" THEN sent ELSE r.res]
        /\ traders' = IF sent = "ok" THEN (o :> [trg |-> trg, trs |-> trs]) @@ traders ELSE traders
        /\ UNCHANGED <<feePayer, frames, lastCreate, sdkPayer, connects, raisedOut>>

(* SDKTrader.deposit: one deposit_funds instruction signed by the trader. *)
SdkDeposit(o) ==
    /\ o \in DOMAIN traders
    /\ Send(SignerKeys(DepositFundsIx(o, Wallet(o), traders[o].trg)), {})
    /\ UNCHANGED <<signers, feePayer, frames, gen, lastAdd, lastReg, sdkVars, raisedOut>>

(* SDKProduct.crank_raw(sdk, accounts, reward_target): consume events,    *)
(* signed by the reward target; the remaining accounts do not sign.       *)
CrankRaw(rt, p) ==
    /\ Send(SignerKeys(ConsumeOrderbookEventsIx(p, rt, << >>)), {})
    /\ UNCHANGED <<signers, feePayer, frames, gen, lastAdd, lastReg, sdkVars, raisedOut>>

(* actions.create_trader_risk_group (actionify'd), program_id the alpha  *)
(* risk engine (the default) or another: the alpha branch reads           *)
(* alpha_state, a name the module never binds (NameError); any other      *)
(* program raises Exception("Not implemented").  Both happen before the  *)
(* risk state keypair is generated or registered, so nothing changes.     *)
CreateTraderRiskGroup(o, alpha) ==
    /\ lastCreate' = IF alpha THEN "NameError" ELSE "Exception"
    /\ UNCHANGED <<signers, feePayer, frames, gen, lastTx, lastAdd, lastReg, traders, sdkPayer, connects, raisedOut>>

(* Any other send_transaction (send_instructions, an actionify'd action): *)
(* instructions needing the given signers, keypairs given explicitly or   *)
(* taken from the registry.                                               *)
SendTransaction(required, explicit) ==
    /\ Send(required, explicit)
    /\ UNCHANGED <<signers, feePayer, frames, gen, lastAdd, lastReg, sdkVars, raisedOut>>

(* global_fee_payer(fp): save the fee payer, set fp, yield.               *)
EnterFeePayer(fp) ==
    /\ Len(frames) < MaxDepth
    /\ frames' = Append(frames, feePayer)
    /\ feePayer' = fp
    /\ UNCHANGED <<signers, raisedOut, gen, lastTx, lastAdd, lastReg, sdkVars>>

(* Mutant: the block's exit leaves the fee payer it set.                  *)
ExitNoRestore ==
    /\ frames # <<>>
    /\ frames' = Front(frames)
    /\ UNCHANGED <<signers, feePayer, raisedOut, gen, lastTx, lastAdd, lastReg, sdkVars>>

(* The body returns: the statement after the yield restores the old fee   *)
(* payer.                                                                 *)
ExitFeePayer ==
    /\ frames # <<>>
    /\ feePayer' = Last(frames)
    /\ frames' = Front(frames)
    /\ UNCHANGED <<signers, raisedOut, gen, lastTx, lastAdd, lastReg, sdkVars>>

(* The body raises: there is no try/finally, so nothing is restored.      *)
(* raisedOut records a raise out of the outermost block.                 *)
ExitFeePayerRaising ==
    /\ BodyRaises
    /\ frames # <<>>
    /\ frames' = Front(frames)
    /\ raisedOut' = (raisedOut \/ Len(frames) = 1)
    /\ UNCHANGED <<signers, feePayer, gen, lastTx, lastAdd, lastReg, sdkVars>>

FeePayers == {Payer} \cup Owners

(* SDKContext.connect(client, payer) -> Context.init_globals: the fee     *)
(* payer becomes payer, the registry is emptied and refilled with         *)
(* (payer, "payer").  The SDKTraders, the module counter and any enclosing *)
(* global_fee_payer block (its saved old fee payer) are left as they are. *)
Connect(p) ==
    /\ p \in ConnectPayers
    /\ connects < MaxConnects
    /\ connects' = connects + 1
    /\ feePayer' = p
    /\ signers' = (p :> PayerName)
    /\ sdkPayer' = p
    /\ UNCHANGED <<frames, gen, lastTx, lastAdd, lastReg, traders, lastCreate, raisedOut>>

Next ==
    \/ \E kp \in Owners, name \in UserNames, verify \in BOOLEAN : AddSigners(kp, name, verify)
    \/ \E o \in Owners : RegisterTrader(o) \/ SdkDeposit(o) \/ CreateTraderRiskGroup(o, TRUE) \/ CreateTraderRiskGroup(o, FALSE)
    \/ \E rt \in FeePayers : CrankRaw(rt, "p0")
    \/ \E o \in Owners, explicit \in {{}, {Payer}} : SendTransaction({o}, explicit)
    \/ \E fp \in FeePayers : EnterFeePayer(fp)
    \/ ExitFeePayer
    \/ ExitFeePayerRaising
    \/ \E p \in ConnectPayers : Connect(p)

Spec == Init /\ [][Next]_vars

(* Every transaction sent outside any global_fee_payer block is paid by   *)
(* the payer SDKContext.connect was last given: global_fee_payer hands the *)
(* fee payer back when its block ends, so a block never changes who pays  *)
(* afterwards.                                                            *)
PaidByPayerOutsideBlocks ==
    lastTx.depth = 0 /\ lastTx.res # "none" => lastTx.payer = lastTx.sdk

(* add_signers either registers its signers and returns, or raises and    *)
(* leaves the registry as it was: the registry changes only in a call     *)
(* that returns normally.                                                 *)
AddSignersAtomic ==
    [][signers' # signers => lastAdd' = "ok"]_vars

(* global_fee_payer blocks nest: as long as no raise has escaped the     *)
(* outermost block, every transaction sent outside all blocks is paid by  *)
(* the SDK payer, however the inner blocks ended (an inner body that      *)
(* raised and was caught inside an outer block is undone by the outer     *)
(* block's restore of the fee payer it saved on entry).                   *)
ScopedFeePayerRestored ==
    ~raisedOut /\ lastTx.depth = 0 /\ lastTx.res # "none" => lastTx.payer = lastTx.sdk

(* register_trader for an owner whose keypair is registered succeeds: it  *)
(* fails only for want of the owner's keypair.                            *)
RegisteredOwnerCanRegister ==
    lastReg.known => lastReg.res # "ValueError"
=============================================================================
