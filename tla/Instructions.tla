---------------------------- MODULE Instructions ----------------------------
(***************************************************************************)
(* The account lists of the instructions the SDK sends, as the builders    *)
(* produce them: the generated builders under codegen/dex/instructions/,   *)
(* the constant-fees builder (constant_fees/instructions.py) and the       *)
(* system program's create_account (solana-py, outside this repository).  *)
(*                                                                         *)
(* An instruction is the sequence of its AccountMeta records, in the      *)
(* order to_instruction appends them: the key, is_signer, is_writable.    *)
(* A builder given a PublicKey wraps it with its own flags; the SDK never *)
(* passes an AccountMeta to these builders.  The instruction data (tag    *)
(* and packed params) is left out: no property reads it.                  *)
(***************************************************************************)
EXTENDS Sequences

Meta(k, s, w) == [key |-> k, signer |-> s, writable |-> w]

(* Accounts that are program ids, sysvars or addresses derived from the   *)
(* market product group: never keypairs.                                  *)
TokenProgram  == <<"program", "token">>
SystemProgram == <<"program", "system">>
AaobProgram   == <<"program", "aaob">>
FeeProgram    == <<"program", "fee_model">>
RiskEngine    == <<"program", "risk_engine">>
Mpg           == <<"pda", "market_product_group">>
MpgVault      == <<"pda", "market_product_group_vault">>
RiskSigner    == <<"pda", "risk_signer">>
FeeConfig     == <<"pda", "fee_model_configuration_acct">>
FeeRegister   == <<"pda", "fee_output_register">>
RiskConfig    == <<"pda", "risk_model_configuration_acct">>
RiskRegister  == <<"pda", "risk_output_register">>
Wallet(o)     == <<"wallet", o>>
TraderFeeAcct(trg) == <<"trader_fee_state_acct", trg>>
Product(p)    == <<"product", p>>
MarketSigner(p) == <<"market_signer", p>>
Orderbook(p)  == <<"orderbook", p>>
EventQueueKey(p) == <<"event_queue", p>>

(* codegen deposit_funds / DepositFundsIx.to_instruction.                  *)
DepositFundsIx(user, uta, trg) ==
    << Meta(TokenProgram, FALSE, FALSE), Meta(user, TRUE, FALSE), Meta(uta, FALSE, TRUE),
       Meta(trg, FALSE, TRUE), Meta(Mpg, FALSE, FALSE), Meta(MpgVault, FALSE, TRUE) >>

(* codegen withdraw_funds / WithdrawFundsIx.to_instruction.                *)
WithdrawFundsIx(user, uta, trg, trs) ==
    << Meta(TokenProgram, FALSE, FALSE), Meta(user, TRUE, FALSE), Meta(uta, FALSE, TRUE),
       Meta(trg, FALSE, TRUE), Meta(Mpg, FALSE, FALSE), Meta(MpgVault, FALSE, TRUE),
       Meta(RiskEngine, FALSE, FALSE), Meta(RiskConfig, FALSE, FALSE),
       Meta(RiskRegister, FALSE, TRUE), Meta(trs, FALSE, TRUE), Meta(RiskSigner, FALSE, FALSE) >>

(* codegen consume_orderbook_events, remaining_accounts appended as given. *)
ConsumeOrderbookEventsIx(p, rewardTarget, remaining) ==
    << Meta(AaobProgram, FALSE, FALSE), Meta(Mpg, FALSE, TRUE), Meta(Product(p), FALSE, FALSE),
       Meta(MarketSigner(p), FALSE, FALSE), Meta(Orderbook(p), FALSE, TRUE),
       Meta(EventQueueKey(p), FALSE, TRUE), Meta(rewardTarget, TRUE, TRUE),
       Meta(FeeProgram, FALSE, FALSE), Meta(FeeConfig, FALSE, FALSE),
       Meta(FeeRegister, FALSE, TRUE), Meta(RiskSigner, FALSE, FALSE) >> \o remaining

(* codegen initialize_trader_risk_group.                                   *)
InitializeTraderRiskGroupIx(owner, trg, trs, tfs) ==
    << Meta(owner, TRUE, TRUE), Meta(trg, FALSE, TRUE), Meta(Mpg, FALSE, FALSE),
       Meta(RiskSigner, FALSE, FALSE), Meta(trs, TRUE, TRUE), Meta(tfs, FALSE, FALSE),
       Meta(RiskEngine, FALSE, FALSE), Meta(SystemProgram, FALSE, FALSE) >>

(* constant_fees initialize_trader_acct_ix.                                *)
InitializeTraderAcctIx(payer, tfs, trg) ==
    << Meta(payer, TRUE, FALSE), Meta(FeeConfig, FALSE, FALSE), Meta(tfs, FALSE, TRUE),
       Meta(Mpg, FALSE, FALSE), Meta(trg, FALSE, FALSE), Meta(SystemProgram, FALSE, FALSE) >>

(* solana-py system_program.create_account: the funder and the new        *)
(* account both sign; create_account_with_seed with base = funder: only   *)
(* the funder signs.                                                      *)
CreateAccountIx(from, new) == << Meta(from, TRUE, TRUE), Meta(new, TRUE, TRUE) >>
CreateAccountWithSeedIx(from, new) == << Meta(from, TRUE, TRUE), Meta(new, FALSE, TRUE) >>

(* send_transaction's scan of tx.instructions: the keys of every meta     *)
(* marked is_signer.                                                      *)
SignerKeys(ixs) == {ixs[i].key : i \in {j \in DOMAIN ixs : ixs[j].signer}}
=============================================================================
