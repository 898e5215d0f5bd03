----------------------------- MODULE TraderFunds -----------------------------
(***************************************************************************)
(* The amounts SDKTrader sends (src/client/dexterity/dex/sdk_context.py):  *)
(* deposit and withdraw accept a Fractional or a float; a float is turned *)
(* into Fractional(int(qty * scale), decimals), with scale 10**decimals in *)
(* deposit and decimals in withdraw.  _place_order_ix converts size and    *)
(* price with Fractional.into (codegen/dex/types/fractional.py), which     *)
(* does int(x * 10**decimals) for a float.                                 *)
(*                                                                         *)
(* A float argument is the decimal literal the caller wrote (a Frac).     *)
(* int(float(lit) * factor) is what CPython's IEEE-754 doubles give; the  *)
(* product may fall just below an integer (0.29 * 100 = 28.999...), so     *)
(* it is a table, FloatTrunc, computed by the interpreter, never the       *)
(* exact product.  Amounts are compared in atoms of 10^-Scale.  The        *)
(* program moves the quantity between the trader's wallet and the trader   *)
(* risk group's cash, and refuses what the source side does not hold.      *)
(* withdraw passes risk_state_account= to codegen withdraw_funds, whose    *)
(* parameter is trader_risk_state_acct: the call raises TypeError after    *)
(* the conversion, and nothing is sent.                                    *)
(***************************************************************************)
EXTENDS Integers

CONSTANTS
    Decimals,    \* sdk.decimals (market product group decimals)
    Literals,    \* decimal literals callers pass, as [m, exp]
    FloatTrunc,  \* FloatTrunc[lit, factor] = int(float(lit) * factor)
    Scale,       \* atoms: 10^-Scale, at least every exp used
    Wallet0      \* the trader's wallet at the start, in atoms

Frac(m, e) == [m |-> m, exp |-> e]
Atoms(f) == f.m * 10^(Scale - f.exp)
Unit == 10^(Scale - Decimals)
Kinds == {"none", "deposit", "withdraw", "order"}
Results == {"none", "sent", "TypeError"}

VARIABLES
    wallet,   \* the user token account, in atoms
    cash,     \* the trader risk group's cash balance, in atoms
    last      \* the last call: kind, amount asked for, amount converted,
              \* result, and wallet and cash before it
vars == <<wallet, cash, last>>

(* Mutant: deposit scales the float by decimals, as withdraw does.         *)
DepositQtyUnscaled(x, isFrac) ==
    IF isFrac THEN x ELSE Frac(FloatTrunc[x, Decimals], Decimals)

(* SDKTrader.deposit: Fractional(int(qty * 10**decimals), decimals).       *)
DepositQty(x, isFrac) ==
    IF isFrac THEN x ELSE Frac(FloatTrunc[x, 10^Decimals], Decimals)

(* SDKTrader.withdraw: Fractional(int(qty * decimals), decimals).          *)
WithdrawQty(x, isFrac) ==
    IF isFrac THEN x ELSE Frac(FloatTrunc[x, Decimals], Decimals)

(* Fractional.into(x, default_decimals) for a float x.                     *)
Into(x, d) == Frac(FloatTrunc[x, 10^d], d)

TypeOK ==
    /\ wallet \in 0 .. Wallet0
    /\ cash \in 0 .. Wallet0
    /\ last \in [kind : Kinds, asked : Int, sent : Int, res : Results, wallet : 0 .. Wallet0, cash : 0 .. Wallet0]

Init ==
    /\ wallet = Wallet0
    /\ cash = 0
    /\ last = [kind |-> "none", asked |-> 0, sent |-> 0, res |-> "none", wallet |-> Wallet0, cash |-> 0]

(* Mutant: the transfer is made whether or not the wallet holds qty.       *)
DepositOverdraw(x, isFrac) ==
    LET q == Atoms(DepositQty(x, isFrac))
    IN  /\ last' = [kind |-> "deposit", asked |-> Atoms(x), sent |-> q, res |-> "sent", wallet |-> wallet, cash |-> cash]
        /\ wallet' = wallet - q /\ cash' = cash + q

(* deposit(qty): the program moves the quantity into the risk group.       *)
Deposit(x, isFrac) ==
    LET q == Atoms(DepositQty(x, isFrac))
    IN  /\ last' = [kind |-> "deposit", asked |-> Atoms(x), sent |-> q, res |-> "sent", wallet |-> wallet, cash |-> cash]
        /\ IF q <= wallet
           THEN wallet' = wallet - q /\ cash' = cash + q
           ELSE UNCHANGED <<wallet, cash>>

(* withdraw(qty): the quantity is converted, then dixs.withdraw_funds     *)
(* raises TypeError on the keyword risk_state_account.                    *)
Withdraw(x, isFrac) ==
    /\ last' = [kind |-> "withdraw", asked |-> Atoms(x), sent |-> Atoms(WithdrawQty(x, isFrac)),
                res |-> "TypeError", wallet |-> wallet, cash |-> cash]
    /\ UNCHANGED <<wallet, cash>>

(* place_order(size=x): max_base_qty = Fractional.into(size, decimals).    *)
PlaceOrderSize(x) ==
    /\ last' = [kind |-> "order", asked |-> Atoms(x), sent |-> Atoms(Into(x, Decimals)),
                res |-> "sent", wallet |-> wallet, cash |-> cash]
    /\ UNCHANGED <<wallet, cash>>

Next ==
    \/ \E x \in Literals, isFrac \in BOOLEAN : Deposit(x, isFrac) \/ Withdraw(x, isFrac)
    \/ \E x \in Literals : PlaceOrderSize(x)

Spec == Init /\ [][Next]_vars

(* deposit(x) asks the program for x up to the last decimal: it never     *)
(* sends more than x, and never less than x minus one unit of decimals.   *)
DepositWithinOneUnit ==
    last.kind = "deposit" => 0 <= last.asked - last.sent /\ last.asked - last.sent <= Unit

(* withdraw(x), like deposit(x), converts x up to the last decimal.      *)
WithdrawWithinOneUnit ==
    last.kind = "withdraw" => 0 <= last.asked - last.sent /\ last.asked - last.sent <= Unit

(* A withdraw of no more than the risk group holds pays the amount back  *)
(* to the wallet, up to one unit of decimals.                             *)
WithdrawPaysBack ==
    last.kind = "withdraw" /\ last.asked <= last.cash => wallet - last.wallet >= last.asked - Unit

(* Spec, section 4.1: fromFloat(x, scale) encodes round(x * 10^scale), so *)
(* the quantity sent is x to the nearest unit.                            *)
IntoRoundsToNearest ==
    last.kind = "order" => 2 * (last.asked - last.sent) <= Unit /\ 2 * (last.sent - last.asked) <= Unit
=============================================================================
