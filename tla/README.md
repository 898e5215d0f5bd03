# TLA+ models of the dexterity Python client

This directory holds TLA+ models of the parts of `src/client/dexterity` that
have state, ordering or arithmetic worth checking. Alongside them are:

- the TLC configurations that check them;
- `PROJECT.json`, which records:
  - the components and how far each is modelled;
  - the runs;
  - the mutants;
  - the map from each definition to the source lines it translates;
  - the findings;
  - the hazards.

The client builds and sends transactions to remote on-chain programs: the DEX,
the agnostic order book (AOB), the risk engines, the constant-fees model, the
instruments program and the dummy oracle. It also decodes the accounts those
programs write. The programs are not in this repository.

A definition that stands for a program's behaviour, or for the Solana
runtime's, is written from `spec.md` and the runtime's documented rules. The
map marks such definitions `spec_modelled`. Everything else is translated
from the Python source; the map names the lines each definition stands for.

## The system and how its parts interact

| Part | Source | What has state or order |
|---|---|---|
| Event queue decoder | `utils/aob/state/event_queue.py` | the queue account: head, count, event size, and a ring of bytes |
| Critbit slab decoder | `utils/aob/state/slab.py`, `base.py` | the bids and asks trees; traversal order; price extraction |
| Crank | `dex/actions.py` `consume_orderbook_events`, `dex/sdk_context.py` `crank_raw`, `_dedup` | a fetched queue header and accounts, used after the queue has moved on |
| Fractional | `codegen/dex/types/fractional.py` | (m, exp) numbers: `+`, `*`, `simplify`, float conversion |
| Global context | `utils/solana.py` `Context`, `send_transaction`, `actionify` | the signer registry, the fee payer, `raise_on_error` |
| SDK trader | `dex/sdk_context.py` `SDKContext`, `SDKTrader` | open-orders lists, amounts, place/cancel/replace/cancel_all, register_trader |
| Market bootstrap and auxiliary actions | `dex/actions.py`, `dex/addrs.py`, `dummy_oracle/actions.py`, `constant_fees/actions.py`, `instruments/actions.py`, `risk/actions.py` | accounts created on chain, addresses derived from seeds, "already exists" read from errors |
| Instruction builders | `codegen/*/instructions`, `constant_fees/instructions.py`, `dummy_oracle/instructions` | the account lists, which decide the signers and what `_post_*` reads |

How the parts interact:

- Every action goes through the same path. `actionify` calls the action's
  `make` function to build a transaction. `send_transaction` then:
  1. chooses the signing keypairs from the `Context` registry, by the
     builders' `is_signer` flags;
  2. sends the transaction;
  3. raises when the transaction failed and `raise_on_error` is on.
- Otherwise the action's `_post_*` helper reads the transaction details:
  - An address-returning helper returns the address when the transaction
    succeeded.
  - It also returns it when the first instruction failed with Custom 0, the
    system program's "already in use".
- The AOB program appends events when orders match. A cranker decodes the
  queue, collects the accounts of the first events and sends
  ConsumeOrderbookEvents. The program pops what it settles.
- The slabs change with every post, cancel and fill. The client reads them
  through the slab decoder.
- `SDKTrader` wraps the DEX actions for one trader. `cancel_all_orders`
  walks the open-orders lists of a fetched trader risk group. It indexes
  `sdk.products`, the list `load_products` built at connect time.

## Modules

The modules fall into four groups: the order book and its event queue, the
trader-side operations, the market bootstrap, and the MC modules.

### Order book and event queue

- **EventLog**: the abstract promise of the event queue. It is a FIFO of
  stamped events with `Append1` and `PopN`.
- **EventQueue**: the queue account as a ring of `RingLen` cells.
  - An event fills `EventSize` consecutive cells.
  - The program side (`PushEvent`, `PopEvents`) is spec_modelled.
  - `EventAt` translates `__getitem__`, whose slice clamps at the end of the
    buffer and never wraps.
  - `DecodedQueue` is the client's view of the whole queue.
  - `DecodedQueueIsLog` is `EventLog!Spec` under the refinement mapping
    `queue <- DecodedQueue(...)`. It states that the client reads exactly
    the program's FIFO.
- **Crank** (extends EventQueue): one or more crankers race the producer and
  each other.
  - `BuildCrank` models `consume_orderbook_events`, which raises
    AttributeError before sending: its accounts are bare PublicKeys.
  - `CrankRaw` models `crank_raw`: it sorts the caller's accounts in
    place, applies `_dedup`, and always sends `max_iterations` 20.
  - `DedupPass` is `_dedup`'s loop, which writes into the caller's list.
    `rawLeft` keeps the list as the caller gets it back.
  - `ExecuteCrank` is the program's consume step (spec_modelled). It settles
    the *current* queue and fails if an event's user account is missing.
- **Slab**: the critbit tree and its decoder.
  - The tree is the canonical critbit tree of its keys.
  - `InorderTraversal`, `GetNode`, `Root`, `FindMinMax`, `LeafPrice` and
    `OrderBookifyGrouped` translate the decoder.
- **OrderBook** (extends Slab): the two slabs under the program's
  `PostOrder`, `CancelOrder` and `FillOrder`.
- **Fractional**: `Simplify`, `Add` and `Mul`, translated.
  - The state is an accumulator `x` that folds operands with `+` or `*`.
  - Beside it, a ghost `ref` computes the same value without simplifying.

### Trader-side operations

- **Instructions**: the `AccountMeta` lists of the builders that
  `send_transaction` scans for signers.
- **Context** (extends Instructions): the process-wide `Context`.
  - It starts in the state `SDKContext.connect` leaves: the payer is
    registered and is the fee payer.
  - Its actions:
    - `add_signers`;
    - `send_transaction`'s signer selection;
    - nested `global_fee_payer` blocks whose bodies may raise;
    - `register_trader`;
    - `SDKTrader.deposit`;
    - `crank_raw`;
    - `create_trader_risk_group`: with the alpha risk engine (the default)
      it reads the unbound name `alpha_state` and raises NameError; with
      any other program it raises Exception. Both happen before the risk
      state keypair is generated or registered, so nothing changes;
    - `Connect`: a second `SDKContext.connect`, that is,
      `Context.init_globals`. It empties the registry, registers the new
      payer and makes it the fee payer. It leaves alone the SDKTraders
      and the old fee payer an open block saved.
- **CancelAll**: the trader risk group's open-orders lists, one doubly
  linked list per product slot.
  - The program side is spec_modelled: `PostOrder`, `FillOrder` and the
    cancel effect.
  - `cancel_all_orders` is split at its sends: `StartCancelAll` fetches the
    lists, and each `CancelStep` sends one cancel. Fills and posts
    interleave between the steps.
  - `PlaceOrder`, `Cancel` and `Replace` are atomic actions:
    - `place_order` raises TypeError without `risk_accounts`.
    - `replace` sends its cancel and its new order in one transaction.
  - `Failed` is `send_transaction` with or without `raise_on_error`.
- **OpenOrders** (abstract): what these calls promise, with the open
  orders as a set of (book, id) pairs.
  - Its actions are `Post`, `Close` (a fill or a cancel), `Swap` (replace),
    `Begin`, and `CancelOne`. `Begin` snapshots the open set; `CancelOne`
    closes one snapshot order if it is still open.
  - It has weak fairness on `CancelOne`.
  - CancelAll's `Abstract == INSTANCE OpenOrders WITH ...` maps:
    - `open` to the ids reachable in the lists (`OpenOrderSet`);
    - `pending` to the set of `todo`;
    - `phase` to `cpc`, with "raised" counted as "done".
  - `ImplementsOpenOrders` checks `Abstract!Spec` as a property.
- **TraderFunds**: the amounts `deposit`, `withdraw` and `place_order` send.
  - A float literal's `int(x * factor)` comes from a table of CPython's
    results, `MC_TraderFunds.MCFloatTrunc`. It is never the exact product.
  - `withdraw` raises TypeError on the keyword `risk_state_account`.

### Market bootstrap and auxiliary actions

**Bootstrap** covers the market set-up actions of `dex/actions.py`, the
dummy oracle, constant fees, the instruments and the risk config.

- **Addresses.** An address is the term of its derivation, for example
  `WithSeed(base, Crush(layout, args), program)` or `Pda(seeds, program)`.
  The md5 and sha256 hashes are taken to be injective.
- **Transactions.** A transaction is a sequence of operations built from the
  builders' account lists:
  - create with seed;
  - create;
  - init;
  - register;
  - use;
  - upsert.
- **The chain.** `Run` executes the operations in order and stops at the
  first failure. That operation's Custom code and index are what `_post_*`
  reads. `Landed` keeps nothing of a failed transaction.
- **Sending.** `Call` is `actionify` with `send_transaction`:
  - A send either completes, or times out and stays in `inflight`.
  - A timed-out transaction later `Land`s or `Expire`s.
- **The environment.**
  - `InitMarketProductGroupElsewhere` is another client initialising the
    group. `init_market_product_group` itself raises TypeError on
    `vault=`.
  - `Drain` and `Refund` make the funders run dry and recover.
- **Actions that raise before sending:**
  - `initialize_derivative` without a clock: AttributeError in the signer
    scan.
  - `settle_derivative`: UnboundLocalError on `_tick`.
  - `create_risk_config_acct` for a non-alpha engine: Exception.
  - `initialize_risk_config_acct` for the alpha engine sends nothing and
    returns (None, None).
- **Trading scope.** A third value of `scope` starts from the group's
  accounts as `SetUpState` leaves them, with the mint initialised. It runs:
  - `create_market_product` for one key;
  - `register_trader`: the fee account, a fresh trader risk group keypair,
    and `initialize_trader_risk_group`, then `SDKTrader.connect`'s asserts;
  - `deposit_funds` and `cancel_order`, as Calls on the group's derived
    addresses;
  - actions that raise before anything is sent:
    - `withdraw_funds`: TypeError;
    - `new_order`: AttributeError on `ixs.common` (actions.py:851);
    - `update_trader_funding`: RuntimeError or AttributeError;
    - `clear_expired_orders` and `remove_market_product`: AttributeError;
  - `create_risk_model_configuration_acct`, which creates a fresh keypair
    with preflight on.
- **Scope.** The market's actions (products, combos, mint) and the
  instruments' actions (oracle, clock, fees, derivative, fixed income,
  risk config) write disjoint accounts. Both only read the group's
  accounts.
  - `scope`, chosen at Init, lets a behaviour run one of the two callers
    beside the group's set-up.
  - Steps on disjoint accounts commute, so this loses no reachable
    combination of the accounts either caller touches.
  - It keeps the state space the sum of the two rather than their product.
  - The transaction tables (`MarketProductTx`, `ComboTx`, ...) are constant
    definitions. Their arguments are constants of the model.

### MC modules

**MC_*** modules declare the model values and the small sets the
configurations use.

## Runs

| Run | Module / config | Expect | What it shows |
|---|---|---|---|
| crank_race | MC_Crank / CrankRace.cfg | pass | Two crankers and the producer, with symmetry over crankers. Checks `RejectedOnlyIfStale`, `DedupSortedSet`, and `DecodedQueueIsLog`, the refinement of EventLog. Also checks `CallerListReusable`: the list `crank_raw` sorts and overwrites in place keeps its length and accounts, so passing it again sends the same accounts. |
| order_book | MC_OrderBook / OrderBook.cfg | pass | `inorder_traversal` lists each resting order once, in key order, with the two sides in opposite orders. |
| fractional | MC_Fractional / Fractional.cfg | pass | Up to 3 operations of `+` and `*` stay exact (`ArithmeticExact`). |
| context | MC_Context / Context.cfg | pass | Nested `global_fee_payer` blocks whose inner bodies may raise (and be caught inside an outer block), interleaved with every other Context action: while no raise escapes the outermost block, every transaction sent outside the blocks is paid by the SDK payer (`ScopedFeePayerRestored`). |
| cancel_all | MC_CancelAll / CancelAll.cfg | pass | `cancel_all_orders` racing fills and posts closes every order it fetched, cancels only those, and terminates. `replace` never adds an open order. The lists, node pool and cancel queue refine OpenOrders (`ImplementsOpenOrders`). |
| bootstrap | MC_Bootstrap / Bootstrap.cfg | pass | In any order, with reruns after timeouts, late landings and dry funders, the actions return only existing accounts, return the existing address on a rerun, use seeds that match their addresses, and register one combo per set of legs. With the group set up, `register_trader` always connects unless its send times out (`RegisterTraderConnects`). |
| crank_stale_accounts | MC_Crank / CrankStaleAccounts.cfg | violation | One event appended between `crank_raw`'s fetch and execution makes the transaction fail. |
| event_queue_default_size | MC_EventQueue / EventQueueDefaultSize.cfg | violation | A ring that is not a multiple of the event size: `__getitem__` truncates an event that spans the end. |
| book_bid_order | MC_OrderBook / BookBidOrder.cfg | violation | The bid traversal is ascending (worst first); the spec says best first. |
| context_fee_payer_leak | MC_Context / ContextFeePayerLeak.cfg | violation | A `global_fee_payer` body that raises leaves its payer as the global fee payer. The next transaction outside any block names that payer as fee payer: it is signed by it when it is a registered signer, and otherwise the signer scan raises ValueError. |
| cancel_all_removed_product | MC_CancelAll / CancelAllRemovedProduct.cfg | violation | After a product removal, `sdk.products[n]` is another product's book. |
| trader_funds_withdraw_pays | MC_TraderFunds / TraderFundsWithdrawPays.cfg | violation | `withdraw` never pays back: the builder call raises TypeError. |

Each property of a passing run has a mutant in `PROJECT.json`: a plausible
bug in a mapped definition, which TLC shows breaks the property. Examples:

- `_dedup`'s final slice off by one;
- the ratios left unpermuted by `get_combo_product_key`;
- any first-instruction error read as "exists";
- `replace` split into two sends.

### Supplementary configurations

These are kept beside the runs and checked the same way. Each illustrates a
hazard recorded in `PROJECT.json`:

- `EventQueueAligned.cfg` (pass): the EventQueue refinement alone, on an
  aligned ring.
- `CrankRaw.cfg` (pass): one cranker using `crank_raw`.
- `BookFindMax.cfg` (violation): `find_min_max` re-parses an already decoded
  node.
- `BookPriceLevels.cfg` (violation): `>> (64+32)` drops the price's
  fractional bits, so distinct prices merge into one level.
- `FractionalWireExp.cfg` (violation): `5 + 5` simplifies to exponent -1,
  which cannot be packed as a U64.
- `ContextAddSignersAtomic.cfg` (violation): `add_signers` inserts before it
  verifies.
- `ContextRegisterRetry.cfg` (violation): a second `register_trader` for an
  owner raises.
- `ContextReconnectInBlock.cfg` (violation): an `SDKContext.connect` with
  another payer inside a `global_fee_payer` block is undone by the block's
  exit. Later transactions are paid by the old payer, which the emptied
  registry no longer holds, so they raise ValueError.
- `ContextFeePayerScoped.cfg` (pass): without raising bodies, the fee payer
  stays scoped.
- `CancelAllRaiseOnError.cfg` (violation): under `raise_on_error`, a cancel
  of an order filled after the fetch raises, and the remaining cancels are
  never sent.
- `TraderFunds.cfg` (pass): deposit converts within one unit.
- `TraderFundsWithdrawScale.cfg` (violation): withdraw scales by `decimals`,
  not `10**decimals`.
- `TraderFundsIntoRound.cfg` (violation): `Fractional.into` truncates;
  `0.29` becomes 28 hundredths.
- `BootstrapTraderAccounts.cfg` (violation): `register_trader` initialises
  a trader risk group at a fresh keypair. `deposit_funds` and
  `cancel_order` use the address derived with seed `trdr_grp`, which nothing
  initialises, so a deposit after a successful registration fails.
- `BootstrapRaiseOnError.cfg` (violation): under `raise_on_error`,
  `send_transaction` raises on "already in use" before `_post_*` runs, so a
  rerun never gets the existing address back.

### Findings

The six findings in `PROJECT.json`:

1. `sdk_context.py:56`: `crank_raw` sends 20 iterations with accounts
   collected from an older snapshot.
2. `event_queue.py:118`: the ring slice does not wrap. At the default size,
   99 921 % 98 ≠ 0.
3. `slab.py:184`: bids are traversed in ascending order.
4. `solana.py:104`: `global_fee_payer` has no try/finally.
5. `sdk_context.py:309`: `sdk.products` is indexed by slot.
6. `sdk_context.py:134`: `withdraw` passes a keyword the builder lacks.

Other defects seen while modelling, recorded as hazards or in the models:

- `consume_orderbook_events` raises AttributeError.
- `create_trader_risk_group` raises NameError (`alpha_state` is not
  imported) for the default risk engine and Exception for any other.
- `init_market_product_group` and `place_order` without `risk_accounts`
  raise TypeError.
- `settle_derivative` raises UnboundLocalError.
- `initialize_trader_fee_acct` derives the fee account from the payer, while
  `create_trader_risk_group` derives it from the trader risk group.
- `new_order` calls `ixs.common`, which does not exist: every order raises
  AttributeError. Behind it, `out_register_acct` is unbound when
  `risk_register_acct` is given.
- `codegen/dex/instructions/__init__.py` imports `cancel_order`,
  `new_order`, `update_trader_funding` and `choose_successor`, but those
  files are missing.
- `cancel_order` passes `market_signer=authority`.
- The risk model configuration has three addresses:
  - the PDA `risk_model_config_acct` used by `cancel_order`;
  - the keypair `create_risk_model_configuration_acct` creates;
  - the seeded account `create_risk_config_acct` creates.
- `_post_init_risk_config` reads account 1, which is the admin, not the
  configuration account.

## Bounds, and why they are enough

- **Crank:**
  - The ring has 4 cells and events of 2, which covers every alignment of
    head against the end. It runs to sequence number 3, with pops of up to
    2.
  - Two participants give fills with distinct makers and takers.
  - Two symmetric crankers give the cranker-against-cranker race.
  - The run takes about 40 s.
- **OrderBook:**
  - Keys have 2 sequence bits, 1 fractional bit and 1 integer bit: 16 keys
    and 4 prices, two in each integer price.
  - Up to 3 orders per side reach trees of depth 2.
  - Quantities {1, 2} give partial fills.
- **Fractional:** the operands include:
  - zero;
  - a trailing zero;
  - two representations of 1.2;
  - a negative;
  - 5 and 50/10, which reach the exponent edge.
- **Context:**
  - Two owners, one user name (two owners added under it collide), 4
    generated keypairs, and one repeated connect with the same payer.
  - Nesting depth 2: an inner block that raises inside an outer one, then
    the outer block's exit.
  - This is enough for a second registration, a duplicate name, and a
    registry emptied between registrations.
  - About 880k states, 1.5 min.
  - The reconnect-in-block configuration connects with `p0` or `o1`.
- **CancelAll:**
  - 2 products, 3 nodes and order ids up to 2.
  - This gives an order filled after the fetch, one posted after it, and a
    node reused by another order.
  - About 24k states, with the refinement, 20 s.
- **TraderFunds:** four literals, two of which CPython truncates a unit
  low, at 2 decimals.
- **Bootstrap:**
  - One authority and one trader.
  - Two product keys, so a combo's legs can be listed in both orders.
  - At most one transaction in flight, enough for "timed out, retried,
    landed late".
  - Funders that can run dry.
  - Trading scope: one product key (the least), one trader, and two fresh
    keypairs for `create_risk_model_configuration_acct`, which generates a
    new one on every call (a call after a timeout uses the second).
  - About 154k states, 1.6 min.

## Fairness and deadlock

- `CancelAll`'s specification has `WF_vars(CancelStep)`.
  - `cancel_all_orders` is one call that sends its cancels in a loop on the
    caller's thread. Once started, it keeps sending until its list is
    empty or a send raises.
  - `CancelAllTerminates` (`cpc = "running" ~> cpc \in {"done", "raised"}`)
    relies on nothing else.
  - `OpenOrders`' weak fairness on `CancelOne` is implied by this one:
    while `todo` is non-empty, `CancelStep` is enabled.
- No other fairness is assumed, and the other properties are safety
  properties.
- Deadlock checks:
  - `OrderBook.cfg` and its supplementary configurations set
    `CHECK_DEADLOCK FALSE`. A market where the order bound is reached and
    the books are empty is a legal resting state.
  - The other runs are deadlock-checked.

## Not modelled

- Account layouts (`codegen/*/types`, `accounts.py`) and instruction data
  encoding: pure data.
- The account parsers: a single dispatch each.
- The scripts: tooling.
- The bodies of the remote programs: only their effect on accounts, as the
  spec and the runtime describe it, is modelled.
- Program ids:
  - The generated builders default to placeholder program ids
    (`Dex111…`, `instruments111…`, `EF5kuC…`).
  - The addresses are derived with the ids from `program_ids.py`.
  - Whether a deployment makes them agree depends on the validator's
    configuration, so the model treats each program as one id.
- Floating-point paths of Fractional (`to_decimal`, `__div__`, `sqrt`) and
  the I64/U64 widths at packing.
- `get_trader_risk_group`: it only fetches. (`SDKTrader.connect`'s asserts
  on the group `register_trader` created are modelled in Bootstrap.)
