# TLA+ models of the asset evaluators and the access layer

This directory holds the verification development for the code under `src/`:
- `src/libraries/chain/asset_evaluator.cpp`: the evaluators of the asset operations;
- `src/libraries/chain/access_layer.cpp` and `access_layer.hpp`: the read-side queries;
- `protocol/operations.hpp`: the operation variant.

It contains TLA+ modules, TLC configurations, six proof modules (`*Proofs.tla`), and `PROJECT.json`. `PROJECT.json` gives:
- the source lines each definition models (`map`);
- every run, its expected result and the mutants that show each property is sensitive to the code;
- the findings, the hazards and the theorems.

## The system and how its parts interact

The chain state lives in an indexed object store. It is changed only by operations, and every operation has an evaluator with two parts:
- `do_evaluate` checks the operation against the current state;
- `do_apply` performs the change.

Spec 4.2 describes the driver of a transaction:
1. deduct the fees;
2. evaluate every operation;
3. apply every operation;
4. on any failure, restore the state the transaction started from.

The access layer reads committed state and never writes it. Readers can run beside the single writer, but only against a committed snapshot (spec 5).

| Part | Source | Module |
|---|---|---|
| Transaction driver (spec 4.2) and the supply operations: issue, reserve, fund fee pool, claim fees, create issue request, deny issue request | asset_evaluator.cpp 158-239, 562-699; driver from the spec | `AssetIssuance` |
| One bitasset's life: update asset, update bitasset, feed producers, publish feed, global settle, force settle | asset_evaluator.cpp 241-558 | `BitAsset`, whose settlement state refines the abstract `GlobalSettlement` |
| Asset index: create (symbol uniqueness, sub-asset prefix rule, backing rules), the issuer hand-over of asset_update, and the backing change of update_bitasset | asset_evaluator.cpp 40-156, 241-317, 318-368 | `AssetRegistry`, refining the abstract `AssetDirectory` |
| External BTC and token prices | asset_evaluator.cpp 700-775 | `ExternalPrices`, refining the abstract `ExternalPriceFeed` |
| Reward-queue projection: get_queue_state_for_account, operator+, get_total_cycles | access_layer.cpp 147-319, access_layer.hpp 78-160 | `QueueProjection` |
| Paged and batch queries (get_blocks, get_range, queue positions, the for_accounts helper), cycle balances (free and all, single and batched), asset lookups and issued-record checks | access_layer.cpp 17-138, 374-414, 450-504, access_layer.hpp 443-465 | `AccessLayer` |

Each `MC_*.tla` module extends one model and supplies the values TLC needs. Each `MC_*.cfg` file is one run.

### How state and actions correspond to the code

**AssetIssuance.** `db` is the store, abstracted to:
- balances, reserved balances and the balance objects per (account, asset);
- each asset's `current_supply`, `fee_pool` and `accumulated_fees`;
- the count of issued-asset records per `(unique_id, asset)`;
- the set of `issue_asset_request_object`s still pending (`issue_requests`), each with the asset it asks for (`RequestAsset`).

A denial removes one pending request object; it does not touch the issued-asset records or balances. Creating a request for the web asset is refused once minting is deprecated (`MintingDeprecated`, the check at asset_evaluator.cpp:601-602).

The driver is modelled from the spec (it is not under `src/`):
- `snap` is the undo session;
- `phase`, `tx` and `pos` are its position;
- `ctx` is what each `do_evaluate` hands to its `do_apply`: the `_create_new_balance_object` flag, or the `req_obj_` pointer of a denial.

Each evaluator is two operators, `XEvaluate` and `XApply`, translated from `do_evaluate` and `do_apply`. Where `do_apply` has checks of its own, they are a third operator, `XApplyOK`. Examples are the `adjust_balance` debit of reserve, the amount check of claim fees, `create_empty_balance` on a stale flag, and the removal through a dangling `req_obj_`. When that check fails, the driver's `ApplyFail` step undoes the transaction.

**BitAsset.** The state is one bitasset:
- its holders' balances and proceeds, and its supply;
- its permissions and flags;
- its feeds, current feed and minimum feeds;
- its settlement state;
- its pending force-settlement orders.

Every operation is its own transaction, and a failed check leaves the state alone.

**AssetRegistry.** The state is the asset index as a sequence: position 1 is CORE, and create appends. `AssetUpdate` is asset_update's hand-over to `new_issuer` (lines 310-311): only the current issuer may do it, and for a market-issued asset a hand-over to the committee is checked against the backing (lines 252-264). Besides the index, it records the set of assets with a positive supply, which the backing change refuses. A create whose evaluator throws leaves the state as it was. `AssetCreateRejected` makes that one step when some create is rejected, rather than one step per rejected operation, which keeps the refinement check fast.

**ExternalPrices.** The state is the head block time, the dynamic global property's BTC price, and the external price index as a set of objects.

**ExternalPriceFeed** is the abstract specification of what the two external-price evaluators promise their readers. It has no object index: a map `latest` from each token/WEB market to the last price published for it and the head block time of that publication, and the global BTC price. `ExternalPrices` instantiates it with the refinement mapping `latest <- [m \in PriceMarkets |-> EntryOf(m)]`. `EntryOf(m)` is what the `by_market_key` find returns for `m`, or the abstract `NoEntry` before the market's first update. `ImplementsFeed` is the abstract `Spec` under that mapping.

Two more abstract specifications state what a component promises. Each is instantiated with a refinement mapping, and the mapped `Spec` is a property of a passing run:
- **GlobalSettlement** is a bitasset's settlement, without feeds, permissions or orders.
  - The asset settles at most once, at a price `<<supply, fund>>`.
  - Each later redemption burns the amount redeemed and pays that amount at the fixed price, rounded down, from the fund.
  - `BitAsset` maps `settled`, `price`, `fund` and `supply` to its own settlement variables (`ImplementsSettlement`). Every other bitasset operation is a stutter of it.
- **AssetDirectory** is the asset index as its readers see it: a sequence of `[symbol, issuer, precision]`.
  - It grows only by `Register`, which takes a fresh symbol of the webasset issuer under the next id.
  - An entry's symbol and precision never change; its issuer changes only by `Transfer`, a hand-over to another account.
  - `AssetRegistry` maps `directory <- DirectoryOf(assets)`, forgetting the backing, which may change (`ImplementsDirectory`). asset_update is a `Transfer`; every other step keeps the directory.

**QueueProjection and AccessLayer.** These model read-only queries. The queries are operators, and the properties quantify over their arguments.
- The variables of `QueueProjection` are the inputs of one query: a history of up to three license records, the tethered flag and the manual-submit flag. Its `Next` is a stutter.
- `AccessLayer` also models the writers whose effects the queries observe: block production, queue submission and distribution, asset creation, issue records, and changes of an account's cycle balance object (`cycles`, `Null` where the account has none). Those writers are modelled from the spec, or from their evaluators where they are in `src/`.

## Runs

`PROJECT.json` lists twelve runs: seven that must pass and five that find a disagreement between code and spec.

| Run (cfg) | Expect | What it shows |
|---|---|---|
| `MC_AssetIssuance_single` | pass | One operation per transaction, including refused web-asset requests and denials of request objects: supply stays within `max_supply`, and no key has two records. |
| `MC_AssetIssuance_batch` | pass | Two-operation transactions through fee deduction, partial apply and undo (414k states): supply equals cash plus fees plus fee pools, no balance is negative, and the store stays typed. |
| `MC_AssetIssuance_applyfail` | violation | claim_fees fails in apply after evaluate succeeded. |
| `MC_AssetIssuance_overissue` | violation | Two issues in one transaction both pass the evaluate-time max-supply check, so supply exceeds `max_supply`. |
| `MC_BitAsset` | pass | The current feed is always the median of the feeds on file. The settlement fund covers what holders can redeem. Supply equals holdings. No force-settle order survives `disable_force_settle`. The settlement state implements `GlobalSettlement` (`ImplementsSettlement`). |
| `MC_BitAsset_frozen` | violation | Feed producers, and so feeds, change after global settlement. |
| `MC_AssetRegistry` | pass | Through creates, issuer hand-overs and backing changes, symbols stay unique and the index implements `AssetDirectory` (`ImplementsDirectory`). |
| `MC_AssetRegistry_depth` | violation | update_bitasset re-backs an asset by itself. |
| `MC_QueueProjection` | pass | The projection of every history equals a reference definition written independently (sums and products over the upgrade tiers). |
| `MC_AccessLayer` | pass | The positions from get_queue_submissions_with_pos are where paging finds the entries, and paging with every page size covers the queue. Lookup by symbol and by id string agree, and so do check_issued_asset, get_issued_asset_record and check_issued_webeur. The batched all-cycle-balances result of every account starts with its free cycle balance at frequency 0 and continues with exactly its queue entries, and an absent account gives an empty result (`CycleBalancesAgree`). |
| `MC_AccessLayer_batchlookup` | violation | One malformed digit string makes lookup_asset_symbols throw. |
| `MC_ExternalPrices` | pass | One object per market, stamped no later than the head block; the index implements `ExternalPriceFeed` (`ImplementsFeed`, checked as a temporal property). |

The other findings are reproduced by cfgs kept beside the runs. Each checks one property, and TLC finds it violated:

| cfg | Property | What it shows |
|---|---|---|
| `MC_AssetIssuance_replay.cfg` | `IdempotentIssuance` | Two requests with one `unique_id` in one transaction both pass the uniqueness check. |
| `MC_BitAsset_redeem.cfg` | `SettledHoldersCanRedeem` | After settlement, a holder cannot redeem once the feeds are gone. |
| `MC_AssetRegistry_hf409.cfg` | `SubAssetCreatableByPrefixIssuer` | Before HARDFORK_409 no dotted symbol is creatable. |
| `MC_QueueProjection_additive.cfg` | `ProjectionAdditive` | The projection is not additive: `auto_submit.total` is never set. |
| `MC_QueueProjection_nextupgrade.cfg` | `NextUpgradeIsLastUpgrade` | The next-upgrade bucket of a president license uses a hard-coded 2. |
| `MC_QueueProjection_totalcycles.cfg` | `TotalCyclesSkipsUnknown` | An unknown license is counted by get_total_cycles. |
| `MC_AccessLayer_blocks.cfg` | `BlocksTruncatedToHead` | get_blocks never returns the head block and fetches block 0. |

Run any of them with `tlc -workers 2 -config <cfg> <module>`. The module is the cfg's name without its suffix, for example `MC_AssetIssuance` for `MC_AssetIssuance_replay.cfg`.

Every property of a passing run has a mutant in `PROJECT.json`: a plausible bug in the mapped code that TLC finds violating that property. Examples are a dropped guard, an off-by-one, a forgotten timestamp, and a median left stale.

The violations are recorded as findings in `PROJECT.json`. Each one states what the code does and what the spec, an assertion message or a comment says instead.

### Bounds and why they suffice

- **AssetIssuance.** Two accounts, three assets (core, a dual-authority web asset, a cycle asset), amounts of 1, `max_supply` 1 for the non-core assets, two unique ids, two request objects (one for the web asset, deniable by its authenticator, one for the cycle asset, which no one may deny), and at most two operations per transaction.
  - The chosen operations pair each valid operation with an invalid twin that differs in the field one guard checks, so every guard both passes and fails.
  - Two operations per transaction is the least that exposes evaluate-time state going stale.
  - With two operations, two denials of the same request object share a transaction; the second apply fails and the transaction is undone.
- **BitAsset.** Two holders, three publishers (one witness and one committee member), two feed prices, a settlement price that rounds, and up to two orders.
- **AssetRegistry.** Four symbols (CORE, a plain one, a market one, a dotted sub-asset). The passing run allows up to three assets: enough for a market asset backed by another, both handed between two accounts, and for every create to meet a taken symbol. With issuer hand-overs four assets take over ten minutes. The `depth` and `hf409` runs allow four, enough for a chain of three backings and for the prefix rule.
- **AccessLayer.** Heads up to 2, one cycle balance value and one frequency (enough to tell the free entry from a queue entry), and queues of up to 3 entries from two existing accounts. Page limits of 2, so that a full page, a short last page and a rejected page all occur. Up to three assets, two unique ids, and id strings for every position plus malformed ones.
- **QueueProjection.** Histories of up to three records over every license kind, including the president policy and an unknown license, with upgrades used and unused.
- **ExternalPrices.** Two tokens, two prices and three block times.

### Fairness and liveness

No run assumes fairness or checks liveness. `push_transaction` runs a transaction to its end in one synchronous call, so the driver cannot stop half-way between its steps in a way a liveness property would be about, the projection and the lookups are single calls, and the maintenance sweep that executes force settlements and expires feeds is outside `src/`.

## What is proved

`AssetIssuanceProofs.tla` proves, with TLAPS and for every value of the constants satisfying the `ASSUME`s of `AssetIssuance`:

- **`TypeCorrect`: `Spec => []TypeOK`.** TypeOK is not inductive, because `ApplyStep` reads `ctx[pos]`. The proof strengthens it with `DriverShape`, which relates `pos`, `phase`, `Len(tx)` and `Len(ctx)` in every phase.
  - Lemmas cover each store writer: `AdjustBalance`, `PayFee`, and the per-field updates.
  - `ApplyType` has one step per operation. Each case shows that its `do_apply` keeps the store typed once its apply-time check passes. For a denial, the set of pending request objects loses the one `DenyIssueRequestApplyOK` found and stays a subset of `RequestIds`.
- **`BalancesNonNegative`: `Spec => []NoNegativeBalance`.** The property is not inductive on its own. A failed fee deduction, evaluate or apply restores `snap`, so the invariant `BalanceInv` also requires the snapshot to be non-negative.
  - `AdjustBalanceNonNeg` and `CreditCovered` carry the arithmetic.
  - `ApplyNonNeg` shows each `do_apply` debits only what its apply-time check found.

The constants' assumptions are `AssetsAssumption`, `AmountsAssumption` and `OpChoicesAssumption`. They say that amounts are positive naturals, that the issuer and authenticator maps are total, and so on.

`ExternalPricesProofs.tla` proves:
- **`OnePricePerMarketHolds`: `Spec => []OnePricePerMarket`.** The inductive invariant `IInv` adds that `now` is a natural and that every object is a typed record of a token/WEB market. Without the typing, the upsert's `EXCEPT` on a found object could not be shown to yield the written record.
  - The lemma `UpsertEffect` carries it: after an upsert of market `m`, `m` has exactly the written object, and every other market keeps its objects.
- **`FeedRefinement`: `Spec => ImplementsFeed`.** Initial states map to `Feed!Init`. Under `IInv`, each BTC or token update maps to `PublishBtc` or `PublishToken` (lemma `EntryAfterUpsert`), a block maps to `Tick`, and a stutter maps to a stutter.

`AssetRegistryProofs.tla` proves **`SymbolsAlwaysUnique`: `Spec => []SymbolsUnique`** from `IInv`, which says the index is a sequence of typed asset records with distinct symbols.
- Create appends only a symbol that the lookup did not find.
- asset_update and the backing change each rewrite one other field of one entry (`AssetUpdateShape`, `UpdateBackingShape`).

`BitAssetProofs.tla` proves **`FundAlwaysCovers`: `Spec => []SettlementFundCovers`**. After global settlement, the fund covers the supply settled at the fixed price, rounding down.
- `IInv` adds the types of the supply, the fund and the settlement price (a positive base).
- Force settlement keeps it by the lemma `FloorSplit`: `x \div q + y \div q <= (x + y) \div q`. The amount settled and the remaining supply, each rounded down, never take more than the whole.
- The proof needs `GenesisSupplyAssumption`: the genesis supply `SumFunction(InitBalance)` is a natural. That is a fact about a fold, which the provers cannot derive (see below), so TLC evaluates it on every `MC_BitAsset` run.
`BitAssetProofs.tla` also proves **`SettleOrdersCancelled`: `Spec => []NoOrdersWhileSettleDisabled`**. It is inductive as it stands, and the lemma `UpdateAssetCancels` does the work. It splits on the `disable_force_settle` flag that `asset_update` writes. Setting the flag cancels every pending order. Clearing it, or leaving it unchanged, keeps the property. `asset_settle` places an order only when `CanForceSettle` holds, and it never changes the flags.

`AssetIssuanceSingleProofs.tla` proves two theorems under the hypotheses `MaxOps = 1` and `GenesisWithinMax`. `GenesisWithinMax` says the genesis core balances fit the core asset's maximum.
- **`SingleOpSupplyWithinMax`: `Spec => []SupplyWithinMax`.**
- **`SingleOpIdempotentIssuance`: `Spec => []IdempotentIssuance`.**

`MaxOps = 1` is a real restriction, not a convenience. `asset_issue` checks the maximum supply, and the unique-id check refuses a second record, only in `do_evaluate`. Two operations of one transaction are both evaluated before either is applied, so together they break both properties. The findings on `SupplyWithinMax` and `IdempotentIssuance` record those counterexamples. With one operation, the check of evaluate is read against the store that apply then writes.

The inductive invariant is `SingleInv`:
- a transaction has length 1;
- `Bounded` holds for both the store and the snapshot: supply within max, and at most one record per key;
- between a successful evaluate and its apply, `Evaluate(tx[1], db)` still holds.

Fee payment touches neither supply nor records (`PayFeeKeepsBounds`). `ApplyBounded` has one case per operation and shows that each `do_apply` keeps `Bounded` once its evaluate check held.

`AccessLayerProofs.tla` proves **`LookupsAlwaysAgree`: `Spec => []LookupsAgree`**. `lookup_asset_symbol` finds every asset by its symbol and by its id string, and `check_issued_asset` and `check_issued_webeur` agree with `get_issued_asset_record`.
- The inductive invariant `LookupInv` says the index is a sequence of distinct symbols, within `MaxAssets`, with the web asset at position 2. Creation appends only a symbol that is not taken.
- The hypotheses are facts about the instance:
  - symbols do not start with a digit (`SymbolsNotDigits`);
  - the query strings spell every reachable id (`IdStringsCover`);
  - the null and error results are not positions;
  - CORE and WEB differ.
- TLC evaluated all four hypotheses, with `LookupInv`, on the `access` instance. The first hypothesis is needed: the run `batch_lookup` shows what a digit-led string that is not an id does.

### Refinements

Each refinement proof follows the same pattern:
- initial states map to abstract initial states;
- under an invariant, every step maps to an abstract step or a stutter;
- `PTL` combines the two facts.

**`DirectoryRefinement`: `Spec => ImplementsDirectory`** (`AssetRegistryProofs.tla`).
- The invariant is `IInv`: the index holds typed records with distinct symbols.
- `DirectoryOfAppend` shows that the directory of an appended index is the directory with the new entry's fields appended.
- `CreateRegisters` shows that a create is an abstract `Register`. The evaluate's failed `by_symbol` lookup gives the fresh symbol, and its issuer check gives the webasset issuer.
- `UpdateTransfers` shows that asset_update is an abstract `Transfer`: the directory of the new index is the old one with entry `x`'s issuer replaced by `new_issuer`.
- The backing change keeps every id's symbol, issuer and precision, by `UpdateBackingShape` and `DirectoryUnchanged`, so it is a stutter.

**`SettlementRefinement`: `Spec => ImplementsSettlement`** (`BitAssetProofs.tla`).
- It uses the `IInv` of `FundAlwaysCovers`, for the types of the supply and the price.
- `GlobalSettleIsSettle` maps `global_settle` to `Settle`. It is refused once settled, and the fund it gathers is a natural.
- `SettleNowIsRedeem` maps a force settlement after it to `Redeem`.
- Every other operation leaves the four variables alone.
- The proof rests on `GenesisSupplyAssumption`, like `FundAlwaysCovers`.

## What is only model-checked

Everything else is checked by TLC on the bounded instances above:
- the other invariants;
- the projection against its reference;
- all the violations.

The following invariants are also not proved. Each rests on a fold, a sort or a filter of a sequence, and what those compute for every input is induction over data. The library states such facts with an operator parameter, which no installed prover can instantiate:
- `SupplyConservation` and `SupplyConserved` (`SumFunction`);
- `MedianOfCurrentFeeds` (`SortSeq`);
- `TypeOK` of `BitAsset`, which types a sum;
- `SubmissionPositionsAgreeWithPages`, `PagesCoverQueue` and `CycleBalancesAgree` (`SelectSeq`, `FlattenSeq`).

The projection uses folds (`FoldLeft`, `FoldFunctionOnSet`) over the records and tiers. What a fold computes for every input is induction over data, which the installed provers cannot do, so that correspondence stays with TLC.

## Abstractions and what is not modelled

- The object store, the undo session, `adjust_balance`, `issue_asset`, `is_authorized_asset` and the driver are not in `src/`. They are modelled from spec 3-4.2 and marked `spec_modelled` in the map.
- The conversion of a string to an asset id is also modelled from its documented behaviour (`AccessLayer!AsAssetId`): `variant::as<asset_id_type>` throws unless the string is a `1.3.n` id.
- Hardforks are fixed per run. The runs assume the post-HARDFORK_409 rules (except in `hf409`), and they assume minting of the web asset is deprecated.
- Feeds never expire, and the maintenance sweep that executes pending force settlements is not modelled.
- Call orders and margin calls are not modelled. The collateral check of global settlement is an input, and after settlement the `assert` of asset_evaluator.cpp:425-427 is taken as failing evaluate.
- Whitelists and blacklists are a fixed relation (`Unauthorized`).
- `database_api.hpp` holds only declarations that forward to the access layer, so it is not modelled. Neither are the access layer's point lookups of accounts, vaults, licenses and wire-outs: they read objects the models do not hold.
- The unmodelled risks are listed as hazards with notes in `PROJECT.json`:
  - the unchecked dereference in get_all_cycle_balances: the model returns `Undefined` there, and whether an account can lack its cycle balance object depends on account creation outside `src/`;
  - offset paging of the reward queue across blocks, which skips entries when a distribution shrinks the queue between two pages;
  - the BTC price stored twice by the two external-price evaluators.
