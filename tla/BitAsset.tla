------------------------------ MODULE BitAsset ------------------------------
(***************************************************************************)
(* The life of one market-issued asset (bitasset) backed by the core       *)
(* asset, from asset_evaluator.cpp: asset update (permissions, flags and   *)
(* the cancellation of open force settlements), update_bitasset (minimum   *)
(* feeds), update_feed_producers, publish_feed with the median feed,       *)
(* global settlement, and force settlement before and after it.           *)
(*                                                                         *)
(* Every operation is its own transaction: the action is its evaluate     *)
(* followed by its apply, and a failed check leaves the state unchanged   *)
(* (the batch driver is studied in AssetIssuance).  Time is abstracted:   *)
(* feeds do not expire and force settlements are never executed by the    *)
(* maintenance sweep, which is outside this code.  Call orders are not    *)
(* modelled: the collateral check of global settlement is an input.       *)
(***************************************************************************)
EXTENDS Integers, Sequences, FiniteSets, SequencesExt, TLC

CONSTANTS
    Holders,           \* accounts holding the bitasset
    Publishers,        \* accounts that may become feed producers
    WitnessAuths,      \* account_auths of GRAPHENE_WITNESS_ACCOUNT's active authority
    CommitteeAuths,    \* account_auths of GRAPHENE_COMMITTEE_ACCOUNT's active authority
    Prices,            \* settlement prices a feed may carry (core per bitasset)
    SettlePrices,      \* settle_price inputs of global settle, as <<num, den>>
    InitBalance,       \* holder -> genesis balance of the bitasset
    IsPredictionMarket,\* bitasset_data.is_prediction_market
    InitPermissions,   \* options.issuer_permissions at creation
    PermissionChoices, \* new_options.issuer_permissions values of updates
    FlagChoices,       \* new_options.flags values of updates
    MinFeedChoices,    \* new_options.minimum_feeds values of update_bitasset
    ProducerChoices,   \* new_feed_producers values
    MaxFeedPublishers, \* parameters.maximum_asset_feed_publishers
    Amounts,           \* amounts of force settlements
    MaxOrders          \* bound on the force settlements created

NullPrice == 0     \* price_feed(): the null settlement price

FlagNames == {"disable_force_settle", "witness_fed_asset", "committee_fed_asset"}
PermNames == FlagNames \cup {"global_settle"}

ASSUME BitAssetAssumption ==
    /\ WitnessAuths \subseteq Publishers /\ CommitteeAuths \subseteq Publishers
    /\ Prices \subseteq Nat \ {0}
    /\ SettlePrices \subseteq (Nat \ {0}) \X (Nat \ {0})
    /\ InitBalance \in [Holders -> Nat]
    /\ IsPredictionMarket \in BOOLEAN
    /\ InitPermissions \subseteq PermNames
    /\ PermissionChoices \subseteq SUBSET PermNames
    /\ FlagChoices \subseteq SUBSET FlagNames
    /\ MinFeedChoices \subseteq Nat \ {0}
    /\ ProducerChoices \subseteq SUBSET Publishers
    /\ Amounts \subseteq Nat \ {0}
    /\ MaxOrders \in Nat

(* The genesis supply, the sum of the holders' balances, is a natural     *)
(* number (a fact about the fold SumFunction that TLC evaluates here).    *)
ASSUME GenesisSupplyAssumption == SumFunction(InitBalance) \in Nat

VARIABLES
    balance,          \* holder -> bitasset balance
    proceeds,         \* holder -> core received from settlements
    supply,           \* dynamic data: current_supply
    permissions,      \* options.issuer_permissions
    flags,            \* options.flags
    feeds,            \* bitasset_data.feeds: producer -> price (NullPrice: placeholder)
    current_feed,     \* bitasset_data.current_feed (its settlement price)
    minimum_feeds,    \* bitasset_data.options.minimum_feeds
    has_settlement,   \* bitasset_data.has_settlement()
    settlement_price, \* <<base (bitasset), quote (core)>> fixed by global settlement
    settlement_fund,  \* bitasset_data.settlement_fund
    orders,           \* force_settlement_index: id -> [owner, balance]
    next_id           \* next force_settlement_object id

vars == <<balance, proceeds, supply, permissions, flags, feeds, current_feed,
          minimum_feeds, has_settlement, settlement_price, settlement_fund,
          orders, next_id>>

-----------------------------------------------------------------------------
(* asset_object::can_force_settle and can_global_settle.                   *)
CanForceSettle == "disable_force_settle" \notin flags
CanGlobalSettle == "global_settle" \in permissions

(* asset_bitasset_data_object::update_median_feeds: the feeds that are not *)
(* placeholders, fewer than minimum_feeds give the null feed, otherwise   *)
(* nth_element puts the element of index size/2 of the sorted feeds in    *)
(* place.                                                                  *)
ValidFeeds(f) == {p \in DOMAIN f : f[p] # NullPrice}

UpdateMedianFeeds(f, minf) ==
    LET P      == ValidFeeds(f)
        order  == SetToSeq(P)
        sorted == SortSeq([i \in 1..Cardinality(P) |-> f[order[i]]], <)
    IN  IF Cardinality(P) < minf THEN NullPrice
        ELSE sorted[Cardinality(P) \div 2 + 1]

(* asset_options::validate: witness- and committee-fed are exclusive.      *)
OptionsValid(fl) == ~({"witness_fed_asset", "committee_fed_asset"} \subseteq fl)

(* asset_update_evaluator::do_evaluate.  With HARDFORK_572 passed, new     *)
(* permissions need only be a subset of the old ones while supply is not  *)
(* zero; changed flags must always be among the issuer's permissions.     *)
UpdateEvaluate(perms, fl) ==
    /\ OptionsValid(fl)
    /\ supply # 0 => perms \subseteq permissions
    /\ (fl \ flags) \cup (flags \ fl) \subseteq permissions

(* database::cancel_order of a force settlement: its balance goes back to  *)
(* the owner.                                                              *)
Refund(bal, os) ==
    [h \in Holders |-> bal[h] + SumFunction([i \in {j \in DOMAIN os : os[j].owner = h}
                                             |-> os[i].balance])]

(* Mutant: the cancellation tests the old flags instead of the new ones.  *)
UpdateAssetOldFlags(perms, fl) ==
    /\ UpdateEvaluate(perms, fl)
    /\ IF "disable_force_settle" \in flags /\ CanForceSettle
         THEN /\ balance' = Refund(balance, orders)
              /\ orders' = <<>>
         ELSE UNCHANGED <<balance, orders>>
    /\ permissions' = perms
    /\ flags' = fl
    /\ UNCHANGED <<proceeds, supply, feeds, current_feed, minimum_feeds,
                   has_settlement, settlement_price, settlement_fund, next_id>>

(* asset_update_evaluator::do_apply: disabling force settlement cancels    *)
(* every open force settlement of the asset, then the options are set.    *)
UpdateAsset(perms, fl) ==
    /\ UpdateEvaluate(perms, fl)
    /\ IF "disable_force_settle" \in fl /\ CanForceSettle
         THEN /\ balance' = Refund(balance, orders)
              /\ orders' = <<>>
         ELSE UNCHANGED <<balance, orders>>
    /\ permissions' = perms
    /\ flags' = fl
    /\ UNCHANGED <<proceeds, supply, feeds, current_feed, minimum_feeds,
                   has_settlement, settlement_price, settlement_fund, next_id>>

(* asset_update_bitasset_evaluator: refused after settlement; the median  *)
(* is recomputed only when minimum_feeds changes.                          *)
UpdateBitasset(minf) ==
    /\ ~has_settlement
    /\ minimum_feeds' = minf
    /\ current_feed' = IF minf # minimum_feeds
                         THEN UpdateMedianFeeds(feeds, minf) ELSE current_feed
    /\ UNCHANGED <<balance, proceeds, supply, permissions, flags, feeds,
                   has_settlement, settlement_price, settlement_fund, orders, next_id>>

(* asset_update_feed_producers_evaluator: not for witness- or committee-   *)
(* fed assets; drops the feeds of removed producers, adds a placeholder   *)
(* for new ones and recomputes the median.  Nothing checks settlement.    *)
UpdateFeedProducersEvaluate(prods) ==
    /\ Cardinality(prods) <= MaxFeedPublishers
    /\ "committee_fed_asset" \notin flags
    /\ "witness_fed_asset" \notin flags

(* Mutant: the producer set changes without update_median_feeds.         *)
UpdateFeedProducersStaleMedian(prods) ==
    /\ UpdateFeedProducersEvaluate(prods)
    /\ feeds' = [p \in prods |-> IF p \in DOMAIN feeds THEN feeds[p] ELSE NullPrice]
    /\ UNCHANGED <<balance, proceeds, supply, permissions, flags, current_feed,
                   minimum_feeds, has_settlement, settlement_price,
                   settlement_fund, orders, next_id>>

UpdateFeedProducers(prods) ==
    /\ UpdateFeedProducersEvaluate(prods)
    /\ LET f == [p \in prods |-> IF p \in DOMAIN feeds THEN feeds[p] ELSE NullPrice]
       IN  /\ feeds' = f
           /\ current_feed' = UpdateMedianFeeds(f, minimum_feeds)
    /\ UNCHANGED <<balance, proceeds, supply, permissions, flags, minimum_feeds,
                   has_settlement, settlement_price, settlement_fund, orders, next_id>>

(* asset_publish_feeds_evaluator::do_evaluate: no feed after settlement;   *)
(* the publisher must be a witness, a committee member or a producer,     *)
(* according to the asset's flags.                                         *)
PublishFeedEvaluate(p) ==
    /\ ~has_settlement
    /\ CASE "witness_fed_asset" \in flags   -> p \in WitnessAuths
         [] "committee_fed_asset" \in flags -> p \in CommitteeAuths
         [] OTHER                           -> p \in DOMAIN feeds

(* asset_publish_feeds_evaluator::do_apply: record the feed, recompute.    *)
PublishFeed(p, price) ==
    /\ PublishFeedEvaluate(p)
    /\ LET f == (p :> price) @@ feeds
       IN  /\ feeds' = f
           /\ current_feed' = UpdateMedianFeeds(f, minimum_feeds)
    /\ UNCHANGED <<balance, proceeds, supply, permissions, flags, minimum_feeds,
                   has_settlement, settlement_price, settlement_fund, orders, next_id>>

(* Mutant: a second global settlement is not refused (what a build whose *)
(* assert() is compiled out may do once the call-order index is empty).   *)
GlobalSettleEvaluateTwice(collateral_ok) ==
    /\ CanGlobalSettle
    /\ supply > 0
    /\ collateral_ok

(* asset_global_settle_evaluator::do_evaluate.  The call-order index is    *)
(* non-empty only before settlement (all margin positions are closed by   *)
(* it), so after settlement only the assert of lines 425-427 stops a      *)
(* second one: taken here as failing evaluate, as a build with asserts    *)
(* does.  collateral_ok stands for the least-collateralized-short check.  *)
GlobalSettleEvaluate(collateral_ok) ==
    /\ ~has_settlement
    /\ CanGlobalSettle
    /\ supply > 0
    /\ collateral_ok

(* database::globally_settle_asset: the collateral gathered at the given   *)
(* price becomes the fund, and the supply, unchanged, is priced at it.    *)
GlobalSettle(price, collateral_ok) ==
    /\ GlobalSettleEvaluate(collateral_ok)
    /\ LET fund == (supply * price[1]) \div price[2]
       IN  /\ settlement_fund' = fund
           /\ settlement_price' = <<supply, fund>>
    /\ has_settlement' = TRUE
    /\ UNCHANGED <<balance, proceeds, supply, permissions, flags, feeds,
                   current_feed, minimum_feeds, orders, next_id>>

(* Mutant: the holder's balance is not checked.                           *)
SettleEvaluateNoBalance(h, amt) ==
    /\ CanForceSettle \/ has_settlement
    /\ IF IsPredictionMarket THEN has_settlement
       ELSE current_feed # NullPrice

(* asset_settle_evaluator::do_evaluate.                                    *)
SettleEvaluate(h, amt) ==
    /\ CanForceSettle \/ has_settlement
    /\ IF IsPredictionMarket THEN has_settlement
       ELSE current_feed # NullPrice
    /\ balance[h] >= amt

(* Mutant: the conversion rounds up.                                      *)
SettledRoundUp(amt) ==
    (amt * settlement_price[2] + settlement_price[1] - 1) \div settlement_price[1]

(* amount * settlement_price, rounded down.                                *)
Settled(amt) == (amt * settlement_price[2]) \div settlement_price[1]

(* Mutant: the settled amount is not taken off current_supply.           *)
SettleNowKeepSupply(h, amt) ==
    /\ SettleEvaluate(h, amt)
    /\ has_settlement
    /\ Settled(amt) <= settlement_fund
    /\ balance' = [balance EXCEPT ![h] = @ - amt]
    /\ settlement_fund' = settlement_fund - Settled(amt)
    /\ proceeds' = [proceeds EXCEPT ![h] = @ + Settled(amt)]
    /\ UNCHANGED <<supply, permissions, flags, feeds, current_feed, minimum_feeds,
                   has_settlement, settlement_price, orders, next_id>>

(* asset_settle_evaluator::do_apply after settlement: the holder is paid   *)
(* from the fund at the fixed price and the supply shrinks; the apply     *)
(* asserts that the fund covers the payment.                              *)
SettleNow(h, amt) ==
    /\ SettleEvaluate(h, amt)
    /\ has_settlement
    /\ Settled(amt) <= settlement_fund
    /\ balance' = [balance EXCEPT ![h] = @ - amt]
    /\ settlement_fund' = settlement_fund - Settled(amt)
    /\ proceeds' = [proceeds EXCEPT ![h] = @ + Settled(amt)]
    /\ supply' = supply - amt
    /\ UNCHANGED <<permissions, flags, feeds, current_feed, minimum_feeds,
                   has_settlement, settlement_price, orders, next_id>>

(* asset_settle_evaluator::do_apply before settlement: the amount leaves   *)
(* the holder into a force_settlement_object.                              *)
SettleLater(h, amt) ==
    /\ SettleEvaluate(h, amt)
    /\ ~has_settlement
    /\ next_id < MaxOrders
    /\ balance' = [balance EXCEPT ![h] = @ - amt]
    /\ orders' = (next_id :> [owner |-> h, balance |-> amt]) @@ orders
    /\ next_id' = next_id + 1
    /\ UNCHANGED <<proceeds, supply, permissions, flags, feeds, current_feed,
                   minimum_feeds, has_settlement, settlement_price, settlement_fund>>

-----------------------------------------------------------------------------
Init ==
    /\ balance = InitBalance
    /\ proceeds = [h \in Holders |-> 0]
    /\ supply = SumFunction(InitBalance)
    /\ permissions = InitPermissions
    /\ flags = {}
    /\ feeds = <<>>
    /\ current_feed = NullPrice
    /\ minimum_feeds = 1
    /\ has_settlement = FALSE
    /\ settlement_price = <<1, 0>>
    /\ settlement_fund = 0
    /\ orders = <<>>
    /\ next_id = 0

Next ==
    \/ \E perms \in PermissionChoices, fl \in FlagChoices : UpdateAsset(perms, fl)
    \/ \E minf \in MinFeedChoices : UpdateBitasset(minf)
    \/ \E prods \in ProducerChoices : UpdateFeedProducers(prods)
    \/ \E p \in Publishers, price \in Prices : PublishFeed(p, price)
    \/ \E price \in SettlePrices, ok \in BOOLEAN : GlobalSettle(price, ok)
    \/ \E h \in Holders, amt \in Amounts : SettleNow(h, amt) \/ SettleLater(h, amt)

Spec == Init /\ [][Next]_vars

-----------------------------------------------------------------------------
TypeOK ==
    /\ balance \in [Holders -> Nat]
    /\ proceeds \in [Holders -> Nat]
    /\ supply \in Nat
    /\ permissions \subseteq PermNames /\ flags \subseteq FlagNames
    /\ DOMAIN feeds \subseteq Publishers
    /\ \A p \in DOMAIN feeds : feeds[p] \in Prices \cup {NullPrice}
    /\ current_feed \in Prices \cup {NullPrice}
    /\ minimum_feeds \in Nat \ {0}
    /\ has_settlement \in BOOLEAN
    /\ settlement_fund \in Nat
    /\ DOMAIN orders \subseteq 0..(next_id - 1)
    /\ \A i \in DOMAIN orders : orders[i] \in [owner : Holders, balance : Amounts]
    /\ next_id \in 0..MaxOrders

(* The median of spec 8, defined by counting: the null feed when fewer     *)
(* than minimum_feeds producers have a feed on file, otherwise the value  *)
(* with at most half of the feeds (rounded down) strictly below it and    *)
(* more than that at or below it: for an even count, the upper of the two *)
(* middle feeds.                                                           *)
ReferenceMedian(f, minf) ==
    LET P        == ValidFeeds(f)
        n        == Cardinality(P)
        Below(v) == Cardinality({p \in P : f[p] < v})
        AtMost(v) == Cardinality({p \in P : f[p] <= v})
    IN  IF n < minf THEN NullPrice
        ELSE CHOOSE v \in {f[p] : p \in P} : Below(v) <= n \div 2 /\ n \div 2 < AtMost(v)

(* current_feed is the median of exactly the feeds on file from the        *)
(* current producers (spec 8): publishing, changing the producer set and   *)
(* changing minimum_feeds each recompute it, and the sort-and-pick of      *)
(* update_median_feeds agrees with the counting definition.                *)
MedianOfCurrentFeeds == current_feed = ReferenceMedian(feeds, minimum_feeds)

(* After global settlement the fund always covers the remaining supply at  *)
(* the settlement price, so the assertion of asset_settle do_apply         *)
(* (settled_amount <= settlement_fund) can never fail, however the        *)
(* holders split their settlements and whatever the rounding.             *)
SettlementFundCovers == has_settlement => Settled(supply) <= settlement_fund

(* The bitasset supply is what the holders own plus what waits in open     *)
(* force settlements: settling, cancelling on asset update and settling   *)
(* after global settlement each move it between these places or burn it.  *)
SupplyConserved ==
    supply = SumFunction(balance)
             + SumFunction([i \in DOMAIN orders |-> orders[i].balance])

(* Once force settlement is disabled no force settlement stays open: the   *)
(* cancellation loop of asset_update do_apply removes every one of them.  *)
NoOrdersWhileSettleDisabled == ~CanForceSettle => DOMAIN orders = {}

(* Spec 8: once the bitasset has settled, every feed-publish and           *)
(* feed-producer update against it fails, so the feeds and the current    *)
(* feed never change again.                                                *)
FeedsFrozenAfterSettlement ==
    [][has_settlement => UNCHANGED <<feeds, current_feed>>]_vars

(* Spec 4.3: after global settlement a holder's force settlement "applies  *)
(* immediately": any holder can settle what they hold.                    *)
SettledHoldersCanRedeem ==
    has_settlement =>
        \A h \in Holders, amt \in Amounts : balance[h] >= amt => SettleEvaluate(h, amt)


Settlement == INSTANCE GlobalSettlement
    WITH settled <- has_settlement, price <- settlement_price, fund <- settlement_fund

(* The settlement state implements GlobalSettlement: global_settle fixes   *)
(* the price once, pricing the whole supply at the fund; asset_settle      *)
(* after it burns the amount and pays it at that price from the fund; and  *)
(* no other operation (feeds, producers, updates, force settlements before *)
(* settlement) touches the supply, the fund, the price or the flag.        *)
ImplementsSettlement == Settlement!Spec

=============================================================================
