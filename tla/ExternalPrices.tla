--------------------------- MODULE ExternalPrices ---------------------------
(***************************************************************************)
(* update_external_btc_price_evaluator and                                *)
(* update_external_token_price_evaluator: the webasset issuer records the *)
(* euro price of BTC (in the dynamic global properties and in the         *)
(* external_price_object of the market BTC/WEB) or of a token (in the     *)
(* object of the market token/WEB).  Both find the market's object by     *)
(* by_market_key and modify it, or create it when there is none.          *)
(***************************************************************************)
EXTENDS Integers, FiniteSets

CONSTANTS
    Accounts,
    WebassetIssuer,  \* get_chain_authorities().webasset_issuer
    Tokens,          \* assets a token price may be given for
    BtcAsset,        \* get_btc_asset_id()
    WebAsset,        \* get_web_asset_id()
    Prices,          \* prices an update may carry
    NoPrice,         \* the external_btc_price before any update
    MaxTime          \* bound on head_block_time

ASSUME ExternalPricesAssumption ==
    /\ WebassetIssuer \in Accounts
    /\ BtcAsset \in Tokens
    /\ MaxTime \in Nat

VARIABLES
    now,        \* head_block_time()
    btcPrice,   \* dynamic_global_property_object.external_btc_price
    objects     \* the external_price_index: a set of [market, price, timestamp]

vars == <<now, btcPrice, objects>>

(* The find on by_market_key: the objects of a market.                    *)
ByMarket(m) == {o \in objects : o.market = m}

(* Mutant: the lookup is dropped and an object is always created.        *)
UpsertNoFind(m, p) ==
    objects \cup {[market |-> m, price |-> p, timestamp |-> now]}

(* Mutant: the modify sets the price and forgets the timestamp.          *)
UpsertKeepTimestamp(m, p) ==
    IF ByMarket(m) # {}
    THEN LET o == CHOOSE o \in ByMarket(m) : TRUE
         IN  (objects \ {o}) \cup {[o EXCEPT !.price = p]}
    ELSE objects \cup {[market |-> m, price |-> p, timestamp |-> now]}

(* Modify the market's object if the find succeeds, else create one.      *)
Upsert(m, p) ==
    IF ByMarket(m) # {}
    THEN LET o == CHOOSE o \in ByMarket(m) : TRUE
         IN  (objects \ {o}) \cup {[o EXCEPT !.price = p, !.timestamp = now]}
    ELSE objects \cup {[market |-> m, price |-> p, timestamp |-> now]}

(* update_external_btc_price: evaluate checks the issuer; apply sets the  *)
(* global BTC price, then upserts the BTC/WEB market.                     *)
UpdateExternalBtcPrice(issuer, p) ==
    /\ issuer = WebassetIssuer
    /\ btcPrice' = p
    /\ objects' = Upsert(<<BtcAsset, WebAsset>>, p)
    /\ UNCHANGED now

(* update_external_token_price: evaluate checks the issuer; apply upserts *)
(* the token/WEB market.                                                  *)
UpdateExternalTokenPrice(issuer, token, p) ==
    /\ issuer = WebassetIssuer
    /\ objects' = Upsert(<<token, WebAsset>>, p)
    /\ UNCHANGED <<now, btcPrice>>

(* A block is produced and head_block_time moves on.                      *)
AdvanceTime ==
    /\ now < MaxTime
    /\ now' = now + 1
    /\ UNCHANGED <<btcPrice, objects>>

Init ==
    /\ now = 0
    /\ btcPrice = NoPrice
    /\ objects = {}

Next ==
    \/ \E i \in Accounts, p \in Prices : UpdateExternalBtcPrice(i, p)
    \/ \E i \in Accounts, t \in Tokens, p \in Prices : UpdateExternalTokenPrice(i, t, p)
    \/ AdvanceTime

Spec == Init /\ [][Next]_vars

-----------------------------------------------------------------------------
(* The external price index has one object per market, so the find of    *)
(* either evaluator and every reader of by_market_key see a single price, *)
(* and an object's timestamp never lies in the future: after any          *)
(* interleaving of BTC and token updates across blocks.                   *)
OnePricePerMarket ==
    /\ \A o1, o2 \in objects : o1.market = o2.market => o1 = o2
    /\ \A o \in objects : o.timestamp <= now

-----------------------------------------------------------------------------
(* The refinement mapping: each market token/WEB is mapped to the price   *)
(* and time of the object by_market_key finds for it, or to no entry.     *)
PriceMarkets == {<<t, WebAsset>> : t \in Tokens}

EntryOf(m) ==
    IF ByMarket(m) = {}
    THEN [price |-> NoPrice, timestamp |-> MaxTime + 1]
    ELSE LET o == CHOOSE o \in ByMarket(m) : TRUE
         IN  [price |-> o.price, timestamp |-> o.timestamp]

Feed == INSTANCE ExternalPriceFeed WITH latest <- [m \in PriceMarkets |-> EntryOf(m)]

(* The external price index, read through by_market_key, behaves as the   *)
(* map of ExternalPriceFeed: every BTC or token update, in any order and  *)
(* across blocks, publishes exactly one entry, the one a reader finds.    *)
ImplementsFeed == Feed!Spec

=============================================================================
