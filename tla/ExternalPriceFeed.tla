-------------------------- MODULE ExternalPriceFeed --------------------------
(***************************************************************************)
(* What the two external-price evaluators promise their readers, stated   *)
(* without the object index: each market token/WEB has at most one entry, *)
(* the last price published for it and the head block time of that       *)
(* publication; a BTC update also sets the global BTC price.  The         *)
(* external_price_index of ExternalPrices is shown to implement this by   *)
(* mapping each market to the one object its by_market_key find returns.  *)
(***************************************************************************)
EXTENDS Naturals

CONSTANTS Accounts, WebassetIssuer, Tokens, BtcAsset, WebAsset, Prices, NoPrice, MaxTime

VARIABLES
    now,        \* head_block_time()
    btcPrice,   \* the global BTC price
    latest      \* market -> [price, timestamp], or NoEntry before the first update

Markets == {<<t, WebAsset>> : t \in Tokens}
NoEntry == [price |-> NoPrice, timestamp |-> MaxTime + 1]

(* The issuer publishes price p for market m at the current time.         *)
Publish(m, p) == latest' = [latest EXCEPT ![m] = [price |-> p, timestamp |-> now]]

PublishBtc(issuer, p) ==
    /\ issuer = WebassetIssuer
    /\ btcPrice' = p
    /\ Publish(<<BtcAsset, WebAsset>>, p)
    /\ UNCHANGED now

PublishToken(issuer, t, p) ==
    /\ issuer = WebassetIssuer
    /\ Publish(<<t, WebAsset>>, p)
    /\ UNCHANGED <<now, btcPrice>>

Tick ==
    /\ now < MaxTime
    /\ now' = now + 1
    /\ UNCHANGED <<btcPrice, latest>>

Init ==
    /\ now = 0
    /\ btcPrice = NoPrice
    /\ latest = [m \in Markets |-> NoEntry]

Next ==
    \/ \E i \in Accounts, p \in Prices : PublishBtc(i, p)
    \/ \E i \in Accounts, t \in Tokens, p \in Prices : PublishToken(i, t, p)
    \/ Tick

Spec == Init /\ [][Next]_<<now, btcPrice, latest>>

=============================================================================
