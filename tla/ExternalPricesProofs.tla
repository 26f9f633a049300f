------------------------ MODULE ExternalPricesProofs ------------------------
(***************************************************************************)
(* Proofs, for every value of the constants, that the external price      *)
(* index keeps one object per market and that ExternalPrices implements   *)
(* the abstract map ExternalPriceFeed under the refinement mapping        *)
(* EntryOf.  Both rest on what one upsert does to the objects of each     *)
(* market (lemma UpsertEffect).                                           *)
(***************************************************************************)
EXTENDS ExternalPrices, TLAPS

(* An object of the index: its market is one of the token/WEB markets.    *)
PriceObjects == [market : PriceMarkets, price : Prices, timestamp : Nat]

(* The inductive invariant: the index holds typed objects, one per market, *)
(* none stamped after the head block time.                                 *)
IInv ==
    /\ now \in Nat
    /\ objects \subseteq PriceObjects
    /\ OnePricePerMarket

(* The record an update for market m at price p leaves in the index.     *)
Written(m, p) == [market |-> m, price |-> p, timestamp |-> now]

(* After an upsert of market m, m has exactly the written object, and the *)
(* objects of every other market are those it had before.                *)
LEMMA UpsertEffect ==
    ASSUME IInv, NEW m \in PriceMarkets, NEW p \in Prices,
           objects' = Upsert(m, p)
    PROVE  /\ {o \in objects' : o.market = m} = {Written(m, p)}
           /\ \A m2 : m2 # m => {o \in objects' : o.market = m2} = ByMarket(m2)
<1>1. CASE ByMarket(m) # {}
  <2>1. PICK c \in ByMarket(m) : c = CHOOSE o \in ByMarket(m) : TRUE
    BY <1>1
  <2>2. ByMarket(m) = {c}
    BY <2>1 DEF IInv, OnePricePerMarket, ByMarket
  <2>3. [c EXCEPT !.price = p, !.timestamp = now] = Written(m, p)
    <3>1. c \in PriceObjects /\ c.market = m
      BY <2>1 DEF IInv, ByMarket
    <3>2. c = [market |-> c.market, price |-> c.price, timestamp |-> c.timestamp]
      BY <3>1 DEF PriceObjects
    <3>3. [c EXCEPT !.price = p] = [market |-> m, price |-> p, timestamp |-> c.timestamp]
      BY <3>1, <3>2
    <3>4. [[market |-> m, price |-> p, timestamp |-> c.timestamp] EXCEPT !.timestamp = now]
            = Written(m, p)
      BY DEF Written
    <3>5. QED
      BY <3>3, <3>4
  <2>4. objects' = (objects \ {c}) \cup {Written(m, p)}
    BY <1>1, <2>1, <2>3 DEF Upsert
  <2>5. QED
    BY <2>2, <2>4 DEF ByMarket, Written
<1>2. CASE ByMarket(m) = {}
  <2>1. objects' = objects \cup {Written(m, p)}
    BY <1>2 DEF Upsert, Written
  <2>2. QED
    BY <1>2, <2>1 DEF ByMarket, Written
<1>3. QED
  BY <1>1, <1>2

(* The BTC market is one of the token/WEB markets.                        *)
LEMMA BtcMarket == <<BtcAsset, WebAsset>> \in PriceMarkets
BY ExternalPricesAssumption DEF PriceMarkets

(* An upsert keeps the invariant when the head block time is unchanged.   *)
LEMMA UpsertKeepsInv ==
    ASSUME IInv, NEW m \in PriceMarkets, NEW p \in Prices,
           objects' = Upsert(m, p), now' = now
    PROVE  IInv'
<1>0. /\ {o \in objects' : o.market = m} = {Written(m, p)}
      /\ \A m2 : m2 # m => {o \in objects' : o.market = m2} = ByMarket(m2)
  BY UpsertEffect
<1>1. objects' \subseteq PriceObjects
  <2>1. \A o \in objects' : o.market = m \/ o \in objects
    BY <1>0 DEF ByMarket
  <2>2. Written(m, p) \in PriceObjects
    BY DEF IInv, Written, PriceObjects
  <2>3. QED
    BY <2>1, <2>2, <1>0 DEF IInv
<1>2. \A o1, o2 \in objects' : o1.market = o2.market => o1 = o2
  <2> SUFFICES ASSUME NEW o1 \in objects', NEW o2 \in objects', o1.market = o2.market
               PROVE  o1 = o2
    OBVIOUS
  <2>1. CASE o1.market = m
    <3>1. o1 \in {o \in objects' : o.market = m} /\ o2 \in {o \in objects' : o.market = m}
      BY <2>1
    <3>2. QED
      BY <3>1, <1>0
  <2>2. CASE o1.market # m
    <3>1. o1 \in ByMarket(o1.market) /\ o2 \in ByMarket(o1.market)
      BY <2>2, <1>0
    <3>2. QED
      BY <3>1 DEF IInv, OnePricePerMarket, ByMarket
  <2>3. QED
    BY <2>1, <2>2
<1>3. \A o \in objects' : o.timestamp <= now'
  <2> SUFFICES ASSUME NEW o \in objects' PROVE o.timestamp <= now'
    OBVIOUS
  <2>1. CASE o.market = m
    <3>1. o = Written(m, p)
      BY <2>1, <1>0
    <3>2. QED
      BY <3>1 DEF IInv, Written
  <2>2. CASE o.market # m
    <3>1. o \in objects
      BY <2>2, <1>0 DEF ByMarket
    <3>2. QED
      BY <3>1 DEF IInv, OnePricePerMarket
  <2>3. QED
    BY <2>1, <2>2
<1>4. QED
  BY <1>1, <1>2, <1>3 DEF IInv, OnePricePerMarket

(* The invariant holds initially and is kept by every step.               *)
LEMMA InvInductive == Init /\ [][Next]_vars => []IInv
<1>1. Init => IInv
  BY DEF Init, IInv, OnePricePerMarket
<1>2. IInv /\ [Next]_vars => IInv'
  <2> SUFFICES ASSUME IInv, [Next]_vars PROVE IInv'
    OBVIOUS
  <2>1. ASSUME NEW i \in Accounts, NEW p \in Prices, UpdateExternalBtcPrice(i, p)
        PROVE  IInv'
    BY <2>1, BtcMarket, UpsertKeepsInv DEF UpdateExternalBtcPrice
  <2>2. ASSUME NEW i \in Accounts, NEW t \in Tokens, NEW p \in Prices,
               UpdateExternalTokenPrice(i, t, p)
        PROVE  IInv'
    <3>1. <<t, WebAsset>> \in PriceMarkets
      BY DEF PriceMarkets
    <3>2. QED
      BY <2>2, <3>1, UpsertKeepsInv DEF UpdateExternalTokenPrice
  <2>3. CASE AdvanceTime
    BY <2>3 DEF AdvanceTime, IInv, OnePricePerMarket, PriceObjects
  <2>4. CASE UNCHANGED vars
    BY <2>4 DEF vars, IInv, OnePricePerMarket, PriceObjects
  <2>5. QED
    BY <2>1, <2>2, <2>3, <2>4 DEF Next
<1>3. QED
  BY <1>1, <1>2, PTL

(* The external price index has one object per market and no object      *)
(* stamped in the future, after any sequence of BTC and token updates.    *)
THEOREM OnePricePerMarketHolds == Spec => []OnePricePerMarket
<1>1. IInv => OnePricePerMarket
  BY DEF IInv
<1>2. QED
  BY InvInductive, <1>1, PTL DEF Spec

-----------------------------------------------------------------------------
(* The abstract map the refinement mapping gives.                         *)
LatestBar == [m \in PriceMarkets |-> EntryOf(m)]

(* After an upsert of market m at price p, the mapped entry of m is p at  *)
(* the current time and every other market's entry is unchanged.         *)
LEMMA EntryAfterUpsert ==
    ASSUME IInv, NEW m \in PriceMarkets, NEW p \in Prices,
           objects' = Upsert(m, p)
    PROVE  LatestBar' = [LatestBar EXCEPT ![m] = [price |-> p, timestamp |-> now]]
<1>1. /\ {o \in objects' : o.market = m} = {Written(m, p)}
      /\ \A m2 : m2 # m => {o \in objects' : o.market = m2} = ByMarket(m2)
  BY UpsertEffect
<1>2. EntryOf(m)' = [price |-> p, timestamp |-> now]
  <2>1. ByMarket(m)' = {Written(m, p)}
    BY <1>1 DEF ByMarket
  <2>2. (CHOOSE o \in {Written(m, p)} : TRUE) = Written(m, p)
    OBVIOUS
  <2>3. QED
    BY <2>1, <2>2 DEF EntryOf, Written
<1>3. ASSUME NEW m2 \in PriceMarkets, m2 # m PROVE EntryOf(m2)' = EntryOf(m2)
  <2>1. ByMarket(m2)' = ByMarket(m2)
    BY <1>1, <1>3 DEF ByMarket
  <2>2. QED
    BY <2>1 DEF EntryOf
<1>4. QED
  BY <1>2, <1>3 DEF LatestBar

(* ExternalPrices implements ExternalPriceFeed: the external price index, *)
(* read through by_market_key, is a map from each market to the price    *)
(* and time of its last update, whatever the order of the BTC and token   *)
(* updates and of the blocks between them.                                *)
THEOREM FeedRefinement == Spec => ImplementsFeed
<1>1. Init => Feed!Init
  <2> SUFFICES ASSUME Init PROVE Feed!Init
    OBVIOUS
  <2>1. \A m \in PriceMarkets : EntryOf(m) = Feed!NoEntry
    BY DEF Init, EntryOf, ByMarket, Feed!NoEntry
  <2>2. QED
    BY <2>1 DEF Init, Feed!Init, Feed!Markets, PriceMarkets
<1>2. IInv /\ [Next]_vars => [Feed!Next]_<<now, btcPrice, LatestBar>>
  <2> SUFFICES ASSUME IInv, [Next]_vars
               PROVE  [Feed!Next]_<<now, btcPrice, LatestBar>>
    OBVIOUS
  <2>1. ASSUME NEW i \in Accounts, NEW p \in Prices, UpdateExternalBtcPrice(i, p)
        PROVE  Feed!PublishBtc(i, p)
    <3>1. LatestBar' = [LatestBar EXCEPT ![<<BtcAsset, WebAsset>>] =
                            [price |-> p, timestamp |-> now]]
      BY <2>1, BtcMarket, EntryAfterUpsert DEF UpdateExternalBtcPrice
    <3>2. QED
      BY <2>1, <3>1 DEF UpdateExternalBtcPrice, Feed!PublishBtc, Feed!Publish, LatestBar
  <2>2. ASSUME NEW i \in Accounts, NEW t \in Tokens, NEW p \in Prices,
               UpdateExternalTokenPrice(i, t, p)
        PROVE  Feed!PublishToken(i, t, p)
    <3>1. <<t, WebAsset>> \in PriceMarkets
      BY DEF PriceMarkets
    <3>2. LatestBar' = [LatestBar EXCEPT ![<<t, WebAsset>>] = [price |-> p, timestamp |-> now]]
      BY <2>2, <3>1, EntryAfterUpsert DEF UpdateExternalTokenPrice
    <3>3. QED
      BY <2>2, <3>2 DEF UpdateExternalTokenPrice, Feed!PublishToken, Feed!Publish, LatestBar
  <2>3. CASE AdvanceTime
    <3>1. LatestBar' = LatestBar
      BY <2>3 DEF AdvanceTime, LatestBar, EntryOf, ByMarket
    <3>2. QED
      BY <2>3, <3>1 DEF AdvanceTime, Feed!Tick, Feed!Next, LatestBar
  <2>4. CASE UNCHANGED vars
    <3>1. LatestBar' = LatestBar
      BY <2>4 DEF vars, LatestBar, EntryOf, ByMarket
    <3>2. QED
      BY <2>4, <3>1 DEF vars, LatestBar
  <2>5. QED
    BY <2>1, <2>2, <2>3, <2>4 DEF Next, Feed!Next, LatestBar
<1>3. QED
  BY <1>1, <1>2, InvInductive, PTL DEF Spec, ImplementsFeed, Feed!Spec, LatestBar

=============================================================================
