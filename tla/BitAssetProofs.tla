-------------------------- MODULE BitAssetProofs ---------------------------
(***************************************************************************)
(* Proof, for every value of the constants, that after global settlement  *)
(* the settlement fund covers the remaining supply at the settlement      *)
(* price, however the holders split their force settlements: each payout  *)
(* rounds down, and rounding down is superadditive (lemma FloorSplit).    *)
(***************************************************************************)
EXTENDS BitAsset, TLAPS

(* The inductive invariant: the settlement state is typed and the fund    *)
(* covers the supply.                                                     *)
IInv ==
    /\ supply \in Int
    /\ settlement_fund \in Int
    /\ settlement_price \in (Nat \ {0}) \X Int
    /\ has_settlement \in BOOLEAN
    /\ SettlementFundCovers

(* Paying out x and y separately, each rounded down, never pays more than *)
(* paying out x + y at once.                                              *)
LEMMA FloorSplit ==
    ASSUME NEW x \in Int, NEW y \in Int, NEW q \in Nat \ {0}
    PROVE  x \div q + y \div q <= (x + y) \div q
<1>1. x = q * (x \div q) + (x % q) /\ 0 <= x % q /\ x % q < q
  OBVIOUS
<1>2. y = q * (y \div q) + (y % q) /\ 0 <= y % q /\ y % q < q
  OBVIOUS
<1>3. QED
  BY <1>1, <1>2

(* A step that leaves the supply and the settlement state alone keeps the *)
(* invariant.                                                             *)
LEMMA SettlementUntouched ==
    ASSUME IInv,
           UNCHANGED <<supply, settlement_fund, settlement_price, has_settlement>>
    PROVE  IInv'
BY DEF IInv, SettlementFundCovers, Settled

(* Global settlement prices the whole supply at what the fund holds.      *)
LEMMA GlobalSettleKeepsInv ==
    ASSUME IInv, NEW price \in SettlePrices, NEW ok \in BOOLEAN, GlobalSettle(price, ok)
    PROVE  IInv'
<1>1. price[1] \in Nat \ {0} /\ price[2] \in Nat \ {0}
  BY BitAssetAssumption
<1> DEFINE fund == (supply * price[1]) \div price[2]
<1>2. supply \in Nat \ {0} /\ fund \in Int
  BY <1>1 DEF IInv, GlobalSettle, GlobalSettleEvaluate
<1>3. settlement_fund' = fund /\ settlement_price' = <<supply, fund>> /\ supply' = supply
      /\ has_settlement' = TRUE
  BY DEF GlobalSettle
<1>4. (supply * fund) \div supply = fund
  BY <1>2
<1>5. QED
  BY <1>2, <1>3, <1>4 DEF IInv, SettlementFundCovers, Settled

(* A settlement after global settlement pays Settled(amt) from the fund   *)
(* and burns amt, which leaves the rest of the supply covered.            *)
LEMMA SettleNowKeepsInv ==
    ASSUME IInv, NEW h \in Holders, NEW amt \in Amounts, SettleNow(h, amt)
    PROVE  IInv'
<1> DEFINE p1 == settlement_price[1]
           p2 == settlement_price[2]
<1>1. amt \in Nat /\ p1 \in Nat \ {0} /\ p2 \in Int /\ supply \in Int
      /\ settlement_fund \in Int
  BY BitAssetAssumption DEF IInv
<1>2. has_settlement /\ (supply * p2) \div p1 <= settlement_fund
  BY DEF SettleNow, IInv, SettlementFundCovers, Settled
<1>3. supply' = supply - amt
      /\ settlement_fund' = settlement_fund - (amt * p2) \div p1
      /\ UNCHANGED <<settlement_price, has_settlement>>
  BY DEF SettleNow, Settled
<1>4. ((supply - amt) * p2) \div p1 + (amt * p2) \div p1 <= (supply * p2) \div p1
  <2>1. (supply - amt) * p2 + amt * p2 = supply * p2
    BY <1>1
  <2>2. (supply - amt) * p2 \in Int /\ amt * p2 \in Int
    BY <1>1
  <2>3. ((supply - amt) * p2) \div p1 + (amt * p2) \div p1
          <= ((supply - amt) * p2 + amt * p2) \div p1
    BY <1>1, <2>2, FloorSplit
  <2>4. QED
    BY <2>1, <2>3
<1>5. QED
  BY <1>1, <1>2, <1>3, <1>4 DEF IInv, SettlementFundCovers, Settled

(* The invariant holds initially and is kept by every step.               *)
LEMMA SettlementInvInductive == Spec => []IInv
<1>1. Init => IInv
  <2> SUFFICES ASSUME Init PROVE IInv
    OBVIOUS
  <2>1. supply \in Int
    BY GenesisSupplyAssumption DEF Init
  <2>2. settlement_fund = 0 /\ settlement_price = <<1, 0>> /\ has_settlement = FALSE
    BY DEF Init
  <2>3. <<1, 0>> \in (Nat \ {0}) \X Int
    OBVIOUS
  <2>4. QED
    BY <2>1, <2>2, <2>3 DEF IInv, SettlementFundCovers
<1>2. IInv /\ [Next]_vars => IInv'
  <2> SUFFICES ASSUME IInv, [Next]_vars PROVE IInv'
    OBVIOUS
  <2>1. ASSUME NEW perms \in PermissionChoices, NEW fl \in FlagChoices,
               UpdateAsset(perms, fl)
        PROVE  IInv'
    BY <2>1, SettlementUntouched DEF UpdateAsset
  <2>2. ASSUME NEW minf \in MinFeedChoices, UpdateBitasset(minf) PROVE IInv'
    BY <2>2, SettlementUntouched DEF UpdateBitasset
  <2>3. ASSUME NEW prods \in ProducerChoices, UpdateFeedProducers(prods) PROVE IInv'
    BY <2>3, SettlementUntouched DEF UpdateFeedProducers
  <2>4. ASSUME NEW p \in Publishers, NEW price \in Prices, PublishFeed(p, price)
        PROVE  IInv'
    BY <2>4, SettlementUntouched DEF PublishFeed
  <2>5. ASSUME NEW price \in SettlePrices, NEW ok \in BOOLEAN, GlobalSettle(price, ok)
        PROVE  IInv'
    BY <2>5, GlobalSettleKeepsInv
  <2>6. ASSUME NEW h \in Holders, NEW amt \in Amounts, SettleNow(h, amt) PROVE IInv'
    BY <2>6, SettleNowKeepsInv
  <2>7. ASSUME NEW h \in Holders, NEW amt \in Amounts, SettleLater(h, amt) PROVE IInv'
    BY <2>7, SettlementUntouched DEF SettleLater
  <2>8. CASE UNCHANGED vars
    BY <2>8, SettlementUntouched DEF vars
  <2>9. QED
    BY <2>1, <2>2, <2>3, <2>4, <2>5, <2>6, <2>7, <2>8 DEF Next
<1>3. QED
  BY <1>1, <1>2, PTL DEF Spec

(* After global settlement the fund always covers the remaining supply at *)
(* the settlement price, so the assertion of asset_settle do_apply        *)
(* (settled_amount <= settlement_fund) never fails, whatever the order    *)
(* and the sizes of the holders' settlements.                             *)
THEOREM FundAlwaysCovers == Spec => []SettlementFundCovers
BY SettlementInvInductive, PTL DEF IInv

-----------------------------------------------------------------------------
(* asset_update's do_apply cancels every open force settlement when it    *)
(* sets disable_force_settle, and when the flag was set already there was *)
(* none to cancel.                                                        *)
LEMMA UpdateAssetCancels ==
    ASSUME NoOrdersWhileSettleDisabled, NEW perms, NEW fl, UpdateAsset(perms, fl)
    PROVE  NoOrdersWhileSettleDisabled'
<1>1. CASE "disable_force_settle" \in fl /\ CanForceSettle
  <2>1. orders' = <<>>
    BY <1>1 DEF UpdateAsset
  <2>. QED
    BY <2>1 DEF NoOrdersWhileSettleDisabled
<1>2. CASE "disable_force_settle" \in fl /\ ~CanForceSettle
  <2>1. orders' = orders /\ DOMAIN orders = {}
    BY <1>2 DEF UpdateAsset, NoOrdersWhileSettleDisabled
  <2>. QED
    BY <2>1 DEF NoOrdersWhileSettleDisabled
<1>3. CASE "disable_force_settle" \notin fl
  BY <1>3 DEF UpdateAsset, NoOrdersWhileSettleDisabled, CanForceSettle
<1>. QED
  BY <1>1, <1>2, <1>3

(* Once force settlement is disabled no force settlement is open, for     *)
(* every value of the constants: asset_update's cancellation loop removes *)
(* them all when the flag is set, and asset_settle creates one only while *)
(* can_force_settle holds (before global settlement), which the flag      *)
(* being set rules out.                                                   *)
THEOREM SettleOrdersCancelled == Spec => []NoOrdersWhileSettleDisabled
<1>1. Init => NoOrdersWhileSettleDisabled
  BY DEF Init, NoOrdersWhileSettleDisabled, CanForceSettle
<1>2. NoOrdersWhileSettleDisabled /\ [Next]_vars => NoOrdersWhileSettleDisabled'
  <2> SUFFICES ASSUME NoOrdersWhileSettleDisabled, [Next]_vars
               PROVE  NoOrdersWhileSettleDisabled'
    OBVIOUS
  <2>1. ASSUME NEW perms \in PermissionChoices, NEW fl \in FlagChoices,
               UpdateAsset(perms, fl)
        PROVE  NoOrdersWhileSettleDisabled'
    BY <2>1, UpdateAssetCancels
  <2>2. ASSUME NEW h \in Holders, NEW amt \in Amounts, SettleLater(h, amt)
        PROVE  NoOrdersWhileSettleDisabled'
    <3>1. CanForceSettle /\ flags' = flags
      BY <2>2 DEF SettleLater, SettleEvaluate
    <3>. QED
      BY <3>1 DEF NoOrdersWhileSettleDisabled, CanForceSettle
  <2>3. CASE UNCHANGED <<flags, orders>>
    BY <2>3 DEF NoOrdersWhileSettleDisabled, CanForceSettle
  <2>4. QED
    BY <2>1, <2>2, <2>3
       DEF Next, vars, UpdateBitasset, UpdateFeedProducers, PublishFeed, GlobalSettle,
           SettleNow
<1>. QED
  BY <1>1, <1>2, PTL DEF Spec


-----------------------------------------------------------------------------
(* The variables GlobalSettlement sees.                                   *)
settlementVars == <<has_settlement, settlement_price, settlement_fund, supply>>

(* global_settle is the abstract settlement: it is refused once settled,  *)
(* and the fund it gathers, rounded down, is a natural.                   *)
LEMMA GlobalSettleIsSettle ==
    ASSUME IInv, NEW price \in SettlePrices, NEW ok \in BOOLEAN, GlobalSettle(price, ok)
    PROVE  Settlement!Settle
<1>1. price[1] \in Nat \ {0} /\ price[2] \in Nat \ {0}
  BY BitAssetAssumption
<1>2. ~has_settlement /\ supply > 0 /\ supply \in Int
  BY DEF GlobalSettle, GlobalSettleEvaluate, IInv
<1>3. (supply * price[1]) \div price[2] \in Nat
  BY <1>1, <1>2
<1>. QED
  BY <1>3, <1>2 DEF GlobalSettle, Settlement!Settle

(* A force settlement after global settlement is an abstract redemption  *)
(* of amt units.                                                          *)
LEMMA SettleNowIsRedeem ==
    ASSUME IInv, NEW h \in Holders, NEW amt \in Amounts, SettleNow(h, amt)
    PROVE  Settlement!Redeem
<1>1. amt \in Nat \ {0} /\ supply \in Int
  BY BitAssetAssumption DEF IInv
<1>2. supply' = supply - amt /\ has_settlement
      /\ UNCHANGED <<has_settlement, settlement_price>>
  BY DEF SettleNow
<1>3. supply - supply' = amt /\ supply' < supply
  BY <1>1, <1>2
<1>4. Settled(amt) <= settlement_fund /\ settlement_fund' = settlement_fund - Settled(amt)
  BY DEF SettleNow
<1>. QED
  BY <1>2, <1>3, <1>4 DEF Settlement!Redeem, Settlement!Payout, Settled

(* The settlement state of the bitasset implements GlobalSettlement, for  *)
(* every value of the constants: the genesis state is unsettled with an   *)
(* empty fund, global_settle settles once at a price that prices the      *)
(* supply at the fund, asset_settle after it burns and pays at that       *)
(* price, and every other operation leaves the settlement state alone.   *)
THEOREM SettlementRefinement == Spec => ImplementsSettlement
<1>1. Init => Settlement!Init
  <2> SUFFICES ASSUME Init PROVE Settlement!Init
    OBVIOUS
  <2>1. supply \in Nat
    BY GenesisSupplyAssumption DEF Init
  <2>2. <<1, 0>> \in (Nat \ {0}) \X Nat
    OBVIOUS
  <2>. QED
    BY <2>1, <2>2 DEF Init, Settlement!Init
<1>2. IInv /\ [Next]_vars => [Settlement!Next]_settlementVars
  <2> SUFFICES ASSUME IInv, [Next]_vars PROVE [Settlement!Next]_settlementVars
    OBVIOUS
  <2>1. ASSUME NEW price \in SettlePrices, NEW ok \in BOOLEAN, GlobalSettle(price, ok)
        PROVE  Settlement!Next
    BY <2>1, GlobalSettleIsSettle DEF Settlement!Next
  <2>2. ASSUME NEW h \in Holders, NEW amt \in Amounts, SettleNow(h, amt)
        PROVE  Settlement!Next
    BY <2>2, SettleNowIsRedeem DEF Settlement!Next
  <2>3. CASE UNCHANGED settlementVars
    BY <2>3
  <2>4. QED
    BY <2>1, <2>2, <2>3
       DEF Next, vars, settlementVars, UpdateAsset, UpdateBitasset, UpdateFeedProducers,
           PublishFeed, SettleLater
<1>. QED
  BY <1>1, <1>2, SettlementInvInductive, PTL
     DEF Spec, ImplementsSettlement, Settlement!Spec, settlementVars

=============================================================================
