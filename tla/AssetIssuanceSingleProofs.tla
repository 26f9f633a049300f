---------------------- MODULE AssetIssuanceSingleProofs ----------------------
(***************************************************************************)
(* Proofs that the evaluate-time checks of asset_issue and                 *)
(* asset_create_issue_request keep the supply within max_supply and the   *)
(* issued-asset records unique when every transaction carries one         *)
(* operation (MaxOps = 1), for every other value of the constants.  With  *)
(* one operation nothing runs between its do_evaluate and its do_apply    *)
(* but the fee deduction, which touches neither the supply nor the        *)
(* records; with two, the runs overissue and replay show both fail.       *)
(***************************************************************************)
EXTENDS AssetIssuanceProofs

(* The two bounds the evaluate-time checks protect, for a store s.        *)
WithinMax(s) == \A a \in Assets : s.current_supply[a] <= MaxSupply[a]
AtMostOneRecord(s) == \A k \in UniqueIds \X Assets : s.issued[k] <= 1
Bounded(s) == WithinMax(s) /\ AtMostOneRecord(s)

(* The genesis supply of the core asset is within its max_supply.          *)
GenesisWithinMax == Cardinality(Accounts) * GenesisCore <= MaxSupply[CoreAsset]

(* The inductive invariant.  Both the store and the undo state are        *)
(* bounded (a failure restores the latter), and from the moment the one   *)
(* operation has evaluated until it applies, its do_evaluate still holds  *)
(* of the store.                                                           *)
SingleInv ==
    /\ TypeInv
    /\ phase # "idle" => Len(tx) = 1
    /\ Bounded(db) /\ Bounded(snap)
    /\ (phase = "evaluate" /\ pos = 2) \/ (phase = "apply" /\ pos = 1)
           => Evaluate(tx[1], db)

(* adjust_balance and the fee deduction touch neither the supply nor the  *)
(* issued-asset records.                                                   *)
LEMMA AdjustBalanceKeepsBounds ==
    ASSUME NEW s \in DbType, NEW p \in Accounts, NEW a \in Assets,
           NEW delta \in Int, NEW rdelta \in Int
    PROVE  /\ AdjustBalance(s, p, a, delta, rdelta).current_supply = s.current_supply
           /\ AdjustBalance(s, p, a, delta, rdelta).issued = s.issued
BY DEF AdjustBalance, DbType

LEMMA PayFeeKeepsBounds ==
    ASSUME NEW s \in DbType, NEW op \in Ops
    PROVE  /\ PayFee(s, op).current_supply = s.current_supply
           /\ PayFee(s, op).issued = s.issued
<1> DEFINE s1 == AdjustBalance(s, op.who, op.fee_asset, -op.fee, 0)
<1>1. s1 \in DbType /\ s1.current_supply = s.current_supply /\ s1.issued = s.issued
  BY OpFields, AdjustBalanceType, AdjustBalanceKeepsBounds
<1> HIDE DEF s1
<1>. QED
  BY <1>1 DEF PayFee, s1, DbType

(* Applying an operation whose do_evaluate holds of the store, and whose  *)
(* apply-time check passes, keeps the store bounded: issue and issue      *)
(* request were checked against max_supply and, for a request, against   *)
(* an existing record; reserve lowers the supply; a denial removes only  *)
(* a request object; the fee-pool and fee operations touch neither.       *)
LEMMA ApplyBounded ==
    ASSUME NEW op \in Ops, NEW c \in BOOLEAN, NEW s \in DbType,
           Bounded(s), Evaluate(op, s), ApplyOK(op, c, s)
    PROVE  Bounded(Apply(op, c, s))
<1>0. /\ op.who \in Accounts /\ CoreAsset \in Assets
      /\ op.type # "asset_deny_issue_request" =>
             op.asset \in Assets /\ op.amount \in Nat /\ -op.amount \in Int
  BY OpFields, AssetsAssumption
<1>1. CASE op.type = "asset_issue"
  <2> DEFINE s1 == AdjustBalance(s, op.to, op.asset, op.amount, 0)
  <2>1. s1 \in DbType /\ s1.current_supply = s.current_supply /\ s1.issued = s.issued
    BY <1>1, <1>0, OpFields, AdjustBalanceType, AdjustBalanceKeepsBounds
  <2>2. s.current_supply[op.asset] + op.amount <= MaxSupply[op.asset]
    BY <1>1 DEF Evaluate, IssueEvaluate
  <2> HIDE DEF s1
  <2>3. Apply(op, c, s) = [s1 EXCEPT !.current_supply[op.asset] = @ + op.amount]
    BY <1>1 DEF Apply, IssueApply, s1
  <2>. QED
    BY <1>0, <2>1, <2>2, <2>3 DEF Bounded, WithinMax, AtMostOneRecord, DbType
<1>2. CASE op.type = "asset_reserve"
  <2> DEFINE s1 == AdjustBalance(s, op.who, op.asset, -op.amount, 0)
  <2>1. s1 \in DbType /\ s1.current_supply = s.current_supply /\ s1.issued = s.issued
    BY <1>2, <1>0, AdjustBalanceType, AdjustBalanceKeepsBounds
  <2> HIDE DEF s1
  <2>2. Apply(op, c, s) = [s1 EXCEPT !.current_supply[op.asset] = @ - op.amount]
    BY <1>2 DEF Apply, ReserveApply, s1
  <2>. QED
    BY <1>0, <1>2, <2>1, <2>2, AssetsAssumption
       DEF Bounded, WithinMax, AtMostOneRecord, DbType
<1>3. CASE op.type = "asset_fund_fee_pool"
  <2> DEFINE s1 == AdjustBalance(s, op.who, CoreAsset, -op.amount, 0)
  <2>1. s1 \in DbType /\ s1.current_supply = s.current_supply /\ s1.issued = s.issued
    BY <1>3, <1>0, AdjustBalanceType, AdjustBalanceKeepsBounds
  <2> HIDE DEF s1
  <2>2. Apply(op, c, s) = [s1 EXCEPT !.fee_pool[op.asset] = @ + op.amount]
    BY <1>3 DEF Apply, FundFeePoolApply, s1
  <2>. QED
    BY <2>1, <2>2 DEF Bounded, WithinMax, AtMostOneRecord, DbType
<1>4. CASE op.type = "asset_claim_fees"
  <2> DEFINE s1 == [s EXCEPT !.accumulated_fees[op.asset] = @ - op.amount]
  <2>1. s1 \in DbType /\ s1.current_supply = s.current_supply /\ s1.issued = s.issued
    <3>1. s.accumulated_fees[op.asset] - op.amount \in Int
      BY <1>4, <1>0 DEF DbType
    <3>. QED
      BY <1>4, <3>1, <1>0, FeesAdjustType
  <2> HIDE DEF s1
  <2>2. /\ AdjustBalance(s1, op.who, op.asset, op.amount, 0).current_supply = s.current_supply
        /\ AdjustBalance(s1, op.who, op.asset, op.amount, 0).issued = s.issued
    BY <1>4, <1>0, <2>1, AdjustBalanceKeepsBounds
  <2>. QED
    BY <1>4, <2>2 DEF Apply, ClaimFeesApply, s1, Bounded, WithinMax, AtMostOneRecord
<1>5. CASE op.type = "asset_create_issue_request"
  <2>0. op.to \in Accounts /\ op.uid \in UniqueIds /\ op.reserved \in Nat
    BY <1>5, OpFields
  <2> DEFINE s1 == IF c THEN [s EXCEPT !.balanceObjects[op.to][op.asset] = @ + 1]
                   ELSE s
             s2 == AdjustBalance(s1, op.to, op.asset, op.amount, op.reserved)
             k  == <<op.uid, op.asset>>
  <2>1. s1 \in DbType /\ s1.current_supply = s.current_supply /\ s1.issued = s.issued
    <3>1. CASE c
      <4>1. s.balanceObjects[op.to][op.asset] = 0
        BY <1>5, <3>1 DEF ApplyOK, CreateIssueRequestApplyOK
      <4>2. [s.balanceObjects EXCEPT ![op.to][op.asset] = @ + 1]
                \in [Accounts -> [Assets -> {0, 1}]]
        BY <1>5, <1>0, <2>0, <4>1 DEF DbType
      <4>. QED
        BY <3>1, <4>2 DEF DbType
    <3>2. CASE ~c
      BY <3>2
    <3>. QED
      BY <3>1, <3>2
  <2> HIDE DEF s1
  <2>2. s2 \in DbType /\ s2.current_supply = s.current_supply /\ s2.issued = s.issued
    <3>1. op.amount \in Int /\ op.reserved \in Int
      BY <1>5, <1>0, <2>0
    <3>2. s2 \in DbType /\ s2.current_supply = s1.current_supply /\ s2.issued = s1.issued
      BY <1>5, <3>1, <1>0, <2>0, <2>1, AdjustBalanceType, AdjustBalanceKeepsBounds
    <3>. QED
      BY <3>2, <2>1
  <2>3. /\ s.current_supply[op.asset] + op.amount <= MaxSupply[op.asset]
        /\ s.issued[k] = 0
    BY <1>5 DEF Evaluate, CreateIssueRequestEvaluate
  <2> HIDE DEF s2
  <2>4. Apply(op, c, s) = [s2 EXCEPT !.current_supply[op.asset] = @ + op.amount,
                                     !.issued[k] = @ + 1]
    BY <1>5 DEF Apply, CreateIssueRequestApply, s1, s2
  <2>5. /\ Apply(op, c, s).current_supply = [s.current_supply EXCEPT ![op.asset] = @ + op.amount]
        /\ Apply(op, c, s).issued = [s.issued EXCEPT ![k] = @ + 1]
    BY <2>2, <2>4 DEF DbType
  <2>. QED
    BY <1>0, <2>0, <2>3, <2>5 DEF Bounded, WithinMax, AtMostOneRecord, DbType
<1>6. CASE op.type = "asset_deny_issue_request"
  <2>1. /\ Apply(op, c, s).current_supply = s.current_supply
        /\ Apply(op, c, s).issued = s.issued
    BY <1>6 DEF Apply, DenyIssueRequestApply, DbType
  <2>. QED
    BY <2>1 DEF Bounded, WithinMax, AtMostOneRecord, DbType
<1>. QED
  BY <1>1, <1>2, <1>3, <1>4, <1>5, <1>6, OpFields

(* With one operation per transaction, every submitted transaction has    *)
(* length one.                                                             *)
LEMMA SingleTransactions ==
    ASSUME MaxOps = 1, NEW t \in Transactions
    PROVE  t \in Seq(Ops) /\ Len(t) = 1
<1>1. t \in [1 .. 1 -> OpChoices]
  BY DEF Transactions
<1>2. t \in Seq(Ops)
  BY TransactionsType
<1>3. DOMAIN t = 1 .. 1 /\ DOMAIN t = 1 .. Len(t)
  BY <1>1, <1>2
<1>. QED
  BY <1>2, <1>3

LEMMA InitSingleInv ==
    ASSUME GenesisWithinMax
    PROVE  Init => SingleInv
<1> SUFFICES ASSUME Init PROVE SingleInv
  OBVIOUS
<1>1. Bounded(InitDb)
  <2>1. Cardinality(Accounts) \in Nat
    BY AssetsAssumption, FS_CardinalityType
  <2>. QED
    BY <2>1, AssetsAssumption, AmountsAssumption
       DEF GenesisWithinMax, InitDb, Bounded, WithinMax, AtMostOneRecord
<1>. QED
  BY <1>1, InitTypeInv DEF Init, SingleInv

LEMMA NextSingleInv ==
    ASSUME MaxOps = 1
    PROVE  SingleInv /\ [Next]_vars => SingleInv'
<1> SUFFICES ASSUME SingleInv, [Next]_vars PROVE SingleInv'
  OBVIOUS
<1>0. TypeInv'
  BY NextTypeInv DEF SingleInv
<1> USE DEF SingleInv, TypeInv, TypeOK, DriverShape
<1>1. CASE \E t \in Transactions : Submit(t)
  <2>1. PICK t \in Transactions : Submit(t)
    BY <1>1
  <2>2. Len(t) = 1
    BY SingleTransactions
  <2>. QED
    BY <1>0, <2>1, <2>2 DEF Submit
<1>2. CASE PayFeeOK
  <2>1. tx[pos] \in Ops
    <3>1. tx \in Seq(Ops) /\ pos \in 1 .. Len(tx)
      BY <1>2 DEF PayFeeOK
    <3>. QED
      BY <3>1
  <2>2. /\ db'.current_supply = db.current_supply /\ db'.issued = db.issued
    BY <1>2, <2>1, PayFeeKeepsBounds DEF PayFeeOK
  <2>. QED
    BY <1>0, <1>2, <2>2 DEF PayFeeOK, Bounded, WithinMax, AtMostOneRecord
<1>3. CASE PayFeeFail \/ EvaluateFail \/ ApplyFail \/ Commit
  BY <1>0, <1>3 DEF PayFeeFail, EvaluateFail, ApplyFail, Commit, Finish
<1>4. CASE StartEvaluate
  BY <1>0, <1>4 DEF StartEvaluate
<1>5. CASE EvaluateOK
  <2>1. pos = 1
    BY <1>5 DEF EvaluateOK
  <2>. QED
    BY <1>0, <1>5, <2>1 DEF EvaluateOK
<1>6. CASE StartApply
  <2>1. pos = 2
    <3>1. phase = "evaluate" /\ pos > Len(tx) /\ pos <= Len(tx) + 1 /\ Len(tx) = 1
      BY <1>6 DEF StartApply
    <3>. QED
      BY <3>1
  <2>. QED
    BY <1>0, <1>6, <2>1 DEF StartApply
<1>7. CASE ApplyStep
  <2>1. pos = 1
    BY <1>7 DEF ApplyStep
  <2>2. tx[1] \in Ops /\ ctx[1] \in BOOLEAN
    BY <1>7, <2>1 DEF ApplyStep
  <2>3. Evaluate(tx[1], db) /\ ApplyOK(tx[1], ctx[1], db)
    BY <1>7, <2>1 DEF ApplyStep
  <2>4. Bounded(db')
    BY <1>7, <2>1, <2>2, <2>3, ApplyBounded DEF ApplyStep
  <2>. QED
    BY <1>0, <1>7, <2>1, <2>4 DEF ApplyStep
<1>8. CASE UNCHANGED vars
  BY <1>0, <1>8 DEF vars
<1>. QED
  BY <1>1, <1>2, <1>3, <1>4, <1>5, <1>6, <1>7, <1>8 DEF Next

LEMMA SingleInvHolds ==
    ASSUME MaxOps = 1, GenesisWithinMax
    PROVE  Spec => []SingleInv
BY InitSingleInv, NextSingleInv, PTL DEF Spec

(* With one operation per transaction, the max_supply check of do_evaluate *)
(* of asset_issue and asset_create_issue_request keeps every asset's      *)
(* supply within its max_supply through any sequence of transactions,    *)
(* fee failures and undos, given a genesis supply within it.              *)
THEOREM SingleOpSupplyWithinMax ==
    ASSUME MaxOps = 1, GenesisWithinMax
    PROVE  Spec => []SupplyWithinMax
<1>1. SingleInv => SupplyWithinMax
  BY DEF SingleInv, Bounded, WithinMax, SupplyWithinMax
<1>. QED
  BY SingleInvHolds, <1>1, PTL

(* With one operation per transaction, the unique-id lookup of do_evaluate *)
(* of asset_create_issue_request leaves at most one issued-asset record  *)
(* per (unique_id, asset), through any sequence of requests, denials,    *)
(* fee failures and undos.                                                *)
THEOREM SingleOpIdempotentIssuance ==
    ASSUME MaxOps = 1, GenesisWithinMax
    PROVE  Spec => []IdempotentIssuance
<1>1. SingleInv => IdempotentIssuance
  BY DEF SingleInv, Bounded, AtMostOneRecord, IdempotentIssuance
<1>. QED
  BY SingleInvHolds, <1>1, PTL


=============================================================================
