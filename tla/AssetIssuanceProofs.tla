------------------------- MODULE AssetIssuanceProofs -------------------------
(***************************************************************************)
(* Proofs about AssetIssuance for every value of its constants: the type   *)
(* invariant, and that no account balance ever goes negative.              *)
(***************************************************************************)
EXTENDS AssetIssuance, FiniteSetTheorems, TLAPS

(* The helpers that write the store keep it well-typed.  A store update  *)
(* is typed field by field: the provers handle an EXCEPT that replaces a  *)
(* whole field, and the new value of each field is typed on its own.      *)
LEMMA AdjustBalanceType ==
    ASSUME NEW s \in DbType, NEW p \in Accounts, NEW a \in Assets,
           NEW delta \in Int, NEW rdelta \in Int
    PROVE  AdjustBalance(s, p, a, delta, rdelta) \in DbType
<1> DEFINE nb == [s.balance EXCEPT ![p][a] = @ + delta]
           nr == [s.reserved EXCEPT ![p][a] = @ + rdelta]
           no == [s.balanceObjects EXCEPT ![p][a] =
                    IF @ = 0 /\ (delta # 0 \/ rdelta # 0) THEN 1 ELSE @]
<1>1. nb \in [Accounts -> [Assets -> Int]] /\ nr \in [Accounts -> [Assets -> Int]]
  BY DEF DbType
<1>2. no \in [Accounts -> [Assets -> {0, 1}]]
  BY DEF DbType
<1>3. [s EXCEPT !.balance = nb, !.reserved = nr, !.balanceObjects = no] \in DbType
  BY <1>1, <1>2 DEF DbType
<1>. QED
  BY <1>3 DEF AdjustBalance

LEMMA OpFields ==
    ASSUME NEW op \in Ops
    PROVE  /\ op.who \in Accounts
           /\ op.type # "asset_deny_issue_request" =>
                  op.asset \in Assets /\ op.amount \in Nat \ {0}
           /\ op.fee \in Nat /\ op.fee_asset \in Assets
           /\ op.type \in {"asset_issue", "asset_reserve", "asset_fund_fee_pool",
                           "asset_claim_fees", "asset_create_issue_request",
                           "asset_deny_issue_request"}
           /\ op.type \in {"asset_issue", "asset_create_issue_request"}
                  => op.to \in Accounts
           /\ op.type = "asset_create_issue_request"
                  => op.uid \in UniqueIds /\ op.reserved \in Nat
           /\ op.type = "asset_deny_issue_request" => op.request \in RequestIds
BY AmountsAssumption DEF Ops, IssueOps, ReserveOps, FundOps, ClaimOps, RequestOps,
                         DenyOps

LEMMA PayFeeType ==
    ASSUME NEW s \in DbType, NEW op \in Ops
    PROVE  PayFee(s, op) \in DbType
<1> DEFINE s1 == AdjustBalance(s, op.who, op.fee_asset, -op.fee, 0)
<1>1. s1 \in DbType
  BY OpFields, AdjustBalanceType
<1>2. [s1.accumulated_fees EXCEPT ![op.fee_asset] = @ + op.fee] \in [Assets -> Int]
  BY <1>1, OpFields DEF DbType
<1>3. [s1 EXCEPT !.accumulated_fees =
          [s1.accumulated_fees EXCEPT ![op.fee_asset] = @ + op.fee]] \in DbType
  BY <1>1, <1>2 DEF DbType
<1>. QED
  BY <1>3 DEF PayFee

(* Setting one asset's entry of a per-asset field of the store to an      *)
(* integer keeps it well-typed.                                            *)
LEMMA SupplyAdjustType ==
    ASSUME NEW s \in DbType, NEW a \in Assets, NEW v \in Int
    PROVE  [s EXCEPT !.current_supply[a] = v] \in DbType
<1>1. [s.current_supply EXCEPT ![a] = v] \in [Assets -> Int]
  BY DEF DbType
<1>. QED
  BY <1>1 DEF DbType

LEMMA FeePoolAdjustType ==
    ASSUME NEW s \in DbType, NEW a \in Assets, NEW v \in Int
    PROVE  [s EXCEPT !.fee_pool[a] = v] \in DbType
<1>1. [s.fee_pool EXCEPT ![a] = v] \in [Assets -> Int]
  BY DEF DbType
<1>. QED
  BY <1>1 DEF DbType

LEMMA FeesAdjustType ==
    ASSUME NEW s \in DbType, NEW a \in Assets, NEW v \in Int
    PROVE  [s EXCEPT !.accumulated_fees[a] = v] \in DbType
<1>1. [s.accumulated_fees EXCEPT ![a] = v] \in [Assets -> Int]
  BY DEF DbType
<1>. QED
  BY <1>1 DEF DbType

(* Each operation's do_apply keeps the store well-typed, provided the      *)
(* apply-time check of ApplyOK holds.                                      *)
LEMMA ApplyType ==
    ASSUME NEW op \in Ops, NEW c \in BOOLEAN, NEW s \in DbType,
           ApplyOK(op, c, s)
    PROVE  Apply(op, c, s) \in DbType
<1>1. CASE op.type = "asset_issue"
  <2> DEFINE s1 == AdjustBalance(s, op.to, op.asset, op.amount, 0)
  <2>0. op.amount \in Nat /\ op.asset \in Assets
    BY <1>1, OpFields
  <2>1. s1 \in DbType
    BY <1>1, OpFields, AdjustBalanceType
  <2> HIDE DEF s1
  <2>2. s1.current_supply[op.asset] + op.amount \in Int
    BY <2>0, <2>1 DEF DbType
  <2> USE DEF s1
  <2>3. Apply(op, c, s) = IssueApply(op, s)
    BY <1>1 DEF Apply
  <2>. QED
    BY <2>0, <2>1, <2>2, <2>3, OpFields, SupplyAdjustType DEF IssueApply
<1>2. CASE op.type = "asset_reserve"
  <2> DEFINE s1 == AdjustBalance(s, op.who, op.asset, -op.amount, 0)
  <2>0. op.who \in Accounts /\ op.asset \in Assets /\ op.amount \in Nat
        /\ -op.amount \in Int
    BY <1>2, OpFields
  <2>1. s1 \in DbType
    BY <2>0, AdjustBalanceType
  <2> HIDE DEF s1
  <2>2. s1.current_supply[op.asset] - op.amount \in Int
    BY <2>0, <2>1 DEF DbType
  <2> USE DEF s1
  <2>3. Apply(op, c, s) = ReserveApply(op, s)
    BY <1>2 DEF Apply
  <2>. QED
    BY <2>0, <2>1, <2>2, <2>3, OpFields, SupplyAdjustType DEF ReserveApply
<1>3. CASE op.type = "asset_fund_fee_pool"
  <2> DEFINE s1 == AdjustBalance(s, op.who, CoreAsset, -op.amount, 0)
  <2>0. op.who \in Accounts /\ CoreAsset \in Assets /\ -op.amount \in Int
    BY <1>3, OpFields, AssetsAssumption
  <2>1. s1 \in DbType
    BY <2>0, AdjustBalanceType
  <2>1a. op.amount \in Nat /\ op.asset \in Assets
    BY <1>3, OpFields
  <2> HIDE DEF s1
  <2>2. s1.fee_pool[op.asset] + op.amount \in Int
    BY <2>1a, <2>1 DEF DbType
  <2> USE DEF s1
  <2>3. Apply(op, c, s) = FundFeePoolApply(op, s)
    BY <1>3 DEF Apply
  <2>. QED
    BY <2>1a, <2>1, <2>2, <2>3, OpFields, FeePoolAdjustType DEF FundFeePoolApply
<1>4. CASE op.type = "asset_claim_fees"
  <2> DEFINE s1 == [s EXCEPT !.accumulated_fees[op.asset] = @ - op.amount]
  <2>1. s.accumulated_fees[op.asset] - op.amount \in Int
    BY <1>4, OpFields DEF DbType
  <2>2. s1 \in DbType
    BY <1>4, <2>1, OpFields, FeesAdjustType
  <2>3. Apply(op, c, s) = ClaimFeesApply(op, s)
    BY <1>4 DEF Apply
  <2>. QED
    BY <1>4, <2>2, <2>3, OpFields, AdjustBalanceType DEF ClaimFeesApply
<1>5. CASE op.type = "asset_create_issue_request"
  <2>0. /\ op.to \in Accounts /\ op.asset \in Assets /\ op.amount \in Nat
        /\ op.uid \in UniqueIds /\ op.reserved \in Nat
    BY <1>5, OpFields
  <2> DEFINE s1 == IF c THEN [s EXCEPT !.balanceObjects[op.to][op.asset] = @ + 1]
                   ELSE s
             s2 == AdjustBalance(s1, op.to, op.asset, op.amount, op.reserved)
  <2>1. s1 \in DbType
    <3>1. CASE c
      <4>1. s.balanceObjects[op.to][op.asset] = 0
        BY <1>5, <3>1 DEF ApplyOK, CreateIssueRequestApplyOK
      <4>2. [s.balanceObjects EXCEPT ![op.to][op.asset] = @ + 1]
                \in [Accounts -> [Assets -> {0, 1}]]
        BY <1>5, <4>1, <2>0 DEF DbType
      <4>. QED
        BY <3>1, <4>2 DEF DbType
    <3>2. CASE ~c
      BY <3>2
    <3>. QED
      BY <3>1, <3>2
  <2>2. s2 \in DbType
    BY <1>5, <2>1, <2>0, AdjustBalanceType
  <2> HIDE DEF s2
  <2> DEFINE k == <<op.uid, op.asset>>
  <2>3. /\ k \in UniqueIds \X Assets
        /\ [s2.issued EXCEPT ![k] = @ + 1] \in [UniqueIds \X Assets -> Nat]
    BY <1>5, <2>2, <2>0 DEF DbType
  <2>4. [s2.current_supply EXCEPT ![op.asset] = @ + op.amount] \in [Assets -> Int]
    BY <1>5, <2>2, <2>0 DEF DbType
  <2>5. [s2 EXCEPT !.current_supply = [s2.current_supply EXCEPT ![op.asset] = @ + op.amount],
                   !.issued = [s2.issued EXCEPT ![k] = @ + 1]]
            \in DbType
    BY <2>2, <2>3, <2>4 DEF DbType
  <2>. QED
    <3>1. Apply(op, c, s) = CreateIssueRequestApply(op, c, s)
      BY <1>5 DEF Apply
    <3>2. CreateIssueRequestApply(op, c, s) =
            [s2 EXCEPT !.current_supply = [s2.current_supply EXCEPT ![op.asset] = @ + op.amount],
                       !.issued = [s2.issued EXCEPT ![k] = @ + 1]]
      BY DEF CreateIssueRequestApply, s2, k
    <3>. QED
      BY <2>5, <3>1, <3>2
<1>6. CASE op.type = "asset_deny_issue_request"
  <2>1. s.issue_requests \ {op.request} \in SUBSET RequestIds
    BY DEF DbType
  <2>2. Apply(op, c, s) = [s EXCEPT !.issue_requests = s.issue_requests \ {op.request}]
    BY <1>6 DEF Apply, DenyIssueRequestApply
  <2>. QED
    BY <2>1, <2>2 DEF DbType
<1>. QED
  BY <1>1, <1>2, <1>3, <1>4, <1>5, <1>6, OpFields

-----------------------------------------------------------------------------
(* TypeOK is not inductive: ApplyStep reads ctx[pos], so the driver's      *)
(* position and the contexts evaluate handed on must match the            *)
(* transaction in every phase.                                             *)
DriverShape ==
    /\ pos <= Len(tx) + 1
    /\ phase = "idle" => ctx = <<>> /\ pos = 1
    /\ phase = "fee" => ctx = <<>>
    /\ phase = "evaluate" => Len(ctx) = pos - 1
    /\ phase = "apply" => Len(ctx) = Len(tx)

TypeInv == TypeOK /\ DriverShape

LEMMA InitTypeInv == Init => TypeInv
<1> SUFFICES ASSUME Init PROVE TypeInv
  OBVIOUS
<1>1. InitDb \in DbType
  BY AssetsAssumption, AmountsAssumption, FS_CardinalityType
     DEF InitDb, DbType
<1>. QED
  BY <1>1 DEF Init, TypeInv, TypeOK, DriverShape

LEMMA TransactionsType == Transactions \subseteq Seq(Ops)
BY OpChoicesAssumption, AmountsAssumption DEF Transactions

LEMMA NextTypeInv == TypeInv /\ [Next]_vars => TypeInv'
<1> SUFFICES ASSUME TypeInv, [Next]_vars PROVE TypeInv'
  OBVIOUS
<1> USE DEF TypeInv, TypeOK, DriverShape
<1>1. CASE \E t \in Transactions : Submit(t)
  <2>1. PICK t \in Transactions : Submit(t)
    BY <1>1
  <2>2. t \in Seq(Ops)
    BY TransactionsType
  <2>. QED
    BY <2>1, <2>2 DEF Submit
<1>2. CASE PayFeeOK
  <2>1. tx[pos] \in Ops
    BY <1>2 DEF PayFeeOK
  <2>. QED
    BY <1>2, <2>1, PayFeeType DEF PayFeeOK
<1>3. CASE PayFeeFail
  BY <1>3 DEF PayFeeFail, Finish
<1>4. CASE StartEvaluate
  BY <1>4 DEF StartEvaluate
<1>5. CASE EvaluateOK
  <2>1. EvaluateContext(tx[pos], db) \in BOOLEAN
    BY DEF EvaluateContext, CreateNewBalanceObject
  <2>. QED
    BY <1>5, <2>1 DEF EvaluateOK
<1>6. CASE EvaluateFail
  BY <1>6 DEF EvaluateFail, Finish
<1>7. CASE StartApply
  BY <1>7 DEF StartApply
<1>8. CASE ApplyStep
  <2>1. tx[pos] \in Ops /\ ctx[pos] \in BOOLEAN
    BY <1>8 DEF ApplyStep
  <2>2. Apply(tx[pos], ctx[pos], db) \in DbType
    BY <1>8, <2>1, ApplyType DEF ApplyStep
  <2>. QED
    BY <1>8, <2>2 DEF ApplyStep
<1>9. CASE ApplyFail
  BY <1>9 DEF ApplyFail, Finish
<1>10. CASE Commit
  BY <1>10 DEF Commit, Finish
<1>11. CASE UNCHANGED vars
  BY <1>11 DEF vars
<1>. QED
  BY <1>1, <1>2, <1>3, <1>4, <1>5, <1>6, <1>7, <1>8, <1>9, <1>10, <1>11
  DEF Next

(* Type correctness of the store, the driver's transaction and the         *)
(* contexts do_evaluate hands to do_apply, for every value of the          *)
(* constants.                                                              *)
THEOREM TypeCorrect == Spec => []TypeOK
<1>1. Spec => []TypeInv
  BY InitTypeInv, NextTypeInv, PTL DEF Spec
<1>. QED
  BY <1>1, PTL DEF TypeInv

-----------------------------------------------------------------------------
(* No account balance is negative in the store s.                          *)
NonNegative(s) == \A p \in Accounts, a \in Assets : s.balance[p][a] >= 0

(* adjust_balance keeps balances non-negative when the debit is covered.   *)
LEMMA AdjustBalanceNonNeg ==
    ASSUME NEW s \in DbType, NEW p \in Accounts, NEW a \in Assets,
           NEW delta \in Int, NEW rdelta \in Int,
           NonNegative(s), CanAdjust(s, p, a, delta)
    PROVE  NonNegative(AdjustBalance(s, p, a, delta, rdelta))
<1>1. AdjustBalance(s, p, a, delta, rdelta).balance
          = [s.balance EXCEPT ![p][a] = @ + delta]
  BY DEF AdjustBalance, DbType
<1>. QED
  BY <1>1 DEF NonNegative, CanAdjust, DbType

(* A credit is always covered.                                             *)
LEMMA CreditCovered ==
    ASSUME NEW s \in DbType, NEW p \in Accounts, NEW a \in Assets,
           NEW delta \in Nat, NonNegative(s)
    PROVE  CanAdjust(s, p, a, delta)
BY DEF NonNegative, CanAdjust, DbType

(* Each do_apply keeps balances non-negative once its apply-time check    *)
(* passed: issue and issue-request credit, reserve and fund-fee-pool debit *)
(* what adjust_balance found there, claim-fees credits the issuer.         *)
LEMMA ApplyNonNeg ==
    ASSUME NEW op \in Ops, NEW c \in BOOLEAN, NEW s \in DbType,
           NonNegative(s), ApplyOK(op, c, s)
    PROVE  NonNegative(Apply(op, c, s))
<1>0. /\ op.who \in Accounts /\ CoreAsset \in Assets
      /\ op.type # "asset_deny_issue_request" =>
             op.asset \in Assets /\ op.amount \in Nat /\ -op.amount \in Int
  BY OpFields, AssetsAssumption
<1>1. CASE op.type = "asset_issue"
  <2> DEFINE s1 == AdjustBalance(s, op.to, op.asset, op.amount, 0)
  <2>1. op.to \in Accounts
    BY <1>1, OpFields
  <2>2. s1 \in DbType /\ NonNegative(s1)
    BY <1>1, <1>0, <2>1, AdjustBalanceType, AdjustBalanceNonNeg, CreditCovered
  <2> HIDE DEF s1
  <2>3. Apply(op, c, s) = [s1 EXCEPT !.current_supply[op.asset] = @ + op.amount]
    BY <1>1 DEF Apply, IssueApply, s1
  <2>. QED
    BY <1>0, <2>2, <2>3 DEF NonNegative, DbType
<1>2. CASE op.type = "asset_reserve"
  <2> DEFINE s1 == AdjustBalance(s, op.who, op.asset, -op.amount, 0)
  <2>1. CanAdjust(s, op.who, op.asset, -op.amount)
    BY <1>2 DEF ApplyOK, ReserveApplyOK
  <2>2. s1 \in DbType /\ NonNegative(s1)
    BY <1>2, <1>0, <2>1, AdjustBalanceType, AdjustBalanceNonNeg
  <2> HIDE DEF s1
  <2>3. Apply(op, c, s) = [s1 EXCEPT !.current_supply[op.asset] = @ - op.amount]
    BY <1>2 DEF Apply, ReserveApply, s1
  <2>. QED
    BY <1>0, <2>2, <2>3 DEF NonNegative, DbType
<1>3. CASE op.type = "asset_fund_fee_pool"
  <2> DEFINE s1 == AdjustBalance(s, op.who, CoreAsset, -op.amount, 0)
  <2>1. CanAdjust(s, op.who, CoreAsset, -op.amount)
    BY <1>3 DEF ApplyOK, FundFeePoolApplyOK
  <2>2. s1 \in DbType /\ NonNegative(s1)
    BY <1>3, <1>0, <2>1, AdjustBalanceType, AdjustBalanceNonNeg
  <2> HIDE DEF s1
  <2>3. Apply(op, c, s) = [s1 EXCEPT !.fee_pool[op.asset] = @ + op.amount]
    BY <1>3 DEF Apply, FundFeePoolApply, s1
  <2>. QED
    BY <1>0, <2>2, <2>3 DEF NonNegative, DbType
<1>4. CASE op.type = "asset_claim_fees"
  <2> DEFINE s1 == [s EXCEPT !.accumulated_fees[op.asset] = @ - op.amount]
  <2>1. s.accumulated_fees[op.asset] - op.amount \in Int
    BY <1>4, <1>0 DEF DbType
  <2>2. s1 \in DbType /\ NonNegative(s1)
    <3>1. s1 \in DbType
      BY <1>4, <1>0, <2>1, FeesAdjustType
    <3>. QED
      BY <3>1 DEF NonNegative, DbType
  <2> HIDE DEF s1
  <2>3. NonNegative(AdjustBalance(s1, op.who, op.asset, op.amount, 0))
    BY <1>4, <1>0, <2>2, AdjustBalanceNonNeg, CreditCovered
  <2>. QED
    BY <1>4, <2>3 DEF Apply, ClaimFeesApply, s1
<1>5. CASE op.type = "asset_create_issue_request"
  <2>0. op.to \in Accounts /\ op.uid \in UniqueIds /\ op.reserved \in Nat
    BY <1>5, OpFields
  <2> DEFINE s1 == IF c THEN [s EXCEPT !.balanceObjects[op.to][op.asset] = @ + 1]
                   ELSE s
             s2 == AdjustBalance(s1, op.to, op.asset, op.amount, op.reserved)
  <2>1. s1 \in DbType /\ NonNegative(s1)
    <3>1. CASE c
      <4>1. s.balanceObjects[op.to][op.asset] = 0
        BY <1>5, <3>1 DEF ApplyOK, CreateIssueRequestApplyOK
      <4>2. [s.balanceObjects EXCEPT ![op.to][op.asset] = @ + 1]
                \in [Accounts -> [Assets -> {0, 1}]]
        BY <1>5, <1>0, <2>0, <4>1 DEF DbType
      <4>3. s1 \in DbType
        BY <3>1, <4>2 DEF DbType
      <4>. QED
        BY <1>0, <2>0, <3>1, <4>3 DEF NonNegative, DbType
    <3>2. CASE ~c
      BY <3>2
    <3>. QED
      BY <3>1, <3>2
  <2>2. s2 \in DbType /\ NonNegative(s2)
    BY <1>5, <1>0, <2>0, <2>1, AdjustBalanceType, AdjustBalanceNonNeg, CreditCovered
  <2> HIDE DEF s1, s2
  <2>3. Apply(op, c, s) = [s2 EXCEPT !.current_supply[op.asset] = @ + op.amount,
                                     !.issued[<<op.uid, op.asset>>] = @ + 1]
    BY <1>5 DEF Apply, CreateIssueRequestApply, s1, s2
  <2>. QED
    BY <1>0, <2>0, <2>2, <2>3 DEF NonNegative, DbType
<1>6. CASE op.type = "asset_deny_issue_request"
  <2>1. Apply(op, c, s).balance = s.balance
    BY <1>6 DEF Apply, DenyIssueRequestApply, DbType
  <2>. QED
    BY <2>1 DEF NonNegative
<1>. QED
  BY <1>1, <1>2, <1>3, <1>4, <1>5, <1>6, OpFields

(* The fee deduction of driver step 3 debits only what CanAdjust found.   *)
LEMMA PayFeeNonNeg ==
    ASSUME NEW s \in DbType, NEW op \in Ops, NonNegative(s),
           CanAdjust(s, op.who, op.fee_asset, -op.fee)
    PROVE  NonNegative(PayFee(s, op))
<1> DEFINE s1 == AdjustBalance(s, op.who, op.fee_asset, -op.fee, 0)
<1>1. op.who \in Accounts /\ op.fee_asset \in Assets /\ -op.fee \in Int
  BY OpFields
<1>2. s1 \in DbType /\ NonNegative(s1)
  BY <1>1, AdjustBalanceType, AdjustBalanceNonNeg
<1> HIDE DEF s1
<1>. QED
  BY <1>2 DEF PayFee, s1, NonNegative, DbType

(* NoNegativeBalance is not inductive on its own: a failed fee deduction,  *)
(* evaluate or apply restores the state the transaction started from, so  *)
(* that state (snap) must be non-negative too.                             *)
BalanceInv == TypeInv /\ NonNegative(db) /\ NonNegative(snap)

LEMMA InitBalanceInv == Init => BalanceInv
<1> SUFFICES ASSUME Init PROVE BalanceInv
  OBVIOUS
<1>1. NonNegative(InitDb)
  BY AmountsAssumption DEF InitDb, NonNegative
<1>. QED
  BY <1>1, InitTypeInv DEF Init, BalanceInv

LEMMA NextBalanceInv == BalanceInv /\ [Next]_vars => BalanceInv'
<1> SUFFICES ASSUME BalanceInv, [Next]_vars
             PROVE  NonNegative(db)' /\ NonNegative(snap)'
  BY NextTypeInv DEF BalanceInv
<1> USE DEF BalanceInv, TypeInv, TypeOK, DriverShape
<1>1. CASE \E t \in Transactions : Submit(t)
  BY <1>1 DEF Submit, NonNegative
<1>2. CASE PayFeeOK
  <2>1. tx[pos] \in Ops
    BY <1>2 DEF PayFeeOK
  <2>. QED
    BY <1>2, <2>1, PayFeeNonNeg DEF PayFeeOK, NonNegative
<1>3. CASE PayFeeFail \/ EvaluateFail \/ ApplyFail
  BY <1>3 DEF PayFeeFail, EvaluateFail, ApplyFail, Finish, NonNegative
<1>4. CASE StartEvaluate \/ EvaluateOK \/ StartApply
  BY <1>4 DEF StartEvaluate, EvaluateOK, StartApply, NonNegative
<1>5. CASE ApplyStep
  <2>1. tx[pos] \in Ops /\ ctx[pos] \in BOOLEAN
    BY <1>5 DEF ApplyStep
  <2>. QED
    BY <1>5, <2>1, ApplyNonNeg DEF ApplyStep, NonNegative
<1>6. CASE Commit
  BY <1>6 DEF Commit, Finish, NonNegative
<1>7. CASE UNCHANGED vars
  BY <1>7 DEF vars, NonNegative
<1>. QED
  BY <1>1, <1>2, <1>3, <1>4, <1>5, <1>6, <1>7 DEF Next

(* No account is ever overdrawn, whatever the constants: reserve and       *)
(* fund-fee-pool do not check the balance in do_evaluate, but              *)
(* adjust_balance does in do_apply, and every failure restores the state  *)
(* the transaction started from.                                           *)
THEOREM BalancesNonNegative == Spec => []NoNegativeBalance
<1>1. Spec => []BalanceInv
  BY InitBalanceInv, NextBalanceInv, PTL DEF Spec
<1>2. BalanceInv => NoNegativeBalance
  BY DEF BalanceInv, NonNegative, NoNegativeBalance
<1>. QED
  BY <1>1, <1>2, PTL

=============================================================================
