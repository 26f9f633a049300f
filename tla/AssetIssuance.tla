---------------------------- MODULE AssetIssuance ----------------------------
(***************************************************************************)
(* The supply side of the asset subsystem of asset_evaluator.cpp: direct   *)
(* issue, reserve (burn), fee-pool funding, fee claiming, the idempotent  *)
(* issue request, and the denial of a pending issue request object, run   *)
(* by the transaction driver of spec 4.2:                                  *)
(* the fee is deducted, every operation of the transaction is evaluated    *)
(* against the state the transaction started from, then every operation   *)
(* is applied in order, and a failure anywhere restores the state the      *)
(* transaction started from.                                               *)
(*                                                                         *)
(* The store (database::adjust_balance, issue_asset, the undo session)     *)
(* and the driver are not in the repository's sources: they are modelled  *)
(* from the spec.  Every evaluate/apply pair is modelled from the code.    *)
(***************************************************************************)
EXTENDS Integers, Sequences, FiniteSets, Functions

CONSTANTS
    Accounts,          \* account ids
    Assets,            \* asset ids
    CoreAsset,         \* asset_id_type(): the asset fee pools are funded in
    MarketIssued,      \* assets with bitasset data (is_market_issued)
    DualAuth,          \* assets with an authenticator (is_dual_auth_issue)
    Authenticator,     \* asset -> its authenticator account
    Committee,         \* GRAPHENE_COMMITTEE_ACCOUNT, issuer of the core asset
    Issuer,            \* asset -> issuer account
    MaxSupply,         \* asset -> options.max_supply
    WebassetIssuer,    \* chain_authorities.webasset_issuer
    DascoinAsset,      \* get_dascoin_asset_id()
    CycleAsset,        \* get_cycle_asset_id()
    AccountKind,       \* account -> "wallet" | "vault" | "custodian"
    Unauthorized,      \* <<account, asset>> pairs is_authorized_asset rejects
    UniqueIds,         \* unique_id values of issue requests
    RequestIds,        \* ids of issue_asset_request_objects in the store
    RequestAsset,      \* request id -> its asset_id
    WebAsset,          \* get_web_asset_id()
    MintingDeprecated, \* head_block_time() >= HARDFORK_BLC_340_DEPRECATE_MINTING_TIME
    Amounts,           \* positive amounts an operation may carry
    ReservedAmounts,   \* reserved_amount values of issue requests
    OpChoices,         \* the operations clients submit (a subset of Ops)
    GenesisCore,       \* core balance every account starts with
    MaxOps             \* bound on the operations of one transaction

ASSUME AssetsAssumption ==
    /\ CoreAsset \in Assets
    /\ MarketIssued \subseteq Assets
    /\ DualAuth \subseteq Assets
    /\ Authenticator \in [DualAuth -> Accounts]
    /\ IsFiniteSet(Accounts)
    /\ Issuer \in [Assets -> Accounts \cup {Committee}]
    /\ MaxSupply \in [Assets -> Nat]
    /\ AccountKind \in [Accounts -> {"wallet", "vault", "custodian"}]
    /\ Unauthorized \subseteq Accounts \X Assets
    /\ RequestAsset \in [RequestIds -> Assets]
    /\ MintingDeprecated \in BOOLEAN

ASSUME AmountsAssumption ==
    /\ Amounts \subseteq Nat \ {0}
    /\ ReservedAmounts \subseteq Nat
    /\ GenesisCore \in Nat
    /\ MaxOps \in Nat \ {0}

(***************************************************************************)
(* The operations, one record set per operation type of operations.hpp.    *)
(* `who` is the field the evaluator checks and the fee payer (issuer,      *)
(* payer, from_account, authenticator); `fee` is the operation's fee, in   *)
(* `fee_asset`.  A deny names an issue_asset_request_object by its id.    *)
(***************************************************************************)
IssueOps   == [type : {"asset_issue"}, who : Accounts, asset : Assets,
               amount : Amounts, to : Accounts, fee : Nat, fee_asset : Assets]
ReserveOps == [type : {"asset_reserve"}, who : Accounts, asset : Assets,
               amount : Amounts, fee : Nat, fee_asset : Assets]
FundOps    == [type : {"asset_fund_fee_pool"}, who : Accounts, asset : Assets,
               amount : Amounts, fee : Nat, fee_asset : Assets]
ClaimOps   == [type : {"asset_claim_fees"}, who : Accounts, asset : Assets,
               amount : Amounts, fee : Nat, fee_asset : Assets]
RequestOps == [type : {"asset_create_issue_request"}, who : Accounts,
               asset : Assets, amount : Amounts, to : Accounts,
               uid : UniqueIds, reserved : ReservedAmounts,
               fee : Nat, fee_asset : Assets]
DenyOps    == [type : {"asset_deny_issue_request"}, who : Accounts,
               request : RequestIds, fee : Nat, fee_asset : Assets]
Ops == IssueOps \cup ReserveOps \cup FundOps \cup ClaimOps \cup RequestOps \cup DenyOps

ASSUME OpChoicesAssumption == OpChoices \subseteq Ops

(***************************************************************************)
(* The store: balances (cash and reserved) and the number of balance       *)
(* objects per account and asset, each asset's dynamic data, the number   *)
(* of issued-asset records per (unique_id, asset) key, and the ids of the  *)
(* issue_asset_request_objects still in the store.  Nothing under src/    *)
(* creates a request object (create_issue_request writes an issued-asset  *)
(* record directly); the ones there are left from the earlier protocol.   *)
(***************************************************************************)
DbType ==
    [balance          : [Accounts -> [Assets -> Int]],
     reserved         : [Accounts -> [Assets -> Int]],
     balanceObjects   : [Accounts -> [Assets -> {0, 1}]],
     current_supply   : [Assets -> Int],
     fee_pool         : [Assets -> Int],
     accumulated_fees : [Assets -> Int],
     issued           : [UniqueIds \X Assets -> Nat],
     issue_requests   : SUBSET RequestIds]

VARIABLES
    db,       \* the object store
    snap,     \* the store when the running transaction started (undo session)
    phase,    \* "idle" | "fee" | "evaluate" | "apply"
    tx,       \* the operations of the running transaction
    pos,      \* the operation the driver is at
    ctx,      \* what evaluate handed to apply, one entry per operation
    outcome   \* "none" | "applied" | "rejected" | "apply_failed"

vars == <<db, snap, phase, tx, pos, ctx, outcome>>

-----------------------------------------------------------------------------
(* database::adjust_balance: a debit needs the funds, a credit of a missing *)
(* balance creates the balance object.                                     *)
CanAdjust(s, p, a, delta) == s.balance[p][a] + delta >= 0

AdjustBalance(s, p, a, delta, rdelta) ==
    [s EXCEPT !.balance[p][a] = @ + delta,
              !.reserved[p][a] = @ + rdelta,
              !.balanceObjects[p][a] =
                  IF @ = 0 /\ (delta # 0 \/ rdelta # 0) THEN 1 ELSE @]

(* is_authorized_asset: the asset's white/black lists admit the account.   *)
IsAuthorizedAsset(p, a) == <<p, a>> \notin Unauthorized

(* Mutant: the max-supply check forgets the amount being issued.           *)
IssueEvaluateNoAmount(op, s) ==
    /\ op.asset \notin DualAuth
    /\ op.who = Issuer[op.asset]
    /\ op.asset \notin MarketIssued
    /\ IsAuthorizedAsset(op.to, op.asset)
    /\ s.current_supply[op.asset] <= MaxSupply[op.asset]

(* asset_issue_evaluator::do_evaluate.                                     *)
IssueEvaluate(op, s) ==
    /\ op.asset \notin DualAuth
    /\ op.who = Issuer[op.asset]
    /\ op.asset \notin MarketIssued
    /\ IsAuthorizedAsset(op.to, op.asset)
    /\ s.current_supply[op.asset] + op.amount <= MaxSupply[op.asset]

(* asset_issue_evaluator::do_apply.                                        *)
IssueApply(op, s) ==
    LET s1 == AdjustBalance(s, op.to, op.asset, op.amount, 0)
    IN  [s1 EXCEPT !.current_supply[op.asset] = @ + op.amount]

(* asset_reserve_evaluator::do_evaluate: no check of the payer's balance.  *)
ReserveEvaluate(op, s) ==
    /\ op.asset \notin MarketIssued
    /\ IsAuthorizedAsset(op.who, op.asset)
    /\ s.current_supply[op.asset] - op.amount >= 0

(* Mutant: do_apply takes the balance without asserting it is there.      *)
ReserveApplyOKUnchecked(op, s) == TRUE

(* asset_reserve_evaluator::do_apply.                                      *)
ReserveApplyOK(op, s) == CanAdjust(s, op.who, op.asset, -op.amount)

(* Mutant: the reserved amount leaves the balance but not the supply.     *)
ReserveApplyKeepSupply(op, s) ==
    AdjustBalance(s, op.who, op.asset, -op.amount, 0)

ReserveApply(op, s) ==
    LET s1 == AdjustBalance(s, op.who, op.asset, -op.amount, 0)
    IN  [s1 EXCEPT !.current_supply[op.asset] = @ - op.amount]

(* asset_fund_fee_pool_evaluator::do_evaluate only looks the asset up.    *)
FundFeePoolEvaluate(op, s) == TRUE

(* asset_fund_fee_pool_evaluator::do_apply: the amount is in the core      *)
(* asset.                                                                  *)
FundFeePoolApplyOK(op, s) == CanAdjust(s, op.who, CoreAsset, -op.amount)

FundFeePoolApply(op, s) ==
    LET s1 == AdjustBalance(s, op.who, CoreAsset, -op.amount, 0)
    IN  [s1 EXCEPT !.fee_pool[op.asset] = @ + op.amount]

(* asset_claim_fees_evaluator: the amount is checked in do_apply.          *)
ClaimFeesEvaluate(op, s) == Issuer[op.asset] = op.who

ClaimFeesApplyOK(op, s) == op.amount <= s.accumulated_fees[op.asset]

ClaimFeesApply(op, s) ==
    LET s1 == [s EXCEPT !.accumulated_fees[op.asset] = @ - op.amount]
    IN  AdjustBalance(s1, op.who, op.asset, op.amount, 0)

(* Mutant: the unique-id lookup of do_evaluate is missing.                *)
CreateIssueRequestEvaluateNoUid(op, s) ==
    /\ MintingDeprecated => op.asset # WebAsset
    /\ op.asset # DascoinAsset
    /\ op.asset # CycleAsset \/ AccountKind[op.to] \in {"wallet", "custodian"}
    /\ op.who = WebassetIssuer
    /\ op.asset \notin MarketIssued
    /\ IsAuthorizedAsset(op.to, op.asset)
    /\ s.current_supply[op.asset] + op.amount <= MaxSupply[op.asset]

(* asset_create_issue_request_evaluator::do_evaluate.  The BLC_122 skip of *)
(* three production unique_ids is left out with the ids themselves.       *)
CreateIssueRequestEvaluate(op, s) ==
    /\ MintingDeprecated => op.asset # WebAsset
    /\ op.asset # DascoinAsset
    /\ op.asset # CycleAsset \/ AccountKind[op.to] \in {"wallet", "custodian"}
    /\ op.who = WebassetIssuer
    /\ op.asset \notin MarketIssued
    /\ IsAuthorizedAsset(op.to, op.asset)
    /\ s.current_supply[op.asset] + op.amount <= MaxSupply[op.asset]
    /\ s.issued[<<op.uid, op.asset>>] = 0

(* _create_new_balance_object, computed by do_evaluate, used by do_apply.  *)
CreateNewBalanceObject(op, s) == s.balanceObjects[op.to][op.asset] = 0

(* create_empty_balance fails when the flag do_evaluate computed is stale: *)
(* the store keeps one balance object per (owner, asset).                 *)
CreateIssueRequestApplyOK(op, c, s) ==
    c => s.balanceObjects[op.to][op.asset] = 0

(* Mutant: create_empty_balance is called whatever the flag says.        *)
CreateIssueRequestApplyAlwaysCreate(op, c, s) ==
    LET s1 == [s EXCEPT !.balanceObjects[op.to][op.asset] = @ + 1]
        s2 == AdjustBalance(s1, op.to, op.asset, op.amount, op.reserved)
    IN  [s2 EXCEPT !.current_supply[op.asset] = @ + op.amount,
                   !.issued[<<op.uid, op.asset>>] = @ + 1]

(* asset_create_issue_request_evaluator::do_apply: create_empty_balance,  *)
(* issue_asset (cash into the balance and the supply, reserved beside),   *)
(* then the issued_asset_record_object.                                   *)
CreateIssueRequestApply(op, c, s) ==
    LET s1 == IF c THEN [s EXCEPT !.balanceObjects[op.to][op.asset] = @ + 1]
              ELSE s
        s2 == AdjustBalance(s1, op.to, op.asset, op.amount, op.reserved)
    IN  [s2 EXCEPT !.current_supply[op.asset] = @ + op.amount,
                   !.issued[<<op.uid, op.asset>>] = @ + 1]

(* asset_deny_issue_request_evaluator::do_evaluate: o.request(d) finds the *)
(* request object, its asset has an authenticator and the operation's     *)
(* authenticator is it; req_obj_ keeps a pointer to it for do_apply.      *)
DenyIssueRequestEvaluate(op, s) ==
    /\ op.request \in s.issue_requests
    /\ RequestAsset[op.request] \in DualAuth
    /\ op.who = Authenticator[RequestAsset[op.request]]

(* do_apply removes *req_obj_.  When an earlier operation of the batch    *)
(* has removed that object, the pointer dangles and the removal is        *)
(* undefined; the model takes it as an apply failure.                     *)
DenyIssueRequestApplyOK(op, s) == op.request \in s.issue_requests

(* Only the request object goes: issued records and balances stay.        *)
DenyIssueRequestApply(op, s) ==
    [s EXCEPT !.issue_requests = @ \ {op.request}]

-----------------------------------------------------------------------------
(* Dispatch on the operation type, as the evaluator registry does.         *)
Evaluate(op, s) ==
    CASE op.type = "asset_issue"                -> IssueEvaluate(op, s)
      [] op.type = "asset_reserve"              -> ReserveEvaluate(op, s)
      [] op.type = "asset_fund_fee_pool"        -> FundFeePoolEvaluate(op, s)
      [] op.type = "asset_claim_fees"           -> ClaimFeesEvaluate(op, s)
      [] op.type = "asset_create_issue_request" -> CreateIssueRequestEvaluate(op, s)
      [] op.type = "asset_deny_issue_request"   -> DenyIssueRequestEvaluate(op, s)

EvaluateContext(op, s) ==
    op.type = "asset_create_issue_request" /\ CreateNewBalanceObject(op, s)

ApplyOK(op, c, s) ==
    CASE op.type = "asset_reserve"       -> ReserveApplyOK(op, s)
      [] op.type = "asset_fund_fee_pool" -> FundFeePoolApplyOK(op, s)
      [] op.type = "asset_claim_fees"    -> ClaimFeesApplyOK(op, s)
      [] op.type = "asset_create_issue_request" ->
                                            CreateIssueRequestApplyOK(op, c, s)
      [] op.type = "asset_deny_issue_request" -> DenyIssueRequestApplyOK(op, s)
      [] OTHER                           -> TRUE

Apply(op, c, s) ==
    CASE op.type = "asset_issue"         -> IssueApply(op, s)
      [] op.type = "asset_reserve"       -> ReserveApply(op, s)
      [] op.type = "asset_fund_fee_pool" -> FundFeePoolApply(op, s)
      [] op.type = "asset_claim_fees"    -> ClaimFeesApply(op, s)
      [] op.type = "asset_create_issue_request" -> CreateIssueRequestApply(op, c, s)
      [] op.type = "asset_deny_issue_request"   -> DenyIssueRequestApply(op, s)

-----------------------------------------------------------------------------
(* Genesis: every account holds GenesisCore of the core asset.             *)
InitDb ==
    [balance          |-> [p \in Accounts |-> [a \in Assets |->
                              IF a = CoreAsset THEN GenesisCore ELSE 0]],
     reserved         |-> [p \in Accounts |-> [a \in Assets |-> 0]],
     balanceObjects   |-> [p \in Accounts |-> [a \in Assets |->
                              IF a = CoreAsset /\ GenesisCore > 0 THEN 1 ELSE 0]],
     current_supply   |-> [a \in Assets |->
                              IF a = CoreAsset THEN Cardinality(Accounts) * GenesisCore
                              ELSE 0],
     fee_pool         |-> [a \in Assets |-> 0],
     accumulated_fees |-> [a \in Assets |-> 0],
     issued           |-> [k \in UniqueIds \X Assets |-> 0],
     issue_requests   |-> RequestIds]

Init ==
    /\ db = InitDb
    /\ snap = InitDb
    /\ phase = "idle"
    /\ tx = <<>>
    /\ pos = 1
    /\ ctx = <<>>
    /\ outcome = "none"

(* The driver forgets a finished transaction: the store becomes the state *)
(* later transactions start from.                                          *)
Finish(result) ==
    /\ phase' = "idle"
    /\ outcome' = result
    /\ snap' = db'
    /\ tx' = <<>>
    /\ pos' = 1
    /\ ctx' = <<>>

(* A transaction arrives (driver steps 1-2 are outside the model).        *)
Submit(t) ==
    /\ phase = "idle"
    /\ snap' = db
    /\ tx' = t
    /\ phase' = "fee"
    /\ UNCHANGED <<db, pos, ctx, outcome>>

(* Driver step 3: the fee of the next operation is deducted from its payer *)
(* into the fee asset's accumulated fees ...                               *)
PayFee(s, op) ==
    [AdjustBalance(s, op.who, op.fee_asset, -op.fee, 0)
        EXCEPT !.accumulated_fees[op.fee_asset] = @ + op.fee]

PayFeeOK ==
    /\ phase = "fee"
    /\ pos <= Len(tx)
    /\ CanAdjust(db, tx[pos].who, tx[pos].fee_asset, -tx[pos].fee)
    /\ db' = PayFee(db, tx[pos])
    /\ pos' = pos + 1
    /\ UNCHANGED <<snap, phase, tx, ctx, outcome>>

(* ... or the payer cannot pay and the transaction is rejected.            *)
PayFeeFail ==
    /\ phase = "fee"
    /\ pos <= Len(tx)
    /\ ~CanAdjust(db, tx[pos].who, tx[pos].fee_asset, -tx[pos].fee)
    /\ db' = snap
    /\ Finish("rejected")

StartEvaluate ==
    /\ phase = "fee"
    /\ pos > Len(tx)
    /\ phase' = "evaluate"
    /\ pos' = 1
    /\ UNCHANGED <<db, snap, tx, ctx, outcome>>

(* Driver step 4: the next operation evaluates successfully.               *)
EvaluateOK ==
    /\ phase = "evaluate"
    /\ pos <= Len(tx)
    /\ Evaluate(tx[pos], db)
    /\ ctx' = Append(ctx, EvaluateContext(tx[pos], db))
    /\ pos' = pos + 1
    /\ UNCHANGED <<db, snap, phase, tx, outcome>>

(* ... or it fails, and the whole transaction is rejected.                 *)
EvaluateFail ==
    /\ phase = "evaluate"
    /\ pos <= Len(tx)
    /\ ~Evaluate(tx[pos], db)
    /\ db' = snap
    /\ Finish("rejected")

(* Every operation evaluated: driver step 5 begins.                        *)
StartApply ==
    /\ phase = "evaluate"
    /\ pos > Len(tx)
    /\ phase' = "apply"
    /\ pos' = 1
    /\ UNCHANGED <<db, snap, tx, ctx, outcome>>

(* The next operation applies ...                                          *)
ApplyStep ==
    /\ phase = "apply"
    /\ pos <= Len(tx)
    /\ ApplyOK(tx[pos], ctx[pos], db)
    /\ db' = Apply(tx[pos], ctx[pos], db)
    /\ pos' = pos + 1
    /\ UNCHANGED <<snap, phase, tx, ctx, outcome>>

(* ... or fails after evaluate succeeded: the transaction is undone.       *)
ApplyFail ==
    /\ phase = "apply"
    /\ pos <= Len(tx)
    /\ ~ApplyOK(tx[pos], ctx[pos], db)
    /\ db' = snap
    /\ Finish("apply_failed")

(* Driver step 6.                                                          *)
Commit ==
    /\ phase = "apply"
    /\ pos > Len(tx)
    /\ UNCHANGED db
    /\ Finish("applied")

Transactions == UNION {[1..n -> OpChoices] : n \in 1..MaxOps}

Next ==
    \/ \E t \in Transactions : Submit(t)
    \/ PayFeeOK \/ PayFeeFail \/ StartEvaluate
    \/ EvaluateOK \/ EvaluateFail \/ StartApply
    \/ ApplyStep \/ ApplyFail \/ Commit

Spec == Init /\ [][Next]_vars

-----------------------------------------------------------------------------
TypeOK ==
    /\ db \in DbType
    /\ snap \in DbType
    /\ phase \in {"idle", "fee", "evaluate", "apply"}
    /\ tx \in Seq(Ops)
    /\ pos \in Nat \ {0}
    /\ ctx \in Seq(BOOLEAN)
    /\ outcome \in {"none", "applied", "rejected", "apply_failed"}

(* Supply conservation (verify_asset_supplies): the current supply of an   *)
(* asset is what the accounts hold in cash plus the fees accumulated in    *)
(* it, plus, for the core asset, what the fee pools hold.  Reserved        *)
(* balances are outside the supply.  It must survive every interleaving of *)
(* fee deduction, partial application and undo.                            *)
SupplyConservation ==
    \A a \in Assets :
        db.current_supply[a] =
            SumFunction([p \in Accounts |-> db.balance[p][a]])
            + db.accumulated_fees[a]
            + (IF a = CoreAsset THEN SumFunction(db.fee_pool) ELSE 0)

(* No account is ever overdrawn, although reserve and fund-fee-pool never  *)
(* check the payer's balance in do_evaluate.                               *)
NoNegativeBalance ==
    \A p \in Accounts, a \in Assets : db.balance[p][a] >= 0

(* The supply of an asset never exceeds its max_supply (spec 8).           *)
SupplyWithinMax ==
    \A a \in Assets : db.current_supply[a] <= MaxSupply[a]

(* Idempotent issuance (spec 8): at most one issued-asset record per       *)
(* (unique_id, asset), so a replayed request never issues twice.           *)
IdempotentIssuance ==
    \A k \in UniqueIds \X Assets : db.issued[k] <= 1

(* Spec 7: an apply-phase failure after every evaluate succeeded must      *)
(* never happen under correct evaluators.                                  *)
ApplyInfallible == outcome # "apply_failed"

=============================================================================
