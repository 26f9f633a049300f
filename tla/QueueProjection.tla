-------------------------- MODULE QueueProjection --------------------------
(***************************************************************************)
(* The read-only reward-queue projection of the access layer:             *)
(* database_access_layer::get_queue_state_for_account folds one vault's   *)
(* license history into a queue_projection_res, and get_total_cycles sums *)
(* the same history into a total_cycles_res.                              *)
(*                                                                         *)
(* A cycles_res is a record [cycles, dascoin].  The queue_projection_res  *)
(* is flattened into a function from bucket names to cycles_res: the      *)
(* five fields of auto_submit, the tethered and untethered halves of the  *)
(* four manual_submit_res fields, and after_all_upgrades_manual_submit.   *)
(* The history loop is a FoldLeft over the history; each while loop over  *)
(* the remaining upgrade tiers is a FoldLeft over the multipliers from    *)
(* index used to max - 1 (0-based in the code, used+1..max here).         *)
(*                                                                         *)
(* The query reads a committed snapshot, so the state never changes: the  *)
(* variables are the inputs of one query and Next is a stutter.           *)
(***************************************************************************)
EXTENDS Integers, Sequences, SequencesExt, Functions, FiniteSets

CONSTANTS
    LicenseTypes,    \* the license_type_index: known name -> [kind, up_policy]
    RecordChoices,   \* the license history records a vault may hold
    MaxHistory,      \* bound on the length of a license history
    FreqPrecision    \* scale of database::cycles_to_dascoin

VARIABLES
    history,         \* license_information->history
    tethered,        \* account->is_tethered()
    manual_submit    \* license_information->is_manual_submit()

vars == <<history, tethered, manual_submit>>

(* database::cycles_to_dascoin: cycles converted at a frequency lock.     *)
ToDascoin(c, f) == (c * FreqPrecision) \div f

(* cycles_res{c, cycles_to_dascoin(c, f)} and cycles_res::operator+.      *)
CyclesRes(c, f) == [cycles |-> c, dascoin |-> ToDascoin(c, f)]
Plus(x, y) == [cycles |-> x.cycles + y.cycles, dascoin |-> x.dascoin + y.dascoin]
Zero == [cycles |-> 0, dascoin |-> 0]

Buckets ==
    {"total", "charter", "utility", "package", "after_all_upgrades",
     "locked_tethered", "locked_untethered", "next_tethered", "next_untethered",
     "utility_tethered", "utility_untethered", "package_tethered",
     "package_untethered", "after_all_upgrades_manual"}

(* The default-constructed queue_projection_res: every field zero.        *)
EmptyResult == [b \in Buckets |-> Zero]

(* result.<bucket> = result.<bucket> + x                                  *)
Credit(res, b, x) == [res EXCEPT ![b] = Plus(@, x)]

(* The tethered or untethered half of a manual_submit_res field.          *)
Tether(field, t) == field \o (IF t THEN "_tethered" ELSE "_untethered")

(* The upgrade tiers still ahead: multipliers[used .. max-1].             *)
Remaining(r) == SubSeq(r.multipliers, r.used + 1, r.max)

(* The per-tier increment of the president policy: base + base*bonus/100. *)
PresidentStep(r) == r.base_amount + (r.base_amount * r.bonus_percent) \div 100

(* The chartered branch: current tier and sum of the remaining tiers.     *)
ChartedStaleTmp(res, r) ==
    IF r.used < r.max
    THEN LET cur == CyclesRes(r.amount * r.multipliers[r.used + 1], r.frequency_lock)
             all == FoldLeft(LAMBDA a, m : a + r.amount * m, cur.cycles, Remaining(r))
         IN  Credit(Credit(res, "charter", cur), "after_all_upgrades",
                    CyclesRes(all, r.frequency_lock))
    ELSE res
Chartered(res, r) ==
    IF r.used < r.max
    THEN LET cur == CyclesRes(r.amount * r.multipliers[r.used + 1], r.frequency_lock)
             all == FoldLeft(LAMBDA a, m : a + r.amount * m, 0, Remaining(r))
         IN  Credit(Credit(res, "charter", cur), "after_all_upgrades",
                    CyclesRes(all, r.frequency_lock))
    ELSE res

(* The after-all-upgrades loop of the locked_frequency branch.            *)
LockedFinal(r, pres) ==
    FoldLeft(LAMBDA a, m : IF pres THEN a + PresidentStep(r) * m ELSE a * m,
             r.amount, Remaining(r))

(* The locked_frequency branch: current manual amount by tethering, the   *)
(* next-upgrade bucket when exactly one tier remains, and the after-all   *)
(* figure, each with the non-upgradeable amount added.                    *)
LockedFrequency(res, r, t, pres) ==
    LET fl   == r.frequency_lock
        tmp  == CyclesRes(r.amount, fl)
        nu   == CyclesRes(r.non_upgradeable_amount, fl)
        next == IF pres THEN CyclesRes(tmp.cycles + 2 * PresidentStep(r), fl)
                        ELSE Plus(tmp, tmp)
        last == IF r.max > r.used THEN CyclesRes(LockedFinal(r, pres), fl) ELSE tmp
        r1   == Credit(res, Tether("locked", t), Plus(tmp, nu))
        r2   == IF r.max - r.used = 1
                THEN Credit(r1, Tether("next", t), Plus(next, nu))
                ELSE r1
    IN  Credit(r2, "after_all_upgrades_manual", Plus(last, nu))

(* The utility and package branches (identical but for the bucket names): *)
(* auto-submit at the current tier and after all tiers from base_amount,  *)
(* then the manual amount by tethering and into the after-all figure.     *)
AutoAndManual(res, r, t, kind) ==
    LET fl  == r.frequency_lock
        cur == CyclesRes(r.base_amount * r.multipliers[r.used + 1], fl)
        all == FoldLeft(LAMBDA a, m : a + r.base_amount * m, 0, Remaining(r))
        r1  == IF r.used < r.max
               THEN Credit(Credit(res, kind, cur), "after_all_upgrades",
                           CyclesRes(all, fl))
               ELSE res
        man == CyclesRes(r.amount, fl)
    IN  Credit(Credit(r1, Tether(kind, t), man), "after_all_upgrades_manual", man)

(* One iteration of the history loop; an unknown license is skipped.      *)
ProjectRecord(res, r, t) ==
    IF r.license \notin DOMAIN LicenseTypes THEN res
    ELSE LET lic == LicenseTypes[r.license]
         IN  CASE lic.kind = "chartered" -> Chartered(res, r)
               [] lic.kind = "locked_frequency" ->
                      LockedFrequency(res, r, t, lic.up_policy = "president")
               [] lic.kind \in {"utility", "package"} -> AutoAndManual(res, r, t, lic.kind)
               [] OTHER -> res

(* get_queue_state_for_account for a vault with license information.      *)
GetQueueState(h, t) == FoldLeft(LAMBDA res, r : ProjectRecord(res, r, t), EmptyResult, h)

(* queue_projection_res::operator+: fieldwise sum, and the autosubmit_res *)
(* constructor sets total to charter + utility + package.                 *)
Combine(x, y) ==
    LET s == [b \in Buckets |-> Plus(x[b], y[b])]
    IN  [s EXCEPT !["total"] = Plus(Plus(s["charter"], s["utility"]), s["package"])]

(* get_total_cycles: records of other known kinds are skipped.            *)
Counted(r) ==
    r.license \in DOMAIN LicenseTypes =>
        LicenseTypes[r.license].kind \in {"locked_frequency", "utility", "package"}
GetTotalCycles(h) ==
    FoldLeft(LAMBDA acc, r :
                 IF Counted(r)
                 THEN [total_cycles  |-> acc.total_cycles + r.amount + r.non_upgradeable_amount,
                       total_dascoin |-> acc.total_dascoin +
                           ToDascoin(r.amount + r.non_upgradeable_amount, r.frequency_lock)]
                 ELSE acc,
             [total_cycles |-> 0, total_dascoin |-> 0], h)

Init ==
    /\ history \in BoundedSeq(RecordChoices, MaxHistory)
    /\ tethered \in BOOLEAN
    /\ manual_submit \in BOOLEAN

(* The query: it reads the snapshot and changes nothing.                  *)
Query == UNCHANGED vars

Next == Query

Spec == Init /\ [][Next]_vars

-----------------------------------------------------------------------------
(***************************************************************************)
(* A reference definition of the projection, written from spec 4.4 as a   *)
(* sum over records of each record's own contribution, with the tier      *)
(* sums and products in closed form over the tier indices used..max-1.    *)
(***************************************************************************)
Kind(r) == IF r.license \in DOMAIN LicenseTypes THEN LicenseTypes[r.license].kind
           ELSE "unknown"
IsPresident(r) == r.license \in DOMAIN LicenseTypes /\
                  LicenseTypes[r.license].up_policy = "president"
Tiers(r) == r.used .. (r.max - 1)
Mult(r, u) == r.multipliers[u + 1]
SumTiers(r, x) == SumFunctionOnSet([u \in Tiers(r) |-> x * Mult(r, u)], Tiers(r))
ProdTiers(r) == FoldFunctionOnSet(LAMBDA m, p : m * p, 1,
                                  [u \in Tiers(r) |-> Mult(r, u)], Tiers(r))
AutoBase(r) == IF Kind(r) = "chartered" THEN r.amount ELSE r.base_amount
FullyUpgraded(r) == IF IsPresident(r) THEN r.amount + SumTiers(r, PresidentStep(r))
                    ELSE r.amount * ProdTiers(r)

RefContribution(r, t, b) ==
    LET fl   == r.frequency_lock
        auto == Kind(r) \in {"chartered", "utility", "package"} /\ r.used < r.max
        nu   == CyclesRes(r.non_upgradeable_amount, fl)
    IN  CASE auto /\ b = IF Kind(r) = "chartered" THEN "charter" ELSE Kind(r) ->
                 CyclesRes(AutoBase(r) * Mult(r, r.used), fl)
          [] auto /\ b = "after_all_upgrades" -> CyclesRes(SumTiers(r, AutoBase(r)), fl)
          [] Kind(r) = "locked_frequency" /\ b = Tether("locked", t) ->
                 Plus(CyclesRes(r.amount, fl), nu)
          [] Kind(r) = "locked_frequency" /\ b = "after_all_upgrades_manual" ->
                 Plus(CyclesRes(FullyUpgraded(r), fl), nu)
          [] Kind(r) \in {"utility", "package"} /\
             b \in {Tether(Kind(r), t), "after_all_upgrades_manual"} ->
                 CyclesRes(r.amount, fl)
          [] OTHER -> Zero

ReferenceProjection(h, t) ==
    [b \in Buckets |->
        [cycles  |-> SumFunction([i \in DOMAIN h |-> RefContribution(h[i], t, b).cycles]),
         dascoin |-> SumFunction([i \in DOMAIN h |-> RefContribution(h[i], t, b).dascoin])]]

(* The subsequence of h at the positions in S, in their order.            *)
SubHistory(h, S) == [i \in 1 .. Cardinality(S) |-> h[SetToSortSeq(S, <)[i]]]

-----------------------------------------------------------------------------
(* get_queue_state_for_account computes every current and after-all       *)
(* bucket as the spec 4.4 reference does: the per-branch updates of the   *)
(* shared tmp accumulator and the while loops over the remaining tiers    *)
(* add up to each record's own contribution (the next-upgrade buckets and *)
(* total are the subject of separate properties).                         *)
ProjectionMatchesReference ==
    LET q == GetQueueState(history, tethered)
        r == ReferenceProjection(history, tethered)
    IN  \A b \in Buckets \ {"total", "next_tethered", "next_untethered"} : q[b] = r[b]

(* Spec 8, projection additivity: for any split of the history into two   *)
(* parts, the queue_projection_res::operator+ of their projections equals *)
(* the projection of the whole history.                                   *)
ProjectionAdditive ==
    \A S \in SUBSET DOMAIN history :
        Combine(GetQueueState(SubHistory(history, S), tethered),
                GetQueueState(SubHistory(history, DOMAIN history \ S), tethered))
        = GetQueueState(history, tethered)

(* Spec 4.4: when exactly one upgrade tier remains, the next-upgrade       *)
(* (last lock) bucket of a locked_frequency record is what that record    *)
(* holds after the upgrade, i.e. its after-all-upgrades figure.           *)
NextUpgradeIsLastUpgrade ==
    \A i \in DOMAIN history :
        LET r == history[i]
            q == GetQueueState(<<r>>, tethered)
        IN  Kind(r) = "locked_frequency" /\ r.max - r.used = 1 =>
                q[Tether("next", tethered)] = q["after_all_upgrades_manual"]

(* Spec 4.4: a record with an unrecognized license id is skipped, so      *)
(* get_total_cycles of the history equals that of the history without    *)
(* those records.                                                         *)
TotalCyclesSkipsUnknown ==
    manual_submit =>
        GetTotalCycles(history) =
            GetTotalCycles(SelectSeq(history, LAMBDA r : r.license \in DOMAIN LicenseTypes))

=============================================================================
