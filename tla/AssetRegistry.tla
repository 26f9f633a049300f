--------------------------- MODULE AssetRegistry ---------------------------
(***************************************************************************)
(* The asset index: asset_create_evaluator (symbol uniqueness, the        *)
(* sub-asset prefix rule before and after HARDFORK_409, the rules on a    *)
(* bitasset's backing asset and on prediction markets), the issuer change *)
(* of asset_update_evaluator and the backing-asset change of              *)
(* asset_update_bitasset_evaluator.  The options and flags asset_update   *)
(* also sets are the subject of BitAsset.                                 *)
(*                                                                         *)
(* An asset id is its position in the index minus one: assets[1] is      *)
(* CORE (asset_id_type()), and create appends at get_next_id().  A        *)
(* symbol is a string; PrefixOf gives the part before its last '.', or    *)
(* NoPrefix.  Each operation is one transaction: its evaluate and apply   *)
(* run together (batching is the subject of AssetIssuance).               *)
(***************************************************************************)
EXTENDS Integers, Sequences, FiniteSets

CONSTANTS
    Accounts,          \* issuers
    Committee,         \* GRAPHENE_COMMITTEE_ACCOUNT
    WebassetIssuer,    \* get_chain_authorities().webasset_issuer
    Symbols,           \* symbols an operation may name
    CoreSymbol,        \* the symbol of CORE
    PrefixOf,          \* symbol -> the part before its last '.', or NoPrefix
    NoPrefix,
    Precisions,
    BeforeHF409,       \* head_block_time() <= HARDFORK_409_TIME
    MaxAssets          \* bound on the size of the asset index

NoBitasset == 0        \* op.bitasset_opts not set

ASSUME RegistryAssumption ==
    /\ Committee \in Accounts /\ WebassetIssuer \in Accounts
    /\ PrefixOf \in [Symbols -> Symbols \cup {NoPrefix}]
    /\ CoreSymbol \in Symbols /\ PrefixOf[CoreSymbol] = NoPrefix
    /\ BeforeHF409 \in BOOLEAN
    /\ MaxAssets \in Nat \ {0}

VARIABLES
    assets,    \* the asset_index: id+1 -> [symbol, issuer, precision, backing, prediction]
    supplied   \* assets whose current_supply is not zero

vars == <<assets, supplied>>

AssetIds == 1 .. Len(assets)
IsMarketIssued(x) == assets[x].backing # NoBitasset
SymbolRegistered(sym) == \E x \in AssetIds : assets[x].symbol = sym
BySymbol(sym) == CHOOSE x \in AssetIds : assets[x].symbol = sym

CreateOps ==
    [issuer : Accounts, symbol : Symbols, precision : Precisions,
     backing : {NoBitasset} \cup AssetIds, prediction : BOOLEAN]

(* The sub-asset rule: before HARDFORK_409 the lookup is of op.symbol,    *)
(* which line 63 has just found absent; after it, of the prefix.          *)
PrefixRuleOK(op) ==
    PrefixOf[op.symbol] # NoPrefix =>
        IF BeforeHF409
        THEN SymbolRegistered(op.symbol) /\ assets[BySymbol(op.symbol)].issuer = op.issuer
        ELSE SymbolRegistered(PrefixOf[op.symbol]) /\
             assets[BySymbol(PrefixOf[op.symbol])].issuer = op.issuer

(* A committee-issued market asset must be backed by CORE (id 1 here).    *)
CommitteeBackedByCore(issuer, backingId) == issuer # Committee \/ backingId = 1

(* The bitasset_opts rules: no bitasset backed by a bitasset backed by a  *)
(* bitasset, and the committee rule on the backing (or its backing).      *)
BackingRuleOK(op) ==
    op.backing # NoBitasset =>
        IF IsMarketIssued(op.backing)
        THEN /\ ~IsMarketIssued(assets[op.backing].backing)
             /\ CommitteeBackedByCore(op.issuer, assets[op.backing].backing)
        ELSE CommitteeBackedByCore(op.issuer, op.backing)

(* Mutant: the lookup of op.symbol in the symbol index is dropped.        *)
AssetCreateEvaluateNoUnique(op) ==
    /\ op.issuer = WebassetIssuer
    /\ PrefixRuleOK(op)
    /\ BackingRuleOK(op)
    /\ op.prediction => op.backing # NoBitasset /\
                        op.precision = assets[op.backing].precision

(* Mutant: the chain-authority check of the issuer is dropped.           *)
AssetCreateEvaluateAnyIssuer(op) ==
    /\ ~SymbolRegistered(op.symbol)
    /\ PrefixRuleOK(op)
    /\ BackingRuleOK(op)
    /\ op.prediction => op.backing # NoBitasset /\
                        op.precision = assets[op.backing].precision

(* asset_create_evaluator::do_evaluate                                    *)
AssetCreateEvaluate(op) ==
    /\ op.issuer = WebassetIssuer
    /\ ~SymbolRegistered(op.symbol)
    /\ PrefixRuleOK(op)
    /\ BackingRuleOK(op)
    /\ op.prediction => op.backing # NoBitasset /\
                        op.precision = assets[op.backing].precision

(* asset_create_evaluator::do_apply: the dynamic data (supply 0), the     *)
(* bitasset data and the asset object at get_next_id().                   *)
AssetCreate(op) ==
    /\ Len(assets) < MaxAssets
    /\ AssetCreateEvaluate(op)
    /\ assets' = Append(assets, [symbol |-> op.symbol, issuer |-> op.issuer,
                                 precision |-> op.precision, backing |-> op.backing,
                                 prediction |-> op.prediction])
    /\ UNCHANGED supplied

(* A create whose evaluate throws: the transaction is rejected and the    *)
(* index is left as it was.  Stated as "not every create passes" so that  *)
(* all the rejected operations of a state make one step, not one each.    *)
AssetCreateRejected ==
    /\ ~(\A op \in CreateOps : AssetCreateEvaluate(op))
    /\ UNCHANGED vars

(* asset_update_bitasset_evaluator::do_evaluate, the backing-asset part:  *)
(* the committee rule is checked against the current backing.             *)
UpdateBackingEvaluate(issuer, x, nb) ==
    /\ IsMarketIssued(x)
    /\ nb # assets[x].backing =>
           /\ x \notin supplied
           /\ nb \in AssetIds
           /\ LET b == assets[x].backing
              IN  assets[x].issuer = Committee =>
                      IF IsMarketIssued(b) THEN assets[b].backing = 1 ELSE b = 1
    /\ issuer = assets[x].issuer

(* asset_update_bitasset_evaluator::do_apply: b.options = new_options.    *)
UpdateBacking(issuer, x, nb) ==
    /\ UpdateBackingEvaluate(issuer, x, nb)
    /\ assets' = [assets EXCEPT ![x].backing = nb]
    /\ UNCHANGED supplied

(* asset_update_evaluator::do_evaluate, the new_issuer part: the operation *)
(* names the current issuer, and a market asset handed to the committee   *)
(* must be backed by CORE or by a bitasset backed by CORE.  A rejected    *)
(* update, or one without new_issuer, leaves the index as it was.         *)
AssetUpdateEvaluate(issuer, x, ni) ==
    /\ IsMarketIssued(x) =>
           LET b == assets[x].backing
           IN  IF IsMarketIssued(b) THEN CommitteeBackedByCore(ni, assets[b].backing)
               ELSE CommitteeBackedByCore(ni, b)
    /\ issuer = assets[x].issuer

(* asset_update_evaluator::do_apply: a.issuer = *o.new_issuer.            *)
AssetUpdate(issuer, x, ni) ==
    /\ AssetUpdateEvaluate(issuer, x, ni)
    /\ assets' = [assets EXCEPT ![x].issuer = ni]
    /\ UNCHANGED supplied

(* A position is opened and the market asset's current_supply becomes   *)
(* positive.                                                              *)
OpenPosition(x) ==
    /\ IsMarketIssued(x) /\ x \notin supplied
    /\ supplied' = supplied \cup {x}
    /\ UNCHANGED assets

(* The genesis index holds CORE, issued by the committee.                 *)
Init ==
    /\ \E p \in Precisions :
           assets = << [symbol |-> CoreSymbol, issuer |-> Committee, precision |-> p,
                        backing |-> NoBitasset, prediction |-> FALSE] >>
    /\ supplied = {}

Next ==
    \/ \E op \in CreateOps : AssetCreate(op)
    \/ AssetCreateRejected
    \/ \E i \in Accounts, x \in AssetIds, ni \in Accounts : AssetUpdate(i, x, ni)
    \/ \E i \in Accounts, x \in AssetIds, nb \in AssetIds : UpdateBacking(i, x, nb)
    \/ \E x \in AssetIds : OpenPosition(x)

Spec == Init /\ [][Next]_vars

-----------------------------------------------------------------------------
(* The backing chain of asset x in index a reaches a non-market asset     *)
(* within two steps: x is not a bitasset backed by a bitasset backed by a *)
(* bitasset.                                                              *)
DepthAtMostTwo(a, x) ==
    LET b == a[x].backing
    IN  b # NoBitasset => a[b].backing = NoBitasset \/ a[a[b].backing].backing = NoBitasset

(* The symbol index is unique: after any sequence of creates no two       *)
(* assets share a symbol, so lookup_asset_symbol finds at most one.       *)
SymbolsUnique ==
    \A x, y \in AssetIds : x # y => assets[x].symbol # assets[y].symbol

(* The rule asset_create_evaluator asserts ("May not create a bitasset    *)
(* backed by a bitasset backed by a bitasset") holds of every asset in    *)
(* the index, whatever asset_update_bitasset did to backing assets later. *)
BackingDepthAtMostTwo ==
    \A x \in AssetIds : DepthAtMostTwo(assets, x)

(* The error text of lines 72 and 85: a sub-asset may be created by the   *)
(* issuer of its registered prefix.  Stated as: whenever the prefix of an *)
(* unregistered symbol is registered by the webasset issuer, creating the *)
(* plain (non-market) sub-asset passes evaluate.                          *)
SubAssetCreatableByPrefixIssuer ==
    \A sym \in Symbols, p \in Precisions :
        /\ ~SymbolRegistered(sym)
        /\ PrefixOf[sym] # NoPrefix
        /\ SymbolRegistered(PrefixOf[sym])
        /\ assets[BySymbol(PrefixOf[sym])].issuer = WebassetIssuer
        => AssetCreateEvaluate([issuer |-> WebassetIssuer, symbol |-> sym, precision |-> p,
                                backing |-> NoBitasset, prediction |-> FALSE])


(* The asset index read through the fields AssetDirectory promises.       *)
DirectoryOf(a) ==
    [x \in 1 .. Len(a) |-> [symbol |-> a[x].symbol, issuer |-> a[x].issuer,
                            precision |-> a[x].precision]]

Directory == INSTANCE AssetDirectory WITH directory <- DirectoryOf(assets)

(* The asset index implements AssetDirectory: asset_create_evaluator       *)
(* appends, under get_next_id(), an asset of the webasset issuer whose     *)
(* symbol the by_symbol lookup did not find; asset_update changes an      *)
(* asset's issuer and nothing else the directory holds; and nothing else  *)
(* (rejected creates, backing changes, positions) moves an id or changes  *)
(* its symbol, issuer or precision.                                        *)
ImplementsDirectory == Directory!Spec

=============================================================================
