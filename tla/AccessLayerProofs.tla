--------------------------- MODULE AccessLayerProofs ---------------------------
(***************************************************************************)
(* Proof, for every value of the constants that satisfies the hypotheses  *)
(* below, that lookup_asset_symbol finds every asset by its symbol and by *)
(* its id string, and that check_issued_asset and check_issued_webeur     *)
(* agree with get_issued_asset_record.  It rests on the asset index the   *)
(* writers keep: symbols are distinct (creation refuses a taken one), ids *)
(* are positions that never move (creation appends), and position 2 is  *)
(* the web asset.                                                          *)
(***************************************************************************)
EXTENDS AccessLayer, SequenceTheorems, TLAPS

(* The hypotheses.  Symbols never start with a digit (so a symbol is      *)
(* never read as an id); the query strings spell the id of every position *)
(* the index can reach; the null and error results are not positions;     *)
(* CORE and WEB differ and the index has room for both.                   *)
SymbolsNotDigits == Symbols \cap DigitStrings = {}
IdStringsCover ==
    \A k \in 1 .. MaxAssets :
        \E s \in DigitStrings :
            ParsedId[s] # Malformed /\ ParsedId[s] = [space |-> 1, type |-> 3, instance |-> k - 1]
ResultsNotIds == Null \notin Nat /\ Error \notin Nat
GenesisAssets == CoreSymbol # WebSymbol /\ MaxAssets >= 2

(* The inductive invariant: the index is a sequence of distinct symbols,  *)
(* within its bound, with the web asset at position 2.                    *)
LookupInv ==
    /\ assets \in Seq(Symbols)
    /\ 2 <= Len(assets) /\ Len(assets) <= MaxAssets
    /\ assets[WebAsset] = WebSymbol
    /\ \A j, k \in DOMAIN assets : j # k => assets[j] # assets[k]


LEMMA LookupInvInit ==
    ASSUME GenesisAssets
    PROVE  Init => LookupInv
BY AccessLayerAssumption DEF Init, LookupInv, GenesisAssets, WebAsset

(* Creating an asset appends a symbol that is not in the index.           *)
LEMMA CreateKeepsLookupInv ==
    ASSUME LookupInv, NEW sym \in Symbols, CreateAsset(sym)
    PROVE  LookupInv'
<1>1. assets' = Append(assets, sym)
  BY DEF CreateAsset
<1>2. /\ assets' \in Seq(Symbols) /\ Len(assets') = Len(assets) + 1
      /\ \A x \in 1 .. Len(assets) : assets'[x] = assets[x]
      /\ assets'[Len(assets) + 1] = sym
  BY <1>1, AppendProperties DEF LookupInv
<1>3. \A x \in 1 .. Len(assets) : assets[x] # sym
  BY DEF CreateAsset, LookupInv
<1>4. Len(assets) < MaxAssets /\ Len(assets) \in Nat
  BY DEF CreateAsset, LookupInv
<1>5. \A j, k \in DOMAIN assets' : j # k => assets'[j] # assets'[k]
  BY <1>2, <1>3, <1>4 DEF LookupInv
<1>6. WebAsset \in 1 .. Len(assets) /\ MaxAssets \in Nat
  BY AccessLayerAssumption DEF LookupInv, WebAsset
<1>. QED
  BY <1>2, <1>4, <1>5, <1>6 DEF LookupInv

LEMMA LookupInvInductive ==
    ASSUME GenesisAssets
    PROVE  Spec => []LookupInv
<1>1. LookupInv /\ [Next]_vars => LookupInv'
  <2> SUFFICES ASSUME LookupInv, [Next]_vars PROVE LookupInv'
    OBVIOUS
  <2>1. ASSUME NEW sym \in Symbols, CreateAsset(sym) PROVE LookupInv'
    BY <2>1, CreateKeepsLookupInv
  <2>2. CASE UNCHANGED assets
    BY <2>2 DEF LookupInv, WebAsset
  <2>. QED
    BY <2>1, <2>2 DEF Next, PushBlock, SubmitToQueue, Distribute, RecordIssue,
                      UpdateCycleBalance, vars
<1>. QED
  BY <1>1, LookupInvInit, PTL DEF Spec

(* A symbol is found at the one position that holds it.                    *)
LEMMA SymbolLookup ==
    ASSUME LookupInv, SymbolsNotDigits, NEW k \in DOMAIN assets
    PROVE  GetAssetSymbol(assets[k]) = k
<1>1. assets[k] \in Symbols /\ assets[k] \notin DigitStrings
  BY DEF LookupInv, SymbolsNotDigits
<1>2. \A j \in DOMAIN assets : assets[j] = assets[k] => j = k
  BY DEF LookupInv
<1>3. (CHOOSE j \in DOMAIN assets : assets[j] = assets[k]) = k
  BY <1>2
<1>. QED
  BY <1>1, <1>3 DEF GetAssetSymbol

(* An id string is found at the position it spells.                       *)
LEMMA IdLookup ==
    ASSUME LookupInv, IdStringsCover, ResultsNotIds, NEW k \in DOMAIN assets
    PROVE  GetAssetSymbol(IdString(k)) = k
<1>1. k \in 1 .. MaxAssets
  BY AccessLayerAssumption DEF LookupInv
<1>2. /\ IdString(k) \in DigitStrings
      /\ ParsedId[IdString(k)] # Malformed
      /\ ParsedId[IdString(k)] = [space |-> 1, type |-> 3, instance |-> k - 1]
  BY <1>1 DEF IdStringsCover, IdString
<1>3. AsAssetId(IdString(k)) = k
  BY <1>1, <1>2 DEF AsAssetId
<1>4. k # Error
  BY <1>1 DEF ResultsNotIds
<1>. QED
  BY <1>2, <1>3, <1>4 DEF GetAssetSymbol

(* check_issued_asset on a string the lookup resolves to position k is   *)
(* the record lookup of k.                                                *)
LEMMA CheckResolved ==
    ASSUME ResultsNotIds, NEW s, NEW k \in Nat, GetAssetSymbol(s) = k, NEW uid
    PROVE  CheckIssuedAsset(uid, s) = GetIssuedAssetRecord(uid, k)
<1>1. k # Error /\ k # Null
  BY DEF ResultsNotIds
<1>. QED
  BY <1>1 DEF CheckIssuedAsset, LookupAssetSymbol, GetIssuedAssetRecord

(* lookup_asset_symbol finds every asset both by its symbol and by its    *)
(* id string, check_issued_asset answers the same through either name as  *)
(* get_issued_asset_record, and check_issued_webeur agrees with it on the *)
(* web asset's symbol, in every state of every instance whose symbols do  *)
(* not start with a digit and whose query strings spell each asset id.    *)
THEOREM LookupsAlwaysAgree ==
    ASSUME SymbolsNotDigits, IdStringsCover, ResultsNotIds, GenesisAssets
    PROVE  Spec => []LookupsAgree
<1>1. LookupInv => LookupsAgree
  <2> SUFFICES ASSUME LookupInv PROVE LookupsAgree
    OBVIOUS
  <2>1. ASSUME NEW k \in DOMAIN assets
        PROVE  /\ LookupAssetSymbol(assets[k]) = k
               /\ LookupAssetSymbol(IdString(k)) = k
               /\ \A uid \in UniqueIds :
                      /\ CheckIssuedAsset(uid, assets[k]) = GetIssuedAssetRecord(uid, k)
                      /\ CheckIssuedAsset(uid, IdString(k)) = GetIssuedAssetRecord(uid, k)
    <3>1. GetAssetSymbol(assets[k]) = k /\ GetAssetSymbol(IdString(k)) = k
      BY <2>1, SymbolLookup, IdLookup
    <3>2. k \in Nat
      BY DEF LookupInv
    <3>. QED
      BY <3>1, <3>2, CheckResolved DEF LookupAssetSymbol
  <2>2. ASSUME NEW uid \in UniqueIds
        PROVE  CheckIssuedWebeur(uid) = CheckIssuedAsset(uid, WebSymbol)
    <3>1. WebAsset \in DOMAIN assets /\ assets[WebAsset] = WebSymbol
      BY DEF LookupInv, WebAsset
    <3>2. GetAssetSymbol(WebSymbol) = WebAsset
      BY <3>1, SymbolLookup
    <3>. QED
      BY <3>2, CheckResolved DEF CheckIssuedWebeur, WebAsset
  <2>. QED
    BY <2>1, <2>2 DEF LookupsAgree
<1>. QED
  BY <1>1, LookupInvInductive, PTL

=============================================================================
