------------------------- MODULE AssetRegistryProofs -------------------------
(***************************************************************************)
(* Proofs, for every value of the constants, that the asset index never   *)
(* holds two assets with one symbol (asset_create_evaluator appends only  *)
(* a symbol its lookup in the symbol index did not find, and asset_update *)
(* and asset_update_bitasset rewrite one other field of one asset), and   *)
(* that the index implements the abstract AssetDirectory.                 *)
(***************************************************************************)
EXTENDS AssetRegistry, SequenceTheorems, TLAPS

(* An entry of the asset index.                                           *)
AssetRec ==
    [symbol : Symbols, issuer : Accounts, precision : Precisions,
     backing : Nat, prediction : BOOLEAN]

(* The inductive invariant: the index is a sequence of typed entries      *)
(* whose symbols are pairwise distinct.                                   *)
IInv ==
    /\ assets \in Seq(AssetRec)
    /\ SymbolsUnique

(* Creating an asset keeps the symbols distinct.                          *)
LEMMA CreateKeepsInv ==
    ASSUME IInv, NEW op \in CreateOps, AssetCreate(op)
    PROVE  IInv'
<1> DEFINE r == [symbol |-> op.symbol, issuer |-> op.issuer, precision |-> op.precision,
                 backing |-> op.backing, prediction |-> op.prediction]
<1>1. assets' = Append(assets, r)
  BY DEF AssetCreate
<1>2. r \in AssetRec
  BY DEF CreateOps, AssetRec, AssetIds, NoBitasset, IInv
<1>3. assets' \in Seq(AssetRec) /\ Len(assets') = Len(assets) + 1
  BY <1>1, <1>2, AppendProperties DEF IInv
<1>4. \A x \in 1 .. Len(assets) : assets'[x] = assets[x]
  BY <1>1, <1>2, AppendProperties DEF IInv
<1>5. assets'[Len(assets) + 1] = r
  BY <1>1, <1>2, AppendProperties DEF IInv
<1>6. \A x \in 1 .. Len(assets) : assets[x].symbol # op.symbol
  BY DEF AssetCreate, AssetCreateEvaluate, SymbolRegistered, AssetIds
<1>7. SymbolsUnique'
  <2> SUFFICES ASSUME NEW x \in 1 .. Len(assets'), NEW y \in 1 .. Len(assets'), x # y
               PROVE  assets'[x].symbol # assets'[y].symbol
    BY DEF SymbolsUnique, AssetIds
  <2>1. CASE x <= Len(assets) /\ y <= Len(assets)
    BY <2>1, <1>3, <1>4 DEF IInv, SymbolsUnique, AssetIds
  <2>2. CASE x = Len(assets) + 1
    BY <2>2, <1>3, <1>4, <1>5, <1>6
  <2>3. CASE y = Len(assets) + 1
    BY <2>3, <1>3, <1>4, <1>5, <1>6
  <2>4. QED
    BY <2>1, <2>2, <2>3, <1>3
<1>8. QED
  BY <1>3, <1>7 DEF IInv

(* What the backing change of asset_update_bitasset does to the index:   *)
(* the same length and types, the new backing on x, every other asset and *)
(* every symbol where it was.                                             *)
LEMMA UpdateBackingShape ==
    ASSUME IInv, NEW i, NEW x \in AssetIds, NEW nb \in AssetIds, UpdateBacking(i, x, nb)
    PROVE  /\ assets' \in Seq(AssetRec) /\ Len(assets') = Len(assets)
           /\ assets'[x].backing = nb
           /\ \A y \in AssetIds : assets'[y].symbol = assets[y].symbol
           /\ \A y \in AssetIds : /\ assets'[y].issuer = assets[y].issuer
                                 /\ assets'[y].precision = assets[y].precision
           /\ \A y \in AssetIds \ {x} : assets'[y] = assets[y]
<1> DEFINE a == assets[x]
            b == [symbol |-> a.symbol, issuer |-> a.issuer, precision |-> a.precision,
                  backing |-> nb, prediction |-> a.prediction]
<1>1. assets' = [assets EXCEPT ![x].backing = nb]
  BY DEF UpdateBacking
<1>2. a \in AssetRec
  BY DEF IInv, AssetIds
<1>3. a = [symbol |-> a.symbol, issuer |-> a.issuer, precision |-> a.precision,
           backing |-> a.backing, prediction |-> a.prediction]
  BY <1>2 DEF AssetRec
<1>4. [a EXCEPT !.backing = nb] = b
  BY <1>3
<1>5. b \in AssetRec
  BY <1>2 DEF AssetRec, AssetIds
<1>6. assets' = [y \in 1 .. Len(assets) |-> IF y = x THEN b ELSE assets[y]]
  <2>1. assets' = [assets EXCEPT ![x] = [a EXCEPT !.backing = nb]]
    BY <1>1, Zenon
  <2>2. assets' = [assets EXCEPT ![x] = b]
    BY <2>1, <1>4
  <2>3. DOMAIN assets = 1 .. Len(assets)
    BY DEF IInv
  <2>4. QED
    BY <2>2, <2>3 DEF AssetIds
<1>7. assets' \in Seq(AssetRec) /\ Len(assets') = Len(assets)
  <2>1. assets' \in [1 .. Len(assets) -> AssetRec]
    BY <1>5, <1>6 DEF IInv
  <2>2. QED
    BY <2>1, <1>6 DEF IInv
<1>. QED
  BY <1>6, <1>7 DEF AssetIds

(* Changing an asset's backing keeps every symbol where it was.          *)
LEMMA UpdateBackingKeepsInv ==
    ASSUME IInv, NEW i, NEW x \in AssetIds, NEW nb \in AssetIds, UpdateBacking(i, x, nb)
    PROVE  IInv'
<1>1. /\ assets' \in Seq(AssetRec) /\ Len(assets') = Len(assets)
      /\ \A y \in AssetIds : assets'[y].symbol = assets[y].symbol
  BY UpdateBackingShape
<1>. QED
  BY <1>1 DEF IInv, SymbolsUnique, AssetIds

(* What asset_update does to the index: the same length and types, the   *)
(* new issuer on x, every symbol and precision where it was.              *)
LEMMA AssetUpdateShape ==
    ASSUME IInv, NEW i, NEW x \in AssetIds, NEW ni \in Accounts, AssetUpdate(i, x, ni)
    PROVE  /\ assets' \in Seq(AssetRec) /\ Len(assets') = Len(assets)
           /\ \A y \in AssetIds : /\ assets'[y].symbol = assets[y].symbol
                                 /\ assets'[y].precision = assets[y].precision
                                 /\ assets'[y].issuer = IF y = x THEN ni
                                                        ELSE assets[y].issuer
<1> DEFINE a == assets[x]
            b == [symbol |-> a.symbol, issuer |-> ni, precision |-> a.precision,
                  backing |-> a.backing, prediction |-> a.prediction]
<1>1. assets' = [assets EXCEPT ![x].issuer = ni]
  BY DEF AssetUpdate
<1>2. a \in AssetRec
  BY DEF IInv, AssetIds
<1>3. a = [symbol |-> a.symbol, issuer |-> a.issuer, precision |-> a.precision,
           backing |-> a.backing, prediction |-> a.prediction]
  BY <1>2 DEF AssetRec
<1>4. [a EXCEPT !.issuer = ni] = b
  BY <1>3
<1>5. b \in AssetRec
  BY <1>2 DEF AssetRec
<1>6. assets' = [y \in 1 .. Len(assets) |-> IF y = x THEN b ELSE assets[y]]
  <2>1. assets' = [assets EXCEPT ![x] = [a EXCEPT !.issuer = ni]]
    BY <1>1, Zenon
  <2>2. assets' = [assets EXCEPT ![x] = b]
    BY <2>1, <1>4
  <2>3. DOMAIN assets = 1 .. Len(assets)
    BY DEF IInv
  <2>4. QED
    BY <2>2, <2>3 DEF AssetIds
<1>7. assets' \in Seq(AssetRec) /\ Len(assets') = Len(assets)
  <2>1. assets' \in [1 .. Len(assets) -> AssetRec]
    BY <1>5, <1>6 DEF IInv
  <2>2. QED
    BY <2>1, <1>6 DEF IInv
<1>. QED
  BY <1>6, <1>7 DEF AssetIds

(* Changing an asset's issuer keeps every symbol where it was.           *)
LEMMA AssetUpdateKeepsInv ==
    ASSUME IInv, NEW i, NEW x \in AssetIds, NEW ni \in Accounts, AssetUpdate(i, x, ni)
    PROVE  IInv'
<1>1. /\ assets' \in Seq(AssetRec) /\ Len(assets') = Len(assets)
      /\ \A y \in AssetIds : assets'[y].symbol = assets[y].symbol
  BY AssetUpdateShape
<1>. QED
  BY <1>1 DEF IInv, SymbolsUnique, AssetIds

(* The invariant holds initially and is kept by every step.               *)
LEMMA RegistryInvInductive == Spec => []IInv
<1>1. Init => IInv
  BY RegistryAssumption DEF Init, IInv, AssetRec, SymbolsUnique, AssetIds, NoBitasset
<1>2. IInv /\ [Next]_vars => IInv'
  <2> SUFFICES ASSUME IInv, [Next]_vars PROVE IInv'
    OBVIOUS
  <2>1. ASSUME NEW op \in CreateOps, AssetCreate(op) PROVE IInv'
    BY <2>1, CreateKeepsInv
  <2>2. ASSUME AssetCreateRejected PROVE IInv'
    BY <2>2 DEF AssetCreateRejected, vars, IInv, SymbolsUnique, AssetIds
  <2>3. ASSUME NEW i \in Accounts, NEW x \in AssetIds, NEW nb \in AssetIds,
               UpdateBacking(i, x, nb)
        PROVE  IInv'
    BY <2>3, UpdateBackingKeepsInv
  <2>4. ASSUME NEW x \in AssetIds, OpenPosition(x) PROVE IInv'
    BY <2>4 DEF OpenPosition, IInv, SymbolsUnique, AssetIds
  <2>5. CASE UNCHANGED vars
    BY <2>5 DEF vars, IInv, SymbolsUnique, AssetIds
  <2>6. ASSUME NEW i \in Accounts, NEW x \in AssetIds, NEW ni \in Accounts,
               AssetUpdate(i, x, ni)
        PROVE  IInv'
    BY <2>6, AssetUpdateKeepsInv
  <2>7. QED
    BY <2>1, <2>2, <2>3, <2>4, <2>5, <2>6 DEF Next
<1>3. QED
  BY <1>1, <1>2, PTL DEF Spec

(* After any sequence of creates, issuer and backing changes and         *)
(* positions, no two                                                      *)
(* assets share a symbol, so lookup_asset_symbol finds at most one.      *)
THEOREM SymbolsAlwaysUnique == Spec => []SymbolsUnique
BY RegistryInvInductive, PTL DEF IInv

-----------------------------------------------------------------------------
-----------------------------------------------------------------------------
(* The directory of an index with one more entry is the directory of the  *)
(* index with that entry's promised fields appended.                      *)
LEMMA DirectoryOfAppend ==
    ASSUME NEW a \in Seq(AssetRec), NEW r \in AssetRec
    PROVE  DirectoryOf(Append(a, r)) =
               Append(DirectoryOf(a), [symbol |-> r.symbol, issuer |-> r.issuer,
                                       precision |-> r.precision])
<1>1. /\ Append(a, r) \in Seq(AssetRec) /\ Len(Append(a, r)) = Len(a) + 1
      /\ \A x \in 1 .. Len(a) : Append(a, r)[x] = a[x]
      /\ Append(a, r)[Len(a) + 1] = r
  BY AppendProperties
<1>2. DirectoryOf(a) \in Seq([symbol : Symbols, issuer : Accounts, precision : Precisions])
      /\ Len(DirectoryOf(a)) = Len(a)
  <2>1. Len(a) \in Nat /\ \A x \in 1 .. Len(a) : a[x] \in AssetRec
    OBVIOUS
  <2>2. DirectoryOf(a) \in [1 .. Len(a) -> [symbol : Symbols, issuer : Accounts,
                                            precision : Precisions]]
    BY <2>1 DEF DirectoryOf, AssetRec
  <2>3. DirectoryOf(a) \in Seq([symbol : Symbols, issuer : Accounts, precision : Precisions])
    <3> DEFINE E == [symbol : Symbols, issuer : Accounts, precision : Precisions]
               d == DirectoryOf(a)
    <3> HIDE DEF E, d
    <3>1. d \in UNION {[1 .. n -> E] : n \in Nat}
      BY <2>1, <2>2 DEF d, E
    <3>2. Seq(E) = UNION {[1 .. n -> E] : n \in Nat}
      BY SeqDef
    <3>. QED
      BY <3>1, <3>2 DEF d, E
  <2>4. DOMAIN DirectoryOf(a) = 1 .. Len(DirectoryOf(a)) /\ Len(DirectoryOf(a)) \in Nat
    BY <2>3, LenProperties
  <2>. QED
    BY <2>1, <2>2, <2>3, <2>4
<1>. QED
  BY <1>1, <1>2, AppendProperties DEF DirectoryOf, AssetRec

(* A step that leaves every id's symbol, issuer and precision where they   *)
(* were leaves the directory as it was.                                   *)
LEMMA DirectoryUnchanged ==
    ASSUME Len(assets') = Len(assets),
           \A y \in AssetIds : /\ assets'[y].symbol = assets[y].symbol
                               /\ assets'[y].issuer = assets[y].issuer
                               /\ assets'[y].precision = assets[y].precision
    PROVE  DirectoryOf(assets') = DirectoryOf(assets)
BY DEF DirectoryOf, AssetIds

(* Creating an asset registers its symbol, issuer and precision under the *)
(* next id of the directory.                                              *)
LEMMA CreateRegisters ==
    ASSUME IInv, NEW op \in CreateOps, AssetCreate(op)
    PROVE  Directory!Next
<1> DEFINE r == [symbol |-> op.symbol, issuer |-> op.issuer, precision |-> op.precision,
                 backing |-> op.backing, prediction |-> op.prediction]
           e == [symbol |-> op.symbol, issuer |-> op.issuer, precision |-> op.precision]
<1>1. r \in AssetRec /\ assets \in Seq(AssetRec)
  BY DEF CreateOps, AssetRec, AssetIds, NoBitasset, IInv
<1>2. DirectoryOf(assets') = Append(DirectoryOf(assets), e)
  <2>1. assets' = Append(assets, r)
    BY DEF AssetCreate
  <2>. QED
    BY <1>1, <2>1, DirectoryOfAppend
<1>3. e \in Directory!Entries /\ e.issuer = WebassetIssuer
  BY DEF CreateOps, AssetCreate, AssetCreateEvaluate, Directory!Entries
<1>4. Len(DirectoryOf(assets)) = Len(assets) /\ Len(assets) < MaxAssets
  BY <1>1 DEF DirectoryOf, AssetCreate
<1>5. ~Directory!Taken(e.symbol)
  <2>1. \A x \in 1 .. Len(assets) : assets[x].symbol # op.symbol
    BY DEF AssetCreate, AssetCreateEvaluate, SymbolRegistered, AssetIds
  <2>. QED
    BY <2>1, <1>4 DEF Directory!Taken, DirectoryOf
<1>6. Directory!Register(e)
  BY <1>2, <1>3, <1>4, <1>5 DEF Directory!Register
<1>. QED
  BY <1>3, <1>6 DEF Directory!Next

(* Handing an asset to a new issuer is a Transfer of the directory.      *)
LEMMA UpdateTransfers ==
    ASSUME IInv, NEW i, NEW x \in AssetIds, NEW ni \in Accounts, AssetUpdate(i, x, ni)
    PROVE  Directory!Next
<1>1. /\ Len(assets') = Len(assets)
      /\ \A y \in AssetIds : /\ assets'[y].symbol = assets[y].symbol
                            /\ assets'[y].precision = assets[y].precision
                            /\ assets'[y].issuer = IF y = x THEN ni ELSE assets[y].issuer
  BY AssetUpdateShape
<1> DEFINE d == [y \in 1 .. Len(assets) |->
                   [symbol |-> assets[y].symbol,
                    issuer |-> IF y = x THEN ni ELSE assets[y].issuer,
                    precision |-> assets[y].precision]]
<1>2. DirectoryOf(assets') = d
  BY <1>1 DEF DirectoryOf, AssetIds
<1>3. [DirectoryOf(assets) EXCEPT ![x].issuer = ni] = d
  <2>1. DirectoryOf(assets)[x] = [symbol |-> assets[x].symbol, issuer |-> assets[x].issuer,
                                  precision |-> assets[x].precision]
    BY DEF DirectoryOf, AssetIds
  <2>2. [DirectoryOf(assets)[x] EXCEPT !.issuer = ni]
          = [symbol |-> assets[x].symbol, issuer |-> ni, precision |-> assets[x].precision]
    BY <2>1
  <2>3. [DirectoryOf(assets) EXCEPT ![x].issuer = ni]
          = [DirectoryOf(assets) EXCEPT ![x] = [DirectoryOf(assets)[x] EXCEPT !.issuer = ni]]
    OBVIOUS
  <2>. QED
    BY <2>2, <2>3 DEF DirectoryOf, AssetIds
<1>4. x \in 1 .. Len(DirectoryOf(assets))
  <2>1. Len(assets) \in Nat
    BY LenProperties DEF IInv
  <2>. QED
    BY <2>1 DEF DirectoryOf, AssetIds
<1>5. Directory!Transfer(x, ni)
  BY <1>2, <1>3 DEF Directory!Transfer
<1>. QED
  BY <1>4, <1>5 DEF Directory!Next

(* The asset index implements AssetDirectory, for every value of the      *)
(* constants: the genesis index is the directory of CORE, each create     *)
(* registers a fresh symbol of the webasset issuer under the next id,    *)
(* asset_update hands one asset to a new issuer, and rejected creates,    *)
(* backing changes and positions leave every id's symbol, issuer and      *)
(* precision where they were.                                             *)
THEOREM DirectoryRefinement == Spec => ImplementsDirectory
<1>1. Init => Directory!Init
  <2> SUFFICES ASSUME Init PROVE Directory!Init
    OBVIOUS
  <2>1. PICK p \in Precisions :
            assets = << [symbol |-> CoreSymbol, issuer |-> Committee, precision |-> p,
                         backing |-> NoBitasset, prediction |-> FALSE] >>
    BY DEF Init
  <2>2. DirectoryOf(assets) = << [symbol |-> CoreSymbol, issuer |-> Committee, precision |-> p] >>
    BY <2>1 DEF DirectoryOf
  <2>. QED
    BY <2>2 DEF Directory!Init
<1>2. IInv /\ [Next]_vars => [Directory!Next]_(DirectoryOf(assets))
  <2> SUFFICES ASSUME IInv, [Next]_vars PROVE [Directory!Next]_(DirectoryOf(assets))
    OBVIOUS
  <2>1. ASSUME NEW op \in CreateOps, AssetCreate(op) PROVE Directory!Next
    BY <2>1, CreateRegisters
  <2>2. ASSUME NEW i \in Accounts, NEW x \in AssetIds, NEW nb \in AssetIds,
               UpdateBacking(i, x, nb)
        PROVE  DirectoryOf(assets') = DirectoryOf(assets)
    BY <2>2, UpdateBackingShape, DirectoryUnchanged
  <2>3. CASE UNCHANGED assets
    BY <2>3
  <2>4. ASSUME NEW i \in Accounts, NEW x \in AssetIds, NEW ni \in Accounts,
               AssetUpdate(i, x, ni)
        PROVE  Directory!Next
    BY <2>4, UpdateTransfers
  <2>5. QED
    BY <2>1, <2>2, <2>3, <2>4 DEF Next, AssetCreateRejected, OpenPosition, vars
<1>. QED
  BY <1>1, <1>2, RegistryInvInductive, PTL DEF Spec, ImplementsDirectory, Directory!Spec

=============================================================================
