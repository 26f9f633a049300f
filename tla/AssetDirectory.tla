--------------------------- MODULE AssetDirectory ---------------------------
(***************************************************************************)
(* What the asset index promises the code that reads it (lookup by id,    *)
(* lookup by symbol, get_issued_asset_record), stated without evaluators: *)
(* ids are handed out in order and never reused, an id keeps its symbol   *)
(* and precision for ever, a new id gets a symbol no asset has and is     *)
(* registered by the webasset issuer, and an asset's issuer changes only  *)
(* by a hand-over to another account.  The index of AssetRegistry is      *)
(* shown to implement it by forgetting the fields that may change (the    *)
(* backing) or that it does not promise.                                  *)
(***************************************************************************)
EXTENDS Integers, Sequences

CONSTANTS Accounts, Committee, WebassetIssuer, Symbols, CoreSymbol, Precisions, MaxAssets

VARIABLE directory   \* id+1 -> [symbol, issuer, precision]

Entries == [symbol : Symbols, issuer : Accounts, precision : Precisions]

Taken(sym) == \E x \in 1 .. Len(directory) : directory[x].symbol = sym

(* The webasset issuer registers a fresh symbol under the next id.        *)
Register(e) ==
    /\ Len(directory) < MaxAssets
    /\ e.issuer = WebassetIssuer
    /\ ~Taken(e.symbol)
    /\ directory' = Append(directory, e)

(* The asset x is handed to the account ni.                              *)
Transfer(x, ni) ==
    directory' = [directory EXCEPT ![x].issuer = ni]

Init ==
    \E p \in Precisions :
        directory = << [symbol |-> CoreSymbol, issuer |-> Committee, precision |-> p] >>

Next ==
    \/ \E e \in Entries : Register(e)
    \/ \E x \in 1 .. Len(directory), ni \in Accounts : Transfer(x, ni)

Spec == Init /\ [][Next]_directory

=============================================================================
