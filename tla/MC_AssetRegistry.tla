------------------------- MODULE MC_AssetRegistry --------------------------
(***************************************************************************)
(* Two accounts (the committee and the webasset issuer), CORE,  *)
(* two top-level symbols and a sub-asset symbol of one of them, room for  *)
(* four assets so that a backing chain of three bitassets can be built.   *)
(***************************************************************************)
EXTENDS AssetRegistry

MC_PrefixOf == [s \in {"CORE", "WEB", "BIT", "WEB.X"} |->
                   IF s = "WEB.X" THEN "WEB" ELSE "none"]

=============================================================================
