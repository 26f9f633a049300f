------------------------- MODULE MC_ExternalPrices -------------------------
(* Two accounts, of which one is the webasset issuer; BTC and one other    *)
(* token; two prices and three block times, so that an update can both    *)
(* create and later modify a market's object.                              *)
EXTENDS ExternalPrices
=============================================================================
