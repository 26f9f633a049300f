----------------------------- MODULE MC_BitAsset -----------------------------
(* BitAsset on two holders (3 units), three publishers of whom one is a    *)
(* witness and one a committee member, two feed prices and one global      *)
(* settlement price that rounds.                                           *)
EXTENDS BitAsset

MC_InitBalance == [h \in Holders |-> IF h = "h1" THEN 2 ELSE 1]

MC_PermissionChoices ==
    {PermNames, PermNames \ {"global_settle"}, {"disable_force_settle", "global_settle"}}

MC_FlagChoices ==
    {{}, {"disable_force_settle"}, {"witness_fed_asset"}}

MC_ProducerChoices == {{"p1", "p2"}, {"p2"}, {"p1", "p2", "p3"}}

MC_SettlePrices == {<<1, 2>>}
=============================================================================
