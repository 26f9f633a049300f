-------------------------- MODULE MC_AssetIssuance --------------------------
(* Small instances of AssetIssuance for TLC.  alice is the web-asset       *)
(* issuer and a wallet; bob is a vault and issues the cycle asset "cyc".   *)
(* "web" has an authenticator (bob), so asset_issue cannot mint it, and   *)
(* minting it by request is deprecated.  Two issue_asset_request_objects  *)
(* are in the store: r1 for "web", which bob may deny, and r2 for "cyc",  *)
(* which has no authenticator.  The                                        *)
(* operations below reach every guard of every evaluator: each valid one  *)
(* has an invalid twin that differs in the field the guard checks.         *)
EXTENDS AssetIssuance

MC_Issuer == [a \in Assets |-> CASE a = "core" -> Committee
                                 [] a = "web"  -> "alice"
                                 [] a = "cyc"  -> "bob"]

MC_MaxSupply == [a \in Assets |-> IF a = "core" THEN 10 ELSE 1]

MC_Authenticator == [a \in DualAuth |-> "bob"]

MC_RequestAsset == [r \in RequestIds |-> IF r = "r1" THEN "web" ELSE "cyc"]

MC_AccountKind == [p \in Accounts |-> IF p = "alice" THEN "wallet" ELSE "vault"]

Request(who, a, to, uid, res, fee, fa) ==
    [type |-> "asset_create_issue_request", who |-> who, asset |-> a,
     amount |-> 1, to |-> to, uid |-> uid, reserved |-> res,
     fee |-> fee, fee_asset |-> fa]

Simple(type, who, a, fee, fa) ==
    [type |-> type, who |-> who, asset |-> a, amount |-> 1,
     fee |-> fee, fee_asset |-> fa]

Deny(who, r) ==
    [type |-> "asset_deny_issue_request", who |-> who, request |-> r,
     fee |-> 0, fee_asset |-> "core"]

MC_OpChoices ==
    { Request("alice", "web", "bob",   "u1", 1, 0, "core"),  \* deprecated
      Request("alice", "cyc", "alice", "u2", 0, 1, "core"),
      Request("bob",   "cyc", "alice", "u2", 0, 0, "core"),  \* not the issuer
      Request("alice", "cyc", "bob",   "u1", 0, 0, "core"),  \* cycles to a vault
      Request("alice", "cyc", "alice", "u1", 1, 0, "core"),
      [type |-> "asset_issue", who |-> "bob", asset |-> "cyc", amount |-> 1,
       to |-> "alice", fee |-> 0, fee_asset |-> "core"],
      [type |-> "asset_issue", who |-> "alice", asset |-> "web", amount |-> 1,
       to |-> "alice", fee |-> 0, fee_asset |-> "core"],      \* dual authority
      Simple("asset_reserve", "alice", "cyc", 0, "core"),
      Simple("asset_reserve", "bob", "web", 0, "core"),
      Simple("asset_fund_fee_pool", "bob", "cyc", 0, "core"),
      Simple("asset_fund_fee_pool", "alice", "web", 1, "cyc"),
      Simple("asset_claim_fees", "bob", "cyc", 0, "core"),
      Simple("asset_claim_fees", "alice", "cyc", 0, "core"),  \* not the issuer
      Deny("bob", "r1"),
      Deny("alice", "r1"),                                   \* not the authenticator
      Deny("bob", "r2") }                                    \* no authenticator

=============================================================================
