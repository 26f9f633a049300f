-------------------------- MODULE GlobalSettlement --------------------------
(***************************************************************************)
(* What global settlement promises a bitasset's holders, stated without  *)
(* feeds, permissions or orders: the asset settles at most once, at a     *)
(* price that prices the whole supply at what the fund gathered; from     *)
(* then on the price never changes, and each redemption burns the amount  *)
(* redeemed and pays, from the fund, that amount at the price rounded     *)
(* down.  The settlement state of BitAsset is shown to implement it; the  *)
(* other bitasset operations are stutters here.                           *)
(***************************************************************************)
EXTENDS Integers

VARIABLES
    settled,   \* has_settlement()
    price,     \* settlement_price as <<base (bitasset), quote (core)>>
    fund,      \* settlement_fund
    supply     \* current_supply

(* The core paid for amt units at the settlement price.                   *)
Payout(amt) == (amt * price[2]) \div price[1]

(* The asset settles: the supply is priced at the fund gathered for it.   *)
Settle ==
    /\ ~settled
    /\ supply > 0
    /\ settled' = TRUE
    /\ fund' \in Nat
    /\ price' = <<supply, fund'>>
    /\ UNCHANGED supply

(* A holder redeems supply - supply' units at the fixed price.            *)
Redeem ==
    /\ settled
    /\ supply' < supply
    /\ Payout(supply - supply') <= fund
    /\ fund' = fund - Payout(supply - supply')
    /\ UNCHANGED <<settled, price>>

Init ==
    /\ settled = FALSE
    /\ price \in (Nat \ {0}) \X Nat
    /\ fund = 0
    /\ supply \in Nat

Next == Settle \/ Redeem

Spec == Init /\ [][Next]_<<settled, price, fund, supply>>

=============================================================================
