-------------------------- MODULE MC_AccessLayer ---------------------------
(***************************************************************************)
(* Two existing accounts and one that does not exist, two entry amounts,  *)
(* a queue of up to three entries paged two at a time, and a chain of up  *)
(* to two blocks fetched two at a time: the page limits of the code (100) *)
(* are scaled down so that full, partial and exactly-fitting pages occur. *)
(* CORE and WEB exist at genesis and one asset (BIT) may be created; the  *)
(* query strings are the symbols, an unknown one, the empty string, the   *)
(* id strings of every asset position, an account id and a digit string   *)
(* that spells no id.                                                      *)
(***************************************************************************)
EXTENDS AccessLayer

MC_Symbols == {"CORE", "WEB", "BIT"}

MC_DigitStrings == {"1.3.0", "1.3.1", "1.3.2", "1.3.3", "1.2.0", "7"}

MC_QueryStrings == MC_Symbols \cup MC_DigitStrings \cup {"", "GHOST"}

MC_ParsedId ==
    [s \in MC_DigitStrings |->
        CASE s = "1.3.0" -> [space |-> 1, type |-> 3, instance |-> 0]
          [] s = "1.3.1" -> [space |-> 1, type |-> 3, instance |-> 1]
          [] s = "1.3.2" -> [space |-> 1, type |-> 3, instance |-> 2]
          [] s = "1.3.3" -> [space |-> 1, type |-> 3, instance |-> 3]
          [] s = "1.2.0" -> [space |-> 1, type |-> 2, instance |-> 0]
          [] OTHER       -> Malformed]
=============================================================================
