------------------------ MODULE MC_QueueProjection -------------------------
(***************************************************************************)
(* Model values for QueueProjection: one license of each kind and upgrade *)
(* policy, a regular license the projection ignores, and an id missing    *)
(* from the license type index.  The records reach every branch: a tier   *)
(* left or none, exactly one tier left, several tiers left, multipliers   *)
(* of 2 and of 3, a president bonus, and two frequency locks whose        *)
(* conversions round.                                                     *)
(***************************************************************************)
EXTENDS QueueProjection

MC_LicenseTypes ==
    [n \in {"char", "lock", "pres", "util", "pkg", "reg"} |->
        [kind      |-> CASE n = "char" -> "chartered"
                         [] n \in {"lock", "pres"} -> "locked_frequency"
                         [] n = "util" -> "utility"
                         [] n = "pkg" -> "package"
                         [] n = "reg" -> "regular",
         up_policy |-> IF n = "pres" THEN "president" ELSE "standard"]]

Rec(lic, amt, base, bonus, nu, used, max, mults, fl) ==
    [license |-> lic, amount |-> amt, base_amount |-> base, bonus_percent |-> bonus,
     non_upgradeable_amount |-> nu, used |-> used, max |-> max,
     multipliers |-> mults, frequency_lock |-> fl]

MC_RecordChoices ==
    { Rec("char", 1, 1, 0, 0, 0, 2, <<1, 2>>, 3),
      Rec("char", 2, 2, 0, 0, 2, 2, <<1, 2>>, 3),
      Rec("lock", 2, 2, 0, 1, 1, 2, <<2, 3>>, 7),
      Rec("lock", 1, 1, 0, 0, 0, 2, <<2, 3>>, 3),
      Rec("lock", 1, 1, 0, 1, 2, 2, <<2, 2>>, 3),
      Rec("pres", 4, 1, 50, 0, 1, 2, <<1, 1>>, 7),
      Rec("util", 1, 1, 0, 0, 0, 1, <<2>>, 3),
      Rec("pkg", 2, 1, 0, 0, 1, 2, <<1, 3>>, 7),
      Rec("ghost", 1, 1, 0, 0, 0, 1, <<1>>, 3),
      Rec("reg", 1, 1, 0, 0, 0, 1, <<1>>, 3) }

=============================================================================
