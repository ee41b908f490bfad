------------------------- MODULE MCBinTransactions --------------------------
(***************************************************************************)
(* Small instances of BinTransactions.  Organization o1 owns the bins, a   *)
(* rendering facility where they also stand, an ADMIN and a DRIVER; in o2, *)
(* which owns the other facility, that DRIVER is the ADMIN.  Bin d1 does   *)
(* not exist at first.  The configurations choose how many of them there   *)
(* are.                                                                    *)
(***************************************************************************)
EXTENDS BinTransactions, TLC

CONSTANTS d1, plant, far, adm, drv, o1, o2

MCBinOrg == [b \in Bin |-> o1]
MCFacilityOrg == [f \in Facility |-> IF f = far THEN o2 ELSE o1]
MCHome == [b \in Bin |-> IF b = d1 THEN Null ELSE plant]
MCDkHours == [b \in Bin |-> 1]
MCFirstMember ==
  [m \in Org \X User |->
     CASE m = <<o1, adm>> -> "ADMIN"
       [] m = <<o1, drv>> -> "DRIVER"
       [] m = <<o2, drv>> -> "ADMIN"
       [] OTHER -> Null]
MCFirstAccess == {<<drv, plant>>}

Symmetry == Permutations(Request) \cup Permutations(Cycle)
=============================================================================
