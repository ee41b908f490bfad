---------------------------- MODULE MCSensorFleet ----------------------------
(* Two organizations with a facility each; each facility has a zone. *)
EXTENDS SensorFleet, TLC

MCOrgOf == ("f1" :> "o1") @@ ("f2" :> "o2")
MCFacilityOf == ("z1" :> "f1") @@ ("z2" :> "f2")

Slots == Permutations(Request) \cup Permutations(Upload)
=============================================================================
