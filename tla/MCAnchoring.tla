---------------------------- MODULE MCAnchoring -----------------------------
(***************************************************************************)
(* Small instances of Anchoring: a registered bin of organization o1 and a *)
(* bin of o2 that is made up on the fly.                                   *)
(***************************************************************************)
EXTENDS Anchoring, TLC

CONSTANTS b1, b2, f1, f2, o1, o2, m1, m2, m3

MCBinOrg == [b \in Bin |-> IF b = b2 THEN o2 ELSE o1]
MCFacilityOrg == [f \in Facility |-> IF f = f2 THEN o2 ELSE o1]
MCHome == [b \in Bin |-> IF b = b2 THEN Null ELSE f1]
MCDkHours == [b \in Bin |-> 1]
MCModalOrg == [m \in Modal |-> IF m = m3 THEN o2 ELSE o1]
MCWindow == {Instant, {}}

Symmetry ==
  Permutations(Cycle) \cup Permutations(Tx) \cup Permutations(Modal \ {m3})
=============================================================================
