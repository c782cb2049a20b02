----------------------------- MODULE MCEngines -----------------------------
(***************************************************************************)
(* Model checking of Engines with two packages, of which the dearer has    *)
(* twice the points.                                                       *)
(***************************************************************************)
EXTENDS Engines, TLC

MCPoints   == 1 :> 1 @@ 2 :> 2
MCWeekCap  == 1 :> 2 @@ 2 :> 3
MCMonthCap == 1 :> 3 @@ 2 :> 5
MCReach    == 1 :> 1 @@ 2 :> 2
MCPackage  == [m \in Members |-> IF m = 3 THEN 2 ELSE 1]
MCCodes    == [m \in Members |-> IF m = 2 THEN {"CD"} ELSE {"PD"}]
MCSponsors == [m \in Members |-> IF m = 4 THEN {2} ELSE {1, 2} \ {m}]
=============================================================================
