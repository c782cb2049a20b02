--------------------------- MODULE MCRegistration ---------------------------
(***************************************************************************)
(* Model checking of Registration: three physical code rows, two of which  *)
(* are twins and one of which the legacy flow has used.                    *)
(***************************************************************************)
EXTENDS Registration, TLC

CONSTANTS c1, c2, c3

MCStringOf == (c1 :> "twin") @@ (c2 :> "twin") @@ (c3 :> "old")

Symmetry == Permutations(Procs) \cup Permutations(Uids \ {Root})
            \cup Permutations(Names) \cup Permutations(Sides)
=============================================================================
