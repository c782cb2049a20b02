----------------------------- MODULE MCJobQueue -----------------------------
(***************************************************************************)
(* Model checking of JobQueue: the ticks are interchangeable, which only   *)
(* the safety run uses.                                                    *)
(***************************************************************************)
EXTENDS JobQueue, TLC

Symmetry == Permutations(Ticks)
=============================================================================
