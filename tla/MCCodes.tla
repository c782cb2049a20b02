------------------------------ MODULE MCCodes ------------------------------
(***************************************************************************)
(* Model checking of Codes: two directs, two packages, sets of two, and a  *)
(* package code and a product code to begin with.                          *)
(***************************************************************************)
EXTENDS Codes, TLC

Twice == CHOOSE k \in Keys : TRUE
MCBatch == [k \in Keys |-> [product |-> Product, type |-> "PD", count |-> IF k = Twice THEN 2 ELSE 1]]

Symmetry == Permutations(Procs)
=============================================================================
