----------------------------- MODULE MCVoucher -----------------------------
(***************************************************************************)
(* Model checking of Voucher: two packages with vouchers of two pesos and  *)
(* of one peso, two voucher rows and two transactions at a time.           *)
(***************************************************************************)
EXTENDS Voucher, TLC

MCFace == [t \in Tiers |-> IF t = 1 THEN 2 ELSE 1]

Symmetry == Permutations(Procs)
=============================================================================
