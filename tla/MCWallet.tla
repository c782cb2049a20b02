------------------------------ MODULE MCWallet ------------------------------
(***************************************************************************)
(* Model checking of Wallet: one direct-referral peso, one unilevel peso a *)
(* month and up to two Hi-Five pesos, the first of which also has a legacy *)
(* claim waiting for review.  Requests are interchangeable.  The wallet is *)
(* named here, so that it may stand beside the engines that pay into it.   *)
(***************************************************************************)
EXTENDS Integers, TLC

CONSTANTS Procs, NoProc, Claims, Payout, LegacyHiFive, Amounts, MaxEntitled, MaxMonth, StatusReadMayFail
VARIABLES totals, balance, history, charged, stamp, claims, entitled, peak, month,
          incomeLock, rowLock, claimLock, pc, job, arg, seen

Purse == INSTANCE Wallet

ASSUME PurseAssumption == Purse!WalletAssumption

WalletSpec == Purse!Spec
-----------------------------------------------------------------------------
\* The properties of Wallet, which its module states.
BalanceReconciles    == Purse!BalanceReconciles
NoDoubleCredit       == Purse!NoDoubleCredit
UnilevelOncePerMonth == Purse!UnilevelOncePerMonth

MCPayout == [k \in Claims |-> 1]

MCEntitled == [dref |-> 1, pairing |-> 0, leadership |-> 0, hifive |-> 2, unilevel |-> 1]

Symmetry == Permutations(Procs)
=============================================================================
