--------------------------- MODULE MCIdempotency ---------------------------
(***************************************************************************)
(* Model checking of Idempotency: one key, whose statements and faults     *)
(* have names of their own here, so that the key may stand beside another  *)
(* module's processes.                                                     *)
(***************************************************************************)
EXTENDS Naturals

CONSTANTS Clients, Hashes, NoHash, SlowHandlers, MaxRuns, MaxErrors, MaxCrashes, MaxRetries
VARIABLES row, hash, at, claimed, ok, answer, runs, lost, errors, crashes, retries

Key == INSTANCE Idempotency WITH pc <- at, faults <- errors, MaxFaults <- MaxErrors

ASSUME KeyAssumption == Key!BoundsAssumption

KeySpec == Key!FairSpec
-----------------------------------------------------------------------------
\* The properties of Idempotency, which its module states.
ClaimedOnce == Key!ClaimedOnce
OwnResponse == Key!OwnResponse
Answered    == Key!Answered
=============================================================================
