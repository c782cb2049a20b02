------------------------------ MODULE MCAwards ------------------------------
(***************************************************************************)
(* Model checking of Ranking and GlobalBonus, side by side: the bonus      *)
(* reads of a refresh only the committed rank, and its module lets ranks   *)
(* change at any time.  part says which one a behaviour is about, and the  *)
(* other rests.                                                            *)
(*                                                                         *)
(* Two directs of the first member in its two legs, each with a direct     *)
(* that buys; or, to reproduce ZeroOut, a chain, where the next two of a   *)
(* member are in its two legs.  Diamonds that may become stockists, with   *)
(* ranks on both sides of an Ambassador's, and a pool that no number of    *)
(* portions but one divides.                                               *)
(***************************************************************************)
EXTENDS Ranking, TLC

CONSTANTS
    Earners, Accounts, FirstAccount, FirstRank, RankLevels, Sales,
    ManualPortions, MaxChanges, MaxEdits, MaxPayouts

VARIABLES
    part,
    closed, sales, account, rank, override, payout, shares, request,
    changes, edits, begun, payments

Bonus == INSTANCE GlobalBonus WITH Members <- Earners

ASSUME BonusAssumption == Bonus!GlobalBonusAssumption

MCSponsor == 1 :> NoOne @@ 2 :> 1 @@ 3 :> 1 @@ 4 :> 2 @@ 5 :> 3
MCLeg == [a \in Members |-> [d \in Members |->
            IF a = 1 /\ d > 1 THEN IF d \in {2, 4} THEN "left" ELSE "right" ELSE "none"]]

ChainSponsor == [m \in Members |-> IF m = 1 THEN NoOne ELSE m - 1]
ChainLeg == [a \in Members |-> [d \in Members |->
               IF d = a + 1 THEN "left" ELSE IF d = a + 2 THEN "right" ELSE "none"]]
MCRequired == <<1, 1>>

MCAccounts == [package : {60}, stockist : {0, 4}]
MCFirstAccount == [m \in Earners |-> [package |-> 60, stockist |-> 0]]
MCFirstRank == [m \in Earners |-> 10]

bonusVars  == <<closed, sales, account, rank, override, payout, shares, request,
                changes, edits, begun, payments>>
awardsVars == <<part, vars, bonusVars>>

AwardsInit == part \in {"ranking", "bonus"} /\ Init /\ Bonus!Init

NextRanking == part = "ranking" /\ Next /\ UNCHANGED <<part, bonusVars>>
NextBonus   == part = "bonus" /\ Bonus!Next /\ UNCHANGED <<part, vars>>

AwardsSpec == AwardsInit /\ [][NextRanking \/ NextBonus]_awardsVars
-----------------------------------------------------------------------------
\* The properties of GlobalBonus, which its module states.
PoolSpent     == Bonus!PoolSpent
BlockedUnpaid == Bonus!BlockedUnpaid

\* This one does not hold (see the README), nor does ZeroOut.
PaidOnce      == Bonus!PaidOnce

Symmetry == Permutations(Procs) \cup Permutations(Earners)
=============================================================================
