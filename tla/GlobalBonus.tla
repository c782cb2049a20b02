---------------------------- MODULE GlobalBonus ----------------------------
(***************************************************************************)
(* The annual global bonus (src/services/globalBonus.js): two per cent of  *)
(* a closed year's repurchases, divided among Diamonds, stockists and      *)
(* Ambassadors in portions that administrators override.                   *)
(*                                                                         *)
(* One year is modelled.  Every query takes a connection of its own and    *)
(* sees what is committed then; only the rows of a distribution are        *)
(* written in a transaction, whose first statement locks the row of the    *)
(* year, so that its step is one.                                          *)
(***************************************************************************)
EXTENDS Integers, FiniteSets, FiniteSetsExt, Functions

CONSTANTS
    Procs,          \* requests of administrators
    Members,
    Accounts,       \* [package, stockist] that a member may have
    RankLevels,
    FirstAccount, FirstRank, \* what members have at first
    Sales,          \* net sales, in pesos, that a year may have
    ManualPortions, \* portions that an administrator may give
    MaxChanges,     \* bound: upgrades, appointments and ranks
    MaxEdits,       \* bound: changes of overrides
    MaxPayouts      \* bound: distributions begun

GlobalBonusAssumption ==
    /\ IsFiniteSet(Members)
    /\ Accounts \subseteq [package : Nat, stockist : 0 .. 4]
    /\ FirstAccount \in [Members -> Accounts] /\ FirstRank \in [Members -> RankLevels]
    /\ RankLevels \subseteq 0 .. 10 /\ Sales \subseteq Nat
    /\ ManualPortions \subseteq Nat \ {0}
    /\ {MaxChanges, MaxEdits, MaxPayouts} \subseteq Nat

VARIABLES
    closed,     \* the year is over
    sales,      \* used repurchase codes of the year, at catalogue prices
    account, rank, override,
    payout,     \* the row of the year in globalbonus_poolstab
    shares,     \* globalbonus_membertab: a member's row, or Unpaid
    request,
    changes, edits, begun,
    payments    \* history: distributions committed

vars == <<closed, sales, account, rank, override, payout, shares, request,
          changes, edits, begun, payments>>

NoOverride == [status |-> "none", manual |-> FALSE, portions |-> 0]
NoPayout   == [paid |-> FALSE, bonus |-> 0, portions |-> 0, perPortion |-> 0]
Unpaid     == [portions |-> 0, amount |-> 0]
Idle       == [op |-> "idle"]
Sources    == {"account", "rank", "override"}

Init ==
    /\ closed = FALSE /\ sales = 0
    /\ account = FirstAccount /\ rank = FirstRank
    /\ override = [m \in Members |-> NoOverride]
    /\ payout = NoPayout /\ shares = [m \in Members |-> Unpaid]
    /\ request = [p \in Procs |-> Idle]
    /\ changes = 0 /\ edits = 0 /\ begun = 0 /\ payments = 0
-----------------------------------------------------------------------------
\* STOCKIST_PORTIONS: mobile, city and provincial stockists
Stockist(id) == IF id >= 2 THEN id - 1 ELSE 0

\* getPortionDetails: a stockist's Diamond is part of its tier.
Portions(a, level) ==
    (IF Stockist(a.stockist) > 0 THEN Stockist(a.stockist) ELSE IF a.package = 60 THEN 1 ELSE 0)
    + (IF level >= 10 THEN 1 ELSE 0)

\* A bug: only a manual row is taken off the list.
BugRecipient(a, level, o) ==
    IF o.manual THEN IF o.status = "active" THEN o.portions ELSE 0 ELSE Portions(a, level)

\* calculateGlobalBonus: the portions of a member, none if it is no recipient.
Recipient(a, level, o) ==
    LET base == Portions(a, level) IN
    CASE o.status = "none" -> base
      [] o.status \in {"removed", "frozen"} -> 0
      [] o.status = "active" /\ o.manual -> o.portions
      [] OTHER -> IF base > 0 /\ o.portions > 0 THEN o.portions ELSE base

\* toMoney(bonusPool / totalPortions), in centavos
PerPortion(bonus, portions) == IF portions = 0 THEN 0 ELSE (2 * bonus + portions) \div (2 * portions)

Blocked(o) == o.status \in {"removed", "frozen"}
-----------------------------------------------------------------------------
\* A repurchase code is used in the year.
Sell ==
    \E n \in Sales :
        /\ ~closed /\ n > sales
        /\ sales' = n
        /\ UNCHANGED <<closed, account, rank, override, payout, shares, request, changes, edits, begun, payments>>

CloseYear ==
    /\ ~closed /\ closed' = TRUE
    /\ UNCHANGED <<sales, account, rank, override, payout, shares, request, changes, edits, begun, payments>>

\* An upgrade, an appointment or a rank, at any time.
Promote ==
    \E m \in Members :
        /\ changes < MaxChanges /\ changes' = changes + 1
        /\ \/ \E a \in Accounts : account' = [account EXCEPT ![m] = a] /\ UNCHANGED rank
           \/ \E r \in RankLevels : rank' = [rank EXCEPT ![m] = r] /\ UNCHANGED account
        /\ UNCHANGED <<closed, sales, override, payout, shares, request, edits, begun, payments>>

\* distributeGlobalBonus: a year that is paid is refused; if the read fails, the
\* year counts as not paid.  barred: who has been blocked ever since.
Distribute(p) ==
    \E readFails \in BOOLEAN :
        /\ request[p] = Idle /\ closed /\ begun < MaxPayouts
        /\ payout.paid => readFails
        /\ begun' = begun + 1
        /\ request' = [request EXCEPT ![p] =
              [op |-> "distribute", seen |-> <<>>, barred |-> {m \in Members : Blocked(override[m])}]]
        /\ UNCHANGED <<closed, sales, account, rank, override, payout, shares, changes, edits, payments>>

Committed(source) == CASE source = "account" -> account [] source = "rank" -> rank [] source = "override" -> override

\* The queries of calculateGlobalBonus run at once; that of the sales of a
\* closed year gives the same whenever it runs.
Read(p) ==
    /\ request[p].op = "distribute"
    /\ \E source \in Sources \ DOMAIN request[p].seen :
          request' = [request EXCEPT ![p].seen =
              [s \in DOMAIN @ \cup {source} |-> IF s = source THEN Committed(s) ELSE @[s]]]
    /\ UNCHANGED <<closed, sales, account, rank, override, payout, shares, changes, edits, begun, payments>>

\* A bug: the rows of an earlier distribution are not deleted.
BugKept(m) == shares[m]

\* DELETE FROM globalbonus_membertab
Kept(m) == Unpaid

Pay(p) ==
    /\ request[p].op = "distribute" /\ DOMAIN request[p].seen = Sources
    /\ LET r == request[p].seen
           portions == [m \in Members |-> Recipient(r.account[m], r.rank[m], r.override[m])]
           total == SumFunctionOnSet(portions, Members)
           bonus == 2 * sales
           per == PerPortion(bonus, total)
       IN  /\ payout' = [paid |-> TRUE, bonus |-> bonus, portions |-> total, perPortion |-> per]
           /\ shares' = [m \in Members |->
                 IF portions[m] = 0 THEN Kept(m) ELSE [portions |-> portions[m], amount |-> per * portions[m]]]
    /\ payments' = payments + 1
    /\ request' = [request EXCEPT ![p] = Idle]
    /\ UNCHANGED <<closed, sales, account, rank, override, changes, edits, begun>>

\* A query fails or the process ends: nothing is written, a transaction rolls back.
Fail(p) ==
    /\ request[p] # Idle
    /\ request' = [request EXCEPT ![p] = Idle]
    /\ UNCHANGED <<closed, sales, account, rank, override, payout, shares, changes, edits, begun, payments>>
-----------------------------------------------------------------------------
\* A write of the row of m, by p if it is a request; whoever is no longer blocked is not barred.
SetOverride(m, o, requests) ==
    /\ override' = [override EXCEPT ![m] = o]
    /\ request' = [q \in Procs |->
          IF requests[q].op = "distribute" /\ ~Blocked(o)
          THEN [requests[q] EXCEPT !.barred = @ \ {m}] ELSE requests[q]]
    /\ UNCHANGED <<closed, sales, account, rank, payout, shares, changes, begun, payments>>

\* addGlobalBonusMember
Add ==
    \E m \in Members, n \in ManualPortions :
        /\ closed /\ edits < MaxEdits /\ edits' = edits + 1
        /\ SetOverride(m, [status |-> "active", manual |-> TRUE, portions |-> n], request)

\* remove-, freeze- and unfreezeGlobalBonusMember: the overrides are read first.
Edit(p) ==
    \E op \in {"remove", "freeze", "unfreeze"}, m \in Members :
        /\ request[p] = Idle /\ closed /\ edits < MaxEdits
        /\ op = "unfreeze" => override[m] # NoOverride
        /\ edits' = edits + 1
        /\ request' = [request EXCEPT ![p] = [op |-> op, uid |-> m, manual |-> override[m].manual]]
        /\ UNCHANGED <<closed, sales, account, rank, override, payout, shares, changes, begun, payments>>

\* An UPDATE finds the row that is there now, or none.
Updated(m, status) == IF override[m] = NoOverride THEN NoOverride ELSE [override[m] EXCEPT !.status = status]

Upserted(m, status) == [status |-> status, manual |-> FALSE, portions |-> Portions(account[m], rank[m])]

Remove(p) ==
    /\ request[p].op = "remove"
    /\ LET m == request[p].uid IN
          SetOverride(m, IF request[p].manual THEN NoOverride ELSE Upserted(m, "removed"),
                      [request EXCEPT ![p] = Idle])
    /\ UNCHANGED edits

Freeze(p) ==
    /\ request[p].op = "freeze"
    /\ LET m == request[p].uid IN
          SetOverride(m, IF request[p].manual THEN Updated(m, "frozen") ELSE Upserted(m, "frozen"),
                      [request EXCEPT ![p] = Idle])
    /\ UNCHANGED edits

Unfreeze(p) ==
    /\ request[p].op = "unfreeze"
    /\ LET m == request[p].uid IN
          SetOverride(m, IF request[p].manual THEN Updated(m, "active") ELSE NoOverride,
                      [request EXCEPT ![p] = Idle])
    /\ UNCHANGED edits

Next ==
    \/ Sell \/ CloseYear \/ Promote \/ Add
    \/ \E p \in Procs :
          Distribute(p) \/ Read(p) \/ Pay(p) \/ Fail(p) \/ Edit(p) \/ Remove(p) \/ Freeze(p) \/ Unfreeze(p)

Spec == Init /\ [][Next]_vars
-----------------------------------------------------------------------------
TypeOK ==
    /\ account \in [Members -> Accounts] /\ rank \in [Members -> RankLevels]
    /\ \A m \in Members :
          /\ override[m].status \in {"none", "active", "removed", "frozen"}
          /\ override[m].manual => override[m].portions \in ManualPortions
          /\ override[m].portions \in ManualPortions \cup 0 .. 4
    /\ payout.paid => closed

(***************************************************************************)
(* What members are paid is what the row of the year says, however often   *)
(* it is distributed: the portions add up, and the shares to the pool but  *)
(* for half a centavo a portion.  (distributeGlobalBonus)                  *)
(***************************************************************************)
PoolSpent ==
    LET portions == SumFunctionOnSet([m \in Members |-> shares[m].portions], Members)
        amount   == SumFunctionOnSet([m \in Members |-> shares[m].amount], Members)
    IN  /\ portions = payout.portions
        /\ amount = payout.perPortion * portions
        /\ portions > 0 => 2 * (amount - payout.bonus) \in -portions .. portions

(***************************************************************************)
(* A member that an administrator has removed or frozen since before a     *)
(* distribution began is not paid by it, whatever it becomes meanwhile and *)
(* whoever edits its row.  (calculateGlobalBonus)                          *)
(***************************************************************************)
BlockedUnpaid ==
    [][\A p \in Procs :
          payments' > payments /\ request[p].op = "distribute" /\ request'[p] = Idle
             => \A m \in request[p].barred : shares'[m] = Unpaid]_vars

(***************************************************************************)
(* "Guard: never silently re-distribute a year that was already paid out." *)
(* (src/services/globalBonus.js:402)                                       *)
(***************************************************************************)
PaidOnce == payments <= 1
=============================================================================
