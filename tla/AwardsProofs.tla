---------------------------- MODULE AwardsProofs ----------------------------
(***************************************************************************)
(* Proofs about the two parts of MCAwards, for any number of requests,     *)
(* members, repurchases, ranks, refreshes and flags: the global bonus      *)
(* gives out no more than its pool and pays nobody who is barred; awards   *)
(* of ranks are numbered in order and paid for by the downline's           *)
(* repurchases; the incremental points reconcile with the tables.          *)
(***************************************************************************)
EXTENDS MCAwards, Sums

\* A step of the whole is a step of the part it is about.
LEMMA AwardSteps ==
    ASSUME [NextRanking \/ NextBonus]_awardsVars
    PROVE  [Next]_vars /\ [Bonus!Next]_(Bonus!vars)
BY DEF NextRanking, NextBonus, awardsVars, bonusVars, vars, Bonus!vars

-----------------------------------------------------------------------------
\* The global bonus.

\* The instance's sums are sums.
LEMMA BonusSum ==
    ASSUME NEW f, NEW S
    PROVE  Bonus!SumFunctionOnSet(f, S) = SumFunctionOnSet(f, S)
BY DEF Bonus!SumFunctionOnSet, Bonus!FoldFunctionOnSet, Bonus!MapThenFoldSet,
       SumFunctionOnSet, FoldFunctionOnSet, MapThenFoldSet

\* What is assumed of members and the bounds.
LEMMA BonusFacts ==
    /\ IsFiniteSet(Earners)
    /\ Accounts \subseteq [package : Nat, stockist : 0 .. 4]
    /\ FirstAccount \in [Earners -> Accounts] /\ FirstRank \in [Earners -> RankLevels]
    /\ RankLevels \subseteq 0 .. 10 /\ Sales \subseteq Nat /\ ManualPortions \subseteq Nat \ {0}
<1>1. Bonus!IsFiniteSet(Earners) <=> IsFiniteSet(Earners)
  BY DEF Bonus!IsFiniteSet, IsFiniteSet
<1>. QED
  BY <1>1, BonusAssumption DEF Bonus!GlobalBonusAssumption

OverrideRow == [status : {"none", "active", "removed", "frozen"}, manual : BOOLEAN, portions : Nat]

SeenTyped(seen) ==
    /\ DOMAIN seen \subseteq Bonus!Sources
    /\ "account" \in DOMAIN seen => seen["account"] \in [Earners -> Accounts]
    /\ "rank" \in DOMAIN seen => seen["rank"] \in [Earners -> RankLevels]
    /\ "override" \in DOMAIN seen => seen["override"] \in [Earners -> OverrideRow]

RequestTyped(r) ==
    \/ r = Bonus!Idle
    \/ /\ r = [op |-> "distribute", seen |-> r.seen, barred |-> r.barred]
       /\ SeenTyped(r.seen) /\ r.barred \subseteq Earners
    \/ r \in [op : {"remove", "freeze", "unfreeze"}, uid : Earners, manual : BOOLEAN]

BonusTypes ==
    /\ sales \in Nat
    /\ account \in [Earners -> Accounts] /\ rank \in [Earners -> RankLevels]
    /\ override \in [Earners -> OverrideRow]
    /\ request = [p \in Procs |-> request[p]]
    /\ \A p \in Procs : RequestTyped(request[p])

\* Whoever is barred from a distribution is blocked now, and was when it read
\* the overrides.
BarredBlocked ==
    \A p \in Procs : request[p].op = "distribute" =>
        \A m \in request[p].barred :
            /\ Bonus!Blocked(override[m])
            /\ "override" \in DOMAIN request[p].seen => Bonus!Blocked(request[p].seen["override"][m])

\* The portions of an account are a number.
LEMMA PortionsNat ==
    ASSUME NEW a \in Accounts, NEW level \in RankLevels
    PROVE  Bonus!Portions(a, level) \in Nat
<1>1. a.stockist \in 0 .. 4 /\ level \in 0 .. 10
  BY BonusFacts
<1>2. Bonus!Stockist(a.stockist) \in Nat
  BY <1>1 DEF Bonus!Stockist
<1>. QED
  BY <1>2 DEF Bonus!Portions

\* And so are those of a recipient; a blocked one has none.
LEMMA RecipientNat ==
    ASSUME NEW a \in Accounts, NEW level \in RankLevels, NEW o \in OverrideRow
    PROVE  /\ Bonus!Recipient(a, level, o) \in Nat
           /\ Bonus!Blocked(o) => Bonus!Recipient(a, level, o) = 0
<1>1. Bonus!Portions(a, level) \in Nat
  BY PortionsNat
<1>2. /\ o.portions \in Nat /\ o.manual \in BOOLEAN
      /\ o.status \in {"none", "active", "removed", "frozen"}
  BY DEF OverrideRow
<1>3. CASE o.status = "none"
  BY <1>1, <1>3 DEF Bonus!Recipient, Bonus!Blocked
<1>4. CASE o.status \in {"removed", "frozen"}
  BY <1>1, <1>4 DEF Bonus!Recipient, Bonus!Blocked
<1>5. CASE o.status = "active" /\ o.manual
  BY <1>1, <1>2, <1>5 DEF Bonus!Recipient, Bonus!Blocked
<1>6. CASE o.status = "active" /\ ~o.manual
  BY <1>1, <1>2, <1>6 DEF Bonus!Recipient, Bonus!Blocked
<1>. QED
  BY <1>2, <1>3, <1>4, <1>5, <1>6

\* A pool divided into n portions and rounded differs from the pool by half a
\* centavo a portion.
LEMMA Rounding ==
    ASSUME NEW bonus \in Nat, NEW n \in Nat, n > 0
    PROVE  /\ Bonus!PerPortion(bonus, n) \in Nat
           /\ 2 * (Bonus!PerPortion(bonus, n) * n - bonus) \in -n .. n
<1>1. PICK a \in Nat : a = 2 * bonus + n
  OBVIOUS
<1>2. PICK d \in Nat : d = 2 * n /\ d > 0
  OBVIOUS
<1>3. PICK q : q = a \div d
  OBVIOUS
<1>4. q \in Nat /\ q * d <= a /\ a < (q + 1) * d
  BY <1>1, <1>2, <1>3
<1>5. PICK k \in Nat : k = q * n
  BY <1>4
<1>6. q * d = 2 * k /\ (q + 1) * d = 2 * k + 2 * n
  BY <1>2, <1>4, <1>5
<1>7. 2 * k <= 2 * bonus + n /\ 2 * bonus + n < 2 * k + 2 * n
  BY <1>1, <1>4, <1>6
<1>8. 2 * (k - bonus) \in -n .. n
  BY <1>7
<1>9. Bonus!PerPortion(bonus, n) = q
  BY <1>1, <1>2, <1>3 DEF Bonus!PerPortion
<1>. QED
  BY <1>4, <1>5, <1>8, <1>9

\* The first state.
LEMMA BonusInit ==
    ASSUME Bonus!Init
    PROVE  BonusTypes /\ BarredBlocked /\ Bonus!PoolSpent
<1>1. BonusTypes
  <2>1. Bonus!NoOverride \in OverrideRow
    BY DEF Bonus!NoOverride, OverrideRow
  <2>. QED
    BY <2>1, BonusFacts DEF Bonus!Init, BonusTypes, RequestTyped
<1>2. BarredBlocked
  BY DEF Bonus!Init, BarredBlocked, Bonus!Idle
<1>3. Bonus!PoolSpent
  <2>1. PICK f : f = [m \in Earners |-> shares[m].portions]
    OBVIOUS
  <2>2. PICK g : g = [m \in Earners |-> shares[m].amount]
    OBVIOUS
  <2>3. \A m \in Earners : f[m] = 0 /\ g[m] = 0
    BY <2>1, <2>2 DEF Bonus!Init, Bonus!Unpaid
  <2>4. SumFunctionOnSet(f, Earners) = 0 /\ SumFunctionOnSet(g, Earners) = 0
    BY <2>3, BonusFacts, SumZero
  <2>5. payout.portions = 0 /\ payout.perPortion = 0
    BY DEF Bonus!Init, Bonus!NoPayout
  <2>. QED
    BY <2>1, <2>2, <2>4, <2>5, BonusSum DEF Bonus!PoolSpent
<1>. QED
  BY <1>1, <1>2, <1>3

\* A request that becomes a typed one leaves the requests typed.
LEMMA RequestSet ==
    ASSUME request = [p \in Procs |-> request[p]], \A p \in Procs : RequestTyped(request[p]),
           NEW p \in Procs, NEW r, RequestTyped(r), request' = [request EXCEPT ![p] = r]
    PROVE  /\ request' = [q \in Procs |-> request'[q]]
           /\ \A q \in Procs : RequestTyped(request'[q])
           /\ request'[p] = r /\ \A q \in Procs : q # p => request'[q] = request[q]
<1>1. /\ request'[p] = r /\ \A q \in Procs : q # p => request'[q] = request[q]
      /\ request' = [q \in Procs |-> request'[q]]
  OBVIOUS
<1>. QED
  BY <1>1

\* A row of an override is set by a step that leaves the request of p typed.
LEMMA OverrideSet ==
    ASSUME BonusTypes, BarredBlocked, NEW m \in Earners, NEW o \in OverrideRow, NEW requests,
           requests = [p \in Procs |-> requests[p]],
           \A p \in Procs : RequestTyped(requests[p]),
           \A p \in Procs : requests[p].op = "distribute" => requests[p] = request[p],
           Bonus!SetOverride(m, o, requests)
    PROVE  BonusTypes' /\ BarredBlocked'
<1>1. /\ override' = [override EXCEPT ![m] = o]
      /\ request' = [q \in Procs |->
            IF requests[q].op = "distribute" /\ ~Bonus!Blocked(o)
            THEN [requests[q] EXCEPT !.barred = @ \ {m}] ELSE requests[q]]
      /\ UNCHANGED <<sales, account, rank>>
  BY DEF Bonus!SetOverride
<1>2. ASSUME NEW q \in Procs
      PROVE  /\ RequestTyped(request'[q])
             /\ request'[q].op = "distribute" =>
                    /\ request[q].op = "distribute" /\ request'[q].seen = request[q].seen
                    /\ request'[q].barred \subseteq request[q].barred
                    /\ ~Bonus!Blocked(o) => m \notin request'[q].barred
  <2>1. CASE requests[q].op = "distribute"
    <3>1. requests[q] = request[q] /\ RequestTyped(request[q])
      BY <2>1 DEF BonusTypes
    <3>i. /\ request[q] = [op |-> "distribute", seen |-> request[q].seen, barred |-> request[q].barred]
          /\ request[q].op = "distribute"
      BY <2>1, <3>1 DEF RequestTyped, Bonus!Idle
    <3>2. PICK seen, barred : request[q] = [op |-> "distribute", seen |-> seen, barred |-> barred]
      BY <3>i
    <3>3. SeenTyped(seen) /\ barred \subseteq Earners
      BY <3>1, <3>2 DEF RequestTyped, Bonus!Idle
    <3>4. request'[q] = [op |-> "distribute", seen |-> seen,
                         barred |-> IF Bonus!Blocked(o) THEN barred ELSE barred \ {m}]
      <4>1. CASE Bonus!Blocked(o)
        BY <1>1, <2>1, <3>1, <3>2, <4>1
      <4>2. CASE ~Bonus!Blocked(o)
        <5>1. request'[q] = [requests[q] EXCEPT !.barred = @ \ {m}]
          BY <1>1, <2>1, <4>2
        <5>2. PICK x : x = requests[q]
          OBVIOUS
        <5>3. x = [op |-> "distribute", seen |-> seen, barred |-> barred]
          BY <3>1, <3>2, <5>2
        <5>4. PICK rest : rest = barred \ {m}
          OBVIOUS
        <5>5. [x EXCEPT !.barred = @ \ {m}] = [x EXCEPT !.barred = rest]
          BY <5>3, <5>4
        <5>6. [x EXCEPT !.barred = rest] = [op |-> "distribute", seen |-> seen, barred |-> rest]
          BY <5>3
        <5>. QED
          BY <4>2, <5>1, <5>2, <5>4, <5>5, <5>6
      <4>. QED
        BY <4>1, <4>2
    <3>. QED
      BY <3>2, <3>3, <3>4 DEF RequestTyped
  <2>2. CASE requests[q].op # "distribute"
    BY <1>1, <2>2
  <2>. QED
    BY <2>1, <2>2
<1>3. BonusTypes'
  BY <1>1, <1>2 DEF BonusTypes
<1>4. BarredBlocked'
  <2>. SUFFICES ASSUME NEW p \in Procs, request'[p].op = "distribute", NEW x \in request'[p].barred
                PROVE  /\ Bonus!Blocked(override'[x])
                       /\ "override" \in DOMAIN request'[p].seen => Bonus!Blocked(request'[p].seen["override"][x])
    BY DEF BarredBlocked, Bonus!Blocked
  <2>1. /\ request[p].op = "distribute" /\ request'[p].seen = request[p].seen
        /\ x \in request[p].barred /\ (~Bonus!Blocked(o) => x # m)
    BY <1>2
  <2>2. /\ Bonus!Blocked(override[x])
        /\ "override" \in DOMAIN request[p].seen => Bonus!Blocked(request[p].seen["override"][x])
    BY <2>1 DEF BarredBlocked
  <2>3. x \in Earners /\ RequestTyped(request[p])
    BY <2>1 DEF BonusTypes, RequestTyped, Bonus!Idle
  <2>4. override'[x] = IF x = m THEN o ELSE override[x]
    BY <1>1, <2>3 DEF BonusTypes
  <2>. QED
    BY <2>1, <2>2, <2>4
<1>. QED
  BY <1>3, <1>4

\* What one query of a distribution reads is of its type.
LEMMA ReadTyped ==
    ASSUME BonusTypes, BarredBlocked, NEW p \in Procs, Bonus!Read(p)
    PROVE  BonusTypes' /\ BarredBlocked'
<1>1. PICK source \in Bonus!Sources \ DOMAIN request[p].seen :
          request' = [request EXCEPT ![p].seen =
              [s \in DOMAIN @ \cup {source} |-> IF s = source THEN Bonus!Committed(s) ELSE @[s]]]
  BY DEF Bonus!Read
<1>2. UNCHANGED <<sales, account, rank, override>> /\ request[p].op = "distribute"
  BY DEF Bonus!Read
<1>3. /\ request[p] = [op |-> "distribute", seen |-> request[p].seen, barred |-> request[p].barred]
      /\ SeenTyped(request[p].seen) /\ request[p].barred \subseteq Earners
  BY <1>2 DEF BonusTypes, RequestTyped, Bonus!Idle
<1>4. PICK seen, barred : request[p] = [op |-> "distribute", seen |-> seen, barred |-> barred]
  BY <1>3
<1>5. PICK now : now = [s \in DOMAIN seen \cup {source} |-> IF s = source THEN Bonus!Committed(s) ELSE seen[s]]
  OBVIOUS
<1>6. request' = [request EXCEPT ![p] = [op |-> "distribute", seen |-> now, barred |-> barred]]
  <2>1. request' = [request EXCEPT ![p] = [request[p] EXCEPT !.seen =
              [s \in DOMAIN @ \cup {source} |-> IF s = source THEN Bonus!Committed(s) ELSE @[s]]]]
    BY <1>1
  <2>2. PICK y : y = request[p]
    OBVIOUS
  <2>3. y = [op |-> "distribute", seen |-> seen, barred |-> barred]
    BY <1>4, <2>2
  <2>4. [y EXCEPT !.seen = now] = [op |-> "distribute", seen |-> now, barred |-> barred]
    BY <2>3
  <2>5. request[p].seen = seen
    BY <1>4
  <2>. QED
    BY <1>5, <2>1, <2>2, <2>4, <2>5
<1>7. SeenTyped(seen) /\ barred \subseteq Earners /\ source \in Bonus!Sources /\ source \notin DOMAIN seen
  BY <1>1, <1>3, <1>4
<1>8. SeenTyped(now)
  <2>1. DOMAIN now \subseteq Bonus!Sources
    BY <1>5, <1>7 DEF SeenTyped
  <2>2. CASE source = "account"
    <3>1. Bonus!Committed(source) = account
      BY <2>2 DEF Bonus!Committed
    <3>2. now["account"] = account
      BY <1>5, <2>2, <3>1
    <3>. QED
      BY <1>5, <1>7, <2>1, <2>2, <3>2 DEF SeenTyped, BonusTypes
  <2>3. CASE source = "rank"
    <3>1. Bonus!Committed(source) = rank
      BY <2>3 DEF Bonus!Committed
    <3>2. now["rank"] = rank
      BY <1>5, <2>3, <3>1
    <3>. QED
      BY <1>5, <1>7, <2>1, <2>3, <3>2 DEF SeenTyped, BonusTypes
  <2>4. CASE source = "override"
    <3>1. Bonus!Committed(source) = override
      BY <2>4 DEF Bonus!Committed
    <3>2. now["override"] = override
      BY <1>5, <2>4, <3>1
    <3>. QED
      BY <1>5, <1>7, <2>1, <2>4, <3>2 DEF SeenTyped, BonusTypes
  <2>. QED
    BY <1>7, <2>2, <2>3, <2>4 DEF Bonus!Sources
<1>9. RequestTyped([op |-> "distribute", seen |-> now, barred |-> barred])
  BY <1>7, <1>8 DEF RequestTyped
<1>10. /\ request' = [q \in Procs |-> request'[q]]
       /\ \A q \in Procs : RequestTyped(request'[q])
       /\ request'[p] = [op |-> "distribute", seen |-> now, barred |-> barred]
       /\ \A q \in Procs : q # p => request'[q] = request[q]
  <2>1. request = [q \in Procs |-> request[q]] /\ \A q \in Procs : RequestTyped(request[q])
    BY DEF BonusTypes
  <2>. QED
    BY <1>6, <1>9, <2>1, RequestSet
<1>11. BonusTypes'
  BY <1>2, <1>10 DEF BonusTypes
<1>12. BarredBlocked'
  <2>. SUFFICES ASSUME NEW q \in Procs, request'[q].op = "distribute", NEW x \in request'[q].barred
                PROVE  /\ Bonus!Blocked(override'[x])
                       /\ "override" \in DOMAIN request'[q].seen => Bonus!Blocked(request'[q].seen["override"][x])
    BY DEF BarredBlocked, Bonus!Blocked
  <2>1. override' = override
    BY <1>2
  <2>2. CASE q # p
    BY <1>10, <2>1, <2>2 DEF BarredBlocked
  <2>3. CASE q = p
    <3>1. x \in barred /\ request'[q].seen = now /\ request[p].op = "distribute" /\ request[p].seen = seen
          /\ x \in request[p].barred
      BY <1>4, <1>10, <2>3
    <3>2. /\ Bonus!Blocked(override[x])
          /\ "override" \in DOMAIN seen => Bonus!Blocked(seen["override"][x])
      BY <3>1 DEF BarredBlocked
    <3>3. CASE source = "override"
      <4>1. Bonus!Committed(source) = override
        BY <3>3 DEF Bonus!Committed
      <4>2. now["override"] = override
        BY <1>5, <3>3, <4>1
      <4>. QED
        BY <2>1, <3>1, <3>2, <4>2
    <3>4. CASE source # "override"
      <4>1. "override" \in DOMAIN now => "override" \in DOMAIN seen /\ now["override"] = seen["override"]
        BY <1>5, <3>4
      <4>. QED
        BY <2>1, <3>1, <3>2, <4>1
    <3>. QED
      BY <3>3, <3>4
  <2>. QED
    BY <2>2, <2>3
<1>. QED
  BY <1>11, <1>12

\* What is paid adds up.
LEMMA PaySpends ==
    ASSUME BonusTypes, NEW p \in Procs, Bonus!Pay(p)
    PROVE  Bonus!PoolSpent'
<1>1. PICK r : r = request[p].seen
  OBVIOUS
<1>2. PICK portions : portions = [m \in Earners |->
                          Bonus!Recipient(r["account"][m], r["rank"][m], r["override"][m])]
  OBVIOUS
<1>3. PICK total : total = SumFunctionOnSet(portions, Earners)
  OBVIOUS
<1>4. PICK bonus : bonus = 2 * sales
  OBVIOUS
<1>5. PICK per : per = Bonus!PerPortion(bonus, total)
  OBVIOUS
<1>6. /\ request[p].op = "distribute" /\ DOMAIN r = Bonus!Sources
      /\ payout' = [paid |-> TRUE, bonus |-> bonus, portions |-> total, perPortion |-> per]
      /\ shares' = [m \in Earners |->
             IF portions[m] = 0 THEN Bonus!Kept(m) ELSE [portions |-> portions[m], amount |-> per * portions[m]]]
  BY <1>1, <1>2, <1>3, <1>4, <1>5, BonusSum DEF Bonus!Pay
<1>7. SeenTyped(r) /\ bonus \in Nat
  BY <1>1, <1>4, <1>6 DEF BonusTypes, RequestTyped, Bonus!Idle
<1>8. ASSUME NEW m \in Earners
      PROVE  portions[m] \in Nat
  <2>1. r["account"][m] \in Accounts /\ r["rank"][m] \in RankLevels /\ r["override"][m] \in OverrideRow
    BY <1>6, <1>7 DEF SeenTyped, Bonus!Sources
  <2>. QED
    BY <1>2, <2>1, RecipientNat
<1>9. total \in Nat
  BY <1>3, <1>8, BonusFacts, SumNat
<1>10. per \in Nat /\ (total > 0 => 2 * (per * total - bonus) \in -total .. total)
  <2>1. CASE total = 0
    BY <1>5, <2>1 DEF Bonus!PerPortion
  <2>2. CASE total > 0
    BY <1>5, <1>7, <1>9, <2>2, Rounding
  <2>. QED
    BY <1>9, <2>1, <2>2
<1>11. PICK f : f = [m \in Earners |-> shares'[m].portions]
  OBVIOUS
<1>12. PICK g : g = [m \in Earners |-> shares'[m].amount]
  OBVIOUS
<1>13. ASSUME NEW m \in Earners
       PROVE  f[m] = portions[m] /\ g[m] = per * portions[m]
  <2>1. CASE portions[m] = 0
    <3>1. shares'[m] = [portions |-> 0, amount |-> 0]
      BY <1>6, <2>1 DEF Bonus!Kept, Bonus!Unpaid
    <3>2. per * 0 = 0
      BY <1>10
    <3>. QED
      BY <1>11, <1>12, <2>1, <3>1, <3>2
  <2>2. CASE portions[m] # 0
    BY <1>6, <1>11, <1>12, <2>2
  <2>. QED
    BY <2>1, <2>2
<1>14. SumFunctionOnSet(f, Earners) = total
  BY <1>3, <1>13, BonusFacts, SumSame
<1>15. SumFunctionOnSet(g, Earners) = per * total
  BY <1>3, <1>8, <1>10, <1>13, BonusFacts, SumScale
<1>16. /\ Bonus!SumFunctionOnSet([m \in Earners |-> shares[m].portions], Earners)' = total
       /\ Bonus!SumFunctionOnSet([m \in Earners |-> shares[m].amount], Earners)' = per * total
  BY <1>11, <1>12, <1>14, <1>15, BonusSum
<1>17. payout'.portions = total /\ payout'.perPortion = per /\ payout'.bonus = bonus
  BY <1>6
<1>. QED
  BY <1>10, <1>16, <1>17 DEF Bonus!PoolSpent

\* Each step keeps the three.
LEMMA BonusStep ==
    ASSUME BonusTypes, BarredBlocked, Bonus!PoolSpent, [Bonus!Next]_(Bonus!vars)
    PROVE  BonusTypes' /\ BarredBlocked' /\ Bonus!PoolSpent'
<1>t. request = [p \in Procs |-> request[p]] /\ \A p \in Procs : RequestTyped(request[p])
  BY DEF BonusTypes
<1>i. RequestTyped(Bonus!Idle) /\ Bonus!Idle.op = "idle"
  BY DEF RequestTyped, Bonus!Idle
<1>0. ASSUME UNCHANGED <<shares, payout>>
      PROVE  Bonus!PoolSpent'
  BY <1>0 DEF Bonus!PoolSpent
<1>1. CASE UNCHANGED Bonus!vars
  BY <1>1 DEF Bonus!vars, BonusTypes, BarredBlocked, Bonus!PoolSpent
<1>2. CASE Bonus!Sell
  <2>1. sales' \in Nat /\ UNCHANGED <<account, rank, override, request, shares, payout>>
    BY <1>2, BonusFacts DEF Bonus!Sell
  <2>. QED
    BY <1>0, <2>1 DEF BonusTypes, BarredBlocked
<1>3. CASE Bonus!CloseYear
  <2>1. UNCHANGED <<sales, account, rank, override, request, shares, payout>>
    BY <1>3 DEF Bonus!CloseYear
  <2>. QED
    BY <1>0, <2>1 DEF BonusTypes, BarredBlocked
<1>4. CASE Bonus!Promote
  <2>1. /\ account' \in [Earners -> Accounts] /\ rank' \in [Earners -> RankLevels]
        /\ UNCHANGED <<sales, override, request, shares, payout>>
    BY <1>4 DEF Bonus!Promote, BonusTypes
  <2>. QED
    BY <1>0, <2>1 DEF BonusTypes, BarredBlocked
<1>5. CASE Bonus!Add
  <2>1. PICK m \in Earners, n \in ManualPortions :
            Bonus!SetOverride(m, [status |-> "active", manual |-> TRUE, portions |-> n], request)
    BY <1>5 DEF Bonus!Add
  <2>2. [status |-> "active", manual |-> TRUE, portions |-> n] \in OverrideRow
    BY BonusFacts DEF OverrideRow
  <2>3. UNCHANGED <<shares, payout>>
    BY <2>1 DEF Bonus!SetOverride
  <2>. QED
    BY <1>0, <1>t, <2>1, <2>2, <2>3, OverrideSet
<1>6. ASSUME NEW p \in Procs, Bonus!Distribute(p)
      PROVE  BonusTypes' /\ BarredBlocked' /\ Bonus!PoolSpent'
  <2>1. PICK r : r = [op |-> "distribute", seen |-> <<>>, barred |-> {m \in Earners : Bonus!Blocked(override[m])}]
    OBVIOUS
  <2>2. request' = [request EXCEPT ![p] = r] /\ UNCHANGED <<sales, account, rank, override, shares, payout>>
    BY <1>6, <2>1 DEF Bonus!Distribute
  <2>3. RequestTyped(r) /\ r.seen = <<>> /\ DOMAIN r.seen = {}
        /\ r.barred = {m \in Earners : Bonus!Blocked(override[m])}
    BY <2>1 DEF RequestTyped, SeenTyped
  <2>4. /\ request' = [q \in Procs |-> request'[q]]
        /\ \A q \in Procs : RequestTyped(request'[q])
        /\ request'[p] = r /\ \A q \in Procs : q # p => request'[q] = request[q]
    BY <1>t, <2>2, <2>3, RequestSet
  <2>5. BonusTypes'
    BY <2>2, <2>4 DEF BonusTypes
  <2>6. BarredBlocked'
    BY <2>2, <2>3, <2>4 DEF BarredBlocked
  <2>. QED
    BY <1>0, <2>2, <2>5, <2>6
<1>7. ASSUME NEW p \in Procs, Bonus!Read(p)
      PROVE  BonusTypes' /\ BarredBlocked' /\ Bonus!PoolSpent'
  <2>1. UNCHANGED <<shares, payout>>
    BY <1>7 DEF Bonus!Read
  <2>. QED
    BY <1>0, <1>7, <2>1, ReadTyped
<1>r. ASSUME NEW p \in Procs, request' = [request EXCEPT ![p] = Bonus!Idle],
             UNCHANGED <<sales, account, rank, override>>
      PROVE  BonusTypes' /\ BarredBlocked'
  <2>1. /\ request' = [q \in Procs |-> request'[q]]
        /\ \A q \in Procs : RequestTyped(request'[q])
        /\ request'[p] = Bonus!Idle /\ \A q \in Procs : q # p => request'[q] = request[q]
    BY <1>i, <1>r, <1>t, RequestSet
  <2>2. BonusTypes'
    BY <1>r, <2>1 DEF BonusTypes
  <2>3. BarredBlocked'
    BY <1>i, <1>r, <2>1 DEF BarredBlocked
  <2>. QED
    BY <2>2, <2>3
<1>8. ASSUME NEW p \in Procs, Bonus!Pay(p)
      PROVE  BonusTypes' /\ BarredBlocked' /\ Bonus!PoolSpent'
  <2>1. request' = [request EXCEPT ![p] = Bonus!Idle] /\ UNCHANGED <<sales, account, rank, override>>
    BY <1>8 DEF Bonus!Pay
  <2>. QED
    BY <1>8, <1>r, <2>1, PaySpends
<1>9. ASSUME NEW p \in Procs, Bonus!Fail(p)
      PROVE  BonusTypes' /\ BarredBlocked' /\ Bonus!PoolSpent'
  <2>1. request' = [request EXCEPT ![p] = Bonus!Idle] /\ UNCHANGED <<sales, account, rank, override, shares, payout>>
    BY <1>9 DEF Bonus!Fail
  <2>. QED
    BY <1>0, <1>r, <2>1
<1>10. ASSUME NEW p \in Procs, Bonus!Edit(p)
       PROVE  BonusTypes' /\ BarredBlocked' /\ Bonus!PoolSpent'
  <2>1. PICK op \in {"remove", "freeze", "unfreeze"}, m \in Earners :
            /\ request' = [request EXCEPT ![p] = [op |-> op, uid |-> m, manual |-> override[m].manual]]
            /\ UNCHANGED <<sales, account, rank, override, shares, payout>>
    BY <1>10 DEF Bonus!Edit
  <2>2. PICK r : r = [op |-> op, uid |-> m, manual |-> override[m].manual]
    OBVIOUS
  <2>3. override[m].manual \in BOOLEAN
    BY DEF BonusTypes, OverrideRow
  <2>4. RequestTyped(r) /\ r.op # "distribute"
    BY <2>2, <2>3 DEF RequestTyped
  <2>5. /\ request' = [q \in Procs |-> request'[q]]
        /\ \A q \in Procs : RequestTyped(request'[q])
        /\ request'[p] = r /\ \A q \in Procs : q # p => request'[q] = request[q]
    BY <1>t, <2>1, <2>2, <2>4, RequestSet
  <2>6. BonusTypes'
    BY <2>1, <2>5 DEF BonusTypes
  <2>7. BarredBlocked'
    BY <2>1, <2>4, <2>5 DEF BarredBlocked
  <2>. QED
    BY <1>0, <2>1, <2>6, <2>7
<1>s. ASSUME NEW p \in Procs, request[p].op \in {"remove", "freeze", "unfreeze"}, NEW o \in OverrideRow,
             Bonus!SetOverride(request[p].uid, o, [request EXCEPT ![p] = Bonus!Idle])
      PROVE  BonusTypes' /\ BarredBlocked' /\ Bonus!PoolSpent'
  <2>1. PICK m : m = request[p].uid
    OBVIOUS
  <2>2. m \in Earners
    BY <1>s, <1>t, <2>1 DEF RequestTyped, Bonus!Idle
  <2>3. PICK requests : requests = [request EXCEPT ![p] = Bonus!Idle]
    OBVIOUS
  <2>4. /\ requests = [q \in Procs |-> requests[q]]
        /\ \A q \in Procs : requests[q] = IF q = p THEN Bonus!Idle ELSE request[q]
    BY <1>t, <2>3
  <2>5. /\ \A q \in Procs : RequestTyped(requests[q])
        /\ \A q \in Procs : requests[q].op = "distribute" => requests[q] = request[q]
    BY <1>i, <1>t, <2>4
  <2>6. UNCHANGED <<shares, payout>>
    BY <1>s DEF Bonus!SetOverride
  <2>7. Bonus!SetOverride(m, o, requests)
    BY <1>s, <2>1, <2>3
  <2>. HIDE <1>s
  <2>8. BonusTypes' /\ BarredBlocked'
    BY <2>2, <2>4, <2>5, <2>7, OverrideSet
  <2>. QED
    BY <1>0, <2>6, <2>8
<1>u. ASSUME NEW m \in Earners, NEW status \in {"active", "removed", "frozen"}
      PROVE  /\ Bonus!NoOverride \in OverrideRow /\ Bonus!Updated(m, status) \in OverrideRow
             /\ Bonus!Upserted(m, status) \in OverrideRow
  <2>1. override[m] \in OverrideRow /\ account[m] \in Accounts /\ rank[m] \in RankLevels
    BY DEF BonusTypes
  <2>2. Bonus!Portions(account[m], rank[m]) \in Nat
    BY <2>1, PortionsNat
  <2>. QED
    BY <2>1, <2>2 DEF OverrideRow, Bonus!NoOverride, Bonus!Updated, Bonus!Upserted
<1>m. ASSUME NEW p \in Procs, request[p].op \in {"remove", "freeze", "unfreeze"}
      PROVE  request[p].uid \in Earners
  BY <1>m, <1>t DEF RequestTyped, Bonus!Idle
<1>11. ASSUME NEW p \in Procs, Bonus!Remove(p)
       PROVE  BonusTypes' /\ BarredBlocked' /\ Bonus!PoolSpent'
  <2>1. request[p].op \in {"remove", "freeze", "unfreeze"}
    BY <1>11 DEF Bonus!Remove
  <2>2. PICK o : o = IF request[p].manual THEN Bonus!NoOverride ELSE Bonus!Upserted(request[p].uid, "removed")
    OBVIOUS
  <2>3. o \in OverrideRow
    BY <1>m, <1>u, <2>1, <2>2
  <2>4. Bonus!SetOverride(request[p].uid, o, [request EXCEPT ![p] = Bonus!Idle])
    BY <1>11, <2>2 DEF Bonus!Remove
  <2>. QED
    BY <1>s, <2>1, <2>3, <2>4
<1>12. ASSUME NEW p \in Procs, Bonus!Freeze(p)
       PROVE  BonusTypes' /\ BarredBlocked' /\ Bonus!PoolSpent'
  <2>1. request[p].op \in {"remove", "freeze", "unfreeze"}
    BY <1>12 DEF Bonus!Freeze
  <2>2. PICK o : o = IF request[p].manual THEN Bonus!Updated(request[p].uid, "frozen")
                     ELSE Bonus!Upserted(request[p].uid, "frozen")
    OBVIOUS
  <2>3. o \in OverrideRow
    BY <1>m, <1>u, <2>1, <2>2
  <2>4. Bonus!SetOverride(request[p].uid, o, [request EXCEPT ![p] = Bonus!Idle])
    BY <1>12, <2>2 DEF Bonus!Freeze
  <2>. QED
    BY <1>s, <2>1, <2>3, <2>4
<1>13. ASSUME NEW p \in Procs, Bonus!Unfreeze(p)
       PROVE  BonusTypes' /\ BarredBlocked' /\ Bonus!PoolSpent'
  <2>1. request[p].op \in {"remove", "freeze", "unfreeze"}
    BY <1>13 DEF Bonus!Unfreeze
  <2>2. PICK o : o = IF request[p].manual THEN Bonus!Updated(request[p].uid, "active") ELSE Bonus!NoOverride
    OBVIOUS
  <2>3. o \in OverrideRow
    BY <1>m, <1>u, <2>1, <2>2
  <2>4. Bonus!SetOverride(request[p].uid, o, [request EXCEPT ![p] = Bonus!Idle])
    BY <1>13, <2>2 DEF Bonus!Unfreeze
  <2>. QED
    BY <1>s, <2>1, <2>3, <2>4
<1>. QED
  BY <1>1, <1>2, <1>3, <1>4, <1>5, <1>6, <1>7, <1>8, <1>9, <1>10, <1>11, <1>12, <1>13 DEF Bonus!Next

\* Only the payment of a distribution counts as one.
LEMMA PaymentSteps ==
    ASSUME [Bonus!Next]_(Bonus!vars)
    PROVE  payments' = payments \/ (payments' = payments + 1 /\ \E p \in Procs : Bonus!Pay(p))
<1>1. CASE UNCHANGED Bonus!vars
  BY <1>1 DEF Bonus!vars
<1>2. CASE Bonus!Sell \/ Bonus!CloseYear \/ Bonus!Promote
  BY <1>2 DEF Bonus!Sell, Bonus!CloseYear, Bonus!Promote
<1>3. CASE Bonus!Add
  BY <1>3 DEF Bonus!Add, Bonus!SetOverride
<1>4. ASSUME NEW p \in Procs, Bonus!Distribute(p) \/ Bonus!Read(p) \/ Bonus!Fail(p) \/ Bonus!Edit(p)
      PROVE  payments' = payments
  BY <1>4 DEF Bonus!Distribute, Bonus!Read, Bonus!Fail, Bonus!Edit
<1>5. ASSUME NEW p \in Procs, Bonus!Remove(p) \/ Bonus!Freeze(p) \/ Bonus!Unfreeze(p)
      PROVE  payments' = payments
  BY <1>5 DEF Bonus!Remove, Bonus!Freeze, Bonus!Unfreeze, Bonus!SetOverride
<1>6. ASSUME NEW p \in Procs, Bonus!Pay(p)
      PROVE  payments' = payments + 1
  BY <1>6 DEF Bonus!Pay
<1>. QED
  BY <1>1, <1>2, <1>3, <1>4, <1>5, <1>6 DEF Bonus!Next

\* A member barred from a distribution has no portions when it pays.
LEMMA PayBarsBlocked ==
    ASSUME BonusTypes, BarredBlocked, [Bonus!Next]_(Bonus!vars),
           NEW p \in Procs, payments' > payments, request[p].op = "distribute", request'[p] = Bonus!Idle,
           payments \in Nat, NEW m \in request[p].barred
    PROVE  shares'[m] = Bonus!Unpaid
<1>1. PICK q \in Procs : Bonus!Pay(q)
  BY PaymentSteps
<1>2. q = p
  <2>1. request' = [request EXCEPT ![q] = Bonus!Idle]
    BY <1>1 DEF Bonus!Pay
  <2>2. q # p => request'[p] = request[p]
    BY <2>1 DEF BonusTypes
  <2>. QED
    BY <2>2 DEF Bonus!Idle
<1>3. PICK r : r = request[p].seen
  OBVIOUS
<1>4. PICK portions : portions = [x \in Earners |->
                          Bonus!Recipient(r["account"][x], r["rank"][x], r["override"][x])]
  OBVIOUS
<1>5. PICK per : shares' = [x \in Earners |->
             IF portions[x] = 0 THEN Bonus!Kept(x) ELSE [portions |-> portions[x], amount |-> per * portions[x]]]
  BY <1>1, <1>2, <1>3, <1>4 DEF Bonus!Pay
<1>6. DOMAIN r = Bonus!Sources
  BY <1>1, <1>2, <1>3 DEF Bonus!Pay
<1>7. SeenTyped(r) /\ m \in Earners
  BY <1>3 DEF BonusTypes, RequestTyped, Bonus!Idle
<1>8. r["account"][m] \in Accounts /\ r["rank"][m] \in RankLevels /\ r["override"][m] \in OverrideRow
  BY <1>6, <1>7 DEF SeenTyped, Bonus!Sources
<1>9. Bonus!Blocked(r["override"][m])
  BY <1>3, <1>6 DEF BarredBlocked, Bonus!Sources
<1>10. portions[m] = 0
  BY <1>4, <1>7, <1>8, <1>9, RecipientNat
<1>. QED
  BY <1>5, <1>7, <1>10 DEF Bonus!Kept

BonusInv == BonusTypes /\ BarredBlocked /\ Bonus!PoolSpent /\ payments \in Nat

\* The inductive invariant of the bonus.
LEMMA BonusInvariant == AwardsSpec => []BonusInv
<1>1. AwardsInit => BonusInv
  <2>1. Bonus!Init => payments \in Nat
    BY DEF Bonus!Init
  <2>. QED
    BY <2>1, BonusInit DEF AwardsInit, BonusInv
<1>2. BonusInv /\ [NextRanking \/ NextBonus]_awardsVars => BonusInv'
  <2>. SUFFICES ASSUME BonusInv, [NextRanking \/ NextBonus]_awardsVars
                PROVE  BonusInv'
    OBVIOUS
  <2>1. [Bonus!Next]_(Bonus!vars)
    BY AwardSteps
  <2>2. payments' \in Nat
    BY <2>1, PaymentSteps DEF BonusInv
  <2>. QED
    BY <2>1, <2>2, BonusStep DEF BonusInv
<1>. QED
  BY <1>1, <1>2, PTL DEF AwardsSpec

\* What members are paid is what the row of the year says, whatever requests
\* of administrators overlap.  (distributeGlobalBonus)
THEOREM PoolIsSpent == AwardsSpec => []PoolSpent
<1>1. BonusInv => PoolSpent
  BY DEF BonusInv, PoolSpent
<1>. QED
  BY <1>1, BonusInvariant, PTL

\* A distribution pays nobody who was blocked when it began and ever since.
\* (calculateGlobalBonus)
THEOREM BlockedAreNotPaid == AwardsSpec => BlockedUnpaid
<1>1. BonusInv /\ [NextRanking \/ NextBonus]_awardsVars =>
          [\A p \in Procs :
              payments' > payments /\ request[p].op = "distribute" /\ request'[p] = Bonus!Idle
                 => \A m \in request[p].barred : shares'[m] = Bonus!Unpaid]_(Bonus!vars)
  BY AwardSteps, PayBarsBlocked DEF BonusInv
<1>. QED
  BY <1>1, BonusInvariant, PTL DEF AwardsSpec, BlockedUnpaid, Bonus!BlockedUnpaid

\* What the administrators gave a member, and that only a closed year is paid.
Given(o) ==
    /\ o.manual => o.portions \in ManualPortions
    /\ o.portions \in ManualPortions \cup 0 .. 4
EditTypes ==
    /\ closed \in BOOLEAN /\ (payout.paid => closed)
    /\ \A p \in Procs : request[p].op = "distribute" => closed
    /\ \A m \in Earners : Given(override[m])

\* The portions of an account are at most four.
LEMMA PortionsBound ==
    ASSUME NEW a \in Accounts, NEW level \in RankLevels
    PROVE  Bonus!Portions(a, level) \in 0 .. 4
<1>1. a.stockist \in 0 .. 4 /\ level \in 0 .. 10
  BY BonusFacts
<1>2. Bonus!Stockist(a.stockist) \in 0 .. 3
  BY <1>1 DEF Bonus!Stockist
<1>. QED
  BY <1>2 DEF Bonus!Portions

\* What an edit leaves of a row is given, if the row was.
LEMMA EditGives ==
    ASSUME BonusTypes, EditTypes, NEW m \in Earners, NEW status
    PROVE  Given(Bonus!NoOverride) /\ Given(Bonus!Updated(m, status)) /\ Given(Bonus!Upserted(m, status))
<1>1. override[m] \in OverrideRow /\ account[m] \in Accounts /\ rank[m] \in RankLevels /\ Given(override[m])
  BY DEF BonusTypes, EditTypes
<1>2. Given(Bonus!NoOverride)
  BY DEF Given, Bonus!NoOverride
<1>3. Given(Bonus!Updated(m, status))
  BY <1>1, <1>2 DEF Given, Bonus!Updated, OverrideRow
<1>4. Bonus!Portions(account[m], rank[m]) \in 0 .. 4
  BY <1>1, PortionsBound
<1>5. Given(Bonus!Upserted(m, status))
  BY <1>4 DEF Given, Bonus!Upserted
<1>. QED
  BY <1>2, <1>3, <1>5

\* A write of a row keeps this, if the row is given.
LEMMA OverrideGiven ==
    ASSUME BonusTypes, EditTypes, NEW m \in Earners, NEW o, Given(o), NEW requests,
           \A p \in Procs : requests[p].op = "distribute" => requests[p] = request[p],
           Bonus!SetOverride(m, o, requests)
    PROVE  EditTypes'
<1>1. /\ override' = [override EXCEPT ![m] = o]
      /\ request' = [q \in Procs |->
            IF requests[q].op = "distribute" /\ ~Bonus!Blocked(o)
            THEN [requests[q] EXCEPT !.barred = @ \ {m}] ELSE requests[q]]
      /\ UNCHANGED <<closed, payout>>
  BY DEF Bonus!SetOverride
<1>2. \A x \in Earners : Given(override'[x])
  BY <1>1 DEF BonusTypes, EditTypes
<1>3. \A q \in Procs : request'[q].op = "distribute" => request[q].op = "distribute"
  BY <1>1
<1>. QED
  BY <1>1, <1>2, <1>3 DEF EditTypes

\* Each step keeps it.
LEMMA EditStep ==
    ASSUME BonusTypes, EditTypes, [Bonus!Next]_(Bonus!vars)
    PROVE  EditTypes'
<1>t. request = [p \in Procs |-> request[p]] /\ \A p \in Procs : RequestTyped(request[p])
  BY DEF BonusTypes
<1>0. ASSUME UNCHANGED override, closed' \in BOOLEAN, closed => closed', payout'.paid => closed',
             \A p \in Procs : request'[p].op = "distribute" => closed'
      PROVE  EditTypes'
  BY <1>0 DEF EditTypes
<1>1. CASE UNCHANGED Bonus!vars \/ Bonus!Sell \/ Bonus!CloseYear \/ Bonus!Promote
  <2>1. UNCHANGED <<override, payout, request>> /\ (closed' = closed \/ closed' = TRUE)
    BY <1>1 DEF Bonus!vars, Bonus!Sell, Bonus!CloseYear, Bonus!Promote
  <2>. QED
    BY <2>1 DEF EditTypes
<1>2. CASE Bonus!Add
  <2>1. PICK m \in Earners, n \in ManualPortions :
            Bonus!SetOverride(m, [status |-> "active", manual |-> TRUE, portions |-> n], request)
    BY <1>2 DEF Bonus!Add
  <2>2. Given([status |-> "active", manual |-> TRUE, portions |-> n])
    BY DEF Given
  <2>. QED
    BY <2>1, <2>2, OverrideGiven
<1>3. ASSUME NEW p \in Procs, Bonus!Distribute(p)
      PROVE  EditTypes'
  <2>1. closed /\ UNCHANGED <<closed, override, payout>>
    BY <1>3 DEF Bonus!Distribute
  <2>. QED
    BY <2>1 DEF EditTypes
<1>4. ASSUME NEW p \in Procs, Bonus!Read(p)
      PROVE  EditTypes'
  <2>1. request[p].op = "distribute" /\ UNCHANGED <<closed, override, payout>>
    BY <1>4 DEF Bonus!Read
  <2>. QED
    BY <2>1 DEF EditTypes
<1>5. ASSUME NEW p \in Procs, Bonus!Pay(p)
      PROVE  EditTypes'
  <2>1. request[p].op = "distribute" /\ UNCHANGED <<closed, override>>
    BY <1>5 DEF Bonus!Pay
  <2>. QED
    BY <2>1 DEF EditTypes
<1>6. ASSUME NEW p \in Procs, Bonus!Fail(p)
      PROVE  EditTypes'
  <2>1. request' = [request EXCEPT ![p] = Bonus!Idle] /\ UNCHANGED <<closed, override, payout>>
    BY <1>6 DEF Bonus!Fail
  <2>2. \A q \in Procs : request'[q].op = "distribute" => request[q].op = "distribute"
    BY <1>t, <2>1 DEF Bonus!Idle
  <2>. QED
    BY <2>1, <2>2 DEF EditTypes
<1>7. ASSUME NEW p \in Procs, Bonus!Edit(p)
      PROVE  EditTypes'
  <2>1. closed /\ UNCHANGED <<closed, override, payout>>
    BY <1>7 DEF Bonus!Edit
  <2>. QED
    BY <2>1 DEF EditTypes
<1>s. ASSUME NEW p \in Procs, request[p].op \in {"remove", "freeze", "unfreeze"}, NEW o, Given(o),
             Bonus!SetOverride(request[p].uid, o, [request EXCEPT ![p] = Bonus!Idle])
      PROVE  EditTypes'
  <2>1. PICK m : m = request[p].uid
    OBVIOUS
  <2>2. m \in Earners
    BY <1>s, <1>t, <2>1 DEF RequestTyped, Bonus!Idle
  <2>3. PICK requests : requests = [request EXCEPT ![p] = Bonus!Idle]
    OBVIOUS
  <2>4. \A q \in Procs : requests[q] = IF q = p THEN Bonus!Idle ELSE request[q]
    BY <1>t, <2>3
  <2>5. \A q \in Procs : requests[q].op = "distribute" => requests[q] = request[q]
    BY <2>4 DEF Bonus!Idle
  <2>6. Bonus!SetOverride(m, o, requests)
    BY <1>s, <2>1, <2>3
  <2>. QED
    BY <1>s, <2>2, <2>5, <2>6, OverrideGiven
<1>m. ASSUME NEW p \in Procs, request[p].op \in {"remove", "freeze", "unfreeze"}
      PROVE  request[p].uid \in Earners
  BY <1>m, <1>t DEF RequestTyped, Bonus!Idle
<1>8. ASSUME NEW p \in Procs, Bonus!Remove(p) \/ Bonus!Freeze(p) \/ Bonus!Unfreeze(p)
      PROVE  EditTypes'
  <2>1. request[p].op \in {"remove", "freeze", "unfreeze"}
    BY <1>8 DEF Bonus!Remove, Bonus!Freeze, Bonus!Unfreeze
  <2>2. \E o : /\ \/ o = Bonus!NoOverride
                  \/ \E status : o = Bonus!Updated(request[p].uid, status) \/ o = Bonus!Upserted(request[p].uid, status)
               /\ Bonus!SetOverride(request[p].uid, o, [request EXCEPT ![p] = Bonus!Idle])
    <3>1. CASE Bonus!Remove(p)
      BY Zenon, <3>1 DEF Bonus!Remove
    <3>2. CASE Bonus!Freeze(p)
      BY Zenon, <3>2 DEF Bonus!Freeze
    <3>3. CASE Bonus!Unfreeze(p)
      BY Zenon, <3>3 DEF Bonus!Unfreeze
    <3>. QED
      BY <1>8, <3>1, <3>2, <3>3
  <2>3. PICK o : /\ \/ o = Bonus!NoOverride
                    \/ \E status : o = Bonus!Updated(request[p].uid, status) \/ o = Bonus!Upserted(request[p].uid, status)
                 /\ Bonus!SetOverride(request[p].uid, o, [request EXCEPT ![p] = Bonus!Idle])
    BY <2>2
  <2>4. Given(o)
    BY <1>m, <2>1, <2>3, EditGives
  <2>. QED
    BY <1>s, <2>1, <2>3, <2>4
<1>. QED
  BY <1>1, <1>2, <1>3, <1>4, <1>5, <1>6, <1>7, <1>8 DEF Bonus!Next

\* The rows of overrides are of their types, a year is paid only when it is over,
\* and portions are those given or at most four.
THEOREM BonusTyped == AwardsSpec => []Bonus!TypeOK
<1>1. AwardsInit => EditTypes
  <2>. SUFFICES ASSUME Bonus!Init
                PROVE  EditTypes
    BY DEF AwardsInit
  <2>1. Given(Bonus!NoOverride)
    BY DEF Given, Bonus!NoOverride
  <2>2. closed = FALSE /\ ~payout.paid
    BY DEF Bonus!Init, Bonus!NoPayout
  <2>3. \A p \in Procs : request[p].op # "distribute"
    BY DEF Bonus!Init, Bonus!Idle
  <2>4. \A m \in Earners : Given(override[m])
    BY <2>1 DEF Bonus!Init
  <2>. QED
    BY <2>2, <2>3, <2>4 DEF EditTypes
<1>2. BonusInv /\ EditTypes /\ [NextRanking \/ NextBonus]_awardsVars => EditTypes'
  BY AwardSteps, EditStep DEF BonusInv
<1>3. BonusInv /\ EditTypes => Bonus!TypeOK
  BY DEF BonusInv, BonusTypes, EditTypes, Given, OverrideRow, Bonus!TypeOK
<1>. QED
  BY <1>1, <1>2, <1>3, BonusInvariant, PTL DEF AwardsSpec

-----------------------------------------------------------------------------
\* The ranking race: types.

BuyRow    == [uid : Members, points : Amounts]
AwardRow  == [m : Members, rank : Ranks, seq : Int, status : {"pending", "fulfilled"}]
OwnRow    == [m : Members, rank : Ranks, seq : Int, event : Nat, points : Nat]
GlobalRow == [event : Nat, m : Members, points : Nat]

TablesTyped(s) ==
    /\ s = [buys |-> s.buys, achieved |-> s.achieved, own |-> s.own, global |-> s.global,
            ranking |-> s.ranking, counter |-> s.counter, excluded |-> s.excluded]
    /\ s.buys \in Seq(BuyRow)
    /\ s.achieved \subseteq AwardRow /\ IsFiniteSet(s.achieved)
    /\ s.own \subseteq OwnRow /\ IsFiniteSet(s.own)
    /\ s.global \subseteq GlobalRow /\ IsFiniteSet(s.global)
    /\ \A x \in s.own \cup s.global : x.event \in DOMAIN s.buys
    /\ s.counter \in Int

\* What is assumed of ranks and members.
LEMMA RankFacts ==
    /\ IsFiniteSet(Members) /\ Len(Required) \in Nat /\ Ranks = 1 .. Len(Required)
    /\ DOMAIN Required = Ranks /\ IsFiniteSet(Ranks)
    /\ \A r \in Ranks : Required[r] \in Nat /\ Required[r] > 0
    /\ \A n \in Amounts : n \in Nat /\ n > 0
    /\ Buyers \subseteq Members
    /\ \A m \in Members : Below[m] \subseteq Members
    /\ \A m, u \in Members : m \in Chain(u) <=> u \in Below[m]
<1>1. /\ IsFiniteSet(Members) /\ Required \in Seq(Nat \ {0}) /\ Amounts \subseteq Nat \ {0}
      /\ Buyers \subseteq Members
  BY RankingAssumption
<1>2. /\ Len(Required) \in Nat /\ DOMAIN Required = 1 .. Len(Required)
      /\ \A r \in 1 .. Len(Required) : Required[r] \in Nat \ {0}
  BY <1>1
<1>3. IsFiniteSet(1 .. Len(Required))
  BY <1>2, FS_Interval
<1>4. \A m \in Members : Below[m] \subseteq Members
  BY DEF Below
<1>5. \A m, u \in Members : m \in Chain(u) <=> u \in Below[m]
  BY DEF Below, Chain
<1>6. Ranks = 1 .. Len(Required)
  BY DEF Ranks
<1>7. DOMAIN Required = Ranks /\ IsFiniteSet(Ranks)
  BY <1>2, <1>3, <1>6
<1>8. \A r \in Ranks : Required[r] \in Nat /\ Required[r] > 0
  BY <1>2, <1>6
<1>9. \A n \in Amounts : n \in Nat /\ n > 0
  BY <1>1
<1>. QED
  BY <1>1, <1>2, <1>4, <1>5, <1>6, <1>7, <1>8, <1>9, Zenon

\* The events are numbered.
LEMMA EventFacts ==
    ASSUME NEW s, s.buys \in Seq(BuyRow)
    PROVE  /\ Len(s.buys) \in Nat /\ DOMAIN s.buys = 1 .. Len(s.buys) /\ IsFiniteSet(DOMAIN s.buys)
           /\ \A e \in DOMAIN s.buys : /\ e \in Nat /\ s.buys[e] \in BuyRow
                                       /\ s.buys[e].uid \in Members /\ s.buys[e].points \in Nat
<1>1. Len(s.buys) \in Nat /\ DOMAIN s.buys = 1 .. Len(s.buys)
  OBVIOUS
<1>2. \A e \in DOMAIN s.buys : s.buys[e] \in BuyRow
  BY <1>1
<1>3. IsFiniteSet(1 .. Len(s.buys))
  BY <1>1, FS_Interval
<1>. QED
  BY <1>1, <1>2, <1>3, RankFacts DEF BuyRow

\* A sum of the points of rows.
LEMMA PointsNat ==
    ASSUME NEW rows, IsFiniteSet(rows), \A x \in rows : x.points \in Nat
    PROVE  Points(rows) \in Nat
<1>1. PICK f : f = [x \in rows |-> x.points]
  OBVIOUS
<1>2. \A x \in rows : f[x] \in Nat
  BY <1>1
<1>. QED
  BY <1>1, <1>2, SumNat DEF Points

\* The points of rows without anything in common add up.
LEMMA PointsUnion ==
    ASSUME NEW R, NEW S, IsFiniteSet(R), IsFiniteSet(S), R \cap S = {},
           \A x \in R \cup S : x.points \in Nat
    PROVE  Points(R \cup S) = Points(R) + Points(S)
<1>1. PICK f : f = [x \in R \cup S |-> x.points]
  OBVIOUS
<1>2. PICK g : g = [x \in R |-> x.points]
  OBVIOUS
<1>3. PICK h : h = [x \in S |-> x.points]
  OBVIOUS
<1>4. \A x \in R \cup S : f[x] \in Int
  BY <1>1
<1>5. SumFunctionOnSet(f, R \cup S) = SumFunctionOnSet(f, R) + SumFunctionOnSet(f, S)
  BY <1>4, SumUnion
<1>6. SumFunctionOnSet(f, R) = SumFunctionOnSet(g, R)
  BY <1>1, <1>2, SumSame
<1>7. SumFunctionOnSet(f, S) = SumFunctionOnSet(h, S)
  BY <1>1, <1>3, SumSame
<1>. QED
  BY <1>1, <1>2, <1>3, <1>5, <1>6, <1>7 DEF Points

\* Fewer rows have no more points.
LEMMA PointsSubset ==
    ASSUME NEW S, NEW R \in SUBSET S, IsFiniteSet(S), \A x \in S : x.points \in Nat
    PROVE  Points(R) <= Points(S) /\ Points(R) \in Nat /\ Points(S) \in Nat /\ IsFiniteSet(R)
<1>1. PICK D : D = S \ R
  OBVIOUS
<1>2. IsFiniteSet(R) /\ IsFiniteSet(D) /\ R \cap D = {} /\ S = R \cup D
  BY <1>1, FS_Subset
<1>3. Points(S) = Points(R) + Points(D)
  BY <1>2, PointsUnion
<1>4. Points(R) \in Nat /\ Points(D) \in Nat
  BY <1>1, <1>2, PointsNat
<1>. QED
  BY <1>2, <1>3, <1>4

\* No rows, no points.
LEMMA PointsNone == Points({}) = 0
BY SumEmpty DEF Points

\* The highest rank of a member.
LEMMA RankOfFacts ==
    ASSUME NEW s, s.achieved \subseteq AwardRow, NEW m \in Members
    PROVE  /\ RankOf(s, m) \in 0 .. Len(Required)
           /\ \A a \in s.achieved : a.m = m => a.rank <= RankOf(s, m)
           /\ RankOf(s, m) # 0 => \E a \in s.achieved : a.m = m /\ a.rank = RankOf(s, m)
<1>1. PICK R : R = {0} \cup {a.rank : a \in {x \in s.achieved : x.m = m}}
  OBVIOUS
<1>2. R \subseteq 0 .. Len(Required) /\ 0 \in R
  BY <1>1, RankFacts DEF AwardRow
<1>i. IsFiniteSet(0 .. Len(Required))
  BY RankFacts, FS_Interval
<1>3. IsFiniteSet(R) /\ R \subseteq Nat /\ R # {}
  <2>1. IsFiniteSet(R)
    BY <1>2, <1>i, FS_Subset
  <2>2. R \subseteq Nat
    BY <1>2
  <2>. QED
    BY <1>2, <2>1, <2>2
<1>4. PICK k \in R : \A n \in R : n <= k
  BY <1>3, Largest
<1>5. \A n \in R : n \in Int
  BY <1>3
<1>6. Max(R) \in R /\ \A n \in R : n <= Max(R)
  BY <1>4, <1>5 DEF Max
<1>7. RankOf(s, m) = Max(R)
  BY <1>1 DEF RankOf
<1>. QED
  BY <1>1, <1>2, <1>6, <1>7

-----------------------------------------------------------------------------
\* What a rank takes of each event.

\* The points up to a rank.
LEMMA NeedFacts ==
    ASSUME NEW s, s.achieved \subseteq AwardRow, NEW m \in Members
    PROVE  /\ \A r \in RankOf(s, m) .. Len(Required) : Need(s, m, r) \in Nat
           /\ Need(s, m, RankOf(s, m)) = 0
           /\ \A r \in RankOf(s, m) + 1 .. Len(Required) : Need(s, m, r) = Need(s, m, r - 1) + Required[r]
           /\ \A q, r \in RankOf(s, m) .. Len(Required) : q <= r => Need(s, m, q) <= Need(s, m, r)
<1>1. PICK k \in 0 .. Len(Required) : k = RankOf(s, m)
  BY RankOfFacts
<1>2. PICK L \in Nat : L = Len(Required)
  BY RankFacts
<1>3. ASSUME NEW r \in k .. L
      PROVE  /\ IsFiniteSet(k + 1 .. r) /\ \A q \in k + 1 .. r : Required[q] \in Nat /\ Required[q] \in Int
             /\ SumFunctionOnSet(Required, k + 1 .. r) \in Nat
  <2>0. k + 1 \in Int /\ r \in Int
    BY <1>1, <1>2
  <2>1. IsFiniteSet(k + 1 .. r)
    BY <2>0, FS_Interval
  <2>2. \A q \in k + 1 .. r : Required[q] \in Nat /\ Required[q] \in Int
    BY <1>1, <1>2, RankFacts
  <2>. QED
    BY <2>1, <2>2, SumNat
<1>4. SumFunctionOnSet(Required, k + 1 .. k) = 0
  <2>1. k + 1 .. k = {}
    BY <1>1
  <2>. QED
    BY <2>1, SumEmpty
<1>5. ASSUME NEW r \in k + 1 .. L
      PROVE  SumFunctionOnSet(Required, k + 1 .. r) = SumFunctionOnSet(Required, k + 1 .. r - 1) + Required[r]
  <2>1. PICK S : S = k + 1 .. r - 1
    OBVIOUS
  <2>2. r \notin S /\ k + 1 .. r = S \cup {r} /\ r \in k .. L /\ r - 1 \in k .. L
    BY <1>1, <1>2, <2>1
  <2>3. IsFiniteSet(S) /\ \A q \in S \cup {r} : Required[q] \in Int
    BY <1>3, <2>1, <2>2
  <2>4. SumFunctionOnSet(Required, S \cup {r}) = Required[r] + SumFunctionOnSet(Required, S)
    BY <2>2, <2>3, SumAdd
  <2>5. Required[r] \in Int /\ SumFunctionOnSet(Required, S) \in Nat
    BY <1>3, <2>1, <2>2, <2>3
  <2>6. SumFunctionOnSet(Required, k + 1 .. r) = SumFunctionOnSet(Required, S \cup {r})
    BY <2>2
  <2>. QED
    BY <2>1, <2>4, <2>5, <2>6
<1>6. ASSUME NEW q \in k .. L, NEW r \in k .. L, q <= r
      PROVE  SumFunctionOnSet(Required, k + 1 .. q) <= SumFunctionOnSet(Required, k + 1 .. r)
  <2>1. k + 1 .. q \in SUBSET (k + 1 .. r)
    BY <1>1, <1>2, <1>6
  <2>. QED
    BY <1>3, <2>1, SumSubset
<1>7. \A r : Need(s, m, r) = SumFunctionOnSet(Required, k + 1 .. r)
  BY <1>1 DEF Need
<1>. HIDE DEF Need, RankOf
<1>8. \A r \in k + 1 .. L : r - 1 \in k .. L
  BY <1>1, <1>2
<1>. QED
  BY <1>1, <1>2, <1>3, <1>4, <1>5, <1>6, <1>7

\* What is left of an event for a member.
LEMMA RestNat ==
    ASSUME NEW s, TablesTyped(s), NEW m \in Members, NEW e \in DOMAIN s.buys
    PROVE  /\ Net(s, e) \in Nat /\ Rest(s, m, e) \in Nat
           /\ Net(s, e) <= s.buys[e].points
           /\ Points({o \in s.own : o.m = m /\ o.event = e}) \in Nat
           /\ Rest(s, m, e) = Positive(Net(s, e) - Points({o \in s.own : o.m = m /\ o.event = e}))
<1>1. s.buys[e].points \in Nat
  BY EventFacts DEF TablesTyped
<1>2. PICK G : G = {g \in s.global : g.event = e}
  OBVIOUS
<1>3. PICK O : O = {o \in s.own : o.m = m /\ o.event = e}
  OBVIOUS
<1>4. Points(G) \in Nat
  <2>1. IsFiniteSet(s.global) /\ \A g \in s.global : g.points \in Nat
    BY DEF TablesTyped, GlobalRow
  <2>. QED
    BY <1>2, <2>1, PointsSubset
<1>5. Points(O) \in Nat
  <2>1. IsFiniteSet(s.own) /\ \A o \in s.own : o.points \in Nat
    BY DEF TablesTyped, OwnRow
  <2>. QED
    BY <1>3, <2>1, PointsSubset
<1>6. Net(s, e) = Positive(s.buys[e].points - Points(G))
  BY <1>2 DEF Net
<1>7. Net(s, e) \in Nat /\ Net(s, e) <= s.buys[e].points
  BY <1>1, <1>4, <1>6 DEF Positive
<1>8. Rest(s, m, e) = Positive(Net(s, e) - Points(O))
  BY <1>3 DEF Rest
<1>. QED
  BY <1>3, <1>5, <1>7, <1>8 DEF Positive

\* What is left of the events before one.
LEMMA RestBeforeFacts ==
    ASSUME NEW s, TablesTyped(s), NEW m \in Members
    PROVE  /\ \A n \in 1 .. Len(s.buys) + 1 : RestBefore(s, m, n) \in Nat
           /\ RestBefore(s, m, 1) = 0
           /\ \A e \in 1 .. Len(s.buys) :
                 RestBefore(s, m, e + 1)
                   = RestBefore(s, m, e) + (IF e \in Rankable(s, m) THEN Rest(s, m, e) ELSE 0)
<1>1. /\ Len(s.buys) \in Nat /\ DOMAIN s.buys = 1 .. Len(s.buys) /\ IsFiniteSet(DOMAIN s.buys)
  BY EventFacts DEF TablesTyped
<1>2. PICK K : K = Rankable(s, m)
  OBVIOUS
<1>3. K \subseteq 1 .. Len(s.buys) /\ IsFiniteSet(K)
  BY <1>1, <1>2, FS_Subset DEF Rankable
<1>4. PICK f : f = [e \in K |-> Rest(s, m, e)]
  OBVIOUS
<1>5. \A e \in K : f[e] = Rest(s, m, e) /\ f[e] \in Nat /\ f[e] \in Int
  <2>1. \A e \in K : Rest(s, m, e) \in Nat
    BY <1>1, <1>3, RestNat
  <2>. QED
    BY <1>4, <2>1
<1>k. \A e \in K : e \in Nat /\ e >= 1
  BY <1>1, <1>3
<1>6. ASSUME NEW n \in Int
      PROVE  /\ IsFiniteSet({e \in K : e < n})
             /\ RestBefore(s, m, n) = SumFunctionOnSet(f, {e \in K : e < n})
             /\ RestBefore(s, m, n) \in Nat
  <2>1. PICK S : S = {e \in K : e < n}
    OBVIOUS
  <2>2. PICK g : g = [e \in S |-> Rest(s, m, e)]
    OBVIOUS
  <2>3. IsFiniteSet(S) /\ S \subseteq K
    BY <1>3, <2>1, FS_Subset
  <2>4. RestBefore(s, m, n) = SumFunctionOnSet(g, S)
    BY <1>2, <2>1, <2>2 DEF RestBefore
  <2>5. SumFunctionOnSet(g, S) = SumFunctionOnSet(f, S)
    BY <1>4, <2>2, <2>3, SumSame
  <2>6. SumFunctionOnSet(f, S) \in Nat
    BY <1>5, <2>3, SumNat
  <2>. QED
    BY <2>1, <2>3, <2>4, <2>5, <2>6
<1>7. RestBefore(s, m, 1) = 0
  <2>1. {e \in K : e < 1} = {}
    BY <1>k
  <2>. QED
    BY <1>6, <2>1, SumEmpty
<1>8. ASSUME NEW e \in 1 .. Len(s.buys)
      PROVE  RestBefore(s, m, e + 1)
               = RestBefore(s, m, e) + (IF e \in Rankable(s, m) THEN Rest(s, m, e) ELSE 0)
  <2>1. PICK S : S = {i \in K : i < e}
    OBVIOUS
  <2>2. PICK U : U = {i \in K : i < e + 1}
    OBVIOUS
  <2>3. /\ RestBefore(s, m, e) = SumFunctionOnSet(f, S) /\ RestBefore(s, m, e) \in Nat
        /\ RestBefore(s, m, e + 1) = SumFunctionOnSet(f, U) /\ IsFiniteSet(S)
    <3>1. e \in Int /\ e + 1 \in Int
      BY <1>1
    <3>. QED
      BY <1>6, <2>1, <2>2, <3>1
  <2>e. e \in Nat
    BY <1>1
  <2>4. CASE e \in K
    <3>0. \A i \in K : i < e + 1 <=> (i < e \/ i = e)
      BY <1>k, <2>e
    <3>1. U = S \cup {e} /\ e \notin S /\ \A i \in S \cup {e} : f[i] \in Int
      <4>1. U = S \cup {e}
        BY <2>1, <2>2, <2>4, <3>0
      <4>2. e \notin S
        BY <2>1, <2>e
      <4>3. \A i \in S \cup {e} : f[i] \in Int
        BY <1>5, <2>1, <2>4
      <4>. QED
        BY <4>1, <4>2, <4>3
    <3>2. SumFunctionOnSet(f, S \cup {e}) = f[e] + SumFunctionOnSet(f, S)
      BY <2>3, <3>1, SumAdd
    <3>3. f[e] = Rest(s, m, e) /\ f[e] \in Nat
      BY <1>5, <2>4
    <3>. QED
      <4>1. SumFunctionOnSet(f, U) = f[e] + SumFunctionOnSet(f, S)
        BY <3>1, <3>2
      <4>. QED
        BY <1>2, <2>3, <2>4, <3>3, <4>1
  <2>5. CASE e \notin K
    <3>1. U = S
      BY <1>k, <2>1, <2>2, <2>e, <2>5
    <3>. QED
      BY <1>2, <2>3, <2>5, <3>1
  <2>. QED
    BY <2>4, <2>5
<1>9. \A n \in 1 .. Len(s.buys) + 1 : n \in Int
  BY <1>1
<1>10. \A n \in 1 .. Len(s.buys) + 1 : RestBefore(s, m, n) \in Nat
  BY <1>6, <1>9
<1>. HIDE DEF RestBefore
<1>. QED
  BY <1>7, <1>8, <1>10

\* x, brought between two bounds.
Clip(x, lo, hi) == IF x < lo THEN lo ELSE IF x > hi THEN hi ELSE x

\* What two intervals have in common, seen from each.
LEMMA Overlap ==
    ASSUME NEW a \in Int, NEW b \in Int, NEW c \in Int, NEW d \in Int, a <= b, c <= d
    PROVE  /\ Positive(Min({d, b}) - Max({c, a})) \in Nat
           /\ Positive(Min({d, b}) - Max({c, a})) = Clip(b, c, d) - Clip(a, c, d)
           /\ Positive(Min({d, b}) - Max({c, a})) = Clip(d, a, b) - Clip(c, a, b)
<1>1. Min({d, b}) = IF d <= b THEN d ELSE b
  BY DEF Min
<1>2. Max({c, a}) = IF a <= c THEN c ELSE a
  BY DEF Max
<1>. QED
  BY <1>1, <1>2 DEF Positive, Clip

\* What a rank takes of an event is what two intervals have in common: the
\* points between two ranks, and those between two events.
LEMMA TakenFacts ==
    ASSUME NEW s, TablesTyped(s), NEW m \in Members,
           NEW r \in RankOf(s, m) + 1 .. Len(Required), NEW e \in 1 .. Len(s.buys)
    PROVE  /\ Taken(s, m, r, e) \in Nat
           /\ Taken(s, m, r, e) = Clip(RestBefore(s, m, e + 1), Need(s, m, r - 1), Need(s, m, r))
                                  - Clip(RestBefore(s, m, e), Need(s, m, r - 1), Need(s, m, r))
           /\ Taken(s, m, r, e) = Clip(Need(s, m, r), RestBefore(s, m, e), RestBefore(s, m, e + 1))
                                  - Clip(Need(s, m, r - 1), RestBefore(s, m, e), RestBefore(s, m, e + 1))
           /\ e \notin Rankable(s, m) => Taken(s, m, r, e) = 0
<1>1. PICK a : a = RestBefore(s, m, e)
  OBVIOUS
<1>2. PICK b : b = RestBefore(s, m, e + 1)
  OBVIOUS
<1>3. PICK c : c = Need(s, m, r - 1)
  OBVIOUS
<1>4. PICK d : d = Need(s, m, r)
  OBVIOUS
<1>5. /\ RankOf(s, m) \in 0 .. Len(Required) /\ Len(Required) \in Nat /\ Len(s.buys) \in Nat
      /\ s.achieved \subseteq AwardRow
  BY RankOfFacts, RankFacts, EventFacts DEF TablesTyped
<1>6. c \in Nat /\ d \in Nat /\ c <= d
  <2>1. r \in RankOf(s, m) .. Len(Required) /\ r - 1 \in RankOf(s, m) .. Len(Required) /\ r - 1 <= r
    BY <1>5
  <2>. QED
    BY <1>3, <1>4, <1>5, <2>1, NeedFacts
<1>7. a \in Nat /\ b \in Nat /\ a <= b /\ (e \notin Rankable(s, m) => a = b)
  <2>1. /\ e \in 1 .. Len(s.buys) + 1 /\ e + 1 \in 1 .. Len(s.buys) + 1 /\ e \in DOMAIN s.buys
    BY <1>5, EventFacts DEF TablesTyped
  <2>2. a \in Nat /\ b \in Nat /\ b = a + (IF e \in Rankable(s, m) THEN Rest(s, m, e) ELSE 0)
    BY <1>1, <1>2, <2>1, RestBeforeFacts
  <2>3. Rest(s, m, e) \in Nat
    BY <2>1, RestNat
  <2>. QED
    BY <2>2, <2>3
<1>8. Taken(s, m, r, e) = Positive(Min({d, b}) - Max({c, a}))
  BY <1>1, <1>2, <1>3, <1>4 DEF Taken
<1>9. /\ Taken(s, m, r, e) \in Nat
      /\ Taken(s, m, r, e) = Clip(b, c, d) - Clip(a, c, d)
      /\ Taken(s, m, r, e) = Clip(d, a, b) - Clip(c, a, b)
  <2>1. a \in Int /\ b \in Int /\ c \in Int /\ d \in Int /\ a <= b /\ c <= d
    BY <1>6, <1>7
  <2>2. /\ Positive(Min({d, b}) - Max({c, a})) \in Nat
        /\ Positive(Min({d, b}) - Max({c, a})) = Clip(b, c, d) - Clip(a, c, d)
        /\ Positive(Min({d, b}) - Max({c, a})) = Clip(d, a, b) - Clip(c, a, b)
    BY <2>1, Overlap
  <2>. QED
    BY <1>8, <2>2
<1>10. Clip(a, c, d) \in Int
  BY <1>6, <1>7 DEF Clip
<1>11. e \notin Rankable(s, m) => Taken(s, m, r, e) = 0
  BY <1>7, <1>9, <1>10
<1>. QED
  BY <1>1, <1>2, <1>3, <1>4, <1>9, <1>11

\* The ranks earned are the next ones, as many as the points pay for.
LEMMA EarnedFacts ==
    ASSUME NEW s, TablesTyped(s), NEW m \in Members
    PROVE  \E top \in RankOf(s, m) .. Len(Required) :
              /\ Earned(s, m) = RankOf(s, m) + 1 .. top
              /\ Cardinality(Earned(s, m)) = top - RankOf(s, m) /\ IsFiniteSet(Earned(s, m))
              /\ \A r \in Earned(s, m) : Need(s, m, r) <= Total(s, m)
<1>1. PICK k : k = RankOf(s, m)
  OBVIOUS
<1>2. /\ k \in 0 .. Len(Required) /\ Len(Required) \in Nat /\ s.achieved \subseteq AwardRow
  BY <1>1, RankOfFacts, RankFacts DEF TablesTyped
<1>3. PICK E : E = Earned(s, m)
  OBVIOUS
<1>4. /\ E \subseteq k + 1 .. Len(Required)
      /\ \A r \in E : Need(s, m, r) <= Total(s, m)
  BY <1>1, <1>3 DEF Earned
<1>5. ASSUME NEW r \in E, NEW q \in k + 1 .. r
      PROVE  q \in E
  <2>1. /\ r \in k + 1 .. Len(Required) /\ m \notin s.excluded /\ Need(s, m, r) <= Total(s, m)
        /\ \A i \in k + 1 .. r : LegsMet(s, m, i)
    BY <1>1, <1>3 DEF Earned
  <2>2. q \in k + 1 .. Len(Required) /\ q <= r /\ q \in k .. Len(Required) /\ r \in k .. Len(Required)
    BY <1>2, <2>1
  <2>3. Need(s, m, q) \in Nat /\ Need(s, m, r) \in Nat /\ Need(s, m, q) <= Need(s, m, r)
    BY <1>1, <1>2, <2>2, NeedFacts
  <2>4. Total(s, m) \in Nat
    <3>1. Len(s.buys) \in Nat /\ Len(s.buys) + 1 \in 1 .. Len(s.buys) + 1
      BY EventFacts DEF TablesTyped
    <3>. QED
      BY <3>1, RestBeforeFacts DEF Total
  <2>5. Need(s, m, q) <= Total(s, m)
    BY <2>1, <2>3, <2>4
  <2>6. \A i \in k + 1 .. q : LegsMet(s, m, i)
    <3>1. \A i \in k + 1 .. q : i \in k + 1 .. r
      BY <1>2, <2>2
    <3>. QED
      BY <2>1, <3>1
  <2>. QED
    BY <1>1, <1>3, <2>1, <2>2, <2>5, <2>6 DEF Earned
<1>6. PICK R : R = {k} \cup E
  OBVIOUS
<1>7. IsFiniteSet(R) /\ R \subseteq Nat /\ R # {}
  <2>1. IsFiniteSet(k .. Len(Required))
    BY <1>2, FS_Interval
  <2>2. R \subseteq k .. Len(Required)
    BY <1>2, <1>4, <1>6
  <2>3. IsFiniteSet(R)
    BY <2>1, <2>2, FS_Subset
  <2>. QED
    BY <1>2, <1>6, <2>2, <2>3
<1>8. PICK top \in R : \A n \in R : n <= top
  BY <1>7, Largest
<1>9. top \in k .. Len(Required)
  BY <1>2, <1>4, <1>6
<1>10. E = k + 1 .. top
  <2>1. E \subseteq k + 1 .. top
    BY <1>2, <1>4, <1>6, <1>8, <1>9
  <2>2. ASSUME NEW q \in k + 1 .. top
        PROVE  q \in E
    <3>1. top # k
      BY <1>2, <1>9
    <3>2. top \in E
      BY <1>6, <3>1
    <3>. QED
      BY <1>5, <3>2
  <2>. QED
    BY <2>1, <2>2
<1>11. Cardinality(E) = top - k /\ IsFiniteSet(E)
  <2>1. k + 1 \in Int /\ top \in Int /\ k + 1 <= top + 1
    BY <1>2, <1>9
  <2>2. IsFiniteSet(k + 1 .. top) /\ Cardinality(k + 1 .. top) = IF k + 1 > top THEN 0 ELSE top - (k + 1) + 1
    BY <2>1, FS_Interval
  <2>. QED
    BY <1>2, <1>9, <1>10, <2>2
<1>. QED
  BY <1>1, <1>3, <1>4, <1>9, <1>10, <1>11

\* A rank that is earned takes the points it requires, of all events together.
LEMMA RankTakes ==
    ASSUME NEW s, TablesTyped(s), NEW m \in Members, NEW r \in Earned(s, m), NEW f,
           \A e \in Rankable(s, m) : f[e] = Taken(s, m, r, e)
    PROVE  SumFunctionOnSet(f, Rankable(s, m)) = Required[r]
<1>0. PICK L : L = Len(s.buys)
  OBVIOUS
<1>1. L \in Nat /\ DOMAIN s.buys = 1 .. L /\ IsFiniteSet(1 .. L) /\ Rankable(s, m) \subseteq 1 .. L
  BY <1>0, EventFacts DEF TablesTyped, Rankable
<1>2. /\ RankOf(s, m) \in 0 .. Len(Required) /\ Len(Required) \in Nat /\ s.achieved \subseteq AwardRow
      /\ r \in RankOf(s, m) + 1 .. Len(Required)
  BY RankOfFacts, RankFacts DEF TablesTyped, Earned
<1>3. PICK c : c = Need(s, m, r - 1)
  OBVIOUS
<1>4. PICK d : d = Need(s, m, r)
  OBVIOUS
<1>5. c \in Nat /\ d \in Nat /\ d = c + Required[r] /\ Required[r] \in Nat
  <2>1. r \in RankOf(s, m) .. Len(Required) /\ r - 1 \in RankOf(s, m) .. Len(Required) /\ r \in Ranks
    BY <1>2, RankFacts
  <2>. QED
    BY <1>2, <1>3, <1>4, <2>1, NeedFacts, RankFacts
<1>6. PICK D : D = [i \in 0 .. L |-> Clip(RestBefore(s, m, i + 1), c, d)]
  OBVIOUS
<1>7. \A i \in 0 .. L : RestBefore(s, m, i + 1) \in Nat
  <2>1. \A i \in 0 .. L : i + 1 \in 1 .. L + 1
    BY <1>1
  <2>. QED
    BY <1>0, <2>1, RestBeforeFacts
<1>8. \A i \in 0 .. L : D[i] \in Int
  BY <1>5, <1>6, <1>7 DEF Clip
<1>9. PICK g : g = [e \in 1 .. L |-> Taken(s, m, r, e)]
  OBVIOUS
<1>10. ASSUME NEW e \in 1 .. L
       PROVE  /\ g[e] = D[e] - D[e - 1] /\ g[e] \in Nat
              /\ e \notin Rankable(s, m) => g[e] = 0
  <2>1. /\ Taken(s, m, r, e) \in Nat
        /\ Taken(s, m, r, e) = Clip(RestBefore(s, m, e + 1), c, d) - Clip(RestBefore(s, m, e), c, d)
        /\ e \notin Rankable(s, m) => Taken(s, m, r, e) = 0
    BY <1>0, <1>2, <1>3, <1>4, TakenFacts
  <2>2. e \in 0 .. L /\ e - 1 \in 0 .. L /\ (e - 1) + 1 = e
    BY <1>1
  <2>3. D[e] = Clip(RestBefore(s, m, e + 1), c, d) /\ D[e - 1] = Clip(RestBefore(s, m, e), c, d)
    BY <1>6, <2>2
  <2>. QED
    BY <1>9, <2>1, <2>3
<1>11. SumFunctionOnSet(g, 0 + 1 .. L) = D[L] - D[0]
  <2>1. \A i \in 0 + 1 .. L : g[i] = D[i] - D[i - 1]
    BY <1>10
  <2>2. 0 \in Int /\ L \in Int /\ 0 <= L
    BY <1>1
  <2>. QED
    BY <1>8, <2>1, <2>2, SumTelescope
<1>12. D[0] = c /\ D[L] = d
  <2>1. RestBefore(s, m, 1) = 0 /\ RestBefore(s, m, L + 1) = Total(s, m) /\ Total(s, m) >= d
        /\ Total(s, m) \in Nat
    <3>1. Need(s, m, r) <= Total(s, m)
      BY DEF Earned
    <3>2. RestBefore(s, m, L + 1) = Total(s, m) /\ RestBefore(s, m, L + 1) \in Nat
      BY <1>0, <1>1, <1>7 DEF Total
    <3>. QED
      BY <1>4, <1>5, <3>1, <3>2, RestBeforeFacts
  <2>2. D[0] = Clip(0, c, d) /\ D[L] = Clip(Total(s, m), c, d)
    BY <1>1, <1>6, <2>1
  <2>. QED
    BY <1>5, <2>1, <2>2 DEF Clip
<1>13. PICK K : K = Rankable(s, m)
  OBVIOUS
<1>14. PICK W : W = (1 .. L) \ K
  OBVIOUS
<1>15. IsFiniteSet(K) /\ IsFiniteSet(W) /\ K \cap W = {} /\ K \cup W = 1 .. L
  BY <1>1, <1>13, <1>14, FS_Subset
<1>16. \A e \in K \cup W : g[e] \in Int
  BY <1>10, <1>15
<1>17. SumFunctionOnSet(g, K \cup W) = SumFunctionOnSet(g, K) + SumFunctionOnSet(g, W)
  BY <1>15, <1>16, SumUnion
<1>18. SumFunctionOnSet(g, W) = 0
  BY <1>10, <1>13, <1>14, <1>15, SumZero
<1>19. SumFunctionOnSet(f, K) = SumFunctionOnSet(g, K)
  <2>1. \A e \in K : f[e] = g[e]
    BY <1>1, <1>9, <1>13
  <2>. QED
    BY <1>15, <2>1, SumSame
<1>20. SumFunctionOnSet(g, K) \in Int
  BY <1>15, <1>16, SumInt
<1>21. SumFunctionOnSet(g, 1 .. L) = Required[r]
  BY <1>5, <1>11, <1>12
<1>22. SumFunctionOnSet(g, 1 .. L) = SumFunctionOnSet(g, K)
  <2>1. SumFunctionOnSet(g, K \cup W) = SumFunctionOnSet(g, K)
    BY <1>17, <1>18, <1>20
  <2>. QED
    BY <1>15, <2>1
<1>. QED
  BY <1>13, <1>19, <1>21, <1>22

\* The ranks earned take no more of an event than is left of it.
LEMMA EventGives ==
    ASSUME NEW s, TablesTyped(s), NEW m \in Members, NEW e \in Rankable(s, m), NEW f,
           \A r \in Earned(s, m) : f[r] = Taken(s, m, r, e)
    PROVE  SumFunctionOnSet(f, Earned(s, m)) <= Rest(s, m, e)
<1>1. PICK top \in RankOf(s, m) .. Len(Required) : Earned(s, m) = RankOf(s, m) + 1 .. top
  BY EarnedFacts
<1>2. PICK k : k = RankOf(s, m)
  OBVIOUS
<1>3. k \in 0 .. Len(Required) /\ Len(Required) \in Nat /\ s.achieved \subseteq AwardRow /\ k <= top /\ top \in Nat
  BY <1>2, RankOfFacts, RankFacts DEF TablesTyped
<1>4. Len(s.buys) \in Nat /\ e \in 1 .. Len(s.buys) /\ e \in DOMAIN s.buys
  BY EventFacts DEF TablesTyped, Rankable
<1>5. PICK a : a = RestBefore(s, m, e)
  OBVIOUS
<1>6. PICK b : b = RestBefore(s, m, e + 1)
  OBVIOUS
<1>7. a \in Nat /\ b = a + Rest(s, m, e) /\ Rest(s, m, e) \in Nat
  <2>1. e \in 1 .. Len(s.buys) + 1
    BY <1>4
  <2>2. a \in Nat /\ b = a + Rest(s, m, e)
    BY <1>4, <1>5, <1>6, <2>1, RestBeforeFacts
  <2>. QED
    BY <1>4, <2>2, RestNat
<1>8. PICK D : D = [r \in k .. top |-> Clip(Need(s, m, r), a, b)]
  OBVIOUS
<1>9. \A r \in k .. top : Need(s, m, r) \in Nat
  <2>1. \A r \in k .. top : r \in k .. Len(Required)
    BY <1>3
  <2>. QED
    BY <1>2, <1>3, <2>1, NeedFacts
<1>10. \A r \in k .. top : D[r] \in Int /\ a <= D[r] /\ D[r] <= b
  BY <1>7, <1>8, <1>9 DEF Clip
<1>11. ASSUME NEW r \in k + 1 .. top
       PROVE  f[r] = D[r] - D[r - 1]
  <2>1. r \in Earned(s, m) /\ r \in RankOf(s, m) + 1 .. Len(Required) /\ r \in k .. top /\ r - 1 \in k .. top
    BY <1>1, <1>2, <1>3
  <2>2. Taken(s, m, r, e) = Clip(Need(s, m, r), a, b) - Clip(Need(s, m, r - 1), a, b)
    BY <1>4, <1>5, <1>6, <2>1, TakenFacts
  <2>. QED
    BY <1>8, <2>1, <2>2
<1>12. SumFunctionOnSet(f, k + 1 .. top) = D[top] - D[k]
  <2>1. k \in Int /\ top \in Int /\ k <= top
    BY <1>3
  <2>2. \A i \in k .. top : D[i] \in Int
    BY <1>10
  <2>. QED
    BY <1>11, <2>1, <2>2, SumTelescope
<1>13. D[top] - D[k] <= Rest(s, m, e)
  <2>1. top \in k .. top /\ k \in k .. top
    BY <1>3
  <2>. QED
    BY <1>7, <1>10, <2>1
<1>. QED
  BY <1>1, <1>2, <1>12, <1>13

-----------------------------------------------------------------------------
\* One member of a rebuild.

AwardSeq(s, m, r) == s.counter + r - RankOf(s, m) - 1

NewRow(s, m, r, e) ==
    [m |-> m, rank |-> r, seq |-> AwardSeq(s, m, r), event |-> e, points |-> Taken(s, m, r, e)]
NewRows(s, m) == {x \in {NewRow(s, m, r, e) : r \in Earned(s, m), e \in Rankable(s, m)} : x.points > 0}

NewAward(s, m, r) == [m |-> m, rank |-> r, seq |-> AwardSeq(s, m, r), status |-> "pending"]
NewAwards(s, m) == {NewAward(s, m, r) : r \in Earned(s, m)}

\* What it adds to the tables.
LEMMA AwardedFields ==
    ASSUME NEW s, TablesTyped(s), NEW m \in Members
    PROVE  \E first \in SUBSET NewRows(s, m) : Awarded(s, m) =
              [buys |-> s.buys, achieved |-> s.achieved \cup NewAwards(s, m), own |-> s.own \cup NewRows(s, m),
               global |-> s.global \cup {[event |-> x.event, m |-> m, points |-> x.points] : x \in first},
               ranking |-> s.ranking, counter |-> s.counter + Cardinality(Earned(s, m)), excluded |-> s.excluded]
<1>1. PICK buys, achieved, own, global, ranking, counter, excluded :
          s = [buys |-> buys, achieved |-> achieved, own |-> own, global |-> global,
               ranking |-> ranking, counter |-> counter, excluded |-> excluded]
  BY DEF TablesTyped
<1>2. PICK first : first = {x \in NewRows(s, m) :
                    /\ \A y \in NewRows(s, m) : y.event = x.event => x.rank <= y.rank
                    /\ \A g \in s.global : ~(g.m = m /\ g.event = x.event)}
  OBVIOUS
<1>3. PICK A : A = achieved \cup NewAwards(s, m)
  OBVIOUS
<1>4. PICK O : O = own \cup NewRows(s, m)
  OBVIOUS
<1>5. PICK G : G = global \cup {[event |-> x.event, m |-> m, points |-> x.points] : x \in first}
  OBVIOUS
<1>6. PICK C : C = counter + Cardinality(Earned(s, m))
  OBVIOUS
<1>7. Awarded(s, m) = [s EXCEPT
            !.achieved = @ \cup NewAwards(s, m),
            !.own = @ \cup NewRows(s, m),
            !.global = @ \cup {[event |-> x.event, m |-> m, points |-> x.points] : x \in first},
            !.counter = @ + Cardinality(Earned(s, m))]
  BY <1>2 DEF Awarded, NewRows, NewRow, NewAwards, NewAward, AwardSeq
<1>8. Awarded(s, m) = [buys |-> buys, achieved |-> A, own |-> O, global |-> G,
                       ranking |-> ranking, counter |-> C, excluded |-> excluded]
  BY <1>1, <1>3, <1>4, <1>5, <1>6, <1>7
<1>9. /\ s.buys = buys /\ s.achieved = achieved /\ s.own = own /\ s.global = global
      /\ s.ranking = ranking /\ s.counter = counter /\ s.excluded = excluded
  BY <1>1
<1>10. first \in SUBSET NewRows(s, m)
  BY <1>2
<1>11. Awarded(s, m) =
          [buys |-> s.buys, achieved |-> s.achieved \cup NewAwards(s, m), own |-> s.own \cup NewRows(s, m),
           global |-> s.global \cup {[event |-> x.event, m |-> m, points |-> x.points] : x \in first},
           ranking |-> s.ranking, counter |-> s.counter + Cardinality(Earned(s, m)), excluded |-> s.excluded]
  BY <1>3, <1>4, <1>5, <1>6, <1>8, <1>9
<1>. QED
  BY <1>10, <1>11

\* What is shown of the member: what it has gained, and what remains of that.
Gain(s, m) == SumFunctionOnSet([e \in Rankable(s, m) |-> Net(s, e)], Rankable(s, m))
              + Points({o \in s.own : o.m = m})
ShownRow(s, t, m, consumed, pending) ==
    [rank |-> RankOf(t, m), gross |-> Gain(s, m), consumed |-> consumed,
     remaining |-> IF m \in s.excluded THEN Gain(s, m)
                   ELSE Remaining(Gain(s, m), Points({o \in t.own : o.m = m})),
     pending |-> pending]

\* The tables after the rebuild of one member.
LEMMA RebuildFields ==
    ASSUME NEW s, TablesTyped(s), NEW m \in Members, NEW t, t = RebuildOne(s, m)
    PROVE  /\ t = [buys |-> t.buys, achieved |-> t.achieved, own |-> t.own, global |-> t.global,
                   ranking |-> t.ranking, counter |-> t.counter, excluded |-> t.excluded]
           /\ t.buys = s.buys
           /\ t.achieved = s.achieved \cup NewAwards(s, m)
           /\ t.own = s.own \cup NewRows(s, m)
           /\ \E first \in SUBSET NewRows(s, m) :
                 t.global = s.global \cup {[event |-> x.event, m |-> m, points |-> x.points] : x \in first}
           /\ t.counter = s.counter + Cardinality(Earned(s, m))
           /\ t.excluded = s.excluded
           /\ \E consumed, pending :
                 t.ranking = [s.ranking EXCEPT ![m] = ShownRow(s, t, m, consumed, pending)]
<1>1. PICK first \in SUBSET NewRows(s, m) : Awarded(s, m) =
          [buys |-> s.buys, achieved |-> s.achieved \cup NewAwards(s, m), own |-> s.own \cup NewRows(s, m),
           global |-> s.global \cup {[event |-> x.event, m |-> m, points |-> x.points] : x \in first},
           ranking |-> s.ranking, counter |-> s.counter + Cardinality(Earned(s, m)), excluded |-> s.excluded]
  BY AwardedFields
<1>2. PICK A : A = s.achieved \cup NewAwards(s, m)
  OBVIOUS
<1>3. PICK O : O = s.own \cup NewRows(s, m)
  OBVIOUS
<1>4. PICK G : G = s.global \cup {[event |-> x.event, m |-> m, points |-> x.points] : x \in first}
  OBVIOUS
<1>5. PICK C : C = s.counter + Cardinality(Earned(s, m))
  OBVIOUS
<1>6. PICK w : w = Awarded(s, m)
  OBVIOUS
<1>7. w = [buys |-> s.buys, achieved |-> A, own |-> O, global |-> G,
           ranking |-> s.ranking, counter |-> C, excluded |-> s.excluded]
  BY <1>1, <1>2, <1>3, <1>4, <1>5, <1>6
<1>8. PICK consumed, pending :
         t = [w EXCEPT !.ranking[m] =
            [rank |-> RankOf(w, m), gross |-> Gain(s, m), consumed |-> consumed,
             remaining |-> IF m \in w.excluded THEN Gain(s, m)
                           ELSE Remaining(Gain(s, m), Points({o \in w.own : o.m = m})),
             pending |-> pending]]
  BY Zenon, <1>6 DEF RebuildOne, Shown, Gain
<1>9. PICK row : row = [rank |-> RankOf(w, m), gross |-> Gain(s, m), consumed |-> consumed,
             remaining |-> IF m \in w.excluded THEN Gain(s, m)
                           ELSE Remaining(Gain(s, m), Points({o \in w.own : o.m = m})),
             pending |-> pending]
  OBVIOUS
<1>10. PICK R : R = [s.ranking EXCEPT ![m] = row]
  OBVIOUS
<1>11. t = [w EXCEPT !.ranking[m] = row]
  BY <1>8, <1>9
<1>12. t = [buys |-> s.buys, achieved |-> A, own |-> O, global |-> G,
            ranking |-> R, counter |-> C, excluded |-> s.excluded]
  BY <1>7, <1>10, <1>11
<1>13. t.achieved = w.achieved /\ t.own = w.own /\ w.excluded = s.excluded /\ t.ranking = R
  BY <1>7, <1>12
<1>14. RankOf(t, m) = RankOf(w, m)
  BY <1>13 DEF RankOf
<1>15. Points({o \in w.own : o.m = m}) = Points({o \in t.own : o.m = m})
  BY <1>13
<1>16. t.ranking = [s.ranking EXCEPT ![m] = ShownRow(s, t, m, consumed, pending)]
  BY <1>9, <1>10, <1>13, <1>14, <1>15 DEF ShownRow
<1>17. /\ t = [buys |-> t.buys, achieved |-> t.achieved, own |-> t.own, global |-> t.global,
               ranking |-> t.ranking, counter |-> t.counter, excluded |-> t.excluded]
       /\ t.buys = s.buys /\ t.achieved = s.achieved \cup NewAwards(s, m) /\ t.own = s.own \cup NewRows(s, m)
       /\ t.counter = s.counter + Cardinality(Earned(s, m)) /\ t.excluded = s.excluded
  BY <1>2, <1>3, <1>5, <1>12
<1>18. t.global = s.global \cup {[event |-> x.event, m |-> m, points |-> x.points] : x \in first}
  BY <1>4, <1>12
<1>. QED
  BY <1>16, <1>17, <1>18

\* What the rows and the awards of a rebuild are.
LEMMA NewRowsFacts ==
    ASSUME NEW s, TablesTyped(s), NEW m \in Members
    PROVE  /\ IsFiniteSet(NewRows(s, m)) /\ NewRows(s, m) \subseteq OwnRow
           /\ IsFiniteSet(NewAwards(s, m)) /\ NewAwards(s, m) \subseteq AwardRow
           /\ \A o \in NewRows(s, m) : \E r \in Earned(s, m), e \in Rankable(s, m) :
                 o = NewRow(s, m, r, e) /\ Taken(s, m, r, e) > 0
           /\ \A r \in Earned(s, m), e \in Rankable(s, m) :
                 Taken(s, m, r, e) > 0 => NewRow(s, m, r, e) \in NewRows(s, m)
           /\ \A r \in Earned(s, m) : /\ r \in RankOf(s, m) + 1 .. Len(Required)
                                      /\ AwardSeq(s, m, r) \in s.counter .. s.counter + Cardinality(Earned(s, m)) - 1
           /\ \A q, r \in Earned(s, m) : /\ q < r => AwardSeq(s, m, q) < AwardSeq(s, m, r)
                                         /\ AwardSeq(s, m, q) = AwardSeq(s, m, r) => q = r
           /\ Earned(s, m) # {} => RankOf(s, m) + 1 \in Earned(s, m)
           /\ RankOf(s, m) \in 0 .. Len(Required)
           /\ Cardinality(Earned(s, m)) \in Nat
<1>1. PICK k : k = RankOf(s, m)
  OBVIOUS
<1>2. k \in 0 .. Len(Required) /\ Len(Required) \in Nat /\ s.counter \in Int
  BY <1>1, RankOfFacts, RankFacts DEF TablesTyped
<1>3. PICK E : E = Earned(s, m)
  OBVIOUS
<1>4. PICK top \in k .. Len(Required) :
         /\ E = k + 1 .. top /\ Cardinality(E) = top - k /\ IsFiniteSet(E)
  BY <1>1, <1>3, EarnedFacts
<1>5. PICK K : K = Rankable(s, m)
  OBVIOUS
<1>6. K \subseteq 1 .. Len(s.buys) /\ IsFiniteSet(K) /\ Len(s.buys) \in Nat
  <2>1. IsFiniteSet(1 .. Len(s.buys)) /\ Len(s.buys) \in Nat /\ DOMAIN s.buys = 1 .. Len(s.buys)
    BY EventFacts DEF TablesTyped
  <2>. QED
    BY <1>5, <2>1, FS_Subset DEF Rankable
<1>7. ASSUME NEW r \in E
      PROVE  /\ r \in k + 1 .. Len(Required) /\ r \in Ranks
             /\ AwardSeq(s, m, r) = s.counter + r - k - 1 /\ AwardSeq(s, m, r) \in Int
             /\ AwardSeq(s, m, r) \in s.counter .. s.counter + Cardinality(E) - 1
  <2>1. r \in Nat /\ k + 1 <= r /\ r <= top /\ top <= Len(Required) /\ top \in Nat
    BY <1>2, <1>4
  <2>2. AwardSeq(s, m, r) = s.counter + r - k - 1
    BY <1>1 DEF AwardSeq
  <2>3. s.counter + r - k - 1 \in s.counter .. s.counter + (top - k) - 1
    BY <1>2, <2>1
  <2>4. r \in k + 1 .. Len(Required) /\ r \in Ranks
    BY <1>2, <2>1, RankFacts
  <2>. QED
    BY <1>2, <1>4, <2>2, <2>3, <2>4
<1>8. \A r \in E, e \in K : Taken(s, m, r, e) \in Nat
  BY <1>1, <1>6, <1>7, TakenFacts
<1>9. \A r \in E, e \in K : NewRow(s, m, r, e) \in OwnRow
  <2>1. \A e \in K : e \in Nat
    BY <1>6
  <2>. QED
    BY <1>7, <1>8, <2>1 DEF NewRow, OwnRow
<1>10. IsFiniteSet({NewRow(s, m, r, e) : r \in E, e \in K})
  <2>1. PICK P : P = E \X K
    OBVIOUS
  <2>2. IsFiniteSet(P)
    BY <1>4, <1>6, <2>1, FS_Product
  <2>3. PICK f : f = [x \in P |-> NewRow(s, m, x[1], x[2])]
    OBVIOUS
  <2>. DEFINE S == {NewRow(s, m, r, e) : r \in E, e \in K}
  <2>4. \A y : y \in S <=> \E r \in E, e \in K : y = NewRow(s, m, r, e)
    OBVIOUS
  <2>. HIDE DEF S
  <2>5. f \in Surjection(P, S)
    <3>1. \A x \in P : f[x] \in S
      BY <2>1, <2>3, <2>4
    <3>2. f \in [P -> S]
      BY <2>3, <3>1
    <3>3. ASSUME NEW y \in S
          PROVE  \E x \in P : f[x] = y
      <4>1. PICK r \in E, e \in K : y = NewRow(s, m, r, e)
        BY <2>4
      <4>2. <<r, e>> \in P /\ f[<<r, e>>] = y
        BY <2>1, <2>3, <4>1
      <4>. QED
        BY <4>2
    <3>. QED
      BY <3>2, <3>3 DEF Surjection
  <2>6. IsFiniteSet(S)
    BY <2>2, <2>5, FS_Surjection
  <2>. QED
    BY <2>6 DEF S
<1>11. NewRows(s, m) \subseteq {NewRow(s, m, r, e) : r \in E, e \in K}
  BY <1>3, <1>5 DEF NewRows
<1>12. IsFiniteSet(NewRows(s, m)) /\ NewRows(s, m) \subseteq OwnRow
  <2>1. IsFiniteSet(NewRows(s, m))
    BY <1>10, <1>11, FS_Subset
  <2>. QED
    BY <1>9, <1>11, <2>1
<1>13. \A o \in NewRows(s, m) : \E r \in E, e \in K : o = NewRow(s, m, r, e) /\ Taken(s, m, r, e) > 0
  <2>1. \A o \in NewRows(s, m) : \E r \in E, e \in K : o = NewRow(s, m, r, e) /\ o.points > 0
    BY <1>3, <1>5 DEF NewRows
  <2>. QED
    BY <2>1 DEF NewRow
<1>14. \A r \in E, e \in K : Taken(s, m, r, e) > 0 => NewRow(s, m, r, e) \in NewRows(s, m)
  BY <1>3, <1>5 DEF NewRows, NewRow
<1>15. NewAwards(s, m) \subseteq AwardRow
  BY <1>3, <1>7 DEF NewAwards, NewAward, AwardRow
<1>16. IsFiniteSet(NewAwards(s, m))
  <2>1. PICK f : f = [r \in E |-> NewAward(s, m, r)]
    OBVIOUS
  <2>2. f \in Surjection(E, NewAwards(s, m))
    BY <1>3, <2>1 DEF NewAwards, Surjection
  <2>. QED
    BY <1>4, <2>2, FS_Surjection
<1>17. \A q, r \in E : /\ q < r => AwardSeq(s, m, q) < AwardSeq(s, m, r)
                       /\ AwardSeq(s, m, q) = AwardSeq(s, m, r) => q = r
  <2>1. ASSUME NEW q \in E, NEW r \in E
        PROVE  /\ q < r => AwardSeq(s, m, q) < AwardSeq(s, m, r)
               /\ AwardSeq(s, m, q) = AwardSeq(s, m, r) => q = r
    <3>1. AwardSeq(s, m, q) = s.counter + q - k - 1 /\ AwardSeq(s, m, r) = s.counter + r - k - 1
      BY <1>7
    <3>2. q \in Int /\ r \in Int
      BY <1>2, <1>4
    <3>. QED
      BY <1>2, <3>1, <3>2
  <2>. QED
    BY <2>1
<1>18. E # {} => k + 1 \in E
  BY <1>2, <1>4
<1>19. Cardinality(E) \in Nat
  BY <1>4, FS_CardinalityType
<1>. HIDE DEF RankOf, NewRows, NewAwards, NewRow, AwardSeq
<1>. QED
  BY <1>1, <1>2, <1>3, <1>5, <1>7, <1>12, <1>13, <1>14, <1>15, <1>16, <1>17, <1>18, <1>19

\* Rows with an index of their own each, and no index without a row but those
\* of nothing: their points are the sum over the indices.
LEMMA PointsIndexed ==
    ASSUME NEW K, IsFiniteSet(K), NEW f, \A x \in K : f[x] \in Nat,
           NEW R, NEW b \in [R -> K],
           \A o \in R : o.points = f[b[o]],
           \A o, p \in R : b[o] = b[p] => o = p,
           \A x \in K : f[x] > 0 => \E o \in R : b[o] = x
    PROVE  Points(R) = SumFunctionOnSet(f, K)
<1>1. PICK P : P = {b[o] : o \in R}
  OBVIOUS
<1>2. PICK W : W = K \ P
  OBVIOUS
<1>3. P \subseteq K
  BY <1>1
<1>4. IsFiniteSet(P) /\ IsFiniteSet(W) /\ P \cap W = {} /\ P \cup W = K
  BY <1>2, <1>3, FS_Subset
<1>5. \A x \in P \cup W : f[x] \in Int
  BY <1>4
<1>6. SumFunctionOnSet(f, P \cup W) = SumFunctionOnSet(f, P) + SumFunctionOnSet(f, W)
  BY <1>4, <1>5, SumUnion
<1>7. SumFunctionOnSet(f, W) = 0
  <2>1. \A x \in W : f[x] \in Nat /\ ~(f[x] > 0)
    BY <1>1, <1>2
  <2>2. \A x \in W : f[x] = 0
    BY <2>1
  <2>. QED
    BY <1>4, <2>2, SumZero
<1>8. PICK g : g = [o \in R |-> o.points]
  OBVIOUS
<1>9. b \in Bijection(R, P)
  <2>1. b \in [R -> P]
    BY <1>1
  <2>2. \A x \in P : \E o \in R : b[o] = x
    BY <1>1
  <2>. QED
    BY <2>1, <2>2 DEF Bijection, Injection, Surjection, IsInjective
<1>10. \A o \in R : g[o] = f[b[o]] /\ g[o] \in Int
  BY <1>8
<1>11. SumFunctionOnSet(g, R) = SumFunctionOnSet(f, P)
  BY <1>4, <1>9, <1>10, SumRenamed
<1>12. SumFunctionOnSet(f, P) \in Int
  BY <1>4, <1>5, SumInt
<1>13. SumFunctionOnSet(f, K) = SumFunctionOnSet(f, P)
  <2>1. SumFunctionOnSet(f, P \cup W) = SumFunctionOnSet(f, P)
    BY <1>6, <1>7, <1>12
  <2>. QED
    BY <1>4, <2>1
<1>. QED
  BY <1>8, <1>11, <1>13 DEF Points

\* The rows of a rank carry the points it requires.
LEMMA RowsOfRank ==
    ASSUME NEW s, TablesTyped(s), NEW m \in Members, NEW r \in Earned(s, m)
    PROVE  Points({o \in NewRows(s, m) : o.seq = AwardSeq(s, m, r)}) = Required[r]
<1>1. PICK K : K = Rankable(s, m)
  OBVIOUS
<1>2. IsFiniteSet(K) /\ K \subseteq 1 .. Len(s.buys)
  <2>1. IsFiniteSet(DOMAIN s.buys) /\ DOMAIN s.buys = 1 .. Len(s.buys)
    BY EventFacts DEF TablesTyped
  <2>. QED
    BY <1>1, <2>1, FS_Subset DEF Rankable
<1>3. PICK R : R = {o \in NewRows(s, m) : o.seq = AwardSeq(s, m, r)}
  OBVIOUS
<1>4. PICK f : f = [e \in K |-> Taken(s, m, r, e)]
  OBVIOUS
<1>5. PICK b : b = [o \in R |-> o.event]
  OBVIOUS
<1>6. \A e \in K : f[e] \in Nat
  <2>1. r \in RankOf(s, m) + 1 .. Len(Required)
    BY DEF Earned
  <2>2. \A e \in K : Taken(s, m, r, e) \in Nat
    BY <1>2, <2>1, TakenFacts
  <2>. QED
    BY <1>4, <2>2
<1>7. \A o \in R : \E e \in K : o = NewRow(s, m, r, e) /\ Taken(s, m, r, e) > 0
  <2>1. TAKE o \in R
  <2>2. PICK q \in Earned(s, m), e \in K : o = NewRow(s, m, q, e) /\ Taken(s, m, q, e) > 0
    BY <1>1, <1>3, NewRowsFacts
  <2>3. AwardSeq(s, m, q) = AwardSeq(s, m, r)
    BY <1>3, <2>2 DEF NewRow
  <2>4. q = r
    BY <2>3, NewRowsFacts
  <2>. QED
    BY <2>2, <2>4
<1>8. \A o \in R : b[o] = o.event /\ o = NewRow(s, m, r, o.event) /\ o.event \in K
                   /\ o.points = Taken(s, m, r, o.event)
  BY <1>5, <1>7 DEF NewRow
<1>9. b \in [R -> K]
  BY <1>5, <1>8
<1>10. \A o \in R : o.points = f[b[o]]
  BY <1>4, <1>8
<1>11. \A o, p \in R : b[o] = b[p] => o = p
  BY <1>8
<1>12. \A e \in K : f[e] > 0 => \E o \in R : b[o] = e
  <2>1. TAKE e \in K
  <2>2. HAVE f[e] > 0
  <2>3. NewRow(s, m, r, e) \in NewRows(s, m)
    BY <1>1, <1>4, <2>2, NewRowsFacts
  <2>4. NewRow(s, m, r, e) \in R /\ NewRow(s, m, r, e).event = e
    BY <1>3, <2>3 DEF NewRow
  <2>. QED
    BY <1>5, <2>4
<1>13. Points(R) = SumFunctionOnSet(f, K)
  BY <1>2, <1>6, <1>9, <1>10, <1>11, <1>12, PointsIndexed
<1>14. SumFunctionOnSet(f, Rankable(s, m)) = Required[r]
  <2>1. \A e \in Rankable(s, m) : f[e] = Taken(s, m, r, e)
    BY <1>1, <1>4
  <2>. QED
    BY <2>1, RankTakes
<1>. QED
  BY <1>1, <1>3, <1>13, <1>14

\* The rows of an event carry no more than is left of it.
LEMMA RowsOfEvent ==
    ASSUME NEW s, TablesTyped(s), NEW m \in Members, NEW e \in Rankable(s, m)
    PROVE  Points({o \in NewRows(s, m) : o.event = e}) <= Rest(s, m, e)
<1>1. PICK E : E = Earned(s, m)
  OBVIOUS
<1>2. IsFiniteSet(E) /\ \A r \in E : r \in RankOf(s, m) + 1 .. Len(Required)
  BY <1>1, EarnedFacts DEF Earned
<1>3. PICK R : R = {o \in NewRows(s, m) : o.event = e}
  OBVIOUS
<1>4. PICK f : f = [r \in E |-> Taken(s, m, r, e)]
  OBVIOUS
<1>5. PICK b : b = [o \in R |-> o.rank]
  OBVIOUS
<1>6. \A r \in E : f[r] \in Nat
  <2>1. e \in 1 .. Len(s.buys)
    BY EventFacts DEF TablesTyped, Rankable
  <2>2. \A r \in E : Taken(s, m, r, e) \in Nat
    BY <1>2, <2>1, TakenFacts
  <2>. QED
    BY <1>4, <2>2
<1>7. \A o \in R : \E r \in E : o = NewRow(s, m, r, e)
  <2>1. TAKE o \in R
  <2>2. PICK r \in E, i \in Rankable(s, m) : o = NewRow(s, m, r, i)
    BY <1>1, <1>3, NewRowsFacts
  <2>3. i = e
    BY <1>3, <2>2 DEF NewRow
  <2>. QED
    BY <2>2, <2>3
<1>8. \A o \in R : b[o] = o.rank /\ o = NewRow(s, m, o.rank, e) /\ o.rank \in E
                   /\ o.points = Taken(s, m, o.rank, e)
  BY <1>5, <1>7 DEF NewRow
<1>9. b \in [R -> E]
  BY <1>5, <1>8
<1>10. \A o \in R : o.points = f[b[o]]
  BY <1>4, <1>8
<1>11. \A o, p \in R : b[o] = b[p] => o = p
  BY <1>8
<1>12. \A r \in E : f[r] > 0 => \E o \in R : b[o] = r
  <2>1. TAKE r \in E
  <2>2. HAVE f[r] > 0
  <2>3. NewRow(s, m, r, e) \in NewRows(s, m)
    BY <1>1, <1>4, <2>2, NewRowsFacts
  <2>4. NewRow(s, m, r, e) \in R /\ NewRow(s, m, r, e).rank = r
    BY <1>3, <2>3 DEF NewRow
  <2>. QED
    BY <1>5, <2>4
<1>13. Points(R) = SumFunctionOnSet(f, E)
  BY <1>2, <1>6, <1>9, <1>10, <1>11, <1>12, PointsIndexed
<1>14. SumFunctionOnSet(f, Earned(s, m)) <= Rest(s, m, e)
  <2>1. \A r \in Earned(s, m) : f[r] = Taken(s, m, r, e)
    BY <1>1, <1>4
  <2>. QED
    BY <2>1, EventGives
<1>. QED
  BY <1>1, <1>3, <1>13, <1>14

-----------------------------------------------------------------------------
\* A rebuild.

\* Every number given is below the counter.
Numbered(s) == \A x \in s.achieved \cup s.own : x.seq < s.counter

\* A rebuilt member keeps the tables typed, and takes new numbers.
LEMMA RebuildTyped ==
    ASSUME NEW s, TablesTyped(s), Numbered(s), NEW m \in Members, NEW t, t = RebuildOne(s, m)
    PROVE  /\ TablesTyped(t) /\ Numbered(t)
           /\ t.buys = s.buys
           /\ t.achieved = s.achieved \cup NewAwards(s, m)
           /\ t.own = s.own \cup NewRows(s, m)
           /\ s.global \subseteq t.global
           /\ s.counter <= t.counter /\ s.counter \in Int /\ t.counter \in Int
           /\ \A x \in NewAwards(s, m) \cup NewRows(s, m) :
                 x.seq \in Int /\ s.counter <= x.seq /\ x.seq < t.counter
<1>1. PICK c \in Nat : c = Cardinality(Earned(s, m))
  BY NewRowsFacts
<1>2. PICK first \in SUBSET NewRows(s, m) :
         t.global = s.global \cup {[event |-> x.event, m |-> m, points |-> x.points] : x \in first}
  BY RebuildFields
<1>3. /\ t = [buys |-> t.buys, achieved |-> t.achieved, own |-> t.own, global |-> t.global,
              ranking |-> t.ranking, counter |-> t.counter, excluded |-> t.excluded]
      /\ t.buys = s.buys
      /\ t.achieved = s.achieved \cup NewAwards(s, m)
      /\ t.own = s.own \cup NewRows(s, m)
      /\ t.counter = s.counter + c
  BY <1>1, RebuildFields
<1>4. /\ IsFiniteSet(NewRows(s, m)) /\ NewRows(s, m) \subseteq OwnRow
      /\ IsFiniteSet(NewAwards(s, m)) /\ NewAwards(s, m) \subseteq AwardRow
  BY NewRowsFacts
<1>5. s.counter \in Int /\ t.counter \in Int /\ s.counter <= t.counter
  <2>1. s.counter \in Int
    BY DEF TablesTyped
  <2>. QED
    BY <1>1, <1>3, <2>1
<1>6. ASSUME NEW r \in Earned(s, m)
      PROVE  AwardSeq(s, m, r) \in Int /\ s.counter <= AwardSeq(s, m, r) /\ AwardSeq(s, m, r) < t.counter
  <2>1. AwardSeq(s, m, r) \in s.counter .. s.counter + c - 1
    BY <1>1, NewRowsFacts
  <2>. QED
    BY <1>1, <1>3, <1>5, <2>1
<1>7. \A x \in NewAwards(s, m) : x.seq \in Int /\ s.counter <= x.seq /\ x.seq < t.counter
  BY <1>6 DEF NewAwards, NewAward
<1>8. \A x \in NewRows(s, m) : x.seq \in Int /\ s.counter <= x.seq /\ x.seq < t.counter
  <2>1. TAKE x \in NewRows(s, m)
  <2>2. PICK r \in Earned(s, m), e \in Rankable(s, m) : x = NewRow(s, m, r, e)
    BY NewRowsFacts
  <2>3. x.seq = AwardSeq(s, m, r)
    BY <2>2 DEF NewRow
  <2>. QED
    BY <1>6, <2>3
<1>9. \A x \in NewRows(s, m) : x.event \in DOMAIN s.buys
  <2>1. TAKE x \in NewRows(s, m)
  <2>2. PICK r \in Earned(s, m), e \in Rankable(s, m) : x = NewRow(s, m, r, e)
    BY NewRowsFacts
  <2>. QED
    BY <2>2 DEF NewRow, Rankable
<1>10. PICK G : G = {[event |-> x.event, m |-> m, points |-> x.points] : x \in first}
  OBVIOUS
<1>11. IsFiniteSet(G) /\ G \subseteq GlobalRow /\ \A g \in G : g.event \in DOMAIN s.buys
  <2>1. PICK f : f = [x \in first |-> [event |-> x.event, m |-> m, points |-> x.points]]
    OBVIOUS
  <2>2. f \in Surjection(first, G)
    BY <1>10, <2>1 DEF Surjection
  <2>3. IsFiniteSet(first)
    BY <1>4, FS_Subset
  <2>4. IsFiniteSet(G)
    BY <2>2, <2>3, FS_Surjection
  <2>5. G \subseteq GlobalRow
    BY <1>4, <1>10 DEF GlobalRow, OwnRow
  <2>6. \A g \in G : g.event \in DOMAIN s.buys
    BY <1>9, <1>10
  <2>. QED
    BY <2>4, <2>5, <2>6
<1>12. t.buys \in Seq(BuyRow)
  BY <1>3 DEF TablesTyped
<1>13. t.achieved \subseteq AwardRow /\ IsFiniteSet(t.achieved)
  <2>1. s.achieved \subseteq AwardRow /\ IsFiniteSet(s.achieved)
    BY DEF TablesTyped
  <2>2. IsFiniteSet(s.achieved \cup NewAwards(s, m))
    BY <1>4, <2>1, FS_Union
  <2>. QED
    BY <1>3, <1>4, <2>1, <2>2
<1>14. t.own \subseteq OwnRow /\ IsFiniteSet(t.own) /\ \A x \in t.own : x.event \in DOMAIN t.buys
  <2>1. s.own \subseteq OwnRow /\ IsFiniteSet(s.own) /\ \A x \in s.own : x.event \in DOMAIN s.buys
    BY DEF TablesTyped
  <2>2. IsFiniteSet(s.own \cup NewRows(s, m))
    BY <1>4, <2>1, FS_Union
  <2>. QED
    BY <1>3, <1>4, <1>9, <2>1, <2>2
<1>15. t.global \subseteq GlobalRow /\ IsFiniteSet(t.global) /\ \A x \in t.global : x.event \in DOMAIN t.buys
  <2>1. s.global \subseteq GlobalRow /\ IsFiniteSet(s.global) /\ \A x \in s.global : x.event \in DOMAIN s.buys
    BY DEF TablesTyped
  <2>2. t.global = s.global \cup G
    BY <1>2, <1>10
  <2>3. IsFiniteSet(s.global \cup G)
    BY <1>11, <2>1, FS_Union
  <2>. QED
    BY <1>3, <1>11, <2>1, <2>2, <2>3
<1>16. TablesTyped(t)
  BY <1>3, <1>5, <1>12, <1>13, <1>14, <1>15 DEF TablesTyped
<1>17. Numbered(t)
  <2>1. ASSUME NEW x \in s.achieved \cup s.own
        PROVE  x.seq < t.counter
    <3>1. x.seq < s.counter
      BY DEF Numbered
    <3>2. x.seq \in Int
      BY DEF TablesTyped, AwardRow, OwnRow
    <3>. QED
      BY <1>5, <3>1, <3>2
  <2>. QED
    BY <1>3, <1>7, <1>8, <2>1 DEF Numbered
<1>. QED
  BY <1>2, <1>3, <1>5, <1>7, <1>8, <1>16, <1>17

\* What a rebuild from the tables at to the tables t has awarded and consumed.
Fresh(at, t) == t.achieved \ at.achieved
Added(at, t) == t.own \ at.own

\* Every award has a number and a rank of its own, in this order, the lowest
\* first, and is paid for; nothing is consumed but for an award, of a
\* repurchase below the member, and not more of it than it carries.
AwardsPaid(at, t) ==
    \A a \in Fresh(at, t) :
        /\ at.counter <= a.seq
        /\ RankOf(at, a.m) < a.rank
        /\ \E b \in Fresh(at, t) : b.m = a.m /\ b.rank = RankOf(at, a.m) + 1
        /\ Points({o \in Added(at, t) : o.m = a.m /\ o.seq = a.seq}) = Required[a.rank]
AwardsOrdered(at, t) ==
    \A a, b \in Fresh(at, t) :
        /\ a.seq = b.seq => a = b
        /\ a.m = b.m /\ a.rank < b.rank => a.seq < b.seq
RowsBacked(at, t) ==
    \A o \in Added(at, t) :
        /\ at.counter <= o.seq
        /\ \E a \in Fresh(at, t) : a.m = o.m /\ a.seq = o.seq
        /\ t.buys[o.event].uid \in Below[o.m]
        /\ Points({x \in t.own : x.m = o.m /\ x.event = o.event}) <= t.buys[o.event].points

Extends(at, t) ==
    /\ TablesTyped(t) /\ Numbered(t)
    /\ t.buys = at.buys
    /\ at.achieved \subseteq t.achieved /\ at.own \subseteq t.own /\ at.global \subseteq t.global
    /\ at.counter <= t.counter

RebuildInv(at, t) ==
    Extends(at, t) /\ AwardsPaid(at, t) /\ AwardsOrdered(at, t) /\ RowsBacked(at, t)

\* What the rebuild of one more member adds to that.
LEMMA RebuildAdds ==
    ASSUME NEW at, TablesTyped(at), Numbered(at), NEW s, RebuildInv(at, s),
           NEW m \in Members, NEW t, t = RebuildOne(s, m)
    PROVE  /\ Extends(at, t)
           /\ Fresh(at, t) = Fresh(at, s) \cup NewAwards(s, m)
           /\ Added(at, t) = Added(at, s) \cup NewRows(s, m)
           /\ NewRows(s, m) \cap s.own = {}
           /\ \A x \in Fresh(at, s) \cup Added(at, s) : x.seq \in Int /\ x.seq < s.counter
           /\ \A x \in NewAwards(s, m) \cup NewRows(s, m) : x.seq \in Int /\ at.counter <= x.seq /\ s.counter <= x.seq
<1>1. Extends(at, s) /\ TablesTyped(s) /\ Numbered(s)
  BY DEF RebuildInv, Extends
<1>2. /\ TablesTyped(t) /\ Numbered(t)
      /\ t.buys = s.buys
      /\ t.achieved = s.achieved \cup NewAwards(s, m)
      /\ t.own = s.own \cup NewRows(s, m)
      /\ s.global \subseteq t.global
      /\ s.counter <= t.counter /\ s.counter \in Int /\ t.counter \in Int
      /\ \A x \in NewAwards(s, m) \cup NewRows(s, m) :
            x.seq \in Int /\ s.counter <= x.seq /\ x.seq < t.counter
  BY <1>1, RebuildTyped
<1>3. at.counter \in Int /\ at.counter <= s.counter
  BY <1>1 DEF TablesTyped, Extends
<1>4. \A x \in s.achieved \cup s.own : x.seq \in Int /\ x.seq < s.counter
  BY <1>1 DEF TablesTyped, Numbered, AwardRow, OwnRow
<1>5. \A x \in NewAwards(s, m) \cup NewRows(s, m) : at.counter <= x.seq
  BY <1>2, <1>3
<1>6. NewAwards(s, m) \cap s.achieved = {} /\ NewRows(s, m) \cap s.own = {}
  BY <1>2, <1>4
<1>7. at.achieved \subseteq s.achieved /\ at.own \subseteq s.own /\ at.global \subseteq s.global /\ s.buys = at.buys
  BY <1>1 DEF Extends
<1>8. Extends(at, t)
  BY <1>2, <1>3, <1>7 DEF Extends
<1>9. Fresh(at, t) = Fresh(at, s) \cup NewAwards(s, m)
  BY <1>2, <1>6, <1>7 DEF Fresh
<1>10. Added(at, t) = Added(at, s) \cup NewRows(s, m)
  BY <1>2, <1>6, <1>7 DEF Added
<1>11. \A x \in Fresh(at, s) \cup Added(at, s) : x.seq \in Int /\ x.seq < s.counter
  BY <1>4 DEF Fresh, Added
<1>. QED
  BY <1>2, <1>5, <1>6, <1>8, <1>9, <1>10, <1>11

\* With the new rows of an event, the member has consumed no more than it carries.
LEMMA EventBound ==
    ASSUME NEW s, TablesTyped(s), NEW m \in Members, NewRows(s, m) \cap s.own = {},
           NEW n \in NewRows(s, m)
    PROVE  /\ n.m = m /\ s.buys[n.event].uid \in Below[m] /\ n.event \in Rankable(s, m)
           /\ Points({x \in s.own \cup NewRows(s, m) : x.m = m /\ x.event = n.event})
                 <= s.buys[n.event].points
<1>1. PICK r \in Earned(s, m), e \in Rankable(s, m) : n = NewRow(s, m, r, e) /\ Taken(s, m, r, e) > 0
  BY NewRowsFacts
<1>2. n.m = m /\ n.event = e /\ n.points > 0
  BY <1>1 DEF NewRow
<1>3. e \in DOMAIN s.buys /\ s.buys[e].uid \in Below[m]
  BY DEF Rankable
<1>4. PICK O : O = {x \in s.own : x.m = m /\ x.event = e}
  OBVIOUS
<1>5. PICK R : R = {x \in NewRows(s, m) : x.event = e}
  OBVIOUS
<1>6. \A x \in NewRows(s, m) : x.m = m
  <2>1. TAKE x \in NewRows(s, m)
  <2>2. PICK q \in Earned(s, m), i \in Rankable(s, m) : x = NewRow(s, m, q, i)
    BY NewRowsFacts
  <2>. QED
    BY <2>2 DEF NewRow
<1>7. {x \in s.own \cup NewRows(s, m) : x.m = m /\ x.event = e} = O \cup R
  BY <1>4, <1>5, <1>6
<1>8. IsFiniteSet(s.own) /\ IsFiniteSet(NewRows(s, m)) /\ \A x \in s.own \cup NewRows(s, m) : x.points \in Nat
  <2>1. NewRows(s, m) \subseteq OwnRow /\ s.own \subseteq OwnRow
    BY NewRowsFacts DEF TablesTyped
  <2>. QED
    BY <2>1, NewRowsFacts DEF OwnRow, TablesTyped
<1>9. IsFiniteSet(O) /\ IsFiniteSet(R) /\ O \cap R = {} /\ \A x \in O \cup R : x.points \in Nat
  <2>1. O \subseteq s.own /\ R \subseteq NewRows(s, m)
    BY <1>4, <1>5
  <2>2. IsFiniteSet(O) /\ IsFiniteSet(R)
    BY <1>8, <2>1, FS_Subset
  <2>. QED
    BY <1>8, <2>1, <2>2
<1>10. Points(O \cup R) = Points(O) + Points(R) /\ Points(O) \in Nat /\ Points(R) \in Nat
  BY <1>9, PointsUnion, PointsNat
<1>11. Points(R) <= Rest(s, m, e)
  BY <1>5, RowsOfEvent
<1>12. n.points <= Points(R)
  <2>1. {n} \subseteq R
    BY <1>2, <1>5
  <2>2. Points({n}) <= Points(R)
    BY <1>9, <2>1, PointsSubset
  <2>3. Points({n}) = n.points
    <3>1. PICK f : f = [x \in {n} |-> x.points]
      OBVIOUS
    <3>2. n.points \in Int
      BY <1>8
    <3>3. f[n] = n.points /\ \A x \in {} \cup {n} : f[x] \in Int
      BY <3>1, <3>2
    <3>4. SumFunctionOnSet(f, {} \cup {n}) = f[n] + SumFunctionOnSet(f, {})
      BY <3>3, FS_EmptySet, SumAdd
    <3>5. SumFunctionOnSet(f, {}) = 0
      BY SumEmpty
    <3>6. {} \cup {n} = {n}
      OBVIOUS
    <3>7. SumFunctionOnSet(f, {n}) = n.points
      BY <3>2, <3>3, <3>4, <3>5, <3>6
    <3>. QED
      BY <3>1, <3>7 DEF Points
  <2>. QED
    BY <2>2, <2>3
<1>13. /\ Net(s, e) \in Nat /\ Net(s, e) <= s.buys[e].points
       /\ Rest(s, m, e) = Positive(Net(s, e) - Points(O)) /\ s.buys[e].points \in Nat
       /\ Rest(s, m, e) \in Nat
  <2>1. Rest(s, m, e) = Positive(Net(s, e) - Points({o \in s.own : o.m = m /\ o.event = e}))
    BY <1>3, RestNat
  <2>2. Net(s, e) \in Nat /\ Net(s, e) <= s.buys[e].points /\ Rest(s, m, e) \in Nat
    BY <1>3, RestNat
  <2>3. s.buys[e].points \in Nat
    BY <1>3, EventFacts DEF TablesTyped
  <2>. QED
    BY <1>4, <2>1, <2>2, <2>3
<1>14. n.points \in Nat
  BY <1>8
<1>15. Rest(s, m, e) > 0
  BY <1>2, <1>10, <1>11, <1>12, <1>13, <1>14
<1>16. Points(O) + Points(R) <= s.buys[e].points
  BY <1>10, <1>11, <1>13, <1>15 DEF Positive
<1>. QED
  BY <1>2, <1>3, <1>7, <1>10, <1>16

\* The ranks of a table do not fall when awards are added.
LEMMA RankGrows ==
    ASSUME NEW s, NEW t, s.achieved \subseteq t.achieved, t.achieved \subseteq AwardRow, NEW m \in Members
    PROVE  RankOf(s, m) <= RankOf(t, m)
<1>1. RankOf(s, m) \in Nat /\ RankOf(t, m) \in Nat
  BY RankOfFacts, RankFacts
<1>2. CASE RankOf(s, m) = 0
  BY <1>1, <1>2
<1>3. CASE RankOf(s, m) # 0
  <2>1. PICK a \in s.achieved : a.m = m /\ a.rank = RankOf(s, m)
    BY <1>3, RankOfFacts
  <2>2. a \in t.achieved
    BY <2>1
  <2>. QED
    BY <2>1, <2>2, RankOfFacts
<1>. QED
  BY <1>2, <1>3

\* One member more.
LEMMA RebuildOrdered ==
    ASSUME NEW at, TablesTyped(at), Numbered(at), NEW s, RebuildInv(at, s),
           NEW m \in Members, NEW t, t = RebuildOne(s, m)
    PROVE  AwardsOrdered(at, t)
<1>1. /\ Fresh(at, t) = Fresh(at, s) \cup NewAwards(s, m)
      /\ \A x \in Fresh(at, s) : x.seq \in Int /\ x.seq < s.counter
      /\ \A x \in NewAwards(s, m) : x.seq \in Int /\ s.counter <= x.seq
  BY RebuildAdds
<1>2. s.counter \in Int /\ TablesTyped(s) /\ s.achieved \subseteq AwardRow
  BY DEF RebuildInv, Extends, TablesTyped
<1>3. ASSUME NEW a \in Fresh(at, t), NEW b \in Fresh(at, t)
      PROVE  /\ a.seq = b.seq => a = b
             /\ a.m = b.m /\ a.rank < b.rank => a.seq < b.seq
  <2>1. CASE a \in Fresh(at, s) /\ b \in Fresh(at, s)
    BY <2>1 DEF RebuildInv, AwardsOrdered
  <2>2. CASE a \in NewAwards(s, m) /\ b \in NewAwards(s, m)
    <3>1. PICK q \in Earned(s, m) : a = NewAward(s, m, q)
      BY <2>2 DEF NewAwards
    <3>2. PICK r \in Earned(s, m) : b = NewAward(s, m, r)
      BY <2>2 DEF NewAwards
    <3>3. /\ q < r => AwardSeq(s, m, q) < AwardSeq(s, m, r)
          /\ AwardSeq(s, m, q) = AwardSeq(s, m, r) => q = r
      BY <1>2, NewRowsFacts
    <3>. QED
      BY <3>1, <3>2, <3>3 DEF NewAward
  <2>3. CASE a \in Fresh(at, s) /\ b \in NewAwards(s, m)
    BY <1>1, <1>2, <2>3
  <2>4. CASE a \in NewAwards(s, m) /\ b \in Fresh(at, s)
    <3>1. PICK q \in Earned(s, m) : a = NewAward(s, m, q)
      BY <2>4 DEF NewAwards
    <3>2. b.m = m => b.rank <= RankOf(s, m)
      BY <1>2, <2>4, RankOfFacts DEF Fresh
    <3>3. a.m = m /\ a.rank = q /\ q \in RankOf(s, m) + 1 .. Len(Required) /\ RankOf(s, m) \in Nat
          /\ Len(Required) \in Nat
      BY <1>2, <3>1, RankOfFacts, RankFacts DEF NewAward, Earned
    <3>4. b.rank \in Int
      BY <1>2, <2>4, RankFacts DEF Fresh, AwardRow
    <3>5. ~(a.m = b.m /\ a.rank < b.rank)
      BY <3>2, <3>3, <3>4
    <3>6. a.seq # b.seq
      BY <1>1, <1>2, <2>4
    <3>. QED
      BY <3>5, <3>6
  <2>. QED
    BY <1>1, <2>1, <2>2, <2>3, <2>4
<1>. QED
  BY <1>3 DEF AwardsOrdered

\* An award of the next member is paid for in full, and by it alone.
LEMMA RebuildPaid ==
    ASSUME NEW at, TablesTyped(at), Numbered(at), NEW s, RebuildInv(at, s),
           NEW m \in Members, NEW t, t = RebuildOne(s, m)
    PROVE  AwardsPaid(at, t)
<1>1. /\ Fresh(at, t) = Fresh(at, s) \cup NewAwards(s, m)
      /\ Added(at, t) = Added(at, s) \cup NewRows(s, m)
      /\ \A x \in Fresh(at, s) \cup Added(at, s) : x.seq \in Int /\ x.seq < s.counter
      /\ \A x \in NewAwards(s, m) \cup NewRows(s, m) : x.seq \in Int /\ at.counter <= x.seq /\ s.counter <= x.seq
  BY RebuildAdds
<1>2. /\ s.counter \in Int /\ TablesTyped(s) /\ s.achieved \subseteq AwardRow
      /\ at.achieved \subseteq AwardRow /\ at.achieved \subseteq s.achieved
  BY DEF RebuildInv, Extends, TablesTyped
<1>3. ASSUME NEW a \in Fresh(at, s)
      PROVE  /\ at.counter <= a.seq
             /\ RankOf(at, a.m) < a.rank
             /\ \E b \in Fresh(at, t) : b.m = a.m /\ b.rank = RankOf(at, a.m) + 1
             /\ Points({o \in Added(at, t) : o.m = a.m /\ o.seq = a.seq}) = Required[a.rank]
  <2>1. /\ at.counter <= a.seq
        /\ RankOf(at, a.m) < a.rank
        /\ \E b \in Fresh(at, s) : b.m = a.m /\ b.rank = RankOf(at, a.m) + 1
        /\ Points({o \in Added(at, s) : o.m = a.m /\ o.seq = a.seq}) = Required[a.rank]
    BY DEF RebuildInv, AwardsPaid
  <2>2. \A o \in NewRows(s, m) : o.seq # a.seq
    BY <1>1, <1>2
  <2>3. {o \in Added(at, t) : o.m = a.m /\ o.seq = a.seq} = {o \in Added(at, s) : o.m = a.m /\ o.seq = a.seq}
    BY <1>1, <2>2
  <2>. QED
    BY <1>1, <2>1, <2>3
<1>4. ASSUME NEW r \in Earned(s, m), NEW a, a = NewAward(s, m, r)
      PROVE  /\ at.counter <= a.seq
             /\ RankOf(at, a.m) < a.rank
             /\ \E b \in Fresh(at, t) : b.m = a.m /\ b.rank = RankOf(at, a.m) + 1
             /\ Points({o \in Added(at, t) : o.m = a.m /\ o.seq = a.seq}) = Required[a.rank]
  <2>1. a.m = m /\ a.rank = r /\ a.seq = AwardSeq(s, m, r) /\ a \in NewAwards(s, m)
    BY <1>4 DEF NewAward, NewAwards
  <2>2. at.counter <= a.seq /\ s.counter <= a.seq /\ a.seq \in Int
    BY <1>1, <2>1
  <2>3. /\ r \in RankOf(s, m) + 1 .. Len(Required) /\ RankOf(s, m) \in Nat /\ RankOf(at, m) \in Nat
        /\ Len(Required) \in Nat /\ RankOf(at, m) <= RankOf(s, m)
    <3>1. Len(Required) \in Nat /\ r \in RankOf(s, m) + 1 .. Len(Required)
      BY RankFacts DEF Earned
    <3>2. RankOf(s, m) \in 0 .. Len(Required) /\ RankOf(at, m) \in 0 .. Len(Required)
      BY <1>2, RankOfFacts
    <3>3. RankOf(at, m) <= RankOf(s, m)
      BY <1>2, RankGrows
    <3>. QED
      BY <3>1, <3>2, <3>3
  <2>4. RankOf(at, m) < r
    BY <2>3
  <2>5. \E b \in Fresh(at, t) : b.m = m /\ b.rank = RankOf(at, m) + 1
    <3>1. CASE RankOf(at, m) = RankOf(s, m)
      <4>1. RankOf(s, m) + 1 \in Earned(s, m)
        BY <1>2, NewRowsFacts
      <4>2. PICK b : b = NewAward(s, m, RankOf(s, m) + 1)
        OBVIOUS
      <4>3. b \in NewAwards(s, m) /\ b.m = m /\ b.rank = RankOf(s, m) + 1
        BY <4>1, <4>2 DEF NewAward, NewAwards
      <4>. QED
        BY <1>1, <3>1, <4>3
    <3>2. CASE RankOf(at, m) # RankOf(s, m)
      <4>1. RankOf(at, m) < RankOf(s, m) /\ RankOf(s, m) # 0
        BY <2>3, <3>2
      <4>2. PICK b \in s.achieved : b.m = m /\ b.rank = RankOf(s, m)
        BY <1>2, <4>1, RankOfFacts
      <4>3. b \notin at.achieved
        <5>1. b \in at.achieved => b.rank <= RankOf(at, m)
          BY <1>2, <4>2, RankOfFacts
        <5>. QED
          BY <2>3, <4>1, <4>2, <5>1
      <4>4. b \in Fresh(at, s)
        BY <4>2, <4>3 DEF Fresh
      <4>5. \E c \in Fresh(at, t) : c.m = b.m /\ c.rank = RankOf(at, b.m) + 1
        BY <1>3, <4>4
      <4>. QED
        BY <4>2, <4>5
    <3>. QED
      BY <3>1, <3>2
  <2>6. Points({o \in Added(at, t) : o.m = m /\ o.seq = a.seq}) = Required[r]
    <3>1. \A o \in Added(at, s) : o.seq # a.seq
      BY <1>1, <1>2, <2>2
    <3>2. \A o \in NewRows(s, m) : o.m = m
      <4>1. TAKE o \in NewRows(s, m)
      <4>2. PICK q \in Earned(s, m), i \in Rankable(s, m) : o = NewRow(s, m, q, i)
        BY <1>2, NewRowsFacts
      <4>. QED
        BY <4>2 DEF NewRow
    <3>3. {o \in Added(at, t) : o.m = m /\ o.seq = a.seq} = {o \in NewRows(s, m) : o.seq = AwardSeq(s, m, r)}
      BY <1>1, <2>1, <3>1, <3>2
    <3>4. Points({o \in NewRows(s, m) : o.seq = AwardSeq(s, m, r)}) = Required[r]
      BY <1>2, RowsOfRank
    <3>. QED
      BY <3>3, <3>4
  <2>. QED
    BY <2>1, <2>2, <2>4, <2>5, <2>6
<1>5. ASSUME NEW a \in Fresh(at, t)
      PROVE  a \in Fresh(at, s) \/ \E r \in Earned(s, m) : a = NewAward(s, m, r)
  BY <1>1 DEF NewAwards
<1>6. ASSUME NEW a \in Fresh(at, t)
      PROVE  /\ at.counter <= a.seq
             /\ RankOf(at, a.m) < a.rank
             /\ \E b \in Fresh(at, t) : b.m = a.m /\ b.rank = RankOf(at, a.m) + 1
             /\ Points({o \in Added(at, t) : o.m = a.m /\ o.seq = a.seq}) = Required[a.rank]
  <2>1. CASE a \in Fresh(at, s)
    BY <1>3, <2>1
  <2>2. CASE \E r \in Earned(s, m) : a = NewAward(s, m, r)
    BY <1>4, <2>2
  <2>. QED
    BY <1>5, <2>1, <2>2
<1>. QED
  BY <1>6 DEF AwardsPaid

\* What the next member consumes is of its downline, and not too much.
LEMMA RebuildBacked ==
    ASSUME NEW at, TablesTyped(at), Numbered(at), NEW s, RebuildInv(at, s),
           NEW m \in Members, NEW t, t = RebuildOne(s, m)
    PROVE  RowsBacked(at, t)
<1>1. /\ Extends(at, t)
      /\ Fresh(at, t) = Fresh(at, s) \cup NewAwards(s, m)
      /\ Added(at, t) = Added(at, s) \cup NewRows(s, m)
      /\ NewRows(s, m) \cap s.own = {}
      /\ \A x \in NewAwards(s, m) \cup NewRows(s, m) : x.seq \in Int /\ at.counter <= x.seq /\ s.counter <= x.seq
  BY RebuildAdds
<1>2. TablesTyped(s) /\ s.buys = at.buys
  BY DEF RebuildInv, Extends
<1>3. t.own = s.own \cup NewRows(s, m) /\ t.buys = s.buys
  BY <1>2, RebuildFields
<1>4. ASSUME NEW n \in NewRows(s, m)
      PROVE  /\ n.m = m /\ t.buys[n.event].uid \in Below[m] /\ n.event \in Rankable(s, m)
             /\ Points({x \in t.own : x.m = m /\ x.event = n.event}) <= t.buys[n.event].points
  <2>1. /\ n.m = m /\ s.buys[n.event].uid \in Below[m] /\ n.event \in Rankable(s, m)
        /\ Points({x \in s.own \cup NewRows(s, m) : x.m = m /\ x.event = n.event})
              <= s.buys[n.event].points
    BY <1>1, <1>2, EventBound
  <2>2. {x \in t.own : x.m = m /\ x.event = n.event}
          = {x \in s.own \cup NewRows(s, m) : x.m = m /\ x.event = n.event}
    BY <1>3
  <2>. QED
    BY <1>3, <2>1, <2>2
<1>5. ASSUME NEW o \in Added(at, s)
      PROVE  /\ at.counter <= o.seq
             /\ \E a \in Fresh(at, t) : a.m = o.m /\ a.seq = o.seq
             /\ t.buys[o.event].uid \in Below[o.m]
             /\ Points({x \in t.own : x.m = o.m /\ x.event = o.event}) <= t.buys[o.event].points
  <2>1. /\ at.counter <= o.seq
        /\ \E a \in Fresh(at, s) : a.m = o.m /\ a.seq = o.seq
        /\ s.buys[o.event].uid \in Below[o.m]
        /\ Points({x \in s.own : x.m = o.m /\ x.event = o.event}) <= s.buys[o.event].points
    BY DEF RebuildInv, RowsBacked
  <2>2. CASE \E n \in NewRows(s, m) : n.m = o.m /\ n.event = o.event
    <3>1. PICK n \in NewRows(s, m) : n.m = o.m /\ n.event = o.event
      BY <2>2
    <3>2. o.m = m
      BY <1>4, <3>1
    <3>3. Points({x \in t.own : x.m = m /\ x.event = n.event}) <= t.buys[n.event].points
      BY <1>4
    <3>4. Points({x \in t.own : x.m = o.m /\ x.event = o.event}) <= t.buys[o.event].points
      BY <3>1, <3>2, <3>3
    <3>. QED
      BY <1>1, <1>3, <2>1, <3>4
  <2>3. CASE ~\E n \in NewRows(s, m) : n.m = o.m /\ n.event = o.event
    <3>1. {x \in t.own : x.m = o.m /\ x.event = o.event} = {x \in s.own : x.m = o.m /\ x.event = o.event}
      BY <1>3, <2>3
    <3>. QED
      BY <1>1, <1>3, <2>1, <3>1
  <2>. QED
    BY <2>2, <2>3
<1>6. ASSUME NEW o \in NewRows(s, m)
      PROVE  /\ at.counter <= o.seq
             /\ \E a \in Fresh(at, t) : a.m = o.m /\ a.seq = o.seq
             /\ t.buys[o.event].uid \in Below[o.m]
             /\ Points({x \in t.own : x.m = o.m /\ x.event = o.event}) <= t.buys[o.event].points
  <2>1. PICK r \in Earned(s, m), e \in Rankable(s, m) : o = NewRow(s, m, r, e)
    BY <1>2, NewRowsFacts
  <2>2. PICK a : a = NewAward(s, m, r)
    OBVIOUS
  <2>3. a \in NewAwards(s, m) /\ a.m = o.m /\ a.seq = o.seq
    BY <2>1, <2>2 DEF NewAwards, NewAward, NewRow
  <2>4. o.m = m
    BY <1>4
  <2>. QED
    BY <1>1, <1>4, <2>3, <2>4
<1>. QED
  BY <1>1, <1>5, <1>6 DEF RowsBacked

\* So one more member keeps the invariant of a rebuild.
LEMMA RebuildKeeps ==
    ASSUME NEW at, TablesTyped(at), Numbered(at), NEW s, RebuildInv(at, s), NEW m \in Members
    PROVE  RebuildInv(at, RebuildOne(s, m))
<1>1. PICK t : t = RebuildOne(s, m)
  OBVIOUS
<1>. QED
  BY <1>1, RebuildAdds, RebuildOrdered, RebuildPaid, RebuildBacked DEF RebuildInv

\* And a rebuild begins with nothing awarded.
LEMMA RebuildBegins ==
    ASSUME NEW at, TablesTyped(at), Numbered(at)
    PROVE  RebuildInv(at, at)
<1>1. Extends(at, at)
  <2>1. at.counter <= at.counter
    BY DEF TablesTyped
  <2>. QED
    BY <2>1 DEF Extends
<1>2. Fresh(at, at) = {} /\ Added(at, at) = {}
  BY DEF Fresh, Added
<1>. QED
  BY <1>1, <1>2 DEF RebuildInv, AwardsPaid, AwardsOrdered, RowsBacked

\* Nothing of no points is consumed, the rows that are shown are of their types,
\* and only members are flagged.
Row(r) ==
    /\ r.rank \in 0 .. Len(Required)
    /\ r.gross \in Nat /\ r.remaining \in Nat /\ r.remaining <= r.gross
Tidy(s) ==
    /\ \A x \in s.own \cup s.global : x.points > 0
    /\ s.ranking = [m \in Members |-> s.ranking[m]]
    /\ \A m \in Members : /\ s.ranking[m] = [rank |-> s.ranking[m].rank, gross |-> s.ranking[m].gross,
                                             consumed |-> s.ranking[m].consumed,
                                             remaining |-> s.ranking[m].remaining,
                                             pending |-> s.ranking[m].pending]
                          /\ Row(s.ranking[m])
    /\ s.excluded \subseteq Members

\* A rebuilt member leaves the tables tidy.
LEMMA RebuildTidy ==
    ASSUME NEW s, TablesTyped(s), Tidy(s), NEW m \in Members, NEW t, t = RebuildOne(s, m)
    PROVE  Tidy(t)
<1>1. PICK consumed, pending : t.ranking = [s.ranking EXCEPT ![m] = ShownRow(s, t, m, consumed, pending)]
  BY RebuildFields
<1>2. /\ t.excluded = s.excluded /\ t.achieved = s.achieved \cup NewAwards(s, m)
      /\ t.own = s.own \cup NewRows(s, m)
  BY RebuildFields
<1>3. PICK first \in SUBSET NewRows(s, m) :
         t.global = s.global \cup {[event |-> x.event, m |-> m, points |-> x.points] : x \in first}
  BY RebuildFields
<1>4. \A x \in t.own \cup t.global : x.points > 0
  <2>1. \A x \in NewRows(s, m) : x.points > 0
    BY DEF NewRows
  <2>. QED
    BY <1>2, <1>3, <2>1 DEF Tidy
<1>5. RankOf(t, m) \in 0 .. Len(Required)
  <2>1. t.achieved \subseteq AwardRow
    BY <1>2, NewRowsFacts DEF TablesTyped
  <2>. QED
    BY <2>1, RankOfFacts
<1>6. Points({o \in t.own : o.m = m}) \in Nat
  <2>0. /\ IsFiniteSet(NewRows(s, m)) /\ NewRows(s, m) \subseteq OwnRow
        /\ IsFiniteSet(s.own) /\ s.own \subseteq OwnRow
    BY NewRowsFacts DEF TablesTyped
  <2>1. t.own \subseteq OwnRow /\ IsFiniteSet(t.own)
    <3>1. IsFiniteSet(s.own \cup NewRows(s, m))
      BY <2>0, FS_Union
    <3>. QED
      BY <1>2, <2>0, <3>1
  <2>2. \A o \in t.own : o.points \in Nat
    BY <2>1 DEF OwnRow
  <2>. QED
    BY <2>1, <2>2, PointsSubset
<1>7. Gain(s, m) \in Nat
  <2>1. Points({o \in s.own : o.m = m}) \in Nat
    <3>1. IsFiniteSet(s.own) /\ \A o \in s.own : o.points \in Nat
      BY DEF TablesTyped, OwnRow
    <3>. QED
      BY <3>1, PointsSubset
  <2>2. PICK K : K = Rankable(s, m)
    OBVIOUS
  <2>3. K \subseteq DOMAIN s.buys /\ IsFiniteSet(K)
    BY <2>2, EventFacts, FS_Subset DEF TablesTyped, Rankable
  <2>4. PICK f : f = [e \in K |-> Net(s, e)]
    OBVIOUS
  <2>5. \A e \in K : f[e] \in Nat
    BY <2>3, <2>4, RestNat
  <2>6. SumFunctionOnSet(f, K) \in Nat
    BY <2>3, <2>5, SumNat
  <2>. QED
    BY <2>1, <2>2, <2>4, <2>6 DEF Gain
<1>8. PICK g \in Nat, own \in Nat, k \in 0 .. Len(Required) :
         g = Gain(s, m) /\ own = Points({o \in t.own : o.m = m}) /\ k = RankOf(t, m)
  BY <1>5, <1>6, <1>7
<1>9. PICK rest : rest = IF m \in s.excluded THEN g ELSE Remaining(g, own)
  OBVIOUS
<1>10. rest \in Nat /\ rest <= g
  BY <1>8, <1>9 DEF Remaining, Positive
<1>11. t.ranking = [s.ranking EXCEPT ![m] =
          [rank |-> k, gross |-> g, consumed |-> consumed, remaining |-> rest, pending |-> pending]]
  BY <1>1, <1>8, <1>9 DEF ShownRow
<1>12. /\ t.ranking = [x \in Members |-> t.ranking[x]]
       /\ \A x \in Members : t.ranking[x] = IF x = m
             THEN [rank |-> k, gross |-> g, consumed |-> consumed, remaining |-> rest, pending |-> pending]
             ELSE s.ranking[x]
  BY <1>11 DEF Tidy
<1>13. ASSUME NEW x \in Members
       PROVE  /\ t.ranking[x] = [rank |-> t.ranking[x].rank, gross |-> t.ranking[x].gross,
                                 consumed |-> t.ranking[x].consumed,
                                 remaining |-> t.ranking[x].remaining,
                                 pending |-> t.ranking[x].pending]
              /\ Row(t.ranking[x])
  <2>1. CASE x = m
    <3>1. t.ranking[x] = [rank |-> k, gross |-> g, consumed |-> consumed, remaining |-> rest, pending |-> pending]
      BY <1>12, <2>1
    <3>. QED
      BY <1>8, <1>10, <3>1 DEF Row
  <2>2. CASE x # m
    <3>1. t.ranking[x] = s.ranking[x]
      BY <1>12, <2>2
    <3>. QED
      BY <3>1 DEF Tidy
  <2>. QED
    BY <2>1, <2>2
<1>. QED
  BY <1>2, <1>4, <1>12, <1>13 DEF Tidy

\* The member rebuilt last.
LEMMA LatestIn ==
    ASSUME NEW u \in SUBSET Members, u # {}
    PROVE  Latest(u) \in u
<1>1. \A x \in Members : Place[x] \in Nat
  <2>1. TAKE x \in Members
  <2>2. PICK S : S = {y \in Members : Earlier(y, x)}
    OBVIOUS
  <2>3. IsFiniteSet(S)
    BY <2>2, RankFacts, FS_Subset
  <2>4. Cardinality(S) \in Nat
    BY <2>3, FS_CardinalityType
  <2>5. Place[x] = Cardinality(S)
    BY <2>2 DEF Place
  <2>. QED
    BY <2>4, <2>5
<1>2. PICK P : P = {Place[x] : x \in u}
  OBVIOUS
<1>3. IsFiniteSet(P)
  <2>1. PICK f : f = [x \in u |-> Place[x]]
    OBVIOUS
  <2>2. f \in Surjection(u, P)
    BY <1>2, <2>1 DEF Surjection
  <2>3. IsFiniteSet(u)
    BY RankFacts, FS_Subset
  <2>. QED
    BY <2>2, <2>3, FS_Surjection
<1>4. P \subseteq Nat /\ P # {}
  BY <1>1, <1>2
<1>5. PICK k \in P : \A n \in P : n <= k
  BY <1>3, <1>4, Largest
<1>6. \E x \in u : \A y \in u : Place[y] <= Place[x]
  BY <1>2, <1>5
<1>. QED
  BY <1>6 DEF Latest

\* F is the table of the rebuilds, from the tables at, of the subsets of S.
IsBuild(F, at, S) ==
    F = [u \in SUBSET S |-> IF u = {} THEN at ELSE RebuildOne(F[u \ {Latest(u)}], Latest(u))]

\* There is one such table,
LEMMA BuildUnique ==
    ASSUME NEW at, NEW S \in SUBSET Members, IsFiniteSet(S), NEW F, NEW G,
           IsBuild(F, at, S), IsBuild(G, at, S)
    PROVE  F = G
<1>. DEFINE T == {s \in SUBSET S : F[s] # G[s]}
<1>1. /\ F = [s \in SUBSET S |-> F[s]] /\ G = [s \in SUBSET S |-> G[s]]
      /\ \A s \in SUBSET S : /\ F[s] = IF s = {} THEN at ELSE RebuildOne(F[s \ {Latest(s)}], Latest(s))
                             /\ G[s] = IF s = {} THEN at ELSE RebuildOne(G[s \ {Latest(s)}], Latest(s))
  BY DEF IsBuild
<1>0. T \subseteq SUBSET S /\ \A s \in SUBSET S : s \in T <=> F[s] # G[s]
  OBVIOUS
<1>. HIDE DEF T
<1>2. ASSUME T # {}
      PROVE  FALSE
  <2>1. PICK s \in T : \A u \in T : u \subseteq s => u = s
    BY <1>0, <1>2, LeastSet
  <2>2. s \in SUBSET S /\ F[s] # G[s] /\ s # {}
    BY <1>0, <1>1
  <2>3. Latest(s) \in s
    BY <2>2, LatestIn
  <2>4. s \ {Latest(s)} \in SUBSET S /\ s \ {Latest(s)} \notin T
    BY <2>1, <2>2, <2>3
  <2>5. F[s \ {Latest(s)}] = G[s \ {Latest(s)}]
    BY <1>0, <2>4
  <2>. QED
    BY <1>1, <2>2, <2>5
<1>. QED
  BY <1>0, <1>1, <1>2

\* it holds the table of each subset,
LEMMA BuildRestrict ==
    ASSUME NEW at, NEW S, NEW F, IsBuild(F, at, S), NEW U \in SUBSET S
    PROVE  IsBuild([s \in SUBSET U |-> F[s]], at, U)
<1>. DEFINE G == [s \in SUBSET U |-> F[s]]
<1>1. ASSUME NEW s \in SUBSET U
      PROVE  G[s] = IF s = {} THEN at ELSE RebuildOne(G[s \ {Latest(s)}], Latest(s))
  <2>1. s \in SUBSET S /\ s \ {Latest(s)} \in SUBSET U
    OBVIOUS
  <2>2. F[s] = IF s = {} THEN at ELSE RebuildOne(F[s \ {Latest(s)}], Latest(s))
    BY <2>1 DEF IsBuild
  <2>. QED
    BY <2>1, <2>2
<1>2. G = [s \in SUBSET U |-> G[s]]
  OBVIOUS
<1>. HIDE DEF G
<1>3. G = [s \in SUBSET U |-> IF s = {} THEN at ELSE RebuildOne(G[s \ {Latest(s)}], Latest(s))]
  BY <1>1, <1>2
<1>. QED
  BY <1>3 DEF IsBuild, G

\* and there is such a table.
LEMMA BuildExists ==
    ASSUME NEW at, NEW S \in SUBSET Members, IsFiniteSet(S)
    PROVE  \E F : IsBuild(F, at, S)
<1>. DEFINE T == {s \in SUBSET S : ~ \E F : IsBuild(F, at, s)}
<1>0. T \subseteq SUBSET S /\ \A s \in SUBSET S : s \in T <=> ~ \E F : IsBuild(F, at, s)
  OBVIOUS
<1>. HIDE DEF T
<1>1. ASSUME T # {}
      PROVE  FALSE
  <2>1. PICK s \in T : \A u \in T : u \subseteq s => u = s
    BY <1>0, <1>1, LeastSet
  <2>. DEFINE It(u) == CHOOSE F : IsBuild(F, at, u)
              F == [u \in SUBSET s |->
                      IF u = {} THEN at ELSE RebuildOne(It(u \ {Latest(u)})[u \ {Latest(u)}], Latest(u))]
  <2>2. ASSUME NEW u \in SUBSET s, u # s
        PROVE  IsBuild(It(u), at, u) /\ IsFiniteSet(u)
    <3>1. u \notin T /\ u \in SUBSET S
      BY <1>0, <2>1, <2>2
    <3>2. \E G : IsBuild(G, at, u)
      BY <1>0, <3>1
    <3>. QED
      BY <3>1, <3>2, FS_Subset
  <2>3. ASSUME NEW u \in SUBSET s, u # {}
        PROVE  It(u \ {Latest(u)})[u \ {Latest(u)}] = F[u \ {Latest(u)}]
    <3>. DEFINE w == u \ {Latest(u)}
    <3>1. Latest(u) \in u
      BY <1>0, <2>1, <2>3, LatestIn
    <3>2. w \in SUBSET s /\ w # s
      BY <3>1
    <3>3. IsBuild(It(w), at, w) /\ IsFiniteSet(w)
      BY <2>2, <3>2
    <3>4. CASE w = {}
      <4>1. It(w)[w] = at
        BY <3>3, <3>4 DEF IsBuild
      <4>2. F[w] = at
        BY <3>2, <3>4
      <4>. QED
        BY <4>1, <4>2
    <3>5. CASE w # {}
      <4>. DEFINE x == w \ {Latest(w)}
      <4>1. Latest(w) \in w
        BY <1>0, <2>1, <3>2, <3>5, LatestIn
      <4>2. x \in SUBSET s /\ x # s /\ x \in SUBSET w
        BY <3>2, <4>1
      <4>3. IsBuild(It(x), at, x) /\ IsFiniteSet(x)
        BY <2>2, <4>2
      <4>4. It(w)[w] = RebuildOne(It(w)[x], Latest(w))
        BY <3>3, <3>5 DEF IsBuild
      <4>5. IsBuild([y \in SUBSET x |-> It(w)[y]], at, x)
        <5>1. PICK G : G = It(w)
          OBVIOUS
        <5>2. PICK X : X = x
          OBVIOUS
        <5>3. IsBuild(G, at, w) /\ X \in SUBSET w
          BY <3>3, <4>2, <5>1, <5>2
        <5>4. IsBuild([y \in SUBSET X |-> G[y]], at, X)
          BY <5>3, BuildRestrict
        <5>. QED
          BY <5>1, <5>2, <5>4
      <4>6. [y \in SUBSET x |-> It(w)[y]] = It(x)
        BY <4>3, <4>5, BuildUnique
      <4>7. It(w)[x] = It(x)[x]
        <5>1. [y \in SUBSET x |-> It(w)[y]][x] = It(w)[x]
          OBVIOUS
        <5>. QED
          BY <4>6, <5>1
      <4>8. F[w] = RebuildOne(It(x)[x], Latest(w))
        BY <3>2, <3>5
      <4>. QED
        BY <4>4, <4>7, <4>8
    <3>. QED
      BY <3>4, <3>5
  <2>4. F = [u \in SUBSET s |-> IF u = {} THEN at ELSE RebuildOne(F[u \ {Latest(u)}], Latest(u))]
    <3>1. ASSUME NEW u \in SUBSET s
          PROVE  F[u] = IF u = {} THEN at ELSE RebuildOne(F[u \ {Latest(u)}], Latest(u))
      <4>1. F[u] = IF u = {} THEN at ELSE RebuildOne(It(u \ {Latest(u)})[u \ {Latest(u)}], Latest(u))
        OBVIOUS
      <4>2. CASE u = {}
        BY <4>1, <4>2
      <4>3. CASE u # {}
        <5>. HIDE DEF F, It
        <5>. QED
          BY <2>3, <4>1, <4>3
      <4>. QED
        BY <4>2, <4>3
    <3>2. F = [u \in SUBSET s |-> F[u]]
      OBVIOUS
    <3>. HIDE DEF F
    <3>. QED
      BY <3>1, <3>2
  <2>5. IsBuild(F, at, s)
    BY <2>4 DEF IsBuild
  <2>. HIDE DEF F
  <2>. QED
    BY <1>0, <2>1, <2>5
<1>2. S \notin T
  BY <1>1
<1>. QED
  BY <1>0, <1>2

\* What holds of no member, and of a set if it does without the member that is
\* rebuilt last, holds of every set.
LEMMA ByLatest ==
    ASSUME NEW S \in SUBSET Members, NEW T, {} \in T,
           \A u \in SUBSET S : u # {} /\ u \ {Latest(u)} \in T => u \in T
    PROVE  S \in T
<1>1. PICK B : B = {u \in SUBSET S : u \notin T}
  OBVIOUS
<1>2. ASSUME B # {}
      PROVE  FALSE
  <2>1. IsFiniteSet(S) /\ B \subseteq SUBSET S
    BY <1>1, RankFacts, FS_Subset
  <2>2. PICK u \in B : \A w \in B : w \subseteq u => w = u
    BY <1>2, <2>1, LeastSet
  <2>3. u \in SUBSET S /\ u # {} /\ u \notin T
    BY <1>1
  <2>4. Latest(u) \in u
    BY <2>3, LatestIn
  <2>5. u \ {Latest(u)} \in SUBSET S /\ u \ {Latest(u)} \notin B
    BY <2>2, <2>3, <2>4
  <2>. QED
    BY <1>1, <2>3, <2>5
<1>. QED
  BY <1>1, <1>2

\* A rebuild of a member and its downline has awarded and consumed what it may,
\* and leaves tidy tables tidy.
LEMMA RebuiltKeeps ==
    ASSUME NEW at, TablesTyped(at), Numbered(at), NEW m \in Members
    PROVE  RebuildInv(at, Rebuilt(at, m)) /\ (Tidy(at) => Tidy(Rebuilt(at, m)))
<1>1. PICK S : S = {m} \cup Below[m]
  OBVIOUS
<1>2. S \in SUBSET Members /\ IsFiniteSet(S)
  BY <1>1, RankFacts, FS_Subset
<1>. DEFINE F == CHOOSE G : IsBuild(G, at, S)
<1>3. Rebuilt(at, m) = F[S]
  BY <1>1 DEF Rebuilt, MapThenFoldSet, IsBuild
<1>4. IsBuild(F, at, S)
  BY <1>2, BuildExists
<1>. HIDE DEF F
<1>5. PICK T : T = {u \in SUBSET S : RebuildInv(at, F[u]) /\ (Tidy(at) => Tidy(F[u]))}
  OBVIOUS
<1>6. {} \in T
  <2>1. F[{}] = at
    BY <1>4 DEF IsBuild
  <2>. QED
    BY <1>5, <2>1, RebuildBegins
<1>7. ASSUME NEW u \in SUBSET S, u # {}, u \ {Latest(u)} \in T
      PROVE  u \in T
  <2>1. PICK w : w = u \ {Latest(u)}
    OBVIOUS
  <2>2. F[u] = RebuildOne(F[w], Latest(u))
    BY <1>4, <1>7, <2>1 DEF IsBuild
  <2>3. Latest(u) \in Members
    BY <1>2, <1>7, LatestIn
  <2>4. RebuildInv(at, F[w]) /\ (Tidy(at) => Tidy(F[w])) /\ TablesTyped(F[w])
    BY <1>5, <1>7, <2>1 DEF RebuildInv, Extends
  <2>5. RebuildInv(at, F[u])
    BY <2>2, <2>3, <2>4, RebuildKeeps
  <2>6. Tidy(at) => Tidy(F[u])
    BY <2>2, <2>3, <2>4, RebuildTidy
  <2>. QED
    BY <1>5, <2>5, <2>6
<1>8. S \in T
  BY <1>2, <1>6, <1>7, ByLatest
<1>. QED
  BY <1>3, <1>5, <1>8

-----------------------------------------------------------------------------
\* The tables, in every state.

\* The rows of an award, and of an event.
RankRows(t, m, n)  == {o \in t.own : o.m = m /\ o.seq = n}
EventRows(t, m, e) == {o \in t.own : o.m = m /\ o.event = e}

\* The parts of PaidInFull and SequenceOrdered, of tables t.
RanksPaid(t, rel) ==
    \A m \in Members : rel[m] = "none" =>
       \A a \in t.achieved : a.m = m => Points(RankRows(t, m, a.seq)) = Required[a.rank]
EventsKept(t, except) ==
    \A m \in Members : m \notin except =>
       \A e \in DOMAIN t.buys :
          Points(EventRows(t, m, e)) <= IF t.buys[e].uid \in Below[m] THEN t.buys[e].points ELSE 0
NumbersUnique(t) == \A a, b \in t.achieved : a.seq = b.seq => a = b
NumbersOrdered(t, except) ==
    \A a, b \in t.achieved : a.m = b.m /\ a.rank < b.rank /\ a.m \notin except => a.seq < b.seq

\* The property by its parts, with the rows of a rank and of an event named.
LEMMA PaidParts == PaidInFull <=> RanksPaid(db, releasing) /\ EventsKept(db, stale)
<1>. DEFINE Paid(m) == releasing[m] = "none" =>
              \A a \in {x \in db.achieved : x.m = m} :
                 Points({o \in db.own : o.m = m /\ o.seq = a.seq}) = Required[a.rank]
            Kept(m) == m \notin stale =>
              \A e \in DOMAIN db.buys :
                 Points({o \in db.own : o.m = m /\ o.event = e})
                   <= IF db.buys[e].uid \in Below[m] THEN db.buys[e].points ELSE 0
<1>1. PaidInFull <=> \A m \in Members : Paid(m) /\ Kept(m)
  BY DEF PaidInFull
<1>2. RanksPaid(db, releasing) <=> \A m \in Members : Paid(m)
  BY DEF RanksPaid, RankRows
<1>3. EventsKept(db, stale) <=> \A m \in Members : Kept(m)
  BY DEF EventsKept, EventRows
<1>. HIDE DEF Paid, Kept
<1>. QED
  BY <1>1, <1>2, <1>3

\* The same of the next state.
LEMMA PaidPartsNext == PaidInFull' <=> RanksPaid(db', releasing') /\ EventsKept(db', stale')
<1>. DEFINE Paid(m) == releasing'[m] = "none" =>
              \A a \in {x \in db'.achieved : x.m = m} :
                 Points({o \in db'.own : o.m = m /\ o.seq = a.seq}) = Required[a.rank]
            Kept(m) == m \notin stale' =>
              \A e \in DOMAIN db'.buys :
                 Points({o \in db'.own : o.m = m /\ o.event = e})
                   <= IF db'.buys[e].uid \in Below[m] THEN db'.buys[e].points ELSE 0
<1>1. PaidInFull' <=> \A m \in Members : Paid(m) /\ Kept(m)
  BY DEF PaidInFull
<1>2. RanksPaid(db', releasing') <=> \A m \in Members : Paid(m)
  BY DEF RanksPaid, RankRows
<1>3. EventsKept(db', stale') <=> \A m \in Members : Kept(m)
  BY DEF EventsKept, EventRows
<1>. HIDE DEF Paid, Kept
<1>. QED
  BY <1>1, <1>2, <1>3

\* The order of the numbers by its parts.
LEMMA OrderParts == SequenceOrdered <=> NumbersUnique(db) /\ NumbersOrdered(db, stale)
BY DEF SequenceOrdered, NumbersUnique, NumbersOrdered

\* A refresh under way has a snapshot of the tables as they were; but for the
\* members whose ranks have been released since, either it will meet a rank that
\* is there already, or nothing has been awarded or consumed that it has not seen.
RefreshTyped(r) ==
    \/ r = Idle
    \/ /\ r # Idle
       /\ r = [uid |-> r.uid, at |-> r.at, since |-> r.since]
       /\ r.uid \in Members
       /\ TablesTyped(r.at) /\ Numbered(r.at)
Before(at, t) ==
    /\ at.counter <= t.counter
    /\ \A e \in DOMAIN at.buys : e \in DOMAIN t.buys /\ t.buys[e] = at.buys[e]
Current(at, t, m) ==
    /\ RankOf(at, m) <= RankOf(t, m)
    /\ \/ \E a \in t.achieved : a.m = m /\ a.rank = RankOf(at, m) + 1
       \/ /\ \A a \in t.achieved : a.m = m => a.rank <= RankOf(at, m)
          /\ \A o \in t.own : o.m = m => o \in at.own

RankTypes ==
    /\ TablesTyped(db) /\ Numbered(db)
    /\ releasing \in [Members -> {"none", "flagged", "global", "own"}]
    /\ refresh = [p \in Procs |-> refresh[p]]
    /\ \A p \in Procs : RefreshTyped(refresh[p])
Snapshots ==
    \A p \in Procs : refresh[p] # Idle =>
        /\ Before(refresh[p].at, db)
        /\ \A m \in Members : m \notin refresh[p].since /\ m \notin stale => Current(refresh[p].at, db, m)

RankInv == RankTypes /\ Snapshots /\ SequenceOrdered /\ PaidInFull

\* A member's rank is no higher than its awards are.
LEMMA RankBound ==
    ASSUME NEW t, t.achieved \subseteq AwardRow, NEW m \in Members, NEW k \in Nat,
           \A a \in t.achieved : a.m = m => a.rank <= k
    PROVE  RankOf(t, m) <= k
<1>1. RankOf(t, m) \in Nat
  BY RankOfFacts, RankFacts
<1>2. RankOf(t, m) # 0 => \E a \in t.achieved : a.m = m /\ a.rank = RankOf(t, m)
  BY RankOfFacts
<1>. QED
  BY <1>1, <1>2

\* The rank depends on the ranks awarded only.
LEMMA RankSame ==
    ASSUME NEW s, NEW t, NEW m,
           \A a \in s.achieved : a.m = m => \E b \in t.achieved : b.m = m /\ b.rank = a.rank,
           \A b \in t.achieved : b.m = m => \E a \in s.achieved : a.m = m /\ a.rank = b.rank
    PROVE  RankOf(s, m) = RankOf(t, m)
<1>1. {a.rank : a \in {x \in s.achieved : x.m = m}} = {a.rank : a \in {x \in t.achieved : x.m = m}}
  OBVIOUS
<1>. QED
  BY <1>1 DEF RankOf

\* A snapshot stays current when the member's ranks stay and its rows do not grow.
LEMMA CurrentKept ==
    ASSUME NEW at, NEW s, NEW t, NEW m, Current(at, s, m),
           \A a \in s.achieved : a.m = m => \E b \in t.achieved : b.m = m /\ b.rank = a.rank,
           \A b \in t.achieved : b.m = m => \E a \in s.achieved : a.m = m /\ a.rank = b.rank,
           \A o \in t.own : o.m = m => o \in s.own
    PROVE  Current(at, t, m)
<1>1. RankOf(s, m) = RankOf(t, m)
  BY RankSame
<1>. QED
  BY <1>1 DEF Current

-----------------------------------------------------------------------------
\* A commit.

\* The numbers given to awards and rows at the commit.
LEMMA LaterFacts ==
    ASSUME NEW at, at.counter \in Int, db.counter \in Int, NEW d, d = db.counter - at.counter
    PROVE  /\ d \in Int
           /\ \A a \in AwardRow : /\ Later(at, a) \in AwardRow
                                  /\ Later(at, a).m = a.m /\ Later(at, a).rank = a.rank
                                  /\ Later(at, a).seq = a.seq + d
           /\ \A o \in OwnRow : /\ Later(at, o) \in OwnRow
                                /\ Later(at, o).m = o.m /\ Later(at, o).event = o.event
                                /\ Later(at, o).points = o.points
                                /\ Later(at, o).seq = o.seq + d
           /\ \A a, b \in AwardRow : Later(at, a) = Later(at, b) => a = b
           /\ \A a, b \in OwnRow : Later(at, a) = Later(at, b) => a = b
<1>1. ASSUME NEW a \in AwardRow
      PROVE  /\ Later(at, a) = [m |-> a.m, rank |-> a.rank, seq |-> a.seq + d, status |-> a.status]
             /\ a.seq \in Int /\ a = [m |-> a.m, rank |-> a.rank, seq |-> a.seq, status |-> a.status]
             /\ a.m \in Members /\ a.rank \in Ranks /\ a.status \in {"pending", "fulfilled"}
  <2>1. PICK m, k, n, st : a = [m |-> m, rank |-> k, seq |-> n, status |-> st] /\ n \in Int
    BY DEF AwardRow
  <2>2. [a EXCEPT !.seq = @ + db.counter - at.counter]
          = [m |-> m, rank |-> k, seq |-> n + db.counter - at.counter, status |-> st]
    BY <2>1
  <2>3. n + db.counter - at.counter = n + d
    BY <2>1
  <2>4. Later(at, a) = [m |-> m, rank |-> k, seq |-> n + d, status |-> st]
    BY <2>2, <2>3 DEF Later
  <2>. QED
    BY <2>1, <2>4 DEF AwardRow
<1>2. ASSUME NEW a \in OwnRow
      PROVE  /\ Later(at, a) = [m |-> a.m, rank |-> a.rank, seq |-> a.seq + d, event |-> a.event, points |-> a.points]
             /\ a.seq \in Int
             /\ a = [m |-> a.m, rank |-> a.rank, seq |-> a.seq, event |-> a.event, points |-> a.points]
             /\ a.m \in Members /\ a.rank \in Ranks /\ a.event \in Nat /\ a.points \in Nat
  <2>1. PICK m, k, n, e, v : a = [m |-> m, rank |-> k, seq |-> n, event |-> e, points |-> v] /\ n \in Int
    BY DEF OwnRow
  <2>2. [a EXCEPT !.seq = @ + db.counter - at.counter]
          = [m |-> m, rank |-> k, seq |-> n + db.counter - at.counter, event |-> e, points |-> v]
    BY <2>1
  <2>3. n + db.counter - at.counter = n + d
    BY <2>1
  <2>4. Later(at, a) = [m |-> m, rank |-> k, seq |-> n + d, event |-> e, points |-> v]
    BY <2>2, <2>3 DEF Later
  <2>. QED
    BY <2>1, <2>4 DEF OwnRow
<1>3. d \in Int
  OBVIOUS
<1>4. \A a \in AwardRow : Later(at, a) \in AwardRow /\ Later(at, a).m = a.m /\ Later(at, a).rank = a.rank
                          /\ Later(at, a).seq = a.seq + d /\ Later(at, a).status = a.status
  BY <1>1, <1>3 DEF AwardRow
<1>5. \A a \in OwnRow : Later(at, a) \in OwnRow /\ Later(at, a).m = a.m /\ Later(at, a).rank = a.rank
                        /\ Later(at, a).seq = a.seq + d /\ Later(at, a).event = a.event
                        /\ Later(at, a).points = a.points
  BY <1>2, <1>3 DEF OwnRow
<1>. HIDE DEF Later
<1>6. \A a, b \in AwardRow : Later(at, a) = Later(at, b) => a = b
  <2>1. TAKE a, b \in AwardRow
  <2>2. HAVE Later(at, a) = Later(at, b)
  <2>3. a.m = b.m /\ a.rank = b.rank /\ a.status = b.status /\ a.seq + d = b.seq + d
    BY <1>4, <2>2
  <2>i. PICK i, j \in Int : i = a.seq /\ j = b.seq
    BY <1>1
  <2>j. i + d = j + d
    BY <2>3, <2>i
  <2>4. a.seq = b.seq
    BY <1>3, <2>i, <2>j
  <2>. QED
    BY <1>1, <2>3, <2>4
<1>7. \A a, b \in OwnRow : Later(at, a) = Later(at, b) => a = b
  <2>1. TAKE a, b \in OwnRow
  <2>2. HAVE Later(at, a) = Later(at, b)
  <2>3. a.m = b.m /\ a.rank = b.rank /\ a.event = b.event /\ a.points = b.points /\ a.seq + d = b.seq + d
    BY <1>5, <2>2
  <2>4. a.seq = b.seq
    BY <1>2, <1>3, <2>3
  <2>. QED
    BY <1>2, <2>3, <2>4
<1>. QED
  BY <1>3, <1>4, <1>5, <1>6, <1>7

\* They carry the points they had.
LEMMA LaterPoints ==
    ASSUME NEW at, at.counter \in Int, db.counter \in Int, NEW R, R \subseteq OwnRow, IsFiniteSet(R),
           NEW L, L = {Later(at, o) : o \in R}
    PROVE  Points(L) = Points(R) /\ IsFiniteSet(L) /\ L \subseteq OwnRow
<1>1. \A o \in R : Later(at, o) \in OwnRow /\ Later(at, o).points = o.points
  BY LaterFacts
<1>2. \A o, n \in R : Later(at, o) = Later(at, n) => o = n
  BY LaterFacts
<1>. HIDE DEF Later
<1>3. PICK b : b = [o \in R |-> Later(at, o)]
  OBVIOUS
<1>4. b \in Bijection(R, L)
  <2>1. b \in [R -> L]
    BY <1>3
  <2>2. \A y \in L : \E o \in R : b[o] = y
    BY <1>3
  <2>3. \A o, n \in R : b[o] = b[n] => o = n
    BY <1>2, <1>3
  <2>. QED
    BY <2>1, <2>2, <2>3 DEF Bijection, Injection, Surjection, IsInjective
<1>5. IsFiniteSet(L)
  BY <1>4, FS_Surjection DEF Bijection
<1>6. PICK f : f = [o \in L |-> o.points]
  OBVIOUS
<1>7. PICK g : g = [o \in R |-> o.points]
  OBVIOUS
<1>8. \A o \in R : g[o] = f[b[o]] /\ g[o] \in Int
  <2>1. \A o \in R : o.points \in Nat
    BY DEF OwnRow
  <2>2. \A o \in R : b[o] \in L /\ b[o] = Later(at, o)
    BY <1>3
  <2>. QED
    BY <1>1, <1>6, <1>7, <2>1, <2>2
<1>9. SumFunctionOnSet(g, R) = SumFunctionOnSet(f, L)
  BY <1>4, <1>5, <1>8, SumRenamed
<1>. QED
  BY <1>1, <1>5, <1>6, <1>7, <1>9 DEF Points

\* What a commit of the refresh on connection p, from the snapshot at and the
\* rebuild s, does.
Committing(p, at, s, taken) ==
    /\ p \in Procs /\ refresh[p] # Idle /\ at = refresh[p].at
    /\ TablesTyped(at) /\ Numbered(at) /\ Before(at, db)
    /\ RebuildInv(at, s)
    /\ taken \subseteq s.global \ at.global
    /\ \A g \in taken : ~\E h \in db.global : h.event = g.event /\ h.m = g.m
    /\ RankFree(Fresh(at, s))
    /\ db' = [buys |-> db'.buys, achieved |-> db'.achieved, own |-> db'.own, global |-> db'.global,
              ranking |-> db'.ranking, counter |-> db'.counter, excluded |-> db'.excluded]
    /\ db'.buys = db.buys
    /\ db'.achieved = db.achieved \cup {Later(at, a) : a \in Fresh(at, s)}
    /\ db'.own = db.own \cup {Later(at, o) : o \in Added(at, s)}
    /\ db'.global = db.global \cup taken
    /\ db'.counter = db.counter + s.counter - at.counter
    /\ db'.excluded = db.excluded
    /\ db'.ranking = [m \in Members |-> db'.ranking[m]]
    /\ \A m \in Members : db'.ranking[m] = db.ranking[m] \/ db'.ranking[m] = s.ranking[m]
    /\ Tidy(at) => Tidy(s)
    /\ shadow' = [m \in Members |-> [shadow[m] EXCEPT !.consumed =
                     @ + Points({g \in taken : m \in Chain(s.buys[g.event].uid)})]]
    /\ stale' = stale \cup (refresh[p].since \cap {a.m : a \in Fresh(at, s)})
    /\ refresh' = [refresh EXCEPT ![p] = Idle]
    /\ UNCHANGED <<deltas, releasing, lost, released, refreshes, exclusions>>

\* Every commit is of this form.
LEMMA CommitIs ==
    ASSUME RankTypes, Snapshots, NEW p \in Procs, Commit(p)
    PROVE  \E at, s, taken : Committing(p, at, s, taken)
<1>1. PICK at, uid : at = refresh[p].at /\ uid = refresh[p].uid
  OBVIOUS
<1>2. PICK s : s = Rebuilt(at, uid)
  OBVIOUS
<1>3. refresh[p] # Idle
  BY DEF Commit
<1>4. uid \in Members /\ TablesTyped(at) /\ Numbered(at)
  BY <1>1, <1>3 DEF RankTypes, RefreshTyped
<1>5. RebuildInv(at, s) /\ (Tidy(at) => Tidy(s))
  BY <1>2, <1>4, RebuiltKeeps
<1>6. PICK taken : taken = {g \in s.global \ at.global : ~\E h \in db.global : h.event = g.event /\ h.m = g.m}
  OBVIOUS
<1>7. PICK buys, achieved, own, global, ranking, counter, excluded :
          db = [buys |-> buys, achieved |-> achieved, own |-> own, global |-> global,
                ranking |-> ranking, counter |-> counter, excluded |-> excluded]
  BY DEF RankTypes, TablesTyped
<1>8. PICK A : A = achieved \cup {Later(at, a) : a \in Fresh(at, s)}
  OBVIOUS
<1>9. PICK O : O = own \cup {Later(at, o) : o \in Added(at, s)}
  OBVIOUS
<1>10. PICK R : R = [m \in Members |-> IF m \in {uid} \cup Below[uid] THEN s.ranking[m] ELSE ranking[m]]
  OBVIOUS
<1>. DEFINE Unseen(t, x) == {g \in t.global \ x.global : ~\E h \in db.global : h.event = g.event /\ h.m = g.m}
            Body(x, u, t, k) ==
              /\ RankFree(t.achieved \ x.achieved)
              /\ db' = [db EXCEPT
                    !.achieved = @ \cup {Later(x, a) : a \in t.achieved \ x.achieved},
                    !.own      = @ \cup {Later(x, o) : o \in t.own \ x.own},
                    !.global   = @ \cup k,
                    !.ranking  = [m \in Members |-> IF m \in {u} \cup Below[u] THEN t.ranking[m] ELSE @[m]],
                    !.counter  = @ + t.counter - x.counter]
              /\ shadow' = [m \in Members |-> [shadow[m] EXCEPT !.consumed =
                               @ + Points({g \in k : m \in Chain(t.buys[g.event].uid)})]]
              /\ stale' = stale \cup (refresh[p].since \cap {a.m : a \in t.achieved \ x.achieved})
<1>b. \E x \in {refresh[p].at}, u \in {refresh[p].uid} : \E t \in {Rebuilt(x, u)} :
         \E k \in {Unseen(t, x)} : Body(x, u, t, k)
  BY Zenon DEF Commit
<1>c. Body(at, uid, s, taken)
  <2>. HIDE DEF Body, Unseen
  <2>1. taken = Unseen(s, at)
    BY <1>6 DEF Unseen
  <2>. QED
    BY <1>1, <1>2, <1>b, <2>1
<1>. HIDE DEF Rebuilt, Later, RankFree, Points
<1>11. /\ RankFree(Fresh(at, s))
       /\ db' = [db EXCEPT
                    !.achieved = @ \cup {Later(at, a) : a \in Fresh(at, s)},
                    !.own      = @ \cup {Later(at, o) : o \in Added(at, s)},
                    !.global   = @ \cup taken,
                    !.ranking  = [m \in Members |-> IF m \in {uid} \cup Below[uid] THEN s.ranking[m] ELSE @[m]],
                    !.counter  = @ + s.counter - at.counter]
       /\ shadow' = [m \in Members |-> [shadow[m] EXCEPT !.consumed =
                        @ + Points({g \in taken : m \in Chain(s.buys[g.event].uid)})]]
       /\ stale' = stale \cup (refresh[p].since \cap {a.m : a \in Fresh(at, s)})
  BY <1>c DEF Fresh, Added
<1>12. /\ refresh' = [refresh EXCEPT ![p] = Idle]
       /\ UNCHANGED <<deltas, releasing, lost, released, refreshes, exclusions>>
  BY DEF Commit
<1>13. db' = [buys |-> buys, achieved |-> A, own |-> O, global |-> global \cup taken,
              ranking |-> R, counter |-> counter + s.counter - at.counter, excluded |-> excluded]
  BY <1>7, <1>8, <1>9, <1>10, <1>11
<1>14. /\ db' = [buys |-> db'.buys, achieved |-> db'.achieved, own |-> db'.own, global |-> db'.global,
                 ranking |-> db'.ranking, counter |-> db'.counter, excluded |-> db'.excluded]
       /\ db'.buys = db.buys
       /\ db'.achieved = db.achieved \cup {Later(at, a) : a \in Fresh(at, s)}
       /\ db'.own = db.own \cup {Later(at, o) : o \in Added(at, s)}
       /\ db'.global = db.global \cup taken
       /\ db'.counter = db.counter + s.counter - at.counter
       /\ db'.excluded = db.excluded
  BY <1>7, <1>8, <1>9, <1>13
<1>d. /\ db'.ranking = [m \in Members |-> db'.ranking[m]]
      /\ \A m \in Members : db'.ranking[m] = db.ranking[m] \/ db'.ranking[m] = s.ranking[m]
  BY <1>7, <1>10, <1>13
<1>15. Before(at, db)
  BY <1>1, <1>3 DEF Snapshots
<1>16. /\ taken \subseteq s.global \ at.global
       /\ \A g \in taken : ~\E h \in db.global : h.event = g.event /\ h.m = g.m
  BY <1>6
<1>17. /\ RankFree(Fresh(at, s))
       /\ shadow' = [m \in Members |-> [shadow[m] EXCEPT !.consumed =
                        @ + Points({g \in taken : m \in Chain(s.buys[g.event].uid)})]]
       /\ stale' = stale \cup (refresh[p].since \cap {a.m : a \in Fresh(at, s)})
  BY <1>11
<1>18. at = refresh[p].at
  BY <1>1
<1>19. Committing(p, at, s, taken)
  BY Zenon, <1>3, <1>4, <1>5, <1>12, <1>14, <1>d, <1>15, <1>16, <1>17, <1>18 DEF Committing
<1>. QED
  BY <1>19

\* The new awards and rows have numbers from the counter on, the old ones below.
LEMMA CommitNumbers ==
    ASSUME RankTypes, NEW p, NEW at, NEW s, NEW taken, Committing(p, at, s, taken)
    PROVE  /\ db.counter \in Int /\ db.counter <= db'.counter /\ db'.counter \in Int
           /\ at.counter \in Int
           /\ \A x \in db.achieved \cup db.own : x.seq \in Int /\ x.seq < db.counter
           /\ \A a \in Fresh(at, s) :
                 /\ a \in AwardRow /\ Later(at, a) \in AwardRow
                 /\ Later(at, a).m = a.m /\ Later(at, a).rank = a.rank
                 /\ db.counter <= Later(at, a).seq /\ Later(at, a).seq < db'.counter
           /\ \A o \in Added(at, s) :
                 /\ o \in OwnRow /\ Later(at, o) \in OwnRow
                 /\ Later(at, o).m = o.m /\ Later(at, o).event = o.event
                 /\ db.counter <= Later(at, o).seq /\ Later(at, o).seq < db'.counter
           /\ \A a, b \in Fresh(at, s) : /\ Later(at, a).seq = Later(at, b).seq <=> a.seq = b.seq
                                         /\ Later(at, a).seq < Later(at, b).seq <=> a.seq < b.seq
           /\ \A a \in Fresh(at, s), o \in Added(at, s) : Later(at, o).seq = Later(at, a).seq <=> o.seq = a.seq
<1>1. /\ TablesTyped(at) /\ Numbered(at) /\ TablesTyped(s) /\ Numbered(s) /\ at.counter <= s.counter
      /\ at.counter <= db.counter /\ TablesTyped(db) /\ Numbered(db)
      /\ db'.counter = db.counter + s.counter - at.counter
  BY DEF Committing, RebuildInv, Extends, Before, RankTypes
<1>2. at.counter \in Int /\ db.counter \in Int /\ s.counter \in Int
  BY <1>1 DEF TablesTyped
<1>3. PICK d \in Int : d = db.counter - at.counter
  BY <1>2
<1>4. /\ db'.counter \in Int /\ db.counter <= db'.counter /\ db'.counter = s.counter + d
      /\ db.counter = at.counter + d
  BY <1>1, <1>2, <1>3
<1>5. \A x \in db.achieved \cup db.own : x.seq \in Int /\ x.seq < db.counter
  BY <1>1 DEF TablesTyped, Numbered, AwardRow, OwnRow
<1>6. \A a \in Fresh(at, s) : a \in AwardRow /\ a.seq \in Int /\ at.counter <= a.seq /\ a.seq < s.counter
  <2>1. \A a \in Fresh(at, s) : at.counter <= a.seq
    BY DEF Committing, RebuildInv, AwardsPaid
  <2>2. \A a \in Fresh(at, s) : a \in AwardRow /\ a.seq \in Int /\ a.seq < s.counter
    BY <1>1 DEF Fresh, TablesTyped, Numbered, AwardRow
  <2>. QED
    BY <2>1, <2>2
<1>7. \A o \in Added(at, s) : o \in OwnRow /\ o.seq \in Int /\ at.counter <= o.seq /\ o.seq < s.counter
  <2>1. \A o \in Added(at, s) : at.counter <= o.seq
    BY DEF Committing, RebuildInv, RowsBacked
  <2>2. \A o \in Added(at, s) : o \in OwnRow /\ o.seq \in Int /\ o.seq < s.counter
    BY <1>1 DEF Added, TablesTyped, Numbered, OwnRow
  <2>. QED
    BY <2>1, <2>2
<1>8. /\ \A a \in AwardRow : /\ Later(at, a) \in AwardRow
                             /\ Later(at, a).m = a.m /\ Later(at, a).rank = a.rank
                             /\ Later(at, a).seq = a.seq + d
      /\ \A o \in OwnRow : /\ Later(at, o) \in OwnRow
                           /\ Later(at, o).m = o.m /\ Later(at, o).event = o.event
                           /\ Later(at, o).seq = o.seq + d
  BY <1>2, <1>3, LaterFacts
<1>. HIDE DEF Later
<1>9. ASSUME NEW a \in Fresh(at, s)
      PROVE  /\ a \in AwardRow /\ Later(at, a) \in AwardRow
             /\ Later(at, a).m = a.m /\ Later(at, a).rank = a.rank
             /\ Later(at, a).seq = a.seq + d /\ a.seq \in Int
             /\ db.counter <= Later(at, a).seq /\ Later(at, a).seq < db'.counter
  <2>1. PICK i \in Int : i = a.seq /\ at.counter <= i /\ i < s.counter
    BY <1>6
  <2>2. Later(at, a).seq = i + d
    BY <1>6, <1>8, <2>1
  <2>3. db.counter <= i + d /\ i + d < db'.counter
    BY <1>2, <1>3, <1>4, <2>1
  <2>. QED
    BY <1>6, <1>8, <2>1, <2>2, <2>3
<1>10. ASSUME NEW o \in Added(at, s)
       PROVE  /\ o \in OwnRow /\ Later(at, o) \in OwnRow
              /\ Later(at, o).m = o.m /\ Later(at, o).event = o.event
              /\ Later(at, o).seq = o.seq + d /\ o.seq \in Int
              /\ db.counter <= Later(at, o).seq /\ Later(at, o).seq < db'.counter
  <2>1. PICK i \in Int : i = o.seq /\ at.counter <= i /\ i < s.counter
    BY <1>7
  <2>2. Later(at, o).seq = i + d
    BY <1>7, <1>8, <2>1
  <2>3. db.counter <= i + d /\ i + d < db'.counter
    BY <1>2, <1>3, <1>4, <2>1
  <2>. QED
    BY <1>7, <1>8, <2>1, <2>2, <2>3
<1>11. \A i, j \in Int : (i + d = j + d <=> i = j) /\ (i + d < j + d <=> i < j)
  OBVIOUS
<1>12. \A a, b \in Fresh(at, s) : /\ Later(at, a).seq = Later(at, b).seq <=> a.seq = b.seq
                                  /\ Later(at, a).seq < Later(at, b).seq <=> a.seq < b.seq
  <2>1. TAKE a, b \in Fresh(at, s)
  <2>2. Later(at, a).seq = a.seq + d /\ a.seq \in Int /\ Later(at, b).seq = b.seq + d /\ b.seq \in Int
    BY <1>9
  <2>. QED
    BY <1>11, <2>2
<1>13. \A a \in Fresh(at, s), o \in Added(at, s) : Later(at, o).seq = Later(at, a).seq <=> o.seq = a.seq
  <2>1. TAKE a \in Fresh(at, s), o \in Added(at, s)
  <2>2. Later(at, a).seq = a.seq + d /\ a.seq \in Int /\ Later(at, o).seq = o.seq + d /\ o.seq \in Int
    BY <1>9, <1>10
  <2>. QED
    BY <1>11, <2>2
<1>. QED
  BY <1>2, <1>4, <1>5, <1>9, <1>10, <1>12, <1>13

\* A member that it awards, with no release since: nothing has been awarded to it
\* or consumed by it that the refresh has not seen.
LEMMA FreshCurrent ==
    ASSUME RankTypes, Snapshots, NEW p, NEW at, NEW s, NEW taken, Committing(p, at, s, taken),
           NEW a \in Fresh(at, s), NEW m, m = a.m, m \notin stale'
    PROVE  /\ m \in Members /\ m \notin stale /\ RankOf(at, m) = RankOf(db, m) /\ RankOf(at, m) \in Nat
           /\ RankOf(at, m) < a.rank /\ a.rank \in Int
           /\ \A x \in db.achieved : x.m = m => x.rank <= RankOf(at, m)
           /\ \A o \in db.own : o.m = m => o \in at.own
           /\ \E b \in Fresh(at, s) : b.m = m /\ b.rank = RankOf(at, m) + 1
<1>1. TablesTyped(db) /\ TablesTyped(at) /\ a \in AwardRow
  <2>1. a \in AwardRow
    BY CommitNumbers
  <2>. QED
    BY <2>1 DEF RankTypes, Committing
<1>2. m \in Members /\ a.rank \in Int
  BY <1>1, RankFacts DEF AwardRow
<1>3. m \notin stale /\ m \notin refresh[p].since
  BY DEF Committing
<1>4. Current(at, db, m)
  BY <1>2, <1>3 DEF Snapshots, Committing
<1>5. RankOf(at, m) < a.rank /\ \E b \in Fresh(at, s) : b.m = m /\ b.rank = RankOf(at, m) + 1
  BY DEF Committing, RebuildInv, AwardsPaid
<1>6. ~\E x \in db.achieved : x.m = m /\ x.rank = RankOf(at, m) + 1
  BY <1>5 DEF Committing, RankFree
<1>7. /\ \A x \in db.achieved : x.m = m => x.rank <= RankOf(at, m)
      /\ \A o \in db.own : o.m = m => o \in at.own
      /\ RankOf(at, m) <= RankOf(db, m)
  BY <1>4, <1>6 DEF Current
<1>8. RankOf(at, m) \in Nat /\ RankOf(db, m) \in Nat
  BY <1>1, <1>2, RankOfFacts, RankFacts DEF TablesTyped
<1>9. RankOf(db, m) <= RankOf(at, m)
  BY <1>1, <1>2, <1>7, <1>8, RankBound DEF TablesTyped
<1>10. RankOf(at, m) = RankOf(db, m)
  BY <1>7, <1>8, <1>9
<1>. QED
  BY <1>2, <1>3, <1>5, <1>7, <1>8, <1>10

\* The numbers stay unique, and in order.
LEMMA CommitOrdered ==
    ASSUME RankInv, NEW p, NEW at, NEW s, NEW taken, Committing(p, at, s, taken)
    PROVE  NumbersUnique(db') /\ NumbersOrdered(db', stale')
<1>1. RankTypes /\ Snapshots /\ NumbersUnique(db) /\ NumbersOrdered(db, stale)
  BY OrderParts DEF RankInv
<1>2. /\ db.counter \in Int
      /\ \A x \in db.achieved : x.seq \in Int /\ x.seq < db.counter
      /\ \A a \in Fresh(at, s) :
            /\ Later(at, a) \in AwardRow /\ Later(at, a).m = a.m /\ Later(at, a).rank = a.rank
            /\ db.counter <= Later(at, a).seq
      /\ \A a, b \in Fresh(at, s) : /\ Later(at, a).seq = Later(at, b).seq <=> a.seq = b.seq
                                    /\ Later(at, a).seq < Later(at, b).seq <=> a.seq < b.seq
  BY <1>1, CommitNumbers
<1>3. AwardsOrdered(at, s) /\ stale \subseteq stale'
      /\ db'.achieved = db.achieved \cup {Later(at, a) : a \in Fresh(at, s)}
  BY DEF Committing, RebuildInv
<1>. HIDE DEF Later
<1>4. ASSUME NEW x \in db.achieved, NEW a \in Fresh(at, s), NEW y, y = Later(at, a)
      PROVE  /\ x.seq < y.seq /\ x.seq # y.seq
             /\ x.m = y.m /\ y.m \notin stale' => ~(y.rank < x.rank)
  <2>1. x.seq \in Int /\ y.seq \in Int /\ x.seq < db.counter /\ db.counter <= y.seq
    BY <1>2, <1>4 DEF AwardRow
  <2>2. ASSUME x.m = y.m, y.m \notin stale'
        PROVE  ~(y.rank < x.rank)
    <3>1. y.m = a.m /\ y.rank = a.rank
      BY <1>2, <1>4
    <3>2. /\ RankOf(at, a.m) \in Nat /\ RankOf(at, a.m) < a.rank /\ a.rank \in Int
          /\ x.rank <= RankOf(at, a.m)
      BY <1>1, <2>2, <3>1, FreshCurrent
    <3>3. x.rank \in Int
      BY <1>1, RankFacts DEF RankTypes, TablesTyped, AwardRow
    <3>. QED
      BY <3>1, <3>2, <3>3
  <2>. QED
    BY <1>2, <2>1, <2>2
<1>5. ASSUME NEW a \in Fresh(at, s), NEW b \in Fresh(at, s), NEW x, NEW y, x = Later(at, a), y = Later(at, b)
      PROVE  /\ x.seq = y.seq => x = y
             /\ x.m = y.m /\ x.rank < y.rank => x.seq < y.seq
  <2>1. /\ a.seq = b.seq => a = b
        /\ a.m = b.m /\ a.rank < b.rank => a.seq < b.seq
    BY <1>3 DEF AwardsOrdered
  <2>. QED
    BY <1>2, <1>5, <2>1
<1>6. ASSUME NEW x \in db'.achieved, NEW y \in db'.achieved
      PROVE  /\ x.seq = y.seq => x = y
             /\ x.m = y.m /\ x.rank < y.rank /\ x.m \notin stale' => x.seq < y.seq
  <2>1. CASE x \in db.achieved /\ y \in db.achieved
    BY <1>1, <1>3, <2>1 DEF NumbersUnique, NumbersOrdered
  <2>2. CASE x \in db.achieved /\ \E a \in Fresh(at, s) : y = Later(at, a)
    BY <1>4, <2>2
  <2>3. CASE y \in db.achieved /\ \E a \in Fresh(at, s) : x = Later(at, a)
    <3>1. PICK a \in Fresh(at, s) : x = Later(at, a)
      BY <2>3
    <3>2. y.seq # x.seq /\ (y.m = x.m /\ x.m \notin stale' => ~(x.rank < y.rank))
      BY <1>4, <2>3, <3>1
    <3>. QED
      BY <3>2
  <2>4. CASE (\E a \in Fresh(at, s) : x = Later(at, a)) /\ (\E b \in Fresh(at, s) : y = Later(at, b))
    BY <1>5, <2>4
  <2>. QED
    BY <1>3, <2>1, <2>2, <2>3, <2>4
<1>. QED
  BY <1>6 DEF NumbersUnique, NumbersOrdered

\* Other snapshots stay current, or will meet a rank of this commit.
LEMMA CommitSnapshots ==
    ASSUME RankInv, NEW p, NEW at, NEW s, NEW taken, Committing(p, at, s, taken)
    PROVE  Snapshots'
<1>1. RankTypes /\ Snapshots
  BY DEF RankInv
<1>2. /\ TablesTyped(db) /\ refresh = [q \in Procs |-> refresh[q]] /\ \A q \in Procs : RefreshTyped(refresh[q])
  BY <1>1 DEF RankTypes
<1>3. /\ refresh' = [refresh EXCEPT ![p] = Idle] /\ p \in Procs
      /\ stale \subseteq stale' /\ db'.buys = db.buys
      /\ db'.achieved = db.achieved \cup {Later(at, a) : a \in Fresh(at, s)}
      /\ db'.own = db.own \cup {Later(at, o) : o \in Added(at, s)}
      /\ RowsBacked(at, s)
  BY DEF Committing, RebuildInv
<1>4. /\ db.counter \in Int /\ db'.counter \in Int /\ db.counter <= db'.counter
      /\ \A a \in Fresh(at, s) : Later(at, a) \in AwardRow /\ Later(at, a).m = a.m /\ Later(at, a).rank = a.rank
      /\ \A o \in Added(at, s) : Later(at, o) \in OwnRow /\ Later(at, o).m = o.m
  BY <1>1, CommitNumbers
<1>5. db'.achieved \subseteq AwardRow /\ db.achieved \subseteq AwardRow
  <2>1. db.achieved \subseteq AwardRow
    BY <1>2 DEF TablesTyped
  <2>. QED
    BY <1>3, <1>4, <2>1
<1>. HIDE DEF Later
<1>6. ASSUME NEW q \in Procs, refresh'[q] # Idle
      PROVE  /\ q # p /\ refresh'[q] = refresh[q] /\ refresh[q] # Idle
             /\ TablesTyped(refresh[q].at) /\ Before(refresh[q].at, db)
  <2>1. q # p /\ refresh'[q] = refresh[q] /\ refresh[q] # Idle
    BY <1>2, <1>3, <1>6
  <2>. QED
    BY <1>1, <1>2, <2>1 DEF Snapshots, RefreshTyped
<1>7. ASSUME NEW q \in Procs, refresh'[q] # Idle
      PROVE  Before(refresh'[q].at, db')
  <2>1. refresh[q].at.counter \in Int
    BY <1>6, <1>7 DEF TablesTyped
  <2>2. refresh'[q] = refresh[q] /\ Before(refresh[q].at, db)
    BY <1>6, <1>7
  <2>3. refresh[q].at.counter <= db'.counter
    BY <1>4, <2>1, <2>2 DEF Before
  <2>. QED
    BY <1>3, <2>2, <2>3 DEF Before
<1>8. ASSUME NEW q \in Procs, refresh'[q] # Idle, NEW m \in Members,
             m \notin refresh'[q].since, m \notin stale'
      PROVE  Current(refresh'[q].at, db', m)
  <2>1. PICK x : x = refresh[q].at
    OBVIOUS
  <2>2. refresh'[q].at = x /\ TablesTyped(x)
    BY <1>6, <1>8, <2>1
  <2>3. Current(x, db, m)
    BY <1>1, <1>3, <1>6, <1>8, <2>1 DEF Snapshots
  <2>4. CASE ~\E a \in Fresh(at, s) : a.m = m
    <3>1. ~\E o \in Added(at, s) : o.m = m
      BY <1>3, <2>4 DEF RowsBacked
    <3>2. \A a \in db'.achieved : a.m = m => a \in db.achieved
      BY <1>3, <1>4, <2>4
    <3>3. \A o \in db'.own : o.m = m => o \in db.own
      BY <1>3, <1>4, <3>1
    <3>4. db.achieved \subseteq db'.achieved
      BY <1>3
    <3>5. Current(x, db', m)
      BY <2>3, <3>2, <3>3, <3>4, CurrentKept
    <3>. QED
      BY <2>2, <3>5
  <2>5. CASE \E a \in Fresh(at, s) : a.m = m
    <3>1. PICK a \in Fresh(at, s) : a.m = m
      BY <2>5
    <3>2. /\ RankOf(at, m) = RankOf(db, m) /\ RankOf(at, m) \in Nat
          /\ \E b \in Fresh(at, s) : b.m = m /\ b.rank = RankOf(at, m) + 1
      BY <1>1, <1>8, <3>1, FreshCurrent
    <3>3. PICK b \in Fresh(at, s) : b.m = m /\ b.rank = RankOf(at, m) + 1
      BY <3>2
    <3>4. \E c \in db'.achieved : c.m = m /\ c.rank = RankOf(db, m) + 1
      BY <1>3, <1>4, <3>2, <3>3
    <3>5. RankOf(x, m) <= RankOf(db, m) /\ RankOf(x, m) \in Nat /\ RankOf(db, m) \in Nat
      BY <1>5, <2>2, <2>3, RankOfFacts, RankFacts DEF Current, TablesTyped
    <3>6. RankOf(db, m) <= RankOf(db', m) /\ RankOf(db', m) \in Nat
      <4>1. PICK t : t = db'
        OBVIOUS
      <4>2. db.achieved \subseteq t.achieved /\ t.achieved \subseteq AwardRow
        BY <1>3, <1>5, <4>1
      <4>3. RankOf(db, m) <= RankOf(t, m) /\ RankOf(t, m) \in Nat
        BY <4>2, RankGrows, RankOfFacts, RankFacts
      <4>. QED
        BY <4>1, <4>3
    <3>7. RankOf(x, m) <= RankOf(db', m)
      BY <3>5, <3>6
    <3>8. CASE \E c \in db.achieved : c.m = m /\ c.rank = RankOf(x, m) + 1
      BY <1>3, <2>2, <3>7, <3>8 DEF Current
    <3>9. CASE \A c \in db.achieved : c.m = m => c.rank <= RankOf(x, m)
      <4>1. RankOf(db, m) <= RankOf(x, m)
        BY <1>5, <3>5, <3>9, RankBound
      <4>2. RankOf(db, m) = RankOf(x, m)
        BY <3>5, <4>1
      <4>. QED
        BY <2>2, <3>4, <3>7, <4>2 DEF Current
    <3>. QED
      BY <2>3, <3>8, <3>9 DEF Current
  <2>. QED
    BY <2>4, <2>5
<1>. QED
  BY <1>7, <1>8 DEF Snapshots

\* The ranks are paid for, whether they were there or are new.
LEMMA CommitPaid ==
    ASSUME RankInv, NEW p, NEW at, NEW s, NEW taken, Committing(p, at, s, taken)
    PROVE  RanksPaid(db', releasing')
<1>1. RankTypes /\ RanksPaid(db, releasing)
  BY PaidParts DEF RankInv
<1>2. /\ releasing' = releasing
      /\ db'.achieved = db.achieved \cup {Later(at, a) : a \in Fresh(at, s)}
      /\ db'.own = db.own \cup {Later(at, o) : o \in Added(at, s)}
      /\ AwardsPaid(at, s) /\ TablesTyped(s) /\ TablesTyped(at)
  BY DEF Committing, RebuildInv, Extends
<1>3. /\ db.counter \in Int /\ at.counter \in Int
      /\ \A x \in db.achieved \cup db.own : x.seq \in Int /\ x.seq < db.counter
      /\ \A a \in Fresh(at, s) :
            /\ a \in AwardRow /\ Later(at, a) \in AwardRow
            /\ Later(at, a).m = a.m /\ Later(at, a).rank = a.rank
            /\ db.counter <= Later(at, a).seq
      /\ \A o \in Added(at, s) :
            /\ o \in OwnRow /\ Later(at, o) \in OwnRow
            /\ Later(at, o).m = o.m
            /\ db.counter <= Later(at, o).seq
      /\ \A a \in Fresh(at, s), o \in Added(at, s) : Later(at, o).seq = Later(at, a).seq <=> o.seq = a.seq
  BY <1>1, CommitNumbers
<1>. HIDE DEF Later
<1>4. ASSUME NEW m \in Members, NEW x \in db.achieved, x.m = m, releasing[m] = "none"
      PROVE  Points(RankRows(db', m, x.seq)) = Required[x.rank]
  <2>1. Points(RankRows(db, m, x.seq)) = Required[x.rank]
    BY <1>1, <1>4 DEF RanksPaid
  <2>2. \A o \in Added(at, s) : Later(at, o).seq # x.seq
    <3>1. TAKE o \in Added(at, s)
    <3>2. x.seq \in Int /\ x.seq < db.counter /\ db.counter <= Later(at, o).seq /\ Later(at, o).seq \in Int
      BY <1>3 DEF OwnRow
    <3>. QED
      BY <1>3, <3>2
  <2>3. RankRows(db', m, x.seq) = RankRows(db, m, x.seq)
    BY <1>2, <2>2 DEF RankRows
  <2>. QED
    BY <2>1, <2>3
<1>5. ASSUME NEW m \in Members, NEW a \in Fresh(at, s), NEW x, x = Later(at, a), x.m = m
      PROVE  Points(RankRows(db', m, x.seq)) = Required[x.rank]
  <2>1. a.m = m /\ a.rank = x.rank /\ x.seq \in Int /\ db.counter <= x.seq
    BY <1>3, <1>5 DEF AwardRow
  <2>2. PICK R : R = {o \in Added(at, s) : o.m = m /\ o.seq = a.seq}
    OBVIOUS
  <2>3. Points(R) = Required[x.rank]
    BY <1>2, <2>1, <2>2 DEF AwardsPaid
  <2>4. PICK L : L = {Later(at, o) : o \in R}
    OBVIOUS
  <2>5. R \subseteq OwnRow /\ IsFiniteSet(R)
    <3>1. R \subseteq s.own
      BY <2>2 DEF Added
    <3>2. IsFiniteSet(R)
      BY <1>2, <3>1, FS_Subset DEF TablesTyped
    <3>. QED
      BY <1>3, <2>2, <3>2
  <2>6. Points(L) = Points(R)
    BY <1>3, <2>4, <2>5, LaterPoints
  <2>7. \A o \in db.own : o.seq # x.seq
    BY <1>3, <2>1
  <2>8. \A o \in Added(at, s) : Later(at, o).m = m /\ Later(at, o).seq = x.seq <=> o.m = m /\ o.seq = a.seq
    BY <1>3, <1>5
  <2>9. RankRows(db', m, x.seq) = L
    <3>1. ASSUME NEW y \in RankRows(db', m, x.seq)
          PROVE  y \in L
      <4>1. y \in db'.own /\ y.m = m /\ y.seq = x.seq
        BY DEF RankRows
      <4>2. PICK o \in Added(at, s) : y = Later(at, o)
        BY <1>2, <2>7, <4>1
      <4>. QED
        BY <2>2, <2>4, <2>8, <4>1, <4>2
    <3>2. ASSUME NEW y \in L
          PROVE  y \in RankRows(db', m, x.seq)
      <4>1. PICK o \in R : y = Later(at, o)
        BY <2>4
      <4>2. o \in Added(at, s) /\ y.m = m /\ y.seq = x.seq
        BY <2>2, <2>8, <4>1
      <4>. QED
        BY <1>2, <4>1, <4>2 DEF RankRows
    <3>. QED
      BY <3>1, <3>2
  <2>. QED
    BY <2>3, <2>6, <2>9
<1>6. ASSUME NEW m \in Members, releasing'[m] = "none", NEW x \in db'.achieved, x.m = m
      PROVE  Points(RankRows(db', m, x.seq)) = Required[x.rank]
  <2>1. CASE x \in db.achieved
    BY <1>2, <1>4, <1>6, <2>1
  <2>2. CASE \E a \in Fresh(at, s) : x = Later(at, a)
    BY <1>5, <1>6, <2>2
  <2>. QED
    BY <1>2, <2>1, <2>2
<1>. QED
  BY <1>6 DEF RanksPaid

\* No member has consumed more of an event than it carries.
LEMMA CommitKept ==
    ASSUME RankInv, NEW p, NEW at, NEW s, NEW taken, Committing(p, at, s, taken)
    PROVE  EventsKept(db', stale')
<1>1. RankTypes /\ Snapshots /\ EventsKept(db, stale)
  BY PaidParts DEF RankInv
<1>2. /\ db'.buys = db.buys /\ stale \subseteq stale'
      /\ db'.own = db.own \cup {Later(at, o) : o \in Added(at, s)}
      /\ RowsBacked(at, s) /\ TablesTyped(s) /\ TablesTyped(at) /\ Before(at, db)
      /\ s.buys = at.buys /\ at.own \subseteq s.own
  BY DEF Committing, RebuildInv, Extends
<1>3. /\ db.counter \in Int /\ at.counter \in Int
      /\ \A x \in db.own : x.seq \in Int /\ x.seq < db.counter
      /\ \A o \in Added(at, s) :
            /\ o \in OwnRow /\ Later(at, o) \in OwnRow
            /\ Later(at, o).m = o.m /\ Later(at, o).event = o.event
            /\ db.counter <= Later(at, o).seq
  BY <1>1, CommitNumbers
<1>. HIDE DEF Later
<1>4. ASSUME NEW m \in Members, m \notin stale', NEW e \in DOMAIN db.buys
      PROVE  Points(EventRows(db', m, e)) <= IF db.buys[e].uid \in Below[m] THEN db.buys[e].points ELSE 0
  <2>1. PICK Y : Y = {o \in Added(at, s) : o.m = m /\ o.event = e}
    OBVIOUS
  <2>2. PICK L : L = {Later(at, o) : o \in Y}
    OBVIOUS
  <2>3. PICK D : D = EventRows(db, m, e)
    OBVIOUS
  <2>4. EventRows(db', m, e) = D \cup L
    <3>1. \A o \in Added(at, s) : Later(at, o).m = m /\ Later(at, o).event = e <=> o.m = m /\ o.event = e
      BY <1>3
    <3>2. ASSUME NEW y \in EventRows(db', m, e)
          PROVE  y \in D \cup L
      <4>1. y \in db'.own /\ y.m = m /\ y.event = e
        BY DEF EventRows
      <4>2. CASE y \in db.own
        BY <2>3, <4>1, <4>2 DEF EventRows
      <4>3. CASE \E o \in Added(at, s) : y = Later(at, o)
        <5>1. PICK o \in Added(at, s) : y = Later(at, o)
          BY <4>3
        <5>2. o \in Y
          BY <2>1, <3>1, <4>1, <5>1
        <5>. QED
          BY <2>2, <5>1, <5>2
      <4>. QED
        BY <1>2, <4>1, <4>2, <4>3
    <3>3. ASSUME NEW y \in D
          PROVE  y \in EventRows(db', m, e)
      BY <1>2, <2>3 DEF EventRows
    <3>4. ASSUME NEW y \in L
          PROVE  y \in EventRows(db', m, e)
      <4>1. PICK o \in Y : y = Later(at, o)
        BY <2>2
      <4>2. o \in Added(at, s) /\ y.m = m /\ y.event = e
        BY <2>1, <3>1, <4>1
      <4>. QED
        BY <1>2, <4>1, <4>2 DEF EventRows
    <3>. QED
      BY <3>2, <3>3, <3>4
  <2>5. Points(D) <= IF db.buys[e].uid \in Below[m] THEN db.buys[e].points ELSE 0
    BY <1>1, <1>2, <1>4, <2>3 DEF EventsKept
  <2>6. CASE Y = {}
    <3>1. L = {}
      BY <2>2, <2>6
    <3>2. EventRows(db', m, e) = D
      BY <2>4, <3>1
    <3>. QED
      BY <2>5, <3>2
  <2>7. CASE Y # {}
    <3>1. PICK o \in Added(at, s) : o.m = m /\ o.event = e
      BY <2>1, <2>7
    <3>2. PICK a \in Fresh(at, s) : a.m = m
      BY <1>2, <3>1 DEF RowsBacked
    <3>3. \A x \in db.own : x.m = m => x \in at.own
      BY <1>1, <1>4, <3>2, FreshCurrent
    <3>4. /\ s.buys[e].uid \in Below[m]
          /\ Points({x \in s.own : x.m = m /\ x.event = e}) <= s.buys[e].points
      BY <1>2, <3>1 DEF RowsBacked
    <3>5. s.buys[e] = db.buys[e] /\ s.buys[e].points \in Nat
      <4>1. e \in DOMAIN s.buys
        BY <1>2, <3>1 DEF Added, TablesTyped
      <4>2. s.buys[e] = db.buys[e]
        BY <1>2, <4>1 DEF Before
      <4>3. s.buys[e].points \in Nat
        BY <1>2, <4>1, EventFacts DEF TablesTyped
      <4>. QED
        BY <4>2, <4>3
    <3>6. PICK X : X = {x \in at.own : x.m = m /\ x.event = e}
      OBVIOUS
    <3>7. /\ {x \in s.own : x.m = m /\ x.event = e} = X \cup Y
          /\ X \cap Y = {} /\ D \subseteq X /\ X \subseteq s.own /\ Y \subseteq s.own
      BY <1>2, <2>1, <2>3, <3>3, <3>6 DEF Added, EventRows
    <3>8. IsFiniteSet(s.own) /\ \A x \in s.own : x.points \in Nat
      BY <1>2 DEF TablesTyped, OwnRow
    <3>9. IsFiniteSet(X) /\ IsFiniteSet(Y) /\ \A x \in X \cup Y : x.points \in Nat
      <4>1. IsFiniteSet(X) /\ IsFiniteSet(Y)
        BY <3>7, <3>8, FS_Subset
      <4>. QED
        BY <3>7, <3>8, <4>1
    <3>10. Points(X \cup Y) = Points(X) + Points(Y) /\ Points(X) \in Nat /\ Points(Y) \in Nat
      BY <3>7, <3>9, PointsUnion, PointsNat
    <3>11. Points(D) <= Points(X) /\ Points(D) \in Nat /\ IsFiniteSet(D)
      BY <3>7, <3>9, PointsSubset
    <3>12. Points(L) = Points(Y) /\ IsFiniteSet(L) /\ L \subseteq OwnRow
      <4>1. Y \subseteq OwnRow
        BY <1>3, <2>1
      <4>2. IsFiniteSet(Y) /\ at.counter \in Int /\ db.counter \in Int
        BY <1>3, <3>9
      <4>. QED
        BY <2>2, <4>1, <4>2, LaterPoints
    <3>13. D \cap L = {}
      <4>1. \A y \in L : y.seq \in Int /\ db.counter <= y.seq
        BY <1>3, <2>1, <2>2, <3>12 DEF OwnRow
      <4>2. \A y \in D : y.seq \in Int /\ y.seq < db.counter
        BY <1>3, <2>3 DEF EventRows
      <4>. QED
        BY <1>3, <4>1, <4>2
    <3>14. Points(D \cup L) = Points(D) + Points(L)
      <4>1. \A x \in D \cup L : x.points \in Nat
        <5>1. \A x \in L : x.points \in Nat
          BY <3>12 DEF OwnRow
        <5>. QED
          BY <3>7, <3>9, <5>1
      <4>. QED
        BY <3>11, <3>12, <3>13, <4>1, PointsUnion
    <3>15. Points(X) + Points(Y) <= db.buys[e].points
      BY <3>4, <3>5, <3>7, <3>10
    <3>16. Points(D \cup L) <= db.buys[e].points
      BY <3>5, <3>10, <3>11, <3>12, <3>14, <3>15
    <3>. QED
      BY <2>4, <3>4, <3>5, <3>16
  <2>. QED
    BY <2>6, <2>7
<1>. QED
  BY <1>2, <1>4 DEF EventsKept

\* The tables stay typed.
LEMMA CommitTyped ==
    ASSUME RankTypes, NEW p, NEW at, NEW s, NEW taken, Committing(p, at, s, taken)
    PROVE  RankTypes'
<1>1. /\ TablesTyped(db) /\ releasing \in [Members -> {"none", "flagged", "global", "own"}]
      /\ refresh = [q \in Procs |-> refresh[q]] /\ \A q \in Procs : RefreshTyped(refresh[q])
  BY DEF RankTypes
<1>2. /\ db' = [buys |-> db'.buys, achieved |-> db'.achieved, own |-> db'.own, global |-> db'.global,
                ranking |-> db'.ranking, counter |-> db'.counter, excluded |-> db'.excluded]
      /\ db'.buys = db.buys
      /\ db'.achieved = db.achieved \cup {Later(at, a) : a \in Fresh(at, s)}
      /\ db'.own = db.own \cup {Later(at, o) : o \in Added(at, s)}
      /\ db'.global = db.global \cup taken
      /\ refresh' = [refresh EXCEPT ![p] = Idle] /\ releasing' = releasing
      /\ TablesTyped(s) /\ TablesTyped(at) /\ Before(at, db)
      /\ taken \subseteq s.global /\ s.buys = at.buys
  BY DEF Committing, RebuildInv, Extends
<1>3. /\ db.counter \in Int /\ db.counter <= db'.counter /\ db'.counter \in Int
      /\ at.counter \in Int
      /\ \A x \in db.achieved \cup db.own : x.seq \in Int /\ x.seq < db.counter
      /\ \A a \in Fresh(at, s) : Later(at, a) \in AwardRow /\ Later(at, a).seq < db'.counter
      /\ \A o \in Added(at, s) : /\ o \in OwnRow /\ Later(at, o) \in OwnRow
                                 /\ Later(at, o).event = o.event /\ Later(at, o).seq < db'.counter
  BY CommitNumbers
<1>. HIDE DEF Later
<1>4. db'.buys \in Seq(BuyRow)
  BY <1>1, <1>2 DEF TablesTyped
<1>5. db'.achieved \subseteq AwardRow /\ IsFiniteSet(db'.achieved)
  <2>1. PICK A : A = {Later(at, a) : a \in Fresh(at, s)}
    OBVIOUS
  <2>2. IsFiniteSet(Fresh(at, s))
    BY <1>2, FS_Subset DEF Fresh, TablesTyped
  <2>3. PICK f : f = [a \in Fresh(at, s) |-> Later(at, a)]
    OBVIOUS
  <2>4. f \in Surjection(Fresh(at, s), A)
    BY <2>1, <2>3 DEF Surjection
  <2>5. IsFiniteSet(A) /\ IsFiniteSet(db.achieved) /\ db.achieved \subseteq AwardRow
    <3>1. IsFiniteSet(A)
      BY <2>2, <2>4, FS_Surjection
    <3>. QED
      BY <1>1, <3>1 DEF TablesTyped
  <2>6. IsFiniteSet(db.achieved \cup A)
    BY <2>5, FS_Union
  <2>. QED
    BY <1>2, <1>3, <2>1, <2>5, <2>6
<1>6. db'.own \subseteq OwnRow /\ IsFiniteSet(db'.own) /\ \A o \in db'.own : o.event \in DOMAIN db'.buys
  <2>1. PICK A : A = {Later(at, o) : o \in Added(at, s)}
    OBVIOUS
  <2>2. IsFiniteSet(Added(at, s)) /\ Added(at, s) \subseteq OwnRow
    BY <1>2, <1>3, FS_Subset DEF Added, TablesTyped
  <2>3. IsFiniteSet(A)
    BY <1>3, <2>1, <2>2, LaterPoints
  <2>4. IsFiniteSet(db.own) /\ db.own \subseteq OwnRow /\ \A o \in db.own : o.event \in DOMAIN db.buys
    BY <1>1 DEF TablesTyped
  <2>5. IsFiniteSet(db.own \cup A)
    BY <2>3, <2>4, FS_Union
  <2>6. \A o \in Added(at, s) : o.event \in DOMAIN db.buys
    BY <1>2 DEF Added, TablesTyped, Before
  <2>. QED
    BY <1>2, <1>3, <2>1, <2>4, <2>5, <2>6
<1>7. db'.global \subseteq GlobalRow /\ IsFiniteSet(db'.global) /\ \A g \in db'.global : g.event \in DOMAIN db'.buys
  <2>1. IsFiniteSet(taken) /\ taken \subseteq GlobalRow
    BY <1>2, FS_Subset DEF TablesTyped
  <2>2. IsFiniteSet(db.global) /\ db.global \subseteq GlobalRow /\ \A g \in db.global : g.event \in DOMAIN db.buys
    BY <1>1 DEF TablesTyped
  <2>3. IsFiniteSet(db.global \cup taken)
    BY <2>1, <2>2, FS_Union
  <2>4. \A g \in taken : g.event \in DOMAIN db.buys
    BY <1>2 DEF TablesTyped, Before
  <2>. QED
    BY <1>2, <2>1, <2>2, <2>3, <2>4
<1>8. TablesTyped(db')
  BY <1>2, <1>3, <1>4, <1>5, <1>6, <1>7 DEF TablesTyped
<1>9. Numbered(db')
  <2>1. \A x \in db.achieved \cup db.own : x.seq < db'.counter
    BY <1>3
  <2>. QED
    BY <1>2, <1>3, <2>1 DEF Numbered
<1>10. /\ refresh' = [q \in Procs |-> refresh'[q]]
       /\ \A q \in Procs : RefreshTyped(refresh'[q])
  BY <1>1, <1>2 DEF RefreshTyped
<1>. QED
  BY <1>1, <1>2, <1>8, <1>9, <1>10 DEF RankTypes

-----------------------------------------------------------------------------
\* The other steps: the ranks of the members in gone are released; no row is
\* consumed, and no rank awarded.
Smaller(gone) ==
    /\ db' = [buys |-> db'.buys, achieved |-> db'.achieved, own |-> db'.own, global |-> db'.global,
              ranking |-> db'.ranking, counter |-> db'.counter, excluded |-> db'.excluded]
    /\ db'.buys \in Seq(BuyRow)
    /\ \A e \in DOMAIN db.buys : e \in DOMAIN db'.buys /\ db'.buys[e] = db.buys[e]
    /\ db'.achieved \subseteq AwardRow /\ IsFiniteSet(db'.achieved) /\ NumbersUnique(db')
    /\ \A a \in db'.achieved : a.m \notin gone /\ \E b \in db.achieved : b.m = a.m /\ b.rank = a.rank /\ b.seq = a.seq
    /\ \A a \in db.achieved : a.m \notin gone => \E b \in db'.achieved : b.m = a.m /\ b.rank = a.rank
    /\ db'.own \subseteq db.own /\ db'.global \subseteq db.global
    /\ db'.counter = db.counter
    /\ stale' = stale
    /\ releasing' \in [Members -> {"none", "flagged", "global", "own"}]
    /\ \A m \in Members : releasing'[m] = "none" =>
          m \in gone \/ (releasing[m] = "none" /\ \A o \in db.own : o.m = m => o \in db'.own)

Continuing(gone) ==
    /\ refresh' = [p \in Procs |-> refresh'[p]]
    /\ \A p \in Procs : \/ refresh'[p] = Idle
                        \/ /\ refresh[p] # Idle /\ refresh'[p] # Idle
                           /\ refresh'[p] = [uid |-> refresh[p].uid, at |-> refresh[p].at, since |-> refresh'[p].since]
                           /\ refresh[p].since \cup gone \subseteq refresh'[p].since
                        \/ /\ refresh'[p] = [uid |-> refresh'[p].uid, at |-> db, since |-> refresh'[p].since]
                           /\ refresh'[p].uid \in Members /\ refresh'[p] # Idle /\ gone = {}
                           /\ db' = db

\* Tables that shrink keep their types,
LEMMA SmallerTyped ==
    ASSUME RankTypes, NEW gone, Smaller(gone), Continuing(gone)
    PROVE  RankTypes'
<1>1. /\ TablesTyped(db) /\ Numbered(db)
      /\ refresh = [p \in Procs |-> refresh[p]] /\ \A p \in Procs : RefreshTyped(refresh[p])
  BY DEF RankTypes
<1>2. TablesTyped(db')
  <2>1. IsFiniteSet(db'.own) /\ IsFiniteSet(db'.global)
    <3>1. IsFiniteSet(db.own) /\ IsFiniteSet(db.global) /\ db'.own \subseteq db.own /\ db'.global \subseteq db.global
      BY <1>1 DEF TablesTyped, Smaller
    <3>. QED
      BY <3>1, FS_Subset
  <2>. QED
    BY <1>1, <2>1 DEF TablesTyped, Smaller
<1>3. Numbered(db')
  BY <1>1 DEF Numbered, Smaller
<1>4. \A p \in Procs : RefreshTyped(refresh'[p])
  <2>1. TAKE p \in Procs
  <2>2. CASE refresh'[p] = Idle
    BY <2>2 DEF RefreshTyped
  <2>3. CASE /\ refresh[p] # Idle /\ refresh'[p] # Idle
             /\ refresh'[p] = [uid |-> refresh[p].uid, at |-> refresh[p].at, since |-> refresh'[p].since]
    BY <1>1, <2>3 DEF RefreshTyped
  <2>4. CASE /\ refresh'[p] = [uid |-> refresh'[p].uid, at |-> db, since |-> refresh'[p].since]
             /\ refresh'[p].uid \in Members /\ refresh'[p] # Idle
    BY <1>1, <2>4 DEF RefreshTyped
  <2>. QED
    BY <2>2, <2>3, <2>4 DEF Continuing
<1>. QED
  BY <1>2, <1>3, <1>4 DEF RankTypes, Smaller, Continuing

\* and what is known of the snapshots of refreshes,
LEMMA SmallerSnapshots ==
    ASSUME RankTypes, Snapshots, NEW gone, Smaller(gone), Continuing(gone)
    PROVE  Snapshots'
<1>1. /\ TablesTyped(db)
      /\ \A p \in Procs : RefreshTyped(refresh[p])
  BY DEF RankTypes
<1>2. /\ \A e \in DOMAIN db.buys : e \in DOMAIN db'.buys /\ db'.buys[e] = db.buys[e]
      /\ db'.counter = db.counter /\ stale' = stale /\ db'.own \subseteq db.own
      /\ \A a \in db'.achieved : a.m \notin gone /\ \E b \in db.achieved : b.m = a.m /\ b.rank = a.rank
      /\ \A a \in db.achieved : a.m \notin gone => \E b \in db'.achieved : b.m = a.m /\ b.rank = a.rank
  BY DEF Smaller
<1>3. ASSUME NEW at, Before(at, db)
      PROVE  Before(at, db')
  BY <1>2, <1>3 DEF Before
<1>4. ASSUME NEW at, NEW m \in Members, m \notin gone, Current(at, db, m)
      PROVE  Current(at, db', m)
  <2>1. \A a \in db.achieved : a.m = m => \E b \in db'.achieved : b.m = m /\ b.rank = a.rank
    BY <1>2, <1>4
  <2>2. \A b \in db'.achieved : b.m = m => \E a \in db.achieved : a.m = m /\ a.rank = b.rank
    BY <1>2
  <2>3. PICK t : t = db'
    OBVIOUS
  <2>4. Current(at, t, m)
    BY <1>2, <1>4, <2>1, <2>2, <2>3, CurrentKept
  <2>. QED
    BY <2>3, <2>4
<1>5. ASSUME NEW p \in Procs, refresh'[p] # Idle
      PROVE  /\ Before(refresh'[p].at, db')
             /\ \A m \in Members : m \notin refresh'[p].since /\ m \notin stale' => Current(refresh'[p].at, db', m)
  <2>1. CASE /\ refresh[p] # Idle
             /\ refresh'[p] = [uid |-> refresh[p].uid, at |-> refresh[p].at, since |-> refresh'[p].since]
             /\ refresh[p].since \cup gone \subseteq refresh'[p].since
    <3>1. PICK at : at = refresh[p].at
      OBVIOUS
    <3>2. refresh'[p].at = at /\ Before(at, db)
      BY <2>1, <3>1 DEF Snapshots
    <3>3. \A m \in Members : m \notin refresh'[p].since /\ m \notin stale' => m \notin gone /\ Current(at, db, m)
      BY <1>2, <2>1, <3>1 DEF Snapshots
    <3>. QED
      BY <1>3, <1>4, <3>2, <3>3
  <2>2. CASE refresh'[p] = [uid |-> refresh'[p].uid, at |-> db, since |-> refresh'[p].since] /\ db' = db
    <3>1. refresh'[p].at = db
      BY <2>2
    <3>2. Before(db, db)
      BY <1>1 DEF Before, TablesTyped
    <3>3. \A m \in Members : Current(db, db, m)
      <4>1. TAKE m \in Members
      <4>2. /\ \A a \in db.achieved : a.m = m => a.rank <= RankOf(db, m)
            /\ RankOf(db, m) \in Nat
        BY <1>1, RankOfFacts, RankFacts DEF TablesTyped
      <4>. QED
        BY <4>2 DEF Current
    <3>. QED
      BY <2>2, <3>1, <3>2, <3>3
  <2>. QED
    BY <1>5, <2>1, <2>2 DEF Continuing
<1>. QED
  BY <1>5 DEF Snapshots

\* and so the whole invariant.
LEMMA SmallerKeeps ==
    ASSUME RankInv, NEW gone, Smaller(gone), Continuing(gone)
    PROVE  RankInv'
<1>1. /\ RankTypes /\ Snapshots /\ NumbersUnique(db) /\ NumbersOrdered(db, stale)
      /\ RanksPaid(db, releasing) /\ EventsKept(db, stale) /\ TablesTyped(db)
  BY OrderParts, PaidParts DEF RankInv, RankTypes
<1>2. RankTypes' /\ Snapshots' /\ TablesTyped(db')
  <2>1. RankTypes' /\ Snapshots'
    BY <1>1, SmallerTyped, SmallerSnapshots
  <2>. QED
    BY <2>1 DEF RankTypes
<1>3. NumbersUnique(db')
  BY DEF Smaller
<1>4. NumbersOrdered(db', stale')
  <2>1. ASSUME NEW a \in db'.achieved, NEW b \in db'.achieved,
               a.m = b.m, a.rank < b.rank, a.m \notin stale'
        PROVE  a.seq < b.seq
    <3>1. PICK x \in db.achieved : x.m = a.m /\ x.rank = a.rank /\ x.seq = a.seq
      BY DEF Smaller
    <3>2. PICK y \in db.achieved : y.m = b.m /\ y.rank = b.rank /\ y.seq = b.seq
      BY DEF Smaller
    <3>3. stale' = stale
      BY DEF Smaller
    <3>. QED
      BY <1>1, <2>1, <3>1, <3>2, <3>3 DEF NumbersOrdered
  <2>. QED
    BY <2>1 DEF NumbersOrdered
<1>5. RanksPaid(db', releasing')
  <2>1. ASSUME NEW m \in Members, releasing'[m] = "none", NEW a \in db'.achieved, a.m = m
        PROVE  Points(RankRows(db', m, a.seq)) = Required[a.rank]
    <3>1. /\ m \notin gone /\ releasing[m] = "none" /\ \A o \in db.own : o.m = m => o \in db'.own
      BY <2>1 DEF Smaller
    <3>2. PICK x \in db.achieved : x.m = m /\ x.rank = a.rank /\ x.seq = a.seq
      BY <2>1 DEF Smaller
    <3>3. Points(RankRows(db, m, a.seq)) = Required[a.rank]
      BY <1>1, <3>1, <3>2 DEF RanksPaid
    <3>4. RankRows(db', m, a.seq) = RankRows(db, m, a.seq)
      <4>1. db'.own \subseteq db.own
        BY DEF Smaller
      <4>. QED
        BY <3>1, <4>1 DEF RankRows
    <3>. QED
      BY <3>3, <3>4
  <2>. QED
    BY <2>1 DEF RanksPaid
<1>6. EventsKept(db', stale')
  <2>1. ASSUME NEW m \in Members, m \notin stale', NEW e \in DOMAIN db'.buys
        PROVE  Points(EventRows(db', m, e)) <= IF db'.buys[e].uid \in Below[m] THEN db'.buys[e].points ELSE 0
    <3>0. db'.own \subseteq db.own /\ stale' = stale
      BY DEF Smaller
    <3>1. CASE e \in DOMAIN db.buys
      <4>1. db'.buys[e] = db.buys[e] /\ db.buys[e].points \in Nat
        BY <1>1, <3>1, EventFacts DEF Smaller, TablesTyped
      <4>2. Points(EventRows(db, m, e)) <= IF db.buys[e].uid \in Below[m] THEN db.buys[e].points ELSE 0
        BY <1>1, <2>1, <3>0, <3>1 DEF EventsKept
      <4>3. Points(EventRows(db', m, e)) <= Points(EventRows(db, m, e))
            /\ Points(EventRows(db', m, e)) \in Nat /\ Points(EventRows(db, m, e)) \in Nat
        <5>1. PICK S : S = EventRows(db, m, e)
          OBVIOUS
        <5>2. PICK R : R = EventRows(db', m, e)
          OBVIOUS
        <5>3. R \in SUBSET S /\ S \subseteq db.own
          BY <3>0, <5>1, <5>2 DEF EventRows
        <5>4. IsFiniteSet(S)
          BY <1>1, <5>3, FS_Subset DEF TablesTyped
        <5>5. \A x \in S : x.points \in Nat
          BY <1>1, <5>3 DEF TablesTyped, OwnRow
        <5>. QED
          BY <5>1, <5>2, <5>3, <5>4, <5>5, PointsSubset
      <4>. QED
        BY <4>1, <4>2, <4>3
    <3>2. CASE e \notin DOMAIN db.buys
      <4>1. EventRows(db', m, e) = {}
        BY <1>1, <3>0, <3>2 DEF EventRows, TablesTyped
      <4>2. db'.buys[e].points \in Nat
        BY <1>2, EventFacts DEF TablesTyped
      <4>. QED
        BY <4>1, <4>2, PointsNone
    <3>. QED
      BY <3>1, <3>2
  <2>. QED
    BY <2>1 DEF EventsKept
<1>7. SequenceOrdered' /\ PaidInFull'
  <2>1. SequenceOrdered' <=> NumbersUnique(db') /\ NumbersOrdered(db', stale')
    BY DEF SequenceOrdered, NumbersUnique, NumbersOrdered
  <2>2. PaidInFull' <=> RanksPaid(db', releasing') /\ EventsKept(db', stale')
    BY PaidPartsNext
  <2>. QED
    BY <1>3, <1>4, <1>5, <1>6, <2>1, <2>2
<1>. QED
  BY <1>2, <1>7 DEF RankInv

\* A change of one table.
LEMMA TableExcept ==
    ASSUME NEW s, TablesTyped(s)
    PROVE  \A x :
      /\ [s EXCEPT !.buys = x] = [buys |-> x, achieved |-> s.achieved, own |-> s.own, global |-> s.global,
             ranking |-> s.ranking, counter |-> s.counter, excluded |-> s.excluded]
      /\ [s EXCEPT !.own = x] = [buys |-> s.buys, achieved |-> s.achieved, own |-> x, global |-> s.global,
             ranking |-> s.ranking, counter |-> s.counter, excluded |-> s.excluded]
      /\ [s EXCEPT !.global = x] = [buys |-> s.buys, achieved |-> s.achieved, own |-> s.own, global |-> x,
             ranking |-> s.ranking, counter |-> s.counter, excluded |-> s.excluded]
      /\ [s EXCEPT !.excluded = x] = [buys |-> s.buys, achieved |-> s.achieved, own |-> s.own, global |-> s.global,
             ranking |-> s.ranking, counter |-> s.counter, excluded |-> x]
      /\ [s EXCEPT !.achieved = x] = [buys |-> s.buys, achieved |-> x, own |-> s.own, global |-> s.global,
             ranking |-> s.ranking, counter |-> s.counter, excluded |-> s.excluded]
<1>1. PICK buys, achieved, own, global, ranking, counter, excluded :
          s = [buys |-> buys, achieved |-> achieved, own |-> own, global |-> global,
               ranking |-> ranking, counter |-> counter, excluded |-> excluded]
  BY DEF TablesTyped
<1>. QED
  BY <1>1

\* A step that leaves the refreshes alone, or ends one.
LEMMA RefreshSame ==
    ASSUME RankTypes, UNCHANGED refresh \/ \E p \in Procs : Abort(p)
    PROVE  Continuing({})
<1>1. refresh = [p \in Procs |-> refresh[p]] /\ \A p \in Procs : RefreshTyped(refresh[p])
  BY DEF RankTypes
<1>2. refresh' = [p \in Procs |-> refresh'[p]] /\ \A p \in Procs : refresh'[p] = refresh[p] \/ refresh'[p] = Idle
  <2>1. CASE UNCHANGED refresh
    BY <1>1, <2>1
  <2>2. CASE \E p \in Procs : Abort(p)
    <3>1. PICK p \in Procs : refresh' = [refresh EXCEPT ![p] = Idle]
      BY <2>2 DEF Abort
    <3>. QED
      BY <1>1, <3>1
  <2>. QED
    BY <2>1, <2>2
<1>3. \A p \in Procs : refresh'[p] # Idle =>
         /\ refresh'[p] = refresh[p] /\ refresh[p] # Idle
         /\ refresh[p] = [uid |-> refresh[p].uid, at |-> refresh[p].at, since |-> refresh[p].since]
  BY <1>1, <1>2 DEF RefreshTyped
<1>. QED
  BY <1>2, <1>3 DEF Continuing

\* What holds of tables that do not change.
LEMMA TablesStay ==
    ASSUME RankInv, db' = db, stale' = stale, releasing' = releasing
    PROVE  Smaller({})
<1>1. TablesTyped(db) /\ NumbersUnique(db) /\ releasing \in [Members -> {"none", "flagged", "global", "own"}]
  BY OrderParts DEF RankInv, RankTypes
<1>. QED
  BY <1>1 DEF Smaller, TablesTyped, NumbersUnique

\* A repurchase is a new event, of which nothing is consumed.
LEMMA BuyKeeps ==
    ASSUME RankInv, Buy
    PROVE  RankInv'
<1>1. TablesTyped(db) /\ NumbersUnique(db) /\ RankTypes /\ releasing \in [Members -> {"none", "flagged", "global", "own"}]
  BY OrderParts DEF RankInv, RankTypes
<1>2. PICK m \in Buyers, n \in Amounts : db' = [db EXCEPT !.buys = Append(@, [uid |-> m, points |-> n])]
  BY DEF Buy
<1>3. db' = [buys |-> Append(db.buys, [uid |-> m, points |-> n]), achieved |-> db.achieved, own |-> db.own,
             global |-> db.global, ranking |-> db.ranking, counter |-> db.counter, excluded |-> db.excluded]
  BY <1>1, <1>2, TableExcept
<1>4. [uid |-> m, points |-> n] \in BuyRow
  BY RankFacts DEF BuyRow
<1>5. db.buys \in Seq(BuyRow)
  BY <1>1 DEF TablesTyped
<1>6. PICK b : b = Append(db.buys, [uid |-> m, points |-> n])
  OBVIOUS
<1>7. b \in Seq(BuyRow) /\ \A e \in DOMAIN db.buys : e \in DOMAIN b /\ b[e] = db.buys[e]
  BY <1>4, <1>5, <1>6
<1>8. db'.buys = b /\ db'.achieved = db.achieved /\ db'.own = db.own /\ db'.global = db.global /\ db'.counter = db.counter
      /\ db' = [buys |-> db'.buys, achieved |-> db'.achieved, own |-> db'.own, global |-> db'.global,
                ranking |-> db'.ranking, counter |-> db'.counter, excluded |-> db'.excluded]
  BY <1>3, <1>6
<1>9. stale' = stale /\ releasing' = releasing /\ UNCHANGED refresh
  BY DEF Buy
<1>10. db.achieved \subseteq AwardRow /\ IsFiniteSet(db.achieved) /\ NumbersUnique(db')
  BY <1>1, <1>8 DEF TablesTyped, NumbersUnique
<1>11. Smaller({})
  BY <1>1, <1>7, <1>8, <1>9, <1>10 DEF Smaller
<1>. QED
  BY <1>1, <1>9, <1>11, RefreshSame, SmallerKeeps

\* The award that is handed over is the lowest pending one.
LEMMA FulfilKeeps ==
    ASSUME RankInv, Fulfil
    PROVE  RankInv'
<1>1. TablesTyped(db) /\ NumbersUnique(db) /\ RankTypes /\ releasing \in [Members -> {"none", "flagged", "global", "own"}]
  BY OrderParts DEF RankInv, RankTypes
<1>. DEFINE P(m) == {x \in db.achieved : x.m = m /\ x.status = "pending"}
            L(m) == CHOOSE x \in P(m) : \A y \in P(m) : x.rank <= y.rank
<1>0. PICK m \in Fulfilled :
         /\ P(m) # {}
         /\ db' = [db EXCEPT !.achieved = (@ \ {L(m)}) \cup {[L(m) EXCEPT !.status = "fulfilled"]},
                             !.ranking[m].pending = Cardinality(P(m)) - 1]
  BY Zenon DEF Fulfil
<1>p. PICK pending : pending = P(m)
  OBVIOUS
<1>a. PICK a : a = L(m)
  OBVIOUS
<1>2. /\ pending = {x \in db.achieved : x.m = m /\ x.status = "pending"}
      /\ a = CHOOSE x \in pending : \A y \in pending : x.rank <= y.rank
      /\ pending # {}
      /\ db' = [db EXCEPT !.achieved = (@ \ {a}) \cup {[a EXCEPT !.status = "fulfilled"]},
                          !.ranking[m].pending = Cardinality(pending) - 1]
  BY <1>0, <1>a, <1>p
<1>3. a \in pending
  <2>1. PICK R : R = {x.rank : x \in pending}
    OBVIOUS
  <2>2. pending \subseteq AwardRow /\ IsFiniteSet(pending)
    <3>1. pending \subseteq db.achieved
      BY <1>2
    <3>. QED
      BY <1>1, <3>1, FS_Subset DEF TablesTyped
  <2>3. R \subseteq Nat /\ R # {}
    <3>1. \A x \in pending : x.rank \in Nat
      BY <2>2, RankFacts DEF AwardRow
    <3>. QED
      BY <1>2, <2>1, <3>1
  <2>4. IsFiniteSet(R)
    <3>1. PICK f : f = [x \in pending |-> x.rank]
      OBVIOUS
    <3>2. f \in Surjection(pending, R)
      BY <2>1, <3>1 DEF Surjection
    <3>. QED
      BY <2>2, <3>2, FS_Surjection
  <2>5. PICK k \in R : \A n \in R : k <= n
    BY <2>3, <2>4, Smallest
  <2>6. \E x \in pending : \A y \in pending : x.rank <= y.rank
    BY <2>1, <2>5
  <2>. QED
    BY <1>2, <2>6
<1>4. a \in db.achieved /\ a \in AwardRow /\ a.status = "pending"
  BY <1>1, <1>2, <1>3 DEF TablesTyped
<1>5. PICK b : b = [a EXCEPT !.status = "fulfilled"]
  OBVIOUS
<1>6. b \in AwardRow /\ b.m = a.m /\ b.rank = a.rank /\ b.seq = a.seq
  BY <1>4, <1>5 DEF AwardRow
<1>7. PICK A : A = (db.achieved \ {a}) \cup {b}
  OBVIOUS
<1>8. /\ db' = [buys |-> db'.buys, achieved |-> db'.achieved, own |-> db'.own, global |-> db'.global,
                ranking |-> db'.ranking, counter |-> db'.counter, excluded |-> db'.excluded]
      /\ db'.buys = db.buys /\ db'.achieved = A /\ db'.own = db.own /\ db'.global = db.global
      /\ db'.counter = db.counter
  <2>1. PICK buys, achieved, own, global, ranking, counter, excluded :
          db = [buys |-> buys, achieved |-> achieved, own |-> own, global |-> global,
                ranking |-> ranking, counter |-> counter, excluded |-> excluded]
    BY <1>1 DEF TablesTyped
  <2>2. PICK v : v = Cardinality(pending) - 1
    OBVIOUS
  <2>3. db' = [db EXCEPT !.achieved = A, !.ranking[m].pending = v]
    BY <1>2, <1>5, <1>7, <2>2
  <2>4. PICK R : db' = [db EXCEPT !.achieved = A, !.ranking = R]
    BY <2>1, <2>3
  <2>5. db' = [buys |-> buys, achieved |-> A, own |-> own, global |-> global,
               ranking |-> R, counter |-> counter, excluded |-> excluded]
    BY <2>1, <2>4
  <2>. QED
    BY <2>1, <2>5
<1>9. stale' = stale /\ releasing' = releasing /\ UNCHANGED refresh
  BY DEF Fulfil
<1>10. A \subseteq AwardRow /\ IsFiniteSet(A)
  <2>1. db.achieved \subseteq AwardRow /\ IsFiniteSet(db.achieved)
    BY <1>1 DEF TablesTyped
  <2>2. IsFiniteSet(db.achieved \ {a})
    BY <2>1, FS_Subset
  <2>3. IsFiniteSet((db.achieved \ {a}) \cup {b})
    BY <2>2, FS_AddElement
  <2>. QED
    BY <1>6, <1>7, <2>1, <2>3
<1>11. /\ \A x \in A : \E y \in db.achieved : y.m = x.m /\ y.rank = x.rank /\ y.seq = x.seq /\ (x # b => x = y) /\ (x = b => y = a)
       /\ \A x \in db.achieved : \E y \in A : y.m = x.m /\ y.rank = x.rank
  BY <1>4, <1>6, <1>7
<1>12. NumbersUnique(db')
  <2>1. ASSUME NEW x \in A, NEW y \in A, x.seq = y.seq
        PROVE  x = y
    <3>1. PICK u \in db.achieved : u.seq = x.seq /\ (x # b => x = u) /\ (x = b => u = a)
      BY <1>11
    <3>2. PICK w \in db.achieved : w.seq = y.seq /\ (y # b => y = w) /\ (y = b => w = a)
      BY <1>11
    <3>3. u = w
      BY <1>1, <2>1, <3>1, <3>2 DEF NumbersUnique
    <3>4. \A z \in A : z # b => z # a
      BY <1>7
    <3>. QED
      BY <3>1, <3>2, <3>3, <3>4
  <2>. QED
    BY <1>8, <2>1 DEF NumbersUnique
<1>13. Smaller({})
  <2>1. db.buys \in Seq(BuyRow)
    BY <1>1 DEF TablesTyped
  <2>. QED
    BY <1>1, <1>8, <1>9, <1>10, <1>11, <1>12, <2>1 DEF Smaller
<1>. QED
  BY <1>1, <1>9, <1>13, RefreshSame, SmallerKeeps

\* A refresh begins with the tables as they are.
LEMMA RefreshKeeps ==
    ASSUME RankInv, NEW p \in Procs, Refresh(p)
    PROVE  RankInv'
<1>1. RankTypes /\ TablesTyped(db) /\ refresh = [q \in Procs |-> refresh[q]] /\ \A q \in Procs : RefreshTyped(refresh[q])
  BY DEF RankInv, RankTypes
<1>2. PICK m \in Refreshed : refresh' = [refresh EXCEPT ![p] = [uid |-> m, at |-> db, since |-> {}]]
  BY DEF Refresh
<1>3. db' = db /\ stale' = stale /\ releasing' = releasing
  BY DEF Refresh
<1>4. m \in Members /\ m # NoOne
  BY RankingAssumption
<1>5. [uid |-> m, at |-> db, since |-> {}] # Idle
  BY <1>4 DEF Idle
<1>6. Continuing({})
  <2>1. refresh' = [q \in Procs |-> refresh'[q]]
    BY <1>1, <1>2
  <2>2. ASSUME NEW q \in Procs, q = p
        PROVE  /\ refresh'[q] = [uid |-> refresh'[q].uid, at |-> db, since |-> refresh'[q].since]
               /\ refresh'[q].uid \in Members /\ refresh'[q] # Idle
    <3>1. refresh'[q] = [uid |-> m, at |-> db, since |-> {}]
      BY <1>1, <1>2, <2>2
    <3>. QED
      BY <1>4, <1>5, <3>1
  <2>3. ASSUME NEW q \in Procs, q # p, refresh'[q] # Idle
        PROVE  /\ refresh[q] # Idle /\ refresh'[q] = refresh[q]
               /\ refresh[q] = [uid |-> refresh[q].uid, at |-> refresh[q].at, since |-> refresh[q].since]
    <3>1. refresh'[q] = refresh[q]
      BY <1>1, <1>2, <2>3
    <3>. QED
      BY <1>1, <2>3, <3>1 DEF RefreshTyped
  <2>. QED
    BY <1>3, <2>1, <2>2, <2>3 DEF Continuing
<1>. QED
  BY <1>1, <1>3, <1>6, TablesStay, SmallerKeeps

\* Flags, and the first two statements of a release.
LEMMA FlagKeeps ==
    ASSUME RankInv, NEW m \in Members, Flag(m) \/ Unflag(m) \/ ReleaseGlobal(m) \/ ReleaseOwn(m)
    PROVE  RankInv'
<1>1. /\ TablesTyped(db) /\ NumbersUnique(db) /\ RankTypes
      /\ releasing \in [Members -> {"none", "flagged", "global", "own"}]
  BY OrderParts DEF RankInv, RankTypes
<1>2. stale' = stale /\ UNCHANGED refresh
  BY DEF Flag, Unflag, ReleaseGlobal, ReleaseOwn
<1>3. /\ releasing' \in [Members -> {"none", "flagged", "global", "own"}]
      /\ \A q \in Members : releasing'[q] = "none" => releasing[q] = "none"
      /\ releasing' # releasing \/ db'.own = db.own \/ ~ReleaseOwn(m)
  BY <1>1 DEF Flag, Unflag, ReleaseGlobal, ReleaseOwn
<1>4. /\ db' = [buys |-> db'.buys, achieved |-> db'.achieved, own |-> db'.own, global |-> db'.global,
                ranking |-> db'.ranking, counter |-> db'.counter, excluded |-> db'.excluded]
      /\ db'.buys = db.buys /\ db'.achieved = db.achieved /\ db'.counter = db.counter
      /\ db'.own \subseteq db.own /\ db'.global \subseteq db.global
      /\ \A q \in Members : releasing'[q] = "none" => \A o \in db.own : o.m = q => o \in db'.own
  <2>1. CASE Flag(m)
    <3>1. PICK x : db' = [db EXCEPT !.excluded = x]
      BY <2>1 DEF Flag
    <3>2. db' = [buys |-> db.buys, achieved |-> db.achieved, own |-> db.own, global |-> db.global,
                 ranking |-> db.ranking, counter |-> db.counter, excluded |-> x]
      BY <1>1, <3>1, TableExcept
    <3>. QED
      BY <3>2
  <2>2. CASE Unflag(m)
    <3>1. PICK x : db' = [db EXCEPT !.excluded = x]
      BY <2>2 DEF Unflag
    <3>2. db' = [buys |-> db.buys, achieved |-> db.achieved, own |-> db.own, global |-> db.global,
                 ranking |-> db.ranking, counter |-> db.counter, excluded |-> x]
      BY <1>1, <3>1, TableExcept
    <3>. QED
      BY <3>2
  <2>3. CASE ReleaseGlobal(m)
    <3>1. PICK x : x = {g \in db.global : g.m # m}
      OBVIOUS
    <3>2. db' = [db EXCEPT !.global = x]
      BY <2>3, <3>1 DEF ReleaseGlobal
    <3>3. db' = [buys |-> db.buys, achieved |-> db.achieved, own |-> db.own, global |-> x,
                 ranking |-> db.ranking, counter |-> db.counter, excluded |-> db.excluded]
      BY <1>1, <3>2, TableExcept
    <3>. QED
      BY <3>1, <3>3
  <2>4. CASE ReleaseOwn(m)
    <3>1. PICK x : x = {o \in db.own : o.m # m}
      OBVIOUS
    <3>2. db' = [db EXCEPT !.own = x]
      BY <2>4, <3>1 DEF ReleaseOwn
    <3>3. db' = [buys |-> db.buys, achieved |-> db.achieved, own |-> x, global |-> db.global,
                 ranking |-> db.ranking, counter |-> db.counter, excluded |-> db.excluded]
      BY <1>1, <3>2, TableExcept
    <3>4. \A q \in Members : releasing'[q] = "none" => q # m
      BY <1>1, <2>4 DEF ReleaseOwn
    <3>. QED
      BY <3>1, <3>3, <3>4
  <2>. QED
    BY <2>1, <2>2, <2>3, <2>4
<1>5. /\ db.achieved \subseteq AwardRow /\ IsFiniteSet(db.achieved) /\ NumbersUnique(db')
      /\ db.buys \in Seq(BuyRow)
  BY <1>1, <1>4 DEF TablesTyped, NumbersUnique
<1>6. Smaller({})
  BY <1>2, <1>3, <1>4, <1>5 DEF Smaller
<1>. QED
  BY <1>1, <1>2, <1>6, RefreshSame, SmallerKeeps

\* The last one releases the ranks.
LEMMA ReleaseRanksKeeps ==
    ASSUME RankInv, NEW m \in Members, ReleaseRanks(m)
    PROVE  RankInv'
<1>1. /\ TablesTyped(db) /\ NumbersUnique(db) /\ RankTypes
      /\ releasing \in [Members -> {"none", "flagged", "global", "own"}]
      /\ refresh = [q \in Procs |-> refresh[q]] /\ \A q \in Procs : RefreshTyped(refresh[q])
  BY OrderParts DEF RankInv, RankTypes
<1>2. PICK x : x = {a \in db.achieved : a.m # m}
  OBVIOUS
<1>3. db' = [db EXCEPT !.achieved = x]
  BY <1>2 DEF ReleaseRanks
<1>4. db' = [buys |-> db.buys, achieved |-> x, own |-> db.own, global |-> db.global,
             ranking |-> db.ranking, counter |-> db.counter, excluded |-> db.excluded]
  BY <1>1, <1>3, TableExcept
<1>5. stale' = stale /\ releasing' = [releasing EXCEPT ![m] = "none"]
  BY DEF ReleaseRanks
<1>6. /\ releasing' \in [Members -> {"none", "flagged", "global", "own"}]
      /\ \A q \in Members : q # m => releasing'[q] = releasing[q]
  BY <1>1, <1>5
<1>7. /\ db.achieved \subseteq AwardRow /\ IsFiniteSet(db.achieved) /\ db.buys \in Seq(BuyRow)
  BY <1>1 DEF TablesTyped
<1>8. x \subseteq AwardRow /\ IsFiniteSet(x) /\ x \subseteq db.achieved
  BY <1>2, <1>7, FS_Subset
<1>9. /\ db' = [buys |-> db'.buys, achieved |-> db'.achieved, own |-> db'.own, global |-> db'.global,
                ranking |-> db'.ranking, counter |-> db'.counter, excluded |-> db'.excluded]
      /\ db'.buys = db.buys /\ db'.achieved = x /\ db'.own = db.own /\ db'.global = db.global
      /\ db'.counter = db.counter
  BY <1>4
<1>10. NumbersUnique(db')
  BY <1>1, <1>8, <1>9 DEF NumbersUnique
<1>11. Smaller({m})
  BY <1>2, <1>5, <1>6, <1>7, <1>8, <1>9, <1>10 DEF Smaller
<1>12. Continuing({m})
  <2>1. refresh' = [p \in Procs |-> IF refresh[p] = Idle THEN Idle
                                    ELSE [refresh[p] EXCEPT !.since = @ \cup {m}]]
    BY DEF ReleaseRanks
  <2>2. refresh' = [p \in Procs |-> refresh'[p]]
    BY <2>1
  <2>3. ASSUME NEW p \in Procs, refresh'[p] # Idle
        PROVE  /\ refresh[p] # Idle
               /\ refresh'[p] = [uid |-> refresh[p].uid, at |-> refresh[p].at, since |-> refresh'[p].since]
               /\ refresh[p].since \cup {m} \subseteq refresh'[p].since
    <3>1. refresh[p] # Idle
      BY <2>1, <2>3
    <3>2. PICK uid, at, since : refresh[p] = [uid |-> uid, at |-> at, since |-> since]
      BY <1>1, <3>1 DEF RefreshTyped
    <3>3. refresh'[p] = [refresh[p] EXCEPT !.since = @ \cup {m}]
      BY <2>1, <3>1
    <3>4. refresh'[p] = [uid |-> uid, at |-> at, since |-> since \cup {m}]
      BY <3>2, <3>3
    <3>. QED
      BY <3>1, <3>2, <3>4
  <2>. QED
    BY <2>2, <2>3 DEF Continuing
<1>. QED
  BY <1>11, <1>12, SmallerKeeps

\* A commit keeps the invariant.
LEMMA CommitKeeps ==
    ASSUME RankInv, NEW p \in Procs, Commit(p)
    PROVE  RankInv'
<1>1. RankTypes /\ Snapshots
  BY DEF RankInv
<1>2. PICK at, s, taken : Committing(p, at, s, taken)
  BY <1>1, CommitIs
<1>3. /\ NumbersUnique(db') /\ NumbersOrdered(db', stale') /\ Snapshots'
      /\ RanksPaid(db', releasing') /\ EventsKept(db', stale') /\ RankTypes'
  BY <1>1, <1>2, CommitOrdered, CommitSnapshots, CommitPaid, CommitKept, CommitTyped
<1>4. SequenceOrdered'
  BY <1>3 DEF SequenceOrdered, NumbersUnique, NumbersOrdered
<1>5. PaidInFull'
  BY <1>3, PaidPartsNext
<1>. QED
  BY <1>3, <1>4, <1>5 DEF RankInv

\* So does every step,
LEMMA RankStep == RankInv /\ [Next]_vars => RankInv'
<1>. SUFFICES ASSUME RankInv, [Next]_vars
              PROVE  RankInv'
  OBVIOUS
<1>0. RankTypes
  BY DEF RankInv
<1>1. CASE Propagate \/ LoseDelta \/ UNCHANGED vars \/ \E p \in Procs : Abort(p)
  <2>1. db' = db /\ stale' = stale /\ releasing' = releasing
    BY <1>1 DEF Propagate, LoseDelta, vars, Abort
  <2>2. UNCHANGED refresh \/ \E p \in Procs : Abort(p)
    BY <1>1 DEF Propagate, LoseDelta, vars
  <2>. QED
    BY <1>0, <2>1, <2>2, RefreshSame, TablesStay, SmallerKeeps
<1>2. CASE Buy
  BY <1>2, BuyKeeps
<1>3. CASE Fulfil
  BY <1>3, FulfilKeeps
<1>4. ASSUME NEW p \in Procs, Refresh(p)
      PROVE  RankInv'
  BY <1>4, RefreshKeeps
<1>5. ASSUME NEW p \in Procs, Commit(p)
      PROVE  RankInv'
  BY <1>5, CommitKeeps
<1>6. ASSUME NEW m \in Members, Flag(m) \/ Unflag(m) \/ ReleaseGlobal(m) \/ ReleaseOwn(m)
      PROVE  RankInv'
  BY <1>6, FlagKeeps
<1>7. ASSUME NEW m \in Members, ReleaseRanks(m)
      PROVE  RankInv'
  BY <1>7, ReleaseRanksKeeps
<1>. QED
  BY <1>1, <1>2, <1>3, <1>4, <1>5, <1>6, <1>7 DEF Next

\* and it holds at first.
LEMMA RankInit == AwardsInit => RankInv
<1>. SUFFICES ASSUME AwardsInit
              PROVE  RankInv
  OBVIOUS
<1>1. /\ db = Empty /\ refresh = [p \in Procs |-> Idle] /\ releasing = [m \in Members |-> "none"]
      /\ stale = {}
  BY DEF AwardsInit, Init
<1>2. /\ db.buys = <<>> /\ db.achieved = {} /\ db.own = {} /\ db.global = {} /\ db.counter = 1
      /\ db = [buys |-> db.buys, achieved |-> db.achieved, own |-> db.own, global |-> db.global,
               ranking |-> db.ranking, counter |-> db.counter, excluded |-> db.excluded]
  BY <1>1 DEF Empty
<1>3. TablesTyped(db) /\ Numbered(db)
  BY <1>2, FS_EmptySet DEF TablesTyped, Numbered
<1>4. RankTypes
  BY <1>1, <1>3 DEF RankTypes, RefreshTyped
<1>5. Snapshots
  BY <1>1 DEF Snapshots
<1>6. SequenceOrdered
  BY <1>2 DEF SequenceOrdered
<1>7. PaidInFull
  BY <1>2 DEF PaidInFull
<1>. QED
  BY <1>4, <1>5, <1>6, <1>7 DEF RankInv

\* The inductive invariant of the ranking race.
LEMMA RankInvariant == AwardsSpec => []RankInv
<1>1. RankInv /\ [NextRanking \/ NextBonus]_awardsVars => RankInv'
  BY AwardSteps, RankStep
<1>. QED
  BY <1>1, RankInit, PTL DEF AwardsSpec

\* Numbers are given once and in the order of a member's ranks.  (nextSequenceId)
THEOREM AwardsAreOrdered == AwardsSpec => []SequenceOrdered
<1>1. RankInv => SequenceOrdered
  BY DEF RankInv
<1>. QED
  BY <1>1, RankInvariant, PTL

\* A rank is paid for in full by repurchases of the downline, and none of them is
\* consumed beyond its points.  (insertAchievementAward)
THEOREM RanksArePaidFor == AwardsSpec => []PaidInFull
<1>1. RankInv => PaidInFull
  BY DEF RankInv
<1>. QED
  BY <1>1, RankInvariant, PTL

-----------------------------------------------------------------------------
\* The incremental points.

\* What a member's points are made of: the events that have been added, and the
\* consumption that is there or has been given back.
Counted(t, d, l, m) == {e \in DOMAIN t.buys \ (d \cup l) : t.buys[e].uid \in Below[m]}
Gross(t, S) == SumFunctionOnSet([e \in S |-> t.buys[e].points], S)
Open(t, m) == {g \in t.global : t.buys[g.event].uid \in Below[m]}
Back(t, rel, m) == {x \in rel : t.buys[x.row.event].uid \in Below[m]}
Returned(S) == SumFunctionOnSet([x \in S |-> x.row.points], S)

Reconciled(t, sh, d, l, rel) ==
    \A m \in Members :
        /\ sh[m].gross = Gross(t, Counted(t, d, l, m))
        /\ sh[m].consumed = Points(Open(t, m)) + Returned(Back(t, rel, m))

\* The property by its parts.
LEMMA ShadowParts == ShadowReconciles <=> Reconciled(db, shadow, deltas, lost, released)
BY DEF ShadowReconciles, Reconciled, Counted, Gross, Open, Back, Returned

\* The same of the next state.
LEMMA ShadowPartsNext ==
    ShadowReconciles' <=> Reconciled(db', shadow', deltas', lost', released')
BY DEF ShadowReconciles, Reconciled, Counted, Gross, Open, Back, Returned

\* An update is under way or lost; a row is given back once for a flag.
ReturnedTyped(t, rel) ==
    /\ IsFiniteSet(rel)
    /\ \A x \in rel : /\ x = [row |-> x.row, at |-> x.at]
                      /\ x.row \in GlobalRow /\ x.row.event \in DOMAIN t.buys
                      /\ x.at \in Nat
ShadowInv ==
    /\ shadow = [m \in Members |-> [gross |-> shadow[m].gross, consumed |-> shadow[m].consumed]]
    /\ deltas \subseteq DOMAIN db.buys /\ lost \subseteq DOMAIN db.buys /\ deltas \cap lost = {}
    /\ exclusions \in Nat
    /\ ReturnedTyped(db, released)
    /\ \A x \in released : /\ x.at <= exclusions
                           /\ releasing[x.row.m] = "flagged" => x.at < exclusions
    /\ Reconciled(db, shadow, deltas, lost, released)

\* The points of the rows given back.
LEMMA ReturnedSum ==
    ASSUME NEW t, TablesTyped(t), NEW rel, ReturnedTyped(t, rel), NEW S \in SUBSET rel
    PROVE  IsFiniteSet(S) /\ Returned(S) \in Nat
<1>1. IsFiniteSet(S) /\ \A x \in S : x.row.points \in Nat
  <2>1. IsFiniteSet(rel) /\ \A x \in rel : x.row \in GlobalRow
    BY DEF ReturnedTyped
  <2>2. IsFiniteSet(S)
    BY <2>1, FS_Subset
  <2>. QED
    BY <2>1, <2>2 DEF GlobalRow
<1>2. PICK f : f = [x \in S |-> x.row.points]
  OBVIOUS
<1>3. \A x \in S : f[x] \in Nat
  BY <1>1, <1>2
<1>4. SumFunctionOnSet(f, S) \in Nat
  BY <1>1, <1>3, SumNat
<1>. QED
  BY <1>1, <1>2, <1>4 DEF Returned

\* Nothing that is counted changes.
LEMMA ShadowSame ==
    ASSUME NEW s, NEW t, TablesTyped(s), NEW sh, NEW d, NEW l, NEW rel, NEW d2, NEW l2,
           Reconciled(s, sh, d, l, rel), ReturnedTyped(s, rel),
           \A e \in DOMAIN s.buys : e \in DOMAIN t.buys /\ t.buys[e] = s.buys[e],
           DOMAIN t.buys \ (d2 \cup l2) = DOMAIN s.buys \ (d \cup l),
           t.global = s.global
    PROVE  Reconciled(t, sh, d2, l2, rel)
<1>1. ASSUME NEW m \in Members
      PROVE  /\ sh[m].gross = Gross(t, Counted(t, d2, l2, m))
             /\ sh[m].consumed = Points(Open(t, m)) + Returned(Back(t, rel, m))
  <2>1. Counted(t, d2, l2, m) = Counted(s, d, l, m)
    <3>1. PICK U : U = DOMAIN s.buys \ (d \cup l)
      OBVIOUS
    <3>2. \A e \in U : t.buys[e] = s.buys[e]
      BY <3>1
    <3>3. Counted(t, d2, l2, m) = {e \in U : t.buys[e].uid \in Below[m]}
      BY <3>1 DEF Counted
    <3>4. Counted(s, d, l, m) = {e \in U : s.buys[e].uid \in Below[m]}
      BY <3>1 DEF Counted
    <3>. QED
      BY <3>2, <3>3, <3>4
  <2>2. PICK S : S = Counted(s, d, l, m)
    OBVIOUS
  <2>3. \A e \in S : t.buys[e].points = s.buys[e].points
    BY <2>2 DEF Counted
  <2>4. [e \in S |-> t.buys[e].points] = [e \in S |-> s.buys[e].points]
    BY <2>3
  <2>5. Gross(t, S) = Gross(s, S)
    BY <2>4 DEF Gross
  <2>6. Open(t, m) = Open(s, m)
    BY DEF Open, TablesTyped
  <2>7. Back(t, rel, m) = Back(s, rel, m)
    BY DEF Back, ReturnedTyped
  <2>8. sh[m].gross = Gross(s, S) /\ sh[m].consumed = Points(Open(s, m)) + Returned(Back(s, rel, m))
    BY <2>2 DEF Reconciled
  <2>. QED
    BY <2>1, <2>2, <2>5, <2>6, <2>7, <2>8
<1>. QED
  BY <1>1 DEF Reconciled

\* An update adds an event to the points of those above its buyer.
LEMMA PropagateShadow ==
    ASSUME RankTypes, ShadowInv, Propagate
    PROVE  ShadowInv'
<1>1. PICK e \in deltas :
         /\ deltas' = deltas \ {e}
         /\ shadow' = [m \in Members |-> IF m \notin Chain(db.buys[e].uid) THEN shadow[m]
                                         ELSE [shadow[m] EXCEPT !.gross = @ + db.buys[e].points]]
         /\ UNCHANGED <<db, releasing, lost, released, exclusions>>
  BY DEF Propagate
<1>2. /\ TablesTyped(db) /\ deltas \subseteq DOMAIN db.buys /\ deltas \cap lost = {}
      /\ shadow = [m \in Members |-> [gross |-> shadow[m].gross, consumed |-> shadow[m].consumed]]
      /\ Reconciled(db, shadow, deltas, lost, released)
  BY DEF RankTypes, ShadowInv
<1>3. /\ e \in DOMAIN db.buys /\ db.buys[e].uid \in Members /\ db.buys[e].points \in Nat
      /\ IsFiniteSet(DOMAIN db.buys) /\ \A i \in DOMAIN db.buys : db.buys[i].points \in Nat
  BY <1>1, <1>2, EventFacts DEF TablesTyped
<1>4. ASSUME NEW m \in Members
      PROVE  /\ shadow'[m].gross = IF db.buys[e].uid \in Below[m] THEN shadow[m].gross + db.buys[e].points
                                   ELSE shadow[m].gross
             /\ shadow'[m].consumed = shadow[m].consumed
             /\ shadow'[m] = [gross |-> shadow'[m].gross, consumed |-> shadow'[m].consumed]
  <2>1. m \in Chain(db.buys[e].uid) <=> db.buys[e].uid \in Below[m]
    BY <1>3, RankFacts
  <2>2. PICK g, c : shadow[m] = [gross |-> g, consumed |-> c]
    BY <1>2
  <2>3. shadow'[m] = IF m \notin Chain(db.buys[e].uid) THEN shadow[m]
                     ELSE [shadow[m] EXCEPT !.gross = @ + db.buys[e].points]
    BY <1>1
  <2>. QED
    BY <2>1, <2>2, <2>3
<1>5. ASSUME NEW m \in Members
      PROVE  shadow'[m].gross = Gross(db, Counted(db, deltas', lost, m))
  <2>1. PICK S : S = Counted(db, deltas, lost, m)
    OBVIOUS
  <2>2. shadow[m].gross = Gross(db, S)
    BY <1>2, <2>1 DEF Reconciled
  <2>3. e \notin S /\ S \subseteq DOMAIN db.buys
    BY <1>1, <2>1 DEF Counted
  <2>4. CASE db.buys[e].uid \in Below[m]
    <3>1. Counted(db, deltas', lost, m) = S \cup {e}
      BY <1>1, <1>2, <1>3, <2>1, <2>4 DEF Counted
    <3>2. PICK f : f = [i \in S \cup {e} |-> db.buys[i].points]
      OBVIOUS
    <3>3. PICK g : g = [i \in S |-> db.buys[i].points]
      OBVIOUS
    <3>4. IsFiniteSet(S) /\ \A i \in S \cup {e} : f[i] \in Int
      <4>1. IsFiniteSet(S)
        BY <1>3, <2>3, FS_Subset
      <4>. QED
        BY <1>3, <2>3, <3>2, <4>1
    <3>5. SumFunctionOnSet(f, S \cup {e}) = f[e] + SumFunctionOnSet(f, S)
      BY <2>3, <3>4, SumAdd
    <3>6. SumFunctionOnSet(f, S) = SumFunctionOnSet(g, S)
      BY <3>2, <3>3, <3>4, SumSame
    <3>7. SumFunctionOnSet(f, S) \in Int /\ f[e] = db.buys[e].points
      BY <3>2, <3>4, SumInt
    <3>8. Gross(db, S \cup {e}) = SumFunctionOnSet(f, S \cup {e}) /\ Gross(db, S) = SumFunctionOnSet(g, S)
      BY <3>2, <3>3 DEF Gross
    <3>9. Gross(db, S \cup {e}) = Gross(db, S) + db.buys[e].points
      BY <1>3, <3>5, <3>6, <3>7, <3>8
    <3>. QED
      BY <1>4, <2>2, <2>4, <3>1, <3>9
  <2>5. CASE db.buys[e].uid \notin Below[m]
    <3>1. Counted(db, deltas', lost, m) = S
      BY <1>1, <2>1, <2>5 DEF Counted
    <3>. QED
      BY <1>4, <2>2, <2>5, <3>1
  <2>. QED
    BY <2>4, <2>5
<1>6. Reconciled(db, shadow', deltas', lost, released)
  BY <1>2, <1>4, <1>5 DEF Reconciled
<1>7. shadow' = [m \in Members |-> [gross |-> shadow'[m].gross, consumed |-> shadow'[m].consumed]]
  BY <1>1, <1>4
<1>. QED
  BY <1>1, <1>6, <1>7 DEF ShadowInv

\* A step that neither counts an event, nor consumes or gives back anything.
LEMMA ShadowStays ==
    ASSUME RankTypes, ShadowInv,
           \A e \in DOMAIN db.buys : e \in DOMAIN db'.buys /\ db'.buys[e] = db.buys[e],
           db'.global = db.global, shadow' = shadow, released' = released,
           deltas' \subseteq DOMAIN db'.buys, lost' \subseteq DOMAIN db'.buys, deltas' \cap lost' = {},
           DOMAIN db'.buys \ (deltas' \cup lost') = DOMAIN db.buys \ (deltas \cup lost),
           exclusions' \in Nat, exclusions <= exclusions',
           \A m \in Members : releasing'[m] = "flagged" => releasing[m] = "flagged" \/ exclusions < exclusions'
    PROVE  ShadowInv'
<1>1. /\ TablesTyped(db) /\ ReturnedTyped(db, released) /\ exclusions \in Nat
      /\ Reconciled(db, shadow, deltas, lost, released)
      /\ shadow = [m \in Members |-> [gross |-> shadow[m].gross, consumed |-> shadow[m].consumed]]
      /\ \A x \in released : /\ x.at <= exclusions
                             /\ releasing[x.row.m] = "flagged" => x.at < exclusions
  BY DEF RankTypes, ShadowInv
<1>2. PICK t, d, l : t = db' /\ d = deltas' /\ l = lost'
  OBVIOUS
<1>3. Reconciled(t, shadow, d, l, released)
  BY <1>1, <1>2, ShadowSame
<1>4. ReturnedTyped(t, released)
  BY <1>1, <1>2 DEF ReturnedTyped
<1>5. Reconciled(db', shadow', deltas', lost', released') /\ ReturnedTyped(db', released')
  BY <1>2, <1>3, <1>4
<1>6. \A x \in released : /\ x.at \in Nat /\ x.row.m \in Members
  BY <1>1 DEF ReturnedTyped, GlobalRow
<1>7. \A x \in released' : /\ x.at <= exclusions'
                           /\ releasing'[x.row.m] = "flagged" => x.at < exclusions'
  BY <1>1, <1>6
<1>8. shadow' = [m \in Members |-> [gross |-> shadow'[m].gross, consumed |-> shadow'[m].consumed]]
  BY <1>1
<1>. QED
  BY <1>5, <1>7, <1>8 DEF ShadowInv

\* A repurchase, whose update is under way.
LEMMA BuyShadow ==
    ASSUME RankTypes, ShadowInv, Buy
    PROVE  ShadowInv'
<1>1. TablesTyped(db) /\ deltas \subseteq DOMAIN db.buys /\ lost \subseteq DOMAIN db.buys /\ deltas \cap lost = {}
      /\ exclusions \in Nat
  BY DEF RankTypes, ShadowInv
<1>2. PICK m \in Buyers, n \in Amounts :
         /\ db' = [db EXCEPT !.buys = Append(@, [uid |-> m, points |-> n])]
         /\ deltas' = deltas \cup {Len(db'.buys)}
         /\ UNCHANGED <<shadow, releasing, lost, released, exclusions>>
  BY DEF Buy
<1>3. db' = [buys |-> Append(db.buys, [uid |-> m, points |-> n]), achieved |-> db.achieved, own |-> db.own,
             global |-> db.global, ranking |-> db.ranking, counter |-> db.counter, excluded |-> db.excluded]
  BY <1>1, <1>2, TableExcept
<1>4. PICK b : b = Append(db.buys, [uid |-> m, points |-> n])
  OBVIOUS
<1>5. /\ DOMAIN b = 1 .. Len(db.buys) + 1 /\ Len(b) = Len(db.buys) + 1
      /\ DOMAIN db.buys = 1 .. Len(db.buys) /\ Len(db.buys) \in Nat
      /\ \A e \in DOMAIN db.buys : b[e] = db.buys[e]
  <2>1. db.buys \in Seq(BuyRow)
    BY <1>1 DEF TablesTyped
  <2>2. [uid |-> m, points |-> n] \in BuyRow
    BY RankFacts DEF BuyRow
  <2>. QED
    BY <1>4, <2>1, <2>2
<1>6. db'.buys = b /\ db'.global = db.global
  BY <1>3, <1>4
<1>7. deltas' = deltas \cup {Len(b)}
  BY <1>2, <1>6
<1>8. /\ \A e \in DOMAIN db.buys : e \in DOMAIN db'.buys /\ db'.buys[e] = db.buys[e]
      /\ DOMAIN db'.buys = 1 .. Len(db.buys) + 1
  BY <1>5, <1>6
<1>9. /\ deltas' \subseteq DOMAIN db'.buys /\ lost' \subseteq DOMAIN db'.buys /\ deltas' \cap lost' = {}
      /\ DOMAIN db'.buys \ (deltas' \cup lost') = DOMAIN db.buys \ (deltas \cup lost)
  <2>1. DOMAIN db'.buys = DOMAIN db.buys \cup {Len(b)} /\ Len(b) \notin DOMAIN db.buys
    BY <1>5, <1>8
  <2>. QED
    BY <1>1, <1>2, <1>7, <2>1
<1>. QED
  BY <1>1, <1>2, <1>6, <1>8, <1>9, ShadowStays

\* An update that is lost.
LEMMA LoseShadow ==
    ASSUME RankTypes, ShadowInv, LoseDelta
    PROVE  ShadowInv'
<1>1. deltas \subseteq DOMAIN db.buys /\ lost \subseteq DOMAIN db.buys /\ deltas \cap lost = {} /\ exclusions \in Nat
  BY DEF ShadowInv
<1>2. PICK e \in deltas :
         /\ deltas' = deltas \ {e} /\ lost' = lost \cup {e}
         /\ UNCHANGED <<db, shadow, releasing, released, exclusions>>
  BY DEF LoseDelta
<1>3. /\ deltas' \subseteq DOMAIN db'.buys /\ lost' \subseteq DOMAIN db'.buys /\ deltas' \cap lost' = {}
      /\ DOMAIN db'.buys \ (deltas' \cup lost') = DOMAIN db.buys \ (deltas \cup lost)
  BY <1>1, <1>2
<1>. QED
  BY <1>1, <1>2, <1>3, ShadowStays

\* The steps that leave the repurchases and the global consumption alone.
LEMMA OtherShadow ==
    ASSUME RankTypes, ShadowInv, db'.buys = db.buys, db'.global = db.global,
           UNCHANGED <<shadow, deltas, lost, released>>, exclusions' \in Nat, exclusions <= exclusions',
           \A m \in Members : releasing'[m] = "flagged" => releasing[m] = "flagged" \/ exclusions < exclusions'
    PROVE  ShadowInv'
<1>1. deltas \subseteq DOMAIN db.buys /\ lost \subseteq DOMAIN db.buys /\ deltas \cap lost = {}
  BY DEF ShadowInv
<1>. QED
  BY <1>1, ShadowStays

\* The consumption of a refresh is added for those above the buyers.
LEMMA CommitShadow ==
    ASSUME RankTypes, ShadowInv, NEW p, NEW at, NEW s, NEW taken, Committing(p, at, s, taken)
    PROVE  ShadowInv'
<1>. HIDE DEF Points, Later
<1>1. /\ TablesTyped(db) /\ ReturnedTyped(db, released) /\ exclusions \in Nat
      /\ deltas \subseteq DOMAIN db.buys /\ lost \subseteq DOMAIN db.buys /\ deltas \cap lost = {}
      /\ Reconciled(db, shadow, deltas, lost, released)
      /\ shadow = [m \in Members |-> [gross |-> shadow[m].gross, consumed |-> shadow[m].consumed]]
      /\ \A x \in released : /\ x.at <= exclusions
                             /\ releasing[x.row.m] = "flagged" => x.at < exclusions
  BY DEF RankTypes, ShadowInv
<1>2. /\ db'.buys = db.buys /\ db'.global = db.global \cup taken
      /\ shadow' = [m \in Members |-> [shadow[m] EXCEPT !.consumed =
                       @ + Points({g \in taken : m \in Chain(s.buys[g.event].uid)})]]
      /\ UNCHANGED <<deltas, releasing, lost, released, exclusions>>
  BY DEF Committing
<1>3. /\ taken \subseteq s.global /\ taken \cap db.global = {}
      /\ TablesTyped(s) /\ s.buys = at.buys /\ Before(at, db)
  BY DEF Committing, RebuildInv, Extends
<1>4. /\ IsFiniteSet(taken) /\ IsFiniteSet(db.global)
      /\ \A g \in taken \cup db.global : g \in GlobalRow /\ g.points \in Nat
      /\ \A g \in taken : g.event \in DOMAIN db.buys /\ s.buys[g.event] = db.buys[g.event]
                          /\ db.buys[g.event].uid \in Members
      /\ \A g \in db.global : g.event \in DOMAIN db.buys
  <2>1. /\ s.global \subseteq GlobalRow /\ IsFiniteSet(s.global) /\ \A x \in s.global : x.event \in DOMAIN s.buys
        /\ db.global \subseteq GlobalRow /\ IsFiniteSet(db.global) /\ db.buys \in Seq(BuyRow)
        /\ \A x \in db.global : x.event \in DOMAIN db.buys
    BY <1>1, <1>3 DEF TablesTyped
  <2>2. IsFiniteSet(taken)
    BY <1>3, <2>1, FS_Subset
  <2>3. \A g \in taken : g.event \in DOMAIN db.buys /\ s.buys[g.event] = db.buys[g.event]
    BY <1>3, <2>1 DEF Before
  <2>4. \A e \in DOMAIN db.buys : db.buys[e].uid \in Members
    BY <2>1, EventFacts
  <2>. QED
    BY <1>3, <2>1, <2>2, <2>3, <2>4 DEF GlobalRow
<1>5. ASSUME NEW m \in Members
      PROVE  /\ shadow'[m].gross = Gross(db, Counted(db, deltas, lost, m))
             /\ shadow'[m].consumed = Points(Open(db', m)) + Returned(Back(db, released, m))
             /\ shadow'[m] = [gross |-> shadow'[m].gross, consumed |-> shadow'[m].consumed]
  <2>1. PICK T : T = {g \in taken : db.buys[g.event].uid \in Below[m]}
    OBVIOUS
  <2>2. {g \in taken : m \in Chain(s.buys[g.event].uid)} = T
    <3>1. \A g \in taken : m \in Chain(s.buys[g.event].uid) <=> db.buys[g.event].uid \in Below[m]
      <4>1. \A u \in Members : m \in Chain(u) <=> u \in Below[m]
        BY RankFacts
      <4>. QED
        BY <1>4, <4>1
    <3>. QED
      BY <2>1, <3>1
  <2>3. PICK n : n = Points(T)
    OBVIOUS
  <2>4. Points({g \in taken : m \in Chain(s.buys[g.event].uid)}) = n
    BY <2>2, <2>3
  <2>5. shadow'[m] = [shadow[m] EXCEPT !.consumed = @ + n]
    BY <1>2, <2>4
  <2>6. PICK gr, co : shadow[m] = [gross |-> gr, consumed |-> co]
    BY <1>1
  <2>7. shadow'[m] = [gross |-> gr, consumed |-> co + n]
    BY <2>5, <2>6
  <2>8. PICK S : S = Open(db, m)
    OBVIOUS
  <2>9. Open(db', m) = S \cup T
    BY <1>2, <2>1, <2>8 DEF Open
  <2>10. /\ IsFiniteSet(S) /\ IsFiniteSet(T) /\ S \cap T = {} /\ \A g \in S \cup T : g.points \in Nat
    <3>1. S \subseteq db.global /\ T \subseteq taken
      BY <2>1, <2>8 DEF Open
    <3>2. IsFiniteSet(S) /\ IsFiniteSet(T)
      BY <1>4, <3>1, FS_Subset
    <3>. QED
      BY <1>3, <1>4, <3>1, <3>2
  <2>11. Points(S \cup T) = Points(S) + Points(T)
    BY <2>10, PointsUnion
  <2>12. Points(S) \in Nat /\ Points(T) \in Nat
    BY <2>10, PointsNat
  <2>13. PICK r : r = Returned(Back(db, released, m))
    OBVIOUS
  <2>14. r \in Nat
    <3>1. Back(db, released, m) \in SUBSET released
      BY DEF Back
    <3>. QED
      BY <1>1, <2>13, <3>1, ReturnedSum
  <2>15. gr = Gross(db, Counted(db, deltas, lost, m)) /\ co = Points(S) + r
    BY <1>1, <2>6, <2>8, <2>13 DEF Reconciled
  <2>16. co + n = Points(S \cup T) + r
    BY <2>3, <2>11, <2>12, <2>14, <2>15
  <2>. QED
    BY <2>7, <2>9, <2>13, <2>15, <2>16
<1>6. PICK t : t = db'
  OBVIOUS
<1>7. ASSUME NEW m \in Members
      PROVE  /\ Gross(t, Counted(t, deltas, lost, m)) = Gross(db, Counted(db, deltas, lost, m))
             /\ Back(t, released, m) = Back(db, released, m)
  BY <1>2, <1>6 DEF Gross, Counted, Back
<1>8. Reconciled(t, shadow', deltas', lost', released')
  BY <1>2, <1>5, <1>6, <1>7 DEF Reconciled
<1>9. ReturnedTyped(t, released')
  BY <1>1, <1>2, <1>6 DEF ReturnedTyped
<1>10. shadow' = [m \in Members |-> [gross |-> shadow'[m].gross, consumed |-> shadow'[m].consumed]]
  BY <1>2, <1>5
<1>11. /\ deltas' \subseteq DOMAIN db'.buys /\ lost' \subseteq DOMAIN db'.buys /\ deltas' \cap lost' = {}
       /\ exclusions' \in Nat
       /\ \A x \in released' : /\ x.at <= exclusions'
                               /\ releasing'[x.row.m] = "flagged" => x.at < exclusions'
  BY <1>1, <1>2
<1>. QED
  BY <1>6, <1>8, <1>9, <1>10, <1>11 DEF ShadowInv

\* The rows given back move from those that are there to those that were.
LEMMA ReleaseShadow ==
    ASSUME RankTypes, ShadowInv, NEW m0 \in Members, ReleaseGlobal(m0)
    PROVE  ShadowInv'
<1>. HIDE DEF Points
<1>1. /\ TablesTyped(db) /\ ReturnedTyped(db, released) /\ exclusions \in Nat
      /\ releasing \in [Members -> {"none", "flagged", "global", "own"}]
      /\ deltas \subseteq DOMAIN db.buys /\ lost \subseteq DOMAIN db.buys /\ deltas \cap lost = {}
      /\ Reconciled(db, shadow, deltas, lost, released)
      /\ \A x \in released : /\ x.at <= exclusions
                             /\ releasing[x.row.m] = "flagged" => x.at < exclusions
  BY DEF RankTypes, ShadowInv
<1>2. PICK G : G = {g \in db.global : g.m # m0}
  OBVIOUS
<1>3. PICK D : D = db.global \ G
  OBVIOUS
<1>4. PICK N : N = {[row |-> g, at |-> exclusions] : g \in D}
  OBVIOUS
<1>5. db'.buys = db.buys /\ db'.global = G
  <2>1. db' = [db EXCEPT !.global = G]
    BY <1>2 DEF ReleaseGlobal
  <2>2. db' = [buys |-> db.buys, achieved |-> db.achieved, own |-> db.own, global |-> G,
               ranking |-> db.ranking, counter |-> db.counter, excluded |-> db.excluded]
    BY <1>1, <2>1, TableExcept
  <2>. QED
    BY <2>2
<1>6. /\ releasing[m0] = "flagged" /\ releasing' = [releasing EXCEPT ![m0] = "global"]
      /\ released' = released \cup N
      /\ UNCHANGED <<shadow, deltas, lost, exclusions>>
  <2>1. db.global \ db'.global = D
    BY <1>3, <1>5
  <2>. QED
    BY <1>4, <2>1 DEF ReleaseGlobal
<1>7. /\ IsFiniteSet(D) /\ IsFiniteSet(G) /\ D \cap G = {} /\ D \cup G = db.global
      /\ \A g \in db.global : g \in GlobalRow /\ g.event \in DOMAIN db.buys /\ g.points \in Nat
      /\ \A g \in D : g.m = m0
  <2>1. IsFiniteSet(db.global) /\ db.global \subseteq GlobalRow /\ \A g \in db.global : g.event \in DOMAIN db.buys
    BY <1>1 DEF TablesTyped
  <2>2. IsFiniteSet(D) /\ IsFiniteSet(G)
    <3>1. D \subseteq db.global /\ G \subseteq db.global
      BY <1>2, <1>3
    <3>. QED
      BY <2>1, <3>1, FS_Subset
  <2>. QED
    BY <1>2, <1>3, <2>1, <2>2 DEF GlobalRow
<1>8. \A x \in N : /\ x = [row |-> x.row, at |-> x.at] /\ x.row \in D /\ x.at = exclusions /\ x \notin released
  <2>1. \A x \in N : x = [row |-> x.row, at |-> x.at] /\ x.row \in D /\ x.at = exclusions
    BY <1>4
  <2>2. \A x \in released : x.row.m = m0 => x.at < exclusions
    BY <1>1, <1>6
  <2>3. \A x \in released : x.at \in Nat
    BY <1>1 DEF ReturnedTyped
  <2>4. ASSUME NEW x \in N, x \in released
        PROVE  FALSE
    BY <1>1, <1>7, <2>1, <2>2, <2>3, <2>4
  <2>. QED
    BY <2>1, <2>4
<1>9. IsFiniteSet(N)
  <2>1. PICK f : f = [g \in D |-> [row |-> g, at |-> exclusions]]
    OBVIOUS
  <2>2. f \in Surjection(D, N)
    BY <1>4, <2>1 DEF Surjection
  <2>. QED
    BY <1>7, <2>2, FS_Surjection
<1>10. IsFiniteSet(released \cup N)
  <2>1. IsFiniteSet(released)
    BY <1>1 DEF ReturnedTyped
  <2>. QED
    BY <1>9, <2>1, FS_Union
<1>11. ReturnedTyped(db, released \cup N)
  <2>1. \A x \in N : x.row \in GlobalRow /\ x.row.event \in DOMAIN db.buys /\ x.at \in Nat
    BY <1>1, <1>7, <1>8
  <2>2. \A x \in released \cup N : /\ x = [row |-> x.row, at |-> x.at]
                      /\ x.row \in GlobalRow /\ x.row.event \in DOMAIN db.buys
                      /\ x.at \in Nat
    BY <1>1, <1>8, <2>1 DEF ReturnedTyped
  <2>. QED
    BY <1>10, <2>2 DEF ReturnedTyped
<1>12. ASSUME NEW m \in Members
       PROVE  Points(Open(db, m)) + Returned(Back(db, released, m))
                = Points(Open(db', m)) + Returned(Back(db, released \cup N, m))
  <2>1. PICK K : K = {g \in D : db.buys[g.event].uid \in Below[m]}
    OBVIOUS
  <2>2. PICK S : S = Open(db', m)
    OBVIOUS
  <2>3. PICK B : B = Back(db, released, m)
    OBVIOUS
  <2>4. PICK M : M = {x \in N : db.buys[x.row.event].uid \in Below[m]}
    OBVIOUS
  <2>5. S = {g \in G : db.buys[g.event].uid \in Below[m]}
    BY <1>5, <2>2 DEF Open
  <2>6. Open(db, m) = S \cup K
    BY <1>7, <2>1, <2>5 DEF Open
  <2>7. Back(db, released \cup N, m) = B \cup M
    BY <2>3, <2>4 DEF Back
  <2>8. /\ IsFiniteSet(S) /\ IsFiniteSet(K) /\ S \cap K = {} /\ \A g \in S \cup K : g.points \in Nat
    <3>1. S \subseteq G /\ K \subseteq D
      BY <2>1, <2>5
    <3>2. IsFiniteSet(S) /\ IsFiniteSet(K)
      BY <1>7, <3>1, FS_Subset
    <3>. QED
      BY <1>7, <3>1, <3>2
  <2>9. Points(S \cup K) = Points(S) + Points(K) /\ Points(S) \in Nat /\ Points(K) \in Nat
    <3>1. Points(S \cup K) = Points(S) + Points(K)
      BY <2>8, PointsUnion
    <3>2. Points(S) \in Nat /\ Points(K) \in Nat
      BY <2>8, PointsNat
    <3>. QED
      BY <3>1, <3>2
  <2>10. /\ IsFiniteSet(B) /\ IsFiniteSet(M) /\ B \cap M = {}
         /\ \A x \in B \cup M : x.row.points \in Nat
    <3>1. B \subseteq released /\ M \subseteq N
      BY <2>3, <2>4 DEF Back
    <3>2. IsFiniteSet(released)
      BY <1>1 DEF ReturnedTyped
    <3>3. IsFiniteSet(B) /\ IsFiniteSet(M)
      BY <1>9, <3>1, <3>2, FS_Subset
    <3>4. \A x \in released \cup N : x.row.points \in Nat
      BY <1>11 DEF ReturnedTyped, GlobalRow
    <3>. QED
      BY <1>8, <3>1, <3>3, <3>4
  <2>11. PICK f : f = [x \in B \cup M |-> x.row.points]
    OBVIOUS
  <2>12. PICK g : g = [x \in B |-> x.row.points]
    OBVIOUS
  <2>13. PICK h : h = [x \in M |-> x.row.points]
    OBVIOUS
  <2>14. \A x \in B \cup M : f[x] \in Int
    BY <2>10, <2>11
  <2>15. SumFunctionOnSet(f, B \cup M) = SumFunctionOnSet(f, B) + SumFunctionOnSet(f, M)
    BY <2>10, <2>14, SumUnion
  <2>16. SumFunctionOnSet(f, B) = SumFunctionOnSet(g, B)
    BY <2>10, <2>11, <2>12, SumSame
  <2>17. SumFunctionOnSet(f, M) = SumFunctionOnSet(h, M)
    BY <2>10, <2>11, <2>13, SumSame
  <2>18. Returned(B \cup M) = Returned(B) + Returned(M)
    BY <2>11, <2>12, <2>13, <2>15, <2>16, <2>17 DEF Returned
  <2>19. Returned(M) = Points(K)
    <3>1. PICK v : v = [x \in M |-> x.row]
      OBVIOUS
    <3>2. v \in Bijection(M, K)
      <4>1. \A x \in M : x.row \in K
        BY <1>8, <2>1, <2>4
      <4>2. \A y \in K : \E x \in M : x.row = y
        <5>1. ASSUME NEW y \in K
              PROVE  \E x \in M : x.row = y
          <6>1. PICK x : x = [row |-> y, at |-> exclusions]
            OBVIOUS
          <6>2. x \in N
            BY <1>4, <2>1, <6>1
          <6>. QED
            BY <2>1, <2>4, <6>1, <6>2
        <5>. QED
          BY <5>1
      <4>3. \A x, y \in M : x.row = y.row => x = y
        BY <1>8, <2>4
      <4>4. v \in [M -> K] /\ (\A x, y \in M : v[x] = v[y] => x = y) /\ \A y \in K : \E x \in M : v[x] = y
        BY <3>1, <4>1, <4>2, <4>3
      <4>5. v \in Injection(M, K)
        BY <4>4 DEF Injection, IsInjective
      <4>6. v \in Surjection(M, K)
        BY <4>4 DEF Surjection
      <4>. QED
        BY <4>5, <4>6 DEF Bijection
    <3>3. PICK w : w = [y \in K |-> y.points]
      OBVIOUS
    <3>4. \A x \in M : h[x] = w[v[x]] /\ h[x] \in Int
      <4>1. \A x \in M : x.row \in K /\ x.row.points \in Nat
        BY <1>8, <2>1, <2>4, <2>10
      <4>. QED
        BY <2>13, <3>1, <3>3, <4>1
    <3>5. SumFunctionOnSet(h, M) = SumFunctionOnSet(w, K)
      BY <2>8, <3>2, <3>4, SumRenamed
    <3>. QED
      BY <2>13, <3>3, <3>5 DEF Returned, Points
  <2>20. Returned(B) \in Nat
    <3>1. B \in SUBSET released
      BY <2>3 DEF Back
    <3>. QED
      BY <1>1, <3>1, ReturnedSum
  <2>21. PICK a, b, c : a = Points(S) /\ b = Points(K) /\ c = Returned(B)
    OBVIOUS
  <2>22. Points(S \cup K) + c = a + Returned(B \cup M)
    BY <2>9, <2>18, <2>19, <2>20, <2>21
  <2>. QED
    BY <2>2, <2>3, <2>6, <2>7, <2>21, <2>22
<1>13. PICK t : t = db'
  OBVIOUS
<1>14. ASSUME NEW m \in Members
       PROVE  /\ Gross(t, Counted(t, deltas, lost, m)) = Gross(db, Counted(db, deltas, lost, m))
              /\ Back(t, released \cup N, m) = Back(db, released \cup N, m)
  BY <1>5, <1>13 DEF Gross, Counted, Back
<1>15. Reconciled(t, shadow', deltas', lost', released')
  <2>1. \A m \in Members : /\ shadow[m].gross = Gross(db, Counted(db, deltas, lost, m))
                           /\ shadow[m].consumed = Points(Open(db, m)) + Returned(Back(db, released, m))
    BY <1>1 DEF Reconciled
  <2>2. \A m \in Members : /\ shadow[m].gross = Gross(t, Counted(t, deltas, lost, m))
                           /\ shadow[m].consumed = Points(Open(t, m)) + Returned(Back(t, released \cup N, m))
    BY <1>12, <1>13, <1>14, <2>1
  <2>. QED
    BY <1>6, <2>2 DEF Reconciled
<1>16. ReturnedTyped(t, released')
  BY <1>5, <1>6, <1>11, <1>13 DEF ReturnedTyped
<1>17. \A x \in released' : /\ x.at <= exclusions'
                            /\ releasing'[x.row.m] = "flagged" => x.at < exclusions'
  <2>1. \A x \in released : x.at <= exclusions /\ (releasing'[x.row.m] = "flagged" => x.at < exclusions)
    <3>1. \A x \in released : x.row.m \in Members
      BY <1>1 DEF ReturnedTyped, GlobalRow
    <3>. QED
      BY <1>1, <1>6, <3>1
  <2>2. \A x \in N : x.at <= exclusions /\ releasing'[x.row.m] # "flagged"
    BY <1>1, <1>6, <1>7, <1>8
  <2>. QED
    BY <1>6, <2>1, <2>2
<1>18. shadow' = [m \in Members |-> [gross |-> shadow'[m].gross, consumed |-> shadow'[m].consumed]]
  BY <1>6 DEF ShadowInv
<1>. QED
  BY <1>1, <1>5, <1>6, <1>13, <1>15, <1>16, <1>17, <1>18 DEF ShadowInv

\* What is handed over is no repurchase and no consumption.
LEMMA FulfilTables ==
    ASSUME TablesTyped(db), Fulfil
    PROVE  db'.buys = db.buys /\ db'.global = db.global
<1>. DEFINE P(m) == {x \in db.achieved : x.m = m /\ x.status = "pending"}
            L(m) == CHOOSE x \in P(m) : \A y \in P(m) : x.rank <= y.rank
<1>1. PICK m \in Fulfilled :
         db' = [db EXCEPT !.achieved = (@ \ {L(m)}) \cup {[L(m) EXCEPT !.status = "fulfilled"]},
                          !.ranking[m].pending = Cardinality(P(m)) - 1]
  BY Zenon DEF Fulfil
<1>2. PICK a, v : a = L(m) /\ v = Cardinality(P(m)) - 1
  OBVIOUS
<1>. HIDE DEF P, L
<1>3. PICK b : b = [a EXCEPT !.status = "fulfilled"]
  OBVIOUS
<1>4. db' = [db EXCEPT !.achieved = (@ \ {a}) \cup {b}, !.ranking[m].pending = v]
  BY <1>1, <1>2, <1>3
<1>5. PICK buys, achieved, own, global, ranking, counter, excluded :
          db = [buys |-> buys, achieved |-> achieved, own |-> own, global |-> global,
                ranking |-> ranking, counter |-> counter, excluded |-> excluded]
  BY DEF TablesTyped
<1>. QED
  BY <1>4, <1>5

\* Every step of the ranking race.
LEMMA ShadowStep == RankInv /\ ShadowInv /\ [Next]_vars => ShadowInv'
<1>. SUFFICES ASSUME RankInv, ShadowInv, [Next]_vars
              PROVE  ShadowInv'
  OBVIOUS
<1>0. /\ RankTypes /\ Snapshots /\ TablesTyped(db) /\ exclusions \in Nat
      /\ releasing \in [Members -> {"none", "flagged", "global", "own"}]
  BY DEF RankInv, RankTypes, ShadowInv
<1>1. CASE Buy
  BY <1>0, <1>1, BuyShadow
<1>2. CASE Propagate
  BY <1>0, <1>2, PropagateShadow
<1>3. CASE LoseDelta
  BY <1>0, <1>3, LoseShadow
<1>4. ASSUME NEW p \in Procs, Commit(p)
      PROVE  ShadowInv'
  <2>1. PICK at, s, taken : Committing(p, at, s, taken)
    BY <1>0, <1>4, CommitIs
  <2>. QED
    BY <1>0, <2>1, CommitShadow
<1>5. ASSUME NEW m \in Members, ReleaseGlobal(m)
      PROVE  ShadowInv'
  BY <1>0, <1>5, ReleaseShadow
<1>6. CASE UNCHANGED vars \/ \E p \in Procs : Refresh(p) \/ Abort(p)
  <2>1. db' = db /\ releasing' = releasing /\ UNCHANGED <<shadow, deltas, lost, released, exclusions>>
    BY <1>6 DEF vars, Refresh, Abort
  <2>. QED
    BY <1>0, <2>1, OtherShadow
<1>7. CASE Fulfil
  <2>1. db'.buys = db.buys /\ db'.global = db.global
    BY <1>0, <1>7, FulfilTables
  <2>2. UNCHANGED <<shadow, deltas, releasing, lost, released, exclusions>>
    BY <1>7 DEF Fulfil
  <2>. QED
    BY <1>0, <2>1, <2>2, OtherShadow
<1>8. ASSUME NEW m \in Members, Flag(m) \/ Unflag(m) \/ ReleaseOwn(m) \/ ReleaseRanks(m)
      PROVE  ShadowInv'
  <2>1. /\ UNCHANGED <<shadow, deltas, lost, released>> /\ exclusions' \in Nat /\ exclusions <= exclusions'
        /\ \A q \in Members : releasing'[q] = "flagged" => releasing[q] = "flagged" \/ exclusions < exclusions'
    BY <1>0, <1>8 DEF Flag, Unflag, ReleaseOwn, ReleaseRanks
  <2>2. \/ \E x : db' = [db EXCEPT !.excluded = x]
        \/ \E x : db' = [db EXCEPT !.own = x]
        \/ \E x : db' = [db EXCEPT !.achieved = x]
    <3>1. CASE Flag(m)
      BY <3>1 DEF Flag
    <3>2. CASE Unflag(m)
      BY <3>2 DEF Unflag
    <3>3. CASE ReleaseOwn(m)
      BY <3>3 DEF ReleaseOwn
    <3>4. CASE ReleaseRanks(m)
      BY <3>4 DEF ReleaseRanks
    <3>. QED
      BY <1>8, <3>1, <3>2, <3>3, <3>4
  <2>3. db'.buys = db.buys /\ db'.global = db.global
    <3>1. CASE \E x : db' = [db EXCEPT !.excluded = x]
      <4>1. PICK x : db' = [db EXCEPT !.excluded = x]
        BY <3>1
      <4>2. db' = [buys |-> db.buys, achieved |-> db.achieved, own |-> db.own, global |-> db.global,
                   ranking |-> db.ranking, counter |-> db.counter, excluded |-> x]
        BY <1>0, <4>1, TableExcept
      <4>. QED
        BY <4>2
    <3>2. CASE \E x : db' = [db EXCEPT !.own = x]
      <4>1. PICK x : db' = [db EXCEPT !.own = x]
        BY <3>2
      <4>2. db' = [buys |-> db.buys, achieved |-> db.achieved, own |-> x, global |-> db.global,
                   ranking |-> db.ranking, counter |-> db.counter, excluded |-> db.excluded]
        BY <1>0, <4>1, TableExcept
      <4>. QED
        BY <4>2
    <3>3. CASE \E x : db' = [db EXCEPT !.achieved = x]
      <4>1. PICK x : db' = [db EXCEPT !.achieved = x]
        BY <3>3
      <4>2. db' = [buys |-> db.buys, achieved |-> x, own |-> db.own, global |-> db.global,
                   ranking |-> db.ranking, counter |-> db.counter, excluded |-> db.excluded]
        BY <1>0, <4>1, TableExcept
      <4>. QED
        BY <4>2
    <3>. QED
      BY <2>2, <3>1, <3>2, <3>3
  <2>. QED
    BY <1>0, <2>1, <2>3, OtherShadow
<1>. QED
  BY <1>1, <1>2, <1>3, <1>4, <1>5, <1>6, <1>7, <1>8 DEF Next

\* Nothing has been bought or consumed at first.
LEMMA ShadowInit == AwardsInit => ShadowInv
<1>. SUFFICES ASSUME AwardsInit
              PROVE  ShadowInv
  OBVIOUS
<1>1. /\ db = Empty /\ shadow = [m \in Members |-> [gross |-> 0, consumed |-> 0]]
      /\ deltas = {} /\ lost = {} /\ released = {} /\ exclusions = 0
  BY DEF AwardsInit, Init
<1>2. db.buys = <<>> /\ db.global = {}
  BY <1>1 DEF Empty
<1>3. ReturnedTyped(db, released)
  BY <1>1, FS_EmptySet DEF ReturnedTyped
<1>4. ASSUME NEW m \in Members
      PROVE  /\ Gross(db, Counted(db, deltas, lost, m)) = 0
             /\ Points(Open(db, m)) = 0 /\ Returned(Back(db, released, m)) = 0
  <2>1. Counted(db, deltas, lost, m) = {} /\ Open(db, m) = {} /\ Back(db, released, m) = {}
    BY <1>1, <1>2 DEF Counted, Open, Back
  <2>. QED
    BY <2>1, PointsNone, SumEmpty DEF Gross, Returned
<1>5. \A m \in Members : shadow[m] = [gross |-> 0, consumed |-> 0]
  BY <1>1
<1>6. Reconciled(db, shadow, deltas, lost, released)
  BY <1>4, <1>5 DEF Reconciled
<1>7. shadow = [m \in Members |-> [gross |-> shadow[m].gross, consumed |-> shadow[m].consumed]]
  BY <1>1
<1>. QED
  BY <1>1, <1>3, <1>6, <1>7 DEF ShadowInv

\* The incremental points are what the events and the consumption make of them.
\* (applyRepurchaseDelta, applyConsumptionDelta)
THEOREM IncrementalPointsReconcile == AwardsSpec => []ShadowReconciles
<1>1. RankInv /\ ShadowInv /\ [NextRanking \/ NextBonus]_awardsVars => ShadowInv'
  <2>1. [NextRanking \/ NextBonus]_awardsVars => [Next]_vars
    BY AwardSteps
  <2>. QED
    BY <2>1, ShadowStep
<1>2. ShadowInv => ShadowReconciles
  BY ShadowParts DEF ShadowInv
<1>. QED
  BY <1>1, <1>2, ShadowInit, RankInvariant, PTL DEF AwardsSpec

-----------------------------------------------------------------------------
\* The tables and the snapshots of refreshes are tidy.
RankTidy ==
    /\ Tidy(db)
    /\ \A p \in Procs : refresh[p] # Idle => Tidy(refresh[p].at)

\* Tables from which rows are only deleted stay tidy.
LEMMA TidyDeleted ==
    ASSUME NEW s, NEW t, Tidy(s), t.own \subseteq s.own, t.global \subseteq s.global,
           t.ranking = s.ranking, t.excluded \subseteq Members
    PROVE  Tidy(t)
BY DEF Tidy

\* The award handed over is one pending less to show.
LEMMA FulfilTidy ==
    ASSUME TablesTyped(db), Tidy(db), Fulfil
    PROVE  Tidy(db')
<1>. DEFINE P(m) == {x \in db.achieved : x.m = m /\ x.status = "pending"}
            L(m) == CHOOSE x \in P(m) : \A y \in P(m) : x.rank <= y.rank
<1>1. PICK m \in Fulfilled :
         db' = [db EXCEPT !.achieved = (@ \ {L(m)}) \cup {[L(m) EXCEPT !.status = "fulfilled"]},
                          !.ranking[m].pending = Cardinality(P(m)) - 1]
  BY Zenon DEF Fulfil
<1>2. PICK a, v : a = L(m) /\ v = Cardinality(P(m)) - 1
  OBVIOUS
<1>. HIDE DEF P, L
<1>3. PICK b : b = [a EXCEPT !.status = "fulfilled"]
  OBVIOUS
<1>4. db' = [db EXCEPT !.achieved = (@ \ {a}) \cup {b}, !.ranking[m].pending = v]
  BY <1>1, <1>2, <1>3
<1>5. PICK buys, achieved, own, global, ranking, counter, excluded :
          db = [buys |-> buys, achieved |-> achieved, own |-> own, global |-> global,
                ranking |-> ranking, counter |-> counter, excluded |-> excluded]
  BY DEF TablesTyped
<1>6. m \in Members
  BY RankingAssumption
<1>7. PICK A : A = (achieved \ {a}) \cup {b}
  OBVIOUS
<1>8. PICK R : R = [ranking EXCEPT ![m].pending = v]
  OBVIOUS
<1>9. db' = [buys |-> buys, achieved |-> A, own |-> own, global |-> global,
             ranking |-> R, counter |-> counter, excluded |-> excluded]
  BY <1>4, <1>5, <1>7, <1>8
<1>10. /\ db'.own = db.own /\ db'.global = db.global /\ db'.excluded = db.excluded
       /\ db'.ranking = R /\ db.ranking = ranking
  BY <1>5, <1>9
<1>t. /\ db.ranking = [x \in Members |-> db.ranking[x]]
      /\ \A x \in Members : /\ db.ranking[x] = [rank |-> db.ranking[x].rank, gross |-> db.ranking[x].gross,
                                                consumed |-> db.ranking[x].consumed,
                                                remaining |-> db.ranking[x].remaining,
                                                pending |-> db.ranking[x].pending]
                            /\ Row(db.ranking[x])
  BY DEF Tidy
<1>11. PICK k, gross, consumed, remaining, pending :
          ranking[m] = [rank |-> k, gross |-> gross, consumed |-> consumed,
                        remaining |-> remaining, pending |-> pending]
  <2>1. ranking[m] = [rank |-> ranking[m].rank, gross |-> ranking[m].gross, consumed |-> ranking[m].consumed,
                      remaining |-> ranking[m].remaining, pending |-> ranking[m].pending]
    BY <1>6, <1>10, <1>t
  <2>. QED
    BY <2>1
<1>12. /\ R = [x \in Members |-> R[x]]
       /\ R[m] = [rank |-> k, gross |-> gross, consumed |-> consumed, remaining |-> remaining, pending |-> v]
       /\ \A x \in Members : x # m => R[x] = ranking[x]
  <2>1. ranking = [x \in Members |-> ranking[x]]
    BY <1>10, <1>t
  <2>2. R = [ranking EXCEPT ![m] = [ranking[m] EXCEPT !.pending = v]]
    BY <1>8
  <2>3. PICK row : row = [ranking[m] EXCEPT !.pending = v]
    OBVIOUS
  <2>4. row = [rank |-> k, gross |-> gross, consumed |-> consumed, remaining |-> remaining, pending |-> v]
    BY <1>11, <2>3
  <2>5. R = [ranking EXCEPT ![m] = row]
    BY <2>2, <2>3
  <2>6. /\ R = [x \in Members |-> R[x]] /\ R[m] = row
        /\ \A x \in Members : x # m => R[x] = ranking[x]
    BY <1>6, <2>1, <2>5
  <2>. QED
    BY <2>4, <2>6
<1>13. Row(ranking[m])
  BY <1>6, <1>10, <1>t
<1>14. Row(R[m])
  BY <1>11, <1>12, <1>13 DEF Row
<1>. QED
  BY <1>6, <1>10, <1>12, <1>14 DEF Tidy

\* A commit adds rows of points, and shows what the rebuild or an earlier one did.
LEMMA CommitTidy ==
    ASSUME RankTypes, RankTidy, NEW p, NEW at, NEW s, NEW taken, Committing(p, at, s, taken)
    PROVE  RankTidy'
<1>1. Tidy(db) /\ Tidy(s)
  BY DEF RankTidy, Committing
<1>2. /\ db'.own = db.own \cup {Later(at, o) : o \in Added(at, s)}
      /\ db'.global = db.global \cup taken /\ taken \subseteq s.global
      /\ db'.excluded = db.excluded
      /\ db'.ranking = [m \in Members |-> db'.ranking[m]]
      /\ \A m \in Members : db'.ranking[m] = db.ranking[m] \/ db'.ranking[m] = s.ranking[m]
      /\ refresh' = [refresh EXCEPT ![p] = Idle]
  BY DEF Committing
<1>3. at.counter \in Int /\ db.counter \in Int /\ Added(at, s) \subseteq OwnRow /\ Added(at, s) \subseteq s.own
  BY CommitNumbers DEF Added
<1>4. \A o \in OwnRow : Later(at, o).points = o.points
  BY <1>3, LaterFacts
<1>. HIDE DEF Later
<1>5. \A x \in db'.own \cup db'.global : x.points > 0
  BY <1>1, <1>2, <1>3, <1>4 DEF Tidy
<1>6. \A m \in Members : /\ db'.ranking[m] = [rank |-> db'.ranking[m].rank, gross |-> db'.ranking[m].gross,
                                              consumed |-> db'.ranking[m].consumed,
                                              remaining |-> db'.ranking[m].remaining,
                                              pending |-> db'.ranking[m].pending]
                         /\ Row(db'.ranking[m])
  BY <1>1, <1>2 DEF Tidy
<1>7. Tidy(db')
  BY <1>1, <1>2, <1>5, <1>6 DEF Tidy
<1>8. \A q \in Procs : refresh'[q] # Idle => refresh'[q] = refresh[q]
  BY <1>2 DEF RankTypes
<1>. QED
  BY <1>7, <1>8 DEF RankTidy

\* Each step keeps them tidy,
LEMMA TidyStep == RankInv /\ RankTidy /\ [Next]_vars => RankTidy'
<1>. SUFFICES ASSUME RankInv, RankTidy, [Next]_vars
              PROVE  RankTidy'
  OBVIOUS
<1>0. /\ RankTypes /\ Snapshots /\ TablesTyped(db) /\ Tidy(db)
      /\ refresh = [p \in Procs |-> refresh[p]] /\ \A p \in Procs : RefreshTyped(refresh[p])
      /\ db.excluded \subseteq Members
  BY DEF RankInv, RankTypes, RankTidy, Tidy
<1>t. ASSUME Tidy(db'), UNCHANGED refresh
      PROVE  RankTidy'
  BY <1>t DEF RankTidy
<1>1. CASE UNCHANGED vars \/ Propagate \/ LoseDelta
  BY <1>0, <1>1, <1>t DEF vars, Propagate, LoseDelta
<1>2. CASE Buy
  <2>1. PICK x : db' = [db EXCEPT !.buys = x]
    BY <1>2 DEF Buy
  <2>2. db' = [buys |-> x, achieved |-> db.achieved, own |-> db.own, global |-> db.global,
               ranking |-> db.ranking, counter |-> db.counter, excluded |-> db.excluded]
    BY <1>0, <2>1, TableExcept
  <2>3. Tidy(db')
    BY <1>0, <2>2, TidyDeleted
  <2>. QED
    BY <1>2, <1>t, <2>3 DEF Buy
<1>3. CASE Fulfil
  <2>1. UNCHANGED refresh
    BY <1>3 DEF Fulfil
  <2>. QED
    BY <1>0, <1>3, <1>t, <2>1, FulfilTidy
<1>4. ASSUME NEW p \in Procs, Refresh(p)
      PROVE  RankTidy'
  <2>1. PICK m \in Refreshed : refresh' = [refresh EXCEPT ![p] = [uid |-> m, at |-> db, since |-> {}]]
    BY <1>4 DEF Refresh
  <2>2. db' = db
    BY <1>4 DEF Refresh
  <2>3. \A q \in Procs : refresh'[q] = refresh[q] \/ refresh'[q].at = db
    BY <1>0, <2>1
  <2>. QED
    BY <2>2, <2>3 DEF RankTidy
<1>5. ASSUME NEW p \in Procs, Commit(p)
      PROVE  RankTidy'
  <2>1. PICK at, s, taken : Committing(p, at, s, taken)
    BY <1>0, <1>5, CommitIs
  <2>. QED
    BY <1>0, <2>1, CommitTidy
<1>6. ASSUME NEW p \in Procs, Abort(p)
      PROVE  RankTidy'
  <2>1. refresh' = [refresh EXCEPT ![p] = Idle] /\ db' = db
    BY <1>6 DEF Abort
  <2>2. \A q \in Procs : refresh'[q] = refresh[q] \/ refresh'[q] = Idle
    BY <1>0, <2>1
  <2>. QED
    BY <2>1, <2>2 DEF RankTidy
<1>7. ASSUME NEW m \in Members, Flag(m) \/ Unflag(m)
      PROVE  RankTidy'
  <2>1. PICK x \in SUBSET Members : db' = [db EXCEPT !.excluded = x]
    <3>1. CASE Flag(m)
      <4>1. db' = [db EXCEPT !.excluded = db.excluded \cup {m}]
        BY <1>0, <3>1 DEF Flag, TablesTyped
      <4>. QED
        BY <1>0, <4>1
    <3>2. CASE Unflag(m)
      <4>1. db' = [db EXCEPT !.excluded = db.excluded \ {m}]
        BY <1>0, <3>2 DEF Unflag, TablesTyped
      <4>. QED
        BY <1>0, <4>1
    <3>. QED
      BY <1>7, <3>1, <3>2
  <2>2. db' = [buys |-> db.buys, achieved |-> db.achieved, own |-> db.own, global |-> db.global,
               ranking |-> db.ranking, counter |-> db.counter, excluded |-> x]
    BY <1>0, <2>1, TableExcept
  <2>3. Tidy(db')
    BY <1>0, <2>2, TidyDeleted
  <2>. QED
    BY <1>7, <1>t, <2>3 DEF Flag, Unflag
<1>8. ASSUME NEW m \in Members, ReleaseGlobal(m)
      PROVE  RankTidy'
  <2>1. PICK x : x = {g \in db.global : g.m # m}
    OBVIOUS
  <2>2. db' = [db EXCEPT !.global = x]
    BY <1>8, <2>1 DEF ReleaseGlobal
  <2>3. db' = [buys |-> db.buys, achieved |-> db.achieved, own |-> db.own, global |-> x,
               ranking |-> db.ranking, counter |-> db.counter, excluded |-> db.excluded]
    BY <1>0, <2>2, TableExcept
  <2>4. Tidy(db')
    BY <1>0, <2>1, <2>3, TidyDeleted
  <2>. QED
    BY <1>8, <1>t, <2>4 DEF ReleaseGlobal
<1>9. ASSUME NEW m \in Members, ReleaseOwn(m)
      PROVE  RankTidy'
  <2>1. PICK x : x = {o \in db.own : o.m # m}
    OBVIOUS
  <2>2. db' = [db EXCEPT !.own = x]
    BY <1>9, <2>1 DEF ReleaseOwn
  <2>3. db' = [buys |-> db.buys, achieved |-> db.achieved, own |-> x, global |-> db.global,
               ranking |-> db.ranking, counter |-> db.counter, excluded |-> db.excluded]
    BY <1>0, <2>2, TableExcept
  <2>4. Tidy(db')
    BY <1>0, <2>1, <2>3, TidyDeleted
  <2>. QED
    BY <1>9, <1>t, <2>4 DEF ReleaseOwn
<1>10. ASSUME NEW m \in Members, ReleaseRanks(m)
       PROVE  RankTidy'
  <2>1. PICK x : x = {a \in db.achieved : a.m # m}
    OBVIOUS
  <2>2. db' = [db EXCEPT !.achieved = x]
    BY <1>10, <2>1 DEF ReleaseRanks
  <2>3. db' = [buys |-> db.buys, achieved |-> x, own |-> db.own, global |-> db.global,
               ranking |-> db.ranking, counter |-> db.counter, excluded |-> db.excluded]
    BY <1>0, <2>2, TableExcept
  <2>4. Tidy(db')
    BY <1>0, <2>3, TidyDeleted
  <2>5. refresh' = [p \in Procs |-> IF refresh[p] = Idle THEN Idle
                                    ELSE [refresh[p] EXCEPT !.since = @ \cup {m}]]
    BY <1>10 DEF ReleaseRanks
  <2>6. ASSUME NEW p \in Procs, refresh'[p] # Idle
        PROVE  refresh[p] # Idle /\ refresh'[p].at = refresh[p].at
    <3>1. refresh[p] # Idle /\ refresh'[p] = [refresh[p] EXCEPT !.since = @ \cup {m}]
      BY <2>5, <2>6
    <3>2. PICK uid, at, since : refresh[p] = [uid |-> uid, at |-> at, since |-> since]
      BY <1>0, <3>1 DEF RefreshTyped
    <3>3. refresh'[p] = [uid |-> uid, at |-> at, since |-> since \cup {m}]
      BY <3>1, <3>2
    <3>. QED
      BY <3>1, <3>2, <3>3
  <2>. QED
    BY <2>4, <2>6 DEF RankTidy
<1>. QED
  BY <1>1, <1>2, <1>3, <1>4, <1>5, <1>6, <1>7, <1>8, <1>9, <1>10 DEF Next

\* and they are at first.
LEMMA TidyInit == AwardsInit => RankTidy
<1>. SUFFICES ASSUME AwardsInit
              PROVE  RankTidy
  OBVIOUS
<1>1. db = Empty /\ refresh = [p \in Procs |-> Idle]
  BY DEF AwardsInit, Init
<1>2. Len(Required) \in Nat
  BY RankFacts
<1>3. Row(NoRow) /\ NoRow = [rank |-> NoRow.rank, gross |-> NoRow.gross, consumed |-> NoRow.consumed,
                             remaining |-> NoRow.remaining, pending |-> NoRow.pending]
  BY <1>2 DEF Row, NoRow
<1>4. /\ db.own = {} /\ db.global = {} /\ db.excluded = {}
      /\ db.ranking = [m \in Members |-> NoRow]
  BY <1>1 DEF Empty
<1>5. Tidy(db)
  BY <1>3, <1>4 DEF Tidy
<1>. QED
  BY <1>1, <1>5 DEF RankTidy

\* Awards, consumption and the rows of the ranking are of their types, and no
\* member is shown more points left than it has gained.  (upsertRankingSnapshot)
THEOREM RankingTyped == AwardsSpec => []TypeOK
<1>1. RankInv /\ RankTidy /\ [NextRanking \/ NextBonus]_awardsVars => RankTidy'
  BY AwardSteps, TidyStep
<1>2. RankInv /\ ShadowInv /\ [NextRanking \/ NextBonus]_awardsVars => ShadowInv'
  BY AwardSteps, ShadowStep
<1>3. RankInv /\ RankTidy /\ ShadowInv => TypeOK
  <2>. SUFFICES ASSUME RankInv, RankTidy, ShadowInv
                PROVE  TypeOK
    OBVIOUS
  <2>1. TablesTyped(db) /\ Numbered(db) /\ Tidy(db) /\ deltas \subseteq DOMAIN db.buys
    BY DEF RankInv, RankTypes, RankTidy, ShadowInv
  <2>2. db.buys \in Seq([uid : Members, points : Amounts])
    BY <2>1 DEF TablesTyped, BuyRow
  <2>3. \A a \in db.achieved : a.m \in Members /\ a.rank \in Ranks /\ a.seq < db.counter
    BY <2>1 DEF TablesTyped, Numbered, AwardRow
  <2>4. \A r \in db.own \cup db.global : r.m \in Members /\ r.event \in DOMAIN db.buys /\ r.points > 0
    BY <2>1 DEF TablesTyped, Tidy, OwnRow, GlobalRow
  <2>5. /\ \A m \in Members : /\ db.ranking[m].rank \in 0 .. Len(Required)
                              /\ db.ranking[m].remaining <= db.ranking[m].gross
        /\ db.excluded \subseteq Members
    BY <2>1 DEF Tidy, Row
  <2>. QED
    BY <2>1, <2>2, <2>3, <2>4, <2>5 DEF TypeOK
<1>. QED
  BY <1>1, <1>2, <1>3, TidyInit, ShadowInit, RankInvariant, PTL DEF AwardsSpec

=============================================================================
