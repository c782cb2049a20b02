------------------------------ MODULE Engines ------------------------------
(***************************************************************************)
(* The income engines (src/services/income: pairing, directReferral,       *)
(* leadership, unilevel), the placement tree they walk, and the pairing    *)
(* ledger kept beside the wallet (pairingTracker.js).                      *)
(*                                                                         *)
(* The wallet recomputes a member's whole pairing from usertab and pays    *)
(* what is above the stored total.  The tracker computes it again from     *)
(* the event and closure tables, one matched pair of events at a time.     *)
(* The two share no code: legs, eligibility, order and caps are found      *)
(* twice.                                                                  *)
(***************************************************************************)
EXTENDS Integers, FiniteSets, FiniteSetsExt, Sequences, SequencesExt

CONSTANTS
    Members,      \* uids, increasing in the order of registration
    Root,         \* the first member
    Nobody,       \* no parent, no sponsor
    Types,        \* packages, cheapest first
    Package,      \* bound: the package that each member enters with,
    Codes,        \* bound: the kinds of code that it may enter with,
    Sponsors,     \* bound: the members that may register it
    Chooser,      \* bound: the members whose slot is chosen by hand
    Points,       \* Points[t]: binary and referral points of package t
    WeekCap,      \* WeekCap[t], and
    MonthCap,     \* MonthCap[t]: caps of the pairing of package t
    Reach,        \* Reach[t]: levels of the unilevel of package t
    FirstWeekday, \* weekday of day 0, Monday is 1
    LastDay,      \* bound: days
    Upgraders,    \* bound: members that upgrade
    UpgradeCodes, \* bound: kinds of code that they do it with
    Losers,       \* bound: members whose registration event may be lost
    Earners,      \* bound: members whose income is settled
    Forgiven,     \* bound: members the forgiveness script is run for
    Owners,       \* bound: members whose pairing pages are read
    Buyers,       \* bound: members that repurchase
    Volume        \* points of a repurchase

Days == 0 .. LastDay
Legs == {"left", "right"}

ASSUME EnginesAssumption ==
    /\ IsFiniteSet(Members) /\ Members \subseteq Nat /\ Root \in Members /\ Nobody \notin Members
    /\ \A m \in Members : Root <= m
    /\ Package \in [Members -> Types] /\ Codes \in [Members -> SUBSET {"PD", "FS", "CD"}]
    /\ Sponsors \in [Members -> SUBSET Members] /\ UpgradeCodes \subseteq {"PD", "FS", "CD"}
    /\ LastDay \in Nat /\ FirstWeekday \in 1 .. 7
    /\ Types \subseteq Nat /\ Volume \in Nat
    /\ \A f \in {Points, WeekCap, MonthCap, Reach} : f \in [Types -> Nat]
    /\ Chooser \cup Upgraders \cup Losers \cup Earners \cup Forgiven \cup Owners \cup Buyers \subseteq Members

VARIABLES
    day,
    user,       \* user[m]: the usertab row, or Absent
    upgrades,   \* upgrades[m]: its upgradetab rows, oldest first
    closure,    \* closure[a]: the leg of a that each descendant is in
    events,     \* binary_point_eventstab, in the order of ids
    bought,     \* bought[m]: its repurchase points of the month
    stored,     \* stored[m]: payouttotaltab, ttlincome1 to 3 and the offset
    viewing,    \* viewing[o]: what a reader of o's page computed
    ledger,     \* ledger[o]: pairing_ledgerstab
    mirror,     \* mirror[o]: income_eventstab, by pair of events
    everIn      \* history: members that ever counted as a source

vars == <<day, user, upgrades, closure, events, bought, stored, viewing, ledger, mirror, everIn>>
tree == <<user, upgrades, closure>>
trace == <<viewing, ledger, mirror>>

Absent  == [up |-> Nobody, side |-> "none", sponsor |-> Nobody, day |-> 0,
            type |-> 0, current |-> 0, code |-> "none", cd |-> "none"]
NoIncome == [direct |-> 0, pairing |-> 0, leadership |-> 0, offset |-> 0]
NotViewing == [on |-> FALSE, rows |-> {}, locked |-> FALSE]

Present == {m \in Members : user[m] # Absent}
Sum(S, f(_)) == SumFunctionOnSet([x \in S |-> f(x)], S)
Least(a, b) == IF a < b THEN a ELSE b
Positive(n) == IF n > 0 THEN n ELSE 0
-----------------------------------------------------------------------------
\* Account state, in the tables u and up.  The latest upgrade's code decides;
\* a commission-deduction account counts once it is paid.
Effective(u, up, m) ==
    IF u[m].type < u[m].current /\ up[m] # <<>> THEN Last(up[m]).code ELSE u[m].code

Counts(u, up, m) ==
    LET code == Effective(u, up, m)
    IN  code = "PD" \/ (code = "CD" /\ u[m].cd = "paid")

Sources == {m \in Present : Counts(user, upgrades, m)}

PointsOf(m) == Points[user[m].type] + Sum(DOMAIN upgrades[m], LAMBDA i : upgrades[m][i].points)

\* getBinaryPairingEligibility: a direct recruit that counts, in either leg.
CanEarn(o) == \E m \in Sources : user[m].sponsor = o /\ closure[o][m] \in Legs
-----------------------------------------------------------------------------
\* getPairing.  The leg of a member is its branch below o.
LegOf(o) ==
    LET leg[m \in Members] ==
          IF user[m].up = Nobody THEN "none"
          ELSE IF user[m].up = o THEN user[m].side
          ELSE leg[user[m].up]
    IN  leg

\* What the members of a leg bring on a day: their entry and their upgrades.
Today(members, d) ==
    Sum(members, LAMBDA m :
        (IF user[m].day = d THEN Points[user[m].type] ELSE 0)
        + Sum({i \in DOMAIN upgrades[m] : upgrades[m][i].day = d}, LAMBDA i : upgrades[m][i].points))

\* pairingWeekKey: weeks begin on Tuesday.  The tracker's begin on Monday.
PairingWeek(d) == (d + FirstWeekday + 5) \div 7
TrackerWeek(d) == (d + FirstWeekday + 6) \div 7
Month(d) == d \div 30

\* totalPairingAmount: each day the two legs are matched and the stronger
\* carries its surplus on; the pay of a day is what its week and month leave.
Matching(left, right) ==
    LET at[d \in Days] ==
          LET before == IF d = 0 THEN [left |-> 0, right |-> 0, gross |-> 0] ELSE at[d - 1]
              l == before.left + Today(left, d)
              r == before.right + Today(right, d)
          IN  [left |-> l - Least(l, r), right |-> r - Least(l, r), gross |-> Least(l, r)]
    IN  at

Pays(gross, type) ==
    LET pay[d \in Days] ==
          LET week  == Sum({e \in 0 .. d - 1 : PairingWeek(e) = PairingWeek(d)}, LAMBDA e : pay[e])
              month == Sum({e \in 0 .. d - 1 : Month(e) = Month(d)}, LAMBDA e : pay[e])
          IN  Least(gross[d], Least(Positive(WeekCap[type] - week),
                                    Positive(MonthCap[type] - month)))
    IN  pay

LegMembers(o, side) == LET leg == LegOf(o) IN {m \in Sources : leg[m] = side}

Gross(o) ==
    LET at == Matching(LegMembers(o, "left"), LegMembers(o, "right"))
    IN  [d \in Days |-> at[d].gross]

GetPairing(o) ==
    IF CanEarn(o) THEN LET pay == Pays(Gross(o), user[o].current) IN Sum(Days, LAMBDA d : pay[d])
    ELSE 0
-----------------------------------------------------------------------------
\* getDREF: the referral points of the directs that count, and of their upgrades.
Directs(m) == {d \in Present : user[d].sponsor = m}
GetDREF(o) == Sum(Directs(o) \cap Sources, PointsOf)

\* The members at each level of the sponsor tree below o, as the recursion
\* finds them.
Depth(o) ==
    LET level[m \in Members] ==
          IF m = o THEN 0
          ELSE IF user[m].sponsor = Nobody THEN -Cardinality(Members)
          ELSE level[user[m].sponsor] + 1
    IN  level

\* getLeadershipBonus: shares, in hundredths, of the stored pairing of five
\* levels of downline.  The account state here is the raw row's.
LeadershipRate(level) == CASE level = 1 -> 5 [] level = 2 -> 2 [] level \in 3 .. 5 -> 1 [] OTHER -> 0
RawCounts(m) == user[m].code = "PD" \/ (user[m].code = "CD" /\ user[m].cd = "paid")
GetLeadership(o) ==
    LET level == Depth(o)
    IN  Sum({m \in Present : RawCounts(m)}, LAMBDA m : LeadershipRate(level[m]) * stored[m].pairing)

\* Unilevel: the levels that bought anything, nearest first, take the rates in
\* turn, as many as the package reaches.
UnilevelRates == <<5, 3, 3, 2, 2, 1, 1, 1, 1, 1>>
Rate(qualifying, reach, k) ==
    LET effective == Cardinality({j \in qualifying : j <= k})
    IN  IF k \in qualifying /\ effective <= Least(10, reach) THEN UnilevelRates[effective] ELSE 0
Commission(byLevel, reach) ==
    LET qualifying == {k \in DOMAIN byLevel : byLevel[k] > 0}
    IN  Sum(qualifying, LAMBDA k : Rate(qualifying, reach, k) * byLevel[k])

Levels == 1 .. Cardinality(Members)

\* calculateUnilevel, for the settlement.
Settled(o) ==
    LET level == Depth(o)
        byLevel == [k \in Levels |-> Sum({m \in Present : level[m] = k}, LAMBDA m : bought[m])]
    IN  Commission(byLevel, Reach[user[o].current])

\* calculateUnilevelPointsByLevelBatched, for the projection: a level at a time.
BugFrontier(o) ==
    LET at[k \in 0 .. Cardinality(Members)] ==
          IF k = 0 THEN {o} ELSE UNION {Directs(m) : m \in at[k - 1] \cap Sources}
    IN  [k \in Levels |-> at[k]]
Frontier(o) ==
    LET at[k \in 0 .. Cardinality(Members)] ==
          IF k = 0 THEN [level |-> {o}, visited |-> {o}]
          ELSE LET before == at[k - 1]
                   level == (UNION {Directs(m) : m \in before.level}) \ before.visited
               IN  [level |-> level, visited |-> before.visited \cup level]
    IN  [k \in Levels |-> at[k].level]
Projected(o) ==
    LET at == Frontier(o)
    IN  Commission([k \in Levels |-> Sum(at[k], LAMBDA m : bought[m])], Reach[user[o].current])

\* getUnilevelProductPointContributors: its own scan, which does not ask whom
\* it has met before, and the rows that the member is shown.
Scanned(o) ==
    LET at[k \in 0 .. Cardinality(Members)] ==
          IF k = 0 THEN {o} ELSE UNION {Directs(m) : m \in at[k - 1]}
    IN  [k \in Levels |-> at[k]]

PointRows(at) ==
    UNION {{[uid |-> m, level |-> k, points |-> bought[m]] : m \in {x \in at[k] : bought[x] > 0}} :
              k \in Levels}
Contributors(o) ==
    LET rows == PointRows(Scanned(o))
        qualifying == {r.level : r \in rows}
        rate(r) == Rate(qualifying, Reach[user[o].current], r.level)
    IN  {[uid |-> r.uid, level |-> r.level, amount |-> rate(r) * r.points] :
            r \in {q \in rows : rate(q) > 0}}
-----------------------------------------------------------------------------
\* recommendPlacementForSponsor: the end of the outer edge of the weaker leg.
ChildAt(p, side) == {m \in Present : user[m].up = p /\ user[m].side = side}
Branch(p, side) == LET leg == LegOf(p) IN {m \in Present : leg[m] = side}

Preferred(s) ==
    LET open(side) == ChildAt(s, side) = {}
        points(side) == Sum(Branch(s, side), LAMBDA m : Points[user[m].type])
        count(side) == Cardinality(Branch(s, side))
    IN  IF open("left") # open("right") THEN IF open("left") THEN "left" ELSE "right"
        ELSE IF points("left") # points("right")
             THEN IF points("left") < points("right") THEN "left" ELSE "right"
        ELSE IF count("left") <= count("right") THEN "left" ELSE "right"

Outermost(s, side) ==
    LET edge[m \in Members] == m = s \/ (user[m].side = side /\ user[m].up # Nobody /\ edge[user[m].up])
    IN  CHOOSE p \in Present : edge[p] /\ ChildAt(p, side) = {}

Recommended(s) == LET side == Preferred(s) IN [up |-> Outermost(s, side), side |-> side]
-----------------------------------------------------------------------------
\* binary_point_eventstab: an event whose key is there already is left alone.
Event(m, kind, key, points, d) == [src |-> m, kind |-> kind, key |-> key, points |-> points, day |-> d]
Insert(es, e) == IF \E i \in DOMAIN es : es[i].key = e.key THEN es ELSE Append(es, e)
Registration(m) == Event(m, "registration", <<"registration", m>>, Points[user[m].type], user[m].day)

HasRegistration(es, m) == \E i \in DOMAIN es : es[i].src = m /\ es[i].kind = "registration"
Below(o) == {m \in Present : closure[o][m] \in Legs}

\* backfillHistoricalBinaryPointEvents: the members of o's tree that count and
\* have no registration event get one, and one for each upgrade, under another
\* key than POST /upgrade gives its own.
Entered(es, m) ==
    LET at[i \in 0 .. Len(upgrades[m])] ==
          IF i = 0 THEN Insert(es, Registration(m))
          ELSE LET u == upgrades[m][i]
               IN  Insert(at[i - 1], Event(m, "package_upgrade", <<"upgrade", m, i>>, u.points, u.day))
    IN  at[Len(upgrades[m])]

Backfilled(o) ==
    LET missing == {m \in Below(o) \cap Sources : ~HasRegistration(events, m)}
        at[m \in Members] ==
          LET earlier == {x \in Members : x < m}
              es == IF earlier = {} THEN events ELSE at[Max(earlier)]
          IN  IF m \in missing THEN Entered(es, m) ELSE es
    IN  at[Max(Members)]

\* buildPairingLedgerEntries.  In both legs the events are laid end to end, by
\* day and id; two events are matched where they overlap.
LegEvents(es, o, side) == {i \in DOMAIN es : es[i].src \in Sources /\ closure[o][es[i].src] = side}
Start(es, leg, i) ==
    Sum({j \in leg : es[j].day < es[i].day \/ (es[j].day = es[i].day /\ j < i)}, LAMBDA j : es[j].points)

Matches(es, left, right) ==
    LET from(l, r) == Max({Start(es, left, l), Start(es, right, r)})
        to(l, r) == Min({Start(es, left, l) + es[l].points, Start(es, right, r) + es[r].points})
    IN  {[left |-> p[1], right |-> p[2], from |-> from(p[1], p[2]),
          gross |-> to(p[1], p[2]) - from(p[1], p[2]), day |-> Max({es[p[1]].day, es[p[2]].day})] :
            p \in {q \in left \X right : from(q[1], q[2]) < to(q[1], q[2])}}

Rows(es, o, locked) ==
    LET matches == Matches(es, LegEvents(es, o, "left"), LegEvents(es, o, "right"))
        type == user[o].current
        credited[r \in matches] ==
          LET earlier == {q \in matches : q.from < r.from}
              week  == Sum({q \in earlier : TrackerWeek(q.day) = TrackerWeek(r.day)}, LAMBDA q : credited[q])
              month == Sum({q \in earlier : Month(q.day) = Month(r.day)}, LAMBDA q : credited[q])
          IN  IF locked THEN 0
              ELSE Least(r.gross, Least(Positive(WeekCap[type] - week), Positive(MonthCap[type] - month)))
    IN  {[pair |-> <<r.left, r.right>>, gross |-> r.gross, credited |-> credited[r], locked |-> locked] :
            r \in matches}
-----------------------------------------------------------------------------
Init ==
    /\ day = 0
    /\ user = [m \in Members |-> IF m = Root
                 THEN [Absent EXCEPT !.type = Package[m], !.current = Package[m], !.code = "PD"] ELSE Absent]
    /\ upgrades = [m \in Members |-> <<>>]
    /\ closure = [a \in Members |-> [d \in Members |-> IF a = Root /\ d = Root THEN "self" ELSE "none"]]
    /\ events = <<>>
    /\ bought = [m \in Members |-> 0]
    /\ stored = [m \in Members |-> NoIncome]
    /\ viewing = [o \in Owners |-> NotViewing]
    /\ ledger = [o \in Owners |-> {}]
    /\ mirror = [o \in Owners |-> <<>>]
    /\ everIn = {Root}

\* The closure rows of a new member: those of its parent, and itself.
BugClosed(m, up, side) ==
    [a \in Members |->
        IF a = m THEN [closure[a] EXCEPT ![m] = "self"]
        ELSE IF closure[a][up] = "none" THEN closure[a]
        ELSE [closure[a] EXCEPT ![m] = side]]
Closed(m, up, side) ==
    [a \in Members |->
        IF a = m THEN [closure[a] EXCEPT ![m] = "self"]
        ELSE IF a = up THEN [closure[a] EXCEPT ![m] = side]
        ELSE [closure[a] EXCEPT ![m] = closure[a][up]]]

Noted == everIn' = everIn \cup {m \in Members : user'[m] # Absent /\ Counts(user', upgrades', m)}

Debt(code) == IF code = "CD" THEN "owing" ELSE "none"

\* A member registers in an open slot; its event's insert may fail unseen.
Join(m, s, slot, code, lost) ==
    /\ m \notin Present /\ \A x \in Members : x < m => x \in Present
    /\ {s, slot.up} \subseteq Present /\ ChildAt(slot.up, slot.side) = {}
    /\ user' = [user EXCEPT ![m] =
          [up |-> slot.up, side |-> slot.side, sponsor |-> s, day |-> day, type |-> Package[m],
           current |-> Package[m], code |-> code, cd |-> Debt(code)]]
    /\ closure' = Closed(m, slot.up, slot.side)
    /\ events' = IF lost THEN events
                 ELSE Insert(events, Event(m, "registration", <<"registration", m>>, Points[Package[m]], day))
    /\ UNCHANGED <<day, upgrades, bought, stored>> /\ UNCHANGED trace
    /\ Noted

JoinManual(m) ==
    \E s \in Sponsors[m], up \in Present, side \in Legs, code \in Codes[m], lost \in {FALSE, (m \in Losers)} :
        /\ m \in Chooser
        /\ Join(m, s, [up |-> up, side |-> side], code, lost)

JoinAuto(m) ==
    \E s \in Sponsors[m] \cap Present, code \in Codes[m], lost \in {FALSE, (m \in Losers)} :
        Join(m, s, Recommended(s), code, lost)

\* POST /upgrade: a code of a higher package and any kind.
Upgrade(m) ==
    \E type \in Types, code \in UpgradeCodes :
        /\ m \in Present \cap Upgraders /\ type > user[m].current
        /\ user' = [user EXCEPT ![m].current = type, ![m].code = code,
                                ![m].cd = Debt(code)]
        /\ upgrades' = [upgrades EXCEPT ![m] = Append(@, [points |-> Points[type], day |-> day, code |-> code])]
        /\ events' = Insert(events, Event(m, "package_upgrade", <<"upgrade-code", m, type>>, Points[type], day))
        /\ Noted
        /\ UNCHANGED <<day, closure, bought, stored>> /\ UNCHANGED trace

\* The last deduction of insertEncashment.
PayOff(m) ==
    /\ m \in Present /\ user[m].cd = "owing"
    /\ user' = [user EXCEPT ![m].cd = "paid"]
    /\ UNCHANGED <<day, upgrades, closure, events, bought, stored>> /\ UNCHANGED trace
    /\ Noted

Buy(m) ==
    /\ m \in Present \cap Buyers /\ bought[m] = 0
    /\ bought' = [bought EXCEPT ![m] = Volume]
    /\ UNCHANGED <<day, events, stored, everIn>> /\ UNCHANGED tree /\ UNCHANGED trace

NextDay ==
    /\ day < LastDay
    /\ day' = day + 1
    /\ UNCHANGED <<events, bought, stored, everIn>> /\ UNCHANGED tree /\ UNCHANGED trace

\* calculateAndStoreIncome: what is above the stored totals is credited; those
\* of leadership are lowered by the offset that a member was forgiven.
BugUnpaid(calculated, paid) == calculated
Unpaid(calculated, paid) == Positive(calculated - paid)
Settle(m) ==
    /\ m \in Present \cap Earners
    /\ stored' = [stored EXCEPT
          ![m].direct = @ + Unpaid(GetDREF(m), @),
          ![m].pairing = @ + Unpaid(GetPairing(m), @),
          ![m].leadership = @ + Unpaid(GetLeadership(m) + stored[m].offset, @)]
    /\ stored' # stored
    /\ UNCHANGED <<day, events, bought, everIn>> /\ UNCHANGED tree /\ UNCHANGED trace

\* scripts/set_leadership_offset.js, with --commit and, for a second time, with
\* --force: a member with more leadership than the engine computes is forgiven
\* the difference, and earns from there on.  Run by hand, so in one step.
Forgive(m) ==
    LET over == stored[m].leadership - GetLeadership(m)
    IN  /\ m \in Present \cap Forgiven
        /\ over > 0 /\ over # stored[m].offset
        /\ stored' = [stored EXCEPT ![m].offset = over]
        /\ UNCHANGED <<day, events, bought, everIn>> /\ UNCHANGED tree /\ UNCHANGED trace

\* syncPairingLedger: fill the events in and compute, then write row by row.
SyncRead(o) ==
    /\ o \in Present /\ ~viewing[o].on
    /\ events' = Backfilled(o)
    /\ viewing' = [viewing EXCEPT ![o] =
          [on |-> TRUE, rows |-> Rows(Backfilled(o), o, ~CanEarn(o)), locked |-> ~CanEarn(o)]]
    /\ UNCHANGED <<day, bought, stored, ledger, mirror, everIn>> /\ UNCHANGED tree

BugMirrored(old, row) ==
    IF row.credited > 0 THEN [net |-> row.credited, status |-> "credited"] ELSE old[row.pair]
Mirrored(old, row) ==
    LET known == row.pair \in DOMAIN old
    IN  IF row.credited > 0
        THEN [net |-> row.credited, status |-> IF known THEN old[row.pair].status ELSE "credited"]
        ELSE IF known /\ row.locked /\ old[row.pair].status = "credited"
             THEN [net |-> 0, status |-> "reversed"]
             ELSE old[row.pair]

SyncWrite(o) ==
    /\ viewing[o].on
    /\ LET rows == viewing[o].rows
           touched == {r \in rows : r.credited > 0 \/ r.pair \in DOMAIN mirror[o]}
           new == [p \in {r.pair : r \in touched} |->
                      Mirrored(mirror[o], CHOOSE r \in touched : r.pair = p)]
       IN  /\ ledger' = [ledger EXCEPT ![o] = rows]
           /\ mirror' = [mirror EXCEPT ![o] =
                 [p \in DOMAIN @ \cup DOMAIN new |-> IF p \in DOMAIN new THEN new[p] ELSE @[p]]]
    /\ viewing' = [viewing EXCEPT ![o] = NotViewing]
    /\ UNCHANGED <<day, events, bought, stored, everIn>> /\ UNCHANGED tree

Next ==
    \/ NextDay
    \/ \E m \in Members :
          JoinManual(m) \/ JoinAuto(m) \/ Upgrade(m) \/ PayOff(m) \/ Buy(m)
          \/ Settle(m) \/ Forgive(m)
    \/ \E o \in Owners : SyncRead(o) \/ SyncWrite(o)

Spec == Init /\ [][Next]_vars
-----------------------------------------------------------------------------
\* Types.
TypeOK ==
    /\ day \in Days
    /\ \A m \in Members :
          /\ user[m].current >= user[m].type
          /\ user[m].cd \in {"none", "owing", "paid"}
          /\ (user[m].cd = "none") = (user[m].code # "CD")
          /\ \A i \in DOMAIN upgrades[m] : upgrades[m][i].day \in Days
    /\ \A i \in DOMAIN events : events[i].src \in Present

\* What the tracker matches for a member is what the wallet's engine matches
\* (pairingTracker.js mirrors the wallet): the same legs, the same sources, all
\* of the weaker leg, although one goes by day from usertab and the other by
\* event from the closure table, and registration may lose an event.
PairsAgree ==
    \A o \in Owners \cap Present :
        LET gross == Gross(o)
            rows == Rows(Backfilled(o), o, FALSE)
        IN  Sum(rows, LAMBDA r : r.gross) = Sum(Days, LAMBDA d : gross[d])

\* Stored income never exceeds what backs it, though the engines start over at
\* each settlement, from trees that grow, upgrade and stop counting in between:
\* a member's pairing is not above the weaker of its legs, counting every
\* account that ever was a source; and leadership passes on a tenth of the
\* pairing that was paid, to five sponsors above, and what the offsets forgave
\* (V037: "a fixed bound"), whoever settled first and however often a sponsor
\* was forgiven.
PaidBacked ==
    /\ \A o \in Present :
          LET leg == LegOf(o)
              total(side) == Sum({m \in everIn : leg[m] = side}, PointsOf)
          IN  stored[o].pairing <= Least(total("left"), total("right"))
    /\ Sum(Members, LAMBDA m : stored[m].leadership)
          <= 10 * Sum(Members, LAMBDA m : stored[m].pairing) + Sum(Members, LAMBDA m : stored[m].offset)

\* The projection of a member's unilevel, its settlement and the rows that it
\* is shown, three scans of the tree, come to one amount.
UnilevelAgrees ==
    \A o \in {a \in Present : \E m \in Members : bought[m] > 0} :
        /\ Projected(o) = Settled(o)
        /\ Settled(o) = Sum(Contributors(o), LAMBDA r : r.amount)

\* A match that the trace shows as locked, because the member has no qualified
\* direct, is not credited in the income events.
LockedUncredited ==
    \A o \in Owners : \A r \in ledger[o] :
        r.locked /\ r.pair \in DOMAIN mirror[o] => mirror[o][r.pair].status # "credited"

\* The trace credits what the wallet would pay (pairingTracker.js: the ledger
\* mirrors the wallet).
TraceMirrorsWallet ==
    \A o \in Owners \cap Present :
        Sum(Rows(Backfilled(o), o, ~CanEarn(o)), LAMBDA r : r.credited) = GetPairing(o)
=============================================================================
