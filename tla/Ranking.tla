------------------------------ MODULE Ranking ------------------------------
(***************************************************************************)
(* The ranking race (src/services/ranking.js, rankingRace.js,              *)
(* rankExclusions.js) and the incremental points beside it                 *)
(* (rankPoints.js).                                                        *)
(*                                                                         *)
(* A refresh is a transaction that reads with plain SELECTs, that is, what *)
(* was committed when it began and what it wrote itself, and rebuilds a    *)
(* member after all of its sponsor downline.  Its inserts meet the rows of *)
(* their time: a rank that is there already fails it, a consumption that   *)
(* is there already is ignored, and the sequence is read FOR UPDATE.  So   *)
(* its writes are made in the step that commits them.  The table of        *)
(* refreshes under way is of one process, and the scripts run in others.   *)
(***************************************************************************)
EXTENDS Integers, FiniteSets, FiniteSetsExt, Folds, Functions, Sequences

CONSTANTS
    Procs,          \* connections
    Members,        \* uids; a sponsor's is lower than its directs'
    NoOne,
    Sponsor,        \* drefid
    Leg,            \* Leg[a][d]: the binary leg of a that d is in, or "none"
    Required,       \* points of the ranks, lowest first
    Buyers,         \* bound: members that repurchase
    Amounts,        \* points of a repurchase
    MaxEvents,      \* bound: repurchases
    Refreshed,      \* bound: members whose ranks are refreshed
    Fulfilled,      \* bound: members whose incentives are handed over
    MaxRefreshes,   \* bound: refreshes begun
    Suspects,       \* bound: members that an administrator flags
    MaxExclusions   \* bound: flags raised

Ranks == 1 .. Len(Required)

ASSUME RankingAssumption ==
    /\ IsFiniteSet(Members) /\ Members \subseteq Nat /\ NoOne \notin Members
    /\ \A m \in Members : Sponsor[m] = NoOne \/ (Sponsor[m] \in Members /\ Sponsor[m] < m)
    /\ Leg \in [Members -> [Members -> {"left", "right", "none"}]]
    /\ Buyers \cup Suspects \cup Refreshed \cup Fulfilled \subseteq Members
    /\ Required \in Seq(Nat \ {0}) /\ Amounts \subseteq Nat \ {0}
    /\ {MaxEvents, MaxRefreshes, MaxExclusions} \subseteq Nat

VARIABLES
    db,         \* the tables, of which a transaction has a snapshot
    shadow,     \* member_rank_pointstab
    refresh,    \* refresh[p]: the member, the snapshot, and (history) the members
                \* whose ranks have been released since it began
    deltas,     \* events whose shadow is still to be updated
    releasing,  \* releasing[m]: how far the release of its consumption is
    lost,       \* history: events whose shadow update died with the process
    released,   \* history: global consumption given back
    stale,      \* history: members that a refresh awarded which had begun before
                \* their ranks were released
    refreshes, exclusions

vars == <<db, shadow, refresh, deltas, releasing, lost, released, stale, refreshes, exclusions>>

\* repurchasetab; rank_achievementstab; rank_point_consumptiontab and
\* rank_global_consumptiontab; rankingstab; the counter; rank_exclusionstab.
NoRow == [rank |-> 0, gross |-> 0, consumed |-> 0, remaining |-> 0, pending |-> 0]
Empty == [buys |-> <<>>, achieved |-> {}, own |-> {}, global |-> {},
          ranking |-> [m \in Members |-> NoRow], counter |-> 1, excluded |-> {}]
Idle  == [uid |-> NoOne, at |-> Empty, since |-> {}]

Line[m \in Members] == IF Sponsor[m] = NoOne THEN {} ELSE {Sponsor[m]} \cup Line[Sponsor[m]]
Below == [m \in Members |-> {d \in Members : m \in Line[d]}]

Init ==
    /\ db = Empty
    /\ shadow = [m \in Members |-> [gross |-> 0, consumed |-> 0]]
    /\ refresh = [p \in Procs |-> Idle]
    /\ deltas = {} /\ lost = {} /\ released = {} /\ stale = {}
    /\ releasing = [m \in Members |-> "none"]
    /\ refreshes = 0 /\ exclusions = 0
-----------------------------------------------------------------------------
\* One member of a rebuild, in the state s that the transaction sees.
Points(rows) == SumFunctionOnSet([r \in rows |-> r.points], rows)
Positive(n) == IF n > 0 THEN n ELSE 0

RankOf(s, m) == Max({0} \cup {a.rank : a \in {x \in s.achieved : x.m = m}})

\* listRankableEventsForMember: what no member has consumed of the downline's
\* repurchases.
Net(s, e) == Positive(s.buys[e].points - Points({g \in s.global : g.event = e}))
Rankable(s, m) == {e \in DOMAIN s.buys : s.buys[e].uid \in Below[m]}

\* buildRemainingEventPool: less what the member has consumed of it.
Rest(s, m, e) == Positive(Net(s, e) - Points({o \in s.own : o.m = m /\ o.event = e}))
RestBefore(s, m, n) ==
    LET earlier == {e \in Rankable(s, m) : e < n}
    IN  SumFunctionOnSet([e \in earlier |-> Rest(s, m, e)], earlier)
Total(s, m) == RestBefore(s, m, Len(s.buys) + 1)

\* getSubtreeQualifiedRankCounts
Qualified(s, m, r, leg) == \E d \in Members : Leg[m][d] = leg /\ s.ranking[d].rank >= r - 1
LegsMet(s, m, r) == r = 1 \/ (Qualified(s, m, r, "left") /\ Qualified(s, m, r, "right"))

\* The points up to and with rank r, from the first one missing.
Need(s, m, r) == SumFunctionOnSet(Required, RankOf(s, m) + 1 .. r)

\* A bug: the gate counts what is consumed as if it were not.
BugEarned(s, m) ==
    {r \in RankOf(s, m) + 1 .. Len(Required) :
        /\ m \notin s.excluded
        /\ Need(s, m, r) <= SumFunctionOnSet([e \in Rankable(s, m) |-> s.buys[e].points], Rankable(s, m))
        /\ \A q \in RankOf(s, m) + 1 .. r : LegsMet(s, m, q)}

\* computeRankAwardsFromEvents; a flagged account gets none.
Earned(s, m) ==
    {r \in RankOf(s, m) + 1 .. Len(Required) :
        /\ m \notin s.excluded
        /\ Need(s, m, r) <= Total(s, m)
        /\ \A q \in RankOf(s, m) + 1 .. r : LegsMet(s, m, q)}

\* consumePointsForRank: the part of event e that lies between the ranks below
\* r and r, the events oldest first.
Taken(s, m, r, e) ==
    Positive(Min({Need(s, m, r), RestBefore(s, m, e + 1)})
             - Max({Need(s, m, r - 1), RestBefore(s, m, e)}))

\* insertAchievementAward: INSERT IGNORE keeps one row of a member and an event.
Awarded(s, m) ==
    LET earned == Earned(s, m)
        seq(r) == s.counter + r - RankOf(s, m) - 1
        rows == {x \in {[m |-> m, rank |-> r, seq |-> seq(r), event |-> e, points |-> Taken(s, m, r, e)] :
                           r \in earned, e \in Rankable(s, m)} : x.points > 0}
        first == {x \in rows :
                    /\ \A y \in rows : y.event = x.event => x.rank <= y.rank
                    /\ \A g \in s.global : ~(g.m = m /\ g.event = x.event)}
    IN  [s EXCEPT
            !.achieved = @ \cup {[m |-> m, rank |-> r, seq |-> seq(r), status |-> "pending"] : r \in earned},
            !.own = @ \cup rows,
            !.global = @ \cup {[event |-> x.event, m |-> m, points |-> x.points] : x \in first},
            !.counter = @ + Cardinality(earned)]

\* computeDisplayBasis and upsertRankingSnapshot
Remaining(gross, own) == Positive(gross - own)

Shown(before, s, m) ==
    LET own(t) == Points({o \in t.own : o.m = m})
        gross == SumFunctionOnSet([e \in Rankable(before, m) |-> Net(before, e)], Rankable(before, m))
                 + own(before)
    IN  [s EXCEPT !.ranking[m] =
            [rank |-> RankOf(s, m), gross |-> gross,
             consumed |-> IF m \in s.excluded THEN 0 ELSE own(s),
             remaining |-> IF m \in s.excluded THEN gross ELSE Remaining(gross, own(s)),
             pending |-> Cardinality({a \in s.achieved : a.m = m /\ a.status = "pending"})]]

RebuildOne(s, m) == Shown(s, Awarded(s, m), m)

\* rebuildRankSnapshot: directs in the order they came, each after its own.
Earlier(a, b) ==
    \/ b \in Line[a]
    \/ \E x, y \in Members :
          /\ Sponsor[x] = Sponsor[y] /\ x < y
          /\ a \in {x} \cup Below[x] /\ b \in {y} \cup Below[y]
Place == [x \in Members |-> Cardinality({y \in Members : Earlier(y, x)})]
Latest(ms) == CHOOSE x \in ms : \A y \in ms : Place[y] <= Place[x]
Rebuilt(s, m) ==
    MapThenFoldSet(LAMBDA x, t : RebuildOne(t, x), s, LAMBDA x : x, Latest, {m} \cup Below[m])
-----------------------------------------------------------------------------
\* A repurchase commits; its shadow is updated after the response.
Buy ==
    \E m \in Buyers, n \in Amounts :
        /\ Len(db.buys) < MaxEvents
        /\ db' = [db EXCEPT !.buys = Append(@, [uid |-> m, points |-> n])]
        /\ deltas' = deltas \cup {Len(db'.buys)}
        /\ UNCHANGED <<shadow, refresh, releasing, lost, released, stale, refreshes, exclusions>>

\* A bug: the member itself is in the chain.
BugChain(m) == {m} \cup Line[m]

Chain(m) == Line[m]

Propagate ==
    \E e \in deltas :
        /\ deltas' = deltas \ {e}
        /\ shadow' = [m \in Members |-> IF m \notin Chain(db.buys[e].uid) THEN shadow[m]
                                        ELSE [shadow[m] EXCEPT !.gross = @ + db.buys[e].points]]
        /\ UNCHANGED <<db, refresh, releasing, lost, released, stale, refreshes, exclusions>>

\* The process dies, or the update fails: the error is logged.
LoseDelta ==
    \E e \in deltas :
        /\ deltas' = deltas \ {e} /\ lost' = lost \cup {e}
        /\ UNCHANGED <<db, shadow, refresh, releasing, released, stale, refreshes, exclusions>>

Refresh(p) ==
    \E m \in Refreshed :
        /\ refresh[p] = Idle /\ refreshes < MaxRefreshes
        /\ refresh' = [refresh EXCEPT ![p] = [uid |-> m, at |-> db, since |-> {}]]
        /\ refreshes' = refreshes + 1
        /\ UNCHANGED <<db, shadow, deltas, releasing, lost, released, stale, exclusions>>

\* A bug: no key on member and rank.
BugRankFree(fresh) == TRUE

\* The sequence that an award of the snapshot gets now.
Later(at, a) == [a EXCEPT !.seq = @ + db.counter - at.counter]
RankFree(fresh) == \A a \in fresh, b \in db.achieved : ~(a.m = b.m /\ a.rank = b.rank)

Commit(p) ==
    /\ refresh[p] # Idle
    /\ \E at \in {refresh[p].at}, uid \in {refresh[p].uid} : \E s \in {Rebuilt(at, uid)} :
       \E taken \in {{g \in s.global \ at.global : ~\E h \in db.global : h.event = g.event /\ h.m = g.m}} :
          LET fresh == s.achieved \ at.achieved
              drain(m) == Points({g \in taken : m \in Chain(s.buys[g.event].uid)})
          IN  /\ RankFree(fresh)
              /\ db' = [db EXCEPT
                    !.achieved = @ \cup {Later(at, a) : a \in fresh},
                    !.own      = @ \cup {Later(at, o) : o \in s.own \ at.own},
                    !.global   = @ \cup taken,
                    !.ranking  = [m \in Members |-> IF m \in {uid} \cup Below[uid] THEN s.ranking[m] ELSE @[m]],
                    !.counter  = @ + s.counter - at.counter]
              /\ shadow' = [m \in Members |-> [shadow[m] EXCEPT !.consumed = @ + drain(m)]]
              /\ stale' = stale \cup (refresh[p].since \cap {a.m : a \in fresh})
    /\ refresh' = [refresh EXCEPT ![p] = Idle]
    /\ UNCHANGED <<deltas, releasing, lost, released, refreshes, exclusions>>

\* A duplicate rank, a deadlock or the end of the process; a retry begins anew.
Abort(p) ==
    /\ refresh[p] # Idle
    /\ refresh' = [refresh EXCEPT ![p] = Idle]
    /\ UNCHANGED <<db, shadow, deltas, releasing, lost, released, stale, refreshes, exclusions>>

\* processIncentive: the lowest pending rank is handed over.
Fulfil ==
    \E m \in Fulfilled :
        LET pending == {a \in db.achieved : a.m = m /\ a.status = "pending"}
            a == CHOOSE x \in pending : \A y \in pending : x.rank <= y.rank
        IN  /\ pending # {}
            /\ db' = [db EXCEPT !.achieved = (@ \ {a}) \cup {[a EXCEPT !.status = "fulfilled"]},
                                !.ranking[m].pending = Cardinality(pending) - 1]
            /\ UNCHANGED <<shadow, refresh, deltas, releasing, lost, released, stale, refreshes, exclusions>>
-----------------------------------------------------------------------------
\* POST /rank-exclusion: each statement commits by itself, and the handler may
\* die between them; a later click begins again.
Flag(m) ==
    /\ m \in Suspects /\ exclusions < MaxExclusions
    /\ exclusions' = exclusions + 1
    /\ db' = [db EXCEPT !.excluded = @ \cup {m}]
    /\ releasing' = [releasing EXCEPT ![m] = "flagged"]
    /\ UNCHANGED <<shadow, refresh, deltas, lost, released, stale, refreshes>>

Unflag(m) ==
    /\ m \in db.excluded
    /\ db' = [db EXCEPT !.excluded = @ \ {m}]
    /\ UNCHANGED <<shadow, refresh, deltas, releasing, lost, released, stale, refreshes, exclusions>>

ReleaseGlobal(m) ==
    /\ releasing[m] = "flagged"
    /\ db' = [db EXCEPT !.global = {g \in @ : g.m # m}]
    /\ released' = released \cup {[row |-> g, at |-> exclusions] : g \in db.global \ db'.global}
    /\ releasing' = [releasing EXCEPT ![m] = "global"]
    /\ UNCHANGED <<shadow, refresh, deltas, lost, refreshes, stale, exclusions>>

ReleaseOwn(m) ==
    /\ releasing[m] = "global"
    /\ db' = [db EXCEPT !.own = {o \in @ : o.m # m}]
    /\ releasing' = [releasing EXCEPT ![m] = "own"]
    /\ UNCHANGED <<shadow, refresh, deltas, lost, released, stale, refreshes, exclusions>>

ReleaseRanks(m) ==
    /\ releasing[m] = "own"
    /\ db' = [db EXCEPT !.achieved = {a \in @ : a.m # m}]
    /\ releasing' = [releasing EXCEPT ![m] = "none"]
    /\ refresh' = [p \in Procs |-> IF refresh[p] = Idle THEN Idle ELSE [refresh[p] EXCEPT !.since = @ \cup {m}]]
    /\ UNCHANGED <<shadow, deltas, lost, released, stale, refreshes, exclusions>>

Next ==
    \/ Buy \/ Propagate \/ LoseDelta \/ Fulfil
    \/ \E p \in Procs : Refresh(p) \/ Commit(p) \/ Abort(p)
    \/ \E m \in Members :
          Flag(m) \/ Unflag(m) \/ ReleaseGlobal(m) \/ ReleaseOwn(m) \/ ReleaseRanks(m)

Spec == Init /\ [][Next]_vars
-----------------------------------------------------------------------------
TypeOK ==
    /\ db.buys \in Seq([uid : Members, points : Amounts])
    /\ \A a \in db.achieved : a.m \in Members /\ a.rank \in Ranks /\ a.seq < db.counter
    /\ \A r \in db.own \cup db.global : r.m \in Members /\ r.event \in DOMAIN db.buys /\ r.points > 0
    /\ \A m \in Members : /\ db.ranking[m].rank \in 0 .. Len(Required)
                          /\ db.ranking[m].remaining <= db.ranking[m].gross
    /\ deltas \subseteq DOMAIN db.buys /\ db.excluded \subseteq Members

(***************************************************************************)
(* A rank is paid for in full, but while the member's consumption is being *)
(* released; by repurchases of its downline, of which it never consumes    *)
(* more than they carry, however refreshes of the member and its uplines   *)
(* overlap: except if one began before a release of the member's ranks and *)
(* awarded it after, from a snapshot in which they were still paid.        *)
(* (computeRankAwardsFromEvents and insertAchievementAward; the key on     *)
(* member and rank)                                                        *)
(***************************************************************************)
PaidInFull ==
    \A m \in Members :
        /\ releasing[m] = "none" =>
              \A a \in {x \in db.achieved : x.m = m} :
                 Points({o \in db.own : o.m = m /\ o.seq = a.seq}) = Required[a.rank]
        /\ m \notin stale =>
              \A e \in DOMAIN db.buys :
                 Points({o \in db.own : o.m = m /\ o.event = e})
                   <= IF db.buys[e].uid \in Below[m] THEN db.buys[e].points ELSE 0

(***************************************************************************)
(* Awards are numbered in the order they are made: no number is given      *)
(* twice, and a member's higher rank has a higher number, with the same    *)
(* exception.  (nextSequenceId)                                            *)
(***************************************************************************)
SequenceOrdered ==
    \A a, b \in db.achieved :
        /\ a.seq = b.seq => a = b
        /\ a.m = b.m /\ a.rank < b.rank /\ a.m \notin stale => a.seq < b.seq

(***************************************************************************)
(* The incremental points of a member are the repurchases of its downline  *)
(* and what has been consumed of them, but for updates under way or lost   *)
(* and consumption given back since.  (applyRepurchaseDelta,               *)
(* applyConsumptionDelta, src/services/rankPoints.js)                      *)
(***************************************************************************)
ShadowReconciles ==
    \A m \in Members :
        LET events   == {e \in DOMAIN db.buys \ (deltas \cup lost) : db.buys[e].uid \in Below[m]}
            returned == {x \in released : db.buys[x.row.event].uid \in Below[m]}
        IN  /\ shadow[m].gross = SumFunctionOnSet([e \in events |-> db.buys[e].points], events)
            /\ shadow[m].consumed =
                  Points({g \in db.global : db.buys[g.event].uid \in Below[m]})
                  + SumFunctionOnSet([x \in returned |-> x.row.points], returned)

(***************************************************************************)
(* "A single repurchase event can be partially consumed by different       *)
(* members ... but the SUM(points_consumed) must not exceed                *)
(* incentivepoints1 on the source row."                                    *)
(* (src/migrations/V023__ranking_sponsor_tree_basis.sql)                   *)
(***************************************************************************)
ZeroOut == \A e \in DOMAIN db.buys : Points({o \in db.own : o.event = e}) <= db.buys[e].points
=============================================================================
