------------------------------- MODULE Codes -------------------------------
(***************************************************************************)
(* The life of an activation code, and what its use earns the sponsor of   *)
(* the user: generation (src/services/codeGeneration.js), release and      *)
(* transfer (routes/admin/codes.js), transfer, upgrade and maintenance     *)
(* (routes/codes.js), and the Hi-Five package counts and product           *)
(* redemptions of one sponsor (services/income/hifiveBonus.js).            *)
(*                                                                         *)
(* A request works on one code.  It reads the code, and later writes under *)
(* the condition of its UPDATE; a transaction that has written holds the   *)
(* row until it commits, so that write and commit are one step.            *)
(***************************************************************************)
EXTENDS Integers, FiniteSets, FiniteSetsExt

CONSTANTS
    Procs,        \* connections
    Members,      \* the directs of one sponsor, registered or not
    NoOne,
    Ids,          \* codestab.id
    Tiers,        \* producttype of packages
    Keys,         \* idempotency keys of one administrator
    Batch,        \* Batch[k]: what the request of that key asks for
    SetSize,      \* five
    MaxRequests,  \* bound: requests begun
    MaxMonths     \* bound: months that end

Product == 100  \* a maintenance product; the others are like it

ASSUME CodesAssumption ==
    /\ Ids = 1 .. Cardinality(Ids) /\ IsFiniteSet(Ids)
    /\ Tiers \subseteq 1 .. 90 /\ Tiers # {}
    /\ IsFiniteSet(Members) /\ Members # {} /\ NoOne \notin Members /\ "none" \notin Keys
    /\ \A k \in Keys : /\ Batch[k].product \in Tiers \cup {Product}
                       /\ Batch[k].type \in {"PD", "FS", "CD"}
                       /\ Batch[k].count \in 1 .. 500
    /\ SetSize \in Nat \ {0} /\ MaxRequests \in Nat /\ MaxMonths \in Nat

VARIABLES
    codes,     \* codestab and, in key, the batch of a code
    account,   \* account[m]: its package and what it was paid with
    high,      \* hifive_package_highwatertab of the sponsor
    bought,    \* the directs with a product purchase this month
    redeemed,  \* h5historytab: product sets redeemed this month
    used,      \* history: who used which code
    peak,      \* history: the highest counts while no upgrade was in flight
    missed,    \* history: an observation of the counts failed
    earned,    \* history: product sets completed, of which spent were redeemed
    spent,
    op, seen,  \* op[p]: the request of p; seen[p]: what it has read
    requests, month

rows == <<codes, account, high, bought, redeemed>>
past == <<used, missed, earned, spent, month>>
vars == <<rows, past, peak, op, seen, requests>>

NoCode == [num |-> 0, product |-> Product, type |-> "PD", status |-> "none", holder |-> NoOne, key |-> "none"]
Idle   == [kind |-> "none"]
Unread == [stage |-> "begun"]

Exist    == {i \in Ids : codes[i].status # "none"}
Unused   == {"generated", "released"}
StringOf(c) == <<c.product, IF c.product = Product THEN "PD" ELSE c.type, c.num>>

\* A direct counts for its sponsor in its package when it is paid for.
Count(t) == Cardinality({m \in Members : account[m] = [tier |-> t, state |-> "paid"]})
Entitled(t) == Max({Count(t), high[t]})

Sets(s) == Cardinality(s) \div SetSize

CodeRow == [num : Nat, product : Tiers \cup {Product}, type : {"PD", "FS", "CD"},
            status : {"generated", "released", "used"}, holder : Members \cup {NoOne},
            key : Keys \cup {"none"}]

CodeOps == {"release", "give", "issue", "transfer", "upgrade", "maintain", "join"}
Request ==
    [kind : CodeOps, code : Ids, by : Members, to : Members]
    \cup [kind : {"generate"}, key : Keys] \cup [kind : {"redeem"}]

TypeOK ==
    /\ codes \in [Ids -> CodeRow \cup {NoCode}]
    /\ account \in [Members -> [tier : Tiers \cup {Product, 0}, state : {"none", "paid", "FS", "CD"}]]
    /\ high \in [Tiers -> 0 .. Cardinality(Members)]
    /\ bought \subseteq Members /\ redeemed \in Nat
    /\ used \subseteq [code : Ids, by : Members, as : {"join", "upgrade", "maintain"}]
    /\ peak \in [Tiers -> 0 .. Cardinality(Members)]
    /\ missed \in BOOLEAN /\ earned \in Nat /\ spent \in Nat
    /\ op \in [Procs -> Request \cup {Idle}]
    /\ requests \in 0 .. MaxRequests /\ month \in 0 .. MaxMonths
    /\ \A m \in Members : account[m].tier = 0 <=> account[m].state = "none"

\* A released package code and a product code of one holder, and members of the
\* lowest package.  The number of an old code may repeat an id to come.
Init ==
    \E joined \in SUBSET Members, t \in {"PD", "CD"} :
        /\ codes = [i \in Ids |->
              IF i > 2 THEN NoCode
              ELSE [NoCode EXCEPT !.num = 2, !.status = "released",
                        !.product = IF i = 1 THEN Max(Tiers) ELSE Product, !.type = IF i = 1 THEN t ELSE "PD",
                        !.holder = CHOOSE m \in Members : TRUE]]
        /\ account = [m \in Members |-> IF m \in joined THEN [tier |-> Min(Tiers), state |-> "paid"]
                                        ELSE [tier |-> 0, state |-> "none"]]
        /\ high = [t1 \in Tiers |-> 0] /\ peak = [t1 \in Tiers |-> Count(t1)]
        /\ bought \in {{}, joined} /\ redeemed = 0 /\ used = {} /\ missed = FALSE
        /\ earned = Sets(bought) /\ spent = 0
        /\ op = [p \in Procs |-> Idle] /\ seen = [p \in Procs |-> Unread]
        /\ requests = 0 /\ month = 0
-----------------------------------------------------------------------------
\* What a request holds from its beginning to its end: GET_LOCK names and, an
\* upgrade, the row of the member.
\* Bugs: no GET_LOCK.
BugGenerateLocks(o) == IF o.kind = "redeem" THEN {<<"hifive_redeem">>} ELSE {}
BugRedeemLocks(o) == IF o.kind = "generate" THEN {<<"nogatu_code_generation">>} ELSE {}

Locks(o) ==
    IF o.kind = "generate" THEN {<<"nogatu_code_generation">>}
    ELSE IF o.kind = "redeem" THEN {<<"hifive_redeem">>}
    ELSE IF o.kind = "upgrade" THEN {<<"usertab", o.by>>} ELSE {}

Free(o, p) == \A q \in Procs \ {p} : Locks(op[q]) \cap Locks(o) = {}

Begin(p, o) ==
    /\ op[p] = Idle /\ requests < MaxRequests
    /\ Free(o, p)
    /\ op' = [op EXCEPT ![p] = o] /\ seen' = [seen EXCEPT ![p] = Unread]
    /\ requests' = requests + 1

Saw(p, what) == seen' = [seen EXCEPT ![p] = what]
Done(p) == op' = [op EXCEPT ![p] = Idle] /\ Saw(p, Unread) /\ UNCHANGED requests

\* The request fails, loses its UPDATE, or the process dies: a transaction is
\* rolled back, and locks go with the connection.
Abort(p) == op[p] # Idle /\ Done(p) /\ UNCHANGED <<rows, past>>
-----------------------------------------------------------------------------
\* Generation.  The i-th number from n on that none of the strings s has.
Fresh(s, k, n, i) ==
    LET free == {x \in n .. (n + Cardinality(s) + i) :
                    StringOf([product |-> Batch[k].product, type |-> Batch[k].type, num |-> x]) \notin s}
    IN  CHOOSE x \in free : Cardinality({y \in free : y <= x}) = i

MaxId == Max(Exist \cup {0})

Generate(p) == \E k \in Keys : Begin(p, [kind |-> "generate", key |-> k]) /\ UNCHANGED <<rows, past>>

\* The batch row is read and inserted FOR UPDATE; a completed one answers the
\* request.  MAX(id) and the strings are of this moment.
ReadBatch(p) ==
    /\ op[p].kind = "generate" /\ seen[p].stage = "begun"
    /\ \A q \in Procs \ {p} : ~(op[q] = op[p] /\ seen[q].stage = "read")
    /\ \A i \in Exist : codes[i].key # op[p].key
    /\ Saw(p, [stage |-> "read", next |-> MaxId, strings |-> {StringOf(codes[i]) : i \in Exist}])
    /\ UNCHANGED <<rows, past, op, requests>>

InsertCodes(p) ==
    /\ op[p].kind = "generate" /\ seen[p].stage = "read"
    /\ LET k == op[p].key
           b == Batch[k]
           at(i) == i - MaxId
       IN  /\ MaxId + b.count \in Ids
           /\ codes' = [i \in Ids |->
                 IF at(i) \notin 1 .. b.count THEN codes[i]
                 ELSE [NoCode EXCEPT !.num = Fresh(seen[p].strings, k, seen[p].next, at(i)),
                           !.product = b.product, !.type = b.type, !.status = "generated", !.key = k]]
    /\ Saw(p, [stage |-> "committed"])
    /\ UNCHANGED <<account, high, bought, redeemed, past, op, requests>>

\* The lock is released after the commit, or with the connection.
ReleaseLock(p) == seen[p].stage = "committed" /\ Done(p) /\ UNCHANGED <<rows, past>>
-----------------------------------------------------------------------------
\* Codes change hands and are used.
CodeOf(p) == codes[op[p].code]

\* The condition of the first SELECT; a request that fails it changes nothing.
Valid(o, c) ==
    CASE o.kind = "release"          -> c.status = "generated"
      [] o.kind \in {"give", "issue"} -> c.status \in Unused
      [] o.kind = "transfer"         -> c.status = "released" /\ c.holder = o.by
      [] o.kind = "upgrade"          -> c.status = "released" /\ c.holder = o.by
                                        /\ c.product > account[o.by].tier /\ c.product <= 90
                                        /\ account[o.by].tier # 0
      [] o.kind = "maintain"         -> c.status = "released" /\ c.holder = o.by
                                        /\ c.product >= 100 /\ account[o.by].tier # 0
      [] o.kind = "join"             -> c.status = "released" /\ c.product \in 1 .. 100
                                        /\ account[o.by].tier = 0

ReadCode(p) ==
    \E k \in CodeOps, c \in Exist, by, to \in Members :
        LET o == [kind |-> k, code |-> c, by |-> by, to |-> to] IN
        /\ k \in {"give", "issue", "transfer"} \/ to = by
        /\ k \in {"release", "give", "issue"} => by = CHOOSE m \in Members : TRUE
        /\ op[p] = Idle /\ requests < MaxRequests
        /\ Free(o, p) /\ Valid(o, codes[c])
        /\ op' = [op EXCEPT ![p] = o]
        /\ Saw(p, [stage |-> "read", code |-> codes[c]])
        /\ requests' = requests + 1
        /\ UNCHANGED <<rows, past>>

Writes(p, kind) == op[p].kind = kind /\ seen[p].stage = "read"

SetCode(p, c) == codes' = [codes EXCEPT ![op[p].code] = c]

Release(p) ==
    /\ Writes(p, "release") /\ CodeOf(p).status = "generated"
    /\ SetCode(p, [CodeOf(p) EXCEPT !.status = "released"])
    /\ Done(p) /\ UNCHANGED <<account, high, bought, redeemed, past>>

\* A bug: the UPDATE trusts the SELECT.
BugGive(p) ==
    /\ Writes(p, "give")
    /\ SetCode(p, [CodeOf(p) EXCEPT !.holder = op[p].to])
    /\ Done(p) /\ UNCHANGED <<account, high, bought, redeemed, past>>

\* POST /transfer of an administrator takes the code from whoever has it.
Give(p) ==
    /\ Writes(p, "give") /\ CodeOf(p).status \in Unused
    /\ SetCode(p, [CodeOf(p) EXCEPT !.holder = op[p].to])
    /\ Done(p) /\ UNCHANGED <<account, high, bought, redeemed, past>>

\* POST /release-transfer: neither UPDATE is checked.
Issue(p) ==
    /\ Writes(p, "issue")
    /\ LET c == IF seen[p].code.status = "generated" /\ CodeOf(p).status = "generated"
                THEN [CodeOf(p) EXCEPT !.status = "released"] ELSE CodeOf(p)
       IN  SetCode(p, IF c.status = "released" THEN [c EXCEPT !.holder = op[p].to] ELSE c)
    /\ Done(p) /\ UNCHANGED <<account, high, bought, redeemed, past>>

Transfer(p) ==
    /\ Writes(p, "transfer") /\ CodeOf(p).status = "released" /\ CodeOf(p).holder = op[p].by
    /\ SetCode(p, [CodeOf(p) EXCEPT !.holder = op[p].to])
    /\ Done(p) /\ UNCHANGED <<account, high, bought, redeemed, past>>

\* UPDATE ... codestatus = 2, the record of the use, and the commit.
Use(p, held) ==
    /\ CodeOf(p).status = "released"
    /\ held => CodeOf(p).holder = op[p].by
    /\ SetCode(p, [CodeOf(p) EXCEPT !.status = "used"])
    /\ used' = used \cup {[code |-> op[p].code, by |-> op[p].by, as |-> op[p].kind]}
    /\ Done(p)

PaidBy(type) == IF type = "PD" THEN "paid" ELSE type

SetAccount(p) ==
    account' = [account EXCEPT ![op[p].by] =
                   [tier |-> seen[p].code.product, state |-> PaidBy(seen[p].code.type)]]

Join(p) ==
    /\ Writes(p, "join") /\ account[op[p].by].tier = 0
    /\ Use(p, FALSE) /\ SetAccount(p)
    /\ UNCHANGED <<high, bought, redeemed, missed, earned, spent, month>>

\* A bug: the stored counts are replaced.
BugRecord == high' = [t \in Tiers |-> Count(t)]

\* recordPackageHighWater, which never lowers a row.
Record == high' = [t \in Tiers |-> Entitled(t)]

\* Before an upgrade the sponsor's counts are recorded; an error is ignored.
Observe(p) ==
    /\ Writes(p, "upgrade")
    /\ Saw(p, [seen[p] EXCEPT !.stage = "observed"])
    /\ \/ Record /\ UNCHANGED missed
       \/ missed' = TRUE /\ UNCHANGED high
    /\ UNCHANGED <<codes, account, bought, redeemed, used, earned, spent, month, op, requests>>

Upgrade(p) ==
    /\ op[p].kind = "upgrade" /\ seen[p].stage = "observed"
    /\ Use(p, TRUE) /\ SetAccount(p)
    /\ UNCHANGED <<high, bought, redeemed, missed, earned, spent, month>>

Maintain(p) ==
    /\ Writes(p, "maintain") /\ Use(p, TRUE)
    /\ bought' = bought \cup {op[p].by}
    /\ earned' = earned + Sets(bought') - Sets(bought)
    /\ UNCHANGED <<account, high, redeemed, missed, spent, month>>
-----------------------------------------------------------------------------
\* Hi-Five.  The auto-credit of the sponsor records the counts, too.
Credit == Record /\ UNCHANGED <<codes, account, bought, redeemed, past, op, seen, requests>>

\* The settlement of the direct's income pays its commission deduction off.
Settle(m) ==
    /\ account[m].state = "CD"
    /\ account' = [account EXCEPT ![m].state = "paid"]
    /\ UNCHANGED <<codes, high, bought, redeemed, past, op, seen, requests>>

\* POST /redeem reads again what there is to redeem when it has the lock.
Redeem(p) == Begin(p, [kind |-> "redeem"]) /\ UNCHANGED <<rows, past>>

ReadClaims(p) ==
    /\ op[p].kind = "redeem" /\ seen[p].stage = "begun"
    /\ Sets(bought) > redeemed
    /\ Saw(p, [stage |-> "read", claims |-> Sets(bought) - redeemed])
    /\ UNCHANGED <<rows, past, op, requests>>

\* insertProductRedeem dates the redemption when it is inserted.
InsertRedeem(p) ==
    /\ Writes(p, "redeem")
    /\ \E n \in 1 .. seen[p].claims : redeemed' = redeemed + n /\ spent' = spent + n
    /\ Done(p)
    /\ UNCHANGED <<codes, account, high, bought, used, missed, earned, month>>

\* Purchases and redemptions count for their month only.
NextMonth ==
    /\ month < MaxMonths
    /\ month' = month + 1 /\ bought' = {} /\ redeemed' = 0
    /\ UNCHANGED <<codes, account, high, used, missed, earned, spent, op, seen, requests>>

Step ==
    \/ \E p \in Procs :
          \/ Generate(p) \/ ReadBatch(p) \/ InsertCodes(p) \/ ReleaseLock(p)
          \/ ReadCode(p) \/ Release(p) \/ Give(p) \/ Issue(p) \/ Transfer(p)
          \/ Join(p) \/ Observe(p) \/ Upgrade(p) \/ Maintain(p)
          \/ Redeem(p) \/ ReadClaims(p) \/ InsertRedeem(p) \/ Abort(p)
    \/ Credit \/ NextMonth
    \/ \E m \in Members : Settle(m)

\* An upgrade that has recorded the counts and not yet changed them.
InFlight == \E p \in Procs : op[p].kind = "upgrade" /\ seen[p].stage = "observed"

Next ==
    /\ Step
    /\ peak' = IF InFlight' THEN peak ELSE [t \in Tiers |-> Max({peak[t], Count(t)'})]

Spec == Init /\ [][Next]_vars
-----------------------------------------------------------------------------
(***************************************************************************)
(* No two generated codes have one string, whatever strings older codes    *)
(* have, and however often a request is repeated its codes are made once.  *)
(* (src/services/codeGeneration.js, generateCodes)                         *)
(***************************************************************************)
CodesOnce ==
    /\ \A i, j \in Exist : StringOf(codes[i]) = StringOf(codes[j]) => i = j
    /\ \A k \in Keys : Cardinality({i \in Exist : codes[i].key = k}) \in {0, Batch[k].count}

(***************************************************************************)
(* A code is used up exactly when it has paid for one package or one       *)
(* product, and it stays with the member who spent it: no transfer under   *)
(* way takes it along.  (The status conditions of the UPDATEs of           *)
(* src/routes/codes.js and src/routes/admin/codes.js)                      *)
(***************************************************************************)
UsedOnceByHolder ==
    \A i \in Ids :
        LET uses == {u \in used : u.code = i} IN
        IF codes[i].status # "used" THEN uses = {}
        ELSE /\ Cardinality(uses) = 1
             /\ \A u \in uses : u.as # "join" => codes[i].holder = u.by

(***************************************************************************)
(* A number of directs in one package that the sponsor had while no        *)
(* upgrade was between its observation and its commit stays earned, unless *)
(* an observation failed.  (observePackageHighWater before the upgrade,    *)
(* src/routes/codes.js)                                                    *)
(***************************************************************************)
SetsKept == missed \/ \A t \in Tiers : Entitled(t) >= peak[t]

(***************************************************************************)
(* The sponsor redeems no more product sets than its directs completed,    *)
(* though two redemptions run at once and the month ends between the read  *)
(* and the insert.  (POST /redeem, src/routes/hifive.js)                   *)
(***************************************************************************)
RedeemedEarned == spent <= earned

(***************************************************************************)
(* A code "for product maintenance or repurchase, not for account          *)
(* registration" registers nobody.  (previewActivationCode,                *)
(* src/services/registration.js)                                           *)
(***************************************************************************)
NoProductAccount == \A m \in Members : account[m].tier # Product
=============================================================================
