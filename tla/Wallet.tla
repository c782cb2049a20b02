------------------------------- MODULE Wallet -------------------------------
(***************************************************************************)
(* The e-wallet of ONE member and every request that moves its money:      *)
(*                                                                         *)
(*   calc       calculateAndStoreIncome, run by each wallet and dashboard  *)
(*              load, ending in the Hi-Five auto-credit                    *)
(*   encash     insertEncashment                                           *)
(*   approve    approvePackageClaim, an admin paying a Hi-Five claim       *)
(*   checkout   redeemVoucher: pay with the wallet and the voucher         *)
(*   cancel     cancelVoucherRequest: give a checkout's money back         *)
(*   availment  createManualVoucherAvailment paid from the wallet          *)
(*   edit       updateManualVoucherAvailment raising or lowering that debit *)
(*                                                                         *)
(* Members do not share wallet rows or locks, so one member is enough.     *)
(* Two locks order the requests: the session lock GET_LOCK(                *)
(* 'nogatu_income_calc_<uid>') and the row lock that SELECT ... FOR UPDATE *)
(* takes on the member's row of payouttotaltab until COMMIT or ROLLBACK.   *)
(* A transaction's writes are invisible until COMMIT, so they are one step *)
(* taken there.  Amounts are whole pesos.  What the income engines compute *)
(* is an input here (`entitled'), as are the voucher balances; the voucher *)
(* tables, the CD deduction and the Hi-Five high-water have modules of     *)
(* their own.                                                              *)
(***************************************************************************)
EXTENDS Integers

CONSTANTS
    Procs,              \* concurrent requests
    NoProc,             \* nobody
    Claims,             \* package Hi-Five claims left in pending_review
    Payout,             \* Payout[k]: total payout of claim k
    LegacyHiFive,       \* the Hi-Five entitlement those claims were made for
    Amounts,            \* what a member asks to encash, spend or get back
    MaxEntitled,        \* bound: what each engine may compute
    MaxMonth,           \* bound: calendar months
    StatusReadMayFail   \* may buildHiFiveStatus throw during an approval?

Engines == {"dref", "pairing", "leadership"}
Columns == Engines \cup {"unilevel", "hifive"}
Months  == 1 .. MaxMonth

WalletAssumption ==
    /\ NoProc \notin Procs
    /\ Amounts \subseteq Nat \ {0}
    /\ Payout \in [Claims -> Nat]
    /\ LegacyHiFive \in Nat
    /\ MaxEntitled \in [Columns -> Nat]
    /\ MaxMonth \in Nat \ {0}
    /\ StatusReadMayFail \in BOOLEAN

VARIABLES
    totals,      \* ttlincome1..5 of the member's row of payouttotaltab
    balance,     \* ttlcashbalance of that row
    history,     \* payouthistorytab: column sums, encashments, and the number
                 \* of unilevel rows dated in each month
    charged,     \* cash_paid of the voucher transactions paid from the wallet
    stamp,       \* month of the incometransdatetab row for unilevel, 0 if none
    claims,      \* status of the package claims
    entitled,    \* what each engine computes now
    peak,        \* history: the highest entitlement there has been
    month,       \* the calendar
    incomeLock,  \* owner of GET_LOCK('nogatu_income_calc_<uid>')
    rowLock,     \* owner of the lock on the payouttotaltab row
    claimLock,   \* owners of the claim row locks
    pc, job,     \* of each request: its next step, and what it does
    arg,         \* of each request: its amount or its claim
    seen         \* of each request: the values it has read so far

db   == <<totals, balance, history, charged, stamp, claims>>
env  == <<entitled, peak, month>>
lcks == <<incomeLock, rowLock, claimLock>>
req  == <<pc, job, arg, seen>>
vars == <<db, env, lcks, req>>

NoIncome == [c \in Columns |-> 0]
Only(c, a) == [NoIncome EXCEPT ![c] = a]
SumOf(f) == f["dref"] + f["pairing"] + f["leadership"] + f["unilevel"] + f["hifive"]
Larger(a, b)  == IF a > b THEN a ELSE b
Smaller(a, b) == IF a < b THEN a ELSE b
Unpaid(due, paid) == Larger(0, due - paid)

Jobs == {"none", "calc", "autocredit", "encash", "approve",
         "checkout", "cancel", "availment", "edit"}

\* stored: the totals read under the session lock; income: what the engines
\* say is new; due: the Hi-Five entitlement; start: ttlcashbalance FOR UPDATE.
NothingSeen == [stored |-> NoIncome, income |-> NoIncome, due |-> 0, start |-> 0]

TypeOK ==
    /\ totals \in [Columns -> Nat]
    /\ balance \in Int
    /\ history \in [income : [Columns -> Nat], encashed : Nat,
                    unilevelIn : [Months -> Nat]]
    /\ charged \in Nat
    /\ stamp \in Nat
    /\ claims \in [Claims -> {"pending_review", "paid", "forfeited"}]
    /\ entitled \in [Columns -> Nat]
    /\ peak \in [Columns -> Nat]
    /\ month \in Months
    /\ incomeLock \in Procs \cup {NoProc}
    /\ rowLock \in Procs \cup {NoProc}
    /\ claimLock \in [Claims -> Procs \cup {NoProc}]
    /\ pc \in [Procs -> {"idle", "getlock", "read", "engines", "hifive",
                         "lockrow", "write", "release"}]
    /\ job \in [Procs -> Jobs]
    /\ arg \in [Procs -> Amounts \cup Claims \cup {0}]
    /\ \A p \in Procs :
          /\ job[p] \in {"encash", "checkout", "cancel", "availment", "edit"}
                => arg[p] \in Amounts
          /\ job[p] = "approve" => arg[p] \in Claims
    /\ seen \in [Procs -> [stored : [Columns -> Nat], income : [Columns -> Nat],
                           due : Nat, start : Int]]

Init ==
    /\ totals = NoIncome /\ balance = 0
    /\ history = [income |-> NoIncome, encashed |-> 0,
                  unilevelIn |-> [m \in Months |-> 0]]
    /\ charged = 0 /\ stamp = 0
    /\ claims = [k \in Claims |-> "pending_review"]
    /\ entitled = Only("hifive", LegacyHiFive)
    /\ peak = entitled
    /\ month = 1
    /\ incomeLock = NoProc /\ rowLock = NoProc
    /\ claimLock = [k \in Claims |-> NoProc]
    /\ pc = [p \in Procs |-> "idle"]
    /\ job = [p \in Procs |-> "none"]
    /\ arg = [p \in Procs |-> 0]
    /\ seen = [p \in Procs |-> NothingSeen]

Goto(p, from, to) == pc[p] = from /\ pc' = [pc EXCEPT ![p] = to]

Start(p, j, a, to) ==
    /\ Goto(p, "idle", to)
    /\ job' = [job EXCEPT ![p] = j]
    /\ arg' = [arg EXCEPT ![p] = a]
    /\ UNCHANGED <<db, env, lcks, seen>>

\* COMMIT, ROLLBACK or a dead connection: the request's row locks are free.
Unlocked(l, p) == IF l = p THEN NoProc ELSE l
DropRowLocks(p) ==
    /\ rowLock' = Unlocked(rowLock, p)
    /\ claimLock' = [k \in Claims |-> Unlocked(claimLock[k], p)]

\* The request goes on to `to' and needs nothing of what it has read.
Forget(p, to) ==
    /\ pc' = [pc EXCEPT ![p] = to]
    /\ job' = [job EXCEPT ![p] = "none"]
    /\ arg' = [arg EXCEPT ![p] = 0]
    /\ seen' = [seen EXCEPT ![p] = NothingSeen]

Finish(p) == Forget(p, "idle")

\* After COMMIT: a request that holds the session lock goes on to release it.
Committed(p) ==
    /\ DropRowLocks(p)
    /\ Forget(p, IF incomeLock = p THEN "release" ELSE "idle")
-----------------------------------------------------------------------------
StartCalc(p) == Start(p, "calc", 0, "getlock")
StartEncash(p) == \E a \in Amounts : Start(p, "encash", a, "lockrow")
StartVoucher(p) ==
    \E a \in Amounts :
        \/ Start(p, "checkout", a, "getlock")
        \/ Start(p, "cancel", a, "getlock")
        \/ Start(p, "availment", a, "lockrow")
        \/ Start(p, "edit", a, "lockrow")

\* approvePackageClaim locks the claim row and insists on pending_review.
StartApprove(p) ==
    \E k \in Claims :
        /\ claimLock[k] = NoProc
        /\ claims[k] = "pending_review"
        /\ claimLock' = [claimLock EXCEPT ![k] = p]
        /\ Goto(p, "idle", "lockrow")
        /\ job' = [job EXCEPT ![p] = "approve"]
        /\ arg' = [arg EXCEPT ![p] = k]
        /\ UNCHANGED <<db, env, incomeLock, rowLock, seen>>

\* rejectPackageClaim: one short transaction on the claim row.
RejectClaim ==
    \E k \in Claims :
        /\ claimLock[k] = NoProc
        /\ claims[k] = "pending_review"
        /\ claims' = [claims EXCEPT ![k] = "forfeited"]
        /\ UNCHANGED <<totals, balance, history, charged, stamp, env, lcks, req>>

\* A bug: the result of GET_LOCK is not looked at.
BugGetLock(p) ==
    /\ Goto(p, "getlock", IF job[p] = "calc" THEN "read" ELSE "lockrow")
    /\ incomeLock' = p
    /\ UNCHANGED <<db, env, rowLock, claimLock, job, arg, seen>>

\* GET_LOCK returns 1.
GetLock(p) ==
    /\ Goto(p, "getlock", IF job[p] = "calc" THEN "read" ELSE "lockrow")
    /\ incomeLock = NoProc
    /\ incomeLock' = p
    /\ UNCHANGED <<db, env, rowLock, claimLock, job, arg, seen>>

\* GET_LOCK returns 0 after 10 seconds: the request fails.
GetLockTimeout(p) ==
    /\ pc[p] = "getlock"
    /\ incomeLock # NoProc
    /\ Finish(p)
    /\ UNCHANGED <<db, env, lcks>>

\* SELECT * FROM payouttotaltab, no row lock.
ReadTotals(p) ==
    /\ Goto(p, "read", "engines")
    /\ seen' = [seen EXCEPT ![p].stored = totals]
    /\ UNCHANGED <<db, env, lcks, job, arg>>

\* The month's unilevel is due when neither the stamp nor a history row of
\* this month says it was credited.
UnilevelDue ==
    IF stamp = month \/ history.unilevelIn[month] > 0 THEN 0 ELSE entitled["unilevel"]

NewIncome(p) ==
    [c \in Columns |->
        IF c \in Engines THEN Unpaid(entitled[c], seen[p].stored[c])
        ELSE IF c = "unilevel" THEN UnilevelDue
        ELSE 0]

\* getDREF, getPairing, getLeadershipBonus and getUnilevel against the stored
\* totals; with less than one peso of new income nothing is persisted.
RunEngines(p) ==
    /\ Goto(p, "engines", IF SumOf(NewIncome(p)) >= 1 THEN "lockrow" ELSE "hifive")
    /\ seen' = [seen EXCEPT ![p] = [NothingSeen EXCEPT !.income = NewIncome(p)]]
    /\ UNCHANGED <<db, env, lcks, job, arg>>

\* autoCreditEligibleHiFivePackages reads the entitlement before its own
\* transaction on its own connection.
ReadHiFive(p) ==
    /\ Goto(p, "hifive", "lockrow")
    /\ job' = [job EXCEPT ![p] = "autocredit"]
    /\ seen' = [seen EXCEPT ![p] = [NothingSeen EXCEPT !.due = entitled["hifive"]]]
    /\ UNCHANGED <<db, env, lcks, arg>>

\* A bug: the balance is read with a plain SELECT.
BugLockRow(p) ==
    /\ Goto(p, "lockrow", "write")
    /\ seen' = [seen EXCEPT ![p].start = balance]
    /\ UNCHANGED <<db, env, lcks, job, arg>>

\* SELECT ttlcashbalance ... FOR UPDATE waits for the row and reads what was
\* last committed.
LockRow(p) ==
    /\ Goto(p, "lockrow", "write")
    /\ rowLock = NoProc
    /\ rowLock' = p
    /\ seen' = [seen EXCEPT ![p].start = balance]
    /\ UNCHANGED <<db, env, incomeLock, claimLock, job, arg>>

\* One INSERT into payouthistorytab and the upsert of payouttotaltab: the
\* column is added to, the balance is written absolutely.
Credit(p, income) ==
    /\ totals' = [c \in Columns |-> totals[c] + income[c]]
    /\ history' = [history EXCEPT
          !.income = [c \in Columns |-> @[c] + income[c]],
          !.unilevelIn = [m \in Months |->
              @[m] + IF m = month /\ income["unilevel"] > 0 THEN 1 ELSE 0]]
    /\ balance' = seen[p].start + SumOf(income)

\* insertIncome and, in the same transaction, the monthly stamp.
WriteIncome(p) ==
    /\ job[p] = "calc" /\ pc[p] = "write"
    /\ Credit(p, seen[p].income)
    /\ stamp' = IF seen[p].income["unilevel"] >= 1 THEN month ELSE stamp
    /\ DropRowLocks(p)
    /\ Forget(p, "hifive")
    /\ UNCHANGED <<charged, claims, env, incomeLock>>

\* The auto-credit pays what ttlincome5, read under the row lock, lacks.
WriteAutoCredit(p) ==
    /\ job[p] = "autocredit" /\ pc[p] = "write"
    /\ Credit(p, Only("hifive", Unpaid(seen[p].due, totals["hifive"])))
    /\ Committed(p)
    /\ UNCHANGED <<charged, stamp, claims, env, incomeLock>>

\* approvePackageClaim pays the claim, capped by what is still owed; when
\* buildHiFiveStatus throws, the cap is computed so as to pay it in full.
WriteApprove(p) ==
    /\ job[p] = "approve" /\ pc[p] = "write"
    /\ LET payout == Payout[arg[p]]
       IN \E cap \in {entitled["hifive"]} \cup
                     (IF StatusReadMayFail THEN {totals["hifive"] + payout} ELSE {}) :
              Credit(p, Only("hifive", Smaller(payout, Unpaid(cap, totals["hifive"]))))
    /\ claims' = [claims EXCEPT ![arg[p]] = "paid"]
    /\ Committed(p)
    /\ UNCHANGED <<charged, stamp, env, incomeLock>>

\* insertEncashment: the gross amount leaves the wallet.
WriteEncash(p) ==
    /\ job[p] = "encash" /\ pc[p] = "write"
    /\ arg[p] <= seen[p].start
    /\ balance' = seen[p].start - arg[p]
    /\ history' = [history EXCEPT !.encashed = @ + arg[p]]
    /\ Committed(p)
    /\ UNCHANGED <<totals, charged, stamp, claims, env, incomeLock>>

\* redeemVoucher, createManualVoucherAvailment, an edit that raises the
\* amount: a debit with a voucher row.
WriteCharge(p) ==
    /\ job[p] \in {"checkout", "availment", "edit"} /\ pc[p] = "write"
    /\ arg[p] <= seen[p].start
    /\ balance' = seen[p].start - arg[p]
    /\ charged' = charged + arg[p]
    /\ Committed(p)
    /\ UNCHANGED <<totals, history, stamp, claims, env, incomeLock>>

\* cancelVoucherRequest, an edit that lowers the amount or turns it into cash
\* at the office: money that a voucher row says was taken comes back.
WriteRefund(p) ==
    /\ job[p] \in {"cancel", "edit"} /\ pc[p] = "write"
    /\ arg[p] <= charged
    /\ balance' = seen[p].start + arg[p]
    /\ charged' = charged - arg[p]
    /\ Committed(p)
    /\ UNCHANGED <<totals, history, stamp, claims, env, incomeLock>>

\* The finally block: RELEASE_LOCK.
Release(p) ==
    /\ pc[p] = "release"
    /\ incomeLock' = Unlocked(incomeLock, p)
    /\ Finish(p)
    /\ UNCHANGED <<db, env, rowLock, claimLock>>

\* A refused check, a failed statement, a deadlock victim, a lock wait
\* timeout or a crash: rollback, and the connection's locks are gone.
Abort(p) ==
    /\ pc[p] # "idle"
    /\ DropRowLocks(p)
    /\ incomeLock' = Unlocked(incomeLock, p)
    /\ Finish(p)
    /\ UNCHANGED <<db, env>>

\* The session lock's connection dies while the auto-credit, which has a
\* connection of its own, goes on.
LoseSessionLock(p) ==
    /\ job[p] = "autocredit"
    /\ incomeLock = p
    /\ incomeLock' = NoProc
    /\ UNCHANGED <<db, env, rowLock, claimLock, req>>
-----------------------------------------------------------------------------
\* The network grows, an account changes tier: the engines compute more or
\* less.  The Hi-Five entitlement counts from the high-water and only grows;
\* a month's unilevel is computed from a month that is over, once released.
NetworkChanges ==
    \E c \in Columns : \E v \in 0 .. MaxEntitled[c] :
        /\ v # entitled[c]
        /\ c \in {"hifive", "unilevel"} => v > entitled[c]
        /\ entitled' = [entitled EXCEPT ![c] = v]
        /\ peak' = [peak EXCEPT ![c] = Larger(@, v)]
        /\ UNCHANGED <<db, month, lcks, req>>

\* A new month: last month's points have not been released yet.
NewMonth ==
    /\ month < MaxMonth
    /\ month' = month + 1
    /\ entitled' = [entitled EXCEPT !["unilevel"] = 0]
    /\ UNCHANGED <<db, peak, lcks, req>>

Request(p) ==
    \/ StartCalc(p) \/ StartEncash(p) \/ StartVoucher(p) \/ StartApprove(p)
    \/ GetLock(p) \/ GetLockTimeout(p)
    \/ ReadTotals(p) \/ RunEngines(p) \/ ReadHiFive(p) \/ LockRow(p)
    \/ WriteIncome(p) \/ WriteAutoCredit(p) \/ WriteApprove(p)
    \/ WriteEncash(p) \/ WriteCharge(p) \/ WriteRefund(p)
    \/ Release(p) \/ Abort(p) \/ LoseSessionLock(p)

Next ==
    \/ \E p \in Procs : Request(p)
    \/ RejectClaim \/ NetworkChanges \/ NewMonth

Spec == Init /\ [][Next]_vars
-----------------------------------------------------------------------------
\* No money is lost or made: the balance is what the history and the voucher
\* transactions add up to, whatever ran concurrently.  (The lost-update
\* overpay that calculateAndStoreIncome names C1.)
BalanceReconciles ==
    balance = SumOf(history.income) - history.encashed - charged

\* "The 1:1 history==totals reconciliation" the Hi-Five credit must keep:
\* every cumulative total is the sum of its history column.
TotalsReconcile == totals = history.income

\* A member never takes out more than was credited.
NoOverdraft == history.encashed + charged <= SumOf(history.income)

\* No engine pays the same income twice, whatever its amount did in the
\* meantime: "repeated calls never double-credit".
NoDoubleCredit == \A c \in Engines \cup {"hifive"} : totals[c] <= peak[c]

\* "Approving a claim must NEVER pay entitlement that is already in
\* ttlincome5 (legacy + auto-credit), or it double-pays" (hifiveBonus.js).
ApprovalNeverDoublePays == totals["hifive"] <= peak["hifive"]

\* Unilevel is credited at most once in a calendar month (H1, H2).
UnilevelOncePerMonth == \A m \in Months : history.unilevelIn[m] <= 1

\* unilevel.js, header: before the release day of a month "settlement returns
\* 0 so nothing is credited early".  In a month for which nothing has been
\* released yet, no unilevel row is dated.
UnilevelNotEarly == history.unilevelIn[month] > 0 => entitled["unilevel"] > 0
=============================================================================
