----------------------------- MODULE Encashment -----------------------------
(***************************************************************************)
(* Encashments from the request to the reports: the member's wallet and CD *)
(* debt, the rows of payouthistorytab, their mirror in encashmentstab, the *)
(* admin's "process" button, and what the encashment list, the CD account  *)
(* list and the finance page make of those rows; and the vouchers, whose   *)
(* transactions move the same wallet and write no row of the history.      *)
(*                                                                         *)
(* insertEncashment is one transaction under the lock of the member's      *)
(* payouttotaltab row (module Wallet interleaves it with the other         *)
(* requests that take it), so it is one step here.  One member is          *)
(* modelled: no statement relates the rows of two.  Amounts are centavos.  *)
(***************************************************************************)
EXTENDS Integers, FiniteSets, Sequences, Functions

CONSTANTS
    Amounts,        \* what a member asks for
    Incomes,        \* what settlement credits at once
    Charges,        \* what the voucher transactions that stand may have cost together
    Debts,          \* the package amounts of CD codes
    RequestIds,     \* X-Request-ID headers; a client may send one twice
    LegacyUpgrade,  \* may the account's upgrade predate routes/codes.js?
    MaxRows, MaxUpgrades, MaxDay        \* bounds

Processing  == 5000
Maintenance == 2000

VARIABLES
    account,    \* balance, raw usertab columns, and whether a payout is set up
    upgrade,    \* the latest upgradetab row's code: type and amount
    paper,      \* payouthistorytab, in the order of pid
    mirror,     \* encashmentstab (income_eventstab takes a row with each)
    vouchered,  \* voucher_transactionstab: the cash_paid that the wallet paid, in all
    migrated,   \* the ledger tables exist
    today,
    upgraded    \* history: upgrades, and the rows there were at the last one

vars == <<account, upgrade, paper, mirror, vouchered, migrated, today, upgraded>>

NoUpgrade == [code |-> "none", amount |-> 0]

-----------------------------------------------------------------------------
(* utils/finance.js *)

Least(a, b) == IF a < b THEN a ELSE b

\* roundMoney of a tenth and of a quarter: halves go up.
Tax(g)     == (g + 5) \div 10
Quarter(g) == (g + 2) \div 4

\* The variant that takes the quarter whatever is still owed.
BugBreakdown(g, owing) ==
    LET cd == IF owing > 0 THEN Quarter(g) ELSE 0
    IN  [tax |-> Tax(g), cd |-> cd, net |-> g - (Tax(g) + Processing + Maintenance + cd)]

\* calculateEncashmentBreakdown: owing is what remains of an active CD debt.
Breakdown(g, owing) ==
    LET cd == Least(Quarter(g), owing)
    IN  [tax |-> Tax(g), cd |-> cd, net |-> g - (Tax(g) + Processing + Maintenance + cd)]

\* getEffectiveAccountState: the raw columns, unless the latest upgrade says
\* otherwise.
Effective ==
    LET raw == [code |-> account.code, owed |-> account.owed,
                paid |-> account.paid, status |-> account.status]
    IN  CASE upgrade.code = "PD" /\ raw.code = "CD" ->
                [code |-> "PD", owed |-> raw.owed, status |-> 2,
                 paid |-> IF raw.paid > raw.owed THEN raw.paid ELSE raw.owed]
          [] upgrade.code \in {"PD", "FS"} /\ ~(upgrade.code = "PD" /\ raw.code = "CD") ->
                [code |-> upgrade.code, owed |-> 0, paid |-> 0, status |-> 0]
          [] upgrade.code = "CD" /\ ~(raw.code = "CD" /\ raw.owed = upgrade.amount) ->
                [code |-> "CD", owed |-> upgrade.amount, paid |-> 0, status |-> 1]
          [] OTHER -> raw

Owing(state) ==
    IF state.code = "CD" /\ state.status = 1 /\ state.owed > state.paid
    THEN state.owed - state.paid
    ELSE 0

-----------------------------------------------------------------------------
(* What changes the account. *)

Blank(code, debt) ==
    [balance |-> 0, payout |-> FALSE, code |-> code,
     owed |-> IF code = "CD" THEN debt ELSE 0, paid |-> 0,
     status |-> IF code = "CD" THEN 1 ELSE 0]

\* A registered account; or one whose CD upgrade left the columns of the
\* registration, as rows of the PHP program do.
Init ==
    /\ \/ /\ \E code \in {"PD", "FS", "CD"}, d \in Debts : account = Blank(code, d)
          /\ upgrade = NoUpgrade
       \/ /\ LegacyUpgrade
          /\ \E d, amount \in Debts :
                /\ d < amount
                /\ account = Blank("CD", d)
                /\ upgrade = [code |-> "CD", amount |-> amount]
    /\ paper = <<>> /\ mirror = {} /\ vouchered = 0
    /\ migrated \in BOOLEAN
    /\ today = 1
    /\ upgraded = [times |-> 0, at |-> 0]

Row(kind, begin, end, net, tax, cd) ==
    [kind |-> kind, begin |-> begin, end |-> end, net |-> net, tax |-> tax,
     cd |-> cd, paid |-> FALSE, day |-> today]

\* insertIncome: a settlement credits what is new.
Credit(a) ==
    /\ Len(paper) < MaxRows
    /\ account' = [account EXCEPT !.balance = @ + a]
    /\ paper' = Append(paper, Row("income", account.balance, account.balance + a, 0, 0, 0))
    /\ UNCHANGED <<upgrade, mirror, vouchered, migrated, today, upgraded>>

\* PUT /api/account: the payout columns are overwritten, an absent or
\* unknown option clears them.
SavePayout(set) ==
    /\ account.payout # set
    /\ account' = [account EXCEPT !.payout = set]
    /\ UNCHANGED <<upgrade, paper, mirror, vouchered, migrated, today, upgraded>>

\* A voucher checkout, an availment paid by wallet, its edit, also to cash at
\* the office, or the cancellation of a request: the wallet pays, or is paid
\* back, the difference of what the transactions cost (modules Wallet and
\* Voucher have each of them).
PayVouchers(cost) ==
    /\ cost # vouchered
    /\ cost - vouchered <= account.balance
    /\ account' = [account EXCEPT !.balance = @ - (cost - vouchered)]
    /\ vouchered' = cost
    /\ UNCHANGED <<upgrade, paper, mirror, migrated, today, upgraded>>

\* POST /api/codes/upgrade: a CD upgrade starts a debt, any other ends it.
Upgrade(code, debt) ==
    /\ upgraded.times < MaxUpgrades
    /\ LET a == Blank(code, debt)
       IN  account' = [a EXCEPT !.balance = account.balance, !.payout = account.payout]
    /\ upgrade' = [code |-> code, amount |-> debt]
    /\ upgraded' = [times |-> upgraded.times + 1, at |-> Len(paper)]
    /\ UNCHANGED <<paper, mirror, vouchered, migrated, today>>

\* The variant whose duplicate claims the newer row of the history.
BugMirrored(row) ==
    IF \E r \in mirror : r.key = row.key
    THEN {IF r.key = row.key THEN [r EXCEPT !.pid = row.pid] ELSE r : r \in mirror}
    ELSE mirror \cup {row}

\* INSERT ... ON DUPLICATE KEY UPDATE updated_at = updated_at.
Mirrored(row) ==
    IF \E r \in mirror : r.key = row.key THEN mirror ELSE mirror \cup {row}

\* insertEncashment.
Encash(amount, request) ==
    /\ Len(paper) < MaxRows
    /\ amount <= account.balance
    /\ account.payout
    /\ \E state \in {Effective} : \E b \in {Breakdown(amount, Owing(state))} :
         LET end == account.balance - amount
         IN /\ b.net > 0
            /\ account' = [account EXCEPT
                 !.balance = end,
                 !.paid   = IF b.cd > 0 THEN state.paid + b.cd ELSE @,
                 !.status = IF b.cd = 0 THEN @
                            ELSE IF state.paid + b.cd >= state.owed THEN 2 ELSE 1]
            /\ paper' = Append(paper, Row("encashment", account.balance, end, b.net, b.tax, b.cd))
            /\ mirror' = IF migrated
                 THEN Mirrored([key |-> <<request, amount>>, pid |-> Len(paper) + 1,
                                amount |-> amount, tax |-> b.tax, cd |-> b.cd, net |-> b.net])
                 ELSE mirror
    /\ UNCHANGED <<upgrade, vouchered, migrated, today, upgraded>>

\* PUT /api/admin/encashment/:pid/process: any row of the member, an income
\* or one that is paid already included; the date of the row becomes today.
Process(pid) ==
    /\ paper' = [paper EXCEPT ![pid].paid = TRUE, ![pid].day = today]
    /\ UNCHANGED <<account, upgrade, mirror, vouchered, migrated, today, upgraded>>

\* npm run db:migrate creates the ledger tables.
Migrate ==
    /\ ~migrated
    /\ migrated' = TRUE
    /\ UNCHANGED <<account, upgrade, paper, mirror, vouchered, today, upgraded>>

NextDay ==
    /\ today < MaxDay
    /\ today' = today + 1
    /\ UNCHANGED <<account, upgrade, paper, mirror, vouchered, migrated, upgraded>>

Next ==
    \/ \E a \in Incomes : Credit(a)
    \/ \E set \in BOOLEAN : SavePayout(set)
    \/ \E cost \in Charges \cup {0} : PayVouchers(cost)
    \/ \E code \in {"PD", "FS", "CD"}, d \in Debts : Upgrade(code, d)
    \/ \E a \in Amounts, r \in RequestIds : Encash(a, r)
    \/ \E pid \in DOMAIN paper : Process(pid)
    \/ Migrate \/ NextDay

Spec == Init /\ [][Next]_vars

-----------------------------------------------------------------------------
(* The reports. *)

Encashments == {i \in DOMAIN paper : paper[i].kind = "encashment"}

\* What each row shows, and its total over some of the rows.
Net == [i \in DOMAIN paper |-> paper[i].net]
Cut == [i \in DOMAIN paper |-> paper[i].tax + Processing + paper[i].cd]
Cds == [i \in DOMAIN paper |-> paper[i].cd]
Total(f, rows) == SumFunctionOnSet(f, rows)

\* buildEncashmentSummary: of the whole list, and of each day.
Summary(rows) ==
    [records |-> Cardinality(rows),
     net     |-> Total(Net, rows),
     cuts    |-> Total(Cut, rows),
     gross   |-> Total(Net, rows) + Total(Cut, rows),
     paid    |-> Cardinality({i \in rows : paper[i].paid})]

On(d) == {i \in Encashments : paper[i].day = d}
Daily == [d \in 1 .. MaxDay |-> Summary(On(d))]

\* deriveCdSettlementState, for the accounts the CD list shows.
Deducted == Total(Cds, DOMAIN paper)
CdLabel ==
    CASE Deducted >= account.owed -> "Fully Paid"
      [] Deducted < account.owed /\ (account.status = 2 \/ account.paid >= account.owed) ->
            "Settled Outside Deduction"
      [] OTHER -> "Unpaid"

\* loadEncashmentWalletByYear: no statement ever sets a mirrored row's status
\* to anything but `submitted', so every payout is pending there.
FinanceWallet ==
    [requested |-> Total([r \in mirror |-> r.amount], mirror),
     pending   |-> Total([r \in mirror |-> r.net], mirror), paidOut |-> 0,
     service   |-> Total([r \in mirror |-> r.tax + Processing + Maintenance], mirror),
     recovered |-> Total([r \in mirror |-> r.cd], mirror)]

-----------------------------------------------------------------------------
\* The deductions since the debt began.
Taken == Total(Cds, {i \in DOMAIN paper : i > upgraded.at})

\* What the wallet lost with each row.
Spent == [i \in DOMAIN paper |-> paper[i].begin - paper[i].end]

(* The reports agree with the wallet.  A row of the history need not start *)
(* where the one before it ended, for vouchers move the wallet between     *)
(* two of them without a row (services/voucher.js:636), but history and    *)
(* voucher transactions together account for every centavo of the balance. *)
(* Over all encashments the wallet lost exactly the gross of the report    *)
(* plus one maintenance fee for each, which that report leaves out         *)
(* (services/adminReporting.js:17).  A mirrored row is one encashment with *)
(* the same amounts, however often a request identifier is reused, and     *)
(* none is counted twice (services/income/insertIncome.js:296): the        *)
(* finance page shows a part of what was paid.                             *)
ReportsAgree ==
    /\ account.balance + vouchered + Total(Spent, DOMAIN paper) = 0
    /\ LET report == Summary(Encashments)
       IN /\ Total(Spent, Encashments) = report.gross + Maintenance * report.records
          /\ Total([d \in 1 .. MaxDay |-> Daily[d].gross], 1 .. MaxDay) = report.gross
    /\ \A r \in mirror :
          /\ r.pid \in Encashments
          /\ paper[r.pid].net = r.net /\ paper[r.pid].tax = r.tax /\ paper[r.pid].cd = r.cd
          /\ paper[r.pid].begin - paper[r.pid].end = r.amount
    /\ \A r, s \in mirror : r.pid = s.pid => r = s
    /\ FinanceWallet.pending <= Summary(Encashments).net
    /\ FinanceWallet.recovered <= Deducted

(* Encashments settle a CD debt exactly: what was deducted since the debt  *)
(* began is what the account has paid, it never exceeds what was owed, and *)
(* the account leaves status 1 when the last centavo is in, not earlier.   *)
(* While there was no upgrade, "Fully Paid" in the CD list says the same   *)
(* (services/income/insertIncome.js:251).                                  *)
CdSettled ==
    account.code = "CD" =>
        /\ account.paid = Taken /\ Taken <= account.owed
        /\ account.status = IF Taken = account.owed THEN 2 ELSE 1
        /\ upgraded.times = 0 => (CdLabel = "Fully Paid") = (account.status = 2)

(* A CD debt is never deducted beyond what it was: the deductions since    *)
(* it began stay within the amount of the code that started it             *)
(* (services/income/insertIncome.js:251, "increment cdtotal and clear      *)
(* cdstatus when fully paid").  It does not hold for a LegacyUpgrade.      *)
DebtNotExceeded ==
    Taken <= IF upgrade.code = "CD" THEN upgrade.amount ELSE account.owed

=============================================================================
