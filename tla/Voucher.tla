------------------------------ MODULE Voucher ------------------------------
(***************************************************************************)
(* The digital vouchers of one member (src/services/voucher.js): checkout, *)
(* availments typed in by the cashier, their edits and claims, corrections *)
(* (voucherRequestCorrection.js), suspension, the expiry sweep, grants and *)
(* upgrades, and the revocation of the vouchers of CD accounts.            *)
(*                                                                         *)
(* Every operation is a transaction that takes its locks one at a time:    *)
(* GET_LOCK names, and rows with SELECT ... FOR UPDATE, which it keeps to  *)
(* its end.  What it writes is computed from the rows as they were at its  *)
(* last lock ("seen") and from the snapshot of its first plain SELECT      *)
(* ("view").                                                               *)
(***************************************************************************)
EXTENDS Naturals, FiniteSets, Sequences, FiniteSetsExt, Functions

CONSTANTS
    Procs,        \* connections
    Vids,         \* rows of voucherstab
    Avails,       \* rows of voucher_availmentstab
    Tiers, Face,  \* packages, lowest first, and PACKAGE_AMOUNTS
    Amounts,      \* bound: what a checkout or an availment costs
    StartWallet,  \* bound: ttlcashbalance at the start
    MaxCredits,   \* bound: pesos that settlement adds to it
    MaxDates      \* bound: expiry dates that pass

ASSUME VoucherAssumption ==
    /\ IsFiniteSet(Vids) /\ IsFiniteSet(Avails)
    /\ Tiers \subseteq Nat \ {0} /\ IsFiniteSet(Tiers) /\ Tiers # {}
    /\ Face \in [Tiers -> Nat \ {0}]
    /\ Amounts \subseteq Nat \ {0}
    /\ StartWallet \in Nat /\ MaxCredits \in Nat /\ MaxDates \in Nat

VARIABLES
    account,   \* the member's tier (currentaccttype) and whether the code is CD
    vouchers,  \* voucherstab; status 0 stands for a row that does not exist
    availed,   \* voucher_availmentstab and the linked transaction row
    loose,     \* loose[v]: spent on checkouts that name no product
    wallet,    \* ttlcashbalance
    credits,   \* history: what settlement added to the wallet
    op,        \* op[p]: the operation of p, or NoOp
    step,      \* step[p]: how many locks of its plan p holds
    view,      \* view[p]: its snapshot
    seen       \* seen[p]: the rows as its last lock found them

db   == <<account, vouchers, availed, loose, wallet, credits>>
vars == <<account, vouchers, availed, loose, wallet, credits, op, step, view, seen>>

NoVoucher == [tier |-> 0, left |-> 0, status |-> 0, used |-> FALSE, late |-> FALSE, over |-> FALSE]
NoAvail   == [claim |-> "none"]
NoOp      == [kind |-> "none"]
NoView    == [tier |-> 0, cd |-> FALSE, tiers |-> {}]
NoRows    == [voucher |-> NoVoucher, avail |-> NoAvail, wallet |-> 0]

Active == 1  Expired == 2  FullyUsed == 3  Suspended == 4  Revoked == 5

\* late: expiry_date is past; over: use_expires_at is past.
VoucherRow ==
    [tier : Tiers, left : Nat, status : Active .. Revoked,
     used : BOOLEAN, late : BOOLEAN, over : BOOLEAN]

\* via: source_type of the transaction row, of a checkout or of the cashier.
Availment ==
    [voucher : Vids, total : Amounts, pay : {"wallet", "cash"}, from : {"member", "cashier"},
     claim : {"requested", "claimed", "cancelled"}, via : {"request", "manual"}]

\* AUTO_INCREMENT
NewId(ids, taken) == CHOOSE i \in ids : i \notin taken

Issued  == {v \in Vids : vouchers[v].status # 0}
Recorded == {a \in Avails : availed[a].claim # "none"}
TiersHeld == {vouchers[v].tier : v \in Issued}

OfVoucher == {"redeem", "create", "revoke"}
OfAvail   == {"edit", "claim", "cancel", "reopen"}
Operation ==
    [kind : OfVoucher, voucher : Vids] \cup [kind : OfAvail, avail : Avails]
    \cup [kind : {"grant", "upgrade", "credit"}]

\* The voucher of an operation; an availment never changes its voucher.
VoucherOf(o) == IF o.kind \in OfVoucher THEN o.voucher ELSE availed[o.avail].voucher

TypeOK ==
    /\ account \in [tier : Tiers, cd : BOOLEAN]
    /\ vouchers \in [Vids -> VoucherRow \cup {NoVoucher}]
    /\ availed \in [Avails -> Availment \cup {NoAvail}]
    /\ loose \in [Vids -> Nat] /\ wallet \in Nat /\ credits \in 0 .. MaxCredits
    /\ op \in [Procs -> Operation \cup {NoOp}]
    /\ step \in [Procs -> 0 .. 5]
    /\ \A p \in Procs :
          /\ op[p] = NoOp => step[p] = 0 /\ view[p] = NoView /\ seen[p] = NoRows
          /\ view[p].tiers \subseteq Tiers
    /\ \A a \in Recorded : availed[a].voucher \in Issued
    /\ \A v \in Issued : vouchers[v].left <= Face[vouchers[v].tier]

NewVoucher(t) == [NoVoucher EXCEPT !.tier = t, !.left = Face[t], !.status = Active]

\* A member of the lowest tier, who has the voucher of the registration or,
\* registered before vouchers existed or with a CD code, has none.
Init ==
    \E cd \in BOOLEAN, had \in SUBSET {NewId(Vids, {})} :
        /\ account = [tier |-> Min(Tiers), cd |-> cd]
        /\ cd => had = {}
        /\ vouchers = [v \in Vids |-> IF v \in had THEN NewVoucher(Min(Tiers)) ELSE NoVoucher]
        /\ availed = [a \in Avails |-> NoAvail]
        /\ loose = [v \in Vids |-> 0]
        /\ wallet = StartWallet /\ credits = 0
        /\ op = [p \in Procs |-> NoOp]
        /\ step = [p \in Procs |-> 0]
        /\ view = [p \in Procs |-> NoView]
        /\ seen = [p \in Procs |-> NoRows]
-----------------------------------------------------------------------------
\* Locks.  An availment lock is named after the voucher.
Income     == <<"nogatu_income_calc">>
Named(v)   == <<"nogatu_voucher_availment", v>>
Row(v)     == <<"voucherstab", v>>
AvailRow(a) == <<"voucher_availmentstab", a>>
Wallet     == <<"payouttotaltab">>
Member     == <<"usertab">>

\* A bug: the voucher is locked before the request.
BugCancelLocks(o) == <<Income, Row(VoucherOf(o)), AvailRow(o.avail), Wallet>>

\* cancelVoucherRequest
CancelLocks(o) == <<Income, AvailRow(o.avail), Row(VoucherOf(o)), Wallet>>

\* The locks of an operation, in the order it takes them.  An edit locks the
\* wallet if the old or the new payment is from the wallet, a cashier's entry
\* if it is paid from it; the model lets both lock it in any case.
Plan(o) ==
    CASE o.kind = "redeem" -> <<Income, Row(VoucherOf(o)), Wallet>>
      [] o.kind = "create" -> <<Named(VoucherOf(o)), Row(VoucherOf(o)), Wallet>>
      [] o.kind = "edit"   -> <<AvailRow(o.avail), Named(VoucherOf(o)), Row(VoucherOf(o)), Wallet>>
      [] o.kind = "claim"  -> <<AvailRow(o.avail)>>
      [] o.kind = "cancel" -> CancelLocks(o)
      [] o.kind = "reopen" -> <<Income, AvailRow(o.avail)>>
      [] o.kind = "revoke" -> <<Member, Row(VoucherOf(o))>>
      [] o.kind \in {"grant", "upgrade"} -> <<Member>>
      [] o.kind = "credit" -> <<Income, Wallet>>
      [] OTHER             -> <<>>

\* The lock before the first plain SELECT of the transaction.
ViewAt(kind) ==
    CASE kind = "create" -> 2
      [] kind = "edit"   -> 3
      [] OTHER           -> 1

Held(p)     == {Plan(op[p])[i] : i \in 1 .. step[p]}
Lacks(p)    == step[p] < Len(Plan(op[p]))
NextLock(p) == Plan(op[p])[step[p] + 1]

\* Bugs: the rows of a table are read without FOR UPDATE.
BugFreeMember(lock, others)  == lock = Member \/ \A q \in others : lock \notin Held(q)
BugFreeWallet(lock, others)  == lock = Wallet \/ \A q \in others : lock \notin Held(q)
BugFreeVoucher(lock, others) == Head(lock) = "voucherstab" \/ \A q \in others : lock \notin Held(q)

Free(lock, others) == \A q \in others : lock \notin Held(q)
Ready(p, kind) == op[p].kind = kind /\ ~Lacks(p)

\* What an operation looks up in its snapshot, and what it reads FOR UPDATE.
View(o) ==
    [cd    |-> account.cd /\ o.kind \notin {"cancel", "reopen", "credit", "upgrade"},
     tier  |-> IF o.kind = "grant" THEN account.tier ELSE 0,
     tiers |-> IF o.kind \in {"grant", "upgrade"} THEN TiersHeld ELSE {}]

Rows(o) ==
    [voucher |-> IF o.kind \in OfVoucher \cup {"edit", "cancel"} THEN vouchers[VoucherOf(o)] ELSE NoVoucher,
     avail   |-> IF o.kind \in OfAvail THEN availed[o.avail] ELSE NoAvail,
     wallet  |-> IF o.kind \in {"redeem", "create", "edit", "cancel", "credit"} THEN wallet ELSE 0]

\* The n-th lock of operation o is granted.
Acquire(p, o, n) ==
    /\ Free(Plan(o)[n], Procs \ {p})
    /\ step' = [step EXCEPT ![p] = n]
    /\ seen' = [seen EXCEPT ![p] = IF n = Len(Plan(o)) THEN Rows(o) ELSE @]
    /\ view' = [view EXCEPT ![p] = IF n = ViewAt(o.kind) THEN View(o) ELSE @]
    /\ UNCHANGED db

\* A transaction that waits for its first lock holds none, so it begins with it.
Start(p) ==
    /\ op[p] = NoOp
    /\ \E o \in Operation :
          /\ o.kind \in OfVoucher => o.voucher \in Issued
          /\ o.kind \in OfAvail => o.avail \in Recorded
          /\ op' = [op EXCEPT ![p] = o]
          /\ Acquire(p, o, 1)

Lock(p) ==
    /\ Lacks(p)
    /\ Acquire(p, op[p], step[p] + 1)
    /\ UNCHANGED op

\* The transaction ends and its locks are released.
End(p) ==
    /\ op' = [op EXCEPT ![p] = NoOp]
    /\ step' = [step EXCEPT ![p] = 0]
    /\ view' = [view EXCEPT ![p] = NoView]
    /\ seen' = [seen EXCEPT ![p] = NoRows]

\* A refusal, a lock that is not granted in time, an error or a crash.
Abort(p) ==
    /\ op[p] # NoOp
    /\ End(p)
    /\ UNCHANGED db
-----------------------------------------------------------------------------
\* The window that counts: to expiry_date, from the first use to use_expires_at.
PastExpiry(r) == IF r.used THEN r.over ELSE r.late

\* Takes n more out of a voucher, after it has given back what an entry had.
Deduct(r, back, n) ==
    [r EXCEPT !.left = r.left + back - n,
              !.status = IF r.left + back = n THEN FullyUsed ELSE Active,
              !.used = TRUE]

SetVoucher(v, r) == vouchers' = [vouchers EXCEPT ![v] = r]
\* What a transaction writes leaves the dates to time.
Write(v, r)      == SetVoucher(v, [r EXCEPT !.late = vouchers[v].late, !.over = vouchers[v].over])
SetAvail(a, e)   == availed' = [availed EXCEPT ![a] = e]

\* redeemVoucher: the checkout of a product is an availment to be claimed.
Redeem(p) ==
    /\ Ready(p, "redeem") /\ ~view[p].cd
    /\ LET v == op[p].voucher
           r == seen[p].voucher
       IN /\ r.status = Active /\ ~PastExpiry(r)
          /\ \E n \in Amounts :
                /\ n <= r.left /\ n <= seen[p].wallet
                /\ Write(v, Deduct(r, 0, n))
                /\ wallet' = seen[p].wallet - n
                /\ \/ /\ loose' = [loose EXCEPT ![v] = @ + n]
                      /\ UNCHANGED availed
                   \/ /\ Recorded # Avails
                      /\ SetAvail(NewId(Avails, Recorded),
                             [voucher |-> v, total |-> n, pay |-> "wallet",
                              from |-> "member", claim |-> "requested", via |-> "request"])
                      /\ UNCHANGED loose
    /\ End(p)
    /\ UNCHANGED <<account, credits>>

FromWallet(pay, n) == IF pay = "wallet" THEN n ELSE 0

\* assertVoucherManualAvailmentAllowed
ManualAllowed(r) == r.status \notin {Suspended, Expired} /\ ~PastExpiry(r)

\* createManualVoucherAvailment: what the cashier types in is claimed at once.
Create(p) ==
    /\ Ready(p, "create") /\ ~view[p].cd
    /\ LET v == op[p].voucher
           r == seen[p].voucher
       IN /\ ManualAllowed(r) /\ r.status # FullyUsed
          /\ \E n \in Amounts, pay \in {"wallet", "cash"} :
                /\ n <= r.left /\ Recorded # Avails
                /\ FromWallet(pay, n) <= seen[p].wallet
                /\ Write(v, Deduct(r, 0, n))
                /\ wallet' = seen[p].wallet - FromWallet(pay, n)
                /\ SetAvail(NewId(Avails, Recorded),
                       [voucher |-> v, total |-> n, pay |-> pay,
                        from |-> "cashier", claim |-> "claimed", via |-> "manual"])
    /\ End(p)
    /\ UNCHANGED <<account, loose, credits>>

\* updateManualVoucherAvailment
Edit(p) ==
    /\ Ready(p, "edit") /\ ~view[p].cd
    /\ LET e == seen[p].avail
           r == seen[p].voucher
       IN /\ e.claim # "cancelled"
          /\ ManualAllowed(r)
          /\ \E n \in Amounts, pay \in {"wallet", "cash"} :
                /\ n <= r.left + e.total
                /\ FromWallet(pay, n) <= seen[p].wallet + FromWallet(e.pay, e.total)
                /\ Write(e.voucher, Deduct(r, e.total, n))
                /\ wallet' = seen[p].wallet + FromWallet(e.pay, e.total) - FromWallet(pay, n)
                /\ SetAvail(op[p].avail, [e EXCEPT !.total = n, !.pay = pay, !.via = "manual"])
    /\ End(p)
    /\ UNCHANGED <<account, loose, credits>>

\* markVoucherAvailmentClaimed
Claim(p) ==
    /\ Ready(p, "claim") /\ ~view[p].cd
    /\ LET e == seen[p].avail
       IN /\ e.claim = "requested"
          /\ SetAvail(op[p].avail, [e EXCEPT !.claim = "claimed"])
    /\ End(p)
    /\ UNCHANGED <<account, vouchers, loose, wallet, credits>>

\* loadLockedRequest: a checkout of the member that no cashier has edited.
IsRequest(e) == e.from = "member" /\ e.via = "request"

\* cancelVoucherRequest: cash and voucher are paid back.  A fully used voucher
\* comes back by its expiry_date, although it has been used.
Cancel(p) ==
    /\ Ready(p, "cancel")
    /\ LET e == seen[p].avail
           r == seen[p].voucher
       IN /\ IsRequest(e) /\ e.claim = "requested" /\ e.pay = "wallet"
          /\ r.left + e.total <= Face[r.tier]
          /\ Write(e.voucher,
                 [r EXCEPT !.left = @ + e.total,
                           !.status = IF @ # FullyUsed THEN @ ELSE IF r.late THEN Expired ELSE Active])
          /\ wallet' = seen[p].wallet + e.total
          /\ SetAvail(op[p].avail, [e EXCEPT !.claim = "cancelled"])
    /\ End(p)
    /\ UNCHANGED <<account, loose, credits>>

\* reopenVoucherRequest
Reopen(p) ==
    /\ Ready(p, "reopen")
    /\ LET e == seen[p].avail
       IN /\ IsRequest(e) /\ e.claim = "claimed"
          /\ SetAvail(op[p].avail, [e EXCEPT !.claim = "requested"])
    /\ End(p)
    /\ UNCHANGED <<account, vouchers, loose, wallet, credits>>
-----------------------------------------------------------------------------
\* issuePackageVoucher, if isEligibleForPackageVoucher agrees: the snapshot has
\* no CD account and no voucher of the tier, in any status.
Issue(t, cd, tiers) ==
    /\ ~cd /\ t \notin tiers
    /\ Issued # Vids
    /\ SetVoucher(NewId(Vids, Issued), NewVoucher(t))

\* POST /grant, for one uid.
Grant(p) ==
    /\ Ready(p, "grant")
    /\ Issue(view[p].tier, view[p].cd, view[p].tiers)
    /\ End(p)
    /\ UNCHANGED <<account, availed, loose, wallet, credits>>

\* POST /upgrade, as far as vouchers go.  It fails open: an error on the way to
\* the voucher is logged and the upgrade is kept.
Upgrade(p) ==
    /\ Ready(p, "upgrade")
    /\ \E t \in Tiers, cd \in BOOLEAN :
          /\ t > account.tier
          /\ account' = [tier |-> t, cd |-> cd]
          /\ Issue(t, cd, view[p].tiers) \/ UNCHANGED vouchers
    /\ End(p)
    /\ UNCHANGED <<availed, loose, wallet, credits>>

\* applyManifest of cdVoucherRevocation.js, for one voucher of the manifest.
Revoke(p) ==
    /\ Ready(p, "revoke") /\ view[p].cd
    /\ LET r == seen[p].voucher
       IN /\ r.status # Revoked
          /\ Write(op[p].voucher, [r EXCEPT !.status = Revoked])
    /\ End(p)
    /\ UNCHANGED <<account, availed, loose, wallet, credits>>

\* calculateAndStoreIncome settles a peso of income.
Credit(p) ==
    /\ Ready(p, "credit") /\ credits < MaxCredits
    /\ wallet' = seen[p].wallet + 1
    /\ credits' = credits + 1
    /\ End(p)
    /\ UNCHANGED <<account, vouchers, availed, loose>>

\* Statements of their own, which wait for the row.
SetStatus(v, from, to) ==
    /\ vouchers[v].status = from
    /\ Free(Row(v), Procs)
    /\ SetVoucher(v, [vouchers[v] EXCEPT !.status = to])
    /\ UNCHANGED <<account, availed, loose, wallet, credits, op, step, view, seen>>

Suspend(v)   == SetStatus(v, Active, Suspended)
Unsuspend(v) == SetStatus(v, Suspended, Active)

\* The UPDATE of getVouchers and of getAllVouchers.
Sweep(v) == PastExpiry(vouchers[v]) /\ SetStatus(v, Active, Expired)

\* A date passes.
Age(v) ==
    /\ v \in Issued
    /\ Cardinality({u \in Vids : vouchers[u].late}) + Cardinality({u \in Vids : vouchers[u].over}) < MaxDates
    /\ \/ ~vouchers[v].late /\ SetVoucher(v, [vouchers[v] EXCEPT !.late = TRUE])
       \/ vouchers[v].used /\ ~vouchers[v].over /\ SetVoucher(v, [vouchers[v] EXCEPT !.over = TRUE])
    /\ UNCHANGED <<account, availed, loose, wallet, credits, op, step, view, seen>>

Transaction(p) ==
    \/ Redeem(p) \/ Create(p) \/ Edit(p) \/ Claim(p) \/ Cancel(p) \/ Reopen(p)
    \/ Grant(p) \/ Upgrade(p) \/ Revoke(p) \/ Credit(p)

Next ==
    \/ \E p \in Procs : Start(p) \/ Lock(p) \/ Abort(p) \/ Transaction(p)
    \/ \E v \in Vids : Suspend(v) \/ Unsuspend(v) \/ Sweep(v) \/ Age(v)

Spec == Init /\ [][Next]_vars
-----------------------------------------------------------------------------
Live(a)    == a \in Recorded /\ availed[a].claim # "cancelled"
Taken(v)   == [a \in Avails |-> IF Live(a) /\ availed[a].voucher = v THEN availed[a].total ELSE 0]
Paid       == [a \in Avails |-> IF Live(a) THEN FromWallet(availed[a].pay, availed[a].total) ELSE 0]
Spent(v)   == loose[v] + SumFunctionOnSet(Taken(v), Avails)
PaidByWallet == SumFunctionOnSet(loose, Vids) + SumFunctionOnSet(Paid, Avails)

\* "Buy 1 Take 1": whatever checkouts, entries, edits, cancellations and
\* settlements run into each other, a voucher lacks exactly what its live
\* entries took, and the wallet what was paid from it.
BalancesReconcile ==
    /\ \A v \in Issued : vouchers[v].left + Spent(v) = Face[vouchers[v].tier]
    /\ wallet + PaidByWallet = StartWallet + credits

\* "two concurrent upgrades to the same tier can both pass this check and
\* double-grant": grants and upgrades together issue one voucher a package.
OneVoucherPerTier ==
    \A u, v \in Issued : u # v => vouchers[u].tier # vouchers[v].tier

\* The transactions implement VoucherBook, in which each is a single step that
\* the vouchers and the wallet of that moment allow.  So, whatever runs into
\* it, no operation spends a voucher that has been suspended since it began,
\* overdraws one, or gives an entry back twice.
State(r) ==
    CASE r.status = 0         -> "unissued"
      [] r.status = Active    -> "open"
      [] r.status = Suspended -> "suspended"
      [] OTHER                -> "shut"
TheBook == [v \in Vids |-> [tier |-> vouchers[v].tier, left |-> vouchers[v].left,
                            state |-> State(vouchers[v])]]
Written(e) ==
    CASE e.claim = "none"      -> [state |-> "none"]
      [] e.claim = "cancelled" -> [state |-> "void"]
      [] OTHER -> [state |-> "live", voucher |-> e.voucher, taken |-> e.total,
                   paid |-> FromWallet(e.pay, e.total)]
TheEntries == [a \in Avails |-> Written(availed[a])]
Book == INSTANCE VoucherBook WITH book <- TheBook, entries <- TheEntries
ImplementsBook == Book!Spec

\* No set of transactions waits for locks inside the set only.
WaitsFor(p, q) == Lacks(p) /\ NextLock(p) \in Held(q)
NoWaitCycle ==
    \A S \in (SUBSET Procs) \ {{}} : \E p \in S : \A q \in S : ~WaitsFor(p, q)
=============================================================================
