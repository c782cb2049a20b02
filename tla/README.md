# TLA+ models of the NOGATU Alliance backend

The repository is the backend of a multi-level-marketing company: an Express
application over one MySQL (InnoDB) database, run by PM2 as a cluster of two
processes, with Cloudinary for pictures and SMTP for mail. Members register
other members with activation codes, earn several kinds of income into an
e-wallet, spend it on encashments and vouchers, and upgrade their package.
Everything that is hard about it is concurrency over shared rows: two
processes, a pool of 20 connections each, `GET_LOCK` session locks, row locks,
guarded `UPDATE`s, and reads that are older than the writes they lead to.

This directory holds the specifications, their TLC configurations, and proofs.

## 1. Inventory

| Component | State | Operations | Interacts with | What makes it correct |
|---|---|---|---|---|
| Idempotency middleware (`middleware/idempotency.js`) | `idempotency_keystab` | claim a key, replay, take over a stale claim, finalise, sweep | every state-changing route | one claim at a time, stored answers go to the right request, nobody is shut out for ever |
| Income settlement and wallet (`services/income/*`) | `payouttotaltab`, `payouthistorytab`, `incometransdatetab` | settle, encash, auto-credit | vouchers, Hi-Five, ranking: all write the same wallet row | balance = history - debits, no income twice, one unilevel a month |
| Income engines (`income/pairing*.js`, `directReferral.js`, `leadership.js`, `unilevel.js`) | `usertab` trees, closure and event tables, pairing ledger | compute, synchronise the trace | settlement, registration, upgrade | two engines agree, no income above what backs it |
| Hi-Five bonus (`income/hifiveBonus.js`) | claims, qualification ledger, per-package high-water | submit, approve, reject, auto-credit, observe, redeem | wallet, upgrade | a completed set is paid once and never lost |
| Registration (`services/registration.js`) | `usertab`, `memberstab`, closure table, `placement_lockstab`, session locks | register (member, invite, link) | codes, placement, vouchers, ranking | one member per slot and username, one package per code, one use per invite |
| Activation codes (`services/codeConsumption.js`, `codeGeneration.js`, `routes/codes.js`) | `codestab` with twins and legacy rows | generate, release, transfer, consume by registration, upgrade, maintenance | registration, Hi-Five, ranking | a code is made once and used once, by its holder |
| Placement (`services/placementRecommendation.js`) | reads `usertab` | recommend the outermost open slot | registration | the slot is open |
| Vouchers (`services/voucher.js`, `voucherRequestCorrection.js`) | `voucherstab`, availments, transactions | issue, redeem, avail, edit, claim, cancel, reopen, suspend, revoke | wallet, upgrade | a voucher is never overspent, given twice, or spent while suspended |
| Encashment administration | `encashmentstab`, `cashstatus` | request, process, report | wallet, CD accounts | four reports of the same rows agree |
| Account state, CD accounts | `usertab` CD columns | effective state, deductions | wallet, upgrade | a debt is paid exactly |
| Job worker (`services/jobWorker.js`) | `job_queuetab`, Cloudinary folder | lease, retry, reclaim, prune, sweep | support | exclusive leases, the sweep never stops, sent pictures survive |
| Support (`routes/support.js`, `routes/admin/support.js`) | tickets, replies, attachments, receipts | create, reply, open, set status, push | job worker | both sides see the thread as it is |
| Ranking (`services/ranking*.js`, `rankPoints.js`) | rank points, achievements, incentives | refresh, award, flag, hand over | codes, wallet | a rank is paid for by points consumed once |
| Global bonus (`services/globalBonus.js`) | pool, shares, overrides | compute, distribute, override | ranking | shares are the year's pool, the barred get none |
| Sessions, authentication, access accounts | sessions store, `accesstab`, member status | log in, reset, view-as, create, demote, delete | all routes | nobody acts beyond what they are now |
| Start-up and migrations | schema, `schema_migrations`, readiness cache | migrate, start, check | all | nothing claims a schema that is not there |
| Connection pool (`config/database.js`) | 20 connections per process | get, release | all | requests that hold one and want another do not starve |
| Reporting, genealogy, news, mail, scripts | - | reads, independent row writes | - | - |

Hard behaviours: overlapping requests on one member's wallet; snapshots that
are older than the locks (InnoDB runs at its default REPEATABLE READ: nothing
in the source changes it); session locks that outlive transactions; two
processes and overlapping timer ticks; crashes between a commit and the
bookkeeping after it; client retries and double-taps; calendar months that
end in mid-calculation; deployments that migrate beside a running server;
legacy data (twin codes, used codes still released, PHP-era members).
`PROJECT.json` lists each hazard at its line, with the properties that cover
it or the reason why none does.

## 2. Plan

| Module | Composes | Abstract promise, main properties | State |
|---|---|---|---|
| `Idempotency`, run by `MCIdempotency` | - | one claim, right answer, answered | checked and proved, but `Answered` |
| `Wallet`, run by `MCWallet` | - | ledger, no double credit, one unilevel a month | checked and proved |
| `JobQueue` | worker and support uploads | exclusive lease, chain alive, no leak | checked and proved, but `LeaseEnds` and `NoLeak` |
| `Registration` | registration and code consumption | one package per code, collisions need stale snapshots | checked and proved |
| `Codes` | generation, transfers, uses, Hi-Five counts | a code is made once and used once by its holder; a completed set stays earned | checked and proved |
| `Voucher` over `VoucherBook` | checkout, grants, corrections, suspension | the transactions implement one-step operations | checked and proved, the refinement as well |
| `Ranking`, `GlobalBonus` | refreshes, awards; distributions | paid in full, numbered in order; shares of the pool | checked and proved |
| `Engines` | placement, four engines, trace | engines agree, income is backed | checked and proved, the agreement of the pairing engines under a condition (section 5) |
| `Encashment` | request, Process, four reports, CD debts | reports agree, debts end exactly | checked and proved |
| `Support`, `Startup`, `Access`, `Enrolment` | see section 3 | see section 4 | checked and proved |
| `Sums` | - | what sums over tables, least and largest elements do | proved |
| settlement sweep, transactions | `scripts/settle_income_sweep.js` over `Wallet` | every member is settled once a sweep | not begun |

Recursion is written with recursive functions or with the folds of the
community modules, and constants carry named assumptions where a proof needs
them, so that every module can be used from a proof module.

## 3. The modules

**Idempotency.** The middleware around one key. `row` is the set (of at most
one) of rows of the UNIQUE `(scope, actor_uid, idem_key)`; `Clients` are
requests that carry the key, each with the hash of its body. Every statement
of the middleware is an action: the claiming INSERT, the SELECT after a
duplicate and the decisions on it, the DELETE and INSERT of a takeover, the
bookkeeping that `res.json` starts *after* the answer has gone out, the random
sweep. Handlers, client retries and process crashes are external actions. Ages
are fresh, stale (60 s) or expired (7 days). `SlowHandlers` tells whether a
claim may get stale while its handler still runs.

**Wallet.** One member's wallet row and everything that moves its money: the
settlement (`calc`, followed by the Hi-Five `autocredit` on a connection of its
own), `encash`, an admin's `approve`, and the voucher paths (`checkout`,
`cancel`, `availment`, `edit`). Two locks order them: `incomeLock`, the session
lock `GET_LOCK('nogatu_income_calc_<uid>')`, and `rowLock`, the row lock of the
wallet. What a transaction writes is invisible before its COMMIT, so writes are
one step; the reads that precede the lock (`ReadTotals`, `RunEngines`,
`ReadHiFive`) are steps of their own, which is where the staleness lies. The
engines' results are an input, `entitled`: dref, pairing and leadership may
rise and fall, Hi-Five counts from its high-water and only rises, unilevel
belongs to a month. `Abort` is any refusal, failed statement, deadlock victim,
time-out or crash; `LoseSessionLock` is the death of the locking connection
alone. The lifetime ceiling (a pass-through for the current policies) is left
out; amounts are whole pesos.

**Voucher and VoucherBook.** `Voucher` has the transactions of one member's
vouchers as they are written: each takes its locks one at a time in the order
of its plan (`Plan` of the operation), reads its snapshot at its first plain
SELECT (`view`) and the rows at its last lock (`seen`), and commits in one step
what it computed from both (`Write`: only rows it changes are written, and
dates pass at any time). `VoucherBook` has no connections, locks or
snapshots: in one step an entry takes of a voucher and of the wallet what is
there at that moment (`Take`), changes (`Change`) or gives it back
(`GiveBack`), a voucher is issued or turned, the wallet earns. The refinement
mapping (`Book == INSTANCE VoucherBook WITH`) forgets who holds which lock and
the difference between the reasons a voucher is shut; a cancelled entry is
`void`. Where a create or an edit turns a revoked voucher active again, so
does the book, because the code does.

**Codes.** `codestab` with the batches of `generateCodes`, release, the three
transfers, upgrade, maintenance and registration, and what a use earns the
sponsor: the package counts of Hi-Five with their high-water, observed before
an upgrade commits, and the monthly product sets with their redemptions. A
request reads its code, and writes under the condition of its UPDATE.

**Ranking.** A refresh is a transaction with a snapshot (`refresh[p].at`); it
rebuilds the sponsor downline of a member bottom-up (`RebuildOne`) and commits
if no award of it was inserted meanwhile. The consumption of points, per member
and global, the sequence counter, the incremental shadow points (updated after
the commit and lost in a crash), hand-over of an incentive, and flags with
their release in three autocommit statements are separate steps.

**GlobalBonus.** One closed year: a distribution's queries of accounts, ranks
and overrides on separate connections, in any order (`Read`), one transaction
that replaces the shares (`Pay`), and the four edits of the list.

**Engines.** Members join (by hand or by recommendation), upgrade, pay off a
CD debt, buy and are settled, day by day. Pairing is computed twice: from
`usertab` by day (`GetPairing`) and from closure and event tables by pair of
events (`Rows`, with `Backfilled` events), as in the code, which shares nothing
between the two. Unilevel is computed three times, each with the scan that the
code has for it: the projection goes from level to level and skips whom it has
visited, the settlement asks for the depth, the contributors' page goes from
level to level and does not ask (`Scanned`). They share `Rate`, as the code
shares `compressQualifyingLevels` (`unilevel.js:345`, `397`, `536`). A
settlement credits leadership above what is stored less the member's
`leadership_credit_offset` (`calculateAndStoreIncome.js:71-77`), which the
script `set_leadership_offset.js` sets to the excess over the engine
(`Forgive`), so that stored leadership may lastingly exceed the engine's.
Bounds: depth is unlimited, the sealing point 0, a lifetime ceiling 0 (so no
credit is partial), ties of time go by id, one synchronisation of an owner at
a time and its rows written together; the offset script, which is run by hand,
is one step, so that no settlement comes between its reads and its write.

**Encashment.** `insertEncashment` with its fees, tax in centavos, CD
deduction, `payouthistorytab` row and mirrored ledger rows in one step; the
Process button; the vouchers, which move the same balance without a row of the
history (`services/voucher.js:636-650`), in one step that takes or gives back
the difference of what the member's transactions cost (`PayVouchers`,
`vouchered`); upgrades, of which a `LegacyUpgrade` changes the effective
debt without the raw columns; and as operators the encashment list and report,
the CD page's label and the finance page.

**Support.** One ticket, its messages and the two sides' handlers, statement
by statement: a reply is an INSERT, the attachments, an UPDATE of the ticket,
a push and a `delivered_at`; opening reads, stamps and clears in three. A fault
ends a handler between any two; a restart drops the streams.

**Startup.** The migration runner statement by statement, with the errors it
tolerates, its own backfill of the closure table, and the record after each
file; several runners may overlap and may be interrupted. V003 fills the closure
table in two statements, a row for each member and one for each direct link. Beside them a server
of the old schema starts, answers `/ready`, caches feature checks that passed,
and registers members, who add closure rows.

**Access.** The session store (a request works on its copy and saves it back at
its end when it changed, inserting it again even when it was deleted), member
status, password change, reset and the PHP-era rehash, the back office's
accounts with `MAX(id)+1` under a session lock, and the guard of the last
full-access account.

**Enrolment.** The three ways into registration with an invite's token and
reserved position, regeneration, slugs, and the identity check on the
snapshot of the registering transaction. A position is the recommended one or
one of those that somebody may choose (`Chosen`).

**Registration.** `registerMember` on several pooled connections, with code
consumption and the upgrade route, which takes codes without the registration's
locks. The lock of a referral token, between the name's and the sponsor's, is
left out: a token belongs to one sponsor, whose lock follows. MySQL is modelled at REPEATABLE READ: `snap` is what plain SELECTs see,
taken by the identity check, the first SELECT of the transaction; the placement
lock INSERT and the code UPDATE work on current rows. `lockRow` is the
placement lock of a slot: uncommitted (its inserter), committed and left, or
none. `held` are the session locks of the running request, `kept` those that
earlier requests left on the connection. A slot is arbitrary among those of
visible members, which contains every recommendation. One name stands for
username, e-mail and identity. A legacy code row is used but still released; it
has no available twin, as `codeConsumption.js` says of production (named in
`RegistrationAssumption`).

**JobQueue.** `job_queuetab`, the ticks of all worker processes, the
Cloudinary folder and the recorded attachments. `setInterval` does not wait for
a tick, so ticks of one process overlap as those of two processes do. A job's
clock (available_at, lease, retention) is one bit, `ripe`. Keys of
self-scheduled sweeps are never reused in the code, so the model reuses a key
when its row is terminal. A picture is recorded `early` or `late` (before or
after the 6-hour cutoff), or `bare`: posted with a ticket or reply through the
server, without a public_id. `Discard` is the discard button's DELETE, of a member or of
staff (`routes/support.js:180-183`, `routes/admin/support.js:84`). It is meant
for staged uploads, but the code asks for the folder only
(`utils/supportMedia.js:89-100`), so it also takes a picture that a message has
recorded; `RecordedKept` is about what the sweeps destroy.

**MCIdempotency and MCWallet.** They name an instance (`Key`, `Purse`) of the
module that they check and its properties, so that its definitions may stand
beside those of another module in one proof module.

**MCAwards and MCOffice.** They check several modules in one run. They are
sums, not products: `part` says which module a behaviour is about, and the
others rest. That loses nothing a property could see, because no statement of
one part writes a row that a property of another reads. (GlobalBonus reads
ranks; it lets them change at any time instead.)

## 4. Runs

| Run | Instance | Shows |
|---|---|---|
| `idempotency` | 2 clients, 2 bodies, 3 handler runs, 1 fault, 1 crash, 1 retry | `ClaimedOnce`, `OwnResponse`, `Answered` |
| `wallet` | 2 connections, 1 claim, 2 months, small entitlements | `BalanceReconciles`, `NoDoubleCredit`, `UnilevelOncePerMonth`; deadlock is checked |
| `voucher` | 2 connections, 2 vouchers of 2 packages, 1 entry, 1 date | `BalancesReconcile`, `OneVoucherPerTier`, `NoWaitCycle`, `ImplementsBook`; deadlock is checked |
| `codes` | 2 requests at a time of 3, 5 codes, 2 packages, 2 directs, sets of 2, 1 month's end | `CodesOnce`, `UsedOnceByHolder`, `SetsKept`, `RedeemedEarned` |
| `registration` | 2 connections, 2 new members, twins and a legacy code, 1 crash, any time-outs | `OnePackagePerCode`, `NoKnownCollision`, `LockRowMeansTaken`, `NoWaitCycle` |
| `job_queue` | 2 ticks, 1 picture, 2 attempts, 2 waiting sweeps, 2 boots, 1 fault | `ExclusiveLease`, `ChainAlive`, `RecordedKept` |
| `job_queue_live` | 1 tick, 3 waiting sweeps, 1 boot, 1 fault | `LeaseEnds`, `NoLeak` |
| `awards` | ranking: 5 members in 2 legs, 2 buyers, 2 repurchases, 2 refreshes, 1 flag; bonus: 2 Diamonds, 2 edits, 1 change, 2 distributions | `PaidInFull`, `SequenceOrdered`, `ShadowReconciles`; `PoolSpent`, `BlockedUnpaid` |
| `engines` | 4 members, 2 packages, 2 days, CD and paid codes, one member placed by hand, an upgrade to a CD package, a lost event, 2 buyers that may be at different levels, a member forgiven excess leadership | `PairsAgree`, `PaidBacked`, `UnilevelAgrees`, `LockedUncredited` |
| `office` | support: 2 desks, 2 replies; encashment: 3 rows, 1 upgrade, 2 days, vouchers of 45000 or none; start-up: 2 runners, 4 files, 3 members; access: 2 sessions, 3 ids, 2 passwords; enrolment: 2 people, 2 tokens, 3 slots of which 2 may be chosen; 1 fault each | `ThreadTells`; `ReportsAgree`, `CdSettled`; `ClaimsHold`; `SessionsSound`, `AccountsSound`; `InviteClosed`, `CopiesBounded` |
| `slot_race` | violation of `SlotUnique` | finding |
| `last_full_access` | violation of `FullAccessKept` | finding |

The modules but the parts of `MCOffice` also define `TypeOK`; it is not listed
among the runs' properties, where deeper ones imply most of it, but proved.

**Bounds and why they are enough.** Every lock here has one holder, and every
read-then-write race needs one reader and one writer, so two concurrent
requests show each of them; a third only repeats one of the two. A month must
end once for the calendar to matter. Two attempts make a job retry once and
fail once. Two new members are one collision. Sets of two directs are sets of
five for every purpose but counting, `SetSize` is the divisor. Voucher amounts
of one peso with faces of one and two make a voucher partly and fully used.
Five members make a leg of two on each side, the least where a rank is fed by
both legs and an upline shares the purchases. Two distributions overlap as any
two do, and two edits are a block and its removal. Amounts of encashments are
chosen so that rounding of tax matters. Two buyers on different levels, or
one below a level without any, make the unilevel compress, and three free positions let a person apply
once more than there are requests in flight, which is what `CopiesBounded`
counts. The two slowest runs, `office` with 1.2 and `engines` with 0.18 million
states, take a few minutes each. Crashes and faults are bounded to one
because each property is about what one of them leaves behind; the counters
are named in the modules (`MaxCrashes`, `MaxFaults`, `MaxBoots`, `MaxRetries`,
`MaxRuns`, `MaxSweeps`, `MaxEntitled`, `MaxMonth`, `MaxRequests`, `MaxMonths`,
`MaxEvents`, `MaxRefreshes`, `MaxExclusions`, `MaxChanges`, `MaxEdits`,
`MaxPayouts`, `MaxRows`, `MaxUpgrades`, `MaxDay`, `MaxMembers`, `MaxId`,
`MaxSlots`, `MaxCredits`, `MaxDates`, `LastDay`). Registration takes a request
only if a uid will be left for it (`UidLeft`), so that no request is stuck for
the bound's sake. Symmetry is used in safety runs only, over sets that no
definition tells apart. `CHECK_DEADLOCK FALSE` stands where the bounds let the
system stop: the key is answered, boots are used up, no uid or name is left.

**Fairness.** `Idempotency` assumes that the event loop and MySQL serve every
request in flight and that time passes; nothing about crashes, faults or
retries. `JobQueue` assumes that the interval fires and its statements are
answered, and that time passes; a sweep may fail (`SweepError`, unbounded but
not fair) and the property says so by its `exhausted` disjunct. No lock
time-out is assumed to occur. The other modules state safety only: nothing in
their code retries or is promised to happen.

## 5. Proofs

The proof modules prove theorems for every value of the constants that the
named assumptions of the modules allow: any number of connections, codes,
members, vouchers, pictures, amounts, and any bounds. The assumptions say that
tables and the member's directs are finite, that names of states are no
identifiers, that a CD package costs something, that sponsors and placements
come earlier than those below them, that positions chosen exist, and that amounts and bounds are natural
numbers; a theorem that needs more states it. No proof rests on a run. The
safety properties are seldom inductive, and what was added to make them so is
where the code's argument lies.

`IncomeProofs`, the wallet (`Purse` is the `Wallet` of `MCWallet`)

- `WalletTypes`: `TypeOK`.
- `LedgerCorrect`: `BalanceReconciles`, `TotalsReconcile` and `NoOverdraft`.
  A write uses the balance that `LockRow` read. `Serialized` says that a process
  about to write holds the row lock and that the balance it saw is still the
  balance, and that a settlement past `GET_LOCK` holds the session lock;
  `Ledger` is inductive beside it.
- `NeverDoubleCredits` and `OneUnilevelAMonth`: `NoDoubleCredit` and
  `UnilevelOncePerMonth`, under the assumption that an approval's status read
  does not fail (`StatusReadMayFail = FALSE`; section 6 shows that the first
  needs it). The inductive invariant is `Entitled`: what is stored never
  exceeds the peak of an engine, and neither does what is stored plus what a
  settlement is about to add (`Bounded`, `Due`); a settlement about to add
  unilevel finds none dated in the current month. It rests on `Serialized`: the
  session lock keeps other settlements away between the read of the totals and
  the write, the row lock the other writers.

`IncomeProofs`, the engines. The trees of `Engines` are recursive functions
over the members; they exist because everybody is placed below, and registered
by, an earlier member (`Forest`, part of the inductive `NetworkInv`), and
`Recursion` of `Sums` gives the function that such an equation defines.

- `PaidIsBacked`: `PaidBacked`. A settlement starts over from the trees, which
  grow, and from accounts, which may stop to count; so the bound is about
  everybody that ever was a source (`everIn`). `PaidInv`: stored pairing is at
  most the total of each leg; stored leadership is at most the member's share
  of the stored pairing below it and its offset. An offset is the excess over
  the engine when it was set, and the engine only passes on stored pairing, so
  a later settlement stays within both. A member has one sponsor at each depth, so
  the rates by which one pairing is shared add up to ten at most; exchanging
  the two sums (`SumSwap`) gives the bound on all leadership.
- `LockedAreUncredited`: `LockedUncredited`. All rows of one reading agree
  whether they are locked (`RowsLock`), and a reading is written as a whole,
  so a row that was credited and is locked now is reversed.
- `ScansOfUnilevelAgree`: `UnilevelAgrees`. The projection's scan, which skips
  whom it has visited, finds the levels of the sponsor tree (`FrontierIs`), so
  does the contributors' scan, which does not ask, because the tree has no
  cycle, and the contributors' amounts add up, level by level, to what is
  settled (`RowsAddUp`).
- `PairsAreAgreed`: `PairsAgree`, if no member whose registration event may be
  lost can upgrade (`Losers \cap Upgraders = {}`). Without it the property is
  false: after a lost registration event and an upgrade, the backfill enters
  the upgrade again under another key, and the tracker counts it twice
  (section 6). `ClosureInv`: the closure table has the legs that the tree has.
  `EventsInv`: each member's events have the points of its account, or there
  is none and the backfill will enter them (`Booked`). Two legs laid end to
  end (`IsChain`) overlap in as much as the shorter is long, whichever way
  they are cut; the engine of the wallet, which carries the remainder from day
  to day, counts that as well.
- `EnginesTyped`: `TypeOK`. A backfill is a fold over the members whose events
  are missing, each entered with those of the tree above it (`BackfillFolds`),
  so it is typed step by step; this needs nothing about lost events.

`ClaimProofs`, the key (`Key` is the `Idempotency` of `MCIdempotency`)

- `KeysTyped`: `TypeOK`.
- `ClaimsCommitOnce` and `ReplaysOwnResponse`: `ClaimedOnce` and `OwnResponse`,
  if no handler outlives the takeover window (`SlowHandlers = FALSE`; with slow
  handlers both fail, section 6). `Exclusive`: a claim is one request's, its row
  is fresh, in processing and has the request's hash, and a stored response is
  of the stored hash. `Accounted`: claimed commits are at most one more than the
  lost ones, and the one more is stored, or about to be.

`ClaimProofs`, the job queue

- `TypeCorrect`: `TypeOK`, beside the fact that a waiting job has an attempt
  left.
- `LeasesExclusive`: `ExclusiveLease`, because a row that a tick works on is
  leased and its lease has not run out (`Held`).
- `SweepsGoOn`: `ChainAlive`. A live row may be about to end, so the invariant
  (`ChainInv`) asks for one whose tick has not yet scheduled its successor.
- `RecordedArePreserved`: `RecordedKept`, because what a sweep has still to
  destroy was old when it was listed, and an old picture is no longer recorded
  before the cutoff (`BatchesOld`). A discard in between, which needs no consent
  of the message, is a step like any other.

`AwardsProofs`, the two parts of `MCAwards`

- `BonusTyped` and `RankingTyped`: the `TypeOK` of each. `EditTypes`: whoever
  distributes has seen the year closed, and each override is as it was given.
  `RankTidy`, of the tables and of each snapshot: what is consumed has points,
  and what is shown to remain is no more than what was gained; a rebuild keeps
  it one member at a time (`ByLatest`).
- `PoolIsSpent` and `BlockedAreNotPaid`: `PoolSpent` and the action property
  `BlockedUnpaid`. `BonusInv`: a distribution that began while a member was
  barred has read the barring override or will read one (`BarredBlocked`); it
  does not matter which of the queries comes first. The amounts follow from
  sums over shares and portions.
- `AwardsAreOrdered` and `RanksArePaidFor`: `SequenceOrdered` and `PaidInFull`,
  by `RankInv`. A commit takes its rows from a rebuild of an old snapshot, so
  the question is what makes the snapshot good. `Snapshots` says: it is older
  than the database (`Before`), and of each member it has all consumption and
  no lower rank than there is now, or the member's next rank was awarded since,
  and then the key on member and rank dooms the commit if it would award that
  member (`Current`). What a rebuild adds to a snapshot is a fold over the members
  (`RebuildInv`, by induction over the fold's steps): each award is paid by
  rows of its own, which take no event beyond its points.
- `IncrementalPointsReconcile`: `ShadowReconciles`, by `ShadowInv`: an update is
  under way or lost, not both, and rows of a member are given back once for
  each flag (`released`), so that no two releases give back the same row.

`RegistrationProofs`

- `TypesHold` and `TypeCorrect`: at every statement of a request, which locks
  and rows it holds and what it has seen (`TypeInv`, `Stage`); from it `TypeOK`.
- `PackagesPaidOnce`: `OnePackagePerCode`, beside `LegacyKept` (a legacy code
  stays unused).
- `CollisionsAreRaces`: `NoKnownCollision`, beside `MembersKnown`: a
  registration saw only members.
- `LeftLocksBlockNothing`: `LockRowMeansTaken`, beside `Inserter`: an
  uncommitted placement lock belongs to a transaction for that slot which is
  about to use it.
- `NoCircularWait`: `NoWaitCycle`. Session locks are taken code, name, sponsor
  in every request; one that waits for a lock has fewer of them than the one
  that has it (`WaitsUpwards`), and who waits for a row lock has all three.
- `SessionLocksExclusive`: no two requests hold one session lock.

`VoucherProofs`

- `SeenStaysCurrent`: `LockInv`. Locks are exclusive, and a transaction that
  has all its locks has seen the rows as they are, apart from dates that have
  passed (`SeenCurrent`). All of the following rest on it.
- `OneVoucherAPackage`: `OneVoucherPerTier`.
- `EveryPesoAccounted`: `BalancesReconcile`. A voucher's face is what is left
  of it and the sum of what its entries took; `BalanceInv` adds that a row that
  does not exist has spent nothing. The proof is about sums over a table of any
  size of which one row changes (`SumChange` of `Sums`).
- `TransactionsAreAtomic`: `ImplementsBook`. `Write` of every operation is a
  step of `VoucherBook` under the mapping `TheBook`, `TheEntries`; taking a
  lock, reading and aborting are stutters.
- `NoDeadlock`: `NoWaitCycle`. Locks have ranks (settlement lock or member,
  entry, the voucher's named lock, its row, the wallet), every plan takes them
  upwards (`PlanRises`), and in a nonempty set of waiting transactions the one
  that waits for the highest lock waits for none of the set.
- `TypeCorrect`: `TypeOK`.

`CodesProofs`

- `LocksExclusive`, `TypeCorrect`: what a request holds at each of its
  statements, no lock has two holders; `TypeOK`.
- `SpentOnceByHolder`: `UsedOnceByHolder`; `Once` adds that the history of
  uses agrees with the rows.
- `RedeemedWereEarned`: `RedeemedEarned`. `Covered` says that the sets earned
  and not yet spent cover what the month still offers, and what a redemption
  under way has read and not yet taken.
- `CountsKept`: `SetsKept`. Between the observation of an upgrade and its
  commit the counts may fall below their peak, so `Kept` says that then the
  high-water has it already.
- `CodesMadeOnce`: `CodesOnce`. A generation reads the strings and the last
  number under its lock and inserts later: `GeneratorCurrent` says that what
  it has read is still so. That enough fresh strings exist, and that they
  differ, is a counting argument (`OpenEnough`, `Ranked`, `FreshNew`,
  `FreshDiffer`): among more numbers than there are strings some are free.

`Sums` has what those proofs need of data: a sum over a function with a finite
domain exists, is a natural number, changes by the difference when one row
changes, splits over addition and over classes of rows (`SumPlus`,
`SumClasses`), is monotone and scales (`SumMono`, `SumSubset`, `SumScale`), can
be exchanged with another (`SumSwap`), telescopes (`SumTelescope`), does not
depend on the names of the rows (`SumRenamed`), and finite sets of numbers have
a least and a largest element. Each is proved by the least subset on which it
would fail. `Recursion` says that an equation which defines a function on
numbers from its values on smaller ones has a solution.

`OfficeProofs` is about the parts of `MCOffice`: a step of the whole is a step
of one part, and the others rest (`PartSteps`).

- Support, `ThreadsTell`: `ThreadTells`, which is inductive beside the types of
  what each handler carries from statement to statement.
- Enrolment, `InvitesClose`: `InviteClosed`. Only unused tokens are issued, so
  one that was closed stays closed (`TokenInv`).
- Enrolment, `CopiesStayBounded`: `CopiesBounded`. People any two of whom match
  are a `Clique`; its `Crowd` is its members and its applicants that have passed
  the check. Who passes finds no member of the clique, so at that moment all of
  the crowd are requests in flight; a commit turns one of them into a member,
  and nothing else adds to it (`CopyInv`). That holds for every clique, and the
  holders of one TIN, or of one name and date of birth, are one.
- Access, `SessionsHold` and `AccountsHold`: `SessionsSound` and
  `AccountsSound`. `SessionInv`: what a request of a member copied from the
  store is sound, and a member who was barred before it came is not active.
  `AccountInv`: creations exclude each other by the table lock and what one has
  checked stays true (`Creations`); changes under way are of different accounts,
  which are as they were read (`Changes`); and as long as no two removals of full
  access overlap, another account keeps it (`FullKept`).
- Encashment, `ReportsHold`: `ReportsAgree`. The inductive part (`PayoutInv`) is
  about rows: what all of them took and what the vouchers cost is what the
  balance lacks (`Reconciled`), an encashment took what its fees, tax, deduction and payout say (`RowSound`), and a mirrored row is that of
  one encashment (`Mirrors`). The totals follow from it in every state
  (`ReportsFollow`): sums split over addition and over the days, and the mirror
  is a one-to-one image of some of the rows.
- Encashment, `DebtsSettle`: `CdSettled`, if no account carries the columns of a
  PHP-era upgrade (`LegacyUpgrade = FALSE`; with them the debt is exceeded,
  section 6). `DebtInv`: the latest upgrade agrees with the account's columns, and
  what was paid is the sum of the deductions since.
- Start-up, `ClaimsAreTrue`: `ClaimsHold`. A runner has done every statement
  before the one it is at, whoever else runs and wherever an earlier run broke
  off (`RunnerOK`, `Done`); columns that one statement adds are there together or
  not at all, unless some were imported (`Whole`), so that an ignored conflict
  leaves them all; a backfill has written the paths of the ancestors it has
  passed (`PathsTo`), and registrations only add paths. The proof is for any
  list of migrations that satisfies `ScriptAssumption` of `MCOffice`: columns
  added by one statement are shared only with statements that add all of them,
  as V011 shares them with V019 and V021, and none of them is the sessions table.

What stays with TLC. Liveness (`Answered`, `LeaseEnds`, `NoLeak`) needs
fairness and ENABLED, which this prover does not do. Every safety property and
every action property of a passing run is proved, six of them under a
condition that the text above names: `NoDoubleCredit` and
`UnilevelOncePerMonth` (no failed status read), `ClaimedOnce` and `OwnResponse`
(no handler slower than the takeover window), `CdSettled` (no PHP-era upgrade),
`PairsAgree` (no upgrade of a member with a lost event); the runs set the same.

## 6. Findings and observations

Two runs expect a violation.

- `slot_race`: two registrations get one binary slot when the second took its
  snapshot before the first committed, which waiting for a lock makes likely.
- `last_full_access`: two demotions or deletions of different accounts each
  count the other one, and nobody with full access is left.

Other statements of the repository do not hold either. They stay in the
modules; each is violated when it replaces the properties of the run's
configuration, with the constants changed as noted.

| Property | Configuration | What happens |
|---|---|---|
| `DoubleTapRunsOnce` | `MCIdempotency.cfg` | "so a double-tap can never run the handler twice" (`middleware/idempotency.js:12-14`): the row that blocked an INSERT was released by a failed first request (line 94), the duplicate goes on unclaimed, a retry claims the key beside it. |
| `ApprovalNeverDoublePays` | `MCWallet.cfg`, `StatusReadMayFail = TRUE` | "must NEVER pay entitlement that is already in ttlincome5" (`hifiveBonus.js:719-721`): the fallback entitlement (line 729) pays what the automatic credit has paid. |
| `UnilevelNotEarly` | `MCWallet.cfg` | "Before the 5th, settlement returns 0 so nothing is credited early" (`unilevel.js:19-20`): a settlement across the end of a month dates last month's unilevel in the new month, whose own settlement is then refused. |
| `OnlyOrphansDestroyed` | `MCJobQueue.cfg` | "never attached to a sent message" (`jobWorker.js:12-14`): pictures posted with a ticket or a reply have no recorded public_id (`jobWorker.js:186`) and are destroyed after six hours. |
| `NoLockLeft` | `MCRegistration.cfg` | "Registration is busy right now. Please try again." (`registration.js:88`): a time-out on a second or third lock leaves the first on the pooled connection (line 511). |
| `NoProductAccount` | `MCCodes.cfg` | "for product maintenance or repurchase, not for account registration" (`registration.js:176`): product 100 passes as a package. |
| `ZeroOut` | `MCAwards.cfg`, `Sponsor <- ChainSponsor`, `Leg <- ChainLeg`, `Buyers = {5}`, `Amounts = {4}`, `MaxEvents = 1`, `Refreshed = {1, 2, 3, 4, 5}`, `Fulfilled = {}`, `Suspects = {}`, `MaxExclusions = 0` | "the SUM(points_consumed) must not exceed incentivepoints1" (`V023__ranking_sponsor_tree_basis.sql:33-36`): the global row of a second rank of one member is ignored by INSERT IGNORE, and an upline consumes the points again. |
| `PaidOnce` | `MCAwards.cfg` | "never silently re-distribute a year that was already paid out" (`globalBonus.js:402`): the guard is read outside the transaction. |
| `TraceMirrorsWallet` | `MCEngines.cfg` | the trace's weeks (`pairingTracker.js:20`) are ISO weeks, the wallet's begin on Tuesday (`pairing.js:37-39`), so caps cut different pairs. |
| `MigrationsFinish` | `MCOffice.cfg` | the backfill of the runner inserts `path_side` and `path_text` (`scripts/db-migrate.js:143-153`), columns that no migration creates. |
| `DebtNotExceeded` | `MCOffice.cfg`, `LegacyUpgrade = TRUE`, `Amounts = {100000}`, `Incomes = {200000}`, `Debts = {15000, 30000}` | "increment cdtotal and clear cdstatus when fully paid" (`insertIncome.js:251`): the effective cdtotal is 0 at every read (`accountState.js:122-125`), so that a deduction replaces the last one and the debt has no end. |

With handlers slower than 60 s (`SlowHandlers = TRUE`) the takeover treats a
live handler as dead, and its late bookkeeping lands in the new owner's claim,
with another body's response if the bodies differ.

Observations met while modelling, which no property states:

- *Support.* A message may be marked read that the page never held
  (`routes/support.js:268`); a badge is cleared for an answer that came while
  the page loaded; a stale status reopens a closed ticket (335, 351); a torn
  stream counts as delivered; the discard of a staged upload also destroys a
  picture that a message has (`utils/supportMedia.js:89-100`).
- *Encashment.* The finance page's paid-out is always 0 (`adminFinance.js:234`);
  the report's gross leaves out the maintenance fee; the CD label counts
  deductions of an earlier debt after an upgrade from CD to CD; Process accepts
  any payout row and moves its date each time.
- *Start-up.* A multi-column ALTER of which one column exists is ignored as a
  whole and recorded; an ignored duplicate leaves a unique index missing, which
  readiness does not check; members registered between the backfill's read and
  its record can miss closure rows.
- *Access.* A login's rehash can overwrite a concurrent reset; demoted or
  deleted administrators keep their session's rights; ids are reused after the
  highest is deleted; an upgrade in flight inserts a deleted session again.
- *Enrolment.* The reserved position binds only when the client sends it; two
  regenerations at once leave two active invites; two overlapping
  registrations may use one token, and of one person both pass.
- *Engines.* A backfilled upgrade event has another key than the live one and
  is counted twice by the trace; a reversed mirror row is never credited again;
  upgrade events are backfilled only for members without a registration event;
  a purchase on an empty level can lower an upline's unilevel.
- *Vouchers and codes.* A cancellation restores by `expiry_date` rather than
  `use_expires_at`; create and edit reactivate a revoked voucher; the list of
  grant candidates judges CD by the raw code type (`voucher.js:1892`), the grant
  by the effective one.
- *Ranking.* A flagged account is still awarded by a rebuild in flight; the
  release of its consumption is three autocommit DELETEs; an older refresh
  overwrites the stored rank of a newer one. A refresh that began before a
  flagged member's ranks were released, and that awards the member after, pays
  the ranks from points that were given back, and may give a lower rank a
  higher number; `SequenceOrdered` and `PaidInFull` except such members
  (`stale`). Two refreshes, the bound of the run, do not suffice to show it: it
  came out because the invariant was not inductive. `unfreeze` reactivates a removed
  override of the bonus list.

## 7. Not modelled

- *Connection pool.* Every module takes connections as available. Whether
  twenty requests that each hold one and want another starve depends on the
  driver's queue and time-outs, which are not in the repository.
- *Network and genealogy views, finance pages other than the encashments,
  exports.* Read-only queries and formatting.
- *News, contact, applications, messages, mail, audit rows.* Rows that no
  other component reads.
- *Scripts.* One-off repairs and audits run by hand. `settle_income_sweep.js`
  is planned; `db-migrate.js` is in `Startup`, `set_leadership_offset.js` in
  `Engines`.
- *Within the modelled components*: listings, texts, sequential ids (nothing
  declares them unique), depth limits, sealing points, the lifetime income
  ceiling, issuing a reset link, product selection of vouchers, the code
  histories, the shown leg points of a rank, payout options' texts, Jaro
  similarity of names (a name is equal or not).
