---------------------------- MODULE ClaimProofs -----------------------------
(***************************************************************************)
(* Proofs about the two places where work is claimed, done and reported,   *)
(* and a claim whose owner died is taken over: JobQueue, for any number of *)
(* ticks, pictures, attempts, sweeps, restarts and faults (leases are      *)
(* exclusive, a sweep is always to come, recorded pictures are kept), and  *)
(* below, Idempotency, for any number of clients, bodies, faults, crashes  *)
(* and retries (a claim on the key is exclusive while handlers end within  *)
(* the takeover window, a claimed handler commits once for every stored    *)
(* response that got lost, and no response is replayed to a request of     *)
(* another body).                                                          *)
(***************************************************************************)
EXTENDS MCIdempotency, JobQueue, TLAPS

-----------------------------------------------------------------------------
Job == [status : Statuses, attempts : 0 .. MaxAttempts, ripe : BOOLEAN]
Places == {"idle", "select", "lease", "collect", "destroy", "done", "failed"}

\* The boot job has a key; keys are numbers.
LEMMA KeysFacts == BootKey \in Keys /\ Keys \subseteq Nat
BY JobQueueAssumption DEF Keys, BootKey

\* The rows that the queue's statements write.
LEMMA RowTypes ==
    /\ \A s \in Statuses, n \in 0 .. MaxAttempts : NewRow(s, n) \in Job
    /\ Absent \in Job
    /\ \A k \in Keys, s \in Statuses, n \in 0 .. MaxAttempts : Ended(k, s, n) \in Job
BY JobQueueAssumption DEF NewRow, Absent, Ended, Job, Statuses, Terminal

\* A waiting job has an attempt left, so that no lease exceeds MAX_ATTEMPTS.
AttemptLeft == \A k \in Keys : jobs[k].status = "queued" => jobs[k].attempts < MaxAttempts

Rows == jobs \in [Keys -> Job] /\ AttemptLeft

\* What TypeOK says of the ticks.
TickTypes ==
    /\ pc \in [Ticks -> Places]
    /\ job \in [Ticks -> Keys]
    /\ batch \in [Ticks -> SUBSET Assets]

\* INSERT ... ON DUPLICATE KEY UPDATE keeps rows well-typed.
LEMMA EnqueueTypes ==
    ASSUME Rows, NEW k \in Keys, Enqueue(k)
    PROVE  Rows'
BY JobQueueAssumption DEF Rows, AttemptLeft, Enqueue, NewRow, Job, Statuses, Terminal

\* So does an UPDATE that leaves a waiting row an attempt.
LEMMA SetRowTypes ==
    ASSUME Rows, NEW k \in Keys, NEW r \in Job, SetRow(k, r),
           r.status = "queued" => r.attempts < MaxAttempts
    PROVE  Rows'
BY DEF Rows, AttemptLeft, SetRow

\* And the end of a tick keeps the ticks well-typed.
LEMMA EndTickTypes ==
    ASSUME TickTypes, NEW t \in Ticks, EndTick(t)
    PROVE  TickTypes'
BY KeysFacts DEF TickTypes, EndTick, Places

\* Type correctness, and the attempts that waiting jobs have left.
THEOREM TypeCorrect == Spec => [](TypeOK /\ AttemptLeft)
<1>. DEFINE Rest == /\ asset \in [Assets -> {"absent", "young", "old", "destroyed", "discarded"}]
                    /\ attached \in [Assets -> {"no", "early", "late", "bare"}]
                    /\ seeded \in BOOLEAN /\ exhausted \in BOOLEAN
                    /\ boots \in 0 .. MaxBoots /\ faults \in 0 .. MaxFaults
<1>0. TypeOK /\ AttemptLeft <=> Rows /\ TickTypes /\ Rest
  BY DEF TypeOK, Rows, TickTypes, Job, Places
<1>1. Init => Rows /\ TickTypes /\ Rest
  <2>. SUFFICES ASSUME Init
                PROVE  Rows /\ TickTypes /\ Rest
    OBVIOUS
  <2>1. Rows
    BY RowTypes DEF Init, Rows, AttemptLeft, Absent, NewRow
  <2>2. TickTypes
    BY KeysFacts DEF Init, TickTypes, Places
  <2>3. /\ asset \in [Assets -> {"absent", "young", "old", "destroyed", "discarded"}]
        /\ attached \in [Assets -> {"no", "early", "late", "bare"}]
    BY DEF Init
  <2>4. seeded \in BOOLEAN /\ exhausted \in BOOLEAN
    BY DEF Init
  <2>5. boots \in 0 .. MaxBoots /\ faults \in 0 .. MaxFaults
    BY JobQueueAssumption DEF Init
  <2>. QED
    BY <2>1, <2>2, <2>3, <2>4, <2>5
<1>2. Rows /\ TickTypes /\ Rest /\ [Next]_vars => (Rows /\ TickTypes /\ Rest)'
  <2>. SUFFICES ASSUME Rows, TickTypes, Rest, [Next]_vars
                PROVE  (Rows /\ TickTypes /\ Rest)'
    OBVIOUS
  <2>. USE JobQueueAssumption DEF queue, media, ticks
  <2>0. Fault => faults' \in 0 .. MaxFaults
    BY DEF Fault
  <2>1. CASE Boot
    <3>1. Rows'
      BY <2>1, KeysFacts, EnqueueTypes DEF Boot, Rows, AttemptLeft
    <3>2. TickTypes'
      BY <2>1, KeysFacts DEF Boot, TickTypes, Places
    <3>3. Rest'
      <4>1. faults' \in 0 .. MaxFaults /\ seeded' \in BOOLEAN
        BY <2>0, <2>1 DEF Boot
      <4>2. boots' \in 0 .. MaxBoots /\ UNCHANGED <<exhausted, media>>
        BY <2>1 DEF Boot
      <4>. QED
        BY <4>1, <4>2
    <3>. QED
      BY <3>1, <3>2, <3>3
  <2>2. ASSUME NEW t \in Ticks, Housekeep(t) \/ HousekeepError(t)
        PROVE  (Rows /\ TickTypes /\ Rest)'
    <3>1. Rows'
      <4>1. CASE Housekeep(t)
        <5>1. ASSUME NEW k \in Keys
              PROVE  /\ jobs'[k] \in Job
                     /\ jobs'[k].status = "queued" => jobs'[k].attempts < MaxAttempts
          <6>1. /\ jobs[k] \in Job /\ jobs[k].attempts \in 0 .. MaxAttempts
                /\ jobs[k].status = "queued" => jobs[k].attempts < MaxAttempts
            BY DEF Rows, AttemptLeft, Job
          <6>2. CASE Expired(k)
            <7>1. jobs'[k] = Reclaimed(k)
              BY <4>1, <6>2 DEF Housekeep
            <7>2. CASE Spent(k)
              BY <6>1, <7>1, <7>2, RowTypes
                 DEF Reclaimed, Ended, NewRow, Absent, Statuses, Terminal
            <7>3. CASE ~Spent(k)
              BY <6>1, <7>1, <7>3 DEF Reclaimed, Spent, Job, Statuses
            <7>. QED
              BY <7>2, <7>3
          <6>3. CASE ~Expired(k)
            BY <4>1, <6>1, <6>3, RowTypes DEF Housekeep, Absent, NewRow
          <6>. QED
            BY <6>2, <6>3
        <5>2. jobs' = [k \in Keys |-> jobs'[k]]
          BY <4>1 DEF Housekeep
        <5>. QED
          BY <5>1, <5>2 DEF Rows, AttemptLeft
      <4>2. CASE HousekeepError(t)
        BY <4>2 DEF HousekeepError, Rows, AttemptLeft
      <4>. QED
        BY <2>2, <4>1, <4>2
    <3>2. TickTypes'
      BY <2>2 DEF Housekeep, HousekeepError, Goto, TickTypes, Places
    <3>3. Rest'
      BY <2>0, <2>2 DEF Housekeep, HousekeepError
    <3>. QED
      BY <3>1, <3>2, <3>3
  <2>3. ASSUME NEW t \in Ticks, Select(t) \/ SelectNone(t) \/ Collect(t) \/ SweepError(t)
                                \/ FinishDoneError(t)
        PROVE  (Rows /\ TickTypes /\ Rest)'
    <3>1. Rows'
      BY <2>3 DEF Select, SelectNone, Collect, SweepError, FinishDoneError, Rows, AttemptLeft
    <3>2. TickTypes'
      BY <2>3 DEF Select, SelectNone, Collect, SweepError, FinishDoneError, Goto, TickTypes, Places
    <3>3. Rest'
      BY <2>0, <2>3 DEF Select, SelectNone, Collect, SweepError, FinishDoneError
    <3>. QED
      BY <3>1, <3>2, <3>3
  <2>4. ASSUME NEW t \in Ticks, Lease(t)
        PROVE  (Rows /\ TickTypes /\ Rest)'
    <3>1. Rows'
      <4>1. /\ job[t] \in Keys /\ jobs[job[t]].attempts \in Nat
            /\ jobs[job[t]].attempts < MaxAttempts
        BY <2>4 DEF Lease, TickTypes, Rows, AttemptLeft, Job
      <4>2. NewRow("processing", jobs[job[t]].attempts + 1) \in Job
        BY <4>1, RowTypes DEF Statuses
      <4>. QED
        BY <2>4, <4>1, <4>2 DEF Lease, Rows, AttemptLeft, NewRow
    <3>2. TickTypes'
      BY <2>4 DEF Lease, Goto, TickTypes, Places
    <3>. QED
      BY <2>4, <3>1, <3>2 DEF Lease
  <2>5. ASSUME NEW t \in Ticks, LeaseLost(t) \/ TickError(t)
        PROVE  (Rows /\ TickTypes /\ Rest)'
    <3>1. TickTypes'
      BY <2>5, EndTickTypes DEF LeaseLost, TickError
    <3>. QED
      BY <2>0, <2>5, <3>1 DEF LeaseLost, TickError, Rows, AttemptLeft
  <2>6. ASSUME NEW t \in Ticks, Destroy(t)
        PROVE  (Rows /\ TickTypes /\ Rest)'
    BY <2>0, <2>6 DEF Destroy, Rows, AttemptLeft, TickTypes
  <2>7. ASSUME NEW t \in Ticks, Schedule(t)
        PROVE  (Rows /\ TickTypes /\ Rest)'
    <3>1. Rows'
      BY <2>7, EnqueueTypes DEF Schedule, NextKeys, Free, SweepKeys
    <3>. QED
      BY <2>7, <3>1 DEF Schedule, Goto, TickTypes, Places
  <2>8. ASSUME NEW t \in Ticks, FinishDone(t) \/ FinishFailed(t)
        PROVE  (Rows /\ TickTypes /\ Rest)'
    <3>1. job[t] \in Keys /\ jobs[job[t]].attempts \in 0 .. MaxAttempts
      BY DEF TickTypes, Rows, Job
    <3>2. Rows'
      <4>1. CASE FinishDone(t)
        <5>1. Ended(job[t], "done", jobs[job[t]].attempts) \in Job
          BY <3>1, RowTypes DEF Statuses, Terminal
        <5>2. Ended(job[t], "done", jobs[job[t]].attempts).status # "queued"
          BY DEF Ended, NewRow, Absent
        <5>. QED
          BY <3>1, <4>1, <5>1, <5>2, SetRowTypes DEF FinishDone
      <4>2. CASE FinishFailed(t)
        <5>. DEFINE n == jobs[job[t]].attempts
                    r == IF Spent(job[t]) THEN Ended(job[t], "failed", n) ELSE NewRow("queued", n)
        <5>1. r \in Job
          BY <3>1, RowTypes DEF Statuses, Terminal
        <5>2. r.status = "queued" => r.attempts < MaxAttempts
          BY <3>1 DEF Ended, NewRow, Absent, Spent
        <5>3. SetRow(job[t], r)
          BY <4>2 DEF FinishFailed
        <5>. QED
          BY <3>1, <5>1, <5>2, <5>3, SetRowTypes
      <4>. QED
        BY <2>8, <4>1, <4>2
    <3>3. TickTypes'
      BY <2>8, EndTickTypes DEF FinishDone, FinishFailed
    <3>. QED
      BY <2>8, <3>2, <3>3 DEF FinishDone, FinishFailed
  <2>9. ASSUME NEW a \in Assets, Upload(a) \/ Attach(a) \/ Discard(a) \/ PostWithFile(a) \/ Grow(a)
        PROVE  (Rows /\ TickTypes /\ Rest)'
    <3>1. Rows' /\ TickTypes'
      BY <2>9 DEF Upload, Attach, Discard, PostWithFile, Grow, Rows, AttemptLeft, TickTypes
    <3>. QED
      BY <2>9, <3>1 DEF Upload, Attach, Discard, PostWithFile, Grow
  <2>10. ASSUME NEW k \in Keys, Ripen(k)
         PROVE  (Rows /\ TickTypes /\ Rest)'
    <3>1. [jobs[k] EXCEPT !.ripe = TRUE] \in Job
      BY DEF Rows, Job
    <3>2. Rows'
      BY <2>10, <3>1 DEF Ripen, Rows, AttemptLeft, Job
    <3>. QED
      BY <2>10, <3>2 DEF Ripen, TickTypes
  <2>11. CASE UNCHANGED vars
    BY <2>11 DEF vars, Rows, AttemptLeft, TickTypes
  <2>. QED
    BY <2>1, <2>2, <2>3, <2>4, <2>5, <2>6, <2>7, <2>8, <2>9, <2>10, <2>11
       DEF Next, Tick, Failure
<1>. QED
  BY <1>0, <1>1, <1>2, PTL DEF Spec
-----------------------------------------------------------------------------
\* A row that a tick works on is leased, and its lease has not expired.
Held ==
    \A t \in Ticks, k \in Keys :
        WorksOn(t, k) => jobs[k].status = "processing" /\ ~jobs[k].ripe

\* A step after which nobody works on more rows, and worked rows are untouched.
LEMMA HeldStep ==
    ASSUME Held, ExclusiveLease,
           \A t \in Ticks, k \in Keys :
               WorksOn(t, k)' => WorksOn(t, k) /\ jobs'[k] = jobs[k]
    PROVE  (Held /\ ExclusiveLease)'
BY DEF Held, ExclusiveLease

\* In particular, a step that leaves all rows alone.
LEMMA IdleStep ==
    ASSUME Held, ExclusiveLease, UNCHANGED jobs,
           \A t \in Ticks, k \in Keys : WorksOn(t, k)' => WorksOn(t, k)
    PROVE  (Held /\ ExclusiveLease)'
BY HeldStep

\* The end of a tick releases its row and no other.
LEMMA EndTickReleases ==
    ASSUME TickTypes, NEW u \in Ticks, EndTick(u)
    PROVE  \A t \in Ticks, k \in Keys : WorksOn(t, k)' => WorksOn(t, k) /\ t # u
BY DEF TickTypes, EndTick, WorksOn, Working

\* An enqueued row was absent, or it stays what it was.
LEMMA EnqueueKeeps ==
    ASSUME Rows, NEW k \in Keys, Enqueue(k)
    PROVE  \A i \in Keys : /\ i # k \/ jobs[i].status # "absent" => jobs'[i] = jobs[i]
                           /\ i = k /\ jobs[i].status = "absent" => jobs'[i].status = "queued"
BY DEF Rows, Enqueue, NewRow

\* "Two workers/processes never grab the same row": the guarded UPDATE of
\* leaseOne takes only a queued row, and nothing else takes a row from the
\* tick that works on it while its lease runs.
THEOREM LeasesExclusive == Spec => [](Held /\ ExclusiveLease)
<1>1. Init => Held /\ ExclusiveLease
  BY DEF Init, Held, ExclusiveLease, WorksOn, Working
<1>2. TypeOK /\ AttemptLeft /\ Held /\ ExclusiveLease /\ [Next]_vars => (Held /\ ExclusiveLease)'
  <2>. SUFFICES ASSUME TypeOK, AttemptLeft, Held, ExclusiveLease, [Next]_vars
                PROVE  (Held /\ ExclusiveLease)'
    OBVIOUS
  <2>. USE DEF queue, media, ticks
  <2>0. Rows /\ TickTypes
    BY DEF TypeOK, Rows, TickTypes, Job, Places
  <2>1. CASE Boot
    <3>1. \A t \in Ticks, k \in Keys : WorksOn(t, k)' => WorksOn(t, k)
      BY <2>1 DEF Boot, WorksOn, Working
    <3>2. \A k \in Keys : jobs[k].status = "processing" => jobs'[k] = jobs[k]
      BY <2>0, <2>1, KeysFacts, EnqueueKeeps DEF Boot
    <3>. QED
      BY <3>1, <3>2, HeldStep DEF Held
  <2>2. ASSUME NEW u \in Ticks, Housekeep(u)
        PROVE  (Held /\ ExclusiveLease)'
    <3>1. \A t \in Ticks, k \in Keys : WorksOn(t, k)' => WorksOn(t, k)
      BY <2>0, <2>2 DEF Housekeep, Goto, TickTypes, WorksOn, Working
    <3>2. \A k \in Keys : jobs[k].status = "processing" /\ ~jobs[k].ripe => jobs'[k] = jobs[k]
      BY <2>2 DEF Housekeep, Expired, Prunable, Terminal
    <3>. QED
      BY <3>1, <3>2, HeldStep DEF Held
  <2>3. ASSUME NEW u \in Ticks,
               HousekeepError(u) \/ Select(u) \/ SelectNone(u) \/ Collect(u) \/ Destroy(u)
               \/ SweepError(u) \/ FinishDoneError(u)
        PROVE  (Held /\ ExclusiveLease)'
    <3>1. \A t \in Ticks, k \in Keys : WorksOn(t, k)' => WorksOn(t, k)
      <4>1. CASE HousekeepError(u) \/ SelectNone(u) \/ Destroy(u) \/ FinishDoneError(u)
        BY <2>0, <4>1 DEF HousekeepError, SelectNone, Destroy, FinishDoneError, Goto,
                          TickTypes, WorksOn, Working
      <4>2. CASE Select(u)
        BY <2>0, <4>2 DEF Select, Goto, TickTypes, WorksOn, Working
      <4>3. CASE Collect(u) \/ SweepError(u)
        BY <2>0, <4>3 DEF Collect, SweepError, Goto, TickTypes, WorksOn, Working
      <4>. QED
        BY <2>3, <4>1, <4>2, <4>3
    <3>2. UNCHANGED jobs
      BY <2>3 DEF HousekeepError, Select, SelectNone, Collect, Destroy, SweepError, FinishDoneError
    <3>. QED
      BY <3>1, <3>2, IdleStep
  <2>4. ASSUME NEW u \in Ticks, Lease(u)
        PROVE  (Held /\ ExclusiveLease)'
    <3>1. job[u] \in Keys /\ jobs[job[u]].status = "queued"
      BY <2>0, <2>4 DEF Lease, TickTypes
    <3>2. \A t \in Ticks : t # u => ~WorksOn(t, job[u])
      BY <3>1 DEF Held
    <3>3. jobs'[job[u]].status = "processing" /\ ~jobs'[job[u]].ripe
      BY <2>0, <2>4, <3>1 DEF Lease, NewRow, Rows
    <3>4. \A k \in Keys : k # job[u] => jobs'[k] = jobs[k]
      BY <2>0, <2>4 DEF Lease, Rows
    <3>5. /\ \A t \in Ticks, k \in Keys : WorksOn(t, k)' /\ t # u => WorksOn(t, k)
          /\ \A k \in Keys : WorksOn(u, k)' => k = job[u]
      <4>1. job' = job /\ \A t \in Ticks : t # u => pc'[t] = pc[t]
        BY <2>0, <2>4 DEF Lease, Goto, TickTypes
      <4>. QED
        BY <4>1 DEF WorksOn
    <3>6. ASSUME NEW t \in Ticks, NEW k \in Keys, WorksOn(t, k)'
          PROVE  /\ jobs'[k].status = "processing" /\ ~jobs'[k].ripe
                 /\ k = job[u] => t = u
                 /\ k # job[u] => WorksOn(t, k)
      <4>1. CASE k = job[u]
        BY <3>2, <3>3, <3>5, <3>6, <4>1
      <4>2. CASE k # job[u]
        BY <3>4, <3>5, <3>6, <4>2 DEF Held
      <4>. QED
        BY <4>1, <4>2
    <3>7. Held'
      BY <3>6 DEF Held
    <3>8. ExclusiveLease'
      BY <3>6 DEF ExclusiveLease
    <3>. QED
      BY <3>7, <3>8
  <2>5. ASSUME NEW u \in Ticks, LeaseLost(u) \/ TickError(u)
        PROVE  (Held /\ ExclusiveLease)'
    <3>1. EndTick(u) /\ UNCHANGED jobs
      BY <2>5 DEF LeaseLost, TickError
    <3>. QED
      BY <2>0, <3>1, EndTickReleases, IdleStep
  <2>6. ASSUME NEW u \in Ticks, Schedule(u)
        PROVE  (Held /\ ExclusiveLease)'
    <3>1. \A t \in Ticks, k \in Keys : WorksOn(t, k)' => WorksOn(t, k)
      BY <2>0, <2>6 DEF Schedule, Goto, TickTypes, WorksOn, Working
    <3>2. \A k \in Keys : jobs[k].status = "processing" => jobs'[k] = jobs[k]
      BY <2>0, <2>6, EnqueueKeeps DEF Schedule, NextKeys, Free, SweepKeys
    <3>. QED
      BY <3>1, <3>2, HeldStep DEF Held
  <2>7. ASSUME NEW u \in Ticks, FinishDone(u) \/ FinishFailed(u)
        PROVE  (Held /\ ExclusiveLease)'
    <3>1. EndTick(u) /\ pc[u] \in Working /\ job[u] \in Keys
      BY <2>0, <2>7 DEF FinishDone, FinishFailed, Working, TickTypes
    <3>2. \A k \in Keys : k # job[u] => jobs'[k] = jobs[k]
      BY <2>0, <2>7 DEF FinishDone, FinishFailed, SetRow, Rows
    <3>3. \A t \in Ticks : WorksOn(t, job[u]) => t = u
      BY <3>1 DEF ExclusiveLease, WorksOn
    <3>. QED
      BY <2>0, <3>1, <3>2, <3>3, EndTickReleases, HeldStep
  <2>8. ASSUME NEW a \in Assets, Upload(a) \/ Attach(a) \/ Discard(a) \/ PostWithFile(a) \/ Grow(a)
        PROVE  (Held /\ ExclusiveLease)'
    BY <2>8, IdleStep DEF Upload, Attach, Discard, PostWithFile, Grow, WorksOn
  <2>9. ASSUME NEW k \in Keys, Ripen(k)
        PROVE  (Held /\ ExclusiveLease)'
    <3>1. \A t \in Ticks : ~WorksOn(t, k)
      BY <2>9 DEF Ripen, Held
    <3>2. \A i \in Keys : i # k => jobs'[i] = jobs[i]
      BY <2>0, <2>9 DEF Ripen, Rows
    <3>3. UNCHANGED ticks
      BY <2>9 DEF Ripen
    <3>4. \A t \in Ticks, i \in Keys : WorksOn(t, i)' = WorksOn(t, i)
      BY <3>3 DEF WorksOn
    <3>. QED
      BY <3>1, <3>2, <3>4, HeldStep
  <2>10. CASE UNCHANGED vars
    BY <2>10, IdleStep DEF vars, WorksOn
  <2>. QED
    BY <2>1, <2>2, <2>3, <2>4, <2>5, <2>6, <2>7, <2>8, <2>9, <2>10 DEF Next, Tick, Failure
<1>. QED
  BY <1>1, <1>2, TypeCorrect, PTL DEF Spec
-----------------------------------------------------------------------------
\* The sweep that is to come: a live row whose tick has not scheduled the next
\* one already (when it has, the row is about to end).
Coming(k) == Live(k) /\ \A t \in Ticks : ~(pc[t] = "done" /\ job[t] = k)

\* ChainAlive is not inductive: the last live row could be one that is about
\* to end.  And only startWorker inserts the boot job.
ChainInv ==
    /\ seeded /\ ~exhausted => \E k \in Keys : Coming(k)
    /\ jobs[BootKey].status # "absent" => seeded

\* A step that keeps every live row live, except those of ticks that have
\* scheduled the next sweep, and schedules none itself.
LEMMA ComingStep ==
    ASSUME ChainInv, seeded' = seeded, exhausted => exhausted',
           jobs'[BootKey].status # "absent" => jobs[BootKey].status # "absent",
           ~exhausted' => \A k \in Keys : Coming(k) => Coming(k)'
    PROVE  ChainInv'
BY DEF ChainInv

\* In particular, one that touches no row.
LEMMA ComingIdle ==
    ASSUME ChainInv, UNCHANGED queue,
           \A t \in Ticks, k \in Keys :
               pc'[t] = "done" /\ job'[t] = k => pc[t] = "done" /\ job[t] = k
    PROVE  ChainInv'
BY ComingStep DEF queue, Coming, Live

\* The end of a tick adds no tick that is about to report success.
LEMMA EndTickComing ==
    ASSUME TickTypes, NEW u \in Ticks, EndTick(u)
    PROVE  \A t \in Ticks, k \in Keys :
               pc'[t] = "done" /\ job'[t] = k => pc[t] = "done" /\ job[t] = k
BY DEF TickTypes, EndTick

\* Once the boot job is in the table a sweep is always to come: a sweep
\* enqueues the next one before its own row ends, an expired or failed row is
\* queued again, and pruning takes terminal rows only.
THEOREM SweepsGoOn == Spec => []ChainAlive
<1>1. Init => ChainInv
  BY KeysFacts DEF Init, ChainInv, Absent, NewRow
<1>2. TypeOK /\ AttemptLeft /\ Held /\ ChainInv /\ [Next]_vars => ChainInv'
  <2>. SUFFICES ASSUME TypeOK, AttemptLeft, Held, ChainInv, [Next]_vars
                PROVE  ChainInv'
    OBVIOUS
  <2>. USE DEF queue, media, ticks
  <2>0. Rows /\ TickTypes /\ BootKey \in Keys
    BY KeysFacts DEF TypeOK, Rows, TickTypes, Job, Places
  <2>1. CASE Boot
    <3>1. \A t \in Ticks, k \in Keys :
              pc'[t] = "done" /\ job'[t] = k => pc[t] = "done" /\ job[t] = k
      BY <2>1 DEF Boot
    <3>2. CASE UNCHANGED <<jobs, seeded>>
      BY <2>1, <3>1, <3>2, ComingIdle DEF Boot
    <3>3. CASE Enqueue(BootKey) /\ seeded' = TRUE
      <4>1. CASE jobs[BootKey].status = "absent"
        <5>1. jobs'[BootKey].status = "queued"
          BY <2>0, <3>3, <4>1, EnqueueKeeps
        <5>2. \A t \in Ticks : ~(pc[t] = "done" /\ job[t] = BootKey)
          BY <2>0, <4>1 DEF Held, WorksOn, Working
        <5>. QED
          BY <2>0, <3>1, <3>3, <5>1, <5>2 DEF ChainInv, Coming, Live
      <4>2. CASE jobs[BootKey].status # "absent"
        <5>1. \A k \in Keys : jobs'[k] = jobs[k]
          BY <2>0, <3>3, <4>2, EnqueueKeeps
        <5>2. seeded' = seeded
          BY <3>3, <4>2 DEF ChainInv
        <5>. QED
          BY <2>0, <2>1, <3>1, <5>1, <5>2, ComingStep DEF Boot, Coming, Live
      <4>. QED
        BY <4>1, <4>2
    <3>. QED
      BY <2>1, <3>2, <3>3 DEF Boot
  <2>2. ASSUME NEW u \in Ticks, Housekeep(u)
        PROVE  ChainInv'
    <3>1. \A t \in Ticks, k \in Keys :
              pc'[t] = "done" /\ job'[t] = k => pc[t] = "done" /\ job[t] = k
      BY <2>0, <2>2 DEF Housekeep, Goto, TickTypes
    <3>2. ~exhausted' => \A k \in Keys : Live(k) => jobs'[k].status \in {"queued", "processing"}
      BY <2>2 DEF Housekeep, Live, Expired, Reclaimed, Prunable, Terminal
    <3>3. jobs'[BootKey].status # "absent" => jobs[BootKey].status # "absent"
      BY <2>0, <2>2 DEF Housekeep, Expired, Absent, NewRow
    <3>4. seeded' = seeded /\ (exhausted => exhausted')
      BY <2>2 DEF Housekeep
    <3>. QED
      BY <3>1, <3>2, <3>3, <3>4, ComingStep DEF Coming, Live
  <2>3. ASSUME NEW u \in Ticks,
               HousekeepError(u) \/ Select(u) \/ SelectNone(u) \/ Collect(u) \/ Destroy(u)
               \/ SweepError(u) \/ FinishDoneError(u)
        PROVE  ChainInv'
    <3>1. UNCHANGED queue
      BY <2>3 DEF HousekeepError, Select, SelectNone, Collect, Destroy, SweepError, FinishDoneError
    <3>2. \A t \in Ticks, k \in Keys :
              pc'[t] = "done" /\ job'[t] = k => pc[t] = "done" /\ job[t] = k
      <4>1. CASE HousekeepError(u) \/ SelectNone(u) \/ Destroy(u) \/ FinishDoneError(u)
        BY <2>0, <4>1 DEF HousekeepError, SelectNone, Destroy, FinishDoneError, Goto, TickTypes
      <4>2. CASE Select(u)
        BY <2>0, <4>2 DEF Select, Goto, TickTypes
      <4>3. CASE Collect(u) \/ SweepError(u)
        BY <2>0, <4>3 DEF Collect, SweepError, Goto, TickTypes
      <4>. QED
        BY <2>3, <4>1, <4>2, <4>3
    <3>. QED
      BY <3>1, <3>2, ComingIdle
  <2>4. ASSUME NEW u \in Ticks, Lease(u)
        PROVE  ChainInv'
    <3>1. \A t \in Ticks, k \in Keys :
              pc'[t] = "done" /\ job'[t] = k => pc[t] = "done" /\ job[t] = k
      BY <2>0, <2>4 DEF Lease, Goto, TickTypes
    <3>2. job[u] \in Keys /\ jobs[job[u]].status = "queued"
      BY <2>0, <2>4 DEF Lease, TickTypes
    <3>3. \A k \in Keys : /\ Live(k) => jobs'[k].status \in {"queued", "processing"}
                          /\ jobs'[k].status # "absent" => jobs[k].status # "absent"
      BY <2>0, <2>4, <3>2 DEF Lease, Live, Rows, NewRow
    <3>. QED
      BY <2>0, <2>4, <3>1, <3>3, ComingStep DEF Lease, Coming, Live
  <2>5. ASSUME NEW u \in Ticks, LeaseLost(u) \/ TickError(u)
        PROVE  ChainInv'
    <3>1. EndTick(u) /\ UNCHANGED queue
      BY <2>5 DEF LeaseLost, TickError
    <3>. QED
      BY <2>0, <3>1, EndTickComing, ComingIdle
  <2>6. ASSUME NEW u \in Ticks, Schedule(u)
        PROVE  ChainInv'
    <3>1. PICK k \in NextKeys : Enqueue(k)
      BY <2>6 DEF Schedule
    <3>2. k \in Keys /\ k # BootKey /\ jobs[k].status \in {"absent", "queued"}
      BY DEF NextKeys, Free, SweepKeys
    <3>3. jobs'[k].status = "queued"
      BY <2>0, <3>1, <3>2, EnqueueKeeps
    <3>4. \A t \in Ticks : ~WorksOn(t, k)
      BY <3>2 DEF Held
    <3>5. \A t \in Ticks : ~(pc'[t] = "done" /\ job'[t] = k)
      BY <2>0, <2>6, <3>4 DEF Schedule, Goto, TickTypes, WorksOn, Working
    <3>6. jobs'[BootKey] = jobs[BootKey]
      BY <2>0, <3>1, <3>2, EnqueueKeeps
    <3>. QED
      BY <2>6, <3>2, <3>3, <3>5, <3>6 DEF Schedule, ChainInv, Coming, Live
  <2>7. ASSUME NEW u \in Ticks, FinishDone(u)
        PROVE  ChainInv'
    <3>1. \A k \in Keys : Coming(k) => k # job[u]
      BY <2>7 DEF FinishDone, Coming
    <3>2. \A k \in Keys : /\ k # job[u] => jobs'[k] = jobs[k]
                          /\ jobs'[k].status # "absent" => jobs[k].status # "absent"
      BY <2>0, <2>7 DEF FinishDone, SetRow, Rows
    <3>3. EndTick(u) /\ UNCHANGED <<seeded, exhausted>>
      BY <2>7 DEF FinishDone
    <3>. QED
      BY <2>0, <3>1, <3>2, <3>3, EndTickComing, ComingStep DEF Coming, Live
  <2>8. ASSUME NEW u \in Ticks, FinishFailed(u)
        PROVE  ChainInv'
    <3>1. job[u] \in Keys /\ jobs[job[u]].status = "processing"
      BY <2>0, <2>8 DEF FinishFailed, TickTypes, Held, WorksOn, Working
    <3>2. \A k \in Keys : /\ k # job[u] => jobs'[k] = jobs[k]
                          /\ jobs'[k].status # "absent" => jobs[k].status # "absent"
      BY <2>0, <2>8 DEF FinishFailed, SetRow, Rows
    <3>3. ~exhausted' => jobs'[job[u]].status = "queued"
      BY <2>0, <2>8, <3>1 DEF FinishFailed, SetRow, NewRow, Rows
    <3>4. EndTick(u) /\ seeded' = seeded /\ (exhausted => exhausted')
      BY <2>8 DEF FinishFailed
    <3>5. ~exhausted' => \A k \in Keys : Live(k) => jobs'[k].status \in {"queued", "processing"}
      BY <3>2, <3>3 DEF Live
    <3>. QED
      BY <2>0, <3>2, <3>4, <3>5, EndTickComing, ComingStep DEF Coming, Live
  <2>9. ASSUME NEW a \in Assets, Upload(a) \/ Attach(a) \/ Discard(a) \/ PostWithFile(a) \/ Grow(a)
        PROVE  ChainInv'
    BY <2>9, ComingIdle DEF Upload, Attach, Discard, PostWithFile, Grow
  <2>10. ASSUME NEW k \in Keys, Ripen(k)
         PROVE  ChainInv'
    <3>1. \A i \in Keys : jobs'[i].status = jobs[i].status
      BY <2>0, <2>10 DEF Ripen, Rows, Job
    <3>. QED
      BY <2>0, <2>10, <3>1, ComingStep DEF Ripen, Coming, Live
  <2>11. CASE UNCHANGED vars
    BY <2>11, ComingIdle DEF vars
  <2>. QED
    BY <2>1, <2>2, <2>3, <2>4, <2>5, <2>6, <2>7, <2>8, <2>9, <2>10, <2>11 DEF Next, Tick, Failure
<1>3. ChainInv => ChainAlive
  BY DEF ChainInv, ChainAlive, Coming
<1>. QED
  BY <1>1, <1>2, <1>3, TypeCorrect, LeasesExclusive, PTL DEF Spec
-----------------------------------------------------------------------------
\* What a sweep still has to destroy was old and unrecorded when it listed
\* it, and an old picture is never recorded `early' afterwards.
BatchesOld ==
    \A t \in Ticks : \A a \in batch[t] :
        asset[a] \in {"old", "destroyed", "discarded"} /\ attached[a] # "early"

\* A step that lists nothing new, destroys no recorded picture and records no
\* old one.
LEMMA KeptStep ==
    ASSUME BatchesOld, RecordedKept,
           \A t \in Ticks : batch'[t] \subseteq batch[t],
           \A t \in Ticks : batch[t] \subseteq Assets,
           \A a \in Assets :
               /\ asset[a] \in {"old", "destroyed", "discarded"} =>
                      asset'[a] \in {"old", "destroyed", "discarded"} /\ (attached'[a] = "early" => attached[a] = "early")
               /\ asset'[a] = "destroyed" => asset[a] = "destroyed" \/ attached'[a] # "early"
               /\ asset[a] = "destroyed" /\ attached'[a] = "early" => attached[a] = "early"
    PROVE  (BatchesOld /\ RecordedKept)'
BY DEF BatchesOld, RecordedKept

\* A picture whose message recorded its public_id before the cutoff is never
\* destroyed by a sweep: handleOrphanSweep lists old unrecorded uploads only,
\* and the list stays true until it has destroyed them, however ticks overlap.
THEOREM RecordedArePreserved == Spec => []RecordedKept
<1>1. Init => BatchesOld /\ RecordedKept
  BY DEF Init, BatchesOld, RecordedKept
<1>2. TypeOK /\ BatchesOld /\ RecordedKept /\ [Next]_vars => (BatchesOld /\ RecordedKept)'
  <2>. SUFFICES ASSUME TypeOK, BatchesOld, RecordedKept, [Next]_vars
                PROVE  (BatchesOld /\ RecordedKept)'
    OBVIOUS
  <2>. USE DEF queue, media, ticks
  <2>0. /\ batch \in [Ticks -> SUBSET Assets] /\ \A t \in Ticks : batch[t] \subseteq Assets
        /\ asset \in [Assets -> {"absent", "young", "old", "destroyed", "discarded"}]
        /\ attached \in [Assets -> {"no", "early", "late", "bare"}]
    BY DEF TypeOK
  <2>1. CASE UNCHANGED media /\ \A t \in Ticks : batch'[t] \subseteq batch[t]
    BY <2>0, <2>1, KeptStep
  <2>2. ASSUME NEW u \in Ticks, EndTick(u)
        PROVE  \A t \in Ticks : batch'[t] \subseteq batch[t]
    BY <2>0, <2>2 DEF EndTick
  <2>3. CASE Boot
    BY <2>1, <2>3 DEF Boot
  <2>4. ASSUME NEW u \in Ticks,
               \/ Housekeep(u) \/ HousekeepError(u) \/ Select(u) \/ SelectNone(u) \/ Lease(u)
               \/ Schedule(u) \/ FinishDoneError(u)
        PROVE  (BatchesOld /\ RecordedKept)'
    BY <2>1, <2>4 DEF Housekeep, HousekeepError, Select, SelectNone, Lease, Schedule,
                      FinishDoneError
  <2>5. ASSUME NEW u \in Ticks,
               LeaseLost(u) \/ FinishDone(u) \/ FinishFailed(u) \/ TickError(u)
        PROVE  (BatchesOld /\ RecordedKept)'
    BY <2>1, <2>2, <2>5 DEF LeaseLost, FinishDone, FinishFailed, TickError
  <2>6. ASSUME NEW u \in Ticks, SweepError(u)
        PROVE  (BatchesOld /\ RecordedKept)'
    BY <2>0, <2>1, <2>6 DEF SweepError
  <2>7. ASSUME NEW u \in Ticks, Collect(u)
        PROVE  (BatchesOld /\ RecordedKept)'
    <3>1. \A a \in batch'[u] : asset[a] = "old" /\ attached[a] # "early"
      BY <2>0, <2>7 DEF Collect
    <3>2. \A t \in Ticks : t # u => batch'[t] = batch[t]
      BY <2>0, <2>7 DEF Collect
    <3>3. UNCHANGED media
      BY <2>7 DEF Collect
    <3>. QED
      BY <3>1, <3>2, <3>3 DEF BatchesOld, RecordedKept
  <2>8. ASSUME NEW u \in Ticks, Destroy(u)
        PROVE  (BatchesOld /\ RecordedKept)'
    <3>1. PICK a \in batch[u] :
              /\ batch' = [batch EXCEPT ![u] = @ \ {a}]
              /\ \/ asset' = [asset EXCEPT ![a] = IF @ = "old" THEN "destroyed" ELSE @]
                 \/ UNCHANGED asset
      BY <2>8 DEF Destroy
    <3>2. attached[a] # "early" /\ UNCHANGED attached
      BY <2>8 DEF Destroy, BatchesOld
    <3>3. \A t \in Ticks : batch'[t] \subseteq batch[t]
      BY <2>0, <3>1
    <3>4. \A b \in Assets : asset'[b] = asset[b] \/ (b = a /\ asset'[b] = "destroyed")
      <4>1. CASE asset' = [asset EXCEPT ![a] = IF @ = "old" THEN "destroyed" ELSE @]
        BY <2>0, <4>1
      <4>2. CASE UNCHANGED asset
        BY <4>2
      <4>. QED
        BY <3>1, <4>1, <4>2
    <3>. QED
      BY <2>0, <3>2, <3>3, <3>4, KeptStep
  <2>9. ASSUME NEW a \in Assets, Upload(a) \/ Attach(a) \/ Discard(a) \/ PostWithFile(a) \/ Grow(a)
        PROVE  (BatchesOld /\ RecordedKept)'
    <3>1. UNCHANGED batch
      BY <2>9 DEF Upload, Attach, Discard, PostWithFile, Grow
    <3>2. \A b \in Assets : b # a => asset'[b] = asset[b] /\ attached'[b] = attached[b]
      BY <2>0, <2>9 DEF Upload, Attach, Discard, PostWithFile, Grow
    <3>3. /\ asset[a] \in {"old", "destroyed", "discarded"} =>
                 asset'[a] \in {"old", "destroyed", "discarded"} /\ (attached'[a] = "early" => attached[a] = "early")
          /\ asset'[a] = "destroyed" => asset[a] = "destroyed" \/ attached'[a] # "early"
          /\ asset[a] = "destroyed" /\ attached'[a] = "early" => attached[a] = "early"
      BY <2>0, <2>9 DEF Upload, Attach, Discard, PostWithFile, Grow
    <3>. QED
      BY <2>0, <3>1, <3>2, <3>3, KeptStep
  <2>10. ASSUME NEW k \in Keys, Ripen(k)
         PROVE  (BatchesOld /\ RecordedKept)'
    BY <2>1, <2>10 DEF Ripen
  <2>11. CASE UNCHANGED vars
    BY <2>1, <2>11 DEF vars
  <2>. QED
    BY <2>3, <2>4, <2>5, <2>6, <2>7, <2>8, <2>9, <2>10, <2>11 DEF Next, Tick, Failure
<1>. QED
  BY <1>1, <1>2, TypeCorrect, PTL DEF Spec
-----------------------------------------------------------------------------
\* Rows and answers of the right type.
LEMMA KeyRowTypes ==
    ASSUME Key!TypeOK
    PROVE  /\ \A c \in Clients : Key!FreshRow(c) \in Key!Row
           /\ \A x \in row, h \in Hashes : [x EXCEPT !.status = "done", !.resp = h] \in Key!Row
           /\ \A x \in row, a \in {"stale", "expired"} : [x EXCEPT !.age = a] \in Key!Row
           /\ \A x \in row : [kind |-> "replay", of |-> x.resp] \in Key!Answer
           /\ \A k \in {"none", "ok", "error", "mismatch"} : Key!Told(k) \in Key!Answer
<1>1. \A c \in Clients : Key!FreshRow(c) \in Key!Row
  BY DEF Key!TypeOK, Key!FreshRow, Key!Row
<1>2. \A x \in row : x \in Key!Row
  BY DEF Key!TypeOK
<1>. QED
  BY <1>1, <1>2 DEF Key!Row, Key!Answer, Key!Told

\* Type correctness, whatever handlers do.
THEOREM KeysTyped == Key!Spec => []Key!TypeOK
<1>1. Key!Init => Key!TypeOK
  BY DEF Key!Init, Key!TypeOK, Key!Row, Key!Answer, Key!Told
<1>2. Key!TypeOK /\ [Key!Next]_(Key!vars) => Key!TypeOK'
  <2>. SUFFICES ASSUME Key!TypeOK, [Key!Next]_(Key!vars)
                PROVE  Key!TypeOK'
    OBVIOUS
  <2>0. /\ \A c \in Clients : Key!FreshRow(c) \in Key!Row
        /\ \A x \in row, h \in Hashes : [x EXCEPT !.status = "done", !.resp = h] \in Key!Row
        /\ \A x \in row, a \in {"stale", "expired"} : [x EXCEPT !.age = a] \in Key!Row
        /\ \A x \in row : [kind |-> "replay", of |-> x.resp] \in Key!Answer
        /\ \A k \in {"none", "ok", "error", "mismatch"} : Key!Told(k) \in Key!Answer
    BY KeyRowTypes
  <2>. USE DEF Key!TypeOK, Key!Goto, Key!Tell, Key!ghosts
  <2>1. ASSUME NEW c \in Clients, Key!Middleware(c)
        PROVE  Key!TypeOK'
    <3>1. CASE Key!ClaimInsert(c)
      BY <2>0, <3>1 DEF Key!ClaimInsert
    <3>2. CASE Key!Reinsert(c)
      BY <2>0, <3>2 DEF Key!Reinsert
    <3>3. CASE Key!ReadMismatch(c)
      BY <2>0, <3>3 DEF Key!ReadMismatch
    <3>4. CASE Key!ReadDone(c)
      BY <2>0, <3>4 DEF Key!ReadDone
    <3>5. CASE Key!TakeOver(c)
      BY <3>5 DEF Key!TakeOver
    <3>6. CASE Key!InsertDup(c) \/ Key!ReadMissing(c) \/ Key!ReadStale(c) \/ Key!ReadBusy(c)
               \/ Key!TakeOverLost(c) \/ Key!ReinsertDup(c)
      BY <3>6 DEF Key!InsertDup, Key!ReadMissing, Key!ReadStale, Key!ReadBusy, Key!TakeOverLost, Key!ReinsertDup
    <3>. QED
      BY <2>1, <3>1, <3>2, <3>3, <3>4, <3>5, <3>6 DEF Key!Middleware
  <2>2. ASSUME NEW c \in Clients, Key!FailOpen(c)
        PROVE  Key!TypeOK'
    BY <2>2 DEF Key!FailOpen
  <2>3. ASSUME NEW c \in Clients, Key!Handler(c)
        PROVE  Key!TypeOK'
    <3>1. CASE Key!HandlerCommit(c)
      <4>1. runs' \in [claimed : Nat, unclaimed : Nat]
        BY <3>1 DEF Key!HandlerCommit
      <4>. QED
        BY <3>1, <4>1 DEF Key!HandlerCommit
    <3>2. CASE Key!HandlerFail(c)
      BY <3>2 DEF Key!HandlerFail
    <3>. QED
      BY <2>3, <3>1, <3>2 DEF Key!Handler
  <2>4. ASSUME NEW c \in Clients, Key!Respond(c)
        PROVE  Key!TypeOK'
    BY <2>0, <2>4 DEF Key!Respond
  <2>5. ASSUME NEW c \in Clients, Key!Retry(c)
        PROVE  Key!TypeOK'
    <3>1. answer' \in [Clients -> Key!Answer]
      BY <2>0, <2>5 DEF Key!Retry
    <3>2. at' = [at EXCEPT ![c] = "insert"] /\ retries' = retries + 1
          /\ UNCHANGED <<row, hash, claimed, ok, runs, lost, errors, crashes>>
      BY <2>5 DEF Key!Retry
    <3>. QED
      BY <3>1, <3>2
  <2>6. ASSUME NEW c \in Clients, Key!Finalize(c)
        PROVE  Key!TypeOK'
    <3>1. \A x \in row : [x EXCEPT !.status = "done", !.resp = hash[c]] \in Key!Row
      BY <2>0
    <3>2. {[x EXCEPT !.status = "done", !.resp = hash[c]] : x \in row} \in SUBSET Key!Row
      BY <3>1, Zenon
    <3>3. row' \in SUBSET Key!Row /\ \A x, y \in row' : x = y
      BY <2>6, <3>2 DEF Key!Finalize
    <3>. QED
      BY <2>6, <3>3 DEF Key!Finalize
  <2>7. ASSUME NEW c \in Clients, Key!FinalizeError(c)
        PROVE  Key!TypeOK'
    BY <2>7 DEF Key!FinalizeError
  <2>8. CASE Key!Age
    <3>1. row' \in SUBSET Key!Row /\ \A x, y \in row' : x = y
      BY <2>0, <2>8 DEF Key!Age
    <3>. QED
      BY <2>8, <3>1 DEF Key!Age
  <2>9. CASE Key!Cleanup
    BY <2>9 DEF Key!Cleanup
  <2>10. CASE Key!Crash
    BY <2>10 DEF Key!Crash
  <2>11. CASE UNCHANGED Key!vars
    BY <2>11 DEF Key!vars
  <2>. QED
    BY <2>1, <2>2, <2>3, <2>4, <2>5, <2>6, <2>7, <2>8, <2>9, <2>10, <2>11 DEF Key!Next, Key!Request
<1>. QED
  BY <1>1, <1>2, PTL DEF Key!Spec
-----------------------------------------------------------------------------
(***************************************************************************)
(* While no handler outlasts the takeover window, a request that claims    *)
(* the key is the only one, and the row of the key is its own, young and   *)
(* unfinished, until its bookkeeping is done: so nobody inserts, takes     *)
(* over, finishes or sweeps the row meanwhile.  A finished row carries the *)
(* response to a request of its own body.                                  *)
(***************************************************************************)
OwnRow(c) ==
    /\ row # {}
    /\ \A x \in row : x.status = "processing" /\ x.age = "fresh" /\ x.hash = hash[c]

Exclusive ==
    /\ \A c \in Clients : claimed[c] => at[c] \in {"handler", "respond", "finalize"} /\ OwnRow(c)
    /\ \A c \in Clients : at[c] = "finalize" => claimed[c]
    /\ \A c, d \in Clients : claimed[c] /\ claimed[d] => c = d
    /\ \A x \in row : x.status = "done" => x.resp = x.hash

\* Exclusive holds in the initial states.
LEMMA ExclusiveInit == Key!Init => Exclusive
BY DEF Key!Init, Exclusive

\* A step that leaves the row and the claims alone, and moves no request out
\* of the statements of a claim or into its bookkeeping.
LEMMA ExclusiveStep ==
    ASSUME Key!TypeOK, Exclusive, UNCHANGED <<row, hash, claimed>>,
           \A c \in Clients :
              /\ claimed[c] => at'[c] \in {"handler", "respond", "finalize"}
              /\ at'[c] = "finalize" => claimed[c]
    PROVE  Exclusive'
BY DEF Exclusive, OwnRow

\* The key is claimed, by the first INSERT or by the one after a takeover.
LEMMA ExclusiveClaim ==
    ASSUME Key!TypeOK, Exclusive, NEW c \in Clients, Key!ClaimInsert(c) \/ Key!Reinsert(c)
    PROVE  Exclusive'
<1>1. /\ row = {} /\ row' = {Key!FreshRow(c)} /\ hash' = hash
      /\ at' = [at EXCEPT ![c] = "handler"]
      /\ claimed' = [claimed EXCEPT ![c] = TRUE]
  BY DEF Key!ClaimInsert, Key!Reinsert, Key!Goto
<1>2. \A d \in Clients : ~claimed[d]
  BY <1>1 DEF Exclusive, OwnRow
<1>3. OwnRow(c)'
  BY <1>1 DEF OwnRow, Key!FreshRow
<1>4. \A x \in row' : x.status # "done"
  BY <1>1 DEF Key!FreshRow
<1>. QED
  BY <1>1, <1>2, <1>3, <1>4 DEF Exclusive, Key!TypeOK

\* The bookkeeping of a claim ends it.
LEMMA ExclusiveFinalize ==
    ASSUME Key!TypeOK, Exclusive, NEW c \in Clients, Key!Finalize(c) \/ Key!FinalizeError(c)
    PROVE  Exclusive'
<1>1. /\ claimed[c] /\ hash' = hash
      /\ at' = [at EXCEPT ![c] = "end"]
      /\ claimed' = [claimed EXCEPT ![c] = FALSE]
  BY DEF Key!Finalize, Key!FinalizeError, Key!Goto, Exclusive
<1>2. \A d \in Clients : ~claimed'[d]
  BY <1>1 DEF Exclusive, Key!TypeOK
<1>3. \A x \in row' : x.status = "done" => x.resp = x.hash
  <2>1. OwnRow(c)
    BY <1>1 DEF Exclusive
  <2>2. CASE Key!Finalize(c)
    <3>1. ASSUME NEW x \in row'
          PROVE  x.resp = x.hash
      <4>1. PICK y \in row : x = [y EXCEPT !.status = "done", !.resp = hash[c]]
        BY <2>2, <3>1 DEF Key!Finalize
      <4>2. y \in Key!Row /\ y.hash = hash[c]
        BY <2>1 DEF OwnRow, Key!TypeOK
      <4>. QED
        BY <4>1, <4>2 DEF Key!Row
    <3>. QED
      BY <3>1
  <2>3. CASE Key!FinalizeError(c)
    BY <2>3 DEF Key!FinalizeError, Exclusive
  <2>. QED
    BY <2>2, <2>3
<1>. QED
  BY <1>1, <1>2, <1>3 DEF Exclusive, Key!TypeOK

\* Exclusive is an invariant while no handler is slow.
LEMMA ExclusiveInv ==
    ASSUME SlowHandlers = FALSE
    PROVE  Key!Spec => []Exclusive
<1>1. Key!TypeOK /\ Exclusive /\ [Key!Next]_(Key!vars) => Exclusive'
  <2>. SUFFICES ASSUME Key!TypeOK, Exclusive, [Key!Next]_(Key!vars)
                PROVE  Exclusive'
    OBVIOUS
  <2>1. ASSUME NEW c \in Clients, Key!Middleware(c)
        PROVE  Exclusive'
    <3>1. CASE Key!ClaimInsert(c) \/ Key!Reinsert(c)
      BY <3>1, ExclusiveClaim
    <3>2. CASE Key!TakeOver(c)
      <4>1. /\ row' = {} /\ UNCHANGED <<hash, claimed>>
            /\ at' = [at EXCEPT ![c] = "reinsert"]
            /\ \E x \in row : x.age # "fresh"
        BY <3>2 DEF Key!TakeOver, Key!Goto, Key!Abandoned
      <4>2. \A d \in Clients : ~claimed[d]
        BY <4>1 DEF Exclusive, OwnRow
      <4>. QED
        BY <4>1, <4>2 DEF Exclusive, Key!TypeOK
    <3>3. CASE Key!InsertDup(c) \/ Key!ReadMissing(c) \/ Key!ReadMismatch(c) \/ Key!ReadDone(c)
               \/ Key!ReadStale(c) \/ Key!ReadBusy(c) \/ Key!TakeOverLost(c) \/ Key!ReinsertDup(c)
      <4>1. /\ UNCHANGED <<row, hash, claimed>>
            /\ at[c] \in {"insert", "read", "takeover", "reinsert"}
            /\ \E to \in {"insert", "read", "takeover", "handler", "end"} :
                  at' = [at EXCEPT ![c] = to]
        BY <3>3 DEF Key!InsertDup, Key!ReadMissing, Key!ReadMismatch, Key!ReadDone, Key!ReadStale, Key!ReadBusy,
                    Key!TakeOverLost, Key!ReinsertDup, Key!Goto
      <4>2. \A d \in Clients : d # c => at'[d] = at[d]
        BY <4>1 DEF Key!TypeOK
      <4>3. ~claimed[c] /\ at'[c] # "finalize"
        BY <4>1 DEF Exclusive, Key!TypeOK
      <4>. QED
        BY <4>1, <4>2, <4>3, ExclusiveStep DEF Exclusive
    <3>. QED
      BY <2>1, <3>1, <3>2, <3>3 DEF Key!Middleware
  <2>2. ASSUME NEW c \in Clients, Key!FailOpen(c) \/ Key!Handler(c) \/ Key!Respond(c) \/ Key!Retry(c)
        PROVE  Exclusive'
    <3>1. UNCHANGED <<row, hash, claimed>>
      BY <2>2 DEF Key!FailOpen, Key!Handler, Key!HandlerCommit, Key!HandlerFail, Key!Respond, Key!Retry, Key!ghosts
    <3>2. \A d \in Clients : d # c => at'[d] = at[d]
      BY <2>2 DEF Key!FailOpen, Key!Handler, Key!HandlerCommit, Key!HandlerFail, Key!Respond, Key!Retry, Key!Goto, Key!TypeOK
    <3>3. /\ claimed[c] => at'[c] \in {"handler", "respond", "finalize"}
          /\ at'[c] = "finalize" => claimed[c]
      BY <2>2 DEF Key!FailOpen, Key!Handler, Key!HandlerCommit, Key!HandlerFail, Key!Respond, Key!Retry, Key!Goto,
                  Key!TypeOK, Exclusive
    <3>. QED
      BY <3>1, <3>2, <3>3, ExclusiveStep DEF Exclusive
  <2>3. ASSUME NEW c \in Clients, Key!Finalize(c) \/ Key!FinalizeError(c)
        PROVE  Exclusive'
    BY <2>3, ExclusiveFinalize
  <2>4. CASE Key!Age
    <3>1. /\ UNCHANGED <<hash, at, claimed>>
          /\ \E x \in row, a \in {"stale", "expired"} : row' = {[x EXCEPT !.age = a]}
      BY <2>4 DEF Key!Age
    <3>2. \A d \in Clients : ~claimed[d]
      <4>1. Key!Held => \A x \in row : x.age = "fresh"
        BY DEF Key!Held, Exclusive, OwnRow
      <4>2. ~Key!Held
        BY <2>4, <4>1, SlowHandlers = FALSE DEF Key!Age
      <4>. QED
        BY <4>2 DEF Key!Held
    <3>3. \A x \in row' : x.status = "done" => x.resp = x.hash
      BY <3>1 DEF Exclusive, Key!TypeOK, Key!Row
    <3>. QED
      BY <3>1, <3>2, <3>3 DEF Exclusive
  <2>5. CASE Key!Cleanup
    <3>1. /\ row' = {} /\ UNCHANGED <<hash, at, claimed>>
          /\ \E x \in row : x.age = "expired"
      BY <2>5 DEF Key!Cleanup
    <3>. QED
      BY <3>1 DEF Exclusive, OwnRow
  <2>6. CASE Key!Crash
    <3>1. /\ claimed' = [c \in Clients |-> FALSE] /\ row' = row
          /\ \A c \in Clients : at'[c] \in {"insert", "end"}
      BY <2>6 DEF Key!Crash
    <3>. QED
      BY <3>1 DEF Exclusive
  <2>7. CASE UNCHANGED Key!vars
    BY <2>7 DEF Key!vars, Exclusive, OwnRow
  <2>. QED
    BY <2>1, <2>2, <2>3, <2>4, <2>5, <2>6, <2>7 DEF Key!Next, Key!Request
<1>. QED
  BY <1>1, ExclusiveInit, KeysTyped, PTL DEF Key!Spec
-----------------------------------------------------------------------------
(***************************************************************************)
(* ClaimedOnce alone is not inductive: whether a claimed handler may       *)
(* commit depends on what became of the commit before it.  It is stored,   *)
(* or about to be, as long as the one commit that lost does not excuse     *)
(* exists, so that the key cannot be claimed.                              *)
(***************************************************************************)
Stored == (\E x \in row : x.status = "done") \/ (\E c \in Clients : Key!Unsaved(c))

Accounted ==
    /\ runs.claimed <= 1 + lost
    /\ ~Stored => runs.claimed <= lost

\* A claim excludes a stored response, and the claim of anybody else.
LEMMA ClaimKept ==
    ASSUME Exclusive, NEW c \in Clients, claimed[c]
    PROVE  Stored <=> Key!Unsaved(c)
BY DEF Exclusive, OwnRow, Stored, Key!Unsaved

\* A step that leaves the counts alone, and keeps what is kept.
LEMMA AccountedStep ==
    ASSUME Key!TypeOK, Accounted, UNCHANGED <<runs, lost>>, Stored => Stored'
    PROVE  Accounted'
BY DEF Accounted

\* Accounted is an invariant while no handler is slow.
LEMMA AccountedInv ==
    ASSUME SlowHandlers = FALSE
    PROVE  Key!Spec => []Accounted
<1>1. Key!Init => Accounted
  BY DEF Key!Init, Accounted
<1>2. Key!TypeOK /\ Exclusive /\ Accounted /\ [Key!Next]_(Key!vars) => Accounted'
  <2>. SUFFICES ASSUME Key!TypeOK, Exclusive, Accounted, [Key!Next]_(Key!vars)
                PROVE  Accounted'
    OBVIOUS
  <2>0. runs.claimed \in Nat /\ runs.unclaimed \in Nat /\ lost \in Nat
    BY DEF Key!TypeOK
  <2>1. ASSUME NEW c \in Clients, Key!Middleware(c) \/ Key!FailOpen(c)
        PROVE  Accounted'
    <3>1. UNCHANGED <<runs, lost, ok>>
      BY <2>1 DEF Key!Middleware, Key!ClaimInsert, Key!InsertDup, Key!ReadMissing, Key!ReadMismatch, Key!ReadDone,
                  Key!ReadStale, Key!ReadBusy, Key!TakeOver, Key!TakeOverLost, Key!Reinsert, Key!ReinsertDup, Key!FailOpen, Key!ghosts
    <3>2. /\ at[c] \in {"insert", "read", "takeover", "reinsert"}
          /\ \A d \in Clients : d # c => at'[d] = at[d] /\ claimed'[d] = claimed[d]
      BY <2>1 DEF Key!Middleware, Key!ClaimInsert, Key!InsertDup, Key!ReadMissing, Key!ReadMismatch, Key!ReadDone,
                  Key!ReadStale, Key!ReadBusy, Key!TakeOver, Key!TakeOverLost, Key!Reinsert, Key!ReinsertDup, Key!FailOpen,
                  Key!Goto, Key!TypeOK
    <3>3. ~Key!Unsaved(c) /\ \A d \in Clients : Key!Unsaved(d) => Key!Unsaved(d)'
      BY <3>1, <3>2 DEF Key!Unsaved
    <3>4. (\E x \in row : x.status = "done") => (\E x \in row' : x.status = "done")
      BY <2>1 DEF Key!Middleware, Key!ClaimInsert, Key!InsertDup, Key!ReadMissing, Key!ReadMismatch, Key!ReadDone,
                  Key!ReadStale, Key!ReadBusy, Key!TakeOver, Key!TakeOverLost, Key!Reinsert, Key!ReinsertDup, Key!FailOpen,
                  Key!Abandoned, Key!TypeOK
    <3>. QED
      BY <3>1, <3>3, <3>4, AccountedStep DEF Stored
  <2>2. ASSUME NEW c \in Clients, Key!HandlerCommit(c)
        PROVE  Accounted'
    <3>1. /\ UNCHANGED <<row, claimed, lost>>
          /\ at[c] = "handler" /\ at' = [at EXCEPT ![c] = "respond"]
          /\ ok' = [ok EXCEPT ![c] = TRUE]
          /\ runs'.claimed = IF claimed[c] THEN runs.claimed + 1 ELSE runs.claimed
      BY <2>2 DEF Key!HandlerCommit, Key!Goto, Key!TypeOK
    <3>2. CASE claimed[c]
      <4>1. ~Stored
        BY <3>1, <3>2, ClaimKept DEF Key!Unsaved
      <4>2. Stored'
        BY <3>1, <3>2 DEF Stored, Key!Unsaved, Key!TypeOK
      <4>. QED
        BY <2>0, <3>1, <3>2, <4>1, <4>2 DEF Accounted
    <3>3. CASE ~claimed[c]
      <4>1. Stored => Stored'
        BY <3>1, <3>3 DEF Stored, Key!Unsaved, Key!TypeOK
      <4>. QED
        BY <2>0, <3>1, <3>3, <4>1 DEF Accounted
    <3>. QED
      BY <3>2, <3>3
  <2>3. ASSUME NEW c \in Clients, Key!HandlerFail(c) \/ Key!Respond(c) \/ Key!Retry(c)
        PROVE  Accounted'
    <3>1. /\ UNCHANGED <<row, claimed, runs, lost>>
          /\ at[c] # "finalize"
          /\ \A d \in Clients : d # c => at'[d] = at[d] /\ ok'[d] = ok[d]
      BY <2>3 DEF Key!HandlerFail, Key!Respond, Key!Retry, Key!Goto, Key!TypeOK, Key!ghosts
    <3>2. Key!Unsaved(c) => Key!Unsaved(c)'
      BY <2>3 DEF Key!HandlerFail, Key!Respond, Key!Retry, Key!Goto, Key!TypeOK, Key!Unsaved
    <3>. QED
      BY <3>1, <3>2, AccountedStep DEF Stored, Key!Unsaved
  <2>4. ASSUME NEW c \in Clients, Key!Finalize(c)
        PROVE  Accounted'
    <3>1. /\ claimed[c] /\ at[c] = "finalize" /\ UNCHANGED <<runs, lost>>
          /\ row' = IF ok[c]
                    THEN {[x EXCEPT !.status = "done", !.resp = hash[c]] : x \in row} ELSE {}
      BY <2>4 DEF Key!Finalize, Key!Goto, Exclusive, Key!ghosts
    <3>2. ASSUME ok[c]
          PROVE  Stored'
      <4>1. PICK x \in row : TRUE
        BY <3>1 DEF Exclusive, OwnRow
      <4>2. [x EXCEPT !.status = "done", !.resp = hash[c]] \in row'
        BY <3>1, <3>2
      <4>3. [x EXCEPT !.status = "done", !.resp = hash[c]].status = "done"
        BY DEF Key!TypeOK, Key!Row
      <4>. QED
        BY <4>2, <4>3 DEF Stored
    <3>3. Stored => ok[c]
      BY <3>1, ClaimKept DEF Key!Unsaved
    <3>. QED
      BY <3>1, <3>2, <3>3, AccountedStep
  <2>5. ASSUME NEW c \in Clients, Key!FinalizeError(c)
        PROVE  Accounted'
    <3>1. /\ claimed[c] /\ at[c] = "finalize" /\ runs' = runs
          /\ lost' = IF ok[c] THEN lost + 1 ELSE lost
      BY <2>5 DEF Key!FinalizeError, Key!Goto, Exclusive
    <3>2. Stored => ok[c]
      BY <3>1, ClaimKept DEF Key!Unsaved
    <3>. QED
      BY <2>0, <3>1, <3>2 DEF Accounted
  <2>6. CASE Key!Age
    <3>1. /\ UNCHANGED <<at, claimed, ok, runs, lost>>
          /\ \E x \in row, a \in {"stale", "expired"} : row' = {[x EXCEPT !.age = a]}
      BY <2>6 DEF Key!Age, Key!ghosts
    <3>2. (\E x \in row : x.status = "done") => (\E x \in row' : x.status = "done")
      BY <3>1 DEF Key!TypeOK, Key!Row
    <3>. QED
      BY <3>1, <3>2, AccountedStep DEF Stored, Key!Unsaved
  <2>7. CASE Key!Cleanup
    <3>1. /\ UNCHANGED <<at, claimed, ok, runs>>
          /\ \E x \in row : /\ x.age = "expired"
                             /\ lost' = IF x.status = "done" THEN lost + 1 ELSE lost
      BY <2>7 DEF Key!Cleanup
    <3>2. \A c \in Clients : ~Key!Unsaved(c)
      BY <3>1 DEF Exclusive, OwnRow, Key!Unsaved
    <3>. QED
      BY <2>0, <3>1, <3>2 DEF Accounted, Stored, Key!TypeOK
  <2>8. CASE Key!Crash
    <3>1. /\ UNCHANGED <<row, runs>>
          /\ lost' = IF \E c \in Clients : Key!Unsaved(c) THEN lost + 1 ELSE lost
      BY <2>8 DEF Key!Crash
    <3>. QED
      BY <2>0, <3>1 DEF Accounted, Stored
  <2>9. CASE UNCHANGED Key!vars
    BY <2>9 DEF Key!vars, Accounted, Stored, Key!Unsaved
  <2>. QED
    BY <2>1, <2>2, <2>3, <2>4, <2>5, <2>6, <2>7, <2>8, <2>9 DEF Key!Next, Key!Request, Key!Handler
<1>. QED
  BY <1>1, <1>2, KeysTyped, ExclusiveInv, PTL DEF Key!Spec

\* The claim protocol does what it is for: handlers under a claim commit once,
\* and once more for every response that a crash, a swallowed error or the
\* sweep has lost, whatever requests, takeovers and retries run into each other.
THEOREM ClaimsCommitOnce ==
    ASSUME SlowHandlers = FALSE
    PROVE  Key!Spec => []ClaimedOnce
<1>1. Accounted => ClaimedOnce
  BY DEF Accounted, ClaimedOnce, Key!ClaimedOnce
<1>. QED
  BY <1>1, AccountedInv, PTL

\* No request is answered with the response to another method, path or body.
THEOREM ReplaysOwnResponse ==
    ASSUME SlowHandlers = FALSE
    PROVE  Key!Spec => []OwnResponse
<1>1. Key!Init => OwnResponse
  BY DEF Key!Init, OwnResponse, Key!OwnResponse, Key!Told
<1>2. Key!TypeOK /\ Exclusive /\ OwnResponse /\ [Key!Next]_(Key!vars) => OwnResponse'
  <2>. SUFFICES ASSUME Key!TypeOK, Exclusive, OwnResponse, [Key!Next]_(Key!vars)
                PROVE  OwnResponse'
    OBVIOUS
  <2>1. ASSUME NEW c \in Clients, Key!ReadDone(c)
        PROVE  OwnResponse'
    <3>1. \E x \in row : /\ x.hash = hash[c] /\ x.resp = x.hash
                         /\ answer' = [answer EXCEPT ![c] = [kind |-> "replay", of |-> x.resp]]
      BY <2>1 DEF Key!ReadDone, Key!Tell, Exclusive
    <3>2. hash' = hash
      BY <2>1 DEF Key!ReadDone
    <3>. QED
      BY <3>1, <3>2 DEF OwnResponse, Key!OwnResponse, Key!TypeOK
  <2>2. ASSUME NEW c \in Clients, Key!ReadMismatch(c) \/ Key!Respond(c) \/ Key!Retry(c)
        PROVE  OwnResponse'
    <3>1. /\ hash' = hash
          /\ \E k \in {"mismatch", "ok", "error", "none"} :
                answer' = [answer EXCEPT ![c] = Key!Told(k)]
      BY <2>2 DEF Key!ReadMismatch, Key!Respond, Key!Retry, Key!Tell
    <3>. QED
      BY <3>1 DEF OwnResponse, Key!OwnResponse, Key!TypeOK, Key!Told
  <2>3. ASSUME UNCHANGED <<hash, answer>>
        PROVE  OwnResponse'
    BY <2>3 DEF OwnResponse, Key!OwnResponse
  <2>4. ASSUME NEW c \in Clients,
               Key!ClaimInsert(c) \/ Key!InsertDup(c) \/ Key!ReadMissing(c) \/ Key!ReadStale(c) \/ Key!ReadBusy(c)
               \/ Key!TakeOver(c) \/ Key!TakeOverLost(c) \/ Key!Reinsert(c) \/ Key!ReinsertDup(c)
               \/ Key!FailOpen(c) \/ Key!Handler(c) \/ Key!Finalize(c) \/ Key!FinalizeError(c)
        PROVE  UNCHANGED <<hash, answer>>
    BY <2>4 DEF Key!ClaimInsert, Key!InsertDup, Key!ReadMissing, Key!ReadStale, Key!ReadBusy, Key!TakeOver, Key!TakeOverLost,
                Key!Reinsert, Key!ReinsertDup, Key!FailOpen, Key!Handler, Key!HandlerCommit, Key!HandlerFail, Key!Finalize,
                Key!FinalizeError
  <2>5. ASSUME Key!Age \/ Key!Cleanup \/ Key!Crash \/ UNCHANGED Key!vars
        PROVE  UNCHANGED <<hash, answer>>
    BY <2>5 DEF Key!Age, Key!Cleanup, Key!Crash, Key!vars
  <2>. QED
    BY <2>1, <2>2, <2>3, <2>4, <2>5 DEF Key!Next, Key!Request, Key!Middleware
<1>. QED
  BY <1>1, <1>2, KeysTyped, ExclusiveInv, PTL DEF Key!Spec
=============================================================================
