------------------------------ MODULE JobQueue ------------------------------
(***************************************************************************)
(* The durable worker over job_queuetab (src/services/jobWorker.js) and    *)
(* its one job, the sweep of support uploads nobody sent: the queue, the   *)
(* ticks of all worker processes, the Cloudinary folder and the table of   *)
(* sent attachments.  setInterval does not wait for a tick to end and the  *)
(* cluster runs several processes, so ticks overlap: Ticks are the tick    *)
(* executions that may be under way at once.  Statements and Cloudinary    *)
(* calls are atomic steps.  Cloudinary is configured, and a sweep ends     *)
(* within its lease ("must comfortably exceed a real sweep's runtime").    *)
(***************************************************************************)
EXTENDS Naturals

CONSTANTS
    Ticks,        \* concurrent executions of tick()
    Assets,       \* images in the folder nogatu/support
    MaxAttempts,  \* MAX_ATTEMPTS
    MaxSweeps,    \* bound: self-scheduled jobs that are waiting or running at once
    MaxBoots,     \* bound: starts of a worker process
    MaxFaults     \* bound: statements and calls that fail outside a sweep

ASSUME JobQueueAssumption ==
    /\ MaxAttempts \in Nat \ {0} /\ MaxSweeps \in Nat \ {0}
    /\ MaxBoots \in Nat /\ MaxFaults \in Nat

\* Job keys: `orphan_sweep_boot', and one for each `orphan_sweep_<now>'.  The
\* latter are never enqueued again, so that their rows count as absent when
\* they are terminal, and the key stands for the next sweep.
BootKey == 0
Keys == BootKey .. MaxSweeps

VARIABLES
    jobs,       \* jobs[k]: the row of key k, "absent" when there is none
    asset,      \* asset[a]: the image, "old" past ORPHAN_TTL_HOURS; when it is
                \* gone, "destroyed" by a sweep or "discarded" by its member
    attached,   \* attached[a]: how the sent message that shows it recorded it
    pc, job,    \* of each tick: its next statement, the key it works on
    batch,      \* of each tick: images still to destroy
    seeded,     \* history: the boot job has been inserted
    exhausted,  \* history: some job ended as `failed'
    boots, faults   \* history: for the bounds

queue == <<jobs, seeded, exhausted>>
media == <<asset, attached>>
ticks == <<pc, job, batch>>
vars  == <<queue, media, ticks, boots, faults>>

Terminal == {"done", "failed"}
Statuses == {"absent", "queued", "processing"} \cup Terminal

\* `ripe' is what time does to a row: a queued one becomes available, the
\* lease of a processing one expires, a terminal one passes its retention.
NewRow(s, n) == [status |-> s, attempts |-> n, ripe |-> FALSE]
Absent == NewRow("absent", 0)
Ended(k, s, n) == IF k = BootKey THEN NewRow(s, n) ELSE Absent

TypeOK ==
    /\ jobs \in [Keys -> [status : Statuses, attempts : 0 .. MaxAttempts, ripe : BOOLEAN]]
    /\ asset \in [Assets -> {"absent", "young", "old", "destroyed", "discarded"}]
    /\ attached \in [Assets -> {"no", "early", "late", "bare"}]
    /\ pc \in [Ticks -> {"idle", "select", "lease", "collect", "destroy", "done", "failed"}]
    /\ job \in [Ticks -> Keys]
    /\ batch \in [Ticks -> SUBSET Assets]
    /\ seeded \in BOOLEAN /\ exhausted \in BOOLEAN
    /\ boots \in 0 .. MaxBoots /\ faults \in 0 .. MaxFaults

Init ==
    /\ jobs = [k \in Keys |-> Absent]
    /\ asset = [a \in Assets |-> "absent"]
    /\ attached = [a \in Assets |-> "no"]
    /\ pc = [t \in Ticks |-> "idle"]
    /\ job = [t \in Ticks |-> BootKey]
    /\ batch = [t \in Ticks |-> {}]
    /\ seeded = FALSE /\ exhausted = FALSE
    /\ boots = 0 /\ faults = 0

Goto(t, from, to) == pc[t] = from /\ pc' = [pc EXCEPT ![t] = to]

\* The tick ends, and its local variables with it.
EndTick(t) ==
    /\ pc' = [pc EXCEPT ![t] = "idle"]
    /\ job' = [job EXCEPT ![t] = BootKey]
    /\ batch' = [batch EXCEPT ![t] = {}]

Working == {"collect", "destroy", "done", "failed"}
WorksOn(t, k) == pc[t] \in Working /\ job[t] = k
Fault == faults < MaxFaults /\ faults' = faults + 1

\* enqueue: INSERT ... ON DUPLICATE KEY UPDATE id = id.
Enqueue(k) ==
    jobs' = [jobs EXCEPT ![k] = IF @.status = "absent" THEN NewRow("queued", 0) ELSE @]
-----------------------------------------------------------------------------
\* startWorker, at the first start and after every restart or deploy: the
\* ticks of the process that died are gone, and the boot job is seeded.
Boot ==
    /\ boots < MaxBoots
    /\ boots' = boots + 1
    /\ \E dead \in SUBSET Ticks :
          /\ pc' = [t \in Ticks |-> IF t \in dead THEN "idle" ELSE pc[t]]
          /\ job' = [t \in Ticks |-> IF t \in dead THEN BootKey ELSE job[t]]
          /\ batch' = [t \in Ticks |-> IF t \in dead THEN {} ELSE batch[t]]
    /\ \/ Enqueue(BootKey) /\ seeded' = TRUE /\ UNCHANGED faults
       \/ Fault /\ UNCHANGED <<jobs, seeded>>
    /\ UNCHANGED <<exhausted, media>>

Expired(k)  == jobs[k].status = "processing" /\ jobs[k].ripe
Spent(k)    == jobs[k].attempts >= MaxAttempts
Prunable(k) == jobs[k].status \in Terminal /\ jobs[k].ripe

\* A bug: a worker that died keeps its lease.
BugKeepLease(k) == jobs[k]

\* reclaimStaleLeases: an expired lease is queued at once, or failed.
Reclaimed(k) ==
    IF Spent(k) THEN Ended(k, "failed", jobs[k].attempts)
    ELSE [status |-> "queued", attempts |-> jobs[k].attempts, ripe |-> TRUE]

\* A bug: old rows are pruned whatever their status.
BugHousekeep(t) ==
    /\ Goto(t, "idle", "select")
    /\ jobs' = [k \in Keys |-> IF Expired(k) THEN Reclaimed(k)
                              ELSE IF jobs[k].ripe THEN Absent ELSE jobs[k]]
    /\ exhausted' = (exhausted \/ \E k \in Keys : Expired(k) /\ Spent(k))
    /\ UNCHANGED <<seeded, media, job, batch, boots, faults>>

\* The head of a tick: reclaimStaleLeases and pruneOldTerminalJobs, two
\* statements about different rows.  That a process prunes once an hour at
\* most only makes a row ripe later.
Housekeep(t) ==
    /\ Goto(t, "idle", "select")
    /\ jobs' = [k \in Keys |-> IF Expired(k) THEN Reclaimed(k)
                              ELSE IF Prunable(k) THEN Absent ELSE jobs[k]]
    /\ exhausted' = (exhausted \/ \E k \in Keys : Expired(k) /\ Spent(k))
    /\ UNCHANGED <<seeded, media, job, batch, boots, faults>>

\* They fail; the tick goes on without them.
HousekeepError(t) ==
    /\ Goto(t, "idle", "select")
    /\ Fault
    /\ UNCHANGED <<queue, media, job, batch, boots>>

Available(k) == jobs[k].status = "queued" /\ jobs[k].ripe

\* leaseOne, its SELECT.
Select(t) ==
    /\ \E k \in Keys :
          /\ Available(k)
          /\ Goto(t, "select", "lease")
          /\ job' = [job EXCEPT ![t] = k]
    /\ UNCHANGED <<queue, media, batch, boots, faults>>

SelectNone(t) ==
    /\ Goto(t, "select", "idle")
    /\ ~ \E k \in Keys : Available(k)
    /\ UNCHANGED <<queue, media, job, batch, boots, faults>>

\* A bug: the UPDATE does not ask for status = 'queued'.
BugLease(t) ==
    /\ Goto(t, "lease", "collect")
    /\ jobs' = [jobs EXCEPT ![job[t]] = NewRow("processing", MaxAttempts)]
    /\ UNCHANGED <<seeded, exhausted, media, job, batch, boots, faults>>

\* leaseOne, its guarded UPDATE.
Lease(t) ==
    /\ Goto(t, "lease", "collect")
    /\ jobs[job[t]].status = "queued"
    /\ jobs' = [jobs EXCEPT ![job[t]] = NewRow("processing", @.attempts + 1)]
    /\ UNCHANGED <<seeded, exhausted, media, job, batch, boots, faults>>

LeaseLost(t) ==
    /\ pc[t] = "lease"
    /\ jobs[job[t]].status # "queued"
    /\ EndTick(t)
    /\ UNCHANGED <<queue, media, boots, faults>>
-----------------------------------------------------------------------------
\* A bug: uploads are listed whatever their age.
BugCollect(t) ==
    /\ Goto(t, "collect", "destroy")
    /\ batch' = [batch EXCEPT ![t] = {a \in Assets :
          asset[a] \in {"young", "old"} /\ attached[a] \in {"no", "bare"}}]
    /\ UNCHANGED <<queue, media, job, boots, faults>>

\* handleOrphanSweep lists the uploads past the cutoff and keeps those whose
\* public_id no row of support_message_attachmentstab has.
Collect(t) ==
    /\ Goto(t, "collect", "destroy")
    /\ batch' = [batch EXCEPT ![t] = {a \in Assets :
          asset[a] = "old" /\ attached[a] \in {"no", "bare"}}]
    /\ UNCHANGED <<queue, media, job, boots, faults>>

\* It destroys these one by one; one that is gone is not found, and a failed
\* call is logged and passed over.
Destroy(t) ==
    /\ pc[t] = "destroy"
    /\ \E a \in batch[t] :
          /\ batch' = [batch EXCEPT ![t] = @ \ {a}]
          /\ \/ asset' = [asset EXCEPT ![a] = IF @ = "old" THEN "destroyed" ELSE @]
                /\ UNCHANGED faults
             \/ Fault /\ UNCHANGED asset
    /\ UNCHANGED <<queue, attached, pc, job, boots>>

\* A bug: the sweep does not schedule the next one.
BugSchedule(t) ==
    /\ Goto(t, "destroy", "done")
    /\ batch[t] = {}
    /\ UNCHANGED <<queue, media, job, batch, boots, faults>>

\* The keys a sweep may give the next one, which is any free key, hence the
\* least, or the key that another sweep has used in the same millisecond.
SweepKeys == Keys \ {BootKey}
Free == {k \in SweepKeys : jobs[k].status = "absent"}
NextKeys == {k \in Free : \A i \in Free : k <= i}
            \cup {k \in SweepKeys : jobs[k].status = "queued"}

\* The sweep schedules the next one and returns.
Schedule(t) ==
    /\ Goto(t, "destroy", "done")
    /\ batch[t] = {}
    /\ \E k \in NextKeys : Enqueue(k)
    /\ UNCHANGED <<seeded, exhausted, media, job, batch, boots, faults>>

\* A call or a statement of the sweep throws.
SweepError(t) ==
    /\ pc[t] \in {"collect", "destroy"}
    /\ pc' = [pc EXCEPT ![t] = "failed"]
    /\ batch' = [batch EXCEPT ![t] = {}]
    /\ UNCHANGED <<queue, media, job, boots, faults>>

\* An UPDATE of the row, which does nothing when the row is gone.
SetRow(k, row) == jobs' = [jobs EXCEPT ![k] = IF @.status = "absent" THEN @ ELSE row]

\* finish(id, true).
FinishDone(t) ==
    /\ pc[t] = "done"
    /\ SetRow(job[t], Ended(job[t], "done", jobs[job[t]].attempts))
    /\ EndTick(t)
    /\ UNCHANGED <<seeded, exhausted, media, boots, faults>>

\* finish(id, true) throws inside the try block, and finish(id, false) runs.
FinishDoneError(t) ==
    /\ Goto(t, "done", "failed")
    /\ Fault
    /\ UNCHANGED <<queue, media, job, batch, boots>>

\* finish(id, false): by the attempts it reads, the row is failed or queued.
FinishFailed(t) ==
    /\ pc[t] = "failed"
    /\ LET k == job[t]
           n == jobs[k].attempts
       IN SetRow(k, IF Spent(k) THEN Ended(k, "failed", n) ELSE NewRow("queued", n))
    /\ exhausted' = (exhausted \/ Spent(job[t]))
    /\ EndTick(t)
    /\ UNCHANGED <<seeded, media, boots, faults>>

\* Another statement throws, or the process dies: the tick ends, and a leased
\* row stays leased.
TickError(t) ==
    /\ pc[t] # "idle"
    /\ Fault
    /\ EndTick(t)
    /\ UNCHANGED <<queue, media, boots>>
-----------------------------------------------------------------------------
\* An upload from the browser, and the message that records its public_id:
\* the server does not ask whether the image still exists.
Upload(a) ==
    /\ asset[a] = "absent"
    /\ asset' = [asset EXCEPT ![a] = "young"]
    /\ UNCHANGED <<queue, attached, ticks, boots, faults>>

Attach(a) ==
    /\ attached[a] = "no"
    /\ asset[a] # "absent"
    /\ attached' = [attached EXCEPT ![a] = IF asset[a] = "young" THEN "early" ELSE "late"]
    /\ UNCHANGED <<queue, asset, ticks, boots, faults>>

\* deleteSupportUpload, meant for a staged upload: it asks for the folder only,
\* so that it takes an image that a message has recorded as well.
Discard(a) ==
    /\ asset[a] \in {"young", "old"}
    /\ asset' = [asset EXCEPT ![a] = "discarded"]
    /\ UNCHANGED <<queue, attached, ticks, boots, faults>>

\* A file posted with the ticket or the reply itself: the server uploads it
\* into the same folder and records its URL without a public_id.
PostWithFile(a) ==
    /\ asset[a] = "absent"
    /\ asset' = [asset EXCEPT ![a] = "young"]
    /\ attached' = [attached EXCEPT ![a] = "bare"]
    /\ UNCHANGED <<queue, ticks, boots, faults>>

\* Six hours pass.
Grow(a) ==
    /\ asset[a] = "young"
    /\ asset' = [asset EXCEPT ![a] = "old"]
    /\ UNCHANGED <<queue, attached, ticks, boots, faults>>

\* The available_at, the lease or the retention of a row passes.
Ripen(k) ==
    /\ jobs[k].status # "absent"
    /\ ~jobs[k].ripe
    /\ jobs[k].status = "processing" => ~ \E t \in Ticks : WorksOn(t, k)
    /\ jobs' = [jobs EXCEPT ![k].ripe = TRUE]
    /\ UNCHANGED <<seeded, exhausted, media, ticks, boots, faults>>
-----------------------------------------------------------------------------
Tick(t) ==
    \/ Housekeep(t) \/ Select(t) \/ SelectNone(t) \/ Lease(t) \/ LeaseLost(t)
    \/ Collect(t) \/ Destroy(t) \/ Schedule(t) \/ FinishDone(t) \/ FinishFailed(t)

Failure(t) == HousekeepError(t) \/ SweepError(t) \/ FinishDoneError(t) \/ TickError(t)

Next ==
    \/ Boot
    \/ \E t \in Ticks : Tick(t) \/ Failure(t)
    \/ \E a \in Assets : Upload(a) \/ Attach(a) \/ Discard(a) \/ PostWithFile(a) \/ Grow(a)
    \/ \E k \in Keys : Ripen(k)

\* The interval fires, MySQL and Cloudinary answer, and time passes.
Fairness ==
    /\ \A t \in Ticks : WF_vars(Tick(t))
    /\ \A a \in Assets : WF_vars(Grow(a))
    /\ \A k \in Keys : WF_vars(Ripen(k))

Spec == Init /\ [][Next]_vars

FairSpec == Spec /\ Fairness
-----------------------------------------------------------------------------
\* "Two workers/processes never grab the same row": while sweeps end within
\* the lease, no row is worked on by two ticks.
ExclusiveLease ==
    \A t, u \in Ticks, k \in Keys : WorksOn(t, k) /\ WorksOn(u, k) => t = u

Live(k) == jobs[k].status \in {"queued", "processing"}

\* Once the boot job is in the table a sweep is always to come, through
\* crashes, lost answers and pruning, unless a sweep has used up its attempts.
ChainAlive == seeded /\ ~exhausted => \E k \in Keys : Live(k)

\* An attachment whose message recorded its public_id before the cutoff is
\* never destroyed by a sweep, nor by another sweep that overlaps it.  Its
\* member may discard it all the same.
RecordedKept == \A a \in Assets : attached[a] = "early" => asset[a] # "destroyed"

\* A leased row is eventually reported or reclaimed: "without this they sit
\* forever".
LeaseEnds ==
    \A k \in Keys : (jobs[k].status = "processing") ~> (jobs[k].status # "processing")

\* Uploads nobody sent do not leak: an old one is eventually destroyed, or
\* somebody sends it after all, or sweeping has stopped for good.
NoLeak ==
    \A a \in Assets :
        (asset[a] = "old" /\ attached[a] = "no" /\ seeded)
            ~> (asset[a] \in {"destroyed", "discarded"} \/ attached[a] # "no" \/ exhausted)

\* File header: the sweep deletes uploads "that were uploaded (browser direct
\* upload) but never attached to a sent message".
OnlyOrphansDestroyed ==
    \A a \in Assets : asset[a] = "destroyed" => attached[a] = "no"
=============================================================================
