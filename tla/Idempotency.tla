---------------------------- MODULE Idempotency ----------------------------
(***************************************************************************)
(* The idempotency-key middleware (src/middleware/idempotency.js) in front *)
(* of one state-changing endpoint, for ONE key: the unique index           *)
(* (scope, actor_uid, idem_key) makes the rows of different keys           *)
(* independent.  A client is one logical sender of the key (a tap, a tab,  *)
(* a proxy retry); it sends its request, and sends it again when it is     *)
(* told 409 or its connection dies.  Every database statement of the       *)
(* middleware is one atomic step, and everything between two statements    *)
(* (an await) may interleave with the other clients.                       *)
(*                                                                         *)
(* The route handler behind the middleware is external: it commits its     *)
(* effect and answers 2xx, or answers an error with no effect.             *)
(***************************************************************************)
EXTENDS Naturals

CONSTANTS
    Clients,       \* senders of the key
    Hashes,        \* request hashes (method, path, body) they may send
    NoHash,        \* stands for no hash
    SlowHandlers,  \* may a live handler outlast PROCESSING_TAKEOVER_MS?
    MaxRuns,       \* bound: handler commits
    MaxFaults,     \* bound: statements of the middleware that throw
    MaxCrashes,    \* bound: restarts of the node process
    MaxRetries     \* bound: resubmissions after an error answer

BoundsAssumption ==
    /\ NoHash \notin Hashes
    /\ SlowHandlers \in BOOLEAN
    /\ MaxRuns \in Nat /\ MaxFaults \in Nat
    /\ MaxCrashes \in Nat /\ MaxRetries \in Nat

VARIABLES
    row,      \* the key's row of idempotency_keystab, a set of at most one
    hash,     \* hash[c]: hash of the request c sends
    pc,       \* pc[c]: the next statement of c's request
    claimed,  \* claimed[c]: the middleware's local `claimed'
    ok,       \* ok[c]: the handler of c committed
    answer,   \* answer[c]: what c was told
    runs,     \* history: commits of [claimed, unclaimed] handlers
    lost,     \* history: commits whose `done' row was never written or was swept
    faults, crashes, retries   \* history: for the bounds

vars == <<row, hash, pc, claimed, ok, answer, runs, lost,
          faults, crashes, retries>>
ghosts == <<runs, lost, faults, crashes, retries>>

Row == [status : {"processing", "done"}, hash : Hashes,
        age : {"fresh", "stale", "expired"}, resp : Hashes \cup {NoHash}]
\* An answer is a replay of the response stored for a request of some hash,
\* or one of the other outcomes, which carry no hash.
Answer == [kind : {"none", "ok", "error", "replay", "mismatch"},
           of   : Hashes \cup {NoHash}]
Told(k) == [kind |-> k, of |-> NoHash]

TypeOK ==
    /\ row \in SUBSET Row
    /\ \A x, y \in row : x = y
    /\ hash \in [Clients -> Hashes]
    /\ pc \in [Clients -> {"insert", "read", "takeover", "reinsert",
                           "handler", "respond", "finalize", "end"}]
    /\ claimed \in [Clients -> BOOLEAN]
    /\ ok \in [Clients -> BOOLEAN]
    /\ answer \in [Clients -> Answer]
    /\ runs \in [claimed : Nat, unclaimed : Nat]
    /\ lost \in Nat /\ faults \in Nat /\ crashes \in Nat /\ retries \in Nat

Init ==
    /\ row = {}
    /\ hash \in [Clients -> Hashes]
    /\ pc = [c \in Clients |-> "insert"]
    /\ claimed = [c \in Clients |-> FALSE]
    /\ ok = [c \in Clients |-> FALSE]
    /\ answer = [c \in Clients |-> Told("none")]
    /\ runs = [claimed |-> 0, unclaimed |-> 0]
    /\ lost = 0 /\ faults = 0 /\ crashes = 0 /\ retries = 0

Goto(c, from, to) == pc[c] = from /\ pc' = [pc EXCEPT ![c] = to]
Tell(c, a) == answer' = [answer EXCEPT ![c] = a]

FreshRow(c) == [status |-> "processing", hash |-> hash[c],
                age |-> "fresh", resp |-> NoHash]

-----------------------------------------------------------------------------
\* INSERT INTO idempotency_keystab succeeds: the request owns the key.
ClaimInsert(c) ==
    /\ Goto(c, "insert", "handler")
    /\ row = {}
    /\ row' = {FreshRow(c)}
    /\ claimed' = [claimed EXCEPT ![c] = TRUE]
    /\ UNCHANGED <<hash, ok, answer, ghosts>>

\* The unique index rejects the INSERT (ER_DUP_ENTRY): look at the row.
InsertDup(c) ==
    /\ Goto(c, "insert", "read")
    /\ row # {}
    /\ UNCHANGED <<row, hash, claimed, ok, answer, ghosts>>

\* `if (!row) return next()': the row went away since the INSERT, so the
\* handler runs without a claim.
ReadMissing(c) ==
    /\ Goto(c, "read", "handler")
    /\ row = {}
    /\ UNCHANGED <<row, hash, claimed, ok, answer, ghosts>>

\* 422: the key was used for another request.
ReadMismatch(c) ==
    /\ Goto(c, "read", "end")
    /\ \E x \in row : x.hash # hash[c]
    /\ Tell(c, Told("mismatch"))
    /\ UNCHANGED <<row, hash, claimed, ok, ghosts>>

\* A bug: the stored response is replayed before the hash is compared.
BugReadDone(c) ==
    /\ Goto(c, "read", "end")
    /\ \E x \in row :
          /\ x.status = "done"
          /\ Tell(c, [kind |-> "replay", of |-> x.resp])
    /\ UNCHANGED <<row, hash, claimed, ok, ghosts>>

\* Replay of the stored response.
ReadDone(c) ==
    /\ Goto(c, "read", "end")
    /\ \E x \in row :
          /\ x.hash = hash[c]
          /\ x.status = "done"
          /\ Tell(c, [kind |-> "replay", of |-> x.resp])
    /\ UNCHANGED <<row, hash, claimed, ok, ghosts>>

\* A bug: an abandoned claim is never taken over.
BugReadStale(c) == FALSE /\ UNCHANGED vars

\* A processing row past PROCESSING_TAKEOVER_MS: try to take it over.
ReadStale(c) ==
    /\ Goto(c, "read", "takeover")
    /\ \E x \in row :
          /\ x.hash = hash[c]
          /\ x.status = "processing"
          /\ x.age # "fresh"
    /\ UNCHANGED <<row, hash, claimed, ok, answer, ghosts>>

\* 409, the first request is still running; the client sends again later.
ReadBusy(c) ==
    /\ Goto(c, "read", "insert")
    /\ \E x \in row :
          /\ x.hash = hash[c]
          /\ x.status = "processing"
          /\ x.age = "fresh"
    /\ UNCHANGED <<row, hash, claimed, ok, answer, ghosts>>

Abandoned(x) == x.status = "processing" /\ x.age # "fresh"

\* A bug: the DELETE names the key only, not the state it was read in.
BugTakeOver(c) ==
    /\ Goto(c, "takeover", "reinsert")
    /\ row # {}
    /\ row' = {}
    /\ UNCHANGED <<hash, claimed, ok, answer, ghosts>>

\* The guarded DELETE removes the abandoned claim (affectedRows = 1).
TakeOver(c) ==
    /\ Goto(c, "takeover", "reinsert")
    /\ \E x \in row : Abandoned(x)
    /\ row' = {}
    /\ UNCHANGED <<hash, claimed, ok, answer, ghosts>>

\* affectedRows = 0, somebody else took it over or it finished: 409.
TakeOverLost(c) ==
    /\ Goto(c, "takeover", "insert")
    /\ ~ \E x \in row : Abandoned(x)
    /\ UNCHANGED <<row, hash, claimed, ok, answer, ghosts>>

\* The second INSERT, after the takeover's DELETE.
Reinsert(c) ==
    /\ Goto(c, "reinsert", "handler")
    /\ row = {}
    /\ row' = {FreshRow(c)}
    /\ claimed' = [claimed EXCEPT ![c] = TRUE]
    /\ UNCHANGED <<hash, ok, answer, ghosts>>

\* The second INSERT is a duplicate: the outer catch fails open.
ReinsertDup(c) ==
    /\ Goto(c, "reinsert", "handler")
    /\ row # {}
    /\ UNCHANGED <<row, hash, claimed, ok, answer, ghosts>>

\* A statement of the middleware throws for another reason: fail open.
FailOpen(c) ==
    /\ faults < MaxFaults
    /\ pc[c] \in {"insert", "read", "takeover", "reinsert"}
    /\ pc' = [pc EXCEPT ![c] = "handler"]
    /\ faults' = faults + 1
    /\ UNCHANGED <<row, hash, claimed, ok, answer, runs, lost, crashes, retries>>
-----------------------------------------------------------------------------
\* The route handler commits its effect.
HandlerCommit(c) ==
    /\ Goto(c, "handler", "respond")
    /\ runs.claimed + runs.unclaimed < MaxRuns
    /\ ok' = [ok EXCEPT ![c] = TRUE]
    /\ runs' = IF claimed[c] THEN [runs EXCEPT !.claimed = @ + 1]
                             ELSE [runs EXCEPT !.unclaimed = @ + 1]
    /\ UNCHANGED <<row, hash, claimed, answer, lost, faults, crashes, retries>>

\* The route handler fails with no effect.
HandlerFail(c) ==
    /\ Goto(c, "handler", "respond")
    /\ ok' = [ok EXCEPT ![c] = FALSE]
    /\ UNCHANGED <<row, hash, claimed, answer, ghosts>>

\* res.json: the client has its answer; the wrapper of a claimed request
\* starts the bookkeeping and does not wait for it.
Respond(c) ==
    /\ Goto(c, "respond", IF claimed[c] THEN "finalize" ELSE "end")
    /\ Tell(c, Told(IF ok[c] THEN "ok" ELSE "error"))
    /\ UNCHANGED <<row, hash, claimed, ok, ghosts>>

\* 2xx stores the response in whatever row the key has; anything else
\* deletes that row.  Neither statement asks whose claim the row is.
Finalize(c) ==
    /\ Goto(c, "finalize", "end")
    /\ row' = IF ok[c]
              THEN {[x EXCEPT !.status = "done", !.resp = hash[c]] : x \in row}
              ELSE {}
    /\ claimed' = [claimed EXCEPT ![c] = FALSE]
    /\ UNCHANGED <<hash, ok, answer, ghosts>>

\* The bookkeeping statement throws; the error is only logged.
FinalizeError(c) ==
    /\ Goto(c, "finalize", "end")
    /\ faults < MaxFaults
    /\ faults' = faults + 1
    /\ claimed' = [claimed EXCEPT ![c] = FALSE]
    /\ lost' = IF ok[c] THEN lost + 1 ELSE lost
    /\ UNCHANGED <<row, hash, ok, answer, runs, crashes, retries>>

\* After an error answer the member presses the button again: same key.
Retry(c) ==
    /\ retries < MaxRetries
    /\ answer[c].kind = "error"
    /\ Goto(c, "end", "insert")
    /\ Tell(c, Told("none"))
    /\ retries' = retries + 1
    /\ UNCHANGED <<row, hash, claimed, ok, runs, lost, faults, crashes>>
-----------------------------------------------------------------------------
Held == \E c \in Clients : claimed[c]

\* Time passes: 60 seconds, then 7 days.  No handler runs for 7 days, and
\* without SlowHandlers none that holds the claim runs for 60 seconds.
Age ==
    /\ \E x \in row :
          \/ /\ x.age = "fresh"
             /\ SlowHandlers \/ ~Held
             /\ row' = {[x EXCEPT !.age = "stale"]}
          \/ /\ x.age = "stale"
             /\ ~Held
             /\ row' = {[x EXCEPT !.age = "expired"]}
    /\ UNCHANGED <<hash, pc, claimed, ok, answer, ghosts>>

\* The random sweep of rows older than CLEANUP_MAX_AGE_DAYS.
Cleanup ==
    /\ \E x \in row :
          /\ x.age = "expired"
          /\ lost' = IF x.status = "done" THEN lost + 1 ELSE lost
    /\ row' = {}
    /\ UNCHANGED <<hash, pc, claimed, ok, answer, runs, faults, crashes, retries>>

Unsaved(c) == claimed[c] /\ pc[c] \in {"respond", "finalize"} /\ ok[c]

\* The process restarts: every request in flight and every bookkeeping
\* promise dies; a client that was not answered sends again.
Crash ==
    /\ crashes < MaxCrashes
    /\ crashes' = crashes + 1
    /\ pc' = [c \in Clients |-> IF answer[c].kind = "none" THEN "insert" ELSE "end"]
    /\ claimed' = [c \in Clients |-> FALSE]
    /\ lost' = IF \E c \in Clients : Unsaved(c) THEN lost + 1 ELSE lost
    /\ UNCHANGED <<row, hash, ok, answer, runs, faults, retries>>
-----------------------------------------------------------------------------
Middleware(c) ==
    \/ ClaimInsert(c) \/ InsertDup(c)
    \/ ReadMissing(c) \/ ReadMismatch(c) \/ ReadDone(c)
    \/ ReadStale(c) \/ ReadBusy(c)
    \/ TakeOver(c) \/ TakeOverLost(c)
    \/ Reinsert(c) \/ ReinsertDup(c)

Handler(c) == HandlerCommit(c) \/ HandlerFail(c)

Request(c) == Middleware(c) \/ Handler(c) \/ Respond(c) \/ Finalize(c)

Next ==
    \/ \E c \in Clients : Request(c) \/ FailOpen(c) \/ FinalizeError(c) \/ Retry(c)
    \/ Age \/ Cleanup \/ Crash

Spec == Init /\ [][Next]_vars

\* The event loop and MySQL serve every request in flight, and time passes.
Fairness ==
    /\ \A c \in Clients : WF_vars(Request(c))
    /\ WF_vars(Age)

FairSpec == Spec /\ Fairness
-----------------------------------------------------------------------------
(***************************************************************************)
(* Properties.                                                             *)
(***************************************************************************)

\* While handlers end within the takeover window, the handlers that ran
\* under a claim commit once, plus once for every stored response that a
\* crash, a swallowed bookkeeping error or the 7-day sweep has lost.
ClaimedOnce == runs.claimed <= 1 + lost

\* A replayed response is the response to a request with the same method,
\* path and body: "the request-hash guard preventing cross-user key
\* collisions from replaying someone else's response" (file header).
OwnResponse ==
    \A c \in Clients : answer[c].kind = "replay" => answer[c].of = hash[c]

\* Every request is eventually answered: a claim whose owner died is taken
\* over, "rather than 409ing forever".
Answered ==
    \A c \in Clients : (answer[c].kind = "none") ~> (answer[c].kind # "none")

\* The contract of the file header: "a double-tap can never run the handler
\* twice", without a crash, an error of the middleware, a lost row or a slow
\* handler to excuse it.
DoubleTapRunsOnce == lost = 0 => runs.claimed + runs.unclaimed <= 1
=============================================================================
