---------------------------- MODULE Registration ----------------------------
(***************************************************************************)
(* Concurrent registrations (src/services/registration.js) and the codes   *)
(* they consume, which upgrades (src/routes/codes.js) consume as well.     *)
(* MySQL is modelled at REPEATABLE READ: a plain SELECT of a transaction   *)
(* answers from the snapshot its first SELECT took, an UPDATE or INSERT    *)
(* works on the current rows, waits for the row locks of others, and is    *)
(* seen by others at the commit only.  GET_LOCK locks belong to sessions.  *)
(* A placement lock is a row that the transaction inserts and that the     *)
(* finally block deletes by its key, whoever inserted it.                  *)
(***************************************************************************)
EXTENDS Naturals, FiniteSets, Sequences

CONSTANTS
    Procs,       \* connections that run registerMember or the upgrade route
    Uids, Root,  \* bound: the members; Root is there from the start
    Sides,       \* positions below a member: left (1) and right (2)
    Names,       \* usernames; they stand for e-mails and identities as well
    NoName,      \* that of Root
    Codes,       \* physical rows of codestab
    StringOf,    \* StringOf[c]: the code string of row c, which twins share
    Legacy,      \* rows that Root used up although they are still released
    MaxCrashes   \* bound: connections that are lost in the middle

\* A legacy row has no available twin (codeConsumption.js: "Verified against
\* production").  One stands for all of them.  `none' and `left' are no code,
\* no code string and no connection.
ASSUME RegistrationAssumption ==
    /\ Root \in Uids
    /\ NoName \notin Names
    /\ IsFiniteSet(Codes)
    /\ "none" \notin Codes /\ \A c \in Codes : StringOf[c] # "none"
    /\ Procs \cap {"none", "left"} = {}
    /\ Legacy \subseteq Codes
    /\ Cardinality(Legacy) <= 1
    /\ \A c \in Legacy, d \in Codes : StringOf[c] = StringOf[d] => c = d
    /\ MaxCrashes \in Nat

VARIABLES
    members,    \* usertab and memberstab, joined
    used,       \* rows of codestab with codestatus = 2
    upgraded,   \* upgraded[s]: upgrades that used a row with string s
    lockRow,    \* placement_lockstab: "none", "left" when committed, or its inserter
    pc,         \* of each process: its next statement
    req,        \* of each process: sponsor, code string and username
    snap,       \* of each process: its snapshot
    held,       \* of each process: the GET_LOCK locks its request has acquired
    kept,       \* of each process: those that ended requests left on its connection
    slot,       \* of each process: finalPlacementUid and finalPosition
    row,        \* of each process: the code row it has consumed, uncommitted
    crashes     \* history: for the bound

vars == <<members, used, upgraded, lockRow, pc, req, snap, held, kept, slot, row, crashes>>

Strings == {StringOf[c] : c \in Codes}
Slots   == Uids \X Sides
Member  == [uid : Uids, slot : Slots \cup {<<>>}, name : Names \cup {NoName},
            code : Strings \cup {"none"}, saw : SUBSET Uids]
Request == [sponsor : Uids, code : Strings, name : Names]

UidsOf(ms)   == {m.uid : m \in ms}
TakenIn(ms)  == {m.slot : m \in ms}
NamesIn(ms)  == {m.name : m \in ms}
RowsOf(s)    == {c \in Codes : StringOf[c] = s}
Holders(ms, s) == Cardinality({m \in ms : m.code = s})

RootMember ==
    [uid |-> Root, slot |-> <<>>, name |-> NoName, saw |-> {},
     code |-> IF Legacy = {} THEN "none" ELSE StringOf[CHOOSE c \in Legacy : TRUE]]

NoReq  == [code |-> "none"]
NoSnap == [members |-> {}, used |-> {}]

Busy == {"locks", "choose", "place", "consume", "save"}

TypeOK ==
    /\ members \subseteq Member
    /\ used \subseteq Codes
    /\ upgraded \in [Strings -> 0 .. Cardinality(Codes)]
    /\ lockRow \in [Slots -> {"none", "left"} \cup Procs]
    /\ pc \in [Procs -> Busy \cup {"idle", "release", "unlock", "upgrade"}]
    /\ \A p \in Procs :
          /\ pc[p] \in Busy => req[p] \in Request
          /\ snap[p].members \subseteq members /\ snap[p].used \subseteq used
          /\ slot[p] \in Slots \cup {<<>>}
          /\ row[p] \in Codes \cup {"none"}
          /\ pc[p] \in {"idle", "unlock"} => held[p] = {} /\ row[p] = "none"
    /\ \A p, q \in Procs : p # q => (held[p] \cup kept[p]) \cap (held[q] \cup kept[q]) = {}
    /\ crashes \in 0 .. MaxCrashes

Init ==
    /\ members = {RootMember}
    /\ used = {}
    /\ upgraded = [s \in Strings |-> 0]
    /\ lockRow = [l \in Slots |-> "none"]
    /\ pc = [p \in Procs |-> "idle"]
    /\ req = [p \in Procs |-> NoReq]
    /\ snap = [p \in Procs |-> NoSnap]
    /\ held = [p \in Procs |-> {}] /\ kept = [p \in Procs |-> {}]
    /\ slot = [p \in Procs |-> <<>>]
    /\ row = [p \in Procs |-> "none"]
    /\ crashes = 0

Goto(p, from, to) == pc[p] = from /\ pc' = [pc EXCEPT ![p] = to]

\* The locals of a request that ends.
Forget(p) ==
    /\ pc' = [pc EXCEPT ![p] = "idle"]
    /\ req' = [req EXCEPT ![p] = NoReq]
    /\ snap' = [snap EXCEPT ![p] = NoSnap]
    /\ slot' = [slot EXCEPT ![p] = <<>>]

\* An uncommitted row of the placement locks goes away with its transaction.
DropRow(p) == lockRow' = [l \in Slots |-> IF lockRow[l] = p THEN "none" ELSE lockRow[l]]

EndTransaction(p) ==
    /\ pc' = [pc EXCEPT ![p] = "release"]
    /\ req' = [req EXCEPT ![p] = NoReq]
    /\ snap' = [snap EXCEPT ![p] = NoSnap]
    /\ row' = [row EXCEPT ![p] = "none"]

\* An error: the transaction is rolled back and the finally block begins.
Rollback(p) ==
    /\ EndTransaction(p)
    /\ DropRow(p)
    /\ UNCHANGED <<members, used, upgraded, slot, crashes>>

Snapshot(p) == snap' = [snap EXCEPT ![p] = [members |-> members, used |-> used]]
-----------------------------------------------------------------------------
\* Bound: a request is taken only if a uid will be left for it.
UidLeft == Cardinality(members) + Cardinality({p \in Procs : pc[p] \in Busy}) < Cardinality(Uids)

\* The transaction begins.  evaluateDuplicateIdentity reads memberstab, which
\* takes the snapshot, and finds nobody.
Begin(p) ==
    /\ Goto(p, "idle", "locks")
    /\ UidLeft
    /\ \E m \in members, s \in Strings, n \in Names :
          req' = [req EXCEPT ![p] = [sponsor |-> m.uid, code |-> s, name |-> n]]
    /\ Snapshot(p)
    /\ UNCHANGED <<members, used, upgraded, lockRow, held, kept, slot, row, crashes>>

\* A bug: a registration with a code of the legacy flow locks its keys in
\* another order, the sponsor before the username.
BugLockKeys(p) ==
    LET k == <<<<"code", req[p].code>>, <<"name", req[p].name>>, <<"sponsor", req[p].sponsor>>>>
    IN IF RowsOf(req[p].code) \cap Legacy # {} THEN <<k[1], k[3], k[2]>> ELSE k

\* acquireRegistrationAdvisoryLocks: code, username and sponsor, in this order.
\* The key of a referral token, between the last two, is left out: a token
\* belongs to one sponsor, so who waits for it would wait for the sponsor.
LockKeys(p) == <<<<"code", req[p].code>>, <<"name", req[p].name>>, <<"sponsor", req[p].sponsor>>>>
NextKey(p)  == LockKeys(p)[Cardinality(held[p]) + 1]
AllHeld(p)  == Cardinality(held[p]) = Len(LockKeys(p))
Locking(p)  == pc[p] = "locks" /\ ~AllHeld(p)

\* A session may acquire again a lock that it has.
GetLock(p) ==
    /\ Locking(p)
    /\ \A q \in Procs \ {p} : NextKey(p) \notin held[q] \cup kept[q]
    /\ held' = [held EXCEPT ![p] = @ \cup {NextKey(p)}]
    /\ UNCHANGED <<members, used, upgraded, lockRow, pc, req, snap, kept, slot, row, crashes>>

\* A lock is not granted in 30 seconds.  The function throws, its list of the
\* locks acquired so far is lost, and the finally block releases none of them.
GetLockTimeout(p) ==
    /\ Locking(p)
    /\ \E q \in Procs \ {p} : NextKey(p) \in held[q] \cup kept[q]
    /\ kept' = [kept EXCEPT ![p] = @ \cup held[p]]
    /\ held' = [held EXCEPT ![p] = {}]
    /\ Rollback(p)
-----------------------------------------------------------------------------
\* The final slot: the one of the request, or, with autoPlacement, one that
\* recommendPlacementForSponsor finds in the snapshot, among the same slots.
Choose(p) ==
    /\ pc[p] = "locks" /\ AllHeld(p)
    /\ pc' = [pc EXCEPT ![p] = "place"]
    /\ \E l \in UidsOf(snap[p].members) \X Sides : slot' = [slot EXCEPT ![p] = l]
    /\ UNCHANGED <<members, used, upgraded, lockRow, req, snap, held, kept, row, crashes>>

\* A bug: the lock is inserted on a connection of the pool.
BugPlace(p) ==
    /\ Goto(p, "place", "consume")
    /\ lockRow[slot[p]] = "none"
    /\ lockRow' = [lockRow EXCEPT ![slot[p]] = "left"]
    /\ UNCHANGED <<members, used, upgraded, req, snap, held, kept, slot, row, crashes>>

\* acquirePlacementLock.  It waits while another transaction has the row.
Place(p) ==
    /\ Goto(p, "place", "consume")
    /\ lockRow[slot[p]] = "none"
    /\ lockRow' = [lockRow EXCEPT ![slot[p]] = p]
    /\ UNCHANGED <<members, used, upgraded, req, snap, held, kept, slot, row, crashes>>

\* ER_DUP_ENTRY: PLACEMENT_LOCKED.  Its expires_at is not looked at.
PlaceBusy(p) ==
    /\ pc[p] = "place"
    /\ lockRow[slot[p]] = "left"
    /\ Rollback(p)
    /\ UNCHANGED <<held, kept>>
-----------------------------------------------------------------------------
\* A bug: codestatus = 1 is taken as proof that the code is unused.
BugPasses(view, c) == c \notin view.used

\* Both gates on a code row, seen in a snapshot: codestatus = 1, and
\* assertCodeNotAlreadyConsumed, which knows the row by its dateused and the
\* string by the number of members that hold it.
Passes(view, c) ==
    LET n == Holders(view.members, StringOf[c])
    IN /\ c \notin view.used
       /\ c \notin Legacy
       /\ ~(n > 0 /\ n >= Cardinality(RowsOf(StringOf[c])))

\* Rows of a string that the guarded UPDATE finds with codestatus = 1 and not
\* locked by another transaction.
Released(s) == {c \in RowsOf(s) \ used : \A q \in Procs : row[q] # c}

\* consumeActivationCodeForRegistration: lookup, second gate, guarded UPDATE
\* of any one released row.
Consume(p) ==
    /\ Goto(p, "consume", "save")
    /\ \E c \in RowsOf(req[p].code) : Passes(snap[p], c)
    /\ \E c \in Released(req[p].code) : row' = [row EXCEPT ![p] = c]
    /\ UNCHANGED <<members, used, upgraded, lockRow, req, snap, held, kept, slot, crashes>>

\* The UPDATE, or the lookup before it, finds no released row, or the lookup
\* one that fails the second gate.
ConsumeRefused(p) ==
    /\ pc[p] = "consume"
    /\ \/ RowsOf(req[p].code) \subseteq used
       \/ \E c \in RowsOf(req[p].code) \ snap[p].used : ~Passes(snap[p], c)
    /\ Rollback(p)
    /\ UNCHANGED <<held, kept>>

Clashes(p) ==
    \/ req[p].name \in NamesIn(snap[p].members)
    \/ slot[p] \in TakenIn(snap[p].members)

NewMember(p, u) ==
    [uid |-> u, slot |-> slot[p], name |-> req[p].name, code |-> req[p].code,
     saw |-> UidsOf(snap[p].members)]

\* The transaction commits: the member, the code and the placement lock.
Commit(p, u) ==
    /\ EndTransaction(p)
    /\ members' = members \cup {NewMember(p, u)}
    /\ used' = used \cup {row[p]}
    /\ lockRow' = [l \in Slots |-> IF lockRow[l] = p THEN "left" ELSE lockRow[l]]
    /\ UNCHANGED <<upgraded, held, kept, slot, crashes>>

\* A bug: the placement is not checked again.
BugSave(p) ==
    /\ pc[p] = "save"
    /\ \E u \in Uids \ UidsOf(members) : Commit(p, u)

\* The username, e-mail and placement checks read the snapshot.  The uid is
\* taken to be new (it is drawn from ten million).
Save(p) ==
    /\ pc[p] = "save"
    /\ ~Clashes(p)
    /\ \E u \in Uids \ UidsOf(members) : Commit(p, u)

SaveRefused(p) ==
    /\ pc[p] = "save"
    /\ Clashes(p)
    /\ Rollback(p)
    /\ UNCHANGED <<held, kept>>
-----------------------------------------------------------------------------
\* The finally block: the advisory locks, then the placement lock by its key.
Release(p) ==
    /\ Goto(p, "release", "unlock")
    /\ held' = [held EXCEPT ![p] = {}]
    /\ UNCHANGED <<members, used, upgraded, lockRow, req, snap, kept, slot, row, crashes>>

\* The DELETE waits for a transaction that has the row.
Unlock(p) ==
    /\ pc[p] = "unlock"
    /\ \/ slot[p] = <<>> /\ UNCHANGED lockRow
       \/ /\ slot[p] \in Slots
          /\ lockRow[slot[p]] \notin Procs
          /\ lockRow' = [lockRow EXCEPT ![slot[p]] = "none"]
    /\ Forget(p)
    /\ UNCHANGED <<members, used, upgraded, held, kept, row, crashes>>

\* The connection or the process dies: MySQL rolls back and frees its locks.
Crash(p) ==
    /\ pc[p] \in Busy \cup {"release", "unlock"}
    /\ crashes < MaxCrashes
    /\ crashes' = crashes + 1
    /\ DropRow(p)
    /\ row' = [row EXCEPT ![p] = "none"]
    /\ held' = [held EXCEPT ![p] = {}]
    /\ kept' = [kept EXCEPT ![p] = {}]
    /\ Forget(p)
    /\ UNCHANGED <<members, used, upgraded>>

\* POST /upgrade: the lookup takes the snapshot and the second gate passes.
\* It takes no GET_LOCK.
UpgradeRead(p) ==
    /\ Goto(p, "idle", "upgrade")
    /\ Snapshot(p)
    /\ \E c \in Codes :
          /\ Passes([members |-> members, used |-> used], c)
          /\ req' = [req EXCEPT ![p] = [code |-> StringOf[c]]]
    /\ UNCHANGED <<members, used, upgraded, lockRow, held, kept, slot, row, crashes>>

\* Its guarded UPDATE, and the commit.
UpgradeUse(p) ==
    /\ pc[p] = "upgrade"
    /\ LET s == req[p].code IN
          \/ \E c \in Released(s) :
                used' = used \cup {c} /\ upgraded' = [upgraded EXCEPT ![s] = @ + 1]
          \/ RowsOf(s) \subseteq used /\ UNCHANGED <<used, upgraded>>
    /\ Forget(p)
    /\ UNCHANGED <<members, lockRow, held, kept, row, crashes>>
-----------------------------------------------------------------------------
Register(p) ==
    \/ Begin(p) \/ GetLock(p) \/ GetLockTimeout(p) \/ Choose(p)
    \/ Place(p) \/ PlaceBusy(p) \/ Consume(p) \/ ConsumeRefused(p)
    \/ Save(p) \/ SaveRefused(p) \/ Release(p) \/ Unlock(p)

Upgrade(p) == UpgradeRead(p) \/ UpgradeUse(p)

Next == \E p \in Procs : Register(p) \/ Upgrade(p) \/ Crash(p)

Spec == Init /\ [][Next]_vars
-----------------------------------------------------------------------------
Spent(s) == Cardinality({c \in RowsOf(s) : c \in used \cup Legacy})

\* "two live accounts, one paid package" never again: a code string is used,
\* by members and upgrades together, exactly as often as rows of it are spent,
\* across races for the same code, twins, refusals and crashes.
OnePackagePerCode ==
    \A s \in Strings : Holders(members, s) + upgraded[s] = Spent(s)

\* Two members share a slot or a username only when each registered on a
\* snapshot from before the other's commit.
NoKnownCollision ==
    \A m, n \in members :
        m # n /\ (m.slot = n.slot \/ m.name = n.name)
            => m.uid \notin n.saw /\ n.uid \notin m.saw

\* Although a placement lock never expires and any request deletes it by its
\* key, one that is left behind, by a crash too, never blocks an open slot.
LockRowMeansTaken ==
    \A l \in Slots : lockRow[l] = "left" => l \in TakenIn(members)

\* The locks of one request that another one is waiting for.
WaitsFor(p, q) ==
    \/ Locking(p) /\ NextKey(p) \in held[q]
    \/ pc[p] = "place" /\ lockRow[slot[p]] = q
    \/ pc[p] = "unlock" /\ slot[p] # <<>> /\ lockRow[slot[p]] = q

\* Requests never wait for each other in a circle.
NoWaitCycle ==
    \A p, q, r \in Procs :
        ~(WaitsFor(p, q) /\ (WaitsFor(q, p) \/ (WaitsFor(q, r) /\ WaitsFor(r, p))))

\* "Placement position already taken": a binary slot has one member.
SlotUnique ==
    \A m, n \in members : m # n => m.slot # n.slot

\* "Registration is busy right now. Please try again.": a connection that has
\* gone back to the pool holds no lock of an earlier registration.
NoLockLeft ==
    \A p \in Procs : pc[p] = "idle" => held[p] \cup kept[p] = {}
=============================================================================
