------------------------- MODULE RegistrationProofs -------------------------
(***************************************************************************)
(* Proofs about Registration, for any number of connections, members,      *)
(* codes and crashes: what one paid package pays for, who may collide with *)
(* whom, which placement locks stay, and that no wait is circular.         *)
(***************************************************************************)
EXTENDS Registration, FiniteSetTheorems, TLAPS

AnyRequest == Request \cup {NoReq} \cup [code : Strings]
AnySnap    == [members : SUBSET Member, used : SUBSET Codes]
LockNames  == ({"code"} \X Strings) \cup ({"name"} \X Names) \cup ({"sponsor"} \X Uids)
Points     == Busy \cup {"idle", "release", "unlock", "upgrade"}

\* The types of the tables, and those of the variables of requests.
TableTypes ==
    /\ members \subseteq Member /\ used \subseteq Codes
    /\ upgraded \in [Strings -> Nat]
    /\ lockRow \in [Slots -> {"none", "left"} \cup Procs]
    /\ crashes \in 0 .. MaxCrashes

RequestTypes ==
    /\ pc \in [Procs -> Points]
    /\ req \in [Procs -> AnyRequest]
    /\ snap \in [Procs -> AnySnap]
    /\ held \in [Procs -> SUBSET LockNames] /\ kept \in [Procs -> SUBSET LockNames]
    /\ slot \in [Procs -> Slots \cup {<<>>}]
    /\ row \in [Procs -> Codes \cup {"none"}]

\* A snapshot is of the past of tables that only grow.
Seen == \A p \in Procs : snap[p].members \subseteq members /\ snap[p].used \subseteq used

\* The locks of a request are the first ones of its list.
Prefixes(p) ==
    LET k == LockKeys(p) IN {{}, {k[1]}, {k[1], k[2]}, {k[1], k[2], k[3]}}

\* What a request has at each of its statements.
Stage(p) ==
    /\ pc[p] \in Busy => req[p] \in Request
    /\ pc[p] = "upgrade" => req[p].code \in Strings /\ RowsOf(req[p].code) \cap Legacy = {}
    /\ pc[p] \in {"place", "consume", "save"} => slot[p] \in Slots
    /\ pc[p] \in {"idle", "unlock", "upgrade"} => held[p] = {}
    /\ pc[p] = "locks" => held[p] \in Prefixes(p)
    /\ pc[p] # "save" => row[p] = "none"
    /\ pc[p] = "save" => row[p] \in RowsOf(req[p].code) \ (Legacy \cup used)

\* InnoDB's row locks: no code row is consumed by two open transactions.
RowsApart == \A p, q \in Procs : p # q /\ row[p] # "none" => row[p] # row[q]

TypeInv == TableTypes /\ RequestTypes /\ Seen /\ (\A p \in Procs : Stage(p)) /\ RowsApart

\* A step of p leaves the other requests alone.
Others(p) ==
    \A q \in Procs : q # p =>
        /\ pc'[q] = pc[q] /\ req'[q] = req[q] /\ snap'[q] = snap[q] /\ slot'[q] = slot[q]
        /\ held'[q] = held[q] /\ kept'[q] = kept[q] /\ row'[q] = row[q]

\* Statements, locks and snapshots are those of one connection.
LEMMA OthersAlone ==
    ASSUME RequestTypes, NEW p \in Procs, Register(p) \/ Upgrade(p) \/ Crash(p)
    PROVE  Others(p)
<1>. USE DEF RequestTypes, Others
<1>1. CASE Begin(p) \/ Choose(p)
  BY <1>1 DEF Begin, Choose, Goto, Snapshot
<1>2. CASE GetLock(p) \/ Place(p) \/ Consume(p) \/ Release(p)
  BY <1>2 DEF GetLock, Place, Consume, Release, Goto
<1>3. CASE GetLockTimeout(p)
  BY <1>3 DEF GetLockTimeout, Rollback, EndTransaction
<1>4. CASE PlaceBusy(p) \/ ConsumeRefused(p) \/ SaveRefused(p)
  BY <1>4 DEF PlaceBusy, ConsumeRefused, SaveRefused, Rollback, EndTransaction
<1>5. CASE Save(p)
  BY <1>5 DEF Save, Commit, EndTransaction
<1>6. CASE Unlock(p)
  BY <1>6 DEF Unlock, Forget
<1>7. CASE Crash(p)
  BY <1>7 DEF Crash, Forget
<1>8. CASE Upgrade(p)
  BY <1>8 DEF Upgrade, UpgradeRead, UpgradeUse, Forget, Goto, Snapshot
<1>. QED
  BY <1>1, <1>2, <1>3, <1>4, <1>5, <1>6, <1>7, <1>8 DEF Register

\* Whatever the requests of others have stays right while the tables grow, as
\* long as the code rows they have consumed are not used by somebody else.
LEMMA StepKeeps ==
    ASSUME TypeInv, NEW p \in Procs, Others(p), TableTypes', RequestTypes', Stage(p)',
           members \subseteq members', used \subseteq used',
           \A q \in Procs : q # p /\ row[q] # "none" => row[q] \notin used',
           snap'[p].members \subseteq members' /\ snap'[p].used \subseteq used',
           row'[p] # "none" => \A q \in Procs : q # p => row[q] # row'[p]
    PROVE  TypeInv'
<1>1. Seen'
  BY DEF TypeInv, Seen, Others
<1>2. ASSUME NEW q \in Procs, q # p
      PROVE  Stage(q)'
  <2>1. /\ pc'[q] = pc[q] /\ req'[q] = req[q] /\ slot'[q] = slot[q]
        /\ held'[q] = held[q] /\ row'[q] = row[q]
    BY <1>2 DEF Others
  <2>2. Stage(q)
    BY DEF TypeInv
  <2>3. Prefixes(q)' = Prefixes(q)
    BY <2>1 DEF Prefixes, LockKeys
  <2>4. pc[q] = "save" => row[q] # "none" /\ row[q] \notin used'
    BY <1>2, <2>2, RegistrationAssumption DEF Stage, RowsOf
  <2>. QED
    BY <2>1, <2>2, <2>3, <2>4 DEF Stage
<1>3. RowsApart'
  BY DEF TypeInv, RowsApart, Others
<1>. QED
  BY <1>1, <1>2, <1>3 DEF TypeInv

\* The number of locks held says which ones, and which one comes next.
LEMMA PrefixCount ==
    ASSUME NEW p \in Procs, held[p] \in Prefixes(p)
    PROVE  LET k == LockKeys(p) IN
           \/ held[p] = {} /\ Cardinality(held[p]) = 0
           \/ held[p] = {k[1]} /\ Cardinality(held[p]) = 1
           \/ held[p] = {k[1], k[2]} /\ Cardinality(held[p]) = 2
           \/ held[p] = {k[1], k[2], k[3]} /\ Cardinality(held[p]) = 3
<1>. DEFINE k == LockKeys(p)
<1>1. k[1] # k[2] /\ k[1] # k[3] /\ k[2] # k[3]
  BY DEF LockKeys
<1>. HIDE DEF k
<1>2. Cardinality({}) = 0 /\ IsFiniteSet({k[1]}) /\ Cardinality({k[1]}) = 1
  BY FS_EmptySet, FS_Singleton
<1>3. {k[1], k[2]} = {k[1]} \cup {k[2]} /\ {k[1], k[2], k[3]} = {k[1], k[2]} \cup {k[3]}
  OBVIOUS
<1>4. IsFiniteSet({k[1], k[2]}) /\ Cardinality({k[1], k[2]}) = 2
  <2>1. k[2] \notin {k[1]}
    BY <1>1
  <2>2. /\ IsFiniteSet({k[1]} \cup {k[2]})
        /\ Cardinality({k[1]} \cup {k[2]}) = Cardinality({k[1]}) + 1
    BY <1>2, <2>1, FS_AddElement
  <2>. QED
    BY <1>2, <1>3, <2>2
<1>5. Cardinality({k[1], k[2], k[3]}) = 3
  BY <1>1, <1>3, <1>4, FS_AddElement
<1>6. held[p] \in {{}, {k[1]}, {k[1], k[2]}, {k[1], k[2], k[3]}}
  BY DEF Prefixes, k
<1>. QED
  BY <1>2, <1>4, <1>5, <1>6 DEF k

\* The next lock extends the prefix.
LEMMA PrefixGrows ==
    ASSUME NEW p \in Procs, held[p] \in Prefixes(p), ~AllHeld(p), req[p] \in Request
    PROVE  /\ held[p] \cup {NextKey(p)} \in Prefixes(p)
           /\ NextKey(p) \in LockNames
<1>. DEFINE k == LockKeys(p)
<1>1. /\ Len(k) = 3
      /\ k[1] \in LockNames /\ k[2] \in LockNames /\ k[3] \in LockNames
  BY DEF LockKeys, LockNames, Request
<1>2. NextKey(p) = k[Cardinality(held[p]) + 1]
  BY DEF NextKey
<1>3. Cardinality(held[p]) # 3
  BY <1>1 DEF AllHeld
<1>. HIDE DEF k
<1>4. \/ held[p] = {} /\ NextKey(p) = k[1]
      \/ held[p] = {k[1]} /\ NextKey(p) = k[2]
      \/ held[p] = {k[1], k[2]} /\ NextKey(p) = k[3]
  BY <1>2, <1>3, PrefixCount DEF k
<1>5. Prefixes(p) = {{}, {k[1]}, {k[1], k[2]}, {k[1], k[2], k[3]}}
  BY DEF Prefixes, k
<1>. QED
  BY <1>1, <1>4, <1>5

\* A rollback gives the code row and the placement lock back.
LEMMA RollbackStep ==
    ASSUME TypeInv, NEW p \in Procs, Rollback(p), Others(p),
           held' \in [Procs -> SUBSET LockNames], kept' \in [Procs -> SUBSET LockNames]
    PROVE  TypeInv'
<1>. USE DEF TypeInv
<1>1. TableTypes'
  BY DEF TableTypes, Rollback, DropRow
<1>2. RequestTypes'
  <2>1. NoReq \in AnyRequest /\ NoSnap \in AnySnap
    BY DEF AnyRequest, AnySnap, NoSnap
  <2>2. pc' \in [Procs -> Points] /\ req' \in [Procs -> AnyRequest] /\ snap' \in [Procs -> AnySnap]
    BY <2>1 DEF RequestTypes, Rollback, EndTransaction, Points
  <2>3. slot' \in [Procs -> Slots \cup {<<>>}] /\ row' \in [Procs -> Codes \cup {"none"}]
    BY DEF RequestTypes, Rollback, EndTransaction
  <2>. QED
    BY <2>2, <2>3 DEF RequestTypes
<1>3. pc'[p] = "release" /\ row'[p] = "none" /\ snap'[p] = NoSnap
  BY DEF RequestTypes, Rollback, EndTransaction
<1>4. Stage(p)'
  BY <1>3 DEF Stage, Busy
<1>5. \A q \in Procs : row[q] # "none" => row[q] \notin used
  BY RegistrationAssumption DEF Stage
<1>6. members' = members /\ used' = used
  BY DEF Rollback
<1>. QED
  BY <1>1, <1>2, <1>3, <1>4, <1>5, <1>6, StepKeeps DEF NoSnap

\* The end of a request, by its finally block or with its connection.
LEMMA ForgetTypes ==
    ASSUME TypeInv, NEW p \in Procs, Forget(p)
    PROVE  /\ pc' \in [Procs -> Points] /\ req' \in [Procs -> AnyRequest]
           /\ snap' \in [Procs -> AnySnap] /\ slot' \in [Procs -> Slots \cup {<<>>}]
           /\ pc'[p] = "idle" /\ snap'[p] = NoSnap
<1>1. NoReq \in AnyRequest /\ NoSnap \in AnySnap
  BY DEF AnyRequest, AnySnap, NoSnap
<1>. QED
  BY <1>1 DEF TypeInv, RequestTypes, Forget, Points

\* Types, snapshots that lag behind, and rows that one transaction has.
THEOREM TypesHold == Spec => []TypeInv
<1>1. Init => TypeInv
  <2>. SUFFICES ASSUME Init
                PROVE  TypeInv
    OBVIOUS
  <2>. USE RegistrationAssumption DEF Init
  <2>1. RootMember \in Member
    <3>1. (IF Legacy = {} THEN "none" ELSE StringOf[CHOOSE c \in Legacy : TRUE])
            \in Strings \cup {"none"}
      BY DEF Strings
    <3>. QED
      BY <3>1 DEF RootMember, Member
  <2>2. TableTypes
    BY <2>1 DEF TableTypes
  <2>3. RequestTypes
    BY DEF RequestTypes, Points, AnyRequest, AnySnap, NoSnap
  <2>4. Seen /\ RowsApart /\ \A p \in Procs : Stage(p)
    BY DEF Seen, RowsApart, NoSnap, Stage, Busy
  <2>. QED
    BY <2>2, <2>3, <2>4 DEF TypeInv
<1>2. TypeInv /\ [Next]_vars => TypeInv'
  <2>. SUFFICES ASSUME TypeInv, [Next]_vars
                PROVE  TypeInv'
    OBVIOUS
  <2>1. ASSUME NEW p \in Procs, Register(p) \/ Upgrade(p) \/ Crash(p)
        PROVE  TypeInv'
    <3>1. Others(p)
      BY <2>1, OthersAlone DEF TypeInv
    <3>2. \A q \in Procs : row[q] # "none" => row[q] \notin used
      BY DEF TypeInv, Stage
    <3>3. \A q \in Procs : snap[q].members \subseteq members /\ snap[q].used \subseteq used
      BY DEF TypeInv, Seen
    <3>4. TableTypes /\ RequestTypes /\ Stage(p)
      BY DEF TypeInv
    <3>5. CASE Begin(p)
      <4>1. PICK m \in members, s \in Strings, n \in Names :
                req' = [req EXCEPT ![p] = [sponsor |-> m.uid, code |-> s, name |-> n]]
        BY <3>5 DEF Begin
      <4>2. req'[p] \in Request
        BY <3>4, <4>1 DEF TableTypes, RequestTypes, Member, Request
      <4>3. req' \in [Procs -> AnyRequest]
        BY <3>4, <4>1, <4>2 DEF RequestTypes, AnyRequest
      <4>4. snap' \in [Procs -> AnySnap] /\ snap'[p] = [members |-> members, used |-> used]
        BY <3>4, <3>5 DEF Begin, Snapshot, RequestTypes, TableTypes, AnySnap
      <4>5. pc' \in [Procs -> Points] /\ pc[p] = "idle" /\ pc'[p] = "locks"
        BY <3>4, <3>5 DEF Begin, Goto, RequestTypes, Points, Busy
      <4>6. UNCHANGED <<members, used, upgraded, lockRow, held, kept, slot, row, crashes>>
        BY <3>5 DEF Begin
      <4>7. Stage(p)'
        BY <3>4, <4>2, <4>5, <4>6 DEF Stage, Busy, Prefixes
      <4>8. TableTypes' /\ RequestTypes'
        BY <3>4, <4>3, <4>4, <4>5, <4>6 DEF TableTypes, RequestTypes
      <4>9. row'[p] = "none"
        BY <3>4, <4>5, <4>6 DEF Stage
      <4>. QED
        BY <3>1, <3>2, <4>4, <4>6, <4>7, <4>8, <4>9, StepKeeps
    <3>6. CASE GetLock(p)
      <4>1. pc[p] = "locks" /\ ~AllHeld(p) /\ held[p] \in Prefixes(p) /\ req[p] \in Request
        BY <3>4, <3>6 DEF GetLock, Locking, Stage, Busy
      <4>2. held' = [held EXCEPT ![p] = @ \cup {NextKey(p)}]
        BY <3>6 DEF GetLock
      <4>3. UNCHANGED <<members, used, upgraded, lockRow, pc, req, snap, kept, slot, row, crashes>>
        BY <3>6 DEF GetLock
      <4>4. TableTypes' /\ RequestTypes'
        BY <3>4, <4>1, <4>2, <4>3, PrefixGrows DEF TableTypes, RequestTypes
      <4>5. held'[p] \in Prefixes(p)'
        BY <3>4, <4>1, <4>2, <4>3, PrefixGrows DEF RequestTypes, Prefixes, LockKeys
      <4>6. Stage(p)'
        BY <3>4, <4>1, <4>3, <4>5 DEF Stage
      <4>7. row'[p] = "none"
        BY <3>4, <4>1, <4>3 DEF Stage
      <4>. QED
        BY <3>1, <3>2, <3>3, <4>3, <4>4, <4>6, <4>7, StepKeeps
    <3>7. CASE GetLockTimeout(p)
      BY <3>1, <3>4, <3>7, RollbackStep DEF GetLockTimeout, RequestTypes
    <3>8. CASE PlaceBusy(p) \/ ConsumeRefused(p) \/ SaveRefused(p)
      BY <3>1, <3>4, <3>8, RollbackStep DEF PlaceBusy, ConsumeRefused, SaveRefused, RequestTypes
    <3>9. CASE Choose(p)
      <4>1. PICK l \in UidsOf(snap[p].members) \X Sides : slot' = [slot EXCEPT ![p] = l]
        BY <3>9 DEF Choose
      <4>2. l \in Slots
        <5>1. UidsOf(snap[p].members) \subseteq Uids
          BY <3>3, <3>4 DEF TableTypes, Member, UidsOf
        <5>. QED
          BY <5>1 DEF Slots
      <4>3. UNCHANGED <<members, used, upgraded, lockRow, req, snap, held, kept, row, crashes>>
        BY <3>9 DEF Choose
      <4>4. pc' \in [Procs -> Points] /\ pc[p] = "locks" /\ pc'[p] = "place"
        BY <3>4, <3>9 DEF Choose, RequestTypes, Points, Busy
      <4>5. slot' \in [Procs -> Slots \cup {<<>>}] /\ slot'[p] \in Slots
        BY <3>4, <4>1, <4>2 DEF RequestTypes
      <4>6. TableTypes' /\ RequestTypes'
        BY <3>4, <4>3, <4>4, <4>5 DEF TableTypes, RequestTypes
      <4>7. Stage(p)' /\ row'[p] = "none"
        BY <3>4, <4>3, <4>4, <4>5 DEF Stage, Busy
      <4>. QED
        BY <3>1, <3>2, <3>3, <4>3, <4>6, <4>7, StepKeeps
    <3>10. CASE Place(p)
      <4>1. UNCHANGED <<members, used, upgraded, req, snap, held, kept, slot, row, crashes>>
        BY <3>10 DEF Place
      <4>2. pc' \in [Procs -> Points] /\ pc[p] = "place" /\ pc'[p] = "consume"
        BY <3>4, <3>10 DEF Place, Goto, RequestTypes, Points, Busy
      <4>3. lockRow' \in [Slots -> {"none", "left"} \cup Procs]
        BY <3>4, <3>10 DEF Place, TableTypes
      <4>4. TableTypes' /\ RequestTypes'
        BY <3>4, <4>1, <4>2, <4>3 DEF TableTypes, RequestTypes
      <4>5. Stage(p)' /\ row'[p] = "none"
        BY <3>4, <4>1, <4>2 DEF Stage, Busy
      <4>. QED
        BY <3>1, <3>2, <3>3, <4>1, <4>4, <4>5, StepKeeps
    <3>11. CASE Consume(p)
      <4>1. PICK c \in Released(req[p].code) : row' = [row EXCEPT ![p] = c]
        BY <3>11 DEF Consume
      <4>2. /\ c \in RowsOf(req[p].code) /\ c \notin used
            /\ \A q \in Procs : row[q] # c
        BY DEF Released
      <4>3. c \notin Legacy
        <5>1. PICK d \in RowsOf(req[p].code) : Passes(snap[p], d)
          BY <3>11 DEF Consume
        <5>2. d \notin Legacy
          BY <5>1 DEF Passes
        <5>. QED
          BY <4>2, <5>1, <5>2, RegistrationAssumption DEF RowsOf
      <4>4. UNCHANGED <<members, used, upgraded, lockRow, req, snap, held, kept, slot, crashes>>
        BY <3>11 DEF Consume
      <4>5. pc' \in [Procs -> Points] /\ pc[p] = "consume" /\ pc'[p] = "save"
        BY <3>4, <3>11 DEF Consume, Goto, RequestTypes, Points, Busy
      <4>6. row' \in [Procs -> Codes \cup {"none"}] /\ row'[p] = c
        BY <3>4, <4>1, <4>2 DEF RequestTypes, RowsOf
      <4>7. TableTypes' /\ RequestTypes'
        BY <3>4, <4>4, <4>5, <4>6 DEF TableTypes, RequestTypes
      <4>8. Stage(p)'
        BY <3>4, <4>2, <4>3, <4>4, <4>5, <4>6 DEF Stage, Busy
      <4>. QED
        BY <3>1, <3>2, <3>3, <4>2, <4>4, <4>6, <4>7, <4>8, StepKeeps
    <3>12. CASE Save(p)
      <4>1. PICK u \in Uids \ UidsOf(members) : Commit(p, u)
        BY <3>12 DEF Save
      <4>2. pc[p] = "save" /\ req[p] \in Request /\ slot[p] \in Slots /\ row[p] \in Codes
        BY <3>4, <3>12 DEF Save, Stage, Busy, RowsOf
      <4>3. NewMember(p, u) \in Member
        <5>1. UidsOf(snap[p].members) \subseteq Uids
          BY <3>3, <3>4 DEF TableTypes, Member, UidsOf
        <5>2. req[p].name \in Names /\ req[p].code \in Strings
          BY <4>2 DEF Request
        <5>. QED
          BY <4>2, <5>1, <5>2 DEF NewMember, Member
      <4>4. members' = members \cup {NewMember(p, u)} /\ used' = used \cup {row[p]}
        BY <4>1 DEF Commit
      <4>5. UNCHANGED <<upgraded, held, kept, slot, crashes>>
        BY <4>1 DEF Commit
      <4>6. TableTypes'
        <5>1. lockRow' \in [Slots -> {"none", "left"} \cup Procs]
          BY <3>4, <4>1 DEF Commit, TableTypes
        <5>. QED
          BY <3>4, <4>2, <4>3, <4>4, <4>5, <5>1 DEF TableTypes
      <4>7. EndTransaction(p)
        BY <4>1 DEF Commit
      <4>8. RequestTypes' /\ pc'[p] = "release" /\ row'[p] = "none" /\ snap'[p] = NoSnap
        <5>1. NoReq \in AnyRequest /\ NoSnap \in AnySnap
          BY DEF AnyRequest, AnySnap, NoSnap
        <5>2. /\ pc' \in [Procs -> Points] /\ req' \in [Procs -> AnyRequest]
              /\ snap' \in [Procs -> AnySnap] /\ row' \in [Procs -> Codes \cup {"none"}]
          BY <3>4, <4>7, <5>1 DEF RequestTypes, EndTransaction, Points
        <5>3. pc'[p] = "release" /\ row'[p] = "none" /\ snap'[p] = NoSnap
          BY <3>4, <4>7 DEF RequestTypes, EndTransaction
        <5>. QED
          BY <3>4, <4>5, <5>2, <5>3 DEF RequestTypes
      <4>9. Stage(p)'
        BY <4>8 DEF Stage, Busy
      <4>10. \A q \in Procs : q # p /\ row[q] # "none" => row[q] \notin used'
        BY <3>2, <4>2, <4>4, RegistrationAssumption DEF TypeInv, RowsApart
      <4>. QED
        BY <3>1, <4>4, <4>6, <4>8, <4>9, <4>10, StepKeeps DEF NoSnap
    <3>13. CASE Release(p)
      <4>1. UNCHANGED <<members, used, upgraded, lockRow, req, snap, kept, slot, row, crashes>>
        BY <3>13 DEF Release
      <4>2. pc' \in [Procs -> Points] /\ pc[p] = "release" /\ pc'[p] = "unlock"
        BY <3>4, <3>13 DEF Release, Goto, RequestTypes, Points, Busy
      <4>3. held' \in [Procs -> SUBSET LockNames] /\ held'[p] = {}
        BY <3>4, <3>13 DEF Release, RequestTypes
      <4>4. TableTypes' /\ RequestTypes'
        BY <3>4, <4>1, <4>2, <4>3 DEF TableTypes, RequestTypes
      <4>5. Stage(p)' /\ row'[p] = "none"
        BY <3>4, <4>1, <4>2, <4>3 DEF Stage, Busy
      <4>. QED
        BY <3>1, <3>2, <3>3, <4>1, <4>4, <4>5, StepKeeps
    <3>14. CASE Unlock(p)
      <4>1. UNCHANGED <<members, used, upgraded, held, kept, row, crashes>> /\ Forget(p)
        BY <3>14 DEF Unlock
      <4>2. lockRow' \in [Slots -> {"none", "left"} \cup Procs]
        BY <3>4, <3>14 DEF Unlock, TableTypes
      <4>3. TableTypes' /\ RequestTypes' /\ pc'[p] = "idle" /\ snap'[p] = NoSnap
        BY <3>4, <4>1, <4>2, ForgetTypes DEF TableTypes, RequestTypes
      <4>4. Stage(p)' /\ row'[p] = "none"
        BY <3>4, <3>14, <4>1, <4>3 DEF Unlock, Stage, Busy
      <4>. QED
        BY <3>1, <3>2, <4>1, <4>3, <4>4, StepKeeps DEF NoSnap
    <3>15. CASE Crash(p)
      <4>1. UNCHANGED <<members, used, upgraded>> /\ Forget(p)
        BY <3>15 DEF Crash
      <4>2. lockRow' \in [Slots -> {"none", "left"} \cup Procs] /\ crashes' \in 0 .. MaxCrashes
        BY <3>4, <3>15, RegistrationAssumption DEF Crash, DropRow, TableTypes
      <4>3. /\ held' \in [Procs -> SUBSET LockNames] /\ kept' \in [Procs -> SUBSET LockNames]
            /\ row' \in [Procs -> Codes \cup {"none"}] /\ row'[p] = "none" /\ held'[p] = {}
        BY <3>4, <3>15 DEF Crash, RequestTypes
      <4>4. TableTypes' /\ RequestTypes' /\ pc'[p] = "idle" /\ snap'[p] = NoSnap
        BY <3>4, <4>1, <4>2, <4>3, ForgetTypes DEF TableTypes, RequestTypes
      <4>5. Stage(p)'
        BY <4>3, <4>4 DEF Stage, Busy
      <4>. QED
        BY <3>1, <3>2, <4>1, <4>3, <4>4, <4>5, StepKeeps DEF NoSnap
    <3>16. CASE UpgradeRead(p)
      <4>1. PICK c \in Codes : /\ Passes([members |-> members, used |-> used], c)
                               /\ req' = [req EXCEPT ![p] = [code |-> StringOf[c]]]
        BY <3>16 DEF UpgradeRead
      <4>2. c \notin Legacy
        BY <4>1 DEF Passes
      <4>3. /\ req' \in [Procs -> AnyRequest] /\ req'[p].code = StringOf[c]
            /\ StringOf[c] \in Strings
        BY <3>4, <4>1 DEF RequestTypes, AnyRequest, Strings
      <4>4. RowsOf(StringOf[c]) \cap Legacy = {}
        BY <4>2, RegistrationAssumption DEF RowsOf
      <4>5. snap' \in [Procs -> AnySnap] /\ snap'[p] = [members |-> members, used |-> used]
        BY <3>4, <3>16 DEF UpgradeRead, Snapshot, RequestTypes, TableTypes, AnySnap
      <4>6. pc' \in [Procs -> Points] /\ pc[p] = "idle" /\ pc'[p] = "upgrade"
        BY <3>4, <3>16 DEF UpgradeRead, Goto, RequestTypes, Points
      <4>7. UNCHANGED <<members, used, upgraded, lockRow, held, kept, slot, row, crashes>>
        BY <3>16 DEF UpgradeRead
      <4>8. TableTypes' /\ RequestTypes'
        BY <3>4, <4>3, <4>5, <4>6, <4>7 DEF TableTypes, RequestTypes
      <4>9. Stage(p)' /\ row'[p] = "none"
        BY <3>4, <4>3, <4>4, <4>6, <4>7 DEF Stage, Busy
      <4>. QED
        BY <3>1, <3>2, <4>5, <4>7, <4>8, <4>9, StepKeeps
    <3>17. CASE UpgradeUse(p)
      <4>1. UNCHANGED <<members, lockRow, held, kept, row, crashes>> /\ Forget(p)
        BY <3>17 DEF UpgradeUse
      <4>2. pc[p] = "upgrade" /\ held[p] = {} /\ row[p] = "none" /\ req[p].code \in Strings
        BY <3>4, <3>17 DEF UpgradeUse, Stage
      <4>3. /\ upgraded' \in [Strings -> Nat]
            /\ used \subseteq used' /\ used' \subseteq Codes
            /\ \A q \in Procs : row[q] # "none" => row[q] \notin used'
        <5>1. CASE UNCHANGED <<used, upgraded>>
          BY <3>2, <3>4, <5>1 DEF TableTypes
        <5>2. ASSUME NEW c \in Released(req[p].code), used' = used \cup {c},
                     upgraded' = [upgraded EXCEPT ![req[p].code] = @ + 1]
              PROVE  /\ upgraded' \in [Strings -> Nat]
                     /\ used \subseteq used' /\ used' \subseteq Codes
                     /\ \A q \in Procs : row[q] # "none" => row[q] \notin used'
          <6>1. c \in Codes /\ \A q \in Procs : row[q] # c
            BY DEF Released, RowsOf
          <6>. QED
            BY <3>2, <3>4, <4>2, <5>2, <6>1 DEF TableTypes
        <5>. QED
          BY <3>17, <5>1, <5>2 DEF UpgradeUse
      <4>4. TableTypes' /\ RequestTypes' /\ pc'[p] = "idle" /\ snap'[p] = NoSnap
        BY <3>4, <4>1, <4>3, ForgetTypes DEF TableTypes, RequestTypes
      <4>5. Stage(p)' /\ row'[p] = "none"
        BY <4>1, <4>2, <4>4 DEF Stage, Busy
      <4>. QED
        BY <3>1, <4>1, <4>3, <4>4, <4>5, StepKeeps DEF NoSnap
    <3>. QED
      BY <2>1, <3>5, <3>6, <3>7, <3>8, <3>9, <3>10, <3>11, <3>12, <3>13, <3>14, <3>15, <3>16, <3>17
         DEF Register, Upgrade
  <2>2. CASE UNCHANGED vars
    BY <2>2 DEF vars, TypeInv, TableTypes, RequestTypes, Seen, Stage, Prefixes, LockKeys, RowsApart
  <2>. QED
    BY <2>1, <2>2 DEF Next
<1>. QED
  BY <1>1, <1>2, PTL DEF Spec
-----------------------------------------------------------------------------
\* An uncommitted placement lock belongs to the transaction for that slot.
Inserter ==
    \A l \in Slots : lockRow[l] \in Procs =>
        pc[lockRow[l]] \in {"consume", "save"} /\ slot[lockRow[l]] = l

\* A step that adds no placement lock and keeps those of others.
LEMMA PlaceKeeps ==
    ASSUME TypeInv, Inserter, LockRowMeansTaken, NEW p \in Procs, Others(p),
           members \subseteq members',
           \A l \in Slots :
               \/ lockRow'[l] = "none"
               \/ lockRow'[l] = lockRow[l] /\ lockRow[l] # p
               \/ lockRow'[l] = lockRow[l] /\ pc'[p] \in {"consume", "save"} /\ slot'[p] = slot[p]
    PROVE  (Inserter /\ LockRowMeansTaken)'
<1>. USE RegistrationAssumption
<1>1. Inserter'
  BY DEF Inserter, Others
<1>2. LockRowMeansTaken'
  BY DEF LockRowMeansTaken, TakenIn
<1>. QED
  BY <1>1, <1>2

\* A step that leaves all placement locks alone, by a request that has none.
LEMMA PlaceIdle ==
    ASSUME TypeInv, Inserter, LockRowMeansTaken, NEW p \in Procs, Others(p),
           UNCHANGED <<members, lockRow>>, pc[p] \notin {"consume", "save"}
    PROVE  (Inserter /\ LockRowMeansTaken)'
BY PlaceKeeps DEF Inserter

\* A placement lock that outlives its transaction, because the finally block
\* never ran or another request's did, blocks a slot that is taken anyway.
THEOREM LeftLocksBlockNothing == Spec => [](Inserter /\ LockRowMeansTaken)
<1>1. Init => Inserter /\ LockRowMeansTaken
  BY RegistrationAssumption DEF Init, Inserter, LockRowMeansTaken
<1>2. TypeInv /\ Inserter /\ LockRowMeansTaken /\ [Next]_vars => (Inserter /\ LockRowMeansTaken)'
  <2>. SUFFICES ASSUME TypeInv, Inserter, LockRowMeansTaken, [Next]_vars
                PROVE  (Inserter /\ LockRowMeansTaken)'
    OBVIOUS
  <2>1. ASSUME NEW p \in Procs, Register(p) \/ Upgrade(p) \/ Crash(p)
        PROVE  (Inserter /\ LockRowMeansTaken)'
    <3>1. Others(p)
      BY <2>1, OthersAlone DEF TypeInv
    <3>2. RequestTypes /\ TableTypes /\ Stage(p)
      BY DEF TypeInv
    <3>3. CASE DropRow(p) /\ UNCHANGED members
      BY <3>1, <3>2, <3>3, PlaceKeeps DEF DropRow, TableTypes
    <3>4. CASE Begin(p) \/ GetLock(p) \/ Choose(p) \/ Release(p) \/ UpgradeRead(p) \/ UpgradeUse(p)
      BY <3>1, <3>4, PlaceIdle DEF Begin, GetLock, Locking, Choose, Release, UpgradeRead, UpgradeUse,
                                   Goto
    <3>5. CASE Rollback(p) \/ Crash(p)
      BY <3>3, <3>5 DEF Rollback, Crash
    <3>6. CASE Place(p)
      <4>1. /\ pc'[p] = "consume" /\ slot'[p] = slot[p] /\ slot[p] \in Slots
            /\ members' = members
        BY <3>2, <3>6 DEF Place, Goto, RequestTypes, Stage
      <4>2. \A l \in Slots : lockRow'[l] = IF l = slot[p] THEN p ELSE lockRow[l]
        BY <3>2, <3>6 DEF Place, TableTypes
      <4>3. \A l \in Slots : lockRow[l] # p
        BY <3>6 DEF Place, Goto, Inserter
      <4>4. Inserter'
        BY <3>1, <4>1, <4>2, <4>3 DEF Inserter, Others
      <4>5. LockRowMeansTaken'
        BY <4>1, <4>2, RegistrationAssumption DEF LockRowMeansTaken
      <4>. QED
        BY <4>4, <4>5
    <3>7. CASE Consume(p)
      <4>1. UNCHANGED <<members, lockRow, slot>> /\ pc'[p] = "save"
        BY <3>2, <3>7 DEF Consume, Goto, RequestTypes
      <4>. QED
        BY <3>1, <4>1, PlaceKeeps
    <3>8. CASE Save(p)
      <4>1. PICK u \in Uids : Commit(p, u)
        BY <3>8 DEF Save
      <4>2. \A l \in Slots : lockRow'[l] = IF lockRow[l] = p THEN "left" ELSE lockRow[l]
        BY <4>1 DEF Commit
      <4>3. members' = members \cup {NewMember(p, u)}
        BY <4>1 DEF Commit
      <4>4. Inserter'
        BY <3>1, <4>2, RegistrationAssumption DEF Inserter, Others
      <4>5. \A l \in Slots : lockRow[l] = p => l \in TakenIn(members')
        <5>1. NewMember(p, u).slot = slot[p] /\ NewMember(p, u) \in members'
          BY <4>3 DEF NewMember
        <5>. QED
          BY <5>1 DEF Inserter, TakenIn
      <4>6. LockRowMeansTaken'
        BY <4>2, <4>3, <4>5 DEF LockRowMeansTaken, TakenIn
      <4>. QED
        BY <4>4, <4>6
    <3>9. CASE Unlock(p)
      <4>1. pc[p] = "unlock" /\ members' = members
        BY <3>9 DEF Unlock
      <4>2. \A l \in Slots : lockRow[l] # p
        BY <4>1 DEF Inserter
      <4>3. \A l \in Slots : lockRow'[l] = lockRow[l] \/ lockRow'[l] = "none"
        BY <3>2, <3>9 DEF Unlock, TableTypes
      <4>. QED
        BY <3>1, <4>1, <4>2, <4>3, PlaceKeeps
    <3>. QED
      BY <2>1, <3>4, <3>5, <3>6, <3>7, <3>8, <3>9
         DEF Register, Upgrade, GetLockTimeout, PlaceBusy, ConsumeRefused, SaveRefused
  <2>2. CASE UNCHANGED vars
    BY <2>2 DEF vars, Inserter, LockRowMeansTaken
  <2>. QED
    BY <2>1, <2>2 DEF Next
<1>. QED
  BY <1>1, <1>2, TypesHold, PTL DEF Spec

\* The finally block and the INSERT of a placement lock wait for somebody who
\* waits for nobody.
LEMMA WaitingChain ==
    ASSUME TypeInv, Inserter, NEW p \in Procs, NEW q \in Procs, NEW r \in Procs,
           WaitsFor(p, q), WaitsFor(q, r)
    PROVE  Locking(p) /\ NextKey(p) \in held[q]
<1>1. pc[q] \in {"locks", "place", "unlock"}
  BY DEF WaitsFor, Locking
<1>2. ~(pc[p] = "place" /\ lockRow[slot[p]] = q)
  BY <1>1 DEF TypeInv, Stage, Inserter
<1>3. ~(pc[p] = "unlock" /\ slot[p] # <<>> /\ lockRow[slot[p]] = q)
  BY <1>1 DEF TypeInv, RequestTypes, Inserter
<1>. QED
  BY <1>2, <1>3 DEF WaitsFor

\* Two requests that acquire locks: who waits holds fewer than who is waited
\* for, as both acquire code, username and sponsor in this order.
LEMMA WaitsUpwards ==
    ASSUME TypeInv, NEW p \in Procs, NEW q \in Procs, Locking(p), Locking(q),
           NextKey(p) \in held[q]
    PROVE  /\ Cardinality(held[p]) \in 0 .. 3 /\ Cardinality(held[q]) \in 0 .. 3
           /\ Cardinality(held[p]) < Cardinality(held[q])
<1>. DEFINE k == LockKeys(p)
            l == LockKeys(q)
<1>1. held[p] \in Prefixes(p) /\ held[q] \in Prefixes(q)
  BY DEF TypeInv, Stage, Locking
<1>2. /\ k[1] \notin {l[2], l[3]} /\ k[2] \notin {l[1], l[3]} /\ k[3] \notin {l[1], l[2]}
  BY DEF LockKeys
<1>3. Len(k) = 3
  BY DEF LockKeys
<1>4. Cardinality(held[p]) # 3
  BY <1>3 DEF Locking, AllHeld
<1>5. NextKey(p) = k[Cardinality(held[p]) + 1]
  BY DEF NextKey
<1>6. \/ Cardinality(held[p]) = 0
      \/ Cardinality(held[p]) = 1 /\ NextKey(p) = k[2]
      \/ Cardinality(held[p]) = 2 /\ NextKey(p) = k[3]
  BY <1>1, <1>4, <1>5, PrefixCount
<1>7. \/ held[q] = {} /\ Cardinality(held[q]) = 0
      \/ held[q] = {l[1]} /\ Cardinality(held[q]) = 1
      \/ held[q] = {l[1], l[2]} /\ Cardinality(held[q]) = 2
      \/ held[q] = {l[1], l[2], l[3]} /\ Cardinality(held[q]) = 3
  BY <1>1, PrefixCount
<1>. HIDE DEF k, l
<1>. QED
  BY <1>2, <1>6, <1>7

\* Requests never wait for each other in a circle: MySQL's row locks and the
\* session locks of GET_LOCK are not known to one deadlock detector.
THEOREM NoCircularWait == Spec => []NoWaitCycle
<1>1. TypeInv /\ Inserter => NoWaitCycle
  <2>. SUFFICES ASSUME TypeInv, Inserter,
                       NEW p \in Procs, NEW q \in Procs, NEW r \in Procs, WaitsFor(p, q),
                       WaitsFor(q, p) \/ (WaitsFor(q, r) /\ WaitsFor(r, p))
                PROVE  FALSE
    BY DEF NoWaitCycle
  <2>1. CASE WaitsFor(q, p)
    <3>1. Locking(p) /\ NextKey(p) \in held[q] /\ Locking(q) /\ NextKey(q) \in held[p]
      BY <2>1, WaitingChain
    <3>2. Cardinality(held[p]) < Cardinality(held[q])
      BY <3>1, WaitsUpwards
    <3>3. /\ Cardinality(held[q]) < Cardinality(held[p])
          /\ Cardinality(held[p]) \in 0 .. 3 /\ Cardinality(held[q]) \in 0 .. 3
      BY <3>1, WaitsUpwards
    <3>. QED
      BY <3>2, <3>3
  <2>2. CASE WaitsFor(q, r) /\ WaitsFor(r, p)
    <3>1. /\ Locking(p) /\ NextKey(p) \in held[q]
          /\ Locking(q) /\ NextKey(q) \in held[r]
          /\ Locking(r) /\ NextKey(r) \in held[p]
      BY <2>2, WaitingChain
    <3>2. /\ Cardinality(held[p]) < Cardinality(held[q])
          /\ Cardinality(held[p]) \in 0 .. 3
      BY <3>1, WaitsUpwards
    <3>3. /\ Cardinality(held[q]) < Cardinality(held[r])
          /\ Cardinality(held[q]) \in 0 .. 3
      BY <3>1, WaitsUpwards
    <3>4. /\ Cardinality(held[r]) < Cardinality(held[p])
          /\ Cardinality(held[r]) \in 0 .. 3
      BY <3>1, WaitsUpwards
    <3>. QED
      BY <3>2, <3>3, <3>4
  <2>. QED
    BY <2>1, <2>2
<1>. QED
  BY <1>1, TypesHold, LeftLocksBlockNothing, PTL
-----------------------------------------------------------------------------
\* The steps that change the tables: the commit of a registration and that of
\* an upgrade.
Registers(p, u) == pc[p] = "save" /\ ~Clashes(p) /\ u \notin UidsOf(members) /\ Commit(p, u)
Upgrades(p, c) ==
    /\ pc[p] = "upgrade"
    /\ c \in Released(req[p].code)
    /\ used' = used \cup {c}
    /\ upgraded' = [upgraded EXCEPT ![req[p].code] = @ + 1]
    /\ members' = members

\* No other statement changes a table that outlives requests.
LEMMA TableSteps ==
    ASSUME [Next]_vars
    PROVE  \/ UNCHANGED <<members, used, upgraded>>
           \/ \E p \in Procs, u \in Uids : Registers(p, u)
           \/ \E p \in Procs, c \in Codes : Upgrades(p, c)
<1>1. ASSUME NEW p \in Procs, Register(p) \/ Crash(p) \/ UpgradeRead(p)
      PROVE  \/ UNCHANGED <<members, used, upgraded>>
             \/ \E u \in Uids : Registers(p, u)
  <2>1. CASE Save(p)
    BY <2>1 DEF Save, Registers
  <2>2. CASE Begin(p) \/ GetLock(p) \/ Choose(p) \/ Place(p) \/ Consume(p) \/ Release(p)
    BY <2>2 DEF Begin, GetLock, Choose, Place, Consume, Release
  <2>3. CASE Rollback(p) \/ Unlock(p) \/ Crash(p) \/ UpgradeRead(p)
    BY <2>3 DEF Rollback, Unlock, Crash, UpgradeRead
  <2>. QED
    BY <1>1, <2>1, <2>2, <2>3
       DEF Register, GetLockTimeout, PlaceBusy, ConsumeRefused, SaveRefused
<1>2. ASSUME NEW p \in Procs, UpgradeUse(p)
      PROVE  \/ UNCHANGED <<members, used, upgraded>>
             \/ \E c \in Codes : Upgrades(p, c)
  BY <1>2 DEF UpgradeUse, Upgrades, Released, RowsOf
<1>3. CASE UNCHANGED vars
  BY <1>3 DEF vars
<1>. QED
  BY <1>1, <1>2, <1>3 DEF Next, Upgrade

\* Uids are unique, and a member's registration saw members only.
MembersKnown ==
    /\ \A m, n \in members : m.uid = n.uid => m = n
    /\ \A m \in members : m.saw \subseteq UidsOf(members)

\* Two members may collide only when neither registration could see the other
\* commit, because the checks read a snapshot and no unique index backs them.
THEOREM CollisionsAreRaces == Spec => [](MembersKnown /\ NoKnownCollision)
<1>1. Init => MembersKnown /\ NoKnownCollision
  BY DEF Init, MembersKnown, NoKnownCollision, RootMember
<1>2. TypeInv /\ MembersKnown /\ NoKnownCollision /\ [Next]_vars
        => (MembersKnown /\ NoKnownCollision)'
  <2>. SUFFICES ASSUME TypeInv, MembersKnown, NoKnownCollision, [Next]_vars
                PROVE  (MembersKnown /\ NoKnownCollision)'
    OBVIOUS
  <2>1. CASE UNCHANGED members
    BY <2>1 DEF MembersKnown, NoKnownCollision
  <2>2. ASSUME NEW p \in Procs, NEW u \in Uids, Registers(p, u)
        PROVE  (MembersKnown /\ NoKnownCollision)'
    <3>. DEFINE x == NewMember(p, u)
    <3>1. members' = members \cup {x}
      BY <2>2 DEF Registers, Commit
    <3>2. /\ x.uid = u /\ x.slot = slot[p] /\ x.name = req[p].name
          /\ x.saw = UidsOf(snap[p].members)
      BY DEF NewMember
    <3>. HIDE DEF x
    <3>3. u \notin UidsOf(members) /\ \A m \in members : m.uid # u
      BY <2>2 DEF Registers, UidsOf
    <3>4. snap[p].members \subseteq members
      BY DEF TypeInv, Seen
    <3>5. MembersKnown'
      <4>1. UidsOf(members) \subseteq UidsOf(members') /\ x.saw \subseteq UidsOf(members)
        BY <3>1, <3>2, <3>4 DEF UidsOf
      <4>. QED
        BY <3>1, <3>2, <3>3, <4>1 DEF MembersKnown
    <3>6. ASSUME NEW m \in members, m.slot = x.slot \/ m.name = x.name
          PROVE  m.uid \notin x.saw /\ x.uid \notin m.saw
      <4>1. m \notin snap[p].members
        BY <2>2, <3>2, <3>6 DEF Registers, Clashes, TakenIn, NamesIn
      <4>2. m.uid \notin x.saw
        BY <3>2, <3>4, <4>1 DEF MembersKnown, UidsOf
      <4>. QED
        BY <3>2, <3>3, <4>2 DEF MembersKnown
    <3>7. NoKnownCollision'
      BY <3>1, <3>6 DEF NoKnownCollision
    <3>. QED
      BY <3>5, <3>7
  <2>3. ASSUME NEW p \in Procs, NEW c \in Codes, Upgrades(p, c)
        PROVE  (MembersKnown /\ NoKnownCollision)'
    BY <2>1, <2>3 DEF Upgrades
  <2>. QED
    BY <2>1, <2>2, <2>3, TableSteps
<1>. QED
  BY <1>1, <1>2, TypesHold, PTL DEF Spec
-----------------------------------------------------------------------------
\* A new member holds one code string more.
LEMMA HoldersGrow ==
    ASSUME IsFiniteSet(members), NEW x, x \notin members, NEW s
    PROVE  /\ Holders(members, s) \in Nat
           /\ Holders(members \cup {x}, s) = Holders(members, s) + (IF x.code = s THEN 1 ELSE 0)
<1>. DEFINE H == {m \in members : m.code = s}
<1>1. IsFiniteSet(H) /\ Cardinality(H) \in Nat
  BY FS_Subset, FS_CardinalityType
<1>2. x \notin H
  OBVIOUS
<1>3. {m \in members \cup {x} : m.code = s} = IF x.code = s THEN H \cup {x} ELSE H
  OBVIOUS
<1>4. Holders(members, s) = Cardinality(H)
      /\ Holders(members \cup {x}, s) = Cardinality(IF x.code = s THEN H \cup {x} ELSE H)
  BY <1>3 DEF Holders
<1>. HIDE DEF H
<1>5. Cardinality(H \cup {x}) = Cardinality(H) + 1
  BY <1>1, <1>2, FS_AddElement
<1>. QED
  BY <1>1, <1>4, <1>5

\* A code row that is used for the first time is one row spent more.
LEMMA SpentGrows ==
    ASSUME NEW c \in Codes \ (used \cup Legacy), used' = used \cup {c}, NEW s
    PROVE  /\ Spent(s) \in 0 .. Cardinality(Codes) /\ Cardinality(Codes) \in Nat
           /\ Spent(s)' = Spent(s) + (IF StringOf[c] = s THEN 1 ELSE 0)
<1>. DEFINE S == {d \in RowsOf(s) : d \in used \cup Legacy}
            T == {d \in RowsOf(s) : d \in used' \cup Legacy}
<1>1. IsFiniteSet(Codes) /\ S \in SUBSET Codes
  BY RegistrationAssumption DEF RowsOf
<1>2. IsFiniteSet(S) /\ Cardinality(S) \in Nat /\ Cardinality(S) <= Cardinality(Codes)
      /\ Cardinality(Codes) \in Nat
  BY <1>1, FS_Subset, FS_CardinalityType
<1>3. c \notin S
  OBVIOUS
<1>4. T = IF StringOf[c] = s THEN S \cup {c} ELSE S
  BY DEF RowsOf
<1>5. Spent(s) = Cardinality(S) /\ Spent(s)' = Cardinality(T)
  BY DEF Spent, RowsOf
<1>. HIDE DEF S, T
<1>6. Cardinality(S \cup {c}) = Cardinality(S) + 1
  BY <1>2, <1>3, FS_AddElement
<1>. QED
  BY <1>2, <1>4, <1>5, <1>6

\* A code of the legacy flow is never consumed again.
LegacyKept == IsFiniteSet(members) /\ Legacy \cap used = {}

\* "two live accounts, one paid package" never again: a code string is used
\* exactly as often as rows of it are spent.
THEOREM PackagesPaidOnce == Spec => [](LegacyKept /\ OnePackagePerCode)
<1>1. Init => LegacyKept /\ OnePackagePerCode
  <2>. SUFFICES ASSUME Init
                PROVE  LegacyKept /\ OnePackagePerCode
    OBVIOUS
  <2>. USE RegistrationAssumption
  <2>1. members = {RootMember} /\ used = {} /\ \A s \in Strings : upgraded[s] = 0
    BY DEF Init
  <2>2. LegacyKept
    BY <2>1, FS_Singleton DEF LegacyKept
  <2>3. ASSUME NEW s \in Strings
        PROVE  Holders(members, s) = Spent(s)
    <3>. DEFINE root == RootMember.code
                H == {m \in {RootMember} : m.code = s}
                S == {d \in RowsOf(s) : d \in Legacy}
    <3>1. Holders(members, s) = Cardinality(H) /\ Spent(s) = Cardinality(S)
      BY <2>1 DEF Holders, Spent
    <3>2. Cardinality({}) = 0 /\ \A x : Cardinality({x}) = 1
      BY FS_EmptySet, FS_Singleton
    <3>3. H = IF root = s THEN {RootMember} ELSE {}
      OBVIOUS
    <3>4. CASE Legacy = {}
      <4>1. root = "none" /\ S = {} /\ s # "none"
        BY <3>4 DEF RootMember, Strings
      <4>. QED
        BY <3>1, <3>2, <3>3, <4>1
    <3>5. CASE Legacy # {}
      <4>1. IsFiniteSet(Legacy) /\ Cardinality(Legacy) \in Nat /\ Cardinality(Legacy) # 0
        BY <3>5, FS_Subset, FS_EmptySet, FS_CardinalityType
      <4>2. Cardinality(Legacy) = 1
        BY <4>1
      <4>3. PICK c : Legacy = {c}
        BY <4>1, <4>2, FS_Singleton
      <4>4. root = StringOf[c]
        BY <3>5, <4>3 DEF RootMember
      <4>5. S = IF StringOf[c] = s THEN {c} ELSE {}
        BY <4>3 DEF RowsOf
      <4>. HIDE DEF root, H, S
      <4>. QED
        BY <3>1, <3>2, <3>3, <4>4, <4>5
    <3>. QED
      BY <3>4, <3>5
  <2>4. ASSUME NEW s \in Strings
        PROVE  Holders(members, s) \in Nat
    <3>1. IsFiniteSet({m \in members : m.code = s})
      BY <2>2, FS_Subset DEF LegacyKept
    <3>. QED
      BY <3>1, FS_CardinalityType DEF Holders
  <2>. QED
    BY <2>1, <2>2, <2>3, <2>4 DEF OnePackagePerCode
<1>2. TypeInv /\ LegacyKept /\ OnePackagePerCode /\ [Next]_vars => (LegacyKept /\ OnePackagePerCode)'
  <2>. SUFFICES ASSUME TypeInv, LegacyKept, OnePackagePerCode, [Next]_vars
                PROVE  (LegacyKept /\ OnePackagePerCode)'
    OBVIOUS
  <2>1. CASE UNCHANGED <<members, used, upgraded>>
    BY <2>1 DEF LegacyKept, OnePackagePerCode, Spent
  <2>2. ASSUME NEW p \in Procs, NEW u \in Uids, Registers(p, u)
        PROVE  (LegacyKept /\ OnePackagePerCode)'
    <3>. DEFINE x == NewMember(p, u)
                c == row[p]
    <3>1. members' = members \cup {x} /\ used' = used \cup {c} /\ upgraded' = upgraded
      BY <2>2 DEF Registers, Commit
    <3>2. x \notin members /\ x.code = req[p].code
      BY <2>2 DEF Registers, NewMember, UidsOf
    <3>3. c \in Codes \ (used \cup Legacy) /\ StringOf[c] = req[p].code
      BY <2>2 DEF Registers, TypeInv, Stage, RowsOf
    <3>. HIDE DEF x, c
    <3>4. LegacyKept'
      BY <3>1, <3>3, FS_AddElement DEF LegacyKept
    <3>5. ASSUME NEW s \in Strings
          PROVE  Holders(members', s) + upgraded'[s] = Spent(s)'
      <4>1. /\ Holders(members, s) \in Nat
            /\ Holders(members', s) = Holders(members, s) + (IF x.code = s THEN 1 ELSE 0)
        BY <3>1, <3>2, HoldersGrow DEF LegacyKept
      <4>2. /\ Spent(s) \in Nat
            /\ Spent(s)' = Spent(s) + (IF StringOf[c] = s THEN 1 ELSE 0)
        BY <3>1, <3>3, SpentGrows
      <4>3. upgraded[s] \in Nat /\ upgraded'[s] = upgraded[s]
        BY <3>1 DEF TypeInv, TableTypes
      <4>. QED
        BY <3>2, <3>3, <4>1, <4>2, <4>3 DEF OnePackagePerCode
    <3>. QED
      BY <3>4, <3>5 DEF OnePackagePerCode
  <2>3. ASSUME NEW p \in Procs, NEW c \in Codes, Upgrades(p, c)
        PROVE  (LegacyKept /\ OnePackagePerCode)'
    <3>1. /\ members' = members /\ used' = used \cup {c}
          /\ upgraded' = [upgraded EXCEPT ![req[p].code] = @ + 1]
      BY <2>3 DEF Upgrades
    <3>2. c \in Codes \ (used \cup Legacy) /\ StringOf[c] = req[p].code
      BY <2>3 DEF Upgrades, Released, TypeInv, Stage, RowsOf
    <3>3. LegacyKept'
      BY <3>1, <3>2 DEF LegacyKept
    <3>4. ASSUME NEW s \in Strings
          PROVE  Holders(members', s) + upgraded'[s] = Spent(s)'
      <4>1. Holders(members, s) \in Nat /\ Holders(members', s) = Holders(members, s)
        <5>1. IsFiniteSet({m \in members : m.code = s})
          BY FS_Subset DEF LegacyKept
        <5>. QED
          BY <3>1, <5>1, FS_CardinalityType DEF Holders
      <4>2. /\ Spent(s) \in Nat
            /\ Spent(s)' = Spent(s) + (IF StringOf[c] = s THEN 1 ELSE 0)
        BY <3>1, <3>2, SpentGrows
      <4>3. upgraded[s] \in Nat /\ upgraded'[s] = upgraded[s] + (IF req[p].code = s THEN 1 ELSE 0)
        BY <3>1 DEF TypeInv, TableTypes
      <4>. QED
        BY <3>2, <4>1, <4>2, <4>3 DEF OnePackagePerCode
    <3>. QED
      BY <3>3, <3>4 DEF OnePackagePerCode
  <2>. QED
    BY <2>1, <2>2, <2>3, TableSteps
<1>. QED
  BY <1>1, <1>2, TypesHold, PTL DEF Spec
-----------------------------------------------------------------------------
\* GET_LOCK: no two connections have the same lock.
LocksApart ==
    \A p, q \in Procs : p # q => (held[p] \cup kept[p]) \cap (held[q] \cup kept[q]) = {}

\* A step by which p gets at most a lock that nobody has.
LEMMA ApartStep ==
    ASSUME LocksApart, NEW p \in Procs, Others(p), NEW x,
           held'[p] \cup kept'[p] \subseteq held[p] \cup kept[p] \cup {x},
           x \in held[p] \/ \A q \in Procs : q # p => x \notin held[q] \cup kept[q]
    PROVE  LocksApart'
BY DEF LocksApart, Others

\* A step by which p gets none.
LEMMA ApartIdle ==
    ASSUME LocksApart, NEW p \in Procs, Others(p),
           held'[p] \cup kept'[p] \subseteq held[p] \cup kept[p]
    PROVE  LocksApart'
BY DEF LocksApart, Others

\* Locks that a timed-out registration leaves on its connection stay exclusive.
THEOREM SessionLocksExclusive == Spec => []LocksApart
<1>1. Init => LocksApart
  BY DEF Init, LocksApart
<1>2. TypeInv /\ LocksApart /\ [Next]_vars => LocksApart'
  <2>. SUFFICES ASSUME TypeInv, LocksApart, [Next]_vars
                PROVE  LocksApart'
    OBVIOUS
  <2>1. ASSUME NEW p \in Procs, Register(p) \/ Upgrade(p) \/ Crash(p)
        PROVE  LocksApart'
    <3>1. Others(p)
      BY <2>1, OthersAlone DEF TypeInv
    <3>2. RequestTypes
      BY DEF TypeInv
    <3>3. CASE UNCHANGED <<held, kept>>
      BY <3>1, <3>3, ApartIdle
    <3>4. CASE \/ Begin(p) \/ Choose(p) \/ Place(p) \/ Consume(p) \/ Unlock(p)
               \/ UpgradeRead(p) \/ UpgradeUse(p)
      BY <3>3, <3>4 DEF Begin, Choose, Place, Consume, Unlock, UpgradeRead, UpgradeUse
    <3>5. CASE PlaceBusy(p) \/ ConsumeRefused(p) \/ SaveRefused(p)
      BY <3>3, <3>5 DEF PlaceBusy, ConsumeRefused, SaveRefused
    <3>6. CASE Save(p)
      BY <3>3, <3>6 DEF Save, Commit
    <3>7. CASE GetLock(p)
      <4>1. /\ held'[p] = held[p] \cup {NextKey(p)} /\ kept'[p] = kept[p]
            /\ \A q \in Procs : q # p => NextKey(p) \notin held[q] \cup kept[q]
        BY <3>2, <3>7 DEF GetLock, RequestTypes
      <4>. QED
        BY <3>1, <4>1, ApartStep
    <3>8. CASE GetLockTimeout(p)
      <4>1. held'[p] = {} /\ kept'[p] = kept[p] \cup held[p]
        BY <3>2, <3>8 DEF GetLockTimeout, RequestTypes
      <4>. QED
        BY <3>1, <4>1, ApartIdle
    <3>9. CASE Release(p) \/ Crash(p)
      <4>1. held'[p] = {} /\ kept'[p] \subseteq kept[p]
        BY <3>2, <3>9 DEF Release, Crash, RequestTypes
      <4>. QED
        BY <3>1, <4>1, ApartIdle
    <3>. QED
      BY <2>1, <3>4, <3>5, <3>6, <3>7, <3>8, <3>9 DEF Register, Upgrade
  <2>2. CASE UNCHANGED vars
    BY <2>2 DEF vars, LocksApart
  <2>. QED
    BY <2>1, <2>2 DEF Next
<1>. QED
  BY <1>1, <1>2, TypesHold, PTL DEF Spec

\* Type correctness; that a string is upgraded with no more often than it has
\* rows follows from PackagesPaidOnce.
THEOREM TypeCorrect == Spec => []TypeOK
<1>1. TypeInv /\ LocksApart /\ LegacyKept /\ OnePackagePerCode => TypeOK
  <2>. SUFFICES ASSUME TypeInv, LocksApart, LegacyKept, OnePackagePerCode
                PROVE  TypeOK
    OBVIOUS
  <2>1. ASSUME NEW s \in Strings
        PROVE  upgraded[s] \in 0 .. Cardinality(Codes)
    <3>1. IsFiniteSet({m \in members : m.code = s})
      BY FS_Subset DEF LegacyKept
    <3>2. Holders(members, s) \in Nat
      BY <3>1, FS_CardinalityType DEF Holders
    <3>3. {c \in RowsOf(s) : c \in used \cup Legacy} \in SUBSET Codes
      BY DEF RowsOf
    <3>4. Spent(s) \in Nat /\ Cardinality(Codes) \in Nat /\ Spent(s) <= Cardinality(Codes)
      BY <3>3, RegistrationAssumption, FS_Subset, FS_CardinalityType DEF Spent
    <3>5. upgraded[s] \in Nat
      BY DEF TypeInv, TableTypes
    <3>. QED
      BY <3>2, <3>4, <3>5 DEF OnePackagePerCode
  <2>2. upgraded \in [Strings -> 0 .. Cardinality(Codes)]
    BY <2>1 DEF TypeInv, TableTypes
  <2>3. ASSUME NEW p \in Procs
        PROVE  /\ pc[p] \in Busy => req[p] \in Request
               /\ snap[p].members \subseteq members /\ snap[p].used \subseteq used
               /\ slot[p] \in Slots \cup {<<>>}
               /\ row[p] \in Codes \cup {"none"}
               /\ pc[p] \in {"idle", "unlock"} => held[p] = {} /\ row[p] = "none"
    BY DEF TypeInv, RequestTypes, Seen, Stage
  <2>4. /\ members \subseteq Member /\ used \subseteq Codes
        /\ lockRow \in [Slots -> {"none", "left"} \cup Procs]
        /\ pc \in [Procs -> Busy \cup {"idle", "release", "unlock", "upgrade"}]
        /\ crashes \in 0 .. MaxCrashes
    BY DEF TypeInv, TableTypes, RequestTypes, Points
  <2>. QED
    BY <2>2, <2>3, <2>4 DEF TypeOK, LocksApart
<1>. QED
  BY <1>1, TypesHold, SessionLocksExclusive, PackagesPaidOnce, PTL
=============================================================================
