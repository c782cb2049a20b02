---------------------------- MODULE CodesProofs ----------------------------
(***************************************************************************)
(* Proofs about Codes, for any number of connections, members, codes and   *)
(* batches: GET_LOCK names and member rows are exclusive, no two codes     *)
(* have one string, a code is spent once and by its holder, the counts of  *)
(* directs are kept, and no more product sets are redeemed than completed. *)
(***************************************************************************)
EXTENDS Codes, Sums

\* What a request has read, by its kind.
Generating(r) ==
    \/ r \in {Unread, [stage |-> "committed"]}
    \/ r.stage = "read" /\ r.next \in Nat /\ IsFiniteSet(r.strings)

Redeeming(r) == r = Unread \/ (r.stage = "read" /\ r.claims \in Nat)

OnCode(r) == r.stage \in {"read", "observed"} /\ r.code \in CodeRow

Fits(o, r) ==
    /\ o.kind = "none" => r = Unread
    /\ o.kind = "generate" => Generating(r)
    /\ o.kind = "redeem" => Redeeming(r)
    /\ o.kind \in CodeOps => OnCode(r)

\* A name or a member's row is held by one request at a time.
LocksApart == \A p, q \in Procs : p # q => Locks(op[p]) \cap Locks(op[q]) = {}

-----------------------------------------------------------------------------
\* The larger of two counts.
LEMMA LargerOfTwo ==
    ASSUME NEW a \in Int, NEW b \in Int
    PROVE  Max({a, b}) = IF a >= b THEN a ELSE b
<1>. DEFINE m == IF a >= b THEN a ELSE b
<1>1. m \in {a, b} /\ \A y \in {a, b} : m >= y
  OBVIOUS
<1>2. Max({a, b}) \in {a, b} /\ \A y \in {a, b} : Max({a, b}) >= y
  BY <1>1 DEF Max
<1>. QED
  BY <1>1, <1>2

\* The largest of a finite set.
LEMMA MaxIn ==
    \A S : IsFiniteSet(S) /\ S \subseteq Nat /\ S # {} => Max(S) \in S /\ \A n \in S : n <= Max(S)
<1>1. ASSUME NEW S, IsFiniteSet(S) /\ S \subseteq Nat /\ S # {}
      PROVE  Max(S) \in S /\ \A n \in S : n <= Max(S)
  <2>1. PICK m \in S : \A n \in S : n <= m
    BY <1>1, Largest
  <2>2. \A n \in S : m >= n
    BY <1>1, <2>1
  <2>3. Max(S) \in S /\ \A n \in S : Max(S) >= n
    BY <2>2 DEF Max
  <2>. QED
    BY <1>1, <2>3
<1>. QED
  BY <1>1

\* The smallest of a finite set.
LEMMA MinIn ==
    \A S : IsFiniteSet(S) /\ S \subseteq Nat /\ S # {} => Min(S) \in S
<1>1. ASSUME NEW S, IsFiniteSet(S) /\ S \subseteq Nat /\ S # {}
      PROVE  Min(S) \in S
  <2>1. PICK m \in S : \A n \in S : m <= n
    BY <1>1, Smallest
  <2>. QED
    BY <2>1 DEF Min
<1>. QED
  BY <1>1

\* Ids and packages are finite sets of positive numbers; the product is no package.
LEMMA IdsFacts ==
    /\ Ids \subseteq Nat \ {0} /\ IsFiniteSet(Ids)
    /\ Tiers \subseteq Nat /\ IsFiniteSet(Tiers) /\ Max(Tiers) \in Tiers /\ Min(Tiers) \in Tiers
    /\ 0 \notin Tiers /\ Product \notin Tiers
<1>1. Tiers \subseteq 1 .. 90 /\ IsFiniteSet(1 .. 90)
  <2>1. 1 \in Int /\ 90 \in Int
    OBVIOUS
  <2>2. IsFiniteSet(1 .. 90)
    BY <2>1, FS_Interval, Zenon
  <2>3. Tiers \subseteq 1 .. 90
    BY CodesAssumption, Zenon
  <2>. QED
    BY <2>2, <2>3, Zenon
<1>2. IsFiniteSet(Tiers)
  BY <1>1, FS_Subset
<1>3. Tiers \subseteq Nat /\ Tiers # {} /\ 0 \notin Tiers /\ Product \notin Tiers
  BY CodesAssumption DEF Product
<1>4. Cardinality(Ids) \in Nat /\ IsFiniteSet(Ids)
  BY CodesAssumption, FS_CardinalityType
<1>5. Ids \subseteq Nat \ {0}
  <2>. DEFINE n == Cardinality(Ids)
  <2>1. n \in Nat /\ Ids = 1 .. n
    BY <1>4, CodesAssumption
  <2>. HIDE DEF n
  <2>. QED
    BY <2>1
<1>. QED
  BY <1>2, <1>3, <1>4, <1>5, MaxIn, MinIn

\* Counts of directs are numbers, and so are sets.
LEMMA CountType == \A t : Count(t) \in 0 .. Cardinality(Members)
<1>1. ASSUME NEW t
      PROVE  Count(t) \in 0 .. Cardinality(Members)
  <2>. DEFINE S == {m \in Members : account[m] = [tier |-> t, state |-> "paid"]}
              c == Cardinality(S)
              n == Cardinality(Members)
  <2>1. S \subseteq Members /\ IsFiniteSet(Members)
    BY CodesAssumption
  <2>2. c \in Nat /\ n \in Nat /\ c <= n
    <3>. HIDE DEF S
    <3>. QED
      BY <2>1, FS_Subset, FS_CardinalityType
  <2>3. Count(t) = c
    BY DEF Count
  <2>. HIDE DEF c, n
  <2>4. c \in 0 .. n
    BY <2>2
  <2>. QED
    BY <2>3, <2>4 DEF n
<1>. QED
  BY <1>1

\* Division by the size of a set is monotone.
LEMMA DivideGrows ==
    ASSUME NEW a \in Nat, NEW b \in Nat, a <= b, NEW k \in Nat \ {0}
    PROVE  a \div k \in Nat /\ a \div k <= b \div k
OBVIOUS

\* More directs complete no fewer sets.
LEMMA SetsGrow ==
    ASSUME NEW s \in SUBSET Members, NEW t \in SUBSET s
    PROVE  Sets(s) \in Nat /\ Sets(t) \in Nat /\ Sets(t) <= Sets(s)
<1>. DEFINE a == Cardinality(t)
            b == Cardinality(s)
<1>1. IsFiniteSet(s) /\ SetSize \in Nat \ {0}
  BY CodesAssumption, FS_Subset
<1>2. a \in Nat /\ b \in Nat /\ a <= b
  BY <1>1, FS_Subset, FS_CardinalityType
<1>. HIDE DEF a, b
<1>3. b <= b
  BY <1>2
<1>4. a \div SetSize \in Nat /\ b \div SetSize \in Nat /\ a \div SetSize <= b \div SetSize
  BY <1>1, <1>2, <1>3, DivideGrows
<1>. QED
  BY <1>4 DEF Sets, a, b
-----------------------------------------------------------------------------
(***************************************************************************)
(* The types, and the locks.                                               *)
(***************************************************************************)

\* The types of the variables that belong together.
CodesOK == codes \in [Ids -> CodeRow \cup {NoCode}]
UsedOK  == used \subseteq [code : Ids, by : Members, as : {"join", "upgrade", "maintain"}]
PeakOK  == peak \in [Tiers -> 0 .. Cardinality(Members)]

RestOK ==
    /\ account \in [Members -> [tier : Tiers \cup {Product, 0}, state : {"none", "paid", "FS", "CD"}]]
    /\ \A m \in Members : account[m].tier = 0 <=> account[m].state = "none"
    /\ high \in [Tiers -> 0 .. Cardinality(Members)]
    /\ bought \subseteq Members /\ redeemed \in Nat
    /\ missed \in BOOLEAN /\ earned \in Nat /\ spent \in Nat /\ month \in 0 .. MaxMonths

ProcOK ==
    /\ op \in [Procs -> Request \cup {Idle}] /\ requests \in 0 .. MaxRequests
    /\ seen = [p \in Procs |-> seen[p]]
    /\ \A p \in Procs : Fits(op[p], seen[p])

Types == CodesOK /\ RestOK /\ UsedOK /\ PeakOK /\ ProcOK

\* A request by its kind.
LEMMA RequestKinds ==
    ASSUME NEW o \in Request \cup {Idle}
    PROVE  /\ o.kind \in CodeOps \cup {"generate", "redeem", "none"}
           /\ o.kind = "none" <=> o = Idle
           /\ o.kind = "generate" => o.key \in Keys
           /\ o.kind \in CodeOps => o.code \in Ids /\ o.by \in Members /\ o.to \in Members
BY DEF Request, Idle, CodeOps

\* A connection turns to request o, or to none, having read r.
LEMMA TurnKeeps ==
    ASSUME ProcOK, LocksApart, NEW p \in Procs, NEW o \in Request \cup {Idle}, NEW r,
           Fits(o, r), Free(o, p), requests' \in 0 .. MaxRequests,
           op' = [op EXCEPT ![p] = o], seen' = [seen EXCEPT ![p] = r]
    PROVE  ProcOK' /\ LocksApart'
<1>1. /\ op' \in [Procs -> Request \cup {Idle}]
      /\ \A q \in Procs : op'[q] = IF q = p THEN o ELSE op[q]
  BY DEF ProcOK
<1>2. /\ seen' = [q \in Procs |-> seen'[q]]
      /\ \A q \in Procs : seen'[q] = IF q = p THEN r ELSE seen[q]
  BY DEF ProcOK
<1>3. ASSUME NEW q \in Procs
      PROVE  Fits(op'[q], seen'[q])
  BY <1>1, <1>2 DEF ProcOK
<1>4. ProcOK'
  BY <1>1, <1>2, <1>3 DEF ProcOK, Fits, Generating, Redeeming, OnCode
<1>5. ASSUME NEW q \in Procs, NEW w \in Procs, q # w
      PROVE  Locks(op'[q]) \cap Locks(op'[w]) = {}
  <2>1. CASE q = p
    BY <1>1, <1>5, <2>1 DEF Free
  <2>2. CASE w = p
    BY <1>1, <1>5, <2>2 DEF Free
  <2>3. CASE q # p /\ w # p
    BY <1>1, <1>5, <2>3 DEF LocksApart
  <2>. QED
    BY <2>1, <2>2, <2>3
<1>6. LocksApart'
  BY <1>5 DEF LocksApart, Locks
<1>. QED
  BY <1>4, <1>6

\* A connection that stays with its request keeps its locks.
LEMMA StayFree ==
    ASSUME LocksApart, NEW p \in Procs
    PROVE  Free(op[p], p) /\ Free(Idle, p)
BY DEF LocksApart, Free, Locks, Idle

\* The end of a request keeps types and locks.
LEMMA DoneKeeps ==
    ASSUME ProcOK, LocksApart, NEW p \in Procs, Done(p)
    PROVE  ProcOK' /\ LocksApart'
<1>1. Fits(Idle, Unread) /\ Free(Idle, p)
  BY StayFree DEF Fits, Idle, CodeOps
<1>2. requests' \in 0 .. MaxRequests
  BY DEF Done, ProcOK
<1>. QED
  BY <1>1, <1>2, TurnKeeps DEF Done, Saw

\* A request goes on, having read r.
LEMMA SawKeeps ==
    ASSUME ProcOK, LocksApart, NEW p \in Procs, NEW r, Fits(op[p], r), Saw(p, r), UNCHANGED <<op, requests>>
    PROVE  ProcOK' /\ LocksApart'
<1>1. Free(op[p], p) /\ op[p] \in Request \cup {Idle}
  BY StayFree DEF ProcOK
<1>2. requests' \in 0 .. MaxRequests /\ op' = [op EXCEPT ![p] = op[p]]
  BY DEF ProcOK
<1>. QED
  BY <1>1, <1>2, TurnKeeps DEF Saw

\* A request begins.
LEMMA BeginKeeps ==
    ASSUME ProcOK, LocksApart, NEW p \in Procs, NEW o \in Request, Begin(p, o), o.kind \in {"generate", "redeem"}
    PROVE  ProcOK' /\ LocksApart'
<1>1. Fits(o, Unread) /\ Free(o, p)
  BY DEF Fits, Begin, Generating, Redeeming, CodeOps
<1>2. requests' \in 0 .. MaxRequests
  BY CodesAssumption DEF Begin, ProcOK
<1>. QED
  BY <1>1, <1>2, TurnKeeps DEF Begin

\* The strings of the codes, and the last id.
LEMMA ExistFacts ==
    /\ IsFiniteSet({StringOf(codes[i]) : i \in Exist})
    /\ MaxId \in Nat /\ \A i \in Exist : i <= MaxId
    /\ Exist \subseteq Ids
<1>1. IsFiniteSet(Exist) /\ Exist \subseteq Ids /\ Exist \cup {0} \subseteq Nat
  <2>1. Exist \subseteq Ids
    BY DEF Exist
  <2>2. Ids \subseteq Nat /\ IsFiniteSet(Ids)
    BY IdsFacts
  <2>3. IsFiniteSet(Exist)
    BY <2>1, <2>2, FS_Subset
  <2>. QED
    BY <2>1, <2>2, <2>3
<1>2. IsFiniteSet(Exist \cup {0}) /\ Exist \cup {0} # {}
  BY <1>1, FS_AddElement
<1>3. MaxId \in Exist \cup {0} /\ \A i \in Exist \cup {0} : i <= MaxId
  BY <1>1, <1>2, MaxIn DEF MaxId
<1>4. IsFiniteSet({StringOf(codes[i]) : i \in Exist})
  <2>. DEFINE T == {StringOf(codes[i]) : i \in Exist}
              f == [i \in Exist |-> StringOf(codes[i])]
  <2>1. f \in Surjection(Exist, T)
    BY DEF Surjection
  <2>. QED
    BY <1>1, <2>1, FS_Surjection
<1>. QED
  BY <1>1, <1>3, <1>4

\* The shapes of the steps: most end a request, some go on with it.
Ends(p) ==
    \/ ReleaseLock(p) \/ Release(p) \/ Give(p) \/ Issue(p) \/ Transfer(p)
    \/ Join(p) \/ Upgrade(p) \/ Maintain(p) \/ InsertRedeem(p) \/ Abort(p)

\* These steps all end the request.
LEMMA EndsDone == ASSUME NEW p, Ends(p) PROVE Done(p)
BY DEF Ends, ReleaseLock, Release, Give, Issue, Transfer, Join, Upgrade, Maintain, InsertRedeem, Abort, Use

\* Every step keeps the types of requests, and the locks apart.
LEMMA ProcStep ==
    ASSUME Types, LocksApart, Step
    PROVE  ProcOK' /\ LocksApart'
<1>0. ProcOK
  BY DEF Types
<1>1. ASSUME NEW p \in Procs, Ends(p)
      PROVE  ProcOK' /\ LocksApart'
  BY <1>0, <1>1, EndsDone, DoneKeeps
<1>2. ASSUME NEW p \in Procs, Generate(p)
      PROVE  ProcOK' /\ LocksApart'
  <2>1. PICK k \in Keys : Begin(p, [kind |-> "generate", key |-> k])
    BY <1>2 DEF Generate
  <2>2. [kind |-> "generate", key |-> k] \in Request
    BY DEF Request
  <2>. QED
    BY <1>0, <2>1, <2>2, BeginKeeps
<1>3. ASSUME NEW p \in Procs, Redeem(p)
      PROVE  ProcOK' /\ LocksApart'
  <2>1. [kind |-> "redeem"] \in Request
    BY DEF Request
  <2>. QED
    BY <1>0, <1>3, <2>1, BeginKeeps DEF Redeem
<1>4. ASSUME NEW p \in Procs, ReadBatch(p)
      PROVE  ProcOK' /\ LocksApart'
  <2>. DEFINE r == [stage |-> "read", next |-> MaxId, strings |-> {StringOf(codes[i]) : i \in Exist}]
  <2>1. op[p].kind = "generate" /\ Saw(p, r) /\ UNCHANGED <<op, requests>>
    BY <1>4 DEF ReadBatch
  <2>2. Generating(r)
    BY ExistFacts DEF Generating
  <2>. HIDE DEF r
  <2>3. Fits(op[p], r)
    BY <2>1, <2>2 DEF Fits, CodeOps
  <2>. QED
    BY <1>0, <2>1, <2>3, SawKeeps
<1>5. ASSUME NEW p \in Procs, InsertCodes(p)
      PROVE  ProcOK' /\ LocksApart'
  <2>1. op[p].kind = "generate" /\ Saw(p, [stage |-> "committed"]) /\ UNCHANGED <<op, requests>>
    BY <1>5 DEF InsertCodes
  <2>2. Fits(op[p], [stage |-> "committed"])
    BY <2>1 DEF Fits, Generating, CodeOps
  <2>. QED
    BY <1>0, <2>1, <2>2, SawKeeps
<1>6. ASSUME NEW p \in Procs, Observe(p)
      PROVE  ProcOK' /\ LocksApart'
  <2>1. op[p].kind = "upgrade" /\ Saw(p, [seen[p] EXCEPT !.stage = "observed"]) /\ UNCHANGED <<op, requests>>
    BY <1>6 DEF Observe, Writes
  <2>2. OnCode(seen[p])
    BY <1>0, <2>1 DEF ProcOK, Fits, CodeOps
  <2>3. OnCode([seen[p] EXCEPT !.stage = "observed"])
    BY <2>2 DEF OnCode
  <2>4. Fits(op[p], [seen[p] EXCEPT !.stage = "observed"])
    BY <2>1, <2>3 DEF Fits
  <2>. QED
    BY <1>0, <2>1, <2>4, SawKeeps
<1>7. ASSUME NEW p \in Procs, ReadClaims(p)
      PROVE  ProcOK' /\ LocksApart'
  <2>. DEFINE r == [stage |-> "read", claims |-> Sets(bought) - redeemed]
  <2>1. op[p].kind = "redeem" /\ Saw(p, r) /\ UNCHANGED <<op, requests>> /\ Sets(bought) > redeemed
    BY <1>7 DEF ReadClaims
  <2>2. Redeeming(r)
    <3>1. Sets(bought) \in Nat /\ redeemed \in Nat
      BY SetsGrow DEF Types, RestOK
    <3>. DEFINE n == Sets(bought)
    <3>2. n - redeemed \in Nat
      <4>. HIDE DEF n
      <4>. QED
        BY <2>1, <3>1 DEF n
    <3>. QED
      BY <3>2 DEF Redeeming
  <2>. HIDE DEF r
  <2>3. Fits(op[p], r)
    BY <2>1, <2>2 DEF Fits, CodeOps
  <2>. QED
    BY <1>0, <2>1, <2>3, SawKeeps
<1>8. ASSUME NEW p \in Procs, ReadCode(p)
      PROVE  ProcOK' /\ LocksApart'
  <2>1. PICK k \in CodeOps, c \in Exist, by \in Members, to \in Members :
           LET o == [kind |-> k, code |-> c, by |-> by, to |-> to] IN
           /\ op[p] = Idle /\ requests < MaxRequests
           /\ Free(o, p) /\ Valid(o, codes[c])
           /\ op' = [op EXCEPT ![p] = o]
           /\ Saw(p, [stage |-> "read", code |-> codes[c]])
           /\ requests' = requests + 1
    BY <1>8 DEF ReadCode
  <2>. DEFINE o == [kind |-> k, code |-> c, by |-> by, to |-> to]
              r == [stage |-> "read", code |-> codes[c]]
  <2>2. o \in Request /\ o.kind = k
    BY ExistFacts DEF Request
  <2>3. codes[c] \in CodeRow
    BY DEF Types, CodesOK, Exist, NoCode
  <2>4. OnCode(r)
    BY <2>3 DEF OnCode
  <2>5. Free(o, p) /\ op' = [op EXCEPT ![p] = o] /\ seen' = [seen EXCEPT ![p] = r] /\ requests' = requests + 1
    BY <2>1 DEF Saw
  <2>6. requests' \in 0 .. MaxRequests
    BY <1>0, <2>1, CodesAssumption DEF ProcOK
  <2>. HIDE DEF o, r
  <2>7. Fits(o, r)
    BY <2>2, <2>4 DEF Fits, CodeOps
  <2>. QED
    BY <1>0, <2>2, <2>5, <2>6, <2>7, TurnKeeps
<1>9. ASSUME UNCHANGED <<op, seen, requests>>
      PROVE  ProcOK' /\ LocksApart'
  BY <1>0, <1>9 DEF ProcOK, LocksApart, Fits, Generating, Redeeming, OnCode, Locks
<1>. QED
  BY <1>1, <1>2, <1>3, <1>4, <1>5, <1>6, <1>7, <1>8, <1>9 DEF Step, Ends, Credit, NextMonth, Settle

\* Every step but an insertion leaves the string, the batch and the being of
\* every code.
Stay == \A i \in Ids :
    /\ codes[i].num = codes'[i].num /\ codes[i].product = codes'[i].product
    /\ codes[i].type = codes'[i].type /\ codes[i].key = codes'[i].key
    /\ codes[i].status = "none" <=> codes'[i].status = "none"

\* A step on a code c writes the row r.
Rewrites(p, r) ==
    /\ op[p].kind \in CodeOps
    /\ codes' = [codes EXCEPT ![op[p].code] = r]
    /\ r.num = CodeOf(p).num /\ r.product = CodeOf(p).product
    /\ r.type = CodeOf(p).type /\ r.key = CodeOf(p).key
    /\ r.status = CodeOf(p).status \/ (CodeOf(p).status # "none" /\ r.status \in {"released", "used"})
    /\ r = CodeOf(p) \/ (r \in CodeRow /\ CodeOf(p).status \in Unused)

\* Such a step keeps the types, the strings and the being of codes.
LEMMA RewriteKeeps ==
    ASSUME CodesOK, ProcOK, NEW p \in Procs, NEW r, Rewrites(p, r)
    PROVE  CodesOK' /\ Stay
<1>1. op[p].code \in Ids
  BY RequestKinds DEF Rewrites, ProcOK
<1>2. codes' \in [Ids -> CodeRow \cup {NoCode}]
  BY <1>1 DEF Rewrites, CodesOK, CodeOf
<1>3. ASSUME NEW i \in Ids
      PROVE  /\ codes[i].num = codes'[i].num /\ codes[i].product = codes'[i].product
             /\ codes[i].type = codes'[i].type /\ codes[i].key = codes'[i].key
             /\ codes[i].status = "none" <=> codes'[i].status = "none"
  BY <1>1 DEF Rewrites, CodesOK, CodeOf
<1>. QED
  BY <1>2, <1>3 DEF CodesOK, Stay, CodeRow

\* The row that each step writes.
LEMMA WhatIsWritten ==
    ASSUME Types, NEW p \in Procs,
           Release(p) \/ Give(p) \/ Issue(p) \/ Transfer(p) \/ Join(p) \/ Upgrade(p) \/ Maintain(p)
    PROVE  \E r : Rewrites(p, r)
<1>0. op[p].kind \in CodeOps => /\ op[p].code \in Ids /\ op[p].by \in Members /\ op[p].to \in Members
                                /\ CodeOf(p) \in CodeRow \cup {NoCode}
  BY RequestKinds DEF Types, ProcOK, CodesOK, CodeOf
<1>1. CASE Release(p)
  <2>. DEFINE r == [CodeOf(p) EXCEPT !.status = "released"]
  <2>1. op[p].kind = "release" /\ CodeOf(p).status = "generated" /\ codes' = [codes EXCEPT ![op[p].code] = r]
    BY <1>1 DEF Release, Writes, SetCode
  <2>2. CodeOf(p) \in CodeRow
    BY <1>0, <2>1 DEF NoCode, CodeOps
  <2>3. Rewrites(p, r)
    BY <2>1, <2>2 DEF Rewrites, CodeRow, Unused, CodeOps
  <2>. QED
    BY <2>3
<1>2. CASE Give(p) \/ Transfer(p)
  <2>. DEFINE r == [CodeOf(p) EXCEPT !.holder = op[p].to]
  <2>1. op[p].kind \in {"give", "transfer"} /\ CodeOf(p).status \in Unused /\ codes' = [codes EXCEPT ![op[p].code] = r]
    BY <1>2 DEF Give, Transfer, Writes, SetCode, Unused
  <2>2. CodeOf(p) \in CodeRow /\ op[p].to \in Members
    BY <1>0, <2>1 DEF NoCode, CodeOps, Unused
  <2>3. Rewrites(p, r)
    BY <2>1, <2>2 DEF Rewrites, CodeRow, CodeOps
  <2>. QED
    BY <2>3
<1>3. CASE Issue(p)
  <2>. DEFINE c == IF seen[p].code.status = "generated" /\ CodeOf(p).status = "generated"
                   THEN [CodeOf(p) EXCEPT !.status = "released"] ELSE CodeOf(p)
              r == IF c.status = "released" THEN [c EXCEPT !.holder = op[p].to] ELSE c
  <2>1. op[p].kind = "issue" /\ codes' = [codes EXCEPT ![op[p].code] = r]
    BY <1>3 DEF Issue, Writes, SetCode
  <2>2. op[p].to \in Members /\ CodeOf(p) \in CodeRow \cup {NoCode}
    BY <1>0, <2>1 DEF CodeOps
  <2>3. CASE CodeOf(p).status \in Unused
    <3>1. CodeOf(p) \in CodeRow
      BY <2>2, <2>3 DEF NoCode, Unused
    <3>2. c \in CodeRow /\ c.num = CodeOf(p).num /\ c.product = CodeOf(p).product
          /\ c.type = CodeOf(p).type /\ c.key = CodeOf(p).key /\ c.status \in {CodeOf(p).status, "released"}
      BY <3>1 DEF CodeRow
    <3>. HIDE DEF c
    <3>3. r \in CodeRow /\ r.num = c.num /\ r.product = c.product
          /\ r.type = c.type /\ r.key = c.key /\ r.status = c.status
      BY <2>2, <3>2 DEF CodeRow
    <3>. HIDE DEF r
    <3>4. Rewrites(p, r)
      BY <2>1, <2>3, <3>2, <3>3 DEF Rewrites, CodeOps, Unused
    <3>. QED
      BY <3>4
  <2>4. CASE CodeOf(p).status \notin Unused
    <3>1. r = CodeOf(p)
      BY <2>4 DEF Unused
    <3>. HIDE DEF r, c
    <3>2. Rewrites(p, r)
      BY <2>1, <3>1 DEF Rewrites, CodeOps
    <3>. QED
      BY <3>2
  <2>. QED
    BY <2>3, <2>4
<1>4. CASE Join(p) \/ Upgrade(p) \/ Maintain(p)
  <2>. DEFINE r == [CodeOf(p) EXCEPT !.status = "used"]
  <2>1. op[p].kind \in {"join", "upgrade", "maintain"} /\ CodeOf(p).status = "released"
        /\ codes' = [codes EXCEPT ![op[p].code] = r]
    BY <1>4 DEF Join, Upgrade, Maintain, Use, Writes, SetCode
  <2>2. CodeOf(p) \in CodeRow
    BY <1>0, <2>1 DEF NoCode, CodeOps
  <2>3. Rewrites(p, r)
    BY <2>1, <2>2 DEF Rewrites, CodeRow, Unused, CodeOps
  <2>. QED
    BY <2>3
<1>. QED
  BY <1>1, <1>2, <1>3, <1>4

\* An insertion makes codes CodeRow of ids that were free, with fresh numbers.
Inserts(p) ==
    LET k == op[p].key
        n == MaxId
    IN  /\ k \in Keys /\ Generating(seen[p]) /\ seen[p].stage = "read"
        /\ n + Batch[k].count \in Ids
        /\ \A i \in Ids :
              codes'[i] = IF i - n \notin 1 .. Batch[k].count THEN codes[i]
                          ELSE [NoCode EXCEPT !.num = Fresh(seen[p].strings, k, seen[p].next, i - n),
                                  !.product = Batch[k].product, !.type = Batch[k].type, !.status = "generated", !.key = k]

\* The insertion of codes in these terms.
LEMMA InsertDoes ==
    ASSUME Types, NEW p \in Procs, InsertCodes(p)
    PROVE  Inserts(p) /\ codes' = [i \in Ids |-> codes'[i]]
<1>1. op[p].kind = "generate" /\ seen[p].stage = "read"
  BY DEF InsertCodes
<1>2. op[p].key \in Keys /\ Generating(seen[p])
  BY <1>1, RequestKinds DEF Types, ProcOK, Fits
<1>. QED
  BY <1>1, <1>2 DEF InsertCodes, Inserts

\* Every other step stays with the codes there are.
LEMMA OthersStay ==
    ASSUME Types, Step, ~\E p \in Procs : InsertCodes(p)
    PROVE  CodesOK' /\ Stay
<1>0. CodesOK /\ ProcOK
  BY DEF Types
<1>1. ASSUME NEW p \in Procs,
             Release(p) \/ Give(p) \/ Issue(p) \/ Transfer(p) \/ Join(p) \/ Upgrade(p) \/ Maintain(p)
      PROVE  CodesOK' /\ Stay
  <2>1. PICK r : Rewrites(p, r)
    BY <1>1, WhatIsWritten
  <2>. QED
    BY <1>0, <2>1, RewriteKeeps
<1>2. ASSUME UNCHANGED codes
      PROVE  CodesOK' /\ Stay
  BY <1>0, <1>2 DEF CodesOK, Stay, CodeRow
<1>3. ASSUME NEW p \in Procs,
             \/ Generate(p) \/ ReadBatch(p) \/ ReleaseLock(p) \/ ReadCode(p) \/ Observe(p)
             \/ Redeem(p) \/ ReadClaims(p) \/ InsertRedeem(p) \/ Abort(p)
      PROVE  UNCHANGED codes
  BY <1>3 DEF Generate, ReadBatch, ReleaseLock, ReadCode, Observe, Redeem, ReadClaims, InsertRedeem, Abort, rows
<1>4. (Credit \/ NextMonth \/ \E m \in Members : Settle(m)) => UNCHANGED codes
  BY DEF Credit, NextMonth, Settle
<1>. QED
  BY <1>1, <1>2, <1>3, <1>4 DEF Step
-----------------------------------------------------------------------------
(***************************************************************************)
(* The numbers of a batch are fresh and differ.                            *)
(***************************************************************************)

UpTo(F, x) == {y \in F : y <= x}

\* What is below a number is part of the set.
LEMMA UpToFacts ==
    ASSUME NEW F, IsFiniteSet(F), F \subseteq Nat
    PROVE  \A x : /\ UpTo(F, x) \subseteq F /\ IsFiniteSet(UpTo(F, x))
                  /\ Cardinality(UpTo(F, x)) \in Nat /\ Cardinality(UpTo(F, x)) <= Cardinality(F)
<1>1. ASSUME NEW x
      PROVE  /\ UpTo(F, x) \subseteq F /\ IsFiniteSet(UpTo(F, x))
             /\ Cardinality(UpTo(F, x)) \in Nat /\ Cardinality(UpTo(F, x)) <= Cardinality(F)
  <2>1. UpTo(F, x) \subseteq F
    BY DEF UpTo
  <2>. QED
    BY <2>1, FS_Subset, FS_CardinalityType
<1>. QED
  BY <1>1

\* Each position of a finite set of numbers is taken by one of them.
LEMMA Ranked ==
    ASSUME NEW F, IsFiniteSet(F), F \subseteq Nat, NEW i \in Nat, 1 <= i, i <= Cardinality(F)
    PROVE  \E x \in F : Cardinality(UpTo(F, x)) = i
<1>. DEFINE c(x) == Cardinality(UpTo(F, x))
            D == {x \in F : c(x) >= i}
<1>1. \A x : c(x) \in Nat /\ IsFiniteSet(UpTo(F, x))
  BY UpToFacts
<1>2. IsFiniteSet(D) /\ D \subseteq F /\ \A x : x \in D <=> x \in F /\ c(x) >= i
  <2>1. D \subseteq F
    OBVIOUS
  <2>. QED
    BY <2>1, FS_Subset
<1>3. D # {}
  <2>1. F # {}
    BY FS_EmptySet
  <2>2. PICK m \in F : \A n \in F : n <= m
    BY <2>1, Largest
  <2>3. UpTo(F, m) = F
    BY <2>2 DEF UpTo
  <2>. QED
    BY <2>3
<1>4. D \subseteq Nat
  BY <1>2
<1>5. PICK x \in D : \A n \in D : x <= n
  BY <1>2, <1>3, <1>4, Smallest
<1>6. x \in F /\ x \in Nat /\ c(x) >= i
  BY <1>5, <1>2
<1>7. ASSUME c(x) # i
      PROVE  FALSE
  <2>. DEFINE B == UpTo(F, x) \ {x}
  <2>1. x \in UpTo(F, x) /\ B \subseteq F /\ B \subseteq Nat /\ \A y : y \in B <=> y \in F /\ y <= x /\ y # x
    <3>1. x <= x /\ x \in UpTo(F, x)
      BY <1>6 DEF UpTo
    <3>2. \A y : y \in UpTo(F, x) <=> y \in F /\ y <= x
      BY DEF UpTo
    <3>. QED
      BY <3>1, <3>2
  <2>2. IsFiniteSet(B) /\ Cardinality(B) = c(x) - 1
    BY <1>1, <2>1, FS_RemoveElement
  <2>. DEFINE b == Cardinality(B)
  <2>3. b \in Nat /\ b >= i
    <3>1. b \in Nat
      BY <2>2, FS_CardinalityType
    <3>2. c(x) \in Nat /\ c(x) >= i /\ c(x) # i /\ b = c(x) - 1
      BY <1>1, <1>6, <1>7, <2>2
    <3>. HIDE DEF b, c
    <3>. QED
      BY <3>1, <3>2
  <2>. HIDE DEF B
  <2>4. B # {}
    BY <2>2, <2>3, FS_EmptySet
  <2>5. PICK z \in B : \A n \in B : n <= z
    BY <2>1, <2>2, <2>4, Largest
  <2>6. z \in F /\ z \in Nat /\ z <= x /\ z # x
    BY <2>1, <2>5
  <2>7. UpTo(F, z) = B
    <3>1. ASSUME NEW y \in UpTo(F, z)
          PROVE  y \in B
      BY <1>6, <2>1, <2>6, <3>1 DEF UpTo
    <3>2. ASSUME NEW y \in B
          PROVE  y \in UpTo(F, z)
      BY <2>1, <2>5, <3>2 DEF UpTo
    <3>. QED
      BY <3>1, <3>2
  <2>8. z \in D
    BY <1>2, <2>3, <2>6, <2>7
  <2>. QED
    BY <1>5, <1>6, <2>6, <2>8
<1>. QED
  BY <1>6, <1>7

\* The string of number x in a batch, and the numbers a batch can choose from.
BatchString(k, x) == StringOf([product |-> Batch[k].product, type |-> Batch[k].type, num |-> x])
Open(s, k, n, i) == {x \in n .. (n + Cardinality(s) + i) : BatchString(k, x) \notin s}

\* In a batch the number makes the string.
LEMMA StringsDiffer ==
    ASSUME NEW k, NEW x, NEW y, BatchString(k, x) = BatchString(k, y)
    PROVE  x = y
BY DEF BatchString, StringOf

\* There are enough of them: no two numbers give one string.
LEMMA OpenEnough ==
    ASSUME NEW s, IsFiniteSet(s), NEW k, NEW n \in Nat, NEW i \in Nat
    PROVE  /\ IsFiniteSet(Open(s, k, n, i)) /\ Open(s, k, n, i) \subseteq Nat
           /\ i <= Cardinality(Open(s, k, n, i))
<1>. DEFINE m == n + Cardinality(s) + i
            I == n .. m
            F == Open(s, k, n, i)
            T == {x \in I : BatchString(k, x) \in s}
            f == [x \in T |-> BatchString(k, x)]
<1>0. Cardinality(s) \in Nat
  BY FS_CardinalityType
<1>1. m \in Nat /\ n <= m
  <2>. DEFINE c == Cardinality(s)
  <2>1. c \in Nat
    BY <1>0
  <2>. HIDE DEF c
  <2>. QED
    BY <2>1 DEF c
<1>2. IsFiniteSet(I) /\ Cardinality(I) = m - n + 1 /\ I \subseteq Nat
  <2>1. m \in Int /\ n \in Int /\ ~(n > m)
    BY <1>1
  <2>. HIDE DEF m
  <2>2. IsFiniteSet(I) /\ Cardinality(I) = IF n > m THEN 0 ELSE m - n + 1
    BY <2>1, FS_Interval
  <2>. QED
    BY <2>1, <2>2
<1>3. f \in Injection(T, s)
  <2>1. f \in [T -> s]
    OBVIOUS
  <2>2. \A x, y \in T : f[x] = f[y] => x = y
    BY StringsDiffer
  <2>. QED
    BY <2>1, <2>2 DEF Injection, IsInjective
<1>4. Cardinality(T) <= Cardinality(s) /\ Cardinality(T) \in Nat
  <2>1. IsFiniteSet(T) /\ Cardinality(T) <= Cardinality(s)
    BY <1>3, FS_Injection
  <2>. QED
    BY <2>1, FS_CardinalityType
<1>5. F = I \ T /\ I \cap T = T /\ F \subseteq I
  BY DEF Open
<1>. HIDE DEF I, T, F, f
<1>6. IsFiniteSet(F) /\ Cardinality(F) = Cardinality(I) - Cardinality(T)
  <2>1. IsFiniteSet(I \ T) /\ Cardinality(I \ T) = Cardinality(I) - Cardinality(I \cap T)
    BY <1>2, FS_Difference
  <2>. QED
    BY <1>5, <2>1
<1>7. i <= Cardinality(F)
  <2>. DEFINE a == Cardinality(T)
              b == Cardinality(s)
              g == Cardinality(F)
  <2>1. a \in Nat /\ b \in Nat /\ a <= b
    BY <1>0, <1>4
  <2>2. g = m - n + 1 - a /\ m = n + b + i
    <3>1. Cardinality(I) = m - n + 1 /\ Cardinality(F) = Cardinality(I) - Cardinality(T)
      BY <1>2, <1>6
    <3>2. m = n + b + i
      OBVIOUS
    <3>3. g = Cardinality(I) - a
      BY <3>1
    <3>. HIDE DEF m, b, g, a
    <3>. QED
      BY <1>1, <2>1, <3>1, <3>2, <3>3
  <2>. HIDE DEF a, b, g, m
  <2>3. i <= g
    BY <2>1, <2>2
  <2>. QED
    BY <2>3 DEF g
<1>. QED
  BY <1>2, <1>5, <1>6, <1>7 DEF F

\* The i-th number: its string is new.
LEMMA FreshIs ==
    ASSUME NEW s, IsFiniteSet(s), NEW k, NEW n \in Nat, NEW i \in Nat \ {0}
    PROVE  /\ Fresh(s, k, n, i) \in Open(s, k, n, i)
           /\ Cardinality(UpTo(Open(s, k, n, i), Fresh(s, k, n, i))) = i
<1>. DEFINE F == Open(s, k, n, i)
<1>1. \E x \in F : Cardinality(UpTo(F, x)) = i
  <2>1. IsFiniteSet(F) /\ F \subseteq Nat /\ i <= Cardinality(F) /\ 1 <= i /\ i \in Nat
    BY OpenEnough
  <2>. HIDE DEF F
  <2>. QED
    BY <2>1, Ranked
<1>2. Fresh(s, k, n, i) = CHOOSE x \in F : Cardinality(UpTo(F, x)) = i
  BY DEF Fresh, Open, UpTo, BatchString
<1>. HIDE DEF F
<1>3. Fresh(s, k, n, i) \in F /\ Cardinality(UpTo(F, Fresh(s, k, n, i))) = i
  BY <1>1, <1>2
<1>. QED
  BY <1>3 DEF F

\* No code that the generator read has the string of a fresh number.
LEMMA FreshNew ==
    ASSUME NEW s, IsFiniteSet(s), NEW k, NEW n \in Nat, NEW i \in Nat \ {0}
    PROVE  Fresh(s, k, n, i) \in Nat /\ BatchString(k, Fresh(s, k, n, i)) \notin s
<1>1. Fresh(s, k, n, i) \in Open(s, k, n, i) /\ Open(s, k, n, i) \subseteq Nat
  BY FreshIs, OpenEnough
<1>. QED
  BY <1>1 DEF Open

\* Up to a number that both can choose, two positions choose from the same.
LEMMA SameBelow ==
    ASSUME NEW s, IsFiniteSet(s), NEW k, NEW n \in Nat, NEW i \in Nat, NEW j \in Nat,
           NEW x, x \in Open(s, k, n, i), x \in Open(s, k, n, j)
    PROVE  UpTo(Open(s, k, n, i), x) = UpTo(Open(s, k, n, j), x)
<1>. DEFINE c == Cardinality(s)
<1>1. c \in Nat
  BY FS_CardinalityType
<1>2. x \in Int /\ n <= x /\ x <= n + c + i /\ x <= n + c + j
  BY <1>1 DEF Open
<1>. HIDE DEF c
<1>3. \A y \in Int : y <= x => y <= n + c + i /\ y <= n + c + j
  BY <1>1, <1>2
<1>4. \A y : y \in Open(s, k, n, i) <=> y \in Int /\ n <= y /\ y <= n + c + i /\ BatchString(k, y) \notin s
  BY <1>1 DEF Open, c
<1>5. \A y : y \in Open(s, k, n, j) <=> y \in Int /\ n <= y /\ y <= n + c + j /\ BatchString(k, y) \notin s
  BY <1>1 DEF Open, c
<1>6. \A y : y \in UpTo(Open(s, k, n, i), x) <=> y \in Open(s, k, n, i) /\ y <= x
  BY DEF UpTo
<1>7. \A y : y \in UpTo(Open(s, k, n, j), x) <=> y \in Open(s, k, n, j) /\ y <= x
  BY DEF UpTo
<1>8. ASSUME NEW y
      PROVE  y \in UpTo(Open(s, k, n, i), x) <=> y \in UpTo(Open(s, k, n, j), x)
  BY <1>3, <1>4, <1>5, <1>6, <1>7
<1>. QED
  BY <1>8

\* Two positions of a batch get two numbers.
LEMMA FreshDiffer ==
    ASSUME NEW s, IsFiniteSet(s), NEW k, NEW n \in Nat, NEW i \in Nat \ {0}, NEW j \in Nat \ {0},
           Fresh(s, k, n, i) = Fresh(s, k, n, j)
    PROVE  i = j
<1>1. /\ Fresh(s, k, n, i) \in Open(s, k, n, i)
      /\ Cardinality(UpTo(Open(s, k, n, i), Fresh(s, k, n, i))) = i
  BY FreshIs
<1>2. /\ Fresh(s, k, n, j) \in Open(s, k, n, j)
      /\ Cardinality(UpTo(Open(s, k, n, j), Fresh(s, k, n, j))) = j
  BY FreshIs
<1>3. UpTo(Open(s, k, n, i), Fresh(s, k, n, i)) = UpTo(Open(s, k, n, j), Fresh(s, k, n, j))
  BY <1>1, <1>2, SameBelow
<1>. QED
  BY <1>1, <1>2, <1>3
-----------------------------------------------------------------------------
(***************************************************************************)
(* The types of the tables.                                                *)
(***************************************************************************)

\* Every batch asks for codes of a package or of the product.
LEMMA BatchFacts ==
    ASSUME NEW k \in Keys
    PROVE  /\ Batch[k].product \in Tiers \cup {Product} /\ Batch[k].type \in {"PD", "FS", "CD"}
           /\ Batch[k].count \in Nat \ {0} /\ k # "none"
<1>1. Batch[k].count \in 1 .. 500
  BY CodesAssumption
<1>. DEFINE c == Batch[k].count
<1>2. c \in Nat \ {0}
  <2>. HIDE DEF c
  <2>. QED
    BY <1>1 DEF c
<1>. QED
  BY <1>2, CodesAssumption

\* The row of a new code.
Made(k, x) == [NoCode EXCEPT !.num = x, !.product = Batch[k].product, !.type = Batch[k].type,
                             !.status = "generated", !.key = k]

\* The row, the string and the batch of a new code.
LEMMA MadeFacts ==
    ASSUME NEW k \in Keys, NEW x \in Nat
    PROVE  /\ Made(k, x) \in CodeRow /\ StringOf(Made(k, x)) = BatchString(k, x)
           /\ Made(k, x).status = "generated" /\ Made(k, x).key = k
<1>. DEFINE a == Batch[k].product
            b == Batch[k].type
<1>1. Made(k, x) = [num |-> x, product |-> a, type |-> b, status |-> "generated", holder |-> NoOne, key |-> k]
  <2>1. Made(k, x) = [NoCode EXCEPT !.num = x, !.product = a, !.type = b, !.status = "generated", !.key = k]
    BY DEF Made
  <2>. HIDE DEF a, b
  <2>. QED
    BY <2>1 DEF NoCode
<1>. QED
  BY <1>1, BatchFacts DEF CodeRow, StringOf, BatchString

\* After an insertion a code is what it was, or a new one in a place that was
\* free.
New(p, i) == i - MaxId \in 1 .. Batch[op[p].key].count

\* The rows after an insertion.
LEMMA InsertRows ==
    ASSUME Types, NEW p \in Procs, InsertCodes(p)
    PROVE  /\ op[p].key \in Keys /\ CodesOK'
           /\ \A i \in Ids :
                 /\ ~New(p, i) => codes'[i] = codes[i]
                 /\ New(p, i) =>
                       /\ i \notin Exist /\ i - MaxId \in Nat \ {0}
                       /\ Fresh(seen[p].strings, op[p].key, seen[p].next, i - MaxId) \in Nat
                       /\ codes'[i] = Made(op[p].key, Fresh(seen[p].strings, op[p].key, seen[p].next, i - MaxId))
                       /\ codes'[i] \in CodeRow
<1>1. Inserts(p) /\ codes' = [i \in Ids |-> codes'[i]]
  BY InsertDoes
<1>2. /\ op[p].key \in Keys /\ MaxId \in Nat /\ seen[p].next \in Nat /\ IsFiniteSet(seen[p].strings)
      /\ \A i \in Exist : i <= MaxId
  <2>1. op[p].key \in Keys /\ Generating(seen[p]) /\ seen[p].stage = "read"
    BY <1>1 DEF Inserts
  <2>2. seen[p].next \in Nat /\ IsFiniteSet(seen[p].strings)
    BY <2>1 DEF Generating, Unread
  <2>. QED
    BY <2>1, <2>2, ExistFacts
<1>. DEFINE k == op[p].key
            x(i) == Fresh(seen[p].strings, k, seen[p].next, i - MaxId)
<1>3. ASSUME NEW i \in Ids, New(p, i)
      PROVE  /\ i \notin Exist /\ i - MaxId \in Nat \ {0}
             /\ x(i) \in Nat /\ codes'[i] = Made(k, x(i)) /\ codes'[i] \in CodeRow
  <2>1. i \in Nat /\ MaxId \in Nat /\ Batch[k].count \in Nat
    BY <1>2, IdsFacts, BatchFacts
  <2>2. i - MaxId \in Nat \ {0} /\ ~(i <= MaxId)
    <3>. DEFINE m == MaxId
                c == Batch[k].count
    <3>1. i \in Nat /\ m \in Nat /\ c \in Nat /\ i - m \in 1 .. c
      BY <1>3, <2>1 DEF New
    <3>. HIDE DEF m, c
    <3>2. i - m \in Nat \ {0} /\ ~(i <= m)
      BY <3>1
    <3>. QED
      BY <3>2 DEF m
  <2>3. x(i) \in Nat
    BY <1>2, <2>2, FreshNew
  <2>4. codes'[i] = Made(k, x(i))
    BY <1>1, <1>3 DEF Inserts, New, Made
  <2>5. Made(k, x(i)) \in CodeRow
    <3>. HIDE DEF x
    <3>. QED
      BY <1>2, <2>3, MadeFacts
  <2>. QED
    BY <1>2, <2>2, <2>3, <2>4, <2>5
<1>4. ASSUME NEW i \in Ids, ~New(p, i)
      PROVE  codes'[i] = codes[i]
  BY <1>1, <1>4 DEF Inserts, New
<1>5. CodesOK'
  <2>1. ASSUME NEW i \in Ids
        PROVE  codes'[i] \in CodeRow \cup {NoCode}
    BY <1>3, <1>4 DEF Types, CodesOK
  <2>2. codes' \in [Ids -> CodeRow \cup {NoCode}]
    BY <1>1, <2>1
  <2>. QED
    BY <2>2 DEF CodesOK, CodeRow
<1>. QED
  BY <1>2, <1>3, <1>4, <1>5

\* Every step keeps the type of the codes.
LEMMA CodesStep ==
    ASSUME Types, Step
    PROVE  CodesOK'
<1>1. CASE \E p \in Procs : InsertCodes(p)
  BY <1>1, InsertRows
<1>2. CASE ~\E p \in Procs : InsertCodes(p)
  BY <1>2, OthersStay
<1>. QED
  BY <1>1, <1>2

\* What a request on a code has read.
LEMMA CodeRead ==
    ASSUME Types, NEW p \in Procs, op[p].kind \in CodeOps
    PROVE  OnCode(seen[p]) /\ op[p].by \in Members /\ op[p].code \in Ids
BY RequestKinds DEF Types, ProcOK, Fits

\* An account that is set has the package of the code.
LEMMA AccountSet ==
    ASSUME Types, NEW p \in Procs, op[p].kind \in {"join", "upgrade"}, SetAccount(p)
    PROVE  /\ account' \in [Members -> [tier : Tiers \cup {Product, 0}, state : {"none", "paid", "FS", "CD"}]]
           /\ \A m \in Members : account'[m].tier = 0 <=> account'[m].state = "none"
           /\ \A m \in Members \ {op[p].by} : account'[m] = account[m]
<1>. DEFINE a == [tier |-> seen[p].code.product, state |-> PaidBy(seen[p].code.type)]
<1>1. op[p].by \in Members /\ seen[p].code \in CodeRow
  BY CodeRead DEF CodeOps, OnCode
<1>2. a \in [tier : Tiers \cup {Product}, state : {"paid", "FS", "CD"}]
  BY <1>1 DEF CodeRow, PaidBy
<1>3. account' = [account EXCEPT ![op[p].by] = a]
  BY DEF SetAccount
<1>. HIDE DEF a
<1>4. a.tier # 0 /\ a.state # "none" /\ a \in [tier : Tiers \cup {Product, 0}, state : {"none", "paid", "FS", "CD"}]
  BY <1>2, IdsFacts DEF Product
<1>. QED
  BY <1>1, <1>3, <1>4 DEF Types, RestOK

\* What a sponsor is entitled to is a number of directs.
LEMMA CountsType ==
    ASSUME RestOK
    PROVE  [t \in Tiers |-> Entitled(t)] \in [Tiers -> 0 .. Cardinality(Members)]
<1>1. ASSUME NEW t \in Tiers
      PROVE  Entitled(t) \in 0 .. Cardinality(Members)
  <2>. DEFINE n == Cardinality(Members)
              a == Count(t)
              b == high[t]
  <2>1. a \in 0 .. n /\ b \in 0 .. n
    BY CountType DEF RestOK
  <2>2. n \in Nat
    BY CodesAssumption, FS_CardinalityType
  <2>3. Entitled(t) = Max({a, b})
    BY DEF Entitled
  <2>. HIDE DEF a, b, n
  <2>4. Max({a, b}) \in 0 .. n
    BY <2>1, <2>2, LargerOfTwo
  <2>. QED
    BY <2>3, <2>4 DEF n
<1>. QED
  BY <1>1

\* So are the rows that are recorded.
LEMMA RecordType == ASSUME RestOK, Record PROVE high' \in [Tiers -> 0 .. Cardinality(Members)]
BY CountsType DEF Record

\* Every step keeps the types of the other tables.
LEMMA RestStep ==
    ASSUME Types, Step
    PROVE  RestOK'
<1>0. RestOK
  BY DEF Types
<1>1. ASSUME NEW p \in Procs, Join(p) \/ Upgrade(p)
      PROVE  RestOK'
  <2>1. op[p].kind \in {"join", "upgrade"} /\ SetAccount(p) /\ UNCHANGED <<high, bought, redeemed, missed, earned, spent, month>>
    BY <1>1 DEF Join, Upgrade, Writes
  <2>2. /\ account' \in [Members -> [tier : Tiers \cup {Product, 0}, state : {"none", "paid", "FS", "CD"}]]
        /\ \A m \in Members : account'[m].tier = 0 <=> account'[m].state = "none"
    BY <2>1, AccountSet
  <2>. QED
    BY <1>0, <2>1, <2>2 DEF RestOK
<1>2. ASSUME NEW p \in Procs, Observe(p)
      PROVE  RestOK'
  BY <1>0, <1>2, RecordType DEF RestOK, Observe
<1>3. ASSUME Credit
      PROVE  RestOK'
  BY <1>0, <1>3, RecordType DEF RestOK, Credit, past
<1>4. ASSUME NEW p \in Procs, Maintain(p)
      PROVE  RestOK'
  <2>1. op[p].by \in Members
    BY <1>4, CodeRead DEF Maintain, Writes, CodeOps
  <2>2. bought' \in SUBSET Members /\ bought \in SUBSET bought' /\ earned' = earned + Sets(bought') - Sets(bought)
    BY <1>0, <1>4, <2>1 DEF Maintain, RestOK
  <2>. DEFINE a == Sets(bought')
              b == Sets(bought)
  <2>3. a \in Nat /\ b \in Nat /\ b <= a
    BY <2>2, SetsGrow
  <2>4. earned \in Nat /\ earned' = earned + a - b
    BY <1>0, <2>2 DEF RestOK
  <2>5. earned' \in Nat
    <3>. HIDE DEF a, b
    <3>. QED
      BY <2>3, <2>4
  <2>. QED
    BY <1>0, <1>4, <2>2, <2>5 DEF RestOK, Maintain
<1>5. ASSUME NEW m \in Members, Settle(m)
      PROVE  RestOK'
  <2>. DEFINE a == [account[m] EXCEPT !.state = "paid"]
  <2>1. account[m].state = "CD" /\ account' = [account EXCEPT ![m] = a]
    BY <1>5 DEF Settle
  <2>2. /\ a \in [tier : Tiers \cup {Product, 0}, state : {"none", "paid", "FS", "CD"}]
        /\ a.tier = account[m].tier /\ a.state = "paid" /\ account[m].tier # 0
    BY <1>0, <2>1 DEF RestOK
  <2>. HIDE DEF a
  <2>3. /\ account' \in [Members -> [tier : Tiers \cup {Product, 0}, state : {"none", "paid", "FS", "CD"}]]
        /\ \A w \in Members : account'[w].tier = 0 <=> account'[w].state = "none"
    BY <1>0, <2>1, <2>2 DEF RestOK
  <2>. QED
    BY <1>0, <1>5, <2>3 DEF RestOK, Settle, past
<1>6. ASSUME NEW p \in Procs, InsertRedeem(p)
      PROVE  RestOK'
  <2>1. seen[p].claims \in Nat
    BY <1>6 DEF InsertRedeem, Writes, Types, ProcOK, Fits, Redeeming, Unread
  <2>2. redeemed' \in Nat /\ spent' \in Nat
    BY <1>0, <1>6, <2>1 DEF InsertRedeem, RestOK
  <2>. QED
    BY <1>0, <1>6, <2>2 DEF RestOK, InsertRedeem
<1>7. ASSUME NextMonth
      PROVE  RestOK'
  BY <1>0, <1>7, CodesAssumption DEF RestOK, NextMonth
<1>8. ASSUME NEW p \in Procs,
             \/ Generate(p) \/ ReadBatch(p) \/ InsertCodes(p) \/ ReleaseLock(p) \/ ReadCode(p)
             \/ Release(p) \/ Give(p) \/ Issue(p) \/ Transfer(p) \/ Redeem(p) \/ ReadClaims(p) \/ Abort(p)
      PROVE  RestOK'
  <2>1. UNCHANGED <<account, high, bought, redeemed, missed, earned, spent, month>>
    BY <1>8 DEF Generate, ReadBatch, InsertCodes, ReleaseLock, ReadCode, Release, Give, Issue, Transfer,
               Redeem, ReadClaims, Abort, rows, past
  <2>. QED
    BY <1>0, <2>1 DEF RestOK
<1>. QED
  BY <1>1, <1>2, <1>3, <1>4, <1>5, <1>6, <1>7, <1>8 DEF Step

\* And that of the history of uses.
LEMMA UsedStep ==
    ASSUME Types, Step
    PROVE  UsedOK'
<1>0. UsedOK
  BY DEF Types
<1>1. ASSUME NEW p \in Procs, Join(p) \/ Upgrade(p) \/ Maintain(p)
      PROVE  UsedOK'
  <2>1. op[p].kind \in {"join", "upgrade", "maintain"}
        /\ used' = used \cup {[code |-> op[p].code, by |-> op[p].by, as |-> op[p].kind]}
    BY <1>1 DEF Join, Upgrade, Maintain, Use, Writes
  <2>2. op[p].code \in Ids /\ op[p].by \in Members
    BY <2>1, CodeRead DEF CodeOps
  <2>. QED
    BY <1>0, <2>1, <2>2 DEF UsedOK
<1>2. ASSUME UNCHANGED used
      PROVE  UsedOK'
  BY <1>0, <1>2 DEF UsedOK
<1>3. ASSUME NEW p \in Procs,
             \/ Generate(p) \/ ReadBatch(p) \/ InsertCodes(p) \/ ReleaseLock(p) \/ ReadCode(p)
             \/ Release(p) \/ Give(p) \/ Issue(p) \/ Transfer(p) \/ Redeem(p) \/ ReadClaims(p) \/ Abort(p)
             \/ Observe(p) \/ InsertRedeem(p)
      PROVE  UNCHANGED used
  BY <1>3 DEF Generate, ReadBatch, InsertCodes, ReleaseLock, ReadCode, Release, Give, Issue, Transfer,
              Redeem, ReadClaims, Abort, Observe, InsertRedeem, past
<1>4. (Credit \/ NextMonth \/ \E m \in Members : Settle(m)) => UNCHANGED used
  BY DEF Credit, NextMonth, Settle, past
<1>. QED
  BY <1>1, <1>2, <1>3, <1>4 DEF Step

\* The counts after a step are numbers, too.
LEMMA CountNext == \A t : Count(t)' \in 0 .. Cardinality(Members)
<1>1. ASSUME NEW t
      PROVE  Count(t)' \in 0 .. Cardinality(Members)
  <2>. DEFINE S == {m \in Members : account'[m] = [tier |-> t, state |-> "paid"]}
              c == Cardinality(S)
              n == Cardinality(Members)
  <2>1. S \subseteq Members /\ IsFiniteSet(Members)
    BY CodesAssumption
  <2>2. c \in Nat /\ n \in Nat /\ c <= n
    <3>. HIDE DEF S
    <3>. QED
      BY <2>1, FS_Subset, FS_CardinalityType
  <2>3. Count(t)' = c
    BY DEF Count
  <2>. HIDE DEF c, n
  <2>4. c \in 0 .. n
    BY <2>2
  <2>. QED
    BY <2>3, <2>4 DEF n
<1>. QED
  BY <1>1

PeakNext == peak' = IF InFlight' THEN peak ELSE [t \in Tiers |-> Max({peak[t], Count(t)'})]

\* And that of the highest counts.
LEMMA PeakStep ==
    ASSUME PeakOK, PeakNext
    PROVE  PeakOK'
<1>1. CASE InFlight'
  BY <1>1 DEF PeakOK, PeakNext
<1>2. CASE ~InFlight'
  <2>1. ASSUME NEW t \in Tiers
        PROVE  Max({peak[t], Count(t)'}) \in 0 .. Cardinality(Members)
    <3>. DEFINE n == Cardinality(Members)
                a == peak[t]
                b == Count(t)'
    <3>1. a \in 0 .. n /\ b \in 0 .. n
      BY CountNext DEF PeakOK
    <3>2. n \in Nat
      BY CodesAssumption, FS_CardinalityType
    <3>. HIDE DEF a, b, n
    <3>3. Max({a, b}) \in 0 .. n
      BY <3>1, <3>2, LargerOfTwo
    <3>. QED
      BY <3>3 DEF a, b, n
  <2>2. peak' = [t \in Tiers |-> Max({peak[t], Count(t)'})]
    BY <1>2 DEF PeakNext
  <2>3. peak' \in [Tiers -> 0 .. Cardinality(Members)]
    BY <2>1, <2>2
  <2>. QED
    BY <2>3 DEF PeakOK
<1>. QED
  BY <1>1, <1>2

\* The types and the locks are kept by every step.
LEMMA TypesNext ==
    ASSUME Types, LocksApart, [Next]_vars
    PROVE  Types' /\ LocksApart'
<1>1. CASE Next
  <2>1. Step /\ PeakNext
    BY <1>1 DEF Next, PeakNext
  <2>2. ProcOK' /\ LocksApart'
    BY <2>1, ProcStep
  <2>3. CodesOK' /\ RestOK' /\ UsedOK' /\ PeakOK'
    BY <2>1, CodesStep, RestStep, UsedStep, PeakStep DEF Types
  <2>. QED
    BY <2>2, <2>3 DEF Types
<1>2. CASE UNCHANGED vars
  <2>1. CodesOK' /\ RestOK' /\ UsedOK' /\ PeakOK'
    BY <1>2 DEF Types, CodesOK, RestOK, UsedOK, PeakOK, vars, rows, past, CodeRow
  <2>2. ProcOK' /\ LocksApart'
    BY <1>2 DEF Types, ProcOK, LocksApart, Fits, Generating, Redeeming, OnCode, Locks, vars
  <2>. QED
    BY <2>1, <2>2 DEF Types
<1>. QED
  BY <1>1, <1>2

\* The initial states.
LEMMA FirstRow ==
    ASSUME NEW a, NEW b, NEW h, NEW r,
           r = [NoCode EXCEPT !.num = 2, !.status = "released", !.product = a, !.type = b, !.holder = h]
    PROVE  r = [num |-> 2, product |-> a, type |-> b, status |-> "released", holder |-> h, key |-> "none"]
<1>. DEFINE r1 == [NoCode EXCEPT !.num = 2]
            r2 == [r1 EXCEPT !.status = "released"]
            r3 == [r2 EXCEPT !.product = a]
            r4 == [r3 EXCEPT !.type = b]
<1>1. r = [r4 EXCEPT !.holder = h]
  OBVIOUS
<1>2. r1 = [num |-> 2, product |-> Product, type |-> "PD", status |-> "none", holder |-> NoOne, key |-> "none"]
  BY DEF NoCode
<1>. HIDE DEF r1
<1>3. r2 = [num |-> 2, product |-> Product, type |-> "PD", status |-> "released", holder |-> NoOne, key |-> "none"]
  BY <1>2
<1>. HIDE DEF r2
<1>4. r3 = [num |-> 2, product |-> a, type |-> "PD", status |-> "released", holder |-> NoOne, key |-> "none"]
  BY <1>3
<1>. HIDE DEF r3
<1>5. r4 = [num |-> 2, product |-> a, type |-> b, status |-> "released", holder |-> NoOne, key |-> "none"]
  BY <1>4
<1>. HIDE DEF r4
<1>. QED
  BY <1>1, <1>5

\* The two codes of an initial state differ and belong to no batch.
LEMMA InitRows ==
    ASSUME Init
    PROVE  /\ CodesOK
           /\ \A i \in Exist : i \in {1, 2} /\ codes[i].key = "none" /\ codes[i].status = "released"
           /\ \A i, j \in Exist : StringOf(codes[i]) = StringOf(codes[j]) => i = j
<1>1. PICK t \in {"PD", "CD"} :
         codes = [i \in Ids |->
              IF i > 2 THEN NoCode
              ELSE [NoCode EXCEPT !.num = 2, !.status = "released",
                        !.product = IF i = 1 THEN Max(Tiers) ELSE Product, !.type = IF i = 1 THEN t ELSE "PD",
                        !.holder = CHOOSE m \in Members : TRUE]]
  BY DEF Init
<1>. DEFINE h == CHOOSE m \in Members : TRUE
            T == Max(Tiers)
            R(i) == [num |-> 2, product |-> IF i = 1 THEN T ELSE Product, type |-> IF i = 1 THEN t ELSE "PD",
                     status |-> "released", holder |-> h, key |-> "none"]
<1>2. h \in Members /\ T \in Tiers /\ T # Product
  BY CodesAssumption, IdsFacts
<1>3. codes = [i \in Ids |->
              IF i > 2 THEN NoCode
              ELSE [NoCode EXCEPT !.num = 2, !.status = "released",
                        !.product = IF i = 1 THEN T ELSE Product, !.type = IF i = 1 THEN t ELSE "PD",
                        !.holder = h]]
  BY <1>1
<1>. HIDE DEF h, T
<1>4. ASSUME NEW i \in Ids
      PROVE  codes[i] = IF i > 2 THEN NoCode ELSE R(i)
  <2>. DEFINE a == IF i = 1 THEN T ELSE Product
              b == IF i = 1 THEN t ELSE "PD"
  <2>1. codes[i] = IF i > 2 THEN NoCode
                   ELSE [NoCode EXCEPT !.num = 2, !.status = "released", !.product = a, !.type = b, !.holder = h]
    BY <1>3
  <2>2. R(i) = [num |-> 2, product |-> a, type |-> b, status |-> "released", holder |-> h, key |-> "none"]
    OBVIOUS
  <2>. DEFINE new == [NoCode EXCEPT !.num = 2, !.status = "released", !.product = a, !.type = b, !.holder = h]
  <2>. HIDE DEF a, b, R
  <2>4. new = [num |-> 2, product |-> a, type |-> b, status |-> "released", holder |-> h, key |-> "none"]
    BY FirstRow, Zenon
  <2>3. new = R(i)
    BY <2>2, <2>4
  <2>. QED
    BY <2>1, <2>3
<1>5. \A i \in Ids : i \in Nat \ {0}
  BY IdsFacts
<1>10. codes = [i \in Ids |-> codes[i]]
  BY <1>3
<1>6. \A i \in Ids : R(i) \in CodeRow
  BY <1>2 DEF CodeRow
<1>7. CodesOK
  BY <1>4, <1>6, <1>10 DEF CodesOK
<1>8. ASSUME NEW i \in Exist
      PROVE  /\ i \in {1, 2} /\ codes[i].product = IF i = 1 THEN T ELSE Product
             /\ codes[i].key = "none" /\ codes[i].status = "released"
  <2>1. i \in Ids /\ codes[i].status # "none"
    BY <1>8 DEF Exist
  <2>2. R(i).product = (IF i = 1 THEN T ELSE Product) /\ R(i).key = "none" /\ R(i).status = "released"
    OBVIOUS
  <2>. HIDE DEF R
  <2>3. i \in {1, 2} /\ codes[i] = R(i)
    BY <1>4, <1>5, <2>1 DEF NoCode
  <2>. QED
    BY <2>2, <2>3
<1>9. ASSUME NEW i \in Exist, NEW j \in Exist, StringOf(codes[i]) = StringOf(codes[j])
      PROVE  i = j
  <2>1. codes[i].product = (IF i = 1 THEN T ELSE Product) /\ codes[j].product = (IF j = 1 THEN T ELSE Product)
    BY <1>8
  <2>2. codes[i].product = codes[j].product
    BY <1>9 DEF StringOf
  <2>3. i \in {1, 2} /\ j \in {1, 2}
    BY <1>8
  <2>. QED
    BY <1>2, <2>1, <2>2, <2>3
<1>11. \A i \in Exist : i \in {1, 2} /\ codes[i].key = "none" /\ codes[i].status = "released"
  BY <1>8
<1>. QED
  BY <1>7, <1>9, <1>11

\* The initial states have their types.
LEMMA InitTypes == Init => Types /\ LocksApart
<1>. SUFFICES ASSUME Init
              PROVE  Types /\ LocksApart
  OBVIOUS
<1>1. CodesOK
  BY InitRows
<1>2. ProcOK /\ LocksApart
  <2>1. op = [p \in Procs |-> Idle] /\ seen = [p \in Procs |-> Unread] /\ requests = 0
    BY DEF Init
  <2>2. Fits(Idle, Unread) /\ Locks(Idle) = {}
    BY DEF Fits, Idle, CodeOps, Locks
  <2>3. LocksApart
    BY <2>1, <2>2 DEF LocksApart
  <2>4. requests \in 0 .. MaxRequests
    BY <2>1, CodesAssumption
  <2>5. op \in [Procs -> Request \cup {Idle}] /\ \A p \in Procs : op[p] = Idle /\ seen[p] = Unread
    BY <2>1
  <2>. QED
    BY <2>1, <2>2, <2>3, <2>4, <2>5 DEF ProcOK
<1>3. PICK joined \in SUBSET Members :
        /\ account = [m \in Members |-> IF m \in joined THEN [tier |-> Min(Tiers), state |-> "paid"]
                                        ELSE [tier |-> 0, state |-> "none"]]
        /\ bought \in {{}, joined}
  BY DEF Init
<1>4. /\ account \in [Members -> [tier : Tiers \cup {Product, 0}, state : {"none", "paid", "FS", "CD"}]]
      /\ \A m \in Members : account[m].tier = 0 <=> account[m].state = "none"
  BY <1>3, IdsFacts
<1>5. Cardinality(Members) \in Nat
  BY CodesAssumption, FS_CardinalityType
<1>6. bought \subseteq Members /\ Sets(bought) \in Nat
  BY <1>3, SetsGrow
<1>7. high \in [Tiers -> 0 .. Cardinality(Members)]
  <2>1. high = [t1 \in Tiers |-> 0]
    BY DEF Init
  <2>. QED
    BY <1>5, <2>1
<1>8. RestOK
  <2>1. redeemed = 0 /\ missed = FALSE /\ earned = Sets(bought) /\ spent = 0 /\ month = 0
    BY DEF Init
  <2>2. 0 \in 0 .. MaxMonths
    BY CodesAssumption
  <2>. QED
    BY <1>4, <1>6, <1>7, <2>1, <2>2 DEF RestOK
<1>9. PeakOK
  <2>1. peak = [t1 \in Tiers |-> Count(t1)]
    BY DEF Init
  <2>. QED
    BY <2>1, CountType DEF PeakOK
<1>10. UsedOK
  BY DEF Init, UsedOK
<1>. QED
  BY <1>1, <1>2, <1>8, <1>9, <1>10 DEF Types

\* Every reachable state has its type, a request has read what its kind reads,
\* and GET_LOCK names and the rows of members are held by one request.
THEOREM LocksExclusive == Spec => [](Types /\ LocksApart)
<1>. QED
  BY InitTypes, TypesNext, PTL DEF Spec

\* Every reachable state has its type.
THEOREM TypeCorrect == Spec => []TypeOK
<1>1. Types => TypeOK
  BY DEF Types, CodesOK, RestOK, UsedOK, PeakOK, ProcOK, TypeOK
<1>. QED
  BY <1>1, LocksExclusive, PTL
-----------------------------------------------------------------------------
(***************************************************************************)
(* A code is spent once, and it stays with the member who spent it.        *)
(***************************************************************************)

Once ==
    \A i \in Ids :
        /\ codes[i].status # "used" => \A u \in used : u.code # i
        /\ codes[i].status = "used" =>
              \E w \in used : /\ w.code = i /\ \A u \in used : u.code = i => u = w
                              /\ w.as # "join" => codes[i].holder = w.by

\* Once is what UsedOnceByHolder says of cardinalities.
LEMMA OnceMeans == Once => UsedOnceByHolder
<1>. SUFFICES ASSUME Once, NEW i \in Ids
              PROVE  LET uses == {u \in used : u.code = i} IN
                     IF codes[i].status # "used" THEN uses = {}
                     ELSE /\ Cardinality(uses) = 1
                          /\ \A u \in uses : u.as # "join" => codes[i].holder = u.by
  BY DEF UsedOnceByHolder
<1>. DEFINE uses == {u \in used : u.code = i}
<1>1. CASE codes[i].status # "used"
  BY <1>1 DEF Once
<1>2. CASE codes[i].status = "used"
  <2>1. PICK w \in used : /\ w.code = i /\ \A u \in used : u.code = i => u = w
                          /\ w.as # "join" => codes[i].holder = w.by
    BY <1>2 DEF Once
  <2>2. uses = {w}
    BY <2>1
  <2>3. Cardinality(uses) = 1
    BY <2>2, FS_Singleton
  <2>. QED
    BY <1>2, <2>1, <2>2, <2>3
<1>. QED
  BY <1>1, <1>2

\* A code changes hands only while it is unused.
LEMMA HandsChange ==
    ASSUME Types, NEW p \in Procs, Release(p) \/ Give(p) \/ Issue(p) \/ Transfer(p)
    PROVE  /\ UNCHANGED used
           /\ \A i \in Ids : codes'[i] = codes[i] \/ (codes[i].status # "used" /\ codes'[i].status # "used")
<1>1. op[p].code \in Ids /\ codes = [i \in Ids |-> codes[i]]
  BY CodeRead DEF Release, Give, Issue, Transfer, Writes, CodeOps, Types, CodesOK
<1>2. CASE Release(p)
  BY <1>1, <1>2 DEF Release, SetCode, CodeOf, past
<1>3. CASE Give(p) \/ Transfer(p)
  <2>. DEFINE r == [CodeOf(p) EXCEPT !.holder = op[p].to]
  <2>1. CodeOf(p).status \in Unused /\ codes' = [codes EXCEPT ![op[p].code] = r] /\ UNCHANGED used
    BY <1>3 DEF Give, Transfer, SetCode, Unused, past
  <2>2. r.status = CodeOf(p).status
    <3>1. CodeOf(p) \in CodeRow \cup {NoCode}
      BY <1>1 DEF Types, CodesOK, CodeOf
    <3>. QED
      BY <3>1 DEF CodeRow, NoCode
  <2>. HIDE DEF r
  <2>. QED
    BY <1>1, <2>1, <2>2 DEF CodeOf, Unused
<1>4. CASE Issue(p)
  <2>. DEFINE c == IF seen[p].code.status = "generated" /\ CodeOf(p).status = "generated"
                   THEN [CodeOf(p) EXCEPT !.status = "released"] ELSE CodeOf(p)
              r == IF c.status = "released" THEN [c EXCEPT !.holder = op[p].to] ELSE c
  <2>1. codes' = [codes EXCEPT ![op[p].code] = r] /\ UNCHANGED used
    BY <1>4 DEF Issue, SetCode, past
  <2>2. CodeOf(p) \in CodeRow \cup {NoCode}
    BY <1>1 DEF Types, CodesOK, CodeOf
  <2>3. c = CodeOf(p) \/ (c.status = "released" /\ CodeOf(p).status # "used")
    BY <2>2 DEF CodeRow, NoCode
  <2>4. c.status = "released" => [c EXCEPT !.holder = op[p].to].status = "released"
    BY <2>2 DEF CodeRow, NoCode
  <2>. HIDE DEF c
  <2>5. r = CodeOf(p) \/ (r.status = "released" /\ CodeOf(p).status # "used")
    BY <2>3, <2>4
  <2>. HIDE DEF r
  <2>. QED
    BY <1>1, <2>1, <2>5 DEF CodeOf
<1>. QED
  BY <1>2, <1>3, <1>4

\* Every step keeps each code spent at most once, by its holder.
LEMMA OnceStep ==
    ASSUME Types, Once, Step
    PROVE  Once'
<1>1. ASSUME UNCHANGED used,
             \A i \in Ids : codes'[i] = codes[i] \/ (codes[i].status # "used" /\ codes'[i].status # "used")
      PROVE  Once'
  BY <1>1 DEF Once
<1>2. ASSUME NEW p \in Procs, Join(p) \/ Upgrade(p) \/ Maintain(p)
      PROVE  Once'
  <2>. DEFINE i0 == op[p].code
              r == [CodeOf(p) EXCEPT !.status = "used"]
              u0 == [code |-> op[p].code, by |-> op[p].by, as |-> op[p].kind]
  <2>1. /\ op[p].kind \in {"join", "upgrade", "maintain"}
        /\ CodeOf(p).status = "released" /\ codes' = [codes EXCEPT ![op[p].code] = r]
        /\ used' = used \cup {u0} /\ (op[p].kind # "join" => CodeOf(p).holder = op[p].by)
    BY <1>2 DEF Join, Upgrade, Maintain, Use, Writes, SetCode
  <2>2. i0 \in Ids /\ codes = [i \in Ids |-> codes[i]] /\ CodeOf(p) \in CodeRow \cup {NoCode} /\ CodeOf(p) = codes[i0]
    BY <2>1, CodeRead DEF CodeOps, Types, CodesOK, CodeOf
  <2>3. r.status = "used" /\ r.holder = CodeOf(p).holder
    BY <2>2 DEF CodeRow, NoCode
  <2>4. u0.code = i0 /\ u0.by = op[p].by /\ u0.as = op[p].kind
    OBVIOUS
  <2>. HIDE DEF r, u0, i0
  <2>5. \A i \in Ids : codes'[i] = IF i = i0 THEN r ELSE codes[i]
    BY <2>1, <2>2 DEF i0
  <2>6. ASSUME NEW i \in Ids, i # i0
        PROVE  /\ codes'[i].status # "used" => \A u \in used' : u.code # i
               /\ codes'[i].status = "used" =>
                     \E w \in used' : /\ w.code = i /\ \A u \in used' : u.code = i => u = w
                                      /\ w.as # "join" => codes'[i].holder = w.by
    <3>1. codes'[i] = codes[i] /\ \A u \in used' : u.code = i <=> (u \in used /\ u.code = i)
      BY <2>1, <2>4, <2>5, <2>6
    <3>2. CASE codes[i].status # "used"
      BY <3>1, <3>2 DEF Once
    <3>3. CASE codes[i].status = "used"
      <4>1. PICK w \in used : /\ w.code = i /\ \A u \in used : u.code = i => u = w
                              /\ w.as # "join" => codes[i].holder = w.by
        BY <3>3 DEF Once
      <4>2. w \in used'
        BY <2>1
      <4>. QED
        BY <3>1, <3>3, <4>1, <4>2
    <3>. QED
      BY <3>2, <3>3
  <2>7. /\ codes'[i0].status = "used" /\ u0 \in used' /\ \A u \in used' : u.code = i0 => u = u0
        /\ u0.as # "join" => codes'[i0].holder = u0.by
    <3>1. \A u \in used : u.code # i0
      BY <2>1, <2>2 DEF Once
    <3>2. codes'[i0] = r
      BY <2>2, <2>5
    <3>. QED
      BY <2>1, <2>3, <2>4, <3>1, <3>2
  <2>8. ASSUME NEW i \in Ids
        PROVE  /\ codes'[i].status # "used" => \A u \in used' : u.code # i
               /\ codes'[i].status = "used" =>
                     \E w \in used' : /\ w.code = i /\ \A u \in used' : u.code = i => u = w
                                      /\ w.as # "join" => codes'[i].holder = w.by
    <3>1. CASE i # i0
      BY <2>6, <3>1
    <3>2. CASE i = i0
      BY <2>4, <2>7, <3>2
    <3>. QED
      BY <3>1, <3>2
  <2>. QED
    BY <2>8 DEF Once
<1>3. ASSUME NEW p \in Procs, InsertCodes(p)
      PROVE  Once'
  <2>1. UNCHANGED used
    BY <1>3 DEF InsertCodes, past
  <2>2. ASSUME NEW i \in Ids
        PROVE  codes'[i] = codes[i] \/ (codes[i].status # "used" /\ codes'[i].status # "used")
    <3>1. CASE ~New(p, i)
      BY <1>3, <3>1, InsertRows
    <3>2. CASE New(p, i)
      <4>1. /\ i \notin Exist /\ op[p].key \in Keys
            /\ Fresh(seen[p].strings, op[p].key, seen[p].next, i - MaxId) \in Nat
            /\ codes'[i] = Made(op[p].key, Fresh(seen[p].strings, op[p].key, seen[p].next, i - MaxId))
        BY <1>3, <3>2, InsertRows
      <4>2. codes'[i].status = "generated"
        BY <4>1, MadeFacts
      <4>. QED
        BY <4>1, <4>2 DEF Exist
    <3>. QED
      BY <3>1, <3>2
  <2>. QED
    BY <1>1, <2>1, <2>2
<1>4. ASSUME NEW p \in Procs, Release(p) \/ Give(p) \/ Issue(p) \/ Transfer(p)
      PROVE  Once'
  BY <1>1, <1>4, HandsChange
<1>5. ASSUME UNCHANGED <<codes, used>>
      PROVE  Once'
  BY <1>1, <1>5
<1>6. ASSUME NEW p \in Procs,
             \/ Generate(p) \/ ReadBatch(p) \/ ReleaseLock(p) \/ ReadCode(p)
             \/ Redeem(p) \/ ReadClaims(p) \/ Abort(p) \/ Observe(p) \/ InsertRedeem(p)
      PROVE  UNCHANGED <<codes, used>>
  BY <1>6 DEF Generate, ReadBatch, ReleaseLock, ReadCode, Redeem, ReadClaims, Abort, Observe, InsertRedeem, rows, past
<1>7. (Credit \/ NextMonth \/ \E m \in Members : Settle(m)) => UNCHANGED <<codes, used>>
  BY DEF Credit, NextMonth, Settle, past
<1>. QED
  BY <1>2, <1>3, <1>4, <1>5, <1>6, <1>7 DEF Step

\* A code is used up exactly when it has paid for one package or one product,
\* and it stays with the member who spent it (the conditions of the UPDATEs of
\* routes/codes.js and routes/admin/codes.js).
THEOREM SpentOnceByHolder == Spec => []UsedOnceByHolder
<1>1. Init => Once
  <2>1. Init => used = {} /\ \A i \in Ids : codes[i].status # "used"
    BY InitRows DEF Init, Exist
  <2>. QED
    BY <2>1 DEF Once
<1>2. Types /\ Once /\ [Next]_vars => Once'
  <2>1. CASE Next
    BY <2>1, OnceStep DEF Next
  <2>2. CASE UNCHANGED vars
    BY <2>2 DEF vars, rows, past, Once
  <2>. QED
    BY <2>1, <2>2
<1>. QED
  BY <1>1, <1>2, OnceMeans, LocksExclusive, PTL DEF Spec
-----------------------------------------------------------------------------
(***************************************************************************)
(* No more product sets are redeemed than completed.                       *)
(***************************************************************************)

\* What is earned and not redeemed covers what this month still offers, and
\* what a redemption under way has read.
Covered ==
    /\ spent <= earned /\ Sets(bought) - redeemed <= earned - spent
    /\ \A p \in Procs : op[p].kind = "redeem" /\ seen[p].stage = "read" => seen[p].claims <= earned - spent

\* The connection of p may have read claims as before, another one has.
ClaimsKept == \A p \in Procs : op'[p].kind = "redeem" /\ seen'[p].stage = "read" =>
                  op[p].kind = "redeem" /\ seen[p].stage = "read" /\ seen'[p].claims = seen[p].claims

\* A purchase adds to what is earned as much as to what is offered.
LEMMA CoveredMaintain ==
    ASSUME Types, Covered, NEW p \in Procs, Maintain(p), ClaimsKept
    PROVE  Covered'
<1>1. op[p].by \in Members
  BY CodeRead DEF Maintain, Writes, CodeOps
<1>2. /\ bought' \in SUBSET Members /\ bought \in SUBSET bought'
      /\ earned' = earned + Sets(bought') - Sets(bought) /\ spent' = spent /\ redeemed' = redeemed
  BY <1>1 DEF Maintain, Types, RestOK
<1>. DEFINE a == Sets(bought')
            b == Sets(bought)
<1>3. a \in Nat /\ b \in Nat /\ b <= a
  BY <1>2, SetsGrow
<1>4. earned \in Nat /\ spent \in Nat /\ redeemed \in Nat
  BY DEF Types, RestOK
<1>5. earned' = earned + a - b /\ b - redeemed <= earned - spent /\ spent <= earned
  BY <1>2 DEF Covered
<1>6. ASSUME NEW q \in Procs, op'[q].kind = "redeem" /\ seen'[q].stage = "read"
      PROVE  seen'[q].claims <= earned' - spent'
  <2>. DEFINE n == seen[q].claims
  <2>1. n <= earned - spent /\ seen'[q].claims = n /\ n \in Nat
    BY <1>6 DEF Covered, ClaimsKept, Types, ProcOK, Fits, Redeeming, Unread
  <2>2. n <= earned' - spent
    <3>. HIDE DEF a, b, n
    <3>. QED
      BY <1>3, <1>4, <1>5, <2>1
  <2>. QED
    BY <1>2, <2>1, <2>2
<1>7. spent <= earned' /\ a - redeemed <= earned' - spent
  <2>. HIDE DEF a, b
  <2>. QED
    BY <1>3, <1>4, <1>5
<1>. QED
  BY <1>2, <1>6, <1>7 DEF Covered, Sets

\* A redemption takes at most what it read, and it is the only one.
LEMMA CoveredRedeem ==
    ASSUME Types, LocksApart, Covered, NEW p \in Procs, InsertRedeem(p)
    PROVE  Covered'
<1>1. op[p].kind = "redeem" /\ seen[p].stage = "read" /\ op' = [op EXCEPT ![p] = Idle]
  BY DEF InsertRedeem, Writes, Done
<1>2. PICK n \in 1 .. seen[p].claims : redeemed' = redeemed + n /\ spent' = spent + n
  BY DEF InsertRedeem
<1>3. ASSUME NEW q \in Procs
      PROVE  op'[q].kind # "redeem"
  <2>1. CASE q = p
    BY <1>1, <2>1 DEF Idle, Types, ProcOK
  <2>2. CASE q # p
    <3>1. op'[q] = op[q]
      BY <1>1, <2>2 DEF Types, ProcOK
    <3>. QED
      BY <1>1, <2>2, <3>1 DEF LocksApart, Locks
  <2>. QED
    BY <2>1, <2>2
<1>. DEFINE c == seen[p].claims
            b == Sets(bought)
<1>4. c \in Nat /\ c <= earned - spent
  BY <1>1 DEF Covered, Types, ProcOK, Fits, Redeeming, Unread
<1>5. /\ b \in Nat /\ earned \in Nat /\ spent \in Nat /\ redeemed \in Nat
      /\ b - redeemed <= earned - spent /\ earned' = earned /\ bought' = bought
  BY SetsGrow DEF Types, RestOK, Covered, InsertRedeem
<1>6. n \in 1 .. c
  BY <1>2
<1>7. spent' <= earned /\ b - redeemed' <= earned - spent'
  <2>. HIDE DEF b, c
  <2>. QED
    BY <1>2, <1>4, <1>5, <1>6
<1>. QED
  BY <1>3, <1>5, <1>7 DEF Covered, Sets

\* What a redemption reads is covered.
LEMMA CoveredRead ==
    ASSUME Types, Covered, NEW p \in Procs, ReadClaims(p)
    PROVE  Covered'
<1>. DEFINE r == [stage |-> "read", claims |-> Sets(bought) - redeemed]
<1>1. seen' = [seen EXCEPT ![p] = r] /\ UNCHANGED <<op, bought, redeemed, earned, spent>>
  BY DEF ReadClaims, Saw, rows, past
<1>2. r.claims = Sets(bought) - redeemed
  OBVIOUS
<1>. HIDE DEF r
<1>3. ASSUME NEW q \in Procs, op'[q].kind = "redeem" /\ seen'[q].stage = "read"
      PROVE  seen'[q].claims <= earned - spent
  <2>1. CASE q = p
    <3>1. seen'[q] = r
      BY <1>1, <2>1 DEF Types, ProcOK
    <3>. QED
      BY <1>2, <3>1 DEF Covered
  <2>2. CASE q # p
    <3>1. seen'[q] = seen[q] /\ op'[q] = op[q]
      BY <1>1, <2>2 DEF Types, ProcOK
    <3>. QED
      BY <1>3, <3>1 DEF Covered
  <2>. QED
    BY <2>1, <2>2
<1>. QED
  BY <1>1, <1>3 DEF Covered, Sets

\* A month that ends offers nothing.
LEMMA CoveredMonth ==
    ASSUME Types, Covered, NextMonth
    PROVE  Covered'
<1>1. Sets({}) = 0
  <2>1. Cardinality({}) = 0 /\ SetSize \in Nat \ {0}
    BY FS_EmptySet, CodesAssumption
  <2>2. 0 \div SetSize = 0
    BY <2>1
  <2>. QED
    BY <2>1, <2>2 DEF Sets
<1>2. bought' = {} /\ redeemed' = 0 /\ UNCHANGED <<earned, spent, op, seen>>
  BY DEF NextMonth
<1>3. Sets(bought)' = 0
  BY <1>1, <1>2 DEF Sets
<1>4. earned \in Nat /\ spent \in Nat /\ spent <= earned
  BY DEF Types, RestOK, Covered
<1>5. 0 - 0 <= earned - spent
  BY <1>4
<1>. QED
  BY <1>2, <1>3, <1>4, <1>5 DEF Covered

\* Every step keeps the redemptions covered.
LEMMA CoveredStep ==
    ASSUME Types, LocksApart, Covered, Step
    PROVE  Covered'
<1>0. op = [q \in Procs |-> op[q]] /\ seen = [q \in Procs |-> seen[q]]
  BY DEF Types, ProcOK
<1>1. ASSUME ClaimsKept, UNCHANGED <<bought, redeemed, earned, spent>>
      PROVE  Covered'
  BY <1>1 DEF Covered, ClaimsKept, Sets
<1>2. ASSUME NEW p \in Procs, NEW o, NEW r, op' = [op EXCEPT ![p] = o], seen' = [seen EXCEPT ![p] = r],
             o.kind # "redeem" \/ r.stage # "read"
      PROVE  ClaimsKept
  BY <1>0, <1>2 DEF ClaimsKept
<1>3. ASSUME NEW p \in Procs, Ends(p)
      PROVE  ClaimsKept
  <2>1. op' = [op EXCEPT ![p] = Idle] /\ seen' = [seen EXCEPT ![p] = Unread] /\ Idle.kind # "redeem"
    BY <1>3, EndsDone DEF Done, Saw, Idle
  <2>. QED
    BY <1>2, <2>1
<1>4. ASSUME NEW p \in Procs, Ends(p), ~Maintain(p), ~InsertRedeem(p)
      PROVE  UNCHANGED <<bought, redeemed, earned, spent>>
  BY <1>4 DEF Ends, ReleaseLock, Release, Give, Issue, Transfer, Join, Upgrade, Abort, rows, past
<1>5. ASSUME NEW p \in Procs, Generate(p) \/ Redeem(p)
      PROVE  ClaimsKept /\ UNCHANGED <<bought, redeemed, earned, spent>>
  <2>1. PICK o : op' = [op EXCEPT ![p] = o] /\ seen' = [seen EXCEPT ![p] = Unread]
    BY <1>5 DEF Generate, Redeem, Begin
  <2>2. Unread.stage # "read"
    BY DEF Unread
  <2>. QED
    BY <1>2, <1>5, <2>1, <2>2 DEF Generate, Redeem, rows, past
<1>6. ASSUME NEW p \in Procs, ReadBatch(p) \/ InsertCodes(p) \/ Observe(p)
      PROVE  ClaimsKept /\ UNCHANGED <<bought, redeemed, earned, spent>>
  <2>1. PICK r : seen' = [seen EXCEPT ![p] = r]
    BY <1>6 DEF ReadBatch, InsertCodes, Observe, Saw
  <2>2. op[p].kind # "redeem" /\ op' = [op EXCEPT ![p] = op[p]]
    BY <1>0, <1>6 DEF ReadBatch, InsertCodes, Observe, Writes
  <2>3. UNCHANGED <<bought, redeemed, earned, spent>>
    BY <1>6 DEF ReadBatch, InsertCodes, Observe, rows, past
  <2>. QED
    BY <1>2, <2>1, <2>2, <2>3
<1>7. ASSUME NEW p \in Procs, ReadCode(p)
      PROVE  ClaimsKept /\ UNCHANGED <<bought, redeemed, earned, spent>>
  <2>1. PICK k \in CodeOps, c \in Exist, by \in Members, to \in Members :
           op' = [op EXCEPT ![p] = [kind |-> k, code |-> c, by |-> by, to |-> to]]
    BY <1>7 DEF ReadCode
  <2>2. PICK r : seen' = [seen EXCEPT ![p] = r]
    BY <1>7 DEF ReadCode, Saw
  <2>3. [kind |-> k, code |-> c, by |-> by, to |-> to].kind # "redeem"
    BY DEF CodeOps
  <2>4. UNCHANGED <<bought, redeemed, earned, spent>>
    BY <1>7 DEF ReadCode, rows, past
  <2>. QED
    BY <1>2, <2>1, <2>2, <2>3, <2>4
<1>8. ASSUME Credit \/ \E m \in Members : Settle(m)
      PROVE  ClaimsKept /\ UNCHANGED <<bought, redeemed, earned, spent>>
  BY <1>8 DEF Credit, Settle, past, ClaimsKept
<1>. QED
  BY <1>1, <1>3, <1>4, <1>5, <1>6, <1>7, <1>8, CoveredMaintain, CoveredRedeem, CoveredRead, CoveredMonth
  DEF Step, Ends

\* The sponsor redeems no more product sets than its directs completed, though
\* two redemptions run at once and the month ends between the read and the
\* insert (POST /redeem of routes/hifive.js).
THEOREM RedeemedWereEarned == Spec => []RedeemedEarned
<1>1. Init => Covered
  <2>1. Init => redeemed = 0 /\ earned = Sets(bought) /\ spent = 0 /\ \A p \in Procs : seen[p].stage # "read"
    <3>1. Init => redeemed = 0 /\ earned = Sets(bought) /\ spent = 0 /\ seen = [p \in Procs |-> Unread]
      BY DEF Init
    <3>2. Unread.stage # "read"
      BY DEF Unread
    <3>. QED
      BY <3>1, <3>2
  <2>2. Init => Sets(bought) \in Nat
    BY InitTypes, SetsGrow DEF Types, RestOK
  <2>. QED
    BY <2>1, <2>2 DEF Covered
<1>2. Types /\ LocksApart /\ Covered /\ [Next]_vars => Covered'
  <2>1. CASE Next
    BY <2>1, CoveredStep DEF Next
  <2>2. CASE UNCHANGED vars
    BY <2>2 DEF vars, rows, past, Covered, Sets
  <2>. QED
    BY <2>1, <2>2
<1>3. Covered => RedeemedEarned
  BY DEF Covered, RedeemedEarned
<1>. QED
  BY <1>1, <1>2, <1>3, LocksExclusive, PTL DEF Spec
-----------------------------------------------------------------------------
(***************************************************************************)
(* The counts of directs are kept.                                         *)
(***************************************************************************)

\* While an upgrade is between its observation and its commit, what the
\* sponsor had is recorded.
Kept == SetsKept /\ (missed \/ ~InFlight \/ \A t \in Tiers : high[t] >= peak[t])

\* The counts before and after a step are numbers.
LEMMA Counts ==
    ASSUME Types, RestOK', PeakOK', NEW t \in Tiers
    PROVE  /\ Count(t) \in Nat /\ Count(t)' \in Nat /\ high[t] \in Nat /\ high'[t] \in Nat
           /\ peak[t] \in Nat /\ peak'[t] \in Nat
<1>1. Cardinality(Members) \in Nat
  BY CodesAssumption, FS_CardinalityType
<1>. DEFINE n == Cardinality(Members)
<1>2. \A c : c \in 0 .. n => c \in Nat
  <2>1. n \in Nat
    BY <1>1
  <2>. HIDE DEF n
  <2>. QED
    BY <2>1
<1>3. /\ Count(t) \in 0 .. n /\ Count(t)' \in 0 .. n /\ high[t] \in 0 .. n /\ high'[t] \in 0 .. n
      /\ peak[t] \in 0 .. n /\ peak'[t] \in 0 .. n
  BY CountType, CountNext DEF Types, RestOK, PeakOK
<1>. QED
  BY <1>2, <1>3

\* A step that loses no direct, or loses one while an upgrade is recorded, and
\* lowers no row.
LEMMA KeptByGrowth ==
    ASSUME Types, RestOK', PeakOK', PeakNext, Kept, missed => missed',
           \A t \in Tiers : high'[t] >= high[t] /\ (Count(t)' >= Count(t) \/ InFlight),
           InFlight' => InFlight
    PROVE  Kept'
<1>1. ASSUME ~missed', NEW t \in Tiers
      PROVE  Entitled(t)' >= peak'[t] /\ (InFlight' => high'[t] >= peak'[t])
  <2>. DEFINE a == Count(t)
              b == Count(t)'
              h == high[t]
              g == high'[t]
              k == peak[t]
              j == peak'[t]
  <2>1. a \in Nat /\ b \in Nat /\ h \in Nat /\ g \in Nat /\ k \in Nat /\ j \in Nat
    BY Counts
  <2>2. g >= h /\ (b >= a \/ InFlight) /\ (InFlight => h >= k) /\ Max({a, h}) >= k
    BY <1>1 DEF Kept, SetsKept, Entitled
  <2>3. j = IF InFlight' THEN k ELSE Max({k, b})
    BY DEF PeakNext
  <2>4. Entitled(t)' = Max({b, g})
    BY DEF Entitled
  <2>. DEFINE f == InFlight
              f1 == InFlight'
  <2>5. f1 => f
    OBVIOUS
  <2>. HIDE DEF a, b, h, g, k, j, f, f1
  <2>6. Max({a, h}) = IF a >= h THEN a ELSE h
    BY <2>1, LargerOfTwo
  <2>7. Max({k, b}) = IF k >= b THEN k ELSE b
    BY <2>1, LargerOfTwo
  <2>8. Max({b, g}) = IF b >= g THEN b ELSE g
    BY <2>1, LargerOfTwo
  <2>9. g >= h /\ (b >= a \/ f) /\ (f => h >= k) /\ j = IF f1 THEN k ELSE Max({k, b})
    BY <2>2, <2>3 DEF f, f1
  <2>10. Max({b, g}) >= j /\ (f1 => g >= j)
    BY <2>1, <2>2, <2>5, <2>6, <2>7, <2>8, <2>9
  <2>. QED
    BY <2>4, <2>10 DEF g, j, f1
<1>. QED
  BY <1>1 DEF Kept, SetsKept

\* Recording the counts lowers none.
LEMMA RecordKeeps ==
    ASSUME Types, Record, RestOK', PeakOK', NEW t \in Tiers
    PROVE  high'[t] = Entitled(t) /\ high'[t] >= high[t]
<1>1. high'[t] = Max({Count(t), high[t]})
  BY DEF Record, Entitled
<1>. DEFINE a == Count(t)
            h == high[t]
<1>2. a \in Nat /\ h \in Nat
  BY Counts
<1>3. high'[t] = Max({a, h})
  BY <1>1
<1>. HIDE DEF a, h
<1>4. Max({a, h}) >= h
  BY <1>2, LargerOfTwo
<1>. QED
  BY <1>1, <1>3, <1>4 DEF h, Entitled

\* A step that keeps every paid direct in its package lowers no count.
LEMMA CountGrows ==
    ASSUME NEW t,
           \A m \in Members : account[m] = [tier |-> t, state |-> "paid"] => account'[m] = [tier |-> t, state |-> "paid"]
    PROVE  Count(t)' >= Count(t)
<1>. DEFINE S == {m \in Members : account[m] = [tier |-> t, state |-> "paid"]}
            T == {m \in Members : account'[m] = [tier |-> t, state |-> "paid"]}
            a == Cardinality(S)
            b == Cardinality(T)
<1>1. S \in SUBSET T /\ T \in SUBSET Members
  OBVIOUS
<1>2. IsFiniteSet(T) /\ a \in Nat /\ b \in Nat /\ a <= b
  <2>. HIDE DEF S, T
  <2>. QED
    BY <1>1, CodesAssumption, FS_Subset, FS_CardinalityType
<1>3. Count(t) = a /\ Count(t)' = b
  BY DEF Count
<1>. HIDE DEF a, b
<1>. QED
  BY <1>2, <1>3

\* Rows that a step leaves alone are not lowered.
LEMMA HighStays ==
    ASSUME Types, RestOK', PeakOK', UNCHANGED high, NEW t \in Tiers
    PROVE  high'[t] >= high[t]
<1>1. high'[t] = high[t] /\ high[t] \in Nat
  BY Counts
<1>. QED
  BY <1>1

FlightsEnd == \A p \in Procs : op'[p].kind = "upgrade" /\ seen'[p].stage = "observed" =>
                  op[p].kind = "upgrade" /\ seen[p].stage = "observed"

\* Every step keeps the counts.
LEMMA KeptStep ==
    ASSUME Types, LocksApart, Kept, Step, PeakNext, Types'
    PROVE  Kept'
<1>0. /\ op = [q \in Procs |-> op[q]] /\ seen = [q \in Procs |-> seen[q]]
      /\ RestOK' /\ PeakOK' /\ RestOK
  BY DEF Types, ProcOK
<1>1. FlightsEnd => (InFlight' => InFlight)
  BY DEF FlightsEnd, InFlight
<1>2. ASSUME NEW p \in Procs, NEW o, NEW r, op' = [op EXCEPT ![p] = o], seen' = [seen EXCEPT ![p] = r],
             o.kind # "upgrade" \/ r.stage # "observed"
      PROVE  FlightsEnd
  BY <1>0, <1>2 DEF FlightsEnd
<1>3. ASSUME FlightsEnd, UNCHANGED <<account, high, missed>>
      PROVE  Kept'
  <2>1. ASSUME NEW t \in Tiers
        PROVE  high'[t] >= high[t] /\ Count(t)' >= Count(t)
    <3>1. high'[t] >= high[t]
      BY <1>0, <1>3, HighStays
    <3>2. Count(t)' >= Count(t)
      BY <1>3, CountGrows
    <3>. QED
      BY <3>1, <3>2
  <2>. QED
    BY <1>0, <1>1, <1>3, <2>1, KeptByGrowth
<1>4. ASSUME NEW p \in Procs, Ends(p)
      PROVE  FlightsEnd
  <2>1. op' = [op EXCEPT ![p] = Idle] /\ seen' = [seen EXCEPT ![p] = Unread] /\ Idle.kind # "upgrade"
    BY <1>4, EndsDone DEF Done, Saw, Idle
  <2>. QED
    BY <1>2, <2>1
<1>5. ASSUME NEW p \in Procs, Ends(p), ~Join(p), ~Upgrade(p)
      PROVE  UNCHANGED <<account, high, missed>>
  BY <1>5 DEF Ends, ReleaseLock, Release, Give, Issue, Transfer, Maintain, InsertRedeem, Abort, rows, past
<1>6. ASSUME NEW p \in Procs, Join(p)
      PROVE  Kept'
  <2>1. /\ op[p].kind = "join" /\ SetAccount(p) /\ account[op[p].by].tier = 0
        /\ UNCHANGED <<high, missed>>
    BY <1>6 DEF Join, Writes
  <2>2. \A m \in Members \ {op[p].by} : account'[m] = account[m]
    BY <2>1, AccountSet
  <2>3. ASSUME NEW t \in Tiers, NEW m \in Members, account[m] = [tier |-> t, state |-> "paid"]
        PROVE  account'[m] = [tier |-> t, state |-> "paid"]
    BY <2>1, <2>2, <2>3, IdsFacts
  <2>4. ASSUME NEW t \in Tiers
        PROVE  high'[t] >= high[t] /\ Count(t)' >= Count(t)
    <3>1. high'[t] >= high[t]
      BY <1>0, <2>1, HighStays
    <3>2. Count(t)' >= Count(t)
      BY <2>3, CountGrows
    <3>. QED
      BY <3>1, <3>2
  <2>5. FlightsEnd
    BY <1>4, <1>6 DEF Ends
  <2>. QED
    BY <1>0, <1>1, <2>1, <2>4, <2>5, KeptByGrowth
<1>7. ASSUME NEW m \in Members, Settle(m)
      PROVE  Kept'
  <2>1. account[m].state = "CD" /\ UNCHANGED <<high, missed, op, seen>> /\ \A w \in Members \ {m} : account'[w] = account[w]
    BY <1>0, <1>7 DEF Settle, past, RestOK
  <2>2. ASSUME NEW t \in Tiers, NEW w \in Members, account[w] = [tier |-> t, state |-> "paid"]
        PROVE  account'[w] = [tier |-> t, state |-> "paid"]
    BY <2>1, <2>2
  <2>3. ASSUME NEW t \in Tiers
        PROVE  high'[t] >= high[t] /\ Count(t)' >= Count(t)
    <3>1. high'[t] >= high[t]
      BY <1>0, <2>1, HighStays
    <3>2. Count(t)' >= Count(t)
      BY <2>2, CountGrows
    <3>. QED
      BY <3>1, <3>2
  <2>4. FlightsEnd
    BY <2>1 DEF FlightsEnd
  <2>. QED
    BY <1>0, <1>1, <2>1, <2>3, <2>4, KeptByGrowth
<1>8. ASSUME NEW p \in Procs, Upgrade(p)
      PROVE  Kept'
  <2>1. op[p].kind = "upgrade" /\ seen[p].stage = "observed" /\ UNCHANGED <<high, missed>>
    BY <1>8 DEF Upgrade
  <2>2. InFlight
    BY <2>1 DEF InFlight
  <2>3. \A t \in Tiers : high'[t] >= high[t]
    BY <1>0, <2>1, Counts
  <2>4. FlightsEnd
    BY <1>4, <1>8 DEF Ends
  <2>. QED
    BY <1>0, <1>1, <2>1, <2>2, <2>3, <2>4, KeptByGrowth
<1>9. ASSUME Credit
      PROVE  Kept'
  <2>1. Record /\ UNCHANGED <<account, missed, op, seen>>
    BY <1>9 DEF Credit, past
  <2>2. ASSUME NEW t \in Tiers
        PROVE  high'[t] >= high[t] /\ Count(t)' >= Count(t)
    BY <1>0, <2>1, RecordKeeps, CountGrows
  <2>3. FlightsEnd
    BY <2>1 DEF FlightsEnd
  <2>. QED
    BY <1>0, <1>1, <2>1, <2>2, <2>3, KeptByGrowth
<1>10. ASSUME NEW p \in Procs, Observe(p)
       PROVE  Kept'
  <2>1. CASE missed'
    BY <2>1 DEF Kept, SetsKept
  <2>2. CASE ~missed'
    <3>1. Record /\ ~missed /\ UNCHANGED <<account, op>> /\ op[p].kind = "upgrade"
      BY <1>10, <2>2 DEF Observe, Writes
    <3>2. seen' = [seen EXCEPT ![p] = [seen[p] EXCEPT !.stage = "observed"]]
      BY <1>10 DEF Observe, Saw
    <3>3. seen'[p].stage = "observed"
      <4>1. OnCode(seen[p]) /\ OnCode(seen'[p])
        BY <3>1, CodeRead DEF CodeOps, Types, ProcOK, Fits
      <4>2. seen'[p] = [seen[p] EXCEPT !.stage = "observed"]
        BY <1>0, <3>2
      <4>. QED
        BY <4>1, <4>2 DEF OnCode
    <3>4. InFlight'
      BY <3>1, <3>3 DEF InFlight
    <3>5. peak' = peak
      BY <3>4 DEF PeakNext
    <3>6. ASSUME NEW t \in Tiers
          PROVE  high'[t] >= peak'[t] /\ Entitled(t)' >= peak'[t]
      <4>1. high'[t] = Entitled(t) /\ Entitled(t) >= peak[t]
        BY <1>0, <3>1, RecordKeeps DEF Kept, SetsKept
      <4>2. Entitled(t)' = Max({Count(t)', high'[t]})
        BY DEF Entitled
      <4>. DEFINE b == Count(t)'
                  g == high'[t]
                  j == peak'[t]
      <4>3. b \in Nat /\ g \in Nat /\ j \in Nat /\ g >= j
        BY <1>0, <3>5, <4>1, Counts
      <4>. HIDE DEF b, g, j
      <4>4. Max({b, g}) >= j
        BY <4>3, LargerOfTwo
      <4>. QED
        BY <4>2, <4>3, <4>4 DEF b, g, j
    <3>. QED
      BY <3>6 DEF Kept, SetsKept
  <2>. QED
    BY <2>1, <2>2
<1>11. ASSUME NEW p \in Procs, Generate(p) \/ Redeem(p)
       PROVE  FlightsEnd /\ UNCHANGED <<account, high, missed>>
  <2>1. PICK o : op' = [op EXCEPT ![p] = o] /\ seen' = [seen EXCEPT ![p] = Unread]
    BY <1>11 DEF Generate, Redeem, Begin
  <2>2. Unread.stage # "observed"
    BY DEF Unread
  <2>. QED
    BY <1>2, <1>11, <2>1, <2>2 DEF Generate, Redeem, rows, past
<1>12. ASSUME NEW p \in Procs, ReadBatch(p) \/ InsertCodes(p) \/ ReadClaims(p)
       PROVE  FlightsEnd /\ UNCHANGED <<account, high, missed>>
  <2>1. PICK r : seen' = [seen EXCEPT ![p] = r]
    BY <1>12 DEF ReadBatch, InsertCodes, ReadClaims, Saw
  <2>2. op[p].kind # "upgrade" /\ op' = [op EXCEPT ![p] = op[p]]
    BY <1>0, <1>12 DEF ReadBatch, InsertCodes, ReadClaims
  <2>3. UNCHANGED <<account, high, missed>>
    BY <1>12 DEF ReadBatch, InsertCodes, ReadClaims, rows, past
  <2>. QED
    BY <1>2, <2>1, <2>2, <2>3
<1>13. ASSUME NEW p \in Procs, ReadCode(p)
       PROVE  FlightsEnd /\ UNCHANGED <<account, high, missed>>
  <2>1. PICK o : op' = [op EXCEPT ![p] = o]
    BY <1>13 DEF ReadCode
  <2>2. PICK c \in Exist : seen' = [seen EXCEPT ![p] = [stage |-> "read", code |-> codes[c]]]
    BY <1>13 DEF ReadCode, Saw
  <2>3. [stage |-> "read", code |-> codes[c]].stage # "observed"
    OBVIOUS
  <2>4. UNCHANGED <<account, high, missed>>
    BY <1>13 DEF ReadCode, rows, past
  <2>. QED
    BY <1>2, <2>1, <2>2, <2>3, <2>4
<1>14. ASSUME NextMonth
       PROVE  FlightsEnd /\ UNCHANGED <<account, high, missed>>
  BY <1>14 DEF NextMonth, FlightsEnd
<1>. QED
  BY <1>3, <1>4, <1>5, <1>6, <1>7, <1>8, <1>9, <1>10, <1>11, <1>12, <1>13, <1>14 DEF Step, Ends

\* A number of directs in one package that the sponsor had while no upgrade was
\* between its observation and its commit stays earned, unless an observation
\* failed (observePackageHighWater in routes/codes.js).
THEOREM CountsKept == Spec => []SetsKept
<1>1. ASSUME Init
      PROVE  Kept
  <2>1. \A t \in Tiers : peak[t] = Count(t) /\ high[t] = 0
    BY <1>1 DEF Init
  <2>2. ASSUME NEW t \in Tiers
        PROVE  Entitled(t) >= peak[t]
    <3>. DEFINE n == Cardinality(Members)
                a == Count(t)
    <3>1. a \in 0 .. n
      BY CountType
    <3>2. Entitled(t) = Max({a, 0}) /\ peak[t] = a
      BY <2>1 DEF Entitled
    <3>. HIDE DEF a, n
    <3>3. Max({a, 0}) = IF a >= 0 THEN a ELSE 0
      BY <3>1, LargerOfTwo
    <3>4. Max({a, 0}) >= a
      BY <3>1, <3>3
    <3>. QED
      BY <3>2, <3>4
  <2>3. ~InFlight
    <3>1. op = [p \in Procs |-> Idle]
      BY <1>1 DEF Init
    <3>. QED
      BY <3>1 DEF InFlight, Idle
  <2>. QED
    BY <2>2, <2>3 DEF Kept, SetsKept
<1>2. Types /\ LocksApart /\ Kept /\ [Next]_vars => Kept'
  <2>1. ASSUME Types, LocksApart, Kept, Next
        PROVE  Kept'
    BY <2>1, KeptStep, TypesNext DEF Next, PeakNext
  <2>2. Kept /\ UNCHANGED vars => Kept'
    BY DEF vars, rows, past, Kept, SetsKept, InFlight, Entitled, Count
  <2>. QED
    BY <2>1, <2>2
<1>3. Kept => SetsKept
  BY DEF Kept
<1>. QED
  BY <1>1, <1>2, <1>3, LocksExclusive, PTL DEF Spec
-----------------------------------------------------------------------------
(***************************************************************************)
(* No two codes have one string, and a batch is made once.                 *)
(***************************************************************************)

Numbered ==
    /\ \A i, j \in Exist : StringOf(codes[i]) = StringOf(codes[j]) => i = j
    /\ \A k \in Keys : \/ \A i \in Exist : codes[i].key # k
                       \/ Cardinality({i \in Exist : codes[i].key = k}) = Batch[k].count

\* What a generator has read is still so: it has the lock.
GeneratorCurrent ==
    \A p \in Procs : op[p].kind = "generate" /\ seen[p].stage = "read" =>
        /\ seen[p].strings = {StringOf(codes[i]) : i \in Exist}
        /\ \A i \in Exist : codes[i].key # op[p].key

CodesInv == Numbered /\ GeneratorCurrent

\* Such a step leaves the strings and the batches of all codes.
LEMMA StayMeans ==
    ASSUME Stay
    PROVE  /\ Exist' = Exist
           /\ \A i \in Ids : StringOf(codes'[i]) = StringOf(codes[i]) /\ codes'[i].key = codes[i].key
           /\ {StringOf(codes'[i]) : i \in Exist} = {StringOf(codes[i]) : i \in Exist}
<1>1. Exist' = Exist
  BY DEF Stay, Exist
<1>2. \A i \in Ids : StringOf(codes'[i]) = StringOf(codes[i]) /\ codes'[i].key = codes[i].key
  BY DEF Stay, StringOf
<1>3. {StringOf(codes'[i]) : i \in Exist} = {StringOf(codes[i]) : i \in Exist}
  BY <1>2, ExistFacts
<1>. QED
  BY <1>1, <1>2, <1>3

\* So it keeps the strings apart and the batches whole,
LEMMA NumberedStays == ASSUME Stay, Numbered PROVE Numbered'
<1>1. \A i \in Exist : i \in Ids
  BY DEF Exist
<1>2. \A i, j \in Exist : StringOf(codes'[i]) = StringOf(codes'[j]) => i = j
  BY <1>1, StayMeans DEF Numbered
<1>3. ASSUME NEW k \in Keys
      PROVE  \/ \A i \in Exist : codes'[i].key # k
             \/ Cardinality({i \in Exist : codes'[i].key = k}) = Batch[k].count
  <2>1. {i \in Exist : codes'[i].key = k} = {i \in Exist : codes[i].key = k}
    BY <1>1, StayMeans
  <2>2. (\A i \in Exist : codes'[i].key # k) <=> (\A i \in Exist : codes[i].key # k)
    BY <1>1, StayMeans
  <2>. QED
    BY <2>1, <2>2 DEF Numbered
<1>4. Exist' = Exist
  BY StayMeans
<1>. QED
  BY <1>2, <1>3, <1>4 DEF Numbered, StringOf

GensKept == \A p \in Procs : op'[p].kind = "generate" /\ seen'[p].stage = "read" => op'[p] = op[p] /\ seen'[p] = seen[p]

\* and what a generator has read current.
LEMMA CurrentStays == ASSUME Stay, GeneratorCurrent, GensKept PROVE GeneratorCurrent'
<1>1. ASSUME NEW p \in Procs, op'[p].kind = "generate" /\ seen'[p].stage = "read"
      PROVE  /\ seen'[p].strings = {StringOf(codes'[i]) : i \in Exist}
             /\ \A i \in Exist : codes'[i].key # op'[p].key
  <2>1. /\ seen'[p].strings = {StringOf(codes[i]) : i \in Exist}
        /\ \A i \in Exist : codes[i].key # op'[p].key
    BY <1>1 DEF GensKept, GeneratorCurrent
  <2>2. \A i \in Exist : i \in Ids
    BY DEF Exist
  <2>. QED
    BY <2>1, <2>2, StayMeans
<1>2. Exist' = Exist
  BY StayMeans
<1>. QED
  BY <1>1, <1>2 DEF GeneratorCurrent, StringOf

\* The turns of connections that generate nothing.
LEMMA GensStep ==
    ASSUME Types, Step, ~\E p \in Procs : InsertCodes(p) \/ ReadBatch(p)
    PROVE  GensKept
<1>0. op = [q \in Procs |-> op[q]] /\ seen = [q \in Procs |-> seen[q]]
  BY DEF Types, ProcOK
<1>1. ASSUME NEW p \in Procs, NEW o, NEW r, op' = [op EXCEPT ![p] = o], seen' = [seen EXCEPT ![p] = r],
             o.kind # "generate" \/ r.stage # "read"
      PROVE  GensKept
  BY <1>0, <1>1 DEF GensKept
<1>2. ASSUME NEW p \in Procs, Ends(p)
      PROVE  GensKept
  <2>1. op' = [op EXCEPT ![p] = Idle] /\ seen' = [seen EXCEPT ![p] = Unread] /\ Idle.kind # "generate"
    BY <1>2, EndsDone DEF Done, Saw, Idle
  <2>. QED
    BY <1>1, <2>1
<1>3. ASSUME NEW p \in Procs, Generate(p) \/ Redeem(p)
      PROVE  GensKept
  <2>1. PICK o : op' = [op EXCEPT ![p] = o] /\ seen' = [seen EXCEPT ![p] = Unread]
    BY <1>3 DEF Generate, Redeem, Begin
  <2>2. Unread.stage # "read"
    BY DEF Unread
  <2>. QED
    BY <1>1, <2>1, <2>2
<1>4. ASSUME NEW p \in Procs, ReadClaims(p) \/ Observe(p)
      PROVE  GensKept
  <2>1. PICK r : seen' = [seen EXCEPT ![p] = r]
    BY <1>4 DEF ReadClaims, Observe, Saw
  <2>2. op[p].kind # "generate" /\ op' = [op EXCEPT ![p] = op[p]]
    BY <1>0, <1>4 DEF ReadClaims, Observe, Writes
  <2>. QED
    BY <1>1, <2>1, <2>2
<1>5. ASSUME NEW p \in Procs, ReadCode(p)
      PROVE  GensKept
  <2>1. PICK k \in CodeOps, c \in Exist, by \in Members, to \in Members :
           op' = [op EXCEPT ![p] = [kind |-> k, code |-> c, by |-> by, to |-> to]]
    BY <1>5 DEF ReadCode
  <2>2. PICK r : seen' = [seen EXCEPT ![p] = r]
    BY <1>5 DEF ReadCode, Saw
  <2>3. [kind |-> k, code |-> c, by |-> by, to |-> to].kind # "generate"
    BY DEF CodeOps
  <2>. QED
    BY <1>1, <2>1, <2>2, <2>3
<1>6. ASSUME Credit \/ NextMonth \/ \E m \in Members : Settle(m)
      PROVE  GensKept
  BY <1>6 DEF Credit, NextMonth, Settle, GensKept
<1>. QED
  BY <1>2, <1>3, <1>4, <1>5, <1>6 DEF Step, Ends

\* What a generator reads is current.
LEMMA CodesRead ==
    ASSUME Types, CodesInv, NEW p \in Procs, ReadBatch(p)
    PROVE  CodesInv'
<1>. DEFINE r == [stage |-> "read", next |-> MaxId, strings |-> {StringOf(codes[i]) : i \in Exist}]
<1>1. /\ seen' = [seen EXCEPT ![p] = r] /\ UNCHANGED <<codes, op>>
      /\ \A i \in Exist : codes[i].key # op[p].key
  BY DEF ReadBatch, Saw, rows
<1>2. r.strings = {StringOf(codes[i]) : i \in Exist}
  OBVIOUS
<1>. HIDE DEF r
<1>3. \A q \in Procs : seen'[q] = IF q = p THEN r ELSE seen[q]
  BY <1>1 DEF Types, ProcOK
<1>4. GeneratorCurrent'
  <2>1. \A q \in Procs : op[q].kind = "generate" /\ seen'[q].stage = "read" =>
           /\ seen'[q].strings = {StringOf(codes[i]) : i \in Exist}
           /\ \A i \in Exist : codes[i].key # op[q].key
    BY <1>1, <1>2, <1>3 DEF CodesInv, GeneratorCurrent
  <2>. QED
    BY <1>1, <2>1 DEF GeneratorCurrent, Exist
<1>5. Numbered'
  BY <1>1 DEF CodesInv, Numbered, Exist
<1>. QED
  BY <1>4, <1>5 DEF CodesInv

\* An insertion makes a whole batch of new strings.
LEMMA CodesInsert ==
    ASSUME Types, LocksApart, CodesInv, NEW p \in Procs, InsertCodes(p)
    PROVE  CodesInv'
<1>. DEFINE k == op[p].key
            s == seen[p].strings
            n == seen[p].next
            m == MaxId
            c == Batch[k].count
            x(i) == Fresh(s, k, n, i - m)
<1>1. op[p].kind = "generate" /\ seen[p].stage = "read" /\ seen' = [seen EXCEPT ![p] = [stage |-> "committed"]]
      /\ op' = op
  BY DEF InsertCodes, Saw
<1>2. /\ s = {StringOf(codes[i]) : i \in Exist} /\ \A i \in Exist : codes[i].key # k
  BY <1>1 DEF CodesInv, GeneratorCurrent
<1>3. k \in Keys /\ n \in Nat /\ IsFiniteSet(s) /\ m \in Nat /\ c \in Nat \ {0}
  <2>1. k \in Keys
    BY InsertRows
  <2>2. Generating(seen[p])
    BY <1>1 DEF Types, ProcOK, Fits
  <2>3. n \in Nat /\ IsFiniteSet(s)
    BY <1>1, <2>2 DEF Generating, Unread
  <2>. QED
    BY <2>1, <2>3, ExistFacts, BatchFacts
<1>4. ASSUME NEW i \in Ids, New(p, i)
      PROVE  /\ i - m \in Nat \ {0} /\ i \notin Exist /\ i \in Exist' /\ codes'[i].key = k
             /\ StringOf(codes'[i]) = BatchString(k, x(i)) /\ BatchString(k, x(i)) \notin s
  <2>1. /\ i - m \in Nat \ {0} /\ i \notin Exist /\ x(i) \in Nat
        /\ codes'[i] = Made(k, x(i))
    BY <1>4, InsertRows
  <2>2. BatchString(k, x(i)) \notin s
    BY <1>3, <2>1, FreshNew
  <2>3. /\ StringOf(Made(k, x(i))) = BatchString(k, x(i))
        /\ Made(k, x(i)).status = "generated" /\ Made(k, x(i)).key = k
    <3>. HIDE DEF x
    <3>. QED
      BY <1>3, <2>1, MadeFacts
  <2>. QED
    BY <2>1, <2>2, <2>3 DEF Exist
<1>5. ASSUME NEW i \in Exist', ~New(p, i)
      PROVE  i \in Exist /\ codes'[i] = codes[i] /\ StringOf(codes'[i]) \in s
  <2>1. i \in Ids /\ codes'[i].status # "none"
    BY DEF Exist
  <2>2. codes'[i] = codes[i]
    BY <1>5, <2>1, InsertRows
  <2>. QED
    BY <1>2, <2>1, <2>2 DEF Exist
<1>6. ASSUME NEW i \in Exist', NEW j \in Exist', StringOf(codes'[i]) = StringOf(codes'[j])
      PROVE  i = j
  <2>0. i \in Ids /\ j \in Ids /\ i \in Nat /\ j \in Nat
    BY IdsFacts DEF Exist
  <2>1. CASE New(p, i) /\ New(p, j)
    <3>1. BatchString(k, x(i)) = BatchString(k, x(j)) /\ i - m \in Nat \ {0} /\ j - m \in Nat \ {0}
      BY <1>4, <1>6, <2>0, <2>1
    <3>2. x(i) = x(j)
      BY <3>1, StringsDiffer
    <3>3. i - m = j - m
      BY <1>3, <3>1, <3>2, FreshDiffer
    <3>. HIDE DEF m
    <3>. QED
      BY <1>3, <2>0, <3>3
  <2>2. CASE New(p, i) /\ ~New(p, j)
    BY <1>4, <1>5, <1>6, <2>0, <2>2
  <2>3. CASE ~New(p, i) /\ New(p, j)
    BY <1>4, <1>5, <1>6, <2>0, <2>3
  <2>4. CASE ~New(p, i) /\ ~New(p, j)
    BY <1>5, <1>6, <2>4 DEF CodesInv, Numbered
  <2>. QED
    BY <2>1, <2>2, <2>3, <2>4
<1>7. ASSUME NEW w \in Keys, w # k
      PROVE  {i \in Exist' : codes'[i].key = w} = {i \in Exist : codes[i].key = w}
  <2>1. ASSUME NEW i \in Exist', codes'[i].key = w
        PROVE  i \in Exist /\ codes[i].key = w
    <3>1. i \in Ids
      BY DEF Exist
    <3>2. ~New(p, i)
      BY <1>4, <1>7, <2>1, <3>1
    <3>. QED
      BY <1>5, <2>1, <3>2
  <2>2. ASSUME NEW i \in Exist, codes[i].key = w
        PROVE  i \in Exist' /\ codes'[i].key = w
    <3>1. i \in Ids
      BY DEF Exist
    <3>2. ~New(p, i)
      BY <1>4, <3>1
    <3>3. codes'[i] = codes[i]
      BY <3>1, <3>2, InsertRows
    <3>. QED
      BY <2>2, <3>1, <3>3 DEF Exist
  <2>. QED
    BY <2>1, <2>2
<1>8. Cardinality({i \in Exist' : codes'[i].key = k}) = c
  <2>. DEFINE a == m + 1
              b == m + c
  <2>1. {i \in Exist' : codes'[i].key = k} = a .. b
    <3>1. \A i \in Ids : New(p, i) <=> i \in a .. b
      <4>1. \A i \in Ids : i \in Nat
        BY IdsFacts
      <4>2. \A i \in Ids : New(p, i) <=> i - m \in 1 .. c
        BY DEF New
      <4>. HIDE DEF m, c
      <4>. QED
        BY <1>3, <4>1, <4>2
    <3>2. a .. b \subseteq Ids
      <4>1. m + c \in Ids
        BY InsertDoes DEF Inserts
      <4>2. Cardinality(Ids) \in Nat /\ Ids = 1 .. Cardinality(Ids)
        BY CodesAssumption, FS_CardinalityType
      <4>. DEFINE z == Cardinality(Ids)
      <4>3. z \in Nat /\ Ids = 1 .. z
        BY <4>2
      <4>. HIDE DEF m, c, z
      <4>. QED
        BY <1>3, <4>1, <4>3
    <3>. HIDE DEF a, b
    <3>3. ASSUME NEW i \in Exist', codes'[i].key = k
          PROVE  i \in a .. b
      <4>1. i \in Ids
        BY DEF Exist
      <4>2. New(p, i)
        BY <1>2, <1>5, <3>3
      <4>. QED
        BY <3>1, <4>1, <4>2
    <3>4. ASSUME NEW i \in a .. b
          PROVE  i \in Exist' /\ codes'[i].key = k
      BY <1>4, <3>1, <3>2
    <3>. QED
      BY <3>3, <3>4
  <2>2. a \in Int /\ b \in Int /\ ~(a > b) /\ b - a + 1 = c
    <3>. HIDE DEF m, c
    <3>. QED
      BY <1>3
  <2>. HIDE DEF a, b
  <2>3. Cardinality(a .. b) = b - a + 1
    BY <2>2, FS_Interval
  <2>. QED
    BY <2>1, <2>2, <2>3
<1>9. Numbered'
  <2>1. ASSUME NEW w \in Keys
        PROVE  \/ \A i \in Exist' : codes'[i].key # w
               \/ Cardinality({i \in Exist' : codes'[i].key = w}) = Batch[w].count
    <3>1. CASE w = k
      BY <1>8, <3>1
    <3>2. CASE w # k
      <4>1. {i \in Exist' : codes'[i].key = w} = {i \in Exist : codes[i].key = w}
        BY <1>7, <3>2
      <4>. QED
        BY <4>1 DEF CodesInv, Numbered
    <3>. QED
      BY <3>1, <3>2
  <2>. QED
    BY <1>6, <2>1 DEF Numbered, StringOf
<1>10. GeneratorCurrent'
  <2>1. ASSUME NEW q \in Procs
        PROVE  ~(op'[q].kind = "generate" /\ seen'[q].stage = "read")
    <3>1. CASE q = p
      <4>1. seen'[q] = [stage |-> "committed"]
        BY <1>1, <3>1 DEF Types, ProcOK
      <4>. QED
        BY <4>1
    <3>2. CASE q # p
      BY <1>1, <3>2 DEF LocksApart, Locks
    <3>. QED
      BY <3>1, <3>2
  <2>. QED
    BY <2>1 DEF GeneratorCurrent
<1>. QED
  BY <1>9, <1>10 DEF CodesInv

\* Every step keeps strings apart, batches whole and generators current.
LEMMA CodesInvStep ==
    ASSUME Types, LocksApart, CodesInv, Step
    PROVE  CodesInv'
<1>1. CASE \E p \in Procs : InsertCodes(p)
  BY <1>1, CodesInsert
<1>2. CASE \E p \in Procs : ReadBatch(p)
  BY <1>2, CodesRead
<1>3. CASE ~\E p \in Procs : InsertCodes(p) \/ ReadBatch(p)
  <2>1. Stay /\ GensKept
    BY <1>3, OthersStay, GensStep
  <2>. QED
    BY <2>1, NumberedStays, CurrentStays DEF CodesInv
<1>. QED
  BY <1>1, <1>2, <1>3

\* No two codes have one string, whatever strings older codes have, and however
\* often a request is repeated its codes are made once (generateCodes).
THEOREM CodesMadeOnce == Spec => []CodesOnce
<1>1. ASSUME Init
      PROVE  CodesInv
  <2>1. \A i \in Exist : codes[i].key \notin Keys
    BY <1>1, InitRows, CodesAssumption
  <2>2. \A p \in Procs : op[p].kind # "generate"
    <3>1. op = [p \in Procs |-> Idle]
      BY <1>1 DEF Init
    <3>. QED
      BY <3>1 DEF Idle
  <2>. QED
    BY <1>1, <2>1, <2>2, InitRows DEF CodesInv, Numbered, GeneratorCurrent
<1>2. Types /\ LocksApart /\ CodesInv /\ [Next]_vars => CodesInv'
  <2>1. ASSUME Types, LocksApart, CodesInv, Next
        PROVE  CodesInv'
    BY <2>1, CodesInvStep DEF Next
  <2>2. ASSUME CodesInv, UNCHANGED vars
        PROVE  CodesInv'
    <3>1. Stay /\ GensKept
      BY <2>2 DEF vars, rows, Stay, GensKept
    <3>. QED
      BY <2>2, <3>1, NumberedStays, CurrentStays DEF CodesInv
  <2>. QED
    BY <2>1, <2>2
<1>3. CodesInv => CodesOnce
  <2>. SUFFICES ASSUME CodesInv, NEW k \in Keys
                PROVE  Cardinality({i \in Exist : codes[i].key = k}) \in {0, Batch[k].count}
    BY DEF CodesInv, Numbered, CodesOnce
  <2>1. CASE \A i \in Exist : codes[i].key # k
    <3>1. {i \in Exist : codes[i].key = k} = {}
      BY <2>1
    <3>. QED
      BY <3>1, FS_EmptySet
  <2>2. CASE Cardinality({i \in Exist : codes[i].key = k}) = Batch[k].count
    BY <2>2
  <2>. QED
    BY <2>1, <2>2 DEF CodesInv, Numbered
<1>. QED
  BY <1>1, <1>2, <1>3, LocksExclusive, PTL DEF Spec
=============================================================================
