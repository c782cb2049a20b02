---------------------------- MODULE IncomeProofs ----------------------------
(***************************************************************************)
(* Proofs about the income of members, for any tree of members and any     *)
(* number of requests, claims, amounts, days and months: what the engines  *)
(* compute and settle (Engines), and below, how it reaches a wallet        *)
(* (Wallet, which MCWallet names Purse).                                   *)
(***************************************************************************)
EXTENDS Engines, MCWallet, Sums

-----------------------------------------------------------------------------
\* The tables of members.
Sides == Legs \cup {"none"}
Kinds == {"PD", "FS", "CD"}

UserRow ==
    [up : Members \cup {Nobody}, side : Sides, sponsor : Members \cup {Nobody}, day : Days,
     type : Types \cup {0}, current : Types \cup {0}, code : Kinds \cup {"none"},
     cd : {"none", "owing", "paid"}]
UpgradeRow == [points : Nat, day : Days, code : Kinds]
IncomeRow == [direct : Nat, pairing : Nat, leadership : Nat, offset : Nat]

\* In the table u everybody is placed below, and registered by, an earlier member.
Forest(u) ==
    /\ u \in [Members -> UserRow]
    /\ \A m \in Members : /\ u[m].up # Nobody => u[m].up \in Members /\ u[m].up < m
                          /\ u[m].sponsor # Nobody => u[m].sponsor \in Members /\ u[m].sponsor < m

\* What the recursions over the two trees compute.
IsLeg(u, o, leg) ==
    leg = [m \in Members |-> IF u[m].up = Nobody THEN "none"
                             ELSE IF u[m].up = o THEN u[m].side ELSE leg[u[m].up]]
IsDepth(u, o, level) ==
    level = [m \in Members |-> IF m = o THEN 0
                               ELSE IF u[m].sponsor = Nobody THEN -Cardinality(Members)
                               ELSE level[u[m].sponsor] + 1]

\* The assumptions, by name.
LEMMA MembersFacts ==
    /\ IsFiniteSet(Members) /\ Members \subseteq Nat /\ Members # {}
    /\ Nobody \notin Members /\ Root \in Members /\ \A m \in Members : Root <= m
    /\ Cardinality(Members) \in Nat /\ Cardinality(Members) > 0
<1>1. IsFiniteSet(Members) /\ Members \subseteq Nat /\ Root \in Members /\ Nobody \notin Members
  BY EnginesAssumption
<1>2. \A m \in Members : Root <= m
  BY EnginesAssumption
<1>3. Cardinality(Members) \in Nat /\ Cardinality(Members) > 0
  <2>1. Cardinality(Members) \in Nat
    BY <1>1, FS_CardinalityType
  <2>2. Cardinality(Members) # 0
    BY <1>1, FS_EmptySet
  <2>. QED
    BY <2>1, <2>2
<1>. QED
  BY <1>1, <1>2, <1>3

\* A set of members that is not empty has an earliest one.
LEMMA Earliest ==
    ASSUME NEW S, S \subseteq Members, S # {}
    PROVE  \E m \in S : \A x \in S : ~(x < m)
<1>1. IsFiniteSet(S) /\ S \subseteq Nat
  BY MembersFacts, FS_Subset
<1>2. PICK m \in S : \A x \in S : m <= x
  BY <1>1, Smallest
<1>3. \A x \in S : ~(x < m)
  BY <1>1, <1>2
<1>. QED
  BY <1>3

\* The legs of a forest are found.
LEMMA LegExists ==
    ASSUME NEW u, Forest(u), NEW o
    PROVE  \E leg \in [Members -> Sides] : IsLeg(u, o, leg)
<1>. DEFINE G == [p \in [Members -> Sides] \X Members |->
                    IF u[p[2]].up = Nobody THEN "none"
                    ELSE IF u[p[2]].up = o THEN u[p[2]].side ELSE p[1][u[p[2]].up]]
<1>1. \A m \in Members : /\ u[m].side \in Sides
                         /\ u[m].up # Nobody => u[m].up \in Members /\ u[m].up < m
  BY DEF Forest, UserRow
<1>2. \A f \in [Members -> Sides], m \in Members :
          G[<<f, m>>] = IF u[m].up = Nobody THEN "none"
                        ELSE IF u[m].up = o THEN u[m].side ELSE f[u[m].up]
  OBVIOUS
<1>3. G \in [[Members -> Sides] \X Members -> Sides]
  <2>1. ASSUME NEW p \in [Members -> Sides] \X Members
        PROVE  (IF u[p[2]].up = Nobody THEN "none"
                ELSE IF u[p[2]].up = o THEN u[p[2]].side ELSE p[1][u[p[2]].up]) \in Sides
    <3>1. p[1] \in [Members -> Sides] /\ p[2] \in Members
      OBVIOUS
    <3>. QED
      BY <1>1, <3>1 DEF Sides
  <2>. QED
    BY <2>1
<1>. HIDE DEF G
<1>4. \A f, g \in [Members -> Sides], m \in Members :
          (\A x \in Members : x < m => f[x] = g[x]) => G[<<f, m>>] = G[<<g, m>>]
  BY <1>1, <1>2
<1>5. PICK leg \in [Members -> Sides] : \A m \in Members : leg[m] = G[<<leg, m>>]
  <2>1. Sides # {}
    BY DEF Sides
  <2>2. IsFiniteSet(Members) /\ Members \subseteq Nat
    BY MembersFacts
  <2>3. Recursive(G, Members, Sides)
    BY <1>3, <1>4 DEF Recursive
  <2>4. \E F \in [Members -> Sides] : Solves(F, G, Members)
    BY <2>1, <2>2, <2>3, Recursion
  <2>. QED
    BY <2>4 DEF Solves
<1>6. IsLeg(u, o, leg)
  BY <1>2, <1>5 DEF IsLeg
<1>. QED
  BY <1>6

\* Two tables with the same rows for a set of members closed upwards agree on
\* their legs.
LEMMA LegsAgree ==
    ASSUME NEW u, NEW v, NEW P, P \subseteq Members, NEW o,
           \A m \in P : /\ u[m].up = v[m].up /\ u[m].side = v[m].side
                        /\ u[m].up # Nobody => u[m].up \in P /\ u[m].up < m,
           NEW f, IsLeg(u, o, f), NEW g, IsLeg(v, o, g)
    PROVE  \A m \in P : f[m] = g[m]
<1>1. PICK S : S = {m \in P : f[m] # g[m]}
  OBVIOUS
<1>2. ASSUME S # {}
      PROVE  FALSE
  <2>1. PICK m \in S : \A x \in S : ~(x < m)
    BY <1>1, <1>2, Earliest
  <2>2. m \in P /\ m \in Members /\ f[m] # g[m]
    BY <1>1
  <2>3. /\ f[m] = IF u[m].up = Nobody THEN "none" ELSE IF u[m].up = o THEN u[m].side ELSE f[u[m].up]
        /\ g[m] = IF v[m].up = Nobody THEN "none" ELSE IF v[m].up = o THEN v[m].side ELSE g[v[m].up]
    BY <2>2 DEF IsLeg
  <2>4. u[m].up # Nobody => f[u[m].up] = g[u[m].up]
    BY <1>1, <2>1, <2>2
  <2>. QED
    BY <2>2, <2>3, <2>4
<1>. QED
  BY <1>1, <1>2

\* LegOf is the one function of its kind.
LEMMA LegOfIs ==
    ASSUME NEW u, Forest(u), NEW o, NEW leg, leg = CHOOSE f : IsLeg(u, o, f)
    PROVE  leg \in [Members -> Sides] /\ IsLeg(u, o, leg)
<1>1. PICK f \in [Members -> Sides] : IsLeg(u, o, f)
  BY LegExists
<1>2. IsLeg(u, o, leg)
  BY <1>1
<1>3. \A m \in Members : f[m] = leg[m]
  <2>1. \A m \in Members : u[m].up # Nobody => u[m].up \in Members /\ u[m].up < m
    BY DEF Forest
  <2>. QED
    BY <1>1, <1>2, <2>1, LegsAgree
<1>. QED
  BY <1>1, <1>2, <1>3 DEF IsLeg

\* The depths of a forest are found.
LEMMA DepthExists ==
    ASSUME NEW u, Forest(u), NEW o
    PROVE  \E level \in [Members -> Int] : IsDepth(u, o, level)
<1>. DEFINE G == [p \in [Members -> Int] \X Members |->
                    IF p[2] = o THEN 0 ELSE IF u[p[2]].sponsor = Nobody THEN -Cardinality(Members)
                    ELSE p[1][u[p[2]].sponsor] + 1]
<1>1. \A m \in Members : u[m].sponsor # Nobody => u[m].sponsor \in Members /\ u[m].sponsor < m
  BY DEF Forest
<1>2. \A f \in [Members -> Int], m \in Members :
          G[<<f, m>>] = IF m = o THEN 0 ELSE IF u[m].sponsor = Nobody THEN -Cardinality(Members)
                        ELSE f[u[m].sponsor] + 1
  OBVIOUS
<1>3. G \in [[Members -> Int] \X Members -> Int]
  <2>1. ASSUME NEW p \in [Members -> Int] \X Members
        PROVE  (IF p[2] = o THEN 0 ELSE IF u[p[2]].sponsor = Nobody THEN -Cardinality(Members)
                ELSE p[1][u[p[2]].sponsor] + 1) \in Int
    <3>1. p[1] \in [Members -> Int] /\ p[2] \in Members
      OBVIOUS
    <3>2. -Cardinality(Members) \in Int
      BY MembersFacts
    <3>3. u[p[2]].sponsor # Nobody => p[1][u[p[2]].sponsor] + 1 \in Int
      BY <1>1, <3>1
    <3>. QED
      BY <3>2, <3>3
  <2>. QED
    BY <2>1
<1>. HIDE DEF G
<1>4. \A f, g \in [Members -> Int], m \in Members :
          (\A x \in Members : x < m => f[x] = g[x]) => G[<<f, m>>] = G[<<g, m>>]
  BY <1>1, <1>2
<1>5. PICK level \in [Members -> Int] : \A m \in Members : level[m] = G[<<level, m>>]
  <2>1. Int # {}
    OBVIOUS
  <2>2. IsFiniteSet(Members) /\ Members \subseteq Nat
    BY MembersFacts
  <2>3. Recursive(G, Members, Int)
    BY <1>3, <1>4 DEF Recursive
  <2>4. \E F \in [Members -> Int] : Solves(F, G, Members)
    BY <2>1, <2>2, <2>3, Recursion
  <2>. QED
    BY <2>4 DEF Solves
<1>6. IsDepth(u, o, level)
  BY <1>2, <1>5 DEF IsDepth
<1>. QED
  BY <1>6

\* Two tables with the same rows for a set of members closed upwards agree on
\* their depths.
LEMMA DepthsAgree ==
    ASSUME NEW u, NEW v, NEW P, P \subseteq Members, NEW o,
           \A m \in P : /\ u[m].sponsor = v[m].sponsor
                        /\ u[m].sponsor # Nobody => u[m].sponsor \in P /\ u[m].sponsor < m,
           NEW f, IsDepth(u, o, f), NEW g, IsDepth(v, o, g)
    PROVE  \A m \in P : f[m] = g[m]
<1>1. PICK S : S = {m \in P : f[m] # g[m]}
  OBVIOUS
<1>2. ASSUME S # {}
      PROVE  FALSE
  <2>1. PICK m \in S : \A x \in S : ~(x < m)
    BY <1>1, <1>2, Earliest
  <2>2. m \in P /\ m \in Members /\ f[m] # g[m]
    BY <1>1
  <2>3. /\ f[m] = IF m = o THEN 0 ELSE IF u[m].sponsor = Nobody THEN -Cardinality(Members)
                  ELSE f[u[m].sponsor] + 1
        /\ g[m] = IF m = o THEN 0 ELSE IF v[m].sponsor = Nobody THEN -Cardinality(Members)
                  ELSE g[v[m].sponsor] + 1
    BY <2>2 DEF IsDepth
  <2>4. u[m].sponsor # Nobody => f[u[m].sponsor] = g[u[m].sponsor]
    BY <1>1, <2>1, <2>2
  <2>. QED
    BY <2>2, <2>3, <2>4
<1>. QED
  BY <1>1, <1>2

\* Depth is the one function of its kind.
LEMMA DepthIs ==
    ASSUME NEW u, Forest(u), NEW o, NEW level, level = CHOOSE f : IsDepth(u, o, f)
    PROVE  level \in [Members -> Int] /\ IsDepth(u, o, level)
<1>1. PICK f \in [Members -> Int] : IsDepth(u, o, f)
  BY DepthExists
<1>2. IsDepth(u, o, level)
  BY <1>1
<1>3. \A m \in Members : f[m] = level[m]
  <2>1. \A m \in Members : u[m].sponsor # Nobody => u[m].sponsor \in Members /\ u[m].sponsor < m
    BY DEF Forest
  <2>. QED
    BY <1>1, <1>2, <2>1, DepthsAgree
<1>. QED
  BY <1>1, <1>2, <1>3 DEF IsDepth


\* The number of members before m.
Before(m) == Cardinality({x \in Members : x < m})

\* Each member has more members before it than those before it have.
LEMMA BeforeGrows ==
    ASSUME NEW m \in Members
    PROVE  /\ Before(m) \in Nat /\ Before(m) + 1 <= Cardinality(Members)
           /\ \A s \in Members : s < m => Before(s) + 1 <= Before(m)
<1>1. \A x \in Members : x \in Nat
  BY MembersFacts
<1>2. ASSUME NEW x \in Members
      PROVE  IsFiniteSet({y \in Members : y < x}) /\ Before(x) \in Nat
  <2>1. IsFiniteSet({y \in Members : y < x})
    BY MembersFacts, FS_Subset
  <2>. QED
    BY <2>1, FS_CardinalityType DEF Before
<1>3. ASSUME NEW x \in Members, NEW T \in SUBSET Members, x \in T, \A y \in Members : y < x => y \in T
      PROVE  Before(x) + 1 <= Cardinality(T)
  <2>1. PICK B : B = {y \in Members : y < x}
    OBVIOUS
  <2>2. IsFiniteSet(B) /\ Cardinality(B) = Before(x) /\ Before(x) \in Nat
    BY <1>2, <2>1 DEF Before
  <2>3. x \notin B
    BY <1>1, <2>1
  <2>4. IsFiniteSet(B \cup {x}) /\ Cardinality(B \cup {x}) = Before(x) + 1
    BY <2>2, <2>3, FS_AddElement
  <2>5. B \cup {x} \subseteq T
    BY <1>3, <2>1
  <2>6. IsFiniteSet(T)
    BY MembersFacts, FS_Subset
  <2>. QED
    BY <2>4, <2>5, <2>6, FS_Subset
<1>4. Before(m) + 1 <= Cardinality(Members)
  BY <1>3
<1>5. ASSUME NEW s \in Members, s < m
      PROVE  Before(s) + 1 <= Before(m)
  <2>1. PICK T : T = {y \in Members : y < m}
    OBVIOUS
  <2>2. T \in SUBSET Members /\ s \in T /\ \A y \in Members : y < s => y \in T
    <3>1. \A y \in Members : y < s => y < m
      BY <1>1, <1>5
    <3>. QED
      BY <1>5, <2>1, <3>1
  <2>. QED
    BY <1>3, <2>1, <2>2 DEF Before
<1>. QED
  BY <1>2, <1>4, <1>5

\* A member that o did not bring in has a depth far below 0.
LEMMA DepthBelow ==
    ASSUME NEW u, Forest(u), NEW o, NEW level \in [Members -> Int], IsDepth(u, o, level)
    PROVE  \A m \in Members : level[m] >= 0 \/ level[m] <= Before(m) - Cardinality(Members)
<1>1. PICK S : S = {m \in Members : ~(level[m] >= 0 \/ level[m] <= Before(m) - Cardinality(Members))}
  OBVIOUS
<1>2. ASSUME S # {}
      PROVE  FALSE
  <2>1. PICK m \in S : \A x \in S : ~(x < m)
    BY <1>1, <1>2, Earliest
  <2>2. /\ m \in Members /\ level[m] \in Int
        /\ ~(level[m] >= 0) /\ ~(level[m] <= Before(m) - Cardinality(Members))
    BY <1>1
  <2>3. level[m] = IF m = o THEN 0 ELSE IF u[m].sponsor = Nobody THEN -Cardinality(Members)
                   ELSE level[u[m].sponsor] + 1
    BY <2>2 DEF IsDepth
  <2>4. PICK n \in Nat : n = Cardinality(Members)
    BY MembersFacts
  <2>5. Before(m) \in Nat
    BY <2>2, BeforeGrows
  <2>6. m # o /\ u[m].sponsor # Nobody
    BY <2>2, <2>3, <2>4, <2>5
  <2>7. PICK s \in Members : s = u[m].sponsor /\ s < m
    BY <2>2, <2>6 DEF Forest
  <2>8. level[s] >= 0 \/ level[s] <= Before(s) - n
    BY <1>1, <2>1, <2>4, <2>7
  <2>9. Before(s) \in Nat /\ Before(s) + 1 <= Before(m) /\ level[s] \in Int /\ level[m] = level[s] + 1
    BY <2>2, <2>3, <2>6, <2>7, BeforeGrows
  <2>. QED
    BY <2>2, <2>4, <2>5, <2>8, <2>9
<1>. QED
  BY <1>1, <1>2

\* So depth 0 is oneself,
LEMMA DepthZero ==
    ASSUME NEW u, Forest(u), NEW o, NEW level \in [Members -> Int], IsDepth(u, o, level),
           NEW m \in Members, level[m] = 0
    PROVE  m = o
<1>1. ASSUME m # o
      PROVE  FALSE
  <2>1. level[m] = IF u[m].sponsor = Nobody THEN -Cardinality(Members) ELSE level[u[m].sponsor] + 1
    BY <1>1 DEF IsDepth
  <2>2. PICK n \in Nat : n = Cardinality(Members) /\ n > 0
    BY MembersFacts
  <2>3. u[m].sponsor # Nobody
    BY <2>1, <2>2
  <2>4. PICK s \in Members : s = u[m].sponsor /\ s < m
    BY <2>3 DEF Forest
  <2>5. level[s] \in Int /\ level[s] + 1 = 0
    BY <2>1, <2>3, <2>4
  <2>6. /\ Before(s) \in Nat /\ Before(m) \in Nat
        /\ Before(s) + 1 <= Before(m) /\ Before(m) + 1 <= n
    BY <2>2, <2>4, BeforeGrows
  <2>7. level[s] >= 0 \/ level[s] <= Before(s) - n
    BY <2>2, DepthBelow
  <2>. QED
    BY <2>2, <2>5, <2>6, <2>7
<1>. QED
  BY <1>1

\* a greater depth is the sponsor's and one more,
LEMMA DepthNext ==
    ASSUME NEW u, Forest(u), NEW o, NEW level \in [Members -> Int], IsDepth(u, o, level),
           NEW m \in Members, level[m] > 0
    PROVE  /\ m # o /\ u[m].sponsor \in Members /\ u[m].sponsor < m
           /\ level[u[m].sponsor] = level[m] - 1
<1>1. level[m] = IF m = o THEN 0 ELSE IF u[m].sponsor = Nobody THEN -Cardinality(Members)
                 ELSE level[u[m].sponsor] + 1
  BY DEF IsDepth
<1>2. PICK n \in Nat : n = Cardinality(Members)
  BY MembersFacts
<1>3. m # o /\ u[m].sponsor # Nobody
  BY <1>1, <1>2
<1>4. u[m].sponsor \in Members /\ u[m].sponsor < m
  BY <1>3 DEF Forest
<1>5. level[u[m].sponsor] \in Int /\ level[m] \in Int
  BY <1>4
<1>. QED
  BY <1>1, <1>3, <1>4, <1>5

\* and a member has one ancestor at each depth.
LEMMA OneAncestor ==
    ASSUME NEW u, Forest(u), NEW o, NEW p,
           NEW f \in [Members -> Int], IsDepth(u, o, f),
           NEW g \in [Members -> Int], IsDepth(u, p, g)
    PROVE  \A m \in Members : f[m] >= 0 /\ f[m] = g[m] => o = p
<1>1. PICK S : S = {m \in Members : f[m] >= 0 /\ f[m] = g[m] /\ o # p}
  OBVIOUS
<1>2. ASSUME S # {}
      PROVE  FALSE
  <2>1. PICK m \in S : \A x \in S : ~(x < m)
    BY <1>1, <1>2, Earliest
  <2>2. m \in Members /\ f[m] >= 0 /\ f[m] = g[m] /\ o # p /\ f[m] \in Int
    BY <1>1
  <2>3. CASE f[m] = 0
    <3>1. m = o /\ m = p
      BY <2>2, <2>3, DepthZero
    <3>. QED
      BY <2>2, <3>1
  <2>4. CASE f[m] > 0
    <3>1. PICK s \in Members : s = u[m].sponsor /\ s < m /\ f[s] = f[m] - 1
      BY <2>2, <2>4, DepthNext
    <3>2. g[m] > 0
      BY <2>2, <2>4
    <3>3. g[s] = g[m] - 1
      BY <2>2, <3>1, <3>2, DepthNext
    <3>4. f[s] >= 0 /\ f[s] = g[s]
      BY <2>2, <2>4, <3>1, <3>3
    <3>. QED
      BY <1>1, <2>1, <2>2, <3>1, <3>4
  <2>. QED
    BY <2>2, <2>3, <2>4
<1>. QED
  BY <1>1, <1>2

\* The rates of the five levels come to 10.
LEMMA RatesSum ==
    /\ \A k \in Int : LeadershipRate(k) \in Nat /\ (k \notin 1 .. 5 => LeadershipRate(k) = 0)
    /\ SumFunctionOnSet([k \in 1 .. 5 |-> LeadershipRate(k)], 1 .. 5) = 10
<1>1. \A k \in Int : LeadershipRate(k) = IF k = 1 THEN 5 ELSE IF k = 2 THEN 2 ELSE IF k \in 3 .. 5 THEN 1 ELSE 0
  BY DEF LeadershipRate
<1>2. PICK g : g = [k \in 1 .. 5 |-> LeadershipRate(k)]
  OBVIOUS
<1>3. g[1] = 5 /\ g[2] = 2 /\ g[3] = 1 /\ g[4] = 1 /\ g[5] = 1
  BY <1>1, <1>2
<1>4. /\ SumFunctionOnSet(g, {1}) = 5 /\ SumFunctionOnSet(g, {1, 2}) = 7
      /\ SumFunctionOnSet(g, {1, 2, 3}) = 8 /\ SumFunctionOnSet(g, {1, 2, 3, 4}) = 9
      /\ SumFunctionOnSet(g, {1, 2, 3, 4, 5}) = 10
  <2>0. /\ IsFiniteSet({}) /\ IsFiniteSet({1}) /\ IsFiniteSet({1, 2}) /\ IsFiniteSet({1, 2, 3})
        /\ IsFiniteSet({1, 2, 3, 4})
    <3>1. IsFiniteSet({})
      BY FS_EmptySet
    <3>2. IsFiniteSet({} \cup {1})
      BY <3>1, FS_AddElement
    <3>3. IsFiniteSet({1} \cup {2})
      BY <3>2, FS_AddElement
    <3>4. {1} \cup {2} = {1, 2}
      OBVIOUS
    <3>5. IsFiniteSet({1, 2} \cup {3})
      BY <3>3, <3>4, FS_AddElement
    <3>6. {1, 2} \cup {3} = {1, 2, 3}
      OBVIOUS
    <3>7. IsFiniteSet({1, 2, 3} \cup {4})
      BY <3>5, <3>6, FS_AddElement
    <3>8. {1, 2, 3} \cup {4} = {1, 2, 3, 4}
      OBVIOUS
    <3>. QED
      BY <3>1, <3>2, <3>3, <3>4, <3>5, <3>6, <3>7, <3>8
  <2>1. /\ {} \cup {1} = {1} /\ {1} \cup {2} = {1, 2} /\ {1, 2} \cup {3} = {1, 2, 3}
        /\ {1, 2, 3} \cup {4} = {1, 2, 3, 4} /\ {1, 2, 3, 4} \cup {5} = {1, 2, 3, 4, 5}
    OBVIOUS
  <2>2. SumFunctionOnSet(g, {}) = 0
    BY SumEmpty
  <2>3. SumFunctionOnSet(g, {} \cup {1}) = 5 + 0
    BY <1>3, <2>0, <2>2, SumAdd
  <2>4. SumFunctionOnSet(g, {1} \cup {2}) = 2 + 5
    BY <1>3, <2>0, <2>1, <2>3, SumAdd
  <2>5. SumFunctionOnSet(g, {1, 2} \cup {3}) = 1 + 7
    <3>1. 3 \notin {1, 2} /\ \A y \in {1, 2} \cup {3} : g[y] \in Int
      BY <1>3
    <3>2. SumFunctionOnSet(g, {1, 2} \cup {3}) = g[3] + SumFunctionOnSet(g, {1, 2})
      BY <2>0, <3>1, SumAdd
    <3>. QED
      BY <1>3, <2>1, <2>4, <3>2
  <2>6. SumFunctionOnSet(g, {1, 2, 3} \cup {4}) = 1 + 8
    <3>1. 4 \notin {1, 2, 3} /\ \A y \in {1, 2, 3} \cup {4} : g[y] \in Int
      BY <1>3
    <3>2. SumFunctionOnSet(g, {1, 2, 3} \cup {4}) = g[4] + SumFunctionOnSet(g, {1, 2, 3})
      BY <2>0, <3>1, SumAdd
    <3>. QED
      BY <1>3, <2>1, <2>5, <3>2
  <2>7. SumFunctionOnSet(g, {1, 2, 3, 4} \cup {5}) = 1 + 9
    <3>1. 5 \notin {1, 2, 3, 4} /\ \A y \in {1, 2, 3, 4} \cup {5} : g[y] \in Int
      BY <1>3
    <3>2. SumFunctionOnSet(g, {1, 2, 3, 4} \cup {5}) = g[5] + SumFunctionOnSet(g, {1, 2, 3, 4})
      BY <2>0, <3>1, SumAdd
    <3>. QED
      BY <1>3, <2>1, <2>6, <3>2
  <2>. QED
    BY <2>1, <2>3, <2>4, <2>5, <2>6, <2>7
<1>5. 1 .. 5 = {1, 2, 3, 4, 5}
  OBVIOUS
<1>6. \A k \in Int : LeadershipRate(k) \in Nat /\ (k \notin 1 .. 5 => LeadershipRate(k) = 0)
  BY <1>1
<1>7. SumFunctionOnSet(g, 1 .. 5) = 10
  BY <1>4, <1>5
<1>. QED
  BY <1>2, <1>6, <1>7

\* What a member's pairing passes up, to all members together, is a tenth.
LEMMA RatesBound ==
    ASSUME NEW u, Forest(u), NEW m \in Members, NEW level, NEW w,
           \A o \in Members : /\ level[o] \in [Members -> Int] /\ IsDepth(u, o, level[o])
                              /\ w[o] = LeadershipRate(level[o][m])
    PROVE  SumFunctionOnSet(w, Members) <= 10
<1>1. PICK R : R = {o \in Members : level[o][m] \in 1 .. 5}
  OBVIOUS
<1>2. PICK h : h = [o \in R |-> level[o][m]]
  OBVIOUS
<1>3. PICK S : S = {h[o] : o \in R}
  OBVIOUS
<1>4. PICK g : g = [k \in 1 .. 5 |-> LeadershipRate(k)]
  OBVIOUS
<1>5. /\ R \subseteq Members /\ S \subseteq 1 .. 5 /\ h \in [R -> S]
      /\ \A k \in 1 .. 5 : g[k] \in Nat /\ g[k] \in Int
  BY <1>1, <1>2, <1>3, <1>4, RatesSum
<1>6. \A o, p \in R : h[o] = h[p] => o = p
  <2>1. ASSUME NEW o \in R, NEW p \in R, h[o] = h[p]
        PROVE  o = p
    <3>1. PICK f : f = level[o]
      OBVIOUS
    <3>2. PICK q : q = level[p]
      OBVIOUS
    <3>3. f \in [Members -> Int] /\ IsDepth(u, o, f) /\ q \in [Members -> Int] /\ IsDepth(u, p, q)
      BY <1>5, <3>1, <3>2
    <3>4. f[m] = q[m] /\ f[m] >= 0
      BY <1>1, <1>2, <2>1, <3>1, <3>2
    <3>. QED
      BY <3>3, <3>4, OneAncestor
  <2>. QED
    BY <2>1
<1>7. h \in Bijection(R, S)
  BY <1>3, <1>5, <1>6 DEF Bijection, Injection, Surjection, IsInjective
<1>8. IsFiniteSet(S) /\ IsFiniteSet(1 .. 5)
  <2>1. IsFiniteSet(1 .. 5)
    <3>1. 1 \in Int /\ 5 \in Int
      OBVIOUS
    <3>. QED
      BY <3>1, FS_Interval
  <2>. QED
    BY <1>5, <2>1, FS_Subset
<1>9. \A o \in R : w[o] = g[h[o]] /\ w[o] \in Int
  BY <1>1, <1>2, <1>4, <1>5
<1>10. SumFunctionOnSet(w, R) = SumFunctionOnSet(g, S)
  BY <1>7, <1>8, <1>9, SumRenamed
<1>11. SumFunctionOnSet(g, S) <= SumFunctionOnSet(g, 1 .. 5)
  <2>1. S \in SUBSET (1 .. 5)
    BY <1>5
  <2>. QED
    BY <1>5, <1>8, <2>1, SumSubset
<1>12. SumFunctionOnSet(w, Members) = SumFunctionOnSet(w, R)
  <2>1. PICK Q : Q = Members \ R
    OBVIOUS
  <2>2. IsFiniteSet(Q) /\ IsFiniteSet(R) /\ R \cap Q = {} /\ R \cup Q = Members
    <3>1. IsFiniteSet(Q) /\ IsFiniteSet(R)
      BY <1>5, <2>1, MembersFacts, FS_Subset
    <3>. QED
      BY <1>5, <2>1, <3>1
  <2>3. \A o \in Q : w[o] = 0
    BY <1>1, <2>1, RatesSum
  <2>4. SumFunctionOnSet(w, Q) = 0
    BY <2>2, <2>3, SumZero
  <2>5. \A o \in R \cup Q : w[o] \in Int
    BY <1>9, <2>3
  <2>6. SumFunctionOnSet(w, R \cup Q) = SumFunctionOnSet(w, R) + SumFunctionOnSet(w, Q)
    BY <2>2, <2>5, SumUnion
  <2>7. SumFunctionOnSet(w, R) \in Int
    BY <1>9, <2>2, SumInt
  <2>8. SumFunctionOnSet(w, R \cup Q) = SumFunctionOnSet(w, R)
    BY <2>4, <2>6, <2>7
  <2>. QED
    BY <2>2, <2>8
<1>13. SumFunctionOnSet(g, 1 .. 5) = 10
  BY <1>4, RatesSum
<1>. QED
  BY <1>10, <1>11, <1>12, <1>13

-----------------------------------------------------------------------------
\* The network: the two trees, the accounts and what is stored of them.

In(u) == {m \in Members : u[m] # Absent}

\* The rows of members and of their upgrades; members register in order.
Tables(u, up) ==
    /\ Forest(u)
    /\ up \in [Members -> Seq(UpgradeRow)]
    /\ \A m \in In(u) : /\ u[m].type \in Types /\ u[m].current \in Types
                        /\ \A x \in Members : x < m => x \in In(u)

Counted(u, up) == {m \in In(u) : Counts(u, up, m)}

NetworkInv ==
    /\ Tables(user, upgrades) /\ day \in Days
    /\ everIn \subseteq Members
    /\ Counted(user, upgrades) \subseteq everIn /\ everIn \subseteq In(user)
    /\ stored \in [Members -> IncomeRow] /\ bought \in [Members -> Nat]
    /\ \A m \in Members \ In(user) : stored[m] = NoIncome

\* What no step changes in the row of a member.
Grown(u, v) ==
    /\ In(u) \subseteq In(v)
    /\ \A m \in In(u) : /\ v[m].up = u[m].up /\ v[m].side = u[m].side /\ v[m].sponsor = u[m].sponsor
                        /\ v[m].day = u[m].day /\ v[m].type = u[m].type
Upgraded(up, vp) ==
    \A m \in Members : vp[m] = up[m] \/ \E r \in UpgradeRow : vp[m] = Append(up[m], r)

\* Present members, and those that count, in terms of the tables.
LEMMA PresentIs ==
    /\ Present = In(user) /\ Present' = In(user')
    /\ Sources = Counted(user, upgrades) /\ Sources' = Counted(user', upgrades')
BY DEF Present, In, Sources, Counted

\* A present member's elders in the two trees are present.
LEMMA EldersPresent ==
    ASSUME NEW u, NEW up, Tables(u, up)
    PROVE  \A m \in In(u) :
             /\ m \in Members
             /\ u[m].up # Nobody => u[m].up \in In(u) /\ u[m].up < m
             /\ u[m].sponsor # Nobody => u[m].sponsor \in In(u) /\ u[m].sponsor < m
BY DEF Tables, Forest, In

\* The first state.
LEMMA NetworkInit ==
    ASSUME Init
    PROVE  NetworkInv
<1>1. PICK u : u = user
  OBVIOUS
<1>2. /\ u \in [Members -> {u[m] : m \in Members}]
      /\ \A m \in Members : m # Root => u[m] = Absent
      /\ u[Root] = [Absent EXCEPT !.type = Package[Root], !.current = Package[Root], !.code = "PD"]
  BY <1>1, MembersFacts DEF Init
<1>3. /\ Package[Root] \in Types /\ 0 \in Days /\ LastDay \in Nat
  BY EnginesAssumption DEF Days
<1>4. Absent \in UserRow /\ Absent.up = Nobody /\ Absent.sponsor = Nobody /\ Absent.code = "none"
  BY <1>3 DEF Absent, UserRow, Sides, Kinds
<1>5. /\ u[Root] \in UserRow /\ u[Root].up = Nobody /\ u[Root].sponsor = Nobody /\ u[Root].code = "PD"
      /\ u[Root].type \in Types /\ u[Root].current \in Types
  <2>1. Absent = [up |-> Nobody, side |-> "none", sponsor |-> Nobody, day |-> 0,
                  type |-> 0, current |-> 0, code |-> "none", cd |-> "none"]
    BY DEF Absent
  <2>2. u[Root] = [up |-> Nobody, side |-> "none", sponsor |-> Nobody, day |-> 0, type |-> Package[Root],
                   current |-> Package[Root], code |-> "PD", cd |-> "none"]
    BY <1>2, <2>1
  <2>. QED
    BY <1>3, <2>2 DEF UserRow, Sides, Kinds
<1>6. In(u) = {Root}
  BY <1>2, <1>4, <1>5, MembersFacts DEF In
<1>7. Forest(u)
  <2>1. \A m \in Members : u[m] \in UserRow /\ u[m].up = Nobody /\ u[m].sponsor = Nobody
    BY <1>2, <1>4, <1>5
  <2>. QED
    BY <1>2, <2>1 DEF Forest
<1>8. upgrades \in [Members -> Seq(UpgradeRow)]
  <2>1. upgrades = [x \in Members |-> <<>>]
    BY DEF Init
  <2>2. <<>> \in Seq(UpgradeRow)
    OBVIOUS
  <2>. QED
    BY <2>1, <2>2
<1>9. \A x \in Members : ~(x < Root)
  BY MembersFacts
<1>10. Tables(user, upgrades)
  BY <1>1, <1>5, <1>6, <1>7, <1>8, <1>9 DEF Tables
<1>11. everIn = {Root} /\ Counted(user, upgrades) \subseteq everIn /\ everIn \subseteq In(user)
  BY <1>1, <1>6 DEF Init, Counted
<1>12. /\ stored \in [Members -> IncomeRow] /\ bought \in [Members -> Nat] /\ day \in Days
       /\ \A m \in Members \ In(user) : stored[m] = NoIncome
  BY <1>3 DEF Init, IncomeRow, NoIncome
<1>. QED
  BY <1>10, <1>11, <1>12, MembersFacts DEF NetworkInv

\* A row that is written.
LEMMA RowWritten ==
    ASSUME NEW u, NEW up, Tables(u, up), NEW m \in Members, NEW row \in UserRow,
           NEW v, v = [u EXCEPT ![m] = row],
           row # Absent, row.type \in Types, row.current \in Types,
           row.up # Nobody => row.up \in Members /\ row.up < m,
           row.sponsor # Nobody => row.sponsor \in Members /\ row.sponsor < m,
           \A x \in Members : x < m => x \in In(u)
    PROVE  Tables(v, up) /\ In(v) = In(u) \cup {m}
<1>1. u \in [Members -> UserRow] /\ v \in [Members -> UserRow]
  BY DEF Tables, Forest
<1>2. v[m] = row /\ \A x \in Members : x # m => v[x] = u[x]
  BY <1>1
<1>3. In(v) = In(u) \cup {m}
  BY <1>2 DEF In
<1>4. Forest(v)
  BY <1>1, <1>2 DEF Tables, Forest
<1>5. ASSUME NEW x \in In(v)
      PROVE  /\ v[x].type \in Types /\ v[x].current \in Types
             /\ \A y \in Members : y < x => y \in In(v)
  <2>1. CASE x = m
    BY <1>2, <1>3, <2>1
  <2>2. CASE x # m
    <3>1. x \in In(u) /\ x \in Members
      BY <1>3, <1>5, <2>2 DEF In
    <3>2. u[x].type \in Types /\ u[x].current \in Types /\ \A y \in Members : y < x => y \in In(u)
      BY <3>1 DEF Tables
    <3>. QED
      BY <1>2, <1>3, <2>2, <3>1, <3>2
  <2>. QED
    BY <2>1, <2>2
<1>. QED
  BY <1>3, <1>4, <1>5 DEF Tables

\* Members that count are noted.
LEMMA NotedKeeps ==
    ASSUME NetworkInv, Noted, In(user) \subseteq In(user')
    PROVE  /\ everIn \subseteq everIn' /\ everIn' \subseteq Members
           /\ Counted(user', upgrades') \subseteq everIn' /\ everIn' \subseteq In(user')
<1>1. everIn' = everIn \cup Counted(user', upgrades')
  BY DEF Noted, Counted, In
<1>2. Counted(user', upgrades') \subseteq In(user') /\ In(user') \subseteq Members
  BY DEF Counted, In
<1>. QED
  BY <1>1, <1>2 DEF NetworkInv

\* A registration.
LEMMA NetworkJoin ==
    ASSUME NetworkInv, NEW m \in Members, NEW s, NEW slot, slot.side \in Legs,
           NEW code \in Kinds, NEW lost, Join(m, s, slot, code, lost)
    PROVE  /\ NetworkInv' /\ Grown(user, user') /\ Upgraded(upgrades, upgrades')
           /\ everIn \subseteq everIn' /\ UNCHANGED stored
<1>1. PICK row : row = [up |-> slot.up, side |-> slot.side, sponsor |-> s, day |-> day, type |-> Package[m],
                        current |-> Package[m], code |-> code, cd |-> Debt(code)]
  OBVIOUS
<1>2. /\ m \notin In(user) /\ \A x \in Members : x < m => x \in In(user)
      /\ s \in In(user) /\ slot.up \in In(user)
      /\ user' = [user EXCEPT ![m] = row]
      /\ UNCHANGED <<day, upgrades, bought, stored>> /\ Noted
  BY <1>1, PresentIs DEF Join
<1>3. s \in Members /\ slot.up \in Members /\ s < m /\ slot.up < m
  <2>1. ASSUME NEW x \in In(user)
        PROVE  x \in Members /\ x < m
    <3>1. x \in Members /\ x # m
      BY <1>2 DEF In
    <3>2. ~(m < x)
      BY <1>2 DEF NetworkInv, Tables
    <3>3. x \in Nat /\ m \in Nat
      BY <3>1, MembersFacts
    <3>. QED
      BY <3>1, <3>2, <3>3
  <2>. QED
    BY <1>2, <2>1
<1>4. row \in UserRow /\ row # Absent /\ row.type \in Types /\ row.current \in Types
  <2>1. Package[m] \in Types /\ day \in Days /\ Debt(code) \in {"none", "owing", "paid"}
    BY EnginesAssumption DEF NetworkInv, Debt
  <2>2. row.code # Absent.code
    BY <1>1 DEF Absent, Kinds
  <2>. QED
    BY <1>1, <1>3, <2>1, <2>2 DEF UserRow, Sides
<1>5. row.up \in Members /\ row.up < m /\ row.sponsor \in Members /\ row.sponsor < m
  BY <1>1, <1>3
<1>6. Tables(user', upgrades) /\ In(user') = In(user) \cup {m}
  <2>1. Tables(user, upgrades)
    BY DEF NetworkInv
  <2>2. PICK v : v = user'
    OBVIOUS
  <2>. QED
    BY <1>2, <1>4, <1>5, <2>1, <2>2, RowWritten
<1>7. /\ everIn \subseteq everIn' /\ everIn' \subseteq Members
      /\ Counted(user', upgrades') \subseteq everIn' /\ everIn' \subseteq In(user')
  BY <1>2, <1>6, NotedKeeps
<1>8. Grown(user, user')
  <2>1. \A x \in In(user) : user'[x] = user[x]
    BY <1>2 DEF In, NetworkInv, Tables, Forest
  <2>. QED
    BY <1>6, <2>1 DEF Grown
<1>9. Upgraded(upgrades, upgrades')
  BY <1>2 DEF Upgraded
<1>10. NetworkInv'
  BY <1>2, <1>6, <1>7 DEF NetworkInv
<1>. QED
  BY <1>2, <1>7, <1>8, <1>9, <1>10

\* An upgrade.
LEMMA NetworkUpgrade ==
    ASSUME NetworkInv, NEW m \in Members, Upgrade(m)
    PROVE  /\ NetworkInv' /\ Grown(user, user') /\ Upgraded(upgrades, upgrades')
           /\ everIn \subseteq everIn' /\ UNCHANGED stored
<1>1. PICK type \in Types, code \in UpgradeCodes :
          /\ m \in In(user)
          /\ user' = [user EXCEPT ![m].current = type, ![m].code = code, ![m].cd = Debt(code)]
          /\ upgrades' = [upgrades EXCEPT ![m] = Append(@, [points |-> Points[type], day |-> day, code |-> code])]
          /\ Noted /\ UNCHANGED <<day, bought, stored>>
  BY PresentIs DEF Upgrade
<1>2. code \in Kinds /\ Points[type] \in Nat /\ day \in Days /\ Debt(code) \in {"none", "owing", "paid"}
  <2>1. UpgradeCodes \subseteq Kinds /\ Points \in [Types -> Nat]
    BY EnginesAssumption DEF Kinds
  <2>. QED
    BY <2>1 DEF NetworkInv, Debt
<1>3. PICK row : row = [user[m] EXCEPT !.current = type, !.code = code, !.cd = Debt(code)]
  OBVIOUS
<1>4. user[m] \in UserRow /\ user \in [Members -> UserRow]
  BY DEF NetworkInv, Tables, Forest
<1>5. /\ row \in UserRow /\ row.type = user[m].type /\ row.current = type /\ row.code = code
      /\ row.up = user[m].up /\ row.side = user[m].side /\ row.sponsor = user[m].sponsor
      /\ row.day = user[m].day
  BY <1>2, <1>3, <1>4 DEF UserRow
<1>6. user' = [user EXCEPT ![m] = row]
  BY <1>1, <1>3, <1>4
<1>7. row # Absent
  <2>1. row.code # Absent.code
    BY <1>2, <1>5 DEF Absent, Kinds
  <2>. QED
    BY <2>1
<1>8. /\ row.type \in Types /\ row.current \in Types
      /\ row.up # Nobody => row.up \in Members /\ row.up < m
      /\ row.sponsor # Nobody => row.sponsor \in Members /\ row.sponsor < m
      /\ \A x \in Members : x < m => x \in In(user)
  BY <1>1, <1>5 DEF NetworkInv, Tables, Forest
<1>9. Tables(user', upgrades) /\ In(user') = In(user)
  <2>1. Tables(user, upgrades)
    BY DEF NetworkInv
  <2>2. PICK v : v = user'
    OBVIOUS
  <2>3. Tables(v, upgrades) /\ In(v) = In(user) \cup {m}
    BY <1>5, <1>6, <1>7, <1>8, <2>1, <2>2, RowWritten
  <2>. QED
    BY <1>1, <2>2, <2>3
<1>10. PICK r : r = [points |-> Points[type], day |-> day, code |-> code]
  OBVIOUS
<1>11. r \in UpgradeRow
  BY <1>2, <1>10 DEF UpgradeRow
<1>12. upgrades \in [Members -> Seq(UpgradeRow)] /\ upgrades' = [upgrades EXCEPT ![m] = Append(upgrades[m], r)]
  BY <1>1, <1>10 DEF NetworkInv, Tables
<1>13. upgrades' \in [Members -> Seq(UpgradeRow)]
  <2>1. Append(upgrades[m], r) \in Seq(UpgradeRow)
    BY <1>11, <1>12
  <2>. QED
    BY <1>12, <2>1
<1>14. Upgraded(upgrades, upgrades')
  BY <1>11, <1>12 DEF Upgraded
<1>15. Grown(user, user')
  <2>1. user'[m] = row /\ \A x \in Members : x # m => user'[x] = user[x]
    BY <1>4, <1>6
  <2>2. \A x \in In(user) : x \in Members
    BY DEF In
  <2>. QED
    BY <1>5, <1>9, <2>1, <2>2 DEF Grown
<1>16. Tables(user', upgrades')
  BY <1>9, <1>13 DEF Tables
<1>17. /\ everIn \subseteq everIn' /\ everIn' \subseteq Members
       /\ Counted(user', upgrades') \subseteq everIn' /\ everIn' \subseteq In(user')
  BY <1>1, <1>9, NotedKeeps
<1>18. NetworkInv'
  BY <1>1, <1>9, <1>16, <1>17 DEF NetworkInv
<1>. QED
  BY <1>1, <1>14, <1>15, <1>17, <1>18

\* A debt that is paid.
LEMMA NetworkPayOff ==
    ASSUME NetworkInv, NEW m \in Members, PayOff(m)
    PROVE  /\ NetworkInv' /\ Grown(user, user') /\ Upgraded(upgrades, upgrades')
           /\ everIn \subseteq everIn' /\ UNCHANGED stored
<1>1. /\ m \in In(user) /\ user[m].cd = "owing"
      /\ user' = [user EXCEPT ![m].cd = "paid"]
      /\ Noted /\ UNCHANGED <<day, upgrades, bought, stored>>
  BY PresentIs DEF PayOff
<1>2. user[m] \in UserRow /\ user \in [Members -> UserRow]
  BY DEF NetworkInv, Tables, Forest
<1>3. PICK row : row = [user[m] EXCEPT !.cd = "paid"]
  OBVIOUS
<1>4. /\ row \in UserRow /\ row.type = user[m].type /\ row.current = user[m].current
      /\ row.up = user[m].up /\ row.side = user[m].side /\ row.sponsor = user[m].sponsor
      /\ row.day = user[m].day /\ row.cd = "paid"
  BY <1>2, <1>3 DEF UserRow
<1>5. user' = [user EXCEPT ![m] = row]
  BY <1>1, <1>2, <1>3
<1>6. row # Absent
  <2>1. row.cd # Absent.cd
    BY <1>4 DEF Absent
  <2>. QED
    BY <2>1
<1>7. /\ row.type \in Types /\ row.current \in Types
      /\ row.up # Nobody => row.up \in Members /\ row.up < m
      /\ row.sponsor # Nobody => row.sponsor \in Members /\ row.sponsor < m
      /\ \A x \in Members : x < m => x \in In(user)
  BY <1>1, <1>4 DEF NetworkInv, Tables, Forest
<1>8. Tables(user', upgrades) /\ In(user') = In(user)
  <2>1. Tables(user, upgrades)
    BY DEF NetworkInv
  <2>2. PICK v : v = user'
    OBVIOUS
  <2>3. Tables(v, upgrades) /\ In(v) = In(user) \cup {m}
    BY <1>4, <1>5, <1>6, <1>7, <2>1, <2>2, RowWritten
  <2>. QED
    BY <1>1, <2>2, <2>3
<1>9. Grown(user, user')
  <2>1. user'[m] = row /\ \A x \in Members : x # m => user'[x] = user[x]
    BY <1>2, <1>5
  <2>2. \A x \in In(user) : x \in Members
    BY DEF In
  <2>. QED
    BY <1>4, <1>8, <2>1, <2>2 DEF Grown
<1>10. /\ everIn \subseteq everIn' /\ everIn' \subseteq Members
       /\ Counted(user', upgrades') \subseteq everIn' /\ everIn' \subseteq In(user')
  BY <1>1, <1>8, NotedKeeps
<1>11. NetworkInv'
  BY <1>1, <1>8, <1>10 DEF NetworkInv
<1>. QED
  BY <1>1, <1>9, <1>10, <1>11 DEF Upgraded

\* A step that leaves the trees alone.
LEMMA NetworkSame ==
    ASSUME NetworkInv, UNCHANGED <<user, upgrades, everIn>>, day' \in Days, bought' \in [Members -> Nat]
    PROVE  /\ Grown(user, user') /\ Upgraded(upgrades, upgrades') /\ everIn \subseteq everIn'
           /\ UNCHANGED stored => NetworkInv'
BY DEF NetworkInv, Grown, Upgraded

-----------------------------------------------------------------------------
\* What a member brings, and what its pairing is matched from.

Weight(u, up, m) ==
    Points[u[m].type] + SumFunctionOnSet([i \in DOMAIN up[m] |-> up[m][i].points], DOMAIN up[m])
LegTree(u, o) == CHOOSE leg : IsLeg(u, o, leg)
InLeg(u, E, o, side) == {m \in E : LegTree(u, o)[m] = side}
Total(u, up, E, o, side) ==
    SumFunctionOnSet([m \in InLeg(u, E, o, side) |-> Weight(u, up, m)], InLeg(u, E, o, side))

\* The model's operators in terms of the tables.
LEMMA NetworkIs ==
    /\ \A m : PointsOf(m) = Weight(user, upgrades, m)
    /\ \A o : LegOf(o) = LegTree(user, o)
    /\ \A o, side : Sum({m \in everIn : LegOf(o)[m] = side}, PointsOf) = Total(user, upgrades, everIn, o, side)
    /\ \A o, side : LegMembers(o, side) = InLeg(user, Counted(user, upgrades), o, side)
<1>1. \A o : LegOf(o) = LegTree(user, o)
  BY DEF LegOf, LegTree, IsLeg
<1>2. \A m : PointsOf(m) = Weight(user, upgrades, m)
  BY DEF PointsOf, Sum, Weight
<1>3. ASSUME NEW o, NEW side
      PROVE  /\ Sum({m \in everIn : LegOf(o)[m] = side}, PointsOf) = Total(user, upgrades, everIn, o, side)
             /\ LegMembers(o, side) = InLeg(user, Counted(user, upgrades), o, side)
  <2>1. PICK S : S = {m \in everIn : LegOf(o)[m] = side}
    OBVIOUS
  <2>2. S = InLeg(user, everIn, o, side)
    BY <1>1, <2>1 DEF InLeg
  <2>3. Sum(S, PointsOf) = SumFunctionOnSet([m \in S |-> PointsOf(m)], S)
    BY DEF Sum
  <2>4. [m \in S |-> PointsOf(m)] = [m \in S |-> Weight(user, upgrades, m)]
    BY <1>2
  <2>5. LegMembers(o, side) = InLeg(user, Counted(user, upgrades), o, side)
    BY <1>1, PresentIs DEF LegMembers, InLeg
  <2>. QED
    BY <2>1, <2>2, <2>3, <2>4, <2>5 DEF Total
<1>. QED
  BY <1>1, <1>2, <1>3

\* The points of a member's upgrades, and its own, are natural numbers.
LEMMA WeightNat ==
    ASSUME NEW u, NEW up, Tables(u, up), NEW m \in In(u)
    PROVE  /\ Weight(u, up, m) \in Nat /\ Points[u[m].type] \in Nat
           /\ up[m] \in Seq(UpgradeRow) /\ IsFiniteSet(DOMAIN up[m])
           /\ \A i \in DOMAIN up[m] : up[m][i].points \in Nat /\ up[m][i].day \in Days
           /\ SumFunctionOnSet([i \in DOMAIN up[m] |-> up[m][i].points], DOMAIN up[m]) \in Nat
<1>1. m \in Members /\ u[m].type \in Types /\ up[m] \in Seq(UpgradeRow)
  BY DEF Tables, In
<1>2. Points[u[m].type] \in Nat
  BY <1>1, EnginesAssumption
<1>3. PICK s \in Seq(UpgradeRow) : s = up[m]
  BY <1>1
<1>4. \A i \in DOMAIN s : s[i].points \in Nat /\ s[i].day \in Days
  <2>1. \A i \in DOMAIN s : s[i] \in UpgradeRow
    OBVIOUS
  <2>. QED
    BY <2>1 DEF UpgradeRow
<1>5. IsFiniteSet(DOMAIN s)
  <2>1. DOMAIN s = 1 .. Len(s) /\ 1 \in Int /\ Len(s) \in Int
    OBVIOUS
  <2>. QED
    BY <2>1, FS_Interval
<1>6. PICK f : f = [i \in DOMAIN s |-> s[i].points]
  OBVIOUS
<1>7. SumFunctionOnSet(f, DOMAIN s) \in Nat
  BY <1>4, <1>5, <1>6, SumNat
<1>. QED
  BY <1>1, <1>2, <1>3, <1>4, <1>5, <1>6, <1>7 DEF Weight

\* An upgrade adds to what a member brings, and nothing takes from it.
LEMMA WeightGrows ==
    ASSUME NEW u, NEW up, Tables(u, up), NEW v, NEW vp, Tables(v, vp),
           Grown(u, v), Upgraded(up, vp), NEW m \in In(u)
    PROVE  Weight(u, up, m) <= Weight(v, vp, m)
<1>1. m \in Members /\ m \in In(v) /\ v[m].type = u[m].type
  BY DEF In, Grown
<1>2. PICK s \in Seq(UpgradeRow) : s = up[m]
  BY WeightNat
<1>3. PICK t \in Seq(UpgradeRow) : t = vp[m]
  BY <1>1, WeightNat
<1>4. PICK f : f = [i \in DOMAIN s |-> s[i].points]
  OBVIOUS
<1>5. PICK g : g = [i \in DOMAIN t |-> t[i].points]
  OBVIOUS
<1>6. /\ IsFiniteSet(DOMAIN s) /\ IsFiniteSet(DOMAIN t)
      /\ \A i \in DOMAIN t : g[i] \in Nat
      /\ SumFunctionOnSet(f, DOMAIN s) \in Nat /\ SumFunctionOnSet(g, DOMAIN t) \in Nat
      /\ Points[u[m].type] \in Nat
  BY <1>1, <1>2, <1>3, <1>4, <1>5, WeightNat
<1>7. DOMAIN s \subseteq DOMAIN t /\ \A i \in DOMAIN s : f[i] = g[i]
  <2>1. CASE t = s
    BY <1>4, <1>5, <2>1
  <2>2. ASSUME NEW r \in UpgradeRow, t = Append(s, r)
        PROVE  DOMAIN s \subseteq DOMAIN t /\ \A i \in DOMAIN s : f[i] = g[i]
    <3>1. Len(s) \in Nat /\ DOMAIN s = 1 .. Len(s) /\ DOMAIN t = 1 .. Len(s) + 1
      BY <2>2
    <3>2. \A i \in 1 .. Len(s) : t[i] = s[i]
      BY <2>2
    <3>3. DOMAIN s \subseteq DOMAIN t
      BY <3>1
    <3>. QED
      BY <1>4, <1>5, <3>1, <3>2, <3>3
  <2>. QED
    BY <1>1, <1>2, <1>3, <2>1, <2>2 DEF Upgraded
<1>8. SumFunctionOnSet(f, DOMAIN s) = SumFunctionOnSet(g, DOMAIN s)
  BY <1>6, <1>7, SumSame
<1>9. SumFunctionOnSet(g, DOMAIN s) <= SumFunctionOnSet(g, DOMAIN t)
  <2>1. DOMAIN s \in SUBSET DOMAIN t
    BY <1>7
  <2>. QED
    BY <1>6, <2>1, SumSubset
<1>10. /\ Weight(u, up, m) = Points[u[m].type] + SumFunctionOnSet(f, DOMAIN s)
       /\ Weight(v, vp, m) = Points[u[m].type] + SumFunctionOnSet(g, DOMAIN t)
  BY <1>1, <1>2, <1>3, <1>4, <1>5 DEF Weight
<1>. QED
  BY <1>6, <1>8, <1>9, <1>10

\* The legs of a growing forest.
LEMMA LegsGrow ==
    ASSUME NEW u, NEW up, Tables(u, up), NEW v, NEW vp, Tables(v, vp), Grown(u, v), NEW o
    PROVE  \A m \in In(u) : LegTree(u, o)[m] = LegTree(v, o)[m]
<1>1. PICK f : f = CHOOSE leg : IsLeg(u, o, leg)
  OBVIOUS
<1>2. PICK g : g = CHOOSE leg : IsLeg(v, o, leg)
  OBVIOUS
<1>3. IsLeg(u, o, f) /\ IsLeg(v, o, g)
  BY <1>1, <1>2, LegOfIs DEF Tables
<1>4. PICK P : P = In(u)
  OBVIOUS
<1>5. P \subseteq Members
  BY <1>4 DEF In
<1>6. \A m \in P : /\ u[m].up = v[m].up /\ u[m].side = v[m].side
                   /\ u[m].up # Nobody => u[m].up \in P /\ u[m].up < m
  BY <1>4, EldersPresent DEF Grown
<1>7. \A m \in P : f[m] = g[m]
  BY <1>3, <1>5, <1>6, LegsAgree
<1>. QED
  BY <1>1, <1>2, <1>4, <1>7 DEF LegTree

\* The depths of a growing forest.
LEMMA DepthsGrow ==
    ASSUME NEW u, NEW up, Tables(u, up), NEW v, NEW vp, Tables(v, vp), Grown(u, v), NEW o,
           NEW f, f = CHOOSE level : IsDepth(u, o, level), NEW g, g = CHOOSE level : IsDepth(v, o, level)
    PROVE  \A m \in In(u) : f[m] = g[m]
<1>1. IsDepth(u, o, f) /\ IsDepth(v, o, g)
  BY DepthIs DEF Tables
<1>2. PICK P : P = In(u)
  OBVIOUS
<1>3. P \subseteq Members
  BY <1>2 DEF In
<1>4. \A m \in P : /\ u[m].sponsor = v[m].sponsor
                   /\ u[m].sponsor # Nobody => u[m].sponsor \in P /\ u[m].sponsor < m
  BY <1>2, EldersPresent DEF Grown
<1>. QED
  BY <1>1, <1>2, <1>3, <1>4, DepthsAgree

\* The weight of the members of E in a leg.
LEMMA TotalNat ==
    ASSUME NEW u, NEW up, Tables(u, up), NEW E, E \subseteq In(u), NEW o, NEW side
    PROVE  /\ Total(u, up, E, o, side) \in Nat
           /\ IsFiniteSet(InLeg(u, E, o, side)) /\ InLeg(u, E, o, side) \subseteq In(u)
<1>1. PICK S : S = InLeg(u, E, o, side)
  OBVIOUS
<1>2. S \subseteq In(u) /\ S \subseteq Members
  BY <1>1 DEF InLeg, In
<1>3. IsFiniteSet(S)
  BY <1>2, MembersFacts, FS_Subset
<1>4. PICK f : f = [m \in S |-> Weight(u, up, m)]
  OBVIOUS
<1>5. \A m \in S : f[m] \in Nat
  BY <1>2, <1>4, WeightNat
<1>6. SumFunctionOnSet(f, S) \in Nat
  BY <1>3, <1>5, SumNat
<1>. QED
  BY <1>1, <1>2, <1>3, <1>4, <1>6 DEF Total

\* It grows with the network.
LEMMA TotalGrows ==
    ASSUME NEW u, NEW up, Tables(u, up), NEW v, NEW vp, Tables(v, vp), Grown(u, v), Upgraded(up, vp),
           NEW E, NEW F, E \subseteq In(u), E \subseteq F, F \subseteq In(v), NEW o, NEW side
    PROVE  Total(u, up, E, o, side) <= Total(v, vp, F, o, side)
<1>1. PICK S : S = InLeg(u, E, o, side)
  OBVIOUS
<1>2. PICK R : R = InLeg(v, F, o, side)
  OBVIOUS
<1>3. /\ S \subseteq In(u) /\ R \subseteq In(v) /\ IsFiniteSet(S) /\ IsFiniteSet(R)
  BY <1>1, <1>2, TotalNat
<1>4. S \subseteq R
  <2>1. \A m \in In(u) : LegTree(u, o)[m] = LegTree(v, o)[m]
    BY LegsGrow
  <2>. QED
    BY <1>1, <1>2, <2>1 DEF InLeg
<1>5. PICK f : f = [m \in S |-> Weight(u, up, m)]
  OBVIOUS
<1>6. PICK g : g = [m \in R |-> Weight(v, vp, m)]
  OBVIOUS
<1>7. \A m \in R : g[m] \in Nat
  BY <1>3, <1>6, WeightNat
<1>8. \A m \in S : f[m] \in Int /\ g[m] \in Int /\ f[m] <= g[m]
  <2>1. ASSUME NEW m \in S
        PROVE  Weight(u, up, m) \in Nat /\ Weight(v, vp, m) \in Nat /\ Weight(u, up, m) <= Weight(v, vp, m)
    <3>1. m \in In(u) /\ m \in In(v)
      BY <1>3, <1>4
    <3>. QED
      BY <3>1, WeightNat, WeightGrows
  <2>. QED
    BY <1>4, <1>5, <1>6, <2>1
<1>9. SumFunctionOnSet(f, S) <= SumFunctionOnSet(g, S)
  BY <1>3, <1>8, SumMono
<1>10. SumFunctionOnSet(g, S) <= SumFunctionOnSet(g, R)
  <2>1. S \in SUBSET R
    BY <1>4
  <2>. QED
    BY <1>3, <1>7, <2>1, SumSubset
<1>11. /\ SumFunctionOnSet(f, S) \in Int /\ SumFunctionOnSet(g, S) \in Int
       /\ SumFunctionOnSet(g, R) \in Int
  BY <1>3, <1>4, <1>7, <1>8, SumInt
<1>12. Total(u, up, E, o, side) = SumFunctionOnSet(f, S) /\ Total(v, vp, F, o, side) = SumFunctionOnSet(g, R)
  BY <1>1, <1>2, <1>5, <1>6 DEF Total
<1>. QED
  BY <1>9, <1>10, <1>11, <1>12

-----------------------------------------------------------------------------
\* The pairing of a leg against the other.

\* The days.
LEMMA DaysFacts ==
    /\ LastDay \in Nat /\ Days = 0 .. LastDay /\ Days = -1 + 1 .. LastDay
    /\ IsFiniteSet(Days) /\ Days \subseteq Nat /\ 0 \in Days /\ LastDay \in Days
    /\ \A d \in Days : d # 0 => d - 1 \in Days
<1>1. LastDay \in Nat
  BY EnginesAssumption
<1>2. IsFiniteSet(0 .. LastDay)
  <2>1. 0 \in Int /\ LastDay \in Int
    BY <1>1
  <2>. QED
    BY <2>1, FS_Interval
<1>3. \A d \in 0 .. LastDay : d # 0 => d - 1 \in 0 .. LastDay
  BY <1>1
<1>4. Days = 0 .. LastDay /\ 0 .. LastDay = -1 + 1 .. LastDay
  BY DEF Days
<1>. QED
  BY <1>1, <1>2, <1>3, <1>4

\* What one member brings on a day.
DayWeight(u, up, m, d) ==
    (IF u[m].day = d THEN Points[u[m].type] ELSE 0)
    + SumFunctionOnSet([i \in {j \in DOMAIN up[m] : up[m][j].day = d} |-> up[m][i].points],
                       {j \in DOMAIN up[m] : up[m][j].day = d})

\* Over all days it is what the member brings.
LEMMA DayWeightSum ==
    ASSUME NEW u, NEW up, Tables(u, up), NEW m \in In(u)
    PROVE  /\ \A d \in Days : DayWeight(u, up, m, d) \in Nat
           /\ SumFunctionOnSet([d \in Days |-> DayWeight(u, up, m, d)], Days) = Weight(u, up, m)
<1>1. PICK s \in Seq(UpgradeRow) : s = up[m]
  BY WeightNat
<1>2. PICK S : S = DOMAIN s
  OBVIOUS
<1>3. PICK f : f = [i \in S |-> s[i].points]
  OBVIOUS
<1>4. PICK k : k = [i \in S |-> s[i].day]
  OBVIOUS
<1>5. /\ IsFiniteSet(S) /\ \A i \in S : f[i] \in Nat /\ f[i] \in Int /\ k[i] \in Days
      /\ Points[u[m].type] \in Nat /\ SumFunctionOnSet(f, S) \in Nat
      /\ Weight(u, up, m) = Points[u[m].type] + SumFunctionOnSet(f, S)
  <2>1. /\ f = [i \in DOMAIN up[m] |-> up[m][i].points] /\ S = DOMAIN up[m]
        /\ \A i \in S : f[i] = up[m][i].points /\ k[i] = up[m][i].day
    BY <1>1, <1>2, <1>3, <1>4
  <2>2. /\ IsFiniteSet(S) /\ \A i \in S : up[m][i].points \in Nat /\ up[m][i].day \in Days
        /\ Points[u[m].type] \in Nat
    BY <2>1, WeightNat
  <2>3. SumFunctionOnSet(f, S) \in Nat
    BY <2>1, WeightNat
  <2>4. Weight(u, up, m) = Points[u[m].type] + SumFunctionOnSet(f, S)
    BY <2>1 DEF Weight
  <2>5. \A i \in S : f[i] \in Nat /\ k[i] \in Days
    BY <2>1, <2>2, Zenon
  <2>6. \A i \in S : f[i] \in Int
    BY <2>5
  <2>. QED
    BY <2>2, <2>3, <2>4, <2>5, <2>6
<1>6. u[m].day \in Days
  BY DEF Tables, Forest, UserRow, In
<1>7. PICK entry : entry = [d \in Days |-> IF u[m].day = d THEN Points[u[m].type] ELSE 0]
  OBVIOUS
<1>8. PICK c : c = Classes(f, S, k, Days)
  OBVIOUS
<1>9. PICK w : w = [d \in Days |-> DayWeight(u, up, m, d)]
  OBVIOUS
<1>10. ASSUME NEW d \in Days
       PROVE  entry[d] \in Nat /\ c[d] \in Nat /\ w[d] = entry[d] + c[d]
  <2>1. PICK R : R = Class(S, k, d)
    OBVIOUS
  <2>2. R = {j \in DOMAIN up[m] : up[m][j].day = d} /\ R \subseteq S
    BY <1>1, <1>2, <1>4, <2>1 DEF Class
  <2>3. IsFiniteSet(R)
    BY <1>5, <2>2, FS_Subset
  <2>4. PICK g : g = [i \in R |-> up[m][i].points]
    OBVIOUS
  <2>5. \A i \in R : g[i] = f[i] /\ f[i] \in Nat
    BY <1>1, <1>2, <1>3, <1>5, <2>2, <2>4
  <2>6. SumFunctionOnSet(g, R) = SumFunctionOnSet(f, R) /\ SumFunctionOnSet(f, R) \in Nat
    BY <2>3, <2>5, SumSame, SumNat
  <2>7. c[d] = SumFunctionOnSet(f, R)
    BY <1>8, <2>1 DEF Classes
  <2>8. DayWeight(u, up, m, d) = entry[d] + SumFunctionOnSet(g, R)
    BY <1>7, <2>2, <2>4 DEF DayWeight
  <2>. QED
    BY <1>5, <1>7, <1>9, <2>6, <2>7, <2>8
<1>11. SumFunctionOnSet(c, Days) = SumFunctionOnSet(f, S)
  BY <1>5, <1>8, DaysFacts, SumClasses
<1>12. SumFunctionOnSet(entry, Days) = Points[u[m].type]
  <2>1. entry[u[m].day] = Points[u[m].type] /\ \A d \in Days : d # u[m].day => entry[d] = 0
    BY <1>6, <1>7
  <2>2. PICK x \in Days : x = u[m].day
    BY <1>6
  <2>3. entry[x] \in Int /\ \A d \in Days : d # x => entry[d] = 0
    BY <1>5, <2>1, <2>2
  <2>4. SumFunctionOnSet(entry, Days) = entry[x]
    BY <2>3, DaysFacts, SumSingle
  <2>. QED
    BY <2>1, <2>2, <2>4
<1>13. \A d \in Days : entry[d] \in Int /\ c[d] \in Int /\ w[d] = entry[d] + c[d] /\ w[d] \in Nat
  BY <1>10
<1>14. SumFunctionOnSet(w, Days) = SumFunctionOnSet(entry, Days) + SumFunctionOnSet(c, Days)
  BY <1>13, DaysFacts, SumPlus
<1>. QED
  BY <1>5, <1>9, <1>11, <1>12, <1>13, <1>14

\* What the members of S bring on a day, and over all days.
LEMMA TodaySum ==
    ASSUME Tables(user, upgrades), NEW S, S \subseteq In(user), NEW L, L = [d \in Days |-> Today(S, d)]
    PROVE  /\ L \in [Days -> Nat]
           /\ SumFunctionOnSet(L, Days) = SumFunctionOnSet([m \in S |-> Weight(user, upgrades, m)], S)
<1>1. IsFiniteSet(S) /\ S \subseteq Members
  <2>1. S \subseteq Members
    BY DEF In
  <2>. QED
    BY <2>1, MembersFacts, FS_Subset
<1>2. PICK f : f = [p \in S \X Days |-> DayWeight(user, upgrades, p[1], p[2])]
  OBVIOUS
<1>3. \A m \in S, d \in Days : f[<<m, d>>] = DayWeight(user, upgrades, m, d) /\ f[<<m, d>>] \in Nat
  <2>1. ASSUME NEW m \in S, NEW d \in Days
        PROVE  DayWeight(user, upgrades, m, d) \in Nat
    <3>1. m \in In(user)
      OBVIOUS
    <3>. QED
      BY <3>1, DayWeightSum
  <2>. QED
    BY <1>2, <2>1
<1>4. PICK r : r = [m \in S |-> Weight(user, upgrades, m)]
  OBVIOUS
<1>5. ASSUME NEW m \in S
      PROVE  r[m] = SumFunctionOnSet(Across(f, m, Days), Days)
  <2>1. Across(f, m, Days) = [d \in Days |-> DayWeight(user, upgrades, m, d)]
    BY <1>3 DEF Across
  <2>2. m \in In(user)
    OBVIOUS
  <2>. QED
    BY <1>4, <2>1, <2>2, DayWeightSum
<1>6. ASSUME NEW d \in Days
      PROVE  L[d] = SumFunctionOnSet(Down(f, S, d), S) /\ L[d] \in Nat
  <2>1. Down(f, S, d) = [m \in S |-> DayWeight(user, upgrades, m, d)]
    BY <1>3 DEF Down
  <2>2. Today(S, d) = SumFunctionOnSet([m \in S |-> DayWeight(user, upgrades, m, d)], S)
    BY DEF Today, Sum, DayWeight
  <2>3. PICK g : g = Down(f, S, d)
    OBVIOUS
  <2>4. \A m \in S : g[m] \in Nat
    BY <1>3, <2>1, <2>3
  <2>5. SumFunctionOnSet(g, S) \in Nat
    BY <1>1, <2>4, SumNat
  <2>. QED
    BY <2>1, <2>2, <2>3, <2>5
<1>7. IsTable(f, S, Days)
  <2>1. \A n \in Nat : n \in Int
    OBVIOUS
  <2>. QED
    BY <1>3, <2>1, Zenon DEF IsTable
<1>8. SumFunctionOnSet(r, S) = SumFunctionOnSet(L, Days)
  <2>1. /\ \A m \in S : r[m] = SumFunctionOnSet(Across(f, m, Days), Days)
        /\ \A d \in Days : L[d] = SumFunctionOnSet(Down(f, S, d), S)
    BY <1>5, <1>6
  <2>2. IsFiniteSet(Days)
    BY DaysFacts
  <2>. QED
    BY <1>1, <1>7, <2>1, <2>2, SumSwap
<1>. QED
  BY <1>4, <1>6, <1>8

Carry == [left : Nat, right : Nat, gross : Nat]
Carried(left, right) ==
    [left |-> left - Least(left, right), right |-> right - Least(left, right), gross |-> Least(left, right)]
Carries(L, R, at) ==
    \A d \in Days : at[d] = Carried((IF d = 0 THEN 0 ELSE at[d - 1].left) + L[d],
                                    (IF d = 0 THEN 0 ELSE at[d - 1].right) + R[d])

\* A day's match.
LEMMA CarriedType ==
    ASSUME NEW a \in Nat, NEW b \in Nat
    PROVE  /\ Carried(a, b) \in Carry
           /\ Carried(a, b).left + Carried(a, b).gross = a
           /\ Carried(a, b).right + Carried(a, b).gross = b
           /\ Carried(a, b).left = 0 \/ Carried(a, b).right = 0
BY DEF Carried, Carry, Least

\* Matching a day at a time is what the model's recursion does.
LEMMA MatchingIs ==
    ASSUME NEW A, NEW B, NEW L \in [Days -> Nat], NEW R \in [Days -> Nat],
           L = [d \in Days |-> Today(A, d)], R = [d \in Days |-> Today(B, d)],
           NEW at, at = Matching(A, B)
    PROVE  at \in [Days -> Carry] /\ Carries(L, R, at)
<1>. DEFINE Is(f) == f = [d \in Days |->
                LET before == IF d = 0 THEN [left |-> 0, right |-> 0, gross |-> 0] ELSE f[d - 1]
                    l == before.left + Today(A, d)
                    r == before.right + Today(B, d)
                IN  [left |-> l - Least(l, r), right |-> r - Least(l, r), gross |-> Least(l, r)]]
<1>1. at = CHOOSE f : Is(f)
  BY DEF Matching
<1>2. \A f : Is(f) <=> f = [d \in Days |-> Carried((IF d = 0 THEN 0 ELSE f[d - 1].left) + L[d],
                                                   (IF d = 0 THEN 0 ELSE f[d - 1].right) + R[d])]
  <2>1. ASSUME NEW f, NEW d \in Days
        PROVE  Carried((IF d = 0 THEN 0 ELSE f[d - 1].left) + L[d], (IF d = 0 THEN 0 ELSE f[d - 1].right) + R[d])
               = LET before == IF d = 0 THEN [left |-> 0, right |-> 0, gross |-> 0] ELSE f[d - 1]
                     l == before.left + Today(A, d)
                     r == before.right + Today(B, d)
                 IN  [left |-> l - Least(l, r), right |-> r - Least(l, r), gross |-> Least(l, r)]
    <3>1. L[d] = Today(A, d) /\ R[d] = Today(B, d)
      OBVIOUS
    <3>2. CASE d = 0
      BY <3>1, <3>2 DEF Carried
    <3>3. CASE d # 0
      BY <3>1, <3>3 DEF Carried
    <3>. QED
      BY <3>2, <3>3
  <2>2. ASSUME NEW f
        PROVE  Is(f) <=> f = [d \in Days |-> Carried((IF d = 0 THEN 0 ELSE f[d - 1].left) + L[d],
                                                     (IF d = 0 THEN 0 ELSE f[d - 1].right) + R[d])]
    <3>1. [d \in Days |-> Carried((IF d = 0 THEN 0 ELSE f[d - 1].left) + L[d],
                                  (IF d = 0 THEN 0 ELSE f[d - 1].right) + R[d])]
          = [d \in Days |->
                LET before == IF d = 0 THEN [left |-> 0, right |-> 0, gross |-> 0] ELSE f[d - 1]
                    l == before.left + Today(A, d)
                    r == before.right + Today(B, d)
                IN  [left |-> l - Least(l, r), right |-> r - Least(l, r), gross |-> Least(l, r)]]
      BY <2>1
    <3>. QED
      BY <3>1
  <2>. QED
    BY <2>2
<1>. HIDE DEF Is
<1>. DEFINE G == [p \in [Days -> Carry] \X Days |->
                Carried((IF p[2] = 0 THEN 0 ELSE p[1][p[2] - 1].left) + L[p[2]],
                        (IF p[2] = 0 THEN 0 ELSE p[1][p[2] - 1].right) + R[p[2]])]
<1>3. \A f \in [Days -> Carry], d \in Days :
          G[<<f, d>>] = Carried((IF d = 0 THEN 0 ELSE f[d - 1].left) + L[d],
                                (IF d = 0 THEN 0 ELSE f[d - 1].right) + R[d])
  OBVIOUS
<1>4. ASSUME NEW f \in [Days -> Carry], NEW d \in Days
      PROVE  Carried((IF d = 0 THEN 0 ELSE f[d - 1].left) + L[d],
                     (IF d = 0 THEN 0 ELSE f[d - 1].right) + R[d]) \in Carry
  <2>1. d # 0 => f[d - 1] \in Carry
    BY DaysFacts
  <2>2. PICK a \in Nat : a = (IF d = 0 THEN 0 ELSE f[d - 1].left) + L[d]
    <3>1. (IF d = 0 THEN 0 ELSE f[d - 1].left) \in Nat /\ L[d] \in Nat
      BY <2>1 DEF Carry
    <3>. QED
      BY <3>1
  <2>3. PICK b \in Nat : b = (IF d = 0 THEN 0 ELSE f[d - 1].right) + R[d]
    <3>1. (IF d = 0 THEN 0 ELSE f[d - 1].right) \in Nat /\ R[d] \in Nat
      BY <2>1 DEF Carry
    <3>. QED
      BY <3>1
  <2>. QED
    BY <2>2, <2>3, CarriedType
<1>5. G \in [[Days -> Carry] \X Days -> Carry]
  <2>1. ASSUME NEW p \in [Days -> Carry] \X Days
        PROVE  Carried((IF p[2] = 0 THEN 0 ELSE p[1][p[2] - 1].left) + L[p[2]],
                       (IF p[2] = 0 THEN 0 ELSE p[1][p[2] - 1].right) + R[p[2]]) \in Carry
    <3>1. PICK f \in [Days -> Carry] : f = p[1]
      OBVIOUS
    <3>2. PICK d \in Days : d = p[2]
      OBVIOUS
    <3>. QED
      BY <1>4, <3>1, <3>2
  <2>. QED
    BY <2>1
<1>. HIDE DEF G
<1>6. \A f, g \in [Days -> Carry], d \in Days :
          (\A x \in Days : x < d => f[x] = g[x]) => G[<<f, d>>] = G[<<g, d>>]
  <2>1. ASSUME NEW f \in [Days -> Carry], NEW g \in [Days -> Carry], NEW d \in Days,
               \A x \in Days : x < d => f[x] = g[x]
        PROVE  G[<<f, d>>] = G[<<g, d>>]
    <3>1. d # 0 => f[d - 1] = g[d - 1]
      <4>1. d # 0 => d - 1 \in Days /\ d - 1 < d
        BY DaysFacts
      <4>. QED
        BY <2>1, <4>1
    <3>2. CASE d = 0
      BY <1>3, <3>2
    <3>3. CASE d # 0
      BY <1>3, <3>1, <3>3
    <3>. QED
      BY <3>2, <3>3
  <2>. QED
    BY <2>1
<1>7. \E f : Is(f)
  <2>1. Recursive(G, Days, Carry)
    BY <1>5, <1>6 DEF Recursive
  <2>2. Carry # {}
    <3>1. [left |-> 0, right |-> 0, gross |-> 0] \in Carry
      BY DEF Carry
    <3>. QED
      BY <3>1
  <2>3. PICK f \in [Days -> Carry] : Solves(f, G, Days)
    BY <2>1, <2>2, DaysFacts, Recursion
  <2>4. \A d \in Days : f[d] = Carried((IF d = 0 THEN 0 ELSE f[d - 1].left) + L[d],
                                       (IF d = 0 THEN 0 ELSE f[d - 1].right) + R[d])
    BY <1>3, <2>3 DEF Solves
  <2>. QED
    BY <1>2, <2>4
<1>8. Is(at)
  BY <1>1, <1>7
<1>9. /\ at = [d \in Days |-> at[d]]
      /\ Carries(L, R, at)
  BY <1>2, <1>8 DEF Carries
<1>10. \A d \in Days : at[d] \in Carry
  <2>1. PICK T : T = {d \in Days : at[d] \notin Carry}
    OBVIOUS
  <2>2. ASSUME T # {}
        PROVE  FALSE
    <3>1. IsFiniteSet(T) /\ T \subseteq Nat
      BY <2>1, DaysFacts, FS_Subset
    <3>2. PICK d \in T : \A x \in T : d <= x
      BY <2>2, <3>1, Smallest
    <3>3. d \in Days /\ d \in Nat /\ at[d] \notin Carry
      BY <2>1, DaysFacts
    <3>4. d # 0 => at[d - 1] \in Carry
      <4>1. d # 0 => d - 1 \in Days /\ ~(d <= d - 1)
        BY <3>3, DaysFacts
      <4>. QED
        BY <2>1, <3>2, <4>1
    <3>5. PICK a \in Nat : a = (IF d = 0 THEN 0 ELSE at[d - 1].left) + L[d]
      <4>1. (IF d = 0 THEN 0 ELSE at[d - 1].left) \in Nat /\ L[d] \in Nat
        BY <3>3, <3>4 DEF Carry
      <4>. QED
        BY <4>1
    <3>6. PICK b \in Nat : b = (IF d = 0 THEN 0 ELSE at[d - 1].right) + R[d]
      <4>1. (IF d = 0 THEN 0 ELSE at[d - 1].right) \in Nat /\ R[d] \in Nat
        BY <3>3, <3>4 DEF Carry
      <4>. QED
        BY <4>1
    <3>7. at[d] = Carried(a, b)
      BY <1>9, <3>3, <3>5, <3>6 DEF Carries
    <3>. QED
      BY <3>3, <3>7, CarriedType
  <2>. QED
    BY <2>1, <2>2
<1>. QED
  BY <1>9, <1>10

\* All of the weaker leg is matched in the end.
LEMMA MatchedSum ==
    ASSUME NEW L \in [Days -> Nat], NEW R \in [Days -> Nat], NEW at \in [Days -> Carry], Carries(L, R, at),
           NEW g, g = [d \in Days |-> at[d].gross]
    PROVE  /\ g \in [Days -> Nat]
           /\ SumFunctionOnSet(g, Days) = Least(SumFunctionOnSet(L, Days), SumFunctionOnSet(R, Days))
<1>1. \A d \in Days : at[d].left \in Nat /\ at[d].right \in Nat /\ at[d].gross \in Nat
  BY DEF Carry
<1>2. ASSUME NEW X \in [Days -> Nat], NEW c \in [Days -> Nat],
             \A d \in Days : c[d] + g[d] = (IF d = 0 THEN 0 ELSE c[d - 1]) + X[d]
      PROVE  SumFunctionOnSet(X, Days) = SumFunctionOnSet(g, Days) + c[LastDay]
  <2>1. PICK D : D = [i \in -1 .. LastDay |-> IF i = -1 THEN 0 ELSE c[i]]
    OBVIOUS
  <2>2. PICK f : f = [d \in Days |-> X[d] - g[d]]
    OBVIOUS
  <2>3. \A d \in Days : X[d] \in Int /\ g[d] \in Int /\ f[d] \in Int /\ X[d] = g[d] + f[d]
    BY <1>1, <2>2
  <2>4. -1 \in Int /\ LastDay \in Int /\ -1 <= LastDay
    BY DaysFacts
  <2>5. \A i \in -1 .. LastDay : D[i] \in Int
    BY <2>1, DaysFacts
  <2>6. ASSUME NEW d \in Days
        PROVE  f[d] = D[d] - D[d - 1]
    <3>1. d \in -1 .. LastDay /\ d - 1 \in -1 .. LastDay /\ d # -1 /\ d \in Nat
      BY DaysFacts
    <3>2. D[d] = c[d] /\ D[d - 1] = IF d = 0 THEN 0 ELSE c[d - 1]
      BY <2>1, <3>1
    <3>3. c[d] \in Nat /\ g[d] \in Nat /\ X[d] \in Nat /\ (d # 0 => c[d - 1] \in Nat)
      BY <1>1, DaysFacts
    <3>4. PICK e : e = IF d = 0 THEN 0 ELSE c[d - 1]
      OBVIOUS
    <3>5. c[d] + g[d] = e + X[d] /\ e \in Nat /\ D[d - 1] = e
      BY <1>2, <3>2, <3>3, <3>4
    <3>6. f[d] = X[d] - g[d]
      BY <2>2
    <3>. QED
      <4>1. PICK x \in Nat : x = X[d]
        BY <3>3
      <4>2. PICK y \in Nat : y = g[d]
        BY <3>3
      <4>3. PICK z \in Nat : z = c[d]
        BY <3>3
      <4>4. z + y = e + x /\ e \in Nat
        BY <3>5, <4>1, <4>2, <4>3
      <4>5. x - y = z - e
        BY <4>4
      <4>. QED
        BY <3>2, <3>5, <3>6, <4>1, <4>2, <4>3, <4>5
  <2>7. SumFunctionOnSet(f, Days) = D[LastDay] - D[-1]
    <3>1. \A i \in -1 + 1 .. LastDay : f[i] = D[i] - D[i - 1]
      BY <2>6, DaysFacts
    <3>2. SumFunctionOnSet(f, -1 + 1 .. LastDay) = D[LastDay] - D[-1]
      BY <2>4, <2>5, <3>1, SumTelescope
    <3>. QED
      BY <3>2, DaysFacts
  <2>8. SumFunctionOnSet(X, Days) = SumFunctionOnSet(g, Days) + SumFunctionOnSet(f, Days)
    <3>1. IsFiniteSet(Days)
      BY DaysFacts
    <3>2. \A d \in Days : g[d] \in Int /\ f[d] \in Int /\ X[d] = g[d] + f[d]
      BY <2>3
    <3>. QED
      BY <3>1, <3>2, SumPlus
  <2>9. D[LastDay] = c[LastDay] /\ D[-1] = 0 /\ c[LastDay] \in Nat
    BY <2>1, DaysFacts
  <2>. QED
    BY <2>7, <2>8, <2>9
<1>3. ASSUME NEW d \in Days
      PROVE  /\ at[d].left + g[d] = (IF d = 0 THEN 0 ELSE at[d - 1].left) + L[d]
             /\ at[d].right + g[d] = (IF d = 0 THEN 0 ELSE at[d - 1].right) + R[d]
             /\ at[d].left = 0 \/ at[d].right = 0
  <2>1. d # 0 => at[d - 1].left \in Nat /\ at[d - 1].right \in Nat
    BY <1>1, DaysFacts
  <2>2. PICK a \in Nat : a = (IF d = 0 THEN 0 ELSE at[d - 1].left) + L[d]
    <3>1. (IF d = 0 THEN 0 ELSE at[d - 1].left) \in Nat /\ L[d] \in Nat
      BY <2>1
    <3>. QED
      BY <3>1
  <2>3. PICK b \in Nat : b = (IF d = 0 THEN 0 ELSE at[d - 1].right) + R[d]
    <3>1. (IF d = 0 THEN 0 ELSE at[d - 1].right) \in Nat /\ R[d] \in Nat
      BY <2>1
    <3>. QED
      BY <3>1
  <2>4. at[d] = Carried(a, b)
    BY <2>2, <2>3 DEF Carries
  <2>. QED
    BY <2>2, <2>3, <2>4, CarriedType
<1>4. PICK cl : cl = [d \in Days |-> at[d].left]
  OBVIOUS
<1>5. PICK cr : cr = [d \in Days |-> at[d].right]
  OBVIOUS
<1>6. cl \in [Days -> Nat] /\ cr \in [Days -> Nat] /\ g \in [Days -> Nat]
  BY <1>1, <1>4, <1>5
<1>7. SumFunctionOnSet(L, Days) = SumFunctionOnSet(g, Days) + cl[LastDay]
  <2>1. \A d \in Days : cl[d] + g[d] = (IF d = 0 THEN 0 ELSE cl[d - 1]) + L[d]
    BY <1>3, <1>4, DaysFacts
  <2>. QED
    BY <1>2, <1>6, <2>1
<1>8. SumFunctionOnSet(R, Days) = SumFunctionOnSet(g, Days) + cr[LastDay]
  <2>1. \A d \in Days : cr[d] + g[d] = (IF d = 0 THEN 0 ELSE cr[d - 1]) + R[d]
    BY <1>3, <1>5, DaysFacts
  <2>. QED
    BY <1>2, <1>6, <2>1
<1>9. cl[LastDay] \in Nat /\ cr[LastDay] \in Nat /\ (cl[LastDay] = 0 \/ cr[LastDay] = 0)
  BY <1>3, <1>4, <1>5, <1>6, DaysFacts
<1>10. SumFunctionOnSet(g, Days) \in Nat
  BY <1>6, DaysFacts, SumNat
<1>. QED
  BY <1>6, <1>7, <1>8, <1>9, <1>10 DEF Least

-----------------------------------------------------------------------------
\* The caps: a day pays what was matched or less.

SameWeek(d) == {e \in 0 .. d - 1 : PairingWeek(e) = PairingWeek(d)}
SameMonth(d) == {e \in 0 .. d - 1 : Month(e) = Month(d)}
Spent(pay, S) == SumFunctionOnSet([e \in S |-> pay[e]], S)
Capped(g, type, pay, d) ==
    Least(g[d], Least(Positive(WeekCap[type] - Spent(pay, SameWeek(d))),
                      Positive(MonthCap[type] - Spent(pay, SameMonth(d)))))
IsPay(g, type, pay) == pay = [d \in Days |-> Capped(g, type, pay, d)]

\* The earlier days of a week or month.
LEMMA EarlierDays ==
    ASSUME NEW d \in Days
    PROVE  /\ IsFiniteSet(SameWeek(d)) /\ IsFiniteSet(SameMonth(d))
           /\ \A e \in SameWeek(d) \cup SameMonth(d) : e \in Days /\ e < d
<1>1. d \in Nat /\ LastDay \in Nat /\ d <= LastDay
  BY DaysFacts
<1>2. \A e \in 0 .. d - 1 : e \in Days /\ e < d
  BY <1>1, DaysFacts
<1>3. SameWeek(d) \subseteq Days /\ SameMonth(d) \subseteq Days
  BY <1>2 DEF SameWeek, SameMonth
<1>4. IsFiniteSet(SameWeek(d)) /\ IsFiniteSet(SameMonth(d))
  BY <1>3, DaysFacts, FS_Subset
<1>5. \A e \in SameWeek(d) \cup SameMonth(d) : e \in 0 .. d - 1
  BY DEF SameWeek, SameMonth
<1>. QED
  BY <1>2, <1>4, <1>5

\* What was paid on natural days is a natural number.
LEMMA SpentNat ==
    ASSUME NEW S, IsFiniteSet(S), NEW pay, \A e \in S : pay[e] \in Nat
    PROVE  Spent(pay, S) \in Nat
<1>1. PICK f : f = [e \in S |-> pay[e]]
  OBVIOUS
<1>2. \A e \in S : f[e] \in Nat
  BY <1>1
<1>3. SumFunctionOnSet(f, S) \in Nat
  BY <1>2, SumNat
<1>. QED
  BY <1>1, <1>3 DEF Spent

\* A day's pay, from natural pays before it.
LEMMA CappedNat ==
    ASSUME NEW g \in [Days -> Nat], NEW type \in Types, NEW d \in Days, NEW pay,
           \A e \in Days : e < d => pay[e] \in Nat
    PROVE  Capped(g, type, pay, d) \in Nat /\ Capped(g, type, pay, d) <= g[d]
<1>1. PICK w \in Nat : w = Spent(pay, SameWeek(d))
  BY EarlierDays, SpentNat
<1>2. PICK n \in Nat : n = Spent(pay, SameMonth(d))
  BY EarlierDays, SpentNat
<1>3. WeekCap[type] \in Nat /\ MonthCap[type] \in Nat /\ g[d] \in Nat
  BY EnginesAssumption
<1>. QED
  BY <1>1, <1>2, <1>3 DEF Capped, Least, Positive

\* The recursion of the pays is a function of natural numbers.
LEMMA PaysIs ==
    ASSUME NEW g \in [Days -> Nat], NEW type \in Types, NEW pay, pay = Pays(g, type)
    PROVE  pay \in [Days -> Nat] /\ \A d \in Days : pay[d] <= g[d]
<1>1. pay = CHOOSE f : IsPay(g, type, f)
  BY DEF Pays, IsPay, Capped, Spent, SameWeek, SameMonth, Sum
<1>. DEFINE G == [p \in [Days -> Nat] \X Days |-> Capped(g, type, p[1], p[2])]
<1>2. \A f \in [Days -> Nat], d \in Days : G[<<f, d>>] = Capped(g, type, f, d)
  OBVIOUS
<1>3. G \in [[Days -> Nat] \X Days -> Nat]
  <2>1. ASSUME NEW p \in [Days -> Nat] \X Days
        PROVE  Capped(g, type, p[1], p[2]) \in Nat
    <3>1. PICK f \in [Days -> Nat] : f = p[1]
      OBVIOUS
    <3>2. PICK d \in Days : d = p[2]
      OBVIOUS
    <3>3. \A e \in Days : e < d => f[e] \in Nat
      OBVIOUS
    <3>. QED
      BY <3>1, <3>2, <3>3, CappedNat
  <2>. QED
    BY <2>1
<1>. HIDE DEF G
<1>4. ASSUME NEW f \in [Days -> Nat], NEW h \in [Days -> Nat], NEW d \in Days,
             \A x \in Days : x < d => f[x] = h[x]
      PROVE  G[<<f, d>>] = G[<<h, d>>]
  <2>1. ASSUME NEW S, \A e \in S : e \in Days /\ e < d
        PROVE  Spent(f, S) = Spent(h, S)
    <3>1. [e \in S |-> f[e]] = [e \in S |-> h[e]]
      BY <1>4, <2>1
    <3>. QED
      BY <3>1 DEF Spent
  <2>2. Spent(f, SameWeek(d)) = Spent(h, SameWeek(d)) /\ Spent(f, SameMonth(d)) = Spent(h, SameMonth(d))
    BY <2>1, EarlierDays
  <2>. QED
    BY <1>2, <2>2 DEF Capped
<1>5. Recursive(G, Days, Nat)
  BY <1>3, <1>4 DEF Recursive
<1>6. PICK f \in [Days -> Nat] : Solves(f, G, Days)
  <2>1. IsFiniteSet(Days) /\ Days \subseteq Nat /\ Nat # {}
    BY DaysFacts
  <2>. QED
    BY <1>5, <2>1, Recursion
<1>7. \E h : IsPay(g, type, h)
  <2>1. IsPay(g, type, f)
    BY <1>2, <1>6 DEF IsPay, Solves
  <2>. QED
    BY <2>1
<1>8. IsPay(g, type, pay)
  BY <1>1, <1>7
<1>9. \A d \in Days : pay[d] \in Nat
  <2>1. PICK T : T = {d \in Days : pay[d] \notin Nat}
    OBVIOUS
  <2>2. ASSUME T # {}
        PROVE  FALSE
    <3>1. IsFiniteSet(T) /\ T \subseteq Nat
      BY <2>1, DaysFacts, FS_Subset
    <3>2. PICK d \in T : \A x \in T : d <= x
      BY <2>2, <3>1, Smallest
    <3>3. d \in Days /\ pay[d] \notin Nat
      BY <2>1
    <3>4. \A e \in Days : e < d => pay[e] \in Nat
      <4>1. \A e \in Days : e < d => ~(d <= e)
        BY <3>3, DaysFacts
      <4>. QED
        BY <2>1, <3>2, <4>1
    <3>5. pay[d] = Capped(g, type, pay, d)
      BY <1>8, <3>3 DEF IsPay
    <3>6. Capped(g, type, pay, d) \in Nat
      BY <3>3, <3>4, CappedNat
    <3>. QED
      BY <3>3, <3>5, <3>6
  <2>. QED
    BY <2>1, <2>2
<1>10. pay = [d \in Days |-> pay[d]]
  BY <1>8 DEF IsPay
<1>11. \A d \in Days : pay[d] <= g[d]
  <2>1. \A d \in Days : pay[d] = Capped(g, type, pay, d)
    BY <1>8 DEF IsPay
  <2>2. ASSUME NEW d \in Days
        PROVE  Capped(g, type, pay, d) <= g[d]
    BY <1>9, CappedNat
  <2>. QED
    BY <2>1, <2>2
<1>. QED
  BY <1>9, <1>10, <1>11

\* What is matched of a member's legs, over all days, is the weaker of them.
LEMMA GrossSum ==
    ASSUME Tables(user, upgrades), NEW o, NEW g, g = Gross(o)
    PROVE  /\ g \in [Days -> Nat]
           /\ SumFunctionOnSet(g, Days)
              = Least(Total(user, upgrades, Counted(user, upgrades), o, "left"),
                      Total(user, upgrades, Counted(user, upgrades), o, "right"))
<1>1. PICK A : A = LegMembers(o, "left")
  OBVIOUS
<1>2. PICK B : B = LegMembers(o, "right")
  OBVIOUS
<1>3. /\ A = InLeg(user, Counted(user, upgrades), o, "left")
      /\ B = InLeg(user, Counted(user, upgrades), o, "right")
  BY <1>1, <1>2, NetworkIs
<1>4. A \subseteq In(user) /\ B \subseteq In(user)
  BY <1>3 DEF InLeg, Counted
<1>5. PICK L : L = [d \in Days |-> Today(A, d)]
  OBVIOUS
<1>6. PICK R : R = [d \in Days |-> Today(B, d)]
  OBVIOUS
<1>7. /\ L \in [Days -> Nat] /\ R \in [Days -> Nat]
      /\ SumFunctionOnSet(L, Days) = Total(user, upgrades, Counted(user, upgrades), o, "left")
      /\ SumFunctionOnSet(R, Days) = Total(user, upgrades, Counted(user, upgrades), o, "right")
  BY <1>3, <1>4, <1>5, <1>6, TodaySum DEF Total
<1>8. PICK at : at = Matching(A, B)
  OBVIOUS
<1>9. at \in [Days -> Carry] /\ Carries(L, R, at)
  BY <1>5, <1>6, <1>7, <1>8, MatchingIs
<1>10. g = [d \in Days |-> at[d].gross]
  BY <1>1, <1>2, <1>8 DEF Gross
<1>11. g \in [Days -> Nat] /\ SumFunctionOnSet(g, Days) = Least(SumFunctionOnSet(L, Days), SumFunctionOnSet(R, Days))
  BY <1>7, <1>9, <1>10, MatchedSum
<1>. QED
  BY <1>7, <1>11

\* So getPairing pays no more than the weaker leg brought.
LEMMA PairingBound ==
    ASSUME NetworkInv, NEW o \in In(user)
    PROVE  /\ GetPairing(o) \in Nat
           /\ \A side \in Legs : GetPairing(o) <= Total(user, upgrades, everIn, o, side)
<1>1. PICK E : E = Counted(user, upgrades)
  OBVIOUS
<1>2. /\ Tables(user, upgrades) /\ E \subseteq everIn /\ E \subseteq In(user) /\ everIn \subseteq In(user)
      /\ user[o].current \in Types
  BY <1>1 DEF NetworkInv, Counted, Tables
<1>3. PICK t : t = [side \in Legs |-> Total(user, upgrades, E, o, side)]
  OBVIOUS
<1>4. \A side \in Legs : /\ t[side] \in Nat /\ Total(user, upgrades, everIn, o, side) \in Nat
                         /\ t[side] <= Total(user, upgrades, everIn, o, side)
  <2>1. Grown(user, user) /\ Upgraded(upgrades, upgrades)
    BY DEF Grown, Upgraded
  <2>. QED
    BY <1>2, <1>3, <2>1, TotalNat, TotalGrows
<1>5. PICK g : g = Gross(o)
  OBVIOUS
<1>6. PICK pay : pay = Pays(g, user[o].current)
  OBVIOUS
<1>7. g \in [Days -> Nat] /\ SumFunctionOnSet(g, Days) = Least(t["left"], t["right"])
  BY <1>1, <1>2, <1>3, <1>5, GrossSum DEF Legs
<1>8. pay \in [Days -> Nat] /\ \A d \in Days : pay[d] <= g[d]
  BY <1>2, <1>6, <1>7, PaysIs
<1>9. SumFunctionOnSet(pay, Days) \in Nat /\ SumFunctionOnSet(pay, Days) <= SumFunctionOnSet(g, Days)
  <2>1. \A d \in Days : pay[d] \in Int /\ g[d] \in Int /\ pay[d] <= g[d]
    BY <1>7, <1>8
  <2>2. \A d \in Days : pay[d] \in Nat
    BY <1>8
  <2>. QED
    BY <2>1, <2>2, DaysFacts, SumNat, SumMono
<1>10. GetPairing(o) = IF CanEarn(o) THEN SumFunctionOnSet(pay, Days) ELSE 0
  <2>1. [d \in Days |-> pay[d]] = pay
    BY <1>8
  <2>. QED
    BY <1>5, <1>6, <2>1 DEF GetPairing, Sum
<1>11. ASSUME NEW side \in Legs
       PROVE  SumFunctionOnSet(pay, Days) <= t[side] /\ t[side] \in Nat
  <2>1. side = "left" \/ side = "right"
    BY DEF Legs
  <2>2. t["left"] \in Nat /\ t["right"] \in Nat
    BY <1>4 DEF Legs
  <2>. QED
    BY <1>7, <1>9, <2>1, <2>2 DEF Least
<1>. QED
  BY <1>4, <1>9, <1>10, <1>11

-----------------------------------------------------------------------------
\* Stored income is backed.

DepthTree(u, o) == CHOOSE level : IsDepth(u, o, level)
ShareOf(u, st, o, m) == LeadershipRate(DepthTree(u, o)[m]) * st[m].pairing
Share(u, st, o) == SumFunctionOnSet([m \in Members |-> ShareOf(u, st, o, m)], Members)

\* A member's pairing is backed by each leg, counting whoever was a source; its
\* leadership by the stored pairing of its downline and what it was forgiven.
PaidInv ==
    /\ \A o \in In(user), side \in Legs : stored[o].pairing <= Total(user, upgrades, everIn, o, side)
    /\ \A o \in Members : stored[o].leadership <= Share(user, stored, o) + stored[o].offset

\* The depths below a member.
LEMMA DepthTreeIs ==
    ASSUME NEW u, Forest(u), NEW o
    PROVE  DepthTree(u, o) \in [Members -> Int] /\ IsDepth(u, o, DepthTree(u, o))
BY DepthIs DEF DepthTree

\* A share is a natural number that grows with the pairing.
LEMMA ShareNat ==
    ASSUME NEW u, Forest(u), NEW st, NEW so, st \in [Members -> IncomeRow], so \in [Members -> IncomeRow],
           \A m \in Members : st[m].pairing <= so[m].pairing, NEW o
    PROVE  /\ \A m \in Members : /\ ShareOf(u, st, o, m) \in Nat
                                 /\ ShareOf(u, st, o, m) <= ShareOf(u, so, o, m)
           /\ Share(u, st, o) \in Nat /\ Share(u, so, o) \in Nat
           /\ Share(u, st, o) <= Share(u, so, o)
<1>1. ASSUME NEW m \in Members
      PROVE  /\ ShareOf(u, st, o, m) \in Nat /\ ShareOf(u, so, o, m) \in Nat
             /\ ShareOf(u, st, o, m) <= ShareOf(u, so, o, m)
  <2>1. PICK r : r = LeadershipRate(DepthTree(u, o)[m])
    OBVIOUS
  <2>2. r \in {0, 1, 2, 5}
    <3>1. DepthTree(u, o)[m] \in Int
      BY DepthTreeIs
    <3>. QED
      BY <2>1, <3>1 DEF LeadershipRate
  <2>3. PICK a \in Nat : a = st[m].pairing
    BY DEF IncomeRow
  <2>4. PICK b \in Nat : b = so[m].pairing
    BY DEF IncomeRow
  <2>5. a <= b
    BY <2>3, <2>4
  <2>6. r * a \in Nat /\ r * b \in Nat /\ r * a <= r * b
    BY <2>2, <2>5
  <2>. QED
    BY <2>1, <2>3, <2>4, <2>6 DEF ShareOf
<1>2. PICK f : f = [m \in Members |-> ShareOf(u, st, o, m)]
  OBVIOUS
<1>3. PICK g : g = [m \in Members |-> ShareOf(u, so, o, m)]
  OBVIOUS
<1>4. \A m \in Members : f[m] \in Nat /\ g[m] \in Nat /\ f[m] <= g[m]
  BY <1>1, <1>2, <1>3
<1>5. \A m \in Members : f[m] \in Int /\ g[m] \in Int
  BY <1>4
<1>6. /\ SumFunctionOnSet(f, Members) <= SumFunctionOnSet(g, Members)
      /\ SumFunctionOnSet(f, Members) \in Nat /\ SumFunctionOnSet(g, Members) \in Nat
  BY <1>4, <1>5, MembersFacts, SumMono, SumNat
<1>. QED
  BY <1>1, <1>2, <1>3, <1>6 DEF Share

\* A growing network keeps the shares in what is stored.
LEMMA ShareKept ==
    ASSUME NEW u, NEW up, Tables(u, up), NEW v, NEW vp, Tables(v, vp), Grown(u, v), NEW o,
           NEW st \in [Members -> IncomeRow], \A m \in Members \ In(u) : st[m] = NoIncome
    PROVE  Share(u, st, o) = Share(v, st, o)
<1>1. ASSUME NEW m \in Members
      PROVE  ShareOf(u, st, o, m) = ShareOf(v, st, o, m)
  <2>1. CASE m \in In(u)
    <3>1. DepthTree(u, o)[m] = DepthTree(v, o)[m]
      BY <2>1, DepthsGrow DEF DepthTree
    <3>. QED
      BY <3>1 DEF ShareOf
  <2>2. CASE m \notin In(u)
    <3>1. st[m].pairing = 0
      BY <2>2 DEF NoIncome
    <3>2. PICK r \in Int : r = LeadershipRate(DepthTree(u, o)[m])
      <4>1. DepthTree(u, o)[m] \in Int
        BY DepthTreeIs DEF Tables
      <4>. QED
        BY <4>1, RatesSum
    <3>3. PICK q \in Int : q = LeadershipRate(DepthTree(v, o)[m])
      <4>1. DepthTree(v, o)[m] \in Int
        BY DepthTreeIs DEF Tables
      <4>. QED
        BY <4>1, RatesSum
    <3>4. r * 0 = 0 /\ q * 0 = 0
      OBVIOUS
    <3>. QED
      BY <3>1, <3>2, <3>3, <3>4 DEF ShareOf
  <2>. QED
    BY <2>1, <2>2
<1>2. [m \in Members |-> ShareOf(u, st, o, m)] = [m \in Members |-> ShareOf(v, st, o, m)]
  BY <1>1
<1>. QED
  BY <1>2 DEF Share

\* getLeadershipBonus computes a share, or less.
LEMMA LeadershipBound ==
    ASSUME NetworkInv, NEW o
    PROVE  GetLeadership(o) \in Nat /\ GetLeadership(o) <= Share(user, stored, o)
<1>1. PICK R : R = {m \in Present : RawCounts(m)}
  OBVIOUS
<1>2. R \in SUBSET Members /\ IsFiniteSet(R)
  <2>1. R \subseteq Members
    BY <1>1 DEF Present
  <2>. QED
    BY <2>1, MembersFacts, FS_Subset
<1>3. Depth(o) = DepthTree(user, o)
  BY DEF Depth, DepthTree, IsDepth
<1>4. PICK f : f = [m \in Members |-> ShareOf(user, stored, o, m)]
  OBVIOUS
<1>5. PICK g : g = [m \in R |-> ShareOf(user, stored, o, m)]
  OBVIOUS
<1>6. \A m \in Members : f[m] \in Nat
  <2>1. /\ Forest(user) /\ stored \in [Members -> IncomeRow]
        /\ \A m \in Members : stored[m].pairing <= stored[m].pairing
    <3>1. \A m \in Members : stored[m].pairing \in Nat
      BY DEF NetworkInv, IncomeRow
    <3>. QED
      BY <3>1 DEF NetworkInv, Tables
  <2>2. \A m \in Members : ShareOf(user, stored, o, m) \in Nat
    BY <2>1, ShareNat
  <2>. QED
    BY <1>4, <2>2
<1>7. \A m \in R : g[m] = f[m] /\ g[m] \in Nat
  BY <1>2, <1>4, <1>5, <1>6
<1>8. SumFunctionOnSet(g, R) = SumFunctionOnSet(f, R) /\ SumFunctionOnSet(g, R) \in Nat
  BY <1>2, <1>7, SumSame, SumNat
<1>9. SumFunctionOnSet(f, R) <= SumFunctionOnSet(f, Members)
  BY <1>2, <1>6, MembersFacts, SumSubset
<1>10. GetLeadership(o) = SumFunctionOnSet(g, R)
  <2>1. PICK level : level = Depth(o)
    OBVIOUS
  <2>2. GetLeadership(o) = SumFunctionOnSet([m \in {x \in Present : RawCounts(x)} |->
                               LeadershipRate(level[m]) * stored[m].pairing], {x \in Present : RawCounts(x)})
    BY <2>1 DEF GetLeadership, Sum
  <2>3. g = [m \in R |-> LeadershipRate(level[m]) * stored[m].pairing]
    BY <1>3, <1>5, <2>1 DEF ShareOf
  <2>. QED
    BY <1>1, <2>2, <2>3
<1>. QED
  BY <1>4, <1>8, <1>9, <1>10 DEF Share

\* getDREF adds natural numbers.
LEMMA DirectNat ==
    ASSUME NetworkInv, NEW o
    PROVE  GetDREF(o) \in Nat
<1>1. PICK R : R = Directs(o) \cap Sources
  OBVIOUS
<1>2. R \subseteq In(user) /\ R \subseteq Members
  BY <1>1, PresentIs DEF Counted, In
<1>3. IsFiniteSet(R)
  BY <1>2, MembersFacts, FS_Subset
<1>4. PICK f : f = [m \in R |-> PointsOf(m)]
  OBVIOUS
<1>5. \A m \in R : f[m] \in Nat
  BY <1>2, <1>4, NetworkIs, WeightNat DEF NetworkInv
<1>6. SumFunctionOnSet(f, R) \in Nat
  BY <1>3, <1>5, SumNat
<1>. QED
  BY <1>1, <1>4, <1>6 DEF GetDREF, Sum

\* What a settlement stores.
LEMMA SettleFacts ==
    ASSUME NetworkInv, NEW m \in Members, Settle(m)
    PROVE  /\ m \in In(user) /\ stored' \in [Members -> IncomeRow]
           /\ \A x \in Members : x # m => stored'[x] = stored[x]
           /\ stored'[m].pairing = stored[m].pairing \/ stored'[m].pairing = GetPairing(m)
           /\ \/ stored'[m].leadership = stored[m].leadership
              \/ stored'[m].leadership = GetLeadership(m) + stored[m].offset
           /\ stored'[m].offset = stored[m].offset
           /\ stored[m].pairing <= stored'[m].pairing
           /\ UNCHANGED <<day, user, upgrades, bought, everIn>>
<1>1. m \in In(user)
  BY PresentIs DEF Settle
<1>2. PICK a : a = GetDREF(m)
  OBVIOUS
<1>3. PICK b : b = GetPairing(m)
  OBVIOUS
<1>4. PICK c : c = GetLeadership(m)
  OBVIOUS
<1>5. a \in Nat /\ b \in Nat /\ c \in Nat
  BY <1>1, <1>2, <1>3, <1>4, DirectNat, PairingBound, LeadershipBound
<1>6. PICK old \in IncomeRow : old = stored[m]
  BY DEF NetworkInv
<1>7. PICK new : new = [direct |-> old.direct + Unpaid(a, old.direct),
                        pairing |-> old.pairing + Unpaid(b, old.pairing),
                        leadership |-> old.leadership + Unpaid(c + old.offset, old.leadership),
                        offset |-> old.offset]
  OBVIOUS
<1>9. old.direct \in Nat /\ old.pairing \in Nat /\ old.leadership \in Nat /\ old.offset \in Nat
  BY <1>6 DEF IncomeRow
<1>10. /\ new.pairing \in Nat /\ new.leadership \in Nat /\ new.direct \in Nat /\ new.offset = old.offset
       /\ new.pairing = old.pairing \/ new.pairing = b
       /\ new.leadership = old.leadership \/ new.leadership = c + old.offset
       /\ old.pairing <= new.pairing
  BY <1>5, <1>7, <1>9 DEF Unpaid, Positive
<1>8. stored' = [stored EXCEPT ![m] = new]
  <2>1. stored' = [stored EXCEPT ![m].direct = @ + Unpaid(a, @), ![m].pairing = @ + Unpaid(b, @),
                                 ![m].leadership = @ + Unpaid(c + old.offset, @)]
    BY <1>2, <1>3, <1>4, <1>6 DEF Settle
  <2>2. PICK row : row = [old EXCEPT !.direct = old.direct + Unpaid(a, old.direct),
                                     !.pairing = old.pairing + Unpaid(b, old.pairing),
                                     !.leadership = old.leadership + Unpaid(c + old.offset, old.leadership)]
    OBVIOUS
  <2>3. PICK x \in Nat : x = old.direct + Unpaid(a, old.direct)
    BY <1>7, <1>10
  <2>4. PICK y \in Nat : y = old.pairing + Unpaid(b, old.pairing)
    BY <1>7, <1>10
  <2>5. PICK z \in Nat : z = old.leadership + Unpaid(c + old.offset, old.leadership)
    BY <1>7, <1>10
  <2>6. row = [direct |-> x, pairing |-> y, leadership |-> z, offset |-> old.offset]
    <3>1. row = [old EXCEPT !.direct = x, !.pairing = y, !.leadership = z]
      BY <2>2, <2>3, <2>4, <2>5
    <3>2. /\ row \in IncomeRow /\ row.direct = x /\ row.pairing = y /\ row.leadership = z
          /\ row.offset = old.offset
      BY <3>1 DEF IncomeRow
    <3>3. row = [direct |-> row.direct, pairing |-> row.pairing, leadership |-> row.leadership,
                 offset |-> row.offset]
      BY <3>2 DEF IncomeRow
    <3>. QED
      BY <3>2, <3>3
  <2>7. row = new
    BY <1>7, <2>3, <2>4, <2>5, <2>6
  <2>8. stored \in [Members -> IncomeRow]
    BY DEF NetworkInv
  <2>9. stored' = [stored EXCEPT ![m] = row]
    BY <1>6, <2>1, <2>2, <2>8 DEF IncomeRow
  <2>. QED
    BY <2>7, <2>9
<1>11. new \in IncomeRow
  BY <1>7, <1>9, <1>10 DEF IncomeRow
<1>12. /\ stored' \in [Members -> IncomeRow] /\ stored'[m] = new
       /\ \A x \in Members : x # m => stored'[x] = stored[x]
  BY <1>8, <1>11 DEF NetworkInv
<1>13. UNCHANGED <<day, user, upgrades, bought, everIn>>
  BY DEF Settle, tree
<1>. QED
  BY <1>1, <1>3, <1>4, <1>6, <1>10, <1>12, <1>13

\* A settlement keeps both invariants.
LEMMA SettleStep ==
    ASSUME NetworkInv, PaidInv, NEW m \in Members, Settle(m)
    PROVE  NetworkInv' /\ PaidInv'
<1>1. /\ m \in In(user) /\ stored' \in [Members -> IncomeRow] /\ stored \in [Members -> IncomeRow]
      /\ \A x \in Members : x # m => stored'[x] = stored[x]
      /\ UNCHANGED <<day, user, upgrades, bought, everIn>>
  BY SettleFacts DEF NetworkInv
<1>2. NetworkInv'
  BY <1>1 DEF NetworkInv
<1>3. ASSUME NEW o \in In(user), NEW side \in Legs
      PROVE  stored'[o].pairing <= Total(user, upgrades, everIn, o, side)
  <2>1. o \in Members
    BY DEF In
  <2>2. CASE o # m
    BY <1>1, <2>1, <2>2 DEF PaidInv
  <2>3. CASE o = m
    <3>1. stored'[m].pairing = stored[m].pairing \/ stored'[m].pairing = GetPairing(m)
      BY SettleFacts
    <3>2. GetPairing(m) <= Total(user, upgrades, everIn, m, side)
      BY <1>1, PairingBound
    <3>3. stored[m].pairing <= Total(user, upgrades, everIn, m, side)
      BY <1>1 DEF PaidInv
    <3>. QED
      BY <2>3, <3>1, <3>2, <3>3
  <2>. QED
    BY <2>2, <2>3
<1>4. \A x \in Members : stored[x].pairing <= stored'[x].pairing
  <2>1. ASSUME NEW x \in Members
        PROVE  stored[x].pairing <= stored'[x].pairing
    <3>1. CASE x # m
      <4>1. stored[x].pairing \in Nat /\ stored'[x] = stored[x]
        BY <1>1, <3>1 DEF IncomeRow
      <4>. QED
        BY <4>1
    <3>2. CASE x = m
      BY <3>2, SettleFacts
    <3>. QED
      BY <3>1, <3>2
  <2>. QED
    BY <2>1
<1>5. ASSUME NEW o \in Members
      PROVE  stored'[o].leadership <= Share(user, stored', o) + stored'[o].offset
  <2>1. PICK new : new = stored'
    OBVIOUS
  <2>2. /\ Share(user, stored, o) <= Share(user, new, o)
        /\ Share(user, stored, o) \in Nat /\ Share(user, new, o) \in Nat
    <3>1. Forest(user) /\ new \in [Members -> IncomeRow] /\ \A x \in Members : stored[x].pairing <= new[x].pairing
      BY <1>1, <1>4, <2>1 DEF NetworkInv, Tables
    <3>. QED
      BY <1>1, <3>1, ShareNat
  <2>3. /\ stored[o].leadership <= Share(user, stored, o) + stored[o].offset
        /\ stored[o].leadership \in Nat /\ stored[o].offset \in Nat
    BY <1>1 DEF PaidInv, IncomeRow
  <2>4. GetLeadership(o) <= Share(user, stored, o) /\ GetLeadership(o) \in Nat
    BY LeadershipBound
  <2>5. /\ \/ new[o].leadership = stored[o].leadership
           \/ new[o].leadership = GetLeadership(o) + stored[o].offset
        /\ new[o].offset = stored[o].offset
    BY <1>1, <2>1, SettleFacts
  <2>6. new[o].leadership <= Share(user, new, o) + new[o].offset
    BY <2>2, <2>3, <2>4, <2>5
  <2>. QED
    BY <2>1, <2>6
<1>6. PaidInv'
  BY <1>1, <1>3, <1>5 DEF PaidInv
<1>. QED
  BY <1>2, <1>6

\* So does the script that forgives a member what it was paid too much: what is
\* stored is the share and the new offset.
LEMMA ForgiveStep ==
    ASSUME NetworkInv, PaidInv, NEW m \in Members, Forgive(m)
    PROVE  NetworkInv' /\ PaidInv'
<1>1. PICK over : over = stored[m].leadership - GetLeadership(m)
  OBVIOUS
<1>2. /\ m \in In(user) /\ stored \in [Members -> IncomeRow] /\ over > 0
      /\ stored' = [stored EXCEPT ![m].offset = over]
      /\ UNCHANGED <<day, user, upgrades, bought, everIn>>
  BY <1>1, PresentIs DEF Forgive, tree, NetworkInv
<1>3. GetLeadership(m) \in Nat /\ GetLeadership(m) <= Share(user, stored, m)
  BY LeadershipBound
<1>4. over \in Nat /\ stored[m].leadership = GetLeadership(m) + over
  BY <1>1, <1>2, <1>3 DEF IncomeRow
<1>5. PICK new : new = stored'
  OBVIOUS
<1>6. /\ new \in [Members -> IncomeRow]
      /\ \A x \in Members : x # m => new[x] = stored[x]
      /\ new[m].offset = over
      /\ \A x \in Members : new[x].leadership = stored[x].leadership /\ new[x].pairing = stored[x].pairing
  BY <1>2, <1>4, <1>5 DEF IncomeRow
<1>7. NetworkInv'
  BY <1>2, <1>5, <1>6 DEF NetworkInv
<1>8. ASSUME NEW o \in Members
      PROVE  new[o].leadership <= Share(user, new, o) + new[o].offset
  <2>1. /\ Share(user, stored, o) <= Share(user, new, o)
        /\ Share(user, stored, o) \in Nat /\ Share(user, new, o) \in Nat
    <3>1. Forest(user) /\ \A x \in Members : stored[x].pairing <= new[x].pairing
      <4>1. \A x \in Members : stored[x].pairing \in Nat
        BY <1>2 DEF IncomeRow
      <4>. QED
        BY <1>6, <4>1 DEF NetworkInv, Tables
    <3>. QED
      BY <1>2, <1>6, <3>1, ShareNat
  <2>2. CASE o = m
    BY <1>3, <1>4, <1>6, <2>1, <2>2
  <2>3. CASE o # m
    <3>1. stored[o].leadership <= Share(user, stored, o) + stored[o].offset
      BY DEF PaidInv
    <3>2. stored[o].leadership \in Nat /\ stored[o].offset \in Nat
      BY <1>2 DEF IncomeRow
    <3>. QED
      BY <1>6, <2>1, <2>3, <3>1, <3>2
  <2>. QED
    BY <2>2, <2>3
<1>9. \A o \in In(user), side \in Legs : new[o].pairing <= Total(user, upgrades, everIn, o, side)
  BY <1>6 DEF PaidInv, In
<1>10. PaidInv'
  BY <1>2, <1>5, <1>8, <1>9 DEF PaidInv
<1>. QED
  BY <1>7, <1>10

\* So does a growing network.
LEMMA GrowthStep ==
    ASSUME NetworkInv, NetworkInv', PaidInv, Grown(user, user'), Upgraded(upgrades, upgrades'),
           everIn \subseteq everIn', UNCHANGED stored
    PROVE  PaidInv'
<1>1. PICK v : v = user'
  OBVIOUS
<1>2. PICK vp : vp = upgrades'
  OBVIOUS
<1>3. PICK F : F = everIn'
  OBVIOUS
<1>4. /\ Tables(user, upgrades) /\ Tables(v, vp) /\ Grown(user, v) /\ Upgraded(upgrades, vp)
      /\ everIn \subseteq In(user) /\ everIn \subseteq F /\ F \subseteq In(v)
      /\ stored \in [Members -> IncomeRow] /\ \A m \in Members \ In(user) : stored[m] = NoIncome
  BY <1>1, <1>2, <1>3 DEF NetworkInv
<1>5. ASSUME NEW o \in In(v), NEW side \in Legs
      PROVE  stored[o].pairing <= Total(v, vp, F, o, side)
  <2>1. CASE o \in In(user)
    <3>1. stored[o].pairing <= Total(user, upgrades, everIn, o, side)
      BY <2>1 DEF PaidInv
    <3>2. /\ Total(user, upgrades, everIn, o, side) <= Total(v, vp, F, o, side)
          /\ Total(user, upgrades, everIn, o, side) \in Nat /\ Total(v, vp, F, o, side) \in Nat
      BY <1>4, TotalGrows, TotalNat
    <3>3. stored[o].pairing \in Nat
      BY <1>4, <2>1 DEF IncomeRow, In
    <3>. QED
      BY <3>1, <3>2, <3>3
  <2>2. CASE o \notin In(user)
    <3>1. stored[o].pairing = 0
      BY <1>4, <2>2 DEF NoIncome, In
    <3>2. Total(v, vp, F, o, side) \in Nat
      BY <1>4, TotalNat
    <3>. QED
      BY <3>1, <3>2
  <2>. QED
    BY <2>1, <2>2
<1>6. \A o \in Members : stored[o].leadership <= Share(v, stored, o) + stored[o].offset
  BY <1>4, ShareKept DEF PaidInv
<1>. QED
  BY <1>1, <1>2, <1>3, <1>5, <1>6 DEF PaidInv

\* In the first state nothing is stored.
LEMMA PaidInit ==
    ASSUME Init
    PROVE  NetworkInv /\ PaidInv
<1>1. NetworkInv
  BY NetworkInit
<1>2. \A m \in Members : /\ stored[m].pairing = 0 /\ stored[m].leadership = 0 /\ stored[m].offset = 0
                         /\ stored[m] \in IncomeRow
  <2>1. \A m \in Members : stored[m] = NoIncome
    BY DEF Init
  <2>2. /\ NoIncome.pairing = 0 /\ NoIncome.leadership = 0 /\ NoIncome.offset = 0
        /\ NoIncome \in IncomeRow
    BY DEF NoIncome, IncomeRow
  <2>. QED
    BY <2>1, <2>2
<1>3. ASSUME NEW o \in In(user), NEW side \in Legs
      PROVE  stored[o].pairing <= Total(user, upgrades, everIn, o, side)
  <2>1. Total(user, upgrades, everIn, o, side) \in Nat
    BY <1>1, TotalNat DEF NetworkInv
  <2>2. stored[o].pairing = 0
    BY <1>2 DEF In
  <2>. QED
    BY <2>1, <2>2
<1>4. ASSUME NEW o \in Members
      PROVE  stored[o].leadership <= Share(user, stored, o) + stored[o].offset
  <2>1. GetLeadership(o) \in Nat /\ GetLeadership(o) <= Share(user, stored, o)
    BY <1>1, LeadershipBound
  <2>2. Share(user, stored, o) \in Nat
    <3>1. /\ Forest(user) /\ stored \in [Members -> IncomeRow]
          /\ \A x \in Members : stored[x].pairing <= stored[x].pairing
      BY <1>1, <1>2 DEF NetworkInv, Tables
    <3>. QED
      BY <3>1, ShareNat
  <2>. QED
    BY <1>2, <2>1, <2>2
<1>. QED
  BY <1>1, <1>3, <1>4 DEF PaidInv

\* Every step.
LEMMA PaidStep ==
    ASSUME NetworkInv, PaidInv, [Next]_vars
    PROVE  NetworkInv' /\ PaidInv'
<1>1. ASSUME NetworkInv', Grown(user, user'), Upgraded(upgrades, upgrades'), everIn \subseteq everIn', UNCHANGED stored
      PROVE  NetworkInv' /\ PaidInv'
  BY <1>1, GrowthStep
<1>2. ASSUME UNCHANGED <<user, upgrades, everIn, stored>>, day' \in Days, bought' \in [Members -> Nat]
      PROVE  NetworkInv' /\ PaidInv'
  BY <1>1, <1>2, NetworkSame
<1>3. CASE UNCHANGED vars
  BY <1>2, <1>3 DEF vars, NetworkInv
<1>4. CASE NextDay
  <2>1. day \in Days /\ day < LastDay /\ day' = day + 1
    BY <1>4 DEF NextDay, NetworkInv
  <2>2. day' \in Days
    BY <2>1, DaysFacts
  <2>. QED
    BY <1>2, <1>4, <2>2 DEF NextDay, tree, NetworkInv
<1>5. ASSUME NEW m \in Members, JoinManual(m)
      PROVE  NetworkInv' /\ PaidInv'
  <2>1. PICK s \in Sponsors[m], up \in Present, side \in Legs, code \in Codes[m], lost \in {FALSE, (m \in Losers)} :
            Join(m, s, [up |-> up, side |-> side], code, lost)
    BY <1>5 DEF JoinManual
  <2>2. code \in Kinds
    BY EnginesAssumption DEF Kinds
  <2>3. PICK slot : slot = [up |-> up, side |-> side]
    OBVIOUS
  <2>4. Join(m, s, slot, code, lost) /\ slot.side \in Legs
    BY <2>1, <2>3
  <2>. QED
    BY <1>1, <2>2, <2>3, <2>4, NetworkJoin
<1>6. ASSUME NEW m \in Members, JoinAuto(m)
      PROVE  NetworkInv' /\ PaidInv'
  <2>1. PICK s \in Sponsors[m] \cap Present, code \in Codes[m], lost \in {FALSE, (m \in Losers)} :
            Join(m, s, Recommended(s), code, lost)
    BY <1>6 DEF JoinAuto
  <2>2. code \in Kinds
    BY EnginesAssumption DEF Kinds
  <2>3. PICK slot : slot = Recommended(s)
    OBVIOUS
  <2>4. slot.side \in Legs
    <3>1. Preferred(s) \in Legs
      BY DEF Preferred, Legs
    <3>. QED
      BY <2>3, <3>1 DEF Recommended
  <2>5. Join(m, s, slot, code, lost)
    BY <2>1, <2>3
  <2>. QED
    BY <1>1, <2>2, <2>4, <2>5, NetworkJoin
<1>7. ASSUME NEW m \in Members, Upgrade(m)
      PROVE  NetworkInv' /\ PaidInv'
  BY <1>1, <1>7, NetworkUpgrade
<1>8. ASSUME NEW m \in Members, PayOff(m)
      PROVE  NetworkInv' /\ PaidInv'
  BY <1>1, <1>8, NetworkPayOff
<1>9. ASSUME NEW m \in Members, Buy(m)
      PROVE  NetworkInv' /\ PaidInv'
  <2>1. bought' \in [Members -> Nat]
    BY <1>9, EnginesAssumption DEF Buy, NetworkInv
  <2>. QED
    BY <1>2, <1>9, <2>1 DEF Buy, tree, NetworkInv
<1>10. ASSUME NEW m \in Members, Settle(m)
       PROVE  NetworkInv' /\ PaidInv'
  BY <1>10, SettleStep
<1>12. ASSUME NEW m \in Members, Forgive(m)
       PROVE  NetworkInv' /\ PaidInv'
  BY <1>12, ForgiveStep
<1>11. ASSUME NEW o \in Owners, SyncRead(o) \/ SyncWrite(o)
       PROVE  NetworkInv' /\ PaidInv'
  BY <1>2, <1>11 DEF SyncRead, SyncWrite, tree, NetworkInv
<1>. QED
  BY <1>3, <1>4, <1>5, <1>6, <1>7, <1>8, <1>9, <1>10, <1>11, <1>12 DEF Next

\* The leadership that all members got is a tenth of all pairing, and what they
\* were forgiven, or less.
LEMMA SharesSum ==
    ASSUME NetworkInv, PaidInv
    PROVE  Sum(Members, LAMBDA m : stored[m].leadership)
               <= 10 * Sum(Members, LAMBDA m : stored[m].pairing) + Sum(Members, LAMBDA m : stored[m].offset)
<1>1. PICK l : l = [m \in Members |-> stored[m].leadership]
  OBVIOUS
<1>2. PICK p : p = [m \in Members |-> stored[m].pairing]
  OBVIOUS
<1>3. PICK s : s = [o \in Members |-> Share(user, stored, o)]
  OBVIOUS
<1>4. PICK level : level = [o \in Members |-> DepthTree(user, o)]
  OBVIOUS
<1>5. PICK f : f = [q \in Members \X Members |-> LeadershipRate(level[q[1]][q[2]]) * p[q[2]]]
  OBVIOUS
<1>21. PICK e : e = [m \in Members |-> stored[m].offset]
  OBVIOUS
<1>6. /\ IsFiniteSet(Members) /\ Forest(user) /\ stored \in [Members -> IncomeRow]
      /\ \A m \in Members : l[m] \in Nat /\ p[m] \in Nat /\ e[m] \in Nat
  BY <1>1, <1>2, <1>21, MembersFacts DEF NetworkInv, Tables, IncomeRow
<1>7. \A o \in Members : level[o] \in [Members -> Int] /\ IsDepth(user, o, level[o])
  BY <1>4, <1>6, DepthTreeIs
<1>8. \A o, m \in Members : LeadershipRate(level[o][m]) \in Nat
  BY <1>7, RatesSum
<1>9. \A o, m \in Members : f[<<o, m>>] = LeadershipRate(level[o][m]) * p[m] /\ f[<<o, m>>] \in Nat
  <2>1. ASSUME NEW o \in Members, NEW m \in Members
        PROVE  f[<<o, m>>] = LeadershipRate(level[o][m]) * p[m] /\ f[<<o, m>>] \in Nat
    <3>1. f[<<o, m>>] = LeadershipRate(level[o][m]) * p[m]
      BY <1>5
    <3>2. PICK a \in Nat : a = LeadershipRate(level[o][m])
      BY <1>8
    <3>3. PICK b \in Nat : b = p[m]
      BY <1>6
    <3>4. a * b \in Nat
      OBVIOUS
    <3>. QED
      BY <3>1, <3>2, <3>3, <3>4
  <2>. QED
    BY <2>1
<1>10. IsTable(f, Members, Members)
  <2>1. \A n \in Nat : n \in Int
    OBVIOUS
  <2>. QED
    BY <1>9, <2>1, Zenon DEF IsTable
<1>11. ASSUME NEW o \in Members
       PROVE  s[o] = SumFunctionOnSet(Across(f, o, Members), Members) /\ s[o] \in Nat /\ l[o] <= s[o] + e[o]
  <2>1. Across(f, o, Members) = [m \in Members |-> ShareOf(user, stored, o, m)]
    BY <1>2, <1>4, <1>9 DEF Across, ShareOf
  <2>2. s[o] = SumFunctionOnSet(Across(f, o, Members), Members)
    BY <1>3, <2>1 DEF Share
  <2>3. \A m \in Members : Across(f, o, Members)[m] \in Nat
    BY <1>9 DEF Across
  <2>4. SumFunctionOnSet(Across(f, o, Members), Members) \in Nat
    BY <1>6, <2>3, SumNat
  <2>. QED
    BY <1>1, <1>3, <1>21, <2>2, <2>4 DEF PaidInv
<1>12. PICK c : c = [m \in Members |-> SumFunctionOnSet(Down(f, Members, m), Members)]
  OBVIOUS
<1>13. SumFunctionOnSet(s, Members) = SumFunctionOnSet(c, Members)
  <2>1. /\ \A o \in Members : s[o] = SumFunctionOnSet(Across(f, o, Members), Members)
        /\ \A m \in Members : c[m] = SumFunctionOnSet(Down(f, Members, m), Members)
    BY <1>11, <1>12
  <2>. QED
    BY <1>6, <1>10, <2>1, SumSwap
<1>14. PICK t : t = [m \in Members |-> 10 * p[m]]
  OBVIOUS
<1>15. ASSUME NEW m \in Members
       PROVE  c[m] \in Int /\ c[m] <= t[m]
  <2>1. PICK w : w = [o \in Members |-> LeadershipRate(level[o][m])]
    OBVIOUS
  <2>2. \A o \in Members : w[o] \in Nat /\ w[o] \in Int
    BY <1>8, <2>1
  <2>3. SumFunctionOnSet(w, Members) <= 10
    BY <1>6, <1>7, <2>1, RatesBound
  <2>4. PICK a \in Nat : a = SumFunctionOnSet(w, Members)
    BY <1>6, <2>2, SumNat
  <2>5. PICK b \in Nat : b = p[m]
    BY <1>6
  <2>6. PICK g : g = Down(f, Members, m)
    OBVIOUS
  <2>7. \A o \in Members : g[o] = b * w[o]
    <3>1. ASSUME NEW o \in Members
          PROVE  g[o] = b * w[o]
      <4>1. PICK r \in Nat : r = LeadershipRate(level[o][m])
        BY <1>8
      <4>2. g[o] = r * b
        BY <1>9, <2>5, <2>6, <4>1 DEF Down
      <4>3. r * b = b * r
        OBVIOUS
      <4>. QED
        BY <2>1, <4>1, <4>2, <4>3
    <3>. QED
      BY <3>1
  <2>8. SumFunctionOnSet(g, Members) = b * SumFunctionOnSet(w, Members)
    BY <1>6, <2>2, <2>7, SumScale
  <2>9. a <= 10
    BY <2>3, <2>4
  <2>10. b * a <= 10 * b /\ b * a \in Int
    <3>1. a \in 0 .. 10
      BY <2>9
    <3>2. a \in {0, 1, 2, 3, 4, 5, 6, 7, 8, 9, 10}
      BY <3>1
    <3>. QED
      BY <3>2
  <2>. QED
    BY <1>12, <1>14, <2>4, <2>5, <2>6, <2>8, <2>10
<1>16. SumFunctionOnSet(l, Members) <= SumFunctionOnSet(s, Members) + SumFunctionOnSet(e, Members)
  <2>1. PICK b : b = [o \in Members |-> s[o] + e[o]]
    OBVIOUS
  <2>2. \A o \in Members : /\ l[o] \in Int /\ s[o] \in Int /\ e[o] \in Int
                           /\ b[o] = s[o] + e[o] /\ b[o] \in Int /\ l[o] <= b[o]
    BY <1>6, <1>11, <2>1
  <2>3. SumFunctionOnSet(l, Members) <= SumFunctionOnSet(b, Members)
    BY <1>6, <2>2, SumMono
  <2>4. SumFunctionOnSet(b, Members) = SumFunctionOnSet(s, Members) + SumFunctionOnSet(e, Members)
    BY <1>6, <2>2, SumPlus
  <2>. QED
    BY <2>3, <2>4
<1>17. SumFunctionOnSet(c, Members) <= SumFunctionOnSet(t, Members)
  <2>1. \A m \in Members : c[m] \in Int /\ t[m] \in Int /\ c[m] <= t[m]
    BY <1>6, <1>14, <1>15
  <2>. QED
    BY <1>6, <2>1, SumMono
<1>18. SumFunctionOnSet(t, Members) = 10 * SumFunctionOnSet(p, Members)
  <2>1. \A m \in Members : p[m] \in Int /\ t[m] = 10 * p[m]
    BY <1>6, <1>14
  <2>2. 10 \in Int
    OBVIOUS
  <2>. QED
    BY <1>6, <2>1, <2>2, SumScale
<1>19. /\ SumFunctionOnSet(l, Members) \in Int /\ SumFunctionOnSet(s, Members) \in Int
       /\ SumFunctionOnSet(t, Members) \in Int /\ SumFunctionOnSet(p, Members) \in Int
       /\ SumFunctionOnSet(e, Members) \in Int
  <2>1. \A m \in Members : l[m] \in Int /\ s[m] \in Int /\ p[m] \in Int /\ t[m] \in Int /\ e[m] \in Int
    BY <1>6, <1>11, <1>14
  <2>. QED
    BY <1>6, <2>1, SumInt
<1>20. SumFunctionOnSet(l, Members) <= 10 * SumFunctionOnSet(p, Members) + SumFunctionOnSet(e, Members)
  BY <1>13, <1>16, <1>17, <1>18, <1>19
<1>. QED
  BY <1>1, <1>2, <1>20, <1>21 DEF Sum

\* Stored income is backed: a member's pairing by the weaker of its legs,
\* counting every account that ever was a source, and all leadership by a tenth
\* of the pairing that was stored and by the offsets that were forgiven.
\* (getPairing, getLeadershipBonus, leadership_credit_offset)
THEOREM PaidIsBacked == Spec => []PaidBacked
<1>1. Init => NetworkInv /\ PaidInv
  BY PaidInit
<1>2. NetworkInv /\ PaidInv /\ [Next]_vars => NetworkInv' /\ PaidInv'
  BY PaidStep
<1>3. NetworkInv /\ PaidInv => PaidBacked
  <2>. SUFFICES ASSUME NetworkInv, PaidInv
                PROVE  PaidBacked
    OBVIOUS
  <2>1. ASSUME NEW o \in Present
        PROVE  stored[o].pairing <= Least(Sum({m \in everIn : LegOf(o)[m] = "left"}, PointsOf),
                                          Sum({m \in everIn : LegOf(o)[m] = "right"}, PointsOf))
    <3>1. o \in In(user)
      BY PresentIs
    <3>2. /\ stored[o].pairing <= Total(user, upgrades, everIn, o, "left")
          /\ stored[o].pairing <= Total(user, upgrades, everIn, o, "right")
      BY <3>1 DEF PaidInv, Legs
    <3>. QED
      BY <3>2, NetworkIs DEF Least
  <2>2. Sum(Members, LAMBDA m : stored[m].leadership)
            <= 10 * Sum(Members, LAMBDA m : stored[m].pairing) + Sum(Members, LAMBDA m : stored[m].offset)
    BY SharesSum
  <2>. QED
    BY <2>1, <2>2 DEF PaidBacked
<1>. QED
  BY <1>1, <1>2, <1>3, PTL DEF Spec
-----------------------------------------------------------------------------
\* The pairing ledger and the income events beside it.

\* A row that is locked is not credited, and all rows of a reading agree on it.
RowsLock(rows) ==
    /\ \A r \in rows : r.locked => r.credited = 0
    /\ \A r, q \in rows : r.locked = q.locked

LockInv ==
    /\ viewing = [o \in Owners |-> viewing[o]]
    /\ ledger = [o \in Owners |-> ledger[o]]
    /\ mirror = [o \in Owners |-> mirror[o]]
    /\ \A o \in Owners : RowsLock(viewing[o].rows)

\* What a reading computes is such a set of rows.
LEMMA RowsAreLocked ==
    ASSUME NEW es, NEW o, NEW locked \in BOOLEAN
    PROVE  RowsLock(Rows(es, o, locked))
<1>. DEFINE matches == Matches(es, LegEvents(es, o, "left"), LegEvents(es, o, "right"))
            type == user[o].current
            Is(credited) == credited = [r \in matches |->
                LET earlier == {q \in matches : q.from < r.from}
                    week  == Sum({q \in earlier : TrackerWeek(q.day) = TrackerWeek(r.day)}, LAMBDA q : credited[q])
                    monthly == Sum({q \in earlier : Month(q.day) = Month(r.day)}, LAMBDA q : credited[q])
                IN  IF locked THEN 0
                    ELSE Least(r.gross, Least(Positive(WeekCap[type] - week), Positive(MonthCap[type] - monthly)))]
            pay == CHOOSE credited : Is(credited)
<1>1. Rows(es, o, locked) =
        {[pair |-> <<r.left, r.right>>, gross |-> r.gross, credited |-> pay[r], locked |-> locked] : r \in matches}
  BY DEF Rows
<1>2. ASSUME locked
      PROVE  \A r \in matches : pay[r] = 0
  <2>1. Is([r \in matches |-> 0])
    BY <1>2
  <2>2. Is(pay)
    BY <2>1
  <2>. QED
    BY <1>2, <2>2
<1>. HIDE DEF matches, pay
<1>. QED
  BY <1>1, <1>2 DEF RowsLock

\* Only the reading and the writing of the ledger change the trace.
LEMMA TraceSteps ==
    ASSUME [Next]_vars
    PROVE  \/ UNCHANGED trace
           \/ \E o \in Owners : SyncRead(o) \/ SyncWrite(o)
<1>1. CASE UNCHANGED vars
  BY <1>1 DEF vars, trace
<1>2. CASE NextDay
  BY <1>2 DEF NextDay
<1>3. ASSUME NEW m \in Members, JoinManual(m) \/ JoinAuto(m)
      PROVE  UNCHANGED trace
  BY <1>3 DEF JoinManual, JoinAuto, Join
<1>4. ASSUME NEW m \in Members, Upgrade(m) \/ PayOff(m) \/ Buy(m) \/ Settle(m) \/ Forgive(m)
      PROVE  UNCHANGED trace
  BY <1>4 DEF Upgrade, PayOff, Buy, Settle, Forgive
<1>. QED
  BY <1>1, <1>2, <1>3, <1>4 DEF Next

\* The first state, and each step, keep the trace locked where it is.
LEMMA LockInit ==
    ASSUME Init
    PROVE  LockInv /\ LockedUncredited
BY DEF Init, LockInv, LockedUncredited, NotViewing, RowsLock

\* A step keeps the trace locked where it is: a locked row of the page is written without a credit.
LEMMA LockStep ==
    ASSUME LockInv, LockedUncredited, [Next]_vars
    PROVE  LockInv' /\ LockedUncredited'
<1>1. CASE UNCHANGED trace
  BY <1>1 DEF trace, LockInv, LockedUncredited
<1>2. ASSUME NEW o \in Owners, SyncRead(o)
      PROVE  LockInv' /\ LockedUncredited'
  <2>1. PICK locked \in BOOLEAN : locked = ~CanEarn(o)
    OBVIOUS
  <2>2. PICK rows : rows = Rows(Backfilled(o), o, locked)
    OBVIOUS
  <2>3. /\ viewing' = [viewing EXCEPT ![o] = [on |-> TRUE, rows |-> rows, locked |-> locked]]
        /\ UNCHANGED <<ledger, mirror>>
    BY <1>2, <2>1, <2>2 DEF SyncRead
  <2>4. RowsLock(rows)
    BY <2>2, RowsAreLocked
  <2>5. LockInv'
    BY <2>3, <2>4 DEF LockInv
  <2>. QED
    BY <2>3, <2>5 DEF LockedUncredited
<1>3. ASSUME NEW o \in Owners, SyncWrite(o)
      PROVE  LockInv' /\ LockedUncredited'
  <2>1. PICK rows : rows = viewing[o].rows
    OBVIOUS
  <2>2. PICK old : old = mirror[o]
    OBVIOUS
  <2>3. PICK touched : touched = {r \in rows : r.credited > 0 \/ r.pair \in DOMAIN old}
    OBVIOUS
  <2>4. PICK new : new = [p \in {r.pair : r \in touched} |-> Mirrored(old, CHOOSE r \in touched : r.pair = p)]
    OBVIOUS
  <2>5. PICK merged : merged = [p \in DOMAIN old \cup DOMAIN new |-> IF p \in DOMAIN new THEN new[p] ELSE old[p]]
    OBVIOUS
  <2>6. /\ ledger' = [ledger EXCEPT ![o] = rows]
        /\ mirror' = [mirror EXCEPT ![o] = merged]
        /\ viewing' = [viewing EXCEPT ![o] = NotViewing]
    BY <1>3, <2>1, <2>2, <2>3, <2>4, <2>5 DEF SyncWrite
  <2>7. RowsLock(rows) /\ RowsLock({})
    BY <2>1 DEF LockInv, RowsLock
  <2>8. LockInv'
    BY <2>6, <2>7 DEF LockInv, NotViewing
  <2>9. ASSUME NEW r \in rows, r.locked, r.pair \in DOMAIN merged
        PROVE  merged[r.pair].status # "credited"
    <3>1. \A q \in rows : q.locked /\ q.credited = 0
      BY <2>7, <2>9 DEF RowsLock
    <3>2. \A q \in touched : q \in rows /\ q.pair \in DOMAIN old
      BY <2>3, <3>1
    <3>3. DOMAIN new = {q.pair : q \in touched}
      BY <2>4
    <3>4. r.pair \in DOMAIN old
      BY <2>5, <2>9, <3>2, <3>3
    <3>5. r \in touched
      BY <2>3, <3>4
    <3>6. PICK q : q = CHOOSE x \in touched : x.pair = r.pair
      OBVIOUS
    <3>7. q \in touched /\ q.pair = r.pair
      BY <3>5, <3>6
    <3>8. merged[r.pair] = Mirrored(old, q)
      BY <2>4, <2>5, <3>3, <3>5, <3>6
    <3>9. q.locked /\ q.credited = 0 /\ q.pair \in DOMAIN old
      BY <3>1, <3>2, <3>7
    <3>10. Mirrored(old, q) = IF old[q.pair].status = "credited" THEN [net |-> 0, status |-> "reversed"]
                              ELSE old[q.pair]
      BY <3>9 DEF Mirrored
    <3>. QED
      BY <3>8, <3>10
  <2>10. LockedUncredited'
    <3>. SUFFICES ASSUME NEW x \in Owners, NEW r \in ledger'[x], r.locked, r.pair \in DOMAIN mirror'[x]
                  PROVE  mirror'[x][r.pair].status # "credited"
      BY DEF LockedUncredited
    <3>1. CASE x = o
      BY <2>6, <2>9, <3>1 DEF LockInv
    <3>2. CASE x # o
      BY <2>6, <3>2 DEF LockInv, LockedUncredited
    <3>. QED
      BY <3>1, <3>2
  <2>. QED
    BY <2>8, <2>10
<1>. QED
  BY <1>1, <1>2, <1>3, TraceSteps

\* A match that the trace shows as locked is not credited in the income events.
\* (syncPairingLedger)
THEOREM LockedAreUncredited == Spec => []LockedUncredited
<1>1. Init => LockInv /\ LockedUncredited
  BY LockInit
<1>2. LockInv /\ LockedUncredited /\ [Next]_vars => LockInv' /\ LockedUncredited'
  BY LockStep
<1>. QED
  BY <1>1, <1>2, PTL DEF Spec
-----------------------------------------------------------------------------
\* The unilevel: three scans of the sponsor tree.

LevelOf(o, k) == {m \in In(user) : DepthTree(user, o)[m] = k}
Scan == [level : SUBSET Members, visited : SUBSET Members]
Advanced(before) ==
    LET level == (UNION {Directs(m) : m \in before.level}) \ before.visited
    IN  [level |-> level, visited |-> before.visited \cup level]

\* The numbers of levels.
LEMMA LevelsFacts ==
    /\ Levels = 1 .. Cardinality(Members) /\ IsFiniteSet(Levels) /\ Levels \subseteq Nat
    /\ IsFiniteSet(0 .. Cardinality(Members)) /\ 0 .. Cardinality(Members) \subseteq Nat
    /\ 0 \in 0 .. Cardinality(Members)
    /\ \A k \in Levels : k \in 0 .. Cardinality(Members) /\ k > 0 /\ k - 1 \in 0 .. Cardinality(Members)
<1>1. Cardinality(Members) \in Nat
  BY MembersFacts
<1>2. 1 \in Int /\ 0 \in Int /\ Cardinality(Members) \in Int
  BY <1>1
<1>3. IsFiniteSet(0 .. Cardinality(Members)) /\ IsFiniteSet(1 .. Cardinality(Members))
  BY <1>2, FS_Interval
<1>. QED
  BY <1>1, <1>3 DEF Levels

\* The members of a level, from those of the level before it.
LEMMA LevelStep ==
    ASSUME NetworkInv, NEW o \in In(user), NEW k \in Levels
    PROVE  (UNION {Directs(m) : m \in LevelOf(o, k - 1)})
              \ {m \in In(user) : DepthTree(user, o)[m] \in 0 .. k - 1} = LevelOf(o, k)
<1>1. Forest(user) /\ Tables(user, upgrades)
  BY DEF NetworkInv, Tables
<1>2. PICK level \in [Members -> Int] : level = DepthTree(user, o) /\ IsDepth(user, o, level)
  BY <1>1, DepthTreeIs
<1>3. k \in Int /\ k > 0 /\ k - 1 \in Int
  BY LevelsFacts
<1>4. \A m : Directs(m) = {d \in In(user) : user[d].sponsor = m}
  BY PresentIs DEF Directs
<1>5. ASSUME NEW d, NEW m \in LevelOf(o, k - 1), d \in Directs(m), level[d] \notin 0 .. k - 1
      PROVE  d \in LevelOf(o, k)
  <2>1. d \in In(user) /\ user[d].sponsor = m /\ m \in In(user) /\ level[m] = k - 1
    BY <1>2, <1>4, <1>5 DEF LevelOf
  <2>2. d \in Members /\ m \in Members /\ m # Nobody
    BY <2>1, MembersFacts DEF In
  <2>3. level[d] = IF d = o THEN 0 ELSE IF user[d].sponsor = Nobody THEN -Cardinality(Members)
                   ELSE level[user[d].sponsor] + 1
    BY <1>2, <2>2 DEF IsDepth
  <2>4. d # o
    BY <1>3, <1>5, <2>3
  <2>5. level[d] = k
    BY <1>3, <2>1, <2>2, <2>3, <2>4
  <2>. QED
    BY <1>2, <2>1, <2>5 DEF LevelOf
<1>6. ASSUME NEW d \in LevelOf(o, k)
      PROVE  \E m \in LevelOf(o, k - 1) : d \in Directs(m)
  <2>1. d \in In(user) /\ d \in Members /\ level[d] = k
    BY <1>2 DEF LevelOf, In
  <2>2. PICK s : s = user[d].sponsor
    OBVIOUS
  <2>3. s \in Members /\ level[s] = k - 1
    BY <1>1, <1>2, <1>3, <2>1, <2>2, DepthNext
  <2>4. s # Nobody
    BY <2>3, MembersFacts
  <2>5. s \in In(user)
    BY <1>1, <2>1, <2>2, <2>4, EldersPresent
  <2>. QED
    BY <1>2, <1>4, <2>1, <2>2, <2>3, <2>5 DEF LevelOf
<1>7. \A d \in LevelOf(o, k) : d \in In(user) /\ level[d] \notin 0 .. k - 1
  BY <1>2, <1>3 DEF LevelOf
<1>8. PICK U : U = UNION {Directs(m) : m \in LevelOf(o, k - 1)}
  OBVIOUS
<1>9. PICK V : V = {m \in In(user) : level[m] \in 0 .. k - 1}
  OBVIOUS
<1>10. \A d : d \in U <=> \E m \in LevelOf(o, k - 1) : d \in Directs(m)
  BY <1>8
<1>11. \A d \in In(user) : d \in V <=> level[d] \in 0 .. k - 1
  BY <1>9
<1>12. \A d \in U : d \in In(user)
  BY <1>4, <1>10
<1>13. U \ V = LevelOf(o, k)
  BY <1>5, <1>6, <1>7, <1>10, <1>11, <1>12
<1>14. V = {m \in In(user) : DepthTree(user, o)[m] \in 0 .. k - 1}
  BY <1>2, <1>9
<1>. HIDE DEF LevelOf
<1>. QED
  BY <1>8, <1>13, <1>14, Zenon

\* A member of o's tree came after o.
LEMMA LevelsAfter ==
    ASSUME NetworkInv, NEW o \in In(user), NEW m \in Members, DepthTree(user, o)[m] >= 0
    PROVE  o <= m
<1>1. Forest(user)
  BY DEF NetworkInv, Tables
<1>2. PICK level \in [Members -> Int] : level = DepthTree(user, o) /\ IsDepth(user, o, level)
  BY <1>1, DepthTreeIs
<1>3. PICK S : S = {x \in Members : level[x] >= 0 /\ ~(o <= x)}
  OBVIOUS
<1>4. o \in Nat /\ Members \subseteq Nat
  BY MembersFacts DEF In
<1>5. ASSUME S # {}
      PROVE  FALSE
  <2>1. PICK x \in S : \A y \in S : ~(y < x)
    BY <1>3, <1>5, Earliest
  <2>2. x \in Members /\ level[x] >= 0 /\ ~(o <= x)
    BY <1>3, <2>1
  <2>3. x # o
    BY <1>4, <2>2
  <2>4. level[x] # 0
    BY <1>1, <1>2, <2>2, <2>3, DepthZero DEF In
  <2>5. level[x] > 0 /\ level[x] \in Int
    BY <1>2, <2>2, <2>4
  <2>6. PICK s : s = user[x].sponsor
    OBVIOUS
  <2>7. s \in Members /\ s < x /\ level[s] = level[x] - 1
    BY <1>1, <1>2, <2>2, <2>5, <2>6, DepthNext
  <2>8. level[s] >= 0
    BY <2>5, <2>7
  <2>9. o <= s
    BY <1>3, <2>1, <2>7, <2>8
  <2>. QED
    BY <1>4, <2>2, <2>7, <2>9
<1>. QED
  BY <1>2, <1>3, <1>5

\* None of them was met before, so it makes no difference whether one asks.
LEMMA LevelStepAll ==
    ASSUME NetworkInv, NEW o \in In(user), NEW k \in Levels
    PROVE  UNION {Directs(m) : m \in LevelOf(o, k - 1)} = LevelOf(o, k)
<1>1. Forest(user) /\ Tables(user, upgrades)
  BY DEF NetworkInv, Tables
<1>2. PICK level \in [Members -> Int] : level = DepthTree(user, o) /\ IsDepth(user, o, level)
  BY <1>1, DepthTreeIs
<1>3. k \in Int /\ k > 0 /\ k - 1 \in Int
  BY LevelsFacts
<1>4. \A m : Directs(m) = {d \in In(user) : user[d].sponsor = m}
  BY PresentIs DEF Directs
<1>5. ASSUME NEW d, NEW m \in LevelOf(o, k - 1), d \in Directs(m)
      PROVE  d \notin {x \in In(user) : DepthTree(user, o)[x] \in 0 .. k - 1}
  <2>1. d \in In(user) /\ user[d].sponsor = m /\ m \in In(user) /\ level[m] = k - 1
    BY <1>2, <1>4, <1>5 DEF LevelOf
  <2>2. d \in Members /\ m \in Members /\ m # Nobody
    BY <2>1, MembersFacts DEF In
  <2>3. m < d
    BY <1>1, <2>1, <2>2 DEF Forest
  <2>4. level[m] >= 0
    BY <1>3, <2>1
  <2>5. o <= m
    BY <1>2, <2>2, <2>4, LevelsAfter
  <2>6. d # o
    BY <2>2, <2>3, <2>5, MembersFacts
  <2>7. level[d] = level[m] + 1
    <3>1. level[d] = IF d = o THEN 0 ELSE IF user[d].sponsor = Nobody THEN -Cardinality(Members)
                     ELSE level[user[d].sponsor] + 1
      BY <1>2, <2>2 DEF IsDepth
    <3>. QED
      BY <2>1, <2>2, <2>6, <3>1
  <2>8. level[d] = k /\ ~(k \in 0 .. k - 1)
    BY <1>3, <2>1, <2>7
  <2>. QED
    BY <1>2, <2>8
<1>6. PICK U : U = UNION {Directs(m) : m \in LevelOf(o, k - 1)}
  OBVIOUS
<1>7. PICK V : V = {x \in In(user) : DepthTree(user, o)[x] \in 0 .. k - 1}
  OBVIOUS
<1>8. U \ V = LevelOf(o, k)
  BY <1>6, <1>7, LevelStep
<1>9. \A d \in U : d \notin V
  BY <1>5, <1>6, <1>7
<1>. QED
  BY <1>6, <1>8, <1>9

\* A level at a time, the scan finds the members of each level.
LEMMA FrontierIs ==
    ASSUME NetworkInv, NEW o \in In(user)
    PROVE  \A k \in Levels : Frontier(o)[k] = LevelOf(o, k)
<1>. DEFINE n == Cardinality(Members)
            Is(f) == f = [k \in 0 .. n |->
                       IF k = 0 THEN [level |-> {o}, visited |-> {o}]
                       ELSE LET before == f[k - 1]
                                level == (UNION {Directs(m) : m \in before.level}) \ before.visited
                            IN  [level |-> level, visited |-> before.visited \cup level]]
<1>1. PICK at : at = CHOOSE f : Is(f)
  OBVIOUS
<1>2. Frontier(o) = [k \in Levels |-> at[k].level]
  BY <1>1 DEF Frontier
<1>3. \A f : Is(f) <=> f = [k \in 0 .. n |-> IF k = 0 THEN [level |-> {o}, visited |-> {o}]
                                             ELSE Advanced(f[k - 1])]
  BY DEF Advanced
<1>. HIDE DEF Is
<1>4. o \in Members /\ \A m : Directs(m) \subseteq Members
  BY PresentIs DEF In, Directs
<1>5. \A b \in Scan : Advanced(b) \in Scan
  <2>1. ASSUME NEW b \in Scan
        PROVE  Advanced(b) \in Scan
    <3>1. PICK S : S = (UNION {Directs(m) : m \in b.level}) \ b.visited
      OBVIOUS
    <3>2. S \subseteq Members
      BY <1>4, <3>1
    <3>3. b.visited \subseteq Members
      BY DEF Scan
    <3>4. Advanced(b) = [level |-> S, visited |-> b.visited \cup S]
      BY <3>1 DEF Advanced
    <3>. QED
      BY <3>2, <3>3, <3>4 DEF Scan
  <2>. QED
    BY <2>1
<1>6. [level |-> {o}, visited |-> {o}] \in Scan
  BY <1>4 DEF Scan
<1>. DEFINE G == [p \in [0 .. n -> Scan] \X (0 .. n) |->
                    IF p[2] = 0 THEN [level |-> {o}, visited |-> {o}] ELSE Advanced(p[1][p[2] - 1])]
<1>7. \A f \in [0 .. n -> Scan], k \in 0 .. n :
          G[<<f, k>>] = IF k = 0 THEN [level |-> {o}, visited |-> {o}] ELSE Advanced(f[k - 1])
  OBVIOUS
<1>8. \A k \in 0 .. n : k # 0 => k - 1 \in 0 .. n /\ k - 1 < k
  BY MembersFacts
<1>9. G \in [[0 .. n -> Scan] \X (0 .. n) -> Scan]
  <2>1. ASSUME NEW p \in [0 .. n -> Scan] \X (0 .. n)
        PROVE  (IF p[2] = 0 THEN [level |-> {o}, visited |-> {o}] ELSE Advanced(p[1][p[2] - 1])) \in Scan
    <3>1. PICK f \in [0 .. n -> Scan] : f = p[1]
      OBVIOUS
    <3>2. PICK k \in 0 .. n : k = p[2]
      OBVIOUS
    <3>3. k # 0 => f[k - 1] \in Scan
      BY <1>8
    <3>. QED
      BY <1>5, <1>6, <3>1, <3>2, <3>3
  <2>. QED
    BY <2>1
<1>10. ASSUME NEW f \in [0 .. n -> Scan], NEW g \in [0 .. n -> Scan], NEW k \in 0 .. n,
              \A x \in 0 .. n : x < k => f[x] = g[x]
       PROVE  G[<<f, k>>] = G[<<g, k>>]
  <2>1. k # 0 => f[k - 1] = g[k - 1]
    BY <1>8, <1>10
  <2>2. G[<<f, k>>] = (IF k = 0 THEN [level |-> {o}, visited |-> {o}] ELSE Advanced(f[k - 1]))
        /\ G[<<g, k>>] = (IF k = 0 THEN [level |-> {o}, visited |-> {o}] ELSE Advanced(g[k - 1]))
    BY <1>7
  <2>. HIDE DEF G
  <2>. QED
    BY <2>1, <2>2
<1>. HIDE DEF G
<1>11. Recursive(G, 0 .. n, Scan)
  BY <1>9, <1>10 DEF Recursive
<1>12. PICK F \in [0 .. n -> Scan] : Solves(F, G, 0 .. n)
  BY <1>6, <1>11, LevelsFacts, Recursion
<1>13. Is(F)
  <2>1. \A k \in 0 .. n : F[k] = IF k = 0 THEN [level |-> {o}, visited |-> {o}] ELSE Advanced(F[k - 1])
    BY <1>7, <1>12 DEF Solves
  <2>. QED
    BY <1>3, <2>1
<1>14. Is(at)
  BY <1>1, <1>13
<1>15. \A k \in 0 .. n : at[k] = IF k = 0 THEN [level |-> {o}, visited |-> {o}] ELSE Advanced(at[k - 1])
  BY <1>3, <1>14
<1>16. Forest(user)
  BY DEF NetworkInv, Tables
<1>17. PICK level \in [Members -> Int] : level = DepthTree(user, o) /\ IsDepth(user, o, level)
  BY <1>16, DepthTreeIs
<1>. DEFINE Good(k) == at[k] = [level |-> LevelOf(o, k),
                                visited |-> {m \in In(user) : level[m] \in 0 .. k}]
<1>18. Good(0)
  <2>1. level[o] = 0
    BY <1>4, <1>17 DEF IsDepth
  <2>2. \A m \in In(user) : level[m] = 0 => m = o
    BY <1>16, <1>17, DepthZero DEF In
  <2>3. LevelOf(o, 0) = {o}
    BY <1>17, <2>1, <2>2 DEF LevelOf
  <2>4. \A m \in In(user) : level[m] \in 0 .. 0 <=> level[m] = 0
    OBVIOUS
  <2>5. {m \in In(user) : level[m] \in 0 .. 0} = {o}
    BY <2>1, <2>2, <2>4
  <2>6. at[0] = [level |-> {o}, visited |-> {o}]
    BY <1>15, LevelsFacts
  <2>. QED
    BY <2>3, <2>5, <2>6
<1>19. ASSUME NEW k \in Levels, Good(k - 1)
       PROVE  Good(k)
  <2>1. k \in 0 .. n /\ k # 0 /\ k \in Nat
    BY LevelsFacts
  <2>2. at[k] = Advanced(at[k - 1])
    BY <1>15, <2>1
  <2>3. PICK V : V = {m \in In(user) : level[m] \in 0 .. k - 1}
    OBVIOUS
  <2>4. PICK B : B = LevelOf(o, k - 1)
    OBVIOUS
  <2>5. (UNION {Directs(m) : m \in B}) \ V = LevelOf(o, k)
    BY <1>17, <2>3, <2>4, LevelStep
  <2>6. at[k - 1] = [level |-> B, visited |-> V]
    BY <1>19, <2>3, <2>4
  <2>10. PICK b : b = at[k - 1]
    OBVIOUS
  <2>11. b.level = B /\ b.visited = V
    BY <2>6, <2>10
  <2>12. Advanced(b) = [level |-> (UNION {Directs(m) : m \in b.level}) \ b.visited,
                        visited |-> b.visited \cup ((UNION {Directs(m) : m \in b.level}) \ b.visited)]
    BY DEF Advanced
  <2>7. at[k] = [level |-> LevelOf(o, k), visited |-> V \cup LevelOf(o, k)]
    BY <2>2, <2>5, <2>10, <2>11, <2>12
  <2>8. \A m \in In(user) : level[m] \in 0 .. k <=> (level[m] \in 0 .. k - 1 \/ level[m] = k)
    BY <2>1 DEF In
  <2>9. V \cup LevelOf(o, k) = {m \in In(user) : level[m] \in 0 .. k}
    BY <1>17, <2>3, <2>8 DEF LevelOf
  <2>. QED
    BY <2>7, <2>9
<1>. HIDE DEF Good
<1>20. \A k \in 0 .. n : Good(k)
  <2>1. PICK T : T = {k \in 0 .. n : ~Good(k)}
    OBVIOUS
  <2>2. ASSUME T # {}
        PROVE  FALSE
    <3>1. IsFiniteSet(T) /\ T \subseteq Nat
      BY <2>1, LevelsFacts, FS_Subset
    <3>2. PICK k \in T : \A x \in T : k <= x
      BY <2>2, <3>1, Smallest
    <3>3. k \in 0 .. n /\ ~Good(k) /\ k # 0
      BY <1>18, <2>1, <3>2
    <3>4. k \in Levels /\ k \in Nat
      BY <3>3, MembersFacts DEF Levels
    <3>5. k - 1 \in 0 .. n /\ ~(k <= k - 1)
      BY <3>4, LevelsFacts
    <3>6. Good(k - 1)
      BY <2>1, <3>2, <3>5
    <3>. QED
      BY <1>19, <3>3, <3>4, <3>6
  <2>. QED
    BY <2>1, <2>2
<1>21. \A k \in Levels : at[k].level = LevelOf(o, k)
  <2>1. ASSUME NEW k \in Levels
        PROVE  at[k].level = LevelOf(o, k)
    <3>1. Good(k)
      BY <1>20, LevelsFacts
    <3>2. PICK V : V = {m \in In(user) : level[m] \in 0 .. k}
      OBVIOUS
    <3>3. at[k] = [level |-> LevelOf(o, k), visited |-> V]
      BY <3>1, <3>2 DEF Good
    <3>. QED
      BY <3>3
  <2>. QED
    BY <2>1
<1>. QED
  BY <1>2, <1>21

\* The recursion that does not ask whom it has met finds the members of each
\* level too: no sponsor came after whom it recruited, so none is met again.
LEMMA ScannedIs ==
    ASSUME NetworkInv, NEW o \in In(user)
    PROVE  \A k \in Levels : Scanned(o)[k] = LevelOf(o, k)
<1>. DEFINE n == Cardinality(Members)
            Next1(S) == UNION {Directs(m) : m \in S}
            Is(f) == f = [k \in 0 .. n |-> IF k = 0 THEN {o} ELSE UNION {Directs(m) : m \in f[k - 1]}]
<1>1. PICK at : at = CHOOSE f : Is(f)
  OBVIOUS
<1>2. Scanned(o) = [k \in Levels |-> at[k]]
  BY <1>1 DEF Scanned
<1>3. \A f : Is(f) <=> f = [k \in 0 .. n |-> IF k = 0 THEN {o} ELSE Next1(f[k - 1])]
  OBVIOUS
<1>. HIDE DEF Is
<1>4. o \in Members /\ \A m : Directs(m) \subseteq Members
  BY PresentIs DEF In, Directs
<1>5. \A S : Next1(S) \in SUBSET Members
  BY <1>4
<1>6. {o} \in SUBSET Members
  BY <1>4
<1>. HIDE DEF Next1
<1>. DEFINE G == [p \in [0 .. n -> SUBSET Members] \X (0 .. n) |->
                    IF p[2] = 0 THEN {o} ELSE Next1(p[1][p[2] - 1])]
<1>7. \A f \in [0 .. n -> SUBSET Members], k \in 0 .. n :
          G[<<f, k>>] = IF k = 0 THEN {o} ELSE Next1(f[k - 1])
  OBVIOUS
<1>8. \A k \in 0 .. n : k # 0 => k - 1 \in 0 .. n /\ k - 1 < k
  BY MembersFacts
<1>9. G \in [[0 .. n -> SUBSET Members] \X (0 .. n) -> SUBSET Members]
  BY <1>5, <1>6
<1>10. ASSUME NEW f \in [0 .. n -> SUBSET Members], NEW g \in [0 .. n -> SUBSET Members], NEW k \in 0 .. n,
              \A x \in 0 .. n : x < k => f[x] = g[x]
       PROVE  G[<<f, k>>] = G[<<g, k>>]
  <2>1. k # 0 => f[k - 1] = g[k - 1]
    BY <1>8, <1>10
  <2>2. G[<<f, k>>] = (IF k = 0 THEN {o} ELSE Next1(f[k - 1]))
        /\ G[<<g, k>>] = (IF k = 0 THEN {o} ELSE Next1(g[k - 1]))
    BY <1>7
  <2>. HIDE DEF G
  <2>. QED
    BY <2>1, <2>2
<1>. HIDE DEF G
<1>11. Recursive(G, 0 .. n, SUBSET Members)
  BY <1>9, <1>10 DEF Recursive
<1>12. PICK F \in [0 .. n -> SUBSET Members] : Solves(F, G, 0 .. n)
  BY <1>6, <1>11, LevelsFacts, Recursion
<1>13. Is(F)
  <2>1. \A k \in 0 .. n : F[k] = IF k = 0 THEN {o} ELSE Next1(F[k - 1])
    BY <1>7, <1>12 DEF Solves
  <2>. QED
    BY <1>3, <2>1
<1>14. Is(at)
  BY <1>1, <1>13
<1>15. \A k \in 0 .. n : at[k] = IF k = 0 THEN {o} ELSE Next1(at[k - 1])
  BY <1>3, <1>14
<1>16. Forest(user)
  BY DEF NetworkInv, Tables
<1>18. at[0] = LevelOf(o, 0)
  <2>1. PICK level \in [Members -> Int] : level = DepthTree(user, o) /\ IsDepth(user, o, level)
    BY <1>16, DepthTreeIs
  <2>2. level[o] = 0
    BY <1>4, <2>1 DEF IsDepth
  <2>3. \A m \in In(user) : level[m] = 0 => m = o
    BY <1>16, <2>1, DepthZero DEF In
  <2>4. LevelOf(o, 0) = {o}
    BY <2>1, <2>2, <2>3 DEF LevelOf
  <2>. QED
    BY <1>15, <2>4, LevelsFacts
<1>19. ASSUME NEW k \in Levels, at[k - 1] = LevelOf(o, k - 1)
       PROVE  at[k] = LevelOf(o, k)
  <2>1. k \in 0 .. n /\ k # 0
    BY LevelsFacts
  <2>2. at[k] = Next1(LevelOf(o, k - 1))
    BY <1>15, <1>19, <2>1
  <2>. QED
    BY <2>2, LevelStepAll DEF Next1
<1>20. \A k \in 0 .. n : at[k] = LevelOf(o, k)
  <2>1. PICK T : T = {k \in 0 .. n : at[k] # LevelOf(o, k)}
    OBVIOUS
  <2>2. ASSUME T # {}
        PROVE  FALSE
    <3>1. IsFiniteSet(T) /\ T \subseteq Nat
      BY <2>1, LevelsFacts, FS_Subset
    <3>2. PICK k \in T : \A x \in T : k <= x
      BY <2>2, <3>1, Smallest
    <3>3. k \in 0 .. n /\ at[k] # LevelOf(o, k) /\ k # 0
      BY <1>18, <2>1, <3>2
    <3>4. k \in Levels /\ k \in Nat
      BY <3>3, MembersFacts DEF Levels
    <3>5. k - 1 \in 0 .. n /\ ~(k <= k - 1)
      BY <3>4, LevelsFacts
    <3>6. at[k - 1] = LevelOf(o, k - 1)
      BY <2>1, <3>2, <3>5
    <3>. QED
      BY <1>19, <3>3, <3>4, <3>6
  <2>. QED
    BY <2>1, <2>2
<1>. QED
  BY <1>2, <1>20, LevelsFacts

\* The points bought at each level below o, and the rate that each level pays.
LevelPoints(o) == [k \in Levels |-> SumFunctionOnSet([m \in LevelOf(o, k) |-> bought[m]], LevelOf(o, k))]
PaidLevels(o) == {k \in Levels : LevelPoints(o)[k] > 0}
LevelRate(o, k) == Rate(PaidLevels(o), Reach[user[o].current], k)

\* They are natural numbers, whatever the level.
LEMMA LevelPointsNat ==
    ASSUME NetworkInv, NEW o
    PROVE  /\ LevelPoints(o) \in [Levels -> Nat]
           /\ \A k : LevelOf(o, k) \subseteq Members /\ IsFiniteSet(LevelOf(o, k))
<1>1. \A k : LevelOf(o, k) \subseteq Members
  BY DEF LevelOf, In
<1>2. \A k : IsFiniteSet(LevelOf(o, k))
  BY <1>1, MembersFacts, FS_Subset
<1>3. ASSUME NEW k \in Levels
      PROVE  SumFunctionOnSet([m \in LevelOf(o, k) |-> bought[m]], LevelOf(o, k)) \in Nat
  <2>1. PICK f : f = [m \in LevelOf(o, k) |-> bought[m]]
    OBVIOUS
  <2>2. \A m \in LevelOf(o, k) : f[m] \in Nat
    BY <1>1, <2>1 DEF NetworkInv
  <2>. QED
    BY <1>2, <2>1, <2>2, SumNat
<1>. QED
  BY <1>1, <1>2, <1>3 DEF LevelPoints

\* A rate is one of five numbers, and nothing for a level that does not qualify.
LEMMA RateIs ==
    ASSUME NEW Q \in SUBSET Levels, NEW reach \in Nat, NEW k \in Levels
    PROVE  Rate(Q, reach, k) \in {0, 1, 2, 3, 5} /\ (k \notin Q => Rate(Q, reach, k) = 0)
<1>1. PICK E : E = {j \in Q : j <= k}
  OBVIOUS
<1>2. PICK n : n = Cardinality(E)
  OBVIOUS
<1>3. E \subseteq Levels /\ IsFiniteSet(E)
  BY <1>1, LevelsFacts, FS_Subset
<1>4. n \in Nat /\ (n = 0 => E = {})
  BY <1>2, <1>3, FS_CardinalityType, FS_EmptySet
<1>5. Rate(Q, reach, k) = IF k \in Q /\ n <= Least(10, reach) THEN UnilevelRates[n] ELSE 0
  BY <1>1, <1>2 DEF Rate
<1>6. ASSUME k \in Q, n <= Least(10, reach)
      PROVE  UnilevelRates[n] \in {0, 1, 2, 3, 5}
  <2>1. k \in E
    BY <1>1, <1>6, LevelsFacts
  <2>2. n \in 1 .. 10
    BY <1>4, <1>6, <2>1 DEF Least
  <2>. QED
    BY <2>2 DEF UnilevelRates
<1>. QED
  BY <1>5, <1>6

\* A level qualifies when one of its members bought anything.
LEMMA LevelPays ==
    ASSUME NetworkInv, NEW o, NEW k \in Levels
    PROVE  k \in PaidLevels(o) <=> \E m \in LevelOf(o, k) : bought[m] > 0
<1>1. PICK L : L = LevelOf(o, k)
  OBVIOUS
<1>2. PICK f : f = [m \in L |-> bought[m]]
  OBVIOUS
<1>3. IsFiniteSet(L) /\ L \subseteq Members /\ \A m \in L : f[m] = bought[m] /\ f[m] \in Nat
  <2>1. IsFiniteSet(L) /\ L \subseteq Members
    BY <1>1, LevelPointsNat
  <2>. QED
    BY <1>2, <2>1 DEF NetworkInv
<1>4. PICK t : t = SumFunctionOnSet(f, L)
  OBVIOUS
<1>5. LevelPoints(o)[k] = t
  BY <1>1, <1>2, <1>4 DEF LevelPoints
<1>6. t \in Nat /\ \A m \in L : f[m] <= t
  BY <1>3, <1>4, SumNat
<1>7. (\A m \in L : f[m] = 0) => t = 0
  BY <1>3, <1>4, SumZero
<1>8. k \in PaidLevels(o) <=> t > 0
  BY <1>5 DEF PaidLevels
<1>. QED
  BY <1>1, <1>3, <1>6, <1>7, <1>8

\* The projection and the settlement add the levels up alike.
LEMMA ScansAgree ==
    ASSUME NetworkInv, NEW o \in In(user)
    PROVE  /\ Projected(o) = Commission(LevelPoints(o), Reach[user[o].current])
           /\ Settled(o) = Commission(LevelPoints(o), Reach[user[o].current])
           /\ \A c : c \in Contributors(o) <=> \E k \in Levels : \E m \in LevelOf(o, k) :
                /\ LevelRate(o, k) > 0 /\ bought[m] > 0
                /\ c = [uid |-> m, level |-> k, amount |-> LevelRate(o, k) * bought[m]]
<1>1. PICK at : at = Frontier(o)
  OBVIOUS
<1>2. \A k \in Levels : at[k] = LevelOf(o, k)
  BY <1>1, FrontierIs
<1>3. [k \in Levels |-> Sum(at[k], LAMBDA m : bought[m])] = LevelPoints(o)
  <2>1. \A k \in Levels : Sum(at[k], LAMBDA m : bought[m])
                          = SumFunctionOnSet([m \in at[k] |-> bought[m]], at[k])
    BY DEF Sum
  <2>. QED
    BY <1>2, <2>1 DEF LevelPoints
<1>4. Projected(o) = Commission(LevelPoints(o), Reach[user[o].current])
  BY <1>1, <1>3 DEF Projected
<1>5. Settled(o) = Commission(LevelPoints(o), Reach[user[o].current])
  <2>1. Depth(o) = DepthTree(user, o)
    BY DEF Depth, DepthTree, IsDepth
  <2>2. PICK level : level = Depth(o)
    OBVIOUS
  <2>3. \A k \in Levels : {m \in Present : level[m] = k} = LevelOf(o, k)
    BY <2>1, <2>2, PresentIs DEF LevelOf
  <2>4. \A k \in Levels : Sum({m \in Present : level[m] = k}, LAMBDA m : bought[m])
                          = SumFunctionOnSet([m \in LevelOf(o, k) |-> bought[m]], LevelOf(o, k))
    BY <2>3 DEF Sum
  <2>5. [k \in Levels |-> Sum({m \in Present : level[m] = k}, LAMBDA m : bought[m])] = LevelPoints(o)
    BY <2>4 DEF LevelPoints
  <2>. QED
    BY <2>2, <2>5 DEF Settled
<1>6. PICK met : met = Scanned(o)
  OBVIOUS
<1>7. \A k \in Levels : met[k] = LevelOf(o, k)
  BY <1>6, ScannedIs
<1>8. PICK rows : rows = PointRows(met)
  OBVIOUS
<1>9. \A r : r \in rows <=> \E k \in Levels : \E m \in LevelOf(o, k) :
                bought[m] > 0 /\ r = [uid |-> m, level |-> k, points |-> bought[m]]
  <2>1. \A r : r \in rows <=> \E k \in Levels : \E m \in met[k] :
                bought[m] > 0 /\ r = [uid |-> m, level |-> k, points |-> bought[m]]
    BY <1>8 DEF PointRows
  <2>. QED
    BY <1>7, <2>1
<1>10. PICK Q : Q = {r.level : r \in rows}
  OBVIOUS
<1>11. Q = PaidLevels(o)
  <2>1. \A k \in Levels : k \in Q <=> \E m \in LevelOf(o, k) : bought[m] > 0
    <3>1. ASSUME NEW k \in Levels, NEW m \in LevelOf(o, k), bought[m] > 0
          PROVE  k \in Q
      <4>1. PICK r : r = [uid |-> m, level |-> k, points |-> bought[m]]
        OBVIOUS
      <4>2. r \in rows /\ r.level = k
        BY <1>9, <3>1, <4>1
      <4>. QED
        BY <1>10, <4>2
    <3>2. ASSUME NEW k \in Q
          PROVE  k \in Levels /\ \E m \in LevelOf(o, k) : bought[m] > 0
      <4>1. PICK r \in rows : r.level = k
        BY <1>10
      <4>2. PICK j \in Levels : \E m \in LevelOf(o, j) :
                bought[m] > 0 /\ r = [uid |-> m, level |-> j, points |-> bought[m]]
        BY <1>9
      <4>3. j = k
        BY <4>1, <4>2
      <4>. QED
        BY <4>2, <4>3
    <3>. QED
      BY <3>1, <3>2
  <2>2. Q \subseteq Levels
    <3>1. ASSUME NEW r \in rows
          PROVE  r.level \in Levels
      BY <1>9
    <3>. QED
      BY <1>10, <3>1
  <2>3. PaidLevels(o) \subseteq Levels
    BY DEF PaidLevels
  <2>. QED
    BY <2>1, <2>2, <2>3, LevelPays
<1>12. Contributors(o) =
         {[uid |-> r.uid, level |-> r.level, amount |-> LevelRate(o, r.level) * r.points] :
             r \in {q \in rows : LevelRate(o, q.level) > 0}}
  BY <1>6, <1>8, <1>10, <1>11 DEF Contributors, LevelRate
<1>13. ASSUME NEW c
       PROVE  c \in Contributors(o) <=> \E k \in Levels : \E m \in LevelOf(o, k) :
                /\ LevelRate(o, k) > 0 /\ bought[m] > 0
                /\ c = [uid |-> m, level |-> k, amount |-> LevelRate(o, k) * bought[m]]
  <2>1. ASSUME c \in Contributors(o)
        PROVE  \E k \in Levels : \E m \in LevelOf(o, k) :
                /\ LevelRate(o, k) > 0 /\ bought[m] > 0
                /\ c = [uid |-> m, level |-> k, amount |-> LevelRate(o, k) * bought[m]]
    <3>1. PICK r \in rows : /\ LevelRate(o, r.level) > 0
                            /\ c = [uid |-> r.uid, level |-> r.level, amount |-> LevelRate(o, r.level) * r.points]
      BY <1>12, <2>1
    <3>2. PICK k \in Levels : \E m \in LevelOf(o, k) :
                bought[m] > 0 /\ r = [uid |-> m, level |-> k, points |-> bought[m]]
      BY <1>9
    <3>3. PICK m \in LevelOf(o, k) : bought[m] > 0 /\ r = [uid |-> m, level |-> k, points |-> bought[m]]
      BY <3>2
    <3>4. r.uid = m /\ r.level = k /\ r.points = bought[m]
      BY <3>3
    <3>5. LevelRate(o, k) > 0 /\ c = [uid |-> m, level |-> k, amount |-> LevelRate(o, k) * bought[m]]
      BY <3>1, <3>4
    <3>. QED
      BY <3>3, <3>5
  <2>2. ASSUME NEW k \in Levels, NEW m \in LevelOf(o, k), LevelRate(o, k) > 0, bought[m] > 0,
               c = [uid |-> m, level |-> k, amount |-> LevelRate(o, k) * bought[m]]
        PROVE  c \in Contributors(o)
    <3>1. PICK r : r = [uid |-> m, level |-> k, points |-> bought[m]]
      OBVIOUS
    <3>2. r \in rows /\ r.uid = m /\ r.level = k /\ r.points = bought[m]
      BY <1>9, <2>2, <3>1
    <3>3. /\ LevelRate(o, r.level) > 0
          /\ c = [uid |-> r.uid, level |-> r.level, amount |-> LevelRate(o, r.level) * r.points]
      BY <2>2, <3>2
    <3>. QED
      BY <1>12, <3>2, <3>3
  <2>. QED
    BY <2>1, <2>2
<1>. QED
  BY <1>4, <1>5, <1>13

\* The rows that the member is shown add up to the commission.
LEMMA RowsAddUp ==
    ASSUME NetworkInv, NEW o \in In(user)
    PROVE  Sum(Contributors(o), LAMBDA r : r.amount) = Commission(LevelPoints(o), Reach[user[o].current])
<1>1. PICK points \in [Levels -> Nat] : points = LevelPoints(o)
  BY LevelPointsNat
<1>2. PICK rate : rate = [k \in Levels |-> LevelRate(o, k)]
  OBVIOUS
<1>29. PICK Q : Q = PaidLevels(o)
  OBVIOUS
<1>30. Q = {k \in Levels : points[k] > 0}
  BY <1>1, <1>29 DEF PaidLevels
<1>31. \A k \in Levels : rate[k] = Rate(Q, Reach[user[o].current], k)
  BY <1>2, <1>29 DEF LevelRate
<1>3. \A k \in Levels : rate[k] \in {0, 1, 2, 3, 5} /\ (k \notin Q => rate[k] = 0)
  <2>1. Reach[user[o].current] \in Nat
    <3>1. user[o].current \in Types
      BY DEF NetworkInv, Tables
    <3>2. Reach \in [Types -> Nat]
      BY EnginesAssumption
    <3>. QED
      BY <3>1, <3>2
  <2>2. Q \in SUBSET Levels
    BY <1>30
  <2>. QED
    BY <1>31, <2>1, <2>2, RateIs
<1>4. PICK level \in [Members -> Int] : level = DepthTree(user, o)
  <2>1. Forest(user)
    BY DEF NetworkInv, Tables
  <2>. QED
    BY <2>1, DepthTreeIs
<1>5. \A k : LevelOf(o, k) = {m \in In(user) : level[m] = k}
  BY <1>4 DEF LevelOf
<1>6. bought \in [Members -> Nat] /\ In(user) \subseteq Members
  BY DEF NetworkInv, In
<1>7. PICK S : S = {m \in In(user) : level[m] \in Levels}
  OBVIOUS
<1>8. PICK R : R = {m \in S : bought[m] > 0 /\ rate[level[m]] > 0}
  OBVIOUS
<1>9. S \subseteq Members /\ R \subseteq S /\ S \ R \subseteq Members
  BY <1>6, <1>7, <1>8
<1>10. IsFiniteSet(S) /\ IsFiniteSet(R) /\ IsFiniteSet(S \ R)
  BY <1>9, MembersFacts, FS_Subset
<1>11. PICK h : h = [m \in S |-> rate[level[m]] * bought[m]]
  OBVIOUS
<1>12. \A m \in S : h[m] \in Nat /\ (m \notin R => h[m] = 0)
  <2>1. ASSUME NEW m \in S
        PROVE  h[m] \in Nat /\ (m \notin R => h[m] = 0)
    <3>1. PICK a : a = rate[level[m]]
      OBVIOUS
    <3>2. PICK b \in Nat : b = bought[m]
      BY <1>6, <1>9
    <3>3. a \in {0, 1, 2, 3, 5}
      BY <1>3, <1>7, <3>1
    <3>4. h[m] = a * b
      BY <1>11, <3>1, <3>2
    <3>5. a * b \in Nat /\ (a = 0 \/ b = 0 => a * b = 0)
      BY <3>3
    <3>6. m \notin R => a = 0 \/ b = 0
      BY <1>8, <3>1, <3>2, <3>3
    <3>. QED
      BY <3>4, <3>5, <3>6
  <2>. QED
    BY <2>1
<1>13. SumFunctionOnSet(h, S) = SumFunctionOnSet(h, R)
  <2>6. PICK W : W = S \ R
    OBVIOUS
  <2>1. SumFunctionOnSet(h, W) = 0
    <3>1. \A m \in W : h[m] = 0
      BY <1>12, <2>6
    <3>. QED
      BY <1>10, <2>6, <3>1, SumZero
  <2>2. R \cap W = {} /\ R \cup W = S
    BY <1>9, <2>6
  <2>3. \A m \in R \cup W : h[m] \in Int
    BY <1>12, <2>2
  <2>4. SumFunctionOnSet(h, R \cup W) = SumFunctionOnSet(h, R) + SumFunctionOnSet(h, W)
    BY <1>10, <2>2, <2>3, <2>6, SumUnion
  <2>5. SumFunctionOnSet(h, R) \in Int
    BY <1>9, <1>10, <1>12, SumInt
  <2>7. SumFunctionOnSet(h, R \cup W) = SumFunctionOnSet(h, S)
    BY <2>2, Zenon
  <2>. QED
    BY <2>1, <2>4, <2>5, <2>7
<1>14. PICK C : C = Contributors(o)
  OBVIOUS
<1>15. PICK row : row = [m \in R |-> [uid |-> m, level |-> level[m], amount |-> rate[level[m]] * bought[m]]]
  OBVIOUS
<1>16. C = {row[m] : m \in R}
  <2>1. ASSUME NEW c
        PROVE  c \in C <=> \E k \in Levels : \E m \in LevelOf(o, k) :
                 rate[k] > 0 /\ bought[m] > 0 /\ c = [uid |-> m, level |-> k, amount |-> rate[k] * bought[m]]
    <3>2. c \in C <=> \E k \in Levels : \E m \in LevelOf(o, k) :
             /\ LevelRate(o, k) > 0 /\ bought[m] > 0
             /\ c = [uid |-> m, level |-> k, amount |-> LevelRate(o, k) * bought[m]]
      BY <1>14, ScansAgree
    <3>3. \A k \in Levels : rate[k] = LevelRate(o, k)
      BY <1>2
    <3>. QED
      BY <3>2, <3>3
  <2>2. ASSUME NEW c \in C
        PROVE  \E m \in R : c = row[m]
    <3>1. PICK k \in Levels : \E m \in LevelOf(o, k) :
             rate[k] > 0 /\ bought[m] > 0 /\ c = [uid |-> m, level |-> k, amount |-> rate[k] * bought[m]]
      BY <2>1, <2>2
    <3>2. PICK m \in LevelOf(o, k) :
             rate[k] > 0 /\ bought[m] > 0 /\ c = [uid |-> m, level |-> k, amount |-> rate[k] * bought[m]]
      BY <3>1
    <3>3. level[m] = k /\ m \in S
      BY <1>5, <1>7
    <3>4. m \in R
      BY <1>8, <3>2, <3>3
    <3>. QED
      BY <1>15, <3>2, <3>3, <3>4
  <2>3. ASSUME NEW m \in R
        PROVE  row[m] \in C
    <3>1. m \in S /\ bought[m] > 0 /\ rate[level[m]] > 0
      BY <1>8
    <3>2. level[m] \in Levels /\ m \in LevelOf(o, level[m])
      BY <1>5, <1>7, <3>1
    <3>3. row[m] = [uid |-> m, level |-> level[m], amount |-> rate[level[m]] * bought[m]]
      BY <1>15
    <3>. QED
      BY <2>1, <3>1, <3>2, <3>3
  <2>. QED
    BY <2>2, <2>3
<1>17. row \in Bijection(R, C)
  <2>1. row \in [R -> C]
    BY <1>15, <1>16
  <2>2. \A x, y \in R : row[x] = row[y] => x = y
    <3>1. \A x \in R : row[x].uid = x
      BY <1>15
    <3>. QED
      BY <3>1
  <2>3. \A c \in C : \E m \in R : row[m] = c
    BY <1>16
  <2>. QED
    BY <2>1, <2>2, <2>3 DEF Bijection, Injection, Surjection, IsInjective
<1>18. PICK f : f = [c \in C |-> c.amount]
  OBVIOUS
<1>19. \A m \in R : h[m] = f[row[m]] /\ h[m] \in Int
  <2>1. \A m \in R : row[m] \in C /\ row[m].amount = rate[level[m]] * bought[m]
    BY <1>15, <1>16
  <2>2. \A m \in R : m \in S
    BY <1>9
  <2>. QED
    BY <1>11, <1>12, <1>18, <2>1, <2>2
<1>20. IsFiniteSet(C)
  <2>1. row \in Surjection(R, C)
    BY <1>17 DEF Bijection
  <2>. QED
    BY <1>10, <2>1, FS_Surjection
<1>21. SumFunctionOnSet(h, R) = SumFunctionOnSet(f, C)
  BY <1>17, <1>19, <1>20, SumRenamed
<1>22. Sum(C, LAMBDA r : r.amount) = SumFunctionOnSet(f, C)
  BY <1>18 DEF Sum
<1>23. PICK g : g = [k \in Levels |-> rate[k] * points[k]]
  OBVIOUS
<1>24. Commission(points, Reach[user[o].current]) = SumFunctionOnSet(g, Levels)
  <2>1. DOMAIN points = Levels
    OBVIOUS
  <2>2. PICK q : q = [k \in Q |-> Rate(Q, Reach[user[o].current], k) * points[k]]
    OBVIOUS
  <2>3. Commission(points, Reach[user[o].current]) = SumFunctionOnSet(q, Q)
    BY <1>30, <2>1, <2>2 DEF Commission, Sum
  <2>4. Q \subseteq Levels /\ IsFiniteSet(Q) /\ IsFiniteSet(Levels \ Q)
    BY <1>30, LevelsFacts, FS_Subset
  <2>5. \A k \in Levels : g[k] \in Int /\ (k \notin Q => g[k] = 0)
    <3>1. ASSUME NEW k \in Levels
          PROVE  g[k] \in Int /\ (k \notin Q => g[k] = 0)
      <4>1. PICK b \in Nat : b = points[k]
        OBVIOUS
      <4>2. PICK a \in {0, 1, 2, 3, 5} : a = rate[k]
        BY <1>3
      <4>3. g[k] = a * b /\ (k \notin Q => a = 0)
        BY <1>3, <1>23, <4>1, <4>2
      <4>4. a * b \in Int /\ (a = 0 => a * b = 0)
        BY <4>2
      <4>. QED
        BY <4>3, <4>4
    <3>. QED
      BY <3>1
  <2>6. \A k \in Q : q[k] = g[k]
    BY <1>31, <1>23, <2>2, <2>4
  <2>7. SumFunctionOnSet(q, Q) = SumFunctionOnSet(g, Q)
    BY <2>4, <2>6, SumSame
  <2>8. PICK N : N = Levels \ Q
    OBVIOUS
  <2>9. SumFunctionOnSet(g, N) = 0
    BY <2>4, <2>5, <2>8, SumZero
  <2>10. Q \cap N = {} /\ Q \cup N = Levels
    BY <2>4, <2>8
  <2>11. SumFunctionOnSet(g, Q \cup N) = SumFunctionOnSet(g, Q) + SumFunctionOnSet(g, N)
    BY <2>4, <2>5, <2>8, <2>10, SumUnion
  <2>12. SumFunctionOnSet(g, Q) \in Int
    BY <2>4, <2>5, SumInt
  <2>13. SumFunctionOnSet(g, Q \cup N) = SumFunctionOnSet(g, Levels)
    BY <2>10, Zenon
  <2>. QED
    BY <2>3, <2>7, <2>9, <2>11, <2>12, <2>13
<1>25. PICK where : where = [m \in S |-> level[m]]
  OBVIOUS
<1>26. \A k \in Levels : Classes(h, S, where, Levels)[k] = g[k]
  <2>1. ASSUME NEW k \in Levels
        PROVE  Classes(h, S, where, Levels)[k] = g[k]
    <3>1. Class(S, where, k) = LevelOf(o, k)
      BY <1>5, <1>7, <1>25 DEF Class
    <3>2. PICK b : b = [m \in LevelOf(o, k) |-> bought[m]]
      OBVIOUS
    <3>3. \A m \in LevelOf(o, k) : m \in S /\ level[m] = k /\ m \in Members
      BY <1>5, <1>6, <1>7
    <3>4. \A m \in LevelOf(o, k) : b[m] \in Int /\ h[m] = rate[k] * b[m]
      BY <1>6, <1>11, <3>2, <3>3
    <3>5. rate[k] \in Int
      BY <1>3
    <3>6. IsFiniteSet(LevelOf(o, k))
      BY LevelPointsNat
    <3>7. SumFunctionOnSet(h, LevelOf(o, k)) = rate[k] * SumFunctionOnSet(b, LevelOf(o, k))
      BY <3>4, <3>5, <3>6, SumScale
    <3>8. points[k] = SumFunctionOnSet(b, LevelOf(o, k))
      BY <1>1, <3>2 DEF LevelPoints
    <3>. QED
      BY <1>23, <3>1, <3>7, <3>8 DEF Classes
  <2>. QED
    BY <2>1
<1>27. SumFunctionOnSet(Classes(h, S, where, Levels), Levels) = SumFunctionOnSet(g, Levels)
  <2>1. PICK c : c = Classes(h, S, where, Levels)
    OBVIOUS
  <2>2. \A k \in Levels : c[k] = g[k]
    BY <1>26, <2>1
  <2>3. IsFiniteSet(Levels)
    BY LevelsFacts
  <2>4. SumFunctionOnSet(c, Levels) = SumFunctionOnSet(g, Levels)
    BY <2>2, <2>3, SumSame
  <2>. QED
    BY <2>1, <2>4
<1>28. SumFunctionOnSet(Classes(h, S, where, Levels), Levels) = SumFunctionOnSet(h, S)
  <2>1. \A m \in S : h[m] \in Int /\ where[m] \in Levels
    BY <1>7, <1>12, <1>25
  <2>2. IsFiniteSet(Levels)
    BY LevelsFacts
  <2>. QED
    BY <1>10, <2>1, <2>2, SumClasses
<1>. QED
  BY <1>1, <1>13, <1>14, <1>21, <1>22, <1>24, <1>27, <1>28

\* Wherever the network may be, the three scans agree.
\* (calculateUnilevel, calculateUnilevelPointsByLevelBatched,
\* getUnilevelProductPointContributors)
THEOREM ScansOfUnilevelAgree == Spec => []UnilevelAgrees
<1>1. Init => NetworkInv /\ PaidInv
  BY PaidInit
<1>2. NetworkInv /\ PaidInv /\ [Next]_vars => NetworkInv' /\ PaidInv'
  BY PaidStep
<1>3. NetworkInv => UnilevelAgrees
  BY PresentIs, ScansAgree, RowsAddUp DEF UnilevelAgrees
<1>. QED
  BY <1>1, <1>2, <1>3, PTL DEF Spec
-----------------------------------------------------------------------------
\* The events of a leg, laid end to end.

IsChain(es, S) ==
    IsFiniteSet(S) /\ S \subseteq Nat /\ \A i \in S : es[i].points \in Nat /\ es[i].day \in Nat
Sooner(es, j, i) == es[j].day < es[i].day \/ (es[j].day = es[i].day /\ j < i)
Ahead(es, S, i) == {j \in S : Sooner(es, j, i)}
Length(es, S) == SumFunctionOnSet([i \in S |-> es[i].points], S)
Steps(es, S, phi) ==
    [i \in S |-> phi[Start(es, S, i) + es[i].points] - phi[Start(es, S, i)]]

\* An event starts where those ahead of it end.
LEMMA StartIs ==
    ASSUME NEW es, NEW S, NEW i
    PROVE  Start(es, S, i) = Length(es, Ahead(es, S, i))
BY DEF Start, Length, Ahead, Sooner, Sum

\* The events of a part of a leg, and how long they are.
LEMMA LengthNat ==
    ASSUME NEW es, NEW S, IsChain(es, S)
    PROVE  /\ Length(es, S) \in Nat
           /\ \A W \in SUBSET S : IsChain(es, W) /\ Length(es, W) \in Nat
           /\ \A i : Start(es, S, i) \in Nat
<1>1. ASSUME NEW W \in SUBSET S
      PROVE  IsChain(es, W) /\ Length(es, W) \in Nat
  <2>1. IsFiniteSet(W)
    BY FS_Subset DEF IsChain
  <2>2. IsChain(es, W)
    BY <2>1 DEF IsChain
  <2>3. PICK f : f = [i \in W |-> es[i].points]
    OBVIOUS
  <2>4. \A i \in W : f[i] \in Nat
    BY <2>2, <2>3 DEF IsChain
  <2>5. SumFunctionOnSet(f, W) \in Nat
    BY <2>1, <2>4, SumNat
  <2>. QED
    BY <2>2, <2>3, <2>5 DEF Length
<1>2. \A i : Ahead(es, S, i) \in SUBSET S
  BY DEF Ahead
<1>3. \A i : Start(es, S, i) \in Nat
  BY <1>1, <1>2, StartIs
<1>. QED
  BY <1>1, <1>3

\* A leg that has events has a last one.
LEMMA LatestEvent ==
    ASSUME NEW es, NEW S, IsChain(es, S), S # {}
    PROVE  \E x \in S : \A y \in S : y # x => Sooner(es, y, x)
<1>1. IsFiniteSet(S) /\ S \subseteq Nat /\ \A i \in S : es[i].day \in Nat
  BY DEF IsChain
<1>2. PICK f : f = [i \in S |-> es[i].day]
  OBVIOUS
<1>3. PICK D : D = {f[i] : i \in S}
  OBVIOUS
<1>4. IsFiniteSet(D)
  <2>1. f \in Surjection(S, D)
    <3>1. f \in [S -> D]
      BY <1>2, <1>3
    <3>2. \A d \in D : \E i \in S : f[i] = d
      BY <1>3
    <3>. QED
      BY <3>1, <3>2 DEF Surjection
  <2>. QED
    BY <1>1, <2>1, FS_Surjection
<1>5. D \subseteq Nat /\ D # {}
  BY <1>1, <1>2, <1>3
<1>6. PICK d \in D : \A e \in D : e <= d
  BY <1>4, <1>5, Largest
<1>7. PICK L : L = {i \in S : es[i].day = d}
  OBVIOUS
<1>8. L # {} /\ L \subseteq S
  BY <1>2, <1>3, <1>7
<1>9. IsFiniteSet(L) /\ L \subseteq Nat
  BY <1>1, <1>8, FS_Subset
<1>10. PICK x \in L : \A y \in L : y <= x
  BY <1>8, <1>9, Largest
<1>11. ASSUME NEW y \in S, y # x
       PROVE  Sooner(es, y, x)
  <2>1. es[y].day \in D /\ es[y].day \in Nat /\ es[x].day = d /\ d \in Nat /\ x \in Nat /\ y \in Nat
    BY <1>1, <1>2, <1>3, <1>5, <1>7, <1>9
  <2>2. es[y].day <= d
    BY <1>6, <2>1
  <2>3. CASE es[y].day = d
    <3>1. y <= x
      BY <1>7, <1>10, <2>3
    <3>. QED
      BY <1>11, <2>1, <2>3, <3>1 DEF Sooner
  <2>4. CASE es[y].day # d
    BY <2>1, <2>2, <2>4 DEF Sooner
  <2>. QED
    BY <2>3, <2>4
<1>. QED
  BY <1>8, <1>11

\* What happens between the two ends of each event adds up to what happens
\* between the two ends of the leg.
LEMMA ChainTelescopes ==
    ASSUME NEW es, NEW S, IsChain(es, S), NEW phi \in [Nat -> Int]
    PROVE  SumFunctionOnSet(Steps(es, S, phi), S) = phi[Length(es, S)] - phi[0]
<1>. DEFINE Good(W) == SumFunctionOnSet(Steps(es, W, phi), W) = phi[Length(es, W)] - phi[0]
<1>1. PICK T : T = {W \in SUBSET S : ~Good(W)}
  OBVIOUS
<1>2. IsFiniteSet(S) /\ S \subseteq Nat
  BY DEF IsChain
<1>7. IsFiniteSet(S)
  BY <1>2
<1>3. Good({})
  <2>1. SumFunctionOnSet(Steps(es, {}, phi), {}) = 0
    BY SumEmpty
  <2>2. Length(es, {}) = 0
    BY SumEmpty DEF Length
  <2>3. phi[0] \in Int
    OBVIOUS
  <2>. QED
    BY <2>1, <2>2, <2>3
<1>4. ASSUME NEW w \in SUBSET S, w # {}, \A u \in SUBSET S : u \subseteq w /\ u # w => Good(u)
      PROVE  Good(w)
  <2>1. IsChain(es, w) /\ IsFiniteSet(w) /\ w \subseteq Nat
    BY LengthNat DEF IsChain
  <2>2. PICK x \in w : \A y \in w : y # x => Sooner(es, y, x)
    BY <1>4, <2>1, LatestEvent
  <2>3. PICK v : v = w \ {x}
    OBVIOUS
  <2>4. v \in SUBSET S /\ v \subseteq w /\ v # w /\ v \in SUBSET w
    BY <2>3
  <2>5. Good(v) /\ IsChain(es, v) /\ IsFiniteSet(v)
    BY <1>4, <2>4, LengthNat DEF IsChain
  <2>6. \A i \in w : es[i].points \in Nat /\ es[i].day \in Nat /\ i \in Nat
    BY <2>1 DEF IsChain
  <2>7. \A y \in w : ~Sooner(es, x, y)
    BY <2>2, <2>6 DEF Sooner
  <2>8. Ahead(es, w, x) = v
    BY <2>2, <2>3, <2>7 DEF Ahead
  <2>9. \A i \in v : Ahead(es, w, i) = Ahead(es, v, i)
    BY <2>3, <2>7 DEF Ahead
  <2>10. PICK f : f = Steps(es, w, phi)
    OBVIOUS
  <2>11. PICK g : g = Steps(es, v, phi)
    OBVIOUS
  <2>12. \A i \in v : Start(es, w, i) = Start(es, v, i)
    BY <2>9, StartIs
  <2>13. \A i \in v : f[i] = g[i]
    BY <2>4, <2>10, <2>11, <2>12 DEF Steps
  <2>14. \A i \in w : f[i] \in Int
    <3>1. ASSUME NEW i \in w
          PROVE  f[i] \in Int
      <4>1. PICK a \in Nat : a = Start(es, w, i)
        BY <2>1, LengthNat
      <4>2. PICK p \in Nat : p = es[i].points
        BY <2>6
      <4>3. a + p \in Nat
        OBVIOUS
      <4>4. phi[a + p] \in Int /\ phi[a] \in Int
        BY <4>3
      <4>5. f[i] = phi[a + p] - phi[a]
        BY <2>10, <4>1, <4>2 DEF Steps
      <4>. QED
        BY <4>4, <4>5
    <3>. QED
      BY <3>1
  <2>26. IsFiniteSet(w) /\ x \in w
    BY <2>1, <2>2
  <2>15. SumFunctionOnSet(f, w) = f[x] + SumFunctionOnSet(f, v)
    <3>1. SumFunctionOnSet(f, w) = f[x] + SumFunctionOnSet(f, w \ {x})
      BY <2>26, <2>14, SumRemove
    <3>. QED
      BY <2>3, <3>1
  <2>16. SumFunctionOnSet(f, v) = SumFunctionOnSet(g, v)
    BY <2>5, <2>13, SumSame
  <2>17. PICK n \in Nat : n = Length(es, v)
    BY <2>5, LengthNat
  <2>18. PICK p \in Nat : p = es[x].points
    BY <2>6
  <2>19. Length(es, w) = p + n
    <3>1. PICK h : h = [i \in w |-> es[i].points]
      OBVIOUS
    <3>2. PICK k : k = [i \in v |-> es[i].points]
      OBVIOUS
    <3>3. \A i \in w : h[i] \in Int
      BY <2>6, <3>1
    <3>4. SumFunctionOnSet(h, w) = h[x] + SumFunctionOnSet(h, v)
      <4>1. SumFunctionOnSet(h, w) = h[x] + SumFunctionOnSet(h, w \ {x})
        BY <2>26, <3>3, SumRemove
      <4>. QED
        BY <2>3, <4>1
    <3>5. \A i \in v : h[i] = k[i]
      BY <2>4, <3>1, <3>2
    <3>6. SumFunctionOnSet(h, v) = SumFunctionOnSet(k, v)
      BY <2>5, <3>5, SumSame
    <3>7. h[x] = p
      BY <2>18, <3>1
    <3>. QED
      BY <2>17, <3>1, <3>2, <3>4, <3>6, <3>7 DEF Length
  <2>20. Start(es, w, x) = n
    BY <2>8, <2>17, StartIs
  <2>21. f[x] = phi[n + p] - phi[n]
    BY <2>10, <2>18, <2>20 DEF Steps
  <2>22. SumFunctionOnSet(g, v) = phi[n] - phi[0]
    BY <2>5, <2>11, <2>17
  <2>23. p + n = n + p /\ n + p \in Nat
    OBVIOUS
  <2>24. phi[n] \in Int /\ phi[n + p] \in Int /\ phi[0] \in Int
    BY <2>23
  <2>25. SumFunctionOnSet(f, w) = phi[n + p] - phi[0]
    BY <2>15, <2>16, <2>21, <2>22, <2>24
  <2>. QED
    BY <2>10, <2>19, <2>23, <2>25
<1>. HIDE DEF Good
<1>5. T = {}
  <2>1. ASSUME T # {}
        PROVE  FALSE
    <3>1. T \subseteq SUBSET S
      BY <1>1
    <3>2. PICK w \in T : \A u \in T : u \subseteq w => u = w
      BY <1>7, <2>1, <3>1, LeastSet
    <3>3. w \in SUBSET S /\ ~Good(w) /\ w # {}
      BY <1>1, <1>3, <3>2
    <3>4. \A u \in SUBSET S : u \subseteq w /\ u # w => Good(u)
      BY <1>1, <3>2
    <3>. QED
      BY <1>4, <3>3, <3>4
  <2>. QED
    BY <2>1
<1>6. Good(S)
  BY <1>1, <1>5
<1>. QED
  BY <1>6 DEF Good

\* What two intervals share, and the part of the numbers below x that is in one.
Greater(a, b) == IF a < b THEN b ELSE a
Shared(a, b, s, e) ==
    IF Greater(a, s) < Least(b, e) THEN Least(b, e) - Greater(a, s) ELSE 0
Clip(a, b) == [x \in Nat |-> IF x < a THEN 0 ELSE IF x > b THEN b - a ELSE x - a]

\* What an interval shares with [a, b] is what of [a, b] lies between its ends.
LEMMA ClipShared ==
    ASSUME NEW a \in Nat, NEW b \in Nat, NEW s \in Nat, NEW e \in Nat, a <= b, s <= e
    PROVE  /\ Shared(a, b, s, e) = Clip(a, b)[e] - Clip(a, b)[s]
           /\ Shared(a, b, s, e) \in Nat
           /\ Clip(a, b) \in [Nat -> Int]
BY DEF Clip, Shared, Greater, Least

\* The share of an interval in all that is below t.
LEMMA ClipEnds ==
    ASSUME NEW a \in Nat, NEW b \in Nat, NEW t \in Nat, a <= b
    PROVE  Clip(a, b)[t] - Clip(a, b)[0] = Least(t, b) - Least(t, a)
BY DEF Clip, Least

\* What the event l of one leg shares with the event r of the other.
Common(es, L, R, l, r) ==
    Shared(Start(es, L, l), Start(es, L, l) + es[l].points, Start(es, R, r), Start(es, R, r) + es[r].points)

\* An event of one leg, against all of the other.
LEMMA RowShared ==
    ASSUME NEW es, NEW L, NEW R, IsChain(es, L), IsChain(es, R), NEW l \in L,
           NEW row, row = [r \in R |-> Common(es, L, R, l, r)],
           NEW psi, psi = [x \in Nat |-> Least(Length(es, R), x)]
    PROVE  SumFunctionOnSet(row, R) = Steps(es, L, psi)[l]
<1>1. PICK a \in Nat : a = Start(es, L, l)
  BY LengthNat
<1>2. PICK p \in Nat : p = es[l].points
  BY DEF IsChain
<1>3. PICK t \in Nat : t = Length(es, R)
  BY LengthNat
<1>4. PICK b \in Nat : b = a + p
  OBVIOUS
<1>5. a <= b
  BY <1>4
<1>6. PICK phi : phi = Clip(a, b)
  OBVIOUS
<1>7. phi \in [Nat -> Int]
  BY <1>5, <1>6, ClipShared
<1>8. PICK f : f = Steps(es, R, phi)
  OBVIOUS
<1>9. \A r \in R : row[r] = f[r]
  <2>1. ASSUME NEW r \in R
        PROVE  row[r] = f[r]
    <3>1. PICK s \in Nat : s = Start(es, R, r)
      BY LengthNat
    <3>2. PICK q \in Nat : q = es[r].points
      BY DEF IsChain
    <3>3. PICK e \in Nat : e = s + q
      OBVIOUS
    <3>4. s <= e
      BY <3>3
    <3>5. row[r] = Shared(a, b, s, e)
      BY <1>1, <1>2, <1>4, <3>1, <3>2, <3>3 DEF Common
    <3>6. f[r] = phi[e] - phi[s]
      BY <1>8, <3>1, <3>2, <3>3 DEF Steps
    <3>7. Shared(a, b, s, e) = phi[e] - phi[s]
      <4>1. Shared(a, b, s, e) = Clip(a, b)[e] - Clip(a, b)[s]
        BY <1>5, <3>4, ClipShared
      <4>. QED
        BY <1>6, <4>1
    <3>. QED
      BY <3>5, <3>6, <3>7
  <2>. QED
    BY <2>1
<1>10. SumFunctionOnSet(row, R) = SumFunctionOnSet(f, R)
  <2>1. IsFiniteSet(R)
    BY DEF IsChain
  <2>. QED
    BY <1>9, <2>1, SumSame
<1>11. SumFunctionOnSet(f, R) = phi[t] - phi[0]
  BY <1>3, <1>7, <1>8, ChainTelescopes
<1>12. phi[t] - phi[0] = Least(t, b) - Least(t, a)
  BY <1>5, <1>6, ClipEnds
<1>13. Steps(es, L, psi)[l] = psi[b] - psi[a]
  BY <1>1, <1>2, <1>4 DEF Steps
<1>14. psi[b] = Least(t, b) /\ psi[a] = Least(t, a)
  BY <1>3
<1>. QED
  BY <1>10, <1>11, <1>12, <1>13, <1>14

IsGrid(g, es, L, R) == g = [q \in L \X R |-> Common(es, L, R, q[1], q[2])]

\* Two legs share, pair by pair, all of the shorter one.
LEMMA LegsShare ==
    ASSUME NEW es, NEW L, NEW R, IsChain(es, L), IsChain(es, R),
           NEW g, IsGrid(g, es, L, R)
    PROVE  SumFunctionOnSet(g, L \X R) = Least(Length(es, L), Length(es, R))
<1>1. IsFiniteSet(L) /\ IsFiniteSet(R) /\ L \subseteq Nat /\ R \subseteq Nat
  BY DEF IsChain
<1>2. PICK P : P = L \X R
  OBVIOUS
<1>3. IsFiniteSet(P)
  BY <1>1, <1>2, FS_Product
<1>4. \A l \in L, r \in R : Common(es, L, R, l, r) \in Nat
  <2>1. ASSUME NEW l \in L, NEW r \in R
        PROVE  Common(es, L, R, l, r) \in Nat
    <3>1. PICK a \in Nat : a = Start(es, L, l)
      BY LengthNat
    <3>2. PICK s \in Nat : s = Start(es, R, r)
      BY LengthNat
    <3>3. PICK p \in Nat : p = es[l].points
      BY DEF IsChain
    <3>4. PICK q \in Nat : q = es[r].points
      BY DEF IsChain
    <3>5. a + p \in Nat /\ s + q \in Nat /\ a <= a + p /\ s <= s + q
      OBVIOUS
    <3>6. Shared(a, a + p, s, s + q) \in Nat
      BY <3>5, ClipShared
    <3>. QED
      BY <3>1, <3>2, <3>3, <3>4, <3>6 DEF Common
  <2>. QED
    BY <2>1
<1>5. PICK psi : psi = [x \in Nat |-> Least(Length(es, R), x)]
  OBVIOUS
<1>6. Length(es, R) \in Nat /\ Length(es, L) \in Nat
  BY LengthNat
<1>7. psi \in [Nat -> Int]
  BY <1>5, <1>6 DEF Least
<1>8. PICK first : first = [q \in P |-> q[1]]
  OBVIOUS
<1>9. \A q \in P : g[q] \in Int /\ first[q] \in L
  BY <1>2, <1>4, <1>8 DEF IsGrid
<1>10. PICK c : c = Classes(g, P, first, L)
  OBVIOUS
<1>11. SumFunctionOnSet(c, L) = SumFunctionOnSet(g, P)
  <2>1. IsFiniteSet(L)
    BY <1>1
  <2>2. SumFunctionOnSet(Classes(g, P, first, L), L) = SumFunctionOnSet(g, P)
    BY <1>3, <1>9, <2>1, SumClasses
  <2>. QED
    BY <1>10, <2>2
<1>12. PICK f : f = Steps(es, L, psi)
  OBVIOUS
<1>13. \A l \in L : c[l] = f[l]
  <2>1. ASSUME NEW l \in L
        PROVE  c[l] = f[l]
    <3>1. PICK row : row = [r \in R |-> Common(es, L, R, l, r)]
      OBVIOUS
    <3>2. PICK C : C = Class(P, first, l)
      OBVIOUS
    <3>3. C = {<<l, r>> : r \in R}
      BY <1>2, <1>8, <3>2 DEF Class
    <3>4. PICK m : m = [r \in R |-> <<l, r>>]
      OBVIOUS
    <3>5. m \in Bijection(R, C)
      <4>1. m \in [R -> C] /\ \A x, y \in R : m[x] = m[y] => x = y
        BY <3>3, <3>4
      <4>2. \A q \in C : \E r \in R : m[r] = q
        BY <3>3, <3>4
      <4>. QED
        BY <4>1, <4>2 DEF Bijection, Injection, Surjection, IsInjective
    <3>6. \A r \in R : row[r] = g[m[r]] /\ row[r] \in Int
      BY <1>4, <3>1, <3>4 DEF IsGrid
    <3>7. IsFiniteSet(C)
      <4>1. m \in Surjection(R, C)
        BY <3>5 DEF Bijection
      <4>. QED
        BY <1>1, <4>1, FS_Surjection
    <3>8. SumFunctionOnSet(row, R) = SumFunctionOnSet(g, C)
      BY <3>5, <3>6, <3>7, SumRenamed
    <3>9. SumFunctionOnSet(row, R) = f[l]
      BY <1>5, <1>12, <3>1, RowShared
    <3>10. c[l] = SumFunctionOnSet(g, C)
      BY <1>10, <3>2 DEF Classes
    <3>. QED
      BY <3>8, <3>9, <3>10
  <2>. QED
    BY <2>1
<1>14. SumFunctionOnSet(c, L) = SumFunctionOnSet(f, L)
  BY <1>1, <1>13, SumSame
<1>15. SumFunctionOnSet(f, L) = psi[Length(es, L)] - psi[0]
  BY <1>7, <1>12, ChainTelescopes
<1>16. psi[Length(es, L)] - psi[0] = Least(Length(es, L), Length(es, R))
  BY <1>5, <1>6 DEF Least
<1>. QED
  BY <1>2, <1>11, <1>14, <1>15, <1>16
\* The greater and the less of two numbers.
LEMMA OfTwo ==
    ASSUME NEW a \in Nat, NEW b \in Nat
    PROVE  Max({a, b}) = Greater(a, b) /\ Min({a, b}) = Least(a, b)
<1>1. \E x \in {a, b} : \A y \in {a, b} : x >= y
  OBVIOUS
<1>2. \E x \in {a, b} : \A y \in {a, b} : x <= y
  OBVIOUS
<1>3. PICK x : x = Max({a, b})
  OBVIOUS
<1>4. x \in {a, b} /\ \A y \in {a, b} : x >= y
  BY <1>1, <1>3, Zenon DEF Max
<1>5. PICK z : z = Min({a, b})
  OBVIOUS
<1>6. z \in {a, b} /\ \A y \in {a, b} : z <= y
  BY <1>2, <1>5, Zenon DEF Min
<1>7. x = Greater(a, b)
  BY <1>4 DEF Greater
<1>8. z = Least(a, b)
  BY <1>6 DEF Least
<1>. QED
  BY <1>3, <1>5, <1>7, <1>8

\* The rows of a reading match all of the shorter leg.
LEMMA RowsGross ==
    ASSUME NEW es, NEW o, NEW L, NEW R, L = LegEvents(es, o, "left"), R = LegEvents(es, o, "right"),
           IsChain(es, L), IsChain(es, R)
    PROVE  Sum(Rows(es, o, FALSE), LAMBDA r : r.gross) = Least(Length(es, L), Length(es, R))
<1>1. PICK matches : matches = Matches(es, L, R)
  OBVIOUS
<1>2. PICK pay : Rows(es, o, FALSE) =
        {[pair |-> <<r.left, r.right>>, gross |-> r.gross, credited |-> pay[r], locked |-> FALSE] : r \in matches}
  <2>. DEFINE type == user[o].current
              Is(credited) == credited = [r \in matches |->
                LET earlier == {q \in matches : q.from < r.from}
                    week  == Sum({q \in earlier : TrackerWeek(q.day) = TrackerWeek(r.day)}, LAMBDA q : credited[q])
                    monthly == Sum({q \in earlier : Month(q.day) = Month(r.day)}, LAMBDA q : credited[q])
                IN  IF FALSE THEN 0
                    ELSE Least(r.gross, Least(Positive(WeekCap[type] - week), Positive(MonthCap[type] - monthly)))]
              pay == CHOOSE credited : Is(credited)
  <2>1. Rows(es, o, FALSE) =
        {[pair |-> <<r.left, r.right>>, gross |-> r.gross, credited |-> pay[r], locked |-> FALSE] : r \in matches}
    BY <1>1 DEF Rows
  <2>. QED
    BY <2>1
<1>3. PICK rows : rows = Rows(es, o, FALSE)
  OBVIOUS
<1>4. PICK g : IsGrid(g, es, L, R)
  BY DEF IsGrid
<1>5. PICK P : P = L \X R
  OBVIOUS
<1>6. PICK Q : Q = {q \in P : g[q] > 0}
  OBVIOUS
<1>7. IsFiniteSet(L) /\ IsFiniteSet(R)
  BY DEF IsChain
<1>8. IsFiniteSet(P) /\ IsFiniteSet(Q) /\ Q \in SUBSET P
  <2>1. IsFiniteSet(P)
    BY <1>5, <1>7, FS_Product
  <2>. QED
    BY <1>6, <2>1, FS_Subset
<1>9. ASSUME NEW l \in L, NEW r \in R
      PROVE  /\ g[<<l, r>>] \in Nat
             /\ g[<<l, r>>] > 0 <=> Max({Start(es, L, l), Start(es, R, r)})
                                    < Min({Start(es, L, l) + es[l].points, Start(es, R, r) + es[r].points})
             /\ g[<<l, r>>] > 0 => g[<<l, r>>] = Min({Start(es, L, l) + es[l].points, Start(es, R, r) + es[r].points})
                                                 - Max({Start(es, L, l), Start(es, R, r)})
  <2>1. PICK a \in Nat : a = Start(es, L, l)
    BY LengthNat
  <2>2. PICK s \in Nat : s = Start(es, R, r)
    BY LengthNat
  <2>3. PICK p \in Nat : p = es[l].points
    BY DEF IsChain
  <2>4. PICK q \in Nat : q = es[r].points
    BY DEF IsChain
  <2>5. PICK b \in Nat : b = a + p
    OBVIOUS
  <2>6. PICK e \in Nat : e = s + q
    OBVIOUS
  <2>7. g[<<l, r>>] = Shared(a, b, s, e)
    <3>1. <<l, r>> \in L \X R
      OBVIOUS
    <3>2. g[<<l, r>>] = Common(es, L, R, l, r)
      BY <1>4, <3>1 DEF IsGrid
    <3>. QED
      BY <2>1, <2>2, <2>3, <2>4, <2>5, <2>6, <3>2 DEF Common
  <2>8. Max({a, s}) = Greater(a, s) /\ Min({b, e}) = Least(b, e)
    BY OfTwo
  <2>9. PICK x \in Nat : x = Greater(a, s)
    BY DEF Greater
  <2>10. PICK y \in Nat : y = Least(b, e)
    BY DEF Least
  <2>11. g[<<l, r>>] = IF x < y THEN y - x ELSE 0
    BY <2>7, <2>9, <2>10 DEF Shared
  <2>12. /\ Max({Start(es, L, l), Start(es, R, r)}) = x
         /\ Min({Start(es, L, l) + es[l].points, Start(es, R, r) + es[r].points}) = y
    BY <2>1, <2>2, <2>3, <2>4, <2>5, <2>6, <2>8, <2>9, <2>10
  <2>. QED
    BY <2>11, <2>12
<1>10. \A q \in P : g[q] \in Nat
  <2>1. ASSUME NEW q \in P
        PROVE  g[q] \in Nat
    <3>1. PICK l \in L : l = q[1]
      BY <1>5
    <3>2. PICK r \in R : r = q[2]
      BY <1>5
    <3>3. q = <<l, r>>
      BY <1>5, <3>1, <3>2
    <3>. QED
      BY <1>9, <3>3
  <2>. QED
    BY <2>1
<1>11. PICK match : match = [q \in Q |->
          [left |-> q[1], right |-> q[2], from |-> Max({Start(es, L, q[1]), Start(es, R, q[2])}),
           gross |-> g[q], day |-> Max({es[q[1]].day, es[q[2]].day})]]
  OBVIOUS
<1>12. matches = {match[q] : q \in Q}
  <2>1. PICK N : N = {q \in L \X R : Max({Start(es, L, q[1]), Start(es, R, q[2])})
                         < Min({Start(es, L, q[1]) + es[q[1]].points, Start(es, R, q[2]) + es[q[2]].points})}
    OBVIOUS
  <2>2. N = Q
    BY <1>5, <1>6, <1>9, <2>1
  <2>3. matches = {[left |-> p[1], right |-> p[2], from |-> Max({Start(es, L, p[1]), Start(es, R, p[2])}),
                    gross |-> Min({Start(es, L, p[1]) + es[p[1]].points, Start(es, R, p[2]) + es[p[2]].points})
                              - Max({Start(es, L, p[1]), Start(es, R, p[2])}),
                    day |-> Max({es[p[1]].day, es[p[2]].day})] : p \in N}
    BY <1>1, <2>1 DEF Matches
  <2>4. \A p \in Q : g[p] = Min({Start(es, L, p[1]) + es[p[1]].points, Start(es, R, p[2]) + es[p[2]].points})
                            - Max({Start(es, L, p[1]), Start(es, R, p[2])})
    BY <1>5, <1>6, <1>9
  <2>5. \A p \in Q : match[p] =
          [left |-> p[1], right |-> p[2], from |-> Max({Start(es, L, p[1]), Start(es, R, p[2])}),
           gross |-> Min({Start(es, L, p[1]) + es[p[1]].points, Start(es, R, p[2]) + es[p[2]].points})
                     - Max({Start(es, L, p[1]), Start(es, R, p[2])}),
           day |-> Max({es[p[1]].day, es[p[2]].day})]
    BY <1>11, <2>4
  <2>. DEFINE Match(p) ==
          [left |-> p[1], right |-> p[2], from |-> Max({Start(es, L, p[1]), Start(es, R, p[2])}),
           gross |-> Min({Start(es, L, p[1]) + es[p[1]].points, Start(es, R, p[2]) + es[p[2]].points})
                     - Max({Start(es, L, p[1]), Start(es, R, p[2])}),
           day |-> Max({es[p[1]].day, es[p[2]].day})]
  <2>6. matches = {Match(p) : p \in N} /\ \A p \in Q : match[p] = Match(p)
    BY <2>3, <2>5
  <2>. HIDE DEF Match
  <2>. QED
    BY <2>2, <2>6
<1>13. PICK row : row = [q \in Q |-> [pair |-> <<q[1], q[2]>>, gross |-> g[q],
                                      credited |-> pay[match[q]], locked |-> FALSE]]
  OBVIOUS
<1>14. \A q \in Q : match[q].left = q[1] /\ match[q].right = q[2] /\ match[q].gross = g[q]
  BY <1>11
<1>15. rows = {row[q] : q \in Q}
  <2>1. \A q \in Q : row[q] = [pair |-> <<match[q].left, match[q].right>>, gross |-> match[q].gross,
                               credited |-> pay[match[q]], locked |-> FALSE]
    BY <1>13, <1>14
  <2>. DEFINE RowOf(r) == [pair |-> <<r.left, r.right>>, gross |-> r.gross, credited |-> pay[r], locked |-> FALSE]
  <2>2. rows = {RowOf(r) : r \in matches} /\ \A q \in Q : row[q] = RowOf(match[q])
    BY <1>2, <1>3, <2>1
  <2>. HIDE DEF RowOf
  <2>. QED
    BY <1>12, <2>2
<1>16. row \in Bijection(Q, rows)
  <2>1. row \in [Q -> rows]
    BY <1>13, <1>15
  <2>2. \A x, y \in Q : row[x] = row[y] => x = y
    <3>1. \A x \in Q : row[x].pair = <<x[1], x[2]>> /\ x = <<x[1], x[2]>>
      BY <1>5, <1>8, <1>13
    <3>. QED
      BY <3>1
  <2>3. \A c \in rows : \E q \in Q : row[q] = c
    BY <1>15
  <2>. QED
    BY <2>1, <2>2, <2>3 DEF Bijection, Injection, Surjection, IsInjective
<1>17. PICK f : f = [r \in rows |-> r.gross]
  OBVIOUS
<1>18. \A q \in Q : g[q] = f[row[q]] /\ g[q] \in Int
  <2>1. \A q \in Q : row[q] \in rows /\ row[q].gross = g[q]
    BY <1>13, <1>15
  <2>. QED
    BY <1>8, <1>10, <1>17, <2>1
<1>19. IsFiniteSet(rows)
  <2>1. row \in Surjection(Q, rows)
    BY <1>16 DEF Bijection
  <2>. QED
    BY <1>8, <2>1, FS_Surjection
<1>20. SumFunctionOnSet(g, Q) = SumFunctionOnSet(f, rows)
  BY <1>16, <1>18, <1>19, SumRenamed
<1>21. SumFunctionOnSet(g, P) = SumFunctionOnSet(g, Q)
  <2>1. PICK Z : Z = P \ Q
    OBVIOUS
  <2>2. IsFiniteSet(Z)
    BY <1>8, <2>1, FS_Subset
  <2>3. \A z \in Z : g[z] = 0
    BY <1>6, <1>10, <2>1
  <2>4. SumFunctionOnSet(g, Z) = 0
    BY <2>2, <2>3, SumZero
  <2>5. Q \cap Z = {} /\ Q \cup Z = P
    BY <1>8, <2>1
  <2>6. \A z \in Q \cup Z : g[z] \in Int
    BY <1>10, <2>5
  <2>7. SumFunctionOnSet(g, Q \cup Z) = SumFunctionOnSet(g, Q) + SumFunctionOnSet(g, Z)
    BY <1>8, <2>2, <2>5, <2>6, SumUnion
  <2>8. SumFunctionOnSet(g, Q) \in Int
    BY <1>8, <1>18, SumInt
  <2>9. SumFunctionOnSet(g, Q \cup Z) = SumFunctionOnSet(g, P)
    BY <2>5, Zenon
  <2>. QED
    BY <2>4, <2>7, <2>8, <2>9
<1>22. SumFunctionOnSet(g, P) = Least(Length(es, L), Length(es, R))
  BY <1>4, <1>5, LegsShare
<1>23. Sum(rows, LAMBDA r : r.gross) = SumFunctionOnSet(f, rows)
  BY <1>17 DEF Sum
<1>. QED
  BY <1>3, <1>20, <1>21, <1>22, <1>23
-----------------------------------------------------------------------------
\* The closure table has the legs that the tree has.

ClosureInv ==
    /\ closure \in [Members -> [Members -> Sides \cup {"self"}]]
    /\ \A o \in Members : \A m \in In(user) :
          closure[o][m] = IF m = o THEN "self" ELSE LegTree(user, o)[m]

\* Only later members are below a member.
LEMMA LegsBelow ==
    ASSUME NEW u, Forest(u), NEW o \in Members
    PROVE  \A m \in Members : LegTree(u, o)[m] # "none" => o < m
<1>1. PICK leg \in [Members -> Sides] : leg = LegTree(u, o) /\ IsLeg(u, o, leg)
  BY LegOfIs DEF LegTree
<1>2. PICK T : T = {m \in Members : leg[m] # "none" /\ ~(o < m)}
  OBVIOUS
<1>3. ASSUME T # {}
      PROVE  FALSE
  <2>1. PICK m \in T : \A x \in T : ~(x < m)
    BY <1>2, <1>3, Earliest
  <2>2. m \in Members /\ leg[m] # "none" /\ ~(o < m)
    BY <1>2, <2>1
  <2>3. leg[m] = IF u[m].up = Nobody THEN "none" ELSE IF u[m].up = o THEN u[m].side ELSE leg[u[m].up]
    BY <1>1, <2>2 DEF IsLeg
  <2>4. u[m].up # Nobody
    BY <2>2, <2>3
  <2>5. u[m].up \in Members /\ u[m].up < m
    BY <2>2, <2>4 DEF Forest
  <2>6. u[m].up # o
    BY <2>2, <2>5
  <2>7. leg[u[m].up] # "none"
    BY <2>2, <2>3, <2>4, <2>6
  <2>8. o < u[m].up
    BY <1>2, <2>1, <2>5, <2>7
  <2>9. o \in Nat /\ m \in Nat /\ u[m].up \in Nat
    BY <2>2, <2>5, MembersFacts
  <2>. QED
    BY <2>2, <2>5, <2>8, <2>9
<1>. QED
  BY <1>1, <1>2, <1>3

\* A new member's rows are its parent's.
LEMMA ClosureJoin ==
    ASSUME ClosureInv, NetworkInv, NetworkInv', Grown(user, user'),
           NEW m \in Members, NEW s, NEW slot, slot.side \in Legs, NEW code, NEW lost, Join(m, s, slot, code, lost)
    PROVE  ClosureInv'
<1>1. PICK up \in In(user) : up = slot.up
  BY PresentIs DEF Join
<1>2. PICK side \in Legs : side = slot.side
  OBVIOUS
<1>3. closure' = Closed(m, up, side) /\ m \notin In(user)
  BY <1>1, <1>2, PresentIs DEF Join
<1>4. up \in Members /\ up # m /\ up # Nobody
  BY <1>1, <1>3, MembersFacts DEF In
<1>5. PICK row : user' = [user EXCEPT ![m] = row] /\ row.up = up /\ row.side = side
  <2>1. PICK row : row = [up |-> slot.up, side |-> slot.side, sponsor |-> s, day |-> day, type |-> Package[m],
                          current |-> Package[m], code |-> code, cd |-> Debt(code)]
    OBVIOUS
  <2>2. user' = [user EXCEPT ![m] = row]
    BY <2>1 DEF Join
  <2>3. row.up = slot.up /\ row.side = slot.side
    BY <2>1
  <2>. QED
    BY <1>1, <1>2, <2>2, <2>3
<1>6. /\ Tables(user, upgrades) /\ Tables(user', upgrades')
      /\ Forest(user) /\ Forest(user') /\ user \in [Members -> UserRow]
  BY DEF NetworkInv, Tables, Forest
<1>7. \A x \in In(user') : x # m => x \in In(user)
  BY <1>5, <1>6 DEF In
<1>8. user'[m].up = up /\ user'[m].side = side
  BY <1>5, <1>6
<1>9. \A a, x \in Members :
        closure'[a][x] = IF x # m THEN closure[a][x]
                         ELSE IF a = m THEN "self" ELSE IF a = up THEN side ELSE closure[a][up]
  BY <1>3, <1>4 DEF Closed, ClosureInv
<1>10. closure' \in [Members -> [Members -> Sides \cup {"self"}]]
  <2>1. ASSUME NEW a \in Members
        PROVE  (IF a = m THEN [closure[a] EXCEPT ![m] = "self"]
                ELSE IF a = up THEN [closure[a] EXCEPT ![m] = side]
                ELSE [closure[a] EXCEPT ![m] = closure[a][up]]) \in [Members -> Sides \cup {"self"}]
    <3>1. PICK c \in [Members -> Sides \cup {"self"}] : c = closure[a]
      BY DEF ClosureInv
    <3>2. side \in Sides \cup {"self"} /\ c[up] \in Sides \cup {"self"} /\ "self" \in Sides \cup {"self"}
      BY <1>4 DEF Sides
    <3>3. /\ [c EXCEPT ![m] = "self"] \in [Members -> Sides \cup {"self"}]
          /\ [c EXCEPT ![m] = side] \in [Members -> Sides \cup {"self"}]
          /\ [c EXCEPT ![m] = c[up]] \in [Members -> Sides \cup {"self"}]
      BY <3>2
    <3>. QED
      BY <3>1, <3>3
  <2>. QED
    BY <1>3, <2>1 DEF Closed
<1>11. ASSUME NEW o \in Members, NEW x \in In(user')
       PROVE  closure'[o][x] = IF x = o THEN "self" ELSE LegTree(user', o)[x]
  <2>1. x \in Members
    BY <1>11 DEF In
  <2>2. \A y \in In(user) : LegTree(user, o)[y] = LegTree(user', o)[y]
    BY <1>6, LegsGrow
  <2>3. CASE x # m
    <3>1. x \in In(user) /\ closure'[o][x] = closure[o][x]
      BY <1>7, <1>9, <2>1, <2>3
    <3>. QED
      BY <2>2, <3>1 DEF ClosureInv
  <2>4. CASE x = m
    <3>1. closure'[o][m] = IF o = m THEN "self" ELSE IF o = up THEN side ELSE closure[o][up]
      BY <1>9
    <3>2. PICK leg \in [Members -> Sides] : leg = LegTree(user', o) /\ IsLeg(user', o, leg)
      BY <1>6, LegOfIs DEF LegTree
    <3>3. leg[m] = IF user'[m].up = Nobody THEN "none"
                   ELSE IF user'[m].up = o THEN user'[m].side ELSE leg[user'[m].up]
      BY <3>2 DEF IsLeg
    <3>4. leg[m] = IF up = o THEN side ELSE leg[up]
      BY <1>4, <1>8, <3>3
    <3>5. up # o => closure[o][up] = leg[up]
      BY <1>1, <2>2, <3>2 DEF ClosureInv
    <3>. QED
      BY <2>4, <3>1, <3>2, <3>4, <3>5
  <2>. QED
    BY <2>3, <2>4
<1>. QED
  BY <1>10, <1>11 DEF ClosureInv

\* Whatever else grows leaves the legs where they are.
LEMMA ClosureKept ==
    ASSUME ClosureInv, NetworkInv, NetworkInv', Grown(user, user'), In(user') \subseteq In(user), UNCHANGED closure
    PROVE  ClosureInv'
<1>1. Tables(user, upgrades) /\ Tables(user', upgrades')
  BY DEF NetworkInv
<1>2. ASSUME NEW o \in Members, NEW m \in In(user')
      PROVE  closure'[o][m] = IF m = o THEN "self" ELSE LegTree(user', o)[m]
  <2>1. m \in In(user)
    OBVIOUS
  <2>2. LegTree(user, o)[m] = LegTree(user', o)[m]
    BY <1>1, <2>1, LegsGrow
  <2>. QED
    BY <2>1, <2>2 DEF ClosureInv
<1>. QED
  BY <1>2 DEF ClosureInv
-----------------------------------------------------------------------------
\* The events of points: the entry and the upgrades of each member, once.

Keys == ({"registration"} \X Members) \cup ({"upgrade-code"} \X Members \X Types)
EventRow == [src : Members, kind : {"registration", "package_upgrade"}, key : Keys, points : Nat, day : Days]

Registers(e) == e.kind = "registration" /\ e.key = <<"registration", e.src>>
Upgrades(u, e) ==
    e.kind = "package_upgrade" /\ \E t \in Types : t <= u[e.src].current /\ e.key = <<"upgrade-code", e.src, t>>
EventsFrom(es, m) == {i \in DOMAIN es : es[i].src = m}

\* A member has its registration's event, and then the events of all of its
\* points, or has none because that one was lost.  The first member, which is
\* in nobody's leg, never registered.
Booked(u, up, es) ==
    /\ es \in Seq(EventRow)
    /\ \A i \in DOMAIN es : es[i].src \in In(u) /\ (Registers(es[i]) \/ Upgrades(u, es[i]))
    /\ \A m \in In(u) \ {Root} : IF HasRegistration(es, m) THEN Length(es, EventsFrom(es, m)) = Weight(u, up, m)
                                 ELSE m \in Losers /\ EventsFrom(es, m) = {}

EventsInv ==
    /\ Booked(user, upgrades, events)
    /\ \A m \in Members : m \in Losers \/ m \notin In(user) => upgrades[m] = <<>>

\* Any events of a sequence can be laid end to end.
LEMMA EventsChain ==
    ASSUME NEW es \in Seq(EventRow), NEW S, S \subseteq DOMAIN es
    PROVE  IsChain(es, S)
<1>1. DOMAIN es = 1 .. Len(es) /\ Len(es) \in Nat /\ 1 \in Int /\ Len(es) \in Int
  OBVIOUS
<1>2. IsFiniteSet(S)
  BY <1>1, FS_Interval, FS_Subset
<1>3. \A i \in DOMAIN es : es[i] \in EventRow
  OBVIOUS
<1>4. \A i \in S : es[i].points \in Nat /\ es[i].day \in Days
  BY <1>3 DEF EventRow
<1>5. \A i \in S : es[i].day \in Nat
  BY <1>4, DaysFacts
<1>6. S \subseteq Nat
  BY <1>1
<1>. QED
  BY <1>2, <1>4, <1>5, <1>6 DEF IsChain

\* The sequence fs is es with the event e in the place k.
Added(fs, es, e, k) ==
    /\ es \in Seq(EventRow) /\ fs \in Seq(EventRow) /\ e \in EventRow
    /\ DOMAIN fs = DOMAIN es \cup {k} /\ k \notin DOMAIN es
    /\ \A i \in DOMAIN es : fs[i] = es[i]
    /\ fs[k] = e

\* An append adds one.
LEMMA EventAdded ==
    ASSUME NEW es, NEW e, NEW fs, es \in Seq(EventRow), e \in EventRow, fs = Append(es, e)
    PROVE  Added(fs, es, e, Len(es) + 1)
BY DEF Added

\* One more event.
LEMMA EventAppended ==
    ASSUME NEW es, NEW e, NEW fs, NEW k, Added(fs, es, e, k)
    PROVE  /\ \A m : HasRegistration(fs, m) <=> HasRegistration(es, m) \/ (e.src = m /\ e.kind = "registration")
           /\ \A m : e.src # m => /\ EventsFrom(fs, m) = EventsFrom(es, m)
                                  /\ Length(fs, EventsFrom(fs, m)) = Length(es, EventsFrom(es, m))
           /\ Length(fs, EventsFrom(fs, e.src)) = Length(es, EventsFrom(es, e.src)) + e.points
<1>1. /\ fs \in Seq(EventRow) /\ DOMAIN fs = DOMAIN es \cup {k} /\ fs[k] = e /\ k \notin DOMAIN es
  BY DEF Added
<1>2. \A i \in DOMAIN es : fs[i] = es[i]
  BY DEF Added
<1>3. \A m : HasRegistration(fs, m) <=> HasRegistration(es, m) \/ (e.src = m /\ e.kind = "registration")
  BY <1>1, <1>2 DEF HasRegistration
<1>4. \A m : Length(fs, EventsFrom(es, m)) = Length(es, EventsFrom(es, m))
  <2>1. ASSUME NEW m
        PROVE  Length(fs, EventsFrom(es, m)) = Length(es, EventsFrom(es, m))
    <3>1. [i \in EventsFrom(es, m) |-> fs[i].points] = [i \in EventsFrom(es, m) |-> es[i].points]
      BY <1>2 DEF EventsFrom
    <3>. QED
      BY <3>1 DEF Length
  <2>. QED
    BY <2>1
<1>5. \A m : e.src # m => EventsFrom(fs, m) = EventsFrom(es, m)
  BY <1>1, <1>2 DEF EventsFrom
<1>6. Length(fs, EventsFrom(fs, e.src)) = Length(es, EventsFrom(es, e.src)) + e.points
  <2>1. PICK S : S = EventsFrom(es, e.src)
    OBVIOUS
  <2>2. EventsFrom(fs, e.src) = S \cup {k} /\ k \notin S
    BY <1>1, <1>2, <2>1 DEF EventsFrom
  <2>3. S \subseteq DOMAIN fs /\ S \cup {k} \subseteq DOMAIN fs
    BY <1>1, <2>1 DEF EventsFrom
  <2>4. IsChain(fs, S) /\ IsChain(fs, S \cup {k})
    BY <1>1, <2>3, EventsChain
  <2>5. PICK f : f = [i \in S \cup {k} |-> fs[i].points]
    OBVIOUS
  <2>6. \A i \in S \cup {k} : fs[i].points \in Int
    BY <2>4 DEF IsChain
  <2>7. \A i \in S \cup {k} : f[i] \in Int
    BY <2>5, <2>6
  <2>8. IsFiniteSet(S)
    BY <2>4 DEF IsChain
  <2>9. SumFunctionOnSet(f, S \cup {k}) = f[k] + SumFunctionOnSet(f, S)
    BY <2>2, <2>7, <2>8, SumAdd
  <2>10. PICK g : g = [i \in S |-> fs[i].points]
    OBVIOUS
  <2>11. \A i \in S : f[i] = g[i]
    BY <2>5, <2>10
  <2>12. SumFunctionOnSet(f, S) = SumFunctionOnSet(g, S)
    BY <2>8, <2>11, SumSame
  <2>13. f[k] = e.points
    BY <1>1, <2>5
  <2>14. Length(fs, S \cup {k}) = SumFunctionOnSet(f, S \cup {k}) /\ Length(fs, S) = SumFunctionOnSet(g, S)
    BY <2>5, <2>10 DEF Length
  <2>15. Length(fs, S) = Length(es, S)
    BY <1>4, <2>1
  <2>16. Length(fs, S) \in Nat
    BY <2>4, LengthNat
  <2>17. e.points \in Nat
    BY DEF Added, EventRow
  <2>. QED
    BY <2>1, <2>2, <2>9, <2>12, <2>13, <2>14, <2>15, <2>16, <2>17
<1>. QED
  BY <1>3, <1>4, <1>5, <1>6

\* A registration's key, and a higher upgrade's, are new.
LEMMA FreshKey ==
    ASSUME NEW u, NEW up, NEW es, Booked(u, up, es), NEW m
    PROVE  /\ ~HasRegistration(es, m) => \A i \in DOMAIN es : es[i].key # <<"registration", m>>
           /\ \A t \in Types : m \in In(u) /\ ~(t <= u[m].current) =>
                 \A i \in DOMAIN es : es[i].key # <<"upgrade-code", m, t>>
<1>1. ASSUME NEW i \in DOMAIN es, ~HasRegistration(es, m), es[i].key = <<"registration", m>>
      PROVE  FALSE
  <2>1. CASE Registers(es[i])
    <3>1. es[i].src = m /\ es[i].kind = "registration"
      BY <1>1, <2>1 DEF Registers
    <3>. QED
      BY <1>1, <3>1 DEF HasRegistration
  <2>2. CASE Upgrades(u, es[i])
    <3>1. PICK t : es[i].key = <<"upgrade-code", es[i].src, t>>
      BY <2>2 DEF Upgrades
    <3>2. es[i].key[1] = "upgrade-code" /\ es[i].key[1] = "registration"
      BY <1>1, <3>1
    <3>. QED
      BY <3>2
  <2>. QED
    BY <2>1, <2>2 DEF Booked
<1>2. ASSUME NEW i \in DOMAIN es, NEW t \in Types, m \in In(u), ~(t <= u[m].current),
             es[i].key = <<"upgrade-code", m, t>>
      PROVE  FALSE
  <2>1. CASE Registers(es[i])
    <3>1. es[i].key = <<"registration", es[i].src>>
      BY <2>1 DEF Registers
    <3>2. es[i].key[1] = "upgrade-code" /\ es[i].key[1] = "registration"
      BY <1>2, <3>1
    <3>. QED
      BY <3>2
  <2>2. CASE Upgrades(u, es[i])
    <3>1. PICK x \in Types : x <= u[es[i].src].current /\ es[i].key = <<"upgrade-code", es[i].src, x>>
      BY <2>2 DEF Upgrades
    <3>2. x = t /\ es[i].src = m
      BY <1>2, <3>1
    <3>3. x <= u[m].current
      BY <3>1, <3>2
    <3>. QED
      BY <1>2, <3>2, <3>3
  <2>. QED
    BY <2>1, <2>2 DEF Booked
<1>. QED
  BY <1>1, <1>2

\* What an account has, and how high its upgrades are, decide what is booked.
LEMMA BookedSame ==
    ASSUME NEW u, NEW up, NEW v, NEW vp, NEW es, Booked(u, up, es), In(v) = In(u),
           \A m \in In(u) : /\ \A t \in Types : t <= u[m].current => t <= v[m].current
                            /\ Weight(v, vp, m) = Weight(u, up, m)
    PROVE  Booked(v, vp, es)
<1>1. \A i \in DOMAIN es : Upgrades(u, es[i]) /\ es[i].src \in In(u) => Upgrades(v, es[i])
  BY DEF Upgrades
<1>2. es \in Seq(EventRow)
  BY DEF Booked
<1>3. \A i \in DOMAIN es : es[i].src \in In(v) /\ (Registers(es[i]) \/ Upgrades(v, es[i]))
  BY <1>1 DEF Booked
<1>4. \A m \in In(v) \ {Root} : IF HasRegistration(es, m) THEN Length(es, EventsFrom(es, m)) = Weight(v, vp, m)
                       ELSE m \in Losers /\ EventsFrom(es, m) = {}
  BY DEF Booked
<1>. QED
  BY <1>2, <1>3, <1>4 DEF Booked

\* A registration's event, for a member that has none.
LEMMA BookedEntry ==
    ASSUME NEW u, NEW up, NEW v, NEW es, Booked(u, up, es), Tables(v, up),
           NEW m \in Members, In(v) = In(u) \cup {m}, \A x \in In(u) : x # m => v[x] = u[x],
           ~HasRegistration(es, m), EventsFrom(es, m) = {}, up[m] = <<>>,
           NEW e, e = Event(m, "registration", <<"registration", m>>, Points[v[m].type], v[m].day),
           NEW fs, fs = Insert(es, e)
    PROVE  /\ Booked(v, up, fs) /\ e \in EventRow
           /\ \A x : HasRegistration(fs, x) <=> HasRegistration(es, x) \/ x = m
<1>1. /\ e.src = m /\ e.kind = "registration" /\ e.key = <<"registration", m>>
      /\ e.points = Points[v[m].type] /\ e.day = v[m].day
  BY DEF Event
<1>2. e \in EventRow
  <2>1. Points[v[m].type] \in Nat
    BY WeightNat
  <2>2. v[m].day \in Days
    BY DEF Tables, Forest, UserRow
  <2>3. <<"registration", m>> \in Keys
    BY DEF Keys
  <2>. QED
    BY <2>1, <2>2, <2>3 DEF EventRow, Event
<1>3. \A i \in DOMAIN es : es[i].key # e.key
  BY <1>1, FreshKey
<1>4. fs = Append(es, e)
  BY <1>3 DEF Insert
<1>5. es \in Seq(EventRow)
  BY DEF Booked
<1>14. PICK k : Added(fs, es, e, k)
  BY <1>2, <1>4, <1>5, EventAdded
<1>6. /\ fs \in Seq(EventRow) /\ DOMAIN fs = DOMAIN es \cup {k}
      /\ \A i \in DOMAIN es : fs[i] = es[i]
      /\ fs[k] = e
  BY <1>14 DEF Added
<1>13. /\ \A x : HasRegistration(fs, x) <=> HasRegistration(es, x) \/ (m = x /\ e.kind = "registration")
       /\ \A x : m # x => /\ EventsFrom(fs, x) = EventsFrom(es, x)
                          /\ Length(fs, EventsFrom(fs, x)) = Length(es, EventsFrom(es, x))
       /\ Length(fs, EventsFrom(fs, m)) = Length(es, EventsFrom(es, m)) + e.points
  <2>1. PICK x : x = e.src
    OBVIOUS
  <2>2. /\ \A y : HasRegistration(fs, y) <=> HasRegistration(es, y) \/ (x = y /\ e.kind = "registration")
        /\ \A y : x # y => /\ EventsFrom(fs, y) = EventsFrom(es, y)
                           /\ Length(fs, EventsFrom(fs, y)) = Length(es, EventsFrom(es, y))
        /\ Length(fs, EventsFrom(fs, x)) = Length(es, EventsFrom(es, x)) + e.points
    BY <1>14, <2>1, EventAppended
  <2>3. x = m
    BY <1>1, <2>1
  <2>. QED
    BY <2>2, <2>3
<1>7. \A x : HasRegistration(fs, x) <=> HasRegistration(es, x) \/ x = m
  BY <1>1, <1>13
<1>8. ASSUME NEW i \in DOMAIN fs
      PROVE  fs[i].src \in In(v) /\ (Registers(fs[i]) \/ Upgrades(v, fs[i]))
  <2>1. CASE i \in DOMAIN es
    <3>1. fs[i] = es[i] /\ es[i].src \in In(u) /\ (Registers(es[i]) \/ Upgrades(u, es[i]))
      BY <1>6, <2>1 DEF Booked
    <3>2. es[i].src # m
      BY <2>1 DEF EventsFrom
    <3>3. v[es[i].src] = u[es[i].src]
      BY <3>1, <3>2
    <3>4. Upgrades(u, es[i]) => Upgrades(v, es[i])
      BY <3>3 DEF Upgrades
    <3>. QED
      BY <3>1, <3>4
  <2>2. CASE i \notin DOMAIN es
    <3>1. fs[i] = e
      BY <1>6, <2>2
    <3>. QED
      BY <1>1, <3>1 DEF Registers
  <2>. QED
    BY <2>1, <2>2
<1>9. Weight(v, up, m) = Points[v[m].type] /\ Points[v[m].type] \in Nat
  <2>1. Points[v[m].type] \in Nat
    BY WeightNat
  <2>2. DOMAIN up[m] = {}
    OBVIOUS
  <2>3. SumFunctionOnSet([i \in DOMAIN up[m] |-> up[m][i].points], DOMAIN up[m]) = 0
    BY <2>2, SumEmpty
  <2>. QED
    BY <2>1, <2>3 DEF Weight
<1>10. Length(es, EventsFrom(es, m)) = 0
  BY SumEmpty DEF Length
<1>11. ASSUME NEW x \in In(v) \ {Root}
       PROVE  IF HasRegistration(fs, x) THEN Length(fs, EventsFrom(fs, x)) = Weight(v, up, x)
              ELSE x \in Losers /\ EventsFrom(fs, x) = {}
  <2>1. CASE x = m
    <3>1. HasRegistration(fs, m)
      BY <1>7
    <3>2. Length(fs, EventsFrom(fs, m)) = Weight(v, up, m)
      BY <1>1, <1>9, <1>10, <1>13
    <3>. QED
      BY <2>1, <3>1, <3>2
  <2>2. CASE x # m
    <3>1. x \in In(u) /\ v[x] = u[x]
      BY <2>2
    <3>2. Weight(v, up, x) = Weight(u, up, x)
      BY <3>1 DEF Weight
    <3>3. HasRegistration(fs, x) <=> HasRegistration(es, x)
      BY <1>7, <2>2
    <3>4. /\ EventsFrom(fs, x) = EventsFrom(es, x)
          /\ Length(fs, EventsFrom(fs, x)) = Length(es, EventsFrom(es, x))
      BY <1>13, <2>2
    <3>5. IF HasRegistration(es, x) THEN Length(es, EventsFrom(es, x)) = Weight(u, up, x)
          ELSE x \in Losers /\ EventsFrom(es, x) = {}
      BY <3>1 DEF Booked
    <3>. QED
      BY <3>2, <3>3, <3>4, <3>5
  <2>. QED
    BY <2>1, <2>2
<1>12. Booked(v, up, fs)
  BY <1>6, <1>8, <1>11 DEF Booked
<1>. QED
  BY <1>2, <1>7, <1>12

\* A registration whose event is lost.
LEMMA BookedLost ==
    ASSUME NEW u, NEW up, NEW v, NEW es, Booked(u, up, es),
           NEW m \in Losers, In(v) = In(u) \cup {m}, m \notin In(u), \A x \in In(u) : v[x] = u[x]
    PROVE  Booked(v, up, es)
<1>1. \A i \in DOMAIN es : es[i].src \in In(u) /\ (Registers(es[i]) \/ Upgrades(u, es[i]))
  BY DEF Booked
<1>2. \A i \in DOMAIN es : es[i].src \in In(v) /\ (Registers(es[i]) \/ Upgrades(v, es[i]))
  BY <1>1 DEF Upgrades
<1>3. EventsFrom(es, m) = {} /\ ~HasRegistration(es, m)
  BY <1>1 DEF EventsFrom, HasRegistration
<1>4. \A x \in In(u) \ {Root} : Weight(v, up, x) = Weight(u, up, x)
  BY DEF Weight
<1>5. \A x \in In(u) \ {Root} : IF HasRegistration(es, x) THEN Length(es, EventsFrom(es, x)) = Weight(v, up, x)
                       ELSE x \in Losers /\ EventsFrom(es, x) = {}
  BY <1>4 DEF Booked
<1>6. \A x \in In(v) \ {Root} : IF HasRegistration(es, x) THEN Length(es, EventsFrom(es, x)) = Weight(v, up, x)
                       ELSE x \in Losers /\ EventsFrom(es, x) = {}
  BY <1>3, <1>5
<1>7. es \in Seq(EventRow)
  BY DEF Booked
<1>. QED
  BY <1>2, <1>6, <1>7 DEF Booked
\* What an upgrade adds to a member's points.
LEMMA WeightAppended ==
    ASSUME NEW u, NEW up, Tables(u, up), NEW m \in In(u), NEW r \in UpgradeRow,
           NEW v, v[m].type = u[m].type, NEW vp, vp[m] = Append(up[m], r)
    PROVE  Weight(v, vp, m) = Weight(u, up, m) + r.points
<1>1. PICK s \in Seq(UpgradeRow) : s = up[m]
  BY WeightNat
<1>2. PICK t : t = vp[m]
  OBVIOUS
<1>3. PICK k : k = Len(s) + 1
  OBVIOUS
<1>4. DOMAIN t = DOMAIN s \cup {k} /\ k \notin DOMAIN s /\ t[k] = r /\ \A i \in DOMAIN s : t[i] = s[i]
  <2>1. t = Append(s, r)
    BY <1>1, <1>2
  <2>. QED
    BY <1>3, <2>1
<1>5. PICK f : f = [i \in DOMAIN s |-> s[i].points]
  OBVIOUS
<1>6. PICK g : g = [i \in DOMAIN t |-> t[i].points]
  OBVIOUS
<1>7. /\ IsFiniteSet(DOMAIN s) /\ \A i \in DOMAIN s : s[i].points \in Nat
      /\ SumFunctionOnSet(f, DOMAIN s) \in Nat /\ Points[u[m].type] \in Nat
  BY <1>1, <1>5, WeightNat
<1>8. r.points \in Nat
  BY DEF UpgradeRow
<1>9. \A i \in DOMAIN s : g[i] = f[i] /\ f[i] \in Nat
  BY <1>4, <1>5, <1>6, <1>7
<1>10. g[k] = r.points
  BY <1>4, <1>6
<1>11. \A i \in DOMAIN s \cup {k} : g[i] \in Int
  BY <1>8, <1>9, <1>10
<1>12. SumFunctionOnSet(g, DOMAIN s \cup {k}) = g[k] + SumFunctionOnSet(g, DOMAIN s)
  BY <1>4, <1>7, <1>11, SumAdd
<1>13. SumFunctionOnSet(g, DOMAIN s) = SumFunctionOnSet(f, DOMAIN s)
  BY <1>7, <1>9, SumSame
<1>14. SumFunctionOnSet(g, DOMAIN t) = SumFunctionOnSet(f, DOMAIN s) + r.points
  BY <1>4, <1>7, <1>8, <1>10, <1>12, <1>13
<1>15. /\ Weight(u, up, m) = Points[u[m].type] + SumFunctionOnSet(f, DOMAIN s)
       /\ Weight(v, vp, m) = Points[u[m].type] + SumFunctionOnSet(g, DOMAIN t)
  BY <1>1, <1>2, <1>5, <1>6 DEF Weight
<1>. QED
  BY <1>7, <1>8, <1>14, <1>15

\* An upgrade's event, for a member that has its registration's.
LEMMA BookedUpgrade ==
    ASSUME NEW u, NEW up, Tables(u, up), NEW es, Booked(u, up, es), NEW m \in In(u), m = Root \/ HasRegistration(es, m),
           NEW v, NEW vp, In(v) = In(u), NEW type \in Types, v[m].current = type, v[m].type = u[m].type,
           u[m].current < type, \A x \in In(u) : x # m => v[x] = u[x] /\ vp[x] = up[x],
           NEW r \in UpgradeRow, r.points = Points[type], vp[m] = Append(up[m], r),
           NEW d \in Days, NEW fs,
           fs = Insert(es, Event(m, "package_upgrade", <<"upgrade-code", m, type>>, Points[type], d))
    PROVE  Booked(v, vp, fs)
<1>1. PICK e : e = Event(m, "package_upgrade", <<"upgrade-code", m, type>>, Points[type], d)
  OBVIOUS
<1>2. /\ e.src = m /\ e.kind = "package_upgrade" /\ e.key = <<"upgrade-code", m, type>>
      /\ e.points = Points[type] /\ e.day = d
  BY <1>1 DEF Event
<1>3. m \in Members /\ Points[type] \in Nat /\ r.points \in Nat
  BY EnginesAssumption DEF In, UpgradeRow
<1>4. e \in EventRow
  <2>1. <<"upgrade-code", m, type>> \in Keys
    BY <1>3 DEF Keys
  <2>. QED
    BY <1>1, <1>3, <2>1 DEF EventRow, Event
<1>5. u[m].current \in Nat /\ type \in Nat /\ ~(type <= u[m].current)
  <2>1. u[m].current \in Types /\ Types \subseteq Nat
    BY EnginesAssumption DEF Tables
  <2>2. PICK a \in Nat : a = u[m].current
    BY <2>1
  <2>3. PICK b \in Nat : b = type
    BY <2>1
  <2>4. a < b
    BY <2>2, <2>3
  <2>5. ~(b <= a)
    BY <2>4
  <2>. QED
    BY <2>2, <2>3, <2>5
<1>6. \A i \in DOMAIN es : es[i].key # e.key
  BY <1>2, <1>5, FreshKey
<1>7. es \in Seq(EventRow) /\ fs = Append(es, e)
  BY <1>1, <1>6 DEF Booked, Insert
<1>8. PICK k : Added(fs, es, e, k)
  BY <1>4, <1>7, EventAdded
<1>9. /\ fs \in Seq(EventRow) /\ DOMAIN fs = DOMAIN es \cup {k}
      /\ \A i \in DOMAIN es : fs[i] = es[i]
      /\ fs[k] = e
  BY <1>8 DEF Added
<1>10. /\ \A x : HasRegistration(fs, x) <=> HasRegistration(es, x)
       /\ \A x : m # x => /\ EventsFrom(fs, x) = EventsFrom(es, x)
                          /\ Length(fs, EventsFrom(fs, x)) = Length(es, EventsFrom(es, x))
       /\ Length(fs, EventsFrom(fs, m)) = Length(es, EventsFrom(es, m)) + Points[type]
  <2>1. PICK x : x = e.src
    OBVIOUS
  <2>2. /\ \A y : HasRegistration(fs, y) <=> HasRegistration(es, y) \/ (x = y /\ e.kind = "registration")
        /\ \A y : x # y => /\ EventsFrom(fs, y) = EventsFrom(es, y)
                           /\ Length(fs, EventsFrom(fs, y)) = Length(es, EventsFrom(es, y))
        /\ Length(fs, EventsFrom(fs, x)) = Length(es, EventsFrom(es, x)) + e.points
    BY <1>8, <2>1, EventAppended
  <2>3. x = m /\ e.kind # "registration"
    BY <1>2, <2>1
  <2>. QED
    BY <1>2, <2>2, <2>3
<1>11. \A x \in In(u) : \A t \in Types : t <= u[x].current => t <= v[x].current
  <2>1. ASSUME NEW x \in In(u), NEW t \in Types, t <= u[x].current
        PROVE  t <= v[x].current
    <3>1. CASE x = m
      <4>1. t \in Nat
        BY EnginesAssumption
      <4>. QED
        BY <1>5, <2>1, <3>1, <4>1
    <3>2. CASE x # m
      BY <2>1, <3>2
    <3>. QED
      BY <3>1, <3>2
  <2>. QED
    BY <2>1
<1>12. ASSUME NEW i \in DOMAIN fs
       PROVE  fs[i].src \in In(v) /\ (Registers(fs[i]) \/ Upgrades(v, fs[i]))
  <2>1. CASE i \in DOMAIN es
    <3>1. fs[i] = es[i] /\ es[i].src \in In(u) /\ (Registers(es[i]) \/ Upgrades(u, es[i]))
      BY <1>9, <2>1 DEF Booked
    <3>2. Upgrades(u, es[i]) => Upgrades(v, es[i])
      BY <1>11, <3>1 DEF Upgrades
    <3>. QED
      BY <3>1, <3>2
  <2>2. CASE i \notin DOMAIN es
    <3>1. fs[i] = e
      BY <1>9, <2>2
    <3>2. type <= v[m].current
      BY <1>5
    <3>. QED
      BY <1>2, <3>1, <3>2 DEF Upgrades
  <2>. QED
    BY <2>1, <2>2
<1>13. ASSUME NEW x \in In(v) \ {Root}
       PROVE  IF HasRegistration(fs, x) THEN Length(fs, EventsFrom(fs, x)) = Weight(v, vp, x)
              ELSE x \in Losers /\ EventsFrom(fs, x) = {}
  <2>1. IF HasRegistration(es, x) THEN Length(es, EventsFrom(es, x)) = Weight(u, up, x)
        ELSE x \in Losers /\ EventsFrom(es, x) = {}
    BY DEF Booked
  <2>2. CASE x = m
    <3>1. Weight(v, vp, m) = Weight(u, up, m) + Points[type]
      BY WeightAppended
    <3>2. Length(es, EventsFrom(es, m)) = Weight(u, up, m)
      BY <2>1, <2>2
    <3>. QED
      BY <1>10, <2>2, <3>1, <3>2
  <2>3. CASE x # m
    <3>1. Weight(v, vp, x) = Weight(u, up, x)
      BY <2>3 DEF Weight
    <3>. QED
      BY <1>10, <2>1, <2>3, <3>1
  <2>. QED
    BY <2>2, <2>3
<1>. QED
  BY <1>9, <1>12, <1>13 DEF Booked

\* The last of a set of members.
LEMMA MaxOf ==
    ASSUME NEW S, S \subseteq Members, S # {}
    PROVE  Max(S) \in S /\ \A x \in S : x <= Max(S)
<1>1. IsFiniteSet(S) /\ S \subseteq Nat
  BY MembersFacts, FS_Subset
<1>2. PICK m \in S : \A x \in S : x <= m
  BY <1>1, Largest
<1>3. \A x \in S : m >= x
  BY <1>1, <1>2
<1>4. PICK z : z = Max(S)
  OBVIOUS
<1>5. z \in S /\ \A x \in S : z >= x
  BY <1>3, <1>4, Zenon DEF Max
<1>6. \A x \in S : x <= z
  BY <1>1, <1>5
<1>. QED
  BY <1>4, <1>5, <1>6

\* Without upgrades only the registration is entered.
LEMMA EnteredIs ==
    ASSUME NEW es, NEW m, upgrades[m] = <<>>
    PROVE  Entered(es, m) = Insert(es, Registration(m))
<1>. DEFINE Is(f) == f = [i \in 0 .. Len(upgrades[m]) |->
                IF i = 0 THEN Insert(es, Registration(m))
                ELSE LET u == upgrades[m][i]
                     IN  Insert(f[i - 1], Event(m, "package_upgrade", <<"upgrade", m, i>>, u.points, u.day))]
<1>1. PICK at : at = CHOOSE f : Is(f)
  OBVIOUS
<1>2. Entered(es, m) = at[Len(upgrades[m])]
  BY <1>1 DEF Entered
<1>3. Len(upgrades[m]) = 0 /\ \A i \in 0 .. Len(upgrades[m]) : i = 0
  OBVIOUS
<1>4. Is([i \in 0 .. Len(upgrades[m]) |-> Insert(es, Registration(m))])
  BY <1>3
<1>5. Is(at)
  BY <1>1, <1>4
<1>6. at[0] = Insert(es, Registration(m))
  BY <1>3, <1>5
<1>. QED
  BY <1>2, <1>3, <1>6

\* The members of o's tree that count and have no registration event; the
\* members before m, and the events a backfill has when it comes to m.
Missing(o) == {m \in Below(o) \cap Sources : ~HasRegistration(events, m)}
Elders(m) == {x \in Members : x < m}
Until(at, m) == IF Elders(m) = {} THEN events ELSE at[Max(Elders(m))]

\* The last of a member's elders.
LEMMA LastElder ==
    ASSUME NEW m \in Members, Elders(m) # {}
    PROVE  \E x \in Members : x = Max(Elders(m)) /\ x < m /\ \A y \in Members : y < m => y <= x
<1>1. Elders(m) \subseteq Members
  BY DEF Elders
<1>2. PICK x : x = Max(Elders(m))
  OBVIOUS
<1>3. x \in Elders(m) /\ \A y \in Elders(m) : y <= x
  BY <1>1, <1>2, MaxOf
<1>. QED
  BY <1>2, <1>3 DEF Elders

\* A backfill enters the members one after the other.
LEMMA BackfillFolds ==
    ASSUME NEW o \in Members, NEW V, events \in V, \A es \in V, m \in Missing(o) : Entered(es, m) \in V
    PROVE  \E at \in [Members -> V] :
              /\ Backfilled(o) = at[Max(Members)]
              /\ \A m \in Members : at[m] = IF m \in Missing(o) THEN Entered(Until(at, m), m) ELSE Until(at, m)
<1>. DEFINE Is(f) == f = [m \in Members |->
                LET earlier == {x \in Members : x < m}
                    es == IF earlier = {} THEN events ELSE f[Max(earlier)]
                IN  IF m \in Missing(o) THEN Entered(es, m) ELSE es]
<1>1. PICK at : at = CHOOSE f : Is(f)
  OBVIOUS
<1>2. Backfilled(o) = at[Max(Members)]
  <2>1. Missing(o) = {m \in Below(o) \cap Sources : ~HasRegistration(events, m)}
    BY DEF Missing
  <2>2. PICK miss : miss = Missing(o)
    OBVIOUS
  <2>3. Backfilled(o) = (CHOOSE f : f = [m \in Members |->
                LET earlier == {x \in Members : x < m}
                    es == IF earlier = {} THEN events ELSE f[Max(earlier)]
                IN  IF m \in miss THEN Entered(es, m) ELSE es])[Max(Members)]
    BY <2>1, <2>2 DEF Backfilled
  <2>. QED
    BY <1>1, <2>2, <2>3
<1>3. \A f : Is(f) <=> f = [m \in Members |-> IF m \in Missing(o) THEN Entered(Until(f, m), m) ELSE Until(f, m)]
  BY DEF Until, Elders
<1>. HIDE DEF Is
<1>. DEFINE G == [p \in [Members -> V] \X Members |->
                    IF p[2] \in Missing(o) THEN Entered(Until(p[1], p[2]), p[2]) ELSE Until(p[1], p[2])]
<1>4. \A f \in [Members -> V], m \in Members :
          G[<<f, m>>] = IF m \in Missing(o) THEN Entered(Until(f, m), m) ELSE Until(f, m)
  OBVIOUS
<1>5. ASSUME NEW f, NEW m \in Members, \A x \in Members : x < m => f[x] \in V
      PROVE  Until(f, m) \in V
  <2>1. CASE Elders(m) = {}
    BY <2>1 DEF Until
  <2>2. CASE Elders(m) # {}
    <3>1. PICK x \in Members : x = Max(Elders(m)) /\ x < m
      BY <2>2, LastElder
    <3>. QED
      BY <1>5, <2>2, <3>1 DEF Until
  <2>. QED
    BY <2>1, <2>2
<1>6. ASSUME NEW f, NEW g, NEW m \in Members, \A x \in Members : x < m => f[x] = g[x]
      PROVE  Until(f, m) = Until(g, m)
  <2>1. CASE Elders(m) = {}
    BY <2>1 DEF Until
  <2>2. CASE Elders(m) # {}
    <3>1. PICK x \in Members : x = Max(Elders(m)) /\ x < m
      BY <2>2, LastElder
    <3>. QED
      BY <1>6, <2>2, <3>1 DEF Until
  <2>. QED
    BY <2>1, <2>2
<1>7. ASSUME NEW f, NEW m \in Members, \A x \in Members : x < m => f[x] \in V
      PROVE  (IF m \in Missing(o) THEN Entered(Until(f, m), m) ELSE Until(f, m)) \in V
  <2>1. PICK b \in V : b = Until(f, m)
    BY <1>5, <1>7
  <2>. QED
    BY <2>1
<1>8. G \in [[Members -> V] \X Members -> V]
  <2>1. ASSUME NEW p \in [Members -> V] \X Members
        PROVE  (IF p[2] \in Missing(o) THEN Entered(Until(p[1], p[2]), p[2]) ELSE Until(p[1], p[2])) \in V
    <3>1. PICK f \in [Members -> V] : f = p[1]
      OBVIOUS
    <3>2. PICK m \in Members : m = p[2]
      OBVIOUS
    <3>3. (IF m \in Missing(o) THEN Entered(Until(f, m), m) ELSE Until(f, m)) \in V
      BY <1>7
    <3>. QED
      BY <3>1, <3>2, <3>3
  <2>. QED
    BY <2>1
<1>. HIDE DEF G
<1>9. Recursive(G, Members, V)
  <2>1. ASSUME NEW f \in [Members -> V], NEW g \in [Members -> V], NEW m \in Members,
               \A x \in Members : x < m => f[x] = g[x]
        PROVE  G[<<f, m>>] = G[<<g, m>>]
    <3>1. PICK b : b = Until(f, m) /\ b = Until(g, m)
      BY <1>6, <2>1
    <3>. QED
      BY <1>4, <3>1
  <2>. QED
    BY <1>8, <2>1 DEF Recursive
<1>10. PICK F \in [Members -> V] : Solves(F, G, Members)
  BY <1>9, MembersFacts, Recursion
<1>11. Is(F)
  <2>1. \A m \in Members : F[m] = IF m \in Missing(o) THEN Entered(Until(F, m), m) ELSE Until(F, m)
    BY <1>4, <1>10 DEF Solves
  <2>. QED
    BY <1>3, <2>1
<1>12. Is(at)
  BY <1>1, <1>11
<1>13. at = [m \in Members |-> at[m]]
       /\ \A m \in Members : at[m] = IF m \in Missing(o) THEN Entered(Until(at, m), m) ELSE Until(at, m)
  BY <1>3, <1>12
<1>14. \A m \in Members : at[m] \in V
  <2>1. PICK T : T = {m \in Members : at[m] \notin V}
    OBVIOUS
  <2>2. ASSUME T # {}
        PROVE  FALSE
    <3>1. PICK m \in T : \A x \in T : ~(x < m)
      BY <2>1, <2>2, Earliest
    <3>2. m \in Members /\ at[m] \notin V /\ \A x \in Members : x < m => at[x] \in V
      BY <2>1, <3>1
    <3>. QED
      BY <1>7, <1>13, <3>2
  <2>. QED
    BY <2>1, <2>2
<1>. QED
  BY <1>2, <1>13, <1>14

\* Afterwards everybody in o's tree who counts has a registration event.
LEMMA BackfilledIs ==
    ASSUME NetworkInv, ClosureInv, EventsInv, NEW o \in Members
    PROVE  /\ Booked(user, upgrades, Backfilled(o))
           /\ \A m \in Missing(o) : HasRegistration(Backfilled(o), m)
           /\ \A m : HasRegistration(events, m) => HasRegistration(Backfilled(o), m)
<1>3. \A m \in Missing(o) : /\ m \in In(user) /\ m \in Members /\ upgrades[m] = <<>>
                            /\ EventsFrom(events, m) = {} /\ ~HasRegistration(events, m) /\ m # Root
  <2>1. ASSUME NEW m \in Missing(o)
        PROVE  /\ m \in In(user) /\ m \in Members /\ upgrades[m] = <<>>
               /\ EventsFrom(events, m) = {} /\ ~HasRegistration(events, m) /\ m # Root
    <3>1. m \in In(user) /\ ~HasRegistration(events, m)
      BY PresentIs DEF Missing, Below, Counted
    <3>2. m \in Members /\ closure[o][m] \in Legs
      BY <3>1, PresentIs DEF Missing, Below, In
    <3>3. m # Root
      <4>1. Forest(user) /\ o \in Nat /\ Root \in Nat /\ Root <= o
        BY MembersFacts DEF NetworkInv, Tables
      <4>2. closure[o][m] = IF m = o THEN "self" ELSE LegTree(user, o)[m]
        BY <3>1 DEF ClosureInv
      <4>3. LegTree(user, o)[m] # "none"
        BY <3>2, <4>2 DEF Legs
      <4>4. o < m
        BY <3>2, <4>1, <4>3, LegsBelow
      <4>. QED
        BY <4>1, <4>4
    <3>4. m \in Losers /\ EventsFrom(events, m) = {}
      BY <3>1, <3>3 DEF EventsInv, Booked
    <3>. QED
      BY <3>1, <3>2, <3>3, <3>4 DEF EventsInv
  <2>. QED
    BY <2>1
<1>6. events \in Seq(EventRow)
  BY DEF EventsInv, Booked
<1>7. \A m \in Missing(o) : Registration(m) \in EventRow
  <2>1. ASSUME NEW m \in Missing(o)
        PROVE  Registration(m) \in EventRow
    <3>1. m \in In(user) /\ m \in Members /\ Tables(user, upgrades)
      BY <1>3 DEF NetworkInv
    <3>2. Points[user[m].type] \in Nat
      BY <3>1, WeightNat
    <3>3. user[m].day \in Days
      BY <3>1 DEF Tables, Forest, UserRow
    <3>4. <<"registration", m>> \in Keys
      BY <3>1 DEF Keys
    <3>. QED
      BY <3>1, <3>2, <3>3, <3>4 DEF EventRow, Event, Registration
  <2>. QED
    BY <2>1
<1>8. \A es \in Seq(EventRow), e \in EventRow : Insert(es, e) \in Seq(EventRow)
  BY DEF Insert
<1>9. \A es \in Seq(EventRow), m \in Missing(o) : Entered(es, m) \in Seq(EventRow)
  BY <1>3, <1>7, <1>8, EnteredIs
<1>10. PICK at \in [Members -> Seq(EventRow)] :
           /\ Backfilled(o) = at[Max(Members)]
           /\ \A m \in Members : at[m] = IF m \in Missing(o) THEN Entered(Until(at, m), m) ELSE Until(at, m)
  <2>1. PICK V : V = Seq(EventRow)
    OBVIOUS
  <2>. QED
    BY <1>6, <1>9, <2>1, BackfillFolds
<1>18. \A m \in Members : at[m] = IF m \in Missing(o) THEN Insert(Until(at, m), Registration(m)) ELSE Until(at, m)
  BY <1>3, <1>10, EnteredIs
<1>. DEFINE Has(m, x) == HasRegistration(events, x) \/ (x \in Missing(o) /\ x <= m)
            Good(m) == Booked(user, upgrades, at[m]) /\ \A x : HasRegistration(at[m], x) <=> Has(m, x)
<1>19. ASSUME NEW m \in Members, \A x \in Members : x < m => Good(x)
       PROVE  Good(m)
  <2>1. PICK es : es = Until(at, m)
    OBVIOUS
  <2>2. Booked(user, upgrades, es) /\ \A x : HasRegistration(es, x) <=>
            HasRegistration(events, x) \/ (x \in Missing(o) /\ x < m)
    <3>1. CASE Elders(m) = {}
      <4>1. es = events
        BY <2>1, <3>1 DEF Until
      <4>2. \A x \in Missing(o) : ~(x < m)
        BY <1>3, <3>1 DEF Elders
      <4>. QED
        BY <4>1, <4>2 DEF EventsInv
    <3>2. CASE Elders(m) # {}
      <4>1. PICK p \in Members : p = Max(Elders(m)) /\ p < m /\ \A x \in Members : x < m => x <= p
        BY <3>2, LastElder
      <4>2. p \in Members /\ p < m /\ \A x \in Members : x < m => x <= p
        BY <4>1
      <4>3. es = at[p]
        BY <2>1, <3>2, <4>1 DEF Until
      <4>4. \A x \in Members : x <= p <=> x < m
        <5>1. p \in Nat /\ m \in Nat /\ p < m /\ \A x \in Members : x \in Nat
          BY <4>2, MembersFacts
        <5>. QED
          BY <4>2, <5>1
      <4>5. Booked(user, upgrades, at[p]) /\ \A x : HasRegistration(at[p], x) <=> Has(p, x)
        BY <1>19, <4>2
      <4>. QED
        BY <1>3, <4>3, <4>4, <4>5
    <3>. QED
      BY <3>1, <3>2
  <2>3. \A x \in Members : x <= m <=> x < m \/ x = m
    BY MembersFacts
  <2>4. m <= m /\ ~(m < m)
    BY MembersFacts
  <2>5. CASE m \in Missing(o)
    <3>1. at[m] = Insert(es, Registration(m))
      BY <1>18, <2>1, <2>5
    <3>2. ~HasRegistration(es, m)
      BY <1>3, <2>2, <2>4, <2>5
    <3>3. m \in In(user) /\ upgrades[m] = <<>> /\ EventsFrom(es, m) = {}
      BY <1>3, <2>2, <2>5, <3>2 DEF Booked
    <3>4. In(user) = In(user) \cup {m} /\ Tables(user, upgrades)
      BY <3>3 DEF NetworkInv
    <3>5. PICK fs : fs = at[m]
      OBVIOUS
    <3>6. PICK e : e = Registration(m)
      OBVIOUS
    <3>7. e = Event(m, "registration", <<"registration", m>>, Points[user[m].type], user[m].day)
      BY <3>6 DEF Registration
    <3>8. Booked(user, upgrades, fs) /\ \A x : HasRegistration(fs, x) <=> HasRegistration(es, x) \/ x = m
      BY <2>2, <3>1, <3>2, <3>3, <3>4, <3>5, <3>6, <3>7, BookedEntry
    <3>9. \A x : HasRegistration(fs, x) <=> Has(m, x)
      BY <1>3, <2>2, <2>3, <2>5, <3>8
    <3>. QED
      BY <3>5, <3>8, <3>9
  <2>6. CASE m \notin Missing(o)
    <3>1. at[m] = es
      BY <1>18, <2>1, <2>6
    <3>2. \A x : HasRegistration(es, x) <=> Has(m, x)
      BY <1>3, <2>2, <2>3, <2>6
    <3>. QED
      BY <2>2, <3>1, <3>2
  <2>. QED
    BY <2>5, <2>6
<1>. HIDE DEF Good
<1>20. \A m \in Members : Good(m)
  <2>1. PICK T : T = {m \in Members : ~Good(m)}
    OBVIOUS
  <2>2. ASSUME T # {}
        PROVE  FALSE
    <3>1. PICK m \in T : \A x \in T : ~(x < m)
      BY <2>1, <2>2, Earliest
    <3>2. m \in Members /\ ~Good(m) /\ \A x \in Members : x < m => Good(x)
      BY <2>1, <3>1
    <3>. QED
      BY <1>19, <3>2
  <2>. QED
    BY <2>1, <2>2
<1>21. PICK z : z = Max(Members)
  OBVIOUS
<1>22. z \in Members /\ \A x \in Members : x <= z
  BY <1>21, MembersFacts, MaxOf
<1>23. Good(z)
  BY <1>20, <1>22
<1>. QED
  BY <1>3, <1>10, <1>21, <1>22, <1>23 DEF Good
-----------------------------------------------------------------------------
\* What the tracker matches, step by step.

\* At first nobody but the first member is there.
LEMMA TrackerInit ==
    ASSUME Init, NetworkInv
    PROVE  ClosureInv /\ EventsInv
<1>1. In(user) \subseteq {Root}
  BY DEF Init, In
<1>2. \A m \in Members : upgrades[m] = <<>>
  BY DEF Init
<1>3. events = <<>> /\ DOMAIN events = {}
  <2>1. events = <<>>
    BY DEF Init
  <2>2. Len(events) = 0 /\ events \in Seq({})
    BY <2>1
  <2>3. DOMAIN events = 1 .. 0
    BY <2>2
  <2>. QED
    BY <2>1, <2>3
<1>4. EventsInv
  <2>1. events \in Seq(EventRow)
    BY <1>3
  <2>2. In(user) \ {Root} = {}
    BY <1>1
  <2>. QED
    BY <1>2, <1>3, <2>1, <2>2 DEF EventsInv, Booked
<1>5. \A o, m \in Members : closure[o][m] = IF o = Root /\ m = Root THEN "self" ELSE "none"
  BY DEF Init
<1>6. closure \in [Members -> [Members -> Sides \cup {"self"}]]
  BY DEF Init, Sides
<1>7. ASSUME NEW o \in Members, NEW m \in In(user)
      PROVE  closure[o][m] = IF m = o THEN "self" ELSE LegTree(user, o)[m]
  <2>1. m = Root /\ m \in Members
    BY <1>1 DEF In
  <2>2. user[m].up = Nobody
    <3>1. user[m] = [Absent EXCEPT !.type = Package[m], !.current = Package[m], !.code = "PD"]
      BY <2>1 DEF Init
    <3>. QED
      BY <3>1 DEF Absent
  <2>3. Forest(user)
    BY DEF NetworkInv, Tables
  <2>4. PICK leg \in [Members -> Sides] : leg = LegTree(user, o) /\ IsLeg(user, o, leg)
    BY <2>3, LegOfIs DEF LegTree
  <2>5. leg[m] = "none"
    BY <2>1, <2>2, <2>4 DEF IsLeg
  <2>. QED
    BY <1>5, <2>1, <2>4, <2>5
<1>. QED
  BY <1>4, <1>6, <1>7 DEF ClosureInv

\* A registration, whose event is inserted or lost.
LEMMA TrackerJoin ==
    ASSUME NetworkInv, ClosureInv, EventsInv, NEW m \in Members, NEW s, NEW slot, slot.side \in Legs,
           NEW code \in Kinds, NEW lost \in {FALSE, (m \in Losers)}, Join(m, s, slot, code, lost)
    PROVE  ClosureInv' /\ EventsInv'
<1>1. NetworkInv' /\ Grown(user, user')
  BY NetworkJoin
<1>2. ClosureInv'
  BY <1>1, ClosureJoin
<1>3. PICK row : row = [up |-> slot.up, side |-> slot.side, sponsor |-> s, day |-> day, type |-> Package[m],
                        current |-> Package[m], code |-> code, cd |-> Debt(code)]
  OBVIOUS
<1>4. /\ m \notin In(user) /\ user' = [user EXCEPT ![m] = row] /\ upgrades' = upgrades
      /\ events' = IF lost THEN events
                   ELSE Insert(events, Event(m, "registration", <<"registration", m>>, Points[Package[m]], day))
  BY <1>3, PresentIs DEF Join
<1>5. PICK v : v = user'
  OBVIOUS
<1>6. v[m] = row /\ \A x \in Members : x # m => v[x] = user[x]
  BY <1>4, <1>5 DEF NetworkInv, Tables, Forest
<1>7. In(v) = In(user) \cup {m}
  <2>1. row.code = code /\ code # "none"
    BY <1>3 DEF Kinds
  <2>2. row # Absent
    BY <2>1 DEF Absent
  <2>. QED
    BY <1>6, <2>2 DEF In
<1>8. Tables(v, upgrades)
  BY <1>1, <1>4, <1>5 DEF NetworkInv
<1>9. Booked(user, upgrades, events) /\ upgrades[m] = <<>>
  BY <1>4 DEF EventsInv
<1>10. \A x \in In(user) : x # m => v[x] = user[x]
  BY <1>6 DEF In
<1>11. PICK fs : fs = events'
  OBVIOUS
<1>12. Booked(v, upgrades, fs)
  <2>1. CASE lost
    <3>1. m \in Losers /\ fs = events
      BY <1>4, <1>11, <2>1
    <3>2. \A x \in In(user) : v[x] = user[x]
      BY <1>4, <1>10
    <3>. QED
      BY <1>4, <1>7, <1>9, <3>1, <3>2, BookedLost
  <2>2. CASE ~lost
    <3>1. \A i \in DOMAIN events : events[i].src # m
      BY <1>4, <1>9 DEF Booked
    <3>2. ~HasRegistration(events, m) /\ EventsFrom(events, m) = {}
      BY <3>1 DEF HasRegistration, EventsFrom
    <3>3. PICK e : e = Event(m, "registration", <<"registration", m>>, Points[v[m].type], v[m].day)
      OBVIOUS
    <3>4. v[m].type = Package[m] /\ v[m].day = day
      BY <1>3, <1>6
    <3>5. fs = Insert(events, e)
      BY <1>4, <1>11, <2>2, <3>3, <3>4
    <3>. QED
      BY <1>7, <1>8, <1>9, <1>10, <3>2, <3>3, <3>5, BookedEntry
  <2>. QED
    BY <2>1, <2>2
<1>13. \A x \in Members : x \in Losers \/ x \notin In(v) => upgrades[x] = <<>>
  BY <1>7 DEF EventsInv
<1>14. EventsInv'
  BY <1>4, <1>5, <1>11, <1>12, <1>13 DEF EventsInv
<1>. QED
  BY <1>2, <1>14

\* An upgrade, of a member whose registration event was not lost.
LEMMA TrackerUpgrade ==
    ASSUME Losers \cap Upgraders = {}, NetworkInv, ClosureInv, EventsInv, NEW m \in Members, Upgrade(m)
    PROVE  ClosureInv' /\ EventsInv'
<1>1. NetworkInv' /\ Grown(user, user')
  BY NetworkUpgrade
<1>2. PICK type \in Types, code \in UpgradeCodes :
          /\ m \in In(user) \cap Upgraders /\ type > user[m].current
          /\ user' = [user EXCEPT ![m].current = type, ![m].code = code, ![m].cd = Debt(code)]
          /\ upgrades' = [upgrades EXCEPT ![m] = Append(@, [points |-> Points[type], day |-> day, code |-> code])]
          /\ events' = Insert(events, Event(m, "package_upgrade", <<"upgrade-code", m, type>>, Points[type], day))
          /\ UNCHANGED closure
  BY PresentIs DEF Upgrade
<1>3. PICK v : v = user'
  OBVIOUS
<1>4. PICK vp : vp = upgrades'
  OBVIOUS
<1>5. user \in [Members -> UserRow] /\ upgrades \in [Members -> Seq(UpgradeRow)] /\ Tables(user, upgrades)
  BY DEF NetworkInv, Tables, Forest
<1>6. /\ v[m].current = type /\ v[m].type = user[m].type /\ v[m].code = code
      /\ \A x \in Members : x # m => v[x] = user[x] /\ vp[x] = upgrades[x]
  <2>1. user[m] \in UserRow
    BY <1>5
  <2>2. v[m] = [user[m] EXCEPT !.current = type, !.code = code, !.cd = Debt(code)]
    BY <1>2, <1>3, <1>5
  <2>3. v[m].current = type /\ v[m].type = user[m].type /\ v[m].code = code
    BY <2>1, <2>2 DEF UserRow
  <2>4. \A x \in Members : x # m => v[x] = user[x] /\ vp[x] = upgrades[x]
    BY <1>2, <1>3, <1>4, <1>5
  <2>. QED
    BY <2>3, <2>4
<1>7. In(v) = In(user)
  <2>1. code # "none"
    BY EnginesAssumption
  <2>2. v[m] # Absent
    BY <1>6, <2>1 DEF Absent
  <2>. QED
    BY <1>2, <1>6, <2>2 DEF In
<1>8. ClosureInv'
  <2>1. In(user') \subseteq In(user) /\ UNCHANGED closure
    BY <1>2, <1>3, <1>7
  <2>. QED
    BY <1>1, <2>1, ClosureKept
<1>9. PICK r : r = [points |-> Points[type], day |-> day, code |-> code]
  OBVIOUS
<1>10. r \in UpgradeRow /\ r.points = Points[type] /\ day \in Days
  <2>1. code \in Kinds /\ Points[type] \in Nat /\ day \in Days
    BY EnginesAssumption DEF Kinds, NetworkInv
  <2>. QED
    BY <1>9, <2>1 DEF UpgradeRow
<1>11. vp[m] = Append(upgrades[m], r)
  BY <1>2, <1>4, <1>5, <1>9
<1>12. PICK fs : fs = events'
  OBVIOUS
<1>13. m \notin Losers /\ m \in In(user)
  BY <1>2
<1>14. user[m].current < type
  BY <1>2
<1>15. Booked(user, upgrades, events) /\ (m = Root \/ HasRegistration(events, m))
  BY <1>13 DEF EventsInv, Booked
<1>16. Booked(v, vp, fs)
  <2>1. fs = Insert(events, Event(m, "package_upgrade", <<"upgrade-code", m, type>>, Points[type], day))
    BY <1>2, <1>12
  <2>2. \A x \in In(user) : x # m => v[x] = user[x] /\ vp[x] = upgrades[x]
    BY <1>6 DEF In
  <2>3. /\ In(v) = In(user) /\ v[m].current = type /\ v[m].type = user[m].type
        /\ user[m].current < type
        /\ r \in UpgradeRow /\ r.points = Points[type] /\ vp[m] = Append(upgrades[m], r) /\ day \in Days
    BY <1>6, <1>7, <1>10, <1>11, <1>14
  <2>4. m \in In(user) /\ Tables(user, upgrades)
    BY <1>5, <1>13
  <2>. QED
    BY <1>15, <2>1, <2>2, <2>3, <2>4, BookedUpgrade
<1>17. \A x \in Members : x \in Losers \/ x \notin In(v) => vp[x] = <<>>
  BY <1>6, <1>7, <1>13 DEF EventsInv
<1>18. EventsInv'
  BY <1>3, <1>4, <1>12, <1>16, <1>17 DEF EventsInv
<1>. QED
  BY <1>8, <1>18

\* The last deduction of a commission-deduction account.
LEMMA TrackerPayOff ==
    ASSUME NetworkInv, ClosureInv, EventsInv, NEW m \in Members, PayOff(m)
    PROVE  ClosureInv' /\ EventsInv'
<1>1. NetworkInv' /\ Grown(user, user')
  BY NetworkPayOff
<1>2. /\ user' = [user EXCEPT ![m].cd = "paid"] /\ m \in In(user) /\ user[m].cd = "owing"
      /\ UNCHANGED <<upgrades, closure, events>>
  BY PresentIs DEF PayOff
<1>3. PICK v : v = user'
  OBVIOUS
<1>4. user \in [Members -> UserRow]
  BY DEF NetworkInv, Tables, Forest
<1>5. /\ v[m].current = user[m].current /\ v[m].type = user[m].type /\ v[m].cd = "paid"
      /\ \A x \in Members : x # m => v[x] = user[x]
  <2>1. user[m] \in UserRow
    BY <1>4
  <2>2. v[m] = [user[m] EXCEPT !.cd = "paid"]
    BY <1>2, <1>3, <1>4
  <2>3. v[m].current = user[m].current /\ v[m].type = user[m].type /\ v[m].cd = "paid"
    BY <2>1, <2>2 DEF UserRow
  <2>4. \A x \in Members : x # m => v[x] = user[x]
    BY <1>2, <1>3, <1>4
  <2>. QED
    BY <2>3, <2>4
<1>6. In(v) = In(user)
  <2>1. v[m] # Absent
    BY <1>5 DEF Absent
  <2>. QED
    BY <1>2, <1>5, <2>1 DEF In
<1>7. ClosureInv'
  <2>1. In(user') \subseteq In(user) /\ UNCHANGED closure
    BY <1>2, <1>3, <1>6
  <2>. QED
    BY <1>1, <2>1, ClosureKept
<1>8. \A x \in In(user) : v[x].current = user[x].current /\ v[x].type = user[x].type
  BY <1>5 DEF In
<1>9. \A x \in In(user) : /\ \A t \in Types : t <= user[x].current => t <= v[x].current
                          /\ Weight(v, upgrades, x) = Weight(user, upgrades, x)
  BY <1>8 DEF Weight
<1>10. Booked(v, upgrades, events)
  <2>1. Booked(user, upgrades, events)
    BY DEF EventsInv
  <2>. QED
    BY <1>6, <1>9, <2>1, BookedSame
<1>11. EventsInv'
  BY <1>2, <1>3, <1>6, <1>10 DEF EventsInv
<1>. QED
  BY <1>7, <1>11

\* The reading of a page fills the events in.
LEMMA TrackerRead ==
    ASSUME NetworkInv, ClosureInv, EventsInv, NEW o \in Members, SyncRead(o)
    PROVE  ClosureInv' /\ EventsInv'
<1>1. events' = Backfilled(o) /\ UNCHANGED <<user, upgrades, closure>>
  BY DEF SyncRead, tree
<1>2. Booked(user, upgrades, Backfilled(o))
  BY BackfilledIs
<1>3. ClosureInv'
  BY <1>1 DEF ClosureInv
<1>4. EventsInv'
  BY <1>1, <1>2 DEF EventsInv
<1>. QED
  BY <1>3, <1>4

\* Every step.
LEMMA TrackerStep ==
    ASSUME Losers \cap Upgraders = {}, NetworkInv, ClosureInv, EventsInv, [Next]_vars
    PROVE  ClosureInv' /\ EventsInv'
<1>1. ASSUME UNCHANGED <<user, upgrades, closure, events>>
      PROVE  ClosureInv' /\ EventsInv'
  <2>1. ClosureInv'
    BY <1>1 DEF ClosureInv
  <2>2. EventsInv'
    BY <1>1 DEF EventsInv
  <2>. QED
    BY <2>1, <2>2
<1>2. CASE UNCHANGED vars
  BY <1>1, <1>2 DEF vars
<1>3. CASE NextDay
  BY <1>1, <1>3 DEF NextDay, tree
<1>4. ASSUME NEW m \in Members, JoinManual(m)
      PROVE  ClosureInv' /\ EventsInv'
  <2>1. PICK s \in Sponsors[m], up \in Present, side \in Legs, code \in Codes[m], lost \in {FALSE, (m \in Losers)} :
            Join(m, s, [up |-> up, side |-> side], code, lost)
    BY <1>4 DEF JoinManual
  <2>2. code \in Kinds
    BY EnginesAssumption DEF Kinds
  <2>3. PICK slot : slot = [up |-> up, side |-> side]
    OBVIOUS
  <2>4. Join(m, s, slot, code, lost) /\ slot.side \in Legs
    BY <2>1, <2>3
  <2>. QED
    BY <2>2, <2>4, TrackerJoin
<1>5. ASSUME NEW m \in Members, JoinAuto(m)
      PROVE  ClosureInv' /\ EventsInv'
  <2>1. PICK s \in Sponsors[m] \cap Present, code \in Codes[m], lost \in {FALSE, (m \in Losers)} :
            Join(m, s, Recommended(s), code, lost)
    BY <1>5 DEF JoinAuto
  <2>2. code \in Kinds
    BY EnginesAssumption DEF Kinds
  <2>3. PICK slot : slot = Recommended(s)
    OBVIOUS
  <2>4. slot.side \in Legs
    <3>1. Preferred(s) \in Legs
      BY DEF Preferred, Legs
    <3>. QED
      BY <2>3, <3>1 DEF Recommended
  <2>5. Join(m, s, slot, code, lost)
    BY <2>1, <2>3
  <2>. QED
    BY <2>2, <2>4, <2>5, TrackerJoin
<1>6. ASSUME NEW m \in Members, Upgrade(m)
      PROVE  ClosureInv' /\ EventsInv'
  BY <1>6, TrackerUpgrade
<1>7. ASSUME NEW m \in Members, PayOff(m)
      PROVE  ClosureInv' /\ EventsInv'
  BY <1>7, TrackerPayOff
<1>8. ASSUME NEW m \in Members, Buy(m)
      PROVE  ClosureInv' /\ EventsInv'
  BY <1>1, <1>8 DEF Buy, tree
<1>9. ASSUME NEW m \in Members, Settle(m) \/ Forgive(m)
      PROVE  ClosureInv' /\ EventsInv'
  BY <1>1, <1>9 DEF Settle, Forgive, tree
<1>10. ASSUME NEW o \in Owners, SyncRead(o)
       PROVE  ClosureInv' /\ EventsInv'
  <2>1. o \in Members
    BY EnginesAssumption
  <2>. QED
    BY <1>10, <2>1, TrackerRead
<1>11. ASSUME NEW o \in Owners, SyncWrite(o)
       PROVE  ClosureInv' /\ EventsInv'
  BY <1>1, <1>11 DEF SyncWrite, tree
<1>. QED
  BY <1>2, <1>3, <1>4, <1>5, <1>6, <1>7, <1>8, <1>9, <1>10, <1>11 DEF Next
-----------------------------------------------------------------------------
\* The events of a leg, in o's page, are the points of the leg's members.
LEMMA LegsAreBooked ==
    ASSUME NetworkInv, ClosureInv, EventsInv, NEW o \in In(user), NEW es, es = Backfilled(o),
           NEW side \in Legs, NEW L, L = LegEvents(es, o, side)
    PROVE  /\ IsChain(es, L)
           /\ Length(es, L) = Total(user, upgrades, Counted(user, upgrades), o, side)
<1>1. PICK M : M = InLeg(user, Counted(user, upgrades), o, side)
  OBVIOUS
<1>2. o \in Members /\ Tables(user, upgrades) /\ Forest(user)
  BY DEF In, NetworkInv, Tables
<1>3. Booked(user, upgrades, es)
  BY <1>2, BackfilledIs
<1>4. es \in Seq(EventRow)
  BY <1>3 DEF Booked
<1>5. \A m \in In(user) : closure[o][m] = side <=> LegTree(user, o)[m] = side
  <2>1. ASSUME NEW m \in In(user)
        PROVE  closure[o][m] = side <=> LegTree(user, o)[m] = side
    <3>1. m \in Members /\ side # "none" /\ side # "self"
      BY DEF In, Legs
    <3>2. closure[o][m] = IF m = o THEN "self" ELSE LegTree(user, o)[m]
      BY <1>2 DEF ClosureInv
    <3>3. CASE m = o
      <4>1. ~(o < o)
        BY <1>2, MembersFacts
      <4>2. LegTree(user, o)[m] = "none"
        BY <1>2, <3>1, <3>3, <4>1, LegsBelow
      <4>. QED
        BY <3>1, <3>2, <3>3, <4>2
    <3>4. CASE m # o
      BY <3>2, <3>4
    <3>. QED
      BY <3>3, <3>4
  <2>. QED
    BY <2>1
<1>6. \A m : m \in M <=> m \in Sources /\ closure[o][m] = side
  <2>1. Sources = Counted(user, upgrades) /\ Counted(user, upgrades) \subseteq In(user)
    BY PresentIs DEF Counted
  <2>. QED
    BY <1>1, <1>5, <2>1 DEF InLeg
<1>7. L = {i \in DOMAIN es : es[i].src \in M}
  BY <1>6 DEF LegEvents
<1>8. IsChain(es, L)
  <2>1. L \subseteq DOMAIN es
    BY <1>7
  <2>. QED
    BY <1>4, <2>1, EventsChain
<1>9. M \subseteq In(user) /\ IsFiniteSet(M)
  <2>1. M \subseteq In(user) /\ M \subseteq Members
    BY <1>1 DEF InLeg, Counted, In
  <2>2. IsFiniteSet(Members)
    BY MembersFacts
  <2>. QED
    BY <2>1, <2>2, FS_Subset
<1>10. ASSUME NEW m \in M
       PROVE  Length(es, EventsFrom(es, m)) = Weight(user, upgrades, m)
  <2>1. m \in In(user) /\ m \in Members /\ m \in Sources /\ closure[o][m] \in Legs
    BY <1>6, <1>9 DEF In
  <2>2. m # Root
    <3>1. o \in Nat /\ Root \in Nat /\ Root <= o
      BY <1>2, MembersFacts
    <3>2. LegTree(user, o)[m] # "none"
      BY <1>5, <1>6, <2>1 DEF Legs
    <3>3. o < m
      BY <1>2, <2>1, <3>2, LegsBelow
    <3>. QED
      BY <3>1, <3>3
  <2>3. m \in Present
    BY <2>1, PresentIs
  <2>4. HasRegistration(events, m) \/ m \in Missing(o)
    BY <2>1, <2>3 DEF Missing, Below
  <2>5. HasRegistration(es, m)
    BY <1>2, <2>4, BackfilledIs
  <2>. QED
    BY <1>3, <2>1, <2>2, <2>5 DEF Booked
<1>11. PICK f : f = [i \in L |-> es[i].points]
  OBVIOUS
<1>12. PICK k : k = [i \in L |-> es[i].src]
  OBVIOUS
<1>13. \A i \in L : f[i] \in Int /\ k[i] \in M
  BY <1>7, <1>8, <1>11, <1>12 DEF IsChain
<1>14. PICK c : c = Classes(f, L, k, M)
  OBVIOUS
<1>15. IsFiniteSet(L)
  BY <1>8 DEF IsChain
<1>16. SumFunctionOnSet(c, M) = SumFunctionOnSet(f, L)
  <2>1. SumFunctionOnSet(Classes(f, L, k, M), M) = SumFunctionOnSet(f, L)
    BY <1>9, <1>13, <1>15, SumClasses
  <2>. QED
    BY <1>14, <2>1
<1>17. PICK w : w = [m \in M |-> Weight(user, upgrades, m)]
  OBVIOUS
<1>18. \A m \in M : c[m] = w[m]
  <2>1. ASSUME NEW m \in M
        PROVE  c[m] = w[m]
    <3>1. PICK S : S = EventsFrom(es, m)
      OBVIOUS
    <3>2. S = Class(L, k, m) /\ S \subseteq L
      BY <1>7, <1>12, <3>1 DEF Class, EventsFrom
    <3>3. PICK g : g = [i \in S |-> es[i].points]
      OBVIOUS
    <3>4. \A i \in S : f[i] = g[i]
      BY <1>11, <3>2, <3>3
    <3>5. IsFiniteSet(S)
      BY <1>15, <3>2, FS_Subset
    <3>6. SumFunctionOnSet(f, S) = SumFunctionOnSet(g, S)
      BY <3>4, <3>5, SumSame
    <3>7. Length(es, S) = SumFunctionOnSet(g, S)
      BY <3>3 DEF Length
    <3>8. c[m] = SumFunctionOnSet(f, S)
      BY <1>14, <3>2 DEF Classes
    <3>. QED
      BY <1>10, <1>17, <3>1, <3>6, <3>7, <3>8
  <2>. QED
    BY <2>1
<1>19. SumFunctionOnSet(c, M) = SumFunctionOnSet(w, M)
  BY <1>9, <1>18, SumSame
<1>20. Total(user, upgrades, Counted(user, upgrades), o, side) = SumFunctionOnSet(w, M)
  BY <1>1, <1>17 DEF Total
<1>21. Length(es, L) = SumFunctionOnSet(f, L)
  BY <1>11 DEF Length
<1>. QED
  BY <1>8, <1>16, <1>19, <1>20, <1>21

\* The tracker's matches and the wallet's are the same points.
LEMMA PairsMatch ==
    ASSUME NetworkInv, ClosureInv, EventsInv
    PROVE  PairsAgree
<1>1. ASSUME NEW o \in Owners \cap Present
      PROVE  Sum(Rows(Backfilled(o), o, FALSE), LAMBDA r : r.gross) = Sum(Days, LAMBDA d : Gross(o)[d])
  <2>1. o \in In(user)
    BY PresentIs
  <2>2. PICK es : es = Backfilled(o)
    OBVIOUS
  <2>3. PICK L : L = LegEvents(es, o, "left")
    OBVIOUS
  <2>4. PICK R : R = LegEvents(es, o, "right")
    OBVIOUS
  <2>5. "left" \in Legs /\ "right" \in Legs
    BY DEF Legs
  <2>6. /\ IsChain(es, L) /\ IsChain(es, R)
        /\ Length(es, L) = Total(user, upgrades, Counted(user, upgrades), o, "left")
        /\ Length(es, R) = Total(user, upgrades, Counted(user, upgrades), o, "right")
    BY <2>1, <2>2, <2>3, <2>4, <2>5, LegsAreBooked
  <2>7. Sum(Rows(es, o, FALSE), LAMBDA r : r.gross) = Least(Length(es, L), Length(es, R))
    BY <2>3, <2>4, <2>6, RowsGross
  <2>8. PICK g : g = Gross(o)
    OBVIOUS
  <2>9. Tables(user, upgrades)
    BY DEF NetworkInv
  <2>10. /\ g \in [Days -> Nat]
         /\ SumFunctionOnSet(g, Days) = Least(Total(user, upgrades, Counted(user, upgrades), o, "left"),
                                              Total(user, upgrades, Counted(user, upgrades), o, "right"))
    BY <2>8, <2>9, GrossSum
  <2>11. [d \in Days |-> g[d]] = g
    BY <2>10
  <2>12. Sum(Days, LAMBDA d : Gross(o)[d]) = SumFunctionOnSet(g, Days)
    BY <2>8, <2>11 DEF Sum
  <2>13. Sum(Rows(Backfilled(o), o, FALSE), LAMBDA r : r.gross) = Least(Length(es, L), Length(es, R))
    BY <2>2, <2>7
  <2>. QED
    BY <2>6, <2>10, <2>12, <2>13
<1>. QED
  BY <1>1 DEF PairsAgree

\* The tracker matches what the wallet's engine matches, provided that no member
\* whose registration event was lost upgrades: a backfill before the upgrade
\* would be right, one after it enters the upgrade a second time, under another
\* key.  (syncPairingLedger, getPairing)
THEOREM PairsAreAgreed == Losers \cap Upgraders = {} => (Spec => []PairsAgree)
<1>. SUFFICES ASSUME Losers \cap Upgraders = {}
              PROVE  Spec => []PairsAgree
  OBVIOUS
<1>1. Init => NetworkInv /\ PaidInv /\ ClosureInv /\ EventsInv
  BY PaidInit, TrackerInit
<1>2. NetworkInv /\ PaidInv /\ ClosureInv /\ EventsInv /\ [Next]_vars
      => NetworkInv' /\ PaidInv' /\ ClosureInv' /\ EventsInv'
  BY PaidStep, TrackerStep
<1>3. NetworkInv /\ ClosureInv /\ EventsInv => PairsAgree
  BY PairsMatch
<1>. QED
  BY <1>1, <1>2, <1>3, PTL DEF Spec
-----------------------------------------------------------------------------
\* Types, also when an event is lost and its member upgrades.

EventKeys == Keys \cup ({"upgrade"} \X Members \X Nat)
EventBy(P) == [src : P, kind : {"registration", "package_upgrade"}, key : EventKeys, points : Nat, day : Days]
AccountTyped(row) ==
    /\ row.current >= row.type
    /\ (row.cd = "none") = (row.code # "CD")

EnginesTypes ==
    /\ \A m \in Members : AccountTyped(user[m])
    /\ events \in Seq(EventBy(In(user)))

\* An insert adds an event at most.
LEMMA InsertTyped ==
    ASSUME NEW T, NEW es \in Seq(T), NEW e \in T
    PROVE  Insert(es, e) \in Seq(T)
BY DEF Insert

\* More members may have events.
LEMMA EventsWiden ==
    ASSUME NEW P, NEW Q, P \subseteq Q, NEW es \in Seq(EventBy(P))
    PROVE  es \in Seq(EventBy(Q))
<1>1. EventBy(P) \subseteq EventBy(Q)
  BY DEF EventBy
<1>2. PICK T : T = EventBy(P)
  OBVIOUS
<1>3. PICK U : U = EventBy(Q)
  OBVIOUS
<1>4. es \in Seq(T) /\ T \subseteq U
  BY <1>1, <1>2, <1>3
<1>5. es \in Seq(U)
  BY <1>4
<1>. QED
  BY <1>3, <1>5

UpgradeEntered(m, i) ==
    Event(m, "package_upgrade", <<"upgrade", m, i>>, upgrades[m][i].points, upgrades[m][i].day)

\* What a backfill enters of a member.
LEMMA EntryTyped ==
    ASSUME NetworkInv, NEW m \in In(user)
    PROVE  /\ Registration(m) \in EventBy(In(user))
           /\ \A i \in DOMAIN upgrades[m] : UpgradeEntered(m, i) \in EventBy(In(user))
<1>1. m \in Members /\ Tables(user, upgrades)
  BY DEF NetworkInv, In
<1>2. Registration(m) \in EventBy(In(user))
  <2>1. Points[user[m].type] \in Nat /\ user[m].day \in Days
    BY <1>1, WeightNat DEF Tables, Forest, UserRow
  <2>2. <<"registration", m>> \in EventKeys
    BY <1>1 DEF EventKeys, Keys
  <2>. QED
    BY <2>1, <2>2 DEF EventBy, Event, Registration
<1>3. ASSUME NEW i \in DOMAIN upgrades[m]
      PROVE  UpgradeEntered(m, i) \in EventBy(In(user))
  <2>1. upgrades[m][i].points \in Nat /\ upgrades[m][i].day \in Days /\ upgrades[m] \in Seq(UpgradeRow)
    BY <1>1, WeightNat
  <2>2. i \in Nat
    BY <2>1
  <2>3. <<"upgrade", m, i>> \in EventKeys
    BY <1>1, <2>2 DEF EventKeys
  <2>. QED
    BY <2>1, <2>3 DEF EventBy, Event, UpgradeEntered
<1>. QED
  BY <1>2, <1>3

\* Entering a member keeps the type.
LEMMA EnteredTyped ==
    ASSUME NetworkInv, NEW m \in In(user), NEW es \in Seq(EventBy(In(user)))
    PROVE  Entered(es, m) \in Seq(EventBy(In(user)))
<1>. DEFINE S == 0 .. Len(upgrades[m])
            Is(f) == f = [i \in S |->
                IF i = 0 THEN Insert(es, Registration(m))
                ELSE LET u == upgrades[m][i]
                     IN  Insert(f[i - 1], Event(m, "package_upgrade", <<"upgrade", m, i>>, u.points, u.day))]
<1>1. PICK at : at = CHOOSE f : Is(f)
  OBVIOUS
<1>2. Entered(es, m) = at[Len(upgrades[m])]
  BY <1>1 DEF Entered
<1>3. \A f : Is(f) <=> f = [i \in S |-> IF i = 0 THEN Insert(es, Registration(m))
                                        ELSE Insert(f[i - 1], UpgradeEntered(m, i))]
  BY DEF UpgradeEntered
<1>. HIDE DEF Is
<1>4. upgrades[m] \in Seq(UpgradeRow) /\ Len(upgrades[m]) \in Nat
  <2>1. m \in Members /\ upgrades \in [Members -> Seq(UpgradeRow)]
    BY DEF NetworkInv, Tables, In
  <2>. QED
    BY <2>1
<1>5. PICK V : V = Seq(EventBy(In(user)))
  OBVIOUS
<1>6. PICK n \in Nat : n = Len(upgrades[m])
  BY <1>4
<1>7. IsFiniteSet(S) /\ S \subseteq Nat /\ S = 0 .. n
  <2>1. S = 0 .. n
    BY <1>6
  <2>2. IsFiniteSet(0 .. n)
    BY FS_Interval
  <2>. QED
    BY <2>1, <2>2
<1>8. es \in V /\ Insert(es, Registration(m)) \in V
  <2>1. Registration(m) \in EventBy(In(user))
    BY EntryTyped
  <2>. QED
    BY <1>5, <2>1, InsertTyped
<1>9. ASSUME NEW i \in S, i # 0, NEW fs \in V
      PROVE  Insert(fs, UpgradeEntered(m, i)) \in V
  <2>1. i \in DOMAIN upgrades[m]
    BY <1>4, <1>6, <1>7, <1>9
  <2>2. UpgradeEntered(m, i) \in EventBy(In(user))
    BY <2>1, EntryTyped
  <2>. QED
    BY <1>5, <1>9, <2>2, InsertTyped
<1>10. \A i \in S : i # 0 => i - 1 \in S /\ i - 1 < i
  BY <1>7
<1>. HIDE DEF S
<1>. DEFINE G == [p \in [S -> V] \X S |->
                    IF p[2] = 0 THEN Insert(es, Registration(m))
                    ELSE Insert(p[1][p[2] - 1], UpgradeEntered(m, p[2]))]
<1>11. \A f \in [S -> V], i \in S :
          G[<<f, i>>] = IF i = 0 THEN Insert(es, Registration(m)) ELSE Insert(f[i - 1], UpgradeEntered(m, i))
  OBVIOUS
<1>12. G \in [[S -> V] \X S -> V]
  <2>1. ASSUME NEW p \in [S -> V] \X S
        PROVE  (IF p[2] = 0 THEN Insert(es, Registration(m))
                ELSE Insert(p[1][p[2] - 1], UpgradeEntered(m, p[2]))) \in V
    <3>1. PICK f \in [S -> V] : f = p[1]
      OBVIOUS
    <3>2. PICK i \in S : i = p[2]
      OBVIOUS
    <3>3. i # 0 => f[i - 1] \in V
      BY <1>10, <3>1
    <3>4. i # 0 => Insert(f[i - 1], UpgradeEntered(m, i)) \in V
      BY <1>9, <3>3
    <3>. QED
      BY <1>8, <3>1, <3>2, <3>4
  <2>. QED
    BY <2>1
<1>. HIDE DEF G
<1>13. Recursive(G, S, V)
  <2>1. ASSUME NEW f \in [S -> V], NEW g \in [S -> V], NEW i \in S, \A x \in S : x < i => f[x] = g[x]
        PROVE  G[<<f, i>>] = G[<<g, i>>]
    <3>1. i # 0 => f[i - 1] = g[i - 1]
      BY <1>10, <2>1
    <3>. QED
      BY <1>11, <3>1
  <2>. QED
    BY <1>12, <2>1 DEF Recursive
<1>14. PICK F \in [S -> V] : Solves(F, G, S)
  BY <1>7, <1>8, <1>13, Recursion
<1>15. Is(F)
  <2>1. \A i \in S : F[i] = IF i = 0 THEN Insert(es, Registration(m)) ELSE Insert(F[i - 1], UpgradeEntered(m, i))
    BY <1>11, <1>14 DEF Solves
  <2>. QED
    BY <1>3, <2>1
<1>16. Is(at)
  BY <1>1, <1>15
<1>17. \A i \in S : at[i] = IF i = 0 THEN Insert(es, Registration(m)) ELSE Insert(at[i - 1], UpgradeEntered(m, i))
  BY <1>3, <1>16
<1>18. \A i \in S : at[i] \in V
  <2>1. PICK T : T = {i \in S : at[i] \notin V}
    OBVIOUS
  <2>2. ASSUME T # {}
        PROVE  FALSE
    <3>1. IsFiniteSet(T) /\ T \subseteq Nat
      BY <1>7, <2>1, FS_Subset
    <3>2. PICK i \in T : \A x \in T : i <= x
      BY <2>2, <3>1, Smallest
    <3>3. i \in S /\ at[i] \notin V /\ i \in Nat
      BY <1>7, <2>1, <3>2
    <3>4. i # 0
      BY <1>8, <1>17, <3>3
    <3>5. i - 1 \notin T
      BY <3>2, <3>3
    <3>6. at[i - 1] \in V
      BY <1>10, <2>1, <3>3, <3>4, <3>5
    <3>7. at[i] = Insert(at[i - 1], UpgradeEntered(m, i))
      BY <1>17, <3>3, <3>4
    <3>. QED
      BY <1>9, <3>3, <3>4, <3>6, <3>7
  <2>. QED
    BY <2>1, <2>2
<1>19. n \in S
  BY <1>7
<1>. QED
  BY <1>2, <1>5, <1>6, <1>18, <1>19

\* A backfill keeps the type.
LEMMA BackfillTyped ==
    ASSUME NetworkInv, EnginesTypes, NEW o \in Members
    PROVE  Backfilled(o) \in Seq(EventBy(In(user)))
<1>1. PICK V : V = Seq(EventBy(In(user)))
  OBVIOUS
<1>2. events \in V
  BY <1>1 DEF EnginesTypes
<1>3. \A m \in Missing(o) : m \in In(user)
  BY PresentIs DEF Missing, Below
<1>4. \A es \in V, m \in Missing(o) : Entered(es, m) \in V
  BY <1>1, <1>3, EnteredTyped
<1>5. PICK at \in [Members -> V] : Backfilled(o) = at[Max(Members)]
  BY <1>2, <1>4, BackfillFolds
<1>6. Max(Members) \in Members
  BY MembersFacts, MaxOf
<1>. QED
  BY <1>1, <1>5, <1>6

\* A registration.
LEMMA TypesJoin ==
    ASSUME NetworkInv, EnginesTypes, NEW m \in Members, NEW s, NEW slot, slot.side \in Legs,
           NEW code \in Kinds, NEW lost, Join(m, s, slot, code, lost)
    PROVE  EnginesTypes'
<1>1. NetworkInv' /\ Grown(user, user')
  BY NetworkJoin
<1>2. PICK row : row = [up |-> slot.up, side |-> slot.side, sponsor |-> s, day |-> day, type |-> Package[m],
                        current |-> Package[m], code |-> code, cd |-> Debt(code)]
  OBVIOUS
<1>3. /\ user' = [user EXCEPT ![m] = row]
      /\ events' = IF lost THEN events
                   ELSE Insert(events, Event(m, "registration", <<"registration", m>>, Points[Package[m]], day))
  BY <1>2 DEF Join
<1>4. user \in [Members -> UserRow]
  BY DEF NetworkInv, Tables, Forest
<1>5. PICK v : v = user'
  OBVIOUS
<1>6. v[m] = row /\ \A x \in Members : x # m => v[x] = user[x]
  BY <1>3, <1>4, <1>5
<1>7. Package[m] \in Types /\ Points[Package[m]] \in Nat /\ Package[m] \in Nat /\ day \in Days
  BY EnginesAssumption DEF NetworkInv
<1>8. AccountTyped(row)
  <2>1. (Debt(code) = "none") = (code # "CD")
    BY DEF Debt
  <2>. QED
    BY <1>2, <1>7, <2>1 DEF AccountTyped
<1>9. \A x \in Members : AccountTyped(v[x])
  BY <1>6, <1>8 DEF EnginesTypes
<1>10. m \in In(v)
  <2>1. row # Absent
    <3>1. row.code # Absent.code
      BY <1>2 DEF Kinds, Absent
    <3>. QED
      BY <3>1
  <2>. QED
    BY <1>6, <2>1 DEF In
<1>11. events \in Seq(EventBy(In(v)))
  <2>1. In(user) \subseteq In(v)
    BY <1>1, <1>5 DEF Grown
  <2>. QED
    BY <2>1, EventsWiden DEF EnginesTypes
<1>12. PICK e : e = Event(m, "registration", <<"registration", m>>, Points[Package[m]], day)
  OBVIOUS
<1>13. e \in EventBy(In(v))
  <2>1. <<"registration", m>> \in EventKeys
    BY DEF EventKeys, Keys
  <2>. QED
    BY <1>7, <1>10, <1>12, <2>1 DEF EventBy, Event
<1>14. events' \in Seq(EventBy(In(v)))
  <2>1. Insert(events, e) \in Seq(EventBy(In(v)))
    BY <1>11, <1>13, InsertTyped
  <2>. QED
    BY <1>3, <1>11, <1>12, <2>1
<1>. QED
  BY <1>5, <1>9, <1>14 DEF EnginesTypes

\* An upgrade.
LEMMA TypesUpgrade ==
    ASSUME NetworkInv, EnginesTypes, NEW m \in Members, Upgrade(m)
    PROVE  EnginesTypes'
<1>1. NetworkInv' /\ Grown(user, user')
  BY NetworkUpgrade
<1>2. PICK type \in Types, code \in UpgradeCodes :
          /\ m \in In(user) \cap Upgraders /\ type > user[m].current
          /\ user' = [user EXCEPT ![m].current = type, ![m].code = code, ![m].cd = Debt(code)]
          /\ upgrades' = [upgrades EXCEPT ![m] = Append(@, [points |-> Points[type], day |-> day, code |-> code])]
          /\ events' = Insert(events, Event(m, "package_upgrade", <<"upgrade-code", m, type>>, Points[type], day))
  BY PresentIs DEF Upgrade
<1>3. user \in [Members -> UserRow]
  BY DEF NetworkInv, Tables, Forest
<1>4. PICK v : v = user'
  OBVIOUS
<1>5. user[m] \in UserRow
  BY <1>3
<1>6. v[m] = [user[m] EXCEPT !.current = type, !.code = code, !.cd = Debt(code)]
      /\ \A x \in Members : x # m => v[x] = user[x]
  BY <1>2, <1>3, <1>4
<1>7. v[m].current = type /\ v[m].type = user[m].type /\ v[m].code = code /\ v[m].cd = Debt(code)
  BY <1>5, <1>6 DEF UserRow
<1>8. type \in Nat /\ user[m].current \in Nat /\ user[m].type \in Nat /\ Points[type] \in Nat /\ day \in Days
  <2>1. Types \subseteq Nat /\ Points \in [Types -> Nat]
    BY EnginesAssumption
  <2>2. user[m].current \in Types \cup {0} /\ user[m].type \in Types \cup {0}
    BY <1>5 DEF UserRow
  <2>. QED
    BY <2>1, <2>2 DEF NetworkInv
<1>9. AccountTyped(v[m])
  <2>1. (Debt(code) = "none") = (code # "CD")
    BY DEF Debt
  <2>2. user[m].current >= user[m].type
    BY DEF EnginesTypes, AccountTyped
  <2>3. type >= user[m].type
    BY <1>2, <1>8, <2>2
  <2>. QED
    BY <1>7, <2>1, <2>3 DEF AccountTyped
<1>10. \A x \in Members : AccountTyped(v[x])
  BY <1>6, <1>9 DEF EnginesTypes
<1>11. m \in In(v) /\ In(user) \subseteq In(v)
  BY <1>1, <1>2, <1>4 DEF Grown
<1>12. events \in Seq(EventBy(In(v)))
  BY <1>11, EventsWiden DEF EnginesTypes
<1>13. PICK e : e = Event(m, "package_upgrade", <<"upgrade-code", m, type>>, Points[type], day)
  OBVIOUS
<1>14. e \in EventBy(In(v))
  <2>1. <<"upgrade-code", m, type>> \in EventKeys
    BY DEF EventKeys, Keys
  <2>. QED
    BY <1>8, <1>11, <1>13, <2>1 DEF EventBy, Event
<1>15. events' \in Seq(EventBy(In(v)))
  BY <1>2, <1>12, <1>13, <1>14, InsertTyped
<1>. QED
  BY <1>4, <1>10, <1>15 DEF EnginesTypes

\* The last deduction of a debt.
LEMMA TypesPayOff ==
    ASSUME NetworkInv, EnginesTypes, NEW m \in Members, PayOff(m)
    PROVE  EnginesTypes'
<1>1. NetworkInv' /\ Grown(user, user')
  BY NetworkPayOff
<1>2. user' = [user EXCEPT ![m].cd = "paid"] /\ user[m].cd = "owing" /\ events' = events
  BY DEF PayOff
<1>3. user \in [Members -> UserRow]
  BY DEF NetworkInv, Tables, Forest
<1>4. PICK v : v = user'
  OBVIOUS
<1>5. user[m] \in UserRow
  BY <1>3
<1>6. v[m] = [user[m] EXCEPT !.cd = "paid"] /\ \A x \in Members : x # m => v[x] = user[x]
  BY <1>2, <1>3, <1>4
<1>7. /\ v[m].current = user[m].current /\ v[m].type = user[m].type /\ v[m].code = user[m].code
      /\ v[m].cd = "paid"
  BY <1>5, <1>6 DEF UserRow
<1>8. AccountTyped(user[m])
  BY DEF EnginesTypes
<1>9. AccountTyped(v[m])
  BY <1>2, <1>7, <1>8 DEF AccountTyped
<1>10. \A x \in Members : AccountTyped(v[x])
  BY <1>6, <1>9 DEF EnginesTypes
<1>11. events \in Seq(EventBy(In(v)))
  <2>1. In(user) \subseteq In(v)
    BY <1>1, <1>4 DEF Grown
  <2>. QED
    BY <2>1, EventsWiden DEF EnginesTypes
<1>. QED
  BY <1>2, <1>4, <1>10, <1>11 DEF EnginesTypes

\* Every step.
LEMMA TypesStep ==
    ASSUME NetworkInv, EnginesTypes, [Next]_vars
    PROVE  EnginesTypes'
<1>1. ASSUME UNCHANGED <<user, events>>
      PROVE  EnginesTypes'
  BY <1>1 DEF EnginesTypes
<1>2. CASE UNCHANGED vars
  BY <1>1, <1>2 DEF vars
<1>3. CASE NextDay
  BY <1>1, <1>3 DEF NextDay, tree
<1>4. ASSUME NEW m \in Members, JoinManual(m)
      PROVE  EnginesTypes'
  <2>1. PICK s \in Sponsors[m], up \in Present, side \in Legs, code \in Codes[m], lost \in {FALSE, (m \in Losers)} :
            Join(m, s, [up |-> up, side |-> side], code, lost)
    BY <1>4 DEF JoinManual
  <2>2. code \in Kinds
    BY EnginesAssumption DEF Kinds
  <2>3. PICK slot : slot = [up |-> up, side |-> side]
    OBVIOUS
  <2>4. Join(m, s, slot, code, lost) /\ slot.side \in Legs
    BY <2>1, <2>3
  <2>. QED
    BY <2>2, <2>4, TypesJoin
<1>5. ASSUME NEW m \in Members, JoinAuto(m)
      PROVE  EnginesTypes'
  <2>1. PICK s \in Sponsors[m] \cap Present, code \in Codes[m], lost \in {FALSE, (m \in Losers)} :
            Join(m, s, Recommended(s), code, lost)
    BY <1>5 DEF JoinAuto
  <2>2. code \in Kinds
    BY EnginesAssumption DEF Kinds
  <2>3. PICK slot : slot = Recommended(s)
    OBVIOUS
  <2>4. slot.side \in Legs
    <3>1. Preferred(s) \in Legs
      BY DEF Preferred, Legs
    <3>. QED
      BY <2>3, <3>1 DEF Recommended
  <2>5. Join(m, s, slot, code, lost)
    BY <2>1, <2>3
  <2>. QED
    BY <2>2, <2>4, <2>5, TypesJoin
<1>6. ASSUME NEW m \in Members, Upgrade(m)
      PROVE  EnginesTypes'
  BY <1>6, TypesUpgrade
<1>7. ASSUME NEW m \in Members, PayOff(m)
      PROVE  EnginesTypes'
  BY <1>7, TypesPayOff
<1>8. ASSUME NEW m \in Members, Buy(m)
      PROVE  EnginesTypes'
  BY <1>1, <1>8 DEF Buy, tree
<1>9. ASSUME NEW m \in Members, Settle(m) \/ Forgive(m)
      PROVE  EnginesTypes'
  BY <1>1, <1>9 DEF Settle, Forgive, tree
<1>10. ASSUME NEW o \in Owners, SyncRead(o)
       PROVE  EnginesTypes'
  <2>1. o \in Members
    BY EnginesAssumption
  <2>2. events' = Backfilled(o) /\ UNCHANGED user
    BY <1>10 DEF SyncRead, tree
  <2>3. Backfilled(o) \in Seq(EventBy(In(user)))
    BY <2>1, BackfillTyped
  <2>. QED
    BY <2>2, <2>3 DEF EnginesTypes
<1>11. ASSUME NEW o \in Owners, SyncWrite(o)
       PROVE  EnginesTypes'
  BY <1>1, <1>11 DEF SyncWrite, tree
<1>. QED
  BY <1>2, <1>3, <1>4, <1>5, <1>6, <1>7, <1>8, <1>9, <1>10, <1>11 DEF Next

\* At first only the root is there.
LEMMA TypesInit ==
    ASSUME Init
    PROVE  EnginesTypes
<1>1. PICK u : u = user
  OBVIOUS
<1>2. /\ \A m \in Members : m # Root => u[m] = Absent
      /\ u[Root] = [Absent EXCEPT !.type = Package[Root], !.current = Package[Root], !.code = "PD"]
  BY <1>1, MembersFacts DEF Init
<1>3. Package[Root] \in Nat
  BY EnginesAssumption
<1>4. AccountTyped(u[Root]) /\ AccountTyped(Absent)
  <2>1. u[Root].type = Package[Root] /\ u[Root].current = Package[Root] /\ u[Root].code = "PD" /\ u[Root].cd = "none"
    BY <1>2 DEF Absent
  <2>2. Absent.type = 0 /\ Absent.current = 0 /\ Absent.code = "none" /\ Absent.cd = "none"
    BY DEF Absent
  <2>. QED
    BY <1>3, <2>1, <2>2 DEF AccountTyped
<1>5. events = <<>>
  BY DEF Init
<1>6. events \in Seq(EventBy(In(user)))
  BY <1>5
<1>. QED
  BY <1>1, <1>2, <1>4, <1>6 DEF EnginesTypes

\* Types of the engines' tables: an account never falls below the package it
\* came with, owes exactly if its code is a CD, and whoever has an event is a
\* member.
THEOREM EnginesTyped == Spec => []TypeOK
<1>1. Init => NetworkInv /\ PaidInv /\ EnginesTypes
  BY PaidInit, TypesInit
<1>2. NetworkInv /\ PaidInv /\ EnginesTypes /\ [Next]_vars => NetworkInv' /\ PaidInv' /\ EnginesTypes'
  BY PaidStep, TypesStep
<1>3. NetworkInv /\ EnginesTypes => TypeOK
  <2>. SUFFICES ASSUME NetworkInv, EnginesTypes
                PROVE  TypeOK
    OBVIOUS
  <2>1. ASSUME NEW m \in Members
        PROVE  /\ user[m].current >= user[m].type
               /\ user[m].cd \in {"none", "owing", "paid"}
               /\ (user[m].cd = "none") = (user[m].code # "CD")
               /\ \A i \in DOMAIN upgrades[m] : upgrades[m][i].day \in Days
    <3>1. user[m] \in UserRow /\ upgrades[m] \in Seq(UpgradeRow)
      BY DEF NetworkInv, Tables, Forest
    <3>2. user[m].cd \in {"none", "owing", "paid"}
      BY <3>1 DEF UserRow
    <3>3. \A i \in DOMAIN upgrades[m] : upgrades[m][i] \in UpgradeRow
      BY <3>1
    <3>4. \A i \in DOMAIN upgrades[m] : upgrades[m][i].day \in Days
      BY <3>3 DEF UpgradeRow
    <3>5. AccountTyped(user[m])
      BY DEF EnginesTypes
    <3>. QED
      BY <3>2, <3>4, <3>5 DEF AccountTyped
  <2>2. \A i \in DOMAIN events : events[i].src \in Present
    <3>1. \A i \in DOMAIN events : events[i] \in EventBy(In(user))
      BY DEF EnginesTypes
    <3>. QED
      BY <3>1, PresentIs DEF EventBy
  <2>3. day \in Days
    BY DEF NetworkInv
  <2>. QED
    BY <2>1, <2>2, <2>3 DEF TypeOK
<1>. QED
  BY <1>1, <1>2, <1>3, PTL DEF Spec
-----------------------------------------------------------------------------
\* The wallet's assumptions, by name.
LEMMA PurseFacts ==
    /\ NoProc \notin Procs
    /\ Amounts \subseteq Nat \ {0}
    /\ Payout \in [Claims -> Nat]
    /\ LegacyHiFive \in Nat
    /\ MaxEntitled \in [Purse!Columns -> Nat]
    /\ MaxMonth \in Nat \ {0}
    /\ StatusReadMayFail \in BOOLEAN
BY PurseAssumption DEF Purse!WalletAssumption

\* The operators on incomes stay within the natural numbers.
LEMMA IncomeTypes ==
    /\ Purse!NoIncome \in [Purse!Columns -> Nat]
    /\ \A c \in Purse!Columns, a \in Nat : Purse!Only(c, a) \in [Purse!Columns -> Nat]
    /\ \A f \in [Purse!Columns -> Nat] : Purse!SumOf(f) \in Nat
    /\ \A a, b \in Nat : /\ Purse!Larger(a, b) \in Nat
                         /\ Purse!Smaller(a, b) \in Nat
                         /\ Purse!Unpaid(a, b) \in Nat
BY DEF Purse!NoIncome, Purse!Only, Purse!SumOf, Purse!Larger, Purse!Smaller, Purse!Unpaid, Purse!Columns, Purse!Engines

\* What RunEngines computes is a natural number in every column.
LEMMA NewIncomeType ==
    ASSUME Purse!TypeOK, NEW p \in Procs
    PROVE  Purse!NewIncome(p) \in [Purse!Columns -> Nat]
<1>1. Purse!UnilevelDue \in Nat
  BY DEF Purse!TypeOK, Purse!UnilevelDue, Purse!Columns
<1>2. ASSUME NEW c \in Purse!Engines
      PROVE  Purse!Unpaid(entitled[c], seen[p].stored[c]) \in Nat
  <2>1. c \in Purse!Columns
    BY DEF Purse!Columns
  <2>2. entitled[c] \in Nat
    BY <2>1 DEF Purse!TypeOK
  <2>3. seen[p].stored \in [Purse!Columns -> Nat]
    BY DEF Purse!TypeOK
  <2>4. seen[p].stored[c] \in Nat
    BY <2>1, <2>3
  <2>. QED
    BY <2>2, <2>4, IncomeTypes
<1>. QED
  BY <1>1, <1>2 DEF Purse!NewIncome, Purse!Columns

\* Summing two incomes column by column sums their totals.
LEMMA SumOfPlus ==
    ASSUME NEW f \in [Purse!Columns -> Nat], NEW g \in [Purse!Columns -> Nat]
    PROVE  Purse!SumOf([c \in Purse!Columns |-> f[c] + g[c]]) = Purse!SumOf(f) + Purse!SumOf(g)
BY DEF Purse!SumOf, Purse!Columns, Purse!Engines

\* The effect of Credit on the types and on the sums.
LEMMA CreditEffect ==
    ASSUME Purse!TypeOK, NEW p \in Procs, NEW income \in [Purse!Columns -> Nat],
           Purse!Credit(p, income)
    PROVE  /\ totals' \in [Purse!Columns -> Nat]
           /\ history' \in [income : [Purse!Columns -> Nat], encashed : Nat,
                            unilevelIn : [Purse!Months -> Nat]]
           /\ balance' \in Int
           /\ history'.income = [c \in Purse!Columns |-> history.income[c] + income[c]]
           /\ history'.encashed = history.encashed
           /\ \A m \in Purse!Months : history'.unilevelIn[m] = history.unilevelIn[m]
                  + IF m = month /\ income["unilevel"] > 0 THEN 1 ELSE 0
           /\ Purse!SumOf(history'.income) = Purse!SumOf(history.income) + Purse!SumOf(income)
<1>1. /\ history.income \in [Purse!Columns -> Nat]
      /\ history.encashed \in Nat
      /\ history.unilevelIn \in [Purse!Months -> Nat]
      /\ seen[p].start \in Int
      /\ totals \in [Purse!Columns -> Nat]
  BY DEF Purse!TypeOK
<1>2. history' = [income |-> [c \in Purse!Columns |-> history.income[c] + income[c]],
                  encashed |-> history.encashed,
                  unilevelIn |-> [m \in Purse!Months |-> history.unilevelIn[m]
                     + IF m = month /\ income["unilevel"] > 0 THEN 1 ELSE 0]]
  BY DEF Purse!Credit, Purse!TypeOK
<1>3. /\ history'.income = [c \in Purse!Columns |-> history.income[c] + income[c]]
      /\ history'.encashed = history.encashed
      /\ history'.unilevelIn = [m \in Purse!Months |-> history.unilevelIn[m]
             + IF m = month /\ income["unilevel"] > 0 THEN 1 ELSE 0]
  BY <1>2
<1>4. /\ totals' \in [Purse!Columns -> Nat]
      /\ history'.income \in [Purse!Columns -> Nat]
  BY <1>1, <1>3 DEF Purse!Credit
<1>5. history'.unilevelIn \in [Purse!Months -> Nat]
  BY <1>1, <1>3
<1>6. history' \in [income : [Purse!Columns -> Nat], encashed : Nat,
                     unilevelIn : [Purse!Months -> Nat]]
  BY <1>1, <1>2, <1>3, <1>4, <1>5
<1>7. balance' \in Int
  <2>1. Purse!SumOf(income) \in Nat
    BY IncomeTypes
  <2>2. balance' = seen[p].start + Purse!SumOf(income)
    BY DEF Purse!Credit
  <2>. QED
    BY <1>1, <2>1, <2>2
<1>8. Purse!SumOf(history'.income) = Purse!SumOf(history.income) + Purse!SumOf(income)
  BY <1>1, <1>3, SumOfPlus
<1>. QED
  BY <1>1, <1>3, <1>4, <1>6, <1>7, <1>8

\* What an approval credits: an income in the Hi-Five column alone.
LEMMA ApproveIncome ==
    ASSUME Purse!TypeOK, NEW p \in Procs, Purse!WriteApprove(p)
    PROVE  \E income \in [Purse!Columns -> Nat] : Purse!Credit(p, income)
<1>1. PICK cap \in {entitled["hifive"], totals["hifive"] + Payout[arg[p]]} :
         Purse!Credit(p, Purse!Only("hifive", Purse!Smaller(Payout[arg[p]], Purse!Unpaid(cap, totals["hifive"]))))
  BY DEF Purse!WriteApprove
<1>2. entitled["hifive"] \in Nat /\ totals["hifive"] \in Nat /\ "hifive" \in Purse!Columns
  BY DEF Purse!TypeOK, Purse!Columns
<1>3. Payout[arg[p]] \in Nat
  BY PurseFacts DEF Purse!WriteApprove, Purse!TypeOK
<1>4. cap \in Nat
  BY <1>1, <1>2, <1>3
<1>5. Purse!Unpaid(cap, totals["hifive"]) \in Nat
  BY <1>2, <1>4, IncomeTypes
<1>6. Purse!Smaller(Payout[arg[p]], Purse!Unpaid(cap, totals["hifive"])) \in Nat
  BY <1>3, <1>5, IncomeTypes
<1>7. Purse!Only("hifive", Purse!Smaller(Payout[arg[p]], Purse!Unpaid(cap, totals["hifive"])))
         \in [Purse!Columns -> Nat]
  BY <1>2, <1>6, IncomeTypes
<1>. QED
  BY <1>1, <1>7

\* Steps that end a request, or a transaction, keep the types.
LEMMA LocksTypes ==
    ASSUME Purse!TypeOK, NEW p \in Procs, Purse!DropRowLocks(p)
    PROVE  /\ rowLock' \in Procs \cup {NoProc}
           /\ claimLock' \in [Claims -> Procs \cup {NoProc}]
BY DEF Purse!TypeOK, Purse!DropRowLocks, Purse!Unlocked

\* A step that forgets keeps the types.
LEMMA ForgetTypes ==
    ASSUME Purse!TypeOK, NEW p \in Procs, NEW to, Purse!Forget(p, to),
           to \in {"idle", "hifive", "release"}
    PROVE  /\ pc' \in [Procs -> {"idle", "getlock", "read", "engines", "hifive",
                                 "lockrow", "write", "release"}]
           /\ job' \in [Procs -> Purse!Jobs]
           /\ arg' \in [Procs -> Amounts \cup Claims \cup {0}]
           /\ \A q \in Procs :
                 /\ job'[q] \in {"encash", "checkout", "cancel", "availment", "edit"}
                       => arg'[q] \in Amounts
                 /\ job'[q] = "approve" => arg'[q] \in Claims
           /\ seen' \in [Procs -> [stored : [Purse!Columns -> Nat], income : [Purse!Columns -> Nat],
                                   due : Nat, start : Int]]
<1>1. Purse!NothingSeen \in [stored : [Purse!Columns -> Nat], income : [Purse!Columns -> Nat],
                       due : Nat, start : Int]
  BY IncomeTypes DEF Purse!NothingSeen
<1>. QED
  BY <1>1 DEF Purse!TypeOK, Purse!Forget, Purse!Jobs

\* Type correctness: what every variable of the wallet may hold, for any
\* number of requests, claims, amounts and months.
THEOREM WalletTypes == Purse!Spec => []Purse!TypeOK
<1>1. Purse!Init => Purse!TypeOK
  <2>. SUFFICES ASSUME Purse!Init
                PROVE  Purse!TypeOK
    OBVIOUS
  <2>1. entitled \in [Purse!Columns -> Nat] /\ peak \in [Purse!Columns -> Nat]
    <3>1. "hifive" \in Purse!Columns
      BY DEF Purse!Columns
    <3>. QED
      BY <3>1, PurseFacts, IncomeTypes DEF Purse!Init
  <2>2. Purse!NothingSeen \in [stored : [Purse!Columns -> Nat], income : [Purse!Columns -> Nat],
                         due : Nat, start : Int]
    BY IncomeTypes DEF Purse!NothingSeen
  <2>3. month \in Purse!Months
    BY PurseFacts DEF Purse!Init, Purse!Months
  <2>4. Purse!NoIncome \in [Purse!Columns -> Nat]
    BY IncomeTypes
  <2>5. history \in [income : [Purse!Columns -> Nat], encashed : Nat,
                     unilevelIn : [Purse!Months -> Nat]]
    BY <2>4 DEF Purse!Init
  <2>. QED
    BY <2>1, <2>2, <2>3, <2>4, <2>5 DEF Purse!Init, Purse!TypeOK, Purse!Jobs
<1>2. Purse!TypeOK /\ [Purse!Next]_(Purse!vars) => Purse!TypeOK'
  <2>. SUFFICES ASSUME Purse!TypeOK, [Purse!Next]_(Purse!vars)
                PROVE  Purse!TypeOK'
    OBVIOUS
  <2>1. CASE UNCHANGED Purse!vars
    BY <2>1 DEF Purse!TypeOK, Purse!vars, Purse!db, Purse!env, Purse!lcks, Purse!req
  <2>2. ASSUME NEW p \in Procs, NEW j \in Purse!Jobs, NEW a, NEW to,
               Purse!Start(p, j, a, to), to \in {"getlock", "lockrow"},
               a \in Amounts \cup {0},
               j \in {"encash", "checkout", "cancel", "availment", "edit"}
                  => a \in Amounts,
               j # "approve"
        PROVE  Purse!TypeOK'
    BY <2>2 DEF Purse!TypeOK, Purse!Start, Purse!Goto, Purse!db, Purse!env, Purse!lcks
  <2>3. ASSUME NEW p \in Procs, Purse!StartCalc(p)
        PROVE  Purse!TypeOK'
    BY <2>2, <2>3 DEF Purse!StartCalc, Purse!Jobs
  <2>4. ASSUME NEW p \in Procs, Purse!StartEncash(p)
        PROVE  Purse!TypeOK'
    BY <2>2, <2>4 DEF Purse!StartEncash, Purse!Jobs
  <2>5. ASSUME NEW p \in Procs, Purse!StartVoucher(p)
        PROVE  Purse!TypeOK'
    BY <2>2, <2>5 DEF Purse!StartVoucher, Purse!Jobs
  <2>6. ASSUME NEW p \in Procs, Purse!StartApprove(p)
        PROVE  Purse!TypeOK'
    BY <2>6 DEF Purse!StartApprove, Purse!TypeOK, Purse!Goto, Purse!db, Purse!env, Purse!Jobs
  <2>7. ASSUME NEW p \in Procs, Purse!GetLock(p)
        PROVE  Purse!TypeOK'
    BY <2>7 DEF Purse!GetLock, Purse!TypeOK, Purse!Goto, Purse!db, Purse!env
  <2>8. ASSUME NEW p \in Procs, Purse!GetLockTimeout(p)
        PROVE  Purse!TypeOK'
    BY <2>8, ForgetTypes DEF Purse!GetLockTimeout, Purse!Finish, Purse!TypeOK, Purse!db, Purse!env, Purse!lcks
  <2>9. ASSUME NEW p \in Procs, Purse!ReadTotals(p)
        PROVE  Purse!TypeOK'
    BY <2>9 DEF Purse!ReadTotals, Purse!TypeOK, Purse!Goto, Purse!db, Purse!env, Purse!lcks
  <2>10. ASSUME NEW p \in Procs, Purse!RunEngines(p)
         PROVE  Purse!TypeOK'
    <3>1. [Purse!NothingSeen EXCEPT !.income = Purse!NewIncome(p)]
             \in [stored : [Purse!Columns -> Nat], income : [Purse!Columns -> Nat],
                  due : Nat, start : Int]
      <4>1. Purse!NewIncome(p) \in [Purse!Columns -> Nat] /\ Purse!NoIncome \in [Purse!Columns -> Nat]
        BY NewIncomeType, IncomeTypes
      <4>. QED
        BY <4>1 DEF Purse!NothingSeen
    <3>. QED
      BY <2>10, <3>1 DEF Purse!RunEngines, Purse!TypeOK, Purse!Goto, Purse!db, Purse!env, Purse!lcks
  <2>11. ASSUME NEW p \in Procs, Purse!ReadHiFive(p)
         PROVE  Purse!TypeOK'
    <3>1. entitled["hifive"] \in Nat
      BY DEF Purse!TypeOK, Purse!Columns
    <3>2. [Purse!NothingSeen EXCEPT !.due = entitled["hifive"]]
             \in [stored : [Purse!Columns -> Nat], income : [Purse!Columns -> Nat],
                  due : Nat, start : Int]
      BY <3>1, IncomeTypes DEF Purse!NothingSeen
    <3>. QED
      BY <2>11, <3>2 DEF Purse!ReadHiFive, Purse!TypeOK, Purse!Goto, Purse!db, Purse!env, Purse!lcks, Purse!Jobs
  <2>12. ASSUME NEW p \in Procs, Purse!LockRow(p)
         PROVE  Purse!TypeOK'
    <3>1. seen' \in [Procs -> [stored : [Purse!Columns -> Nat], income : [Purse!Columns -> Nat],
                              due : Nat, start : Int]]
      BY <2>12 DEF Purse!LockRow, Purse!TypeOK
    <3>. QED
      BY <2>12, <3>1 DEF Purse!LockRow, Purse!TypeOK, Purse!Goto, Purse!db, Purse!env
  <2>13. ASSUME NEW p \in Procs, Purse!WriteIncome(p)
         PROVE  Purse!TypeOK'
    <3>1. seen[p].income \in [Purse!Columns -> Nat]
      BY DEF Purse!TypeOK
    <3>2. Purse!Credit(p, seen[p].income) /\ Purse!DropRowLocks(p) /\ Purse!Forget(p, "hifive")
      BY <2>13 DEF Purse!WriteIncome
    <3>3. stamp' \in Nat
      BY <2>13, PurseFacts DEF Purse!WriteIncome, Purse!TypeOK, Purse!Months
    <3>. QED
      BY <2>13, <3>1, <3>2, <3>3, CreditEffect, LocksTypes, ForgetTypes
         DEF Purse!WriteIncome, Purse!TypeOK, Purse!env
  <2>14. ASSUME NEW p \in Procs, Purse!WriteAutoCredit(p)
         PROVE  Purse!TypeOK'
    <3>1. Purse!Only("hifive", Purse!Unpaid(seen[p].due, totals["hifive"])) \in [Purse!Columns -> Nat]
      <4>1. seen[p].due \in Nat /\ totals["hifive"] \in Nat /\ "hifive" \in Purse!Columns
        BY DEF Purse!TypeOK, Purse!Columns
      <4>. QED
        BY <4>1, IncomeTypes
    <3>2. Purse!Credit(p, Purse!Only("hifive", Purse!Unpaid(seen[p].due, totals["hifive"])))
      BY <2>14 DEF Purse!WriteAutoCredit
    <3>3. Purse!DropRowLocks(p) /\ \E to \in {"idle", "release"} : Purse!Forget(p, to)
      BY <2>14 DEF Purse!WriteAutoCredit, Purse!Committed
    <3>. QED
      BY <2>14, <3>1, <3>2, <3>3, CreditEffect, LocksTypes, ForgetTypes
         DEF Purse!WriteAutoCredit, Purse!TypeOK, Purse!env
  <2>15. ASSUME NEW p \in Procs, Purse!WriteApprove(p)
         PROVE  Purse!TypeOK'
    <3>1. PICK income \in [Purse!Columns -> Nat] : Purse!Credit(p, income)
      BY <2>15, ApproveIncome
    <3>3. Purse!DropRowLocks(p) /\ \E to \in {"idle", "release"} : Purse!Forget(p, to)
      BY <2>15 DEF Purse!WriteApprove, Purse!Committed
    <3>. QED
      BY <2>15, <3>1, <3>3, CreditEffect, LocksTypes, ForgetTypes
         DEF Purse!WriteApprove, Purse!TypeOK, Purse!env
  <2>16. ASSUME NEW p \in Procs, Purse!WriteEncash(p) \/ Purse!WriteCharge(p) \/ Purse!WriteRefund(p)
         PROVE  Purse!TypeOK'
    <3>1. arg[p] \in Nat
      BY <2>16, PurseFacts DEF Purse!WriteEncash, Purse!WriteCharge, Purse!WriteRefund, Purse!TypeOK
    <3>2. Purse!DropRowLocks(p) /\ \E to \in {"idle", "release"} : Purse!Forget(p, to)
      BY <2>16 DEF Purse!WriteEncash, Purse!WriteCharge, Purse!WriteRefund, Purse!Committed
    <3>3. CASE Purse!WriteEncash(p)
      <4>1. history' \in [income : [Purse!Columns -> Nat], encashed : Nat,
                         unilevelIn : [Purse!Months -> Nat]]
        <5>1. history' = [income |-> history.income,
                          encashed |-> history.encashed + arg[p],
                          unilevelIn |-> history.unilevelIn]
          BY <3>3 DEF Purse!WriteEncash, Purse!TypeOK
        <5>2. /\ history.income \in [Purse!Columns -> Nat]
              /\ history.encashed + arg[p] \in Nat
              /\ history.unilevelIn \in [Purse!Months -> Nat]
          BY <3>1 DEF Purse!TypeOK
        <5>. QED
          BY <5>1, <5>2
      <4>2. balance' \in Int
        BY <3>1, <3>3 DEF Purse!WriteEncash, Purse!TypeOK
      <4>. QED
        BY <4>1, <4>2, <3>2, <3>3, LocksTypes, ForgetTypes
           DEF Purse!WriteEncash, Purse!TypeOK, Purse!env
    <3>4. CASE Purse!WriteCharge(p)
      BY <3>1, <3>2, <3>4, LocksTypes, ForgetTypes DEF Purse!WriteCharge, Purse!TypeOK, Purse!env
    <3>5. CASE Purse!WriteRefund(p)
      BY <3>1, <3>2, <3>5, LocksTypes, ForgetTypes DEF Purse!WriteRefund, Purse!TypeOK, Purse!env
    <3>. QED
      BY <2>16, <3>3, <3>4, <3>5
  <2>17. ASSUME NEW p \in Procs, Purse!Release(p) \/ Purse!Abort(p) \/ Purse!LoseSessionLock(p)
         PROVE  Purse!TypeOK'
    <3>1. CASE Purse!Release(p)
      BY <3>1, ForgetTypes DEF Purse!Release, Purse!Finish, Purse!Unlocked, Purse!TypeOK, Purse!db, Purse!env
    <3>2. CASE Purse!Abort(p)
      BY <3>2, ForgetTypes, LocksTypes DEF Purse!Abort, Purse!Finish, Purse!Unlocked, Purse!TypeOK, Purse!db, Purse!env
    <3>3. CASE Purse!LoseSessionLock(p)
      BY <3>3 DEF Purse!LoseSessionLock, Purse!TypeOK, Purse!db, Purse!env, Purse!req
    <3>. QED
      BY <2>17, <3>1, <3>2, <3>3
  <2>18. ASSUME Purse!RejectClaim \/ Purse!NetworkChanges \/ Purse!NewMonth
         PROVE  Purse!TypeOK'
    <3>1. CASE Purse!RejectClaim
      BY <3>1 DEF Purse!RejectClaim, Purse!TypeOK, Purse!env, Purse!lcks, Purse!req
    <3>2. CASE Purse!NetworkChanges
      BY <3>2, PurseFacts DEF Purse!NetworkChanges, Purse!TypeOK, Purse!Larger, Purse!db, Purse!lcks, Purse!req
    <3>3. CASE Purse!NewMonth
      <4>1. month' \in Purse!Months
        BY <3>3, PurseFacts DEF Purse!NewMonth, Purse!TypeOK, Purse!Months
      <4>2. entitled' \in [Purse!Columns -> Nat]
        BY <3>3 DEF Purse!NewMonth, Purse!TypeOK
      <4>. QED
        BY <3>3, <4>1, <4>2 DEF Purse!NewMonth, Purse!TypeOK, Purse!db, Purse!lcks, Purse!req
    <3>. QED
      BY <2>18, <3>1, <3>2, <3>3
  <2>. QED
    BY <2>1, <2>3, <2>4, <2>5, <2>6, <2>7, <2>8, <2>9, <2>10, <2>11, <2>12,
       <2>13, <2>14, <2>15, <2>16, <2>17, <2>18 DEF Purse!Next, Purse!Request
<1>. QED
  BY <1>1, <1>2, PTL DEF Purse!Spec

-----------------------------------------------------------------------------
(***************************************************************************)
(* The locks do their work: a request about to write holds the row, so the *)
(* balance it read is still the balance; a calculation past GET_LOCK holds *)
(* the session lock.                                                       *)
(***************************************************************************)
RowHeld(p) == pc[p] = "write" => rowLock = p /\ seen[p].start = balance
SessionHeld(p) ==
    /\ job[p] = "calc" /\ pc[p] # "getlock" => incomeLock = p
    /\ pc[p] \in {"read", "engines"} => job[p] = "calc"

Serialized == \A p \in Procs : RowHeld(p) /\ SessionHeld(p)

\* A request that gives its locks up and forgets keeps the others serialized,
\* and may have written the balance if it held the row.
LEMMA ForgetSerialized ==
    ASSUME Purse!TypeOK, Serialized, NEW p \in Procs, NEW to,
           to \in {"idle", "hifive", "release"},
           Purse!Forget(p, to), Purse!DropRowLocks(p),
           incomeLock' \in {incomeLock, Purse!Unlocked(incomeLock, p)},
           pc[p] = "write" \/ balance' = balance
    PROVE  Serialized'
<1>. SUFFICES ASSUME NEW q \in Procs
              PROVE  RowHeld(q)' /\ SessionHeld(q)'
  BY DEF Serialized
<1>1. CASE q = p
  BY <1>1 DEF Purse!Forget, RowHeld, SessionHeld, Purse!TypeOK
<1>2. CASE q # p
  <2>1. pc'[q] = pc[q] /\ job'[q] = job[q] /\ seen'[q] = seen[q]
    BY <1>2 DEF Purse!Forget, Purse!TypeOK
  <2>2. RowHeld(q) /\ SessionHeld(q) /\ RowHeld(p)
    BY DEF Serialized
  <2>3. RowHeld(q)'
    BY <1>2, <2>1, <2>2 DEF RowHeld, Purse!DropRowLocks, Purse!Unlocked
  <2>4. SessionHeld(q)'
    BY <1>2, <2>1, <2>2 DEF SessionHeld, Purse!Unlocked
  <2>. QED
    BY <2>3, <2>4
<1>. QED
  BY <1>1, <1>2

\* What a committed transaction amounts to.
LEMMA CommittedSerialized ==
    ASSUME Purse!TypeOK, Serialized, NEW p \in Procs, pc[p] = "write",
           Purse!Committed(p), incomeLock' = incomeLock
    PROVE  Serialized'
<1>1. Purse!DropRowLocks(p) /\ \E to \in {"idle", "release"} : Purse!Forget(p, to)
  BY DEF Purse!Committed
<1>. QED
  BY <1>1, ForgetSerialized

\* Requests are serialized by the two locks.
LEMMA SerializedInv == Purse!Spec => []Serialized
<1>1. Purse!Init => Serialized
  BY DEF Purse!Init, Serialized, RowHeld, SessionHeld
<1>2. Purse!TypeOK /\ Serialized /\ [Purse!Next]_(Purse!vars) => Serialized'
  <2>. SUFFICES ASSUME Purse!TypeOK, Serialized, [Purse!Next]_(Purse!vars)
                PROVE  Serialized'
    OBVIOUS
  <2>. USE DEF Serialized, RowHeld, SessionHeld
  <2>1. CASE UNCHANGED Purse!vars
    BY <2>1 DEF Purse!vars, Purse!db, Purse!lcks, Purse!req
  <2>2. ASSUME NEW p \in Procs, NEW j, NEW a, NEW to,
               Purse!Start(p, j, a, to), to \in {"getlock", "lockrow"},
               j = "calc" => to = "getlock"
        PROVE  Serialized'
    BY <2>2 DEF Purse!Start, Purse!Goto, Purse!db, Purse!lcks, Purse!TypeOK
  <2>3. ASSUME NEW p \in Procs, Purse!StartCalc(p) \/ Purse!StartEncash(p) \/ Purse!StartVoucher(p)
        PROVE  Serialized'
    BY <2>2, <2>3 DEF Purse!StartCalc, Purse!StartEncash, Purse!StartVoucher
  <2>4. ASSUME NEW p \in Procs, Purse!StartApprove(p)
        PROVE  Serialized'
    BY <2>4 DEF Purse!StartApprove, Purse!Goto, Purse!db, Purse!TypeOK
  <2>5. ASSUME NEW p \in Procs, Purse!GetLock(p)
        PROVE  Serialized'
    BY <2>5, PurseFacts DEF Purse!GetLock, Purse!Goto, Purse!db, Purse!TypeOK
  <2>6. ASSUME NEW p \in Procs, Purse!GetLockTimeout(p)
        PROVE  Serialized'
    BY <2>6 DEF Purse!GetLockTimeout, Purse!Finish, Purse!Forget, Purse!db, Purse!lcks, Purse!TypeOK
  <2>7. ASSUME NEW p \in Procs, Purse!ReadTotals(p) \/ Purse!RunEngines(p) \/ Purse!ReadHiFive(p)
        PROVE  Serialized'
    <3>1. CASE Purse!ReadTotals(p)
      BY <3>1 DEF Purse!ReadTotals, Purse!Goto, Purse!db, Purse!lcks, Purse!TypeOK
    <3>2. CASE Purse!RunEngines(p)
      BY <3>2 DEF Purse!RunEngines, Purse!Goto, Purse!db, Purse!lcks, Purse!TypeOK
    <3>3. CASE Purse!ReadHiFive(p)
      BY <3>3 DEF Purse!ReadHiFive, Purse!Goto, Purse!db, Purse!lcks, Purse!TypeOK
    <3>. QED
      BY <2>7, <3>1, <3>2, <3>3
  <2>8. ASSUME NEW p \in Procs, Purse!LockRow(p)
        PROVE  Serialized'
    BY <2>8, PurseFacts DEF Purse!LockRow, Purse!Goto, Purse!db, Purse!TypeOK
  <2>9. ASSUME NEW p \in Procs, Purse!WriteIncome(p)
        PROVE  Serialized'
    BY <2>9, ForgetSerialized DEF Purse!WriteIncome
  <2>10. ASSUME NEW p \in Procs,
                \/ Purse!WriteAutoCredit(p) \/ Purse!WriteApprove(p)
                \/ Purse!WriteEncash(p) \/ Purse!WriteCharge(p) \/ Purse!WriteRefund(p)
         PROVE  Serialized'
    <3>1. pc[p] = "write" /\ Purse!Committed(p) /\ incomeLock' = incomeLock
      BY <2>10 DEF Purse!WriteAutoCredit, Purse!WriteApprove, Purse!WriteEncash, Purse!WriteCharge, Purse!WriteRefund
    <3>. QED
      BY <3>1, CommittedSerialized
  <2>11. ASSUME NEW p \in Procs, Purse!Release(p)
         PROVE  Serialized'
    BY <2>11 DEF Purse!Release, Purse!Finish, Purse!Forget, Purse!Unlocked, Purse!db, Purse!TypeOK
  <2>12. ASSUME NEW p \in Procs, Purse!Abort(p)
         PROVE  Serialized'
    BY <2>12, ForgetSerialized DEF Purse!Abort, Purse!Finish, Purse!db
  <2>13. ASSUME NEW p \in Procs, Purse!LoseSessionLock(p)
         PROVE  Serialized'
    BY <2>13 DEF Purse!LoseSessionLock, Purse!db, Purse!req
  <2>14. ASSUME Purse!RejectClaim \/ Purse!NetworkChanges \/ Purse!NewMonth
         PROVE  Serialized'
    BY <2>14 DEF Purse!RejectClaim, Purse!NetworkChanges, Purse!NewMonth, Purse!db, Purse!lcks, Purse!req
  <2>. QED
    BY <2>1, <2>3, <2>4, <2>5, <2>6, <2>7, <2>8, <2>9, <2>10, <2>11, <2>12,
       <2>13, <2>14 DEF Purse!Next, Purse!Request
<1>. QED
  BY <1>1, <1>2, WalletTypes, PTL DEF Purse!Spec

-----------------------------------------------------------------------------
(***************************************************************************)
(* The ledger.  The balance is written absolutely, from a value read       *)
(* earlier: it stays the sum of the history because of Serialized.         *)
(***************************************************************************)
Ledger == Purse!BalanceReconciles /\ Purse!TotalsReconcile /\ Purse!NoOverdraft

\* A step that moves no money.
LEMMA LedgerStutter ==
    ASSUME Ledger, UNCHANGED <<totals, balance, history, charged>>
    PROVE  Ledger'
BY DEF Ledger, Purse!BalanceReconciles, Purse!TotalsReconcile, Purse!NoOverdraft, Purse!SumOf

\* A credit by a request that holds the row.
LEMMA LedgerCredit ==
    ASSUME Purse!TypeOK, Ledger, NEW p \in Procs, RowHeld(p), pc[p] = "write",
           NEW income \in [Purse!Columns -> Nat], Purse!Credit(p, income), charged' = charged
    PROVE  Ledger'
<1>1. /\ Purse!SumOf(history'.income) = Purse!SumOf(history.income) + Purse!SumOf(income)
      /\ history'.encashed = history.encashed
      /\ history'.income = [c \in Purse!Columns |-> history.income[c] + income[c]]
  BY CreditEffect
<1>2. Purse!SumOf(income) \in Nat /\ Purse!SumOf(history.income) \in Nat
  BY IncomeTypes DEF Purse!TypeOK
<1>3. balance' = balance + Purse!SumOf(income)
  BY DEF Purse!Credit, RowHeld
<1>4. Purse!TotalsReconcile'
  BY <1>1 DEF Purse!Credit, Ledger, Purse!TotalsReconcile
<1>5. /\ history.encashed \in Nat /\ charged \in Nat
      /\ balance = Purse!SumOf(history.income) - history.encashed - charged
      /\ history.encashed + charged <= Purse!SumOf(history.income)
  BY DEF Purse!TypeOK, Ledger, Purse!BalanceReconciles, Purse!NoOverdraft
<1>6. Purse!BalanceReconciles'
  BY <1>1, <1>2, <1>3, <1>5 DEF Purse!BalanceReconciles
<1>7. Purse!NoOverdraft'
  BY <1>1, <1>2, <1>5 DEF Purse!NoOverdraft
<1>. QED
  BY <1>4, <1>6, <1>7 DEF Ledger

\* The ledger balances, in every state of every wallet: no income, payout,
\* encashment or voucher payment is lost to a concurrent one, the cumulative
\* totals are the history's, and no more goes out than came in.
THEOREM LedgerCorrect ==
    Purse!Spec => [](BalanceReconciles /\ Purse!TotalsReconcile /\ Purse!NoOverdraft)
<1>1. Purse!Init => Ledger
  BY DEF Purse!Init, Ledger, Purse!BalanceReconciles, Purse!TotalsReconcile, Purse!NoOverdraft,
         Purse!SumOf, Purse!NoIncome, Purse!Columns, Purse!Engines
<1>2. Purse!TypeOK /\ Serialized /\ Ledger /\ [Purse!Next]_(Purse!vars) => Ledger'
  <2>. SUFFICES ASSUME Purse!TypeOK, Serialized, Ledger, [Purse!Next]_(Purse!vars)
                PROVE  Ledger'
    OBVIOUS
  <2>1. CASE UNCHANGED Purse!vars
    BY <2>1, LedgerStutter DEF Purse!vars, Purse!db
  <2>2. ASSUME NEW p \in Procs,
               \/ Purse!StartCalc(p) \/ Purse!StartEncash(p) \/ Purse!StartVoucher(p)
               \/ Purse!StartApprove(p) \/ Purse!GetLock(p) \/ Purse!GetLockTimeout(p)
               \/ Purse!ReadTotals(p) \/ Purse!RunEngines(p) \/ Purse!ReadHiFive(p) \/ Purse!LockRow(p)
               \/ Purse!Release(p) \/ Purse!Abort(p) \/ Purse!LoseSessionLock(p)
        PROVE  Ledger'
    <3>1. UNCHANGED Purse!db
      BY <2>2 DEF Purse!StartCalc, Purse!StartEncash, Purse!StartVoucher, Purse!Start, Purse!StartApprove,
                  Purse!GetLock, Purse!GetLockTimeout, Purse!ReadTotals, Purse!RunEngines, Purse!ReadHiFive,
                  Purse!LockRow, Purse!Release, Purse!Abort, Purse!LoseSessionLock
    <3>. QED
      BY <3>1, LedgerStutter DEF Purse!db
  <2>3. ASSUME NEW p \in Procs, Purse!WriteIncome(p)
        PROVE  Ledger'
    <3>1. seen[p].income \in [Purse!Columns -> Nat]
      BY DEF Purse!TypeOK
    <3>2. pc[p] = "write" /\ RowHeld(p) /\ Purse!Credit(p, seen[p].income) /\ charged' = charged
      BY <2>3 DEF Purse!WriteIncome, Serialized
    <3>. QED
      BY <3>1, <3>2, LedgerCredit
  <2>4. ASSUME NEW p \in Procs, Purse!WriteAutoCredit(p)
        PROVE  Ledger'
    <3>1. Purse!Only("hifive", Purse!Unpaid(seen[p].due, totals["hifive"])) \in [Purse!Columns -> Nat]
      <4>1. seen[p].due \in Nat /\ totals["hifive"] \in Nat /\ "hifive" \in Purse!Columns
        BY DEF Purse!TypeOK, Purse!Columns
      <4>. QED
        BY <4>1, IncomeTypes
    <3>2. /\ pc[p] = "write" /\ RowHeld(p) /\ charged' = charged
          /\ Purse!Credit(p, Purse!Only("hifive", Purse!Unpaid(seen[p].due, totals["hifive"])))
      BY <2>4 DEF Purse!WriteAutoCredit, Serialized
    <3>. QED
      BY <3>1, <3>2, LedgerCredit
  <2>5. ASSUME NEW p \in Procs, Purse!WriteApprove(p)
        PROVE  Ledger'
    <3>1. PICK income \in [Purse!Columns -> Nat] : Purse!Credit(p, income)
      BY <2>5, ApproveIncome
    <3>2. pc[p] = "write" /\ RowHeld(p) /\ charged' = charged
      BY <2>5 DEF Purse!WriteApprove, Serialized
    <3>. QED
      BY <3>1, <3>2, LedgerCredit
  <2>6. ASSUME NEW p \in Procs, Purse!WriteEncash(p) \/ Purse!WriteCharge(p) \/ Purse!WriteRefund(p)
        PROVE  Ledger'
    <3>1. /\ arg[p] \in Nat
          /\ pc[p] = "write" /\ seen[p].start = balance
      BY <2>6, PurseFacts
         DEF Purse!WriteEncash, Purse!WriteCharge, Purse!WriteRefund, Purse!TypeOK, Serialized, RowHeld
    <3>2. /\ history.encashed \in Nat /\ charged \in Nat
          /\ balance = Purse!SumOf(history.income) - history.encashed - charged
          /\ history.encashed + charged <= Purse!SumOf(history.income)
      BY DEF Purse!TypeOK, Ledger, Purse!BalanceReconciles, Purse!NoOverdraft
    <3>3. Purse!SumOf(history.income) \in Nat
      BY IncomeTypes DEF Purse!TypeOK
    <3>4. history'.income = history.income /\ totals' = totals
      BY <2>6 DEF Purse!WriteEncash, Purse!WriteCharge, Purse!WriteRefund, Purse!TypeOK
    <3>5. /\ balance' = Purse!SumOf(history.income) - history'.encashed - charged'
          /\ history'.encashed + charged' <= Purse!SumOf(history.income)
      <4>1. CASE Purse!WriteEncash(p)
        <5>1. /\ history'.encashed = history.encashed + arg[p] /\ charged' = charged
              /\ balance' = balance - arg[p] /\ arg[p] <= balance
          BY <3>1, <4>1 DEF Purse!WriteEncash, Purse!TypeOK
        <5>. QED
          BY <3>1, <3>2, <3>3, <5>1
      <4>2. CASE Purse!WriteCharge(p)
        <5>1. /\ history'.encashed = history.encashed /\ charged' = charged + arg[p]
              /\ balance' = balance - arg[p] /\ arg[p] <= balance
          BY <3>1, <4>2 DEF Purse!WriteCharge
        <5>. QED
          BY <3>1, <3>2, <3>3, <5>1
      <4>3. CASE Purse!WriteRefund(p)
        <5>1. /\ history'.encashed = history.encashed /\ charged' = charged - arg[p]
              /\ balance' = balance + arg[p]
          BY <3>1, <4>3 DEF Purse!WriteRefund
        <5>. QED
          BY <3>1, <3>2, <3>3, <5>1
      <4>. QED
        BY <2>6, <4>1, <4>2, <4>3
    <3>6. Purse!TotalsReconcile'
      BY <3>4 DEF Ledger, Purse!TotalsReconcile
    <3>7. Purse!SumOf(history'.income) = Purse!SumOf(history.income)
      BY <3>4
    <3>8. Purse!BalanceReconciles' /\ Purse!NoOverdraft'
      BY <3>5, <3>7 DEF Purse!BalanceReconciles, Purse!NoOverdraft
    <3>. QED
      BY <3>6, <3>8 DEF Ledger
  <2>7. ASSUME Purse!RejectClaim \/ Purse!NetworkChanges \/ Purse!NewMonth
        PROVE  Ledger'
    BY <2>7, LedgerStutter DEF Purse!RejectClaim, Purse!NetworkChanges, Purse!NewMonth, Purse!db
  <2>. QED
    BY <2>1, <2>2, <2>3, <2>4, <2>5, <2>6, <2>7 DEF Purse!Next, Purse!Request
<1>3. Ledger => BalanceReconciles /\ Purse!TotalsReconcile /\ Purse!NoOverdraft
  BY DEF Ledger, BalanceReconciles
<1>. QED
  BY <1>1, <1>2, <1>3, WalletTypes, SerializedInv, PTL DEF Purse!Spec

-----------------------------------------------------------------------------
(***************************************************************************)
(* No income is credited twice.  What a calculation is about to add was    *)
(* computed from totals that, thanks to the session lock, are still the    *)
(* totals; what an auto-credit pays was owed at some time.                 *)
(***************************************************************************)
Bounded ==
    /\ \A c \in Purse!Columns : entitled[c] <= peak[c]
    /\ Purse!NoDoubleCredit
    /\ \A m \in Purse!Months : /\ history.unilevelIn[m] <= 1
                               /\ m > month => history.unilevelIn[m] = 0

AboutToCredit(p) == job[p] = "calc" /\ pc[p] \in {"lockrow", "write"}

Due(p) ==
    /\ job[p] = "calc" /\ pc[p] = "engines" =>
          \A c \in Purse!Engines : seen[p].stored[c] = totals[c]
    /\ AboutToCredit(p) =>
          /\ \A c \in Purse!Engines : totals[c] + seen[p].income[c] <= peak[c]
          /\ seen[p].income["hifive"] = 0
          /\ seen[p].income["unilevel"] > 0 => history.unilevelIn[month] = 0
    /\ job[p] = "autocredit" => seen[p].due <= peak["hifive"]

Entitled == Bounded /\ \A p \in Procs : Due(p)

\* A request that ends its transaction leaves the others their due, if it has
\* not touched the engines' columns.
LEMMA ForgetDue ==
    ASSUME Purse!TypeOK, Entitled, NEW p \in Procs, NEW to, Purse!Forget(p, to),
           peak' = peak, month' = month,
           \A c \in Purse!Engines : totals'[c] = totals[c],
           \A m \in Purse!Months : history'.unilevelIn[m] = history.unilevelIn[m]
    PROVE  \A q \in Procs : Due(q)'
<1>. SUFFICES ASSUME NEW q \in Procs
              PROVE  Due(q)'
  OBVIOUS
<1>1. CASE q = p
  BY <1>1 DEF Purse!Forget, Due, AboutToCredit, Purse!TypeOK
<1>2. CASE q # p
  <2>1. pc'[q] = pc[q] /\ job'[q] = job[q] /\ seen'[q] = seen[q]
    BY <1>2 DEF Purse!Forget, Purse!TypeOK
  <2>2. Due(q) /\ month \in Purse!Months
    BY DEF Entitled, Purse!TypeOK
  <2>. QED
    BY <2>1, <2>2 DEF Due, AboutToCredit
<1>. QED
  BY <1>1, <1>2

\* Steps of one request that leave the database alone, the request's own due
\* apart.
LEMMA OwnStep ==
    ASSUME Purse!TypeOK, Entitled, NEW p \in Procs, UNCHANGED <<Purse!db, Purse!env>>,
           \A q \in Procs \ {p} : /\ pc'[q] = pc[q]
                                  /\ job'[q] = job[q]
                                  /\ seen'[q] = seen[q],
           Due(p)'
    PROVE  Entitled'
<1>1. Bounded'
  BY DEF Purse!db, Purse!env, Entitled, Bounded, Purse!NoDoubleCredit
<1>2. ASSUME NEW q \in Procs \ {p}
      PROVE  Due(q)'
  BY <1>2 DEF Purse!db, Purse!env, Entitled, Due, AboutToCredit
<1>. QED
  BY <1>1, <1>2 DEF Entitled

\* Unpaid brings what was paid up to what is due, never above both.
LEMMA UnpaidBound ==
    ASSUME NEW due \in Nat, NEW paid \in Nat, NEW top \in Nat,
           due <= top, paid <= top
    PROVE  /\ paid + Purse!Unpaid(due, paid) <= top
           /\ \A a \in Nat : paid + Purse!Smaller(a, Purse!Unpaid(due, paid)) <= top
BY DEF Purse!Unpaid, Purse!Larger, Purse!Smaller

\* The effect of a Hi-Five credit that stays within the peak.
LEMMA HiFiveCredit ==
    ASSUME Purse!TypeOK, Entitled, NEW p \in Procs, NEW a \in Nat,
           Purse!Credit(p, Purse!Only("hifive", a)), totals["hifive"] + a <= peak["hifive"],
           UNCHANGED Purse!env, NEW to, Purse!Forget(p, to)
    PROVE  Entitled'
<1>1. "hifive" \in Purse!Columns /\ Purse!Engines \subseteq Purse!Columns /\ "hifive" \notin Purse!Engines
  BY DEF Purse!Columns, Purse!Engines
<1>2. Purse!Only("hifive", a) \in [Purse!Columns -> Nat]
  BY <1>1, IncomeTypes
<1>3. /\ Purse!Only("hifive", a)["unilevel"] = 0
      /\ Purse!Only("hifive", a)["hifive"] = a
      /\ \A c \in Purse!Engines : Purse!Only("hifive", a)[c] = 0
  BY DEF Purse!Only, Purse!NoIncome, Purse!Columns, Purse!Engines
<1>4. /\ totals'["hifive"] = totals["hifive"] + a
      /\ \A c \in Purse!Engines : totals'[c] = totals[c]
  BY <1>1, <1>3 DEF Purse!Credit, Purse!TypeOK
<1>5. \A m \in Purse!Months : history'.unilevelIn[m] = history.unilevelIn[m]
  <2>1. history.unilevelIn \in [Purse!Months -> Nat]
    BY DEF Purse!TypeOK
  <2>2. \A m \in Purse!Months : history'.unilevelIn[m] = history.unilevelIn[m]
            + IF m = month /\ Purse!Only("hifive", a)["unilevel"] > 0 THEN 1 ELSE 0
    BY <1>2, CreditEffect
  <2>3. ~(Purse!Only("hifive", a)["unilevel"] > 0)
    BY <1>3
  <2>. QED
    BY <2>1, <2>2, <2>3
<1>6. Bounded'
  BY <1>1, <1>4, <1>5 DEF Entitled, Bounded, Purse!NoDoubleCredit, Purse!env
<1>7. \A q \in Procs : Due(q)'
  BY <1>4, <1>5, ForgetDue DEF Purse!env
<1>. QED
  BY <1>6, <1>7 DEF Entitled

\* A calculation that has credited leaves the others their due: none of them
\* is a calculation past GET_LOCK.
LEMMA ForgetWriteDue ==
    ASSUME Purse!TypeOK, Serialized, Entitled, NEW p \in Procs, Purse!WriteIncome(p)
    PROVE  \A q \in Procs : Due(q)'
<1>. SUFFICES ASSUME NEW q \in Procs
              PROVE  Due(q)'
  OBVIOUS
<1>1. Purse!Forget(p, "hifive") /\ UNCHANGED Purse!env /\ incomeLock = p
  BY DEF Purse!WriteIncome, Serialized, SessionHeld
<1>2. CASE q = p
  BY <1>1, <1>2 DEF Purse!Forget, Due, AboutToCredit, Purse!TypeOK
<1>3. CASE q # p
  <2>1. pc'[q] = pc[q] /\ job'[q] = job[q] /\ seen'[q] = seen[q]
    BY <1>1, <1>3 DEF Purse!Forget, Purse!TypeOK
  <2>2. job[q] = "calc" => pc[q] = "getlock"
    BY <1>1, <1>3 DEF Serialized, SessionHeld
  <2>3. Due(q)
    BY DEF Entitled
  <2>. QED
    BY <1>1, <2>1, <2>2, <2>3 DEF Due, AboutToCredit, Purse!env
<1>. QED
  BY <1>2, <1>3

\* insertIncome adds what is due, and dates unilevel in a month without any.
LEMMA WriteIncomeEntitled ==
    ASSUME Purse!TypeOK, Serialized, Entitled, NEW p \in Procs, Purse!WriteIncome(p)
    PROVE  Entitled'
<1>. DEFINE income == seen[p].income
<1>1. /\ income \in [Purse!Columns -> Nat] /\ history.unilevelIn \in [Purse!Months -> Nat]
      /\ month \in Purse!Months
  BY DEF Purse!TypeOK
<1>2. /\ \A c \in Purse!Engines : totals[c] + income[c] <= peak[c]
      /\ income["hifive"] = 0
      /\ income["unilevel"] > 0 => history.unilevelIn[month] = 0
  BY DEF Purse!WriteIncome, Entitled, Due, AboutToCredit
<1>3. Purse!Credit(p, income) /\ Purse!Forget(p, "hifive") /\ UNCHANGED Purse!env
  BY DEF Purse!WriteIncome
<1>4. ASSUME NEW c \in Purse!Columns
      PROVE  totals'[c] = totals[c] + income[c]
  BY <1>3, <1>4 DEF Purse!Credit
<1>5. totals'["hifive"] = totals["hifive"]
  <2>1. "hifive" \in Purse!Columns /\ totals["hifive"] \in Nat
    BY DEF Purse!Columns, Purse!TypeOK
  <2>. QED
    BY <1>2, <1>4, <2>1
<1>6. Purse!NoDoubleCredit'
  <2>1. ASSUME NEW c \in Purse!Engines
        PROVE  totals'[c] <= peak'[c]
    BY <1>2, <1>3, <1>4 DEF Purse!Columns, Purse!env
  <2>2. totals'["hifive"] <= peak'["hifive"]
    BY <1>3, <1>5 DEF Entitled, Bounded, Purse!NoDoubleCredit, Purse!env
  <2>. QED
    BY <2>1, <2>2 DEF Purse!NoDoubleCredit
<1>7. \A m \in Purse!Months : history'.unilevelIn[m] = history.unilevelIn[m]
          + IF m = month /\ income["unilevel"] > 0 THEN 1 ELSE 0
  BY <1>1, <1>3, CreditEffect
<1>8. \A m \in Purse!Months : /\ history'.unilevelIn[m] <= 1
                              /\ m > month => history'.unilevelIn[m] = 0
  <2>. SUFFICES ASSUME NEW m \in Purse!Months
                PROVE  /\ history'.unilevelIn[m] <= 1
                       /\ m > month => history'.unilevelIn[m] = 0
    OBVIOUS
  <2>1. /\ history.unilevelIn[m] \in Nat /\ history.unilevelIn[m] <= 1
        /\ m > month => history.unilevelIn[m] = 0
    BY <1>1 DEF Entitled, Bounded
  <2>2. CASE m = month /\ income["unilevel"] > 0
    <3>1. history'.unilevelIn[m] = history.unilevelIn[m] + 1
      BY <1>7, <2>2
    <3>2. history.unilevelIn[m] = 0
      BY <1>2, <2>2
    <3>3. ~(m > month)
      <4>1. month \in Int
        BY <1>1 DEF Purse!Months
      <4>. QED
        BY <2>2, <4>1
    <3>. QED
      BY <3>1, <3>2, <3>3
  <2>3. CASE ~(m = month /\ income["unilevel"] > 0)
    <3>1. history'.unilevelIn[m] = history.unilevelIn[m] + 0
      BY <1>7, <2>3
    <3>. QED
      BY <2>1, <3>1
  <2>. QED
    BY <2>2, <2>3
<1>9. Bounded'
  BY <1>3, <1>6, <1>8 DEF Entitled, Bounded, Purse!env
<1>10. \A q \in Procs : Due(q)'
  BY ForgetWriteDue
<1>. QED
  BY <1>9, <1>10 DEF Entitled

\* The environment raises an entitlement together with its peak.
LEMMA NetworkEntitled ==
    ASSUME Purse!TypeOK, Entitled, Purse!NetworkChanges
    PROVE  Entitled'
<1>0. PICK c \in Purse!Columns : \E v \in 0 .. MaxEntitled[c] :
         /\ entitled' = [entitled EXCEPT ![c] = v]
         /\ peak' = [peak EXCEPT ![c] = Purse!Larger(@, v)]
         /\ UNCHANGED <<Purse!db, month, Purse!lcks, Purse!req>>
  BY DEF Purse!NetworkChanges
<1>1. PICK v \in 0 .. MaxEntitled[c] :
         /\ entitled' = [entitled EXCEPT ![c] = v]
         /\ peak' = [peak EXCEPT ![c] = Purse!Larger(peak[c], v)]
         /\ UNCHANGED <<Purse!db, month, Purse!lcks, Purse!req>>
  BY <1>0
<1>2. v \in Nat /\ peak \in [Purse!Columns -> Nat] /\ entitled \in [Purse!Columns -> Nat]
  BY <1>1, PurseFacts DEF Purse!TypeOK
<1>3. \A d \in Purse!Columns : peak'[d] \in Nat /\ peak[d] <= peak'[d] /\ entitled'[d] <= peak'[d]
  <2>. SUFFICES ASSUME NEW d \in Purse!Columns
                PROVE  peak'[d] \in Nat /\ peak[d] <= peak'[d] /\ entitled'[d] <= peak'[d]
    OBVIOUS
  <2>1. entitled[d] <= peak[d] /\ peak[d] \in Nat
    BY <1>2 DEF Entitled, Bounded
  <2>2. CASE d = c
    <3>1. peak'[d] = Purse!Larger(peak[d], v) /\ entitled'[d] = v
      BY <1>1, <1>2, <2>2
    <3>. QED
      BY <1>2, <2>1, <3>1 DEF Purse!Larger
  <2>3. CASE d # c
    <3>1. peak'[d] = peak[d] /\ entitled'[d] = entitled[d]
      BY <1>1, <1>2, <2>3
    <3>. QED
      BY <2>1, <3>1
  <2>. QED
    BY <2>2, <2>3
<1>4. Purse!Engines \cup {"hifive"} \subseteq Purse!Columns
  BY DEF Purse!Columns
<1>5. ASSUME NEW d \in Purse!Columns
      PROVE  totals[d] \in Nat /\ peak[d] \in Nat
  BY DEF Purse!TypeOK
<1>6. UNCHANGED <<totals, history, month, pc, job, seen>>
  BY <1>1 DEF Purse!db, Purse!req
<1>7. Purse!NoDoubleCredit'
  <2>. SUFFICES ASSUME NEW d \in Purse!Engines \cup {"hifive"}
                PROVE  totals'[d] <= peak'[d]
    BY DEF Purse!NoDoubleCredit
  <2>1. totals[d] <= peak[d] /\ peak[d] <= peak'[d] /\ totals'[d] = totals[d]
    BY <1>3, <1>4, <1>6 DEF Entitled, Bounded, Purse!NoDoubleCredit
  <2>. QED
    BY <1>3, <1>4, <1>5, <2>1
<1>8. Bounded'
  BY <1>3, <1>6, <1>7 DEF Entitled, Bounded
<1>9. ASSUME NEW q \in Procs
      PROVE  Due(q)'
  <2>1. Due(q)
    BY DEF Entitled
  <2>2. job[q] = "autocredit" => seen[q].due <= peak'["hifive"]
    <3>1. seen[q].due \in Nat /\ "hifive" \in Purse!Columns
      BY DEF Purse!TypeOK, Purse!Columns
    <3>. QED
      BY <1>3, <1>5, <2>1, <3>1 DEF Due
  <2>3. AboutToCredit(q) =>
           \A d \in Purse!Engines : totals[d] + seen[q].income[d] <= peak'[d]
    <3>. SUFFICES ASSUME AboutToCredit(q), NEW d \in Purse!Engines
                  PROVE  totals[d] + seen[q].income[d] <= peak'[d]
      OBVIOUS
    <3>1. totals[d] + seen[q].income[d] <= peak[d] /\ peak[d] <= peak'[d]
      BY <1>3, <1>4, <2>1 DEF Due
    <3>2. seen[q].income[d] \in Nat
      <4>1. seen[q].income \in [Purse!Columns -> Nat]
        BY DEF Purse!TypeOK
      <4>. QED
        BY <1>4, <4>1
    <3>. QED
      BY <1>3, <1>4, <1>5, <3>1, <3>2
  <2>. QED
    BY <1>6, <2>1, <2>2, <2>3 DEF Due, AboutToCredit
<1>. QED
  BY <1>8, <1>9 DEF Entitled

\* A new month has no unilevel row yet.
LEMMA NewMonthEntitled ==
    ASSUME Purse!TypeOK, Entitled, Purse!NewMonth
    PROVE  Entitled'
<1>1. /\ month' = month + 1 /\ month \in Purse!Months /\ month' \in Purse!Months
      /\ month \in Int
  BY PurseFacts DEF Purse!NewMonth, Purse!TypeOK, Purse!Months
<1>2. UNCHANGED <<totals, history, peak, pc, job, seen>>
  BY DEF Purse!NewMonth, Purse!db, Purse!req
<1>3. history.unilevelIn[month'] = 0
  BY <1>1 DEF Entitled, Bounded
<1>4. \A c \in Purse!Columns : entitled'[c] <= peak'[c]
  <2>. SUFFICES ASSUME NEW c \in Purse!Columns
                PROVE  entitled'[c] <= peak'[c]
    OBVIOUS
  <2>1. entitled[c] <= peak[c] /\ peak[c] \in Nat
    BY DEF Purse!TypeOK, Entitled, Bounded
  <2>2. entitled'[c] = entitled[c] \/ entitled'[c] = 0
    BY DEF Purse!NewMonth, Purse!TypeOK
  <2>. QED
    BY <1>2, <2>1, <2>2
<1>5. \A m \in Purse!Months : m > month' => history.unilevelIn[m] = 0
  BY <1>1 DEF Entitled, Bounded, Purse!Months
<1>6. Bounded'
  BY <1>2, <1>4, <1>5 DEF Entitled, Bounded, Purse!NoDoubleCredit
<1>7. ASSUME NEW q \in Procs
      PROVE  Due(q)'
  BY <1>2, <1>3 DEF Entitled, Due, AboutToCredit
<1>. QED
  BY <1>6, <1>7 DEF Entitled

\* While no approval falls back to paying a claim in full, no column of income
\* ever exceeds the highest entitlement there has been, and unilevel is
\* credited at most once a month.
LEMMA EntitledInv ==
    ASSUME StatusReadMayFail = FALSE
    PROVE  Purse!Spec => []Entitled
<1>1. Purse!Init => Entitled
  <2>. SUFFICES ASSUME Purse!Init
                PROVE  Entitled
    OBVIOUS
  <2>1. \A c \in Purse!Columns : entitled[c] \in Nat /\ peak[c] = entitled[c]
    <3>1. entitled \in [Purse!Columns -> Nat]
      BY PurseFacts, IncomeTypes DEF Purse!Init, Purse!Columns
    <3>. QED
      BY <3>1 DEF Purse!Init
  <2>2. \A c \in Purse!Columns : totals[c] = 0
    BY DEF Purse!Init, Purse!NoIncome
  <2>3. Bounded
    BY <2>1, <2>2 DEF Purse!Init, Bounded, Purse!NoDoubleCredit, Purse!Columns
  <2>. QED
    BY <2>3 DEF Purse!Init, Entitled, Due, AboutToCredit
<1>2. Purse!TypeOK /\ Serialized /\ Entitled /\ [Purse!Next]_(Purse!vars) => Entitled'
  <2>. SUFFICES ASSUME Purse!TypeOK, Serialized, Entitled, [Purse!Next]_(Purse!vars)
                PROVE  Entitled'
    OBVIOUS
  <2>1. CASE UNCHANGED Purse!vars
    BY <2>1 DEF Purse!vars, Purse!db, Purse!env, Purse!req, Entitled, Bounded, Purse!NoDoubleCredit, Due, AboutToCredit
  <2>2. ASSUME NEW p \in Procs, NEW j, NEW a, NEW to, Purse!Start(p, j, a, to),
               j = "calc" => to = "getlock", j # "autocredit"
        PROVE  Entitled'
    <3>1. Due(p)'
      BY <2>2 DEF Purse!Start, Purse!Goto, Due, AboutToCredit, Purse!TypeOK
    <3>. QED
      BY <2>2, <3>1, OwnStep DEF Purse!Start, Purse!Goto, Purse!TypeOK
  <2>3. ASSUME NEW p \in Procs, Purse!StartCalc(p) \/ Purse!StartEncash(p) \/ Purse!StartVoucher(p)
        PROVE  Entitled'
    BY <2>2, <2>3 DEF Purse!StartCalc, Purse!StartEncash, Purse!StartVoucher
  <2>4. ASSUME NEW p \in Procs, Purse!StartApprove(p)
        PROVE  Entitled'
    <3>1. Due(p)'
      BY <2>4 DEF Purse!StartApprove, Due, AboutToCredit, Purse!TypeOK
    <3>. QED
      BY <2>4, <3>1, OwnStep DEF Purse!StartApprove, Purse!Goto, Purse!TypeOK
  <2>5. ASSUME NEW p \in Procs, Purse!GetLock(p)
        PROVE  Entitled'
    <3>1. Due(p)'
      BY <2>5 DEF Purse!GetLock, Purse!Goto, Entitled, Due, AboutToCredit, Purse!TypeOK, Purse!db, Purse!env
    <3>. QED
      BY <2>5, <3>1, OwnStep DEF Purse!GetLock, Purse!Goto, Purse!TypeOK
  <2>6. ASSUME NEW p \in Procs, NEW to, Purse!Forget(p, to), UNCHANGED <<Purse!db, Purse!env>>
        PROVE  Entitled'
    <3>1. Due(p)'
      BY <2>6 DEF Purse!Forget, Due, AboutToCredit, Purse!TypeOK
    <3>. QED
      BY <2>6, <3>1, OwnStep DEF Purse!Forget, Purse!TypeOK
  <2>7. ASSUME NEW p \in Procs, Purse!GetLockTimeout(p) \/ Purse!Release(p) \/ Purse!Abort(p)
        PROVE  Entitled'
    BY <2>6, <2>7 DEF Purse!GetLockTimeout, Purse!Release, Purse!Abort, Purse!Finish
  <2>8. ASSUME NEW p \in Procs, Purse!ReadTotals(p)
        PROVE  Entitled'
    <3>1. Due(p)'
      BY <2>8 DEF Purse!ReadTotals, Purse!Goto, Due, AboutToCredit, Purse!TypeOK, Purse!db, Purse!env,
                  Serialized, SessionHeld
    <3>. QED
      BY <2>8, <3>1, OwnStep DEF Purse!ReadTotals, Purse!Goto, Purse!TypeOK
  <2>9. ASSUME NEW p \in Procs, Purse!RunEngines(p)
        PROVE  Entitled'
    <3>1. /\ job[p] = "calc" /\ job' = job
          /\ pc'[p] \in {"lockrow", "hifive"}
          /\ seen'[p].income = Purse!NewIncome(p)
      BY <2>9 DEF Purse!RunEngines, Purse!Goto, Purse!TypeOK, Serialized, SessionHeld, Purse!NothingSeen
    <3>2. \A c \in Purse!Engines : totals[c] + Purse!NewIncome(p)[c] <= peak[c]
      <4>. SUFFICES ASSUME NEW c \in Purse!Engines
                    PROVE  totals[c] + Purse!NewIncome(p)[c] <= peak[c]
        OBVIOUS
      <4>1. c \in Purse!Columns
        BY DEF Purse!Columns
      <4>2. /\ totals[c] \in Nat /\ entitled[c] \in Nat /\ peak[c] \in Nat
            /\ totals[c] <= peak[c] /\ entitled[c] <= peak[c]
        BY <4>1 DEF Purse!TypeOK, Entitled, Bounded, Purse!NoDoubleCredit
      <4>3. seen[p].stored[c] = totals[c]
        BY <2>9, <3>1 DEF Purse!RunEngines, Purse!Goto, Entitled, Due
      <4>4. Purse!NewIncome(p)[c] = Purse!Unpaid(entitled[c], totals[c])
        BY <4>1, <4>3 DEF Purse!NewIncome
      <4>. QED
        BY <4>2, <4>4, UnpaidBound
    <3>3. Purse!NewIncome(p)["hifive"] = 0 /\ Purse!NewIncome(p)["unilevel"] = Purse!UnilevelDue
      BY DEF Purse!NewIncome, Purse!Columns, Purse!Engines
    <3>4. Purse!UnilevelDue > 0 => history.unilevelIn[month] = 0
      <4>1. history.unilevelIn[month] \in Nat
        BY DEF Purse!TypeOK
      <4>. QED
        BY <4>1 DEF Purse!UnilevelDue
    <3>5. UNCHANGED <<Purse!db, Purse!env>>
      BY <2>9 DEF Purse!RunEngines
    <3>6. Due(p)'
      BY <3>1, <3>2, <3>3, <3>4, <3>5 DEF Due, AboutToCredit, Purse!db, Purse!env
    <3>. QED
      BY <2>9, <3>5, <3>6, OwnStep DEF Purse!RunEngines, Purse!Goto, Purse!TypeOK
  <2>10. ASSUME NEW p \in Procs, Purse!ReadHiFive(p)
         PROVE  Entitled'
    <3>1. job'[p] = "autocredit" /\ seen'[p].due = entitled["hifive"]
      BY <2>10 DEF Purse!ReadHiFive, Purse!TypeOK, Purse!NothingSeen
    <3>2. entitled["hifive"] <= peak["hifive"]
      BY DEF Entitled, Bounded, Purse!Columns
    <3>3. Due(p)'
      BY <2>10, <3>1, <3>2 DEF Purse!ReadHiFive, Due, AboutToCredit, Purse!env
    <3>. QED
      BY <2>10, <3>3, OwnStep DEF Purse!ReadHiFive, Purse!Goto, Purse!TypeOK
  <2>11. ASSUME NEW p \in Procs, Purse!LockRow(p)
         PROVE  Entitled'
    <3>1. /\ seen'[p].income = seen[p].income
          /\ seen'[p].due = seen[p].due
          /\ pc[p] = "lockrow" /\ pc'[p] = "write" /\ job' = job
          /\ UNCHANGED <<Purse!db, Purse!env>>
      BY <2>11 DEF Purse!LockRow, Purse!Goto, Purse!TypeOK
    <3>2. Due(p)'
      BY <3>1 DEF Entitled, Due, AboutToCredit, Purse!db, Purse!env
    <3>. QED
      BY <2>11, <3>1, <3>2, OwnStep DEF Purse!LockRow, Purse!Goto, Purse!TypeOK
  <2>12. ASSUME NEW p \in Procs, Purse!WriteIncome(p)
         PROVE  Entitled'
    BY <2>12, WriteIncomeEntitled
  <2>13. ASSUME NEW p \in Procs, Purse!WriteAutoCredit(p)
         PROVE  Entitled'
    <3>. DEFINE owed == Purse!Unpaid(seen[p].due, totals["hifive"])
    <3>1. /\ seen[p].due \in Nat /\ totals["hifive"] \in Nat /\ peak["hifive"] \in Nat
          /\ totals["hifive"] <= peak["hifive"] /\ seen[p].due <= peak["hifive"]
      BY <2>13 DEF Purse!WriteAutoCredit, Purse!TypeOK, Purse!Columns, Entitled, Bounded, Purse!NoDoubleCredit, Due
    <3>2. owed \in Nat /\ totals["hifive"] + owed <= peak["hifive"]
      BY <3>1, IncomeTypes, UnpaidBound
    <3>3. /\ Purse!Credit(p, Purse!Only("hifive", owed)) /\ UNCHANGED Purse!env
          /\ \E to : Purse!Forget(p, to)
      BY <2>13 DEF Purse!WriteAutoCredit, Purse!Committed
    <3>. QED
      BY <3>2, <3>3, HiFiveCredit
  <2>14. ASSUME NEW p \in Procs, Purse!WriteApprove(p)
         PROVE  Entitled'
    <3>. DEFINE owed == Purse!Smaller(Payout[arg[p]], Purse!Unpaid(entitled["hifive"], totals["hifive"]))
    <3>1. /\ entitled["hifive"] \in Nat /\ totals["hifive"] \in Nat /\ peak["hifive"] \in Nat
          /\ totals["hifive"] <= peak["hifive"] /\ entitled["hifive"] <= peak["hifive"]
      BY DEF Purse!TypeOK, Purse!Columns, Entitled, Bounded, Purse!NoDoubleCredit
    <3>2. Payout[arg[p]] \in Nat
      BY <2>14, PurseFacts DEF Purse!WriteApprove, Purse!TypeOK
    <3>3. owed \in Nat /\ totals["hifive"] + owed <= peak["hifive"]
      BY <3>1, <3>2, IncomeTypes, UnpaidBound
    <3>4. /\ Purse!Credit(p, Purse!Only("hifive", owed)) /\ UNCHANGED Purse!env
          /\ \E to : Purse!Forget(p, to)
      BY <2>14, StatusReadMayFail = FALSE DEF Purse!WriteApprove, Purse!Committed
    <3>. QED
      BY <3>3, <3>4, HiFiveCredit
  <2>15. ASSUME NEW p \in Procs, Purse!WriteEncash(p) \/ Purse!WriteCharge(p) \/ Purse!WriteRefund(p)
         PROVE  Entitled'
    <3>1. /\ UNCHANGED <<totals, Purse!env>> /\ \E to : Purse!Forget(p, to)
          /\ history'.unilevelIn = history.unilevelIn
      BY <2>15 DEF Purse!WriteEncash, Purse!WriteCharge, Purse!WriteRefund, Purse!Committed, Purse!TypeOK
    <3>2. \A q \in Procs : Due(q)'
      BY <3>1, ForgetDue DEF Purse!env
    <3>3. Bounded'
      BY <3>1 DEF Entitled, Bounded, Purse!NoDoubleCredit, Purse!env
    <3>. QED
      BY <3>2, <3>3 DEF Entitled
  <2>16. ASSUME NEW p \in Procs, Purse!LoseSessionLock(p)
         PROVE  Entitled'
    <3>1. UNCHANGED <<totals, history, Purse!env, Purse!req>>
      BY <2>16 DEF Purse!LoseSessionLock, Purse!db
    <3>. QED
      BY <3>1 DEF Purse!env, Purse!req, Entitled, Bounded, Purse!NoDoubleCredit, Due, AboutToCredit
  <2>17. ASSUME Purse!RejectClaim
         PROVE  Entitled'
    BY <2>17 DEF Purse!RejectClaim, Purse!env, Purse!req, Entitled, Bounded, Purse!NoDoubleCredit, Due, AboutToCredit
  <2>18. ASSUME Purse!NetworkChanges
         PROVE  Entitled'
    BY <2>18, NetworkEntitled
  <2>19. ASSUME Purse!NewMonth
         PROVE  Entitled'
    BY <2>19, NewMonthEntitled
  <2>. QED
    BY <2>1, <2>3, <2>4, <2>5, <2>7, <2>8, <2>9, <2>10, <2>11, <2>12, <2>13,
       <2>14, <2>15, <2>16, <2>17, <2>18, <2>19 DEF Purse!Next, Purse!Request
<1>. QED
  BY <1>1, <1>2, WalletTypes, SerializedInv, PTL DEF Purse!Spec

\* Repeated and concurrent calculations, auto-credits and approvals never
\* credit a column beyond the highest entitlement the engines ever computed,
\* as long as no approval falls back to paying a claim in full.
THEOREM NeverDoubleCredits ==
    ASSUME StatusReadMayFail = FALSE
    PROVE  Purse!Spec => []NoDoubleCredit
<1>1. Entitled => NoDoubleCredit
  BY DEF Entitled, Bounded, NoDoubleCredit
<1>. QED
  BY <1>1, EntitledInv, PTL

\* The monthly stamp and the history row, read under the session lock, keep
\* unilevel to one credit a month, whatever month a calculation ends in.
THEOREM OneUnilevelAMonth ==
    ASSUME StatusReadMayFail = FALSE
    PROVE  Purse!Spec => []UnilevelOncePerMonth
<1>1. Entitled => UnilevelOncePerMonth
  BY DEF Entitled, Bounded, UnilevelOncePerMonth, Purse!UnilevelOncePerMonth
<1>. QED
  BY <1>1, EntitledInv, PTL
=============================================================================
