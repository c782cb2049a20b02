-------------------------------- MODULE Sums --------------------------------
(***************************************************************************)
(* Facts about the sum of a function over a finite set of indices, as the  *)
(* models write totals of amounts: SUM(...) of the tables in the code.     *)
(* SumFunctionOnSet folds over an index chosen at each step; the lemmas    *)
(* show that the choice does not matter and how a sum changes with its     *)
(* function and its set.  A finite set of numbers has a smallest and a     *)
(* largest element: what Min and Max choose exists.                        *)
(***************************************************************************)
EXTENDS Integers, Functions, FiniteSetTheorems, WellFoundedInduction, TLAPS

Pick(s) == CHOOSE x \in s : TRUE

\* F is the table of the sums of f over the subsets of S.
IsIter(F, f, S) ==
    F = [s \in SUBSET S |-> IF s = {} THEN 0 ELSE f[Pick(s)] + F[s \ {Pick(s)}]]

\* The definition of SumFunctionOnSet in these terms.
LEMMA SumDef ==
    ASSUME NEW f, NEW S
    PROVE  SumFunctionOnSet(f, S) = (CHOOSE F : IsIter(F, f, S))[S]
BY DEF SumFunctionOnSet, FoldFunctionOnSet, MapThenFoldSet, IsIter, Pick

\* The least set without a property of the subsets of a finite set.
LEMMA LeastSet ==
    ASSUME NEW S, IsFiniteSet(S), NEW T, T \subseteq SUBSET S, T # {}
    PROVE  \E s \in T : \A u \in T : u \subseteq s => u = s
<1>1. T \subseteq FiniteSubsetsOf(S)
  BY FS_FiniteSubsetsOfFinite
<1>2. PICK s \in T : \A u \in T : <<u, s>> \notin StrictSubsetOrdering(S)
  BY <1>1, FS_StrictSubsetOrderingWellFounded, WFMin
<1>3. ASSUME NEW u \in T, u \subseteq s
      PROVE  u = s
  BY <1>2, <1>3 DEF StrictSubsetOrdering
<1>. QED
  BY <1>3

\* There is one such table.
LEMMA IterUnique ==
    ASSUME NEW f, NEW S, IsFiniteSet(S), NEW F, NEW G, IsIter(F, f, S), IsIter(G, f, S)
    PROVE  F = G
<1>. DEFINE T == {s \in SUBSET S : F[s] # G[s]}
<1>1. /\ F = [s \in SUBSET S |-> F[s]] /\ G = [s \in SUBSET S |-> G[s]]
      /\ \A s \in SUBSET S : /\ F[s] = IF s = {} THEN 0 ELSE f[Pick(s)] + F[s \ {Pick(s)}]
                             /\ G[s] = IF s = {} THEN 0 ELSE f[Pick(s)] + G[s \ {Pick(s)}]
  BY DEF IsIter
<1>0. T \subseteq SUBSET S /\ \A s \in SUBSET S : s \in T <=> F[s] # G[s]
  OBVIOUS
<1>. HIDE DEF T
<1>2. ASSUME T # {}
      PROVE  FALSE
  <2>1. PICK s \in T : \A u \in T : u \subseteq s => u = s
    BY <1>0, <1>2, LeastSet
  <2>2. s \in SUBSET S /\ F[s] # G[s] /\ s # {}
    BY <1>0, <1>1
  <2>3. Pick(s) \in s
    BY <2>2 DEF Pick
  <2>4. s \ {Pick(s)} \in SUBSET S /\ s \ {Pick(s)} \notin T
    BY <2>1, <2>2, <2>3
  <2>5. F[s \ {Pick(s)}] = G[s \ {Pick(s)}]
    BY <1>0, <2>4
  <2>. QED
    BY <1>1, <2>2, <2>5
<1>. QED
  BY <1>0, <1>1, <1>2

\* It holds the table of each subset.
LEMMA IterRestrict ==
    ASSUME NEW f, NEW S, NEW F, IsIter(F, f, S), NEW U \in SUBSET S
    PROVE  IsIter([s \in SUBSET U |-> F[s]], f, U)
<1>. DEFINE G == [s \in SUBSET U |-> F[s]]
<1>1. ASSUME NEW s \in SUBSET U
      PROVE  G[s] = IF s = {} THEN 0 ELSE f[Pick(s)] + G[s \ {Pick(s)}]
  <2>1. s \in SUBSET S /\ s \ {Pick(s)} \in SUBSET U
    OBVIOUS
  <2>2. F[s] = IF s = {} THEN 0 ELSE f[Pick(s)] + F[s \ {Pick(s)}]
    BY <2>1 DEF IsIter
  <2>. QED
    BY <2>1, <2>2
<1>2. G = [s \in SUBSET U |-> G[s]]
  OBVIOUS
<1>. HIDE DEF G
<1>3. G = [s \in SUBSET U |-> IF s = {} THEN 0 ELSE f[Pick(s)] + G[s \ {Pick(s)}]]
  BY <1>1, <1>2
<1>. QED
  BY <1>3 DEF IsIter, G

\* There is such a table.
LEMMA IterExists ==
    ASSUME NEW f, NEW S, IsFiniteSet(S)
    PROVE  \E F : IsIter(F, f, S)
<1>. DEFINE T == {s \in SUBSET S : ~ \E F : IsIter(F, f, s)}
<1>0. T \subseteq SUBSET S /\ \A s \in SUBSET S : s \in T <=> ~ \E F : IsIter(F, f, s)
  OBVIOUS
<1>. HIDE DEF T
<1>1. ASSUME T # {}
      PROVE  FALSE
  <2>1. PICK s \in T : \A u \in T : u \subseteq s => u = s
    BY <1>0, <1>1, LeastSet
  <2>. DEFINE It(u) == CHOOSE F : IsIter(F, f, u)
              F == [u \in SUBSET s |->
                      IF u = {} THEN 0 ELSE f[Pick(u)] + It(u \ {Pick(u)})[u \ {Pick(u)}]]
  <2>2. ASSUME NEW u \in SUBSET s, u # s
        PROVE  IsIter(It(u), f, u) /\ IsFiniteSet(u)
    <3>1. u \notin T /\ u \in SUBSET S
      BY <1>0, <2>1, <2>2
    <3>2. \E G : IsIter(G, f, u)
      BY <1>0, <3>1
    <3>. QED
      BY <3>1, <3>2, FS_Subset
  <2>3. ASSUME NEW u \in SUBSET s, u # {}
        PROVE  It(u \ {Pick(u)})[u \ {Pick(u)}] = F[u \ {Pick(u)}]
    <3>. DEFINE w == u \ {Pick(u)}
    <3>1. Pick(u) \in u
      BY <2>3 DEF Pick
    <3>2. w \in SUBSET s /\ w # s
      BY <3>1
    <3>3. IsIter(It(w), f, w) /\ IsFiniteSet(w)
      BY <2>2, <3>2
    <3>4. CASE w = {}
      <4>1. It(w)[w] = 0
        BY <3>3, <3>4 DEF IsIter
      <4>2. F[w] = 0
        BY <3>2, <3>4
      <4>. QED
        BY <4>1, <4>2
    <3>5. CASE w # {}
      <4>. DEFINE x == w \ {Pick(w)}
      <4>1. Pick(w) \in w
        BY <3>5 DEF Pick
      <4>2. x \in SUBSET s /\ x # s /\ x \in SUBSET w
        BY <3>2, <4>1
      <4>3. IsIter(It(x), f, x) /\ IsFiniteSet(x)
        BY <2>2, <4>2
      <4>4. It(w)[w] = f[Pick(w)] + It(w)[x]
        BY <3>3, <3>5 DEF IsIter
      <4>5. IsIter([y \in SUBSET x |-> It(w)[y]], f, x)
        <5>1. PICK G : G = It(w)
          OBVIOUS
        <5>2. PICK X : X = x
          OBVIOUS
        <5>3. IsIter(G, f, w) /\ X \in SUBSET w
          BY <3>3, <4>2, <5>1, <5>2
        <5>4. IsIter([y \in SUBSET X |-> G[y]], f, X)
          BY <5>3, IterRestrict
        <5>. QED
          BY <5>1, <5>2, <5>4
      <4>6. [y \in SUBSET x |-> It(w)[y]] = It(x)
        BY <4>3, <4>5, IterUnique
      <4>7. It(w)[x] = It(x)[x]
        <5>1. [y \in SUBSET x |-> It(w)[y]][x] = It(w)[x]
          OBVIOUS
        <5>. QED
          BY <4>6, <5>1
      <4>8. F[w] = f[Pick(w)] + It(x)[x]
        BY <3>2, <3>5
      <4>. QED
        BY <4>4, <4>7, <4>8
    <3>. QED
      BY <3>4, <3>5
  <2>4. F = [u \in SUBSET s |-> IF u = {} THEN 0 ELSE f[Pick(u)] + F[u \ {Pick(u)}]]
    <3>1. ASSUME NEW u \in SUBSET s
          PROVE  F[u] = IF u = {} THEN 0 ELSE f[Pick(u)] + F[u \ {Pick(u)}]
      <4>1. F[u] = IF u = {} THEN 0 ELSE f[Pick(u)] + It(u \ {Pick(u)})[u \ {Pick(u)}]
        OBVIOUS
      <4>2. CASE u = {}
        BY <4>1, <4>2
      <4>3. CASE u # {}
        <5>. HIDE DEF F, It
        <5>. QED
          BY <2>3, <4>1, <4>3
      <4>. QED
        BY <4>2, <4>3
    <3>2. F = [u \in SUBSET s |-> F[u]]
      OBVIOUS
    <3>. HIDE DEF F
    <3>. QED
      BY <3>1, <3>2
  <2>5. IsIter(F, f, s)
    BY <2>4 DEF IsIter
  <2>. HIDE DEF F
  <2>. QED
    BY <1>0, <2>1, <2>5
<1>2. S \notin T
  BY <1>1
<1>. QED
  BY <1>0, <1>2
-----------------------------------------------------------------------------
\* The sum of nothing, and the sum as a table gives it.
LEMMA SumIter ==
    ASSUME NEW f, NEW S, IsFiniteSet(S)
    PROVE  \E F : /\ IsIter(F, f, S)
                  /\ \A U \in SUBSET S : SumFunctionOnSet(f, U) = F[U]
<1>1. PICK F : IsIter(F, f, S)
  BY IterExists
<1>2. ASSUME NEW U \in SUBSET S
      PROVE  SumFunctionOnSet(f, U) = F[U]
  <2>1. IsFiniteSet(U)
    BY FS_Subset
  <2>. DEFINE G == CHOOSE G : IsIter(G, f, U)
              H == [s \in SUBSET U |-> F[s]]
  <2>2. IsIter(G, f, U)
    BY <2>1, IterExists
  <2>3. IsIter(H, f, U)
    BY <1>1, IterRestrict
  <2>4. H[U] = F[U]
    OBVIOUS
  <2>5. SumFunctionOnSet(f, U) = G[U]
    BY SumDef
  <2>. HIDE DEF G, H
  <2>6. G = H
    BY <2>1, <2>2, <2>3, IterUnique
  <2>. QED
    BY <2>4, <2>5, <2>6
<1>. QED
  BY <1>1, <1>2

\* The sum over no index.
LEMMA SumEmpty ==
    ASSUME NEW f
    PROVE  SumFunctionOnSet(f, {}) = 0
<1>1. PICK F : /\ IsIter(F, f, {}) /\ \A U \in SUBSET {} : SumFunctionOnSet(f, U) = F[U]
  BY FS_EmptySet, SumIter
<1>. QED
  BY <1>1 DEF IsIter

\* One step of the fold.
LEMMA SumStep ==
    ASSUME NEW f, NEW S, IsFiniteSet(S), S # {}
    PROVE  Pick(S) \in S /\ SumFunctionOnSet(f, S) = f[Pick(S)] + SumFunctionOnSet(f, S \ {Pick(S)})
<1>1. PICK F : /\ IsIter(F, f, S) /\ \A U \in SUBSET S : SumFunctionOnSet(f, U) = F[U]
  BY SumIter
<1>2. F[S] = f[Pick(S)] + F[S \ {Pick(S)}]
  BY <1>1 DEF IsIter
<1>3. S \in SUBSET S /\ S \ {Pick(S)} \in SUBSET S
  OBVIOUS
<1>. QED
  BY <1>1, <1>2, <1>3 DEF Pick

\* Sums of integers are integers.
LEMMA SumInt ==
    ASSUME NEW f, NEW S, IsFiniteSet(S), \A x \in S : f[x] \in Int
    PROVE  SumFunctionOnSet(f, S) \in Int
<1>. DEFINE T == {s \in SUBSET S : SumFunctionOnSet(f, s) \notin Int}
<1>0. T \subseteq SUBSET S /\ \A s \in SUBSET S : s \in T <=> SumFunctionOnSet(f, s) \notin Int
  OBVIOUS
<1>. HIDE DEF T
<1>1. ASSUME T # {}
      PROVE  FALSE
  <2>1. PICK s \in T : \A u \in T : u \subseteq s => u = s
    BY <1>0, <1>1, LeastSet
  <2>2. s \in SUBSET S /\ IsFiniteSet(s)
    BY <1>0, FS_Subset
  <2>3. s # {}
    <3>1. SumFunctionOnSet(f, {}) \in Int
      BY SumEmpty
    <3>2. {} \notin T
      BY <1>0, <3>1
    <3>. QED
      BY <3>2
  <2>4. Pick(s) \in s /\ SumFunctionOnSet(f, s) = f[Pick(s)] + SumFunctionOnSet(f, s \ {Pick(s)})
    BY <2>2, <2>3, SumStep
  <2>5. SumFunctionOnSet(f, s \ {Pick(s)}) \in Int
    BY <1>0, <2>1, <2>2, <2>4
  <2>. QED
    BY <1>0, <2>2, <2>4, <2>5
<1>. QED
  BY <1>0, <1>1

\* Whichever index the fold would choose first, any one can be split off.
THEOREM SumAdd ==
    ASSUME NEW f, NEW S, IsFiniteSet(S), NEW x, x \notin S, \A y \in S \cup {x} : f[y] \in Int
    PROVE  SumFunctionOnSet(f, S \cup {x}) = f[x] + SumFunctionOnSet(f, S)
<1>. DEFINE R == S \cup {x}
            Splits(s) == \A y \in R \ s : SumFunctionOnSet(f, s \cup {y}) = f[y] + SumFunctionOnSet(f, s)
            T == {s \in SUBSET R : ~Splits(s)}
<1>0. T \subseteq SUBSET R /\ \A s \in SUBSET R : s \in T <=> ~Splits(s)
  OBVIOUS
<1>1. IsFiniteSet(R)
  BY FS_AddElement
<1>2. \A y \in R : f[y] \in Int
  OBVIOUS
<1>. HIDE DEF R, T
<1>3. ASSUME T # {}
      PROVE  FALSE
  <2>1. PICK s \in T : \A u \in T : u \subseteq s => u = s
    BY <1>0, <1>1, <1>3, LeastSet
  <2>2. s \in SUBSET R /\ ~Splits(s)
    BY <1>0
  <2>3. PICK y \in R \ s : SumFunctionOnSet(f, s \cup {y}) # f[y] + SumFunctionOnSet(f, s)
    BY <2>2
  <2>. DEFINE w == s \cup {y}
              c == Pick(w)
  <2>4. IsFiniteSet(w) /\ IsFiniteSet(s) /\ w # {} /\ w \in SUBSET R
    BY <1>1, <2>2, FS_Subset
  <2>5. c \in w /\ SumFunctionOnSet(f, w) = f[c] + SumFunctionOnSet(f, w \ {c})
    BY <2>4, SumStep
  <2>6. CASE c = y
    <3>1. w \ {c} = s
      BY <2>6
    <3>. HIDE DEF w, c
    <3>2. SumFunctionOnSet(f, w) = f[y] + SumFunctionOnSet(f, s)
      BY <2>5, <2>6, <3>1
    <3>. QED
      BY <2>3, <3>2 DEF w
  <2>7. CASE c # y
    <3>. DEFINE u == s \ {c}
    <3>1. c \in s /\ w \ {c} = u \cup {y} /\ s = u \cup {c} /\ y \in R \ u /\ c \in R \ u
      BY <2>2, <2>5, <2>7
    <3>. HIDE DEF w, c
    <3>2. u \in SUBSET R /\ u \subseteq s /\ u # s
      BY <2>2, <3>1
    <3>. HIDE DEF u
    <3>3. Splits(u)
      BY <1>0, <2>1, <3>2
    <3>4. /\ SumFunctionOnSet(f, u \cup {y}) = f[y] + SumFunctionOnSet(f, u)
          /\ SumFunctionOnSet(f, u \cup {c}) = f[c] + SumFunctionOnSet(f, u)
      BY <3>1, <3>3
    <3>5. SumFunctionOnSet(f, u) \in Int /\ f[y] \in Int /\ f[c] \in Int
      <4>1. IsFiniteSet(u) /\ \A z \in u : f[z] \in Int
        BY <1>1, <1>2, <3>2, FS_Subset
      <4>. QED
        BY <1>2, <3>1, <4>1, SumInt
    <3>6. SumFunctionOnSet(f, w) = f[c] + (f[y] + SumFunctionOnSet(f, u))
      BY <2>5, <3>1, <3>4
    <3>7. SumFunctionOnSet(f, s) = f[c] + SumFunctionOnSet(f, u)
      BY <3>1, <3>4
    <3>8. SumFunctionOnSet(f, w) = f[y] + SumFunctionOnSet(f, s)
      BY <3>5, <3>6, <3>7
    <3>. QED
      BY <2>3, <3>8 DEF w
  <2>. QED
    BY <2>6, <2>7
<1>4. Splits(S)
  BY <1>0, <1>3 DEF R
<1>. QED
  BY <1>4 DEF R

\* An index is taken out.
LEMMA SumRemove ==
    ASSUME NEW f, NEW S, IsFiniteSet(S), NEW x \in S, \A y \in S : f[y] \in Int
    PROVE  SumFunctionOnSet(f, S) = f[x] + SumFunctionOnSet(f, S \ {x})
<1>1. IsFiniteSet(S \ {x}) /\ x \notin S \ {x}
  BY FS_RemoveElement
<1>2. S = (S \ {x}) \cup {x}
  OBVIOUS
<1>. DEFINE R == S \ {x}
<1>3. IsFiniteSet(R) /\ x \notin R /\ S = R \cup {x} /\ \A y \in R \cup {x} : f[y] \in Int
  BY <1>1, <1>2
<1>. HIDE DEF R
<1>4. SumFunctionOnSet(f, R \cup {x}) = f[x] + SumFunctionOnSet(f, R)
  BY <1>3, SumAdd
<1>. QED
  BY <1>3, <1>4 DEF R

\* A sum depends on the values at its indices only.
THEOREM SumSame ==
    ASSUME NEW f, NEW g, NEW S, IsFiniteSet(S), \A x \in S : f[x] = g[x]
    PROVE  SumFunctionOnSet(f, S) = SumFunctionOnSet(g, S)
<1>. DEFINE T == {s \in SUBSET S : SumFunctionOnSet(f, s) # SumFunctionOnSet(g, s)}
<1>0. /\ T \subseteq SUBSET S
      /\ \A s \in SUBSET S : s \in T <=> SumFunctionOnSet(f, s) # SumFunctionOnSet(g, s)
  OBVIOUS
<1>. HIDE DEF T
<1>1. ASSUME T # {}
      PROVE  FALSE
  <2>1. PICK s \in T : \A u \in T : u \subseteq s => u = s
    BY <1>0, <1>1, LeastSet
  <2>2. s \in SUBSET S /\ IsFiniteSet(s)
    BY <1>0, FS_Subset
  <2>3. s # {}
    <3>1. SumFunctionOnSet(f, {}) = 0 /\ SumFunctionOnSet(g, {}) = 0
      BY SumEmpty
    <3>2. {} \notin T
      BY <1>0, <3>1
    <3>. QED
      BY <3>2
  <2>4. /\ Pick(s) \in s
        /\ SumFunctionOnSet(f, s) = f[Pick(s)] + SumFunctionOnSet(f, s \ {Pick(s)})
        /\ SumFunctionOnSet(g, s) = g[Pick(s)] + SumFunctionOnSet(g, s \ {Pick(s)})
    BY <2>2, <2>3, SumStep
  <2>5. SumFunctionOnSet(f, s \ {Pick(s)}) = SumFunctionOnSet(g, s \ {Pick(s)})
    BY <1>0, <2>1, <2>2, <2>4
  <2>6. f[Pick(s)] = g[Pick(s)]
    BY <2>2, <2>4
  <2>. QED
    BY <1>0, <2>2, <2>4, <2>5, <2>6
<1>. QED
  BY <1>0, <1>1

\* A sum of zeros.
THEOREM SumZero ==
    ASSUME NEW f, NEW S, IsFiniteSet(S), \A x \in S : f[x] = 0
    PROVE  SumFunctionOnSet(f, S) = 0
<1>. DEFINE T == {s \in SUBSET S : SumFunctionOnSet(f, s) # 0}
<1>0. T \subseteq SUBSET S /\ \A s \in SUBSET S : s \in T <=> SumFunctionOnSet(f, s) # 0
  OBVIOUS
<1>. HIDE DEF T
<1>1. ASSUME T # {}
      PROVE  FALSE
  <2>1. PICK s \in T : \A u \in T : u \subseteq s => u = s
    BY <1>0, <1>1, LeastSet
  <2>2. s \in SUBSET S /\ IsFiniteSet(s)
    BY <1>0, FS_Subset
  <2>3. s # {}
    BY <1>0, <2>1, SumEmpty
  <2>4. /\ Pick(s) \in s
        /\ SumFunctionOnSet(f, s) = f[Pick(s)] + SumFunctionOnSet(f, s \ {Pick(s)})
    BY <2>2, <2>3, SumStep
  <2>5. SumFunctionOnSet(f, s \ {Pick(s)}) = 0 /\ f[Pick(s)] = 0
    BY <1>0, <2>1, <2>2, <2>4
  <2>. QED
    BY <1>0, <2>2, <2>4, <2>5
<1>. QED
  BY <1>0, <1>1

\* One value changes: so does the sum, by the difference.
THEOREM SumChange ==
    ASSUME NEW f, NEW g, NEW S, IsFiniteSet(S), NEW x \in S,
           \A y \in S : f[y] \in Int /\ g[y] \in Int /\ (y # x => f[y] = g[y])
    PROVE  SumFunctionOnSet(g, S) = SumFunctionOnSet(f, S) + g[x] - f[x]
<1>. DEFINE R == S \ {x}
<1>1. IsFiniteSet(R) /\ \A y \in R : f[y] = g[y] /\ f[y] \in Int
  BY FS_RemoveElement
<1>2. SumFunctionOnSet(f, S) = f[x] + SumFunctionOnSet(f, R)
  BY SumRemove
<1>3. SumFunctionOnSet(g, S) = g[x] + SumFunctionOnSet(g, R)
  BY SumRemove
<1>. HIDE DEF R
<1>4. SumFunctionOnSet(f, R) = SumFunctionOnSet(g, R) /\ SumFunctionOnSet(f, R) \in Int
  BY <1>1, SumSame, SumInt
<1>. QED
  BY <1>2, <1>3, <1>4

\* A sum of naturals is at least each of them.
THEOREM SumNat ==
    ASSUME NEW f, NEW S, IsFiniteSet(S), \A x \in S : f[x] \in Nat
    PROVE  /\ SumFunctionOnSet(f, S) \in Nat
           /\ \A x \in S : f[x] <= SumFunctionOnSet(f, S)
<1>. DEFINE T == {s \in SUBSET S : ~(SumFunctionOnSet(f, s) >= 0)}
<1>0. /\ T \subseteq SUBSET S
      /\ \A s \in SUBSET S : s \in T <=> ~(SumFunctionOnSet(f, s) >= 0)
  OBVIOUS
<1>. HIDE DEF T
<1>i. \A s \in SUBSET S : SumFunctionOnSet(f, s) \in Int
  <2>1. ASSUME NEW s \in SUBSET S
        PROVE  SumFunctionOnSet(f, s) \in Int
    <3>1. IsFiniteSet(s) /\ \A x \in s : f[x] \in Int
      BY FS_Subset
    <3>. QED
      BY <3>1, SumInt
  <2>. QED
    BY <2>1
<1>1. ASSUME T # {}
      PROVE  FALSE
  <2>1. PICK s \in T : \A u \in T : u \subseteq s => u = s
    BY <1>0, <1>1, LeastSet
  <2>2. s \in SUBSET S /\ IsFiniteSet(s)
    BY <1>0, FS_Subset
  <2>3. s # {}
    <3>1. SumFunctionOnSet(f, {}) = 0
      BY SumEmpty
    <3>2. {} \notin T
      BY <1>0, <3>1
    <3>. QED
      BY <3>2
  <2>4. /\ Pick(s) \in s
        /\ SumFunctionOnSet(f, s) = f[Pick(s)] + SumFunctionOnSet(f, s \ {Pick(s)})
    BY <2>2, <2>3, SumStep
  <2>5. s \ {Pick(s)} \in SUBSET S /\ SumFunctionOnSet(f, s \ {Pick(s)}) >= 0
    BY <1>0, <2>1, <2>2, <2>4
  <2>6. f[Pick(s)] \in Nat /\ SumFunctionOnSet(f, s \ {Pick(s)}) \in Int
    BY <1>i, <2>2, <2>4, <2>5
  <2>. QED
    BY <1>0, <2>2, <2>4, <2>5, <2>6
<1>2. \A s \in SUBSET S : SumFunctionOnSet(f, s) \in Nat
  BY <1>0, <1>1, <1>i
<1>3. ASSUME NEW x \in S
      PROVE  f[x] <= SumFunctionOnSet(f, S)
  <2>1. SumFunctionOnSet(f, S) = f[x] + SumFunctionOnSet(f, S \ {x})
    BY SumRemove
  <2>2. SumFunctionOnSet(f, S \ {x}) \in Nat /\ f[x] \in Nat
    BY <1>2
  <2>. QED
    BY <2>1, <2>2
<1>. QED
  BY <1>2, <1>3

\* A finite set of numbers has a smallest one.
THEOREM Smallest ==
    \A S : IsFiniteSet(S) /\ S \subseteq Nat /\ S # {} => \E m \in S : \A n \in S : m <= n
<1>. SUFFICES ASSUME NEW S
              PROVE  IsFiniteSet(S) /\ S \subseteq Nat /\ S # {} => \E m \in S : \A n \in S : m <= n
  OBVIOUS
<1>. DEFINE Up(t) == {u \in S : u <= t}
            D == {Up(t) : t \in S}
<1>1. ASSUME IsFiniteSet(S), S \subseteq Nat, S # {}
      PROVE  \E m \in S : \A n \in S : m <= n
  <2>0. IsFiniteSet(S)
    BY <1>1
  <2>1. D \subseteq SUBSET S /\ D # {}
    BY <1>1
  <2>2. /\ \A t \in S : Up(t) \in D
        /\ \A s \in D : \E t \in S : s = Up(t)
    OBVIOUS
  <2>3. \A t \in S : \A u : u \in Up(t) <=> u \in S /\ u <= t
    OBVIOUS
  <2>. HIDE DEF D, Up
  <2>4. PICK s \in D : \A u \in D : u \subseteq s => u = s
    BY <2>0, <2>1, LeastSet
  <2>5. PICK t \in S : s = Up(t)
    BY <2>2
  <2>6. ASSUME NEW u \in S, ~(t <= u)
        PROVE  FALSE
    <3>1. t \in Nat /\ u \in Nat /\ u <= t
      BY <1>1, <2>6
    <3>2. ASSUME NEW w \in Up(u)
          PROVE  w \in Up(t)
      <4>1. w \in Nat /\ w \in S /\ w <= u
        BY <1>1, <2>3, <3>2
      <4>. QED
        BY <2>3, <3>1, <4>1
    <3>3. t \in Up(t) /\ t \notin Up(u)
      BY <2>3, <2>6, <3>1
    <3>. QED
      BY <2>2, <2>5, <2>4, <3>2, <3>3
  <2>. QED
    BY <2>6
<1>. QED
  BY <1>1

\* And a largest one.
THEOREM Largest ==
    \A S : IsFiniteSet(S) /\ S \subseteq Nat /\ S # {} => \E m \in S : \A n \in S : n <= m
<1>. SUFFICES ASSUME NEW S
              PROVE  IsFiniteSet(S) /\ S \subseteq Nat /\ S # {} => \E m \in S : \A n \in S : n <= m
  OBVIOUS
<1>. DEFINE Up(t) == {u \in S : t <= u}
            D == {Up(t) : t \in S}
<1>1. ASSUME IsFiniteSet(S), S \subseteq Nat, S # {}
      PROVE  \E m \in S : \A n \in S : n <= m
  <2>0. IsFiniteSet(S)
    BY <1>1
  <2>1. D \subseteq SUBSET S /\ D # {}
    BY <1>1
  <2>2. /\ \A t \in S : Up(t) \in D
        /\ \A s \in D : \E t \in S : s = Up(t)
    OBVIOUS
  <2>3. \A t \in S : \A u : u \in Up(t) <=> u \in S /\ t <= u
    OBVIOUS
  <2>. HIDE DEF D, Up
  <2>4. PICK s \in D : \A u \in D : u \subseteq s => u = s
    BY <2>0, <2>1, LeastSet
  <2>5. PICK t \in S : s = Up(t)
    BY <2>2
  <2>6. ASSUME NEW u \in S, ~(u <= t)
        PROVE  FALSE
    <3>1. t \in Nat /\ u \in Nat /\ t <= u
      BY <1>1, <2>6
    <3>2. ASSUME NEW w \in Up(u)
          PROVE  w \in Up(t)
      <4>1. w \in Nat /\ w \in S /\ u <= w
        BY <1>1, <2>3, <3>2
      <4>. QED
        BY <2>3, <3>1, <4>1
    <3>3. t \in Up(t) /\ t \notin Up(u)
      BY <2>3, <2>6, <3>1
    <3>. QED
      BY <2>2, <2>5, <2>4, <3>2, <3>3
  <2>. QED
    BY <2>6
<1>. QED
  BY <1>1
-----------------------------------------------------------------------------
\* The sum of two functions.
THEOREM SumPlus ==
    ASSUME NEW f, NEW g, NEW h, NEW S, IsFiniteSet(S),
           \A x \in S : f[x] \in Int /\ g[x] \in Int /\ h[x] = f[x] + g[x]
    PROVE  SumFunctionOnSet(h, S) = SumFunctionOnSet(f, S) + SumFunctionOnSet(g, S)
<1>. DEFINE Adds(s) == SumFunctionOnSet(h, s) = SumFunctionOnSet(f, s) + SumFunctionOnSet(g, s)
            T == {s \in SUBSET S : ~Adds(s)}
<1>0. /\ T \subseteq SUBSET S
      /\ \A s \in SUBSET S : s \in T <=> ~Adds(s)
  OBVIOUS
<1>. HIDE DEF T
<1>1. ASSUME T # {}
      PROVE  FALSE
  <2>1. PICK s \in T : \A u \in T : u \subseteq s => u = s
    BY <1>0, <1>1, LeastSet
  <2>2. s \in SUBSET S /\ IsFiniteSet(s)
    BY <1>0, FS_Subset
  <2>3. s # {}
    <3>1. /\ SumFunctionOnSet(f, {}) = 0 /\ SumFunctionOnSet(g, {}) = 0
          /\ SumFunctionOnSet(h, {}) = 0
      BY SumEmpty
    <3>2. {} \notin T
      BY <1>0, <3>1
    <3>. QED
      BY <3>2
  <2>4. PICK c : c = Pick(s)
    OBVIOUS
  <2>5. PICK u : u = s \ {c}
    OBVIOUS
  <2>6. /\ c \in s
        /\ SumFunctionOnSet(f, s) = f[c] + SumFunctionOnSet(f, u)
        /\ SumFunctionOnSet(g, s) = g[c] + SumFunctionOnSet(g, u)
        /\ SumFunctionOnSet(h, s) = h[c] + SumFunctionOnSet(h, u)
    BY <2>2, <2>3, <2>4, <2>5, SumStep
  <2>7. u \in SUBSET S /\ u \notin T
    BY <2>1, <2>2, <2>5, <2>6
  <2>8. SumFunctionOnSet(f, u) \in Int /\ SumFunctionOnSet(g, u) \in Int
    <3>1. IsFiniteSet(u) /\ \A x \in u : f[x] \in Int /\ g[x] \in Int
      BY <2>7, FS_Subset
    <3>. QED
      BY <3>1, SumInt
  <2>9. SumFunctionOnSet(h, u) = SumFunctionOnSet(f, u) + SumFunctionOnSet(g, u)
    BY <1>0, <2>7
  <2>10. f[c] \in Int /\ g[c] \in Int /\ h[c] = f[c] + g[c]
    BY <2>2, <2>6
  <2>11. Adds(s)
    BY <2>6, <2>8, <2>9, <2>10
  <2>. QED
    BY <1>0, <2>2, <2>11
<1>2. S \notin T
  BY <1>1
<1>. QED
  BY <1>0, <1>2

\* The sum of one value for each index.
THEOREM SumConst ==
    ASSUME NEW f, NEW S, IsFiniteSet(S), NEW c \in Int, \A x \in S : f[x] = c
    PROVE  SumFunctionOnSet(f, S) = c * Cardinality(S)
<1>. DEFINE Counts(s) == SumFunctionOnSet(f, s) = c * Cardinality(s)
            T == {s \in SUBSET S : ~Counts(s)}
<1>0. /\ T \subseteq SUBSET S
      /\ \A s \in SUBSET S : s \in T <=> ~Counts(s)
  OBVIOUS
<1>. HIDE DEF T
<1>1. ASSUME T # {}
      PROVE  FALSE
  <2>1. PICK s \in T : \A u \in T : u \subseteq s => u = s
    BY <1>0, <1>1, LeastSet
  <2>2. s \in SUBSET S /\ IsFiniteSet(s)
    BY <1>0, FS_Subset
  <2>3. s # {}
    <3>1. SumFunctionOnSet(f, {}) = 0 /\ Cardinality({}) = 0
      BY SumEmpty, FS_EmptySet
    <3>2. Counts({})
      BY <3>1
    <3>. QED
      BY <1>0, <2>1, <3>2
  <2>4. PICK u : u = s \ {Pick(s)}
    OBVIOUS
  <2>5. Pick(s) \in s /\ SumFunctionOnSet(f, s) = f[Pick(s)] + SumFunctionOnSet(f, u)
    BY <2>2, <2>3, <2>4, SumStep
  <2>6. u \in SUBSET S /\ u \notin T
    BY <2>1, <2>2, <2>4, <2>5
  <2>7. f[Pick(s)] = c /\ SumFunctionOnSet(f, u) = c * Cardinality(u)
    BY <1>0, <2>2, <2>5, <2>6
  <2>8. PICK n \in Nat : n = Cardinality(u)
    BY <2>6, FS_Subset, FS_CardinalityType
  <2>9. Cardinality(s) = n + 1
    <3>1. IsFiniteSet(u) /\ s = u \cup {Pick(s)} /\ Pick(s) \notin u
      BY <2>4, <2>5, <2>6, FS_Subset
    <3>. QED
      BY <2>8, <3>1, FS_AddElement
  <2>10. c + c * n = c * (n + 1)
    BY <2>8
  <2>11. Counts(s)
    BY <2>5, <2>7, <2>8, <2>9, <2>10
  <2>. QED
    BY <1>0, <2>2, <2>11
<1>2. S \notin T
  BY <1>1
<1>. QED
  BY <1>0, <1>2

\* A common factor of the terms is a factor of the sum.
THEOREM SumScale ==
    ASSUME NEW f, NEW g, NEW S, IsFiniteSet(S), NEW c \in Int,
           \A x \in S : g[x] \in Int /\ f[x] = c * g[x]
    PROVE  SumFunctionOnSet(f, S) = c * SumFunctionOnSet(g, S)
<1>. DEFINE Scales(s) == SumFunctionOnSet(f, s) = c * SumFunctionOnSet(g, s)
            T == {s \in SUBSET S : ~Scales(s)}
<1>0. /\ T \subseteq SUBSET S
      /\ \A s \in SUBSET S : s \in T <=> ~Scales(s)
  OBVIOUS
<1>. HIDE DEF T
<1>1. ASSUME T # {}
      PROVE  FALSE
  <2>1. PICK s \in T : \A u \in T : u \subseteq s => u = s
    BY <1>0, <1>1, LeastSet
  <2>2. s \in SUBSET S /\ IsFiniteSet(s)
    BY <1>0, FS_Subset
  <2>3. s # {}
    <3>1. SumFunctionOnSet(f, {}) = 0 /\ SumFunctionOnSet(g, {}) = 0
      BY SumEmpty
    <3>2. Scales({})
      BY <3>1
    <3>. QED
      BY <1>0, <2>1, <3>2
  <2>4. PICK u : u = s \ {Pick(s)}
    OBVIOUS
  <2>5. /\ Pick(s) \in s /\ SumFunctionOnSet(f, s) = f[Pick(s)] + SumFunctionOnSet(f, u)
        /\ SumFunctionOnSet(g, s) = g[Pick(s)] + SumFunctionOnSet(g, u)
    BY <2>2, <2>3, <2>4, SumStep
  <2>6. u \in SUBSET S /\ u \notin T /\ IsFiniteSet(u)
    BY <2>1, <2>2, <2>4, <2>5, FS_Subset
  <2>7. SumFunctionOnSet(f, u) = c * SumFunctionOnSet(g, u)
    BY <1>0, <2>6
  <2>8. PICK n \in Int : n = SumFunctionOnSet(g, u)
    BY <2>6, SumInt
  <2>9. PICK i \in Int : i = g[Pick(s)] /\ f[Pick(s)] = c * i
    BY <2>2, <2>5
  <2>10. c * i + c * n = c * (i + n)
    OBVIOUS
  <2>11. Scales(s)
    BY <2>5, <2>7, <2>8, <2>9, <2>10
  <2>. QED
    BY <1>0, <2>2, <2>11
<1>2. S \notin T
  BY <1>1
<1>. QED
  BY <1>0, <1>2

\* The differences of successive values add up to the difference of the ends.
THEOREM SumTelescope ==
    ASSUME NEW lo \in Int, NEW hi \in Int, lo <= hi, NEW D, NEW f,
           \A i \in lo .. hi : D[i] \in Int,
           \A i \in lo + 1 .. hi : f[i] = D[i] - D[i - 1]
    PROVE  SumFunctionOnSet(f, lo + 1 .. hi) = D[hi] - D[lo]
<1>. DEFINE Ends(n) == SumFunctionOnSet(f, lo + 1 .. lo + n) = D[lo + n] - D[lo]
            T == {n \in 0 .. hi - lo : ~Ends(n)}
<1>0. /\ T \subseteq 0 .. hi - lo
      /\ \A n \in 0 .. hi - lo : n \in T <=> ~Ends(n)
  OBVIOUS
<1>f. \A i \in lo + 1 .. hi : f[i] \in Int
  <2>1. ASSUME NEW i \in lo + 1 .. hi
        PROVE  f[i] \in Int
    <3>1. i \in lo .. hi /\ i - 1 \in lo .. hi
      OBVIOUS
    <3>. QED
      BY <3>1
  <2>. QED
    BY <2>1
<1>1. Ends(0)
  <2>1. lo + 1 .. lo + 0 = {} /\ lo + 0 = lo /\ D[lo] \in Int
    OBVIOUS
  <2>2. SumFunctionOnSet(f, {}) = 0
    BY SumEmpty
  <2>3. SumFunctionOnSet(f, lo + 1 .. lo + 0) = 0
    BY <2>1, <2>2
  <2>. QED
    BY <2>1, <2>3
<1>2. ASSUME NEW n \in 1 .. hi - lo, Ends(n - 1)
      PROVE  Ends(n)
  <2>1. PICK j : j = lo + n
    OBVIOUS
  <2>2. j \in lo + 1 .. hi /\ lo + (n - 1) = j - 1 /\ j - 1 \in lo .. hi /\ j \in lo .. hi
    BY <2>1
  <2>3. PICK S : S = lo + 1 .. j - 1
    OBVIOUS
  <2>4. IsFiniteSet(S) /\ j \notin S /\ lo + 1 .. j = S \cup {j} /\ \A i \in S \cup {j} : i \in lo + 1 .. hi
    <3>1. IsFiniteSet(lo + 1 .. j - 1)
      BY <2>2, FS_Interval
    <3>. QED
      BY <2>2, <2>3, <3>1
  <2>5. SumFunctionOnSet(f, S \cup {j}) = f[j] + SumFunctionOnSet(f, S)
    BY <1>f, <2>4, SumAdd
  <2>6. SumFunctionOnSet(f, S) = D[j - 1] - D[lo]
    BY <1>2, <2>2, <2>3
  <2>7. f[j] = D[j] - D[j - 1] /\ D[j] \in Int /\ D[j - 1] \in Int /\ D[lo] \in Int
    BY <2>2
  <2>8. SumFunctionOnSet(f, lo + 1 .. j) = D[j] - D[lo]
    <3>1. SumFunctionOnSet(f, lo + 1 .. j) = f[j] + SumFunctionOnSet(f, S)
      BY <2>4, <2>5
    <3>2. PICK x \in Int, y \in Int, z \in Int : x = D[j] /\ y = D[j - 1] /\ z = D[lo]
      BY <2>7
    <3>3. f[j] = x - y /\ SumFunctionOnSet(f, S) = y - z
      BY <2>6, <2>7, <3>2
    <3>4. (x - y) + (y - z) = x - z
      OBVIOUS
    <3>. QED
      BY <3>1, <3>2, <3>3, <3>4
  <2>. QED
    BY <2>1, <2>8
<1>. HIDE DEF T, Ends
<1>3. ASSUME T # {}
      PROVE  FALSE
  <2>1. T \subseteq Nat /\ IsFiniteSet(T)
    <3>1. IsFiniteSet(0 .. hi - lo)
      BY FS_Interval
    <3>2. T \subseteq Nat
      BY <1>0
    <3>3. IsFiniteSet(T)
      BY <1>0, <3>1, FS_Subset
    <3>. QED
      BY <3>2, <3>3
  <2>2. PICK n \in T : \A i \in T : n <= i
    BY <1>3, <2>1, Smallest
  <2>3. n \in 0 .. hi - lo /\ ~Ends(n)
    BY <1>0, <2>2
  <2>4. n # 0
    BY <1>1, <2>3
  <2>5. n - 1 \notin T /\ n \in 1 .. hi - lo /\ n - 1 \in 0 .. hi - lo
    BY <2>1, <2>2, <2>3, <2>4
  <2>. QED
    BY <1>0, <1>2, <2>3, <2>5
<1>4. hi - lo \in 0 .. hi - lo /\ lo + (hi - lo) = hi
  OBVIOUS
<1>5. Ends(hi - lo)
  BY <1>0, <1>3, <1>4
<1>. QED
  BY <1>4, <1>5 DEF Ends

\* A sum over two sets that have nothing in common.
THEOREM SumUnion ==
    ASSUME NEW f, NEW R, NEW S, IsFiniteSet(R), IsFiniteSet(S), R \cap S = {},
           \A x \in R \cup S : f[x] \in Int
    PROVE  SumFunctionOnSet(f, R \cup S) = SumFunctionOnSet(f, R) + SumFunctionOnSet(f, S)
<1>. DEFINE Adds(s) == SumFunctionOnSet(f, R \cup s) = SumFunctionOnSet(f, R) + SumFunctionOnSet(f, s)
            T == {s \in SUBSET S : ~Adds(s)}
<1>0. /\ T \subseteq SUBSET S
      /\ \A s \in SUBSET S : s \in T <=> ~Adds(s)
  OBVIOUS
<1>. HIDE DEF T
<1>1. ASSUME T # {}
      PROVE  FALSE
  <2>1. PICK s \in T : \A u \in T : u \subseteq s => u = s
    BY <1>0, <1>1, LeastSet
  <2>2. s \in SUBSET S /\ IsFiniteSet(s)
    BY <1>0, FS_Subset
  <2>3. s # {}
    <3>1. SumFunctionOnSet(f, {}) = 0 /\ R \cup {} = R /\ SumFunctionOnSet(f, R) \in Int
      BY SumEmpty, SumInt
    <3>2. Adds({})
      BY <3>1
    <3>. QED
      BY <1>0, <2>1, <3>2
  <2>4. PICK x \in s : TRUE
    BY <2>3
  <2>5. PICK u : u = s \ {x}
    OBVIOUS
  <2>6. u \in SUBSET S /\ u \notin T /\ IsFiniteSet(u) /\ IsFiniteSet(R \cup u)
    BY <2>1, <2>2, <2>4, <2>5, FS_Subset, FS_Union
  <2>7. SumFunctionOnSet(f, R \cup u) = SumFunctionOnSet(f, R) + SumFunctionOnSet(f, u)
    BY <1>0, <2>6
  <2>8. x \notin R \cup u /\ x \notin u /\ s = u \cup {x} /\ R \cup s = (R \cup u) \cup {x}
    BY <2>2, <2>4, <2>5
  <2>9. \A y \in (R \cup u) \cup {x} : f[y] \in Int
    BY <2>2, <2>4, <2>6
  <2>10. /\ SumFunctionOnSet(f, (R \cup u) \cup {x}) = f[x] + SumFunctionOnSet(f, R \cup u)
         /\ SumFunctionOnSet(f, u \cup {x}) = f[x] + SumFunctionOnSet(f, u)
    BY <2>6, <2>8, <2>9, SumAdd
  <2>11. f[x] \in Int /\ SumFunctionOnSet(f, R) \in Int /\ SumFunctionOnSet(f, u) \in Int
    BY <2>6, <2>9, SumInt
  <2>12. /\ SumFunctionOnSet(f, R \cup s) = f[x] + SumFunctionOnSet(f, R \cup u)
         /\ SumFunctionOnSet(f, s) = f[x] + SumFunctionOnSet(f, u)
    BY <2>8, <2>10
  <2>13. Adds(s)
    BY <2>7, <2>11, <2>12
  <2>. QED
    BY <1>0, <2>2, <2>13
<1>2. S \notin T
  BY <1>1
<1>. QED
  BY <1>0, <1>2

\* A sum of larger terms is larger.
THEOREM SumMono ==
    ASSUME NEW f, NEW g, NEW S, IsFiniteSet(S),
           \A x \in S : f[x] \in Int /\ g[x] \in Int /\ f[x] <= g[x]
    PROVE  SumFunctionOnSet(f, S) <= SumFunctionOnSet(g, S)
<1>1. PICK d : d = [x \in S |-> g[x] - f[x]]
  OBVIOUS
<1>2. \A x \in S : d[x] \in Nat /\ d[x] \in Int /\ g[x] = f[x] + d[x]
  BY <1>1
<1>3. SumFunctionOnSet(g, S) = SumFunctionOnSet(f, S) + SumFunctionOnSet(d, S)
  BY <1>2, SumPlus
<1>4. SumFunctionOnSet(f, S) \in Int /\ SumFunctionOnSet(d, S) \in Nat
  BY <1>2, SumInt, SumNat
<1>. QED
  BY <1>3, <1>4

\* A sum of naturals over fewer indices is no larger.
THEOREM SumSubset ==
    ASSUME NEW f, NEW S, IsFiniteSet(S), NEW U \in SUBSET S, \A x \in S : f[x] \in Nat
    PROVE  SumFunctionOnSet(f, U) <= SumFunctionOnSet(f, S)
<1>. DEFINE Less(s) == SumFunctionOnSet(f, U) <= SumFunctionOnSet(f, s)
            T == {s \in SUBSET S : U \subseteq s /\ ~Less(s)}
<1>0. /\ T \subseteq SUBSET S
      /\ \A s \in SUBSET S : s \in T <=> (U \subseteq s /\ ~Less(s))
  OBVIOUS
<1>1. \A s \in SUBSET S : SumFunctionOnSet(f, s) \in Nat
  <2>1. ASSUME NEW s \in SUBSET S
        PROVE  SumFunctionOnSet(f, s) \in Nat
    <3>1. IsFiniteSet(s) /\ \A x \in s : f[x] \in Nat
      BY FS_Subset
    <3>. QED
      BY <3>1, SumNat
  <2>. QED
    BY <2>1
<1>. HIDE DEF T
<1>2. ASSUME T # {}
      PROVE  FALSE
  <2>1. PICK s \in T : \A u \in T : u \subseteq s => u = s
    BY <1>0, <1>2, LeastSet
  <2>2. s \in SUBSET S /\ IsFiniteSet(s) /\ U \subseteq s /\ ~Less(s)
    BY <1>0, FS_Subset
  <2>3. Less(U)
    BY <1>1
  <2>4. PICK x \in s : x \notin U
    BY <2>2, <2>3
  <2>5. PICK u \in SUBSET S : u = s \ {x}
    BY <2>2
  <2>6. SumFunctionOnSet(f, s) = f[x] + SumFunctionOnSet(f, u)
    <3>1. \A y \in s : f[y] \in Int
      BY <2>2
    <3>. QED
      BY <2>2, <2>5, <3>1, SumRemove
  <2>7. Less(u)
    BY <1>0, <2>1, <2>2, <2>4, <2>5
  <2>8. SumFunctionOnSet(f, u) \in Nat /\ SumFunctionOnSet(f, U) \in Nat /\ f[x] \in Nat
    BY <1>1, <2>2, <2>5
  <2>9. Less(s)
    BY <2>6, <2>7, <2>8
  <2>. QED
    BY <2>2, <2>9
<1>3. S \notin T
  BY <1>2
<1>. QED
  BY <1>0, <1>3

\* The indices are renamed.
THEOREM SumRenamed ==
    ASSUME NEW f, NEW g, NEW m, NEW S, NEW R, IsFiniteSet(S), m \in Bijection(R, S),
           \A x \in R : g[x] = f[m[x]] /\ g[x] \in Int
    PROVE  SumFunctionOnSet(g, R) = SumFunctionOnSet(f, S) /\ IsFiniteSet(R)
<1>a. /\ m \in [R -> S] /\ \A x, y \in R : m[x] = m[y] => x = y
      /\ \A t \in S : \E x \in R : m[x] = t
  BY DEF Bijection, Injection, Surjection, IsInjective
<1>b. IsFiniteSet(R)
  BY FS_Injection DEF Bijection
<1>. DEFINE Im(s) == {m[x] : x \in s}
            Same(s) == SumFunctionOnSet(g, s) = SumFunctionOnSet(f, Im(s))
            T == {s \in SUBSET R : ~Same(s)}
<1>0. /\ T \subseteq SUBSET R
      /\ \A s \in SUBSET R : s \in T <=> ~Same(s)
  OBVIOUS
<1>. HIDE DEF T
<1>1. ASSUME T # {}
      PROVE  FALSE
  <2>1. PICK s \in T : \A u \in T : u \subseteq s => u = s
    BY <1>b, <1>0, <1>1, LeastSet
  <2>2. s \in SUBSET R /\ IsFiniteSet(s)
    BY <1>b, <1>0, FS_Subset
  <2>3. s # {}
    <3>1. SumFunctionOnSet(g, {}) = 0 /\ SumFunctionOnSet(f, {}) = 0 /\ Im({}) = {}
      BY SumEmpty
    <3>2. Same({})
      BY <3>1
    <3>. QED
      BY <1>0, <2>1, <3>2
  <2>4. PICK c : c = Pick(s)
    OBVIOUS
  <2>5. PICK u : u = s \ {c}
    OBVIOUS
  <2>6. c \in s /\ SumFunctionOnSet(g, s) = g[c] + SumFunctionOnSet(g, u)
    BY <2>2, <2>3, <2>4, <2>5, SumStep
  <2>7. u \in SUBSET R /\ u \notin T
    BY <2>1, <2>2, <2>5, <2>6
  <2>8. Same(u)
    BY <1>0, <2>7
  <2>9. PICK v : v = Im(u)
    OBVIOUS
  <2>10. v \in SUBSET S /\ m[c] \notin v /\ Im(s) = v \cup {m[c]} /\ m[c] \in S
    BY <1>a, <2>2, <2>5, <2>6, <2>7, <2>9
  <2>11. IsFiniteSet(v) /\ \A y \in v \cup {m[c]} : f[y] \in Int
    <3>1. \A y \in S : f[y] \in Int
      BY <1>a
    <3>. QED
      BY <2>10, <3>1, FS_Subset
  <2>12. SumFunctionOnSet(f, v \cup {m[c]}) = f[m[c]] + SumFunctionOnSet(f, v)
    BY <2>10, <2>11, SumAdd
  <2>13. g[c] = f[m[c]]
    BY <2>2, <2>6
  <2>14. Same(s)
    BY <2>6, <2>8, <2>9, <2>10, <2>12, <2>13
  <2>. QED
    BY <1>0, <2>2, <2>14
<1>2. R \notin T
  BY <1>1
<1>3. Same(R) /\ Im(R) = S
  BY <1>0, <1>2, <1>a
<1>. QED
  BY <1>b, <1>3

\* The indices are put in classes: the sum is the sum of the classes' sums.
Class(S, k, d) == {x \in S : k[x] = d}
Classes(f, S, k, D) == [d \in D |-> SumFunctionOnSet(f, Class(S, k, d))]

\* Summing within each class, and then the classes, sums everything.
THEOREM SumClasses ==
    ASSUME NEW f, NEW S, IsFiniteSet(S), NEW D, IsFiniteSet(D), NEW k,
           \A x \in S : f[x] \in Int /\ k[x] \in D
    PROVE  SumFunctionOnSet(Classes(f, S, k, D), D) = SumFunctionOnSet(f, S)
<1>. DEFINE Splits(s) == SumFunctionOnSet(Classes(f, s, k, D), D) = SumFunctionOnSet(f, s)
            T == {s \in SUBSET S : ~Splits(s)}
<1>0. /\ T \subseteq SUBSET S
      /\ \A s \in SUBSET S : s \in T <=> ~Splits(s)
  OBVIOUS
<1>1. \A s \in SUBSET S : SumFunctionOnSet(f, s) \in Int
  <2>1. ASSUME NEW s \in SUBSET S
        PROVE  SumFunctionOnSet(f, s) \in Int
    <3>1. IsFiniteSet(s) /\ \A x \in s : f[x] \in Int
      BY FS_Subset
    <3>. QED
      BY <3>1, SumInt
  <2>. QED
    BY <2>1
<1>. HIDE DEF T
<1>2. ASSUME T # {}
      PROVE  FALSE
  <2>1. PICK s \in T : \A u \in T : u \subseteq s => u = s
    BY <1>0, <1>2, LeastSet
  <2>2. s \in SUBSET S /\ IsFiniteSet(s)
    BY <1>0, FS_Subset
  <2>3. s # {}
    <3>1. \A d \in D : Classes(f, {}, k, D)[d] = 0
      BY SumEmpty DEF Classes, Class
    <3>2. SumFunctionOnSet(Classes(f, {}, k, D), D) = 0
      BY <3>1, SumZero
    <3>3. Splits({})
      BY <3>2, SumEmpty
    <3>. QED
      BY <1>0, <2>1, <3>3
  <2>4. PICK c : c \in s
    BY <2>3
  <2>5. PICK u : u = s \ {c}
    OBVIOUS
  <2>6. u \in SUBSET S /\ u \notin T
    BY <2>1, <2>2, <2>4, <2>5
  <2>7. SumFunctionOnSet(f, s) = f[c] + SumFunctionOnSet(f, u)
    <3>1. \A y \in s : f[y] \in Int
      BY <2>2
    <3>. QED
      BY <2>2, <2>4, <2>5, <3>1, SumRemove
  <2>8. PICK e \in D : e = k[c]
    BY <2>2, <2>4
  <2>9. Class(s, k, e) = Class(u, k, e) \cup {c} /\ c \notin Class(u, k, e)
    BY <2>4, <2>5, <2>8 DEF Class
  <2>10. \A d \in D : d # e => Class(s, k, d) = Class(u, k, d)
    BY <2>4, <2>5, <2>8 DEF Class
  <2>11. \A d \in D : Class(u, k, d) \in SUBSET S /\ Class(s, k, d) \in SUBSET S
    BY <2>2, <2>6 DEF Class
  <2>12. SumFunctionOnSet(f, Class(s, k, e)) = f[c] + SumFunctionOnSet(f, Class(u, k, e))
    <3>1. PICK v : v = Class(u, k, e)
      OBVIOUS
    <3>2. IsFiniteSet(v) /\ c \notin v /\ \A y \in v \cup {c} : f[y] \in Int
      BY <2>2, <2>4, <2>9, <2>11, <3>1, FS_Subset
    <3>3. SumFunctionOnSet(f, v \cup {c}) = f[c] + SumFunctionOnSet(f, v)
      BY <3>2, SumAdd
    <3>. QED
      BY <2>9, <3>1, <3>3
  <2>13. PICK a : a = Classes(f, u, k, D)
    OBVIOUS
  <2>14. PICK b : b = Classes(f, s, k, D)
    OBVIOUS
  <2>15. \A d \in D : a[d] \in Int /\ b[d] \in Int /\ (d # e => a[d] = b[d])
    BY <1>1, <2>10, <2>11, <2>13, <2>14 DEF Classes
  <2>16. b[e] = f[c] + a[e]
    BY <2>12, <2>13, <2>14 DEF Classes
  <2>17. SumFunctionOnSet(b, D) = SumFunctionOnSet(a, D) + b[e] - a[e]
    BY <2>15, SumChange
  <2>18. SumFunctionOnSet(a, D) = SumFunctionOnSet(f, u)
    BY <1>0, <2>6, <2>13
  <2>19. f[c] \in Int /\ a[e] \in Int /\ SumFunctionOnSet(f, u) \in Int
    BY <1>1, <2>2, <2>4, <2>6, <2>15
  <2>20. SumFunctionOnSet(b, D) = f[c] + SumFunctionOnSet(f, u)
    BY <2>16, <2>17, <2>18, <2>19
  <2>21. Splits(s)
    BY <2>7, <2>14, <2>20
  <2>. QED
    BY <1>0, <2>2, <2>21
<1>3. S \notin T
  BY <1>2
<1>. QED
  BY <1>0, <1>3

\* Rows and columns: the sum of the rows' sums is the sum of the columns'.
Across(f, x, D) == [d \in D |-> f[<<x, d>>]]
Down(f, S, d) == [x \in S |-> f[<<x, d>>]]
IsTable(f, S, D) == \A x \in S, d \in D : f[<<x, d>>] \in Int

\* A table is summed by rows or by columns.
THEOREM SumSwap ==
    ASSUME NEW f, NEW S, IsFiniteSet(S), NEW D, IsFiniteSet(D), IsTable(f, S, D),
           NEW r, \A x \in S : r[x] = SumFunctionOnSet(Across(f, x, D), D),
           NEW c, \A d \in D : c[d] = SumFunctionOnSet(Down(f, S, d), S)
    PROVE  SumFunctionOnSet(r, S) = SumFunctionOnSet(c, D)
<1>. USE DEF IsTable
<1>. DEFINE Part(s) == [d \in D |-> SumFunctionOnSet(Down(f, S, d), s)]
            Swaps(s) == SumFunctionOnSet(r, s) = SumFunctionOnSet(Part(s), D)
            T == {s \in SUBSET S : ~Swaps(s)}
<1>0. T \subseteq SUBSET S /\ \A s \in SUBSET S : s \in T <=> ~Swaps(s)
  OBVIOUS
<1>1. \A s \in SUBSET S, d \in D : SumFunctionOnSet(Down(f, S, d), s) \in Int
  <2>1. ASSUME NEW s \in SUBSET S, NEW d \in D
        PROVE  SumFunctionOnSet(Down(f, S, d), s) \in Int
    <3>1. IsFiniteSet(s)
      BY FS_Subset
    <3>2. \A x \in s : Down(f, S, d)[x] \in Int
      BY DEF Down
    <3>. QED
      BY <3>1, <3>2, SumInt
  <2>. QED
    BY <2>1
<1>2. \A x \in S : r[x] \in Int
  <2>1. ASSUME NEW x \in S
        PROVE  SumFunctionOnSet(Across(f, x, D), D) \in Int
    <3>1. \A d \in D : Across(f, x, D)[d] \in Int
      BY DEF Across
    <3>. QED
      BY <3>1, SumInt
  <2>. QED
    BY <2>1
<1>. HIDE DEF T
<1>3. ASSUME T # {}
      PROVE  FALSE
  <2>1. PICK s \in T : \A u \in T : u \subseteq s => u = s
    BY <1>0, <1>3, LeastSet
  <2>2. s \in SUBSET S /\ IsFiniteSet(s)
    BY <1>0, FS_Subset
  <2>3. s # {}
    <3>1. \A d \in D : Part({})[d] = 0
      BY SumEmpty
    <3>2. SumFunctionOnSet(Part({}), D) = 0
      BY <3>1, SumZero
    <3>3. Swaps({})
      BY <3>2, SumEmpty
    <3>. QED
      BY <1>0, <2>1, <3>3
  <2>4. PICK x : x \in s
    BY <2>3
  <2>5. PICK u : u = s \ {x}
    OBVIOUS
  <2>6. u \in SUBSET S /\ u \notin T
    BY <2>1, <2>2, <2>4, <2>5
  <2>7. SumFunctionOnSet(r, s) = r[x] + SumFunctionOnSet(r, u)
    BY <1>2, <2>2, <2>4, <2>5, SumRemove
  <2>8. \A d \in D : Part(s)[d] = f[<<x, d>>] + Part(u)[d]
    <3>1. ASSUME NEW d \in D
          PROVE  SumFunctionOnSet(Down(f, S, d), s) = f[<<x, d>>] + SumFunctionOnSet(Down(f, S, d), u)
      <4>1. PICK g : g = Down(f, S, d)
        OBVIOUS
      <4>2. \A y \in S : g[y] \in Int /\ g[y] = f[<<y, d>>]
        BY <4>1 DEF Down
      <4>3. \A y \in s : g[y] \in Int
        BY <2>2, <4>2
      <4>4. SumFunctionOnSet(g, s) = g[x] + SumFunctionOnSet(g, u)
        BY <2>2, <2>4, <2>5, <4>3, SumRemove
      <4>. QED
        BY <2>2, <2>4, <4>1, <4>2, <4>4
    <3>. QED
      BY <3>1
  <2>9. SumFunctionOnSet(Part(s), D) = SumFunctionOnSet(Across(f, x, D), D) + SumFunctionOnSet(Part(u), D)
    <3>1. PICK a : a = Across(f, x, D)
      OBVIOUS
    <3>2. PICK b : b = Part(u)
      OBVIOUS
    <3>3. PICK h : h = Part(s)
      OBVIOUS
    <3>4. \A d \in D : a[d] \in Int /\ b[d] \in Int
      BY <1>1, <2>2, <2>4, <2>6, <3>1, <3>2 DEF Across
    <3>5. \A d \in D : h[d] = a[d] + b[d]
      BY <2>8, <3>1, <3>2, <3>3 DEF Across
    <3>6. SumFunctionOnSet(h, D) = SumFunctionOnSet(a, D) + SumFunctionOnSet(b, D)
      BY <3>4, <3>5, SumPlus
    <3>. QED
      BY <3>1, <3>2, <3>3, <3>6
  <2>10. Swaps(u)
    BY <1>0, <2>6
  <2>11. Swaps(s)
    BY <2>2, <2>4, <2>7, <2>9, <2>10
  <2>. QED
    BY <1>0, <2>2, <2>11
<1>4. Swaps(S)
  BY <1>0, <1>3
<1>5. SumFunctionOnSet(Part(S), D) = SumFunctionOnSet(c, D)
  <2>1. \A d \in D : Part(S)[d] = c[d]
    OBVIOUS
  <2>. HIDE DEF Part
  <2>. QED
    BY <2>1, SumSame
<1>. QED
  BY <1>4, <1>5

\* One index has a value, the others none.
THEOREM SumSingle ==
    ASSUME NEW f, NEW S, IsFiniteSet(S), NEW x \in S, f[x] \in Int, \A y \in S : y # x => f[y] = 0
    PROVE  SumFunctionOnSet(f, S) = f[x]
<1>1. PICK R : R = S \ {x}
  OBVIOUS
<1>2. IsFiniteSet(R) /\ \A y \in R : f[y] = 0
  BY <1>1, FS_RemoveElement
<1>3. SumFunctionOnSet(f, R) = 0
  BY <1>2, SumZero
<1>4. \A y \in S : f[y] \in Int
  OBVIOUS
<1>5. SumFunctionOnSet(f, S) = f[x] + SumFunctionOnSet(f, R)
  BY <1>1, <1>4, SumRemove
<1>. QED
  BY <1>3, <1>5
-----------------------------------------------------------------------------
\* G defines a function on S from its own values below each argument.
Recursive(G, S, V) ==
    /\ G \in [[S -> V] \X S -> V]
    /\ \A f, g \in [S -> V], m \in S : (\A x \in S : x < m => f[x] = g[x]) => G[<<f, m>>] = G[<<g, m>>]
Solves(F, G, S) == \A m \in S : F[m] = G[<<F, m>>]

\* A function on a finite set of numbers that is defined from its own values
\* below each argument exists.
THEOREM Recursion ==
    ASSUME NEW S, IsFiniteSet(S), S \subseteq Nat, NEW V, V # {}, NEW G, Recursive(G, S, V)
    PROVE  \E F \in [S -> V] : Solves(F, G, S)
<1>. USE DEF Recursive, Solves
<1>. DEFINE Upto(n) == \E F \in [S -> V] : \A m \in S : m < n => F[m] = G[<<F, m>>]
<1>1. PICK hi \in Nat : \A m \in S : m < hi
  <2>1. CASE S = {}
    BY <2>1
  <2>2. CASE S # {}
    <3>1. PICK k \in S : \A m \in S : m <= k
      BY <2>2, Largest
    <3>2. k + 1 \in Nat /\ \A m \in S : m < k + 1
      BY <3>1
    <3>. QED
      BY <3>2
  <2>. QED
    BY <2>1, <2>2
<1>2. PICK T : T = {n \in 0 .. hi : ~Upto(n)}
  OBVIOUS
<1>. HIDE DEF Upto
<1>3. ASSUME T # {}
      PROVE  FALSE
  <2>1. IsFiniteSet(T) /\ T \subseteq Nat
    <3>1. IsFiniteSet(0 .. hi)
      BY FS_Interval
    <3>. QED
      BY <1>2, <3>1, FS_Subset
  <2>2. PICK n \in T : \A t \in T : n <= t
    BY <1>3, <2>1, Smallest
  <2>3. n \in 0 .. hi /\ ~Upto(n)
    BY <1>2
  <2>4. n # 0
    <3>1. PICK v \in V : TRUE
      OBVIOUS
    <3>2. PICK F : F = [x \in S |-> v]
      OBVIOUS
    <3>3. F \in [S -> V] /\ \A m \in S : ~(m < 0)
      BY <3>2
    <3>4. Upto(0)
      BY <3>3 DEF Upto
    <3>. QED
      BY <2>3, <3>4
  <2>5. PICK k \in Nat : n = k + 1 /\ k \in 0 .. hi
    BY <2>3, <2>4
  <2>6. Upto(k)
    <3>1. ~(n <= k)
      BY <2>5
    <3>. QED
      BY <1>2, <2>2, <2>5, <3>1
  <2>7. PICK F \in [S -> V] : \A m \in S : m < k => F[m] = G[<<F, m>>]
    BY <2>6 DEF Upto
  <2>8. CASE k \notin S
    <3>1. \A m \in S : m < n => m < k
      BY <2>5, <2>8
    <3>. QED
      BY <2>3, <2>7, <3>1 DEF Upto
  <2>9. CASE k \in S
    <3>1. PICK v : v = G[<<F, k>>]
      OBVIOUS
    <3>2. v \in V
      BY <2>9, <3>1
    <3>3. PICK H : H = [F EXCEPT ![k] = v]
      OBVIOUS
    <3>4. H \in [S -> V] /\ H[k] = v /\ \A x \in S : x # k => H[x] = F[x]
      BY <2>9, <3>2, <3>3
    <3>5. ASSUME NEW m \in S, m < n
          PROVE  H[m] = G[<<H, m>>]
      <4>1. \A x \in S : x < m => F[x] = H[x]
        <5>1. \A x \in S : x < m => x # k
          BY <2>5, <3>5
        <5>. QED
          BY <3>4, <5>1
      <4>2. G[<<F, m>>] = G[<<H, m>>]
        BY <3>4, <4>1
      <4>3. CASE m = k
        BY <3>1, <3>4, <4>2, <4>3
      <4>4. CASE m # k
        <5>1. m < k
          BY <2>5, <3>5, <4>4
        <5>. QED
          BY <2>7, <3>4, <4>2, <4>4, <5>1
      <4>. QED
        BY <4>3, <4>4
    <3>. QED
      BY <2>3, <3>4, <3>5 DEF Upto
  <2>. QED
    BY <2>8, <2>9
<1>4. Upto(hi)
  BY <1>2, <1>3
<1>. QED
  BY <1>1, <1>4 DEF Upto
=============================================================================
