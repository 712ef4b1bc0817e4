--------------------------------- MODULE Sums ---------------------------------
(***************************************************************************)
(* Sums over finite sets, for the theorems about what adds up: the offsets *)
(* of the files of chrdev_pcm3060.c and the blocks that the containers of  *)
(* utils/ allocate.  The folds of the community modules are recursive      *)
(* functions on the subsets of the set they run over; these lemmas say     *)
(* that the function exists and how its value changes.                     *)
(***************************************************************************)
EXTENDS FiniteSetTheorems, TLAPS

(* The element a fold takes first.                                         *)
Pick(s) == CHOOSE x \in s : TRUE

(* It is one of the set.                                                   *)
LEMMA PickIn == ASSUME NEW s, s # {} PROVE Pick(s) \in s
BY DEF Pick

(* g maps each subset of S to the sum of f over it.                        *)
IsSum(f, S, g) ==
  g = [s \in SUBSET S |-> IF s = {} THEN 0 ELSE f[Pick(s)] + g[s \ {Pick(s)}]]

(* The sum of f over S.                                                    *)
Total(f, S) == (CHOOSE g : IsSum(f, S, g))[S]

-----------------------------------------------------------------------------
(* A set of subsets of a finite set has a smallest member.                 *)
LEMMA SmallestSubset ==
  ASSUME NEW S, IsFiniteSet(S), NEW T \in SUBSET SUBSET S, T # {}
  PROVE  \E s \in T : \A u \in T : u \subseteq s => u = s
<1>1. IsWellFoundedOn(StrictSubsetOrdering(S), SUBSET S)
  BY FS_StrictSubsetOrderingWellFounded, FS_FiniteSubsetsOfFinite
<1>2. PICK s \in T : \A u \in T : <<u, s>> \notin StrictSubsetOrdering(S)
  BY <1>1, WFMin
<1>3. ASSUME NEW u \in T, u \subseteq s, u # s
      PROVE  <<u, s>> \in StrictSubsetOrdering(S)
  BY <1>3 DEF StrictSubsetOrdering
<1>4. \A u \in T : u \subseteq s => u = s
  BY <1>2, <1>3
<1> QED
  BY <1>4

(* What a sum is at a set, read off its definition.                        *)
LEMMA SumAt ==
  ASSUME NEW f, NEW S, NEW g, IsSum(f, S, g), NEW s \in SUBSET S
  PROVE  /\ s = {} => g[s] = 0
         /\ s # {} => /\ Pick(s) \in s
                      /\ s \ {Pick(s)} \in SUBSET S
                      /\ g[s] = f[Pick(s)] + g[s \ {Pick(s)}]
<1>1. g[s] = IF s = {} THEN 0 ELSE f[Pick(s)] + g[s \ {Pick(s)}]
  <2> DEFINE h == [u \in SUBSET S |-> IF u = {} THEN 0 ELSE f[Pick(u)] + g[u \ {Pick(u)}]]
  <2>1. g = h
    BY DEF IsSum
  <2>2. h[s] = IF s = {} THEN 0 ELSE f[Pick(s)] + g[s \ {Pick(s)}]
    OBVIOUS
  <2> HIDE DEF h
  <2> QED
    BY <2>1, <2>2
<1> QED
  BY <1>1, PickIn

(* Nothing adds up to nothing.                                             *)
LEMMA SumEmpty ==
  ASSUME NEW f, NEW S, NEW g, IsSum(f, S, g)
  PROVE  g[{}] = 0
<1>1. {} \in SUBSET S
  OBVIOUS
<1> QED
  BY <1>1, SumAt

(* Sums over two sets agree where both are defined.                        *)
LEMMA SumUnique ==
  ASSUME NEW S, IsFiniteSet(S), NEW U \in SUBSET S,
         NEW f, NEW g, NEW h, IsSum(f, S, g), IsSum(f, U, h)
  PROVE  \A s \in SUBSET U : g[s] = h[s]
<1> DEFINE Bad == {s \in SUBSET U : g[s] # h[s]}
<1> SUFFICES ASSUME Bad # {} PROVE FALSE
  OBVIOUS
<1>1. PICK s \in Bad : \A u \in Bad : u \subseteq s => u = s
  <2>1. IsFiniteSet(U) /\ Bad \in SUBSET SUBSET U
    BY FS_Subset
  <2> HIDE DEF Bad
  <2> QED
    BY <2>1, SmallestSubset
<1>2. s \in SUBSET U /\ s \in SUBSET S /\ g[s] # h[s]
  BY <1>1
<1>3. s # {}
  BY <1>2, SumAt
<1> DEFINE r == s \ {Pick(s)}
<1>4. Pick(s) \in s /\ g[s] = f[Pick(s)] + g[r] /\ h[s] = f[Pick(s)] + h[r]
  BY <1>2, <1>3, SumAt
<1>5. g[r] = h[r]
  BY <1>1, <1>2, <1>4
<1> QED
  BY <1>2, <1>4, <1>5

(* Every finite set has a sum.                                             *)
LEMMA SumExists ==
  ASSUME NEW S, IsFiniteSet(S), NEW f
  PROVE  \E g : IsSum(f, S, g)
<1> DEFINE Bad == {s \in SUBSET S : ~ \E g : IsSum(f, s, g)}
<1> SUFFICES ASSUME Bad # {} PROVE FALSE
  OBVIOUS
<1>1. PICK T \in Bad : \A u \in Bad : u \subseteq T => u = T
  <2>1. Bad \in SUBSET SUBSET S
    OBVIOUS
  <2> HIDE DEF Bad
  <2> QED
    BY <2>1, SmallestSubset
<1>2. T \in SUBSET S /\ ~ \E g : IsSum(f, T, g)
  BY <1>1
<1>3. \A u \in SUBSET T : u # T => \E g : IsSum(f, u, g)
  BY <1>1, <1>2
<1> HIDE DEF Bad
<1> DEFINE sol(u) == CHOOSE g : IsSum(f, u, g)
<1>4. ASSUME NEW u \in SUBSET T, u # T
      PROVE  IsSum(f, u, sol(u)) /\ IsFiniteSet(u)
  BY <1>2, <1>3, <1>4, FS_Subset
<1> HIDE DEF sol
<1> DEFINE G == [s \in SUBSET T |->
                  IF s = {} THEN 0
                  ELSE f[Pick(s)] + sol(s \ {Pick(s)})[s \ {Pick(s)}]]
<1>5. ASSUME NEW s \in SUBSET T, s # {}
      PROVE  G[s \ {Pick(s)}] = sol(s \ {Pick(s)})[s \ {Pick(s)}]
  <2> DEFINE w == s \ {Pick(s)}
  <2>1. Pick(s) \in s /\ w \in SUBSET T /\ w # T
    BY <1>5, PickIn
  <2>2. IsSum(f, w, sol(w)) /\ IsFiniteSet(w)
    BY <1>4, <2>1
  <2>3. CASE w = {}
    BY <2>1, <2>2, <2>3, SumAt
  <2>4. CASE w # {}
    <3> DEFINE v == w \ {Pick(w)}
    <3>1. Pick(w) \in w /\ v \in SUBSET w /\ v \in SUBSET T /\ v # T
      BY <2>1, <2>4, PickIn
    <3>2. IsSum(f, v, sol(v))
      BY <1>4, <3>1
    <3>3. G[w] = f[Pick(w)] + sol(v)[v]
      BY <2>1, <2>4
    <3>4. sol(w)[w] = f[Pick(w)] + sol(w)[v]
      <4>1. w \in SUBSET w
        OBVIOUS
      <4> HIDE DEF w
      <4> QED
        BY <2>2, <2>4, <4>1, SumAt
    <3>5. sol(w)[v] = sol(v)[v]
      BY <2>2, <3>1, <3>2, SumUnique
    <3> QED
      BY <3>3, <3>4, <3>5
  <2> QED
    BY <2>3, <2>4
<1>6. G = [s \in SUBSET T |-> IF s = {} THEN 0 ELSE f[Pick(s)] + G[s \ {Pick(s)}]]
  <2>1. \A s \in SUBSET T : G[s] = IF s = {} THEN 0 ELSE f[Pick(s)] + G[s \ {Pick(s)}]
    BY <1>5
  <2> QED
    BY <2>1
<1> HIDE DEF G
<1>7. IsSum(f, T, G)
  BY <1>6 DEF IsSum
<1> QED
  BY <1>2, <1>7

(* So the sum over a finite set is the value of any such function ...      *)
LEMMA TotalIs ==
  ASSUME NEW S, IsFiniteSet(S), NEW f, NEW U \in SUBSET S, NEW g, IsSum(f, S, g)
  PROVE  Total(f, U) = g[U]
<1>1. IsFiniteSet(U)
  BY FS_Subset
<1>2. IsSum(f, U, CHOOSE h : IsSum(f, U, h))
  BY <1>1, SumExists
<1> QED
  BY <1>2, SumUnique DEF Total

(* ... nothing, over the empty set ...                                     *)
LEMMA TotalEmpty == ASSUME NEW f PROVE Total(f, {}) = 0
<1>1. PICK g : IsSum(f, {}, g)
  BY FS_EmptySet, SumExists
<1> QED
  BY <1>1, FS_EmptySet, SumAt, TotalIs

(* ... an integer, over a set of integers ...                              *)
LEMMA TotalInt ==
  ASSUME NEW S, IsFiniteSet(S), NEW f, \A x \in S : f[x] \in Int
  PROVE  Total(f, S) \in Int
<1>1. PICK g : IsSum(f, S, g)
  BY SumExists
<1> DEFINE Bad == {s \in SUBSET S : g[s] \notin Int}
<1>2. Bad = {}
  <2> SUFFICES ASSUME Bad # {} PROVE FALSE
    OBVIOUS
  <2>1. PICK s \in Bad : \A u \in Bad : u \subseteq s => u = s
    <3>1. Bad \in SUBSET SUBSET S
      OBVIOUS
    <3>2. Bad # {}
      OBVIOUS
    <3> HIDE DEF Bad
    <3> QED
      BY <3>1, <3>2, SmallestSubset
  <2>2. s \in SUBSET S /\ g[s] \notin Int
    BY <2>1
  <2> DEFINE r == s \ {Pick(s)}
  <2>3. s # {}
    <3>1. s = {} => g[s] = 0
      BY <1>1, <2>2, SumAt
    <3> QED
      BY <2>2, <3>1
  <2>4. Pick(s) \in s /\ r \in SUBSET S /\ g[s] = f[Pick(s)] + g[r]
    BY <1>1, <2>2, <2>3, SumAt
  <2>5. g[r] \in Int
    BY <2>1, <2>4
  <2> QED
    BY <2>2, <2>4, <2>5
<1>3. S \in SUBSET S /\ g[S] \in Int
  BY <1>2
<1> QED
  BY <1>1, <1>3, TotalIs

(* ... nothing, if every value is nothing ...                              *)
LEMMA TotalZero ==
  ASSUME NEW S, IsFiniteSet(S), NEW f, \A x \in S : f[x] = 0
  PROVE  Total(f, S) = 0
<1> DEFINE Z == [s \in SUBSET S |-> 0]
<1>2. Z = [s \in SUBSET S |-> IF s = {} THEN 0 ELSE f[Pick(s)] + Z[s \ {Pick(s)}]]
  BY PickIn
<1> HIDE DEF Z
<1>3. IsSum(f, S, Z)
  BY <1>2 DEF IsSum
<1>4. S \in SUBSET S /\ Z[S] = 0
  BY DEF Z
<1> QED
  BY <1>3, <1>4, TotalIs

(* ... and it moves by as much as the one value that moves.                *)
LEMMA TotalChange ==
  ASSUME NEW S, IsFiniteSet(S), NEW f, NEW h, NEW t, NEW d \in Int,
         \A x \in S : f[x] \in Int,
         t \in S => h[t] = f[t] + d,
         \A x \in S \ {t} : h[x] = f[x]
  PROVE  Total(h, S) = Total(f, S) + (IF t \in S THEN d ELSE 0)
<1>1. PICK g : IsSum(f, S, g)
  BY SumExists
<1>2. PICK k : IsSum(h, S, k)
  BY SumExists
<1> DEFINE Bad == {s \in SUBSET S : k[s] # g[s] + (IF t \in s THEN d ELSE 0)}
<1>3. Bad = {}
  <2> SUFFICES ASSUME Bad # {} PROVE FALSE
    OBVIOUS
  <2>1. PICK s \in Bad : \A u \in Bad : u \subseteq s => u = s
    <3>1. Bad \in SUBSET SUBSET S
      OBVIOUS
    <3>2. Bad # {}
      OBVIOUS
    <3> HIDE DEF Bad
    <3> QED
      BY <3>1, <3>2, SmallestSubset
  <2>2. s \in SUBSET S /\ k[s] # g[s] + (IF t \in s THEN d ELSE 0)
    BY <2>1
  <2> DEFINE p == Pick(s)
             r == s \ {p}
  <2>3. s # {}
    <3>1. g[{}] = 0
      BY <1>1, SumEmpty
    <3>2. k[{}] = 0
      BY <1>2, SumEmpty
    <3>3. s = {} => t \notin s
      OBVIOUS
    <3> QED
      BY <2>2, <3>1, <3>2, <3>3
  <2>4. p \in s /\ r \in SUBSET S /\ g[s] = f[p] + g[r] /\ k[s] = h[p] + k[r]
    BY <1>1, <1>2, <2>2, <2>3, SumAt
  <2>5. k[r] = g[r] + (IF t \in r THEN d ELSE 0)
    BY <2>1, <2>4
  <2>6. g[r] \in Int /\ f[p] \in Int
    <3>1. IsFiniteSet(r)
      BY <2>4, FS_Subset
    <3>2. Total(f, r) = g[r]
      BY <1>1, <2>4, TotalIs
    <3> QED
      BY <2>2, <2>4, <3>1, <3>2, TotalInt
  <2> HIDE DEF p
  <2>7. CASE p = t
    <3>1. k[r] = g[r] /\ h[p] = f[p] + d
      BY <2>2, <2>4, <2>5, <2>6, <2>7
    <3> QED
      BY <2>2, <2>4, <2>6, <2>7, <3>1
  <2>8. CASE p # t
    <3>1. h[p] = f[p] /\ (t \in r <=> t \in s)
      BY <2>2, <2>4, <2>8
    <3> QED
      BY <2>2, <2>4, <2>5, <2>6, <3>1
  <2> QED
    BY <2>7, <2>8
<1>4. S \in SUBSET S /\ k[S] = g[S] + (IF t \in S THEN d ELSE 0)
  BY <1>3
<1> QED
  BY <1>1, <1>2, <1>4, TotalIs

(* A sum is that of all elements but one, and that one's value.            *)
LEMMA TotalSplit ==
  ASSUME NEW S, IsFiniteSet(S), NEW f, \A x \in S : f[x] \in Int, NEW t \in S
  PROVE  Total(f, S) = Total(f, S \ {t}) + f[t]
<1>1. PICK g : IsSum(f, S, g)
  BY SumExists
<1>2. \A s \in SUBSET S : g[s] \in Int
  <2> SUFFICES ASSUME NEW s \in SUBSET S PROVE g[s] \in Int
    OBVIOUS
  <2>1. IsFiniteSet(s) /\ Total(f, s) = g[s]
    BY <1>1, FS_Subset, TotalIs
  <2> QED
    BY <2>1, TotalInt
<1> DEFINE Bad == {s \in SUBSET S : \E x \in s : g[s] # g[s \ {x}] + f[x]}
<1>3. Bad = {}
  <2> SUFFICES ASSUME Bad # {} PROVE FALSE
    OBVIOUS
  <2>1. PICK s \in Bad : \A u \in Bad : u \subseteq s => u = s
    <3>1. Bad \in SUBSET SUBSET S /\ Bad # {}
      OBVIOUS
    <3> HIDE DEF Bad
    <3> QED
      BY <3>1, SmallestSubset
  <2>2. s \in SUBSET S
    BY <2>1
  <2>3. PICK x \in s : g[s] # g[s \ {x}] + f[x]
    BY <2>1
  <2> DEFINE p == Pick(s)
  <2>4. p \in s /\ g[s] = f[p] + g[s \ {p}]
    BY <1>1, <2>2, <2>3, SumAt
  <2> HIDE DEF p
  <2>5. x # p
    <3>1. g[s \ {p}] \in Int /\ f[p] \in Int
      BY <1>2, <2>2, <2>4
    <3>2. g[s] = g[s \ {p}] + f[p]
      BY <2>4, <3>1
    <3> QED
      BY <2>3, <3>2
  <2>6. g[s \ {p}] = g[(s \ {p}) \ {x}] + f[x]
    <3>1. s \ {p} \notin Bad /\ x \in s \ {p}
      BY <2>1, <2>4, <2>5
    <3> QED
      BY <2>2, <3>1
  <2>7. g[s \ {x}] = g[(s \ {x}) \ {p}] + f[p]
    <3>1. s \ {x} \notin Bad /\ p \in s \ {x}
      BY <2>1, <2>4, <2>5
    <3> QED
      BY <2>2, <3>1
  <2>8. (s \ {p}) \ {x} = (s \ {x}) \ {p}
    OBVIOUS
  <2>9. g[(s \ {x}) \ {p}] \in Int /\ f[x] \in Int /\ f[p] \in Int
    BY <1>2, <2>2, <2>4
  <2>10. f[p] + (g[(s \ {x}) \ {p}] + f[x]) = (g[(s \ {x}) \ {p}] + f[p]) + f[x]
    BY <2>9
  <2>11. g[s] = g[s \ {x}] + f[x]
    BY <2>4, <2>6, <2>7, <2>8, <2>10, Zenon
  <2> QED
    BY <2>3, <2>11
<1>4. S \in SUBSET S /\ S \ {t} \in SUBSET S /\ g[S] = g[S \ {t}] + f[t]
  BY <1>3
<1> QED
  BY <1>1, <1>4, TotalIs

(* A sum depends on the values over the set only.                          *)
LEMMA TotalSame ==
  ASSUME NEW S, IsFiniteSet(S), NEW f, NEW h,
         \A x \in S : f[x] \in Int /\ h[x] = f[x]
  PROVE  Total(h, S) = Total(f, S)
<1>1. /\ \A x \in S : f[x] \in Int
      /\ \A x \in S : h[x] = f[x]
      /\ \A x \in S : h[x] = f[x] + 0
  OBVIOUS
<1>2. Total(f, S) \in Int
  BY TotalInt
<1> DEFINE t == CHOOSE x : x \in S
<1>3. Total(h, S) = Total(f, S) + (IF t \in S THEN 0 ELSE 0)
  <2> HIDE DEF t
  <2>1. /\ t \in S => h[t] = f[t] + 0
        /\ \A x \in S \ {t} : h[x] = f[x]
        /\ 0 \in Int
    BY <1>1
  <2> QED
    BY <1>1, <2>1, TotalChange
<1> QED
  BY <1>2, <1>3

=============================================================================
