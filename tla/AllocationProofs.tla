--------------------------- MODULE AllocationProofs ---------------------------
(***************************************************************************)
(* Theorems about how the containers of utils/ are allocated and freed,    *)
(* for any selection of them and any number of calls.                      *)
(*                                                                         *)
(* First what the recursive functions Blocks and Put of the model are      *)
(* worth, then what the get functions under way hold, then AllocInv, the   *)
(* inductive invariant, and the balance it states.                         *)
(***************************************************************************)
EXTENDS Allocation, Sums

(* The containers.                                                         *)
Names == {"ring", "buffer", "pipe", "dual", "duplex_ring", "duplex_pipe"}

(* The containers by name, and the ladder of each.                         *)
LEMMA PartsAre ==
  /\ Kinds = Names
  /\ Parts["ring"] = RingParts /\ Parts["buffer"] = BufferParts
  /\ Parts["pipe"] = PipeParts /\ Parts["dual"] = DualParts
  /\ Parts["duplex_ring"] = DuplexRingParts /\ Parts["duplex_pipe"] = DuplexPipeParts
BY DEF Kinds, Parts, Names

(* The values of the first n of a sequence of parts.                       *)
Worth(V, s, n) == Total([i \in 1 .. n |-> V[s[i]]], 1 .. n)

(* One part more adds its value.                                           *)
LEMMA WorthGrows ==
  ASSUME NEW V, NEW s, NEW n \in Nat, \A i \in 1 .. n + 1 : V[s[i]] \in Int
  PROVE  /\ Worth(V, s, 0) = 0
         /\ Worth(V, s, n) \in Int
         /\ Worth(V, s, n + 1) = Worth(V, s, n) + V[s[n + 1]]
<1>1. IsFiniteSet(1 .. n) /\ IsFiniteSet(1 .. n + 1)
  BY FS_Interval
<1> DEFINE f == [i \in 1 .. n |-> V[s[i]]]
           h == [i \in 1 .. n + 1 |-> V[s[i]]]
<1>2. 1 .. 0 = {} /\ (1 .. n + 1) \ {n + 1} = 1 .. n /\ n + 1 \in 1 .. n + 1
  OBVIOUS
<1>3. \A i \in 1 .. n : f[i] \in Int /\ h[i] = f[i]
  OBVIOUS
<1>4. \A i \in 1 .. n + 1 : h[i] \in Int
  OBVIOUS
<1>5. h[n + 1] = V[s[n + 1]]
  OBVIOUS
<1> HIDE DEF f, h
<1>6. Total(h, 1 .. n + 1) = Total(h, 1 .. n) + V[s[n + 1]]
  BY <1>1, <1>2, <1>4, <1>5, TotalSplit
<1>7. Total(h, 1 .. n) = Total(f, 1 .. n)
  BY <1>1, <1>3, TotalSame
<1>8. Total(f, 1 .. n) \in Int
  BY <1>1, <1>3, TotalInt
<1> QED
  BY <1>2, <1>6, <1>7, <1>8, TotalEmpty DEF Worth, f, h

(* The value of a sequence of parts, as the model folds it.                *)
Tally(V, s) == FoldSeq(LAMBDA q, n : V[q] + n, 0, s)

(* The fold of the model is the sum over the indices of the sequence.      *)
LEMMA FoldIsWorth ==
  ASSUME NEW V, NEW s, NEW n \in Nat, DOMAIN s = 1 .. n
  PROVE  Tally(V, s) = Worth(V, s, n)
<1> DEFINE F == [i \in 1 .. n |-> V[s[i]]]
           Body(g) == [u \in SUBSET DOMAIN s |->
                        IF u = {} THEN 0 ELSE V[s[Pick(u)]] + g[u \ {Pick(u)}]]
           it == CHOOSE g : g = Body(g)
<1>1. Tally(V, s) = it[DOMAIN s]
  BY Zenon DEF Tally, FoldSeq, FoldFunction, FoldFunctionOnSet, MapThenFoldSet, Pick
<1>2. IsFiniteSet(DOMAIN s)
  BY FS_Interval
<1>3. \A g : Body(g) = [u \in SUBSET DOMAIN s |->
                         IF u = {} THEN 0 ELSE F[Pick(u)] + g[u \ {Pick(u)}]]
  BY <1>2, PickIn
<1>4. \A g : g = Body(g) <=> IsSum(F, DOMAIN s, g)
  BY <1>3 DEF IsSum
<1> HIDE DEF Body, F
<1>5. \E g : g = Body(g)
  BY <1>2, <1>4, SumExists
<1>6. it = Body(it)
  BY <1>5, Zenon
<1>7. IsSum(F, DOMAIN s, it) /\ DOMAIN s \in SUBSET DOMAIN s
  BY <1>4, <1>6
<1> HIDE DEF it
<1>8. Total(F, DOMAIN s) = it[DOMAIN s]
  BY <1>2, <1>7, TotalIs
<1> QED
  BY <1>1, <1>2, <1>8 DEF Worth, F

(* The same for all lengths of a sequence of m parts.                      *)
LEMMA WorthSteps ==
  ASSUME NEW V, NEW s, NEW m \in Nat, \A i \in 1 .. m : V[s[i]] \in Int
  PROVE  /\ Worth(V, s, 0) = 0
         /\ \A j, k \in 0 .. m :
              k = j + 1 => Worth(V, s, k) = Worth(V, s, j) + V[s[k]]
<1>1. Worth(V, s, 0) = 0
  BY TotalEmpty, 1 .. 0 = {} DEF Worth
<1>2. ASSUME NEW j \in 0 .. m, NEW k \in 0 .. m, k = j + 1
      PROVE  Worth(V, s, k) = Worth(V, s, j) + V[s[k]]
  <2>1. j \in Nat /\ \A i \in 1 .. j + 1 : V[s[i]] \in Int
    BY <1>2
  <2>2. Worth(V, s, j + 1) = Worth(V, s, j) + V[s[j + 1]]
    BY <2>1, WorthGrows
  <2> QED
    BY <1>2, <2>2
<1> QED
  BY <1>1, <1>2

(* What a sequence of up to six parts is worth.                            *)
LEMMA ThreeParts ==
  ASSUME NEW V, NEW s, DOMAIN s = 1 .. 3, V[s[1]] \in Int, V[s[2]] \in Int, V[s[3]] \in Int
  PROVE  Tally(V, s) = V[s[1]] + V[s[2]] + V[s[3]]
<1>0. \A i \in 1 .. 3 : V[s[i]] \in Int
  <2> SUFFICES ASSUME NEW i \in 1 .. 3 PROVE V[s[i]] \in Int
    OBVIOUS
  <2>1. i = 1 \/ i = 2 \/ i = 3
    OBVIOUS
  <2> QED
    BY <2>1
<1>1. 3 \in Nat /\ Worth(V, s, 0) = 0
  BY <1>0, WorthSteps
<1>2. \A j, k \in 0 .. 3 : k = j + 1 => Worth(V, s, k) = Worth(V, s, j) + V[s[k]]
  BY <1>0, <1>1, WorthSteps
<1>3. Worth(V, s, 1) = 0 + V[s[1]]
  BY <1>1, <1>2
<1>4. Worth(V, s, 2) = Worth(V, s, 1) + V[s[2]]
  BY <1>1, <1>2
<1>5. Worth(V, s, 3) = Worth(V, s, 2) + V[s[3]]
  BY <1>1, <1>2
<1>6. Worth(V, s, 3) = V[s[1]] + V[s[2]] + V[s[3]]
  BY <1>3, <1>4, <1>5
<1>7. Tally(V, s) = Worth(V, s, 3)
  BY <1>1, FoldIsWorth
<1> QED
  BY <1>6, <1>7

(* Four parts, the ladder of a dual buffer.                                *)
LEMMA FourParts ==
  ASSUME NEW V, NEW s, DOMAIN s = 1 .. 4, V[s[1]] \in Int, V[s[2]] \in Int, V[s[3]] \in Int, V[s[4]] \in Int
  PROVE  Tally(V, s) = V[s[1]] + V[s[2]] + V[s[3]] + V[s[4]]
<1>0. \A i \in 1 .. 4 : V[s[i]] \in Int
  <2> SUFFICES ASSUME NEW i \in 1 .. 4 PROVE V[s[i]] \in Int
    OBVIOUS
  <2>1. i = 1 \/ i = 2 \/ i = 3 \/ i = 4
    OBVIOUS
  <2> QED
    BY <2>1
<1>1. 4 \in Nat /\ Worth(V, s, 0) = 0
  BY <1>0, WorthSteps
<1>2. \A j, k \in 0 .. 4 : k = j + 1 => Worth(V, s, k) = Worth(V, s, j) + V[s[k]]
  BY <1>0, <1>1, WorthSteps
<1>3. Worth(V, s, 1) = 0 + V[s[1]]
  BY <1>1, <1>2
<1>4. Worth(V, s, 2) = Worth(V, s, 1) + V[s[2]]
  BY <1>1, <1>2
<1>5. Worth(V, s, 3) = Worth(V, s, 2) + V[s[3]]
  BY <1>1, <1>2
<1>6. Worth(V, s, 4) = Worth(V, s, 3) + V[s[4]]
  BY <1>1, <1>2
<1>7. Worth(V, s, 4) = V[s[1]] + V[s[2]] + V[s[3]] + V[s[4]]
  BY <1>3, <1>4, <1>5, <1>6
<1>8. Tally(V, s) = Worth(V, s, 4)
  BY <1>1, FoldIsWorth
<1> QED
  BY <1>7, <1>8

(* Six parts, the ladder of a duplex.                                      *)
LEMMA SixParts ==
  ASSUME NEW V, NEW s, DOMAIN s = 1 .. 6, V[s[1]] \in Int, V[s[2]] \in Int, V[s[3]] \in Int,
         V[s[4]] \in Int, V[s[5]] \in Int, V[s[6]] \in Int
  PROVE  Tally(V, s) = V[s[1]] + V[s[2]] + V[s[3]] + V[s[4]] + V[s[5]] + V[s[6]]
<1>0. \A i \in 1 .. 6 : V[s[i]] \in Int
  <2> SUFFICES ASSUME NEW i \in 1 .. 6 PROVE V[s[i]] \in Int
    OBVIOUS
  <2>1. i = 1 \/ i = 2 \/ i = 3 \/ i = 4 \/ i = 5 \/ i = 6
    OBVIOUS
  <2> QED
    BY <2>1
<1>1. 6 \in Nat /\ Worth(V, s, 0) = 0
  BY <1>0, WorthSteps
<1>2. \A j, k \in 0 .. 6 : k = j + 1 => Worth(V, s, k) = Worth(V, s, j) + V[s[k]]
  BY <1>0, <1>1, WorthSteps
<1>3. Worth(V, s, 1) = 0 + V[s[1]]
  BY <1>1, <1>2
<1>4. Worth(V, s, 2) = Worth(V, s, 1) + V[s[2]]
  BY <1>1, <1>2
<1>5. Worth(V, s, 3) = Worth(V, s, 2) + V[s[3]]
  BY <1>1, <1>2
<1>6. Worth(V, s, 4) = Worth(V, s, 3) + V[s[4]]
  BY <1>1, <1>2
<1>7. Worth(V, s, 5) = Worth(V, s, 4) + V[s[5]]
  BY <1>1, <1>2
<1>8. Worth(V, s, 6) = Worth(V, s, 5) + V[s[6]]
  BY <1>1, <1>2
<1>9. Worth(V, s, 6) = V[s[1]] + V[s[2]] + V[s[3]] + V[s[4]] + V[s[5]] + V[s[6]]
  BY <1>3, <1>4, <1>5, <1>6, <1>7, <1>8
<1>10. Tally(V, s) = Worth(V, s, 6)
  BY <1>1, FoldIsWorth
<1> QED
  BY <1>9, <1>10

(* What the parts of each container are worth if a block is worth one.     *)
LEMMA Tallies ==
  ASSUME NEW V, V["block"] = 1
  PROVE  /\ Tally(V, RingParts) = 3
         /\ Tally(V, BufferParts) = 3
         /\ V["buffer"] \in Int => /\ Tally(V, PipeParts) = 2 + V["buffer"]
                                   /\ Tally(V, DualParts) = 2 + V["buffer"] + V["buffer"]
         /\ V["ring"] \in Int =>
              /\ Tally(V, DuplexRingParts) = 4 + V["ring"] + V["ring"]
              /\ Tally(V, SubSeq(DuplexRingParts, 1, 4)) = 2 + V["ring"] + V["ring"]
         /\ V["pipe"] \in Int =>
              /\ Tally(V, DuplexPipeParts) = 4 + V["pipe"] + V["pipe"]
              /\ Tally(V, SubSeq(DuplexPipeParts, 1, 4)) = 2 + V["pipe"] + V["pipe"]
<1>1. Tally(V, RingParts) = 3 /\ Tally(V, BufferParts) = 3
  <2>1. DOMAIN RingParts = 1 .. 3
    BY DEF RingParts
  <2>2. \A i \in 1 .. 3 : V[RingParts[i]] = 1
    BY DEF RingParts
  <2>3. Tally(V, RingParts) = 3
    BY <2>1, <2>2, ThreeParts
  <2> QED
    BY <2>3 DEF RingParts, BufferParts
<1>2. ASSUME V["buffer"] \in Int
      PROVE  Tally(V, PipeParts) = 2 + V["buffer"]
  <2>1. DOMAIN PipeParts = 1 .. 3
    BY DEF PipeParts
  <2>2. V[PipeParts[1]] = 1 /\ V[PipeParts[2]] = 1 /\ V[PipeParts[3]] = V["buffer"]
    BY DEF PipeParts
  <2> QED
    BY <1>2, <2>1, <2>2, ThreeParts
<1>3. ASSUME V["buffer"] \in Int
      PROVE  Tally(V, DualParts) = 2 + V["buffer"] + V["buffer"]
  <2>1. DOMAIN DualParts = 1 .. 4
    BY DEF DualParts
  <2>2. /\ V[DualParts[1]] = 1 /\ V[DualParts[2]] = 1
        /\ V[DualParts[3]] = V["buffer"] /\ V[DualParts[4]] = V["buffer"]
    BY DEF DualParts
  <2> QED
    BY <1>3, <2>1, <2>2, FourParts
<1>4. ASSUME NEW p, V[p] \in Int, NEW s,
             s = <<"block", "block", p, p, "block", "block">>
      PROVE  /\ Tally(V, s) = 4 + V[p] + V[p]
             /\ Tally(V, SubSeq(s, 1, 4)) = 2 + V[p] + V[p]
  <2>1. DOMAIN s = 1 .. 6
    BY <1>4
  <2>2. /\ V[s[1]] = 1 /\ V[s[2]] = 1 /\ V[s[3]] = V[p] /\ V[s[4]] = V[p]
        /\ V[s[5]] = 1 /\ V[s[6]] = 1
    BY <1>4
  <2> DEFINE u == SubSeq(s, 1, 4)
  <2>4. DOMAIN u = 1 .. 4 /\ \A i \in 1 .. 4 : u[i] = s[i]
    <3>1. s \in Seq({"block", p}) /\ Len(s) = 6
      BY <1>4
    <3> QED
      BY <3>1
  <2>5. Tally(V, s) = 4 + V[p] + V[p]
    BY <1>4, <2>1, <2>2, SixParts
  <2> HIDE DEF u
  <2>6. /\ V[u[1]] = 1 /\ V[u[2]] = 1 /\ V[u[3]] = V[p] /\ V[u[4]] = V[p]
    BY <1>4, <2>2, <2>4
  <2>7. Tally(V, u) = 2 + V[p] + V[p]
    BY <1>4, <2>4, <2>6, FourParts
  <2> QED
    BY <2>5, <2>7 DEF u
<1> QED
  BY <1>1, <1>2, <1>3, <1>4 DEF DuplexRingParts, DuplexPipeParts

Items == Kinds \cup {"block"}

(* The recursive functions of the model, as what they are a solution of.   *)
BlocksBody(V) == [p \in Items |-> IF p = "block" THEN 1 ELSE Tally(V, Parts[p])]
PutBody(V)    == [p \in Items |-> IF p = "block" THEN 1 ELSE Tally(V, PutParts(p))]

(* Each has a solution, with these values ...                              *)
Worths(ring, plex) ==
  [p \in Items |->
     IF p = "block" THEN 1
     ELSE IF p \in {"ring", "buffer"} THEN 3
     ELSE IF p = "pipe" THEN 5
     ELSE IF p = "dual" THEN 8
     ELSE IF p = "duplex_ring" THEN ring ELSE plex]

(* What put frees are all parts, and of a duplex the first four.           *)
LEMMA PutPartsAre ==
  /\ \A p \in {"ring", "buffer", "pipe", "dual"} : PutParts(p) = Parts[p]
  /\ PutParts("duplex_ring") = SubSeq(DuplexRingParts, 1, 4)
  /\ PutParts("duplex_pipe") = SubSeq(DuplexPipeParts, 1, 4)
BY PartsAre DEF PutParts, Duplex

(* ... for all the blocks of a container, ten of a duplex ring, fourteen   *)
(* of a duplex pipe ...                                                    *)
LEMMA BlocksSolved == BlocksBody(Worths(10, 14)) = Worths(10, 14)
<1> DEFINE V == Worths(10, 14)
<1>1. /\ V["block"] = 1 /\ V["ring"] = 3 /\ V["buffer"] = 3 /\ V["pipe"] = 5 /\ V["dual"] = 8
      /\ V["duplex_ring"] = 10 /\ V["duplex_pipe"] = 14
  BY PartsAre DEF Worths, Items, Names
<1>2. V = [p \in Items |-> V[p]]
  BY DEF Worths
<1> HIDE DEF V
<1>3. \A p \in Items : p # "block" => Tally(V, Parts[p]) = V[p]
  BY <1>1, PartsAre, Tallies DEF Items, Names
<1>4. \A p \in Items : (IF p = "block" THEN 1 ELSE Tally(V, Parts[p])) = V[p]
  BY <1>1, <1>3
<1>5. BlocksBody(V) = V
  BY <1>2, <1>4 DEF BlocksBody
<1> QED
  BY <1>5 DEF V

(* ... and for those that put frees: eight and twelve, ...                 *)
LEMMA PutSolved == PutBody(Worths(8, 12)) = Worths(8, 12)
<1> DEFINE V == Worths(8, 12)
<1>1. /\ V["block"] = 1 /\ V["ring"] = 3 /\ V["buffer"] = 3 /\ V["pipe"] = 5 /\ V["dual"] = 8
      /\ V["duplex_ring"] = 8 /\ V["duplex_pipe"] = 12
  BY PartsAre DEF Worths, Items, Names
<1>2. V = [p \in Items |-> V[p]]
  BY DEF Worths
<1> HIDE DEF V
<1>3. \A p \in Items : p # "block" => Tally(V, PutParts(p)) = V[p]
  <2>1. \A p \in {"ring", "buffer", "pipe", "dual"} : Tally(V, PutParts(p)) = V[p]
    BY <1>1, PartsAre, PutPartsAre, Tallies
  <2>2. Tally(V, SubSeq(DuplexRingParts, 1, 4)) = 8
    BY <1>1, Tallies
  <2>3. Tally(V, SubSeq(DuplexPipeParts, 1, 4)) = 12
    BY <1>1, Tallies
  <2> QED
    BY <1>1, <2>1, <2>2, <2>3, PartsAre, PutPartsAre DEF Items, Names
<1>4. \A p \in Items : (IF p = "block" THEN 1 ELSE Tally(V, PutParts(p))) = V[p]
  BY <1>1, <1>3
<1>5. PutBody(V) = V
  BY <1>2, <1>4 DEF PutBody
<1> QED
  BY <1>5 DEF V

(* ... so that the functions are solutions.                                *)
LEMMA BlocksIs == Blocks = BlocksBody(Blocks)
<1>1. Blocks = CHOOSE V : V = BlocksBody(V)
  BY Zenon DEF Blocks, BlocksBody, Tally, Items
<1>2. \E V : V = BlocksBody(V)
  BY BlocksSolved, Zenon
<1> QED
  BY <1>1, <1>2, Zenon

(* Put is a solution of its recursion.                                     *)
LEMMA PutIs == Put = PutBody(Put)
<1>1. Put = CHOOSE V : V = PutBody(V)
  BY Zenon DEF Put, PutBody, Tally, Items
<1>2. \E V : V = PutBody(V)
  BY PutSolved, Zenon
<1> QED
  BY <1>1, <1>2, Zenon

(* How many blocks each container has, and how many of them put frees: all *)
(* but the two ends of a duplex.                                           *)
LEMMA BlocksPut ==
  /\ \A k \in Kinds : Blocks[k] = Tally(Blocks, Parts[k])
  /\ Blocks["block"] = 1 /\ Put["block"] = 1
  /\ Blocks["buffer"] = 3
  /\ \A p \in Items : Blocks[p] \in Int /\ Put[p] \in Int
  /\ \A p \in Items \ Duplex : Put[p] = Blocks[p]
  /\ \A p \in Duplex : Put[p] = Blocks[p] - 2
<1>1. \A p \in Items : Blocks[p] = IF p = "block" THEN 1 ELSE Tally(Blocks, Parts[p])
  BY BlocksIs DEF BlocksBody
<1>2. \A p \in Items : Put[p] = IF p = "block" THEN 1 ELSE Tally(Put, PutParts(p))
  BY PutIs DEF PutBody
<1>3. Items = {"block", "ring", "buffer", "pipe", "dual", "duplex_ring", "duplex_pipe"}
  BY PartsAre DEF Items, Names
<1>4. Blocks["block"] = 1 /\ Put["block"] = 1
  BY <1>1, <1>2, <1>3
<1>5. Blocks["ring"] = 3 /\ Blocks["buffer"] = 3
  BY <1>1, <1>3, <1>4, PartsAre, Tallies
<1>6. Blocks["pipe"] = 5 /\ Blocks["dual"] = 8
  BY <1>1, <1>3, <1>4, <1>5, PartsAre, Tallies
<1>7. Blocks["duplex_ring"] = 10 /\ Blocks["duplex_pipe"] = 14
  BY <1>1, <1>3, <1>4, <1>5, <1>6, PartsAre, Tallies
<1>8. Put["ring"] = 3 /\ Put["buffer"] = 3
  BY <1>2, <1>3, <1>4, PartsAre, PutPartsAre, Tallies
<1>9. Put["pipe"] = 5 /\ Put["dual"] = 8
  BY <1>2, <1>3, <1>4, <1>8, PartsAre, PutPartsAre, Tallies
<1>10. Put["duplex_ring"] = 8 /\ Put["duplex_pipe"] = 12
  <2>1. /\ Put["duplex_ring"] = Tally(Put, SubSeq(DuplexRingParts, 1, 4))
        /\ Put["duplex_pipe"] = Tally(Put, SubSeq(DuplexPipeParts, 1, 4))
    BY <1>2, <1>3, PutPartsAre
  <2>2. Tally(Put, SubSeq(DuplexRingParts, 1, 4)) = 8
    BY <1>4, <1>8, Tallies
  <2>3. Tally(Put, SubSeq(DuplexPipeParts, 1, 4)) = 12
    BY <1>4, <1>9, Tallies
  <2> QED
    BY <2>1, <2>2, <2>3
<1>11. \A k \in Kinds : Blocks[k] = Tally(Blocks, Parts[k])
  BY <1>1, PartsAre DEF Items, Names
<1> QED
  BY <1>3, <1>4, <1>5, <1>6, <1>7, <1>8, <1>9, <1>10, <1>11 DEF Duplex

-----------------------------------------------------------------------------
(* The ladders.                                                            *)

(* The lengths of the ladders, and what stands on their rungs.             *)
LEMMA Rungs ==
  \A k \in Kinds :
    /\ Len(Parts[k]) \in Nat /\ 1 <= Len(Parts[k])
    /\ DOMAIN Parts[k] = 1 .. Len(Parts[k])
    /\ Parts[k] \in Seq(Items \ Duplex)
    /\ \A i \in 1 .. Len(Parts[k]) : Parts[k][i] \in Items \ Duplex
<1> DEFINE P == Items \ Duplex
<1>1. "block" \in P /\ "ring" \in P /\ "buffer" \in P /\ "pipe" \in P
  BY PartsAre DEF Items, Names, Duplex
<1> HIDE DEF P
<1>2. /\ RingParts \in Seq(P) /\ Len(RingParts) = 3
      /\ BufferParts \in Seq(P) /\ Len(BufferParts) = 3
      /\ PipeParts \in Seq(P) /\ Len(PipeParts) = 3
  BY <1>1 DEF RingParts, BufferParts, PipeParts
<1>3. DualParts \in Seq(P) /\ Len(DualParts) = 4
  BY <1>1 DEF DualParts
<1>4. DuplexRingParts \in Seq(P) /\ Len(DuplexRingParts) = 6
  BY <1>1 DEF DuplexRingParts
<1>5. DuplexPipeParts \in Seq(P) /\ Len(DuplexPipeParts) = 6
  BY <1>1 DEF DuplexPipeParts
<1>6. \A k \in Kinds : Parts[k] \in Seq(P) /\ Len(Parts[k]) \in {3, 4, 6}
  BY <1>2, <1>3, <1>4, <1>5, PartsAre DEF Names
<1>7. \A n \in {3, 4, 6} : n \in Nat /\ 1 <= n
  OBVIOUS
<1>8. ASSUME NEW s \in Seq(P)
      PROVE  DOMAIN s = 1 .. Len(s) /\ \A i \in 1 .. Len(s) : s[i] \in P
  BY <1>8
<1> QED
  BY <1>6, <1>7, <1>8 DEF P

(* The blocks of the parts below a rung.                                   *)
Held(f) == Worth(Blocks, Parts[f.kind], f.rung - 1)

(* Nothing on the first rung, the next part on the next one, and all of    *)
(* them above the last one.                                                *)
LEMMA HeldSteps ==
  ASSUME NEW k \in Kinds
  PROVE  /\ Worth(Blocks, Parts[k], 0) = 0
         /\ Worth(Blocks, Parts[k], Len(Parts[k])) = Blocks[k]
         /\ \A r \in 0 .. Len(Parts[k]) : Worth(Blocks, Parts[k], r) \in Int
         /\ \A r \in 1 .. Len(Parts[k]) :
              Worth(Blocks, Parts[k], r)
                = Worth(Blocks, Parts[k], r - 1) + Blocks[Parts[k][r]]
<1> DEFINE s == Parts[k]
           m == Len(Parts[k])
<1>1. m \in Nat /\ DOMAIN s = 1 .. m /\ \A i \in 1 .. m : Blocks[s[i]] \in Int
  BY Rungs, BlocksPut
<1>2. Tally(Blocks, s) = Blocks[k]
  BY BlocksPut
<1> HIDE DEF s, m
<1>3. /\ Worth(Blocks, s, 0) = 0
      /\ \A i, j \in 0 .. m : j = i + 1 => Worth(Blocks, s, j) = Worth(Blocks, s, i) + Blocks[s[j]]
  BY <1>1, WorthSteps
<1>4. Worth(Blocks, s, m) = Blocks[k]
  BY <1>1, <1>2, FoldIsWorth
<1>5. ASSUME NEW r \in 0 .. m PROVE Worth(Blocks, s, r) \in Int
  <2> DEFINE f == [i \in 1 .. r |-> Blocks[s[i]]]
  <2>1. IsFiniteSet(1 .. r) /\ \A i \in 1 .. r : f[i] \in Int
    BY <1>1, FS_Interval
  <2> HIDE DEF f
  <2>2. Total(f, 1 .. r) \in Int
    BY <2>1, TotalInt
  <2> QED
    BY <2>2 DEF Worth, f
<1>6. ASSUME NEW r \in 1 .. m
      PROVE  Worth(Blocks, s, r) = Worth(Blocks, s, r - 1) + Blocks[s[r]]
  <2>1. r - 1 \in 0 .. m /\ r \in 0 .. m /\ r = (r - 1) + 1
    BY <1>1
  <2> QED
    BY <1>3, <2>1
<1> QED
  BY <1>3, <1>4, <1>5, <1>6 DEF s, m

(* What the labels free is what is held, but for two blocks of the first   *)
(* buffer of a dual buffer.                                                *)
LEMMA UndoneIsHeld ==
  ASSUME NEW k \in Kinds, NEW r \in 1 .. Len(Parts[k])
  PROVE  Undone(k, r) = Worth(Blocks, Parts[k], r - 1)
                          - (IF k = "dual" /\ r = 4 THEN 2 ELSE 0)
<1>1. CASE k = "dual" /\ r = 4
  <2>1. Parts[k] = DualParts /\ Len(DualParts) = 4
    BY <1>1, PartsAre DEF DualParts
  <2>2. /\ Worth(Blocks, Parts[k], 0) = 0
        /\ Worth(Blocks, Parts[k], 1) = Worth(Blocks, Parts[k], 1 - 1) + Blocks["block"]
        /\ Worth(Blocks, Parts[k], 2) = Worth(Blocks, Parts[k], 2 - 1) + Blocks["block"]
        /\ Worth(Blocks, Parts[k], 3) = Worth(Blocks, Parts[k], 3 - 1) + Blocks["buffer"]
    <3>1. /\ DualParts[1] = "block" /\ DualParts[2] = "block" /\ DualParts[3] = "buffer"
          /\ 1 \in 1 .. 4 /\ 2 \in 1 .. 4 /\ 3 \in 1 .. 4
      BY DEF DualParts
    <3> QED
      BY <2>1, <3>1, HeldSteps
  <2>3. Worth(Blocks, Parts[k], 3) = 5
    BY <2>2, BlocksPut
  <2>4. Undone(k, r) = 3
    BY <1>1, Zenon DEF Undone
  <2>5. r - 1 = 3
    BY <1>1
  <2> QED
    BY <1>1, <2>3, <2>4, <2>5
<1>2. CASE ~ (k = "dual" /\ r = 4)
  <2> DEFINE s == Parts[k]
             u == SubSeq(Parts[k], 1, r - 1)
  <2>1. Undone(k, r) = Tally(Put, u)
    BY <1>2, Zenon DEF Undone, Tally
  <2>2. /\ s \in Seq(Items \ Duplex) /\ r - 1 \in Nat /\ r - 1 <= Len(s)
        /\ \A i \in 1 .. r - 1 : s[i] \in Items \ Duplex
        /\ Worth(Blocks, s, r - 1) \in Int
    BY Rungs, HeldSteps
  <2>3. DOMAIN u = 1 .. r - 1 /\ \A i \in 1 .. r - 1 : u[i] = s[i]
    BY <2>2
  <2> HIDE DEF u, s
  <2>4. Tally(Put, u) = Worth(Put, u, r - 1)
    BY <2>2, <2>3, FoldIsWorth
  <2>5. \A i \in 1 .. r - 1 : Put[u[i]] = Blocks[s[i]]
    BY <2>2, <2>3, BlocksPut
  <2>6. Worth(Put, u, r - 1) = Worth(Blocks, s, r - 1)
    BY <2>5 DEF Worth
  <2> QED
    BY <1>2, <2>1, <2>2, <2>4, <2>6 DEF s
<1> QED
  BY <1>1, <1>2

(* There are six containers.                                               *)
LEMMA KindsFinite == IsFiniteSet(Kinds)
<1> DEFINE S1 == {} \cup {"ring"}
           S2 == S1 \cup {"buffer"}
           S3 == S2 \cup {"pipe"}
           S4 == S3 \cup {"dual"}
           S5 == S4 \cup {"duplex_ring"}
           S6 == S5 \cup {"duplex_pipe"}
<1>1. Kinds = S6
  BY PartsAre DEF Names
<1>2. IsFiniteSet(S1)
  BY FS_EmptySet, FS_AddElement
<1> HIDE DEF S1
<1>3. IsFiniteSet(S2)
  BY <1>2, FS_AddElement
<1> HIDE DEF S2
<1>4. IsFiniteSet(S3)
  BY <1>3, FS_AddElement
<1> HIDE DEF S3
<1>5. IsFiniteSet(S4)
  BY <1>4, FS_AddElement
<1> HIDE DEF S4
<1>6. IsFiniteSet(S5)
  BY <1>5, FS_AddElement
<1> HIDE DEF S5
<1>7. IsFiniteSet(S6)
  BY <1>6, FS_AddElement
<1> QED
  BY <1>1, <1>7

(* A call stands on a rung of its ladder or above the last one.            *)
Frames == {f \in [kind : Kinds, rung : Nat] : f.rung \in 1 .. Len(Parts[f.kind]) + 1}

(* What all calls under way hold, counted from the outermost one.          *)
Stacked(s) == Total([d \in 1 .. Len(s) |-> Held(s[Len(s) + 1 - d])], 1 .. Len(s))

(* What a call holds is an integer.                                        *)
LEMMA HeldInt == \A f \in Frames : Held(f) \in Int
<1> SUFFICES ASSUME NEW f \in Frames PROVE Held(f) \in Int
  OBVIOUS
<1>1. f.kind \in Kinds /\ f.rung - 1 \in 0 .. Len(Parts[f.kind])
  BY Rungs DEF Frames
<1> QED
  BY <1>1, HeldSteps DEF Held

(* So is what all calls under way hold.                                    *)
LEMMA StackedInt == ASSUME NEW s \in Seq(Frames) PROVE Stacked(s) \in Int
<1> DEFINE n == Len(s)
           h == [d \in 1 .. n |-> Held(s[n + 1 - d])]
<1>1. IsFiniteSet(1 .. n)
  BY FS_Interval
<1>2. \A d \in 1 .. n : h[d] \in Int
  BY HeldInt
<1> HIDE DEF h
<1>3. Total(h, 1 .. n) \in Int
  BY <1>1, <1>2, TotalInt
<1> QED
  BY <1>3 DEF Stacked, h

(* Between two calls nothing is held.                                      *)
LEMMA StackedEmpty == Stacked(<<>>) = 0
BY TotalEmpty, Len(<<>>) = 0, 1 .. 0 = {} DEF Stacked

(* The innermost call, and the others.                                     *)
LEMMA StackedTop ==
  ASSUME NEW s \in Seq(Frames), s # <<>>
  PROVE  Stacked(s) = Stacked(Tail(s)) + Held(s[1])
<1> DEFINE n == Len(s)
           u == Tail(s)
           h == [d \in 1 .. n |-> Held(s[n + 1 - d])]
           f == [d \in 1 .. n - 1 |-> Held(u[n - 1 + 1 - d])]
<1>1. /\ n \in Nat \ {0} /\ u \in Seq(Frames) /\ Len(u) = n - 1
      /\ \A i \in 1 .. n - 1 : u[i] = s[i + 1]
  OBVIOUS
<1>2. IsFiniteSet(1 .. n) /\ IsFiniteSet(1 .. n - 1)
  BY <1>1, FS_Interval
<1>3. \A d \in 1 .. n : h[d] \in Int
  BY HeldInt
<1>4. h[n] = Held(s[1])
  BY <1>1
<1>5. \A d \in 1 .. n - 1 : f[d] \in Int /\ h[d] = f[d]
  <2> SUFFICES ASSUME NEW d \in 1 .. n - 1 PROVE f[d] \in Int /\ h[d] = f[d]
    OBVIOUS
  <2>1. n - d \in 1 .. n - 1 /\ n - 1 + 1 - d = n - d /\ n + 1 - d = (n - d) + 1
    BY <1>1
  <2>2. u[n - d] = s[n + 1 - d] /\ d \in 1 .. n
    BY <1>1, <2>1
  <2>3. f[d] = h[d]
    BY <2>1, <2>2
  <2> QED
    BY <1>3, <2>2, <2>3
<1>6. Total(f, 1 .. n - 1) = Stacked(u)
  BY <1>1 DEF Stacked
<1>7. Total(h, 1 .. n) = Stacked(s)
  BY DEF Stacked
<1> HIDE DEF h, f, u
<1>8. (1 .. n) \ {n} = 1 .. n - 1 /\ n \in 1 .. n
  BY <1>1
<1>9. Total(h, 1 .. n) = Total(h, 1 .. n - 1) + h[n]
  BY <1>2, <1>3, <1>8, TotalSplit
<1>10. Total(h, 1 .. n - 1) = Total(f, 1 .. n - 1)
  BY <1>2, <1>5, TotalSame
<1> QED
  BY <1>4, <1>6, <1>7, <1>9, <1>10 DEF u

(* A call that gets its part climbs to the next rung.                      *)
LEMMA Climbs ==
  ASSUME NEW s \in Seq(Frames), s # <<>>, s[1].rung <= Len(Parts[s[1].kind])
  PROVE  LET part == Parts[s[1].kind][s[1].rung]
         IN  /\ Climb(s) \in Seq(Frames) /\ Len(Climb(s)) = Len(s)
             /\ Climb(s)[1].kind = s[1].kind
             /\ \A i \in 2 .. Len(s) : Climb(s)[i] = s[i]
             /\ Stacked(Climb(s)) = Stacked(s) + Blocks[part]
<1> DEFINE k == s[1].kind
           r == s[1].rung
           e == [kind |-> k, rung |-> r + 1]
           c == Climb(s)
<1>1. /\ Len(s) \in Nat \ {0} /\ s[1] \in Frames /\ k \in Kinds /\ r \in 1 .. Len(Parts[k])
      /\ DOMAIN s = 1 .. Len(s)
  BY DEF Frames
<1>2. e \in Frames
  BY <1>1, Rungs DEF Frames
<1>3. c = [s EXCEPT ![1] = e]
  <2>1. [s[1] EXCEPT !.rung = s[1].rung + 1] = e
    BY <1>1 DEF Frames
  <2>2. c = [s EXCEPT ![1] = [s[1] EXCEPT !.rung = s[1].rung + 1]]
    BY Zenon DEF Climb
  <2> QED
    BY <2>1, <2>2
<1>4. c = [i \in 1 .. Len(s) |-> IF i = 1 THEN e ELSE s[i]]
  BY <1>1, <1>3
<1>5. \A i \in 1 .. Len(s) : (IF i = 1 THEN e ELSE s[i]) \in Frames
  BY <1>2
<1>6. c \in Seq(Frames) /\ Len(c) = Len(s)
  BY <1>1, <1>4, <1>5
<1>7. c[1] = e /\ \A i \in 2 .. Len(s) : c[i] = s[i]
  BY <1>1, <1>4
<1>8. Held(e) = Held(s[1]) + Blocks[Parts[k][r]]
  <2>1. Worth(Blocks, Parts[k], r) = Worth(Blocks, Parts[k], r - 1) + Blocks[Parts[k][r]]
    BY <1>1, HeldSteps
  <2>2. e.kind = k /\ e.rung - 1 = r
    BY <1>1, Rungs
  <2> QED
    BY <2>1, <2>2 DEF Held
<1> HIDE DEF e, c
<1>9. Tail(c) = Tail(s)
  BY <1>1, <1>6, <1>7
<1>10. /\ c # <<>>
       /\ Stacked(c) = Stacked(Tail(c)) + Held(c[1])
       /\ Stacked(s) = Stacked(Tail(s)) + Held(s[1])
  BY <1>1, <1>6, StackedTop
<1>11. Stacked(Tail(s)) \in Int
  <2>1. Tail(s) \in Seq(Frames)
    OBVIOUS
  <2> QED
    BY <2>1, StackedInt
<1>12. Held(s[1]) \in Int /\ Blocks[Parts[k][r]] \in Int
  BY <1>1, HeldInt, Rungs, BlocksPut
<1>13. Stacked(c) = Stacked(s) + Blocks[Parts[k][r]]
  <2>1. Stacked(c) = Stacked(Tail(s)) + (Held(s[1]) + Blocks[Parts[k][r]])
    BY <1>7, <1>8, <1>9, <1>10
  <2> HIDE DEF k, r
  <2> QED
    BY <2>1, <1>10, <1>11, <1>12
<1> QED
  BY <1>6, <1>7, <1>13 DEF c, e

-----------------------------------------------------------------------------
(* The invariant: the memory in use is what the containers got and not put *)
(* consist of, the two kinds of lost blocks, and what the calls under way  *)
(* hold; each call but the innermost waits on the rung of the part that    *)
(* the next one builds, and nothing fails above the last rung.             *)
Kept == [k \in Kinds |-> owned[k] * Blocks[k]]

AllocType ==
  /\ live \in Int /\ failing \in BOOLEAN /\ puts \in Int /\ torn \in Int
  /\ owned \in [Kinds -> Int]
  /\ ladders \in Seq(Frames)

Linked(s) ==
  \A i, j \in 1 .. Len(s) :
    j = i + 1 => /\ s[j].rung <= Len(Parts[s[j].kind])
                 /\ Parts[s[j].kind][s[j].rung] = s[i].kind

FailsOnRung == failing => ladders # <<>> /\ Top.rung <= Len(Parts[Top.kind])

Balance == live = Total(Kept, Kinds) + 2 * puts + 2 * torn + Stacked(ladders)

AllocInv == AllocType /\ Linked(ladders) /\ FailsOnRung /\ Balance

(* The sum of the invariant is the one that HeapExact folds.               *)
LEMMA KeptIsTotal ==
  FoldFunction(LAMBDA a, b : a + b, 0, Kept) = Total(Kept, Kinds)
<1> DEFINE Body(g) == [u \in SUBSET Kinds |->
                        IF u = {} THEN 0 ELSE Kept[Pick(u)] + g[u \ {Pick(u)}]]
           it == CHOOSE g : g = Body(g)
<1>0. DOMAIN Kept = Kinds
  BY DEF Kept
<1>1. FoldFunction(LAMBDA a, b : a + b, 0, Kept) = it[Kinds]
  BY <1>0, Zenon DEF FoldFunction, FoldFunctionOnSet, MapThenFoldSet, Pick
<1>2. \A g : g = Body(g) <=> IsSum(Kept, Kinds, g)
  BY Zenon DEF IsSum
<1> HIDE DEF Body
<1>3. \E g : g = Body(g)
  BY <1>2, KindsFinite, SumExists
<1>4. it = Body(it)
  BY <1>3, Zenon
<1>5. IsSum(Kept, Kinds, it) /\ Kinds \in SUBSET Kinds
  BY <1>2, <1>4
<1> HIDE DEF it
<1>6. Total(Kept, Kinds) = it[Kinds]
  BY <1>5, KindsFinite, TotalIs
<1> QED
  BY <1>1, <1>6

(* What the containers got and not put consist of is an integer.           *)
LEMMA KeptInt == AllocType => (\A k \in Kinds : Kept[k] \in Int) /\ Total(Kept, Kinds) \in Int
<1> SUFFICES ASSUME AllocType PROVE (\A k \in Kinds : Kept[k] \in Int) /\ Total(Kept, Kinds) \in Int
  OBVIOUS
<1>1. \A k \in Kinds : Blocks[k] \in Int /\ owned[k] \in Int
  BY BlocksPut DEF AllocType, Items
<1>2. \A k \in Kinds : Kept[k] \in Int
  BY <1>1 DEF Kept
<1> QED
  BY <1>2, KindsFinite, TotalInt

(* One container more or less changes the sum by its blocks.               *)
LEMMA KeptMoves ==
  ASSUME AllocType, NEW k \in Kinds, NEW d \in {-1, 1},
         owned' = [owned EXCEPT ![k] = @ + d]
  PROVE  /\ owned' \in [Kinds -> Int]
         /\ Total(Kept', Kinds) = Total(Kept, Kinds) + d * Blocks[k]
<1>1. \A j \in Kinds : Blocks[j] \in Int /\ owned[j] \in Int
  BY BlocksPut DEF AllocType, Items
<1>2. owned' \in [Kinds -> Int] /\ owned'[k] = owned[k] + d
      /\ \A j \in Kinds \ {k} : owned'[j] = owned[j]
  BY <1>1 DEF AllocType
<1>3. Kept' = [j \in Kinds |-> owned'[j] * Blocks[j]]
  BY DEF Kept
<1>4. \A j \in Kinds : Kept[j] = owned[j] * Blocks[j] /\ Kept'[j] = owned'[j] * Blocks[j]
  BY <1>3 DEF Kept
<1> DEFINE e == d * Blocks[k]
<1>5. e \in Int /\ Kept'[k] = Kept[k] + e
  <2>1. Kept[k] = owned[k] * Blocks[k] /\ Kept'[k] = (owned[k] + d) * Blocks[k]
    BY <1>2, <1>4
  <2>2. ASSUME NEW o \in Int, NEW b \in Int
        PROVE  d * b \in Int /\ (o + d) * b = o * b + d * b
    OBVIOUS
  <2> QED
    BY <1>1, <2>1, <2>2
<1>6. \A j \in Kinds \ {k} : Kept'[j] = Kept[j]
  BY <1>2, <1>4
<1>7. \A j \in Kinds : Kept[j] \in Int
  BY KeptInt
<1> HIDE DEF e
<1>8. Total(Kept', Kinds) = Total(Kept, Kinds) + e
  BY <1>5, <1>6, <1>7, KindsFinite, TotalChange
<1> QED
  BY <1>2, <1>8 DEF e

(* Climbing leaves the waiting calls where they are.                       *)
LEMMA LinkedClimb ==
  ASSUME NEW s \in Seq(Frames), NEW c \in Seq(Frames), Len(c) = Len(s), s # <<>>,
         c[1].kind = s[1].kind, \A i \in 2 .. Len(s) : c[i] = s[i],
         Linked(s)
  PROVE  Linked(c)
<1>1. Len(s) \in Nat
  OBVIOUS
<1> SUFFICES ASSUME NEW i \in 1 .. Len(s), NEW j \in 1 .. Len(s), j = i + 1
             PROVE  /\ c[j].rung <= Len(Parts[c[j].kind])
                    /\ Parts[c[j].kind][c[j].rung] = c[i].kind
  BY DEF Linked
<1>2. c[j] = s[j] /\ c[i].kind = s[i].kind
  <2>1. j \in 2 .. Len(s) /\ (i = 1 \/ i \in 2 .. Len(s))
    BY <1>1
  <2> QED
    BY <2>1
<1> QED
  BY <1>2 DEF Linked

(* Pushing a new call: it holds nothing.                                   *)
LEMMA Pushes ==
  ASSUME NEW s \in Seq(Frames), NEW k \in Kinds
  PROVE  LET t == <<Frame(k)>> \o s
         IN  /\ t \in Seq(Frames) /\ t # <<>> /\ t[1] = Frame(k) /\ Len(t) = Len(s) + 1
             /\ \A i \in 1 .. Len(s) : t[i + 1] = s[i]
             /\ Stacked(t) = Stacked(s)
<1> DEFINE t == <<Frame(k)>> \o s
<1>1. Frame(k) \in Frames /\ Held(Frame(k)) = 0
  <2>1. Frame(k).kind = k /\ Frame(k).rung = 1
    BY DEF Frame
  <2>2. Frame(k) \in [kind : Kinds, rung : Nat]
    BY DEF Frame
  <2>3. 1 \in 1 .. Len(Parts[k]) + 1 /\ 1 - 1 = 0
    BY Rungs
  <2> QED
    BY <2>1, <2>2, <2>3, HeldSteps DEF Frames, Held
<1>2. /\ t \in Seq(Frames) /\ t # <<>> /\ t[1] = Frame(k) /\ Len(t) = Len(s) + 1
      /\ \A i \in 1 .. Len(s) : t[i + 1] = s[i]
      /\ Tail(t) = s
  BY <1>1
<1> HIDE DEF t
<1>3. Stacked(t) = Stacked(s) + Held(t[1]) /\ Stacked(s) \in Int
  BY <1>2, StackedTop, StackedInt
<1>4. Stacked(t) = Stacked(s)
  BY <1>1, <1>2, <1>3
<1> QED
  BY <1>2, <1>4 DEF t

(* The steps, one for each way the memory in use can change.               *)
LEMMA KmallocKeeps ==
  ASSUME AllocInv, Kmalloc
  PROVE  AllocInv'
<1>1. /\ ladders \in Seq(Frames) /\ ladders # <<>> /\ ~failing
      /\ ladders[1].rung <= Len(Parts[ladders[1].kind])
      /\ Parts[ladders[1].kind][ladders[1].rung] = "block"
      /\ UNCHANGED <<owned, puts, torn>>
  BY DEF AllocInv, AllocType, Kmalloc, OnRung, Climbing, Top, Part
<1>2. Kept' = Kept
  BY <1>1 DEF Kept
<1>3. CASE live' = live + 1 /\ ladders' = Climb(ladders) /\ failing' = failing
  <2>1. /\ Climb(ladders) \in Seq(Frames) /\ Len(Climb(ladders)) = Len(ladders)
        /\ Climb(ladders)[1].kind = ladders[1].kind
        /\ \A i \in 2 .. Len(ladders) : Climb(ladders)[i] = ladders[i]
        /\ Stacked(Climb(ladders)) = Stacked(ladders) + Blocks["block"]
    BY <1>1, Climbs
  <2>2. AllocType'
    BY <1>1, <1>3, <2>1 DEF AllocInv, AllocType
  <2>3. Linked(ladders')
    BY <1>1, <1>3, <2>1, LinkedClimb DEF AllocInv
  <2>4. FailsOnRung'
    BY <1>1, <1>3 DEF FailsOnRung
  <2>5. Stacked(ladders) \in Int /\ Total(Kept, Kinds) \in Int
    BY <1>1, StackedInt, KeptInt DEF AllocInv
  <2>6. Balance'
    BY <1>1, <1>2, <1>3, <2>1, <2>5, BlocksPut DEF AllocInv, AllocType, Balance
  <2> QED
    BY <2>2, <2>3, <2>4, <2>6 DEF AllocInv
<1>4. CASE failing' = TRUE /\ UNCHANGED <<live, ladders>>
  <2>1. AllocType' /\ Linked(ladders')
    BY <1>1, <1>4 DEF AllocInv, AllocType
  <2>2. FailsOnRung'
    BY <1>1, <1>4 DEF FailsOnRung, Top
  <2>3. Balance'
    BY <1>1, <1>2, <1>4 DEF AllocInv, Balance
  <2> QED
    BY <2>1, <2>2, <2>3 DEF AllocInv
<1> QED
  BY <1>3, <1>4 DEF Kmalloc

(* A get function that begins, be it called from outside or for a part of  *)
(* another container, holds nothing yet.                                   *)
LEMMA PushKeeps ==
  ASSUME AllocInv, NEW k \in Kinds, ladders' = <<Frame(k)>> \o ladders,
         ladders # <<>> => /\ ladders[1].rung <= Len(Parts[ladders[1].kind])
                           /\ Parts[ladders[1].kind][ladders[1].rung] = k,
         ~failing, UNCHANGED <<live, failing, owned, puts, torn>>
  PROVE  AllocInv'
<1>1. ladders \in Seq(Frames) /\ Len(ladders) \in Nat
  BY DEF AllocInv, AllocType
<1>2. /\ ladders' \in Seq(Frames) /\ ladders'[1] = Frame(k) /\ Len(ladders') = Len(ladders) + 1
      /\ \A i \in 1 .. Len(ladders) : ladders'[i + 1] = ladders[i]
      /\ Stacked(ladders') = Stacked(ladders)
  BY <1>1, Pushes
<1>3. Linked(ladders')
  <2> SUFFICES ASSUME NEW i \in 1 .. Len(ladders'), NEW j \in 1 .. Len(ladders'), j = i + 1
               PROVE  /\ ladders'[j].rung <= Len(Parts[ladders'[j].kind])
                      /\ Parts[ladders'[j].kind][ladders'[j].rung] = ladders'[i].kind
    BY DEF Linked
  <2>1. i \in 1 .. Len(ladders) /\ ladders'[j] = ladders[i]
    BY <1>1, <1>2
  <2>2. CASE i = 1
    <3>1. ladders'[i].kind = k /\ ladders # <<>>
      BY <1>1, <1>2, <2>1, <2>2 DEF Frame
    <3> QED
      BY <2>1, <2>2, <3>1
  <2>3. CASE i # 1
    <3> DEFINE l == i - 1
    <3>1. l \in 1 .. Len(ladders) /\ i = l + 1
      BY <1>1, <2>1, <2>3
    <3>2. ladders'[i] = ladders[l]
      BY <1>2, <3>1
    <3> HIDE DEF l
    <3> QED
      BY <2>1, <3>1, <3>2 DEF AllocInv, Linked
  <2> QED
    BY <2>2, <2>3
<1>4. Kept' = Kept
  BY DEF Kept
<1>5. AllocType' /\ FailsOnRung' /\ Balance'
  BY <1>2, <1>4 DEF AllocInv, AllocType, FailsOnRung, Balance
<1> QED
  BY <1>3, <1>5 DEF AllocInv

(* Without the innermost call the others still wait on one another, and    *)
(* the next one stands on the rung of the part that call was building.     *)
LEMMA Pops ==
  ASSUME NEW s \in Seq(Frames), s # <<>>, Linked(s)
  PROVE  /\ Len(s) \in Nat \ {0}
         /\ Tail(s) \in Seq(Frames) /\ Len(Tail(s)) = Len(s) - 1
         /\ Linked(Tail(s))
         /\ Len(s) > 1 => /\ Tail(s) # <<>>
                          /\ Tail(s)[1].rung <= Len(Parts[Tail(s)[1].kind])
                          /\ Parts[Tail(s)[1].kind][Tail(s)[1].rung] = s[1].kind
<1> DEFINE u == Tail(s)
<1>1. /\ Len(s) \in Nat \ {0} /\ u \in Seq(Frames) /\ Len(u) = Len(s) - 1
      /\ \A i \in 1 .. Len(s) - 1 : u[i] = s[i + 1]
  OBVIOUS
<1> HIDE DEF u
<1>2. Linked(u)
  <2> SUFFICES ASSUME NEW i \in 1 .. Len(u), NEW j \in 1 .. Len(u), j = i + 1
               PROVE  /\ u[j].rung <= Len(Parts[u[j].kind])
                      /\ Parts[u[j].kind][u[j].rung] = u[i].kind
    BY DEF Linked
  <2> DEFINE a == i + 1
             b == j + 1
  <2>1. /\ a \in 1 .. Len(s) /\ b \in 1 .. Len(s) /\ b = a + 1
        /\ u[i] = s[a] /\ u[j] = s[b]
    BY <1>1
  <2> HIDE DEF a, b
  <2> QED
    BY <2>1 DEF Linked
<1>3. ASSUME Len(s) > 1
      PROVE  /\ u # <<>> /\ u[1].rung <= Len(Parts[u[1].kind])
             /\ Parts[u[1].kind][u[1].rung] = s[1].kind
  <2>1. u[1] = s[2] /\ 1 \in 1 .. Len(s) /\ 2 \in 1 .. Len(s) /\ u # <<>>
    BY <1>1, <1>3
  <2> QED
    BY <2>1 DEF Linked
<1> QED
  BY <1>1, <1>2, <1>3 DEF u

(* A get function that returns hands its blocks to the caller, or, the     *)
(* outermost one, to the user.                                             *)
LEMMA ReturnKeeps ==
  ASSUME AllocInv, Return
  PROVE  AllocInv'
<1> DEFINE s == ladders
           k == ladders[1].kind
<1>1. /\ s \in Seq(Frames) /\ s # <<>> /\ ~failing /\ s[1].rung > Len(Parts[k])
      /\ UNCHANGED <<live, failing, puts, torn>>
  BY DEF AllocInv, AllocType, Return, Climbing, Top
<1>2. s[1] \in Frames /\ k \in Kinds /\ s[1].rung - 1 = Len(Parts[k])
  <2>1. s[1] \in Frames
    BY <1>1
  <2> QED
    BY <1>1, <2>1, Rungs DEF Frames
<1>3. Held(s[1]) = Blocks[k] /\ Blocks[k] \in Int
  BY <1>2, HeldSteps, BlocksPut DEF Held, Items
<1>4. Stacked(s) = Stacked(Tail(s)) + Blocks[k]
  BY <1>1, <1>3, StackedTop
<1>5. /\ Len(s) \in Nat \ {0}
      /\ Tail(s) \in Seq(Frames) /\ Len(Tail(s)) = Len(s) - 1 /\ Linked(Tail(s))
      /\ Len(s) > 1 => /\ Tail(s) # <<>>
                       /\ Tail(s)[1].rung <= Len(Parts[Tail(s)[1].kind])
                       /\ Parts[Tail(s)[1].kind][Tail(s)[1].rung] = k
  BY <1>1, Pops DEF AllocInv
<1>6. Stacked(Tail(s)) \in Int /\ Total(Kept, Kinds) \in Int
  BY <1>5, StackedInt, KeptInt DEF AllocInv
<1>7. FailsOnRung'
  BY <1>1 DEF FailsOnRung
<1>8. CASE Len(s) = 1
  <2>1. ladders' = <<>> /\ owned' = [owned EXCEPT ![k] = @ + 1]
    BY <1>8 DEF Return, Top
  <2>2. owned' \in [Kinds -> Int] /\ Total(Kept', Kinds) = Total(Kept, Kinds) + 1 * Blocks[k]
    BY <1>2, <2>1, KeptMoves DEF AllocInv
  <2>3. ladders' \in Seq(Frames) /\ Linked(ladders')
    BY <2>1 DEF Linked
  <2>4. Stacked(Tail(s)) = 0 /\ Stacked(ladders') = 0
    <3>1. ASSUME NEW u \in Seq(Frames), Len(u) = 0 PROVE u = <<>>
      BY <3>1
    <3>2. Len(Tail(s)) = 0
      BY <1>5, <1>8
    <3> QED
      BY <1>5, <2>1, <3>1, <3>2, StackedEmpty
  <2>5. Balance'
    <3> HIDE DEF s, k
    <3> QED
      BY <1>1, <1>3, <1>4, <1>6, <2>2, <2>4 DEF AllocInv, AllocType, Balance, s
  <2> QED
    BY <1>1, <1>7, <2>2, <2>3, <2>5 DEF AllocInv, AllocType
<1>9. CASE Len(s) # 1
  <2>1. ladders' = Climb(Tail(s)) /\ owned' = owned
    BY <1>9 DEF Return
  <2>2. Len(s) > 1
    BY <1>5, <1>9
  <2> DEFINE u == Tail(s)
  <2>3. /\ u \in Seq(Frames) /\ u # <<>> /\ u[1].rung <= Len(Parts[u[1].kind])
        /\ Parts[u[1].kind][u[1].rung] = k /\ Linked(u)
    BY <1>5, <2>2
  <2> HIDE DEF u
  <2>4. /\ Climb(u) \in Seq(Frames) /\ Len(Climb(u)) = Len(u) /\ Climb(u)[1].kind = u[1].kind
        /\ \A i \in 2 .. Len(u) : Climb(u)[i] = u[i]
        /\ Stacked(Climb(u)) = Stacked(u) + Blocks[k]
    BY <2>3, Climbs
  <2>5. ladders' = Climb(u)
    BY <2>1 DEF u
  <2>6. ladders' \in Seq(Frames) /\ Linked(ladders')
    BY <2>3, <2>4, <2>5, LinkedClimb
  <2>7. Kept' = Kept
    BY <2>1 DEF Kept
  <2>8. Stacked(ladders') = Stacked(s)
    BY <1>4, <2>4, <2>5 DEF u
  <2>9. Balance'
    BY <1>1, <2>7, <2>8 DEF AllocInv, Balance
  <2> QED
    BY <1>1, <1>7, <2>1, <2>6, <2>9 DEF AllocInv, AllocType
<1> QED
  BY <1>8, <1>9

(* A get function that fails frees all it held, but for two blocks of the  *)
(* first buffer of a dual buffer.                                          *)
LEMMA UnwindKeeps ==
  ASSUME AllocInv, Unwind
  PROVE  AllocInv'
<1> DEFINE s == ladders
           k == ladders[1].kind
           r == ladders[1].rung
           lost == IF k = "dual" /\ r = 4 THEN 1 ELSE 0
<1>1. /\ s \in Seq(Frames) /\ s # <<>> /\ r <= Len(Parts[k])
      /\ live' = live - Undone(k, r)
      /\ ladders' = Tail(s) /\ failing' = (Len(s) > 1)
      /\ UNCHANGED <<owned, puts>>
  BY DEF AllocInv, AllocType, FailsOnRung, Unwind, Top
<1>2. torn' = torn + lost
  <2>1. torn \in Int
    BY DEF AllocInv, AllocType
  <2>2. torn' = IF k = "dual" /\ r = 4 THEN torn + 1 ELSE torn
    BY DEF Unwind, Top
  <2> QED
    BY <2>1, <2>2
<1>3. k \in Kinds /\ r \in 1 .. Len(Parts[k]) /\ s[1] \in Frames
  <2>1. s[1] \in Frames
    BY <1>1
  <2> QED
    BY <1>1, <2>1, Rungs DEF Frames
<1>4. Undone(k, r) = Held(s[1]) - 2 * lost
  <2>1. Held(s[1]) = Worth(Blocks, Parts[k], r - 1)
    BY DEF Held
  <2>2. Held(s[1]) \in Int
    BY <1>3, HeldInt
  <2> QED
    BY <1>3, <2>1, <2>2, UndoneIsHeld
<1>5. Stacked(s) = Stacked(Tail(s)) + Held(s[1]) /\ Held(s[1]) \in Int
  BY <1>1, <1>3, StackedTop, HeldInt
<1>6. /\ Tail(s) \in Seq(Frames) /\ Linked(Tail(s))
      /\ Len(s) > 1 => Tail(s) # <<>> /\ Tail(s)[1].rung <= Len(Parts[Tail(s)[1].kind])
  BY <1>1, Pops DEF AllocInv
<1>7. Stacked(Tail(s)) \in Int /\ Total(Kept, Kinds) \in Int /\ Kept' = Kept
  BY <1>1, <1>6, StackedInt, KeptInt DEF AllocInv, Kept
<1>8. lost \in Int
  OBVIOUS
<1>9. FailsOnRung'
  <2>1. ASSUME NEW u \in Seq(Frames), u # <<>> PROVE Head(u) = u[1]
    OBVIOUS
  <2>2. Len(s) > 1 => Head(ladders').rung <= Len(Parts[Head(ladders').kind])
    BY <1>1, <1>6, <2>1
  <2> HIDE DEF s
  <2> QED
    BY <1>1, <1>6, <2>2 DEF FailsOnRung, Top
<1> HIDE DEF lost, k, r, s
<1>10. Balance'
  <2>1. live = Total(Kept, Kinds) + 2 * puts + 2 * torn + Stacked(s)
    BY DEF AllocInv, Balance, s
  <2>2. live \in Int /\ puts \in Int /\ torn \in Int
    BY DEF AllocInv, AllocType
  <2>3. live' = live - (Held(s[1]) - 2 * lost) /\ puts' = puts /\ ladders' = Tail(s)
    BY <1>1, <1>4
  <2>4. live' = Total(Kept, Kinds) + 2 * puts' + 2 * torn' + Stacked(Tail(s))
    BY <1>2, <1>5, <1>7, <1>8, <2>1, <2>2, <2>3, SMTT(20)
  <2> QED
    BY <1>7, <2>3, <2>4 DEF Balance
<1>11. AllocType'
  <2>1. live \in Int /\ torn \in Int /\ puts \in Int /\ owned \in [Kinds -> Int]
    BY DEF AllocInv, AllocType
  <2>2. live' \in Int /\ torn' \in Int /\ failing' \in BOOLEAN
    BY <1>1, <1>2, <1>4, <1>5, <1>8, <2>1
  <2> QED
    BY <1>1, <1>6, <2>1, <2>2 DEF AllocType
<1> QED
  BY <1>1, <1>6, <1>9, <1>10, <1>11 DEF AllocInv

(* A put function frees what its get function allocated, but for the two   *)
(* ends of a duplex.                                                       *)
LEMMA PutBackKeeps ==
  ASSUME AllocInv, NEW k \in Kinds, PutBack(k)
  PROVE  AllocInv'
<1> DEFINE gone == IF k \in Duplex THEN 1 ELSE 0
<1>1. /\ live \in Int /\ puts \in Int /\ torn \in Int /\ failing \in BOOLEAN
      /\ ladders = <<>> /\ UNCHANGED <<ladders, failing, torn>>
      /\ live' = live - Put[k]
      /\ owned' = [owned EXCEPT ![k] = @ - 1]
  BY DEF AllocInv, AllocType, PutBack
<1>2. puts' = puts + gone /\ gone \in Int
  BY <1>1 DEF PutBack
<1>3. Put[k] = Blocks[k] - 2 * gone /\ Blocks[k] \in Int
  BY BlocksPut DEF Items
<1>4. owned' = [owned EXCEPT ![k] = @ + (-1)]
  <2>1. owned[k] \in Int
    BY DEF AllocInv, AllocType
  <2>2. owned[k] - 1 = owned[k] + (-1)
    BY <2>1
  <2> QED
    BY <1>1, <2>2
<1>5. owned' \in [Kinds -> Int] /\ Total(Kept', Kinds) = Total(Kept, Kinds) + (-1) * Blocks[k]
  BY <1>4, KeptMoves DEF AllocInv
<1>6. Total(Kept, Kinds) \in Int /\ Stacked(ladders) \in Int /\ Stacked(ladders') = Stacked(ladders)
  BY <1>1, KeptInt, StackedEmpty DEF AllocInv
<1> HIDE DEF gone
<1>7. Balance'
  <2>1. live = Total(Kept, Kinds) + 2 * puts + 2 * torn + Stacked(ladders)
    BY DEF AllocInv, Balance
  <2>2. Total(Kept', Kinds) = Total(Kept, Kinds) - Blocks[k] /\ torn' = torn
    BY <1>1, <1>3, <1>5, <1>6
  <2>3. live' = Total(Kept', Kinds) + 2 * puts' + 2 * torn' + Stacked(ladders')
    BY <1>1, <1>2, <1>3, <1>6, <2>1, <2>2
  <2> QED
    BY <2>3 DEF Balance
<1>8. AllocType'
  BY <1>1, <1>2, <1>3, <1>5 DEF AllocInv, AllocType
<1>9. Linked(ladders') /\ FailsOnRung'
  BY <1>1 DEF AllocInv, FailsOnRung
<1> QED
  BY <1>7, <1>8, <1>9 DEF AllocInv

-----------------------------------------------------------------------------
(* Before the first call nothing is held.                                  *)
LEMMA AllocInitInv == AllocInit => AllocInv
<1> SUFFICES ASSUME AllocInit PROVE AllocInv
  OBVIOUS
<1>1. AllocType /\ Linked(ladders) /\ FailsOnRung
  <2>1. AllocType
    <3>1. owned = [k \in Kinds |-> 0] /\ owned \in [Kinds -> Int]
      BY DEF AllocInit
    <3>2. ladders \in Seq(Frames)
      <4>1. ladders = <<>>
        BY DEF AllocInit
      <4> QED
        BY <4>1
    <3>3. live \in Int /\ puts \in Int /\ torn \in Int
      BY DEF AllocInit
    <3>4. failing \in BOOLEAN
      BY Zenon DEF AllocInit
    <3> QED
      BY <3>1, <3>2, <3>3, <3>4, Zenon DEF AllocType
  <2>2. Linked(ladders)
    BY DEF AllocInit, Linked
  <2>3. FailsOnRung
    BY DEF AllocInit, FailsOnRung
  <2> QED
    BY <2>1, <2>2, <2>3
<1>2. \A k \in Kinds : Kept[k] = 0
  <2>1. \A k \in Kinds : Blocks[k] \in Int
    BY BlocksPut DEF Items
  <2> QED
    BY <2>1 DEF AllocInit, Kept
<1>3. Total(Kept, Kinds) = 0
  BY <1>2, KindsFinite, TotalZero
<1>4. Stacked(ladders) = 0
  BY StackedEmpty DEF AllocInit
<1>5. Balance
  BY <1>3, <1>4 DEF AllocInit, Balance
<1> QED
  BY <1>1, <1>5 DEF AllocInv

(* Every step keeps the invariant.                                         *)
LEMMA AllocStepInv == AllocInv /\ [AllocNext]_allocation => AllocInv'
<1> SUFFICES ASSUME AllocInv, [AllocNext]_allocation PROVE AllocInv'
  OBVIOUS
<1>1. CASE Kmalloc
  BY <1>1, KmallocKeeps
<1>2. CASE GetPart
  <2>1. /\ ladders \in Seq(Frames) /\ ladders # <<>> /\ ~failing
        /\ ladders[1].rung <= Len(Parts[ladders[1].kind]) /\ Part # "block"
        /\ Part = Parts[ladders[1].kind][ladders[1].rung]
        /\ ladders' = <<Frame(Part)>> \o ladders
        /\ UNCHANGED <<live, failing, owned, puts, torn>>
    BY <1>2 DEF AllocInv, AllocType, GetPart, OnRung, Climbing, Top, Part
  <2>2. Part \in Kinds
    <3>1. ladders[1] \in Frames
      BY <2>1
    <3>2. ladders[1].kind \in Kinds /\ ladders[1].rung \in 1 .. Len(Parts[ladders[1].kind])
      BY <2>1, <3>1, Rungs DEF Frames
    <3>3. Part \in Items
      BY <2>1, <3>2, Rungs
    <3> QED
      BY <2>1, <3>3, PartsAre DEF Items, Names
  <2> QED
    BY <2>1, <2>2, PushKeeps
<1>3. CASE Return
  BY <1>3, ReturnKeeps
<1>4. CASE Unwind
  BY <1>4, UnwindKeeps
<1>5. ASSUME NEW k \in Wanted, Get(k) PROVE AllocInv'
  <2>1. ladders = <<>> /\ ladders' = <<Frame(k)>>
        /\ UNCHANGED <<live, failing, owned, puts, torn>>
    BY <1>5 DEF Get
  <2>2. <<Frame(k)>> \o <<>> = <<Frame(k)>>
    OBVIOUS
  <2>3. k \in Kinds /\ ~failing
    BY <2>1, AllocationAssumption DEF AllocInv, FailsOnRung
  <2> QED
    BY <2>1, <2>2, <2>3, PushKeeps
<1>6. ASSUME NEW k \in Wanted, PutBack(k) PROVE AllocInv'
  <2>1. k \in Kinds
    BY AllocationAssumption
  <2> QED
    BY <1>6, <2>1, PutBackKeeps
<1>7. CASE UNCHANGED allocation
  <2>1. UNCHANGED <<live, ladders, failing, owned, puts, torn>>
    BY <1>7 DEF allocation
  <2>2. Kept' = Kept
    BY <2>1 DEF Kept
  <2> QED
    BY <2>1, <2>2 DEF AllocInv, AllocType, FailsOnRung, Balance, Top
<1> QED
  BY <1>1, <1>2, <1>3, <1>4, <1>5, <1>6, <1>7 DEF AllocNext

(* However the calls are ordered and wherever kmalloc fails, between two   *)
(* calls the memory in use is what the containers got and not put consist  *)
(* of, both ends of every duplex that was put, and two blocks for every    *)
(* dual buffer that failed at its second buffer: no other path of the get  *)
(* and put functions loses a block or frees one twice.                     *)
THEOREM HeapAddsUp == AllocSpec => []HeapExact
<1>1. AllocInv => HeapExact
  <2> SUFFICES ASSUME AllocInv, ladders = <<>>
               PROVE  live = Total(Kept, Kinds) + 2 * puts + 2 * torn
    BY KeptIsTotal DEF HeapExact, Kept
  <2>1. Stacked(ladders) = 0
    BY StackedEmpty
  <2>2. Total(Kept, Kinds) \in Int /\ puts \in Int /\ torn \in Int
    BY KeptInt DEF AllocInv, AllocType
  <2> QED
    BY <2>1, <2>2 DEF AllocInv, Balance
<1> QED
  BY <1>1, AllocInitInv, AllocStepInv, PTL DEF AllocSpec

=============================================================================
