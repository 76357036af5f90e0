---------------------------- MODULE MerkleProofs -----------------------------
(***************************************************************************)
(* The Merkle tree of the commitment package, for every list of leaves:    *)
(* the path of every leaf folds to the root, and nothing else in its place *)
(* does.                                                                   *)
(*                                                                         *)
(* The Merkle Mountain Range and the gap report, for lists of any length.  *)
(* The mountains partition the leaves (MountainsAre); the nodes of their   *)
(* trees and of their bag are then a cover of the leaves (IsCover), and    *)
(* two covers with a node in common have the leaves under it in common     *)
(* (CoverBinds) when no leaf is the digest of a pair.                      *)
(*                                                                         *)
(* The library's induction principles take an operator, which no prover    *)
(* here can instantiate.  A set of natural numbers does as well: LeastNat  *)
(* and Induction come from the fact that finite sets are well founded      *)
(* under inclusion.                                                        *)
(***************************************************************************)
EXTENDS MMR, FiniteSetTheorems, SequenceTheorems, TLAPS

\* A set of natural numbers has a least element.
LEMMA LeastNat ==
  ASSUME NEW S \in SUBSET Nat, S # {}
  PROVE  \E n \in S : \A m \in S : n <= m
<1> DEFINE T == {0..n : n \in S}
           R == StrictSubsetOrdering(Nat)
           F == FiniteSubsetsOf(Nat)
<1>1. IsWellFoundedOn(R, F)
  BY FS_StrictSubsetOrderingWellFounded
<1>2. T \subseteq F /\ T # {}
  <2>1. \A n \in S : IsFiniteSet(0..n)
    BY FS_Interval
  <2>2. \A n \in S : 0..n \in F
    BY <2>1 DEF FiniteSubsetsOf
  <2> HIDE DEF F
  <2> QED BY <2>2
<1>3. \A X, Y \in SUBSET Nat : X \subseteq Y /\ X # Y => <<X, Y>> \in R
  BY DEF StrictSubsetOrdering
<1> HIDE DEF R, F
<1>4. PICK X \in T : \A Y \in T : ~(<<Y, X>> \in R)
  <2> HIDE DEF T
  <2> QED BY <1>1, <1>2, WFMin
<1>5. PICK n \in S : X = 0..n
  BY <1>4
<1>6. ASSUME NEW m \in S, m < n PROVE FALSE
  <2>1. 0..m \subseteq 0..n /\ n \in 0..n /\ n \notin 0..m
    BY <1>6
  <2>2. <<0..m, 0..n>> \in R
    BY <2>1, <1>3
  <2> QED BY <2>2, <1>4, <1>5
<1> QED BY <1>6

\* A set with 0 that is closed under + 1 has every natural number.
LEMMA Induction ==
  ASSUME NEW S, 0 \in S, \A n \in Nat : n \in S => n + 1 \in S
  PROVE  \A n \in Nat : n \in S
<1> SUFFICES ASSUME Nat \ S # {} PROVE FALSE
  OBVIOUS
<1>1. PICK n \in Nat \ S : \A m \in Nat \ S : n <= m
  BY LeastNat
<1>2. n # 0 /\ n - 1 \in Nat /\ n - 1 \notin Nat \ S
  BY <1>1
<1> QED BY <1>1, <1>2

-----------------------------------------------------------------------------
(***************************************************************************)
(* The recursive functions of Commitment are what their equations say      *)
(***************************************************************************)
\* Climbed is what its definition says: the leaf, and then parent after parent.
LEMMA ClimbedIs ==
  ASSUME NEW leaf, NEW path, Len(path) \in Nat
  PROVE  /\ Climbed(leaf, path)[0] = leaf
         /\ \A k \in 1..Len(path) :
              Climbed(leaf, path)[k] = Parent(Climbed(leaf, path)[k - 1], path[k])
<1> DEFINE N(f, n) == [k \in 0..n |-> IF k = 0 THEN leaf ELSE Parent(f[k - 1], path[k])]
           S == {n \in Nat : \E f : f = N(f, n)}
<1>1. 0 \in S
  <2> DEFINE f == [k \in 0..0 |-> leaf]
  <2>1. f = N(f, 0)
    OBVIOUS
  <2> QED BY <2>1
<1>2. ASSUME NEW n \in Nat, n \in S PROVE n + 1 \in S
  <2>1. PICK f : f = N(f, n)
    BY <1>2
  <2> DEFINE g == [k \in 0..(n + 1) |-> IF k <= n THEN f[k] ELSE Parent(f[n], path[n + 1])]
  <2>2. \A k \in 0..n : f[k] = IF k = 0 THEN leaf ELSE Parent(f[k - 1], path[k])
    BY <2>1
  <2>3. ASSUME NEW k \in 0..(n + 1)
        PROVE  g[k] = IF k = 0 THEN leaf ELSE Parent(g[k - 1], path[k])
    <3>1. CASE k <= n
      BY <2>2, <3>1
    <3>2. CASE k = n + 1
      BY <3>2
    <3> QED BY <3>1, <3>2
  <2>4. g = [k \in 0..(n + 1) |-> g[k]]
    OBVIOUS
  <2> HIDE DEF g
  <2>5. g = N(g, n + 1)
    BY <2>3, <2>4
  <2> QED BY <2>5
<1>3. \A n \in Nat : n \in S
  <2> HIDE DEF S
  <2> QED BY <1>1, <1>2, Induction
<1>4. \E f : f = N(f, Len(path))
  BY <1>3
<1>5. Climbed(leaf, path) = CHOOSE f : f = N(f, Len(path))
  BY DEF Climbed
<1>6. Climbed(leaf, path) = N(Climbed(leaf, path), Len(path))
  <2> DEFINE c == Climbed(leaf, path)
  <2> HIDE DEF N
  <2> QED BY <1>4, <1>5
<1> DEFINE c == Climbed(leaf, path)
<1>7. \A k \in 0..Len(path) : c[k] = IF k = 0 THEN leaf ELSE Parent(c[k - 1], path[k])
  <2>1. c = [k \in 0..Len(path) |-> IF k = 0 THEN leaf ELSE Parent(c[k - 1], path[k])]
    BY <1>6
  <2> HIDE DEF c
  <2> QED BY <2>1
<1> HIDE DEF c
<1>8. c[0] = leaf /\ \A k \in 1..Len(path) : c[k] = Parent(c[k - 1], path[k])
  BY <1>7
<1> QED BY <1>8 DEF c

\* Shifted is what its definition says: halved again and again.
LEMMA ShiftedIs ==
  ASSUME NEW x \in Nat
  PROVE  /\ Shifted(x)[0] = x
         /\ \A k \in 1..x : Shifted(x)[k] = Shifted(x)[k - 1] \div 2
<1> DEFINE N(f, n) == [k \in 0..n |-> IF k = 0 THEN x ELSE f[k - 1] \div 2]
           S == {n \in Nat : \E f : f = N(f, n)}
<1>1. 0 \in S
  <2> DEFINE f == [k \in 0..0 |-> x]
  <2>1. f = N(f, 0)
    OBVIOUS
  <2> QED BY <2>1
<1>2. ASSUME NEW n \in Nat, n \in S PROVE n + 1 \in S
  <2>1. PICK f : f = N(f, n)
    BY <1>2
  <2> DEFINE g == [k \in 0..(n + 1) |-> IF k <= n THEN f[k] ELSE f[n] \div 2]
  <2>2. \A k \in 0..n : f[k] = IF k = 0 THEN x ELSE f[k - 1] \div 2
    BY <2>1
  <2>3. ASSUME NEW k \in 0..(n + 1)
        PROVE  g[k] = IF k = 0 THEN x ELSE g[k - 1] \div 2
    <3>1. CASE k <= n
      BY <2>2, <3>1
    <3>2. CASE k = n + 1
      BY <3>2
    <3> QED BY <3>1, <3>2
  <2>4. g = [k \in 0..(n + 1) |-> g[k]]
    OBVIOUS
  <2> HIDE DEF g
  <2>5. g = N(g, n + 1)
    BY <2>3, <2>4
  <2> QED BY <2>5
<1>3. \A n \in Nat : n \in S
  <2> HIDE DEF S
  <2> QED BY <1>1, <1>2, Induction
<1>4. \E f : f = N(f, x)
  BY <1>3
<1> DEFINE c == Shifted(x)
<1>5. c = CHOOSE f : f = N(f, x)
  BY DEF Shifted
<1>6. c = N(c, x)
  <2> HIDE DEF N, c
  <2> QED BY <1>4, <1>5
<1> HIDE DEF c
<1>7. c[0] = x /\ \A k \in 1..x : c[k] = c[k - 1] \div 2
  BY <1>6
<1> QED BY <1>7 DEF c

\* The layers of BuildMerkleTree: the leaves, and each next level above.
LEMMA LayersAre ==
  ASSUME NEW leaves, CeilLog2(Len(leaves)) \in Nat
  PROVE  LET L == BuildMerkleTree(leaves)
             c == CeilLog2(Len(leaves))
         IN  /\ L = [l \in 1..(c + 1) |-> L[l]]
             /\ L[1] = leaves
             /\ \A l \in 1..c : L[l + 1] = NextLevel(L[l])
<1> DEFINE N(f, n) == [l \in 1..(n + 1) |-> IF l = 1 THEN leaves ELSE NextLevel(f[l - 1])]
           S == {n \in Nat : \E f : f = N(f, n)}
           L == BuildMerkleTree(leaves)
           c == CeilLog2(Len(leaves))
<1>1. 0 \in S
  <2> DEFINE f == [l \in 1..(0 + 1) |-> leaves]
  <2>1. f = N(f, 0)
    OBVIOUS
  <2> QED BY <2>1
<1>2. ASSUME NEW n \in Nat, n \in S PROVE n + 1 \in S
  <2>1. PICK f : f = N(f, n)
    BY <1>2
  <2> DEFINE g == [l \in 1..(n + 1 + 1) |-> IF l <= n + 1 THEN f[l] ELSE NextLevel(f[n + 1])]
  <2>2. \A l \in 1..(n + 1) : f[l] = IF l = 1 THEN leaves ELSE NextLevel(f[l - 1])
    BY <2>1
  <2>3. ASSUME NEW l \in 1..(n + 1 + 1)
        PROVE  g[l] = IF l = 1 THEN leaves ELSE NextLevel(g[l - 1])
    <3>1. CASE l <= n + 1
      BY <2>2, <3>1
    <3>2. CASE l = n + 1 + 1
      BY <3>2
    <3> QED BY <3>1, <3>2
  <2>4. g = [l \in 1..(n + 1 + 1) |-> g[l]]
    OBVIOUS
  <2> HIDE DEF g
  <2>5. g = N(g, n + 1)
    BY <2>3, <2>4
  <2> QED BY <2>5
<1>3. \A n \in Nat : n \in S
  <2> HIDE DEF S
  <2> QED BY <1>1, <1>2, Induction
<1>4. \E f : f = N(f, c)
  BY <1>3
<1>5. L = CHOOSE f : f = N(f, c)
  BY DEF BuildMerkleTree
<1>6. L = N(L, c)
  <2> HIDE DEF N, L, c
  <2> QED BY <1>4, <1>5
<1> HIDE DEF L, c
<1>7. c \in Nat
  BY DEF c
<1>8. L[1] = leaves /\ L = [l \in 1..(c + 1) |-> L[l]]
  BY <1>6, <1>7
<1>9. \A l \in 1..c : L[l + 1] = NextLevel(L[l])
  BY <1>6, <1>7
<1> QED BY <1>8, <1>9 DEF L, c

\* The index of a leaf's ancestor in each layer.
LEMMA IndexesAre ==
  ASSUME NEW layers, NEW n \in Nat, DOMAIN layers = 1..(n + 1), NEW index
  PROVE  /\ Indexes(layers, index)[1] = index
         /\ \A l \in 1..n : Indexes(layers, index)[l + 1] = Indexes(layers, index)[l] \div 2
<1> DEFINE N(f, m) == [l \in 1..(m + 1) |-> IF l = 1 THEN index ELSE f[l - 1] \div 2]
           S == {m \in Nat : \E f : f = N(f, m)}
           I == Indexes(layers, index)
<1>1. 0 \in S
  <2> DEFINE f == [l \in 1..(0 + 1) |-> index]
  <2>1. f = N(f, 0)
    OBVIOUS
  <2> QED BY <2>1
<1>2. ASSUME NEW m \in Nat, m \in S PROVE m + 1 \in S
  <2>1. PICK f : f = N(f, m)
    BY <1>2
  <2> DEFINE g == [l \in 1..(m + 1 + 1) |-> IF l <= m + 1 THEN f[l] ELSE f[m + 1] \div 2]
  <2>2. \A l \in 1..(m + 1) : f[l] = IF l = 1 THEN index ELSE f[l - 1] \div 2
    BY <2>1
  <2>3. ASSUME NEW l \in 1..(m + 1 + 1)
        PROVE  g[l] = IF l = 1 THEN index ELSE g[l - 1] \div 2
    <3>1. CASE l <= m + 1
      BY <2>2, <3>1
    <3>2. CASE l = m + 1 + 1
      BY <3>2
    <3> QED BY <3>1, <3>2
  <2>4. g = [l \in 1..(m + 1 + 1) |-> g[l]]
    OBVIOUS
  <2> HIDE DEF g
  <2>5. g = N(g, m + 1)
    BY <2>3, <2>4
  <2> QED BY <2>5
<1>3. \A m \in Nat : m \in S
  <2> HIDE DEF S
  <2> QED BY <1>1, <1>2, Induction
<1>4. \E f : f = N(f, n)
  BY <1>3
<1>5. I = CHOOSE f : f = N(f, n)
  BY DEF Indexes
<1>6. I = N(I, n)
  <2> HIDE DEF N, I
  <2> QED BY <1>4, <1>5
<1> HIDE DEF I
<1>7. I[1] = index /\ \A l \in 1..n : I[l + 1] = I[l] \div 2
  BY <1>6
<1> QED BY <1>7 DEF I

-----------------------------------------------------------------------------
(***************************************************************************)
(* Depth                                                                   *)
(***************************************************************************)
\* Halving a number.
LEMMA HalfOf ==
  ASSUME NEW n \in Nat
  PROVE  n \div 2 \in Nat /\ n \div 2 <= n /\ (n > 0 => n \div 2 < n)
OBVIOUS

\* Halved k times, a number is smaller by k, or zero.
LEMMA ShiftedShrinks ==
  ASSUME NEW x \in Nat
  PROVE  \A k \in 0..x : Shifted(x)[k] \in Nat /\ Shifted(x)[k] <= x - k
<1> DEFINE f == Shifted(x)
           S == {k \in Nat : k <= x => f[k] \in Nat /\ f[k] <= x - k}
<1>1. f[0] = x /\ \A k \in 1..x : f[k] = f[k - 1] \div 2
  BY ShiftedIs
<1> HIDE DEF f
<1>2. 0 \in S
  BY <1>1
<1>3. ASSUME NEW k \in Nat, k \in S PROVE k + 1 \in S
  <2> SUFFICES ASSUME k + 1 <= x PROVE f[k + 1] \in Nat /\ f[k + 1] <= x - (k + 1)
    OBVIOUS
  <2>1. f[k] \in Nat /\ f[k] <= x - k
    BY <1>3
  <2>2. f[k + 1] = f[k] \div 2
    BY <1>1
  <2> QED BY <2>1, <2>2
<1>4. \A k \in Nat : k \in S
  <2> HIDE DEF S
  <2> QED BY <1>2, <1>3, Induction
<1> QED BY <1>4 DEF f

\* Once nothing is left, nothing comes back.
LEMMA ShiftedStaysZero ==
  ASSUME NEW x \in Nat, NEW j \in 0..x, Shifted(x)[j] = 0
  PROVE  \A k \in j..x : Shifted(x)[k] = 0
<1> DEFINE f == Shifted(x)
           S == {d \in Nat : j + d <= x => f[j + d] = 0}
<1>1. \A k \in 1..x : f[k] = f[k - 1] \div 2
  BY ShiftedIs
<1>2. f[j] = 0
  OBVIOUS
<1> HIDE DEF f
<1>3. 0 \in S
  BY <1>2
<1>4. ASSUME NEW d \in Nat, d \in S PROVE d + 1 \in S
  <2> SUFFICES ASSUME j + (d + 1) <= x PROVE f[j + (d + 1)] = 0
    OBVIOUS
  <2>1. f[j + d] = 0
    BY <1>4
  <2>2. f[j + (d + 1)] = f[j + d] \div 2
    BY <1>1
  <2> QED BY <2>1, <2>2
<1>5. \A d \in Nat : d \in S
  <2> HIDE DEF S
  <2> QED BY <1>3, <1>4, Induction
<1>6. \A k \in j..x : k - j \in Nat /\ k = j + (k - j)
  OBVIOUS
<1>7. \A k \in j..x : f[k] = 0
  BY <1>5, <1>6
<1> QED BY <1>7 DEF f

\* Halving keeps the order.
LEMMA ShiftedGrows ==
  ASSUME NEW x \in Nat, NEW y \in Nat, x <= y
  PROVE  \A k \in 0..x : Shifted(x)[k] <= Shifted(y)[k]
<1> DEFINE f == Shifted(x)
           g == Shifted(y)
           S == {k \in Nat : k <= x => f[k] <= g[k]}
<1>1. /\ f[0] = x /\ \A k \in 1..x : f[k] = f[k - 1] \div 2
      /\ g[0] = y /\ \A k \in 1..y : g[k] = g[k - 1] \div 2
      /\ \A k \in 0..x : f[k] \in Nat
      /\ \A k \in 0..y : g[k] \in Nat
  BY ShiftedIs, ShiftedShrinks
<1> HIDE DEF f, g
<1>2. 0 \in S
  BY <1>1
<1>3. ASSUME NEW k \in Nat, k \in S PROVE k + 1 \in S
  <2> SUFFICES ASSUME k + 1 <= x PROVE f[k + 1] <= g[k + 1]
    OBVIOUS
  <2>1. f[k] <= g[k] /\ f[k] \in Nat /\ g[k] \in Nat
    BY <1>1, <1>3
  <2>2. f[k + 1] = f[k] \div 2 /\ g[k + 1] = g[k] \div 2
    BY <1>1
  <2> QED BY <2>1, <2>2
<1>4. \A k \in Nat : k \in S
  <2> HIDE DEF S
  <2> QED BY <1>2, <1>3, Induction
<1> QED BY <1>4 DEF f, g

\* CeilLog2(n) is the first number of shifts that leaves nothing of n - 1.
LEMMA CeilLog2Is ==
  ASSUME NEW n \in Nat \ {0}
  PROVE  /\ CeilLog2(n) \in 0..(n - 1)
         /\ Shifted(n - 1)[CeilLog2(n)] = 0
         /\ CeilLog2(n) # 0 => Shifted(n - 1)[CeilLog2(n) - 1] # 0
<1> DEFINE x == n - 1
           f == Shifted(x)
<1>0. x \in Nat /\ f[0] = x
  BY ShiftedIs
<1>1. CASE n = 1
  BY <1>0, <1>1 DEF CeilLog2
<1>2. CASE n > 1
  <2> DEFINE Z == {k \in 0..x : f[k] = 0}
             P(k) == f[k] = 0 /\ f[k - 1] # 0
  <2>1. f[x] \in Nat /\ f[x] <= x - x
    BY <1>0, ShiftedShrinks
  <2> HIDE DEF f
  <2>2. x \in Z /\ Z \in SUBSET Nat
    BY <1>0, <2>1
  <2>3. PICK k \in Z : \A j \in Z : k <= j
    <3> HIDE DEF Z
    <3> QED BY <2>2, LeastNat
  <2>4. k # 0
    BY <1>0, <1>2, <2>3
  <2>5. k - 1 \in 0..x /\ k - 1 \notin Z
    BY <2>3, <2>4, <1>0
  <2>6. k \in 1..x /\ P(k)
    BY <2>3, <2>4, <2>5
  <2>7. CeilLog2(n) = CHOOSE j \in 1..x : P(j)
    BY <1>2 DEF CeilLog2, f
  <2>8. CeilLog2(n) \in 1..x /\ P(CeilLog2(n))
    <3> HIDE DEF P, x
    <3> QED BY <2>6, <2>7
  <2> QED BY <2>8, <1>0 DEF f
<1> QED BY <1>1, <1>2

\* A longer list is no shallower.
LEMMA DepthGrows ==
  ASSUME NEW m \in Nat \ {0}, NEW n \in Nat \ {0}, m <= n
  PROVE  CeilLog2(m) <= CeilLog2(n)
<1> DEFINE c == CeilLog2(n)
           d == CeilLog2(m)
<1>1. /\ c \in 0..(n - 1) /\ Shifted(n - 1)[c] = 0
      /\ d \in 0..(m - 1) /\ (d # 0 => Shifted(m - 1)[d - 1] # 0)
  BY CeilLog2Is
<1> HIDE DEF c, d
<1>2. SUFFICES ASSUME c < d PROVE FALSE
  BY <1>1 DEF c, d
<1>3. c \in 0..(m - 1) /\ d - 1 \in c..(m - 1) /\ m - 1 \in Nat /\ n - 1 \in Nat /\ m - 1 <= n - 1
  BY <1>1, <1>2
<1>4. Shifted(m - 1)[c] \in Nat /\ Shifted(m - 1)[c] <= 0
  BY <1>1, <1>3, ShiftedGrows, ShiftedShrinks
<1>5. Shifted(m - 1)[c] = 0
  BY <1>4
<1>6. Shifted(m - 1)[d - 1] = 0
  BY <1>3, <1>5, ShiftedStaysZero
<1> QED BY <1>1, <1>2, <1>6

-----------------------------------------------------------------------------
(***************************************************************************)
(* Every leaf has a path to the root                                       *)
(***************************************************************************)
\* A function on 1..n is a sequence of length n.
LEMMA FunctionsAreSeqs ==
  ASSUME NEW n \in Nat, NEW f, f = [i \in 1..n |-> f[i]]
  PROVE  DOMAIN f = 1..n /\ Len(f) = n /\ f \in Seq({f[i] : i \in 1..n})
<1> DEFINE S == {f[i] : i \in 1..n}
<1>1. f \in [1..n -> S]
  OBVIOUS
<1> HIDE DEF S
<1>2. f \in Seq(S) /\ Len(f) = n /\ DOMAIN f = 1..n
  BY <1>1
<1> QED BY <1>2 DEF S

\* The next level has half the nodes, rounded up, and pairs a last odd one with itself.
LEMMA NextLevelIs ==
  ASSUME NEW level, NEW m \in Nat, Len(level) = m + 1
  PROVE  /\ Len(NextLevel(level)) = (m \div 2) + 1
         /\ DOMAIN NextLevel(level) = 1..((m \div 2) + 1)
         /\ \A i \in 1..((m \div 2) + 1) :
              NextLevel(level)[i] =
                HashPair(level[2*i - 1], level[IF 2*i <= m + 1 THEN 2*i ELSE 2*i - 1])
<1>1. (Len(level) + 1) \div 2 = (m \div 2) + 1 /\ (m \div 2) + 1 \in Nat
  OBVIOUS
<1> DEFINE f == NextLevel(level)
           n == (m \div 2) + 1
<1>2. f = [i \in 1..n |-> HashPair(level[2*i - 1], level[IF 2*i <= m + 1 THEN 2*i ELSE 2*i - 1])]
  BY <1>1 DEF NextLevel
<1>3. /\ f = [i \in 1..n |-> f[i]]
      /\ \A i \in 1..n : f[i] = HashPair(level[2*i - 1], level[IF 2*i <= m + 1 THEN 2*i ELSE 2*i - 1])
  <2> HIDE DEF f, n
  <2> QED BY <1>2
<1>4. n \in Nat
  BY <1>1
<1> HIDE DEF f, n
<1>5. DOMAIN f = 1..n /\ Len(f) = n
  BY <1>3, <1>4, FunctionsAreSeqs
<1> QED BY <1>3, <1>5 DEF f, n

\* Node i of the level up, over a level of m + 1 nodes: the hash of its two children.
IsPairOf(up, i, level, m) ==
  /\ i \in 1..((m \div 2) + 1)
  /\ up[i] = HashPair(level[2*i - 1], level[IF 2*i <= m + 1 THEN 2*i ELSE 2*i - 1])

\* Every node of the level above is such a hash.
LEMMA NextLevelAt ==
  ASSUME NEW level, NEW m \in Nat, Len(level) = m + 1, NEW up, up = NextLevel(level),
         NEW i \in 1..Len(up)
  PROVE  IsPairOf(up, i, level, m)
<1>1. i \in 1..((m \div 2) + 1)
  BY NextLevelIs
<1> QED BY <1>1, NextLevelIs DEF IsPairOf

\* The layers over n leaves, c pairings high, f the shifts of n - 1.
HasSizes(leaves, n, L, c, f) ==
  /\ c \in 0..(n - 1) /\ c \in Nat
  /\ DOMAIN L = 1..(c + 1) /\ Len(L) = c + 1
  /\ L[1] = leaves /\ \A l \in 1..c : L[l + 1] = NextLevel(L[l])
  /\ \A l \in 1..(c + 1) : f[l - 1] \in Nat /\ Len(L[l]) = f[l - 1] + 1
  /\ Len(L[c + 1]) = 1

\* The layers have as many nodes as ceil(n / 2), ceil(n / 4), ... down to 1.
LEMMA LayerSizes ==
  ASSUME NEW leaves, NEW n \in Nat \ {0}, n = Len(leaves),
         NEW L, L = BuildMerkleTree(leaves), NEW c, c = CeilLog2(n),
         NEW f, f = Shifted(n - 1)
  PROVE  HasSizes(leaves, n, L, c, f)
<1>1. c \in 0..(n - 1) /\ f[c] = 0
  BY CeilLog2Is
<1>2. c \in Nat /\ n - 1 \in Nat
  BY <1>1
<1>3. /\ L = [l \in 1..(c + 1) |-> L[l]]
      /\ L[1] = leaves
      /\ \A l \in 1..c : L[l + 1] = NextLevel(L[l])
  BY <1>2, LayersAre
<1>4. f[0] = n - 1 /\ \A k \in 1..(n - 1) : f[k] = f[k - 1] \div 2
  BY <1>2, ShiftedIs
<1>5. \A k \in 0..(n - 1) : f[k] \in Nat
  BY <1>2, ShiftedShrinks
<1>6. DOMAIN L = 1..(c + 1) /\ Len(L) = c + 1
  <2>1. c + 1 \in Nat
    BY <1>2
  <2> QED BY <1>3, <2>1, FunctionsAreSeqs
<1> DEFINE S == {k \in Nat : k <= c => Len(L[k + 1]) = f[k] + 1}
<1>7. 0 \in S
  <2>1. Len(L[0 + 1]) = f[0] + 1
    BY <1>3, <1>4
  <2> QED BY <2>1
<1>8. ASSUME NEW k \in Nat, k \in S PROVE k + 1 \in S
  <2> SUFFICES ASSUME k + 1 <= c PROVE Len(L[(k + 1) + 1]) = f[k + 1] + 1
    OBVIOUS
  <2>1. k <= c /\ k \in 0..(n - 1) /\ k + 1 \in 1..(n - 1) /\ k + 1 \in 1..c /\ (k + 1) - 1 = k
    BY <1>1, <1>2
  <2>2. PICK m \in Nat : m = f[k] /\ f[k + 1] = m \div 2
    BY <1>4, <1>5, <2>1
  <2>3. PICK level : level = L[k + 1] /\ Len(level) = m + 1
    BY <1>8, <2>1, <2>2
  <2>4. L[(k + 1) + 1] = NextLevel(level)
    BY <1>3, <2>1, <2>3
  <2>5. Len(NextLevel(level)) = (m \div 2) + 1
    BY <2>3, NextLevelIs
  <2> QED BY <2>2, <2>4, <2>5
<1>9. \A k \in Nat : k \in S
  <2> HIDE DEF S
  <2> QED BY <1>7, <1>8, Induction
<1>10. \A l \in 1..(c + 1) : f[l - 1] \in Nat /\ Len(L[l]) = f[l - 1] + 1
  <2> SUFFICES ASSUME NEW l \in 1..(c + 1) PROVE f[l - 1] \in Nat /\ Len(L[l]) = f[l - 1] + 1
    OBVIOUS
  <2>1. PICK k \in Nat : k = l - 1 /\ k <= c /\ k + 1 = l /\ k \in 0..(n - 1)
    BY <1>1, <1>2
  <2>2. Len(L[k + 1]) = f[k] + 1
    BY <1>9, <2>1
  <2> QED BY <1>5, <2>1, <2>2
<1>11. Len(L[c + 1]) = 1
  <2>1. Len(L[c + 1]) = f[c] + 1
    BY <1>2, <1>9
  <2> QED BY <2>1, <1>1
<1> QED BY <1>1, <1>2, <1>3, <1>6, <1>10, <1>11 DEF HasSizes

\* The levels of the tree over leaves, c pairings high.
IsTree(L, leaves, c) ==
  /\ c \in Nat /\ Len(L) = c + 1
  /\ L[1] = leaves /\ \A l \in 1..c : L[l + 1] = NextLevel(L[l])
  /\ \A l \in 1..(c + 1) : Len(L[l]) \in Nat \ {0}
  /\ Len(L[c + 1]) = 1 /\ MerkleRoot(leaves) = L[c + 1][1]
  /\ c # 0 => Len(L[c]) > 1

\* What BuildMerkleTree makes is such a tree.
LEMMA TreeLevels ==
  ASSUME NEW leaves, NEW n \in Nat \ {0}, n = Len(leaves),
         NEW L, L = BuildMerkleTree(leaves), NEW c, c = CeilLog2(n)
  PROVE  IsTree(L, leaves, c)
<1>1. PICK f : f = Shifted(n - 1)
  OBVIOUS
<1>2. /\ c \in 0..(n - 1) /\ c \in Nat
      /\ DOMAIN L = 1..(c + 1) /\ Len(L) = c + 1
      /\ L[1] = leaves /\ \A l \in 1..c : L[l + 1] = NextLevel(L[l])
      /\ \A l \in 1..(c + 1) : f[l - 1] \in Nat /\ Len(L[l]) = f[l - 1] + 1
      /\ Len(L[c + 1]) = 1
  <2>1. HasSizes(leaves, n, L, c, f)
    BY <1>1, LayerSizes
  <2> QED BY <2>1 DEF HasSizes
<1>3. ASSUME NEW l \in 1..(c + 1) PROVE Len(L[l]) \in Nat \ {0}
  <2>1. PICK x \in Nat : Len(L[l]) = x + 1
    <3>1. f[l - 1] \in Nat /\ Len(L[l]) = f[l - 1] + 1
      BY <1>2
    <3> QED BY <3>1
  <2> QED BY <2>1
<1>4. MerkleRoot(leaves) = L[c + 1][1]
  BY <1>2 DEF MerkleRoot, RootOf, Last
<1>5. c # 0 => f[c - 1] # 0
  BY <1>1, CeilLog2Is
<1>6. ASSUME c # 0 PROVE Len(L[c]) > 1
  <2>1. c \in 1..(c + 1)
    BY <1>2, <1>6
  <2>2. f[c - 1] \in Nat /\ Len(L[c]) = f[c - 1] + 1
    BY <1>2, <2>1
  <2> QED BY <1>5, <1>6, <2>2
<1> QED BY <1>2, <1>3, <1>4, <1>6 DEF IsTree

\* A path of c siblings, taken from the layers L at the indexes I.
RunsFrom(index, L, c, I, path) ==
  /\ DOMAIN path = 1..c /\ Len(path) = c
  /\ I[1] = index /\ \A l \in 1..c : I[l + 1] = I[l] \div 2
  /\ \A l \in 1..(c + 1) : I[l] \in Nat /\ I[l] < Len(L[l])
  /\ \A l \in 1..c :
       path[l] = IF I[l] % 2 = 1 THEN PathElem(L[l][I[l]], FALSE)
                 ELSE PathElem(L[l][IF I[l] + 1 < Len(L[l]) THEN I[l] + 2
                                                            ELSE I[l] + 1], TRUE)

\* The path of a leaf, element by element, and where in each layer it runs.
LEMMA PathIs ==
  ASSUME NEW leaves, Len(leaves) \in Nat \ {0}, NEW index \in 0..(Len(leaves) - 1),
         NEW L, L = BuildMerkleTree(leaves), NEW c, c = CeilLog2(Len(leaves)),
         NEW I, I = Indexes(L, index), NEW path, path = MerklePath(L, index)
  PROVE  RunsFrom(index, L, c, I, path)
<1>p. PICK n, f : n = Len(leaves) /\ f = Shifted(n - 1)
  OBVIOUS
<1>1. /\ c \in 0..(n - 1) /\ c \in Nat
      /\ DOMAIN L = 1..(c + 1) /\ Len(L) = c + 1
      /\ L[1] = leaves
      /\ \A l \in 1..(c + 1) : f[l - 1] \in Nat /\ Len(L[l]) = f[l - 1] + 1
  <2>1. n \in Nat \ {0} /\ c = CeilLog2(n)
    BY <1>p
  <2>2. HasSizes(leaves, n, L, c, f)
    BY <1>p, <2>1, LayerSizes
  <2> QED BY <2>2 DEF HasSizes
<1>2. n \in Nat \ {0} /\ n - 1 \in Nat /\ index \in 0..(n - 1)
  BY <1>p
<1>3. \A k \in 1..(n - 1) : f[k] = f[k - 1] \div 2
  BY <1>p, <1>2, ShiftedIs
<1>4. I[1] = index /\ \A l \in 1..c : I[l + 1] = I[l] \div 2
  BY <1>1, IndexesAre
<1>5. Len(leaves) = n
  BY <1>p
<1>6. /\ path = [l \in 1..c |-> path[l]]
      /\ \A l \in 1..c :
           path[l] = IF I[l] % 2 = 1 THEN PathElem(L[l][I[l]], FALSE)
                     ELSE PathElem(L[l][IF I[l] + 1 < Len(L[l]) THEN I[l] + 2
                                                                ELSE I[l] + 1], TRUE)
  <2>1. Len(L) - 1 = c
    BY <1>1
  <2>2. path = [l \in 1..c |->
                 IF I[l] % 2 = 1 THEN PathElem(L[l][I[l]], FALSE)
                 ELSE PathElem(L[l][IF I[l] + 1 < Len(L[l]) THEN I[l] + 2 ELSE I[l] + 1], TRUE)]
    BY <2>1 DEF MerklePath
  <2> QED BY <2>2
<1>7. DOMAIN path = 1..c /\ Len(path) = c
  BY <1>1, <1>6, FunctionsAreSeqs
<1> DEFINE S == {k \in Nat : k <= c => I[k + 1] \in Nat /\ I[k + 1] <= f[k]}
<1>8. 0 \in S
  BY <1>1, <1>2, <1>4, <1>5
<1>9. ASSUME NEW k \in Nat, k \in S PROVE k + 1 \in S
  <2> SUFFICES ASSUME k + 1 <= c
               PROVE  I[(k + 1) + 1] \in Nat /\ I[(k + 1) + 1] <= f[k + 1]
    OBVIOUS
  <2>1. I[k + 1] \in Nat /\ I[k + 1] <= f[k]
    BY <1>9, <1>1
  <2>2. k + 1 \in 1..(c + 1) /\ (k + 1) - 1 = k
    BY <1>1
  <2>3. I[(k + 1) + 1] = I[k + 1] \div 2
    BY <1>1, <1>4
  <2>4. f[k + 1] = f[k] \div 2
    BY <1>1, <1>2, <1>3
  <2>5. f[k] \in Nat
    <3>1. f[(k + 1) - 1] \in Nat
      BY <1>1, <2>2
    <3> QED BY <3>1, <2>2
  <2> QED BY <2>1, <2>3, <2>4, <2>5
<1>10. \A k \in Nat : k \in S
  <2> HIDE DEF S
  <2> QED BY <1>8, <1>9, Induction
<1>11. \A l \in 1..(c + 1) : I[l] \in Nat /\ I[l] < Len(L[l])
  <2> SUFFICES ASSUME NEW l \in 1..(c + 1) PROVE I[l] \in Nat /\ I[l] < Len(L[l])
    OBVIOUS
  <2>1. l - 1 \in Nat /\ l - 1 <= c /\ (l - 1) + 1 = l
    BY <1>1
  <2>2. I[(l - 1) + 1] \in Nat /\ I[(l - 1) + 1] <= f[l - 1]
    BY <1>10, <2>1
  <2> QED BY <2>1, <2>2, <1>1
<1> QED BY <1>4, <1>6, <1>7, <1>11 DEF RunsFrom

\* BuildMerkleTree, MerklePath and Fold agree: the path of every leaf of every
\* list, odd levels included, folds to the root of its tree, and is as long
\* as the tree is deep.
THEOREM EveryLeafProvable ==
  ASSUME NEW leaves, Len(leaves) \in Nat \ {0}, NEW index \in 0..(Len(leaves) - 1)
  PROVE  /\ Len(MerklePath(BuildMerkleTree(leaves), index)) = CeilLog2(Len(leaves))
         /\ Fold(leaves[index + 1], MerklePath(BuildMerkleTree(leaves), index)) = MerkleRoot(leaves)
<1> DEFINE L == BuildMerkleTree(leaves)
           n == Len(leaves)
           c == CeilLog2(n)
           I == Indexes(L, index)
           path == MerklePath(L, index)
           node == Climbed(leaves[index + 1], path)
<1>1. /\ c \in Nat /\ Len(L) = c + 1
      /\ L[1] = leaves /\ \A l \in 1..c : L[l + 1] = NextLevel(L[l])
      /\ \A l \in 1..(c + 1) : Len(L[l]) \in Nat \ {0}
      /\ Len(L[c + 1]) = 1
  <2>1. IsTree(L, leaves, c)
    BY TreeLevels
  <2> HIDE DEF L, c
  <2> QED BY <2>1 DEF IsTree
<1>2. /\ DOMAIN path = 1..c /\ Len(path) = c
      /\ I[1] = index /\ \A l \in 1..c : I[l + 1] = I[l] \div 2
      /\ \A l \in 1..(c + 1) : I[l] \in Nat /\ I[l] < Len(L[l])
      /\ \A l \in 1..c :
           path[l] = IF I[l] % 2 = 1 THEN PathElem(L[l][I[l]], FALSE)
                     ELSE PathElem(L[l][IF I[l] + 1 < Len(L[l]) THEN I[l] + 2
                                                                ELSE I[l] + 1], TRUE)
  <2>1. L = BuildMerkleTree(leaves) /\ c = CeilLog2(Len(leaves))
        /\ I = Indexes(L, index) /\ path = MerklePath(L, index)
    OBVIOUS
  <2> HIDE DEF L, c, I, path
  <2>2. RunsFrom(index, L, c, I, path)
    BY <2>1, PathIs
  <2> QED BY <2>2 DEF RunsFrom
<1>3. node[0] = leaves[index + 1] /\ \A k \in 1..c : node[k] = Parent(node[k - 1], path[k])
  <2>1. Len(path) = c /\ c \in Nat
    BY <1>1, <1>2
  <2> HIDE DEF path, c
  <2> QED BY <2>1, ClimbedIs
<1>4. Fold(leaves[index + 1], path) = node[c]
  BY <1>2 DEF Fold
<1>5. MerkleRoot(leaves) = L[c + 1][1]
  <2>1. IsTree(L, leaves, c)
    BY TreeLevels
  <2> QED BY <2>1 DEF IsTree
<1> DEFINE S == {k \in Nat : k <= c => node[k] = L[k + 1][I[k + 1] + 1]}
<1> HIDE DEF L, n, c, I, path, node
<1>6. 0 \in S
  BY <1>1, <1>2, <1>3
<1>7. ASSUME NEW k \in Nat, k \in S PROVE k + 1 \in S
  <2> SUFFICES ASSUME k + 1 <= c PROVE node[k + 1] = L[(k + 1) + 1][I[(k + 1) + 1] + 1]
    OBVIOUS
  <2> DEFINE level == L[k + 1]
             i == I[k + 1]
             m == Len(level) - 1
  <2>1. k + 1 \in 1..c /\ k + 1 \in 1..(c + 1) /\ (k + 1) - 1 = k
    BY <1>1
  <2>2. i \in Nat /\ i <= m /\ m \in Nat /\ Len(level) = m + 1
    BY <1>1, <1>2, <2>1
  <2>3. node[k] = level[i + 1] /\ node[k + 1] = Parent(node[k], path[k + 1])
    <3>1. k <= c
      BY <1>1
    <3>2. node[k] = level[i + 1]
      BY <1>7, <3>1
    <3>3. node[k + 1] = Parent(node[k], path[k + 1])
      BY <1>3, <2>1
    <3> QED BY <3>2, <3>3
  <2>4. I[(k + 1) + 1] = i \div 2 /\ L[(k + 1) + 1] = NextLevel(level)
    BY <1>1, <1>2, <2>1
  <2>5. path[k + 1] = IF i % 2 = 1 THEN PathElem(level[i], FALSE)
                      ELSE PathElem(level[IF i + 1 < Len(level) THEN i + 2 ELSE i + 1], TRUE)
    BY <1>2, <2>1
  <2> DEFINE j == (i \div 2) + 1
  <2> HIDE DEF level, i, m
  <2>6. j \in 1..((m \div 2) + 1)
    BY <2>2
  <2>7. NextLevel(level)[j] = HashPair(level[2*j - 1], level[IF 2*j <= m + 1 THEN 2*j ELSE 2*j - 1])
    BY <2>2, <2>6, NextLevelIs
  <2>8. CASE i % 2 = 1
    <3>1. 2*j - 1 = i /\ 2*j = i + 1 /\ 2*j <= m + 1
      BY <2>2, <2>8
    <3>2. path[k + 1] = PathElem(level[i], FALSE)
      BY <2>5, <2>8
    <3>3. node[k + 1] = HashPair(level[i], level[i + 1])
      BY <2>3, <3>2 DEF Parent, PathElem
    <3> QED BY <2>4, <2>7, <3>1, <3>3
  <2>9. CASE i % 2 # 1
    <3>1. 2*j - 1 = i + 1 /\ 2*j = i + 2 /\ (2*j <= m + 1 <=> i + 1 < Len(level))
      BY <2>2, <2>9
    <3>2. path[k + 1] = PathElem(level[IF i + 1 < Len(level) THEN i + 2 ELSE i + 1], TRUE)
      BY <2>5, <2>9
    <3>3. node[k + 1] = HashPair(level[i + 1], level[IF i + 1 < Len(level) THEN i + 2 ELSE i + 1])
      BY <2>3, <3>2 DEF Parent, PathElem
    <3> QED BY <2>4, <2>7, <3>1, <3>3
  <2> QED BY <2>8, <2>9
<1>8. \A k \in Nat : k \in S
  <2> HIDE DEF S
  <2> QED BY <1>6, <1>7, Induction
<1>9. node[c] = L[c + 1][I[c + 1] + 1] /\ I[c + 1] = 0
  <2>1. c \in Nat /\ c <= c /\ c + 1 \in 1..(c + 1)
    BY <1>1
  <2>2. c \in S
    BY <1>8, <2>1
  <2>3. I[c + 1] \in Nat /\ I[c + 1] < Len(L[c + 1])
    BY <1>2, <2>1
  <2> QED BY <1>1, <2>1, <2>2, <2>3
<1>10. Len(path) = c /\ Fold(leaves[index + 1], path) = MerkleRoot(leaves)
  BY <1>2, <1>4, <1>5, <1>9
<1> QED BY <1>10 DEF L, n, c, path

-----------------------------------------------------------------------------
(***************************************************************************)
(* Nothing but a leaf has a path, and two leaves never have one path       *)
(***************************************************************************)

\* Two paths of the same sides that fold to one root are one path from one
\* leaf: what is proven at a place of a tree of known depth is what is there.
THEOREM FoldBinds ==
  ASSUME NEW x, NEW y, NEW p, NEW q, Len(p) \in Nat, Len(q) = Len(p),
         \A k \in 1..Len(p) : p[k].Right = q[k].Right,
         Fold(x, p) = Fold(y, q)
  PROVE  x = y /\ \A k \in 1..Len(p) : p[k].Sibling = q[k].Sibling
<1> DEFINE n == Len(p)
           f == Climbed(x, p)
           g == Climbed(y, q)
           S == {d \in Nat : d <= n => /\ f[n - d] = g[n - d]
                                       /\ \A k \in (n - d + 1)..n : p[k].Sibling = q[k].Sibling}
<1>1. /\ f[0] = x /\ \A k \in 1..n : f[k] = Parent(f[k - 1], p[k])
      /\ g[0] = y /\ \A k \in 1..n : g[k] = Parent(g[k - 1], q[k])
      /\ f[n] = g[n] /\ n \in Nat
  BY ClimbedIs DEF Fold
<1>2. \A k \in 1..n : p[k].Right = q[k].Right
  OBVIOUS
<1> HIDE DEF n, f, g
<1>3. 0 \in S
  BY <1>1
<1>4. ASSUME NEW d \in Nat, d \in S PROVE d + 1 \in S
  <2> SUFFICES ASSUME d + 1 <= n
               PROVE  /\ f[n - (d + 1)] = g[n - (d + 1)]
                      /\ \A k \in (n - (d + 1) + 1)..n : p[k].Sibling = q[k].Sibling
    OBVIOUS
  <2>1. /\ f[n - d] = g[n - d]
        /\ \A k \in (n - d + 1)..n : p[k].Sibling = q[k].Sibling
    BY <1>1, <1>4
  <2> DEFINE k == n - d
  <2>2. k \in 1..n /\ n - (d + 1) = k - 1 /\ n - (d + 1) + 1 = k
    BY <1>1
  <2>3. Parent(f[k - 1], p[k]) = Parent(g[k - 1], q[k]) /\ p[k].Right = q[k].Right
    BY <1>1, <1>2, <2>1, <2>2
  <2>4. f[k - 1] = g[k - 1] /\ p[k].Sibling = q[k].Sibling
    <3> HIDE DEF k
    <3>1. CASE p[k].Right
      BY <2>3, <3>1 DEF Parent, HashPair
    <3>2. CASE ~p[k].Right
      BY <2>3, <3>2 DEF Parent, HashPair
    <3> QED BY <3>1, <3>2
  <2> HIDE DEF k
  <2>5. \A j \in k..n : j = k \/ j \in (k + 1)..n
    BY <1>1, <2>2
  <2>6. \A j \in k..n : p[j].Sibling = q[j].Sibling
    BY <2>1, <2>4, <2>5 DEF k
  <2> QED BY <2>2, <2>4, <2>6
<1>5. \A d \in Nat : d \in S
  <2> HIDE DEF S
  <2> QED BY <1>3, <1>4, Induction
<1>6. n - n = 0 /\ n - n + 1 = 1 /\ n <= n
  BY <1>1
<1>7. f[n - n] = g[n - n] /\ \A k \in (n - n + 1)..n : p[k].Sibling = q[k].Sibling
  BY <1>1, <1>5, <1>6
<1>8. x = y /\ \A k \in 1..n : p[k].Sibling = q[k].Sibling
  BY <1>1, <1>6, <1>7
<1> QED BY <1>8 DEF n

\* Folding proves membership: a path as long as the tree is deep that ends at
\* the root, whatever its siblings and sides, starts at a leaf of the tree.
THEOREM OnlyLeavesProvable ==
  ASSUME NEW leaves, Len(leaves) \in Nat \ {0},
         NEW x, NEW p, Len(p) = CeilLog2(Len(leaves)), Fold(x, p) = MerkleRoot(leaves)
  PROVE  \E i \in 1..Len(leaves) : x = leaves[i]
<1> DEFINE L == BuildMerkleTree(leaves)
           n == Len(leaves)
           c == CeilLog2(n)
           node == Climbed(x, p)
<1>1. /\ c \in Nat /\ Len(L) = c + 1
      /\ L[1] = leaves /\ \A l \in 1..c : L[l + 1] = NextLevel(L[l])
      /\ \A l \in 1..(c + 1) : Len(L[l]) \in Nat \ {0}
      /\ Len(L[c + 1]) = 1
  <2>1. IsTree(L, leaves, c)
    BY TreeLevels
  <2> HIDE DEF L, c
  <2> QED BY <2>1 DEF IsTree
<1>2. node[0] = x /\ \A k \in 1..c : node[k] = Parent(node[k - 1], p[k])
  <2>1. PICK k \in Nat : k = c /\ Len(p) = k
    BY <1>1
  <2>2. node[0] = x /\ \A d \in 1..k : node[d] = Parent(node[d - 1], p[d])
    BY <2>1, ClimbedIs
  <2> QED BY <2>1, <2>2
<1>3. node[c] = L[c + 1][1]
  <2>1. Fold(x, p) = node[c]
    BY DEF Fold
  <2>2. MerkleRoot(leaves) = L[c + 1][1]
    <3>1. IsTree(L, leaves, c)
      BY TreeLevels
    <3> QED BY <3>1 DEF IsTree
  <2> QED BY <2>1, <2>2
<1> DEFINE S == {d \in Nat : d <= c => \E i \in 1..Len(L[(c - d) + 1]) : node[c - d] = L[(c - d) + 1][i]}
<1> HIDE DEF L, n, c, node
<1>4. 0 \in S
  <2>1. c - 0 = c /\ 1 \in 1..Len(L[c + 1])
    BY <1>1
  <2> QED BY <1>3, <2>1
<1>5. ASSUME NEW d \in Nat, d \in S PROVE d + 1 \in S
  <2> SUFFICES ASSUME d + 1 <= c
               PROVE  \E i \in 1..Len(L[(c - (d + 1)) + 1]) :
                        node[c - (d + 1)] = L[(c - (d + 1)) + 1][i]
    OBVIOUS
  <2>1. PICK k \in 1..c : k = c - d /\ c - (d + 1) = k - 1 /\ (k - 1) + 1 = k
    <3>1. c - d \in 1..c /\ c - (d + 1) = (c - d) - 1 /\ ((c - d) - 1) + 1 = c - d
      BY <1>1
    <3> QED BY <3>1
  <2>2. PICK i \in 1..Len(L[k + 1]) : node[k] = L[k + 1][i]
    BY <1>5, <1>1, <2>1
  <2>3. PICK m \in Nat : Len(L[k]) = m + 1
    <3>1. k \in 1..(c + 1)
      BY <1>1
    <3>2. Len(L[k]) \in Nat \ {0}
      BY <1>1, <3>1
    <3>3. Len(L[k]) - 1 \in Nat /\ Len(L[k]) = (Len(L[k]) - 1) + 1
      BY <3>2
    <3> QED BY <3>3
  <2>4. L[k + 1] = NextLevel(L[k])
    BY <1>1
  <2> DEFINE j == IF 2*i <= m + 1 THEN 2*i ELSE 2*i - 1
  <2>5. i \in 1..((m \div 2) + 1) /\ L[k + 1][i] = HashPair(L[k][2*i - 1], L[k][j])
    <3>1. PICK level, up : level = L[k] /\ up = L[k + 1]
      OBVIOUS
    <3>2. Len(level) = m + 1 /\ up = NextLevel(level) /\ i \in 1..Len(up)
      BY <2>2, <2>3, <2>4, <3>1
    <3>3. IsPairOf(up, i, level, m)
      BY <3>2, NextLevelAt
    <3>4. i \in 1..((m \div 2) + 1) /\ up[i] = HashPair(level[2*i - 1], level[j])
      BY <3>3 DEF IsPairOf
    <3> HIDE DEF j
    <3> QED BY <3>1, <3>4
  <2>6. 2*i - 1 \in 1..Len(L[k]) /\ j \in 1..Len(L[k])
    <3>1. i \in 1..((m \div 2) + 1)
      BY <2>5
    <3>2. 2*i - 1 \in 1..(m + 1) /\ j \in 1..(m + 1)
      BY <3>1
    <3> HIDE DEF j
    <3> QED BY <2>3, <3>2
  <2>7. Parent(node[k - 1], p[k]) = HashPair(L[k][2*i - 1], L[k][j])
    BY <1>2, <2>2, <2>5
  <2> HIDE DEF j
  <2>8. node[k - 1] = L[k][2*i - 1] \/ node[k - 1] = L[k][j]
    <3>1. CASE p[k].Right
      BY <2>7, <3>1 DEF Parent, HashPair
    <3>2. CASE ~p[k].Right
      BY <2>7, <3>2 DEF Parent, HashPair
    <3> QED BY <3>1, <3>2
  <2> QED BY <2>1, <2>6, <2>8
<1>6. \A d \in Nat : d \in S
  <2> HIDE DEF S
  <2> QED BY <1>4, <1>5, Induction
<1>7. \E i \in 1..Len(L[1]) : node[0] = L[1][i]
  <2>1. c \in S
    <3> HIDE DEF S
    <3> QED BY <1>1, <1>6
  <2>2. c <= c /\ c - c = 0 /\ 0 + 1 = 1
    BY <1>1
  <2>3. \E i \in 1..Len(L[(c - c) + 1]) : node[c - c] = L[(c - c) + 1][i]
    BY <2>1, <2>2
  <2> QED BY <2>2, <2>3
<1> QED BY <1>1, <1>2, <1>7

\* A tree over at most 256 leaves, all that a byte can index.
LEMMA ShortTree ==
  ASSUME NEW n \in Nat \ {0}, n <= 256
  PROVE  CeilLog2(n) <= 8
<1>1. PICK x \in Nat : x = 255
  OBVIOUS
<1> DEFINE f == Shifted(x)
<1>2. f[0] = x /\ \A k \in 1..x : f[k] = f[k - 1] \div 2
  BY ShiftedIs
<1> HIDE DEF f
<1>3. f[1] = 127 /\ f[2] = 63
  <2>1. f[1] = f[1 - 1] \div 2 /\ f[2] = f[2 - 1] \div 2
    BY <1>1, <1>2
  <2> QED BY <1>1, <1>2, <2>1
<1>4. f[3] = 31 /\ f[4] = 15
  <2>1. f[3] = f[3 - 1] \div 2 /\ f[4] = f[4 - 1] \div 2
    BY <1>1, <1>2
  <2> QED BY <1>3, <2>1
<1>5. f[5] = 7 /\ f[6] = 3
  <2>1. f[5] = f[5 - 1] \div 2 /\ f[6] = f[6 - 1] \div 2
    BY <1>1, <1>2
  <2> QED BY <1>4, <2>1
<1>6. f[7] = 1 /\ f[8] = 0
  <2>1. f[7] = f[7 - 1] \div 2 /\ f[8] = f[8 - 1] \div 2
    BY <1>1, <1>2
  <2> QED BY <1>5, <2>1
<1>7. PICK m \in Nat \ {0} : m = 256
  OBVIOUS
<1>8. PICK c \in 0..x : c = CeilLog2(m) /\ (c # 0 => f[c - 1] # 0)
  <2>1. /\ CeilLog2(m) \in 0..(m - 1)
        /\ CeilLog2(m) # 0 => Shifted(m - 1)[CeilLog2(m) - 1] # 0
    BY CeilLog2Is
  <2>2. m - 1 = x
    BY <1>1, <1>7
  <2> QED BY <2>1, <2>2 DEF f
<1>9. \A k \in 8..x : f[k] = 0
  <2>1. Shifted(x)[8] = 0 /\ 8 \in 0..x
    BY <1>1, <1>6 DEF f
  <2> QED BY <2>1, ShiftedStaysZero DEF f
<1>10. c <= 8
  <2>1. ~(c - 1 \in 8..x)
    BY <1>8, <1>9
  <2> QED BY <1>8, <2>1
<1>11. CeilLog2(n) <= CeilLog2(m)
  BY <1>7, DepthGrows
<1>12. CeilLog2(n) \in Nat
  BY CeilLog2Is
<1> QED BY <1>8, <1>10, <1>11, <1>12

-----------------------------------------------------------------------------
(***************************************************************************)
(* Division with rest, and a list cut into parts of one size               *)
(***************************************************************************)
\* Quotient and remainder.
LEMMA DivIs ==
  ASSUME NEW a \in Nat, NEW b \in Nat \ {0}
  PROVE  /\ a \div b \in Nat /\ a % b \in 0..(b - 1)
         /\ a = (a \div b) * b + (a % b)
         /\ a \div b <= a
<1>1. a \div b \in Nat /\ a % b \in 0..(b - 1)
  OBVIOUS
<1>2. a = (a \div b) * b + (a % b)
  OBVIOUS
<1>3. a \div b <= a
  BY <1>1, <1>2
<1> QED BY <1>1, <1>2, <1>3

\* Multiplying keeps the order.
LEMMA TimesGrows ==
  ASSUME NEW x \in Nat, NEW y \in Nat, NEW b \in Nat, x <= y
  PROVE  x * b \in Nat /\ x * b <= y * b /\ (x + 1) * b = x * b + b
OBVIOUS

\* The number of parts, the last one maybe shorter.
LEMMA DivUp ==
  ASSUME NEW n \in Nat \ {0}, NEW b \in Nat \ {0}, NEW m, m = (n + b - 1) \div b
  PROVE  m \in Nat \ {0} /\ m <= n /\ (m - 1) * b < n /\ n <= m * b
<1>1. n + b - 1 \in Nat
  OBVIOUS
<1>2. PICK r \in 0..(b - 1) : n + b - 1 = m * b + r
  BY <1>1, DivIs
<1>3. m \in Nat
  BY <1>1, DivIs
<1>4. m # 0
  BY <1>2
<1>5. (m - 1) * b = m * b - b
  BY <1>3
<1>6. (m - 1) * b < n /\ n <= m * b
  BY <1>2, <1>3, <1>5
<1>7. m <= n
  <2>1. (m - 1) * 1 <= (m - 1) * b
    BY <1>3, <1>4
  <2> QED BY <2>1, <1>3, <1>4, <1>6
<1> QED BY <1>3, <1>4, <1>6, <1>7

\* A quotient is within the number of parts.
LEMMA DivWithin ==
  ASSUME NEW x \in Nat, NEW m \in Nat, NEW b \in Nat \ {0}, x < m * b
  PROVE  x \div b < m
<1>1. PICK q \in Nat : q = x \div b /\ q * b <= x
  BY DivIs
<1>2. SUFFICES ASSUME m <= q PROVE FALSE
  BY <1>1
<1>3. m * b <= q * b
  BY <1>2, TimesGrows
<1>4. m * b \in Nat /\ q * b \in Nat
  OBVIOUS
<1> QED BY <1>1, <1>3, <1>4

\* Partition loses nothing, keeps the order, and no part is empty or too long;
\* element i is in part (i - 1) / size, at (i - 1) % size.
IsCut(P, m, leafSet, n, size, set) ==
  /\ m \in Nat \ {0} /\ m <= n /\ DOMAIN P = 1..m
  /\ P = [s \in 1..m |-> P[s]]
  /\ \A s \in 1..m :
       /\ P[s] \in Seq(set)
       /\ Len(P[s]) \in 1..size
       /\ \A k \in 1..Len(P[s]) :
            (s - 1) * size + k \in 1..n /\ P[s][k] = leafSet[(s - 1) * size + k]
  /\ \A i \in 1..n :
       LET s == ((i - 1) \div size) + 1
           k == (i - 1) % size
       IN  s \in 1..m /\ k \in 0..(Len(P[s]) - 1) /\ P[s][k + 1] = leafSet[i]

\* PartitionLeaves cuts a list in parts that are full but the last, in order.
LEMMA PartitionIs ==
  ASSUME NEW set, NEW leafSet \in Seq(set), NEW n \in Nat \ {0}, n = Len(leafSet),
         NEW size \in Nat \ {0}, NEW P, P = Partition(leafSet, size), NEW m, m = Len(P)
  PROVE  IsCut(P, m, leafSet, n, size, set)
<1>1. PICK t : t = (n + size - 1) \div size
  OBVIOUS
<1>2. t \in Nat \ {0} /\ t <= n /\ (t - 1) * size < n /\ n <= t * size
  BY <1>1, DivUp
<1>3. PICK F : F = [s \in 1..t |-> (s - 1) * size]
  OBVIOUS
<1>4. PICK G : G = [s \in 1..t |-> IF s * size < n THEN s * size ELSE n]
  OBVIOUS
<1>5. P = [s \in 1..t |-> SubSeq(leafSet, F[s] + 1, G[s])]
  <2>1. P = [s \in 1..t |-> SubSeq(leafSet, (s - 1) * size + 1, IF s * size < n THEN s * size ELSE n)]
    BY <1>1 DEF Partition
  <2> QED BY <2>1, <1>3, <1>4
<1>6. DOMAIN P = 1..t /\ m = t /\ P = [s \in 1..m |-> P[s]]
  <2>1. P = [s \in 1..t |-> P[s]]
    BY <1>5
  <2> QED BY <1>2, <2>1, FunctionsAreSeqs
<1>7. ASSUME NEW s \in 1..m
      PROVE  /\ F[s] = (s - 1) * size /\ F[s] \in Nat /\ G[s] \in (F[s] + 1)..n
             /\ (G[s] = F[s] + size \/ G[s] = n) /\ G[s] <= F[s] + size
  <2>1. s - 1 \in Nat /\ t - 1 \in Nat /\ s - 1 <= t - 1 /\ (s - 1) + 1 = s
    BY <1>2, <1>6
  <2>2. F[s] = (s - 1) * size /\ G[s] = IF s * size < n THEN s * size ELSE n
    BY <1>3, <1>4, <1>6
  <2>3. F[s] \in Nat /\ F[s] <= (t - 1) * size /\ s * size = F[s] + size
    BY <2>1, <2>2, TimesGrows
  <2>4. (t - 1) * size \in Nat
    BY <2>1
  <2>5. PICK a, z : a \in Nat /\ a = F[s] /\ z = G[s]
    BY <2>3
  <2>6. a < n
    BY <1>2, <2>3, <2>4, <2>5
  <2>7. z = IF a + size < n THEN a + size ELSE n
    BY <2>2, <2>3, <2>5
  <2>8. z \in (a + 1)..n /\ (z = a + size \/ z = n) /\ z <= a + size
    <3>1. a \in Nat /\ n \in Nat /\ size \in Nat /\ 1 <= size
      BY <2>5
    <3>2. CASE a + size < n
      BY <2>7, <3>1, <3>2
    <3>3. CASE ~(a + size < n)
      <4>1. z = n
        BY <2>7, <3>3
      <4> QED BY <2>6, <3>1, <3>3, <4>1
    <3> QED BY <3>2, <3>3
  <2> QED BY <2>2, <2>5, <2>8
<1>8. ASSUME NEW s \in 1..m
      PROVE  /\ P[s] \in Seq(set) /\ Len(P[s]) = G[s] - F[s]
             /\ \A k \in 1..Len(P[s]) : F[s] + k \in 1..n /\ P[s][k] = leafSet[F[s] + k]
  <2>1. F[s] \in Nat /\ G[s] \in (F[s] + 1)..n
    BY <1>7
  <2>2. PICK a \in Nat, z \in Nat : a = F[s] /\ z = G[s] /\ a < z /\ z <= n
    BY <2>1
  <2>3. P[s] = SubSeq(leafSet, a + 1, z)
    BY <1>5, <1>6, <2>2
  <2>4. \A i \in (a + 1)..z : leafSet[i] \in set
    BY <2>2
  <2>5. /\ P[s] \in Seq(set) /\ Len(P[s]) = z - a
        /\ \A k \in 1..(z - a) : P[s][k] = leafSet[a + k]
    <3>1. a + 1 \in Int /\ z \in Int /\ a + 1 <= z /\ z - (a + 1) + 1 = z - a
      <4>1. a < z
        BY <2>2
      <4> QED BY <4>1
    <3>2. /\ SubSeq(leafSet, a + 1, z) \in Seq(set)
          /\ Len(SubSeq(leafSet, a + 1, z)) = z - a
          /\ \A k \in 1..(z - a) : SubSeq(leafSet, a + 1, z)[k] = leafSet[(a + 1) + k - 1]
      BY <3>1, <2>4, SubSeqProperties
    <3>3. \A k \in 1..(z - a) : (a + 1) + k - 1 = a + k
      BY <2>2
    <3> QED BY <2>3, <3>2, <3>3
  <2>6. P[s] \in Seq(set) /\ Len(P[s]) = G[s] - F[s]
    BY <2>2, <2>5
  <2>7. ASSUME NEW k \in 1..Len(P[s])
        PROVE  F[s] + k \in 1..n /\ P[s][k] = leafSet[F[s] + k]
    <3>1. k \in 1..(z - a)
      BY <2>2, <2>6
    <3>2. P[s][k] = leafSet[a + k]
      BY <2>5, <3>1
    <3>3. a + k \in 1..n
      <4>1. a < z /\ z <= n
        BY <2>2
      <4>2. k \in Nat /\ 1 <= k /\ k <= z - a
        BY <3>1
      <4> QED BY <4>1, <4>2
    <3> QED BY <2>2, <3>2, <3>3
  <2> QED BY <2>6, <2>7
<1>9. ASSUME NEW s \in 1..m PROVE Len(P[s]) \in 1..size
  <2>1. F[s] \in Nat /\ G[s] \in (F[s] + 1)..n /\ G[s] <= F[s] + size
    BY <1>7
  <2>2. Len(P[s]) = G[s] - F[s]
    BY <1>8
  <2> QED BY <2>1, <2>2
<1>10. ASSUME NEW i \in 1..n
       PROVE  LET s == ((i - 1) \div size) + 1
                  k == (i - 1) % size
              IN  s \in 1..m /\ k \in 0..(Len(P[s]) - 1) /\ P[s][k + 1] = leafSet[i]
  <2>1. i - 1 \in Nat /\ i - 1 < n
    OBVIOUS
  <2>2. PICK q \in Nat, k \in 0..(size - 1) :
           q = (i - 1) \div size /\ k = (i - 1) % size /\ i - 1 = q * size + k
    <3>1. PICK x \in Nat : x = i - 1
      BY <2>1
    <3>2. x \div size \in Nat /\ x % size \in 0..(size - 1) /\ x = (x \div size) * size + (x % size)
      BY DivIs
    <3> QED BY <3>1, <3>2
  <2>3. q < m
    <3>1. m * size \in Nat /\ n <= m * size
      BY <1>2, <1>6
    <3> QED BY <2>1, <2>2, <3>1, <1>2, <1>6, DivWithin
  <2>4. PICK s \in 1..m : s = q + 1
    <3>1. m \in Nat
      BY <1>2, <1>6
    <3>2. q + 1 \in 1..m
      BY <2>3, <3>1
    <3> QED BY <3>2
  <2>5. F[s] = q * size
    BY <1>7, <2>2, <2>4
  <2>6. PICK a \in Nat, z \in Nat : a = F[s] /\ z = G[s] /\ (z = a + size \/ z = n)
    <3>1. F[s] \in Nat /\ G[s] \in (F[s] + 1)..n /\ (G[s] = F[s] + size \/ G[s] = n)
      BY <1>7
    <3>2. G[s] \in Nat
      BY <3>1
    <3> QED BY <3>1, <3>2
  <2>7. i - 1 = a + k /\ a + (k + 1) = i /\ k < z - a /\ z - a \in Nat
    <3>1. i - 1 = a + k
      <4>1. i - 1 = q * size + k
        BY <2>2
      <4>2. a = q * size
        BY <2>5, <2>6
      <4> QED BY <4>1, <4>2
    <3>2. k < z - a
      <4>1. a + k < n /\ k < size /\ (z = a + size \/ z = n)
        BY <2>1, <2>6, <3>1
      <4> QED BY <4>1
    <3> QED BY <3>1, <3>2
  <2>8. k \in 0..(Len(P[s]) - 1) /\ k + 1 \in 1..Len(P[s])
    <3>1. Len(P[s]) = z - a
      BY <1>8, <2>6
    <3>2. k \in 0..((z - a) - 1) /\ k + 1 \in 1..(z - a)
      BY <2>7
    <3> QED BY <3>1, <3>2
  <2>9. P[s][k + 1] = leafSet[F[s] + (k + 1)] /\ F[s] + (k + 1) = i
    <3>1. P[s][k + 1] = leafSet[F[s] + (k + 1)]
      BY <1>8, <2>8
    <3> QED BY <2>6, <2>7, <3>1
  <2> QED BY <2>2, <2>4, <2>8, <2>9
<1>11. \A s \in 1..m : /\ P[s] \in Seq(set)
                       /\ Len(P[s]) \in 1..size
                       /\ \A k \in 1..Len(P[s]) :
                            (s - 1) * size + k \in 1..n /\ P[s][k] = leafSet[(s - 1) * size + k]
  <2> SUFFICES ASSUME NEW s \in 1..m
               PROVE  /\ P[s] \in Seq(set)
                      /\ Len(P[s]) \in 1..size
                      /\ \A k \in 1..Len(P[s]) :
                           (s - 1) * size + k \in 1..n /\ P[s][k] = leafSet[(s - 1) * size + k]
    OBVIOUS
  <2>1. F[s] = (s - 1) * size
    BY <1>7
  <2>2. P[s] \in Seq(set) /\ Len(P[s]) \in 1..size
    BY <1>8, <1>9
  <2>3. \A k \in 1..Len(P[s]) : F[s] + k \in 1..n /\ P[s][k] = leafSet[F[s] + k]
    BY <1>8
  <2> QED BY <2>1, <2>2, <2>3
<1> QED BY <1>2, <1>6, <1>10, <1>11 DEF IsCut

-----------------------------------------------------------------------------
(***************************************************************************)
(* A root binds the depth and the leaves of its tree, when the leaves are  *)
(* distinct txids of ordinary transactions, and a TXID binds the fields of *)
(* such a transaction: fields that carry their place, none of 63 bytes.    *)
(* Without that a field has the digest of a pair, and a TXID may be that   *)
(* of a node over two others.                                              *)
(***************************************************************************)

\* Two pairs are one only if their halves are.
LEMMA PairIs ==
  ASSUME NEW a, NEW b, NEW y, NEW z, HashPair(a, y) = HashPair(b, z)
  PROVE  a = b /\ y = z
BY DEF HashPair

\* Field f, not a wide one, is the first under x: from its leaf up to x every
\* node is a left child.
IsSpine(f, node, n, x) ==
  /\ node[0] = LeafForField(f)
  /\ \A k \in 1..n : \E y : node[k] = HashPair(node[k - 1], y)
  /\ node[n] = x
FirstField(f, x) == ~IsWide(f) /\ \E n \in Nat : \E node : IsSpine(f, node, n, x)

\* A node has one first field: the digest of one that is not wide is of no pair.
LEMMA FirstFieldIsOne ==
  ASSUME NEW f, NEW g, NEW x, FirstField(f, x), FirstField(g, x)
  PROVE  f = g
<1>1. ASSUME NEW a, NEW b, ~IsWide(a), ~IsWide(b), NEW n \in Nat, NEW m \in Nat, NEW p, NEW q,
             IsSpine(a, p, n, x), IsSpine(b, q, m, x), n <= m
      PROVE  a = b
  <2> DEFINE S == {d \in Nat : d <= n => p[n - d] = q[m - d]}
  <2>1. /\ p[0] = LeafForField(a) /\ p[n] = x /\ q[0] = LeafForField(b) /\ q[m] = x
        /\ \A k \in 1..n : \E y : p[k] = HashPair(p[k - 1], y)
        /\ \A k \in 1..m : \E y : q[k] = HashPair(q[k - 1], y)
    BY <1>1 DEF IsSpine
  <2>2. 0 \in S
    <3>1. n - 0 = n /\ m - 0 = m
      OBVIOUS
    <3> QED BY <2>1, <3>1
  <2>3. ASSUME NEW d \in Nat, d \in S PROVE d + 1 \in S
    <3> SUFFICES ASSUME d + 1 <= n PROVE p[n - (d + 1)] = q[m - (d + 1)]
      OBVIOUS
    <3>1. PICK k \in 1..n, j \in 1..m : /\ k = n - d /\ j = m - d
                                        /\ n - (d + 1) = k - 1 /\ m - (d + 1) = j - 1
      <4>1. n - d \in 1..n /\ m - d \in 1..m /\ n - (d + 1) = (n - d) - 1 /\ m - (d + 1) = (m - d) - 1
        BY <1>1
      <4> QED BY <4>1
    <3>2. p[k] = q[j]
      BY <2>3, <3>1
    <3>3. PICK y, z : p[k] = HashPair(p[k - 1], y) /\ q[j] = HashPair(q[j - 1], z)
      BY <2>1
    <3>4. p[k - 1] = q[j - 1]
      <4>1. PICK u, v : u = p[k - 1] /\ v = q[j - 1]
        OBVIOUS
      <4>2. HashPair(u, y) = HashPair(v, z)
        BY <3>2, <3>3, <4>1
      <4>3. u = v
        BY <4>2, PairIs
      <4> QED BY <4>1, <4>3
    <3> QED BY <3>1, <3>4
  <2>4. n \in S
    <3> HIDE DEF S
    <3>1. \A d \in Nat : d \in S
      BY <2>2, <2>3, Induction
    <3> QED BY <3>1
  <2>5. p[0] = q[m - n]
    <3>1. n <= n /\ n - n = 0
      OBVIOUS
    <3> QED BY <2>4, <3>1
  <2>6. m - n = 0
    <3> SUFFICES ASSUME m - n # 0 PROVE FALSE
      OBVIOUS
    <3>1. m - n \in 1..m
      BY <1>1
    <3>2. PICK y, z : q[m - n] = HashPair(z, y)
      BY <2>1, <3>1
    <3>3. <<a>> = <<z, y>>
      BY <1>1, <2>1, <2>5, <3>2 DEF LeafForField, DoubleSHA256, HashPair
    <3> QED BY <3>3
  <2>7. <<a>> = <<b>>
    BY <1>1, <2>1, <2>5, <2>6 DEF LeafForField, DoubleSHA256
  <2> QED BY <2>7
<1>n. PICK n \in Nat : \E p : IsSpine(f, p, n, x)
  BY DEF FirstField
<1>m. PICK m \in Nat : \E q : IsSpine(g, q, m, x)
  BY DEF FirstField
<1>2. PICK p : IsSpine(f, p, n, x)
  BY <1>n
<1>3. PICK q : IsSpine(g, q, m, x)
  BY <1>m
<1>w. ~IsWide(f) /\ ~IsWide(g)
  BY DEF FirstField
<1>4. CASE n <= m
  BY <1>1, <1>2, <1>3, <1>4, <1>w
<1>5. CASE m <= n
  BY <1>1, <1>2, <1>3, <1>5, <1>w
<1> QED BY <1>4, <1>5

\* The first field of a leaf, and of a pair.
LEMMA FirstFieldOfLeaf ==
  ASSUME NEW f, ~IsWide(f)
  PROVE  FirstField(f, LeafForField(f))
<1> DEFINE node == [k \in 0..0 |-> LeafForField(f)]
<1>1. node[0] = LeafForField(f) /\ 1..0 = {}
  OBVIOUS
<1>2. IsSpine(f, node, 0, LeafForField(f))
  <2> HIDE DEF node
  <2> QED BY <1>1 DEF IsSpine
<1> QED BY <1>2 DEF FirstField

LEMMA FirstFieldOfPair ==
  ASSUME NEW f, NEW x, NEW y, FirstField(f, x)
  PROVE  FirstField(f, HashPair(x, y))
<1>n. PICK n \in Nat : \E p : IsSpine(f, p, n, x)
  BY DEF FirstField
<1>1. PICK p : IsSpine(f, p, n, x)
  BY <1>n
<1>2. PICK q : q = [k \in 0..(n + 1) |-> IF k = n + 1 THEN HashPair(x, y) ELSE p[k]]
  OBVIOUS
<1>3. q[0] = LeafForField(f)
  BY <1>1, <1>2 DEF IsSpine
<1>4. q[n + 1] = HashPair(x, y)
  BY <1>2
<1>5. ASSUME NEW k \in 1..(n + 1) PROVE \E z : q[k] = HashPair(q[k - 1], z)
  <2>1. CASE k = n + 1
    <3>1. q[k - 1] = x
      BY <1>1, <1>2, <2>1 DEF IsSpine
    <3> QED BY <1>4, <2>1, <3>1
  <2>2. CASE k # n + 1
    <3>1. k \in 1..n /\ q[k] = p[k] /\ q[k - 1] = p[k - 1]
      BY <1>2, <2>2
    <3> QED BY <1>1, <3>1 DEF IsSpine
  <2> QED BY <2>1, <2>2
<1>6. IsSpine(f, q, n + 1, HashPair(x, y))
  BY <1>3, <1>4, <1>5 DEF IsSpine
<1>7. ~IsWide(f)
  BY DEF FirstField
<1> QED BY <1>6, <1>7 DEF FirstField

\* The first field of every node of a tree over n leaves with first fields F.
FirstsAre(F, L, c, n) ==
  \A l \in 1..(c + 1) : \A i \in 1..Len(L[l]) :
    \E j \in 1..n : FirstField(F[j], L[l][i]) /\ (i = 1 <=> j = 1)

\* Every node of a tree has the first field of one of the leaves, and
\* that of the first leaf exactly when it is the first of its level.
LEMMA FirstFieldInTree ==
  ASSUME NEW leaves, NEW n \in Nat \ {0}, n = Len(leaves),
         NEW F, \A i \in 1..n : FirstField(F[i], leaves[i]),
         NEW L, L = BuildMerkleTree(leaves), NEW c, c = CeilLog2(n)
  PROVE  FirstsAre(F, L, c, n)
<1>1. /\ c \in Nat /\ L[1] = leaves /\ \A l \in 1..c : L[l + 1] = NextLevel(L[l])
      /\ \A l \in 1..(c + 1) : Len(L[l]) \in Nat \ {0}
  <2>1. IsTree(L, leaves, c)
    BY TreeLevels
  <2> QED BY <2>1 DEF IsTree
<1> DEFINE S == {d \in Nat : d <= c => \A i \in 1..Len(L[d + 1]) :
                   \E j \in 1..n : FirstField(F[j], L[d + 1][i]) /\ (i = 1 <=> j = 1)}
<1>2. 0 \in S
  <2>1. 0 + 1 = 1 /\ Len(L[1]) = n
    BY <1>1
  <2>2. \A i \in 1..n : \E j \in 1..n : FirstField(F[j], L[1][i]) /\ (i = 1 <=> j = 1)
    BY <1>1
  <2> QED BY <2>1, <2>2
<1>3. ASSUME NEW d \in Nat, d \in S PROVE d + 1 \in S
  <2> SUFFICES ASSUME d + 1 <= c, NEW i \in 1..Len(L[(d + 1) + 1])
               PROVE  \E j \in 1..n : FirstField(F[j], L[(d + 1) + 1][i]) /\ (i = 1 <=> j = 1)
    OBVIOUS
  <2>1. PICK l \in 1..c : l = d + 1
    <3>1. d + 1 \in 1..c
      BY <1>1
    <3> QED BY <3>1
  <2>2. PICK m \in Nat : Len(L[l]) = m + 1
    <3>1. l \in 1..(c + 1)
      BY <1>1
    <3>2. Len(L[l]) \in Nat \ {0}
      BY <1>1, <3>1
    <3>3. Len(L[l]) - 1 \in Nat /\ Len(L[l]) = (Len(L[l]) - 1) + 1
      BY <3>2
    <3> QED BY <3>3
  <2>3. L[l + 1] = NextLevel(L[l])
    BY <1>1
  <2>4. i \in 1..((m \div 2) + 1)
    <3>1. Len(L[l + 1]) = (m \div 2) + 1
      BY <2>2, <2>3, NextLevelIs
    <3> QED BY <2>1, <3>1
  <2>5. PICK z : L[l + 1][i] = HashPair(L[l][2*i - 1], z)
    <3>1. \A a \in 1..((m \div 2) + 1) :
            NextLevel(L[l])[a] =
              HashPair(L[l][2*a - 1], L[l][IF 2*a <= m + 1 THEN 2*a ELSE 2*a - 1])
      BY <2>2, NextLevelIs
    <3> QED BY <2>3, <2>4, <3>1
  <2>6. 2*i - 1 \in 1..Len(L[l]) /\ (i = 1 <=> 2*i - 1 = 1)
    BY <2>2, <2>4
  <2>7. PICK j \in 1..n : FirstField(F[j], L[l][2*i - 1]) /\ (2*i - 1 = 1 <=> j = 1)
    <3>1. d <= c
      BY <1>1
    <3> QED BY <1>3, <2>1, <2>6, <3>1
  <2>8. FirstField(F[j], L[l + 1][i])
    BY <2>5, <2>7, FirstFieldOfPair
  <2> QED BY <2>1, <2>6, <2>7, <2>8
<1>4. \A d \in Nat : d \in S
  <2> HIDE DEF S
  <2> QED BY <1>2, <1>3, Induction
<1>5. SUFFICES ASSUME NEW l \in 1..(c + 1), NEW i \in 1..Len(L[l])
               PROVE  \E j \in 1..n : FirstField(F[j], L[l][i]) /\ (i = 1 <=> j = 1)
  BY DEF FirstsAre
<1>6. l - 1 \in Nat /\ l - 1 <= c /\ (l - 1) + 1 = l
  BY <1>1
<1>7. l - 1 \in S
  <2> HIDE DEF S
  <2> QED BY <1>4, <1>6
<1> QED BY <1>6, <1>7

\* A node at or over a txid, and one that may be a txid: under its right half,
\* if it has one, is no first field of a transaction.
StartsTx(x) == \E f : FirstField(f, x) /\ f.Index = 0
TxidLike(x) ==
  /\ StartsTx(x)
  /\ \A u, v : x = HashPair(u, v) => \E g : FirstField(g, v) /\ g.Index # 0

\* No txid is a node over two others.
LEMMA TxidIsNoNode ==
  ASSUME NEW x, NEW u, NEW v, TxidLike(x), StartsTx(v), x = HashPair(u, v)
  PROVE  FALSE
<1>1. PICK f : FirstField(f, v) /\ f.Index = 0
  BY DEF StartsTx
<1>2. PICK g : FirstField(g, v) /\ g.Index # 0
  BY DEF TxidLike
<1>3. f = g
  BY <1>1, <1>2, FirstFieldIsOne
<1> QED BY <1>1, <1>2, <1>3

\* What BuildMTxID returns for ordinary fields has the shape of a txid.
LEMMA TxidIs ==
  ASSUME NEW n \in Nat \ {0}, NEW fields, DOMAIN fields = 1..n, Ordinary(fields)
  PROVE  TxidLike(BuildMTxID(fields))
<1> DEFINE leaves == [i \in 1..n |-> LeafForField(fields[i])]
<1>1. PICK A : A = leaves
  OBVIOUS
<1>2. A = [i \in 1..n |-> A[i]] /\ \A i \in 1..n : A[i] = LeafForField(fields[i])
  BY <1>1
<1>3. Len(A) = n
  BY <1>2, FunctionsAreSeqs
<1>4. PICK L, c : L = BuildMerkleTree(A) /\ c = CeilLog2(n)
  OBVIOUS
<1>5. IsTree(L, A, c)
  BY <1>3, <1>4, TreeLevels
<1>w. Indexed(fields) /\ \A i \in 1..n : ~IsWide(fields[i])
  BY DEF Ordinary
<1>6. \A i \in 1..n : FirstField(fields[i], A[i])
  BY <1>2, <1>w, FirstFieldOfLeaf
<1>7. \A l \in 1..(c + 1) : \A i \in 1..Len(L[l]) :
        \E j \in 1..n : FirstField(fields[j], L[l][i]) /\ (i = 1 <=> j = 1)
  <2>1. FirstsAre(fields, L, c, n)
    BY <1>3, <1>4, <1>6, FirstFieldInTree
  <2> QED BY <2>1 DEF FirstsAre
<1>8. BuildMTxID(fields) = L[c + 1][1]
  <2>1. BuildMTxID(fields) = MerkleRoot(leaves)
    BY DEF BuildMTxID, FieldLayers, MerkleRoot
  <2>2. MerkleRoot(A) = L[c + 1][1]
    BY <1>5 DEF IsTree
  <2> QED BY <1>1, <2>1, <2>2
<1> HIDE DEF leaves
<1>9. /\ c \in Nat /\ L[1] = A /\ \A l \in 1..c : L[l + 1] = NextLevel(L[l])
      /\ \A l \in 1..(c + 1) : Len(L[l]) \in Nat \ {0}
      /\ Len(L[c + 1]) = 1 /\ (c # 0 => Len(L[c]) > 1)
  BY <1>5 DEF IsTree
<1>10. StartsTx(L[c + 1][1])
  <2>1. c + 1 \in 1..(c + 1) /\ 1 \in 1..Len(L[c + 1])
    BY <1>9
  <2>2. FirstField(fields[1], L[c + 1][1])
    BY <1>7, <2>1
  <2>3. 1 \in DOMAIN fields /\ fields[1].Index = 1 - 1
    BY <1>w DEF Indexed
  <2> QED BY <2>2, <2>3 DEF StartsTx
<1>11. ASSUME NEW u, NEW v, L[c + 1][1] = HashPair(u, v)
       PROVE  \E g : FirstField(g, v) /\ g.Index # 0
  <2>1. c # 0
    <3> SUFFICES ASSUME c = 0 PROVE FALSE
      OBVIOUS
    <3>1. L[1][1] = LeafForField(fields[1])
      BY <1>2, <1>9
    <3>2. <<fields[1]>> = <<u, v>>
      <4>1. c + 1 = 1
        OBVIOUS
      <4>2. L[1][1] = HashPair(u, v)
        BY <1>11, <4>1
      <4>3. ~IsWide(fields[1])
        BY <1>w
      <4> QED BY <3>1, <4>2, <4>3 DEF LeafForField, DoubleSHA256, HashPair
    <3> QED BY <3>2
  <2>2. c \in 1..c /\ c \in 1..(c + 1) /\ Len(L[c]) \in Nat \ {0} /\ Len(L[c]) > 1
    BY <1>9, <2>1
  <2>3. PICK m \in Nat : Len(L[c]) = m + 1 /\ m >= 1
    <3>1. Len(L[c]) - 1 \in Nat /\ Len(L[c]) = (Len(L[c]) - 1) + 1 /\ Len(L[c]) - 1 >= 1
      BY <2>2
    <3> QED BY <3>1
  <2>4. L[c + 1] = NextLevel(L[c])
    BY <1>9, <2>2
  <2>5. \A a \in 1..((m \div 2) + 1) :
          NextLevel(L[c])[a] =
            HashPair(L[c][2*a - 1], L[c][IF 2*a <= m + 1 THEN 2*a ELSE 2*a - 1])
    BY <2>3, NextLevelIs
  <2>6. L[c + 1][1] = HashPair(L[c][1], L[c][2])
    <3>1. 1 \in 1..((m \div 2) + 1) /\ 2*1 <= m + 1 /\ 2*1 - 1 = 1 /\ 2*1 = 2
      BY <2>3
    <3> QED BY <2>4, <2>5, <3>1
  <2>7. v = L[c][2]
    <3>1. PICK a, b : a = L[c][1] /\ b = L[c][2]
      OBVIOUS
    <3>2. HashPair(u, v) = HashPair(a, b)
      BY <1>11, <2>6, <3>1
    <3>3. v = b
      BY <3>2, PairIs
    <3> QED BY <3>1, <3>3
  <2>8. PICK j \in 1..n : FirstField(fields[j], L[c][2]) /\ j # 1
    <3>1. 2 \in 1..Len(L[c])
      BY <2>2
    <3> QED BY <1>7, <2>2, <3>1
  <2>9. j \in DOMAIN fields /\ fields[j].Index = j - 1 /\ j - 1 # 0
    BY <1>w, <2>8 DEF Indexed
  <2> QED BY <2>7, <2>8, <2>9
<1> QED BY <1>8, <1>10, <1>11 DEF TxidLike

\* Every node over txids starts a transaction.
LEMMA NodesStartTx ==
  ASSUME NEW leaves, NEW n \in Nat \ {0}, n = Len(leaves), \A i \in 1..n : StartsTx(leaves[i]),
         NEW L, L = BuildMerkleTree(leaves), NEW c, c = CeilLog2(n)
  PROVE  \A l \in 1..(c + 1) : \A i \in 1..Len(L[l]) : StartsTx(L[l][i])
<1>1. PICK F : F = [i \in 1..n |-> CHOOSE f : FirstField(f, leaves[i]) /\ f.Index = 0]
  OBVIOUS
<1>2. \A i \in 1..n : FirstField(F[i], leaves[i]) /\ F[i].Index = 0
  BY <1>1 DEF StartsTx
<1>3. FirstsAre(F, L, c, n)
  BY <1>2, FirstFieldInTree
<1> QED BY <1>2, <1>3 DEF StartsTx, FirstsAre

\* A path over nodes of transactions keeps the first field of a transaction.
LEMMA ClimbStartsTx ==
  ASSUME NEW x, StartsTx(x), NEW p, NEW a \in Nat, Len(p) = a,
         \A k \in 1..a : StartsTx(p[k].Sibling), NEW node, node = Climbed(x, p)
  PROVE  \A k \in 0..a : StartsTx(node[k])
<1> DEFINE S == {k \in Nat : k <= a => StartsTx(node[k])}
<1>1. node[0] = x /\ \A k \in 1..a : node[k] = Parent(node[k - 1], p[k])
  BY ClimbedIs
<1>2. 0 \in S
  BY <1>1
<1>3. ASSUME NEW k \in Nat, k \in S PROVE k + 1 \in S
  <2> SUFFICES ASSUME k + 1 <= a PROVE StartsTx(node[k + 1])
    OBVIOUS
  <2>1. PICK j \in 1..a : j = k + 1 /\ j - 1 = k
    <3>1. k + 1 \in 1..a /\ (k + 1) - 1 = k
      OBVIOUS
    <3> QED BY <3>1
  <2>2. StartsTx(node[j - 1]) /\ StartsTx(p[j].Sibling) /\ node[j] = Parent(node[j - 1], p[j])
    BY <1>1, <1>3, <2>1
  <2>3. \A y, z : StartsTx(y) => StartsTx(HashPair(y, z))
    BY FirstFieldOfPair DEF StartsTx
  <2>4. StartsTx(node[j])
    BY <2>2, <2>3 DEF Parent
  <2> QED BY <2>1, <2>4
<1>4. \A k \in Nat : k \in S
  <2> HIDE DEF S
  <2> QED BY <1>2, <1>3, Induction
<1> QED BY <1>4

\* A climb of a nodes ends inside the levels of a tree: as far down as both go.
RunsDown(L, c, node, a) ==
  \A d \in Nat : d <= a /\ d <= c =>
    \E i \in 1..Len(L[(c - d) + 1]) : node[a - d] = L[(c - d) + 1][i]

\* Down a tree and down a path that ends at its root, level by level: the path
\* is at a node of the tree as long as both go on.
LEMMA PathInTree ==
  ASSUME NEW leaves, NEW n \in Nat \ {0}, n = Len(leaves),
         NEW L, L = BuildMerkleTree(leaves), NEW c, c = CeilLog2(n),
         NEW x, NEW p, NEW a \in Nat, Len(p) = a, Fold(x, p) = MerkleRoot(leaves),
         NEW node, node = Climbed(x, p)
  PROVE  RunsDown(L, c, node, a)
<1>1. /\ c \in Nat /\ L[1] = leaves /\ \A l \in 1..c : L[l + 1] = NextLevel(L[l])
      /\ \A l \in 1..(c + 1) : Len(L[l]) \in Nat \ {0}
      /\ Len(L[c + 1]) = 1 /\ MerkleRoot(leaves) = L[c + 1][1]
  <2>1. IsTree(L, leaves, c)
    BY TreeLevels
  <2> QED BY <2>1 DEF IsTree
<1>2. node[0] = x /\ \A k \in 1..a : node[k] = Parent(node[k - 1], p[k])
  BY ClimbedIs
<1>3. node[a] = L[c + 1][1]
  <2>1. Fold(x, p) = node[a]
    BY DEF Fold
  <2> QED BY <1>1, <2>1
<1> DEFINE S == {d \in Nat : d <= a /\ d <= c =>
                   \E i \in 1..Len(L[(c - d) + 1]) : node[a - d] = L[(c - d) + 1][i]}
<1>4. 0 \in S
  <2>1. c - 0 = c /\ a - 0 = a /\ 1 \in 1..Len(L[c + 1])
    BY <1>1
  <2> QED BY <1>3, <2>1
<1>5. ASSUME NEW d \in Nat, d \in S PROVE d + 1 \in S
  <2> SUFFICES ASSUME d + 1 <= a, d + 1 <= c
               PROVE  \E i \in 1..Len(L[(c - (d + 1)) + 1]) :
                        node[a - (d + 1)] = L[(c - (d + 1)) + 1][i]
    OBVIOUS
  <2>1. PICK k \in 1..c : k = c - d /\ c - (d + 1) = k - 1 /\ (k - 1) + 1 = k
    <3>1. c - d \in 1..c /\ c - (d + 1) = (c - d) - 1 /\ ((c - d) - 1) + 1 = c - d
      BY <1>1
    <3> QED BY <3>1
  <2>2. PICK b \in 1..a : b = a - d /\ a - (d + 1) = b - 1
    <3>1. a - d \in 1..a /\ a - (d + 1) = (a - d) - 1
      OBVIOUS
    <3> QED BY <3>1
  <2>3. PICK i \in 1..Len(L[k + 1]) : node[b] = L[k + 1][i]
    BY <1>5, <1>1, <2>1, <2>2
  <2>4. PICK m \in Nat : Len(L[k]) = m + 1
    <3>1. k \in 1..(c + 1)
      BY <1>1
    <3>2. Len(L[k]) \in Nat \ {0}
      BY <1>1, <3>1
    <3>3. Len(L[k]) - 1 \in Nat /\ Len(L[k]) = (Len(L[k]) - 1) + 1
      BY <3>2
    <3> QED BY <3>3
  <2>5. L[k + 1] = NextLevel(L[k])
    BY <1>1
  <2> DEFINE j == IF 2*i <= m + 1 THEN 2*i ELSE 2*i - 1
  <2>6. i \in 1..((m \div 2) + 1) /\ L[k + 1][i] = HashPair(L[k][2*i - 1], L[k][j])
    <3>1. PICK level, up : level = L[k] /\ up = L[k + 1]
      OBVIOUS
    <3>2. Len(level) = m + 1 /\ up = NextLevel(level) /\ i \in 1..Len(up)
      BY <2>3, <2>4, <2>5, <3>1
    <3>3. IsPairOf(up, i, level, m)
      BY <3>2, NextLevelAt
    <3>4. i \in 1..((m \div 2) + 1) /\ up[i] = HashPair(level[2*i - 1], level[j])
      BY <3>3 DEF IsPairOf
    <3> HIDE DEF j
    <3> QED BY <3>1, <3>4
  <2>7. 2*i - 1 \in 1..Len(L[k]) /\ j \in 1..Len(L[k])
    <3>1. i \in 1..((m \div 2) + 1)
      BY <2>6
    <3>2. 2*i - 1 \in 1..(m + 1) /\ j \in 1..(m + 1)
      BY <3>1
    <3> HIDE DEF j
    <3> QED BY <2>4, <3>2
  <2>8. Parent(node[b - 1], p[b]) = HashPair(L[k][2*i - 1], L[k][j])
    BY <1>2, <2>3, <2>6
  <2> HIDE DEF j
  <2>9. node[b - 1] = L[k][2*i - 1] \/ node[b - 1] = L[k][j]
    <3>1. CASE p[b].Right
      BY <2>8, <3>1 DEF Parent, HashPair
    <3>2. CASE ~p[b].Right
      BY <2>8, <3>2 DEF Parent, HashPair
    <3> QED BY <3>1, <3>2
  <2> QED BY <2>1, <2>2, <2>7, <2>9
<1>6. \A d \in Nat : d \in S
  <2> HIDE DEF S
  <2> QED BY <1>4, <1>5, Induction
<1> QED BY <1>6 DEF RunsDown

\* The depth of a tree of what has the shape of a txid is in its root: a path from
\* another such over nodes over such ends there only if it is as long as the tree is deep.
LEMMA ShapesBindDepth ==
  ASSUME NEW leaves, NEW n \in Nat \ {0}, n = Len(leaves), \A i \in 1..n : TxidLike(leaves[i]),
         NEW x, TxidLike(x), NEW p, NEW a \in Nat, Len(p) = a,
         \A k \in 1..a : StartsTx(p[k].Sibling), Fold(x, p) = MerkleRoot(leaves)
  PROVE  a = CeilLog2(n)
<1>1. PICK L, c, node : L = BuildMerkleTree(leaves) /\ c = CeilLog2(n) /\ node = Climbed(x, p)
  OBVIOUS
<1>2. /\ c \in Nat /\ L[1] = leaves /\ \A l \in 1..c : L[l + 1] = NextLevel(L[l])
      /\ \A l \in 1..(c + 1) : Len(L[l]) \in Nat \ {0}
  <2>1. IsTree(L, leaves, c)
    BY <1>1, TreeLevels
  <2> QED BY <2>1 DEF IsTree
<1>3. \A d \in Nat : d <= a /\ d <= c =>
        \E i \in 1..Len(L[(c - d) + 1]) : node[a - d] = L[(c - d) + 1][i]
  <2>1. RunsDown(L, c, node, a)
    BY <1>1, PathInTree
  <2> QED BY <2>1 DEF RunsDown
<1>4. \A l \in 1..(c + 1) : \A i \in 1..Len(L[l]) : StartsTx(L[l][i])
  <2>1. \A i \in 1..n : StartsTx(leaves[i])
    BY DEF TxidLike
  <2> QED BY <1>1, <2>1, NodesStartTx
<1>5. \A k \in 0..a : StartsTx(node[k])
  <2>1. StartsTx(x)
    BY DEF TxidLike
  <2> QED BY <1>1, <2>1, ClimbStartsTx
<1>6. node[0] = x /\ \A k \in 1..a : node[k] = Parent(node[k - 1], p[k])
  BY <1>1, ClimbedIs
<1>7. ~(a < c)
  <2> SUFFICES ASSUME a < c PROVE FALSE
    OBVIOUS
  <2>1. PICK k \in 1..c : k = c - a
    <3>1. c - a \in 1..c
      BY <1>2
    <3> QED BY <3>1
  <2>2. PICK i \in 1..Len(L[k + 1]) : x = L[k + 1][i]
    <3>1. a <= a /\ a <= c /\ a - a = 0
      BY <1>2
    <3>2. \E i \in 1..Len(L[(c - a) + 1]) : node[a - a] = L[(c - a) + 1][i]
      BY <1>3, <3>1
    <3> QED BY <1>6, <2>1, <3>1, <3>2
  <2>3. PICK m \in Nat : Len(L[k]) = m + 1
    <3>1. k \in 1..(c + 1)
      BY <1>2
    <3>2. Len(L[k]) \in Nat \ {0}
      BY <1>2, <3>1
    <3>3. Len(L[k]) - 1 \in Nat /\ Len(L[k]) = (Len(L[k]) - 1) + 1
      BY <3>2
    <3> QED BY <3>3
  <2>4. L[k + 1] = NextLevel(L[k])
    BY <1>2
  <2> DEFINE j == IF 2*i <= m + 1 THEN 2*i ELSE 2*i - 1
  <2>5. i \in 1..((m \div 2) + 1) /\ L[k + 1][i] = HashPair(L[k][2*i - 1], L[k][j])
    <3>1. PICK level, up : level = L[k] /\ up = L[k + 1]
      OBVIOUS
    <3>2. Len(level) = m + 1 /\ up = NextLevel(level) /\ i \in 1..Len(up)
      BY <2>2, <2>3, <2>4, <3>1
    <3>3. IsPairOf(up, i, level, m)
      BY <3>2, NextLevelAt
    <3>4. i \in 1..((m \div 2) + 1) /\ up[i] = HashPair(level[2*i - 1], level[j])
      BY <3>3 DEF IsPairOf
    <3> HIDE DEF j
    <3> QED BY <3>1, <3>4
  <2>6. j \in 1..Len(L[k]) /\ k \in 1..(c + 1)
    <3>1. i \in 1..((m \div 2) + 1)
      BY <2>5
    <3>2. 2*i - 1 \in 1..(m + 1) /\ j \in 1..(m + 1)
      BY <3>1
    <3> HIDE DEF j
    <3> QED BY <1>2, <2>3, <3>2
  <2> HIDE DEF j
  <2>7. StartsTx(L[k][j])
    BY <1>4, <2>6
  <2>8. x = HashPair(L[k][2*i - 1], L[k][j])
    BY <2>2, <2>5
  <2> QED BY <2>7, <2>8, TxidIsNoNode
<1>8. ~(a > c)
  <2> SUFFICES ASSUME a > c PROVE FALSE
    OBVIOUS
  <2>1. PICK k \in 1..a : k = a - c
    <3>1. a - c \in 1..a
      BY <1>2
    <3> QED BY <3>1
  <2>2. PICK i \in 1..n : node[k] = leaves[i]
    <3>1. c <= a /\ c <= c /\ (c - c) + 1 = 1
      BY <1>2
    <3>2. \E i \in 1..Len(L[(c - c) + 1]) : node[a - c] = L[(c - c) + 1][i]
      BY <1>2, <1>3, <3>1
    <3> QED BY <1>2, <2>1, <3>1, <3>2
  <2>3. PICK u, v : node[k] = HashPair(u, v) /\ StartsTx(v)
    <3>1. node[k] = Parent(node[k - 1], p[k]) /\ StartsTx(p[k].Sibling)
      BY <1>6
    <3>2. k - 1 \in 0..a
      OBVIOUS
    <3>3. StartsTx(node[k - 1])
      BY <1>5, <3>2
    <3> QED BY <3>1, <3>3 DEF Parent
  <2>4. TxidLike(node[k])
    BY <2>2
  <2> QED BY <2>3, <2>4, TxidIsNoNode
<1> QED BY <1>1, <1>2, <1>7, <1>8

\* A list of n without repetition, and such levels up to c pairings high.
Distinct(A, n) == \A i, j \in 1..n : A[i] = A[j] => i = j
DistinctLevels(L, c) == \A l \in 1..(c + 1) : Distinct(L[l], Len(L[l]))
SameUpTo(A, B, n) == \A i \in 1..n : A[i] = B[i]

\* In a tree over distinct leaves the nodes of every level are distinct.
LEMMA DistinctNodes ==
  ASSUME NEW leaves, NEW n \in Nat \ {0}, n = Len(leaves),
         Distinct(leaves, n),
         NEW L, L = BuildMerkleTree(leaves), NEW c, c = CeilLog2(n)
  PROVE  DistinctLevels(L, c)
<1>1. /\ c \in Nat /\ L[1] = leaves /\ \A l \in 1..c : L[l + 1] = NextLevel(L[l])
      /\ \A l \in 1..(c + 1) : Len(L[l]) \in Nat \ {0}
  <2>1. IsTree(L, leaves, c)
    BY TreeLevels
  <2> QED BY <2>1 DEF IsTree
<1> DEFINE S == {d \in Nat : d <= c => \A i, j \in 1..Len(L[d + 1]) : L[d + 1][i] = L[d + 1][j] => i = j}
<1>2. 0 \in S
  <2>1. 0 + 1 = 1 /\ Len(L[1]) = n
    BY <1>1
  <2> QED BY <1>1, <2>1 DEF Distinct
<1>3. ASSUME NEW d \in Nat, d \in S PROVE d + 1 \in S
  <2> SUFFICES ASSUME d + 1 <= c,
                      NEW i \in 1..Len(L[(d + 1) + 1]), NEW j \in 1..Len(L[(d + 1) + 1]),
                      L[(d + 1) + 1][i] = L[(d + 1) + 1][j]
               PROVE  i = j
    OBVIOUS
  <2>1. PICK l \in 1..c : l = d + 1
    <3>1. d + 1 \in 1..c
      BY <1>1
    <3> QED BY <3>1
  <2>2. PICK m \in Nat : Len(L[l]) = m + 1
    <3>1. l \in 1..(c + 1)
      BY <1>1
    <3>2. Len(L[l]) \in Nat \ {0}
      BY <1>1, <3>1
    <3>3. Len(L[l]) - 1 \in Nat /\ Len(L[l]) = (Len(L[l]) - 1) + 1
      BY <3>2
    <3> QED BY <3>3
  <2>3. L[l + 1] = NextLevel(L[l])
    BY <1>1
  <2>4. i \in 1..((m \div 2) + 1) /\ j \in 1..((m \div 2) + 1)
    <3>1. Len(L[l + 1]) = (m \div 2) + 1
      BY <2>2, <2>3, NextLevelIs
    <3> QED BY <2>1, <3>1
  <2>5. \A e \in 1..((m \div 2) + 1) : \E z : L[l + 1][e] = HashPair(L[l][2*e - 1], z)
    <3>1. \A e \in 1..((m \div 2) + 1) :
            NextLevel(L[l])[e] =
              HashPair(L[l][2*e - 1], L[l][IF 2*e <= m + 1 THEN 2*e ELSE 2*e - 1])
      BY <2>2, NextLevelIs
    <3> QED BY <2>3, <3>1
  <2>6. L[l][2*i - 1] = L[l][2*j - 1]
    <3>1. PICK y, z : L[l + 1][i] = HashPair(L[l][2*i - 1], y) /\ L[l + 1][j] = HashPair(L[l][2*j - 1], z)
      BY <2>4, <2>5
    <3>2. PICK u, v : u = L[l][2*i - 1] /\ v = L[l][2*j - 1]
      OBVIOUS
    <3>3. HashPair(u, y) = HashPair(v, z)
      BY <2>1, <3>1, <3>2
    <3>4. u = v
      BY <3>3, PairIs
    <3> QED BY <3>2, <3>4
  <2>7. 2*i - 1 \in 1..Len(L[l]) /\ 2*j - 1 \in 1..Len(L[l])
    <3>1. \A e \in 1..((m \div 2) + 1) : 2*e - 1 \in 1..(m + 1)
      OBVIOUS
    <3>2. 2*i - 1 \in 1..(m + 1) /\ 2*j - 1 \in 1..(m + 1)
      BY <2>4, <3>1
    <3> QED BY <2>2, <3>2
  <2>8. 2*i - 1 = 2*j - 1
    <3>1. d <= c
      BY <1>1
    <3> QED BY <1>3, <2>1, <2>6, <2>7, <3>1
  <2> QED BY <2>4, <2>8
<1>4. \A d \in Nat : d \in S
  <2> HIDE DEF S
  <2> QED BY <1>2, <1>3, Induction
<1>5. SUFFICES ASSUME NEW l \in 1..(c + 1)
               PROVE  \A i, j \in 1..Len(L[l]) : L[l][i] = L[l][j] => i = j
  BY DEF DistinctLevels, Distinct
<1>6. l - 1 \in Nat /\ l - 1 <= c /\ (l - 1) + 1 = l
  BY <1>1
<1>7. l - 1 \in S
  <2> HIDE DEF S
  <2> QED BY <1>4, <1>6
<1> QED BY <1>6, <1>7

\* Two levels under the same pairs are the same, if in each the nodes are distinct:
\* a last odd node paired with itself is no pair of two.
LEMMA LevelsUnder ==
  ASSUME NEW A, NEW B, NEW a \in Nat, NEW b \in Nat, Len(A) = a + 1, Len(B) = b + 1,
         Distinct(A, a + 1), Distinct(B, b + 1),
         Len(NextLevel(A)) = Len(NextLevel(B)),
         SameUpTo(NextLevel(A), NextLevel(B), Len(NextLevel(A)))
  PROVE  a = b /\ SameUpTo(A, B, a + 1)
<1>0. /\ \A i, j \in 1..(a + 1) : A[i] = A[j] => i = j
      /\ \A i, j \in 1..(b + 1) : B[i] = B[j] => i = j
      /\ \A i \in 1..Len(NextLevel(A)) : NextLevel(A)[i] = NextLevel(B)[i]
  BY DEF Distinct, SameUpTo
<1> DEFINE m == (a \div 2) + 1
<1>1. /\ Len(NextLevel(A)) = m
      /\ \A i \in 1..m : NextLevel(A)[i] = HashPair(A[2*i - 1], A[IF 2*i <= a + 1 THEN 2*i ELSE 2*i - 1])
  BY NextLevelIs
<1>2. /\ Len(NextLevel(B)) = (b \div 2) + 1
      /\ \A i \in 1..((b \div 2) + 1) :
           NextLevel(B)[i] = HashPair(B[2*i - 1], B[IF 2*i <= b + 1 THEN 2*i ELSE 2*i - 1])
  BY NextLevelIs
<1>3. a \div 2 = b \div 2 /\ m \in Nat
  <2>1. m = (b \div 2) + 1
    BY <1>1, <1>2
  <2>2. a \div 2 \in Nat /\ b \div 2 \in Nat
    BY HalfOf
  <2> QED BY <2>1, <2>2
<1>4. \A i \in 1..m : /\ A[2*i - 1] = B[2*i - 1]
                      /\ A[IF 2*i <= a + 1 THEN 2*i ELSE 2*i - 1]
                           = B[IF 2*i <= b + 1 THEN 2*i ELSE 2*i - 1]
  <2> SUFFICES ASSUME NEW i \in 1..m
               PROVE  /\ A[2*i - 1] = B[2*i - 1]
                      /\ A[IF 2*i <= a + 1 THEN 2*i ELSE 2*i - 1]
                           = B[IF 2*i <= b + 1 THEN 2*i ELSE 2*i - 1]
    OBVIOUS
  <2>1. PICK u, v, y, z : /\ u = A[2*i - 1] /\ v = B[2*i - 1]
                          /\ y = A[IF 2*i <= a + 1 THEN 2*i ELSE 2*i - 1]
                          /\ z = B[IF 2*i <= b + 1 THEN 2*i ELSE 2*i - 1]
    OBVIOUS
  <2>2. NextLevel(A)[i] = HashPair(u, y)
    BY <1>1, <2>1
  <2>3. NextLevel(B)[i] = HashPair(v, z)
    BY <1>2, <1>3, <2>1
  <2>4. NextLevel(A)[i] = NextLevel(B)[i]
    BY <1>0, <1>1
  <2>5. u = v /\ y = z
    <3>1. HashPair(u, y) = HashPair(v, z)
      BY <2>2, <2>3, <2>4
    <3> QED BY <3>1, PairIs
  <2> QED BY <2>1, <2>5
<1> HIDE DEF m
<1>5. m = (a \div 2) + 1 /\ m = (b \div 2) + 1
  BY <1>3 DEF m
<1>6. a = b
  <2>1. ASSUME a < b PROVE FALSE
    <3>1. a + 1 = 2*m - 1 /\ b + 1 = 2*m
      BY <1>5, <2>1
    <3>2. m \in 1..m /\ ~(2*m <= a + 1) /\ 2*m <= b + 1
      BY <1>3, <1>5, <3>1
    <3>3. A[2*m - 1] = B[2*m - 1] /\ A[2*m - 1] = B[2*m]
      BY <1>4, <3>2
    <3>4. 2*m - 1 \in 1..(b + 1) /\ 2*m \in 1..(b + 1) /\ 2*m - 1 # 2*m
      BY <1>3, <3>1
    <3> QED BY <1>0, <3>3, <3>4
  <2>2. ASSUME b < a PROVE FALSE
    <3>1. b + 1 = 2*m - 1 /\ a + 1 = 2*m
      BY <1>5, <2>2
    <3>2. m \in 1..m /\ ~(2*m <= b + 1) /\ 2*m <= a + 1
      BY <1>3, <1>5, <3>1
    <3>3. A[2*m - 1] = B[2*m - 1] /\ A[2*m] = B[2*m - 1]
      BY <1>4, <3>2
    <3>4. 2*m - 1 \in 1..(a + 1) /\ 2*m \in 1..(a + 1) /\ 2*m - 1 # 2*m
      BY <1>3, <3>1
    <3> QED BY <1>0, <3>3, <3>4
  <2> QED BY <2>1, <2>2
<1>7. ASSUME NEW i \in 1..(a + 1) PROVE A[i] = B[i]
  <2>1. PICK k \in 1..m : i = 2*k - 1 \/ i = 2*k
    <3>1. (i + 1) \div 2 \in 1..m /\ (i = 2*((i + 1) \div 2) - 1 \/ i = 2*((i + 1) \div 2))
      BY <1>5
    <3> QED BY <3>1
  <2>2. CASE i = 2*k - 1
    BY <1>4, <2>1, <2>2
  <2>3. CASE i = 2*k
    <3>1. 2*k <= a + 1 /\ 2*k <= b + 1
      BY <1>6, <2>3
    <3> QED BY <1>4, <2>3, <3>1
  <2> QED BY <2>1, <2>2, <2>3
<1> QED BY <1>6, <1>7 DEF SameUpTo

\* Two lists, each without repetition, whose trees are equally deep and meet in
\* their roots are one list.
LEMMA SameRootSameList ==
  ASSUME NEW A, NEW B, NEW n \in Nat \ {0}, NEW m \in Nat \ {0}, n = Len(A), m = Len(B),
         Distinct(A, n), Distinct(B, m),
         CeilLog2(n) = CeilLog2(m), MerkleRoot(A) = MerkleRoot(B)
  PROVE  n = m /\ SameUpTo(A, B, n)
<1>1. PICK L, M, c : L = BuildMerkleTree(A) /\ M = BuildMerkleTree(B) /\ c = CeilLog2(n) /\ c = CeilLog2(m)
  OBVIOUS
<1>2. /\ c \in Nat /\ L[1] = A /\ \A l \in 1..c : L[l + 1] = NextLevel(L[l])
      /\ \A l \in 1..(c + 1) : Len(L[l]) \in Nat \ {0}
      /\ Len(L[c + 1]) = 1 /\ MerkleRoot(A) = L[c + 1][1]
  <2>1. IsTree(L, A, c)
    BY <1>1, TreeLevels
  <2> QED BY <2>1 DEF IsTree
<1>3. /\ M[1] = B /\ \A l \in 1..c : M[l + 1] = NextLevel(M[l])
      /\ \A l \in 1..(c + 1) : Len(M[l]) \in Nat \ {0}
      /\ Len(M[c + 1]) = 1 /\ MerkleRoot(B) = M[c + 1][1]
  <2>1. IsTree(M, B, c)
    BY <1>1, TreeLevels
  <2> QED BY <2>1 DEF IsTree
<1>4. DistinctLevels(L, c) /\ DistinctLevels(M, c)
  BY <1>1, DistinctNodes
<1> DEFINE Same(l) == Len(L[l]) = Len(M[l]) /\ SameUpTo(L[l], M[l], Len(L[l]))
           S == {d \in Nat : d <= c => Same((c - d) + 1)}
<1>5. 0 \in S
  <2>1. c - 0 = c
    BY <1>2
  <2>2. L[c + 1][1] = M[c + 1][1]
    BY <1>2, <1>3
  <2>3. \A i \in 1..1 : L[c + 1][i] = M[c + 1][i]
    BY <2>2
  <2>4. Same(c + 1)
    BY <1>2, <1>3, <2>3 DEF SameUpTo
  <2> QED BY <2>1, <2>4
<1>6. ASSUME NEW d \in Nat, d \in S PROVE d + 1 \in S
  <2> SUFFICES ASSUME d + 1 <= c PROVE Same((c - (d + 1)) + 1)
    OBVIOUS
  <2>1. PICK k \in 1..c : k = c - d /\ (c - (d + 1)) + 1 = k
    <3>1. c - d \in 1..c /\ (c - (d + 1)) + 1 = c - d
      BY <1>2
    <3> QED BY <3>1
  <2>2. Same(k + 1)
    <3>1. d <= c
      BY <1>2
    <3> QED BY <1>6, <2>1, <3>1
  <2>3. k \in 1..(c + 1)
    BY <1>2
  <2>4. PICK a \in Nat, b \in Nat : Len(L[k]) = a + 1 /\ Len(M[k]) = b + 1
    <3>1. Len(L[k]) \in Nat \ {0} /\ Len(M[k]) \in Nat \ {0}
      BY <1>2, <1>3, <2>3
    <3>2. Len(L[k]) - 1 \in Nat /\ Len(L[k]) = (Len(L[k]) - 1) + 1
      BY <3>1
    <3>3. Len(M[k]) - 1 \in Nat /\ Len(M[k]) = (Len(M[k]) - 1) + 1
      BY <3>1
    <3> QED BY <3>2, <3>3
  <2>5. PICK X, Y : X = L[k] /\ Y = M[k]
    OBVIOUS
  <2>6. NextLevel(X) = L[k + 1] /\ NextLevel(Y) = M[k + 1]
    BY <1>2, <1>3, <2>5
  <2>7. /\ Len(NextLevel(X)) = Len(NextLevel(Y))
        /\ SameUpTo(NextLevel(X), NextLevel(Y), Len(NextLevel(X)))
    BY <2>2, <2>6
  <2>8. Distinct(X, a + 1) /\ Distinct(Y, b + 1)
    BY <1>4, <2>3, <2>4, <2>5 DEF DistinctLevels
  <2>9. a = b /\ SameUpTo(X, Y, a + 1)
    <3>1. Len(X) = a + 1 /\ Len(Y) = b + 1
      BY <2>4, <2>5
    <3>2. Len(NextLevel(X)) = Len(NextLevel(Y))
      BY <2>7
    <3>3. SameUpTo(NextLevel(X), NextLevel(Y), Len(NextLevel(X)))
      BY <2>7
    <3> QED BY <2>8, <3>1, <3>2, <3>3, LevelsUnder
  <2>10. Same(k)
    BY <2>4, <2>5, <2>9
  <2> QED BY <2>1, <2>10
<1>7. \A d \in Nat : d \in S
  <2> HIDE DEF S
  <2> QED BY <1>5, <1>6, Induction
<1>8. Same(1)
  <2>1. c \in S
    <3> HIDE DEF S
    <3> QED BY <1>2, <1>7
  <2>2. c <= c /\ (c - c) + 1 = 1
    BY <1>2
  <2> HIDE DEF Same
  <2>3. Same((c - c) + 1)
    BY <2>1, <2>2
  <2> QED BY <2>2, <2>3
<1> QED BY <1>2, <1>3, <1>8

\* The siblings of a leaf's path are nodes of its tree.
LEMMA PathOverNodes ==
  ASSUME NEW leaves, NEW n \in Nat \ {0}, n = Len(leaves), \A i \in 1..n : StartsTx(leaves[i]),
         NEW index \in 0..(n - 1), NEW p, p = MerklePath(BuildMerkleTree(leaves), index),
         NEW c, c = CeilLog2(n)
  PROVE  c \in Nat /\ Len(p) = c /\ \A k \in 1..c : StartsTx(p[k].Sibling)
<1>1. PICK L, I : L = BuildMerkleTree(leaves) /\ I = Indexes(L, index)
  OBVIOUS
<1>2. RunsFrom(index, L, c, I, p)
  BY <1>1, PathIs
<1>3. \A l \in 1..(c + 1) : \A i \in 1..Len(L[l]) : StartsTx(L[l][i])
  BY <1>1, NodesStartTx
<1>4. IsTree(L, leaves, c)
  BY <1>1, TreeLevels
<1>5. c \in Nat /\ Len(p) = c
  BY <1>2, <1>4 DEF RunsFrom, IsTree
<1>6. ASSUME NEW k \in 1..c PROVE StartsTx(p[k].Sibling)
  <2>1. k \in 1..(c + 1) /\ I[k] \in Nat /\ I[k] < Len(L[k]) /\ Len(L[k]) \in Nat
    <3>1. k \in 1..(c + 1)
      BY <1>5
    <3>2. I[k] \in Nat /\ I[k] < Len(L[k])
      BY <1>2, <3>1 DEF RunsFrom
    <3>3. Len(L[k]) \in Nat
      BY <1>4, <3>1 DEF IsTree
    <3> QED BY <3>1, <3>2, <3>3
  <2>2. CASE (I[k] % 2) = 1
    <3>1. I[k] \in 1..Len(L[k])
      BY <2>1, <2>2
    <3>2. p[k].Sibling = L[k][I[k]]
      BY <1>2, <2>2 DEF RunsFrom, PathElem
    <3> QED BY <1>3, <2>1, <3>1, <3>2
  <2>3. CASE (I[k] % 2) # 1
    <3> DEFINE j == IF I[k] + 1 < Len(L[k]) THEN I[k] + 2 ELSE I[k] + 1
    <3>1. j \in 1..Len(L[k])
      BY <2>1
    <3>2. p[k].Sibling = L[k][j]
      BY <1>2, <2>3 DEF RunsFrom, PathElem
    <3> HIDE DEF j
    <3> QED BY <1>3, <2>1, <3>1, <3>2
  <2> QED BY <2>2, <2>3
<1> QED BY <1>5, <1>6

\* Two lists of txids with one Merkle root have trees of one depth.
LEMMA RootsBindDepth ==
  ASSUME NEW A, NEW B, NEW n \in Nat \ {0}, NEW m \in Nat \ {0}, n = Len(A), m = Len(B),
         \A i \in 1..n : TxidLike(A[i]), \A i \in 1..m : TxidLike(B[i]),
         MerkleRoot(A) = MerkleRoot(B)
  PROVE  CeilLog2(n) = CeilLog2(m)
<1>1. PICK p, c : p = MerklePath(BuildMerkleTree(A), 0) /\ c = CeilLog2(n)
  OBVIOUS
<1>2. 0 \in 0..(n - 1) /\ 0 + 1 = 1 /\ 1 \in 1..n
  OBVIOUS
<1>3. c \in Nat /\ Len(p) = c /\ \A k \in 1..c : StartsTx(p[k].Sibling)
  <2>1. \A i \in 1..n : StartsTx(A[i])
    BY DEF TxidLike
  <2> QED BY <1>1, <1>2, <2>1, PathOverNodes
<1>4. Fold(A[1], p) = MerkleRoot(A)
  <2>1. Fold(A[0 + 1], p) = MerkleRoot(A)
    BY <1>1, <1>2, EveryLeafProvable
  <2> QED BY <1>2, <2>1
<1>5. c = CeilLog2(m)
  <2>1. TxidLike(A[1]) /\ Fold(A[1], p) = MerkleRoot(B)
    BY <1>2, <1>4
  <2> QED BY <1>3, <2>1, ShapesBindDepth
<1> QED BY <1>1, <1>5

\* So such a list is the only one with its root.
LEMMA RootBindsShapes ==
  ASSUME NEW A, NEW B, NEW n \in Nat \ {0}, NEW m \in Nat \ {0}, n = Len(A), m = Len(B),
         \A i \in 1..n : TxidLike(A[i]), \A i \in 1..m : TxidLike(B[i]),
         Distinct(A, n), Distinct(B, m),
         MerkleRoot(A) = MerkleRoot(B)
  PROVE  n = m /\ SameUpTo(A, B, n)
<1>1. CeilLog2(n) = CeilLog2(m)
  BY RootsBindDepth
<1> QED BY <1>1, SameRootSameList

\* The TXID of a transaction whose fields are ordinary.
OrdinaryTxid(x) ==
  \E n \in Nat \ {0} : \E fields :
    DOMAIN fields = 1..n /\ Ordinary(fields) /\ x = BuildMTxID(fields)

LEMMA OrdinaryIsLike ==
  ASSUME NEW x, OrdinaryTxid(x)
  PROVE  TxidLike(x)
<1>1. PICK n \in Nat \ {0} : \E fields :
        DOMAIN fields = 1..n /\ Ordinary(fields) /\ x = BuildMTxID(fields)
  BY DEF OrdinaryTxid
<1>2. PICK fields : DOMAIN fields = 1..n /\ Ordinary(fields) /\ x = BuildMTxID(fields)
  BY <1>1
<1>3. n \in Nat \ {0}
  OBVIOUS
<1> QED BY <1>2, <1>3, TxidIs

\* VerifySubtreePath: the root of a subtree of ordinary transactions tells how deep
\* it is.  A path that MerklePath gives in any subtree of ordinary transactions, from
\* a third one's TXID, ends at that root only if it is as long.  (If one of them
\* had a field of 63 bytes, its TXID could be a node inside the subtree.)
THEOREM RootBindsDepth ==
  ASSUME NEW leaves, NEW n \in Nat \ {0}, n = Len(leaves), \A i \in 1..n : OrdinaryTxid(leaves[i]),
         NEW others, NEW m \in Nat \ {0}, m = Len(others), \A i \in 1..m : OrdinaryTxid(others[i]),
         NEW index \in 0..(m - 1), NEW p, p = MerklePath(BuildMerkleTree(others), index),
         NEW x, OrdinaryTxid(x), Fold(x, p) = MerkleRoot(leaves)
  PROVE  Len(p) = CeilLog2(n)
<1>1. \A i \in 1..n : TxidLike(leaves[i])
  BY OrdinaryIsLike
<1>2. \A i \in 1..m : StartsTx(others[i])
  BY OrdinaryIsLike DEF TxidLike
<1>3. PICK c : c = CeilLog2(m)
  OBVIOUS
<1>4. c \in Nat /\ Len(p) = c /\ \A k \in 1..c : StartsTx(p[k].Sibling)
  BY <1>2, <1>3, PathOverNodes
<1>5. TxidLike(x)
  BY OrdinaryIsLike
<1>6. c = CeilLog2(n)
  BY <1>1, <1>4, <1>5, ShapesBindDepth
<1> QED BY <1>4, <1>6

\* SubtreeRoots: a Merkle root is the root of one list of distinct TXIDs of ordinary
\* transactions; no other such list, of whatever length and depth, has it.  (With a
\* field of 63 bytes one TXID may be the root of two others.)
THEOREM RootBindsTxids ==
  ASSUME NEW A, NEW B, NEW n \in Nat \ {0}, NEW m \in Nat \ {0}, n = Len(A), m = Len(B),
         \A i \in 1..n : OrdinaryTxid(A[i]), \A i \in 1..m : OrdinaryTxid(B[i]),
         Distinct(A, n), Distinct(B, m),
         MerkleRoot(A) = MerkleRoot(B)
  PROVE  n = m /\ SameUpTo(A, B, n)
<1>1. (\A i \in 1..n : TxidLike(A[i])) /\ \A i \in 1..m : TxidLike(B[i])
  BY OrdinaryIsLike
<1> QED BY <1>1, RootBindsShapes

\* The digest of a field that is not wide is of no pair, so the depth of a tree of
\* such fields is in its root too.
IsPair(x) == \E u, v : x = HashPair(u, v)

\* Down a tree whose leaves are no pairs, a path from what is no pair.
LEMMA LeavesBindDepth ==
  ASSUME NEW leaves, NEW n \in Nat \ {0}, n = Len(leaves), \A i \in 1..n : ~IsPair(leaves[i]),
         NEW x, ~IsPair(x), NEW p, NEW a \in Nat, Len(p) = a,
         Fold(x, p) = MerkleRoot(leaves)
  PROVE  a = CeilLog2(n)
<1>1. PICK L, c, node : L = BuildMerkleTree(leaves) /\ c = CeilLog2(n) /\ node = Climbed(x, p)
  OBVIOUS
<1>2. /\ c \in Nat /\ L[1] = leaves /\ \A l \in 1..c : L[l + 1] = NextLevel(L[l])
      /\ \A l \in 1..(c + 1) : Len(L[l]) \in Nat \ {0}
  <2>1. IsTree(L, leaves, c)
    BY <1>1, TreeLevels
  <2> QED BY <2>1 DEF IsTree
<1>3. \A d \in Nat : d <= a /\ d <= c =>
        \E i \in 1..Len(L[(c - d) + 1]) : node[a - d] = L[(c - d) + 1][i]
  <2>1. RunsDown(L, c, node, a)
    BY <1>1, PathInTree
  <2> QED BY <2>1 DEF RunsDown
<1>6. node[0] = x /\ \A k \in 1..a : node[k] = Parent(node[k - 1], p[k])
  BY <1>1, ClimbedIs
<1>7. ~(a < c)
  <2> SUFFICES ASSUME a < c PROVE FALSE
    OBVIOUS
  <2>1. PICK k \in 1..c : k = c - a
    <3>1. c - a \in 1..c
      BY <1>2
    <3> QED BY <3>1
  <2>2. PICK i \in 1..Len(L[k + 1]) : x = L[k + 1][i]
    <3>1. a <= a /\ a <= c /\ a - a = 0
      BY <1>2
    <3>2. \E i \in 1..Len(L[(c - a) + 1]) : node[a - a] = L[(c - a) + 1][i]
      BY <1>3, <3>1
    <3> QED BY <1>6, <2>1, <3>1, <3>2
  <2>3. PICK m \in Nat : Len(L[k]) = m + 1
    <3>1. k \in 1..(c + 1)
      BY <1>2
    <3>2. Len(L[k]) \in Nat \ {0}
      BY <1>2, <3>1
    <3>3. Len(L[k]) - 1 \in Nat /\ Len(L[k]) = (Len(L[k]) - 1) + 1
      BY <3>2
    <3> QED BY <3>3
  <2>4. L[k + 1] = NextLevel(L[k])
    BY <1>2
  <2> DEFINE j == IF 2*i <= m + 1 THEN 2*i ELSE 2*i - 1
  <2>5. i \in 1..((m \div 2) + 1) /\ L[k + 1][i] = HashPair(L[k][2*i - 1], L[k][j])
    <3>1. PICK level, up : level = L[k] /\ up = L[k + 1]
      OBVIOUS
    <3>2. Len(level) = m + 1 /\ up = NextLevel(level) /\ i \in 1..Len(up)
      BY <2>2, <2>3, <2>4, <3>1
    <3>3. IsPairOf(up, i, level, m)
      BY <3>2, NextLevelAt
    <3>4. i \in 1..((m \div 2) + 1) /\ up[i] = HashPair(level[2*i - 1], level[j])
      BY <3>3 DEF IsPairOf
    <3> HIDE DEF j
    <3> QED BY <3>1, <3>4
  <2> HIDE DEF j
  <2>8. x = HashPair(L[k][2*i - 1], L[k][j])
    BY <2>2, <2>5
  <2> QED BY <2>8 DEF IsPair
<1>8. ~(a > c)
  <2> SUFFICES ASSUME a > c PROVE FALSE
    OBVIOUS
  <2>1. PICK k \in 1..a : k = a - c
    <3>1. a - c \in 1..a
      BY <1>2
    <3> QED BY <3>1
  <2>2. PICK i \in 1..n : node[k] = leaves[i]
    <3>1. c <= a /\ c <= c /\ (c - c) + 1 = 1
      BY <1>2
    <3>2. \E i \in 1..Len(L[(c - c) + 1]) : node[a - c] = L[(c - c) + 1][i]
      BY <1>2, <1>3, <3>1
    <3> QED BY <1>2, <2>1, <3>1, <3>2
  <2>3. IsPair(node[k])
    BY <1>6 DEF Parent, IsPair
  <2> QED BY <2>2, <2>3
<1> QED BY <1>1, <1>2, <1>7, <1>8

\* BuildMTxID: a TXID is that of one list of ordinary fields, which carry their
\* places and have not 63 bytes.  (A wide field has the digest of two others.)
THEOREM TxidBindsFields ==
  ASSUME NEW F, NEW G, NEW n \in Nat \ {0}, NEW m \in Nat \ {0},
         DOMAIN F = 1..n, DOMAIN G = 1..m, Ordinary(F), Ordinary(G),
         BuildMTxID(F) = BuildMTxID(G)
  PROVE  n = m /\ SameUpTo(F, G, n)
<1>1. PICK A : A = [i \in 1..n |-> LeafForField(F[i])]
  OBVIOUS
<1>2. PICK B : B = [i \in 1..m |-> LeafForField(G[i])]
  OBVIOUS
<1>3. A = [i \in 1..n |-> A[i]] /\ \A i \in 1..n : A[i] = LeafForField(F[i])
  BY <1>1
<1>4. B = [i \in 1..m |-> B[i]] /\ \A i \in 1..m : B[i] = LeafForField(G[i])
  BY <1>2
<1>5. Len(A) = n
  BY <1>3, FunctionsAreSeqs
<1>6. Len(B) = m
  BY <1>4, FunctionsAreSeqs
<1>7. MerkleRoot(A) = BuildMTxID(F)
  BY <1>1 DEF BuildMTxID, FieldLayers, MerkleRoot
<1>8. MerkleRoot(B) = BuildMTxID(G)
  BY <1>2 DEF BuildMTxID, FieldLayers, MerkleRoot
<1>w. /\ Indexed(F) /\ \A i \in 1..n : ~IsWide(F[i])
      /\ Indexed(G) /\ \A i \in 1..m : ~IsWide(G[i])
  BY DEF Ordinary
<1>9. \A f : ~IsWide(f) => ~IsPair(LeafForField(f))
  <2> SUFFICES ASSUME NEW f, ~IsWide(f), NEW u, NEW v, LeafForField(f) = HashPair(u, v) PROVE FALSE
    BY DEF IsPair
  <2>1. <<f>> = <<u, v>>
    BY DEF LeafForField, DoubleSHA256, HashPair
  <2> QED BY <2>1
<1>10. \A f, g : ~IsWide(f) /\ ~IsWide(g) /\ LeafForField(f) = LeafForField(g) => f = g
  BY DEF LeafForField, DoubleSHA256
<1>11. PICK p, a : p = MerklePath(BuildMerkleTree(A), 0) /\ a = CeilLog2(n)
  OBVIOUS
<1>12. a \in Nat
  BY <1>11, CeilLog2Is
<1>13. Len(p) = a /\ Fold(A[1], p) = MerkleRoot(A)
  <2>1. 0 \in 0..(n - 1) /\ 0 + 1 = 1
    OBVIOUS
  <2>2. Len(p) = a /\ Fold(A[0 + 1], p) = MerkleRoot(A)
    BY <1>5, <1>11, <2>1, EveryLeafProvable
  <2> QED BY <2>1, <2>2
<1>14. a = CeilLog2(m)
  <2>1. \A i \in 1..m : ~IsPair(B[i])
    BY <1>4, <1>9, <1>w
  <2>2. ~IsPair(A[1])
    BY <1>3, <1>9, <1>w
  <2>3. Fold(A[1], p) = MerkleRoot(B)
    BY <1>7, <1>8, <1>13
  <2>4. Len(p) = a
    BY <1>13
  <2> QED BY <1>6, <1>12, <2>1, <2>2, <2>3, <2>4, LeavesBindDepth
<1>15. Distinct(A, n)
  <2> SUFFICES ASSUME NEW i \in 1..n, NEW j \in 1..n, A[i] = A[j] PROVE i = j
    BY DEF Distinct
  <2>1. F[i] = F[j]
    BY <1>3, <1>10, <1>w
  <2>2. F[i].Index = i - 1 /\ F[j].Index = j - 1
    BY <1>w DEF Indexed
  <2>3. i - 1 = j - 1
    BY <2>1, <2>2
  <2> QED BY <2>3
<1>16. Distinct(B, m)
  <2> SUFFICES ASSUME NEW i \in 1..m, NEW j \in 1..m, B[i] = B[j] PROVE i = j
    BY DEF Distinct
  <2>1. G[i] = G[j]
    BY <1>4, <1>10, <1>w
  <2>2. G[i].Index = i - 1 /\ G[j].Index = j - 1
    BY <1>w DEF Indexed
  <2>3. i - 1 = j - 1
    BY <2>1, <2>2
  <2> QED BY <2>3
<1>17. CeilLog2(n) = CeilLog2(m) /\ MerkleRoot(A) = MerkleRoot(B)
  BY <1>7, <1>8, <1>11, <1>14
<1>18. n = m /\ SameUpTo(A, B, n)
  BY <1>5, <1>6, <1>15, <1>16, <1>17, SameRootSameList
<1>19. \A i \in 1..n : A[i] = B[i] /\ ~IsWide(F[i]) /\ ~IsWide(G[i])
  BY <1>18, <1>w DEF SameUpTo
<1>20. \A i \in 1..n : A[i] = LeafForField(F[i]) /\ B[i] = LeafForField(G[i])
  BY <1>3, <1>4, <1>18
<1>21. \A i \in 1..n : F[i] = G[i]
  BY <1>10, <1>19, <1>20
<1> QED BY <1>18, <1>21 DEF SameUpTo

-----------------------------------------------------------------------------
(***************************************************************************)
(* The recursive functions of MMR are what their equations say             *)
(***************************************************************************)
\* Weights is what its definition says: one, doubled again and again.
LEMMA WeightsAre ==
  ASSUME NEW len \in Nat
  PROVE  /\ Weights(len)[0] = 1
         /\ \A b \in 1..len : Weights(len)[b] = 2 * Weights(len)[b - 1]
         /\ \A b \in 0..len : Weights(len)[b] \in Nat \ {0}
<1> DEFINE N(f, n) == [b \in 0..n |-> IF b = 0 THEN 1 ELSE 2 * f[b - 1]]
           S == {n \in Nat : \E f : f = N(f, n)}
<1>1. 0 \in S
  <2> DEFINE f == [k \in 0..0 |-> 1]
  <2>1. f = N(f, 0)
    OBVIOUS
  <2> QED BY <2>1
<1>2. ASSUME NEW n \in Nat, n \in S PROVE n + 1 \in S
  <2>1. PICK f : f = N(f, n)
    BY <1>2
  <2> DEFINE g == [k \in 0..(n + 1) |-> IF k <= n THEN f[k] ELSE 2 * f[n]]
  <2>2. \A k \in 0..n : f[k] = IF k = 0 THEN 1 ELSE 2 * f[k - 1]
    BY <2>1
  <2>3. ASSUME NEW k \in 0..(n + 1)
        PROVE  g[k] = IF k = 0 THEN 1 ELSE 2 * g[k - 1]
    <3>1. CASE k <= n
      BY <2>2, <3>1
    <3>2. CASE k = n + 1
      BY <3>2
    <3> QED BY <3>1, <3>2
  <2>4. g = [k \in 0..(n + 1) |-> g[k]]
    OBVIOUS
  <2> HIDE DEF g
  <2>5. g = N(g, n + 1)
    BY <2>3, <2>4
  <2> QED
    <3> HIDE DEF N
    <3> QED BY <2>5
<1>3. \A n \in Nat : n \in S
  <2> HIDE DEF S
  <2> QED BY <1>1, <1>2, Induction
<1>4. \E f : f = N(f, len)
  BY <1>3
<1> DEFINE w == Weights(len)
<1>5. w = CHOOSE f : f = N(f, len)
  BY DEF Weights
<1>6. w = N(w, len)
  <2> HIDE DEF N, w
  <2> QED BY <1>4, <1>5
<1> HIDE DEF w
<1>7. w[0] = 1 /\ \A b \in 1..len : w[b] = 2 * w[b - 1]
  BY <1>6
<1> DEFINE Q == {b \in Nat : b <= len => w[b] \in Nat \ {0}}
<1>8. 0 \in Q
  BY <1>7
<1>9. ASSUME NEW b \in Nat, b \in Q PROVE b + 1 \in Q
  <2> SUFFICES ASSUME b + 1 <= len PROVE w[b + 1] \in Nat \ {0}
    OBVIOUS
  <2>1. w[b] \in Nat \ {0} /\ b + 1 \in 1..len /\ (b + 1) - 1 = b
    BY <1>9
  <2>2. w[b + 1] = 2 * w[b]
    BY <1>7, <2>1
  <2> QED BY <2>1, <2>2
<1>10. \A b \in Nat : b \in Q
  <2> HIDE DEF Q
  <2> QED BY <1>8, <1>9, Induction
<1> QED BY <1>7, <1>10 DEF w

\* The bits of a number: c of them, and what is left after each shift.
AreBits(n, c, X) ==
  /\ c \in Nat /\ X[0] = n /\ X[c] = 0
  /\ \A k \in 0..c : X[k] \in Nat
  /\ \A k \in 1..c : X[k - 1] % 2 \in {0, 1} /\ X[k - 1] = 2 * X[k] + (X[k - 1] % 2)

LEMMA BitsOf ==
  ASSUME NEW n \in Nat, NEW c, c = CeilLog2(n + 1), NEW X, X = Shifted(n)
  PROVE  AreBits(n, c, X)
<1>1. n + 1 \in Nat \ {0} /\ (n + 1) - 1 = n
  OBVIOUS
<1>2. c \in 0..n /\ X[c] = 0
  BY <1>1, CeilLog2Is
<1>3. X[0] = n /\ \A k \in 1..n : X[k] = X[k - 1] \div 2
  BY ShiftedIs
<1>4. \A k \in 0..n : X[k] \in Nat
  BY ShiftedShrinks
<1>5. ASSUME NEW k \in 1..c
      PROVE  X[k - 1] % 2 \in {0, 1} /\ X[k - 1] = 2 * X[k] + (X[k - 1] % 2)
  <2>1. PICK x \in Nat : x = X[k - 1]
    BY <1>2, <1>4
  <2>2. X[k] = x \div 2
    BY <1>2, <1>3, <2>1
  <2>3. x % 2 \in {0, 1} /\ x = 2 * (x \div 2) + (x % 2)
    OBVIOUS
  <2> QED BY <2>1, <2>2, <2>3
<1>6. \A k \in 0..c : X[k] \in Nat
  BY <1>2, <1>4
<1> QED BY <1>2, <1>3, <1>5, <1>6 DEF AreBits

\* The sizes taken, bit by bit.
LEMMA SizesTakenAre ==
  ASSUME NEW n \in Nat, NEW c \in Nat, c = CeilLog2(n + 1)
  PROVE  LET taken == SizesTaken(n)
         IN  /\ taken[0] = << >>
             /\ \A k \in 1..c :
                  taken[k] = IF Shifted(n)[c - k] % 2 = 1
                             THEN Append(taken[k - 1], Weights(c)[c - k])
                             ELSE taken[k - 1]
<1> DEFINE Step(s, k) == IF Shifted(n)[c - k] % 2 = 1 THEN Append(s, Weights(c)[c - k]) ELSE s
           N(f, m) == [k \in 0..m |-> IF k = 0 THEN << >> ELSE Step(f[k - 1], k)]
           S == {m \in Nat : \E f : f = N(f, m)}
<1>0. \E f : f = N(f, c)
  <2> HIDE DEF Step
  <2>1. 0 \in S
    <3> DEFINE f == [k \in 0..0 |-> << >>]
    <3>1. f = N(f, 0)
      OBVIOUS
    <3> QED BY <3>1
  <2>2. ASSUME NEW m \in Nat, m \in S PROVE m + 1 \in S
    <3>1. PICK f : f = N(f, m)
      BY <2>2
    <3> DEFINE g == [k \in 0..(m + 1) |-> IF k <= m THEN f[k] ELSE Step(f[m], m + 1)]
    <3>2. \A k \in 0..m : f[k] = IF k = 0 THEN << >> ELSE Step(f[k - 1], k)
      BY <3>1
    <3>3. ASSUME NEW k \in 0..(m + 1)
          PROVE  g[k] = IF k = 0 THEN << >> ELSE Step(g[k - 1], k)
      <4>1. CASE k <= m
        BY <3>2, <4>1
      <4>2. CASE k = m + 1
        BY <4>2
      <4> QED BY <4>1, <4>2
    <3>4. g = [k \in 0..(m + 1) |-> g[k]]
      OBVIOUS
    <3> HIDE DEF g
    <3>5. g = N(g, m + 1)
      BY <3>3, <3>4
    <3> HIDE DEF N
    <3> QED BY <3>5
  <2>3. \A m \in Nat : m \in S
    <3> HIDE DEF S
    <3> QED BY <2>1, <2>2, Induction
  <2> QED BY <2>3
<1> DEFINE t == SizesTaken(n)
<1>1. t = CHOOSE f : f = N(f, c)
  BY DEF SizesTaken
<1>2. t = N(t, c)
  <2> HIDE DEF N, t
  <2> QED BY <1>0, <1>1
<1> HIDE DEF t
<1>3. t[0] = << >> /\ \A k \in 1..c : t[k] = Step(t[k - 1], k)
  <2> HIDE DEF Step
  <2> QED BY <1>2
<1> QED BY <1>3 DEF t

\* The ends of the mountains are the sums of their sizes.
IsSums(s, m, e) ==
  /\ m \in Nat /\ Len(s) = m /\ e[0] = 0
  /\ \A k \in 1..m : e[k] = e[k - 1] + s[k]

LEMMA EndsAre ==
  ASSUME NEW s, NEW m \in Nat, m = Len(s)
  PROVE  IsSums(s, m, MountainEnds(s))
<1> DEFINE N(f, n) == [k \in 0..n |-> IF k = 0 THEN 0 ELSE f[k - 1] + s[k]]
           S == {n \in Nat : \E f : f = N(f, n)}
<1>1. 0 \in S
  <2> DEFINE f == [k \in 0..0 |-> 0]
  <2>1. f = N(f, 0)
    OBVIOUS
  <2> QED BY <2>1
<1>2. ASSUME NEW n \in Nat, n \in S PROVE n + 1 \in S
  <2>1. PICK f : f = N(f, n)
    BY <1>2
  <2> DEFINE g == [k \in 0..(n + 1) |-> IF k <= n THEN f[k] ELSE f[n] + s[n + 1]]
  <2>2. \A k \in 0..n : f[k] = IF k = 0 THEN 0 ELSE f[k - 1] + s[k]
    BY <2>1
  <2>3. ASSUME NEW k \in 0..(n + 1)
        PROVE  g[k] = IF k = 0 THEN 0 ELSE g[k - 1] + s[k]
    <3>1. CASE k <= n
      BY <2>2, <3>1
    <3>2. CASE k = n + 1
      BY <3>2
    <3> QED BY <3>1, <3>2
  <2>4. g = [k \in 0..(n + 1) |-> g[k]]
    OBVIOUS
  <2> HIDE DEF g
  <2>5. g = N(g, n + 1)
    BY <2>3, <2>4
  <2> QED BY <2>5
<1>3. \A n \in Nat : n \in S
  <2> HIDE DEF S
  <2> QED BY <1>1, <1>2, Induction
<1>4. \E f : f = N(f, m)
  BY <1>3
<1> DEFINE e == MountainEnds(s)
<1>5. e = CHOOSE f : f = N(f, m)
  BY DEF MountainEnds
<1>6. e = N(e, m)
  <2> HIDE DEF N, e
  <2> QED BY <1>4, <1>5
<1> HIDE DEF e
<1>7. e[0] = 0 /\ \A k \in 1..m : e[k] = e[k - 1] + s[k]
  BY <1>6
<1> QED BY <1>7 DEF e, IsSums

LEMMA SumsAreOne ==
  ASSUME NEW s, NEW m, NEW e, NEW f, IsSums(s, m, e), IsSums(s, m, f)
  PROVE  \A k \in 0..m : e[k] = f[k]
<1> DEFINE S == {k \in Nat : k <= m => e[k] = f[k]}
<1>1. 0 \in S
  BY DEF IsSums
<1>2. ASSUME NEW k \in Nat, k \in S PROVE k + 1 \in S
  <2> SUFFICES ASSUME k + 1 <= m PROVE e[k + 1] = f[k + 1]
    OBVIOUS
  <2>1. m \in Nat /\ k + 1 \in 1..m /\ (k + 1) - 1 = k /\ k <= m
    BY DEF IsSums
  <2>2. e[k + 1] = e[k] + s[k + 1] /\ f[k + 1] = f[k] + s[k + 1]
    BY <2>1 DEF IsSums
  <2> QED BY <1>2, <2>1, <2>2
<1>3. \A k \in Nat : k \in S
  <2> HIDE DEF S
  <2> QED BY <1>1, <1>2, Induction
<1> QED BY <1>3 DEF IsSums

LEMMA SumsGrow ==
  ASSUME NEW s, NEW m, NEW e, IsSums(s, m, e), \A k \in 1..m : s[k] \in Nat
  PROVE  \A k \in 0..m : e[k] \in Nat /\ \A j \in 0..k : e[j] \in Nat /\ e[j] <= e[k]
<1> DEFINE Grown(k) == \A j \in 0..k : e[j] \in Nat /\ e[j] <= e[k]
           S == {k \in Nat : k <= m => Grown(k)}
<1>1. 0 \in S
  BY DEF IsSums
<1>2. ASSUME NEW k \in Nat, k \in S PROVE k + 1 \in S
  <2> SUFFICES ASSUME k + 1 <= m PROVE Grown(k + 1)
    OBVIOUS
  <2>1. m \in Nat /\ k + 1 \in 1..m /\ (k + 1) - 1 = k /\ k <= m
    BY DEF IsSums
  <2>2. e[k + 1] = e[k] + s[k + 1] /\ s[k + 1] \in Nat
    BY <2>1 DEF IsSums
  <2>3. e[k] \in Nat /\ \A j \in 0..k : e[j] \in Nat /\ e[j] <= e[k]
    BY <1>2, <2>1
  <2>4. e[k + 1] \in Nat /\ e[k] <= e[k + 1]
    BY <2>2, <2>3
  <2>5. ASSUME NEW j \in 0..(k + 1) PROVE e[j] \in Nat /\ e[j] <= e[k + 1]
    <3>1. CASE j = k + 1
      BY <2>4, <3>1
    <3>2. CASE j \in 0..k
      BY <2>3, <2>4, <3>2
    <3> QED BY <3>1, <3>2
  <2> QED BY <2>5
<1>3. \A k \in Nat : k \in S
  <2> HIDE DEF S
  <2> QED BY <1>1, <1>2, Induction
<1> QED BY <1>3 DEF IsSums

\* The mountains of n leaves: at most as many as n has bits, each a power of
\* two, the one starting where the last one ends, and the last one at n.
AreMountains(sizes, m, e, n, c) ==
  /\ c \in Nat /\ m \in Nat /\ m <= c
  /\ sizes \in Seq(Nat) /\ IsSums(sizes, m, e) /\ e[m] = n
  /\ \A k \in 1..m : \E b \in 0..c : sizes[k] = Weights(c)[b]

LEMMA MountainsAre ==
  ASSUME NEW n \in Nat, NEW c, c = CeilLog2(n + 1), NEW sizes, sizes = MountainSizes(n),
         NEW m, m = Len(sizes), NEW e, e = MountainEnds(sizes)
  PROVE  AreMountains(sizes, m, e, n, c)
<1>1. PICK X : X = Shifted(n)
  OBVIOUS
<1>2. AreBits(n, c, X)
  BY <1>1, BitsOf
<1>3. c \in Nat
  BY <1>2 DEF AreBits
<1>4. PICK w : w = Weights(c)
  OBVIOUS
<1>5. w[0] = 1 /\ (\A b \in 1..c : w[b] = 2 * w[b - 1]) /\ (\A b \in 0..c : w[b] \in Nat \ {0})
  BY <1>3, <1>4, WeightsAre
<1>6. PICK t : t = SizesTaken(n)
  OBVIOUS
<1>7. t[0] = << >> /\ \A k \in 1..c : t[k] = IF X[c - k] % 2 = 1 THEN Append(t[k - 1], w[c - k]) ELSE t[k - 1]
  BY <1>1, <1>3, <1>4, <1>6, SizesTakenAre
<1> DEFINE Taken(k) == \E f, l : /\ t[k] \in Seq(Nat) /\ IsSums(t[k], l, f) /\ l <= k
                                 /\ f[l] = X[c - k] * w[c - k]
                                 /\ \A j \in 1..l : \E b \in 0..c : t[k][j] = w[b]
           S == {k \in Nat : k <= c => Taken(k)}
<1> HIDE DEF Taken
<1>8. 0 \in S
  <2>1. PICK f : f = [k \in 0..0 |-> 0]
    OBVIOUS
  <2>2. IsSums(<< >>, 0, f)
    BY <2>1 DEF IsSums
  <2>3. f[0] = X[c - 0] * w[c - 0]
    <3>1. X[c - 0] = 0 /\ w[c - 0] \in Nat
      BY <1>2, <1>3, <1>5 DEF AreBits
    <3> QED BY <2>1, <3>1
  <2>4. << >> \in Seq(Nat) /\ 0 <= 0 /\ \A j \in 1..0 : FALSE
    OBVIOUS
  <2>5. Taken(0)
    BY <1>7, <2>2, <2>3, <2>4 DEF Taken
  <2> QED BY <2>5
<1>9. ASSUME NEW k \in Nat, k \in S PROVE k + 1 \in S
  <2> SUFFICES ASSUME k + 1 <= c PROVE Taken(k + 1)
    OBVIOUS
  <2>1. PICK d \in Nat : d = c - (k + 1)
    BY <1>3
  <2>2. c - k = d + 1 /\ d + 1 \in 1..c /\ (d + 1) - 1 = d /\ d \in 0..c
    BY <1>3, <2>1
  <2>3. Taken(k)
    BY <1>9, <1>3
  <2>4. PICK f, l : /\ t[k] \in Seq(Nat) /\ IsSums(t[k], l, f) /\ l <= k
                    /\ f[l] = X[c - k] * w[c - k]
                    /\ \A j \in 1..l : \E b \in 0..c : t[k][j] = w[b]
    BY <2>3 DEF Taken
  <2>5. PICK x \in Nat : x = X[d + 1]
    <3>1. d + 1 \in 0..c
      BY <2>2
    <3>2. X[d + 1] \in Nat
      BY <1>2, <3>1 DEF AreBits
    <3> QED BY <3>2
  <2>6. PICK y \in Nat : y = X[d]
    <3>1. X[d] \in Nat
      BY <1>2, <2>2 DEF AreBits
    <3> QED BY <3>1
  <2>7. PICK v \in Nat \ {0} : v = w[d]
    <3>1. w[d] \in Nat \ {0}
      BY <1>5, <2>2
    <3> QED BY <3>1
  <2>8. w[d + 1] = 2 * v
    BY <1>5, <2>2, <2>7
  <2>9. y % 2 \in {0, 1} /\ y = 2 * x + (y % 2)
    BY <1>2, <2>2, <2>5, <2>6 DEF AreBits
  <2>10. f[l] = x * (2 * v)
    BY <2>2, <2>4, <2>5, <2>8
  <2>11. l \in Nat /\ Len(t[k]) = l
    BY <2>4 DEF IsSums
  <2>12. t[k + 1] = IF y % 2 = 1 THEN Append(t[k], v) ELSE t[k]
    <3>1. k + 1 \in 1..c /\ (k + 1) - 1 = k /\ c - (k + 1) = d
      BY <2>1, <1>3
    <3> QED BY <1>7, <2>6, <2>7, <3>1
  <2>13. CASE y % 2 = 1
    <3>1. PICK g : g = [j \in 0..(l + 1) |-> IF j <= l THEN f[j] ELSE f[l] + v]
      OBVIOUS
    <3>2. PICK s : s = Append(t[k], v)
      OBVIOUS
    <3>3. s \in Seq(Nat) /\ Len(s) = l + 1 /\ s[l + 1] = v /\ \A j \in 1..l : s[j] = t[k][j]
      <4>1. PICK u \in Seq(Nat) : u = t[k] /\ Len(u) = l
        BY <2>4, <2>11 DEF IsSums
      <4>2. s = Append(u, v) /\ v \in Nat
        BY <2>11, <3>2, <4>1
      <4>3. s \in Seq(Nat) /\ Len(s) = l + 1 /\ s[l + 1] = v /\ \A j \in 1..l : s[j] = u[j]
        BY <4>1, <4>2
      <4> QED BY <4>1, <4>3
    <3>4. g[0] = 0 /\ g[l + 1] = f[l] + v /\ \A j \in 0..l : g[j] = f[j]
      BY <2>4, <2>11, <3>1 DEF IsSums
    <3>5. \A j \in 1..(l + 1) : j = l + 1 \/ (j \in 1..l /\ j - 1 \in 0..l /\ j \in 0..l)
      BY <2>11
    <3>6. l \in 0..l /\ (l + 1) - 1 = l
      BY <2>11
    <3>7. \A j \in 1..(l + 1) : g[j] = g[j - 1] + s[j]
      <4> SUFFICES ASSUME NEW j \in 1..(l + 1) PROVE g[j] = g[j - 1] + s[j]
        OBVIOUS
      <4>1. CASE j = l + 1
        BY <3>3, <3>4, <3>6, <4>1
      <4>2. CASE j \in 1..l
        <5>1. f[j] = f[j - 1] + t[k][j]
          BY <2>4, <4>2 DEF IsSums
        <5>2. j \in 0..l /\ j - 1 \in 0..l
          BY <2>11, <4>2
        <5> QED BY <3>3, <3>4, <4>2, <5>1, <5>2
      <4> QED BY <3>5, <4>1, <4>2
    <3>8. IsSums(s, l + 1, g)
      BY <2>11, <3>3, <3>4, <3>7 DEF IsSums
    <3>9. g[l + 1] = y * v
      <4>1. y = 2 * x + 1
        BY <2>9, <2>13
      <4>2. g[l + 1] = x * (2 * v) + v
        BY <2>10, <3>4
      <4>3. (2 * x + 1) * v = x * (2 * v) + v
        OBVIOUS
      <4> QED BY <4>1, <4>2, <4>3
    <3>10. ASSUME NEW j \in 1..(l + 1) PROVE \E b \in 0..c : s[j] = w[b]
      <4>1. CASE j = l + 1
        <5>1. s[j] = w[d] /\ d \in 0..c
          BY <2>2, <2>7, <3>3, <4>1
        <5> QED BY <5>1
      <4>2. CASE j \in 1..l
        <5>1. s[j] = t[k][j]
          BY <3>3, <4>2
        <5>2. \E b \in 0..c : t[k][j] = w[b]
          BY <2>4, <4>2
        <5> QED BY <5>1, <5>2
      <4> QED BY <3>5, <4>1, <4>2
    <3>11. l + 1 <= k + 1
      BY <2>4, <2>11
    <3>12. t[k + 1] = s /\ X[c - (k + 1)] = y /\ w[c - (k + 1)] = v
      BY <2>1, <2>6, <2>7, <2>12, <2>13, <3>2
    <3>13. s \in Seq(Nat) /\ g[l + 1] = X[c - (k + 1)] * w[c - (k + 1)]
      BY <3>3, <3>9, <3>12
    <3>14. PICK o : o = l + 1
      OBVIOUS
    <3>15. /\ t[k + 1] \in Seq(Nat) /\ IsSums(t[k + 1], o, g) /\ o <= k + 1
           /\ g[o] = X[c - (k + 1)] * w[c - (k + 1)]
           /\ \A j \in 1..o : \E b \in 0..c : t[k + 1][j] = w[b]
      BY <3>8, <3>10, <3>11, <3>12, <3>13, <3>14, Zenon
    <3> QED BY <3>15, Zenon DEF Taken
  <2>14. CASE y % 2 = 0
    <3>1. f[l] = y * v
      <4>1. y = 2 * x
        BY <2>9, <2>14
      <4>2. (2 * x) * v = x * (2 * v)
        OBVIOUS
      <4> QED BY <2>10, <4>1, <4>2
    <3>2. l <= k + 1
      BY <2>4, <2>11
    <3>3. t[k + 1] = t[k] /\ X[c - (k + 1)] = y /\ w[c - (k + 1)] = v
      BY <2>1, <2>6, <2>7, <2>12, <2>14
    <3> QED BY <2>4, <3>1, <3>2, <3>3 DEF Taken
  <2> QED BY <2>9, <2>13, <2>14
<1>10. \A k \in Nat : k \in S
  <2> HIDE DEF S
  <2> QED BY <1>8, <1>9, Induction
<1>11. Taken(c)
  <2>1. c \in S
    <3> HIDE DEF S
    <3> QED BY <1>3, <1>10
  <2> QED BY <1>3, <2>1
<1>12. PICK f, l : /\ t[c] \in Seq(Nat) /\ IsSums(t[c], l, f) /\ l <= c
                   /\ f[l] = X[c - c] * w[c - c]
                   /\ \A j \in 1..l : \E b \in 0..c : t[c][j] = w[b]
  BY <1>11 DEF Taken
<1>13. t[c] = sizes /\ l = m /\ m \in Nat
  BY <1>6, <1>12 DEF MountainSizes, IsSums
<1>14. f[m] = n
  <2>1. X[c - c] = n /\ w[c - c] = 1
    BY <1>2, <1>3, <1>5 DEF AreBits
  <2>2. n * 1 = n
    OBVIOUS
  <2> QED BY <1>12, <1>13, <2>1, <2>2
<1>15. IsSums(sizes, m, e)
  BY <1>13, EndsAre
<1>16. e[m] = n
  <2>1. m \in 0..m
    BY <1>13
  <2>2. IsSums(sizes, m, f)
    BY <1>12, <1>13
  <2>3. \A k \in 0..m : e[k] = f[k]
    BY <1>15, <2>2, SumsAreOne
  <2> QED BY <1>14, <2>1, <2>3
<1> QED BY <1>3, <1>4, <1>12, <1>13, <1>15, <1>16 DEF AreMountains

\* A tree over a power of two of leaves: every level is full, no node is
\* paired with itself.
IsPerfect(L, mtn, b, w) ==
  /\ L[1] = mtn /\ MerkleRoot(mtn) = L[b + 1][1]
  /\ \A l \in 1..(b + 1) : Len(L[l]) = w[b - (l - 1)]
  /\ \A l \in 1..b : \A i \in 1..Len(L[l + 1]) :
       2 * i <= Len(L[l]) /\ L[l + 1][i] = HashPair(L[l][2*i - 1], L[l][2*i])

LEMMA PerfectTree ==
  ASSUME NEW c \in Nat, NEW w, w = Weights(c), NEW b \in 0..c,
         NEW mtn, Len(mtn) = w[b], NEW L, L = BuildMerkleTree(mtn)
  PROVE  CeilLog2(w[b]) = b /\ IsPerfect(L, mtn, b, w)
<1>1. w[0] = 1 /\ (\A k \in 1..c : w[k] = 2 * w[k - 1]) /\ (\A k \in 0..c : w[k] \in Nat \ {0})
  BY WeightsAre
<1>2. \A k \in 0..c : w[k] >= k + 1
  <2> DEFINE S == {k \in Nat : k <= c => w[k] >= k + 1}
  <2>1. 0 \in S
    BY <1>1
  <2>2. ASSUME NEW k \in Nat, k \in S PROVE k + 1 \in S
    <3> SUFFICES ASSUME k + 1 <= c PROVE w[k + 1] >= (k + 1) + 1
      OBVIOUS
    <3>1. k + 1 \in 1..c /\ (k + 1) - 1 = k /\ k \in 0..c
      OBVIOUS
    <3>2. w[k] >= k + 1 /\ w[k] \in Nat /\ w[k + 1] = 2 * w[k]
      BY <1>1, <2>2, <3>1
    <3> QED BY <3>2
  <2>3. \A k \in Nat : k \in S
    <3> HIDE DEF S
    <3> QED BY <2>1, <2>2, Induction
  <2> QED BY <2>3
<1>3. PICK n \in Nat \ {0} : n = w[b]
  BY <1>1
<1>4. b \in Nat /\ b <= n - 1 /\ n - 1 \in Nat
  BY <1>2, <1>3
<1>5. PICK X : X = Shifted(n - 1)
  OBVIOUS
<1>6. X[0] = n - 1 /\ \A k \in 1..(n - 1) : X[k] = X[k - 1] \div 2
  BY <1>4, <1>5, ShiftedIs
<1>7. \A k \in 0..b : X[k] = w[b - k] - 1
  <2> DEFINE S == {k \in Nat : k <= b => X[k] = w[b - k] - 1}
  <2>1. 0 \in S
    BY <1>3, <1>6
  <2>2. ASSUME NEW k \in Nat, k \in S PROVE k + 1 \in S
    <3> SUFFICES ASSUME k + 1 <= b PROVE X[k + 1] = w[b - (k + 1)] - 1
      OBVIOUS
    <3>1. PICK d \in Nat : d = b - (k + 1)
      BY <1>4
    <3>2. b - k = d + 1 /\ d + 1 \in 1..c /\ (d + 1) - 1 = d /\ d \in 0..c
      BY <1>4, <3>1
    <3>3. PICK v \in Nat \ {0} : v = w[d]
      BY <1>1, <3>2
    <3>4. X[k] = 2 * v - 1
      BY <1>1, <1>4, <2>2, <3>2, <3>3
    <3>5. k + 1 \in 1..(n - 1) /\ (k + 1) - 1 = k
      BY <1>4
    <3>6. X[k + 1] = (2 * v - 1) \div 2
      BY <1>6, <3>4, <3>5
    <3>7. (2 * v - 1) \div 2 = v - 1
      OBVIOUS
    <3> QED BY <3>1, <3>3, <3>6, <3>7
  <2>3. \A k \in Nat : k \in S
    <3> HIDE DEF S
    <3> QED BY <2>1, <2>2, Induction
  <2> QED BY <2>3
<1>8. PICK cc \in 0..(n - 1) : cc = CeilLog2(n)
  <2>1. CeilLog2(n) \in 0..(n - 1)
    BY CeilLog2Is
  <2> QED BY <2>1
<1>9. X[cc] = 0 /\ (cc # 0 => X[cc - 1] # 0)
  BY <1>5, <1>8, CeilLog2Is
<1>10. cc = b
  <2>1. CASE cc < b
    <3>1. PICK d \in 0..c : d = b - cc /\ d >= 1
      BY <1>4, <2>1
    <3>2. X[cc] = w[d] - 1
      BY <1>4, <1>7, <2>1, <3>1
    <3>3. w[d] \in Nat /\ w[d] >= d + 1
      BY <1>1, <1>2
    <3> QED BY <1>9, <3>1, <3>2, <3>3
  <2>2. CASE b < cc
    <3>1. X[b] = 0
      <4>1. X[b] = w[b - b] - 1 /\ b - b = 0
        BY <1>4, <1>7
      <4> QED BY <1>1, <4>1
    <3>2. b \in 0..(n - 1) /\ cc - 1 \in b..(n - 1)
      BY <1>4, <2>2
    <3>3. X[cc - 1] = 0
      BY <1>4, <1>5, <3>1, <3>2, ShiftedStaysZero
    <3> QED BY <1>4, <1>9, <2>2, <3>3
  <2> QED BY <1>4, <2>1, <2>2
<1>11. /\ L[1] = mtn /\ \A l \in 1..b : L[l + 1] = NextLevel(L[l])
       /\ \A l \in 1..(b + 1) : Len(L[l]) = X[l - 1] + 1
  <2>1. Len(mtn) = n /\ Len(mtn) \in Nat \ {0} /\ CeilLog2(Len(mtn)) = b
    BY <1>3, <1>8, <1>10
  <2>2. PICK M, d, f, k : /\ M = BuildMerkleTree(mtn) /\ k = Len(mtn) /\ d = CeilLog2(k)
                          /\ f = Shifted(k - 1)
    OBVIOUS
  <2>3. /\ M[1] = mtn /\ \A l \in 1..d : M[l + 1] = NextLevel(M[l])
        /\ \A l \in 1..(d + 1) : Len(M[l]) = f[l - 1] + 1
    <3>1. k \in Nat \ {0}
      BY <2>1, <2>2
    <3>2. HasSizes(mtn, k, M, d, f)
      BY <2>2, <3>1, LayerSizes
    <3> QED BY <3>2 DEF HasSizes
  <2> QED BY <1>5, <2>1, <2>2, <2>3
<1>12. MerkleRoot(mtn) = L[b + 1][1]
  <2>1. IsTree(L, mtn, b)
    BY <1>3, <1>8, <1>10, TreeLevels
  <2> QED BY <2>1 DEF IsTree
<1>13. \A l \in 1..(b + 1) : Len(L[l]) = w[b - (l - 1)] /\ w[b - (l - 1)] \in Nat \ {0}
  <2> SUFFICES ASSUME NEW l \in 1..(b + 1)
               PROVE  Len(L[l]) = w[b - (l - 1)] /\ w[b - (l - 1)] \in Nat \ {0}
    OBVIOUS
  <2>1. PICK k \in 0..b : k = l - 1
    BY <1>4
  <2>2. b - k \in 0..c
    BY <1>4
  <2>3. PICK v \in Nat \ {0} : v = w[b - k]
    BY <1>1, <2>2
  <2>4. Len(L[l]) = X[k] + 1 /\ X[k] = v - 1
    BY <1>7, <1>11, <2>1, <2>3
  <2> QED BY <2>1, <2>3, <2>4
<1>14. ASSUME NEW l \in 1..b, NEW i \in 1..Len(L[l + 1])
       PROVE  2 * i <= Len(L[l]) /\ L[l + 1][i] = HashPair(L[l][2*i - 1], L[l][2*i])
  <2>1. PICK d \in Nat : d = b - l
    BY <1>4
  <2>2. b - (l - 1) = d + 1 /\ b - ((l + 1) - 1) = d /\ d + 1 \in 1..c /\ (d + 1) - 1 = d
        /\ d \in 0..c /\ l \in 1..(b + 1) /\ l + 1 \in 1..(b + 1)
    BY <1>4, <2>1
  <2>3. PICK v \in Nat \ {0} : v = w[d]
    BY <1>1, <2>2
  <2>4. Len(L[l]) = 2 * v /\ Len(L[l + 1]) = v
    BY <1>1, <1>13, <2>2, <2>3
  <2>5. PICK m \in Nat : m = 2 * v - 1
    OBVIOUS
  <2>6. Len(L[l]) = m + 1 /\ (m \div 2) + 1 = v
    BY <2>4, <2>5
  <2>7. \A j \in 1..((m \div 2) + 1) :
          NextLevel(L[l])[j] = HashPair(L[l][2*j - 1], L[l][IF 2*j <= m + 1 THEN 2*j ELSE 2*j - 1])
    BY <2>6, NextLevelIs
  <2>8. i \in 1..v /\ 2*i <= m + 1
    BY <2>4, <2>5
  <2> QED BY <1>11, <2>4, <2>5, <2>6, <2>7, <2>8
<1> QED BY <1>3, <1>8, <1>10, <1>11, <1>12, <1>13, <1>14 DEF IsPerfect

-----------------------------------------------------------------------------
(***************************************************************************)
(* What a root stands over.  A cover of a list A of n leaves is a set of   *)
(* nodes <<i, j, x>>: x stands over leaves i + 1 to j, and is a leaf, or   *)
(* the pair of two nodes of the cover that stand over its halves.          *)
(***************************************************************************)
Splits(T, A, i, j, x) ==
  \/ j = i + 1 /\ x = A[j]
  \/ \E k \in (i + 1)..(j - 1) : \E y, z :
       x = HashPair(y, z) /\ <<i, k, y>> \in T /\ <<k, j, z>> \in T
IsCover(T, A, n) ==
  \A i, j, x : <<i, j, x>> \in T =>
    i \in Nat /\ j \in 1..n /\ i < j /\ Splits(T, A, i, j, x)

StandsOver(x, A, n, i, j) == \E T : IsCover(T, A, n) /\ <<i, j, x>> \in T

\* The pair of two neighbours stands over what both stand over.
LEMMA CoversJoin ==
  ASSUME NEW A, NEW n \in Nat, NEW i, NEW k, NEW j, NEW y, NEW z,
         StandsOver(y, A, n, i, k), StandsOver(z, A, n, k, j)
  PROVE  StandsOver(HashPair(y, z), A, n, i, j)
<1>T. PICK T : IsCover(T, A, n) /\ <<i, k, y>> \in T
  BY DEF StandsOver
<1>U. PICK U : IsCover(U, A, n) /\ <<k, j, z>> \in U
  BY DEF StandsOver
<1>1. PICK V : V = T \cup U \cup {<<i, j, HashPair(y, z)>>}
  OBVIOUS
<1>2. i \in Nat /\ k \in 1..n /\ i < k /\ j \in 1..n /\ k < j
  BY <1>T, <1>U DEF IsCover
<1>3. T \subseteq V /\ U \subseteq V
  BY <1>1
<1>4. ASSUME NEW a, NEW b, NEW x, <<a, b, x>> \in V
      PROVE  a \in Nat /\ b \in 1..n /\ a < b /\ Splits(V, A, a, b, x)
  <2>1. CASE <<a, b, x>> \in T
    <3>1. a \in Nat /\ b \in 1..n /\ a < b /\ Splits(T, A, a, b, x)
      BY <1>T, <2>1 DEF IsCover
    <3> QED BY <1>3, <3>1 DEF Splits
  <2>2. CASE <<a, b, x>> \in U
    <3>1. a \in Nat /\ b \in 1..n /\ a < b /\ Splits(U, A, a, b, x)
      BY <1>U, <2>2 DEF IsCover
    <3> QED BY <1>3, <3>1 DEF Splits
  <2>3. CASE <<a, b, x>> = <<i, j, HashPair(y, z)>>
    <3>1. a = i /\ b = j /\ x = HashPair(y, z)
      BY <2>3
    <3>2. k \in (i + 1)..(j - 1) /\ <<i, k, y>> \in V /\ <<k, j, z>> \in V
      BY <1>T, <1>U, <1>2, <1>3
    <3>3. Splits(V, A, i, j, HashPair(y, z))
      BY <3>2 DEF Splits
    <3> QED BY <1>2, <3>1, <3>3
  <2> QED BY <1>1, <1>4, <2>1, <2>2, <2>3
<1>5. IsCover(V, A, n)
  BY <1>4 DEF IsCover
<1> QED BY <1>1, <1>5 DEF StandsOver

\* A perfect tree over leaves s + 1 to s + w[b] is a cover of them.
LEMMA TreeIsCover ==
  ASSUME NEW c \in Nat, NEW w, w = Weights(c), NEW b \in 0..c,
         NEW A, NEW n \in Nat, NEW s \in Nat, s + w[b] <= n,
         NEW mtn, Len(mtn) = w[b], \A i \in 1..w[b] : mtn[i] = A[s + i]
  PROVE  StandsOver(MerkleRoot(mtn), A, n, s, s + w[b])
<1>1. PICK L : L = BuildMerkleTree(mtn)
  OBVIOUS
<1>2. IsPerfect(L, mtn, b, w)
  BY <1>1, PerfectTree
<1>3. w[0] = 1 /\ (\A k \in 1..c : w[k] = 2 * w[k - 1]) /\ (\A k \in 0..c : w[k] \in Nat \ {0})
  BY WeightsAre
<1> DEFINE Over(l, p) == <<s + (p - 1) * w[l - 1], s + p * w[l - 1], L[l][p]>>
           Places == {q \in (1..(b + 1)) \X (1..n) : q[2] <= Len(L[q[1]])}
           T == {Over(q[1], q[2]) : q \in Places}
\* What stands over no more than there is.
<1>4. \A l \in 1..(b + 1) : l - 1 \in 0..c /\ Len(L[l]) \in Nat \ {0} /\ Len(L[l]) * w[l - 1] = w[b]
  <2> DEFINE S == {k \in Nat : k <= b => w[b - k] * w[k] = w[b]}
  <2>1. 0 \in S
    <3>1. w[b] * 1 = w[b] /\ b - 0 = b
      BY <1>3
    <3> QED BY <1>3, <3>1
  <2>2. ASSUME NEW k \in Nat, k \in S PROVE k + 1 \in S
    <3> SUFFICES ASSUME k + 1 <= b PROVE w[b - (k + 1)] * w[k + 1] = w[b]
      OBVIOUS
    <3>1. PICK d \in Nat : d = b - (k + 1)
      OBVIOUS
    <3>2. b - k = d + 1 /\ d + 1 \in 1..c /\ (d + 1) - 1 = d /\ d \in 0..c
          /\ k \in 0..c /\ k + 1 \in 1..c /\ (k + 1) - 1 = k
      BY <3>1
    <3>3. PICK u \in Nat : u = w[d]
      BY <1>3, <3>2
    <3>4. PICK v \in Nat : v = w[k]
      BY <1>3, <3>2
    <3>5. (2 * u) * v = w[b]
      <4>1. w[d + 1] = 2 * u
        BY <1>3, <3>2, <3>3
      <4>2. w[b - k] * w[k] = w[b]
        BY <2>2, <3>2
      <4> QED BY <3>2, <3>4, <4>1, <4>2
    <3>6. (2 * u) * v = u * (2 * v)
      OBVIOUS
    <3>7. w[k + 1] = 2 * v
      BY <1>3, <3>2, <3>4
    <3> QED BY <3>1, <3>3, <3>5, <3>6, <3>7
  <2>3. \A k \in Nat : k \in S
    <3> HIDE DEF S
    <3> QED BY <2>1, <2>2, Induction
  <2>4. ASSUME NEW l \in 1..(b + 1)
        PROVE  l - 1 \in 0..c /\ Len(L[l]) \in Nat \ {0} /\ Len(L[l]) * w[l - 1] = w[b]
    <3>1. PICK k \in Nat : k = l - 1 /\ k <= b /\ b - k \in 0..c /\ k \in 0..c
      OBVIOUS
    <3>2. Len(L[l]) = w[b - k]
      BY <1>2, <3>1 DEF IsPerfect
    <3>3. w[b - k] * w[k] = w[b]
      BY <2>3, <3>1
    <3> QED BY <1>3, <3>1, <3>2, <3>3
  <2> QED BY <2>4
<1>5. ASSUME NEW l \in 1..(b + 1), NEW p \in 1..Len(L[l])
      PROVE  /\ <<l, p>> \in Places
             /\ s + (p - 1) * w[l - 1] \in Nat /\ s + p * w[l - 1] \in 1..n
             /\ s + (p - 1) * w[l - 1] < s + p * w[l - 1]
  <2>1. PICK v \in Nat \ {0} : v = w[l - 1]
    BY <1>3, <1>4
  <2>2. PICK m \in Nat \ {0} : m = Len(L[l]) /\ m * v = w[b]
    BY <1>4, <2>1
  <2>3. p * v <= m * v /\ p * v \in Nat
    <3>1. p \in Nat /\ p <= m
      BY <2>2
    <3> QED BY <3>1, TimesGrows
  <2>4. PICK r \in Nat : r = p - 1
    BY <2>2
  <2>5. r * v \in Nat /\ (r + 1) * v = r * v + v
    BY TimesGrows
  <2>6. p * v = r * v + v
    BY <2>2, <2>4, <2>5
  <2>7. m <= n
    <3>1. 1 * m <= v * m
      BY TimesGrows
    <3>2. v * m = m * v /\ m * v <= n
      BY <1>3, <2>2
    <3> QED BY <2>1, <2>2, <3>1, <3>2
  <2>8. w[b] \in Nat
    BY <1>3
  <2>9. s + (p - 1) * w[l - 1] = s + r * v /\ s + p * w[l - 1] = s + (r * v + v)
    BY <2>1, <2>4, <2>6
  <2>10. r * v + v <= w[b]
    BY <2>2, <2>3, <2>6
  <2>11. <<l, p>> \in Places
    <3>1. p \in 1..n
      BY <2>2, <2>7
    <3> QED BY <3>1
  <2>12. PICK a \in Nat : a = r * v
    BY <2>5
  <2>13. s + a \in Nat /\ s + (a + v) \in 1..n /\ s + a < s + (a + v)
    <3>1. PICK u \in Nat : u = w[b] /\ s + u <= n
      BY <2>8
    <3>2. a + v <= u
      BY <2>10, <2>12, <3>1
    <3> QED BY <3>1, <3>2
  <2> QED BY <2>9, <2>11, <2>12, <2>13
<1>6. \A l \in 1..(b + 1) : \A p \in 1..Len(L[l]) : Over(l, p) \in T
  <2> SUFFICES ASSUME NEW l \in 1..(b + 1), NEW p \in 1..Len(L[l]) PROVE Over(l, p) \in T
    OBVIOUS
  <2>1. <<l, p>> \in Places /\ <<l, p>>[1] = l /\ <<l, p>>[2] = p
    BY <1>5
  <2> HIDE DEF Places
  <2> QED BY <2>1
<1>7. ASSUME NEW i, NEW j, NEW x, <<i, j, x>> \in T
      PROVE  i \in Nat /\ j \in 1..n /\ i < j /\ Splits(T, A, i, j, x)
  <2>1. PICK q \in Places : <<i, j, x>> = Over(q[1], q[2])
    BY <1>7
  <2>2. PICK l \in 1..(b + 1) : l = q[1]
    OBVIOUS
  <2>3. PICK p \in 1..Len(L[l]) : p = q[2]
    BY <1>4, <2>2
  <2>4. i = s + (p - 1) * w[l - 1] /\ j = s + p * w[l - 1] /\ x = L[l][p]
    BY <2>1, <2>2, <2>3
  <2>5. i \in Nat /\ j \in 1..n /\ i < j
    BY <1>5, <2>4
  <2>6. CASE l = 1
    <3>1. L[1] = mtn /\ Len(mtn) = w[b] /\ w[1 - 1] = 1
      BY <1>2, <1>3 DEF IsPerfect
    <3>2. w[b] \in Nat /\ p \in 1..w[b]
      BY <1>3, <2>6, <3>1
    <3>3. (p - 1) * 1 = p - 1 /\ p * 1 = p
      BY <3>2
    <3>4. i = s + (p - 1) /\ j = s + p /\ x = A[s + p]
      BY <2>4, <2>6, <3>1, <3>2, <3>3
    <3>5. j = i + 1
      BY <3>2, <3>4
    <3> QED BY <2>5, <3>4, <3>5 DEF Splits
  <2>7. CASE l \in 2..(b + 1)
    <3>1. PICK g \in 1..b : g = l - 1 /\ l = g + 1
      BY <2>7
    <3>2. /\ 2 * p <= Len(L[g])
          /\ L[l][p] = HashPair(L[g][2*p - 1], L[g][2*p])
      BY <1>2, <3>1 DEF IsPerfect
    <3>3. g \in 1..(b + 1) /\ g \in 1..c /\ Len(L[g]) \in Nat /\ Len(L[l]) \in Nat
      <4>1. g \in 1..(b + 1) /\ g \in 1..c
        BY <3>1
      <4> QED BY <1>4, <4>1
    <3>4. 2*p - 1 \in 1..Len(L[g]) /\ 2*p \in 1..Len(L[g])
      <4>1. PICK len \in Nat : len = Len(L[g])
        BY <3>3
      <4>2. p \in Nat /\ p >= 1 /\ 2 * p <= len
        BY <2>3, <3>2, <3>3, <4>1
      <4>3. 2*p - 1 \in 1..len /\ 2*p \in 1..len
        BY <4>2
      <4> QED BY <4>1, <4>3
    <3>5. Over(g, 2*p - 1) \in T /\ Over(g, 2*p) \in T
      <4> HIDE DEF T
      <4> QED BY <1>6, <3>3, <3>4
    <3>6. PICK v \in Nat \ {0} : v = w[g - 1] /\ w[g] = 2 * v
      <4>1. g - 1 \in 0..c
        BY <3>3
      <4> QED BY <1>3, <3>3, <4>1
    <3>7. PICK k : k = s + (2*p - 1) * v
      OBVIOUS
    <3>8. /\ (p - 1) * (2 * v) = ((2*p - 1) - 1) * v
          /\ p * (2 * v) = (2*p) * v
      <4>1. p \in Int
        BY <3>3
      <4>2. (p - 1) * (2 * v) = ((2*p - 1) - 1) * v
        BY <4>1
      <4>3. p * (2 * v) = (2*p) * v
        BY <4>1
      <4> QED BY <4>2, <4>3
    <3>9. i = s + ((2*p - 1) - 1) * v /\ j = s + (2*p) * v
      BY <2>4, <3>1, <3>6, <3>8
    <3>10. Over(g, 2*p - 1) = <<i, k, L[g][2*p - 1]>>
      BY <3>6, <3>7, <3>9
    <3>11. Over(g, 2*p) = <<k, j, L[g][2*p]>>
      BY <3>6, <3>7, <3>9
    <3>12. k \in (i + 1)..(j - 1)
      <4>1. i \in Nat /\ k \in Nat /\ i < k
        BY <1>5, <3>3, <3>4, <3>6, <3>7, <3>9
      <4>2. k < j
        BY <1>5, <3>3, <3>4, <3>6, <3>7, <3>9
      <4> QED BY <2>5, <4>1, <4>2
    <3>13. x = HashPair(L[g][2*p - 1], L[g][2*p])
      BY <2>4, <3>2
    <3>14. Splits(T, A, i, j, x)
      <4>1. PICK y, z : y = L[g][2*p - 1] /\ z = L[g][2*p]
        OBVIOUS
      <4>2. <<i, k, y>> \in T
        <5> HIDE DEF T, Over
        <5> QED BY <3>5, <3>10, <4>1
      <4>3. <<k, j, z>> \in T
        <5> HIDE DEF T, Over
        <5> QED BY <3>5, <3>11, <4>1
      <4> HIDE DEF T
      <4> QED BY <3>12, <3>13, <4>1, <4>2, <4>3 DEF Splits
    <3> QED BY <2>5, <3>14
  <2>8. l = 1 \/ l \in 2..(b + 1)
    OBVIOUS
  <2> QED BY <2>6, <2>7, <2>8
<1>8. IsCover(T, A, n)
  <2> HIDE DEF T
  <2> QED BY <1>7 DEF IsCover
<1>9. <<s, s + w[b], MerkleRoot(mtn)>> \in T
  <2>1. b + 1 \in 1..(b + 1) /\ (b + 1) - 1 = b /\ b - b = 0
    OBVIOUS
  <2>2. Len(L[b + 1]) = 1 /\ MerkleRoot(mtn) = L[b + 1][1]
    BY <1>2, <1>3, <2>1 DEF IsPerfect
  <2>3. Over(b + 1, 1) \in T
    <3>1. 1 \in 1..Len(L[b + 1])
      BY <2>2
    <3> HIDE DEF T, Over
    <3> QED BY <1>6, <2>1, <3>1
  <2>4. (1 - 1) * w[b] = 0 /\ 1 * w[b] = w[b]
    BY <1>3
  <2>5. Over(b + 1, 1) = <<s, s + w[b], MerkleRoot(mtn)>>
    BY <2>1, <2>2, <2>4
  <2> QED BY <2>3, <2>5
<1> QED
  <2> HIDE DEF T
  <2> QED BY <1>8, <1>9 DEF StandsOver

\* What is under a node is the same in every cover that has it.
SameSpan(A, i, j, B, g, h) == j - i = h - g /\ \A d \in 1..(j - i) : A[i + d] = B[g + d]

\* In covers of lists of which no element is a pair, equal nodes stand over
\* equal leaves.
LEMMA CoverBinds ==
  ASSUME NEW A, NEW B, NEW n \in Nat, NEW m \in Nat, NEW T, NEW U,
         IsCover(T, A, n), IsCover(U, B, m),
         \A i \in 1..n : ~IsPair(A[i]), \A i \in 1..m : ~IsPair(B[i]),
         NEW i, NEW j, NEW x, NEW g, NEW h, <<i, j, x>> \in T, <<g, h, x>> \in U
  PROVE  SameSpan(A, i, j, B, g, h)
<1> DEFINE Bound(len) == \A a, b, y, e, f :
             <<a, b, y>> \in T /\ <<e, f, y>> \in U /\ b - a <= len => SameSpan(A, a, b, B, e, f)
           S == {len \in Nat : Bound(len)}
<1>1. 0 \in S
  <2>1. \A a, b, y : <<a, b, y>> \in T => ~(b - a <= 0)
    BY DEF IsCover
  <2> QED BY <2>1
<1>2. ASSUME NEW len \in Nat, len \in S PROVE len + 1 \in S
  <2> SUFFICES ASSUME NEW a, NEW b, NEW y, NEW e, NEW f,
                      <<a, b, y>> \in T, <<e, f, y>> \in U, b - a <= len + 1
               PROVE  SameSpan(A, a, b, B, e, f)
    OBVIOUS
  <2>1. a \in Nat /\ b \in 1..n /\ a < b /\ Splits(T, A, a, b, y)
    BY DEF IsCover
  <2>2. e \in Nat /\ f \in 1..m /\ e < f /\ Splits(U, B, e, f, y)
    BY DEF IsCover
  <2>3. CASE b = a + 1 /\ y = A[b]
    <3>1. ~IsPair(y)
      BY <2>1, <2>3
    <3>2. f = e + 1 /\ y = B[f]
      BY <2>2, <3>1 DEF Splits, IsPair
    <3>3. b - a = 1 /\ f - e = 1 /\ A[a + 1] = B[e + 1]
      BY <2>1, <2>2, <2>3, <3>2
    <3> QED BY <3>3 DEF SameSpan
  <2>4. CASE \E k \in (a + 1)..(b - 1) : \E u, v :
               y = HashPair(u, v) /\ <<a, k, u>> \in T /\ <<k, b, v>> \in T
    <3>k. PICK k \in (a + 1)..(b - 1) : \E u, v :
               y = HashPair(u, v) /\ <<a, k, u>> \in T /\ <<k, b, v>> \in T
      BY <2>4
    <3>1. PICK u, v : y = HashPair(u, v) /\ <<a, k, u>> \in T /\ <<k, b, v>> \in T
      BY <3>k
    <3>2. ~(f = e + 1 /\ y = B[f])
      BY <2>2, <3>1 DEF IsPair
    <3>l. PICK l \in (e + 1)..(f - 1) : \E p, q :
               y = HashPair(p, q) /\ <<e, l, p>> \in U /\ <<l, f, q>> \in U
      BY <2>2, <3>2 DEF Splits
    <3>3. PICK p, q : y = HashPair(p, q) /\ <<e, l, p>> \in U /\ <<l, f, q>> \in U
      BY <3>l
    <3>4. u = p /\ v = q
      <4>1. HashPair(u, v) = HashPair(p, q)
        BY <3>1, <3>3
      <4> QED BY <4>1, PairIs
    <3>5. k \in Nat /\ l \in Nat /\ k - a <= len /\ b - k <= len
      BY <2>1, <2>2
    <3>6. SameSpan(A, a, k, B, e, l)
      BY <1>2, <3>1, <3>3, <3>4, <3>5
    <3>7. SameSpan(A, k, b, B, l, f)
      BY <1>2, <3>1, <3>3, <3>4, <3>5
    <3>8. k - a = l - e /\ b - k = f - l
      BY <3>6, <3>7 DEF SameSpan
    <3>9. b - a = f - e
      BY <2>1, <2>2, <3>5, <3>8
    <3>10. ASSUME NEW d \in 1..(b - a) PROVE A[a + d] = B[e + d]
      <4>1. CASE d \in 1..(k - a)
        BY <3>6, <4>1 DEF SameSpan
      <4>2. CASE d \notin 1..(k - a)
        <5>1. PICK r \in Nat : r = d - (k - a) /\ r \in 1..(b - k)
          BY <2>1, <3>5, <4>2
        <5>2. A[k + r] = B[l + r]
          BY <3>7, <5>1 DEF SameSpan
        <5>3. k + r = a + d /\ l + r = e + d
          BY <2>1, <2>2, <3>5, <3>8, <5>1
        <5> QED BY <5>2, <5>3
      <4> QED BY <4>1, <4>2
    <3> QED BY <3>9, <3>10 DEF SameSpan
  <2> QED BY <2>1, <2>3, <2>4 DEF Splits
<1>3. \A len \in Nat : len \in S
  <2> HIDE DEF S
  <2> QED BY <1>1, <1>2, Induction
<1>4. j - i \in Nat
  BY DEF IsCover
<1> QED BY <1>3, <1>4

\* A path is of one number of leaves: what it ends at stands over as many,
\* whatever it starts from.
LEMMA PathSpans ==
  ASSUME NEW A, NEW B, NEW n \in Nat, NEW m \in Nat, NEW T, NEW U,
         IsCover(T, A, n), IsCover(U, B, m),
         \A i \in 1..n : ~IsPair(A[i]), \A i \in 1..m : ~IsPair(B[i]),
         NEW x, NEW y, ~IsPair(x), ~IsPair(y), NEW p, Len(p) \in Nat,
         NEW i, NEW j, NEW g, NEW h, <<i, j, Fold(x, p)>> \in T, <<g, h, Fold(y, p)>> \in U
  PROVE  j - i = h - g
<1>1. PICK X : X = Climbed(x, p)
  OBVIOUS
<1>2. PICK Y : Y = Climbed(y, p)
  OBVIOUS
<1>3. X[0] = x /\ \A k \in 1..Len(p) : X[k] = Parent(X[k - 1], p[k])
  BY <1>1, ClimbedIs
<1>4. Y[0] = y /\ \A k \in 1..Len(p) : Y[k] = Parent(Y[k - 1], p[k])
  BY <1>2, ClimbedIs
<1> DEFINE Bound(k) == \A a, b, e, f : <<a, b, X[k]>> \in T /\ <<e, f, Y[k]>> \in U => b - a = f - e
           S == {k \in Nat : k <= Len(p) => Bound(k)}
<1>5. 0 \in S
  <2>1. ASSUME NEW a, NEW b, <<a, b, X[0]>> \in T PROVE b = a + 1 /\ a \in Nat
    <3>1. a \in Nat /\ Splits(T, A, a, b, x)
      BY <1>3, <2>1 DEF IsCover
    <3> QED BY <3>1 DEF Splits, IsPair
  <2>2. ASSUME NEW a, NEW b, <<a, b, Y[0]>> \in U PROVE b = a + 1 /\ a \in Nat
    <3>1. a \in Nat /\ Splits(U, B, a, b, y)
      BY <1>4, <2>2 DEF IsCover
    <3> QED BY <3>1 DEF Splits, IsPair
  <2> QED BY <2>1, <2>2
<1>6. ASSUME NEW k \in Nat, k \in S PROVE k + 1 \in S
  <2> SUFFICES ASSUME k + 1 <= Len(p), NEW a, NEW b, NEW e, NEW f,
                      <<a, b, X[k + 1]>> \in T, <<e, f, Y[k + 1]>> \in U
               PROVE  b - a = f - e
    OBVIOUS
  <2>0. k + 1 \in 1..Len(p) /\ (k + 1) - 1 = k /\ k <= Len(p)
    OBVIOUS
  <2>1. X[k + 1] = Parent(X[k], p[k + 1]) /\ Y[k + 1] = Parent(Y[k], p[k + 1])
    BY <1>3, <1>4, <2>0
  <2>2. IsPair(X[k + 1]) /\ IsPair(Y[k + 1])
    BY <2>1 DEF Parent, IsPair
  <2>3. a \in Nat /\ b \in 1..n /\ a < b /\ Splits(T, A, a, b, X[k + 1])
    BY DEF IsCover
  <2>4. e \in Nat /\ f \in 1..m /\ e < f /\ Splits(U, B, e, f, Y[k + 1])
    BY DEF IsCover
  <2>c. PICK c \in (a + 1)..(b - 1) : \E u, v :
             X[k + 1] = HashPair(u, v) /\ <<a, c, u>> \in T /\ <<c, b, v>> \in T
    BY <2>2, <2>3 DEF Splits
  <2>5. PICK u, v : X[k + 1] = HashPair(u, v) /\ <<a, c, u>> \in T /\ <<c, b, v>> \in T
    BY <2>c
  <2>d. PICK d \in (e + 1)..(f - 1) : \E r, s :
             Y[k + 1] = HashPair(r, s) /\ <<e, d, r>> \in U /\ <<d, f, s>> \in U
    BY <2>2, <2>4 DEF Splits
  <2>6. PICK r, s : Y[k + 1] = HashPair(r, s) /\ <<e, d, r>> \in U /\ <<d, f, s>> \in U
    BY <2>d
  <2>7. c \in Nat /\ d \in Nat
    BY <2>3, <2>4
  <2>8. Bound(k)
    BY <1>6, <2>0
  <2>9. CASE p[k + 1].Right
    <3>1. X[k + 1] = HashPair(X[k], p[k + 1].Sibling) /\ Y[k + 1] = HashPair(Y[k], p[k + 1].Sibling)
      BY <2>1, <2>9 DEF Parent
    <3>2. u = X[k] /\ v = p[k + 1].Sibling /\ r = Y[k] /\ s = p[k + 1].Sibling
      <4>1. HashPair(u, v) = HashPair(X[k], p[k + 1].Sibling)
        BY <2>5, <3>1
      <4>2. HashPair(r, s) = HashPair(Y[k], p[k + 1].Sibling)
        BY <2>6, <3>1
      <4>3. u = X[k] /\ v = p[k + 1].Sibling
        BY <4>1, PairIs
      <4>4. r = Y[k] /\ s = p[k + 1].Sibling
        BY <4>2, PairIs
      <4> QED BY <4>3, <4>4
    <3>3. c - a = d - e
      BY <2>5, <2>6, <2>8, <3>2
    <3>4. SameSpan(A, c, b, B, d, f)
      BY <2>5, <2>6, <3>2, CoverBinds
    <3>5. b - c = f - d
      BY <3>4 DEF SameSpan
    <3> QED BY <2>3, <2>4, <2>7, <3>3, <3>5
  <2>10. CASE ~p[k + 1].Right
    <3>1. X[k + 1] = HashPair(p[k + 1].Sibling, X[k]) /\ Y[k + 1] = HashPair(p[k + 1].Sibling, Y[k])
      BY <2>1, <2>10 DEF Parent
    <3>2. u = p[k + 1].Sibling /\ v = X[k] /\ r = p[k + 1].Sibling /\ s = Y[k]
      <4>1. HashPair(u, v) = HashPair(p[k + 1].Sibling, X[k])
        BY <2>5, <3>1
      <4>2. HashPair(r, s) = HashPair(p[k + 1].Sibling, Y[k])
        BY <2>6, <3>1
      <4>3. u = p[k + 1].Sibling /\ v = X[k]
        BY <4>1, PairIs
      <4>4. r = p[k + 1].Sibling /\ s = Y[k]
        BY <4>2, PairIs
      <4> QED BY <4>3, <4>4
    <3>3. b - c = f - d
      BY <2>5, <2>6, <2>8, <3>2
    <3>4. SameSpan(A, a, c, B, e, d)
      BY <2>5, <2>6, <3>2, CoverBinds
    <3>5. c - a = d - e
      BY <3>4 DEF SameSpan
    <3>6. b - a = (b - c) + (c - a) /\ f - e = (f - d) + (d - e)
      BY <2>3, <2>4, <2>7
    <3> QED BY <3>3, <3>5, <3>6
  <2> QED BY <2>9, <2>10
<1>7. \A k \in Nat : k \in S
  <2> HIDE DEF S
  <2> QED BY <1>5, <1>6, Induction
<1>8. Bound(Len(p))
  BY <1>7
<1> QED BY <1>1, <1>2, <1>8 DEF Fold

-----------------------------------------------------------------------------
(***************************************************************************)
(* The mountains of a list, and their bag                                  *)
(***************************************************************************)

\* Bagged is what its definition says: the last peak, then pair after pair.
LEMMA BaggedIs ==
  ASSUME NEW pk, NEW m \in Nat \ {0}, m = Len(pk)
  PROVE  /\ Bagged(pk)[0] = pk[m]
         /\ \A j \in 1..(m - 1) : Bagged(pk)[j] = HashPair(pk[m - j], Bagged(pk)[j - 1])
<1> DEFINE N(f, n) == [j \in 0..n |-> IF j = 0 THEN pk[m] ELSE HashPair(pk[m - j], f[j - 1])]
           S == {n \in Nat : \E f : f = N(f, n)}
<1>1. 0 \in S
  <2> DEFINE f == [j \in 0..0 |-> pk[m]]
  <2>1. f = N(f, 0)
    OBVIOUS
  <2> QED BY <2>1
<1>2. ASSUME NEW n \in Nat, n \in S PROVE n + 1 \in S
  <2>1. PICK f : f = N(f, n)
    BY <1>2
  <2> DEFINE g == [j \in 0..(n + 1) |-> IF j <= n THEN f[j] ELSE HashPair(pk[m - (n + 1)], f[n])]
  <2>2. \A j \in 0..n : f[j] = IF j = 0 THEN pk[m] ELSE HashPair(pk[m - j], f[j - 1])
    BY <2>1
  <2>3. ASSUME NEW j \in 0..(n + 1)
        PROVE  g[j] = IF j = 0 THEN pk[m] ELSE HashPair(pk[m - j], g[j - 1])
    <3>1. CASE j <= n
      <4>1. j \in 0..n /\ g[j] = f[j]
        BY <3>1
      <4>2. ASSUME j # 0 PROVE g[j - 1] = f[j - 1]
        <5>1. j - 1 \in 0..(n + 1) /\ j - 1 <= n
          BY <3>1, <4>2
        <5> QED BY <5>1
      <4> HIDE DEF g
      <4> QED BY <2>2, <4>1, <4>2
    <3>2. CASE j = n + 1
      <4>1. j # 0 /\ j - 1 = n /\ n \in 0..(n + 1) /\ ~(j <= n)
        BY <3>2
      <4>2. g[j] = HashPair(pk[m - j], f[n]) /\ g[n] = f[n]
        BY <3>2, <4>1
      <4> HIDE DEF g
      <4> QED BY <4>1, <4>2
    <3> QED BY <3>1, <3>2
  <2>4. g = [j \in 0..(n + 1) |-> g[j]]
    OBVIOUS
  <2> HIDE DEF g
  <2>5. g = N(g, n + 1)
    BY <2>3, <2>4
  <2> QED
    <3> HIDE DEF N
    <3> QED BY <2>5
<1>3. \A n \in Nat : n \in S
  <2> HIDE DEF S
  <2> QED BY <1>1, <1>2, Induction
<1>4. m - 1 \in S
  <2> HIDE DEF S
  <2> QED BY <1>3
<1>5. \E f : f = N(f, m - 1)
  BY <1>4
<1> DEFINE a == Bagged(pk)
<1>6. a = CHOOSE f : f = N(f, m - 1)
  BY DEF Bagged
<1>7. a = N(a, m - 1)
  <2> HIDE DEF N, a
  <2> QED BY <1>5, <1>6
<1> HIDE DEF a
<1>8. a[0] = pk[m] /\ \A j \in 1..(m - 1) : a[j] = HashPair(pk[m - j], a[j - 1])
  <2>1. 0 \in 0..(m - 1) /\ \A j \in 1..(m - 1) : j \in 0..(m - 1) /\ j # 0
    OBVIOUS
  <2> QED BY <1>7, <2>1
<1> QED BY <1>8 DEF a

\* Mountain k of the list A: w leaves from place s on, under peak x.
IsMountain(A, k, s, w, x) ==
  /\ Len(Mountain(A, k)) = w /\ x = MerkleRoot(Mountain(A, k))
  /\ \A i \in 1..w : Mountain(A, k)[i] = A[s + i]

\* The mountains of n leaves A, with their ends e and their peaks pk.
IsMMR(A, n, c, m, e, pk) ==
  /\ c \in Nat /\ m \in Nat /\ m <= c /\ (n # 0 => m # 0) /\ (n = 0 => m = 0)
  /\ e[0] = 0 /\ e[m] = n /\ \A k \in 0..m : e[k] \in 0..n
  /\ Len(pk) = m /\ pk = [k \in 1..m |-> pk[k]]
  /\ \A k \in 1..m : \E b \in 0..c :
       e[k] = e[k - 1] + Weights(c)[b] /\ IsMountain(A, k, e[k - 1], Weights(c)[b], pk[k])

LEMMA MMRIs ==
  ASSUME NEW set, NEW A \in Seq(set), NEW n \in Nat, n = Len(A), NEW c, c = CeilLog2(n + 1),
         NEW e, e = MountainEnds(MountainSizes(n)), NEW pk, pk = Peaks(A), NEW m, m = Len(pk)
  PROVE  IsMMR(A, n, c, m, e, pk)
<1>1. PICK sizes : sizes = MountainSizes(n)
  OBVIOUS
<1>2. PICK l : l = Len(sizes)
  OBVIOUS
<1>3. AreMountains(sizes, l, e, n, c)
  BY <1>1, <1>2, MountainsAre
<1>4. c \in Nat /\ l \in Nat /\ l <= c /\ sizes \in Seq(Nat) /\ IsSums(sizes, l, e) /\ e[l] = n
  BY <1>3 DEF AreMountains
<1>5. pk = [k \in 1..l |-> MerkleRoot(Mountain(A, k))]
  BY <1>1, <1>2 DEF Peaks
<1>6. pk = [k \in 1..l |-> pk[k]]
  BY <1>5
<1>7. m = l
  BY <1>4, <1>6, FunctionsAreSeqs
<1>8. \A k \in 1..l : sizes[k] \in Nat
  BY <1>2, <1>4
<1>9. \A k \in 0..l : e[k] \in Nat /\ e[k] <= n
  <2>1. \A k \in 0..l : e[k] \in Nat /\ \A j \in 0..k : e[j] \in Nat /\ e[j] <= e[k]
    BY <1>4, <1>8, SumsGrow
  <2>2. l \in 0..l
    BY <1>4
  <2>3. e[l] = n
    BY <1>4
  <2> QED BY <1>4, <2>1, <2>2, <2>3
<1>10. e[0] = 0 /\ \A k \in 1..l : e[k] = e[k - 1] + sizes[k]
  BY <1>4 DEF IsSums
<1>11. n # 0 => l # 0
  BY <1>4, <1>10
<1>12. n = 0 => l = 0
  <2> SUFFICES ASSUME n = 0 PROVE l = 0
    OBVIOUS
  <2>1. c <= n
    <3>1. n + 1 \in Nat \ {0} /\ (n + 1) - 1 = n
      OBVIOUS
    <3>2. c \in 0..((n + 1) - 1)
      BY <3>1, CeilLog2Is
    <3> QED BY <3>1, <3>2
  <2> QED BY <1>4, <2>1
<1>13. ASSUME NEW k \in 1..l
       PROVE  \E b \in 0..c : e[k] = e[k - 1] + Weights(c)[b]
                              /\ IsMountain(A, k, e[k - 1], Weights(c)[b], pk[k])
  <2>1. PICK b \in 0..c : sizes[k] = Weights(c)[b]
    BY <1>3 DEF AreMountains
  <2>2. PICK w \in Nat \ {0} : w = Weights(c)[b]
    BY <1>4, WeightsAre
  <2>3. PICK s \in Nat : s = e[k - 1]
    BY <1>4, <1>9
  <2>4. e[k] = s + w /\ e[k] <= n
    <3>1. e[k] = e[k - 1] + sizes[k]
      BY <1>10
    <3>2. k \in 0..l
      BY <1>4
    <3>3. e[k] <= n
      BY <1>9, <3>2
    <3> QED BY <2>1, <2>2, <2>3, <3>1, <3>3
  <2>5. Mountain(A, k) = SubSeq(A, s + 1, s + w)
    BY <1>1, <2>3, <2>4 DEF Mountain
  <2>6. s + w <= n /\ s + w \in Nat
    BY <2>4
  <2>7. Len(SubSeq(A, s + 1, s + w)) = w /\ \A i \in 1..w : SubSeq(A, s + 1, s + w)[i] = A[s + i]
    BY <2>6
  <2>8. pk[k] = MerkleRoot(Mountain(A, k))
    BY <1>5
  <2>9. IsMountain(A, k, s, w, pk[k])
    BY <2>5, <2>7, <2>8 DEF IsMountain
  <2> QED BY <2>2, <2>3, <2>4, <2>9
<1>14. \A k \in 0..l : e[k] \in 0..n
  BY <1>9
<1> QED BY <1>4, <1>6, <1>7, <1>10, <1>11, <1>12, <1>13, <1>14 DEF IsMMR

\* Every root of an MMR is the top of a cover of its leaves.
LEMMA MMRHasCover ==
  ASSUME NEW set, NEW A \in Seq(set), NEW n \in Nat \ {0}, n = Len(A)
  PROVE  StandsOver(MMRRoot(A), A, n, 0, n)
<1>1. PICK c, e, pk, m : /\ c = CeilLog2(n + 1) /\ e = MountainEnds(MountainSizes(n))
                         /\ pk = Peaks(A) /\ m = Len(pk)
  OBVIOUS
<1>2. IsMMR(A, n, c, m, e, pk)
  <2>1. n \in Nat
    OBVIOUS
  <2> QED BY <1>1, <2>1, MMRIs
<1>3. /\ c \in Nat /\ m \in Nat \ {0} /\ e[0] = 0 /\ e[m] = n
      /\ \A k \in 0..m : e[k] \in 0..n
  BY <1>2 DEF IsMMR
<1>4. ASSUME NEW k \in 1..m
      PROVE  StandsOver(pk[k], A, n, e[k - 1], e[k])
  <2>1. PICK b \in 0..c : /\ e[k] = e[k - 1] + Weights(c)[b]
                          /\ IsMountain(A, k, e[k - 1], Weights(c)[b], pk[k])
    BY <1>2 DEF IsMMR
  <2>2. k - 1 \in 0..m /\ k \in 0..m
    BY <1>3
  <2>3. PICK s \in Nat : s = e[k - 1]
    BY <1>3, <2>2
  <2>4. s + Weights(c)[b] <= n
    BY <1>3, <2>1, <2>2, <2>3
  <2>5. PICK mtn : mtn = Mountain(A, k)
    OBVIOUS
  <2>6. /\ Len(mtn) = Weights(c)[b] /\ pk[k] = MerkleRoot(mtn)
        /\ \A i \in 1..Weights(c)[b] : mtn[i] = A[s + i]
    BY <2>1, <2>3, <2>5 DEF IsMountain
  <2>7. StandsOver(MerkleRoot(mtn), A, n, s, s + Weights(c)[b])
    <3>1. n \in Nat
      OBVIOUS
    <3> QED BY <1>3, <2>4, <2>6, <3>1, TreeIsCover
  <2> QED BY <2>1, <2>3, <2>6, <2>7
<1>5. PICK acc : acc = Bagged(pk)
  OBVIOUS
<1>6. acc[0] = pk[m] /\ \A j \in 1..(m - 1) : acc[j] = HashPair(pk[m - j], acc[j - 1])
  <2>1. m \in Nat \ {0} /\ m = Len(pk)
    BY <1>1, <1>3
  <2>2. /\ Bagged(pk)[0] = pk[m]
        /\ \A j \in 1..(m - 1) : Bagged(pk)[j] = HashPair(pk[m - j], Bagged(pk)[j - 1])
    BY <2>1, BaggedIs
  <2> QED BY <1>5, <2>2
<1> DEFINE Top(j) == StandsOver(acc[j], A, n, e[m - j - 1], n)
           S == {j \in Nat : j <= m - 1 => Top(j)}
<1> HIDE DEF Top
<1>7. 0 \in S
  <2>1. m \in 1..m /\ m - 0 - 1 = m - 1
    BY <1>3
  <2>2. StandsOver(pk[m], A, n, e[m - 1], e[m])
    BY <1>4, <2>1
  <2> QED BY <1>3, <1>6, <2>1, <2>2 DEF Top
<1>8. ASSUME NEW j \in Nat, j \in S PROVE j + 1 \in S
  <2> SUFFICES ASSUME j + 1 <= m - 1 PROVE Top(j + 1)
    OBVIOUS
  <2>1. PICK k \in 1..m : k = m - (j + 1) /\ k = m - j - 1 /\ k - 1 = m - (j + 1) - 1
    BY <1>3
  <2>2. Top(j)
    BY <1>3, <1>8
  <2>3. StandsOver(acc[j], A, n, e[k], n)
    BY <2>1, <2>2 DEF Top
  <2>4. StandsOver(pk[k], A, n, e[k - 1], e[k])
    BY <1>4
  <2>5. j + 1 \in 1..(m - 1) /\ (j + 1) - 1 = j
    BY <1>3
  <2>6. acc[j + 1] = HashPair(pk[k], acc[j])
    BY <1>6, <2>1, <2>5
  <2>7. StandsOver(HashPair(pk[k], acc[j]), A, n, e[k - 1], n)
    <3>1. n \in Nat
      OBVIOUS
    <3> QED BY <2>3, <2>4, <3>1, CoversJoin
  <2> QED BY <2>1, <2>6, <2>7 DEF Top
<1>9. \A j \in Nat : j \in S
  <2> HIDE DEF S
  <2> QED BY <1>7, <1>8, Induction
<1>10. Top(m - 1)
  <2>1. m - 1 \in Nat
    BY <1>3
  <2>2. m - 1 \in S
    <3> HIDE DEF S
    <3> QED BY <1>9, <2>1
  <2> QED BY <2>1, <2>2
<1>11. m - (m - 1) - 1 = 0
  BY <1>3
<1>12. MMRRoot(A) = acc[m - 1]
  <2>1. pk # << >>
    BY <1>1, <1>3
  <2> QED BY <1>1, <1>5, <2>1 DEF MMRRoot, BagPeaks
<1> QED BY <1>3, <1>10, <1>11, <1>12 DEF Top

\* A root is a leaf, when it is alone, or the digest of a pair.
LEMMA RootKind ==
  ASSUME NEW set, NEW A \in Seq(set), Len(A) # 0, NEW x, x = MMRRoot(A)
  PROVE  x \in set \/ \E y, z : x = HashPair(y, z)
<1>1. PICK n \in Nat \ {0} : n = Len(A)
  OBVIOUS
<1>2. PICK T : IsCover(T, A, n) /\ <<0, n, x>> \in T
  BY <1>1, MMRHasCover DEF StandsOver
<1>3. Splits(T, A, 0, n, x)
  BY <1>2 DEF IsCover
<1>4. A[n] \in set
  BY <1>1
<1> QED BY <1>3, <1>4 DEF Splits

\* An MMR root commits its leaves, in order and in number: if no leaf is the
\* digest of a pair, two lists of one root are one list.
THEOREM RootBindsLeaves ==
  ASSUME NEW set, NEW A \in Seq(set), NEW B \in Seq(set),
         \A i \in 1..Len(A) : ~IsPair(A[i]), \A i \in 1..Len(B) : ~IsPair(B[i]),
         Len(A) # 0, Len(B) # 0, MMRRoot(A) = MMRRoot(B)
  PROVE  A = B
<1>1. PICK n \in Nat \ {0} : n = Len(A)
  OBVIOUS
<1>2. PICK m \in Nat \ {0} : m = Len(B)
  OBVIOUS
<1>3. PICK T : IsCover(T, A, n) /\ <<0, n, MMRRoot(A)>> \in T
  BY <1>1, MMRHasCover DEF StandsOver
<1>4. PICK U : IsCover(U, B, m) /\ <<0, m, MMRRoot(B)>> \in U
  BY <1>2, MMRHasCover DEF StandsOver
<1>5. SameSpan(A, 0, n, B, 0, m)
  <2>1. n \in Nat /\ m \in Nat
    OBVIOUS
  <2>2. (\A i \in 1..n : ~IsPair(A[i])) /\ \A i \in 1..m : ~IsPair(B[i])
    BY <1>1, <1>2
  <2> QED BY <1>3, <1>4, <2>1, <2>2, CoverBinds
<1>6. n = m /\ \A d \in 1..n : A[d] = B[d]
  <2>1. n - 0 = n /\ m - 0 = m /\ \A d \in 1..n : 0 + d = d
    OBVIOUS
  <2> QED BY <1>5, <2>1 DEF SameSpan
<1>7. A = [i \in 1..n |-> A[i]] /\ B = [i \in 1..m |-> B[i]]
  BY <1>1, <1>2
<1> QED BY <1>6, <1>7

\* A path followed by another: what the one ends at is where the other starts.
LEMMA FoldConcat ==
  ASSUME NEW S, NEW p \in Seq(S), NEW q \in Seq(S), NEW x
  PROVE  Fold(x, p \o q) = Fold(Fold(x, p), q)
<1>1. PICK a \in Nat, b \in Nat : a = Len(p) /\ b = Len(q)
  OBVIOUS
<1>2. PICK r : r = p \o q
  OBVIOUS
<1>3. Len(r) = a + b /\ (\A k \in 1..a : r[k] = p[k]) /\ \A k \in 1..b : r[a + k] = q[k]
  BY <1>1, <1>2
<1>4. PICK X : X = Climbed(x, p)
  OBVIOUS
<1>5. PICK Y : Y = Climbed(Fold(x, p), q)
  OBVIOUS
<1>6. PICK Z : Z = Climbed(x, r)
  OBVIOUS
<1>7. X[0] = x /\ \A k \in 1..a : X[k] = Parent(X[k - 1], p[k])
  BY <1>1, <1>4, ClimbedIs
<1>8. Y[0] = X[a] /\ \A k \in 1..b : Y[k] = Parent(Y[k - 1], q[k])
  <2>1. Y[0] = Fold(x, p) /\ \A k \in 1..b : Y[k] = Parent(Y[k - 1], q[k])
    BY <1>1, <1>5, ClimbedIs
  <2> QED BY <1>1, <1>4, <2>1 DEF Fold
<1>9. Z[0] = x /\ \A k \in 1..(a + b) : Z[k] = Parent(Z[k - 1], r[k])
  <2>1. Len(r) \in Nat
    BY <1>3
  <2>2. Z[0] = x /\ \A k \in 1..Len(r) : Z[k] = Parent(Z[k - 1], r[k])
    BY <1>6, <2>1, ClimbedIs
  <2> QED BY <1>3, <2>2
<1>10. Z[a] = X[a]
  <2> DEFINE S1 == {k \in Nat : k <= a => Z[k] = X[k]}
  <2>1. 0 \in S1
    BY <1>7, <1>9
  <2>2. ASSUME NEW k \in Nat, k \in S1 PROVE k + 1 \in S1
    <3> SUFFICES ASSUME k + 1 <= a PROVE Z[k + 1] = X[k + 1]
      OBVIOUS
    <3>1. k + 1 \in 1..a /\ k + 1 \in 1..(a + b) /\ (k + 1) - 1 = k /\ k <= a
      OBVIOUS
    <3> QED BY <1>3, <1>7, <1>9, <2>2, <3>1
  <2>3. \A k \in Nat : k \in S1
    <3> HIDE DEF S1
    <3> QED BY <2>1, <2>2, Induction
  <2> QED BY <2>3
<1>11. Z[a + b] = Y[b]
  <2> DEFINE S2 == {k \in Nat : k <= b => Z[a + k] = Y[k]}
  <2>1. 0 \in S2
    BY <1>8, <1>10
  <2>2. ASSUME NEW k \in Nat, k \in S2 PROVE k + 1 \in S2
    <3> SUFFICES ASSUME k + 1 <= b PROVE Z[a + (k + 1)] = Y[k + 1]
      OBVIOUS
    <3>1. k + 1 \in 1..b /\ a + (k + 1) \in 1..(a + b) /\ (a + (k + 1)) - 1 = a + k
          /\ (k + 1) - 1 = k /\ k <= b
      OBVIOUS
    <3> QED BY <1>3, <1>8, <1>9, <2>2, <3>1
  <2>3. \A k \in Nat : k \in S2
    <3> HIDE DEF S2
    <3> QED BY <2>1, <2>2, Induction
  <2> QED BY <2>3
<1> QED BY <1>1, <1>2, <1>3, <1>5, <1>6, <1>11 DEF Fold

\* The bag of the peaks to the right of peak k is what the whole bag has of them.
LEMMA BagOfRight ==
  ASSUME NEW S, NEW pk \in Seq(S), NEW m \in Nat, m = Len(pk), NEW k \in 1..(m - 1)
  PROVE  BagPeaks(SubSeq(pk, k + 1, m)) = Bagged(pk)[m - k - 1]
<1>1. PICK s : s = SubSeq(pk, k + 1, m)
  OBVIOUS
<1>2. PICK l \in Nat \ {0} : l = m - k
  <2>1. k \in Nat /\ k <= m - 1
    OBVIOUS
  <2>2. m - k \in Nat \ {0}
    BY <2>1
  <2> QED BY <2>2
<1>3. Len(s) = l /\ \A i \in 1..l : s[i] = pk[k + i]
  BY <1>1, <1>2
<1>4. PICK a : a = Bagged(pk)
  OBVIOUS
<1>5. PICK b : b = Bagged(s)
  OBVIOUS
<1>6. a[0] = pk[m] /\ \A j \in 1..(m - 1) : a[j] = HashPair(pk[m - j], a[j - 1])
  <2>1. m \in Nat \ {0}
    OBVIOUS
  <2> QED BY <1>4, <2>1, BaggedIs
<1>7. b[0] = s[l] /\ \A j \in 1..(l - 1) : b[j] = HashPair(s[l - j], b[j - 1])
  BY <1>3, <1>5, BaggedIs
<1> DEFINE Q == {j \in Nat : j <= l - 1 => b[j] = a[j]}
<1>8. 0 \in Q
  <2>1. l \in 1..l /\ k + l = m
    BY <1>2
  <2> QED BY <1>3, <1>6, <1>7, <2>1
<1>9. ASSUME NEW j \in Nat, j \in Q PROVE j + 1 \in Q
  <2> SUFFICES ASSUME j + 1 <= l - 1 PROVE b[j + 1] = a[j + 1]
    OBVIOUS
  <2>1. /\ j + 1 \in 1..(l - 1) /\ j + 1 \in 1..(m - 1) /\ (j + 1) - 1 = j /\ j <= l - 1
        /\ l - (j + 1) \in 1..l /\ k + (l - (j + 1)) = m - (j + 1)
    BY <1>2
  <2>2. b[j + 1] = HashPair(s[l - (j + 1)], b[j])
    BY <1>7, <2>1
  <2>3. a[j + 1] = HashPair(pk[m - (j + 1)], a[j])
    BY <1>6, <2>1
  <2>4. s[l - (j + 1)] = pk[m - (j + 1)]
    BY <1>3, <2>1
  <2> QED BY <1>9, <2>1, <2>2, <2>3, <2>4
<1>10. \A j \in Nat : j \in Q
  <2> HIDE DEF Q
  <2> QED BY <1>8, <1>9, Induction
<1>11. b[l - 1] = a[l - 1]
  BY <1>10
<1>12. s # << >>
  BY <1>3
<1>13. BagPeaks(s) = b[l - 1]
  BY <1>3, <1>5, <1>12 DEF BagPeaks
<1> QED BY <1>1, <1>2, <1>4, <1>11, <1>13

\* Folding peak k with the bag to its right and then with the peaks to its
\* left, the nearest first, is bagging all peaks.
LEMMA PeakFolds ==
  ASSUME NEW S, NEW pk \in Seq(S), NEW m \in Nat, m = Len(pk), NEW k \in 1..m,
         NEW left, left = [i \in 1..(k - 1) |-> PathElem(pk[k - i], FALSE)]
  PROVE  Fold(Fold(pk[k], RightOf(pk, k)), left) = BagPeaks(pk)
<1>0. m \in Nat \ {0}
  OBVIOUS
<1>1. PICK a : a = Bagged(pk)
  OBVIOUS
<1>2. a[0] = pk[m] /\ \A j \in 1..(m - 1) : a[j] = HashPair(pk[m - j], a[j - 1])
  BY <1>0, <1>1, BaggedIs
<1>3. Fold(pk[k], RightOf(pk, k)) = a[m - k]
  <2>1. CASE k = m
    <3>1. RightOf(pk, k) = << >>
      BY <2>1 DEF RightOf
    <3>2. Len(<< >>) = 0
      OBVIOUS
    <3>3. Fold(pk[k], << >>) = pk[k]
      BY <3>2, ClimbedIs DEF Fold
    <3> QED BY <1>2, <2>1, <3>1, <3>3
  <2>2. CASE k \in 1..(m - 1)
    <3>1. PICK y : y = BagPeaks(SubSeq(pk, k + 1, m))
      OBVIOUS
    <3>2. y = a[m - k - 1]
      BY <1>1, <2>2, <3>1, BagOfRight
    <3>3. PICK p : p = <<PathElem(y, TRUE)>>
      OBVIOUS
    <3>4. RightOf(pk, k) = p
      <4>1. k # m
        BY <2>2
      <4> QED BY <3>1, <3>3, <4>1 DEF RightOf
    <3>5. Len(p) = 1 /\ p[1] = PathElem(y, TRUE)
      BY <3>3
    <3>6. Parent(pk[k], PathElem(y, TRUE)) = HashPair(pk[k], y)
      BY DEF Parent, PathElem
    <3>7. Fold(pk[k], p) = HashPair(pk[k], y)
      <4>1. PICK X : X = Climbed(pk[k], p)
        OBVIOUS
      <4>2. Len(p) \in Nat
        BY <3>5
      <4>3. X[0] = pk[k] /\ \A i \in 1..Len(p) : X[i] = Parent(X[i - 1], p[i])
        BY <4>1, <4>2, ClimbedIs
      <4>4. X[1] = Parent(X[0], p[1])
        <5>1. 1 \in 1..Len(p) /\ 1 - 1 = 0
          BY <3>5
        <5> QED BY <4>3, <5>1
      <4> QED BY <3>5, <3>6, <4>1, <4>3, <4>4 DEF Fold
    <3>8. m - k \in 1..(m - 1) /\ m - (m - k) = k
      BY <2>2
    <3> QED BY <1>2, <3>2, <3>4, <3>7, <3>8
  <2> QED BY <2>1, <2>2
<1>4. Len(left) = k - 1 /\ \A i \in 1..(k - 1) : left[i] = PathElem(pk[k - i], FALSE)
  <2>1. left = [i \in 1..(k - 1) |-> left[i]]
    OBVIOUS
  <2>2. k - 1 \in Nat
    OBVIOUS
  <2> QED BY <2>1, <2>2, FunctionsAreSeqs
<1>5. PICK X, x : x = a[m - k] /\ X = Climbed(x, left)
  OBVIOUS
<1>6. X[0] = a[m - k] /\ \A i \in 1..(k - 1) : X[i] = Parent(X[i - 1], left[i])
  <2>1. Len(left) \in Nat
    BY <1>4
  <2>2. X[0] = x /\ \A i \in 1..Len(left) : X[i] = Parent(X[i - 1], left[i])
    <3>1. PICK p : p = left
      OBVIOUS
    <3>2. Len(p) \in Nat
      BY <2>1, <3>1
    <3>3. /\ Climbed(x, p)[0] = x
          /\ \A i \in 1..Len(p) : Climbed(x, p)[i] = Parent(Climbed(x, p)[i - 1], p[i])
      BY <3>2, ClimbedIs
    <3>4. X = Climbed(x, p)
      BY <1>5, <3>1
    <3> QED BY <3>1, <3>3, <3>4
  <2> QED BY <1>4, <1>5, <2>2
<1> DEFINE Q == {i \in Nat : i <= k - 1 => X[i] = a[m - k + i]}
<1>7. 0 \in Q
  BY <1>6
<1>8. ASSUME NEW i \in Nat, i \in Q PROVE i + 1 \in Q
  <2> SUFFICES ASSUME i + 1 <= k - 1 PROVE X[i + 1] = a[m - k + (i + 1)]
    OBVIOUS
  <2>1. PICK j \in 1..(m - 1) : j = m - k + (i + 1) /\ m - j = k - (i + 1) /\ j - 1 = m - k + i
    <3>1. PICK d \in Nat : m = k + d /\ d = m - k
      <4>1. k \in Nat /\ m - k \in Nat /\ m = k + (m - k)
        OBVIOUS
      <4> QED BY <4>1
    <3>2. PICK r \in Nat : k = (i + 2) + r
      <4>1. k \in Nat /\ k - (i + 2) \in Nat
        OBVIOUS
      <4> QED BY <4>1
    <3>3. d + (i + 1) \in 1..(m - 1) /\ m - (d + (i + 1)) = k - (i + 1) /\ (d + (i + 1)) - 1 = d + i
      BY <3>1, <3>2
    <3> QED BY <3>1, <3>3
  <2>2. i + 1 \in 1..(k - 1) /\ (i + 1) - 1 = i
    OBVIOUS
  <2>3. X[i] = a[j - 1]
    BY <1>8, <2>1
  <2>4. X[i + 1] = Parent(a[j - 1], PathElem(pk[m - j], FALSE))
    <3>1. X[i + 1] = Parent(X[i], left[i + 1])
      BY <1>6, <2>2
    <3>2. left[i + 1] = PathElem(pk[k - (i + 1)], FALSE)
      BY <1>4, <2>2
    <3> QED BY <2>1, <2>3, <3>1, <3>2
  <2>5. Parent(a[j - 1], PathElem(pk[m - j], FALSE)) = HashPair(pk[m - j], a[j - 1])
    BY DEF Parent, PathElem
  <2> QED BY <1>2, <2>1, <2>4, <2>5
<1>9. \A i \in Nat : i \in Q
  <2> HIDE DEF Q
  <2> QED BY <1>7, <1>8, Induction
<1>10. X[k - 1] = a[m - 1]
  <2>1. k - 1 \in Nat /\ m - k + (k - 1) = m - 1
    OBVIOUS
  <2>2. k - 1 \in Q
    <3> HIDE DEF Q
    <3> QED BY <1>9, <2>1
  <2> QED BY <2>1, <2>2
<1>11. BagPeaks(pk) = a[m - 1]
  <2>1. pk # << >>
    OBVIOUS
  <2> QED BY <1>1, <2>1 DEF BagPeaks
<1> QED BY <1>3, <1>4, <1>5, <1>10, <1>11 DEF Fold

\* The mountain of a height.
LEMMA MountainOfIs ==
  ASSUME NEW A, NEW n \in Nat, n = Len(A), NEW c, NEW m, NEW e, NEW pk, IsMMR(A, n, c, m, e, pk),
         e = MountainEnds(MountainSizes(n)), pk = Peaks(A), NEW height \in 0..(n - 1),
         NEW k, k = MountainOf(A, height)
  PROVE  k \in 1..m /\ e[k - 1] <= height /\ height < e[k]
<1>1. m \in Nat /\ e[0] = 0 /\ e[m] = n /\ DOMAIN pk = 1..m
  BY DEF IsMMR
<1> DEFINE S == {i \in Nat : i <= m /\ height < e[i]}
<1>2. PICK i \in S : \A j \in S : i <= j
  <2>1. m \in S
    BY <1>1
  <2>2. S \in SUBSET Nat /\ S # {}
    BY <2>1
  <2> HIDE DEF S
  <2> QED BY <2>2, LeastNat
<1>3. i \in 1..m
  BY <1>1
<1>4. e[i - 1] <= height
  <2>1. i - 1 \in Nat /\ i - 1 <= m /\ i - 1 \in 0..m
    BY <1>1, <1>3
  <2>2. i - 1 \notin S
    BY <1>2, <1>3
  <2>3. e[i - 1] \in Nat
    BY <2>1 DEF IsMMR
  <2> QED BY <2>1, <2>2, <2>3
<1>5. k = CHOOSE j \in 1..m : e[j - 1] <= height /\ height < e[j]
  BY <1>1 DEF MountainOf
<1>6. height < e[i]
  OBVIOUS
<1> QED BY <1>3, <1>4, <1>5, <1>6

\* ProveBlock at every size: the path of every height folds its leaf to the
\* root, and is shorter than twice the bits of the size.
THEOREM EveryBlockProvable ==
  ASSUME NEW set, NEW A \in Seq(set), NEW n \in Nat \ {0}, n = Len(A), NEW height \in 0..(n - 1)
  PROVE  /\ Fold(A[height + 1], ProveBlock(A, height)) = MMRRoot(A)
         /\ Len(ProveBlock(A, height)) \in 0..(2 * CeilLog2(n + 1))
<1>1. PICK c, e, pk, m : /\ c = CeilLog2(n + 1) /\ e = MountainEnds(MountainSizes(n))
                         /\ pk = Peaks(A) /\ m = Len(pk)
  OBVIOUS
<1>2. IsMMR(A, n, c, m, e, pk)
  <2>1. n \in Nat
    OBVIOUS
  <2> QED BY <1>1, <2>1, MMRIs
<1>3. c \in Nat /\ m \in Nat \ {0} /\ m <= c /\ pk = [k \in 1..m |-> pk[k]]
  BY <1>2 DEF IsMMR
<1>4. PICK k : k = MountainOf(A, height)
  OBVIOUS
<1>5. k \in 1..m /\ e[k - 1] <= height /\ height < e[k]
  <2>1. n \in Nat
    OBVIOUS
  <2> QED BY <1>1, <1>2, <1>4, <2>1, MountainOfIs
<1>6. PICK b \in 0..c : /\ e[k] = e[k - 1] + Weights(c)[b]
                        /\ IsMountain(A, k, e[k - 1], Weights(c)[b], pk[k])
  BY <1>2, <1>5 DEF IsMMR
<1>7. PICK w \in Nat \ {0} : w = Weights(c)[b]
  BY <1>3, WeightsAre
<1>8. PICK s \in Nat : s = e[k - 1]
  <2>1. k - 1 \in 0..m
    BY <1>3, <1>5
  <2>2. e[k - 1] \in 0..n
    BY <1>2, <2>1 DEF IsMMR
  <2> QED BY <2>2
<1>9. PICK mtn : mtn = Mountain(A, k)
  OBVIOUS
<1>10. Len(mtn) = w /\ pk[k] = MerkleRoot(mtn) /\ \A i \in 1..w : mtn[i] = A[s + i]
  BY <1>6, <1>7, <1>8, <1>9 DEF IsMountain
<1>11. CeilLog2(w) = b
  BY <1>3, <1>7, <1>10, PerfectTree
<1>12. PICK index \in 0..(w - 1) : index = height - s
  <2>1. height \in Nat /\ s <= height /\ height < s + w
    BY <1>5, <1>6, <1>7, <1>8
  <2> QED BY <2>1
<1>13. PICK climb : climb = MerklePath(BuildMerkleTree(mtn), index)
  OBVIOUS
<1>14. Len(climb) = b /\ Fold(mtn[index + 1], climb) = MerkleRoot(mtn)
  BY <1>10, <1>11, <1>12, <1>13, EveryLeafProvable
<1>15. mtn[index + 1] = A[height + 1]
  <2>1. index + 1 \in 1..w /\ s + (index + 1) = height + 1
    BY <1>12
  <2> QED BY <1>10, <2>1
<1>16. PICK right : right = RightOf(pk, k)
  OBVIOUS
<1>17. PICK left : left = [i \in 1..(k - 1) |-> PathElem(pk[k - i], FALSE)]
  OBVIOUS
<1>18. ProveBlock(A, height) = (climb \o right) \o left
  <2>1. climb = InMountain(A, height, k)
    BY <1>1, <1>8, <1>9, <1>12, <1>13 DEF InMountain
  <2>2. ProveBlock(A, height) = (InMountain(A, height, k) \o right) \o left
    BY <1>1, <1>4, <1>16, <1>17 DEF ProveBlock
  <2> QED BY <2>1, <2>2
<1>19. b \in Nat /\ climb \in Seq({climb[i] : i \in 1..b})
  <2>1. b \in Nat
    BY <1>3
  <2>2. climb = [i \in 1..b |-> climb[i]]
    <3>1. PICK layers : layers = BuildMerkleTree(mtn)
      OBVIOUS
    <3>2. DOMAIN climb = 1..(Len(layers) - 1) /\ climb = [i \in 1..(Len(layers) - 1) |-> climb[i]]
      BY <1>13, <3>1 DEF MerklePath
    <3>3. Len(layers) = b + 1
      BY <1>7, <1>10, <1>11, <3>1, TreeLevels DEF IsTree
    <3>4. Len(layers) - 1 = b
      BY <2>1, <3>3
    <3> QED BY <3>2, <3>4
  <2> QED BY <2>1, <2>2, FunctionsAreSeqs
<1>20. right \in Seq({right[1]}) /\ Len(right) \in 0..1 /\ (k = m => Len(right) = 0)
  <2>1. CASE k = m
    <3>1. right = << >>
      BY <1>1, <1>16, <2>1 DEF RightOf
    <3>2. << >> \in Seq({right[1]}) /\ Len(<< >>) = 0
      OBVIOUS
    <3> QED BY <3>1, <3>2
  <2>2. CASE k # m
    <3>1. PICK x : right = <<x>>
      BY <1>1, <1>16, <2>2 DEF RightOf
    <3> QED BY <2>2, <3>1
  <2> QED BY <2>1, <2>2
<1>21. Len(left) = k - 1 /\ left \in Seq({left[i] : i \in 1..(k - 1)})
  <2>1. PICK d \in Nat : d = k - 1
    BY <1>5
  <2>2. left = [i \in 1..d |-> left[i]]
    BY <1>17, <2>1
  <2>3. Len(left) = d /\ left \in Seq({left[i] : i \in 1..d})
    BY <2>2, FunctionsAreSeqs
  <2> QED BY <2>1, <2>3
<1>22. PICK S : /\ climb \in Seq(S) /\ right \in Seq(S) /\ left \in Seq(S)
  <2>1. PICK R : R = {climb[i] : i \in 1..b} \cup {right[1]} \cup {left[i] : i \in 1..(k - 1)}
    OBVIOUS
  <2>2. climb \in Seq(R)
    BY <1>19, <2>1
  <2>3. right \in Seq(R)
    BY <1>20, <2>1
  <2>4. left \in Seq(R)
    BY <1>21, <2>1
  <2> QED BY <2>2, <2>3, <2>4
<1>23. PICK x : x = A[height + 1]
  OBVIOUS
<1>24. PICK inner : inner = climb \o right
  OBVIOUS
<1>25. /\ inner \in Seq(S) /\ Len(inner) = Len(climb) + Len(right)
       /\ Len(inner \o left) = Len(inner) + Len(left)
       /\ Fold(x, inner \o left) = Fold(Fold(pk[k], right), left)
  <2>1. inner \in Seq(S) /\ Len(inner) = Len(climb) + Len(right)
    <3>1. climb \in Seq(S) /\ right \in Seq(S)
      BY <1>22
    <3>2. climb \o right \in Seq(S) /\ Len(climb \o right) = Len(climb) + Len(right)
      BY <3>1, ConcatProperties
    <3> QED BY <3>2, <1>24
  <2>2. Len(inner \o left) = Len(inner) + Len(left)
    <3>1. left \in Seq(S)
      BY <1>22
    <3> QED BY <2>1, <3>1, ConcatProperties
  <2>3. Fold(x, inner) = Fold(Fold(x, climb), right)
    BY <1>22, <1>24, FoldConcat
  <2>4. Fold(x, climb) = pk[k]
    BY <1>10, <1>14, <1>15, <1>23
  <2>5. Fold(x, inner \o left) = Fold(Fold(x, inner), left)
    BY <1>22, <2>1, FoldConcat
  <2> QED BY <2>1, <2>2, <2>3, <2>4, <2>5
<1>26. Fold(Fold(pk[k], right), left) = BagPeaks(pk)
  <2>1. pk \in Seq({pk[i] : i \in 1..m}) /\ m \in Nat
    <3>1. m \in Nat /\ pk = [i \in 1..m |-> pk[i]]
      BY <1>3
    <3> QED BY <3>1, FunctionsAreSeqs
  <2> QED BY <1>1, <1>5, <1>16, <1>17, <2>1, PeakFolds
<1>27. Len(inner \o left) \in 0..(2 * c)
  <2>1. PICK r \in 0..1 : r = Len(right) /\ (k = m => r = 0)
    BY <1>20
  <2>2. PICK d \in Nat : d = r + (k - 1) /\ d <= c
    <3>1. k \in Nat /\ k >= 1 /\ k <= m /\ m \in Nat /\ m <= c /\ c \in Nat
      BY <1>3, <1>5
    <3>2. r \in {0, 1} /\ (k = m => r = 0)
      BY <2>1
    <3>3. r + (k - 1) \in Nat
      BY <3>1, <3>2
    <3>4. r + (k - 1) <= c
      <4>1. CASE k = m
        BY <3>1, <3>2, <4>1
      <4>2. CASE k # m
        BY <3>1, <3>2, <4>2
      <4> QED BY <4>1, <4>2
    <3> QED BY <3>3, <3>4
  <2>3. b \in Nat /\ b <= c
    BY <1>3
  <2>4. Len(inner \o left) = b + d
    <3>1. Len(inner \o left) = (b + r) + (k - 1) /\ k \in Nat
      BY <1>5, <1>14, <1>21, <1>25, <2>1
    <3> QED BY <2>1, <2>2, <2>3, <3>1
  <2>5. c \in Nat
    BY <1>3
  <2>6. b + d \in 0..(2 * c)
    BY <2>2, <2>3, <2>5
  <2> QED BY <2>4, <2>6
<1> QED BY <1>1, <1>18, <1>23, <1>24, <1>25, <1>26, <1>27 DEF MMRRoot

-----------------------------------------------------------------------------
(***************************************************************************)
(* Absent periods                                                          *)
(***************************************************************************)
\* The scan of the heights, step by step.
LEMMA ScannedIs ==
  ASSUME NEW list, NEW tip \in Nat
  PROVE  LET s == Scanned(list, tip)
         IN  /\ s[-1] = [gaps |-> << >>, inGap |-> FALSE, from |-> 0]
             /\ \A h \in 0..tip : s[h] = ScanHeight(Range(list), s[h - 1], h)
<1> DEFINE P == Range(list)
           zero == [gaps |-> << >>, inGap |-> FALSE, from |-> 0]
           N(f, n) == [h \in -1..n |-> IF h = -1 THEN zero ELSE ScanHeight(P, f[h - 1], h)]
           S == {n \in Nat : \E f : f = N(f, n - 1)}
<1> HIDE DEF P, zero
<1>1. 0 \in S
  <2> DEFINE f == [h \in -1..(0 - 1) |-> zero]
  <2>1. f = N(f, 0 - 1)
    OBVIOUS
  <2> QED BY <2>1
<1>2. ASSUME NEW n \in Nat, n \in S PROVE n + 1 \in S
  <2>1. PICK f : f = N(f, n - 1)
    BY <1>2
  <2> DEFINE g == [h \in -1..n |-> IF h <= n - 1 THEN f[h] ELSE ScanHeight(P, f[n - 1], n)]
  <2>2. \A h \in -1..(n - 1) : f[h] = IF h = -1 THEN zero ELSE ScanHeight(P, f[h - 1], h)
    BY <2>1
  <2>3. ASSUME NEW h \in -1..n
        PROVE  g[h] = IF h = -1 THEN zero ELSE ScanHeight(P, g[h - 1], h)
    <3>1. CASE h <= n - 1
      BY <2>2, <3>1
    <3>2. CASE h = n
      BY <3>2
    <3> QED BY <3>1, <3>2
  <2>4. g = [h \in -1..n |-> g[h]]
    OBVIOUS
  <2> HIDE DEF g
  <2>5. g = N(g, n)
    BY <2>3, <2>4
  <2>6. (n + 1) - 1 = n
    OBVIOUS
  <2> QED BY <2>5, <2>6
<1>3. \A n \in Nat : n \in S
  <2> HIDE DEF S
  <2> QED BY <1>1, <1>2, Induction
<1>4. \E f : f = N(f, tip)
  <2>1. tip + 1 \in S
    <3> HIDE DEF S
    <3> QED BY <1>3
  <2>2. (tip + 1) - 1 = tip
    OBVIOUS
  <2> QED BY <2>1, <2>2
<1> DEFINE s == Scanned(list, tip)
<1>5. s = CHOOSE f : f = N(f, tip)
  BY DEF Scanned, P, zero
<1>6. s = N(s, tip)
  <2> HIDE DEF N, s
  <2> QED BY <1>4, <1>5
<1> HIDE DEF s
<1>7. s[-1] = zero /\ \A h \in 0..tip : s[h] = ScanHeight(P, s[h - 1], h)
  BY <1>6
<1> QED BY <1>7 DEF s, P, zero

\* What the scan has found up to height h: with an open gap since from, if inGap.
ScanInv(P, gaps, inGap, from, h) ==
  /\ gaps \in Seq([FromHeight : Nat, ToHeight : Nat])
  /\ from \in Nat /\ inGap \in BOOLEAN
  /\ \A i \in 1..Len(gaps) :
       /\ gaps[i].FromHeight <= gaps[i].ToHeight
       /\ gaps[i].ToHeight < h
       /\ inGap => gaps[i].ToHeight + 1 < from
  /\ \A i \in 1..(Len(gaps) - 1) : gaps[i].ToHeight + 1 < gaps[i + 1].FromHeight
  /\ inGap => from <= h
  /\ \A k \in 0..h :
       k \notin P <=> \/ inGap /\ from <= k
                      \/ \E i \in 1..Len(gaps) : gaps[i].FromHeight <= k /\ k <= gaps[i].ToHeight

\* One height scanned.
LEMMA ScanStep ==
  ASSUME NEW P, NEW gaps, NEW inGap, NEW from, NEW h \in Nat, ScanInv(P, gaps, inGap, from, h - 1)
  PROVE  \E g, b, f : /\ ScanHeight(P, [gaps |-> gaps, inGap |-> inGap, from |-> from], h)
                           = [gaps |-> g, inGap |-> b, from |-> f]
                      /\ ScanInv(P, g, b, f, h)
<1>1. PICK s : s = [gaps |-> gaps, inGap |-> inGap, from |-> from]
  OBVIOUS
<1>8. \A i \in 1..Len(gaps) : gaps[i].FromHeight \in Nat /\ gaps[i].ToHeight \in Nat
  <2>1. PICK G : G = [FromHeight : Nat, ToHeight : Nat]
    OBVIOUS
  <2>2. gaps \in Seq(G)
    BY <2>1 DEF ScanInv
  <2>3. \A i \in 1..Len(gaps) : gaps[i] \in G
    BY <2>2
  <2> QED BY <2>1, <2>3
<1>2. s.gaps = gaps /\ s.inGap = inGap /\ s.from = from
  BY <1>1
<1>3. CASE h \in P /\ inGap
  <2>1. PICK gap : gap = [FromHeight |-> from, ToHeight |-> h - 1]
    OBVIOUS
  <2>2. PICK g : g = Append(gaps, gap)
    OBVIOUS
  <2>3. PICK n \in Nat : n = Len(gaps)
    BY DEF ScanInv
  <2>4. from \in Nat /\ from <= h - 1 /\ h - 1 \in Nat
    BY <1>3 DEF ScanInv
  <2>5. gap \in [FromHeight : Nat, ToHeight : Nat] /\ gap.FromHeight = from /\ gap.ToHeight = h - 1
    BY <2>1, <2>4
  <2>6. /\ g \in Seq([FromHeight : Nat, ToHeight : Nat]) /\ Len(g) = n + 1
        /\ \A i \in 1..n : g[i] = gaps[i]
        /\ g[n + 1] = gap
    BY <2>2, <2>3, <2>5 DEF ScanInv
  <2>7. ScanHeight(P, s, h) = [gaps |-> g, inGap |-> FALSE, from |-> from]
    BY <1>1, <1>2, <1>3, <2>1, <2>2 DEF ScanHeight, Gap
  <2>8. \A i \in 1..(n + 1) : i \in 1..n \/ i = n + 1
    OBVIOUS
  <2>9. \A i \in 1..(n + 1) : g[i].FromHeight <= g[i].ToHeight /\ g[i].ToHeight < h
    <3> SUFFICES ASSUME NEW i \in 1..(n + 1) PROVE g[i].FromHeight <= g[i].ToHeight /\ g[i].ToHeight < h
      OBVIOUS
    <3>1. CASE i = n + 1
      BY <2>4, <2>5, <2>6, <3>1
    <3>2. CASE i \in 1..n
      <4>1. /\ gaps[i].FromHeight \in Nat /\ gaps[i].ToHeight \in Nat
            /\ gaps[i].FromHeight <= gaps[i].ToHeight /\ gaps[i].ToHeight < h - 1
        BY <1>8, <2>3, <3>2 DEF ScanInv
      <4>2. g[i] = gaps[i]
        BY <2>6, <3>2
      <4> QED BY <2>4, <4>1, <4>2
    <3> QED BY <2>8, <3>1, <3>2
  <2>10. \A i \in 1..n : g[i].ToHeight + 1 < g[i + 1].FromHeight
    <3> SUFFICES ASSUME NEW i \in 1..n PROVE g[i].ToHeight + 1 < g[i + 1].FromHeight
      OBVIOUS
    <3>1. CASE i = n
      BY <1>3, <2>3, <2>5, <2>6, <3>1 DEF ScanInv
    <3>2. CASE i \in 1..(n - 1)
      <4>1. i \in 1..n /\ i + 1 \in 1..n /\ g[i] = gaps[i] /\ g[i + 1] = gaps[i + 1]
        BY <2>6, <3>2
      <4>2. gaps[i].ToHeight + 1 < gaps[i + 1].FromHeight
        BY <2>3, <3>2 DEF ScanInv
      <4> QED BY <4>1, <4>2
    <3> QED BY <3>1, <3>2
  <2>11. ASSUME NEW k \in 0..h
         PROVE  k \notin P <=> \E i \in 1..(n + 1) : g[i].FromHeight <= k /\ k <= g[i].ToHeight
    <3>1. CASE k = h
      <4>1. \A i \in 1..(n + 1) : ~(k <= g[i].ToHeight)
        <5>1. \A i \in 1..(n + 1) : g[i].ToHeight \in Nat
          BY <1>8, <2>3, <2>4, <2>5, <2>6, <2>8
        <5> QED BY <2>9, <3>1, <5>1
      <4> QED BY <1>3, <3>1, <4>1
    <3>2. CASE k \in 0..(h - 1)
      <4>1. k \notin P <=> \/ from <= k
                           \/ \E i \in 1..n : gaps[i].FromHeight <= k /\ k <= gaps[i].ToHeight
        BY <1>3, <2>3, <3>2 DEF ScanInv
      <4>2. from <= k <=> g[n + 1].FromHeight <= k /\ k <= g[n + 1].ToHeight
        BY <2>4, <2>5, <2>6, <3>2
      <4>3. (\E i \in 1..n : gaps[i].FromHeight <= k /\ k <= gaps[i].ToHeight)
              <=> \E i \in 1..n : g[i].FromHeight <= k /\ k <= g[i].ToHeight
        BY <2>6
      <4> QED BY <2>8, <4>1, <4>2, <4>3
    <3> QED BY <3>1, <3>2
  <2>12. ScanInv(P, g, FALSE, from, h)
    <3>1. (n + 1) - 1 = n
      OBVIOUS
    <3> QED BY <2>4, <2>6, <2>9, <2>10, <2>11, <3>1 DEF ScanInv
  <2> QED BY <1>1, <2>7, <2>12
<1>4. CASE h \in P /\ ~inGap
  <2>1. ScanHeight(P, s, h) = s
    BY <1>2, <1>4 DEF ScanHeight
  <2>2. ScanInv(P, gaps, inGap, from, h)
    <3>1. \A i \in 1..Len(gaps) : gaps[i].ToHeight \in Nat /\ gaps[i].ToHeight < h - 1
      BY <1>8 DEF ScanInv
    <3>2. \A k \in 0..h : k = h \/ k \in 0..(h - 1)
      OBVIOUS
    <3>3. \A i \in 1..Len(gaps) : gaps[i].ToHeight < h /\ ~(h <= gaps[i].ToHeight)
      BY <3>1
    <3> QED BY <1>4, <3>2, <3>3 DEF ScanInv
  <2> QED BY <1>1, <2>1, <2>2
<1>5. CASE h \notin P /\ inGap
  <2>1. ScanHeight(P, s, h) = s
    BY <1>2, <1>5 DEF ScanHeight
  <2>2. ScanInv(P, gaps, inGap, from, h)
    <3>1. \A i \in 1..Len(gaps) : gaps[i].ToHeight \in Nat /\ gaps[i].ToHeight < h - 1
      BY <1>8 DEF ScanInv
    <3>2. \A k \in 0..h : k = h \/ k \in 0..(h - 1)
      OBVIOUS
    <3>3. \A i \in 1..Len(gaps) : gaps[i].ToHeight < h
      BY <3>1
    <3>4. from \in Nat /\ from <= h /\ from <= h - 1
      BY <1>5 DEF ScanInv
    <3> QED BY <1>5, <3>2, <3>3, <3>4 DEF ScanInv
  <2> QED BY <1>1, <2>1, <2>2
<1>6. CASE h \notin P /\ ~inGap
  <2>1. ScanHeight(P, s, h) = [gaps |-> gaps, inGap |-> TRUE, from |-> h]
    BY <1>1, <1>2, <1>6 DEF ScanHeight
  <2>2. ScanInv(P, gaps, TRUE, h, h)
    <3>1. \A i \in 1..Len(gaps) : gaps[i].ToHeight \in Nat /\ gaps[i].ToHeight < h - 1
      BY <1>8 DEF ScanInv
    <3>2. \A k \in 0..h : k = h \/ (k \in 0..(h - 1) /\ ~(h <= k))
      OBVIOUS
    <3>3. \A i \in 1..Len(gaps) : gaps[i].ToHeight < h /\ gaps[i].ToHeight + 1 < h
      BY <3>1
    <3>4. h <= h
      OBVIOUS
    <3> QED BY <1>6, <3>2, <3>3, <3>4 DEF ScanInv
  <2> QED BY <1>1, <2>1, <2>2
<1>7. inGap \in BOOLEAN
  BY DEF ScanInv
<1> QED BY <1>3, <1>4, <1>5, <1>6, <1>7

\* The gaps of the heights 0..tip: the heights of no list P, in maximal runs.
AreGaps(gaps, P, tip) ==
  /\ \A i \in 1..(Len(gaps) - 1) : gaps[i].ToHeight + 1 < gaps[i + 1].FromHeight
  /\ \A k \in 0..tip :
       k \notin P <=> \E i \in DOMAIN gaps : gaps[i].FromHeight <= k /\ k <= gaps[i].ToHeight

\* CoverageGaps finds them.
LEMMA CoverageGapsAre ==
  ASSUME NEW list, NEW tip \in Nat, NEW gaps, gaps = CoverageGaps(list, tip)
  PROVE  AreGaps(gaps, Range(list), tip)
<1>1. PICK P : P = Range(list)
  OBVIOUS
<1>2. PICK s : s = Scanned(list, tip)
  OBVIOUS
<1>3. /\ s[-1] = [gaps |-> << >>, inGap |-> FALSE, from |-> 0]
      /\ \A h \in 0..tip : s[h] = ScanHeight(P, s[h - 1], h)
  BY <1>1, <1>2, ScannedIs
<1> DEFINE Found(h) == \E g, b, f : s[h] = [gaps |-> g, inGap |-> b, from |-> f] /\ ScanInv(P, g, b, f, h)
           S == {n \in Nat : n <= tip + 1 => Found(n - 1)}
<1> HIDE DEF Found
<1>4. 0 \in S
  <2>1. ScanInv(P, << >>, FALSE, 0, 0 - 1)
    <3>1. 0..(0 - 1) = {} /\ 1..0 = {} /\ 1..(0 - 1) = {} /\ Len(<< >>) = 0
      OBVIOUS
    <3>2. << >> \in Seq([FromHeight : Nat, ToHeight : Nat])
      OBVIOUS
    <3> QED BY <3>1, <3>2 DEF ScanInv
  <2>2. s[0 - 1] = [gaps |-> << >>, inGap |-> FALSE, from |-> 0]
    BY <1>3
  <2> QED BY <2>1, <2>2 DEF Found
<1>5. ASSUME NEW n \in Nat, n \in S PROVE n + 1 \in S
  <2> SUFFICES ASSUME n + 1 <= tip + 1 PROVE Found((n + 1) - 1)
    OBVIOUS
  <2>1. n \in 0..tip /\ (n + 1) - 1 = n
    OBVIOUS
  <2>2. PICK g, b, f : s[n - 1] = [gaps |-> g, inGap |-> b, from |-> f] /\ ScanInv(P, g, b, f, n - 1)
    <3>1. Found(n - 1)
      BY <1>5, <2>1
    <3> QED BY <3>1 DEF Found
  <2>3. PICK g1, b1, f1 :
          /\ ScanHeight(P, [gaps |-> g, inGap |-> b, from |-> f], n)
               = [gaps |-> g1, inGap |-> b1, from |-> f1]
          /\ ScanInv(P, g1, b1, f1, n)
    BY <2>2, ScanStep
  <2>4. s[n] = [gaps |-> g1, inGap |-> b1, from |-> f1]
    BY <1>3, <2>1, <2>2, <2>3
  <2> QED BY <2>1, <2>3, <2>4 DEF Found
<1>6. \A n \in Nat : n \in S
  <2> HIDE DEF S
  <2> QED BY <1>4, <1>5, Induction
<1>7. Found(tip)
  <2>1. tip + 1 \in S
    <3> HIDE DEF S
    <3> QED BY <1>6
  <2>2. (tip + 1) - 1 = tip
    OBVIOUS
  <2> QED BY <2>1, <2>2
<1>8. PICK g, b, f : s[tip] = [gaps |-> g, inGap |-> b, from |-> f] /\ ScanInv(P, g, b, f, tip)
  BY <1>7 DEF Found
<1>9. s[tip].gaps = g /\ s[tip].inGap = b /\ s[tip].from = f
  BY <1>8
<1>10. gaps = IF b THEN Append(g, Gap(f, tip)) ELSE g
  BY <1>2, <1>9 DEF CoverageGaps
<1>11. PICK m \in Nat : m = Len(g)
  BY <1>8 DEF ScanInv
<1>12. PICK G : G = [FromHeight : Nat, ToHeight : Nat]
  OBVIOUS
<1>13. g \in Seq(G)
  BY <1>8, <1>12 DEF ScanInv
<1>14. \A i \in 1..m : g[i].FromHeight \in Nat /\ g[i].ToHeight \in Nat
  <2>1. \A i \in 1..m : g[i] \in G
    BY <1>11, <1>13
  <2> QED BY <1>12, <2>1
<1>15. CASE b
  <2>1. PICK gap : gap = Gap(f, tip)
    OBVIOUS
  <2>2. f \in Nat /\ f <= tip /\ gap.FromHeight = f /\ gap.ToHeight = tip /\ gap \in G
    BY <1>8, <1>12, <1>15, <2>1 DEF ScanInv, Gap
  <2>3. gaps = Append(g, gap)
    BY <1>10, <1>15, <2>1
  <2>4. Len(gaps) = m + 1 /\ DOMAIN gaps = 1..(m + 1) /\ gaps[m + 1] = gap
        /\ \A i \in 1..m : gaps[i] = g[i]
    BY <1>11, <1>13, <2>2, <2>3
  <2>5. \A i \in 1..((m + 1) - 1) : gaps[i].ToHeight + 1 < gaps[i + 1].FromHeight
    <3> SUFFICES ASSUME NEW i \in 1..m PROVE gaps[i].ToHeight + 1 < gaps[i + 1].FromHeight
      OBVIOUS
    <3>1. CASE i = m
      BY <1>8, <1>11, <1>15, <2>2, <2>4, <3>1 DEF ScanInv
    <3>2. CASE i \in 1..(m - 1)
      <4>1. i \in 1..m /\ i + 1 \in 1..m /\ gaps[i] = g[i] /\ gaps[i + 1] = g[i + 1]
        BY <2>4, <3>2
      <4>2. g[i].ToHeight + 1 < g[i + 1].FromHeight
        BY <1>8, <1>11, <3>2 DEF ScanInv
      <4> QED BY <4>1, <4>2
    <3> QED BY <3>1, <3>2
  <2>6. ASSUME NEW k \in 0..tip
        PROVE  k \notin P <=> \E i \in 1..(m + 1) : gaps[i].FromHeight <= k /\ k <= gaps[i].ToHeight
    <3>1. k \notin P <=> \/ f <= k
                         \/ \E i \in 1..m : g[i].FromHeight <= k /\ k <= g[i].ToHeight
      BY <1>8, <1>11, <1>15 DEF ScanInv
    <3>2. f <= k <=> gaps[m + 1].FromHeight <= k /\ k <= gaps[m + 1].ToHeight
      BY <2>2, <2>4
    <3>3. \A i \in 1..(m + 1) : i \in 1..m \/ i = m + 1
      OBVIOUS
    <3>4. (\E i \in 1..m : g[i].FromHeight <= k /\ k <= g[i].ToHeight)
            <=> \E i \in 1..m : gaps[i].FromHeight <= k /\ k <= gaps[i].ToHeight
      BY <2>4
    <3> QED BY <3>1, <3>2, <3>3, <3>4
  <2> QED BY <1>1, <2>4, <2>5, <2>6 DEF AreGaps
<1>16. CASE ~b
  <2>1. gaps = g /\ DOMAIN g = 1..m
    BY <1>10, <1>11, <1>13, <1>16
  <2>2. \A k \in 0..tip :
          k \notin P <=> \E i \in 1..m : g[i].FromHeight <= k /\ k <= g[i].ToHeight
    BY <1>8, <1>11, <1>16 DEF ScanInv
  <2>3. \A i \in 1..(Len(g) - 1) : g[i].ToHeight + 1 < g[i + 1].FromHeight
    BY <1>8 DEF ScanInv
  <2> QED BY <1>1, <2>1, <2>2, <2>3 DEF AreGaps
<1> QED BY <1>15, <1>16

\* NearestCommitted finds the last committed height up to the one asked for.
LEMMA NearestIs ==
  ASSUME NEW list, Range(list) \subseteq Nat, NEW height \in Nat,
         NEW near, near = NearestCommitted(height, list)
  PROVE  /\ near.inGap <=> height \notin Range(list)
         /\ near.h \in Range(list) => near.h <= height
         /\ \A c \in Range(list) : c <= height => near.h \in Range(list) /\ c <= near.h
<1>1. PICK below : below = {c \in Range(list) : c <= height}
  OBVIOUS
<1>2. CASE below = {}
  <2>1. near.h = 0 /\ near.inGap = TRUE
    BY <1>1, <1>2 DEF NearestCommitted
  <2>2. \A c \in Range(list) : ~(c <= height)
    BY <1>1, <1>2
  <2>3. height <= height
    OBVIOUS
  <2> QED BY <2>1, <2>2, <2>3
<1>3. CASE below # {}
  <2>1. PICK D : D = {d \in Nat : d <= height /\ height - d \in below}
    OBVIOUS
  <2>2. D \in SUBSET Nat /\ D # {}
    <3>1. PICK c \in below : TRUE
      BY <1>3
    <3>2. c \in Nat /\ c <= height
      BY <1>1, <3>1
    <3>3. height - c \in Nat /\ height - c <= height /\ height - (height - c) = c
      BY <3>2
    <3>4. height - c \in D
      BY <2>1, <3>1, <3>3
    <3> QED BY <2>1, <3>4
  <2>3. PICK n \in D : \A m \in D : n <= m
    BY <2>2, LeastNat
  <2>4. height - n \in below /\ n \in Nat /\ n <= height
    BY <2>1, <2>3
  <2>5. \A d \in below : d <= height - n
    <3> SUFFICES ASSUME NEW d \in below PROVE d <= height - n
      OBVIOUS
    <3>1. d \in Nat /\ d <= height
      BY <1>1
    <3>2. height - d \in Nat /\ height - d <= height /\ height - (height - d) = d
      BY <3>1
    <3>3. height - d \in D
      BY <2>1, <3>2
    <3>4. n <= height - d
      BY <2>3, <3>3
    <3> QED BY <2>4, <3>1, <3>4
  <2>6. PICK x : x = CHOOSE c \in below : \A d \in below : d <= c
    OBVIOUS
  <2>7. x \in below /\ \A d \in below : d <= x
    BY <2>4, <2>5, <2>6
  <2>8. near = [h |-> x, inGap |-> height \notin below]
    BY <1>1, <1>3, <2>6 DEF NearestCommitted
  <2>9. near.h = x /\ near.inGap = (height \notin below)
    BY <2>8
  <2>10. height \in below <=> height \in Range(list)
    BY <1>1
  <2>11. near.inGap <=> height \notin Range(list)
    BY <2>9, <2>10
  <2>12. x \in Range(list) /\ x <= height /\ \A c \in Range(list) : c <= height => c <= x
    BY <1>1, <2>7
  <2> QED BY <2>9, <2>11, <2>12
<1> QED BY <1>2, <1>3
=============================================================================
