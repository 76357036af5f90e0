------------------------- MODULE FabricBatchProofs --------------------------
(***************************************************************************)
(* Batch verification, for every chain, batch and width of a packed key.   *)
(***************************************************************************)
EXTENDS FabricBatch, MerkleProofs

-----------------------------------------------------------------------------
(***************************************************************************)
(* From a node up to another                                               *)
(***************************************************************************)
Chain(x, r, n, node) ==
  /\ node[0] = x /\ node[n] = r
  /\ \A k \in 1..n : \E e : node[k] = Parent(node[k - 1], e)

\* Some path from x ends at r.
Reaches(x, r) == \E n \in Nat : \E node : Chain(x, r, n, node)

\* The nodes of a path form a chain between any two of them.
LEMMA ClimbReaches ==
  ASSUME NEW x, NEW path, NEW n \in Nat, Len(path) = n,
         NEW a \in 0..n, NEW b \in a..n
  PROVE  Reaches(Climbed(x, path)[a], Climbed(x, path)[b])
<1> DEFINE f == Climbed(x, path)
           d == b - a
           node == [k \in 0..d |-> f[a + k]]
<1>1. \A k \in 1..n : f[k] = Parent(f[k - 1], path[k])
  BY ClimbedIs
<1>2. d \in Nat /\ a + d = b
  OBVIOUS
<1>3. node[0] = f[a] /\ node[d] = f[b]
  BY <1>2
<1>4. ASSUME NEW k \in 1..d PROVE \E e : node[k] = Parent(node[k - 1], e)
  <2>1. node[k] = f[a + k] /\ node[k - 1] = f[a + (k - 1)] /\ a + k \in 1..n /\ (a + k) - 1 = a + (k - 1)
    BY <1>2
  <2>2. f[a + k] = Parent(f[(a + k) - 1], path[a + k])
    BY <1>1, <2>1
  <2> QED BY <2>1, <2>2
<1> HIDE DEF node, d, f
<1>5. Chain(f[a], f[b], d, node)
  BY <1>3, <1>4 DEF Chain
<1>6. Reaches(f[a], f[b])
  BY <1>2, <1>5 DEF Reaches
<1> QED BY <1>6 DEF f

\* One path after another is a path.
LEMMA ReachesThrough ==
  ASSUME NEW x, NEW y, NEW z, Reaches(x, y), Reaches(y, z)
  PROVE  Reaches(x, z)
<1>1. PICK n \in Nat : \E node : Chain(x, y, n, node)
  BY DEF Reaches
<1>2. PICK f : Chain(x, y, n, f)
  BY <1>1
<1>3. PICK m \in Nat : \E node : Chain(y, z, m, node)
  BY DEF Reaches
<1>4. PICK g : Chain(y, z, m, g)
  BY <1>3
<1>5. f[0] = x /\ f[n] = y /\ \A k \in 1..n : \E e : f[k] = Parent(f[k - 1], e)
  BY <1>2 DEF Chain
<1>6. g[0] = y /\ g[m] = z /\ \A k \in 1..m : \E e : g[k] = Parent(g[k - 1], e)
  BY <1>4 DEF Chain
<1> DEFINE node == [k \in 0..(n + m) |-> IF k <= n THEN f[k] ELSE g[k - n]]
<1>7. node[0] = x
  BY <1>5
<1>8. node[n + m] = z
  <2>1. CASE m = 0
    BY <1>5, <1>6, <2>1
  <2>2. CASE m # 0
    <3>1. (n + m) - n = m /\ ~(n + m <= n) /\ n + m \in 0..(n + m)
      BY <2>2
    <3> QED BY <1>6, <3>1
  <2> QED BY <2>1, <2>2
<1>9. ASSUME NEW k \in 1..(n + m) PROVE \E e : node[k] = Parent(node[k - 1], e)
  <2>1. CASE k <= n
    <3>1. node[k] = f[k] /\ node[k - 1] = f[k - 1] /\ k \in 1..n
      BY <2>1
    <3> QED BY <1>5, <3>1
  <2>2. CASE k = n + 1
    <3>1. node[k] = g[1] /\ node[k - 1] = f[n] /\ 1 \in 1..m
      BY <2>2
    <3>2. \E e : g[1] = Parent(g[1 - 1], e)
      BY <1>6, <3>1
    <3>3. 1 - 1 = 0
      OBVIOUS
    <3> QED BY <1>5, <1>6, <3>1, <3>2, <3>3
  <2>3. CASE k > n + 1
    <3>1. node[k] = g[k - n] /\ node[k - 1] = g[(k - n) - 1] /\ k - n \in 1..m
      BY <2>3
    <3> QED BY <1>6, <3>1
  <2> HIDE DEF node
  <2> QED BY <2>1, <2>2, <2>3
<1> HIDE DEF node
<1>10. Chain(x, z, n + m, node)
  BY <1>7, <1>8, <1>9 DEF Chain
<1> QED BY <1>10 DEF Reaches

\* What a path folds to is reached.
LEMMA FoldReaches ==
  ASSUME NEW x, NEW path, NEW n \in Nat, Len(path) = n
  PROVE  Reaches(x, Fold(x, path))
<1>1. 0 \in 0..n /\ n \in 0..n /\ Climbed(x, path)[0] = x /\ Fold(x, path) = Climbed(x, path)[n]
  BY ClimbedIs DEF Fold
<1>2. Reaches(Climbed(x, path)[0], Climbed(x, path)[n])
  BY <1>1, ClimbReaches
<1> QED BY <1>1, <1>2

\* And what is reached is what a path folds to.
LEMMA ReachesByFold ==
  ASSUME NEW x, NEW r, Reaches(x, r)
  PROVE  \E p : Len(p) \in Nat /\ Fold(x, p) = r
<1>1. PICK n \in Nat : \E node : Chain(x, r, n, node)
  BY DEF Reaches
<1>2. PICK f : Chain(x, r, n, f)
  BY <1>1
<1>3. f[0] = x /\ f[n] = r /\ \A k \in 1..n : \E e : f[k] = Parent(f[k - 1], e)
  BY <1>2 DEF Chain
<1> DEFINE p == [k \in 1..n |-> CHOOSE e : f[k] = Parent(f[k - 1], e)]
<1>4. \A k \in 1..n : f[k] = Parent(f[k - 1], p[k])
  BY <1>3
<1>5. Len(p) = n
  <2>1. p = [k \in 1..n |-> p[k]]
    OBVIOUS
  <2> HIDE DEF p
  <2> QED BY <2>1, FunctionsAreSeqs
<1> HIDE DEF p
<1> DEFINE c == Climbed(x, p)
           S == {k \in Nat : k <= n => c[k] = f[k]}
<1>6. c[0] = x /\ \A k \in 1..n : c[k] = Parent(c[k - 1], p[k])
  BY <1>5, ClimbedIs
<1> HIDE DEF c
<1>7. 0 \in S
  BY <1>3, <1>6
<1>8. ASSUME NEW k \in Nat, k \in S PROVE k + 1 \in S
  <2> SUFFICES ASSUME k + 1 <= n PROVE c[k + 1] = f[k + 1]
    OBVIOUS
  <2>1. k + 1 \in 1..n /\ (k + 1) - 1 = k /\ c[k] = f[k]
    BY <1>8
  <2>2. c[k + 1] = Parent(c[k], p[k + 1]) /\ f[k + 1] = Parent(f[k], p[k + 1])
    BY <1>4, <1>6, <2>1
  <2> QED BY <2>1, <2>2
<1>9. \A k \in Nat : k \in S
  <2> HIDE DEF S
  <2> QED BY <1>7, <1>8, Induction
<1>10. Fold(x, p) = r
  BY <1>3, <1>5, <1>9 DEF Fold, c
<1> QED BY <1>5, <1>10

\* A level above another is filled with pairs.
LEMMA LevelAbove ==
  ASSUME NEW level, Len(level) \in Nat \ {0}, NEW up, up = NextLevel(level)
  PROVE  DOMAIN up = 1..Len(up) /\ \A i \in DOMAIN up : IsPair(up[i])
<1>1. PICK m \in Nat : Len(level) = m + 1
  <2>1. Len(level) - 1 \in Nat /\ Len(level) = (Len(level) - 1) + 1
    OBVIOUS
  <2> QED BY <2>1, Zenon
<1>2. /\ Len(up) = (m \div 2) + 1 /\ DOMAIN up = 1..((m \div 2) + 1)
      /\ \A i \in 1..((m \div 2) + 1) :
           up[i] = HashPair(level[2*i - 1], level[IF 2*i <= m + 1 THEN 2*i ELSE 2*i - 1])
  BY <1>1, NextLevelIs
<1>3. \A i \in DOMAIN up : IsPair(up[i])
  BY <1>2, Zenon DEF IsPair
<1> QED BY <1>2, <1>3

\* The levels of a tree are filled, and above the leaves they are all pairs.
LEMMA LevelsAre ==
  ASSUME NEW leaves, NEW n \in Nat \ {0}, n = Len(leaves),
         NEW L, L = BuildMerkleTree(leaves), NEW c, c = CeilLog2(n)
  PROVE  /\ c \in Nat /\ DOMAIN L = 1..(c + 1) /\ L[1] = leaves
         /\ \A l \in 1..c : /\ DOMAIN L[l + 1] = 1..Len(L[l + 1])
                            /\ \A i \in DOMAIN L[l + 1] : IsPair(L[l + 1][i])
<1>1. IsTree(L, leaves, c)
  BY TreeLevels
<1>2. /\ c \in Nat /\ L[1] = leaves /\ \A l \in 1..c : L[l + 1] = NextLevel(L[l])
      /\ \A l \in 1..(c + 1) : Len(L[l]) \in Nat \ {0}
  BY <1>1 DEF IsTree
<1>3. DOMAIN L = 1..(c + 1)
  <2>1. L = [l \in 1..(c + 1) |-> L[l]]
    BY <1>2, LayersAre
  <2> QED BY <2>1
<1>4. ASSUME NEW l \in 1..c
      PROVE  DOMAIN L[l + 1] = 1..Len(L[l + 1]) /\ \A i \in DOMAIN L[l + 1] : IsPair(L[l + 1][i])
  <2>1. l \in 1..(c + 1)
    BY <1>2
  <2>2. Len(L[l]) \in Nat \ {0} /\ L[l + 1] = NextLevel(L[l])
    BY <1>2, <2>1
  <2> QED BY <2>2, LevelAbove
<1> QED BY <1>2, <1>3, <1>4

\* The nodes of all levels are nodes of the tree.
LEMMA InTree ==
  ASSUME NEW leaves, NEW n \in Nat \ {0}, n = Len(leaves), DOMAIN leaves = 1..n,
         NEW L, L = BuildMerkleTree(leaves), NEW c, c = CeilLog2(n),
         NEW l \in 1..(c + 1), NEW i \in 1..Len(L[l])
  PROVE  L[l][i] \in TreeNodes(leaves)
<1>1. /\ c \in Nat /\ DOMAIN L = 1..(c + 1) /\ L[1] = leaves
      /\ \A k \in 1..c : DOMAIN L[k + 1] = 1..Len(L[k + 1])
  BY LevelsAre
<1>2. DOMAIN L[l] = 1..Len(L[l])
  <2>1. CASE l = 1
    BY <1>1, <2>1
  <2>2. CASE l # 1
    <3>1. l - 1 \in 1..c /\ (l - 1) + 1 = l
      BY <1>1, <2>2
    <3> QED BY <1>1, <3>1
  <2> QED BY <2>1, <2>2
<1>3. PICK layer : layer = L[l]
  OBVIOUS
<1>4. layer \in Range(L)
  BY <1>1, <1>3 DEF Range
<1>5. layer[i] \in Range(layer)
  BY <1>2, <1>3 DEF Range
<1> QED BY <1>3, <1>4, <1>5 DEF TreeNodes

\* A node that is no pair is a leaf.
LEMMA NoPairIsLeaf ==
  ASSUME NEW leaves, NEW n \in Nat \ {0}, n = Len(leaves), DOMAIN leaves = 1..n,
         NEW x \in TreeNodes(leaves), ~IsPair(x)
  PROVE  \E i \in 1..n : x = leaves[i]
<1>1. PICK L : L = BuildMerkleTree(leaves)
  OBVIOUS
<1>2. PICK c : c = CeilLog2(n)
  OBVIOUS
<1>3. /\ c \in Nat /\ DOMAIN L = 1..(c + 1) /\ L[1] = leaves
      /\ \A l \in 1..c : \A i \in DOMAIN L[l + 1] : IsPair(L[l + 1][i])
  BY <1>1, <1>2, LevelsAre
<1>4. PICK layer \in Range(L) : x \in Range(layer)
  BY <1>1 DEF TreeNodes
<1>5. PICK l \in 1..(c + 1) : layer = L[l]
  BY <1>3, <1>4 DEF Range
<1>6. PICK i \in DOMAIN layer : x = layer[i]
  BY <1>4 DEF Range
<1>7. l = 1
  <2> SUFFICES ASSUME l # 1 PROVE FALSE
    OBVIOUS
  <2>1. l - 1 \in 1..c /\ (l - 1) + 1 = l
    BY <1>3
  <2>2. \A k \in DOMAIN L[l] : IsPair(L[l][k])
    BY <1>3, <2>1
  <2> QED BY <1>5, <1>6, <2>2
<1> QED BY <1>3, <1>5, <1>6, <1>7

\* What reaches the root of a tree is a node of it, or goes on down below a leaf.
LEMMA NodeReached ==
  ASSUME NEW leaves, NEW n \in Nat \ {0}, n = Len(leaves), DOMAIN leaves = 1..n,
         NEW x, Reaches(x, MerkleRoot(leaves))
  PROVE  x \in TreeNodes(leaves) \/ \E i \in 1..n : Reaches(x, leaves[i])
<1>1. PICK p : Len(p) \in Nat /\ Fold(x, p) = MerkleRoot(leaves)
  BY ReachesByFold
<1>2. PICK a \in Nat : a = Len(p)
  BY <1>1
<1>3. PICK L : L = BuildMerkleTree(leaves)
  OBVIOUS
<1>4. PICK c : c = CeilLog2(n)
  OBVIOUS
<1>5. PICK node : node = Climbed(x, p)
  OBVIOUS
<1>6. RunsDown(L, c, node, a)
  BY <1>1, <1>2, <1>3, <1>4, <1>5, PathInTree
<1>7. c \in Nat /\ L[1] = leaves
  BY <1>3, <1>4, LevelsAre
<1>8. node[0] = x
  BY <1>1, <1>5, ClimbedIs
<1>9. CASE c <= a
  <2>1. PICK i \in 1..Len(L[(c - c) + 1]) : node[a - c] = L[(c - c) + 1][i]
    BY <1>6, <1>7, <1>9 DEF RunsDown
  <2>2. (c - c) + 1 = 1 /\ 0 \in 0..a /\ a - c \in 0..a
    BY <1>7, <1>9
  <2>3. i \in 1..n /\ node[a - c] = leaves[i]
    BY <1>7, <2>1, <2>2
  <2>4. Reaches(node[0], node[a - c])
    BY <1>2, <1>5, <2>2, ClimbReaches
  <2> QED BY <1>8, <2>3, <2>4
<1>10. CASE a < c
  <2>1. PICK i \in 1..Len(L[(c - a) + 1]) : node[a - a] = L[(c - a) + 1][i]
    BY <1>6, <1>7, <1>10 DEF RunsDown
  <2>2. PICK l \in 1..(c + 1) : l = (c - a) + 1
    <3>1. (c - a) + 1 \in 1..(c + 1)
      BY <1>7, <1>10
    <3> QED BY <3>1
  <2>3. a - a = 0
    OBVIOUS
  <2>4. i \in 1..Len(L[l]) /\ x = L[l][i]
    BY <1>8, <2>1, <2>2, <2>3
  <2> QED BY <1>3, <1>4, <2>4, InTree
<1> QED BY <1>2, <1>7, <1>9, <1>10

\* The leaves are nodes of the tree.
LEMMA LeafInTree ==
  ASSUME NEW leaves, NEW n \in Nat \ {0}, n = Len(leaves), DOMAIN leaves = 1..n, NEW i \in 1..n
  PROVE  leaves[i] \in TreeNodes(leaves)
<1>1. PICK L : L = BuildMerkleTree(leaves)
  OBVIOUS
<1>2. PICK c : c = CeilLog2(n)
  OBVIOUS
<1>3. c \in Nat /\ L[1] = leaves
  BY <1>1, <1>2, LevelsAre
<1>4. 1 \in 1..(c + 1) /\ i \in 1..Len(L[1])
  BY <1>3
<1>5. L[1][i] \in TreeNodes(leaves)
  BY <1>1, <1>2, <1>4, InTree
<1> QED BY <1>3, <1>5

\* Every digest is reached by itself, on the empty path.
LEMMA ReachesItself ==
  ASSUME NEW x
  PROVE  Reaches(x, x)
<1> DEFINE node == [k \in {0} |-> x]
<1>1. Chain(x, x, 0, node)
  BY DEF Chain
<1> QED BY <1>1 DEF Reaches

\* What is no pair is reached by itself alone.
LEMMA NoPairReached ==
  ASSUME NEW x, NEW y, ~IsPair(y), Reaches(x, y)
  PROVE  x = y
<1>1. PICK n \in Nat : \E node : Chain(x, y, n, node)
  BY DEF Reaches
<1>2. PICK f : Chain(x, y, n, f)
  BY <1>1
<1>3. f[0] = x /\ f[n] = y /\ \A k \in 1..n : \E e : f[k] = Parent(f[k - 1], e)
  BY <1>2 DEF Chain
<1>4. n = 0
  <2> SUFFICES ASSUME n # 0 PROVE FALSE
    OBVIOUS
  <2>1. n \in 1..n
    OBVIOUS
  <2>2. PICK e : y = Parent(f[n - 1], e)
    BY <1>3, <2>1
  <2>3. IsPair(y)
    BY <2>2 DEF Parent, IsPair
  <2> QED BY <2>3
<1> QED BY <1>3, <1>4

-----------------------------------------------------------------------------
(***************************************************************************)
(* The place of a node                                                     *)
(***************************************************************************)
\* Two paths of one length that are at one place of a level go up on the same sides,
\* as far as a word has bits for them.
LEMMA SidesAbove ==
  ASSUME NEW p, NEW q, NEW n \in Nat, Len(p) = n, Len(q) = n, n <= WordWidth, NEW l \in 1..n,
         NodeIndex(p, l) = NodeIndex(q, l)
  PROVE  \A k \in (l + 1)..n : p[k].Right <=> q[k].Right
<1>0. WordWidth \in Nat
  BY BatchAssumption
<1>1. ASSUME NEW path, Len(path) = n, NEW k \in (l + 1)..n
      PROVE  (k - l - 1) \in NodeIndex(path, l) <=> ~path[k].Right
  <2> DEFINE J == {j \in (l + 1)..Len(path) : j <= WordWidth /\ ~path[j].Right}
  <2>1. NodeIndex(path, l) = {j - l - 1 : j \in J}
    BY DEF NodeIndex
  <2>2. \A j \in J : j - l - 1 = k - l - 1 => j = k
    BY <1>1
  <2>3. k \in J <=> ~path[k].Right
    BY <1>0, <1>1
  <2> HIDE DEF J
  <2> QED BY <2>1, <2>2, <2>3
<1>2. ASSUME NEW k \in (l + 1)..n PROVE p[k].Right <=> q[k].Right
  <2>1. (k - l - 1) \in NodeIndex(p, l) <=> ~p[k].Right
    BY <1>1
  <2>2. (k - l - 1) \in NodeIndex(q, l) <=> ~q[k].Right
    BY <1>1
  <2> QED BY <2>1, <2>2
<1> QED BY <1>2

\* The index in a tree that is not too deep fits below the level.
LEMMA IndexFits ==
  ASSUME NEW path, NEW n \in Nat, Len(path) = n, n <= IndexWidth + 1, NEW l \in 1..n
  PROVE  NodeIndex(path, l) \subseteq 0..(IndexWidth - 1)
<1>1. IndexWidth \in Nat /\ WordWidth \in Nat
  BY BatchAssumption
<1>2. ASSUME NEW k \in (l + 1)..n PROVE k - l - 1 \in 0..(IndexWidth - 1)
  BY <1>1
<1> QED BY <1>2 DEF NodeIndex

\* Two paths that meet at the top and go there on the same sides from a level on
\* meet in that level.
LEMMA MeetBelow ==
  ASSUME NEW x, NEW y, NEW p, NEW q, NEW n \in Nat, Len(p) = n, Len(q) = n, NEW l \in 0..n,
         \A k \in (l + 1)..n : p[k].Right <=> q[k].Right,
         Fold(x, p) = Fold(y, q)
  PROVE  Climbed(x, p)[l] = Climbed(y, q)[l]
<1> DEFINE f == Climbed(x, p)
           g == Climbed(y, q)
           S == {d \in Nat : d <= n - l => f[n - d] = g[n - d]}
<1>1. \A k \in 1..n : f[k] = Parent(f[k - 1], p[k]) /\ g[k] = Parent(g[k - 1], q[k])
  BY ClimbedIs
<1>2. f[n] = g[n]
  BY DEF Fold
<1> HIDE DEF f, g
<1>3. 0 \in S
  <2>1. n - 0 = n
    OBVIOUS
  <2> QED BY <1>2, <2>1
<1>4. ASSUME NEW d \in Nat, d \in S PROVE d + 1 \in S
  <2> SUFFICES ASSUME d + 1 <= n - l PROVE f[n - (d + 1)] = g[n - (d + 1)]
    OBVIOUS
  <2>1. PICK k \in (l + 1)..n : k = n - d /\ k - 1 = n - (d + 1)
    <3>1. n - d \in (l + 1)..n /\ (n - d) - 1 = n - (d + 1)
      OBVIOUS
    <3> QED BY <3>1
  <2>2. k \in 1..n /\ f[k] = g[k]
    BY <1>4, <2>1
  <2>3. Parent(f[k - 1], p[k]) = Parent(g[k - 1], q[k])
    BY <1>1, <2>2
  <2>4. p[k].Right <=> q[k].Right
    OBVIOUS
  <2>5. f[k - 1] = g[k - 1]
    <3>1. CASE p[k].Right
      <4>1. HashPair(f[k - 1], p[k].Sibling) = HashPair(g[k - 1], q[k].Sibling)
        BY <2>3, <2>4, <3>1 DEF Parent
      <4> QED BY <4>1, PairIs
    <3>2. CASE ~p[k].Right
      <4>1. HashPair(p[k].Sibling, f[k - 1]) = HashPair(q[k].Sibling, g[k - 1])
        BY <2>3, <2>4, <3>2 DEF Parent
      <4> QED BY <4>1, PairIs
    <3> QED BY <3>1, <3>2
  <2> QED BY <2>1, <2>5
<1>5. \A d \in Nat : d \in S
  <2> HIDE DEF S
  <2> QED BY <1>3, <1>4, Induction
<1>6. f[l] = g[l]
  <2>1. n - l \in Nat /\ n - (n - l) = l
    OBVIOUS
  <2>2. n - l \in S
    BY <1>5, <2>1
  <2> QED BY <2>1, <2>2
<1> QED BY <1>6 DEF f, g

-----------------------------------------------------------------------------
(***************************************************************************)
(* A key names one node                                                    *)
(***************************************************************************)
OneEach(list) ==
  list \in Seq(Range(list)) /\ \A i, j \in 1..Len(list) : list[i] = list[j] => i = j

NumberIn(list, root) == (CHOOSE n \in DOMAIN list : list[n] = root) - 1
KeyIn(form, list, root, level, index) ==
  IF form THEN PackedKey(NumberIn(list, root), level, index) ELSE <<root, level, index>>

\* A root's number is its place.
LEMMA NumberIs ==
  ASSUME NEW list, OneEach(list), NEW n \in 1..Len(list)
  PROVE  NumberIn(list, list[n]) = n - 1
<1>1. DOMAIN list = 1..Len(list)
  BY DEF OneEach
<1>2. \A m \in DOMAIN list : list[m] = list[n] => m = n
  BY <1>1 DEF OneEach
<1>3. (CHOOSE m \in DOMAIN list : list[m] = list[n]) = n
  BY <1>1, <1>2
<1> QED BY <1>3 DEF NumberIn

\* A root met has a place.
LEMMA PlaceOf ==
  ASSUME NEW list, OneEach(list), NEW root \in Range(list)
  PROVE  \E n \in 1..Len(list) : list[n] = root
<1>1. DOMAIN list = 1..Len(list)
  BY DEF OneEach
<1> QED BY <1>1 DEF Range

\* What Met gives: the same roots in the same places, and the root asked for.
MetIn(list, root) == IF root \in Range(list) THEN list ELSE Append(list, root)

\* The roots met stay a list without repetitions, and the number of a root is its place in it.
LEMMA MetIs ==
  ASSUME NEW list, OneEach(list), NEW root, NEW more, more = MetIn(list, root)
  PROVE  /\ OneEach(more) /\ Range(more) = Range(list) \cup {root}
         /\ Len(list) \in Nat /\ Len(list) <= Len(more) /\ Len(more) <= Len(list) + 1
         /\ \A n \in 1..Len(list) : more[n] = list[n]
<1>1. CASE root \in Range(list)
  <2>1. more = list
    BY <1>1 DEF MetIn
  <2> QED BY <1>1, <2>1 DEF OneEach
<1>2. CASE root \notin Range(list)
  <2>1. more = Append(list, root)
    BY <1>2 DEF MetIn
  <2>2. PICK R : R = Range(list)
    OBVIOUS
  <2>3. list \in Seq(R) /\ list \in Seq(R \cup {root})
    BY <2>2 DEF OneEach
  <2>4. PICK n \in Nat : n = Len(list) /\ DOMAIN list = 1..n
    BY <2>3
  <2>5. /\ Len(more) = n + 1 /\ DOMAIN more = 1..(n + 1) /\ more[n + 1] = root
        /\ \A i \in 1..n : more[i] = list[i]
    BY <2>1, <2>3, <2>4
  <2>6. \A i \in 1..n : list[i] \in R
    BY <2>2, <2>4 DEF Range
  <2>7. Range(more) = R \cup {root}
    <3>1. \A x \in R : \E i \in 1..n : list[i] = x
      BY <2>2, <2>4 DEF Range
    <3>2. \A x \in Range(more) : x \in R \cup {root}
      <4>1. ASSUME NEW i \in 1..(n + 1) PROVE more[i] \in R \cup {root}
        BY <2>5, <2>6
      <4> QED BY <2>5, <4>1 DEF Range
    <3>3. \A x \in R \cup {root} : x \in Range(more)
      <4>1. n + 1 \in 1..(n + 1) /\ 1..n \subseteq 1..(n + 1)
        OBVIOUS
      <4> QED BY <2>5, <3>1, <4>1 DEF Range
    <3> QED BY <3>2, <3>3
  <2>8. more \in Seq(Range(more))
    BY <2>1, <2>3, <2>7
  <2>9. ASSUME NEW i \in 1..(n + 1), NEW j \in 1..(n + 1), more[i] = more[j] PROVE i = j
    <3>1. root \notin R
      BY <1>2, <2>2
    <3>2. CASE i \in 1..n /\ j \in 1..n
      <4>1. list[i] = list[j]
        BY <2>5, <2>9, <3>2
      <4> QED BY <2>4, <3>2, <4>1 DEF OneEach
    <3>3. CASE i = n + 1 /\ j \in 1..n
      BY <2>5, <2>6, <2>9, <3>1, <3>3
    <3>4. CASE i \in 1..n /\ j = n + 1
      BY <2>5, <2>6, <2>9, <3>1, <3>4
    <3> QED BY <3>2, <3>3, <3>4
  <2> QED BY <2>2, <2>4, <2>5, <2>7, <2>8, <2>9 DEF OneEach
<1> QED BY <1>1, <1>2

\* A root that has its number keeps it, and so does every key made with it.
LEMMA KeyStays ==
  ASSUME NEW list, OneEach(list), NEW other, NEW more, more = MetIn(list, other),
         NEW root \in Range(list), NEW form, NEW level, NEW index
  PROVE  KeyIn(form, more, root, level, index) = KeyIn(form, list, root, level, index)
<1>1. PICK n \in 1..Len(list) : list[n] = root
  BY PlaceOf
<1>2. OneEach(more) /\ n \in 1..Len(more) /\ more[n] = root
  <2>1. OneEach(more) /\ Len(list) \in Nat /\ Len(list) <= Len(more) /\ \A i \in 1..Len(list) : more[i] = list[i]
    BY MetIs
  <2>2. Len(more) \in Nat
    BY <2>1 DEF OneEach
  <2> QED BY <1>1, <2>1, <2>2
<1>3. NumberIn(list, root) = n - 1
  BY <1>1, NumberIs
<1>4. NumberIn(more, root) = n - 1
  BY <1>2, NumberIs
<1> QED BY <1>3, <1>4 DEF KeyIn

\* What is left of a number shifted k places, and how one place more halves it.
Left(x, k) == IF k <= x THEN Shifted(x)[k] ELSE 0
Halves(a, b, odd) == a \in Nat /\ b \in Nat /\ b = a \div 2 /\ (odd <=> a % 2 = 1)

\* The bits of a number are the rests of its halving.
LEMMA LeftHalves ==
  ASSUME NEW x \in Nat, NEW k \in Nat
  PROVE  Halves(Left(x, k), Left(x, k + 1), k \in Bits(x))
<1> DEFINE f == Shifted(x)
<1>1. /\ f[0] = x /\ \A j \in 1..x : f[j] = f[j - 1] \div 2
      /\ \A j \in 0..x : f[j] \in Nat /\ f[j] <= x - j
  BY ShiftedIs, ShiftedShrinks
<1>2. k \in Bits(x) <=> k <= x /\ f[k] % 2 = 1
  BY DEF Bits
<1>3. Left(x, k) = IF k <= x THEN f[k] ELSE 0
  BY DEF Left
<1>4. Left(x, k + 1) = IF k + 1 <= x THEN f[k + 1] ELSE 0
  BY DEF Left
<1> HIDE DEF f
<1>5. CASE k + 1 <= x
  <2>1. k + 1 \in 1..x /\ (k + 1) - 1 = k /\ k \in 0..x /\ k <= x
    BY <1>5
  <2>2. f[k + 1] = f[k] \div 2 /\ f[k] \in Nat /\ f[k + 1] \in Nat
    BY <1>1, <2>1, HalfOf
  <2>3. Left(x, k) = f[k] /\ Left(x, k + 1) = f[k + 1]
    BY <1>3, <1>4, <1>5, <2>1
  <2> QED BY <1>2, <2>1, <2>2, <2>3 DEF Halves
<1>6. CASE k = x
  <2>1. f[k] \in Nat /\ f[k] <= 0
    BY <1>1, <1>6
  <2>2. f[k] = 0
    BY <2>1
  <2>3. Left(x, k) = 0 /\ Left(x, k + 1) = 0 /\ k \notin Bits(x)
    BY <1>2, <1>3, <1>4, <1>6, <2>2
  <2> QED BY <2>3 DEF Halves
<1>7. CASE k > x
  <2>1. Left(x, k) = 0 /\ Left(x, k + 1) = 0 /\ k \notin Bits(x)
    BY <1>2, <1>3, <1>4, <1>7
  <2> QED BY <2>1 DEF Halves
<1> QED BY <1>5, <1>6, <1>7

\* Two numbers with the same bits are one.
LEMMA BitsBind ==
  ASSUME NEW x \in Nat, NEW y \in Nat, Bits(x) = Bits(y)
  PROVE  x = y
<1> DEFINE u(k) == Left(x, k)
           v(k) == Left(y, k)
           odd(k) == k \in Bits(x)
<1>1. PICK n \in Nat : n = x + y + 1
  OBVIOUS
<1>2. \A k \in Nat : Halves(u(k), u(k + 1), odd(k)) /\ Halves(v(k), v(k + 1), odd(k))
  BY LeftHalves
<1>3. u(n) = 0 /\ v(n) = 0
  BY <1>1 DEF Left
<1>4. u(0) = x /\ v(0) = y
  BY ShiftedIs DEF Left
<1> HIDE DEF u, v, odd
<1> DEFINE S == {d \in Nat : d <= n => u(n - d) = v(n - d)}
<1>5. 0 \in S
  <2>1. n - 0 = n
    OBVIOUS
  <2> QED BY <1>3, <2>1
<1>6. ASSUME NEW d \in Nat, d \in S PROVE d + 1 \in S
  <2> SUFFICES ASSUME d + 1 <= n PROVE u(n - (d + 1)) = v(n - (d + 1))
    OBVIOUS
  <2>1. PICK k \in Nat : k = n - (d + 1) /\ k + 1 = n - d
    <3>1. n - (d + 1) \in Nat /\ (n - (d + 1)) + 1 = n - d
      OBVIOUS
    <3> QED BY <3>1
  <2>2. u(k + 1) = v(k + 1)
    BY <1>6, <2>1
  <2>3. /\ u(k) \in Nat /\ u(k + 1) = u(k) \div 2 /\ (odd(k) <=> u(k) % 2 = 1)
        /\ v(k) \in Nat /\ v(k + 1) = v(k) \div 2 /\ (odd(k) <=> v(k) % 2 = 1)
    BY <1>2 DEF Halves
  <2>4. PICK a \in Nat, b \in Nat : a = u(k) /\ b = v(k)
    BY <2>3
  <2>5. a \div 2 = b \div 2 /\ (a % 2 = 1 <=> b % 2 = 1)
    BY <2>2, <2>3, <2>4
  <2>6. a = b
    BY <2>5
  <2> QED BY <2>1, <2>4, <2>6
<1>7. \A d \in Nat : d \in S
  <2> HIDE DEF S
  <2> QED BY <1>5, <1>6, Induction
<1>8. u(0) = v(0)
  <2>1. n \in S /\ n - n = 0
    BY <1>7
  <2> QED BY <2>1
<1> QED BY <1>4, <1>8

\* A root, a level and a place of which a packed key loses nothing.
FitsKey(list, root, level, index) ==
  /\ root \in Range(list) /\ level \in 0..WordWidth
  /\ index \subseteq 0..(IndexWidth - 1)
  /\ Bits(NumberIn(list, root)) \subseteq 0..(WordWidth - LevelWidth - IndexWidth - 1)

SameNode(r, l, i, s, m, j) == r = s /\ l = m /\ i = j

\* The three parts of a packed key, side by side.
ArePartsOf(a, l, i, key) ==
  /\ i = {k \in key : k < IndexWidth}
  /\ \A k \in Nat : k \in l <=> k < LevelWidth /\ k + IndexWidth \in key
  /\ \A k \in Nat : k \in a <=> k + (LevelWidth + IndexWidth) \in key

LEMMA PackedParts ==
  ASSUME NEW a, NEW l, NEW i,
         a \subseteq 0..(WordWidth - LevelWidth - IndexWidth - 1),
         l \subseteq 0..(LevelWidth - 1), i \subseteq 0..(IndexWidth - 1),
         NEW key, key = MovedLeft(a, LevelWidth + IndexWidth) \cup MovedLeft(l, IndexWidth) \cup i
  PROVE  ArePartsOf(a, l, i, key)
<1>1. /\ IndexWidth \in Nat /\ LevelWidth \in Nat /\ WordWidth \in Nat
      /\ LevelWidth + IndexWidth <= WordWidth
  BY BatchAssumption
<1>2. PICK iw \in Nat, lw \in Nat, ww \in Nat :
        iw = IndexWidth /\ lw = LevelWidth /\ ww = WordWidth /\ lw + iw <= ww
  BY <1>1
<1>3. \A k \in a : k \in Nat /\ k <= ww - lw - iw - 1
  BY <1>2
<1>4. \A k \in l : k \in Nat /\ k <= lw - 1
  BY <1>2
<1>5. \A k \in i : k \in Nat /\ k <= iw - 1
  BY <1>2
<1>6. key = ({k + (lw + iw) : k \in a} \cap 0..(ww - 1)) \cup ({k + iw : k \in l} \cap 0..(ww - 1)) \cup i
  BY <1>2 DEF MovedLeft
<1>7. \A k : k \in key <=> \/ \E j \in a : k = j + (lw + iw)
                           \/ \E j \in l : k = j + iw
                           \/ k \in i
  <2>1. \A j \in a : j + (lw + iw) \in 0..(ww - 1)
    BY <1>3
  <2>2. \A j \in l : j + iw \in 0..(ww - 1)
    BY <1>2, <1>4
  <2> QED BY <1>6, <2>1, <2>2
<1>8. ASSUME NEW k \in i PROVE k \in key /\ k < iw
  BY <1>5, <1>7
<1>9. ASSUME NEW k \in key, k < iw PROVE k \in i
  <2>1. ~\E j \in a : k = j + (lw + iw)
    BY <1>3, <1>9
  <2>2. ~\E j \in l : k = j + iw
    BY <1>4, <1>9
  <2> QED BY <1>7, <2>1, <2>2
<1>10. ASSUME NEW k \in Nat PROVE k \in l <=> k < lw /\ k + iw \in key
  <2>1. k \in l => k < lw /\ k + iw \in key
    BY <1>4, <1>7
  <2>2. ASSUME k < lw, k + iw \in key PROVE k \in l
    <3>1. ~\E j \in a : k + iw = j + (lw + iw)
      BY <1>3, <2>2
    <3>2. k + iw \notin i
      BY <1>5
    <3>3. PICK j \in l : k + iw = j + iw
      BY <1>7, <2>2, <3>1, <3>2
    <3>4. j = k
      BY <1>4, <3>3
    <3> QED BY <3>4
  <2> QED BY <2>1, <2>2
<1>11. ASSUME NEW k \in Nat PROVE k \in a <=> k + (lw + iw) \in key
  <2>1. k \in a => k + (lw + iw) \in key
    BY <1>7
  <2>2. ASSUME k + (lw + iw) \in key PROVE k \in a
    <3>1. ~\E j \in l : k + (lw + iw) = j + iw
      BY <1>4
    <3>2. k + (lw + iw) \notin i
      BY <1>5
    <3>3. PICK j \in a : k + (lw + iw) = j + (lw + iw)
      BY <1>7, <2>2, <3>1, <3>2
    <3>4. j = k
      BY <1>3, <3>3
    <3> QED BY <3>4
  <2> QED BY <2>1, <2>2
<1> QED BY <1>2, <1>8, <1>9, <1>10, <1>11 DEF ArePartsOf

\* Every part of two packed keys that are one is one.
LEMMA PackedBind ==
  ASSUME NEW a, NEW l, NEW i, NEW b, NEW m, NEW j,
         a \subseteq 0..(WordWidth - LevelWidth - IndexWidth - 1),
         b \subseteq 0..(WordWidth - LevelWidth - IndexWidth - 1),
         l \subseteq 0..(LevelWidth - 1), m \subseteq 0..(LevelWidth - 1),
         i \subseteq 0..(IndexWidth - 1), j \subseteq 0..(IndexWidth - 1),
         MovedLeft(a, LevelWidth + IndexWidth) \cup MovedLeft(l, IndexWidth) \cup i
           = MovedLeft(b, LevelWidth + IndexWidth) \cup MovedLeft(m, IndexWidth) \cup j
  PROVE  a = b /\ l = m /\ i = j
<1>1. PICK key : key = MovedLeft(a, LevelWidth + IndexWidth) \cup MovedLeft(l, IndexWidth) \cup i
  BY Zenon
<1>2. key = MovedLeft(b, LevelWidth + IndexWidth) \cup MovedLeft(m, IndexWidth) \cup j
  BY <1>1, Zenon
<1>3. ArePartsOf(a, l, i, key) /\ ArePartsOf(b, m, j, key)
  BY <1>1, <1>2, PackedParts
<1>4. (\A k \in a : k \in Nat) /\ (\A k \in b : k \in Nat) /\ (\A k \in l : k \in Nat) /\ \A k \in m : k \in Nat
  BY BatchAssumption
<1>5. a = b
  BY <1>3, <1>4, Zenon DEF ArePartsOf
<1>6. l = m
  BY <1>3, <1>4, Zenon DEF ArePartsOf
<1>7. i = j
  BY <1>3, Zenon DEF ArePartsOf
<1> QED BY <1>5, <1>6, <1>7

\* One key, one node, when root, level and place fit side by side.
LEMMA KeyNamesNode ==
  ASSUME NEW list, OneEach(list), NEW form,
         NEW r, NEW l, NEW i, NEW s, NEW m, NEW j,
         form => FitsKey(list, r, l, i) /\ FitsKey(list, s, m, j),
         KeyIn(form, list, r, l, i) = KeyIn(form, list, s, m, j)
  PROVE  SameNode(r, l, i, s, m, j)
<1>1. CASE form
  <2>1. FitsKey(list, r, l, i) /\ FitsKey(list, s, m, j)
    BY <1>1
  <2>2. PICK a \in 1..Len(list) : list[a] = r
    BY <2>1, PlaceOf DEF FitsKey
  <2>3. PICK b \in 1..Len(list) : list[b] = s
    BY <2>1, PlaceOf DEF FitsKey
  <2>4. NumberIn(list, r) = a - 1 /\ NumberIn(list, s) = b - 1
    BY <2>2, <2>3, NumberIs
  <2>5. PICK u \in Nat : u = a - 1
    OBVIOUS
  <2>6. PICK v \in Nat : v = b - 1
    OBVIOUS
  <2>7. MovedLeft(Bits(u), LevelWidth + IndexWidth) \cup MovedLeft(Bits(l), IndexWidth) \cup i
          = MovedLeft(Bits(v), LevelWidth + IndexWidth) \cup MovedLeft(Bits(m), IndexWidth) \cup j
    BY <1>1, <2>4, <2>5, <2>6 DEF KeyIn, PackedKey
  <2>8. l \in 0..WordWidth /\ m \in 0..WordWidth
    BY <2>1 DEF FitsKey
  <2>9. Bits(l) \subseteq 0..(LevelWidth - 1) /\ Bits(m) \subseteq 0..(LevelWidth - 1)
    BY <2>8, BatchAssumption
  <2>10. /\ Bits(u) \subseteq 0..(WordWidth - LevelWidth - IndexWidth - 1)
         /\ Bits(v) \subseteq 0..(WordWidth - LevelWidth - IndexWidth - 1)
         /\ i \subseteq 0..(IndexWidth - 1) /\ j \subseteq 0..(IndexWidth - 1)
    BY <2>1, <2>4, <2>5, <2>6, Zenon DEF FitsKey
  <2>11. Bits(u) = Bits(v) /\ Bits(l) = Bits(m) /\ i = j
    BY <2>7, <2>9, <2>10, PackedBind, Zenon
  <2>12. u = v
    BY <2>11, BitsBind
  <2>13. l = m
    <3>1. l \in Nat /\ m \in Nat
      BY <2>8
    <3> QED BY <2>11, <3>1, BitsBind
  <2>14. a = b
    BY <2>5, <2>6, <2>12
  <2> QED BY <2>2, <2>3, <2>11, <2>13, <2>14 DEF SameNode
<1>2. CASE ~form
  <2>1. <<r, l, i>> = <<s, m, j>>
    BY <1>2 DEF KeyIn
  <2> QED BY <2>1 DEF SameNode
<1> QED BY <1>1, <1>2

-----------------------------------------------------------------------------
(***************************************************************************)
(* Climbing with what is known                                             *)
(***************************************************************************)
\* The map M is m with the first h nodes of a path under their keys.
Grown(m, M, K, node, h) ==
  /\ DOMAIN M = DOMAIN m \cup {K[g] : g \in 1..h}
  /\ \A k \in DOMAIN m : M[k] = m[k]
  /\ \A g \in 1..h : K[g] \notin DOMAIN m /\ M[K[g]] = node[g]

\* How far a climb has come: all the way, or to a node that was known.
AllNew(s, m, K, node, j) == s.end = "root" /\ s.cur = node[j] /\ Grown(m, s.memo, K, node, j)
Stopped(s, m, K, node, j) ==
  \E h \in 0..(j - 1) :
    /\ Grown(m, s.memo, K, node, h)
    /\ K[h + 1] \in DOMAIN s.memo
    /\ \/ s.end = "merged" /\ s.memo[K[h + 1]] = node[h + 1]
       \/ s.end = "clash" /\ s.memo[K[h + 1]] # node[h + 1]
Came(s, m, K, node, j) ==
  /\ s = [cur |-> s.cur, memo |-> s.memo, end |-> s.end]
  /\ AllNew(s, m, K, node, j) \/ Stopped(s, m, K, node, j)

\* One step further.
LEMMA StepCame ==
  ASSUME NEW s, NEW m, NEW K, NEW node, NEW j \in Nat, NEW up,
         Came(s, m, K, node, j), s.end = "root" => up = node[j + 1]
  PROVE  Came(ClimbStep(s, K[j + 1], up), m, K, node, j + 1)
<1> DEFINE k == K[j + 1]
           t == ClimbStep(s, k, up)
<1>1. s = [cur |-> s.cur, memo |-> s.memo, end |-> s.end]
  BY DEF Came
<1>2. CASE Stopped(s, m, K, node, j)
  <2>1. s.end # "root"
    BY <1>2 DEF Stopped
  <2>2. t = s
    BY <2>1 DEF ClimbStep
  <2>3. 0..(j - 1) \subseteq 0..((j + 1) - 1)
    OBVIOUS
  <2>4. Stopped(s, m, K, node, j + 1)
    BY <1>2, <2>3 DEF Stopped
  <2> QED BY <1>1, <2>2, <2>4 DEF Came
<1>3. CASE AllNew(s, m, K, node, j)
  <2>1. s.end = "root" /\ s.cur = node[j] /\ Grown(m, s.memo, K, node, j) /\ up = node[j + 1]
    BY <1>3 DEF AllNew
  <2>2. CASE k \in DOMAIN s.memo
    <3>1. t = [s EXCEPT !.end = IF s.memo[k] = up THEN "merged" ELSE "clash"]
      BY <2>1, <2>2 DEF ClimbStep
    <3>2. t = [cur |-> s.cur, memo |-> s.memo, end |-> IF s.memo[k] = up THEN "merged" ELSE "clash"]
      BY <1>1, <3>1
    <3>3. t.memo = s.memo /\ t.end = IF s.memo[k] = up THEN "merged" ELSE "clash"
      BY <3>2
    <3>4. t = [cur |-> t.cur, memo |-> t.memo, end |-> t.end]
      BY <3>2
    <3>5. j \in 0..((j + 1) - 1)
      OBVIOUS
    <3>6. Stopped(t, m, K, node, j + 1)
      <4> HIDE DEF t
      <4>1. CASE s.memo[k] = up
        BY <2>1, <2>2, <3>3, <3>5, <4>1 DEF Stopped
      <4>2. CASE s.memo[k] # up
        BY <2>1, <2>2, <3>3, <3>5, <4>2 DEF Stopped
      <4> QED BY <4>1, <4>2
    <3> QED BY <3>4, <3>6 DEF Came
  <2>3. CASE k \notin DOMAIN s.memo
    <3>1. t = [s EXCEPT !.memo = Remember(@, k, up), !.cur = up]
      BY <2>1, <2>3 DEF ClimbStep
    <3>2. t = [cur |-> up, memo |-> Remember(s.memo, k, up), end |-> s.end]
      BY <1>1, <3>1
    <3>3. PICK M : M = Remember(s.memo, k, up)
      OBVIOUS
    <3>4. /\ DOMAIN M = {k} \cup DOMAIN s.memo /\ M[k] = up
          /\ \A y \in DOMAIN s.memo : M[y] = s.memo[y]
      BY <2>3, <3>3 DEF Remember
    <3>5. t.memo = M /\ t.cur = up /\ t.end = "root" /\ t = [cur |-> t.cur, memo |-> t.memo, end |-> t.end]
      BY <2>1, <3>2, <3>3
    <3>6. Grown(m, M, K, node, j + 1)
      <4>1. {K[g] : g \in 1..(j + 1)} = {K[g] : g \in 1..j} \cup {k}
        <5>1. 1..(j + 1) = (1..j) \cup {j + 1}
          OBVIOUS
        <5> QED BY <5>1
      <4>2. DOMAIN M = DOMAIN m \cup {K[g] : g \in 1..(j + 1)}
        BY <2>1, <3>4, <4>1 DEF Grown
      <4>3. \A y \in DOMAIN m : M[y] = m[y]
        BY <2>1, <3>4 DEF Grown
      <4>4. ASSUME NEW g \in 1..(j + 1) PROVE K[g] \notin DOMAIN m /\ M[K[g]] = node[g]
        <5>1. CASE g \in 1..j
          BY <2>1, <3>4, <5>1 DEF Grown
        <5>2. CASE g = j + 1
          BY <2>1, <2>3, <3>4, <5>2 DEF Grown
        <5> QED BY <5>1, <5>2
      <4> QED BY <4>2, <4>3, <4>4 DEF Grown
    <3> HIDE DEF t
    <3>7. AllNew(t, m, K, node, j + 1)
      BY <2>1, <3>5, <3>6 DEF AllNew
    <3>8. Came(t, m, K, node, j + 1)
      BY <3>5, <3>7 DEF Came
    <3> QED BY <3>8 DEF t
  <2> QED BY <2>2, <2>3
<1> QED BY <1>2, <1>3 DEF Came

\* Climbing is what its definition says: a step per level.
LEMMA ClimbingIs ==
  ASSUME NEW p, NEW m, NEW n \in Nat, Len(p.L1) = n
  PROVE  /\ Climbing(p, m)[0] = [cur |-> p.Leaf, memo |-> m, end |-> "root"]
         /\ \A j \in 1..n :
              Climbing(p, m)[j] =
                ClimbStep(Climbing(p, m)[j - 1], NodeKey(p.SubtreeRoot, j, p.L1),
                          Parent(Climbing(p, m)[j - 1].cur, p.L1[j]))
<1> DEFINE first == [cur |-> p.Leaf, memo |-> m, end |-> "root"]
           Nxt(s, j) == ClimbStep(s, NodeKey(p.SubtreeRoot, j, p.L1), Parent(s.cur, p.L1[j]))
           N(f, k) == [j \in 0..k |-> IF j = 0 THEN first ELSE Nxt(f[j - 1], j)]
           S == {k \in Nat : \E f : f = N(f, k)}
<1> DEFINE c == Climbing(p, m)
<1>1. c = CHOOSE f : f = N(f, n)
  BY DEF Climbing
<1> HIDE DEF first, Nxt, c
<1>2. 0 \in S
  <2> DEFINE f == [k \in 0..0 |-> first]
  <2>1. f = N(f, 0)
    OBVIOUS
  <2> QED BY <2>1
<1>3. ASSUME NEW k \in Nat, k \in S PROVE k + 1 \in S
  <2>1. PICK f : f = N(f, k)
    BY <1>3
  <2> DEFINE g == [j \in 0..(k + 1) |-> IF j <= k THEN f[j] ELSE Nxt(f[k], k + 1)]
  <2>2. \A j \in 0..k : f[j] = IF j = 0 THEN first ELSE Nxt(f[j - 1], j)
    BY <2>1
  <2>3. ASSUME NEW j \in 0..(k + 1)
        PROVE  g[j] = IF j = 0 THEN first ELSE Nxt(g[j - 1], j)
    <3>1. CASE j <= k
      BY <2>2, <3>1
    <3>2. CASE j = k + 1
      BY <3>2
    <3> QED BY <3>1, <3>2
  <2>4. g = [j \in 0..(k + 1) |-> g[j]]
    OBVIOUS
  <2> HIDE DEF g
  <2>5. g = N(g, k + 1)
    BY <2>3, <2>4
  <2> HIDE DEF N
  <2> QED BY <2>5
<1>4. \A k \in Nat : k \in S
  <2> HIDE DEF S
  <2> QED BY <1>2, <1>3, Induction
<1>5. \E f : f = N(f, n)
  BY <1>4
<1>6. c = N(c, n)
  <2> HIDE DEF N
  <2> QED BY <1>1, <1>5
<1>7. \A j \in 0..n : c[j] = IF j = 0 THEN first ELSE Nxt(c[j - 1], j)
  BY <1>6
<1>8. c[0] = first /\ \A j \in 1..n : c[j] = Nxt(c[j - 1], j)
  BY <1>7
<1> QED BY <1>8 DEF first, Nxt, c

\* The climb of a proof: all nodes new up to the top, or up to one that was known.
LEMMA ClimbCame ==
  ASSUME NEW p, NEW m, NEW n \in Nat, Len(p.L1) = n,
         NEW node, node = Climbed(p.Leaf, p.L1),
         NEW K, K = [j \in 1..n |-> NodeKey(p.SubtreeRoot, j, p.L1)]
  PROVE  Came(Climb(p, m), m, K, node, n)
<1> DEFINE c == Climbing(p, m)
           S == {j \in Nat : j <= n => Came(c[j], m, K, node, j)}
<1>1. c[0] = [cur |-> p.Leaf, memo |-> m, end |-> "root"]
  BY ClimbingIs
<1>2. \A j \in 1..n :
        c[j] = ClimbStep(c[j - 1], NodeKey(p.SubtreeRoot, j, p.L1), Parent(c[j - 1].cur, p.L1[j]))
  BY ClimbingIs
<1>3. node[0] = p.Leaf /\ \A j \in 1..n : node[j] = Parent(node[j - 1], p.L1[j])
  BY ClimbedIs
<1> HIDE DEF c
<1>4. 0 \in S
  <2>1. Grown(m, m, K, node, 0)
    BY DEF Grown
  <2>2. c[0].cur = node[0] /\ c[0].memo = m /\ c[0].end = "root"
        /\ c[0] = [cur |-> c[0].cur, memo |-> c[0].memo, end |-> c[0].end]
    BY <1>1, <1>3
  <2>3. Came(c[0], m, K, node, 0)
    BY <2>1, <2>2 DEF Came, AllNew
  <2> QED BY <2>3
<1>5. ASSUME NEW j \in Nat, j \in S PROVE j + 1 \in S
  <2> SUFFICES ASSUME j + 1 <= n PROVE Came(c[j + 1], m, K, node, j + 1)
    OBVIOUS
  <2>1. Came(c[j], m, K, node, j)
    BY <1>5
  <2>2. j + 1 \in 1..n /\ (j + 1) - 1 = j
    OBVIOUS
  <2>3. PICK up : up = Parent(c[j].cur, p.L1[j + 1])
    OBVIOUS
  <2>4. c[j].end = "root" => up = node[j + 1]
    <3>1. c[j].end = "root" => c[j].cur = node[j]
      BY <2>1 DEF Came, AllNew, Stopped
    <3> QED BY <1>3, <2>2, <2>3, <3>1
  <2>5. c[j + 1] = ClimbStep(c[j], K[j + 1], up)
    BY <1>2, <2>2, <2>3
  <2>6. Came(ClimbStep(c[j], K[j + 1], up), m, K, node, j + 1)
    BY <2>1, <2>4, StepCame
  <2> QED BY <2>5, <2>6
<1>6. \A j \in Nat : j \in S
  <2> HIDE DEF S
  <2> QED BY <1>4, <1>5, Induction
<1>7. Came(c[n], m, K, node, n)
  BY <1>6
<1> QED BY <1>7 DEF Climb, c

-----------------------------------------------------------------------------
(***************************************************************************)
(* Blocks and proofs                                                       *)
(***************************************************************************)
\* A txid is the digest of a transaction, not of two digests.
LEMMA TxidsAreNoPairs ==
  ASSUME NEW x \in Txid
  PROVE  ~IsPair(x)
<1>1. PICK t : x = DoubleSHA256(t)
  BY DEF Txid
<1>2. SUFFICES ASSUME NEW u, NEW v, x = HashPair(u, v) PROVE FALSE
  BY DEF IsPair
<1>3. <<t>> = <<u, v>>
  BY <1>1, <1>2 DEF DoubleSHA256, HashPair
<1>4. Len(<<t>>) = 1 /\ Len(<<u, v>>) = 2
  OBVIOUS
<1> QED BY <1>3, <1>4

IsSubtree(leaves) ==
  /\ Len(leaves) \in Nat \ {0} /\ DOMAIN leaves = 1..Len(leaves)
  /\ \A i \in 1..Len(leaves) : leaves[i] \in Txid /\ ~IsPair(leaves[i])
  /\ CeilLog2(Len(leaves)) <= IndexWidth + 1

\* What a block is made of.
LEMMA BlockIs ==
  ASSUME NEW b \in Blocks
  PROVE  /\ Len(SubtreesOf[b]) \in Nat \ {0} /\ DOMAIN SubtreesOf[b] = 1..Len(SubtreesOf[b])
         /\ \A st \in DOMAIN SubtreesOf[b] :
              IsSubtree(SubtreesOf[b][st]) /\ SubtreeRoots(b)[st] = MerkleRoot(SubtreesOf[b][st])
         /\ Len(SubtreeRoots(b)) = Len(SubtreesOf[b]) /\ DOMAIN SubtreeRoots(b) = DOMAIN SubtreesOf[b]
<1>1. SubtreesOf[b] \in Seq(Seq(Txid) \ {<< >>}) /\ SubtreesOf[b] # << >>
  BY BatchAssumption
<1>2. PICK S : S = Seq(Txid) \ {<< >>}
  OBVIOUS
<1>3. PICK sts : sts = SubtreesOf[b]
  OBVIOUS
<1>4. sts \in Seq(S) /\ sts # << >>
  BY <1>1, <1>2, <1>3
<1>5. Len(sts) \in Nat \ {0} /\ DOMAIN sts = 1..Len(sts) /\ \A st \in 1..Len(sts) : sts[st] \in S
  BY <1>4, EmptySeq
<1>6. ASSUME NEW st \in DOMAIN sts PROVE IsSubtree(sts[st]) /\ SubtreeRoots(b)[st] = MerkleRoot(sts[st])
  <2>1. PICK leaves : leaves = sts[st]
    OBVIOUS
  <2>2. leaves \in Seq(Txid) /\ leaves # << >>
    BY <1>2, <1>5, <2>1
  <2>3. Len(leaves) \in Nat \ {0} /\ DOMAIN leaves = 1..Len(leaves) /\ \A i \in 1..Len(leaves) : leaves[i] \in Txid
    BY <2>2, EmptySeq
  <2>4. IsSubtree(leaves)
    <3>1. CeilLog2(Len(leaves)) <= IndexWidth + 1
      BY <1>3, <2>1, BatchAssumption
    <3> QED BY <2>3, <3>1, TxidsAreNoPairs DEF IsSubtree
  <2>5. SubtreeRoots(b)[st] = MerkleRoot(sts[st])
    BY <1>3 DEF SubtreeRoots
  <2> QED BY <2>1, <2>4, <2>5
<1>7. Len(SubtreeRoots(b)) = Len(sts) /\ DOMAIN SubtreeRoots(b) = DOMAIN sts
  <2>1. PICK n \in Nat : n = Len(sts)
    BY <1>5, Zenon
  <2>2. PICK f : f = SubtreeRoots(b)
    OBVIOUS
  <2>3. f = [st \in DOMAIN sts |-> MerkleRoot(sts[st])]
    BY <1>3, <2>2 DEF SubtreeRoots
  <2>4. DOMAIN sts = 1..n
    BY <1>5, <2>1
  <2>5. f = [st \in 1..n |-> f[st]]
    BY <2>3, <2>4
  <2> QED BY <2>1, <2>2, <2>4, <2>5, FunctionsAreSeqs
<1> QED BY <1>3, <1>5, <1>6, <1>7

\* What reaches a digest that has a path to the root of a block is a node of the
\* block, a leaf of it if it is a txid, and a node of the subtree of that digest if
\* the path is as long as the block's tree is deep.
PartOfBlock(b, x, root, a) ==
  /\ x \in NodesOf(b)
  /\ x \in Txid => \E st \in DOMAIN SubtreesOf[b] : x \in Range(SubtreesOf[b][st])
  /\ a = CeilLog2(Len(SubtreesOf[b])) =>
       \E st \in DOMAIN SubtreesOf[b] :
         root = SubtreeRoots(b)[st] /\ x \in TreeNodes(SubtreesOf[b][st])

\* Trees over txids end at them, and the tree over their roots at these.
LEMMA NodeOfBlock ==
  ASSUME NEW b \in Blocks, NEW x, NEW root, Reaches(x, root),
         NEW path, NEW a \in Nat, Len(path) = a,
         Fold(root, path) = MerkleRoot(SubtreeRoots(b))
  PROVE  PartOfBlock(b, x, root, a)
<1>1. PICK sts : sts = SubtreesOf[b]
  OBVIOUS
<1>2. PICK roots : roots = SubtreeRoots(b)
  OBVIOUS
<1>3. PICK n \in Nat \ {0} : n = Len(sts) /\ DOMAIN sts = 1..n /\ n = Len(roots) /\ DOMAIN roots = 1..n
  BY <1>1, <1>2, BlockIs
<1>4. \A st \in 1..n : IsSubtree(sts[st]) /\ roots[st] = MerkleRoot(sts[st])
  BY <1>1, <1>2, <1>3, BlockIs
<1>5. ASSUME NEW st \in 1..n, NEW y, Reaches(y, roots[st])
      PROVE  y \in TreeNodes(sts[st]) /\ (y \in Txid => y \in Range(sts[st]))
  <2>1. PICK leaves : leaves = sts[st]
    OBVIOUS
  <2>2. PICK k \in Nat \ {0} : k = Len(leaves)
    BY <1>4, <2>1 DEF IsSubtree
  <2>3. DOMAIN leaves = 1..k /\ \A i \in 1..k : ~IsPair(leaves[i])
    BY <1>4, <2>1, <2>2 DEF IsSubtree
  <2>4. Reaches(y, MerkleRoot(leaves))
    BY <1>4, <1>5, <2>1
  <2>5. y \in TreeNodes(leaves)
    <3>1. CASE \E i \in 1..k : Reaches(y, leaves[i])
      <4>1. PICK i \in 1..k : Reaches(y, leaves[i])
        BY <3>1
      <4>2. y = leaves[i]
        BY <2>3, <4>1, NoPairReached
      <4>3. leaves[i] \in TreeNodes(leaves)
        BY <2>2, <2>3, LeafInTree
      <4> QED BY <4>2, <4>3
    <3> QED BY <2>2, <2>3, <2>4, <3>1, NodeReached
  <2>6. ASSUME y \in Txid PROVE y \in Range(leaves)
    <3>1. PICK i \in 1..k : y = leaves[i]
      BY <2>2, <2>3, <2>5, <2>6, TxidsAreNoPairs, NoPairIsLeaf
    <3> QED BY <2>3, <3>1 DEF Range
  <2> QED BY <2>1, <2>5, <2>6
<1>6. Reaches(x, MerkleRoot(roots))
  <2>1. Reaches(root, MerkleRoot(roots))
    BY <1>2, FoldReaches
  <2> QED BY <2>1, ReachesThrough
<1>7. x \in TreeNodes(roots) \/ \E st \in 1..n : Reaches(x, roots[st])
  BY <1>3, <1>6, NodeReached
<1>8. x \in TreeNodes(roots) \/ \E st \in 1..n : x \in TreeNodes(sts[st])
  BY <1>5, <1>7
<1>9. x \in NodesOf(b)
  BY <1>1, <1>2, <1>3, <1>8 DEF NodesOf
<1>10. ASSUME x \in Txid PROVE \E st \in 1..n : x \in Range(sts[st])
  <2>1. CASE x \in TreeNodes(roots)
    <3>1. PICK st \in 1..n : x = roots[st]
      BY <1>3, <1>10, <2>1, TxidsAreNoPairs, NoPairIsLeaf
    <3>2. Reaches(x, roots[st])
      BY <3>1, ReachesItself
    <3> QED BY <1>5, <1>10, <3>2
  <2>2. CASE \E st \in 1..n : Reaches(x, roots[st])
    BY <1>5, <1>10, <2>2
  <2> QED BY <1>7, <2>1, <2>2
<1>11. ASSUME a = CeilLog2(n) PROVE \E st \in 1..n : root = roots[st] /\ x \in TreeNodes(sts[st])
  <2>1. Len(path) = CeilLog2(Len(roots)) /\ Fold(root, path) = MerkleRoot(roots) /\ Len(roots) \in Nat \ {0}
    BY <1>2, <1>3, <1>11
  <2>2. PICK st \in 1..n : root = roots[st]
    BY <1>3, <2>1, OnlyLeavesProvable
  <2> QED BY <1>5, <2>2
<1> QED BY <1>1, <1>2, <1>3, <1>9, <1>10, <1>11 DEF PartOfBlock

\* What Fetch gives folds to the root of a subtree, and on to the root in its header.
IsFetched(p, leaves) ==
  /\ IsSubtree(leaves) /\ p.Leaf \in Txid
  /\ Len(p.L1) = CeilLog2(Len(leaves))
  /\ p.SubtreeRoot = MerkleRoot(leaves)
  /\ Fold(p.Leaf, p.L1) = p.SubtreeRoot
  /\ Fold(p.SubtreeRoot, p.L2) = HeaderMerkleRoot(p.Header)

\* What Fetch gives is the path of a leaf in the tree of a subtree, and of that in the block's.
LEMMA GenuineIs ==
  ASSUME NEW p, Genuine(p)
  PROVE  \E leaves : IsFetched(p, leaves)
<1>1. PICK b \in Blocks : p \in ProofsOf(b)
  BY DEF Genuine
<1>2. PICK st \in DOMAIN SubtreesOf[b] : p \in {ProofOf(b, st, li) : li \in DOMAIN SubtreesOf[b][st]}
  BY <1>1 DEF ProofsOf
<1>3. PICK li \in DOMAIN SubtreesOf[b][st] : p = ProofOf(b, st, li)
  BY <1>2
<1>4. PICK leaves : leaves = SubtreesOf[b][st]
  OBVIOUS
<1>5. PICK roots : roots = SubtreeRoots(b)
  OBVIOUS
<1>6. IsSubtree(leaves) /\ roots[st] = MerkleRoot(leaves) /\ Len(roots) \in Nat \ {0} /\ st \in 1..Len(roots)
  <2>1. Len(SubtreesOf[b]) \in Nat \ {0} /\ DOMAIN SubtreesOf[b] = 1..Len(SubtreesOf[b])
    BY BlockIs
  <2>2. IsSubtree(SubtreesOf[b][st]) /\ SubtreeRoots(b)[st] = MerkleRoot(SubtreesOf[b][st])
    BY BlockIs
  <2>3. Len(SubtreeRoots(b)) = Len(SubtreesOf[b])
    BY BlockIs
  <2> QED BY <1>4, <1>5, <2>1, <2>2, <2>3
<1>7. PICK n \in Nat \ {0} : n = Len(leaves)
  BY <1>6, Zenon DEF IsSubtree
<1>8. li \in 1..n /\ leaves[li] \in Txid
  BY <1>3, <1>4, <1>6, <1>7 DEF IsSubtree
<1>9. /\ p.Leaf = leaves[li] /\ p.L1 = MerklePath(BuildMerkleTree(leaves), li - 1)
      /\ p.SubtreeRoot = roots[st] /\ p.L2 = MerklePath(BuildMerkleTree(roots), st - 1)
      /\ p.Header = Header(b)
  BY <1>3, <1>4, <1>5 DEF ProofOf
<1>10. Len(p.L1) = CeilLog2(Len(leaves)) /\ Fold(p.Leaf, p.L1) = MerkleRoot(leaves)
  <2>1. PICK index \in 0..(Len(leaves) - 1) : index = li - 1 /\ index + 1 = li
    <3>1. li - 1 \in 0..(Len(leaves) - 1) /\ (li - 1) + 1 = li
      BY <1>7, <1>8
    <3> QED BY <3>1
  <2>2. /\ Len(MerklePath(BuildMerkleTree(leaves), index)) = CeilLog2(Len(leaves))
        /\ Fold(leaves[index + 1], MerklePath(BuildMerkleTree(leaves), index)) = MerkleRoot(leaves)
    BY <1>7, EveryLeafProvable
  <2> QED BY <1>9, <2>1, <2>2
<1>11. Fold(p.SubtreeRoot, p.L2) = MerkleRoot(roots)
  <2>1. PICK index \in 0..(Len(roots) - 1) : index = st - 1 /\ index + 1 = st
    <3>1. st - 1 \in 0..(Len(roots) - 1) /\ (st - 1) + 1 = st
      BY <1>6
    <3> QED BY <3>1
  <2>2. Fold(roots[index + 1], MerklePath(BuildMerkleTree(roots), index)) = MerkleRoot(roots)
    BY <1>6, EveryLeafProvable
  <2> QED BY <1>9, <2>1, <2>2
<1>12. HeaderMerkleRoot(p.Header) = MerkleRoot(roots)
  BY <1>5, <1>9 DEF HeaderMerkleRoot, Header
<1> QED BY <1>6, <1>8, <1>9, <1>10, <1>11, <1>12 DEF IsFetched

\* Two of them with one subtree root have the same node at the same place.
LEMMA GenuineMeet ==
  ASSUME NEW p, NEW q, Genuine(p), Genuine(q), p.SubtreeRoot = q.SubtreeRoot,
         NEW n \in Nat, Len(p.L1) = n, NEW m \in Nat, Len(q.L1) = m, NEW l \in 1..n,
         NodeIndex(p.L1, l) = NodeIndex(q.L1, l)
  PROVE  Climbed(p.Leaf, p.L1)[l] = Climbed(q.Leaf, q.L1)[l]
<1>1. PICK leaves : IsFetched(p, leaves)
  BY GenuineIs
<1>2. PICK others : IsFetched(q, others)
  BY GenuineIs
<1>3. PICK k \in Nat \ {0} : k = Len(leaves) /\ \A i \in 1..k : ~IsPair(leaves[i])
  BY <1>1, Zenon DEF IsFetched, IsSubtree
<1>4. ~IsPair(p.Leaf) /\ ~IsPair(q.Leaf)
  BY <1>1, <1>2, TxidsAreNoPairs DEF IsFetched
<1>5. Fold(p.Leaf, p.L1) = MerkleRoot(leaves) /\ Fold(q.Leaf, q.L1) = MerkleRoot(leaves)
  BY <1>1, <1>2 DEF IsFetched
<1>6. n = CeilLog2(k)
  BY <1>3, <1>4, <1>5, LeavesBindDepth
<1>7. m = CeilLog2(k)
  BY <1>3, <1>4, <1>5, LeavesBindDepth
<1>8. m = n
  BY <1>6, <1>7
<1>0. n <= WordWidth
  <2>1. k \in Nat /\ n <= IndexWidth + 1
    BY <1>1, <1>3, <1>6 DEF IsFetched, IsSubtree
  <2> QED BY <2>1, BatchAssumption
<1>9. \A j \in (l + 1)..n : p.L1[j].Right <=> q.L1[j].Right
  <2>1. PICK f : f = p.L1
    OBVIOUS
  <2>2. PICK g : g = q.L1
    OBVIOUS
  <2>3. Len(f) = n /\ Len(g) = n /\ NodeIndex(f, l) = NodeIndex(g, l)
    BY <1>8, <2>1, <2>2
  <2>4. \A j \in (l + 1)..n : f[j].Right <=> g[j].Right
    BY <1>0, <2>3, SidesAbove
  <2> QED BY <2>1, <2>2, <2>4
<1>10. l \in 0..n /\ Fold(p.Leaf, p.L1) = Fold(q.Leaf, q.L1)
  BY <1>5
<1> QED BY <1>8, <1>9, <1>10, MeetBelow

-----------------------------------------------------------------------------
(***************************************************************************)
(* The invariant                                                           *)
(***************************************************************************)
\* A call is over one of the batches, and the chain of now is one it has seen.
CallShape ==
  /\ batch \in Batches \cup {<< >>}
  /\ onBest \subseteq Blocks /\ seen \subseteq SUBSET Blocks
  /\ next \in Nat
  /\ next # 0 => next <= Len(batch) + 1 /\ verdict = "none" /\ onBest \in seen
  /\ OneEach(ids)

\* A header remembered was on the chain, and a subtree root remembered has the
\* number it is remembered by and the L2 of an earlier proof.
RememberedRoots ==
  /\ \A hdr \in headerOK : \E chain \in seen : OnChain(hdr, chain)
  /\ subtreeOK = Range(ids) /\ Len(ids) < next
  /\ \A root \in subtreeOK : \E i \in 1..(next - 1) :
       /\ batch[i].SubtreeRoot = root /\ batch[i].Header \in headerOK
       /\ Fold(root, batch[i].L2) = HeaderMerkleRoot(batch[i].Header)

\* Some path goes up to a root remembered, whichever.
UnderOne(x, roots) == \E r \in roots : Reaches(x, r)

\* A node remembered is a node of an earlier proof, under that proof's root in
\* the place its key names, and some path goes from it up to a root: when no keys
\* can run into each other, to that proof's.
RememberedNodes ==
  \A k \in DOMAIN memo : \E i \in 1..(next - 1) : \E l \in 1..Len(batch[i].L1) :
    /\ batch[i].SubtreeRoot \in Range(ids)
    /\ k = KeyIn(wire, ids, batch[i].SubtreeRoot, l, NodeIndex(batch[i].L1, l))
    /\ memo[k] = Climbed(batch[i].Leaf, batch[i].L1)[l]
    /\ UnderOne(memo[k], subtreeOK)
    /\ KeysApart => Reaches(memo[k], batch[i].SubtreeRoot)

\* Every proof behind has its leaf under a root, whether its climb went all the way
\* or ended at a node that was known, and under its own when no keys can run into
\* each other.
LeavesBelow ==
  \A i \in 1..(next - 1) :
    /\ batch[i].SubtreeRoot \in subtreeOK /\ UnderOne(batch[i].Leaf, subtreeOK)
    /\ KeysApart => Reaches(batch[i].Leaf, batch[i].SubtreeRoot)

BatchInv ==
  /\ CallShape
  /\ next # 0 => RememberedRoots /\ RememberedNodes /\ LeavesBelow
  /\ AcceptedLeavesIncluded /\ GenuineBatchAccepted

\* What may be handed in: paths of which all nodes are different.
NodesApart(node, n) == \A g, h \in 0..n : node[g] = node[h] => g = h
Fits(p) ==
  /\ Len(p.L1) \in Nat /\ Len(p.L2) \in Nat
  /\ p.Header.block \in Blocks => p.Header = Header(p.Header.block)
  /\ NodesApart(Climbed(p.Leaf, p.L1), Len(p.L1))

\* The proofs of the call under way are such as may be presented.
LEMMA BatchIs ==
  ASSUME CallShape
  PROVE  Len(batch) \in Nat /\ DOMAIN batch = 1..Len(batch) /\ \A i \in 1..Len(batch) : Fits(batch[i])
<1>1. CASE batch = << >>
  BY <1>1
<1>2. CASE batch \in Batches
  <2>1. batch \in Seq(Range(batch)) /\ \A i \in DOMAIN batch : Presentable(batch[i])
    BY <1>2, BatchAssumption
  <2>2. Len(batch) \in Nat /\ DOMAIN batch = 1..Len(batch)
    BY <2>1
  <2>3. ASSUME NEW p, Presentable(p) PROVE Fits(p)
    <3>1. p.L1 \in Seq(Range(p.L1)) /\ p.L2 \in Seq(Range(p.L2))
      BY <2>3 DEF Presentable
    <3>2. Len(p.L1) \in Nat /\ Len(p.L2) \in Nat
      BY <3>1
    <3>3. NodesApart(Climbed(p.Leaf, p.L1), Len(p.L1))
      BY <2>3, Zenon DEF Presentable, NodesApart
    <3> QED BY <2>3, <3>2, <3>3 DEF Fits, Presentable
  <2> QED BY <2>1, <2>2, <2>3
<1> QED BY <1>1, <1>2 DEF CallShape

\* The key of a node, by the roots met once its root is.
LEMMA KeyOf ==
  ASSUME NEW root, NEW level, NEW path
  PROVE  NodeKey(root, level, path) = KeyIn(wire, MetIn(ids, root), root, level, NodeIndex(path, level))
BY DEF NodeKey, KeyIn, Id, NumberIn, Met, MetIn

\* When no keys can run into each other, every key of the batch loses nothing.
LEMMA KeyFits ==
  ASSUME CallShape, RememberedRoots, next \in DOMAIN batch, wire, KeysApart,
         NEW more, more = MetIn(ids, batch[next].SubtreeRoot), NEW root \in Range(more),
         NEW i \in DOMAIN batch, NEW path, path = batch[i].L1, NEW l \in 1..Len(path)
  PROVE  FitsKey(more, root, l, NodeIndex(path, l))
<1>1. Len(batch) \in Nat /\ DOMAIN batch = 1..Len(batch) /\ Fits(batch[i])
  BY BatchIs
<1>2. PICK n \in Nat : n = Len(path)
  BY <1>1 DEF Fits
<1>3. n <= IndexWidth + 1
  BY <1>2 DEF KeysApart
<1>4. NodeIndex(path, l) \subseteq 0..(IndexWidth - 1)
  BY <1>2, <1>3, IndexFits
<1>5. l \in 0..WordWidth
  BY <1>2, <1>3, BatchAssumption
<1>6. OneEach(ids)
  BY DEF CallShape
<1>7. OneEach(more) /\ Len(ids) \in Nat /\ Len(more) <= Len(ids) + 1
  BY <1>6, MetIs
<1>8. PICK k \in 1..Len(more) : more[k] = root
  BY <1>7, PlaceOf
<1>9. NumberIn(more, root) = k - 1
  BY <1>7, <1>8, NumberIs
<1>10. k \in DOMAIN batch
  <2>1. Len(ids) < next /\ next \in 1..Len(batch)
    BY <1>1 DEF RememberedRoots
  <2>2. Len(more) \in Nat
    BY <1>7 DEF OneEach
  <2> QED BY <1>1, <1>7, <2>1, <2>2
<1>11. Bits(k - 1) \subseteq 0..(WordWidth - LevelWidth - IndexWidth - 1)
  BY <1>10 DEF KeysApart, NumbersFit
<1> QED BY <1>4, <1>5, <1>9, <1>11 DEF FitsKey

\* A known node on the way up is a node of an earlier proof; when no keys can run
\* into each other, under the same root and in the same place.
MetAt(i, l, root, j, path, v) ==
  /\ l \in 1..Len(batch[i].L1) /\ v = Climbed(batch[i].Leaf, batch[i].L1)[l]
  /\ UnderOne(v, subtreeOK)
  /\ KeysApart => /\ batch[i].SubtreeRoot = root /\ l = j
                  /\ NodeIndex(batch[i].L1, l) = NodeIndex(path, j)
                  /\ Reaches(v, root)

\* A key that the climb finds taken, and either with the node of the climb under it
\* or when no keys can run into each other, was taken before the climb.
LEMMA KnownBefore ==
  ASSUME CallShape, RememberedRoots, next \in DOMAIN batch,
         NEW p, p = batch[next], NEW n \in Nat, Len(p.L1) = n,
         NEW node, node = Climbed(p.Leaf, p.L1),
         NEW K, K = [j \in 1..n |-> NodeKey(p.SubtreeRoot, j, p.L1)],
         NEW M, NEW h \in 0..(n - 1), Grown(memo, M, K, node, h), K[h + 1] \in DOMAIN M,
         KeysApart \/ M[K[h + 1]] = node[h + 1]
  PROVE  K[h + 1] \in DOMAIN memo /\ M[K[h + 1]] = memo[K[h + 1]]
<1>1. PICK root : root = p.SubtreeRoot
  OBVIOUS
<1>2. PICK more : more = MetIn(ids, root)
  OBVIOUS
<1>3. OneEach(ids)
  BY DEF CallShape
<1>4. OneEach(more) /\ root \in Range(more)
  BY <1>2, <1>3, MetIs
<1>5. \A j \in 1..n : K[j] = KeyIn(wire, more, root, j, NodeIndex(p.L1, j))
  BY <1>1, <1>2, KeyOf
<1>6. PICK a \in 1..n : a = h + 1
  <2>1. h + 1 \in 1..n
    OBVIOUS
  <2> QED BY <2>1
<1>7. /\ DOMAIN M = DOMAIN memo \cup {K[g] : g \in 1..h} /\ \A k \in DOMAIN memo : M[k] = memo[k]
      /\ \A g \in 1..h : K[g] \notin DOMAIN memo /\ M[K[g]] = node[g]
  BY DEF Grown
<1>8. ASSUME NEW g \in 1..h, K[g] = K[a] PROVE FALSE
  <2>1. g \in 1..n /\ g # a /\ g \in 0..n /\ a \in 0..n
    BY <1>6
  <2>2. CASE M[K[h + 1]] = node[h + 1]
    <3>1. node[g] = node[a]
      <4>1. M[K[a]] = node[a]
        BY <1>6, <2>2, Zenon
      <4>2. M[K[g]] = node[g]
        BY <1>7, Zenon
      <4> QED BY <1>8, <4>1, <4>2, Zenon
    <3>2. NodesApart(node, n)
      <4>1. Fits(p)
        BY BatchIs
      <4> QED BY <4>1 DEF Fits
    <3> QED BY <2>1, <3>1, <3>2 DEF NodesApart
  <2>3. CASE KeysApart
    <3>1. KeyIn(wire, more, root, g, NodeIndex(p.L1, g)) = KeyIn(wire, more, root, a, NodeIndex(p.L1, a))
      BY <1>5, <1>8, <2>1
    <3>2. ASSUME wire
          PROVE  /\ FitsKey(more, root, g, NodeIndex(p.L1, g))
                 /\ FitsKey(more, root, a, NodeIndex(p.L1, a))
      BY <1>1, <1>2, <1>4, <2>1, <2>3, <3>2, KeyFits
    <3>3. SameNode(root, g, NodeIndex(p.L1, g), root, a, NodeIndex(p.L1, a))
      BY <1>4, <3>1, <3>2, KeyNamesNode, Zenon
    <3> QED BY <2>1, <3>3 DEF SameNode
  <2> QED BY <2>2, <2>3
<1> QED BY <1>6, <1>7, <1>8

\* Such a key names the node of an earlier proof.
LEMMA KnownMet ==
  ASSUME CallShape, RememberedRoots, RememberedNodes, next \in DOMAIN batch,
         NEW p, p = batch[next], NEW n \in Nat, Len(p.L1) = n,
         NEW K, K = [j \in 1..n |-> NodeKey(p.SubtreeRoot, j, p.L1)],
         NEW a \in 1..n, K[a] \in DOMAIN memo
  PROVE  \E i \in 1..(next - 1) : \E l : MetAt(i, l, p.SubtreeRoot, a, p.L1, memo[K[a]])
<1>1. PICK root : root = p.SubtreeRoot
  OBVIOUS
<1>2. PICK more : more = MetIn(ids, root)
  OBVIOUS
<1>3. OneEach(ids)
  BY DEF CallShape
<1>4. OneEach(more) /\ Range(more) = Range(ids) \cup {root}
  BY <1>2, <1>3, MetIs
<1>5. K[a] = KeyIn(wire, more, root, a, NodeIndex(p.L1, a))
  BY <1>1, <1>2, KeyOf
<1>6. Len(batch) \in Nat /\ DOMAIN batch = 1..Len(batch)
  BY BatchIs
<1>7. PICK i \in 1..(next - 1) : \E l \in 1..Len(batch[i].L1) :
         /\ batch[i].SubtreeRoot \in Range(ids)
         /\ K[a] = KeyIn(wire, ids, batch[i].SubtreeRoot, l, NodeIndex(batch[i].L1, l))
         /\ memo[K[a]] = Climbed(batch[i].Leaf, batch[i].L1)[l]
         /\ UnderOne(memo[K[a]], subtreeOK)
         /\ KeysApart => Reaches(memo[K[a]], batch[i].SubtreeRoot)
  BY DEF RememberedNodes
<1>8. PICK q : q = batch[i]
  OBVIOUS
<1>9. PICK l \in 1..Len(q.L1) :
         /\ q.SubtreeRoot \in Range(ids)
         /\ K[a] = KeyIn(wire, ids, q.SubtreeRoot, l, NodeIndex(q.L1, l))
         /\ memo[K[a]] = Climbed(q.Leaf, q.L1)[l]
         /\ UnderOne(memo[K[a]], subtreeOK)
         /\ KeysApart => Reaches(memo[K[a]], q.SubtreeRoot)
  BY <1>7, <1>8
<1>10. i \in DOMAIN batch
  BY <1>6
<1>11. ASSUME KeysApart
       PROVE  q.SubtreeRoot = root /\ l = a /\ NodeIndex(q.L1, l) = NodeIndex(p.L1, a)
  <2>1. PICK r \in Range(ids) : r = q.SubtreeRoot
    BY <1>9
  <2>2. KeyIn(wire, more, r, l, NodeIndex(q.L1, l)) = KeyIn(wire, ids, r, l, NodeIndex(q.L1, l))
    BY <1>2, <1>3, KeyStays
  <2>3. KeyIn(wire, more, r, l, NodeIndex(q.L1, l)) = KeyIn(wire, more, root, a, NodeIndex(p.L1, a))
    BY <1>5, <1>9, <2>1, <2>2
  <2>4. r \in Range(more) /\ root \in Range(more)
    BY <1>4
  <2>5. ASSUME wire
        PROVE  FitsKey(more, r, l, NodeIndex(q.L1, l)) /\ FitsKey(more, root, a, NodeIndex(p.L1, a))
    <3>1. more = MetIn(ids, batch[next].SubtreeRoot)
      BY <1>1, <1>2
    <3>2. FitsKey(more, r, l, NodeIndex(q.L1, l))
      BY <1>8, <1>10, <1>11, <2>4, <2>5, <3>1, KeyFits
    <3>3. FitsKey(more, root, a, NodeIndex(p.L1, a))
      BY <1>11, <2>4, <2>5, <3>1, KeyFits
    <3> QED BY <3>2, <3>3
  <2>6. SameNode(r, l, NodeIndex(q.L1, l), root, a, NodeIndex(p.L1, a))
    BY <1>4, <2>3, <2>5, KeyNamesNode
  <2> QED BY <2>1, <2>6 DEF SameNode
<1>12. MetAt(i, l, root, a, p.L1, memo[K[a]])
  BY <1>8, <1>9, <1>11 DEF MetAt
<1> QED BY <1>1, <1>12

\* A climb that ends well leaves nodes that reach a root, up from the leaf.
Through(p, m, M, K, node, n) ==
  \E h \in 0..n : \E t \in h..n :
    /\ Grown(m, M, K, node, h)
    /\ UnderOne(node[t], subtreeOK \cup {p.SubtreeRoot})
    /\ KeysApart => Reaches(node[t], p.SubtreeRoot)

\* A climb that reaches the subtree leaves nodes that reach a root as well.
LEMMA ClimbedThrough ==
  ASSUME CallShape, RememberedRoots, RememberedNodes, next \in DOMAIN batch,
         NEW p, p = batch[next], NEW n \in Nat, Len(p.L1) = n,
         NEW node, node = Climbed(p.Leaf, p.L1),
         NEW K, K = [j \in 1..n |-> NodeKey(p.SubtreeRoot, j, p.L1)],
         SubtreeReached(p, Climb(p, memo))
  PROVE  Through(p, memo, Climb(p, memo).memo, K, node, n)
<1>1. PICK c : c = Climb(p, memo)
  OBVIOUS
<1>2. Came(c, memo, K, node, n)
  BY <1>1, ClimbCame
<1>3. CASE AllNew(c, memo, K, node, n)
  <2>1. c.end = "root" /\ c.cur = node[n] /\ Grown(memo, c.memo, K, node, n)
    BY <1>3 DEF AllNew
  <2>2. node[n] = p.SubtreeRoot
    BY <1>1, <2>1 DEF SubtreeReached
  <2>3. n \in 0..n /\ n \in n..n
    OBVIOUS
  <2>4. Reaches(node[n], p.SubtreeRoot)
    BY <2>2, ReachesItself
  <2>5. UnderOne(node[n], subtreeOK \cup {p.SubtreeRoot})
    BY <2>4 DEF UnderOne
  <2> QED BY <1>1, <2>1, <2>3, <2>4, <2>5 DEF Through
<1>4. CASE Stopped(c, memo, K, node, n)
  <2>1. PICK h \in 0..(n - 1) :
          /\ Grown(memo, c.memo, K, node, h)
          /\ K[h + 1] \in DOMAIN c.memo
          /\ \/ c.end = "merged" /\ c.memo[K[h + 1]] = node[h + 1]
             \/ c.end = "clash" /\ c.memo[K[h + 1]] # node[h + 1]
    BY <1>4 DEF Stopped
  <2>2. c.memo[K[h + 1]] = node[h + 1]
    BY <1>1, <2>1 DEF SubtreeReached
  <2>3. PICK a \in 1..n : a = h + 1
    <3>1. h + 1 \in 1..n
      OBVIOUS
    <3> QED BY <3>1
  <2>4. K[a] \in DOMAIN memo /\ memo[K[a]] = node[a]
    <3>1. K[h + 1] \in DOMAIN memo /\ c.memo[K[h + 1]] = memo[K[h + 1]]
      BY <2>1, <2>2, KnownBefore
    <3> QED BY <2>2, <2>3, <3>1
  <2>5. PICK i \in 1..(next - 1) : \E l : MetAt(i, l, p.SubtreeRoot, a, p.L1, node[a])
    <3>1. \E i \in 1..(next - 1) : \E l : MetAt(i, l, p.SubtreeRoot, a, p.L1, memo[K[a]])
      BY <2>4, KnownMet
    <3> QED BY <2>4, <3>1
  <2>6. PICK l : MetAt(i, l, p.SubtreeRoot, a, p.L1, node[a])
    BY <2>5
  <2>7. UnderOne(node[a], subtreeOK \cup {p.SubtreeRoot}) /\ (KeysApart => Reaches(node[a], p.SubtreeRoot))
    BY <2>6, Zenon DEF MetAt, UnderOne
  <2>8. h \in 0..n /\ a \in h..n
    BY <2>3
  <2> QED BY <1>1, <2>1, <2>7, <2>8 DEF Through
<1> QED BY <1>2, <1>3, <1>4 DEF Came

-----------------------------------------------------------------------------
(***************************************************************************)
(* Every step keeps it                                                     *)
(***************************************************************************)
\* Before the first call nothing is claimed.
LEMMA InitKeeps == Init => BatchInv
<1> SUFFICES ASSUME Init PROVE BatchInv
  OBVIOUS
<1>1. OneEach(ids)
  <2>1. ids = << >>
    BY DEF Init
  <2> QED BY <2>1 DEF OneEach
<1>2. CallShape
  BY <1>1 DEF Init, CallShape
<1> QED BY <1>2 DEF Init, BatchInv, AcceptedLeavesIncluded, GenuineBatchAccepted

\* A call begins with empty maps, about which nothing has to hold.
LEMMA StartKeeps ==
  ASSUME BatchInv, NEW proofs \in Batches, NEW form \in BOOLEAN, Start(proofs, form)
  PROVE  BatchInv'
<1>1. /\ batch' = proofs /\ wire' = form /\ next' = 1 /\ verdict' = "none"
      /\ ids' = << >> /\ memo' = << >> /\ subtreeOK' = {} /\ headerOK' = {}
      /\ seen' = {onBest} /\ onBest' = onBest
  BY DEF Start
<1>2. OneEach(ids')
  BY <1>1 DEF OneEach
<1>3. Len(proofs) \in Nat
  <2>1. proofs \in Seq(Range(proofs))
    BY BatchAssumption
  <2> QED BY <2>1
<1>4. CallShape'
  BY <1>1, <1>2, <1>3 DEF BatchInv, CallShape
<1>5. RememberedRoots' /\ RememberedNodes' /\ LeavesBelow'
  <2>1. Range(ids') = {}
    BY <1>1 DEF Range
  <2>2. Len(ids') < next'
    BY <1>1
  <2> QED BY <1>1, <2>1, <2>2 DEF RememberedRoots, RememberedNodes, LeavesBelow
<1>6. AcceptedLeavesIncluded' /\ GenuineBatchAccepted'
  BY <1>1 DEF AcceptedLeavesIncluded, GenuineBatchAccepted
<1> QED BY <1>4, <1>5, <1>6 DEF BatchInv

\* A proof that passes leaves only nodes under roots that reach a block, and the
\* next one finds in them what the invariant says.
LEMMA VerifyNextKeeps ==
  ASSUME BatchInv, VerifyNext
  PROVE  BatchInv'
<1>1. PICK p : p = batch[next]
  OBVIOUS
<1>2. PICK M : M = Climb(p, memo).memo
  OBVIOUS
<1>3. PICK root : root = p.SubtreeRoot
  OBVIOUS
<1>4. /\ next \in DOMAIN batch
      /\ SubtreeReached(p, Climb(p, memo)) /\ BlockReached(p) /\ HeaderReached(p)
      /\ ids' = MetIn(ids, root) /\ memo' = M
      /\ subtreeOK' = subtreeOK \cup {root} /\ headerOK' = headerOK \cup {p.Header}
      /\ next' = next + 1
      /\ onBest' = onBest /\ batch' = batch /\ wire' = wire /\ verdict' = verdict /\ seen' = seen
  BY <1>1, <1>2, <1>3 DEF VerifyNext, Met, MetIn
<1>5. CallShape
  BY DEF BatchInv
<1>6. Len(batch) \in Nat /\ DOMAIN batch = 1..Len(batch) /\ \A i \in 1..Len(batch) : Fits(batch[i])
  BY <1>5, BatchIs
<1>7. next \in 1..Len(batch) /\ next # 0 /\ verdict = "none" /\ onBest \in seen
  BY <1>4, <1>5, <1>6 DEF CallShape
<1>8. RememberedRoots /\ RememberedNodes /\ LeavesBelow
  BY <1>7 DEF BatchInv
<1>9. /\ OneEach(ids) /\ OneEach(ids') /\ Range(ids') = Range(ids) \cup {root}
      /\ Len(ids) \in Nat /\ Len(ids') <= Len(ids) + 1
  <2>1. OneEach(ids)
    BY <1>5 DEF CallShape
  <2> QED BY <1>4, <2>1, MetIs
<1>10. CallShape'
  BY <1>4, <1>5, <1>6, <1>7, <1>9 DEF CallShape
<1>11. next' - 1 = next /\ 1..(next' - 1) = (1..(next - 1)) \cup {next}
  BY <1>4, <1>7
<1>12. RememberedRoots'
  <2>1. \A hdr \in headerOK' : \E chain \in seen' : OnChain(hdr, chain)
    BY <1>4, <1>7, <1>8 DEF RememberedRoots, HeaderReached
  <2>2. subtreeOK' = Range(ids')
    BY <1>4, <1>8, <1>9 DEF RememberedRoots
  <2>4. Len(ids') < next'
    <3>1. Len(ids) < next /\ Len(ids') \in Nat
      BY <1>8, <1>9 DEF RememberedRoots, OneEach
    <3> QED BY <1>4, <1>7, <1>9, <3>1
  <2>3. ASSUME NEW r \in subtreeOK'
        PROVE  \E i \in 1..(next' - 1) :
                 /\ batch'[i].SubtreeRoot = r /\ batch'[i].Header \in headerOK'
                 /\ Fold(r, batch'[i].L2) = HeaderMerkleRoot(batch'[i].Header)
    <3>1. CASE r \in subtreeOK
      <4>1. PICK i \in 1..(next - 1) :
              /\ batch[i].SubtreeRoot = r /\ batch[i].Header \in headerOK
              /\ Fold(r, batch[i].L2) = HeaderMerkleRoot(batch[i].Header)
        BY <1>8, <3>1 DEF RememberedRoots
      <4>2. i \in 1..(next' - 1)
        BY <1>11
      <4> QED BY <1>4, <4>1, <4>2
    <3>2. CASE r \notin subtreeOK
      <4>1. r = root
        BY <1>4, <3>2
      <4>2. Fold(r, p.L2) = HeaderMerkleRoot(p.Header)
        BY <1>3, <1>4, <3>2, <4>1 DEF BlockReached
      <4>3. next \in 1..(next' - 1) /\ batch'[next] = p /\ p.Header \in headerOK'
        BY <1>1, <1>4, <1>11
      <4> QED BY <1>3, <4>1, <4>2, <4>3
    <3> QED BY <3>1, <3>2
  <2> QED BY <2>1, <2>2, <2>3, <2>4 DEF RememberedRoots
<1>13. Fits(p)
  BY <1>1, <1>6, <1>7
<1>14. PICK n \in Nat : n = Len(p.L1)
  BY <1>13 DEF Fits
<1>15. PICK node : node = Climbed(p.Leaf, p.L1)
  OBVIOUS
<1>16. PICK K : K = [j \in 1..n |-> NodeKey(p.SubtreeRoot, j, p.L1)]
  OBVIOUS
<1>17. Through(p, memo, M, K, node, n)
  BY <1>1, <1>2, <1>4, <1>5, <1>8, <1>14, <1>15, <1>16, ClimbedThrough
<1>18. PICK h \in 0..n : \E t \in h..n :
         /\ Grown(memo, M, K, node, h)
         /\ UnderOne(node[t], subtreeOK \cup {p.SubtreeRoot})
         /\ KeysApart => Reaches(node[t], p.SubtreeRoot)
  BY <1>17 DEF Through
<1>19. PICK t \in h..n :
         /\ Grown(memo, M, K, node, h)
         /\ UnderOne(node[t], subtreeOK') /\ (KeysApart => Reaches(node[t], root))
  BY <1>3, <1>4, <1>18
<1>20. \A g \in 0..t : UnderOne(node[g], subtreeOK') /\ (KeysApart => Reaches(node[g], root))
  <2>1. SUFFICES ASSUME NEW g \in 0..t
                 PROVE  UnderOne(node[g], subtreeOK') /\ (KeysApart => Reaches(node[g], root))
    OBVIOUS
  <2>2. g \in 0..n /\ t \in g..n
    OBVIOUS
  <2>3. Reaches(node[g], node[t])
    BY <1>14, <1>15, <2>2, ClimbReaches
  <2>4. \A r : Reaches(node[t], r) => Reaches(node[g], r)
    BY <2>3, ReachesThrough
  <2> QED BY <1>19, <2>4, Zenon DEF UnderOne
<1>25. KeysApart' <=> KeysApart
  BY <1>4 DEF KeysApart, NumbersFit
<1>26. \A x : UnderOne(x, subtreeOK) => UnderOne(x, subtreeOK')
  BY <1>4 DEF UnderOne
<1>21. RememberedNodes'
  <2>1. SUFFICES ASSUME NEW k \in DOMAIN M
                 PROVE  \E i \in 1..(next' - 1) : \E l \in 1..Len(batch[i].L1) :
                          /\ batch[i].SubtreeRoot \in Range(ids')
                          /\ k = KeyIn(wire, ids', batch[i].SubtreeRoot, l, NodeIndex(batch[i].L1, l))
                          /\ M[k] = Climbed(batch[i].Leaf, batch[i].L1)[l]
                          /\ UnderOne(M[k], subtreeOK')
                          /\ KeysApart' => Reaches(M[k], batch[i].SubtreeRoot)
    <3>1. memo' = M /\ batch' = batch /\ wire' = wire
      BY <1>4
    <3> QED BY <3>1 DEF RememberedNodes
  <2>2. DOMAIN M = DOMAIN memo \cup {K[g] : g \in 1..h}
    BY <1>19 DEF Grown
  <2>3. CASE k \in DOMAIN memo
    <3>1. M[k] = memo[k]
      BY <1>19, <2>3 DEF Grown
    <3>2. PICK i \in 1..(next - 1) : \E l \in 1..Len(batch[i].L1) :
            /\ batch[i].SubtreeRoot \in Range(ids)
            /\ k = KeyIn(wire, ids, batch[i].SubtreeRoot, l, NodeIndex(batch[i].L1, l))
            /\ memo[k] = Climbed(batch[i].Leaf, batch[i].L1)[l]
            /\ UnderOne(memo[k], subtreeOK)
            /\ KeysApart => Reaches(memo[k], batch[i].SubtreeRoot)
      BY <1>8, <2>3 DEF RememberedNodes
    <3>3. PICK q : q = batch[i]
      OBVIOUS
    <3>4. PICK l \in 1..Len(q.L1) :
            /\ q.SubtreeRoot \in Range(ids)
            /\ k = KeyIn(wire, ids, q.SubtreeRoot, l, NodeIndex(q.L1, l))
            /\ memo[k] = Climbed(q.Leaf, q.L1)[l]
            /\ UnderOne(memo[k], subtreeOK)
            /\ KeysApart => Reaches(memo[k], q.SubtreeRoot)
      BY <3>2, <3>3
    <3>5. PICK r \in Range(ids) : r = q.SubtreeRoot
      BY <3>4
    <3>6. KeyIn(wire, ids', r, l, NodeIndex(q.L1, l)) = KeyIn(wire, ids, r, l, NodeIndex(q.L1, l))
      BY <1>4, <1>9, KeyStays
    <3>7. k = KeyIn(wire, ids', q.SubtreeRoot, l, NodeIndex(q.L1, l)) /\ q.SubtreeRoot \in Range(ids')
      BY <1>9, <3>4, <3>5, <3>6
    <3>8. i \in 1..(next' - 1)
      BY <1>11
    <3>9. UnderOne(M[k], subtreeOK')
      BY <1>26, <3>1, <3>4
    <3> QED BY <1>25, <3>1, <3>3, <3>4, <3>7, <3>8, <3>9
  <2>4. CASE k \notin DOMAIN memo
    <3>1. PICK g \in 1..h : k = K[g]
      BY <2>2, <2>4
    <3>2. M[k] = node[g]
      BY <1>19, <3>1 DEF Grown
    <3>3. g \in 1..n /\ g \in 0..t
      OBVIOUS
    <3>4. k = KeyIn(wire, ids', root, g, NodeIndex(p.L1, g))
      <4>1. K[g] = NodeKey(root, g, p.L1)
        BY <1>3, <1>16, <3>3
      <4>2. NodeKey(root, g, p.L1) = KeyIn(wire, MetIn(ids, root), root, g, NodeIndex(p.L1, g))
        BY KeyOf
      <4> QED BY <1>4, <3>1, <4>1, <4>2
    <3>5. UnderOne(M[k], subtreeOK') /\ (KeysApart => Reaches(M[k], root)) /\ root \in Range(ids')
      BY <1>9, <1>20, <3>2, <3>3
    <3>6. next \in 1..(next' - 1)
      BY <1>11
    <3>7. g \in 1..Len(batch[next].L1)
      BY <1>1, <1>14, <3>3
    <3> QED BY <1>1, <1>3, <1>15, <1>25, <3>2, <3>4, <3>5, <3>6, <3>7
  <2> QED BY <2>3, <2>4
<1>22. LeavesBelow'
  <2>1. UnderOne(p.Leaf, subtreeOK') /\ (KeysApart => Reaches(p.Leaf, root))
    <3>1. node[0] = p.Leaf
      BY <1>14, <1>15, ClimbedIs
    <3>2. 0 \in 0..t
      OBVIOUS
    <3> QED BY <1>20, <3>1, <3>2
  <2>2. ASSUME NEW i \in 1..(next' - 1)
        PROVE  /\ batch[i].SubtreeRoot \in subtreeOK' /\ UnderOne(batch[i].Leaf, subtreeOK')
               /\ KeysApart => Reaches(batch[i].Leaf, batch[i].SubtreeRoot)
    <3>1. CASE i \in 1..(next - 1)
      BY <1>4, <1>8, <1>26, <3>1 DEF LeavesBelow
    <3>2. CASE i = next
      BY <1>1, <1>3, <1>4, <2>1, <3>2
    <3> QED BY <1>11, <3>1, <3>2
  <2> QED BY <1>4, <1>25, <2>2 DEF LeavesBelow
<1>23. AcceptedLeavesIncluded' /\ GenuineBatchAccepted'
  BY <1>4, <1>7 DEF AcceptedLeavesIncluded, GenuineBatchAccepted
<1> QED BY <1>10, <1>12, <1>21, <1>22, <1>23 DEF BatchInv

\* A header on a chain seen is one of a block, with the root of the block.
LEMMA HeaderIs ==
  ASSUME CallShape, NEW i \in DOMAIN batch, NEW chain \in seen, OnChain(batch[i].Header, chain)
  PROVE  /\ batch[i].Header.block \in Blocks /\ batch[i].Header.block \in UNION seen
         /\ HeaderMerkleRoot(batch[i].Header) = MerkleRoot(SubtreeRoots(batch[i].Header.block))
<1>1. PICK p : p = batch[i]
  OBVIOUS
<1>2. Fits(p)
  BY <1>1, BatchIs
<1>3. p.Header.block \in chain
  BY <1>1 DEF OnChain
<1>4. p.Header.block \in Blocks /\ p.Header.block \in UNION seen
  BY <1>3 DEF CallShape
<1>5. p.Header = Header(p.Header.block)
  BY <1>2, <1>4 DEF Fits
<1>6. PICK b : b = p.Header.block
  OBVIOUS
<1>7. HeaderMerkleRoot(Header(b)) = MerkleRoot(SubtreeRoots(b))
  BY DEF HeaderMerkleRoot, Header
<1> QED BY <1>1, <1>4, <1>5, <1>6, <1>7

\* When all proofs have passed, what the maps are known to hold is what acceptance claims.
LEMMA AcceptKeeps ==
  ASSUME BatchInv, Accept
  PROVE  BatchInv'
<1>1. /\ next = Len(batch) + 1 /\ next' = 0 /\ verdict' = "accepted"
      /\ onBest' = onBest /\ batch' = batch /\ wire' = wire /\ seen' = seen /\ ids' = ids
  BY DEF Accept, verifierVars
<1>2. CallShape
  BY DEF BatchInv
<1>3. Len(batch) \in Nat /\ DOMAIN batch = 1..Len(batch) /\ \A i \in 1..Len(batch) : Fits(batch[i])
  BY <1>2, BatchIs
<1>4. next # 0 /\ 1..(next - 1) = DOMAIN batch
  BY <1>1, <1>3
<1>5. RememberedRoots /\ LeavesBelow
  BY <1>4 DEF BatchInv
<1>6. CallShape'
  BY <1>1, <1>2 DEF CallShape
<1>7. ASSUME NEW r \in subtreeOK, NEW x, Reaches(x, r)
      PROVE  \E b \in UNION seen :
               /\ x \in NodesOf(b)
               /\ x \in Txid => \E st \in DOMAIN SubtreesOf[b] : x \in Range(SubtreesOf[b][st])
               /\ CutAtSubtrees =>
                    \E st \in DOMAIN SubtreesOf[b] :
                      r = SubtreeRoots(b)[st] /\ x \in TreeNodes(SubtreesOf[b][st])
  <2>1. PICK m \in DOMAIN batch :
          /\ batch[m].Header \in headerOK
          /\ Fold(r, batch[m].L2) = HeaderMerkleRoot(batch[m].Header)
    BY <1>4, <1>5 DEF RememberedRoots
  <2>2. PICK chain \in seen : OnChain(batch[m].Header, chain)
    BY <1>5, <2>1 DEF RememberedRoots
  <2>3. PICK b : b = batch[m].Header.block
    OBVIOUS
  <2>4. b \in Blocks /\ b \in UNION seen /\ HeaderMerkleRoot(batch[m].Header) = MerkleRoot(SubtreeRoots(b))
    BY <1>2, <2>2, <2>3, HeaderIs
  <2>5. PICK path : path = batch[m].L2
    OBVIOUS
  <2>6. PICK a \in Nat : a = Len(path)
    BY <1>3, <2>5 DEF Fits
  <2>7. Fold(r, path) = MerkleRoot(SubtreeRoots(b))
    BY <2>1, <2>4, <2>5
  <2>8. PartOfBlock(b, x, r, a)
    BY <1>7, <2>4, <2>6, <2>7, NodeOfBlock
  <2>9. CutAtSubtrees => a = CeilLog2(Len(SubtreesOf[b]))
    BY <2>3, <2>5, <2>6 DEF CutAtSubtrees
  <2> QED BY <2>4, <2>8, <2>9 DEF PartOfBlock
<1>10. ASSUME NEW i \in DOMAIN batch
       PROVE  LET p == batch[i]
              IN  \E b \in UNION seen :
                    /\ p.Leaf \in NodesOf(b)
                    /\ p.Leaf \in Txid =>
                         \E st \in DOMAIN SubtreesOf[b] : p.Leaf \in Range(SubtreesOf[b][st])
                    /\ CutAtSubtrees /\ KeysApart =>
                         \E st \in DOMAIN SubtreesOf[b] :
                           p.SubtreeRoot = SubtreeRoots(b)[st] /\ p.Leaf \in TreeNodes(SubtreesOf[b][st])
  <2>1. PICK x : x = batch[i].Leaf
    OBVIOUS
  <2>2. PICK root : root = batch[i].SubtreeRoot
    OBVIOUS
  <2>3. root \in subtreeOK /\ UnderOne(x, subtreeOK) /\ (KeysApart => Reaches(x, root))
    BY <1>4, <1>5, <2>1, <2>2 DEF LeavesBelow
  <2>4. PICK r \in subtreeOK : Reaches(x, r) /\ (KeysApart => r = root)
    BY <2>3 DEF UnderOne
  <2> QED BY <1>7, <2>1, <2>2, <2>4
<1>8. AcceptedLeavesIncluded'
  <2>1. (CutAtSubtrees' <=> CutAtSubtrees) /\ (KeysApart' <=> KeysApart)
    BY <1>1 DEF CutAtSubtrees, KeysApart, NumbersFit
  <2> QED BY <1>1, <1>10, <2>1 DEF AcceptedLeavesIncluded
<1>9. GenuineBatchAccepted'
  BY <1>1 DEF GenuineBatchAccepted
<1> QED BY <1>1, <1>6, <1>8, <1>9 DEF BatchInv

\* A genuine proof whose block stays on the chain passes every level.
LEMMA RejectNextKeeps ==
  ASSUME BatchInv, RejectNext
  PROVE  BatchInv'
<1>1. PICK p : p = batch[next]
  OBVIOUS
<1>2. /\ next \in DOMAIN batch
      /\ ~(Read(p) /\ SubtreeReached(p, Climb(p, memo)) /\ BlockReached(p) /\ HeaderReached(p))
      /\ next' = 0 /\ verdict' = "rejected"
      /\ onBest' = onBest /\ batch' = batch /\ wire' = wire /\ seen' = seen /\ ids' = ids
  BY <1>1 DEF RejectNext, verifierVars
<1>3. CallShape
  BY DEF BatchInv
<1>4. Len(batch) \in Nat /\ DOMAIN batch = 1..Len(batch) /\ \A i \in 1..Len(batch) : Fits(batch[i])
  BY <1>3, BatchIs
<1>5. next \in 1..Len(batch) /\ next # 0 /\ onBest \in seen
  BY <1>2, <1>3, <1>4 DEF CallShape
<1>6. RememberedRoots /\ RememberedNodes
  BY <1>5 DEF BatchInv
<1>7. CallShape'
  BY <1>2, <1>3 DEF CallShape
<1>8. ASSUME wire => NumbersFit,
             \A i \in DOMAIN batch : Genuine(batch[i]) /\ \A chain \in seen : OnChain(batch[i].Header, chain)
      PROVE  FALSE
  <2>12. \A i \in DOMAIN batch : Len(batch[i].L1) <= IndexWidth + 1
    <3>1. SUFFICES ASSUME NEW i \in DOMAIN batch PROVE Len(batch[i].L1) <= IndexWidth + 1
      OBVIOUS
    <3>2. PICK leaves : IsFetched(batch[i], leaves)
      BY <1>8, GenuineIs
    <3> QED BY <3>2, Zenon DEF IsFetched, IsSubtree
  <2>13. KeysApart
    BY <1>8, <2>12 DEF KeysApart
  <2>1. HeaderReached(p)
    BY <1>1, <1>2, <1>5, <1>8 DEF HeaderReached
  <2>2. PICK leaves : IsFetched(p, leaves)
    BY <1>1, <1>2, <1>8, GenuineIs
  <2>3. BlockReached(p)
    BY <2>2 DEF IsFetched, BlockReached
  <2>4. PICK n \in Nat : n = Len(p.L1)
    <3>1. Fits(p)
      BY <1>1, <1>4, <1>5
    <3> QED BY <3>1 DEF Fits
  <2>14. Read(p)
    <3>1. n <= IndexWidth + 1
      BY <1>1, <1>2, <2>4, <2>12
    <3>2. n <= WordWidth
      BY <3>1, BatchAssumption
    <3> QED BY <2>4, <3>2 DEF Read
  <2>5. PICK node : node = Climbed(p.Leaf, p.L1)
    OBVIOUS
  <2>6. PICK K : K = [j \in 1..n |-> NodeKey(p.SubtreeRoot, j, p.L1)]
    OBVIOUS
  <2>7. PICK c : c = Climb(p, memo)
    OBVIOUS
  <2>8. Came(c, memo, K, node, n)
    BY <2>4, <2>5, <2>6, <2>7, ClimbCame
  <2>9. ~SubtreeReached(p, c)
    BY <1>2, <2>1, <2>3, <2>7, <2>14
  <2>10. CASE AllNew(c, memo, K, node, n)
    <3>1. c.end = "root" /\ c.cur = node[n]
      BY <2>10 DEF AllNew
    <3>2. node[n] = p.SubtreeRoot
      BY <2>2, <2>4, <2>5 DEF IsFetched, Fold
    <3> QED BY <2>9, <3>1, <3>2 DEF SubtreeReached
  <2>11. CASE Stopped(c, memo, K, node, n)
    <3>1. PICK h \in 0..(n - 1) :
            /\ Grown(memo, c.memo, K, node, h)
            /\ K[h + 1] \in DOMAIN c.memo
            /\ \/ c.end = "merged" /\ c.memo[K[h + 1]] = node[h + 1]
               \/ c.end = "clash" /\ c.memo[K[h + 1]] # node[h + 1]
      BY <2>11 DEF Stopped
    <3>2. c.memo[K[h + 1]] # node[h + 1]
      BY <2>9, <3>1 DEF SubtreeReached
    <3>8. PICK a \in 1..n : a = h + 1
      <4>1. h + 1 \in 1..n
        OBVIOUS
      <4> QED BY <4>1
    <3>11. K[a] \in DOMAIN memo /\ memo[K[a]] # node[a]
      <4>2. next \in DOMAIN batch
        BY <1>2
      <4>3. KeysApart \/ c.memo[K[h + 1]] = node[h + 1]
        BY <2>13
      <4>4. Len(p.L1) = n
        BY <2>4
      <4>5. Grown(memo, c.memo, K, node, h) /\ K[h + 1] \in DOMAIN c.memo
        BY <3>1
      <4>1. K[h + 1] \in DOMAIN memo /\ c.memo[K[h + 1]] = memo[K[h + 1]]
        BY <1>1, <1>3, <1>6, <2>5, <2>6, <4>2, <4>3, <4>4, <4>5, KnownBefore, SMTT(30)
      <4> QED BY <3>2, <3>8, <4>1, Zenon
    <3>3. PICK i \in 1..(next - 1) : \E l : MetAt(i, l, p.SubtreeRoot, a, p.L1, memo[K[a]])
      BY <1>1, <1>2, <1>3, <1>6, <2>4, <2>6, <3>11, KnownMet
    <3>4. PICK q : q = batch[i]
      OBVIOUS
    <3>5. i \in DOMAIN batch
      BY <1>4, <1>5
    <3>6. Genuine(p) /\ Genuine(q)
      BY <1>1, <1>2, <1>8, <3>4, <3>5
    <3>7. PICK m \in Nat : m = Len(q.L1)
      BY <1>4, <3>4, <3>5 DEF Fits
    <3>9. /\ p.SubtreeRoot = q.SubtreeRoot /\ NodeIndex(p.L1, a) = NodeIndex(q.L1, a)
          /\ memo[K[a]] = Climbed(q.Leaf, q.L1)[a]
      BY <2>13, <3>3, <3>4 DEF MetAt
    <3>10. Climbed(p.Leaf, p.L1)[a] = Climbed(q.Leaf, q.L1)[a]
      BY <2>4, <3>6, <3>7, <3>9, GenuineMeet
    <3> QED BY <2>5, <3>9, <3>10, <3>11
  <2> QED BY <2>8, <2>10, <2>11 DEF Came
<1>9. GenuineBatchAccepted'
  <2>1. NumbersFit' <=> NumbersFit
    BY <1>2 DEF NumbersFit
  <2> QED BY <1>2, <1>8, <2>1 DEF GenuineBatchAccepted
<1>10. AcceptedLeavesIncluded'
  BY <1>2 DEF AcceptedLeavesIncluded
<1> QED BY <1>2, <1>7, <1>9, <1>10 DEF BatchInv

\* A reorganisation only adds to the chains seen.
LEMMA ReorganiseKeeps ==
  ASSUME BatchInv, NEW b \in Blocks, Reorganise(b)
  PROVE  BatchInv'
<1>1. /\ onBest' \subseteq onBest \cup {b}
      /\ seen' = IF next = 0 THEN seen ELSE seen \cup {onBest'}
      /\ batch' = batch /\ wire' = wire /\ next' = next /\ verdict' = verdict
      /\ ids' = ids /\ memo' = memo /\ subtreeOK' = subtreeOK /\ headerOK' = headerOK
  BY DEF Reorganise, verifierVars
<1>2. CallShape'
  <2>1. CallShape
    BY DEF BatchInv
  <2>2. onBest' \subseteq Blocks
    BY <1>1, <2>1 DEF CallShape
  <2>3. seen' \subseteq SUBSET Blocks /\ (next # 0 => onBest' \in seen')
    BY <1>1, <2>1, <2>2 DEF CallShape
  <2> QED BY <1>1, <2>1, <2>2, <2>3 DEF CallShape
<1>3. CASE next # 0
  <2>1. RememberedRoots /\ RememberedNodes /\ LeavesBelow /\ verdict = "none"
    BY <1>3 DEF BatchInv, CallShape
  <2>2. seen \subseteq seen'
    BY <1>1
  <2>3. RememberedRoots'
    BY <1>1, <2>1, <2>2 DEF RememberedRoots
  <2>4. RememberedNodes' /\ LeavesBelow'
    <3>1. KeysApart' <=> KeysApart
      BY <1>1 DEF KeysApart, NumbersFit
    <3> QED BY <1>1, <2>1, <3>1 DEF RememberedNodes, LeavesBelow
  <2>5. AcceptedLeavesIncluded' /\ GenuineBatchAccepted'
    BY <1>1, <2>1 DEF AcceptedLeavesIncluded, GenuineBatchAccepted
  <2> QED BY <1>2, <2>3, <2>4, <2>5 DEF BatchInv
<1>4. CASE next = 0
  <2>1. seen' = seen /\ next' = 0
    BY <1>1, <1>4
  <2>2. AcceptedLeavesIncluded' /\ GenuineBatchAccepted'
    BY <1>1, <2>1 DEF BatchInv, AcceptedLeavesIncluded, GenuineBatchAccepted, CutAtSubtrees,
                      KeysApart, NumbersFit
  <2> QED BY <1>2, <2>1, <2>2 DEF BatchInv
<1> QED BY <1>3, <1>4

\* A step that changes nothing keeps the invariant.
LEMMA StutterKeeps ==
  ASSUME BatchInv, UNCHANGED vars
  PROVE  BatchInv'
BY DEF BatchInv, vars, verifierVars, CallShape, RememberedRoots, RememberedNodes, LeavesBelow,
       AcceptedLeavesIncluded, GenuineBatchAccepted, CutAtSubtrees, KeysApart, NumbersFit

\* Every step keeps the invariant.
LEMMA NextKeeps ==
  ASSUME BatchInv, [Next]_vars
  PROVE  BatchInv'
<1>1. ASSUME NEW proofs \in Batches, NEW form \in BOOLEAN, Start(proofs, form) PROVE BatchInv'
  BY <1>1, StartKeeps
<1>2. CASE VerifyNext
  BY <1>2, VerifyNextKeeps
<1>3. CASE RejectNext
  BY <1>3, RejectNextKeeps
<1>4. CASE Accept
  BY <1>4, AcceptKeeps
<1>5. ASSUME NEW b \in Blocks, Reorganise(b) PROVE BatchInv'
  BY <1>5, ReorganiseKeeps
<1>6. CASE UNCHANGED vars
  BY <1>6, StutterKeeps
<1> QED BY <1>1, <1>2, <1>3, <1>4, <1>5, <1>6 DEF Next

\* In every reachable state what is remembered of nodes, subtrees and headers is
\* as the invariant says, for every chain and every list of batches.
THEOREM BatchInvariant == Spec => []BatchInv
BY InitKeeps, NextKeeps, PTL DEF Spec

\* The maps never make BatchVerify or VerifyWire accept what no block commits: for
\* every chain, batch, order and repetition of proofs, wherever they are cut and
\* whatever packed keys run into each other.
THEOREM AcceptedAreMined == Spec => []AcceptedLeavesIncluded
<1>1. BatchInv => AcceptedLeavesIncluded
  BY DEF BatchInv
<1> QED BY <1>1, BatchInvariant, PTL

\* The maps never make them refuse what Fetch gave: proofs that share nodes agree
\* on them, and no two nodes have one packed key while the numbers fit.
THEOREM GenuineAreAccepted == Spec => []GenuineBatchAccepted
<1>1. BatchInv => GenuineBatchAccepted
  BY DEF BatchInv
<1> QED BY <1>1, BatchInvariant, PTL
=============================================================================
