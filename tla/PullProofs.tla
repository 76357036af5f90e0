----------------------------- MODULE PullProofs -----------------------------
(***************************************************************************)
(* The block of Hierarchy and the workers of Pull, for any transactions,   *)
(* any subtree capacity and any number of lanes, txids and workers.        *)
(***************************************************************************)
EXTENDS Pull, MerkleProofs

\* What the assumption says of the transactions.
LEMMA TxsAre == Mined \subseteq Txs /\ MaxTxs \in Nat /\ CeilLog2(MaxTxs) < 64
BY HierarchyAssumption

\* The fields of a transaction: a list of at most 256.
LEMMA FieldsAre ==
  ASSUME NEW t \in Txs
  PROVE  \E n \in Nat \ {0} :
           /\ n <= 256 /\ n = Len(FieldsOf[t])
           /\ DOMAIN FieldsOf[t] = 1..n
           /\ FieldsOf[t] = [i \in 1..n |-> FieldsOf[t][i]]
<1>1. PICK F, S : F = FieldsOf[t] /\ S = ToSet(FieldsOf[t])
  OBVIOUS
<1>2. F \in Seq(S) /\ 1 <= Len(F) /\ Len(F) <= 256
  BY <1>1, HierarchyAssumption
<1>3. Len(F) \in Nat /\ DOMAIN F = 1..Len(F) /\ F = [i \in 1..Len(F) |-> F[i]]
  BY <1>2
<1>4. PICK n \in Nat \ {0} : n = Len(F) /\ n <= 256
  BY <1>2, <1>3
<1> QED BY <1>1, <1>3, <1>4

\* A capacity is one that the depth ceiling allows.
LEMMA SizesAre ==
  ASSUME NEW s \in Sizes
  PROVE  s \in Nat \ {0} /\ CeilLog2(s) <= MaxSubtreeDepth
BY HierarchyAssumption

\* The block is a list of mined transactions, and what is served is its seal.
BlockInv ==
  /\ txs \in Seq(Mined) /\ txs # << >>
  /\ Len(txs) = 1 \/ Len(txs) <= MaxTxs
  /\ size \in Sizes
  /\ sealed = Seal(txs)

\* The block starts as NewNode's genesis, sealed.
LEMMA BlockInvInit == Init => BlockInv
<1> SUFFICES ASSUME Init PROVE BlockInv
  OBVIOUS
<1>1. PICK t \in Mined : txs = <<t>>
  BY DEF Init
<1>2. txs \in Seq(Mined) /\ txs # << >> /\ Len(txs) = 1
  BY <1>1
<1> QED BY <1>2 DEF Init, BlockInv

\* Building a block and adding to it both seal what is then there.
LEMMA BlockInvNext == BlockInv /\ [Next]_<<txs, size, sealed>> => BlockInv'
<1> SUFFICES ASSUME BlockInv, [Next]_<<txs, size, sealed>> PROVE BlockInv'
  OBVIOUS
<1>1. ASSUME NEW t \in Mined, AddTx(t) PROVE BlockInv'
  <2>1. txs \in Seq(Mined) /\ txs' = Append(txs, t) /\ Len(txs) < MaxTxs /\ size' = size
    BY <1>1 DEF AddTx, BlockInv
  <2>2. txs' \in Seq(Mined) /\ txs' # << >> /\ Len(txs') <= MaxTxs
    <3>1. MaxTxs \in Nat
      BY TxsAre
    <3>2. Len(txs) \in Nat /\ Len(txs') = Len(txs) + 1
      BY <2>1
    <3>3. txs' \in Seq(Mined)
      BY <2>1
    <3> QED BY <2>1, <3>1, <3>2, <3>3
  <2>3. sealed' = Seal(txs)'
    BY <1>1, <2>1 DEF AddTx, Seal, SubtreeOf
  <2> QED BY <2>1, <2>2, <2>3 DEF BlockInv
<1>2. CASE UNCHANGED <<txs, size, sealed>>
  <2>1. Seal(txs)' = Seal(txs)
    BY <1>2 DEF Seal, SubtreeOf, Txids
  <2> QED BY <1>2, <2>1 DEF BlockInv
<1> QED BY <1>1, <1>2 DEF Next

\* The block has a transaction at every place.
LEMMA BlockIs ==
  ASSUME BlockInv
  PROVE  \E n \in Nat \ {0} : /\ n = Len(txs) /\ DOMAIN txs = 1..n
                             /\ \A j \in 1..n : txs[j] \in Txs
<1>1. txs \in Seq(Mined) /\ txs # << >>
  BY DEF BlockInv
<1>2. PICK n \in Nat \ {0} : n = Len(txs) /\ DOMAIN txs = 1..n
  BY <1>1
<1>3. \A j \in 1..n : txs[j] \in Mined
  BY <1>1, <1>2
<1> QED BY <1>2, <1>3, TxsAre

\* So is the capacity of the block.
LEMMA SizeIs ==
  ASSUME BlockInv
  PROVE  size \in Nat \ {0} /\ CeilLog2(size) <= MaxSubtreeDepth
BY SizesAre DEF BlockInv

-----------------------------------------------------------------------------
(***************************************************************************)
(* What sealing gives every place of the block                             *)
(***************************************************************************)
\* A tree's depth is a number.
LEMMA DepthIsNat ==
  ASSUME NEW n \in Nat \ {0}
  PROVE  CeilLog2(n) \in Nat
<1>1. CeilLog2(n) \in 0..(n - 1)
  BY CeilLog2Is
<1> QED BY <1>1

\* L0: the TXID is the root of the field tree.
LEMMA FieldPath ==
  ASSUME NEW t \in Txs, NEW f \in DOMAIN FieldsOf[t]
  PROVE  /\ Fold(LeafForField(FieldsOf[t][f]), MTxIDPath(FieldsOf[t], f - 1)) = TXID[t]
         /\ Len(MTxIDPath(FieldsOf[t], f - 1)) \in 0..8
<1> DEFINE fields == FieldsOf[t]
           leaves == [i \in DOMAIN fields |-> LeafForField(fields[i])]
<1>2. PICK n \in Nat \ {0} : n <= 256 /\ n = Len(fields) /\ DOMAIN fields = 1..n
  BY FieldsAre
<1>3. leaves = [i \in 1..n |-> leaves[i]] /\ \A i \in 1..n : leaves[i] = LeafForField(fields[i])
  BY <1>2
<1>4. Len(leaves) = n
  <2> HIDE DEF leaves
  <2> QED BY <1>2, <1>3, FunctionsAreSeqs
<1>5. TXID[t] = MerkleRoot(leaves) /\ MTxIDPath(fields, f - 1) = MerklePath(BuildMerkleTree(leaves), f - 1)
  BY DEF TXID, BuildMTxID, FieldLayers, MerkleRoot, MTxIDPath
<1>6. f \in 1..n /\ f - 1 \in 0..(n - 1) /\ (f - 1) + 1 = f
  BY <1>2
<1>7. leaves[f] = LeafForField(fields[f])
  BY <1>3, <1>6
<1> HIDE DEF leaves
<1>8. /\ Len(MerklePath(BuildMerkleTree(leaves), f - 1)) = CeilLog2(n)
      /\ Fold(leaves[(f - 1) + 1], MerklePath(BuildMerkleTree(leaves), f - 1)) = MerkleRoot(leaves)
  <2>1. PICK index \in 0..(n - 1) : index = f - 1 /\ index + 1 = f
    BY <1>6
  <2>2. Len(leaves) \in Nat \ {0} /\ index \in 0..(Len(leaves) - 1)
    BY <1>2, <1>4, <2>1
  <2> QED BY <2>1, <2>2, <1>4, EveryLeafProvable
<1>9. CeilLog2(n) \in 0..8
  <2>1. n \in Nat \ {0} /\ CeilLog2(n) \in 0..(n - 1)
    BY CeilLog2Is
  <2>2. CeilLog2(n) <= 8
    BY <1>2, ShortTree
  <2> QED BY <2>1, <2>2
<1> QED BY <1>5, <1>6, <1>7, <1>8, <1>9

\* L1 and L2 of place i: they fold to the root of its subtree and on to the
\* root of the block, and are as long as their trees are deep.
LEMMA PlacePaths ==
  ASSUME BlockInv, NEW i \in DOMAIN txs
  PROVE  /\ SubtreeOf(i) \in DOMAIN sealed.roots
         /\ Fold(TXID[txs[i]], sealed.l1[i]) = sealed.roots[SubtreeOf(i)]
         /\ Len(sealed.l1[i]) \in Nat /\ Len(sealed.l1[i]) <= MaxSubtreeDepth
         /\ Fold(sealed.roots[SubtreeOf(i)], sealed.l2[i]) = sealed.root
         /\ Len(sealed.l2[i]) \in Nat /\ Len(sealed.l2[i]) <= 63
<1> DEFINE list == Txids(txs)
           P == Partition(list, size)
           roots == [s \in DOMAIN P |-> MerkleRoot(P[s])]
           s == SubtreeOf(i)
           k == (i - 1) % size
           ids == {TXID[t] : t \in Txs}
<1>1. PICK n \in Nat \ {0} : n = Len(txs) /\ DOMAIN txs = 1..n /\ \A j \in 1..n : txs[j] \in Txs
  BY BlockIs
<1>2. \A j \in 1..n : txs[j] \in Txs
  BY <1>1
<1>3. list \in Seq(ids) /\ Len(list) = n /\ \A j \in 1..n : list[j] = TXID[txs[j]]
  <2>1. list = [j \in 1..n |-> TXID[txs[j]]]
    BY <1>1 DEF Txids
  <2>2. list \in [1..n -> ids]
    BY <1>2, <2>1
  <2> HIDE DEF list
  <2>3. list = [j \in 1..n |-> list[j]]
    BY <2>1
  <2>4. Len(list) = n
    BY <2>3, FunctionsAreSeqs
  <2>5. list \in Seq(ids)
    BY <2>2
  <2> QED BY <2>1, <2>4, <2>5
<1>4. size \in Nat \ {0} /\ CeilLog2(size) <= MaxSubtreeDepth
  BY SizeIs
<1>5. PICK m : m = Len(P)
  OBVIOUS
<1>6. /\ m \in Nat \ {0} /\ m <= n /\ DOMAIN P = 1..m
      /\ \A q \in 1..m : Len(P[q]) \in 1..size
      /\ s \in 1..m /\ k \in 0..(Len(P[s]) - 1) /\ P[s][k + 1] = list[i]
  <2> HIDE DEF list, ids
  <2>1. P = Partition(list, size)
    OBVIOUS
  <2> HIDE DEF P
  <2>2. IsCut(P, m, list, n, size, ids)
    BY <1>3, <1>4, <1>5, <2>1, PartitionIs
  <2> QED BY <1>1, <2>2 DEF IsCut, SubtreeOf
<1>7. roots = [q \in 1..m |-> roots[q]] /\ roots[s] = MerkleRoot(P[s])
  BY <1>6
<1>8. Len(roots) = m /\ DOMAIN roots = 1..m
  <2> HIDE DEF roots
  <2> QED BY <1>6, <1>7, FunctionsAreSeqs
<1>9. /\ sealed.roots = roots /\ sealed.root = MerkleRoot(roots)
      /\ sealed.l1[i] = MerklePath(BuildMerkleTree(P[s]), k)
      /\ sealed.l2[i] = MerklePath(BuildMerkleTree(roots), s - 1)
  <2>1. sealed = Seal(txs)
    BY DEF BlockInv
  <2> QED BY <2>1 DEF Seal
<1> HIDE DEF list, P, roots, s, k, ids
<1>10. /\ Len(sealed.l1[i]) = CeilLog2(Len(P[s]))
       /\ Fold(P[s][k + 1], sealed.l1[i]) = MerkleRoot(P[s])
  <2>1. Len(P[s]) \in Nat \ {0}
    BY <1>4, <1>6
  <2> QED BY <2>1, <1>6, <1>9, EveryLeafProvable
<1>11. /\ Len(sealed.l2[i]) = CeilLog2(m)
       /\ Fold(roots[s], sealed.l2[i]) = MerkleRoot(roots)
  <2>1. PICK q \in 0..(m - 1) : q = s - 1 /\ q + 1 = s
    <3>1. s - 1 \in 0..(m - 1) /\ (s - 1) + 1 = s
      BY <1>6
    <3> QED BY <3>1
  <2>2. Len(roots) \in Nat \ {0} /\ q \in 0..(Len(roots) - 1)
    BY <1>6, <1>8, <2>1
  <2> QED BY <2>1, <2>2, <1>8, <1>9, EveryLeafProvable
<1>12. Len(sealed.l1[i]) \in Nat /\ Len(sealed.l1[i]) <= MaxSubtreeDepth
  <2>1. PICK w \in 1..size : w = Len(P[s])
    BY <1>6
  <2>2. CeilLog2(w) <= CeilLog2(size)
    BY <1>4, <2>1, DepthGrows
  <2>3. CeilLog2(w) \in Nat /\ CeilLog2(size) \in Nat
    BY <1>4, DepthIsNat
  <2>4. CeilLog2(w) <= MaxSubtreeDepth
    BY <1>4, <2>2, <2>3 DEF MaxSubtreeDepth
  <2> QED BY <1>10, <2>1, <2>3, <2>4
<1>13. CeilLog2(m) \in Nat /\ CeilLog2(m) <= 63
  <2>1. CeilLog2(m) \in Nat
    BY <1>6, DepthIsNat
  <2>2. CASE n = 1
    <3>1. m = 1
      BY <1>6, <2>2
    <3> QED BY <3>1 DEF CeilLog2
  <2>3. CASE n # 1
    <3>1. m <= MaxTxs /\ MaxTxs \in Nat \ {0}
      <4>1. n <= MaxTxs
        BY <1>1, <2>3 DEF BlockInv
      <4>2. MaxTxs \in Nat
        BY TxsAre
      <4> QED BY <1>6, <4>1, <4>2
    <3>2. CeilLog2(m) <= CeilLog2(MaxTxs)
      BY <3>1, <1>6, DepthGrows
    <3>3. CeilLog2(MaxTxs) \in Nat
      BY <3>1, DepthIsNat
    <3>4. CeilLog2(MaxTxs) < 64
      BY TxsAre
    <3> QED BY <2>1, <3>2, <3>3, <3>4
  <2> QED BY <2>2, <2>3
<1> QED BY <1>1, <1>3, <1>6, <1>7, <1>8, <1>9, <1>10, <1>11, <1>12, <1>13 DEF s

\* Every field of every transaction of every block, of any size and cut in
\* any way, has three paths that VerifyToBlockRoot and the check of each level
\* accept: duplication of odd nodes and the depth ceilings included.
LEMMA BlockInvProvable == BlockInv => EveryFieldProvable
<1> SUFFICES ASSUME BlockInv, NEW i \in DOMAIN txs, NEW f \in DOMAIN FieldsOf[txs[i]]
             PROVE  LET fields == FieldsOf[txs[i]]
                        leaf   == LeafForField(fields[f])
                        l0     == MTxIDPath(fields, f - 1)
                        root   == sealed.roots[SubtreeOf(i)]
                    IN  /\ VerifyMTxIDPath(leaf, l0, TXID[txs[i]])
                        /\ VerifySubtreePath(TXID[txs[i]], sealed.l1[i], root)
                        /\ VerifyBlockPath(root, sealed.l2[i], sealed.root)
                        /\ VerifyToBlockRoot(leaf, l0, sealed.l1[i], sealed.l2[i], sealed.root)
  BY DEF EveryFieldProvable
<1> DEFINE leaf == LeafForField(FieldsOf[txs[i]][f])
           l0 == MTxIDPath(FieldsOf[txs[i]], f - 1)
           l1 == sealed.l1[i]
           l2 == sealed.l2[i]
           root == sealed.roots[SubtreeOf(i)]
           id == TXID[txs[i]]
<1>1. txs[i] \in Txs
  BY BlockIs
<1>2. Fold(leaf, l0) = id /\ Len(l0) \in 0..8
  BY <1>1, FieldPath
<1>3. Fold(id, l1) = root /\ Len(l1) \in Nat /\ Len(l1) <= 20 /\ Fold(root, l2) = sealed.root /\ Len(l2) \in Nat /\ Len(l2) <= 63
  BY PlacePaths DEF MaxSubtreeDepth
<1> DEFINE top == sealed.root
           n0 == Len(l0)
           n1 == Len(l1)
           n2 == Len(l2)
<1>4. n0 \in 0..8 /\ n1 \in Nat /\ n1 <= 20 /\ n2 \in Nat /\ n2 <= 63
  BY <1>2, <1>3
<1>5. ~(n0 + n1 + n2 > 255) /\ ~(n1 > 20) /\ n0 <= 255 /\ n1 <= 20 /\ n2 <= 255
  <2> HIDE DEF n0, n1, n2
  <2> QED BY <1>4
<1>6. Fold(Fold(Fold(leaf, l0), l1), l2) = top
  BY <1>2, <1>3
<1> HIDE DEF leaf, l0, l1, l2, root, id
<1>7. /\ VerifyMTxIDPath(leaf, l0, id)
      /\ VerifySubtreePath(id, l1, root)
      /\ VerifyBlockPath(root, l2, sealed.root)
      /\ VerifyToBlockRoot(leaf, l0, l1, l2, sealed.root)
  BY <1>2, <1>3, <1>5, <1>6 DEF VerifyMTxIDPath, VerifySubtreePath, VerifyBlockPath, VerifyToBlockRoot,
                    DepthOverflow, PathDepth, MaxDepth, MaxSubtreeDepth
<1> QED BY <1>7 DEF leaf, l0, l1, l2, root, id

-----------------------------------------------------------------------------
(***************************************************************************)
(* Paths of different places put together                                  *)
(***************************************************************************)
\* The TXID of every ordinary transaction has the shape of one.
LEMMA TxidOfTx ==
  ASSUME NEW t \in OrdinaryTxs
  PROVE  TxidLike(TXID[t])
<1>1. PICK fields : fields = FieldsOf[t] /\ t \in Txs
  BY DEF OrdinaryTxs
<1>2. Ordinary(fields)
  BY <1>1 DEF OrdinaryTxs
<1>3. PICK n \in Nat \ {0} : DOMAIN fields = 1..n
  BY <1>1, FieldsAre
<1>4. TxidLike(BuildMTxID(fields))
  <2>1. n \in Nat \ {0}
    OBVIOUS
  <2>2. Ordinary(fields) /\ DOMAIN fields = 1..n
    BY <1>2, <1>3
  <2> QED BY <2>1, <2>2, TxidIs
<1> QED BY <1>1, <1>4 DEF TXID

\* So has that of every transaction of a block of such.
LEMMA TxidsAre ==
  ASSUME ToSet(txs) \subseteq OrdinaryTxs
  PROVE  \A k \in DOMAIN txs : txs[k] \in OrdinaryTxs /\ TxidLike(TXID[txs[k]])
BY TxidOfTx DEF ToSet

\* Two ordinary transactions of one TXID are one.
LEMMA TxidOfOneTx ==
  ASSUME NEW t \in OrdinaryTxs, NEW u \in OrdinaryTxs, TXID[t] = TXID[u]
  PROVE  t = u
<1>0. t \in Txs /\ u \in Txs
  BY DEF OrdinaryTxs
<1>1. PICK F, G : F = FieldsOf[t] /\ G = FieldsOf[u]
  OBVIOUS
<1>2. Ordinary(F) /\ Ordinary(G)
  BY <1>1 DEF OrdinaryTxs
<1>3. PICK n \in Nat \ {0} : DOMAIN F = 1..n /\ F = [i \in 1..n |-> F[i]]
  BY <1>0, <1>1, FieldsAre
<1>4. PICK m \in Nat \ {0} : DOMAIN G = 1..m /\ G = [i \in 1..m |-> G[i]]
  BY <1>0, <1>1, FieldsAre
<1>5. BuildMTxID(F) = BuildMTxID(G)
  BY <1>0, <1>1 DEF TXID
<1>6. n = m /\ SameUpTo(F, G, n)
  <2>1. n \in Nat \ {0} /\ m \in Nat \ {0}
    OBVIOUS
  <2>2. DOMAIN F = 1..n /\ DOMAIN G = 1..m /\ Ordinary(F) /\ Ordinary(G)
    BY <1>2, <1>3, <1>4
  <2> QED BY <1>5, <2>1, <2>2, TxidBindsFields
<1>7. F = G
  <2>1. \A i \in 1..n : F[i] = G[i]
    BY <1>6 DEF SameUpTo
  <2>2. F = [i \in 1..n |-> F[i]]
    BY <1>3
  <2>3. G = [i \in 1..n |-> G[i]]
    BY <1>4, <1>6
  <2> QED BY <2>1, <2>2, <2>3
<1> QED BY <1>0, <1>1, <1>7, FieldsAssumption

\* Place i of a sealed block: its subtree is a list of txids of the block, its
\* root that of the list, and the L1 path of place i one from a place of it.
IsPlace(i, part, index) ==
  /\ Len(part) \in Nat \ {0} /\ index \in 0..(Len(part) - 1)
  /\ \A e \in 1..Len(part) : \E k \in DOMAIN txs : part[e] = TXID[txs[k]]
                                 /\ SubtreeOf(k) = SubtreeOf(i)
  /\ sealed.roots[SubtreeOf(i)] = MerkleRoot(part)
  /\ sealed.l1[i] = MerklePath(BuildMerkleTree(part), index)

\* Place e of part s of a list cut by size is in part s.
LEMMA PartOfPlace ==
  ASSUME NEW size1 \in Nat \ {0}, NEW s \in Nat \ {0}, NEW e \in 1..size1,
         NEW k, k = (s - 1) * size1 + e
  PROVE  ((k - 1) \div size1) + 1 = s
<1>1. PICK q \in Nat : q = s - 1
  OBVIOUS
<1>2. PICK r \in 0..(size1 - 1) : r = e - 1
  OBVIOUS
<1>3. PICK x \in Nat : x = q * size1
  OBVIOUS
<1>4. k - 1 = x + r /\ x + r \in Nat
  BY <1>1, <1>2, <1>3
<1>5. PICK d, b : d = (x + r) \div size1 /\ b = (x + r) % size1
  OBVIOUS
<1>6. d \in Nat /\ b \in 0..(size1 - 1) /\ x + r = d * size1 + b
  BY <1>4, <1>5, DivIs
<1>7. ~(d < q)
  <2> SUFFICES ASSUME d < q PROVE FALSE
    OBVIOUS
  <2>1. d + 1 <= q /\ d + 1 \in Nat
    BY <1>6
  <2>2. (d + 1) * size1 <= q * size1
    BY <1>6, <2>1, TimesGrows
  <2>3. (d + 1) * size1 = d * size1 + size1
    BY <1>6
  <2> QED BY <1>3, <1>6, <2>2, <2>3
<1>8. ~(q < d)
  <2> SUFFICES ASSUME q < d PROVE FALSE
    OBVIOUS
  <2>1. q + 1 <= d /\ q + 1 \in Nat
    BY <1>6
  <2>2. (q + 1) * size1 <= d * size1
    BY <1>6, <2>1, TimesGrows
  <2>3. (q + 1) * size1 = q * size1 + size1
    OBVIOUS
  <2> QED BY <1>3, <1>6, <2>2, <2>3
<1>9. d = q
  BY <1>6, <1>7, <1>8
<1> QED BY <1>1, <1>4, <1>5, <1>9

\* Sealing makes every place such a place.
LEMMA PlaceOfBlock ==
  ASSUME BlockInv, NEW i \in DOMAIN txs
  PROVE  \E part, index : IsPlace(i, part, index)
<1>1. PICK list, P, roots, s, k, ids :
        /\ list = Txids(txs) /\ P = Partition(list, size)
        /\ roots = [q \in DOMAIN P |-> MerkleRoot(P[q])]
        /\ s = SubtreeOf(i) /\ k = (i - 1) % size /\ ids = {TXID[t] : t \in Txs}
  OBVIOUS
<1>2. PICK n \in Nat \ {0} : n = Len(txs) /\ DOMAIN txs = 1..n /\ \A j \in 1..n : txs[j] \in Txs
  BY BlockIs
<1>3. \A j \in 1..n : txs[j] \in Txs
  BY <1>2
<1>4. list \in Seq(ids) /\ Len(list) = n /\ \A j \in 1..n : list[j] = TXID[txs[j]]
  <2>1. list = [j \in 1..n |-> TXID[txs[j]]]
    BY <1>1, <1>2 DEF Txids
  <2>2. list \in [1..n -> ids]
    BY <1>1, <1>3, <2>1
  <2>3. list = [j \in 1..n |-> list[j]]
    BY <2>1
  <2>4. Len(list) = n
    BY <2>3, FunctionsAreSeqs
  <2>5. list \in Seq(ids)
    BY <2>2
  <2> QED BY <2>1, <2>4, <2>5
<1>5. size \in Nat \ {0}
  BY SizeIs
<1>6. PICK m : m = Len(P)
  OBVIOUS
<1>7. IsCut(P, m, list, n, size, ids)
  BY <1>1, <1>4, <1>5, <1>6, PartitionIs
<1>8. /\ s \in 1..m /\ k \in 0..(Len(P[s]) - 1) /\ Len(P[s]) \in 1..size /\ m \in Nat
      /\ \A e \in 1..Len(P[s]) :
           (s - 1) * size + e \in 1..n /\ P[s][e] = list[(s - 1) * size + e]
      /\ DOMAIN P = 1..m
  <2>1. i \in 1..n /\ s = ((i - 1) \div size) + 1 /\ k = (i - 1) % size
    BY <1>1, <1>2 DEF SubtreeOf
  <2>2. s \in 1..m /\ k \in 0..(Len(P[s]) - 1)
    BY <1>7, <2>1 DEF IsCut
  <2>3. /\ Len(P[s]) \in 1..size
        /\ \A e \in 1..Len(P[s]) :
             (s - 1) * size + e \in 1..n /\ P[s][e] = list[(s - 1) * size + e]
    BY <1>7, <2>2 DEF IsCut
  <2> QED BY <1>7, <2>2, <2>3 DEF IsCut
<1>9. ASSUME NEW e \in 1..Len(P[s])
      PROVE  \E j \in DOMAIN txs : P[s][e] = TXID[txs[j]] /\ SubtreeOf(j) = SubtreeOf(i)
  <2>1. PICK j : j = (s - 1) * size + e
    OBVIOUS
  <2>2. j \in 1..n /\ P[s][e] = list[j]
    BY <1>8, <2>1
  <2>3. s \in Nat \ {0} /\ e \in 1..size
    BY <1>5, <1>8
  <2>4. ((j - 1) \div size) + 1 = s
    BY <1>5, <2>1, <2>3, PartOfPlace
  <2> QED BY <1>1, <1>2, <1>4, <2>2, <2>4 DEF SubtreeOf
<1>10. sealed.roots[s] = MerkleRoot(P[s]) /\ sealed.l1[i] = MerklePath(BuildMerkleTree(P[s]), k)
  <2>1. sealed = Seal(txs)
    BY DEF BlockInv
  <2>2. sealed.roots = roots /\ sealed.l1[i] = MerklePath(BuildMerkleTree(P[s]), k)
    BY <1>1, <2>1 DEF Seal
  <2> QED BY <1>1, <1>8, <2>2
<1>11. IsPlace(i, P[s], k)
  <2>1. Len(P[s]) \in Nat \ {0}
    BY <1>5, <1>8
  <2> QED BY <1>1, <1>8, <1>9, <1>10, <2>1 DEF IsPlace
<1> QED BY <1>11

\* A field with its own L0, the L1 of one place and the L2 of another: the L2
\* fixes the root of its subtree (FoldBinds), that root fixes the depth of the
\* subtree (ShapesBindDepth), so the L1 starts at a txid of it (OnlyLeavesProvable).
LEMMA BlockInvMembership == BlockInv => PathsProveMembership
<1> SUFFICES ASSUME BlockInv, ToSet(txs) \subseteq OrdinaryTxs, NEW t \in OrdinaryTxs,
                    NEW i \in DOMAIN txs, NEW j \in DOMAIN txs,
                    NEW f \in DOMAIN FieldsOf[t],
                    VerifyToBlockRoot(LeafForField(FieldsOf[t][f]), MTxIDPath(FieldsOf[t], f - 1),
                                      sealed.l1[i], sealed.l2[j], sealed.root)
             PROVE  \E k \in DOMAIN txs :
                      t = txs[k] /\ sealed.roots[SubtreeOf(k)] = sealed.roots[SubtreeOf(j)]
  BY DEF PathsProveMembership
<1>1. Fold(Fold(TXID[t], sealed.l1[i]), sealed.l2[j]) = sealed.root
  BY FieldPath DEF VerifyToBlockRoot, OrdinaryTxs
<1>2. PICK x, q : x = Fold(TXID[t], sealed.l1[i]) /\ q = sealed.l2[j]
  OBVIOUS
<1>3. PICK y : y = sealed.roots[SubtreeOf(j)]
  OBVIOUS
<1>4. Fold(y, q) = sealed.root /\ Len(q) \in Nat
  BY <1>2, <1>3, PlacePaths
<1>5. x = y
  <2>1. Fold(x, q) = Fold(y, q)
    BY <1>1, <1>2, <1>4
  <2> QED BY <1>4, <2>1, FoldBinds
<1>6. PICK part, index : IsPlace(i, part, index)
  BY PlaceOfBlock
<1>7. PICK other, place : IsPlace(j, other, place)
  BY PlaceOfBlock
<1>8. \A e \in 1..Len(part) : TxidLike(part[e])
  BY <1>6, TxidsAre DEF IsPlace
<1>9. \A e \in 1..Len(other) : TxidLike(other[e])
  BY <1>7, TxidsAre DEF IsPlace
<1>10. PICK n \in Nat \ {0} : n = Len(part) /\ index \in 0..(n - 1)
  BY <1>6 DEF IsPlace
<1>11. PICK m \in Nat \ {0} : m = Len(other)
  BY <1>7 DEF IsPlace
<1>12. PICK p, c : p = MerklePath(BuildMerkleTree(part), index) /\ c = CeilLog2(n)
  OBVIOUS
<1>13. p = sealed.l1[i] /\ Fold(TXID[t], p) = MerkleRoot(other)
  <2>1. p = sealed.l1[i]
    BY <1>6, <1>12 DEF IsPlace
  <2>2. y = MerkleRoot(other)
    BY <1>3, <1>7 DEF IsPlace
  <2> QED BY <1>2, <1>5, <2>1, <2>2
<1>14. c \in Nat /\ Len(p) = c /\ \A k \in 1..c : StartsTx(p[k].Sibling)
  <2>1. \A e \in 1..n : StartsTx(part[e])
    BY <1>8, <1>10 DEF TxidLike
  <2> QED BY <1>10, <1>12, <2>1, PathOverNodes
<1>15. TxidLike(TXID[t])
  BY TxidOfTx
<1>16. PICK z : z = TXID[t]
  OBVIOUS
<1>17. Len(p) = c /\ TxidLike(z) /\ Fold(z, p) = MerkleRoot(other)
  BY <1>13, <1>14, <1>15, <1>16
<1>18. c = CeilLog2(m)
  <2>1. \A e \in 1..m : TxidLike(other[e])
    BY <1>9, <1>11
  <2> QED BY <1>11, <1>14, <1>17, <2>1, ShapesBindDepth
<1>19. PICK e \in 1..Len(other) : z = other[e]
  <2>1. Len(p) = CeilLog2(Len(other)) /\ Len(other) \in Nat \ {0}
    BY <1>11, <1>17, <1>18
  <2> QED BY <1>17, <2>1, OnlyLeavesProvable
<1>20. PICK k \in DOMAIN txs : z = TXID[txs[k]] /\ SubtreeOf(k) = SubtreeOf(j)
  BY <1>7, <1>19 DEF IsPlace
<1>21. txs[k] \in OrdinaryTxs
  BY TxidsAre
<1>22. t = txs[k]
  BY <1>16, <1>20, <1>21, TxidOfOneTx
<1> QED BY <1>20, <1>22

-----------------------------------------------------------------------------
(***************************************************************************)
(* Folding in lanes folds every lane, and what is served is proven.        *)
(***************************************************************************)
\* Level by level the lanes hold the pairs of what they held before.
LEMMA LaneNodesAre ==
  ASSUME NEW nodes, NEW paths, Len(paths[1]) \in Nat
  PROVE  /\ LaneNodes(nodes, paths)[0] = nodes
         /\ \A j \in 1..Len(paths[1]) :
              LaneNodes(nodes, paths)[j] =
                DoubleSHA256xN([k \in Lane |-> Message(LaneNodes(nodes, paths)[j - 1][k], paths[k][j])])
<1> DEFINE Hashed(v, j) == DoubleSHA256xN([k \in Lane |-> Message(v[k], paths[k][j])])
           N(f, n) == [j \in 0..n |-> IF j = 0 THEN nodes ELSE Hashed(f[j - 1], j)]
           S == {n \in Nat : \E f : f = N(f, n)}
           c == LaneNodes(nodes, paths)
<1>1. c = CHOOSE f : f = N(f, Len(paths[1]))
  BY DEF LaneNodes
<1> HIDE DEF Hashed, c
<1>2. 0 \in S
  <2> DEFINE f == [j \in 0..0 |-> nodes]
  <2>1. f = N(f, 0)
    OBVIOUS
  <2> QED BY <2>1
<1>3. ASSUME NEW n \in Nat, n \in S PROVE n + 1 \in S
  <2>1. PICK f : f = N(f, n)
    BY <1>3
  <2> DEFINE g == [j \in 0..(n + 1) |-> IF j <= n THEN f[j] ELSE Hashed(f[n], n + 1)]
  <2>2. \A j \in 0..n : f[j] = IF j = 0 THEN nodes ELSE Hashed(f[j - 1], j)
    BY <2>1
  <2>3. ASSUME NEW j \in 0..(n + 1)
        PROVE  g[j] = IF j = 0 THEN nodes ELSE Hashed(g[j - 1], j)
    <3>1. CASE j <= n
      BY <2>2, <3>1
    <3>2. CASE j = n + 1
      BY <3>2
    <3> QED BY <3>1, <3>2
  <2>4. g = [j \in 0..(n + 1) |-> g[j]]
    OBVIOUS
  <2> HIDE DEF g
  <2>5. g = N(g, n + 1)
    BY <2>3, <2>4
  <2> QED BY <2>5
<1>4. \A n \in Nat : n \in S
  <2> HIDE DEF S
  <2> QED BY <1>2, <1>3, Induction
<1>5. \E f : f = N(f, Len(paths[1]))
  BY <1>4
<1>6. c = N(c, Len(paths[1]))
  <2> HIDE DEF N
  <2> QED BY <1>1, <1>5
<1>7. c[0] = nodes /\ \A j \in 1..Len(paths[1]) : c[j] = Hashed(c[j - 1], j)
  <2>1. \A j \in 0..Len(paths[1]) : c[j] = IF j = 0 THEN nodes ELSE Hashed(c[j - 1], j)
    BY <1>6
  <2> QED BY <2>1
<1> QED BY <1>7 DEF Hashed, c

\* fold16: lane by lane it is Fold, when the paths are equally long.
LEMMA LanesFold ==
  ASSUME NEW nodes, NEW paths, NEW n \in Nat, \A k \in Lane : Len(paths[k]) = n
  PROVE  \A k \in Lane : FoldLanes(nodes, paths)[k] = Fold(nodes[k], paths[k])
<1> SUFFICES ASSUME NEW k \in Lane PROVE FoldLanes(nodes, paths)[k] = Fold(nodes[k], paths[k])
  OBVIOUS
<1>1. 1 \in Lane /\ Len(paths[1]) = n /\ Len(paths[k]) = n
  BY LanesAssumption DEF Lane
<1> DEFINE c == LaneNodes(nodes, paths)
           d == Climbed(nodes[k], paths[k])
           S == {j \in Nat : j <= n => c[j][k] = d[j]}
<1>2. /\ c[0] = nodes
      /\ \A j \in 1..n : c[j] = DoubleSHA256xN([h \in Lane |-> Message(c[j - 1][h], paths[h][j])])
  BY <1>1, LaneNodesAre
<1>3. d[0] = nodes[k] /\ \A j \in 1..n : d[j] = Parent(d[j - 1], paths[k][j])
  BY <1>1, ClimbedIs
<1>4. FoldLanes(nodes, paths) = c[n] /\ Fold(nodes[k], paths[k]) = d[n]
  BY <1>1 DEF FoldLanes, Fold
<1> HIDE DEF c, d
<1>5. 0 \in S
  BY <1>2, <1>3
<1>6. ASSUME NEW j \in Nat, j \in S PROVE j + 1 \in S
  <2> SUFFICES ASSUME j + 1 <= n PROVE c[j + 1][k] = d[j + 1]
    OBVIOUS
  <2>1. j + 1 \in 1..n /\ (j + 1) - 1 = j /\ c[j][k] = d[j]
    BY <1>6
  <2>2. c[j + 1] = DoubleSHA256xN([h \in Lane |-> Message(c[j][h], paths[h][j + 1])])
    BY <1>2, <2>1
  <2>3. c[j + 1][k] = HashPair(Message(c[j][k], paths[k][j + 1]).left, Message(c[j][k], paths[k][j + 1]).right)
    BY <2>2 DEF DoubleSHA256xN
  <2>4. c[j + 1][k] = Parent(d[j], paths[k][j + 1])
    BY <2>1, <2>3 DEF Message, Parent
  <2> QED BY <1>3, <2>1, <2>4
<1>7. n \in S
  <2> HIDE DEF S
  <2> QED BY <1>5, <1>6, Induction
<1> QED BY <1>4, <1>7

\* The last place of a txid that the block has.
LEMMA PlaceIs ==
  ASSUME BlockInv, NEW txid, Served(txid) # {}
  PROVE  /\ Place(txid) \in DOMAIN txs /\ TXID[txs[Place(txid)]] = txid
<1>1. PICK n \in Nat : DOMAIN txs = 1..n
  <2>1. txs \in Seq(Mined)
    BY DEF BlockInv
  <2> QED BY <2>1
<1>2. Served(txid) \subseteq 1..n
  BY <1>1 DEF Served
<1> DEFINE R == {r \in Nat : n - r \in Served(txid)}
<1>3. R # {}
  <2>1. PICK i \in Served(txid) : TRUE
    OBVIOUS
  <2>2. n - i \in Nat /\ n - (n - i) = i
    BY <1>2, <2>1
  <2> QED BY <2>1, <2>2
<1>4. PICK r \in R : \A q \in R : r <= q
  <2> HIDE DEF R
  <2>1. R \in SUBSET Nat
    BY DEF R
  <2> QED BY <1>3, <2>1, LeastNat
<1>5. \A j \in Served(txid) : j <= n - r
  <2> SUFFICES ASSUME NEW j \in Served(txid) PROVE j <= n - r
    OBVIOUS
  <2>1. n - j \in Nat /\ n - (n - j) = j
    BY <1>2
  <2>2. n - j \in R
    BY <2>1
  <2> QED BY <1>2, <1>4, <2>1, <2>2
<1>6. \E i \in Served(txid) : \A j \in Served(txid) : j <= i
  BY <1>4, <1>5
<1>7. Place(txid) \in Served(txid)
  BY <1>6 DEF Place
<1> QED BY <1>7 DEF Served

\* A txid is proven by what the node serves exactly when the node has it.
LEMMA ServedIsProven ==
  ASSUME BlockInv, NEW txid, Served(txid) # {}
  PROVE  /\ Fold(txid, sealed.l1[Place(txid)]) = ServedRoot(txid)
         /\ Len(sealed.l1[Place(txid)]) \in Nat /\ Len(sealed.l1[Place(txid)]) <= 20
         /\ Fold(ServedRoot(txid), sealed.l2[Place(txid)]) = sealed.root
         /\ Len(sealed.l2[Place(txid)]) <= 255
<1> DEFINE n1 == Len(sealed.l1[Place(txid)])
           n2 == Len(sealed.l2[Place(txid)])
<1>1. /\ Fold(txid, sealed.l1[Place(txid)]) = ServedRoot(txid)
      /\ Fold(ServedRoot(txid), sealed.l2[Place(txid)]) = sealed.root
  BY PlaceIs, PlacePaths DEF ServedRoot
<1>2. n1 \in Nat /\ n1 <= 20 /\ n2 \in Nat /\ n2 <= 63
  BY PlaceIs, PlacePaths DEF MaxSubtreeDepth
<1>3. n1 \in Nat /\ n1 <= 20 /\ n2 <= 255
  <2> HIDE DEF n1, n2
  <2> QED BY <1>2
<1> QED BY <1>1, <1>3

\* Whatever of the wanted txids the node has, the paths that it serves prove.
LEMMA ProvenIsServed ==
  ASSUME BlockInv, NEW n
  PROVE  Proven(n) <=> Served(wanted[n]) # {}
<1>1. ASSUME Served(wanted[n]) # {} PROVE Proven(n)
  <2> DEFINE t == wanted[n]
  <2>1. /\ Fold(t, sealed.l1[Place(t)]) = ServedRoot(t)
        /\ Len(sealed.l1[Place(t)]) <= 20
        /\ Fold(ServedRoot(t), sealed.l2[Place(t)]) = sealed.root
        /\ Len(sealed.l2[Place(t)]) <= 255
    BY <1>1, ServedIsProven
  <2>2. VerifySubtreePath(t, sealed.l1[Place(t)], ServedRoot(t))
    BY <2>1 DEF VerifySubtreePath, MaxSubtreeDepth
  <2>3. VerifyBlockPath(ServedRoot(t), sealed.l2[Place(t)], sealed.root)
    BY <2>1 DEF VerifyBlockPath, MaxDepth
  <2> QED BY <1>1, <2>2, <2>3 DEF Proven
<1> QED BY <1>1 DEF Proven

\* A digest that is not the zero hash folds to no zero hash, so no txid and no
\* subtree root is the zero hash that a lane gets for an unknown txid.
LEMMA FoldNotZero ==
  ASSUME NEW x, x # ZeroHash, NEW p, Len(p) \in Nat
  PROVE  Fold(x, p) # ZeroHash
<1> DEFINE c == Climbed(x, p)
           n == Len(p)
<1>1. c[0] = x /\ \A k \in 1..n : c[k] = Parent(c[k - 1], p[k])
  BY ClimbedIs
<1>2. Fold(x, p) = c[n]
  BY DEF Fold
<1> HIDE DEF c
<1>3. CASE n = 0
  BY <1>1, <1>2, <1>3
<1>4. CASE n # 0
  <2>1. n \in 1..n
    BY <1>4
  <2>2. c[n] = Parent(c[n - 1], p[n])
    BY <1>1, <2>1
  <2> QED BY <1>2, <2>2 DEF Parent, HashPair, ZeroHash
<1> QED BY <1>3, <1>4

\* No txid is the zero hash, and no subtree root.
LEMMA TxidNotZero ==
  ASSUME NEW t \in Txs
  PROVE  TXID[t] # ZeroHash
<1>1. 1 \in DOMAIN FieldsOf[t]
  <2>1. PICK n \in Nat \ {0} : DOMAIN FieldsOf[t] = 1..n
    BY FieldsAre
  <2> QED BY <2>1
<1> DEFINE leaf == LeafForField(FieldsOf[t][1])
           p == MTxIDPath(FieldsOf[t], 1 - 1)
<1>2. Fold(leaf, p) = TXID[t] /\ Len(p) \in Nat
  BY <1>1, FieldPath
<1>3. leaf # ZeroHash
  BY DEF LeafForField, HashPair, DoubleSHA256, ZeroHash
<1> HIDE DEF leaf, p
<1> QED BY <1>2, <1>3, FoldNotZero

\* The subtrees found valid are those of the txids that the block has.
LEMMA ValidIs ==
  ASSUME BlockInv, NEW list, NEW N \in Nat, DOMAIN list = 1..N
  PROVE  /\ ZeroHash \notin ValidSubtrees(list)
         /\ \A n \in 1..N : Served(list[n]) # {} => ServedRoot(list[n]) \in ValidSubtrees(list)
<1>1. ASSUME NEW n \in 1..N, Served(list[n]) # {} PROVE ServedRoot(list[n]) # ZeroHash
  <2>1. /\ Fold(list[n], sealed.l1[Place(list[n])]) = ServedRoot(list[n])
        /\ Len(sealed.l1[Place(list[n])]) \in Nat
    BY <1>1, ServedIsProven
  <2>2. list[n] # ZeroHash
    <3>1. Place(list[n]) \in DOMAIN txs /\ TXID[txs[Place(list[n])]] = list[n]
      BY <1>1, PlaceIs
    <3>2. txs[Place(list[n])] \in Txs
      BY <3>1, BlockIs
    <3> QED BY <3>1, <3>2, TxidNotZero
  <2> QED BY <2>1, <2>2, FoldNotZero
<1>2. ZeroHash \notin ValidSubtrees(list)
  BY <1>1 DEF ValidSubtrees
<1>3. ASSUME NEW n \in 1..N, Served(list[n]) # {}
      PROVE  ServedRoot(list[n]) \in ValidSubtrees(list)
  <2> DEFINE S == {h \in 1..N : Served(list[h]) # {} /\ ServedRoot(list[h]) = ServedRoot(list[n])}
  <2>1. S \in SUBSET Nat /\ n \in S
    BY <1>3
  <2>2. PICK k \in S : \A h \in S : k <= h
    <3> HIDE DEF S
    <3> QED BY <2>1, LeastNat
  <2>3. k \in 1..N /\ Served(list[k]) # {} /\ ServedRoot(list[k]) = ServedRoot(list[n])
    BY <2>2
  <2>4. \A h \in 1..N : Served(list[h]) # {} /\ h < k => ServedRoot(list[h]) # ServedRoot(list[k])
    BY <2>2, <2>3
  <2>5. Fold(ServedRoot(list[k]), sealed.l2[Place(list[k])]) = sealed.root
    BY <2>3, ServedIsProven
  <2>6. ServedRoot(list[k]) \in ValidSubtrees(list)
    BY <2>3, <2>4, <2>5 DEF ValidSubtrees
  <2> QED BY <2>3, <2>6
<1> QED BY <1>2, <1>3

-----------------------------------------------------------------------------
(***************************************************************************)
(* What a group of one worker counts.                                      *)
(***************************************************************************)
\* The groups of a share are whole, and end within it.
LEMMA GroupWithin ==
  ASSUME NEW q \in Nat, NEW share \in Nat, q * Lanes < WholeGroups(share)
  PROVE  /\ q * Lanes + Lanes = (q + 1) * Lanes
         /\ q * Lanes + Lanes <= WholeGroups(share)
<1>1. PICK g \in Nat : WholeGroups(share) = g * Lanes
  BY LanesAssumption, DivIs DEF WholeGroups
<1>2. q < g
  <2> SUFFICES ASSUME g <= q PROVE FALSE
    OBVIOUS
  <2>1. g * Lanes \in Nat /\ q * Lanes \in Nat /\ g * Lanes <= q * Lanes
    BY LanesAssumption, TimesGrows
  <2> QED BY <1>1, <2>1
<1>3. (q + 1) * Lanes = q * Lanes + Lanes
  BY LanesAssumption, TimesGrows
<1>4. (q + 1) * Lanes <= g * Lanes
  BY <1>2, LanesAssumption, TimesGrows
<1> QED BY <1>1, <1>3, <1>4

\* The whole groups of a share are no more than the share.
LEMMA WholeGroupsIs ==
  ASSUME NEW share \in Int
  PROVE  WholeGroups(share) \in Int /\ WholeGroups(share) <= share
         /\ (share \in Nat => WholeGroups(share) \in Nat)
<1>1. share \div Lanes \in Int /\ share % Lanes \in Nat
      /\ share = (share \div Lanes) * Lanes + (share % Lanes)
  BY LanesAssumption
<1>2. share \in Nat => share \div Lanes \in Nat
  BY LanesAssumption, DivIs
<1>3. WholeGroups(share) \in Int
  BY <1>1, LanesAssumption DEF WholeGroups
<1>4. share \in Nat => WholeGroups(share) \in Nat
  BY <1>2, LanesAssumption DEF WholeGroups
<1>5. WholeGroups(share) <= share
  BY <1>1, <1>3 DEF WholeGroups
<1> QED BY <1>3, <1>4, <1>5

-----------------------------------------------------------------------------
(***************************************************************************)
(* Building a tree in lanes                                                *)
(***************************************************************************)
\* A list of n elements, and two lists one after the other.
IsList(f, n) == f = [i \in 1..n |-> f[i]]
Joined(f, a, g, e) == [i \in 1..(a + e) |-> IF i <= a THEN f[i] ELSE g[i - a]]

\* The beginning of a list after another.
LEMMA JoinIs ==
  ASSUME NEW a \in Nat, NEW b \in Nat, NEW f, NEW g, NEW e \in Nat, e <= b,
         IsList(f, a), IsList(g, b)
  PROVE  f \o SubSeq(g, 1, e) = Joined(f, a, g, e)
<1> DEFINE T == {f[i] : i \in 1..a} \cup {g[i] : i \in 1..b}
<1>1. f \in Seq(T) /\ g \in Seq(T) /\ Len(f) = a /\ Len(g) = b
  <2>1. /\ Len(f) = a /\ f \in Seq({f[i] : i \in 1..a})
        /\ Len(g) = b /\ g \in Seq({g[i] : i \in 1..b})
    <3>1. f = [i \in 1..a |-> f[i]] /\ g = [i \in 1..b |-> g[i]]
      BY DEF IsList
    <3>2. Len(f) = a /\ f \in Seq({f[i] : i \in 1..a})
      BY <3>1, FunctionsAreSeqs
    <3>3. Len(g) = b /\ g \in Seq({g[i] : i \in 1..b})
      BY <3>1, FunctionsAreSeqs
    <3> QED BY <3>2, <3>3
  <2>2. f \in [1..a -> T] /\ g \in [1..b -> T]
    BY DEF IsList
  <2> HIDE DEF T
  <2> QED BY <2>1, <2>2
<1> HIDE DEF T
<1>2. PICK h : h = SubSeq(g, 1, e)
  OBVIOUS
<1>3. h \in Seq(T) /\ Len(h) = e /\ \A i \in 1..e : h[i] = g[i]
  <2>1. \A i \in 1..e : g[i] \in T
    BY <1>1
  <2>2. /\ h \in Seq(T) /\ Len(h) = IF 1 <= e THEN e - 1 + 1 ELSE 0
        /\ \A i \in 1..(e - 1 + 1) : h[i] = g[1 + i - 1]
    BY <1>2, <2>1, SubSeqProperties
  <2>3. e - 1 + 1 = e /\ \A i \in 1..e : 1 + i - 1 = i
    OBVIOUS
  <2> QED BY <2>2, <2>3
<1>4. /\ f \o h \in Seq(T) /\ Len(f \o h) = a + e
      /\ \A i \in 1..(a + e) : (f \o h)[i] = IF i <= a THEN f[i] ELSE h[i - a]
  BY <1>1, <1>3, ConcatProperties
<1>5. PICK j : j = f \o h
  OBVIOUS
<1>6. j = [i \in 1..(a + e) |-> j[i]]
  <2>1. PICK n : n = a + e
    OBVIOUS
  <2>2. j \in Seq(T) /\ Len(j) = n
    BY <1>4, <1>5, <2>1
  <2>3. j \in [1..n -> T]
    BY <2>2
  <2>4. j = [i \in 1..n |-> j[i]]
    BY <2>3
  <2> QED BY <2>1, <2>4
<1>7. \A i \in 1..(a + e) : j[i] = IF i <= a THEN f[i] ELSE g[i - a]
  <2> SUFFICES ASSUME NEW i \in 1..(a + e) PROVE j[i] = IF i <= a THEN f[i] ELSE g[i - a]
    OBVIOUS
  <2>1. ~(i <= a) => i - a \in 1..e
    OBVIOUS
  <2> QED BY <1>3, <1>4, <1>5, <2>1
<1> QED BY <1>2, <1>5, <1>6, <1>7 DEF Joined

\* The nodes of the next level that are there after some groups.
Made(cur, e) == [i \in 1..e |-> NextLevel(cur)[i]]

\* A group adds its nodes to those there, whatever its spare lanes held.
LEMMA GroupMakes ==
  ASSUME NEW cur, NEW m \in Nat, Len(cur) = m + 1, NEW M \in Nat, M = (m \div 2) + 1,
         NEW base \in Nat, base < M, NEW s, s.next = Made(cur, base),
         NEW e, e = IF base + Lanes < M THEN base + Lanes ELSE M
  PROVE  LevelGroup(cur, s, base).next = Made(cur, e)
<1>1. (Len(cur) + 1) \div 2 = M
  OBVIOUS
<1>2. PICK used \in 1..Lanes : /\ used = IF M - base < Lanes THEN M - base ELSE Lanes
                               /\ base + used = e
  BY LanesAssumption
<1> DEFINE msgs == [k \in Lane |->
                      LET i == 2 * (base + k) - 1 IN
                      IF k > used THEN s.msgs[k]
                      ELSE [left |-> cur[i],
                            right |-> IF i < Len(cur) THEN cur[i + 1] ELSE cur[i]]]
           out == DoubleSHA256xN(msgs)
<1>3. LevelGroup(cur, s, base).next = Made(cur, base) \o SubSeq(out, 1, used)
  BY <1>1, <1>2 DEF LevelGroup
<1>4. \A k \in 1..used : out[k] = NextLevel(cur)[base + k]
  <2> SUFFICES ASSUME NEW k \in 1..used PROVE out[k] = NextLevel(cur)[base + k]
    OBVIOUS
  <2>1. PICK p \in 1..M : p = base + k
    BY <1>2, LanesAssumption
  <2>2. k \in Lane /\ ~(k > used)
    BY <1>2, LanesAssumption DEF Lane
  <2>3. msgs[k] = [left |-> cur[2 * p - 1],
                   right |-> IF 2 * p - 1 < m + 1 THEN cur[(2 * p - 1) + 1] ELSE cur[2 * p - 1]]
    BY <2>1, <2>2
  <2>4. out[k] = HashPair(msgs[k].left, msgs[k].right)
    BY <2>2 DEF DoubleSHA256xN
  <2>5. NextLevel(cur)[p] = HashPair(cur[2 * p - 1], cur[IF 2 * p <= m + 1 THEN 2 * p ELSE 2 * p - 1])
    BY <2>1, NextLevelIs
  <2>6. (2 * p - 1 < m + 1 <=> 2 * p <= m + 1) /\ (2 * p - 1) + 1 = 2 * p
    OBVIOUS
  <2> HIDE DEF msgs, out
  <2>7. msgs[k].left = cur[2 * p - 1]
        /\ msgs[k].right = cur[IF 2 * p <= m + 1 THEN 2 * p ELSE 2 * p - 1]
    BY <2>3, <2>6
  <2> QED BY <2>1, <2>4, <2>5, <2>7
<1>5. out = [k \in 1..Lanes |-> out[k]]
  BY DEF DoubleSHA256xN, Lane
<1>6. PICK made : made = Made(cur, base) /\ made = [i \in 1..base |-> made[i]]
                  /\ \A i \in 1..base : made[i] = NextLevel(cur)[i]
  BY DEF Made
<1> HIDE DEF out, msgs
<1>7. made \o SubSeq(out, 1, used) = Joined(made, base, out, used)
  <2>1. Lanes \in Nat /\ used \in Nat /\ used <= Lanes
    BY LanesAssumption
  <2>2. IsList(made, base) /\ IsList(out, Lanes)
    BY <1>5, <1>6 DEF IsList
  <2> QED BY <2>1, <2>2, JoinIs
<1>8. \A i \in 1..(base + used) :
        (IF i <= base THEN made[i] ELSE out[i - base]) = NextLevel(cur)[i]
  <2> SUFFICES ASSUME NEW i \in 1..(base + used), ~(i <= base) PROVE out[i - base] = NextLevel(cur)[i]
    BY <1>6
  <2>1. i - base \in 1..used /\ base + (i - base) = i
    OBVIOUS
  <2> QED BY <1>4, <2>1
<1>9. made \o SubSeq(out, 1, used) = Made(cur, base + used)
  BY <1>7, <1>8 DEF Made, Joined
<1> QED BY <1>2, <1>3, <1>6, <1>9

\* The groups of a level, one after another.
LEMMA LevelGroupsAre ==
  ASSUME NEW cur, NEW msgs, NEW G \in Nat, G = (((Len(cur) + 1) \div 2) + Lanes - 1) \div Lanes
  PROVE  /\ LevelGroups(cur, msgs)[0] = [msgs |-> msgs, next |-> << >>]
         /\ \A g \in 1..G : LevelGroups(cur, msgs)[g] =
                              LevelGroup(cur, LevelGroups(cur, msgs)[g - 1], (g - 1) * Lanes)
<1> DEFINE zero == [msgs |-> msgs, next |-> << >>]
           Grown(v, g) == LevelGroup(cur, v, (g - 1) * Lanes)
           N(f, n) == [g \in 0..n |-> IF g = 0 THEN zero ELSE Grown(f[g - 1], g)]
           S == {n \in Nat : \E f : f = N(f, n)}
           c == LevelGroups(cur, msgs)
<1>1. c = CHOOSE f : f = N(f, G)
  BY DEF LevelGroups
<1> HIDE DEF Grown, c, zero
<1>2. 0 \in S
  <2> DEFINE f == [g \in 0..0 |-> zero]
  <2>1. f = N(f, 0)
    OBVIOUS
  <2> QED BY <2>1
<1>3. ASSUME NEW n \in Nat, n \in S PROVE n + 1 \in S
  <2>1. PICK f : f = N(f, n)
    BY <1>3
  <2> DEFINE h == [g \in 0..(n + 1) |-> IF g <= n THEN f[g] ELSE Grown(f[n], n + 1)]
  <2>2. \A g \in 0..n : f[g] = IF g = 0 THEN zero ELSE Grown(f[g - 1], g)
    BY <2>1
  <2>3. ASSUME NEW g \in 0..(n + 1)
        PROVE  h[g] = IF g = 0 THEN zero ELSE Grown(h[g - 1], g)
    <3>1. CASE g <= n
      BY <2>2, <3>1
    <3>2. CASE g = n + 1
      BY <3>2
    <3> QED BY <3>1, <3>2
  <2>4. h = [g \in 0..(n + 1) |-> h[g]]
    OBVIOUS
  <2> HIDE DEF h
  <2>5. h = N(h, n + 1)
    BY <2>3, <2>4
  <2> HIDE DEF N
  <2>6. \E v : v = N(v, n + 1)
    BY <2>5
  <2> QED BY <2>6
<1>4. \A n \in Nat : n \in S
  <2> HIDE DEF S
  <2> QED BY <1>2, <1>3, Induction
<1>5. \E f : f = N(f, G)
  BY <1>4
<1>6. c = N(c, G)
  <2> HIDE DEF N
  <2> QED BY <1>1, <1>5
<1>7. \A g \in 0..G : c[g] = IF g = 0 THEN zero ELSE Grown(c[g - 1], g)
  BY <1>6
<1>8. c[0] = zero /\ \A g \in 1..G : c[g] = Grown(c[g - 1], g)
  BY <1>7
<1> QED BY <1>8 DEF Grown, c, zero

\* buildLevel16 makes the next level of the tree.
LEMMA LevelIsNext ==
  ASSUME NEW cur, NEW m \in Nat, Len(cur) = m + 1, NEW msgs
  PROVE  BuildLevel16(cur, msgs).next = NextLevel(cur)
<1>1. PICK M \in Nat \ {0} : M = (m \div 2) + 1 /\ (Len(cur) + 1) \div 2 = M
  OBVIOUS
<1>2. PICK G \in Nat \ {0} : G = (M + Lanes - 1) \div Lanes /\ (G - 1) * Lanes < M /\ M <= G * Lanes
  BY LanesAssumption, DivUp
<1>3. PICK s : s = LevelGroups(cur, msgs)
  OBVIOUS
<1>4. s[0].next = << >> /\ \A g \in 1..G : s[g] = LevelGroup(cur, s[g - 1], (g - 1) * Lanes)
  <2>1. G \in Nat /\ G = (((Len(cur) + 1) \div 2) + Lanes - 1) \div Lanes
    BY <1>1, <1>2
  <2>2. s[0] = [msgs |-> msgs, next |-> << >>]
    BY <1>3, <2>1, LevelGroupsAre
  <2>3. \A g \in 1..G : s[g] = LevelGroup(cur, s[g - 1], (g - 1) * Lanes)
    BY <1>3, <2>1, LevelGroupsAre
  <2> QED BY <2>2, <2>3
<1> DEFINE End(g) == IF g * Lanes < M THEN g * Lanes ELSE M
           S == {g \in Nat : g <= G => s[g].next = Made(cur, End(g))}
<1>5. 0 \in S
  <2>1. Made(cur, End(0)) = << >>
    BY <1>1, LanesAssumption DEF Made
  <2> QED BY <1>4, <2>1
<1>6. ASSUME NEW g \in Nat, g \in S PROVE g + 1 \in S
  <2> SUFFICES ASSUME g + 1 <= G PROVE s[g + 1].next = Made(cur, End(g + 1))
    OBVIOUS
  <2>1. PICK base \in Nat : base = g * Lanes /\ base < M /\ (g + 1) * Lanes = base + Lanes
    <3>1. g * Lanes \in Nat /\ g * Lanes <= (G - 1) * Lanes /\ (g + 1) * Lanes = g * Lanes + Lanes
      <4>1. g <= G - 1 /\ G - 1 \in Nat /\ Lanes \in Nat
        BY <1>2, LanesAssumption
      <4> QED BY <4>1, TimesGrows
    <3>2. PICK x : x = (G - 1) * Lanes
      OBVIOUS
    <3>3. x \in Nat
      <4>1. G - 1 \in Nat /\ Lanes \in Nat
        BY <1>2, LanesAssumption
      <4> QED BY <3>2, <4>1
    <3>4. PICK base \in Nat : base = g * Lanes
      BY <3>1
    <3> QED BY <1>1, <1>2, <3>1, <3>2, <3>3, <3>4
  <2>2. s[g].next = Made(cur, base)
    BY <1>6, <2>1
  <2>3. s[g + 1] = LevelGroup(cur, s[g], base)
    <3>1. g + 1 \in 1..G /\ (g + 1) - 1 = g
      BY <1>2
    <3> QED BY <1>4, <2>1, <3>1
  <2>4. PICK e : e = IF base + Lanes < M THEN base + Lanes ELSE M
    OBVIOUS
  <2>5. LevelGroup(cur, s[g], base).next = Made(cur, e)
    BY <1>1, <2>1, <2>2, <2>4, GroupMakes
  <2> QED BY <2>1, <2>3, <2>4, <2>5
<1>7. G \in S
  <2> HIDE DEF S
  <2>1. \A g \in Nat : g \in S
    BY <1>5, <1>6, Induction
  <2> QED BY <2>1
<1>8. End(G) = M
  BY <1>1, <1>2, LanesAssumption
<1>9. s[G].next = Made(cur, M)
  <2> HIDE DEF End
  <2> QED BY <1>7, <1>8
<1>10. BuildLevel16(cur, msgs) = s[G]
  BY <1>1, <1>2, <1>3 DEF BuildLevel16
<1>11. NextLevel(cur) = Made(cur, M)
  BY <1>1 DEF Made, NextLevel
<1> QED BY <1>9, <1>10, <1>11

\* The levels of a tree built in lanes, one after another.
LEMMA LaneLevelsAre ==
  ASSUME NEW leaves, NEW c \in Nat, c = CeilLog2(Len(leaves))
  PROVE  /\ LaneLevels(leaves)[0].next = leaves
         /\ \A l \in 1..c : LaneLevels(leaves)[l] =
              BuildLevel16(LaneLevels(leaves)[l - 1].next, LaneLevels(leaves)[l - 1].msgs)
<1> DEFINE zero == [msgs |-> [k \in Lane |-> [left |-> ZeroHash, right |-> ZeroHash]],
                    next |-> leaves]
           Above(v) == BuildLevel16(v.next, v.msgs)
           N(f, n) == [l \in 0..n |-> IF l = 0 THEN zero ELSE Above(f[l - 1])]
           S == {n \in Nat : \E f : f = N(f, n)}
           b == LaneLevels(leaves)
<1>1. b = CHOOSE f : f = N(f, c)
  BY DEF LaneLevels
<1>2. zero.next = leaves
  OBVIOUS
<1> HIDE DEF Above, b, zero
<1>3. 0 \in S
  <2> DEFINE f == [l \in 0..0 |-> zero]
  <2>1. f = N(f, 0)
    OBVIOUS
  <2> QED BY <2>1
<1>4. ASSUME NEW n \in Nat, n \in S PROVE n + 1 \in S
  <2>1. PICK f : f = N(f, n)
    BY <1>4
  <2> DEFINE h == [l \in 0..(n + 1) |-> IF l <= n THEN f[l] ELSE Above(f[n])]
  <2>2. \A l \in 0..n : f[l] = IF l = 0 THEN zero ELSE Above(f[l - 1])
    BY <2>1
  <2>3. ASSUME NEW l \in 0..(n + 1)
        PROVE  h[l] = IF l = 0 THEN zero ELSE Above(h[l - 1])
    <3>1. CASE l <= n
      BY <2>2, <3>1
    <3>2. CASE l = n + 1
      BY <3>2
    <3> QED BY <3>1, <3>2
  <2>4. h = [l \in 0..(n + 1) |-> h[l]]
    OBVIOUS
  <2> HIDE DEF h
  <2>5. h = N(h, n + 1)
    BY <2>3, <2>4
  <2> HIDE DEF N
  <2>6. \E v : v = N(v, n + 1)
    BY <2>5
  <2> QED BY <2>6
<1>5. \A n \in Nat : n \in S
  <2> HIDE DEF S
  <2> QED BY <1>3, <1>4, Induction
<1>6. \E f : f = N(f, c)
  BY <1>5
<1>7. b = N(b, c)
  <2> HIDE DEF N
  <2> QED BY <1>1, <1>6
<1>8. \A l \in 0..c : b[l] = IF l = 0 THEN zero ELSE Above(b[l - 1])
  BY <1>7
<1>9. b[0] = zero /\ \A l \in 1..c : b[l] = Above(b[l - 1])
  BY <1>8
<1> QED BY <1>2, <1>9 DEF Above, b

\* buildTree16 gives the Merkle root of any leaves, with any number of lanes.
LEMMA LaneTreeIsTree ==
  ASSUME NEW leaves, Len(leaves) \in Nat \ {0}
  PROVE  BuildTree16(leaves) = MerkleRoot(leaves)
<1>1. PICK n \in Nat \ {0} : n = Len(leaves)
  OBVIOUS
<1>2. PICK L : L = BuildMerkleTree(leaves)
  OBVIOUS
<1>3. PICK c \in Nat :
        /\ c = CeilLog2(Len(leaves)) /\ Len(L) = c + 1
        /\ L[1] = leaves /\ \A l \in 1..c : L[l + 1] = NextLevel(L[l])
        /\ \A l \in 1..(c + 1) : \E m \in Nat : Len(L[l]) = m + 1
  <2>1. PICK c : c = CeilLog2(Len(leaves))
    OBVIOUS
  <2>2. IsTree(L, leaves, c)
    BY <1>1, <1>2, <2>1, TreeLevels
  <2>3. /\ c \in Nat /\ Len(L) = c + 1 /\ L[1] = leaves /\ \A l \in 1..c : L[l + 1] = NextLevel(L[l])
        /\ \A l \in 1..(c + 1) : Len(L[l]) \in Nat \ {0}
    BY <2>2 DEF IsTree
  <2>4. ASSUME NEW l \in 1..(c + 1) PROVE \E m \in Nat : Len(L[l]) = m + 1
    <3>1. PICK z \in Nat \ {0} : z = Len(L[l])
      BY <2>3
    <3>2. z - 1 \in Nat /\ z = (z - 1) + 1
      OBVIOUS
    <3> QED BY <3>1, <3>2
  <2> QED BY <2>1, <2>3, <2>4
<1>4. PICK b : b = LaneLevels(leaves)
  OBVIOUS
<1>5. /\ b[0].next = leaves
      /\ \A l \in 1..c : b[l] = BuildLevel16(b[l - 1].next, b[l - 1].msgs)
  <2>1. c = CeilLog2(Len(leaves))
    BY <1>3
  <2>2. /\ LaneLevels(leaves)[0].next = leaves
        /\ \A l \in 1..c : LaneLevels(leaves)[l] =
             BuildLevel16(LaneLevels(leaves)[l - 1].next, LaneLevels(leaves)[l - 1].msgs)
    BY <2>1, LaneLevelsAre
  <2> QED BY <1>4, <2>2
<1> DEFINE S == {l \in Nat : l <= c => b[l].next = L[l + 1]}
<1>6. 0 \in S
  BY <1>3, <1>5
<1>7. ASSUME NEW l \in Nat, l \in S PROVE l + 1 \in S
  <2> SUFFICES ASSUME l + 1 <= c PROVE b[l + 1].next = L[(l + 1) + 1]
    OBVIOUS
  <2>1. l + 1 \in 1..c /\ (l + 1) - 1 = l /\ l + 1 \in 1..(c + 1)
    OBVIOUS
  <2>2. b[l].next = L[l + 1]
    BY <1>7
  <2>3. b[l + 1] = BuildLevel16(L[l + 1], b[l].msgs)
    BY <1>5, <2>1, <2>2
  <2>4. PICK m \in Nat : Len(L[l + 1]) = m + 1
    BY <1>3, <2>1
  <2>5. BuildLevel16(L[l + 1], b[l].msgs).next = NextLevel(L[l + 1])
    BY <2>4, LevelIsNext
  <2> QED BY <1>3, <2>1, <2>3, <2>5
<1>8. c \in S
  <2> HIDE DEF S
  <2>1. \A l \in Nat : l \in S
    BY <1>6, <1>7, Induction
  <2> QED BY <2>1
<1>9. b[c].next = L[c + 1]
  BY <1>8
<1>10. BuildTree16(leaves) = L[c + 1][1]
  BY <1>3, <1>4, <1>9 DEF BuildTree16
<1>11. MerkleRoot(leaves) = L[c + 1][1]
  BY <1>2, <1>3 DEF MerkleRoot, RootOf, Last
<1> QED BY <1>10, <1>11

\* The lanes build the tree of every block.
LEMMA BlockInvLaneTree == BlockInv => LaneTreeIsMerkleTree
<1> SUFFICES ASSUME BlockInv PROVE BuildTree16(Txids(txs)) = MerkleRoot(Txids(txs))
  BY DEF LaneTreeIsMerkleTree
<1>1. PICK n \in Nat \ {0} : DOMAIN txs = 1..n
  <2>1. txs \in Seq(Mined) /\ txs # << >>
    BY DEF BlockInv
  <2> QED BY <2>1
<1>2. PICK list : list = Txids(txs) /\ list = [i \in 1..n |-> list[i]]
  BY <1>1 DEF Txids
<1>3. Len(list) = n
  BY <1>2, FunctionsAreSeqs
<1> QED BY <1>2, <1>3, LaneTreeIsTree

-----------------------------------------------------------------------------
(***************************************************************************)
(* Lists of one root                                                       *)
(***************************************************************************)
\* The widths of the levels are halved, rounding up, from level to level.
LEMMA WidthsAre ==
  ASSUME NEW n, NEW c \in Nat, c = CeilLog2(n)
  PROVE  Widths(n)[0] = n /\ \A l \in 1..c : Widths(n)[l] = (Widths(n)[l - 1] + 1) \div 2
<1> DEFINE Half(v) == (v + 1) \div 2
           N(f, k) == [l \in 0..k |-> IF l = 0 THEN n ELSE Half(f[l - 1])]
           S == {k \in Nat : \E f : f = N(f, k)}
           w == Widths(n)
<1>1. w = CHOOSE f : f = N(f, c)
  BY DEF Widths
<1> HIDE DEF Half, w
<1>2. 0 \in S
  <2> DEFINE f == [l \in 0..0 |-> n]
  <2>1. f = N(f, 0)
    OBVIOUS
  <2> QED BY <2>1
<1>3. ASSUME NEW k \in Nat, k \in S PROVE k + 1 \in S
  <2>1. PICK f : f = N(f, k)
    BY <1>3
  <2> DEFINE h == [l \in 0..(k + 1) |-> IF l <= k THEN f[l] ELSE Half(f[k])]
  <2>2. \A l \in 0..k : f[l] = IF l = 0 THEN n ELSE Half(f[l - 1])
    BY <2>1
  <2>3. ASSUME NEW l \in 0..(k + 1) PROVE h[l] = IF l = 0 THEN n ELSE Half(h[l - 1])
    <3>1. CASE l <= k
      BY <2>2, <3>1
    <3>2. CASE l = k + 1
      BY <3>2
    <3> QED BY <3>1, <3>2
  <2>4. h = [l \in 0..(k + 1) |-> h[l]]
    OBVIOUS
  <2> HIDE DEF h
  <2>5. h = N(h, k + 1)
    BY <2>3, <2>4
  <2> HIDE DEF N
  <2>6. \E v : v = N(v, k + 1)
    BY <2>5
  <2> QED BY <2>6
<1>4. \A k \in Nat : k \in S
  <2> HIDE DEF S
  <2> QED BY <1>2, <1>3, Induction
<1>5. \E f : f = N(f, c)
  BY <1>4
<1>6. w = N(w, c)
  <2> HIDE DEF N
  <2> QED BY <1>1, <1>5
<1>7. \A l \in 0..c : w[l] = IF l = 0 THEN n ELSE Half(w[l - 1])
  BY <1>6
<1>8. w[0] = n /\ \A l \in 1..c : w[l] = Half(w[l - 1])
  BY <1>7
<1> QED BY <1>8 DEF Half, w

\* The widths are those of the levels of the tree.
LEMMA WidthsOfTree ==
  ASSUME NEW leaves, NEW n \in Nat \ {0}, n = Len(leaves),
         NEW L, L = BuildMerkleTree(leaves), NEW c, c = CeilLog2(n)
  PROVE  \A l \in 0..c : Widths(n)[l] = Len(L[l + 1])
<1>1. /\ c \in Nat /\ L[1] = leaves /\ \A l \in 1..c : L[l + 1] = NextLevel(L[l])
      /\ \A l \in 1..(c + 1) : Len(L[l]) \in Nat \ {0}
  <2>1. IsTree(L, leaves, c)
    BY TreeLevels
  <2> QED BY <2>1 DEF IsTree
<1>2. PICK w : w = Widths(n)
  OBVIOUS
<1>3. w[0] = n /\ \A l \in 1..c : w[l] = (w[l - 1] + 1) \div 2
  BY <1>1, <1>2, WidthsAre
<1> DEFINE S == {l \in Nat : l <= c => w[l] = Len(L[l + 1])}
<1>4. 0 \in S
  BY <1>1, <1>3
<1>5. ASSUME NEW l \in Nat, l \in S PROVE l + 1 \in S
  <2> SUFFICES ASSUME l + 1 <= c PROVE w[l + 1] = Len(L[(l + 1) + 1])
    OBVIOUS
  <2>1. l + 1 \in 1..c /\ (l + 1) - 1 = l /\ l + 1 \in 1..(c + 1) /\ w[l] = Len(L[l + 1])
    BY <1>1, <1>5
  <2>2. PICK m \in Nat : Len(L[l + 1]) = m + 1
    <3>1. PICK k : k = Len(L[l + 1])
      OBVIOUS
    <3>2. k \in Nat \ {0}
      BY <1>1, <2>1, <3>1
    <3>3. k - 1 \in Nat /\ k = (k - 1) + 1
      BY <3>2
    <3> QED BY <3>1, <3>3
  <2>3. Len(L[(l + 1) + 1]) = (m \div 2) + 1
    <3>1. L[(l + 1) + 1] = NextLevel(L[l + 1])
      BY <1>1, <2>1
    <3>2. Len(NextLevel(L[l + 1])) = (m \div 2) + 1
      BY <2>2, NextLevelIs
    <3> QED BY <3>1, <3>2
  <2>4. w[l + 1] = ((m + 1) + 1) \div 2
    BY <1>3, <2>1, <2>2
  <2>5. ((m + 1) + 1) \div 2 = (m \div 2) + 1
    OBVIOUS
  <2> QED BY <2>3, <2>4, <2>5
<1>6. \A l \in Nat : l \in S
  <2> HIDE DEF S
  <2> QED BY <1>4, <1>5, Induction
<1> QED BY <1>1, <1>2, <1>6

\* Left or right at each of c steps.
Sides(c) == [1..c -> {0, 1}]

\* The child of node i on a side, in a level of that width.
Child(i, side, width) == LET child == 2 * i - 1 + side
                         IN  IF child <= width THEN child ELSE child - 1

\* A way down, step by step.
LEMMA WayDownIs ==
  ASSUME NEW n, NEW c \in Nat, c = CeilLog2(n), NEW sides, NEW w, w = WayDown(n, sides)
  PROVE  /\ w[0] = 1
         /\ \A d \in 1..c : w[d] = Child(w[d - 1], sides[d], Widths(n)[c - d])
<1> DEFINE Down(v, d) == Child(v, sides[d], Widths(n)[c - d])
           N(f, k) == [d \in 0..k |-> IF d = 0 THEN 1 ELSE Down(f[d - 1], d)]
           S == {k \in Nat : \E f : f = N(f, k)}
<1>1. w = CHOOSE f : f = N(f, c)
  BY DEF WayDown, Child
<1> HIDE DEF Down
<1>2. 0 \in S
  <2> DEFINE f == [d \in 0..0 |-> 1]
  <2>1. f = N(f, 0)
    OBVIOUS
  <2> QED BY <2>1
<1>3. ASSUME NEW k \in Nat, k \in S PROVE k + 1 \in S
  <2>1. PICK f : f = N(f, k)
    BY <1>3
  <2> DEFINE h == [d \in 0..(k + 1) |-> IF d <= k THEN f[d] ELSE Down(f[k], k + 1)]
  <2>2. \A d \in 0..k : f[d] = IF d = 0 THEN 1 ELSE Down(f[d - 1], d)
    BY <2>1
  <2>3. ASSUME NEW d \in 0..(k + 1) PROVE h[d] = IF d = 0 THEN 1 ELSE Down(h[d - 1], d)
    <3>1. CASE d <= k
      BY <2>2, <3>1
    <3>2. CASE d = k + 1
      BY <3>2
    <3> QED BY <3>1, <3>2
  <2>4. h = [d \in 0..(k + 1) |-> h[d]]
    OBVIOUS
  <2> HIDE DEF h
  <2>5. h = N(h, k + 1)
    BY <2>3, <2>4
  <2> HIDE DEF N
  <2>6. \E v : v = N(v, k + 1)
    BY <2>5
  <2> QED BY <2>6
<1>4. \A k \in Nat : k \in S
  <2> HIDE DEF S
  <2> QED BY <1>2, <1>3, Induction
<1>5. \E f : f = N(f, c)
  BY <1>4
<1>6. w = N(w, c)
  <2> HIDE DEF N
  <2> QED BY <1>1, <1>5
<1>7. \A d \in 0..c : w[d] = IF d = 0 THEN 1 ELSE Down(w[d - 1], d)
  BY <1>6
<1>8. w[0] = 1 /\ \A d \in 1..c : w[d] = Down(w[d - 1], d)
  BY <1>7
<1> QED BY <1>8 DEF Down

\* A child is the half of its parent, a pair, on a side.
IsHalf(parent, side, child) == \E x, y : parent = HashPair(x, y) /\ child = IF side = 0 THEN x ELSE y

\* What a way down meets, from the root to the leaf at its end: a pair at each
\* step, of which the next is the half on the side taken.
Meets(leaves, n, c, sides, node) ==
  /\ node[0] = MerkleRoot(leaves)
  /\ \A d \in 1..c : IsHalf(node[d - 1], sides[d], node[d])
  /\ WayDown(n, sides)[c] \in 1..n /\ node[c] = leaves[WayDown(n, sides)[c]]

\* A way down, of which a node d steps down is node w[d] of its level.
NodesOn(L, c, w) == [d \in 0..c |-> L[(c - d) + 1][w[d]]]

\* One step down.
LEMMA StepDown ==
  ASSUME NEW level, NEW m \in Nat, Len(level) = m + 1,
         NEW i \in 1..Len(NextLevel(level)), NEW side \in {0, 1},
         NEW j, j = Child(i, side, m + 1)
  PROVE  /\ j \in 1..(m + 1)
         /\ IsHalf(NextLevel(level)[i], side, level[j])
<1>1. i \in 1..((m \div 2) + 1)
  BY NextLevelIs
<1> USE DEF Child, IsHalf
<1>2. NextLevel(level)[i] = HashPair(level[2*i - 1], level[IF 2*i <= m + 1 THEN 2*i ELSE 2*i - 1])
  BY <1>1, NextLevelIs
<1>3. 2 * i - 1 <= m + 1
  BY <1>1
<1>4. CASE side = 0
  <2>1. j = 2 * i - 1
    BY <1>1, <1>3, <1>4
  <2> QED BY <1>1, <1>2, <1>3, <1>4, <2>1
<1>5. CASE side = 1
  <2>1. j = IF 2*i <= m + 1 THEN 2*i ELSE 2*i - 1
    BY <1>1, <1>5
  <2>2. j \in 1..(m + 1)
    BY <1>1, <1>3, <2>1
  <2>3. NextLevel(level)[i] = HashPair(level[2*i - 1], level[j]) /\ side # 0
    BY <1>2, <1>5, <2>1
  <2> QED BY <2>2, <2>3
<1> QED BY <1>4, <1>5

\* In the tree over leaves every way down meets pairs and ends at a leaf.
LEMMA WayMeets ==
  ASSUME NEW leaves, NEW n \in Nat \ {0}, n = Len(leaves),
         NEW L, L = BuildMerkleTree(leaves), NEW c \in Nat, c = CeilLog2(n),
         NEW sides \in Sides(c), NEW w, w = WayDown(n, sides)
  PROVE  Meets(leaves, n, c, sides, NodesOn(L, c, w))
<1>1. /\ L[1] = leaves /\ \A l \in 1..c : L[l + 1] = NextLevel(L[l])
      /\ \A l \in 1..(c + 1) : Len(L[l]) \in Nat \ {0}
      /\ Len(L[c + 1]) = 1 /\ MerkleRoot(leaves) = L[c + 1][1]
  <2>1. IsTree(L, leaves, c)
    BY TreeLevels
  <2> QED BY <2>1 DEF IsTree
<1>2. /\ w[0] = 1
      /\ \A d \in 1..c : w[d] = Child(w[d - 1], sides[d], Widths(n)[c - d])
  BY WayDownIs
<1>3. PICK width : width = Widths(n) /\ \A l \in 0..c : width[l] = Len(L[l + 1])
  BY WidthsOfTree
<1> DEFINE In(d) == w[d] \in 1..Len(L[(c - d) + 1])
           Steps(d) == IsHalf(L[(c - (d - 1)) + 1][w[d - 1]], sides[d], L[(c - d) + 1][w[d]])
           S == {d \in Nat : d <= c => In(d)}
<1>4. ASSUME NEW d \in 1..c, In(d - 1) PROVE In(d) /\ Steps(d)
  <2>1. PICK l \in 1..c : l = (c - d) + 1
    <3>1. (c - d) + 1 \in 1..c
      OBVIOUS
    <3> QED BY <3>1
  <2>2. (c - (d - 1)) + 1 = l + 1 /\ c - d \in 0..c /\ l \in 1..(c + 1)
    BY <2>1
  <2>3. PICK m \in Nat : Len(L[l]) = m + 1
    <3>1. PICK k : k = Len(L[l])
      OBVIOUS
    <3>2. k \in Nat \ {0}
      BY <1>1, <2>2, <3>1
    <3>3. k - 1 \in Nat /\ k = (k - 1) + 1
      BY <3>2
    <3> QED BY <3>1, <3>3
  <2>4. L[l + 1] = NextLevel(L[l])
    BY <1>1
  <2>5. PICK i : i = w[d - 1]
    OBVIOUS
  <2>6. i \in 1..Len(NextLevel(L[l]))
    BY <1>4, <2>2, <2>4, <2>5
  <2>7. PICK side \in {0, 1} : side = sides[d]
    BY DEF Sides
  <2>8. width[c - d] = m + 1
    BY <1>3, <2>1, <2>2, <2>3
  <2>9. PICK j : j = w[d]
    OBVIOUS
  <2>10. j = Child(i, side, m + 1)
    BY <1>2, <1>3, <2>5, <2>7, <2>8, <2>9
  <2>11. j \in 1..(m + 1) /\ IsHalf(NextLevel(L[l])[i], side, L[l][j])
    <3>1. PICK level : level = L[l]
      OBVIOUS
    <3>2. Len(level) = m + 1 /\ i \in 1..Len(NextLevel(level))
      BY <2>3, <2>6, <3>1
    <3>3. j \in 1..(m + 1) /\ IsHalf(NextLevel(level)[i], side, level[j])
      BY <2>10, <3>2, StepDown
    <3> QED BY <3>1, <3>3
  <2> QED BY <2>1, <2>2, <2>3, <2>4, <2>5, <2>7, <2>9, <2>11
<1>5. 0 \in S
  BY <1>1, <1>2
<1>6. ASSUME NEW d \in Nat, d \in S PROVE d + 1 \in S
  <2> SUFFICES ASSUME d + 1 <= c PROVE In(d + 1)
    OBVIOUS
  <2>1. d + 1 \in 1..c /\ (d + 1) - 1 = d /\ In(d)
    BY <1>6
  <2> HIDE DEF In, Steps
  <2> QED BY <1>4, <2>1
<1>7. \A d \in 0..c : In(d)
  <2> HIDE DEF In
  <2>1. \A d \in Nat : d \in S
    <3> HIDE DEF S
    <3> QED BY <1>5, <1>6, Induction
  <2> QED BY <2>1
<1>8. \A d \in 1..c : Steps(d)
  <2> HIDE DEF In, Steps
  <2> SUFFICES ASSUME NEW d \in 1..c PROVE Steps(d)
    OBVIOUS
  <2>1. d - 1 \in 0..c
    OBVIOUS
  <2> QED BY <1>4, <1>7, <2>1
<1>9. PICK node : node = NodesOn(L, c, w)
  OBVIOUS
<1>10. \A d \in 0..c : node[d] = L[(c - d) + 1][w[d]]
  BY <1>9 DEF NodesOn
<1>11. node[0] = MerkleRoot(leaves)
  BY <1>1, <1>2, <1>10
<1>12. \A d \in 1..c : IsHalf(node[d - 1], sides[d], node[d])
  <2> SUFFICES ASSUME NEW d \in 1..c PROVE IsHalf(node[d - 1], sides[d], node[d])
    OBVIOUS
  <2>1. d - 1 \in 0..c /\ d \in 0..c
    OBVIOUS
  <2>2. node[d - 1] = L[(c - (d - 1)) + 1][w[d - 1]] /\ node[d] = L[(c - d) + 1][w[d]]
    BY <1>10, <2>1
  <2>3. Steps(d)
    BY <1>8
  <2> QED BY <2>2, <2>3
<1>13. w[c] \in 1..n /\ node[c] = leaves[w[c]]
  <2>1. PICK j : j = w[c]
    OBVIOUS
  <2>2. c \in 0..c /\ (c - c) + 1 = 1
    OBVIOUS
  <2>3. node[c] = L[1][j] /\ j \in 1..Len(L[1])
    BY <1>7, <1>10, <2>1, <2>2
  <2> QED BY <1>1, <2>1, <2>3
<1> QED BY <1>9, <1>11, <1>12, <1>13 DEF Meets

\* A pair has one half on each side, and its halves make it.
LEMMA HalvesMakePair ==
  ASSUME NEW p, NEW q, NEW x, NEW y, NEW u, NEW v,
         IsHalf(p, 0, x), IsHalf(p, 1, y), IsHalf(q, 0, u), IsHalf(q, 1, v)
  PROVE  p = q <=> x = u /\ y = v
<1>1. p = HashPair(x, y)
  <2>1. PICK a : p = HashPair(x, a)
    BY DEF IsHalf
  <2>2. PICK b : p = HashPair(b, y)
    BY DEF IsHalf
  <2>3. HashPair(x, a) = HashPair(b, y)
    BY <2>1, <2>2
  <2>4. a = y
    BY <2>3, PairIs
  <2> QED BY <2>1, <2>4
<1>2. q = HashPair(u, v)
  <2>1. PICK a : q = HashPair(u, a)
    BY DEF IsHalf
  <2>2. PICK b : q = HashPair(b, v)
    BY DEF IsHalf
  <2>3. HashPair(u, a) = HashPair(b, v)
    BY <2>1, <2>2
  <2>4. a = v
    BY <2>3, PairIs
  <2> QED BY <2>1, <2>4
<1> QED BY <1>1, <1>2, PairIs

LEMMA HalfIsOne ==
  ASSUME NEW p, NEW side \in {0, 1}, NEW x, NEW y, IsHalf(p, side, x), IsHalf(p, side, y)
  PROVE  x = y
<1>1. PICK a, b : p = HashPair(a, b) /\ x = IF side = 0 THEN a ELSE b
  BY DEF IsHalf
<1>2. PICK u, v : p = HashPair(u, v) /\ y = IF side = 0 THEN u ELSE v
  BY DEF IsHalf
<1>3. a = u /\ b = v
  BY <1>1, <1>2, PairIs
<1> QED BY <1>1, <1>2, <1>3

\* The nodes of the tree over leaves on the way down that takes these sides.
Way(leaves, sides) ==
  NodesOn(BuildMerkleTree(leaves), CeilLog2(Len(leaves)), WayDown(Len(leaves), sides))

LEMMA WayIs ==
  ASSUME NEW leaves, NEW n \in Nat \ {0}, n = Len(leaves), NEW c \in Nat, c = CeilLog2(n),
         NEW sides \in Sides(c)
  PROVE  Meets(leaves, n, c, sides, Way(leaves, sides))
<1>1. PICK L, w : L = BuildMerkleTree(leaves) /\ w = WayDown(n, sides)
  OBVIOUS
<1>2. Meets(leaves, n, c, sides, NodesOn(L, c, w))
  BY <1>1, WayMeets
<1> QED BY <1>1, <1>2 DEF Way

\* Ways that begin alike meet the same nodes that far.
LEMMA WaysBeginAlike ==
  ASSUME NEW leaves, NEW n \in Nat \ {0}, n = Len(leaves), NEW c \in Nat, c = CeilLog2(n),
         NEW s \in Sides(c), NEW t \in Sides(c), NEW e \in 0..c, \A d \in 1..e : s[d] = t[d]
  PROVE  Way(leaves, s)[e] = Way(leaves, t)[e]
<1>1. PICK L, w, v : L = BuildMerkleTree(leaves) /\ w = WayDown(n, s) /\ v = WayDown(n, t)
  OBVIOUS
<1>2. w[0] = 1 /\ \A d \in 1..c : w[d] = Child(w[d - 1], s[d], Widths(n)[c - d])
  BY <1>1, WayDownIs
<1>3. v[0] = 1 /\ \A d \in 1..c : v[d] = Child(v[d - 1], t[d], Widths(n)[c - d])
  BY <1>1, WayDownIs
<1> DEFINE S == {d \in Nat : d <= e => w[d] = v[d]}
<1>4. 0 \in S
  BY <1>2, <1>3
<1>5. ASSUME NEW d \in Nat, d \in S PROVE d + 1 \in S
  <2> SUFFICES ASSUME d + 1 <= e PROVE w[d + 1] = v[d + 1]
    OBVIOUS
  <2>1. d + 1 \in 1..c /\ d + 1 \in 1..e /\ (d + 1) - 1 = d /\ w[d] = v[d]
    BY <1>5
  <2>2. PICK k : k = d + 1 /\ k \in 1..c /\ k \in 1..e /\ k - 1 = d
    BY <2>1
  <2>3. s[k] = t[k]
    BY <2>2
  <2>4. w[k] = Child(w[k - 1], s[k], Widths(n)[c - k]) /\ v[k] = Child(v[k - 1], t[k], Widths(n)[c - k])
    BY <1>2, <1>3, <2>2
  <2>5. w[k] = v[k]
    BY <2>1, <2>2, <2>3, <2>4
  <2> QED BY <2>2, <2>5
<1>6. w[e] = v[e]
  <2>1. \A d \in Nat : d \in S
    <3> HIDE DEF S
    <3> QED BY <1>4, <1>5, Induction
  <2> QED BY <2>1
<1>7. Way(leaves, s)[e] = L[(c - e) + 1][w[e]] /\ Way(leaves, t)[e] = L[(c - e) + 1][v[e]]
  BY <1>1 DEF Way, NodesOn
<1> QED BY <1>6, <1>7

\* What two lists have in common when every way down ends at equal leaves.
EndsMeet(A, B, n, m, c) == \A s \in Sides(c) : A[WayDown(n, s)[c]] = B[WayDown(m, s)[c]]

\* From one root every way down meets the same nodes, and ends at the same leaf.
LEMMA OneRootOneList ==
  ASSUME NEW A, NEW B, NEW n \in Nat \ {0}, NEW m \in Nat \ {0}, n = Len(A), m = Len(B),
         NEW c \in Nat, c = CeilLog2(n), c = CeilLog2(m),
         MerkleRoot(A) = MerkleRoot(B)
  PROVE  EndsMeet(A, B, n, m, c)
<1> SUFFICES ASSUME NEW s \in Sides(c) PROVE A[WayDown(n, s)[c]] = B[WayDown(m, s)[c]]
  BY DEF EndsMeet
<1>1. PICK x, y : x = Way(A, s) /\ y = Way(B, s)
  OBVIOUS
<1>2. Meets(A, n, c, s, x) /\ Meets(B, m, c, s, y)
  BY <1>1, WayIs
<1>3. x[0] = y[0]
  BY <1>2 DEF Meets
<1> DEFINE S == {d \in Nat : d <= c => x[d] = y[d]}
<1>4. 0 \in S
  BY <1>3
<1>5. ASSUME NEW d \in Nat, d \in S PROVE d + 1 \in S
  <2> SUFFICES ASSUME d + 1 <= c PROVE x[d + 1] = y[d + 1]
    OBVIOUS
  <2>1. PICK k : k = d + 1 /\ k \in 1..c /\ k - 1 = d
    OBVIOUS
  <2>2. x[k - 1] = y[k - 1]
    BY <1>5, <2>1
  <2>3. IsHalf(x[k - 1], s[k], x[k]) /\ IsHalf(y[k - 1], s[k], y[k])
    BY <1>2, <2>1 DEF Meets
  <2>4. s[k] \in {0, 1}
    BY <2>1 DEF Sides
  <2>5. x[k] = y[k]
    <3>1. PICK p, side, u, v : p = x[k - 1] /\ side = s[k] /\ u = x[k] /\ v = y[k]
      OBVIOUS
    <3>2. IsHalf(p, side, u) /\ IsHalf(p, side, v) /\ side \in {0, 1}
      BY <2>2, <2>3, <2>4, <3>1
    <3>3. u = v
      BY <3>2, HalfIsOne
    <3> QED BY <3>1, <3>3
  <2> QED BY <2>1, <2>5
<1>6. x[c] = y[c]
  <2>1. \A d \in Nat : d \in S
    <3> HIDE DEF S
    <3> QED BY <1>4, <1>5, Induction
  <2> QED BY <2>1
<1> QED BY <1>2, <1>6 DEF Meets

\* The nodes ways down meet, as far as they begin alike.
Alike(leaves, c) ==
  \A s, t \in Sides(c), e \in 0..c :
    (\A d \in 1..e : s[d] = t[d]) => Way(leaves, s)[e] = Way(leaves, t)[e]

\* Those of any list have it in common.
LEMMA WaysAreAlike ==
  ASSUME NEW leaves, NEW n \in Nat \ {0}, n = Len(leaves), NEW c \in Nat, c = CeilLog2(n)
  PROVE  Alike(leaves, c)
<1>1. ASSUME NEW s \in Sides(c), NEW t \in Sides(c), NEW e \in 0..c, \A d \in 1..e : s[d] = t[d]
      PROVE  Way(leaves, s)[e] = Way(leaves, t)[e]
  BY <1>1, WaysBeginAlike
<1> QED BY <1>1 DEF Alike

\* From equal leaves at the ends of all ways up, the trees have the same nodes, and
\* one root.
LEMMA OneListOneRoot ==
  ASSUME NEW A, NEW B, NEW n \in Nat \ {0}, NEW m \in Nat \ {0}, n = Len(A), m = Len(B),
         NEW c \in Nat, c = CeilLog2(n), c = CeilLog2(m),
         EndsMeet(A, B, n, m, c)
  PROVE  MerkleRoot(A) = MerkleRoot(B)
<1>1. \A s \in Sides(c) : Meets(A, n, c, s, Way(A, s)) /\ Meets(B, m, c, s, Way(B, s))
  BY WayIs
<1>2. Alike(A, c) /\ Alike(B, c)
  BY WaysAreAlike
<1> DEFINE Same(d) == \A s \in Sides(c) : Way(A, s)[d] = Way(B, s)[d]
           S == {k \in Nat : k <= c => Same(c - k)}
<1>3. 0 \in S
  <2>1. Same(c)
    BY <1>1 DEF Meets, EndsMeet
  <2>2. c - 0 = c
    OBVIOUS
  <2> HIDE DEF Same
  <2> QED BY <2>1, <2>2
<1>4. ASSUME NEW k \in Nat, k \in S PROVE k + 1 \in S
  <2>1. ASSUME k + 1 <= c, NEW s \in Sides(c) PROVE Way(A, s)[c - (k + 1)] = Way(B, s)[c - (k + 1)]
    <3>1. PICK d : d = c - k /\ d \in 1..c /\ d - 1 = c - (k + 1) /\ d - 1 \in 0..c
      BY <2>1
    <3>2. Same(d)
      <4> HIDE DEF Same
      <4> QED BY <1>4, <2>1, <3>1
    <3>3. PICK l, r : l = [s EXCEPT ![d] = 0] /\ r = [s EXCEPT ![d] = 1]
      OBVIOUS
    <3>4. /\ l \in Sides(c) /\ l[d] = 0 /\ \A i \in 1..(d - 1) : s[i] = l[i]
          /\ r \in Sides(c) /\ r[d] = 1 /\ \A i \in 1..(d - 1) : s[i] = r[i]
      BY <3>1, <3>3 DEF Sides
    <3>5. PICK p, q : p = Way(A, s)[d - 1] /\ q = Way(B, s)[d - 1]
      OBVIOUS
    <3>6. /\ p = Way(A, l)[d - 1] /\ p = Way(A, r)[d - 1]
          /\ q = Way(B, l)[d - 1] /\ q = Way(B, r)[d - 1]
      <4>1. PICK e \in 0..c : e = d - 1
        BY <3>1
      <4>2. (\A i \in 1..e : s[i] = l[i]) /\ (\A i \in 1..e : s[i] = r[i])
        BY <3>4, <4>1
      <4>3. Way(A, s)[e] = Way(A, l)[e] /\ Way(A, s)[e] = Way(A, r)[e]
        BY <1>2, <2>1, <3>4, <4>2 DEF Alike
      <4>4. Way(B, s)[e] = Way(B, l)[e] /\ Way(B, s)[e] = Way(B, r)[e]
        BY <1>2, <2>1, <3>4, <4>2 DEF Alike
      <4> QED BY <3>5, <4>1, <4>3, <4>4
    <3>7. PICK x, y : x = Way(A, l)[d] /\ y = Way(A, r)[d]
      OBVIOUS
    <3>8. x = Way(B, l)[d] /\ y = Way(B, r)[d]
      BY <3>2, <3>4, <3>7
    <3>9. IsHalf(p, 0, x) /\ IsHalf(p, 1, y) /\ IsHalf(q, 0, x) /\ IsHalf(q, 1, y)
      <4>1. Meets(A, n, c, l, Way(A, l)) /\ Meets(A, n, c, r, Way(A, r))
        BY <1>1, <3>4
      <4>2. Meets(B, m, c, l, Way(B, l)) /\ Meets(B, m, c, r, Way(B, r))
        BY <1>1, <3>4
      <4>3. /\ IsHalf(Way(A, l)[d - 1], l[d], Way(A, l)[d])
            /\ IsHalf(Way(A, r)[d - 1], r[d], Way(A, r)[d])
        BY <3>1, <4>1 DEF Meets
      <4>4. /\ IsHalf(Way(B, l)[d - 1], l[d], Way(B, l)[d])
            /\ IsHalf(Way(B, r)[d - 1], r[d], Way(B, r)[d])
        BY <3>1, <4>2 DEF Meets
      <4> QED BY <3>4, <3>6, <3>7, <3>8, <4>3, <4>4
    <3>10. p = q
      BY <3>9, HalvesMakePair
    <3> QED BY <3>1, <3>5, <3>10
  <2> QED BY <2>1
<1>5. Same(0)
  <2>1. \A k \in Nat : k \in S
    <3> HIDE DEF S
    <3> QED BY <1>3, <1>4, Induction
  <2>2. c - c = 0 /\ c <= c
    OBVIOUS
  <2> HIDE DEF Same
  <2> QED BY <2>1, <2>2
<1>6. PICK s : s = [i \in 1..c |-> 0]
  OBVIOUS
<1>7. s \in Sides(c)
  BY <1>6 DEF Sides
<1>8. Way(A, s)[0] = MerkleRoot(A) /\ Way(B, s)[0] = MerkleRoot(B)
  BY <1>1, <1>7 DEF Meets
<1> QED BY <1>5, <1>7, <1>8

\* The lists a tree fills are functions on the ways down, so equal ones are equally deep.
LEMMA SidesAreDeep ==
  ASSUME NEW a \in Nat, NEW b \in Nat, Sides(a) = Sides(b)
  PROVE  a = b
<1>1. PICK s : s = [i \in 1..a |-> 0]
  OBVIOUS
<1>2. s \in Sides(a) /\ DOMAIN s = 1..a
  BY <1>1 DEF Sides
<1>3. s \in Sides(b)
  BY <1>2
<1>4. 1..a = 1..b
  BY <1>2, <1>3 DEF Sides
<1>5. CASE a = 0
  <2>1. 1 \notin 1..b
    BY <1>4, <1>5
  <2> QED BY <1>5, <2>1
<1>6. CASE a # 0
  <2>1. a \in 1..b /\ 1 \in 1..a
    BY <1>4, <1>6
  <2>2. b \in 1..a
    BY <1>4, <2>1
  <2> QED BY <2>1, <2>2
<1> QED BY <1>5, <1>6

LEMMA PaddedIs ==
  ASSUME NEW list, NEW n, n = Len(list), NEW c, c = CeilLog2(n)
  PROVE  /\ DOMAIN Padded(list) = Sides(c)
         /\ Padded(list) = [s \in Sides(c) |-> Padded(list)[s]]
         /\ \A s \in Sides(c) : Padded(list)[s] = list[WayDown(n, s)[c]]
BY DEF Padded, Sides

\* Two blocks of ordinary transactions have one root when they fill the tree alike, and only then.
LEMMA RootsMeet ==
  ASSUME NEW list, NEW other, NEW n \in Nat \ {0}, NEW m \in Nat \ {0},
         list \in [1..n -> OrdinaryTxs], other \in [1..m -> OrdinaryTxs]
  PROVE  MerkleRoot(Txids(other)) = MerkleRoot(Txids(list)) <=> Padded(other) = Padded(list)
<1>1. Len(list) = n /\ Len(other) = m
  BY FunctionsAreSeqs
<1>2. PICK A, B : A = Txids(list) /\ B = Txids(other)
  OBVIOUS
<1>3. A = [i \in 1..n |-> TXID[list[i]]] /\ B = [i \in 1..m |-> TXID[other[i]]]
  BY <1>2 DEF Txids
<1>4. Len(A) = n /\ Len(B) = m
  BY <1>3, FunctionsAreSeqs
<1>5. (\A i \in 1..n : A[i] = TXID[list[i]]) /\ (\A i \in 1..m : B[i] = TXID[other[i]])
  BY <1>3
<1>6. (\A i \in 1..n : TxidLike(A[i])) /\ (\A i \in 1..m : TxidLike(B[i]))
  BY <1>5, TxidOfTx
<1>7. PICK c, e : c = CeilLog2(n) /\ e = CeilLog2(m) /\ c \in Nat /\ e \in Nat
  BY CeilLog2Is
<1>8. ASSUME c = e PROVE EndsMeet(A, B, n, m, c) <=> Padded(other) = Padded(list)
  <2>1. \A s \in Sides(c) : WayDown(n, s)[c] \in 1..n /\ WayDown(m, s)[c] \in 1..m
    <3>1. \A s \in Sides(c) : Meets(A, n, c, s, Way(A, s))
      BY <1>4, <1>7, WayIs
    <3>2. \A s \in Sides(c) : Meets(B, m, c, s, Way(B, s))
      BY <1>4, <1>7, <1>8, WayIs
    <3> QED BY <3>1, <3>2 DEF Meets
  <2>2. PICK f, g : f = Padded(list) /\ g = Padded(other)
    OBVIOUS
  <2>3. /\ f = [s \in Sides(c) |-> f[s]] /\ g = [s \in Sides(c) |-> g[s]]
        /\ \A s \in Sides(c) : f[s] = list[WayDown(n, s)[c]] /\ g[s] = other[WayDown(m, s)[c]]
    <3>1. /\ f = [s \in Sides(c) |-> f[s]]
          /\ \A s \in Sides(c) : f[s] = list[WayDown(n, s)[c]]
      BY <1>1, <1>7, <2>2, PaddedIs
    <3>2. /\ g = [s \in Sides(c) |-> g[s]]
          /\ \A s \in Sides(c) : g[s] = other[WayDown(m, s)[c]]
      BY <1>1, <1>7, <1>8, <2>2, PaddedIs
    <3> QED BY <3>1, <3>2
  <2>4. ASSUME NEW s \in Sides(c)
        PROVE  A[WayDown(n, s)[c]] = B[WayDown(m, s)[c]] <=> f[s] = g[s]
    <3>1. PICK i \in 1..n, j \in 1..m : i = WayDown(n, s)[c] /\ j = WayDown(m, s)[c]
      BY <2>1
    <3>2. A[i] = TXID[list[i]] /\ B[j] = TXID[other[j]] /\ list[i] \in OrdinaryTxs /\ other[j] \in OrdinaryTxs
      BY <1>5
    <3>3. A[i] = B[j] <=> list[i] = other[j]
      BY <3>2, TxidOfOneTx
    <3> QED BY <2>3, <3>1, <3>3
  <2>5. EndsMeet(A, B, n, m, c) <=> \A s \in Sides(c) : f[s] = g[s]
    BY <2>4 DEF EndsMeet
  <2>6. f = g <=> \A s \in Sides(c) : f[s] = g[s]
    BY <2>3
  <2> QED BY <2>2, <2>5, <2>6
<1>9. ASSUME MerkleRoot(B) = MerkleRoot(A) PROVE Padded(other) = Padded(list)
  <2>1. c = e
    BY <1>4, <1>6, <1>7, <1>9, RootsBindDepth
  <2>2. EndsMeet(A, B, n, m, c)
    BY <1>4, <1>7, <1>9, <2>1, OneRootOneList
  <2> QED BY <1>8, <2>1, <2>2
<1>10. ASSUME Padded(other) = Padded(list) PROVE MerkleRoot(B) = MerkleRoot(A)
  <2>1. DOMAIN Padded(list) = Sides(c) /\ DOMAIN Padded(other) = Sides(e)
    BY <1>1, <1>7, PaddedIs
  <2>2. c = e
    BY <1>7, <1>10, <2>1, SidesAreDeep
  <2>3. EndsMeet(A, B, n, m, c)
    BY <1>8, <1>10, <2>2
  <2>4. MerkleRoot(A) = MerkleRoot(B)
    BY <1>4, <1>7, <2>2, <2>3, OneListOneRoot
  <2> QED BY <2>4
<1> QED BY <1>2, <1>9, <1>10

LEMMA BlockInvPadding == BlockInv => RootsMeetOnlyByPadding
<1> SUFFICES ASSUME BlockInv, ToSet(txs) \subseteq OrdinaryTxs, NEW other \in PaddedRoots
             PROVE  other[2] = MerkleRoot(Txids(txs)) <=> other[1] = Padded(txs)
  BY DEF RootsMeetOnlyByPadding
<1>1. PICK list \in BoundedSeq(Mined \cap OrdinaryTxs, MaxTxs) \ {<< >>} :
        other = <<Padded(list), MerkleRoot(Txids(list))>>
  BY DEF PaddedRoots
<1>2. PICK n \in Nat \ {0} : txs \in [1..n -> OrdinaryTxs]
  <2>1. txs \in Seq(Mined) /\ txs # << >> /\ Mined \subseteq Txs
    BY TxsAre DEF BlockInv
  <2>2. PICK n \in Nat : n = Len(txs) /\ txs \in [1..n -> Mined] /\ n # 0
    BY <2>1
  <2>3. \A i \in 1..n : txs[i] \in OrdinaryTxs
    BY <2>2, TxidsAre
  <2>4. txs \in [1..n -> OrdinaryTxs]
    BY <2>2, <2>3
  <2> QED BY <2>2, <2>4
<1>3. PICK m \in Nat \ {0} : list \in [1..m -> OrdinaryTxs]
  <2>1. MaxTxs \in Nat
    BY TxsAre
  <2>2. PICK k \in 0..MaxTxs : list \in [1..k -> Mined \cap OrdinaryTxs]
    BY <1>1, <2>1 DEF BoundedSeq, SeqOf
  <2>3. list \in [1..k -> OrdinaryTxs]
    BY <2>2
  <2>4. k # 0
    <3>1. ASSUME k = 0 PROVE FALSE
      <4>1. list = << >>
        BY <2>2, <3>1
      <4> QED BY <1>1, <4>1
    <3> QED BY <3>1
  <2> QED BY <2>3, <2>4
<1>4. MerkleRoot(Txids(list)) = MerkleRoot(Txids(txs)) <=> Padded(list) = Padded(txs)
  BY <1>2, <1>3, RootsMeet
<1> QED BY <1>1, <1>4

-----------------------------------------------------------------------------
(***************************************************************************)
(* CountValid16 counts the proofs that fold one by one.                    *)
(***************************************************************************)
\* Proofs of a batch that lanes can fold: their paths are equally long.
IsBatch(proofs, N, d) == DOMAIN proofs = 1..N /\ Len(proofs) = N /\ \A i \in 1..N : Len(proofs[i].L1) = d

\* What CountValid16 should count.
Good(proofs, i) ==
  Fold(proofs[i].Leaf, proofs[i].L1) = proofs[i].SubtreeRoot /\ ValidByFirst(proofs, proofs[i].SubtreeRoot)

\* The lane of a proof, in the group it is in, holds what its own path folds to.
LEMMA GroupRootIs ==
  ASSUME NEW N \in Nat, NEW d \in Nat, NEW proofs, IsBatch(proofs, N, d), NEW i \in 1..WholeGroups(N)
  PROVE  LET base == ((i - 1) \div Lanes) * Lanes
         IN  GroupRoots(proofs, base)[i - base] = Fold(proofs[i].Leaf, proofs[i].L1)
<1>1. WholeGroups(N) \in Nat /\ WholeGroups(N) <= N
  BY WholeGroupsIs
<1>2. PICK q \in Nat : q = (i - 1) \div Lanes /\ q * Lanes <= i - 1 /\ i - 1 < q * Lanes + Lanes
  <2>1. PICK x \in Nat : x = i - 1
    BY <1>1
  <2>2. /\ x \div Lanes \in Nat /\ x % Lanes \in 0..(Lanes - 1)
        /\ x = (x \div Lanes) * Lanes + (x % Lanes)
    BY LanesAssumption, DivIs
  <2>3. PICK product \in Nat : product = (x \div Lanes) * Lanes
    BY <2>2, LanesAssumption
  <2> QED BY <2>1, <2>2, <2>3, LanesAssumption
<1>3. PICK base \in Nat : base = q * Lanes /\ base <= i - 1 /\ i - 1 < base + Lanes
  BY <1>2, LanesAssumption
<1>4. base + Lanes <= WholeGroups(N)
  BY <1>1, <1>2, <1>3, GroupWithin
<1>5. PICK k \in Lane : k = i - base /\ base + k = i
  <2>1. PICK k \in Int : k = i - base
    BY <1>1, <1>3
  <2>2. k \in 1..Lanes /\ base + k = i
    BY <1>1, <1>3, <2>1, LanesAssumption
  <2> QED BY <2>1, <2>2 DEF Lane
<1> DEFINE nodes == [h \in Lane |-> proofs[base + h].Leaf]
           paths == [h \in Lane |-> proofs[base + h].L1]
<1>6. \A h \in Lane : Len(paths[h]) = d
  <2> SUFFICES ASSUME NEW h \in Lane PROVE Len(paths[h]) = d
    OBVIOUS
  <2>1. base + h \in 1..N
    BY <1>1, <1>4, LanesAssumption DEF Lane
  <2> QED BY <2>1 DEF IsBatch
<1>7. nodes[k] = proofs[i].Leaf /\ paths[k] = proofs[i].L1
  BY <1>5
<1>8. GroupRoots(proofs, base) = FoldLanes(nodes, paths)
  BY DEF GroupRoots
<1> HIDE DEF nodes, paths
<1>9. GroupRoots(proofs, base)[k] = Fold(proofs[i].Leaf, proofs[i].L1)
  BY <1>6, <1>7, <1>8, LanesFold
<1> QED BY <1>2, <1>3, <1>5, <1>9

\* CountValid16 counts the good proofs of the whole groups, each on its own.
LEMMA CountedAre ==
  ASSUME NEW N \in Nat, NEW d \in Nat, NEW proofs, IsBatch(proofs, N, d)
  PROVE  CountValid16(proofs) = Cardinality({i \in 1..WholeGroups(N) : Good(proofs, i)})
<1>1. Len(proofs) = N
  BY DEF IsBatch
<1>2. \A i \in 1..WholeGroups(N) :
        LET base == ((i - 1) \div Lanes) * Lanes
        IN  GroupRoots(proofs, base)[i - base] = Fold(proofs[i].Leaf, proofs[i].L1)
  BY GroupRootIs
<1>3. {i \in 1..WholeGroups(N) :
         LET base == ((i - 1) \div Lanes) * Lanes
         IN  /\ GroupRoots(proofs, base)[i - base] = proofs[i].SubtreeRoot
             /\ ValidByFirst(proofs, proofs[i].SubtreeRoot)}
        = {i \in 1..WholeGroups(N) : Good(proofs, i)}
  BY <1>2 DEF Good
<1> QED BY <1>1, <1>3 DEF CountValid16

\* A root is valid by the first proof that names it, when all L2 are right.
LEMMA AllValid ==
  ASSUME NEW N \in Nat, NEW proofs, DOMAIN proofs = 1..N,
         \A i \in 1..N : Fold(proofs[i].SubtreeRoot, proofs[i].L2) = proofs[i].BlockRoot,
         NEW i \in 1..N
  PROVE  ValidByFirst(proofs, proofs[i].SubtreeRoot)
<1> DEFINE S == {h \in 1..N : proofs[h].SubtreeRoot = proofs[i].SubtreeRoot}
<1>1. PICK k \in S : \A h \in S : k <= h
  <2>1. S \in SUBSET Nat /\ i \in S
    OBVIOUS
  <2> HIDE DEF S
  <2> QED BY <2>1, LeastNat
<1>2. k \in 1..N /\ proofs[k].SubtreeRoot = proofs[i].SubtreeRoot
  BY <1>1
<1>3. \A h \in 1..(k - 1) : proofs[h].SubtreeRoot # proofs[i].SubtreeRoot
  BY <1>1, <1>2
<1>4. Fold(proofs[i].SubtreeRoot, proofs[k].L2) = proofs[k].BlockRoot
  BY <1>2
<1> QED BY <1>2, <1>3, <1>4 DEF ValidByFirst

\* What two batches say of a root, when only their leaves differ.
LEMMA SameValid ==
  ASSUME NEW N \in Nat, NEW p, NEW q, DOMAIN p = 1..N, DOMAIN q = 1..N,
         \A i \in 1..N : p[i].SubtreeRoot = q[i].SubtreeRoot /\ p[i].L2 = q[i].L2
                         /\ p[i].BlockRoot = q[i].BlockRoot,
         NEW root, ValidByFirst(p, root)
  PROVE  ValidByFirst(q, root)
<1>1. PICK i \in 1..N : /\ p[i].SubtreeRoot = root
                        /\ \A h \in 1..(i - 1) : p[h].SubtreeRoot # root
                        /\ Fold(root, p[i].L2) = p[i].BlockRoot
  BY DEF ValidByFirst
<1>2. \A h \in 1..(i - 1) : q[h].SubtreeRoot # root
  BY <1>1
<1> QED BY <1>1, <1>2 DEF ValidByFirst

\* A batch but for the leaf of one proof.
IsTampered(other, proofs, N, t) ==
  /\ DOMAIN other = 1..N /\ Len(other) = N
  /\ \A i \in 1..N : /\ other[i].Leaf = (IF i = t THEN ZeroHash ELSE proofs[i].Leaf)
                      /\ other[i].L1 = proofs[i].L1 /\ other[i].L2 = proofs[i].L2
                      /\ other[i].SubtreeRoot = proofs[i].SubtreeRoot
                      /\ other[i].BlockRoot = proofs[i].BlockRoot

\* Whichever leaf of a batch of good proofs is tampered with, its proof fails.
LEMMA TamperedIsCounted ==
  ASSUME NEW N \in Nat, NEW d \in Nat, NEW proofs, IsBatch(proofs, N, d),
         \A i \in 1..N : /\ Fold(proofs[i].Leaf, proofs[i].L1) = proofs[i].SubtreeRoot
                         /\ Fold(proofs[i].SubtreeRoot, proofs[i].L2) = proofs[i].BlockRoot
                         /\ proofs[i].Leaf # ZeroHash,
         NEW t \in 1..N, NEW other, IsTampered(other, proofs, N, t)
  PROVE  /\ CountValid16(proofs) = WholeGroups(N)
         /\ CountValid16(other) = IF t <= WholeGroups(N) THEN WholeGroups(N) - 1 ELSE WholeGroups(N)
<1>1. PICK n \in Nat : n = WholeGroups(N) /\ n <= N
  BY WholeGroupsIs
<1>2. \A i \in 1..N : Good(proofs, i)
  BY AllValid DEF Good, IsBatch
<1>3. \A i \in 1..N : ValidByFirst(other, proofs[i].SubtreeRoot)
  BY <1>2, SameValid DEF Good, IsBatch, IsTampered
<1>4. IsBatch(other, N, d)
  BY DEF IsBatch, IsTampered
<1>5. ASSUME NEW i \in 1..N, i # t PROVE Good(other, i)
  BY <1>2, <1>3, <1>5 DEF Good, IsTampered
<1>6. ~Good(other, t)
  <2>1. PICK path : path = proofs[t].L1 /\ Len(path) = d
    BY DEF IsBatch
  <2>2. Fold(proofs[t].Leaf, path) # Fold(ZeroHash, path)
    BY <2>1, FoldBinds
  <2> QED BY <2>1, <2>2 DEF Good, IsTampered
<1>7. {i \in 1..n : Good(proofs, i)} = 1..n
  BY <1>1, <1>2
<1>8. Cardinality(1..n) = n /\ IsFiniteSet(1..n)
  BY FS_Interval
<1>9. CASE t <= n
  <2>1. {i \in 1..n : Good(other, i)} = (1..n) \ {t}
    BY <1>1, <1>5, <1>6
  <2>2. t \in 1..n
    BY <1>9, <1>1
  <2>3. Cardinality((1..n) \ {t}) = n - 1
    BY <1>8, <2>2, FS_RemoveElement
  <2> QED BY <1>1, <1>4, <1>7, <1>8, <1>9, <2>1, <2>3, CountedAre
<1>10. CASE ~(t <= n)
  <2>1. {i \in 1..n : Good(other, i)} = 1..n
    BY <1>1, <1>5, <1>10
  <2> QED BY <1>1, <1>4, <1>7, <1>8, <1>10, <2>1, CountedAre
<1> QED BY <1>9, <1>10

\* fabric16_test.go:14, of every block.
LEMMA BlockInvTampered == BlockInv => TamperedProofAloneFails
<1> DEFINE P(i) == [Leaf |-> TXID[txs[i]], L1 |-> sealed.l1[i], L2 |-> sealed.l2[i],
                    SubtreeRoot |-> sealed.roots[SubtreeOf(i)], BlockRoot |-> sealed.root]
           proofs == [i \in DOMAIN txs |-> P(i)]
           Tampered(t) == [proofs EXCEPT ![t].Leaf = ZeroHash]
<1> SUFFICES ASSUME BlockInv, wanted = << >>,
                    \A i \in DOMAIN txs : Len(sealed.l1[i]) = Len(sealed.l1[1])
             PROVE  /\ CountValid16(proofs) = WholeGroups(Len(txs))
                    /\ \A t \in DOMAIN txs :
                         CountValid16(Tampered(t)) =
                           IF t <= WholeGroups(Len(txs)) THEN WholeGroups(Len(txs)) - 1
                                                         ELSE WholeGroups(Len(txs))
  BY DEF TamperedProofAloneFails
<1>1. PICK N \in Nat \ {0} : N = Len(txs) /\ DOMAIN txs = 1..N
  <2>1. txs \in Seq(Mined) /\ txs # << >>
    BY DEF BlockInv
  <2> QED BY <2>1
<1>2. PICK d \in Nat : \A i \in 1..N : Len(sealed.l1[i]) = d
  <2>1. 1 \in DOMAIN txs
    BY <1>1
  <2>2. Len(sealed.l1[1]) \in Nat /\ Len(sealed.l1[1]) <= 20
    BY <2>1, PlacePaths DEF MaxSubtreeDepth
  <2>3. PICK d : d = Len(sealed.l1[1])
    OBVIOUS
  <2>4. d \in Nat
    BY <2>2, <2>3
  <2> QED BY <1>1, <2>3, <2>4
<1>3. \A i \in 1..N : /\ Fold(TXID[txs[i]], sealed.l1[i]) = sealed.roots[SubtreeOf(i)]
                      /\ Fold(sealed.roots[SubtreeOf(i)], sealed.l2[i]) = sealed.root
                      /\ TXID[txs[i]] # ZeroHash
  <2> SUFFICES ASSUME NEW i \in 1..N
               PROVE  /\ Fold(TXID[txs[i]], sealed.l1[i]) = sealed.roots[SubtreeOf(i)]
                      /\ Fold(sealed.roots[SubtreeOf(i)], sealed.l2[i]) = sealed.root
                      /\ TXID[txs[i]] # ZeroHash
    OBVIOUS
  <2>1. txs[i] \in Txs
    BY <1>1, BlockIs
  <2> QED BY <1>1, <2>1, PlacePaths, TxidNotZero
<1>4. /\ DOMAIN proofs = 1..N /\ proofs = [i \in 1..N |-> proofs[i]]
      /\ \A i \in 1..N : /\ proofs[i].Leaf = TXID[txs[i]] /\ proofs[i].L1 = sealed.l1[i]
                         /\ proofs[i].L2 = sealed.l2[i] /\ proofs[i].BlockRoot = sealed.root
                         /\ proofs[i].SubtreeRoot = sealed.roots[SubtreeOf(i)]
                         /\ proofs[i] = P(i)
  BY <1>1
<1> HIDE DEF proofs
<1>5. Len(proofs) = N
  BY <1>4, FunctionsAreSeqs
<1>6. IsBatch(proofs, N, d)
  BY <1>2, <1>4, <1>5 DEF IsBatch
<1>7. \A i \in 1..N : /\ Fold(proofs[i].Leaf, proofs[i].L1) = proofs[i].SubtreeRoot
                      /\ Fold(proofs[i].SubtreeRoot, proofs[i].L2) = proofs[i].BlockRoot
                      /\ proofs[i].Leaf # ZeroHash
  BY <1>3, <1>4
<1>8. ASSUME NEW t \in 1..N
      PROVE  /\ CountValid16(proofs) = WholeGroups(N)
             /\ CountValid16(Tampered(t)) = IF t <= WholeGroups(N) THEN WholeGroups(N) - 1 ELSE WholeGroups(N)
  <2>1. PICK other : other = Tampered(t)
    OBVIOUS
  <2>2. DOMAIN other = 1..N /\ \A i \in 1..N : i # t => other[i] = proofs[i]
    BY <1>4, <2>1
  <2>3. other[t] = [P(t) EXCEPT !.Leaf = ZeroHash]
    BY <1>4, <2>1
  <2>4. other = [i \in 1..N |-> other[i]]
    BY <1>4, <2>1
  <2>5. Len(other) = N
    BY <2>4, FunctionsAreSeqs
  <2>6. IsTampered(other, proofs, N, t)
    BY <1>4, <2>2, <2>3, <2>5 DEF IsTampered
  <2> HIDE DEF Tampered, P
  <2>7. N \in Nat
    OBVIOUS
  <2>8. /\ CountValid16(proofs) = WholeGroups(N)
        /\ CountValid16(other) = IF t <= WholeGroups(N) THEN WholeGroups(N) - 1 ELSE WholeGroups(N)
    BY <1>6, <1>7, <2>6, <2>7, TamperedIsCounted
  <2> QED BY <2>1, <2>8
<1>9. 1 \in 1..N
  BY <1>1
<1> QED BY <1>1, <1>8, <1>9

\* Of the txids wanted, those that what the node serves proves; and how many of
\* a set are in a stretch of the list.
ProvenAt == {n \in DOMAIN wanted : Proven(n)}
CountIn(P, start, length) == Cardinality(P \cap ((start + 1)..(start + length)))

\* A stretch counts no more than it has.
LEMMA CountInIs ==
  ASSUME NEW P, NEW start \in Nat, NEW length \in Nat
  PROVE  /\ CountIn(P, start, length) \in Nat /\ CountIn(P, start, length) <= length
         /\ CountIn(P, start, 0) = 0
<1> DEFINE R(a, b) == P \cap ((a + 1)..(a + b))
<1>1. \A a, b \in Nat : IsFiniteSet(R(a, b)) /\ Cardinality(R(a, b)) \in Nat /\ Cardinality(R(a, b)) <= b
  <2> SUFFICES ASSUME NEW a \in Nat, NEW b \in Nat
               PROVE  IsFiniteSet(R(a, b)) /\ Cardinality(R(a, b)) \in Nat /\ Cardinality(R(a, b)) <= b
    OBVIOUS
  <2>1. a + 1 \in Int /\ a + b \in Int /\ (a + b) - (a + 1) + 1 = b /\ (a + 1 > a + b <=> b = 0)
    OBVIOUS
  <2>2. IsFiniteSet((a + 1)..(a + b)) /\ Cardinality((a + 1)..(a + b)) = b
    BY <2>1, FS_Interval
  <2>3. IsFiniteSet(R(a, b)) /\ Cardinality(R(a, b)) <= b
    BY <2>2, FS_Intersection
  <2> QED BY <2>3, FS_CardinalityType
<1>2. CountIn(P, start, 0) = 0
  <2>1. R(start, 0) = {}
    OBVIOUS
  <2> QED BY <2>1, FS_EmptySet DEF CountIn
<1> QED BY <1>1, <1>2 DEF CountIn

\* A stretch counted in two parts.
LEMMA CountInAdds ==
  ASSUME NEW P, NEW start \in Nat, NEW length \in Nat, NEW more \in Nat, NEW next, next = start + length
  PROVE  CountIn(P, start, length + more) = CountIn(P, start, length) + CountIn(P, next, more)
<1> DEFINE R(a, b) == P \cap ((a + 1)..(a + b))
<1>1. \A a, b \in Nat : IsFiniteSet(R(a, b)) /\ Cardinality(R(a, b)) \in Nat /\ Cardinality(R(a, b)) <= b
  <2> SUFFICES ASSUME NEW a \in Nat, NEW b \in Nat
               PROVE  IsFiniteSet(R(a, b)) /\ Cardinality(R(a, b)) \in Nat /\ Cardinality(R(a, b)) <= b
    OBVIOUS
  <2>1. a + 1 \in Int /\ a + b \in Int /\ (a + b) - (a + 1) + 1 = b /\ (a + 1 > a + b <=> b = 0)
    OBVIOUS
  <2>2. IsFiniteSet((a + 1)..(a + b)) /\ Cardinality((a + 1)..(a + b)) = b
    BY <2>1, FS_Interval
  <2>3. IsFiniteSet(R(a, b)) /\ Cardinality(R(a, b)) <= b
    BY <2>2, FS_Intersection
  <2> QED BY <2>3, FS_CardinalityType
<1>3. CountIn(P, start, length + more) = CountIn(P, start, length) + CountIn(P, next, more)
  <2> DEFINE A == R(start, length)
             B == R(start + length, more)
  <2>1. start + length \in Nat /\ start + (length + more) = (start + length) + more
    OBVIOUS
  <2>2. R(start, length + more) = A \cup B /\ A \cap B = {}
    OBVIOUS
  <2>3. /\ IsFiniteSet(A) /\ IsFiniteSet(B) /\ Cardinality(A) \in Nat /\ Cardinality(B) \in Nat
    BY <1>1, <2>1
  <2>4. Cardinality(A \cup B) = Cardinality(A) + Cardinality(B) - Cardinality({})
    <3> HIDE DEF A, B
    <3> QED BY <2>2, <2>3, FS_Union
  <2>5. Cardinality({}) = 0
    BY FS_EmptySet
  <2>6. Cardinality(A \cup B) = Cardinality(A) + Cardinality(B)
    <3> HIDE DEF A, B
    <3> QED BY <2>3, <2>4, <2>5
  <2>7. Cardinality(R(start, length + more)) = Cardinality(A) + Cardinality(B)
    BY <2>2, <2>6
  <2> QED BY <2>7 DEF CountIn
<1> QED BY <1>3

\* What lane k holds for a txid.
Holds(lanes, k, txid) ==
  /\ lanes.root[k] = IF Served(txid) # {} THEN ServedRoot(txid) ELSE ZeroHash
  /\ Served(txid) # {} => lanes.l1[k] = sealed.l1[Place(txid)] /\ lanes.node[k] = txid

\* What one lane holds once the group at a is served.
LEMMA FillIs ==
  ASSUME NEW w, NEW a, a = workers[w].start + workers[w].base, NEW lanes, lanes = Fill(w),
         NEW k \in Lane
  PROVE  Holds(lanes, k, wanted[a + k])
<1> DEFINE id(j) == wanted[a + j]
<1>1. /\ lanes.root = [j \in Lane |-> IF Served(id(j)) # {} THEN ServedRoot(id(j)) ELSE ZeroHash]
      /\ lanes.node = [j \in Lane |-> IF Served(id(j)) # {} THEN id(j) ELSE workers[w].node[j]]
      /\ lanes.l1 = [j \in Lane |-> IF Served(id(j)) # {} THEN sealed.l1[Place(id(j))]
                                                       ELSE workers[w].l1[j]]
  BY DEF Fill
<1>2. wanted[a + k] = id(k)
  OBVIOUS
<1> HIDE DEF id
<1> QED BY <1>1, <1>2 DEF Holds

\* One group of a worker: what it matches is proven, and all of it is when all
\* txids are known and their paths equally long.
LEMMA GroupMatches ==
  ASSUME BlockInv, valid = ValidSubtrees(wanted),
         NEW N \in Nat, DOMAIN wanted = 1..N,
         NEW w, NEW a \in Nat, a = workers[w].start + workers[w].base, a + Lanes <= N,
         NEW lanes, lanes = Fill(w), NEW nodes, nodes = FoldLanes(lanes.node, lanes.l1)
  PROVE  /\ AllServed /\ Uniform => Foldable(lanes.l1)
         /\ Matches(nodes, lanes.root) \in Nat
         /\ Matches(nodes, lanes.root) <= CountIn(ProvenAt, a, Lanes)
         /\ AllServed /\ Uniform => Matches(nodes, lanes.root) = CountIn(ProvenAt, a, Lanes)
<1> DEFINE M == {k \in Lane : nodes[k] = lanes.root[k] /\ lanes.root[k] \in valid}
           R == ProvenAt \cap ((a + 1)..(a + Lanes))
<1>1. Lanes \in Nat \ {0} /\ Lane = 1..Lanes
  BY LanesAssumption DEF Lane
<1>2. \A k \in Lane : a + k \in 1..N
  BY <1>1
<1>h. \A k \in Lane : Holds(lanes, k, wanted[a + k])
  BY FillIs
<1>3. \A k \in Lane :
        lanes.root[k] = IF Served(wanted[a + k]) # {} THEN ServedRoot(wanted[a + k]) ELSE ZeroHash
  BY <1>h DEF Holds
<1>4. \A k \in Lane : Served(wanted[a + k]) # {} =>
        lanes.l1[k] = sealed.l1[Place(wanted[a + k])] /\ lanes.node[k] = wanted[a + k]
  BY <1>h DEF Holds
<1>5. /\ ZeroHash \notin valid
      /\ \A n \in 1..N : Served(wanted[n]) # {} => ServedRoot(wanted[n]) \in valid
  BY ValidIs
<1>6. \A k \in M : a + k \in R
  <2> SUFFICES ASSUME NEW k \in M PROVE a + k \in R
    OBVIOUS
  <2>1. k \in Lane /\ lanes.root[k] \in valid
    OBVIOUS
  <2>2. Served(wanted[a + k]) # {}
    BY <1>3, <1>5, <2>1
  <2>3. a + k \in ProvenAt
    BY <1>2, <2>1, <2>2, ProvenIsServed DEF ProvenAt
  <2>4. a + k \in (a + 1)..(a + Lanes)
    BY <1>1, <2>1
  <2> QED BY <2>3, <2>4
<1>7. /\ IsFiniteSet(R) /\ Cardinality(R) \in Nat /\ Cardinality(R) <= Lanes
  <2>1. a + 1 \in Int /\ a + Lanes \in Int /\ (a + Lanes) - (a + 1) + 1 = Lanes /\ ~(a + 1 > a + Lanes)
    BY <1>1
  <2>2. IsFiniteSet((a + 1)..(a + Lanes)) /\ Cardinality((a + 1)..(a + Lanes)) = Lanes
    BY <2>1, FS_Interval
  <2>3. IsFiniteSet(R) /\ Cardinality(R) <= Lanes
    BY <2>2, FS_Intersection
  <2> QED BY <2>3, FS_CardinalityType
<1>8. IsFiniteSet(M) /\ Cardinality(M) <= Cardinality(R)
  <2> DEFINE f == [k \in M |-> a + k]
  <2>1. M \subseteq Int
    BY <1>1
  <2>2. f \in Injection(M, R)
    <3>1. f \in [M -> R]
      BY <1>6
    <3>2. \A x, y \in M : f[x] = f[y] => x = y
      BY <2>1
    <3> HIDE DEF f, M, R
    <3> QED BY <3>1, <3>2 DEF Injection, IsInjective
  <2> HIDE DEF M, R, f
  <2> QED BY <1>7, <2>2, FS_Injection
<1>9. Cardinality(M) \in Nat
  BY <1>8, FS_CardinalityType
<1>10. ASSUME AllServed, Uniform
       PROVE  Foldable(lanes.l1) /\ Cardinality(M) = Cardinality(R)
  <2>1. \A k \in Lane : Served(wanted[a + k]) # {}
    BY <1>2, <1>10 DEF AllServed
  <2>2. 1 \in Lane
    BY <1>1
  <2> DEFINE n == Len(lanes.l1[1])
  <2>3. n \in Nat
    <3>1. lanes.l1[1] = sealed.l1[Place(wanted[a + 1])]
      BY <1>4, <2>1, <2>2
    <3>2. Len(sealed.l1[Place(wanted[a + 1])]) \in Nat
      BY <2>1, <2>2, ServedIsProven
    <3> QED BY <3>1, <3>2
  <2>4. \A k \in Lane : Len(lanes.l1[k]) = n
    <3>1. \A k \in Lane : Len(sealed.l1[Place(wanted[a + k])]) = Len(sealed.l1[Place(wanted[a + 1])])
      BY <1>2, <1>10, <2>2 DEF Uniform
    <3>2. n = Len(sealed.l1[Place(wanted[a + 1])])
      BY <1>4, <2>1, <2>2
    <3> HIDE DEF n
    <3>3. \A k \in Lane : lanes.l1[k] = sealed.l1[Place(wanted[a + k])]
      BY <1>4, <2>1
    <3> QED BY <3>1, <3>2, <3>3
  <2> HIDE DEF n
  <2>5. Foldable(lanes.l1)
    <3>1. n >= n
      BY <2>3
    <3>2. Len(lanes.l1[1]) = n
      BY <2>2, <2>4
    <3> QED BY <2>4, <3>1, <3>2 DEF Foldable
  <2>6. \A k \in Lane : nodes[k] = Fold(lanes.node[k], lanes.l1[k])
    BY <2>3, <2>4, LanesFold
  <2>7. \A k \in Lane : nodes[k] = lanes.root[k] /\ lanes.root[k] \in valid
    <3> SUFFICES ASSUME NEW k \in Lane PROVE nodes[k] = lanes.root[k] /\ lanes.root[k] \in valid
      OBVIOUS
    <3>1. nodes[k] = Fold(wanted[a + k], sealed.l1[Place(wanted[a + k])])
      BY <1>4, <2>1, <2>6
    <3>2. nodes[k] = ServedRoot(wanted[a + k])
      BY <2>1, <3>1, ServedIsProven
    <3> QED BY <1>2, <1>3, <1>5, <2>1, <3>2
  <2>8. Cardinality(M) = Lanes
    <3>1. M = 1..Lanes
      BY <1>1, <2>7
    <3>2. 1 \in Int /\ Lanes \in Int /\ ~(1 > Lanes) /\ Lanes - 1 + 1 = Lanes
      BY <1>1
    <3>3. Cardinality(1..Lanes) = Lanes
      BY <3>2, FS_Interval
    <3> QED BY <3>1, <3>3
  <2>9. Cardinality(M) = Cardinality(R)
    <3> HIDE DEF M, R
    <3> QED BY <1>1, <1>7, <1>8, <2>8
  <2> QED BY <2>5, <2>9
<1>11. Matches(nodes, lanes.root) = Cardinality(M) /\ CountIn(ProvenAt, a, Lanes) = Cardinality(R)
  BY DEF Matches, CountIn
<1> HIDE DEF M, R
<1> QED BY <1>8, <1>9, <1>10, <1>11

-----------------------------------------------------------------------------
(***************************************************************************)
(* The inductive invariant, and the shares that CallMeasure cuts.          *)
(***************************************************************************)
\* What a worker has to have counted: its whole groups in every pass that is
\* over, and the groups behind it in the one under way.
Due(P, j) ==
  j.passes * CountIn(P, j.start, WholeGroups(j.end - j.start))
    + (IF j.done THEN 0 ELSE CountIn(P, j.start, j.base))

JobInv(P, N, j) ==
  /\ j = [start |-> j.start, end |-> j.end, base |-> j.base, passes |-> j.passes, limit |-> j.limit,
          l1 |-> j.l1, node |-> j.node, root |-> j.root, local |-> j.local, done |-> j.done]
  /\ j.start \in Nat /\ j.end \in 0..N /\ j.passes \in Nat /\ j.local \in Nat /\ j.done \in BOOLEAN
  /\ \E q \in Nat : j.base = q * Lanes
  /\ j.start <= j.end => j.base <= WholeGroups(j.end - j.start) /\ j.local <= Due(P, j)

\* The shares, as CallMeasure cuts them.
SharesInv ==
  \E cores \in Nat \ {0} :
    LET per == PerWorker(wanted, cores)
    IN  /\ DOMAIN workers = 1..cores /\ Len(workers) = cores
        /\ \A w \in 1..cores :
             /\ workers[w].start = (w - 1) * per
             /\ workers[w].end = ShareEnd(wanted, workers[w].start, per)

ExactInv ==
  AllServed /\ Uniform =>
    \A w \in DOMAIN workers :
      workers[w].start <= workers[w].end => workers[w].local = Due(ProvenAt, workers[w])

PullInv ==
  /\ BlockInv
  /\ wanted = << >> => workers = << >> /\ panic = FALSE
  /\ wanted # << >> => /\ wanted \in Seq({TXID[t] : t \in Txs})
                       /\ valid = ValidSubtrees(wanted)
                       /\ SharesInv
  /\ \A w \in DOMAIN workers : JobInv(ProvenAt, Len(wanted), workers[w])
  /\ ExactInv
  /\ PanicHasCause

\* A share lies in the list, unless a third worker got a share of a list that
\* has no group for each.
LEMMA ShareIs ==
  ASSUME NEW list, NEW N \in Nat \ {0}, Len(list) = N, NEW cores \in Nat \ {0},
         NEW w \in 1..cores, NEW per, per = PerWorker(list, cores),
         NEW start, start = (w - 1) * per, NEW end, end = ShareEnd(list, start, per)
  PROVE  /\ per \in Nat /\ start \in Nat /\ end \in 0..N /\ end - start <= per
         /\ start > end => cores > 2 /\ N < Lanes * cores
<1> DEFINE q == N \div cores
<1>1. q \in Nat /\ per = (IF q < Lanes THEN N ELSE q)
  <2>1. q \in Nat
    BY DivIs
  <2> QED BY <2>1 DEF PerWorker
<1>2. per \in Nat
  BY <1>1
<1>3. start \in Nat
  BY <1>2
<1>4. end = IF start + per > N THEN N ELSE start + per
  BY DEF ShareEnd
<1>5. end \in 0..N /\ end - start <= per
  BY <1>2, <1>3, <1>4
<1>6. ASSUME start > end PROVE cores > 2 /\ N < Lanes * cores
  <2>1. start > N
    BY <1>2, <1>3, <1>4, <1>6
  <2>2. q < Lanes
    <3> SUFFICES ASSUME ~(q < Lanes) PROVE FALSE
      OBVIOUS
    <3>1. per = q
      BY <1>1
    <3>2. q * cores <= N
      BY DivIs
    <3>3. (w - 1) * q <= cores * q
      <4>1. w - 1 \in Nat /\ cores \in Nat /\ w - 1 <= cores
        OBVIOUS
      <4> HIDE DEF q
      <4> QED BY <4>1, <1>1, TimesGrows
    <3>4. cores * q = q * cores /\ q * cores \in Nat
      BY <1>1
    <3> HIDE DEF q
    <3> QED BY <1>3, <2>1, <3>1, <3>2, <3>3, <3>4
  <2>3. per = N
    BY <1>1, <2>2
  <2>4. cores > 2
    <3> SUFFICES ASSUME cores <= 2 PROVE FALSE
      OBVIOUS
    <3>1. w - 1 = 0 \/ w - 1 = 1
      OBVIOUS
    <3> QED BY <2>1, <2>3, <3>1
  <2>5. N < Lanes * cores
    <3>1. N = q * cores + (N % cores) /\ N % cores \in 0..(cores - 1)
      BY DivIs
    <3> HIDE DEF q
    <3>2. q + 1 <= Lanes /\ q + 1 \in Nat /\ Lanes \in Nat
      BY <1>1, <2>2, LanesAssumption
    <3>3. (q + 1) * cores <= Lanes * cores /\ (q + 1) * cores = q * cores + cores
      BY <1>1, <3>2, TimesGrows
    <3>4. q * cores \in Nat /\ Lanes * cores \in Nat
      BY <1>1, LanesAssumption
    <3> QED BY <3>1, <3>3, <3>4
  <2> QED BY <2>4, <2>5
<1> QED BY <1>2, <1>3, <1>5, <1>6

\* Once called, a list of txids is there, as long as its domain.
LEMMA WantedIs ==
  ASSUME PullInv, wanted # << >>
  PROVE  /\ Len(wanted) \in Nat \ {0} /\ DOMAIN wanted = 1..Len(wanted)
         /\ valid = ValidSubtrees(wanted)
<1>1. wanted \in Seq({TXID[t] : t \in Txs}) /\ valid = ValidSubtrees(wanted)
  BY DEF PullInv
<1> QED BY <1>1

\* The same block serves the same bundles.
LEMMA SameServed ==
  ASSUME UNCHANGED <<txs, size, sealed>>
  PROVE  /\ \A t : Served(t)' = Served(t)
         /\ \A t : Place(t)' = Place(t)
         /\ \A t : ServedRoot(t)' = ServedRoot(t)
<1>1. \A t : Served(t)' = Served(t)
  BY DEF Served
<1>2. \A t : Place(t)' = Place(t)
  BY <1>1 DEF Place
<1>3. \A i : SubtreeOf(i)' = SubtreeOf(i)
  BY DEF SubtreeOf
<1>4. \A t : ServedRoot(t)' = ServedRoot(t)
  BY <1>2, <1>3 DEF ServedRoot
<1> QED BY <1>1, <1>2, <1>4

\* What a worker's step leaves alone, the invariant says the same of.
LEMMA SameBlock ==
  ASSUME UNCHANGED <<txs, size, sealed, wanted>>
  PROVE  /\ ProvenAt' = ProvenAt
         /\ AllServed' <=> AllServed
         /\ Uniform' <=> Uniform
         /\ BlockInv' <=> BlockInv
         /\ ValidSubtrees(wanted)' = ValidSubtrees(wanted)
<1>1. \A t : Served(t)' = Served(t)
  BY SameServed
<1>2. \A t : Place(t)' = Place(t)
  BY SameServed
<1>4. \A t : ServedRoot(t)' = ServedRoot(t)
  BY SameServed
<1>5. ProvenAt' = ProvenAt
  BY <1>1, <1>2, <1>4 DEF ProvenAt, Proven
<1>6. (AllServed' <=> AllServed) /\ (Uniform' <=> Uniform)
  BY <1>1, <1>2 DEF AllServed, Uniform
<1>7. BlockInv' <=> BlockInv
  <2>1. Seal(txs)' = Seal(txs)
    BY DEF Seal, SubtreeOf, Txids
  <2> QED BY <2>1 DEF BlockInv
<1>8. ValidSubtrees(wanted)' = ValidSubtrees(wanted)
  BY <1>1, <1>2, <1>4 DEF ValidSubtrees
<1> QED BY <1>5, <1>6, <1>7, <1>8

\* Before the call the invariant is about the block alone.
LEMMA InitPull == PullInit => PullInv
<1> SUFFICES ASSUME PullInit PROVE PullInv
  OBVIOUS
<1>1. BlockInv
  BY BlockInvInit DEF PullInit
<1>2. wanted = << >> /\ workers = << >> /\ panic = FALSE /\ DOMAIN workers = {}
  BY DEF PullInit
<1> QED BY <1>1, <1>2 DEF PullInv, ExactInv, PanicHasCause

\* A block that grows before the call.
LEMMA MinePull ==
  ASSUME PullInv, NEW t \in Mined, Mine(t)
  PROVE  PullInv'
<1>1. BlockInv'
  <2>1. BlockInv /\ AddTx(t)
    BY DEF PullInv, Mine
  <2> QED BY <2>1, BlockInvNext DEF Next
<1>2. wanted' = << >> /\ workers' = << >> /\ panic' = FALSE /\ DOMAIN workers' = {}
  BY DEF PullInv, Mine
<1> QED BY <1>1, <1>2 DEF PullInv, ExactInv, PanicHasCause

-----------------------------------------------------------------------------
(***************************************************************************)
(* The call, and the steps of a worker.                                    *)
(***************************************************************************)
\* The job of a worker that starts.
Fresh(j, start, end, limit) ==
  j = [start |-> start, end |-> end, base |-> 0, passes |-> 0, limit |-> limit,
       l1 |-> [k \in Lane |-> << >>],
       node |-> [k \in Lane |-> ZeroHash], root |-> [k \in Lane |-> ZeroHash],
       local |-> 0, done |-> FALSE]

\* A worker that starts owes nothing.
LEMMA FreshJob ==
  ASSUME NEW P, NEW N \in Nat, NEW j, NEW start \in Nat, NEW end \in 0..N, NEW limit,
         Fresh(j, start, end, limit)
  PROVE  JobInv(P, N, j) /\ (start <= end => j.local = Due(P, j))
<1>1. j.start = start /\ j.end = end /\ j.base = 0 /\ j.passes = 0 /\ j.local = 0
  BY DEF Fresh
<1>f. j.done = FALSE
  BY DEF Fresh
<1>r. j = [start |-> j.start, end |-> j.end, base |-> j.base, passes |-> j.passes, limit |-> j.limit,
           l1 |-> j.l1, node |-> j.node, root |-> j.root, local |-> j.local, done |-> j.done]
  BY DEF Fresh
<1>2. 0 = 0 * Lanes
  BY LanesAssumption
<1>3. ASSUME start <= end PROVE 0 <= WholeGroups(end - start) /\ Due(P, j) = 0
  <2>1. end - start \in Nat
    BY <1>3
  <2>2. WholeGroups(end - start) \in Nat
    BY <2>1, WholeGroupsIs
  <2>3. CountIn(P, start, WholeGroups(end - start)) \in Nat /\ CountIn(P, start, 0) = 0
    BY <2>2, CountInIs
  <2>4. 0 * CountIn(P, start, WholeGroups(end - start)) = 0
    BY <2>3
  <2> QED BY <1>1, <1>f, <2>2, <2>3, <2>4 DEF Due
<1>4. j.start \in Nat /\ j.end \in 0..N /\ j.passes \in Nat /\ j.local \in Nat /\ j.done \in BOOLEAN
  <2>1. j.start \in Nat /\ j.end \in 0..N /\ j.passes \in Nat /\ j.local \in Nat
    BY <1>1
  <2>2. j.done \in BOOLEAN
    BY <1>f, Zenon
  <2> QED BY <2>1, <2>2, Zenon
<1>5. \E q \in Nat : j.base = q * Lanes
  <2>1. 0 \in Nat /\ j.base = 0 * Lanes
    BY <1>1, <1>2
  <2> QED BY <2>1, Zenon
<1>6. j.start <= j.end => j.base <= WholeGroups(j.end - j.start) /\ j.local = Due(P, j)
                          /\ j.local <= Due(P, j)
  <2> SUFFICES ASSUME start <= end
               PROVE  /\ j.base <= WholeGroups(j.end - j.start) /\ j.local = Due(P, j)
                      /\ j.local <= Due(P, j)
    BY <1>1
  <2>1. 0 <= WholeGroups(end - start) /\ Due(P, j) = 0
    BY <1>3
  <2>2. j.base <= WholeGroups(j.end - j.start)
    BY <1>1, <2>1
  <2>3. j.local = Due(P, j) /\ j.local <= Due(P, j)
    BY <1>1, <2>1
  <2> QED BY <2>2, <2>3
<1>7. JobInv(P, N, j)
  BY <1>r, <1>4, <1>5, <1>6, Zenon DEF JobInv
<1> QED BY <1>1, <1>6, <1>7

\* The call cuts the list in shares, and no worker has counted yet.
LEMMA CallPull ==
  ASSUME PullInv, NEW call \in Calls, NEW list \in Wants(call), CallMeasure(call, list)
  PROVE  PullInv'
<1>1. call.cores \in Nat \ {0} /\ call.wanted \in Nat \ {0}
  BY PullAssumption
<1>2. /\ UNCHANGED <<txs, size, sealed>> /\ panic' = FALSE
      /\ wanted' = list /\ valid' = ValidSubtrees(list) /\ Len(txs) = call.wanted
      /\ workers' = [w \in 1..call.cores |->
                       StartWorker(list, (w - 1) * PerWorker(list, call.cores),
                                   PerWorker(list, call.cores), call.passes)]
  BY DEF CallMeasure, PullInv
<1>3. BlockInv'
  BY <1>2, BlockInvNext DEF PullInv
<1> DEFINE ids == {TXID[t] : t \in Txs}
<1>4. list \in Seq(ids) /\ Len(list) = Len(txs)
  <2>1. txs \in Seq(Mined) /\ Mined \subseteq Txs
    BY TxsAre DEF PullInv, BlockInv
  <2>2. PICK n \in Nat : DOMAIN txs = 1..n /\ Len(txs) = n
    BY <2>1
  <2>3. Txids(txs) = [i \in 1..n |-> TXID[txs[i]]] /\ \A i \in 1..n : txs[i] \in Txs
    BY <2>1, <2>2 DEF Txids
  <2>4. Txids(txs) \in [1..n -> ids]
    BY <2>3
  <2>5. list \in [1..n -> ids]
    <3>1. list = Txids(txs) \/ \E t \in Txs : list = [Txids(txs) EXCEPT ![call.unknown] = TXID[t]]
      BY DEF Wants
    <3>2. \A t \in Txs : TXID[t] \in ids
      OBVIOUS
    <3> HIDE DEF ids
    <3> QED BY <2>4, <3>1, <3>2
  <2> HIDE DEF ids
  <2>6. list \in Seq(ids)
    BY <2>5
  <2>7. list = [i \in 1..n |-> list[i]]
    BY <2>5
  <2> QED BY <2>2, <2>6, <2>7, FunctionsAreSeqs
<1> HIDE DEF ids
<1>5. PICK N \in Nat \ {0} : Len(list) = N
  BY <1>1, <1>2, <1>4
<1>6. PICK cores \in Nat \ {0} : cores = call.cores
  BY <1>1
<1>7. PICK per : per = PerWorker(list, cores)
  OBVIOUS
<1>8. /\ DOMAIN workers' = 1..cores
      /\ \A w \in 1..cores : workers'[w] = StartWorker(list, (w - 1) * per, per, call.passes)
      /\ workers' = [w \in 1..cores |-> workers'[w]]
  BY <1>2, <1>6, <1>7
<1>9. Len(workers') = cores
  BY <1>8, FunctionsAreSeqs
<1>10. ASSUME NEW w \in 1..cores, NEW P
       PROVE  /\ JobInv(P, N, workers'[w])
              /\ workers'[w].start <= workers'[w].end => workers'[w].local = Due(P, workers'[w])
              /\ workers'[w].start = (w - 1) * per
              /\ workers'[w].end = ShareEnd(list, workers'[w].start, per)
  <2>1. PICK start : start = (w - 1) * per
    OBVIOUS
  <2>2. PICK end : end = ShareEnd(list, start, per)
    OBVIOUS
  <2>3. start \in Nat /\ end \in 0..N
    BY <1>5, <1>7, <2>1, <2>2, ShareIs
  <2>4. Fresh(workers'[w], start, end, call.passes)
    BY <1>8, <2>1, <2>2 DEF StartWorker, Fresh
  <2>5. JobInv(P, N, workers'[w]) /\ (start <= end => workers'[w].local = Due(P, workers'[w]))
    BY <2>3, <2>4, FreshJob
  <2>6. workers'[w].start = start /\ workers'[w].end = end
    BY <2>4 DEF Fresh
  <2> QED BY <2>1, <2>2, <2>5, <2>6
<1>11. SharesInv'
  BY <1>2, <1>7, <1>8, <1>9, <1>10 DEF SharesInv
<1>12. valid' = ValidSubtrees(wanted)'
  <2>1. UNCHANGED <<txs, size, sealed>>
    BY <1>2
  <2>2. /\ \A t : Served(t)' = Served(t)
        /\ \A t : Place(t)' = Place(t)
        /\ \A t : ServedRoot(t)' = ServedRoot(t)
    BY <2>1, SameServed
  <2>3. wanted' = list /\ valid' = ValidSubtrees(list) /\ sealed' = sealed
    BY <1>2
  <2> QED BY <2>2, <2>3 DEF ValidSubtrees
<1>13. \A w \in DOMAIN workers' : JobInv(ProvenAt', Len(wanted'), workers'[w])
  BY <1>2, <1>5, <1>8, <1>10
<1>14. ExactInv'
  BY <1>8, <1>10 DEF ExactInv
<1>15. wanted' # << >>
  BY <1>2, <1>4, <1>5
<1> QED BY <1>2, <1>3, <1>4, <1>11, <1>12, <1>13, <1>14, <1>15 DEF PullInv, PanicHasCause, ids

\* What holds of a running worker.
LEMMA WorkerIs ==
  ASSUME PullInv, NEW w \in DOMAIN workers
  PROVE  /\ wanted # << >> /\ w \in 1..Len(workers) /\ Len(workers) \in Nat \ {0}
         /\ DOMAIN workers = 1..Len(workers)
         /\ JobInv(ProvenAt, Len(wanted), workers[w])
         /\ workers[w].start > workers[w].end =>
              Len(workers) > 2 /\ Len(wanted) < Lanes * Len(workers)
<1>1. wanted # << >>
  <2> SUFFICES ASSUME wanted = << >> PROVE FALSE
    OBVIOUS
  <2>1. workers = << >>
    BY DEF PullInv
  <2> QED BY <2>1
<1>2. SharesInv /\ JobInv(ProvenAt, Len(wanted), workers[w])
  BY <1>1 DEF PullInv
<1>3. PICK cores \in Nat \ {0} :
        /\ DOMAIN workers = 1..cores /\ Len(workers) = cores
        /\ workers[w].start = (w - 1) * PerWorker(wanted, cores)
        /\ workers[w].end = ShareEnd(wanted, workers[w].start, PerWorker(wanted, cores))
  BY <1>2 DEF SharesInv
<1>4. Len(wanted) \in Nat \ {0}
  BY <1>1, WantedIs, Zenon
<1>5. workers[w].start > workers[w].end => cores > 2 /\ Len(wanted) < Lanes * cores
  <2>1. PICK N \in Nat \ {0} : Len(wanted) = N
    BY <1>4
  <2>2. PICK per : per = PerWorker(wanted, cores)
    OBVIOUS
  <2>3. PICK start, end : start = workers[w].start /\ end = workers[w].end
    OBVIOUS
  <2>4. w \in 1..cores /\ start = (w - 1) * per /\ end = ShareEnd(wanted, start, per)
    BY <1>3, <2>2, <2>3
  <2>5. start > end => cores > 2 /\ N < Lanes * cores
    BY <2>1, <2>2, <2>4, ShareIs
  <2> QED BY <2>1, <2>3, <2>5
<1> QED BY <1>1, <1>2, <1>3, <1>5

\* A step of worker w that replaces its job by one as good.
LEMMA StepPull ==
  ASSUME PullInv, NEW w \in DOMAIN workers,
         UNCHANGED <<txs, size, sealed, wanted, valid>>,
         NEW j, workers' = [workers EXCEPT ![w] = j],
         j.start = workers[w].start, j.end = workers[w].end,
         JobInv(ProvenAt, Len(wanted), j),
         AllServed /\ Uniform => (j.start <= j.end => j.local = Due(ProvenAt, j)),
         PanicHasCause'
  PROVE  PullInv'
<1>1. /\ wanted # << >> /\ DOMAIN workers = 1..Len(workers) /\ Len(workers) \in Nat \ {0}
  BY WorkerIs, Zenon
<1>2. /\ ProvenAt' = ProvenAt /\ (AllServed' <=> AllServed) /\ (Uniform' <=> Uniform)
      /\ (BlockInv' <=> BlockInv) /\ ValidSubtrees(wanted)' = ValidSubtrees(wanted)
  BY SameBlock
<1>3. DOMAIN workers' = DOMAIN workers /\ workers'[w] = j
      /\ \A v \in DOMAIN workers : v # w => workers'[v] = workers[v]
  OBVIOUS
<1>4. Len(workers') = Len(workers)
  <2>1. PICK n \in Nat : n = Len(workers) /\ DOMAIN workers = 1..n
    BY <1>1
  <2>2. workers' = [v \in 1..n |-> workers'[v]]
    BY <2>1
  <2> QED BY <2>1, <2>2, FunctionsAreSeqs
<1>5. SharesInv'
  <2>1. PICK cores \in Nat \ {0} :
          /\ DOMAIN workers = 1..cores /\ Len(workers) = cores
          /\ \A v \in 1..cores :
               /\ workers[v].start = (v - 1) * PerWorker(wanted, cores)
               /\ workers[v].end = ShareEnd(wanted, workers[v].start, PerWorker(wanted, cores))
    BY <1>1 DEF PullInv, SharesInv
  <2>2. \A v \in 1..cores : workers'[v].start = workers[v].start /\ workers'[v].end = workers[v].end
    BY <1>3, <2>1
  <2>3. DOMAIN workers' = 1..cores /\ Len(workers') = cores
    BY <1>3, <1>4, <2>1
  <2> QED BY <2>1, <2>2, <2>3 DEF SharesInv
<1>6. \A v \in DOMAIN workers' : JobInv(ProvenAt', Len(wanted'), workers'[v])
  BY <1>2, <1>3 DEF PullInv
<1>7. ExactInv'
  BY <1>2, <1>3 DEF ExactInv, PullInv
<1> QED BY <1>1, <1>2, <1>5, <1>6, <1>7 DEF PullInv

\* A share that starts beyond the list panics: only a third worker has one.
LEMMA CutPull ==
  ASSUME PullInv, NEW w \in DOMAIN workers, CutShare(w)
  PROVE  PullInv'
<1>1. /\ workers[w].start > workers[w].end /\ panic' = TRUE
      /\ UNCHANGED <<txs, size, sealed, wanted, valid, workers>>
  BY DEF CutShare
<1>2. /\ wanted # << >> /\ Len(workers) > 2 /\ Len(wanted) < Lanes * Len(workers)
  BY <1>1, WorkerIs
<1>3. /\ ProvenAt' = ProvenAt /\ (AllServed' <=> AllServed) /\ (Uniform' <=> Uniform)
      /\ (BlockInv' <=> BlockInv) /\ ValidSubtrees(wanted)' = ValidSubtrees(wanted)
  BY <1>1, SameBlock
<1>4. SharesInv' <=> SharesInv
  BY <1>1 DEF SharesInv
<1>5. ExactInv'
  BY <1>1, <1>3 DEF ExactInv, PullInv
<1>6. PanicHasCause'
  BY <1>1, <1>2 DEF PanicHasCause
<1> QED BY <1>1, <1>2, <1>3, <1>4, <1>5, <1>6 DEF PullInv

\* A group adds what it matches, which is what it has of the proven.
LEMMA GroupPull ==
  ASSUME PullInv, NEW w \in DOMAIN workers, Group(w)
  PROVE  PullInv'
<1> DEFINE job == workers[w]
<1>1. /\ wanted # << >> /\ JobInv(ProvenAt, Len(wanted), job)
  BY WorkerIs, Zenon
<1>2. PICK N \in Nat \ {0} : N = Len(wanted) /\ DOMAIN wanted = 1..N /\ valid = ValidSubtrees(wanted)
  BY <1>1, WantedIs, Zenon
<1>3. PICK lanes, nodes : lanes = Fill(w) /\ nodes = FoldLanes(lanes.node, lanes.l1)
  OBVIOUS
<1>4. /\ job.done = FALSE /\ job.start <= job.end /\ job.base < WholeGroups(job.end - job.start)
      /\ UNCHANGED <<txs, size, sealed, wanted, valid>>
      /\ IF Foldable(lanes.l1)
         THEN /\ workers' = [workers EXCEPT ![w] =
                   [workers[w] EXCEPT !.base = @ + Lanes, !.l1 = lanes.l1, !.node = nodes, !.root = lanes.root,
                             !.local = @ + Matches(nodes, lanes.root)]]
              /\ UNCHANGED panic
         ELSE panic' = TRUE /\ UNCHANGED workers
  <2>1. job.done = FALSE
    BY <1>1 DEF Group, Running, JobInv
  <2> QED BY <2>1, <1>3 DEF Group, GroupsEnd
<1>a. /\ job.start \in Nat /\ job.end \in 0..N /\ job.passes \in Nat /\ job.local \in Nat
      /\ \E q \in Nat : job.base = q * Lanes
  BY <1>1, <1>2 DEF JobInv
<1>b. PICK q \in Nat : job.base = q * Lanes
  BY <1>a
<1>c. PICK base \in Nat : base = job.base
  <2>1. job.base \in Nat
    BY <1>b, LanesAssumption
  <2> QED BY <2>1
<1>d. PICK start \in Nat, passes \in Nat, local \in Nat :
        start = job.start /\ passes = job.passes /\ local = job.local
  BY <1>a
<1>e. PICK end \in 0..N : end = job.end
  BY <1>a
<1>5. /\ start = job.start /\ end = job.end /\ base = job.base /\ passes = job.passes
      /\ local = job.local /\ base = q * Lanes
  BY <1>b, <1>c, <1>d, <1>e
<1>6. end - start \in Nat /\ base < WholeGroups(end - start)
  BY <1>4, <1>5
<1>7. PICK whole \in Nat : whole = WholeGroups(end - start) /\ whole <= end - start
  BY <1>6, WholeGroupsIs
<1>8. base \in Nat /\ Lanes \in Nat /\ base + Lanes = (q + 1) * Lanes /\ base + Lanes <= whole
  BY <1>5, <1>6, <1>7, GroupWithin, LanesAssumption
<1>9. PICK a \in Nat : a = start + base /\ a + Lanes <= N
  BY <1>5, <1>7, <1>8
<1>10. /\ AllServed /\ Uniform => Foldable(lanes.l1)
       /\ Matches(nodes, lanes.root) \in Nat
       /\ Matches(nodes, lanes.root) <= CountIn(ProvenAt, a, Lanes)
       /\ AllServed /\ Uniform => Matches(nodes, lanes.root) = CountIn(ProvenAt, a, Lanes)
  <2>1. BlockInv /\ a = workers[w].start + workers[w].base
    BY <1>5, <1>9 DEF PullInv
  <2> QED BY <2>1, <1>2, <1>3, <1>9, GroupMatches
<1>11. CASE ~Foldable(lanes.l1)
  <2>1. panic' = TRUE /\ UNCHANGED <<txs, size, sealed, wanted, valid, workers>>
    BY <1>4, <1>11
  <2>2. /\ ProvenAt' = ProvenAt /\ (AllServed' <=> AllServed) /\ (Uniform' <=> Uniform)
        /\ (BlockInv' <=> BlockInv) /\ ValidSubtrees(wanted)' = ValidSubtrees(wanted)
    BY <2>1, SameBlock
  <2>3. SharesInv' <=> SharesInv
    BY <2>1 DEF SharesInv
  <2>4. ExactInv'
    BY <2>1, <2>2 DEF ExactInv, PullInv
  <2>5. PanicHasCause'
    BY <2>2, <1>10, <1>11 DEF PanicHasCause
  <2> QED BY <1>1, <2>1, <2>2, <2>3, <2>4, <2>5 DEF PullInv
<1>12. CASE Foldable(lanes.l1)
  <2>1. PICK m \in Nat : m = Matches(nodes, lanes.root)
    BY <1>10
  <2>2. PICK j : j = [start |-> start, end |-> end, base |-> base + Lanes, passes |-> passes,
                      limit |-> job.limit, l1 |-> lanes.l1, node |-> nodes, root |-> lanes.root,
                      local |-> local + m, done |-> FALSE]
    OBVIOUS
  <2>3. workers' = [workers EXCEPT ![w] = j] /\ panic' = panic
    <3>1. PICK limit, l1, node, root : limit = job.limit /\ l1 = job.l1 /\ node = job.node /\ root = job.root
      OBVIOUS
    <3>2. PICK job1 : job1 = job
      OBVIOUS
    <3>3. job1 = [start |-> start, end |-> end, base |-> base, passes |-> passes,
                  limit |-> limit, l1 |-> l1, node |-> node, root |-> root,
                  local |-> local, done |-> FALSE]
      BY <1>1, <1>4, <1>5, <3>1, <3>2 DEF JobInv
    <3>4. PICK v : /\ workers' = [workers EXCEPT ![w] = v]
                   /\ v = [workers[w] EXCEPT !.base = @ + Lanes, !.l1 = lanes.l1, !.node = nodes,
                                             !.root = lanes.root, !.local = @ + m]
      <4> DEFINE V == [workers[w] EXCEPT !.base = @ + Lanes, !.l1 = lanes.l1, !.node = nodes,
                                         !.root = lanes.root, !.local = @ + Matches(nodes, lanes.root)]
      <4>1. workers' = [workers EXCEPT ![w] = V]
        BY <1>4, <1>12
      <4>2. V = [workers[w] EXCEPT !.base = @ + Lanes, !.l1 = lanes.l1, !.node = nodes,
                                   !.root = lanes.root, !.local = @ + m]
        BY <2>1
      <4> HIDE DEF V
      <4> QED BY <4>1, <4>2
    <3>5. PICK b, c : b = base + Lanes /\ c = local + m
      OBVIOUS
    <3>9. v = [job1 EXCEPT !.base = b, !.l1 = lanes.l1, !.node = nodes, !.root = lanes.root, !.local = c]
      <4>1. workers[w] = job1 /\ workers[w].base = base /\ workers[w].local = local
        BY <1>5, <3>2
      <4> QED BY <3>4, <3>5, <4>1
    <3>6. v = [start |-> start, end |-> end, base |-> b, passes |-> passes,
               limit |-> limit, l1 |-> lanes.l1, node |-> nodes, root |-> lanes.root,
               local |-> c, done |-> FALSE]
      BY <3>3, <3>9
    <3>7. v = j
      BY <2>2, <3>1, <3>5, <3>6
    <3>8. panic' = panic
      BY <1>4, <1>12
    <3> QED BY <3>4, <3>7, <3>8
  <2>4. /\ j.start = start /\ j.end = end /\ j.base = base + Lanes /\ j.passes = passes
        /\ j.local = local + m /\ j.done = FALSE
        /\ j = [start |-> j.start, end |-> j.end, base |-> j.base, passes |-> j.passes, limit |-> j.limit,
                l1 |-> j.l1, node |-> j.node, root |-> j.root, local |-> j.local, done |-> j.done]
    BY <2>2
  <2>5. PICK full \in Nat, before \in Nat, now \in Nat :
          /\ full = CountIn(ProvenAt, start, whole)
          /\ before = CountIn(ProvenAt, start, base)
          /\ now = CountIn(ProvenAt, a, Lanes)
          /\ CountIn(ProvenAt, start, base + Lanes) = before + now
    <3>1. /\ CountIn(ProvenAt, start, whole) \in Nat
          /\ CountIn(ProvenAt, start, base) \in Nat
          /\ CountIn(ProvenAt, a, Lanes) \in Nat
      BY <1>8, <1>9, CountInIs
    <3>2. CountIn(ProvenAt, start, base + Lanes) = CountIn(ProvenAt, start, base) + CountIn(ProvenAt, a, Lanes)
      <4>1. PICK L \in Nat : L = Lanes
        BY <1>8
      <4>2. CountIn(ProvenAt, start, base + L) = CountIn(ProvenAt, start, base) + CountIn(ProvenAt, a, L)
        BY <1>8, <1>9, CountInAdds
      <4> QED BY <4>1, <4>2
    <3> QED BY <3>1, <3>2
  <2>6. Due(ProvenAt, job) = passes * full + before
    BY <1>4, <1>5, <1>7, <2>5 DEF Due
  <2>7. Due(ProvenAt, j) = passes * full + (before + now)
    BY <1>7, <2>4, <2>5 DEF Due
  <2>8. passes * full \in Nat
    OBVIOUS
  <2>9. local <= Due(ProvenAt, job) /\ (AllServed /\ Uniform => local = Due(ProvenAt, job))
    BY <1>1, <1>4, <1>5 DEF JobInv, PullInv, ExactInv
  <2>10. m <= now /\ (AllServed /\ Uniform => m = now)
    BY <1>10, <2>1, <2>5
  <2>11. j.local <= Due(ProvenAt, j)
    BY <2>4, <2>6, <2>7, <2>8, <2>9, <2>10
  <2>12. AllServed /\ Uniform => j.local = Due(ProvenAt, j)
    BY <2>4, <2>6, <2>7, <2>8, <2>9, <2>10
  <2>13. JobInv(ProvenAt, N, j)
    <3>1. j.base = (q + 1) * Lanes /\ q + 1 \in Nat
      BY <1>8, <2>4
    <3>2. j.base <= WholeGroups(j.end - j.start)
      BY <1>7, <1>8, <2>4
    <3>a. local + m \in Nat
      OBVIOUS
    <3>b. j.local \in Nat
      BY <2>4, <3>a
    <3>c. j.start \in Nat /\ j.passes \in Nat
      BY <2>4
    <3>d. j.end \in 0..N
      BY <2>4
    <3>3. j.start \in Nat /\ j.end \in 0..N /\ j.passes \in Nat /\ j.local \in Nat /\ j.done \in BOOLEAN
      BY <2>4, <3>b, <3>c, <3>d
    <3> QED BY <2>4, <2>11, <3>1, <3>2, <3>3 DEF JobInv
  <2>14. PanicHasCause'
    <3>1. /\ (AllServed' <=> AllServed) /\ (Uniform' <=> Uniform)
      BY <1>4, SameBlock
    <3>2. panic' = FALSE
      BY <2>3 DEF Group, Running, PullInv
    <3> QED BY <3>2 DEF PanicHasCause
  <2>15. JobInv(ProvenAt, Len(wanted), j) /\ j.start = workers[w].start /\ j.end = workers[w].end
    BY <1>2, <1>5, <2>4, <2>13
  <2> QED BY <1>4, <2>3, <2>12, <2>14, <2>15, StepPull
<1> QED BY <1>11, <1>12

\* A pass that is over: a worker owes as much as one whole pass more.
LEMMA PassIs ==
  ASSUME PullInv, NEW w \in DOMAIN workers, PassOver(w)
  PROVE  /\ workers[w].start \in Nat /\ workers[w].end \in 0..Len(wanted)
         /\ workers[w].passes \in Nat /\ workers[w].local \in Nat /\ workers[w].done = FALSE
         /\ workers[w].base \in Nat /\ \E q \in Nat : workers[w].base = q * Lanes
         /\ workers[w].base = WholeGroups(workers[w].end - workers[w].start)
         /\ \E full \in Nat :
              /\ full = CountIn(ProvenAt, workers[w].start, workers[w].base)
              /\ (workers[w].passes + 1) * full \in Nat
              /\ workers[w].local <= (workers[w].passes + 1) * full
              /\ AllServed /\ Uniform => workers[w].local = (workers[w].passes + 1) * full
         /\ CountIn(ProvenAt, workers[w].start, 0) = 0
<1> DEFINE job == workers[w]
<1>1. JobInv(ProvenAt, Len(wanted), job)
  BY WorkerIs, Zenon
<1>2. job.start <= job.end /\ job.base >= WholeGroups(job.end - job.start)
  BY DEF PassOver, GroupsEnd
<1>3. job.done = FALSE
  BY <1>1 DEF PassOver, Running, JobInv
<1>4. /\ job.start \in Nat /\ job.end \in 0..Len(wanted) /\ job.passes \in Nat /\ job.local \in Nat
      /\ \E q \in Nat : job.base = q * Lanes
  BY <1>1 DEF JobInv
<1>5. PICK q \in Nat : job.base = q * Lanes
  BY <1>4
<1>6. PICK start \in Nat, passes \in Nat, local \in Nat :
        start = job.start /\ passes = job.passes /\ local = job.local
  BY <1>4
<1>7. PICK end \in 0..Len(wanted) : end = job.end
  BY <1>4
<1>8. end \in Int /\ end - start \in Nat
  <2>1. Len(wanted) \in Nat
    BY WorkerIs, WantedIs
  <2> QED BY <1>2, <1>6, <1>7, <2>1
<1>9. PICK whole \in Nat : whole = WholeGroups(end - start)
  BY <1>8, WholeGroupsIs
<1>10. job.base <= whole /\ local <= Due(ProvenAt, job)
  BY <1>1, <1>2, <1>6, <1>7, <1>9 DEF JobInv
<1>11. AllServed /\ Uniform => local = Due(ProvenAt, job)
  BY <1>2, <1>6 DEF PullInv, ExactInv
<1>12. PICK base \in Nat : base = job.base
  <2>1. job.base \in Nat
    BY <1>5, LanesAssumption
  <2> QED BY <2>1
<1>13. base = whole
  BY <1>2, <1>6, <1>7, <1>9, <1>10, <1>12
<1>14. PICK full \in Nat : full = CountIn(ProvenAt, start, whole)
  <2>1. CountIn(ProvenAt, start, whole) \in Nat
    BY CountInIs
  <2> QED BY <2>1
<1>15. CountIn(ProvenAt, start, 0) = 0
  BY <1>9, CountInIs
<1>16. Due(ProvenAt, job) = passes * full + full
  BY <1>3, <1>6, <1>7, <1>9, <1>12, <1>13, <1>14 DEF Due
<1>17. (passes + 1) * full = passes * full + full /\ passes * full \in Nat
  BY TimesGrows
<1>18. (passes + 1) * full \in Nat
  BY <1>17
<1>19. /\ local <= (passes + 1) * full
       /\ AllServed /\ Uniform => local = (passes + 1) * full
  BY <1>10, <1>11, <1>16, <1>17
<1>20. base = WholeGroups(end - start) /\ full = CountIn(ProvenAt, start, base)
  BY <1>9, <1>13, <1>14
<1>21. \E f \in Nat :
         /\ f = CountIn(ProvenAt, job.start, job.base)
         /\ (job.passes + 1) * f \in Nat
         /\ job.local <= (job.passes + 1) * f
         /\ AllServed /\ Uniform => job.local = (job.passes + 1) * f
  <2>1. full = CountIn(ProvenAt, job.start, job.base)
    BY <1>6, <1>12, <1>20
  <2>2. /\ (job.passes + 1) * full \in Nat
        /\ job.local <= (job.passes + 1) * full
        /\ AllServed /\ Uniform => job.local = (job.passes + 1) * full
    BY <1>6, <1>18, <1>19
  <2> QED BY <2>1, <2>2
<1>22. CountIn(ProvenAt, job.start, 0) = 0
  BY <1>6, <1>15
<1>23. job.base = WholeGroups(job.end - job.start)
  BY <1>6, <1>7, <1>12, <1>20
<1>24. job.base \in Nat
  BY <1>12
<1> QED BY <1>3, <1>4, <1>21, <1>22, <1>23, <1>24

\* A pass that is over is counted whole, and the next starts with nothing.
LEMMA AgainPull ==
  ASSUME PullInv, NEW w \in DOMAIN workers, Again(w)
  PROVE  PullInv'
<1>1. PassOver(w) /\ UNCHANGED <<txs, size, sealed, wanted, valid, panic>>
      /\ workers' = [workers EXCEPT ![w] = [workers[w] EXCEPT !.base = 0, !.passes = @ + 1]]
  BY DEF Again
<1>a. PICK start \in Nat, passes \in Nat, local \in Nat, base \in Nat :
        /\ workers[w].start = start /\ workers[w].base = base
        /\ workers[w].passes = passes /\ workers[w].local = local
  BY <1>1, PassIs
<1>b. PICK end \in 0..Len(wanted) : workers[w].end = end
  BY <1>1, PassIs
<1>c. PICK full \in Nat :
        /\ full = CountIn(ProvenAt, start, base)
        /\ (passes + 1) * full \in Nat
        /\ local <= (passes + 1) * full
        /\ AllServed /\ Uniform => local = (passes + 1) * full
  <2>1. PICK full \in Nat :
          /\ full = CountIn(ProvenAt, workers[w].start, workers[w].base)
          /\ (workers[w].passes + 1) * full \in Nat
          /\ workers[w].local <= (workers[w].passes + 1) * full
          /\ AllServed /\ Uniform => workers[w].local = (workers[w].passes + 1) * full
    BY <1>1, PassIs
  <2>2. full = CountIn(ProvenAt, start, base)
    BY <1>a, <2>1
  <2>3. /\ (passes + 1) * full \in Nat
        /\ local <= (passes + 1) * full
        /\ AllServed /\ Uniform => local = (passes + 1) * full
    BY <1>a, <2>1
  <2> QED BY <2>2, <2>3
<1>d. base = WholeGroups(end - start) /\ CountIn(ProvenAt, start, 0) = 0 /\ workers[w].done = FALSE
  BY <1>1, <1>a, <1>b, PassIs
<1>2. /\ workers[w].start = start /\ workers[w].end = end /\ workers[w].base = base
      /\ workers[w].passes = passes /\ workers[w].local = local /\ workers[w].done = FALSE
      /\ base = WholeGroups(end - start)
      /\ full = CountIn(ProvenAt, start, WholeGroups(end - start))
      /\ CountIn(ProvenAt, start, 0) = 0
      /\ (passes + 1) * full \in Nat
      /\ local <= (passes + 1) * full
      /\ AllServed /\ Uniform => local = (passes + 1) * full
  BY <1>a, <1>b, <1>c, <1>d
<1>3. JobInv(ProvenAt, Len(wanted), workers[w])
  BY WorkerIs, Zenon
<1>4. PICK j : j = [workers[w] EXCEPT !.base = 0, !.passes = @ + 1] /\ workers' = [workers EXCEPT ![w] = j]
  <2> DEFINE J == [workers[w] EXCEPT !.base = 0, !.passes = @ + 1]
  <2>1. workers' = [workers EXCEPT ![w] = J] /\ J = [workers[w] EXCEPT !.base = 0, !.passes = @ + 1]
    BY <1>1
  <2> HIDE DEF J
  <2> QED BY <2>1
<1>5. PICK job, limit, l1, node, root :
        /\ job = workers[w] /\ limit = job.limit /\ l1 = job.l1 /\ node = job.node /\ root = job.root
  OBVIOUS
<1>6. job = [start |-> start, end |-> end, base |-> base, passes |-> passes,
             limit |-> limit, l1 |-> l1, node |-> node, root |-> root, local |-> local, done |-> FALSE]
  BY <1>2, <1>3, <1>5 DEF JobInv
<1>7. j = [job EXCEPT !.base = 0, !.passes = passes + 1]
  BY <1>2, <1>4, <1>5
<1>8. j = [start |-> start, end |-> end, base |-> 0, passes |-> passes + 1,
           limit |-> limit, l1 |-> l1, node |-> node, root |-> root, local |-> local, done |-> FALSE]
  BY <1>6, <1>7
<1>9. /\ j.start = start /\ j.end = end /\ j.base = 0 /\ j.passes = passes + 1
      /\ j.local = local /\ j.done = FALSE
      /\ j = [start |-> j.start, end |-> j.end, base |-> j.base, passes |-> j.passes, limit |-> j.limit,
              l1 |-> j.l1, node |-> j.node, root |-> j.root, local |-> j.local, done |-> j.done]
  BY <1>8
<1>10. Due(ProvenAt, j) = (passes + 1) * full
  BY <1>2, <1>9 DEF Due
<1>11. JobInv(ProvenAt, Len(wanted), j)
  <2>1. passes + 1 \in Nat /\ 0 \in Nat /\ 0 = 0 * Lanes
    BY LanesAssumption
  <2>2. \E q \in Nat : j.base = q * Lanes
    BY <1>9, <2>1
  <2>3. j.local <= Due(ProvenAt, j)
    BY <1>2, <1>9, <1>10
  <2>4. j.base <= WholeGroups(j.end - j.start)
    BY <1>2, <1>9
  <2>5. j.start \in Nat /\ j.local \in Nat /\ j.done \in BOOLEAN
    BY <1>9
  <2>6. j.passes \in Nat
    BY <1>9, <2>1
  <2>7. j.end \in 0..Len(wanted)
    BY <1>9
  <2> QED BY <1>9, <2>2, <2>3, <2>4, <2>5, <2>6, <2>7 DEF JobInv
<1>12. AllServed /\ Uniform => (j.start <= j.end => j.local = Due(ProvenAt, j))
  BY <1>2, <1>9, <1>10
<1>13. PanicHasCause'
  <2>1. panic' = FALSE
    BY <1>1 DEF PassOver, Running, PullInv
  <2> QED BY <2>1 DEF PanicHasCause
<1>14. j.start = workers[w].start /\ j.end = workers[w].end
  BY <1>2, <1>9
<1> QED BY <1>1, <1>4, <1>11, <1>12, <1>13, <1>14, StepPull

\* The last pass of a worker is counted whole too.
LEMMA FinishPull ==
  ASSUME PullInv, NEW w \in DOMAIN workers, Finish(w)
  PROVE  PullInv'
<1>0. PassOver(w)
  BY DEF Finish
<1>1. PassOver(w) /\ UNCHANGED <<txs, size, sealed, wanted, valid, panic>>
      /\ workers' = [workers EXCEPT ![w] = [workers[w] EXCEPT !.done = TRUE, !.passes = @ + 1]]
  BY DEF Finish
<1>a. PICK start \in Nat, passes \in Nat, local \in Nat, base \in Nat :
        /\ workers[w].start = start /\ workers[w].base = base
        /\ workers[w].passes = passes /\ workers[w].local = local
  BY <1>1, PassIs
<1>b. PICK end \in 0..Len(wanted) : workers[w].end = end
  BY <1>1, PassIs
<1>c. PICK full \in Nat :
        /\ full = CountIn(ProvenAt, start, base)
        /\ (passes + 1) * full \in Nat
        /\ local <= (passes + 1) * full
        /\ AllServed /\ Uniform => local = (passes + 1) * full
  <2>1. PICK full \in Nat :
          /\ full = CountIn(ProvenAt, workers[w].start, workers[w].base)
          /\ (workers[w].passes + 1) * full \in Nat
          /\ workers[w].local <= (workers[w].passes + 1) * full
          /\ AllServed /\ Uniform => workers[w].local = (workers[w].passes + 1) * full
    BY <1>1, PassIs
  <2>2. full = CountIn(ProvenAt, start, base)
    BY <1>a, <2>1
  <2>3. /\ (passes + 1) * full \in Nat
        /\ local <= (passes + 1) * full
        /\ AllServed /\ Uniform => local = (passes + 1) * full
    BY <1>a, <2>1
  <2> QED BY <2>2, <2>3
<1>d. base = WholeGroups(end - start) /\ CountIn(ProvenAt, start, 0) = 0 /\ workers[w].done = FALSE
  BY <1>1, <1>a, <1>b, PassIs
<1>2. /\ workers[w].start = start /\ workers[w].end = end /\ workers[w].base = base
      /\ workers[w].passes = passes /\ workers[w].local = local /\ workers[w].done = FALSE
      /\ base = WholeGroups(end - start)
      /\ full = CountIn(ProvenAt, start, WholeGroups(end - start))
      /\ CountIn(ProvenAt, start, 0) = 0
      /\ (passes + 1) * full \in Nat
      /\ local <= (passes + 1) * full
      /\ AllServed /\ Uniform => local = (passes + 1) * full
  BY <1>a, <1>b, <1>c, <1>d
<1>3. JobInv(ProvenAt, Len(wanted), workers[w])
  BY WorkerIs, Zenon
<1>4. PICK j : j = [workers[w] EXCEPT !.done = TRUE, !.passes = @ + 1] /\ workers' = [workers EXCEPT ![w] = j]
  <2> DEFINE J == [workers[w] EXCEPT !.done = TRUE, !.passes = @ + 1]
  <2>1. workers' = [workers EXCEPT ![w] = J] /\ J = [workers[w] EXCEPT !.done = TRUE, !.passes = @ + 1]
    BY <1>1
  <2> HIDE DEF J
  <2> QED BY <2>1
<1>5. PICK job, limit, l1, node, root :
        /\ job = workers[w] /\ limit = job.limit /\ l1 = job.l1 /\ node = job.node /\ root = job.root
  OBVIOUS
<1>6. job = [start |-> start, end |-> end, base |-> base, passes |-> passes,
             limit |-> limit, l1 |-> l1, node |-> node, root |-> root, local |-> local, done |-> FALSE]
  BY <1>2, <1>3, <1>5 DEF JobInv
<1>7. j = [job EXCEPT !.done = TRUE, !.passes = passes + 1]
  BY <1>2, <1>4, <1>5
<1>8. j = [start |-> start, end |-> end, base |-> base, passes |-> passes + 1,
           limit |-> limit, l1 |-> l1, node |-> node, root |-> root, local |-> local, done |-> TRUE]
  BY <1>6, <1>7
<1>9. /\ j.start = start /\ j.end = end /\ j.base = base /\ j.passes = passes + 1
      /\ j.local = local /\ j.done = TRUE
      /\ j = [start |-> j.start, end |-> j.end, base |-> j.base, passes |-> j.passes, limit |-> j.limit,
              l1 |-> j.l1, node |-> j.node, root |-> j.root, local |-> j.local, done |-> j.done]
  BY <1>8
<1>10. Due(ProvenAt, j) = (passes + 1) * full
  BY <1>2, <1>9 DEF Due
<1>11. JobInv(ProvenAt, Len(wanted), j)
  <2>1. passes + 1 \in Nat
    OBVIOUS
  <2>2. \E q \in Nat : j.base = q * Lanes
    <3>1. \E q \in Nat : workers[w].base = q * Lanes
      BY <1>0, PassIs
    <3>2. j.base = workers[w].base
      BY <1>2, <1>9
    <3> QED BY <3>1, <3>2
  <2>3. j.local <= Due(ProvenAt, j)
    BY <1>2, <1>9, <1>10
  <2>4. j.base <= WholeGroups(j.end - j.start)
    BY <1>2, <1>9
  <2>5. j.start \in Nat /\ j.local \in Nat /\ j.done \in BOOLEAN
    BY <1>9
  <2>6. j.passes \in Nat
    BY <1>9, <2>1
  <2>7. j.end \in 0..Len(wanted)
    BY <1>9
  <2> QED BY <1>9, <2>2, <2>3, <2>4, <2>5, <2>6, <2>7 DEF JobInv
<1>12. AllServed /\ Uniform => (j.start <= j.end => j.local = Due(ProvenAt, j))
  BY <1>2, <1>9, <1>10
<1>13. PanicHasCause'
  <2>1. panic' = FALSE
    BY <1>1 DEF PassOver, Running, PullInv
  <2> QED BY <2>1 DEF PanicHasCause
<1>14. j.start = workers[w].start /\ j.end = workers[w].end
  BY <1>2, <1>9
<1> QED BY <1>1, <1>4, <1>11, <1>12, <1>13, <1>14, StepPull

\* Every step of the pull.
LEMMA NextPull == PullInv /\ [PullNext]_pvars => PullInv'
<1> SUFFICES ASSUME PullInv, [PullNext]_pvars PROVE PullInv'
  OBVIOUS
<1>1. ASSUME NEW t \in Mined, Mine(t) PROVE PullInv'
  BY <1>1, MinePull
<1>2. ASSUME NEW call \in Calls, NEW list \in Wants(call), CallMeasure(call, list) PROVE PullInv'
  BY <1>2, CallPull
<1>3. ASSUME NEW w \in DOMAIN workers, CutShare(w) PROVE PullInv'
  BY <1>3, CutPull
<1>4. ASSUME NEW w \in DOMAIN workers, Group(w) PROVE PullInv'
  BY <1>4, GroupPull
<1>5. ASSUME NEW w \in DOMAIN workers, Again(w) PROVE PullInv'
  BY <1>5, AgainPull
<1>6. ASSUME NEW w \in DOMAIN workers, Finish(w) PROVE PullInv'
  BY <1>6, FinishPull
<1>7. ASSUME UNCHANGED pvars PROVE PullInv'
  <2>1. UNCHANGED <<txs, size, sealed, wanted, valid, workers, panic>>
    BY <1>7 DEF pvars
  <2>2. /\ ProvenAt' = ProvenAt /\ (AllServed' <=> AllServed) /\ (Uniform' <=> Uniform)
        /\ (BlockInv' <=> BlockInv) /\ ValidSubtrees(wanted)' = ValidSubtrees(wanted)
    BY <2>1, SameBlock
  <2>3. SharesInv' <=> SharesInv
    BY <2>1 DEF SharesInv
  <2>4. ExactInv' <=> ExactInv
    BY <2>1, <2>2 DEF ExactInv
  <2>5. PanicHasCause' <=> PanicHasCause
    BY <2>1, <2>2 DEF PanicHasCause
  <2> QED BY <2>1, <2>2, <2>3, <2>4, <2>5 DEF PullInv
<1> QED BY <1>1, <1>2, <1>3, <1>4, <1>5, <1>6, <1>7 DEF PullNext

\* What the invariant says of the counts.
LEMMA PullInvCounts == PullInv => PullCountsOnlyProven
<1> SUFFICES ASSUME PullInv PROVE PullCountsOnlyProven
  OBVIOUS
<1>1. ASSUME NEW w \in DOMAIN workers, workers[w].start <= workers[w].end
      PROVE  /\ workers[w].local <= Due(ProvenAt, workers[w])
             /\ AllServed /\ Uniform => workers[w].local = Due(ProvenAt, workers[w])
  BY <1>1 DEF PullInv, JobInv, ExactInv
<1>2. ASSUME NEW v \in DOMAIN workers, NEW w \in DOMAIN workers, v < w
      PROVE  workers[v].start + GroupsEnd(v) <= workers[w].start
  <2>1. wanted # << >> /\ SharesInv
    <3>1. wanted # << >>
      BY WorkerIs, Zenon
    <3> QED BY <3>1, Zenon DEF PullInv
  <2>2. PICK cores \in Nat \ {0} :
          /\ DOMAIN workers = 1..cores
          /\ \A u \in 1..cores :
               /\ workers[u].start = (u - 1) * PerWorker(wanted, cores)
               /\ workers[u].end = ShareEnd(wanted, workers[u].start, PerWorker(wanted, cores))
    BY <2>1 DEF SharesInv
  <2>3. PICK N \in Nat \ {0} : Len(wanted) = N
    BY <2>1, WantedIs, Zenon
  <2>4. PICK per : per = PerWorker(wanted, cores)
    OBVIOUS
  <2>5. v \in 1..cores /\ w \in 1..cores
    BY <2>2
  <2>6. PICK start, end : start = workers[v].start /\ end = workers[v].end
    OBVIOUS
  <2>7. start = (v - 1) * per /\ end = ShareEnd(wanted, start, per)
    BY <2>2, <2>4, <2>5, <2>6
  <2>8. per \in Nat /\ start \in Nat /\ end \in 0..N /\ end - start <= per
    BY <2>3, <2>4, <2>5, <2>7, ShareIs
  <2>9. WholeGroups(end - start) \in Int /\ WholeGroups(end - start) <= end - start
    <3>1. end - start \in Int
      BY <2>8
    <3> QED BY <3>1, WholeGroupsIs
  <2>10. start + WholeGroups(end - start) <= v * per
    <3>1. v - 1 \in Nat /\ (v - 1) + 1 = v
      BY <2>5
    <3>2. ((v - 1) + 1) * per = (v - 1) * per + per
      BY <2>8, <3>1, TimesGrows
    <3>3. v * per = start + per
      BY <2>7, <3>1, <3>2
    <3> QED BY <2>8, <2>9, <3>3
  <2>11. v * per <= (w - 1) * per
    <3>1. v \in Nat /\ w - 1 \in Nat /\ v <= w - 1
      BY <1>2, <2>5
    <3> QED BY <2>8, <3>1, TimesGrows
  <2>12. workers[w].start = (w - 1) * per
    BY <2>2, <2>4, <2>5
  <2>13. v * per \in Nat /\ (w - 1) * per \in Nat
    BY <2>5, <2>8
  <2> QED BY <2>6, <2>8, <2>9, <2>10, <2>11, <2>12, <2>13 DEF GroupsEnd
<1> QED BY <1>1, <1>2 DEF PullCountsOnlyProven, Due, CountIn, ProvenAt, GroupsEnd

\* Whatever is asked for, with however many workers, and in whatever order their
\* groups run: the counts and panics of MeasurePullThroughput are explained.
THEOREM PullInvariant == PullSpec => []PullInv
BY InitPull, NextPull, PTL DEF PullSpec

\* A worker counts no txid that its own proof does not prove, and, of a list that
\* is known and equally deep, each txid of its whole groups once in every pass; no
\* txid is in two workers' groups.
THEOREM PullsCountOnlyProven == PullSpec => []PullCountsOnlyProven
BY PullInvariant, PullInvCounts, PTL

\* A worker panics only for an unknown txid, for paths of unequal length, or for a
\* list with no group for each of more than two workers (pull.go:62).
THEOREM PullPanicHasCause == PullSpec => []PanicHasCause
<1>1. PullInv => PanicHasCause
  BY DEF PullInv
<1> QED BY <1>1, PullInvariant, PTL

\* Every field of every block of any size has three paths that the verifiers accept.
THEOREM PulledFieldsProvable == PullSpec => []EveryFieldProvable
<1>1. PullInv => EveryFieldProvable
  BY BlockInvProvable DEF PullInv
<1> QED BY <1>1, PullInvariant, PTL

\* Paths of different places put together prove no more than that a field is of a
\* transaction of the block, in the subtree the L2 path is of: for all lists of
\* numbered fields, all blocks and all subtree capacities.
THEOREM MixedPathsProveMembership == PullSpec => []PathsProveMembership
<1>1. PullInv => PathsProveMembership
  BY BlockInvMembership DEF PullInv
<1> QED BY <1>1, PullInvariant, PTL

\* "tamper one leaf -> that proof (and only it) must fail" (fabric16_test.go:14), for
\* every block, every number of lanes and whichever leaf it is.
THEOREM TamperedProofFailsAlone == PullSpec => []TamperedProofAloneFails
<1>1. PullInv => TamperedProofAloneFails
  BY BlockInvTampered DEF PullInv
<1> QED BY <1>1, PullInvariant, PTL

\* buildTree16 gives the Merkle root of every block with any number of lanes, whatever
\* its groups leave in the lanes they do not use.
THEOREM LaneTreesAreMerkleTrees == PullSpec => []LaneTreeIsMerkleTree
<1>1. PullInv => LaneTreeIsMerkleTree
  BY BlockInvLaneTree DEF PullInv
<1> QED BY <1>1, PullInvariant, PTL

\* Two lists of transactions have one root exactly when padding makes them one
\* list: whatever the block, and against every list a block may have.
THEOREM RootsMeetByPaddingOnly == PullSpec => []RootsMeetOnlyByPadding
<1>1. PullInv => RootsMeetOnlyByPadding
  BY BlockInvPadding DEF PullInv
<1> QED BY <1>1, PullInvariant, PTL
=============================================================================
