---------------------------- MODULE BundleProofs -----------------------------
(***************************************************************************)
(* The life of the accumulator of Accumulator, for any headers in any      *)
(* order, and that of the bundle of BundleLifecycle, whose anchors rest on *)
(* an accumulator, for any transactions, any batches the miners may seal   *)
(* and any number of blocks and reorganisations.                           *)
(***************************************************************************)
EXTENDS BundleLifecycle, Accumulator, MerkleProofs

-----------------------------------------------------------------------------
(***************************************************************************)
(* The accumulator: its invariant                                          *)
(***************************************************************************)

\* The leaves are the digests of the headers appended, one by one.
HistoryInv ==
  /\ Len(appended) = Size
  /\ leaves = [i \in 1..Size |-> DoubleSHA256(appended[i])]

\* The proof given out verifies against the root of its time.
ServedInv ==
  served # NoProof =>
    /\ Len(served.path) \in Nat
    /\ VerifyBlockInChain(served.header, served.path, MMRRoot(SubSeq(leaves, 1, served.size)))

AccInv == AccTypeOK /\ HistoryInv /\ ServedInv

\* The digest of one thing is of no pair, and of one thing.
LEMMA DigestIs ==
  ASSUME NEW x, NEW y
  PROVE  /\ ~IsPair(DoubleSHA256(x)) /\ DoubleSHA256(x) # ZeroHash
         /\ DoubleSHA256(x) = DoubleSHA256(y) => x = y
BY DEF DoubleSHA256, IsPair, HashPair, ZeroHash

\* What the invariant says of the leaves.
LEMMA LeavesAre ==
  ASSUME AccTypeOK, HistoryInv
  PROVE  /\ Size \in Nat /\ Size <= MaxHeaders /\ CeilLog2(Size + 1) <= 64
         /\ DOMAIN leaves = 1..Size /\ DOMAIN appended = 1..Size
         /\ \A i \in 1..Size : appended[i] \in Headers /\ leaves[i] = DoubleSHA256(appended[i])
<1>1. PICK D : D = {DoubleSHA256(h) : h \in Headers}
  OBVIOUS
<1>2. leaves \in Seq(D) /\ appended \in Seq(Headers) /\ Len(appended) <= MaxHeaders /\ Len(appended) = Size
  BY <1>1 DEF AccTypeOK, HistoryInv
<1>3. Size \in Nat /\ Size <= MaxHeaders /\ DOMAIN leaves = 1..Size /\ DOMAIN appended = 1..Size
  BY <1>2 DEF Size
<1>4. CeilLog2(Size + 1) <= 64
  <2>1. /\ Size + 1 \in Nat \ {0} /\ MaxHeaders + 1 \in Nat \ {0} /\ Size + 1 <= MaxHeaders + 1
    BY <1>3, AccumulatorAssumption
  <2>2. CeilLog2(Size + 1) <= CeilLog2(MaxHeaders + 1)
    BY <2>1, DepthGrows
  <2>3. CeilLog2(Size + 1) \in Nat /\ CeilLog2(MaxHeaders + 1) \in Nat
    <3>1. CeilLog2(Size + 1) \in 0..((Size + 1) - 1)
      BY <2>1, CeilLog2Is
    <3>2. CeilLog2(MaxHeaders + 1) \in 0..((MaxHeaders + 1) - 1)
      BY <2>1, CeilLog2Is
    <3> QED BY <3>1, <3>2
  <2> QED BY <2>2, <2>3, AccumulatorAssumption
<1>5. \A i \in 1..Size : appended[i] \in Headers
  BY <1>2, <1>3
<1>6. \A i \in 1..Size : leaves[i] = DoubleSHA256(appended[i])
  BY DEF HistoryInv
<1> QED BY <1>3, <1>4, <1>5, <1>6

\* I-A1 of one state.
LEMMA HeightsProvable ==
  ASSUME AccTypeOK, HistoryInv, NEW height \in 0..Tip
  PROVE  /\ VerifyBlockInChain(appended[height + 1], ProveBlock(leaves, height), MMRRoot(leaves))
         /\ Len(ProveBlock(leaves, height)) \in Nat
<1>1. Size \in Nat /\ CeilLog2(Size + 1) <= 64
  BY LeavesAre
<1>2. PICK n \in Nat \ {0} : n = Size /\ height \in 0..(n - 1)
  BY <1>1 DEF Tip
<1>3. PICK D : D = {DoubleSHA256(h) : h \in Headers}
  OBVIOUS
<1>4. leaves \in Seq(D) /\ n = Len(leaves)
  BY <1>2, <1>3 DEF AccTypeOK, Size
<1>5. /\ Fold(leaves[height + 1], ProveBlock(leaves, height)) = MMRRoot(leaves)
      /\ Len(ProveBlock(leaves, height)) \in 0..(2 * CeilLog2(n + 1))
  BY <1>2, <1>4, EveryBlockProvable
<1>6. leaves[height + 1] = DoubleSHA256(appended[height + 1])
  <2>1. height + 1 \in 1..Size
    BY <1>2
  <2> QED BY <2>1, LeavesAre
<1>7. Len(ProveBlock(leaves, height)) \in Nat /\ Len(ProveBlock(leaves, height)) <= MaxDepth
  <2>1. PICK c \in Nat : c = CeilLog2(n + 1)
    <3>1. n + 1 \in Nat \ {0}
      OBVIOUS
    <3>2. CeilLog2(n + 1) \in 0..((n + 1) - 1)
      BY <3>1, CeilLog2Is
    <3> QED BY <3>2
  <2>2. c <= 64
    BY <1>1, <1>2, <2>1
  <2> QED BY <1>5, <2>1, <2>2 DEF MaxDepth
<1> QED BY <1>5, <1>6, <1>7 DEF VerifyBlockInChain

LEMMA AccInitInv == AccInit => AccInv
<1> SUFFICES ASSUME AccInit PROVE AccInv
  OBVIOUS
<1>1. Size = 0 /\ Tip = -1 /\ Len(<< >>) = 0
  BY DEF AccInit, Size, Tip
<1>2. AccTypeOK
  BY <1>1, AccumulatorAssumption DEF AccInit, AccTypeOK
<1>3. HistoryInv
  BY <1>1 DEF AccInit, HistoryInv
<1>4. ServedInv
  BY DEF AccInit, ServedInv
<1> QED BY <1>2, <1>3, <1>4 DEF AccInv

\* A header appended leaves the leaves before it as they are.
LEMMA AppendInv ==
  ASSUME AccInv, NEW h \in Headers, AppendHeader(h)
  PROVE  AccInv'
<1> USE DEF AccInv
<1>1. PICK n \in Nat : n = Size /\ n < MaxHeaders
  BY LeavesAre DEF AppendHeader
<1>2. PICK D : D = {DoubleSHA256(x) : x \in Headers}
  OBVIOUS
<1>3. leaves \in Seq(D) /\ appended \in Seq(Headers) /\ Len(leaves) = n /\ Len(appended) = n
  BY <1>1, <1>2 DEF AccTypeOK, HistoryInv, Size
<1>4. leaves' = Append(leaves, DoubleSHA256(h)) /\ appended' = Append(appended, h) /\ served' = served
  BY DEF AppendHeader
<1>5. DoubleSHA256(h) \in D
  BY <1>2
<1>6. /\ leaves' \in Seq(D) /\ Len(leaves') = n + 1 /\ leaves'[n + 1] = DoubleSHA256(h)
      /\ \A i \in 1..n : leaves'[i] = leaves[i]
  BY <1>3, <1>4, <1>5
<1>7. /\ appended' \in Seq(Headers) /\ Len(appended') = n + 1 /\ appended'[n + 1] = h
      /\ \A i \in 1..n : appended'[i] = appended[i]
  BY <1>3, <1>4
<1>8. Size' = n + 1 /\ Tip' = n
  BY <1>6 DEF Size, Tip
<1>9. committed' \in Seq(0..n)
  <2>1. committed \in Seq(0..(n - 1))
    BY <1>1 DEF AccTypeOK, Tip
  <2>2. committed \in Seq(0..n) /\ n \in 0..n
    BY <2>1
  <2>3. committed' = Append(committed, n) \/ committed' = committed
    BY <1>1 DEF AppendHeader
  <2> QED BY <2>2, <2>3
<1>10. n + 1 <= MaxHeaders
  BY <1>1, AccumulatorAssumption
<1>11. served # NoProof => served.header \in Headers /\ served.size \in 1..n
  BY <1>1 DEF AccTypeOK
<1>12. AccTypeOK'
  <2>1. served' # NoProof => served'.header \in Headers /\ served'.size \in 1..(n + 1)
    BY <1>4, <1>11
  <2> QED BY <1>2, <1>6, <1>7, <1>8, <1>9, <1>10, <2>1 DEF AccTypeOK
<1>13. HistoryInv'
  <2>1. \A i \in 1..n : leaves[i] = DoubleSHA256(appended[i])
    BY <1>1 DEF HistoryInv
  <2>2. \A i \in 1..(n + 1) : i = n + 1 \/ i \in 1..n
    OBVIOUS
  <2>3. \A i \in 1..(n + 1) : leaves'[i] = DoubleSHA256(appended'[i])
    BY <1>6, <1>7, <2>1, <2>2
  <2>4. leaves' = [i \in 1..(n + 1) |-> leaves'[i]]
    BY <1>6
  <2> QED BY <1>7, <1>8, <2>3, <2>4 DEF HistoryInv
<1>14. ServedInv'
  <2> SUFFICES ASSUME served # NoProof
               PROVE  /\ Len(served.path) \in Nat
                      /\ VerifyBlockInChain(served.header, served.path,
                                            MMRRoot(SubSeq(leaves', 1, served.size)))
    BY <1>4 DEF ServedInv
  <2>1. PICK s \in 1..n : s = served.size
    BY <1>11
  <2>2. SubSeq(leaves', 1, s) = SubSeq(leaves, 1, s)
    BY <1>3, <1>6
  <2> QED BY <2>1, <2>2 DEF ServedInv
<1> QED BY <1>12, <1>13, <1>14

\* The proof given out is that of its height at this size.
LEMMA ProveInv ==
  ASSUME AccInv, NEW height \in 0..MaxHeaders, Prove(height)
  PROVE  AccInv'
<1> USE DEF AccInv
<1>1. PICK n \in Nat : n = Size
  BY LeavesAre
<1>2. height \in 0..Tip /\ height + 1 \in 1..n /\ n \in 1..n
  BY <1>1, AccumulatorAssumption DEF Prove, Tip
<1>3. /\ leaves' = leaves /\ appended' = appended /\ committed' = committed
      /\ served'.header = appended[height + 1] /\ served'.path = ProveBlock(leaves, height)
      /\ served'.size = n
  BY <1>1 DEF Prove
<1>4. /\ VerifyBlockInChain(appended[height + 1], ProveBlock(leaves, height), MMRRoot(leaves))
      /\ Len(ProveBlock(leaves, height)) \in Nat
  BY <1>2, HeightsProvable
<1>5. appended[height + 1] \in Headers
  BY <1>1, <1>2, LeavesAre
<1>6. AccTypeOK'
  BY <1>1, <1>2, <1>3, <1>5 DEF AccTypeOK, Size, Tip
<1>7. HistoryInv'
  BY <1>3 DEF HistoryInv, Size
<1>8. SubSeq(leaves, 1, n) = leaves
  <2>1. PICK D : D = {DoubleSHA256(x) : x \in Headers}
    OBVIOUS
  <2>2. leaves \in Seq(D) /\ Len(leaves) = n
    BY <1>1, <2>1 DEF AccTypeOK, Size
  <2> QED BY <2>2
<1>9. ServedInv'
  BY <1>3, <1>4, <1>8 DEF ServedInv
<1> QED BY <1>6, <1>7, <1>9

\* The inductive invariant of the accumulator.
THEOREM AccumulatorInvariant == AccSpec => []AccInv
<1>1. AccInv /\ [AccNext]_accVars => AccInv'
  <2> SUFFICES ASSUME AccInv, [AccNext]_accVars PROVE AccInv'
    OBVIOUS
  <2>1. CASE UNCHANGED accVars
    BY <2>1 DEF accVars, AccInv, AccTypeOK, HistoryInv, ServedInv, Size, Tip
  <2>2. CASE \E h \in Headers : AppendHeader(h)
    BY <2>2, AppendInv
  <2>3. CASE \E height \in 0..MaxHeaders : Prove(height)
    BY <2>3, ProveInv
  <2> QED BY <2>1, <2>2, <2>3 DEF AccNext
<1> QED BY <1>1, AccInitInv, PTL DEF AccSpec

\* The heights committed, the leaves and the proofs have their types.
THEOREM AccumulatorTypeOK == AccSpec => []AccTypeOK
BY AccumulatorInvariant, PTL DEF AccInv

\* I-A1, whatever the size: no append loses a height.
THEOREM EveryHeightStaysProvable == AccSpec => []EveryHeightProvable
<1>1. AccInv => EveryHeightProvable
  BY HeightsProvable DEF AccInv, EveryHeightProvable
<1> QED BY <1>1, AccumulatorInvariant, PTL

\* The root of no leaves is the zero digest.
LEMMA EmptyRoot == MMRRoot(<< >>) = ZeroHash
<1>1. PICK c, e, pk, m : /\ c = CeilLog2(0 + 1) /\ e = MountainEnds(MountainSizes(0))
                         /\ pk = Peaks(<< >>) /\ m = Len(pk)
  OBVIOUS
<1>2. IsMMR(<< >>, 0, c, m, e, pk)
  <2>1. << >> \in Seq({}) /\ Len(<< >>) = 0 /\ 0 \in Nat
    OBVIOUS
  <2> QED BY <1>1, <2>1, MMRIs
<1>3. m = 0 /\ pk = [k \in 1..m |-> pk[k]]
  BY <1>2 DEF IsMMR
<1>4. pk = << >>
  BY <1>3
<1> QED BY <1>1, <1>4 DEF MMRRoot, BagPeaks

\* Every other root is the digest of one thing or of a pair.
LEMMA RootIsDigest ==
  ASSUME NEW set, NEW A \in Seq(set), Len(A) # 0, \A d \in set : d # ZeroHash
  PROVE  MMRRoot(A) # ZeroHash
<1>1. PICK x : x = MMRRoot(A)
  OBVIOUS
<1>2. x \in set \/ \E y, z : x = HashPair(y, z)
  BY <1>1, RootKind
<1>3. \A y, z : HashPair(y, z) # ZeroHash
  BY DEF HashPair, ZeroHash
<1> QED BY <1>1, <1>2, <1>3

\* Two lists of digests of one root are one list, the empty ones included.
LEMMA RootBindsList ==
  ASSUME NEW set, NEW A \in Seq(set), NEW B \in Seq(set),
         \A d \in set : ~IsPair(d) /\ d # ZeroHash, MMRRoot(A) = MMRRoot(B)
  PROVE  A = B
<1>1. \A L \in Seq(set) : \A i \in 1..Len(L) : ~IsPair(L[i])
  OBVIOUS
<1>2. \A L \in Seq(set) : Len(L) = 0 => L = << >>
  OBVIOUS
<1>3. CASE Len(A) = 0 /\ Len(B) = 0
  BY <1>2, <1>3
<1>4. CASE Len(A) = 0 /\ Len(B) # 0
  BY <1>2, <1>4, EmptyRoot, RootIsDigest
<1>5. CASE Len(A) # 0 /\ Len(B) = 0
  BY <1>2, <1>5, EmptyRoot, RootIsDigest
<1>6. CASE Len(A) # 0 /\ Len(B) # 0
  BY <1>1, <1>6, RootBindsLeaves
<1> QED BY <1>3, <1>4, <1>5, <1>6

\* The root commits the whole history: no other list of headers has it.
THEOREM HistoryStaysCommitted == AccSpec => []RootCommitsHistory
<1>1. ASSUME AccInv PROVE RootCommitsHistory
  <2> USE <1>1 DEF AccInv
  <2> SUFFICES ASSUME NEW other \in BoundedSeq(Headers, MaxHeaders),
                      MMRRoot([i \in DOMAIN other |-> DoubleSHA256(other[i])]) = MMRRoot(leaves)
               PROVE  other = appended
    BY DEF RootCommitsHistory
  <2>1. PICK m \in 0..MaxHeaders : other \in [1..m -> Headers]
    BY DEF BoundedSeq, SeqOf
  <2>2. PICK D : D = {DoubleSHA256(h) : h \in Headers}
    OBVIOUS
  <2>3. \A d \in D : ~IsPair(d) /\ d # ZeroHash
    BY <2>2, DigestIs
  <2>4. PICK B : B = [i \in 1..m |-> DoubleSHA256(other[i])]
    OBVIOUS
  <2>5. m \in Nat /\ B \in Seq(D) /\ DOMAIN B = 1..m
    <3>1. B \in [1..m -> D] /\ m \in Nat
      BY <2>1, <2>2, <2>4, AccumulatorAssumption
    <3> QED BY <3>1
  <2>6. leaves \in Seq(D)
    BY <2>2 DEF AccTypeOK
  <2>7. MMRRoot(B) = MMRRoot(leaves)
    BY <2>1, <2>4
  <2>8. B = leaves
    BY <2>3, <2>5, <2>6, <2>7, RootBindsList
  <2>9. /\ DOMAIN leaves = 1..Size /\ DOMAIN appended = 1..Size /\ appended \in Seq(Headers)
        /\ \A i \in 1..Size : leaves[i] = DoubleSHA256(appended[i])
    BY LeavesAre DEF AccTypeOK
  <2>10. \A i \in 1..m : DoubleSHA256(other[i]) = DoubleSHA256(appended[i])
    BY <2>4, <2>5, <2>8, <2>9
  <2>11. \A i \in 1..m : other[i] = appended[i]
    BY <2>10, DigestIs
  <2>12. other = [i \in 1..m |-> other[i]] /\ appended = [i \in 1..m |-> appended[i]]
    <3>1. DOMAIN appended = 1..m
      BY <2>5, <2>8, <2>9
    <3>2. other = [i \in 1..m |-> other[i]]
      BY <2>1
    <3>3. PICK a \in Seq(Headers) : a = appended
      BY <2>9
    <3>4. a = [i \in DOMAIN a |-> a[i]]
      OBVIOUS
    <3> QED BY <3>1, <3>2, <3>3, <3>4
  <2> QED BY <2>11, <2>12
<1> QED BY <1>1, AccumulatorInvariant, PTL

\* A path from a digest ends at no zero digest.
LEMMA FoldIsDigest ==
  ASSUME NEW x, x # ZeroHash, NEW p, Len(p) \in Nat
  PROVE  Fold(x, p) # ZeroHash
<1>1. PICK X : X = Climbed(x, p)
  OBVIOUS
<1>2. X[0] = x /\ \A k \in 1..Len(p) : X[k] = Parent(X[k - 1], p[k])
  BY <1>1, ClimbedIs
<1>3. Fold(x, p) = X[Len(p)]
  BY <1>1 DEF Fold
<1>4. CASE Len(p) = 0
  BY <1>2, <1>3, <1>4
<1>5. CASE Len(p) # 0
  <2>1. Len(p) \in 1..Len(p)
    BY <1>5
  <2>2. X[Len(p)] = Parent(X[Len(p) - 1], p[Len(p)])
    BY <1>2, <2>1
  <2> QED BY <1>3, <2>2 DEF Parent, HashPair, ZeroHash
<1> QED BY <1>4, <1>5

\* Each prefix of the leaves is a list of digests, none of a pair.
LEMMA PrefixIs ==
  ASSUME AccTypeOK, NEW D, D = {DoubleSHA256(h) : h \in Headers}, NEW n \in 1..Size
  PROVE  /\ SubSeq(leaves, 1, n) \in Seq(D) /\ Len(SubSeq(leaves, 1, n)) = n
         /\ \A i \in 1..n : ~IsPair(SubSeq(leaves, 1, n)[i])
<1>1. leaves \in Seq(D)
  BY DEF AccTypeOK
<1>2. Size = Len(leaves)
  BY DEF Size
<1>3. PICK A : A = SubSeq(leaves, 1, n)
  OBVIOUS
<1>4. A \in Seq(D) /\ Len(A) = n
  BY <1>1, <1>2, <1>3
<1>5. \A i \in 1..n : A[i] \in D
  BY <1>4
<1>6. \A i \in 1..n : ~IsPair(A[i])
  BY <1>5, DigestIs
<1> QED BY <1>3, <1>4, <1>6

\* A proof given out verifies for its header at its size and for no other: the
\* length of a path tells how many leaves its root stands over.
THEOREM ServedProofBinds == AccSpec => []ProofBindsHeaderAndRoot
<1>1. ASSUME AccInv PROVE ProofBindsHeaderAndRoot
  <2> USE <1>1 DEF AccInv
  <2> SUFFICES ASSUME served # NoProof, NEW header \in Headers, NEW n \in 0..Size
               PROVE  VerifyBlockInChain(header, served.path, MMRRoot(SubSeq(leaves, 1, n)))
                        <=> header = served.header /\ n = served.size
    BY DEF ProofBindsHeaderAndRoot
  <2>1. PICK p : p = served.path /\ Len(p) \in Nat
    BY DEF ServedInv
  <2>2. PICK s \in 1..Size : s = served.size
    BY DEF AccTypeOK
  <2>3. VerifyBlockInChain(served.header, p, MMRRoot(SubSeq(leaves, 1, s)))
    BY <2>1, <2>2 DEF ServedInv
  <2> SUFFICES ASSUME VerifyBlockInChain(header, p, MMRRoot(SubSeq(leaves, 1, n)))
               PROVE  header = served.header /\ n = s
    BY <2>1, <2>2, <2>3
  <2>4. PICK x, y : x = DoubleSHA256(served.header) /\ y = DoubleSHA256(header)
    OBVIOUS
  <2>5. Fold(x, p) = MMRRoot(SubSeq(leaves, 1, s)) /\ Fold(y, p) = MMRRoot(SubSeq(leaves, 1, n))
    BY <2>3, <2>4 DEF VerifyBlockInChain
  <2>6. ~IsPair(x) /\ ~IsPair(y) /\ y # ZeroHash
    BY <2>4, DigestIs
  <2>7. Size \in Nat
    BY LeavesAre
  <2>8. n # 0
    <3> SUFFICES ASSUME n = 0 PROVE FALSE
      OBVIOUS
    <3>1. SubSeq(leaves, 1, 0) = << >>
      <4>1. PICK D : D = {DoubleSHA256(h) : h \in Headers}
        OBVIOUS
      <4>2. leaves \in Seq(D)
        BY <4>1 DEF AccTypeOK
      <4> QED BY <4>2
    <3>2. Fold(y, p) = ZeroHash
      BY <2>5, <3>1, EmptyRoot
    <3> QED BY <2>1, <2>6, <3>2, FoldIsDigest
  <2>9. n \in 1..Size /\ n \in Nat \ {0} /\ s \in Nat \ {0} /\ n \in Nat /\ s \in Nat
    BY <2>7, <2>8
  <2>10. PICK D : D = {DoubleSHA256(h) : h \in Headers}
    OBVIOUS
  <2>11. PICK A : A = SubSeq(leaves, 1, s)
    OBVIOUS
  <2>12. PICK B : B = SubSeq(leaves, 1, n)
    OBVIOUS
  <2>13. A \in Seq(D) /\ Len(A) = s /\ \A i \in 1..s : ~IsPair(A[i])
    BY <2>10, <2>11, PrefixIs
  <2>14. B \in Seq(D) /\ Len(B) = n /\ \A i \in 1..n : ~IsPair(B[i])
    BY <2>9, <2>10, <2>12, PrefixIs
  <2>15. PICK T : IsCover(T, A, s) /\ <<0, s, Fold(x, p)>> \in T
    <3>1. StandsOver(MMRRoot(A), A, s, 0, s)
      BY <2>9, <2>13, MMRHasCover
    <3> QED BY <2>5, <2>11, <3>1 DEF StandsOver
  <2>16. PICK U : IsCover(U, B, n) /\ <<0, n, Fold(y, p)>> \in U
    <3>1. StandsOver(MMRRoot(B), B, n, 0, n)
      BY <2>9, <2>14, MMRHasCover
    <3> QED BY <2>5, <2>12, <3>1 DEF StandsOver
  <2>17. s - 0 = n - 0
    <3>1. s \in Nat /\ n \in Nat /\ Len(p) \in Nat
      BY <2>1, <2>9
    <3>2. IsCover(T, A, s) /\ IsCover(U, B, n)
      BY <2>15, <2>16
    <3>3. (\A i \in 1..s : ~IsPair(A[i])) /\ (\A i \in 1..n : ~IsPair(B[i]))
      BY <2>13, <2>14
    <3>4. ~IsPair(x) /\ ~IsPair(y) /\ <<0, s, Fold(x, p)>> \in T /\ <<0, n, Fold(y, p)>> \in U
      BY <2>6, <2>15, <2>16
    <3> QED BY <3>1, <3>2, <3>3, <3>4, PathSpans
  <2>18. n = s
    BY <2>9, <2>17
  <2>19. Fold(x, p) = Fold(y, p)
    BY <2>5, <2>18
  <2>20. x = y
    BY <2>1, <2>19, FoldBinds
  <2> QED BY <2>4, <2>18, <2>20, DigestIs
<1> QED BY <1>1, AccumulatorInvariant, PTL

\* I-A3, whatever was committed and when: the gaps are the heights nobody
\* committed, in maximal runs, and the nearest height falls back over one.
THEOREM GapsStayHonest == AccSpec => []GapsAreHonest
<1>1. ASSUME AccInv PROVE GapsAreHonest
  <2> USE <1>1 DEF AccInv
  <2>1. PICK P : P = Range(committed)
    OBVIOUS
  <2>2. P \subseteq 0..Tip
    <3>1. committed \in Seq(0..Tip)
      BY DEF AccTypeOK
    <3>2. PICK T : T = 0..Tip
      OBVIOUS
    <3>3. committed \in Seq(T)
      BY <3>1, <3>2
    <3>4. \A i \in DOMAIN committed : committed[i] \in T
      BY <3>3
    <3> QED BY <2>1, <3>2, <3>4 DEF Range
  <2>3. PICK gaps : gaps = CoverageGaps(committed, Tip)
    OBVIOUS
  <2> DEFINE In(k) == \E i \in DOMAIN gaps : gaps[i].FromHeight <= k /\ k <= gaps[i].ToHeight
  <2> HIDE DEF In
  <2>4. ASSUME Size > 0
        PROVE  /\ \A i \in 1..(Len(gaps) - 1) : gaps[i].ToHeight + 1 < gaps[i + 1].FromHeight
               /\ \A k \in 0..Tip : In(k) <=> k \notin P
    <3>1. Tip \in Nat
      BY <2>4, LeavesAre DEF Tip
    <3>2. AreGaps(gaps, P, Tip)
      BY <2>1, <2>3, <3>1, CoverageGapsAre
    <3> QED BY <3>2 DEF AreGaps, In
  <2>5. ASSUME Size > 0, NEW height \in 0..Tip, NEW near, near = NearestCommitted(height, committed)
        PROVE  /\ In(height) <=> height \notin P
               /\ near.inGap <=> In(height)
               /\ near.h \in P => \A k \in (near.h + 1)..height : In(k)
    <3>1. height \in Nat /\ Tip \in Nat /\ P \subseteq Nat
      BY <2>2, <2>5, LeavesAre DEF Tip
    <3>2. /\ near.inGap <=> height \notin P
          /\ \A c \in P : c <= height => near.h \in P /\ c <= near.h
      BY <2>1, <2>5, <3>1, NearestIs
    <3>3. In(height) <=> height \notin P
      BY <2>4, <2>5
    <3>4. ASSUME near.h \in P, NEW k \in (near.h + 1)..height PROVE In(k)
      <4>1. PICK c \in Nat : c = near.h
        BY <3>1, <3>4
      <4>2. k \in 0..Tip /\ k <= height /\ ~(k <= c)
        BY <3>1, <3>4, <4>1
      <4>3. k \notin P
        BY <3>2, <4>1, <4>2
      <4> QED BY <2>4, <2>5, <4>2, <4>3
    <3> QED BY <3>2, <3>3, <3>4
  <2> QED BY <2>1, <2>3, <2>4, <2>5 DEF GapsAreHonest, In
<1> QED BY <1>1, AccumulatorInvariant, PTL

-----------------------------------------------------------------------------
(***************************************************************************)
(* Blocks                                                                  *)
(***************************************************************************)

\* A subtree as SealBlock makes them: up to SubtreeSize distinct txids.
IsSubtree(txids) ==
  /\ Len(txids) \in 1..SubtreeSize /\ txids = [i \in 1..Len(txids) |-> txids[i]]
  /\ \A i \in 1..Len(txids) : TxidLike(txids[i])
  /\ Distinct(txids, Len(txids))

\* The block of height h, with m subtrees and the root over their roots.
IsBlock(b, h, m) ==
  /\ b.height = h
  /\ m \in Nat \ {0} /\ CeilLog2(m) <= 63 /\ DOMAIN b.subtrees = 1..m
  /\ \A s \in 1..m : IsSubtree(b.subtrees[s])
  /\ b.header.root = MerkleRoot(SubtreeRoots(b))

\* A tree's depth is a number.
LEMMA DepthIsNat ==
  ASSUME NEW n \in Nat \ {0}
  PROVE  CeilLog2(n) \in Nat
<1>1. CeilLog2(n) \in 0..(n - 1)
  BY CeilLog2Is
<1> QED BY <1>1

\* The size of a subtree, at most 2^20 txids.
LEMMA SizeIs == SubtreeSize \in Nat \ {0} /\ SubtreeSize \in Nat /\ CeilLog2(SubtreeSize) <= 20
BY NodeAssumption DEF MaxSubtreeDepth

\* The bounds on the runs of the node.
LEMMA BoundsAre == MaxBlocks \in Nat /\ CeilLog2(MaxBlocks + 1) <= 64 /\ MaxReorgs \in Nat
BY NodeAssumption

\* What a miner puts into a block: a sequence of transactions.
LEMMA BatchIs ==
  ASSUME NEW batch \in Batches
  PROVE  batch \in Seq(Txs) /\ CeilLog2(Len(batch) + 1) < 64
BY NodeAssumption

\* The depths of the three paths of a bundle stay below what the verifier takes.
LEMMA DepthsFit ==
  ASSUME NEW l0, NEW l1, NEW l2, Len(l0) \in Nat, Len(l0) <= 8,
         Len(l1) \in Nat, Len(l1) <= 20, Len(l2) \in Nat, Len(l2) <= 63
  PROVE  ~DepthOverflow(l0, l1, l2) /\ PathDepth(l0, l1, l2) <= MaxDepth
<1>1. PICK a \in Nat : a = Len(l0) /\ a <= 8
  OBVIOUS
<1>2. PICK b \in Nat : b = Len(l1) /\ b <= 20
  OBVIOUS
<1>3. PICK c \in Nat : c = Len(l2) /\ c <= 63
  OBVIOUS
<1>4. a + b + c <= 255 /\ ~(a + b + c > 255) /\ ~(b > 20)
  BY <1>1, <1>2, <1>3
<1> QED BY <1>1, <1>2, <1>3, <1>4 DEF DepthOverflow, PathDepth, MaxDepth, MaxSubtreeDepth

\* The length of a subtree.
LEMMA SubtreeLen ==
  ASSUME NEW A, IsSubtree(A)
  PROVE  \E x \in Nat \ {0} : x = Len(A) /\ x <= SubtreeSize
<1>1. Len(A) \in 1..SubtreeSize
  BY DEF IsSubtree
<1>2. PICK size \in Nat : size = SubtreeSize
  BY SizeIs
<1>3. PICK x \in 1..size : x = Len(A)
  BY <1>1, <1>2
<1> QED BY <1>2, <1>3

\* The fields of a transaction: a list of ordinary fields.
LEMMA FieldsAre ==
  ASSUME NEW t \in Txs
  PROVE  \E n \in Nat \ {0} :
           /\ n <= 256 /\ n = Len(FieldsOf[t])
           /\ DOMAIN FieldsOf[t] = 1..n /\ Ordinary(FieldsOf[t])
           /\ FieldsOf[t] = [i \in 1..n |-> FieldsOf[t][i]]
<1>1. PICK fields : fields = FieldsOf[t]
  OBVIOUS
<1>2. fields \in Seq(Range(fields)) /\ Len(fields) \in Nat \ {0} /\ Len(fields) <= 256 /\ Ordinary(fields)
  BY <1>1, NodeAssumption, MinersAssumption
<1>3. PICK S : fields \in Seq(S)
  BY <1>2
<1>4. DOMAIN fields = 1..Len(fields) /\ fields = [i \in 1..Len(fields) |-> fields[i]]
  BY <1>3
<1>5. PICK n \in Nat \ {0} : n <= 256 /\ n = Len(fields)
  BY <1>2
<1> QED BY <1>1, <1>2, <1>4, <1>5

\* Every TXID and that of every generation transaction have the shape of one.
LEMMA TxidOfTx ==
  ASSUME NEW t \in Txs
  PROVE  TxidLike(TXID(t))
<1>1. PICK n \in Nat \ {0} : DOMAIN FieldsOf[t] = 1..n /\ Ordinary(FieldsOf[t])
  BY FieldsAre
<1>2. n \in Nat \ {0}
  OBVIOUS
<1> QED BY <1>1, <1>2, TxidIs DEF TXID

\* The fields of a generation transaction, and its TXID.
LEMMA GenFieldsAre ==
  ASSUME NEW root
  PROVE  /\ DOMAIN GenFields(root) = 1..2 /\ Ordinary(GenFields(root))
         /\ GenFields(root)[1].Bytes = Marker
         /\ TxidLike(BuildMTxID(GenFields(root)))
<1>1. DOMAIN GenFields(root) = 1..2
  BY DEF GenFields
<1>2. GenFields(root)[1] = Field(0, Marker) /\ GenFields(root)[2] = Field(1, root)
  BY DEF GenFields, AccRootField
<1>3. GenFields(root)[1].Index = 0 /\ GenFields(root)[2].Index = 1 /\ GenFields(root)[1].Bytes = Marker
  BY <1>2 DEF Field
<1>4. Ordinary(GenFields(root))
  <2>1. Indexed(GenFields(root))
    BY <1>1, <1>3 DEF Indexed
  <2>2. ~IsWide(Field(0, Marker)) /\ ~IsWide(Field(1, root))
    BY DEF IsWide, Field
  <2>3. \A i \in 1..2 : ~IsWide(GenFields(root)[i])
    <3>1. \A i \in 1..2 : i = 1 \/ i = 2
      OBVIOUS
    <3> QED BY <1>2, <2>2, <3>1
  <2> QED BY <1>1, <2>1, <2>3 DEF Ordinary
<1>5. 2 \in Nat \ {0}
  OBVIOUS
<1> QED BY <1>1, <1>3, <1>4, <1>5, TxidIs

\* Two transactions of one TXID are one, and none is a generation transaction.
LEMMA TxidOfOneTx ==
  ASSUME NEW t \in Txs
  PROVE  /\ \A u \in Txs : TXID(t) = TXID(u) => t = u
         /\ \A root : TXID(t) # BuildMTxID(GenFields(root))
<1>1. PICK n \in Nat \ {0} :
        /\ DOMAIN FieldsOf[t] = 1..n /\ Ordinary(FieldsOf[t])
        /\ FieldsOf[t] = [i \in 1..n |-> FieldsOf[t][i]]
  BY FieldsAre
<1>2. ASSUME NEW u \in Txs, TXID(t) = TXID(u) PROVE t = u
  <2>1. PICK m \in Nat \ {0} :
          /\ DOMAIN FieldsOf[u] = 1..m /\ Ordinary(FieldsOf[u])
          /\ FieldsOf[u] = [i \in 1..m |-> FieldsOf[u][i]]
    BY FieldsAre
  <2>2. PICK F, G : F = FieldsOf[t] /\ G = FieldsOf[u]
    OBVIOUS
  <2>3. n \in Nat \ {0} /\ m \in Nat \ {0} /\ BuildMTxID(F) = BuildMTxID(G)
    BY <1>2, <2>2 DEF TXID
  <2>4. DOMAIN F = 1..n /\ DOMAIN G = 1..m /\ Ordinary(F) /\ Ordinary(G)
    BY <1>1, <2>1, <2>2
  <2>5. n = m /\ SameUpTo(F, G, n)
    BY <2>3, <2>4, TxidBindsFields
  <2>6. F = [i \in 1..n |-> F[i]] /\ G = [i \in 1..n |-> G[i]]
    BY <1>1, <2>1, <2>2, <2>5
  <2>7. F = G
    BY <2>5, <2>6 DEF SameUpTo
  <2> QED BY <2>2, <2>7, MinersAssumption
<1>3. ASSUME NEW root, TXID(t) = BuildMTxID(GenFields(root)) PROVE FALSE
  <2>1. PICK F, G : F = FieldsOf[t] /\ G = GenFields(root)
    OBVIOUS
  <2>2. n \in Nat \ {0} /\ 2 \in Nat \ {0} /\ BuildMTxID(F) = BuildMTxID(G)
    BY <1>3, <2>1 DEF TXID
  <2>3. DOMAIN F = 1..n /\ DOMAIN G = 1..2 /\ Ordinary(F) /\ Ordinary(G)
    BY <1>1, <2>1, GenFieldsAre
  <2>4. SameUpTo(F, G, n)
    BY <2>2, <2>3, TxidBindsFields
  <2>5. F[1] = G[1]
    BY <2>4 DEF SameUpTo
  <2>6. G[1].Bytes = Marker
    BY <2>1, GenFieldsAre
  <2> QED BY <2>1, <2>5, <2>6, MinersAssumption
<1> QED BY <1>2, <1>3

\* What a miner puts into a block: a list of distinct txids, the generation
\* transaction in front when the block carries the accumulator.
LEMMA LeafSetIs ==
  ASSUME NEW batch \in Batches, batch # << >>, NEW root, NEW commit \in BOOLEAN,
         NEW txids, txids = [i \in DOMAIN batch |-> TXID(batch[i])],
         NEW leafSet, leafSet = IF commit THEN <<BuildMTxID(GenFields(root))>> \o txids ELSE txids
  PROVE  \E n \in Nat \ {0} : \E S :
           /\ leafSet \in Seq(S) /\ n = Len(leafSet) /\ CeilLog2(n) <= 63
           /\ \A i \in 1..n : TxidLike(leafSet[i])
           /\ Distinct(leafSet, n)
<1>1. PICK k \in Nat \ {0} : k = Len(batch) /\ DOMAIN batch = 1..k
  <2>1. batch \in Seq(Txs)
    BY BatchIs
  <2> QED BY <2>1
<1>2. \A i \in 1..k : batch[i] \in Txs
  <2>1. batch \in Seq(Txs)
    BY BatchIs
  <2> QED BY <1>1, <2>1
<1>3. PICK g : g = BuildMTxID(GenFields(root))
  OBVIOUS
<1>4. PICK S : S = {g} \cup {TXID(t) : t \in Txs}
  OBVIOUS
<1>5. txids = [i \in 1..k |-> txids[i]] /\ \A i \in 1..k : txids[i] = TXID(batch[i])
  BY <1>1
<1>6. txids \in Seq(S) /\ Len(txids) = k
  <2>1. txids \in [1..k -> S]
    BY <1>2, <1>4, <1>5
  <2>2. txids \in Seq(S)
    BY <2>1
  <2>3. Len(txids) = k
    BY <1>5, FunctionsAreSeqs
  <2> QED BY <2>2, <2>3
<1>7. \A i \in 1..k : TxidLike(txids[i])
  BY <1>2, <1>5, TxidOfTx
<1>8. Distinct(txids, k)
  <2> SUFFICES ASSUME NEW i \in 1..k, NEW j \in 1..k, txids[i] = txids[j] PROVE i = j
    BY DEF Distinct
  <2>1. TXID(batch[i]) = TXID(batch[j]) /\ batch[i] \in Txs /\ batch[j] \in Txs
    BY <1>2, <1>5
  <2>2. batch[i] = batch[j]
    BY <2>1, TxidOfOneTx
  <2> QED BY <1>1, <2>2, MinersAssumption
<1>9. CeilLog2(k + 1) <= 63 /\ CeilLog2(k + 1) \in Nat
  <2>1. k + 1 \in Nat \ {0}
    OBVIOUS
  <2>2. CeilLog2(k + 1) \in Nat
    BY <2>1, DepthIsNat
  <2>3. CeilLog2(k + 1) < 64
    BY <1>1, BatchIs
  <2> QED BY <2>2, <2>3
<1>10. CASE ~commit
  <2>1. leafSet = txids
    BY <1>10
  <2>2. CeilLog2(k) <= 63
    <3>1. k + 1 \in Nat \ {0} /\ k <= k + 1
      OBVIOUS
    <3>2. CeilLog2(k) <= CeilLog2(k + 1)
      BY <3>1, DepthGrows
    <3>3. CeilLog2(k) \in Nat
      BY DepthIsNat
    <3> QED BY <1>9, <3>2, <3>3
  <2> QED BY <1>6, <1>7, <1>8, <2>1, <2>2
<1>11. CASE commit
  <2>1. leafSet = <<g>> \o txids
    BY <1>3, <1>11
  <2>2. leafSet \in Seq(S) /\ Len(leafSet) = k + 1
    <3>1. <<g>> \in Seq(S) /\ Len(<<g>>) = 1
      BY <1>4
    <3> QED BY <1>6, <2>1, <3>1
  <2>3. leafSet[1] = g /\ \A i \in 2..(k + 1) : i - 1 \in 1..k /\ leafSet[i] = txids[i - 1]
    BY <1>6, <2>1
  <2>4. \A i \in 1..(k + 1) : TxidLike(leafSet[i])
    <3>1. TxidLike(g)
      BY <1>3, GenFieldsAre
    <3>2. \A i \in 2..(k + 1) : TxidLike(leafSet[i])
      BY <1>7, <2>3
    <3>3. \A i \in 1..(k + 1) : i = 1 \/ i \in 2..(k + 1)
      OBVIOUS
    <3>4. TxidLike(leafSet[1])
      BY <2>3, <3>1
    <3> QED BY <3>2, <3>3, <3>4
  <2>5. Distinct(leafSet, k + 1)
    <3> SUFFICES ASSUME NEW i \in 1..(k + 1), NEW j \in 1..(k + 1), leafSet[i] = leafSet[j]
                 PROVE  i = j
      BY DEF Distinct
    <3>1. \A e \in 2..(k + 1) : leafSet[e] # g
      <4> SUFFICES ASSUME NEW e \in 2..(k + 1), leafSet[e] = g PROVE FALSE
        OBVIOUS
      <4>1. PICK d \in 1..k : d = e - 1
        BY <2>3
      <4>2. TXID(batch[d]) = g /\ batch[d] \in Txs
        BY <1>2, <1>5, <2>3, <4>1
      <4> QED BY <1>3, <4>2, TxidOfOneTx
    <3>2. CASE i = 1 \/ j = 1
      <4>1. (i = 1 \/ i \in 2..(k + 1)) /\ (j = 1 \/ j \in 2..(k + 1))
        OBVIOUS
      <4>2. leafSet[1] = g
        BY <2>3
      <4>3. CASE i = 1
        <5>1. leafSet[j] = g
          BY <4>2, <4>3
        <5>2. ~(j \in 2..(k + 1))
          BY <3>1, <5>1
        <5> QED BY <4>1, <4>3, <5>2
      <4>4. CASE j = 1
        <5>1. leafSet[i] = g
          BY <4>2, <4>4
        <5>2. ~(i \in 2..(k + 1))
          BY <3>1, <5>1
        <5> QED BY <4>1, <4>4, <5>2
      <4> QED BY <3>2, <4>3, <4>4
    <3>3. CASE i \in 2..(k + 1) /\ j \in 2..(k + 1)
      <4>1. txids[i - 1] = txids[j - 1] /\ i - 1 \in 1..k /\ j - 1 \in 1..k
        BY <2>3, <3>3
      <4>2. i - 1 = j - 1
        BY <1>8, <4>1 DEF Distinct
      <4> QED BY <4>2
    <3> QED BY <3>2, <3>3
  <2>6. k + 1 \in Nat \ {0}
    OBVIOUS
  <2> QED BY <1>9, <2>2, <2>4, <2>5, <2>6
<1> QED BY <1>10, <1>11

\* SealBlock makes such a block of every batch.
LEMMA SealedIs ==
  ASSUME NEW batch \in Batches, batch # << >>, NEW commit \in BOOLEAN,
         NEW txids, txids = [i \in DOMAIN batch |-> TXID(batch[i])],
         NEW b, b = SealedBlock(txids, commit), NEW h, h = Len(blocks)
  PROVE  \E m : IsBlock(b, h, m)
<1>1. PICK root : root = PrefixRoot(h)
  OBVIOUS
<1>2. PICK leafSet : leafSet = IF commit THEN <<BuildMTxID(GenFields(root))>> \o txids ELSE txids
  OBVIOUS
<1>n. PICK n \in Nat \ {0} : \E S :
        /\ leafSet \in Seq(S) /\ n = Len(leafSet) /\ CeilLog2(n) <= 63
        /\ \A i \in 1..n : TxidLike(leafSet[i])
        /\ Distinct(leafSet, n)
  BY <1>2, LeafSetIs
<1>3. PICK S :
        /\ leafSet \in Seq(S) /\ n = Len(leafSet) /\ CeilLog2(n) <= 63
        /\ \A i \in 1..n : TxidLike(leafSet[i])
        /\ Distinct(leafSet, n)
  BY <1>n
<1>4. PICK P : P = Partition(leafSet, SubtreeSize)
  OBVIOUS
<1>5. PICK roots : roots = [s \in DOMAIN P |-> MerkleRoot(P[s])]
  OBVIOUS
<1>6. b.height = h /\ b.subtrees = P /\ b.header.root = MerkleRoot(roots)
  BY <1>1, <1>2, <1>4, <1>5 DEF SealedBlock
<1>7. PICK m : m = Len(P)
  OBVIOUS
<1>8. PICK size \in Nat \ {0} : size = SubtreeSize
  BY SizeIs
<1>9. IsCut(P, m, leafSet, n, size, S)
  BY <1>3, <1>4, <1>7, <1>8, PartitionIs
<1>10. m \in Nat \ {0} /\ m <= n /\ DOMAIN P = 1..m
  BY <1>9 DEF IsCut
<1>11. CeilLog2(m) <= 63
  <2>1. CeilLog2(m) <= CeilLog2(n)
    BY <1>10, DepthGrows
  <2>2. CeilLog2(m) \in Nat /\ CeilLog2(n) \in Nat
    BY <1>10, DepthIsNat
  <2> QED BY <1>3, <2>1, <2>2
<1>12. ASSUME NEW s \in 1..m PROVE IsSubtree(P[s])
  <2>1. /\ Len(P[s]) \in 1..size
        /\ \A k \in 1..Len(P[s]) :
             (s - 1) * size + k \in 1..n /\ P[s][k] = leafSet[(s - 1) * size + k]
    BY <1>9 DEF IsCut
  <2>2. \A k \in 1..Len(P[s]) : TxidLike(P[s][k])
    BY <1>3, <2>1
  <2>3. Distinct(P[s], Len(P[s]))
    <3> SUFFICES ASSUME NEW i \in 1..Len(P[s]), NEW j \in 1..Len(P[s]), P[s][i] = P[s][j]
                 PROVE  i = j
      BY DEF Distinct
    <3>1. PICK x \in Nat : x = (s - 1) * size
      <4>1. s - 1 \in Nat
        BY <1>10
      <4>2. (s - 1) * size \in Nat
        BY <4>1
      <4> QED BY <4>2
    <3>2. x + i \in 1..n /\ x + j \in 1..n /\ leafSet[x + i] = leafSet[x + j]
      BY <2>1, <3>1
    <3>3. x + i = x + j
      BY <1>3, <3>2 DEF Distinct
    <3>4. i \in Nat /\ j \in Nat
      BY <2>1
    <3> QED BY <3>3, <3>4
  <2>4. P[s] = [i \in 1..Len(P[s]) |-> P[s][i]]
    <3>1. P[s] \in Seq(S)
      BY <1>9 DEF IsCut
    <3> QED BY <3>1
  <2> QED BY <1>8, <2>1, <2>2, <2>3, <2>4 DEF IsSubtree
<1>13. SubtreeRoots(b) = roots
  BY <1>5, <1>6 DEF SubtreeRoots
<1> QED BY <1>6, <1>10, <1>11, <1>12, <1>13 DEF IsBlock

\* The places of a block: a subtree and a leaf of it.
LEMMA PlacesAre ==
  ASSUME NEW b, NEW h, NEW m, IsBlock(b, h, m), NEW txid, NEW p
  PROVE  p \in PlacesOf(b, txid) <=>
           \E s \in 1..m : \E k \in 1..Len(b.subtrees[s]) :
             /\ p = [height |-> h, subtree |-> s - 1, leaf |-> k - 1]
             /\ b.subtrees[s][k] = txid
<1>1. /\ m \in Nat \ {0} /\ DOMAIN b.subtrees = 1..m /\ b.height = h
      /\ \A s \in 1..m : Len(b.subtrees[s]) \in 1..SubtreeSize
      /\ SubtreeSize \in Nat
  BY SizeIs DEF IsBlock, IsSubtree
<1>2. ASSUME p \in PlacesOf(b, txid)
      PROVE  \E s \in 1..m : \E k \in 1..Len(b.subtrees[s]) :
               /\ p = [height |-> h, subtree |-> s - 1, leaf |-> k - 1]
               /\ b.subtrees[s][k] = txid
  <2>1. /\ p \in Places(b) /\ p.leaf < Len(b.subtrees[p.subtree + 1])
        /\ b.subtrees[p.subtree + 1][p.leaf + 1] = txid
    BY <1>2 DEF PlacesOf, TxidAt
  <2>2. PICK s \in 1..m, k \in 1..SubtreeSize :
          p = [height |-> h, subtree |-> s - 1, leaf |-> k - 1]
    BY <1>1, <2>1 DEF Places
  <2>3. p.subtree + 1 = s /\ p.leaf + 1 = k /\ p.leaf = k - 1
    BY <1>1, <2>2
  <2>4. k \in 1..Len(b.subtrees[s])
    <3>1. PICK w \in Nat : w = Len(b.subtrees[s])
      BY <1>1
    <3>2. k - 1 < w
      BY <2>1, <2>3, <3>1
    <3>3. k \in 1..w
      BY <1>1, <3>2
    <3> QED BY <3>1, <3>3
  <2> QED BY <2>1, <2>2, <2>3, <2>4
<1>3. ASSUME NEW s \in 1..m, NEW k \in 1..Len(b.subtrees[s]),
             p = [height |-> h, subtree |-> s - 1, leaf |-> k - 1],
             b.subtrees[s][k] = txid
      PROVE  p \in PlacesOf(b, txid)
  <2>1. PICK w \in 1..SubtreeSize : w = Len(b.subtrees[s])
    BY <1>1
  <2>2. k \in 1..SubtreeSize /\ k \in 1..w /\ s \in DOMAIN b.subtrees
    BY <1>1, <2>1
  <2>3. p \in Places(b)
    <3>1. p = [height |-> b.height, subtree |-> s - 1, leaf |-> k - 1]
      BY <1>1, <1>3
    <3> QED BY <2>2, <3>1 DEF Places
  <2>4. p.subtree + 1 = s /\ p.leaf + 1 = k /\ p.leaf < w
    BY <1>1, <1>3, <2>2
  <2> QED BY <1>3, <2>1, <2>3, <2>4 DEF PlacesOf, TxidAt
<1> QED BY <1>2, <1>3

\* A set of natural numbers up to n has a greatest.
LEMMA GreatestNat ==
  ASSUME NEW n \in Nat, NEW S \in SUBSET (0..n), S # {}
  PROVE  \E x \in S : \A y \in S : y <= x
<1>1. PICK T : T = {n - x : x \in S}
  OBVIOUS
<1>2. T \in SUBSET Nat /\ T # {}
  <2>1. PICK x \in S : TRUE
    OBVIOUS
  <2>2. n - x \in T
    BY <1>1, <2>1
  <2>3. \A x1 \in 0..n : n - x1 \in Nat
    OBVIOUS
  <2> QED BY <1>1, <2>2, <2>3
<1>3. PICK t \in T : \A u \in T : t <= u
  BY <1>2, LeastNat
<1>4. PICK x \in S : t = n - x
  BY <1>1
<1>5. ASSUME NEW y \in S PROVE y <= x
  <2>1. n - y \in T
    BY <1>1
  <2>2. n - x <= n - y
    BY <1>3, <1>4, <2>1
  <2> QED BY <2>2
<1> QED BY <1>5

\* The last place of a txid that the block has is a place of it.
LEMMA LastPlaceIs ==
  ASSUME NEW b, NEW h, NEW m, IsBlock(b, h, m), NEW txid, txid \in TxidsIn(b)
  PROVE  LastPlace(PlacesOf(b, txid)) \in PlacesOf(b, txid)
<1>1. /\ m \in Nat \ {0} /\ DOMAIN b.subtrees = 1..m
      /\ \A s \in 1..m : Len(b.subtrees[s]) \in 1..SubtreeSize
      /\ SubtreeSize \in Nat
  BY SizeIs DEF IsBlock, IsSubtree
<1>2. PICK places : places = PlacesOf(b, txid)
  OBVIOUS
<1>3. \A p : p \in places <=>
           \E s \in 1..m : \E k \in 1..Len(b.subtrees[s]) :
             /\ p = [height |-> h, subtree |-> s - 1, leaf |-> k - 1]
             /\ b.subtrees[s][k] = txid
  BY <1>2, PlacesAre
<1>4. ASSUME NEW p \in places PROVE p.subtree \in 0..m /\ p.leaf \in 0..SubtreeSize
  <2>0. PICK s \in 1..m : \E e \in 1..Len(b.subtrees[s]) :
          p = [height |-> h, subtree |-> s - 1, leaf |-> e - 1]
    BY <1>3
  <2>1. PICK k \in 1..Len(b.subtrees[s]) : p = [height |-> h, subtree |-> s - 1, leaf |-> k - 1]
    BY <2>0
  <2>2. PICK w \in 1..SubtreeSize : w = Len(b.subtrees[s])
    BY <1>1
  <2>3. k \in 1..SubtreeSize
    BY <1>1, <2>1, <2>2
  <2>4. s - 1 \in 0..m /\ k - 1 \in 0..SubtreeSize
    <3>1. m \in Nat /\ SubtreeSize \in Nat
      BY <1>1
    <3> QED BY <2>3, <3>1
  <2>5. p.subtree = s - 1 /\ p.leaf = k - 1
    BY <2>1
  <2> QED BY <2>4, <2>5
<1>5. places # {}
  <2>1. PICK s \in 1..m : txid \in Range(b.subtrees[s])
    BY <1>1 DEF TxidsIn
  <2>2. PICK A : A = b.subtrees[s]
    OBVIOUS
  <2>3. DOMAIN A = 1..Len(A)
    <3>1. IsSubtree(A)
      BY <2>2 DEF IsBlock
    <3> QED BY <3>1 DEF IsSubtree
  <2>4. PICK k \in DOMAIN A : A[k] = txid
    BY <2>1, <2>2 DEF Range
  <2> QED BY <1>3, <2>2, <2>3, <2>4
<1>6. PICK S : S = {p.subtree : p \in places}
  OBVIOUS
<1>7. PICK x \in S : \A y \in S : y <= x
  <2>1. S \in SUBSET (0..m) /\ S # {} /\ m \in Nat
    BY <1>1, <1>4, <1>5, <1>6
  <2> QED BY <2>1, GreatestNat
<1>8. PICK T : T = {p.leaf : p \in {q \in places : q.subtree = x}}
  OBVIOUS
<1>9. PICK z \in T : \A y \in T : y <= z
  <2>1. T # {}
    BY <1>6, <1>7, <1>8
  <2>2. T \in SUBSET (0..SubtreeSize)
    BY <1>4, <1>8
  <2> QED BY <1>1, <2>1, <2>2, GreatestNat
<1>10. PICK last \in places : last.subtree = x /\ last.leaf = z
  BY <1>8, <1>9
<1>11. \A q \in places :
         q.subtree < last.subtree \/ (q.subtree = last.subtree /\ q.leaf <= last.leaf)
  <2> SUFFICES ASSUME NEW q \in places, ~(q.subtree < x)
               PROVE  q.subtree = x /\ q.leaf <= z
    BY <1>10
  <2>1. q.subtree <= x
    BY <1>6, <1>7
  <2>2. q.subtree \in Nat /\ x \in Nat
    BY <1>1, <1>4, <1>10
  <2>3. q.subtree = x
    BY <2>1, <2>2
  <2>4. q.leaf \in T
    BY <1>8, <2>3
  <2> QED BY <1>9, <2>3, <2>4
<1>12. \E p \in places : \A q \in places :
         q.subtree < p.subtree \/ (q.subtree = p.subtree /\ q.leaf <= p.leaf)
  BY <1>11
<1>13. LastPlace(places) \in places
  BY <1>12 DEF LastPlace
<1> QED BY <1>2, <1>13

-----------------------------------------------------------------------------
(***************************************************************************)
(* The inductive invariant                                                 *)
(***************************************************************************)

\* The chain: a list of blocks, each at its height.
IsChain(bs) ==
  /\ \E S : bs \in Seq(S)
  /\ \A h \in 0..(Len(bs) - 1) : \E m : IsBlock(bs[h + 1], h, m)

\* The index: every txid has a place in the block it names.
IsIndex(bs, index) ==
  \A txid \in DOMAIN index :
    /\ index[txid].height \in 0..(Len(bs) - 1)
    /\ index[txid] \in PlacesOf(bs[index[txid].height + 1], txid)

NodeInv ==
  /\ IsChain(blocks) /\ Len(blocks) <= MaxBlocks
  /\ IsIndex(blocks, txIndex)
  /\ onBest \subseteq Heights
  /\ reorgs \in Nat /\ reorgs <= MaxReorgs

\* One chain is the beginning of another.
Continues(bs, cs) ==
  \A h \in 0..(Len(bs) - 1) : h \in 0..(Len(cs) - 1) /\ cs[h + 1] = bs[h + 1]

\* An L1 path and a subtree root: those of a place where some block has the coin.
HalfRead(bs, l1, root) ==
  \E h \in 0..(Len(bs) - 1) : \E p \in PlacesOf(bs[h + 1], TXID(Coin)) :
    /\ l1 = MerklePath(SubtreeTree(bs[h + 1], p.subtree), p.leaf)
    /\ root = SubtreeRoots(bs[h + 1])[p.subtree + 1]

\* An L1 and an L2 path: both of one place where the block at h has the coin.
WholeRead(bs, h, l1, l2) ==
  /\ h \in 0..(Len(bs) - 1)
  /\ \E p \in PlacesOf(bs[h + 1], TXID(Coin)) :
       /\ l1 = MerklePath(SubtreeTree(bs[h + 1], p.subtree), p.leaf)
       /\ l2 = MerklePath(BlockLayers(bs[h + 1]), p.subtree)

BundleFields == {"txid", "field", "l0", "l1", "l2", "header", "anchor"}

\* What a call starts from: a field of the coin with its L0.
IsDraft(b) ==
  /\ DOMAIN b = BundleFields /\ b.txid = TXID(Coin)
  /\ \E f \in DOMAIN FieldsOf[Coin] :
       b.field = FieldsOf[Coin][f] /\ b.l0 = MTxIDPath(FieldsOf[Coin], f - 1)

\* What a call ends with: the header of the block that both paths are of.
IsBundle(bs, b) ==
  /\ IsDraft(b)
  /\ \E h : WholeRead(bs, h, b.l1, b.l2) /\ b.header = bs[h + 1].header

WalletInv ==
  /\ pc \in {"idle", "subtree", "locate", "path", "header"}
  /\ pc = "idle" => draft = NoBundle
  /\ pc # "idle" => IsDraft(draft)
  /\ bundle # NoBundle => IsBundle(blocks, bundle)
  /\ DOMAIN read = {"l1", "root", "height", "l2"}
  /\ pc \in {"locate", "path", "header"} =>
       TXID(Coin) \in DOMAIN txIndex /\ HalfRead(blocks, read.l1, read.root)
  /\ pc \in {"path", "header"} => read.height \in Heights
  /\ pc = "header" => WholeRead(blocks, read.height, read.l1, read.l2)

Inv == NodeInv /\ WalletInv

\* No block, nothing read and nothing held.
LEMMA InitInv == Init => Inv
<1> SUFFICES ASSUME Init PROVE Inv
  OBVIOUS
<1>1. blocks = << >> /\ txIndex = << >> /\ onBest = {} /\ reorgs = 0
  BY DEF Init, NodeInit
<1>2. Len(blocks) = 0 /\ DOMAIN txIndex = {} /\ blocks \in Seq({}) /\ 0..(0 - 1) = {}
  BY <1>1
<1>3. IsChain(blocks) /\ IsIndex(blocks, txIndex)
  BY <1>2 DEF IsChain, IsIndex
<1>4. NodeInv
  BY <1>1, <1>2, <1>3, BoundsAre DEF NodeInv, Heights
<1>5. WalletInv
  BY DEF Init, WalletInv, Nothing
<1> QED BY <1>4, <1>5 DEF Inv

\* What was read of a chain stays true of its continuation.
LEMMA ReadsLast ==
  ASSUME NEW bs, NEW cs, Continues(bs, cs)
  PROVE  /\ \A l1, root : HalfRead(bs, l1, root) => HalfRead(cs, l1, root)
         /\ \A h, l1, l2 : WholeRead(bs, h, l1, l2) => WholeRead(cs, h, l1, l2)
         /\ \A b : IsBundle(bs, b) => IsBundle(cs, b)
<1>1. \A l1, root : HalfRead(bs, l1, root) => HalfRead(cs, l1, root)
  BY DEF HalfRead, Continues
<1>2. \A h, l1, l2 : WholeRead(bs, h, l1, l2) => WholeRead(cs, h, l1, l2)
  BY DEF WholeRead, Continues
<1>3. \A b : IsBundle(bs, b) => IsBundle(cs, b)
  <2> SUFFICES ASSUME NEW b, IsBundle(bs, b) PROVE IsBundle(cs, b)
    OBVIOUS
  <2>1. PICK h : WholeRead(bs, h, b.l1, b.l2) /\ b.header = bs[h + 1].header
    BY DEF IsBundle
  <2>2. WholeRead(cs, h, b.l1, b.l2)
    BY <1>2, <2>1
  <2>3. cs[h + 1] = bs[h + 1]
    BY <2>1 DEF WholeRead, Continues
  <2> QED BY <2>1, <2>2, <2>3 DEF IsBundle
<1> QED BY <1>1, <1>2, <1>3

\* A block joins the chain and the index.
LEMMA SealInv ==
  ASSUME NodeInv, NEW batch \in Batches, NEW commit \in BOOLEAN, SealBlock(batch, commit)
  PROVE  NodeInv' /\ Continues(blocks, blocks') /\ DOMAIN txIndex \subseteq DOMAIN txIndex'
<1>1. PICK txids, b : /\ txids = [i \in DOMAIN batch |-> TXID(batch[i])]
                      /\ b = SealedBlock(txids, commit)
  OBVIOUS
<1>2. /\ Len(blocks) < MaxBlocks /\ batch # << >>
      /\ blocks' = Append(blocks, b)
      /\ txIndex' = [txid \in DOMAIN txIndex \cup TxidsIn(b) |->
                       IF txid \in TxidsIn(b) THEN LastPlace(PlacesOf(b, txid))
                       ELSE txIndex[txid]]
      /\ onBest' = onBest \cup {b.height} /\ reorgs' = reorgs
  BY <1>1 DEF SealBlock
<1>3. PICK S : blocks \in Seq(S)
  BY DEF NodeInv, IsChain
<1>4. PICK n \in Nat : n = Len(blocks)
  BY <1>3
<1>5. PICK m : IsBlock(b, n, m)
  BY <1>1, <1>2, <1>4, SealedIs
<1>6. b.height = n
  BY <1>5 DEF IsBlock
<1>7. blocks' \in Seq(S \cup {b}) /\ Len(blocks') = n + 1 /\ blocks'[n + 1] = b
  BY <1>2, <1>3, <1>4
<1>8. \A i \in 1..n : blocks'[i] = blocks[i]
  BY <1>2, <1>3, <1>4
<1>9. Continues(blocks, blocks')
  <2> SUFFICES ASSUME NEW h \in 0..(n - 1)
               PROVE  h \in 0..((n + 1) - 1) /\ blocks'[h + 1] = blocks[h + 1]
    BY <1>4, <1>7 DEF Continues
  <2>1. h + 1 \in 1..n
    OBVIOUS
  <2> QED BY <1>8, <2>1
<1>10. IsChain(blocks')
  <2> SUFFICES ASSUME NEW h \in 0..n PROVE \E k : IsBlock(blocks'[h + 1], h, k)
    BY <1>7 DEF IsChain
  <2>1. CASE h = n
    BY <1>5, <1>7, <2>1
  <2>2. CASE h # n
    <3>1. h \in 0..(n - 1)
      BY <2>2
    <3>2. blocks'[h + 1] = blocks[h + 1]
      BY <1>4, <1>9, <3>1 DEF Continues
    <3> QED BY <1>4, <3>1, <3>2 DEF NodeInv, IsChain
  <2> QED BY <2>1, <2>2
<1>11. IsIndex(blocks', txIndex')
  <2> SUFFICES ASSUME NEW txid \in DOMAIN txIndex'
               PROVE  /\ txIndex'[txid].height \in 0..(Len(blocks') - 1)
                      /\ txIndex'[txid] \in PlacesOf(blocks'[txIndex'[txid].height + 1], txid)
    BY DEF IsIndex
  <2>1. CASE txid \in TxidsIn(b)
    <3>1. PICK p : p = LastPlace(PlacesOf(b, txid))
      OBVIOUS
    <3>2. txIndex'[txid] = p /\ p \in PlacesOf(b, txid)
      BY <1>2, <1>5, <2>1, <3>1, LastPlaceIs
    <3>3. p.height = n
      <4>1. PICK s \in 1..m : \E k \in 1..Len(b.subtrees[s]) :
              p = [height |-> n, subtree |-> s - 1, leaf |-> k - 1]
        BY <1>5, <3>2, PlacesAre
      <4> QED BY <4>1
    <3>4. n \in 0..((n + 1) - 1)
      OBVIOUS
    <3> QED BY <1>7, <3>2, <3>3, <3>4
  <2>2. CASE txid \notin TxidsIn(b)
    <3>1. txid \in DOMAIN txIndex /\ txIndex'[txid] = txIndex[txid]
      BY <1>2, <2>2
    <3>2. PICK p : p = txIndex[txid]
      OBVIOUS
    <3>3. p.height \in 0..(Len(blocks) - 1) /\ p \in PlacesOf(blocks[p.height + 1], txid)
      BY <3>1, <3>2 DEF NodeInv, IsIndex
    <3>4. p.height \in 0..(Len(blocks') - 1) /\ blocks'[p.height + 1] = blocks[p.height + 1]
      BY <1>9, <3>3 DEF Continues
    <3> QED BY <3>1, <3>2, <3>3, <3>4
  <2> QED BY <2>1, <2>2
<1>12. onBest' \subseteq Heights' /\ Len(blocks') <= MaxBlocks
  <2>1. Heights' = 0..n /\ Heights = 0..(n - 1)
    BY <1>4, <1>7 DEF Heights
  <2>2. onBest \subseteq 0..(n - 1)
    BY <2>1 DEF NodeInv
  <2>3. n + 1 <= MaxBlocks
    BY <1>2, <1>4, BoundsAre
  <2> QED BY <1>2, <1>6, <1>7, <2>1, <2>2, <2>3
<1>13. NodeInv'
  BY <1>2, <1>10, <1>11, <1>12 DEF NodeInv
<1>14. DOMAIN txIndex \subseteq DOMAIN txIndex'
  BY <1>2
<1> QED BY <1>9, <1>13, <1>14

\* A reorganisation only marks blocks.
LEMMA ReorgInv ==
  ASSUME NodeInv, NEW h \in Heights, Orphan(h) \/ Restore(h)
  PROVE  NodeInv' /\ UNCHANGED <<blocks, txIndex>>
<1>1. UNCHANGED <<blocks, txIndex>> /\ reorgs < MaxReorgs /\ reorgs' = reorgs + 1
  BY DEF Orphan, Restore
<1>2. onBest' \subseteq onBest \cup {h}
  BY DEF Orphan, Restore
<1>3. Heights' = Heights
  BY <1>1 DEF Heights
<1>4. reorgs' \in Nat /\ reorgs' <= MaxReorgs
  BY <1>1, BoundsAre DEF NodeInv
<1>5. onBest' \subseteq Heights'
  BY <1>2, <1>3 DEF NodeInv
<1> QED BY <1>1, <1>4, <1>5 DEF NodeInv

\* The node's steps leave what the wallet has read and holds true.
LEMMA NodeStepInv ==
  ASSUME Inv, NodeStep
  PROVE  Inv'
<1>1. NodeInv' /\ Continues(blocks, blocks') /\ DOMAIN txIndex \subseteq DOMAIN txIndex'
  <2>1. ASSUME NEW batch \in Batches, NEW commit \in BOOLEAN, SealBlock(batch, commit)
        PROVE  NodeInv' /\ Continues(blocks, blocks') /\ DOMAIN txIndex \subseteq DOMAIN txIndex'
    BY <2>1, SealInv DEF Inv
  <2>2. ASSUME NEW h \in Heights, Orphan(h) \/ Restore(h)
        PROVE  NodeInv' /\ Continues(blocks, blocks') /\ DOMAIN txIndex \subseteq DOMAIN txIndex'
    <3>1. NodeInv' /\ UNCHANGED <<blocks, txIndex>>
      BY <2>2, ReorgInv DEF Inv
    <3>2. Continues(blocks, blocks')
      BY <3>1 DEF Continues
    <3> QED BY <3>1, <3>2
  <2> QED BY <2>1, <2>2 DEF NodeStep
<1>2. UNCHANGED <<bundle, pc, draft, read>>
  BY DEF NodeStep, walletVars
<1>3. Heights \subseteq Heights'
  BY <1>1 DEF Heights, Continues
<1>4. /\ pc \in {"locate", "path", "header"} =>
           TXID(Coin) \in DOMAIN txIndex' /\ HalfRead(blocks', read.l1, read.root)
      /\ pc \in {"path", "header"} => read.height \in Heights'
      /\ pc = "header" => WholeRead(blocks', read.height, read.l1, read.l2)
      /\ bundle # NoBundle => IsBundle(blocks', bundle)
  BY <1>1, <1>3, ReadsLast DEF Inv, WalletInv
<1>5. WalletInv'
  BY <1>2, <1>4 DEF Inv, WalletInv
<1> QED BY <1>1, <1>5 DEF Inv

-----------------------------------------------------------------------------
(***************************************************************************)
(* The calls                                                               *)
(***************************************************************************)

\* The heart of a torn read: a subtree root read of one block and found in
\* another is of the same list of txids (RootBindsShapes), in which the coin
\* has the same place and so the same path.
LEMMA SameSubtree ==
  ASSUME NEW bs, IsChain(bs), NEW l1, NEW root, HalfRead(bs, l1, root),
         NEW h \in 0..(Len(bs) - 1), NEW i \in DOMAIN bs[h + 1].subtrees,
         SubtreeRoots(bs[h + 1])[i] = root
  PROVE  WholeRead(bs, h, l1, MerklePath(BlockLayers(bs[h + 1]), i - 1))
<1>g. PICK g \in 0..(Len(bs) - 1) : \E p \in PlacesOf(bs[g + 1], TXID(Coin)) :
        /\ l1 = MerklePath(SubtreeTree(bs[g + 1], p.subtree), p.leaf)
        /\ root = SubtreeRoots(bs[g + 1])[p.subtree + 1]
  BY DEF HalfRead
<1>1. PICK p :
        /\ p \in PlacesOf(bs[g + 1], TXID(Coin))
        /\ l1 = MerklePath(SubtreeTree(bs[g + 1], p.subtree), p.leaf)
        /\ root = SubtreeRoots(bs[g + 1])[p.subtree + 1]
  BY <1>g
<1>2. PICK a, b, id : a = bs[g + 1] /\ b = bs[h + 1] /\ id = TXID(Coin)
  OBVIOUS
<1>3. PICK m : IsBlock(a, g, m)
  BY <1>2 DEF IsChain
<1>4. PICK n : IsBlock(b, h, n)
  BY <1>2 DEF IsChain
<1>5. PICK s \in 1..m : \E k \in 1..Len(a.subtrees[s]) :
        /\ p = [height |-> g, subtree |-> s - 1, leaf |-> k - 1]
        /\ a.subtrees[s][k] = id
  <2>1. p \in PlacesOf(a, id)
    BY <1>1, <1>2
  <2> QED BY <1>3, <2>1, PlacesAre
<1>6. PICK k \in 1..Len(a.subtrees[s]) :
        /\ p = [height |-> g, subtree |-> s - 1, leaf |-> k - 1]
        /\ a.subtrees[s][k] = id
  BY <1>5
<1>7. m \in Nat /\ DOMAIN a.subtrees = 1..m /\ n \in Nat /\ DOMAIN b.subtrees = 1..n /\ i \in 1..n
  BY <1>2, <1>3, <1>4 DEF IsBlock
<1>8. p.subtree + 1 = s /\ p.leaf = k - 1
  BY <1>6, <1>7
<1>9. PICK A, B : A = a.subtrees[s] /\ B = b.subtrees[i]
  OBVIOUS
<1>10. IsSubtree(A) /\ IsSubtree(B)
  BY <1>3, <1>4, <1>7, <1>9 DEF IsBlock
<1>11. MerkleRoot(A) = MerkleRoot(B)
  <2>1. SubtreeRoots(a)[s] = MerkleRoot(A)
    BY <1>7, <1>9 DEF SubtreeRoots
  <2>2. SubtreeRoots(b)[i] = MerkleRoot(B)
    BY <1>7, <1>9 DEF SubtreeRoots
  <2> QED BY <1>1, <1>2, <1>8, <2>1, <2>2
<1>12. PICK x \in Nat \ {0} : x = Len(A)
  BY <1>10, SubtreeLen
<1>13. PICK y \in Nat \ {0} : y = Len(B)
  BY <1>10, SubtreeLen
<1>14. x = y /\ SameUpTo(A, B, x)
  <2>1. \A e \in 1..x : TxidLike(A[e])
    BY <1>10, <1>12 DEF IsSubtree
  <2>2. \A e \in 1..y : TxidLike(B[e])
    BY <1>10, <1>13 DEF IsSubtree
  <2>3. Distinct(A, x) /\ Distinct(B, y)
    BY <1>10, <1>12, <1>13 DEF IsSubtree
  <2> QED BY <1>11, <1>12, <1>13, <2>1, <2>2, <2>3, RootBindsShapes
<1>15. PICK q : q = [height |-> h, subtree |-> i - 1, leaf |-> k - 1]
  OBVIOUS
<1>16. q \in PlacesOf(b, id)
  <2>1. k \in 1..Len(B) /\ B[k] = id
    BY <1>6, <1>9, <1>12, <1>13, <1>14 DEF SameUpTo
  <2> QED BY <1>4, <1>7, <1>9, <1>15, <2>1, PlacesAre
<1>17. q.subtree = i - 1 /\ q.leaf = k - 1 /\ q.subtree + 1 = i
  BY <1>7, <1>15
<1>18. l1 = MerklePath(SubtreeTree(b, q.subtree), q.leaf)
  <2>1. l1 = MerklePath(BuildMerkleTree(A), k - 1)
    BY <1>1, <1>2, <1>8, <1>9 DEF SubtreeTree
  <2>2. SubtreeTree(b, q.subtree) = BuildMerkleTree(B)
    BY <1>9, <1>17 DEF SubtreeTree
  <2>3. A = B
    <3>1. A = [e \in 1..x |-> A[e]] /\ B = [e \in 1..x |-> B[e]]
      BY <1>10, <1>12, <1>13, <1>14 DEF IsSubtree
    <3> QED BY <1>14, <3>1 DEF SameUpTo
  <2> QED BY <1>17, <2>1, <2>2, <2>3
<1> QED BY <1>2, <1>15, <1>16, <1>17, <1>18 DEF WholeRead

\* Build begins with the field the wallet reveals.
LEMMA CallBuildInv ==
  ASSUME Inv, NEW reveal \in 0..(Len(FieldsOf[Coin]) - 1), CallBuild(reveal)
  PROVE  Inv'
<1>1. PICK f : f = reveal + 1
  OBVIOUS
<1>2. f \in DOMAIN FieldsOf[Coin] /\ reveal = f - 1
  <2>1. PICK n \in Nat \ {0} : DOMAIN FieldsOf[Coin] = 1..n /\ Len(FieldsOf[Coin]) = n
    BY CoinAssumption, FieldsAre
  <2> QED BY <1>1, <2>1
<1>3. /\ pc = "idle" /\ bundle = NoBundle /\ pc' = "subtree"
      /\ draft' = [txid |-> TXID(Coin), field |-> FieldsOf[Coin][f],
                   l0 |-> MTxIDPath(FieldsOf[Coin], reveal),
                   l1 |-> << >>, l2 |-> << >>, header |-> NoHeader, anchor |-> NoAnchor]
      /\ UNCHANGED <<nodeVars, bundle, read>>
  BY <1>1 DEF CallBuild
<1>4. IsDraft(draft')
  <2>1. DOMAIN draft' = BundleFields
    BY <1>3 DEF BundleFields
  <2>2. /\ draft'.txid = TXID(Coin) /\ draft'.field = FieldsOf[Coin][f]
        /\ draft'.l0 = MTxIDPath(FieldsOf[Coin], f - 1)
    BY <1>2, <1>3
  <2> QED BY <1>2, <2>1, <2>2 DEF IsDraft
<1>5. NodeInv'
  BY <1>3 DEF Inv, NodeInv, nodeVars, Heights
<1>6. WalletInv'
  BY <1>3, <1>4 DEF Inv, WalletInv
<1> QED BY <1>5, <1>6 DEF Inv

\* Reanchor begins with the bundle held.
LEMMA CallReanchorInv ==
  ASSUME Inv, CallReanchor
  PROVE  Inv'
<1>1. /\ pc = "idle" /\ bundle # NoBundle /\ pc' = "subtree" /\ draft' = bundle
      /\ UNCHANGED <<nodeVars, bundle, read>>
  BY DEF CallReanchor
<1>2. IsDraft(draft')
  BY <1>1 DEF Inv, WalletInv, IsBundle
<1>3. NodeInv'
  BY <1>1 DEF Inv, NodeInv, nodeVars, Heights
<1>4. WalletInv'
  BY <1>1, <1>2 DEF Inv, WalletInv, nodeVars
<1> QED BY <1>3, <1>4 DEF Inv

\* A call that fails leaves the bundle as it was.
LEMMA FailInv ==
  ASSUME Inv, Fail
  PROVE  Inv'
<1>1. pc' = "idle" /\ draft' = NoBundle /\ read' = Nothing /\ UNCHANGED <<nodeVars, bundle>>
  BY DEF Fail
<1>2. NodeInv'
  BY <1>1 DEF Inv, NodeInv, nodeVars, Heights
<1>3. DOMAIN read' = {"l1", "root", "height", "l2"}
  BY <1>1 DEF Nothing
<1>4. WalletInv'
  BY <1>1, <1>3 DEF Inv, WalletInv, nodeVars
<1> QED BY <1>2, <1>4 DEF Inv

\* The index entry of the coin: a place of it in a block.
LEMMA CoinIndexed ==
  ASSUME NodeInv, NEW id, id = TXID(Coin), id \in DOMAIN txIndex
  PROVE  /\ HalfRead(blocks, SubtreePathFor(id).path, SubtreePathFor(id).root)
         /\ LocateTx(id) \in Heights
<1>1. PICK p : p = txIndex[id]
  OBVIOUS
<1>2. p.height \in 0..(Len(blocks) - 1) /\ p \in PlacesOf(blocks[p.height + 1], id)
  BY <1>1 DEF NodeInv, IsIndex
<1>3. /\ SubtreePathFor(id).path = MerklePath(SubtreeTree(blocks[p.height + 1], p.subtree), p.leaf)
      /\ SubtreePathFor(id).root = SubtreeRoots(blocks[p.height + 1])[p.subtree + 1]
  BY <1>1 DEF SubtreePathFor, Block
<1>4. HalfRead(blocks, SubtreePathFor(id).path, SubtreePathFor(id).root)
  BY <1>2, <1>3 DEF HalfRead
<1> QED BY <1>1, <1>2, <1>4 DEF LocateTx, Heights

\* The first read: the L1 path and the subtree root of one place.
LEMMA ReadSubtreePathInv ==
  ASSUME Inv, ReadSubtreePath
  PROVE  Inv'
<1>1. CASE ~Known(draft.txid)
  BY <1>1, FailInv DEF ReadSubtreePath
<1>2. CASE Known(draft.txid)
  <2>1. PICK id, l1, root : /\ id = draft.txid
                            /\ l1 = SubtreePathFor(id).path /\ root = SubtreePathFor(id).root
    OBVIOUS
  <2>2. /\ pc = "subtree" /\ pc' = "locate"
        /\ read' = [read EXCEPT !.l1 = l1, !.root = root]
        /\ UNCHANGED <<nodeVars, bundle, draft>>
    BY <1>2, <2>1 DEF ReadSubtreePath
  <2>3. id = TXID(Coin) /\ id \in DOMAIN txIndex
    BY <1>2, <2>1, <2>2 DEF Inv, WalletInv, IsDraft, Known
  <2>4. HalfRead(blocks, l1, root)
    BY <2>1, <2>3, CoinIndexed DEF Inv
  <2>5. DOMAIN read' = {"l1", "root", "height", "l2"} /\ read'.l1 = l1 /\ read'.root = root
    BY <2>2 DEF Inv, WalletInv
  <2>6. NodeInv'
    BY <2>2 DEF Inv, NodeInv, nodeVars, Heights
  <2>7. WalletInv'
    BY <2>2, <2>3, <2>4, <2>5 DEF Inv, WalletInv, nodeVars
  <2> QED BY <2>6, <2>7 DEF Inv
<1> QED BY <1>1, <1>2

\* The second read: the block in which the coin is found now.
LEMMA ReadLocationInv ==
  ASSUME Inv, ReadLocation
  PROVE  Inv'
<1>1. PICK id, h : id = draft.txid /\ h = LocateTx(id)
  OBVIOUS
<1>2. /\ pc = "locate" /\ pc' = "path" /\ read' = [read EXCEPT !.height = h]
      /\ UNCHANGED <<nodeVars, bundle, draft>>
  BY <1>1 DEF ReadLocation
<1>3. id = TXID(Coin) /\ id \in DOMAIN txIndex
  BY <1>1, <1>2 DEF Inv, WalletInv, IsDraft
<1>4. h \in Heights
  BY <1>1, <1>3, CoinIndexed DEF Inv
<1>5. /\ DOMAIN read' = {"l1", "root", "height", "l2"} /\ read'.height = h
      /\ read'.l1 = read.l1 /\ read'.root = read.root
  BY <1>2 DEF Inv, WalletInv
<1>6. NodeInv'
  BY <1>2 DEF Inv, NodeInv, nodeVars, Heights
<1>7. WalletInv'
  BY <1>2, <1>3, <1>4, <1>5 DEF Inv, WalletInv, nodeVars, Heights
<1> QED BY <1>6, <1>7 DEF Inv

\* The third read: the root of the first, looked up in the block of the second.
LEMMA ReadBlockPathInv ==
  ASSUME Inv, ReadBlockPath
  PROVE  Inv'
<1>1. CASE ~HasSubtree(read.root, read.height)
  BY <1>1, FailInv DEF ReadBlockPath
<1>2. CASE HasSubtree(read.root, read.height)
  <2>1. PICK root, h, l1, l2 : /\ root = read.root /\ h = read.height /\ l1 = read.l1
                               /\ l2 = BlockPathFor(root, h)
    OBVIOUS
  <2>2. /\ pc = "path" /\ pc' = "header" /\ read' = [read EXCEPT !.l2 = l2]
        /\ UNCHANGED <<nodeVars, bundle, draft>>
    BY <1>2, <2>1 DEF ReadBlockPath
  <2>3. HalfRead(blocks, l1, root) /\ h \in 0..(Len(blocks) - 1) /\ IsChain(blocks)
    BY <2>1, <2>2 DEF Inv, WalletInv, NodeInv, Heights
  <2>4. PICK m : IsBlock(blocks[h + 1], h, m)
    BY <2>3 DEF IsChain
  <2>5. PICK found : found = SubtreesWithRoot(root, h)
    OBVIOUS
  <2>6. found # {} /\ \A i \in found : /\ i \in DOMAIN blocks[h + 1].subtrees
                                       /\ SubtreeRoots(blocks[h + 1])[i] = root
    BY <1>2, <2>1, <2>5 DEF HasSubtree, SubtreesWithRoot, Block
  <2>7. found \in SUBSET Nat
    BY <2>4, <2>6 DEF IsBlock
  <2>8. PICK first : first = CHOOSE i \in found : \A j \in found : i <= j
    OBVIOUS
  <2>9. first \in found
    BY <2>6, <2>7, <2>8, LeastNat
  <2>10. l2 = MerklePath(BlockLayers(blocks[h + 1]), first - 1)
    BY <2>1, <2>5, <2>8 DEF BlockPathFor, Block
  <2>11. WholeRead(blocks, h, l1, l2)
    BY <2>3, <2>6, <2>9, <2>10, SameSubtree
  <2>12. /\ DOMAIN read' = {"l1", "root", "height", "l2"} /\ read'.height = h
         /\ read'.l1 = l1 /\ read'.root = root /\ read'.l2 = l2
    BY <2>1, <2>2 DEF Inv, WalletInv
  <2>13. NodeInv'
    BY <2>2 DEF Inv, NodeInv, nodeVars, Heights
  <2>14. WalletInv'
    BY <2>1, <2>2, <2>3, <2>11, <2>12 DEF Inv, WalletInv, nodeVars, Heights
  <2> QED BY <2>13, <2>14 DEF Inv
<1> QED BY <1>1, <1>2

\* The last read: the header of the block both paths are of.
LEMMA ReadHeaderInv ==
  ASSUME Inv, ReadHeader
  PROVE  Inv'
<1>1. PICK h, l1, l2, hdr : /\ h = read.height /\ l1 = read.l1 /\ l2 = read.l2
                            /\ hdr = HeaderFor(h)
  OBVIOUS
<1>2. /\ pc = "header" /\ pc' = "idle" /\ draft' = NoBundle /\ read' = Nothing
      /\ bundle' = [draft EXCEPT !.l1 = l1, !.l2 = l2, !.header = hdr]
      /\ UNCHANGED nodeVars
  BY <1>1 DEF ReadHeader
<1>3. IsDraft(draft) /\ WholeRead(blocks, h, l1, l2)
  BY <1>1, <1>2 DEF Inv, WalletInv
<1>4. /\ DOMAIN bundle' = BundleFields /\ bundle'.txid = draft.txid /\ bundle'.field = draft.field
      /\ bundle'.l0 = draft.l0 /\ bundle'.l1 = l1 /\ bundle'.l2 = l2 /\ bundle'.header = hdr
  BY <1>2, <1>3 DEF IsDraft, BundleFields
<1>5. IsDraft(bundle')
  BY <1>3, <1>4 DEF IsDraft
<1>6. hdr = blocks[h + 1].header
  BY <1>1 DEF HeaderFor, Block
<1>7. IsBundle(blocks, bundle')
  BY <1>3, <1>4, <1>5, <1>6 DEF IsBundle
<1>8. DOMAIN read' = {"l1", "root", "height", "l2"}
  BY <1>2 DEF Nothing
<1>9. NodeInv'
  BY <1>2 DEF Inv, NodeInv, nodeVars, Heights
<1>10. WalletInv'
  BY <1>2, <1>7, <1>8 DEF Inv, WalletInv, nodeVars
<1> QED BY <1>9, <1>10 DEF Inv

\* An anchor changes nothing else of the bundle.
LEMMA AttachAnchorInv ==
  ASSUME Inv, NEW carrier \in Heights, AttachAnchor(carrier)
  PROVE  Inv'
<1>1. PICK anchor : anchor = AnchorFrom(LocateTx(bundle.txid), carrier)
  OBVIOUS
<1>2. /\ pc = "idle" /\ bundle # NoBundle /\ bundle' = [bundle EXCEPT !.anchor = anchor]
      /\ UNCHANGED <<nodeVars, pc, draft, read>>
  BY <1>1 DEF AttachAnchor
<1>3. IsBundle(blocks, bundle)
  BY <1>2 DEF Inv, WalletInv
<1>4. /\ DOMAIN bundle' = BundleFields /\ bundle'.txid = bundle.txid /\ bundle'.field = bundle.field
      /\ bundle'.l0 = bundle.l0 /\ bundle'.l1 = bundle.l1 /\ bundle'.l2 = bundle.l2
      /\ bundle'.header = bundle.header
  BY <1>2, <1>3 DEF IsBundle, IsDraft, BundleFields
<1>5. IsBundle(blocks, bundle')
  BY <1>3, <1>4 DEF IsBundle, IsDraft
<1>6. NodeInv'
  BY <1>2 DEF Inv, NodeInv, nodeVars, Heights
<1>7. WalletInv'
  BY <1>2, <1>5 DEF Inv, WalletInv, nodeVars
<1> QED BY <1>6, <1>7 DEF Inv

\* Every step of the node and of the wallet.
LEMMA NextInv == Inv /\ [Next]_vars => Inv'
<1> SUFFICES ASSUME Inv, [Next]_vars PROVE Inv'
  OBVIOUS
<1>1. CASE NodeStep
  BY <1>1, NodeStepInv
<1>2. CASE \E reveal \in 0..(Len(FieldsOf[Coin]) - 1) : CallBuild(reveal)
  BY <1>2, CallBuildInv
<1>3. CASE CallReanchor
  BY <1>3, CallReanchorInv
<1>4. CASE FetchStep
  BY <1>4, ReadSubtreePathInv, ReadLocationInv, ReadBlockPathInv, ReadHeaderInv DEF FetchStep
<1>5. CASE \E carrier \in Heights : AttachAnchor(carrier)
  BY <1>5, AttachAnchorInv
<1>6. CASE UNCHANGED vars
  BY <1>6 DEF Inv, NodeInv, WalletInv, vars, nodeVars, walletVars, Heights
<1> QED BY <1>1, <1>2, <1>3, <1>4, <1>5, <1>6 DEF Next

-----------------------------------------------------------------------------
(***************************************************************************)
(* What the invariant says of the bundle held                              *)
(***************************************************************************)

\* The two paths of any place: they fold to the root in the header, and are no
\* deeper than a subtree and a slice allow.
LEMMA PlaceFolds ==
  ASSUME NEW b, NEW h, NEW m, IsBlock(b, h, m), NEW s \in 1..m, NEW k \in 1..Len(b.subtrees[s]),
         NEW l1, l1 = MerklePath(SubtreeTree(b, s - 1), k - 1),
         NEW l2, l2 = MerklePath(BlockLayers(b), s - 1)
  PROVE  /\ Fold(Fold(b.subtrees[s][k], l1), l2) = b.header.root
         /\ Len(l1) \in Nat /\ Len(l1) <= 20 /\ Len(l2) \in Nat /\ Len(l2) <= 63
         /\ b.subtrees[s][k] \in TxidsIn(b)
<1>5. PICK id : id = b.subtrees[s][k]
  OBVIOUS
<1>6. /\ m \in Nat \ {0} /\ CeilLog2(m) <= 63 /\ DOMAIN b.subtrees = 1..m
      /\ IsSubtree(b.subtrees[s]) /\ b.header.root = MerkleRoot(SubtreeRoots(b))
  BY DEF IsBlock
<1>7. (s - 1) + 1 = s
  BY <1>6
<1>8. PICK A, roots : A = b.subtrees[s] /\ roots = SubtreeRoots(b)
  OBVIOUS
<1>9. l1 = MerklePath(BuildMerkleTree(A), k - 1) /\ l2 = MerklePath(BuildMerkleTree(roots), s - 1)
  BY <1>7, <1>8 DEF SubtreeTree, BlockLayers
<1>10. PICK n \in Nat \ {0} : n = Len(A) /\ n <= SubtreeSize /\ k \in 1..n /\ A[k] = id
  BY <1>5, <1>6, <1>8, SubtreeLen
<1>11. Len(l1) = CeilLog2(n) /\ Fold(id, l1) = MerkleRoot(A)
  <2>1. PICK index \in 0..(n - 1) : index = k - 1 /\ index + 1 = k
    <3>1. k - 1 \in 0..(n - 1) /\ (k - 1) + 1 = k
      BY <1>10
    <3> QED BY <3>1
  <2>2. Len(A) \in Nat \ {0} /\ index \in 0..(Len(A) - 1)
    BY <1>10, <2>1
  <2> QED BY <1>9, <1>10, <2>1, <2>2, EveryLeafProvable
<1>12. roots = [i \in 1..m |-> roots[i]] /\ roots[s] = MerkleRoot(A)
  BY <1>6, <1>8 DEF SubtreeRoots
<1>13. Len(roots) = m
  BY <1>6, <1>12, FunctionsAreSeqs
<1>14. Len(l2) = CeilLog2(m) /\ Fold(roots[s], l2) = MerkleRoot(roots)
  <2>1. PICK index \in 0..(m - 1) : index = s - 1 /\ index + 1 = s
    <3>1. s - 1 \in 0..(m - 1) /\ (s - 1) + 1 = s
      BY <1>6
    <3> QED BY <3>1
  <2>2. Len(roots) \in Nat \ {0} /\ index \in 0..(Len(roots) - 1)
    BY <1>6, <1>13, <2>1
  <2> QED BY <1>9, <1>13, <2>1, <2>2, EveryLeafProvable
<1>15. Len(l1) \in Nat /\ Len(l1) <= 20
  <2>1. SubtreeSize \in Nat \ {0} /\ CeilLog2(SubtreeSize) <= 20
    BY SizeIs
  <2>2. CeilLog2(n) <= CeilLog2(SubtreeSize)
    BY <1>10, <2>1, DepthGrows
  <2>3. CeilLog2(n) \in Nat /\ CeilLog2(SubtreeSize) \in Nat
    BY <2>1, DepthIsNat
  <2>4. PICK c \in Nat, d \in Nat : c = CeilLog2(n) /\ d = CeilLog2(SubtreeSize)
    BY <2>3
  <2>5. c \in Nat /\ c <= 20
    <3>1. c <= d /\ d <= 20
      BY <2>1, <2>2, <2>4
    <3> QED BY <3>1
  <2> QED BY <1>11, <2>4, <2>5
<1>16. Len(l2) \in Nat /\ Len(l2) <= 63
  <2>1. CeilLog2(m) \in Nat
    BY <1>6, DepthIsNat
  <2>2. PICK c \in Nat : c = CeilLog2(m)
    BY <2>1
  <2>3. c \in Nat /\ c <= 63
    <3>1. c <= 63
      BY <1>6, <2>2
    <3> QED BY <3>1
  <2> QED BY <1>14, <2>2, <2>3
<1>17. id \in TxidsIn(b)
  <2>1. k \in DOMAIN A
    <3>1. A = [i \in 1..Len(A) |-> A[i]]
      BY <1>6, <1>8 DEF IsSubtree
    <3> QED BY <1>10, <3>1
  <2>2. id \in Range(b.subtrees[s])
    BY <1>8, <1>10, <2>1 DEF Range
  <2> QED BY <1>6, <2>2 DEF TxidsIn
<1> QED BY <1>5, <1>6, <1>8, <1>10, <1>11, <1>12, <1>14, <1>15, <1>16, <1>17

\* The two paths of a place of the coin.
LEMMA WholeReadFolds ==
  ASSUME NEW bs, IsChain(bs), NEW h, NEW l1, NEW l2, WholeRead(bs, h, l1, l2)
  PROVE  /\ Fold(Fold(TXID(Coin), l1), l2) = bs[h + 1].header.root
         /\ Len(l1) \in Nat /\ Len(l1) <= 20 /\ Len(l2) \in Nat /\ Len(l2) <= 63
         /\ TXID(Coin) \in TxidsIn(bs[h + 1])
<1>1. PICK p : /\ p \in PlacesOf(bs[h + 1], TXID(Coin))
               /\ l1 = MerklePath(SubtreeTree(bs[h + 1], p.subtree), p.leaf)
               /\ l2 = MerklePath(BlockLayers(bs[h + 1]), p.subtree)
  BY DEF WholeRead
<1>2. PICK b, id : b = bs[h + 1] /\ id = TXID(Coin)
  OBVIOUS
<1>3. PICK m : IsBlock(b, h, m)
  BY <1>2 DEF IsChain, WholeRead
<1>4. PICK s \in 1..m : \E k \in 1..Len(b.subtrees[s]) :
        /\ p = [height |-> h, subtree |-> s - 1, leaf |-> k - 1]
        /\ b.subtrees[s][k] = id
  <2>1. p \in PlacesOf(b, id)
    BY <1>1, <1>2
  <2> QED BY <1>3, <2>1, PlacesAre
<1>5. PICK k \in 1..Len(b.subtrees[s]) :
        /\ p = [height |-> h, subtree |-> s - 1, leaf |-> k - 1]
        /\ b.subtrees[s][k] = id
  BY <1>4
<1>6. l1 = MerklePath(SubtreeTree(b, s - 1), k - 1) /\ l2 = MerklePath(BlockLayers(b), s - 1)
  BY <1>1, <1>2, <1>5
<1>7. /\ Fold(Fold(b.subtrees[s][k], l1), l2) = b.header.root
      /\ Len(l1) \in Nat /\ Len(l1) <= 20 /\ Len(l2) \in Nat /\ Len(l2) <= 63
      /\ b.subtrees[s][k] \in TxidsIn(b)
  BY <1>3, <1>6, PlaceFolds
<1> QED BY <1>2, <1>5, <1>7

\* The L0 of any field.
LEMMA FieldFolds ==
  ASSUME NEW fields, NEW n \in Nat \ {0}, n <= 256, DOMAIN fields = 1..n, NEW f \in 1..n,
         NEW l0, l0 = MTxIDPath(fields, f - 1)
  PROVE  Fold(LeafForField(fields[f]), l0) = BuildMTxID(fields) /\ Len(l0) \in Nat /\ Len(l0) <= 8
<1>4. PICK lvs : lvs = [i \in DOMAIN fields |-> LeafForField(fields[i])]
  OBVIOUS
<1>5. lvs = [i \in 1..n |-> lvs[i]] /\ \A i \in 1..n : lvs[i] = LeafForField(fields[i])
  BY <1>4
<1>6. Len(lvs) = n
  <2>1. n \in Nat
    OBVIOUS
  <2> QED BY <1>5, <2>1, FunctionsAreSeqs
<1>7. BuildMTxID(fields) = MerkleRoot(lvs) /\ l0 = MerklePath(BuildMerkleTree(lvs), f - 1)
  BY <1>4 DEF BuildMTxID, FieldLayers, MerkleRoot, MTxIDPath
<1>9. PICK index \in 0..(n - 1) : index = f - 1 /\ index + 1 = f
  <2>1. f - 1 \in 0..(n - 1) /\ (f - 1) + 1 = f
    OBVIOUS
  <2> QED BY <2>1
<1>10. Len(l0) = CeilLog2(n) /\ Fold(lvs[f], l0) = MerkleRoot(lvs)
  <2>1. Len(lvs) \in Nat \ {0} /\ index \in 0..(Len(lvs) - 1)
    BY <1>6, <1>9
  <2> QED BY <1>6, <1>7, <1>9, <2>1, EveryLeafProvable
<1>11. CeilLog2(n) \in Nat /\ CeilLog2(n) <= 8
  <2>1. n \in Nat \ {0}
    OBVIOUS
  <2>2. CeilLog2(n) \in Nat
    BY <2>1, DepthIsNat
  <2>3. CeilLog2(n) <= 8
    BY ShortTree
  <2> QED BY <2>2, <2>3
<1> QED BY <1>5, <1>7, <1>10, <1>11

\* The L0 of any field of the coin.
LEMMA DraftFolds ==
  ASSUME NEW b, IsDraft(b)
  PROVE  Fold(LeafForField(b.field), b.l0) = TXID(Coin) /\ Len(b.l0) \in Nat /\ Len(b.l0) <= 8
<1>1. PICK f \in DOMAIN FieldsOf[Coin] :
        b.field = FieldsOf[Coin][f] /\ b.l0 = MTxIDPath(FieldsOf[Coin], f - 1)
  BY DEF IsDraft
<1>2. PICK fields : fields = FieldsOf[Coin]
  OBVIOUS
<1>3. PICK n \in Nat \ {0} : n <= 256 /\ DOMAIN fields = 1..n
  BY <1>2, CoinAssumption, FieldsAre
<1>4. Fold(LeafForField(fields[f]), b.l0) = BuildMTxID(fields) /\ Len(b.l0) \in Nat /\ Len(b.l0) <= 8
  BY <1>1, <1>2, <1>3, FieldFolds
<1> QED BY <1>1, <1>2, <1>4 DEF TXID

\* Both paths and the header are of one block that has the coin.
LEMMA InvFetchFailsSafe == Inv => FetchFailsSafe
<1> SUFFICES ASSUME Inv, bundle # NoBundle
             PROVE  \E h \in BlocksWith(Coin) :
                      /\ bundle.header = HeaderFor(h)
                      /\ <<bundle.l1, bundle.l2>> \in PathsIn(bundle.txid, h)
  BY DEF FetchFailsSafe
<1>1. IsChain(blocks) /\ IsDraft(bundle)
  BY DEF Inv, NodeInv, WalletInv, IsBundle
<1>2. PICK h : WholeRead(blocks, h, bundle.l1, bundle.l2) /\ bundle.header = blocks[h + 1].header
  BY DEF Inv, WalletInv, IsBundle
<1>3. h \in Heights /\ bundle.header = HeaderFor(h)
  BY <1>2 DEF WholeRead, Heights, HeaderFor, Block
<1>4. h \in BlocksWith(Coin)
  <2>1. TXID(Coin) \in TxidsIn(blocks[h + 1])
    BY <1>1, <1>2, WholeReadFolds
  <2> QED BY <1>3, <2>1 DEF BlocksWith, Block
<1>5. <<bundle.l1, bundle.l2>> \in PathsIn(bundle.txid, h)
  <2>1. bundle.txid = TXID(Coin)
    BY <1>1 DEF IsDraft
  <2>2. PICK p \in PlacesOf(blocks[h + 1], TXID(Coin)) :
          /\ bundle.l1 = MerklePath(SubtreeTree(blocks[h + 1], p.subtree), p.leaf)
          /\ bundle.l2 = MerklePath(BlockLayers(blocks[h + 1]), p.subtree)
    BY <1>2 DEF WholeRead
  <2> QED BY <2>1, <2>2 DEF PathsIn, Block
<1> QED BY <1>3, <1>4, <1>5

\* Every step of Verify before the chain check succeeds, so that check alone
\* decides.
LEMMA ChainCheckDecides ==
  ASSUME Inv, bundle # NoBundle, NEW view
  PROVE  Verdict(bundle, view) =
           IF ViewContains(view, bundle.header) \/ Anchored(bundle, view) THEN "" ELSE "L3/L4-chain"
<1>1. IsChain(blocks) /\ IsDraft(bundle)
  BY DEF Inv, NodeInv, WalletInv, IsBundle
<1>2. PICK h : WholeRead(blocks, h, bundle.l1, bundle.l2) /\ bundle.header = blocks[h + 1].header
  BY DEF Inv, WalletInv, IsBundle
<1>3. /\ Fold(LeafForField(bundle.field), bundle.l0) = bundle.txid /\ Len(bundle.l0) \in Nat /\ Len(bundle.l0) <= 8
      /\ BlockRootOf(bundle) = HeaderMerkleRoot(bundle.header)
      /\ Len(bundle.l1) \in Nat /\ Len(bundle.l1) <= 20 /\ Len(bundle.l2) \in Nat /\ Len(bundle.l2) <= 63
  <2>1. bundle.txid = TXID(Coin)
    BY <1>1 DEF IsDraft
  <2> QED BY <1>1, <1>2, <2>1, DraftFolds, WholeReadFolds DEF BlockRootOf, HeaderMerkleRoot
<1>4. ~DepthOverflow(bundle.l0, bundle.l1, bundle.l2)
  BY <1>3, DepthsFit
<1> QED BY <1>3, <1>4 DEF Verdict

\* It is the check that NeedsReanchor repeats.
LEMMA InvMaintenanceAgrees == Inv => MaintenanceAgrees
BY ChainCheckDecides, Zenon DEF MaintenanceAgrees, Verify, NeedsReanchor

\* The type invariant.  NoBundle stands for nil: it has not the fields of a Bundle.
LEMMA InvTypeOK ==
  ASSUME DOMAIN NoBundle # BundleFields
  PROVE  Inv => TypeOK
<1> SUFFICES ASSUME Inv PROVE TypeOK
  OBVIOUS
<1>1. \A txid \in DOMAIN txIndex : txIndex[txid].height \in Heights
  BY DEF Inv, NodeInv, IsIndex, Heights
<1>2. pc = "idle" <=> draft = NoBundle
  BY DEF Inv, WalletInv, IsDraft
<1>3. \A b \in {bundle, draft} \ {NoBundle} : DOMAIN b = BundleFields
  BY DEF Inv, WalletInv, IsBundle, IsDraft
<1> QED BY <1>1, <1>2, <1>3 DEF TypeOK, Inv, NodeInv, WalletInv, BundleFields

-----------------------------------------------------------------------------
(***************************************************************************)
(* Anchors.  A second invariant on top of the first: what a carrying block *)
(* commits, and where the anchor of a bundle comes from.                   *)
(***************************************************************************)

\* What the accumulator commits in a carrying block: the first p headers.
HeaderLeaves(bs, p) == [i \in 1..p |-> DoubleSHA256(bs[i].header)]

\* A block of height h carries the root over all blocks before it, in a
\* generation transaction that is its first.
IsCarrier(bs, b, h) ==
  /\ b.accPrefix = h
  /\ b.genFields = GenFields(MMRRoot(HeaderLeaves(bs, h)))
  /\ b.subtrees[1][1] = BuildMTxID(b.genFields)

CarriersAre(bs) ==
  \A h \in 0..(Len(bs) - 1) : bs[h + 1].isCarrier => IsCarrier(bs, bs[h + 1], h)

\* AnchorFrom, of any chain.
AnchorOver(bs, t, c) ==
  LET b == bs[c + 1]
  IN  [AccRoot |-> b.genFields[2].Bytes,
       AccPath |-> ProveBlock(HeaderLeaves(bs, b.accPrefix), t),
       GenTxFields |-> b.genFields, GenL0 |-> MTxIDPath(b.genFields, 1),
       GenL1 |-> MerklePath(SubtreeTree(b, 0), 0), GenL2 |-> MerklePath(BlockLayers(b), 0),
       CarryingBlockMerkleRoot |-> b.header.root, CarryingHeader |-> b.header]

\* A carrying block at c that commits the block at t.
Carries(bs, t, c) ==
  /\ t \in 0..(Len(bs) - 1) /\ c \in 0..(Len(bs) - 1)
  /\ bs[c + 1].isCarrier /\ t < bs[c + 1].accPrefix

\* The anchor of some block that has the coin.
IsAnchor(bs, a) ==
  \E t, c : /\ Carries(bs, t, c) /\ TXID(Coin) \in TxidsIn(bs[t + 1])
            /\ a = AnchorOver(bs, t, c)
HasAnchor(bs, b) == b.anchor = NoAnchor \/ IsAnchor(bs, b.anchor)

AnchorInv ==
  /\ CarriersAre(blocks)
  /\ bundle # NoBundle => HasAnchor(blocks, bundle) /\ TXID(Coin) \in DOMAIN txIndex
  /\ pc # "idle" => HasAnchor(blocks, draft)

\* AnchorFrom reads the node's chain.
LEMMA AnchorFromIs ==
  ASSUME NEW t, NEW c
  PROVE  AnchorFrom(t, c) = AnchorOver(blocks, t, c)
BY DEF AnchorFrom, AnchorOver, GenTxAccumulator, ProveHeaderInAccumulator, HeaderMerkleRoot,
       HeaderFor, HeaderLeaves, Block, AccRootField

\* The first txid of a carrying block is that of its generation transaction.
LEMMA SealedCarries ==
  ASSUME NEW batch \in Batches, batch # << >>, NEW commit \in BOOLEAN,
         NEW txids, txids = [i \in DOMAIN batch |-> TXID(batch[i])],
         NEW b, b = SealedBlock(txids, commit), NEW h, h = Len(blocks), b.isCarrier
  PROVE  IsCarrier(blocks, b, h)
<1>1. PICK root : root = PrefixRoot(h)
  OBVIOUS
<1>2. commit
  BY DEF SealedBlock
<1>3. PICK g : g = BuildMTxID(GenFields(root))
  OBVIOUS
<1>4. PICK leafSet : leafSet = <<g>> \o txids
  OBVIOUS
<1>n. PICK n \in Nat \ {0} : \E S : leafSet \in Seq(S) /\ n = Len(leafSet)
  <2>1. leafSet = IF commit THEN <<BuildMTxID(GenFields(root))>> \o txids ELSE txids
    BY <1>2, <1>3, <1>4
  <2>2. \E n \in Nat \ {0} : \E S :
           /\ leafSet \in Seq(S) /\ n = Len(leafSet) /\ CeilLog2(n) <= 63
           /\ \A i \in 1..n : TxidLike(leafSet[i])
           /\ Distinct(leafSet, n)
    BY <2>1, LeafSetIs
  <2> QED BY <2>2
<1>5. PICK S : leafSet \in Seq(S) /\ n = Len(leafSet)
  BY <1>n
<1>6. PICK P, m : P = Partition(leafSet, SubtreeSize) /\ m = Len(P)
  OBVIOUS
<1>7. PICK size \in Nat \ {0} : size = SubtreeSize
  BY SizeIs
<1>8. IsCut(P, m, leafSet, n, size, S)
  BY <1>5, <1>6, <1>7, PartitionIs
<1>9. P[1][1] = leafSet[1]
  <2>1. m \in Nat \ {0} /\ Len(P[1]) \in 1..size
    BY <1>8 DEF IsCut
  <2>2. 1 \in 1..m /\ 1 \in 1..Len(P[1])
    BY <2>1
  <2>3. PICK z : z = (1 - 1) * size + 1
    OBVIOUS
  <2>4. P[1][1] = leafSet[z]
    <3>1. \A k \in 1..Len(P[1]) : P[1][k] = leafSet[(1 - 1) * size + k]
      BY <1>8, <2>2 DEF IsCut
    <3> QED BY <2>2, <2>3, <3>1
  <2>5. z = 1
    BY <1>7, <2>3
  <2> QED BY <2>4, <2>5
<1>10. leafSet[1] = g
  <2>1. batch \in Seq(Txs)
    BY BatchIs
  <2>2. PICK k \in Nat : DOMAIN batch = 1..k
    BY <2>1
  <2>3. txids = [i \in 1..k |-> TXID(batch[i])]
    BY <2>2
  <2>4. PICK U : U = {g} \cup {TXID(batch[i]) : i \in 1..k}
    OBVIOUS
  <2>5. txids \in Seq(U) /\ <<g>> \in Seq(U) /\ Len(<<g>>) = 1 /\ <<g>>[1] = g
    <3>1. txids \in [1..k -> U]
      BY <2>3, <2>4
    <3> QED BY <2>4, <3>1
  <2> QED BY <1>4, <2>5
<1>11. /\ b.subtrees = P /\ b.accPrefix = h /\ b.genFields = GenFields(root)
  BY <1>1, <1>2, <1>3, <1>4, <1>6 DEF SealedBlock
<1>12. root = MMRRoot(HeaderLeaves(blocks, h))
  BY <1>1 DEF PrefixRoot, HeaderLeaves
<1> QED BY <1>3, <1>9, <1>10, <1>11, <1>12 DEF IsCarrier

\* The headers of a chain stay where they are in its continuation, so an
\* anchor made of it stays one.
LEMMA AnchorsLast ==
  ASSUME NEW bs, NEW cs, Continues(bs, cs), IsChain(bs)
  PROVE  /\ \A p \in 0..Len(bs) : HeaderLeaves(cs, p) = HeaderLeaves(bs, p)
         /\ CarriersAre(bs) => \A a : IsAnchor(bs, a) => IsAnchor(cs, a)
<1>1. PICK n \in Nat : n = Len(bs)
  BY DEF IsChain
<1>2. \A h \in 0..(n - 1) : h \in 0..(Len(cs) - 1) /\ cs[h + 1] = bs[h + 1]
  BY <1>1 DEF Continues
<1>3. ASSUME NEW p \in 0..n PROVE HeaderLeaves(cs, p) = HeaderLeaves(bs, p)
  <2>1. ASSUME NEW i \in 1..p PROVE cs[i] = bs[i]
    <3>1. i - 1 \in 0..(n - 1) /\ (i - 1) + 1 = i
      BY <1>1
    <3>2. cs[(i - 1) + 1] = bs[(i - 1) + 1]
      BY <1>2, <3>1
    <3> QED BY <3>1, <3>2
  <2> QED BY <2>1 DEF HeaderLeaves
<1>4. ASSUME CarriersAre(bs), NEW a, IsAnchor(bs, a) PROVE IsAnchor(cs, a)
  <2>1. PICK t, c : /\ Carries(bs, t, c) /\ TXID(Coin) \in TxidsIn(bs[t + 1])
                    /\ a = AnchorOver(bs, t, c)
    BY <1>4 DEF IsAnchor
  <2>2. t \in 0..(n - 1) /\ c \in 0..(n - 1)
    BY <1>1, <2>1 DEF Carries
  <2>3. /\ cs[t + 1] = bs[t + 1] /\ cs[c + 1] = bs[c + 1]
        /\ t \in 0..(Len(cs) - 1) /\ c \in 0..(Len(cs) - 1)
    BY <1>2, <2>2
  <2>4. bs[c + 1].accPrefix = c
    BY <1>1, <1>4, <2>1, <2>2 DEF CarriersAre, IsCarrier, Carries
  <2>5. HeaderLeaves(cs, c) = HeaderLeaves(bs, c)
    <3>1. c \in 0..n
      BY <2>2
    <3> QED BY <1>3, <3>1
  <2>6. AnchorOver(cs, t, c) = AnchorOver(bs, t, c)
    BY <2>3, <2>4, <2>5 DEF AnchorOver
  <2>7. Carries(cs, t, c)
    BY <2>1, <2>3 DEF Carries
  <2> QED BY <2>1, <2>3, <2>6, <2>7 DEF IsAnchor
<1> QED BY <1>1, <1>3, <1>4

\* No block, no carrier, no anchor.
LEMMA InitAnchor == Init => AnchorInv
<1> SUFFICES ASSUME Init PROVE AnchorInv
  OBVIOUS
<1>1. Len(blocks) = 0 /\ 0..(0 - 1) = {}
  BY DEF Init, NodeInit
<1> QED BY <1>1 DEF Init, AnchorInv, CarriersAre

\* A block sealed commits the blocks before it and changes no anchor.
LEMMA NodeStepAnchor ==
  ASSUME Inv, AnchorInv, NodeStep
  PROVE  AnchorInv'
<1>1. UNCHANGED <<bundle, pc, draft, read>>
  BY DEF NodeStep, walletVars
<1>2. IsChain(blocks) /\ CarriersAre(blocks)
  BY DEF Inv, NodeInv, AnchorInv
<1>3. Continues(blocks, blocks') /\ DOMAIN txIndex \subseteq DOMAIN txIndex' /\ CarriersAre(blocks')
  <2>1. ASSUME NEW batch \in Batches, NEW commit \in BOOLEAN, SealBlock(batch, commit)
        PROVE  /\ Continues(blocks, blocks') /\ DOMAIN txIndex \subseteq DOMAIN txIndex'
               /\ CarriersAre(blocks')
    <3>1. Continues(blocks, blocks') /\ DOMAIN txIndex \subseteq DOMAIN txIndex'
      BY <2>1, SealInv DEF Inv
    <3>2. PICK txids, b : /\ txids = [i \in DOMAIN batch |-> TXID(batch[i])]
                          /\ b = SealedBlock(txids, commit)
      OBVIOUS
    <3>3. blocks' = Append(blocks, b) /\ batch # << >>
      BY <2>1, <3>2 DEF SealBlock
    <3>4. PICK S : blocks \in Seq(S)
      BY <1>2 DEF IsChain
    <3>5. PICK n \in Nat : n = Len(blocks)
      BY <3>4
    <3>6. Len(blocks') = n + 1 /\ blocks'[n + 1] = b
      BY <3>3, <3>4, <3>5
    <3>7. b.isCarrier => IsCarrier(blocks, b, n)
      BY <2>1, <3>2, <3>3, <3>5, SealedCarries
    <3>8. \A p \in 0..n : HeaderLeaves(blocks', p) = HeaderLeaves(blocks, p)
      BY <1>2, <3>1, <3>5, AnchorsLast
    <3>9. ASSUME NEW h \in 0..n, blocks'[h + 1].isCarrier
          PROVE  IsCarrier(blocks', blocks'[h + 1], h)
      <4>1. CASE h = n
        <5>1. IsCarrier(blocks, b, h)
          BY <3>6, <3>7, <3>9, <4>1
        <5> QED BY <3>6, <3>8, <4>1, <5>1 DEF IsCarrier
      <4>2. CASE h # n
        <5>1. h \in 0..(n - 1)
          BY <4>2
        <5>2. blocks'[h + 1] = blocks[h + 1]
          BY <3>1, <3>5, <5>1 DEF Continues
        <5>3. IsCarrier(blocks, blocks[h + 1], h)
          BY <1>2, <3>5, <3>9, <5>1, <5>2 DEF CarriersAre
        <5> QED BY <3>8, <5>2, <5>3 DEF IsCarrier
      <4> QED BY <4>1, <4>2
    <3>10. (n + 1) - 1 = n
      OBVIOUS
    <3> QED BY <3>1, <3>6, <3>9, <3>10 DEF CarriersAre
  <2>2. ASSUME NEW h \in Heights, Orphan(h) \/ Restore(h)
        PROVE  /\ Continues(blocks, blocks') /\ DOMAIN txIndex \subseteq DOMAIN txIndex'
               /\ CarriersAre(blocks')
    <3>1. UNCHANGED <<blocks, txIndex>>
      BY <2>2, ReorgInv DEF Inv
    <3> QED BY <1>2, <3>1 DEF Continues
  <2> QED BY <2>1, <2>2 DEF NodeStep
<1>4. \A b : HasAnchor(blocks, b) => HasAnchor(blocks', b)
  BY <1>2, <1>3, AnchorsLast DEF HasAnchor
<1> QED BY <1>1, <1>3, <1>4 DEF AnchorInv

\* The place the index has of the coin is in a block that has it.
LEMMA CoinIsThere ==
  ASSUME NodeInv, TXID(Coin) \in DOMAIN txIndex, NEW t, t = LocateTx(TXID(Coin))
  PROVE  t \in 0..(Len(blocks) - 1) /\ TXID(Coin) \in TxidsIn(blocks[t + 1])
<1>1. PICK id, p : id = TXID(Coin) /\ p = txIndex[id]
  OBVIOUS
<1>2. /\ t = p.height /\ t \in 0..(Len(blocks) - 1) /\ p \in PlacesOf(blocks[t + 1], id)
      /\ IsChain(blocks)
  BY <1>1 DEF NodeInv, IsIndex, LocateTx
<1>3. PICK b, m : b = blocks[t + 1] /\ IsBlock(b, t, m)
  BY <1>2 DEF IsChain
<1>4. PICK s \in 1..m : \E k \in 1..Len(b.subtrees[s]) : b.subtrees[s][k] = id
  BY <1>2, <1>3, PlacesAre
<1>5. PICK k \in 1..Len(b.subtrees[s]) : b.subtrees[s][k] = id
  BY <1>4
<1>6. b.subtrees[s][k] \in TxidsIn(b)
  <2>1. PICK l1, l2 : /\ l1 = MerklePath(SubtreeTree(b, s - 1), k - 1)
                      /\ l2 = MerklePath(BlockLayers(b), s - 1)
    OBVIOUS
  <2> QED BY <1>3, <2>1, PlaceFolds
<1> QED BY <1>1, <1>2, <1>3, <1>5, <1>6

\* Only AttachAnchor makes an anchor; the calls keep the one the bundle has.
LEMMA WalletStepAnchor ==
  ASSUME Inv, AnchorInv,
         \/ \E reveal \in 0..(Len(FieldsOf[Coin]) - 1) : CallBuild(reveal)
         \/ CallReanchor \/ FetchStep
         \/ \E carrier \in Heights : AttachAnchor(carrier)
  PROVE  AnchorInv'
<1>1. UNCHANGED <<blocks, txIndex>>
  BY DEF CallBuild, CallReanchor, FetchStep, ReadSubtreePath, ReadLocation, ReadBlockPath,
         ReadHeader, AttachAnchor, Fail, nodeVars
<1>2. CASE \E reveal \in 0..(Len(FieldsOf[Coin]) - 1) : CallBuild(reveal)
  <2>1. bundle' = bundle /\ bundle = NoBundle /\ draft'.anchor = NoAnchor
    BY <1>2 DEF CallBuild
  <2> QED BY <1>1, <2>1 DEF AnchorInv, HasAnchor
<1>3. CASE CallReanchor
  BY <1>1, <1>3 DEF CallReanchor, AnchorInv
<1>4. CASE ReadSubtreePath \/ ReadLocation \/ ReadBlockPath
  <2>1. bundle' = bundle /\ (pc' # "idle" => pc # "idle" /\ draft' = draft)
    BY <1>4 DEF ReadSubtreePath, ReadLocation, ReadBlockPath, Fail
  <2> QED BY <1>1, <2>1 DEF AnchorInv
<1>5. CASE ReadHeader
  <2>1. PICK l1, l2, hdr : bundle' = [draft EXCEPT !.l1 = l1, !.l2 = l2, !.header = hdr]
    BY <1>5, Zenon DEF ReadHeader
  <2>2. pc = "header" /\ pc' = "idle"
    BY <1>5 DEF ReadHeader
  <2>3. IsDraft(draft) /\ TXID(Coin) \in DOMAIN txIndex
    BY <2>2 DEF Inv, WalletInv
  <2>4. bundle'.anchor = draft.anchor
    BY <2>1, <2>3 DEF IsDraft, BundleFields
  <2> QED BY <1>1, <2>2, <2>3, <2>4 DEF AnchorInv, HasAnchor
<1>6. CASE \E carrier \in Heights : AttachAnchor(carrier)
  <2>1. PICK c \in Heights : AttachAnchor(c)
    BY <1>6
  <2>2. PICK t, a : t = LocateTx(bundle.txid) /\ a = AnchorFrom(t, c)
    OBVIOUS
  <2>3. /\ bundle # NoBundle /\ pc = "idle" /\ pc' = "idle" /\ bundle' = [bundle EXCEPT !.anchor = a]
        /\ InCommittedPrefix(t, c)
    BY <2>1, <2>2 DEF AttachAnchor
  <2>4. IsDraft(bundle) /\ TXID(Coin) \in DOMAIN txIndex
    BY <2>3 DEF Inv, WalletInv, IsBundle, AnchorInv
  <2>5. bundle'.anchor = a /\ bundle.txid = TXID(Coin)
    BY <2>3, <2>4 DEF IsDraft, BundleFields
  <2>6. t \in 0..(Len(blocks) - 1) /\ TXID(Coin) \in TxidsIn(blocks[t + 1])
    BY <2>2, <2>4, <2>5, CoinIsThere DEF Inv
  <2>7. Carries(blocks, t, c) /\ a = AnchorOver(blocks, t, c)
    BY <2>2, <2>3, <2>6, AnchorFromIs DEF InCommittedPrefix, Block, Carries, Heights
  <2>8. IsAnchor(blocks, a)
    BY <2>6, <2>7 DEF IsAnchor
  <2> QED BY <1>1, <2>3, <2>4, <2>5, <2>8 DEF AnchorInv, HasAnchor
<1> QED BY <1>2, <1>3, <1>4, <1>5, <1>6 DEF FetchStep

LEMMA NextAnchor == Inv /\ AnchorInv /\ [Next]_vars => AnchorInv'
<1> SUFFICES ASSUME Inv, AnchorInv, [Next]_vars PROVE AnchorInv'
  OBVIOUS
<1>1. CASE NodeStep
  BY <1>1, NodeStepAnchor
<1>2. CASE \/ \E reveal \in 0..(Len(FieldsOf[Coin]) - 1) : CallBuild(reveal)
           \/ CallReanchor \/ FetchStep
           \/ \E carrier \in Heights : AttachAnchor(carrier)
  BY <1>2, WalletStepAnchor
<1>3. CASE UNCHANGED vars
  BY <1>3 DEF AnchorInv, vars, nodeVars, walletVars
<1> QED BY <1>1, <1>2, <1>3 DEF Next

\* What is no digest: the bytes "coinbase-marker" are shorter than one.
IsDigest(x) == (\E y : x = DoubleSHA256(y)) \/ (\E y, z : x = HashPair(y, z))

\* A block commits root: VerifyAnchor accepts root, with the three paths that
\* GenTxAccumulator gives, under the root of the block.
Commits(b, root) ==
  /\ b.genFields[2].Bytes = root
  /\ VerifyAnchor(root, b.genFields, MTxIDPath(b.genFields, 1), MerklePath(SubtreeTree(b, 0), 0),
                  MerklePath(BlockLayers(b), 0), b.header.root)

\* The second field of a generation transaction is the one VerifyAnchor finds,
\* and its three paths close to the root of the block.
LEMMA GenAnchorHolds ==
  ASSUME ~IsDigest(Marker), NEW b, NEW h, NEW m, IsBlock(b, h, m), NEW root, IsDigest(root),
         b.genFields = GenFields(root), b.subtrees[1][1] = BuildMTxID(b.genFields)
  PROVE  Commits(b, root)
<1>p. PICK gen, l0, l1, l2 :
        /\ gen = b.genFields /\ l0 = MTxIDPath(gen, 1)
        /\ l1 = MerklePath(SubtreeTree(b, 0), 0) /\ l2 = MerklePath(BlockLayers(b), 0)
  OBVIOUS
<1>g. gen = GenFields(root) /\ b.subtrees[1][1] = BuildMTxID(gen)
  BY <1>p
<1>1. DOMAIN gen = 1..2 /\ gen[1].Bytes = Marker
  BY <1>g, GenFieldsAre
<1>2. gen[2].Bytes = root
  BY <1>g DEF GenFields, Field
<1>3. Marker # root
  OBVIOUS
<1>4. PICK found : found = {i \in DOMAIN gen : gen[i].Bytes = root}
  OBVIOUS
<1>5. found = {2}
  <2>1. \A i \in 1..2 : i = 1 \/ i = 2
    OBVIOUS
  <2> QED BY <1>1, <1>2, <1>3, <1>4, <2>1
<1>6. (CHOOSE i \in found : \A j \in found : i <= j) = 2
  BY <1>5
<1>7. Fold(LeafForField(gen[2]), l0) = BuildMTxID(gen) /\ Len(l0) \in Nat /\ Len(l0) <= 8
  <2>1. PICK n, f : n = 2 /\ f = 2
    OBVIOUS
  <2>2. n \in Nat \ {0} /\ n <= 256 /\ f \in 1..n /\ DOMAIN gen = 1..n /\ f - 1 = 1
    BY <1>1, <2>1
  <2>3. Fold(LeafForField(gen[f]), l0) = BuildMTxID(gen) /\ Len(l0) \in Nat /\ Len(l0) <= 8
    BY <1>p, <2>2, FieldFolds
  <2> QED BY <2>1, <2>3
<1>8. /\ Fold(Fold(BuildMTxID(gen), l1), l2) = b.header.root
      /\ Len(l1) \in Nat /\ Len(l1) <= 20 /\ Len(l2) \in Nat /\ Len(l2) <= 63
  <2>1. PICK s, k : s = 1 /\ k = 1
    OBVIOUS
  <2>2. s \in 1..m /\ k \in 1..Len(b.subtrees[s]) /\ s - 1 = 0 /\ k - 1 = 0
    <3>1. m \in Nat \ {0}
      BY DEF IsBlock
    <3>2. 1 \in 1..m
      BY <3>1
    <3>3. Len(b.subtrees[1]) \in 1..SubtreeSize
      BY <3>2 DEF IsBlock, IsSubtree
    <3>4. PICK w \in 1..SubtreeSize : w = Len(b.subtrees[1])
      BY <3>3
    <3>5. 1 \in 1..w
      BY <3>4, SizeIs
    <3> QED BY <2>1, <3>2, <3>4, <3>5
  <2>3. /\ Fold(Fold(b.subtrees[s][k], l1), l2) = b.header.root
        /\ Len(l1) \in Nat /\ Len(l1) <= 20 /\ Len(l2) \in Nat /\ Len(l2) <= 63
    BY <1>p, <2>2, PlaceFolds
  <2> QED BY <1>g, <2>1, <2>3
<1>9. PathDepth(l0, l1, l2) <= MaxDepth
  BY <1>7, <1>8, DepthsFit
<1>10. VerifyAnchor(root, gen, l0, l1, l2, b.header.root)
  BY <1>4, <1>5, <1>6, <1>7, <1>8, <1>9 DEF VerifyAnchor
<1> QED BY <1>p, <1>2, <1>10 DEF Commits

\* The path of a block under the root of a carrier after it proves the header
\* of that block and no other.
LEMMA AccPathProves ==
  ASSUME NEW bs, IsChain(bs), Len(bs) <= MaxBlocks,
         NEW c \in 0..(Len(bs) - 1), NEW t \in 0..(c - 1),
         NEW A, A = HeaderLeaves(bs, c)
  PROVE  /\ IsDigest(MMRRoot(A))
         /\ \A hdr : VerifyBlockInChain(hdr, ProveBlock(A, t), MMRRoot(A)) <=> hdr = bs[t + 1].header
<1>1. PICK N \in Nat : N = Len(bs)
  BY DEF IsChain
<1>2. c \in Nat \ {0} /\ c <= N /\ c \in Nat
  BY <1>1
<1>3. PICK D : D = {A[i] : i \in 1..c}
  OBVIOUS
<1>4. A \in Seq(D) /\ Len(A) = c
  <2>1. A = [i \in 1..c |-> A[i]]
    BY DEF HeaderLeaves
  <2> QED BY <1>2, <1>3, <2>1, FunctionsAreSeqs
<1>5. \A i \in 1..c : A[i] = DoubleSHA256(bs[i].header)
  BY DEF HeaderLeaves
<1>6. IsDigest(MMRRoot(A))
  <2>1. PICK x : x = MMRRoot(A)
    OBVIOUS
  <2>2. Len(A) # 0
    BY <1>2, <1>4
  <2>3. x \in D \/ \E y, z : x = HashPair(y, z)
    BY <1>4, <2>1, <2>2, RootKind
  <2>4. \A d \in D : IsDigest(d)
    BY <1>3, <1>5 DEF IsDigest
  <2> QED BY <2>1, <2>3, <2>4 DEF IsDigest
<1>7. PICK path, root : path = ProveBlock(A, t) /\ root = MMRRoot(A)
  OBVIOUS
<1>8. /\ Fold(A[t + 1], path) = root
      /\ Len(path) \in 0..(2 * CeilLog2(c + 1))
  BY <1>2, <1>4, <1>7, EveryBlockProvable
<1>9. Len(path) \in Nat /\ Len(path) <= MaxDepth
  <2>1. /\ c + 1 \in Nat \ {0} /\ MaxBlocks + 1 \in Nat \ {0} /\ c + 1 <= MaxBlocks + 1
    BY <1>1, <1>2, BoundsAre
  <2>2. CeilLog2(c + 1) <= CeilLog2(MaxBlocks + 1)
    BY <2>1, DepthGrows
  <2>3. CeilLog2(c + 1) \in Nat /\ CeilLog2(MaxBlocks + 1) \in Nat
    BY <2>1, DepthIsNat
  <2>4. PICK d \in Nat, e \in Nat : d = CeilLog2(c + 1) /\ e = CeilLog2(MaxBlocks + 1)
    BY <2>3
  <2>5. d <= e /\ e <= 64
    BY <2>2, <2>4, BoundsAre
  <2>6. d <= 64
    BY <2>4, <2>5
  <2>7. PICK w \in 0..(2 * d) : w = Len(path)
    BY <1>8, <2>4
  <2>8. w \in Nat /\ w <= 255
    BY <2>6, <2>7
  <2> QED BY <2>7, <2>8 DEF MaxDepth
<1>10. t + 1 \in 1..c
  BY <1>2
<1>11. PICK own : own = bs[t + 1].header
  OBVIOUS
<1>12. Fold(DoubleSHA256(own), path) = root
  BY <1>5, <1>8, <1>10, <1>11
<1>13. ASSUME NEW hdr, Fold(DoubleSHA256(hdr), path) = root PROVE hdr = own
  <2>1. PICK x, y : x = DoubleSHA256(hdr) /\ y = DoubleSHA256(own)
    OBVIOUS
  <2>2. Fold(x, path) = Fold(y, path)
    BY <1>12, <1>13, <2>1
  <2>3. x = y
    BY <1>9, <2>2, FoldBinds
  <2> QED BY <2>1, <2>3 DEF DoubleSHA256
<1> QED BY <1>6, <1>7, <1>9, <1>11, <1>12, <1>13 DEF VerifyBlockInChain

\* What an anchor shows to whoever has the carrying header: the header at t.
Shows(bs, a, t, c) ==
  /\ t < c
  /\ a.CarryingHeader = bs[c + 1].header /\ a.CarryingBlockMerkleRoot = bs[c + 1].header.root
  /\ VerifyAnchor(a.AccRoot, a.GenTxFields, a.GenL0, a.GenL1, a.GenL2,
                  a.CarryingBlockMerkleRoot)
  /\ \A hdr : VerifyBlockInChain(hdr, a.AccPath, a.AccRoot) <=> hdr = bs[t + 1].header

\* An anchor as the node's material gives it holds, and proves one header.
LEMMA AnchorHolds ==
  ASSUME ~IsDigest(Marker), NEW bs, IsChain(bs), Len(bs) <= MaxBlocks, CarriersAre(bs),
         NEW t, NEW c, Carries(bs, t, c), NEW a, a = AnchorOver(bs, t, c)
  PROVE  Shows(bs, a, t, c)
<1>1. PICK b : b = bs[c + 1]
  OBVIOUS
<1>2. /\ c \in 0..(Len(bs) - 1) /\ t \in 0..(Len(bs) - 1) /\ b.isCarrier /\ t < b.accPrefix
  BY <1>1 DEF Carries
<1>3. PICK m : IsBlock(b, c, m)
  BY <1>1, <1>2 DEF IsChain
<1>4. PICK A, root : A = HeaderLeaves(bs, c) /\ root = MMRRoot(A)
  OBVIOUS
<1>5. PICK gen : gen = b.genFields
  OBVIOUS
<1>6. b.accPrefix = c /\ gen = GenFields(root) /\ b.subtrees[1][1] = BuildMTxID(gen)
  BY <1>1, <1>2, <1>4, <1>5 DEF CarriersAre, IsCarrier
<1>7. PICK l0, l1, l2 : /\ l0 = MTxIDPath(gen, 1) /\ l1 = MerklePath(SubtreeTree(b, 0), 0)
                        /\ l2 = MerklePath(BlockLayers(b), 0)
  OBVIOUS
<1>8. t \in 0..(c - 1) /\ t < c
  BY <1>2, <1>6
<1>9. /\ IsDigest(root)
      /\ \A hdr : VerifyBlockInChain(hdr, ProveBlock(A, t), root) <=> hdr = bs[t + 1].header
  BY <1>2, <1>4, <1>8, AccPathProves
<1>10. gen[2].Bytes = root /\ VerifyAnchor(root, gen, l0, l1, l2, b.header.root)
  <2>1. b.genFields = GenFields(root) /\ b.subtrees[1][1] = BuildMTxID(b.genFields)
    BY <1>5, <1>6
  <2>2. Commits(b, root)
    BY <1>3, <1>9, <2>1, GenAnchorHolds
  <2> QED BY <1>5, <1>7, <2>2 DEF Commits
<1>11. /\ a.AccRoot = root /\ a.AccPath = ProveBlock(A, t) /\ a.GenTxFields = gen
       /\ a.GenL0 = l0 /\ a.GenL1 = l1 /\ a.GenL2 = l2
       /\ a.CarryingHeader = b.header /\ a.CarryingBlockMerkleRoot = b.header.root
  BY <1>1, <1>4, <1>5, <1>6, <1>7, <1>10 DEF AnchorOver
<1> QED BY <1>1, <1>8, <1>9, <1>10, <1>11 DEF Shows

AnchorFields == {"AccRoot", "AccPath", "GenTxFields", "GenL0", "GenL1", "GenL2",
                 "CarryingBlockMerkleRoot", "CarryingHeader"}

\* The chain check, which alone decides Verify: the header is in the view, or
\* the anchor is of the bundle's own block and its carrier is in the view.
LEMMA InvVerifyIsExact ==
  ASSUME DOMAIN NoAnchor # AnchorFields, ~IsDigest(Marker)
  PROVE  Inv /\ AnchorInv => VerifyIsExact
<1> SUFFICES ASSUME Inv, AnchorInv, bundle # NoBundle,
                    NEW view \in SUBSET {HeaderFor(h) : h \in Heights}
             PROVE  Verify(bundle, view) <=>
                      \/ bundle.header \in view
                      \/ \E h \in BlocksWith(Coin), c \in Heights :
                           /\ bundle.header = HeaderFor(h)
                           /\ InCommittedPrefix(h, c) /\ h < c
                           /\ HeaderFor(c) \in view
                           /\ bundle.anchor = AnchorFrom(h, c)
  BY DEF VerifyIsExact
<1>1. Verify(bundle, view) <=> bundle.header \in view \/ Anchored(bundle, view)
  BY ChainCheckDecides, Zenon DEF Verify, ViewContains
<1>2. IsChain(blocks) /\ Len(blocks) <= MaxBlocks /\ CarriersAre(blocks)
  BY DEF Inv, NodeInv, AnchorInv
<1>3. ASSUME NEW h \in BlocksWith(Coin), NEW c \in Heights, bundle.header = HeaderFor(h),
             InCommittedPrefix(h, c), HeaderFor(c) \in view, bundle.anchor = AnchorFrom(h, c)
      PROVE  Anchored(bundle, view)
  <2>1. PICK a : a = bundle.anchor /\ a = AnchorOver(blocks, h, c)
    BY <1>3, AnchorFromIs
  <2>2. Carries(blocks, h, c)
    BY <1>3 DEF BlocksWith, Carries, InCommittedPrefix, Block, Heights
  <2>3. /\ a.CarryingHeader = blocks[c + 1].header
        /\ a.CarryingBlockMerkleRoot = blocks[c + 1].header.root
        /\ VerifyAnchor(a.AccRoot, a.GenTxFields, a.GenL0, a.GenL1, a.GenL2,
                        a.CarryingBlockMerkleRoot)
        /\ \A hdr : VerifyBlockInChain(hdr, a.AccPath, a.AccRoot) <=> hdr = blocks[h + 1].header
    <3>1. Shows(blocks, a, h, c)
      BY <1>2, <2>1, <2>2, AnchorHolds, Zenon
    <3> QED BY <3>1 DEF Shows
  <2>4. a # NoAnchor
    <3>1. DOMAIN a = AnchorFields
      BY <2>1 DEF AnchorOver, AnchorFields
    <3> QED BY <3>1
  <2>5. AnchorBindsToChain(a, view)
    BY <1>3, <2>3 DEF AnchorBindsToChain, ViewContains, HeaderMerkleRoot, HeaderFor, Block
  <2>6. VerifyBlockInChain(bundle.header, a.AccPath, a.AccRoot)
    BY <1>3, <2>3 DEF HeaderFor, Block
  <2> QED BY <2>1, <2>4, <2>5, <2>6 DEF Anchored
<1>4. ASSUME Anchored(bundle, view)
      PROVE  \E h \in BlocksWith(Coin), c \in Heights :
               /\ bundle.header = HeaderFor(h)
               /\ InCommittedPrefix(h, c) /\ h < c
               /\ HeaderFor(c) \in view
               /\ bundle.anchor = AnchorFrom(h, c)
  <2>1. PICK a : a = bundle.anchor
    OBVIOUS
  <2>2. /\ a # NoAnchor /\ AnchorBindsToChain(a, view)
        /\ VerifyBlockInChain(bundle.header, a.AccPath, a.AccRoot)
    BY <1>4, <2>1 DEF Anchored
  <2>3. IsAnchor(blocks, a)
    BY <2>1, <2>2 DEF AnchorInv, HasAnchor
  <2>4. PICK t, c : /\ Carries(blocks, t, c) /\ TXID(Coin) \in TxidsIn(blocks[t + 1])
                    /\ a = AnchorOver(blocks, t, c)
    BY <2>3 DEF IsAnchor
  <2>5. /\ t < c /\ a.CarryingHeader = blocks[c + 1].header
        /\ \A hdr : VerifyBlockInChain(hdr, a.AccPath, a.AccRoot) <=> hdr = blocks[t + 1].header
    <3>1. Shows(blocks, a, t, c)
      BY <1>2, <2>4, AnchorHolds, Zenon
    <3> QED BY <3>1 DEF Shows
  <2>6. t \in BlocksWith(Coin) /\ c \in Heights /\ InCommittedPrefix(t, c)
    BY <2>4 DEF BlocksWith, Carries, InCommittedPrefix, Block, Heights
  <2>7. bundle.header = HeaderFor(t)
    BY <2>2, <2>5 DEF HeaderFor, Block
  <2>8. HeaderFor(c) \in view
    BY <2>2, <2>5 DEF AnchorBindsToChain, ViewContains, HeaderFor, Block
  <2>9. bundle.anchor = AnchorFrom(t, c)
    BY <2>1, <2>4, AnchorFromIs
  <2> QED BY <2>5, <2>6, <2>7, <2>8, <2>9
<1> QED BY <1>1, <1>3, <1>4

-----------------------------------------------------------------------------
(***************************************************************************)
(* The theorems                                                            *)
(***************************************************************************)

\* The inductive invariant of the node and the wallet.
THEOREM BundleInvariant == Spec => []Inv
<1> QED BY InitInv, NextInv, PTL DEF Spec

\* The type invariant of the bundle's life.
THEOREM BundleTypeOK ==
  ASSUME DOMAIN NoBundle # BundleFields
  PROVE  Spec => []TypeOK
<1>1. Inv => TypeOK
  BY InvTypeOK
<1> QED BY <1>1, BundleInvariant, PTL

\* Build and Reanchor, torn at any place by any number of blocks and
\* reorganisations, fail or give the paths and the header of one block.
THEOREM TornFetchFailsSafe == Spec => []FetchFailsSafe
<1> QED BY InvFetchFailsSafe, BundleInvariant, PTL

\* NeedsReanchor asks for maintenance exactly when Verify refuses, on every view.
THEOREM MaintenanceIsExact == Spec => []MaintenanceAgrees
<1> QED BY InvMaintenanceAgrees, BundleInvariant, PTL

\* Verify accepts on exactly the views that have the header, or that of a later
\* carrier of the block's own anchor.  NoAnchor stands for nil: it has not the
\* fields of an Anchor; the marker of a generation transaction, 15 bytes, is no
\* digest.
THEOREM VerifyStaysExact ==
  ASSUME DOMAIN NoAnchor # AnchorFields, ~IsDigest(Marker)
  PROVE  Spec => []VerifyIsExact
<1>1. Inv /\ AnchorInv => VerifyIsExact
  BY InvVerifyIsExact
<1>2. Spec => []AnchorInv
  BY BundleInvariant, InitAnchor, NextAnchor, PTL DEF Spec
<1> QED BY <1>1, <1>2, BundleInvariant, PTL
=============================================================================
