-------------------------------- MODULE MMR --------------------------------
(***************************************************************************)
(* The Merkle Mountain Range of L4 and the check of an anchor              *)
(* (accumulator/accumulator.go).  An MMR is the sequence of its leaf       *)
(* digests; every operator takes that sequence.                            *)
(***************************************************************************)
EXTENDS Commitment

\* 1 << b, for each b up to len.
Weights(len) == LET w[b \in 0..len] == IF b = 0 THEN 1 ELSE 2 * w[b - 1] IN w

(***************************************************************************)
(* The perfect-subtree sizes that partition n leaves, the largest first:   *)
(* one for each bit set in n.  taken[k] are the sizes taken after the k    *)
(* highest of its bits.Len64(n) bits.                                      *)
(***************************************************************************)
SizesTaken(n) ==
  LET len == CeilLog2(n + 1)
      taken[k \in 0..len] ==
        IF k = 0 THEN << >>
        ELSE IF Shifted(n)[len - k] % 2 = 1 THEN Append(taken[k - 1], Weights(len)[len - k])
        ELSE taken[k - 1]
  IN  taken
MountainSizes(n) == SizesTaken(n)[CeilLog2(n + 1)]

\* The leaves up to the end of each mountain; the next one starts there.
MountainEnds(sizes) ==
  LET end[k \in 0..Len(sizes)] == IF k = 0 THEN 0 ELSE end[k - 1] + sizes[k] IN end

Mountain(leaves, k) ==
  LET end == MountainEnds(MountainSizes(Len(leaves)))
  IN  SubSeq(leaves, end[k - 1] + 1, end[k])

Peaks(leaves) ==
  [k \in 1..Len(MountainSizes(Len(leaves))) |-> MerkleRoot(Mountain(leaves, k))]

\* Mutant of BagPeaks: peaks are combined left to right.
BagPeaksLeftToRight(pk) ==
  IF pk = << >> THEN ZeroHash
  ELSE FoldLeft(LAMBDA acc, peak : HashPair(acc, peak), Head(pk), Tail(pk))

\* Peaks are combined right to left: H(p1, H(p2, ... H(pm-1, pm))).  acc[j] is
\* that of the last j + 1.
Bagged(pk) ==
  LET acc[j \in 0..(Len(pk) - 1)] ==
        IF j = 0 THEN pk[Len(pk)] ELSE HashPair(pk[Len(pk) - j], acc[j - 1])
  IN  acc
BagPeaks(pk) == IF pk = << >> THEN ZeroHash ELSE Bagged(pk)[Len(pk) - 1]

\* Mutant of MMRRoot: one Merkle tree over all leaves, odd nodes duplicated.
MMRRootOneTree(leaves) == IF leaves = << >> THEN ZeroHash ELSE MerkleRoot(leaves)

MMRRoot(leaves) == BagPeaks(Peaks(leaves))

\* The mountain that holds the leaf at height.
MountainOf(leaves, height) ==
  LET end == MountainEnds(MountainSizes(Len(leaves)))
  IN  CHOOSE k \in DOMAIN Peaks(leaves) : end[k - 1] <= height /\ height < end[k]

\* The climb inside mountain k, then the bag of the peaks to its right.
InMountain(leaves, height, k) ==
  MerklePath(BuildMerkleTree(Mountain(leaves, k)),
             height - MountainEnds(MountainSizes(Len(leaves)))[k - 1])
RightOf(pk, k) ==
  IF k = Len(pk) THEN << >> ELSE <<PathElem(BagPeaks(SubSeq(pk, k + 1, Len(pk))), TRUE)>>

\* Mutant of ProveBlock: the peaks to the left are folded from the first on.
ProveBlockLeftPeaksReversed(leaves, height) ==
  LET k  == MountainOf(leaves, height)
      pk == Peaks(leaves)
  IN  InMountain(leaves, height, k) \o RightOf(pk, k)
        \o [i \in 1..(k - 1) |-> PathElem(pk[i], FALSE)]

(***************************************************************************)
(* The path of the header at height: the climb inside its mountain, then   *)
(* the bag of the peaks to its right, then each peak to its left, the      *)
(* nearest first.  Defined for height < Len(leaves) (ProveBlock answers    *)
(* ErrEmpty above).                                                        *)
(***************************************************************************)
ProveBlock(leaves, height) ==
  LET k  == MountainOf(leaves, height)
      pk == Peaks(leaves)
  IN  InMountain(leaves, height, k) \o RightOf(pk, k)
        \o [i \in 1..(k - 1) |-> PathElem(pk[k - i], FALSE)]

VerifyBlockInChain(header, path, accRoot) ==
  Len(path) <= MaxDepth /\ Fold(DoubleSHA256(header), path) = accRoot

(***************************************************************************)
(* accRoot is a committed field of a generation transaction whose L0 to L2 *)
(* path closes to the carrying block's Merkle root.  The first field with  *)
(* those bytes is the one folded.                                          *)
(***************************************************************************)
VerifyAnchor(accRoot, genFields, l0, l1, l2, carryingRoot) ==
  LET found == {i \in DOMAIN genFields : genFields[i].Bytes = accRoot}
      first == CHOOSE i \in found : \A j \in found : i <= j
  IN  /\ PathDepth(l0, l1, l2) <= MaxDepth
      /\ found # {}
      /\ Fold(Fold(Fold(LeafForField(genFields[first]), l0), l1), l2) = carryingRoot

-----------------------------------------------------------------------------
(***************************************************************************)
(* Absent periods.  CoverageGaps scans the heights 0..tip once, carrying   *)
(* whether it is inside a gap and where the gap began.                     *)
(***************************************************************************)
Gap(from, to) == [FromHeight |-> from, ToHeight |-> to]

\* Mutant of ScanHeight: a gap is closed at the committed height itself.
ScanHeightInclusive(present, s, h) ==
  IF h \in present
  THEN IF s.inGap THEN [s EXCEPT !.gaps = Append(@, Gap(s.from, h)), !.inGap = FALSE]
                  ELSE s
  ELSE IF s.inGap THEN s ELSE [s EXCEPT !.from = h, !.inGap = TRUE]

ScanHeight(present, s, h) ==
  IF h \in present
  THEN IF s.inGap THEN [s EXCEPT !.gaps = Append(@, Gap(s.from, h - 1)), !.inGap = FALSE]
                  ELSE s
  ELSE IF s.inGap THEN s ELSE [s EXCEPT !.from = h, !.inGap = TRUE]

Scanned(committed, tip) ==
  LET scan[h \in -1..tip] ==
        IF h = -1 THEN [gaps |-> << >>, inGap |-> FALSE, from |-> 0]
                  ELSE ScanHeight(Range(committed), scan[h - 1], h)
  IN  scan
CoverageGaps(committed, tip) ==
  LET end == Scanned(committed, tip)[tip]
  IN  IF end.inGap THEN Append(end.gaps, Gap(end.from, tip)) ELSE end.gaps

\* The largest committed height <= height, and whether height itself is absent.
NearestCommitted(height, committed) ==
  LET below == {c \in Range(committed) : c <= height}
  IN  IF below = {} THEN [h |-> 0, inGap |-> TRUE]
      ELSE [h |-> CHOOSE c \in below : \A d \in below : d <= c,
            inGap |-> height \notin below]
=============================================================================
