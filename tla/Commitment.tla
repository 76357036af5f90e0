----------------------------- MODULE Commitment -----------------------------
(***************************************************************************)
(* Levels L0 to L2 of the commitment hierarchy (commitment/commitment.go). *)
(*                                                                         *)
(* SHA-256d is the symbolic injective hash: the digest of a byte string x  *)
(* is the one-element tuple <<x>>, the digest of two concatenated digests  *)
(* is the pair <<left, right>>, and Hash{} (32 zero bytes) is the empty    *)
(* tuple.  Two digests are equal exactly when they hash the same bytes,    *)
(* which is what "no collision was found" says; so x is never a string of  *)
(* 64 bytes, which is two digests whatever else it is (see WideField).     *)
(*                                                                         *)
(* Indexes into Go slices keep their 0-based value; the sequences they     *)
(* select from are 1-based, so position i of a slice is element i + 1.     *)
(***************************************************************************)
EXTENDS Integers, Sequences, SequencesExt

MaxDepth == 255       \* one-byte depth ceiling (I-C3)
MaxSubtreeDepth == 20 \* a Teranode subtree holds at most 2^20 TXIDs

ZeroHash == << >>
DoubleSHA256(x) == <<x>>
HashPair(left, right) == <<left, right>>

\* One sibling of a Merkle path; Right says on which side of the node it is.
PathElem(sibling, right) == [Sibling |-> sibling, Right |-> right]

(***************************************************************************)
(* ceil(log2 n), as bits.Len64(n - 1): the shifts to the right after which *)
(* nothing of n - 1 is left.                                               *)
(***************************************************************************)
Shifted(x) == LET left[k \in 0..x] == IF k = 0 THEN x ELSE left[k - 1] \div 2 IN left
CeilLog2(n) == IF n <= 1 THEN 0
               ELSE CHOOSE k \in 1..(n - 1) : Shifted(n - 1)[k] = 0 /\ Shifted(n - 1)[k - 1] # 0

\* Mutant of NextLevel: an odd last node is promoted, not paired with itself.
NextLevelPromoting(level) ==
  [i \in 1..((Len(level) + 1) \div 2) |->
     IF 2*i <= Len(level) THEN HashPair(level[2*i - 1], level[2*i]) ELSE level[2*i - 1]]

(***************************************************************************)
(* One round of BuildMerkleTree: pair the nodes of a level, the last node  *)
(* with itself when the level is odd.                                      *)
(***************************************************************************)
NextLevel(level) ==
  [i \in 1..((Len(level) + 1) \div 2) |->
     HashPair(level[2*i - 1],
              level[IF 2*i <= Len(level) THEN 2*i ELSE 2*i - 1])]

\* All levels, leaves first; defined for a non-empty sequence of leaves
\* (BuildMerkleTree answers ErrEmpty for none).
BuildMerkleTree(leaves) ==
  LET layers[l \in 1..(CeilLog2(Len(leaves)) + 1)] ==
        IF l = 1 THEN leaves ELSE NextLevel(layers[l - 1])
  IN  layers

RootOf(layers) == Last(layers)[1]
MerkleRoot(leaves) == RootOf(BuildMerkleTree(leaves))

\* The index halved from layer to layer.
Indexes(layers, index) ==
  LET idx[l \in DOMAIN layers] == IF l = 1 THEN index ELSE idx[l - 1] \div 2 IN idx

\* Mutant of MerklePath: the sides are not recorded.
MerklePathSideless(layers, index) ==
  [l \in 1..(Len(layers) - 1) |->
     LET cur == layers[l]
         idx == Indexes(layers, index)[l]
     IN  IF idx % 2 = 1 THEN PathElem(cur[idx], TRUE)
         ELSE PathElem(cur[IF idx + 1 < Len(cur) THEN idx + 2 ELSE idx + 1], TRUE)]

\* The siblings from the leaf at index up to the root.
MerklePath(layers, index) ==
  [l \in 1..(Len(layers) - 1) |->
     LET cur == layers[l]
         idx == Indexes(layers, index)[l]
     IN  IF idx % 2 = 1 THEN PathElem(cur[idx], FALSE)
         ELSE PathElem(cur[IF idx + 1 < Len(cur) THEN idx + 2 ELSE idx + 1], TRUE)]

\* The node above, and all nodes from the leaf up to where the path ends.
Parent(node, e) == IF e.Right THEN HashPair(node, e.Sibling) ELSE HashPair(e.Sibling, node)
Climbed(leaf, path) ==
  LET node[k \in 0..Len(path)] == IF k = 0 THEN leaf ELSE Parent(node[k - 1], path[k]) IN node
Fold(leaf, path) == Climbed(leaf, path)[Len(path)]

\* A block's txids cut into subtrees, the last one maybe shorter.
Partition(leafSet, size) ==
  [s \in 1..((Len(leafSet) + size - 1) \div size) |->
     SubSeq(leafSet, (s - 1) * size + 1,
            IF s * size < Len(leafSet) THEN s * size ELSE Len(leafSet))]

-----------------------------------------------------------------------------
(***************************************************************************)
(* L0: the field tree of a transaction, whose root is its TXID.  A field   *)
(* is a record; its digest covers its Index, one byte, and its Bytes, and  *)
(* nothing tells it from the digest of an inner node: a field of 63 bytes  *)
(* has that of the pair of digests that its index and bytes are in a row   *)
(* (its Index is then the first byte of the left one).                     *)
(***************************************************************************)
Field(index, bytes) == [Index |-> index, Bytes |-> bytes]
WideField(index, left, right) == [Index |-> index, Bytes |-> <<left, right>>, Wide |-> TRUE]
IsWide(f) == "Wide" \in DOMAIN f

\* What every caller keeps to, and nothing checks: the fields are numbered by
\* their place, and none has the length that makes its digest that of a pair.
Indexed(fields) == \A i \in DOMAIN fields : fields[i].Index = i - 1
Ordinary(fields) == Indexed(fields) /\ \A i \in DOMAIN fields : ~IsWide(fields[i])

\* Mutant of LeafForField: the digest covers the index alone.
LeafForFieldIndexOnly(f) == DoubleSHA256(f.Index)

LeafForField(f) == IF IsWide(f) THEN HashPair(f.Bytes[1], f.Bytes[2]) ELSE DoubleSHA256(f)

FieldLayers(fields) ==
  BuildMerkleTree([i \in DOMAIN fields |-> LeafForField(fields[i])])
BuildMTxID(fields) == RootOf(FieldLayers(fields))
MTxIDPath(fields, fieldIndex) == MerklePath(FieldLayers(fields), fieldIndex)

VerifyMTxIDPath(leaf, path, mtxid) ==
  Len(path) <= MaxDepth /\ Fold(leaf, path) = mtxid
VerifySubtreePath(txid, path, subtreeRoot) ==
  Len(path) <= MaxSubtreeDepth /\ Fold(txid, path) = subtreeRoot
VerifyBlockPath(subtreeRoot, path, blockRoot) ==
  Len(path) <= MaxDepth /\ Fold(subtreeRoot, path) = blockRoot

\* L0 to L2 in one call; the depth it reports is the length of the three paths.
PathDepth(l0, l1, l2) == Len(l0) + Len(l1) + Len(l2)
DepthOverflow(l0, l1, l2) ==
  PathDepth(l0, l1, l2) > MaxDepth \/ Len(l1) > MaxSubtreeDepth
VerifyToBlockRoot(leaf, l0, l1, l2, blockRoot) ==
  /\ ~DepthOverflow(l0, l1, l2)
  /\ Fold(Fold(Fold(leaf, l0), l1), l2) = blockRoot
=============================================================================
