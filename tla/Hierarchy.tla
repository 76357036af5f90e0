----------------------------- MODULE Hierarchy -----------------------------
(***************************************************************************)
(* A block filled with transactions one by one, and what the commitment    *)
(* hierarchy L0 to L2 (commitment/commitment.go) promises of every block   *)
(* on the way, whatever the number of transactions and the subtree size.   *)
(***************************************************************************)
EXTENDS Commitment

CONSTANTS
  Txs,        \* transactions
  FieldsOf,   \* their fields
  Mined,      \* those that come into the block
  Sizes,      \* subtree capacities
  MaxTxs      \* bound: transactions in the block

(***************************************************************************)
(* A field is found by a byte (MTxIDPath), a subtree holds at most 2^20    *)
(* txids ("I-C3"), and the length of a slice is a 64-bit integer.          *)
(***************************************************************************)
ASSUME HierarchyAssumption ==
  /\ \A t \in Txs : FieldsOf[t] \in Seq(ToSet(FieldsOf[t])) /\ 1 <= Len(FieldsOf[t]) /\ Len(FieldsOf[t]) <= 256
  /\ Mined \subseteq Txs
  /\ Sizes \subseteq Nat \ {0} /\ \A s \in Sizes : CeilLog2(s) <= MaxSubtreeDepth
  /\ MaxTxs \in Nat /\ CeilLog2(MaxTxs) < 64

\* A transaction is its fields.
ASSUME FieldsAssumption == \A t, u \in Txs : FieldsOf[t] = FieldsOf[u] => t = u

OrdinaryTxs == {t \in Txs : Ordinary(FieldsOf[t])}

VARIABLES
  txs,     \* the transactions in the block
  size,    \* its subtree capacity
  sealed   \* the subtrees, roots and paths that sealing it now gives

vars == <<txs, size, sealed>>

TXID == [t \in Txs |-> BuildMTxID(FieldsOf[t])]
Txids(block) == [i \in DOMAIN block |-> TXID[block[i]]]

SubtreeOf(i) == ((i - 1) \div size) + 1

\* L1 and L2 as the node has them.
Seal(block) ==
  LET subtrees == Partition(Txids(block), size)
      roots == [s \in DOMAIN subtrees |-> MerkleRoot(subtrees[s])]
  IN  [roots |-> roots,
       root |-> MerkleRoot(roots),
       l1 |-> [i \in DOMAIN block |->
                 MerklePath(BuildMerkleTree(subtrees[SubtreeOf(i)]), (i - 1) % size)],
       l2 |-> [i \in DOMAIN block |-> MerklePath(BuildMerkleTree(roots), SubtreeOf(i) - 1)]]

Init ==
  /\ size \in Sizes
  /\ \E t \in Mined : txs = <<t>>
  /\ sealed = Seal(txs)

AddTx(t) ==
  /\ Len(txs) < MaxTxs
  /\ txs' = Append(txs, t)
  /\ sealed' = Seal(txs')
  /\ UNCHANGED size

Next == \E t \in Mined : AddTx(t)

Spec == Init /\ [][Next]_vars

-----------------------------------------------------------------------------
(***************************************************************************)
(* Properties                                                              *)
(***************************************************************************)

\* VerifyToBlockRoot: every field of every transaction has a path through
\* the three levels to the block root, which each level's own check accepts
\* as well, also from the odd last transaction of an odd last subtree.
EveryFieldProvable ==
  \A i \in DOMAIN txs : \A f \in DOMAIN FieldsOf[txs[i]] :
    LET fields == FieldsOf[txs[i]]
        leaf   == LeafForField(fields[f])
        l0     == MTxIDPath(fields, f - 1)
        root   == sealed.roots[SubtreeOf(i)]
    IN  /\ VerifyMTxIDPath(leaf, l0, TXID[txs[i]])
        /\ VerifySubtreePath(TXID[txs[i]], sealed.l1[i], root)
        /\ VerifyBlockPath(root, sealed.l2[i], sealed.root)
        /\ VerifyToBlockRoot(leaf, l0, sealed.l1[i], sealed.l2[i], sealed.root)

\* Paths of different places, put together, prove no more than each alone: a
\* field with its own L0, the L1 of one transaction and the L2 of another
\* reach the block root only if the field is of a transaction of the block,
\* in the very subtree the L2 is of.  VerifyToBlockRoot has no test for what
\* this rests on: that transaction and those of the block are ordinary.  The
\* TXID of one that numbers its fields otherwise, or has one of 63 bytes, may
\* be a node inside a subtree.
PathsProveMembership ==
  ToSet(txs) \subseteq OrdinaryTxs =>
    \A t \in OrdinaryTxs, i, j \in DOMAIN txs : \A f \in DOMAIN FieldsOf[t] :
      VerifyToBlockRoot(LeafForField(FieldsOf[t][f]), MTxIDPath(FieldsOf[t], f - 1),
                        sealed.l1[i], sealed.l2[j], sealed.root)
        => \E k \in DOMAIN txs :
             t = txs[k] /\ sealed.roots[SubtreeOf(k)] = sealed.roots[SubtreeOf(j)]

\* The nodes on each level of the tree over n leaves, from the leaves up.
Widths(n) ==
  LET width[l \in 0..CeilLog2(n)] == IF l = 0 THEN n ELSE (width[l - 1] + 1) \div 2
  IN  width

\* The nodes on the way down from the root that takes these sides, 0 for left
\* and 1 for right; beyond the end of a level is a copy of its last node.
WayDown(n, sides) ==
  LET top == CeilLog2(n)
      node[d \in 0..top] ==
        IF d = 0 THEN 1
        ELSE LET child == 2 * node[d - 1] - 1 + sides[d]
             IN  IF child <= Widths(n)[top - d] THEN child ELSE child - 1
  IN  node

\* The list that fills the tree: what there is at the end of every way down.
Padded(list) ==
  LET n == Len(list)
  IN  [sides \in [1..CeilLog2(n) -> {0, 1}] |-> list[WayDown(n, sides)[CeilLog2(n)]]]

\* The padded forms of the lists of ordinary transactions that a block may have,
\* each with its root.
PaddedRoots ==
  {<<Padded(list), MerkleRoot(Txids(list))>> :
     list \in BoundedSeq(Mined \cap OrdinaryTxs, MaxTxs) \ {<< >>}}

\* BuildMerkleTree pairs an odd last node with itself, so two lists of ordinary
\* transactions may have one root.  They do exactly when the tails the tree
\* repeats make them the same list, and never otherwise.
RootsMeetOnlyByPadding ==
  LET root   == MerkleRoot(Txids(txs))
      padded == Padded(txs)
  IN  ToSet(txs) \subseteq OrdinaryTxs =>
        \A other \in PaddedRoots : other[2] = root <=> other[1] = padded
=============================================================================
