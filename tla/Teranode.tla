------------------------------ MODULE Teranode ------------------------------
(***************************************************************************)
(* The node that seals blocks, keeps the best chain and serves proofs      *)
(* (teranode/teranode.go, MockNode and StaticHeaderChain).                 *)
(*                                                                         *)
(* The node's chain is never cut, so the height of a block names it: the   *)
(* block hash is the height, and blocks[h + 1] is the block of height h.   *)
(* An 80-byte header keeps what the checks read from it, the Merkle root   *)
(* and the height that SealBlock stores in it; the previous-block hash is  *)
(* left out because in one run of the node the height determines it.       *)
(***************************************************************************)
EXTENDS MMR

CONSTANTS
  Txs,          \* transactions
  FieldsOf,     \* their field lists
  Batches,      \* what a miner may put into a block: sequences of Txs
  SubtreeSize,  \* txids per subtree
  Marker,       \* the bytes "coinbase-marker"
  MaxBlocks,    \* bound: blocks sealed
  MaxReorgs     \* bound: calls of Orphan and Restore

(***************************************************************************)
(* A field is found by a byte (MTxIDPath), a subtree holds at most 2^20    *)
(* txids ("I-C3"), and the length of a slice is a 64-bit integer.          *)
(***************************************************************************)
ASSUME NodeAssumption ==
  /\ \A t \in Txs : FieldsOf[t] \in Seq(Range(FieldsOf[t])) /\ 1 <= Len(FieldsOf[t]) /\ Len(FieldsOf[t]) <= 256
  /\ Batches \subseteq Seq(Txs)
  /\ SubtreeSize \in Nat \ {0} /\ CeilLog2(SubtreeSize) <= MaxSubtreeDepth
  /\ \A batch \in Batches : CeilLog2(Len(batch) + 1) < 64
  /\ MaxBlocks \in Nat /\ CeilLog2(MaxBlocks + 1) <= 64 /\ MaxReorgs \in Nat

(***************************************************************************)
(* What SealBlock does not check and its callers keep to: fields are       *)
(* numbered by their place and none is of 63 bytes, a transaction is its   *)
(* fields, only the node makes generation transactions, and no block       *)
(* repeats a transaction.                                                  *)
(***************************************************************************)
ASSUME MinersAssumption ==
  /\ \A t \in Txs : Ordinary(FieldsOf[t]) /\ FieldsOf[t][1].Bytes # Marker
  /\ \A t, u \in Txs : FieldsOf[t] = FieldsOf[u] => t = u
  /\ \A batch \in Batches : \A i, j \in DOMAIN batch : batch[i] = batch[j] => i = j

TXID(t) == BuildMTxID(FieldsOf[t])

VARIABLES
  blocks,   \* the sealed blocks in chain order (blocks, chain and headers)
  txIndex,  \* txid -> the last place it was sealed: height, subtree, leaf
  onBest,   \* heights of the blocks on the best chain
  reorgs    \* bound: calls of Orphan and Restore so far

nodeVars == <<blocks, txIndex, onBest, reorgs>>

Heights == 0..(Len(blocks) - 1)
Block(h) == blocks[h + 1]

HeaderMerkleRoot(hdr) == hdr.root

\* The L4 root over the first p headers.
PrefixRoot(p) ==
  MMRRoot([i \in 1..p |-> DoubleSHA256(blocks[i].header)])

(***************************************************************************)
(* A block: its subtrees as sequences of txids, its header, and for a      *)
(* carrying block the generation transaction that commits the L4 root over *)
(* the strictly prior headers.  The Merkle layers are derived from the     *)
(* subtrees; SealBlock builds them once and never changes them.            *)
(***************************************************************************)
SubtreeTree(b, st) == BuildMerkleTree(b.subtrees[st + 1])
SubtreeRoots(b) == [st \in DOMAIN b.subtrees |-> MerkleRoot(b.subtrees[st])]
BlockLayers(b) == BuildMerkleTree(SubtreeRoots(b))

\* accRootFieldIndex = 1
AccRootField == 1
GenFields(accRoot) == <<Field(0, Marker), Field(AccRootField, accRoot)>>

SealedBlock(txids, commitAccumulator) ==
  LET height   == Len(blocks)
      accRoot  == PrefixRoot(height)
      leafSet  == IF commitAccumulator THEN <<BuildMTxID(GenFields(accRoot))>> \o txids
                  ELSE txids
      subtrees == Partition(leafSet, SubtreeSize)
      root     == MerkleRoot([s \in DOMAIN subtrees |-> MerkleRoot(subtrees[s])])
  IN  [height |-> height, subtrees |-> subtrees,
       header |-> [height |-> height % 2^16, root |-> root],
       isCarrier |-> commitAccumulator,
       accPrefix |-> IF commitAccumulator THEN height ELSE 0,
       genFields |-> IF commitAccumulator THEN GenFields(accRoot) ELSE << >>]

\* Where a block's txids are indexed; the last position of a txid wins, and
\* an earlier block's entry is overwritten.
Places(b) ==
  {[height |-> b.height, subtree |-> st - 1, leaf |-> li - 1] :
     st \in DOMAIN b.subtrees, li \in 1..SubtreeSize}
TxidAt(b, place) == b.subtrees[place.subtree + 1][place.leaf + 1]
PlacesOf(b, txid) ==
  {p \in Places(b) : p.leaf < Len(b.subtrees[p.subtree + 1]) /\ TxidAt(b, p) = txid}
LastPlace(places) ==
  CHOOSE p \in places : \A q \in places :
     q.subtree < p.subtree \/ (q.subtree = p.subtree /\ q.leaf <= p.leaf)

TxidsIn(b) == UNION {Range(b.subtrees[st]) : st \in DOMAIN b.subtrees}

-----------------------------------------------------------------------------
NodeInit ==
  /\ blocks = << >>
  /\ txIndex = << >>
  /\ onBest = {}
  /\ reorgs = 0

\* Mutant of SealBlock: the best chain is marked with the height read after
\* the append.
SealBlockLateHeight(batch, commitAccumulator) ==
  /\ Len(blocks) < MaxBlocks
  /\ batch # << >>
  /\ LET b == SealedBlock([i \in DOMAIN batch |-> TXID(batch[i])], commitAccumulator)
     IN  /\ blocks' = Append(blocks, b)
         /\ txIndex' = [txid \in DOMAIN txIndex \cup TxidsIn(b) |->
                          IF txid \in TxidsIn(b) THEN LastPlace(PlacesOf(b, txid))
                          ELSE txIndex[txid]]
         /\ onBest' = onBest \cup {b.height + 1}
  /\ UNCHANGED reorgs

\* SealBlock, under the lock.  An empty block is refused without a trace.
SealBlock(batch, commitAccumulator) ==
  /\ Len(blocks) < MaxBlocks
  /\ batch # << >>
  /\ LET b == SealedBlock([i \in DOMAIN batch |-> TXID(batch[i])], commitAccumulator)
     IN  /\ blocks' = Append(blocks, b)
         /\ txIndex' = [txid \in DOMAIN txIndex \cup TxidsIn(b) |->
                          IF txid \in TxidsIn(b) THEN LastPlace(PlacesOf(b, txid))
                          ELSE txIndex[txid]]
         /\ onBest' = onBest \cup {b.height}
  /\ UNCHANGED reorgs

\* A reorg is simulated by taking a block off the best chain and putting it
\* back; nothing else of the node follows.
Orphan(h) ==
  /\ reorgs < MaxReorgs
  /\ h \in onBest
  /\ onBest' = onBest \ {h}
  /\ reorgs' = reorgs + 1
  /\ UNCHANGED <<blocks, txIndex>>

Restore(h) ==
  /\ reorgs < MaxReorgs
  /\ h \in Heights \ onBest
  /\ onBest' = onBest \cup {h}
  /\ reorgs' = reorgs + 1
  /\ UNCHANGED <<blocks, txIndex>>

-----------------------------------------------------------------------------
(***************************************************************************)
(* ProofSource.  Each read is one lock-free look at the maps; the caller   *)
(* makes several of them, and a block may be sealed in between.            *)
(***************************************************************************)
Known(txid) == txid \in DOMAIN txIndex

\* SubtreePathFor: the L1 path and the subtree root it folds to.
SubtreePathFor(txid) ==
  LET e == txIndex[txid]
      b == Block(e.height)
  IN  [path |-> MerklePath(SubtreeTree(b, e.subtree), e.leaf),
       root |-> SubtreeRoots(b)[e.subtree + 1]]

LocateTx(txid) == txIndex[txid].height

\* BlockPathFor looks the subtree up by its root, the first that matches;
\* a root that is not of this block is an error.
SubtreesWithRoot(root, h) ==
  {i \in DOMAIN Block(h).subtrees : SubtreeRoots(Block(h))[i] = root}
HasSubtree(root, h) == SubtreesWithRoot(root, h) # {}
BlockPathFor(root, h) ==
  LET first == CHOOSE i \in SubtreesWithRoot(root, h) :
                 \A j \in SubtreesWithRoot(root, h) : i <= j
  IN  MerklePath(BlockLayers(Block(h)), first - 1)

HeaderFor(h) == Block(h).header

\* The anchor material of a carrying block: L0 of the accRoot field, L1 of
\* leaf 0 of subtree 0, L2 of subtree 0.
GenTxAccumulator(h) ==
  LET b == Block(h)
  IN  [fields |-> b.genFields,
       accRoot |-> b.genFields[AccRootField + 1].Bytes,
       l0 |-> MTxIDPath(b.genFields, AccRootField),
       l1 |-> MerklePath(SubtreeTree(b, 0), 0),
       l2 |-> MerklePath(BlockLayers(b), 0)]

\* A target is provable in a carrier sealed after it.
InCommittedPrefix(target, carrier) ==
  Block(carrier).isCarrier /\ target < Block(carrier).accPrefix
ProveHeaderInAccumulator(target, carrier) ==
  ProveBlock([i \in 1..Block(carrier).accPrefix |-> DoubleSHA256(blocks[i].header)], target)

(***************************************************************************)
(* HeaderChain.  A view is the set of headers it contains: the node's own  *)
(* is the headers of its best chain, a pruned one is any set somebody      *)
(* chose to trust (NewStaticHeaderChain).                                  *)
(***************************************************************************)
ViewContains(view, hdr) == hdr \in view
NodeView == {HeaderFor(h) : h \in onBest}
=============================================================================
