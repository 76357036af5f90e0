---------------------------- MODULE FabricBatch ----------------------------
(***************************************************************************)
(* Batch verification with work shared between proofs (fabric/fabric.go,   *)
(* BatchVerify, and fabric/stream.go, Verifier.VerifyWire, which runs the  *)
(* same loop over the encoded batch with maps it keeps from call to call). *)
(*                                                                         *)
(* One step verifies one proof.  The chain, which the verifier looks at    *)
(* without a lock, may be reorganised between two steps.  BatchVerify keys *)
(* its maps by subtree roots; VerifyWire numbers the roots in order of     *)
(* appearance and packs number, level and index of a node into one word.   *)
(*                                                                         *)
(* The chain is there: with a nil one, which both take, no header is       *)
(* looked up and a proof is of whatever header it comes with.              *)
(***************************************************************************)
EXTENDS Commitment

CONSTANTS
  Txs,         \* transactions
  Blocks,      \* block names
  SubtreesOf,  \* their subtrees, sequences of txids
  Batches,     \* the batches somebody may hand in
  WordWidth,   \* bits of a word, and siblings VerifyWire has room for: 64
  IndexWidth,  \* bits below the level in a packed key: 32
  LevelWidth,  \* bits of the level, below the number: 8
  MaxCalls,    \* bound: batches verified
  MaxReorgs    \* bound: blocks orphaned or restored

\* Consensus txids, digests of whole transactions, of which none is 64 bytes long.
\* (A block that carries an anchor, with the field-tree id of its coinbase for its
\* first leaf, is not among the blocks.)
Txid == {DoubleSHA256(t) : t \in Txs}

-----------------------------------------------------------------------------
(***************************************************************************)
(* Blocks and what fabric.Fetch answers for their transactions.            *)
(***************************************************************************)
SubtreeRoots(b) == [st \in DOMAIN SubtreesOf[b] |-> MerkleRoot(SubtreesOf[b][st])]
Header(b) == [block |-> b, root |-> MerkleRoot(SubtreeRoots(b))]
HeaderMerkleRoot(hdr) == hdr.root

\* The proof of leaf li of subtree st, as Fetch assembles it.
ProofOf(b, st, li) ==
  [Leaf |-> SubtreesOf[b][st][li],
   L1 |-> MerklePath(BuildMerkleTree(SubtreesOf[b][st]), li - 1),
   SubtreeRoot |-> SubtreeRoots(b)[st],
   L2 |-> MerklePath(BuildMerkleTree(SubtreeRoots(b)), st - 1),
   Header |-> Header(b)]
ProofsOf(b) ==
  UNION {{ProofOf(b, st, li) : li \in DOMAIN SubtreesOf[b][st]} : st \in DOMAIN SubtreesOf[b]}

OnChain(hdr, chain) == hdr.block \in chain

\* A proof on its own.
VerifyOne(p, chain) ==
  /\ Fold(p.Leaf, p.L1) = p.SubtreeRoot
  /\ Fold(p.SubtreeRoot, p.L2) = HeaderMerkleRoot(p.Header)
  /\ OnChain(p.Header, chain)

-----------------------------------------------------------------------------
\* A word is the set of its bits that are set.
Bits(n) == {k \in 0..n : Shifted(n)[k] % 2 = 1}
MovedLeft(bits, by) == {k + by : k \in bits} \cap 0..(WordWidth - 1)

\* The place of a node of a path in its level: leafIndex has a bit per side on the
\* way up, those that a word has, and shifted by a level keeps the ones above it.
NodeIndex(path, level) ==
  {k - level - 1 : k \in {j \in (level + 1)..Len(path) : j <= WordWidth /\ ~path[j].Right}}

(***************************************************************************)
(* Any digest and any two paths may come with any subtree root.  The root  *)
(* in a header is part of its bytes, and no digest is above itself.        *)
(***************************************************************************)
Presentable(p) ==
  /\ p.L1 \in Seq(Range(p.L1)) /\ p.L2 \in Seq(Range(p.L2))
  /\ p.Header.block \in Blocks => p.Header = Header(p.Header.block)
  /\ \A g, h \in 0..Len(p.L1) :
       Climbed(p.Leaf, p.L1)[g] = Climbed(p.Leaf, p.L1)[h] => g = h

\* A key has room for every level, and for the indexes in a mined subtree, which
\* has at most 2^MaxSubtreeDepth txids.
ASSUME BatchAssumption ==
  /\ \A b \in Blocks :
       /\ SubtreesOf[b] \in Seq(Seq(Txid) \ {<< >>}) \ {<< >>}
       /\ \A st \in DOMAIN SubtreesOf[b] : CeilLog2(Len(SubtreesOf[b][st])) <= IndexWidth + 1
  /\ \A proofs \in Batches :
       proofs \in Seq(Range(proofs)) /\ \A i \in DOMAIN proofs : Presentable(proofs[i])
  /\ IndexWidth \in Nat /\ LevelWidth \in Nat \ {0} /\ WordWidth \in Nat
  /\ LevelWidth + IndexWidth <= WordWidth
  /\ \A l \in 0..WordWidth : Bits(l) \subseteq 0..(LevelWidth - 1)
  /\ MaxCalls \in Nat /\ MaxReorgs \in Nat

VARIABLES
  onBest,     \* blocks whose header is on the chain
  batch,      \* the proofs of the call under way
  wire,       \* that call is VerifyWire, not BatchVerify
  next,       \* the first proof not verified yet, 0 between calls
  verdict,    \* of the last call: "none", "accepted" or "rejected"
  ids,        \* the subtree roots met, in order: the place of one is its number
  memo,       \* node key -> the digest computed for that node
  subtreeOK,  \* subtree roots whose path to a block was checked
  headerOK,   \* headers found on the chain
  seen,       \* history: the chain at every moment of the call
  calls, reorgs

verifierVars == <<ids, memo, subtreeOK, headerOK>>
vars == <<onBest, batch, wire, next, verdict, verifierVars, seen, calls, reorgs>>

-----------------------------------------------------------------------------
(***************************************************************************)
(* One proof of a batch.                                                   *)
(***************************************************************************)

\* The roots met once this one is, and its number: the first one's is 0.
Met(root) == IF root \in Range(ids) THEN ids ELSE Append(ids, root)
Id(root) == (CHOOSE n \in DOMAIN Met(root) : Met(root)[n] = root) - 1

\* Mutant of PackedKey: the level is left out.
PackedKeyNoLevel(id, level, index) == MovedLeft(Bits(id), LevelWidth + IndexWidth) \cup index

\* Number, level and index in one word, one OR the other: the bits of a number
\* that do not fit are lost, and an index of more than IndexWidth bits covers some
\* of the level's and of the number's.
PackedKey(id, level, index) ==
  MovedLeft(Bits(id), LevelWidth + IndexWidth) \cup MovedLeft(Bits(level), IndexWidth) \cup index

NodeKey(root, level, path) ==
  LET index == NodeIndex(path, level)
  IN  IF wire THEN PackedKey(Id(root), level, index) ELSE <<root, level, index>>

\* memo[k] = parent.
Remember(m, k, parent) == [n \in DOMAIN m \cup {k} |-> IF n = k THEN parent ELSE m[n]]

\* Mutant of ClimbStep: a known node is not compared.
ClimbStepTrusting(s, k, up) ==
  IF s.end # "root" THEN s
  ELSE IF k \in DOMAIN s.memo THEN [s EXCEPT !.end = "merged"]
  ELSE [s EXCEPT !.memo = Remember(@, k, up), !.cur = up]

(***************************************************************************)
(* L1 from the leaf up: a node that an earlier proof computed ends the     *)
(* climb, "merged" when it is the same and "clash" when it is not;         *)
(* otherwise the node is remembered and the climb ends at the "root".      *)
(***************************************************************************)
ClimbStep(s, k, up) ==
  IF s.end # "root" THEN s
  ELSE IF k \in DOMAIN s.memo
  THEN [s EXCEPT !.end = IF s.memo[k] = up THEN "merged" ELSE "clash"]
  ELSE [s EXCEPT !.memo = Remember(@, k, up), !.cur = up]

Climbing(p, m) ==
  LET s[j \in 0..Len(p.L1)] ==
        IF j = 0 THEN [cur |-> p.Leaf, memo |-> m, end |-> "root"]
        ELSE ClimbStep(s[j - 1], NodeKey(p.SubtreeRoot, j, p.L1), Parent(s[j - 1].cur, p.L1[j]))
  IN  s
Climb(p, m) == Climbing(p, m)[Len(p.L1)]

\* VerifyWire has no room for a longer L1.
Read(p) == wire => Len(p.L1) <= WordWidth

SubtreeReached(p, climb) ==
  climb.end = "merged" \/ (climb.end = "root" /\ climb.cur = p.SubtreeRoot)

\* L2, once per subtree.
BlockReached(p) ==
  p.SubtreeRoot \in subtreeOK \/ Fold(p.SubtreeRoot, p.L2) = HeaderMerkleRoot(p.Header)

\* L3, once per header.
HeaderReached(p) == p.Header \in headerOK \/ OnChain(p.Header, onBest)

-----------------------------------------------------------------------------
Init ==
  /\ onBest = Blocks
  /\ batch = << >> /\ wire = FALSE /\ next = 0 /\ verdict = "none"
  /\ ids = << >> /\ memo = << >> /\ subtreeOK = {} /\ headerOK = {}
  /\ seen = {} /\ calls = 0 /\ reorgs = 0

\* A call: the maps are new in BatchVerify and cleared in VerifyWire.
Start(proofs, form) ==
  /\ next = 0 /\ calls < MaxCalls
  /\ batch' = proofs /\ wire' = form /\ next' = 1 /\ verdict' = "none"
  /\ ids' = << >> /\ memo' = << >> /\ subtreeOK' = {} /\ headerOK' = {}
  /\ seen' = {onBest} /\ calls' = calls + 1
  /\ UNCHANGED <<onBest, reorgs>>

\* The proof passes all three levels and leaves what it computed behind.
VerifyNext ==
  /\ next \in DOMAIN batch
  /\ LET p == batch[next]
         climb == Climb(p, memo)
     IN  /\ Read(p) /\ SubtreeReached(p, climb) /\ BlockReached(p) /\ HeaderReached(p)
         /\ ids' = Met(p.SubtreeRoot)
         /\ memo' = climb.memo
         /\ subtreeOK' = subtreeOK \cup {p.SubtreeRoot}
         /\ headerOK' = headerOK \cup {p.Header}
  /\ next' = next + 1
  /\ UNCHANGED <<onBest, batch, wire, verdict, seen, calls, reorgs>>

\* The first proof that fails a level ends the call.  What it left in the
\* maps is never read again.
RejectNext ==
  /\ next \in DOMAIN batch
  /\ LET p == batch[next]
     IN  ~(Read(p) /\ SubtreeReached(p, Climb(p, memo)) /\ BlockReached(p) /\ HeaderReached(p))
  /\ next' = 0 /\ verdict' = "rejected"
  /\ UNCHANGED <<onBest, batch, wire, verifierVars, seen, calls, reorgs>>

Accept ==
  /\ next = Len(batch) + 1
  /\ next' = 0 /\ verdict' = "accepted"
  /\ UNCHANGED <<onBest, batch, wire, verifierVars, seen, calls, reorgs>>

\* A block leaves the chain or comes back.
Reorganise(b) ==
  /\ reorgs < MaxReorgs
  /\ onBest' = IF b \in onBest THEN onBest \ {b} ELSE onBest \cup {b}
  /\ seen' = IF next = 0 THEN seen ELSE seen \cup {onBest'}
  /\ reorgs' = reorgs + 1
  /\ UNCHANGED <<batch, wire, next, verdict, verifierVars, calls>>

Next ==
  \/ \E proofs \in Batches, form \in BOOLEAN : Start(proofs, form)
  \/ VerifyNext \/ RejectNext \/ Accept
  \/ \E b \in Blocks : Reorganise(b)

Spec == Init /\ [][Next]_vars

-----------------------------------------------------------------------------
(***************************************************************************)
(* Properties                                                              *)
(***************************************************************************)

Genuine(p) == \E b \in Blocks : p \in ProofsOf(b)

\* The nodes of a tree, and of all the trees of a block.
TreeNodes(leaves) == UNION {Range(layer) : layer \in Range(BuildMerkleTree(leaves))}
NodesOf(b) ==
  TreeNodes(SubtreeRoots(b)) \cup
  UNION {TreeNodes(SubtreesOf[b][st]) : st \in DOMAIN SubtreesOf[b]}

\* Every L2 of the batch is as long as the tree of its block is deep.
CutAtSubtrees ==
  \A i \in DOMAIN batch :
    Len(batch[i].L2) = CeilLog2(Len(SubtreesOf[batch[i].Header.block]))

\* The numbers the roots of the batch may get fit above the level, and the indexes
\* of its paths below it.
NumbersFit ==
  \A n \in DOMAIN batch : Bits(n - 1) \subseteq 0..(WordWidth - LevelWidth - IndexWidth - 1)
KeysApart == wire => NumbersFit /\ \A i \in DOMAIN batch : Len(batch[i].L1) <= IndexWidth + 1

\* The maps never make the verifier accept what no block commits, wherever the
\* proofs are cut into L1 and L2 and whatever keys run into each other.  What
\* every proof of an accepted batch calls its leaf is a node of a block that was
\* on the chain during this call (any node: nothing asks that it is a leaf), so
\* a txid there is mined.  When the proofs are cut at the subtrees and no keys can
\* run into each other, it is a node of the subtree that the proof names.
AcceptedLeavesIncluded ==
  verdict = "accepted" =>
    \A i \in DOMAIN batch :
      LET p == batch[i]
      IN  \E b \in UNION seen :
            /\ p.Leaf \in NodesOf(b)
            /\ p.Leaf \in Txid =>
                 \E st \in DOMAIN SubtreesOf[b] : p.Leaf \in Range(SubtreesOf[b][st])
            /\ CutAtSubtrees /\ KeysApart =>
                 \E st \in DOMAIN SubtreesOf[b] :
                   p.SubtreeRoot = SubtreeRoots(b)[st] /\ p.Leaf \in TreeNodes(SubtreesOf[b][st])

\* The maps never make the verifier refuse a batch of proofs that Fetch
\* gave, in any order and with repetitions, whose blocks stay on the chain
\* during the call; proofs that share nodes agree on them, and a packed key
\* names one node, unless there are more subtrees than it has numbers for.
GenuineBatchAccepted ==
  verdict = "rejected" =>
    \/ wire /\ ~NumbersFit
    \/ \E i \in DOMAIN batch :
         ~Genuine(batch[i]) \/ \E chain \in seen : ~OnChain(batch[i].Header, chain)

\* "whether ALL proofs are valid": each proof of an accepted batch is one
\* that VerifyOne accepts on the chain of some moment of the call.
AcceptedAreAllValid ==
  verdict = "accepted" =>
    \A i \in DOMAIN batch : \E chain \in seen : VerifyOne(batch[i], chain)
=============================================================================
