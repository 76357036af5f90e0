--------------------------- MODULE BundleLifecycle ---------------------------
(***************************************************************************)
(* The life of the proof bundle one wallet holds (bundle/bundle.go): it is *)
(* built from four reads of the node, ages while the node seals and        *)
(* reorganises blocks, is given an L4 anchor, is verified against views of *)
(* the chain, and is re-anchored.                                          *)
(*                                                                         *)
(* Build, Reanchor and fabric.Fetch make the same four reads in the same   *)
(* order.  Each read is one step; the node acts between them.              *)
(***************************************************************************)
EXTENDS Teranode

CONSTANTS
  Coin,       \* the transaction whose output the wallet holds
  NoBundle,   \* nothing built yet
  NoAnchor    \* Anchor == nil

ASSUME CoinAssumption == Coin \in Txs

VARIABLES
  bundle,   \* the bundle held
  pc,       \* the read that the call under way makes next, "idle" between calls
  draft,    \* the bundle that call will write
  read      \* what it has read so far

walletVars == <<bundle, pc, draft, read>>
vars == <<nodeVars, walletVars>>

Nothing == [l1 |-> << >>, root |-> ZeroHash, height |-> 0, l2 |-> << >>]
NoHeader == [height |-> 0, root |-> ZeroHash]

Init ==
  /\ NodeInit
  /\ bundle = NoBundle
  /\ pc = "idle"
  /\ draft = NoBundle
  /\ read = Nothing

-----------------------------------------------------------------------------
(***************************************************************************)
(* Verify and NeedsReanchor: no state, no network, any view of the chain   *)
(* but a nil one.  A nil headersView is where they part: Verify refuses,   *)
(* as on an empty view (bundle.go:139, 143), and NeedsReanchor answers     *)
(* FALSE (bundle.go:190).  A bundle here reveals one field, as Build makes *)
(* it; one that was decoded without any is refused as "L0" (121).          *)
(***************************************************************************)
\* Mutant of AnchorBindsToChain: the carrying header need not be on the chain.
AnchorBindsToNothing(a, view) ==
  /\ HeaderMerkleRoot(a.CarryingHeader) = a.CarryingBlockMerkleRoot
  /\ VerifyAnchor(a.AccRoot, a.GenTxFields, a.GenL0, a.GenL1, a.GenL2,
                  a.CarryingBlockMerkleRoot)

AnchorBindsToChain(a, view) ==
  /\ ViewContains(view, a.CarryingHeader)
  /\ HeaderMerkleRoot(a.CarryingHeader) = a.CarryingBlockMerkleRoot
  /\ VerifyAnchor(a.AccRoot, a.GenTxFields, a.GenL0, a.GenL1, a.GenL2,
                  a.CarryingBlockMerkleRoot)

\* The anchor test both of them make of a header that the view lacks.
Anchored(b, view) ==
  /\ b.anchor # NoAnchor
  /\ AnchorBindsToChain(b.anchor, view)
  /\ VerifyBlockInChain(b.header, b.anchor.AccPath, b.anchor.AccRoot)

BlockRootOf(b) == Fold(Fold(b.txid, b.l1), b.l2)

\* The reason Verify gives, "" when it accepts; the first failing step names it.
Verdict(b, view) ==
  IF DepthOverflow(b.l0, b.l1, b.l2) THEN "depth-overflow"
  ELSE IF Fold(LeafForField(b.field), b.l0) # b.txid THEN "L0"
  ELSE IF BlockRootOf(b) # HeaderMerkleRoot(b.header) THEN "L3-bind"
  ELSE IF ViewContains(view, b.header) \/ Anchored(b, view) THEN ""
  ELSE "L3/L4-chain"

Verify(b, view) == Verdict(b, view) = ""

\* Mutant of NeedsReanchor: any bound anchor will do, even of another header.
NeedsReanchorUnlessBound(b, view) ==
  /\ ~ViewContains(view, b.header)
  /\ b.anchor # NoAnchor => ~AnchorBindsToChain(b.anchor, view)

NeedsReanchor(b, view) == ~ViewContains(view, b.header) /\ ~Anchored(b, view)

-----------------------------------------------------------------------------
(***************************************************************************)
(* The calls                                                               *)
(***************************************************************************)

\* Build: L0 from the full field set of the coin, one field revealed.
CallBuild(reveal) ==
  /\ pc = "idle" /\ bundle = NoBundle
  /\ pc' = "subtree"
  /\ draft' = [txid |-> TXID(Coin), field |-> FieldsOf[Coin][reveal + 1],
               l0 |-> MTxIDPath(FieldsOf[Coin], reveal),
               l1 |-> << >>, l2 |-> << >>, header |-> NoHeader, anchor |-> NoAnchor]
  /\ UNCHANGED <<nodeVars, bundle, read>>

\* Reanchor: whatever NeedsReanchor says, all of L1, L2 and L3 are re-read.
CallReanchor ==
  /\ pc = "idle" /\ bundle # NoBundle
  /\ pc' = "subtree"
  /\ draft' = bundle
  /\ UNCHANGED <<nodeVars, bundle, read>>

\* An error of any read is returned at once; the bundle stays as it was.
Fail ==
  /\ pc' = "idle" /\ draft' = NoBundle /\ read' = Nothing
  /\ UNCHANGED <<nodeVars, bundle>>

ReadSubtreePath ==
  /\ pc = "subtree"
  /\ IF Known(draft.txid)
     THEN /\ read' = [read EXCEPT !.l1 = SubtreePathFor(draft.txid).path,
                                  !.root = SubtreePathFor(draft.txid).root]
          /\ pc' = "locate"
          /\ UNCHANGED <<nodeVars, bundle, draft>>
     ELSE Fail

\* A transaction is never forgotten, so this read succeeds after the first.
ReadLocation ==
  /\ pc = "locate"
  /\ read' = [read EXCEPT !.height = LocateTx(draft.txid)]
  /\ pc' = "path"
  /\ UNCHANGED <<nodeVars, bundle, draft>>

\* Mutant of ReadBlockPath: a failed call never returns.
ReadBlockPathHangs ==
  /\ pc = "path" /\ HasSubtree(read.root, read.height)
  /\ read' = [read EXCEPT !.l2 = BlockPathFor(read.root, read.height)]
  /\ pc' = "header"
  /\ UNCHANGED <<nodeVars, bundle, draft>>

\* The subtree root read first must be one of the block located second.
ReadBlockPath ==
  /\ pc = "path"
  /\ IF HasSubtree(read.root, read.height)
     THEN /\ read' = [read EXCEPT !.l2 = BlockPathFor(read.root, read.height)]
          /\ pc' = "header"
          /\ UNCHANGED <<nodeVars, bundle, draft>>
     ELSE Fail

\* Mutant of ReadHeader: the transaction is located again for the header.
ReadHeaderRelocated ==
  /\ pc = "header"
  /\ bundle' = [draft EXCEPT !.l1 = read.l1, !.l2 = read.l2,
                             !.header = HeaderFor(LocateTx(draft.txid))]
  /\ pc' = "idle" /\ draft' = NoBundle /\ read' = Nothing
  /\ UNCHANGED nodeVars

\* The last read; Build returns the bundle, Reanchor overwrites L1 to L3 of
\* it and leaves its L0 and its anchor alone.
ReadHeader ==
  /\ pc = "header"
  /\ bundle' = [draft EXCEPT !.l1 = read.l1, !.l2 = read.l2,
                             !.header = HeaderFor(read.height)]
  /\ pc' = "idle" /\ draft' = NoBundle /\ read' = Nothing
  /\ UNCHANGED nodeVars

\* The anchor that the node's material gives for the block of target.
AnchorFrom(target, carrier) ==
  LET gen == GenTxAccumulator(carrier)
  IN  [AccRoot |-> gen.accRoot, AccPath |-> ProveHeaderInAccumulator(target, carrier),
       GenTxFields |-> gen.fields, GenL0 |-> gen.l0, GenL1 |-> gen.l1, GenL2 |-> gen.l2,
       CarryingBlockMerkleRoot |-> HeaderMerkleRoot(HeaderFor(carrier)),
       CarryingHeader |-> HeaderFor(carrier)]

\* An anchor is attached for the block in which the coin is found now, as
\* the tests compose it; no function of the package does it.
AttachAnchor(carrier) ==
  /\ pc = "idle" /\ bundle # NoBundle
  /\ carrier \in Heights
  /\ InCommittedPrefix(LocateTx(bundle.txid), carrier)
  /\ bundle' = [bundle EXCEPT !.anchor = AnchorFrom(LocateTx(bundle.txid), carrier)]
  /\ UNCHANGED <<nodeVars, pc, draft, read>>

FetchStep == ReadSubtreePath \/ ReadLocation \/ ReadBlockPath \/ ReadHeader

(***************************************************************************)
(* The node's steps.  A transaction is mined again only when no block of   *)
(* the best chain has it: the rule of the miners, not of SealBlock.        *)
(***************************************************************************)
BlocksWith(t) == {h \in Heights : TXID(t) \in TxidsIn(Block(h))}
Mineable(batch) == \A t \in Range(batch) : BlocksWith(t) \cap onBest = {}

NodeStep ==
  /\ \/ \E batch \in Batches, commit \in BOOLEAN :
          Mineable(batch) /\ SealBlock(batch, commit)
     \/ \E h \in Heights : Orphan(h) \/ Restore(h)
  /\ UNCHANGED walletVars

Next ==
  \/ NodeStep
  \/ \E reveal \in 0..(Len(FieldsOf[Coin]) - 1) : CallBuild(reveal)
  \/ CallReanchor
  \/ FetchStep
  \/ \E carrier \in Heights : AttachAnchor(carrier)

Spec == Init /\ [][Next]_vars

(***************************************************************************)
(* A call that was begun runs to its end, the wallet builds its bundle,    *)
(* and it calls Reanchor whenever NeedsReanchor says so.  The last two are *)
(* the policy of the callers of the package, not of the package.  Nothing  *)
(* is asked of the node.                                                   *)
(***************************************************************************)
Maintain == bundle # NoBundle /\ NeedsReanchor(bundle, NodeView) /\ CallReanchor

FairSpec ==
  /\ Spec
  /\ WF_vars(FetchStep)
  /\ WF_vars(\E reveal \in 0..(Len(FieldsOf[Coin]) - 1) : CallBuild(reveal))
  /\ WF_vars(Maintain)

-----------------------------------------------------------------------------
(***************************************************************************)
(* Properties                                                              *)
(***************************************************************************)

TypeOK ==
  /\ Len(blocks) <= MaxBlocks /\ reorgs <= MaxReorgs
  /\ onBest \subseteq Heights
  /\ \A txid \in DOMAIN txIndex : txIndex[txid].height \in Heights
  /\ pc \in {"idle", "subtree", "locate", "path", "header"}
  /\ pc = "idle" <=> draft = NoBundle
  /\ \A b \in {bundle, draft} \ {NoBundle} :
       DOMAIN b = {"txid", "field", "l0", "l1", "l2", "header", "anchor"}

\* The L1 and L2 paths of a transaction in the block at height h.
PathsIn(txid, h) ==
  {<<MerklePath(SubtreeTree(Block(h), p.subtree), p.leaf),
     MerklePath(BlockLayers(Block(h)), p.subtree)>> : p \in PlacesOf(Block(h), txid)}

\* Build, Reanchor: four reads with blocks sealed, orphaned and restored in
\* between either fail or give the paths and the header of one block that
\* has the transaction, never parts of two.
FetchFailsSafe ==
  bundle # NoBundle =>
    \E h \in BlocksWith(Coin) :
      /\ bundle.header = HeaderFor(h)
      /\ <<bundle.l1, bundle.l2>> \in PathsIn(bundle.txid, h)

\* Verify, for a verifier with any set of headers: it accepts exactly when
\* it has the header of the bundle's block, or has that of a block sealed
\* later whose generation transaction commits the header and for which the
\* anchor was made.  An anchor kept over a re-anchoring proves nothing of
\* the new block, and an anchor whose carrier the verifier lacks nothing.
VerifyIsExact ==
  bundle # NoBundle =>
    \A view \in SUBSET {HeaderFor(h) : h \in Heights} :
      Verify(bundle, view) <=>
        \/ bundle.header \in view
        \/ \E h \in BlocksWith(Coin), c \in Heights :
             /\ bundle.header = HeaderFor(h)
             /\ InCommittedPrefix(h, c) /\ h < c
             /\ HeaderFor(c) \in view
             /\ bundle.anchor = AnchorFrom(h, c)

\* NeedsReanchor repeats the chain checks of Verify: on every view the one
\* asks for maintenance exactly when the other refuses.
MaintenanceAgrees ==
  bundle # NoBundle =>
    \A view \in SUBSET {HeaderFor(h) : h \in Heights} :
      NeedsReanchor(bundle, view) <=> ~Verify(bundle, view)

\* Once the block that last sealed the coin stays on the best chain, the
\* wallet ends with a bundle that the node's chain accepts, for good: no
\* torn call, no reorganisation and no stale anchor leaves it without one.
Settled ==
  /\ BlocksWith(Coin) # {}
  /\ \E h \in BlocksWith(Coin) \cap onBest : \A k \in BlocksWith(Coin) : k <= h
SettledCoinVerifies ==
  <>[]Settled => <>[](bundle # NoBundle /\ Verify(bundle, NodeView))

\* I-B1: a Reanchor leaves L1, L2 and the header of a bundle alone while its
\* block is the one block of the best chain that has the coin.
FrozenCore ==
  [][(bundle # NoBundle /\ bundle' # NoBundle
      /\ \E h \in BlocksWith(Coin) : BlocksWith(Coin) \cap onBest = {h}
                                     /\ bundle.header = HeaderFor(h))
     => /\ bundle'.l1 = bundle.l1 /\ bundle'.l2 = bundle.l2
        /\ bundle'.header = bundle.header]_bundle
=============================================================================
