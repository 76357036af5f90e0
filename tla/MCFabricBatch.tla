--------------------------- MODULE MCFabricBatch ---------------------------
(***************************************************************************)
(* Two blocks that share a subtree, as after a reorganisation that mines   *)
(* the same transactions again, both with odd subtrees.  A key has room    *)
(* for the paths of their subtrees, and not for the longer ones of proofs  *)
(* cut further up.                                                         *)
(***************************************************************************)
EXTENDS FabricBatch, TLC

CONSTANTS b1, b2, t1, t2, t3, t4, t5, t6

Txids(txs) == [i \in DOMAIN txs |-> DoubleSHA256(txs[i])]
Mined == (b1 :> <<Txids(<<t1, t2, t3>>), Txids(<<t4, t5, t6>>)>>) @@
         (b2 :> <<Txids(<<t4>>), Txids(<<t1, t2, t3>>)>>)

AllGenuine == UNION {ProofsOf(b) : b \in Blocks}

\* A proof of b1 with its leaf or L1 taken from another, of its own subtree or of
\* the other one, or with the header of b2.
Some == {ProofOf(b1, 1, 1), ProofOf(b1, 1, 3), ProofOf(b1, 2, 1)}
Damaged ==
  UNION {{[p EXCEPT !.Leaf = q.Leaf], [p EXCEPT !.L1 = q.L1],
          [p EXCEPT !.Header = Header(b2)]} : p \in Some, q \in Some}

\* A proof of b1 cut one level further up or down.
CutUp(p) ==
  [p EXCEPT !.L1 = Append(@, Head(p.L2)), !.SubtreeRoot = Parent(@, Head(p.L2)), !.L2 = Tail(@)]
CutDown(p) ==
  [p EXCEPT !.L1 = Front(@), !.SubtreeRoot = Fold(p.Leaf, Front(p.L1)), !.L2 = <<Last(p.L1)>> \o @]
Recut == {CutUp(p) : p \in ProofsOf(b1)} \cup {CutDown(p) : p \in ProofsOf(b1)}

\* The node above the leaf in the leaf's place.
Inner(p) == [p EXCEPT !.Leaf = Parent(@, Head(p.L1)), !.L1 = Tail(@)]
FromInner == {Inner(p) : p \in ProofsOf(b1) \cup {CutUp(q) : q \in ProofsOf(b1)}}

\* A genuine proof before one of each other kind, recut ones before each other, and
\* the proofs of the two blocks mixed in threes.
Pairs == {<<p, q>> : p \in AllGenuine, q \in Damaged} \cup
         {<<p, q>> : p \in ProofsOf(b1), q \in Recut \cup FromInner} \cup
         {<<CutUp(p), q>> : p \in Some, q \in Recut \cup FromInner}
Triples == {<<p, q, r>> : p \in Some, q \in ProofsOf(b2), r \in ProofsOf(b1)}
Handed == Pairs \cup Triples
=============================================================================
