------------------------------- MODULE Lanes --------------------------------
(***************************************************************************)
(* Folding Merkle paths and building trees many hashes at a time           *)
(* (bench/fabric16.go, bench/blockverify.go over internal/sha256mb).  One  *)
(* call of the kernel hashes as many pairs as there are lanes, each on its *)
(* own.  The lanes' message buffers live on from call to call.             *)
(***************************************************************************)
EXTENDS Commitment, FiniteSets

CONSTANT Lanes    \* 16 in the code

ASSUME LanesAssumption == Lanes \in Nat \ {0}

Lane == 1..Lanes

\* DoubleSHA256x16: lane k hashes message k, a pair of digests.
DoubleSHA256xN(msgs) == [k \in Lane |-> HashPair(msgs[k].left, msgs[k].right)]

Message(node, e) ==
  IF e.Right THEN [left |-> node, right |-> e.Sibling]
             ELSE [left |-> e.Sibling, right |-> node]

\* The levels are those of the first lane's path: a shorter one is read beyond
\* its end, which panics, and of a longer one the rest is left out.
Foldable(paths) == \A k \in Lane : Len(paths[k]) >= Len(paths[1])

\* Mutant of FoldLanes: the last level is left out.
FoldLanesShort(nodes, paths) ==
  LET top == IF paths[1] = << >> THEN 0 ELSE Len(paths[1]) - 1
      now[j \in 0..top] ==
        IF j = 0 THEN nodes
        ELSE DoubleSHA256xN([k \in Lane |-> Message(now[j - 1][k], paths[k][j])])
  IN  now[top]

\* fold16, for paths that are Foldable: what the lanes hold level by level.
LaneNodes(nodes, paths) ==
  LET now[j \in 0..Len(paths[1])] ==
        IF j = 0 THEN nodes
        ELSE DoubleSHA256xN([k \in Lane |-> Message(now[j - 1][k], paths[k][j])])
  IN  now
FoldLanes(nodes, paths) == LaneNodes(nodes, paths)[Len(paths[1])]

WholeGroups(n) == (n \div Lanes) * Lanes

(***************************************************************************)
(* CountValid16: the proofs of whole groups whose L1 ends at a subtree     *)
(* root that is valid by the L2 of the first proof that names it.          *)
(***************************************************************************)
ValidByFirst(proofs, root) ==
  \E i \in DOMAIN proofs :
    /\ proofs[i].SubtreeRoot = root
    /\ \A h \in 1..(i - 1) : proofs[h].SubtreeRoot # root
    /\ Fold(root, proofs[i].L2) = proofs[i].BlockRoot

GroupRoots(proofs, base) ==
  FoldLanes([k \in Lane |-> proofs[base + k].Leaf], [k \in Lane |-> proofs[base + k].L1])

CountValid16(proofs) ==
  Cardinality({i \in 1..WholeGroups(Len(proofs)) :
                 LET base == ((i - 1) \div Lanes) * Lanes
                 IN  /\ GroupRoots(proofs, base)[i - base] = proofs[i].SubtreeRoot
                     /\ ValidByFirst(proofs, proofs[i].SubtreeRoot)})

-----------------------------------------------------------------------------
(***************************************************************************)
(* One group of a level: the lanes in use get their pair, the others keep  *)
(* what an earlier call left in them; their digests are not taken.         *)
(***************************************************************************)
\* Mutant: an odd last node does not overwrite the right half of its lane.
LevelGroupStaleRight(cur, s, base) ==
  LET m    == (Len(cur) + 1) \div 2
      used == IF m - base < Lanes THEN m - base ELSE Lanes
      msgs == [k \in Lane |->
                 LET i == 2 * (base + k) - 1 IN
                 IF k > used THEN s.msgs[k]
                 ELSE [left |-> cur[i],
                       right |-> IF i < Len(cur) THEN cur[i + 1] ELSE s.msgs[k].right]]
  IN  [msgs |-> msgs, next |-> s.next \o SubSeq(DoubleSHA256xN(msgs), 1, used)]

LevelGroup(cur, s, base) ==
  LET m    == (Len(cur) + 1) \div 2
      used == IF m - base < Lanes THEN m - base ELSE Lanes
      msgs == [k \in Lane |->
                 LET i == 2 * (base + k) - 1 IN
                 IF k > used THEN s.msgs[k]
                 ELSE [left |-> cur[i],
                       right |-> IF i < Len(cur) THEN cur[i + 1] ELSE cur[i]]]
  IN  [msgs |-> msgs, next |-> s.next \o SubSeq(DoubleSHA256xN(msgs), 1, used)]

\* buildLevel16: a level from the one below, group by group.
LevelGroups(cur, msgs) ==
  LET made[g \in 0..((((Len(cur) + 1) \div 2) + Lanes - 1) \div Lanes)] ==
        IF g = 0 THEN [msgs |-> msgs, next |-> << >>]
        ELSE LevelGroup(cur, made[g - 1], (g - 1) * Lanes)
  IN  made
BuildLevel16(cur, msgs) ==
  LevelGroups(cur, msgs)[(((Len(cur) + 1) \div 2) + Lanes - 1) \div Lanes]

\* buildTree16, with the buffers of a worker that has built nothing yet.
LaneLevels(leaves) ==
  LET built[l \in 0..CeilLog2(Len(leaves))] ==
        IF l = 0 THEN [msgs |-> [k \in Lane |-> [left |-> ZeroHash, right |-> ZeroHash]],
                       next |-> leaves]
        ELSE BuildLevel16(built[l - 1].next, built[l - 1].msgs)
  IN  built
BuildTree16(leaves) == LaneLevels(leaves)[CeilLog2(Len(leaves))].next[1]
=============================================================================
