-------------------------------- MODULE Pull --------------------------------
(***************************************************************************)
(* Pulling proofs from a node with many workers (fabric/pull.go): the      *)
(* block of Hierarchy is served, and MeasurePullThroughput splits the list *)
(* of wanted txids among its workers, which serve themselves and fold the  *)
(* paths in lanes, group after group and pass after pass until time is up. *)
(* A worker's lanes keep what an earlier group left in them.  A panic of   *)
(* one worker ends the program.                                            *)
(***************************************************************************)
EXTENDS Hierarchy, Lanes

CONSTANTS
  Calls         \* the calls considered: how many txids are wanted, with how many
                \* workers, at which place is a txid of no block (0: none), and
                \* for how many passes of a worker there is time (a bound)

ASSUME PullAssumption ==
  Calls \subseteq [wanted : Nat \ {0}, cores : Nat \ {0}, unknown : Nat, passes : Nat \ {0}]

VARIABLES
  wanted,    \* txids, << >> before the call
  valid,     \* the subtree roots whose L2 path closed before the workers started
  workers,   \* the workers, in order of their shares
  count,     \* what workers that are done have added up
  panic      \* one of them has ended the program

pvars == <<txs, size, sealed, wanted, valid, workers, count, panic>>

-----------------------------------------------------------------------------
(***************************************************************************)
(* ServeInto: the transaction index has the last place of a txid.          *)
(***************************************************************************)
Served(txid) == {i \in DOMAIN txs : TXID[txs[i]] = txid}
Place(txid) == CHOOSE i \in Served(txid) : \A j \in Served(txid) : j <= i

ServedRoot(txid) == sealed.roots[SubtreeOf(Place(txid))]

\* The subtrees found valid: by the L2 of the first of the list in each.
ValidSubtrees(list) ==
  LET Known == {n \in DOMAIN list : Served(list[n]) # {}}
      IsFirst(n) == \A h \in Known : h < n => ServedRoot(list[h]) # ServedRoot(list[n])
  IN  {ServedRoot(list[n]) : n \in
        {k \in Known : /\ IsFirst(k)
                       /\ Fold(ServedRoot(list[k]), sealed.l2[Place(list[k])]) = sealed.root}}

\* The share of a worker: where it starts, and how much it has.
\* Mutant: workers with exactly one group each take everything.
PerWorkerAllIfOne(list, cores) ==
  LET per == Len(list) \div cores IN IF per <= Lanes THEN Len(list) ELSE per

PerWorker(list, cores) ==
  LET per == Len(list) \div cores IN IF per < Lanes THEN Len(list) ELSE per

ShareEnd(list, start, per) == IF start + per > Len(list) THEN Len(list) ELSE start + per

-----------------------------------------------------------------------------
PullInit ==
  /\ Init
  /\ wanted = << >> /\ valid = {} /\ workers = << >> /\ count = 0 /\ panic = FALSE

\* The block grows until it is served.
Mine(t) ==
  /\ wanted = << >>
  /\ AddTx(t)
  /\ UNCHANGED <<wanted, valid, workers, count, panic>>

\* The lists asked for: the block's own, or with one txid of no block.
Wants(call) ==
  IF call.unknown \notin DOMAIN txs THEN {Txids(txs)}
  ELSE {[Txids(txs) EXCEPT ![call.unknown] = TXID[t]] : t \in Txs \ Mined}

StartWorker(list, start, per, passes) ==
  [start |-> start, end |-> ShareEnd(list, start, per), base |-> 0, passes |-> 0, limit |-> passes,
   l1 |-> [k \in Lane |-> << >>],
   node |-> [k \in Lane |-> ZeroHash], root |-> [k \in Lane |-> ZeroHash],
   local |-> 0, done |-> FALSE]

CallMeasure(call, list) ==
  /\ wanted = << >> /\ call.wanted = Len(txs)
  /\ wanted' = list /\ valid' = ValidSubtrees(list)
  /\ LET per == PerWorker(list, call.cores)
     IN  workers' = [w \in 1..call.cores |-> StartWorker(list, (w - 1) * per, per, call.passes)]
  /\ UNCHANGED <<txs, size, sealed, count, panic>>

Running(w) == ~panic /\ ~workers[w].done

\* txids[start:end] with start beyond end.
CutShare(w) ==
  /\ Running(w) /\ workers[w].start > workers[w].end
  /\ panic' = TRUE
  /\ UNCHANGED <<txs, size, sealed, wanted, valid, workers, count>>

GroupsEnd(w) == WholeGroups(workers[w].end - workers[w].start)

\* Mutant of Fill: a lane whose txid is unknown keeps its root too.
FillKeepingRoot(w) ==
  LET txid(k)  == wanted[workers[w].start + workers[w].base + k]
      known(k) == Served(txid(k)) # {}
  IN  [l1   |-> [k \in Lane |-> IF known(k) THEN sealed.l1[Place(txid(k))] ELSE workers[w].l1[k]],
       node |-> [k \in Lane |-> IF known(k) THEN txid(k) ELSE workers[w].node[k]],
       root |-> [k \in Lane |-> IF known(k) THEN ServedRoot(txid(k)) ELSE workers[w].root[k]]]

\* What the lanes hold once a group is served: a lane whose txid is unknown
\* keeps its path and its node, and gets the zero hash for a root.
Fill(w) ==
  LET txid(k)  == wanted[workers[w].start + workers[w].base + k]
      known(k) == Served(txid(k)) # {}
  IN  [l1   |-> [k \in Lane |-> IF known(k) THEN sealed.l1[Place(txid(k))] ELSE workers[w].l1[k]],
       node |-> [k \in Lane |-> IF known(k) THEN txid(k) ELSE workers[w].node[k]],
       root |-> [k \in Lane |-> IF known(k) THEN ServedRoot(txid(k)) ELSE ZeroHash]]

Matches(nodes, roots) ==
  Cardinality({k \in Lane : nodes[k] = roots[k] /\ roots[k] \in valid})

\* One group: serve, fold in lockstep, count.
Group(w) ==
  /\ Running(w) /\ workers[w].start <= workers[w].end
  /\ workers[w].base < GroupsEnd(w)
  /\ LET lanes == Fill(w)
         nodes == FoldLanes(lanes.node, lanes.l1)
     IN  IF Foldable(lanes.l1)
         THEN /\ workers' = [workers EXCEPT ![w] =
                   [workers[w] EXCEPT !.base = @ + Lanes, !.l1 = lanes.l1, !.node = nodes, !.root = lanes.root,
                                      !.local = @ + Matches(nodes, lanes.root)]]
              /\ UNCHANGED panic
         ELSE panic' = TRUE /\ UNCHANGED workers
  /\ UNCHANGED <<txs, size, sealed, wanted, valid, count>>

PassOver(w) ==
  Running(w) /\ workers[w].start <= workers[w].end /\ workers[w].base >= GroupsEnd(w)

\* The deadline is still ahead: once more from the start of the share.
Again(w) ==
  /\ PassOver(w) /\ workers[w].passes + 1 < workers[w].limit
  /\ workers' = [workers EXCEPT ![w] = [workers[w] EXCEPT !.base = 0, !.passes = @ + 1]]
  /\ UNCHANGED <<txs, size, sealed, wanted, valid, count, panic>>

\* The deadline is over.
Finish(w) ==
  /\ PassOver(w)
  /\ workers' = [workers EXCEPT ![w] = [workers[w] EXCEPT !.done = TRUE, !.passes = @ + 1]]
  /\ count' = count + workers[w].local
  /\ UNCHANGED <<txs, size, sealed, wanted, valid, panic>>

PullNext ==
  \/ \E t \in Mined : Mine(t)
  \/ \E call \in Calls : \E list \in Wants(call) : CallMeasure(call, list)
  \/ \E w \in DOMAIN workers : CutShare(w) \/ Group(w) \/ Again(w) \/ Finish(w)

PullSpec == PullInit /\ [][PullNext]_pvars

-----------------------------------------------------------------------------
(***************************************************************************)
(* Properties                                                              *)
(***************************************************************************)

\* The root that the kernel builds level by level is the root of the tree, for
\* every number of leaves: an odd last node, a group that leaves lanes unused,
\* and what earlier calls left in them.
LaneTreeIsMerkleTree ==
  wanted = << >> => BuildTree16(Txids(txs)) = MerkleRoot(Txids(txs))

\* "tamper one leaf -> that proof (and only it) must fail" (fabric16_test.go:14),
\* whichever it is, over the whole groups of a batch whose paths are equally long.
TamperedProofAloneFails ==
  LET Proof(i) == [Leaf |-> TXID[txs[i]], L1 |-> sealed.l1[i], L2 |-> sealed.l2[i],
                   SubtreeRoot |-> sealed.roots[SubtreeOf(i)], BlockRoot |-> sealed.root]
      batch == [i \in DOMAIN txs |-> Proof(i)]
      n     == WholeGroups(Len(txs))
  IN  wanted = << >> /\ (\A i \in DOMAIN txs : Len(sealed.l1[i]) = Len(sealed.l1[1])) =>
        /\ CountValid16(batch) = n
        /\ \A i \in DOMAIN txs :
             CountValid16([batch EXCEPT ![i].Leaf = ZeroHash]) = IF i <= n THEN n - 1 ELSE n

Proven(n) ==
  LET t == wanted[n] IN
  /\ Served(t) # {}
  /\ VerifySubtreePath(t, sealed.l1[Place(t)], ServedRoot(t))
  /\ VerifyBlockPath(ServedRoot(t), sealed.l2[Place(t)], sealed.root)

AllServed == \A n \in DOMAIN wanted : Served(wanted[n]) # {}

\* "uniform length" (pull.go:98).
Uniform ==
  \A m, n \in DOMAIN wanted : Len(sealed.l1[Place(wanted[m])]) = Len(sealed.l1[Place(wanted[n])])

\* A worker counts no txid that its own proof does not prove, though lanes keep
\* the path and the node of another txid when theirs is unknown; and when all
\* are known and equally deep it counts each txid of its whole groups once in every pass.
\* No txid is in two workers' groups.
PullCountsOnlyProven ==
  LET proven == {n \in DOMAIN wanted : Proven(n)}
      First(job, length) == Cardinality(proven \cap ((job.start + 1)..(job.start + length)))
      Due(w) == workers[w].passes * First(workers[w], GroupsEnd(w))
                  + IF workers[w].done THEN 0 ELSE First(workers[w], workers[w].base)
  IN  /\ \A w \in DOMAIN workers :
           workers[w].start <= workers[w].end =>
             workers[w].local <= Due(w) /\ (AllServed /\ Uniform => workers[w].local = Due(w))
      /\ \A v, w \in DOMAIN workers :
           v < w => workers[v].start + GroupsEnd(v) <= workers[w].start

\* The program ends in a panic only if a txid is unknown, paths differ in
\* length, or a third worker got a share of a list too short for a group each
\* (pull.go:62).
PanicHasCause ==
  panic =>
    \/ ~AllServed
    \/ ~Uniform
    \/ Len(workers) > 2 /\ Len(wanted) < Lanes * Len(workers)
=============================================================================
