---------------------------- MODULE Accumulator ----------------------------
(***************************************************************************)
(* The life of one accumulator (accumulator/accumulator.go): headers are   *)
(* appended one by one, some of their blocks commit the accumulator, and   *)
(* proofs are asked for at any size.                                       *)
(***************************************************************************)
EXTENDS MMR

CONSTANTS
  Headers,      \* headers that can be appended
  Carriers,     \* those of blocks whose miner commits the accumulator
  NoProof,      \* no proof was asked for yet
  MaxHeaders    \* bound: headers appended

\* The size of an MMR is a uint64.
ASSUME AccumulatorAssumption ==
  Carriers \subseteq Headers /\ MaxHeaders \in Nat /\ CeilLog2(MaxHeaders + 1) <= 64

VARIABLES
  leaves,      \* MMR.leaves: the digests of the headers appended
  appended,    \* history: the headers appended, in order
  committed,   \* the heights whose block committed the accumulator, in order
  served       \* the last proof given out, with its header and size

accVars == <<leaves, appended, committed, served>>

Size == Len(leaves)
Tip == Size - 1

AccTypeOK ==
  /\ leaves \in Seq({DoubleSHA256(h) : h \in Headers})
  /\ appended \in Seq(Headers) /\ Len(appended) <= MaxHeaders
  /\ committed \in Seq(0..Tip)
  /\ served # NoProof => served.header \in Headers /\ served.size \in 1..Size

AccInit ==
  /\ leaves = << >>
  /\ appended = << >>
  /\ committed = << >>
  /\ served = NoProof

\* Mutant of AppendHeader: the height is read after the append.
AppendHeaderLateHeight(header) ==
  /\ Size < MaxHeaders
  /\ leaves' = Append(leaves, DoubleSHA256(header))
  /\ appended' = Append(appended, header)
  /\ committed' = IF header \in Carriers THEN Append(committed, Size + 1) ELSE committed
  /\ UNCHANGED served

\* Append: the digest of the header joins the leaves.
AppendHeader(header) ==
  /\ Size < MaxHeaders
  /\ leaves' = Append(leaves, DoubleSHA256(header))
  /\ appended' = Append(appended, header)
  /\ committed' = IF header \in Carriers THEN Append(committed, Size) ELSE committed
  /\ UNCHANGED served

\* ProveBlock: a path and the root, for a height the MMR has.
Prove(height) ==
  /\ height < Size
  /\ served' = [header |-> appended[height + 1], path |-> ProveBlock(leaves, height),
                size |-> Size]
  /\ UNCHANGED <<leaves, appended, committed>>

AccNext ==
  \/ \E h \in Headers : AppendHeader(h)
  \/ \E height \in 0..MaxHeaders : Prove(height)

AccSpec == AccInit /\ [][AccNext]_accVars

-----------------------------------------------------------------------------
(***************************************************************************)
(* Properties                                                              *)
(***************************************************************************)

\* I-A1: whatever the size, every height ever appended has a path to the
\* root at that size: no size boundary (a new peak, a merge of mountains)
\* loses one.
EveryHeightProvable ==
  \A height \in 0..Tip :
     VerifyBlockInChain(appended[height + 1], ProveBlock(leaves, height), MMRRoot(leaves))

\* A proof given out binds its header to its place: it verifies for the
\* header it was made for and for no other, against the root of its time and
\* against no root of a different prefix.
ProofBindsHeaderAndRoot ==
  served # NoProof =>
    \A header \in Headers, n \in 0..Size :
       VerifyBlockInChain(header, served.path, MMRRoot(SubSeq(leaves, 1, n)))
         <=> header = served.header /\ n = served.size

\* The root commits the whole history: a different sequence of headers of
\* any length has a different root (the mountains are perfect trees, so the
\* duplication of odd nodes, under which a block's Merkle root confuses
\* <<a, b, c>> with <<a, b, c, c>>, never applies).
RootCommitsHistory ==
  \A other \in BoundedSeq(Headers, MaxHeaders) :
     other # appended =>
       MMRRoot([i \in DOMAIN other |-> DoubleSHA256(other[i])]) # MMRRoot(leaves)

\* I-A3: the gaps reported are exactly the heights nobody committed, as
\* maximal runs in order, and NearestCommitted falls back exactly inside one,
\* to the last committed height before it.
GapsAreHonest ==
  Size > 0 =>
    LET gaps == CoverageGaps(committed, Tip)
        inGap(height) == \E i \in DOMAIN gaps :
                           gaps[i].FromHeight <= height /\ height <= gaps[i].ToHeight
    IN  /\ \A i \in 1..(Len(gaps) - 1) : gaps[i].ToHeight + 1 < gaps[i + 1].FromHeight
        /\ \A height \in 0..Tip :
             LET near == NearestCommitted(height, committed)
             IN  /\ inGap(height) <=> height \notin Range(committed)
                 /\ near.inGap <=> inGap(height)
                 /\ near.h \in Range(committed) =>
                      \A k \in (near.h + 1)..height : inGap(k)
=============================================================================
