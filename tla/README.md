# mfspv in TLA+

mfspv is a simplified-payment-verification stack in Go: a payer keeps, beside
each coin, a self-contained proof that the coin's transaction is in a block; a
merchant's till checks that proof without asking anybody, and asks a node and an
alert bus about double spending. These modules model the stack's own logic,
model-check it on small instances with TLC, and prove nearly all that is checked for
all instances with TLAPS.

Paths such as `bundle.go:213` are relative to the package directories under
`src/` (`src/bundle/bundle.go`). `PROJECT.json` maps every definition to the
lines it models.

## 1. Inventory

### Components

| component | code | state it keeps | operations | module |
|---|---|---|---|---|
| commitment, L0 to L2 | `commitment/` | none | build a Merkle tree, take a path, fold it, four checks with depth ceilings | `Commitment`, `Hierarchy` |
| accumulator, L4 | `accumulator/` | the digests of the headers appended | Append, Root, ProveBlock, VerifyBlockInChain, VerifyAnchor, CoverageGaps, NearestCommitted | `MMR`, `Accumulator` |
| node | `teranode/` | sealed blocks, txid index, chain order, best-chain set, spent set, output values | SealBlock, Orphan, Restore, the lock-free ProofSource reads, GenTxAccumulator, ProveHeaderInAccumulator, IsUnspent, MarkSpent, OutputValue, Contains; pruned header views | `Teranode`; spent set and values in `Till` |
| bundle | `bundle/bundle.go` | the proof object a wallet holds | Build, Verify, NeedsReanchor, Reanchor | `BundleLifecycle` |
| codecs | `bundle/serialize.go`, `payment/payment.go`, `fabric/codec.go` | none | encode and decode bundles, messages, batches | `Codec`, `Wire` |
| alert bus | `dsalert/` | observations per outpoint, subscriber channels | VerifyAlert, Subscribe, Publish, QuietFor, QuietForOwners | `AlertBus`; what it promises: `AlertService` |
| payment message | `payment/` | none | the preimage of an input, Sign, VerifyInputSignature; Encode, DecodeMessage | `Payment`; the bytes in `Codec` |
| till | `walletbob/` | nothing between payments that a decision reads | AcceptPayment, Broadcast | `Till` |
| offline wallet | `walletalice/` | bundles and keys by outpoint | AddOutput, FillTemplate, Export, ExportTXIDOnly | `Wallet` |
| fabric batch verification | `fabric/fabric.go`, `stream.go` | memo, checked subtrees, checked headers, numbers of subtrees | VerifyOne, BatchVerify, VerifyWire | `FabricBatch`; the parser of VerifyWire in `Codec` |
| fabric acquisition | `fabric/fetch.go`, `pull.go` | the lanes and the count of each worker | Fetch; MeasurePullThroughput | Fetch in `BundleLifecycle`; `Pull` |
| many lanes | `internal/sha256mb/`, `bench/fabric16.go`, `bench/blockverify.go` | message buffers that outlive a call | DoubleSHA256x16, fold16, CountValid16, buildLevel16, buildTree16 | `Lanes` |
| crypto | `crypto/` | the key's numbers, which Verify writes to | NewPrivateKey, Sign, Verify, Malleate, IsLowS, compressed keys, field and curve arithmetic twice | `FieldElement`, `Curve`, `Ecdsa`; symbolic in `AlertBus` and `Payment` |
| reports, other benchmarks, commands | `fabric/report.go`, `bench/`, `scalebench/`, `cmd/` | none | measurement and demonstration | not modelled |

### How they interact

The till calls the bundle verifier with a header view, then the UTXO client,
then the bus, then reads the message once more: four components, no common
lock. Build, Reanchor and Fetch each make four separate reads of the node while
it may be sealing or reorganising. Publish checks an alert without the bus lock,
records it and copies the subscriber list under it, and sends after the unlock.
A bundle's anchor joins the accumulator to the commitment hierarchy: the root of
the MMR is a field of a generation transaction of a later block. VerifyWire runs
BatchVerify's loop over bytes that `EncodeBatch` wrote. What the wallet exports is
what the till reads: both look at a message through the same `Payment`. Pull workers
serve themselves from the node's sealed block and fold in lanes; they share nothing
but that block and one counter.

### What is hard here, and what makes each part correct

- **Torn reads** (bundle): four reads, each atomic, with blocks sealed, orphaned
  and restored between them. Correct: a call fails or gives the proof of one block.
- **Stale maintenance** (bundle, node): the txid index follows the last sealing,
  Orphan and Restore leave it alone, and Reanchor keeps the anchor it finds.
  Correct: Verify is exact on every view, NeedsReanchor agrees with it, and once
  the coin's block settles the wallet ends with a valid bundle.
- **Shape changes** (commitment, accumulator): odd levels, short last subtrees,
  mountains that appear and merge. Correct: every leaf has a path at every size,
  paths prove nothing else, equal roots mean equal histories, except for the
  padding of odd levels in block trees. Below the headers the last two need
  transactions without a field of 63 bytes, which nothing checks (section 5).
- **Fan-out** (bus): overlapping publishers, late subscribers, full channels,
  replays, the window's open end. Correct: no forged alarm, observations in time
  order, what was heard is also found, alarms only age, a publisher returns.
- **Shared memory** (wallet): a filled payment is a slice of the template's array,
  and a later fill may append its change into the same cell. Correct: a payment keeps
  what it was signed over, or its signatures fail; what is exported satisfies the till.
- **Decision over moving facts** (till): Correct: nothing known when the payment
  came is lost on the way, and a refusal names something that held.
- **Shared work** (fabric): memoised nodes, subtrees and headers, reused across
  proofs and calls, while the chain moves. Correct: an accepted leaf is a node of a
  block of the chain, an accepted txid is mined, a genuine batch is never refused,
  whichever keys the maps have.
- **Stale lanes** (pull, many lanes): buffers and lanes keep what an earlier group or
  level left; shares of the work are cut by division. Correct: every proof is judged
  on its own, roots are those of the plain tree, a count counts what is proven, each once.
- **Two arithmetics** (crypto): Sign computes in limbs with complete formulas, Verify
  with big integers and special cases. Correct: both compute the group's law on every
  input, Verify accepts what some nonce gives and nothing else, one form of a
  signature is low.
- **Wire** (codecs): cut, extended and altered input, nested lengths, two
  parsers of one format. Correct: exact round trips, damage noticed, what is
  accepted can be passed on, both parsers agree.

Every hazard, at its line, with the property that covers it or the reason why
none does, is under `hazards` in `PROJECT.json`.

## 2. The modules

```
Commitment ── MMR ── Accumulator (MCAccumulator)
     │         └──── Teranode ── BundleLifecycle (MCBundleLifecycle)
     ├── Hierarchy ──┐
     ├── Lanes ──────┴─ Pull (MCHierarchy)
     └── FabricBatch (MCFabricBatch)
AlertService ◄─ implemented by ─ AlertBus (MCAlertBus)
Payment ─┬─ Wallet (MCWallet)
         └─ Till (MCTill)
FieldElement ── Curve ── Ecdsa (MCEcdsa)
Codec ── Wire (MCWire)

MerkleProofs ─┬─ BundleProofs (Accumulator, BundleLifecycle)
(Commitment,  ├─ PullProofs (Hierarchy, Lanes, Pull)
 MMR)         ├─ FabricBatchProofs (FabricBatch)
              └─ WireProofs (Codec, Wire)
AlertBusProofs    TillProofs    WalletProofs (Wallet; FieldElement, Curve, Ecdsa)
```

**Commitment** has the pure operators of L0 to L2. SHA-256d is a symbolic
injective hash: the digest of a value is a one-element tuple, of two digests a
pair. "No collision" is therefore built in; what is checked is everything the
code does around the hash. What leafHash hashes has no tag and any length, so a field
whose index and bytes together are 64 bytes has the very digest of the pair of nodes they
spell: `WideField` is such a field, and `LeafForField` gives it that digest. `Ordinary`
says of a list of fields that it has none and is numbered by place. Indexes keep their
0-based values.

**Hierarchy** fills a block with transactions one at a time and states what
L0 to L2 promise of each block on the way. `Padded` is the list that fills a tree whose
odd levels repeat their last node: for every way down from the root (`WayDown`), the
transaction it ends at. `OrdinaryTxs` are the transactions of which it says what their
paths and roots prove; the others are mined and served like them.

**Lanes** has the operators that hash many pairs at a time, over `Lanes` lanes where the
code has sixteen. `DoubleSHA256xN` is the kernel by what it promises: lane k hashes
message k. `LevelGroup` takes the message buffers along from group to group and level
to level, since unused lanes keep what was in them. A path shorter than the first
lane's is indexed beyond its end (`Foldable`), of a longer one the rest is ignored.

**Pull** lets the block that Hierarchy filled be served. `CallMeasure` finds the valid
subtrees and starts the workers; `CutShare` is the slice expression that panics when a
share starts beyond the list; `Group` serves, folds and counts one group; `Again` and
`Finish` are the deadline. A lane whose txid is unknown keeps its path and node
(`Fill`). A panic of one goroutine ends the program. Which worker moves is open; the
deadline may fall after any pass. The block is the node's only one, so the header check
of the pre-verification always succeeds.

**MMR** has the pure operators of the accumulator and the gap report,
**Accumulator** the history: `AppendHeader` is `MMR.Append`, `Prove` is
`MMR.ProveBlock`; `committed` notes which heights carry the accumulator.

**Teranode** is `MockNode`. A block is named by its height, because the node
never cuts its chain and the header contains what precedes it; a header keeps its
Merkle root and the 16 bits of height that SealBlock writes. Merkle layers are
derived from the subtrees, since SealBlock builds them once. Each ProofSource
read is atomic: `teranode.go:228-230` promises lock-free reads only when no block
is being sealed during one. Sealing *between* reads is not excluded, and modelled.

**BundleLifecycle** holds one wallet's bundle. `CallBuild` and `CallReanchor`
begin a call; `ReadSubtreePath`, `ReadLocation`, `ReadBlockPath`, `ReadHeader`
are its four reads in the order of `bundle.go:84-99`, `bundle.go:214-229` and
`fetch.go:15-31`; an error returns at once and leaves the bundle. `AttachAnchor`
composes an anchor as `TestL4PrunedVerifier` does, since no function of the
package does. `Mineable` is the one rule of the environment: a transaction is
sealed again only while no block of the best chain has it. `Verify` and
`NeedsReanchor` are operators over any set of headers, as a `HeaderChain` is; a nil view,
for which Verify refuses and NeedsReanchor answers false (`bundle.go:139`, `190`), and a
bundle that reveals no field (`bundle.go:121`) are left out.

**AlertBus** gives Publish one step per lock region: `CallPublish`, `Verify`
(no lock), `Record` (the critical section), one `Send` per channel after the
unlock, `Return`. A signature is a record of who signed which spend of which
outpoint and whether it is low-S; `Signed` is the set of signatures ever made,
and a malleated twin of each may be presented too. Mining the attester's nonce is
one Boolean.

**AlertService** says what the alert layer promises without any publisher's steps in
it: an alarm needs an offender, is remembered with its time, is owed to every
subscriber of that moment, and each of them is offered it once, in no order, and misses
it only if its inbox is full. `AlertBus!ImplementsAlertService` maps the bus to it: an
alert is raised when `Record` leaves the critical section; what a publisher still owes
are the channels left in its copy of the list; the check before the lock and the return
are not seen.

**Payment** has what a signature covers and what the till checks of a message alone.
**Wallet** models memory cell by cell: a slice of outputs is the number of an array and
a length, `AppendOutput` writes in place where Go's append would. `FillTemplate` and
`Export` are atomic, since the wallet is used by one goroutine; what makes them interfere
is the array. `inPlace`, `agreed`, `of` and `after` are history for the properties.

**FieldElement** is `ct.go`'s arithmetic limb by limb: `Carried` is a chain of word
operations with carries, and the width of a word is a constant. **Curve** has both forms
of the curve, **Ecdsa** the keys and signatures: `SignAttempt` is one turn of Sign's
loop, its nonce any scalar of the group; `CheckSig` is Verify together with what it
writes into the caller's key. Modular inverses and square roots of `math/big` are what
they compute.

**FabricBatch** verifies one proof per step, with `memo`, `subtreeOK` and
`headerOK` as the code keeps them; the chain may be reorganised between two
steps. BatchVerify's maps are new in each call and VerifyWire's are cleared,
which `Start` models for both; `wire` tells which one runs. VerifyWire numbers the
subtree roots as they appear (`ids`) and packs number, level and index of a node into
a word (`PackedKey`), one OR the other as in `stream.go:134`: a word is the set of its
bits, `WordWidth` of them, `IndexWidth` for the index and `LevelWidth` above it for the
level; 64, 32 and 8 in the code. An index that needs more covers the level, a number that
needs more is cut off, and a longer L1 than `WordWidth` is not read (`Read`). `Presentable`
is what may be handed in: any digest for a leaf, any two paths with any subtree root, under
any header; only the Merkle root of a mined header is that header's own. The runs hand in
what Fetch gives, proofs with the leaf, the L1 path or the header of another, proofs cut a
level above or below their subtree (`CutAtSubtrees` tells which), and proofs whose leaf is
the node above the real one and whose L1 is shorter by it, from proofs cut at the subtree
and above.

**Till** runs AcceptPayment question by question: `CheckInclusion` once per
bundle and, where its header is not on the chain, `CheckAnchor`, which asks the chain
again, for the carrying header; `CheckUnspent` once per input, `CheckQuiet` for all,
`Decide`. A payment without inputs has no first questions (`FirstQuestion`). `wired` says
of a till whether it has an alert bus and whether its UTXO client knows values; without
them the questions are not asked. A message is a record of what the decision reads off
it: signatures verify or not, paths fold or not, an anchor names its carrier and commits
the bundle's header or does not. `OracleFails` is the error return of the UTXO client.

**Codec** has the writers and readers of the three formats and the offset
parser of VerifyWire. A wire is a sequence of units, one per fixed-width value
(an integer, a digest, a header) or byte of a variable-length field. A reader is a
function from the units to what it takes of them and what is left; `Both`, `Each`,
`Many`, `Optional` and `Framed` build the reader of a format from those of its parts, in the
order in which the code calls them. 16-bit counts are cut modulo `CountMod`, and no writer
checks a length. **Wire** sends any objects over a medium that cuts, extends or alters the
units; `Countable` are those whose lists fit their counts (`BundleRecord` and the others),
`Readable` those with no path longer than the reader takes.

## 3. The runs

| run | configuration | asks | states |
|---|---|---|---|
| `hierarchy` | 1 to 6 transactions, one of 3 with a field as long as two digests, subtrees of 1 to 4, 2 lanes, 1 to 3 workers | EveryFieldProvable, PathsProveMembership, RootsMeetOnlyByPadding; LaneTreeIsMerkleTree, TamperedProofAloneFails; PullCountsOnlyProven, PanicHasCause | 0.1 million |
| `accumulator` | every history of up to 7 headers | AccTypeOK, EveryHeightProvable, ProofBindsHeaderAndRoot, RootCommitsHistory, GapsAreHonest | 6 thousand |
| `bundle_lifecycle` | 3 blocks, 2 reorganisations, 3 transactions | TypeOK, FetchFailsSafe, VerifyIsExact, MaintenanceAgrees, SettledCoinVerifies | 59 thousand |
| `alertbus` | 2 publishers, 2 subscribers, channels of 1, 2 conflicts and 8 alerts that fail | TypeOK, NoForgedAlarm, ObservationsInOrder, HeardMeansNotQuiet, AlarmsOnlyAge, PublisherReturns, ImplementsAlertService | 0.1 million |
| `till` | 1 till of 2 wirings, 2 coins, a carrying block, 2 payments of 15 kinds, one reorganisation | TypeOK, AcceptedWasUnopposed, RefusedForCause | 2.5 million |
| `wallet` | 2 coins, 3 keys stored, 2 templates, 3 fills | FilledStaysSigned, ExportedSatisfiesTill | 1.7 million |
| `ecdsa` | a group of order 31 over 2^12-5 in four limbs of 3 bits | FieldOpsExact, LaddersAgree, VerifyIsExact, SignedIsCanonical | 3 thousand |
| `fabric_batch` | 2 blocks sharing a subtree, batches of 2 and 3, either verifier | AcceptedLeavesIncluded, GenuineBatchAccepted | 0.1 million |
| `wire` | 141 objects, paths up to beyond what is read, lists up to beyond what a count holds | RoundTrip, CutOrExtendedIsNoticed, AcceptedIsReencodable, ParsersAgree | 0.2 million |
| `bundle_frozen_core`, `till_value`, `fabric_batch_all_valid` | | the three findings below, each a violation | |

Deadlock is checked in `bundle_lifecycle`, where something can always happen;
the other systems may legitimately stop (nobody publishes, the bounds are reached).

### Why the bounds are enough

- *hierarchy*: six transactions in subtrees of one to four give a full and a
  short last subtree, an odd and an even number of them, and odd levels at two
  heights of a tree. The padding property compares against every list up to that size.
  The transaction with a wide field may be mined at any place: all fields of a block with
  it stay provable, lanes and pulls judge it like the others; what paths and roots
  prove is asked of blocks without it.
  Two lanes are enough for lanes to differ, for a group that leaves one unused, and for
  a list with a tail; four txids give a worker two groups, so that a lane is filled
  after it held something, in the same pass or the next; `PullCalls` (MCHierarchy) puts an
  unknown txid at each of these places. Three workers over 1, 3 and 5 txids have less
  than a group each, over 6 exactly one.
- *accumulator*: seven headers pass through 1, 2, 3 (two mountains), 4 (a merge of
  three), 5, 6 and 7 (three mountains); a fold order that is wrong shows from
  three peaks on.
- *bundle_lifecycle*: three blocks are a first block, a second copy of the coin and
  a carrier after either; two reorganisations orphan one block and restore or
  orphan another. `bundle_frozen_core` needs a third.
- *alertbus*: two keys have double-signed one outpoint, one of them has signed a spend
  and an empty spend of another; so there are payments an alarm is due against and
  payments no alert may disturb, and one rejected alert for each condition of
  VerifyAlert. Two publishers and two channels of capacity one (64 in the code) give
  every order of record and send, a subscriber that joins between two records, and a
  channel that fills.
- *wallet*: two fills of one template are needed for an overwrite, the third fills an
  overwritten payment again or comes between. One template comes in an array with room,
  as an array grown by doubling has, one without.
- *ecdsa*: what a limb does depends on carries and not on its width, and 3 bits let
  the run try every carry out of every limb: the samples hold the modulus' own limbs,
  its neighbours, and products that need the third fold. The group has prime order 31 in a
  curve of 4092 points over a prime that is 3 modulo 4 as the real one is; all scalars are
  tried as nonces, and r and s up to two beyond the order. With so small an order r = 0,
  s = 0, z = 0, the twin keys and X at least n occur, which no test of the real curve meets.
- *till*: a chain begins with all headers or without that of one coin's block, and loses
  or regains one while a bundle is looked at, so a bundle is accepted by its header, by its
  anchor, or refused between the two. Another till touches this one only through what it broadcasts, and
  `MarkSpent` lets any coin be spent at any step; so one till stands for many.
  Two payments show what the first leaves behind. `ValueLimit` is 8 in place of 2^64:
  wrapping depends only on sums passing the limit.
- *fabric_batch*: two proofs suffice for one to reuse what the other left, three
  for a reuse that depends on two; the shared subtree is the only way two blocks
  meet in the maps, and a block with two subtrees of several levels the only way two
  subtrees can be confused, and a proof cut a level up or down, or begun at an inner node,
  the only way a node of one can pass for a node of another. The packed key has one bit for
  the index: enough for the L1 of these subtrees, as 32 bits are for 33 levels, and too few
  for one cut a level up, whose index covers the level of another node.
- *wire*: `PathLimit`, `BatchLimit` and `StackLimit` are scaled down in their order,
  and lengths below, at and above each are sent. `CountMod` is 8 in place of 2^16: paths,
  fields and a signature of 7, 8 or 9 elements are as long as a count can say and longer.
  Cuts fall between units.

### Fairness

`alertbus` assumes weak fairness of each publisher's own steps: a running
goroutine runs. Readers and the clock owe nothing. `bundle_lifecycle` assumes that
a call that was begun is run to its end, that the wallet builds its bundle, and
that it calls Reanchor whenever NeedsReanchor says so; the last two are the
callers' policy, which the package's comments describe. The node owes nothing:
`SettledCoinVerifies` itself supposes that the block that last sealed the coin
stays on the best chain.

### Findings

Each is a run that TLC must find violated, and quotes the sentence of the code
that says otherwise (`findings` in `PROJECT.json`).

1. `bundle_frozen_core`: Reanchor follows the txid index whatever the chain says.
   A block is orphaned, its coin sealed again, the reorganisation undone: Reanchor
   moves the bundle off the only live block of the coin, against I-B1.
2. `till_value`: sums of amounts wrap at 64 bits, against "sum(inputs) >= sum(outputs)".
3. `fabric_batch_all_valid`: a proof that shares a checked subtree is accepted under
   a header its own L2 path does not reach, against "whether ALL proofs are valid".
   `AcceptedLeavesIncluded` shows what still holds: the leaf is a node of a block of the
   chain, though maybe not of the one named, and a txid there is mined.

Smaller divergences met on the way, without a run of their own:

- the comment of NeedsReanchor names orphaning as its one condition, but an orphaned
  header under a live anchor needs no re-anchoring (`bundle.go:186-200`);
- when a restored block is not the last that sealed a coin, Reanchor cannot lead back to it
  (`SettledCoinVerifies` is stated accordingly);
- one output of a payment may satisfy several equal outputs of a template, and an outpoint
  listed twice counts its value twice (`walletbob.go:166-182`, `219-231`);
- "all subscribers receive verified alerts" (`dsalert.go`, Subscribe) holds only for a
  subscriber whose channel has room: an alert to a full one is dropped for good, which
  `AlertService!Offer` states;
- a second fill of one template may overwrite the change of the first in the shared array,
  after which the first payment's signatures fail (`walletalice.go:91`; `FilledStaysSigned`
  says exactly when); the bundles that AddOutput stores are never read;
- Verify reduces the X it computed in place, and where that number is the caller's key
  (z = 0, r = s and X at least n) it changes the key (`secp256k1.go:371`; `KeyAfterVerify`
  has the write, and `KeyInv` what it can do to a key);
- a list of 65536 elements is written with a count of 0: an L2 that long makes a batch that
  is read as another proof, since its first 80 bytes are taken for the header and the rest of
  the frame is ignored (`codec.go:36`, `126`, `156`; `RoundTrip` says what holds of lists that
  fit their counts);
- VerifyWire may refuse a valid proof that BatchVerify accepts, when its L1 has more than 33
  elements and its index runs into another key (`stream.go:134`);
- the argument of SECURITY.md RT-4, that an inner node cannot be passed off as a leaf, needs
  fields whose length differs from 63 bytes, which no code asks for (section 5);
- MeasurePullThroughput panics with three or more workers and fewer than 16 txids for each
  (`pull.go:62`), with an unknown txid in the first group or with paths of different length
  (`pull.go:104`); an unknown txid in the first lane of a first group leaves the whole group
  unfolded. `PanicHasCause` says that nothing else ends it.

## 4. The proofs

Eight modules hold theorems; each proof is checked from nothing. `theorems` in
`PROJECT.json` says in a sentence what each one establishes.

### Trees and paths (`MerkleProofs`)

| theorem | statement |
|---|---|
| `EveryLeafProvable` | the path of every leaf of a list of any length folds to its root, and is as long as the tree is deep |
| `FoldBinds` | two paths with the same sides that fold to one root have the same siblings and start at the same node |
| `OnlyLeavesProvable` | whatever folds to the root along a path as long as the tree is deep is a leaf |
| `RootBindsDepth` | a path from a txid, over nodes of transactions, to the root of a tree of txids is as long as the tree is deep, all of them of ordinary transactions |
| `RootBindsTxids` | two lists of distinct txids of ordinary transactions, of whatever lengths, with the same root are the same list |
| `TxidBindsFields` | two ordinary field lists with the same TXID are the same list |

The last three ask for ordinary fields: numbered by place, none of them 63 bytes long
(`Ordinary`, `OrdinaryTxid`). Without that each is false, of the model as of the code: a
transaction of one field of 63 bytes has the TXID of a pair of nodes, hence may have that
of another transaction's field tree, or of a node inside a subtree. The first three need
nothing of the kind.

The trees, paths and depths are recursive functions, so these are inductions over the
levels. The library's induction theorems take an operator, which no prover here can
instantiate; `LeastNat` and `Induction` state induction for a *set* of numbers instead,
and follow from the library's fact that strict inclusion of finite sets is well founded.

`RootBindsTxids` is the delicate one, because the last node of an odd level is paired
with itself: `[a, b, c]` and `[a, b, c, c]` have one root. It holds for lists without
repetition (`DistinctNodes` carries that from level to level), and lists of different
depth are told apart by the shape of what is hashed: the txid of an ordinary transaction is
itself a tree over the leaves of numbered fields, and the field reached by always going left (`FirstField`) has
index 0 in a txid and in every node above one, so that no right half of a pair inside a
txid can be such a node (`TxidLike`, `StartsTx`, `TxidIsNoNode`).

### Mountains (`MerkleProofs`) and the accumulator's life (`BundleProofs`)

| theorem | statement |
|---|---|
| `EveryBlockProvable` | at every size, the path of every height folds its leaf to the MMR root, and is at most twice as long as the size has bits |
| `RootBindsLeaves` | two lists of leaves with one MMR root, of whatever lengths, are the same list, if no leaf is the digest of a pair |
| `AccumulatorTypeOK` | `AccSpec => []AccTypeOK` |
| `EveryHeightStaysProvable` | `AccSpec => []EveryHeightProvable` |
| `ServedProofBinds` | `AccSpec => []ProofBindsHeaderAndRoot` |
| `HistoryStaysCommitted` | `AccSpec => []RootCommitsHistory` |
| `GapsStayHonest` | `AccSpec => []GapsAreHonest` |

`MountainSizes` reads the bits of the size; `MountainsAre` shows that the mountains
partition the leaves, each a power of two, so that no level of a mountain's tree is odd.
The argument about roots is one about intervals. A *cover* (`IsCover`) is a set of triples
of two heights and a node, in which every node is either the one leaf between its heights
or the pair of two nodes of the cover that split its interval; trees, mountains, their bag
and the root all stand in one (`MMRHasCover`). Two covers with a node in common have equal
leaves under it (`CoverBinds`), and a path of a given length and sides fixes the interval
it starts from (`PathSpans`). The inductive invariant `AccInv` is the type, `HistoryInv`
(the leaves are the digests of the headers appended) and `ServedInv` (the proof given out
verifies against the root of the prefix of its time). The gap report is an induction
over the scan (`ScanStep`). `AccumulatorAssumption` bounds the number of headers so that
its size fits in 64 bits, as `len` in Go does; that keeps a path under the ceiling of 255.

### The bundle and the node (`BundleProofs`)

| theorem | statement |
|---|---|
| `BundleTypeOK` | `Spec => []TypeOK` |
| `TornFetchFailsSafe` | `Spec => []FetchFailsSafe` |
| `MaintenanceIsExact` | `Spec => []MaintenanceAgrees` |
| `VerifyStaysExact` | `Spec => []VerifyIsExact` |

for any transactions, batches, subtree capacity, number of blocks and of
reorganisations. The inductive invariant `Inv` has two parts. `NodeInv`: every block is
at its height with distinct txids in subtrees within the capacity (`IsChain`), and the
index of every txid is a place of it (`IsIndex`). `WalletInv` follows a call: after the first
read, the L1 path and the subtree root are of one place of the coin in some block
(`HalfRead`); after the third, both paths are of one place in the block whose header is
read last (`WholeRead`). The step that needs an argument is the third read, where a root read
from one block is looked up in another: equal roots mean equal lists of txids
(`RootBindsTxids`), hence the same place and the same path (`SameSubtree`). All reads
survive a longer chain (`ReadsLast`).

`VerifyStaysExact` needs a second invariant, `AnchorInv`: each carrying block has, as its
first txid, a generation transaction with the MMR root over all headers before it
(`CarriersAre`), and every anchor a bundle or a draft has was made from a carrier and an
earlier block that has the coin (`IsAnchor`). Then the chain check alone decides Verify
(`ChainCheckDecides`), an anchor holds wherever its carrier is known, and its path proves
the header it was made for and no other (`AnchorHolds`, from `EveryBlockProvable` and
`FoldBinds`).

Its hypotheses, beside the assumptions of the modules, are about the values that stand
for `nil` and for the marker: `NoBundle` has not the fields of a bundle, `NoAnchor` not
those of an anchor, and the marker of a generation transaction, which has 15 bytes, is no
digest (if it were, VerifyAnchor could find the root in the wrong field).

`NodeAssumption` says what the formats bound: 256 fields, 2^20 txids in a subtree, 64-bit
lengths. `MinersAssumption` says what SealBlock does *not* check and relies on its callers for:
fields are numbered by their place and none is 63 bytes long, a transaction is its fields,
only the node makes generation transactions, and no batch repeats a txid. The last one is
needed: with a repeated txid two subtrees can have one root without being one list, and a torn
read could end with the path of a place the block does not have.

### Blocks and pull workers (`PullProofs`)

| theorem | statement |
|---|---|
| `PulledFieldsProvable` | `PullSpec => []EveryFieldProvable` |
| `MixedPathsProveMembership` | `PullSpec => []PathsProveMembership` |
| `PullsCountOnlyProven` | `PullSpec => []PullCountsOnlyProven` |
| `PullPanicHasCause` | `PullSpec => []PanicHasCause` |
| `TamperedProofFailsAlone` | `PullSpec => []TamperedProofAloneFails` |
| `LaneTreesAreMerkleTrees` | `PullSpec => []LaneTreeIsMerkleTree` |
| `RootsMeetByPaddingOnly` | `PullSpec => []RootsMeetOnlyByPadding` |

for any transactions, capacities, lanes, workers and passes. The inductive invariant
`PullInv` has `BlockInv` (what is served is the seal of a list of transactions), `SharesInv`
(where each worker's share lies), `JobInv` (a worker stands at the beginning of a group of
its share, and has counted no more than the groups behind it prove), `ExactInv` (with all
txids known and equally deep, a count is exactly that), and `PanicHasCause` itself.
`HierarchyAssumption`, `FieldsAssumption` and `PullAssumption` are the counterparts of the
node's assumptions and the types of a call; they let any fields be mined.
`MixedPathsProveMembership` and `RootsMeetByPaddingOnly` speak of ordinary transactions,
since their properties do; the others of all.

The other three are about the block alone. `GroupMakes` and `LevelIsNext` follow the
message buffers through a level: a lane in use is written before it is hashed, so
whatever an earlier group left is never seen, and level by level the tree in lanes is the
plain one (`LaneTreeIsTree`). `CountedAre` says that each lane folds its own proof and
`TamperedIsCounted` that an altered leaf no longer folds to the root (`FoldBinds`) while
no other proof notices. For the padding, two lists of one root have trees of one depth,
then from the root down each pair of equal nodes has equal halves, so every way down ends
at one transaction in both (`OneRootOneList`); conversely the ends of the ways down fix the
levels of the tree one by one (`OneListOneRoot`). It is what remains of `RootBindsTxids` for
lists that repeat a txid.

### Fabric batches (`FabricBatchProofs`)

| theorem | statement |
|---|---|
| `BatchInvariant` | `Spec => []BatchInv` |
| `AcceptedAreMined` | `Spec => []AcceptedLeavesIncluded` |
| `GenuineAreAccepted` | `Spec => []GenuineBatchAccepted` |

for any blocks and subtrees, batches, order and repetition of their proofs, cuts into L1
and L2, leaves that are inner nodes, and reorganisations during a call, with either verifier
and keys of any width. `BatchAssumption` says that subtrees are lists of txids whose depth an
index has bits for, that batches hold what may be presented, and that a key has room for
every level.

`BatchInv` says what each map is entitled to, in terms of the proofs already behind:

- `RememberedRoots`: a header that is remembered was on the chain at some moment of the
  call, and a subtree root that is remembered was folded to the root of such a header.
- `RememberedNodes`: what `memo` has under a key is the node, at the level and index the key
  names, of an earlier proof, and some path leads from it to a remembered root: to that
  proof's own when no two keys can run into each other (`KeysApart`).
- `LeavesBelow`: from the leaf of every proof behind, some path leads to a remembered root,
  whether its climb went all the way or ended at a node that was known, and to its own when
  no keys can run into each other.

Acceptance then needs no more than the last: the path from the leaf to a root, and from
there to a header, is one path to the root of a block, so the leaf is a node of that block.
That is all the code gives: nothing there asks that it is a leaf, and a batch with an inner
node for a leaf is accepted. A txid of this level is the digest of a whole transaction and
no pair of digests, so where the leaf is one, the path passes through a leaf of the block's
tree of subtree roots and ends its way down at a leaf of that subtree (`NodeOfBlock`,
`NoPairIsLeaf`). A batch cut elsewhere than at the subtrees is accepted too, and keys that
collide let a climb end under another root, which is why the subtree named is right only
under `CutAtSubtrees` and `KeysApart`. That a genuine batch is not refused needs the opposite
direction: two genuine paths to one root that name the same place have the same node there
(`GenuineMeet`), and a packed key, with its parts within their widths, names one place
(`PackedBind`, `KeyNamesNode`).

### The wallet and the arithmetic of keys (`WalletProofs`)

| theorem | statement |
|---|---|
| `WalletFilledStaysSigned` | `Spec => []FilledStaysSigned` |
| `WalletExportedSatisfiesTill` | `Spec => []ExportedSatisfiesTill` |

for any coins, templates, room in their arrays and numbers of fills and messages.
`WalletInv` says of the memory that every slice lies in its array (`MemoryInv`), of every
fill that its signatures are over what was agreed, which its outputs still are while no
later fill wrote into its cell (`FillInv`), and of every message that it is its fill as it
was when it left (`SentInv`).
`WalletAssumption` gives the requests their shape: templates have outputs, and the wallet
holds bundles of known coins.

| theorem | statement |
|---|---|
| `AddIsExact`, `SubIsExact`, `MulIsExact` | feAdd, feSub and feMul are addition, subtraction and multiplication modulo P, and their result is reduced |
| `OpsAreTheFields` | `EcdsaSpec => []FieldOpsExact` |

The first three hold for words of any width and any modulus `Base^4 - feC` with `feC` below
`Base` (`FieldAssumption`), of which ct.go's 2^64 and 2^32 + 977 are one. A sum and a product take
elements that need not be reduced; a difference takes reduced ones, as all callers give it.
A chain of carries keeps the value it is offered (`CarriedIs`), so what the four limbs hold is
known exactly and what leaves the top is returned `feC` times; the argument is about how
often something can still leave: after two returns nothing does, and the value is below
twice P, so one subtraction reduces it. `KeyInv` says of every key that its coordinates are
reduced, which gives `OpsAreTheFields` its operands, and that a verifier's key is the
signer's or that with its X reduced modulo n, the latter only when X was not below n.
`CurveAssumption` and `EcdsaAssumption` are what a field and an odd order are; the group's
law is not assumed.

### The alert bus (`AlertBusProofs`)

For every number of publishers, subscribers, keys and
outpoints, every channel capacity and all bounds:

| theorem | statement |
|---|---|
| `TypeCorrect` | `Spec => []TypeOK` |
| `NoForgedAlarmHolds` | `Spec => []NoForgedAlarm` |
| `ObservationsInOrderHolds` | `Spec => []ObservationsInOrder` |
| `HeardMeansNotQuietHolds` | `Spec => []HeardMeansNotQuiet` |
| `AlarmsOnlyAgeHolds` | `Spec => AlarmsOnlyAge` |
| `BusImplementsService` | `Spec => Service!Spec` |

The only assumption is `BusAssumption`: alerts are put together from signatures
that were made and their malleated twins, the empty key is not a key, a channel
has room for one alert.

None of the properties is inductive alone. `TypeOK` needs `Checked`: an alert past
the unlocked check is admissible, or `Record` could append an owner key that does
not parse. The inductive invariant `IInv` adds to that:

- `EvidenceInv`: whoever is recorded against an outpoint has signed two different
  spends of it. Admissible evidence is low-S, and the high-S twin of a signature
  says nothing new about who signed what (`AdmissibleIsDoubleSigned`).
- `ObservationsInOrder`: kept because `Record` appends the present clock, which no
  observation exceeds.
- `SentIsRecorded` and `ChanIsRecorded`: what a publisher is sending, and what waits in a
  channel, was recorded. `Record` establishes the first, `Send` hands it to the second,
  and nothing removes an observation (`RecordedStays`).

The mapping to `AlertService` needs `CallInv`: no channel is twice in the subscriber list or in a
publisher's copy of it (else one `Send` would leave the offer to that channel still
owed), and the alert a call carries is one of `Inputs` (else it could not be raised).
`EvidenceInv`'s lemma on admissible alerts gives that `Record` raises an alert on a real
offender. Then each step of the bus is one step of the service or leaves all it shows
alone.

There is one lemma per part and, under it, one step per action. `AlarmsOnlyAge` is an
action property: while the clock stands still, an observation inside the window
stays there, because sequences of observations only grow (`SeenStep`).

### The till (`TillProofs`)

For any number of tills, coins, blocks, keys and payments, any
policy and all bounds:

| theorem | statement |
|---|---|
| `TypeCorrect` | `Spec => []TypeOK` |
| `Unopposed` | `Spec => AcceptedWasUnopposed` |
| `ForCause` | `Spec => RefusedForCause` |

`TillAssumption` is what it takes: the inputs of messages, if any, are of known coins, and
amounts and policy are numbers; bundles, anchors, wirings and the header views at the start
are any. Both action properties speak of the moment a till
decides, long after the facts they relate were looked at; the inductive invariant `Inv`
carries those facts along:

- `Known`: what was known when the payment came is still so (outputs stay spent, alerts
  stay recorded), and the present chain is among those of the call.
- `InclusionAnswer`, `UnspentAnswer`: each answer, with the inputs before the index, says
  what was true at the start or at some moment of the call, in both directions: a TRUE
  that nothing opposed it, a FALSE which input failed. For a bundle that is two questions
  with the chain free to move between them: accepted means that its header, or its anchor's
  carrier, was there at some moment (`Vouched`); refused, that the header was missing at one
  moment and the anchor did not hold at one (`Missing`). A failed inclusion is the only reason
  set before the decision.
- `QuietAnswer`: an alert that opposes now opposed earlier (`OpposesBefore`: the window
  only moves on), so a till that heard of nothing newer has lost nothing older.

`AroundKeeps` shows once that nothing the market or another till does disturbs the
answers of a call; the rest is one lemma per question.

### The wire formats (`WireProofs`)

| theorem | statement |
|---|---|
| `WireKeepsItsEncoding` | `WireSpec => []WireInv` |
| `ArrivesAsSent` | `WireSpec => []RoundTrip` |
| `DamageIsNoticed` | `WireSpec => []CutOrExtendedIsNoticed` |
| `AcceptedMayBePassedOn` | `WireSpec => []AcceptedIsReencodable` |
| `ParsersTellTheSame` | `WireSpec => []ParsersAgree` |

for every bundle, message and batch, with lists of any length, every limit and every damage
of one kind. The first two say something of an object's arrival where its lists fit their
counts (`Countable`); of a longer one only that it is not taken for what was sent
(`SentUncounted`), for it may well be read as another. `CodecAssumption` puts the limits below what a
count can count, and the stack's below the batch's, as 64 and 4096 are.

What is shown of a format is shown of each of its parts, and kept by each combinator. A
reader and a writer together are a *code* (`Codes`): the reader is `Local`, what it reads
depends on the units it takes and on none that follow; it `Decodes` what the writer writes
of every object it takes, and refuses what is written of the others; it `Reencodes`, so that
what it accepted is written with as many units and read back the same. `Both`, `Many`,
`Optional` and `Framed` make codes of codes, and a format is a code because it is built of
them. `WireInv` says what has become of an encoding: untouched, a proper beginning of it, or
it with more after it; an altered one may be anything. The first two properties follow from
the code of its format: had a reader taken a beginning, it would by locality take the same
of the whole and leave the rest. The third is `Reencodes`, which asks nothing about where
the units came from.

VerifyWire's parser is no reader but arithmetic on offsets. It is taken in lockstep with
DecodeBatch's, proof by proof: as long as both go on they have the same proofs and what is
left for one starts at the other's offset (`Together`); if one stops, both do (`BothRefuse`), or
the proof at hand has a path that only one of them allows (`ReaderAlone`, `LoopAlone`) and
stays among the proofs that the other finds.

### Model-checked only

- Liveness (`PublisherReturns`, `SettledCoinVerifies`): the prover reaches neither
  fairness nor ENABLED.
- `LaddersAgree`, `VerifyIsExact` and `SignedIsCanonical` of `Ecdsa`: they rest on the
  group of one curve (associativity of its law, the order of G) and on Fermat's theorem, of
  which the provers know nothing and which would have to be assumed to be used.
- The three findings, which are counterexamples.

Every other property that a passing run checks is the statement of a theorem above.

## 5. Not modelled

- The bytes that are hashed and signed: the preimage of a sighash, the digest of an alert; the
  rounds of SHA-256 and the transposed state of the AVX-512 kernel.
- Of leaf domain separation the model has what the code lacks: a field of 63 bytes has the
  digest of a pair. `PathsProveMembership`, `RootsMeetOnlyByPadding`, `RootBindsDepth`,
  `RootBindsTxids`, `TxidBindsFields` and `MinersAssumption`, on which the bundle's theorems
  stand, suppose that no transaction has such a field and that fields are numbered. No code
  makes sure of either (`commitment.go:63-78`), so a verifier cannot rely on what those
  claims say of a transaction it did not make; SECURITY.md RT-4 (line 65), for which an
  inner node can stand in for a TXID only through a preimage, supposes the same.
  At the fabric's level the leaf is a consensus txid, for which the model takes that no
  transaction is 64 bytes long; and carrying blocks, whose first leaf is a field-tree id, are
  not among its blocks.
- Memory: DecodeBatch allocates the claimed 32-bit count of proofs before it reads one
  (`codec.go:141`); the model refuses such a batch, as the code does if the allocation
  succeeds.
- Nil arguments: a nil chain of the batch verifiers, for which they skip the header check
  (`fabric.go:89`, `173`, `stream.go:191`), and a nil header view of Verify and NeedsReanchor.
- Cuts inside a value of several bytes, and an L1 as long as VerifyWire has room for: `Read`
  is in the model and in the proofs, the runs' paths are shorter.
- The real size of the field and the group, the HMAC of RFC 6979 (its result is any
  nonce), and running time: the masked selects of `ct.go` are modelled by what they choose.
- Data races inside a single read of the node, which `teranode.go:228-230` excludes by
  contract. BestTipHeight and BlockRoot of the node, which only tests call.
- Reports, rates, capacity arithmetic, the timing loops of `bench/`, the MinIO back end,
  commands: they measure the operations modelled here and keep no state of their own.
- Heights at the end of 64 bits in CoverageGaps and NearestCommitted.

## 6. Plan

What would come next:

1. An abstract specification of acceptance for `FabricBatch` (a batch is judged proof by
   proof against the chain of some moment) and of the bundle (what a verifier learns),
   with the detailed modules shown to implement them.
2. The group of the curve as a module of its own, with its law as an assumption on the
   constants that TLC checks on small curves, from which `VerifyIsExact` and
   `SignedIsCanonical` follow.
3. The composition of wallet and till over one market: what Export returns as the inputs of
   AcceptPayment.
