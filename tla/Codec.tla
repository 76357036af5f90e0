------------------------------- MODULE Codec -------------------------------
(***************************************************************************)
(* The three wire formats: a proof bundle (bundle/serialize.go), a payment *)
(* message (payment/payment.go) and a batch of proofs (fabric/codec.go and *)
(* the single-pass parser of fabric/stream.go).                            *)
(*                                                                         *)
(* A wire is a sequence of units.  A unit stands for one fixed-width value *)
(* of the format: an integer of any width, a digest, a header, or a byte   *)
(* of a field, a signature, a key or a script.  A 16-bit count is written  *)
(* modulo CountMod, as uint16(len(p)) cuts it; a 32-bit one is not cut.    *)
(* A decoder answers Refused or the one-element sequence <<value>>.  What  *)
(* it reads is written down in the order in which it is written.           *)
(***************************************************************************)
EXTENDS Integers, Sequences, SequencesExt

CONSTANTS
  PathLimit,   \* MaxDepth + 1: the longest path bundle.Deserialize reads
  BatchLimit,  \* 4096: the longest path fabric.DecodeBatch reads
  StackLimit,  \* 64: the longest L1 path Verifier.VerifyWire reads
  CountMod     \* 2^16: what a two-byte count wraps at

ASSUME CodecAssumption ==
  /\ {PathLimit, BatchLimit, StackLimit, CountMod} \subseteq Nat
  /\ PathLimit < CountMod /\ BatchLimit < CountMod /\ StackLimit < BatchLimit

Refused == << >>

\* The objects a decoder can answer.  No writer checks the length of a list
\* whose count has two bytes: those here are short enough for it, and a writer
\* may be given longer ones.
Short(S) == {s \in Seq(S) : Len(s) < CountMod}

PathElemRecord == [Right : BOOLEAN, Sibling : Nat]
PathRecord == Short(PathElemRecord)
FieldRecord == [Index : Nat, Bytes : Short(Nat)]
FieldsRecord == Short(FieldRecord)
AnchorRecord ==
  [AccRoot : Nat, AccPath : PathRecord, GenTxFields : FieldsRecord, GenL0 : PathRecord,
   GenL1 : PathRecord, GenL2 : PathRecord, CarryingBlockMerkleRoot : Nat, CarryingHeader : Nat]

\* Anchor is << >> for a nil anchor, else a sequence of one record.
BundleRecord ==
  [TXID : Nat, Vout : Nat, Fields : FieldsRecord, MTxIDPath : PathRecord,
   SubtreePath : PathRecord, BlockPath : PathRecord, Header : Nat,
   Anchor : {a \in Seq(AnchorRecord) : Len(a) <= 1}]

TxInRecord == [TXID : Nat, Vout : Nat, Sig : Short(Nat), PubKey : Short(Nat)]
TxOutRecord == [Value : Nat, ScriptPubKey : Seq(Nat)]
TxRecord == [Version : Nat, Inputs : Seq(TxInRecord), Outputs : Seq(TxOutRecord), LockTime : Nat]
MessageRecord == [Tx : TxRecord, Bundles : Seq(BundleRecord)]
ProofRecord ==
  [Leaf : Nat, L1 : PathRecord, SubtreeRoot : Nat, L2 : PathRecord, Header : Nat]

-----------------------------------------------------------------------------
(***************************************************************************)
(* Writers: one write after another                                        *)
(***************************************************************************)
Written(writes) == FlattenSeq(writes)
FlatMap(F(_), s) == Written([i \in DOMAIN s |-> F(s[i])])

U16(n) == n % CountMod
WritePathElem(e) == <<IF e.Right THEN 1 ELSE 0, e.Sibling>>
WritePath(p) == <<U16(Len(p))>> \o FlatMap(WritePathElem, p)
WriteBytes(b) == <<U16(Len(b))>> \o b
WriteField(f) == <<f.Index>> \o WriteBytes(f.Bytes)
WriteFields(fs) == <<U16(Len(fs))>> \o FlatMap(WriteField, fs)

WriteAnchor(a) ==
  Written(<< <<a.AccRoot>>, WritePath(a.AccPath), WriteFields(a.GenTxFields),
             WritePath(a.GenL0), WritePath(a.GenL1), WritePath(a.GenL2),
             <<a.CarryingBlockMerkleRoot>>, <<a.CarryingHeader>> >>)

WriteOptional(anchor) == <<Len(anchor)>> \o FlatMap(WriteAnchor, anchor)

Serialize(b) ==
  Written(<< <<b.TXID>>, <<b.Vout>>, WriteFields(b.Fields), WritePath(b.MTxIDPath),
             WritePath(b.SubtreePath), WritePath(b.BlockPath), <<b.Header>>,
             WriteOptional(b.Anchor) >>)

WriteTxIn(in) == Written(<< <<in.TXID>>, <<in.Vout>>, WriteBytes(in.Sig), WriteBytes(in.PubKey) >>)

\* Lengths and counts of four bytes.
Prefixed(units) == <<Len(units)>> \o units
Listed(F(_), s) == <<Len(s)>> \o FlatMap(F, s)

WriteTxOut(out) == <<out.Value>> \o Prefixed(out.ScriptPubKey)
EncodeTx(tx) ==
  Written(<< <<tx.Version>>, Listed(WriteTxIn, tx.Inputs), Listed(WriteTxOut, tx.Outputs),
             <<tx.LockTime>> >>)

PrefixedBundle(b) == Prefixed(Serialize(b))
Encode(m) == EncodeTx(m.Tx) \o Listed(PrefixedBundle, m.Bundles)

EncodeProof(p) ==
  Written(<< <<p.Leaf>>, WritePath(p.L1), <<p.SubtreeRoot>>, WritePath(p.L2), <<p.Header>> >>)
PrefixedProof(p) == Prefixed(EncodeProof(p))
EncodeBatch(proofs) == Listed(PrefixedProof, proofs)

-----------------------------------------------------------------------------
(***************************************************************************)
(* Readers.  A reader takes a value off the front of some units and gives  *)
(* the value and the units left, or fails: the sticky error of the code's  *)
(* readers makes a decoder fail when any read does.                        *)
(***************************************************************************)
Units == Seq(Nat)

Done(value, rest) == [ok |-> TRUE, value |-> value, rest |-> rest]
Truncated == [ok |-> FALSE, value |-> << >>, rest |-> << >>]

\* What was read, put together as a value.
Made(r, value) == IF r.ok THEN Done(value, r.rest) ELSE Truncated

\* The decoders that ask for the end of the units, and those that do not.
Taken(r) == IF r.ok THEN <<r.value>> ELSE Refused
TakenWhole(r) == IF r.rest = << >> THEN Taken(r) ELSE Refused

Unit == [u \in Units |-> IF u = << >> THEN Truncated ELSE Done(Head(u), Tail(u))]
Flag == [u \in Units |-> IF u = << >> THEN Truncated ELSE Done(Head(u) = 1, Tail(u))]

\* One value of each reader, in order, as a sequence.
Nothing == [u \in Units |-> Done(<< >>, u)]
Both(R, S) ==
  [u \in Units |->
     LET first  == R[u]
         second == S[first.rest]
     IN  IF first.ok /\ second.ok THEN Done(Append(first.value, second.value), second.rest)
         ELSE Truncated]
Each(readers) ==
  LET upTo[i \in 0..Len(readers)] ==
        IF i = 0 THEN Nothing ELSE Both(upTo[i - 1], readers[i])
  IN  upTo[Len(readers)]

\* A count, if it is one that is taken, and as many values.
Many(R, counts) ==
  [u \in Units |->
     IF u = << >> \/ Head(u) \notin counts THEN Truncated
     ELSE Each([i \in 1..Head(u) |-> R])[Tail(u)]]

\* A flag, and a value if it is 1.
Optional(R) ==
  [u \in Units |->
     IF u = << >> THEN Truncated
     ELSE Each([i \in 1..(IF Head(u) = 1 THEN 1 ELSE 0) |-> R])[Tail(u)]]

\* take: a value from units of its own, of a given length; from exactly those
\* units if exact.
Framed(R, exact) ==
  [u \in Units |->
     LET frame == Many(Unit, Nat)[u]
         r     == R[frame.value]
     IN  IF frame.ok /\ r.ok /\ (exact => r.rest = << >>) THEN Done(r.value, frame.rest)
         ELSE Truncated]

-----------------------------------------------------------------------------
Count16 == 0..(CountMod - 1)

MadePathElem(r) == Made(r, [Right |-> r.value[1], Sibling |-> r.value[2]])
PathElemReader == [u \in Units |-> MadePathElem(Each(<<Flag, Unit>>)[u])]

\* Mutant of PathReader: the longest path that is allowed is refused.
PathReaderStrict == Many(PathElemReader, 0..(PathLimit - 1))
PathReader == Many(PathElemReader, 0..PathLimit)
LongPathReader == Many(PathElemReader, 0..BatchLimit)

BytesReader == Many(Unit, Count16)
MadeField(r) == Made(r, [Index |-> r.value[1], Bytes |-> r.value[2]])
FieldReader == [u \in Units |-> MadeField(Each(<<Unit, BytesReader>>)[u])]
FieldsReader == Many(FieldReader, Count16)

MadeAnchor(r) ==
  LET v == r.value
  IN  Made(r, [AccRoot |-> v[1], AccPath |-> v[2], GenTxFields |-> v[3],
               GenL0 |-> v[4], GenL1 |-> v[5], GenL2 |-> v[6],
               CarryingBlockMerkleRoot |-> v[7], CarryingHeader |-> v[8]])
AnchorReader ==
  [u \in Units |->
     MadeAnchor(Each(<<Unit, PathReader, FieldsReader, PathReader, PathReader,
                       PathReader, Unit, Unit>>)[u])]
MadeBundle(r) ==
  LET v == r.value
  IN  Made(r, [TXID |-> v[1], Vout |-> v[2], Fields |-> v[3], MTxIDPath |-> v[4],
               SubtreePath |-> v[5], BlockPath |-> v[6], Header |-> v[7],
               Anchor |-> v[8]])
BundleReader ==
  [u \in Units |->
     MadeBundle(Each(<<Unit, Unit, FieldsReader, PathReader, PathReader, PathReader,
                       Unit, Optional(AnchorReader)>>)[u])]

\* Mutant of Deserialize: what follows the bundle is not looked at.
DeserializePrefix(units) == Taken(BundleReader[units])
Deserialize(units) == TakenWhole(BundleReader[units])

MadeTxIn(r) ==
  LET v == r.value
  IN  Made(r, [TXID |-> v[1], Vout |-> v[2], Sig |-> v[3], PubKey |-> v[4]])
TxInReader ==
  [u \in Units |->
     MadeTxIn(Each(<<Unit, Unit, BytesReader, BytesReader>>)[u])]
MadeTxOut(r) == Made(r, [Value |-> r.value[1], ScriptPubKey |-> r.value[2]])
TxOutReader == [u \in Units |-> MadeTxOut(Each(<<Unit, Many(Unit, Nat)>>)[u])]
MadeTx(r) ==
  LET v == r.value
  IN  Made(r, [Version |-> v[1], Inputs |-> v[2], Outputs |-> v[3],
               LockTime |-> v[4]])
TxReader ==
  [u \in Units |->
     MadeTx(Each(<<Unit, Many(TxInReader, Nat), Many(TxOutReader, Nat), Unit>>)[u])]

\* Deserialize asks for the end of a bundle's own units.
MadeMessage(r) == Made(r, [Tx |-> r.value[1], Bundles |-> r.value[2]])
MessageReader ==
  [u \in Units |->
     MadeMessage(Each(<<TxReader, Many(Framed(BundleReader, TRUE), Nat)>>)[u])]

\* Mutant of DecodeMessage: what follows the last bundle is not looked at.
DecodeMessagePrefix(units) == Taken(MessageReader[units])
DecodeMessage(units) == TakenWhole(MessageReader[units])

\* decodeProof does not ask for the end of its units, nor DecodeBatch.  The code
\* makes room for as many proofs as the count claims before it reads the first
\* (codec.go:141): where the model answers Refused because there are fewer, a
\* count of up to 2^32 - 1 may first exhaust the memory and end the program.
MadeProof(r) ==
  LET v == r.value
  IN  Made(r, [Leaf |-> v[1], L1 |-> v[2], SubtreeRoot |-> v[3], L2 |-> v[4],
               Header |-> v[5]])
ProofReader ==
  [u \in Units |->
     MadeProof(Each(<<Unit, LongPathReader, Unit, LongPathReader, Unit>>)[u])]
DecodeBatch(units) == Taken(Many(Framed(ProofReader, FALSE), Nat)[units])

(***************************************************************************)
(* VerifyWire reads the same bytes by offsets, and without BatchLimit.     *)
(***************************************************************************)
PathElemAt(units, o) == [Right |-> units[o] = 1, Sibling |-> units[o + 1]]
PathAt(units, first, n) == [j \in 1..n |-> PathElemAt(units, first + 2 * (j - 1))]

\* Mutant of StreamProof: L2 is skipped as if its elements had no side.
StreamProofShort(b) ==
  LET n1 == b[2]
      o  == 3 + 2 * n1
      n2 == b[o + 1]
  IN  IF Len(b) < 2 \/ n1 > StackLimit \/ Len(b) < o + 1 THEN Refused
      ELSE IF Len(b) < o + 2 + n2 THEN Refused
      ELSE <<[Leaf |-> b[1], L1 |-> PathAt(b, 3, n1), SubtreeRoot |-> b[o],
              L2 |-> PathAt(b, o + 2, n2), Header |-> b[o + 2 + n2]]>>
StreamProof(b) ==
  LET n1 == b[2]
      o  == 3 + 2 * n1
      n2 == b[o + 1]
  IN  IF Len(b) < 2 \/ n1 > StackLimit \/ Len(b) < o + 1 THEN Refused
      ELSE IF Len(b) < o + 2 + 2 * n2 THEN Refused
      ELSE <<[Leaf |-> b[1], L1 |-> PathAt(b, 3, n1), SubtreeRoot |-> b[o],
              L2 |-> PathAt(b, o + 2, n2), Header |-> b[o + 2 + 2 * n2]]>>

\* The loop over the proofs: off is the offset of the next one.
StreamNext(s, units) ==
  LET off  == s[1].off
      plen == units[off]
      proof == StreamProof(SubSeq(units, off + 1, off + plen))
  IN  IF s = Refused \/ off > Len(units) THEN Refused
      ELSE IF off + plen > Len(units) \/ proof = Refused THEN Refused
      ELSE <<[off |-> off + 1 + plen, proofs |-> Append(s[1].proofs, proof[1])]>>

StreamBatch(units) ==
  LET upTo[i \in 0..units[1]] ==
        IF i = 0 THEN <<[off |-> 2, proofs |-> << >>]>> ELSE StreamNext(upTo[i - 1], units)
  IN  IF units = << >> \/ upTo[units[1]] = Refused THEN Refused
      ELSE <<upTo[units[1]][1].proofs>>
=============================================================================
