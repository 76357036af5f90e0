-------------------------------- MODULE Wire --------------------------------
(***************************************************************************)
(* An object of each wire format on its way from the one who encodes it to *)
(* the one who decodes it, over a medium that may cut it short, append to  *)
(* it, or alter a unit of it.                                              *)
(***************************************************************************)
EXTENDS Codec

CONSTANTS
  Bundles, Messages, ProofBatches,  \* the objects sent
  Noise,                            \* the units that the medium writes
  MaxDamage                         \* bound: times the medium damages a wire

EncodeAs(format, object) ==
  CASE format = "bundle"  -> Serialize(object)
    [] format = "message" -> Encode(object)
    [] format = "batch"   -> EncodeBatch(object)

DecodeAs(format, units) ==
  CASE format = "bundle"  -> Deserialize(units)
    [] format = "message" -> DecodeMessage(units)
    [] format = "batch"   -> DecodeBatch(units)

Sendable ==
  ({"bundle"} \X Bundles) \cup ({"message"} \X Messages) \cup ({"batch"} \X ProofBatches)

\* An object may have lists that are too long for their counts.
ASSUME WireAssumption ==
  /\ \A s \in Sendable : EncodeAs(s[1], s[2]) \in Units
  /\ Noise \subseteq Nat /\ MaxDamage \in Nat

VARIABLES
  sent,    \* the format and the object
  wire,    \* its units, as they are now
  damage   \* what has happened to them

wireVars == <<sent, wire, damage>>

WireInit ==
  /\ sent \in Sendable
  /\ wire = EncodeAs(sent[1], sent[2])
  /\ damage = << >>

\* A wire is cut, or extended, or altered, but not one and then another.
Damaged(kind) ==
  /\ Len(damage) < MaxDamage
  /\ \A i \in DOMAIN damage : damage[i] = kind
  /\ damage' = Append(damage, kind)
  /\ UNCHANGED sent

Cut(length) ==
  /\ Damaged("cut")
  /\ wire' = SubSeq(wire, 1, length)

Extend(unit) ==
  /\ Damaged("extended")
  /\ wire' = Append(wire, unit)

Alter(i, unit) ==
  /\ Damaged("altered")
  /\ wire' = [wire EXCEPT ![i] = unit]

WireNext ==
  \/ \E length \in 0..(Len(wire) - 1) : Cut(length)
  \/ \E unit \in Noise : Extend(unit)
  \/ \E i \in DOMAIN wire, unit \in Noise : Alter(i, unit)

WireSpec == WireInit /\ [][WireNext]_wireVars

-----------------------------------------------------------------------------
(***************************************************************************)
(* Properties                                                              *)
(***************************************************************************)
Undamaged == damage = << >>
Format == sent[1]
Received == DecodeAs(Format, wire)

PathsOfBundle(b) ==
  {b.MTxIDPath, b.SubtreePath, b.BlockPath} \cup
  UNION {{b.Anchor[i].AccPath, b.Anchor[i].GenL0, b.Anchor[i].GenL1, b.Anchor[i].GenL2} :
           i \in DOMAIN b.Anchor}

\* Whether every list of the object whose count has two bytes is short enough
\* for it: the records of Codec are those objects.
CountableAs(format, object) ==
  CASE format = "bundle"  -> object \in BundleRecord
    [] format = "message" -> object \in MessageRecord
    [] format = "batch"   -> object \in Seq(ProofRecord)
Countable == CountableAs(sent[1], sent[2])

\* Whether the reader takes every path of the object.
ReadableAs(format, object) ==
  CASE format = "bundle"  -> \A p \in PathsOfBundle(object) : Len(p) <= PathLimit
    [] format = "message" -> \A i \in DOMAIN object.Bundles :
                               \A p \in PathsOfBundle(object.Bundles[i]) : Len(p) <= PathLimit
    [] format = "batch"   -> \A i \in DOMAIN object :
                               Len(object[i].L1) <= BatchLimit /\ Len(object[i].L2) <= BatchLimit
Readable == ReadableAs(sent[1], sent[2])

\* Serialize and Deserialize, Encode and DecodeMessage, EncodeBatch and
\* DecodeBatch: what arrives is what was sent, with an anchor or without; an
\* object with a path that the reader does not take, which every writer
\* writes without an error, is refused and never read as another object.
\* That much needs lists whose lengths fit their counts, which no writer
\* checks either.  With a longer one the object does not arrive, but it may
\* be read as another: an L2 of 65536 elements is written with a count of 0,
\* its first bytes are read as the header, and decodeProof asks for no end of
\* the proof's bytes (codec.go:36, 126).
RoundTrip ==
  Undamaged =>
    IF Countable THEN Received = IF Readable THEN <<sent[2]>> ELSE Refused
    ELSE Received # <<sent[2]>>

\* take's bound and the test for trailing bytes (A3): no beginning of an
\* object's encoding is an encoding, and nothing can follow one, if its lists
\* are short enough for their counts.  The batch alone has no test for what
\* follows its last proof: it is as if not there.
CutOrExtendedIsNoticed ==
  Countable /\ ~Undamaged /\ damage[1] # "altered" =>
    Received = IF Format = "batch" /\ damage[1] = "extended" /\ Readable
               THEN <<sent[2]>> ELSE Refused

\* Deserialize and DecodeMessage: whatever is accepted is an object of that
\* size, whose own encoding is read back as the same object: a receiver may
\* pass on what it got (a till forwards the bundles it was paid with).
AcceptedIsReencodable ==
  Format # "batch" /\ Received # Refused =>
    LET again == EncodeAs(Format, Received[1])
    IN  Len(again) = Len(wire) /\ DecodeAs(Format, again) = Received

\* VerifyWire parses without allocating what DecodeBatch decodes: on any
\* bytes both find the same proofs, but for the lengths each of them allows.
ParsersAgree ==
  Format = "batch" =>
    LET streamed == StreamBatch(wire)
    IN  \/ streamed = Received
        \/ /\ streamed = Refused
           /\ \E i \in DOMAIN Received[1] : Len(Received[1][i].L1) > StackLimit
        \/ /\ Received = Refused
           /\ \E i \in DOMAIN streamed[1] : Len(streamed[1][i].L2) > BatchLimit
=============================================================================
