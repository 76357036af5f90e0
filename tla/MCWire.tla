------------------------------- MODULE MCWire -------------------------------
\* Paths of every length up to one more than is read, fields with no bytes
\* and with two, anchors with the same, and up to two of everything; and lists
\* as long as a count can count, or longer.
EXTENDS Wire

PathOf(n) == [i \in 1..n |-> [Right |-> i % 2 = 0, Sibling |-> i]]
FieldsOf(n) == [i \in 1..n |-> [Index |-> i - 1, Bytes |-> IF i = 1 THEN << >> ELSE <<1, 0>>]]

AnchorWith(p, f) ==
  [AccRoot |-> 1, AccPath |-> PathOf(p), GenTxFields |-> FieldsOf(f),
   GenL0 |-> PathOf(0), GenL1 |-> PathOf(1), GenL2 |-> PathOf(0),
   CarryingBlockMerkleRoot |-> 2, CarryingHeader |-> 3]
BundleWith(f, p0, p1, p2, anchor) ==
  [TXID |-> 4, Vout |-> 0, Fields |-> FieldsOf(f), MTxIDPath |-> PathOf(p0),
   SubtreePath |-> PathOf(p1), BlockPath |-> PathOf(p2), Header |-> 1, Anchor |-> anchor]

SomeBundles ==
  {BundleWith(f, p0, p1, p2, << >>) :
     f \in 0..2, p0 \in {0, 3}, p1 \in 0..3, p2 \in 0..1} \cup
  {BundleWith(f, 0, p1, 0, << >>) : f \in {1, CountMod}, p1 \in {1, CountMod}} \cup
  {BundleWith(1, 0, 1, 0, <<AnchorWith(p, f)>>) : p \in 0..3, f \in 0..2}

In(sig, key) == [TXID |-> 1, Vout |-> 0, Sig |-> sig, PubKey |-> key]
Out(value, script) == [Value |-> value, ScriptPubKey |-> script]
Tx(ins, outs) == [Version |-> 1, Inputs |-> ins, Outputs |-> outs, LockTime |-> 0]

SomeMessages ==
  {[Tx |-> Tx(ins, outs), Bundles |-> bs] :
     ins \in {<< >>, <<In(<<1, 2>>, <<3>>), In(<< >>, <<1>>)>>,
              <<In([i \in 1..CountMod |-> 0], <<1>>)>>},
     outs \in {<< >>, <<Out(2, <<1>>), Out(0, << >>)>>},
     bs \in {<< >>, <<BundleWith(1, 0, 1, 0, << >>)>>,
             <<BundleWith(0, 0, 0, 1, << >>), BundleWith(0, 0, 3, 0, << >>)>>}}

Proof(n1, n2) ==
  [Leaf |-> 1, L1 |-> PathOf(n1), SubtreeRoot |-> 0, L2 |-> PathOf(n2), Header |-> 3]
SomeBatches ==
  {<< >>} \cup {<<Proof(n1, n2)>> : n1 \in 0..5, n2 \in 0..5} \cup
  {<<Proof(n1, 1), Proof(1, n2)>> : n1 \in 0..3, n2 \in 0..3} \cup
  {<<Proof(n1, n2)>> : n1 \in {1, CountMod}, n2 \in {1} \cup CountMod - 1..CountMod + 1}
=============================================================================
