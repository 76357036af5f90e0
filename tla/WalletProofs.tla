---------------------------- MODULE WalletProofs ----------------------------
(***************************************************************************)
(* Safety of the wallet's memory and signatures, for any coins, templates, *)
(* room in their arrays, number of payments and of messages; and of the    *)
(* arithmetic its keys and signatures are computed with, for any width of  *)
(* word, modulus and curve.                                                *)
(***************************************************************************)
EXTENDS Wallet, Ecdsa, FiniteSetTheorems, TLAPS

-----------------------------------------------------------------------------
(***************************************************************************)
(* Sequences of anything                                                   *)
(***************************************************************************)
LEMMA SeqAny ==
  ASSUME NEW S, NEW s \in Seq(S)
  PROVE  IsSeq(s)
<1>1. Len(s) \in Nat /\ s \in [1..Len(s) -> S] /\ DOMAIN s = 1..Len(s)
  OBVIOUS
<1>2. s \in [1..Len(s) -> ToSet(s)]
  BY <1>1 DEF ToSet
<1> QED BY <1>1, <1>2 DEF IsSeq

LEMMA LenAny ==
  ASSUME NEW s, IsSeq(s)
  PROVE  Len(s) \in Nat /\ DOMAIN s = 1..Len(s)
BY DEF IsSeq

LEMMA AppendAny ==
  ASSUME NEW s, IsSeq(s), NEW e
  PROVE  /\ IsSeq(Append(s, e))
         /\ Len(Append(s, e)) = Len(s) + 1
         /\ DOMAIN Append(s, e) = 1..(Len(s) + 1)
         /\ \A i \in DOMAIN s : Append(s, e)[i] = s[i]
         /\ Append(s, e)[Len(s) + 1] = e
<1> DEFINE S == ToSet(s) \cup {e}
<1>1. s \in Seq(S)
  BY DEF IsSeq
<1>2. e \in S
  OBVIOUS
<1> HIDE DEF S
<1>3. Append(s, e) \in Seq(S)
  BY <1>1, <1>2
<1>4. IsSeq(Append(s, e))
  BY <1>3, SeqAny
<1>5. DOMAIN s = 1..Len(s) /\ DOMAIN Append(s, e) = 1..Len(Append(s, e))
  BY <1>1, <1>3
<1>6. Len(Append(s, e)) = Len(s) + 1 /\ Append(s, e)[Len(s) + 1] = e
  BY <1>1, <1>2
<1>7. \A i \in 1..Len(s) : Append(s, e)[i] = s[i]
  BY <1>1, <1>2
<1> QED BY <1>4, <1>5, <1>6, <1>7

LEMMA ConcatAny ==
  ASSUME NEW s, NEW t, IsSeq(s), IsSeq(t)
  PROVE  /\ IsSeq(s \o t)
         /\ Len(s \o t) = Len(s) + Len(t)
         /\ \A i \in 1..Len(s) : (s \o t)[i] = s[i]
         /\ \A i \in 1..Len(t) : (s \o t)[Len(s) + i] = t[i]
<1> DEFINE S == ToSet(s) \cup ToSet(t)
<1>1. s \in Seq(S) /\ t \in Seq(S)
  BY DEF IsSeq
<1> HIDE DEF S
<1>2. s \o t \in Seq(S)
  BY <1>1
<1>3. IsSeq(s \o t)
  BY <1>2, SeqAny
<1>4. /\ Len(s \o t) = Len(s) + Len(t)
      /\ \A i \in 1..Len(s) : (s \o t)[i] = s[i]
      /\ \A i \in 1..Len(t) : (s \o t)[Len(s) + i] = t[i]
  BY <1>1
<1> QED BY <1>3, <1>4

LEMMA FirstAny ==
  ASSUME NEW s, IsSeq(s), NEW n \in 0..Len(s)
  PROVE  /\ IsSeq(SubSeq(s, 1, n))
         /\ Len(SubSeq(s, 1, n)) = n
         /\ \A i \in 1..n : SubSeq(s, 1, n)[i] = s[i]
<1>1. SubSeq(s, 1, n) \in Seq(ToSet(s))
  BY DEF IsSeq
<1>2. IsSeq(SubSeq(s, 1, n))
  BY <1>1, SeqAny
<1> DEFINE S == ToSet(s)
<1>3. s \in Seq(S)
  BY DEF IsSeq
<1> HIDE DEF S
<1>4. /\ Len(SubSeq(s, 1, n)) = n
      /\ \A i \in 1..n : SubSeq(s, 1, n)[i] = s[i]
  BY <1>3
<1> QED BY <1>2, <1>4

LEMMA FillAny ==
  ASSUME NEW n \in Nat, NEW e
  PROVE  /\ IsSeq([i \in 1..n |-> e])
         /\ Len([i \in 1..n |-> e]) = n
<1>1. [i \in 1..n |-> e] \in Seq({e}) /\ Len([i \in 1..n |-> e]) = n
  OBVIOUS
<1>2. IsSeq([i \in 1..n |-> e])
  BY <1>1, SeqAny
<1> QED BY <1>1, <1>2

LEMMA ExceptAny ==
  ASSUME NEW s, IsSeq(s), NEW n \in DOMAIN s, NEW e
  PROVE  /\ IsSeq([s EXCEPT ![n] = e])
         /\ Len([s EXCEPT ![n] = e]) = Len(s)
         /\ [s EXCEPT ![n] = e][n] = e
         /\ \A i \in DOMAIN s : i # n => [s EXCEPT ![n] = e][i] = s[i]
<1> DEFINE S == ToSet(s) \cup {e}
<1>1. s \in Seq(S) /\ e \in S
  BY DEF IsSeq
<1> HIDE DEF S
<1>2. [s EXCEPT ![n] = e] \in Seq(S) /\ Len([s EXCEPT ![n] = e]) = Len(s)
  BY <1>1
<1>3. IsSeq([s EXCEPT ![n] = e])
  BY <1>2, SeqAny
<1>4. [s EXCEPT ![n] = e][n] = e
  OBVIOUS
<1>5. \A i \in DOMAIN s : i # n => [s EXCEPT ![n] = e][i] = s[i]
  OBVIOUS
<1> QED BY <1>2, <1>3, <1>4, <1>5

LEMMA SameSeq ==
  ASSUME NEW s, NEW t, IsSeq(s), IsSeq(t), Len(s) = Len(t),
         \A i \in 1..Len(s) : s[i] = t[i]
  PROVE  s = t
BY DEF IsSeq

-----------------------------------------------------------------------------
(***************************************************************************)
(* The inductive invariant                                                 *)
(***************************************************************************)
SliceOK(slice) ==
  /\ slice.array \in DOMAIN cells
  /\ slice.len \in 1..Len(cells[slice.array])

\* Arrays are never shorter than the slices over them.
MemoryInv ==
  /\ IsSeq(cells) /\ \A a \in DOMAIN cells : IsSeq(cells[a])
  /\ \A k \in DOMAIN Requests :
       k \in DOMAIN cells /\ Len(Requests[k].outputs) <= Len(cells[k])
  /\ IsSeq(fills) /\ \A f \in DOMAIN fills : SliceOK(fills[f].outputs)

\* Whatever was written since, a fill's signatures are over what was agreed.
SignedAsAgreed(f) ==
  \A i \in DOMAIN fills[f].inputs :
     fills[f].inputs[i].sig =
       Sign([inputs |-> fills[f].inputs, outputs |-> fills[f].agreed],
            i, fills[f].inputs[i].pubkey)

FillInv(f) ==
  /\ SignedAsAgreed(f)
  /\ (\A g \in DOMAIN fills : ~Overwrote(g, f)) => Content(fills[f].outputs) = fills[f].agreed

\* A message is a fill as it was when so many payments had been filled.
SentInv(k) ==
  LET m == sent[k]
  IN  /\ m.of \in DOMAIN fills /\ m.after \in DOMAIN fills
      /\ m.inputs = fills[m.of].inputs
      /\ \A i \in DOMAIN m.bundles : m.bundles[i].fields
      /\ (\A g \in 1..m.after : ~Overwrote(g, m.of)) => m.outputs = fills[m.of].agreed

WalletInv ==
  /\ MemoryInv
  /\ \A f \in DOMAIN fills : FillInv(f)
  /\ IsSeq(sent) /\ \A k \in DOMAIN sent : SentInv(k)

-----------------------------------------------------------------------------
(***************************************************************************)
(* Signing and appending                                                   *)
(***************************************************************************)

\* A signature covers no signature, so signing one input after the other
\* signs the same structure.
LEMMA SignedOnce ==
  ASSUME NEW tx, NEW i \in DOMAIN tx.inputs
  PROVE  /\ DOMAIN SignedInputs(tx) = DOMAIN tx.inputs
         /\ SignedInputs(tx)[i].sig =
              Sign([inputs |-> SignedInputs(tx), outputs |-> tx.outputs],
                   i, SignedInputs(tx)[i].pubkey)
<1>1. DOMAIN SignedInputs(tx) = DOMAIN tx.inputs
  BY DEF SignedInputs
<1>2. \A j \in DOMAIN tx.inputs :
        /\ SignedInputs(tx)[j].prev = tx.inputs[j].prev
        /\ SignedInputs(tx)[j].pubkey = tx.inputs[j].pubkey
  BY DEF SignedInputs
<1>3. SignedInputs(tx)[i].sig = Sign(tx, i, tx.inputs[i].pubkey)
  BY DEF SignedInputs
<1> DEFINE signed == [inputs |-> SignedInputs(tx), outputs |-> tx.outputs]
<1>4. signed.inputs = SignedInputs(tx) /\ signed.outputs = tx.outputs
  OBVIOUS
<1> HIDE DEF signed
<1>5. Preimage(signed, i) = Preimage(tx, i)
  BY <1>1, <1>2, <1>4 DEF Preimage
<1>6. Sign(signed, i, tx.inputs[i].pubkey) = Sign(tx, i, tx.inputs[i].pubkey)
  BY <1>5 DEF Sign
<1> QED BY <1>1, <1>2, <1>3, <1>6 DEF signed

\* What a verifier reads of a signature.
LEMMA SignatureFields ==
  ASSUME NEW tx, NEW i, NEW k, NEW s, s = Sign(tx, i, k)
  PROVE  s.by = k /\ s.over = Preimage(tx, i) /\ s.lowS
<1>1. s.by = k /\ s.over = Preimage(tx, i)
  BY DEF Sign
<1>2. s.lowS
  BY Zenon DEF Sign
<1> QED BY <1>1, <1>2

\* The cells that an append leaves alone.
Kept(slice, a, i) == ~(HasRoom(slice) /\ a = slice.array /\ i = slice.len + 1)

LEMMA Appending ==
  ASSUME MemoryInv, NEW slice, SliceOK(slice), NEW out, AppendOutput(slice, out)
  PROVE  /\ IsSeq(cells')
         /\ \A a \in DOMAIN cells' : IsSeq(cells'[a])
         /\ DOMAIN cells \subseteq DOMAIN cells'
         /\ \A a \in DOMAIN cells : /\ Len(cells'[a]) = Len(cells[a])
                                   /\ \A i \in 1..Len(cells[a]) :
                                        Kept(slice, a, i) => cells'[a][i] = cells[a][i]
         /\ Appended(slice).array \in DOMAIN cells'
         /\ Appended(slice).len \in 1..Len(cells'[Appended(slice).array])
         /\ SubSeq(cells'[Appended(slice).array], 1, Appended(slice).len)
              = Content(slice) \o <<out>>
<1> DEFINE s == cells[slice.array]
           n == slice.len
           new == cells'[Appended(slice).array]
<1>1. IsSeq(s) /\ Len(s) \in Nat /\ n \in 1..Len(s) /\ slice.array \in DOMAIN cells
  BY LenAny DEF MemoryInv, SliceOK
<1>2. Len(cells) \in Nat /\ DOMAIN cells = 1..Len(cells)
  BY LenAny DEF MemoryInv
<1>3. /\ IsSeq(Content(slice)) /\ Len(Content(slice)) = n
      /\ \A i \in 1..n : Content(slice)[i] = s[i]
  <2> HIDE DEF s
  <2>1. n \in 0..Len(s)
    BY <1>1
  <2> HIDE DEF n
  <2>2. SubSeq(s, 1, n) = Content(slice)
    BY DEF Content, s, n
  <2> QED BY <1>1, <2>1, <2>2, FirstAny
<1>4. IsSeq(<<out>>) /\ Len(<<out>>) = 1 /\ <<out>>[1] = out
  <2>1. <<out>> \in Seq({out}) /\ Len(<<out>>) = 1 /\ <<out>>[1] = out
    OBVIOUS
  <2> QED BY <2>1, SeqAny
<1>5. /\ IsSeq(Content(slice) \o <<out>>) /\ Len(Content(slice) \o <<out>>) = n + 1
      /\ \A i \in 1..n : (Content(slice) \o <<out>>)[i] = s[i]
      /\ (Content(slice) \o <<out>>)[n + 1] = out
  <2> DEFINE c == Content(slice)
             o == <<out>>
  <2>1. Len(c) = n /\ Len(o) = 1 /\ o[1] = out
    BY <1>3, <1>4
  <2>0. IsSeq(c) /\ IsSeq(o)
    BY <1>3, <1>4
  <2> HIDE DEF c, o
  <2>2. /\ IsSeq(c \o o)
        /\ Len(c \o o) = Len(c) + Len(o)
        /\ \A i \in 1..Len(c) : (c \o o)[i] = c[i]
        /\ \A i \in 1..Len(o) : (c \o o)[Len(c) + i] = o[i]
    BY <2>0, ConcatAny
  <2>3. /\ IsSeq(c \o o) /\ Len(c \o o) = n + 1
        /\ \A i \in 1..n : (c \o o)[i] = c[i]
        /\ (c \o o)[n + 1] = out
    BY <1>1, <2>1, <2>2
  <2> QED BY <2>3, <1>3 DEF c, o
\* What is left to show of the array that the change went into.
<1>6. ASSUME IsSeq(new), n + 1 <= Len(new), \A i \in 1..n : new[i] = s[i], new[n + 1] = out
      PROVE  SubSeq(new, 1, n + 1) = Content(slice) \o <<out>>
  <2> DEFINE c == Content(slice) \o <<out>>
  <2> HIDE DEF new, c, s
  <2>1. n + 1 \in 0..Len(new)
    BY <1>1, <1>6, LenAny
  <2>2. /\ IsSeq(SubSeq(new, 1, n + 1)) /\ Len(SubSeq(new, 1, n + 1)) = n + 1
        /\ \A i \in 1..(n + 1) : SubSeq(new, 1, n + 1)[i] = new[i]
    BY <1>6, <2>1, FirstAny
  <2>3. ASSUME NEW i \in 1..(n + 1) PROVE SubSeq(new, 1, n + 1)[i] = c[i]
    <3>1. SubSeq(new, 1, n + 1)[i] = new[i]
      BY <2>2
    <3>2. CASE i = n + 1
      BY <1>5, <1>6, <3>1, <3>2 DEF c
    <3>3. CASE i \in 1..n
      BY <1>5, <1>6, <3>1, <3>3 DEF c
    <3> QED BY <1>1, <3>2, <3>3
  <2>4. IsSeq(c) /\ Len(c) = n + 1
    BY <1>5 DEF c
  <2>5. SubSeq(new, 1, n + 1) = c
    BY <2>2, <2>3, <2>4, SameSeq
  <2> QED BY <2>5 DEF c
<1>7. CASE HasRoom(slice)
  <2>1. cells' = [cells EXCEPT ![slice.array] = [s EXCEPT ![n + 1] = out]]
    BY <1>7 DEF AppendOutput
  <2>2. Appended(slice).array = slice.array /\ Appended(slice).len = n + 1
    BY <1>7 DEF Appended
  <2>3. n + 1 \in DOMAIN s /\ DOMAIN s = 1..Len(s)
    BY <1>1, <1>7, LenAny DEF HasRoom
  <2> DEFINE t == [s EXCEPT ![n + 1] = out]
  <2>4. /\ IsSeq(t) /\ Len(t) = Len(s) /\ t[n + 1] = out
        /\ \A i \in DOMAIN s : i # n + 1 => t[i] = s[i]
    <3> HIDE DEF s
    <3>1. IsSeq(s) /\ n + 1 \in DOMAIN s
      BY <1>1, <2>3
    <3> QED BY <3>1, ExceptAny
  <2> HIDE DEF t
  <2>5. IsSeq(cells') /\ DOMAIN cells' = DOMAIN cells /\ cells'[slice.array] = t
        /\ \A a \in DOMAIN cells : a # slice.array => cells'[a] = cells[a]
    <3>1. IsSeq(cells)
      BY DEF MemoryInv
    <3>2. cells' = [cells EXCEPT ![slice.array] = t]
      BY <2>1 DEF t
    <3>3. IsSeq(cells')
      BY <1>1, <3>1, <3>2, ExceptAny
    <3> QED BY <1>1, <3>2, <3>3
  <2>6. \A a \in DOMAIN cells' : IsSeq(cells'[a])
    BY <2>4, <2>5 DEF MemoryInv
  <2>7. \A a \in DOMAIN cells :
          /\ Len(cells'[a]) = Len(cells[a])
          /\ \A i \in 1..Len(cells[a]) : Kept(slice, a, i) => cells'[a][i] = cells[a][i]
    BY <1>7, <2>3, <2>4, <2>5 DEF Kept
  <2>8. \A i \in 1..n : t[i] = s[i]
    BY <1>1, <2>3, <2>4
  <2>9. new = t /\ IsSeq(new) /\ n + 1 <= Len(new) /\ n + 1 \in 1..Len(new)
    BY <1>1, <2>2, <2>3, <2>4, <2>5
  <2>10. SubSeq(new, 1, n + 1) = Content(slice) \o <<out>>
    BY <1>6, <2>4, <2>8, <2>9
  <2> QED BY <1>1, <2>2, <2>5, <2>6, <2>7, <2>9, <2>10
<1>8. CASE ~HasRoom(slice)
  <2> DEFINE c == Content(slice) \o <<out>>
             r == [i \in 1..(n - 1) |-> Unwritten]
             t == c \o r
  <2>1. cells' = Append(cells, t)
    BY <1>8 DEF AppendOutput
  <2>2. Appended(slice).array = Len(cells) + 1 /\ Appended(slice).len = n + 1
    BY <1>8 DEF Appended
  <2>3. IsSeq(r) /\ Len(r) = n - 1
    <3>1. n - 1 \in Nat
      BY <1>1
    <3> HIDE DEF n
    <3> QED BY <3>1, FillAny
  <2>4. IsSeq(c) /\ Len(c) = n + 1
    BY <1>5
  <2>5. IsSeq(t) /\ Len(t) = n + n /\ \A i \in 1..(n + 1) : t[i] = c[i]
    <3> HIDE DEF c, r
    <3>1. /\ IsSeq(c \o r) /\ Len(c \o r) = Len(c) + Len(r)
          /\ \A i \in 1..Len(c) : (c \o r)[i] = c[i]
      BY <2>3, <2>4, ConcatAny
    <3> QED BY <1>1, <2>3, <2>4, <3>1
  <2> HIDE DEF t
  <2>6. /\ IsSeq(cells') /\ DOMAIN cells' = 1..(Len(cells) + 1)
        /\ \A a \in DOMAIN cells : cells'[a] = cells[a]
        /\ cells'[Len(cells) + 1] = t
    <3>1. IsSeq(cells)
      BY DEF MemoryInv
    <3> QED BY <2>1, <3>1, AppendAny
  <2>7. \A a \in DOMAIN cells' : IsSeq(cells'[a])
    <3>1. \A a \in DOMAIN cells' : a \in DOMAIN cells \/ a = Len(cells) + 1
      BY <1>2, <2>6
    <3> QED BY <2>5, <2>6, <3>1 DEF MemoryInv
  <2>8. DOMAIN cells \subseteq DOMAIN cells'
    BY <1>2, <2>6
  <2>9. new = t /\ IsSeq(new) /\ n + 1 <= Len(new) /\ n + 1 \in 1..Len(new)
    BY <1>1, <2>2, <2>5, <2>6
  <2>10. (\A i \in 1..n : new[i] = s[i]) /\ new[n + 1] = out
    <3>1. (\A i \in 1..n : c[i] = s[i]) /\ c[n + 1] = out
      BY <1>5
    <3>2. \A i \in 1..(n + 1) : new[i] = c[i]
      BY <2>5, <2>9
    <3>3. n \in Nat
      BY <1>1
    <3> HIDE DEF n, s, c
    <3>4. n + 1 \in 1..(n + 1) /\ \A i \in 1..n : i \in 1..(n + 1)
      BY <3>3
    <3> QED BY <3>1, <3>2, <3>4
  <2>11. SubSeq(new, 1, n + 1) = Content(slice) \o <<out>>
    BY <1>6, <2>9, <2>10
  <2>12. Appended(slice).array \in DOMAIN cells'
    BY <1>2, <2>2, <2>6
  <2> QED BY <2>2, <2>6, <2>7, <2>8, <2>9, <2>11, <2>12
<1> QED BY <1>7, <1>8

-----------------------------------------------------------------------------
(***************************************************************************)
(* FillTemplate                                                            *)
(***************************************************************************)

\* The payment that a fill returns.
Filled(template, bundles, change) ==
  [inputs |-> SignedInputs(Structure(bundles, template, change)),
   outputs |-> IF change = NoChange THEN template ELSE Appended(template),
   inPlace |-> change # NoChange /\ HasRoom(template),
   agreed |-> Structure(bundles, template, change).outputs]

LEMMA TemplatesOK ==
  ASSUME MemoryInv, NEW template \in Templates
  PROVE  SliceOK(template)
<1>1. CASE \E f \in DOMAIN fills : template = fills[f].outputs
  BY <1>1 DEF MemoryInv
<1>2. CASE \E k \in DOMAIN Requests : template = [array |-> k, len |-> Len(Requests[k].outputs)]
  <2>1. PICK k \in DOMAIN Requests : template = [array |-> k, len |-> Len(Requests[k].outputs)]
    BY <1>2
  <2>2. IsSeq(Requests[k].outputs) /\ Requests[k].outputs # << >>
    BY WalletAssumption
  <2>3. Len(Requests[k].outputs) \in Nat \ {0}
    BY <2>2 DEF IsSeq
  <2>4. k \in DOMAIN cells /\ Len(Requests[k].outputs) <= Len(cells[k]) /\ IsSeq(cells[k])
    BY DEF MemoryInv
  <2>5. Len(cells[k]) \in Nat
    BY <2>4, LenAny
  <2>6. template.array = k /\ template.len = Len(Requests[k].outputs)
    BY <2>1
  <2> QED BY <2>3, <2>4, <2>5, <2>6 DEF SliceOK
<1> QED BY <1>1, <1>2 DEF Templates

LEMMA FillAppends ==
  ASSUME MemoryInv, NEW template, NEW bundles, NEW change, FillTemplate(template, bundles, change)
  PROVE  /\ IsSeq(fills') /\ DOMAIN fills' = 1..(Len(fills) + 1)
         /\ \A f \in DOMAIN fills : fills'[f] = fills[f]
         /\ fills'[Len(fills) + 1] = Filled(template, bundles, change)
         /\ Len(fills') = Len(fills) + 1
<1>1. fills' = Append(fills, Filled(template, bundles, change))
  BY DEF FillTemplate, Filled
<1>2. IsSeq(fills)
  BY DEF MemoryInv
<1> QED BY <1>1, <1>2, AppendAny

\* What a fill does to memory: the new payment's slice holds what was agreed,
\* and every other slice still holds what it held, unless the change went in
\* place into a cell that the slice covers.
LEMMA FillMemory ==
  ASSUME MemoryInv, NEW template, SliceOK(template), NEW bundles, NEW change,
         FillTemplate(template, bundles, change)
  PROVE  LET new == Filled(template, bundles, change) IN
         /\ IsSeq(cells') /\ \A a \in DOMAIN cells' : IsSeq(cells'[a])
         /\ DOMAIN cells \subseteq DOMAIN cells'
         /\ \A a \in DOMAIN cells : Len(cells'[a]) = Len(cells[a])
         /\ new.outputs.array \in DOMAIN cells'
         /\ new.outputs.len \in 1..Len(cells'[new.outputs.array])
         /\ SubSeq(cells'[new.outputs.array], 1, new.outputs.len) = new.agreed
         /\ \A slice : SliceOK(slice) =>
              \/ Content(slice)' = Content(slice)
              \/ new.inPlace /\ new.outputs.array = slice.array /\ new.outputs.len <= slice.len
<1> DEFINE new == Filled(template, bundles, change)
<1>1. CASE change = NoChange
  <2>1. cells' = cells
    BY <1>1 DEF FillTemplate
  <2>2. new.outputs = template /\ new.agreed = Content(template) \o << >>
    BY <1>1 DEF Filled, Structure
  <2>3. IsSeq(cells[template.array]) /\ template.len \in 0..Len(cells[template.array])
    BY DEF MemoryInv, SliceOK
  <2>4. IsSeq(Content(template))
    BY <2>3, FirstAny DEF Content
  <2>5. Content(template) \o << >> = Content(template)
    BY <2>4 DEF IsSeq
  <2>6. /\ new.outputs.array \in DOMAIN cells'
        /\ new.outputs.len \in 1..Len(cells'[new.outputs.array])
    BY <2>1, <2>2 DEF SliceOK
  <2>7. SubSeq(cells'[new.outputs.array], 1, new.outputs.len) = new.agreed
    BY <2>1, <2>2, <2>5 DEF Content
  <2>8. \A slice : Content(slice)' = Content(slice)
    BY <2>1 DEF Content
  <2> QED BY <2>1, <2>6, <2>7, <2>8 DEF MemoryInv
<1>2. CASE change # NoChange
  <2>1. AppendOutput(template, change)
    BY <1>2 DEF FillTemplate
  <2>2. /\ new.outputs = Appended(template)
        /\ new.agreed = Content(template) \o <<change>>
        /\ new.inPlace <=> HasRoom(template)
    <3>1. new.outputs = Appended(template) /\ new.agreed = Content(template) \o <<change>>
      BY <1>2 DEF Filled, Structure
    <3>2. new.inPlace = (change # NoChange /\ HasRoom(template))
      BY Zenon DEF Filled
    <3> QED BY <1>2, <3>1, <3>2, Zenon
  <2>3. /\ IsSeq(cells')
        /\ \A a \in DOMAIN cells' : IsSeq(cells'[a])
        /\ DOMAIN cells \subseteq DOMAIN cells'
        /\ \A a \in DOMAIN cells :
             /\ Len(cells'[a]) = Len(cells[a])
             /\ \A i \in 1..Len(cells[a]) : Kept(template, a, i) => cells'[a][i] = cells[a][i]
        /\ Appended(template).array \in DOMAIN cells'
        /\ Appended(template).len \in 1..Len(cells'[Appended(template).array])
        /\ SubSeq(cells'[Appended(template).array], 1, Appended(template).len)
             = Content(template) \o <<change>>
    BY <2>1, Appending
  <2>4. /\ new.outputs.array \in DOMAIN cells'
        /\ new.outputs.len \in 1..Len(cells'[new.outputs.array])
    BY <2>2, <2>3
  <2>5. SubSeq(cells'[new.outputs.array], 1, new.outputs.len) = new.agreed
    BY <2>2, <2>3
  <2>6. ASSUME NEW slice, SliceOK(slice),
               ~(new.inPlace /\ new.outputs.array = slice.array /\ new.outputs.len <= slice.len)
        PROVE  Content(slice)' = Content(slice)
    <3> DEFINE a == slice.array
               n == slice.len
    <3>1. a \in DOMAIN cells /\ n \in 1..Len(cells[a]) /\ IsSeq(cells[a]) /\ IsSeq(cells'[a])
      BY <2>3, <2>6 DEF SliceOK, MemoryInv
    <3>2. Len(cells[a]) \in Nat /\ Len(cells'[a]) = Len(cells[a])
      BY <2>3, <3>1, LenAny
    <3>3. \A i \in 1..n : Kept(template, a, i)
      <4>1. HasRoom(template) =>
              Appended(template).array = template.array /\ Appended(template).len = template.len + 1
        BY DEF Appended
      <4>2. template.len \in Int
        <5>1. Len(cells[template.array]) \in Nat
          BY LenAny DEF SliceOK, MemoryInv
        <5> QED BY <5>1 DEF SliceOK
      <4>3. n \in Int
        BY <3>1, <3>2
      <4> QED BY <2>2, <2>6, <4>1, <4>2, <4>3 DEF Kept
    <3>4. \A i \in 1..n : cells'[a][i] = cells[a][i]
      <4>1. \A i \in 1..Len(cells[a]) : Kept(template, a, i) => cells'[a][i] = cells[a][i]
        BY <2>3, <3>1
      <4>2. \A i \in 1..n : i \in 1..Len(cells[a])
        BY <3>1, <3>2
      <4> QED BY <3>3, <4>1, <4>2
    <3>5. SubSeq(cells'[a], 1, n) = SubSeq(cells[a], 1, n)
      <4> DEFINE s == cells[a]
                 t == cells'[a]
      <4>1. IsSeq(s) /\ IsSeq(t) /\ n \in 0..Len(s) /\ n \in 0..Len(t) /\ \A i \in 1..n : t[i] = s[i]
        BY <3>1, <3>2, <3>4
      <4> HIDE DEF s, t, n
      <4>2. /\ IsSeq(SubSeq(s, 1, n)) /\ Len(SubSeq(s, 1, n)) = n
            /\ \A i \in 1..n : SubSeq(s, 1, n)[i] = s[i]
        BY <4>1, FirstAny
      <4>3. /\ IsSeq(SubSeq(t, 1, n)) /\ Len(SubSeq(t, 1, n)) = n
            /\ \A i \in 1..n : SubSeq(t, 1, n)[i] = t[i]
        BY <4>1, FirstAny
      <4>4. \A i \in 1..Len(SubSeq(s, 1, n)) : SubSeq(t, 1, n)[i] = SubSeq(s, 1, n)[i]
        BY <4>1, <4>2, <4>3
      <4>5. SubSeq(t, 1, n) = SubSeq(s, 1, n)
        BY <4>2, <4>3, <4>4, SameSeq
      <4> QED BY <4>5 DEF s, t
    <3> QED BY <3>5 DEF Content
  <2> QED BY <2>3, <2>4, <2>5, <2>6
<1> QED BY <1>1, <1>2

-----------------------------------------------------------------------------
(***************************************************************************)
(* Every step keeps the invariant                                          *)
(***************************************************************************)
LEMMA InitWallet == Init => WalletInv
<1> SUFFICES ASSUME Init PROVE WalletInv
  OBVIOUS
<1>1. DOMAIN cells = DOMAIN Requests /\ DOMAIN fills = {} /\ DOMAIN sent = {}
  BY DEF Init
<1>2. IsSeq(<< >>)
  <2>1. << >> \in Seq({})
    OBVIOUS
  <2> QED BY <2>1, SeqAny
<1>3. IsSeq(cells)
  <2> DEFINE S == {cells[k] : k \in DOMAIN Requests}
  <2>1. IsSeq(Requests)
    BY WalletAssumption
  <2>2. Len(Requests) \in Nat /\ DOMAIN Requests = 1..Len(Requests)
    BY <2>1, LenAny
  <2>3. cells \in [1..Len(Requests) -> S]
    BY <2>2, <1>1 DEF Init
  <2>4. cells \in Seq(S)
    <3> HIDE DEF S
    <3> QED BY <2>2, <2>3
  <2> QED BY <2>4, SeqAny
<1>4. ASSUME NEW k \in DOMAIN Requests
      PROVE  IsSeq(cells[k]) /\ Len(Requests[k].outputs) <= Len(cells[k])
  <2> DEFINE s == Requests[k].outputs
             n == Requests[k].room
             t == [i \in 1..n |-> Unwritten]
  <2>1. IsSeq(s) /\ n \in Nat
    BY WalletAssumption
  <2>2. cells[k] = s \o t
    BY DEF Init
  <2> HIDE DEF s, n
  <2>3. IsSeq(t) /\ Len(t) = n
    BY <2>1, FillAny
  <2>4. Len(s) \in Nat
    BY <2>1, LenAny
  <2> HIDE DEF t
  <2>5. IsSeq(s \o t) /\ Len(s \o t) = Len(s) + Len(t)
    BY <2>1, <2>3, ConcatAny
  <2>6. IsSeq(cells[k]) /\ Len(s) <= Len(cells[k])
    BY <2>1, <2>2, <2>3, <2>4, <2>5
  <2> QED BY <2>6 DEF s
<1>5. fills = << >> /\ sent = << >>
  BY DEF Init
<1> QED BY <1>1, <1>2, <1>3, <1>4, <1>5 DEF WalletInv, MemoryInv

LEMMA FillKeeps ==
  ASSUME WalletInv, NEW template \in Templates, NEW bundles, NEW change,
         FillTemplate(template, bundles, change)
  PROVE  WalletInv'
<1> DEFINE new == Filled(template, bundles, change)
<1>0. PICK N : N = Len(fills) + 1
  OBVIOUS
<1>1. MemoryInv /\ IsSeq(fills) /\ SliceOK(template)
  BY TemplatesOK DEF WalletInv, MemoryInv
<1>2. Len(fills) \in Nat /\ DOMAIN fills = 1..Len(fills)
  BY <1>1, LenAny
<1>3. /\ IsSeq(fills') /\ DOMAIN fills' = 1..N /\ Len(fills') = N
      /\ \A f \in DOMAIN fills : fills'[f] = fills[f]
      /\ fills'[N] = new
  BY <1>0, <1>1, FillAppends
<1>4. /\ IsSeq(cells') /\ \A a \in DOMAIN cells' : IsSeq(cells'[a])
      /\ DOMAIN cells \subseteq DOMAIN cells'
      /\ \A a \in DOMAIN cells : Len(cells'[a]) = Len(cells[a])
      /\ new.outputs.array \in DOMAIN cells'
      /\ new.outputs.len \in 1..Len(cells'[new.outputs.array])
      /\ SubSeq(cells'[new.outputs.array], 1, new.outputs.len) = new.agreed
      /\ \A slice : SliceOK(slice) =>
           \/ Content(slice)' = Content(slice)
           \/ new.inPlace /\ new.outputs.array = slice.array /\ new.outputs.len <= slice.len
  BY <1>1, FillMemory
<1>5. new.inputs = SignedInputs(Structure(bundles, template, change))
      /\ new.agreed = Structure(bundles, template, change).outputs
  BY DEF Filled
<1> HIDE DEF new
<1>6. DOMAIN fills' = DOMAIN fills \cup {N} /\ N \notin DOMAIN fills
      /\ \A f \in DOMAIN fills : N > f
  BY <1>0, <1>2, <1>3
<1>7. MemoryInv'
  <2>1. \A f \in DOMAIN fills' : SliceOK(fills[f].outputs)'
    <3> SUFFICES ASSUME NEW f \in DOMAIN fills' PROVE SliceOK(fills[f].outputs)'
      OBVIOUS
    <3>1. CASE f \in DOMAIN fills
      BY <3>1, <1>1, <1>3, <1>4 DEF SliceOK, MemoryInv
    <3>2. CASE f = N
      BY <3>2, <1>3, <1>4 DEF SliceOK
    <3> QED BY <3>1, <3>2, <1>6
  <2>2. \A k \in DOMAIN Requests :
          k \in DOMAIN cells' /\ Len(Requests[k].outputs) <= Len(cells'[k])
    BY <1>1, <1>4 DEF MemoryInv
  <2> QED BY <1>3, <1>4, <2>1, <2>2 DEF MemoryInv
<1>8. ASSUME NEW f \in DOMAIN fills, NEW g \in DOMAIN fills
      PROVE  Overwrote(g, f)' <=> Overwrote(g, f)
  BY <1>3 DEF Overwrote
<1>9. ASSUME NEW f \in DOMAIN fills PROVE FillInv(f)'
  <2>1. FillInv(f) /\ SliceOK(fills[f].outputs)
    BY DEF WalletInv, MemoryInv
  <2>2. fills'[f] = fills[f]
    BY <1>3
  <2>3. SignedAsAgreed(f)'
    BY <2>1, <2>2 DEF FillInv, SignedAsAgreed
  <2>4. ASSUME \A g \in DOMAIN fills' : ~Overwrote(g, f)'
        PROVE  Content(fills[f].outputs)' = fills'[f].agreed
    <3>1. \A g \in DOMAIN fills : ~Overwrote(g, f)
      BY <2>4, <1>6, <1>8
    <3>2. Content(fills[f].outputs) = fills[f].agreed
      BY <2>1, <3>1 DEF FillInv
    <3>3. ~(new.inPlace /\ new.outputs.array = fills[f].outputs.array
              /\ new.outputs.len <= fills[f].outputs.len)
      BY <2>4, <2>2, <1>3, <1>6 DEF Overwrote
    <3> DEFINE slice == fills[f].outputs
    <3>4. SubSeq(cells'[slice.array], 1, slice.len) = SubSeq(cells[slice.array], 1, slice.len)
      BY <2>1, <3>3, <1>4 DEF Content
    <3> QED BY <2>2, <3>2, <3>4 DEF Content
  <2> QED BY <2>3, <2>4 DEF FillInv
<1>10. FillInv(N)'
  <2> DEFINE tx == Structure(bundles, template, change)
  <2>1. \A i \in DOMAIN tx.inputs :
          /\ DOMAIN SignedInputs(tx) = DOMAIN tx.inputs
          /\ SignedInputs(tx)[i].sig =
               Sign([inputs |-> SignedInputs(tx), outputs |-> tx.outputs],
                    i, SignedInputs(tx)[i].pubkey)
    <3> HIDE DEF tx
    <3> QED BY SignedOnce
  <2>2. DOMAIN SignedInputs(tx) = DOMAIN tx.inputs
    BY DEF SignedInputs
  <2>3. SignedAsAgreed(N)'
    <3> HIDE DEF tx
    <3>1. fills'[N].inputs = SignedInputs(tx) /\ fills'[N].agreed = tx.outputs
      BY <1>3, <1>5 DEF tx
    <3> QED BY <2>1, <2>2, <3>1 DEF SignedAsAgreed
  <2>4. Content(fills[N].outputs)' = fills'[N].agreed
    BY <1>3, <1>4 DEF Content
  <2> QED BY <2>3, <2>4 DEF FillInv
<1>11. ASSUME NEW k \in DOMAIN sent PROVE SentInv(k)'
  <2>0. PICK m : m = sent[k]
    OBVIOUS
  <2>1. SentInv(k) /\ sent' = sent
    BY DEF WalletInv, FillTemplate
  <2>2. m.of \in DOMAIN fills /\ m.after \in DOMAIN fills /\ fills'[m.of] = fills[m.of]
    BY <2>0, <2>1, <1>3 DEF SentInv
  <2>3. m.of \in DOMAIN fills' /\ m.after \in DOMAIN fills'
    BY <2>2, <1>6
  <2>4. \A g \in 1..m.after : Overwrote(g, m.of)' <=> Overwrote(g, m.of)
    <3>1. \A g \in 1..m.after : g \in DOMAIN fills
      BY <2>2, <1>2
    <3> QED BY <3>1, <2>2, <1>8
  <2>5. (\A g \in 1..m.after : ~Overwrote(g, m.of)') => m.outputs = fills'[m.of].agreed
    BY <2>0, <2>1, <2>2, <2>4 DEF SentInv
  <2>6. m.inputs = fills'[m.of].inputs /\ \A i \in DOMAIN m.bundles : m.bundles[i].fields
    BY <2>0, <2>1, <2>2 DEF SentInv
  <2>7. sent'[k] = m
    BY <2>0, <2>1
  <2> QED BY <2>3, <2>5, <2>6, <2>7 DEF SentInv
<1>12. \A f \in DOMAIN fills' : FillInv(f)'
  BY <1>6, <1>9, <1>10
<1>13. sent' = sent
  BY DEF FillTemplate
<1>14. IsSeq(sent)' /\ \A k \in DOMAIN sent' : SentInv(k)'
  BY <1>11, <1>13 DEF WalletInv
<1> QED BY <1>7, <1>12, <1>14 DEF WalletInv

LEMMA ExportKeeps ==
  ASSUME WalletInv, NEW f \in DOMAIN fills, NEW bundles, Export(f, bundles)
  PROVE  WalletInv'
<1>0. PICK N : N = Len(sent) + 1
  OBVIOUS
<1>1. keys' = keys /\ cells' = cells /\ fills' = fills /\ sent' = Append(sent, Message(f, bundles))
  BY DEF Export
<1>2. IsSeq(sent) /\ IsSeq(fills) /\ FillInv(f)
  BY DEF WalletInv, MemoryInv
<1>3. /\ IsSeq(sent') /\ DOMAIN sent' = 1..N
      /\ \A k \in DOMAIN sent : sent'[k] = sent[k]
      /\ sent'[N] = Message(f, bundles)
  BY <1>0, <1>1, <1>2, AppendAny
<1>4. DOMAIN sent' = DOMAIN sent \cup {N}
  <2>1. Len(sent) \in Nat /\ DOMAIN sent = 1..Len(sent)
    BY <1>2, LenAny
  <2> QED BY <2>1, <1>0, <1>3
<1>5. MemoryInv'
  BY <1>1 DEF WalletInv, MemoryInv, SliceOK
<1>6. ASSUME NEW h \in DOMAIN fills PROVE FillInv(h)'
  <2>1. FillInv(h)
    BY DEF WalletInv
  <2> QED BY <2>1, <1>1 DEF FillInv, SignedAsAgreed, Content, Overwrote
<1>7. ASSUME NEW k \in DOMAIN sent PROVE SentInv(k)'
  <2>1. SentInv(k)
    BY DEF WalletInv
  <2>2. sent'[k] = sent[k]
    BY <1>3
  <2> QED BY <2>1, <2>2, <1>1 DEF SentInv, Overwrote
<1>8. SentInv(N)'
  <2>1. PICK m : m = Message(f, bundles)
    OBVIOUS
  <2>2. /\ m.inputs = fills[f].inputs /\ m.outputs = Content(fills[f].outputs)
        /\ m.bundles = bundles /\ m.of = f /\ m.after = Len(fills)
    BY <2>1 DEF Message
  <2>3. sent'[N] = m
    BY <2>1, <1>3
  <2>4. Len(fills) \in Nat /\ DOMAIN fills = 1..Len(fills) /\ f \in 1..Len(fills)
    BY <1>2, LenAny
  <2>5. m.of \in DOMAIN fills /\ m.after \in DOMAIN fills
    BY <2>2, <2>4
  <2>6. \A i \in DOMAIN m.bundles : m.bundles[i].fields
    BY <2>2 DEF Export
  <2>7. (\A g \in 1..m.after : ~Overwrote(g, m.of)) => m.outputs = fills[m.of].agreed
    BY <2>2, <2>4, <1>2 DEF FillInv
  <2>8. (\A g \in 1..m.after : ~Overwrote(g, m.of)') => m.outputs = fills[m.of].agreed
    BY <2>7, <1>1 DEF Overwrote
  <2> QED BY <2>2, <2>3, <2>5, <2>6, <2>8, <1>1 DEF SentInv
<1> QED BY <1>1, <1>3, <1>4, <1>5, <1>6, <1>7, <1>8 DEF WalletInv

LEMMA NextWallet == WalletInv /\ [Next]_vars => WalletInv'
<1> SUFFICES ASSUME WalletInv, [Next]_vars PROVE WalletInv'
  OBVIOUS
<1>1. ASSUME cells' = cells, fills' = fills, sent' = sent PROVE WalletInv'
  BY <1>1 DEF WalletInv, MemoryInv, SliceOK, FillInv, SignedAsAgreed, SentInv, Content, Overwrote
<1>2. CASE \E owned \in Owned : AddOutput(owned[1], owned[2])
  BY <1>1, <1>2 DEF AddOutput
<1>3. CASE \E template \in Templates, bundles \in BundleLists, change \in Changes \cup {NoChange} :
             FillTemplate(template, bundles, change)
  BY <1>3, FillKeeps
<1>4. CASE \E f \in DOMAIN fills, bundles \in BundleLists : Export(f, bundles)
  BY <1>4, ExportKeeps
<1>5. CASE UNCHANGED vars
  BY <1>1, <1>5 DEF vars
<1> QED BY <1>2, <1>3, <1>4, <1>5 DEF Next

\* WalletInv holds in every state: slices stay within their arrays, and every
\* signature is over what was agreed when FillTemplate made it.
THEOREM WalletInvariant == Spec => []WalletInv
BY InitWallet, NextWallet, PTL DEF Spec

-----------------------------------------------------------------------------
(***************************************************************************)
(* The properties                                                          *)
(***************************************************************************)

\* "Sign each input over the now-complete structure" (walletalice.go): a
\* filled payment stays as agreed and signed unless a later fill wrote into
\* the array its outputs are in, and then none of its signatures verifies.
THEOREM WalletFilledStaysSigned == Spec => []FilledStaysSigned
<1>1. WalletInv => FilledStaysSigned
  <2> SUFFICES ASSUME WalletInv, NEW f \in DOMAIN fills
               PROVE  LET tx == Shown(f)
                          intact == tx.outputs = fills[f].agreed
                      IN  /\ (\A g \in DOMAIN fills : ~Overwrote(g, f)) => intact
                          /\ intact => SignaturesOK(tx)
                          /\ ~intact => \A i \in DOMAIN tx.inputs : ~VerifyInputSignature(tx, i)
    BY DEF FilledStaysSigned
  <2> DEFINE tx == Shown(f)
             signed == [inputs |-> fills[f].inputs, outputs |-> fills[f].agreed]
  <2>1. FillInv(f)
    BY DEF WalletInv
  <2>2. tx.inputs = fills[f].inputs /\ tx.outputs = Content(fills[f].outputs)
    BY DEF Shown
  <2>3. ASSUME NEW i \in DOMAIN fills[f].inputs
        PROVE  LET in == fills[f].inputs[i] IN
               in.sig.by = in.pubkey /\ in.sig.over = Preimage(signed, i) /\ in.sig.lowS
    <3>1. fills[f].inputs[i].sig = Sign(signed, i, fills[f].inputs[i].pubkey)
      BY <2>1 DEF FillInv, SignedAsAgreed
    <3> HIDE DEF signed
    <3> QED BY <3>1, SignatureFields
  <2>4. signed.inputs = fills[f].inputs /\ signed.outputs = fills[f].agreed
    OBVIOUS
  <2> HIDE DEF tx, signed
  <2>5. (\A g \in DOMAIN fills : ~Overwrote(g, f)) => tx.outputs = fills[f].agreed
    BY <2>1, <2>2 DEF FillInv
  <2>6. ASSUME tx.outputs = fills[f].agreed PROVE SignaturesOK(tx)
    <3>1. \A i : Preimage(tx, i) = Preimage(signed, i)
      BY <2>2, <2>4, <2>6 DEF Preimage
    <3> QED BY <2>2, <2>3, <3>1 DEF SignaturesOK, VerifyInputSignature
  <2>7. ASSUME tx.outputs # fills[f].agreed, NEW i \in DOMAIN tx.inputs
        PROVE  ~VerifyInputSignature(tx, i)
    <3>1. Preimage(tx, i).outputs = tx.outputs /\ Preimage(signed, i).outputs = fills[f].agreed
      BY <2>4 DEF Preimage
    <3>2. Preimage(tx, i) # Preimage(signed, i)
      BY <2>7, <3>1
    <3> QED BY <2>2, <2>3, <3>2 DEF VerifyInputSignature
  <2> QED BY <2>5, <2>6, <2>7 DEF tx
<1> QED BY <1>1, WalletInvariant, PTL

\* I-AL2 (walletalice.go Export) and the till's checks of a message: every
\* bundle reveals its fields, and a message of a payment that nothing had
\* overwritten satisfies the till for ever.
THEOREM WalletExportedSatisfiesTill == Spec => []ExportedSatisfiesTill
<1>1. WalletInv => ExportedSatisfiesTill
  <2> SUFFICES ASSUME WalletInv, NEW k \in DOMAIN sent
               PROVE  LET m == sent[k]
                          agreed == fills[m.of].agreed
                      IN  /\ \A i \in DOMAIN m.bundles : m.bundles[i].fields
                          /\ (\A g \in 1..m.after : ~Overwrote(g, m.of)) =>
                               /\ SignaturesOK(m)
                               /\ TemplateSatisfied(agreed, m) /\ Len(m.outputs) = Len(agreed)
                               /\ \A out \in ToSet(agreed) :
                                    Cardinality({j \in DOMAIN m.outputs : m.outputs[j] = out})
                                      = Cardinality({j \in DOMAIN agreed : agreed[j] = out})
    BY DEF ExportedSatisfiesTill
  <2>1. SentInv(k)
    BY DEF WalletInv
  <2> DEFINE m == sent[k]
             f == m.of
             signed == [inputs |-> fills[f].inputs, outputs |-> fills[f].agreed]
  <2>2. m.inputs = fills[f].inputs /\ f \in DOMAIN fills
    BY <2>1 DEF SentInv
  <2>3. FillInv(f)
    BY <2>2 DEF WalletInv
  <2>4. ASSUME NEW i \in DOMAIN fills[f].inputs
        PROVE  LET in == fills[f].inputs[i] IN
               in.sig.by = in.pubkey /\ in.sig.over = Preimage(signed, i) /\ in.sig.lowS
    <3>1. fills[f].inputs[i].sig = Sign(signed, i, fills[f].inputs[i].pubkey)
      BY <2>3 DEF FillInv, SignedAsAgreed
    <3> HIDE DEF signed
    <3> QED BY <3>1, SignatureFields
  <2>5. signed.inputs = fills[f].inputs /\ signed.outputs = fills[f].agreed
    OBVIOUS
  <2> HIDE DEF signed
  <2>6. ASSUME \A g \in 1..m.after : ~Overwrote(g, f)
        PROVE  m.outputs = fills[f].agreed /\ SignaturesOK(m)
    <3>1. m.outputs = fills[f].agreed
      BY <2>1, <2>6 DEF SentInv
    <3>2. \A i : Preimage(m, i) = Preimage(signed, i)
      BY <2>2, <2>5, <3>1 DEF Preimage
    <3> QED BY <2>2, <2>4, <3>1, <3>2 DEF SignaturesOK, VerifyInputSignature
  <2>7. \A i \in DOMAIN m.bundles : m.bundles[i].fields
    BY <2>1 DEF SentInv
  <2> QED BY <2>6, <2>7 DEF TemplateSatisfied
<1> QED BY <1>1, WalletInvariant, PTL

-----------------------------------------------------------------------------
(***************************************************************************)
(* Limbs: a chain of carries keeps the value it is offered                 *)
(***************************************************************************)
\* The first number that four limbs do not hold.
Top == Base * (Base * (Base * Base))

LEMMA Sizes ==
  /\ Base \in Nat /\ Base >= 2 /\ feC \in Nat /\ feC >= 1 /\ feC < Base
  /\ Top \in Nat /\ Base * Base <= Top /\ P = Top - feC /\ P \in Nat
  /\ feC * feC + feC < Base * Base /\ 2 * feC < Top
<1>1. Base \in Nat /\ feC \in Nat /\ feC >= 1 /\ feC < Base /\ Base >= 2 /\ P = Top - feC
  BY FieldAssumption DEF Top
<1>2. PICK s \in Nat : s = Base * Base
  BY <1>1
<1>3. s >= 2 * Base
  BY <1>1, <1>2
<1>4. Top = s * s
  BY <1>1, <1>2 DEF Top
<1>5. s * s >= s * 2
  BY <1>1, <1>2, <1>3
<1>6. feC * feC + feC < s
  <2>1. feC * feC + feC = feC * (feC + 1)
    BY <1>1
  <2>2. feC * (feC + 1) <= feC * Base
    BY <1>1
  <2>3. feC * Base < Base * Base
    BY <1>1
  <2> QED BY <1>1, <1>2, <2>1, <2>2, <2>3
<1> QED BY <1>1, <1>2, <1>3, <1>4, <1>5, <1>6

LEMMA WordsOf ==
  ASSUME NEW s \in Int
  PROVE  s \div Base \in Int /\ s % Base \in Word /\ s = Base * (s \div Base) + (s % Base)
<1>1. Base \in Nat /\ Base > 0
  BY FieldAssumption
<1> QED BY <1>1 DEF Word

LEMMA CarriedIs ==
  ASSUME NEW c1 \in Int, NEW c2 \in Int, NEW c3 \in Int, NEW c4 \in Int,
         NEW r, r = Carried(<<c1, c2, c3, c4>>)
  PROVE  /\ r.words \in Element /\ r.out \in Int
         /\ big(r.words) + Top * r.out = c1 + Base * (c2 + Base * (c3 + Base * c4))
<1>1. PICK q1 \in Int, w1 \in Word : q1 = c1 \div Base /\ w1 = c1 % Base /\ c1 = Base * q1 + w1
  BY WordsOf
<1>2. PICK q2 \in Int, w2 \in Word : q2 = (c2 + q1) \div Base /\ w2 = (c2 + q1) % Base /\ c2 + q1 = Base * q2 + w2
  BY WordsOf
<1>3. PICK q3 \in Int, w3 \in Word : q3 = (c3 + q2) \div Base /\ w3 = (c3 + q2) % Base /\ c3 + q2 = Base * q3 + w3
  BY WordsOf
<1>4. PICK q4 \in Int, w4 \in Word : q4 = (c4 + q3) \div Base /\ w4 = (c4 + q3) % Base /\ c4 + q3 = Base * q4 + w4
  BY WordsOf
<1>5. r = [words |-> <<w1, w2, w3, w4>>, out |-> q4]
  BY <1>1, <1>2, <1>3, <1>4 DEF Carried
<1>6. <<w1, w2, w3, w4>> \in Element
  BY DEF Element
<1>7. big(<<w1, w2, w3, w4>>) = w1 + Base * (w2 + Base * (w3 + Base * w4))
  BY DEF big
<1>8. Base \in Int /\ w1 \in Int /\ w2 \in Int /\ w3 \in Int /\ w4 \in Int
  BY FieldAssumption DEF Word
<1>9. c1 + Base * (c2 + Base * (c3 + Base * c4))
        = w1 + Base * (w2 + Base * (w3 + Base * (w4 + Base * q4)))
  <2>1. c4 + q3 = w4 + Base * q4
    BY <1>4, <1>8
  <2>2. c3 + q2 + Base * c4 = w3 + Base * (c4 + q3)
    <3>1. c3 + q2 = Base * q3 + w3
      BY <1>3
    <3>2. Base * (c4 + q3) = Base * c4 + Base * q3
      BY <1>8
    <3> QED BY <1>8, <3>1, <3>2
  <2>3. PICK x \in Int : x = c3 + Base * c4
    BY <1>8
  <2>4. c2 + q1 + Base * x = w2 + Base * (q2 + x)
    <3>1. c2 + q1 = Base * q2 + w2
      BY <1>2
    <3>2. Base * (q2 + x) = Base * q2 + Base * x
      BY <1>8
    <3>3. PICK z, a, b : z = Base * (q2 + x) /\ a = Base * q2 /\ b = Base * x
      OBVIOUS
    <3>4. z = a + b /\ a \in Int /\ b \in Int /\ c2 + q1 = a + w2
      BY <1>8, <3>1, <3>2, <3>3
    <3>5. c2 + q1 + b = w2 + z
      BY <1>8, <3>4
    <3> QED BY <3>3, <3>5
  <2>5. PICK y \in Int : y = c2 + Base * x
    BY <1>8
  <2>6. c1 + Base * y = w1 + Base * (q1 + y)
    BY <1>1, <1>8
  <2>7. q2 + x = w3 + Base * (w4 + Base * q4)
    BY <1>8, <2>1, <2>2, <2>3
  <2>8. q1 + y = w2 + Base * (w3 + Base * (w4 + Base * q4))
    BY <1>8, <2>4, <2>5, <2>7
  <2> QED BY <2>3, <2>5, <2>6, <2>8
<1>10. w1 + Base * (w2 + Base * (w3 + Base * w4)) + Base * (Base * (Base * (Base * q4)))
         = w1 + Base * (w2 + Base * (w3 + Base * (w4 + Base * q4)))
  BY <1>8
<1>11. r.words = <<w1, w2, w3, w4>> /\ r.out = q4
  BY <1>5
<1>12. Top * q4 = Base * (Base * (Base * (Base * q4)))
  BY <1>8 DEF Top
<1> QED BY <1>6, <1>7, <1>9, <1>10, <1>11, <1>12

\* Limbs are digits: they have a value below Top, and no other limbs have it.
LEMMA DigitIs ==
  ASSUME NEW w \in Word, NEW v \in Word, NEW x \in Int, NEW y \in Int,
         w + Base * x = v + Base * y
  PROVE  w = v /\ x = y
<1>1. Base \in Nat /\ Base >= 2 /\ w \in 0..(Base - 1) /\ v \in 0..(Base - 1)
  BY Sizes DEF Word
<1>2. Base * (x - y) = v - w
  BY <1>1
<1>3. ASSUME x - y >= 1 PROVE FALSE
  <2>1. Base * (x - y) >= Base
    BY <1>1, <1>3
  <2> QED BY <1>1, <1>2, <2>1
<1>4. ASSUME x - y <= -1 PROVE FALSE
  <2>1. Base * (x - y) <= -Base
    BY <1>1, <1>4
  <2> QED BY <1>1, <1>2, <2>1
<1>5. x = y
  BY <1>3, <1>4
<1> QED BY <1>1, <1>5

LEMMA ElementIs ==
  ASSUME NEW a \in Element
  PROVE  /\ a[1] \in Word /\ a[2] \in Word /\ a[3] \in Word /\ a[4] \in Word
         /\ a[1] \in Int /\ a[2] \in Int /\ a[3] \in Int /\ a[4] \in Int
<1>1. a[1] \in Word /\ a[2] \in Word /\ a[3] \in Word /\ a[4] \in Word
  BY DEF Element
<1> QED BY <1>1, Sizes DEF Word

LEMMA BelowTop ==
  ASSUME NEW a \in Element
  PROVE  big(a) \in Nat /\ big(a) < Top
<1>1. Base \in Nat /\ Base >= 2
  BY Sizes
<1>2. \A w \in Word, x, m \in Nat : x < m => w + Base * x \in Nat /\ w + Base * x < Base * m
  <2> SUFFICES ASSUME NEW w \in Word, NEW x \in Nat, NEW m \in Nat, x < m
               PROVE  w + Base * x \in Nat /\ w + Base * x < Base * m
    OBVIOUS
  <2>1. w \in Nat /\ w < Base
    BY <1>1 DEF Word
  <2>2. Base * (x + 1) <= Base * m
    BY <1>1
  <2>3. Base * (x + 1) = Base * x + Base /\ Base * x \in Nat /\ Base * m \in Nat
    BY <1>1
  <2> QED BY <1>1, <2>1, <2>2, <2>3
<1>3. PICK x4 \in Nat : x4 = a[4] /\ x4 < Base
  BY <1>1, ElementIs DEF Word
<1>4. PICK x3 \in Nat : x3 = a[3] + Base * x4 /\ x3 < Base * Base
  BY <1>1, <1>2, <1>3, ElementIs
<1>5. PICK x2 \in Nat : x2 = a[2] + Base * x3 /\ x2 < Base * (Base * Base)
  <2>1. PICK m \in Nat : m = Base * Base
    BY <1>1
  <2>2. a[2] + Base * x3 \in Nat /\ a[2] + Base * x3 < Base * m
    BY <1>2, <1>4, <2>1, ElementIs
  <2> QED BY <2>1, <2>2
<1>6. a[1] + Base * x2 \in Nat /\ a[1] + Base * x2 < Base * (Base * (Base * Base))
  <2>1. Base * (Base * Base) \in Nat
    BY <1>1
  <2> QED BY <1>2, <1>5, <2>1, ElementIs
<1> QED BY <1>3, <1>4, <1>5, <1>6 DEF big, Top

LEMMA OneElement ==
  ASSUME NEW a \in Element, NEW b \in Element, big(a) = big(b)
  PROVE  a = b
<1>1. Base \in Nat
  BY Sizes
<1>2. PICK x3 \in Int, y3 \in Int : x3 = a[3] + Base * a[4] /\ y3 = b[3] + Base * b[4]
  BY <1>1, ElementIs
<1>3. PICK x2 \in Int, y2 \in Int : x2 = a[2] + Base * x3 /\ y2 = b[2] + Base * y3
  BY <1>1, ElementIs
<1>4. a[1] + Base * x2 = b[1] + Base * y2
  BY <1>2, <1>3 DEF big
<1>5. a[1] = b[1] /\ x2 = y2
  BY <1>4, ElementIs, DigitIs
<1>6. a[2] = b[2] /\ x3 = y3
  BY <1>3, <1>5, ElementIs, DigitIs
<1>7. a[3] = b[3] /\ a[4] = b[4]
  BY <1>2, <1>6, ElementIs, DigitIs
<1> QED BY <1>5, <1>6, <1>7 DEF Element

\* What a chain of carries hands on, from the value it was offered.
LEMMA OutIs ==
  ASSUME NEW v \in Nat, v < Top, NEW out \in Int, NEW x \in Int, v + Top * out = x
  PROVE  /\ x >= 0 => out >= 0
         /\ x < Top => out <= 0
         /\ x < Top + Top => out <= 1
         /\ x >= Top => out >= 1
         /\ -Top <= x => out >= -1
         /\ x < 0 => out <= -1
<1>1. Top \in Nat /\ Top > 0
  BY Sizes
<1>2. out >= 1 => Top * out >= Top
  BY <1>1
<1>3. out >= 2 => Top * out >= Top + Top
  BY <1>1
<1>4. out <= -1 => Top * out <= -Top
  BY <1>1
<1>5. out <= -2 => Top * out <= -Top - Top
  BY <1>1
<1>6. out <= 0 => Top * out <= 0
  BY <1>1
<1>7. out >= 0 => Top * out >= 0
  BY <1>1
<1>8. Top * out \in Int
  BY <1>1
<1> QED BY <1>1, <1>2, <1>3, <1>4, <1>5, <1>6, <1>7, <1>8

\* Whose numbers a chain is offered.
Columns(a) == a[1] \in Int /\ a[2] \in Int /\ a[3] \in Int /\ a[4] \in Int

LEMMA SumIs ==
  ASSUME NEW a, Columns(a), NEW b, Columns(b), NEW r, r = LimbSum(a, b)
  PROVE  /\ r.words \in Element /\ r.out \in Int
         /\ big(r.words) + Top * r.out = big(a) + big(b)
<1>1. Base \in Nat
  BY Sizes
<1>2. PICK a1 \in Int, a2 \in Int, a3 \in Int, a4 \in Int : a1 = a[1] /\ a2 = a[2] /\ a3 = a[3] /\ a4 = a[4]
  BY DEF Columns
<1>3. PICK b1 \in Int, b2 \in Int, b3 \in Int, b4 \in Int : b1 = b[1] /\ b2 = b[2] /\ b3 = b[3] /\ b4 = b[4]
  BY DEF Columns
<1>4. r = Carried(<<a1 + b1, a2 + b2, a3 + b3, a4 + b4>>)
  BY <1>2, <1>3 DEF LimbSum
<1>5. /\ r.words \in Element /\ r.out \in Int
      /\ big(r.words) + Top * r.out
           = (a1 + b1) + Base * ((a2 + b2) + Base * ((a3 + b3) + Base * (a4 + b4)))
  BY <1>4, CarriedIs
<1>6. big(a) + big(b) = (a1 + b1) + Base * ((a2 + b2) + Base * ((a3 + b3) + Base * (a4 + b4)))
  <2>1. \A u, v, x, y \in Int : (u + Base * x) + (v + Base * y) = (u + v) + Base * (x + y)
    BY <1>1
  <2>2. PICK x3 \in Int, y3 \in Int : x3 = a3 + Base * a4 /\ y3 = b3 + Base * b4
    BY <1>1
  <2>3. PICK x2 \in Int, y2 \in Int : x2 = a2 + Base * x3 /\ y2 = b2 + Base * y3
    BY <1>1
  <2>4. big(a) = a1 + Base * x2 /\ big(b) = b1 + Base * y2
    BY <1>2, <1>3, <2>2, <2>3 DEF big
  <2>5. x3 + y3 = (a3 + b3) + Base * (a4 + b4)
    BY <2>1, <2>2
  <2>6. x2 + y2 = (a2 + b2) + Base * (x3 + y3)
    BY <2>1, <2>3
  <2>7. big(a) + big(b) = (a1 + b1) + Base * (x2 + y2)
    BY <2>1, <2>4
  <2> QED BY <2>5, <2>6, <2>7
<1> QED BY <1>5, <1>6

LEMMA DifferenceIs ==
  ASSUME NEW a, Columns(a), NEW b, Columns(b), NEW r, r = LimbDifference(a, b)
  PROVE  /\ r.words \in Element /\ r.out \in Int
         /\ big(r.words) + Top * r.out = big(a) - big(b)
<1>1. Base \in Nat
  BY Sizes
<1>2. PICK a1 \in Int, a2 \in Int, a3 \in Int, a4 \in Int : a1 = a[1] /\ a2 = a[2] /\ a3 = a[3] /\ a4 = a[4]
  BY DEF Columns
<1>3. PICK b1 \in Int, b2 \in Int, b3 \in Int, b4 \in Int : b1 = b[1] /\ b2 = b[2] /\ b3 = b[3] /\ b4 = b[4]
  BY DEF Columns
<1>4. r = Carried(<<a1 - b1, a2 - b2, a3 - b3, a4 - b4>>)
  BY <1>2, <1>3 DEF LimbDifference
<1>5. /\ r.words \in Element /\ r.out \in Int
      /\ big(r.words) + Top * r.out
           = (a1 - b1) + Base * ((a2 - b2) + Base * ((a3 - b3) + Base * (a4 - b4)))
  BY <1>4, CarriedIs
<1>6. big(a) - big(b) = (a1 - b1) + Base * ((a2 - b2) + Base * ((a3 - b3) + Base * (a4 - b4)))
  <2>1. \A u, v, x, y \in Int : (u + Base * x) - (v + Base * y) = (u - v) + Base * (x - y)
    BY <1>1
  <2>2. PICK x3 \in Int, y3 \in Int : x3 = a3 + Base * a4 /\ y3 = b3 + Base * b4
    BY <1>1
  <2>3. PICK x2 \in Int, y2 \in Int : x2 = a2 + Base * x3 /\ y2 = b2 + Base * y3
    BY <1>1
  <2>4. big(a) = a1 + Base * x2 /\ big(b) = b1 + Base * y2
    BY <1>2, <1>3, <2>2, <2>3 DEF big
  <2>5. x3 - y3 = (a3 - b3) + Base * (a4 - b4)
    BY <2>1, <2>2
  <2>6. x2 - y2 = (a2 - b2) + Base * (x3 - y3)
    BY <2>1, <2>3
  <2>7. big(a) - big(b) = (a1 - b1) + Base * (x2 - y2)
    BY <2>1, <2>4
  <2> QED BY <2>5, <2>6, <2>7
<1> QED BY <1>5, <1>6

LEMMA FromBigIs ==
  ASSUME NEW v \in Nat, v < Top
  PROVE  feFromBig(v) \in Element /\ big(feFromBig(v)) = v
<1>1. PICK r : r = Carried(<<v, 0, 0, 0>>)
  OBVIOUS
<1>2. /\ r.words \in Element /\ r.out \in Int
      /\ big(r.words) + Top * r.out = v + Base * (0 + Base * (0 + Base * 0))
  BY <1>1, CarriedIs
<1>3. PICK x \in Nat, o \in Int : x = big(r.words) /\ o = r.out /\ x < Top
  BY <1>2, BelowTop
<1>4. x + Top * o = v
  BY <1>2, <1>3, Sizes
<1>5. o = 0
  BY <1>3, <1>4, OutIs
<1>6. x = v
  BY <1>4, <1>5, Sizes
<1> QED BY <1>1, <1>2, <1>3, <1>6 DEF feFromBig

LEMMA ElementColumns == \A a \in Element : Columns(a)
BY ElementIs DEF Columns

LEMMA RestIs ==
  ASSUME NEW x \in Int, NEW y \in Nat, y < P, NEW k \in Int, x = y + P * k
  PROVE  x % P = y
<1>1. P \in Nat /\ P > 0
  BY Sizes
<1>2. PICK q \in Int, w \in Int : q = x \div P /\ w = x % P
  BY <1>1
<1>3. w \in 0..(P - 1) /\ x = P * q + w
  BY <1>1, <1>2
<1>4. P * (k - q) = w - y
  BY <1>1, <1>3
<1>5. ASSUME k - q >= 1 PROVE FALSE
  <2>1. P * (k - q) >= P
    BY <1>1, <1>5
  <2> QED BY <1>1, <1>3, <1>4, <2>1
<1>6. ASSUME k - q <= -1 PROVE FALSE
  <2>1. P * (k - q) <= -P
    BY <1>1, <1>6
  <2> QED BY <1>1, <1>3, <1>4, <2>1
<1>7. k - q = 0
  BY <1>5, <1>6
<1>8. P * (k - q) = 0
  BY <1>1, <1>7
<1>9. w \in Int /\ w - y = 0
  BY <1>1, <1>3, <1>4, <1>8
<1>10. w = y
  BY <1>9
<1> QED BY <1>2, <1>10

LEMMA SameRest ==
  ASSUME NEW x \in Int, NEW y \in Nat, NEW k \in Int, x = y + P * k
  PROVE  y % P = x % P
<1>1. P \in Nat /\ P > 0
  BY Sizes
<1>2. PICK q \in Int, w \in Nat : w = y % P /\ w < P /\ y = P * q + w
  BY <1>1
<1>3. x = w + P * (q + k)
  BY <1>1, <1>2
<1>4. x % P = w
  BY <1>2, <1>3, RestIs
<1> QED BY <1>2, <1>4

\* The conditional subtraction reduces what four limbs hold.
LEMMA CondSubPIs ==
  ASSUME NEW a \in Element
  PROVE  feCondSubP(a) \in Element /\ big(feCondSubP(a)) = big(a) % P
<1>1. P \in Nat /\ P < Top /\ Top - P < P /\ P = Top - feC /\ Top \in Nat
  BY Sizes
<1>2. pl \in Element /\ big(pl) = P
  BY <1>1, FromBigIs DEF pl
<1>3. PICK r : r = LimbDifference(a, pl)
  OBVIOUS
<1>4. r.words \in Element /\ r.out \in Int /\ big(r.words) + Top * r.out = big(a) - big(pl)
  BY <1>2, <1>3, ElementColumns, DifferenceIs
<1>5. PICK v \in Nat, x \in Nat, o \in Int : v = big(r.words) /\ v < Top /\ x = big(a) /\ x < Top /\ o = r.out
  BY <1>4, BelowTop
<1>6. v + Top * o = x - P /\ x - P \in Int
  BY <1>1, <1>2, <1>4, <1>5
<1>7. feCondSubP(a) = IF o = 0 THEN r.words ELSE a
  BY <1>3, <1>5 DEF feCondSubP
<1>8. CASE o = 0
  <2>1. x - P = v /\ x = v + P * 1 /\ v < P
    BY <1>1, <1>5, <1>6, <1>8
  <2>2. x % P = v
    BY <2>1, RestIs
  <2> QED BY <1>4, <1>5, <1>7, <1>8, <2>2
<1>9. CASE o # 0
  <2>1. x - P < 0
    <3>1. x - P >= 0 => o >= 0
      BY <1>5, <1>6, OutIs
    <3>2. x - P < Top => o <= 0
      BY <1>5, <1>6, OutIs
    <3> QED BY <1>1, <1>5, <1>9, <3>1, <3>2
  <2>2. x < P /\ x = x + P * 0
    BY <1>1, <2>1
  <2>3. x % P = x
    BY <2>2, RestIs
  <2> QED BY <1>5, <1>7, <1>9, <2>3
<1> QED BY <1>8, <1>9

\* A carry out of the top limb, worth Top, comes back as feC.
LEMMA FoldIs ==
  ASSUME NEW words \in Element, NEW out \in Int, NEW r, r.words = words, r.out = out, NEW f, f = Fold(r)
  PROVE  /\ f.words \in Element /\ f.out \in Int
         /\ big(f.words) + Top * f.out = big(words) + out * feC
<1>1. PICK c : c = <<out * feC, 0, 0, 0>>
  OBVIOUS
<1>2. Base \in Nat /\ feC \in Nat /\ out * feC \in Int
  BY Sizes
<1>3. Columns(c) /\ big(c) = out * feC
  BY <1>1, <1>2 DEF Columns, big
<1>4. f = LimbSum(words, c)
  BY <1>1 DEF Fold
<1> QED BY <1>3, <1>4, ElementColumns, SumIs

\* feAdd (crypto/ct.go:85) of any two elements is their sum modulo P, reduced: the
\* two folds of a carry and one conditional subtraction are enough, whatever the word.
THEOREM AddIsExact ==
  ASSUME NEW a \in Element, NEW b \in Element
  PROVE  feAdd(a, b) \in Element /\ big(feAdd(a, b)) = (big(a) + big(b)) % P
<1>1. PICK x \in Nat, y \in Nat : x = big(a) /\ y = big(b) /\ x < Top /\ y < Top
  BY BelowTop
<1>2. PICK r : r = LimbSum(a, b)
  OBVIOUS
<1>3. r.words \in Element /\ r.out \in Int /\ big(r.words) + Top * r.out = x + y
  BY <1>1, <1>2, ElementColumns, SumIs
<1>4. PICK v0 \in Nat, c0 \in Int : v0 = big(r.words) /\ c0 = r.out /\ v0 < Top /\ v0 + Top * c0 = x + y
  BY <1>3, BelowTop
<1>5. c0 \in {0, 1}
  <2>1. x + y \in Int /\ x + y >= 0 /\ x + y < Top + Top
    BY <1>1, Sizes
  <2>2. c0 >= 0 /\ c0 <= 1
    BY <1>4, <2>1, OutIs
  <2> QED BY <2>2
<1>6. PICK f : f = Fold(r)
  OBVIOUS
<1>7. f.words \in Element /\ f.out \in Int /\ big(f.words) + Top * f.out = v0 + c0 * feC
  BY <1>3, <1>4, <1>6, FoldIs
<1>8. PICK v1 \in Nat, c1 \in Int : v1 = big(f.words) /\ c1 = f.out /\ v1 < Top /\ v1 + Top * c1 = v0 + c0 * feC
  BY <1>7, BelowTop
<1>9. c1 \in {0, 1}
  <2>1. c0 * feC \in {0, feC}
    BY <1>5, Sizes
  <2>2. PICK z \in Int : z = v0 + c0 * feC /\ z >= 0 /\ z < Top + Top
    BY <1>4, <2>1, Sizes
  <2>3. c1 >= 0 /\ c1 <= 1
    BY <1>8, <2>2, OutIs
  <2> QED BY <2>3
<1>10. PICK g : g = Fold(f)
  OBVIOUS
<1>11. g.words \in Element /\ g.out \in Int /\ big(g.words) + Top * g.out = v1 + c1 * feC
  BY <1>7, <1>8, <1>10, FoldIs
<1>12. PICK v2 \in Nat, c2 \in Int : v2 = big(g.words) /\ c2 = g.out /\ v2 < Top /\ v2 + Top * c2 = v1 + c1 * feC
  BY <1>11, BelowTop
<1>13. c2 = 0
  <2>1. v1 + c1 * feC \in Nat /\ v1 + c1 * feC < Top
    <3>1. CASE c1 = 0
      BY <1>8, <3>1, Sizes
    <3>2. CASE c1 = 1
      <4>1. v1 < feC
        BY <1>4, <1>5, <1>8, <3>2, Sizes
      <4> QED BY <3>2, <4>1, Sizes
    <3> QED BY <1>9, <3>1, <3>2
  <2> QED BY <1>12, <2>1, OutIs
<1>14. x + y = v2 + P * (c0 + c1)
  <2>1. PICK t0 \in Int, e0 \in Int, t1 \in Int, e1 \in Int :
          t0 = Top * c0 /\ e0 = c0 * feC /\ t1 = Top * c1 /\ e1 = c1 * feC
    BY Sizes
  <2>2. PICK p0 \in Int, p1 \in Int : p0 = P * c0 /\ p1 = P * c1
    BY Sizes
  <2>3. t0 - e0 = p0
    <3>1. c0 = 0 => t0 = 0 /\ e0 = 0 /\ p0 = 0
      BY <2>1, <2>2, Sizes
    <3>2. c0 = 1 => t0 = Top /\ e0 = feC /\ p0 = P
      BY <2>1, <2>2, Sizes
    <3> QED BY <1>5, <3>1, <3>2, Sizes
  <2>4. t1 - e1 = p1
    <3>1. c1 = 0 => t1 = 0 /\ e1 = 0 /\ p1 = 0
      BY <2>1, <2>2, Sizes
    <3>2. c1 = 1 => t1 = Top /\ e1 = feC /\ p1 = P
      BY <2>1, <2>2, Sizes
    <3> QED BY <1>9, <3>1, <3>2, Sizes
  <2>5. Top * c2 = 0
    BY <1>13, Sizes
  <2>6. v0 + t0 = x + y /\ v1 + t1 = v0 + e0 /\ v2 = v1 + e1
    BY <1>4, <1>8, <1>12, <2>1, <2>5
  <2>7. x + y = v2 + (p0 + p1)
    BY <2>3, <2>4, <2>6
  <2>8. p0 + p1 = P * (c0 + c1)
    BY <2>2, Sizes
  <2> QED BY <2>7, <2>8
<1>15. feAdd(a, b) = feCondSubP(g.words)
  BY <1>2, <1>6, <1>10 DEF feAdd
<1>16. feAdd(a, b) \in Element /\ big(feAdd(a, b)) = v2 % P
  BY <1>11, <1>12, <1>15, CondSubPIs
<1>17. v2 % P = (x + y) % P
  BY <1>5, <1>9, <1>14, SameRest
<1> QED BY <1>1, <1>16, <1>17

\* feSub (crypto/ct.go:104) of two reduced elements is their difference modulo P, reduced.
THEOREM SubIsExact ==
  ASSUME NEW a \in Element, NEW b \in Element, big(a) < P, big(b) < P
  PROVE  feSub(a, b) \in Element /\ big(feSub(a, b)) = (big(a) - big(b)) % P
<1>1. PICK x \in Nat, y \in Nat : x = big(a) /\ y = big(b) /\ x < P /\ y < P
  BY BelowTop
<1>2. P \in Nat /\ P < Top /\ Top \in Nat
  BY Sizes
<1>3. PICK d : d = LimbDifference(a, b)
  OBVIOUS
<1>4. d.words \in Element /\ d.out \in Int /\ big(d.words) + Top * d.out = x - y
  BY <1>1, <1>3, ElementColumns, DifferenceIs
<1>5. PICK v \in Nat, o \in Int : v = big(d.words) /\ o = d.out /\ v < Top /\ v + Top * o = x - y
  BY <1>4, BelowTop
<1>6. o \in {0, -1}
  <2>1. -Top <= x - y /\ x - y < Top /\ x - y \in Int
    BY <1>1, <1>2
  <2> QED BY <1>5, <2>1, OutIs
<1>7. feSub(a, b) = IF o = 0 THEN d.words ELSE LimbSum(d.words, pl).words
  BY <1>3, <1>5 DEF feSub
<1>8. CASE o = 0
  <2>1. v < P /\ x - y = v + P * 0
    BY <1>1, <1>2, <1>5, <1>8
  <2>2. (x - y) % P = v
    BY <1>1, <2>1, RestIs
  <2> QED BY <1>1, <1>4, <1>5, <1>7, <1>8, <2>2
<1>9. CASE o = -1
  <2>1. pl \in Element /\ big(pl) = P
    BY <1>2, FromBigIs DEF pl
  <2>2. PICK s : s = LimbSum(d.words, pl)
    OBVIOUS
  <2>3. s.words \in Element /\ s.out \in Int /\ big(s.words) + Top * s.out = v + P
    BY <1>4, <1>5, <2>1, <2>2, ElementColumns, SumIs
  <2>4. PICK u \in Nat, e \in Int : u = big(s.words) /\ e = s.out /\ u < Top /\ u + Top * e = v + P
    BY <2>3, BelowTop
  <2>5. v = x - y + Top /\ x - y < 0
    BY <1>1, <1>2, <1>5, <1>9
  <2>6. e = 1
    <3>1. v + P >= Top /\ v + P < Top + Top /\ v + P \in Int
      BY <1>1, <1>2, <1>5, <2>5
    <3> QED BY <2>4, <3>1, OutIs
  <2>7. u = x - y + P
    BY <1>1, <1>2, <2>4, <2>5, <2>6
  <2>8. u < P /\ x - y = u + P * (-1)
    BY <1>1, <1>2, <2>5, <2>7
  <2>9. (x - y) % P = u
    BY <1>1, <2>4, <2>8, RestIs
  <2>10. feSub(a, b) = s.words
    BY <1>7, <1>9, <2>2
  <2> QED BY <1>1, <2>3, <2>4, <2>9, <2>10
<1> QED BY <1>6, <1>8, <1>9

\* The limbs of a product in the making, and the value of the five limbs from i on.
Limbs8 == [1..8 -> Word]
Window(t, i) == t[i] + Base * (t[i + 1] + Base * (t[i + 2] + Base * (t[i + 3] + Base * t[i + 4])))

\* a chain that is offered b times a word.
LEMMA ScaledIs ==
  ASSUME NEW b \in Element, NEW w \in Word, NEW d, Columns(d), NEW r,
         r = Carried(<<d[1] + w * b[1], d[2] + w * b[2], d[3] + w * b[3], d[4] + w * b[4]>>)
  PROVE  /\ r.words \in Element /\ r.out \in Int
         /\ big(r.words) + Top * r.out = big(d) + w * big(b)
<1>1. Base \in Nat /\ w \in Int
  BY Sizes DEF Word
<1>2. PICK d1 \in Int, d2 \in Int, d3 \in Int, d4 \in Int : d1 = d[1] /\ d2 = d[2] /\ d3 = d[3] /\ d4 = d[4]
  BY DEF Columns
<1>3. PICK b1 \in Int, b2 \in Int, b3 \in Int, b4 \in Int : b1 = b[1] /\ b2 = b[2] /\ b3 = b[3] /\ b4 = b[4]
  BY ElementIs
<1>4. PICK m1 \in Int, m2 \in Int, m3 \in Int, m4 \in Int : m1 = w * b1 /\ m2 = w * b2 /\ m3 = w * b3 /\ m4 = w * b4
  BY <1>1
<1>5. r = Carried(<<d1 + m1, d2 + m2, d3 + m3, d4 + m4>>)
  BY <1>2, <1>3, <1>4
<1>6. /\ r.words \in Element /\ r.out \in Int
      /\ big(r.words) + Top * r.out
           = (d1 + m1) + Base * ((d2 + m2) + Base * ((d3 + m3) + Base * (d4 + m4)))
  <2>1. d1 + m1 \in Int /\ d2 + m2 \in Int /\ d3 + m3 \in Int /\ d4 + m4 \in Int
    OBVIOUS
  <2> QED BY <1>5, <2>1, CarriedIs
<1>7. big(d) + w * big(b) = (d1 + m1) + Base * ((d2 + m2) + Base * ((d3 + m3) + Base * (d4 + m4)))
  <2>1. \A u, v, x, y \in Int : (u + Base * x) + w * (v + Base * y) = (u + w * v) + Base * (x + w * y)
    BY <1>1
  <2>2. PICK x3 \in Int, y3 \in Int : x3 = d3 + Base * d4 /\ y3 = b3 + Base * b4
    BY <1>1
  <2>3. PICK x2 \in Int, y2 \in Int : x2 = d2 + Base * x3 /\ y2 = b2 + Base * y3
    BY <1>1
  <2>4. big(d) = d1 + Base * x2 /\ big(b) = b1 + Base * y2
    BY <1>2, <1>3, <2>2, <2>3 DEF big
  <2>5. x3 + w * y3 = (d3 + m3) + Base * (d4 + m4)
    BY <1>4, <2>1, <2>2
  <2>6. x2 + w * y2 = (d2 + m2) + Base * (x3 + w * y3)
    BY <1>4, <2>1, <2>3
  <2>7. big(d) + w * big(b) = (d1 + m1) + Base * (x2 + w * y2)
    BY <1>4, <2>1, <2>4
  <2> QED BY <2>5, <2>6, <2>7
<1> QED BY <1>6, <1>7

\* A row adds its product to the limbs from i on, and the limb its carry ends in was 0.
LEMMA RowIs ==
  ASSUME NEW a \in Element, NEW b \in Element, NEW t \in Limbs8, NEW i \in 1..4, t[i + 4] = 0,
         NEW u, u = Row(t, i, a, b)
  PROVE  /\ u \in Limbs8
         /\ \A k \in 1..8 : k < i \/ k > i + 4 => u[k] = t[k]
         /\ Window(u, i) = Window(t, i) + a[i] * big(b)
<1>1. PICK d : d = <<t[i], t[i + 1], t[i + 2], t[i + 3]>>
  OBVIOUS
<1>2. i \in 1..8 /\ i + 1 \in 1..8 /\ i + 2 \in 1..8 /\ i + 3 \in 1..8 /\ i + 4 \in 1..8
  OBVIOUS
<1>3. d \in Element /\ d[1] = t[i] /\ d[2] = t[i + 1] /\ d[3] = t[i + 2] /\ d[4] = t[i + 3]
  BY <1>1, <1>2 DEF Limbs8, Element
<1>4. PICK w \in Word : w = a[i]
  BY DEF Element
<1>5. PICK r : r = Carried(<<t[i] + w * b[1], t[i + 1] + w * b[2], t[i + 2] + w * b[3], t[i + 3] + w * b[4]>>)
  OBVIOUS
<1>6. r.words \in Element /\ r.out \in Int /\ big(r.words) + Top * r.out = big(d) + w * big(b)
  BY <1>3, <1>5, ElementColumns, ScaledIs
<1>7. PICK v \in Nat, x \in Nat, y \in Nat, o \in Int :
        /\ v = big(r.words) /\ x = big(d) /\ y = big(b) /\ o = r.out
        /\ v < Top /\ x < Top /\ y < Top /\ v + Top * o = x + w * y
  BY <1>3, <1>6, BelowTop
<1>8. o \in Word
  <2>1. w \in Nat /\ w <= Base - 1 /\ Base \in Nat /\ Base >= 2 /\ Top \in Nat
    BY Sizes DEF Word
  <2>2. w * y \in Nat /\ w * y <= (Base - 1) * Top
    <3>1. w * y <= w * Top
      BY <1>7, <2>1
    <3>2. w * Top <= (Base - 1) * Top
      BY <2>1
    <3>3. w * y \in Nat /\ w * Top \in Nat /\ (Base - 1) * Top \in Nat
      BY <2>1
    <3> QED BY <3>1, <3>2, <3>3
  <2>3. (Base - 1) * Top + Top = Top * Base /\ (Base - 1) * Top \in Nat /\ Top * Base \in Nat
    BY <2>1
  <2>4. v + Top * o < Top * Base /\ v + Top * o >= 0
    BY <1>7, <2>1, <2>2, <2>3
  <2>5. o >= 0
    <3>1. v + Top * o \in Int
      BY <2>1
    <3> QED BY <1>7, <2>4, <3>1, OutIs
  <2>6. o < Base
    <3>1. ASSUME o >= Base PROVE FALSE
      <4>1. Top * o >= Top * Base
        BY <2>1, <3>1
      <4>2. Top * o \in Int /\ Top * Base \in Int
        BY <2>1
      <4> QED BY <2>4, <4>1, <4>2
    <3> QED BY <2>1, <3>1
  <2> QED BY <2>1, <2>5, <2>6 DEF Word
<1>9. o % Base = o
  BY <1>8, Sizes DEF Word
<1>10. \A k \in 1..8 : u[k] = IF k \in i..(i + 3) THEN r.words[k - i + 1]
                               ELSE IF k = i + 4 THEN o ELSE t[k]
  <2>0. PICK K, J : K = 1..8 /\ J = i..(i + 3)
    OBVIOUS
  <2>1. u = [k \in K |-> IF k \in J THEN r.words[k - i + 1]
                         ELSE IF k = i + 4 THEN (t[k] + o) % Base ELSE t[k]]
    BY <1>4, <1>5, <1>7, <2>0 DEF Row
  <2>2. (t[i + 4] + o) % Base = o
    <3>1. t[i + 4] + o = o
      BY <1>7
    <3> QED BY <1>9, <3>1
  <2>3. ASSUME NEW k \in K
        PROVE  u[k] = IF k \in J THEN r.words[k - i + 1] ELSE IF k = i + 4 THEN o ELSE t[k]
    <3>1. u[k] = IF k \in J THEN r.words[k - i + 1]
                 ELSE IF k = i + 4 THEN (t[k] + o) % Base ELSE t[k]
      BY <2>1, Zenon
    <3> QED BY <2>2, <3>1, Zenon
  <2> QED BY <2>0, <2>3, Zenon
<1>11. u \in Limbs8
  <2>1. DOMAIN u = 1..8 /\ u = [k \in 1..8 |-> u[k]]
    BY DEF Row
  <2>2. ASSUME NEW k \in 1..8 PROVE u[k] \in Word
    <3>1. CASE k \in i..(i + 3)
      <4>1. k - i + 1 \in 1..4
        BY <3>1
      <4>2. u[k] = r.words[k - i + 1]
        BY <1>10, <3>1, Zenon
      <4>3. r.words[k - i + 1] \in Word
        BY <1>6, <4>1 DEF Element
      <4> QED BY <4>2, <4>3
    <3>2. CASE k \notin i..(i + 3)
      BY <1>8, <1>10, <3>2 DEF Limbs8
    <3> QED BY <3>1, <3>2
  <2> QED BY <2>1, <2>2 DEF Limbs8
<1>12. /\ u[i] = r.words[1] /\ u[i + 1] = r.words[2] /\ u[i + 2] = r.words[3]
       /\ u[i + 3] = r.words[4] /\ u[i + 4] = o
  BY <1>2, <1>10
<1>13. PICK r1 \in Int, r2 \in Int, r3 \in Int, r4 \in Int :
         r1 = r.words[1] /\ r2 = r.words[2] /\ r3 = r.words[3] /\ r4 = r.words[4]
  BY <1>6, ElementIs
<1>14. Window(u, i) = v + Top * o
  <2>1. Base \in Int
    BY Sizes
  <2>2. Window(u, i) = r1 + Base * (r2 + Base * (r3 + Base * (r4 + Base * o)))
    BY <1>12, <1>13 DEF Window
  <2>3. v = r1 + Base * (r2 + Base * (r3 + Base * r4))
    BY <1>7, <1>13 DEF big
  <2>4. Top * o = Base * (Base * (Base * (Base * o)))
    BY <2>1 DEF Top
  <2>5. r1 + Base * (r2 + Base * (r3 + Base * (r4 + Base * o)))
          = r1 + Base * (r2 + Base * (r3 + Base * r4)) + Base * (Base * (Base * (Base * o)))
    BY <2>1
  <2> QED BY <2>2, <2>3, <2>4, <2>5
<1>15. Window(t, i) = x
  <2>1. PICK d1 \in Int, d2 \in Int, d3 \in Int, d4 \in Int :
          d1 = d[1] /\ d2 = d[2] /\ d3 = d[3] /\ d4 = d[4]
    BY <1>3, ElementIs
  <2>2. Window(t, i) = d1 + Base * (d2 + Base * (d3 + Base * (d4 + Base * 0)))
    BY <1>3, <2>1 DEF Window
  <2>3. d4 + Base * 0 = d4
    BY <2>1, Sizes
  <2> QED BY <1>7, <2>1, <2>2, <2>3 DEF big
<1>16. \A k \in 1..8 : k < i \/ k > i + 4 => u[k] = t[k]
  BY <1>10
<1> QED BY <1>4, <1>7, <1>11, <1>14, <1>15, <1>16

\* The halves of the eight limbs of a product.
Low(t) == [k \in 1..4 |-> t[k]]
High(t) == [k \in 1..4 |-> t[k + 4]]

\* Eight limbs hold every product.
LEMMA ProductIs ==
  ASSUME NEW a \in Element, NEW b \in Element, NEW t, t = Product(a, b)
  PROVE  /\ Low(t) \in Element /\ High(t) \in Element
         /\ big(Low(t)) + Top * big(High(t)) = big(a) * big(b)
<1>1. Base \in Nat
  BY Sizes
<1>2. PICK t0 : t0 = [k \in 1..8 |-> 0]
  OBVIOUS
<1>3. PICK t1, t2, t3 : t1 = Row(t0, 1, a, b) /\ t2 = Row(t1, 2, a, b) /\ t3 = Row(t2, 3, a, b)
  OBVIOUS
<1>4. t = Row(t3, 4, a, b)
  BY <1>2, <1>3 DEF Product
<1>5. t0 \in Limbs8 /\ \A k \in 1..8 : t0[k] = 0
  <2>1. 0 \in Word
    BY Sizes DEF Word
  <2> QED BY <1>2, <2>1 DEF Limbs8
<1>6. PICK y \in Nat : y = big(b)
  BY BelowTop
<1>7. /\ t1 \in Limbs8 /\ Window(t1, 1) = Window(t0, 1) + a[1] * y
      /\ \A k \in 1..8 : k < 1 \/ k > 5 => t1[k] = t0[k]
  <2>1. t0[1 + 4] = 0 /\ 1 \in 1..4
    BY <1>5
  <2>2. /\ t1 \in Limbs8 /\ Window(t1, 1) = Window(t0, 1) + a[1] * big(b)
        /\ \A k \in 1..8 : k < 1 \/ k > 1 + 4 => t1[k] = t0[k]
    BY <1>3, <1>5, <2>1, RowIs
  <2> QED BY <1>6, <2>2
<1>8. /\ t2 \in Limbs8 /\ Window(t2, 2) = Window(t1, 2) + a[2] * y
      /\ \A k \in 1..8 : k < 2 \/ k > 6 => t2[k] = t1[k]
  <2>1. t1[2 + 4] = 0 /\ 2 \in 1..4
    BY <1>5, <1>7
  <2>2. /\ t2 \in Limbs8 /\ Window(t2, 2) = Window(t1, 2) + a[2] * big(b)
        /\ \A k \in 1..8 : k < 2 \/ k > 2 + 4 => t2[k] = t1[k]
    BY <1>3, <1>7, <2>1, RowIs
  <2> QED BY <1>6, <2>2
<1>9. /\ t3 \in Limbs8 /\ Window(t3, 3) = Window(t2, 3) + a[3] * y
      /\ \A k \in 1..8 : k < 3 \/ k > 7 => t3[k] = t2[k]
  <2>1. t2[3 + 4] = 0 /\ 3 \in 1..4
    BY <1>5, <1>7, <1>8
  <2>2. /\ t3 \in Limbs8 /\ Window(t3, 3) = Window(t2, 3) + a[3] * big(b)
        /\ \A k \in 1..8 : k < 3 \/ k > 3 + 4 => t3[k] = t2[k]
    BY <1>3, <1>8, <2>1, RowIs
  <2> QED BY <1>6, <2>2
<1>10. /\ t \in Limbs8 /\ Window(t, 4) = Window(t3, 4) + a[4] * y
       /\ \A k \in 1..8 : k < 4 \/ k > 8 => t[k] = t3[k]
  <2>1. t3[4 + 4] = 0 /\ 4 \in 1..4
    BY <1>5, <1>7, <1>8, <1>9
  <2>2. /\ t \in Limbs8 /\ Window(t, 4) = Window(t3, 4) + a[4] * big(b)
        /\ \A k \in 1..8 : k < 4 \/ k > 4 + 4 => t[k] = t3[k]
    BY <1>4, <1>9, <2>1, RowIs
  <2> QED BY <1>6, <2>2
<1>11. Low(t) \in Element /\ High(t) \in Element
  BY <1>10 DEF Low, High, Limbs8, Element
<1>12. \A s \in Limbs8, k \in 1..8 : s[k] \in Int
  BY Sizes DEF Limbs8, Word
<1>13. Window(t0, 1) = 0
  <2>1. t0[1] = 0 /\ t0[1 + 1] = 0 /\ t0[1 + 2] = 0 /\ t0[1 + 3] = 0 /\ t0[1 + 4] = 0
    BY <1>5
  <2> QED BY <1>1, <2>1 DEF Window
<1>14. PICK o1 \in Int : o1 = Window(t1, 2) /\ Window(t1, 1) = t1[1] + Base * o1
  <2>1. t1[6] = 0 /\ Base * t1[6] = 0
    BY <1>1, <1>5, <1>7
  <2>2. PICK d1 \in Int, d2 \in Int : d1 = t1[1] /\ d2 = t1[2]
    BY <1>7, <1>12
  <2>3. PICK d3 \in Int, d4 \in Int, d5 \in Int : d3 = t1[3] /\ d4 = t1[4] /\ d5 = t1[5]
    BY <1>7, <1>12
  <2>4. Window(t1, 2) = d2 + Base * (d3 + Base * (d4 + Base * (d5 + 0)))
    BY <2>1, <2>2, <2>3 DEF Window
  <2>5. Window(t1, 1) = d1 + Base * (d2 + Base * (d3 + Base * (d4 + Base * d5)))
    BY <2>2, <2>3 DEF Window
  <2> QED BY <1>1, <2>2, <2>3, <2>4, <2>5
<1>15. PICK o2 \in Int : o2 = Window(t2, 3) /\ Window(t2, 2) = t2[2] + Base * o2
  <2>1. t2[7] = 0 /\ Base * t2[7] = 0
    BY <1>1, <1>5, <1>7, <1>8
  <2>2. PICK d1 \in Int, d2 \in Int : d1 = t2[2] /\ d2 = t2[3]
    BY <1>8, <1>12
  <2>3. PICK d3 \in Int, d4 \in Int, d5 \in Int : d3 = t2[4] /\ d4 = t2[5] /\ d5 = t2[6]
    BY <1>8, <1>12
  <2>4. Window(t2, 3) = d2 + Base * (d3 + Base * (d4 + Base * (d5 + 0)))
    BY <2>1, <2>2, <2>3 DEF Window
  <2>5. Window(t2, 2) = d1 + Base * (d2 + Base * (d3 + Base * (d4 + Base * d5)))
    BY <2>2, <2>3 DEF Window
  <2> QED BY <1>1, <2>2, <2>3, <2>4, <2>5
<1>16. PICK o3 \in Int : o3 = Window(t3, 4) /\ Window(t3, 3) = t3[3] + Base * o3
  <2>1. t3[8] = 0 /\ Base * t3[8] = 0
    BY <1>1, <1>5, <1>7, <1>8, <1>9
  <2>2. PICK d1 \in Int, d2 \in Int : d1 = t3[3] /\ d2 = t3[4]
    BY <1>9, <1>12
  <2>3. PICK d3 \in Int, d4 \in Int, d5 \in Int : d3 = t3[5] /\ d4 = t3[6] /\ d5 = t3[7]
    BY <1>9, <1>12
  <2>4. Window(t3, 4) = d2 + Base * (d3 + Base * (d4 + Base * (d5 + 0)))
    BY <2>1, <2>2, <2>3 DEF Window
  <2>5. Window(t3, 3) = d1 + Base * (d2 + Base * (d3 + Base * (d4 + Base * d5)))
    BY <2>2, <2>3 DEF Window
  <2> QED BY <1>1, <2>2, <2>3, <2>4, <2>5
<1>17. PICK o4 \in Int : o4 = big(High(t)) /\ Window(t, 4) = t[4] + Base * o4
  <2>1. PICK d1 \in Int, d2 \in Int : d1 = t[4] /\ d2 = t[5]
    BY <1>10, <1>12
  <2>2. PICK d3 \in Int, d4 \in Int, d5 \in Int : d3 = t[6] /\ d4 = t[7] /\ d5 = t[8]
    BY <1>10, <1>12
  <2>3. big(High(t)) = d2 + Base * (d3 + Base * (d4 + Base * d5))
    BY <2>1, <2>2 DEF High, big
  <2>4. Window(t, 4) = d1 + Base * (d2 + Base * (d3 + Base * (d4 + Base * d5)))
    BY <2>1, <2>2 DEF Window
  <2> QED BY <1>1, <2>1, <2>2, <2>3, <2>4
<1>18. PICK d1 \in Int, d2 \in Int, d3 \in Int, d4 \in Int :
         d1 = t[1] /\ d2 = t[2] /\ d3 = t[3] /\ d4 = t[4]
  BY <1>10, <1>12
<1>19. t1[1] = d1 /\ t2[2] = d2 /\ t3[3] = d3
  BY <1>8, <1>9, <1>10, <1>18
<1>20. PICK w1 \in Int, w2 \in Int, w3 \in Int, w4 \in Int :
         w1 = a[1] /\ w2 = a[2] /\ w3 = a[3] /\ w4 = a[4]
  BY ElementIs
<1>21. /\ d1 + Base * o1 = w1 * y /\ d2 + Base * o2 = o1 + w2 * y
       /\ d3 + Base * o3 = o2 + w3 * y /\ d4 + Base * o4 = o3 + w4 * y
  <2>1. w1 * y \in Int
    OBVIOUS
  <2> QED BY <1>7, <1>8, <1>9, <1>10, <1>13, <1>14, <1>15, <1>16, <1>17, <1>18, <1>19, <1>20, <2>1
<1>22. big(Low(t)) + Top * o4 = big(a) * y
  <2>1. big(Low(t)) = d1 + Base * (d2 + Base * (d3 + Base * d4))
    BY <1>18 DEF Low, big
  <2>2. Top * o4 = Base * (Base * (Base * (Base * o4)))
    BY <1>1 DEF Top
  <2>3. d1 + Base * (d2 + Base * (d3 + Base * d4)) + Base * (Base * (Base * (Base * o4)))
          = d1 + Base * (d2 + Base * (d3 + Base * (d4 + Base * o4)))
    BY <1>1
  <2>4. PICK x4 \in Int, x3 \in Int, x2 \in Int :
          x4 = w4 /\ x3 = w3 + Base * x4 /\ x2 = w2 + Base * x3
    BY <1>1
  <2>5. d3 + Base * (d4 + Base * o4) = o2 + x3 * y
    <3>1. d3 + Base * (o3 + x4 * y) = (d3 + Base * o3) + (Base * x4) * y
      BY <1>1
    <3>2. (o2 + w3 * y) + (Base * x4) * y = o2 + (w3 + Base * x4) * y
      BY <1>1
    <3> QED BY <1>21, <2>4, <3>1, <3>2
  <2>6. d2 + Base * (o2 + x3 * y) = o1 + x2 * y
    <3>1. d2 + Base * (o2 + x3 * y) = (d2 + Base * o2) + (Base * x3) * y
      BY <1>1
    <3>2. (o1 + w2 * y) + (Base * x3) * y = o1 + (w2 + Base * x3) * y
      BY <1>1
    <3> QED BY <1>21, <2>4, <3>1, <3>2
  <2>7. d1 + Base * (o1 + x2 * y) = (w1 + Base * x2) * y
    <3>1. d1 + Base * (o1 + x2 * y) = (d1 + Base * o1) + (Base * x2) * y
      BY <1>1
    <3>2. w1 * y + (Base * x2) * y = (w1 + Base * x2) * y
      BY <1>1
    <3> QED BY <1>21, <3>1, <3>2
  <2>8. big(a) = w1 + Base * x2
    BY <1>20, <2>4 DEF big
  <2> QED BY <2>1, <2>2, <2>3, <2>5, <2>6, <2>7, <2>8
<1> QED BY <1>6, <1>11, <1>17, <1>22

\* The high half, worth Top, comes back times feC; what that leaves above the top comes
\* back again, and then the last carry: no word overflows on the way, and the value
\* modulo P does not change.
LEMMA ReducedIs ==
  ASSUME NEW low \in Element, NEW high \in Element
  PROVE  /\ Reduced(low, high) \in Element
         /\ big(Reduced(low, high)) = (big(low) + Top * big(high)) % P
<1>1. PICK x \in Nat, y \in Nat : x = big(low) /\ y = big(high) /\ x < Top /\ y < Top
  BY BelowTop
<1>2. PICK C \in Nat : C = feC /\ C \in Word /\ C >= 1
  BY Sizes DEF Word
<1>3. Top \in Nat /\ Base \in Nat /\ Base >= 2
  BY Sizes
<1>4. PICK m : m = mul256by64(high, feC)
  OBVIOUS
<1>5. m.words \in Element /\ m.out \in Int /\ big(m.words) + Top * m.out = C * y
  <2>1. PICK h1 \in Int, h2 \in Int, h3 \in Int, h4 \in Int :
          h1 = high[1] /\ h2 = high[2] /\ h3 = high[3] /\ h4 = high[4]
    BY ElementIs
  <2>2. PICK d : d = <<0, 0, 0, 0>>
    OBVIOUS
  <2>3. d[1] = 0 /\ d[2] = 0 /\ d[3] = 0 /\ d[4] = 0
    BY <2>2
  <2>4. Columns(d) /\ big(d) = 0
    BY <1>3, <2>3 DEF Columns, big
  <2>5. /\ h1 * C = 0 + C * h1 /\ h2 * C = 0 + C * h2
        /\ h3 * C = 0 + C * h3 /\ h4 * C = 0 + C * h4
    OBVIOUS
  <2>6. m = Carried(<<h1 * C, h2 * C, h3 * C, h4 * C>>)
    BY <1>2, <1>4, <2>1 DEF mul256by64
  <2>7. m = Carried(<<d[1] + C * high[1], d[2] + C * high[2], d[3] + C * high[3], d[4] + C * high[4]>>)
    BY <2>1, <2>3, <2>5, <2>6
  <2>8. m.words \in Element /\ m.out \in Int /\ big(m.words) + Top * m.out = big(d) + C * big(high)
    BY <1>2, <2>4, <2>7, ScaledIs
  <2> QED BY <1>1, <2>4, <2>8
<1>6. PICK v0 \in Nat, o \in Int : v0 = big(m.words) /\ o = m.out /\ v0 < Top /\ v0 + Top * o = C * y
  BY <1>5, BelowTop
<1>7. o >= 0 /\ o <= C - 1
  <2>1. C * y \in Nat /\ C * y < C * Top /\ C * Top = Top * C /\ C * Top \in Nat
    BY <1>1, <1>2, <1>3
  <2>2. o >= 0
    BY <1>6, <2>1, OutIs
  <2>3. ASSUME o >= C PROVE FALSE
    <3>1. Top * o >= Top * C
      BY <1>3, <2>3
    <3>2. Top * o \in Int
      BY <1>3
    <3> QED BY <1>6, <2>1, <3>1, <3>2
  <2> QED BY <2>2, <2>3
<1>8. PICK r : r = LimbSum(low, m.words)
  OBVIOUS
<1>9. r.words \in Element /\ r.out \in Int /\ big(r.words) + Top * r.out = x + v0
  BY <1>1, <1>5, <1>6, <1>8, ElementColumns, SumIs
<1>10. PICK v1 \in Nat, c1 \in Int : v1 = big(r.words) /\ c1 = r.out /\ v1 < Top /\ v1 + Top * c1 = x + v0
  BY <1>9, BelowTop
<1>11. c1 >= 0 /\ c1 <= 1
  <2>1. x + v0 \in Int /\ x + v0 >= 0 /\ x + v0 < Top + Top
    BY <1>1, <1>3, <1>6
  <2> QED BY <1>10, <2>1, OutIs
<1>12. PICK s \in Nat : s = o + c1 /\ s <= C
  BY <1>7, <1>11
<1>13. PICK wide \in Nat : wide = s * C /\ wide <= C * C /\ wide = (m.out + r.out) * feC
  <2>1. s * C \in Nat /\ s * C <= C * C
    BY <1>12
  <2> QED BY <1>2, <1>6, <1>10, <1>12, <2>1
<1>14. wide + C < Top
  <2>1. C * C + C < Base * Base /\ Base * Base <= Top /\ C * C \in Nat /\ Base * Base \in Nat
    BY <1>2, <1>3, Sizes
  <2> QED BY <1>3, <1>13, <2>1
<1>15. PICK c : c = <<wide % Base, wide \div Base, 0, 0>>
  OBVIOUS
<1>16. Columns(c) /\ big(c) = wide
  <2>1. PICK q \in Int, w \in Int : q = wide \div Base /\ w = wide % Base /\ wide = Base * q + w
    <3>1. wide \div Base \in Int /\ wide % Base \in Word /\ wide = Base * (wide \div Base) + (wide % Base)
      BY WordsOf
    <3> QED BY <1>3, <3>1 DEF Word
  <2>2. c[1] = w /\ c[2] = q /\ c[3] = 0 /\ c[4] = 0
    BY <1>15, <2>1
  <2>3. big(c) = w + Base * (q + Base * (0 + Base * 0))
    BY <2>2 DEF big
  <2>4. Base * (0 + Base * 0) = 0
    BY <1>3
  <2> QED BY <1>3, <2>1, <2>2, <2>3, <2>4 DEF Columns
<1>17. PICK g : g = LimbSum(r.words, c)
  OBVIOUS
<1>18. g.words \in Element /\ g.out \in Int /\ big(g.words) + Top * g.out = v1 + wide
  BY <1>9, <1>10, <1>16, <1>17, ElementColumns, SumIs
<1>19. PICK v2 \in Nat, c2 \in Int : v2 = big(g.words) /\ c2 = g.out /\ v2 < Top /\ v2 + Top * c2 = v1 + wide
  BY <1>18, BelowTop
<1>20. c2 \in {0, 1}
  <2>1. v1 + wide \in Int /\ v1 + wide >= 0 /\ v1 + wide < Top + Top
    BY <1>2, <1>3, <1>10, <1>14
  <2>2. c2 >= 0 /\ c2 <= 1
    BY <1>19, <2>1, OutIs
  <2> QED BY <2>2
<1>21. PICK e \in Int, t2 \in Int : /\ e = c2 * C /\ t2 = Top * c2
                                    /\ c2 = 0 => e = 0 /\ t2 = 0
                                    /\ c2 = 1 => e = C /\ t2 = Top
  BY <1>2, <1>3
<1>22. PICK f : f = Fold(g)
  OBVIOUS
<1>23. f.words \in Element /\ f.out \in Int /\ big(f.words) + Top * f.out = v2 + e
  BY <1>2, <1>18, <1>19, <1>21, <1>22, FoldIs
<1>24. PICK v3 \in Nat, c3 \in Int : v3 = big(f.words) /\ c3 = f.out /\ v3 < Top /\ v3 + Top * c3 = v2 + e
  BY <1>23, BelowTop
<1>25. c3 = 0
  <2>1. v2 + e >= 0 /\ v2 + e < Top
    <3>1. CASE c2 = 0
      BY <1>3, <1>19, <1>21, <3>1
    <3>2. CASE c2 = 1
      <4>1. v2 = v1 + wide - Top /\ e = C
        BY <1>3, <1>19, <1>21, <3>2
      <4> QED BY <1>2, <1>3, <1>10, <1>14, <1>19, <4>1
    <3> QED BY <1>20, <3>1, <3>2
  <2>2. c3 >= 0 /\ c3 <= 0
    BY <1>24, <2>1, OutIs
  <2> QED BY <2>2
<1>26. v3 = v2 + e
  BY <1>3, <1>24, <1>25
<1>27. Reduced(low, high) = feCondSubP(f.words)
  BY <1>4, <1>8, <1>13, <1>15, <1>17, <1>22 DEF Reduced
<1>28. Reduced(low, high) \in Element /\ big(Reduced(low, high)) = v3 % P
  BY <1>23, <1>24, <1>27, CondSubPIs
<1>29. x + Top * y = v3 + P * (y + s + c2)
  <2>1. P \in Int /\ Top = P + C
    BY <1>2, Sizes
  <2>2. Top * y = P * y + C * y
    BY <2>1
  <2>3. x + C * y = v1 + Top * s
    <3>1. Top * s = Top * o + Top * c1
      BY <1>3, <1>12
    <3>2. Top * o \in Int /\ Top * c1 \in Int /\ C * y \in Int
      BY <1>3
    <3> QED BY <1>6, <1>10, <3>1, <3>2
  <2>4. Top * s = P * s + wide
    BY <1>13, <2>1
  <2>5. t2 = P * c2 + e
    BY <1>21, <2>1
  <2>6. v1 + wide = v3 + P * c2
    BY <1>19, <1>21, <1>26, <2>1, <2>5
  <2>7. P * y + P * s + P * c2 = P * (y + s + c2)
    BY <2>1
  <2>8. P * y \in Int /\ P * s \in Int /\ P * c2 \in Int /\ C * y \in Int /\ Top * y \in Int
    BY <1>3, <2>1
  <2> QED BY <2>2, <2>3, <2>4, <2>6, <2>7, <2>8
<1>30. v3 % P = (x + Top * y) % P
  <2>1. PICK z \in Int, k \in Int : z = x + Top * y /\ k = y + s + c2
    BY <1>3, <1>20
  <2>2. z = v3 + P * k
    BY <1>29, <2>1
  <2> QED BY <2>1, <2>2, SameRest
<1> QED BY <1>1, <1>28, <1>30

\* feMul (crypto/ct.go:136) of any two elements, reduced or not, is their product modulo
\* P, reduced: no carry of the schoolbook product or of the two reductions is lost.
THEOREM MulIsExact ==
  ASSUME NEW a \in Element, NEW b \in Element
  PROVE  feMul(a, b) \in Element /\ big(feMul(a, b)) = (big(a) * big(b)) % P
<1>1. PICK t : t = Product(a, b)
  OBVIOUS
<1>2. Low(t) \in Element /\ High(t) \in Element /\ big(Low(t)) + Top * big(High(t)) = big(a) * big(b)
  BY <1>1, ProductIs
<1>3. feMul(a, b) = Reduced(Low(t), High(t))
  BY <1>1 DEF feMul, Low, High
<1> QED BY <1>2, <1>3, ReducedIs

-----------------------------------------------------------------------------
(***************************************************************************)
(* The recursive function of scalarMult                                    *)
(***************************************************************************)
\* A set of natural numbers has a least element.
LEMMA LeastNat ==
  ASSUME NEW S \in SUBSET Nat, S # {}
  PROVE  \E n \in S : \A m \in S : n <= m
<1> DEFINE T == {0..n : n \in S}
           R == StrictSubsetOrdering(Nat)
           F == FiniteSubsetsOf(Nat)
<1>1. IsWellFoundedOn(R, F)
  BY FS_StrictSubsetOrderingWellFounded
<1>2. T \subseteq F /\ T # {}
  <2>1. \A n \in S : IsFiniteSet(0..n)
    BY FS_Interval
  <2>2. \A n \in S : 0..n \in F
    BY <2>1 DEF FiniteSubsetsOf
  <2> HIDE DEF F
  <2> QED BY <2>2
<1>3. \A X, Y \in SUBSET Nat : X \subseteq Y /\ X # Y => <<X, Y>> \in R
  BY DEF StrictSubsetOrdering
<1> HIDE DEF R, F
<1>4. PICK X \in T : \A Y \in T : ~(<<Y, X>> \in R)
  <2> HIDE DEF T
  <2> QED BY <1>1, <1>2, WFMin
<1>5. PICK n \in S : X = 0..n
  BY <1>4
<1>6. ASSUME NEW m \in S, m < n PROVE FALSE
  <2>1. 0..m \subseteq 0..n /\ n \in 0..n /\ n \notin 0..m
    BY <1>6
  <2>2. <<0..m, 0..n>> \in R
    BY <2>1, <1>3
  <2> QED BY <2>2, <1>4, <1>5
<1> QED BY <1>6

\* A set with 0 that is closed under + 1 has every natural number.
LEMMA Induction ==
  ASSUME NEW S, 0 \in S, \A n \in Nat : n \in S => n + 1 \in S
  PROVE  \A n \in Nat : n \in S
<1> SUFFICES ASSUME Nat \ S # {} PROVE FALSE
  OBVIOUS
<1>1. PICK n \in Nat \ S : \A m \in Nat \ S : n <= m
  BY LeastNat
<1>2. n # 0 /\ n - 1 \in Nat /\ n - 1 \notin Nat \ S
  BY <1>1
<1> QED BY <1>1, <1>2

\* In the numbers the limbs stand for.
LEMMA FieldOpsAre ==
  ASSUME NEW x \in 0..(P - 1), NEW y \in 0..(P - 1), NEW a, a = feFromBig(x), NEW b, b = feFromBig(y)
  PROVE  /\ feAdd(a, b) = feFromBig((x + y) % P)
         /\ feSub(a, b) = feFromBig((x - y) % P)
         /\ feMul(a, b) = feFromBig((x * y) % P)
<1>1. P \in Nat /\ P > 0 /\ P < Top /\ Top \in Nat
  BY Sizes
<1>2. a \in Element /\ big(a) = x /\ b \in Element /\ big(b) = y /\ x \in Nat /\ y \in Nat /\ x < P /\ y < P
  BY <1>1, FromBigIs
<1>3. ASSUME NEW e \in Element, NEW z \in Int, big(e) = z % P PROVE e = feFromBig(z % P)
  <2>1. PICK r \in Nat : r = z % P /\ r < Top
    BY <1>1
  <2>2. feFromBig(r) \in Element /\ big(feFromBig(r)) = r
    BY <2>1, FromBigIs
  <2> QED BY <1>3, <2>1, <2>2, OneElement
<1>4. x + y \in Int /\ x - y \in Int /\ x * y \in Int
  BY <1>2
<1>5. feAdd(a, b) \in Element /\ big(feAdd(a, b)) = (x + y) % P
  BY <1>2, AddIsExact
<1>6. feSub(a, b) \in Element /\ big(feSub(a, b)) = (x - y) % P
  BY <1>2, SubIsExact
<1>7. feMul(a, b) \in Element /\ big(feMul(a, b)) = (x * y) % P
  BY <1>2, MulIsExact
<1>8. feAdd(a, b) = feFromBig((x + y) % P)
  BY <1>3, <1>4, <1>5
<1>9. feSub(a, b) = feFromBig((x - y) % P)
  BY <1>3, <1>4, <1>6
<1>10. feMul(a, b) = feFromBig((x * y) % P)
  BY <1>3, <1>4, <1>7
<1> QED BY <1>8, <1>9, <1>10

-----------------------------------------------------------------------------
(***************************************************************************)
(* Keys: points whose coordinates are reduced                              *)
(***************************************************************************)
Coordinate == 0..(P - 1)
Point == {Infinity} \cup (Coordinate \X Coordinate)

LEMMA RestInField == \A x \in Int : x % P \in Coordinate /\ x % P \in Int
<1>1. P \in Nat /\ P > 0
  BY Sizes
<1> QED BY <1>1 DEF Coordinate

\* What is not 0 modulo P can be divided by.
LEMMA ChordIs ==
  ASSUME NEW num \in Int, NEW den \in Int, den % P # 0,
         NEW pt, pt[1] \in Int, pt[2] \in Int, NEW x2 \in Int
  PROVE  Chord(num, den, pt, x2) \in Point
<1>1. PICK n \in Int, d \in Int : n = num % P /\ d = den % P
  BY RestInField
<1>2. d \in 1..(P - 1)
  <2>1. d \in 0..(P - 1) /\ d # 0
    BY <1>1, RestInField DEF Coordinate
  <2> QED BY <1>1, <2>1, Sizes
<1>3. PICK inv \in Int : inv = InverseP[d]
  <2>1. \E b \in 1..(P - 1) : (d * b) % P = 1
    BY <1>2, CurveAssumption
  <2>2. InverseP[d] = CHOOSE b \in 1..(P - 1) : (d * b) % P = 1
    BY <1>2 DEF InverseP
  <2>3. InverseP[d] \in 1..(P - 1)
    BY <2>1, <2>2
  <2> QED BY <2>3, Sizes
<1>4. PICK lam \in Int : lam = (n * inv) % P
  <2>1. n * inv \in Int
    BY <1>1, <1>3
  <2> QED BY <2>1, RestInField
<1>5. PICK p1 \in Int, p2 \in Int : p1 = pt[1] /\ p2 = pt[2]
  OBVIOUS
<1>6. PICK x3 \in Coordinate : x3 = (lam * lam - p1 - x2) % P
  BY RestInField
<1>7. x3 \in Int
  BY Sizes DEF Coordinate
<1>8. (lam * (p1 - x3) - p2) % P \in Coordinate
  BY <1>7, RestInField
<1>9. Chord(num, den, pt, x2) = <<x3, (lam * (p1 - x3) - p2) % P>>
  BY <1>1, <1>3, <1>4, <1>5, <1>6 DEF Chord
<1> QED BY <1>8, <1>9 DEF Point

LEMMA DoubleIs ==
  ASSUME NEW pt \in Point
  PROVE  pointDouble(pt) \in Point
<1>1. CASE pt = Infinity \/ pt[2] = 0
  BY <1>1 DEF pointDouble, Point
<1>2. CASE pt # Infinity /\ pt[2] # 0
  <2>1. pt[1] \in Coordinate /\ pt[2] \in Coordinate
    BY <1>2 DEF Point
  <2>2. PICK x \in Int, y \in Int : x = pt[1] /\ y = pt[2] /\ y >= 1 /\ y <= P - 1
    BY <1>2, <2>1, Sizes DEF Coordinate
  <2>3. (2 * y) % P # 0
    <3>1. P \in Nat /\ P > 0 /\ P % 2 = 1
      BY Sizes, CurveAssumption
    <3>2. PICK h \in Int : P = 2 * h + 1
      BY <3>1
    <3>3. CASE 2 * y < P
      <4>1. (2 * y) % P = 2 * y
        BY <2>2, <3>1, <3>3
      <4> QED BY <2>2, <4>1
    <3>4. CASE 2 * y >= P
      <4>1. PICK z \in Nat : z = 2 * y - P /\ z < P /\ z # 0
        BY <2>2, <3>1, <3>2, <3>4
      <4>2. 2 * y \in Int /\ 2 * y = z + P * 1
        BY <3>1, <4>1
      <4>3. (2 * y) % P = z
        BY <4>1, <4>2, RestIs
      <4> QED BY <4>1, <4>3
    <3> QED BY <2>2, <3>1, <3>3, <3>4
  <2>4. 3 * ((x * x) % P) \in Int
    <3>1. (x * x) % P \in Coordinate
      BY RestInField
    <3> QED BY <3>1, Sizes DEF Coordinate
  <2>5. Chord(3 * ((x * x) % P), 2 * y, pt, x) \in Point
    <3>1. 2 * y \in Int
      OBVIOUS
    <3> QED BY <2>2, <2>3, <2>4, <3>1, ChordIs
  <2> QED BY <1>2, <2>2, <2>5 DEF pointDouble
<1> QED BY <1>1, <1>2

LEMMA PointAddIs ==
  ASSUME NEW p \in Point, NEW q \in Point
  PROVE  pointAdd(p, q) \in Point
<1>1. CASE p = Infinity \/ q = Infinity
  BY <1>1 DEF pointAdd
<1>2. CASE p # Infinity /\ q # Infinity /\ p[1] = q[1]
  <2>1. pointDouble(p) \in Point /\ Infinity \in Point
    BY DoubleIs DEF Point
  <2> QED BY <1>2, <2>1 DEF pointAdd
<1>3. CASE p # Infinity /\ q # Infinity /\ p[1] # q[1]
  <2>1. p[1] \in Coordinate /\ p[2] \in Coordinate /\ q[1] \in Coordinate /\ q[2] \in Coordinate
    BY <1>3 DEF Point
  <2>2. PICK x \in Int, y \in Int, u \in Int, v \in Int : x = p[1] /\ y = p[2] /\ u = q[1] /\ v = q[2]
    BY <2>1, Sizes DEF Coordinate
  <2>3. x >= 0 /\ x <= P - 1 /\ u >= 0 /\ u <= P - 1 /\ u # x /\ P \in Nat
    BY <1>3, <2>1, <2>2, Sizes DEF Coordinate
  <2>4. (u - x) % P # 0
    <3>1. CASE u > x
      <4>1. PICK z \in Nat : z = u - x /\ z < P /\ z # 0
        BY <2>3, <3>1
      <4>2. z = z + P * 0 /\ z \in Int
        BY <2>3
      <4>3. z % P = z
        BY <4>1, <4>2, RestIs
      <4> QED BY <4>1, <4>3
    <3>2. CASE u < x
      <4>1. PICK z \in Nat, w \in Int : z = u - x + P /\ z < P /\ z # 0 /\ w = u - x
        BY <2>3, <3>2
      <4>2. w = z + P * (-1)
        BY <2>3, <4>1
      <4>3. w % P = z
        BY <4>1, <4>2, RestIs
      <4> QED BY <4>1, <4>3
    <3> QED BY <2>3, <3>1, <3>2
  <2>5. Chord(v - y, u - x, p, u) \in Point
    <3>1. v - y \in Int /\ u - x \in Int
      OBVIOUS
    <3> QED BY <2>2, <2>4, <3>1, ChordIs
  <2> QED BY <1>3, <2>2, <2>5 DEF pointAdd
<1> QED BY <1>1, <1>2, <1>3

\* Every multiple of a point is a point.
LEMMA MultIs ==
  ASSUME NEW k, NEW pt \in Point
  PROVE  scalarMult(k, pt) \in Point
<1> DEFINE Top4 == 4 * LimbBits
           Turn(r, i) == IF Bits(k)[i] = 1 THEN pointAdd(pointDouble(r), pt) ELSE pointDouble(r)
           N(f, n) == [i \in 0..n |-> IF i = 0 THEN Infinity ELSE Turn(f[i - 1], i)]
           S == {n \in Nat : \E f : f = N(f, n)}
<1>1. PICK b \in Nat : b = Top4
  BY FieldAssumption
<1>2. PICK r : r = (CHOOSE f : f = N(f, b)) /\ scalarMult(k, pt) = r[b]
  BY <1>1 DEF scalarMult
<1>3. ASSUME NEW x \in Point, NEW i PROVE Turn(x, i) \in Point
  BY <1>3, DoubleIs, PointAddIs
<1> HIDE DEF Turn, Top4
<1>4. 0 \in S
  <2> DEFINE f == [i \in 0..0 |-> Infinity]
  <2>1. f = N(f, 0)
    OBVIOUS
  <2> QED BY <2>1
<1>5. ASSUME NEW n \in Nat, n \in S PROVE n + 1 \in S
  <2>1. PICK f : f = N(f, n)
    BY <1>5
  <2> DEFINE h == [i \in 0..(n + 1) |-> IF i <= n THEN f[i] ELSE Turn(f[n], n + 1)]
  <2>2. \A i \in 0..n : f[i] = IF i = 0 THEN Infinity ELSE Turn(f[i - 1], i)
    BY <2>1
  <2>3. ASSUME NEW i \in 0..(n + 1) PROVE h[i] = IF i = 0 THEN Infinity ELSE Turn(h[i - 1], i)
    <3>1. CASE i <= n
      BY <2>2, <3>1
    <3>2. CASE i = n + 1
      BY <3>2
    <3> QED BY <3>1, <3>2
  <2>4. h = [i \in 0..(n + 1) |-> h[i]]
    OBVIOUS
  <2> HIDE DEF h
  <2>5. h = N(h, n + 1)
    BY <2>3, <2>4
  <2> HIDE DEF N
  <2>6. \E v : v = N(v, n + 1)
    BY <2>5
  <2> QED BY <2>6
<1>6. \A n \in Nat : n \in S
  <2> HIDE DEF S
  <2> QED BY <1>4, <1>5, Induction
<1>7. r = N(r, b)
  <2>1. \E f : f = N(f, b)
    BY <1>6
  <2> HIDE DEF N
  <2> QED BY <1>2, <2>1
<1>8. \A i \in 0..b : r[i] = IF i = 0 THEN Infinity ELSE Turn(r[i - 1], i)
  BY <1>7
<1> DEFINE Q == {i \in Nat : i <= b => r[i] \in Point}
<1>9. 0 \in Q
  BY <1>8 DEF Point
<1>10. ASSUME NEW i \in Nat, i \in Q PROVE i + 1 \in Q
  <2> SUFFICES ASSUME i + 1 <= b PROVE r[i + 1] \in Point
    OBVIOUS
  <2>1. r[i] \in Point
    BY <1>10
  <2>2. i + 1 \in 0..b /\ i + 1 # 0 /\ (i + 1) - 1 = i
    OBVIOUS
  <2>3. r[i + 1] = Turn(r[i], i + 1)
    BY <1>8, <2>2
  <2> QED BY <1>3, <2>1, <2>3
<1>11. \A i \in Nat : i \in Q
  <2> HIDE DEF Q
  <2> QED BY <1>9, <1>10, Induction
<1> QED BY <1>2, <1>11

-----------------------------------------------------------------------------
(***************************************************************************)
(* What a verifier does to the key it holds                                *)
(***************************************************************************)
\* The key with its X reduced modulo the order.
ReducedKey(pt) == [pt EXCEPT ![1] = @ % curveN]

\* A key held by a verifier is the signer's, or that with its X reduced.
KeyInv ==
  /\ pub \in Point
  /\ state # "no key" =>
       \/ pub = Public(key)
       \/ Public(key)[1] >= curveN /\ pub = ReducedKey(Public(key))

\* Reducing X gives a point, and a second time nothing new; X below the order
\* is left as it is.
LEMMA ReducedKeyIs ==
  ASSUME NEW pt \in Point, pt # Infinity
  PROVE  /\ <<pt[1] % curveN, pt[2]>> \in Point
         /\ <<pt[1] % curveN, pt[2]>> = ReducedKey(pt)
         /\ pt[1] < curveN => ReducedKey(pt) = pt
         /\ ReducedKey(pt) # Infinity /\ ReducedKey(pt)[1] < curveN
         /\ pt[1] < curveN \/ pt[1] >= curveN
<1>1. PICK x \in Coordinate, y \in Coordinate : pt = <<x, y>>
  BY DEF Point
<1>2. pt[1] = x /\ pt[2] = y /\ x \in Nat /\ x <= P - 1 /\ P \in Nat
  BY <1>1, Sizes DEF Coordinate
<1>3. PICK r \in Nat : r = x % curveN /\ r < curveN /\ r <= x /\ (x < curveN => r = x)
  BY <1>2, EcdsaAssumption
<1>4. r \in Coordinate
  BY <1>2, <1>3 DEF Coordinate
<1>5. <<r, y>> \in Point /\ <<r, y>> # Infinity
  BY <1>1, <1>4 DEF Point, Infinity
<1>6. ReducedKey(pt) = <<r, y>>
  BY <1>1, <1>2, <1>3 DEF ReducedKey
<1>7. <<r, y>>[1] = r
  OBVIOUS
<1>8. x < curveN \/ x >= curveN
  BY <1>2, EcdsaAssumption
<1> QED BY <1>1, <1>2, <1>3, <1>5, <1>6, <1>7, <1>8

LEMMA PublicIs == \A d : Public(d) \in Point
<1>1. curveG \in Point
  BY CurveAssumption DEF Point, Coordinate
<1> QED BY <1>1, MultIs DEF Public

LEMMA PairOf ==
  ASSUME NEW S, NEW x \in S, NEW y \in S, NEW i \in DOMAIN <<x, y>>
  PROVE  <<x, y>>[i] \in S
OBVIOUS

LEMMA EcdsaInitInv == EcdsaInit => KeyInv
BY Zenon DEF EcdsaInit, KeyInv, Point

LEMMA MakeKeyInv ==
  ASSUME KeyInv, MakeKey
  PROVE  KeyInv'
<1>1. PICK d : key' = d /\ pub' = Public(d)
  BY Zenon DEF MakeKey
<1>2. pub' \in Point /\ pub' = Public(key')
  BY <1>1, PublicIs
<1> QED BY <1>2, Zenon DEF KeyInv

LEMMA SignBeginInv ==
  ASSUME KeyInv, SignBegin
  PROVE  KeyInv'
BY DEF KeyInv, SignBegin

LEMMA SignAttemptInv ==
  ASSUME KeyInv, SignAttempt
  PROVE  KeyInv'
<1>1. state = "signing" /\ key' = key /\ pub' = pub
  BY DEF SignAttempt
<1> QED BY <1>1, Zenon DEF KeyInv

LEMMA MalleateSigInv ==
  ASSUME KeyInv, MalleateSig
  PROVE  KeyInv'
BY Zenon DEF KeyInv, MalleateSig

LEMMA CheckSigInv ==
  ASSUME KeyInv, CheckSig
  PROVE  KeyInv'
<1>1. state' = state /\ key' = key /\ state # "no key" /\ pub' = KeyAfterVerify(pub, hash, sig)
  BY Zenon DEF CheckSig
<1>2. CASE pub' = pub
  BY <1>1, <1>2, Zenon DEF KeyInv
<1>3. CASE pub' # pub
  <2>1. onCurve(pub) /\ pub' = <<pub[1] % curveN, pub[2]>>
    BY <1>1, <1>3, Zenon DEF KeyAfterVerify
  <2>2. pub \in Point /\ pub # Infinity
    BY <2>1, Zenon DEF KeyInv, onCurve
  <2>3. pub' \in Point /\ pub' = ReducedKey(pub) /\ pub[1] >= curveN
    BY <1>3, <2>1, <2>2, ReducedKeyIs
  <2>4. pub = Public(key)
    <3>1. CASE pub = ReducedKey(Public(key))
      <4>1. Public(key) \in Point
        BY PublicIs
      <4>2. CASE Public(key) = Infinity
        <5>1. ReducedKey(Infinity) = Infinity
          BY DEF ReducedKey, Infinity
        <5> QED BY <2>2, <3>1, <4>2, <5>1
      <4>3. CASE Public(key) # Infinity
        <5>1. pub[1] < curveN
          BY <3>1, <4>1, <4>3, ReducedKeyIs
        <5>2. \A x \in Coordinate : x \in Int
          BY Sizes DEF Coordinate
        <5>3. pub[1] \in Int
          BY <2>2, <5>2 DEF Point
        <5> QED BY <2>3, <5>1, <5>3, EcdsaAssumption
      <4> QED BY <4>2, <4>3
    <3> QED BY <1>1, <3>1, Zenon DEF KeyInv
  <2> QED BY <1>1, <2>3, <2>4, Zenon DEF KeyInv
<1> QED BY <1>2, <1>3

LEMMA EcdsaStepInv == KeyInv /\ [EcdsaNext]_ecdsaVars => KeyInv'
<1> SUFFICES ASSUME KeyInv, [EcdsaNext]_ecdsaVars PROVE KeyInv'
  OBVIOUS
<1>1. CASE UNCHANGED ecdsaVars
  BY <1>1, Zenon DEF KeyInv, ecdsaVars
<1>2. CASE EcdsaNext
  BY <1>2, MakeKeyInv, SignBeginInv, SignAttemptInv, MalleateSigInv, CheckSigInv DEF EcdsaNext
<1> QED BY <1>1, <1>2

\* The constant-time field operations of crypto/ct.go (feAdd, feSub, feMul) are
\* arithmetic modulo P and leave a fully reduced element, for a word of any
\* width: the coordinates of the key the signer works with among their operands.
THEOREM OpsAreTheFields == EcdsaSpec => []FieldOpsExact
<1>1. KeyInv => FieldOpsExact
  <2> SUFFICES ASSUME KeyInv PROVE FieldOpsExact
    OBVIOUS
  <2>1. Held \subseteq Coordinate
    <3>1. CASE pub = Infinity
      <4>1. pub \in Seq(Coordinate) /\ Len(pub) = 0
        BY <3>1 DEF Infinity
      <4>2. DOMAIN pub = {}
        BY <4>1
      <4> QED BY <4>2 DEF Held
    <3>2. CASE pub # Infinity
      <4>1. pub \in Coordinate \X Coordinate
        <5>1. pub \in Point
          BY Zenon DEF KeyInv
        <5> QED BY <3>2, <5>1 DEF Point
      <4>2. PICK x \in Coordinate, y \in Coordinate : pub = <<x, y>>
        BY <4>1
      <4>3. \A i \in DOMAIN pub : pub[i] \in Coordinate
        BY <4>2, PairOf
      <4> QED BY <4>3 DEF Held
    <3> QED BY <3>1, <3>2
  <2>2. Samples \subseteq Coordinate
    BY EcdsaAssumption DEF Coordinate
  <2>3. ASSUME NEW x \in Coordinate, NEW y \in Coordinate
        PROVE  /\ feAdd(feFromBig(x), feFromBig(y)) = feFromBig((x + y) % P)
               /\ feSub(feFromBig(x), feFromBig(y)) = feFromBig((x - y) % P)
               /\ feMul(feFromBig(x), feFromBig(y)) = feFromBig((x * y) % P)
    BY <2>3, FieldOpsAre DEF Coordinate
  <2>4. \A x \in (IF state = "no key" THEN Samples ELSE Held), y \in Samples \cup Held :
          x \in Coordinate /\ y \in Coordinate
    BY <2>1, <2>2, Zenon
  <2> QED BY <2>3, <2>4, Zenon DEF FieldOpsExact
<1> QED BY <1>1, EcdsaInitInv, EcdsaStepInv, PTL DEF EcdsaSpec
=============================================================================
