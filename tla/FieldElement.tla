---------------------------- MODULE FieldElement ----------------------------
(***************************************************************************)
(* The field arithmetic of crypto/ct.go: an element is four limbs, the     *)
(* least significant first, modulo P = 2^(4*LimbBits) - feC (in the code   *)
(* LimbBits = 64 and feC = 2^32 + 977).  An operation is a chain of        *)
(* bits.Add64, bits.Sub64 or bits.Mul64, each of which leaves a word and   *)
(* hands the rest to the next limb: Carried is such a chain, the columns   *)
(* being what each limb is offered.  A borrow is a carry of -1.            *)
(* The masked selects are IF: which branch is taken, not in what time.     *)
(***************************************************************************)
EXTENDS Integers, Sequences

CONSTANTS
  LimbBits,   \* the width of a word
  Base,       \* the words there are
  P,          \* the modulus
  feC         \* Base^4 modulo P

ASSUME FieldAssumption ==
  /\ LimbBits \in Nat \ {0}
  /\ Base \in Nat /\ Base = 2^LimbBits
  /\ feC \in 1..(Base - 1)
  /\ P = Base * (Base * (Base * Base)) - feC

Word == 0..(Base - 1)
Element == [1..4 -> Word]

-----------------------------------------------------------------------------
\* The value of limbs (big).
big(a) == a[1] + Base * (a[2] + Base * (a[3] + Base * a[4]))

\* Offer a column of value to each limb: the four words and what is left over.
Carried(columns) ==
  LET s1 == columns[1]
      s2 == columns[2] + (s1 \div Base)
      s3 == columns[3] + (s2 \div Base)
      s4 == columns[4] + (s3 \div Base)
  IN  [words |-> <<s1 % Base, s2 % Base, s3 % Base, s4 % Base>>,
       out |-> s4 \div Base]

\* The limbs of a value, and of the modulus.
feFromBig(v) == Carried(<<v, 0, 0, 0>>).words
pl == feFromBig(P)

LimbSum(a, b) == Carried(<<a[1] + b[1], a[2] + b[2], a[3] + b[3], a[4] + b[4]>>)

LimbDifference(a, b) == Carried(<<a[1] - b[1], a[2] - b[2], a[3] - b[3], a[4] - b[4]>>)

\* a - P if a >= P, else a.
feCondSubP(a) ==
  LET r == LimbDifference(a, pl) IN IF r.out = 0 THEN r.words ELSE a

\* A carry out of the top limb is worth feC at the bottom.
Fold(r) == LimbSum(r.words, <<r.out * feC, 0, 0, 0>>)

feAdd(a, b) == feCondSubP(Fold(Fold(LimbSum(a, b))).words)

feSub(a, b) ==
  LET d == LimbDifference(a, b)
  IN  IF d.out = 0 THEN d.words ELSE LimbSum(d.words, pl).words

mul256by64(a, w) == Carried(<<a[1] * w, a[2] * w, a[3] * w, a[4] * w>>)

\* One row of the schoolbook product: a[i] times b, added to t from limb i on.
Row(t, i, a, b) ==
  LET r == Carried(<<t[i] + a[i] * b[1], t[i + 1] + a[i] * b[2],
                     t[i + 2] + a[i] * b[3], t[i + 3] + a[i] * b[4]>>)
  IN  [k \in 1..8 |-> IF k \in i..(i + 3) THEN r.words[k - i + 1]
                      ELSE IF k = i + 4 THEN (t[k] + r.out) % Base ELSE t[k]]

Product(a, b) ==
  Row(Row(Row(Row([k \in 1..8 |-> 0], 1, a, b), 2, a, b), 3, a, b), 4, a, b)

\* Mutant: without the last carry, which few products need.
ReducedWithoutLastCarry(low, high) ==
  LET AddWide(r, wide) == LimbSum(r, <<wide % Base, wide \div Base, 0, 0>>)
      AddHigh(r, top)  == AddWide(r.words, (top + r.out) * feC)
      AddProduct(m)    == AddHigh(LimbSum(low, m.words), m.out)
  IN  feCondSubP(AddProduct(mul256by64(high, feC)).words)

\* 512 bits to 256: the high half times feC, then what is above the top again
\* (up to two words, bits.Mul64(r4, feC)), then a last carry.
Reduced(low, high) ==
  LET AddWide(r, wide) == Fold(LimbSum(r, <<wide % Base, wide \div Base, 0, 0>>))
      AddHigh(r, top)  == AddWide(r.words, (top + r.out) * feC)
      AddProduct(m)    == AddHigh(LimbSum(low, m.words), m.out)
  IN  feCondSubP(AddProduct(mul256by64(high, feC)).words)

feMul(a, b) ==
  LET Halves(t) == Reduced([i \in 1..4 |-> t[i]], [i \in 1..4 |-> t[i + 4]])
  IN  Halves(Product(a, b))

Bit(k, i) == (k \div 2^i) % 2

\* a^(P-2) by squaring and multiplying, from the top bit of P-2 down.
feInv(a) ==
  LET timesIf[bit \in 0..1, sq \in Element] == IF bit = 1 THEN feMul(sq, a) ELSE sq
      from[i \in 0..(4 * LimbBits), res \in Element] ==
        IF i = 0 THEN res
        ELSE from[i - 1, timesIf[Bit(P - 2, i - 1), feMul(res, res)]]
  IN  from[4 * LimbBits, <<1, 0, 0, 0>>]
=============================================================================
