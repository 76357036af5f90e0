------------------------------- MODULE Curve --------------------------------
(***************************************************************************)
(* The curve y^2 = x^3 + 7 over the field of P, twice as in the code: the  *)
(* affine formulas of crypto/secp256k1.go over big integers, used by       *)
(* Verify and Public, and the complete projective formulas of crypto/ct.go *)
(* over limbs, used by Sign.                                               *)
(***************************************************************************)
EXTENDS FieldElement, SequencesExt

CONSTANTS
  curveN,     \* the order of the generator, an odd prime
  curveG      \* the generator, an affine point

\* P is an odd prime: whatever is not 0 has an inverse.
ASSUME CurveAssumption ==
  /\ P % 2 = 1
  /\ \A a \in 1..(P - 1) : \E b \in 1..(P - 1) : (a * b) % P = 1
  /\ curveG \in (0..(P - 1)) \X (0..(P - 1))

curveB == 7
feB3 == feFromBig(3 * curveB)

\* (nil, nil); any other point is <<x, y>>.
Infinity == << >>

\* big.Int.ModInverse, for the two moduli in use.
InverseP == [a \in 1..(P - 1) |-> CHOOSE b \in 1..(P - 1) : (a * b) % P = 1]
InverseN == [a \in 1..(curveN - 1) |-> CHOOSE b \in 1..(curveN - 1) : (a * b) % curveN = 1]

\* The bits of a scalar, the most significant first.
Bits(k) == [i \in 1..(4 * LimbBits) |-> Bit(k, 4 * LimbBits - i)]

\* big.Int.Exp modulo P.
PowP(v, e) ==
  FoldLeft(LAMBDA res, bit :
             LET sq == (res * res) % P IN IF bit = 1 THEN (sq * v) % P ELSE sq,
           1, Bits(e))

-----------------------------------------------------------------------------
(***************************************************************************)
(* Affine points                                                           *)
(***************************************************************************)
RightSide(x) == ((((x * x) % P) * x) + curveB) % P

onCurve(pt) ==
  /\ pt # Infinity
  /\ pt[1] < P /\ pt[2] < P
  /\ (pt[2] * pt[2]) % P = RightSide(pt[1])

\* The third point on the line of slope num/den through a point and one with
\* the first coordinate x2, mirrored.
Chord(num, den, pt, x2) ==
  LET lam == ((num % P) * InverseP[den % P]) % P
      x3  == (lam * lam - pt[1] - x2) % P
  IN  <<x3, (lam * (pt[1] - x3) - pt[2]) % P>>

pointDouble(pt) ==
  IF pt = Infinity \/ pt[2] = 0 THEN Infinity
  ELSE Chord(3 * ((pt[1] * pt[1]) % P), 2 * pt[2], pt, pt[1])

pointAdd(p, q) ==
  IF p = Infinity THEN q
  ELSE IF q = Infinity THEN p
  ELSE IF p[1] # q[1] THEN Chord(q[2] - p[2], q[1] - p[1], p, q[1])
  ELSE IF p[2] = q[2] THEN pointDouble(p)
  ELSE Infinity

\* From the top bit down; leading zeros double infinity and change nothing.
scalarMult(k, pt) ==
  LET r[i \in 0..(4 * LimbBits)] ==
        IF i = 0 THEN Infinity
        ELSE LET d == pointDouble(r[i - 1]) IN IF Bits(k)[i] = 1 THEN pointAdd(d, pt) ELSE d
  IN  r[4 * LimbBits]

-----------------------------------------------------------------------------
(***************************************************************************)
(* Compressed points: the parity of Y and X                                *)
(***************************************************************************)
SerializeCompressed(pt) == [odd |-> pt[2] % 2 = 1, x |-> pt[1]]

\* The point, or Infinity for each of the errors.
ParseCompressed(c) ==
  LET y  == PowP(RightSide(c.x), (P + 1) \div 4)
      pt == <<c.x, IF (y % 2 = 1) = c.odd THEN y ELSE P - y>>
  IN  IF c.x < P /\ (y * y) % P = RightSide(c.x) /\ onCurve(pt) THEN pt ELSE Infinity

-----------------------------------------------------------------------------
(***************************************************************************)
(* Projective points X, Y, Z over limbs                                    *)
(***************************************************************************)
identity == [X |-> feFromBig(0), Y |-> feFromBig(1), Z |-> feFromBig(0)]

\* The projective form of an affine point (ctBaseG is that of the generator).
Projective(pt) ==
  [X |-> feFromBig(pt[1]), Y |-> feFromBig(pt[2]), Z |-> feFromBig(1)]

\* Renes, Costello and Batina, algorithm 7, in the code's order of operations:
\* the cross terms by one product each, then the three coordinates.
completeAdd(p, q) ==
  LET Cross(c, d, cc, dd) ==
        feSub(feMul(feAdd(p[c], p[d]), feAdd(q[c], q[d])), feAdd(cc, dd))
      Point(xy, yz, bxz, xx3, plus, less) ==
        [X |-> feSub(feMul(xy, less), feMul(yz, bxz)),
         Y |-> feAdd(feMul(less, plus), feMul(bxz, xx3)),
         Z |-> feAdd(feMul(plus, yz), feMul(xx3, xy))]
      Terms(xx, yy, zz, bzz) ==
        Point(Cross("X", "Y", xx, yy), Cross("Y", "Z", yy, zz),
              feMul(feB3, Cross("X", "Z", xx, zz)),
              feAdd(feAdd(xx, xx), xx), feAdd(yy, bzz), feSub(yy, bzz))
      Squares(xx, yy, zz) == Terms(xx, yy, zz, feMul(feB3, zz))
  IN  Squares(feMul(p.X, q.X), feMul(p.Y, q.Y), feMul(p.Z, q.Z))

Points == [X : Element, Y : Element, Z : Element]

\* Mutant: the ladder starts one bit below the top.
LadderBelowTheTop(k, pt) ==
  LET addIf[bit \in 0..1, d \in Points] == IF bit = 1 THEN completeAdd(d, pt) ELSE d
      from[i \in 0..(4 * LimbBits), r \in Points] ==
        IF i = 0 THEN r ELSE from[i - 1, addIf[Bit(k, i - 1), completeAdd(r, r)]]
  IN  from[4 * LimbBits - 1, identity]

\* From the top bit down: every bit doubles and adds, and selects which of the
\* two is kept.
scalarMultCT(k, pt) ==
  LET addIf[bit \in 0..1, d \in Points] == IF bit = 1 THEN completeAdd(d, pt) ELSE d
      from[i \in 0..(4 * LimbBits), r \in Points] ==
        IF i = 0 THEN r ELSE from[i - 1, addIf[Bit(k, i - 1), completeAdd(r, r)]]
  IN  from[4 * LimbBits, identity]

affineX(pt) == feMul(pt.X, feInv(pt.Z))

affineXY(pt) == <<affineX(pt), feMul(pt.Y, feInv(pt.Z))>>
=============================================================================
