------------------------------- MODULE Ecdsa --------------------------------
(***************************************************************************)
(* ECDSA keys and signatures (crypto/secp256k1.go): a key is made, Sign    *)
(* tries nonces until one gives a signature, Malleate makes its twin, and  *)
(* whoever holds the public key verifies.                                  *)
(*                                                                         *)
(* The loop of Sign is one step per attempt.  The nonce of an attempt is   *)
(* HMAC of the key, the hash and the attempt's number (RFC 6979): any      *)
(* scalar in 1..n-1.  A hash is the number bits2int makes of it, which     *)
(* nothing reduces modulo n.                                               *)
(***************************************************************************)
EXTENDS Curve

CONSTANTS
  Seeds,      \* entropy NewPrivateKey may be given, as numbers
  RawKeys,    \* scalars put into a PrivateKey as they are (kat_test.go:46)
  Hashes,     \* messages' hashes
  Samples,    \* field elements the operations are tried with
  Scalars,    \* scalars the two ladders are compared on
  MaxTries    \* bound: attempts of one Sign (1000 in the code)

ASSUME EcdsaAssumption ==
  /\ curveN \in Nat /\ curveN > 2 /\ curveN % 2 = 1
  /\ Seeds \subseteq Nat /\ RawKeys \subseteq Nat /\ Hashes \subseteq Nat
  /\ Samples \subseteq 0..(P - 1) /\ MaxTries \in Nat \ {0}

VARIABLES
  key,      \* k.D
  pub,      \* the public key a verifier holds
  hash,     \* the message of the last call of Sign
  tries,    \* i
  sig,      \* the signature made of it, or what Malleate made of that
  state     \* where the signer is, and the error Sign returned

ecdsaVars == <<key, pub, hash, tries, sig, state>>

NoSig == [R |-> 0, S |-> 0]
nHalf == curveN \div 2

-----------------------------------------------------------------------------
(***************************************************************************)
(* Keys                                                                    *)
(***************************************************************************)
NewPrivateKey(seed) == (seed % (curveN - 1)) + 1

Public(d) == scalarMult(d, curveG)

ValidKey(d) == d \in 1..(curveN - 1)

-----------------------------------------------------------------------------
(***************************************************************************)
(* Signatures                                                              *)
(***************************************************************************)
\* r of every nonce: the affine X of k*G by the constant-time ladder.
NonceR == [k \in 1..(curveN - 1) |->
             big(affineX(scalarMultCT(k, Projective(curveG)))) % curveN]

\* rfc6979Nonce: HMAC outputs of full width until one is a scalar of the group.
Nonces == {t \in 0..(Base^4 - 1) : t > 0 /\ t < curveN}

NonceS(d, z, r, k) == ((r * d + z) * InverseN[k]) % curveN

\* Mutant: the middle of the range is taken for high.
LowSFromHalf(s) == IF s >= nHalf THEN curveN - s ELSE s

LowS(s) == IF s > nHalf THEN curveN - s ELSE s

IsLowS(sg) == sg.S <= nHalf

\* The transform of Malleate; parsing and serialising change no value.
Malleate(sg) == [sg EXCEPT !.S = curveN - @]

InRange(v) == v > 0 /\ v < curveN

u1(z, sg) == (z * InverseN[sg.S]) % curveN
u2(sg) == (sg.R * InverseN[sg.S]) % curveN

\* Mutant: r is not looked at before the equation.
VerifyAnyR(pt, z, sg) ==
  /\ onCurve(pt)
  /\ InRange(sg.S)
  /\ LET sum == pointAdd(scalarMult(u1(z, sg), curveG), scalarMult(u2(sg), pt))
     IN  sum # Infinity /\ sum[1] % curveN = sg.R

Verify(pt, z, sg) ==
  /\ onCurve(pt)
  /\ InRange(sg.R) /\ InRange(sg.S)
  /\ LET sum == pointAdd(scalarMult(u1(z, sg), curveG), scalarMult(u2(sg), pt))
     IN  sum # Infinity /\ sum[1] % curveN = sg.R

\* Verify's last line reduces the X it got from pointAdd in place, and with
\* u1 = 0 and u2 = 1 that is the big.Int of the caller's key.
KeyAfterVerify(pt, z, sg) ==
  IF onCurve(pt) /\ InRange(sg.R) /\ InRange(sg.S) /\ u1(z, sg) = 0 /\ u2(sg) = 1
  THEN <<pt[1] % curveN, pt[2]>>
  ELSE pt

-----------------------------------------------------------------------------
EcdsaInit ==
  /\ key = 0 /\ pub = Infinity
  /\ hash = 0 /\ tries = 0 /\ sig = NoSig
  /\ state = "no key"

\* A key from entropy or put together as it is, and its public key.
MakeKey ==
  /\ state = "no key"
  /\ \E d \in {NewPrivateKey(seed) : seed \in Seeds} \cup RawKeys :
       key' = d /\ pub' = Public(d)
  /\ state' = "idle"
  /\ UNCHANGED <<hash, tries, sig>>

SignBegin ==
  /\ state = "idle"
  /\ \E z \in Hashes : hash' = z
  /\ tries' = 0
  /\ state' = IF ValidKey(key) THEN "signing" ELSE "ErrInvalidKey"
  /\ UNCHANGED <<key, pub, sig>>

\* One turn of the loop: r = 0 and s = 0 go on to the next nonce.
SignAttempt ==
  /\ state = "signing"
  /\ \E k \in Nonces : \E r \in {NonceR[k]} :
       LET s == NonceS(key, hash, r, k) IN
       IF r = 0 \/ s = 0
       THEN /\ tries' = tries + 1
            /\ state' = IF tries + 1 < MaxTries THEN "signing" ELSE "ErrSign"
            /\ UNCHANGED sig
       ELSE /\ sig' = [R |-> r, S |-> LowS(s)]
            /\ state' = "signed"
            /\ UNCHANGED tries
  /\ UNCHANGED <<key, pub, hash>>

MalleateSig ==
  /\ state \in {"signed", "twin"}
  /\ sig' = Malleate(sig)
  /\ state' = IF state = "signed" THEN "twin" ELSE "signed"
  /\ UNCHANGED <<key, pub, hash, tries>>

\* A verifier checks the signature under the key it holds.
CheckSig ==
  /\ state \in {"signed", "twin"}
  /\ pub' = KeyAfterVerify(pub, hash, sig)
  /\ UNCHANGED <<key, hash, tries, sig, state>>

EcdsaNext == MakeKey \/ SignBegin \/ SignAttempt \/ MalleateSig \/ CheckSig

EcdsaSpec == EcdsaInit /\ [][EcdsaNext]_ecdsaVars

-----------------------------------------------------------------------------
(***************************************************************************)
(* Properties                                                              *)
(***************************************************************************)
Held == {pub[i] : i \in DOMAIN pub}

\* The r of a nonce by the affine formulas.
AffineR == [k \in 1..(curveN - 1) |-> scalarMult(k, curveG)[1] % curveN]

\* The limb operations are the field's and leave a fully reduced element ("fully
\* reduced to [0,p) after every exported op", ct.go:64): carries out of the top
\* limb, folded back once or twice, and the conditional subtraction all agree
\* with arithmetic modulo P.
FieldOpsExact ==
  state \in {"no key", "idle"} =>
    \A x \in (IF state = "no key" THEN Samples ELSE Held), y \in Samples \cup Held :
      LET a == feFromBig(x)
          b == feFromBig(y)
      IN  /\ feAdd(a, b) = feFromBig((x + y) % P)
          /\ feSub(a, b) = feFromBig((x - y) % P)
          /\ feMul(a, b) = feFromBig((x * y) % P)

\* The ladder Sign uses gives the point Verify's gives, for scalars above the
\* order too, infinity being (0, 0); and that point is the last one plus the
\* key's.  No point of the multiples is an exception to either formula, and
\* feInv, which takes a point out of projective form, inverts.
LaddersAgree ==
  state = "idle" =>
    /\ \A x \in Samples \cup Held :
         big(feMul(feFromBig(x), feInv(feFromBig(x)))) = IF x = 0 THEN 0 ELSE 1
    /\ pub # Infinity =>
         \A k \in Scalars : \E pt \in {scalarMult(k, pub)} :
           /\ affineXY(scalarMultCT(k, Projective(pub)))
                = IF pt = Infinity THEN <<feFromBig(0), feFromBig(0)>>
                  ELSE <<feFromBig(pt[1]), feFromBig(pt[2])>>
           /\ pointAdd(pt, pub) = scalarMult(k + 1, pub)

\* Verify accepts exactly the pairs some nonce gives, up to the sign of s: not
\* one value outside 1..n-1, and no pair that the equation of signing does not
\* hold for.
VerifyIsExact ==
  state = "signing" /\ tries = 0 =>
    \A r, s \in 0..(curveN + 1) :
      Verify(pub, hash, [R |-> r, S |-> s])
      <=> /\ InRange(r) /\ InRange(s)
          /\ \E k \in 1..(curveN - 1) :
               /\ AffineR[k] = r
               /\ (s * k - hash - r * key) % curveN = 0

\* What Sign returns verifies, after the nonces it had to give up too, under the
\* key as it travels: compressed and parsed.  So does its twin, and exactly one
\* of the two is low, so that refusing high S leaves one form of a signature.
SignedIsCanonical ==
  state \in {"signed", "twin"} =>
    /\ Verify(ParseCompressed(SerializeCompressed(Public(key))), hash, sig)
    /\ IsLowS(sig) <=> state = "signed"
=============================================================================
