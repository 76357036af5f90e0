------------------------------ MODULE Payment ------------------------------
(***************************************************************************)
(* The payment message (payment/payment.go) that the offline wallet makes  *)
(* and the till reads: what a signature covers, and what the till checks   *)
(* of a message alone (walletbob/walletbob.go).                            *)
(*                                                                         *)
(* A message has inputs [prev, pubkey, sig], outputs [value, script] and   *)
(* one bundle per input.  A signature is a record of who made it over what *)
(* and whether it is low-S; a bundle is of a coin, reveals the fields of   *)
(* its transaction or not, its paths fold to its header or not, and it may *)
(* have an L4 anchor, which binds that header to its carrier's or does not.*)
(* Version and lock time are the template's and never change.              *)
(***************************************************************************)
EXTENDS Integers, Sequences

\* What is hashed for one input: the whole structure and the amounts, the
\* keys of all inputs, the input's index, and no signature.
Preimage(tx, i) ==
  [spends |-> [j \in DOMAIN tx.inputs |-> <<tx.inputs[j].prev, tx.inputs[j].pubkey>>],
   outputs |-> tx.outputs, index |-> i]

Sign(tx, i, key) == [by |-> key, over |-> Preimage(tx, i), lowS |-> TRUE]

VerifyInputSignature(tx, i) ==
  LET in == tx.inputs[i]
  IN  in.sig.lowS /\ in.sig.by = in.pubkey /\ in.sig.over = Preimage(tx, i)

SignaturesOK(m) == \A i \in DOMAIN m.inputs : VerifyInputSignature(m, i)

\* Every requested output is among the outputs of the payment.
TemplateSatisfied(requested, m) ==
  \A k \in DOMAIN requested : \E j \in DOMAIN m.outputs : m.outputs[j] = requested[k]

\* The bundle is of the input it stands for and its paths fold to its header.
BundleMatches(m, i) == m.bundles[i].coin = m.inputs[i].prev /\ m.bundles[i].folds
=============================================================================
