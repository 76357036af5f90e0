------------------------------- MODULE Wallet -------------------------------
(***************************************************************************)
(* The offline wallet (walletalice/walletalice.go): it stores coins with   *)
(* their keys, fills merchants' templates, and exports signed payments.    *)
(*                                                                         *)
(* FillTemplate copies the template's value, and in Go the copy's Outputs  *)
(* is a slice over the same array: appending the change writes into that   *)
(* array when it has room and moves to a new array when it has none.  So   *)
(* the memory of outputs is modelled cell by cell: a slice is the number   *)
(* of its array and its length, and the capacity is the array's length.    *)
(* Inputs start from a nil slice in every call and share nothing.          *)
(***************************************************************************)
EXTENDS Payment, FiniteSets, SequencesExt

CONSTANTS
  Coins,
  Owned,         \* the <<coin, key>> that may be stored
  BundleLists,   \* the sequences of bundles a call may be given
  Changes,       \* change outputs a caller may ask for
  NoChange,      \* changeValue = 0 or no script
  Requests,      \* the templates received: a sequence of [outputs, room],
                 \*   room for that many more in the array they came in
  Unwritten,     \* a cell of an array beyond every slice
  MaxFills,      \* bound: payments filled
  MaxSent        \* bound: messages exported

\* A sequence, whatever its elements are.
IsSeq(s) == s \in Seq(ToSet(s))

ASSUME WalletAssumption ==
  /\ \A owned \in Owned : owned[1] \in Coins
  /\ \A list \in BundleLists : \A i \in DOMAIN list : list[i].coin \in Coins
  /\ NoChange \notin Changes
  /\ IsSeq(Requests)
  /\ \A k \in DOMAIN Requests :
       Requests[k].room \in Nat /\ IsSeq(Requests[k].outputs) /\ Requests[k].outputs # << >>
  /\ MaxFills \in Nat /\ MaxSent \in Nat

VARIABLES
  keys,     \* w.keys: the coins stored, with the key that spends each
  cells,    \* the arrays of outputs in memory
  fills,    \* the payments FillTemplate has returned
  sent      \* the messages Export has returned

vars == <<keys, cells, fills, sent>>

Init ==
  /\ keys = << >>
  /\ cells = [k \in DOMAIN Requests |->
                Requests[k].outputs \o [i \in 1..Requests[k].room |-> Unwritten]]
  /\ fills = << >>
  /\ sent = << >>

-----------------------------------------------------------------------------
(***************************************************************************)
(* Slices of outputs                                                       *)
(***************************************************************************)
Content(slice) == SubSeq(cells[slice.array], 1, slice.len)

HasRoom(slice) == slice.len < Len(cells[slice.array])

\* The built-in append: in place if there is room, else into a new array of
\* twice the length.
AppendOutput(slice, out) ==
  IF HasRoom(slice)
  THEN cells' = [cells EXCEPT ![slice.array][slice.len + 1] = out]
  ELSE cells' = Append(cells, Content(slice) \o <<out>>
                                \o [i \in 1..(slice.len - 1) |-> Unwritten])

Appended(slice) ==
  [array |-> IF HasRoom(slice) THEN slice.array ELSE Len(cells) + 1,
   len |-> slice.len + 1]

\* Templates are the requests received, and any payment filled before.
Templates ==
  {[array |-> k, len |-> Len(Requests[k].outputs)] : k \in DOMAIN Requests}
    \cup {fills[f].outputs : f \in DOMAIN fills}

-----------------------------------------------------------------------------
(***************************************************************************)
(* The operations                                                          *)
(***************************************************************************)

\* A coin stored again takes the new key.
AddOutput(coin, key) ==
  /\ keys' = [c \in DOMAIN keys \cup {coin} |-> IF c = coin THEN key ELSE keys[c]]
  /\ UNCHANGED <<cells, fills, sent>>

\* An input before it is signed.
Spending(bundles) ==
  [i \in DOMAIN bundles |-> [prev |-> bundles[i].coin, pubkey |-> keys[bundles[i].coin]]]

\* Each input signed over the structure as it is when Sign is called.
SignedInputs(tx) ==
  [i \in DOMAIN tx.inputs |->
     [prev |-> tx.inputs[i].prev, pubkey |-> tx.inputs[i].pubkey,
      sig |-> Sign(tx, i, tx.inputs[i].pubkey)]]

\* What the signatures of a fill are to cover.
Structure(bundles, template, change) ==
  [inputs |-> Spending(bundles),
   outputs |-> Content(template) \o (IF change = NoChange THEN << >> ELSE <<change>>)]

\* Mutant of FillTemplate: the inputs are signed before the change is added.
FillTemplateSigningFirst(template, bundles, change) ==
  /\ Len(fills) < MaxFills
  /\ \A i \in DOMAIN bundles : bundles[i].coin \in DOMAIN keys
  /\ IF change = NoChange THEN UNCHANGED cells ELSE AppendOutput(template, change)
  /\ fills' = Append(fills,
       [inputs |-> SignedInputs(Structure(bundles, template, NoChange)),
        outputs |-> IF change = NoChange THEN template ELSE Appended(template),
        inPlace |-> change # NoChange /\ HasRoom(template),
        agreed |-> Structure(bundles, template, change).outputs])
  /\ UNCHANGED <<keys, sent>>

\* All keys must be there; then the change is appended and every input
\* signed over the whole.  inPlace and agreed are history: whether the
\* change went into the template's own array, and the outputs as signed.
FillTemplate(template, bundles, change) ==
  /\ Len(fills) < MaxFills
  /\ \A i \in DOMAIN bundles : bundles[i].coin \in DOMAIN keys
  /\ IF change = NoChange THEN UNCHANGED cells ELSE AppendOutput(template, change)
  /\ fills' = Append(fills,
       [inputs |-> SignedInputs(Structure(bundles, template, change)),
        outputs |-> IF change = NoChange THEN template ELSE Appended(template),
        inPlace |-> change # NoChange /\ HasRoom(template),
        agreed |-> Structure(bundles, template, change).outputs])
  /\ UNCHANGED <<keys, sent>>

\* The payment as its holder sees it now.
Shown(f) == [inputs |-> fills[f].inputs, outputs |-> Content(fills[f].outputs)]

\* A message carries copies, and `of` and `after` note which fill it is of
\* and how many there had been.
Message(f, bundles) ==
  [inputs |-> fills[f].inputs, outputs |-> Content(fills[f].outputs),
   bundles |-> bundles, of |-> f, after |-> Len(fills)]

\* Mutant of Export: bundles without fields are let through.
ExportTXIDOnly(f, bundles) ==
  /\ Len(sent) < MaxSent
  /\ sent' = Append(sent, Message(f, bundles))
  /\ UNCHANGED <<keys, cells, fills>>

\* I-AL2: a bundle that reveals no fields is refused.  Nothing else is
\* looked at: the bundles need not be those of the payment.
Export(f, bundles) ==
  /\ Len(sent) < MaxSent
  /\ \A i \in DOMAIN bundles : bundles[i].fields
  /\ sent' = Append(sent, Message(f, bundles))
  /\ UNCHANGED <<keys, cells, fills>>

Next ==
  \/ \E owned \in Owned : AddOutput(owned[1], owned[2])
  \/ \E template \in Templates, bundles \in BundleLists, change \in Changes \cup {NoChange} :
       FillTemplate(template, bundles, change)
  \/ \E f \in DOMAIN fills, bundles \in BundleLists : Export(f, bundles)

Spec == Init /\ [][Next]_vars

-----------------------------------------------------------------------------
(***************************************************************************)
(* Properties                                                              *)
(***************************************************************************)

\* A later fill wrote its change into a cell that payment f shows.
Overwrote(g, f) ==
  /\ g > f
  /\ fills[g].inPlace
  /\ fills[g].outputs.array = fills[f].outputs.array
  /\ fills[g].outputs.len <= fills[f].outputs.len

\* "Sign each input over the now-complete structure": whatever else the
\* wallet does afterwards, a filled payment shows the outputs that were
\* agreed and its signatures verify, unless a later fill of a template with
\* room put other change into the cell where this one's is; then every
\* signature of it fails.
FilledStaysSigned ==
  \A f \in DOMAIN fills :
     LET tx == Shown(f)
         intact == tx.outputs = fills[f].agreed
     IN  /\ (\A g \in DOMAIN fills : ~Overwrote(g, f)) => intact
         /\ intact => SignaturesOK(tx)
         /\ ~intact => \A i \in DOMAIN tx.inputs : ~VerifyInputSignature(tx, i)

\* I-AL2 and the till's own checks: every bundle of an exported message
\* reveals its fields, and a message whose payment no fill had overwritten
\* when it was exported satisfies the till for ever: the signatures verify,
\* and each agreed output is there as often as it was agreed, though the
\* till would let one output stand for several equal ones.
ExportedSatisfiesTill ==
  \A k \in DOMAIN sent :
     LET m == sent[k]
         agreed == fills[m.of].agreed
     IN  /\ \A i \in DOMAIN m.bundles : m.bundles[i].fields
         /\ (\A g \in 1..m.after : ~Overwrote(g, m.of)) =>
              /\ SignaturesOK(m)
              /\ TemplateSatisfied(agreed, m) /\ Len(m.outputs) = Len(agreed)
              /\ \A out \in ToSet(agreed) :
                   Cardinality({j \in DOMAIN m.outputs : m.outputs[j] = out})
                     = Cardinality({j \in DOMAIN agreed : agreed[j] = out})
=============================================================================
