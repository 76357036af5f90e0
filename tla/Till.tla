-------------------------------- MODULE Till --------------------------------
(***************************************************************************)
(* The merchants' tills (walletbob/walletbob.go): AcceptPayment decides    *)
(* over a payment by asking the header chain, the UTXO set and the alert   *)
(* bus, one after another, while blocks are orphaned, outputs are spent,   *)
(* alerts arrive and other tills decide.                                   *)
(*                                                                         *)
(* A step is one question to one of the three, answered under that         *)
(* component's own lock; no lock spans two questions.  The signatures and  *)
(* the algebra of the bundles are facts of the message (Payment): whatever *)
(* the environment does, they do not change.                               *)
(*                                                                         *)
(* The header chain is the till's view, of a pruned till as well; a till   *)
(* with none at all finds what one with an empty view finds.               *)
(***************************************************************************)
EXTENDS Payment, FiniteSets, SequencesExt

CONSTANTS
  Tills,
  Coins,         \* outputs that payments spend
  Blocks,        \* blocks of coins, and blocks that carry an accumulator root
  BlockOf,       \* the block in which each coin was mined
  Views,         \* the headers a till may have at first
  Wirings,       \* what tills are built with: an alert bus or none, a UTXO
                 \* client that also tells values (ValueOracle) or not
  ValueOf,       \* the value SetOutputValue recorded for each coin
  Pubkeys,       \* the keys alerts may be signed with
  Messages,      \* the decoded payments that reach a till
  Template,      \* the outputs a merchant requested
  Tau,           \* RiskPolicy.Tau
  Window,        \* RiskPolicy.Window
  ValueLimit,    \* 2^64: amounts and their sums are uint64
  NoMessage,     \* the till has had no payment
  NoAnchor,      \* the bundle has no L4 anchor
  MaxClock,      \* bound: clock ticks
  MaxAlerts,     \* bound: alerts recorded
  MaxReorgs,     \* bound: blocks orphaned or restored
  MaxPayments    \* bound: payments handed to one till

TxIns == UNION {Range(m.inputs) : m \in Messages}

ASSUME TillAssumption ==
  /\ NoMessage \notin Messages
  /\ \A m \in Messages : m.inputs \in Seq(TxIns) /\ m.risk \in Nat
  /\ \A in \in TxIns : in.prev \in Coins
  /\ \A c \in Coins : ValueOf[c] \in 0..(ValueLimit - 1)
  /\ Views \subseteq SUBSET Blocks /\ Wirings \subseteq [bus : BOOLEAN, oracle : BOOLEAN]
  /\ Window \in Nat /\ Tau \in Nat /\ ValueLimit \in Nat \ {0}
  /\ MaxClock \in Nat /\ MaxAlerts \in Nat /\ MaxReorgs \in Nat /\ MaxPayments \in Nat

VARIABLES
  onBest,    \* the header chain: the blocks on it
  spent,     \* the UTXO set: the coins spent
  alerts,    \* the alert bus: the verified alerts recorded
  now,       \* the clock
  reorgs,    \* bound
  wired,     \* per till: its wiring
  pc,        \* per till: the question asked next
  msg,       \* per till: the last payment handed to it
  index,     \* per till: the input the question is about
  decision,  \* per till: the Decision
  asked,     \* history, per till: what was known when the payment came
  chains,    \* history, per till: the chain at every moment since then
  payments   \* bound, per till

marketVars == <<onBest, spent, alerts, now, reorgs, wired>>
tillVars == <<pc, msg, index, decision, asked, chains, payments>>
vars == <<marketVars, tillVars>>

NoDecision == [accepted |-> FALSE, reason |-> "", inclusion |-> FALSE,
               unspent |-> FALSE, quiet |-> FALSE]

Init ==
  /\ onBest \in Views /\ spent = {} /\ alerts = {} /\ now = 0 /\ reorgs = 0
  /\ wired \in [Tills -> Wirings]
  /\ pc = [t \in Tills |-> "idle"]
  /\ msg = [t \in Tills |-> NoMessage]
  /\ index = [t \in Tills |-> 1]
  /\ decision = [t \in Tills |-> NoDecision]
  /\ asked = [t \in Tills |-> [spent |-> {}, alerts |-> {}, at |-> 0]]
  /\ chains = [t \in Tills |-> {}]
  /\ payments = [t \in Tills |-> 0]

-----------------------------------------------------------------------------
(***************************************************************************)
(* What the decision reads off the message beside Payment's checks.        *)
(***************************************************************************)
Total(values) == FoldSeq(LAMBDA v, acc : v + acc, 0, values)
Wrapped(values) == FoldSeq(LAMBDA v, acc : (v + acc) % ValueLimit, 0, values)

InputValues(m) == [i \in DOMAIN m.inputs |-> ValueOf[m.inputs[i].prev]]
OutputValues(m) == [i \in DOMAIN m.outputs |-> m.outputs[i].value]

Covered(m) == Wrapped(InputValues(m)) >= Wrapped(OutputValues(m))
ValueOK(t, m) == wired[t].oracle => Covered(m)

\* The owners map of the alert check: per coin the key of the last input
\* that spends it.  (An input without a key fails its signature.)
CoinsOf(m) == {m.inputs[i].prev : i \in DOMAIN m.inputs}
OwnerOf(m, c) ==
  LET last == CHOOSE i \in DOMAIN m.inputs :
                /\ m.inputs[i].prev = c
                /\ \A j \in DOMAIN m.inputs : m.inputs[j].prev = c => j <= i
  IN  m.inputs[last].pubkey

\* The alert that counts against a payment at a time: by the key that spends
\* the coin, newer than the window, which is open at its old end.
Opposes(a, m, time) ==
  /\ a.ts > time - Window
  /\ a.coin \in CoinsOf(m) /\ a.owner = OwnerOf(m, a.coin)

QuietForOwners(m) == ~\E a \in alerts : Opposes(a, m, now)

\* The two ways a bundle may be of a view: its header, the coin's block, is in
\* it; or it has an L4 anchor that commits that header, and whose carrying
\* block's header is in it.
HeaderHeld(m, i, view) == BlockOf[m.inputs[i].prev] \in view
Anchored(m, i, view) ==
  LET a == m.bundles[i].anchor IN a # NoAnchor /\ a.carrier \in view /\ a.binds

-----------------------------------------------------------------------------
(***************************************************************************)
(* AcceptPayment                                                           *)
(***************************************************************************)

\* A payment without inputs leaves nothing to ask about inputs.
FirstQuestion(m) == IF m.inputs = << >> THEN "quiet" ELSE "inclusion"

\* Mutant of AcceptPayment: the decision of the payment before is kept.
AcceptPaymentKeepingDecision(t, m) ==
  /\ pc[t] = "idle" /\ payments[t] < MaxPayments
  /\ Len(m.bundles) = Len(m.inputs)
  /\ pc' = [pc EXCEPT ![t] = FirstQuestion(m)]
  /\ msg' = [msg EXCEPT ![t] = m]
  /\ index' = [index EXCEPT ![t] = 1]
  /\ decision' = [decision EXCEPT ![t].inclusion = TRUE, ![t].unspent = TRUE]
  /\ asked' = [asked EXCEPT ![t] = [spent |-> spent, alerts |-> alerts, at |-> now]]
  /\ chains' = [chains EXCEPT ![t] = {onBest}]
  /\ payments' = [payments EXCEPT ![t] = @ + 1]
  /\ UNCHANGED marketVars

\* A payment of which the bundles are not as many as the inputs is refused
\* with an error and no decision.
RefuseMessage(t, m) ==
  /\ pc[t] = "idle" /\ payments[t] < MaxPayments
  /\ Len(m.bundles) # Len(m.inputs)
  /\ decision' = [decision EXCEPT ![t] = NoDecision]
  /\ msg' = [msg EXCEPT ![t] = m]
  /\ payments' = [payments EXCEPT ![t] = @ + 1]
  /\ UNCHANGED <<marketVars, pc, index, asked, chains>>

AcceptPayment(t, m) ==
  /\ pc[t] = "idle" /\ payments[t] < MaxPayments
  /\ Len(m.bundles) = Len(m.inputs)
  /\ pc' = [pc EXCEPT ![t] = FirstQuestion(m)]
  /\ msg' = [msg EXCEPT ![t] = m]
  /\ index' = [index EXCEPT ![t] = 1]
  /\ decision' = [decision EXCEPT ![t] = [NoDecision EXCEPT !.inclusion = TRUE,
                                                           !.unspent = TRUE]]
  /\ asked' = [asked EXCEPT ![t] = [spent |-> spent, alerts |-> alerts, at |-> now]]
  /\ chains' = [chains EXCEPT ![t] = {onBest}]
  /\ payments' = [payments EXCEPT ![t] = @ + 1]
  /\ UNCHANGED marketVars

\* The same question of the next input, or the next one after the last input.
Advance(t, question, after) ==
  IF index[t] < Len(msg[t].inputs)
  THEN index' = [index EXCEPT ![t] = @ + 1] /\ pc' = [pc EXCEPT ![t] = question]
  ELSE index' = [index EXCEPT ![t] = 1] /\ pc' = [pc EXCEPT ![t] = after]

\* The first bundle that fails ends step 2 and names the reason; the other
\* questions are still asked.
InclusionOK(t) == Advance(t, "inclusion", "unspent") /\ UNCHANGED decision
InclusionFails(t) ==
  /\ decision' = [decision EXCEPT ![t].inclusion = FALSE, ![t].reason = "inclusion"]
  /\ index' = [index EXCEPT ![t] = 1]
  /\ pc' = [pc EXCEPT ![t] = "unspent"]

\* Step 2, one bundle against the header chain: bundle.Verify asks for the
\* bundle's header, and if it is not there, for the carrying one.
CheckInclusion(t) ==
  /\ pc[t] = "inclusion"
  /\ LET m == msg[t]
         i == index[t]
     IN  IF BundleMatches(m, i) /\ HeaderHeld(m, i, onBest) THEN InclusionOK(t)
         ELSE IF BundleMatches(m, i) /\ m.bundles[i].anchor # NoAnchor
         THEN pc' = [pc EXCEPT ![t] = "anchor"] /\ UNCHANGED <<index, decision>>
         ELSE InclusionFails(t)
  /\ UNCHANGED <<marketVars, msg, asked, chains, payments>>

CheckAnchor(t) ==
  /\ pc[t] = "anchor"
  /\ IF Anchored(msg[t], index[t], onBest) THEN InclusionOK(t) ELSE InclusionFails(t)
  /\ UNCHANGED <<marketVars, msg, asked, chains, payments>>

\* Mutant of CheckUnspent: the last answer is the one that counts.
CheckUnspentLastOnly(t) ==
  /\ pc[t] = "unspent"
  /\ decision' = [decision EXCEPT ![t].unspent = msg[t].inputs[index[t]].prev \notin spent]
  /\ Advance(t, "unspent", "quiet")
  /\ UNCHANGED <<marketVars, msg, asked, chains, payments>>

\* Step 3, one input against the UTXO set.
CheckUnspent(t) ==
  /\ pc[t] = "unspent"
  /\ decision' = [decision EXCEPT ![t].unspent =
                    @ /\ msg[t].inputs[index[t]].prev \notin spent]
  /\ Advance(t, "unspent", "quiet")
  /\ UNCHANGED <<marketVars, msg, asked, chains, payments>>

\* Step 4, all inputs at once against the alert bus, if there is one.
CheckQuiet(t) ==
  /\ pc[t] = "quiet"
  /\ decision' = [decision EXCEPT ![t].quiet = wired[t].bus => QuietForOwners(msg[t])]
  /\ pc' = [pc EXCEPT ![t] = "decide"]
  /\ UNCHANGED <<marketVars, msg, index, asked, chains, payments>>

\* An error of the UTXO client, in step 3 or when it is asked for the value of
\* an input, is returned at once with a decision that does not accept.
OracleFails(t) ==
  /\ pc[t] = "unspent" \/ (pc[t] = "decide" /\ wired[t].oracle /\ msg[t].inputs # << >>)
  /\ pc' = [pc EXCEPT ![t] = "idle"]
  /\ index' = [index EXCEPT ![t] = 1]
  /\ UNCHANGED <<marketVars, msg, decision, asked, chains, payments>>

\* RiskPolicy.Decide
PolicyDecides(m, d) == d.inclusion /\ d.unspent /\ d.quiet /\ m.risk <= Tau

Accepts(t, m, d) ==
  SignaturesOK(m) /\ TemplateSatisfied(Template, m) /\ ValueOK(t, m) /\ PolicyDecides(m, d)

\* Mutant of Reason: the reason that inclusion gave is forgotten.
ReasonForgetful(t, m, d) ==
  IF Accepts(t, m, d) THEN "accepted"
  ELSE IF ~SignaturesOK(m) THEN "signature"
  ELSE IF ~TemplateSatisfied(Template, m) THEN "template"
  ELSE IF ~ValueOK(t, m) THEN "value:underfunded"
  ELSE IF ~d.unspent THEN "double-spend:utxo-spent"
  ELSE IF ~d.quiet THEN "double-spend:alert"
  ELSE "risk-policy:value-exceeds-tau"

\* A failed inclusion keeps its reason; else the first signal that is false.
Reason(t, m, d) ==
  IF Accepts(t, m, d) THEN "accepted"
  ELSE IF d.reason # "" THEN d.reason
  ELSE IF ~SignaturesOK(m) THEN "signature"
  ELSE IF ~TemplateSatisfied(Template, m) THEN "template"
  ELSE IF ~ValueOK(t, m) THEN "value:underfunded"
  ELSE IF ~d.unspent THEN "double-spend:utxo-spent"
  ELSE IF ~d.quiet THEN "double-spend:alert"
  ELSE "risk-policy:value-exceeds-tau"

\* Steps 5 and 6, over the message and the answers gathered.
Decide(t) ==
  /\ pc[t] = "decide"
  /\ decision' = [decision EXCEPT ![t].accepted = Accepts(t, msg[t], decision[t]),
                                  ![t].reason = Reason(t, msg[t], decision[t])]
  /\ pc' = [pc EXCEPT ![t] = "idle"]
  /\ UNCHANGED <<marketVars, msg, index, asked, chains, payments>>

\* Broadcast of an accepted payment; the network takes it and its coins are
\* spent from then on.
Broadcast(t) ==
  /\ pc[t] = "idle" /\ decision[t].accepted
  /\ spent' = spent \cup CoinsOf(msg[t])
  /\ UNCHANGED <<onBest, alerts, now, reorgs, wired, tillVars>>

TillStep(t) ==
  \/ \E m \in Messages : RefuseMessage(t, m) \/ AcceptPayment(t, m)
  \/ CheckInclusion(t) \/ CheckAnchor(t) \/ CheckUnspent(t) \/ CheckQuiet(t) \/ OracleFails(t)
  \/ Decide(t) \/ Broadcast(t)

-----------------------------------------------------------------------------
(***************************************************************************)
(* What the rest of the market does meanwhile.                             *)
(***************************************************************************)
MarkSpent(c) ==
  /\ c \notin spent
  /\ spent' = spent \cup {c}
  /\ UNCHANGED <<onBest, alerts, now, reorgs, wired, tillVars>>

RecordAlert(c, key) ==
  /\ Cardinality(alerts) < MaxAlerts
  /\ alerts' = alerts \cup {[coin |-> c, owner |-> key, ts |-> now]}
  /\ UNCHANGED <<onBest, spent, now, reorgs, wired, tillVars>>

Reorganise(b) ==
  /\ reorgs < MaxReorgs
  /\ onBest' = IF b \in onBest THEN onBest \ {b} ELSE onBest \cup {b}
  /\ chains' = [t \in Tills |-> IF pc[t] = "idle" THEN chains[t]
                                ELSE chains[t] \cup {onBest'}]
  /\ reorgs' = reorgs + 1
  /\ UNCHANGED <<spent, alerts, now, wired, pc, msg, index, decision, asked, payments>>

Tick ==
  /\ now < MaxClock
  /\ now' = now + 1
  /\ UNCHANGED <<onBest, spent, alerts, reorgs, wired, tillVars>>

Next ==
  \/ \E t \in Tills : TillStep(t)
  \/ \E c \in Coins : MarkSpent(c) \/ \E key \in Pubkeys : RecordAlert(c, key)
  \/ \E b \in Blocks : Reorganise(b)
  \/ Tick

Spec == Init /\ [][Next]_vars

-----------------------------------------------------------------------------
(***************************************************************************)
(* Properties                                                              *)
(***************************************************************************)

TypeOK ==
  /\ onBest \subseteq Blocks /\ spent \subseteq Coins /\ now \in 0..MaxClock
  /\ alerts \subseteq [coin : Coins, owner : Pubkeys, ts : 0..now]
  /\ \A t \in Tills :
       /\ pc[t] \in {"idle", "inclusion", "anchor", "unspent", "quiet", "decide"}
       /\ msg[t] \in Messages \cup {NoMessage}
       /\ pc[t] \in {"inclusion", "anchor", "unspent"} => index[t] \in DOMAIN msg[t].inputs
       /\ decision[t].accepted => pc[t] = "idle"

\* I-BB1, AcceptPayment: nothing that was known against a payment when it
\* came is lost on the way to the decision.  An accepted payment spends no
\* coin that was spent by then, at this till's or another's expense; no
\* alert by its spender that is still within the window was on the bus, if the
\* till has one; and of each of its coins the block, or the carrier of an anchor
\* that commits its header, was on the chain at some moment of the call.
AcceptedWasUnopposed ==
  [][\A t \in Tills : (Decide(t) /\ decision'[t].accepted) =>
       /\ wired[t].bus => ~\E a \in asked[t].alerts : Opposes(a, msg[t], now)
       /\ \A i \in DOMAIN msg[t].inputs :
            /\ msg[t].inputs[i].prev \notin asked[t].spent
            /\ BundleMatches(msg[t], i)
            /\ \E chain \in chains[t] :
                 HeaderHeld(msg[t], i, chain) \/ Anchored(msg[t], i, chain)]_vars

\* A payment against which nothing stands is never refused, and a refusal
\* names something that did stand against it: the reason holds of the
\* message, or was so at some moment of the call.
RefusedForCause ==
  [][\A t \in Tills :
       LET m == msg[t]
           reason == decision'[t].reason
       IN  (Decide(t) /\ ~decision'[t].accepted) =>
           CASE reason = "inclusion" ->
                  \E i \in DOMAIN m.inputs : ~BundleMatches(m, i) \/
                    \E early, late \in chains[t] :
                      ~HeaderHeld(m, i, early) /\ ~Anchored(m, i, late)
             [] reason = "signature" -> ~SignaturesOK(m)
             [] reason = "template" -> ~TemplateSatisfied(Template, m)
             [] reason = "value:underfunded" -> wired[t].oracle /\ ~Covered(m)
             [] reason = "double-spend:utxo-spent" ->
                  \E i \in DOMAIN m.inputs : m.inputs[i].prev \in spent
             [] reason = "double-spend:alert" ->
                  wired[t].bus /\ \E a \in alerts : Opposes(a, m, asked[t].at)
             [] reason = "risk-policy:value-exceeds-tau" -> m.risk > Tau
             [] OTHER -> FALSE]_vars

\* "Value conservation (standard tx validation): sum(inputs) >= sum(outputs)":
\* no payment that a till with a value oracle accepts creates more value than
\* the coins it spends have.
ValueConserved ==
  \A t \in Tills : decision[t].accepted /\ wired[t].oracle =>
    LET m == msg[t]
    IN  Total(InputValues(m)) >= Total(OutputValues(m))
=============================================================================
