----------------------------- MODULE TillProofs -----------------------------
(***************************************************************************)
(* Safety of the tills' decisions, for any number of tills, coins, keys    *)
(* and payments, any policy and any bounds.                                *)
(***************************************************************************)
EXTENDS Till, TLAPS

Reasons == {"", "inclusion", "accepted", "signature", "template", "value:underfunded",
            "double-spend:utxo-spent", "double-spend:alert", "risk-policy:value-exceeds-tau"}

Decisions == [accepted : BOOLEAN, reason : Reasons, inclusion : BOOLEAN,
              unspent : BOOLEAN, quiet : BOOLEAN]

Alerts == [coin : Coins, owner : Pubkeys, ts : Nat]

Questions == {"idle", "inclusion", "anchor", "unspent", "quiet", "decide"}

\* The values the tills' functions take.
Shape ==
  /\ pc \in [Tills -> Questions]
  /\ msg \in [Tills -> Messages \cup {NoMessage}]
  /\ index \in [Tills -> Nat]
  /\ decision \in [Tills -> Decisions]
  /\ asked \in [Tills -> [spent : SUBSET Coins, alerts : SUBSET Alerts, at : Nat]]
  /\ chains \in [Tills -> SUBSET SUBSET Blocks]

\* A call has a message; only the questions asked input by input have an
\* index beyond the first.
CallInv(t) ==
  /\ pc[t] # "idle" => msg[t] \in Messages
  /\ decision[t].accepted => msg[t] \in Messages
  /\ pc[t] \notin {"inclusion", "anchor", "unspent"} => index[t] = 1

TypeInv == TypeOK /\ Shape /\ \A t \in Tills : CallInv(t)

\* What a message's inputs are.
LEMMA InputsOfMessages ==
  ASSUME NEW m \in Messages
  PROVE  /\ Len(m.inputs) \in Nat
         /\ m.inputs # << >> => 1 \in DOMAIN m.inputs
         /\ DOMAIN m.inputs = 1..Len(m.inputs)
         /\ \A i \in DOMAIN m.inputs : m.inputs[i].prev \in Coins
         /\ CoinsOf(m) \subseteq Coins
<1>1. m.inputs \in Seq(TxIns)
  BY TillAssumption
<1>2. /\ Len(m.inputs) \in Nat /\ DOMAIN m.inputs = 1..Len(m.inputs)
      /\ m.inputs # << >> => 1 \in DOMAIN m.inputs
  BY <1>1
<1>3. \A i \in DOMAIN m.inputs : m.inputs[i] \in TxIns
  BY <1>1, <1>2
<1>4. \A i \in DOMAIN m.inputs : m.inputs[i].prev \in Coins
  BY <1>3, TillAssumption
<1> QED BY <1>2, <1>4 DEF CoinsOf

\* The decision a call starts from.
Begun == [NoDecision EXCEPT !.inclusion = TRUE, !.unspent = TRUE]

LEMMA FirstDecision ==
  /\ NoDecision \in Decisions /\ ~NoDecision.accepted /\ NoDecision.reason = ""
  /\ Begun \in Decisions /\ ~Begun.accepted /\ Begun.reason = "" /\ Begun.inclusion /\ Begun.unspent
<1>1. NoDecision \in Decisions /\ ~NoDecision.accepted /\ NoDecision.reason = ""
  BY DEF NoDecision, Decisions, Reasons
<1> QED BY <1>1, Zenon DEF Begun, Decisions

\* What each question leaves of the decisions: one field of one till is new.
Untouched(t) ==
  /\ decision' \in [Tills -> Decisions]
  /\ \A u \in Tills \ {t} : decision'[u] = decision[u]

\* A till's decision is replaced, and no other's.
LEMMA DecisionSet ==
  ASSUME Shape, NEW t \in Tills, NEW e \in Decisions, decision' = [decision EXCEPT ![t] = e]
  PROVE  Untouched(t) /\ decision'[t] = e
<1>1. PICK D : D = Decisions
  OBVIOUS
<1>2. decision \in [Tills -> D] /\ e \in D
  BY <1>1 DEF Shape
<1>3. /\ decision' \in [Tills -> D] /\ decision'[t] = e
      /\ \A u \in Tills \ {t} : decision'[u] = decision[u]
  BY <1>2
<1> QED BY <1>1, <1>3 DEF Untouched

\* A decision with some of its fields replaced is a decision.
LEMMA FieldsSet ==
  ASSUME NEW d \in Decisions, NEW a \in BOOLEAN, NEW r \in Reasons,
         NEW i \in BOOLEAN, NEW u \in BOOLEAN, NEW q \in BOOLEAN
  PROVE  [accepted |-> a, reason |-> r, inclusion |-> i, unspent |-> u, quiet |-> q] \in Decisions
BY DEF Decisions

\* A decision is its five fields.
LEMMA FieldsOfDecision ==
  ASSUME NEW d \in Decisions
  PROVE  /\ d = [accepted |-> d.accepted, reason |-> d.reason, inclusion |-> d.inclusion,
                 unspent |-> d.unspent, quiet |-> d.quiet]
         /\ d.accepted \in BOOLEAN /\ d.reason \in Reasons /\ d.inclusion \in BOOLEAN
         /\ d.unspent \in BOOLEAN /\ d.quiet \in BOOLEAN
BY DEF Decisions

LEMMA UnspentAnswered ==
  ASSUME Shape, NEW t \in Tills, CheckUnspent(t)
  PROVE  /\ Untouched(t)
         /\ decision'[t].accepted = decision[t].accepted
         /\ decision'[t].reason = decision[t].reason
         /\ decision'[t].inclusion = decision[t].inclusion
         /\ decision'[t].unspent <=>
              (decision[t].unspent /\ msg[t].inputs[index[t]].prev \notin spent)
<1>1. PICK v \in BOOLEAN : /\ decision' = [decision EXCEPT ![t].unspent = v]
                           /\ v <=> (decision[t].unspent
                                        /\ msg[t].inputs[index[t]].prev \notin spent)
  <2> DEFINE w == decision[t].unspent /\ msg[t].inputs[index[t]].prev \notin spent
  <2>1. w \in BOOLEAN /\ decision' = [decision EXCEPT ![t].unspent = w]
    BY Zenon DEF CheckUnspent
  <2> QED BY <2>1, Zenon
<1>2. PICK d : d = decision[t]
  OBVIOUS
<1>3. d \in Decisions
  BY <1>2 DEF Shape
<1>4. PICK e : e = [accepted |-> d.accepted, reason |-> d.reason, inclusion |-> d.inclusion,
                 unspent |-> v, quiet |-> d.quiet]
  OBVIOUS
<1>5. e \in Decisions
  BY <1>1, <1>3, <1>4, FieldsSet, FieldsOfDecision
<1>6. [d EXCEPT !.unspent = v] = e
  BY <1>3, <1>4, FieldsOfDecision
<1>7. decision' = [decision EXCEPT ![t] = e]
  BY <1>1, <1>2, <1>6
<1>8. Untouched(t) /\ decision'[t] = e
  BY <1>5, <1>7, DecisionSet
<1> QED BY <1>1, <1>2, <1>4, <1>8

LEMMA QuietAnswered ==
  ASSUME Shape, NEW t \in Tills, CheckQuiet(t)
  PROVE  /\ Untouched(t)
         /\ decision'[t].accepted = decision[t].accepted
         /\ decision'[t].reason = decision[t].reason
         /\ decision'[t].inclusion = decision[t].inclusion
         /\ decision'[t].unspent = decision[t].unspent
         /\ decision'[t].quiet <=> (wired[t].bus => QuietForOwners(msg[t]))
<1>1. PICK v \in BOOLEAN : /\ decision' = [decision EXCEPT ![t].quiet = v]
                           /\ v <=> (wired[t].bus => QuietForOwners(msg[t]))
  <2> DEFINE w == wired[t].bus => QuietForOwners(msg[t])
  <2>1. w \in BOOLEAN /\ decision' = [decision EXCEPT ![t].quiet = w]
    BY Zenon DEF CheckQuiet
  <2> QED BY <2>1, Zenon
<1>2. PICK d : d = decision[t]
  OBVIOUS
<1>3. d \in Decisions
  BY <1>2 DEF Shape
<1>4. PICK e : e = [accepted |-> d.accepted, reason |-> d.reason, inclusion |-> d.inclusion,
                 unspent |-> d.unspent, quiet |-> v]
  OBVIOUS
<1>5. e \in Decisions
  BY <1>1, <1>3, <1>4, FieldsSet, FieldsOfDecision
<1>6. [d EXCEPT !.quiet = v] = e
  BY <1>3, <1>4, FieldsOfDecision
<1>7. decision' = [decision EXCEPT ![t] = e]
  BY <1>1, <1>2, <1>6
<1>8. Untouched(t) /\ decision'[t] = e
  BY <1>5, <1>7, DecisionSet
<1> QED BY <1>1, <1>2, <1>4, <1>8

\* What each answer about a bundle says, and where the till goes on.
Passes(t) ==
  /\ Advance(t, "inclusion", "unspent")
  /\ \/ /\ pc[t] = "inclusion"
        /\ BundleMatches(msg[t], index[t]) /\ HeaderHeld(msg[t], index[t], onBest)
     \/ pc[t] = "anchor" /\ Anchored(msg[t], index[t], onBest)

AsksOn(t) ==
  /\ pc[t] = "inclusion"
  /\ BundleMatches(msg[t], index[t]) /\ ~HeaderHeld(msg[t], index[t], onBest)
  /\ pc' = [pc EXCEPT ![t] = "anchor"] /\ index' = index

Fails(t) ==
  /\ ~Anchored(msg[t], index[t], onBest) \/ ~BundleMatches(msg[t], index[t])
  /\ \/ pc[t] = "anchor"
     \/ ~BundleMatches(msg[t], index[t]) \/ ~HeaderHeld(msg[t], index[t], onBest)
  /\ index' = [index EXCEPT ![t] = 1] /\ pc' = [pc EXCEPT ![t] = "unspent"]

LEMMA InclusionFailed ==
  ASSUME Shape, NEW t \in Tills, InclusionFails(t)
  PROVE  /\ Untouched(t)
         /\ decision'[t].accepted = decision[t].accepted
         /\ decision'[t].unspent = decision[t].unspent
         /\ ~decision'[t].inclusion /\ decision'[t].reason = "inclusion"
<1>1. decision' = [decision EXCEPT ![t].inclusion = FALSE, ![t].reason = "inclusion"]
  BY DEF InclusionFails
<1>2. PICK v \in BOOLEAN, r \in Reasons : v = FALSE /\ r = "inclusion"
  BY DEF Reasons
<1>3. PICK d : d = decision[t]
  OBVIOUS
<1>4. d \in Decisions
  BY <1>3 DEF Shape
<1>5. PICK e : e = [accepted |-> d.accepted, reason |-> r, inclusion |-> v,
                 unspent |-> d.unspent, quiet |-> d.quiet]
  OBVIOUS
<1>6. e \in Decisions
  BY <1>4, <1>5, FieldsSet, FieldsOfDecision
<1>7. [d EXCEPT !.inclusion = v, !.reason = r] = e
  <2>1. PICK f : f = [accepted |-> d.accepted, reason |-> d.reason, inclusion |-> v,
                     unspent |-> d.unspent, quiet |-> d.quiet]
    OBVIOUS
  <2>2. [d EXCEPT !.inclusion = v] = f
    BY <1>4, <2>1, FieldsOfDecision
  <2>3. [f EXCEPT !.reason = r] = e
    BY <1>5, <2>1
  <2> QED BY <2>2, <2>3
<1>8. decision' = [decision EXCEPT ![t] = e]
  <2>1. decision' = [decision EXCEPT ![t].inclusion = v, ![t].reason = r]
    BY <1>1, <1>2
  <2> QED BY <1>3, <1>7, <2>1
<1>9. Untouched(t) /\ decision'[t] = e
  BY <1>6, <1>8, DecisionSet
<1>10. /\ decision'[t].accepted = decision[t].accepted
       /\ decision'[t].unspent = decision[t].unspent
       /\ decision'[t].inclusion = v /\ decision'[t].reason = r
  BY <1>3, <1>5, <1>9
<1> QED BY <1>2, <1>9, <1>10

LEMMA InclusionAnswered ==
  ASSUME Shape, NEW t \in Tills, CheckInclusion(t) \/ CheckAnchor(t)
  PROVE  /\ Untouched(t)
         /\ decision'[t].accepted = decision[t].accepted
         /\ decision'[t].unspent = decision[t].unspent
         /\ \/ (Passes(t) \/ AsksOn(t)) /\ decision'[t] = decision[t]
            \/ Fails(t) /\ ~decision'[t].inclusion /\ decision'[t].reason = "inclusion"
<1>1. CASE (Passes(t) \/ AsksOn(t)) /\ decision' = decision
  BY <1>1 DEF Shape, Untouched
<1>2. CASE Fails(t) /\ InclusionFails(t)
  BY <1>2, InclusionFailed
<1>3. \/ (Passes(t) \/ AsksOn(t)) /\ decision' = decision
      \/ Fails(t) /\ InclusionFails(t)
  <2>1. CASE CheckInclusion(t)
    BY <2>1 DEF CheckInclusion, Passes, AsksOn, Fails, InclusionOK, InclusionFails, Anchored
  <2>2. CASE CheckAnchor(t)
    BY <2>2 DEF CheckAnchor, Passes, Fails, InclusionOK, InclusionFails
  <2> QED BY <2>1, <2>2
<1> QED BY <1>1, <1>2, <1>3

LEMMA DecisionMade ==
  ASSUME Shape, NEW t \in Tills, Decide(t)
  PROVE  /\ Untouched(t)
         /\ decision'[t].accepted <=> Accepts(t, msg[t], decision[t])
         /\ decision'[t].reason = Reason(t, msg[t], decision[t])
<1>1. PICK v \in BOOLEAN, r \in Reasons :
        /\ decision' = [decision EXCEPT ![t].accepted = v, ![t].reason = r]
        /\ v <=> Accepts(t, msg[t], decision[t])
        /\ r = Reason(t, msg[t], decision[t])
  <2>1. Accepts(t, msg[t], decision[t]) \in BOOLEAN
    BY DEF Accepts
  <2>2. Reason(t, msg[t], decision[t]) \in Reasons
    BY Zenon DEF Reason, Reasons, Shape, Decisions
  <2> QED BY <2>1, <2>2, Zenon DEF Decide
<1>2. PICK d : d = decision[t]
  OBVIOUS
<1>3. d \in Decisions
  BY <1>2 DEF Shape
<1>4. PICK e : e = [accepted |-> v, reason |-> r, inclusion |-> d.inclusion,
                 unspent |-> d.unspent, quiet |-> d.quiet]
  OBVIOUS
<1>5. e \in Decisions
  BY <1>1, <1>3, <1>4, FieldsSet, FieldsOfDecision
<1>6. [d EXCEPT !.accepted = v, !.reason = r] = e
  <2>1. PICK f : f = [accepted |-> v, reason |-> d.reason, inclusion |-> d.inclusion,
                     unspent |-> d.unspent, quiet |-> d.quiet]
    OBVIOUS
  <2>2. [d EXCEPT !.accepted = v] = f
    BY <1>3, <2>1, FieldsOfDecision
  <2>3. [f EXCEPT !.reason = r] = e
    BY <1>4, <2>1
  <2> QED BY <2>2, <2>3
<1>7. decision' = [decision EXCEPT ![t] = e]
  BY <1>1, <1>2, <1>6
<1>8. Untouched(t) /\ decision'[t] = e
  BY <1>5, <1>7, DecisionSet
<1> QED BY <1>1, <1>2, <1>4, <1>8

LEMMA InitType == Init => TypeInv
<1> SUFFICES ASSUME Init PROVE TypeInv
  OBVIOUS
<1>1. TypeOK
  <2>1. \A t \in Tills : ~decision[t].accepted /\ pc[t] = "idle" /\ msg[t] = NoMessage
    BY FirstDecision, Zenon DEF Init
  <2> QED BY <2>1, TillAssumption DEF Init, TypeOK
<1>2. Shape
  <2>1. "idle" \in Questions
    BY DEF Questions
  <2> QED BY <2>1, FirstDecision, Zenon DEF Init, Shape
<1>3. \A t \in Tills : CallInv(t)
  BY FirstDecision, Zenon DEF Init, CallInv
<1> QED BY <1>1, <1>2, <1>3 DEF TypeInv

\* Advance moves on to the next input or to the first of the next question.
LEMMA AdvanceType ==
  ASSUME TypeInv, NEW t \in Tills, pc[t] \in {"inclusion", "anchor", "unspent"},
         NEW after \in {"unspent", "quiet"},
         NEW question \in {"inclusion", "unspent"}, Advance(t, question, after)
  PROVE  /\ index' \in [Tills -> Nat]
         /\ pc' \in [Tills -> Questions]
         /\ \A u \in Tills : u # t => pc'[u] = pc[u] /\ index'[u] = index[u]
         /\ index'[t] \in DOMAIN msg[t].inputs
         /\ \/ pc'[t] = question /\ index'[t] = index[t] + 1 /\ index[t] < Len(msg[t].inputs)
            \/ pc'[t] = after /\ index'[t] = 1 /\ index[t] = Len(msg[t].inputs)
<1>1. /\ index \in [Tills -> Nat]
      /\ pc \in [Tills -> Questions]
      /\ msg[t] \in Messages /\ index[t] \in DOMAIN msg[t].inputs
  BY TillAssumption DEF TypeInv, TypeOK, Shape, CallInv
<1>2. Len(msg[t].inputs) \in Nat \ {0} /\ DOMAIN msg[t].inputs = 1..Len(msg[t].inputs)
  BY <1>1, InputsOfMessages
<1>5. question \in Questions /\ after \in Questions
  BY DEF Questions
<1>3. CASE index[t] < Len(msg[t].inputs)
  <2>1. index' = [index EXCEPT ![t] = @ + 1] /\ pc' = [pc EXCEPT ![t] = question]
    BY <1>3 DEF Advance
  <2> QED BY <1>1, <1>2, <1>3, <1>5, <2>1
<1>4. CASE ~(index[t] < Len(msg[t].inputs))
  <2>1. index' = [index EXCEPT ![t] = 1] /\ pc' = [pc EXCEPT ![t] = after]
    BY <1>4 DEF Advance
  <2>2. index[t] = Len(msg[t].inputs)
    BY <1>1, <1>2, <1>4
  <2> QED BY <1>1, <1>2, <1>5, <2>1, <2>2
<1> QED BY <1>3, <1>4

LEMMA NextType == TypeInv /\ [Next]_vars => TypeInv'
<1> SUFFICES ASSUME TypeInv, [Next]_vars PROVE TypeInv'
  OBVIOUS
<1> USE TillAssumption
<1>0. /\ onBest \subseteq Blocks /\ spent \subseteq Coins /\ now \in 0..MaxClock
      /\ alerts \subseteq [coin : Coins, owner : Pubkeys, ts : 0..now] /\ Shape
      /\ \A t \in Tills : CallInv(t)
  BY DEF TypeInv, TypeOK
<1> USE DEF TypeInv, TypeOK, Shape, CallInv, marketVars
<1>1. ASSUME NEW t \in Tills, NEW m \in Messages, RefuseMessage(t, m) PROVE TypeInv'
  BY <1>1, FirstDecision DEF RefuseMessage
<1>2. ASSUME NEW t \in Tills, NEW m \in Messages, AcceptPayment(t, m) PROVE TypeInv'
  <2>1. \/ pc' = [pc EXCEPT ![t] = "quiet"]
        \/ pc' = [pc EXCEPT ![t] = "inclusion"] /\ 1 \in DOMAIN m.inputs
    BY <1>2, InputsOfMessages DEF AcceptPayment, FirstQuestion
  <2> DEFINE d == Begun
             k == [spent |-> spent, alerts |-> alerts, at |-> now]
  <2>2. d \in Decisions /\ ~d.accepted
    BY FirstDecision, Zenon
  <2>3. k \in [spent : SUBSET Coins, alerts : SUBSET Alerts, at : Nat]
    BY DEF Alerts
  <2>4. /\ decision' = [decision EXCEPT ![t] = d]
        /\ asked' = [asked EXCEPT ![t] = k]
    BY <1>2 DEF AcceptPayment, Begun
  <2> HIDE DEF d, k
  <2> DEFINE Of(u) == /\ pc[u] \in Questions
                      /\ msg[u] \in Messages \cup {NoMessage}
                      /\ pc[u] \in {"inclusion", "anchor", "unspent"} =>
                           index[u] \in DOMAIN msg[u].inputs
                      /\ decision[u].accepted => pc[u] = "idle"
  <2>5. TypeOK'
    <3>1. Of(t)'
      BY <1>2, <2>1, <2>2, <2>4 DEF AcceptPayment, Questions
    <3>2. ASSUME NEW u \in Tills, u # t PROVE Of(u)'
      <4>1. pc'[u] = pc[u] /\ msg'[u] = msg[u] /\ index'[u] = index[u] /\ decision'[u] = decision[u]
        BY <1>2, <2>4, <3>2 DEF AcceptPayment
      <4>2. Of(u)
        BY DEF Questions
      <4> QED BY <4>1, <4>2
    <3>3. UNCHANGED marketVars
      BY <1>2 DEF AcceptPayment
    <3> QED BY <3>1, <3>2, <3>3 DEF Questions
  <2>6. Shape'
    <3>1. decision' \in [Tills -> Decisions]
      BY <2>2, <2>4
    <3>2. asked' \in [Tills -> [spent : SUBSET Coins, alerts : SUBSET Alerts, at : Nat]]
      BY <2>3, <2>4
    <3>3. /\ pc' \in [Tills -> Questions]
          /\ msg' \in [Tills -> Messages \cup {NoMessage}]
          /\ index' \in [Tills -> Nat]
          /\ chains' \in [Tills -> SUBSET SUBSET Blocks]
      BY <1>2, <2>1 DEF AcceptPayment, Questions
    <3> QED BY <3>1, <3>2, <3>3
  <2>7. \A u \in Tills : CallInv(u)'
    BY <1>2, <2>1, <2>2, <2>4 DEF AcceptPayment
  <2> QED BY <2>5, <2>6, <2>7
<1>3. ASSUME NEW t \in Tills, CheckInclusion(t) \/ CheckAnchor(t) PROVE TypeInv'
  <2>1. pc[t] \in {"inclusion", "anchor"} /\ msg[t] \in Messages /\ ~decision[t].accepted
        /\ UNCHANGED <<marketVars, msg, asked, chains, payments>>
    BY <1>3 DEF CheckInclusion, CheckAnchor
  <2>2. Untouched(t) /\ ~decision'[t].accepted
    BY <1>3, <2>1, InclusionAnswered
  <2>3. /\ index[t] \in DOMAIN msg[t].inputs /\ DOMAIN msg[t].inputs = 1..Len(msg[t].inputs)
        /\ Len(msg[t].inputs) \in Nat /\ 1 \in DOMAIN msg[t].inputs
    BY <2>1, InputsOfMessages
  <2>4. /\ index' \in [Tills -> Nat] /\ pc' \in [Tills -> Questions]
        /\ \A u \in Tills : u # t => pc'[u] = pc[u] /\ index'[u] = index[u]
        /\ index'[t] \in DOMAIN msg[t].inputs
        /\ pc'[t] \in {"inclusion", "anchor", "unspent"}
    <3>1. CASE Passes(t)
      BY <2>1, <3>1, AdvanceType DEF Passes
    <3>2. CASE AsksOn(t)
      BY <2>1, <2>3, <3>2 DEF AsksOn, Questions
    <3>3. CASE Fails(t)
      BY <2>1, <2>3, <3>3 DEF Fails, Questions
    <3> QED BY <1>3, <3>1, <3>2, <3>3, InclusionAnswered
  <2>5. TypeOK'
    BY <2>1, <2>2, <2>4 DEF Untouched, Questions
  <2>6. Shape'
    BY <2>1, <2>2, <2>4 DEF Untouched
  <2>7. \A u \in Tills : CallInv(u)'
    BY <2>1, <2>2, <2>4 DEF Untouched
  <2> QED BY <2>5, <2>6, <2>7
<1>4. ASSUME NEW t \in Tills, CheckUnspent(t) PROVE TypeInv'
  <2>1. pc[t] = "unspent" /\ msg[t] \in Messages /\ ~decision[t].accepted
        /\ UNCHANGED <<marketVars, msg, asked, chains, payments>> /\ Advance(t, "unspent", "quiet")
    BY <1>4 DEF CheckUnspent
  <2>2. Untouched(t) /\ ~decision'[t].accepted
    BY <1>4, <2>1, UnspentAnswered
  <2>3. /\ index' \in [Tills -> Nat]
        /\ pc' \in [Tills -> Questions]
        /\ \A u \in Tills : u # t => pc'[u] = pc[u] /\ index'[u] = index[u]
        /\ index'[t] \in DOMAIN msg[t].inputs
        /\ pc'[t] = "unspent" \/ (pc'[t] = "quiet" /\ index'[t] = 1)
    BY <2>1, AdvanceType
  <2> QED BY <2>1, <2>2, <2>3 DEF Untouched, Questions
<1>5. ASSUME NEW t \in Tills, CheckQuiet(t) PROVE TypeInv'
  <2>1. pc[t] = "quiet" /\ msg[t] \in Messages /\ ~decision[t].accepted
        /\ UNCHANGED <<marketVars, msg, index, asked, chains, payments>>
        /\ pc' = [pc EXCEPT ![t] = "decide"]
    BY <1>5 DEF CheckQuiet
  <2>2. Untouched(t) /\ ~decision'[t].accepted
    BY <1>5, <2>1, QuietAnswered
  <2> QED BY <2>1, <2>2 DEF Untouched, Questions
<1>6. ASSUME NEW t \in Tills, OracleFails(t) PROVE TypeInv'
  BY <1>6 DEF OracleFails, Questions
<1>7. ASSUME NEW t \in Tills, Decide(t) PROVE TypeInv'
  <2>1. pc[t] = "decide" /\ msg[t] \in Messages /\ index[t] = 1
        /\ UNCHANGED <<marketVars, msg, index, asked, chains, payments>>
        /\ pc' = [pc EXCEPT ![t] = "idle"]
    BY <1>7 DEF Decide
  <2>2. Untouched(t)
    BY <1>7, DecisionMade
  <2> QED BY <2>1, <2>2 DEF Untouched, Questions
<1>8. ASSUME NEW t \in Tills, Broadcast(t) PROVE TypeInv'
  <2>1. CoinsOf(msg[t]) \subseteq Coins
    BY <1>8, InputsOfMessages DEF Broadcast
  <2> QED BY <1>8, <2>1 DEF Broadcast, tillVars
<1>9. CASE Tick \/ (\E c \in Coins : MarkSpent(c)) \/ UNCHANGED vars
  BY <1>9 DEF Tick, MarkSpent, vars, tillVars
<1>10. ASSUME NEW c \in Coins, NEW key \in Pubkeys, RecordAlert(c, key) PROVE TypeInv'
  BY <1>10 DEF RecordAlert, tillVars
<1>11. ASSUME NEW b \in Blocks, Reorganise(b) PROVE TypeInv'
  BY <1>11 DEF Reorganise
<1> QED
  BY <1>1, <1>2, <1>3, <1>4, <1>5, <1>6, <1>7, <1>8, <1>9, <1>10, <1>11 DEF Next, TillStep

\* All values keep their type, and a decision that accepts is a finished one.
THEOREM TypeCorrect == Spec => []TypeOK
<1>1. TypeInv => TypeOK
  BY DEF TypeInv
<1> QED BY InitType, NextType, <1>1, PTL DEF Spec

-----------------------------------------------------------------------------
(***************************************************************************)
(* What the answers so far mean: the inductive invariant of a call.        *)
(***************************************************************************)
Prev(t, i) == msg[t].inputs[i].prev

\* What the till knew when the payment came is still so.
Known(t) ==
  /\ asked[t].spent \subseteq spent /\ asked[t].alerts \subseteq alerts
  /\ asked[t].at <= now /\ onBest \in chains[t]

\* The bundle of an input was of the chain at some moment of a call; it was of
\* the chain at neither of the two moments at which Verify asks.
Vouched(m, i, moments) ==
  /\ BundleMatches(m, i)
  /\ \E chain \in moments : HeaderHeld(m, i, chain) \/ Anchored(m, i, chain)
Missing(m, i, moments) ==
  \/ ~BundleMatches(m, i)
  \/ \E early, late \in moments : ~HeaderHeld(m, i, early) /\ ~Anchored(m, i, late)
HeaderMissed(m, i, moments) ==
  /\ BundleMatches(m, i)
  /\ \E early \in moments : ~HeaderHeld(m, i, early)

InclusionAnswer(t) ==
  /\ decision[t].inclusion =>
       \A i \in DOMAIN msg[t].inputs :
         (pc[t] \in {"inclusion", "anchor"} => i < index[t]) => Vouched(msg[t], i, chains[t])
  /\ ~decision[t].inclusion => \E i \in DOMAIN msg[t].inputs : Missing(msg[t], i, chains[t])
  /\ pc[t] \in {"inclusion", "anchor"} => decision[t].inclusion /\ decision[t].unspent
  /\ pc[t] = "anchor" => HeaderMissed(msg[t], index[t], chains[t])
  /\ decision[t].reason = IF decision[t].inclusion THEN "" ELSE "inclusion"

UnspentAnswer(t) ==
  /\ decision[t].unspent =>
       \A i \in DOMAIN msg[t].inputs :
         (pc[t] \notin {"inclusion", "anchor"} /\ (pc[t] = "unspent" => i < index[t])) =>
           Prev(t, i) \notin asked[t].spent
  /\ ~decision[t].unspent => \E i \in DOMAIN msg[t].inputs : Prev(t, i) \in spent

QuietAnswer(t) ==
  pc[t] = "decide" =>
    /\ decision[t].quiet =>
         (wired[t].bus => ~\E a \in asked[t].alerts : Opposes(a, msg[t], now))
    /\ ~decision[t].quiet =>
         wired[t].bus /\ \E a \in alerts : Opposes(a, msg[t], asked[t].at)

AnswerInv(t) ==
  pc[t] # "idle" => Known(t) /\ InclusionAnswer(t) /\ UnspentAnswer(t) /\ QuietAnswer(t)

Inv == TypeInv /\ \A t \in Tills : AnswerInv(t)

\* What was so at some moment of a call stays so.
LEMMA MomentsStay ==
  ASSUME NEW m, NEW i, NEW before, NEW after, before \subseteq after
  PROVE  /\ Vouched(m, i, before) => Vouched(m, i, after)
         /\ Missing(m, i, before) => Missing(m, i, after)
         /\ HeaderMissed(m, i, before) => HeaderMissed(m, i, after)
BY Zenon DEF Vouched, Missing, HeaderMissed

\* An alert that opposes a payment later did so before.
LEMMA OpposesBefore ==
  ASSUME NEW a \in Alerts, NEW m, NEW early \in Nat, NEW late \in Nat, early <= late,
         Opposes(a, m, late)
  PROVE  Opposes(a, m, early)
BY TillAssumption DEF Opposes, Alerts

\* What a step may do around a call without touching its answers: outputs get
\* spent, alerts and moments of the chain are added, time passes.
Around(t) ==
  /\ pc'[t] = pc[t] /\ msg'[t] = msg[t] /\ index'[t] = index[t]
  /\ decision'[t] = decision[t] /\ asked'[t] = asked[t] /\ wired'[t] = wired[t]
  /\ spent \subseteq spent' /\ alerts \subseteq alerts' /\ now <= now'
  /\ chains[t] \subseteq chains'[t] /\ (pc[t] # "idle" => onBest' \in chains'[t])

LEMMA AroundKeeps ==
  ASSUME TypeInv, TypeInv', NEW t \in Tills, AnswerInv(t), Around(t)
  PROVE  AnswerInv(t)'
<1> SUFFICES ASSUME pc[t] # "idle"
             PROVE  Known(t)' /\ InclusionAnswer(t)' /\ UnspentAnswer(t)' /\ QuietAnswer(t)'
  BY DEF AnswerInv, Around
<1>1. Known(t) /\ InclusionAnswer(t) /\ UnspentAnswer(t) /\ QuietAnswer(t)
  BY DEF AnswerInv
<1>2. now \in Nat /\ now' \in Nat /\ asked[t].at \in Nat /\ asked[t].alerts \subseteq Alerts
  BY TillAssumption DEF TypeInv, TypeOK, Shape
<1>3. Known(t)'
  BY <1>1, <1>2 DEF Known, Around
<1>4. InclusionAnswer(t)'
  BY <1>1, MomentsStay, Zenon DEF InclusionAnswer, Around
<1>5. UnspentAnswer(t)'
  BY <1>1 DEF UnspentAnswer, Prev, Around
<1>6. QuietAnswer(t)'
  <2> SUFFICES ASSUME pc[t] = "decide"
               PROVE  /\ decision[t].quiet =>
                           (wired[t].bus => ~\E a \in asked[t].alerts : Opposes(a, msg[t], now'))
                      /\ ~decision[t].quiet => wired[t].bus /\
                           \E a \in alerts' : Opposes(a, msg[t], asked[t].at)
    BY DEF QuietAnswer, Around
  <2>1. /\ decision[t].quiet =>
             (wired[t].bus => ~\E a \in asked[t].alerts : Opposes(a, msg[t], now))
        /\ ~decision[t].quiet => wired[t].bus /\
             \E a \in alerts : Opposes(a, msg[t], asked[t].at)
    BY <1>1 DEF QuietAnswer
  <2>2. \A a \in asked[t].alerts : Opposes(a, msg[t], now') => Opposes(a, msg[t], now)
    BY <1>2, OpposesBefore DEF Around
  <2> QED BY <2>1, <2>2 DEF Around
<1> QED BY <1>3, <1>4, <1>5, <1>6

\* A till that starts a call has asked nothing yet.
LEMMA AcceptPaymentAnswer ==
  ASSUME TypeInv, NEW t \in Tills, NEW m \in Messages, AcceptPayment(t, m)
  PROVE  AnswerInv(t)'
<1> DEFINE k == [spent |-> spent, alerts |-> alerts, at |-> now]
<1>1. /\ decision'[t] = Begun /\ asked'[t] = k /\ chains'[t] = {onBest}
      /\ pc'[t] = FirstQuestion(m) /\ index'[t] = 1 /\ msg'[t] = m
      /\ UNCHANGED marketVars
  BY DEF AcceptPayment, Begun, TypeInv, Shape
<1>2. now \in Nat /\ DOMAIN m.inputs = 1..Len(m.inputs) /\ Len(m.inputs) \in Nat
  BY TillAssumption, InputsOfMessages DEF TypeInv, TypeOK
<1>3. Known(t)'
  BY <1>1, <1>2 DEF Known, marketVars
<1>7. /\ pc'[t] \in {"inclusion", "quiet"}
      /\ \A i \in DOMAIN m.inputs : pc'[t] = "inclusion" /\ ~(i < 1)
  BY <1>1, <1>2 DEF FirstQuestion
<1>4. InclusionAnswer(t)'
  <2>1. decision'[t].inclusion /\ decision'[t].unspent /\ decision'[t].reason = ""
    BY <1>1, FirstDecision, Zenon
  <2>2. pc'[t] # "anchor"
    BY <1>7
  <2>3. \A i \in DOMAIN m.inputs : pc'[t] \in {"inclusion", "anchor"} /\ ~(i < 1)
    BY <1>7
  <2> QED BY <1>1, <2>1, <2>2, <2>3, Zenon DEF InclusionAnswer
<1>5. UnspentAnswer(t)'
  <2>1. decision'[t].unspent
    BY <1>1, FirstDecision, Zenon
  <2>2. \A i \in DOMAIN m.inputs : pc'[t] \in {"inclusion", "anchor"}
    BY <1>7
  <2> QED BY <1>1, <2>1, <2>2, Zenon DEF UnspentAnswer
<1>6. QuietAnswer(t)'
  BY <1>7 DEF QuietAnswer
<1> QED BY <1>3, <1>4, <1>5, <1>6 DEF AnswerInv

LEMMA CheckInclusionAnswer ==
  ASSUME TypeInv, NEW t \in Tills, AnswerInv(t), CheckInclusion(t) \/ CheckAnchor(t)
  PROVE  AnswerInv(t)'
<1>1. /\ pc[t] \in {"inclusion", "anchor"} /\ msg[t] \in Messages
      /\ UNCHANGED <<marketVars, msg, asked, chains>>
  BY DEF CheckInclusion, CheckAnchor, TypeInv, CallInv
<1>2. Known(t) /\ InclusionAnswer(t)
  BY <1>1 DEF AnswerInv
<1>3. /\ index[t] \in DOMAIN msg[t].inputs /\ DOMAIN msg[t].inputs = 1..Len(msg[t].inputs)
      /\ Len(msg[t].inputs) \in Nat
  BY <1>1, TillAssumption, InputsOfMessages DEF TypeInv, TypeOK
<1>4. /\ decision[t].inclusion /\ decision[t].unspent /\ decision[t].reason = ""
      /\ pc[t] = "anchor" => HeaderMissed(msg[t], index[t], chains[t])
  BY <1>1, <1>2, Zenon DEF InclusionAnswer
<1>5. Known(t)'
  BY <1>1, <1>2 DEF Known, marketVars
<1>6. /\ decision'[t].unspent
      /\ \/ (Passes(t) \/ AsksOn(t)) /\ decision'[t] = decision[t]
         \/ Fails(t) /\ ~decision'[t].inclusion /\ decision'[t].reason = "inclusion"
  BY <1>4, InclusionAnswered, Zenon DEF TypeInv
<1>7. /\ Passes(t) => \/ pc'[t] = "inclusion" /\ index'[t] = index[t] + 1
                      \/ pc'[t] = "unspent" /\ index'[t] = 1 /\ index[t] = Len(msg[t].inputs)
      /\ AsksOn(t) => pc'[t] = "anchor" /\ index'[t] = index[t]
      /\ Fails(t) => pc'[t] = "unspent" /\ index'[t] = 1
  <2>1. ASSUME Passes(t)
        PROVE  \/ pc'[t] = "inclusion" /\ index'[t] = index[t] + 1
               \/ pc'[t] = "unspent" /\ index'[t] = 1 /\ index[t] = Len(msg[t].inputs)
    <3>1. Advance(t, "inclusion", "unspent")
      BY <2>1 DEF Passes
    <3> QED BY <1>1, <3>1, AdvanceType
  <2>2. AsksOn(t) => pc'[t] = "anchor" /\ index'[t] = index[t]
    BY DEF AsksOn, TypeInv, Shape
  <2>3. Fails(t) => pc'[t] = "unspent" /\ index'[t] = 1
    BY DEF Fails, TypeInv, Shape
  <2> QED BY <2>1, <2>2, <2>3
<1>8. UnspentAnswer(t)'
  <2>1. \A i \in DOMAIN msg[t].inputs : ~(i < 1)
    BY <1>3
  <2>2. pc'[t] \in {"inclusion", "anchor"} \/ (pc'[t] = "unspent" /\ index'[t] = 1)
    BY <1>6, <1>7
  <2> QED BY <1>1, <1>6, <2>1, <2>2 DEF UnspentAnswer
<1>9. QuietAnswer(t)'
  BY <1>6, <1>7 DEF QuietAnswer
<1>10. InclusionAnswer(t)'
  <2>1. CASE Passes(t) /\ decision'[t] = decision[t]
    <3>1. Vouched(msg[t], index[t], chains[t])
      BY <1>2, <1>4, <2>1, Zenon DEF Passes, Vouched, HeaderMissed, Known
    <3>2. pc'[t] # "anchor"
      BY <1>7, <2>1
    <3>3. \A i \in DOMAIN msg[t].inputs : (pc'[t] \in {"inclusion", "anchor"} => i < index'[t]) =>
            i < index[t] \/ i = index[t]
      BY <1>3, <1>7, <2>1
    <3>4. \A i \in DOMAIN msg[t].inputs : (pc'[t] \in {"inclusion", "anchor"} => i < index'[t]) =>
            Vouched(msg[t], i, chains[t])
      BY <1>2, <1>4, <3>1, <3>3, Zenon DEF InclusionAnswer
    <3> QED BY <1>1, <1>4, <2>1, <3>2, <3>4, Zenon DEF InclusionAnswer
  <2>2. CASE AsksOn(t) /\ decision'[t] = decision[t]
    <3>1. HeaderMissed(msg[t], index[t], chains[t])
      BY <1>2, <2>2, Zenon DEF AsksOn, HeaderMissed, Known
    <3>2. \A i \in DOMAIN msg[t].inputs : i < index[t] => Vouched(msg[t], i, chains[t])
      BY <1>2, <1>4, Zenon DEF InclusionAnswer
    <3>3. pc'[t] = "anchor" /\ index'[t] = index[t] /\ pc'[t] \in {"inclusion", "anchor"}
      BY <1>7, <2>2
    <3> QED BY <1>1, <1>4, <2>2, <3>1, <3>2, <3>3, Zenon DEF InclusionAnswer
  <2>3. CASE Fails(t) /\ ~decision'[t].inclusion /\ decision'[t].reason = "inclusion"
    <3>1. Missing(msg[t], index[t], chains[t])
      <4>1. CASE pc[t] = "anchor" /\ ~Anchored(msg[t], index[t], onBest)
        BY <1>2, <1>4, <4>1, Zenon DEF Missing, HeaderMissed, Known
      <4>2. CASE ~BundleMatches(msg[t], index[t])
        BY <4>2 DEF Missing
      <4>3. CASE /\ ~HeaderHeld(msg[t], index[t], onBest)
                 /\ ~Anchored(msg[t], index[t], onBest)
        BY <1>2, <4>3, Zenon DEF Missing, Known
      <4> QED BY <2>3, <4>1, <4>2, <4>3, Zenon DEF Fails
    <3>2. \E i \in DOMAIN msg[t].inputs : Missing(msg[t], i, chains[t])
      BY <1>3, <3>1
    <3>3. pc'[t] \notin {"inclusion", "anchor"} /\ pc'[t] # "anchor"
      BY <1>7, <2>3
    <3> QED BY <1>1, <2>3, <3>2, <3>3, Zenon DEF InclusionAnswer
  <2> QED BY <1>6, <2>1, <2>2, <2>3
<1> QED BY <1>5, <1>8, <1>9, <1>10 DEF AnswerInv

LEMMA CheckUnspentAnswer ==
  ASSUME TypeInv, NEW t \in Tills, AnswerInv(t), CheckUnspent(t)
  PROVE  AnswerInv(t)'
<1>1. /\ pc[t] = "unspent" /\ msg[t] \in Messages /\ Advance(t, "unspent", "quiet")
      /\ UNCHANGED <<marketVars, msg, asked, chains>>
  BY DEF CheckUnspent, TypeInv, CallInv
<1>2. Known(t) /\ InclusionAnswer(t) /\ UnspentAnswer(t)
  BY <1>1 DEF AnswerInv
<1>3. /\ index[t] \in DOMAIN msg[t].inputs /\ DOMAIN msg[t].inputs = 1..Len(msg[t].inputs)
      /\ Len(msg[t].inputs) \in Nat
  BY <1>1, TillAssumption, InputsOfMessages DEF TypeInv, TypeOK
<1>4. /\ decision'[t].reason = decision[t].reason /\ decision'[t].inclusion = decision[t].inclusion
      /\ decision'[t].unspent <=> (decision[t].unspent /\ Prev(t, index[t]) \notin spent)
  BY UnspentAnswered DEF TypeInv, Prev
<1>5. \/ pc'[t] = "unspent" /\ index'[t] = index[t] + 1
      \/ pc'[t] = "quiet" /\ index[t] = Len(msg[t].inputs)
  BY <1>1, AdvanceType
<1>6. \A i : Prev(t, i)' = Prev(t, i)
  BY <1>1 DEF Prev
<1>7. Known(t)'
  BY <1>1, <1>2 DEF Known, marketVars
<1>8. InclusionAnswer(t)'
  <2>1. /\ pc[t] \notin {"inclusion", "anchor"} /\ pc'[t] \notin {"inclusion", "anchor"}
        /\ pc'[t] # "anchor"
    BY <1>1, <1>5
  <2> QED BY <1>1, <1>2, <1>4, <2>1, Zenon DEF InclusionAnswer
<1>9. UnspentAnswer(t)'
  <2>1. ASSUME decision'[t].unspent, NEW i \in DOMAIN msg[t].inputs,
               pc'[t] = "unspent" => i < index'[t]
        PROVE  Prev(t, i) \notin asked[t].spent
    <3>1. i < index[t] \/ i = index[t]
      BY <1>3, <1>5, <2>1
    <3> QED BY <1>1, <1>2, <1>4, <2>1, <3>1 DEF UnspentAnswer, Known
  <2>2. ASSUME ~decision'[t].unspent
        PROVE  \E i \in DOMAIN msg[t].inputs : Prev(t, i) \in spent
    BY <1>2, <1>3, <1>4, <2>2 DEF UnspentAnswer
  <2> QED BY <1>1, <1>6, <2>1, <2>2 DEF UnspentAnswer, marketVars
<1>10. QuietAnswer(t)'
  BY <1>5 DEF QuietAnswer
<1> QED BY <1>7, <1>8, <1>9, <1>10 DEF AnswerInv

LEMMA CheckQuietAnswer ==
  ASSUME TypeInv, NEW t \in Tills, AnswerInv(t), CheckQuiet(t)
  PROVE  AnswerInv(t)'
<1>1. /\ pc[t] = "quiet" /\ pc'[t] = "decide"
      /\ UNCHANGED <<marketVars, msg, index, asked, chains>>
  BY DEF CheckQuiet, TypeInv, Shape
<1>2. Known(t) /\ InclusionAnswer(t) /\ UnspentAnswer(t)
  BY <1>1 DEF AnswerInv
<1>3. /\ decision'[t].reason = decision[t].reason /\ decision'[t].inclusion = decision[t].inclusion
      /\ decision'[t].unspent = decision[t].unspent
      /\ decision'[t].quiet <=> (wired[t].bus => QuietForOwners(msg[t]))
  BY QuietAnswered DEF TypeInv
<1>4. now \in Nat /\ asked[t].at \in Nat /\ alerts \subseteq Alerts
  BY TillAssumption DEF TypeInv, TypeOK, Shape, Alerts
<1>5. \A i : Prev(t, i)' = Prev(t, i)
  BY <1>1 DEF Prev
<1>6. Known(t)'
  BY <1>1, <1>2 DEF Known, marketVars
<1>7. InclusionAnswer(t)'
  <2>1. /\ pc[t] \notin {"inclusion", "anchor"} /\ pc'[t] \notin {"inclusion", "anchor"}
        /\ pc'[t] # "anchor"
    BY <1>1
  <2> QED BY <1>1, <1>2, <1>3, <2>1, Zenon DEF InclusionAnswer
<1>8. UnspentAnswer(t)'
  BY <1>1, <1>2, <1>3, <1>5 DEF UnspentAnswer, marketVars
<1>9. QuietAnswer(t)'
  <2>1. decision'[t].quiet =>
          (wired[t].bus => ~\E a \in asked[t].alerts : Opposes(a, msg[t], now))
    BY <1>2, <1>3 DEF QuietForOwners, Known
  <2>2. ASSUME ~decision'[t].quiet
        PROVE  wired[t].bus /\ \E a \in alerts : Opposes(a, msg[t], asked[t].at)
    <3>0. wired[t].bus
      BY <1>3, <2>2
    <3>1. PICK a \in alerts : Opposes(a, msg[t], now)
      BY <1>3, <2>2 DEF QuietForOwners
    <3>2. Opposes(a, msg[t], asked[t].at)
      BY <1>2, <1>4, <3>1, OpposesBefore DEF Known
    <3> QED BY <3>0, <3>2
  <2> QED BY <1>1, <2>1, <2>2 DEF QuietAnswer, marketVars
<1> QED BY <1>6, <1>7, <1>8, <1>9 DEF AnswerInv

\* A step of one till is around the calls of all others.
LEMMA OthersAround ==
  ASSUME TypeInv, \A v \in Tills : AnswerInv(v), NEW t \in Tills, TillStep(t)
  PROVE  \A u \in Tills \ {t} : Around(u)
<1> SUFFICES ASSUME NEW u \in Tills \ {t} PROVE Around(u)
  OBVIOUS
<1> USE DEF TypeInv, Shape, Around, marketVars
<1>1. now <= now /\ (pc[u] # "idle" => onBest \in chains[u])
  BY TillAssumption DEF AnswerInv, Known, TypeOK
<1>2. CASE \E m \in Messages : RefuseMessage(t, m) \/ AcceptPayment(t, m)
  BY <1>1, <1>2 DEF RefuseMessage, AcceptPayment
<1>3. CASE CheckInclusion(t) \/ CheckAnchor(t)
  <2>1. decision'[u] = decision[u]
    BY <1>3, InclusionAnswered DEF Untouched
  <2>2. pc'[u] = pc[u] /\ index'[u] = index[u]
    <3>1. Passes(t) \/ AsksOn(t) \/ Fails(t)
      BY <1>3, InclusionAnswered
    <3> QED BY <3>1 DEF Passes, AsksOn, Fails, Advance
  <2> QED BY <1>1, <1>3, <2>1, <2>2 DEF CheckInclusion, CheckAnchor
<1>4. CASE CheckUnspent(t)
  <2>1. decision'[u] = decision[u]
    BY <1>4, UnspentAnswered DEF Untouched
  <2> QED BY <1>1, <1>4, <2>1 DEF CheckUnspent, Advance
<1>5. CASE CheckQuiet(t)
  <2>1. decision'[u] = decision[u]
    BY <1>5, QuietAnswered DEF Untouched
  <2> QED BY <1>1, <1>5, <2>1 DEF CheckQuiet
<1>6. CASE OracleFails(t)
  BY <1>1, <1>6 DEF OracleFails
<1>7. CASE Decide(t)
  <2>1. decision'[u] = decision[u]
    BY <1>7, DecisionMade DEF Untouched
  <2> QED BY <1>1, <1>7, <2>1 DEF Decide
<1>8. CASE Broadcast(t)
  BY <1>1, <1>8 DEF Broadcast, tillVars
<1> QED BY <1>2, <1>3, <1>4, <1>5, <1>6, <1>7, <1>8 DEF TillStep

LEMMA InitInv == Init => Inv
<1>1. Init => \A t \in Tills : AnswerInv(t)
  BY DEF Init, AnswerInv
<1> QED BY <1>1, InitType DEF Inv

LEMMA NextInv == Inv /\ [Next]_vars => Inv'
<1> SUFFICES ASSUME Inv, [Next]_vars PROVE Inv'
  OBVIOUS
<1>1. TypeInv /\ TypeInv' /\ \A t \in Tills : AnswerInv(t)
  BY NextType DEF Inv
<1>2. ASSUME NEW t \in Tills, TillStep(t) PROVE \A u \in Tills : AnswerInv(u)'
  <2>1. \A u \in Tills \ {t} : AnswerInv(u)'
    BY <1>1, <1>2, OthersAround, AroundKeeps
  <2>2. CASE \E m \in Messages : AcceptPayment(t, m)
    BY <1>1, <2>1, <2>2, AcceptPaymentAnswer
  <2>3. CASE CheckInclusion(t) \/ CheckAnchor(t)
    BY <1>1, <2>1, <2>3, CheckInclusionAnswer
  <2>4. CASE CheckUnspent(t)
    BY <1>1, <2>1, <2>4, CheckUnspentAnswer
  <2>5. CASE CheckQuiet(t)
    BY <1>1, <2>1, <2>5, CheckQuietAnswer
  <2>6. CASE (\E m \in Messages : RefuseMessage(t, m)) \/ OracleFails(t) \/ Decide(t) \/ Broadcast(t)
    <3>1. pc'[t] = "idle"
      BY <1>1, <2>6 DEF RefuseMessage, OracleFails, Decide, Broadcast, tillVars, TypeInv, Shape
    <3> QED BY <2>1, <3>1 DEF AnswerInv
  <2> QED BY <1>2, <2>2, <2>3, <2>4, <2>5, <2>6 DEF TillStep
<1>3. ASSUME \/ \E c \in Coins : MarkSpent(c) \/ \E key \in Pubkeys : RecordAlert(c, key)
             \/ \E b \in Blocks : Reorganise(b)
             \/ Tick
             \/ UNCHANGED vars
      PROVE  \A u \in Tills : AnswerInv(u)'
  <2>1. ASSUME NEW u \in Tills PROVE Around(u)
    <3>1. now \in Nat /\ (pc[u] # "idle" => onBest \in chains[u])
      BY <1>1, TillAssumption DEF TypeInv, TypeOK, AnswerInv, Known
    <3> QED BY <1>3, <3>1 DEF MarkSpent, RecordAlert, Reorganise, Tick, vars, marketVars,
                              tillVars, Around
  <2> QED BY <1>1, <2>1, AroundKeeps
<1>4. \A u \in Tills : AnswerInv(u)'
  BY <1>2, <1>3 DEF Next
<1> QED BY <1>1, <1>4 DEF Inv

\* An accepted payment was opposed by nothing the till could have known when
\* it came, whatever happened between its questions.
THEOREM Unopposed == Spec => AcceptedWasUnopposed
<1>1. ASSUME Inv, NEW t \in Tills, Decide(t), decision'[t].accepted
      PROVE  /\ wired[t].bus => ~\E a \in asked[t].alerts : Opposes(a, msg[t], now)
             /\ \A i \in DOMAIN msg[t].inputs :
                  /\ msg[t].inputs[i].prev \notin asked[t].spent
                  /\ BundleMatches(msg[t], i)
                  /\ \E chain \in chains[t] :
                       HeaderHeld(msg[t], i, chain) \/ Anchored(msg[t], i, chain)
  <2>1. /\ pc[t] = "decide" /\ InclusionAnswer(t) /\ UnspentAnswer(t) /\ QuietAnswer(t)
    BY <1>1 DEF Decide, Inv, AnswerInv
  <2>2. decision[t].inclusion /\ decision[t].unspent /\ decision[t].quiet
    BY <1>1, DecisionMade DEF Inv, TypeInv, Accepts, PolicyDecides
  <2>3. pc[t] \notin {"inclusion", "anchor"} /\ pc[t] # "unspent"
    BY <2>1
  <2>4. \A i \in DOMAIN msg[t].inputs :
          Vouched(msg[t], i, chains[t]) /\ Prev(t, i) \notin asked[t].spent
    BY <2>1, <2>2, <2>3, Zenon DEF InclusionAnswer, UnspentAnswer
  <2> QED BY <2>1, <2>2, <2>4, Zenon DEF QuietAnswer, Prev, Vouched
<1> DEFINE A == \A t \in Tills : (Decide(t) /\ decision'[t].accepted) =>
       /\ wired[t].bus => ~\E a \in asked[t].alerts : Opposes(a, msg[t], now)
       /\ \A i \in DOMAIN msg[t].inputs :
            /\ msg[t].inputs[i].prev \notin asked[t].spent
            /\ BundleMatches(msg[t], i)
            /\ \E chain \in chains[t] :
                 HeaderHeld(msg[t], i, chain) \/ Anchored(msg[t], i, chain)
<1>2. Inv => A
  BY <1>1
<1>3. Inv /\ [Next]_vars => [A]_vars
  BY <1>2
<1> HIDE DEF A
<1>4. Spec => [][A]_vars
  BY <1>3, InitInv, NextInv, PTL DEF Spec
<1> QED BY <1>4 DEF AcceptedWasUnopposed, A

LEMMA AboveTau == \A risk, tau \in Nat : ~(risk <= tau) => risk > tau
OBVIOUS

\* The first reason that holds of a decision that does not accept.
LEMMA ReasonHolds ==
  ASSUME NEW t, NEW m \in Messages, NEW d \in Decisions, ~Accepts(t, m, d),
         d.reason = IF d.inclusion THEN "" ELSE "inclusion"
  PROVE  \/ Reason(t, m, d) = "inclusion" /\ ~d.inclusion
         \/ Reason(t, m, d) = "signature" /\ ~SignaturesOK(m)
         \/ Reason(t, m, d) = "template" /\ ~TemplateSatisfied(Template, m)
         \/ Reason(t, m, d) = "value:underfunded" /\ ~ValueOK(t, m)
         \/ Reason(t, m, d) = "double-spend:utxo-spent" /\ ~d.unspent
         \/ Reason(t, m, d) = "double-spend:alert" /\ ~d.quiet
         \/ Reason(t, m, d) = "risk-policy:value-exceeds-tau" /\ m.risk > Tau
<1>1. m.risk \in Nat /\ Tau \in Nat
  BY TillAssumption, Zenon
<1>2. d.inclusion \in BOOLEAN /\ d.unspent \in BOOLEAN /\ d.quiet \in BOOLEAN
  BY Zenon DEF Decisions
<1>3. CASE ~d.inclusion
  BY <1>3 DEF Reason
<1>4. CASE d.inclusion
  <2>1. Reason(t, m, d) = IF ~SignaturesOK(m) THEN "signature"
                       ELSE IF ~TemplateSatisfied(Template, m) THEN "template"
                       ELSE IF ~ValueOK(t, m) THEN "value:underfunded"
                       ELSE IF ~d.unspent THEN "double-spend:utxo-spent"
                       ELSE IF ~d.quiet THEN "double-spend:alert"
                       ELSE "risk-policy:value-exceeds-tau"
    BY <1>4, Zenon DEF Reason
  <2>2. \/ ~SignaturesOK(m) \/ ~TemplateSatisfied(Template, m) \/ ~ValueOK(t, m)
        \/ ~d.unspent \/ ~d.quiet \/ ~(m.risk <= Tau)
    BY <1>4, Zenon DEF Accepts, PolicyDecides
  <2>3. ~(m.risk <= Tau) => m.risk > Tau
    BY <1>1, AboveTau, Zenon
  <2> QED BY <2>1, <2>2, <2>3, Zenon
<1> QED BY <1>2, <1>3, <1>4, Zenon

\* A refusal names something that stood against the payment.
THEOREM ForCause == Spec => RefusedForCause
<1> DEFINE Cause(t, m, reason) ==
      CASE reason = "inclusion" ->
             \E i \in DOMAIN m.inputs : ~BundleMatches(m, i) \/
               \E early, late \in chains[t] :
                 ~HeaderHeld(m, i, early) /\ ~Anchored(m, i, late)
        [] reason = "signature" -> ~SignaturesOK(m)
        [] reason = "template" -> ~TemplateSatisfied(Template, m)
        [] reason = "value:underfunded" -> wired[t].oracle /\ ~Covered(m)
        [] reason = "double-spend:utxo-spent" ->
             \E i \in DOMAIN m.inputs : m.inputs[i].prev \in spent
        [] reason = "double-spend:alert" ->
             wired[t].bus /\ \E a \in alerts : Opposes(a, m, asked[t].at)
        [] reason = "risk-policy:value-exceeds-tau" -> m.risk > Tau
        [] OTHER -> FALSE
<1>1. ASSUME Inv, NEW t \in Tills, Decide(t), ~decision'[t].accepted
      PROVE  Cause(t, msg[t], decision'[t].reason)
  <2> DEFINE m == msg[t]
             d == decision[t]
             reason == decision'[t].reason
  <2>1. /\ pc[t] = "decide" /\ m \in Messages /\ d \in Decisions
        /\ InclusionAnswer(t) /\ UnspentAnswer(t) /\ QuietAnswer(t)
    BY <1>1 DEF Decide, Inv, AnswerInv, TypeInv, CallInv, Shape
  <2>2. ~Accepts(t, m, d) /\ reason = Reason(t, m, d)
    BY <1>1, DecisionMade DEF Inv, TypeInv
  <2>3. \/ reason = "inclusion" /\ ~d.inclusion
        \/ reason = "signature" /\ ~SignaturesOK(m)
        \/ reason = "template" /\ ~TemplateSatisfied(Template, m)
        \/ reason = "value:underfunded" /\ ~ValueOK(t, m)
        \/ reason = "double-spend:utxo-spent" /\ ~d.unspent
        \/ reason = "double-spend:alert" /\ ~d.quiet
        \/ reason = "risk-policy:value-exceeds-tau" /\ m.risk > Tau
    BY <2>1, <2>2, ReasonHolds, Zenon DEF InclusionAnswer
  <2>4. CASE reason = "inclusion" /\ ~d.inclusion
    <3>1. \E i \in DOMAIN m.inputs : ~BundleMatches(m, i) \/
            \E early, late \in chains[t] :
              ~HeaderHeld(m, i, early) /\ ~Anchored(m, i, late)
      BY <2>1, <2>4, Zenon DEF InclusionAnswer, Missing
    <3> QED BY <2>4, <3>1
  <2>5. CASE reason = "double-spend:utxo-spent" /\ ~d.unspent
    <3>1. \E i \in DOMAIN m.inputs : m.inputs[i].prev \in spent
      BY <2>1, <2>5 DEF UnspentAnswer, Prev
    <3> QED BY <2>5, <3>1
  <2>6. CASE reason = "double-spend:alert" /\ ~d.quiet
    <3>1. wired[t].bus /\ \E a \in alerts : Opposes(a, m, asked[t].at)
      BY <2>1, <2>6 DEF QuietAnswer
    <3> QED BY <2>6, <3>1
  <2>7. CASE \/ reason = "signature" /\ ~SignaturesOK(m)
             \/ reason = "template" /\ ~TemplateSatisfied(Template, m)
             \/ reason = "value:underfunded" /\ ~ValueOK(t, m)
             \/ reason = "risk-policy:value-exceeds-tau" /\ m.risk > Tau
    BY <2>7 DEF ValueOK
  <2> QED BY <2>3, <2>4, <2>5, <2>6, <2>7
<1> DEFINE A == \A t \in Tills :
       LET m == msg[t]
           reason == decision'[t].reason
       IN  (Decide(t) /\ ~decision'[t].accepted) => Cause(t, m, reason)
<1>2. Inv => A
  BY <1>1
<1>3. Inv /\ [Next]_vars => [A]_vars
  BY <1>2
<1> HIDE DEF A
<1>4. Spec => [][A]_vars
  BY <1>3, InitInv, NextInv, PTL DEF Spec
<1> QED BY <1>4 DEF RefusedForCause, A

=============================================================================
