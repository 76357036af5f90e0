--------------------------- MODULE AlertBusProofs ---------------------------
(***************************************************************************)
(* Safety of the alert bus for any number of publishers, readers, keys and *)
(* outpoints, any channel capacity and any bounds, and the bus as an       *)
(* implementation of AlertService.                                         *)
(***************************************************************************)
EXTENDS AlertBus, SequenceTheorems, TLAPS

\* What Publish has established about the alert it holds: it is one of the
\* alerts somebody can present, and past "verify" it is admissible.
Checked ==
  \A p \in Publishers :
     /\ pc[p] # "idle" => alert[p] \in Presentable
     /\ pc[p] \in {"record", "send"} => VerifyAlert(alert[p])

TypeInv == TypeOK /\ Checked

LEMMA PresentableIsAlert == Inputs \subseteq Presentable /\ Presentable \subseteq Alert
<1>1. Available \subseteq Signature
  BY BusAssumption, Zenon DEF Available, Malleated, Signature
<1> QED BY <1>1, BusAssumption DEF Presentable, Alert

LEMMA InitType == Init => TypeInv
BY BusAssumption DEF Init, TypeInv, TypeOK, Checked

\* Every step keeps the type; Record needs to know that the owner key of the
\* alert parses, which Verify has established.
LEMMA NextType == TypeInv /\ [Next]_vars => TypeInv'
<1> SUFFICES ASSUME TypeInv, [Next]_vars PROVE TypeInv'
  OBVIOUS
<1> USE PresentableIsAlert, BusAssumption DEF TypeInv, TypeOK, Checked
<1>1. ASSUME NEW s \in Subscribers, Subscribe(s) PROVE TypeInv'
  <2>1. subs' \in Seq(Subscribers)
    BY <1>1 DEF Subscribe
  <2> QED BY <1>1, <2>1, Zenon DEF Subscribe
<1>2. ASSUME NEW s \in Subscribers, Receive(s) PROVE TypeInv'
  <2>1. chan[s] \in Seq(Alert) /\ Len(chan[s]) <= ChanCap /\ chan[s] # << >>
    BY <1>2 DEF Receive
  <2>2. Tail(chan[s]) \in Seq(Alert) /\ Len(Tail(chan[s])) <= ChanCap
    BY <2>1
  <2> QED BY <1>2, <2>2 DEF Receive
<1>3. ASSUME NEW p \in Publishers, Verify(p) PROVE TypeInv'
  BY <1>3 DEF Verify
<1>4. ASSUME NEW p \in Publishers, Record(p) PROVE TypeInv'
  <2>1. alert[p] \in Alert /\ VerifyAlert(alert[p])
    BY <1>4 DEF Record
  <2>2. alert[p].out \in Outpoints /\ alert[p].owner \in Keys
    BY <2>1 DEF Alert, VerifyAlert
  <2>3. seen' \in [Outpoints -> Seq([ts : 0..MaxClock, ownerPub : Keys])]
    <3> DEFINE o == alert[p].out
               rec == [ts |-> clock, ownerPub |-> alert[p].owner]
    <3>1. rec \in [ts : 0..MaxClock, ownerPub : Keys]
      BY <2>2
    <3>2. seen[o] \in Seq([ts : 0..MaxClock, ownerPub : Keys])
      BY <2>2
    <3>3. seen' = [seen EXCEPT ![o] = Append(seen[o], rec)]
      BY <1>4 DEF Record
    <3>4. Append(seen[o], rec) \in Seq([ts : 0..MaxClock, ownerPub : Keys])
      BY <3>1, <3>2
    <3> HIDE DEF rec, o
    <3> QED BY <3>3, <3>4, Zenon
  <2>4. todo' \in [Publishers -> Seq(Subscribers)]
    BY <1>4 DEF Record
  <2> QED BY <1>4, <2>1, <2>3, <2>4 DEF Record
<1>5. ASSUME NEW p \in Publishers, Send(p) PROVE TypeInv'
  <2>1. todo[p] \in Seq(Subscribers) /\ todo[p] # << >> /\ alert[p] \in Alert
    BY <1>5 DEF Send
  <2>2. Head(todo[p]) \in Subscribers /\ Tail(todo[p]) \in Seq(Subscribers)
    BY <2>1
  <2>3. /\ chan' \in [Subscribers -> Seq(Alert)]
        /\ \A s \in Subscribers : Len(chan'[s]) <= ChanCap
    <3>1. CASE Len(chan[Head(todo[p])]) < ChanCap
      <4> DEFINE s == Head(todo[p])
      <4>1. chan' = [chan EXCEPT ![s] = Append(chan[s], alert[p])]
        BY <1>5, <3>1 DEF Send
      <4>2. s \in Subscribers /\ chan[s] \in Seq(Alert)
        BY <2>2
      <4>3. Append(chan[s], alert[p]) \in Seq(Alert)
            /\ Len(Append(chan[s], alert[p])) <= ChanCap
        BY <2>1, <3>1, <4>2
      <4> HIDE DEF s
      <4> QED BY <4>1, <4>2, <4>3, Zenon
    <3>2. CASE ~(Len(chan[Head(todo[p])]) < ChanCap)
      <4>1. chan' = chan
        BY <1>5, <3>2 DEF Send
      <4> QED BY <4>1
    <3> QED BY <3>1, <3>2
  <2> QED BY <1>5, <2>2, <2>3 DEF Send
<1>6. ASSUME NEW p \in Publishers, Return(p) PROVE TypeInv'
  BY <1>6 DEF Return
<1>7. ASSUME NEW p \in Publishers, NEW a \in Inputs, CallPublish(p, a) PROVE TypeInv'
  BY <1>7 DEF CallPublish
<1>8. CASE Tick
  <2>1. clock' \in 0..MaxClock
    BY <1>8 DEF Tick
  <2> QED BY <1>8, <2>1, Zenon DEF Tick
<1>9. CASE UNCHANGED vars
  BY <1>9, Zenon DEF vars
<1> QED
  BY <1>1, <1>2, <1>3, <1>4, <1>5, <1>6, <1>7, <1>8, <1>9 DEF Next, PublisherStep

\* Every variable of the bus keeps its type, and no channel ever holds more
\* than ChanCap alerts.
THEOREM TypeCorrect == Spec => []TypeOK
<1>1. TypeInv => TypeOK
  BY DEF TypeInv
<1> QED BY InitType, NextType, <1>1, PTL DEF Spec

-----------------------------------------------------------------------------
(***************************************************************************)
(* The inductive invariant.  The bus answers from seen alone, so what must *)
(* be carried from step to step is where an observation can come from      *)
(* (EvidenceInv) and that nothing reaches a channel before its observation *)
(* is in seen (SentIsRecorded, ChanIsRecorded).                            *)
(***************************************************************************)
EvidenceInv ==
  \A o \in Outpoints : \A i \in 1..Len(seen[o]) : DoubleSigned(seen[o][i].ownerPub, o)

Recorded(a) ==
  \E i \in 1..Len(seen[a.out]) : seen[a.out][i].ownerPub = a.owner

SentIsRecorded == \A p \in Publishers : pc[p] = "send" => Recorded(alert[p])
ChanIsRecorded == \A s \in Subscribers : \A i \in 1..Len(chan[s]) : Recorded(chan[s][i])

IInv == /\ TypeInv
        /\ EvidenceInv
        /\ ObservationsInOrder
        /\ SentIsRecorded
        /\ ChanIsRecorded

\* An admissible alert shows two spends its owner really signed.
LEMMA AdmissibleIsDoubleSigned ==
  ASSUME NEW a \in Presentable, VerifyAlert(a)
  PROVE  DoubleSigned(a.owner, a.out)
<1>1. PICK s \in Signed : a.sigA = s \/ a.sigA = Malleated(s)
  BY DEF Presentable, Available
<1>2. PICK t \in Signed : a.sigB = t \/ a.sigB = Malleated(t)
  BY DEF Presentable, Available
<1>3. /\ s.key = a.sigA.key /\ s.out = a.sigA.out /\ s.spend = a.sigA.spend
      /\ t.key = a.sigB.key /\ t.out = a.sigB.out /\ t.spend = a.sigB.spend
  BY <1>1, <1>2, BusAssumption DEF Malleated, Signature
<1> QED BY <1>3 DEF DoubleSigned, VerifyAlert, SignatureProves

\* Only Record touches seen, and it appends one observation, made now, of an
\* admissible alert.
LEMMA SeenStep ==
  ASSUME TypeInv, [Next]_vars
  PROVE  /\ clock' \in Nat /\ clock <= clock'
         /\ \/ seen' = seen
            \/ \E p \in Publishers : Record(p)
<1>1. CASE Tick
  BY <1>1 DEF Tick, TypeInv, TypeOK
<1>2. CASE UNCHANGED vars
  BY <1>2 DEF vars, TypeInv, TypeOK
<1>3. CASE ~Tick /\ ~(UNCHANGED vars)
  <2>1. \/ \E s \in Subscribers : Subscribe(s) \/ Receive(s)
        \/ \E p \in Publishers : PublisherStep(p)
        \/ \E p \in Publishers, a \in Inputs : CallPublish(p, a)
    BY <1>3, Zenon DEF Next
  <2>2. clock' = clock /\ (seen' = seen \/ \E p \in Publishers : Record(p))
    <3>1. CASE \E s \in Subscribers : Subscribe(s) \/ Receive(s)
      BY <3>1 DEF Subscribe, Receive
    <3>2. CASE \E p \in Publishers, a \in Inputs : CallPublish(p, a)
      BY <3>2 DEF CallPublish
    <3>3. ASSUME NEW p \in Publishers, PublisherStep(p)
          PROVE  clock' = clock /\ (seen' = seen \/ Record(p))
      <4>1. Verify(p) \/ Record(p) \/ Send(p) \/ Return(p)
        BY <3>3 DEF PublisherStep
      <4>2. CASE Verify(p) \/ Send(p) \/ Return(p)
        BY <4>2 DEF Verify, Send, Return
      <4>3. CASE Record(p)
        BY <4>3 DEF Record
      <4> QED BY <4>1, <4>2, <4>3
    <3> QED BY <2>1, <3>1, <3>2, <3>3
  <2>3. clock \in Nat
    BY DEF TypeInv, TypeOK
  <2> QED BY <2>2, <2>3
<1> QED BY <1>1, <1>2, <1>3

\* What Record does to seen, spelled out for one outpoint and one position.
LEMMA RecordSeen ==
  ASSUME TypeInv, NEW p \in Publishers, Record(p), NEW o \in Outpoints
  PROVE  LET a == alert[p] IN
         /\ a \in Presentable /\ VerifyAlert(a) /\ a.out \in Outpoints
         /\ o # a.out => seen'[o] = seen[o]
         /\ o = a.out => /\ Len(seen'[o]) = Len(seen[o]) + 1
                         /\ seen'[o][Len(seen[o]) + 1].ts = clock
                         /\ seen'[o][Len(seen[o]) + 1].ownerPub = a.owner
         /\ Len(seen[o]) \in Nat
         /\ \A i \in 1..Len(seen[o]) : seen'[o][i] = seen[o][i]
<1> DEFINE a == alert[p]
           rec == [ts |-> clock, ownerPub |-> a.owner]
<1>1. a \in Presentable /\ VerifyAlert(a)
  BY DEF Record, TypeInv, Checked
<1>2. a.out \in Outpoints /\ a.owner \in Keys
  BY <1>1 DEF Presentable, VerifyAlert
<1>3. seen' = [seen EXCEPT ![a.out] = Append(seen[a.out], rec)]
  BY DEF Record
<1>4. seen[o] \in Seq([ts : 0..MaxClock, ownerPub : Keys])
  BY DEF TypeInv, TypeOK
<1>5. o # a.out => seen'[o] = seen[o]
  BY <1>2, <1>3 DEF TypeInv, TypeOK
<1>6. o = a.out => seen'[o] = Append(seen[o], rec)
  BY <1>2, <1>3 DEF TypeInv, TypeOK
<1>7. rec \in [ts : 0..MaxClock, ownerPub : Keys] /\ rec.ts = clock /\ rec.ownerPub = a.owner
  BY <1>2 DEF TypeInv, TypeOK
<1> HIDE DEF rec
<1>8. /\ Len(Append(seen[o], rec)) = Len(seen[o]) + 1
      /\ Append(seen[o], rec)[Len(seen[o]) + 1] = rec
      /\ \A i \in 1..Len(seen[o]) : Append(seen[o], rec)[i] = seen[o][i]
      /\ Len(seen[o]) \in Nat
  BY <1>4, <1>7, AppendProperties
<1> QED BY <1>1, <1>2, <1>5, <1>6, <1>7, <1>8

LEMMA InitIInv == Init => IInv
BY InitType, BusAssumption
   DEF Init, IInv, TypeInv, EvidenceInv, ObservationsInOrder, SentIsRecorded, ChanIsRecorded

LEMMA EvidenceStep == IInv /\ [Next]_vars => EvidenceInv'
<1> SUFFICES ASSUME IInv, [Next]_vars PROVE EvidenceInv'
  OBVIOUS
<1>1. CASE seen' = seen
  BY <1>1 DEF IInv, EvidenceInv
<1>2. ASSUME NEW p \in Publishers, Record(p) PROVE EvidenceInv'
  <2> SUFFICES ASSUME NEW o \in Outpoints, NEW i \in 1..Len(seen'[o])
               PROVE  DoubleSigned(seen'[o][i].ownerPub, o)
    BY DEF EvidenceInv
  <2> USE <1>2, RecordSeen DEF IInv
  <2>1. CASE i \in 1..Len(seen[o])
    BY <2>1 DEF EvidenceInv
  <2>2. CASE i \notin 1..Len(seen[o])
    <3>1. o = alert[p].out /\ i = Len(seen[o]) + 1
      BY <2>2
    <3>2. DoubleSigned(alert[p].owner, alert[p].out)
      BY AdmissibleIsDoubleSigned
    <3> QED BY <3>1, <3>2
  <2> QED BY <2>1, <2>2
<1> QED BY <1>1, <1>2, SeenStep DEF IInv

LEMMA OrderStep == IInv /\ [Next]_vars => ObservationsInOrder'
<1> SUFFICES ASSUME IInv, [Next]_vars PROVE ObservationsInOrder'
  OBVIOUS
<1>0. clock \in Nat /\ clock' \in Nat /\ clock <= clock'
  <2>1. clock \in Nat
    BY BusAssumption DEF IInv, TypeInv, TypeOK
  <2>2. clock' \in Nat /\ clock <= clock'
    BY SeenStep DEF IInv
  <2> QED BY <2>1, <2>2
<1>a. ASSUME NEW o \in Outpoints, NEW j \in 1..Len(seen[o])
      PROVE  seen[o][j].ts \in Nat /\ seen[o][j].ts <= clock
  <2>1. seen[o] \in Seq([ts : 0..MaxClock, ownerPub : Keys])
    BY DEF IInv, TypeInv, TypeOK
  <2>2. seen[o][j] \in [ts : 0..MaxClock, ownerPub : Keys]
    BY <2>1, ElementOfSeq
  <2>3. Len(seen[o]) \in Nat /\ j \in Int /\ j <= j
    BY <2>1
  <2>4. seen[o][j].ts <= clock
    BY <2>3 DEF IInv, ObservationsInOrder
  <2> QED BY <2>2, <2>4, BusAssumption
<1>1. CASE seen' = seen
  <2> SUFFICES ASSUME NEW o \in Outpoints,
                      NEW i \in 1..Len(seen[o]), NEW j \in 1..Len(seen[o]), i <= j
               PROVE  seen[o][i].ts <= seen[o][j].ts /\ seen[o][j].ts <= clock'
    BY <1>1 DEF ObservationsInOrder
  <2>1. seen[o][i].ts <= seen[o][j].ts
    BY DEF IInv, ObservationsInOrder
  <2> QED BY <1>0, <1>a, <2>1
<1>2. ASSUME NEW p \in Publishers, Record(p) PROVE ObservationsInOrder'
  <2> SUFFICES ASSUME NEW o \in Outpoints,
                      NEW i \in 1..Len(seen'[o]), NEW j \in 1..Len(seen'[o]), i <= j
               PROVE  seen'[o][i].ts <= seen'[o][j].ts /\ seen'[o][j].ts <= clock'
    BY DEF ObservationsInOrder
  <2>0. clock' = clock
    BY <1>2 DEF Record
  <2> USE <1>2, RecordSeen DEF IInv
  <2>1. CASE j \in 1..Len(seen[o])
    <3>1. i \in 1..Len(seen[o])
      BY <2>1
    <3> QED BY <2>0, <2>1, <3>1 DEF ObservationsInOrder
  <2>2. CASE j \notin 1..Len(seen[o])
    <3>1. o = alert[p].out /\ j = Len(seen[o]) + 1 /\ seen'[o][j].ts = clock
      BY <2>2
    <3>2. CASE i \in 1..Len(seen[o])
      BY <1>0, <1>a, <2>0, <3>1, <3>2
    <3>3. CASE i \notin 1..Len(seen[o])
      BY <1>0, <2>0, <3>1, <3>3
    <3> QED BY <3>2, <3>3
  <2> QED BY <2>1, <2>2
<1> QED BY <1>1, <1>2, SeenStep DEF IInv

\* An observation, once in seen, stays there.
LEMMA RecordedStays ==
  ASSUME TypeInv, [Next]_vars, NEW a, a.out \in Outpoints, Recorded(a)
  PROVE  \E i \in 1..Len(seen'[a.out]) : seen'[a.out][i].ownerPub = a.owner
<1>1. CASE seen' = seen
  BY <1>1 DEF Recorded
<1>2. ASSUME NEW p \in Publishers, Record(p)
      PROVE  \E i \in 1..Len(seen'[a.out]) : seen'[a.out][i].ownerPub = a.owner
  <2>1. PICK i \in 1..Len(seen[a.out]) : seen[a.out][i].ownerPub = a.owner
    BY DEF Recorded
  <2>2. i \in 1..Len(seen'[a.out]) /\ seen'[a.out][i] = seen[a.out][i]
    BY <1>2, RecordSeen
  <2> QED BY <2>1, <2>2
<1> QED BY <1>1, <1>2, SeenStep

LEMMA SentStep == IInv /\ [Next]_vars => SentIsRecorded'
<1> SUFFICES ASSUME IInv, [Next]_vars, NEW q \in Publishers, pc'[q] = "send"
             PROVE  Recorded(alert[q])'
  BY DEF SentIsRecorded
<1>1. CASE pc[q] = "send" /\ alert'[q] = alert[q]
  <2>1. Recorded(alert[q]) /\ alert[q].out \in Outpoints
    BY <1>1 DEF IInv, SentIsRecorded, TypeInv, TypeOK, Alert
  <2>2. \E i \in 1..Len(seen'[alert[q].out]) :
           seen'[alert[q].out][i].ownerPub = alert[q].owner
    BY <2>1, RecordedStays DEF IInv
  <2> QED BY <1>1, <2>2 DEF Recorded
<1>2. CASE Record(q)
  <2>1. alert' = alert
    BY <1>2 DEF Record
  <2> DEFINE o == alert[q].out
             n == Len(seen[o]) + 1
  <2>2. o \in Outpoints
    BY <1>2, PresentableIsAlert DEF Record, IInv, TypeInv, Checked, Alert
  <2>3. n \in 1..Len(seen'[o]) /\ seen'[o][n].ownerPub = alert[q].owner
    BY <1>2, <2>2, RecordSeen DEF IInv
  <2> QED BY <2>1, <2>3 DEF Recorded
<1>3. CASE ~Record(q)
  <2>0. pc \in [Publishers -> {"idle", "verify", "record", "send"}]
        /\ alert \in [Publishers -> Alert \cup {NoAlert}]
    BY DEF IInv, TypeInv, TypeOK
  <2>1. CASE Tick \/ UNCHANGED vars \/ \E s \in Subscribers : Subscribe(s) \/ Receive(s)
    BY <1>1, <2>1 DEF Tick, vars, Subscribe, Receive
  <2>2. ASSUME NEW p \in Publishers, PublisherStep(p) PROVE pc[q] = "send" /\ alert'[q] = alert[q]
    BY <1>3, <2>0, <2>2 DEF PublisherStep, Verify, Record, Send, Return
  <2>3. ASSUME NEW p \in Publishers, NEW a \in Inputs, CallPublish(p, a)
        PROVE  pc[q] = "send" /\ alert'[q] = alert[q]
    BY <2>0, <2>3 DEF CallPublish
  <2> QED BY <1>1, <2>1, <2>2, <2>3 DEF Next
<1> QED BY <1>2, <1>3

LEMMA ChanStep == IInv /\ [Next]_vars => ChanIsRecorded'
<1> SUFFICES ASSUME IInv, [Next]_vars, NEW s \in Subscribers, NEW i \in 1..Len(chan'[s])
             PROVE  Recorded(chan[s][i])'
  BY DEF ChanIsRecorded
<1>0. /\ chan \in [Subscribers -> Seq(Alert)]
      /\ chan[s] \in Seq(Alert)
      /\ TypeInv
  BY DEF IInv, TypeInv, TypeOK
<1>1. ASSUME NEW a \in Alert, Recorded(a), chan'[s][i] = a PROVE Recorded(chan[s][i])'
  <2>1. a.out \in Outpoints
    BY DEF Alert
  <2>2. \E k \in 1..Len(seen'[a.out]) : seen'[a.out][k].ownerPub = a.owner
    BY <1>0, <1>1, <2>1, RecordedStays
  <2> QED BY <1>1, <2>2 DEF Recorded
<1>2. CASE chan'[s] = chan[s]
  <2>1. chan[s][i] \in Alert /\ Recorded(chan[s][i])
    BY <1>0, <1>2, ElementOfSeq DEF IInv, ChanIsRecorded
  <2> QED BY <1>1, <1>2, <2>1
<1>3. ASSUME NEW r \in Subscribers, Receive(r) PROVE Recorded(chan[s][i])'
  <2>1. CASE r # s
    BY <1>0, <1>2, <1>3, <2>1 DEF Receive
  <2>2. CASE r = s
    <3>1. chan'[s] = Tail(chan[s]) /\ chan[s] # << >>
      BY <1>0, <1>3, <2>2 DEF Receive
    <3>2. Len(chan[s]) \in Nat /\ i + 1 \in 1..Len(chan[s]) /\ chan'[s][i] = chan[s][i + 1]
      <4>1. Len(chan[s]) \in Nat /\ Len(chan'[s]) = Len(chan[s]) - 1
        BY <1>0, <3>1, HeadTailProperties
      <4>2. \A k \in 1..Len(Tail(chan[s])) : Tail(chan[s])[k] = chan[s][k + 1]
        BY <1>0, <3>1, HeadTailProperties
      <4> QED BY <3>1, <4>1, <4>2
    <3>3. chan[s][i + 1] \in Alert /\ Recorded(chan[s][i + 1])
      BY <1>0, <3>2, ElementOfSeq DEF IInv, ChanIsRecorded
    <3> QED BY <1>1, <3>2, <3>3
  <2> QED BY <2>1, <2>2
<1>4. ASSUME NEW p \in Publishers, Send(p) PROVE Recorded(chan[s][i])'
  <2>0. pc[p] = "send"
    BY <1>4 DEF Send
  <2>1. alert[p] \in Alert /\ Recorded(alert[p])
    BY <2>0 DEF IInv, SentIsRecorded, TypeInv, TypeOK
  <2>2. chan' = chan \/ chan' = [chan EXCEPT ![Head(todo[p])] = Append(@, alert[p])]
    BY <1>4 DEF Send
  <2>3. chan'[s] = chan[s] \/ chan'[s] = Append(chan[s], alert[p])
    BY <1>0, <2>2
  <2>4. CASE chan'[s] = Append(chan[s], alert[p])
    <3>1. CASE i \in 1..Len(chan[s])
      <4>1. chan'[s][i] = chan[s][i]
        BY <1>0, <2>1, <2>4, <3>1, AppendProperties
      <4>2. chan[s][i] \in Alert /\ Recorded(chan[s][i])
        BY <1>0, <3>1, ElementOfSeq DEF IInv, ChanIsRecorded
      <4> QED BY <1>1, <4>1, <4>2
    <3>2. CASE i \notin 1..Len(chan[s])
      <4>1. chan'[s][i] = alert[p]
        <5>1. Len(chan[s]) \in Nat /\ Len(chan'[s]) = Len(chan[s]) + 1
              /\ chan'[s][Len(chan[s]) + 1] = alert[p]
          BY <1>0, <2>1, <2>4, AppendProperties
        <5>2. i = Len(chan[s]) + 1
          BY <3>2, <5>1
        <5> QED BY <5>1, <5>2
      <4> QED BY <1>1, <2>1, <4>1
    <3> QED BY <3>1, <3>2
  <2> QED BY <1>2, <2>3, <2>4
<1>5. (\E r \in Subscribers : Receive(r)) \/ (\E p \in Publishers : Send(p)) \/ chan' = chan
  BY DEF Next, vars, PublisherStep, Subscribe, Verify, Record, Return, CallPublish, Tick
<1> QED BY <1>2, <1>3, <1>4, <1>5

LEMMA NextIInv == IInv /\ [Next]_vars => IInv'
BY NextType, EvidenceStep, OrderStep, SentStep, ChanStep DEF IInv

LEMMA Invariance == Spec => []IInv
BY InitIInv, NextIInv, PTL DEF Spec

-----------------------------------------------------------------------------
(***************************************************************************)
(* The theorems.                                                           *)
(***************************************************************************)

\* An observation found by a query is one of seen, with its type.
LEMMA ObservationOf ==
  ASSUME TypeInv, NEW o \in Outpoints, NEW rec \in Observations(o)
  PROVE  /\ \E i \in 1..Len(seen[o]) : rec = seen[o][i]
         /\ rec.ts \in Nat /\ rec.ownerPub \in Keys
<1>1. PICK i \in 1..Len(seen[o]) : rec = seen[o][i]
  BY DEF Observations
<1>2. seen[o] \in Seq([ts : 0..MaxClock, ownerPub : Keys])
  BY DEF TypeInv, TypeOK
<1>3. rec \in [ts : 0..MaxClock, ownerPub : Keys]
  BY <1>1, <1>2, ElementOfSeq
<1> QED BY <1>1, <1>3, BusAssumption

\* I-DS1 and RT-7, for every instance: VerifyAlert and the owner-bound query
\* together leave a payment alone whose spenders have not double-signed.
THEOREM NoForgedAlarmHolds == Spec => []NoForgedAlarm
<1>1. IInv => NoForgedAlarm
  <2> SUFFICES ASSUME IInv, NEW owners \in [Outpoints -> Keys],
                      NEW window \in 0..(MaxClock + 1),
                      \A o \in Outpoints : ~DoubleSigned(owners[o], o),
                      NEW o \in Outpoints, NEW rec \in Observations(o)
               PROVE  owners[o] # NoKey /\ rec.ownerPub # owners[o]
    BY DEF NoForgedAlarm, QuietForOwners
  <2>1. DoubleSigned(rec.ownerPub, o)
    BY ObservationOf DEF IInv, EvidenceInv
  <2> QED BY <2>1, BusAssumption
<1> QED BY <1>1, Invariance, PTL

\* The observations of an outpoint are in time order, for every instance.
THEOREM ObservationsInOrderHolds == Spec => []ObservationsInOrder
<1>1. IInv => ObservationsInOrder
  BY DEF IInv
<1> QED BY <1>1, Invariance, PTL

\* Publish records before it sends, for every instance: what a reader holds,
\* both queries know.
THEOREM HeardMeansNotQuietHolds == Spec => []HeardMeansNotQuiet
<1>1. IInv => HeardMeansNotQuiet
  <2> SUFFICES ASSUME IInv, NEW s \in Subscribers, NEW i \in 1..Len(chan[s])
               PROVE  LET a == chan[s][i]
                      IN  /\ ~QuietFor({a.out}, clock + 1)
                          /\ ~QuietForOwners([o \in {a.out} |-> a.owner], clock + 1)
    BY DEF HeardMeansNotQuiet
  <2> DEFINE a == chan[s][i]
             owners == [o \in {a.out} |-> a.owner]
  <2>1. a \in Alert /\ Recorded(a)
    BY ElementOfSeq DEF IInv, TypeInv, TypeOK, ChanIsRecorded
  <2>2. a.out \in Outpoints
    BY <2>1 DEF Alert
  <2>3. PICK rec \in Observations(a.out) : rec.ownerPub = a.owner
    BY <2>1 DEF Recorded, Observations
  <2>4. clock \in Nat /\ rec.ts \in Nat
    <3>1. clock \in Nat
      BY BusAssumption DEF IInv, TypeInv, TypeOK
    <3> QED BY <3>1, <2>2, <2>3, ObservationOf DEF IInv
  <2>5. InWindow(rec, clock + 1)
    BY <2>4 DEF InWindow
  <2>6. a.out \in DOMAIN owners /\ owners[a.out] = a.owner
    OBVIOUS
  <2>7. ~QuietFor({a.out}, clock + 1)
    BY <2>3, <2>5 DEF QuietFor
  <2>8. ~QuietForOwners(owners, clock + 1)
    BY <2>3, <2>5, <2>6 DEF QuietForOwners
  <2> QED BY <2>7, <2>8
<1> QED BY <1>1, Invariance, PTL

\* Nothing but time ends an alarm, for every instance: no step removes or
\* rewrites an observation.
THEOREM AlarmsOnlyAgeHolds == Spec => AlarmsOnlyAge
<1>1. TypeInv /\ [Next]_vars =>
        [\A o \in Outpoints, k \in Keys, window \in 0..(MaxClock + 1) :
           ~QuietForOwners([x \in {o} |-> k], window)
             => clock' > clock \/ ~QuietForOwners([x \in {o} |-> k], window)']_vars
  <2> SUFFICES ASSUME TypeInv, [Next]_vars,
                      NEW o \in Outpoints, NEW k \in Keys, NEW window \in 0..(MaxClock + 1),
                      ~QuietForOwners([x \in {o} |-> k], window), ~(clock' > clock)
               PROVE  ~QuietForOwners([x \in {o} |-> k], window)'
    OBVIOUS
  <2>1. clock' = clock
    <3>1. clock \in Nat
      BY BusAssumption DEF TypeInv, TypeOK
    <3>2. clock' \in Nat /\ clock <= clock'
      BY SeenStep
    <3> QED BY <3>1, <3>2
  <2>2. PICK rec \in Observations(o) :
           InWindow(rec, window) /\ (k = NoKey \/ rec.ownerPub = k)
    BY DEF QuietForOwners
  <2>3. rec \in Observations(o)'
    <3>1. PICK i \in 1..Len(seen[o]) : rec = seen[o][i]
      BY ObservationOf
    <3>2. CASE seen' = seen
      BY <3>1, <3>2 DEF Observations
    <3>3. ASSUME NEW p \in Publishers, Record(p) PROVE rec \in Observations(o)'
      <4>1. i \in 1..Len(seen'[o]) /\ seen'[o][i] = rec
        BY <3>1, <3>3, RecordSeen
      <4> QED BY <4>1 DEF Observations
    <3> QED BY <3>2, <3>3, SeenStep
  <2> DEFINE own == [x \in {o} |-> k]
  <2>4. InWindow(rec, window)'
    BY <2>1, <2>2 DEF InWindow
  <2>5. o \in DOMAIN own /\ own[o] = k
    OBVIOUS
  <2> QED BY <2>2, <2>3, <2>4, <2>5 DEF QuietForOwners
<1>2. Spec => []TypeInv
  BY Invariance, PTL DEF IInv
<1> QED BY <1>1, <1>2, PTL DEF Spec, AlarmsOnlyAge

-----------------------------------------------------------------------------
(***************************************************************************)
(* AlertBus implements AlertService, for every instance: each step of the  *)
(* bus is a step of the service or leaves what the service shows alone.    *)
(***************************************************************************)
NoDup(seq) == \A i, j \in 1..Len(seq) : seq[i] = seq[j] => i = j

\* What the mapping of Send to one offer needs: no channel is twice in the
\* list or in a copy of it, and a call carries one of the alerts there are.
CallInv ==
  /\ NoDup(subs)
  /\ \A p \in Publishers : NoDup(todo[p])
  /\ \A p \in Publishers : pc[p] # "idle" => alert[p] \in Inputs

LEMMA InitCallInv == Init => CallInv
BY DEF Init, CallInv, NoDup

LEMMA NextCallInv == TypeInv /\ CallInv /\ [Next]_vars => CallInv'
<1> SUFFICES ASSUME TypeInv, CallInv, [Next]_vars PROVE CallInv'
  OBVIOUS
<1>0. /\ subs \in Seq(Subscribers)
      /\ todo \in [Publishers -> Seq(Subscribers)]
      /\ alert \in [Publishers -> Alert \cup {NoAlert}]
      /\ pc \in [Publishers -> {"idle", "verify", "record", "send"}]
  BY DEF TypeInv, TypeOK
<1>1. ASSUME NEW s \in Subscribers, Subscribe(s) PROVE CallInv'
  <2>1. NoDup(Append(subs, s))
    <3>1. \A i \in 1..Len(subs) : subs[i] # s
      BY <1>1 DEF Subscribe, Subscribed
    <3> QED BY <1>0, <3>1 DEF CallInv, NoDup
  <2>2. subs' = Append(subs, s) /\ UNCHANGED <<todo, pc, alert>>
    BY <1>1 DEF Subscribe
  <2> QED BY <2>1, <2>2 DEF CallInv, NoDup
<1>2. ASSUME NEW p \in Publishers, Record(p) PROVE CallInv'
  <2>1. UNCHANGED <<subs, alert>> /\ todo' = [todo EXCEPT ![p] = subs]
        /\ pc' = [pc EXCEPT ![p] = "send"] /\ pc[p] = "record"
    BY <1>2 DEF Record
  <2> QED BY <1>0, <2>1 DEF CallInv, NoDup
<1>3. ASSUME NEW p \in Publishers, Send(p) PROVE CallInv'
  <2>1. UNCHANGED <<subs, alert, pc>> /\ todo' = [todo EXCEPT ![p] = Tail(todo[p])]
        /\ todo[p] # << >>
    BY <1>3 DEF Send
  <2>2. NoDup(Tail(todo[p]))
    <3> DEFINE t == todo[p]
    <3>1. t \in Seq(Subscribers) /\ t # << >> /\ NoDup(t)
      BY <1>0, <2>1 DEF CallInv
    <3>2. Len(Tail(t)) = Len(t) - 1 /\ \A i \in 1..Len(Tail(t)) : Tail(t)[i] = t[i + 1]
      BY <3>1
    <3>3. Len(t) \in Nat
      BY <3>1
    <3> HIDE DEF t
    <3>4. ASSUME NEW i \in 1..Len(Tail(t)), NEW j \in 1..Len(Tail(t)), Tail(t)[i] = Tail(t)[j]
          PROVE  i = j
      <4>1. i + 1 \in 1..Len(t) /\ j + 1 \in 1..Len(t) /\ t[i + 1] = t[j + 1]
        BY <3>2, <3>3, <3>4
      <4>2. i + 1 = j + 1
        BY <3>1, <4>1, Zenon DEF NoDup
      <4> QED BY <3>2, <3>3, <4>2
    <3>5. NoDup(Tail(t))
      BY <3>4, Zenon DEF NoDup
    <3> QED BY <3>5 DEF t
  <2>3. todo'[p] = Tail(todo[p]) /\ \A q \in Publishers : q # p => todo'[q] = todo[q]
    BY <1>0, <2>1
  <2>4. ASSUME NEW q \in Publishers PROVE NoDup(todo'[q])
    <3>1. CASE q = p
      BY <2>2, <2>3, <3>1
    <3>2. CASE q # p
      BY <2>3, <3>2 DEF CallInv
    <3> QED BY <3>1, <3>2
  <2>5. NoDup(subs') /\ \A q \in Publishers : pc'[q] # "idle" => alert'[q] \in Inputs
    BY <2>1 DEF CallInv
  <2> QED BY <2>4, <2>5 DEF CallInv
<1>4. ASSUME NEW p \in Publishers, Verify(p) \/ Return(p) PROVE CallInv'
  BY <1>0, <1>4 DEF Verify, Return, CallInv, NoDup
<1>5. ASSUME NEW p \in Publishers, NEW a \in Inputs, CallPublish(p, a) PROVE CallInv'
  BY <1>0, <1>5 DEF CallPublish, CallInv, NoDup
<1>6. CASE Tick \/ UNCHANGED vars \/ \E s \in Subscribers : Receive(s)
  BY <1>6 DEF Tick, vars, Receive, CallInv, NoDup
<1> QED
  BY <1>1, <1>2, <1>3, <1>4, <1>5, <1>6 DEF Next, PublisherStep

-----------------------------------------------------------------------------
(***************************************************************************)
(* The step simulation.                                                    *)
(***************************************************************************)
ObservedOf(o) == {[out |-> o, owner |-> rec.ownerPub, at |-> rec.ts] : rec \in Observations(o)}

LEMMA InitService == Init => Service!Init
<1> SUFFICES ASSUME Init PROVE Service!Init
  OBVIOUS
<1>1. \A o \in Outpoints : Observations(o) = {}
  BY DEF Init, Observations
<1>2. Subscribed = {}
  BY DEF Init, Subscribed
<1>3. \A p \in Publishers : Owed(p) = {}
  BY DEF Init, Owed
<1> QED BY <1>1, <1>2, <1>3 DEF Init, Service!Init

\* Nothing the service shows has changed.
LEMMA ServiceStutters ==
  ASSUME UNCHANGED <<clock, seen, subs, chan>>,
         \A p \in Publishers : Owed(p)' = Owed(p)
  PROVE  UNCHANGED Service!vars
BY DEF Service!vars, Observations, Subscribed

\* Record stands for the service's Raise.
LEMMA RecordRaises ==
  ASSUME TypeInv, CallInv, NEW p \in Publishers, Record(p)
  PROVE  Service!Next
<1>0. PICK a : a = alert[p]
  OBVIOUS
<1> DEFINE new == [out |-> a.out, owner |-> a.owner, at |-> clock]
<1>1. a \in Inputs /\ a \in Presentable /\ VerifyAlert(a) /\ pc[p] = "record"
  BY <1>0 DEF Record, TypeInv, Checked, CallInv
<1>2. a.out \in Outpoints /\ a.owner \in Keys
  BY <1>1 DEF Presentable, VerifyAlert
<1>3. <<a.owner, a.out>> \in {ko \in Keys \X Outpoints : DoubleSigned(ko[1], ko[2])}
  BY <1>1, <1>2, AdmissibleIsDoubleSigned
<1>4. Owed(p) = {}
  BY <1>1 DEF Owed
<1>5. \A o \in Outpoints : o # a.out => Observations(o)' = Observations(o)
  BY <1>0, RecordSeen DEF Observations
<1>6. Observations(a.out)' = Observations(a.out) \cup {[ts |-> clock, ownerPub |-> a.owner]}
  <2> DEFINE r == [ts |-> clock, ownerPub |-> a.owner]
             old == seen[a.out]
  <2>1. old \in Seq([ts : 0..MaxClock, ownerPub : Keys])
    BY <1>2 DEF TypeInv, TypeOK
  <2>2. seen'[a.out] = Append(old, r)
    BY <1>0, <1>2 DEF Record, TypeInv, TypeOK
  <2>3. r \in [ts : 0..MaxClock, ownerPub : Keys]
    BY <1>2 DEF TypeInv, TypeOK
  <2> HIDE DEF r, old
  <2>0. Len(old) \in Nat
    BY <2>1
  <2>4. /\ Len(Append(old, r)) = Len(old) + 1
        /\ Append(old, r)[Len(old) + 1] = r
        /\ \A i \in 1..Len(old) : Append(old, r)[i] = old[i]
    BY <2>1, <2>3, AppendProperties
  <2>5. {Append(old, r)[i] : i \in 1..Len(Append(old, r))} = {old[i] : i \in 1..Len(old)} \cup {r}
    BY <2>0, <2>4
  <2>6. Observations(a.out)' = {Append(old, r)[i] : i \in 1..Len(Append(old, r))}
    BY <2>2, Zenon DEF Observations
  <2>7. Observations(a.out) = {old[i] : i \in 1..Len(old)}
    BY Zenon DEF Observations, old
  <2>8. Observations(a.out)' = Observations(a.out) \cup {r}
    BY <2>5, <2>6, <2>7, Zenon
  <2> QED BY <2>8, Zenon DEF r
<1>7. (UNION {ObservedOf(o) : o \in Outpoints})' = (UNION {ObservedOf(o) : o \in Outpoints}) \cup {new}
  <2> DEFINE r == [ts |-> clock, ownerPub |-> a.owner]
             Obs(o) == Observations(o)
             New(o) == Observations(o)'
             Of(o, S) == {[out |-> o, owner |-> rec.ownerPub, at |-> rec.ts] : rec \in S}
  <2>0. r.ownerPub = a.owner /\ r.ts = clock
    OBVIOUS
  <2>1. New(a.out) = Obs(a.out) \cup {r}
    BY <1>6
  <2>2. \A o \in Outpoints : o # a.out => New(o) = Obs(o)
    BY <1>5
  <2>3. (UNION {ObservedOf(o) : o \in Outpoints}) = UNION {Of(o, Obs(o)) : o \in Outpoints}
    BY DEF ObservedOf
  <2>4. (UNION {ObservedOf(o) : o \in Outpoints})' = UNION {Of(o, New(o)) : o \in Outpoints}
    BY DEF ObservedOf
  <2>5. a.out \in Outpoints /\ new = [out |-> a.out, owner |-> r.ownerPub, at |-> r.ts]
    BY <1>2, <2>0
  <2> HIDE DEF r, new, Obs, New
  <2>6. Of(a.out, New(a.out)) = Of(a.out, Obs(a.out)) \cup {new}
    BY <2>1, <2>5
  <2> HIDE DEF Of
  <2>7. \A o \in Outpoints : o # a.out => Of(o, New(o)) = Of(o, Obs(o))
    BY <2>2
  <2>8. UNION {Of(o, New(o)) : o \in Outpoints} = (UNION {Of(o, Obs(o)) : o \in Outpoints}) \cup {new}
    BY <2>5, <2>6, <2>7
  <2> QED BY <2>3, <2>4, <2>8
<1>8. Owed(p)' = Subscribed \X {a}
  <2>1. todo'[p] = subs /\ pc'[p] = "send" /\ alert' = alert
    BY DEF Record, TypeInv, TypeOK
  <2> QED BY <1>0, <2>1 DEF Owed, Subscribed
<1>9. \A q \in Publishers : q # p => Owed(q)' = Owed(q)
  BY DEF Record, TypeInv, TypeOK, Owed
<1>10. [q \in Publishers |-> Owed(q)]' = [[q \in Publishers |-> Owed(q)] EXCEPT ![p] = Subscribed \X {a}]
  BY <1>8, <1>9
<1>11. UNCHANGED <<clock, Subscribed, chan>>
  BY DEF Record, Subscribed
<1>12. Service!Raise(p, a)
  BY <1>3, <1>4, <1>7, <1>10, <1>11 DEF Service!Raise, ObservedOf
<1> HIDE DEF new
<1> QED BY <1>1, <1>12 DEF Service!Next

\* Send stands for one Offer.
LEMMA SendOffers ==
  ASSUME TypeInv, CallInv, NEW p \in Publishers, Send(p)
  PROVE  Service!Next
<1>0. PICK t, s, a : t = todo[p] /\ s = Head(t) /\ a = alert[p]
  OBVIOUS
<1>1. /\ t \in Seq(Subscribers) /\ t # << >> /\ NoDup(t)
      /\ a \in Inputs /\ pc[p] = "send"
      /\ todo' = [todo EXCEPT ![p] = Tail(t)]
      /\ UNCHANGED <<clock, seen, subs, pc, alert>>
  BY <1>0 DEF Send, TypeInv, TypeOK, CallInv
<1>2. {Tail(t)[i] : i \in 1..Len(Tail(t))} = {t[i] : i \in 1..Len(t)} \ {s}
  <2>1. Len(Tail(t)) = Len(t) - 1 /\ \A i \in 1..Len(Tail(t)) : Tail(t)[i] = t[i + 1]
    BY <1>1
  <2>2. Len(t) \in Nat /\ Len(t) > 0 /\ s = t[1]
    BY <1>0, <1>1
  <2>3. NoDup(t)
    BY <1>1
  <2>4. ASSUME NEW i \in 1..Len(Tail(t)) PROVE Tail(t)[i] \in {t[j] : j \in 1..Len(t)} \ {s}
    <3>1. i + 1 \in 1..Len(t) /\ 1 \in 1..Len(t) /\ i + 1 # 1
      BY <2>1, <2>2
    <3>2. t[i + 1] # t[1]
      BY <2>3, <3>1 DEF NoDup
    <3> QED BY <2>1, <2>2, <3>1, <3>2
  <2>5. ASSUME NEW j \in 1..Len(t), t[j] # s PROVE \E i \in 1..Len(Tail(t)) : Tail(t)[i] = t[j]
    <3>1. j - 1 \in 1..Len(Tail(t)) /\ (j - 1) + 1 = j
      BY <2>1, <2>2, <2>5
    <3> QED BY <2>1, <3>1
  <2> QED BY <2>4, <2>5
<1>3. s \in {t[i] : i \in 1..Len(t)} /\ s \in Subscribers
  BY <1>0, <1>1
<1>4. Owed(p) = {t[i] : i \in 1..Len(t)} \X {a}
  BY <1>0, <1>1 DEF Owed
<1>5. Owed(p)' = Owed(p) \ {<<s, a>>}
  <2>1. Owed(p)' = {Tail(t)[i] : i \in 1..Len(Tail(t))} \X {a}
    BY <1>0, <1>1 DEF Owed, TypeInv, TypeOK
  <2>2. ASSUME NEW A, NEW x PROVE (A \ {x}) \X {a} = (A \X {a}) \ {<<x, a>>}
    BY SMT
  <2> DEFINE A == {t[i] : i \in 1..Len(t)}
             B == {Tail(t)[i] : i \in 1..Len(Tail(t))}
  <2>3. B = A \ {s} /\ Owed(p) = A \X {a} /\ Owed(p)' = B \X {a}
    BY <1>2, <1>4, <2>1
  <2> HIDE DEF A, B
  <2>4. (A \ {s}) \X {a} = (A \X {a}) \ {<<s, a>>}
    BY <2>2
  <2> QED BY <2>3, <2>4
<1>6. \A q \in Publishers : q # p => Owed(q)' = Owed(q)
  BY <1>1 DEF Owed, TypeInv, TypeOK
<1>7. [q \in Publishers |-> Owed(q)]'
        = [[q \in Publishers |-> Owed(q)] EXCEPT ![p] = Owed(p) \ {<<s, a>>}]
  BY <1>5, <1>6
<1>8. <<s, a>> \in Owed(p)
  BY <1>3, <1>4
<1>9. \/ Len(chan[s]) < ChanCap /\ chan' = [chan EXCEPT ![s] = Append(chan[s], a)]
      \/ Len(chan[s]) = ChanCap /\ UNCHANGED chan
  <2>1. Len(chan[s]) <= ChanCap /\ Len(chan[s]) \in Nat /\ ChanCap \in Nat
    BY <1>3, BusAssumption DEF TypeInv, TypeOK
  <2> QED BY <1>0, <2>1 DEF Send
<1>10. UNCHANGED <<clock, Subscribed, UNION {ObservedOf(o) : o \in Outpoints}>>
  BY <1>1 DEF Subscribed, ObservedOf, Observations
<1>11. Service!Offer(p, s, a)
  BY <1>7, <1>8, <1>9, <1>10 DEF Service!Offer, ObservedOf
<1> QED BY <1>1, <1>3, <1>11 DEF Service!Next

LEMMA StepService == TypeInv /\ CallInv /\ [Next]_vars => [Service!Next]_(Service!vars)
<1> SUFFICES ASSUME TypeInv, CallInv, [Next]_vars PROVE [Service!Next]_(Service!vars)
  OBVIOUS
<1>0. /\ pc \in [Publishers -> {"idle", "verify", "record", "send"}]
      /\ alert \in [Publishers -> Alert \cup {NoAlert}]
  BY DEF TypeInv, TypeOK
<1>1. ASSUME NEW s \in Subscribers, Subscribe(s) PROVE Service!Next
  <2>1. subs' = Append(subs, s) /\ s \notin Subscribed /\ UNCHANGED <<clock, seen, chan, pc, todo, alert>>
    BY <1>1 DEF Subscribe
  <2>2. Subscribed' = Subscribed \cup {s}
    <3>1. subs \in Seq(Subscribers)
      BY DEF TypeInv, TypeOK
    <3>2. /\ Len(Append(subs, s)) = Len(subs) + 1
          /\ Append(subs, s)[Len(subs) + 1] = s
          /\ \A i \in 1..Len(subs) : Append(subs, s)[i] = subs[i]
          /\ Len(subs) \in Nat
      BY <3>1, AppendProperties
    <3> QED BY <2>1, <3>2 DEF Subscribed
  <2>3. Service!Join(s)
    BY <2>1, <2>2 DEF Service!Join, Observations, Owed
  <2> QED BY <2>3 DEF Service!Next
<1>2. ASSUME NEW s \in Subscribers, Receive(s) PROVE Service!Next
  <2>1. Service!Take(s)
    BY <1>2 DEF Receive, Service!Take, Observations, Owed, Subscribed
  <2> QED BY <2>1 DEF Service!Next
<1>3. CASE Tick
  <2>1. Service!Pass
    BY <1>3 DEF Tick, Service!Pass, Observations, Owed, Subscribed
  <2> QED BY <2>1 DEF Service!Next
<1>4. ASSUME NEW p \in Publishers, NEW a \in Inputs, CallPublish(p, a)
      PROVE  UNCHANGED Service!vars
  <2>0. /\ pc[p] = "idle" /\ pc'[p] = "verify" /\ UNCHANGED todo
        /\ \A q \in Publishers : q # p => pc'[q] = pc[q] /\ alert'[q] = alert[q]
    BY <1>0, <1>4 DEF CallPublish
  <2>1. \A q \in Publishers : Owed(q)' = Owed(q)
    BY <2>0 DEF Owed
  <2> QED BY <1>4, <2>1, ServiceStutters DEF CallPublish
<1>5. ASSUME NEW p \in Publishers, Verify(p) PROVE UNCHANGED Service!vars
  <2>0. /\ pc[p] = "verify" /\ pc'[p] # "send" /\ UNCHANGED todo
        /\ \A q \in Publishers : q # p => pc'[q] = pc[q] /\ alert'[q] = alert[q]
    BY <1>0, <1>5 DEF Verify
  <2>1. \A q \in Publishers : Owed(q)' = Owed(q)
    BY <2>0 DEF Owed
  <2> QED BY <1>5, <2>1, ServiceStutters DEF Verify
<1>6. ASSUME NEW p \in Publishers, Return(p) PROVE UNCHANGED Service!vars
  <2>1. todo[p] = << >> /\ pc[p] = "send" /\ pc'[p] = "idle" /\ UNCHANGED todo
        /\ \A q \in Publishers : q # p => pc'[q] = pc[q] /\ alert'[q] = alert[q]
    BY <1>0, <1>6 DEF Return
  <2>2. Owed(p) = {} /\ Owed(p)' = {}
    BY <2>1 DEF Owed
  <2>3. \A q \in Publishers : q # p => Owed(q)' = Owed(q)
    BY <2>1 DEF Owed
  <2> QED BY <1>6, <2>2, <2>3, ServiceStutters DEF Return
<1>7. CASE UNCHANGED vars
  BY <1>7, ServiceStutters DEF vars, Owed
<1> QED
  BY <1>1, <1>2, <1>3, <1>4, <1>5, <1>6, <1>7, RecordRaises, SendOffers DEF Next, PublisherStep

\* "All subscribers receive verified alerts", for every instance: the bus
\* records and fans out as AlertService says, so an alert needs evidence, is
\* offered once to each subscriber of its moment, and is missed only by one
\* whose channel is full.
THEOREM BusImplementsService == Spec => ImplementsAlertService
<1>1. Spec => [](TypeInv /\ CallInv)
  <2>1. Init => TypeInv /\ CallInv
    BY InitType, InitCallInv
  <2>2. (TypeInv /\ CallInv) /\ [Next]_vars => (TypeInv /\ CallInv)'
    BY NextType, NextCallInv
  <2> QED BY <2>1, <2>2, PTL DEF Spec
<1> QED BY <1>1, InitService, StepService, PTL DEF Spec, ImplementsAlertService, Service!Spec
=============================================================================
