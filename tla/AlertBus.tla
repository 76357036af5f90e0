------------------------------ MODULE AlertBus ------------------------------
(***************************************************************************)
(* The double-spend alert layer (dsalert/dsalert.go): who may raise an     *)
(* alert (VerifyAlert), how Bus.Publish records it and fans it out, and    *)
(* what the two quiet-window queries answer.                               *)
(*                                                                         *)
(* Publish checks the alert without the lock, records it and copies the    *)
(* subscriber list under the lock, and sends after the unlock, one channel *)
(* at a time and never blocking.  Each of these is a step here, so any     *)
(* number of publishers, readers and clock ticks interleave as they do in  *)
(* the program.                                                            *)
(*                                                                         *)
(* The cryptography is symbolic: a signature is a record of who signed     *)
(* which spend of which outpoint and whether it is in low-S form, and      *)
(* Signed is the set of signatures that were ever made.                    *)
(***************************************************************************)
EXTENDS Integers, Sequences, FiniteSets

CONSTANTS
  Publishers,   \* goroutines that call Publish
  Subscribers,  \* channels that Subscribe may hand out
  Keys,         \* owner public keys that parse
  NoKey,        \* the empty key, which ParseCompressed refuses
  Outpoints,
  Spends,       \* txids of spending transactions, Zero among them
  Zero,         \* Hash{}: an empty spend
  Signed,       \* the signatures key holders have made
  Inputs,       \* the alerts Publish is called with
  ChanCap,      \* capacity of a subscriber's channel (64 in the code)
  NoAlert,      \* a publisher between two calls holds no alert
  MaxClock,     \* bound: the clock stops there
  MaxPublish    \* bound: alerts recorded for one outpoint

Signature == [key : Keys, out : Outpoints, spend : Spends, lowS : BOOLEAN]

\* The high-S twin of a signature verifies too (crypto.Malleate).
Malleated(sig) == [sig EXCEPT !.lowS = ~@]

(***************************************************************************)
(* An alert names its outpoint and carries the evidence: an owner key and  *)
(* two spends with a signature each.  A spend is the one its signature     *)
(* names, and pow tells whether the nonce meets PoWBits.                   *)
(***************************************************************************)
Alert == [out : Outpoints, owner : Keys \cup {NoKey},
          sigA : Signature, sigB : Signature, pow : BOOLEAN]

\* Signatures someone can put into an alert: those made, and their twins.
Available == Signed \cup {Malleated(s) : s \in Signed}
Presentable == [out : Outpoints, owner : Keys \cup {NoKey},
                sigA : Available, sigB : Available, pow : BOOLEAN]

ASSUME BusAssumption ==
  /\ Signed \subseteq Signature
  /\ Inputs \subseteq Presentable
  /\ NoKey \notin Keys
  /\ NoAlert \notin Alert
  /\ ChanCap \in Nat \ {0}
  /\ MaxClock \in Nat
  /\ MaxPublish \in Nat

\* crypto.Verify of the owner's signature over H(outpoint || spend).
SignatureProves(owner, out, sig) == sig.key = owner /\ sig.out = out

\* Mutant of VerifyAlert: the same spend signed twice counts as a conflict.
VerifyAlertSameSpend(a) ==
  /\ a.sigA.spend # Zero /\ a.sigB.spend # Zero
  /\ a.owner \in Keys
  /\ a.sigA.lowS /\ a.sigB.lowS
  /\ SignatureProves(a.owner, a.out, a.sigA)
  /\ SignatureProves(a.owner, a.out, a.sigB)
  /\ a.pow

\* I-DS1: an alert is admissible only with owner-signed evidence of a
\* conflict, in canonical form, and attested by work.
VerifyAlert(a) ==
  /\ a.sigA.spend # a.sigB.spend
  /\ a.sigA.spend # Zero /\ a.sigB.spend # Zero
  /\ a.owner \in Keys
  /\ a.sigA.lowS /\ a.sigB.lowS
  /\ SignatureProves(a.owner, a.out, a.sigA)
  /\ SignatureProves(a.owner, a.out, a.sigB)
  /\ a.pow

-----------------------------------------------------------------------------
VARIABLES
  clock,    \* what b.now() reads
  seen,     \* outpoint -> sequence of alertRec [ts, ownerPub]
  subs,     \* channels in the order they were subscribed
  chan,     \* subscriber -> alerts waiting in its channel
  pc,       \* publisher -> "idle", "verify", "record" or "send"
  alert,    \* publisher -> the alert it is publishing
  todo      \* publisher -> channels of its snapshot not yet tried

vars == <<clock, seen, subs, chan, pc, alert, todo>>

TypeOK ==
  /\ clock \in 0..MaxClock
  /\ seen \in [Outpoints -> Seq([ts : 0..MaxClock, ownerPub : Keys])]
  /\ subs \in Seq(Subscribers)
  /\ chan \in [Subscribers -> Seq(Alert)]
  /\ \A s \in Subscribers : Len(chan[s]) <= ChanCap
  /\ pc \in [Publishers -> {"idle", "verify", "record", "send"}]
  /\ alert \in [Publishers -> Alert \cup {NoAlert}]
  /\ \A p \in Publishers : pc[p] # "idle" => alert[p] \in Alert
  /\ todo \in [Publishers -> Seq(Subscribers)]

Init ==
  /\ clock = 0
  /\ seen = [o \in Outpoints |-> << >>]
  /\ subs = << >>
  /\ chan = [s \in Subscribers |-> << >>]
  /\ pc = [p \in Publishers |-> "idle"]
  /\ alert = [p \in Publishers |-> NoAlert]
  /\ todo = [p \in Publishers |-> << >>]

Subscribed == {subs[i] : i \in 1..Len(subs)}

\* Subscribe: a new empty channel joins the list, under the lock.
Subscribe(s) ==
  /\ s \notin Subscribed
  /\ subs' = Append(subs, s)
  /\ UNCHANGED <<clock, seen, chan, pc, alert, todo>>

\* Publish is called with some alert.
CallPublish(p, a) ==
  /\ pc[p] = "idle"
  /\ pc' = [pc EXCEPT ![p] = "verify"]
  /\ alert' = [alert EXCEPT ![p] = a]
  /\ UNCHANGED <<clock, seen, subs, chan, todo>>

\* Mutant of Verify: the evidence is not looked at.
VerifyUnchecked(p) ==
  /\ pc[p] = "verify"
  /\ pc' = [pc EXCEPT ![p] = "record"]
  /\ UNCHANGED <<clock, seen, subs, chan, alert, todo>>

\* An inadmissible alert is dropped silently.
Verify(p) ==
  /\ pc[p] = "verify"
  /\ IF VerifyAlert(alert[p])
     THEN pc' = [pc EXCEPT ![p] = "record"] /\ UNCHANGED alert
     ELSE pc' = [pc EXCEPT ![p] = "idle"] /\ alert' = [alert EXCEPT ![p] = NoAlert]
  /\ UNCHANGED <<clock, seen, subs, chan, todo>>

\* Mutant of Record: the new observation goes in front of the older ones.
RecordAtFront(p) ==
  /\ pc[p] = "record"
  /\ LET a == alert[p]
     IN  /\ Len(seen[a.out]) < MaxPublish
         /\ seen' = [seen EXCEPT ![a.out] = <<[ts |-> clock, ownerPub |-> a.owner]>> \o @]
  /\ todo' = [todo EXCEPT ![p] = subs]
  /\ pc' = [pc EXCEPT ![p] = "send"]
  /\ UNCHANGED <<clock, subs, chan, alert>>

\* Mutant of Record: one observation is kept per outpoint, the newest.
RecordNewestOnly(p) ==
  /\ pc[p] = "record"
  /\ LET a == alert[p]
     IN  /\ Len(seen[a.out]) < MaxPublish
         /\ seen' = [seen EXCEPT ![a.out] = <<[ts |-> clock, ownerPub |-> a.owner]>>]
  /\ todo' = [todo EXCEPT ![p] = subs]
  /\ pc' = [pc EXCEPT ![p] = "send"]
  /\ UNCHANGED <<clock, subs, chan, alert>>

\* Under the lock: the clock is read, the observation appended, the
\* subscriber list copied.
Record(p) ==
  /\ pc[p] = "record"
  /\ LET a == alert[p]
     IN  /\ Len(seen[a.out]) < MaxPublish
         /\ seen' = [seen EXCEPT ![a.out] = Append(@, [ts |-> clock, ownerPub |-> a.owner])]
  /\ todo' = [todo EXCEPT ![p] = subs]
  /\ pc' = [pc EXCEPT ![p] = "send"]
  /\ UNCHANGED <<clock, subs, chan, alert>>

\* Mutant of Send: a plain channel send, which waits for room.
SendBlocks(p) ==
  /\ pc[p] = "send"
  /\ todo[p] # << >>
  /\ LET s == Head(todo[p])
     IN  /\ Len(chan[s]) < ChanCap
         /\ chan' = [chan EXCEPT ![s] = Append(@, alert[p])]
  /\ todo' = [todo EXCEPT ![p] = Tail(@)]
  /\ UNCHANGED <<clock, seen, subs, pc, alert>>

\* Mutant of Send: a full channel ends the fan-out.
SendStopsAtFull(p) ==
  /\ pc[p] = "send"
  /\ todo[p] # << >>
  /\ LET s == Head(todo[p])
     IN  IF Len(chan[s]) < ChanCap
         THEN /\ chan' = [chan EXCEPT ![s] = Append(@, alert[p])]
              /\ todo' = [todo EXCEPT ![p] = Tail(@)]
         ELSE /\ todo' = [todo EXCEPT ![p] = << >>]
              /\ UNCHANGED chan
  /\ UNCHANGED <<clock, seen, subs, pc, alert>>

\* After the unlock: the next channel of the snapshot takes the alert if it
\* has room, and is passed over if it is full.
Send(p) ==
  /\ pc[p] = "send"
  /\ todo[p] # << >>
  /\ LET s == Head(todo[p])
     IN  IF Len(chan[s]) < ChanCap
         THEN /\ chan' = [chan EXCEPT ![s] = Append(@, alert[p])]
              ELSE UNCHANGED chan
  /\ todo' = [todo EXCEPT ![p] = Tail(@)]
  /\ UNCHANGED <<clock, seen, subs, pc, alert>>

\* Publish returns true.
Return(p) ==
  /\ pc[p] = "send"
  /\ todo[p] = << >>
  /\ pc' = [pc EXCEPT ![p] = "idle"]
  /\ alert' = [alert EXCEPT ![p] = NoAlert]
  /\ UNCHANGED <<clock, seen, subs, chan, todo>>

\* The owner of a channel takes an alert out of it, or never does.
Receive(s) ==
  /\ chan[s] # << >>
  /\ chan' = [chan EXCEPT ![s] = Tail(@)]
  /\ UNCHANGED <<clock, seen, subs, pc, alert, todo>>

Tick ==
  /\ clock < MaxClock
  /\ clock' = clock + 1
  /\ UNCHANGED <<seen, subs, chan, pc, alert, todo>>

PublisherStep(p) == Verify(p) \/ Record(p) \/ Send(p) \/ Return(p)

Next ==
  \/ \E s \in Subscribers : Subscribe(s) \/ Receive(s)
  \/ \E p \in Publishers : PublisherStep(p)
  \/ \E p \in Publishers, a \in Inputs : CallPublish(p, a)
  \/ Tick

Spec == Init /\ [][Next]_vars

\* A running goroutine keeps running; readers and the clock owe nothing.
FairSpec == Spec /\ \A p \in Publishers : WF_vars(PublisherStep(p))

-----------------------------------------------------------------------------
(***************************************************************************)
(* The queries.  They hold the lock for the whole scan, so each is one     *)
(* atomic look at seen and the clock.  A record counts while it is         *)
(* strictly younger than the window: ts.After(now - window).               *)
(***************************************************************************)
InWindow(rec, window) == rec.ts > clock - window
Observations(o) == {seen[o][i] : i \in 1..Len(seen[o])}

QuietFor(outpoints, window) ==
  \A o \in outpoints : \A rec \in Observations(o) : ~InWindow(rec, window)

\* owners maps each outpoint to the key that spends it in the payment; the
\* empty key accepts any signer.  An outpoint that is not a key of the map
\* is not looked at.
QuietForOwners(owners, window) ==
  \A o \in DOMAIN owners : \A rec \in Observations(o) :
     ~(InWindow(rec, window) /\ (owners[o] = NoKey \/ rec.ownerPub = owners[o]))

-----------------------------------------------------------------------------
(***************************************************************************)
(* Properties                                                              *)
(***************************************************************************)

\* The holder of k has signed two different spends of o, neither of them
\* empty.
DoubleSigned(k, o) ==
  \E s, t \in Signed : /\ s.key = k /\ t.key = k
                        /\ s.out = o /\ t.out = o
                        /\ s.spend # t.spend
                        /\ Zero \notin {s.spend, t.spend}

\* I-DS1 and RT-7: whatever alerts anyone publishes, in whatever order, a
\* payment none of whose spenders has double-signed its outpoint always finds
\* the bus quiet: no third party can raise an alarm against it.
NoForgedAlarm ==
  \A owners \in [Outpoints -> Keys], window \in 0..(MaxClock + 1) :
     (\A o \in Outpoints : ~DoubleSigned(owners[o], o))
        => QuietForOwners(owners, window)

\* The observations of an outpoint are in time order and none is in the
\* future, although publishers overlap: Publish reads the clock under the
\* lock that orders the appends.
ObservationsInOrder ==
  \A o \in Outpoints : \A i, j \in 1..Len(seen[o]) :
     i <= j => seen[o][i].ts <= seen[o][j].ts /\ seen[o][j].ts <= clock

\* Publish records before it fans out: a reader that finds an alert in its
\* channel and then asks the bus is told of it, by both queries, unless the
\* observation has left the window (here the widest one).
HeardMeansNotQuiet ==
  \A s \in Subscribers : \A i \in 1..Len(chan[s]) :
     LET a == chan[s][i]
     IN  /\ ~QuietFor({a.out}, clock + 1)
         /\ ~QuietForOwners([o \in {a.out} |-> a.owner], clock + 1)

\* Nothing but time ends an alarm: no publication, subscription or read
\* turns a query that was not quiet into one that is.
AlarmsOnlyAge ==
  [][\A o \in Outpoints, k \in Keys, window \in 0..(MaxClock + 1) :
       ~QuietForOwners([x \in {o} |-> k], window)
         => clock' > clock \/ ~QuietForOwners([x \in {o} |-> k], window)']_vars

\* The comment on the send loop ("never block the publisher"): a publisher
\* that has recorded its alert returns, even if no channel is ever read.
PublisherReturns == \A p \in Publishers : pc[p] = "send" ~> pc[p] = "idle"

\* The offers publisher p has not made yet.
Owed(p) ==
  IF pc[p] = "send" THEN {todo[p][i] : i \in 1..Len(todo[p])} \X {alert[p]} ELSE {}

Service == INSTANCE AlertService WITH
  Callers <- Publishers,
  Alerts <- Inputs,
  Offenders <- {ko \in Keys \X Outpoints : DoubleSigned(ko[1], ko[2])},
  InboxCap <- ChanCap,
  now <- clock,
  observed <- UNION {{[out |-> o, owner |-> rec.ownerPub, at |-> rec.ts] :
                        rec \in Observations(o)} : o \in Outpoints},
  joined <- Subscribed,
  owed <- [p \in Publishers |-> Owed(p)],
  inbox <- chan

\* The comment on Subscribe ("all subscribers receive verified alerts"), as
\* far as the code keeps it: every step of Publish, Subscribe and a reader is
\* a step of AlertService or leaves it alone, so whoever was subscribed when
\* an alert was recorded is offered it once and misses it only when full.
ImplementsAlertService == Service!Spec
=============================================================================
