---------------------------- MODULE AlertService ----------------------------
(***************************************************************************)
(* What the alert layer promises, with no publishers' steps in it: an      *)
(* alert raised on real evidence is remembered with its time, and every    *)
(* subscriber of that moment is offered it exactly once, in no promised    *)
(* order, and misses it only if its inbox is full at that moment.          *)
(***************************************************************************)
EXTENDS Integers, Sequences, FiniteSets

CONSTANTS
  Callers,      \* who may have a call of Publish open
  Subscribers,
  Alerts,       \* what may be raised: [out, owner, ...]
  Offenders,    \* <<owner, outpoint>> for each owner that double-signed it
  InboxCap

VARIABLES
  now,
  observed,     \* the remembered alarms [out, owner, at]
  joined,       \* the subscribers of this moment
  owed,         \* caller -> the offers <<subscriber, alert>> it still owes
  inbox

vars == <<now, observed, joined, owed, inbox>>

Init ==
  /\ now = 0
  /\ observed = {}
  /\ joined = {}
  /\ owed = [c \in Callers |-> {}]
  /\ inbox = [s \in Subscribers |-> << >>]

Join(s) ==
  /\ s \notin joined
  /\ joined' = joined \cup {s}
  /\ UNCHANGED <<now, observed, owed, inbox>>

\* An alarm needs an offender, is stamped with the time, and is owed to the
\* subscribers there are.
Raise(c, a) ==
  /\ owed[c] = {}
  /\ <<a.owner, a.out>> \in Offenders
  /\ observed' = observed \cup {[out |-> a.out, owner |-> a.owner, at |-> now]}
  /\ owed' = [owed EXCEPT ![c] = joined \X {a}]
  /\ UNCHANGED <<now, joined, inbox>>

Offer(c, s, a) ==
  /\ <<s, a>> \in owed[c]
  /\ owed' = [owed EXCEPT ![c] = @ \ {<<s, a>>}]
  /\ \/ /\ Len(inbox[s]) < InboxCap
        /\ inbox' = [inbox EXCEPT ![s] = Append(@, a)]
     \/ /\ Len(inbox[s]) = InboxCap
        /\ UNCHANGED inbox
  /\ UNCHANGED <<now, observed, joined>>

Take(s) ==
  /\ inbox[s] # << >>
  /\ inbox' = [inbox EXCEPT ![s] = Tail(@)]
  /\ UNCHANGED <<now, observed, joined, owed>>

Pass ==
  /\ now' = now + 1
  /\ UNCHANGED <<observed, joined, owed, inbox>>

Next ==
  \/ \E s \in Subscribers : Join(s) \/ Take(s)
  \/ \E c \in Callers, a \in Alerts : Raise(c, a)
  \/ \E c \in Callers, s \in Subscribers, a \in Alerts : Offer(c, s, a)
  \/ Pass

Spec == Init /\ [][Next]_vars
=============================================================================
