----------------------------- MODULE MCAlertBus -----------------------------
(***************************************************************************)
(* An instance of AlertBus.  k1 and k2 have each signed two spends of o1,  *)
(* in canonical form: two genuine conflicts over one outpoint.  Of o2, k2  *)
(* has signed one spend and an empty one, and k1 nothing: nobody can be    *)
(* shown to have double-spent it.  k3 has signed nothing.                  *)
(***************************************************************************)
EXTENDS AlertBus, TLC

CONSTANTS p1, p2, c1, c2, k1, k2, k3, o1, o2, s1, s2

Sig(k, o, s) == [key |-> k, out |-> o, spend |-> s, lowS |-> TRUE]

TwoConflicts == {Sig(k, o1, s) : k \in {k1, k2}, s \in {s1, s2}}
                   \cup {Sig(k2, o2, s1), Sig(k2, o2, Zero)}

Evidence(o, k, a, b) == [out |-> o, owner |-> k, sigA |-> a, sigB |-> b, pow |-> TRUE]
Conflict(k) == Evidence(o1, k, Sig(k, o1, s1), Sig(k, o1, s2))

\* One admissible alert for each conflict, and one alert for each way of not
\* being admissible: one spend twice, an empty spend, another owner's
\* signatures, signatures of another outpoint, a high-S twin on either side,
\* no owner key, no work.
Offered ==
  {Conflict(k1), Conflict(k2),
   Evidence(o2, k2, Sig(k2, o2, s1), Sig(k2, o2, s1)),
   Evidence(o2, k2, Sig(k2, o2, s1), Sig(k2, o2, Zero)),
   Evidence(o1, k3, Sig(k1, o1, s1), Sig(k1, o1, s2)),
   Evidence(o2, k1, Sig(k1, o1, s1), Sig(k1, o1, s2)),
   [Conflict(k1) EXCEPT !.sigA = Malleated(@)],
   [Conflict(k1) EXCEPT !.sigB = Malleated(@)],
   [Conflict(k1) EXCEPT !.owner = NoKey],
   [Conflict(k1) EXCEPT !.pow = FALSE]}
=============================================================================
