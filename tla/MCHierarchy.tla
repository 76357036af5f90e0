---------------------------- MODULE MCHierarchy ----------------------------
\* Transactions of one field and of three; w has a field of 63 bytes, the rest
\* are ordinary; c is never mined.
EXTENDS Pull, TLC

CONSTANTS a, b, c, w, bytes1, bytes2, bytes3, half1, half2

Fields ==
  (a :> <<Field(0, bytes1), Field(1, bytes2), Field(2, bytes3)>>) @@
  (b :> <<Field(0, bytes2)>>) @@
  (c :> <<Field(0, bytes3)>>) @@
  (w :> <<Field(0, bytes1), WideField(1, half1, half2)>>)

\* A worker alone on up to two groups, two workers with a group each, and three
\* workers with too little and with just enough for a group each.
Call(n, cores, u, passes) == [wanted |-> n, cores |-> cores, unknown |-> u, passes |-> passes]

PullCalls ==
  {Call(n, 1, 0, 2) : n \in 1..4} \cup {Call(4, 1, u, 2) : u \in 1..4} \cup
  {Call(4, 2, u, 2) : u \in {0, 2, 3}} \cup
  {Call(n, 3, 0, 1) : n \in {1, 3, 5, 6}}
=============================================================================
