----------------------------- MODULE WireProofs ------------------------------
(***************************************************************************)
(* The wire formats of Codec, in which bundles, payment messages and       *)
(* batches of proofs travel, for every object that they can hold and every *)
(* damage that Wire's medium may do.                                       *)
(*                                                                         *)
(* Reads(R, w, v) says that a reader takes v from the units w and leaves   *)
(* what follows them, and Refuses(R, w) that it fails on w whatever        *)
(* follows.  A reader is Local if what it reads depends only on the units  *)
(* that it takes; it Decodes a writer if it reads every object it takes    *)
(* from what is written for it and refuses the others, and Reencodes it if *)
(* whatever it reads is written in as many units and read back the same.   *)
(* Every combinator of readers keeps all three, so each format has them.   *)
(* The second parser of a batch goes by offsets: the last part relates it  *)
(* to the first, proof by proof.                                           *)
(***************************************************************************)
EXTENDS Wire, MerkleProofs

-----------------------------------------------------------------------------
(***************************************************************************)
(* Units                                                                   *)
(***************************************************************************)
LEMMA ConcatUnits ==
  ASSUME NEW s \in Units, NEW t \in Units
  PROVE  s \o t \in Units /\ Len(s \o t) = Len(s) + Len(t) /\ Len(s) \in Nat
BY DEF Units

LEMMA ConcatThree ==
  ASSUME NEW s \in Units, NEW t \in Units, NEW x \in Units
  PROVE  (s \o t) \o x = s \o (t \o x)
BY DEF Units

LEMMA NoUnits ==
  /\ << >> \in Units /\ Len(<< >>) = 0
  /\ \A s \in Units : s \o << >> = s /\ << >> \o s = s /\ (Len(s) = 0 => s = << >>)
BY DEF Units

\* A count and what follows it.
LEMMA CountFirst ==
  ASSUME NEW n \in Nat, NEW x \in Units
  PROVE  /\ <<n>> \in Units /\ Len(<<n>>) = 1
         /\ <<n>> \o x \in Units /\ <<n>> \o x # << >>
         /\ Head(<<n>> \o x) = n /\ Tail(<<n>> \o x) = x
BY DEF Units

LEMMA FirstUnit ==
  ASSUME NEW u \in Units, u # << >>
  PROVE  Head(u) \in Nat /\ Tail(u) \in Units /\ u = <<Head(u)>> \o Tail(u) /\ Len(u) = Len(Tail(u)) + 1
<1>1. Head(u) \in Nat /\ Tail(u) \in Units /\ Len(u) = Len(Tail(u)) + 1
  BY DEF Units
<1>2. u = <<Head(u)>> \o Tail(u)
  BY DEF Units
<1> QED BY <1>1, <1>2

-----------------------------------------------------------------------------
(***************************************************************************)
(* What a reader does with what a writer wrote                             *)
(***************************************************************************)
\* Wherever w stands, the reader takes it for v.
Reads(R, w, v) == w \in Units /\ \A rest \in Units : R[w \o rest] = Done(v, rest)

\* Whatever follows w, the reader fails.
Refuses(R, w) == w \in Units /\ \A rest \in Units : ~R[w \o rest].ok

\* What it reads depends on the units it takes, and on none that follow them.
Local(R) ==
  \A u \in Units :
    /\ R[u].rest \in Units
    /\ R[u].ok => \E c \in Units : u = c \o R[u].rest /\ Reads(R, c, R[u].value)

\* w is as long as what the reader took of u, and is read as the same.
Again(R, u, w) == Reads(R, w, R[u].value) /\ Len(w) = Len(u) - Len(R[u].rest)

LEMMA DoneIs ==
  ASSUME NEW v, NEW rest, NEW r, r = Done(v, rest)
  PROVE  r.value = v /\ r.rest = rest
BY DEF Done

LEMMA DoneOk ==
  ASSUME NEW v, NEW rest, NEW r, r = Done(v, rest)
  PROVE  r.ok
BY DEF Done

LEMMA TruncatedIs == ~Truncated.ok /\ Truncated.rest = << >> /\ Truncated.value = << >>
BY Zenon DEF Truncated

LEMMA ReadsAll ==
  ASSUME NEW R, NEW w, NEW v, Reads(R, w, v)
  PROVE  R[w] = Done(v, << >>)
<1>1. w \in Units /\ w \o << >> = w /\ << >> \in Units
  BY NoUnits DEF Reads
<1>2. R[w \o << >>] = Done(v, << >>)
  BY <1>1 DEF Reads
<1> QED BY <1>1, <1>2

\* No proper beginning of what is read, or refused, can be read.
LEMMA CutIsNoticed ==
  ASSUME NEW R, Local(R), NEW p \in Units, NEW q \in Units, q # << >>,
         NEW v, Reads(R, p \o q, v) \/ Refuses(R, p \o q)
  PROVE  ~R[p].ok
<1> SUFFICES ASSUME R[p].ok PROVE FALSE
  OBVIOUS
<1>1. PICK c \in Units : p = c \o R[p].rest /\ Reads(R, c, R[p].value)
  BY DEF Local
<1>2. PICK r \in Units : r = R[p].rest
  BY DEF Local
<1>3. r \o q \in Units /\ Len(r \o q) = Len(r) + Len(q) /\ Len(r) \in Nat /\ Len(q) \in Nat
  BY ConcatUnits
<1>7. p \o q = c \o (r \o q)
  <2>1. p = c \o r
    BY <1>1, <1>2
  <2>2. (c \o r) \o q = c \o (r \o q)
    BY ConcatThree
  <2> QED BY <2>1, <2>2
<1>4. R[p \o q] = Done(R[p].value, r \o q)
  BY <1>1, <1>3, <1>7 DEF Reads
<1>5. CASE Reads(R, p \o q, v)
  <2>1. R[p \o q] = Done(v, << >>)
    BY <1>5, ReadsAll
  <2>2. r \o q = << >>
    <3>1. R[p \o q].rest = r \o q
      BY <1>4 DEF Done
    <3>2. R[p \o q].rest = << >>
      BY <2>1 DEF Done
    <3> QED BY <3>1, <3>2
  <2>3. Len(q) = 0
    BY <1>3, <2>2, NoUnits
  <2> QED BY <2>3, NoUnits
<1>6. CASE Refuses(R, p \o q)
  <2>1. p \o q \in Units /\ (p \o q) \o << >> = p \o q /\ << >> \in Units
    BY ConcatUnits, NoUnits
  <2>2. ~R[p \o q].ok
    BY <1>6, <2>1 DEF Refuses
  <2> QED BY <1>4, <2>2, DoneOk
<1> QED BY <1>5, <1>6

-----------------------------------------------------------------------------
(***************************************************************************)
(* A unit, a flag, one value after another                                 *)
(***************************************************************************)
LEMMA UnitReads == \A n \in Nat : Reads(Unit, <<n>>, n)
<1> SUFFICES ASSUME NEW n \in Nat PROVE Reads(Unit, <<n>>, n)
  BY Zenon
<1>1. ASSUME NEW rest \in Units PROVE Unit[<<n>> \o rest] = Done(n, rest)
  <2>1. PICK u \in Units : u = <<n>> \o rest /\ u # << >> /\ Head(u) = n /\ Tail(u) = rest
    BY CountFirst
  <2>2. Unit[u] = Done(n, rest)
    BY <2>1 DEF Unit
  <2> QED BY <2>1, <2>2
<1> QED BY <1>1, CountFirst, NoUnits DEF Reads

LEMMA UnitIs ==
  ASSUME NEW u \in Units
  PROVE  /\ Unit[u].rest \in Units
         /\ Unit[u].ok => u # << >> /\ Unit[u].value = Head(u) /\ Unit[u].rest = Tail(u)
<1>1. CASE u = << >>
  <2>1. Unit[u] = Truncated
    BY <1>1 DEF Unit
  <2> QED BY <2>1, TruncatedIs, NoUnits
<1>2. CASE u # << >>
  <2>1. Unit[u] = Done(Head(u), Tail(u))
    BY <1>2 DEF Unit
  <2>2. Unit[u].value = Head(u) /\ Unit[u].rest = Tail(u)
    BY <2>1, DoneIs
  <2> QED BY <1>2, <2>2, FirstUnit
<1> QED BY <1>1, <1>2

LEMMA UnitLocal == Local(Unit)
<1> SUFFICES ASSUME NEW u \in Units
             PROVE  /\ Unit[u].rest \in Units
                    /\ Unit[u].ok => \E c \in Units : u = c \o Unit[u].rest /\ Reads(Unit, c, Unit[u].value)
  BY DEF Local
<1> SUFFICES ASSUME Unit[u].ok
             PROVE  \E c \in Units : u = c \o Unit[u].rest /\ Reads(Unit, c, Unit[u].value)
  BY UnitIs
<1>1. u # << >> /\ Unit[u].value = Head(u) /\ Unit[u].rest = Tail(u)
  BY UnitIs
<1>2. Head(u) \in Nat /\ u = <<Head(u)>> \o Tail(u) /\ <<Head(u)>> \in Units
  BY <1>1, FirstUnit, CountFirst, NoUnits
<1> QED BY <1>1, <1>2, UnitReads

LEMMA UnitAgain ==
  \A u \in Units : Unit[u].ok => Unit[u].value \in Nat /\ Again(Unit, u, <<Unit[u].value>>)
<1> SUFFICES ASSUME NEW u \in Units, Unit[u].ok
             PROVE  Unit[u].value \in Nat /\ Again(Unit, u, <<Unit[u].value>>)
  OBVIOUS
<1>1. u # << >> /\ Unit[u].value = Head(u) /\ Unit[u].rest = Tail(u)
  BY UnitIs
<1>2. Head(u) \in Nat /\ Len(u) = Len(Tail(u)) + 1 /\ Len(<<Head(u)>>) = 1 /\ Tail(u) \in Units
  BY <1>1, FirstUnit, CountFirst, NoUnits
<1>3. Len(Tail(u)) \in Nat
  BY <1>2, ConcatUnits
<1> QED BY <1>1, <1>2, <1>3, UnitReads DEF Again

LEMMA NothingReads == Reads(Nothing, << >>, << >>) /\ Local(Nothing)
<1>1. ASSUME NEW u \in Units PROVE Nothing[u] = Done(<< >>, u)
  BY DEF Nothing
<1>2. Reads(Nothing, << >>, << >>)
  BY <1>1, NoUnits DEF Reads
<1>3. ASSUME NEW u \in Units
      PROVE  /\ Nothing[u].rest \in Units
             /\ \E c \in Units : u = c \o Nothing[u].rest /\ Reads(Nothing, c, Nothing[u].value)
  <2>1. Nothing[u].rest = u /\ Nothing[u].value = << >>
    BY <1>1, DoneIs
  <2> QED BY <1>2, <2>1, NoUnits
<1> QED BY <1>2, <1>3 DEF Local

LEMMA BothIs ==
  ASSUME NEW R, NEW S, NEW u \in Units
  PROVE  /\ ~R[u].ok => Both(R, S)[u] = Truncated
         /\ ~S[R[u].rest].ok => Both(R, S)[u] = Truncated
         /\ R[u].ok /\ S[R[u].rest].ok =>
              Both(R, S)[u] = Done(Append(R[u].value, S[R[u].rest].value), S[R[u].rest].rest)
BY DEF Both

LEMMA BothReads ==
  ASSUME NEW R, NEW S, NEW w, NEW x, NEW v, NEW y, Reads(R, w, v), Reads(S, x, y)
  PROVE  Reads(Both(R, S), w \o x, Append(v, y))
<1>1. w \in Units /\ x \in Units /\ w \o x \in Units
  BY ConcatUnits DEF Reads
<1>2. ASSUME NEW rest \in Units PROVE Both(R, S)[(w \o x) \o rest] = Done(Append(v, y), rest)
  <2> DEFINE t == x \o rest
             u == (w \o x) \o rest
  <2>1. t \in Units /\ u = w \o t
    <3>1. t \in Units
      BY <1>1, ConcatUnits
    <3>2. (w \o x) \o rest = w \o (x \o rest)
      BY <1>1, ConcatThree
    <3> QED BY <3>1, <3>2
  <2>9. u \in Units
    BY <1>1, <2>1, ConcatUnits
  <2> HIDE DEF u, t
  <2>2. R[u] = Done(v, t)
    BY <2>1 DEF Reads
  <2>3. S[t] = Done(y, rest)
    BY DEF Reads, t
  <2>4. R[u].ok /\ S[t].ok
    BY <2>2, <2>3, DoneOk
  <2>5. R[u].value = v /\ R[u].rest = t
    BY <2>2 DEF Done
  <2>6. S[t].value = y /\ S[t].rest = rest
    BY <2>3 DEF Done
  <2>7. Both(R, S)[u] = Done(Append(R[u].value, S[R[u].rest].value), S[R[u].rest].rest)
    BY <2>4, <2>5, <2>9, BothIs
  <2> QED BY <2>5, <2>6, <2>7 DEF u
<1> QED BY <1>1, <1>2 DEF Reads

LEMMA BothRefuses ==
  ASSUME NEW R, NEW S, NEW w \in Units, NEW x \in Units,
         Refuses(R, w) \/ ((\E v : Reads(R, w, v)) /\ Refuses(S, x))
  PROVE  Refuses(Both(R, S), w \o x)
<1>1. w \o x \in Units
  BY ConcatUnits
<1>2. ASSUME NEW rest \in Units PROVE ~Both(R, S)[(w \o x) \o rest].ok
  <2> DEFINE t == x \o rest
             u == (w \o x) \o rest
  <2>1. t \in Units /\ u = w \o t
    BY ConcatUnits, ConcatThree
  <2>9. u \in Units
    BY <2>1, ConcatUnits
  <2> HIDE DEF u, t
  <2>2. CASE Refuses(R, w)
    <3>1. ~R[u].ok
      BY <2>1, <2>2 DEF Refuses
    <3>2. Both(R, S)[u] = Truncated
      BY <2>9, <3>1, BothIs
    <3> QED BY <3>2, TruncatedIs DEF u
  <2>3. ASSUME NEW v, Reads(R, w, v), Refuses(S, x) PROVE ~Both(R, S)[u].ok
    <3>1. R[u] = Done(v, t)
      BY <2>1, <2>3 DEF Reads
    <3>2. R[u].rest = t
      BY <3>1 DEF Done
    <3>3. ~S[R[u].rest].ok
      BY <2>3, <3>2 DEF Refuses, t
    <3>4. Both(R, S)[u] = Truncated
      BY <2>9, <3>3, BothIs
    <3> QED BY <3>4, TruncatedIs
  <2> QED BY <2>2, <2>3 DEF u
<1> QED BY <1>1, <1>2 DEF Refuses

LEMMA BothLocal ==
  ASSUME NEW R, NEW S, Local(R), Local(S)
  PROVE  Local(Both(R, S))
<1> SUFFICES ASSUME NEW u \in Units
             PROVE  /\ Both(R, S)[u].rest \in Units
                    /\ Both(R, S)[u].ok =>
                         \E c \in Units : /\ u = c \o Both(R, S)[u].rest
                                          /\ Reads(Both(R, S), c, Both(R, S)[u].value)
  BY DEF Local
<1>1. PICK t : t = R[u].rest /\ t \in Units
  BY DEF Local
<1>2. CASE ~R[u].ok \/ ~S[t].ok
  <2>1. Both(R, S)[u] = Truncated
    <3>1. CASE ~R[u].ok
      BY <3>1, BothIs
    <3>2. CASE ~S[t].ok
      <4>1. ~S[R[u].rest].ok
        BY <1>1, <3>2, Zenon
      <4> QED BY <4>1, BothIs
    <3> QED BY <1>2, <3>1, <3>2
  <2> QED BY <2>1, TruncatedIs, NoUnits
<1>3. CASE R[u].ok /\ S[t].ok
  <2>1. Both(R, S)[u] = Done(Append(R[u].value, S[t].value), S[t].rest)
    BY <1>1, <1>3, BothIs
  <2>2. Both(R, S)[u].value = Append(R[u].value, S[t].value) /\ Both(R, S)[u].rest = S[t].rest
    BY <2>1 DEF Done
  <2>3. PICK c \in Units : u = c \o t /\ Reads(R, c, R[u].value)
    BY <1>1, <1>3 DEF Local
  <2>4. PICK d \in Units : t = d \o S[t].rest /\ Reads(S, d, S[t].value)
    BY <1>1, <1>3 DEF Local
  <2>5. S[t].rest \in Units
    BY <1>1 DEF Local
  <2>6. PICK r \in Units : r = S[t].rest
    BY <2>5
  <2>7. u = (c \o d) \o r /\ c \o d \in Units
    <3>1. u = c \o (d \o r)
      BY <2>3, <2>4, <2>6
    <3>2. (c \o d) \o r = c \o (d \o r)
      BY ConcatThree, Zenon
    <3>3. c \o d \in Units
      BY ConcatUnits
    <3> QED BY <3>1, <3>2, <3>3, Zenon
  <2>8. Reads(Both(R, S), c \o d, Append(R[u].value, S[t].value))
    BY <2>3, <2>4, BothReads
  <2> QED BY <2>2, <2>5, <2>6, <2>7, <2>8, Zenon
<1> QED BY <1>2, <1>3, Zenon

LEMMA BothAgain ==
  ASSUME NEW R, NEW S, Local(R), Local(S), NEW u \in Units, Both(R, S)[u].ok,
         NEW w, NEW x, Again(R, u, w), Again(S, R[u].rest, x)
  PROVE  Again(Both(R, S), u, w \o x)
<1>1. PICK t : t = R[u].rest /\ t \in Units
  BY DEF Local
<1>2. R[u].ok /\ S[t].ok
  BY <1>1, BothIs, TruncatedIs
<1>3. Both(R, S)[u] = Done(Append(R[u].value, S[t].value), S[t].rest)
  BY <1>1, <1>2, BothIs
<1>4. Both(R, S)[u].value = Append(R[u].value, S[t].value) /\ Both(R, S)[u].rest = S[t].rest
  BY <1>3 DEF Done
<1>5. Reads(R, w, R[u].value) /\ Reads(S, x, S[t].value)
  BY <1>1 DEF Again
<1>6. Reads(Both(R, S), w \o x, Append(R[u].value, S[t].value))
  BY <1>5, BothReads
<1>7. w \in Units /\ x \in Units /\ S[t].rest \in Units
  BY <1>1, <1>5 DEF Reads, Local
<1>8. PICK r \in Units : r = S[t].rest
  BY <1>7
<1>9. Len(w) = Len(u) - Len(t) /\ Len(x) = Len(t) - Len(r)
  BY <1>1, <1>8 DEF Again
<1>10. Len(w \o x) = Len(w) + Len(x) /\ Len(u) \in Nat /\ Len(t) \in Nat /\ Len(r) \in Nat
  BY <1>1, <1>7, ConcatUnits
<1>11. Len(w \o x) = Len(u) - Len(r)
  BY <1>9, <1>10
<1> QED BY <1>4, <1>6, <1>8, <1>11 DEF Again

-----------------------------------------------------------------------------
(***************************************************************************)
(* Lists of readers and of writes                                          *)
(***************************************************************************)
\* Each is what its definition says: nothing, and then one reader after another.
LEMMA EachIs ==
  ASSUME NEW rs, NEW n \in Nat, Len(rs) = n
  PROVE  \E r : /\ Each(rs) = r[n]
                /\ r[0] = Nothing
                /\ \A i \in 1..n : r[i] = Both(r[i - 1], rs[i])
<1> DEFINE N(f, k) == [i \in 0..k |-> IF i = 0 THEN Nothing ELSE Both(f[i - 1], rs[i])]
           S == {k \in Nat : \E f : f = N(f, k)}
<1>1. PICK r : r = (CHOOSE f : f = N(f, n)) /\ Each(rs) = r[n]
  BY DEF Each
<1>2. 0 \in S
  <2> DEFINE f == [i \in 0..0 |-> Nothing]
  <2>1. f = N(f, 0)
    OBVIOUS
  <2> QED BY <2>1
<1>3. ASSUME NEW k \in Nat, k \in S PROVE k + 1 \in S
  <2>1. PICK f : f = N(f, k)
    BY <1>3
  <2> DEFINE h == [i \in 0..(k + 1) |-> IF i <= k THEN f[i] ELSE Both(f[k], rs[k + 1])]
  <2>2. \A i \in 0..k : f[i] = IF i = 0 THEN Nothing ELSE Both(f[i - 1], rs[i])
    BY <2>1
  <2>3. ASSUME NEW i \in 0..(k + 1) PROVE h[i] = IF i = 0 THEN Nothing ELSE Both(h[i - 1], rs[i])
    <3>1. CASE i <= k
      BY <2>2, <3>1
    <3>2. CASE i = k + 1
      BY <3>2
    <3> QED BY <3>1, <3>2
  <2>4. h = [i \in 0..(k + 1) |-> h[i]]
    OBVIOUS
  <2> HIDE DEF h
  <2>5. h = N(h, k + 1)
    BY <2>3, <2>4
  <2> HIDE DEF N
  <2>6. \E v : v = N(v, k + 1)
    BY <2>5
  <2> QED BY <2>6
<1>4. \A k \in Nat : k \in S
  <2> HIDE DEF S
  <2> QED BY <1>2, <1>3, Induction
<1>5. r = N(r, n)
  <2>1. \E f : f = N(f, n)
    BY <1>4
  <2> HIDE DEF N
  <2> QED BY <1>1, <2>1
<1>6. r[0] = Nothing
  BY <1>5
<1>7. \A i \in 1..n : r[i] = Both(r[i - 1], rs[i])
  BY <1>5
<1> HIDE DEF N
<1> QED BY <1>1, <1>6, <1>7

\* So is Written: nothing, and then one write after another.
WrittenUpTo(ws, n, f) ==
  /\ Written(ws) = f[n]
  /\ f[0] = << >>
  /\ \A i \in 0..n : f[i] \in Units
  /\ \A i \in 1..n : f[i] = f[i - 1] \o ws[i]

\* Writes are units, and writing nothing writes nothing.
Writes(ws, n) == Len(ws) = n /\ (\A i \in 1..n : ws[i] \in Units) /\ (n = 0 => ws = << >>)

LEMMA WrittenIs ==
  ASSUME NEW ws, NEW n \in Nat, Writes(ws, n)
  PROVE  \E f : WrittenUpTo(ws, n, f)
<1>0. Len(ws) = n /\ (\A i \in 1..n : ws[i] \in Units) /\ (n = 0 => ws = << >>)
  BY DEF Writes
<1>1. CASE n = 0
  <2>1. Written(ws) = << >>
    BY <1>0, <1>1 DEF Written, FlattenSeq
  <2> DEFINE f == [i \in {0} |-> << >>]
  <2>2. f[0] = << >> /\ \A i \in 0..n : f[i] \in Units
    BY <1>1, NoUnits
  <2>3. \A i \in 1..n : FALSE
    BY <1>1
  <2> HIDE DEF f
  <2>4. WrittenUpTo(ws, n, f)
    BY <1>1, <2>1, <2>2, <2>3 DEF WrittenUpTo
  <2> QED BY <2>4
<1>2. CASE n >= 1
  <2> DEFINE N(f, k) == [i \in 1..k |-> IF i = 1 THEN ws[i] ELSE f[i - 1] \o ws[i]]
             S == {k \in Nat : k >= 1 => \E f : f = N(f, k)}
  <2>1. PICK r : r = (CHOOSE f : f = N(f, Len(ws))) /\ Written(ws) = r[Len(ws)]
    <3>1. Len(ws) # 0
      BY <1>0, <1>2
    <3> QED BY <3>1 DEF Written, FlattenSeq
  <2>2. 0 \in S
    OBVIOUS
  <2>3. ASSUME NEW k \in Nat, k \in S PROVE k + 1 \in S
    <3>1. CASE k = 0
      <4> DEFINE f == [i \in 1..1 |-> ws[i]]
      <4>1. f = N(f, 1)
        OBVIOUS
      <4> HIDE DEF N, f
      <4>2. k + 1 = 1 /\ \E v : v = N(v, 1)
        BY <3>1, <4>1
      <4> QED BY <4>2
    <3>2. CASE k >= 1
      <4>1. PICK f : f = N(f, k)
        BY <2>3, <3>2
      <4> DEFINE h == [i \in 1..(k + 1) |-> IF i <= k THEN f[i] ELSE f[k] \o ws[k + 1]]
      <4>2. \A i \in 1..k : f[i] = IF i = 1 THEN ws[i] ELSE f[i - 1] \o ws[i]
        BY <4>1
      <4>3. ASSUME NEW i \in 1..(k + 1) PROVE h[i] = IF i = 1 THEN ws[i] ELSE h[i - 1] \o ws[i]
        <5>1. CASE i <= k
          BY <4>2, <5>1
        <5>2. CASE i = k + 1
          BY <3>2, <5>2
        <5> QED BY <5>1, <5>2
      <4>4. h = [i \in 1..(k + 1) |-> h[i]]
        OBVIOUS
      <4> HIDE DEF h
      <4>5. h = N(h, k + 1)
        BY <4>3, <4>4
      <4> HIDE DEF N
      <4>6. (\E v : v = N(v, k + 1)) /\ k + 1 \in Nat
        BY <4>5
      <4> QED BY <4>6
    <3> HIDE DEF S, N
    <3> QED BY <3>1, <3>2
  <2>4. \A k \in Nat : k \in S
    <3> HIDE DEF S
    <3> QED BY <2>2, <2>3, Induction
  <2>5. r = N(r, n)
    <3>1. \E f : f = N(f, n)
      BY <1>2, <2>4
    <3> HIDE DEF N
    <3> QED BY <1>0, <2>1, <3>1
  <2>6. \A i \in 1..n : r[i] = IF i = 1 THEN ws[i] ELSE r[i - 1] \o ws[i]
    BY <2>5
  <2> DEFINE f == [i \in 0..n |-> IF i = 0 THEN << >> ELSE r[i]]
             T == {i \in Nat : i <= n => f[i] \in Units}
  <2>7. f[0] = << >> /\ f[n] = r[n]
    BY <1>2
  <2>8. ASSUME NEW i \in 1..n PROVE f[i] = f[i - 1] \o ws[i]
    <3>1. CASE i = 1
      <4>1. f[i] = ws[i] /\ f[i - 1] = << >>
        BY <2>6, <3>1
      <4>2. << >> \o ws[i] = ws[i]
        BY NoUnits
      <4> QED BY <4>1, <4>2
    <3>2. CASE i # 1
      <4>1. r[i] = r[i - 1] \o ws[i]
        BY <2>6, <3>2
      <4>2. i - 1 \in 0..n /\ i - 1 # 0 /\ i \in 0..n /\ i # 0
        BY <3>2
      <4>3. f[i - 1] = r[i - 1] /\ f[i] = r[i]
        BY <4>2
      <4> QED BY <4>1, <4>3
    <3> QED BY <3>1, <3>2
  <2> HIDE DEF f
  <2>9. 0 \in T
    BY <2>7, NoUnits
  <2>10. ASSUME NEW i \in Nat, i \in T PROVE i + 1 \in T
    <3> SUFFICES ASSUME i + 1 <= n PROVE f[i + 1] \in Units
      OBVIOUS
    <3>1. i + 1 \in 1..n /\ (i + 1) - 1 = i /\ f[i] \in Units
      BY <2>10
    <3>2. f[i + 1] = f[i] \o ws[i + 1] /\ ws[i + 1] \in Units
      BY <1>0, <2>8, <3>1
    <3> QED BY <3>1, <3>2, ConcatUnits
  <2>11. \A i \in Nat : i \in T
    <3> HIDE DEF T
    <3> QED BY <2>9, <2>10, Induction
  <2>12. \A i \in 0..n : f[i] \in Units
    BY <2>11
  <2>13. WrittenUpTo(ws, n, f)
    BY <1>0, <2>1, <2>7, <2>8, <2>12 DEF WrittenUpTo
  <2> QED BY <2>13
<1> QED BY <1>1, <1>2

\* The first n values.
FirstOf(vs, n) == [j \in 1..n |-> vs[j]]

LEMMA FirstOfNext ==
  ASSUME NEW vs, NEW n \in Nat
  PROVE  Append(FirstOf(vs, n), vs[n + 1]) = FirstOf(vs, n + 1)
<1> DEFINE T == {vs[j] : j \in 1..(n + 1)}
           a == FirstOf(vs, n)
           b == FirstOf(vs, n + 1)
<1>1. a \in Seq(T) /\ Len(a) = n /\ b \in Seq(T) /\ Len(b) = n + 1 /\ vs[n + 1] \in T
  BY DEF FirstOf
<1>2. \A j \in 1..n : a[j] = vs[j]
  BY DEF FirstOf
<1>3. \A j \in 1..(n + 1) : b[j] = vs[j]
  BY DEF FirstOf
<1> HIDE DEF T, a, b
<1>4. Append(a, vs[n + 1]) \in Seq(T) /\ Len(Append(a, vs[n + 1])) = n + 1
  BY <1>1
<1>5. ASSUME NEW j \in 1..(n + 1) PROVE Append(a, vs[n + 1])[j] = b[j]
  <2>1. CASE j \in 1..n
    <3>1. Append(a, vs[n + 1])[j] = a[j]
      BY <1>1, <2>1
    <3> QED BY <1>2, <1>3, <2>1, <3>1
  <2>2. CASE j = n + 1
    BY <1>1, <1>3, <2>2
  <2>3. j \in 1..n \/ j = n + 1
    OBVIOUS
  <2> QED BY <2>1, <2>2, <2>3
<1>6. Append(a, vs[n + 1]) = b
  BY <1>1, <1>4, <1>5
<1> QED BY <1>6 DEF a, b

\* A sequence that ends as the first n do is the first n - 1.
LEMMA FirstOfLast ==
  ASSUME NEW vs, NEW n \in Nat, NEW xs, NEW x, xs = FirstOf(xs, n), Append(xs, x) = FirstOf(vs, n + 1)
  PROVE  xs = FirstOf(vs, n) /\ x = vs[n + 1]
<1> DEFINE T == {xs[j] : j \in 1..n} \cup {x}
<1>1. xs \in Seq(T) /\ Len(xs) = n /\ x \in T
  <2>1. FirstOf(xs, n) \in Seq(T) /\ Len(FirstOf(xs, n)) = n
    BY DEF FirstOf
  <2> QED BY <2>1
<1>2. \A j \in 1..(n + 1) : FirstOf(vs, n + 1)[j] = vs[j]
  BY DEF FirstOf
<1> HIDE DEF T
<1>3. \A j \in 1..n : Append(xs, x)[j] = xs[j]
  BY <1>1
<1>4. Append(xs, x)[n + 1] = x
  BY <1>1
<1>5. \A j \in 1..n : xs[j] = vs[j]
  <2> TAKE j \in 1..n
  <2>1. Append(xs, x)[j] = xs[j] /\ j \in 1..(n + 1)
    BY <1>3
  <2> QED BY <1>2, <2>1
<1>6. x = vs[n + 1]
  <2>1. n + 1 \in 1..(n + 1)
    OBVIOUS
  <2> QED BY <1>2, <1>4, <2>1
<1>7. FirstOf(xs, n) = FirstOf(vs, n)
  BY <1>5 DEF FirstOf
<1> QED BY <1>6, <1>7

LEMMA EachReads ==
  ASSUME NEW n \in Nat, NEW rs, Len(rs) = n, NEW ws, Writes(ws, n), NEW vs,
         \A i \in 1..n : Reads(rs[i], ws[i], vs[i])
  PROVE  Reads(Each(rs), Written(ws), FirstOf(vs, n))
<1>1. PICK r : Each(rs) = r[n] /\ r[0] = Nothing /\ \A i \in 1..n : r[i] = Both(r[i - 1], rs[i])
  BY EachIs
<1>2. PICK f : WrittenUpTo(ws, n, f)
  BY WrittenIs
<1>3. Written(ws) = f[n] /\ f[0] = << >> /\ \A i \in 1..n : f[i] = f[i - 1] \o ws[i]
  BY <1>2 DEF WrittenUpTo
<1> DEFINE T == {i \in Nat : i <= n => Reads(r[i], f[i], FirstOf(vs, i))}
<1>4. 0 \in T
  <2>1. FirstOf(vs, 0) = << >>
    BY DEF FirstOf
  <2> QED BY <1>1, <1>3, <2>1, NothingReads
<1>5. ASSUME NEW i \in Nat, i \in T PROVE i + 1 \in T
  <2> SUFFICES ASSUME i + 1 <= n PROVE Reads(r[i + 1], f[i + 1], FirstOf(vs, i + 1))
    OBVIOUS
  <2>1. i + 1 \in 1..n /\ (i + 1) - 1 = i /\ Reads(r[i], f[i], FirstOf(vs, i))
    BY <1>5
  <2>2. r[i + 1] = Both(r[i], rs[i + 1]) /\ f[i + 1] = f[i] \o ws[i + 1]
    BY <1>1, <1>3, <2>1
  <2>3. Reads(rs[i + 1], ws[i + 1], vs[i + 1])
    BY <2>1
  <2>4. Reads(Both(r[i], rs[i + 1]), f[i] \o ws[i + 1], Append(FirstOf(vs, i), vs[i + 1]))
    BY <2>1, <2>3, BothReads
  <2> QED BY <2>2, <2>4, FirstOfNext
<1>6. \A i \in Nat : i \in T
  <2> HIDE DEF T
  <2> QED BY <1>4, <1>5, Induction
<1>7. Reads(r[n], f[n], FirstOf(vs, n))
  BY <1>6
<1> QED BY <1>1, <1>3, <1>7

\* One write that is refused is enough.
LEMMA EachRefuses ==
  ASSUME NEW n \in Nat, NEW rs, Len(rs) = n, NEW ws, Writes(ws, n),
         \A i \in 1..n : Refuses(rs[i], ws[i]) \/ \E v : Reads(rs[i], ws[i], v),
         \E i \in 1..n : Refuses(rs[i], ws[i])
  PROVE  Refuses(Each(rs), Written(ws))
<1>1. PICK r : Each(rs) = r[n] /\ r[0] = Nothing /\ \A i \in 1..n : r[i] = Both(r[i - 1], rs[i])
  BY EachIs
<1>2. PICK f : WrittenUpTo(ws, n, f)
  BY WrittenIs
<1>3. /\ Written(ws) = f[n] /\ f[0] = << >> /\ \A i \in 1..n : f[i] = f[i - 1] \o ws[i]
      /\ \A i \in 0..n : f[i] \in Units
      /\ \A i \in 1..n : ws[i] \in Units
  BY <1>2 DEF WrittenUpTo, Writes
<1> DEFINE Fails(i) == Refuses(r[i], f[i])
           Fine(i) == \E v : Reads(r[i], f[i], v)
           T == {i \in Nat : i <= n => (Fails(i) \/ (Fine(i) /\ \A j \in 1..i : ~Refuses(rs[j], ws[j])))}
<1>4. 0 \in T
  <2>1. Fine(0)
    BY <1>1, <1>3, NothingReads
  <2>2. \A j \in 1..0 : FALSE
    OBVIOUS
  <2> HIDE DEF Fine
  <2> QED BY <2>1, <2>2
<1>5. ASSUME NEW i \in Nat, i \in T PROVE i + 1 \in T
  <2> SUFFICES ASSUME i + 1 <= n
               PROVE  Fails(i + 1) \/ (Fine(i + 1) /\ \A j \in 1..(i + 1) : ~Refuses(rs[j], ws[j]))
    OBVIOUS
  <2>1. i + 1 \in 1..n /\ (i + 1) - 1 = i /\ i \in 0..n
    OBVIOUS
  <2>2. r[i + 1] = Both(r[i], rs[i + 1]) /\ f[i + 1] = f[i] \o ws[i + 1] /\ f[i] \in Units /\ ws[i + 1] \in Units
    BY <1>1, <1>3, <2>1
  <2>3. Fails(i) \/ (Fine(i) /\ \A j \in 1..i : ~Refuses(rs[j], ws[j]))
    BY <1>5, <2>1
  <2>4. CASE Fails(i)
    BY <2>2, <2>4, BothRefuses
  <2>5. CASE Fine(i) /\ Refuses(rs[i + 1], ws[i + 1])
    BY <2>2, <2>5, BothRefuses
  <2>6. CASE Fine(i) /\ ~Refuses(rs[i + 1], ws[i + 1]) /\ \A j \in 1..i : ~Refuses(rs[j], ws[j])
    <3>1. PICK v : Reads(r[i], f[i], v)
      BY <2>6
    <3>2. PICK y : Reads(rs[i + 1], ws[i + 1], y)
      BY <2>1, <2>6
    <3>3. Reads(r[i + 1], f[i + 1], Append(v, y))
      BY <2>2, <3>1, <3>2, BothReads
    <3>4. Fine(i + 1)
      BY <3>3
    <3>5. \A j \in 1..(i + 1) : j \in 1..i \/ j = i + 1
      OBVIOUS
    <3> HIDE DEF Fine, Fails
    <3> QED BY <2>6, <3>4, <3>5
  <2> HIDE DEF Fine, Fails
  <2> QED BY <2>3, <2>4, <2>5, <2>6
<1>6. \A i \in Nat : i \in T
  <2> HIDE DEF T
  <2> QED BY <1>4, <1>5, Induction
<1>7. Fails(n) \/ (Fine(n) /\ \A j \in 1..n : ~Refuses(rs[j], ws[j]))
  <2> HIDE DEF Fine, Fails
  <2> QED BY <1>6
<1>8. Refuses(r[n], f[n])
  BY <1>7
<1> QED BY <1>1, <1>3, <1>8

LEMMA EachLocal ==
  ASSUME NEW n \in Nat, NEW rs, Len(rs) = n, \A i \in 1..n : Local(rs[i])
  PROVE  Local(Each(rs))
<1>1. PICK r : Each(rs) = r[n] /\ r[0] = Nothing /\ \A i \in 1..n : r[i] = Both(r[i - 1], rs[i])
  BY EachIs
<1> DEFINE T == {i \in Nat : i <= n => Local(r[i])}
<1>2. 0 \in T
  BY <1>1, NothingReads
<1>3. ASSUME NEW i \in Nat, i \in T PROVE i + 1 \in T
  <2> SUFFICES ASSUME i + 1 <= n PROVE Local(r[i + 1])
    OBVIOUS
  <2>1. i + 1 \in 1..n /\ (i + 1) - 1 = i /\ Local(r[i])
    BY <1>3
  <2>2. r[i + 1] = Both(r[i], rs[i + 1]) /\ Local(rs[i + 1])
    BY <1>1, <2>1
  <2> QED BY <2>1, <2>2, BothLocal
<1>4. \A i \in Nat : i \in T
  <2> HIDE DEF T
  <2> QED BY <1>2, <1>3, Induction
<1> QED BY <1>1, <1>4

\* The readers of a list have each read its part of the value.
EachRead(rs, n, u, vs) ==
  /\ Each(rs)[u].value = vs /\ vs = FirstOf(vs, n)
  /\ \A i \in 1..n : \E t \in Units : rs[i][t].ok /\ rs[i][t].value = vs[i]

\* What is written again for each part is what is written again for the whole.
LEMMA EachAgain ==
  ASSUME NEW n \in Nat, NEW rs, Len(rs) = n, \A i \in 1..n : Local(rs[i]),
         NEW u \in Units, Each(rs)[u].ok, NEW vs, vs = Each(rs)[u].value
  PROVE  /\ EachRead(rs, n, u, vs)
         /\ \A ws : /\ Writes(ws, n)
                    /\ \A i \in 1..n : \A t \in Units :
                         rs[i][t].ok /\ rs[i][t].value = vs[i] => Again(rs[i], t, ws[i])
                    => Again(Each(rs), u, Written(ws))
<1>1. PICK r : Each(rs) = r[n] /\ r[0] = Nothing /\ \A i \in 1..n : r[i] = Both(r[i - 1], rs[i])
  BY EachIs
<1> DEFINE Val(i) == r[i][u].value
           Rest(i) == r[i][u].rest
           Fine(i) == r[i][u].ok
           Turn(i) == rs[i][Rest(i - 1)]
<1>2. \A i \in 1..n : Fine(i) => Fine(i - 1) /\ Turn(i).ok /\ Val(i) = Append(Val(i - 1), Turn(i).value)
  <2> TAKE i \in 1..n
  <2> SUFFICES ASSUME Fine(i) PROVE Fine(i - 1) /\ Turn(i).ok /\ Val(i) = Append(Val(i - 1), Turn(i).value)
    OBVIOUS
  <2>1. r[i] = Both(r[i - 1], rs[i])
    BY <1>1
  <2>2. Fine(i - 1) /\ Turn(i).ok
    BY <2>1, BothIs, TruncatedIs
  <2>3. r[i][u] = Done(Append(Val(i - 1), Turn(i).value), Turn(i).rest)
    <3>1. PICK q, t : q = r[i - 1] /\ t = rs[i]
      OBVIOUS
    <3>2. q[u].ok /\ t[q[u].rest].ok
      BY <2>2, <3>1
    <3>3. Both(q, t)[u] = Done(Append(q[u].value, t[q[u].rest].value), t[q[u].rest].rest)
      BY <3>2, BothIs
    <3> QED BY <2>1, <3>1, <3>3
  <2>4. Val(i) = Append(Val(i - 1), Turn(i).value)
    <3>1. PICK z, y, q : z = Append(Val(i - 1), Turn(i).value) /\ y = Turn(i).rest /\ q = r[i][u]
      OBVIOUS
    <3>2. q = Done(z, y)
      BY <2>3, <3>1, Zenon
    <3>3. q.value = z
      BY <3>2, DoneIs
    <3> QED BY <3>1, <3>3
  <2> QED BY <2>2, <2>4
<1>3. Fine(n) /\ Val(n) = vs
  BY <1>1
<1>4. \A i \in 0..n : Local(r[i])
  <2> DEFINE T == {i \in Nat : i <= n => Local(r[i])}
  <2>1. 0 \in T
    BY <1>1, NothingReads
  <2>2. ASSUME NEW i \in Nat, i \in T PROVE i + 1 \in T
    <3> SUFFICES ASSUME i + 1 <= n PROVE Local(r[i + 1])
      OBVIOUS
    <3>1. i + 1 \in 1..n /\ (i + 1) - 1 = i /\ Local(r[i])
      BY <2>2
    <3>2. r[i + 1] = Both(r[i], rs[i + 1]) /\ Local(rs[i + 1])
      BY <1>1, <3>1
    <3> QED BY <3>1, <3>2, BothLocal
  <2>3. \A i \in Nat : i \in T
    <3> HIDE DEF T
    <3> QED BY <2>1, <2>2, Induction
  <2> QED BY <2>3
<1>5. \A i \in 0..n : Rest(i) \in Units
  BY <1>4 DEF Local
<1>6. r[0][u] = Done(<< >>, u)
  BY <1>1 DEF Nothing
<1> HIDE DEF Val, Rest, Fine, Turn
\* Values are sequences, from the first on.
<1>7. \A i \in 0..n : Fine(i) => Val(i) = FirstOf(Val(i), i)
  <2> DEFINE T == {i \in Nat : i <= n /\ Fine(i) => Val(i) = FirstOf(Val(i), i)}
  <2>1. 0 \in T
    <3>1. Val(0) = << >>
      BY <1>6 DEF Done, Val
    <3>2. FirstOf(Val(0), 0) = << >>
      BY DEF FirstOf
    <3> QED BY <3>1, <3>2
  <2>2. ASSUME NEW i \in Nat, i \in T PROVE i + 1 \in T
    <3> SUFFICES ASSUME i + 1 <= n, Fine(i + 1) PROVE Val(i + 1) = FirstOf(Val(i + 1), i + 1)
      OBVIOUS
    <3>1. i + 1 \in 1..n /\ (i + 1) - 1 = i
      OBVIOUS
    <3>2. Fine(i) /\ Val(i + 1) = Append(Val(i), Turn(i + 1).value)
      BY <1>2, <3>1
    <3>3. Val(i) = FirstOf(Val(i), i)
      BY <2>2, <3>1, <3>2
    <3> DEFINE y == Turn(i + 1).value
               xs == [j \in 1..(i + 1) |-> IF j <= i THEN Val(i)[j] ELSE y]
    <3>4. FirstOf(xs, i) = FirstOf(Val(i), i) /\ xs[i + 1] = y
      BY DEF FirstOf
    <3>5. Append(FirstOf(xs, i), xs[i + 1]) = FirstOf(xs, i + 1)
      BY FirstOfNext
    <3>6. FirstOf(FirstOf(xs, i + 1), i + 1) = FirstOf(xs, i + 1)
      BY DEF FirstOf
    <3> HIDE DEF xs
    <3> QED BY <3>2, <3>3, <3>4, <3>5, <3>6
  <2>3. \A i \in Nat : i \in T
    <3> HIDE DEF T
    <3> QED BY <2>1, <2>2, Induction
  <2> QED BY <2>3
\* They are the first of the last one, from the last back.
<1>8. \A i \in 0..n : Fine(i) /\ Val(i) = FirstOf(vs, i)
  <2> DEFINE T == {k \in Nat : k <= n => Fine(n - k) /\ Val(n - k) = FirstOf(vs, n - k)}
  <2>1. 0 \in T
    <3>1. n - 0 = n /\ n \in 0..n
      OBVIOUS
    <3> QED BY <1>3, <1>7, <3>1
  <2>2. ASSUME NEW k \in Nat, k \in T PROVE k + 1 \in T
    <3> SUFFICES ASSUME k + 1 <= n PROVE Fine(n - (k + 1)) /\ Val(n - (k + 1)) = FirstOf(vs, n - (k + 1))
      OBVIOUS
    <3>1. PICK i \in Nat : i = n - (k + 1) /\ i + 1 = n - k /\ i + 1 \in 1..n /\ (i + 1) - 1 = i /\ i \in 0..n
      OBVIOUS
    <3>2. Fine(i + 1) /\ Val(i + 1) = FirstOf(vs, i + 1)
      BY <2>2, <3>1
    <3>3. Fine(i) /\ Val(i + 1) = Append(Val(i), Turn(i + 1).value)
      BY <1>2, <3>1, <3>2
    <3>4. Val(i) = FirstOf(Val(i), i)
      BY <1>7, <3>1, <3>3
    <3>6. PICK xs, x : xs = Val(i) /\ x = Turn(i + 1).value
      OBVIOUS
    <3>7. Append(xs, x) = FirstOf(vs, i + 1) /\ xs = FirstOf(xs, i)
      BY <3>2, <3>3, <3>4, <3>6
    <3>5. Val(i) = FirstOf(vs, i)
      BY <3>6, <3>7, FirstOfLast
    <3> QED BY <3>1, <3>3, <3>5
  <2>3. \A k \in Nat : k \in T
    <3> HIDE DEF T
    <3> QED BY <2>1, <2>2, Induction
  <2>4. ASSUME NEW i \in 0..n PROVE Fine(i) /\ Val(i) = FirstOf(vs, i)
    <3>1. PICK k \in Nat : k = n - i /\ k <= n /\ n - k = i
      OBVIOUS
    <3> QED BY <2>3, <3>1
  <2> QED BY <2>4
<1>9. \A i \in 1..n : Turn(i).ok /\ Turn(i).value = vs[i]
  <2> TAKE i \in 1..n
  <2>1. PICK k \in Nat : k = i - 1 /\ k + 1 = i /\ k \in 0..n /\ i \in 0..n
    OBVIOUS
  <2>2. Turn(i).ok /\ Val(i) = Append(Val(k), Turn(i).value)
    BY <1>2, <1>8, <2>1
  <2>3. Val(k) = FirstOf(Val(k), k) /\ Val(i) = FirstOf(vs, k + 1)
    BY <1>7, <1>8, <2>1
  <2>5. PICK xs, x : xs = Val(k) /\ x = Turn(i).value
    OBVIOUS
  <2>6. Append(xs, x) = FirstOf(vs, k + 1) /\ xs = FirstOf(xs, k)
    BY <2>2, <2>3, <2>5
  <2>4. Turn(i).value = vs[k + 1]
    BY <2>1, <2>5, <2>6, FirstOfLast
  <2> QED BY <2>1, <2>2, <2>4
<1>10. EachRead(rs, n, u, vs)
  <2>1. \A i \in 1..n : \E t \in Units : rs[i][t].ok /\ rs[i][t].value = vs[i]
    <3> TAKE i \in 1..n
    <3>1. Rest(i - 1) \in Units
      BY <1>5
    <3> QED BY <1>9, <3>1 DEF Turn
  <2>2. vs = FirstOf(vs, n)
    BY <1>3, <1>7
  <2> QED BY <1>1, <1>3, <2>1, <2>2 DEF EachRead, Val
<1>11. ASSUME NEW ws, Writes(ws, n),
              \A i \in 1..n : \A t \in Units :
                rs[i][t].ok /\ rs[i][t].value = vs[i] => Again(rs[i], t, ws[i])
       PROVE  Again(Each(rs), u, Written(ws))
  <2>1. PICK f : WrittenUpTo(ws, n, f)
    BY <1>11, WrittenIs
  <2>2. Written(ws) = f[n] /\ f[0] = << >> /\ \A i \in 1..n : f[i] = f[i - 1] \o ws[i]
    BY <2>1 DEF WrittenUpTo
  <2> DEFINE T == {i \in Nat : i <= n => Again(r[i], u, f[i])}
  <2>3. 0 \in T
    <3>1. r[0][u].value = << >> /\ r[0][u].rest = u
      BY <1>6 DEF Done
    <3>2. Len(u) \in Nat
      BY ConcatUnits
    <3>3. Reads(r[0], f[0], r[0][u].value)
      BY <1>1, <2>2, <3>1, NothingReads
    <3>4. Len(f[0]) = Len(u) - Len(r[0][u].rest)
      BY <2>2, <3>1, <3>2, NoUnits
    <3>5. Again(r[0], u, f[0])
      BY <3>3, <3>4 DEF Again
    <3> QED BY <3>5
  <2>4. ASSUME NEW i \in Nat, i \in T PROVE i + 1 \in T
    <3> SUFFICES ASSUME i + 1 <= n PROVE Again(r[i + 1], u, f[i + 1])
      OBVIOUS
    <3>1. i + 1 \in 1..n /\ (i + 1) - 1 = i /\ Again(r[i], u, f[i]) /\ i \in 0..n /\ i + 1 \in 0..n
      BY <2>4
    <3>2. r[i + 1] = Both(r[i], rs[i + 1]) /\ f[i + 1] = f[i] \o ws[i + 1]
      BY <1>1, <2>2, <3>1
    <3>3. Rest(i) \in Units /\ Turn(i + 1) = rs[i + 1][Rest(i)]
      BY <1>5, <3>1 DEF Turn
    <3>4. Again(rs[i + 1], Rest(i), ws[i + 1])
      BY <1>9, <1>11, <3>1, <3>3
    <3>5. Local(r[i]) /\ Local(rs[i + 1]) /\ r[i + 1][u].ok
      BY <1>4, <1>8, <3>1 DEF Fine
    <3>6. Again(Both(r[i], rs[i + 1]), u, f[i] \o ws[i + 1])
      BY <3>1, <3>2, <3>4, <3>5, BothAgain DEF Rest
    <3> QED BY <3>2, <3>6
  <2>5. \A i \in Nat : i \in T
    <3> HIDE DEF T
    <3> QED BY <2>3, <2>4, Induction
  <2> QED BY <1>1, <2>2, <2>5
<1> QED BY <1>10, <1>11

-----------------------------------------------------------------------------
(***************************************************************************)
(* A reader and the writer W of the same values, of which it takes V       *)
(***************************************************************************)
\* What is written of V is read as it was, and what is written of the others
\* is refused.
Decodes(R, W, V) ==
  \A v \in DOMAIN W : /\ v \in V => Reads(R, W[v], v)
                      /\ v \notin V => Refuses(R, W[v])

\* What is read, of any units, is one of V, and writing it takes as many.
Reencodes(R, W, V) ==
  \A u \in Units : R[u].ok => /\ R[u].value \in V /\ R[u].value \in DOMAIN W
                              /\ Again(R, u, W[R[u].value])

Codes(R, W, V) == Local(R) /\ Decodes(R, W, V) /\ Reencodes(R, W, V)

LEMMA WritesUnits ==
  ASSUME NEW R, NEW W, NEW V, Decodes(R, W, V), NEW v \in DOMAIN W
  PROVE  W[v] \in Units
BY DEF Decodes, Reads, Refuses

\* What one value is written as, by the writers of a list.
Parts(n, Ws) ==
  {t \in Seq(UNION {DOMAIN Ws[i] : i \in 1..n}) :
     Len(t) = n /\ \A i \in 1..n : t[i] \in DOMAIN Ws[i]}
PartsWritten(n, Ws, t) == [i \in 1..n |-> Ws[i][t[i]]]
PartsWriter(n, Ws) == [t \in Parts(n, Ws) |-> Written(PartsWritten(n, Ws, t))]
PartsTaken(n, Ws, Vs) == {t \in Parts(n, Ws) : \A i \in 1..n : t[i] \in Vs[i]}

LEMMA FirstOfIs ==
  ASSUME NEW n \in Nat, NEW X, NEW t \in Seq(X), Len(t) = n
  PROVE  FirstOf(t, n) = t
BY DEF FirstOf

LEMMA FirstOfSeq ==
  ASSUME NEW n \in Nat, NEW X, NEW t, t = FirstOf(t, n), \A i \in 1..n : t[i] \in X
  PROVE  t \in Seq(X) /\ Len(t) = n
<1>1. FirstOf(t, n) \in Seq(X) /\ Len(FirstOf(t, n)) = n
  BY DEF FirstOf
<1> QED BY <1>1

LEMMA PartsAre ==
  ASSUME NEW n \in Nat, NEW Ws, NEW t, t = FirstOf(t, n), \A i \in 1..n : t[i] \in DOMAIN Ws[i]
  PROVE  t \in Parts(n, Ws)
<1> DEFINE X == UNION {DOMAIN Ws[i] : i \in 1..n}
<1>1. \A i \in 1..n : t[i] \in X
  OBVIOUS
<1> HIDE DEF X
<1>2. t \in Seq(X) /\ Len(t) = n
  BY <1>1, FirstOfSeq
<1> QED BY <1>2 DEF Parts, X

EachDecodes(n, rs, Ws, Vs) == \A i \in 1..n : Decodes(rs[i], Ws[i], Vs[i])

LEMMA PartsWrites ==
  ASSUME NEW n \in Nat, NEW rs, NEW Ws, NEW Vs, EachDecodes(n, rs, Ws, Vs),
         NEW t \in Parts(n, Ws)
  PROVE  /\ Writes(PartsWritten(n, Ws, t), n)
         /\ \A i \in 1..n : PartsWritten(n, Ws, t)[i] = Ws[i][t[i]]
         /\ FirstOf(t, n) = t
<1> DEFINE f == PartsWritten(n, Ws, t)
<1>1. \A i \in 1..n : f[i] = Ws[i][t[i]]
  BY DEF PartsWritten
<1>2. \A i \in 1..n : f[i] \in Units
  <2> TAKE i \in 1..n
  <2>1. t[i] \in DOMAIN Ws[i]
    BY DEF Parts
  <2>2. Ws[i][t[i]] \in Units
    BY <2>1, WritesUnits DEF EachDecodes
  <2> QED BY <1>1, <2>2
<1>3. f = FirstOf(f, n)
  BY DEF FirstOf, PartsWritten
<1> HIDE DEF f
<1>4. Len(f) = n /\ f \in Seq(Units)
  BY <1>2, <1>3, FirstOfSeq
<1>5. n = 0 => f = << >>
  BY <1>4
<1>6. FirstOf(t, n) = t
  <2>1. t \in Seq(UNION {DOMAIN Ws[i] : i \in 1..n}) /\ Len(t) = n
    BY DEF Parts
  <2> QED BY <2>1, FirstOfIs
<1> QED BY <1>1, <1>2, <1>4, <1>5, <1>6 DEF Writes, f

LEMMA EachCodes ==
  ASSUME NEW n \in Nat, NEW rs, Len(rs) = n, NEW Ws, NEW Vs,
         \A i \in 1..n : Local(rs[i]) /\ Decodes(rs[i], Ws[i], Vs[i])
  PROVE  /\ Local(Each(rs))
         /\ Decodes(Each(rs), PartsWriter(n, Ws), PartsTaken(n, Ws, Vs))
         /\ (\A i \in 1..n : Reencodes(rs[i], Ws[i], Vs[i])) =>
              Reencodes(Each(rs), PartsWriter(n, Ws), PartsTaken(n, Ws, Vs))
<1> DEFINE W == PartsWriter(n, Ws)
           V == PartsTaken(n, Ws, Vs)
           P == Parts(n, Ws)
<1>1. DOMAIN W = P /\ \A t \in P : W[t] = Written(PartsWritten(n, Ws, t))
  BY DEF PartsWriter
<1>2. \A t \in P : t \in V <=> \A i \in 1..n : t[i] \in Vs[i]
  BY DEF PartsTaken
<1>3. Local(Each(rs))
  BY EachLocal
<1>8. EachDecodes(n, rs, Ws, Vs)
  BY DEF EachDecodes
<1>9. ASSUME NEW t \in P, NEW ws, ws = PartsWritten(n, Ws, t)
      PROVE  Writes(ws, n) /\ (\A i \in 1..n : ws[i] = Ws[i][t[i]]) /\ FirstOf(t, n) = t
  <2>1. /\ Writes(PartsWritten(n, Ws, t), n)
        /\ \A i \in 1..n : PartsWritten(n, Ws, t)[i] = Ws[i][t[i]]
        /\ FirstOf(t, n) = t
    <3> HIDE DEF W, V
    <3> QED BY <1>8, PartsWrites
  <2> QED BY <1>9, <2>1
<1> HIDE DEF W, V
<1>4. ASSUME NEW t \in P
      PROVE  /\ t \in V => Reads(Each(rs), W[t], t)
             /\ t \notin V => Refuses(Each(rs), W[t])
  <2>1. PICK ws : ws = PartsWritten(n, Ws, t)
    OBVIOUS
  <2>2. Writes(ws, n) /\ (\A i \in 1..n : ws[i] = Ws[i][t[i]]) /\ FirstOf(t, n) = t /\ W[t] = Written(ws)
    BY <1>1, <1>9, <2>1
  <2>3. \A i \in 1..n : t[i] \in DOMAIN Ws[i]
    BY DEF Parts
  <2>4. \A i \in 1..n : /\ t[i] \in Vs[i] => Reads(rs[i], ws[i], t[i])
                        /\ t[i] \notin Vs[i] => Refuses(rs[i], ws[i])
    BY <2>2, <2>3 DEF Decodes
  <2>5. CASE t \in V
    <3>1. \A i \in 1..n : Reads(rs[i], ws[i], t[i])
      BY <1>2, <2>4, <2>5
    <3>2. Reads(Each(rs), Written(ws), FirstOf(t, n))
      BY <2>2, <3>1, EachReads
    <3> QED BY <2>2, <2>5, <3>2
  <2>6. CASE t \notin V
    <3>1. \E i \in 1..n : Refuses(rs[i], ws[i])
      BY <1>2, <2>4, <2>6
    <3>2. \A i \in 1..n : Refuses(rs[i], ws[i]) \/ \E v : Reads(rs[i], ws[i], v)
      BY <2>4
    <3>3. Refuses(Each(rs), Written(ws))
      BY <2>2, <3>1, <3>2, EachRefuses
    <3> QED BY <2>2, <2>6, <3>3
  <2> QED BY <2>5, <2>6
<1>5. ASSUME \A i \in 1..n : Reencodes(rs[i], Ws[i], Vs[i]), NEW u \in Units, Each(rs)[u].ok
      PROVE  /\ Each(rs)[u].value \in V /\ Each(rs)[u].value \in P
             /\ Again(Each(rs), u, W[Each(rs)[u].value])
  <2>1. PICK t : t = Each(rs)[u].value
    OBVIOUS
  <2>2. EachRead(rs, n, u, t)
    BY <1>5, <2>1, EachAgain
  <2>3. t = FirstOf(t, n) /\ \A i \in 1..n : \E x \in Units : rs[i][x].ok /\ rs[i][x].value = t[i]
    BY <2>2 DEF EachRead
  <2>4. \A i \in 1..n : t[i] \in DOMAIN Ws[i] /\ t[i] \in Vs[i]
    BY <1>5, <2>3 DEF Reencodes
  <2>5. t \in P /\ t \in V
    BY <1>2, <2>3, <2>4, PartsAre
  <2>6. PICK ws : ws = PartsWritten(n, Ws, t)
    OBVIOUS
  <2>7. Writes(ws, n) /\ (\A i \in 1..n : ws[i] = Ws[i][t[i]]) /\ W[t] = Written(ws)
    BY <1>1, <1>9, <2>5, <2>6
  <2>8. ASSUME NEW i \in 1..n, NEW x \in Units, rs[i][x].ok, rs[i][x].value = t[i]
        PROVE  Again(rs[i], x, ws[i])
    BY <1>5, <2>7, <2>8 DEF Reencodes
  <2>9. Again(Each(rs), u, Written(ws))
    BY <1>5, <2>1, <2>7, <2>8, EachAgain
  <2> QED BY <2>1, <2>5, <2>7, <2>9
<1>6. Decodes(Each(rs), W, V)
  BY <1>1, <1>4 DEF Decodes
<1>7. ASSUME \A i \in 1..n : Reencodes(rs[i], Ws[i], Vs[i]) PROVE Reencodes(Each(rs), W, V)
  BY <1>1, <1>5, <1>7 DEF Reencodes
<1> QED BY <1>3, <1>6, <1>7 DEF W, V

-----------------------------------------------------------------------------
(***************************************************************************)
(* A unit, a flag, and what is made of what was read                       *)
(***************************************************************************)
UnitWriter == [n \in Nat |-> <<n>>]
FlagWriter == [b \in BOOLEAN |-> <<IF b THEN 1 ELSE 0>>]

LEMMA UnitCodes == Codes(Unit, UnitWriter, Nat)
<1>1. DOMAIN UnitWriter = Nat /\ \A n \in Nat : UnitWriter[n] = <<n>>
  BY DEF UnitWriter
<1>2. Decodes(Unit, UnitWriter, Nat)
  BY <1>1, UnitReads DEF Decodes
<1>3. Reencodes(Unit, UnitWriter, Nat)
  BY <1>1, UnitAgain DEF Reencodes
<1> QED BY <1>2, <1>3, UnitLocal DEF Codes

\* Any unit but 1 is read as FALSE.
LEMMA FlagIs ==
  ASSUME NEW u \in Units, NEW b \in BOOLEAN, u # << >>, b <=> Head(u) = 1
  PROVE  Flag[u] = Done(b, Tail(u))
<1>1. Flag[u] = IF u = << >> THEN Truncated ELSE Done(Head(u) = 1, Tail(u))
  BY Zenon DEF Flag
<1>2. (Head(u) = 1) = b
  OBVIOUS
<1>3. (IF u = << >> THEN Truncated ELSE Done(Head(u) = 1, Tail(u))) = Done(Head(u) = 1, Tail(u))
  OBVIOUS
<1> QED BY <1>1, <1>2, <1>3, Zenon

LEMMA AfterUnit ==
  \A n \in Nat, rest \in Units :
    \E u \in Units : u = <<n>> \o rest /\ u # << >> /\ Head(u) = n /\ Tail(u) = rest
BY CountFirst, Zenon

LEMMA FlagReads ==
  ASSUME NEW n \in Nat, NEW b \in BOOLEAN, b <=> n = 1
  PROVE  Reads(Flag, <<n>>, b)
<1>1. ASSUME NEW rest \in Units PROVE Flag[<<n>> \o rest] = Done(b, rest)
  <2>1. PICK u \in Units : u = <<n>> \o rest /\ u # << >> /\ Head(u) = n /\ Tail(u) = rest
    BY AfterUnit, Zenon
  <2>2. b <=> Head(u) = 1
    BY <2>1
  <2>3. Flag[u] = Done(b, Tail(u))
    BY <2>1, <2>2, FlagIs
  <2> QED BY <2>1, <2>3
<1>2. <<n>> \in Units
  BY CountFirst, NoUnits
<1> QED BY <1>1, <1>2 DEF Reads

LEMMA FlagEnds == Flag[<< >>] = Truncated
BY NoUnits DEF Flag

LEMMA FlagCodes == Codes(Flag, FlagWriter, BOOLEAN)
<1>1. DOMAIN FlagWriter = BOOLEAN
  BY DEF FlagWriter
<1>2. ASSUME NEW b \in BOOLEAN
      PROVE  Reads(Flag, FlagWriter[b], b) /\ Len(FlagWriter[b]) = 1
  <2>1. CASE b
    <3>1. FlagWriter[b] = <<1>> /\ (b <=> 1 = 1)
      BY <2>1 DEF FlagWriter
    <3> QED BY <3>1, FlagReads
  <2>2. CASE ~b
    <3>1. FlagWriter[b] = <<0>> /\ (b <=> 0 = 1)
      BY <2>2 DEF FlagWriter
    <3> QED BY <3>1, FlagReads
  <2> QED BY <2>1, <2>2
<1>3. ASSUME NEW u \in Units, u # << >>
      PROVE  \E b \in BOOLEAN : Flag[u] = Done(b, Tail(u)) /\ Reads(Flag, <<Head(u)>>, b)
  <2>1. PICK n \in Nat : n = Head(u)
    BY <1>3, FirstUnit
  <2>2. \E b \in BOOLEAN : b <=> n = 1
    OBVIOUS
  <2>3. PICK b \in BOOLEAN : b <=> n = 1
    BY <2>2
  <2>4. Reads(Flag, <<n>>, b)
    BY <2>3, FlagReads
  <2>5. Flag[u] = Done(b, Tail(u))
    BY <1>3, <2>1, <2>3, FlagIs
  <2> QED BY <2>1, <2>4, <2>5
<1>4. Decodes(Flag, FlagWriter, BOOLEAN)
  BY <1>1, <1>2 DEF Decodes
<1>5. ASSUME NEW u \in Units
      PROVE  /\ Flag[u].rest \in Units
             /\ Flag[u].ok =>
                  /\ \E c \in Units : u = c \o Flag[u].rest /\ Reads(Flag, c, Flag[u].value)
                  /\ Flag[u].value \in BOOLEAN
                  /\ Again(Flag, u, FlagWriter[Flag[u].value])
  <2>1. CASE u = << >>
    <3>1. ~Flag[u].ok /\ Flag[u].rest = << >>
      BY <2>1, FlagEnds, TruncatedIs
    <3> QED BY <3>1, NoUnits
  <2>2. CASE u # << >>
    <3>1. PICK b \in BOOLEAN : Flag[u] = Done(b, Tail(u)) /\ Reads(Flag, <<Head(u)>>, b)
      BY <1>3, <2>2
    <3>2. Flag[u].value = b /\ Flag[u].rest = Tail(u)
      BY <3>1, DoneIs, Zenon
    <3>3. Head(u) \in Nat /\ Tail(u) \in Units /\ u = <<Head(u)>> \o Tail(u) /\ Len(u) = Len(Tail(u)) + 1
          /\ <<Head(u)>> \in Units /\ Len(Tail(u)) \in Nat
      BY <2>2, FirstUnit, CountFirst, NoUnits, ConcatUnits
    <3>4. Reads(Flag, FlagWriter[b], b) /\ Len(FlagWriter[b]) = Len(u) - Len(Tail(u))
      BY <1>2, <3>3
    <3>5. Again(Flag, u, FlagWriter[b])
      BY <3>2, <3>4 DEF Again
    <3> QED BY <3>1, <3>2, <3>3, <3>5
  <2> QED BY <2>1, <2>2
<1>6. Local(Flag)
  BY <1>5 DEF Local
<1>7. Reencodes(Flag, FlagWriter, BOOLEAN)
  BY <1>1, <1>5 DEF Reencodes
<1> QED BY <1>4, <1>6, <1>7 DEF Codes

\* R2 makes F of what R reads.
MadeBy(R2, R, F) ==
  \A u \in Units : /\ R[u].ok => R2[u] = Done(F[R[u].value], R[u].rest)
                   /\ ~R[u].ok => R2[u] = Truncated

\* W2 writes as W does, by another name.
SameWriting(W2, V2, W, V, F, G) ==
  /\ \A t \in DOMAIN W : F[t] \in DOMAIN W2 /\ W2[F[t]] = W[t] /\ (t \in V <=> F[t] \in V2)
  /\ \A v \in DOMAIN W2 : G[v] \in DOMAIN W /\ F[G[v]] = v

LEMMA MadeReads ==
  ASSUME NEW R2, NEW R, NEW F, MadeBy(R2, R, F), NEW w
  PROVE  /\ \A v : Reads(R, w, v) => Reads(R2, w, F[v])
         /\ Refuses(R, w) => Refuses(R2, w)
<1>1. ASSUME NEW v, Reads(R, w, v) PROVE Reads(R2, w, F[v])
  <2>1. ASSUME NEW rest \in Units PROVE R2[w \o rest] = Done(F[v], rest)
    <3>1. PICK u \in Units : u = w \o rest
      BY <1>1, ConcatUnits DEF Reads
    <3>2. R[u] = Done(v, rest)
      BY <1>1, <3>1 DEF Reads
    <3>3. R[u].ok
      BY <3>2, DoneOk
    <3>4. R[u].value = v /\ R[u].rest = rest
      BY <3>2, DoneIs
    <3> QED BY <3>1, <3>3, <3>4 DEF MadeBy
  <2> QED BY <1>1, <2>1 DEF Reads
<1>2. ASSUME Refuses(R, w) PROVE Refuses(R2, w)
  <2>1. ASSUME NEW rest \in Units PROVE ~R2[w \o rest].ok
    <3>1. PICK u \in Units : u = w \o rest
      BY <1>2, ConcatUnits DEF Refuses
    <3>2. ~R[u].ok
      BY <1>2, <3>1 DEF Refuses
    <3>3. R2[u] = Truncated
      BY <3>2 DEF MadeBy
    <3> QED BY <3>1, <3>3, TruncatedIs
  <2> QED BY <1>2, <2>1 DEF Refuses
<1> QED BY <1>1, <1>2

LEMMA MadeCodes ==
  ASSUME NEW R2, NEW R, NEW F, MadeBy(R2, R, F), NEW W, NEW V, Codes(R, W, V),
         NEW W2, NEW V2, NEW G, SameWriting(W2, V2, W, V, F, G)
  PROVE  Codes(R2, W2, V2)
<1>0. Local(R) /\ Decodes(R, W, V) /\ Reencodes(R, W, V)
  BY DEF Codes
<1>1. ASSUME NEW u \in Units
      PROVE  \/ ~R2[u].ok /\ R2[u].rest = << >>
             \/ R2[u].ok /\ R[u].ok /\ R2[u].rest = R[u].rest /\ R2[u].value = F[R[u].value]
  <2>1. CASE R[u].ok
    <3>1. R2[u] = Done(F[R[u].value], R[u].rest)
      BY <2>1 DEF MadeBy
    <3>2. R2[u].value = F[R[u].value] /\ R2[u].rest = R[u].rest
      BY <3>1 DEF Done
    <3> QED BY <2>1, <3>1, <3>2, DoneOk
  <2>2. CASE ~R[u].ok
    <3>1. R2[u] = Truncated
      BY <2>2 DEF MadeBy
    <3> QED BY <3>1, TruncatedIs
  <2> QED BY <2>1, <2>2
<1>2. ASSUME NEW u \in Units
      PROVE  /\ R2[u].rest \in Units
             /\ R2[u].ok =>
                  /\ \E c \in Units : u = c \o R2[u].rest /\ Reads(R2, c, R2[u].value)
                  /\ R2[u].value \in V2 /\ R2[u].value \in DOMAIN W2
                  /\ Again(R2, u, W2[R2[u].value])
  <2>1. CASE ~R2[u].ok /\ R2[u].rest = << >>
    BY <2>1, NoUnits
  <2>2. CASE R2[u].ok /\ R[u].ok /\ R2[u].rest = R[u].rest /\ R2[u].value = F[R[u].value]
    <3>1. PICK v : v = R[u].value
      OBVIOUS
    <3>2. PICK x \in Units : x = R[u].rest
      BY <1>0 DEF Local
    <3>3. R2[u].value = F[v] /\ R2[u].rest = x
      BY <2>2, <3>1, <3>2
    <3>4. PICK c \in Units : u = c \o x /\ Reads(R, c, v)
      BY <1>0, <2>2, <3>1, <3>2 DEF Local
    <3>5. Reads(R2, c, F[v])
      BY <3>4, MadeReads
    <3>6. v \in V /\ v \in DOMAIN W /\ Again(R, u, W[v])
      BY <1>0, <2>2, <3>1 DEF Reencodes
    <3>7. F[v] \in DOMAIN W2 /\ W2[F[v]] = W[v] /\ F[v] \in V2
      BY <3>6 DEF SameWriting
    <3>8. Reads(R, W[v], v) /\ Len(W[v]) = Len(u) - Len(x)
      BY <3>1, <3>2, <3>6 DEF Again
    <3>9. Reads(R2, W[v], F[v])
      BY <3>8, MadeReads
    <3>10. Again(R2, u, W[v])
      BY <3>3, <3>8, <3>9 DEF Again
    <3> QED BY <3>3, <3>4, <3>5, <3>7, <3>10
  <2> QED BY <1>1, <2>1, <2>2
<1>3. Local(R2)
  BY <1>2 DEF Local
<1>4. Reencodes(R2, W2, V2)
  BY <1>2 DEF Reencodes
<1>5. ASSUME NEW v \in DOMAIN W2
      PROVE  /\ v \in V2 => Reads(R2, W2[v], v)
             /\ v \notin V2 => Refuses(R2, W2[v])
  <2>1. PICK t \in DOMAIN W : t = G[v] /\ F[t] = v
    BY DEF SameWriting
  <2>2. W2[v] = W[t] /\ (t \in V <=> v \in V2)
    BY <2>1 DEF SameWriting
  <2>3. CASE v \in V2
    <3>1. Reads(R, W[t], t)
      BY <1>0, <2>2, <2>3 DEF Decodes
    <3> QED BY <2>1, <2>2, <2>3, <3>1, MadeReads
  <2>4. CASE v \notin V2
    <3>1. Refuses(R, W[t])
      BY <1>0, <2>2, <2>4 DEF Decodes
    <3> QED BY <2>2, <2>4, <3>1, MadeReads
  <2> QED BY <2>3, <2>4
<1>6. Decodes(R2, W2, V2)
  BY <1>5 DEF Decodes
<1> QED BY <1>3, <1>4, <1>6 DEF Codes

-----------------------------------------------------------------------------
(***************************************************************************)
(* A count and as many values                                              *)
(***************************************************************************)
\* The same reader, writer and values n times.
SameDecodes(rs, W, V, n) ==
  \A s \in Seq(DOMAIN W) : Len(s) = n =>
    LET w == Written([i \in 1..n |-> W[s[i]]])
    IN  /\ (\A i \in 1..n : s[i] \in V) => Reads(Each(rs), w, s)
        /\ (\E i \in 1..n : s[i] \notin V) => Refuses(Each(rs), w)

SameReencodes(rs, W, V, n) ==
  \A u \in Units : Each(rs)[u].ok =>
    LET s == Each(rs)[u].value
    IN  /\ s \in Seq(DOMAIN W) /\ Len(s) = n /\ \A i \in 1..n : s[i] \in V
        /\ Again(Each(rs), u, Written([i \in 1..n |-> W[s[i]]]))

LEMMA SameEach ==
  ASSUME NEW R, NEW W, NEW V, Codes(R, W, V) \/ (Local(R) /\ Decodes(R, W, V)),
         NEW n \in Nat, NEW rs, rs = [i \in 1..n |-> R]
  PROVE  /\ Local(Each(rs))
         /\ SameDecodes(rs, W, V, n)
         /\ Codes(R, W, V) => SameReencodes(rs, W, V, n)
<1>1. Len(rs) = n /\ \A i \in 1..n : rs[i] = R
  <2>1. rs \in Seq({R})
    OBVIOUS
  <2> QED BY <2>1
<1> DEFINE Ws == [i \in 1..n |-> W]
           Vs == [i \in 1..n |-> V]
<1>2. \A i \in 1..n : Ws[i] = W /\ Vs[i] = V
  OBVIOUS
<1>3. Local(R) /\ Decodes(R, W, V)
  BY DEF Codes
<1> HIDE DEF Ws, Vs
<1>4. \A i \in 1..n : Local(rs[i]) /\ Decodes(rs[i], Ws[i], Vs[i])
  BY <1>1, <1>2, <1>3
<1>5. /\ Local(Each(rs))
      /\ Decodes(Each(rs), PartsWriter(n, Ws), PartsTaken(n, Ws, Vs))
      /\ (\A i \in 1..n : Reencodes(rs[i], Ws[i], Vs[i])) =>
           Reencodes(Each(rs), PartsWriter(n, Ws), PartsTaken(n, Ws, Vs))
  BY <1>1, <1>4, EachCodes
<1>6. \A t : t \in Parts(n, Ws) <=> t \in Seq(DOMAIN W) /\ Len(t) = n
  <2> DEFINE X == UNION {DOMAIN Ws[i] : i \in 1..n}
  <2>1. ASSUME NEW t \in Parts(n, Ws) PROVE t \in Seq(DOMAIN W) /\ Len(t) = n
    <3>1. t \in Seq(X) /\ Len(t) = n /\ \A i \in 1..n : t[i] \in DOMAIN W
      BY <1>2 DEF Parts
    <3> HIDE DEF X
    <3>2. t = FirstOf(t, n)
      BY <3>1, FirstOfIs
    <3> QED BY <3>1, <3>2, FirstOfSeq
  <2>2. ASSUME NEW t \in Seq(DOMAIN W), Len(t) = n PROVE t \in Parts(n, Ws)
    <3>1. t = FirstOf(t, n)
      BY <2>2, FirstOfIs
    <3>2. \A i \in 1..n : t[i] \in DOMAIN Ws[i]
      BY <1>2, <2>2
    <3> QED BY <3>1, <3>2, PartsAre
  <2> QED BY <2>1, <2>2
<1>7. \A t \in Parts(n, Ws) : /\ PartsWriter(n, Ws)[t] = Written([i \in 1..n |-> W[t[i]]])
                              /\ t \in PartsTaken(n, Ws, Vs) <=> \A i \in 1..n : t[i] \in V
  <2> TAKE t \in Parts(n, Ws)
  <2>1. PartsWritten(n, Ws, t) = [i \in 1..n |-> W[t[i]]]
    BY <1>2 DEF PartsWritten
  <2>2. PartsWriter(n, Ws)[t] = Written(PartsWritten(n, Ws, t))
    BY DEF PartsWriter
  <2>3. t \in PartsTaken(n, Ws, Vs) <=> \A i \in 1..n : t[i] \in V
    BY <1>2 DEF PartsTaken
  <2> QED BY <2>1, <2>2, <2>3
<1>8. DOMAIN PartsWriter(n, Ws) = Parts(n, Ws)
  BY DEF PartsWriter
<1>9. ASSUME NEW s \in Seq(DOMAIN W), Len(s) = n
      PROVE  LET w == Written([i \in 1..n |-> W[s[i]]])
             IN  /\ (\A i \in 1..n : s[i] \in V) => Reads(Each(rs), w, s)
                 /\ (\E i \in 1..n : s[i] \notin V) => Refuses(Each(rs), w)
  <2>1. s \in Parts(n, Ws)
    BY <1>6, <1>9
  <2>2. /\ s \in PartsTaken(n, Ws, Vs) => Reads(Each(rs), PartsWriter(n, Ws)[s], s)
        /\ s \notin PartsTaken(n, Ws, Vs) => Refuses(Each(rs), PartsWriter(n, Ws)[s])
    BY <1>5, <1>8, <2>1 DEF Decodes
  <2> QED BY <1>7, <2>1, <2>2
<1>10. ASSUME Codes(R, W, V), NEW u \in Units, Each(rs)[u].ok
       PROVE  LET s == Each(rs)[u].value
              IN  /\ s \in Seq(DOMAIN W) /\ Len(s) = n /\ \A i \in 1..n : s[i] \in V
                  /\ Again(Each(rs), u, Written([i \in 1..n |-> W[s[i]]]))
  <2>1. PICK s : s = Each(rs)[u].value
    OBVIOUS
  <2>2. \A i \in 1..n : Reencodes(rs[i], Ws[i], Vs[i])
    BY <1>1, <1>2, <1>10 DEF Codes
  <2>3. s \in PartsTaken(n, Ws, Vs) /\ s \in Parts(n, Ws) /\ Again(Each(rs), u, PartsWriter(n, Ws)[s])
    BY <1>5, <1>8, <1>10, <2>1, <2>2 DEF Reencodes
  <2>4. PartsWriter(n, Ws)[s] = Written([i \in 1..n |-> W[s[i]]]) /\ \A i \in 1..n : s[i] \in V
    BY <1>7, <2>3
  <2>5. s \in Seq(DOMAIN W) /\ Len(s) = n
    BY <1>6, <2>3
  <2> QED BY <2>1, <2>3, <2>4, <2>5
<1>11. SameDecodes(rs, W, V, n)
  BY <1>9 DEF SameDecodes
<1>12. ASSUME Codes(R, W, V) PROVE SameReencodes(rs, W, V, n)
  BY <1>10, <1>12 DEF SameReencodes
<1> QED BY <1>5, <1>11, <1>12

\* R2 reads one of the counts C, and N of it values of R.
Counted(R2, R, C, N) ==
  /\ C \subseteq Nat /\ \A h \in C : N[h] \in C /\ N[N[h]] = N[h]
  /\ \A u \in Units :
       /\ u = << >> \/ Head(u) \notin C => R2[u] = Truncated
       /\ u # << >> /\ Head(u) \in C => R2[u] = Each([i \in 1..N[Head(u)] |-> R])[Tail(u)]

\* W2 writes the length of a list and what W writes of its elements.
Counting(W2, V2, W, V, C, N) ==
  /\ \A s \in DOMAIN W2 :
       /\ s \in Seq(DOMAIN W) /\ (Len(s) \in C => N[Len(s)] = Len(s))
       /\ W2[s] = <<Len(s)>> \o Written([i \in 1..Len(s) |-> W[s[i]]])
       /\ s \in V2 <=> Len(s) \in C /\ \A i \in 1..Len(s) : s[i] \in V
  /\ \A s \in Seq(DOMAIN W) : Len(s) \in C /\ N[Len(s)] = Len(s) => s \in DOMAIN W2

LEMMA CountedReads ==
  ASSUME NEW R2, NEW R, NEW C, NEW N, Counted(R2, R, C, N), NEW h \in C, NEW w \in Units
  PROVE  /\ \A s : Reads(Each([i \in 1..N[h] |-> R]), w, s) => Reads(R2, <<h>> \o w, s)
         /\ Refuses(Each([i \in 1..N[h] |-> R]), w) => Refuses(R2, <<h>> \o w)
<1> DEFINE E == Each([i \in 1..N[h] |-> R])
<1>1. h \in Nat /\ <<h>> \in Units /\ <<h>> \o w \in Units
  BY CountFirst DEF Counted
<1>2. ASSUME NEW rest \in Units
      PROVE  w \o rest \in Units /\ R2[(<<h>> \o w) \o rest] = E[w \o rest]
  <2>1. PICK x \in Units : x = w \o rest
    BY ConcatUnits
  <2>2. (<<h>> \o w) \o rest = <<h>> \o x
    BY <1>1, <2>1, ConcatThree
  <2>3. PICK u \in Units : u = <<h>> \o x /\ u # << >> /\ Head(u) = h /\ Tail(u) = x
    BY <1>1, AfterUnit
  <2>4. R2[u] = E[x]
    BY <2>3 DEF Counted
  <2> QED BY <2>1, <2>2, <2>3, <2>4
<1> HIDE DEF E
<1>3. ASSUME NEW s, Reads(E, w, s) PROVE Reads(R2, <<h>> \o w, s)
  BY <1>1, <1>2, <1>3 DEF Reads
<1>4. ASSUME Refuses(E, w) PROVE Refuses(R2, <<h>> \o w)
  BY <1>1, <1>2, <1>4 DEF Refuses
<1> QED BY <1>3, <1>4 DEF E

\* A count that is not taken.
LEMMA CountRefused ==
  ASSUME NEW R2, NEW R, NEW C, NEW N, Counted(R2, R, C, N), NEW h \in Nat, h \notin C, NEW w \in Units
  PROVE  Refuses(R2, <<h>> \o w)
<1>1. <<h>> \in Units /\ <<h>> \o w \in Units
  BY CountFirst
<1>2. ASSUME NEW rest \in Units PROVE ~R2[(<<h>> \o w) \o rest].ok
  <2>1. PICK x \in Units : x = w \o rest
    BY ConcatUnits
  <2>2. (<<h>> \o w) \o rest = <<h>> \o x
    BY <1>1, <2>1, ConcatThree
  <2>3. PICK u \in Units : u = <<h>> \o x /\ u # << >> /\ Head(u) = h /\ Tail(u) = x
    BY AfterUnit
  <2>4. R2[u] = Truncated
    BY <2>3 DEF Counted
  <2> QED BY <2>2, <2>3, <2>4, TruncatedIs
<1> QED BY <1>1, <1>2 DEF Refuses

LEMMA CountedDecodes ==
  ASSUME NEW R, NEW W, NEW V, Local(R), Decodes(R, W, V),
         NEW C, NEW N, NEW R2, Counted(R2, R, C, N), NEW W2, NEW V2, Counting(W2, V2, W, V, C, N)
  PROVE  Decodes(R2, W2, V2)
<1> SUFFICES ASSUME NEW s \in DOMAIN W2
             PROVE  /\ s \in V2 => Reads(R2, W2[s], s)
                    /\ s \notin V2 => Refuses(R2, W2[s])
  BY DEF Decodes
<1>1. /\ s \in Seq(DOMAIN W) /\ (Len(s) \in C => N[Len(s)] = Len(s))
      /\ W2[s] = <<Len(s)>> \o Written([i \in 1..Len(s) |-> W[s[i]]])
      /\ s \in V2 <=> Len(s) \in C /\ \A i \in 1..Len(s) : s[i] \in V
  BY DEF Counting
<1>2. PICK n \in Nat : n = Len(s)
  BY <1>1
<1>3. PICK w, rs : w = Written([i \in 1..n |-> W[s[i]]]) /\ rs = [i \in 1..n |-> R]
  OBVIOUS
<1>4. /\ (\A i \in 1..n : s[i] \in V) => Reads(Each(rs), w, s)
      /\ (\E i \in 1..n : s[i] \notin V) => Refuses(Each(rs), w)
  <2>1. SameDecodes(rs, W, V, n)
    BY <1>3, SameEach
  <2> QED BY <1>1, <1>2, <1>3, <2>1 DEF SameDecodes
<1>5. w \in Units
  BY <1>4 DEF Reads, Refuses
<1>6. CASE n \notin C
  <2>1. Refuses(R2, <<n>> \o w)
    BY <1>5, <1>6, CountRefused
  <2> QED BY <1>1, <1>2, <1>3, <1>6, <2>1
<1>7. CASE n \in C
  <2>1. N[n] = n
    BY <1>1, <1>2, <1>7
  <2>2. /\ Reads(Each(rs), w, s) => Reads(R2, <<n>> \o w, s)
        /\ Refuses(Each(rs), w) => Refuses(R2, <<n>> \o w)
    BY <1>3, <1>5, <1>7, <2>1, CountedReads
  <2> QED BY <1>1, <1>2, <1>3, <1>4, <1>7, <2>2
<1> QED BY <1>6, <1>7

LEMMA CountedIs ==
  ASSUME NEW R, NEW W, NEW V, Local(R), Decodes(R, W, V),
         NEW C, NEW N, NEW R2, Counted(R2, R, C, N),
         NEW u \in Units
  PROVE  \/ ~R2[u].ok /\ R2[u].rest = << >>
         \/ \E h \in C, x \in Units :
              /\ u = <<h>> \o x /\ Len(u) = Len(x) + 1
              /\ R2[u] = Each([i \in 1..N[h] |-> R])[x]
<1>1. CASE u = << >> \/ Head(u) \notin C
  <2>1. R2[u] = Truncated
    BY <1>1 DEF Counted
  <2> QED BY <2>1, TruncatedIs
<1>2. CASE u # << >> /\ Head(u) \in C
  <2>1. R2[u] = Each([i \in 1..N[Head(u)] |-> R])[Tail(u)]
    BY <1>2 DEF Counted
  <2>2. Tail(u) \in Units /\ u = <<Head(u)>> \o Tail(u) /\ Len(u) = Len(Tail(u)) + 1
    BY <1>2, FirstUnit
  <2> QED BY <1>2, <2>1, <2>2, Zenon
<1> QED BY <1>1, <1>2

LEMMA CountedLocal ==
  ASSUME NEW R, NEW W, NEW V, Local(R), Decodes(R, W, V),
         NEW C, NEW N, NEW R2, Counted(R2, R, C, N)
  PROVE  Local(R2)
<1> SUFFICES ASSUME NEW u \in Units
             PROVE  /\ R2[u].rest \in Units
                    /\ R2[u].ok => \E c \in Units : u = c \o R2[u].rest /\ Reads(R2, c, R2[u].value)
  BY DEF Local
<1>1. CASE ~R2[u].ok /\ R2[u].rest = << >>
  BY <1>1, NoUnits
<1>2. ASSUME NEW h \in C, NEW x \in Units, u = <<h>> \o x, R2[u] = Each([i \in 1..N[h] |-> R])[x]
      PROVE  /\ R2[u].rest \in Units
             /\ R2[u].ok => \E c \in Units : u = c \o R2[u].rest /\ Reads(R2, c, R2[u].value)
  <2>1. N[h] \in Nat /\ h \in Nat
    BY DEF Counted
  <2>2. PICK E : E = Each([i \in 1..N[h] |-> R])
    OBVIOUS
  <2>3. Local(E)
    BY <2>1, <2>2, SameEach
  <2>4. PICK rest \in Units : rest = E[x].rest
    BY <2>3 DEF Local
  <2>5. R2[u].rest = rest /\ R2[u].value = E[x].value /\ (R2[u].ok => E[x].ok)
    BY <1>2, <2>2, <2>4
  <2>6. ASSUME E[x].ok PROVE \E c \in Units : u = c \o rest /\ Reads(R2, c, E[x].value)
    <3>1. PICK d \in Units : x = d \o rest /\ Reads(E, d, E[x].value)
      BY <2>3, <2>4, <2>6 DEF Local
    <3>2. Reads(R2, <<h>> \o d, E[x].value)
      BY <2>2, <3>1, CountedReads
    <3>3. <<h>> \in Units /\ <<h>> \o d \in Units
      BY <2>1, CountFirst
    <3>4. u = (<<h>> \o d) \o rest
      <4>1. PICK hs \in Units : hs = <<h>>
        BY <3>3
      <4>2. (hs \o d) \o rest = hs \o (d \o rest)
        BY ConcatThree
      <4>3. u = hs \o (d \o rest)
        BY <1>2, <3>1, <4>1
      <4> QED BY <4>1, <4>2, <4>3
    <3> QED BY <3>2, <3>3, <3>4
  <2> QED BY <2>4, <2>5, <2>6
<1>3. \/ ~R2[u].ok /\ R2[u].rest = << >>
      \/ \E h \in C, x \in Units :
           /\ u = <<h>> \o x /\ Len(u) = Len(x) + 1
           /\ R2[u] = Each([i \in 1..N[h] |-> R])[x]
  BY CountedIs
<1> QED BY <1>1, <1>2, <1>3

LEMMA CountedReencodes ==
  ASSUME NEW R, NEW W, NEW V, Codes(R, W, V),
         NEW C, NEW N, NEW R2, Counted(R2, R, C, N), NEW W2, NEW V2, Counting(W2, V2, W, V, C, N)
  PROVE  Reencodes(R2, W2, V2)
<1>0. Local(R) /\ Decodes(R, W, V)
  BY DEF Codes
<1> SUFFICES ASSUME NEW u \in Units, R2[u].ok
             PROVE  /\ R2[u].value \in V2 /\ R2[u].value \in DOMAIN W2
                    /\ Again(R2, u, W2[R2[u].value])
  BY DEF Reencodes
<1>1. PICK h \in C, x \in Units :
        u = <<h>> \o x /\ Len(u) = Len(x) + 1 /\ R2[u] = Each([i \in 1..N[h] |-> R])[x]
  BY <1>0, CountedIs
<1>2. PICK n \in Nat : n = N[h] /\ n \in C /\ N[n] = n
  BY DEF Counted
<1>3. PICK rs : rs = [i \in 1..n |-> R]
  OBVIOUS
<1>4. R2[u] = Each(rs)[x] /\ Each(rs)[x].ok
  BY <1>1, <1>2, <1>3
<1>5. PICK s : s = Each(rs)[x].value
  OBVIOUS
<1>6. PICK w : w = Written([i \in 1..n |-> W[s[i]]])
  OBVIOUS
<1>7. /\ s \in Seq(DOMAIN W) /\ Len(s) = n /\ (\A i \in 1..n : s[i] \in V)
      /\ Again(Each(rs), x, w)
  <2>1. SameReencodes(rs, W, V, n)
    BY <1>3, SameEach
  <2> QED BY <1>4, <1>5, <1>6, <2>1 DEF SameReencodes
<1>8. s \in DOMAIN W2 /\ s \in V2 /\ W2[s] = <<n>> \o w
  <2>1. s \in DOMAIN W2
    BY <1>2, <1>7 DEF Counting
  <2>2. W2[s] = <<Len(s)>> \o Written([i \in 1..Len(s) |-> W[s[i]]])
    BY <2>1 DEF Counting
  <2>3. s \in V2
    BY <1>2, <1>7, <2>1 DEF Counting
  <2> QED BY <1>6, <1>7, <2>1, <2>2, <2>3
<1>9. Reads(Each(rs), w, s) /\ Len(w) = Len(x) - Len(Each(rs)[x].rest)
  BY <1>5, <1>7 DEF Again
<1>10. w \in Units
  BY <1>9 DEF Reads
<1>11. Reads(R2, <<n>> \o w, s)
  BY <1>2, <1>3, <1>9, <1>10, CountedReads
<1>12. PICK rest \in Units : rest = Each(rs)[x].rest
  <2>1. Local(Each(rs))
    BY <1>0, <1>3, SameEach
  <2> QED BY <2>1 DEF Local
<1>13. Len(<<n>> \o w) = Len(u) - Len(rest)
  <2>1. <<n>> \in Units /\ Len(<<n>>) = 1
    BY CountFirst
  <2>2. Len(<<n>> \o w) = 1 + Len(w) /\ Len(w) \in Nat /\ Len(x) \in Nat /\ Len(rest) \in Nat
    BY <1>10, <2>1, ConcatUnits
  <2>3. Len(u) = Len(x) + 1 /\ Len(w) = Len(x) - Len(rest)
    BY <1>1, <1>9, <1>12
  <2> QED BY <2>2, <2>3
<1> QED BY <1>4, <1>5, <1>8, <1>11, <1>12, <1>13 DEF Again

\* W2 writes the length of a list, of those that are taken, and its elements.
Listing(W2, V2, W, V, counts) ==
  /\ counts \subseteq Nat
  /\ \A s \in DOMAIN W2 :
       /\ s \in Seq(DOMAIN W)
       /\ W2[s] = <<Len(s)>> \o Written([i \in 1..Len(s) |-> W[s[i]]])
       /\ s \in V2 <=> Len(s) \in counts /\ \A i \in 1..Len(s) : s[i] \in V
  /\ \A s \in Seq(DOMAIN W) : Len(s) \in counts => s \in DOMAIN W2

LEMMA ManyCounts ==
  ASSUME NEW R, NEW counts, NEW W2, NEW V2, NEW W, NEW V, Listing(W2, V2, W, V, counts)
  PROVE  \E N : /\ Counted(Many(R, counts), R, counts, N)
                /\ Counting(W2, V2, W, V, counts, N)
<1> DEFINE N == [h \in Nat |-> h]
<1>1. counts \subseteq Nat /\ \A h \in Nat : N[h] = h
  BY DEF Listing
<1> HIDE DEF N
<1>2. ASSUME NEW u \in Units
      PROVE  /\ u = << >> \/ Head(u) \notin counts => Many(R, counts)[u] = Truncated
             /\ u # << >> /\ Head(u) \in counts =>
                  Many(R, counts)[u] = Each([i \in 1..N[Head(u)] |-> R])[Tail(u)]
  <2>1. CASE u = << >> \/ Head(u) \notin counts
    BY <2>1 DEF Many
  <2>2. CASE u # << >> /\ Head(u) \in counts
    <3>1. PICK h \in Nat : h = Head(u) /\ N[h] = h
      BY <1>1, <2>2
    <3>2. Many(R, counts)[u] = Each([i \in 1..h |-> R])[Tail(u)]
      BY <2>2, <3>1 DEF Many
    <3> QED BY <2>2, <3>1, <3>2
  <2> QED BY <2>1, <2>2
<1>3. Counted(Many(R, counts), R, counts, N)
  BY <1>1, <1>2 DEF Counted
<1>4. ASSUME NEW s \in DOMAIN W2
      PROVE  /\ s \in Seq(DOMAIN W) /\ (Len(s) \in counts => N[Len(s)] = Len(s))
             /\ W2[s] = <<Len(s)>> \o Written([i \in 1..Len(s) |-> W[s[i]]])
             /\ s \in V2 <=> Len(s) \in counts /\ \A i \in 1..Len(s) : s[i] \in V
  BY <1>1 DEF Listing
<1>5. \A s \in Seq(DOMAIN W) : Len(s) \in counts /\ N[Len(s)] = Len(s) => s \in DOMAIN W2
  BY DEF Listing
<1>6. Counting(W2, V2, W, V, counts, N)
  BY <1>4, <1>5 DEF Counting
<1> QED BY <1>3, <1>6

LEMMA ManyDecodes ==
  ASSUME NEW R, NEW W, NEW V, Local(R), Decodes(R, W, V),
         NEW counts, NEW W2, NEW V2, Listing(W2, V2, W, V, counts)
  PROVE  Local(Many(R, counts)) /\ Decodes(Many(R, counts), W2, V2)
<1>1. PICK N : /\ Counted(Many(R, counts), R, counts, N)
               /\ Counting(W2, V2, W, V, counts, N)
  BY ManyCounts
<1>2. PICK R2 : R2 = Many(R, counts)
  OBVIOUS
<1>3. Counted(R2, R, counts, N)
  BY <1>1, <1>2
<1>4. Local(R2) /\ Decodes(R2, W2, V2)
  BY <1>1, <1>3, CountedLocal, CountedDecodes
<1> QED BY <1>2, <1>4

LEMMA ManyCodes ==
  ASSUME NEW R, NEW W, NEW V, Codes(R, W, V),
         NEW counts, NEW W2, NEW V2, Listing(W2, V2, W, V, counts)
  PROVE  Codes(Many(R, counts), W2, V2)
<1>1. PICK N : /\ Counted(Many(R, counts), R, counts, N)
               /\ Counting(W2, V2, W, V, counts, N)
  BY ManyCounts
<1>2. PICK R2 : R2 = Many(R, counts)
  OBVIOUS
<1>3. Counted(R2, R, counts, N)
  BY <1>1, <1>2
<1>4. Reencodes(R2, W2, V2)
  BY <1>1, <1>3, CountedReencodes
<1>5. Local(R) /\ Decodes(R, W, V)
  BY DEF Codes
<1>6. Local(R2) /\ Decodes(R2, W2, V2)
  BY <1>1, <1>3, <1>5, CountedLocal, CountedDecodes
<1> QED BY <1>2, <1>4, <1>6 DEF Codes

\* At most one value.
Opting(W2, V2, W, V) ==
  /\ DOMAIN W2 = {s \in Seq(DOMAIN W) : Len(s) <= 1}
  /\ \A s \in DOMAIN W2 :
       /\ W2[s] = <<Len(s)>> \o Written([i \in 1..Len(s) |-> W[s[i]]])
       /\ s \in V2 <=> \A i \in 1..Len(s) : s[i] \in V

LEMMA OptionalCodes ==
  ASSUME NEW R, NEW W, NEW V, Codes(R, W, V), NEW W2, NEW V2, Opting(W2, V2, W, V)
  PROVE  Codes(Optional(R), W2, V2)
<1> DEFINE N == [h \in Nat |-> IF h = 1 THEN 1 ELSE 0]
<1>1. \A h \in Nat : (h = 1 => N[h] = 1) /\ (h # 1 => N[h] = 0)
  OBVIOUS
<1> HIDE DEF N
<1>2. ASSUME NEW u \in Units
      PROVE  /\ u = << >> \/ Head(u) \notin Nat => Optional(R)[u] = Truncated
             /\ u # << >> /\ Head(u) \in Nat =>
                  Optional(R)[u] = Each([i \in 1..N[Head(u)] |-> R])[Tail(u)]
  <2>1. u # << >> => Head(u) \in Nat
    BY FirstUnit
  <2>2. CASE u = << >>
    BY <2>2 DEF Optional
  <2>3. CASE u # << >>
    <3>1. PICK h \in Nat : h = Head(u)
      BY <2>1, <2>3
    <3>2. Optional(R)[u] = Each([i \in 1..(IF h = 1 THEN 1 ELSE 0) |-> R])[Tail(u)]
      BY <2>3, <3>1 DEF Optional
    <3>3. N[h] = IF h = 1 THEN 1 ELSE 0
      BY <1>1
    <3> QED BY <2>3, <3>1, <3>2, <3>3
  <2> QED BY <2>1, <2>2, <2>3
<1>3. Counted(Optional(R), R, Nat, N)
  <2>1. \A h \in Nat : N[h] \in Nat /\ N[N[h]] = N[h]
    BY <1>1
  <2> QED BY <1>2, <2>1 DEF Counted
<1>4. ASSUME NEW s \in Seq(DOMAIN W), Len(s) <= 1
      PROVE  N[Len(s)] = Len(s) /\ Len(s) \in Nat
  BY <1>1, <1>4
<1>5. Counting(W2, V2, W, V, Nat, N)
  <2>1. ASSUME NEW s \in DOMAIN W2
        PROVE  /\ s \in Seq(DOMAIN W) /\ (Len(s) \in Nat => N[Len(s)] = Len(s))
               /\ W2[s] = <<Len(s)>> \o Written([i \in 1..Len(s) |-> W[s[i]]])
               /\ s \in V2 <=> Len(s) \in Nat /\ \A i \in 1..Len(s) : s[i] \in V
    <3>1. s \in Seq(DOMAIN W) /\ Len(s) <= 1
      BY DEF Opting
    <3> QED BY <1>4, <3>1 DEF Opting
  <2>2. ASSUME NEW s \in Seq(DOMAIN W), N[Len(s)] = Len(s) PROVE s \in DOMAIN W2
    <3>1. PICK n \in Nat : n = Len(s)
      OBVIOUS
    <3>2. n <= 1
      BY <1>1, <2>2, <3>1
    <3> QED BY <3>1, <3>2 DEF Opting
  <2> QED BY <2>1, <2>2 DEF Counting
<1>6. PICK R2 : R2 = Optional(R)
  OBVIOUS
<1>7. Counted(R2, R, Nat, N)
  BY <1>3, <1>6
<1>8. Local(R) /\ Decodes(R, W, V)
  BY DEF Codes
<1>9. Local(R2) /\ Decodes(R2, W2, V2)
  BY <1>5, <1>7, <1>8, CountedLocal, CountedDecodes
<1>10. Reencodes(R2, W2, V2)
  BY <1>5, <1>7, CountedReencodes
<1> QED BY <1>6, <1>9, <1>10 DEF Codes

\* One unit after another is the units.
LEMMA SingleUnits ==
  ASSUME NEW b \in Units
  PROVE  Written([i \in 1..Len(b) |-> <<b[i]>>]) = b
<1>1. PICK n \in Nat : n = Len(b)
  BY DEF Units
<1> DEFINE ws == [i \in 1..n |-> <<b[i]>>]
<1>2. \A i \in 1..n : ws[i] = <<b[i]>> /\ ws[i] \in Units
  <2> TAKE i \in 1..n
  <2>1. b[i] \in Nat
    BY <1>1 DEF Units
  <2>2. <<b[i]>> \in Units
    BY <2>1, CountFirst, NoUnits
  <2> QED BY <2>2
<1>3. ws = FirstOf(ws, n)
  BY DEF FirstOf
<1> HIDE DEF ws
<1>4. Len(ws) = n /\ ws \in Seq(Units)
  BY <1>2, <1>3, FirstOfSeq
<1>5. Writes(ws, n)
  BY <1>2, <1>4 DEF Writes
<1>6. PICK f : WrittenUpTo(ws, n, f)
  BY <1>5, WrittenIs
<1>7. Written(ws) = f[n] /\ f[0] = << >> /\ \A i \in 1..n : f[i] = f[i - 1] \o ws[i]
  BY <1>6 DEF WrittenUpTo
<1> DEFINE T == {i \in Nat : i <= n => f[i] = FirstOf(b, i)}
<1>8. 0 \in T
  BY <1>7 DEF FirstOf
<1>9. ASSUME NEW i \in Nat, i \in T PROVE i + 1 \in T
  <2> SUFFICES ASSUME i + 1 <= n PROVE f[i + 1] = FirstOf(b, i + 1)
    OBVIOUS
  <2>1. i + 1 \in 1..n /\ (i + 1) - 1 = i /\ f[i] = FirstOf(b, i)
    BY <1>9
  <2>2. f[i + 1] = FirstOf(b, i) \o <<b[i + 1]>>
    BY <1>2, <1>7, <2>1
  <2>3. FirstOf(b, i) \in Seq(Nat) /\ b[i + 1] \in Nat
    BY <1>1, <2>1 DEF Units, FirstOf
  <2>4. PICK x, y : x = FirstOf(b, i) /\ y = b[i + 1] /\ x \in Seq(Nat) /\ y \in Nat
    BY <2>3
  <2>5. x \o <<y>> = Append(x, y)
    BY <2>4
  <2>6. Append(FirstOf(b, i), b[i + 1]) = FirstOf(b, i + 1)
    BY FirstOfNext
  <2> QED BY <2>2, <2>4, <2>5, <2>6
<1>10. \A i \in Nat : i \in T
  <2> HIDE DEF T
  <2> QED BY <1>8, <1>9, Induction
<1>11. Written(ws) = FirstOf(b, n)
  BY <1>7, <1>10
<1>12. FirstOf(b, n) = b
  BY <1>1, FirstOfIs DEF Units
<1> QED BY <1>1, <1>11, <1>12 DEF ws

\* Units of their own, by their number.
BytesWriter(S) == [b \in S |-> <<Len(b)>> \o b]

LEMMA BytesCodes ==
  ASSUME NEW counts, counts \subseteq Nat
  PROVE  Codes(Many(Unit, counts), BytesWriter({b \in Units : Len(b) \in counts}),
               {b \in Units : Len(b) \in counts})
<1> DEFINE S == {b \in Units : Len(b) \in counts}
           W2 == BytesWriter(S)
<1>1. DOMAIN W2 = S /\ \A b \in S : W2[b] = <<Len(b)>> \o b
  BY DEF BytesWriter
<1>2. DOMAIN UnitWriter = Nat /\ \A n \in Nat : UnitWriter[n] = <<n>>
  BY DEF UnitWriter
<1>3. ASSUME NEW b \in Units
      PROVE  /\ Written([i \in 1..Len(b) |-> UnitWriter[b[i]]]) = b
             /\ \A i \in 1..Len(b) : b[i] \in Nat
  <2>1. \A i \in 1..Len(b) : b[i] \in Nat
    BY DEF Units
  <2>2. \A i \in 1..Len(b) : UnitWriter[b[i]] = <<b[i]>>
    BY <1>2, <2>1
  <2>3. [i \in 1..Len(b) |-> UnitWriter[b[i]]] = [i \in 1..Len(b) |-> <<b[i]>>]
    BY <2>2
  <2> QED BY <2>1, <2>3, SingleUnits
<1> HIDE DEF W2
<1>4. Listing(W2, S, UnitWriter, Nat, counts)
  <2>1. ASSUME NEW s \in DOMAIN W2
        PROVE  /\ s \in Seq(DOMAIN UnitWriter)
               /\ W2[s] = <<Len(s)>> \o Written([i \in 1..Len(s) |-> UnitWriter[s[i]]])
               /\ s \in S <=> Len(s) \in counts /\ \A i \in 1..Len(s) : s[i] \in Nat
    <3>1. s \in S /\ s \in Units /\ W2[s] = <<Len(s)>> \o s
      BY <1>1
    <3> HIDE DEF S
    <3>2. Len(s) \in counts
      BY <3>1 DEF S
    <3>3. s \in Seq(DOMAIN UnitWriter)
      BY <1>2, <3>1 DEF Units
    <3> QED BY <1>3, <3>1, <3>2, <3>3
  <2>2. ASSUME NEW s \in Seq(DOMAIN UnitWriter), Len(s) \in counts PROVE s \in DOMAIN W2
    BY <1>1, <1>2, <2>2 DEF Units
  <2> HIDE DEF S
  <2> QED BY <2>1, <2>2 DEF Listing
<1>5. Codes(Many(Unit, counts), W2, S)
  <2> HIDE DEF S
  <2> QED BY <1>4, UnitCodes, ManyCodes
<1> QED BY <1>5 DEF W2

\* W2 writes what W writes as units of their own.
Framing(W2, W) ==
  /\ DOMAIN W2 = DOMAIN W
  /\ \A v \in DOMAIN W : W2[v] = <<Len(W[v])>> \o W[v]

Frames == Many(Unit, Nat)

LEMMA FramesReads ==
  /\ Local(Frames)
  /\ \A b \in Units : Reads(Frames, <<Len(b)>> \o b, b)
  /\ \A u \in Units : Frames[u].ok =>
       Frames[u].value \in Units /\ Again(Frames, u, <<Len(Frames[u].value)>> \o Frames[u].value)
<1> DEFINE S == {b \in Units : Len(b) \in Nat}
<1>1. Codes(Frames, BytesWriter(S), S)
  BY BytesCodes DEF Frames
<1>2. \A b \in S : b \in Units /\ BytesWriter(S)[b] = <<Len(b)>> \o b
  BY DEF BytesWriter
<1>3. DOMAIN BytesWriter(S) = S /\ \A b \in Units : b \in S
  BY ConcatUnits DEF BytesWriter
<1> HIDE DEF S
<1>4. Local(Frames) /\ Decodes(Frames, BytesWriter(S), S) /\ Reencodes(Frames, BytesWriter(S), S)
  BY <1>1 DEF Codes
<1>5. \A b \in Units : Reads(Frames, <<Len(b)>> \o b, b)
  BY <1>2, <1>3, <1>4 DEF Decodes
<1>6. ASSUME NEW u \in Units, Frames[u].ok
      PROVE  Frames[u].value \in Units /\ Again(Frames, u, <<Len(Frames[u].value)>> \o Frames[u].value)
  BY <1>2, <1>4, <1>6 DEF Reencodes
<1> QED BY <1>4, <1>5, <1>6

LEMMA FramedIs ==
  ASSUME NEW R, NEW exact \in BOOLEAN, NEW u \in Units
  PROVE  \/ Framed(R, exact)[u] = Truncated
         \/ \E b \in Units, rest \in Units :
              /\ Frames[u].ok /\ b = Frames[u].value /\ rest = Frames[u].rest
              /\ R[b].ok /\ (exact => R[b].rest = << >>)
              /\ Framed(R, exact)[u] = Done(R[b].value, rest)
<1>1. PICK b : b = Frames[u].value
  OBVIOUS
<1>2. PICK rest : rest = Frames[u].rest
  OBVIOUS
<1>3. CASE Frames[u].ok /\ R[b].ok /\ (exact => R[b].rest = << >>)
  <2>1. b \in Units /\ rest \in Units
    BY <1>1, <1>2, <1>3, FramesReads DEF Local
  <2>2. Framed(R, exact)[u] = Done(R[b].value, rest)
    BY <1>1, <1>2, <1>3 DEF Framed, Frames
  <2> QED BY <1>1, <1>2, <1>3, <2>1, <2>2
<1>4. CASE ~(Frames[u].ok /\ R[b].ok /\ (exact => R[b].rest = << >>))
  BY <1>1, <1>4 DEF Framed, Frames
<1> QED BY <1>3, <1>4

LEMMA FramedReads ==
  ASSUME NEW R, NEW exact \in BOOLEAN, NEW u \in Units, NEW b \in Units, NEW rest \in Units,
         Frames[u] = Done(b, rest)
  PROVE  /\ R[b].ok /\ (exact => R[b].rest = << >>) => Framed(R, exact)[u] = Done(R[b].value, rest)
         /\ ~R[b].ok => ~Framed(R, exact)[u].ok
<1>1. Frames[u].value = b /\ Frames[u].rest = rest
  BY DEF Done
<1>2. Frames[u].ok
  BY DoneOk
<1>3. ASSUME R[b].ok, exact => R[b].rest = << >>
      PROVE  Framed(R, exact)[u] = Done(R[b].value, rest)
  BY <1>1, <1>2, <1>3 DEF Framed, Frames
<1>4. ASSUME ~R[b].ok PROVE ~Framed(R, exact)[u].ok
  <2>1. Framed(R, exact)[u] = Truncated
    BY <1>1, <1>4 DEF Framed, Frames
  <2> QED BY <2>1, TruncatedIs
<1> QED BY <1>3, <1>4

LEMMA FramedDecodes ==
  ASSUME NEW R, NEW W, NEW V, Decodes(R, W, V), NEW exact \in BOOLEAN, NEW W2, Framing(W2, W)
  PROVE  Local(Framed(R, exact)) /\ Decodes(Framed(R, exact), W2, V)
<1>1. PICK D : D = Framed(R, exact)
  OBVIOUS
<1>2. ASSUME NEW c \in Units, NEW b \in Units, Reads(Frames, c, b),
             R[b].ok, exact => R[b].rest = << >>
      PROVE  Reads(D, c, R[b].value)
  <2>1. ASSUME NEW rest \in Units PROVE D[c \o rest] = Done(R[b].value, rest)
    <3>1. PICK u \in Units : u = c \o rest
      BY ConcatUnits
    <3>2. Frames[u] = Done(b, rest)
      BY <1>2, <3>1 DEF Reads
    <3> QED BY <1>1, <1>2, <3>1, <3>2, FramedReads
  <2> QED BY <2>1 DEF Reads
<1>3. ASSUME NEW u \in Units
      PROVE  /\ D[u].rest \in Units
             /\ D[u].ok => \E c \in Units : u = c \o D[u].rest /\ Reads(D, c, D[u].value)
  <2>1. CASE D[u] = Truncated
    BY <2>1, TruncatedIs, NoUnits
  <2>2. ASSUME NEW b \in Units, NEW rest \in Units,
               Frames[u].ok, b = Frames[u].value, rest = Frames[u].rest,
               R[b].ok, exact => R[b].rest = << >>, D[u] = Done(R[b].value, rest)
        PROVE  /\ D[u].rest \in Units
               /\ \E c \in Units : u = c \o D[u].rest /\ Reads(D, c, D[u].value)
    <3>1. PICK c \in Units : u = c \o rest /\ Reads(Frames, c, b)
      <4>1. \E c \in Units : u = c \o Frames[u].rest /\ Reads(Frames, c, Frames[u].value)
        BY <2>2, FramesReads DEF Local
      <4> QED BY <2>2, <4>1
    <3>2. Reads(D, c, R[b].value)
      BY <1>2, <2>2, <3>1
    <3>3. D[u].value = R[b].value /\ D[u].rest = rest
      BY <2>2 DEF Done
    <3> QED BY <3>1, <3>2, <3>3
  <2>3. \/ D[u] = Truncated
        \/ \E b \in Units, rest \in Units :
             /\ Frames[u].ok /\ b = Frames[u].value /\ rest = Frames[u].rest
             /\ R[b].ok /\ (exact => R[b].rest = << >>)
             /\ D[u] = Done(R[b].value, rest)
    BY <1>1, FramedIs
  <2> QED BY <2>1, <2>2, <2>3
<1>4. Local(D)
  BY <1>3 DEF Local
<1>5. ASSUME NEW v \in DOMAIN W
      PROVE  /\ v \in V => Reads(D, W2[v], v)
             /\ v \notin V => Refuses(D, W2[v])
  <2>1. PICK b \in Units : b = W[v]
    BY WritesUnits
  <2>2. W2[v] = <<Len(b)>> \o b /\ Len(b) \in Nat
    BY <2>1, ConcatUnits DEF Framing
  <2>3. PICK c \in Units : c = W2[v] /\ Reads(Frames, c, b)
    BY <2>2, FramesReads, CountFirst
  <2>4. CASE v \in V
    <3>1. R[b] = Done(v, << >>)
      BY <2>1, <2>4, ReadsAll DEF Decodes
    <3>2. R[b].ok
      BY <3>1, DoneOk
    <3>3. R[b].value = v /\ R[b].rest = << >>
      BY <3>1, DoneIs
    <3>4. Reads(D, c, R[b].value)
      BY <1>2, <2>3, <3>2, <3>3
    <3> QED BY <2>3, <2>4, <3>3, <3>4
  <2>5. CASE v \notin V
    <3>1. Refuses(R, b)
      BY <2>1, <2>5 DEF Decodes
    <3>2. b \o << >> = b /\ << >> \in Units
      BY NoUnits
    <3>3. ~R[b].ok
      BY <3>1, <3>2 DEF Refuses
    <3>4. ASSUME NEW rest \in Units PROVE ~D[c \o rest].ok
      <4>1. PICK u \in Units : u = c \o rest
        BY ConcatUnits
      <4>2. Frames[u] = Done(b, rest)
        BY <2>3, <4>1 DEF Reads
      <4> QED BY <1>1, <3>3, <4>1, <4>2, FramedReads
    <3>5. Refuses(D, c)
      BY <3>4 DEF Refuses
    <3> QED BY <2>3, <2>5, <3>5
  <2> QED BY <2>4, <2>5
<1>6. Decodes(D, W2, V)
  BY <1>5 DEF Decodes, Framing
<1> QED BY <1>1, <1>4, <1>6

LEMMA FramedCodes ==
  ASSUME NEW R, NEW W, NEW V, Codes(R, W, V), NEW W2, Framing(W2, W)
  PROVE  Codes(Framed(R, TRUE), W2, V)
<1>0. Decodes(R, W, V) /\ Reencodes(R, W, V)
  BY DEF Codes
<1>5. PICK exact \in BOOLEAN : exact = TRUE
  OBVIOUS
<1>1. PICK D : D = Framed(R, exact)
  OBVIOUS
<1>2. Local(D) /\ Decodes(D, W2, V)
  BY <1>0, <1>1, <1>5, FramedDecodes
<1>3. ASSUME NEW u \in Units, D[u].ok
      PROVE  /\ D[u].value \in V /\ D[u].value \in DOMAIN W2
             /\ Again(D, u, W2[D[u].value])
  <2>1. D[u] # Truncated
    BY <1>3, TruncatedIs
  <2>2. PICK b \in Units, rest \in Units :
             /\ Frames[u].ok /\ b = Frames[u].value /\ rest = Frames[u].rest
             /\ R[b].ok /\ R[b].rest = << >>
             /\ D[u] = Done(R[b].value, rest)
    <3>1. \/ Framed(R, exact)[u] = Truncated
          \/ \E b \in Units, rest \in Units :
               /\ Frames[u].ok /\ b = Frames[u].value /\ rest = Frames[u].rest
               /\ R[b].ok /\ (exact => R[b].rest = << >>)
               /\ Framed(R, exact)[u] = Done(R[b].value, rest)
      BY FramedIs
    <3> QED BY <1>1, <1>5, <2>1, <3>1
  <2>3. PICK v : v = R[b].value
    OBVIOUS
  <2>4. D[u].value = v /\ D[u].rest = rest
    BY <2>2, <2>3 DEF Done
  <2>5. v \in V /\ v \in DOMAIN W /\ Again(R, b, W[v])
    BY <1>0, <2>2, <2>3 DEF Reencodes
  <2>6. PICK w \in Units : w = W[v]
    BY <1>0, <2>5, WritesUnits
  <2>7. Len(w) = Len(b)
    <3>1. Len(w) = Len(b) - Len(<< >>)
      BY <2>2, <2>5, <2>6 DEF Again
    <3> QED BY <3>1, ConcatUnits, NoUnits
  <2>8. Len(<<Len(b)>> \o b) = Len(u) - Len(rest)
    BY <2>2, FramesReads DEF Again
  <2>9. W2[v] = <<Len(w)>> \o w /\ v \in DOMAIN W2
    BY <2>5, <2>6 DEF Framing
  <2>10. Len(W2[v]) = Len(u) - Len(rest)
    <3>1. PICK n \in Nat : n = Len(b)
      BY ConcatUnits
    <3>2. <<n>> \in Units
      BY CountFirst
    <3>3. Len(<<n>> \o w) = Len(<<n>>) + n /\ Len(<<n>> \o b) = Len(<<n>>) + n
      BY <2>7, <3>1, <3>2, ConcatUnits
    <3> QED BY <2>7, <2>8, <2>9, <3>1, <3>3
  <2>11. Reads(D, W2[v], v)
    BY <1>2, <2>5, <2>9 DEF Decodes
  <2>12. Again(D, u, W2[v])
    BY <2>4, <2>10, <2>11 DEF Again
  <2> QED BY <2>4, <2>5, <2>9, <2>12
<1>4. Reencodes(D, W2, V)
  BY <1>3 DEF Reencodes
<1> QED BY <1>1, <1>2, <1>4, <1>5 DEF Codes

-----------------------------------------------------------------------------
(***************************************************************************)
(* Two, four, five and eight values, one after another                     *)
(***************************************************************************)

TwoParts(W, V, WA, WB, VA, VB) ==
  /\ \A t : t \in DOMAIN W <=> t = <<t[1], t[2]>> /\ t[1] \in DOMAIN WA /\ t[2] \in DOMAIN WB
  /\ \A t \in DOMAIN W :
       /\ W[t] = Written(<<WA[t[1]], WB[t[2]]>>)
       /\ t \in V <=> t[1] \in VA /\ t[2] \in VB

LEMMA TwoCodes ==
  ASSUME NEW RA, NEW RB, NEW WA, NEW WB, NEW VA, NEW VB, Codes(RA, WA, VA), Codes(RB, WB, VB)
  PROVE  \E W, V : /\ Codes(Each(<<RA, RB>>), W, V)
                  /\ TwoParts(W, V, WA, WB, VA, VB)
<1>1. PICK rs, Ws, Vs : /\ rs = <<RA, RB>>
                        /\ Ws = <<WA, WB>>
                        /\ Vs = <<VA, VB>>
  OBVIOUS
<1>2. Len(rs) = 2 /\ 2 \in Nat
  BY <1>1
<1>3. \A i \in 1..2 : i = 1 \/ i = 2
  OBVIOUS
<1>4. /\ rs[1] = RA /\ Ws[1] = WA /\ Vs[1] = VA
      /\ rs[2] = RB /\ Ws[2] = WB /\ Vs[2] = VB
  BY <1>1
<1>5. \A i \in 1..2 : Codes(rs[i], Ws[i], Vs[i])
  BY <1>3, <1>4
<1> DEFINE W == PartsWriter(2, Ws)
           V == PartsTaken(2, Ws, Vs)
<1>6. Codes(Each(rs), W, V)
  <2>1. \A i \in 1..2 : /\ Local(rs[i]) /\ Decodes(rs[i], Ws[i], Vs[i])
                      /\ Reencodes(rs[i], Ws[i], Vs[i])
    BY <1>5 DEF Codes
  <2>2. /\ Local(Each(rs))
        /\ Decodes(Each(rs), W, V)
        /\ (\A i \in 1..2 : Reencodes(rs[i], Ws[i], Vs[i])) => Reencodes(Each(rs), W, V)
    BY <1>2, <2>1, EachCodes
  <2> QED BY <2>1, <2>2 DEF Codes
<1>7. DOMAIN W = Parts(2, Ws) /\ \A t \in Parts(2, Ws) : W[t] = Written(PartsWritten(2, Ws, t))
  BY DEF PartsWriter
<1>8. ASSUME NEW t \in DOMAIN W
      PROVE  t = <<t[1], t[2]>> /\ t[1] \in DOMAIN WA /\ t[2] \in DOMAIN WB
  <2>1. t \in Parts(2, Ws)
    BY <1>7
  <2>2. t[1] \in DOMAIN WA /\ t[2] \in DOMAIN WB
    BY <1>4, <2>1 DEF Parts
  <2>3. t = <<t[1], t[2]>>
    BY <2>1 DEF Parts
  <2> QED BY <2>2, <2>3
<1>9. ASSUME NEW t, t = <<t[1], t[2]>>, t[1] \in DOMAIN WA, t[2] \in DOMAIN WB
      PROVE  t \in DOMAIN W
  <2>1. t = FirstOf(t, 2)
    <3>1. PICK s : s = t /\ s = <<t[1], t[2]>>
      BY <1>9
    <3>2. s \in Seq({t[1], t[2]}) /\ Len(s) = 2
      BY <3>1
    <3> QED BY <1>2, <3>1, <3>2, FirstOfIs
  <2>2. \A i \in 1..2 : t[i] \in DOMAIN Ws[i]
    BY <1>3, <1>4, <1>9
  <2> QED BY <1>2, <1>7, <2>1, <2>2, PartsAre
<1>10. ASSUME NEW t \in DOMAIN W
       PROVE  /\ W[t] = Written(<<WA[t[1]], WB[t[2]]>>)
              /\ t \in V <=> t[1] \in VA /\ t[2] \in VB
  <2>1. PartsWritten(2, Ws, t) = <<WA[t[1]], WB[t[2]]>>
    <3>1. PICK ws : ws = PartsWritten(2, Ws, t)
      OBVIOUS
    <3>2. ws[1] = WA[t[1]] /\ ws[2] = WB[t[2]]
      BY <1>4, <3>1 DEF PartsWritten
    <3>3. ws = FirstOf(ws, 2)
      BY <3>1 DEF PartsWritten, FirstOf
    <3>4. PICK X : \A i \in 1..2 : ws[i] \in X
      <4>1. \A i \in 1..2 : ws[i] \in {ws[j] : j \in 1..2}
        OBVIOUS
      <4> QED BY <4>1
    <3>5. ws \in Seq(X) /\ Len(ws) = 2
      BY <1>2, <3>3, <3>4, FirstOfSeq
    <3>6. ws = <<ws[1], ws[2]>>
      BY <3>5
    <3> QED BY <3>1, <3>2, <3>6
  <2>2. t \in V <=> \A i \in 1..2 : t[i] \in Vs[i]
    BY <1>7 DEF PartsTaken
  <2>3. (\A i \in 1..2 : t[i] \in Vs[i]) <=> t[1] \in VA /\ t[2] \in VB
    BY <1>3, <1>4
  <2> QED BY <1>7, <2>1, <2>2, <2>3
<1> HIDE DEF W, V
<1>11. TwoParts(W, V, WA, WB, VA, VB)
  BY <1>8, <1>9, <1>10 DEF TwoParts
<1> QED BY <1>1, <1>6, <1>11

FourParts(W, V, WA, WB, WC, WD, VA, VB, VC, VD) ==
  /\ \A t : t \in DOMAIN W <=> t = <<t[1], t[2], t[3], t[4]>> /\ t[1] \in DOMAIN WA /\
                               t[2] \in DOMAIN WB /\ t[3] \in DOMAIN WC /\ t[4] \in DOMAIN WD
  /\ \A t \in DOMAIN W :
       /\ W[t] = Written(<<WA[t[1]], WB[t[2]], WC[t[3]], WD[t[4]]>>)
       /\ t \in V <=> t[1] \in VA /\ t[2] \in VB /\ t[3] \in VC /\ t[4] \in VD

LEMMA FourCodes ==
  ASSUME NEW RA, NEW RB, NEW RC, NEW RD, NEW WA, NEW WB, NEW WC, NEW WD, NEW VA, NEW VB, NEW VC,
         NEW VD, Codes(RA, WA, VA), Codes(RB, WB, VB), Codes(RC, WC, VC), Codes(RD, WD, VD)
  PROVE  \E W, V : /\ Codes(Each(<<RA, RB, RC, RD>>), W, V)
                  /\ FourParts(W, V, WA, WB, WC, WD, VA, VB, VC, VD)
<1>1. PICK rs, Ws, Vs : /\ rs = <<RA, RB, RC, RD>>
                        /\ Ws = <<WA, WB, WC, WD>>
                        /\ Vs = <<VA, VB, VC, VD>>
  OBVIOUS
<1>2. Len(rs) = 4 /\ 4 \in Nat
  BY <1>1
<1>3. \A i \in 1..4 : i = 1 \/ i = 2 \/ i = 3 \/ i = 4
  OBVIOUS
<1>4. /\ rs[1] = RA /\ Ws[1] = WA /\ Vs[1] = VA
      /\ rs[2] = RB /\ Ws[2] = WB /\ Vs[2] = VB
      /\ rs[3] = RC /\ Ws[3] = WC /\ Vs[3] = VC
      /\ rs[4] = RD /\ Ws[4] = WD /\ Vs[4] = VD
  BY <1>1
<1>5. \A i \in 1..4 : Codes(rs[i], Ws[i], Vs[i])
  BY <1>3, <1>4
<1> DEFINE W == PartsWriter(4, Ws)
           V == PartsTaken(4, Ws, Vs)
<1>6. Codes(Each(rs), W, V)
  <2>1. \A i \in 1..4 : /\ Local(rs[i]) /\ Decodes(rs[i], Ws[i], Vs[i])
                      /\ Reencodes(rs[i], Ws[i], Vs[i])
    BY <1>5 DEF Codes
  <2>2. /\ Local(Each(rs))
        /\ Decodes(Each(rs), W, V)
        /\ (\A i \in 1..4 : Reencodes(rs[i], Ws[i], Vs[i])) => Reencodes(Each(rs), W, V)
    BY <1>2, <2>1, EachCodes
  <2> QED BY <2>1, <2>2 DEF Codes
<1>7. DOMAIN W = Parts(4, Ws) /\ \A t \in Parts(4, Ws) : W[t] = Written(PartsWritten(4, Ws, t))
  BY DEF PartsWriter
<1>8. ASSUME NEW t \in DOMAIN W
      PROVE  t = <<t[1], t[2], t[3], t[4]>> /\ t[1] \in DOMAIN WA /\ t[2] \in DOMAIN WB /\
             t[3] \in DOMAIN WC /\ t[4] \in DOMAIN WD
  <2>1. t \in Parts(4, Ws)
    BY <1>7
  <2>2. t[1] \in DOMAIN WA /\ t[2] \in DOMAIN WB /\ t[3] \in DOMAIN WC /\ t[4] \in DOMAIN WD
    BY <1>4, <2>1 DEF Parts
  <2>3. t = <<t[1], t[2], t[3], t[4]>>
    BY <2>1 DEF Parts
  <2> QED BY <2>2, <2>3
<1>9. ASSUME NEW t, t = <<t[1], t[2], t[3], t[4]>>, t[1] \in DOMAIN WA, t[2] \in DOMAIN WB,
                    t[3] \in DOMAIN WC, t[4] \in DOMAIN WD
      PROVE  t \in DOMAIN W
  <2>1. t = FirstOf(t, 4)
    <3>1. PICK s : s = t /\ s = <<t[1], t[2], t[3], t[4]>>
      BY <1>9
    <3>2. s \in Seq({t[1], t[2], t[3], t[4]}) /\ Len(s) = 4
      BY <3>1
    <3> QED BY <1>2, <3>1, <3>2, FirstOfIs
  <2>2. \A i \in 1..4 : t[i] \in DOMAIN Ws[i]
    BY <1>3, <1>4, <1>9
  <2> QED BY <1>2, <1>7, <2>1, <2>2, PartsAre
<1>10. ASSUME NEW t \in DOMAIN W
       PROVE  /\ W[t] = Written(<<WA[t[1]], WB[t[2]], WC[t[3]], WD[t[4]]>>)
              /\ t \in V <=> t[1] \in VA /\ t[2] \in VB /\ t[3] \in VC /\ t[4] \in VD
  <2>1. PartsWritten(4, Ws, t) = <<WA[t[1]], WB[t[2]], WC[t[3]], WD[t[4]]>>
    <3>1. PICK ws : ws = PartsWritten(4, Ws, t)
      OBVIOUS
    <3>2. ws[1] = WA[t[1]] /\ ws[2] = WB[t[2]] /\ ws[3] = WC[t[3]] /\ ws[4] = WD[t[4]]
      BY <1>4, <3>1 DEF PartsWritten
    <3>3. ws = FirstOf(ws, 4)
      BY <3>1 DEF PartsWritten, FirstOf
    <3>4. PICK X : \A i \in 1..4 : ws[i] \in X
      <4>1. \A i \in 1..4 : ws[i] \in {ws[j] : j \in 1..4}
        OBVIOUS
      <4> QED BY <4>1
    <3>5. ws \in Seq(X) /\ Len(ws) = 4
      BY <1>2, <3>3, <3>4, FirstOfSeq
    <3>6. ws = <<ws[1], ws[2], ws[3], ws[4]>>
      BY <3>5
    <3> QED BY <3>1, <3>2, <3>6
  <2>2. t \in V <=> \A i \in 1..4 : t[i] \in Vs[i]
    BY <1>7 DEF PartsTaken
  <2>3. (\A i \in 1..4 : t[i] \in Vs[i]) <=> t[1] \in VA /\ t[2] \in VB /\ t[3] \in VC /\
                                             t[4] \in VD
    BY <1>3, <1>4
  <2> QED BY <1>7, <2>1, <2>2, <2>3
<1> HIDE DEF W, V
<1>11. FourParts(W, V, WA, WB, WC, WD, VA, VB, VC, VD)
  BY <1>8, <1>9, <1>10 DEF FourParts
<1> QED BY <1>1, <1>6, <1>11

FiveParts(W, V, WA, WB, WC, WD, WE, VA, VB, VC, VD, VE) ==
  /\ \A t : t \in DOMAIN W <=> t = <<t[1], t[2], t[3], t[4], t[5]>> /\ t[1] \in DOMAIN WA /\
                               t[2] \in DOMAIN WB /\ t[3] \in DOMAIN WC /\ t[4] \in DOMAIN WD /\
                               t[5] \in DOMAIN WE
  /\ \A t \in DOMAIN W :
       /\ W[t] = Written(<<WA[t[1]], WB[t[2]], WC[t[3]], WD[t[4]], WE[t[5]]>>)
       /\ t \in V <=> t[1] \in VA /\ t[2] \in VB /\ t[3] \in VC /\ t[4] \in VD /\ t[5] \in VE

LEMMA FiveCodes ==
  ASSUME NEW RA, NEW RB, NEW RC, NEW RD, NEW RE, NEW WA, NEW WB, NEW WC, NEW WD, NEW WE, NEW VA,
         NEW VB, NEW VC, NEW VD, NEW VE, Codes(RA, WA, VA), Codes(RB, WB, VB),
         Codes(RC, WC, VC), Codes(RD, WD, VD), Codes(RE, WE, VE)
  PROVE  \E W, V : /\ Codes(Each(<<RA, RB, RC, RD, RE>>), W, V)
                  /\ FiveParts(W, V, WA, WB, WC, WD, WE, VA, VB, VC, VD, VE)
<1>1. PICK rs, Ws, Vs : /\ rs = <<RA, RB, RC, RD, RE>>
                        /\ Ws = <<WA, WB, WC, WD, WE>>
                        /\ Vs = <<VA, VB, VC, VD, VE>>
  OBVIOUS
<1>2. Len(rs) = 5 /\ 5 \in Nat
  BY <1>1
<1>3. \A i \in 1..5 : i = 1 \/ i = 2 \/ i = 3 \/ i = 4 \/ i = 5
  OBVIOUS
<1>4. /\ rs[1] = RA /\ Ws[1] = WA /\ Vs[1] = VA
      /\ rs[2] = RB /\ Ws[2] = WB /\ Vs[2] = VB
      /\ rs[3] = RC /\ Ws[3] = WC /\ Vs[3] = VC
      /\ rs[4] = RD /\ Ws[4] = WD /\ Vs[4] = VD
      /\ rs[5] = RE /\ Ws[5] = WE /\ Vs[5] = VE
  BY <1>1
<1>5. \A i \in 1..5 : Codes(rs[i], Ws[i], Vs[i])
  BY <1>3, <1>4
<1> DEFINE W == PartsWriter(5, Ws)
           V == PartsTaken(5, Ws, Vs)
<1>6. Codes(Each(rs), W, V)
  <2>1. \A i \in 1..5 : /\ Local(rs[i]) /\ Decodes(rs[i], Ws[i], Vs[i])
                      /\ Reencodes(rs[i], Ws[i], Vs[i])
    BY <1>5 DEF Codes
  <2>2. /\ Local(Each(rs))
        /\ Decodes(Each(rs), W, V)
        /\ (\A i \in 1..5 : Reencodes(rs[i], Ws[i], Vs[i])) => Reencodes(Each(rs), W, V)
    BY <1>2, <2>1, EachCodes
  <2> QED BY <2>1, <2>2 DEF Codes
<1>7. DOMAIN W = Parts(5, Ws) /\ \A t \in Parts(5, Ws) : W[t] = Written(PartsWritten(5, Ws, t))
  BY DEF PartsWriter
<1>8. ASSUME NEW t \in DOMAIN W
      PROVE  t = <<t[1], t[2], t[3], t[4], t[5]>> /\ t[1] \in DOMAIN WA /\ t[2] \in DOMAIN WB /\
             t[3] \in DOMAIN WC /\ t[4] \in DOMAIN WD /\ t[5] \in DOMAIN WE
  <2>1. t \in Parts(5, Ws)
    BY <1>7
  <2>2. t[1] \in DOMAIN WA /\ t[2] \in DOMAIN WB /\ t[3] \in DOMAIN WC /\ t[4] \in DOMAIN WD /\
        t[5] \in DOMAIN WE
    BY <1>4, <2>1 DEF Parts
  <2>3. t = <<t[1], t[2], t[3], t[4], t[5]>>
    BY <2>1 DEF Parts
  <2> QED BY <2>2, <2>3
<1>9. ASSUME NEW t, t = <<t[1], t[2], t[3], t[4], t[5]>>, t[1] \in DOMAIN WA,
                    t[2] \in DOMAIN WB, t[3] \in DOMAIN WC, t[4] \in DOMAIN WD,
                    t[5] \in DOMAIN WE
      PROVE  t \in DOMAIN W
  <2>1. t = FirstOf(t, 5)
    <3>1. PICK s : s = t /\ s = <<t[1], t[2], t[3], t[4], t[5]>>
      BY <1>9
    <3>2. s \in Seq({t[1], t[2], t[3], t[4], t[5]}) /\ Len(s) = 5
      BY <3>1
    <3> QED BY <1>2, <3>1, <3>2, FirstOfIs
  <2>2. \A i \in 1..5 : t[i] \in DOMAIN Ws[i]
    BY <1>3, <1>4, <1>9
  <2> QED BY <1>2, <1>7, <2>1, <2>2, PartsAre
<1>10. ASSUME NEW t \in DOMAIN W
       PROVE  /\ W[t] = Written(<<WA[t[1]], WB[t[2]], WC[t[3]], WD[t[4]], WE[t[5]]>>)
              /\ t \in V <=> t[1] \in VA /\ t[2] \in VB /\ t[3] \in VC /\ t[4] \in VD /\
                             t[5] \in VE
  <2>1. PartsWritten(5, Ws, t) = <<WA[t[1]], WB[t[2]], WC[t[3]], WD[t[4]], WE[t[5]]>>
    <3>1. PICK ws : ws = PartsWritten(5, Ws, t)
      OBVIOUS
    <3>2. ws[1] = WA[t[1]] /\ ws[2] = WB[t[2]] /\ ws[3] = WC[t[3]] /\ ws[4] = WD[t[4]] /\
          ws[5] = WE[t[5]]
      BY <1>4, <3>1 DEF PartsWritten
    <3>3. ws = FirstOf(ws, 5)
      BY <3>1 DEF PartsWritten, FirstOf
    <3>4. PICK X : \A i \in 1..5 : ws[i] \in X
      <4>1. \A i \in 1..5 : ws[i] \in {ws[j] : j \in 1..5}
        OBVIOUS
      <4> QED BY <4>1
    <3>5. ws \in Seq(X) /\ Len(ws) = 5
      BY <1>2, <3>3, <3>4, FirstOfSeq
    <3>6. ws = <<ws[1], ws[2], ws[3], ws[4], ws[5]>>
      BY <3>5
    <3> QED BY <3>1, <3>2, <3>6
  <2>2. t \in V <=> \A i \in 1..5 : t[i] \in Vs[i]
    BY <1>7 DEF PartsTaken
  <2>3. (\A i \in 1..5 : t[i] \in Vs[i]) <=> t[1] \in VA /\ t[2] \in VB /\ t[3] \in VC /\
                                             t[4] \in VD /\ t[5] \in VE
    BY <1>3, <1>4
  <2> QED BY <1>7, <2>1, <2>2, <2>3
<1> HIDE DEF W, V
<1>11. FiveParts(W, V, WA, WB, WC, WD, WE, VA, VB, VC, VD, VE)
  BY <1>8, <1>9, <1>10 DEF FiveParts
<1> QED BY <1>1, <1>6, <1>11

EightParts(W, V, WA, WB, WC, WD, WE, WF, WG, WH, VA, VB, VC, VD, VE, VF, VG, VH) ==
  /\ \A t : t \in DOMAIN W <=> t = <<t[1], t[2], t[3], t[4], t[5], t[6], t[7], t[8]>> /\
                               t[1] \in DOMAIN WA /\ t[2] \in DOMAIN WB /\ t[3] \in DOMAIN WC /\
                               t[4] \in DOMAIN WD /\ t[5] \in DOMAIN WE /\ t[6] \in DOMAIN WF /\
                               t[7] \in DOMAIN WG /\ t[8] \in DOMAIN WH
  /\ \A t \in DOMAIN W :
       /\ W[t] = Written(<<WA[t[1]], WB[t[2]], WC[t[3]], WD[t[4]], WE[t[5]], WF[t[6]], WG[t[7]],
                           WH[t[8]]>>)
       /\ t \in V <=> t[1] \in VA /\ t[2] \in VB /\ t[3] \in VC /\ t[4] \in VD /\ t[5] \in VE /\
                      t[6] \in VF /\ t[7] \in VG /\ t[8] \in VH

LEMMA EightCodes ==
  ASSUME NEW RA, NEW RB, NEW RC, NEW RD, NEW RE, NEW RF, NEW RG, NEW RH, NEW WA, NEW WB, NEW WC,
         NEW WD, NEW WE, NEW WF, NEW WG, NEW WH, NEW VA, NEW VB, NEW VC, NEW VD, NEW VE, NEW VF,
         NEW VG, NEW VH, Codes(RA, WA, VA), Codes(RB, WB, VB), Codes(RC, WC, VC),
         Codes(RD, WD, VD), Codes(RE, WE, VE), Codes(RF, WF, VF), Codes(RG, WG, VG),
         Codes(RH, WH, VH)
  PROVE  \E W, V : /\ Codes(Each(<<RA, RB, RC, RD, RE, RF, RG, RH>>), W, V)
                  /\ EightParts(W, V, WA, WB, WC, WD, WE, WF, WG, WH, VA, VB, VC, VD, VE, VF,
                                VG, VH)
<1>1. PICK rs, Ws, Vs : /\ rs = <<RA, RB, RC, RD, RE, RF, RG, RH>>
                        /\ Ws = <<WA, WB, WC, WD, WE, WF, WG, WH>>
                        /\ Vs = <<VA, VB, VC, VD, VE, VF, VG, VH>>
  OBVIOUS
<1>2. Len(rs) = 8 /\ 8 \in Nat
  BY <1>1
<1>3. \A i \in 1..8 : i = 1 \/ i = 2 \/ i = 3 \/ i = 4 \/ i = 5 \/ i = 6 \/ i = 7 \/ i = 8
  OBVIOUS
<1>4. /\ rs[1] = RA /\ Ws[1] = WA /\ Vs[1] = VA
      /\ rs[2] = RB /\ Ws[2] = WB /\ Vs[2] = VB
      /\ rs[3] = RC /\ Ws[3] = WC /\ Vs[3] = VC
      /\ rs[4] = RD /\ Ws[4] = WD /\ Vs[4] = VD
      /\ rs[5] = RE /\ Ws[5] = WE /\ Vs[5] = VE
      /\ rs[6] = RF /\ Ws[6] = WF /\ Vs[6] = VF
      /\ rs[7] = RG /\ Ws[7] = WG /\ Vs[7] = VG
      /\ rs[8] = RH /\ Ws[8] = WH /\ Vs[8] = VH
  BY <1>1
<1>5. \A i \in 1..8 : Codes(rs[i], Ws[i], Vs[i])
  BY <1>3, <1>4
<1> DEFINE W == PartsWriter(8, Ws)
           V == PartsTaken(8, Ws, Vs)
<1>6. Codes(Each(rs), W, V)
  <2>1. \A i \in 1..8 : /\ Local(rs[i]) /\ Decodes(rs[i], Ws[i], Vs[i])
                      /\ Reencodes(rs[i], Ws[i], Vs[i])
    BY <1>5 DEF Codes
  <2>2. /\ Local(Each(rs))
        /\ Decodes(Each(rs), W, V)
        /\ (\A i \in 1..8 : Reencodes(rs[i], Ws[i], Vs[i])) => Reencodes(Each(rs), W, V)
    BY <1>2, <2>1, EachCodes
  <2> QED BY <2>1, <2>2 DEF Codes
<1>7. DOMAIN W = Parts(8, Ws) /\ \A t \in Parts(8, Ws) : W[t] = Written(PartsWritten(8, Ws, t))
  BY DEF PartsWriter
<1>8. ASSUME NEW t \in DOMAIN W
      PROVE  t = <<t[1], t[2], t[3], t[4], t[5], t[6], t[7], t[8]>> /\ t[1] \in DOMAIN WA /\
             t[2] \in DOMAIN WB /\ t[3] \in DOMAIN WC /\ t[4] \in DOMAIN WD /\
             t[5] \in DOMAIN WE /\ t[6] \in DOMAIN WF /\ t[7] \in DOMAIN WG /\
             t[8] \in DOMAIN WH
  <2>1. t \in Parts(8, Ws)
    BY <1>7
  <2>2. t[1] \in DOMAIN WA /\ t[2] \in DOMAIN WB /\ t[3] \in DOMAIN WC /\ t[4] \in DOMAIN WD /\
        t[5] \in DOMAIN WE /\ t[6] \in DOMAIN WF /\ t[7] \in DOMAIN WG /\ t[8] \in DOMAIN WH
    BY <1>4, <2>1 DEF Parts
  <2>3. t = <<t[1], t[2], t[3], t[4], t[5], t[6], t[7], t[8]>>
    BY <2>1 DEF Parts
  <2> QED BY <2>2, <2>3
<1>9. ASSUME NEW t, t = <<t[1], t[2], t[3], t[4], t[5], t[6], t[7], t[8]>>, t[1] \in DOMAIN WA,
                    t[2] \in DOMAIN WB, t[3] \in DOMAIN WC, t[4] \in DOMAIN WD,
                    t[5] \in DOMAIN WE, t[6] \in DOMAIN WF, t[7] \in DOMAIN WG,
                    t[8] \in DOMAIN WH
      PROVE  t \in DOMAIN W
  <2>1. t = FirstOf(t, 8)
    <3>1. PICK s : s = t /\ s = <<t[1], t[2], t[3], t[4], t[5], t[6], t[7], t[8]>>
      BY <1>9
    <3>2. s \in Seq({t[1], t[2], t[3], t[4], t[5], t[6], t[7], t[8]}) /\ Len(s) = 8
      BY <3>1
    <3> QED BY <1>2, <3>1, <3>2, FirstOfIs
  <2>2. \A i \in 1..8 : t[i] \in DOMAIN Ws[i]
    BY <1>3, <1>4, <1>9
  <2> QED BY <1>2, <1>7, <2>1, <2>2, PartsAre
<1>10. ASSUME NEW t \in DOMAIN W
       PROVE  /\ W[t] = Written(<<WA[t[1]], WB[t[2]], WC[t[3]], WD[t[4]], WE[t[5]], WF[t[6]],
                                  WG[t[7]], WH[t[8]]>>)
              /\ t \in V <=> t[1] \in VA /\ t[2] \in VB /\ t[3] \in VC /\ t[4] \in VD /\
                             t[5] \in VE /\ t[6] \in VF /\ t[7] \in VG /\ t[8] \in VH
  <2>1. PartsWritten(8, Ws, t) = <<WA[t[1]], WB[t[2]], WC[t[3]], WD[t[4]], WE[t[5]], WF[t[6]], WG[t[7]], WH[t[8]]>>
    <3>1. PICK ws : ws = PartsWritten(8, Ws, t)
      OBVIOUS
    <3>2. ws[1] = WA[t[1]] /\ ws[2] = WB[t[2]] /\ ws[3] = WC[t[3]] /\ ws[4] = WD[t[4]] /\
          ws[5] = WE[t[5]] /\ ws[6] = WF[t[6]] /\ ws[7] = WG[t[7]] /\ ws[8] = WH[t[8]]
      BY <1>4, <3>1 DEF PartsWritten
    <3>3. ws = FirstOf(ws, 8)
      BY <3>1 DEF PartsWritten, FirstOf
    <3>4. PICK X : \A i \in 1..8 : ws[i] \in X
      <4>1. \A i \in 1..8 : ws[i] \in {ws[j] : j \in 1..8}
        OBVIOUS
      <4> QED BY <4>1
    <3>5. ws \in Seq(X) /\ Len(ws) = 8
      BY <1>2, <3>3, <3>4, FirstOfSeq
    <3>6. ws = <<ws[1], ws[2], ws[3], ws[4], ws[5], ws[6], ws[7], ws[8]>>
      BY <3>5
    <3> QED BY <3>1, <3>2, <3>6
  <2>2. t \in V <=> \A i \in 1..8 : t[i] \in Vs[i]
    BY <1>7 DEF PartsTaken
  <2>3. (\A i \in 1..8 : t[i] \in Vs[i]) <=> t[1] \in VA /\ t[2] \in VB /\ t[3] \in VC /\
                                             t[4] \in VD /\ t[5] \in VE /\ t[6] \in VF /\
                                             t[7] \in VG /\ t[8] \in VH
    BY <1>3, <1>4
  <2> QED BY <1>7, <2>1, <2>2, <2>3
<1> HIDE DEF W, V
<1>11. EightParts(W, V, WA, WB, WC, WD, WE, WF, WG, WH, VA, VB, VC, VD, VE, VF, VG, VH)
  BY <1>8, <1>9, <1>10 DEF EightParts
<1> QED BY <1>1, <1>6, <1>11

-----------------------------------------------------------------------------
(***************************************************************************)
(* The fields of the formats                                               *)
(***************************************************************************)
LEMMA Limits == /\ PathLimit \in Nat /\ BatchLimit \in Nat /\ StackLimit \in Nat /\ CountMod \in Nat
                /\ PathLimit < CountMod /\ BatchLimit < CountMod /\ StackLimit < BatchLimit
BY CodecAssumption

\* A count of two bytes is what it counts.
LEMMA Counts ==
  ASSUME NEW S, NEW s \in Short(S)
  PROVE  /\ s \in Seq(S) /\ Len(s) \in Nat /\ U16(Len(s)) = Len(s) /\ Len(s) \in Count16
         /\ DOMAIN s = 1..Len(s) /\ \A i \in 1..Len(s) : s[i] \in S
<1>1. s \in Seq(S) /\ Len(s) < CountMod
  BY DEF Short
<1>2. PICK n \in Nat : n = Len(s) /\ n < CountMod
  BY <1>1
<1>3. n % CountMod = n /\ n \in 0..(CountMod - 1)
  BY <1>2, Limits
<1> QED BY <1>1, <1>2, <1>3 DEF U16, Count16

LEMMA Counted16 ==
  ASSUME NEW S, NEW s \in Seq(S), Len(s) \in Count16
  PROVE  s \in Short(S)
<1>1. Len(s) < CountMod
  BY Limits DEF Count16
<1> QED BY <1>1 DEF Short

Bytes16Writer == [b \in Short(Nat) |-> WriteBytes(b)]
LEMMA Bytes16Codes == Codes(BytesReader, Bytes16Writer, Short(Nat))
<1> DEFINE S == {b \in Units : Len(b) \in Count16}
<1>1. S = Short(Nat)
  <2>1. ASSUME NEW b \in S PROVE b \in Short(Nat)
    BY Counted16 DEF Units
  <2>2. ASSUME NEW b \in Short(Nat) PROVE b \in S
    BY Counts DEF Units
  <2> QED BY <2>1, <2>2
<1>2. Count16 \subseteq Nat
  BY Limits DEF Count16
<1>3. Codes(Many(Unit, Count16), BytesWriter(S), S)
  BY <1>2, BytesCodes
<1> HIDE DEF S
<1>4. \A b \in Short(Nat) : WriteBytes(b) = <<Len(b)>> \o b
  BY Counts DEF WriteBytes
<1>5. BytesWriter(Short(Nat)) = Bytes16Writer
  BY <1>4 DEF BytesWriter, Bytes16Writer
<1> QED BY <1>1, <1>3, <1>5 DEF BytesReader

LEMMA WrittenTwo ==
  ASSUME NEW s \in Units, NEW t \in Units
  PROVE  Written(<<s, t>>) = s \o t
<1>1. PICK ws : ws = <<s, t>>
  OBVIOUS
<1>2. Len(ws) = 2 /\ ws[1] = s /\ ws[2] = t /\ 2 \in Nat
  BY <1>1
<1>3. Writes(ws, 2)
  BY <1>2 DEF Writes
<1>4. PICK f : WrittenUpTo(ws, 2, f)
  BY <1>2, <1>3, WrittenIs
<1>5. Written(ws) = f[2] /\ f[0] = << >> /\ f[1] = f[0] \o ws[1] /\ f[2] = f[1] \o ws[2]
  <2>1. \A i \in 1..2 : f[i] = f[i - 1] \o ws[i]
    BY <1>4 DEF WrittenUpTo
  <2>2. Written(ws) = f[2] /\ f[0] = << >>
    BY <1>4 DEF WrittenUpTo
  <2>3. PICK i \in 1..2, j \in 1..2 : i = 1 /\ j = 2 /\ i - 1 = 0 /\ j - 1 = 1
    OBVIOUS
  <2>4. f[i] = f[i - 1] \o ws[i] /\ f[j] = f[j - 1] \o ws[j]
    BY <2>1
  <2> QED BY <2>2, <2>3, <2>4
<1>6. << >> \o s = s
  BY NoUnits
<1> QED BY <1>1, <1>2, <1>5, <1>6

PrefixedWriter == [b \in Seq(Nat) |-> Prefixed(b)]
LEMMA PrefixedCodes == Codes(Many(Unit, Nat), PrefixedWriter, Seq(Nat))
<1> DEFINE S == {b \in Units : Len(b) \in Nat}
<1>1. S = Seq(Nat)
  BY DEF Units
<1>2. Codes(Many(Unit, Nat), BytesWriter(S), S)
  BY BytesCodes
<1>3. BytesWriter(Seq(Nat)) = PrefixedWriter
  BY DEF BytesWriter, PrefixedWriter, Prefixed
<1> HIDE DEF S
<1> QED BY <1>1, <1>2, <1>3

TxInWriter == [v \in TxInRecord |-> WriteTxIn(v)]
LEMMA TxInCodes == Codes(TxInReader, TxInWriter, TxInRecord)
<1> DEFINE E == Each(<<Unit, Unit, BytesReader, BytesReader>>)
<1>1. PICK W, V : /\ Codes(E, W, V)
                  /\ FourParts(W, V, UnitWriter, UnitWriter, Bytes16Writer, Bytes16Writer, Nat,
                               Nat, Short(Nat), Short(Nat))
  BY UnitCodes, Bytes16Codes, FourCodes
<1>2. /\ DOMAIN UnitWriter = Nat /\ \A a \in Nat : UnitWriter[a] = <<a>>
      /\ DOMAIN Bytes16Writer = Short(Nat) /\ \A a \in Short(Nat) : Bytes16Writer[a] = WriteBytes(a)
  BY DEF UnitWriter, Bytes16Writer
<1> DEFINE F == [t \in DOMAIN W |-> [TXID |-> t[1], Vout |-> t[2], Sig |-> t[3], PubKey |-> t[4]]]
           G == [v \in TxInRecord |-> <<v.TXID, v.Vout, v.Sig, v.PubKey>>]
<1> HIDE DEF E
<1>3. ASSUME NEW u \in Units
      PROVE  /\ E[u].ok => TxInReader[u] = Done(F[E[u].value], E[u].rest)
             /\ ~E[u].ok => TxInReader[u] = Truncated
  <2>1. E[u].ok => E[u].value \in DOMAIN W
    BY <1>1 DEF Codes, Reencodes
  <2>2. TxInReader[u] =
          LET v == E[u].value
          IN  Made(E[u], [TXID |-> v[1], Vout |-> v[2], Sig |-> v[3], PubKey |-> v[4]])
    BY DEF TxInReader, MadeTxIn, E
  <2> QED BY <2>1, <2>2 DEF Made
<1>4. MadeBy(TxInReader, E, F)
  BY <1>3 DEF MadeBy
<1>5. ASSUME NEW t \in DOMAIN W
      PROVE  F[t] \in TxInRecord /\ TxInWriter[F[t]] = W[t] /\ (t \in V <=> F[t] \in TxInRecord)
  <2>1. PICK a, b, c, d : a = t[1] /\ b = t[2] /\ c = t[3] /\ d = t[4]
    OBVIOUS
  <2>2. PICK v : v = F[t] /\ v = [TXID |-> a, Vout |-> b, Sig |-> c, PubKey |-> d]
    BY <2>1
  <2> HIDE DEF F, G
  <2>8. a \in Nat /\ b \in Nat /\ c \in Short(Nat) /\ d \in Short(Nat)
    BY <1>1, <1>2, <2>1 DEF FourParts
  <2>3. v \in TxInRecord
    BY <2>2, <2>8 DEF TxInRecord
  <2>4. WriteTxIn(v) = Written(<< <<a>>, <<b>>, WriteBytes(c), WriteBytes(d) >>)
    BY <2>2 DEF WriteTxIn
  <2>5. /\ W[t] = Written(<< <<a>>, <<b>>, WriteBytes(c), WriteBytes(d) >>)
        /\ t \in V <=> a \in Nat /\ b \in Nat /\ c \in Short(Nat) /\ d \in Short(Nat)
    <3>1. /\ W[t] = Written(<<UnitWriter[a], UnitWriter[b], Bytes16Writer[c], Bytes16Writer[d]>>)
          /\ t \in V <=> a \in Nat /\ b \in Nat /\ c \in Short(Nat) /\ d \in Short(Nat)
      BY <1>1, <2>1 DEF FourParts
    <3> QED BY <1>2, <2>8, <3>1
  <2>6. TxInWriter[v] = WriteTxIn(v)
    BY <2>3 DEF TxInWriter
  <2> QED BY <2>2, <2>3, <2>4, <2>5, <2>6, <2>8
<1>6. ASSUME NEW v \in TxInRecord
      PROVE  G[v] \in DOMAIN W /\ F[G[v]] = v
  <2>1. v.TXID \in Nat /\ v.Vout \in Nat /\ v.Sig \in Short(Nat) /\ v.PubKey \in Short(Nat)
    BY DEF TxInRecord
  <2>2. PICK t : t = G[v] /\ t = <<v.TXID, v.Vout, v.Sig, v.PubKey>>
    OBVIOUS
  <2>3. t[1] = v.TXID /\ t[2] = v.Vout /\ t[3] = v.Sig /\ t[4] = v.PubKey
    BY <2>2
  <2>4. t \in DOMAIN W
    <3> HIDE DEF F, G
    <3> QED BY <1>1, <1>2, <2>1, <2>2, <2>3 DEF FourParts
  <2>5. v = [TXID |-> v.TXID, Vout |-> v.Vout, Sig |-> v.Sig, PubKey |-> v.PubKey]
    BY DEF TxInRecord
  <2> QED BY <2>2, <2>3, <2>4, <2>5
<1>7. SameWriting(TxInWriter, TxInRecord, W, V, F, G)
  BY <1>5, <1>6 DEF SameWriting, TxInWriter
<1> HIDE DEF F, G
<1> QED BY <1>1, <1>4, <1>7, MadeCodes

TxOutWriter == [v \in TxOutRecord |-> WriteTxOut(v)]
LEMMA TxOutCodes == Codes(TxOutReader, TxOutWriter, TxOutRecord)
<1> DEFINE E == Each(<<Unit, Many(Unit, Nat)>>)
<1>1. PICK W, V : /\ Codes(E, W, V)
                  /\ TwoParts(W, V, UnitWriter, PrefixedWriter, Nat, Seq(Nat))
  BY UnitCodes, PrefixedCodes, TwoCodes
<1>2. /\ DOMAIN UnitWriter = Nat /\ \A a \in Nat : UnitWriter[a] = <<a>>
      /\ DOMAIN PrefixedWriter = Seq(Nat) /\ \A a \in Seq(Nat) : PrefixedWriter[a] = Prefixed(a)
  BY DEF UnitWriter, PrefixedWriter
<1> DEFINE F == [t \in DOMAIN W |-> [Value |-> t[1], ScriptPubKey |-> t[2]]]
           G == [v \in TxOutRecord |-> <<v.Value, v.ScriptPubKey>>]
<1> HIDE DEF E
<1>3. ASSUME NEW u \in Units
      PROVE  /\ E[u].ok => TxOutReader[u] = Done(F[E[u].value], E[u].rest)
             /\ ~E[u].ok => TxOutReader[u] = Truncated
  <2>1. E[u].ok => E[u].value \in DOMAIN W
    BY <1>1 DEF Codes, Reencodes
  <2>2. TxOutReader[u] =
          LET v == E[u].value
          IN  Made(E[u], [Value |-> v[1], ScriptPubKey |-> v[2]])
    BY DEF TxOutReader, MadeTxOut, E
  <2> QED BY <2>1, <2>2 DEF Made
<1>4. MadeBy(TxOutReader, E, F)
  BY <1>3 DEF MadeBy
<1>5. ASSUME NEW t \in DOMAIN W
      PROVE  F[t] \in TxOutRecord /\ TxOutWriter[F[t]] = W[t] /\ (t \in V <=> F[t] \in TxOutRecord)
  <2>1. PICK a, b : a = t[1] /\ b = t[2]
    OBVIOUS
  <2>2. PICK v : v = F[t] /\ v = [Value |-> a, ScriptPubKey |-> b]
    BY <2>1
  <2> HIDE DEF F, G
  <2>8. a \in Nat /\ b \in Seq(Nat)
    BY <1>1, <1>2, <2>1 DEF TwoParts
  <2>3. v \in TxOutRecord
    BY <2>2, <2>8 DEF TxOutRecord
  <2>4. WriteTxOut(v) = Written(<< <<a>>, Prefixed(b) >>)
    <3>1. <<a>> \in Units /\ Prefixed(b) \in Units
      BY <2>8, CountFirst, NoUnits, ConcatUnits DEF Prefixed, Units
    <3>2. WriteTxOut(v) = <<a>> \o Prefixed(b)
      BY <2>2 DEF WriteTxOut
    <3> QED BY <3>1, <3>2, WrittenTwo
  <2>5. /\ W[t] = Written(<< <<a>>, Prefixed(b) >>)
        /\ t \in V <=> a \in Nat /\ b \in Seq(Nat)
    <3>1. /\ W[t] = Written(<<UnitWriter[a], PrefixedWriter[b]>>)
          /\ t \in V <=> a \in Nat /\ b \in Seq(Nat)
      BY <1>1, <2>1 DEF TwoParts
    <3> QED BY <1>2, <2>8, <3>1
  <2>6. TxOutWriter[v] = WriteTxOut(v)
    BY <2>3 DEF TxOutWriter
  <2> QED BY <2>2, <2>3, <2>4, <2>5, <2>6, <2>8
<1>6. ASSUME NEW v \in TxOutRecord
      PROVE  G[v] \in DOMAIN W /\ F[G[v]] = v
  <2>1. v.Value \in Nat /\ v.ScriptPubKey \in Seq(Nat)
    BY DEF TxOutRecord
  <2>2. PICK t : t = G[v] /\ t = <<v.Value, v.ScriptPubKey>>
    OBVIOUS
  <2>3. t[1] = v.Value /\ t[2] = v.ScriptPubKey
    BY <2>2
  <2>4. t \in DOMAIN W
    <3> HIDE DEF F, G
    <3> QED BY <1>1, <1>2, <2>1, <2>2, <2>3 DEF TwoParts
  <2>5. v = [Value |-> v.Value, ScriptPubKey |-> v.ScriptPubKey]
    BY DEF TxOutRecord
  <2> QED BY <2>2, <2>3, <2>4, <2>5
<1>7. SameWriting(TxOutWriter, TxOutRecord, W, V, F, G)
  BY <1>5, <1>6 DEF SameWriting, TxOutWriter
<1> HIDE DEF F, G
<1> QED BY <1>1, <1>4, <1>7, MadeCodes

LEMMA ElementsOf ==
  ASSUME NEW S, NEW s \in Seq(S)
  PROVE  Len(s) \in Nat /\ DOMAIN s = 1..Len(s) /\ \A i \in DOMAIN s : s[i] \in S
OBVIOUS

LEMMA SeqOfElements ==
  ASSUME NEW S, NEW T, NEW s \in Seq(S)
  PROVE  Len(s) \in Nat /\ (s \in Seq(T) <=> \A i \in 1..Len(s) : s[i] \in T)
<1>1. ASSUME \A i \in 1..Len(s) : s[i] \in T PROVE s \in Seq(T)
  <2>1. s = FirstOf(s, Len(s)) /\ Len(s) \in Nat
    BY FirstOfIs
  <2> QED BY <1>1, <2>1, FirstOfSeq
<1> QED BY <1>1

ShortWrites(W2, W, X) ==
  /\ DOMAIN W2 = Short(X) /\ DOMAIN W = X
  /\ \A s \in Short(X) : W2[s] = <<U16(Len(s))>> \o Written([i \in DOMAIN s |-> W[s[i]]])
LongWrites(W2, W, X) ==
  /\ DOMAIN W2 = Seq(X) /\ DOMAIN W = X
  /\ \A s \in Seq(X) : W2[s] = <<Len(s)>> \o Written([i \in DOMAIN s |-> W[s[i]]])
Takes(V2, S, V, counts) ==
  \A s \in S : s \in V2 <=> Len(s) \in counts /\ \A i \in 1..Len(s) : s[i] \in V

LEMMA ShortListing ==
  ASSUME NEW counts, counts \subseteq Count16, NEW X, NEW W2, NEW W, ShortWrites(W2, W, X),
         NEW V2, NEW V, Takes(V2, Short(X), V, counts)
  PROVE  Listing(W2, V2, W, V, counts)
<1>1. counts \subseteq Nat
  BY Limits DEF Count16
<1>2. ASSUME NEW s \in DOMAIN W2
      PROVE  /\ s \in Seq(DOMAIN W)
             /\ W2[s] = <<Len(s)>> \o Written([i \in 1..Len(s) |-> W[s[i]]])
             /\ s \in V2 <=> Len(s) \in counts /\ \A i \in 1..Len(s) : s[i] \in V
  <2>1. s \in Short(X) /\ DOMAIN W = X
    BY DEF ShortWrites
  <2>2. s \in Seq(X) /\ U16(Len(s)) = Len(s) /\ DOMAIN s = 1..Len(s)
    BY <2>1, Counts
  <2>3. W2[s] = <<U16(Len(s))>> \o Written([i \in DOMAIN s |-> W[s[i]]])
    BY <2>1 DEF ShortWrites
  <2> QED BY <2>1, <2>2, <2>3 DEF Takes
<1>3. ASSUME NEW s \in Seq(DOMAIN W), Len(s) \in counts PROVE s \in DOMAIN W2
  BY <1>3, Counted16 DEF ShortWrites
<1> QED BY <1>1, <1>2, <1>3 DEF Listing

LEMMA LongListing ==
  ASSUME NEW X, NEW W2, NEW W, LongWrites(W2, W, X), NEW V2, NEW V, Takes(V2, Seq(X), V, Nat)
  PROVE  Listing(W2, V2, W, V, Nat)
<1>1. ASSUME NEW s \in DOMAIN W2
      PROVE  /\ s \in Seq(DOMAIN W)
             /\ W2[s] = <<Len(s)>> \o Written([i \in 1..Len(s) |-> W[s[i]]])
             /\ s \in V2 <=> Len(s) \in Nat /\ \A i \in 1..Len(s) : s[i] \in V
  <2>1. s \in Seq(X) /\ DOMAIN W = X
    BY DEF LongWrites
  <2>2. DOMAIN s = 1..Len(s)
    BY <2>1, ElementsOf
  <2>3. W2[s] = <<Len(s)>> \o Written([i \in DOMAIN s |-> W[s[i]]])
    BY <2>1 DEF LongWrites
  <2> QED BY <2>1, <2>2, <2>3 DEF Takes
<1>2. ASSUME NEW s \in Seq(DOMAIN W), Len(s) \in Nat PROVE s \in DOMAIN W2
  BY <1>2 DEF LongWrites
<1> QED BY <1>1, <1>2 DEF Listing

\* The objects a reader takes: those with no path that is too long for it.
ReadablePath == {p \in PathRecord : Len(p) <= PathLimit}
ReadableLongPath == {p \in PathRecord : Len(p) <= BatchLimit}
ReadableAnchor ==
  {a \in AnchorRecord : {a.AccPath, a.GenL0, a.GenL1, a.GenL2} \subseteq ReadablePath}
OptionalRecord == {a \in Seq(AnchorRecord) : Len(a) <= 1}
ReadableOptional == {a \in OptionalRecord : \A i \in 1..Len(a) : a[i] \in ReadableAnchor}
ReadableBundle ==
  {b \in BundleRecord : /\ {b.MTxIDPath, b.SubtreePath, b.BlockPath} \subseteq ReadablePath
                       /\ b.Anchor \in ReadableOptional}
ReadableMessage == {m \in MessageRecord : m.Bundles \in Seq(ReadableBundle)}
ReadableProof == {p \in ProofRecord : {p.L1, p.L2} \subseteq ReadableLongPath}

PathElemWriter == [v \in PathElemRecord |-> WritePathElem(v)]
LEMMA PathElemCodes == Codes(PathElemReader, PathElemWriter, PathElemRecord)
<1> DEFINE E == Each(<<Flag, Unit>>)
<1>1. PICK W, V : /\ Codes(E, W, V)
                  /\ TwoParts(W, V, FlagWriter, UnitWriter, BOOLEAN, Nat)
  BY FlagCodes, UnitCodes, TwoCodes
<1>2. /\ DOMAIN FlagWriter = BOOLEAN /\ \A a \in BOOLEAN : FlagWriter[a] = <<IF a THEN 1 ELSE 0>>
      /\ DOMAIN UnitWriter = Nat /\ \A a \in Nat : UnitWriter[a] = <<a>>
  BY DEF FlagWriter, UnitWriter
<1> DEFINE F == [t \in DOMAIN W |-> [Right |-> t[1], Sibling |-> t[2]]]
           G == [v \in PathElemRecord |-> <<v.Right, v.Sibling>>]
<1> HIDE DEF E
<1>3. ASSUME NEW u \in Units
      PROVE  /\ E[u].ok => PathElemReader[u] = Done(F[E[u].value], E[u].rest)
             /\ ~E[u].ok => PathElemReader[u] = Truncated
  <2>1. E[u].ok => E[u].value \in DOMAIN W
    BY <1>1 DEF Codes, Reencodes
  <2>2. PathElemReader[u] =
          LET v == E[u].value
          IN  Made(E[u], [Right |-> v[1], Sibling |-> v[2]])
    BY DEF PathElemReader, MadePathElem, E
  <2> QED BY <2>1, <2>2 DEF Made
<1>4. MadeBy(PathElemReader, E, F)
  BY <1>3 DEF MadeBy
<1>5. ASSUME NEW t \in DOMAIN W
      PROVE  F[t] \in PathElemRecord /\ PathElemWriter[F[t]] = W[t] /\ (t \in V <=> F[t] \in PathElemRecord)
  <2>1. PICK a, b : a = t[1] /\ b = t[2]
    OBVIOUS
  <2>2. PICK v : v = F[t] /\ v = [Right |-> a, Sibling |-> b]
    BY <2>1
  <2> HIDE DEF F, G
  <2>8. a \in BOOLEAN /\ b \in Nat
    BY <1>1, <1>2, <2>1 DEF TwoParts
  <2>3. v \in PathElemRecord
    BY <2>2, <2>8 DEF PathElemRecord
  <2>4. WritePathElem(v) = Written(<< <<IF a THEN 1 ELSE 0>>, <<b>> >>)
    <3>1. <<IF a THEN 1 ELSE 0>> \in Units /\ <<b>> \in Units
      BY <2>8, CountFirst, NoUnits
    <3>2. WritePathElem(v) = <<IF a THEN 1 ELSE 0>> \o <<b>>
      BY <2>2 DEF WritePathElem
    <3> QED BY <3>1, <3>2, WrittenTwo
  <2>5. /\ W[t] = Written(<< <<IF a THEN 1 ELSE 0>>, <<b>> >>)
        /\ t \in V <=> a \in BOOLEAN /\ b \in Nat
    <3>1. /\ W[t] = Written(<<FlagWriter[a], UnitWriter[b]>>)
          /\ t \in V <=> a \in BOOLEAN /\ b \in Nat
      BY <1>1, <2>1 DEF TwoParts
    <3> QED BY <1>2, <2>8, <3>1
  <2>6. PathElemWriter[v] = WritePathElem(v)
    BY <2>3 DEF PathElemWriter
  <2> QED BY <2>2, <2>3, <2>4, <2>5, <2>6, <2>8
<1>6. ASSUME NEW v \in PathElemRecord
      PROVE  G[v] \in DOMAIN W /\ F[G[v]] = v
  <2>1. v.Right \in BOOLEAN /\ v.Sibling \in Nat
    BY DEF PathElemRecord
  <2>2. PICK t : t = G[v] /\ t = <<v.Right, v.Sibling>>
    OBVIOUS
  <2>3. t[1] = v.Right /\ t[2] = v.Sibling
    BY <2>2
  <2>4. t \in DOMAIN W
    <3> HIDE DEF F, G
    <3> QED BY <1>1, <1>2, <2>1, <2>2, <2>3 DEF TwoParts
  <2>5. v = [Right |-> v.Right, Sibling |-> v.Sibling]
    BY DEF PathElemRecord
  <2> QED BY <2>2, <2>3, <2>4, <2>5
<1>7. SameWriting(PathElemWriter, PathElemRecord, W, V, F, G)
  BY <1>5, <1>6 DEF SameWriting, PathElemWriter
<1> HIDE DEF F, G
<1> QED BY <1>1, <1>4, <1>7, MadeCodes

PathWriter == [s \in PathRecord |-> WritePath(s)]
LEMMA PathCodes == Codes(PathReader, PathWriter, ReadablePath)
<1>1. ShortWrites(PathWriter, PathElemWriter, PathElemRecord)
  <2>1. ASSUME NEW s \in Short(PathElemRecord)
        PROVE  PathWriter[s] = <<U16(Len(s))>> \o Written([i \in DOMAIN s |-> PathElemWriter[s[i]]])
    <3>1. \A i \in DOMAIN s : s[i] \in PathElemRecord
      BY Counts
    <3>2. [i \in DOMAIN s |-> PathElemWriter[s[i]]] = [i \in DOMAIN s |-> WritePathElem(s[i])]
      BY <3>1 DEF PathElemWriter
    <3>3. PathWriter[s] = <<U16(Len(s))>> \o Written([i \in DOMAIN s |-> WritePathElem(s[i])])
      BY DEF PathWriter, WritePath, FlatMap, PathRecord
    <3> QED BY <3>2, <3>3
  <2>2. DOMAIN PathWriter = Short(PathElemRecord) /\ DOMAIN PathElemWriter = PathElemRecord
    BY DEF PathWriter, PathElemWriter, PathRecord
  <2> QED BY <2>1, <2>2 DEF ShortWrites
<1>2. Takes(ReadablePath, Short(PathElemRecord), PathElemRecord, 0..PathLimit)
  BY Counts, Limits DEF Takes, ReadablePath, PathRecord
<1>3. Listing(PathWriter, ReadablePath, PathElemWriter, PathElemRecord, 0..PathLimit)
  <2>1. 0..PathLimit \subseteq Count16
    BY Limits DEF Count16
  <2> QED BY <1>1, <1>2, <2>1, ShortListing
<1> QED BY <1>3, PathElemCodes, ManyCodes DEF PathReader

LEMMA LongPathCodes == Codes(LongPathReader, PathWriter, ReadableLongPath)
<1>1. ShortWrites(PathWriter, PathElemWriter, PathElemRecord)
  <2>1. ASSUME NEW s \in Short(PathElemRecord)
        PROVE  PathWriter[s] = <<U16(Len(s))>> \o Written([i \in DOMAIN s |-> PathElemWriter[s[i]]])
    <3>1. \A i \in DOMAIN s : s[i] \in PathElemRecord
      BY Counts
    <3>2. [i \in DOMAIN s |-> PathElemWriter[s[i]]] = [i \in DOMAIN s |-> WritePathElem(s[i])]
      BY <3>1 DEF PathElemWriter
    <3>3. PathWriter[s] = <<U16(Len(s))>> \o Written([i \in DOMAIN s |-> WritePathElem(s[i])])
      BY DEF PathWriter, WritePath, FlatMap, PathRecord
    <3> QED BY <3>2, <3>3
  <2>2. DOMAIN PathWriter = Short(PathElemRecord) /\ DOMAIN PathElemWriter = PathElemRecord
    BY DEF PathWriter, PathElemWriter, PathRecord
  <2> QED BY <2>1, <2>2 DEF ShortWrites
<1>2. Takes(ReadableLongPath, Short(PathElemRecord), PathElemRecord, 0..BatchLimit)
  BY Counts, Limits DEF Takes, ReadableLongPath, PathRecord
<1>3. Listing(PathWriter, ReadableLongPath, PathElemWriter, PathElemRecord, 0..BatchLimit)
  <2>1. 0..BatchLimit \subseteq Count16
    BY Limits DEF Count16
  <2> QED BY <1>1, <1>2, <2>1, ShortListing
<1> QED BY <1>3, PathElemCodes, ManyCodes DEF LongPathReader

FieldWriter == [v \in FieldRecord |-> WriteField(v)]
LEMMA FieldCodes == Codes(FieldReader, FieldWriter, FieldRecord)
<1> DEFINE E == Each(<<Unit, BytesReader>>)
<1>1. PICK W, V : /\ Codes(E, W, V)
                  /\ TwoParts(W, V, UnitWriter, Bytes16Writer, Nat, Short(Nat))
  BY UnitCodes, Bytes16Codes, TwoCodes
<1>2. /\ DOMAIN UnitWriter = Nat /\ \A a \in Nat : UnitWriter[a] = <<a>>
      /\ DOMAIN Bytes16Writer = Short(Nat) /\ \A a \in Short(Nat) : Bytes16Writer[a] = WriteBytes(a)
  BY DEF UnitWriter, Bytes16Writer
<1> DEFINE F == [t \in DOMAIN W |-> [Index |-> t[1], Bytes |-> t[2]]]
           G == [v \in FieldRecord |-> <<v.Index, v.Bytes>>]
<1> HIDE DEF E
<1>3. ASSUME NEW u \in Units
      PROVE  /\ E[u].ok => FieldReader[u] = Done(F[E[u].value], E[u].rest)
             /\ ~E[u].ok => FieldReader[u] = Truncated
  <2>1. E[u].ok => E[u].value \in DOMAIN W
    BY <1>1 DEF Codes, Reencodes
  <2>2. FieldReader[u] =
          LET v == E[u].value
          IN  Made(E[u], [Index |-> v[1], Bytes |-> v[2]])
    BY DEF FieldReader, MadeField, E
  <2> QED BY <2>1, <2>2 DEF Made
<1>4. MadeBy(FieldReader, E, F)
  BY <1>3 DEF MadeBy
<1>5. ASSUME NEW t \in DOMAIN W
      PROVE  F[t] \in FieldRecord /\ FieldWriter[F[t]] = W[t] /\ (t \in V <=> F[t] \in FieldRecord)
  <2>1. PICK a, b : a = t[1] /\ b = t[2]
    OBVIOUS
  <2>2. PICK v : v = F[t] /\ v = [Index |-> a, Bytes |-> b]
    BY <2>1
  <2> HIDE DEF F, G
  <2>8. a \in Nat /\ b \in Short(Nat)
    BY <1>1, <1>2, <2>1 DEF TwoParts
  <2>3. v \in FieldRecord
    BY <2>2, <2>8 DEF FieldRecord
  <2>4. WriteField(v) = Written(<< <<a>>, WriteBytes(b) >>)
    <3>1. <<a>> \in Units /\ WriteBytes(b) \in Units
      <4>1. b \in Units /\ Len(b) \in Nat /\ U16(Len(b)) = Len(b)
        BY <2>8, Counts DEF Units
      <4> QED BY <2>8, <4>1, CountFirst, NoUnits DEF WriteBytes
    <3>2. WriteField(v) = <<a>> \o WriteBytes(b)
      BY <2>2 DEF WriteField
    <3> QED BY <3>1, <3>2, WrittenTwo
  <2>5. /\ W[t] = Written(<< <<a>>, WriteBytes(b) >>)
        /\ t \in V <=> a \in Nat /\ b \in Short(Nat)
    <3>1. /\ W[t] = Written(<<UnitWriter[a], Bytes16Writer[b]>>)
          /\ t \in V <=> a \in Nat /\ b \in Short(Nat)
      BY <1>1, <2>1 DEF TwoParts
    <3> QED BY <1>2, <2>8, <3>1
  <2>6. FieldWriter[v] = WriteField(v)
    BY <2>3 DEF FieldWriter
  <2> QED BY <2>2, <2>3, <2>4, <2>5, <2>6, <2>8
<1>6. ASSUME NEW v \in FieldRecord
      PROVE  G[v] \in DOMAIN W /\ F[G[v]] = v
  <2>1. v.Index \in Nat /\ v.Bytes \in Short(Nat)
    BY DEF FieldRecord
  <2>2. PICK t : t = G[v] /\ t = <<v.Index, v.Bytes>>
    OBVIOUS
  <2>3. t[1] = v.Index /\ t[2] = v.Bytes
    BY <2>2
  <2>4. t \in DOMAIN W
    <3> HIDE DEF F, G
    <3> QED BY <1>1, <1>2, <2>1, <2>2, <2>3 DEF TwoParts
  <2>5. v = [Index |-> v.Index, Bytes |-> v.Bytes]
    BY DEF FieldRecord
  <2> QED BY <2>2, <2>3, <2>4, <2>5
<1>7. SameWriting(FieldWriter, FieldRecord, W, V, F, G)
  BY <1>5, <1>6 DEF SameWriting, FieldWriter
<1> HIDE DEF F, G
<1> QED BY <1>1, <1>4, <1>7, MadeCodes

FieldsWriter == [s \in FieldsRecord |-> WriteFields(s)]
LEMMA FieldsCodes == Codes(FieldsReader, FieldsWriter, FieldsRecord)
<1>1. ShortWrites(FieldsWriter, FieldWriter, FieldRecord)
  <2>1. ASSUME NEW s \in Short(FieldRecord)
        PROVE  FieldsWriter[s] = <<U16(Len(s))>> \o Written([i \in DOMAIN s |-> FieldWriter[s[i]]])
    <3>1. \A i \in DOMAIN s : s[i] \in FieldRecord
      BY Counts
    <3>2. [i \in DOMAIN s |-> FieldWriter[s[i]]] = [i \in DOMAIN s |-> WriteField(s[i])]
      BY <3>1 DEF FieldWriter
    <3>3. FieldsWriter[s] = <<U16(Len(s))>> \o Written([i \in DOMAIN s |-> WriteField(s[i])])
      BY DEF FieldsWriter, WriteFields, FlatMap, FieldsRecord
    <3> QED BY <3>2, <3>3
  <2>2. DOMAIN FieldsWriter = Short(FieldRecord) /\ DOMAIN FieldWriter = FieldRecord
    BY DEF FieldsWriter, FieldWriter, FieldsRecord
  <2> QED BY <2>1, <2>2 DEF ShortWrites
<1>2. Takes(FieldsRecord, Short(FieldRecord), FieldRecord, Count16)
  BY Counts DEF Takes, FieldsRecord
<1>3. Listing(FieldsWriter, FieldsRecord, FieldWriter, FieldRecord, Count16)
  <2>1. Count16 \subseteq Count16
    OBVIOUS
  <2> QED BY <1>1, <1>2, <2>1, ShortListing
<1> QED BY <1>3, FieldCodes, ManyCodes DEF FieldsReader

AnchorWriter == [v \in AnchorRecord |-> WriteAnchor(v)]
LEMMA AnchorCodes == Codes(AnchorReader, AnchorWriter, ReadableAnchor)
<1> DEFINE E == Each(<<Unit, PathReader, FieldsReader, PathReader, PathReader, PathReader,
                       Unit, Unit>>)
<1>1. PICK W, V : /\ Codes(E, W, V)
                  /\ EightParts(W, V, UnitWriter, PathWriter, FieldsWriter, PathWriter,
                                PathWriter, PathWriter, UnitWriter, UnitWriter, Nat,
                                ReadablePath, FieldsRecord, ReadablePath, ReadablePath,
                                ReadablePath, Nat, Nat)
  BY UnitCodes, PathCodes, FieldsCodes, EightCodes
<1>2. /\ DOMAIN UnitWriter = Nat /\ \A a \in Nat : UnitWriter[a] = <<a>>
      /\ DOMAIN PathWriter = PathRecord /\ \A a \in PathRecord : PathWriter[a] = WritePath(a)
      /\ DOMAIN FieldsWriter = FieldsRecord /\ \A a \in FieldsRecord : FieldsWriter[a] = WriteFields(a)
  BY DEF UnitWriter, PathWriter, FieldsWriter
<1> DEFINE F == [t \in DOMAIN W |-> [AccRoot |-> t[1], AccPath |-> t[2], GenTxFields |-> t[3],
                                     GenL0 |-> t[4], GenL1 |-> t[5], GenL2 |-> t[6],
                                     CarryingBlockMerkleRoot |-> t[7], CarryingHeader |-> t[8]]]
           G == [v \in AnchorRecord |-> <<v.AccRoot, v.AccPath, v.GenTxFields, v.GenL0,
                                          v.GenL1, v.GenL2, v.CarryingBlockMerkleRoot,
                                          v.CarryingHeader>>]
<1> HIDE DEF E
<1>3. ASSUME NEW u \in Units
      PROVE  /\ E[u].ok => AnchorReader[u] = Done(F[E[u].value], E[u].rest)
             /\ ~E[u].ok => AnchorReader[u] = Truncated
  <2>1. E[u].ok => E[u].value \in DOMAIN W
    BY <1>1 DEF Codes, Reencodes
  <2>2. AnchorReader[u] =
          LET v == E[u].value
          IN  Made(E[u], [AccRoot |-> v[1], AccPath |-> v[2], GenTxFields |-> v[3],
                          GenL0 |-> v[4], GenL1 |-> v[5], GenL2 |-> v[6],
                          CarryingBlockMerkleRoot |-> v[7], CarryingHeader |-> v[8]])
    BY DEF AnchorReader, MadeAnchor, E
  <2> QED BY <2>1, <2>2 DEF Made
<1>4. MadeBy(AnchorReader, E, F)
  BY <1>3 DEF MadeBy
<1>5. ASSUME NEW t \in DOMAIN W
      PROVE  F[t] \in AnchorRecord /\ AnchorWriter[F[t]] = W[t] /\ (t \in V <=> F[t] \in ReadableAnchor)
  <2>1. PICK a, b, c, d, e, f, g, h : a = t[1] /\ b = t[2] /\ c = t[3] /\ d = t[4] /\
                                      e = t[5] /\ f = t[6] /\ g = t[7] /\ h = t[8]
    OBVIOUS
  <2>2. PICK v : v = F[t] /\ v = [AccRoot |-> a, AccPath |-> b, GenTxFields |-> c, GenL0 |-> d,
                                  GenL1 |-> e, GenL2 |-> f, CarryingBlockMerkleRoot |-> g,
                                  CarryingHeader |-> h]
    BY <2>1
  <2> HIDE DEF F, G
  <2>8. a \in Nat /\ b \in PathRecord /\ c \in FieldsRecord /\ d \in PathRecord /\
        e \in PathRecord /\ f \in PathRecord /\ g \in Nat /\ h \in Nat
    BY <1>1, <1>2, <2>1 DEF EightParts
  <2>3. v \in AnchorRecord
    BY <2>2, <2>8 DEF AnchorRecord
  <2>4. WriteAnchor(v) = Written(<< <<a>>, WritePath(b), WriteFields(c), WritePath(d),
                                    WritePath(e), WritePath(f), <<g>>, <<h>> >>)
    BY <2>2 DEF WriteAnchor
  <2>5. /\ W[t] = Written(<< <<a>>, WritePath(b), WriteFields(c), WritePath(d), WritePath(e),
                             WritePath(f), <<g>>, <<h>> >>)
        /\ t \in V <=> a \in Nat /\ b \in ReadablePath /\ c \in FieldsRecord /\
                       d \in ReadablePath /\ e \in ReadablePath /\ f \in ReadablePath /\
                       g \in Nat /\ h \in Nat
    <3>1. /\ W[t] = Written(<<UnitWriter[a], PathWriter[b], FieldsWriter[c], PathWriter[d],
                              PathWriter[e], PathWriter[f], UnitWriter[g], UnitWriter[h]>>)
          /\ t \in V <=> a \in Nat /\ b \in ReadablePath /\ c \in FieldsRecord /\
                         d \in ReadablePath /\ e \in ReadablePath /\ f \in ReadablePath /\
                         g \in Nat /\ h \in Nat
      BY <1>1, <2>1 DEF EightParts
    <3> QED BY <1>2, <2>8, <3>1
  <2>6. AnchorWriter[v] = WriteAnchor(v)
    BY <2>3 DEF AnchorWriter
  <2>7. v \in ReadableAnchor <=> b \in ReadablePath /\ d \in ReadablePath /\
                                 e \in ReadablePath /\ f \in ReadablePath
    BY <2>2, <2>3 DEF ReadableAnchor
  <2> QED BY <2>2, <2>3, <2>4, <2>5, <2>6, <2>7, <2>8
<1>6. ASSUME NEW v \in AnchorRecord
      PROVE  G[v] \in DOMAIN W /\ F[G[v]] = v
  <2>1. v.AccRoot \in Nat /\ v.AccPath \in PathRecord /\ v.GenTxFields \in FieldsRecord /\
        v.GenL0 \in PathRecord /\ v.GenL1 \in PathRecord /\ v.GenL2 \in PathRecord /\
        v.CarryingBlockMerkleRoot \in Nat /\ v.CarryingHeader \in Nat
    BY DEF AnchorRecord
  <2>2. PICK t : t = G[v] /\ t = <<v.AccRoot, v.AccPath, v.GenTxFields, v.GenL0, v.GenL1,
                                   v.GenL2, v.CarryingBlockMerkleRoot, v.CarryingHeader>>
    OBVIOUS
  <2>3. t[1] = v.AccRoot /\ t[2] = v.AccPath /\ t[3] = v.GenTxFields /\ t[4] = v.GenL0 /\
        t[5] = v.GenL1 /\ t[6] = v.GenL2 /\ t[7] = v.CarryingBlockMerkleRoot /\
        t[8] = v.CarryingHeader
    BY <2>2
  <2>4. t \in DOMAIN W
    <3> HIDE DEF F, G
    <3> QED BY <1>1, <1>2, <2>1, <2>2, <2>3 DEF EightParts
  <2>5. v = [AccRoot |-> v.AccRoot, AccPath |-> v.AccPath, GenTxFields |-> v.GenTxFields,
             GenL0 |-> v.GenL0, GenL1 |-> v.GenL1, GenL2 |-> v.GenL2,
             CarryingBlockMerkleRoot |-> v.CarryingBlockMerkleRoot,
             CarryingHeader |-> v.CarryingHeader]
    BY DEF AnchorRecord
  <2> QED BY <2>2, <2>3, <2>4, <2>5
<1>7. SameWriting(AnchorWriter, ReadableAnchor, W, V, F, G)
  BY <1>5, <1>6 DEF SameWriting, AnchorWriter
<1> HIDE DEF F, G
<1> QED BY <1>1, <1>4, <1>7, MadeCodes

OptionalWriter == [s \in OptionalRecord |-> WriteOptional(s)]
LEMMA AnchorsCodes == Codes(Optional(AnchorReader), OptionalWriter, ReadableOptional)
<1>1. DOMAIN OptionalWriter = OptionalRecord /\ DOMAIN AnchorWriter = AnchorRecord
  BY DEF OptionalWriter, AnchorWriter
<1>2. ASSUME NEW s \in OptionalRecord
      PROVE  /\ OptionalWriter[s] = <<Len(s)>> \o Written([i \in 1..Len(s) |-> AnchorWriter[s[i]]])
             /\ s \in ReadableOptional <=> \A i \in 1..Len(s) : s[i] \in ReadableAnchor
  <2>1. s \in Seq(AnchorRecord)
    BY DEF OptionalRecord
  <2>2. DOMAIN s = 1..Len(s) /\ \A i \in DOMAIN s : s[i] \in AnchorRecord
    BY <2>1, ElementsOf
  <2>3. [i \in DOMAIN s |-> AnchorWriter[s[i]]] = [i \in DOMAIN s |-> WriteAnchor(s[i])]
    BY <2>2 DEF AnchorWriter
  <2>4. OptionalWriter[s] = <<Len(s)>> \o Written([i \in DOMAIN s |-> WriteAnchor(s[i])])
    BY DEF OptionalWriter, WriteOptional, FlatMap
  <2> QED BY <2>2, <2>3, <2>4 DEF ReadableOptional
<1>3. Opting(OptionalWriter, ReadableOptional, AnchorWriter, ReadableAnchor)
  BY <1>1, <1>2 DEF Opting, OptionalRecord
<1> QED BY <1>3, AnchorCodes, OptionalCodes

BundleWriter == [v \in BundleRecord |-> Serialize(v)]
LEMMA BundleCodes == Codes(BundleReader, BundleWriter, ReadableBundle)
<1> DEFINE E == Each(<<Unit, Unit, FieldsReader, PathReader, PathReader, PathReader, Unit,
                       Optional(AnchorReader)>>)
<1>1. PICK W, V : /\ Codes(E, W, V)
                  /\ EightParts(W, V, UnitWriter, UnitWriter, FieldsWriter, PathWriter,
                                PathWriter, PathWriter, UnitWriter, OptionalWriter, Nat, Nat,
                                FieldsRecord, ReadablePath, ReadablePath, ReadablePath, Nat,
                                ReadableOptional)
  BY UnitCodes, FieldsCodes, PathCodes, AnchorsCodes, EightCodes
<1>2. /\ DOMAIN UnitWriter = Nat /\ \A a \in Nat : UnitWriter[a] = <<a>>
      /\ DOMAIN FieldsWriter = FieldsRecord /\ \A a \in FieldsRecord : FieldsWriter[a] = WriteFields(a)
      /\ DOMAIN PathWriter = PathRecord /\ \A a \in PathRecord : PathWriter[a] = WritePath(a)
      /\ DOMAIN OptionalWriter = OptionalRecord /\ \A a \in OptionalRecord : OptionalWriter[a] = WriteOptional(a)
  BY DEF UnitWriter, FieldsWriter, PathWriter, OptionalWriter
<1> DEFINE F == [t \in DOMAIN W |-> [TXID |-> t[1], Vout |-> t[2], Fields |-> t[3],
                                     MTxIDPath |-> t[4], SubtreePath |-> t[5],
                                     BlockPath |-> t[6], Header |-> t[7], Anchor |-> t[8]]]
           G == [v \in BundleRecord |-> <<v.TXID, v.Vout, v.Fields, v.MTxIDPath, v.SubtreePath,
                                          v.BlockPath, v.Header, v.Anchor>>]
<1> HIDE DEF E
<1>3. ASSUME NEW u \in Units
      PROVE  /\ E[u].ok => BundleReader[u] = Done(F[E[u].value], E[u].rest)
             /\ ~E[u].ok => BundleReader[u] = Truncated
  <2>1. E[u].ok => E[u].value \in DOMAIN W
    BY <1>1 DEF Codes, Reencodes
  <2>2. BundleReader[u] =
          LET v == E[u].value
          IN  Made(E[u], [TXID |-> v[1], Vout |-> v[2], Fields |-> v[3], MTxIDPath |-> v[4],
                          SubtreePath |-> v[5], BlockPath |-> v[6], Header |-> v[7],
                          Anchor |-> v[8]])
    BY DEF BundleReader, MadeBundle, E
  <2> QED BY <2>1, <2>2 DEF Made
<1>4. MadeBy(BundleReader, E, F)
  BY <1>3 DEF MadeBy
<1>5. ASSUME NEW t \in DOMAIN W
      PROVE  F[t] \in BundleRecord /\ BundleWriter[F[t]] = W[t] /\ (t \in V <=> F[t] \in ReadableBundle)
  <2>1. PICK a, b, c, d, e, f, g, h : a = t[1] /\ b = t[2] /\ c = t[3] /\ d = t[4] /\
                                      e = t[5] /\ f = t[6] /\ g = t[7] /\ h = t[8]
    OBVIOUS
  <2>2. PICK v : v = F[t] /\ v = [TXID |-> a, Vout |-> b, Fields |-> c, MTxIDPath |-> d,
                                  SubtreePath |-> e, BlockPath |-> f, Header |-> g, Anchor |-> h]
    BY <2>1
  <2> HIDE DEF F, G
  <2>8. a \in Nat /\ b \in Nat /\ c \in FieldsRecord /\ d \in PathRecord /\ e \in PathRecord /\
        f \in PathRecord /\ g \in Nat /\ h \in OptionalRecord
    BY <1>1, <1>2, <2>1 DEF EightParts
  <2>3. v \in BundleRecord
    BY <2>2, <2>8 DEF BundleRecord, OptionalRecord
  <2>4. Serialize(v) = Written(<< <<a>>, <<b>>, WriteFields(c), WritePath(d), WritePath(e),
                                  WritePath(f), <<g>>, WriteOptional(h) >>)
    BY <2>2 DEF Serialize
  <2>5. /\ W[t] = Written(<< <<a>>, <<b>>, WriteFields(c), WritePath(d), WritePath(e),
                             WritePath(f), <<g>>, WriteOptional(h) >>)
        /\ t \in V <=> a \in Nat /\ b \in Nat /\ c \in FieldsRecord /\ d \in ReadablePath /\
                       e \in ReadablePath /\ f \in ReadablePath /\ g \in Nat /\
                       h \in ReadableOptional
    <3>1. /\ W[t] = Written(<<UnitWriter[a], UnitWriter[b], FieldsWriter[c], PathWriter[d],
                              PathWriter[e], PathWriter[f], UnitWriter[g], OptionalWriter[h]>>)
          /\ t \in V <=> a \in Nat /\ b \in Nat /\ c \in FieldsRecord /\ d \in ReadablePath /\
                         e \in ReadablePath /\ f \in ReadablePath /\ g \in Nat /\
                         h \in ReadableOptional
      BY <1>1, <2>1 DEF EightParts
    <3> QED BY <1>2, <2>8, <3>1
  <2>6. BundleWriter[v] = Serialize(v)
    BY <2>3 DEF BundleWriter
  <2>7. v \in ReadableBundle <=> d \in ReadablePath /\ e \in ReadablePath /\
                                 f \in ReadablePath /\ h \in ReadableOptional
    BY <2>2, <2>3 DEF ReadableBundle
  <2> QED BY <2>2, <2>3, <2>4, <2>5, <2>6, <2>7, <2>8
<1>6. ASSUME NEW v \in BundleRecord
      PROVE  G[v] \in DOMAIN W /\ F[G[v]] = v
  <2>1. v.TXID \in Nat /\ v.Vout \in Nat /\ v.Fields \in FieldsRecord /\
        v.MTxIDPath \in PathRecord /\ v.SubtreePath \in PathRecord /\
        v.BlockPath \in PathRecord /\ v.Header \in Nat /\ v.Anchor \in OptionalRecord
    BY DEF BundleRecord, OptionalRecord
  <2>2. PICK t : t = G[v] /\ t = <<v.TXID, v.Vout, v.Fields, v.MTxIDPath, v.SubtreePath,
                                   v.BlockPath, v.Header, v.Anchor>>
    OBVIOUS
  <2>3. t[1] = v.TXID /\ t[2] = v.Vout /\ t[3] = v.Fields /\ t[4] = v.MTxIDPath /\
        t[5] = v.SubtreePath /\ t[6] = v.BlockPath /\ t[7] = v.Header /\ t[8] = v.Anchor
    BY <2>2
  <2>4. t \in DOMAIN W
    <3> HIDE DEF F, G
    <3> QED BY <1>1, <1>2, <2>1, <2>2, <2>3 DEF EightParts
  <2>5. v = [TXID |-> v.TXID, Vout |-> v.Vout, Fields |-> v.Fields, MTxIDPath |-> v.MTxIDPath,
             SubtreePath |-> v.SubtreePath, BlockPath |-> v.BlockPath, Header |-> v.Header,
             Anchor |-> v.Anchor]
    BY DEF BundleRecord, OptionalRecord
  <2> QED BY <2>2, <2>3, <2>4, <2>5
<1>7. SameWriting(BundleWriter, ReadableBundle, W, V, F, G)
  BY <1>5, <1>6 DEF SameWriting, BundleWriter
<1> HIDE DEF F, G
<1> QED BY <1>1, <1>4, <1>7, MadeCodes

PrefixedBundleWriter == [b \in BundleRecord |-> PrefixedBundle(b)]
LEMMA PrefixedBundleCodes == Codes(Framed(BundleReader, TRUE), PrefixedBundleWriter, ReadableBundle)
<1>1. DOMAIN PrefixedBundleWriter = BundleRecord /\ DOMAIN BundleWriter = BundleRecord
  BY DEF PrefixedBundleWriter, BundleWriter
<1>2. \A b \in BundleRecord : PrefixedBundleWriter[b] = <<Len(BundleWriter[b])>> \o BundleWriter[b]
  BY DEF PrefixedBundleWriter, BundleWriter, PrefixedBundle, Prefixed
<1>3. Framing(PrefixedBundleWriter, BundleWriter)
  BY <1>1, <1>2 DEF Framing
<1> QED BY <1>3, BundleCodes, FramedCodes

BundlesWriter == [s \in Seq(BundleRecord) |-> Listed(PrefixedBundle, s)]
LEMMA BundlesCodes == Codes(Many(Framed(BundleReader, TRUE), Nat), BundlesWriter, Seq(ReadableBundle))
<1>1. LongWrites(BundlesWriter, PrefixedBundleWriter, BundleRecord)
  <2>1. ASSUME NEW s \in Seq(BundleRecord)
        PROVE  BundlesWriter[s] = <<Len(s)>> \o Written([i \in DOMAIN s |-> PrefixedBundleWriter[s[i]]])
    <3>1. \A i \in DOMAIN s : s[i] \in BundleRecord
      BY ElementsOf
    <3>2. [i \in DOMAIN s |-> PrefixedBundleWriter[s[i]]] = [i \in DOMAIN s |-> PrefixedBundle(s[i])]
      BY <3>1 DEF PrefixedBundleWriter
    <3>3. BundlesWriter[s] = <<Len(s)>> \o Written([i \in DOMAIN s |-> PrefixedBundle(s[i])])
      BY DEF BundlesWriter, Listed, FlatMap
    <3> QED BY <3>2, <3>3
  <2>2. DOMAIN BundlesWriter = Seq(BundleRecord) /\ DOMAIN PrefixedBundleWriter = BundleRecord
    BY DEF BundlesWriter, PrefixedBundleWriter
  <2> QED BY <2>1, <2>2 DEF LongWrites
<1>2. Takes(Seq(ReadableBundle), Seq(BundleRecord), ReadableBundle, Nat)
  BY SeqOfElements DEF Takes
<1>3. Listing(BundlesWriter, Seq(ReadableBundle), PrefixedBundleWriter, ReadableBundle, Nat)
  BY <1>1, <1>2, LongListing
<1> QED BY <1>3, PrefixedBundleCodes, ManyCodes

TxInsWriter == [s \in Seq(TxInRecord) |-> Listed(WriteTxIn, s)]
LEMMA TxInsCodes == Codes(Many(TxInReader, Nat), TxInsWriter, Seq(TxInRecord))
<1>1. LongWrites(TxInsWriter, TxInWriter, TxInRecord)
  <2>1. ASSUME NEW s \in Seq(TxInRecord)
        PROVE  TxInsWriter[s] = <<Len(s)>> \o Written([i \in DOMAIN s |-> TxInWriter[s[i]]])
    <3>1. \A i \in DOMAIN s : s[i] \in TxInRecord
      BY ElementsOf
    <3>2. [i \in DOMAIN s |-> TxInWriter[s[i]]] = [i \in DOMAIN s |-> WriteTxIn(s[i])]
      BY <3>1 DEF TxInWriter
    <3>3. TxInsWriter[s] = <<Len(s)>> \o Written([i \in DOMAIN s |-> WriteTxIn(s[i])])
      BY DEF TxInsWriter, Listed, FlatMap
    <3> QED BY <3>2, <3>3
  <2>2. DOMAIN TxInsWriter = Seq(TxInRecord) /\ DOMAIN TxInWriter = TxInRecord
    BY DEF TxInsWriter, TxInWriter
  <2> QED BY <2>1, <2>2 DEF LongWrites
<1>2. Takes(Seq(TxInRecord), Seq(TxInRecord), TxInRecord, Nat)
  BY ElementsOf DEF Takes
<1>3. Listing(TxInsWriter, Seq(TxInRecord), TxInWriter, TxInRecord, Nat)
  BY <1>1, <1>2, LongListing
<1> QED BY <1>3, TxInCodes, ManyCodes

TxOutsWriter == [s \in Seq(TxOutRecord) |-> Listed(WriteTxOut, s)]
LEMMA TxOutsCodes == Codes(Many(TxOutReader, Nat), TxOutsWriter, Seq(TxOutRecord))
<1>1. LongWrites(TxOutsWriter, TxOutWriter, TxOutRecord)
  <2>1. ASSUME NEW s \in Seq(TxOutRecord)
        PROVE  TxOutsWriter[s] = <<Len(s)>> \o Written([i \in DOMAIN s |-> TxOutWriter[s[i]]])
    <3>1. \A i \in DOMAIN s : s[i] \in TxOutRecord
      BY ElementsOf
    <3>2. [i \in DOMAIN s |-> TxOutWriter[s[i]]] = [i \in DOMAIN s |-> WriteTxOut(s[i])]
      BY <3>1 DEF TxOutWriter
    <3>3. TxOutsWriter[s] = <<Len(s)>> \o Written([i \in DOMAIN s |-> WriteTxOut(s[i])])
      BY DEF TxOutsWriter, Listed, FlatMap
    <3> QED BY <3>2, <3>3
  <2>2. DOMAIN TxOutsWriter = Seq(TxOutRecord) /\ DOMAIN TxOutWriter = TxOutRecord
    BY DEF TxOutsWriter, TxOutWriter
  <2> QED BY <2>1, <2>2 DEF LongWrites
<1>2. Takes(Seq(TxOutRecord), Seq(TxOutRecord), TxOutRecord, Nat)
  BY ElementsOf DEF Takes
<1>3. Listing(TxOutsWriter, Seq(TxOutRecord), TxOutWriter, TxOutRecord, Nat)
  BY <1>1, <1>2, LongListing
<1> QED BY <1>3, TxOutCodes, ManyCodes

TxWriter == [v \in TxRecord |-> EncodeTx(v)]
LEMMA TxCodes == Codes(TxReader, TxWriter, TxRecord)
<1> DEFINE E == Each(<<Unit, Many(TxInReader, Nat), Many(TxOutReader, Nat), Unit>>)
<1>1. PICK W, V : /\ Codes(E, W, V)
                  /\ FourParts(W, V, UnitWriter, TxInsWriter, TxOutsWriter, UnitWriter, Nat,
                               Seq(TxInRecord), Seq(TxOutRecord), Nat)
  BY UnitCodes, TxInsCodes, TxOutsCodes, FourCodes
<1>2. /\ DOMAIN UnitWriter = Nat /\ \A a \in Nat : UnitWriter[a] = <<a>>
      /\ DOMAIN TxInsWriter = Seq(TxInRecord) /\ \A a \in Seq(TxInRecord) : TxInsWriter[a] = Listed(WriteTxIn, a)
      /\ DOMAIN TxOutsWriter = Seq(TxOutRecord) /\ \A a \in Seq(TxOutRecord) : TxOutsWriter[a] = Listed(WriteTxOut, a)
  BY DEF UnitWriter, TxInsWriter, TxOutsWriter
<1> DEFINE F == [t \in DOMAIN W |-> [Version |-> t[1], Inputs |-> t[2], Outputs |-> t[3],
                                     LockTime |-> t[4]]]
           G == [v \in TxRecord |-> <<v.Version, v.Inputs, v.Outputs, v.LockTime>>]
<1> HIDE DEF E
<1>3. ASSUME NEW u \in Units
      PROVE  /\ E[u].ok => TxReader[u] = Done(F[E[u].value], E[u].rest)
             /\ ~E[u].ok => TxReader[u] = Truncated
  <2>1. E[u].ok => E[u].value \in DOMAIN W
    BY <1>1 DEF Codes, Reencodes
  <2>2. TxReader[u] =
          LET v == E[u].value
          IN  Made(E[u], [Version |-> v[1], Inputs |-> v[2], Outputs |-> v[3], LockTime |-> v[4]])
    BY DEF TxReader, MadeTx, E
  <2> QED BY <2>1, <2>2 DEF Made
<1>4. MadeBy(TxReader, E, F)
  BY <1>3 DEF MadeBy
<1>5. ASSUME NEW t \in DOMAIN W
      PROVE  F[t] \in TxRecord /\ TxWriter[F[t]] = W[t] /\ (t \in V <=> F[t] \in TxRecord)
  <2>1. PICK a, b, c, d : a = t[1] /\ b = t[2] /\ c = t[3] /\ d = t[4]
    OBVIOUS
  <2>2. PICK v : v = F[t] /\ v = [Version |-> a, Inputs |-> b, Outputs |-> c, LockTime |-> d]
    BY <2>1
  <2> HIDE DEF F, G
  <2>8. a \in Nat /\ b \in Seq(TxInRecord) /\ c \in Seq(TxOutRecord) /\ d \in Nat
    BY <1>1, <1>2, <2>1 DEF FourParts
  <2>3. v \in TxRecord
    BY <2>2, <2>8 DEF TxRecord
  <2>4. EncodeTx(v) = Written(<< <<a>>, Listed(WriteTxIn, b), Listed(WriteTxOut, c), <<d>> >>)
    BY <2>2 DEF EncodeTx
  <2>5. /\ W[t] = Written(<< <<a>>, Listed(WriteTxIn, b), Listed(WriteTxOut, c), <<d>> >>)
        /\ t \in V <=> a \in Nat /\ b \in Seq(TxInRecord) /\ c \in Seq(TxOutRecord) /\ d \in Nat
    <3>1. /\ W[t] = Written(<<UnitWriter[a], TxInsWriter[b], TxOutsWriter[c], UnitWriter[d]>>)
          /\ t \in V <=> a \in Nat /\ b \in Seq(TxInRecord) /\ c \in Seq(TxOutRecord) /\
                         d \in Nat
      BY <1>1, <2>1 DEF FourParts
    <3> QED BY <1>2, <2>8, <3>1
  <2>6. TxWriter[v] = EncodeTx(v)
    BY <2>3 DEF TxWriter
  <2> QED BY <2>2, <2>3, <2>4, <2>5, <2>6, <2>8
<1>6. ASSUME NEW v \in TxRecord
      PROVE  G[v] \in DOMAIN W /\ F[G[v]] = v
  <2>1. v.Version \in Nat /\ v.Inputs \in Seq(TxInRecord) /\ v.Outputs \in Seq(TxOutRecord) /\
        v.LockTime \in Nat
    BY DEF TxRecord
  <2>2. PICK t : t = G[v] /\ t = <<v.Version, v.Inputs, v.Outputs, v.LockTime>>
    OBVIOUS
  <2>3. t[1] = v.Version /\ t[2] = v.Inputs /\ t[3] = v.Outputs /\ t[4] = v.LockTime
    BY <2>2
  <2>4. t \in DOMAIN W
    <3> HIDE DEF F, G
    <3> QED BY <1>1, <1>2, <2>1, <2>2, <2>3 DEF FourParts
  <2>5. v = [Version |-> v.Version, Inputs |-> v.Inputs, Outputs |-> v.Outputs,
             LockTime |-> v.LockTime]
    BY DEF TxRecord
  <2> QED BY <2>2, <2>3, <2>4, <2>5
<1>7. SameWriting(TxWriter, TxRecord, W, V, F, G)
  BY <1>5, <1>6 DEF SameWriting, TxWriter
<1> HIDE DEF F, G
<1> QED BY <1>1, <1>4, <1>7, MadeCodes

MessageWriter == [v \in MessageRecord |-> Encode(v)]
LEMMA MessageCodes == Codes(MessageReader, MessageWriter, ReadableMessage)
<1> DEFINE E == Each(<<TxReader, Many(Framed(BundleReader, TRUE), Nat)>>)
<1>1. PICK W, V : /\ Codes(E, W, V)
                  /\ TwoParts(W, V, TxWriter, BundlesWriter, TxRecord, Seq(ReadableBundle))
  BY TxCodes, BundlesCodes, TwoCodes
<1>2. /\ DOMAIN TxWriter = TxRecord /\ \A a \in TxRecord : TxWriter[a] = EncodeTx(a)
      /\ DOMAIN BundlesWriter = Seq(BundleRecord) /\ \A a \in Seq(BundleRecord) : BundlesWriter[a] = Listed(PrefixedBundle, a)
  BY DEF TxWriter, BundlesWriter
<1> DEFINE F == [t \in DOMAIN W |-> [Tx |-> t[1], Bundles |-> t[2]]]
           G == [v \in MessageRecord |-> <<v.Tx, v.Bundles>>]
<1> HIDE DEF E
<1>3. ASSUME NEW u \in Units
      PROVE  /\ E[u].ok => MessageReader[u] = Done(F[E[u].value], E[u].rest)
             /\ ~E[u].ok => MessageReader[u] = Truncated
  <2>1. E[u].ok => E[u].value \in DOMAIN W
    BY <1>1 DEF Codes, Reencodes
  <2>2. MessageReader[u] =
          LET v == E[u].value
          IN  Made(E[u], [Tx |-> v[1], Bundles |-> v[2]])
    BY DEF MessageReader, MadeMessage, E
  <2> QED BY <2>1, <2>2 DEF Made
<1>4. MadeBy(MessageReader, E, F)
  BY <1>3 DEF MadeBy
<1>5. ASSUME NEW t \in DOMAIN W
      PROVE  F[t] \in MessageRecord /\ MessageWriter[F[t]] = W[t] /\ (t \in V <=> F[t] \in ReadableMessage)
  <2>1. PICK a, b : a = t[1] /\ b = t[2]
    OBVIOUS
  <2>2. PICK v : v = F[t] /\ v = [Tx |-> a, Bundles |-> b]
    BY <2>1
  <2> HIDE DEF F, G
  <2>8. a \in TxRecord /\ b \in Seq(BundleRecord)
    BY <1>1, <1>2, <2>1 DEF TwoParts
  <2>3. v \in MessageRecord
    BY <2>2, <2>8 DEF MessageRecord
  <2>4. Encode(v) = Written(<< EncodeTx(a), Listed(PrefixedBundle, b) >>)
    <3>1. EncodeTx(a) \in Units /\ Listed(PrefixedBundle, b) \in Units
      <4>1. TxWriter[a] \in Units /\ BundlesWriter[b] \in Units
        BY <1>2, <2>8, TxCodes, BundlesCodes, WritesUnits DEF Codes
      <4> QED BY <1>2, <2>8, <4>1
    <3>2. Encode(v) = EncodeTx(a) \o Listed(PrefixedBundle, b)
      BY <2>2 DEF Encode
    <3> QED BY <3>1, <3>2, WrittenTwo
  <2>5. /\ W[t] = Written(<< EncodeTx(a), Listed(PrefixedBundle, b) >>)
        /\ t \in V <=> a \in TxRecord /\ b \in Seq(ReadableBundle)
    <3>1. /\ W[t] = Written(<<TxWriter[a], BundlesWriter[b]>>)
          /\ t \in V <=> a \in TxRecord /\ b \in Seq(ReadableBundle)
      BY <1>1, <2>1 DEF TwoParts
    <3> QED BY <1>2, <2>8, <3>1
  <2>6. MessageWriter[v] = Encode(v)
    BY <2>3 DEF MessageWriter
  <2>7. v \in ReadableMessage <=> b \in Seq(ReadableBundle)
    BY <2>2, <2>3 DEF ReadableMessage
  <2> QED BY <2>2, <2>3, <2>4, <2>5, <2>6, <2>7, <2>8
<1>6. ASSUME NEW v \in MessageRecord
      PROVE  G[v] \in DOMAIN W /\ F[G[v]] = v
  <2>1. v.Tx \in TxRecord /\ v.Bundles \in Seq(BundleRecord)
    BY DEF MessageRecord
  <2>2. PICK t : t = G[v] /\ t = <<v.Tx, v.Bundles>>
    OBVIOUS
  <2>3. t[1] = v.Tx /\ t[2] = v.Bundles
    BY <2>2
  <2>4. t \in DOMAIN W
    <3> HIDE DEF F, G
    <3> QED BY <1>1, <1>2, <2>1, <2>2, <2>3 DEF TwoParts
  <2>5. v = [Tx |-> v.Tx, Bundles |-> v.Bundles]
    BY DEF MessageRecord
  <2> QED BY <2>2, <2>3, <2>4, <2>5
<1>7. SameWriting(MessageWriter, ReadableMessage, W, V, F, G)
  BY <1>5, <1>6 DEF SameWriting, MessageWriter
<1> HIDE DEF F, G
<1> QED BY <1>1, <1>4, <1>7, MadeCodes

ProofWriter == [v \in ProofRecord |-> EncodeProof(v)]
LEMMA ProofCodes == Codes(ProofReader, ProofWriter, ReadableProof)
<1> DEFINE E == Each(<<Unit, LongPathReader, Unit, LongPathReader, Unit>>)
<1>1. PICK W, V : /\ Codes(E, W, V)
                  /\ FiveParts(W, V, UnitWriter, PathWriter, UnitWriter, PathWriter,
                               UnitWriter, Nat, ReadableLongPath, Nat, ReadableLongPath, Nat)
  BY UnitCodes, LongPathCodes, FiveCodes
<1>2. /\ DOMAIN UnitWriter = Nat /\ \A a \in Nat : UnitWriter[a] = <<a>>
      /\ DOMAIN PathWriter = PathRecord /\ \A a \in PathRecord : PathWriter[a] = WritePath(a)
  BY DEF UnitWriter, PathWriter
<1> DEFINE F == [t \in DOMAIN W |-> [Leaf |-> t[1], L1 |-> t[2], SubtreeRoot |-> t[3],
                                     L2 |-> t[4], Header |-> t[5]]]
           G == [v \in ProofRecord |-> <<v.Leaf, v.L1, v.SubtreeRoot, v.L2, v.Header>>]
<1> HIDE DEF E
<1>3. ASSUME NEW u \in Units
      PROVE  /\ E[u].ok => ProofReader[u] = Done(F[E[u].value], E[u].rest)
             /\ ~E[u].ok => ProofReader[u] = Truncated
  <2>1. E[u].ok => E[u].value \in DOMAIN W
    BY <1>1 DEF Codes, Reencodes
  <2>2. ProofReader[u] =
          LET v == E[u].value
          IN  Made(E[u], [Leaf |-> v[1], L1 |-> v[2], SubtreeRoot |-> v[3], L2 |-> v[4],
                          Header |-> v[5]])
    BY DEF ProofReader, MadeProof, E
  <2> QED BY <2>1, <2>2 DEF Made
<1>4. MadeBy(ProofReader, E, F)
  BY <1>3 DEF MadeBy
<1>5. ASSUME NEW t \in DOMAIN W
      PROVE  F[t] \in ProofRecord /\ ProofWriter[F[t]] = W[t] /\ (t \in V <=> F[t] \in ReadableProof)
  <2>1. PICK a, b, c, d, e : a = t[1] /\ b = t[2] /\ c = t[3] /\ d = t[4] /\ e = t[5]
    OBVIOUS
  <2>2. PICK v : v = F[t] /\ v = [Leaf |-> a, L1 |-> b, SubtreeRoot |-> c, L2 |-> d,
                                  Header |-> e]
    BY <2>1
  <2> HIDE DEF F, G
  <2>8. a \in Nat /\ b \in PathRecord /\ c \in Nat /\ d \in PathRecord /\ e \in Nat
    BY <1>1, <1>2, <2>1 DEF FiveParts
  <2>3. v \in ProofRecord
    BY <2>2, <2>8 DEF ProofRecord
  <2>4. EncodeProof(v) = Written(<< <<a>>, WritePath(b), <<c>>, WritePath(d), <<e>> >>)
    BY <2>2 DEF EncodeProof
  <2>5. /\ W[t] = Written(<< <<a>>, WritePath(b), <<c>>, WritePath(d), <<e>> >>)
        /\ t \in V <=> a \in Nat /\ b \in ReadableLongPath /\ c \in Nat /\
                       d \in ReadableLongPath /\ e \in Nat
    <3>1. /\ W[t] = Written(<<UnitWriter[a], PathWriter[b], UnitWriter[c], PathWriter[d],
                              UnitWriter[e]>>)
          /\ t \in V <=> a \in Nat /\ b \in ReadableLongPath /\ c \in Nat /\
                         d \in ReadableLongPath /\ e \in Nat
      BY <1>1, <2>1 DEF FiveParts
    <3> QED BY <1>2, <2>8, <3>1
  <2>6. ProofWriter[v] = EncodeProof(v)
    BY <2>3 DEF ProofWriter
  <2>7. v \in ReadableProof <=> b \in ReadableLongPath /\ d \in ReadableLongPath
    BY <2>2, <2>3 DEF ReadableProof
  <2> QED BY <2>2, <2>3, <2>4, <2>5, <2>6, <2>7, <2>8
<1>6. ASSUME NEW v \in ProofRecord
      PROVE  G[v] \in DOMAIN W /\ F[G[v]] = v
  <2>1. v.Leaf \in Nat /\ v.L1 \in PathRecord /\ v.SubtreeRoot \in Nat /\
        v.L2 \in PathRecord /\ v.Header \in Nat
    BY DEF ProofRecord
  <2>2. PICK t : t = G[v] /\ t = <<v.Leaf, v.L1, v.SubtreeRoot, v.L2, v.Header>>
    OBVIOUS
  <2>3. t[1] = v.Leaf /\ t[2] = v.L1 /\ t[3] = v.SubtreeRoot /\ t[4] = v.L2 /\ t[5] = v.Header
    BY <2>2
  <2>4. t \in DOMAIN W
    <3> HIDE DEF F, G
    <3> QED BY <1>1, <1>2, <2>1, <2>2, <2>3 DEF FiveParts
  <2>5. v = [Leaf |-> v.Leaf, L1 |-> v.L1, SubtreeRoot |-> v.SubtreeRoot, L2 |-> v.L2,
             Header |-> v.Header]
    BY DEF ProofRecord
  <2> QED BY <2>2, <2>3, <2>4, <2>5
<1>7. SameWriting(ProofWriter, ReadableProof, W, V, F, G)
  BY <1>5, <1>6 DEF SameWriting, ProofWriter
<1> HIDE DEF F, G
<1> QED BY <1>1, <1>4, <1>7, MadeCodes

PrefixedProofWriter == [p \in ProofRecord |-> PrefixedProof(p)]
BatchReader == Many(Framed(ProofReader, FALSE), Nat)
BatchWriter == [s \in Seq(ProofRecord) |-> EncodeBatch(s)]
LEMMA BatchDecodes == Local(BatchReader) /\ Decodes(BatchReader, BatchWriter, Seq(ReadableProof))
<1>1. DOMAIN PrefixedProofWriter = ProofRecord /\ DOMAIN ProofWriter = ProofRecord
  BY DEF PrefixedProofWriter, ProofWriter
<1>2. \A p \in ProofRecord : PrefixedProofWriter[p] = <<Len(ProofWriter[p])>> \o ProofWriter[p]
  BY DEF PrefixedProofWriter, ProofWriter, PrefixedProof, Prefixed
<1>3. Framing(PrefixedProofWriter, ProofWriter)
  BY <1>1, <1>2 DEF Framing
<1>4. PICK exact \in BOOLEAN : exact = FALSE
  OBVIOUS
<1>5. Local(Framed(ProofReader, exact)) /\ Decodes(Framed(ProofReader, exact), PrefixedProofWriter, ReadableProof)
  BY <1>3, ProofCodes, FramedDecodes DEF Codes
<1>6. LongWrites(BatchWriter, PrefixedProofWriter, ProofRecord)
  <2>1. ASSUME NEW s \in Seq(ProofRecord)
        PROVE  BatchWriter[s] = <<Len(s)>> \o Written([i \in DOMAIN s |-> PrefixedProofWriter[s[i]]])
    <3>1. \A i \in DOMAIN s : s[i] \in ProofRecord
      BY ElementsOf
    <3>2. [i \in DOMAIN s |-> PrefixedProofWriter[s[i]]] = [i \in DOMAIN s |-> PrefixedProof(s[i])]
      BY <3>1 DEF PrefixedProofWriter
    <3>3. BatchWriter[s] = <<Len(s)>> \o Written([i \in DOMAIN s |-> PrefixedProof(s[i])])
      BY DEF BatchWriter, EncodeBatch, Listed, FlatMap
    <3> QED BY <3>2, <3>3
  <2>2. DOMAIN BatchWriter = Seq(ProofRecord) /\ DOMAIN PrefixedProofWriter = ProofRecord
    BY DEF BatchWriter, PrefixedProofWriter
  <2> QED BY <2>1, <2>2 DEF LongWrites
<1>7. Takes(Seq(ReadableProof), Seq(ProofRecord), ReadableProof, Nat)
  BY SeqOfElements DEF Takes
<1>8. Listing(BatchWriter, Seq(ReadableProof), PrefixedProofWriter, ReadableProof, Nat)
  BY <1>6, <1>7, LongListing
<1>9. PICK R : R = Framed(ProofReader, exact) /\ BatchReader = Many(R, Nat)
  BY <1>4 DEF BatchReader
<1> QED BY <1>5, <1>8, <1>9, ManyDecodes

\* What a reader gives is one of V.
Gives(R, V) == \A u \in Units : R[u].ok => R[u].value \in V

LEMMA FramedGives ==
  ASSUME NEW R, NEW V, Gives(R, V), NEW exact \in BOOLEAN
  PROVE  Gives(Framed(R, exact), V)
<1> SUFFICES ASSUME NEW u \in Units, NEW r, r = Framed(R, exact)[u], r.ok
             PROVE  r.value \in V
  BY DEF Gives
<1>1. r # Truncated
  BY TruncatedIs
<1>2. PICK b \in Units, rest \in Units : R[b].ok /\ r = Done(R[b].value, rest)
  BY <1>1, FramedIs
<1>3. r.value = R[b].value
  BY <1>2, DoneIs
<1> QED BY <1>2, <1>3 DEF Gives

LEMMA ManyGives ==
  ASSUME NEW R, Local(R), NEW V, Gives(R, V)
  PROVE  Gives(Many(R, Nat), Seq(V))
<1> SUFFICES ASSUME NEW u \in Units, NEW r, r = Many(R, Nat)[u], r.ok
             PROVE  r.value \in Seq(V)
  BY DEF Gives
<1>1. u # << >>
  <2> SUFFICES ASSUME u = << >> PROVE FALSE
    OBVIOUS
  <2>1. r = Truncated
    BY DEF Many
  <2> QED BY <2>1, TruncatedIs
<1>2. PICK n \in Nat, x \in Units : n = Head(u) /\ x = Tail(u)
  BY <1>1, FirstUnit
<1>3. PICK rs : rs = [i \in 1..n |-> R]
  OBVIOUS
<1>4. Len(rs) = n /\ \A i \in 1..n : rs[i] = R
  BY <1>3
<1>5. r = Each(rs)[x]
  BY <1>1, <1>2, <1>3 DEF Many
<1>6. PICK vs : vs = Each(rs)[x].value
  OBVIOUS
<1>7. EachRead(rs, n, x, vs)
  BY <1>4, <1>5, <1>6, EachAgain
<1>8. vs = FirstOf(vs, n) /\ \A i \in 1..n : vs[i] \in V
  BY <1>4, <1>7 DEF EachRead, Gives
<1>9. vs \in Seq(V)
  BY <1>8, FirstOfSeq
<1> QED BY <1>5, <1>6, <1>9

LEMMA BatchGives == Gives(BatchReader, Seq(ProofRecord))
<1>1. PICK exact \in BOOLEAN : exact = FALSE
  OBVIOUS
<1>2. PICK R : R = Framed(ProofReader, exact) /\ BatchReader = Many(R, Nat)
  BY <1>1 DEF BatchReader
<1>3. Gives(ProofReader, ProofRecord)
  BY ProofCodes DEF Codes, Reencodes, Gives, ReadableProof
<1>4. Gives(R, ProofRecord)
  BY <1>2, <1>3, FramedGives
<1>5. Framing(PrefixedProofWriter, ProofWriter)
  BY DEF Framing, PrefixedProofWriter, ProofWriter, PrefixedProof, Prefixed
<1>6. Local(R)
  BY <1>2, <1>5, ProofCodes, FramedDecodes DEF Codes
<1> QED BY <1>2, <1>4, <1>6, ManyGives

-----------------------------------------------------------------------------
(***************************************************************************)
(* An object on its way                                                    *)
(***************************************************************************)
LEMMA ReadableBundles ==
  ASSUME NEW b \in BundleRecord
  PROVE  b \in ReadableBundle <=> \A p \in PathsOfBundle(b) : Len(p) <= PathLimit
<1> DEFINE Fine(p) == Len(p) <= PathLimit
           A(i) == {b.Anchor[i].AccPath, b.Anchor[i].GenL0, b.Anchor[i].GenL1, b.Anchor[i].GenL2}
<1>1. {b.MTxIDPath, b.SubtreePath, b.BlockPath} \subseteq PathRecord /\ b.Anchor \in OptionalRecord
  BY DEF BundleRecord, OptionalRecord
<1>2. DOMAIN b.Anchor = 1..Len(b.Anchor) /\ \A i \in 1..Len(b.Anchor) : b.Anchor[i] \in AnchorRecord
  <2>1. b.Anchor \in Seq(AnchorRecord)
    BY <1>1 DEF OptionalRecord
  <2> QED BY <2>1, ElementsOf
<1>3. \A a \in AnchorRecord : {a.AccPath, a.GenL0, a.GenL1, a.GenL2} \subseteq PathRecord
  BY DEF AnchorRecord
<1>4. \A p \in PathRecord : p \in ReadablePath <=> Fine(p)
  BY DEF ReadablePath
<1>5. \A i \in 1..Len(b.Anchor) : b.Anchor[i] \in ReadableAnchor <=> \A p \in A(i) : Fine(p)
  <2> TAKE i \in 1..Len(b.Anchor)
  <2>1. PICK a \in AnchorRecord : a = b.Anchor[i]
    BY <1>2
  <2>2. {a.AccPath, a.GenL0, a.GenL1, a.GenL2} \subseteq PathRecord
    BY <1>3
  <2>3. a \in ReadableAnchor <=> {a.AccPath, a.GenL0, a.GenL1, a.GenL2} \subseteq ReadablePath
    BY DEF ReadableAnchor
  <2> HIDE DEF Fine
  <2> QED BY <1>4, <2>1, <2>2, <2>3
<1>6. b.Anchor \in ReadableOptional <=> \A i \in 1..Len(b.Anchor) : \A p \in A(i) : Fine(p)
  <2> HIDE DEF Fine, A
  <2> QED BY <1>1, <1>5 DEF ReadableOptional
<1>7. b \in ReadableBundle <=> /\ \A p \in {b.MTxIDPath, b.SubtreePath, b.BlockPath} : Fine(p)
                               /\ b.Anchor \in ReadableOptional
  <2> HIDE DEF Fine
  <2> QED BY <1>1, <1>4 DEF ReadableBundle
<1>8. PathsOfBundle(b) = {b.MTxIDPath, b.SubtreePath, b.BlockPath} \cup UNION {A(i) : i \in DOMAIN b.Anchor}
  BY DEF PathsOfBundle
<1> HIDE DEF Fine, A
<1>9. (\A p \in PathsOfBundle(b) : Fine(p)) <=>
        /\ \A p \in {b.MTxIDPath, b.SubtreePath, b.BlockPath} : Fine(p)
        /\ \A i \in 1..Len(b.Anchor) : \A p \in A(i) : Fine(p)
  BY <1>2, <1>8
<1>10. b \in ReadableBundle <=> \A p \in PathsOfBundle(b) : Fine(p)
  BY <1>6, <1>7, <1>9
<1> QED BY <1>10 DEF Fine

\* R is the reader of a format, and W writes its objects, of which it takes V.
FormatIs(format, R, W, V) ==
  /\ Local(R) /\ Decodes(R, W, V) /\ (format # "batch" => Reencodes(R, W, V))
  /\ Gives(R, DOMAIN W) /\ \A object : object \in DOMAIN W <=> CountableAs(format, object)
  /\ \A object \in DOMAIN W : /\ W[object] = EncodeAs(format, object)
                              /\ object \in V <=> ReadableAs(format, object)
  /\ \A u \in Units : DecodeAs(format, u) = IF R[u].ok /\ (format = "batch" \/ R[u].rest = << >>)
                                            THEN <<R[u].value>> ELSE Refused

LEMMA BundleFormat == FormatIs("bundle", BundleReader, BundleWriter, ReadableBundle)
<1>1. DOMAIN BundleWriter = BundleRecord /\ \A b \in BundleRecord : BundleWriter[b] = Serialize(b)
  BY DEF BundleWriter
<1>2. \A b : EncodeAs("bundle", b) = Serialize(b)
  BY DEF EncodeAs
<1>3. \A b \in BundleRecord : b \in ReadableBundle <=> ReadableAs("bundle", b)
  BY ReadableBundles DEF ReadableAs
<1>4. \A u : DecodeAs("bundle", u) = IF BundleReader[u].ok /\ BundleReader[u].rest = << >>
                                     THEN <<BundleReader[u].value>> ELSE Refused
  BY DEF DecodeAs, Deserialize, TakenWhole, Taken
<1>5. Gives(BundleReader, DOMAIN BundleWriter)
  BY BundleCodes DEF Codes, Reencodes, Gives
<1>6. \A object : object \in DOMAIN BundleWriter <=> CountableAs("bundle", object)
  BY <1>1 DEF CountableAs
<1> QED BY <1>1, <1>2, <1>3, <1>4, <1>5, <1>6, BundleCodes DEF FormatIs, Codes

LEMMA MessageFormat == FormatIs("message", MessageReader, MessageWriter, ReadableMessage)
<1>1. DOMAIN MessageWriter = MessageRecord /\ \A m \in MessageRecord : MessageWriter[m] = Encode(m)
  BY DEF MessageWriter
<1>2. \A m : EncodeAs("message", m) = Encode(m)
  BY DEF EncodeAs
<1>3. ASSUME NEW m \in MessageRecord PROVE m \in ReadableMessage <=> ReadableAs("message", m)
  <2>1. m.Bundles \in Seq(BundleRecord)
    BY DEF MessageRecord
  <2>2. DOMAIN m.Bundles = 1..Len(m.Bundles) /\ \A i \in 1..Len(m.Bundles) : m.Bundles[i] \in BundleRecord
    BY <2>1, ElementsOf
  <2>3. m.Bundles \in Seq(ReadableBundle) <=> \A i \in 1..Len(m.Bundles) : m.Bundles[i] \in ReadableBundle
    BY <2>1, SeqOfElements
  <2>4. m \in ReadableMessage <=> m.Bundles \in Seq(ReadableBundle)
    BY DEF ReadableMessage
  <2>5. ReadableAs("message", m) <=>
          \A i \in DOMAIN m.Bundles : \A p \in PathsOfBundle(m.Bundles[i]) : Len(p) <= PathLimit
    BY DEF ReadableAs
  <2> QED BY <2>2, <2>3, <2>4, <2>5, ReadableBundles
<1>4. \A u : DecodeAs("message", u) = IF MessageReader[u].ok /\ MessageReader[u].rest = << >>
                                      THEN <<MessageReader[u].value>> ELSE Refused
  BY DEF DecodeAs, DecodeMessage, TakenWhole, Taken
<1>5. Gives(MessageReader, DOMAIN MessageWriter)
  BY MessageCodes DEF Codes, Reencodes, Gives
<1>6. \A object : object \in DOMAIN MessageWriter <=> CountableAs("message", object)
  BY <1>1 DEF CountableAs
<1> QED BY <1>1, <1>2, <1>3, <1>4, <1>5, <1>6, MessageCodes DEF FormatIs, Codes

LEMMA BatchFormat == FormatIs("batch", BatchReader, BatchWriter, Seq(ReadableProof))
<1>1. DOMAIN BatchWriter = Seq(ProofRecord) /\ \A s \in Seq(ProofRecord) : BatchWriter[s] = EncodeBatch(s)
  BY DEF BatchWriter
<1>2. \A s : EncodeAs("batch", s) = EncodeBatch(s)
  BY DEF EncodeAs
<1>3. ASSUME NEW s \in Seq(ProofRecord) PROVE s \in Seq(ReadableProof) <=> ReadableAs("batch", s)
  <2>1. DOMAIN s = 1..Len(s) /\ \A i \in 1..Len(s) : s[i] \in ProofRecord
    BY ElementsOf
  <2>2. s \in Seq(ReadableProof) <=> \A i \in 1..Len(s) : s[i] \in ReadableProof
    BY SeqOfElements
  <2>3. ASSUME NEW p \in ProofRecord
        PROVE  p \in ReadableProof <=> Len(p.L1) <= BatchLimit /\ Len(p.L2) <= BatchLimit
    <3>1. p.L1 \in PathRecord /\ p.L2 \in PathRecord
      BY DEF ProofRecord
    <3> QED BY <3>1 DEF ReadableProof, ReadableLongPath
  <2>4. ReadableAs("batch", s) <=>
          \A i \in DOMAIN s : Len(s[i].L1) <= BatchLimit /\ Len(s[i].L2) <= BatchLimit
    BY DEF ReadableAs
  <2> QED BY <2>1, <2>2, <2>3, <2>4
<1>4. \A u : DecodeAs("batch", u) = IF BatchReader[u].ok THEN <<BatchReader[u].value>> ELSE Refused
  BY DEF DecodeAs, DecodeBatch, BatchReader, Taken
<1>5. Gives(BatchReader, DOMAIN BatchWriter)
  BY <1>1, BatchGives
<1>6. \A object : object \in DOMAIN BatchWriter <=> CountableAs("batch", object)
  BY <1>1 DEF CountableAs
<1> QED BY <1>1, <1>2, <1>3, <1>4, <1>5, <1>6, BatchDecodes DEF FormatIs

LEMMA FormatOf ==
  ASSUME NEW s \in Sendable
  PROVE  \E R, W, V : FormatIs(s[1], R, W, V)
<1>1. s[1] \in {"bundle", "message", "batch"}
  BY DEF Sendable
<1> QED BY <1>1, BundleFormat, MessageFormat, BatchFormat

LEMMA SentWhole ==
  ASSUME NEW f, NEW R, NEW W, NEW V, FormatIs(f, R, W, V), NEW o \in DOMAIN W
  PROVE  DecodeAs(f, EncodeAs(f, o)) = IF ReadableAs(f, o) THEN <<o>> ELSE Refused
<1>1. PICK e : e = EncodeAs(f, o) /\ e = W[o] /\ e \in Units
  BY WritesUnits DEF FormatIs
<1>2. DecodeAs(f, e) = IF R[e].ok /\ (f = "batch" \/ R[e].rest = << >>) THEN <<R[e].value>> ELSE Refused
  BY <1>1 DEF FormatIs
<1>3. o \in V <=> ReadableAs(f, o)
  BY DEF FormatIs
<1>4. CASE o \in V
  <2>1. Reads(R, e, o)
    BY <1>1, <1>4 DEF FormatIs, Decodes
  <2>2. R[e] = Done(o, << >>)
    BY <2>1, ReadsAll
  <2>3. R[e].ok
    BY <2>2, DoneOk
  <2>4. R[e].value = o /\ R[e].rest = << >>
    BY <2>2, DoneIs
  <2> QED BY <1>1, <1>2, <1>3, <1>4, <2>3, <2>4
<1>5. CASE o \notin V
  <2>1. Refuses(R, e)
    BY <1>1, <1>5 DEF FormatIs, Decodes
  <2>2. ~R[e].ok
    <3>1. e \o << >> = e /\ << >> \in Units
      BY <1>1, NoUnits
    <3>2. ~R[e \o << >>].ok
      BY <2>1, <3>1 DEF Refuses
    <3> QED BY <3>1, <3>2
  <2> QED BY <1>1, <1>2, <1>3, <1>5, <2>2
<1> QED BY <1>4, <1>5

LEMMA SentUncounted ==
  ASSUME NEW f, NEW R, NEW W, NEW V, FormatIs(f, R, W, V), NEW o, o \notin DOMAIN W,
         NEW u \in Units
  PROVE  DecodeAs(f, u) # <<o>>
<1> SUFFICES ASSUME R[u].ok PROVE <<R[u].value>> # <<o>>
  BY DEF FormatIs, Refused
<1>1. R[u].value \in DOMAIN W
  BY DEF FormatIs, Gives
<1>2. R[u].value # o
  BY <1>1
<1> QED BY <1>2

LEMMA SentCut ==
  ASSUME NEW f, NEW R, NEW W, NEW V, FormatIs(f, R, W, V), NEW o \in DOMAIN W,
         NEW w \in Units, NEW q \in Units, q # << >>, EncodeAs(f, o) = w \o q
  PROVE  DecodeAs(f, w) = Refused
<1>1. W[o] = w \o q /\ Local(R)
  BY DEF FormatIs
<1>2. Reads(R, w \o q, o) \/ Refuses(R, w \o q)
  BY <1>1 DEF FormatIs, Decodes
<1>3. ~R[w].ok
  BY <1>1, <1>2, CutIsNoticed
<1> QED BY <1>3 DEF FormatIs

LEMMA SentExtended ==
  ASSUME NEW f, NEW R, NEW W, NEW V, FormatIs(f, R, W, V), NEW o \in DOMAIN W,
         NEW w \in Units, NEW q \in Units, q # << >>, w = EncodeAs(f, o) \o q
  PROVE  DecodeAs(f, w) = IF f = "batch" /\ ReadableAs(f, o) THEN <<o>> ELSE Refused
<1>1. PICK e : e = EncodeAs(f, o) /\ e = W[o] /\ e \in Units /\ w = e \o q
  BY WritesUnits DEF FormatIs
<1>2. DecodeAs(f, w) = IF R[w].ok /\ (f = "batch" \/ R[w].rest = << >>) THEN <<R[w].value>> ELSE Refused
  BY DEF FormatIs
<1>3. o \in V <=> ReadableAs(f, o)
  BY DEF FormatIs
<1>4. CASE o \in V
  <2>1. Reads(R, e, o)
    BY <1>1, <1>4 DEF FormatIs, Decodes
  <2>2. R[w] = Done(o, q)
    BY <1>1, <2>1 DEF Reads
  <2>3. R[w].ok
    BY <2>2, DoneOk
  <2>4. R[w].value = o /\ R[w].rest = q
    BY <2>2, DoneIs
  <2> QED BY <1>2, <1>3, <1>4, <2>3, <2>4
<1>5. CASE o \notin V
  <2>1. Refuses(R, e)
    BY <1>1, <1>5 DEF FormatIs, Decodes
  <2>2. ~R[w].ok
    BY <1>1, <2>1 DEF Refuses
  <2> QED BY <1>2, <1>3, <1>5, <2>2
<1> QED BY <1>4, <1>5

LEMMA AcceptedAgain ==
  ASSUME NEW f, f # "batch", NEW R, NEW W, NEW V, FormatIs(f, R, W, V),
         NEW w \in Units, DecodeAs(f, w) # Refused, NEW e, e = EncodeAs(f, DecodeAs(f, w)[1])
  PROVE  Len(e) = Len(w) /\ DecodeAs(f, e) = DecodeAs(f, w)
<1>1. R[w].ok /\ R[w].rest = << >> /\ DecodeAs(f, w) = <<R[w].value>>
  BY DEF FormatIs
<1>2. PICK o : o = R[w].value
  OBVIOUS
<1>3. o \in V /\ o \in DOMAIN W /\ Again(R, w, W[o])
  BY <1>1, <1>2 DEF FormatIs, Reencodes
<1>4. e = W[o]
  <2>1. DecodeAs(f, w)[1] = o
    BY <1>1, <1>2
  <2> QED BY <1>3, <2>1 DEF FormatIs
<1>5. Reads(R, e, o) /\ Len(e) = Len(w) - Len(R[w].rest)
  BY <1>2, <1>3, <1>4 DEF Again
<1>6. Len(R[w].rest) = 0 /\ Len(w) \in Nat
  BY <1>1, NoUnits, ConcatUnits
<1>7. R[e] = Done(o, << >>) /\ e \in Units
  BY <1>5, ReadsAll DEF Reads
<1>8. R[e].ok
  BY <1>7, DoneOk
<1>9. R[e].value = o /\ R[e].rest = << >>
  BY <1>7, DoneIs
<1>10. DecodeAs(f, e) = <<o>>
  BY <1>7, <1>8, <1>9 DEF FormatIs
<1> QED BY <1>1, <1>2, <1>5, <1>6, <1>10

-----------------------------------------------------------------------------
(***************************************************************************)
(* The inductive invariant: what has become of the encoding                *)
(***************************************************************************)
Kinds == {"cut", "extended", "altered"}

\* w is a part of e that lacks its end; w is e and something after it.
Shortened(w, e) == \E q \in Units : q # << >> /\ e = w \o q
Lengthened(w, e) == \E q \in Units : q # << >> /\ w = e \o q

WireInv ==
  /\ sent \in Sendable /\ wire \in Units /\ damage \in Seq(Kinds)
  /\ damage = << >> => wire = EncodeAs(sent[1], sent[2])
  /\ damage # << >> /\ damage[1] = "cut" => Shortened(wire, EncodeAs(sent[1], sent[2]))
  /\ damage # << >> /\ damage[1] = "extended" => Lengthened(wire, EncodeAs(sent[1], sent[2]))

LEMMA EncodingUnits == ASSUME NEW s \in Sendable PROVE EncodeAs(s[1], s[2]) \in Units
BY WireAssumption

TwoPieces(w, n, p, q) ==
  /\ Len(p) = n /\ Len(p) + Len(q) = Len(w)
  /\ \A i \in 1..n : p[i] = w[i]
  /\ \A j \in 1..Len(q) : q[j] = w[n + j]

LEMMA PiecesOf ==
  ASSUME NEW w \in Units, NEW n \in Nat, NEW l \in Nat, n + l = Len(w)
  PROVE  \E q \in Units : SubSeq(w, 1, n) \in Units /\ Len(q) = l /\ TwoPieces(w, n, SubSeq(w, 1, n), q)
<1>1. PICK p : p = SubSeq(w, 1, n)
  OBVIOUS
<1>2. p \in Units /\ Len(p) = n /\ \A i \in 1..n : p[i] = w[i]
  BY <1>1 DEF Units
<1>3. PICK q : q = [i \in 1..l |-> w[n + i]]
  OBVIOUS
<1>4. q \in Units /\ Len(q) = l /\ \A i \in 1..l : q[i] = w[n + i]
  <2>1. \A i \in 1..l : w[n + i] \in Nat
    BY DEF Units
  <2> QED BY <1>3, <2>1 DEF Units
<1>5. TwoPieces(w, n, p, q)
  BY <1>2, <1>4 DEF TwoPieces
<1> QED BY <1>1, <1>2, <1>4, <1>5

LEMMA PiecesJoined ==
  ASSUME NEW w \in Units, NEW p \in Units, NEW q \in Units, NEW n, TwoPieces(w, n, p, q)
  PROVE  w = p \o q
<1>1. /\ p \o q \in Seq(Nat) /\ w \in Seq(Nat) /\ Len(p \o q) = Len(w) /\ Len(w) \in Nat
      /\ n \in Nat /\ n = Len(p) /\ Len(q) \in Nat /\ n + Len(q) = Len(w)
  BY ConcatUnits DEF TwoPieces, Units
<1>2. ASSUME NEW i \in 1..Len(w) PROVE (p \o q)[i] = w[i]
  <2>1. CASE i <= n
    BY <1>1, <2>1 DEF Units, TwoPieces
  <2>2. CASE i > n
    <3>1. PICK j \in 1..Len(q) : i = n + j
      <4>1. i - n \in 1..Len(q) /\ i = n + (i - n)
        BY <1>1, <2>2
      <4> QED BY <4>1
    <3>2. (p \o q)[i] = q[j]
      BY <1>1, <3>1 DEF Units
    <3> QED BY <3>1, <3>2 DEF TwoPieces
  <2> QED BY <1>1, <2>1, <2>2
<1> QED BY <1>1, <1>2, SeqEqual

LEMMA CutUnits ==
  ASSUME NEW w \in Units, NEW length \in 0..(Len(w) - 1)
  PROVE  SubSeq(w, 1, length) \in Units /\ Shortened(SubSeq(w, 1, length), w)
<1>1. PICK n \in Nat, l \in Nat : n = length /\ l # 0 /\ n + l = Len(w)
  <2>1. Len(w) \in Nat
    BY ConcatUnits, NoUnits
  <2>2. length \in Nat /\ Len(w) - length \in Nat /\ Len(w) - length # 0 /\ length + (Len(w) - length) = Len(w)
    BY <2>1
  <2> QED BY <2>2, Zenon
<1>2. PICK p : p = SubSeq(w, 1, n)
  OBVIOUS
<1>3. PICK q \in Units : p \in Units /\ Len(q) = l /\ TwoPieces(w, n, p, q)
  <2>1. \E q \in Units : SubSeq(w, 1, n) \in Units /\ Len(q) = l /\ TwoPieces(w, n, SubSeq(w, 1, n), q)
    BY <1>1, PiecesOf
  <2> QED BY <1>2, <2>1
<1>4. w = p \o q
  BY <1>3, PiecesJoined
<1>5. q # << >>
  BY <1>1, <1>3, NoUnits
<1>6. Shortened(p, w)
  BY <1>3, <1>4, <1>5 DEF Shortened
<1>7. p = SubSeq(w, 1, length)
  BY <1>1, <1>2
<1> QED BY <1>3, <1>6, <1>7

LEMMA CutAgain ==
  ASSUME NEW w \in Units, NEW x \in Units, NEW e, Shortened(x, w), Shortened(w, e)
  PROVE  Shortened(x, e)
<1>1. PICK q \in Units : q # << >> /\ w = x \o q
  BY DEF Shortened
<1>2. PICK r \in Units : r # << >> /\ e = w \o r
  BY DEF Shortened
<1>3. e = x \o (q \o r) /\ q \o r \in Units /\ Len(q \o r) = Len(q) + Len(r) /\ Len(q) \in Nat /\ Len(r) \in Nat
  <2>1. e = (x \o q) \o r
    BY <1>1, <1>2
  <2>2. (x \o q) \o r = x \o (q \o r)
    BY ConcatThree, Zenon
  <2>3. q \o r \in Units /\ Len(q \o r) = Len(q) + Len(r) /\ Len(q) \in Nat
    BY ConcatUnits
  <2>4. Len(r) \in Nat
    BY ConcatUnits
  <2> QED BY <2>1, <2>2, <2>3, <2>4
<1>4. q \o r # << >>
  BY <1>1, <1>3, NoUnits
<1> QED BY <1>3, <1>4 DEF Shortened

LEMMA ExtendUnits ==
  ASSUME NEW w \in Units, NEW n \in Nat
  PROVE  Append(w, n) \in Units /\ Lengthened(Append(w, n), w)
<1>1. Append(w, n) \in Units /\ Append(w, n) = w \o <<n>>
  BY DEF Units
<1>2. <<n>> \in Units /\ <<n>> # << >>
  BY CountFirst, NoUnits
<1> QED BY <1>1, <1>2 DEF Lengthened

LEMMA ExtendAgain ==
  ASSUME NEW w \in Units, NEW e \in Units, NEW x, Lengthened(x, w), Lengthened(w, e)
  PROVE  Lengthened(x, e)
<1>1. PICK q \in Units : q # << >> /\ x = w \o q
  BY DEF Lengthened
<1>2. PICK r \in Units : r # << >> /\ w = e \o r
  BY DEF Lengthened
<1>3. x = e \o (r \o q) /\ r \o q \in Units /\ Len(r \o q) = Len(r) + Len(q) /\ Len(q) \in Nat /\ Len(r) \in Nat
  <2>1. x = (e \o r) \o q
    BY <1>1, <1>2
  <2>2. (e \o r) \o q = e \o (r \o q)
    BY ConcatThree
  <2>3. r \o q \in Units /\ Len(r \o q) = Len(r) + Len(q) /\ Len(r) \in Nat
    BY ConcatUnits
  <2>4. Len(q) \in Nat
    BY ConcatUnits
  <2> QED BY <2>1, <2>2, <2>3, <2>4
<1>4. r \o q # << >>
  BY <1>1, <1>3, NoUnits
<1> QED BY <1>3, <1>4 DEF Lengthened

LEMMA OneKind ==
  ASSUME WireInv, NEW kind \in Kinds, Damaged(kind)
  PROVE  /\ damage' \in Seq(Kinds) /\ damage' # << >> /\ damage'[1] = kind /\ sent' = sent
         /\ damage = << >> \/ (damage # << >> /\ damage[1] = kind)
<1>1. damage \in Seq(Kinds) /\ damage' = Append(damage, kind) /\ sent' = sent
  BY DEF WireInv, Damaged
<1>2. damage' \in Seq(Kinds) /\ damage' # << >> /\ DOMAIN damage = 1..Len(damage) /\ Len(damage) \in Nat
  BY <1>1
<1>3. CASE damage = << >>
  BY <1>1, <1>2, <1>3
<1>4. CASE damage # << >>
  <2>1. 1 \in DOMAIN damage
    BY <1>1, <1>2, <1>4
  <2>2. damage[1] = kind /\ damage'[1] = damage[1]
    BY <1>1, <2>1 DEF Damaged
  <2> QED BY <1>1, <1>2, <1>4, <2>2
<1> QED BY <1>3, <1>4

LEMMA WireInitInv == WireInit => WireInv
<1> SUFFICES ASSUME WireInit PROVE WireInv
  OBVIOUS
<1>1. sent \in Sendable /\ wire = EncodeAs(sent[1], sent[2]) /\ damage = << >>
  BY DEF WireInit
<1>2. wire \in Units
  BY <1>1, EncodingUnits
<1> QED BY <1>1, <1>2 DEF WireInv

LEMMA CutInv ==
  ASSUME WireInv, NEW length \in 0..(Len(wire) - 1), Cut(length)
  PROVE  WireInv'
<1>1. Damaged("cut") /\ wire' = SubSeq(wire, 1, length) /\ "cut" \in Kinds
  BY DEF Cut, Kinds
<1>2. /\ damage' \in Seq(Kinds) /\ damage' # << >> /\ damage'[1] = "cut" /\ sent' = sent
      /\ damage = << >> \/ (damage # << >> /\ damage[1] = "cut")
  BY <1>1, OneKind
<1>3. PICK e : e = EncodeAs(sent[1], sent[2]) /\ e = EncodeAs(sent'[1], sent'[2])
  BY <1>2
<1>4. wire \in Units /\ sent \in Sendable
  BY DEF WireInv
<1>5. wire' \in Units /\ Shortened(wire', wire)
  BY <1>1, <1>4, CutUnits
<1>6. wire = e \/ Shortened(wire, e)
  BY <1>2, <1>3 DEF WireInv
<1>7. Shortened(wire', e)
  BY <1>4, <1>5, <1>6, CutAgain
<1> QED BY <1>2, <1>3, <1>4, <1>5, <1>7 DEF WireInv

LEMMA ExtendInv ==
  ASSUME WireInv, NEW unit \in Noise, Extend(unit)
  PROVE  WireInv'
<1>1. Damaged("extended") /\ wire' = Append(wire, unit) /\ "extended" \in Kinds
  BY DEF Extend, Kinds
<1>2. /\ damage' \in Seq(Kinds) /\ damage' # << >> /\ damage'[1] = "extended" /\ sent' = sent
      /\ damage = << >> \/ (damage # << >> /\ damage[1] = "extended")
  BY <1>1, OneKind
<1>4. wire \in Units /\ sent \in Sendable
  BY DEF WireInv
<1>3. PICK e \in Units : e = EncodeAs(sent[1], sent[2]) /\ e = EncodeAs(sent'[1], sent'[2])
  BY <1>2, <1>4, EncodingUnits
<1>5. wire' \in Units /\ Lengthened(wire', wire)
  BY <1>1, <1>4, ExtendUnits, WireAssumption
<1>6. wire = e \/ Lengthened(wire, e)
  BY <1>2, <1>3 DEF WireInv
<1>7. Lengthened(wire', e)
  BY <1>4, <1>5, <1>6, ExtendAgain
<1> QED BY <1>2, <1>3, <1>4, <1>5, <1>7 DEF WireInv

LEMMA AlterInv ==
  ASSUME WireInv, NEW i \in DOMAIN wire, NEW unit \in Noise, Alter(i, unit)
  PROVE  WireInv'
<1>1. Damaged("altered") /\ wire' = [wire EXCEPT ![i] = unit] /\ "altered" \in Kinds
  BY DEF Alter, Kinds
<1>2. damage' \in Seq(Kinds) /\ damage' # << >> /\ damage'[1] = "altered" /\ sent' = sent
  BY <1>1, OneKind
<1>3. wire \in Units /\ sent \in Sendable /\ unit \in Nat
  BY WireAssumption DEF WireInv
<1>4. wire' \in Units
  BY <1>1, <1>3 DEF Units
<1> QED BY <1>2, <1>3, <1>4 DEF WireInv

\* On a wire that was only cut, a beginning of the encoding is left, and on one
\* that was only extended the encoding stands at the front: Cut, Extend, Alter.
THEOREM WireKeepsItsEncoding == WireSpec => []WireInv
<1>1. WireInit => WireInv
  BY WireInitInv
<1>2. WireInv /\ [WireNext]_wireVars => WireInv'
  <2> SUFFICES ASSUME WireInv, [WireNext]_wireVars PROVE WireInv'
    OBVIOUS
  <2>1. CASE \E length \in 0..(Len(wire) - 1) : Cut(length)
    BY <2>1, CutInv
  <2>2. CASE \E unit \in Noise : Extend(unit)
    BY <2>2, ExtendInv
  <2>3. CASE \E i \in DOMAIN wire, unit \in Noise : Alter(i, unit)
    BY <2>3, AlterInv
  <2>4. CASE UNCHANGED wireVars
    BY <2>4 DEF WireInv, wireVars
  <2> QED BY <2>1, <2>2, <2>3, <2>4 DEF WireNext
<1> QED BY <1>1, <1>2, PTL DEF WireSpec

\* Serialize and Deserialize, Encode and DecodeMessage, EncodeBatch and
\* DecodeBatch: every object whose lists fit their counts arrives undamaged as
\* it was sent, or is refused for a path that the reader does not take; one
\* with a longer list is never taken for what was sent.
THEOREM ArrivesAsSent == WireSpec => []RoundTrip
<1>1. ASSUME WireInv PROVE RoundTrip
  <2> SUFFICES ASSUME damage = << >>
               PROVE  IF Countable THEN Received = IF Readable THEN <<sent[2]>> ELSE Refused
                      ELSE Received # <<sent[2]>>
    BY DEF RoundTrip, Undamaged
  <2>1. PICK s \in Sendable, e \in Units : s = sent /\ e = EncodeAs(s[1], s[2]) /\ wire = e
    BY <1>1 DEF WireInv
  <2>2. PICK R, W, V : FormatIs(s[1], R, W, V)
    BY FormatOf
  <2>3. Received = DecodeAs(s[1], e) /\ (Countable <=> s[2] \in DOMAIN W)
    BY <2>1, <2>2 DEF Received, Format, Countable, FormatIs
  <2>4. CASE Countable
    <3>1. DecodeAs(s[1], EncodeAs(s[1], s[2])) = IF ReadableAs(s[1], s[2]) THEN <<s[2]>> ELSE Refused
      BY <2>2, <2>3, <2>4, SentWhole
    <3> QED BY <2>1, <2>3, <2>4, <3>1 DEF Readable
  <2>5. CASE ~Countable
    <3>1. DecodeAs(s[1], e) # <<s[2]>>
      BY <2>1, <2>2, <2>3, <2>5, SentUncounted
    <3> QED BY <2>1, <2>3, <2>5, <3>1
  <2> QED BY <2>4, <2>5
<1> QED BY <1>1, WireKeepsItsEncoding, PTL

\* take's bound and the test for trailing bytes (A3), at any cut of any object
\* whose lists fit their counts, and with anything after it.
THEOREM DamageIsNoticed == WireSpec => []CutOrExtendedIsNoticed
<1>1. ASSUME WireInv PROVE CutOrExtendedIsNoticed
  <2> SUFFICES ASSUME Countable, damage # << >>, damage[1] # "altered"
               PROVE  Received = IF Format = "batch" /\ damage[1] = "extended" /\ Readable
                                 THEN <<sent[2]>> ELSE Refused
    BY DEF CutOrExtendedIsNoticed, Undamaged
  <2>1. PICK s \in Sendable, e \in Units, w \in Units : s = sent /\ e = EncodeAs(s[1], s[2]) /\ w = wire
    <3>1. sent \in Sendable /\ wire \in Units
      BY <1>1 DEF WireInv
    <3> QED BY <3>1, EncodingUnits
  <2>2. PICK R, W, V : FormatIs(s[1], R, W, V) /\ s[2] \in DOMAIN W
    BY <2>1, FormatOf DEF Countable, FormatIs
  <2>3. damage[1] \in Kinds
    BY <1>1 DEF WireInv
  <2>4. CASE damage[1] = "cut"
    <3>1. Shortened(w, e)
      BY <1>1, <2>1, <2>4 DEF WireInv
    <3>2. PICK q \in Units : q # << >> /\ e = w \o q
      BY <3>1 DEF Shortened
    <3>3. DecodeAs(s[1], w) = Refused
      BY <2>1, <2>2, <3>2, SentCut
    <3> QED BY <2>1, <2>4, <3>3 DEF Received, Format
  <2>5. CASE damage[1] = "extended"
    <3>1. Lengthened(w, e)
      BY <1>1, <2>1, <2>5 DEF WireInv
    <3>2. PICK q \in Units : q # << >> /\ w = e \o q
      BY <3>1 DEF Lengthened
    <3>3. DecodeAs(s[1], w) = IF s[1] = "batch" /\ ReadableAs(s[1], s[2]) THEN <<s[2]>> ELSE Refused
      BY <2>1, <2>2, <3>2, SentExtended
    <3> QED BY <2>1, <2>5, <3>3 DEF Received, Format, Readable
  <2> QED BY <2>3, <2>4, <2>5 DEF Kinds
<1> QED BY <1>1, WireKeepsItsEncoding, PTL

\* Deserialize and DecodeMessage: whatever units they accept, damaged or not,
\* the object they give is written in as many and read back the same.
THEOREM AcceptedMayBePassedOn == WireSpec => []AcceptedIsReencodable
<1>1. ASSUME WireInv PROVE AcceptedIsReencodable
  <2> SUFFICES ASSUME Format # "batch", Received # Refused,
                      NEW e, e = EncodeAs(Format, Received[1])
               PROVE  Len(e) = Len(wire) /\ DecodeAs(Format, e) = Received
    BY DEF AcceptedIsReencodable
  <2>1. PICK s \in Sendable, w \in Units : s = sent /\ w = wire
    BY <1>1 DEF WireInv
  <2>2. PICK R, W, V : FormatIs(s[1], R, W, V)
    BY FormatOf
  <2>3. Received = DecodeAs(s[1], w) /\ Format = s[1]
    BY <2>1 DEF Received, Format
  <2> QED BY <2>1, <2>2, <2>3, AcceptedAgain
<1> QED BY <1>1, WireKeepsItsEncoding, PTL

-----------------------------------------------------------------------------
(***************************************************************************)
(* Readers by offsets: DecodeBatch against VerifyWire                      *)
(***************************************************************************)
\* The units from the o-th on.
From(u, o) == SubSeq(u, o, Len(u))

LEMMA FromIs ==
  ASSUME NEW u \in Units, NEW o \in Nat, 1 <= o, o <= Len(u) + 1
  PROVE  /\ From(u, o) \in Units /\ Len(From(u, o)) = Len(u) + 1 - o
         /\ \A i \in 1..(Len(u) + 1 - o) : From(u, o)[i] = u[o + i - 1]
<1>1. u \in Seq(Nat) /\ Len(u) \in Nat
  BY DEF Units
<1>2. From(u, o) = [i \in 1..(Len(u) - o + 1) |-> u[i + o - 1]]
  BY <1>1 DEF From
<1>3. \A i \in 1..(Len(u) - o + 1) : u[i + o - 1] \in Nat
  BY <1>1
<1>4. From(u, o) \in Seq(Nat) /\ Len(From(u, o)) = Len(u) + 1 - o
  BY <1>1, <1>2, <1>3, IsASeq
<1>5. \A i \in 1..(Len(u) + 1 - o) : From(u, o)[i] = u[o + i - 1]
  BY <1>1, <1>2
<1> QED BY <1>4, <1>5 DEF Units

LEMMA FromNext ==
  ASSUME NEW u \in Units, NEW o \in Nat, 1 <= o
  PROVE  /\ o <= Len(u) => /\ From(u, o) \in Units /\ From(u, o) # << >> /\ u[o] \in Nat
                           /\ Head(From(u, o)) = u[o] /\ Tail(From(u, o)) = From(u, o + 1)
         /\ o = Len(u) + 1 => From(u, o) = << >>
<1>1. u \in Seq(Nat) /\ Len(u) \in Nat
  BY DEF Units
<1>2. ASSUME o <= Len(u)
      PROVE  /\ From(u, o) \in Units /\ From(u, o) # << >> /\ u[o] \in Nat
             /\ Head(From(u, o)) = u[o] /\ Tail(From(u, o)) = From(u, o + 1)
  <2>1. From(u, o) \in Units /\ Len(From(u, o)) # 0
    BY <1>1, <1>2, FromIs
  <2>2. o \in 1..Len(u) /\ Len(u) \in o..Len(u)
    BY <1>1, <1>2
  <2>3. Head(From(u, o)) = u[o] /\ Tail(From(u, o)) = From(u, o + 1)
    BY <1>1, <2>2, HeadTailOfSubSeq DEF From
  <2> QED BY <1>1, <2>1, <2>2, <2>3, NoUnits
<1>3. ASSUME o = Len(u) + 1 PROVE From(u, o) = << >>
  <2>1. From(u, o) \in Units /\ Len(From(u, o)) = 0
    BY <1>1, <1>3, FromIs
  <2> QED BY <2>1, NoUnits
<1> QED BY <1>2, <1>3

LEMMA FromFirst == \A u \in Units : From(u, 1) = u
<1> SUFFICES ASSUME NEW u \in Units PROVE From(u, 1) = u
  OBVIOUS
<1>1. u \in Seq(Nat) /\ Len(u) \in Nat
  BY DEF Units
<1>2. From(u, 1) \in Seq(Nat) /\ Len(From(u, 1)) = Len(u) /\ \A i \in 1..Len(u) : From(u, 1)[i] = u[1 + i - 1]
  BY <1>1, FromIs DEF Units
<1> QED BY <1>1, <1>2, SeqEqual

\* From w[i - 1] the i-th reader reads v[i], and leaves w[i].
Walk(rs, m, w, v) ==
  /\ \A i \in 0..m : w[i] \in Units
  /\ \A i \in 1..m : rs[i][w[i - 1]] = Done(v[i], w[i])

LEMMA EachWalks ==
  ASSUME NEW rs, NEW n \in Nat, Len(rs) = n, NEW m \in 0..n, NEW w, NEW v, Walk(rs, m, w, v)
  PROVE  /\ m = n => Each(rs)[w[0]] = Done(FirstOf(v, n), w[n])
         /\ m < n /\ ~rs[m + 1][w[m]].ok => ~Each(rs)[w[0]].ok
<1>1. PICK r : /\ Each(rs) = r[n] /\ r[0] = Nothing
               /\ \A i \in 1..n : r[i] = Both(r[i - 1], rs[i])
  BY EachIs
<1>2. PICK u \in Units : u = w[0]
  BY DEF Walk
<1> DEFINE S == {k \in Nat : k <= m => r[k][u] = Done(FirstOf(v, k), w[k])}
<1>3. 0 \in S
  <2>1. r[0][u] = Done(<< >>, u)
    BY <1>1 DEF Nothing
  <2>2. FirstOf(v, 0) = << >>
    BY DEF FirstOf
  <2> QED BY <1>2, <2>1, <2>2
<1>4. ASSUME NEW k \in Nat, k \in S PROVE k + 1 \in S
  <2> SUFFICES ASSUME k + 1 <= m PROVE r[k + 1][u] = Done(FirstOf(v, k + 1), w[k + 1])
    OBVIOUS
  <2>1. r[k][u] = Done(FirstOf(v, k), w[k])
    BY <1>4
  <2>2. PICK i \in 1..m : i = k + 1 /\ i - 1 = k /\ i \in 1..n
    <3>1. k + 1 \in 1..m /\ k + 1 \in 1..n /\ (k + 1) - 1 = k
      OBVIOUS
    <3> QED BY <3>1
  <2>3. rs[i][w[k]] = Done(v[i], w[i])
    BY <2>2 DEF Walk
  <2>4. r[i] = Both(r[k], rs[i])
    BY <1>1, <2>2
  <2>5. r[k][u].value = FirstOf(v, k) /\ r[k][u].rest = w[k]
    BY <2>1, DoneIs
  <2>6. r[k][u].ok
    BY <2>1, DoneOk
  <2>7. rs[i][w[k]].value = v[i] /\ rs[i][w[k]].rest = w[i]
    BY <2>3, DoneIs
  <2>8. rs[i][w[k]].ok
    BY <2>3, DoneOk
  <2>9. r[i][u] = Done(Append(FirstOf(v, k), v[i]), w[i])
    BY <2>4, <2>5, <2>6, <2>7, <2>8, BothIs
  <2>10. FirstOf(v, k + 1) = Append(FirstOf(v, k), v[k + 1])
    BY FirstOfNext
  <2> QED BY <2>2, <2>9, <2>10
<1>5. \A k \in Nat : k \in S
  <2> HIDE DEF S
  <2> QED BY <1>3, <1>4, Induction
<1>6. r[m][u] = Done(FirstOf(v, m), w[m])
  BY <1>5
<1>7. CASE m = n
  BY <1>1, <1>2, <1>6, <1>7
<1>8. ASSUME m < n, ~rs[m + 1][w[m]].ok PROVE ~Each(rs)[w[0]].ok
  <2> DEFINE T == {k \in Nat : m < k /\ k <= n => ~r[k][u].ok}
  <2>1. 0 \in T
    OBVIOUS
  <2>2. ASSUME NEW k \in Nat, k \in T PROVE k + 1 \in T
    <3> SUFFICES ASSUME m < k + 1, k + 1 <= n PROVE ~r[k + 1][u].ok
      OBVIOUS
    <3>1. PICK i \in 1..n : i = k + 1 /\ i - 1 = k
      <4>1. k + 1 \in 1..n /\ (k + 1) - 1 = k
        OBVIOUS
      <4> QED BY <4>1
    <3>2. r[i] = Both(r[k], rs[i])
      BY <1>1, <3>1
    <3>3. CASE k = m
      <4>1. r[k][u].rest = w[m]
        BY <1>6, <3>3, DoneIs
      <4>2. ~rs[i][r[k][u].rest].ok
        BY <1>8, <3>1, <3>3, <4>1
      <4>3. r[i][u] = Truncated
        BY <3>2, <4>2, BothIs
      <4> QED BY <3>1, <4>3, TruncatedIs
    <3>4. CASE k # m
      <4>1. ~r[k][u].ok
        BY <2>2, <3>4
      <4>2. r[i][u] = Truncated
        BY <3>2, <4>1, BothIs
      <4> QED BY <3>1, <4>2, TruncatedIs
    <3> QED BY <3>3, <3>4
  <2>3. \A k \in Nat : k \in T
    <3> HIDE DEF T
    <3> QED BY <2>1, <2>2, Induction
  <2>4. ~r[n][u].ok
    BY <1>8, <2>3
  <2> QED BY <1>1, <1>2, <2>4
<1> QED BY <1>7, <1>8

LEMMA EachArrives ==
  ASSUME NEW rs, NEW n \in Nat, Len(rs) = n, NEW w, NEW v, Walk(rs, n, w, v)
  PROVE  Each(rs)[w[0]] = Done(FirstOf(v, n), w[n])
<1>1. PICK m \in 0..n : m = n
  OBVIOUS
<1>2. Walk(rs, m, w, v)
  BY <1>1
<1>3. m = n => Each(rs)[w[0]] = Done(FirstOf(v, n), w[n])
  BY <1>2, EachWalks
<1> QED BY <1>1, <1>3

LEMMA EachStops ==
  ASSUME NEW rs, NEW n \in Nat, Len(rs) = n, NEW m \in Nat, m < n,
         NEW w, NEW v, Walk(rs, m, w, v), ~rs[m + 1][w[m]].ok
  PROVE  ~Each(rs)[w[0]].ok
<1>1. m \in 0..n
  OBVIOUS
<1> QED BY <1>1, EachWalks

LEMMA UnitAt ==
  ASSUME NEW u \in Units, NEW o \in Nat, 1 <= o, o <= Len(u) + 1
  PROVE  /\ o <= Len(u) => Unit[From(u, o)] = Done(u[o], From(u, o + 1))
         /\ o > Len(u) => ~Unit[From(u, o)].ok
<1>1. Len(u) \in Nat /\ From(u, o) \in Units
  BY FromIs, ConcatUnits, NoUnits
<1>2. ASSUME o <= Len(u) PROVE Unit[From(u, o)] = Done(u[o], From(u, o + 1))
  <2>1. PICK x \in Units : x = From(u, o) /\ x # << >> /\ Head(x) = u[o] /\ Tail(x) = From(u, o + 1)
    BY <1>2, FromNext
  <2>2. Unit[x] = Done(Head(x), Tail(x))
    BY <2>1 DEF Unit
  <2> QED BY <2>1, <2>2
<1>3. ASSUME o > Len(u) PROVE ~Unit[From(u, o)].ok
  <2>1. From(u, o) = << >>
    BY <1>1, <1>3, FromNext
  <2>2. Unit[<< >>] = Truncated
    BY NoUnits DEF Unit
  <2> QED BY <2>1, <2>2, TruncatedIs
<1> QED BY <1>2, <1>3

LEMMA FlagAt ==
  ASSUME NEW u \in Units, NEW o \in Nat, 1 <= o, o <= Len(u) + 1, NEW c, c = (u[o] = 1)
  PROVE  /\ o <= Len(u) => Flag[From(u, o)] = Done(c, From(u, o + 1))
         /\ o > Len(u) => ~Flag[From(u, o)].ok
<1>1. Len(u) \in Nat /\ From(u, o) \in Units
  BY FromIs, ConcatUnits, NoUnits
<1>2. ASSUME o <= Len(u) PROVE Flag[From(u, o)] = Done(c, From(u, o + 1))
  <2>1. PICK x \in Units : x = From(u, o) /\ x # << >> /\ Head(x) = u[o] /\ Tail(x) = From(u, o + 1)
    BY <1>2, FromNext
  <2>2. Flag[x] = IF x = << >> THEN Truncated ELSE Done(Head(x) = 1, Tail(x))
    BY Zenon DEF Flag
  <2>3. c = (Head(x) = 1)
    BY <2>1, Zenon
  <2>4. Flag[x] = Done(c, Tail(x))
    BY <2>1, <2>2, <2>3, Zenon
  <2> QED BY <2>1, <2>4
<1>3. ASSUME o > Len(u) PROVE ~Flag[From(u, o)].ok
  <2>1. From(u, o) = << >>
    BY <1>1, <1>3, FromNext
  <2>2. Flag[<< >>] = Truncated
    BY FlagEnds
  <2> QED BY <2>1, <2>2, TruncatedIs
<1> QED BY <1>2, <1>3

LEMMA PathElemReaderAt ==
  ASSUME NEW u \in Units, NEW o \in Nat, 1 <= o, o <= Len(u) + 1
  PROVE  /\ o + 1 <= Len(u) => PathElemReader[From(u, o)] = Done(PathElemAt(u, o), From(u, o + 2))
         /\ o + 1 > Len(u) => ~PathElemReader[From(u, o)].ok
<1>1. PICK b : b = (u[o] = 1)
  BY Zenon
<1>2. PICK rs : rs = <<Flag, Unit>>
  OBVIOUS
<1>3. Len(rs) = 2 /\ rs[1] = Flag /\ rs[2] = Unit
  BY <1>2
<1>4. PICK x \in Units : x = From(u, o)
  BY FromIs
<1>5. Len(u) \in Nat
  BY ConcatUnits, NoUnits
<1>6. PICK E : E = Each(rs)
  OBVIOUS
<1>7. PathElemReader[x] = LET v == E[x].value IN Made(E[x], [Right |-> v[1], Sibling |-> v[2]])
  BY <1>2, <1>6 DEF PathElemReader, MadePathElem
<1>8. ASSUME NEW v, NEW rest, E[x] = Done(v, rest)
      PROVE  PathElemReader[x] = Done([Right |-> v[1], Sibling |-> v[2]], rest)
  <2>1. E[x].ok
    BY <1>8, DoneOk
  <2>2. E[x].value = v /\ E[x].rest = rest
    BY <1>8, DoneIs
  <2> QED BY <1>7, <2>1, <2>2 DEF Made
<1>9. ASSUME ~E[x].ok PROVE ~PathElemReader[x].ok
  BY <1>7, <1>9, TruncatedIs DEF Made
<1>10. PICK w : w[0] = x /\ w[1] = From(u, o + 1) /\ w[2] = From(u, o + 2)
  <2> DEFINE f == [i \in 0..2 |-> From(u, o + i)]
  <2>1. f[0] = x /\ f[1] = From(u, o + 1) /\ f[2] = From(u, o + 2)
    BY <1>4
  <2> QED BY <2>1
<1>14. PICK v : v = <<b, u[o + 1]>>
  OBVIOUS
<1>11. v[1] = b /\ v[2] = u[o + 1]
  BY <1>14
<1>15. PICK n \in Nat : n = 2 /\ Len(rs) = n
  BY <1>3
<1>16. n \in Nat /\ Len(rs) = n
  BY <1>15
<1>12. CASE o + 1 <= Len(u)
  <2>1. w[0] \in Units /\ w[1] \in Units /\ w[2] \in Units
    BY <1>4, <1>5, <1>10, <1>12, FromIs
  <2>2. rs[1][w[0]] = Done(v[1], w[1])
    BY <1>1, <1>3, <1>4, <1>5, <1>10, <1>11, <1>12, FlagAt
  <2>3. rs[2][w[1]] = Done(v[2], w[2])
    <3>1. Unit[From(u, o + 1)] = Done(u[o + 1], From(u, (o + 1) + 1)) /\ (o + 1) + 1 = o + 2
      BY <1>5, <1>12, UnitAt
    <3> QED BY <1>3, <1>10, <1>11, <3>1
  <2>4. Walk(rs, 2, w, v)
    <3>1. \A i \in 0..2 : w[i] \in Units
      BY <2>1
    <3>2. ASSUME NEW i \in 1..2 PROVE rs[i][w[i - 1]] = Done(v[i], w[i])
      <4>1. CASE i = 1
        BY <2>2, <4>1
      <4>2. CASE i = 2
        BY <2>3, <4>2
      <4> QED BY <4>1, <4>2
    <3> QED BY <3>1, <3>2 DEF Walk
  <2>9. Each(rs)[w[0]] = Done(FirstOf(v, n), w[n])
    <3>1. Walk(rs, n, w, v)
      BY <1>15, <2>4
    <3> QED BY <1>16, <3>1, EachArrives
  <2>5. E[x] = Done(FirstOf(v, 2), w[2])
    BY <1>6, <1>10, <1>15, <2>9
  <2>6. FirstOf(v, 2)[1] = b /\ FirstOf(v, 2)[2] = u[o + 1]
    BY <1>11 DEF FirstOf
  <2>7. PathElemReader[x] = Done([Right |-> b, Sibling |-> u[o + 1]], w[2])
    BY <1>8, <2>5, <2>6
  <2>8. PathElemAt(u, o) = [Right |-> b, Sibling |-> u[o + 1]]
    <3>1. (u[o] = 1) = b
      BY <1>1, Zenon
    <3>2. PathElemAt(u, o) = [Right |-> u[o] = 1, Sibling |-> u[o + 1]]
      BY DEF PathElemAt
    <3> QED BY <3>1, <3>2, Zenon
  <2> QED BY <1>4, <1>5, <1>10, <1>12, <2>7, <2>8
<1>13. CASE o + 1 > Len(u)
  <2>1. CASE o > Len(u)
    <3>1. ~rs[0 + 1][w[0]].ok
      BY <1>1, <1>3, <1>4, <1>10, <2>1, FlagAt
    <3>2. Walk(rs, 0, w, v)
      BY <1>4, <1>10 DEF Walk
    <3>4. ~Each(rs)[w[0]].ok
      <4>1. PICK m \in Nat : m = 0 /\ m < n
        BY <1>15
      <4>2. Walk(rs, m, w, v) /\ ~rs[m + 1][w[m]].ok
        BY <3>1, <3>2, <4>1
      <4> QED BY <1>15, <4>1, <4>2, EachStops
    <3>3. ~E[x].ok
      BY <1>6, <1>10, <3>4
    <3> QED BY <1>4, <1>5, <1>9, <1>13, <3>3
  <2>2. CASE o = Len(u)
    <3>1. w[0] \in Units /\ w[1] \in Units
      BY <1>4, <1>5, <1>10, <2>2, FromIs
    <3>2. rs[1][w[0]] = Done(v[1], w[1])
      BY <1>1, <1>3, <1>4, <1>5, <1>10, <1>11, <2>2, FlagAt
    <3>3. Walk(rs, 1, w, v)
      BY <3>1, <3>2 DEF Walk
    <3>4. ~rs[1 + 1][w[1]].ok
      <4>1. ~Unit[From(u, o + 1)].ok
        BY <1>5, <2>2, UnitAt
      <4> QED BY <1>3, <1>10, <4>1
    <3>6. ~Each(rs)[w[0]].ok
      <4>1. PICK m \in Nat : m = 1 /\ m < n
        BY <1>15
      <4>2. Walk(rs, m, w, v) /\ ~rs[m + 1][w[m]].ok
        BY <3>3, <3>4, <4>1
      <4> QED BY <1>15, <4>1, <4>2, EachStops
    <3>5. ~E[x].ok
      BY <1>6, <1>10, <3>6
    <3> QED BY <1>4, <1>5, <1>9, <1>13, <3>5
  <2> QED BY <1>5, <1>13, <2>1, <2>2
<1> QED BY <1>5, <1>12, <1>13

\* R takes k units, and reads f[o] from the o-th.
FixedWidth(R, k, f, u) ==
  \A o \in 1..(Len(u) + 1) :
    /\ o + k <= Len(u) + 1 => R[From(u, o)] = Done(f[o], From(u, o + k))
    /\ o + k > Len(u) + 1 => ~R[From(u, o)].ok

\* Where n of them end.
EndOf(k, o, n) == IF k = 1 THEN o + n ELSE o + 2 * n

LEMMA EndOfNone ==
  ASSUME NEW k \in {1, 2}, NEW o \in Nat
  PROVE  EndOf(k, o, 0) = o
BY DEF EndOf

LEMMA EndOfGrows ==
  ASSUME NEW k \in {1, 2}, NEW o \in Nat, NEW n \in Nat, NEW m \in Nat, m <= n
  PROVE  EndOf(k, o, m) <= EndOf(k, o, n)
BY DEF EndOf

Copies(R, n) == [i \in 1..n |-> R]
ValuesAt(f, k, o, n) == [j \in 1..n |-> f[EndOf(k, o, j - 1)]]

CopiesRead(R, k, f, u, o, n) ==
  /\ EndOf(k, o, n) <= Len(u) + 1 =>
       Each(Copies(R, n))[From(u, o)] = Done(ValuesAt(f, k, o, n), From(u, EndOf(k, o, n)))
  /\ EndOf(k, o, n) > Len(u) + 1 => ~Each(Copies(R, n))[From(u, o)].ok

LEMMA RepeatAt ==
  ASSUME NEW u \in Units, NEW R, NEW k \in {1, 2}, NEW f, FixedWidth(R, k, f, u),
         NEW o \in Nat, 1 <= o, o <= Len(u) + 1, NEW n \in Nat
  PROVE  CopiesRead(R, k, f, u, o, n)
<1>1. PICK rs : rs = Copies(R, n)
  OBVIOUS
<1>2. Len(rs) = n /\ \A i \in 1..n : rs[i] = R
  BY <1>1 DEF Copies
<1>3. PICK at : at = [i \in Nat |-> EndOf(k, o, i)]
  OBVIOUS
<1>4. Len(u) \in Nat /\ o \in Nat /\ k \in Nat
  BY ConcatUnits, NoUnits
<1>15. PICK l \in Nat : l = Len(u) + 1 /\ o <= l /\ 1 <= o
  BY <1>4
<1>16. at[0] = o
  BY <1>3, <1>4, EndOfNone
<1>17. ASSUME NEW i \in Nat
       PROVE  at[i] \in Nat /\ at[i] >= o /\ at[i + 1] \in Nat /\ at[i + 1] = at[i] + k
  <2>1. at[i] = EndOf(k, o, i) /\ at[i + 1] = EndOf(k, o, i + 1)
    BY <1>3
  <2>2. EndOf(k, o, i) \in Nat /\ EndOf(k, o, i) >= o /\ EndOf(k, o, i + 1) = EndOf(k, o, i) + k
    <3>1. CASE k = 1
      BY <1>4, <3>1 DEF EndOf
    <3>2. CASE k = 2
      BY <1>4, <3>2 DEF EndOf
    <3> QED BY <3>1, <3>2
  <2> QED BY <1>4, <2>1, <2>2
<1>18. ASSUME NEW i \in Nat, NEW j \in Nat, i <= j PROVE at[i] <= at[j]
  <2>1. EndOf(k, o, i) <= EndOf(k, o, j)
    BY <1>4, <1>18, EndOfGrows
  <2> QED BY <1>3, <2>1
<1>6. PICK w : w = [i \in 0..n |-> From(u, at[i])]
  OBVIOUS
<1>7. PICK v : v = [j \in 1..n |-> f[at[j - 1]]]
  OBVIOUS
<1>8. ASSUME NEW m \in 0..n, at[m] <= Len(u) + 1 PROVE Walk(rs, m, w, v)
  <2>1. ASSUME NEW i \in 0..m PROVE at[i] \in Nat /\ 1 <= at[i] /\ at[i] <= l
    <3>1. i \in Nat /\ m \in Nat /\ i <= m
      OBVIOUS
    <3>2. at[i] \in Nat /\ at[m] \in Nat /\ at[i] >= o /\ at[i] <= at[m]
      BY <1>17, <1>18, <3>1
    <3> QED BY <1>4, <1>8, <1>15, <3>2
  <2>2. ASSUME NEW i \in 0..m PROVE w[i] \in Units /\ w[i] = From(u, at[i])
    <3>1. i \in 0..n
      OBVIOUS
    <3> QED BY <1>6, <1>15, <2>1, <3>1, FromIs
  <2>3. ASSUME NEW i \in 1..m PROVE rs[i][w[i - 1]] = Done(v[i], w[i])
    <3>1. PICK j \in 0..m : j = i - 1 /\ i = j + 1 /\ j \in Nat
      OBVIOUS
    <3>5. /\ at[j] \in Nat /\ 1 <= at[j] /\ at[j] <= l
          /\ at[i] \in Nat /\ at[i] <= l /\ at[i] = at[j] + k
      <4>1. i \in 0..m
        OBVIOUS
      <4>2. at[j + 1] = at[j] + k
        BY <1>17, <3>1
      <4> QED BY <2>1, <3>1, <4>1, <4>2
    <3>2. at[i] = at[j] + k /\ at[j] \in 1..(Len(u) + 1) /\ at[j] + k <= Len(u) + 1
      BY <1>4, <1>15, <3>5
    <3>3. R[From(u, at[j])] = Done(f[at[j]], From(u, at[j] + k))
      BY <3>2 DEF FixedWidth
    <3>4. w[j] = From(u, at[j]) /\ w[i] = From(u, at[i]) /\ rs[i] = R /\ v[i] = f[at[j]]
      BY <1>2, <1>7, <2>2, <3>1
    <3> QED BY <3>1, <3>2, <3>3, <3>4
  <2> QED BY <2>2, <2>3 DEF Walk
<1>9. w[0] = From(u, o) /\ w[n] = From(u, at[n]) /\ FirstOf(v, n) = v
  BY <1>6, <1>7, <1>16 DEF FirstOf
<1>10. ASSUME at[n] <= Len(u) + 1 PROVE Each(rs)[From(u, o)] = Done(v, From(u, at[n]))
  <2>1. Walk(rs, n, w, v)
    BY <1>8, <1>10
  <2>2. Each(rs)[w[0]] = Done(FirstOf(v, n), w[n])
    BY <1>2, <2>1, EachArrives
  <2> QED BY <1>9, <2>2
<1>11. ASSUME at[n] > Len(u) + 1 PROVE ~Each(rs)[From(u, o)].ok
  <2> DEFINE S == {m \in Nat : at[m + 1] > Len(u) + 1}
  <2>1. n # 0 /\ n - 1 \in Nat /\ (n - 1) + 1 = n
    <3>1. n # 0
      BY <1>4, <1>11, <1>15, <1>16
    <3> QED BY <3>1
  <2>2. n - 1 \in S
    BY <1>11, <2>1
  <2>3. PICK m \in S : \A j \in S : m <= j
    BY <2>2, LeastNat
  <2>4. m \in Nat /\ m < n /\ m \in 0..n /\ at[m + 1] > Len(u) + 1
    BY <2>1, <2>2, <2>3
  <2>5. at[m] <= Len(u) + 1
    <3>1. CASE m = 0
      BY <1>4, <1>15, <1>16, <3>1
    <3>2. CASE m # 0
      <4>1. PICK j \in Nat : m = j + 1
        <5>1. m - 1 \in Nat /\ m = (m - 1) + 1
          BY <2>4, <3>2
        <5> QED BY <5>1
      <4>2. j \notin S
        <5>1. ~(m <= j)
          BY <4>1
        <5> QED BY <2>3, <5>1
      <4>3. at[m] \in Nat /\ ~(at[j + 1] > Len(u) + 1)
        BY <1>17, <2>4, <4>2
      <4> QED BY <1>4, <4>1, <4>3
    <3> QED BY <3>1, <3>2
  <2>6. Walk(rs, m, w, v)
    BY <1>8, <2>4, <2>5
  <2>7. ~rs[m + 1][w[m]].ok
    <3>1. at[m] \in 1..(Len(u) + 1) /\ at[m] + k > Len(u) + 1 /\ m + 1 \in 1..n
      <4>1. at[m] \in Nat /\ at[m] >= o /\ at[m + 1] = at[m] + k
        BY <1>17, <2>4
      <4>2. m + 1 \in 1..n
        BY <2>4
      <4>3. at[m] + k > Len(u) + 1
        BY <2>4, <4>1
      <4> QED BY <1>4, <1>15, <2>5, <4>1, <4>2, <4>3
    <3>2. ~R[From(u, at[m])].ok
      BY <3>1 DEF FixedWidth
    <3> QED BY <1>2, <1>6, <2>4, <3>1, <3>2
  <2>8. ~Each(rs)[w[0]].ok
    BY <1>2, <2>4, <2>6, <2>7, EachStops
  <2> QED BY <1>9, <2>8
<1>12. at[n] = EndOf(k, o, n) /\ v = ValuesAt(f, k, o, n)
  <2>1. \A j \in 1..n : at[j - 1] = EndOf(k, o, j - 1)
    BY <1>3
  <2> QED BY <1>3, <1>7, <2>1 DEF ValuesAt
<1>13. ASSUME EndOf(k, o, n) <= Len(u) + 1
       PROVE  Each(rs)[From(u, o)] = Done(ValuesAt(f, k, o, n), From(u, EndOf(k, o, n)))
  <2>1. Each(rs)[From(u, o)] = Done(v, From(u, at[n]))
    BY <1>10, <1>12, <1>13
  <2> QED BY <1>12, <2>1
<1>14. ASSUME EndOf(k, o, n) > Len(u) + 1 PROVE ~Each(rs)[From(u, o)].ok
  BY <1>11, <1>12, <1>14
<1> QED BY <1>1, <1>13, <1>14 DEF CopiesRead

\* A count that is taken, and as many values.
LEMMA ManyAt ==
  ASSUME NEW u \in Units, NEW R, NEW k \in {1, 2}, NEW f, FixedWidth(R, k, f, u),
         NEW counts, counts \subseteq Nat, NEW o \in 1..(Len(u) + 1)
  PROVE  /\ o <= Len(u) /\ u[o] \in counts /\ EndOf(k, o + 1, u[o]) <= Len(u) + 1 =>
              Many(R, counts)[From(u, o)] =
                Done(ValuesAt(f, k, o + 1, u[o]), From(u, EndOf(k, o + 1, u[o])))
         /\ o > Len(u) \/ u[o] \notin counts \/ EndOf(k, o + 1, u[o]) > Len(u) + 1 =>
              ~Many(R, counts)[From(u, o)].ok
<1>1. Len(u) \in Nat /\ o \in Nat
  BY ConcatUnits, NoUnits
<1>2. PICK x \in Units : x = From(u, o)
  BY <1>1, FromIs
<1>3. CASE o > Len(u)
  <2>1. x = << >>
    BY <1>1, <1>2, <1>3, FromNext
  <2>2. Many(R, counts)[x] = Truncated
    BY <2>1 DEF Many
  <2>3. ~Many(R, counts)[From(u, o)].ok
    BY <1>2, <2>2, TruncatedIs
  <2>4. ~(o <= Len(u))
    BY <1>1, <1>3
  <2> QED BY <2>3, <2>4
<1>4. CASE o <= Len(u) /\ u[o] \notin counts
  <2>1. Head(x) = u[o]
    BY <1>1, <1>2, <1>4, FromNext
  <2>2. Many(R, counts)[x] = Truncated
    BY <1>4, <2>1 DEF Many
  <2>3. ~Many(R, counts)[From(u, o)].ok
    BY <1>2, <2>2, TruncatedIs
  <2> QED BY <1>4, <2>3
<1>5. CASE o <= Len(u) /\ u[o] \in counts
  <2>1. PICK n \in Nat, p \in Nat : n = u[o] /\ p = o + 1 /\ p \in 1..(Len(u) + 1)
    <3>1. u[o] \in Nat
      BY <1>5
    <3>2. o + 1 \in Nat /\ o + 1 \in 1..(Len(u) + 1)
      BY <1>1, <1>5
    <3> QED BY <3>1, <3>2
  <2>2. x # << >> /\ Head(x) = n /\ Tail(x) = From(u, p)
    BY <1>1, <1>2, <1>5, <2>1, FromNext
  <2>3. Many(R, counts)[x] = Each(Copies(R, n))[From(u, p)]
    BY <1>5, <2>1, <2>2 DEF Many, Copies
  <2>4. /\ EndOf(k, p, n) <= Len(u) + 1 =>
             Each(Copies(R, n))[From(u, p)] =
               Done(ValuesAt(f, k, p, n), From(u, EndOf(k, p, n)))
        /\ EndOf(k, p, n) > Len(u) + 1 => ~Each(Copies(R, n))[From(u, p)].ok
    <3>1. 1 <= p /\ p <= Len(u) + 1
      BY <1>1, <2>1
    <3>2. CopiesRead(R, k, f, u, p, n)
      BY <2>1, <3>1, RepeatAt
    <3> QED BY <3>2 DEF CopiesRead
  <2>5. EndOf(k, p, n) <= Len(u) + 1 =>
          Many(R, counts)[x] = Done(ValuesAt(f, k, p, n), From(u, EndOf(k, p, n)))
    BY <2>3, <2>4
  <2>6. EndOf(k, p, n) > Len(u) + 1 => ~Many(R, counts)[x].ok
    BY <2>3, <2>4
  <2>7. ~(o > Len(u))
    BY <1>1, <1>5
  <2> QED BY <1>2, <1>5, <2>1, <2>5, <2>6, <2>7
<1> QED BY <1>1, <1>3, <1>4, <1>5

PathFits(u, o) == o <= Len(u) /\ u[o] <= BatchLimit /\ o + 1 + 2 * u[o] <= Len(u) + 1

LEMMA LongPathAt ==
  ASSUME NEW u \in Units, NEW o \in Nat, 1 <= o, o <= Len(u) + 1
  PROVE  /\ PathFits(u, o) =>
              LongPathReader[From(u, o)] = Done(PathAt(u, o + 1, u[o]), From(u, o + 1 + 2 * u[o]))
         /\ ~PathFits(u, o) => ~LongPathReader[From(u, o)].ok
<1>1. PICK f : f = [i \in Nat |-> PathElemAt(u, i)]
  OBVIOUS
<1>2. Len(u) \in Nat /\ o \in 1..(Len(u) + 1)
  BY ConcatUnits, NoUnits
<1>3. PICK k \in {1, 2} : k = 2
  OBVIOUS
<1>4. FixedWidth(PathElemReader, k, f, u)
  <2> SUFFICES ASSUME NEW i \in 1..(Len(u) + 1)
               PROVE  /\ i + 2 <= Len(u) + 1 => PathElemReader[From(u, i)] = Done(f[i], From(u, i + 2))
                      /\ i + 2 > Len(u) + 1 => ~PathElemReader[From(u, i)].ok
    BY <1>3 DEF FixedWidth
  <2>1. i \in Nat /\ 1 <= i /\ i <= Len(u) + 1 /\ f[i] = PathElemAt(u, i)
    BY <1>1, <1>2
  <2>2. ASSUME i + 2 <= Len(u) + 1 PROVE PathElemReader[From(u, i)] = Done(f[i], From(u, i + 2))
    <3>1. i + 1 <= Len(u)
      BY <1>2, <2>1, <2>2
    <3> QED BY <2>1, <3>1, PathElemReaderAt
  <2>3. ASSUME i + 2 > Len(u) + 1 PROVE ~PathElemReader[From(u, i)].ok
    <3>1. i + 1 > Len(u)
      BY <1>2, <2>1, <2>3
    <3> QED BY <2>1, <3>1, PathElemReaderAt
  <2> QED BY <2>2, <2>3
<1>5. PICK counts : counts = 0..BatchLimit
  OBVIOUS
<1>6. counts \subseteq Nat /\ LongPathReader = Many(PathElemReader, counts)
  BY <1>5, Limits DEF LongPathReader
<1>7. /\ o <= Len(u) /\ u[o] \in counts /\ EndOf(k, o + 1, u[o]) <= Len(u) + 1 =>
            Many(PathElemReader, counts)[From(u, o)] =
              Done(ValuesAt(f, k, o + 1, u[o]), From(u, EndOf(k, o + 1, u[o])))
      /\ o > Len(u) \/ u[o] \notin counts \/ EndOf(k, o + 1, u[o]) > Len(u) + 1 =>
            ~Many(PathElemReader, counts)[From(u, o)].ok
  BY <1>2, <1>4, <1>6, ManyAt
<1>8. o <= Len(u) => u[o] \in Nat
  BY FromNext
<1>9. EndOf(k, o + 1, u[o]) = o + 1 + 2 * u[o]
  <2>1. k # 1
    BY <1>3
  <2> QED BY <2>1 DEF EndOf
<1>10. ASSUME PathFits(u, o)
       PROVE  LongPathReader[From(u, o)] = Done(PathAt(u, o + 1, u[o]), From(u, o + 1 + 2 * u[o]))
  <2>1. PICK n \in Nat : n = u[o]
    BY <1>8, <1>10 DEF PathFits
  <2>2. n \in counts /\ o <= Len(u) /\ EndOf(k, o + 1, u[o]) <= Len(u) + 1
    BY <1>5, <1>9, <1>10, <2>1, Limits DEF PathFits
  <2>3. ValuesAt(f, k, o + 1, n) = PathAt(u, o + 1, n)
    <3>1. ASSUME NEW j \in 1..n PROVE f[EndOf(k, o + 1, j - 1)] = PathElemAt(u, o + 1 + 2 * (j - 1))
      <4>1. PICK i \in Nat : i = o + 1 + 2 * (j - 1)
        OBVIOUS
      <4>2. k # 1
        BY <1>3
      <4>3. EndOf(k, o + 1, j - 1) = i
        BY <4>1, <4>2 DEF EndOf
      <4> QED BY <1>1, <4>1, <4>3
    <3> QED BY <3>1 DEF ValuesAt, PathAt
  <2> QED BY <1>6, <1>7, <1>9, <2>1, <2>2, <2>3
<1>11. ASSUME ~PathFits(u, o) PROVE ~LongPathReader[From(u, o)].ok
  <2>1. o > Len(u) \/ u[o] \notin counts \/ EndOf(k, o + 1, u[o]) > Len(u) + 1
    <3>1. CASE ~(o <= Len(u))
      BY <1>2, <3>1
    <3>2. CASE o <= Len(u)
      <4>1. PICK n \in Nat : n = u[o]
        BY <1>8, <3>2
      <4>2. ~(n <= BatchLimit) \/ ~(o + 1 + 2 * n <= Len(u) + 1)
        BY <1>11, <3>2, <4>1 DEF PathFits
      <4> QED BY <1>2, <1>5, <1>9, <4>1, <4>2, Limits
    <3> QED BY <3>1, <3>2
  <2> QED BY <1>6, <1>7, <2>1
<1> QED BY <1>10, <1>11

FrameFits(u, o) == o <= Len(u) /\ o + u[o] <= Len(u)

LEMMA FrameAt ==
  ASSUME NEW u \in Units, NEW o \in Nat, 1 <= o, o <= Len(u) + 1
  PROVE  /\ FrameFits(u, o) =>
              /\ Frames[From(u, o)] = Done(SubSeq(u, o + 1, o + u[o]), From(u, o + 1 + u[o]))
              /\ SubSeq(u, o + 1, o + u[o]) \in Units
         /\ ~FrameFits(u, o) => ~Frames[From(u, o)].ok
<1>2. Len(u) \in Nat /\ o \in 1..(Len(u) + 1) /\ u \in Seq(Nat)
  BY ConcatUnits, NoUnits DEF Units
<1>3. PICK k \in {1, 2} : k = 1
  OBVIOUS
<1>4. FixedWidth(Unit, k, u, u)
  <2> SUFFICES ASSUME NEW i \in 1..(Len(u) + 1)
               PROVE  /\ i + 1 <= Len(u) + 1 => Unit[From(u, i)] = Done(u[i], From(u, i + 1))
                      /\ i + 1 > Len(u) + 1 => ~Unit[From(u, i)].ok
    BY <1>3 DEF FixedWidth
  <2>1. i \in Nat /\ 1 <= i /\ i <= Len(u) + 1
    BY <1>2
  <2>2. ASSUME i + 1 <= Len(u) + 1 PROVE Unit[From(u, i)] = Done(u[i], From(u, i + 1))
    <3>1. i <= Len(u)
      BY <1>2, <2>1, <2>2
    <3> QED BY <2>1, <3>1, UnitAt
  <2>3. ASSUME i + 1 > Len(u) + 1 PROVE ~Unit[From(u, i)].ok
    <3>1. i > Len(u)
      BY <1>2, <2>1, <2>3
    <3> QED BY <2>1, <3>1, UnitAt
  <2> QED BY <2>2, <2>3
<1>5. PICK counts : counts = Nat
  OBVIOUS
<1>6. counts \subseteq Nat /\ Frames = Many(Unit, counts)
  BY <1>5 DEF Frames
<1>7. /\ o <= Len(u) /\ u[o] \in counts /\ EndOf(k, o + 1, u[o]) <= Len(u) + 1 =>
            Many(Unit, counts)[From(u, o)] =
              Done(ValuesAt(u, k, o + 1, u[o]), From(u, EndOf(k, o + 1, u[o])))
      /\ o > Len(u) \/ u[o] \notin counts \/ EndOf(k, o + 1, u[o]) > Len(u) + 1 =>
            ~Many(Unit, counts)[From(u, o)].ok
  BY <1>2, <1>4, <1>6, ManyAt
<1>8. o <= Len(u) => u[o] \in Nat
  BY FromNext
<1>9. EndOf(k, o + 1, u[o]) = o + 1 + u[o]
  BY <1>3 DEF EndOf
<1>10. ASSUME FrameFits(u, o)
       PROVE  /\ Frames[From(u, o)] = Done(SubSeq(u, o + 1, o + u[o]), From(u, o + 1 + u[o]))
              /\ SubSeq(u, o + 1, o + u[o]) \in Units
  <2>1. PICK n \in Nat : n = u[o] /\ o <= Len(u) /\ o + n <= Len(u)
    BY <1>8, <1>10 DEF FrameFits
  <2>2. n \in counts /\ EndOf(k, o + 1, u[o]) <= Len(u) + 1
    <3>1. EndOf(k, o + 1, u[o]) = o + 1 + n
      BY <1>9, <2>1
    <3>2. o + 1 + n <= Len(u) + 1
      BY <1>2, <2>1
    <3> QED BY <1>5, <3>1, <3>2
  <2>3. PICK s : s = SubSeq(u, o + 1, o + n)
    OBVIOUS
  <2>4. \A i \in (o + 1)..(o + n) : u[i] \in Nat
    <3>1. PICK m \in Nat : m = Len(u)
      BY <1>2
    <3>2. \A i \in 1..m : u[i] \in Nat
      BY <1>2, <3>1
    <3>3. \A i \in (o + 1)..(o + n) : i \in 1..m
      BY <2>1, <3>1
    <3> QED BY <3>2, <3>3
  <2>5. /\ s \in Seq(Nat) /\ Len(s) = n
        /\ \A i \in 1..n : s[i] = u[o + i]
    <3>1. PICK a \in Int, b \in Int : a = o + 1 /\ b = o + n /\ b - a + 1 = n
      OBVIOUS
    <3>2. \A i \in a..b : u[i] \in Nat
      BY <2>4, <3>1
    <3>3. /\ SubSeq(u, a, b) \in Seq(Nat)
          /\ Len(SubSeq(u, a, b)) = IF a <= b THEN b - a + 1 ELSE 0
          /\ \A i \in 1..(b - a + 1) : SubSeq(u, a, b)[i] = u[a + i - 1]
      BY <3>2, SubSeqProperties
    <3> QED BY <2>3, <3>1, <3>3
  <2>6. ValuesAt(u, k, o + 1, n) = s
    <3>1. \A j \in 1..n : EndOf(k, o + 1, j - 1) = o + j
      BY <1>3 DEF EndOf
    <3>2. ValuesAt(u, k, o + 1, n) = [j \in 1..n |-> u[o + j]]
      BY <3>1 DEF ValuesAt
    <3>3. s = [j \in 1..n |-> u[o + j]]
      BY <2>5
    <3> QED BY <3>2, <3>3
  <2>7. s \in Units
    BY <2>5 DEF Units
  <2> QED BY <1>6, <1>7, <1>9, <2>1, <2>2, <2>3, <2>6, <2>7
<1>11. ASSUME ~FrameFits(u, o) PROVE ~Frames[From(u, o)].ok
  <2>1. o > Len(u) \/ EndOf(k, o + 1, u[o]) > Len(u) + 1
    <3>1. CASE ~(o <= Len(u))
      BY <1>2, <3>1
    <3>2. CASE o <= Len(u)
      <4>1. PICK n \in Nat : n = u[o]
        BY <1>8, <3>2
      <4>2. ~(o + n <= Len(u))
        BY <1>11, <3>2, <4>1 DEF FrameFits
      <4> QED BY <1>2, <1>9, <4>1, <4>2
    <3> QED BY <3>1, <3>2
  <2> QED BY <1>6, <1>7, <2>1
<1> QED BY <1>10, <1>11

\* What StreamProof reads at fixed offsets, and when there are units for it.
ProofAt(b) ==
  LET o  == 3 + 2 * b[2]
      n2 == b[o + 1]
  IN  [Leaf |-> b[1], L1 |-> PathAt(b, 3, b[2]), SubtreeRoot |-> b[o],
       L2 |-> PathAt(b, o + 2, n2), Header |-> b[o + 2 + 2 * n2]]

FirstEnd(b) == 3 + 2 * b[2]
SecondEnd(b) == FirstEnd(b) + 2 + 2 * b[FirstEnd(b) + 1]

ProofFits(b) ==
  /\ PathFits(b, 2) /\ FirstEnd(b) <= Len(b)
  /\ PathFits(b, FirstEnd(b) + 1) /\ SecondEnd(b) <= Len(b)

LEMMA WalkFurther ==
  ASSUME NEW rs, NEW w, NEW v, NEW m \in Nat, Walk(rs, m, w, v),
         w[m + 1] \in Units, rs[m + 1][w[m]] = Done(v[m + 1], w[m + 1])
  PROVE  Walk(rs, m + 1, w, v)
<1>1. ASSUME NEW i \in 0..(m + 1) PROVE w[i] \in Units
  <2>1. CASE i \in 0..m
    BY <2>1 DEF Walk
  <2>2. CASE i = m + 1
    BY <2>2
  <2> QED BY <2>1, <2>2
<1>2. ASSUME NEW i \in 1..(m + 1) PROVE rs[i][w[i - 1]] = Done(v[i], w[i])
  <2>1. CASE i \in 1..m
    BY <2>1 DEF Walk
  <2>2. CASE i = m + 1
    BY <2>2
  <2> QED BY <2>1, <2>2
<1> QED BY <1>1, <1>2 DEF Walk

LEMMA ProofReaderAt ==
  ASSUME NEW b \in Units
  PROVE  /\ ProofFits(b) => \E rest \in Units : ProofReader[b] = Done(ProofAt(b), rest)
         /\ ~ProofFits(b) => ~ProofReader[b].ok
<1>1. PICK rs : rs = <<Unit, LongPathReader, Unit, LongPathReader, Unit>>
  OBVIOUS
<1>2. /\ rs[1] = Unit /\ rs[2] = LongPathReader /\ rs[3] = Unit /\ rs[4] = LongPathReader
      /\ rs[5] = Unit /\ Len(rs) = 5
  BY <1>1
<1>3. PICK n \in Nat : n = 5
  OBVIOUS
<1>4. n \in Nat /\ Len(rs) = n
  BY <1>2, <1>3
<1>5. PICK o : o = FirstEnd(b)
  OBVIOUS
<1>6. PICK h : h = SecondEnd(b)
  OBVIOUS
<1>7. PICK w : /\ w[0] = From(b, 1) /\ w[1] = From(b, 2) /\ w[2] = From(b, o)
               /\ w[3] = From(b, o + 1) /\ w[4] = From(b, h) /\ w[5] = From(b, h + 1)
  <2> DEFINE at == <<1, 2, o, o + 1, h, h + 1>>
             f == [i \in 0..5 |-> From(b, at[i + 1])]
  <2>1. at[1] = 1 /\ at[2] = 2 /\ at[3] = o /\ at[4] = o + 1 /\ at[5] = h /\ at[6] = h + 1
    OBVIOUS
  <2> HIDE DEF at
  <2>2. /\ f[0] = From(b, 1) /\ f[1] = From(b, 2) /\ f[2] = From(b, o)
        /\ f[3] = From(b, o + 1) /\ f[4] = From(b, h) /\ f[5] = From(b, h + 1)
    BY <2>1
  <2> HIDE DEF f
  <2> QED BY <2>2
<1>8. PICK v : v = <<b[1], PathAt(b, 3, b[2]), b[o], PathAt(b, o + 2, b[o + 1]), b[h]>>
  OBVIOUS
<1>9. /\ v[1] = b[1] /\ v[2] = PathAt(b, 3, b[2]) /\ v[3] = b[o]
      /\ v[4] = PathAt(b, o + 2, b[o + 1]) /\ v[5] = b[h]
  BY <1>8
<1>10. Len(b) \in Nat /\ w[0] = b
  BY <1>7, FromFirst, ConcatUnits, NoUnits
<1>11. PICK E : E = Each(rs)
  OBVIOUS
<1>12. ProofReader[b] =
         LET x == E[b].value
         IN  Made(E[b], [Leaf |-> x[1], L1 |-> x[2], SubtreeRoot |-> x[3], L2 |-> x[4], Header |-> x[5]])
  BY <1>1, <1>11 DEF ProofReader, MadeProof
<1>13. ASSUME NEW x, NEW rest, E[b] = Done(x, rest)
       PROVE  ProofReader[b] =
                Done([Leaf |-> x[1], L1 |-> x[2], SubtreeRoot |-> x[3], L2 |-> x[4], Header |-> x[5]], rest)
  <2>1. E[b].ok
    BY <1>13, DoneOk
  <2>2. E[b].value = x /\ E[b].rest = rest
    BY <1>13, DoneIs
  <2> QED BY <1>12, <2>1, <2>2 DEF Made
<1>14. ASSUME NEW m \in Nat, m < n, Walk(rs, m, w, v), ~rs[m + 1][w[m]].ok PROVE ~ProofReader[b].ok
  <2>1. ~Each(rs)[w[0]].ok
    BY <1>4, <1>14, EachStops
  <2>2. ~E[b].ok
    BY <1>10, <1>11, <2>1
  <2> QED BY <1>12, <2>2, TruncatedIs DEF Made
<1>15. Walk(rs, 0, w, v)
  BY <1>10 DEF Walk
<1>16. Len(b) = 0 => ~rs[1][w[0]].ok
  <2> SUFFICES ASSUME Len(b) = 0 PROVE ~rs[1][w[0]].ok
    OBVIOUS
  <2>1. ~Unit[From(b, 1)].ok
    BY <1>10, UnitAt
  <2> QED BY <1>2, <1>7, <2>1
<1>17. Len(b) >= 1 => Walk(rs, 1, w, v)
  <2> SUFFICES ASSUME Len(b) >= 1 PROVE Walk(rs, 1, w, v)
    OBVIOUS
  <2>1. Unit[From(b, 1)] = Done(b[1], From(b, 1 + 1)) /\ 1 + 1 = 2
    BY <1>10, UnitAt
  <2>2. w[1] \in Units
    BY <1>7, <1>10, FromIs
  <2>3. rs[1][w[0]] = Done(v[1], w[1])
    BY <1>2, <1>7, <1>9, <2>1
  <2> QED BY <1>10, <2>2, <2>3 DEF Walk
<1>18. Len(b) >= 1 => /\ PathFits(b, 2) => LongPathReader[w[1]] = Done(v[2], w[2])
                      /\ ~PathFits(b, 2) => ~LongPathReader[w[1]].ok
  <2> SUFFICES ASSUME Len(b) >= 1
               PROVE  /\ PathFits(b, 2) => LongPathReader[w[1]] = Done(v[2], w[2])
                      /\ ~PathFits(b, 2) => ~LongPathReader[w[1]].ok
    OBVIOUS
  <2>1. /\ PathFits(b, 2) =>
              LongPathReader[From(b, 2)] = Done(PathAt(b, 2 + 1, b[2]), From(b, 2 + 1 + 2 * b[2]))
        /\ ~PathFits(b, 2) => ~LongPathReader[From(b, 2)].ok
    BY <1>10, LongPathAt
  <2>2. 2 + 1 = 3 /\ o = 3 + 2 * b[2]
    BY <1>5 DEF FirstEnd
  <2> QED BY <1>7, <1>9, <2>1, <2>2
<1>19. PathFits(b, 2) => Len(b) >= 1 /\ b[2] \in Nat /\ o \in Nat /\ 3 <= o /\ o <= Len(b) + 1
  <2> SUFFICES ASSUME PathFits(b, 2)
               PROVE  Len(b) >= 1 /\ b[2] \in Nat /\ o \in Nat /\ 3 <= o /\ o <= Len(b) + 1
    OBVIOUS
  <2>1. 2 <= Len(b) /\ 2 + 1 + 2 * b[2] <= Len(b) + 1
    BY DEF PathFits
  <2>2. PICK n1 \in Nat : n1 = b[2]
    BY <1>10, <2>1, FromNext
  <2>3. o = 3 + 2 * n1
    BY <1>5, <2>2 DEF FirstEnd
  <2> QED BY <1>10, <2>1, <2>2, <2>3
<1>20. PathFits(b, 2) => Walk(rs, 2, w, v)
  <2> SUFFICES ASSUME PathFits(b, 2) PROVE Walk(rs, 2, w, v)
    OBVIOUS
  <2>1. Walk(rs, 1, w, v) /\ rs[2][w[1]] = Done(v[2], w[2])
    BY <1>2, <1>17, <1>18, <1>19
  <2>2. w[2] \in Units
    BY <1>7, <1>10, <1>19, FromIs
  <2>3. Walk(rs, 1 + 1, w, v)
    <3>1. PICK m \in Nat : m = 1
      OBVIOUS
    <3>2. m + 1 = 2
      BY <3>1
    <3>3. Walk(rs, m, w, v) /\ w[m + 1] \in Units /\ rs[m + 1][w[m]] = Done(v[m + 1], w[m + 1])
      BY <2>1, <2>2, <3>1, <3>2
    <3>4. Walk(rs, m + 1, w, v)
      BY <3>3, WalkFurther
    <3> QED BY <3>1, <3>4
  <2> QED BY <2>3
<1>21. PathFits(b, 2) => /\ o <= Len(b) => Unit[w[2]] = Done(v[3], w[3]) /\ w[3] \in Units
                         /\ o > Len(b) => ~Unit[w[2]].ok
  <2> SUFFICES ASSUME PathFits(b, 2)
               PROVE  /\ o <= Len(b) => Unit[w[2]] = Done(v[3], w[3]) /\ w[3] \in Units
                      /\ o > Len(b) => ~Unit[w[2]].ok
    OBVIOUS
  <2>1. o \in Nat /\ 1 <= o /\ o <= Len(b) + 1
    BY <1>19
  <2>2. /\ o <= Len(b) => Unit[From(b, o)] = Done(b[o], From(b, o + 1))
        /\ o > Len(b) => ~Unit[From(b, o)].ok
    BY <2>1, UnitAt
  <2>3. o <= Len(b) => From(b, o + 1) \in Units
    BY <1>10, <2>1, FromIs
  <2> QED BY <1>7, <1>9, <2>2, <2>3
<1>22. PathFits(b, 2) /\ o <= Len(b) => Walk(rs, 3, w, v)
  <2> SUFFICES ASSUME PathFits(b, 2), o <= Len(b) PROVE Walk(rs, 3, w, v)
    OBVIOUS
  <2>1. Walk(rs, 2, w, v) /\ rs[3][w[2]] = Done(v[3], w[3]) /\ w[3] \in Units
    BY <1>2, <1>20, <1>21
  <2>2. PICK m \in Nat : m = 2
    OBVIOUS
  <2>3. m + 1 = 3
    BY <2>2
  <2>4. Walk(rs, m, w, v) /\ w[m + 1] \in Units /\ rs[m + 1][w[m]] = Done(v[m + 1], w[m + 1])
    BY <2>1, <2>2, <2>3
  <2>5. Walk(rs, m + 1, w, v)
    BY <2>4, WalkFurther
  <2> QED BY <2>2, <2>5
<1>23. PathFits(b, 2) /\ o <= Len(b) =>
         /\ PathFits(b, o + 1) => LongPathReader[w[3]] = Done(v[4], w[4])
         /\ ~PathFits(b, o + 1) => ~LongPathReader[w[3]].ok
  <2> SUFFICES ASSUME PathFits(b, 2), o <= Len(b)
               PROVE  /\ PathFits(b, o + 1) => LongPathReader[w[3]] = Done(v[4], w[4])
                      /\ ~PathFits(b, o + 1) => ~LongPathReader[w[3]].ok
    OBVIOUS
  <2>1. PICK p \in Nat : p = o + 1 /\ 1 <= p /\ p <= Len(b) + 1 /\ p + 1 = o + 2
    BY <1>10, <1>19
  <2>2. /\ PathFits(b, p) =>
              LongPathReader[From(b, p)] = Done(PathAt(b, p + 1, b[p]), From(b, p + 1 + 2 * b[p]))
        /\ ~PathFits(b, p) => ~LongPathReader[From(b, p)].ok
    BY <2>1, LongPathAt
  <2>3. h = p + 1 + 2 * b[p]
    BY <1>5, <1>6, <2>1 DEF SecondEnd
  <2> QED BY <1>7, <1>9, <2>1, <2>2, <2>3
<1>24. PathFits(b, 2) /\ o <= Len(b) /\ PathFits(b, o + 1) =>
         b[o + 1] \in Nat /\ h \in Nat /\ 1 <= h /\ h <= Len(b) + 1
  <2> SUFFICES ASSUME PathFits(b, 2), o <= Len(b), PathFits(b, o + 1)
               PROVE  b[o + 1] \in Nat /\ h \in Nat /\ 1 <= h /\ h <= Len(b) + 1
    OBVIOUS
  <2>1. o + 1 <= Len(b) /\ o + 1 + 1 + 2 * b[o + 1] <= Len(b) + 1
    BY DEF PathFits
  <2>2. PICK p \in Nat : p = o + 1 /\ 1 <= p /\ p <= Len(b)
    BY <1>10, <1>19, <2>1
  <2>3. PICK n2 \in Nat : n2 = b[o + 1]
    BY <1>10, <2>2, FromNext
  <2>4. h = o + 2 + 2 * n2
    BY <1>5, <1>6, <2>3 DEF SecondEnd
  <2>5. o + 1 + 1 + 2 * n2 <= Len(b) + 1 /\ o \in Nat
    BY <1>19, <2>1, <2>3
  <2>6. h \in Nat /\ 1 <= h /\ h <= Len(b) + 1
    BY <1>10, <2>4, <2>5
  <2> QED BY <2>3, <2>6
<1>25. PathFits(b, 2) /\ o <= Len(b) /\ PathFits(b, o + 1) => Walk(rs, 4, w, v)
  <2> SUFFICES ASSUME PathFits(b, 2), o <= Len(b), PathFits(b, o + 1) PROVE Walk(rs, 4, w, v)
    OBVIOUS
  <2>1. Walk(rs, 3, w, v) /\ rs[4][w[3]] = Done(v[4], w[4])
    BY <1>2, <1>22, <1>23
  <2>6. w[4] \in Units
    BY <1>7, <1>24, FromIs
  <2>2. PICK m \in Nat : m = 3
    OBVIOUS
  <2>3. m + 1 = 4
    BY <2>2
  <2>4. Walk(rs, m, w, v) /\ w[m + 1] \in Units /\ rs[m + 1][w[m]] = Done(v[m + 1], w[m + 1])
    BY <2>1, <2>2, <2>3, <2>6
  <2>5. Walk(rs, m + 1, w, v)
    BY <2>4, WalkFurther
  <2> QED BY <2>2, <2>5
<1>26. PathFits(b, 2) /\ o <= Len(b) /\ PathFits(b, o + 1) =>
         /\ h <= Len(b) => Unit[w[4]] = Done(v[5], w[5]) /\ w[5] \in Units
         /\ h > Len(b) => ~Unit[w[4]].ok
  <2> SUFFICES ASSUME PathFits(b, 2), o <= Len(b), PathFits(b, o + 1)
               PROVE  /\ h <= Len(b) => Unit[w[4]] = Done(v[5], w[5]) /\ w[5] \in Units
                      /\ h > Len(b) => ~Unit[w[4]].ok
    OBVIOUS
  <2>1. h \in Nat /\ 1 <= h /\ h <= Len(b) + 1
    BY <1>24
  <2>2. /\ h <= Len(b) => Unit[From(b, h)] = Done(b[h], From(b, h + 1))
        /\ h > Len(b) => ~Unit[From(b, h)].ok
    BY <2>1, UnitAt
  <2>3. h <= Len(b) => From(b, h + 1) \in Units
    BY <1>10, <2>1, FromIs
  <2> QED BY <1>7, <1>9, <2>2, <2>3
<1>27. ASSUME PathFits(b, 2), o <= Len(b), PathFits(b, o + 1), h <= Len(b)
       PROVE  \E rest \in Units : ProofReader[b] = Done(ProofAt(b), rest)
  <2>1. Walk(rs, 4, w, v) /\ rs[5][w[4]] = Done(v[5], w[5]) /\ w[5] \in Units
    BY <1>2, <1>25, <1>26, <1>27
  <2>2. PICK m \in Nat : m = 4
    OBVIOUS
  <2>3. m + 1 = 5
    BY <2>2
  <2>4. Walk(rs, m, w, v) /\ w[m + 1] \in Units /\ rs[m + 1][w[m]] = Done(v[m + 1], w[m + 1])
    BY <2>1, <2>2, <2>3
  <2>5. Walk(rs, m + 1, w, v)
    BY <2>4, WalkFurther
  <2>6. Walk(rs, n, w, v)
    BY <1>3, <2>3, <2>5
  <2>7. Each(rs)[w[0]] = Done(FirstOf(v, n), w[n])
    BY <1>4, <2>6, EachArrives
  <2>8. PICK x, rest : x = FirstOf(v, n) /\ rest = w[n] /\ rest \in Units /\ E[b] = Done(x, rest)
    BY <1>3, <1>10, <1>11, <2>1, <2>7
  <2>9. x[1] = v[1] /\ x[2] = v[2] /\ x[3] = v[3] /\ x[4] = v[4] /\ x[5] = v[5]
    BY <1>3, <2>8 DEF FirstOf
  <2>10. ProofReader[b] =
           Done([Leaf |-> v[1], L1 |-> v[2], SubtreeRoot |-> v[3], L2 |-> v[4], Header |-> v[5]], rest)
    BY <1>13, <2>8, <2>9
  <2>11. ProofAt(b) = [Leaf |-> v[1], L1 |-> v[2], SubtreeRoot |-> v[3], L2 |-> v[4], Header |-> v[5]]
    BY <1>5, <1>6, <1>9 DEF ProofAt, FirstEnd, SecondEnd
  <2> QED BY <2>8, <2>10, <2>11
<1>28. ASSUME ~(PathFits(b, 2) /\ o <= Len(b) /\ PathFits(b, o + 1) /\ h <= Len(b))
       PROVE  ~ProofReader[b].ok
  <2>1. CASE Len(b) = 0
    <3>1. PICK m \in Nat : m = 0 /\ m < n
      BY <1>3
    <3>2. Walk(rs, m, w, v) /\ ~rs[m + 1][w[m]].ok
      BY <1>15, <1>16, <2>1, <3>1
    <3> QED BY <1>14, <3>1, <3>2
  <2>2. CASE Len(b) >= 1 /\ ~PathFits(b, 2)
    <3>1. PICK m \in Nat : m = 1 /\ m < n
      BY <1>3
    <3>2. Walk(rs, m, w, v) /\ ~rs[m + 1][w[m]].ok
      BY <1>2, <1>17, <1>18, <2>2, <3>1
    <3> QED BY <1>14, <3>1, <3>2
  <2>3. CASE PathFits(b, 2) /\ ~(o <= Len(b))
    <3>1. PICK m \in Nat : m = 2 /\ m < n
      BY <1>3
    <3>3. o > Len(b)
      BY <1>10, <1>19, <2>3
    <3>2. Walk(rs, m, w, v) /\ ~rs[m + 1][w[m]].ok
      BY <1>2, <1>20, <1>21, <2>3, <3>1, <3>3
    <3> QED BY <1>14, <3>1, <3>2
  <2>4. CASE PathFits(b, 2) /\ o <= Len(b) /\ ~PathFits(b, o + 1)
    <3>1. PICK m \in Nat : m = 3 /\ m < n
      BY <1>3
    <3>2. Walk(rs, m, w, v) /\ ~rs[m + 1][w[m]].ok
      BY <1>2, <1>22, <1>23, <2>4, <3>1
    <3> QED BY <1>14, <3>1, <3>2
  <2>5. CASE PathFits(b, 2) /\ o <= Len(b) /\ PathFits(b, o + 1) /\ ~(h <= Len(b))
    <3>1. PICK m \in Nat : m = 4 /\ m < n
      BY <1>3
    <3>3. h > Len(b)
      BY <1>10, <1>24, <2>5
    <3>2. Walk(rs, m, w, v) /\ ~rs[m + 1][w[m]].ok
      BY <1>2, <1>25, <1>26, <2>5, <3>1, <3>3
    <3> QED BY <1>14, <3>1, <3>2
  <2>6. Len(b) = 0 \/ Len(b) >= 1
    BY <1>10
  <2> QED BY <1>28, <2>1, <2>2, <2>3, <2>4, <2>5, <2>6
<1>29. ProofFits(b) <=> PathFits(b, 2) /\ o <= Len(b) /\ PathFits(b, o + 1) /\ h <= Len(b)
  BY <1>5, <1>6 DEF ProofFits
<1> QED BY <1>27, <1>28, <1>29

StreamFits(b) ==
  /\ 2 <= Len(b) /\ b[2] <= StackLimit /\ FirstEnd(b) + 1 <= Len(b) /\ SecondEnd(b) <= Len(b)

LEMMA StreamProofIs ==
  ASSUME NEW b \in Units
  PROVE  StreamProof(b) = IF StreamFits(b) THEN <<ProofAt(b)>> ELSE Refused
<1>1. Len(b) \in Nat
  BY ConcatUnits, NoUnits
<1>2. PICK n1 : n1 = b[2]
  OBVIOUS
<1>3. PICK o : o = 3 + 2 * n1 /\ o = FirstEnd(b)
  BY <1>2 DEF FirstEnd
<1>4. PICK n2 : n2 = b[o + 1]
  OBVIOUS
<1>5. PICK h : h = o + 2 + 2 * n2 /\ h = SecondEnd(b)
  BY <1>3, <1>4 DEF SecondEnd
<1>6. ProofAt(b) = [Leaf |-> b[1], L1 |-> PathAt(b, 3, n1), SubtreeRoot |-> b[o],
                    L2 |-> PathAt(b, o + 2, n2), Header |-> b[h]]
  BY <1>2, <1>3, <1>4, <1>5 DEF ProofAt
<1>7. StreamProof(b) =
        IF Len(b) < 2 \/ n1 > StackLimit \/ Len(b) < o + 1 THEN Refused
        ELSE IF Len(b) < h THEN Refused
        ELSE <<[Leaf |-> b[1], L1 |-> PathAt(b, 3, n1), SubtreeRoot |-> b[o],
                L2 |-> PathAt(b, o + 2, n2), Header |-> b[h]]>>
  BY <1>2, <1>3, <1>4, <1>5 DEF StreamProof
<1>8. CASE ~(2 <= Len(b))
  BY <1>1, <1>7, <1>8 DEF StreamFits
<1>9. CASE 2 <= Len(b)
  <2>1. n1 \in Nat /\ o \in Nat
    BY <1>1, <1>2, <1>3, <1>9, FromNext
  <2>2. CASE ~(n1 <= StackLimit) \/ ~(o + 1 <= Len(b))
    <3>1. n1 > StackLimit \/ Len(b) < o + 1
      <4>1. CASE ~(n1 <= StackLimit)
        BY <2>1, <4>1, Limits
      <4>2. CASE ~(o + 1 <= Len(b))
        BY <1>1, <2>1, <4>2
      <4> QED BY <2>2, <4>1, <4>2
    <3>2. StreamProof(b) = Refused
      BY <1>7, <3>1
    <3>3. ~StreamFits(b)
      BY <1>2, <1>3, <2>2 DEF StreamFits
    <3> QED BY <3>2, <3>3
  <2>3. CASE n1 <= StackLimit /\ o + 1 <= Len(b)
    <3>1. PICK p \in Nat : p = o + 1 /\ 1 <= p /\ p <= Len(b)
      BY <2>1, <2>3
    <3>2. n2 \in Nat /\ h \in Nat
      BY <1>4, <1>5, <2>1, <3>1, FromNext
    <3>3. ~(Len(b) < 2) /\ ~(n1 > StackLimit) /\ ~(Len(b) < o + 1)
      BY <1>1, <1>9, <2>1, <2>3, Limits
    <3>4. Len(b) < h <=> ~(h <= Len(b))
      BY <1>1, <3>2
    <3>5. StreamFits(b) <=> h <= Len(b)
      BY <1>2, <1>3, <1>5, <1>9, <2>3 DEF StreamFits
    <3> QED BY <1>6, <1>7, <3>3, <3>4, <3>5
  <2> QED BY <2>2, <2>3
<1> QED BY <1>8, <1>9

LEMMA PathAtLen == \A b, o : \A n \in Nat : Len(PathAt(b, o, n)) = n
BY DEF PathAt

\* One proof, one parser against the other.
LEMMA StreamsAsRead ==
  ASSUME NEW b \in Units
  PROVE  /\ ProofFits(b) /\ ~StreamFits(b) => Len(ProofAt(b).L1) > StackLimit
         /\ StreamFits(b) /\ ~ProofFits(b) => Len(ProofAt(b).L2) > BatchLimit
<1>1. PICK n1, o, n2, h : n1 = b[2] /\ o = FirstEnd(b) /\ n2 = b[o + 1] /\ h = SecondEnd(b)
  OBVIOUS
<1>2. Len(b) \in Nat
  BY ConcatUnits, NoUnits
<1>3. o = 3 + 2 * n1 /\ h = o + 2 + 2 * n2
  BY <1>1 DEF FirstEnd, SecondEnd
<1>4. ProofAt(b).L1 = PathAt(b, 3, n1) /\ ProofAt(b).L2 = PathAt(b, o + 2, n2)
  BY <1>1, <1>3 DEF ProofAt
<1>5. ASSUME ProofFits(b), ~StreamFits(b) PROVE Len(ProofAt(b).L1) > StackLimit
  <2>1. /\ 2 <= Len(b) /\ n1 <= BatchLimit /\ o <= Len(b)
        /\ o + 1 <= Len(b) /\ h <= Len(b)
    BY <1>1, <1>5 DEF ProofFits, PathFits
  <2>2. n1 \in Nat
    BY <1>1, <2>1, FromNext
  <2>3. ~(n1 <= StackLimit)
    BY <1>1, <1>5, <2>1 DEF StreamFits
  <2>4. Len(ProofAt(b).L1) = n1
    BY <1>4, <2>2, PathAtLen
  <2> QED BY <2>2, <2>3, <2>4, Limits
<1>6. ASSUME StreamFits(b), ~ProofFits(b) PROVE Len(ProofAt(b).L2) > BatchLimit
  <2>1. 2 <= Len(b) /\ n1 <= StackLimit /\ o + 1 <= Len(b) /\ h <= Len(b)
    BY <1>1, <1>6 DEF StreamFits
  <2>2. n1 \in Nat /\ o \in Nat
    <3>1. n1 \in Nat
      BY <1>1, <2>1, FromNext
    <3> QED BY <1>3, <3>1
  <2>3. PICK p \in Nat : p = o + 1 /\ 1 <= p /\ p <= Len(b)
    BY <2>1, <2>2
  <2>4. n2 \in Nat
    BY <1>1, <2>3, FromNext
  <2>5. StackLimit \in Nat /\ BatchLimit \in Nat /\ StackLimit < BatchLimit
    BY CodecAssumption
  <2>6. PathFits(b, 2)
    <3>1. n1 <= BatchLimit
      BY <2>1, <2>2, <2>5
    <3>2. 2 + 1 + 2 * n1 <= Len(b) + 1
      BY <1>2, <1>3, <2>1, <2>2
    <3> QED BY <1>1, <2>1, <3>1, <3>2 DEF PathFits
  <2>7. ~(n2 <= BatchLimit)
    <3> SUFFICES ASSUME n2 <= BatchLimit PROVE FALSE
      OBVIOUS
    <3>1. o + 1 + 1 + 2 * n2 <= Len(b) + 1
      BY <1>2, <1>3, <2>1, <2>2, <2>4
    <3>2. PathFits(b, o + 1)
      BY <1>1, <2>1, <3>1 DEF PathFits
    <3>3. o <= Len(b)
      BY <1>2, <2>1, <2>2
    <3> QED BY <1>1, <1>6, <2>1, <2>6, <3>2, <3>3 DEF ProofFits
  <2>8. Len(ProofAt(b).L2) = n2
    BY <1>4, <2>4, PathAtLen
  <2> QED BY <2>4, <2>5, <2>7, <2>8
<1> QED BY <1>5, <1>6

FrameOf(u, o) == SubSeq(u, o + 1, o + u[o])
AnyProof == Framed(ProofReader, FALSE)

LEMMA AnyProofAt ==
  ASSUME NEW u \in Units, NEW o \in Nat, 1 <= o, o <= Len(u) + 1
  PROVE  /\ FrameFits(u, o) /\ ProofFits(FrameOf(u, o)) =>
              AnyProof[From(u, o)] = Done(ProofAt(FrameOf(u, o)), From(u, o + 1 + u[o]))
         /\ ~(FrameFits(u, o) /\ ProofFits(FrameOf(u, o))) => ~AnyProof[From(u, o)].ok
<1>1. PICK x \in Units : x = From(u, o)
  BY FromIs
<1>2. AnyProof[x] =
        LET frame == Frames[x]
            r     == ProofReader[frame.value]
        IN  IF frame.ok /\ r.ok THEN Done(r.value, frame.rest) ELSE Truncated
  BY DEF AnyProof, Framed, Frames
<1>3. ASSUME ~FrameFits(u, o) PROVE ~AnyProof[x].ok
  <2>1. ~Frames[x].ok
    BY <1>1, <1>3, FrameAt
  <2>2. AnyProof[x] = Truncated
    BY <1>2, <2>1
  <2> QED BY <2>2, TruncatedIs
<1>4. ASSUME FrameFits(u, o)
      PROVE  /\ ProofFits(FrameOf(u, o)) =>
                  AnyProof[x] = Done(ProofAt(FrameOf(u, o)), From(u, o + 1 + u[o]))
             /\ ~ProofFits(FrameOf(u, o)) => ~AnyProof[x].ok
  <2>1. PICK b \in Units : b = FrameOf(u, o) /\ Frames[x] = Done(b, From(u, o + 1 + u[o]))
    BY <1>1, <1>4, FrameAt DEF FrameOf
  <2>2. Frames[x].ok
    BY <2>1, DoneOk
  <2>3. Frames[x].value = b /\ Frames[x].rest = From(u, o + 1 + u[o])
    BY <2>1, DoneIs
  <2>4. ASSUME ProofFits(b) PROVE AnyProof[x] = Done(ProofAt(b), From(u, o + 1 + u[o]))
    <3>1. PICK rest \in Units : ProofReader[b] = Done(ProofAt(b), rest)
      BY <2>4, ProofReaderAt
    <3>2. ProofReader[b].ok
      BY <3>1, DoneOk
    <3>3. ProofReader[b].value = ProofAt(b)
      BY <3>1, DoneIs
    <3> QED BY <1>2, <2>2, <2>3, <3>2, <3>3
  <2>5. ASSUME ~ProofFits(b) PROVE ~AnyProof[x].ok
    <3>1. ~ProofReader[b].ok
      BY <2>5, ProofReaderAt
    <3>2. AnyProof[x] = Truncated
      BY <1>2, <2>3, <3>1
    <3> QED BY <3>2, TruncatedIs
  <2> QED BY <2>1, <2>4, <2>5
<1> QED BY <1>1, <1>3, <1>4

-----------------------------------------------------------------------------
\* The state of VerifyWire's loop.
Going(o, ps) == <<[off |-> o, proofs |-> ps]>>

LEMMA GoingIs ==
  \A o, ps : Going(o, ps)[1].off = o /\ Going(o, ps)[1].proofs = ps /\ Going(o, ps) # Refused
BY DEF Going, Refused

LEMMA StreamStays ==
  ASSUME NEW u
  PROVE  StreamNext(Refused, u) = Refused
BY DEF StreamNext

LEMMA StreamStops ==
  ASSUME NEW u \in Units, NEW o \in Nat, 1 <= o, o <= Len(u) + 1, NEW ps,
         ~(FrameFits(u, o) /\ StreamFits(FrameOf(u, o)))
  PROVE  StreamNext(Going(o, ps), u) = Refused
<1>1. PICK s : s = Going(o, ps)
  OBVIOUS
<1>2. s[1].off = o
  BY <1>1, GoingIs
<1>3. Len(u) \in Nat
  BY ConcatUnits, NoUnits
<1>5. StreamNext(s, u) =
        IF s = Refused \/ o > Len(u) THEN Refused
        ELSE IF o + u[o] > Len(u) \/ StreamProof(FrameOf(u, o)) = Refused THEN Refused
        ELSE <<[off |-> o + 1 + u[o], proofs |-> Append(s[1].proofs, StreamProof(FrameOf(u, o))[1])]>>
  BY <1>2 DEF StreamNext, FrameOf
<1>6. o > Len(u) \/ o + u[o] > Len(u) \/ StreamProof(FrameOf(u, o)) = Refused
  <2>1. CASE ~(o <= Len(u))
    BY <1>3, <2>1
  <2>2. CASE o <= Len(u) /\ ~(o + u[o] <= Len(u))
    <3>1. PICK n \in Nat : n = u[o]
      BY <2>2, FromNext
    <3> QED BY <1>3, <2>2, <3>1
  <2>3. CASE o <= Len(u) /\ o + u[o] <= Len(u)
    <3>1. FrameFits(u, o)
      BY <2>3 DEF FrameFits
    <3>2. PICK b \in Units : b = FrameOf(u, o)
      BY <3>1, FrameAt DEF FrameOf
    <3>3. StreamProof(b) = Refused
      BY <3>1, <3>2, StreamProofIs
    <3> QED BY <3>2, <3>3
  <2> QED BY <2>1, <2>2, <2>3
<1>7. StreamNext(s, u) = Refused
  BY <1>5, <1>6, Zenon
<1> QED BY <1>1, <1>7

LEMMA StreamGoesOn ==
  ASSUME NEW u \in Units, NEW o \in Nat, 1 <= o, o <= Len(u) + 1, NEW ps,
         FrameFits(u, o), StreamFits(FrameOf(u, o))
  PROVE  /\ StreamNext(Going(o, ps), u) = Going(o + 1 + u[o], Append(ps, ProofAt(FrameOf(u, o))))
         /\ o + 1 + u[o] \in Nat /\ o + 1 + u[o] <= Len(u) + 1 /\ 1 <= o + 1 + u[o]
<1>1. PICK s : s = Going(o, ps)
  OBVIOUS
<1>2. s[1].off = o /\ s[1].proofs = ps /\ s # Refused
  BY <1>1, GoingIs
<1>3. Len(u) \in Nat
  BY ConcatUnits, NoUnits
<1>4. PICK b \in Units : b = FrameOf(u, o)
  BY FrameAt DEF FrameOf
<1>5. StreamProof(b) = <<ProofAt(b)>>
  BY <1>4, StreamProofIs
<1>6. PICK n \in Nat : n = u[o] /\ o <= Len(u) /\ o + n <= Len(u)
  <2>1. o <= Len(u) /\ o + u[o] <= Len(u)
    BY DEF FrameFits
  <2> QED BY <2>1, FromNext
<1>7. ~(o > Len(u)) /\ ~(o + n > Len(u)) /\ o + 1 + n \in Nat /\ o + 1 + n <= Len(u) + 1 /\ 1 <= o + 1 + n
  BY <1>3, <1>6
<1>9. StreamNext(s, u) =
        IF s = Refused \/ o > Len(u) THEN Refused
        ELSE IF o + n > Len(u) \/ StreamProof(b) = Refused THEN Refused
        ELSE <<[off |-> o + 1 + n, proofs |-> Append(ps, StreamProof(b)[1])]>>
  BY <1>2, <1>4, <1>6 DEF StreamNext, FrameOf
<1>10. StreamProof(b) # Refused /\ StreamProof(b)[1] = ProofAt(b)
  BY <1>5 DEF Refused
<1>11. StreamNext(s, u) = <<[off |-> o + 1 + n, proofs |-> Append(ps, ProofAt(b))]>>
  BY <1>2, <1>7, <1>9, <1>10
<1> QED BY <1>1, <1>4, <1>6, <1>7, <1>11 DEF Going

\* The loop is what its definition says, one proof after another.
LoopState(u, n, a) ==
  /\ a[0] = Going(2, << >>)
  /\ \A i \in 1..n : a[i] = StreamNext(a[i - 1], u)

LEMMA LoopIs ==
  ASSUME NEW u \in Units, u # << >>, NEW n \in Nat, n = u[1]
  PROVE  \E a : /\ LoopState(u, n, a)
                /\ StreamBatch(u) = IF a[n] = Refused THEN Refused ELSE <<a[n][1].proofs>>
<1> DEFINE N(f, k) == [i \in 0..k |-> IF i = 0 THEN Going(2, << >>) ELSE StreamNext(f[i - 1], u)]
           S == {k \in Nat : \E f : f = N(f, k)}
<1>8. StreamBatch(u) =
        LET r == CHOOSE f : f = [i \in 0..u[1] |->
                                   IF i = 0 THEN Going(2, << >>) ELSE StreamNext(f[i - 1], u)]
        IN  IF u = << >> \/ r[u[1]] = Refused THEN Refused ELSE <<r[u[1]][1].proofs>>
  BY DEF StreamBatch, Going
<1>1. PICK r : /\ r = (CHOOSE f : f = N(f, n))
               /\ StreamBatch(u) = IF r[n] = Refused THEN Refused ELSE <<r[n][1].proofs>>
  BY <1>8
<1>2. 0 \in S
  <2> DEFINE f == [i \in 0..0 |-> Going(2, << >>)]
  <2>1. f = N(f, 0)
    OBVIOUS
  <2> QED BY <2>1
<1>3. ASSUME NEW k \in Nat, k \in S PROVE k + 1 \in S
  <2>1. PICK f : f = N(f, k)
    BY <1>3
  <2> DEFINE h == [i \in 0..(k + 1) |-> IF i <= k THEN f[i] ELSE StreamNext(f[k], u)]
  <2>2. \A i \in 0..k : f[i] = IF i = 0 THEN Going(2, << >>) ELSE StreamNext(f[i - 1], u)
    BY <2>1
  <2>3. ASSUME NEW i \in 0..(k + 1)
        PROVE  h[i] = IF i = 0 THEN Going(2, << >>) ELSE StreamNext(h[i - 1], u)
    <3>1. CASE i <= k
      BY <2>2, <3>1
    <3>2. CASE i = k + 1
      BY <3>2
    <3> QED BY <3>1, <3>2
  <2>4. h = [i \in 0..(k + 1) |-> h[i]]
    OBVIOUS
  <2> HIDE DEF h
  <2>5. h = N(h, k + 1)
    BY <2>3, <2>4
  <2> HIDE DEF N
  <2>6. \E v : v = N(v, k + 1)
    BY <2>5
  <2> QED BY <2>6
<1>4. \A k \in Nat : k \in S
  <2> HIDE DEF S
  <2> QED BY <1>2, <1>3, Induction
<1>5. r = N(r, n)
  <2>1. \E f : f = N(f, n)
    BY <1>4
  <2> HIDE DEF N
  <2> QED BY <1>1, <2>1
<1>6. r[0] = Going(2, << >>)
  BY <1>5
<1>7. \A i \in 1..n : r[i] = StreamNext(r[i - 1], u)
  BY <1>5
<1> QED BY <1>1, <1>6, <1>7 DEF LoopState

\* A list of k things.
IsListOf(ps, k) == ps = FirstOf(ps, k)

LongerBy(q, ps, k, x) == IsListOf(q, k + 1) /\ q[k + 1] = x /\ \A i \in 1..k : q[i] = ps[i]

LEMMA AppendCounts ==
  ASSUME NEW k \in Nat, NEW ps, IsListOf(ps, k), NEW x
  PROVE  LongerBy(Append(ps, x), ps, k, x)
<1>1. PICK v : v = [i \in Nat |-> IF i <= k THEN ps[i] ELSE x]
  OBVIOUS
<1>2. FirstOf(v, k) = ps
  BY <1>1 DEF FirstOf, IsListOf
<1>3. v[k + 1] = x
  BY <1>1
<1>4. Append(ps, x) = FirstOf(v, k + 1)
  BY <1>2, <1>3, FirstOfNext
<1>5. PICK q : q = FirstOf(v, k + 1)
  OBVIOUS
<1>6. \A i \in 1..(k + 1) : q[i] = v[i]
  BY <1>5 DEF FirstOf
<1>7. q = FirstOf(q, k + 1)
  BY <1>5 DEF FirstOf
<1>8. q[k + 1] = x
  <2>1. k + 1 \in 1..(k + 1)
    OBVIOUS
  <2> QED BY <1>3, <1>6, <2>1
<1>9. \A i \in 1..k : q[i] = ps[i]
  <2> TAKE i \in 1..k
  <2>1. i \in 1..(k + 1) /\ i \in Nat /\ i <= k
    OBVIOUS
  <2>2. v[i] = ps[i]
    BY <1>1, <2>1
  <2> QED BY <1>6, <2>1, <2>2
<1>10. LongerBy(q, ps, k, x)
  BY <1>7, <1>8, <1>9 DEF IsListOf, LongerBy
<1> QED BY <1>4, <1>5, <1>10

\* A proof that only one of the two parsers takes.
TooDeep(ps, k) == \E i \in 1..k : Len(ps[i].L1) > StackLimit
TooWide(ps, k) == \E i \in 1..k : Len(ps[i].L2) > BatchLimit

LEMMA AppendKeeps ==
  ASSUME NEW k \in Nat, NEW ps, IsListOf(ps, k), NEW x
  PROVE  /\ TooDeep(ps, k) \/ Len(x.L1) > StackLimit => TooDeep(Append(ps, x), k + 1)
         /\ TooWide(ps, k) \/ Len(x.L2) > BatchLimit => TooWide(Append(ps, x), k + 1)
<1>1. PICK q : q = Append(ps, x)
  OBVIOUS
<1>6. LongerBy(q, ps, k, x)
  BY <1>1, AppendCounts
<1>2. q[k + 1] = x /\ \A i \in 1..k : q[i] = ps[i]
  BY <1>6 DEF LongerBy
<1>3. k + 1 \in 1..(k + 1) /\ \A i \in 1..k : i \in 1..(k + 1)
  OBVIOUS
<1>4. TooDeep(ps, k) \/ Len(x.L1) > StackLimit => TooDeep(q, k + 1)
  BY <1>2, <1>3 DEF TooDeep
<1>5. TooWide(ps, k) \/ Len(x.L2) > BatchLimit => TooWide(q, k + 1)
  BY <1>2, <1>3 DEF TooWide
<1> QED BY <1>1, <1>4, <1>5

\* After k proofs: the loop's state s, and what the reader has read, d.
Together(u, k, s, d) ==
  \E ps : \E o \in Nat : /\ 1 <= o /\ o <= Len(u) + 1 /\ IsListOf(ps, k)
                            /\ s = Going(o, ps) /\ d = Done(ps, From(u, o))
BothRefuse(s, d) == s = Refused /\ ~d.ok
ReaderAlone(k, s, d) ==
  /\ s = Refused /\ d.ok
  /\ IsListOf(d.value, k) /\ TooDeep(d.value, k)
LoopAlone(u, k, s, d) ==
  /\ ~d.ok
  /\ \E ps : \E o \in Nat : /\ 1 <= o /\ o <= Len(u) + 1 /\ IsListOf(ps, k)
                               /\ s = Going(o, ps) /\ TooWide(ps, k)
Lockstep(u, k, s, d) ==
  Together(u, k, s, d) \/ BothRefuse(s, d) \/ ReaderAlone(k, s, d) \/ LoopAlone(u, k, s, d)

\* The loop refuses and goes on refusing, whatever the reader does.
LEMMA RefusedLockstep ==
  ASSUME NEW u \in Units, NEW k \in Nat, NEW R, NEW t \in Units, NEW d, d = R[t],
         BothRefuse(Refused, d) \/ ReaderAlone(k, Refused, d)
  PROVE  Lockstep(u, k + 1, StreamNext(Refused, u), Both(R, AnyProof)[t])
<1>1. PICK e : e = Both(R, AnyProof)[t]
  OBVIOUS
<1>2. CASE ~d.ok \/ ~AnyProof[d.rest].ok
  <2>1. e = Truncated
    BY <1>1, <1>2, BothIs
  <2>2. BothRefuse(Refused, e)
    BY <2>1, TruncatedIs DEF BothRefuse
  <2> QED BY <1>1, <2>2, StreamStays DEF Lockstep
<1>3. CASE d.ok /\ AnyProof[d.rest].ok
  <2>1. PICK x, rest, ps : x = AnyProof[d.rest].value /\ rest = AnyProof[d.rest].rest /\ ps = d.value
    OBVIOUS
  <2>2. e = Done(Append(ps, x), rest)
    BY <1>1, <1>3, <2>1, BothIs
  <2>3. IsListOf(ps, k) /\ TooDeep(ps, k)
    BY <1>3, <2>1 DEF BothRefuse, ReaderAlone
  <2>4. IsListOf(Append(ps, x), k + 1) /\ TooDeep(Append(ps, x), k + 1)
    BY <2>3, AppendCounts, AppendKeeps DEF LongerBy
  <2>5. e.ok
    BY <2>2, DoneOk
  <2>6. e.value = Append(ps, x)
    BY <2>2, DoneIs
  <2>7. ReaderAlone(k + 1, Refused, e)
    BY <2>4, <2>5, <2>6 DEF ReaderAlone
  <2> QED BY <1>1, <2>7, StreamStays DEF Lockstep
<1> QED BY <1>2, <1>3

\* The loop goes on where the reader has refused.
LEMMA AloneLockstep ==
  ASSUME NEW u \in Units, NEW k \in Nat, NEW R, NEW t \in Units, NEW d, d = R[t], NEW s,
         LoopAlone(u, k, s, d)
  PROVE  Lockstep(u, k + 1, StreamNext(s, u), Both(R, AnyProof)[t])
<1>1. PICK e : e = Both(R, AnyProof)[t]
  OBVIOUS
<1>7. PICK ps : \E o \in Nat : /\ 1 <= o /\ o <= Len(u) + 1 /\ IsListOf(ps, k)
                               /\ s = Going(o, ps) /\ TooWide(ps, k)
  BY DEF LoopAlone
<1>2. PICK o \in Nat : /\ 1 <= o /\ o <= Len(u) + 1 /\ IsListOf(ps, k)
                      /\ s = Going(o, ps) /\ TooWide(ps, k)
  BY <1>7
<1>3. e = Truncated
  BY <1>1, BothIs DEF LoopAlone
<1>4. ~e.ok
  BY <1>3, TruncatedIs
<1>5. CASE FrameFits(u, o) /\ StreamFits(FrameOf(u, o))
  <2>1. PICK x : x = ProofAt(FrameOf(u, o))
    OBVIOUS
  <2>2. PICK n \in Nat : n = o + 1 + u[o] /\ 1 <= n /\ n <= Len(u) + 1
    BY <1>2, <1>5, StreamGoesOn
  <2>3. StreamNext(s, u) = Going(n, Append(ps, x))
    BY <1>2, <1>5, <2>1, <2>2, StreamGoesOn
  <2>4. IsListOf(Append(ps, x), k + 1) /\ TooWide(Append(ps, x), k + 1)
    BY <1>2, AppendCounts, AppendKeeps DEF LongerBy
  <2>5. LoopAlone(u, k + 1, StreamNext(s, u), e)
    BY <1>4, <2>2, <2>3, <2>4 DEF LoopAlone
  <2> QED BY <1>1, <2>5 DEF Lockstep
<1>6. CASE ~(FrameFits(u, o) /\ StreamFits(FrameOf(u, o)))
  <2>1. StreamNext(s, u) = Refused
    BY <1>2, <1>6, StreamStops
  <2> QED BY <1>1, <1>4, <2>1 DEF BothRefuse, Lockstep
<1> QED BY <1>5, <1>6

\* Both have taken the same: what the next proof does to them.
LEMMA TogetherLockstep ==
  ASSUME NEW u \in Units, NEW k \in Nat, NEW R, NEW t \in Units, NEW d, d = R[t], NEW s,
         Together(u, k, s, d)
  PROVE  Lockstep(u, k + 1, StreamNext(s, u), Both(R, AnyProof)[t])
<1>1. PICK e : e = Both(R, AnyProof)[t]
  OBVIOUS
<1>2. PICK ps : \E o \in Nat : /\ 1 <= o /\ o <= Len(u) + 1 /\ IsListOf(ps, k)
                               /\ s = Going(o, ps) /\ d = Done(ps, From(u, o))
  BY DEF Together
<1>3. PICK o \in Nat : /\ 1 <= o /\ o <= Len(u) + 1 /\ IsListOf(ps, k)
                      /\ s = Going(o, ps) /\ d = Done(ps, From(u, o))
  BY <1>2
<1>4. d.ok
  BY <1>3, DoneOk
<1>5. d.value = ps /\ d.rest = From(u, o)
  BY <1>3, DoneIs
<1>6. PICK x : x = ProofAt(FrameOf(u, o))
  OBVIOUS
<1>7. PICK n : n = o + 1 + u[o]
  OBVIOUS
<1>8. PICK q : q = Append(ps, x)
  OBVIOUS
<1>9. LongerBy(q, ps, k, x)
  BY <1>3, <1>8, AppendCounts
<1>10. IsListOf(q, k + 1)
  BY <1>9 DEF LongerBy
<1>11. FrameFits(u, o) /\ StreamFits(FrameOf(u, o)) =>
         StreamNext(s, u) = Going(n, q) /\ n \in Nat /\ 1 <= n /\ n <= Len(u) + 1
  BY <1>3, <1>6, <1>7, <1>8, StreamGoesOn
<1>12. ~(FrameFits(u, o) /\ StreamFits(FrameOf(u, o))) => StreamNext(s, u) = Refused
  BY <1>3, StreamStops
<1>13. ASSUME FrameFits(u, o), ProofFits(FrameOf(u, o)) PROVE e = Done(q, From(u, n))
  <2>1. AnyProof[From(u, o)] = Done(x, From(u, n))
    BY <1>3, <1>6, <1>7, <1>13, AnyProofAt
  <2>2. PICK a : a = AnyProof[d.rest]
    OBVIOUS
  <2>3. a = Done(x, From(u, n))
    BY <1>5, <2>1, <2>2
  <2>4. a.ok
    BY <2>3, DoneOk
  <2>5. a.value = x /\ a.rest = From(u, n)
    BY <2>3, DoneIs
  <2>6. e = Done(Append(d.value, a.value), a.rest)
    BY <1>1, <1>4, <2>2, <2>4, BothIs
  <2> QED BY <1>5, <1>8, <2>5, <2>6
<1>14. ASSUME ~(FrameFits(u, o) /\ ProofFits(FrameOf(u, o))) PROVE ~e.ok
  <2>1. ~AnyProof[d.rest].ok
    BY <1>3, <1>5, <1>14, AnyProofAt
  <2>2. e = Truncated
    BY <1>1, <2>1, BothIs
  <2> QED BY <2>2, TruncatedIs
<1>15. FrameFits(u, o) => FrameOf(u, o) \in Units
  BY <1>3, FrameAt DEF FrameOf
<1>16. CASE ~FrameFits(u, o)
  <2>1. BothRefuse(StreamNext(s, u), e)
    BY <1>12, <1>14, <1>16 DEF BothRefuse
  <2> QED BY <1>1, <2>1 DEF Lockstep
<1>17. CASE FrameFits(u, o)
  <2>1. PICK b \in Units : b = FrameOf(u, o)
    BY <1>15, <1>17
  <2>2. CASE ProofFits(b) /\ StreamFits(b)
    <3>1. Together(u, k + 1, StreamNext(s, u), e)
      BY <1>10, <1>11, <1>13, <1>17, <2>1, <2>2 DEF Together
    <3> QED BY <1>1, <3>1 DEF Lockstep
  <2>3. CASE ~ProofFits(b) /\ ~StreamFits(b)
    <3>1. BothRefuse(StreamNext(s, u), e)
      BY <1>12, <1>14, <2>1, <2>3 DEF BothRefuse
    <3> QED BY <1>1, <3>1 DEF Lockstep
  <2>4. CASE ProofFits(b) /\ ~StreamFits(b)
    <3>1. e = Done(q, From(u, n)) /\ StreamNext(s, u) = Refused
      BY <1>12, <1>13, <1>17, <2>1, <2>4
    <3>2. Len(x.L1) > StackLimit
      BY <1>6, <2>1, <2>4, StreamsAsRead
    <3>3. TooDeep(q, k + 1)
      BY <1>3, <1>8, <3>2, AppendKeeps
    <3>4. e.ok
      BY <3>1, DoneOk
    <3>5. e.value = q
      BY <3>1, DoneIs
    <3>6. ReaderAlone(k + 1, StreamNext(s, u), e)
      BY <1>10, <3>1, <3>3, <3>4, <3>5 DEF ReaderAlone
    <3> QED BY <1>1, <3>6 DEF Lockstep
  <2>5. CASE ~ProofFits(b) /\ StreamFits(b)
    <3>1. ~e.ok
      BY <1>14, <2>1, <2>5
    <3>2. StreamNext(s, u) = Going(n, q) /\ n \in Nat /\ 1 <= n /\ n <= Len(u) + 1
      BY <1>11, <1>17, <2>1, <2>5
    <3>3. Len(x.L2) > BatchLimit
      BY <1>6, <2>1, <2>5, StreamsAsRead
    <3>4. TooWide(q, k + 1)
      BY <1>3, <1>8, <3>3, AppendKeeps
    <3>5. LoopAlone(u, k + 1, StreamNext(s, u), e)
      BY <1>10, <3>1, <3>2, <3>4 DEF LoopAlone
    <3> QED BY <1>1, <3>5 DEF Lockstep
  <2> QED BY <2>2, <2>3, <2>4, <2>5
<1> QED BY <1>16, <1>17

LEMMA LockstepGoesOn ==
  ASSUME NEW u \in Units, NEW k \in Nat, NEW R, NEW t \in Units, NEW s, Lockstep(u, k, s, R[t])
  PROVE  Lockstep(u, k + 1, StreamNext(s, u), Both(R, AnyProof)[t])
<1>1. PICK d : d = R[t]
  OBVIOUS
<1>2. CASE Together(u, k, s, d)
  BY <1>1, <1>2, TogetherLockstep
<1>3. CASE LoopAlone(u, k, s, d)
  BY <1>1, <1>3, AloneLockstep
<1>4. CASE BothRefuse(s, d) \/ ReaderAlone(k, s, d)
  <2>1. s = Refused
    BY <1>4 DEF BothRefuse, ReaderAlone
  <2>2. BothRefuse(Refused, d) \/ ReaderAlone(k, Refused, d)
    BY <1>4, <2>1
  <2> QED BY <1>1, <2>1, <2>2, RefusedLockstep
<1> QED BY <1>1, <1>2, <1>3, <1>4 DEF Lockstep

LEMMA LockstepAlways ==
  ASSUME NEW u \in Units, u # << >>, NEW n \in Nat, NEW a, LoopState(u, n, a),
         NEW r, r[0] = Nothing, \A i \in 1..n : r[i] = Both(r[i - 1], AnyProof)
  PROVE  Lockstep(u, n, a[n], r[n][From(u, 2)])
<1>1. PICK t \in Units : t = From(u, 2)
  <2>1. Len(u) \in Nat /\ Len(u) # 0
    BY ConcatUnits, NoUnits
  <2> QED BY <2>1, FromIs
<1> DEFINE S == {k \in Nat : k <= n => Lockstep(u, k, a[k], r[k][t])}
<1>2. 0 \in S
  <2>1. PICK o \in Nat : o = 2 /\ 1 <= o /\ o <= Len(u) + 1
    <3>1. Len(u) \in Nat /\ Len(u) # 0
      BY ConcatUnits, NoUnits
    <3> QED BY <3>1
  <2>2. PICK ps : ps = << >>
    OBVIOUS
  <2>3. IsListOf(ps, 0)
    BY <2>2 DEF IsListOf, FirstOf
  <2>4. a[0] = Going(o, ps)
    BY <2>1, <2>2 DEF LoopState
  <2>5. r[0][t] = Done(ps, From(u, o))
    BY <1>1, <2>1, <2>2 DEF Nothing
  <2>6. Together(u, 0, a[0], r[0][t])
    BY <2>1, <2>3, <2>4, <2>5 DEF Together
  <2> QED BY <2>6 DEF Lockstep
<1>3. ASSUME NEW k \in Nat, k \in S PROVE k + 1 \in S
  <2> SUFFICES ASSUME k + 1 <= n PROVE Lockstep(u, k + 1, a[k + 1], r[k + 1][t])
    OBVIOUS
  <2>1. Lockstep(u, k, a[k], r[k][t])
    BY <1>3
  <2>2. k + 1 \in 1..n /\ (k + 1) - 1 = k
    OBVIOUS
  <2>3. a[k + 1] = StreamNext(a[k], u) /\ r[k + 1] = Both(r[k], AnyProof)
    BY <2>2 DEF LoopState
  <2> QED BY <2>1, <2>3, LockstepGoesOn
<1>4. \A k \in Nat : k \in S
  <2> HIDE DEF S
  <2> QED BY <1>2, <1>3, Induction
<1> QED BY <1>1, <1>4

\* The two parsers of a batch, on any units.
SameOrTooLong(streamed, decoded) ==
  \/ streamed = decoded
  \/ /\ streamed = Refused
     /\ \E i \in DOMAIN decoded[1] : Len(decoded[1][i].L1) > StackLimit
  \/ /\ decoded = Refused
     /\ \E i \in DOMAIN streamed[1] : Len(streamed[1][i].L2) > BatchLimit

LEMMA BatchParsers ==
  ASSUME NEW u \in Units
  PROVE  SameOrTooLong(StreamBatch(u), DecodeBatch(u))
<1>1. PICK d : d = Many(AnyProof, Nat)[u]
  OBVIOUS
<1>2. DecodeBatch(u) = IF d.ok THEN <<d.value>> ELSE Refused
  BY <1>1 DEF DecodeBatch, Taken, AnyProof
<1>3. CASE u = << >>
  <2>1. d = Truncated
    BY <1>1, <1>3 DEF Many
  <2>2. DecodeBatch(u) = Refused
    BY <1>2, <2>1, TruncatedIs
  <2>3. StreamBatch(u) = Refused
    BY <1>3 DEF StreamBatch
  <2> QED BY <2>2, <2>3 DEF SameOrTooLong
<1>4. CASE u # << >>
  <2>1. Len(u) \in Nat /\ 1 <= Len(u)
    <3>1. Len(u) \in Nat /\ Len(u) # 0
      BY <1>4, ConcatUnits, NoUnits
    <3> QED BY <3>1
  <2>2. /\ u[1] \in Nat /\ Head(From(u, 1)) = u[1]
        /\ Tail(From(u, 1)) = From(u, 2) /\ From(u, 1) = u
    <3>1. PICK o \in Nat : o = 1 /\ 1 <= o /\ o <= Len(u) /\ o + 1 = 2
      BY <2>1
    <3>2. u[o] \in Nat /\ Head(From(u, o)) = u[o] /\ Tail(From(u, o)) = From(u, o + 1)
      BY <3>1, FromNext
    <3> QED BY <3>1, <3>2, FromFirst
  <2>3. PICK n \in Nat : n = u[1] /\ Head(u) = n /\ Tail(u) = From(u, 2)
    BY <2>2
  <2>4. PICK rs : rs = Copies(AnyProof, n)
    OBVIOUS
  <2>5. Len(rs) = n /\ \A i \in 1..n : rs[i] = AnyProof
    BY <2>4 DEF Copies
  <2>6. d = Each(rs)[From(u, 2)]
    BY <1>1, <1>4, <2>3, <2>4 DEF Many, Copies
  <2>7. PICK r : Each(rs) = r[n] /\ r[0] = Nothing /\ \A i \in 1..n : r[i] = Both(r[i - 1], rs[i])
    BY <2>5, EachIs
  <2>8. \A i \in 1..n : r[i] = Both(r[i - 1], AnyProof)
    BY <2>5, <2>7
  <2>9. PICK a : /\ LoopState(u, n, a)
                 /\ StreamBatch(u) = IF a[n] = Refused THEN Refused ELSE <<a[n][1].proofs>>
    BY <1>4, <2>3, LoopIs
  <2>10. Lockstep(u, n, a[n], d)
    BY <1>4, <2>6, <2>7, <2>8, <2>9, LockstepAlways
  <2>11. PICK s : s = a[n] /\ StreamBatch(u) = IF s = Refused THEN Refused ELSE <<s[1].proofs>>
    BY <2>9
  <2>12. CASE Together(u, n, s, d)
    <3>1. PICK ps : \E o \in Nat : s = Going(o, ps) /\ d = Done(ps, From(u, o))
      BY <2>12 DEF Together
    <3>2. PICK o \in Nat : s = Going(o, ps) /\ d = Done(ps, From(u, o))
      BY <3>1
    <3>3. d.ok
      BY <3>2, DoneOk
    <3>4. d.value = ps /\ s # Refused /\ s[1].proofs = ps
      BY <3>2, DoneIs, GoingIs
    <3>5. StreamBatch(u) = DecodeBatch(u)
      BY <1>2, <2>11, <3>3, <3>4
    <3> QED BY <3>5 DEF SameOrTooLong
  <2>13. CASE BothRefuse(s, d)
    <3>1. StreamBatch(u) = DecodeBatch(u)
      BY <1>2, <2>11, <2>13 DEF BothRefuse
    <3> QED BY <3>1 DEF SameOrTooLong
  <2>14. CASE ReaderAlone(n, s, d)
    <3>1. StreamBatch(u) = Refused /\ DecodeBatch(u)[1] = d.value
      BY <1>2, <2>11, <2>14 DEF ReaderAlone
    <3>2. PICK ps : ps = d.value /\ IsListOf(ps, n) /\ TooDeep(ps, n)
      BY <2>14 DEF ReaderAlone
    <3>3. DOMAIN ps = 1..n
      BY <3>2 DEF IsListOf, FirstOf
    <3>4. \E i \in DOMAIN ps : Len(ps[i].L1) > StackLimit
      BY <3>2, <3>3 DEF TooDeep
    <3> QED BY <3>1, <3>2, <3>4 DEF SameOrTooLong
  <2>15. CASE LoopAlone(u, n, s, d)
    <3>1. PICK ps : \E o \in Nat : s = Going(o, ps) /\ IsListOf(ps, n) /\ TooWide(ps, n)
      BY <2>15 DEF LoopAlone
    <3>2. PICK o \in Nat : s = Going(o, ps) /\ IsListOf(ps, n) /\ TooWide(ps, n)
      BY <3>1
    <3>3. StreamBatch(u)[1] = ps
      BY <2>11, <3>2, GoingIs
    <3>4. DecodeBatch(u) = Refused
      BY <1>2, <2>15 DEF LoopAlone
    <3>5. DOMAIN ps = 1..n
      BY <3>2 DEF IsListOf, FirstOf
    <3>6. \E i \in DOMAIN ps : Len(ps[i].L2) > BatchLimit
      BY <3>2, <3>5 DEF TooWide
    <3> QED BY <3>3, <3>4, <3>6 DEF SameOrTooLong
  <2> QED BY <2>10, <2>11, <2>12, <2>13, <2>14, <2>15 DEF Lockstep
<1> QED BY <1>3, <1>4

\* VerifyWire and DecodeBatch on whatever a batch has become: the same proofs,
\* unless one of them has an L1 path that VerifyWire has no room for on its
\* stack, or an L2 path that DecodeBatch takes no count of.
THEOREM ParsersTellTheSame == WireSpec => []ParsersAgree
<1>1. ASSUME WireInv PROVE ParsersAgree
  <2> SUFFICES ASSUME Format = "batch" PROVE SameOrTooLong(StreamBatch(wire), Received)
    BY DEF ParsersAgree, SameOrTooLong
  <2>1. PICK w \in Units : w = wire
    BY <1>1 DEF WireInv
  <2>2. Received = DecodeBatch(w)
    BY <2>1 DEF Received, DecodeAs
  <2> QED BY <2>1, <2>2, BatchParsers
<1> QED BY <1>1, WireKeepsItsEncoding, PTL
=============================================================================
