------------------------- MODULE ScenarioOrderProofs -------------------------
(***************************************************************************)
(* That a session runs its tests step by step in the requested order, and  *)
(* that a green ordered session has come to all of them that pytest left,  *)
(* for any markers, any kinds of tests and any number of tests and steps.  *)
(***************************************************************************)
EXTENDS ScenarioOrder, FiniteSetTheorems, NaturalsInduction, SequenceTheorems,
        WellFoundedInduction, TLAPS

------------------------------------------------------------------------------
(* What the recursions of the model compute.                               *)

(* Induction over the natural numbers, on a set. *)
LEMMA SetInduction ==
  ASSUME NEW S \in SUBSET Nat, 0 \in S, \A n \in S : n + 1 \in S
  PROVE  \A n \in Nat : n \in S
<1> DEFINE Less == OpToRel(<, Nat)
           R == Nat \ S
<1>1. \A m, n \in Nat : n < m => <<n, m>> \in Less
  <2> SUFFICES ASSUME NEW m \in Nat, NEW n \in Nat, n < m PROVE <<n, m>> \in Less
    OBVIOUS
  <2>1. <<n, m>> \in Nat \X Nat /\ <<n, m>>[1] = n /\ <<n, m>>[2] = m
    OBVIOUS
  <2> QED BY <2>1, Zenon DEF OpToRel
<1>2. IsWellFoundedOn(Less, Nat)
  BY NatLessThanWellFounded
<1>3. R \in SUBSET Nat
  OBVIOUS
<1> HIDE DEF Less
<1>4. CASE R # {}
  <2>1. PICK m \in R : \A n \in R : ~(<<n, m>> \in Less)
    <3> HIDE DEF R
    <3> QED BY <1>2, <1>3, <1>4, WFMin
  <2>2. m \in Nat /\ m \notin S /\ m # 0
    BY <2>1
  <2>3. m - 1 \in Nat /\ m - 1 < m
    BY <2>2
  <2>4. m - 1 \in S
    BY <1>1, <2>1, <2>2, <2>3
  <2>5. (m - 1) + 1 \in S /\ (m - 1) + 1 = m
    BY <2>2, <2>4
  <2> QED BY <2>2, <2>5
<1> QED BY <1>4

(* The loop over the collected tests, for one marker. *)
GroupFcn(F, marker, n) ==
    F = [i \in 0..n |->
           IF i = 0 THEN <<>>
           ELSE IF marker \in items[i].steps THEN Append(F[i - 1], i)
                                             ELSE F[i - 1]]

LEMMA GroupFcnExists ==
  ASSUME NEW marker
  PROVE  \A n \in Nat : \E F : GroupFcn(F, marker, n)
<1> DEFINE S == {n \in Nat : \E F : GroupFcn(F, marker, n)}
<1>1. 0 \in S
  <2> DEFINE F == [i \in 0..0 |-> <<>>]
  <2>1. GroupFcn(F, marker, 0)
    BY DEF GroupFcn
  <2> QED BY <2>1
<1>2. ASSUME NEW n \in S PROVE n + 1 \in S
  <2>1. n \in Nat
    OBVIOUS
  <2>2. PICK F : GroupFcn(F, marker, n)
    OBVIOUS
  <2>3. \A i \in 0..n : F[i] = IF i = 0 THEN <<>>
                               ELSE IF marker \in items[i].steps THEN Append(F[i - 1], i)
                                                                 ELSE F[i - 1]
    BY <2>2 DEF GroupFcn
  <2> DEFINE G == [i \in 0..(n + 1) |->
                     IF i = n + 1
                     THEN IF marker \in items[n + 1].steps THEN Append(F[n], n + 1) ELSE F[n]
                     ELSE F[i]]
             H == [i \in 0..(n + 1) |->
                     IF i = 0 THEN <<>>
                     ELSE IF marker \in items[i].steps THEN Append(G[i - 1], i)
                                                       ELSE G[i - 1]]
  <2>4. \A i \in 0..(n + 1) : i # n + 1 => i \in 0..n /\ G[i] = F[i]
    BY <2>1
  <2>5. G[n + 1] = IF marker \in items[n + 1].steps THEN Append(F[n], n + 1) ELSE F[n]
    BY <2>1
  <2>6. \A i \in 0..(n + 1) :
           H[i] = IF i = 0 THEN <<>>
                  ELSE IF marker \in items[i].steps THEN Append(G[i - 1], i) ELSE G[i - 1]
    OBVIOUS
  <2>7. ASSUME NEW i \in 0..(n + 1) PROVE G[i] = H[i]
    <3> HIDE DEF G, H
    <3>1. CASE i = 0
      BY <2>1, <2>3, <2>4, <2>6, <3>1
    <3>2. CASE i # 0
      <4>1. i - 1 \in 0..(n + 1) /\ i - 1 # n + 1
        BY <2>1, <3>2
      <4>2. G[i - 1] = F[i - 1]
        BY <2>4, <4>1
      <4>3. CASE i = n + 1
        <5>1. i - 1 = n
          BY <2>1, <4>3
        <5> QED BY <2>5, <2>6, <3>2, <4>2, <4>3, <5>1
      <4>4. CASE i # n + 1
        BY <2>3, <2>4, <2>6, <3>2, <4>2, <4>4
      <4> QED BY <4>3, <4>4
    <3> QED BY <3>1, <3>2
  <2>8. G = H
    BY <2>7
  <2>9. GroupFcn(G, marker, n + 1)
    <3> HIDE DEF G
    <3> QED BY <2>8 DEF GroupFcn
  <2> QED BY <2>1, <2>9
<1>3. S \in SUBSET Nat
  OBVIOUS
<1> HIDE DEF S
<1>4. \A n \in Nat : n \in S
  BY <1>1, <1>2, <1>3, SetInduction
<1> QED BY <1>4 DEF S

(* g lists the tests of a step among the first n, in their order. *)
Lists(g, marker, n) ==
    /\ g \in Seq(Nat)
    /\ \A m \in 1..Len(g) : g[m] \in 1..n /\ marker \in items[g[m]].steps
    /\ \A m, k \in 1..Len(g) : m < k => g[m] < g[k]
    /\ \A j \in 1..n : marker \in items[j].steps => \E m \in 1..Len(g) : g[m] = j

LEMMA ListsMore ==
  ASSUME NEW marker, NEW n \in Nat, NEW g, Lists(g, marker, n)
  PROVE  Lists(IF marker \in items[n + 1].steps THEN Append(g, n + 1) ELSE g, marker, n + 1)
<1>1. CASE marker \notin items[n + 1].steps
  <2>1. \A j \in 1..(n + 1) : j \in 1..n \/ j = n + 1
    OBVIOUS
  <2> QED BY <1>1, <2>1 DEF Lists
<1>2. CASE marker \in items[n + 1].steps
  <2> DEFINE t == Append(g, n + 1)
  <2>1. /\ g \in Seq(Nat) /\ Len(g) \in Nat
        /\ \A m \in 1..Len(g) : g[m] \in 1..n /\ marker \in items[g[m]].steps
        /\ \A m, k \in 1..Len(g) : m < k => g[m] < g[k]
        /\ \A j \in 1..n : marker \in items[j].steps => \E m \in 1..Len(g) : g[m] = j
    BY DEF Lists
  <2>2. /\ t \in Seq(Nat) /\ Len(t) = Len(g) + 1 /\ t[Len(g) + 1] = n + 1
        /\ \A m \in 1..Len(g) : t[m] = g[m]
    BY <2>1
  <2> HIDE DEF t
  <2>3. \A m \in 1..Len(t) : m \in 1..Len(g) \/ m = Len(g) + 1
    BY <2>1, <2>2
  <2>4. \A m \in 1..Len(t) : t[m] \in 1..(n + 1) /\ marker \in items[t[m]].steps
    <3>0. \A x \in 1..n : x \in 1..(n + 1)
      OBVIOUS
    <3>1. \A m \in 1..Len(g) : t[m] \in 1..(n + 1) /\ marker \in items[t[m]].steps
      BY <2>1, <2>2, <3>0, Zenon
    <3>2. n + 1 \in 1..(n + 1)
      OBVIOUS
    <3> QED BY <1>2, <2>2, <2>3, <3>1, <3>2
  <2>5. ASSUME NEW m \in 1..Len(t), NEW k \in 1..Len(t), m < k PROVE t[m] < t[k]
    <3>1. m \in 1..Len(g)
      BY <2>1, <2>2, <2>5
    <3>2. CASE k = Len(g) + 1
      <4>1. t[m] \in 1..n /\ t[k] = n + 1
        BY <2>1, <2>2, <3>1, <3>2
      <4> QED BY <4>1
    <3>3. CASE k \in 1..Len(g)
      BY <2>1, <2>2, <2>5, <3>1, <3>3
    <3> QED BY <2>3, <3>2, <3>3
  <2>6. ASSUME NEW j \in 1..(n + 1), marker \in items[j].steps
        PROVE  \E m \in 1..Len(t) : t[m] = j
    <3>1. CASE j = n + 1
      <4>1. Len(g) + 1 \in 1..Len(t)
        BY <2>1, <2>2
      <4> QED BY <2>2, <3>1, <4>1
    <3>2. CASE j # n + 1
      <4>1. PICK m \in 1..Len(g) : g[m] = j
        BY <2>1, <2>6, <3>2
      <4>2. m \in 1..Len(t)
        BY <2>1, <2>2
      <4> QED BY <2>2, <4>1, <4>2
    <3> QED BY <3>1, <3>2
  <2>7. Lists(t, marker, n + 1)
    BY <2>2, <2>4, <2>5, <2>6 DEF Lists
  <2> QED BY <1>2, <2>7 DEF t
<1> QED BY <1>1, <1>2

LEMMA GroupLists ==
  ASSUME Len(items) \in Nat, NEW marker
  PROVE  Lists(Group(marker), marker, Len(items))
<1> DEFINE N == Len(items)
           F == CHOOSE G : GroupFcn(G, marker, N)
<1>1. N \in Nat
  OBVIOUS
<1>2. Group(marker) = F[N]
  BY DEF Group, GroupFcn
<1>3. GroupFcn(F, marker, N)
  BY <1>1, GroupFcnExists
<1> HIDE DEF F, N
<1>4. \A i \in 0..N : F[i] = IF i = 0 THEN <<>>
                             ELSE IF marker \in items[i].steps THEN Append(F[i - 1], i)
                                                               ELSE F[i - 1]
  BY <1>3 DEF GroupFcn
<1> DEFINE S == {n \in Nat : n <= N => Lists(F[n], marker, n)}
<1>5. 0 \in S
  <2>1. F[0] = <<>>
    BY <1>1, <1>4
  <2>2. Lists(<<>>, marker, 0)
    BY DEF Lists
  <2> QED BY <2>1, <2>2
<1>6. ASSUME NEW n \in S PROVE n + 1 \in S
  <2> SUFFICES ASSUME n + 1 <= N PROVE Lists(F[n + 1], marker, n + 1)
    OBVIOUS
  <2>1. n \in Nat /\ n + 1 \in 0..N /\ n + 1 # 0 /\ (n + 1) - 1 = n
    BY <1>1
  <2>2. Lists(F[n], marker, n)
    BY <1>1, <2>1
  <2>3. F[n + 1] = IF marker \in items[n + 1].steps THEN Append(F[n], n + 1) ELSE F[n]
    BY <1>4, <2>1
  <2> DEFINE g == F[n]
  <2> HIDE DEF g
  <2>4. Lists(IF marker \in items[n + 1].steps THEN Append(g, n + 1) ELSE g, marker, n + 1)
    BY <2>1, <2>2, ListsMore DEF g
  <2> QED BY <2>3, <2>4 DEF g
<1>7. S \in SUBSET Nat
  OBVIOUS
<1> HIDE DEF S
<1>8. N \in S
  BY <1>1, <1>5, <1>6, <1>7, SetInduction
<1> QED BY <1>1, <1>2, <1>8 DEF S, N

(* The groups one after the other. *)
FlatFcn(F, seqs, n) ==
    F = [i \in 1..n |-> IF i = 1 THEN seqs[i] ELSE F[i - 1] \o seqs[i]]

LEMMA FlatFcnExists ==
  ASSUME NEW seqs
  PROVE  \A n \in Nat : \E F : FlatFcn(F, seqs, n)
<1> DEFINE S == {n \in Nat : \E F : FlatFcn(F, seqs, n)}
<1>1. 0 \in S
  <2> DEFINE F == [i \in 1..0 |-> <<>>]
  <2>1. FlatFcn(F, seqs, 0)
    BY DEF FlatFcn
  <2> QED BY <2>1
<1>2. ASSUME NEW n \in S PROVE n + 1 \in S
  <2>1. n \in Nat
    OBVIOUS
  <2>2. PICK F : FlatFcn(F, seqs, n)
    OBVIOUS
  <2>3. \A i \in 1..n : F[i] = IF i = 1 THEN seqs[i] ELSE F[i - 1] \o seqs[i]
    BY <2>2 DEF FlatFcn
  <2> DEFINE G == [i \in 1..(n + 1) |->
                     IF i = n + 1
                     THEN IF n = 0 THEN seqs[n + 1] ELSE F[n] \o seqs[n + 1]
                     ELSE F[i]]
             H == [i \in 1..(n + 1) |-> IF i = 1 THEN seqs[i] ELSE G[i - 1] \o seqs[i]]
  <2>4. \A i \in 1..(n + 1) : i # n + 1 => i \in 1..n /\ G[i] = F[i]
    BY <2>1
  <2>5. G[n + 1] = IF n = 0 THEN seqs[n + 1] ELSE F[n] \o seqs[n + 1]
    BY <2>1
  <2>6. \A i \in 1..(n + 1) : H[i] = IF i = 1 THEN seqs[i] ELSE G[i - 1] \o seqs[i]
    OBVIOUS
  <2>7. ASSUME NEW i \in 1..(n + 1) PROVE G[i] = H[i]
    <3> HIDE DEF G, H
    <3>1. CASE i = n + 1
      <4>1. CASE n = 0
        BY <2>5, <2>6, <3>1, <4>1
      <4>2. CASE n # 0
        <5>1. i # 1 /\ i - 1 = n /\ n \in 1..(n + 1) /\ n # n + 1
          BY <2>1, <3>1, <4>2
        <5>2. G[n] = F[n]
          BY <2>4, <5>1
        <5> QED BY <2>5, <2>6, <3>1, <4>2, <5>1, <5>2
      <4> QED BY <4>1, <4>2
    <3>2. CASE i # n + 1 /\ i = 1
      BY <2>3, <2>4, <2>6, <3>2
    <3>3. CASE i # n + 1 /\ i # 1
      <4>1. i - 1 \in 1..(n + 1) /\ i - 1 # n + 1
        BY <2>1, <3>3
      <4> QED BY <2>3, <2>4, <2>6, <3>3, <4>1
    <3> QED BY <3>1, <3>2, <3>3
  <2>8. G = H
    BY <2>7
  <2>9. FlatFcn(G, seqs, n + 1)
    <3> HIDE DEF G
    <3> QED BY <2>8 DEF FlatFcn
  <2> QED BY <2>1, <2>9
<1>3. S \in SUBSET Nat
  OBVIOUS
<1> HIDE DEF S
<1>4. \A n \in Nat : n \in S
  BY <1>1, <1>2, <1>3, SetInduction
<1> QED BY <1>4 DEF S

LEMMA FlattenSteps ==
  ASSUME NEW seqs, Len(seqs) \in Nat \ {0}
  PROVE  \E F : /\ FlattenSeq(seqs) = F[Len(seqs)]
                /\ F[1] = seqs[1]
                /\ \A i \in 2..Len(seqs) : F[i] = F[i - 1] \o seqs[i]
<1> DEFINE N == Len(seqs)
           F == CHOOSE G : FlatFcn(G, seqs, N)
<1>1. N \in Nat \ {0}
  OBVIOUS
<1>2. FlattenSeq(seqs) = F[N]
  BY DEF FlattenSeq, FlatFcn
<1>3. FlatFcn(F, seqs, N)
  BY <1>1, FlatFcnExists
<1> HIDE DEF F, N
<1>4. \A i \in 1..N : F[i] = IF i = 1 THEN seqs[i] ELSE F[i - 1] \o seqs[i]
  BY <1>3 DEF FlatFcn
<1>5. 1 \in 1..N /\ \A i \in 2..N : i \in 1..N /\ i # 1
  BY <1>1
<1>6. F[1] = seqs[1] /\ \A i \in 2..N : F[i] = F[i - 1] \o seqs[i]
  BY <1>4, <1>5
<1> QED BY <1>2, <1>6 DEF N

(* The loop of pytest's own deselection. *)
LeftFcn(F, u, matching, n) ==
    F = [i \in 0..n |->
           IF i = 0 THEN <<>>
           ELSE IF u[i] \in matching THEN Append(F[i - 1], u[i])
                                     ELSE F[i - 1]]

LEMMA LeftFcnExists ==
  ASSUME NEW u, NEW matching
  PROVE  \A n \in Nat : \E F : LeftFcn(F, u, matching, n)
<1> DEFINE S == {n \in Nat : \E F : LeftFcn(F, u, matching, n)}
<1>1. 0 \in S
  <2> DEFINE F == [i \in 0..0 |-> <<>>]
  <2>1. LeftFcn(F, u, matching, 0)
    BY DEF LeftFcn
  <2> QED BY <2>1
<1>2. ASSUME NEW n \in S PROVE n + 1 \in S
  <2>1. n \in Nat
    OBVIOUS
  <2>2. PICK F : LeftFcn(F, u, matching, n)
    OBVIOUS
  <2>3. \A i \in 0..n : F[i] = IF i = 0 THEN <<>>
                               ELSE IF u[i] \in matching THEN Append(F[i - 1], u[i])
                                                         ELSE F[i - 1]
    BY <2>2 DEF LeftFcn
  <2> DEFINE G == [i \in 0..(n + 1) |->
                     IF i = n + 1
                     THEN IF u[n + 1] \in matching THEN Append(F[n], u[n + 1]) ELSE F[n]
                     ELSE F[i]]
             H == [i \in 0..(n + 1) |->
                     IF i = 0 THEN <<>>
                     ELSE IF u[i] \in matching THEN Append(G[i - 1], u[i])
                                               ELSE G[i - 1]]
  <2>4. \A i \in 0..(n + 1) : i # n + 1 => i \in 0..n /\ G[i] = F[i]
    BY <2>1
  <2>5. G[n + 1] = IF u[n + 1] \in matching THEN Append(F[n], u[n + 1]) ELSE F[n]
    BY <2>1
  <2>6. \A i \in 0..(n + 1) :
           H[i] = IF i = 0 THEN <<>>
                  ELSE IF u[i] \in matching THEN Append(G[i - 1], u[i]) ELSE G[i - 1]
    OBVIOUS
  <2>7. ASSUME NEW i \in 0..(n + 1) PROVE G[i] = H[i]
    <3> HIDE DEF G, H
    <3>1. CASE i = 0
      BY <2>1, <2>3, <2>4, <2>6, <3>1
    <3>2. CASE i # 0
      <4>1. i - 1 \in 0..(n + 1) /\ i - 1 # n + 1
        BY <2>1, <3>2
      <4>2. G[i - 1] = F[i - 1]
        BY <2>4, <4>1
      <4>3. CASE i = n + 1
        <5>1. i - 1 = n
          BY <2>1, <4>3
        <5> QED BY <2>5, <2>6, <3>2, <4>2, <4>3, <5>1
      <4>4. CASE i # n + 1
        BY <2>3, <2>4, <2>6, <3>2, <4>2, <4>4
      <4> QED BY <4>3, <4>4
    <3> QED BY <3>1, <3>2
  <2>8. G = H
    BY <2>7
  <2>9. LeftFcn(G, u, matching, n + 1)
    <3> HIDE DEF G
    <3> QED BY <2>8 DEF LeftFcn
  <2> QED BY <2>1, <2>9
<1>3. S \in SUBSET Nat
  OBVIOUS
<1> HIDE DEF S
<1>4. \A n \in Nat : n \in S
  BY <1>1, <1>2, <1>3, SetInduction
<1> QED BY <1>4 DEF S

(* v is what matches of the first n tests of u, in their order; f says     *)
(* where in u each of them is.                                             *)
Picks(v, f, u, matching, n) ==
    /\ v \in Seq(Nat) /\ Len(v) <= n
    /\ \A m \in 1..Len(v) : f[m] \in 1..n /\ v[m] = u[f[m]] /\ v[m] \in matching
    /\ \A m, k \in 1..Len(v) : m < k => f[m] < f[k]
    /\ \A j \in 1..n : u[j] \in matching => \E m \in 1..Len(v) : v[m] = u[j]

LEMMA PicksMore ==
  ASSUME NEW u, NEW matching, NEW n \in Nat, u[n + 1] \in Nat, NEW v,
         \E f : Picks(v, f, u, matching, n)
  PROVE  \E f : Picks(IF u[n + 1] \in matching THEN Append(v, u[n + 1]) ELSE v,
                     f, u, matching, n + 1)
<1>1. PICK f : Picks(v, f, u, matching, n)
  OBVIOUS
<1>2. /\ v \in Seq(Nat) /\ Len(v) \in Nat /\ Len(v) <= n
      /\ \A m \in 1..Len(v) : f[m] \in 1..n /\ v[m] = u[f[m]] /\ v[m] \in matching
      /\ \A m, k \in 1..Len(v) : m < k => f[m] < f[k]
      /\ \A j \in 1..n : u[j] \in matching => \E m \in 1..Len(v) : v[m] = u[j]
  BY <1>1 DEF Picks
<1>3. /\ \A j \in 1..(n + 1) : j \in 1..n \/ j = n + 1
      /\ \A j \in 1..n : j \in 1..(n + 1)
      /\ n + 1 \in 1..(n + 1)
  OBVIOUS
<1>4. CASE u[n + 1] \notin matching
  <2>1. /\ Len(v) <= n + 1
        /\ \A m \in 1..Len(v) : f[m] \in 1..(n + 1)
    BY <1>2, <1>3
  <2>2. Picks(v, f, u, matching, n + 1)
    BY <1>2, <1>3, <1>4, <2>1 DEF Picks
  <2> QED BY <1>4, <2>2
<1>5. CASE u[n + 1] \in matching
  <2> DEFINE w == Append(v, u[n + 1])
             L == Len(v)
             g == [m \in 1..(L + 1) |-> IF m = L + 1 THEN n + 1 ELSE f[m]]
  <2>1. /\ w \in Seq(Nat) /\ Len(w) = L + 1 /\ w[L + 1] = u[n + 1]
        /\ \A m \in 1..L : w[m] = v[m]
    BY <1>2
  <2>2. L \in Nat /\ L <= n
    BY <1>2
  <2>3. /\ g[L + 1] = n + 1
        /\ \A m \in 1..L : g[m] = f[m]
    BY <2>2
  <2>4. \A m \in 1..(L + 1) : m \in 1..L \/ m = L + 1
    BY <2>2
  <2>5. \A m \in 1..L : /\ f[m] \in 1..n /\ v[m] = u[f[m]] /\ v[m] \in matching
                        /\ m \in 1..(L + 1)
    BY <1>2
  <2>6. L + 1 \in 1..(L + 1) /\ \A m, k \in 1..L : m < k => f[m] < f[k]
    BY <1>2
  <2>7. \A j \in 1..n : u[j] \in matching => \E m \in 1..L : v[m] = u[j]
    BY <1>2
  <2> HIDE DEF w, L, g
  <2>8. \A m \in 1..Len(w) : g[m] \in 1..(n + 1) /\ w[m] = u[g[m]] /\ w[m] \in matching
    <3>1. ASSUME NEW m \in 1..L
          PROVE  g[m] \in 1..(n + 1) /\ w[m] = u[g[m]] /\ w[m] \in matching
      BY <1>3, <2>1, <2>3, <2>5
    <3> QED BY <1>3, <1>5, <2>1, <2>3, <2>4, <3>1
  <2>9. ASSUME NEW m \in 1..Len(w), NEW k \in 1..Len(w), m < k PROVE g[m] < g[k]
    <3>1. m \in 1..L
      BY <2>1, <2>2, <2>9
    <3>2. CASE k = L + 1
      <4>1. g[m] \in 1..n /\ g[k] = n + 1
        BY <2>3, <2>5, <3>1, <3>2
      <4> QED BY <4>1
    <3>3. CASE k \in 1..L
      BY <2>3, <2>6, <2>9, <3>1, <3>3
    <3> QED BY <2>1, <2>4, <3>2, <3>3
  <2>10. ASSUME NEW j \in 1..(n + 1), u[j] \in matching
         PROVE  \E m \in 1..Len(w) : w[m] = u[j]
    <3>1. CASE j = n + 1
      BY <2>1, <2>6, <3>1
    <3>2. CASE j \in 1..n
      BY <2>1, <2>5, <2>7, <2>10, <3>2
    <3> QED BY <1>3, <3>1, <3>2
  <2>11. Len(w) <= n + 1
    BY <2>1, <2>2
  <2>12. Picks(w, g, u, matching, n + 1)
    BY <2>1, <2>8, <2>9, <2>10, <2>11 DEF Picks
  <2> QED BY <1>5, <2>12 DEF w
<1> QED BY <1>4, <1>5

LEMMA LeftPicks ==
  ASSUME NEW u \in Seq(Nat), NEW matching
  PROVE  \E f : Picks(Left(u, matching), f, u, matching, Len(u))
<1> DEFINE N == Len(u)
           F == CHOOSE G : LeftFcn(G, u, matching, N)
<1>1. N \in Nat
  OBVIOUS
<1>2. Left(u, matching) = F[N]
  BY DEF Left, LeftFcn
<1>3. LeftFcn(F, u, matching, N)
  BY <1>1, LeftFcnExists
<1>4. \A n \in 1..N : u[n] \in Nat
  BY ElementOfSeq
<1> HIDE DEF F, N
<1>5. \A i \in 0..N : F[i] = IF i = 0 THEN <<>>
                             ELSE IF u[i] \in matching THEN Append(F[i - 1], u[i])
                                                       ELSE F[i - 1]
  BY <1>3 DEF LeftFcn
<1> DEFINE S == {n \in Nat : n <= N => \E f : Picks(F[n], f, u, matching, n)}
<1>6. 0 \in S
  <2>1. F[0] = <<>>
    BY <1>1, <1>5
  <2>2. Picks(<<>>, <<>>, u, matching, 0)
    BY DEF Picks
  <2> QED BY <2>1, <2>2
<1>7. ASSUME NEW n \in S PROVE n + 1 \in S
  <2> SUFFICES ASSUME n + 1 <= N PROVE \E f : Picks(F[n + 1], f, u, matching, n + 1)
    OBVIOUS
  <2>1. n \in Nat /\ n + 1 \in 0..N /\ n + 1 \in 1..N /\ n + 1 # 0 /\ (n + 1) - 1 = n
    BY <1>1
  <2>2. \E f : Picks(F[n], f, u, matching, n)
    BY <1>1, <2>1
  <2>3. F[n + 1] = IF u[n + 1] \in matching THEN Append(F[n], u[n + 1]) ELSE F[n]
    BY <1>5, <2>1
  <2> DEFINE v == F[n]
  <2>4. u[n + 1] \in Nat /\ \E f : Picks(v, f, u, matching, n)
    BY <1>4, <2>1, <2>2
  <2> HIDE DEF v
  <2>5. \E f : Picks(IF u[n + 1] \in matching THEN Append(v, u[n + 1]) ELSE v,
                     f, u, matching, n + 1)
    BY <2>1, <2>4, PicksMore
  <2> QED BY <2>3, <2>5 DEF v
<1>8. S \in SUBSET Nat
  OBVIOUS
<1> HIDE DEF S
<1>9. N \in S
  BY <1>1, <1>6, <1>7, <1>8, SetInduction
<1> QED BY <1>1, <1>2, <1>9 DEF S, N

------------------------------------------------------------------------------
(* The order in which the plugin arranges the tests.                       *)

(* A test of a step, and what an applicable sequence comes to: no test is  *)
(* of two steps.                                                           *)
At(i, s) == s \in 1..Len(sequence) /\ sequence[s] \in items[i].steps
OneStepEach ==
    \A i \in 1..Len(items) : \A s, t \in 1..Len(sequence) :
        At(i, s) /\ At(i, t) => s = t

(* The tests of the first k steps, step by step. *)
ArrangedTo(u, k) ==
    /\ u \in Seq(Nat)
    /\ \A m \in 1..Len(u) : u[m] \in 1..Len(items) /\ \E s \in 1..k : At(u[m], s)
    /\ \A m, n \in 1..Len(u) : m < n =>
          \A s, t \in 1..Len(sequence) : At(u[m], s) /\ At(u[n], t) =>
              s < t \/ (s = t /\ u[m] < u[n])
    /\ \A i \in 1..Len(items) : \A s \in 1..k :
          At(i, s) => \E m \in 1..Len(u) : u[m] = i

LEMMA FirstStep ==
  ASSUME Len(items) \in Nat, Len(sequence) \in Nat \ {0}, OneStepEach,
         NEW g, Lists(g, sequence[1], Len(items))
  PROVE  ArrangedTo(g, 1)
<1>1. /\ g \in Seq(Nat) /\ Len(g) \in Nat
      /\ \A m \in 1..Len(g) : g[m] \in 1..Len(items) /\ sequence[1] \in items[g[m]].steps
      /\ \A m, k \in 1..Len(g) : m < k => g[m] < g[k]
      /\ \A j \in 1..Len(items) :
            sequence[1] \in items[j].steps => \E m \in 1..Len(g) : g[m] = j
  BY DEF Lists
<1>2. 1 \in 1..Len(sequence) /\ 1 \in 1..1 /\ \A s \in 1..1 : s = 1
  OBVIOUS
<1>3. \A m \in 1..Len(g) : At(g[m], 1)
  BY <1>1, <1>2 DEF At
<1>4. \A m \in 1..Len(g) : \A s \in 1..Len(sequence) : At(g[m], s) => s = 1
  BY <1>1, <1>2, <1>3 DEF OneStepEach
<1>5. \A m, n \in 1..Len(g) : m < n =>
          \A s, t \in 1..Len(sequence) : At(g[m], s) /\ At(g[n], t) =>
              s < t \/ (s = t /\ g[m] < g[n])
  BY <1>1, <1>4
<1>6. \A i \in 1..Len(items) : \A s \in 1..1 :
          At(i, s) => \E m \in 1..Len(g) : g[m] = i
  BY <1>1, <1>2 DEF At
<1> QED BY <1>1, <1>2, <1>3, <1>5, <1>6 DEF ArrangedTo

LEMMA NextStep ==
  ASSUME Len(items) \in Nat, Len(sequence) \in Nat, OneStepEach,
         NEW k \in Nat \ {0}, k + 1 <= Len(sequence),
         NEW u, ArrangedTo(u, k), NEW g, Lists(g, sequence[k + 1], Len(items))
  PROVE  ArrangedTo(u \o g, k + 1)
<1> DEFINE v == u \o g
<1>1. /\ g \in Seq(Nat) /\ Len(g) \in Nat
      /\ \A m \in 1..Len(g) : g[m] \in 1..Len(items) /\ sequence[k + 1] \in items[g[m]].steps
      /\ \A m, n \in 1..Len(g) : m < n => g[m] < g[n]
      /\ \A j \in 1..Len(items) :
            sequence[k + 1] \in items[j].steps => \E m \in 1..Len(g) : g[m] = j
  <2> DEFINE marker == sequence[k + 1]
  <2>1. Lists(g, marker, Len(items))
    OBVIOUS
  <2> HIDE DEF marker
  <2>2. /\ \A m \in 1..Len(g) : g[m] \in 1..Len(items) /\ marker \in items[g[m]].steps
        /\ \A m, n \in 1..Len(g) : m < n => g[m] < g[n]
        /\ \A j \in 1..Len(items) : marker \in items[j].steps => \E m \in 1..Len(g) : g[m] = j
    BY <2>1, Zenon DEF Lists
  <2>3. g \in Seq(Nat) /\ Len(g) \in Nat
    BY <2>1 DEF Lists
  <2> QED BY <2>2, <2>3 DEF marker
<1>2. /\ u \in Seq(Nat) /\ Len(u) \in Nat
      /\ \A m \in 1..Len(u) : u[m] \in 1..Len(items) /\ \E s \in 1..k : At(u[m], s)
      /\ \A m, n \in 1..Len(u) : m < n =>
            \A s, t \in 1..Len(sequence) : At(u[m], s) /\ At(u[n], t) =>
                s < t \/ (s = t /\ u[m] < u[n])
      /\ \A i \in 1..Len(items) : \A s \in 1..k :
            At(i, s) => \E m \in 1..Len(u) : u[m] = i
  BY DEF ArrangedTo
<1>3. /\ v \in Seq(Nat) /\ Len(v) = Len(u) + Len(g)
      /\ \A m \in 1..Len(u) : v[m] = u[m]
      /\ \A m \in 1..Len(g) : v[Len(u) + m] = g[m]
  BY <1>1, <1>2
<1> HIDE DEF v
<1>4. \A m \in 1..Len(v) : m \in 1..Len(u) \/ (m - Len(u) \in 1..Len(g) /\ m > Len(u))
  BY <1>1, <1>2, <1>3
<1>5. ASSUME NEW m \in 1..Len(v), m - Len(u) \in 1..Len(g)
      PROVE  v[m] = g[m - Len(u)]
  <2>1. m = Len(u) + (m - Len(u))
    BY <1>2
  <2> DEFINE d == m - Len(u)
  <2>2. d \in 1..Len(g) /\ m = Len(u) + d
    BY <1>5, <2>1
  <2> HIDE DEF d
  <2>3. v[m] = g[d]
    BY <1>3, <2>2
  <2> QED BY <2>3 DEF d
<1>6. k + 1 \in 1..Len(sequence) /\ k + 1 \in 1..(k + 1)
      /\ (\A s \in 1..k : s \in 1..(k + 1) /\ s \in 1..Len(sequence) /\ s < k + 1)
      /\ \A s \in 1..(k + 1) : s \in 1..k \/ s = k + 1
  OBVIOUS
<1>7. \A m \in 1..Len(v) : m \in 1..Len(u) =>
         /\ v[m] = u[m] /\ v[m] \in 1..Len(items)
         /\ \E s \in 1..k : At(v[m], s)
  BY <1>2, <1>3
<1>8. ASSUME NEW m \in 1..Len(v), m \notin 1..Len(u)
      PROVE  /\ m - Len(u) \in 1..Len(g) /\ m > Len(u)
             /\ v[m] = g[m - Len(u)] /\ v[m] \in 1..Len(items)
             /\ At(v[m], k + 1)
  <2>1. m - Len(u) \in 1..Len(g) /\ m > Len(u)
    BY <1>4, <1>8
  <2>2. v[m] = g[m - Len(u)]
    BY <1>5, <2>1
  <2>3. v[m] \in 1..Len(items) /\ sequence[k + 1] \in items[v[m]].steps
    BY <1>1, <2>1, <2>2
  <2> QED BY <1>6, <2>1, <2>2, <2>3 DEF At
<1>9. \A m \in 1..Len(v) : v[m] \in 1..Len(items) /\ \E s \in 1..(k + 1) : At(v[m], s)
  BY <1>6, <1>7, <1>8
<1>10. ASSUME NEW m \in 1..Len(v), NEW n \in 1..Len(v), m < n,
              NEW s \in 1..Len(sequence), NEW t \in 1..Len(sequence), At(v[m], s), At(v[n], t)
       PROVE  s < t \/ (s = t /\ v[m] < v[n])
  <2>1. CASE n \in 1..Len(u)
    <3>1. m \in 1..Len(u)
      BY <1>2, <1>10, <2>1
    <3> QED BY <1>2, <1>3, <1>10, <2>1, <3>1
  <2>2. CASE n \notin 1..Len(u) /\ m \in 1..Len(u)
    <3>1. t = k + 1
      BY <1>6, <1>8, <1>10, <2>2 DEF OneStepEach
    <3>2. PICK r \in 1..k : At(v[m], r)
      BY <1>7, <2>2
    <3>3. s = r
      BY <1>6, <1>7, <1>10, <2>2, <3>2 DEF OneStepEach
    <3> QED BY <1>6, <3>1, <3>3
  <2>3. CASE n \notin 1..Len(u) /\ m \notin 1..Len(u)
    <3>1. t = k + 1 /\ s = k + 1
      BY <1>6, <1>8, <1>10, <2>3 DEF OneStepEach
    <3>2. /\ m - Len(u) \in 1..Len(g) /\ n - Len(u) \in 1..Len(g)
          /\ v[m] = g[m - Len(u)] /\ v[n] = g[n - Len(u)]
      BY <1>8, <2>3
    <3>3. m - Len(u) < n - Len(u)
      BY <1>2, <1>10
    <3>4. g[m - Len(u)] < g[n - Len(u)]
      BY <1>1, <3>2, <3>3
    <3> QED BY <3>1, <3>2, <3>4
  <2> QED BY <2>1, <2>2, <2>3
<1>11. ASSUME NEW i \in 1..Len(items), NEW s \in 1..(k + 1), At(i, s)
       PROVE  \E m \in 1..Len(v) : v[m] = i
  <2>1. CASE s = k + 1
    <3>1. PICK m \in 1..Len(g) : g[m] = i
      BY <1>1, <1>11, <2>1 DEF At
    <3>2. Len(u) + m \in 1..Len(v)
      BY <1>1, <1>2, <1>3
    <3> QED BY <1>3, <3>1, <3>2
  <2>2. CASE s # k + 1
    <3>1. PICK m \in 1..Len(u) : u[m] = i
      BY <1>2, <1>6, <1>11, <2>2
    <3>2. m \in 1..Len(v)
      BY <1>1, <1>2, <1>3
    <3> QED BY <1>3, <3>1, <3>2
  <2> QED BY <2>1, <2>2
<1>12. ArrangedTo(v, k + 1)
  BY <1>3, <1>9, <1>10, <1>11 DEF ArrangedTo
<1> QED BY <1>12 DEF v

LEMMA ArrangedSteps ==
  ASSUME Len(items) \in Nat, Len(sequence) \in Nat \ {0}, OneStepEach
  PROVE  ArrangedTo(Arranged, Len(sequence))
<1> DEFINE N == Len(sequence)
           seqs == [i \in 1..N |-> Group(sequence[i])]
<1>1. N \in Nat \ {0}
  OBVIOUS
<1>2. /\ Len(seqs) = N
      /\ \A i \in 1..N : Lists(seqs[i], sequence[i], Len(items))
  <2>1. \A i \in 1..N : seqs[i] = Group(sequence[i])
    OBVIOUS
  <2>2. \A marker : Lists(Group(marker), marker, Len(items))
    BY GroupLists
  <2>3. Len(seqs) = N
    BY <1>1
  <2> HIDE DEF seqs
  <2> QED BY <2>1, <2>2, <2>3, Zenon
<1>3. Arranged = FlattenSeq(seqs)
  <2>1. sequence # <<>>
    BY <1>1
  <2> QED BY <2>1, Zenon DEF Arranged
<1> HIDE DEF seqs
<1>4. PICK F : /\ FlattenSeq(seqs) = F[N]
               /\ F[1] = seqs[1]
               /\ \A i \in 2..N : F[i] = F[i - 1] \o seqs[i]
  <2>1. Len(seqs) \in Nat \ {0}
    BY <1>1, <1>2
  <2> HIDE DEF N
  <2> QED BY <1>2, <2>1, FlattenSteps
<1> DEFINE S == {n \in Nat : n + 1 <= N => ArrangedTo(F[n + 1], n + 1)}
<1>5. 0 \in S
  <2>1. 1 \in 1..N
    BY <1>1
  <2>2. ArrangedTo(seqs[1], 1)
    <3> DEFINE g == seqs[1]
    <3>1. Lists(g, sequence[1], Len(items))
      BY <1>2, <2>1
    <3> HIDE DEF g
    <3>2. ArrangedTo(g, 1)
      BY <1>1, <3>1, FirstStep
    <3> QED BY <3>2 DEF g
  <2> QED BY <1>4, <2>2
<1>6. ASSUME NEW n \in S PROVE n + 1 \in S
  <2>1. n \in Nat /\ n + 1 \in Nat
    OBVIOUS
  <2> DEFINE k == n + 1
  <2> SUFFICES ASSUME k + 1 <= N PROVE ArrangedTo(F[k + 1], k + 1)
    BY <2>1
  <2>2. k \in Nat \ {0} /\ k <= N /\ k + 1 \in 2..N /\ k + 1 \in 1..N /\ (k + 1) - 1 = k
    BY <1>1, <2>1
  <2>3. ArrangedTo(F[k], k)
    BY <2>2
  <2> HIDE DEF k
  <2>4. F[k + 1] = F[k] \o seqs[k + 1]
    BY <1>4, <2>2
  <2> DEFINE u == F[k]
             g == seqs[k + 1]
  <2>5. Lists(g, sequence[k + 1], Len(items)) /\ ArrangedTo(u, k)
    BY <1>2, <2>2, <2>3
  <2> HIDE DEF u, g
  <2>6. ArrangedTo(u \o g, k + 1)
    BY <2>2, <2>5, NextStep
  <2> QED BY <2>4, <2>6 DEF u, g
<1>7. S \in SUBSET Nat
  OBVIOUS
<1>8. N - 1 \in S
  <2>1. N - 1 \in Nat
    BY <1>1
  <2> HIDE DEF S, N
  <2> QED BY <1>5, <1>6, <1>7, <2>1, SetInduction
<1>9. ArrangedTo(F[N], N)
  <2>1. (N - 1) + 1 = N /\ N <= N
    BY <1>1
  <2> QED BY <1>8, <2>1
<1> QED BY <1>3, <1>4, <1>9

(* Without a sequence every test runs, in the order of collection. *)
LEMMA ArrangedAll ==
  ASSUME Len(items) \in Nat, sequence = <<>>
  PROVE  /\ Arranged \in Seq(Nat) /\ Len(Arranged) = Len(items)
         /\ \A m \in 1..Len(items) : Arranged[m] = m
<1>1. Arranged = [i \in 1..Len(items) |-> i]
  BY DEF Arranged, All
<1> QED BY <1>1

------------------------------------------------------------------------------
(* What the checks on a sequence and on the collected tests come to.       *)

LEMMA NoDuplicate ==
  ASSUME NEW T, NEW names \in Seq(T), ~HasDuplicate(names)
  PROVE  \A s, t \in 1..Len(names) : names[s] = names[t] => s = t
<1> DEFINE N == Len(names)
           D == 1..N
           R == ToSet(names)
<1>1. N \in Nat /\ DOMAIN names = D /\ names \in [D -> T]
  OBVIOUS
<1>2. R = {names[i] : i \in D}
  BY <1>1 DEF ToSet
<1>3. IsFiniteSet(D) /\ Cardinality(D) = N
  <2>1. 1 \in Int /\ N \in Int
    BY <1>1
  <2>2. IsFiniteSet(1..N) /\ Cardinality(1..N) = IF 1 > N THEN 0 ELSE N - 1 + 1
    BY <2>1, FS_Interval
  <2> QED BY <1>1, <2>2
<1>4. names \in Surjection(D, R)
  <2>1. names \in [D -> R]
    BY <1>1, <1>2
  <2>2. \A r \in R : \E i \in D : names[i] = r
    BY <1>2
  <2> HIDE DEF D, R
  <2> QED BY <2>1, <2>2, Zenon DEF Surjection
<1>5. ~(Cardinality(R) < N)
  BY DEF HasDuplicate
<1> HIDE DEF D, R
<1>6. Cardinality(R) <= Cardinality(D) /\ IsFiniteSet(R)
      /\ (Cardinality(R) = Cardinality(D) <=> names \in Injection(D, R))
  BY <1>3, <1>4, FS_Surjection
<1>7. Cardinality(R) \in Nat
  BY <1>6, FS_CardinalityType
<1>8. Cardinality(R) = Cardinality(D)
  BY <1>1, <1>3, <1>5, <1>6, <1>7
<1>9. names \in Injection(D, R)
  BY <1>6, <1>8
<1> QED BY <1>1, <1>9 DEF Injection, IsInjective, D

LEMMA ToSetFinite ==
  ASSUME NEW T, NEW names \in Seq(T)
  PROVE  IsFiniteSet(ToSet(names))
<1> DEFINE N == Len(names)
           D == 1..N
           R == ToSet(names)
<1>1. N \in Nat /\ DOMAIN names = D /\ names \in [D -> T]
  OBVIOUS
<1>2. R = {names[i] : i \in D}
  BY <1>1 DEF ToSet
<1>3. IsFiniteSet(D)
  BY <1>1, FS_Interval
<1>4. names \in Surjection(D, R)
  <2>1. names \in [D -> R]
    BY <1>1, <1>2
  <2>2. \A r \in R : \E i \in D : names[i] = r
    BY <1>2
  <2> HIDE DEF D, R
  <2> QED BY <2>1, <2>2, Zenon DEF Surjection
<1> HIDE DEF D
<1>5. IsFiniteSet(R)
  <2> HIDE DEF R
  <2> QED BY <1>3, <1>4, FS_Surjection
<1> QED BY <1>5

LEMMA AtMostOne ==
  ASSUME NEW S, IsFiniteSet(S), ~(Cardinality(S) > 1), NEW x \in S, NEW y \in S
  PROVE  x = y
<1> SUFFICES ASSUME x # y PROVE FALSE
  OBVIOUS
<1> DEFINE R == S \ {x}
<1>1. IsFiniteSet(R) /\ Cardinality(R) = Cardinality(S) - 1
  BY FS_RemoveElement
<1>2. Cardinality(S) \in Nat
  BY FS_CardinalityType
<1>3. y \in R
  OBVIOUS
<1>4. R # {} /\ Cardinality(R) # 0
  <2>1. R # {}
    BY <1>3
  <2> HIDE DEF R
  <2> QED BY <1>1, <2>1, FS_EmptySet
<1>5. Cardinality(R) \in Nat
  BY <1>1, FS_CardinalityType
<1> HIDE DEF R
<1> QED BY <1>1, <1>2, <1>4, <1>5

LEMMA Applicable ==
  ASSUME NEW T, sequence \in Seq(T), ~HasDuplicate(sequence), ~Inapplicable
  PROVE  OneStepEach
<1> SUFFICES ASSUME NEW i \in 1..Len(items), NEW s \in 1..Len(sequence),
                    NEW t \in 1..Len(sequence), At(i, s), At(i, t)
             PROVE  s = t
  BY DEF OneStepEach
<1>1. sequence[s] \in Steps(i) /\ sequence[t] \in Steps(i)
  <2>1. \A n \in 1..Len(sequence) : sequence[n] \in ToSet(sequence)
    BY DEF ToSet
  <2> QED BY <2>1 DEF At, Steps
<1>2. IsFiniteSet(Steps(i))
  <2>1. IsFiniteSet(ToSet(sequence))
    BY ToSetFinite
  <2>2. Steps(i) \in SUBSET ToSet(sequence)
    BY DEF Steps
  <2> QED BY <2>1, <2>2, FS_Subset
<1>3. ~(Cardinality(Steps(i)) > 1)
  BY DEF Inapplicable
<1>4. sequence[s] = sequence[t]
  BY <1>1, <1>2, <1>3, AtMostOne
<1>5. \A m, n \in 1..Len(sequence) : sequence[m] = sequence[n] => m = n
  BY NoDuplicate
<1> QED BY <1>4, <1>5

------------------------------------------------------------------------------
(* The session.                                                            *)

Shape ==
    /\ option \in Options
    /\ items \in Seq(Kinds)
    /\ phase \in {"starting", "collecting", "running", "finished", "refused"}
    /\ order \in Seq(Nat)
    /\ executed \in Seq([test : Nat, outcome : Outcomes])

(* Once it is configured: the sequence is what was asked for, it has been  *)
(* validated, and it makes the session stop at the first failure.          *)
Configured ==
    /\ sequence = option.names
    /\ failFast = Ordered
    /\ IF Ordered THEN Valid(option.names) ELSE option.names = <<>>

(* What pytest's own options leave of the arranged tests. *)
Selected == Left(Arranged, matched)

(* The tests that ran and those still to run make up the selected order;   *)
(* a failure that stops the session is the last thing that happened in it, *)
(* and a session finishes with all of its tests run or with a failure.     *)
Progress ==
    /\ Len(executed) <= Len(Selected)
    /\ \A n \in 1..Len(executed) : executed[n].test = Selected[n]
    /\ \A n \in 1..Len(executed) :
          executed[n].outcome = "failed" /\ StopsAfter(executed[n].test)
              => phase = "finished" /\ n = Len(executed)
    /\ phase = "running" =>
          /\ Len(order) = Len(Selected) - Len(executed)
          /\ \A n \in 1..Len(order) : order[n] = Selected[Len(executed) + n]
    /\ phase = "finished" =>
          \/ Len(executed) = Len(Selected)
          \/ \E n \in 1..Len(executed) : executed[n].outcome = "failed"

(* The inductive invariant of RunsInOrder and GreenCameToAll. *)
ScenarioInv ==
    /\ Shape
    /\ phase \in {"starting", "collecting", "refused"} => executed = <<>>
    /\ phase \in {"collecting", "running", "finished"} => Configured
    /\ phase \in {"running", "finished"} =>
          ~Inapplicable /\ Progress /\ matched \subseteq 1..Len(items)

LEMMA BoundedIsSeq ==
  ASSUME NEW S, NEW n, NEW q \in BoundedSeq(S, n)
  PROVE  q \in Seq(S)
  BY DEF BoundedSeq, SeqOf

LEMMA OptionNames ==
  ASSUME option \in Options
  PROVE  option.names \in Seq(Names) /\ (~Ordered => option.names = <<>>)
<1>1. \/ option.names = <<>>
      \/ option.kind \in {"markers", "scenario"} /\ option.names \in Sequences
  BY DEF Options
<1>2. CASE option.names = <<>>
  BY <1>2
<1>3. CASE option.kind \in {"markers", "scenario"} /\ option.names \in Sequences
  <2>1. option.names \in Seq(Names)
    BY <1>3, BoundedIsSeq DEF Sequences
  <2> QED BY <1>3, <2>1 DEF Ordered
<1> QED BY <1>1, <1>2, <1>3

LEMMA InitScenario == Init => ScenarioInv
<1> SUFFICES ASSUME Init PROVE ScenarioInv
  OBVIOUS
<1>1. items \in Seq(Kinds)
  BY BoundedIsSeq DEF Init
<1> QED BY <1>1 DEF Init, ScenarioInv, Shape

(* The arranged order depends on what the session was asked for alone. *)
LEMMA SameOrder ==
  ASSUME UNCHANGED <<items, sequence>>
  PROVE  /\ Arranged' = Arranged /\ Inapplicable' = Inapplicable
         /\ matched' = matched => Selected' = Selected
<1>1. \A marker : Group(marker)' = Group(marker)
  BY DEF Group
<1>2. Arranged' = Arranged
  BY <1>1 DEF Arranged, All, Group
<1>3. Inapplicable' = Inapplicable
  BY <1>1 DEF Inapplicable, Steps
<1>4. matched' = matched => Selected' = Selected
  BY <1>2 DEF Selected
<1> QED BY <1>2, <1>3, <1>4

LEMMA ArrangedIsSeq ==
  ASSUME Shape, Configured, ~Inapplicable
  PROVE  /\ Arranged \in Seq(Nat) /\ Len(Arranged) \in Nat
         /\ ~Ordered => sequence = <<>>
         /\ Ordered => OneStepEach /\ ArrangedTo(Arranged, Len(sequence))
<1>1. Len(items) \in Nat /\ sequence \in Seq(Names)
  BY OptionNames DEF Shape, Configured
<1>2. CASE ~Ordered
  <2>1. sequence = <<>>
    BY <1>2 DEF Configured
  <2>2. Arranged \in Seq(Nat)
    BY <1>1, <2>1, ArrangedAll
  <2> QED BY <1>2, <2>1, <2>2
<1>3. CASE Ordered
  <2>1. ~HasDuplicate(sequence) /\ sequence # <<>>
    BY <1>3 DEF Configured, Valid
  <2>2. OneStepEach
    BY <1>1, <2>1, Applicable
  <2>3. Len(sequence) \in Nat \ {0}
    BY <1>1, <2>1
  <2>4. ArrangedTo(Arranged, Len(sequence))
    BY <1>1, <2>2, <2>3, ArrangedSteps
  <2>5. Arranged \in Seq(Nat)
    BY <2>4 DEF ArrangedTo
  <2> QED BY <1>3, <2>2, <2>4, <2>5
<1> QED BY <1>2, <1>3

(* No more tests are arranged than were collected: none is there twice. *)
LEMMA ArrangedFits ==
  ASSUME Shape, Configured, ~Inapplicable
  PROVE  /\ Len(Arranged) <= Len(items)
         /\ \A m \in 1..Len(Arranged) : Arranged[m] \in 1..Len(items)
<1> DEFINE A == Arranged
           N == Len(items)
<1>1. A \in Seq(Nat) /\ Len(A) \in Nat /\ N \in Nat
  BY ArrangedIsSeq DEF Shape
<1>2. CASE ~Ordered
  BY <1>1, <1>2, ArrangedIsSeq, ArrangedAll
<1>3. CASE Ordered
  <2>1. ArrangedTo(A, Len(sequence))
    BY <1>3, ArrangedIsSeq
  <2> HIDE DEF A
  <2>2. \A m \in 1..Len(A) : A[m] \in 1..N /\ \E s \in 1..Len(sequence) : At(A[m], s)
    BY <2>1 DEF ArrangedTo
  <2>3. ASSUME NEW m \in 1..Len(A), NEW n \in 1..Len(A), m < n PROVE A[m] # A[n]
    <3>1. PICK s \in 1..Len(sequence) : At(A[m], s)
      BY <2>2
    <3>2. A[m] = A[n] => s < s \/ (s = s /\ A[m] < A[n])
      BY <2>1, <2>3, <3>1 DEF ArrangedTo
    <3>3. sequence \in Seq(Names) /\ s \in Nat /\ A[m] \in Nat
      BY <2>2, OptionNames DEF Shape, Configured
    <3> QED BY <3>2, <3>3
  <2> DEFINE D == 1..Len(A)
             R == 1..N
  <2>4. A \in Injection(D, R)
    <3>1. A \in [D -> R] /\ DOMAIN A = D
      BY <1>1, <2>2
    <3>2. \A m, n \in D : A[m] = A[n] => m = n
      BY <1>1, <2>3
    <3> HIDE DEF D, R
    <3> QED BY <3>1, <3>2 DEF Injection, IsInjective
  <2>5. /\ IsFiniteSet(D) /\ Cardinality(D) = Len(A)
        /\ IsFiniteSet(R) /\ Cardinality(R) = N
    <3>1. \A k \in Nat : IsFiniteSet(1..k) /\ Cardinality(1..k) = k
      <4> TAKE k \in Nat
      <4>1. IsFiniteSet(1..k) /\ Cardinality(1..k) = IF 1 > k THEN 0 ELSE k - 1 + 1
        BY FS_Interval
      <4> QED BY <4>1
    <3> QED BY <1>1, <3>1
  <2> HIDE DEF D, R
  <2>6. Cardinality(D) <= Cardinality(R)
    BY <2>4, <2>5, FS_Injection
  <2> QED BY <2>2, <2>5, <2>6 DEF A
<1> QED BY <1>2, <1>3

(* What is selected is some of what is arranged, in its order. *)
SelectedTo(u) ==
    /\ u \in Seq(Nat)
    /\ \A m \in 1..Len(u) : /\ u[m] \in 1..Len(items) /\ u[m] \in matched
                            /\ Ordered => \E s \in 1..Len(sequence) : At(u[m], s)
    /\ \A m, n \in 1..Len(u) : m < n =>
          IF Ordered
          THEN \A s, t \in 1..Len(sequence) : At(u[m], s) /\ At(u[n], t) =>
                   s < t \/ (s = t /\ u[m] < u[n])
          ELSE u[m] < u[n]
    /\ \A i \in matched \cap (1..Len(items)) : \A s \in 1..Len(sequence) :
          At(i, s) => \E m \in 1..Len(u) : u[m] = i

LEMMA SelectedIsSeq ==
  ASSUME Shape, Configured, ~Inapplicable
  PROVE  /\ Selected \in Seq(Nat) /\ Len(Selected) \in Nat
         /\ Len(Selected) <= Len(items)
         /\ ~Ordered => sequence = <<>>
         /\ Ordered => OneStepEach
         /\ SelectedTo(Selected)
<1> DEFINE A == Arranged
           B == Selected
<1>1. /\ A \in Seq(Nat) /\ Len(A) \in Nat /\ Len(items) \in Nat
      /\ ~Ordered => sequence = <<>>
      /\ Ordered => OneStepEach /\ ArrangedTo(A, Len(sequence))
      /\ Len(A) <= Len(items)
      /\ \A m \in 1..Len(A) : A[m] \in 1..Len(items)
  BY ArrangedIsSeq, ArrangedFits DEF Shape
<1>2. PICK f : Picks(B, f, A, matched, Len(A))
  <2>1. \E f : Picks(Left(A, matched), f, A, matched, Len(A))
    <3> HIDE DEF A
    <3> QED BY <1>1, LeftPicks
  <2> QED BY <2>1 DEF Selected
<1>3. ~Ordered => \A m \in 1..Len(A) : A[m] = m
  BY <1>1, ArrangedAll
<1>4. Ordered => /\ \A m \in 1..Len(A) : \E s \in 1..Len(sequence) : At(A[m], s)
                 /\ \A m, n \in 1..Len(A) : m < n =>
                       \A s, t \in 1..Len(sequence) : At(A[m], s) /\ At(A[n], t) =>
                           s < t \/ (s = t /\ A[m] < A[n])
                 /\ \A i \in 1..Len(items) : \A s \in 1..Len(sequence) :
                       At(i, s) => \E m \in 1..Len(A) : A[m] = i
  BY <1>1 DEF ArrangedTo
<1>5. ~Ordered => Len(sequence) = 0
  BY <1>1
<1> HIDE DEF A, B
<1>6. /\ B \in Seq(Nat) /\ Len(B) \in Nat /\ Len(B) <= Len(A)
      /\ \A m \in 1..Len(B) : f[m] \in 1..Len(A) /\ B[m] = A[f[m]] /\ B[m] \in matched
      /\ \A m, k \in 1..Len(B) : m < k => f[m] < f[k]
      /\ \A j \in 1..Len(A) : A[j] \in matched => \E m \in 1..Len(B) : B[m] = A[j]
  <2>1. B \in Seq(Nat)
    BY <1>2 DEF Picks
  <2>2. Len(B) \in Nat
    BY <2>1
  <2> QED BY <1>2, <2>1, <2>2, Zenon DEF Picks
<1>7. Len(B) <= Len(items)
  BY <1>1, <1>6
<1>8. ASSUME NEW m \in 1..Len(B)
      PROVE  /\ B[m] \in 1..Len(items) /\ B[m] \in matched
             /\ Ordered => \E s \in 1..Len(sequence) : At(B[m], s)
  BY <1>1, <1>4, <1>6
<1>9. ASSUME NEW m \in 1..Len(B), NEW n \in 1..Len(B), m < n
      PROVE  IF Ordered
             THEN \A s, t \in 1..Len(sequence) : At(B[m], s) /\ At(B[n], t) =>
                      s < t \/ (s = t /\ B[m] < B[n])
             ELSE B[m] < B[n]
  <2>1. /\ f[m] \in 1..Len(A) /\ f[n] \in 1..Len(A) /\ f[m] < f[n]
        /\ B[m] = A[f[m]] /\ B[n] = A[f[n]]
    BY <1>6, <1>9
  <2>2. CASE Ordered
    BY <1>4, <2>1, <2>2
  <2>3. CASE ~Ordered
    BY <1>3, <2>1, <2>3
  <2> QED BY <2>2, <2>3
<1>10. ASSUME NEW i \in matched \cap (1..Len(items)), NEW s \in 1..Len(sequence), At(i, s)
       PROVE  \E m \in 1..Len(B) : B[m] = i
  <2>1. Ordered
    BY <1>5
  <2>2. PICK j \in 1..Len(A) : A[j] = i
    BY <1>4, <1>10, <2>1
  <2> QED BY <1>6, <2>2
<1>11. SelectedTo(B)
  BY <1>6, <1>8, <1>9, <1>10 DEF SelectedTo
<1> QED BY <1>1, <1>6, <1>7, <1>11 DEF B

LEMMA CollectKeeps ==
  ASSUME ScenarioInv, Collect
  PROVE  ScenarioInv'
<1>1. /\ Shape /\ Configured /\ ~Inapplicable /\ executed = <<>>
      /\ phase' = "running" /\ order' = Left(Arranged, matched')
      /\ matched' \subseteq 1..Len(items)
      /\ UNCHANGED <<option, items, sequence, failFast, executed>>
  BY DEF ScenarioInv, Collect, input
<1>2. Arranged' = Arranged /\ Inapplicable' = Inapplicable
  BY <1>1, SameOrder
<1>3. order' = Selected'
  BY <1>1, <1>2 DEF Selected
<1>4. Arranged \in Seq(Nat)
  BY <1>1, ArrangedIsSeq
<1>5. order' \in Seq(Nat) /\ Len(order') \in Nat
  <2> DEFINE A == Arranged
             M == matched'
  <2>1. A \in Seq(Nat) /\ order' = Left(A, M)
    BY <1>1, <1>4
  <2> HIDE DEF A, M
  <2>2. PICK f : Picks(Left(A, M), f, A, M, Len(A))
    BY <2>1, LeftPicks
  <2>3. Left(A, M) \in Seq(Nat)
    BY <2>2 DEF Picks
  <2> QED BY <2>1, <2>3
<1>6. Shape' /\ Configured'
  BY <1>1, <1>5 DEF Shape, Configured, Ordered, Valid, HasDuplicate, Registered
<1>7. Progress'
  <2>1. Len(executed') = 0 /\ Len(order') = Len(Selected')
    BY <1>1, <1>3
  <2>2. \A n \in 1..Len(order') : order'[n] = Selected'[Len(executed') + n]
    BY <1>3, <1>5, <2>1
  <2> QED BY <1>1, <1>3, <1>5, <2>1, <2>2 DEF Progress
<1>8. matched' \subseteq 1..Len(items')
  BY <1>1
<1> QED BY <1>1, <1>2, <1>6, <1>7, <1>8 DEF ScenarioInv

LEMMA RunTestKeeps ==
  ASSUME ScenarioInv, RunTest
  PROVE  ScenarioInv'
<1>1. /\ Shape /\ Configured /\ ~Inapplicable /\ Progress /\ phase = "running"
      /\ order # <<>> /\ matched \subseteq 1..Len(items)
      /\ UNCHANGED <<option, items, sequence, failFast, matched>>
  BY DEF ScenarioInv, RunTest, input
<1>2. PICK outcome \in Outcomes :
        /\ executed' = Append(executed, [test |-> Head(order), outcome |-> outcome])
        /\ IF outcome = "failed" /\ StopsAfter(Head(order))
           THEN phase' = "finished" /\ UNCHANGED order
           ELSE order' = Tail(order) /\ UNCHANGED phase
  BY DEF RunTest
<1>3. Selected' = Selected /\ Inapplicable' = Inapplicable
      /\ \A i : StopsAfter(i)' = StopsAfter(i)
  BY <1>1, SameOrder DEF StopsAfter
<1>4. Selected \in Seq(Nat) /\ Len(Selected) \in Nat
  BY <1>1, SelectedIsSeq
<1> DEFINE A == Selected
           N == Len(executed)
           r == [test |-> Head(order), outcome |-> outcome]
<1>5. /\ order \in Seq(Nat) /\ executed \in Seq([test : Nat, outcome : Outcomes])
      /\ N \in Nat /\ Len(order) \in Nat \ {0} /\ Head(order) = order[1]
      /\ Head(order) \in Nat
  BY <1>1 DEF Shape
<1>6. /\ Len(order) = Len(A) - N /\ \A n \in 1..Len(order) : order[n] = A[N + n]
      /\ \A n \in 1..N : executed[n].test = A[n]
      /\ \A n \in 1..N : executed[n].outcome = "failed" => ~StopsAfter(executed[n].test)
  BY <1>1 DEF Progress
<1>7. r \in [test : Nat, outcome : Outcomes] /\ r.test = A[N + 1] /\ r.outcome = outcome
  <2>1. 1 \in 1..Len(order)
    BY <1>5
  <2> QED BY <1>5, <1>6, <2>1
<1>8. r.test = Head(order)
  OBVIOUS
<1> HIDE DEF r
<1>9. /\ executed' \in Seq([test : Nat, outcome : Outcomes]) /\ Len(executed') = N + 1
      /\ executed'[N + 1] = r /\ \A n \in 1..N : executed'[n] = executed[n]
  BY <1>2, <1>5, <1>7 DEF r
<1> HIDE DEF N
<1>10. \A n \in 1..(N + 1) : n \in 1..N \/ n = N + 1
  BY <1>5 DEF N
<1>11. \A n \in 1..Len(executed') : executed'[n].test = A[n]
  BY <1>6, <1>7, <1>9, <1>10
<1>12. Len(executed') <= Len(A)
  BY <1>4, <1>5, <1>6, <1>9
<1> HIDE DEF A
<1>13. \A n \in 1..Len(executed') :
          executed'[n].outcome = "failed" /\ StopsAfter(executed'[n].test)
              => phase' = "finished" /\ n = Len(executed')
  <2>1. \A n \in 1..N : ~(executed'[n].outcome = "failed" /\ StopsAfter(executed'[n].test))
    BY <1>6, <1>9
  <2>2. outcome = "failed" /\ StopsAfter(Head(order)) => phase' = "finished"
    BY <1>2
  <2> QED BY <1>7, <1>8, <1>9, <1>10, <2>1, <2>2
<1>14. CASE outcome = "failed" /\ StopsAfter(Head(order))
  <2>1. phase' = "finished" /\ order' = order
    BY <1>2, <1>14
  <2>2. N + 1 \in 1..Len(executed') /\ executed'[N + 1].outcome = "failed"
    <3>1. N + 1 \in 1..Len(executed')
      BY <1>5, <1>9
    <3>2. r.outcome = "failed"
      BY <1>7, <1>14, Zenon
    <3> QED BY <1>9, <3>1, <3>2
  <2>3. Progress'
    BY <1>3, <1>11, <1>12, <1>13, <2>1, <2>2 DEF Progress, A
  <2>4. Shape' /\ Configured'
    BY <1>1, <1>9, <2>1 DEF Shape, Configured, Ordered, Valid, HasDuplicate, Registered
  <2> QED BY <1>1, <1>3, <2>1, <2>3, <2>4 DEF ScenarioInv
<1>15. CASE ~(outcome = "failed" /\ StopsAfter(Head(order)))
  <2>1. phase' = "running" /\ order' = Tail(order)
    BY <1>1, <1>2, <1>15
  <2>2. /\ order' \in Seq(Nat) /\ Len(order') = Len(order) - 1
        /\ \A n \in 1..Len(order') : n + 1 \in 1..Len(order) /\ order'[n] = order[n + 1]
    BY <1>5, <2>1
  <2>3. Len(order') = Len(A) - Len(executed')
    BY <1>4, <1>5, <1>6, <1>9, <2>2 DEF A
  <2>4. ASSUME NEW n \in 1..Len(order') PROVE order'[n] = A[Len(executed') + n]
    <3>1. order'[n] = A[N + (n + 1)]
      BY <1>6, <2>2
    <3>2. N + (n + 1) = (N + 1) + n
      BY <1>5, <2>2
    <3> QED BY <1>9, <3>1, <3>2
  <2>5. Progress'
    BY <1>3, <1>11, <1>12, <1>13, <2>1, <2>3, <2>4 DEF Progress, A
  <2>6. Shape' /\ Configured'
    BY <1>1, <1>9, <2>1, <2>2 DEF Shape, Configured, Ordered, Valid, HasDuplicate, Registered
  <2> QED BY <1>1, <1>3, <2>1, <2>5, <2>6 DEF ScenarioInv
<1> QED BY <1>14, <1>15

LEMMA ScenarioStep == ScenarioInv /\ [Next]_vars => ScenarioInv'
<1> SUFFICES ASSUME ScenarioInv, [Next]_vars PROVE ScenarioInv'
  OBVIOUS
<1>1. CASE UNCHANGED vars
  <2>1. Selected' = Selected /\ Inapplicable' = Inapplicable
    BY <1>1, SameOrder DEF vars
  <2>2. Progress' = Progress /\ Configured' = Configured /\ Shape' = Shape
    BY <1>1, <2>1 DEF vars, Progress, Configured, Shape, StopsAfter, Ordered, Valid,
                      HasDuplicate, Registered
  <2> QED BY <1>1, <2>1, <2>2 DEF ScenarioInv, vars
<1>2. CASE RefuseSequence \/ RefuseDirectory \/ RefuseItems
  <2>1. phase' = "refused" /\ executed = <<>> /\ UNCHANGED <<option, items, order, executed>>
    BY <1>2 DEF RefuseSequence, RefuseDirectory, RefuseItems, Refuse, ScenarioInv, input
  <2> QED BY <2>1 DEF ScenarioInv, Shape
<1>3. CASE Configure
  <2>1. /\ phase' = "collecting" /\ executed = <<>> /\ sequence' = option.names
        /\ failFast' = Ordered /\ (Ordered => Valid(option.names))
        /\ UNCHANGED <<option, items, order, executed>>
    BY <1>3 DEF Configure, SetFailFast, ScenarioInv, input
  <2>2. ~Ordered => option.names = <<>>
    BY OptionNames DEF ScenarioInv, Shape
  <2>3. Configured'
    BY <2>1, <2>2 DEF Configured, Ordered, Valid, HasDuplicate, Registered
  <2> QED BY <2>1, <2>3 DEF ScenarioInv, Shape
<1>4. CASE Collect
  BY <1>4, CollectKeeps
<1>5. CASE RunTest
  BY <1>5, RunTestKeeps
<1>6. CASE FinishSession
  <2>1. /\ Shape /\ Configured /\ ~Inapplicable /\ Progress
        /\ phase = "running" /\ phase' = "finished" /\ order = <<>>
        /\ UNCHANGED <<option, items, sequence, failFast, matched, order, executed>>
        /\ matched \subseteq 1..Len(items)
    BY <1>6 DEF FinishSession, ScenarioInv, input
  <2>2. Selected' = Selected /\ Inapplicable' = Inapplicable
    BY <2>1, SameOrder
  <2>3. Len(executed) = Len(Selected)
    <3>1. Len(order) = 0 /\ Len(order) = Len(Selected) - Len(executed)
      BY <2>1 DEF Progress
    <3>2. Len(executed) \in Nat /\ Len(Selected) \in Nat
      BY <2>1, SelectedIsSeq DEF Shape
    <3> QED BY <3>1, <3>2
  <2>4. Progress'
    BY <2>1, <2>2, <2>3 DEF Progress, StopsAfter
  <2>5. Shape' /\ Configured'
    BY <2>1 DEF Shape, Configured, Ordered, Valid, HasDuplicate, Registered
  <2> QED BY <2>1, <2>2, <2>4, <2>5 DEF ScenarioInv
<1> QED BY <1>1, <1>2, <1>3, <1>4, <1>5, <1>6 DEF Next

------------------------------------------------------------------------------
(* What the invariant means for the tests that ran.                        *)

LEMMA StepOfTest ==
  ASSUME Shape, Configured, Ordered, OneStepEach,
         NEW i \in 1..Len(items), NEW s \in 1..Len(sequence), At(i, s)
  PROVE  StepOf(i) = s
<1>1. /\ \A t \in 1..Len(option.names) : option.names[t] \in items[i].steps => t = s
      /\ s \in 1..Len(option.names) /\ option.names[s] \in items[i].steps
  BY DEF Configured, OneStepEach, At
<1> QED BY <1>1 DEF StepOf

LEMMA InOrder == ScenarioInv => RunsInOrder
<1> SUFFICES ASSUME ScenarioInv,
                    NEW m \in 1..Len(executed), NEW n \in 1..Len(executed), m < n
             PROVE  LET i == executed[m].test
                        j == executed[n].test
                    IN  /\ StepOf(i) < StepOf(j) \/ (StepOf(i) = StepOf(j) /\ i < j)
                        /\ executed[m].outcome = "failed" => ~Ordered /\ ~items[i].stopOnFail
  BY DEF RunsInOrder
<1> DEFINE i == executed[m].test
           j == executed[n].test
<1>1. phase \in {"running", "finished"} /\ Shape /\ Configured /\ ~Inapplicable /\ Progress
  <2>1. executed # <<>>
    OBVIOUS
  <2> QED BY <2>1 DEF ScenarioInv, Shape
<1>2. Len(executed) \in Nat /\ Len(Selected) \in Nat /\ Len(items) \in Nat
  BY <1>1, SelectedIsSeq DEF Shape
<1>3. i = Selected[m] /\ j = Selected[n] /\ m \in 1..Len(Selected) /\ n \in 1..Len(Selected)
  BY <1>1, <1>2 DEF Progress
<1>4. executed[m].outcome = "failed" => ~Ordered /\ ~items[i].stopOnFail
  <2> SUFFICES ASSUME executed[m].outcome = "failed" PROVE ~Ordered /\ ~items[i].stopOnFail
    OBVIOUS
  <2>1. ~StopsAfter(i)
    <3>1. m # Len(executed)
      BY <1>2
    <3> QED BY <1>1, <3>1 DEF Progress
  <2> QED BY <1>1, <2>1 DEF StopsAfter, Configured
<1>5. /\ SelectedTo(Selected) /\ (~Ordered => sequence = <<>>) /\ (Ordered => OneStepEach)
  BY <1>1, SelectedIsSeq
<1>6. CASE ~Ordered
  <2>1. i < j
    BY <1>3, <1>5, <1>6 DEF SelectedTo
  <2>2. StepOf(i) = 1 /\ StepOf(j) = 1
    BY <1>6 DEF StepOf
  <2> QED BY <1>4, <2>1, <2>2
<1>7. CASE Ordered
  <2>1. i \in 1..Len(items) /\ j \in 1..Len(items) /\ OneStepEach
    BY <1>3, <1>5, <1>7 DEF SelectedTo
  <2>2. PICK s \in 1..Len(sequence) : At(i, s)
    BY <1>3, <1>5, <1>7 DEF SelectedTo
  <2>3. PICK t \in 1..Len(sequence) : At(j, t)
    BY <1>3, <1>5, <1>7 DEF SelectedTo
  <2>4. s < t \/ (s = t /\ i < j)
    BY <1>3, <1>5, <1>7, <2>2, <2>3 DEF SelectedTo
  <2>5. StepOf(i) = s
    <3> HIDE DEF i
    <3> QED BY <1>1, <1>7, <2>1, <2>2, StepOfTest
  <2>6. StepOf(j) = t
    <3> HIDE DEF j
    <3> QED BY <1>1, <1>7, <2>1, <2>3, StepOfTest
  <2> QED BY <1>4, <2>4, <2>5, <2>6
<1> QED BY <1>6, <1>7

LEMMA Complete == ScenarioInv => GreenCameToAll
<1> SUFFICES ASSUME ScenarioInv, phase = "finished", Ordered,
                    \A n \in 1..Len(executed) : executed[n].outcome # "failed"
             PROVE  LET came == {executed[n].test : n \in 1..Len(executed)} IN
                    /\ came = {i \in matched :
                                 items[i].steps \cap ToSet(option.names) # {}}
                    /\ matched = 1..Len(items) => \A n \in 1..Len(option.names) :
                           \E i \in came : items[i].steps \cap ToSet(option.names)
                                             = {option.names[n]}
  BY DEF GreenCameToAll
<1> DEFINE came == {executed[n].test : n \in 1..Len(executed)}
           A == Selected
           names == option.names
<1>1. Shape /\ Configured /\ ~Inapplicable /\ Progress /\ matched \subseteq 1..Len(items)
  BY DEF ScenarioInv
<1>2. /\ Len(A) \in Nat /\ OneStepEach /\ SelectedTo(A)
      /\ sequence = names /\ names \in Seq(Names) /\ Len(items) \in Nat
  BY <1>1, SelectedIsSeq, OptionNames DEF Shape, Configured
<1>3. Len(executed) = Len(A)
  BY <1>1 DEF Progress
<1>4. came = {A[n] : n \in 1..Len(A)}
  <2>1. \A n \in 1..Len(A) : executed[n].test = A[n]
    BY <1>1, <1>3 DEF Progress
  <2> QED BY <1>3, <2>1
<1>5. \A i \in 1..Len(items) : \A s \in 1..Len(names) :
         At(i, s) <=> names[s] \in items[i].steps
  BY <1>2 DEF At
<1>6. ToSet(names) = {names[s] : s \in 1..Len(names)}
  BY <1>2 DEF ToSet
<1>7. /\ matched \subseteq 1..Len(items)
      /\ \A m \in 1..Len(A) : A[m] \in matched /\ \E s \in 1..Len(names) : At(A[m], s)
      /\ \A i \in matched : \A s \in 1..Len(names) :
            At(i, s) => \E m \in 1..Len(A) : A[m] = i
  BY <1>1, <1>2 DEF SelectedTo
<1> HIDE DEF A, names
<1>8. came = {i \in matched : items[i].steps \cap ToSet(names) # {}}
  <2>1. ASSUME NEW i \in came
        PROVE  i \in matched /\ items[i].steps \cap ToSet(names) # {}
    <3>1. PICK m \in 1..Len(A) : i = A[m]
      BY <1>4
    <3>2. PICK s \in 1..Len(names) : At(i, s)
      BY <1>7, <3>1
    <3>3. i \in matched /\ names[s] \in items[i].steps /\ names[s] \in ToSet(names)
      BY <1>5, <1>6, <1>7, <3>1, <3>2
    <3> QED BY <3>3
  <2>2. ASSUME NEW i \in matched, items[i].steps \cap ToSet(names) # {}
        PROVE  i \in came
    <3>1. PICK s \in 1..Len(names) : names[s] \in items[i].steps
      BY <1>6, <2>2
    <3>2. PICK m \in 1..Len(A) : A[m] = i
      BY <1>5, <1>7, <3>1
    <3> QED BY <1>4, <3>2
  <2> HIDE DEF came
  <2> QED BY <2>1, <2>2
<1>9. ASSUME matched = 1..Len(items), NEW n \in 1..Len(names)
      PROVE  \E i \in came : items[i].steps \cap ToSet(names) = {names[n]}
  <2> DEFINE g == Group(names[n])
  <2>1. g # <<>>
    BY <1>1, <1>2 DEF Inapplicable
  <2>2. \A marker : Lists(Group(marker), marker, Len(items))
    BY <1>2, GroupLists
  <2>3. g \in Seq(Nat) /\ \A m \in 1..Len(g) : g[m] \in 1..Len(items)
                                         /\ names[n] \in items[g[m]].steps
    BY <2>2 DEF Lists
  <2> HIDE DEF g
  <2>4. 1 \in 1..Len(g)
    BY <2>1, <2>3
  <2> DEFINE i == g[1]
  <2>5. i \in 1..Len(items) /\ names[n] \in items[i].steps
    BY <2>3, <2>4
  <2> HIDE DEF i
  <2>6. At(i, n)
    BY <1>5, <2>5
  <2>7. i \in came
    BY <1>4, <1>7, <1>9, <2>5, <2>6
  <2>8. ASSUME NEW x \in items[i].steps \cap ToSet(names) PROVE x = names[n]
    <3>1. PICK s \in 1..Len(names) : x = names[s]
      BY <1>6
    <3>2. At(i, s)
      BY <1>5, <2>5, <3>1
    <3>3. s = n
      BY <1>2, <2>5, <2>6, <3>2 DEF OneStepEach
    <3> QED BY <3>1, <3>3
  <2>9. names[n] \in items[i].steps \cap ToSet(names)
    BY <1>6, <2>5
  <2> QED BY <2>7, <2>8, <2>9
<1> QED BY <1>8, <1>9 DEF names

(* Tests run step by step in the requested order, those of a step in the   *)
(* order of collection, each once, and none after a failure that stops the *)
(* session: what _apply_marker_sequence arranges for any markers and tests.*)
THEOREM ScenarioRunsInOrder == Spec => []RunsInOrder
<1>1. ScenarioInv => RunsInOrder
  BY InOrder
<1> QED BY <1>1, InitScenario, ScenarioStep, PTL DEF Spec

(* An ordered session that finishes without a failure has come to every    *)
(* collected test of its steps that pytest's -k and -m left, and to no     *)
(* other; if they left all, to at least one for each step.                 *)
THEOREM GreenScenarioCameToAll == Spec => []GreenCameToAll
<1>1. ScenarioInv => GreenCameToAll
  BY Complete
<1> QED BY <1>1, InitScenario, ScenarioStep, PTL DEF Spec

------------------------------------------------------------------------------
(* The types.                                                              *)

LEMMA BoundedSeqIs ==
  ASSUME NEW S, NEW n \in Nat, NEW q
  PROVE  q \in BoundedSeq(S, n) <=> q \in Seq(S) /\ Len(q) <= n
<1>1. ASSUME q \in BoundedSeq(S, n) PROVE q \in Seq(S) /\ Len(q) <= n
  <2>1. PICK m \in 0..n : q \in [1..m -> S]
    BY <1>1 DEF BoundedSeq, SeqOf
  <2>2. q \in Seq(S) /\ Len(q) = m
    BY <2>1
  <2> QED BY <2>2
<1>2. ASSUME q \in Seq(S), Len(q) <= n PROVE q \in BoundedSeq(S, n)
  <2>1. Len(q) \in 0..n /\ q \in [1..Len(q) -> S]
    BY <1>2
  <2> QED BY <2>1 DEF BoundedSeq, SeqOf
<1> QED BY <1>1, <1>2

LEMMA OptionTypes ==
  ASSUME option \in Options, Ordered => Valid(option.names)
  PROVE  option.names \in BoundedSeq(Markers, MaxSteps)
<1>0. MaxSteps \in Nat
  BY ScenarioAssumption
<1>1. \/ option.names = <<>>
      \/ option.kind \in {"markers", "scenario"} /\ option.names \in Sequences
  BY DEF Options
<1>2. CASE option.names = <<>>
  <2>1. <<>> \in Seq(Markers) /\ Len(<<>>) <= MaxSteps
    BY <1>0
  <2> QED BY <1>0, <1>2, <2>1, BoundedSeqIs
<1>3. CASE option.kind \in {"markers", "scenario"} /\ option.names \in Sequences
  <2> DEFINE names == option.names
  <2>1. names \in BoundedSeq(Names, MaxSteps) /\ Valid(names)
    BY <1>3 DEF Sequences, Ordered
  <2> HIDE DEF names
  <2>2. names \in Seq(Names) /\ Len(names) <= MaxSteps
    BY <1>0, <2>1, BoundedSeqIs
  <2>3. \A i \in 1..Len(names) : names[i] \in Markers
    BY <2>1, <2>2 DEF Valid, Registered, ToSet
  <2>4. names \in Seq(Markers)
    BY <2>2, <2>3
  <2> QED BY <1>0, <2>2, <2>4, BoundedSeqIs DEF names
<1> QED BY <1>1, <1>2, <1>3

(* What ran has its type because it is a part of the arranged order. *)
LEMMA ExecutedTypes ==
  ASSUME ScenarioInv, items \in BoundedSeq(Kinds, MaxTests)
  PROVE  Len(executed) <= MaxTests /\ Range(executed) \subseteq Results
<1>0. MaxTests \in Nat /\ Len(items) \in Nat /\ Len(items) <= MaxTests
  BY ScenarioAssumption, BoundedSeqIs
<1>1. CASE executed = <<>>
  BY <1>0, <1>1 DEF Range
<1>2. CASE executed # <<>>
  <2>1. Shape /\ Configured /\ ~Inapplicable /\ Progress
    BY <1>2 DEF ScenarioInv, Shape
  <2>2. /\ Len(Selected) <= Len(items) /\ Len(Selected) \in Nat
        /\ \A m \in 1..Len(Selected) : Selected[m] \in 1..Len(items)
    BY <2>1, SelectedIsSeq DEF SelectedTo
  <2>3. /\ executed \in Seq([test : Nat, outcome : Outcomes]) /\ Len(executed) \in Nat
        /\ Len(executed) <= Len(Selected)
        /\ \A n \in 1..Len(executed) : executed[n].test = Selected[n]
    BY <2>1 DEF Progress, Shape
  <2>4. ASSUME NEW n \in 1..Len(executed) PROVE executed[n] \in Results
    <3>1. executed[n] \in [test : Nat, outcome : Outcomes]
      BY <2>3, ElementOfSeq
    <3>2. executed[n].test \in 1..Len(items)
      BY <2>2, <2>3
    <3>3. executed[n].test \in 1..MaxTests
      BY <1>0, <3>2
    <3> QED BY <3>1, <3>3 DEF Results
  <2>5. DOMAIN executed = 1..Len(executed)
    BY <2>3
  <2> QED BY <1>0, <2>2, <2>3, <2>4, <2>5 DEF Range
<1> QED BY <1>1, <1>2

OtherTypes ==
    /\ option \in Options
    /\ stand \in BOOLEAN /\ hardwarePath \in BOOLEAN
    /\ items \in BoundedSeq(Kinds, MaxTests)
    /\ sequence \in BoundedSeq(Markers, MaxSteps)
    /\ failFast \in BOOLEAN
    /\ directory \in {"free", "unusable", "created"}
    /\ matched \subseteq 1..MaxTests
    /\ order \in BoundedSeq(1..MaxTests, MaxTests)

LEMMA TypesStep ==
  ASSUME OtherTypes, ScenarioInv, [Next]_vars
  PROVE  OtherTypes'
<1>0. /\ MaxTests \in Nat /\ items \in BoundedSeq(Kinds, MaxTests)
      /\ order \in BoundedSeq(1..MaxTests, MaxTests)
  BY ScenarioAssumption DEF OtherTypes
<1>1. UNCHANGED <<option, stand, hardwarePath, items>>
  BY DEF Next, vars, RefuseSequence, RefuseDirectory, RefuseItems, Refuse, Configure,
         Collect, RunTest, FinishSession, input
<1>2. directory' \in {"free", "unusable", "created"}
  <2>1. directory' = directory \/ directory' = "created"
    BY DEF Next, vars, RefuseSequence, RefuseDirectory, RefuseItems, Refuse, Configure,
           Collect, RunTest, FinishSession
  <2> QED BY <2>1 DEF OtherTypes
<1>3. failFast' \in BOOLEAN
  <2>1. failFast' = failFast \/ failFast' = Ordered
    BY DEF Next, vars, RefuseSequence, RefuseDirectory, RefuseItems, Refuse, Configure,
           Collect, RunTest, FinishSession, SetFailFast
  <2>2. Ordered \in BOOLEAN
    BY DEF Ordered
  <2> QED BY <2>1, <2>2 DEF OtherTypes
<1>4. sequence' \in BoundedSeq(Markers, MaxSteps)
  <2>1. sequence' = sequence \/ (sequence' = option.names /\ (Ordered => Valid(option.names)))
    BY DEF Next, vars, RefuseSequence, RefuseDirectory, RefuseItems, Refuse, Configure,
           Collect, RunTest, FinishSession
  <2>2. option \in Options /\ sequence \in BoundedSeq(Markers, MaxSteps)
    BY DEF OtherTypes
  <2> QED BY <2>1, <2>2, OptionTypes
<1>5. order' \in BoundedSeq(1..MaxTests, MaxTests)
  <2>1. CASE order' = order
    BY <1>0, <2>1
  <2>2. CASE Collect
    <3>1. /\ Shape /\ Configured /\ ~Inapplicable
          /\ order' = Left(Arranged, matched')
      BY <2>2 DEF Collect, ScenarioInv
    <3>2. /\ Arranged \in Seq(Nat) /\ Len(Arranged) \in Nat /\ Len(Arranged) <= Len(items)
          /\ \A m \in 1..Len(Arranged) : Arranged[m] \in 1..Len(items)
      BY <3>1, ArrangedFits, ArrangedIsSeq
    <3> DEFINE B == Arranged
               M == matched'
               u == Left(B, M)
    <3> HIDE DEF B, M
    <3>3. PICK f : Picks(u, f, B, M, Len(B))
      BY <3>2, LeftPicks DEF B
    <3> HIDE DEF u
    <3>4. /\ order' \in Seq(Nat) /\ Len(order') <= Len(items)
          /\ \A m \in 1..Len(order') : order'[m] \in 1..Len(items)
      <4>1. order' = u
        BY <3>1 DEF u, B, M
      <4>2. /\ u \in Seq(Nat) /\ Len(u) <= Len(B)
            /\ \A m \in 1..Len(u) : f[m] \in 1..Len(B) /\ u[m] = B[f[m]]
        BY <3>3 DEF Picks
      <4>3. Len(items) \in Nat /\ Len(u) \in Nat
        BY <1>0, <4>2, BoundedSeqIs
      <4> QED BY <3>2, <4>1, <4>2, <4>3 DEF B
    <3>5. Len(items) \in Nat /\ Len(items) <= MaxTests
      BY <1>0, BoundedSeqIs
    <3> DEFINE A == order'
    <3> HIDE DEF A
    <3>6. \A m \in 1..Len(A) : A[m] \in 1..MaxTests
      <4>1. \A x \in 1..Len(items) : x \in 1..MaxTests
        BY <1>0, <3>5
      <4> QED BY <3>4, <4>1, Zenon DEF A
    <3>7. A \in Seq(1..MaxTests) /\ Len(A) <= MaxTests
      BY <1>0, <3>4, <3>5, <3>6 DEF A
    <3>8. A \in BoundedSeq(1..MaxTests, MaxTests)
      BY <1>0, <3>7, BoundedSeqIs
    <3> QED BY <3>8 DEF A
  <2>3. CASE order # <<>> /\ order' = Tail(order)
    <3> DEFINE T == 1..MaxTests
    <3>1. order \in Seq(T) /\ Len(order) <= MaxTests
      BY <1>0, BoundedSeqIs
    <3> HIDE DEF T
    <3>2. Tail(order) \in Seq(T) /\ Len(Tail(order)) <= MaxTests
      BY <1>0, <2>3, <3>1
    <3> DEFINE t == Tail(order)
    <3> HIDE DEF t
    <3>3. t \in BoundedSeq(T, MaxTests)
      BY <1>0, <3>2, BoundedSeqIs DEF t
    <3> QED BY <2>3, <3>3 DEF T, t
  <2>4. order' = order \/ Collect \/ (order # <<>> /\ order' = Tail(order))
    BY DEF Next, vars, RefuseSequence, RefuseDirectory, RefuseItems, Refuse, Configure,
           RunTest, FinishSession
  <2> QED BY <2>1, <2>2, <2>3, <2>4
<1>6. matched' \subseteq 1..MaxTests
  <2>1. matched' = matched \/ matched' \subseteq 1..Len(items)
    BY DEF Next, vars, RefuseSequence, RefuseDirectory, RefuseItems, Refuse, Configure,
           Collect, RunTest, FinishSession
  <2>2. Len(items) \in Nat /\ Len(items) <= MaxTests
    BY <1>0, BoundedSeqIs
  <2>3. \A x \in 1..Len(items) : x \in 1..MaxTests
    BY <1>0, <2>2
  <2>4. matched \subseteq 1..MaxTests
    BY DEF OtherTypes
  <2> QED BY <2>1, <2>3, <2>4, Zenon
<1> QED BY <1>1, <1>2, <1>3, <1>4, <1>5, <1>6 DEF OtherTypes

(* Every variable keeps its type; in particular the plugin never arranges  *)
(* more tests than pytest collected.                                       *)
THEOREM ScenarioTypes == Spec => []ScenarioTypeOK
<1>1. Init => OtherTypes
  <2> SUFFICES ASSUME Init PROVE OtherTypes
    OBVIOUS
  <2>1. MaxTests \in Nat /\ MaxSteps \in Nat
    BY ScenarioAssumption
  <2>2. <<>> \in BoundedSeq(Markers, MaxSteps)
    <3>1. <<>> \in Seq(Markers) /\ Len(<<>>) <= MaxSteps
      BY <2>1
    <3> QED BY <2>1, <3>1, BoundedSeqIs
  <2>3. <<>> \in BoundedSeq(1..MaxTests, MaxTests)
    <3> DEFINE T == 1..MaxTests
    <3> HIDE DEF T
    <3>1. <<>> \in Seq(T) /\ Len(<<>>) <= MaxTests
      BY <2>1
    <3>2. <<>> \in BoundedSeq(T, MaxTests)
      BY <2>1, <3>1, BoundedSeqIs
    <3> QED BY <3>2 DEF T
  <2> QED BY <2>2, <2>3 DEF Init, OtherTypes
<1>2. OtherTypes /\ ScenarioInv /\ [Next]_vars => OtherTypes'
  BY TypesStep
<1>3. OtherTypes /\ ScenarioInv => ScenarioTypeOK
  BY ExecutedTypes DEF OtherTypes, ScenarioInv, Shape, ScenarioTypeOK
<1>4. Spec => []ScenarioInv
  BY InitScenario, ScenarioStep, PTL DEF Spec
<1> QED BY <1>1, <1>2, <1>3, <1>4, PTL DEF Spec
==============================================================================
