----------------------------- MODULE FoldProofs -----------------------------
(***************************************************************************)
(* Lemmas about what the model computes along a list: FlattenSeq, by which *)
(* it puts together what a repair copies and what a detector reports piece *)
(* by piece, and the health score of a list of corruptions.                *)
(***************************************************************************)
EXTENDS HealthScore, SequencesExt, SequenceTheorems, WellFoundedInduction, TLAPS

\* A set of naturals that is not empty has a least element.
LEMMA LeastElement ==
  ASSUME NEW T, T \subseteq Nat, T # {}
  PROVE  \E m \in T : \A k \in T : m <= k
<1>1. PICK m \in T : \A k \in T : <<k, m>> \notin OpToRel(<, Nat)
  BY NatLessThanWellFounded, WFMin, Zenon
<1>2. \A k \in T : ~(k < m)
  BY <1>1, Zenon DEF OpToRel
<1>3. \A k \in T : m <= k
  BY <1>2
<1> QED BY <1>3

\* A function on 1 .. n is a sequence of that length.
LEMMA FunctionSeq ==
  ASSUME NEW S, NEW n \in Nat, NEW g \in [1 .. n -> S]
  PROVE  g \in Seq(S) /\ Len(g) = n
<1>1. g \in Seq(S)
  BY SeqDef
<1>2. DOMAIN g = 1 .. n /\ Len(g) \in Nat /\ DOMAIN g = 1 .. Len(g)
  BY <1>1
<1> QED BY <1>1, <1>2

\* The first n elements of a sequence.
LEMMA PrefixFacts ==
  ASSUME NEW S, NEW s \in Seq(S), NEW n \in Nat, n <= Len(s)
  PROVE  /\ SubSeq(s, 1, n) \in Seq(S) /\ Len(SubSeq(s, 1, n)) = n
         /\ DOMAIN SubSeq(s, 1, n) = 1 .. n
         /\ \A i \in 1 .. n : SubSeq(s, 1, n)[i] = s[i]
<1>1. \A i \in 1 .. n : s[i] \in S
  OBVIOUS
<1>2. /\ SubSeq(s, 1, n) \in Seq(S)
      /\ Len(SubSeq(s, 1, n)) = IF 1 <= n THEN n - 1 + 1 ELSE 0
      /\ \A i \in 1 .. n - 1 + 1 : SubSeq(s, 1, n)[i] = s[1 + i - 1]
  BY <1>1, SubSeqProperties
<1>3. n - 1 + 1 = n /\ \A i \in 1 .. n : 1 + i - 1 = i
  OBVIOUS
<1>4. Len(SubSeq(s, 1, n)) = n
  BY <1>2
<1> QED BY <1>2, <1>3, <1>4

\* g holds what has been put together after each of the first m pieces.
Joins(g, ss, m) == g[1] = ss[1] /\ \A i \in 2 .. m : g[i] = g[i - 1] \o ss[i]

\* The pieces can be put together one after the other.
LEMMA JoinsExist ==
  ASSUME NEW S, NEW ss \in Seq(Seq(S)), ss # << >>
  PROVE  \E g \in [1 .. Len(ss) -> Seq(S)] : Joins(g, ss, Len(ss))
<1> DEFINE n == Len(ss)
           missing == {m \in 1 .. n : ~\E g \in [1 .. m -> Seq(S)] : Joins(g, ss, m)}
<1>1. n \in Nat /\ n >= 1 /\ \A i \in 1 .. n : ss[i] \in Seq(S)
  OBVIOUS
<1> HIDE DEF n
<1>2. ASSUME missing # {} PROVE FALSE
  <2>1. missing \subseteq Nat
    BY <1>1
  <2>2. PICK m \in missing : \A k \in missing : m <= k
    BY <1>2, <2>1, LeastElement
  <2>3. m \in 1 .. n /\ m \in Nat
    BY <1>1
  <2>4. CASE m = 1
    <3> DEFINE g == [i \in 1 .. m |-> ss[1]]
    <3>1. g \in [1 .. m -> Seq(S)] /\ Joins(g, ss, m)
      BY <1>1, <2>4 DEF Joins
    <3> QED BY <2>2, <3>1
  <2>5. CASE m # 1
    <3>1. m - 1 \in 1 .. n /\ m - 1 \notin missing
      <4>1. m - 1 \in 1 .. n /\ ~(m <= m - 1)
        BY <1>1, <2>3, <2>5
      <4> HIDE DEF missing
      <4> QED BY <2>2, <4>1
    <3>2. PICK h \in [1 .. m - 1 -> Seq(S)] : Joins(h, ss, m - 1)
      BY <3>1
    <3> DEFINE g == [i \in 1 .. m |-> IF i = m THEN h[m - 1] \o ss[m] ELSE h[i]]
    <3>3. h[m - 1] \in Seq(S) /\ ss[m] \in Seq(S)
      BY <1>1, <2>3, <2>5
    <3>4. h[m - 1] \o ss[m] \in Seq(S)
      BY <3>3
    <3>5. g \in [1 .. m -> Seq(S)]
      BY <2>3, <3>4
    <3>6. Joins(g, ss, m)
      <4>1. g[1] = ss[1]
        BY <2>3, <2>5, <3>2 DEF Joins
      <4>2. ASSUME NEW i \in 2 .. m PROVE g[i] = g[i - 1] \o ss[i]
        <5>1. CASE i = m
          <6>1. m \in 1 .. m /\ m - 1 \in 1 .. m /\ m - 1 # m
            BY <2>3, <2>5
          <6>2. g[m] = h[m - 1] \o ss[m] /\ g[m - 1] = h[m - 1]
            BY <6>1
          <6> QED BY <5>1, <6>2
        <5>2. CASE i # m
          <6>1. i \in 2 .. m - 1 /\ i \in 1 .. m /\ i - 1 \in 1 .. m /\ i - 1 # m
            BY <2>3, <5>2
          <6>2. h[i] = h[i - 1] \o ss[i]
            BY <3>2, <6>1 DEF Joins
          <6> QED BY <5>2, <6>1, <6>2
        <5> QED BY <5>1, <5>2
      <4> QED BY <4>1, <4>2 DEF Joins
    <3> QED BY <2>2, <3>5, <3>6
  <2> QED BY <2>4, <2>5
<1>3. n \notin missing /\ n \in 1 .. n
  <2>1. n \in 1 .. n
    BY <1>1
  <2> HIDE DEF missing
  <2> QED BY <1>2, <2>1
<1> QED BY <1>3 DEF n

\* In one way only.
LEMMA JoinsUnique ==
  ASSUME NEW ss, NEW n \in Nat, NEW g, NEW h, Joins(g, ss, n), Joins(h, ss, n), n >= 1
  PROVE  g[n] = h[n]
<1> DEFINE differ == {m \in 1 .. n : g[m] # h[m]}
<1>1. ASSUME differ # {} PROVE FALSE
  <2>1. differ \subseteq Nat
    OBVIOUS
  <2>2. PICK m \in differ : \A k \in differ : m <= k
    BY <1>1, <2>1, LeastElement
  <2>3. m # 1
    BY <2>2 DEF Joins
  <2>4. m \in 2 .. n /\ m - 1 \in 1 .. n /\ ~(m <= m - 1)
    BY <2>1, <2>3
  <2>5. g[m - 1] = h[m - 1]
    BY <2>2, <2>4
  <2> QED BY <2>4, <2>5 DEF Joins
<1> QED BY <1>1

\* FlattenSeq is what has been put together after the last piece.
LEMMA FlattenJoins ==
  ASSUME NEW S, NEW ss \in Seq(Seq(S)), ss # << >>,
         NEW g, Joins(g, ss, Len(ss))
  PROVE  FlattenSeq(ss) = g[Len(ss)]
<1> DEFINE n == Len(ss)
           Extends(f) == [i \in 1 .. n |-> IF i = 1 THEN ss[i] ELSE f[i - 1] \o ss[i]]
           flatten == CHOOSE f : f = Extends(f)
<1>1. n \in Nat /\ n >= 1 /\ n # 0
  OBVIOUS
<1>2. FlattenSeq(ss) = flatten[n]
  BY <1>1 DEF FlattenSeq
<1>3. PICK h \in [1 .. n -> Seq(S)] : Joins(h, ss, n)
  BY JoinsExist
<1> HIDE DEF n
<1>4. h = Extends(h)
  <2>1. ASSUME NEW i \in 1 .. n PROVE h[i] = Extends(h)[i]
    <3>1. CASE i = 1
      BY <1>3, <3>1 DEF Joins
    <3>2. CASE i # 1
      <4>1. i \in 2 .. n
        BY <1>1, <3>2
      <4> QED BY <1>3, <3>2, <4>1 DEF Joins
    <3> QED BY <3>1, <3>2
  <2> QED BY <2>1
<1>5. flatten = Extends(flatten)
  <2> HIDE DEF Extends
  <2> QED BY <1>4
<1> HIDE DEF flatten
<1>6. Joins(flatten, ss, n)
  <2>1. \A i \in 1 .. n : flatten[i] = IF i = 1 THEN ss[i] ELSE flatten[i - 1] \o ss[i]
    BY <1>5
  <2>2. 1 \in 1 .. n /\ \A i \in 2 .. n : i \in 1 .. n /\ i # 1
    BY <1>1
  <2> QED BY <2>1, <2>2 DEF Joins
<1>7. Joins(g, ss, n)
  BY DEF n
<1>8. flatten[n] = g[n]
  BY <1>1, <1>6, <1>7, JoinsUnique
<1> QED BY <1>2, <1>8 DEF n

\* What is put together of sequences over a set is a sequence over that set.
LEMMA FlattenType ==
  ASSUME NEW S, NEW ss \in Seq(Seq(S))
  PROVE  FlattenSeq(ss) \in Seq(S)
<1>1. CASE ss = << >>
  <2>1. FlattenSeq(ss) = << >>
    BY <1>1 DEF FlattenSeq
  <2> QED BY <2>1
<1>2. CASE ss # << >>
  <2>1. PICK g \in [1 .. Len(ss) -> Seq(S)] : Joins(g, ss, Len(ss))
    BY <1>2, JoinsExist
  <2>2. FlattenSeq(ss) = g[Len(ss)] /\ Len(ss) \in 1 .. Len(ss)
    BY <1>2, <2>1, FlattenJoins
  <2> QED BY <2>1, <2>2
<1> QED BY <1>1, <1>2

\* Where the pieces are in what is put together: behind at[i] elements come those of
\* piece i + 1.
Spread(at, ss) ==
  /\ at \in [0 .. Len(ss) -> Nat] /\ at[0] = 0 /\ at[Len(ss)] = Len(FlattenSeq(ss))
  /\ \A i \in 1 .. Len(ss) : /\ at[i] = at[i - 1] + Len(ss[i]) /\ at[i] <= Len(FlattenSeq(ss))
                             /\ \A k \in 1 .. Len(ss[i]) : FlattenSeq(ss)[at[i - 1] + k] = ss[i][k]

LEMMA FlattenPlaces ==
  ASSUME NEW S, NEW ss \in Seq(Seq(S)), ss # << >>
  PROVE  \E at : Spread(at, ss)
<1> DEFINE n == Len(ss)
           all == FlattenSeq(ss)
<1>1. n \in Nat /\ n >= 1 /\ \A i \in 1 .. n : ss[i] \in Seq(S) /\ Len(ss[i]) \in Nat
  OBVIOUS
<1>2. PICK g \in [1 .. n -> Seq(S)] : Joins(g, ss, n)
  BY JoinsExist
<1>3. all = g[n]
  BY <1>2, FlattenJoins
<1> HIDE DEF n, all
<1> DEFINE at == [i \in 0 .. n |-> IF i = 0 THEN 0 ELSE Len(g[i])]
<1>4. \A i \in 1 .. n : g[i] \in Seq(S) /\ Len(g[i]) \in Nat
  OBVIOUS
<1>5. at \in [0 .. n -> Nat] /\ at[0] = 0 /\ at[n] = Len(all)
  <2>1. \A i \in 0 .. n : i # 0 => i \in 1 .. n
    BY <1>1
  <2> QED BY <1>1, <1>3, <1>4, <2>1
<1>6. ASSUME NEW i \in 1 .. n
      PROVE  /\ at[i] = at[i - 1] + Len(ss[i]) /\ at[i] = Len(g[i])
             /\ \A k \in 1 .. Len(ss[i]) : g[i][at[i - 1] + k] = ss[i][k]
             /\ i # 1 => \A k \in 1 .. Len(g[i - 1]) : g[i][k] = g[i - 1][k]
  <2>1. i \in 0 .. n /\ i # 0 /\ i - 1 \in 0 .. n /\ at[i] = Len(g[i])
    BY <1>1
  <2>2. CASE i = 1
    <3>1. at[i - 1] = 0 /\ g[i] = ss[i]
      BY <1>1, <1>2, <2>2 DEF Joins
    <3>2. Len(ss[i]) \in Nat
      BY <1>1
    <3> HIDE DEF at
    <3> QED BY <2>1, <2>2, <3>1, <3>2
  <2>3. CASE i # 1
    <3>1. i \in 2 .. n /\ i - 1 \in 1 .. n
      BY <1>1, <2>3
    <3>2. g[i] = g[i - 1] \o ss[i] /\ at[i - 1] = Len(g[i - 1])
      <4>1. i - 1 # 0
        BY <3>1
      <4>2. at[i - 1] = Len(g[i - 1])
        BY <2>1, <4>1
      <4> QED BY <1>2, <3>1, <4>2 DEF Joins
    <3>3. g[i - 1] \in Seq(S) /\ ss[i] \in Seq(S)
      BY <1>1, <1>4, <3>1
    <3> DEFINE x == g[i - 1]
               y == ss[i]
    <3>4. x \in Seq(S) /\ y \in Seq(S)
      BY <3>3
    <3> HIDE DEF x, y, at
    <3>5. /\ Len(x \o y) = Len(x) + Len(y)
          /\ \A k \in 1 .. Len(y) : (x \o y)[Len(x) + k] = y[k]
          /\ \A k \in 1 .. Len(x) : (x \o y)[k] = x[k]
      BY <3>4
    <3> QED BY <2>1, <3>2, <3>5 DEF x, y
  <2> QED BY <2>2, <2>3
<1> HIDE DEF at
<1>7. \A i \in 0 .. n : at[i] \in Nat
  BY <1>5
<1>8. ASSUME NEW p \in 1 .. n
      PROVE  at[p] <= at[n] /\ \A k \in 1 .. at[p] : g[n][k] = g[p][k]
  <2> DEFINE Kept(i) == at[p] <= at[i] /\ \A k \in 1 .. at[p] : g[i][k] = g[p][k]
             bad == {i \in p .. n : ~Kept(i)}
  <2>1. ASSUME bad # {} PROVE FALSE
    <3>1. bad \subseteq Nat
      BY <1>1
    <3>2. PICK m \in bad : \A i \in bad : m <= i
      BY <2>1, <3>1, LeastElement
    <3>3. m \in p .. n /\ m \in 1 .. n /\ ~Kept(m)
      BY <1>1
    <3>4. Kept(p)
      BY <1>7
    <3>5. m # p
      BY <3>3, <3>4
    <3>6. m - 1 \in p .. n /\ m # 1 /\ ~(m <= m - 1) /\ m - 1 \in 0 .. n /\ m - 1 \in 1 .. n /\ m \in 0 .. n
      BY <1>1, <3>3, <3>5
    <3>7. Kept(m - 1)
      BY <3>2, <3>6
    <3>8. /\ at[m] = at[m - 1] + Len(ss[m]) /\ Len(ss[m]) \in Nat /\ at[m - 1] = Len(g[m - 1])
          /\ \A k \in 1 .. Len(g[m - 1]) : g[m][k] = g[m - 1][k]
      BY <1>1, <1>6, <3>3, <3>6
    <3>9. at[m - 1] \in Nat /\ at[p] \in Nat
      BY <1>7, <3>6
    <3> DEFINE u == at[m - 1]
               v == at[p]
               w == Len(ss[m])
    <3>10. u \in Nat /\ v \in Nat /\ w \in Nat /\ v <= u
      BY <3>7, <3>8, <3>9
    <3> HIDE DEF u, v, w
    <3>11. v <= u + w /\ \A k \in 1 .. v : k \in 1 .. u
      BY <3>10
    <3>12. Kept(m)
      BY <3>7, <3>8, <3>11 DEF u, v, w
    <3> QED BY <3>3, <3>12
  <2>2. n \in p .. n
    BY <1>1
  <2>3. n \notin bad
    <3> HIDE DEF bad
    <3> QED BY <2>1
  <2> QED BY <2>2, <2>3
<1>9. ASSUME NEW i \in 1 .. n, NEW k \in 1 .. Len(ss[i])
      PROVE  all[at[i - 1] + k] = ss[i][k]
  <2> DEFINE u == at[i - 1]
             w == Len(ss[i])
  <2>1. u \in Nat /\ w \in Nat /\ at[i] = u + w /\ k \in 1 .. w
    <3>1. i - 1 \in 0 .. n
      BY <1>1
    <3> QED BY <1>1, <1>6, <1>7, <3>1
  <2> HIDE DEF u, w
  <2>2. u + k \in 1 .. u + w
    BY <2>1
  <2>3. g[n][u + k] = g[i][u + k]
    BY <1>8, <2>1, <2>2
  <2>4. g[i][u + k] = ss[i][k]
    BY <1>6 DEF u
  <2> QED BY <1>3, <2>3, <2>4 DEF u
<1>10. \A i \in 1 .. n : /\ at[i] = at[i - 1] + Len(ss[i]) /\ at[i] <= Len(all)
                         /\ \A k \in 1 .. Len(ss[i]) : all[at[i - 1] + k] = ss[i][k]
  BY <1>5, <1>6, <1>8, <1>9
<1>11. Spread(at, ss)
  BY <1>5, <1>10 DEF Spread, n, all
<1> QED BY <1>11

-----------------------------------------------------------------------------
\* Walks through a file, from a place to a later one.

\* w holds the places that a walk takes from each place on: its own, if it takes
\* it, and those from where it goes next, if it goes on.  n is the last place.
Walk(w, n, m, own, go, next) ==
  w = [p \in 1 .. m |-> IF p > n THEN {} ELSE own[p] \cup (IF go[p] THEN w[next[p]] ELSE {})]

LEMMA WalkExists ==
  ASSUME NEW n \in Nat, NEW m \in Nat, NEW own, NEW go, NEW next,
         \A p \in 1 .. n : go[p] => next[p] \in p + 1 .. m
  PROVE  \E w : Walk(w, n, m, own, go, next)
<1> DEFINE At(w, p) == IF p > n THEN {} ELSE own[p] \cup (IF go[p] THEN w[next[p]] ELSE {})
           From(k) == m - k + 1 .. m
           Some(k) == \E w : w = [p \in From(k) |-> w[p]] /\ \A p \in From(k) : w[p] = At(w, p)
           missing == {k \in 0 .. m : ~Some(k)}
<1>1. ASSUME missing # {} PROVE FALSE
  <2>1. missing \subseteq Nat
    OBVIOUS
  <2>2. PICK k \in missing : \A j \in missing : k <= j
    BY <1>1, <2>1, LeastElement
  <2>3. k \in 0 .. m /\ k \in Nat /\ ~Some(k)
    BY <2>1
  <2>4. CASE k = 0
    <3> DEFINE w == [p \in From(k) |-> {}]
    <3>1. From(k) = {}
      BY <2>4
    <3>2. w = [p \in From(k) |-> w[p]]
      OBVIOUS
    <3>3. Some(k)
      BY <3>1, <3>2
    <3> QED BY <2>3, <3>3
  <2>5. CASE k # 0
    <3>1. k - 1 \in 0 .. m /\ k - 1 \notin missing
      <4>1. k - 1 \in 0 .. m /\ ~(k <= k - 1)
        BY <2>3, <2>5
      <4> HIDE DEF missing
      <4> QED BY <2>2, <4>1
    <3>2. Some(k - 1)
      BY <3>1
    <3>3. PICK h : h = [p \in From(k - 1) |-> h[p]] /\ \A p \in From(k - 1) : h[p] = At(h, p)
      BY <3>2
    <3> DEFINE q == m - k + 1
               w == [p \in From(k) |-> IF p = q THEN At(h, q) ELSE h[p]]
    <3>4. /\ q \in 1 .. m /\ q \in From(k) /\ \A p \in From(k) : p # q => p \in From(k - 1)
          /\ \A p \in From(k - 1) : p \in From(k) /\ p # q /\ p \in 1 .. m
          /\ q + 1 .. m = From(k - 1) /\ \A p \in From(k - 1) : \A r \in p + 1 .. m : r \in From(k - 1)
      BY <2>3, <2>5
    <3>5. \A p \in From(k) : (p <= n /\ go[p]) => next[p] \in From(k - 1)
      <4> TAKE p \in From(k)
      <4>1. p \in 1 .. m
        BY <3>4
      <4>2. CASE p = q
        BY <3>4, <4>1, <4>2
      <4>3. CASE p # q
        BY <3>4, <4>1, <4>3
      <4> QED BY <4>2, <4>3
    <3> HIDE DEF q, From
    <3>6. \A p \in From(k - 1) : w[p] = h[p]
      BY <3>4
    <3>7. \A p \in From(k) : At(w, p) = At(h, p)
      <4> TAKE p \in From(k)
      <4>0. p \in Int /\ n \in Int
        <5>1. p = q \/ p \in 1 .. m
          BY <3>4
        <5> QED BY <3>4, <5>1
      <4>1. CASE p > n
        BY <4>1
      <4>2. CASE ~(p > n) /\ go[p]
        <5>1. p <= n
          BY <4>0, <4>2
        <5>2. next[p] \in From(k - 1)
          BY <3>5, <4>2, <5>1
        <5>3. w[next[p]] = h[next[p]]
          BY <3>6, <5>2
        <5> HIDE DEF w
        <5> QED BY <4>2, <5>3
      <4>3. CASE ~(p > n) /\ ~go[p]
        BY <4>3
      <4> QED BY <4>1, <4>2, <4>3
    <3>8. \A p \in From(k) : w[p] = At(w, p)
      <4> TAKE p \in From(k)
      <4>1. CASE p = q
        BY <3>7, <4>1
      <4>2. CASE p # q
        <5>1. p \in From(k - 1)
          BY <3>4, <4>2
        <5>2. h[p] = At(h, p) /\ w[p] = h[p] /\ At(w, p) = At(h, p)
          BY <3>3, <3>6, <3>7, <5>1
        <5> HIDE DEF w, At
        <5> QED BY <5>2
      <4> QED BY <4>1, <4>2
    <3>9. w = [p \in From(k) |-> w[p]]
      OBVIOUS
    <3> HIDE DEF w, At
    <3> QED BY <2>3, <3>8, <3>9
  <2> QED BY <2>4, <2>5
<1>2. Some(m)
  <2>1. m \in 0 .. m
    OBVIOUS
  <2>2. m \notin missing
    <3> HIDE DEF missing
    <3> QED BY <1>1
  <2> HIDE DEF Some
  <2> QED BY <2>1, <2>2
<1>3. From(m) = 1 .. m
  OBVIOUS
<1>4. PICK w : w = [p \in 1 .. m |-> w[p]] /\ \A p \in 1 .. m : w[p] = At(w, p)
  <2> HIDE DEF At, From
  <2> QED BY <1>2, <1>3
<1>5. w = [p \in 1 .. m |-> At(w, p)]
  <2> HIDE DEF At
  <2>1. [p \in 1 .. m |-> w[p]] = [p \in 1 .. m |-> At(w, p)]
    BY <1>4
  <2> QED BY <1>4, <2>1
<1> QED BY <1>5 DEF Walk

\* What a walk takes it is allowed to, it takes no place twice nor behind the
\* file, and goes on from each place as from the first.
LEMMA WalkFacts ==
  ASSUME NEW n \in Nat, NEW m \in Nat, NEW own, NEW go, NEW next, NEW w,
         Walk(w, n, m, own, go, next),
         \A p \in 1 .. n : own[p] \subseteq {p} /\ (go[p] => next[p] \in p + 1 .. m)
  PROVE  \A x \in 1 .. m : \A p \in w[x] : p \in 1 .. n /\ p \in own[p] /\ w[p] \subseteq w[x]
<1>1. \A p \in 1 .. m : w[p] = IF p > n THEN {} ELSE own[p] \cup (IF go[p] THEN w[next[p]] ELSE {})
  <2> DEFINE At(p) == IF p > n THEN {} ELSE own[p] \cup (IF go[p] THEN w[next[p]] ELSE {})
  <2>1. w = [p \in 1 .. m |-> At(p)]
    BY DEF Walk
  <2> HIDE DEF At
  <2>2. \A p \in 1 .. m : w[p] = At(p)
    BY <2>1
  <2> QED BY <2>2 DEF At
<1> DEFINE Fine(x) == \A p \in w[x] : p \in 1 .. n /\ p \in own[p] /\ w[p] \subseteq w[x]
           bad == {k \in 0 .. m - 1 : ~Fine(m - k)}
<1>2. ASSUME bad # {} PROVE FALSE
  <2>1. bad \subseteq Nat
    OBVIOUS
  <2>2. PICK k \in bad : \A j \in bad : k <= j
    BY <1>2, <2>1, LeastElement
  <2>3. k \in 0 .. m - 1 /\ ~Fine(m - k)
    OBVIOUS
  <2> DEFINE x == m - k
  <2>4. x \in 1 .. m /\ \A y \in x + 1 .. m : m - y \in 0 .. m - 1 /\ ~(k <= m - y) /\ m - (m - y) = y
    BY <2>3
  <2>5. ~Fine(x)
    BY <2>3
  <2> HIDE DEF x
  <2>6. \A y \in x + 1 .. m : Fine(y)
    <3> TAKE y \in x + 1 .. m
    <3>1. m - y \notin bad
      <4> HIDE DEF bad
      <4> QED BY <2>2, <2>4
    <3>2. Fine(m - (m - y))
      <4> HIDE DEF Fine
      <4> QED BY <2>4, <3>1
    <3> HIDE DEF Fine
    <3> QED BY <2>4, <3>2
  <2>7. CASE x > n
    BY <1>1, <2>4, <2>5, <2>7
  <2>8. CASE ~(x > n)
    <3>1. x \in 1 .. n
      BY <2>4, <2>8
    <3>2. w[x] = own[x] \cup (IF go[x] THEN w[next[x]] ELSE {})
      BY <1>1, <2>4, <2>8
    <3>3. go[x] => next[x] \in x + 1 .. m /\ Fine(next[x])
      BY <2>6, <3>1
    <3>4. own[x] \subseteq {x}
      BY <3>1
    <3>5. ASSUME NEW p \in w[x] PROVE p \in 1 .. n /\ p \in own[p] /\ w[p] \subseteq w[x]
      <4>1. CASE p \in own[x]
        BY <3>1, <3>4, <4>1
      <4>2. CASE p \notin own[x]
        <5>1. go[x] /\ p \in w[next[x]] /\ w[next[x]] \subseteq w[x]
          BY <3>2, <3>5, <4>2
        <5> QED BY <3>3, <5>1
      <4> QED BY <4>1, <4>2
    <3> QED BY <2>5, <3>5
  <2> QED BY <2>7, <2>8
<1>3. ASSUME NEW x \in 1 .. m PROVE Fine(x)
  <2>1. m - x \in 0 .. m - 1 /\ m - (m - x) = x
    OBVIOUS
  <2>2. m - x \notin bad
    <3> HIDE DEF bad
    <3> QED BY <1>2
  <2>3. Fine(m - (m - x))
    <3> HIDE DEF Fine
    <3> QED BY <2>1, <2>2
  <2> HIDE DEF Fine
  <2> QED BY <2>1, <2>3
<1> QED BY <1>3

\* A set the walk does not leave has all the places it takes from there.
LEMMA WalkWithin ==
  ASSUME NEW n \in Nat, NEW m \in Nat, NEW own, NEW go, NEW next, NEW w,
         Walk(w, n, m, own, go, next),
         \A p \in 1 .. n : own[p] \subseteq {p} /\ (go[p] => next[p] \in p + 1 .. m),
         NEW G, \A p \in G : p \in 1 .. n /\ go[p] => next[p] \in G
  PROVE  \A x \in G : x \in 1 .. m => w[x] \subseteq G
<1>1. \A p \in 1 .. m : w[p] = IF p > n THEN {} ELSE own[p] \cup (IF go[p] THEN w[next[p]] ELSE {})
  <2> DEFINE At(p) == IF p > n THEN {} ELSE own[p] \cup (IF go[p] THEN w[next[p]] ELSE {})
  <2>1. w = [p \in 1 .. m |-> At(p)]
    BY DEF Walk
  <2> HIDE DEF At
  <2>2. \A p \in 1 .. m : w[p] = At(p)
    BY <2>1
  <2> QED BY <2>2 DEF At
<1> DEFINE Fine(x) == x \in G => w[x] \subseteq G
           bad == {k \in 0 .. m - 1 : ~Fine(m - k)}
<1>2. ASSUME bad # {} PROVE FALSE
  <2>1. bad \subseteq Nat
    OBVIOUS
  <2>2. PICK k \in bad : \A j \in bad : k <= j
    BY <1>2, <2>1, LeastElement
  <2>3. k \in 0 .. m - 1 /\ ~Fine(m - k)
    OBVIOUS
  <2> DEFINE x == m - k
  <2>4. x \in 1 .. m /\ \A y \in x + 1 .. m : m - y \in 0 .. m - 1 /\ ~(k <= m - y) /\ m - (m - y) = y
    BY <2>3
  <2>5. ~Fine(x)
    BY <2>3
  <2> HIDE DEF x
  <2>6. \A y \in x + 1 .. m : Fine(y)
    <3> TAKE y \in x + 1 .. m
    <3>1. m - y \notin bad
      <4> HIDE DEF bad
      <4> QED BY <2>2, <2>4
    <3>2. Fine(m - (m - y))
      <4> HIDE DEF Fine
      <4> QED BY <2>4, <3>1
    <3> HIDE DEF Fine
    <3> QED BY <2>4, <3>2
  <2>7. CASE x > n
    BY <1>1, <2>4, <2>5, <2>7
  <2>8. CASE ~(x > n)
    <3>1. x \in 1 .. n /\ x \in G
      BY <2>4, <2>5, <2>8
    <3>2. w[x] = own[x] \cup (IF go[x] THEN w[next[x]] ELSE {})
      BY <1>1, <2>4, <2>8
    <3>3. go[x] => w[next[x]] \subseteq G
      BY <2>6, <3>1
    <3> QED BY <2>5, <3>1, <3>2, <3>3
  <2> QED BY <2>7, <2>8
<1>3. ASSUME NEW x \in 1 .. m PROVE Fine(x)
  <2>1. m - x \in 0 .. m - 1 /\ m - (m - x) = x
    OBVIOUS
  <2>2. m - x \notin bad
    <3> HIDE DEF bad
    <3> QED BY <1>2
  <2>3. Fine(m - (m - x))
    <3> HIDE DEF Fine
    <3> QED BY <2>1, <2>2
  <2> HIDE DEF Fine
  <2> QED BY <2>1, <2>3
<1> QED BY <1>3

\* A walk that takes places in their order and never stops: it leaves out only
\* places it could take that it jumps over from one it takes.
WalksOn(n, m, own, go, next) ==
  \A p \in 1 .. n : /\ own[p] = {} \/ own[p] = {p}
                    /\ go[p] /\ next[p] \in p + 1 .. m /\ (own[p] = {} => next[p] = p + 1)

LEMMA WalkOrder ==
  ASSUME NEW n \in Nat, NEW m \in Nat, NEW own, NEW go, NEW next, NEW w,
         Walk(w, n, m, own, go, next), WalksOn(n, m, own, go, next)
  PROVE  \A x \in 1 .. m :
           /\ \A p \in w[x] : p \in x .. n /\ own[p] = {p}
           /\ \A q \in w[x], p \in w[x] : q < p => next[q] <= p
           /\ \A p \in x .. n : own[p] = {p} /\ p \notin w[x] => \E q \in w[x] : q < p /\ p < next[q]
<1>0. \A p \in 1 .. n : /\ own[p] = {} \/ own[p] = {p}
                        /\ go[p] /\ next[p] \in p + 1 .. m /\ (own[p] = {} => next[p] = p + 1)
  BY DEF WalksOn
<1>1. \A p \in 1 .. m : w[p] = IF p > n THEN {} ELSE own[p] \cup (IF go[p] THEN w[next[p]] ELSE {})
  <2> DEFINE At(p) == IF p > n THEN {} ELSE own[p] \cup (IF go[p] THEN w[next[p]] ELSE {})
  <2>1. w = [p \in 1 .. m |-> At(p)]
    BY DEF Walk
  <2> HIDE DEF At
  <2>2. \A p \in 1 .. m : w[p] = At(p)
    BY <2>1
  <2> QED BY <2>2 DEF At
<1> DEFINE Takes(x) == \A p \in w[x] : p \in x .. n /\ own[p] = {p}
           Ordered(x) == \A q \in w[x], p \in w[x] : q < p => next[q] <= p
           Skipped(x) == \A p \in x .. n : own[p] = {p} /\ p \notin w[x] => \E q \in w[x] : q < p /\ p < next[q]
           Fine(x) == Takes(x) /\ Ordered(x) /\ Skipped(x)
           bad == {k \in 0 .. m - 1 : ~Fine(m - k)}
<1>2. ASSUME bad # {} PROVE FALSE
  <2>1. bad \subseteq Nat
    OBVIOUS
  <2>2. PICK k \in bad : \A j \in bad : k <= j
    BY <1>2, <2>1, LeastElement
  <2>3. k \in 0 .. m - 1 /\ ~Fine(m - k)
    OBVIOUS
  <2> DEFINE x == m - k
  <2>4. x \in 1 .. m /\ \A y \in x + 1 .. m : m - y \in 0 .. m - 1 /\ ~(k <= m - y) /\ m - (m - y) = y
    BY <2>3
  <2>5. ~Fine(x)
    BY <2>3
  <2> HIDE DEF x
  <2>6. \A y \in x + 1 .. m : Fine(y)
    <3> TAKE y \in x + 1 .. m
    <3>1. m - y \notin bad
      <4> HIDE DEF bad
      <4> QED BY <2>2, <2>4
    <3>2. Fine(m - (m - y))
      <4> HIDE DEF Fine
      <4> QED BY <2>4, <3>1
    <3> HIDE DEF Fine
    <3> QED BY <2>4, <3>2
  <2>7. CASE x > n
    <3>1. w[x] = {}
      BY <1>1, <2>4, <2>7
    <3>2. x .. n = {}
      BY <2>4, <2>7
    <3> QED BY <2>5, <3>1, <3>2
  <2>8. CASE ~(x > n)
    <3> DEFINE y == next[x]
    <3>1. x \in 1 .. n
      BY <2>4, <2>8
    <3>2. /\ y \in x + 1 .. m /\ (own[x] = {} => y = x + 1) /\ (own[x] = {} \/ own[x] = {x})
          /\ w[x] = own[x] \cup w[y]
      BY <1>0, <1>1, <2>4, <2>8, <3>1
    <3>3. Takes(y) /\ Ordered(y) /\ Skipped(y)
      BY <2>6, <3>2
    <3> HIDE DEF y
    <3>4. Takes(x)
      <4> SUFFICES ASSUME NEW p \in w[x] PROVE p \in x .. n /\ own[p] = {p}
        OBVIOUS
      <4>1. CASE p \in own[x]
        BY <3>1, <3>2, <4>1
      <4>2. CASE p \notin own[x]
        <5>1. p \in y .. n /\ own[p] = {p}
          BY <3>2, <3>3, <4>2
        <5> QED BY <3>1, <3>2, <5>1
      <4> QED BY <4>1, <4>2
    <3>5. Ordered(x)
      <4> SUFFICES ASSUME NEW q \in w[x], NEW p \in w[x], q < p PROVE next[q] <= p
        OBVIOUS
      <4>1. p \in x .. n /\ q \in x .. n
        BY <3>4
      <4>2. p # x /\ p \in w[y]
        BY <3>1, <3>2, <4>1
      <4>3. p \in y .. n
        BY <3>3, <4>2
      <4>4. CASE q \in w[y]
        BY <3>3, <4>2, <4>4
      <4>5. CASE q \notin w[y]
        <5>1. q = x
          BY <3>2, <4>5
        <5> QED BY <3>2, <4>3, <5>1 DEF y
      <4> QED BY <4>4, <4>5
    <3>6. Skipped(x)
      <4> SUFFICES ASSUME NEW p \in x .. n, own[p] = {p}, p \notin w[x]
                   PROVE  \E q \in w[x] : q < p /\ p < next[q]
        OBVIOUS
      <4>1. p # x
        BY <3>2
      <4>2. CASE p < y
        <5>1. own[x] = {x}
          BY <3>1, <3>2, <4>1, <4>2
        <5>2. x \in w[x] /\ x < p
          BY <3>1, <3>2, <4>1, <5>1
        <5> QED BY <4>2, <5>2 DEF y
      <4>3. CASE ~(p < y)
        <5>1. p \in y .. n /\ p \notin w[y]
          BY <3>1, <3>2, <4>3
        <5>2. PICK q \in w[y] : q < p /\ p < next[q]
          BY <3>3, <5>1
        <5>3. q \in w[x]
          BY <3>2
        <5> QED BY <5>2, <5>3
      <4> QED BY <4>2, <4>3
    <3> QED BY <2>5, <3>4, <3>5, <3>6
  <2> QED BY <2>7, <2>8
<1>3. ASSUME NEW x \in 1 .. m PROVE Fine(x)
  <2>1. m - x \in 0 .. m - 1 /\ m - (m - x) = x
    OBVIOUS
  <2>2. m - x \notin bad
    <3> HIDE DEF bad
    <3> QED BY <1>2
  <2>3. Fine(m - (m - x))
    <3> HIDE DEF Fine
    <3> QED BY <2>1, <2>2
  <2> HIDE DEF Fine
  <2> QED BY <2>1, <2>3
<1> QED BY <1>3

\* A walk that takes every place it comes to: it takes them in their order, and the
\* next of them is where it goes on from the one before.
LEMMA WalkChain ==
  ASSUME NEW n \in Nat, NEW m \in Nat, NEW own, NEW go, NEW next, NEW w,
         Walk(w, n, m, own, go, next),
         \A p \in 1 .. n : own[p] = {p} /\ (go[p] => next[p] \in p + 1 .. m)
  PROVE  \A x \in 1 .. m :
           /\ x <= n => x \in w[x]
           /\ \A p \in w[x] : p \in x .. n /\ (go[p] /\ next[p] <= n => next[p] \in w[x])
           /\ \A q \in w[x], p \in w[x] : q < p => go[q] /\ next[q] <= p
           /\ \A q \in w[x] : q # x => \E p \in w[x] : p < q /\ go[p] /\ next[p] = q
<1>1. \A p \in 1 .. m : w[p] = IF p > n THEN {} ELSE own[p] \cup (IF go[p] THEN w[next[p]] ELSE {})
  <2> DEFINE At(p) == IF p > n THEN {} ELSE own[p] \cup (IF go[p] THEN w[next[p]] ELSE {})
  <2>1. w = [p \in 1 .. m |-> At(p)]
    BY DEF Walk
  <2> HIDE DEF At
  <2>2. \A p \in 1 .. m : w[p] = At(p)
    BY <2>1
  <2> QED BY <2>2 DEF At
<1> DEFINE First(x) == x <= n => x \in w[x]
           Goes(x) == \A p \in w[x] : p \in x .. n /\ (go[p] /\ next[p] <= n => next[p] \in w[x])
           Ordered(x) == \A q \in w[x], p \in w[x] : q < p => go[q] /\ next[q] <= p
           Comes(x) == \A q \in w[x] : q # x => \E p \in w[x] : p < q /\ go[p] /\ next[p] = q
           Fine(x) == First(x) /\ Goes(x) /\ Ordered(x) /\ Comes(x)
           bad == {k \in 0 .. m - 1 : ~Fine(m - k)}
<1>2. ASSUME bad # {} PROVE FALSE
  <2>1. bad \subseteq Nat
    OBVIOUS
  <2>2. PICK k \in bad : \A j \in bad : k <= j
    BY <1>2, <2>1, LeastElement
  <2>3. k \in 0 .. m - 1 /\ ~Fine(m - k)
    OBVIOUS
  <2> DEFINE x == m - k
  <2>4. x \in 1 .. m /\ \A y \in x + 1 .. m : m - y \in 0 .. m - 1 /\ ~(k <= m - y) /\ m - (m - y) = y
    BY <2>3
  <2>5. ~Fine(x)
    BY <2>3
  <2> HIDE DEF x
  <2>6. \A y \in x + 1 .. m : Fine(y)
    <3> TAKE y \in x + 1 .. m
    <3>1. m - y \notin bad
      <4> HIDE DEF bad
      <4> QED BY <2>2, <2>4
    <3>2. Fine(m - (m - y))
      <4> HIDE DEF Fine
      <4> QED BY <2>4, <3>1
    <3> HIDE DEF Fine
    <3> QED BY <2>4, <3>2
  <2>7. CASE x > n
    <3>1. w[x] = {}
      BY <1>1, <2>4, <2>7
    <3>2. ~(x <= n)
      BY <2>4, <2>7
    <3> QED BY <2>5, <3>1, <3>2
  <2>8. CASE ~(x > n)
    <3> DEFINE y == next[x]
    <3>1. x \in 1 .. n
      BY <2>4, <2>8
    <3>2. w[x] = {x} \cup (IF go[x] THEN w[y] ELSE {})
      BY <1>1, <2>4, <2>8, <3>1
    <3>3. go[x] => y \in x + 1 .. m /\ First(y) /\ Goes(y) /\ Ordered(y) /\ Comes(y)
      BY <2>6, <3>1
    <3> HIDE DEF y
    <3>4. x \in w[x]
      BY <3>2
    <3>5. \A p \in w[x] : p # x => go[x] /\ p \in w[y] /\ p \in y .. n /\ x < p
      <4> SUFFICES ASSUME NEW p \in w[x], p # x PROVE go[x] /\ p \in w[y] /\ p \in y .. n /\ x < p
        OBVIOUS
      <4>1. go[x] /\ p \in w[y]
        BY <3>2
      <4>2. p \in y .. n /\ y \in x + 1 .. m
        BY <3>3, <4>1
      <4> QED BY <2>4, <4>1, <4>2
    <3>6. Goes(x)
      <4> SUFFICES ASSUME NEW p \in w[x] PROVE p \in x .. n /\ (go[p] /\ next[p] <= n => next[p] \in w[x])
        OBVIOUS
      <4>1. CASE p = x
        <5>1. go[x] /\ y <= n => y \in w[y]
          BY <3>3
        <5>2. go[x] /\ y <= n => y \in w[x]
          BY <3>2, <5>1
        <5> QED BY <3>1, <4>1, <5>2 DEF y
      <4>2. CASE p # x
        <5>1. go[x] /\ p \in w[y] /\ p \in y .. n /\ x < p
          BY <3>5, <4>2
        <5>2. (go[p] /\ next[p] <= n => next[p] \in w[y]) /\ w[y] \subseteq w[x]
          BY <3>2, <3>3, <5>1
        <5>3. p \in x .. n
          BY <2>4, <3>3, <5>1
        <5> QED BY <5>2, <5>3
      <4> QED BY <4>1, <4>2
    <3>7. Ordered(x)
      <4> SUFFICES ASSUME NEW q \in w[x], NEW p \in w[x], q < p PROVE go[q] /\ next[q] <= p
        OBVIOUS
      <4>0. q \in x .. n /\ p \in x .. n
        BY <3>6
      <4>1. p # x
        BY <2>4, <4>0
      <4>2. go[x] /\ p \in w[y] /\ p \in y .. n
        BY <3>5, <4>1
      <4>3. CASE q = x
        <5>1. y <= p
          BY <3>3, <4>2
        <5> QED BY <4>2, <4>3, <5>1 DEF y
      <4>4. CASE q # x
        BY <3>3, <3>5, <4>2, <4>4
      <4> QED BY <4>3, <4>4
    <3>8. Comes(x)
      <4> SUFFICES ASSUME NEW q \in w[x], q # x PROVE \E p \in w[x] : p < q /\ go[p] /\ next[p] = q
        OBVIOUS
      <4>1. go[x] /\ q \in w[y] /\ x < q /\ w[y] \subseteq w[x]
        BY <3>2, <3>5
      <4>2. CASE q = y
        BY <3>4, <4>1, <4>2 DEF y
      <4>3. CASE q # y
        <5>1. PICK p \in w[y] : p < q /\ go[p] /\ next[p] = q
          BY <3>3, <4>1, <4>3
        <5> QED BY <4>1, <5>1
      <4> QED BY <4>2, <4>3
    <3> QED BY <2>5, <3>4, <3>6, <3>7, <3>8
  <2> QED BY <2>7, <2>8
<1>3. ASSUME NEW x \in 1 .. m PROVE Fine(x)
  <2>1. m - x \in 0 .. m - 1 /\ m - (m - x) = x
    OBVIOUS
  <2>2. m - x \notin bad
    <3> HIDE DEF bad
    <3> QED BY <1>2
  <2>3. Fine(m - (m - x))
    <3> HIDE DEF Fine
    <3> QED BY <2>1, <2>2
  <2> HIDE DEF Fine
  <2> QED BY <2>1, <2>3
<1> QED BY <1>3

\* A walk that jumps over q from no place before it: what it takes behind q it
\* comes to from q, and if it stops at no place before q it comes to q.
LEMMA WalkMeets ==
  ASSUME NEW n \in Nat, NEW m \in Nat, NEW own, NEW go, NEW next, NEW w,
         Walk(w, n, m, own, go, next),
         \A p \in 1 .. n : own[p] \subseteq {p} /\ (go[p] => next[p] \in p + 1 .. m),
         NEW q \in 1 .. n, n <= m, \A p \in 1 .. q - 1 : go[p] => next[p] <= q
  PROVE  /\ \A p \in w[1] : p > q => go[q] /\ p >= next[q]
         /\ (\A p \in 1 .. q - 1 : go[p]) => w[q] \subseteq w[1]
<1>1. \A p \in 1 .. m : w[p] = IF p > n THEN {} ELSE own[p] \cup (IF go[p] THEN w[next[p]] ELSE {})
  <2> DEFINE At(p) == IF p > n THEN {} ELSE own[p] \cup (IF go[p] THEN w[next[p]] ELSE {})
  <2>1. w = [p \in 1 .. m |-> At(p)]
    BY DEF Walk
  <2> HIDE DEF At
  <2>2. \A p \in 1 .. m : w[p] = At(p)
    BY <2>1
  <2> QED BY <2>2 DEF At
<1> DEFINE G == {p \in 1 .. m : p <= q \/ (go[q] /\ p >= next[q])}
<1>2. 1 \in 1 .. m /\ 1 \in G
  OBVIOUS
<1>3. \A p \in G : p \in 1 .. n /\ go[p] => next[p] \in G
  <2> SUFFICES ASSUME NEW p \in G, p \in 1 .. n, go[p] PROVE next[p] \in G
    OBVIOUS
  <2>1. next[p] \in p + 1 .. m
    OBVIOUS
  <2>2. CASE p < q
    <3>1. p \in 1 .. q - 1
      BY <2>2
    <3>2. next[p] <= q
      BY <3>1
    <3> QED BY <2>1, <3>2
  <2>3. CASE p = q
    BY <2>1, <2>3
  <2>4. CASE p > q
    <3>1. go[q] /\ p >= next[q] /\ next[q] \in q + 1 .. m
      BY <2>4
    <3>2. next[p] >= next[q] /\ next[p] \in 1 .. m
      BY <2>1, <3>1
    <3> QED BY <3>1, <3>2
  <2> QED BY <2>2, <2>3, <2>4
<1>4. w[1] \subseteq G
  <2> HIDE DEF G
  <2> QED BY <1>2, <1>3, WalkWithin
<1>5. ASSUME NEW p \in w[1], p > q PROVE go[q] /\ p >= next[q]
  <2>1. p \in G
    BY <1>4
  <2> QED BY <1>5, <2>1
<1>6. ASSUME \A p \in 1 .. q - 1 : go[p] PROVE w[q] \subseteq w[1]
  <2> DEFINE near == {k \in 0 .. q - 1 : w[q - k] \subseteq w[1]}
  <2>1. q - 1 \in near /\ near \subseteq Nat
    <3>1. q - 1 \in 0 .. q - 1 /\ q - (q - 1) = 1
      OBVIOUS
    <3> QED BY <3>1
  <2>2. PICK k \in near : \A j \in near : k <= j
    <3>1. near # {}
      BY <2>1
    <3> HIDE DEF near
    <3> QED BY <2>1, <3>1, LeastElement
  <2> DEFINE p == q - k
  <2>3. k \in 0 .. q - 1 /\ w[p] \subseteq w[1] /\ p \in 1 .. q
    OBVIOUS
  <2>4. ASSUME p # q PROVE FALSE
    <3>1. p \in 1 .. q - 1 /\ p \in 1 .. n /\ p \in 1 .. m /\ ~(p > n)
      BY <2>3, <2>4
    <3> DEFINE y == next[p]
    <3>2. go[p] /\ y <= q /\ y \in p + 1 .. m /\ w[p] = own[p] \cup w[y]
      <4> HIDE DEF p
      <4> QED BY <1>1, <1>6, <3>1
    <3>3. w[y] \subseteq w[1]
      BY <2>3, <3>2
    <3>4. q - y \in 0 .. q - 1 /\ q - (q - y) = y /\ ~(k <= q - y)
      <4> HIDE DEF y
      <4> QED BY <2>3, <3>2
    <3>5. q - y \in near
      BY <3>3, <3>4
    <3> HIDE DEF near, y
    <3> QED BY <2>2, <3>4, <3>5
  <2> QED BY <2>3, <2>4
<1> QED BY <1>5, <1>6

-----------------------------------------------------------------------------
\* The health score.

Penalties == [rule : RuleIds, points : Nat, hits : SUBSET Subscores]

LEMMA TakenType ==
  ASSUME NEW sub, NEW p \in Penalties
  PROVE  Taken(sub, p) \in Nat
BY DEF Taken, Penalties

\* t holds the points taken off by the first m penalties.
Totals(t, sub, penalties, m) ==
  t[0] = 0 /\ \A i \in 1 .. m : t[i] = t[i - 1] + Taken(sub, penalties[i])

LEMMA TotalsExist ==
  ASSUME NEW sub, NEW penalties \in Seq(Penalties)
  PROVE  \E t \in [0 .. Len(penalties) -> Nat] : Totals(t, sub, penalties, Len(penalties))
<1> DEFINE n == Len(penalties)
           missing == {m \in 0 .. n : ~\E t \in [0 .. m -> Nat] : Totals(t, sub, penalties, m)}
<1>1. n \in Nat /\ \A i \in 1 .. n : Taken(sub, penalties[i]) \in Nat
  BY TakenType
<1> HIDE DEF n
<1>2. ASSUME missing # {} PROVE FALSE
  <2>1. missing \subseteq Nat
    BY <1>1
  <2>2. PICK m \in missing : \A k \in missing : m <= k
    BY <1>2, <2>1, LeastElement
  <2>3. m \in 0 .. n /\ m \in Nat
    BY <1>1
  <2>4. CASE m = 0
    <3> DEFINE t == [i \in 0 .. m |-> 0]
    <3>1. t \in [0 .. m -> Nat] /\ Totals(t, sub, penalties, m)
      BY <2>4 DEF Totals
    <3> QED BY <2>2, <3>1
  <2>5. CASE m # 0
    <3>1. m - 1 \in 0 .. n /\ m - 1 \notin missing
      <4>1. m - 1 \in 0 .. n /\ ~(m <= m - 1)
        BY <1>1, <2>3, <2>5
      <4> HIDE DEF missing
      <4> QED BY <2>2, <4>1
    <3>2. PICK h \in [0 .. m - 1 -> Nat] : Totals(h, sub, penalties, m - 1)
      BY <3>1
    <3> DEFINE e == Taken(sub, penalties[m])
               t == [i \in 0 .. m |-> IF i = m THEN h[m - 1] + e ELSE h[i]]
    <3>3. h[m - 1] \in Nat /\ e \in Nat
      BY <1>1, <2>3, <2>5
    <3>4. \A i \in 0 .. m : i # m => i \in 0 .. m - 1
      BY <2>3
    <3> HIDE DEF e
    <3>5. t \in [0 .. m -> Nat]
      BY <2>3, <3>3, <3>4
    <3>6. Totals(t, sub, penalties, m)
      <4>1. t[0] = 0
        BY <2>3, <2>5, <3>2 DEF Totals
      <4>2. ASSUME NEW i \in 1 .. m PROVE t[i] = t[i - 1] + Taken(sub, penalties[i])
        <5>1. CASE i = m
          <6>1. m \in 0 .. m /\ m - 1 \in 0 .. m /\ m - 1 # m
            BY <2>3, <2>5
          <6>2. t[m] = h[m - 1] + e /\ t[m - 1] = h[m - 1]
            BY <6>1
          <6> QED BY <5>1, <6>2 DEF e
        <5>2. CASE i # m
          <6>1. i \in 1 .. m - 1 /\ i \in 0 .. m /\ i - 1 \in 0 .. m /\ i - 1 # m
            BY <2>3, <5>2
          <6>2. h[i] = h[i - 1] + Taken(sub, penalties[i])
            BY <3>2, <6>1 DEF Totals
          <6> QED BY <5>2, <6>1, <6>2
        <5> QED BY <5>1, <5>2
      <4> QED BY <4>1, <4>2 DEF Totals
    <3> QED BY <2>2, <3>5, <3>6
  <2> QED BY <2>4, <2>5
<1>3. n \notin missing /\ n \in 0 .. n
  <2>1. n \in 0 .. n
    BY <1>1
  <2> HIDE DEF missing
  <2> QED BY <1>2, <2>1
<1> QED BY <1>3 DEF n

LEMMA DeductedTotals ==
  ASSUME NEW sub, NEW penalties \in Seq(Penalties)
  PROVE  \E t \in [0 .. Len(penalties) -> Nat] :
           Totals(t, sub, penalties, Len(penalties)) /\ Deducted(sub, penalties) = t[Len(penalties)]
<1> DEFINE n == Len(penalties)
           Extends(f) == [i \in 0 .. n |-> IF i = 0 THEN 0 ELSE f[i - 1] + Taken(sub, penalties[i])]
           total == CHOOSE f : f = Extends(f)
<1>1. n \in Nat /\ n \in 0 .. n
  OBVIOUS
<1>2. Deducted(sub, penalties) = total[n]
  BY DEF Deducted
<1>3. PICK h \in [0 .. n -> Nat] : Totals(h, sub, penalties, n)
  BY TotalsExist
<1> HIDE DEF n
<1>4. h = Extends(h)
  <2>1. ASSUME NEW i \in 0 .. n PROVE h[i] = Extends(h)[i]
    <3>1. CASE i = 0
      BY <1>3, <3>1 DEF Totals
    <3>2. CASE i # 0
      <4>1. i \in 1 .. n
        BY <1>1, <3>2
      <4> QED BY <1>3, <3>2, <4>1 DEF Totals
    <3> QED BY <3>1, <3>2
  <2> QED BY <2>1
<1>5. total = Extends(total)
  <2> HIDE DEF Extends
  <2> QED BY <1>4
<1> HIDE DEF total
<1>6. Totals(total, sub, penalties, n)
  <2>1. \A i \in 0 .. n : total[i] = IF i = 0 THEN 0 ELSE total[i - 1] + Taken(sub, penalties[i])
    BY <1>5
  <2>2. 0 \in 0 .. n /\ \A i \in 1 .. n : i \in 0 .. n /\ i # 0
    BY <1>1
  <2> QED BY <2>1, <2>2 DEF Totals
<1>7. \A i \in 0 .. n : total[i] = h[i]
  <2> DEFINE differ == {i \in 0 .. n : total[i] # h[i]}
  <2>1. ASSUME differ # {} PROVE FALSE
    <3>1. differ \subseteq Nat
      BY <1>1
    <3>2. PICK m \in differ : \A k \in differ : m <= k
      BY <2>1, <3>1, LeastElement
    <3>3. m # 0
      BY <1>3, <1>6, <3>2 DEF Totals
    <3>4. m \in 1 .. n /\ m - 1 \in 0 .. n /\ ~(m <= m - 1)
      BY <1>1, <3>1, <3>3
    <3>5. total[m - 1] = h[m - 1]
      BY <3>2, <3>4
    <3> QED BY <1>3, <1>6, <3>4, <3>5 DEF Totals
  <2> QED BY <2>1
<1>8. total[n] = h[n]
  BY <1>1, <1>7
<1> QED BY <1>2, <1>3, <1>8 DEF n

\* A list of penalties takes off at least what each of them does, and nothing if
\* none of them takes off anything.
LEMMA DeductedFacts ==
  ASSUME NEW sub, NEW penalties \in Seq(Penalties)
  PROVE  /\ Deducted(sub, penalties) \in Nat
         /\ \A i \in 1 .. Len(penalties) : Taken(sub, penalties[i]) <= Deducted(sub, penalties)
         /\ (\A i \in 1 .. Len(penalties) : Taken(sub, penalties[i]) = 0)
              => Deducted(sub, penalties) = 0
         /\ Len(penalties) = 1 => Deducted(sub, penalties) = Taken(sub, penalties[1])
<1> DEFINE n == Len(penalties)
           D(i) == Taken(sub, penalties[i])
<1>1. PICK t \in [0 .. n -> Nat] :
        Totals(t, sub, penalties, n) /\ Deducted(sub, penalties) = t[n]
  BY DeductedTotals
<1>2. n \in Nat /\ n \in 0 .. n /\ \A i \in 1 .. n : D(i) \in Nat
  BY TakenType
<1> HIDE DEF n
<1>3. t[0] = 0 /\ \A i \in 1 .. n : t[i] = t[i - 1] + D(i)
  BY <1>1 DEF Totals
<1> HIDE DEF D
<1>4. \A i \in 0 .. n : t[i] \in Nat
  OBVIOUS
<1>5. ASSUME NEW k \in 1 .. n PROVE D(k) <= t[n]
  <2> DEFINE less == {i \in 0 .. n : k <= i /\ ~(D(k) <= t[i])}
  <2>1. ASSUME less # {} PROVE FALSE
    <3>1. less \subseteq Nat
      BY <1>2
    <3>2. PICK m \in less : \A j \in less : m <= j
      BY <2>1, <3>1, LeastElement
    <3>3. m \in 1 .. n /\ m - 1 \in 0 .. n /\ ~(m <= m - 1) /\ k <= m /\ ~(D(k) <= t[m])
      BY <1>2
    <3>4. t[m] = t[m - 1] + D(m) /\ t[m - 1] \in Nat /\ t[m] \in Nat /\ D(m) \in Nat /\ D(k) \in Nat
      BY <1>2, <1>3, <1>4, <3>3
    <3>5. m # k
      BY <3>3, <3>4
    <3>6. k <= m - 1
      BY <1>2, <3>3, <3>5
    <3>7. D(k) <= t[m - 1]
      BY <3>2, <3>3, <3>6
    <3> QED BY <3>3, <3>4, <3>7
  <2>2. n \notin less
    <3> HIDE DEF less
    <3> QED BY <2>1
  <2> QED BY <1>2, <2>2
<1>6. ASSUME \A i \in 1 .. n : D(i) = 0 PROVE t[n] = 0
  <2> DEFINE more == {i \in 0 .. n : t[i] # 0}
  <2>1. ASSUME more # {} PROVE FALSE
    <3>1. more \subseteq Nat
      BY <1>2
    <3>2. PICK m \in more : \A j \in more : m <= j
      BY <2>1, <3>1, LeastElement
    <3>3. m # 0
      BY <1>3, <3>2
    <3>4. m \in 1 .. n /\ m - 1 \in 0 .. n /\ ~(m <= m - 1) /\ m \in 0 .. n
      BY <1>2, <3>1, <3>3
    <3>5. t[m - 1] = 0
      BY <3>2, <3>4
    <3> QED BY <1>3, <1>6, <3>2, <3>4, <3>5
  <2>2. n \notin more
    <3> HIDE DEF more
    <3> QED BY <2>1
  <2> QED BY <1>2, <2>2
<1>7. ASSUME n = 1 PROVE t[n] = D(1)
  <2>1. 1 \in 1 .. n /\ 1 - 1 = 0 /\ D(1) \in Nat
    BY <1>2, <1>7
  <2> QED BY <1>3, <1>7, <2>1
<1> QED BY <1>1, <1>4, <1>5, <1>6, <1>7, <1>2 DEF n, D

\* Every rule of the registry has a severity and a category that the default
\* penalties know, and only a padding mismatch is benign.
LEMMA RowsFacts ==
  ASSUME NEW category, NEW severity, NEW ids, NEW r \in Rows(category, severity, ids)
  PROVE  r.category = category /\ r.severity = severity /\ r.id \in ids
BY DEF Rows

LEMMA RowsHas ==
  ASSUME NEW category, NEW severity, NEW ids, NEW id \in ids
  PROVE  \E r \in Rows(category, severity, ids) : r.id = id
<1>1. [id |-> id, category |-> category, severity |-> severity] \in Rows(category, severity, ids)
  BY DEF Rows
<1> QED BY <1>1

LEMMA RulesFacts ==
  ASSUME NEW r \in Rules
  PROVE  /\ r.severity \in {"Benign", "Minor", "Major", "Catastrophic"}
         /\ r.category \in {"StructuralCorruption", "BlockReorder", "PaddingMismatch", "BitFlip",
                            "ChecksumMismatch", "MissingData", "Truncation", "SecurityThreat"}
         /\ r.severity = "Benign" => r.id = "TAR_TERM_002"
<1>1. \/ r \in ZipRules \/ r \in TarRules \/ r \in IsoRules \/ r \in GzipRules \/ r \in PdfRules
      \/ r \in SqliteRules \/ r \in StreamRules \/ r \in CrossFormatRules \/ r \in ThreatRules
  BY DEF Rules
<1>2. CASE r \in ZipRules
  BY <1>2, RowsFacts DEF ZipRules
<1>3. CASE r \in TarRules
  BY <1>3, RowsFacts DEF TarRules
<1>4. CASE r \in IsoRules
  BY <1>4, RowsFacts DEF IsoRules
<1>5. CASE r \in GzipRules
  BY <1>5, RowsFacts DEF GzipRules
<1>6. CASE r \in PdfRules
  BY <1>6, RowsFacts DEF PdfRules
<1>7. CASE r \in SqliteRules
  BY <1>7, RowsFacts DEF SqliteRules
<1>8. CASE r \in StreamRules
  BY <1>8, RowsFacts DEF StreamRules
<1>9. CASE r \in CrossFormatRules
  BY <1>9, RowsFacts DEF CrossFormatRules
<1>10. CASE r \in ThreatRules
  BY <1>10, RowsFacts DEF ThreatRules
<1> QED BY <1>1, <1>2, <1>3, <1>4, <1>5, <1>6, <1>7, <1>8, <1>9, <1>10

\* A listed penalty takes at least 10 points off the structure or the data.
LEMMA ListedPenalty ==
  ASSUME NEW p \in RulePenalties
  PROVE  /\ p = [rule |-> p.rule, points |-> p.points, hits |-> p.hits]
         /\ p.points \in 10 .. 85 /\ p.hits \in SUBSET Subscores
         /\ "structural" \in p.hits \/ "data" \in p.hits
<1>1. \E n \in 10 .. 85 : \E rules :
        \/ p \in HitAll(n, rules) \/ p \in HitSD(n, rules)
        \/ p \in HitS(n, rules) \/ p \in HitD(n, rules)
  BY DEF RulePenalties
<1> QED BY <1>1 DEF HitAll, HitSD, HitS, HitD, Subscores

LEMMA PenaltyFacts ==
  ASSUME NEW id \in RuleIds
  PROVE  /\ PenaltyFor[id] \in Penalties
         /\ (\E p \in RulePenalties : p.rule = id)
              => PenaltyFor[id] \in RulePenalties /\ PenaltyFor[id].rule = id
         /\ ~(\E p \in RulePenalties : p.rule = id)
              => PenaltyFor[id] = DefaultPenalty(RuleOf[id])
<1>1. PenaltyFor[id] = IF \E p \in RulePenalties : p.rule = id
                       THEN CHOOSE p \in RulePenalties : p.rule = id
                       ELSE DefaultPenalty(RuleOf[id])
  BY DEF PenaltyFor
<1>2. CASE \E p \in RulePenalties : p.rule = id
  <2>1. PenaltyFor[id] \in RulePenalties /\ PenaltyFor[id].rule = id
    BY <1>1, <1>2
  <2>2. 10 .. 85 \subseteq Nat
    OBVIOUS
  <2>3. PenaltyFor[id] \in Penalties
    BY <2>1, <2>2, ListedPenalty DEF Penalties
  <2> QED BY <1>2, <2>1, <2>3
<1>3. CASE ~\E p \in RulePenalties : p.rule = id
  <2>1. PenaltyFor[id] = DefaultPenalty(RuleOf[id])
    BY <1>1, <1>3
  <2>2. RuleOf[id] \in Rules /\ RuleOf[id].id = id
    BY DEF RuleOf, RuleIds
  <2>3. DefaultPoints(RuleOf[id].severity) \in Nat
    BY <2>2, RulesFacts DEF DefaultPoints
  <2>4. Route(RuleOf[id].category) \in SUBSET Subscores
    BY <2>2, RulesFacts DEF Route, Subscores
  <2>5. DefaultPenalty(RuleOf[id]) \in Penalties
    BY <2>2, <2>3, <2>4 DEF DefaultPenalty, Penalties
  <2> QED BY <1>3, <2>1, <2>5
<1> QED BY <1>2, <1>3

\* Whatever is found, but for benign padding, costs structure or data 10 points.
LEMMA EveryRuleCosts ==
  ASSUME NEW id \in RuleIds, id # "TAR_TERM_002"
  PROVE  /\ PenaltyFor[id].points >= 10
         /\ "structural" \in PenaltyFor[id].hits \/ "data" \in PenaltyFor[id].hits
<1>1. CASE \E p \in RulePenalties : p.rule = id
  <2>1. PenaltyFor[id].points \in 10 .. 85
    BY <1>1, PenaltyFacts, ListedPenalty
  <2> QED BY <1>1, <2>1, PenaltyFacts, ListedPenalty
<1>2. CASE ~\E p \in RulePenalties : p.rule = id
  <2> DEFINE r == RuleOf[id]
  <2>1. r \in Rules /\ r.id = id
    BY DEF RuleOf, RuleIds
  <2>2. PenaltyFor[id] = DefaultPenalty(r)
    BY <1>2, PenaltyFacts
  <2> HIDE DEF r
  <2>3. DefaultPoints(r.severity) >= 10
    BY <2>1, RulesFacts DEF DefaultPoints
  <2>4. "structural" \in Route(r.category) \/ "data" \in Route(r.category)
    BY <2>1, RulesFacts DEF Route, Subscores
  <2> QED BY <2>2, <2>3, <2>4 DEF DefaultPenalty, Subscores
<1> QED BY <1>1, <1>2

LEMMA ClampedFacts ==
  ASSUME NEW n \in Nat
  PROVE  /\ Clamped(n) \in 0 .. 100
         /\ n = 0 => Clamped(n) = 100
         /\ n <= 50 => Clamped(n) >= 50
         /\ n >= 10 => Clamped(n) <= 90
         /\ n >= 56 => Clamped(n) <= 44
         /\ n >= 85 => Clamped(n) <= 15
BY DEF Clamped

\* The overall score, by the points taken off the subscores.
LEMMA OverallFacts ==
  ASSUME NEW a \in Nat, NEW b \in Nat, NEW c \in Nat
  PROVE  LET score == Overall(Clamped(a), Clamped(b), Clamped(c)) IN
           /\ score \in 0 .. 100
           /\ a = 0 /\ b = 0 /\ c = 0 => score = 100
           /\ a >= 10 \/ b >= 10 => score < 100
           /\ a >= 85 /\ b >= 85 /\ c >= 85 => score <= 15
           /\ a >= 56 /\ b >= 56 => score <= 55
           /\ a <= 50 /\ b <= 50 /\ c = 0 => score >= 60
           /\ a = 0 /\ c = 0 => score >= 60
           /\ c = 0 => score >= 20
<1> DEFINE s == Clamped(a)
           d == Clamped(b)
           m == Clamped(c)
<1>1. /\ s \in 0 .. 100
      /\ a = 0 => s = 100
      /\ a <= 50 => s >= 50
      /\ a >= 10 => s <= 90
      /\ a >= 56 => s <= 44
      /\ a >= 85 => s <= 15
  BY ClampedFacts
<1>2. /\ d \in 0 .. 100
      /\ b = 0 => d = 100
      /\ b <= 50 => d >= 50
      /\ b >= 10 => d <= 90
      /\ b >= 56 => d <= 44
      /\ b >= 85 => d <= 15
  BY ClampedFacts
<1>3. /\ m \in 0 .. 100
      /\ c = 0 => m = 100
      /\ c >= 85 => m <= 15
  BY ClampedFacts
<1> HIDE DEF s, d, m
<1>4. /\ Overall(s, d, m) \in 0 .. 100
      /\ s = 100 /\ d = 100 /\ m = 100 => Overall(s, d, m) = 100
      /\ s <= 90 \/ d <= 90 => Overall(s, d, m) < 100
      /\ s <= 15 /\ d <= 15 /\ m <= 15 => Overall(s, d, m) <= 15
      /\ s <= 44 /\ d <= 44 => Overall(s, d, m) <= 55
      /\ s >= 50 /\ d >= 50 /\ m = 100 => Overall(s, d, m) >= 60
      /\ s = 100 /\ m = 100 => Overall(s, d, m) >= 60
      /\ m = 100 => Overall(s, d, m) >= 20
  BY <1>1, <1>2, <1>3 DEF Overall
<1> DEFINE score == Overall(s, d, m)
<1> HIDE DEF score
<1>5. /\ score \in 0 .. 100
      /\ a = 0 /\ b = 0 /\ c = 0 => score = 100
      /\ a >= 10 \/ b >= 10 => score < 100
      /\ a >= 85 /\ b >= 85 /\ c >= 85 => score <= 15
      /\ a >= 56 /\ b >= 56 => score <= 55
      /\ a <= 50 /\ b <= 50 /\ c = 0 => score >= 60
      /\ a = 0 /\ c = 0 => score >= 60
      /\ c = 0 => score >= 20
  BY <1>1, <1>2, <1>3, <1>4 DEF score
<1> QED BY <1>5 DEF score, s, d, m

\* The penalties of a list of corruptions.
LEMMA FoundPenalties ==
  ASSUME NEW found \in Seq(RuleIds)
  PROVE  LET penalties == [i \in DOMAIN found |-> PenaltyFor[found[i]]] IN
           /\ penalties \in Seq(Penalties) /\ Len(penalties) = Len(found)
           /\ \A i \in 1 .. Len(found) : penalties[i] = PenaltyFor[found[i]]
<1> DEFINE penalties == [i \in DOMAIN found |-> PenaltyFor[found[i]]]
           n == Len(found)
<1>1. n \in Nat /\ DOMAIN found = 1 .. n /\ \A i \in 1 .. n : found[i] \in RuleIds
  OBVIOUS
<1> HIDE DEF n
<1>2. penalties \in [1 .. n -> Penalties] /\ \A i \in 1 .. n : penalties[i] = PenaltyFor[found[i]]
  BY <1>1, PenaltyFacts
<1> HIDE DEF penalties
<1>3. penalties \in Seq(Penalties) /\ Len(penalties) = n
  BY <1>1, <1>2, FunctionSeq
<1> QED BY <1>2, <1>3 DEF penalties, n

\* What the score of a list of corruptions is.
LEMMA ScoreFacts ==
  ASSUME NEW found \in Seq(RuleIds)
  PROVE  /\ Score(found) \in 0 .. 100
         /\ found = << >> => Score(found) = 100
         /\ \A i \in 1 .. Len(found) :
              /\ PenaltyFor[found[i]].points >= 10
              /\ "structural" \in PenaltyFor[found[i]].hits \/ "data" \in PenaltyFor[found[i]].hits
              => Score(found) < 100
         /\ \A i \in 1 .. Len(found) :
              PenaltyFor[found[i]].points >= 85 /\ PenaltyFor[found[i]].hits = Subscores
                => Score(found) <= 15
         /\ /\ Len(found) = 1 /\ PenaltyFor[found[1]].points <= 50
            /\ "metadata" \notin PenaltyFor[found[1]].hits
            => Score(found) >= 60
         /\ \A i \in 1 .. Len(found) :
              PenaltyFor[found[i]].points >= 56 /\ {"structural", "data"} \subseteq PenaltyFor[found[i]].hits
                => Score(found) <= 55
         /\ (\A i \in 1 .. Len(found) : PenaltyFor[found[i]].hits = {"data"}) => Score(found) >= 60
         /\ (\A i \in 1 .. Len(found) : "metadata" \notin PenaltyFor[found[i]].hits)
              => Score(found) >= 20
<1> DEFINE penalties == [i \in DOMAIN found |-> PenaltyFor[found[i]]]
           n == Len(found)
           D(sub) == Deducted(sub, penalties)
<1>1. /\ penalties \in Seq(Penalties) /\ Len(penalties) = n
      /\ \A i \in 1 .. n : penalties[i] = PenaltyFor[found[i]]
  BY FoundPenalties
<1>2. Score(found) = Overall(Clamped(D("structural")), Clamped(D("data")), Clamped(D("metadata")))
  BY DEF Score, HealthOf
<1>3. n \in Nat /\ (found = << >> => n = 0)
  OBVIOUS
<1> HIDE DEF penalties
<1>4. \A sub : /\ D(sub) \in Nat
               /\ \A i \in 1 .. n : Taken(sub, penalties[i]) <= D(sub)
               /\ (\A i \in 1 .. n : Taken(sub, penalties[i]) = 0) => D(sub) = 0
               /\ n = 1 => D(sub) = Taken(sub, penalties[1])
  BY <1>1, DeductedFacts
<1>5. \A i \in 1 .. n : PenaltyFor[found[i]].points \in Nat
  <2>1. \A i \in 1 .. n : found[i] \in RuleIds
    OBVIOUS
  <2> QED BY <2>1, PenaltyFacts DEF Penalties
<1> HIDE DEF D, n
<1> DEFINE a == D("structural")
           b == D("data")
           c == D("metadata")
<1>6. a \in Nat /\ b \in Nat /\ c \in Nat
  BY <1>4
<1>7. /\ Score(found) \in 0 .. 100
      /\ a = 0 /\ b = 0 /\ c = 0 => Score(found) = 100
      /\ a >= 10 \/ b >= 10 => Score(found) < 100
      /\ a >= 85 /\ b >= 85 /\ c >= 85 => Score(found) <= 15
      /\ a >= 56 /\ b >= 56 => Score(found) <= 55
      /\ a <= 50 /\ b <= 50 /\ c = 0 => Score(found) >= 60
      /\ a = 0 /\ c = 0 => Score(found) >= 60
      /\ c = 0 => Score(found) >= 20
  <2>1. Score(found) = Overall(Clamped(a), Clamped(b), Clamped(c))
    BY <1>2
  <2> HIDE DEF a, b, c
  <2> DEFINE score == Overall(Clamped(a), Clamped(b), Clamped(c))
  <2>2. /\ score \in 0 .. 100
        /\ a = 0 /\ b = 0 /\ c = 0 => score = 100
        /\ a >= 10 \/ b >= 10 => score < 100
        /\ a >= 85 /\ b >= 85 /\ c >= 85 => score <= 15
        /\ a >= 56 /\ b >= 56 => score <= 55
        /\ a <= 50 /\ b <= 50 /\ c = 0 => score >= 60
        /\ a = 0 /\ c = 0 => score >= 60
        /\ c = 0 => score >= 20
    BY <1>6, OverallFacts, Zenon
  <2>3. Score(found) = score
    BY <2>1
  <2> HIDE DEF score
  <2> QED BY <2>2, <2>3
<1> HIDE DEF a, b, c
<1>8. ASSUME found = << >> PROVE Score(found) = 100
  <2>1. \A sub : D(sub) = 0
    BY <1>3, <1>4, <1>8
  <2>2. a = 0 /\ b = 0 /\ c = 0
    BY <2>1 DEF a, b, c
  <2> QED BY <1>7, <2>2
<1>9. ASSUME NEW i \in 1 .. n, PenaltyFor[found[i]].points >= 10,
             "structural" \in PenaltyFor[found[i]].hits \/ "data" \in PenaltyFor[found[i]].hits
      PROVE  Score(found) < 100
  <2> DEFINE k == PenaltyFor[found[i]].points
  <2>1. k \in Nat /\ k >= 10
    BY <1>5, <1>9
  <2>2. \/ Taken("structural", penalties[i]) = k
        \/ Taken("data", penalties[i]) = k
    BY <1>1, <1>9 DEF Taken
  <2> HIDE DEF k
  <2>3. k <= a \/ k <= b
    BY <1>4, <2>2 DEF a, b
  <2>4. a >= 10 \/ b >= 10
    BY <1>6, <2>1, <2>3
  <2> QED BY <1>7, <2>4
<1>10. ASSUME NEW i \in 1 .. n, PenaltyFor[found[i]].points >= 85,
              PenaltyFor[found[i]].hits = Subscores
       PROVE  Score(found) <= 15
  <2> DEFINE k == PenaltyFor[found[i]].points
  <2>1. k \in Nat /\ k >= 85
    BY <1>5, <1>10
  <2>2. /\ Taken("structural", penalties[i]) = k
        /\ Taken("data", penalties[i]) = k
        /\ Taken("metadata", penalties[i]) = k
    BY <1>1, <1>10 DEF Taken, Subscores
  <2> HIDE DEF k
  <2>3. k <= a /\ k <= b /\ k <= c
    BY <1>4, <2>2 DEF a, b, c
  <2>4. a >= 85 /\ b >= 85 /\ c >= 85
    BY <1>6, <2>1, <2>3
  <2> QED BY <1>7, <2>4
<1>11. ASSUME n = 1, PenaltyFor[found[1]].points <= 50, "metadata" \notin PenaltyFor[found[1]].hits
       PROVE  Score(found) >= 60
  <2> DEFINE k == PenaltyFor[found[1]].points
  <2>1. 1 \in 1 .. n
    BY <1>11
  <2>2. k \in Nat /\ k <= 50
    BY <1>5, <1>11, <2>1
  <2>3. /\ Taken("structural", penalties[1]) \in {0, k}
        /\ Taken("data", penalties[1]) \in {0, k}
        /\ Taken("metadata", penalties[1]) = 0
    BY <1>1, <1>11, <2>1 DEF Taken
  <2> HIDE DEF k
  <2>4. a \in {0, k} /\ b \in {0, k} /\ c = 0
    BY <1>4, <1>11, <2>3 DEF a, b, c
  <2>5. a <= 50 /\ b <= 50
    BY <2>2, <2>4
  <2> QED BY <1>7, <2>4, <2>5
<1>12. ASSUME NEW i \in 1 .. n, PenaltyFor[found[i]].points >= 56,
              {"structural", "data"} \subseteq PenaltyFor[found[i]].hits
       PROVE  Score(found) <= 55
  <2> DEFINE k == PenaltyFor[found[i]].points
  <2>1. k \in Nat /\ k >= 56
    BY <1>5, <1>12
  <2>2. Taken("structural", penalties[i]) = k /\ Taken("data", penalties[i]) = k
    BY <1>1, <1>12 DEF Taken
  <2> HIDE DEF k
  <2>3. k <= a /\ k <= b
    BY <1>4, <2>2 DEF a, b
  <2>4. a >= 56 /\ b >= 56
    BY <1>6, <2>1, <2>3
  <2> QED BY <1>7, <2>4
<1>13. ASSUME \A i \in 1 .. n : PenaltyFor[found[i]].hits = {"data"}
       PROVE  Score(found) >= 60
  <2>1. \A i \in 1 .. n : /\ Taken("structural", penalties[i]) = 0
                          /\ Taken("metadata", penalties[i]) = 0
    <3> TAKE i \in 1 .. n
    <3>1. penalties[i].hits = {"data"}
      BY <1>1, <1>13
    <3> QED BY <3>1 DEF Taken
  <2>2. a = 0 /\ c = 0
    BY <1>4, <2>1 DEF a, c
  <2> QED BY <1>7, <2>2
<1>14. ASSUME \A i \in 1 .. n : "metadata" \notin PenaltyFor[found[i]].hits
       PROVE  Score(found) >= 20
  <2>1. \A i \in 1 .. n : Taken("metadata", penalties[i]) = 0
    BY <1>1, <1>14 DEF Taken
  <2>2. c = 0
    BY <1>4, <2>1 DEF c
  <2> QED BY <1>7, <2>2
<1> QED BY <1>7, <1>8, <1>9, <1>10, <1>11, <1>12, <1>13, <1>14 DEF n

\* Only a list without corruptions, benign padding aside, has full health.
LEMMA FullHealth ==
  ASSUME NEW found \in Seq(RuleIds), Score(found) = 100,
         \A i \in DOMAIN found : found[i] # "TAR_TERM_002"
  PROVE  found = << >>
<1> SUFFICES ASSUME found # << >> PROVE FALSE
  OBVIOUS
<1>1. 1 \in 1 .. Len(found) /\ 1 \in DOMAIN found /\ found[1] \in RuleIds
  OBVIOUS
<1>2. Score(found) < 100
  BY <1>1, EveryRuleCosts, ScoreFacts
<1> QED BY <1>2
=============================================================================
