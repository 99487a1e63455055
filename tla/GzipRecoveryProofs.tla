------------------------- MODULE GzipRecoveryProofs -------------------------
(***************************************************************************)
(* Proofs about the gzip repairs, for files of any number of cells in any  *)
(* state: what is published of them, and that no member proven in a source *)
(* is lost.                                                                *)
(***************************************************************************)
EXTENDS GzipRecovery, RecoveryPassesProofs, FoldProofs

-----------------------------------------------------------------------------
\* Sequences of cells, and their lengths in bytes.

ElementsOf(x) == {x[i] : i \in 1 .. Len(x)}

LEMMA SeqOfElements ==
  ASSUME NEW x, IsSeq(x)
  PROVE  Len(x) \in Nat /\ DOMAIN x = 1 .. Len(x) /\ x \in Seq(ElementsOf(x))
<1> DEFINE n == Len(x)
<1>1. n \in Nat /\ x = [i \in 1 .. n |-> x[i]]
  BY DEF IsSeq
<1>2. DOMAIN x = 1 .. n /\ x \in [1 .. n -> ElementsOf(x)]
  BY <1>1 DEF ElementsOf
<1> HIDE DEF n
<1>3. x \in Seq(ElementsOf(x))
  BY <1>1, <1>2, FunctionSeq
<1> QED BY <1>1, <1>2, <1>3 DEF n

LEMMA SeqIsSeq ==
  ASSUME NEW S, NEW x \in Seq(S)
  PROVE  IsSeq(x)
BY DEF IsSeq

\* The length of a content adds up.
LEMMA SumExists ==
  ASSUME NEW n \in Nat, NEW e \in [1 .. n -> Nat]
  PROVE  \E t \in [0 .. n -> Nat] : t[0] = 0 /\ \A i \in 1 .. n : t[i] = t[i - 1] + e[i]
<1> DEFINE Sums(t, m) == t[0] = 0 /\ \A i \in 1 .. m : t[i] = t[i - 1] + e[i]
           missing == {m \in 0 .. n : ~\E t \in [0 .. m -> Nat] : Sums(t, m)}
<1>1. ASSUME missing # {} PROVE FALSE
  <2>1. missing \subseteq Nat
    OBVIOUS
  <2>2. PICK m \in missing : \A k \in missing : m <= k
    BY <1>1, <2>1, LeastElement
  <2>3. m \in 0 .. n /\ ~\E t \in [0 .. m -> Nat] : Sums(t, m)
    OBVIOUS
  <2>4. CASE m = 0
    <3> DEFINE t == [i \in 0 .. m |-> 0]
    <3>1. t \in [0 .. m -> Nat] /\ Sums(t, m)
      BY <2>4
    <3> HIDE DEF t
    <3> QED BY <2>3, <3>1
  <2>5. CASE m # 0
    <3>1. m \in 1 .. n /\ m - 1 \in 0 .. n /\ ~(m <= m - 1)
      BY <2>3, <2>5
    <3>2. m - 1 \notin missing
      <4> HIDE DEF missing
      <4> QED BY <2>2, <3>1
    <3>3. PICK h \in [0 .. m - 1 -> Nat] : Sums(h, m - 1)
      BY <3>1, <3>2
    <3> DEFINE t == [i \in 0 .. m |-> IF i = m THEN h[m - 1] + e[m] ELSE h[i]]
    <3>4. h[m - 1] \in Nat /\ e[m] \in Nat
      BY <3>1
    <3>5. t \in [0 .. m -> Nat]
      <4> SUFFICES ASSUME NEW i \in 0 .. m
                   PROVE  (IF i = m THEN h[m - 1] + e[m] ELSE h[i]) \in Nat
        OBVIOUS
      <4>1. CASE i = m
        BY <3>4, <4>1
      <4>2. CASE i # m
        <5>1. i \in 0 .. m - 1
          BY <3>1, <4>2
        <5> QED BY <4>2, <5>1
      <4> QED BY <4>1, <4>2
    <3>6. Sums(t, m)
      <4>1. t[0] = 0
        BY <3>1, <3>3
      <4>2. ASSUME NEW i \in 1 .. m PROVE t[i] = t[i - 1] + e[i]
        <5>1. i \in 0 .. m /\ i - 1 \in 0 .. m /\ i - 1 # m /\ (i # m => i \in 1 .. m - 1)
          BY <3>1
        <5> QED BY <3>3, <5>1
      <4> QED BY <4>1, <4>2
    <3> HIDE DEF t
    <3> QED BY <2>3, <3>5, <3>6
  <2> QED BY <2>4, <2>5
<1>2. n \notin missing
  <2> HIDE DEF missing
  <2> QED BY <1>1
<1>3. n \in 0 .. n
  OBVIOUS
<1>4. \E t \in [0 .. n -> Nat] : Sums(t, n)
  <2> HIDE DEF Sums
  <2> QED BY <1>2, <1>3
<1> QED BY <1>4

LEMMA BytesSum ==
  ASSUME NEW f, Len(f) \in Nat
  PROVE  \E t \in [0 .. Len(f) -> Nat] :
           /\ t[0] = 0 /\ \A i \in 1 .. Len(f) : t[i] = t[i - 1] + CellBytes(f[i])
           /\ Bytes(f) = t[Len(f)]
<1> DEFINE n == Len(f)
           e == [i \in 1 .. n |-> CellBytes(f[i])]
           Extends(g) == [i \in 0 .. n |-> IF i = 0 THEN 0 ELSE g[i - 1] + CellBytes(f[i])]
           upTo == CHOOSE g : g = Extends(g)
<1>1. Bytes(f) = upTo[n] /\ n \in Nat
  BY DEF Bytes
<1>2. e \in [1 .. n -> Nat] /\ \A i \in 1 .. n : e[i] = CellBytes(f[i])
  BY DEF CellBytes
<1> HIDE DEF n, e
<1>3. PICK h \in [0 .. n -> Nat] : h[0] = 0 /\ \A i \in 1 .. n : h[i] = h[i - 1] + CellBytes(f[i])
  <2>1. PICK h \in [0 .. n -> Nat] : h[0] = 0 /\ \A i \in 1 .. n : h[i] = h[i - 1] + e[i]
    BY <1>1, <1>2, SumExists
  <2> QED BY <1>2, <2>1
<1>4. h = Extends(h)
  <2>1. ASSUME NEW i \in 0 .. n PROVE h[i] = Extends(h)[i]
    <3>1. i # 0 => i \in 1 .. n
      BY <1>1
    <3> QED BY <1>3, <3>1
  <2> QED BY <2>1
<1>5. upTo = Extends(upTo)
  <2> HIDE DEF Extends
  <2> QED BY <1>4
<1> HIDE DEF upTo
<1>6. /\ upTo[0] = 0
      /\ \A i \in 1 .. n : upTo[i] = upTo[i - 1] + CellBytes(f[i])
  <2>1. \A i \in 0 .. n : upTo[i] = IF i = 0 THEN 0 ELSE upTo[i - 1] + CellBytes(f[i])
    BY <1>5
  <2>2. 0 \in 0 .. n /\ \A i \in 1 .. n : i \in 0 .. n /\ i # 0
    BY <1>1
  <2> QED BY <2>1, <2>2
<1>7. upTo[n] = h[n]
  <2> DEFINE differ == {i \in 0 .. n : upTo[i] # h[i]}
  <2>1. ASSUME differ # {} PROVE FALSE
    <3>1. differ \subseteq Nat
      BY <1>1
    <3>2. PICK m \in differ : \A k \in differ : m <= k
      BY <2>1, <3>1, LeastElement
    <3>3. m # 0
      BY <1>3, <1>6, <3>2
    <3>4. m \in 1 .. n /\ m - 1 \in 0 .. n /\ ~(m <= m - 1)
      BY <1>1, <3>1, <3>3
    <3>5. upTo[m - 1] = h[m - 1]
      BY <3>2, <3>4
    <3> QED BY <1>3, <1>6, <3>2, <3>4, <3>5
  <2>2. n \notin differ
    <3> HIDE DEF differ
    <3> QED BY <2>1
  <2> QED BY <1>1, <2>2
<1> QED BY <1>1, <1>3, <1>7 DEF n

\* A file with a header and a trailer is as long as the detector asks for.
LEMMA BytesFacts ==
  ASSUME NEW f, Len(f) \in Nat
  PROVE  /\ Bytes(f) \in Nat
         /\ \A i \in 2 .. Len(f) : f[1].kind = "fixed" /\ f[i].kind = "trailer" => Bytes(f) >= GZ_MIN_SIZE
<1> DEFINE n == Len(f)
           e(i) == CellBytes(f[i])
<1>1. PICK t \in [0 .. n -> Nat] :
        /\ t[0] = 0 /\ \A i \in 1 .. n : t[i] = t[i - 1] + e(i)
        /\ Bytes(f) = t[n]
  BY BytesSum
<1>2. \A i \in 1 .. n : e(i) \in Nat
  BY DEF CellBytes
<1>3. ASSUME NEW i \in 2 .. n, f[1].kind = "fixed", f[i].kind = "trailer"
      PROVE  t[n] >= 18
  <2>1. e(1) = 10 /\ e(i) = 8
    BY <1>3 DEF CellBytes
  <2> HIDE DEF e, n
  <2> DEFINE Long(k) == (k >= 1 => t[k] >= 10) /\ (k >= i => t[k] >= 18)
             short == {k \in 0 .. n : ~Long(k)}
  <2>0. n \in Nat
    BY DEF n
  <2>2. ASSUME short # {} PROVE FALSE
    <3>1. short \subseteq Nat
      BY <2>0
    <3>2. PICK m \in short : \A k \in short : m <= k
      BY <2>2, <3>1, LeastElement
    <3>3. m \in 0 .. n /\ ~Long(m)
      OBVIOUS
    <3>4. m # 0
      BY <1>3, <3>3
    <3>5. m \in 1 .. n /\ m - 1 \in 0 .. n /\ ~(m <= m - 1)
      BY <2>0, <3>3, <3>4
    <3>6. Long(m - 1)
      <4> HIDE DEF Long
      <4> QED BY <3>2, <3>5
    <3>7. t[m] = t[m - 1] + e(m) /\ t[m - 1] \in Nat /\ t[m] \in Nat /\ e(m) \in Nat
      BY <1>1, <1>2, <3>5
    <3>8. CASE m = 1
      <4>1. m - 1 = 0 /\ ~(m >= i)
        BY <1>3, <3>8
      <4>2. t[m] = 10
        BY <1>1, <2>1, <3>7, <3>8, <4>1
      <4> QED BY <3>3, <4>1, <4>2
    <3>9. CASE m # 1
      <4>1. t[m - 1] >= 10
        BY <3>5, <3>6, <3>9
      <4>2. m = i => t[m] >= 18
        BY <2>1, <3>7, <4>1
      <4>3. m > i => t[m] >= 18
        BY <1>3, <3>5, <3>6, <3>7
      <4>4. t[m] >= 10
        BY <3>7, <4>1
      <4> QED BY <1>3, <3>3, <3>5, <4>2, <4>3, <4>4
    <3> QED BY <3>8, <3>9
  <2>3. n \notin short
    <3> HIDE DEF short
    <3> QED BY <2>2
  <2> QED BY <1>3, <2>0, <2>3
<1> QED BY <1>1, <1>3 DEF GZ_MIN_SIZE

-----------------------------------------------------------------------------
\* Inflating.

\* The k-th cell of a packed body, and the cells before the first that is missing.
Goes(f, from, to, k) ==
  /\ from + k - 1 <= to
  /\ \E x \in {"ok", "wrong"} : f[from + k - 1] = [Packed(f[from].of, k) EXCEPT !.x = x]

IsGood(f, from, to, g) ==
  /\ \A k \in 1 .. g : Goes(f, from, to, k)
  /\ g = PackedCells(f[from].of) \/ ~Goes(f, from, to, g + 1)

Good(f, from, to) == CHOOSE g \in 0 .. PackedCells(f[from].of) : IsGood(f, from, to, g)

Unpacked(f, from, g) ==
  [k \in 1 .. IF g > Len(f[from].of) THEN Len(f[from].of) ELSE g |->
     IF f[from + k - 1].x = "ok" THEN f[from].of[k] ELSE Wrong]

LEMMA PackedIs ==
  ASSUME NEW f, NEW from, NEW to
  PROVE  InflatePacked(f, from, to) =
           [ok    |-> Good(f, from, to) = PackedCells(f[from].of),
            plain |-> Unpacked(f, from, Good(f, from, to)),
            next  |-> from + Good(f, from, to)]
BY DEF InflatePacked, Good, IsGood, Goes, Unpacked

\* There is exactly one such number of cells.
LEMMA GoodFacts ==
  ASSUME NEW f, NEW from \in Nat, NEW to \in Nat, IsSeq(f[from].of)
  PROVE  LET n == PackedCells(f[from].of)
             g == Good(f, from, to)
         IN  /\ n \in Nat /\ n >= 1 /\ n >= Len(f[from].of)
             /\ g \in 0 .. n /\ IsGood(f, from, to, g)
             /\ \A h \in 0 .. n : IsGood(f, from, to, h) => h = g
<1> DEFINE n == PackedCells(f[from].of)
           G(k) == Goes(f, from, to, k)
           Is(g) == IsGood(f, from, to, g)
           stops == {g \in 0 .. n : g = n \/ ~G(g + 1)}
<1>1. n \in Nat /\ n >= 1 /\ n >= Len(f[from].of)
  <2>1. f[from].of \in Seq(ElementsOf(f[from].of))
    BY SeqOfElements
  <2>2. \A x \in Seq(ElementsOf(f[from].of)) : Len(x) \in Nat /\ (Len(x) = 0 <=> x = << >>)
    OBVIOUS
  <2> QED BY <2>1, <2>2 DEF PackedCells
<1>2. \A g : Is(g) <=> (\A k \in 1 .. g : G(k)) /\ (g = n \/ ~G(g + 1))
  BY DEF IsGood
<1>3. Good(f, from, to) = CHOOSE g \in 0 .. n : Is(g)
  BY DEF Good
<1> HIDE DEF n, G, Is
<1>4. \E g \in 0 .. n : Is(g)
  <2>1. stops \subseteq Nat /\ n \in stops
    BY <1>1
  <2>2. PICK g \in stops : \A k \in stops : g <= k
    BY <2>1, LeastElement
  <2>3. g \in 0 .. n /\ (g = n \/ ~G(g + 1))
    OBVIOUS
  <2>4. ASSUME NEW k \in 1 .. g PROVE G(k)
    <3>1. k - 1 \in 0 .. n /\ k - 1 # n /\ ~(g <= k - 1) /\ k - 1 + 1 = k
      BY <1>1, <2>3
    <3>2. k - 1 \notin stops
      <4> HIDE DEF stops
      <4> QED BY <2>2, <3>1
    <3>3. G(k - 1 + 1)
      BY <3>1, <3>2
    <3> QED BY <3>1, <3>3
  <2> QED BY <1>2, <2>3, <2>4
<1>5. ASSUME NEW g \in 0 .. n, NEW h \in 0 .. n, Is(g), Is(h), g < h PROVE FALSE
  <2>1. g + 1 \in 1 .. h /\ g # n
    BY <1>1, <1>5
  <2>2. G(g + 1) /\ ~G(g + 1)
    BY <1>2, <1>5, <2>1
  <2> QED BY <2>2
<1>6. \A g, h \in 0 .. n : Is(g) /\ Is(h) => g = h
  <2> SUFFICES ASSUME NEW g \in 0 .. n, NEW h \in 0 .. n, Is(g), Is(h) PROVE g = h
    OBVIOUS
  <2>1. ~(g < h) /\ ~(h < g)
    BY <1>5
  <2> QED BY <1>1, <2>1
<1>7. Good(f, from, to) \in 0 .. n /\ Is(Good(f, from, to))
  BY <1>3, <1>4
<1>8. \A h \in 0 .. n : Is(h) => h = Good(f, from, to)
  BY <1>6, <1>7
<1> QED BY <1>1, <1>7, <1>8 DEF n, Is

\* What inflating gives is a content, and it goes forward.
LEMMA InflateType ==
  ASSUME NEW f, IsStream(f), NEW from \in Nat \ {0}, NEW to \in Nat, to <= Len(f)
  PROVE  LET a == Inflate(f, from, to)
         IN  /\ a = [ok |-> a.ok, plain |-> a.plain, next |-> a.next]
             /\ a.ok \in BOOLEAN /\ IsSeq(a.plain) /\ a.next \in Nat /\ a.next >= from
             /\ a.ok => a.next > from /\ a.next <= to + 1
<1> DEFINE a == Inflate(f, from, to)
           none == [ok |-> FALSE, plain |-> << >>, next |-> from]
<1>0. Len(f) \in Nat /\ DOMAIN f = 1 .. Len(f) /\ f \in Seq(ElementsOf(f))
  BY SeqOfElements DEF IsStream
<1>1. CASE a = none
  <2>1. IsSeq(<< >>)
    BY DEF IsSeq
  <2> HIDE DEF a
  <2> QED BY <1>1, <2>1 DEF a
<1>2. CASE from <= to /\ f[from].kind = "packed"
  <2>1. from \in 1 .. Len(f)
    BY <1>0, <1>2
  <2>2. IsSeq(f[from].of)
    BY <1>2, <2>1 DEF IsStream, IsCell
  <2> DEFINE n == PackedCells(f[from].of)
             g == Good(f, from, to)
             len == Len(f[from].of)
             m == IF g > len THEN len ELSE g
  <2>3. a = InflatePacked(f, from, to)
    BY <1>2 DEF Inflate
  <2>4. a = [ok |-> g = n, plain |-> Unpacked(f, from, g), next |-> from + g]
    BY <2>3, PackedIs
  <2>5. n \in Nat /\ n >= 1 /\ n >= len /\ g \in 0 .. n /\ IsGood(f, from, to, g) /\ len \in Nat
    BY <2>2, GoodFacts, SeqOfElements
  <2>6. g >= 1 => from + g - 1 <= to
    <3>1. g >= 1 => g \in 1 .. g
      BY <2>5
    <3> QED BY <2>5, <3>1 DEF IsGood, Goes
  <2>7. IsSeq(Unpacked(f, from, g))
    <3> DEFINE u == Unpacked(f, from, g)
               S == {u[k] : k \in 1 .. m}
    <3>1. u \in [1 .. m -> S]
      BY DEF Unpacked
    <3>2. m \in Nat
      BY <2>5
    <3> HIDE DEF u, S, m
    <3>3. u \in Seq(S)
      BY <3>1, <3>2, FunctionSeq
    <3> QED BY <3>3, SeqIsSeq DEF u
  <2> HIDE DEF a, n, g
  <2>8. a.ok \in BOOLEAN /\ a.plain = Unpacked(f, from, g) /\ a.next = from + g /\ (a.ok <=> g = n)
    BY <2>4
  <2>9. a.next \in Nat /\ a.next >= from /\ (a.ok => a.next > from /\ a.next <= to + 1)
    BY <2>5, <2>6, <2>8
  <2> QED BY <2>4, <2>7, <2>8, <2>9 DEF a
<1>3. CASE from <= to /\ f[from].kind = "stored" /\ f[from].x = "ok"
  <2>1. from \in 1 .. Len(f)
    BY <1>0, <1>3
  <2>2. IsSeq(f[from].of) /\ Len(f[from].of) \in Nat
    BY <1>3, <2>1, SeqOfElements DEF IsStream, IsCell
  <2> DEFINE end == from + Len(f[from].of)
             last == IF end <= to THEN end ELSE to
  <2>3. a = [ok |-> end <= to, plain |-> SubSeq(f, from + 1, last), next |-> end + 1]
    BY <1>3 DEF Inflate, InflateStored
  <2>4. end \in Nat /\ end >= from /\ last \in Nat /\ last <= Len(f)
    BY <1>0, <2>2
  <2> HIDE DEF a, end, last
  <2>5. SubSeq(f, from + 1, last) \in Seq(ElementsOf(f))
    <3>1. \A i \in from + 1 .. last : f[i] \in ElementsOf(f)
      <4> TAKE i \in from + 1 .. last
      <4>1. i \in 1 .. Len(f)
        BY <1>0, <2>4
      <4> QED BY <4>1 DEF ElementsOf
    <3>2. from + 1 \in Int /\ last \in Int
      BY <2>4
    <3> QED BY <3>1, <3>2, SubSeqProperties
  <2>6. IsSeq(SubSeq(f, from + 1, last))
    BY <2>5, SeqIsSeq
  <2>7. a.ok = (end <= to) /\ a.plain = SubSeq(f, from + 1, last) /\ a.next = end + 1
    BY <2>3
  <2>8. a.ok \in BOOLEAN /\ a.next \in Nat /\ a.next >= from /\ (a.ok => a.next > from /\ a.next <= to + 1)
    <3>1. a.next \in Nat /\ a.next >= from /\ a.next > from /\ (end <= to => a.next <= to + 1)
      BY <2>4, <2>7
    <3>2. (end <= to) \in BOOLEAN
      OBVIOUS
    <3>3. a.ok \in BOOLEAN /\ (a.ok => end <= to)
      BY <2>7, <3>2, Zenon
    <3> QED BY <3>1, <3>3
  <2> QED BY <2>3, <2>6, <2>7, <2>8 DEF a
<1>4. \/ a = none
      \/ from <= to /\ f[from].kind = "packed"
      \/ from <= to /\ f[from].kind = "stored" /\ f[from].x = "ok"
  BY DEF Inflate
<1> QED BY <1>1, <1>2, <1>3, <1>4

\* Two contents with the same cells are the same.
LEMMA SameSeq ==
  ASSUME NEW x, NEW y, IsSeq(x), IsSeq(y), Len(x) = Len(y), \A k \in 1 .. Len(x) : x[k] = y[k]
  PROVE  x = y
<1> DEFINE n == Len(x)
<1>1. x = [i \in 1 .. n |-> x[i]] /\ y = [i \in 1 .. n |-> y[i]]
  BY DEF IsSeq
<1>2. \A i \in 1 .. n : x[i] = y[i]
  OBVIOUS
<1> HIDE DEF n
<1> QED BY <1>1, <1>2

LEMMA PrefixIs ==
  ASSUME NEW x, NEW y, IsSeq(x), IsSeq(y), Len(y) <= Len(x), \A k \in 1 .. Len(y) : y[k] = x[k]
  PROVE  y = SubSeq(x, 1, Len(y))
<1> DEFINE n == Len(y)
           z == SubSeq(x, 1, n)
<1>1. n \in Nat /\ x \in Seq(ElementsOf(x)) /\ n <= Len(x)
  BY SeqOfElements
<1>2. z \in Seq(ElementsOf(x)) /\ Len(z) = n /\ \A k \in 1 .. n : z[k] = x[k]
  BY <1>1, PrefixFacts
<1>3. IsSeq(z)
  BY <1>2, SeqIsSeq
<1> HIDE DEF z
<1>4. \A k \in 1 .. Len(y) : y[k] = z[k]
  BY <1>2
<1>5. y = z
  BY <1>2, <1>3, <1>4, SameSeq
<1> QED BY <1>5 DEF z

LEMMA SliceFacts ==
  ASSUME NEW f, IsSeq(f), NEW from \in Nat, NEW last \in Nat, from <= last, last <= Len(f)
  PROVE  LET s == SubSeq(f, from + 1, last)
         IN  IsSeq(s) /\ Len(s) = last - from /\ \A k \in 1 .. last - from : s[k] = f[from + k]
<1> DEFINE s == SubSeq(f, from + 1, last)
           m == from + 1
<1>1. m \in Int /\ last \in Int /\ Len(f) \in Nat
  BY SeqOfElements
<1>2. \A i \in m .. last : f[i] \in ElementsOf(f)
  <2> TAKE i \in m .. last
  <2>1. i \in 1 .. Len(f)
    BY <1>1
  <2> QED BY <2>1 DEF ElementsOf
<1>3. m + 0 = from + 1 /\ last - m + 1 = last - from /\ (m <= last \/ last - from = 0)
      /\ \A i \in 1 .. last - from : m + i - 1 = from + i
  OBVIOUS
<1> HIDE DEF m
<1>4. /\ SubSeq(f, m, last) \in Seq(ElementsOf(f))
      /\ Len(SubSeq(f, m, last)) = IF m <= last THEN last - m + 1 ELSE 0
      /\ \A i \in 1 .. last - m + 1 : SubSeq(f, m, last)[i] = f[m + i - 1]
  BY <1>1, <1>2, SubSeqProperties
<1>5. s = SubSeq(f, m, last)
  BY DEF m
<1> HIDE DEF s
<1>6. IsSeq(s)
  BY <1>4, <1>5, SeqIsSeq
<1>7. Len(s) = last - from
  BY <1>3, <1>4, <1>5
<1>8. \A k \in 1 .. last - from : s[k] = f[from + k]
  BY <1>3, <1>4, <1>5
<1> QED BY <1>6, <1>7, <1>8 DEF s

LEMMA UnpackedFacts ==
  ASSUME NEW f, NEW from, NEW g \in Nat, IsSeq(f[from].of)
  PROVE  LET u == Unpacked(f, from, g)
             len == Len(f[from].of)
             m == IF g > len THEN len ELSE g
         IN  /\ IsSeq(u) /\ Len(u) = m /\ m \in Nat
             /\ \A k \in 1 .. m : u[k] = IF f[from + k - 1].x = "ok" THEN f[from].of[k] ELSE Wrong
<1> DEFINE u == Unpacked(f, from, g)
           len == Len(f[from].of)
           m == IF g > len THEN len ELSE g
           S == {u[k] : k \in 1 .. m}
<1>1. len \in Nat
  BY SeqOfElements
<1>2. m \in Nat
  BY <1>1
<1>3. u \in [1 .. m -> S] /\ \A k \in 1 .. m : u[k] = IF f[from + k - 1].x = "ok" THEN f[from].of[k] ELSE Wrong
  BY DEF Unpacked
<1> HIDE DEF u, S, m
<1>4. u \in Seq(S) /\ Len(u) = m
  BY <1>2, <1>3, FunctionSeq
<1>5. IsSeq(u)
  BY <1>4, SeqIsSeq
<1> QED BY <1>2, <1>3, <1>4, <1>5 DEF u, m

\* Leaving the last cell out changes nothing for a stream that ends before it, and
\* costs one cell at most.
LEMMA ShorterByOne ==
  ASSUME NEW f, IsStream(f), NEW from \in Nat \ {0}, NEW to \in Nat, from < to, to <= Len(f)
  PROVE  LET a == Inflate(f, from, to)
             b == Inflate(f, from, to - 1)
         IN  /\ a.next <= to => b = a
             /\ b.ok => b = a
             /\ Len(a.plain) \in Nat /\ Len(b.plain) \in Nat /\ Len(b.plain) <= Len(a.plain)
             /\ Len(b.plain) >= Len(a.plain) - 1
             /\ b.plain = SubSeq(a.plain, 1, Len(b.plain))
<1> DEFINE a == Inflate(f, from, to)
           b == Inflate(f, from, to - 1)
           none == [ok |-> FALSE, plain |-> << >>, next |-> from]
<1>0. /\ Len(f) \in Nat /\ IsSeq(f) /\ to - 1 \in Nat /\ to - 1 <= Len(f) /\ from <= to /\ from <= to - 1
      /\ ~(from > to) /\ ~(from > to - 1)
  BY SeqOfElements DEF IsStream
<1>t. IsSeq(a.plain) /\ IsSeq(b.plain) /\ Len(a.plain) \in Nat /\ Len(b.plain) \in Nat
  <2>1. IsSeq(a.plain)
    BY <1>0, InflateType
  <2>2. IsSeq(b.plain)
    BY <1>0, InflateType
  <2> HIDE DEF a, b
  <2> QED BY <2>1, <2>2, SeqOfElements
<1>1. CASE a = none /\ b = none
  <2> HIDE DEF a, b
  <2>1. a.plain = << >> /\ b.plain = << >> /\ b = a
    BY <1>1
  <2>2. << >> = SubSeq(<< >>, 1, 0) /\ Len(<< >>) = 0
    OBVIOUS
  <2>3. Len(a.plain) = 0 /\ Len(b.plain) = 0 /\ b.plain = SubSeq(a.plain, 1, 0)
    BY <2>1, <2>2
  <2>4. b.plain = SubSeq(a.plain, 1, Len(b.plain))
    BY <2>3
  <2> QED BY <2>1, <2>3, <2>4 DEF a, b
<1>2. CASE f[from].kind = "packed"
  <2>1. from \in 1 .. Len(f)
    BY <1>0
  <2>2. IsSeq(f[from].of)
    BY <1>2, <2>1 DEF IsStream, IsCell
  <2> DEFINE n == PackedCells(f[from].of)
             g == Good(f, from, to)
             h == Good(f, from, to - 1)
             len == Len(f[from].of)
             A(k) == Goes(f, from, to, k)
             B(k) == Goes(f, from, to - 1, k)
  <2>3. a = [ok |-> g = n, plain |-> Unpacked(f, from, g), next |-> from + g]
    BY <1>0, <1>2, PackedIs DEF Inflate
  <2>4. b = [ok |-> h = n, plain |-> Unpacked(f, from, h), next |-> from + h]
    BY <1>0, <1>2, PackedIs DEF Inflate
  <2>5. /\ n \in Nat /\ n >= 1 /\ n >= len /\ len \in Nat /\ g \in 0 .. n
        /\ (\A k \in 1 .. g : A(k)) /\ (g = n \/ ~A(g + 1))
    BY <2>2, GoodFacts, SeqOfElements DEF IsGood
  <2>6. /\ h \in 0 .. n
        /\ \A i \in 0 .. n : (\A k \in 1 .. i : B(k)) /\ (i = n \/ ~B(i + 1)) => i = h
    BY <1>0, <2>2, GoodFacts DEF IsGood
  <2>7. \A k \in Nat : B(k) <=> A(k) /\ from + k - 1 <= to - 1
    BY <1>0 DEF Goes
  <2>8. \A k \in Nat : A(k) => from + k - 1 <= to
    BY DEF Goes
  <2> HIDE DEF n, g, h, len, A, B, a, b
  <2>9. h = g \/ (h = g - 1 /\ from + g - 1 = to)
    <3>1. CASE from + g - 1 <= to - 1
      <4>1. \A k \in 1 .. g : k \in Nat /\ from + k - 1 <= to - 1
        BY <2>5, <3>1
      <4>2. \A k \in 1 .. g : B(k)
        BY <2>5, <2>7, <4>1
      <4>3. g = n \/ ~B(g + 1)
        <5>1. g + 1 \in Nat
          BY <2>5
        <5> QED BY <2>5, <2>7, <5>1
      <4> QED BY <2>5, <2>6, <4>2, <4>3
    <3>2. CASE ~(from + g - 1 <= to - 1)
      <4>1. g >= 1 /\ g \in 1 .. g /\ g \in Nat
        BY <1>0, <2>5, <3>2
      <4>2. from + g - 1 = to
        <5>1. from + g - 1 <= to
          BY <2>5, <2>8, <4>1
        <5> QED BY <2>5, <3>2, <5>1
      <4>3. g - 1 \in 0 .. n /\ g - 1 + 1 = g
        BY <2>5, <4>1
      <4>4. \A k \in 1 .. g - 1 : k \in 1 .. g /\ k \in Nat /\ from + k - 1 <= to - 1
        BY <2>5, <4>2
      <4>5. \A k \in 1 .. g - 1 : B(k)
        BY <2>5, <2>7, <4>4
      <4>6. ~B(g)
        BY <2>7, <3>2, <4>1
      <4>7. ~B(g - 1 + 1)
        BY <4>3, <4>6
      <4>8. g - 1 = h
        BY <2>6, <4>3, <4>5, <4>7
      <4> QED BY <4>2, <4>8
    <3> QED BY <3>1, <3>2
  <2>10. a.next <= to => b = a
    <3>1. a.next = from + g
      BY <2>3
    <3>2. a.next <= to => h = g
      BY <2>5, <2>9, <3>1
    <3> QED BY <2>3, <2>4, <3>2
  <2>10a. b.ok => b = a
    <3>1. b.ok => h = n
      BY <2>4
    <3>2. h = n => h = g
      BY <2>5, <2>6, <2>9
    <3> QED BY <2>3, <2>4, <3>1, <3>2
  <2> DEFINE ma == IF g > len THEN len ELSE g
             mb == IF h > len THEN len ELSE h
  <2>11. /\ a.plain = Unpacked(f, from, g) /\ Len(a.plain) = ma
         /\ \A k \in 1 .. ma : a.plain[k] = IF f[from + k - 1].x = "ok" THEN f[from].of[k] ELSE Wrong
    <3>1. g \in Nat
      BY <2>5
    <3> QED BY <2>2, <2>3, <3>1, UnpackedFacts DEF len
  <2>12. /\ b.plain = Unpacked(f, from, h) /\ Len(b.plain) = mb
         /\ \A k \in 1 .. mb : b.plain[k] = IF f[from + k - 1].x = "ok" THEN f[from].of[k] ELSE Wrong
    <3>1. h \in Nat
      BY <2>5, <2>6
    <3> QED BY <2>2, <2>4, <3>1, UnpackedFacts DEF len
  <2>13. mb <= ma /\ mb >= ma - 1 /\ ma \in Nat /\ mb \in Nat /\ \A k \in 1 .. mb : k \in 1 .. ma
    BY <2>5, <2>6, <2>9
  <2> HIDE DEF ma, mb
  <2>14. \A k \in 1 .. Len(b.plain) : b.plain[k] = a.plain[k]
    BY <2>11, <2>12, <2>13
  <2>15. Len(b.plain) <= Len(a.plain) /\ Len(b.plain) >= Len(a.plain) - 1
    BY <2>11, <2>12, <2>13
  <2>16. b.plain = SubSeq(a.plain, 1, Len(b.plain))
    BY <1>t, <2>14, <2>15, PrefixIs DEF a, b
  <2> QED BY <1>t, <2>10, <2>10a, <2>15, <2>16 DEF a, b
<1>3. CASE f[from].kind = "stored" /\ f[from].x = "ok"
  <2>1. from \in 1 .. Len(f)
    BY <1>0
  <2>2. Len(f[from].of) \in Nat
    BY <1>3, <2>1, SeqOfElements DEF IsStream, IsCell
  <2> DEFINE end == from + Len(f[from].of)
             la == IF end <= to THEN end ELSE to
             lb == IF end <= to - 1 THEN end ELSE to - 1
  <2>3. a = [ok |-> end <= to, plain |-> SubSeq(f, from + 1, la), next |-> end + 1]
    BY <1>0, <1>3 DEF Inflate, InflateStored
  <2>4. b = [ok |-> end <= to - 1, plain |-> SubSeq(f, from + 1, lb), next |-> end + 1]
    BY <1>0, <1>3 DEF Inflate, InflateStored
  <2>5. end \in Nat /\ end >= from
    BY <2>2
  <2>6. /\ la \in Nat /\ lb \in Nat /\ from <= lb /\ lb <= la /\ la <= Len(f) /\ lb >= la - 1
        /\ from <= la /\ lb <= Len(f)
        /\ end + 1 <= to => end <= to - 1 /\ end <= to /\ la = lb
    BY <1>0, <2>5
  <2> HIDE DEF a, b, end, la, lb
  <2>7. a.plain = SubSeq(f, from + 1, la) /\ a.next = end + 1 /\ b.plain = SubSeq(f, from + 1, lb)
    BY <2>3, <2>4
  <2>8. a.next <= to => b = a
    <3> SUFFICES ASSUME a.next <= to PROVE b = a
      OBVIOUS
    <3>1. end <= to /\ end <= to - 1 /\ la = lb
      BY <2>6, <2>7
    <3>2. (end <= to) = (end <= to - 1)
      BY <3>1
    <3> QED BY <2>3, <2>4, <3>1, <3>2, Zenon
  <2>8a. b.ok => b = a
    <3>1. b.ok = (end <= to - 1) /\ b.next = end + 1
      BY <2>4
    <3>2. end <= to - 1 => a.next <= to
      BY <2>5, <2>7
    <3> QED BY <2>8, <3>1, <3>2
  <2>9. Len(a.plain) = la - from /\ \A k \in 1 .. la - from : a.plain[k] = f[from + k]
    BY <1>0, <2>6, <2>7, SliceFacts
  <2>10. Len(b.plain) = lb - from /\ \A k \in 1 .. lb - from : b.plain[k] = f[from + k]
    BY <1>0, <2>6, <2>7, SliceFacts
  <2>11. \A k \in 1 .. lb - from : k \in 1 .. la - from
    BY <2>6
  <2>12. \A k \in 1 .. Len(b.plain) : b.plain[k] = a.plain[k]
    BY <2>9, <2>10, <2>11
  <2>13. Len(b.plain) <= Len(a.plain) /\ Len(b.plain) >= Len(a.plain) - 1
    BY <2>6, <2>9, <2>10
  <2>14. b.plain = SubSeq(a.plain, 1, Len(b.plain))
    BY <1>t, <2>12, <2>13, PrefixIs DEF a, b
  <2> QED BY <1>t, <2>8, <2>8a, <2>13, <2>14 DEF a, b
<1>4. (a = none /\ b = none) \/ f[from].kind = "packed" \/ (f[from].kind = "stored" /\ f[from].x = "ok")
  BY DEF Inflate
<1> QED BY <1>1, <1>2, <1>3, <1>4

\* Two files that differ in their first cell inflate to the same behind it.
LEMMA SameTail ==
  ASSUME NEW f, NEW g, IsStream(f), IsStream(g), Len(g) = Len(f),
         \A i \in 2 .. Len(f) : g[i] = f[i],
         NEW from \in Nat, from >= 2, NEW to \in Nat, to <= Len(f)
  PROVE  Inflate(g, from, to) = Inflate(f, from, to)
<1>0. Len(f) \in Nat /\ IsSeq(f) /\ IsSeq(g)
  BY SeqOfElements DEF IsStream
<1>1. CASE from > to
  BY <1>1 DEF Inflate
<1>2. CASE ~(from > to)
  <2>1. from \in 1 .. Len(f) /\ from \in 2 .. Len(f) /\ g[from] = f[from]
    BY <1>0, <1>2
  <2>2. CASE f[from].kind = "packed"
    <3>1. IsSeq(f[from].of)
      BY <2>1, <2>2 DEF IsStream, IsCell
    <3> DEFINE n == PackedCells(f[from].of)
               len == Len(f[from].of)
    <3>2. \A k \in Nat \ {0} : Goes(g, from, to, k) <=> Goes(f, from, to, k)
      <4> TAKE k \in Nat \ {0}
      <4>1. from + k - 1 <= to => g[from + k - 1] = f[from + k - 1]
        BY <1>0
      <4> QED BY <2>1, <4>1 DEF Goes
    <3>3. \A i \in Nat : IsGood(g, from, to, i) <=> IsGood(f, from, to, i)
      <4> TAKE i \in Nat
      <4>1. i + 1 \in Nat \ {0} /\ \A k \in 1 .. i : k \in Nat \ {0}
        OBVIOUS
      <4> QED BY <2>1, <3>2, <4>1 DEF IsGood
    <3>4. Good(g, from, to) \in 0 .. n /\ IsGood(g, from, to, Good(g, from, to))
      BY <2>1, <3>1, GoodFacts
    <3>5. /\ n \in Nat /\ Good(f, from, to) \in 0 .. n /\ IsGood(f, from, to, Good(f, from, to))
          /\ \A h \in 0 .. n : IsGood(f, from, to, h) => h = Good(f, from, to)
      BY <3>1, GoodFacts
    <3>6. Good(g, from, to) = Good(f, from, to)
      <4> HIDE DEF n
      <4> QED BY <3>3, <3>4, <3>5
    <3> DEFINE h == Good(f, from, to)
               m == IF h > len THEN len ELSE h
    <3>7. \A k \in 1 .. m : g[from + k - 1] = f[from + k - 1]
      <4> TAKE k \in 1 .. m
      <4>1. len \in Nat /\ h \in Nat
        BY <3>1, <3>5, SeqOfElements
      <4>2. k \in 1 .. h
        BY <4>1
      <4>3. from + k - 1 <= to
        BY <3>5, <4>2 DEF IsGood, Goes
      <4>4. from + k - 1 \in 2 .. Len(f)
        <5> HIDE DEF h, m
        <5> QED BY <1>0, <4>1, <4>2, <4>3
      <4> QED BY <4>4
    <3>8. Unpacked(g, from, h) = Unpacked(f, from, h)
      BY <2>1, <3>7 DEF Unpacked
    <3>9. InflatePacked(g, from, to) = InflatePacked(f, from, to)
      BY <2>1, <3>6, <3>8, PackedIs
    <3> QED BY <1>2, <2>1, <2>2, <3>9 DEF Inflate
  <2>3. CASE f[from].kind = "stored" /\ f[from].x = "ok"
    <3>1. Len(f[from].of) \in Nat
      BY <2>1, <2>3, SeqOfElements DEF IsStream, IsCell
    <3> DEFINE end == from + Len(f[from].of)
               last == IF end <= to THEN end ELSE to
               x == SubSeq(f, from + 1, last)
               y == SubSeq(g, from + 1, last)
    <3>2. end \in Nat /\ last \in Nat /\ from <= last /\ last <= Len(f)
      BY <1>0, <1>2, <3>1
    <3> HIDE DEF end, last
    <3>3. IsSeq(x) /\ Len(x) = last - from /\ \A k \in 1 .. last - from : x[k] = f[from + k]
      BY <1>0, <3>2, SliceFacts
    <3>4. IsSeq(y) /\ Len(y) = last - from /\ \A k \in 1 .. last - from : y[k] = g[from + k]
      BY <1>0, <3>2, SliceFacts
    <3>5. \A k \in 1 .. last - from : g[from + k] = f[from + k]
      <4> TAKE k \in 1 .. last - from
      <4>1. from + k \in 2 .. Len(f)
        BY <1>0, <3>2
      <4> QED BY <4>1
    <3> HIDE DEF x, y
    <3>6. x = y
      BY <3>3, <3>4, <3>5, SameSeq
    <3>7. InflateStored(g, from, to) = InflateStored(f, from, to)
      BY <2>1, <3>6 DEF InflateStored, x, y, end, last
    <3> QED BY <1>2, <2>1, <2>3, <3>7 DEF Inflate
  <2>4. CASE ~(f[from].kind = "packed") /\ ~(f[from].kind = "stored" /\ f[from].x = "ok")
    BY <1>2, <2>1, <2>4 DEF Inflate
  <2> QED BY <2>2, <2>3, <2>4
<1> QED BY <1>1, <1>2

\* What GzEncoder writes of a content is a file without a defect that inflates to
\* it and has no other member.
LEMMA EncodedFacts ==
  ASSUME NEW of, IsSeq(of)
  PROVE  LET e == Encoded(of)
             n == PackedCells(of)
         IN  /\ n \in Nat /\ n >= 1 /\ IsSeq(e) /\ Len(e) = n + 2
             /\ e[1] = Fixed(0) /\ e[n + 2] = Trailer(of)
             /\ \A k \in 1 .. n : e[k + 1] = Packed(of, k)
<1> DEFINE e == Encoded(of)
           n == PackedCells(of)
           body == PackedBody(of)
           head == <<Fixed(0)>>
           tail == <<Trailer(of)>>
           S == {Fixed(0), Trailer(of)} \cup {Packed(of, k) : k \in 1 .. n}
<1>1. n \in Nat /\ n >= 1
  <2>1. of \in Seq(ElementsOf(of))
    BY SeqOfElements
  <2>2. \A x \in Seq(ElementsOf(of)) : Len(x) \in Nat /\ (Len(x) = 0 <=> x = << >>)
    OBVIOUS
  <2> QED BY <2>1, <2>2 DEF PackedCells
<1>2. body \in [1 .. n -> S] /\ \A k \in 1 .. n : body[k] = Packed(of, k)
  BY DEF PackedBody
<1>3. Fixed(0) \in S /\ Trailer(of) \in S
  OBVIOUS
<1>4. e = head \o body \o tail
  BY DEF Encoded
<1>5. head \in Seq(S) /\ Len(head) = 1 /\ head[1] = Fixed(0)
  <2> HIDE DEF S
  <2> QED BY <1>3
<1>6. tail \in Seq(S) /\ Len(tail) = 1 /\ tail[1] = Trailer(of)
  <2> HIDE DEF S
  <2> QED BY <1>3
<1> HIDE DEF n, body, head, tail, S, e
<1>7. body \in Seq(S) /\ Len(body) = n
  BY <1>1, <1>2, FunctionSeq
<1>8. \A x, y \in Seq(S) : /\ x \o y \in Seq(S) /\ Len(x \o y) = Len(x) + Len(y)
                           /\ \A i \in 1 .. Len(x) : (x \o y)[i] = x[i]
                           /\ \A i \in 1 .. Len(y) : (x \o y)[Len(x) + i] = y[i]
  OBVIOUS
<1> DEFINE c == head \o body
<1>9. c \in Seq(S) /\ Len(c) = n + 1 /\ c[1] = Fixed(0) /\ \A k \in 1 .. n : c[1 + k] = Packed(of, k)
  <2>1. /\ c \in Seq(S) /\ Len(c) = Len(head) + Len(body)
        /\ \A i \in 1 .. Len(head) : c[i] = head[i]
        /\ \A i \in 1 .. Len(body) : c[Len(head) + i] = body[i]
    BY <1>5, <1>7, <1>8
  <2> HIDE DEF c
  <2>2. Len(c) = n + 1 /\ 1 \in 1 .. Len(head)
    BY <1>1, <1>5, <1>7, <2>1
  <2> QED BY <1>2, <1>5, <1>7, <2>1, <2>2
<1> HIDE DEF c
<1>10. e = c \o tail
  BY <1>4 DEF c
<1>11. /\ e \in Seq(S) /\ Len(e) = n + 1 + 1
       /\ \A i \in 1 .. n + 1 : e[i] = c[i]
       /\ e[n + 1 + 1] = Trailer(of)
  <2>1. /\ e \in Seq(S) /\ Len(e) = Len(c) + Len(tail)
        /\ \A i \in 1 .. Len(c) : e[i] = c[i]
        /\ \A i \in 1 .. Len(tail) : e[Len(c) + i] = tail[i]
    BY <1>6, <1>8, <1>9, <1>10
  <2>2. 1 \in 1 .. Len(tail)
    BY <1>6
  <2> QED BY <1>6, <1>9, <2>1, <2>2
<1>12. IsSeq(e)
  BY <1>11, SeqIsSeq
<1>13. n + 1 + 1 = n + 2 /\ 1 \in 1 .. n + 1 /\ \A k \in 1 .. n : k + 1 \in 1 .. n + 1 /\ 1 + k = k + 1
  BY <1>1
<1>14. e[1] = Fixed(0) /\ \A k \in 1 .. n : e[k + 1] = Packed(of, k)
  BY <1>9, <1>11, <1>13
<1> QED BY <1>1, <1>11, <1>12, <1>13, <1>14 DEF n, e

LEMMA EncodedInflates ==
  ASSUME NEW of, IsSeq(of), NEW to \in {PackedCells(of) + 1, PackedCells(of) + 2}
  PROVE  /\ IsStream(Encoded(of))
         /\ Inflate(Encoded(of), 2, to) = [ok |-> TRUE, plain |-> of, next |-> PackedCells(of) + 2]
<1> DEFINE e == Encoded(of)
           n == PackedCells(of)
<1>1. /\ n \in Nat /\ n >= 1 /\ IsSeq(e) /\ Len(e) = n + 2
      /\ e[1] = Fixed(0) /\ e[n + 2] = Trailer(of)
      /\ \A k \in 1 .. n : e[k + 1] = Packed(of, k)
  BY EncodedFacts
<1>2. n = (IF of = << >> THEN 1 ELSE Len(of)) /\ Len(of) \in Nat /\ (of = << >> => Len(of) = 0)
  BY SeqOfElements DEF PackedCells
<1>3. to = n + 1 \/ to = n + 2
  OBVIOUS
<1> HIDE DEF e, n
<1>4. IsStream(e)
  <2>1. ASSUME NEW p \in 1 .. n + 2 PROVE IsCell(e[p])
    <3>1. CASE p = 1
      <4>1. Fixed(0) \in [kind : {"fixed"}, magic : BOOLEAN, cm : BOOLEAN, extra : Nat]
        BY DEF Fixed
      <4>2. e[p] \in [kind : {"fixed"}, magic : BOOLEAN, cm : BOOLEAN, extra : Nat]
        BY <1>1, <3>1, <4>1
      <4> QED BY <4>2, Zenon DEF IsCell
    <3>2. CASE p = n + 2
      <4>1. e[p] = [kind |-> "trailer", crc |-> of, isize |-> Bytes(of)]
        BY <1>1, <3>2 DEF Trailer
      <4>2. e[p].kind = "trailer" /\ e[p].crc = of /\ e[p].isize = Bytes(of)
        BY <4>1
      <4>3. e[p] = [kind |-> "trailer", crc |-> e[p].crc, isize |-> e[p].isize]
        BY <4>1, <4>2, Zenon
      <4> QED BY <4>2, <4>3 DEF IsCell
    <3>3. CASE p # 1 /\ p # n + 2
      <4>1. p - 1 \in 1 .. n /\ p - 1 + 1 = p
        BY <1>1, <3>3
      <4>2. e[p] = Packed(of, p - 1)
        BY <1>1, <4>1
      <4> QED BY <4>2 DEF IsCell, Packed
    <3> QED BY <3>1, <3>2, <3>3
  <2>2. e[1].kind = "fixed" /\ Len(e) > 0
    BY <1>1 DEF Fixed
  <2> QED BY <1>1, <2>1, <2>2 DEF IsStream
<1>5. e[2] = Packed(of, 1) /\ e[2].of = of /\ e[2].kind = "packed" /\ ~(2 > to)
  <2>1. 1 \in 1 .. n /\ 1 + 1 = 2
    BY <1>1
  <2>2. e[2] = Packed(of, 1)
    BY <1>1, <2>1
  <2>3. ~(2 > to)
    BY <1>1, <1>3
  <2> QED BY <2>2, <2>3 DEF Packed
<1>6. \A k \in 1 .. n : Goes(e, 2, to, k)
  <2> TAKE k \in 1 .. n
  <2>1. 2 + k - 1 = k + 1 /\ k + 1 <= to
    BY <1>1, <1>3
  <2>2. e[2 + k - 1] = Packed(of, k)
    BY <1>1, <2>1
  <2>3. Packed(of, k) = [Packed(of, k) EXCEPT !.x = "ok"]
    BY DEF Packed
  <2>4. e[2 + k - 1] = [Packed(e[2].of, k) EXCEPT !.x = "ok"]
    BY <1>5, <2>2, <2>3
  <2>5. 2 + k - 1 <= to
    BY <2>1
  <2> QED BY <2>4, <2>5 DEF Goes
<1>7. Good(e, 2, to) = n
  <2>1. IsGood(e, 2, to, n) /\ n \in 0 .. n
    BY <1>1, <1>5, <1>6 DEF IsGood, n
  <2>2. to \in Nat
    BY <1>1, <1>3
  <2>3. \A h \in 0 .. n : IsGood(e, 2, to, h) => h = Good(e, 2, to)
    BY <1>5, <2>2, GoodFacts DEF n
  <2> QED BY <2>1, <2>3
<1>8. Unpacked(e, 2, n) = of
  <2> DEFINE u == Unpacked(e, 2, n)
             m == IF n > Len(of) THEN Len(of) ELSE n
  <2>1. m = Len(of)
    BY <1>1, <1>2
  <2>2. /\ IsSeq(u) /\ Len(u) = m
        /\ \A k \in 1 .. m : u[k] = IF e[2 + k - 1].x = "ok" THEN of[k] ELSE Wrong
    <3> DEFINE l == Len(e[2].of)
               ml == IF n > l THEN l ELSE n
    <3>1. IsSeq(e[2].of) /\ n \in Nat /\ ml = m
      BY <1>1, <1>5
    <3>2. /\ IsSeq(u) /\ Len(u) = ml
          /\ \A k \in 1 .. ml : u[k] = IF e[2 + k - 1].x = "ok" THEN e[2].of[k] ELSE Wrong
      BY <3>1, UnpackedFacts
    <3> QED BY <1>5, <3>1, <3>2
  <2>3. \A k \in 1 .. m : e[2 + k - 1].x = "ok"
    <3> TAKE k \in 1 .. m
    <3>1. k \in 1 .. n /\ 2 + k - 1 = k + 1
      BY <1>1, <1>2
    <3>2. e[2 + k - 1] = Packed(of, k)
      BY <1>1, <3>1
    <3> QED BY <3>2 DEF Packed
  <2> HIDE DEF u, m
  <2>4. IsSeq(u) /\ Len(u) = Len(of) /\ \A k \in 1 .. Len(u) : u[k] = of[k]
    BY <2>1, <2>2, <2>3
  <2>5. u = of
    BY <2>4, SameSeq, Zenon
  <2> QED BY <2>5 DEF u
<1>9. Inflate(e, 2, to) = [ok |-> TRUE, plain |-> of, next |-> n + 2]
  <2>1. Inflate(e, 2, to) = InflatePacked(e, 2, to)
    BY <1>5 DEF Inflate
  <2>2. InflatePacked(e, 2, to) =
          [ok |-> Good(e, 2, to) = PackedCells(e[2].of), plain |-> Unpacked(e, 2, Good(e, 2, to)),
           next |-> 2 + Good(e, 2, to)]
    BY PackedIs
  <2>3. (Good(e, 2, to) = PackedCells(e[2].of)) = TRUE /\ 2 + n = n + 2
    BY <1>1, <1>5, <1>7 DEF n
  <2> QED BY <1>7, <1>8, <2>1, <2>2, <2>3
<1> QED BY <1>4, <1>9 DEF e, n

\* It has no defect, and starts as a gzip file.
LEMMA EncodedClean ==
  ASSUME NEW of, IsSeq(of)
  PROVE  GzDefects(Encoded(of)) = << >> /\ StartsAsGzip(Encoded(of))
<1> DEFINE e == Encoded(of)
           n == PackedCells(of)
           r == [ok |-> TRUE, plain |-> of, next |-> n + 2]
<1>1. /\ n \in Nat /\ n >= 1 /\ IsSeq(e) /\ Len(e) = n + 2
      /\ e[1] = Fixed(0) /\ e[n + 2] = Trailer(of)
  BY EncodedFacts
<1>2. Inflate(e, 2, n + 1) = r
  BY EncodedInflates
<1> HIDE DEF e, n
<1>3. e[1].kind = "fixed" /\ e[1].magic = TRUE /\ e[1].cm = TRUE /\ e[1].extra = 0
  BY <1>1 DEF Fixed
<1>4. BodyStart(e) = 2 /\ Len(e) - 1 = n + 1
  BY <1>1, <1>3 DEF BodyStart
<1>5. ~(Bytes(e) < GZ_MIN_SIZE)
  <2>1. e[n + 2].kind = "trailer" /\ n + 2 \in 2 .. Len(e) /\ Len(e) \in Nat
    BY <1>1 DEF Trailer
  <2>2. Bytes(e) \in Nat /\ Bytes(e) >= GZ_MIN_SIZE
    BY <1>3, <2>1, BytesFacts
  <2> QED BY <2>2 DEF GZ_MIN_SIZE
<1>6. TrailerDefects(e, of) = << >>
  <2>1. e[Len(e)] = Trailer(of)
    BY <1>1
  <2>2. Vouches(e[Len(e)], of) /\ Counts(e[Len(e)], of)
    BY <2>1 DEF Trailer, Vouches, Counts
  <2>3. << >> \o << >> = << >>
    OBVIOUS
  <2> QED BY <2>2, <2>3 DEF TrailerDefects
<1>7. Inflate(e, BodyStart(e), Len(e) - 1) = r
  BY <1>2, <1>4
<1>8. r.ok = TRUE /\ r.plain = of
  OBVIOUS
<1>9. GzDefects(e) = << >> \o TrailerDefects(e, of)
  BY <1>3, <1>5, <1>7, <1>8 DEF GzDefects
<1>10. << >> \o << >> = << >>
  OBVIOUS
<1>11. GzDefects(e) = << >>
  BY <1>6, <1>9, <1>10
<1> QED BY <1>3, <1>11 DEF e, StartsAsGzip

-----------------------------------------------------------------------------
\* Proven members.

\* A member that the salvage proves is a proven one, and ends behind its start.
LEMMA ProvenFacts ==
  ASSUME NEW f, IsStream(f), NEW p \in 1 .. Len(f)
  PROVE  /\ p \in ProvenMembers(f) <=> IsStart(f[p]) /\ Proven(f, p)
         /\ p \in ProvenMembers(f) =>
              /\ f[p].kind = "fixed" /\ f[p].extra \in Nat
              /\ IsSeq(PlainOf(f, p)) /\ InflateMember(f, p).ok
              /\ InflateMember(f, p).next \in p + 1 .. Len(f)
              /\ f[InflateMember(f, p).next] = Trailer(PlainOf(f, p))
<1> DEFINE m == InflateMember(f, p)
<1>0. Len(f) \in Nat /\ DOMAIN f = 1 .. Len(f)
  BY SeqOfElements DEF IsStream
<1>1. ASSUME HasHeader(f, p)
      PROVE  /\ f[p].kind = "fixed" /\ f[p].extra \in Nat /\ m.ok \in BOOLEAN
             /\ IsSeq(m.plain) /\ m.next \in Nat /\ m.next > p
  <2>1. f[p].kind = "fixed" /\ f[p].extra \in Nat
    BY <1>1 DEF HasHeader, IsStream, IsCell
  <2> DEFINE b == MemberBody(f, p)
  <2>2. b \in Nat \ {0} /\ b > p
    BY <2>1 DEF MemberBody
  <2>3. m = Inflate(f, b, Len(f))
    BY DEF InflateMember
  <2> HIDE DEF b, m
  <2>4. m.ok \in BOOLEAN /\ IsSeq(m.plain) /\ m.next \in Nat /\ m.next >= b
    BY <1>0, <2>2, <2>3, InflateType
  <2>5. m.next > p
    BY <2>2, <2>4
  <2> QED BY <2>1, <2>4, <2>5 DEF m
<1>2. ASSUME HasHeader(f, p), m.next <= Len(f)
      PROVE  Vouches(f[m.next], m.plain) /\ Counts(f[m.next], m.plain) <=> f[m.next] = Trailer(m.plain)
  <2> DEFINE c == f[m.next]
             plain == m.plain
  <2>1. m.next \in 1 .. Len(f)
    BY <1>0, <1>1, <1>2
  <2>2. IsCell(c)
    BY <2>1 DEF IsStream
  <2> HIDE DEF c, plain
  <2>3. c.kind = "trailer" => c = [kind |-> "trailer", crc |-> c.crc, isize |-> c.isize]
    BY <2>2 DEF IsCell
  <2>4. Vouches(c, plain) /\ Counts(c, plain) => c = Trailer(plain)
    <3> SUFFICES ASSUME c.kind = "trailer", c.crc = plain, c.isize = Bytes(plain) PROVE c = Trailer(plain)
      BY DEF Vouches, Counts
    <3> QED BY <2>3, Zenon DEF Trailer
  <2>5. c = Trailer(plain) => Vouches(c, plain) /\ Counts(c, plain)
    BY DEF Vouches, Counts, Trailer
  <2> QED BY <2>4, <2>5 DEF c, plain
<1> HIDE DEF m
<1>3. Proven(f, p) <=> /\ HasHeader(f, p) /\ m.ok /\ m.next <= Len(f)
                       /\ Vouches(f[m.next], m.plain) /\ Counts(f[m.next], m.plain)
  BY DEF Proven, m
<1>4. p \in ProvenMembers(f) <=> /\ IsStart(f[p]) /\ HasHeader(f, p)
                                 /\ m.ok /\ m.next <= Len(f) /\ f[m.next] = Trailer(m.plain)
  BY <1>0 DEF ProvenMembers, m
<1>5. p \in ProvenMembers(f) <=> IsStart(f[p]) /\ Proven(f, p)
  BY <1>2, <1>3, <1>4
<1>6. ASSUME p \in ProvenMembers(f)
      PROVE  /\ f[p].kind = "fixed" /\ f[p].extra \in Nat /\ IsSeq(m.plain) /\ m.ok
             /\ m.next \in p + 1 .. Len(f) /\ f[m.next] = Trailer(m.plain)
  BY <1>0, <1>1, <1>4, <1>6
<1>7. PlainOf(f, p) = m.plain
  BY DEF PlainOf, m
<1> QED BY <1>5, <1>6, <1>7 DEF m

\* The outermost members are well defined.
LEMMA OutermostIs ==
  ASSUME NEW f, IsStream(f), NEW ps \in SUBSET ProvenMembers(f), ps = Outside(f, ps)
  PROVE  Outermost(f) = ps
<1> DEFINE End(q) == InflateMember(f, q).next
<1>0. ProvenMembers(f) \subseteq Nat
  <2>1. Len(f) \in Nat /\ DOMAIN f = 1 .. Len(f)
    BY SeqOfElements DEF IsStream
  <2> QED BY <2>1 DEF ProvenMembers
<1>1. ASSUME NEW qs \in SUBSET ProvenMembers(f), qs = Outside(f, qs) PROVE qs = ps
  <2> DEFINE differ == {p \in ProvenMembers(f) : ~(p \in ps <=> p \in qs)}
  <2>1. ASSUME differ # {} PROVE FALSE
    <3>1. PICK m \in differ : \A k \in differ : m <= k
      BY <1>0, <2>1, LeastElement
    <3>2. m \in ProvenMembers(f) /\ m \in Nat /\ ~(m \in ps <=> m \in qs)
      BY <1>0
    <3>3. \A q \in ProvenMembers(f) : q < m => (q \in ps <=> q \in qs)
      <4> SUFFICES ASSUME NEW q \in ProvenMembers(f), q < m, ~(q \in ps <=> q \in qs) PROVE FALSE
        OBVIOUS
      <4>1. m <= q /\ q \in Nat
        BY <1>0, <3>1
      <4> QED BY <3>2, <4>1
    <3>4. m \in ps <=> \A q \in ps : q < m => End(q) < m
      BY <3>2 DEF Outside
    <3>5. m \in qs <=> \A q \in qs : q < m => End(q) < m
      BY <1>1, <3>2 DEF Outside
    <3> HIDE DEF End
    <3> QED BY <3>2, <3>3, <3>4, <3>5
  <2>2. \A p \in ProvenMembers(f) : p \in ps <=> p \in qs
    BY <2>1
  <2> QED BY <2>2
<1>2. Outermost(f) \in SUBSET ProvenMembers(f) /\ Outermost(f) = Outside(f, Outermost(f))
  BY DEF Outermost
<1> QED BY <1>1, <1>2

LEMMA NextStartFacts ==
  ASSUME NEW f, Len(f) \in Nat, NEW p \in 1 .. Len(f)
  PROVE  /\ NextStart(f, p) \in p + 1 .. Len(f) + 1
         /\ \A r \in p + 1 .. NextStart(f, p) - 1 : ~IsStart(f[r])
<1> DEFINE n == Len(f)
           Fits(q) == /\ q = n + 1 \/ IsStart(f[q])
                      /\ \A r \in p + 1 .. q - 1 : ~IsStart(f[r])
           ends == {q \in p + 1 .. n + 1 : q = n + 1 \/ IsStart(f[q])}
<1>1. n \in Nat /\ p \in 1 .. n
  OBVIOUS
<1> HIDE DEF n
<1>2. ends \subseteq Nat /\ n + 1 \in ends
  BY <1>1
<1>3. PICK q \in ends : \A k \in ends : q <= k
  BY <1>2, LeastElement
<1>4. ASSUME NEW r \in p + 1 .. q - 1 PROVE ~IsStart(f[r])
  <2>1. r \in p + 1 .. n + 1 /\ ~(q <= r)
    BY <1>1, <1>2, <1>3
  <2> QED BY <1>3, <2>1
<1>5. q \in p + 1 .. n + 1 /\ Fits(q)
  BY <1>4
<1>6. NextStart(f, p) = CHOOSE x \in p + 1 .. n + 1 : Fits(x)
  BY DEF NextStart, n
<1>7. NextStart(f, p) \in p + 1 .. n + 1 /\ Fits(NextStart(f, p))
  <2> HIDE DEF Fits
  <2> QED BY <1>5, <1>6
<1> QED BY <1>7 DEF n

\* What salvage_gzip takes are exactly the outermost proven members.
SalvagedMembers(f) == {p \in SalvageStarts(f) : Proven(f, p)}

LEMMA SalvageTakesOutermost ==
  ASSUME NEW f, IsStream(f)
  PROVE  SalvagedMembers(f) = Outermost(f) /\ SalvagedMembers(f) \subseteq ProvenMembers(f)
<1> DEFINE n == Len(f)
           m == Len(f) + 1
           End(p) == InflateMember(f, p).next
           own == [p \in 1 .. n |-> IF IsStart(f[p]) THEN {p} ELSE {}]
           go == [p \in 1 .. n |-> TRUE]
           next == [p \in 1 .. n |-> IF ~IsStart(f[p]) THEN p + 1
                                     ELSE IF Proven(f, p) THEN End(p) + 1 ELSE NextStart(f, p)]
           Found(w) == [p \in 1 .. m |->
                          IF p > n THEN {}
                          ELSE IF ~IsStart(f[p]) THEN w[p + 1]
                          ELSE IF Proven(f, p) THEN {p} \cup w[End(p) + 1]
                          ELSE {p} \cup w[NextStart(f, p)]]
           On(w) == [p \in 1 .. m |->
                       IF p > n THEN {} ELSE own[p] \cup (IF go[p] THEN w[next[p]] ELSE {})]
           walk == CHOOSE w : w = Found(w)
           W == SalvagedMembers(f)
<1>1. n \in Nat /\ m \in Nat /\ m = n + 1 /\ 1 \in 1 .. m /\ DOMAIN f = 1 .. n
  BY SeqOfElements DEF IsStream
<1>2. SalvageStarts(f) = walk[1]
  BY DEF SalvageStarts
<1>3. \A p \in 1 .. n : Proven(f, p) /\ IsStart(f[p]) => p \in ProvenMembers(f) /\ End(p) \in p + 1 .. n
  BY ProvenFacts
<1>4. \A p \in 1 .. n : /\ NextStart(f, p) \in p + 1 .. m
                        /\ \A r \in p + 1 .. NextStart(f, p) - 1 : ~IsStart(f[r])
  BY <1>1, NextStartFacts
<1>5. \A p \in ProvenMembers(f) : p \in 1 .. n /\ IsStart(f[p]) /\ Proven(f, p)
  <2>1. ProvenMembers(f) \subseteq 1 .. n
    BY <1>1 DEF ProvenMembers
  <2> QED BY <2>1, ProvenFacts
<1> HIDE DEF n, m, End
<1>6. \A p \in 1 .. n : /\ own[p] = (IF IsStart(f[p]) THEN {p} ELSE {}) /\ go[p] = TRUE
                        /\ next[p] = IF ~IsStart(f[p]) THEN p + 1
                                     ELSE IF Proven(f, p) THEN End(p) + 1 ELSE NextStart(f, p)
  OBVIOUS
<1> HIDE DEF own, go, next
<1>a. \A p \in 1 .. n : /\ ~IsStart(f[p]) => next[p] = p + 1
                        /\ IsStart(f[p]) /\ Proven(f, p) => next[p] = End(p) + 1
                        /\ IsStart(f[p]) /\ ~Proven(f, p) => next[p] = NextStart(f, p)
  BY <1>6, Zenon
<1>7. \A p \in 1 .. n : /\ own[p] = {} \/ own[p] = {p}
                        /\ go[p] /\ next[p] \in p + 1 .. m /\ (own[p] = {} => next[p] = p + 1)
  <2> TAKE p \in 1 .. n
  <2>1. own[p] = {} \/ own[p] = {p}
    BY <1>6
  <2>2. own[p] = {} => ~IsStart(f[p])
    BY <1>6
  <2>3. next[p] \in p + 1 .. m
    <3>1. CASE ~IsStart(f[p])
      BY <1>1, <1>a, <3>1
    <3>2. CASE IsStart(f[p]) /\ Proven(f, p)
      <4>1. next[p] = End(p) + 1 /\ End(p) \in p + 1 .. n
        BY <1>3, <1>a, <3>2
      <4> QED BY <1>1, <4>1
    <3>3. CASE IsStart(f[p]) /\ ~Proven(f, p)
      BY <1>4, <1>6, <3>3
    <3> QED BY <3>1, <3>2, <3>3
  <2> QED BY <1>6, <2>1, <2>2, <2>3
<1>8. \A w : Found(w) = On(w)
  <2> SUFFICES ASSUME NEW w, NEW p \in 1 .. m, ~(p > n)
               PROVE  (IF ~IsStart(f[p]) THEN w[p + 1]
                       ELSE IF Proven(f, p) THEN {p} \cup w[End(p) + 1]
                       ELSE {p} \cup w[NextStart(f, p)])
                        = own[p] \cup (IF go[p] THEN w[next[p]] ELSE {})
    OBVIOUS
  <2>1. p \in 1 .. n
    BY <1>1
  <2> QED BY <1>6, <2>1
<1>9. \E w : Walk(w, n, m, own, go, next)
  <2>1. \A p \in 1 .. n : go[p] => next[p] \in p + 1 .. m
    BY <1>7
  <2> QED BY <1>1, <2>1, WalkExists
<1>10. PICK v : v = On(v)
  BY <1>9 DEF Walk
<1> HIDE DEF Found
<1>11. v = Found(v)
  <2> HIDE DEF On
  <2> QED BY <1>8, <1>10
<1>12. walk = Found(walk)
  BY <1>11
<1> HIDE DEF walk
<1>13. walk = On(walk)
  <2> HIDE DEF On
  <2> QED BY <1>8, <1>12
<1>14. Walk(walk, n, m, own, go, next) /\ WalksOn(n, m, own, go, next)
  BY <1>7, <1>13 DEF Walk, WalksOn
<1> HIDE DEF On
<1>15. /\ \A p \in walk[1] : p \in 1 .. n /\ own[p] = {p}
       /\ \A q \in walk[1], p \in walk[1] : q < p => next[q] <= p
       /\ \A p \in 1 .. n : own[p] = {p} /\ p \notin walk[1] => \E q \in walk[1] : q < p /\ p < next[q]
  <2>1. \A x \in 1 .. m :
           /\ \A p \in walk[x] : p \in x .. n /\ own[p] = {p}
           /\ \A q \in walk[x], p \in walk[x] : q < p => next[q] <= p
           /\ \A p \in x .. n : own[p] = {p} /\ p \notin walk[x] => \E q \in walk[x] : q < p /\ p < next[q]
    BY <1>1, <1>14, WalkOrder
  <2> QED BY <1>1, <2>1, Zenon
<1>16. W \subseteq ProvenMembers(f)
  <2> SUFFICES ASSUME NEW p \in W PROVE p \in ProvenMembers(f)
    OBVIOUS
  <2>1. p \in walk[1] /\ Proven(f, p)
    BY <1>2 DEF SalvagedMembers
  <2>2. p \in 1 .. n /\ IsStart(f[p])
    BY <1>6, <1>15, <2>1
  <2> QED BY <1>3, <2>1, <2>2
<1>17. \A q \in walk[1] : IsStart(f[q]) /\ (Proven(f, q) => q \in W)
  <2> TAKE q \in walk[1]
  <2>1. q \in 1 .. n /\ own[q] = {q}
    BY <1>15, Zenon
  <2>2. IsStart(f[q])
    BY <1>6, <2>1
  <2>3. Proven(f, q) => q \in W
    BY <1>2 DEF SalvagedMembers
  <2> QED BY <2>2, <2>3
<1>18. W = Outside(f, W)
  <2>1. ASSUME NEW p \in W PROVE p \in Outside(f, W)
    <3>1. p \in ProvenMembers(f)
      BY <1>16
    <3>2. ASSUME NEW q \in W, q < p PROVE End(q) < p
      <4>1. q \in walk[1] /\ p \in walk[1] /\ Proven(f, q)
        BY <1>2 DEF SalvagedMembers
      <4>2. q \in 1 .. n /\ IsStart(f[q]) /\ p \in 1 .. n
        BY <1>15, <1>17, <4>1
      <4>a. next[q] = End(q) + 1 /\ End(q) \in q + 1 .. n
        BY <1>3, <1>a, <4>1, <4>2
      <4>3. next[q] = End(q) + 1 /\ End(q) \in Nat
        BY <1>1, <4>2, <4>a
      <4>4. next[q] <= p
        BY <1>15, <3>2, <4>1
      <4> QED BY <4>2, <4>3, <4>4
    <3> QED BY <3>1, <3>2 DEF Outside, End
  <2>2. ASSUME NEW p \in Outside(f, W) PROVE p \in W
    <3>1. p \in ProvenMembers(f) /\ \A q \in W : q < p => End(q) < p
      BY DEF Outside, End
    <3>2. p \in 1 .. n /\ IsStart(f[p]) /\ Proven(f, p) /\ own[p] = {p}
      BY <1>5, <1>6, <3>1
    <3>3. ASSUME p \notin walk[1] PROVE FALSE
      <4>1. PICK q \in walk[1] : q < p /\ p < next[q]
        BY <1>15, <3>2, <3>3
      <4>2. q \in 1 .. n /\ IsStart(f[q])
        BY <1>15, <1>17
      <4>3. CASE Proven(f, q)
        <5>a. q \in W
          BY <1>17, <4>3
        <5>b. End(q) < p
          BY <3>1, <4>1, <5>a
        <5>c. next[q] = End(q) + 1 /\ End(q) \in q + 1 .. n
          BY <1>3, <1>a, <4>2, <4>3
        <5>1. End(q) < p /\ next[q] = End(q) + 1 /\ End(q) \in Nat
          BY <1>1, <4>2, <5>b, <5>c
        <5> QED BY <3>2, <4>1, <5>1
      <4>4. CASE ~Proven(f, q)
        <5>a. next[q] = NextStart(f, q)
          BY <1>a, <4>2, <4>4
        <5>b. next[q] \in q + 1 .. m
          BY <1>7, <4>2
        <5>1. next[q] = NextStart(f, q) /\ next[q] \in Nat
          BY <1>1, <4>2, <5>a, <5>b
        <5>2. p \in q + 1 .. NextStart(f, q) - 1
          BY <1>1, <3>2, <4>1, <4>2, <5>1
        <5> QED BY <1>4, <3>2, <4>2, <5>2
      <4> QED BY <4>3, <4>4
    <3> QED BY <1>17, <3>2, <3>3
  <2> QED BY <2>1, <2>2
<1>19. Outermost(f) = W
  <2> HIDE DEF W
  <2> QED BY <1>16, <1>18, OutermostIs
<1> QED BY <1>16, <1>19

-----------------------------------------------------------------------------
\* The content of a file.

Piece(f, p) == IF p \in Outermost(f) THEN PlainOf(f, p) ELSE << >>

\* Where the content of each member stands in the whole.
Places(f, at) ==
  /\ at \in [0 .. Len(f) -> Nat] /\ at[0] = 0
  /\ \A p \in 1 .. Len(f) :
       /\ at[p] = at[p - 1] + Len(Piece(f, p)) /\ at[p] <= Len(ReadableContent(f))
       /\ \A k \in 1 .. Len(Piece(f, p)) : ReadableContent(f)[at[p - 1] + k] = Piece(f, p)[k]
  /\ \A i \in 1 .. Len(ReadableContent(f)) :
       \E p \in 1 .. Len(f) : i - at[p - 1] \in 1 .. Len(Piece(f, p))

LEMMA ContentFacts ==
  ASSUME NEW f, IsStream(f)
  PROVE  /\ Outermost(f) \subseteq ProvenMembers(f)
         /\ \A p \in 1 .. Len(f) : IsSeq(Piece(f, p))
         /\ IsSeq(ReadableContent(f))
         /\ \E at : Places(f, at)
         /\ SalvagedPlain(f) = ReadableContent(f)
<1> DEFINE n == Len(f)
           P(p) == Piece(f, p)
           ss == [p \in 1 .. n |-> P(p)]
           S == UNION {ElementsOf(P(p)) : p \in 1 .. n}
           all == FlattenSeq(ss)
<1>1. n \in Nat /\ n >= 1 /\ DOMAIN f = 1 .. n
  BY SeqOfElements DEF IsStream
<1>2. SalvagedMembers(f) = Outermost(f) /\ Outermost(f) \subseteq ProvenMembers(f)
  BY SalvageTakesOutermost
<1>3. \A p \in 1 .. n : IsSeq(P(p))
  <2> TAKE p \in 1 .. n
  <2>1. CASE p \in Outermost(f)
    BY <1>2, <2>1, ProvenFacts DEF Piece
  <2>2. CASE p \notin Outermost(f)
    <3>1. << >> \in Seq({})
      OBVIOUS
    <3> QED BY <2>2, <3>1, SeqIsSeq DEF Piece
  <2> QED BY <2>1, <2>2
<1>4. ReadableContent(f) = all
  BY <1>1 DEF ReadableContent, Piece
<1>5. SalvagedPlain(f) = all
  <2>1. SalvagedPlain(f) = FlattenSeq([p \in 1 .. n |-> IF p \in SalvagedMembers(f) THEN PlainOf(f, p) ELSE << >>])
    BY <1>1 DEF SalvagedPlain, SalvagedMembers, PlainOf
  <2> QED BY <1>2, <2>1 DEF Piece
<1> HIDE DEF n, P
<1>6. \A p \in 1 .. n : P(p) \in Seq(S) /\ Len(P(p)) \in Nat
  <2> TAKE p \in 1 .. n
  <2>1. P(p) \in Seq(ElementsOf(P(p))) /\ Len(P(p)) \in Nat
    BY <1>3, SeqOfElements
  <2>2. ElementsOf(P(p)) \subseteq S
    OBVIOUS
  <2> HIDE DEF S
  <2> QED BY <2>1, <2>2
<1> HIDE DEF S
<1>7. ss \in [1 .. n -> Seq(S)] /\ \A p \in 1 .. n : ss[p] = P(p)
  BY <1>6
<1> HIDE DEF ss
<1>8. ss \in Seq(Seq(S)) /\ Len(ss) = n /\ ss # << >>
  <2>1. ss \in Seq(Seq(S)) /\ Len(ss) = n
    BY <1>1, <1>7, FunctionSeq
  <2> QED BY <1>1, <2>1
<1>9. all \in Seq(S) /\ Len(all) \in Nat
  BY <1>8, FlattenType
<1>10. PICK at : Spread(at, ss)
  BY <1>8, FlattenPlaces
<1>11. /\ at \in [0 .. n -> Nat] /\ at[0] = 0 /\ at[n] = Len(all)
       /\ \A p \in 1 .. n : /\ at[p] = at[p - 1] + Len(P(p)) /\ at[p] <= Len(all)
                            /\ \A k \in 1 .. Len(P(p)) : all[at[p - 1] + k] = P(p)[k]
  BY <1>7, <1>8, <1>10 DEF Spread
<1> HIDE DEF all
<1>12. ASSUME NEW i \in 1 .. Len(all)
       PROVE  \E p \in 1 .. n : i - at[p - 1] \in 1 .. Len(P(p))
  <2> DEFINE behind == {p \in 1 .. n : i <= at[p]}
  <2>1. behind \subseteq Nat /\ n \in behind
    BY <1>1, <1>9, <1>11
  <2>2. PICK p \in behind : \A q \in behind : p <= q
    BY <2>1, LeastElement
  <2>3. p \in 1 .. n /\ i <= at[p]
    OBVIOUS
  <2>4. p - 1 \in 0 .. n /\ at[p - 1] \in Nat /\ at[p] \in Nat
    BY <1>1, <1>11, <2>3
  <2>5. at[p - 1] < i
    <3>1. CASE p = 1
      <4>1. p - 1 = 0
        BY <3>1
      <4> QED BY <1>11, <4>1
    <3>2. CASE p # 1
      <4>1. p - 1 \in 1 .. n /\ ~(p <= p - 1)
        BY <1>1, <2>3, <3>2
      <4>2. p - 1 \notin behind
        <5> HIDE DEF behind
        <5> QED BY <2>2, <4>1
      <4>3. ~(i <= at[p - 1])
        BY <4>1, <4>2
      <4> QED BY <2>4, <4>3
    <3> QED BY <3>1, <3>2
  <2>6. at[p] = at[p - 1] + Len(P(p)) /\ Len(P(p)) \in Nat
    BY <1>6, <1>11, <2>3
  <2> DEFINE a == at[p - 1]
             b == at[p]
             c == Len(P(p))
  <2>7. a \in Nat /\ b \in Nat /\ c \in Nat /\ b = a + c /\ a < i /\ i <= b /\ i \in Nat
    BY <1>9, <2>3, <2>4, <2>5, <2>6
  <2> HIDE DEF a, b, c
  <2>8. i - a \in 1 .. c
    BY <2>7
  <2> QED BY <2>3, <2>8 DEF a, c
<1>13. IsSeq(all)
  BY <1>9, SeqIsSeq
<1>14. Places(f, at)
  BY <1>4, <1>11, <1>12 DEF Places, n, P
<1> QED BY <1>2, <1>3, <1>4, <1>5, <1>13, <1>14 DEF n, P

\* The content of every outermost member is there as it is.
LEMMA ContentHolds ==
  ASSUME NEW f, IsStream(f), NEW p \in Outermost(f)
  PROVE  Holds(ReadableContent(f), PlainOf(f, p))
<1> DEFINE all == ReadableContent(f)
           part == PlainOf(f, p)
<1>1. p \in ProvenMembers(f) /\ IsSeq(all) /\ \E at : Places(f, at)
  BY ContentFacts
<1>2. p \in 1 .. Len(f) /\ Len(f) \in Nat
  BY <1>1, SeqOfElements DEF ProvenMembers, IsStream
<1>3. PICK at : Places(f, at)
  BY <1>1
<1>4. Piece(f, p) = part
  BY DEF Piece
<1>5. IsSeq(part)
  BY <1>2, <1>4, ContentFacts
<1> DEFINE a == at[p - 1]
           b == at[p]
<1>6. /\ a \in Nat /\ b = a + Len(part) /\ b <= Len(all)
      /\ \A k \in 1 .. Len(part) : all[a + k] = part[k]
  <2>1. p - 1 \in 0 .. Len(f) /\ at \in [0 .. Len(f) -> Nat]
    BY <1>2, <1>3 DEF Places
  <2>2. at[p - 1] \in Nat
    BY <2>1
  <2>3. /\ at[p] = at[p - 1] + Len(Piece(f, p)) /\ at[p] <= Len(ReadableContent(f))
        /\ \A k \in 1 .. Len(Piece(f, p)) : ReadableContent(f)[at[p - 1] + k] = Piece(f, p)[k]
    BY <1>2, <1>3, Zenon DEF Places
  <2> QED BY <1>4, <2>2, <2>3, Zenon
<1>7. Len(part) \in Nat /\ Len(all) \in Nat
  BY <1>1, <1>5, SeqOfElements
<1> HIDE DEF all, part, a, b
<1>8. b \in Nat /\ a <= b /\ a \in 0 .. Len(all) - Len(part) /\ b - a = Len(part) /\ b = a + Len(part)
  BY <1>6, <1>7
<1> DEFINE s == SubSeq(all, a + 1, b)
<1>9. IsSeq(s) /\ Len(s) = b - a /\ \A k \in 1 .. b - a : s[k] = all[a + k]
  BY <1>1, <1>6, <1>8, SliceFacts DEF all
<1> HIDE DEF s
<1>10. s = part
  <2>1. Len(s) = Len(part) /\ \A k \in 1 .. Len(s) : s[k] = part[k]
    BY <1>6, <1>8, <1>9
  <2> QED BY <1>5, <1>9, <2>1, SameSeq
<1>11. SubSeq(all, a + 1, a + Len(part)) = part
  BY <1>8, <1>10 DEF s
<1> QED BY <1>8, <1>11 DEF Holds, all, part

\* Nothing in it comes from elsewhere.
LEMMA ContentIsRight ==
  ASSUME NEW f, IsStream(f), TrailersAreRight(f)
  PROVE  WrongCells(ReadableContent(f)) = {}
<1> DEFINE all == ReadableContent(f)
<1>1. IsSeq(all) /\ Outermost(f) \subseteq ProvenMembers(f)
  BY ContentFacts
<1>2. PICK at : Places(f, at)
  BY ContentFacts
<1>3. DOMAIN all = 1 .. Len(all) /\ Len(f) \in Nat /\ DOMAIN f = 1 .. Len(f)
  BY <1>1, SeqOfElements DEF IsStream
<1> SUFFICES ASSUME NEW i \in 1 .. Len(all), all[i] = Wrong PROVE FALSE
  BY <1>3 DEF WrongCells
<1>4. PICK p \in 1 .. Len(f) : i - at[p - 1] \in 1 .. Len(Piece(f, p))
  BY <1>2 DEF Places
<1> DEFINE k == i - at[p - 1]
<1>5. at[p - 1] + k = i
  <2>1. p - 1 \in 0 .. Len(f)
    BY <1>3
  <2>a. at \in [0 .. Len(f) -> Nat] /\ Len(all) \in Nat
    BY <1>1, <1>2, SeqOfElements DEF Places
  <2>2. at[p - 1] \in Nat /\ i \in Nat
    BY <2>1, <2>a
  <2> QED BY <2>2
<1>6. Piece(f, p)[k] = Wrong
  BY <1>2, <1>4, <1>5 DEF Places
<1>7. CASE p \notin Outermost(f)
  <2>1. Len(Piece(f, p)) = 0
    BY <1>7 DEF Piece
  <2> QED BY <1>4, <2>1
<1>8. CASE p \in Outermost(f)
  <2> DEFINE plain == PlainOf(f, p)
             e == InflateMember(f, p).next
  <2>1. Piece(f, p) = plain
    BY <1>8 DEF Piece
  <2>2. IsSeq(plain) /\ e \in p + 1 .. Len(f) /\ f[e] = Trailer(plain)
    BY <1>1, <1>8, ProvenFacts
  <2> HIDE DEF plain, e
  <2>3. DOMAIN plain = 1 .. Len(plain) /\ e \in DOMAIN f
    BY <1>3, <2>2, SeqOfElements
  <2>4. f[e].kind = "trailer" /\ f[e].crc = plain
    BY <2>2 DEF Trailer
  <2>5. WrongCells(plain) = {}
    BY <2>3, <2>4 DEF TrailersAreRight
  <2>6. k \in DOMAIN plain /\ plain[k] = Wrong
    BY <1>4, <1>6, <2>1, <2>3
  <2> HIDE DEF k
  <2> QED BY <2>5, <2>6 DEF WrongCells
<1> QED BY <1>7, <1>8

\* When the first member is the only one outermost, its content is the file's.
LEMMA SingleContent ==
  ASSUME NEW e, IsStream(e), Outermost(e) = {1}, IsSeq(PlainOf(e, 1))
  PROVE  ReadableContent(e) = PlainOf(e, 1)
<1> DEFINE of == PlainOf(e, 1)
<1>1. Len(e) \in Nat \ {0} /\ IsSeq(of)
  BY SeqOfElements DEF IsStream
<1> HIDE DEF of
<1>2. ReadableContent(e) = of
  <2> DEFINE all == ReadableContent(e)
  <2>1. PICK at : Places(e, at)
    BY ContentFacts
  <2>2. IsSeq(all) /\ Len(all) \in Nat /\ Len(of) \in Nat
    BY <1>1, ContentFacts, SeqOfElements
  <2>3. Piece(e, 1) = of /\ \A p \in 2 .. Len(e) : Piece(e, p) = << >>
    BY DEF Piece, of
  <2>4. 1 \in 1 .. Len(e) /\ 1 - 1 = 0 /\ at[0] = 0
    BY <1>1, <2>1 DEF Places
  <2>5. at[1] = Len(of) /\ at[1] <= Len(all) /\ \A k \in 1 .. Len(of) : all[0 + k] = of[k]
    <3>1. /\ at[1] = at[1 - 1] + Len(Piece(e, 1)) /\ at[1] <= Len(all)
          /\ \A k \in 1 .. Len(Piece(e, 1)) : all[at[1 - 1] + k] = Piece(e, 1)[k]
      BY <1>1, <2>1, <2>4 DEF Places
    <3> QED BY <2>2, <2>3, <2>4, <3>1
  <2>6. Len(all) <= Len(of)
    <3> SUFFICES ASSUME Len(of) < Len(all) PROVE FALSE
      BY <2>2
    <3> DEFINE i == Len(of) + 1
    <3>1. i \in 1 .. Len(all)
      BY <2>2
    <3>2. PICK p \in 1 .. Len(e) : i - at[p - 1] \in 1 .. Len(Piece(e, p))
      BY <1>1, <2>1, <3>1 DEF Places
    <3>3. p = 1
      <4> SUFFICES ASSUME p \in 2 .. Len(e) PROVE FALSE
        BY <1>1
      <4>1. Len(Piece(e, p)) = 0
        BY <2>3
      <4> QED BY <3>2, <4>1
    <3>4. i - 0 \in 1 .. Len(of)
      BY <2>3, <2>4, <3>2, <3>3
    <3> QED BY <2>2, <3>4
  <2> HIDE DEF all
  <2>7. Len(all) = Len(of) /\ \A k \in 1 .. Len(all) : all[k] = of[k]
    BY <2>2, <2>5, <2>6
  <2>8. all = of
    BY <1>1, <2>2, <2>7, SameSeq
  <2> QED BY <2>8 DEF all
<1> QED BY <1>2 DEF of

\* What was encoded is one member, and its content is what was encoded.
LEMMA EncodedMembers ==
  ASSUME NEW of, IsSeq(of)
  PROVE  LET e == Encoded(of)
         IN  /\ ProvenMembers(e) = {1} /\ Outermost(e) = {1}
             /\ PlainOf(e, 1) = of /\ ReadableContent(e) = of
<1> DEFINE e == Encoded(of)
           n == PackedCells(of)
           r == [ok |-> TRUE, plain |-> of, next |-> n + 2]
<1>1. /\ n \in Nat /\ n >= 1 /\ IsSeq(e) /\ Len(e) = n + 2
      /\ e[1] = Fixed(0) /\ e[n + 2] = Trailer(of)
      /\ \A k \in 1 .. n : e[k + 1] = Packed(of, k)
  BY EncodedFacts
<1>2. Inflate(e, 2, n + 2) = r /\ IsStream(e)
  BY EncodedInflates
<1> HIDE DEF e, n
<1>3. e[1].kind = "fixed" /\ e[1].magic = TRUE /\ e[1].cm = TRUE /\ e[1].extra = 0
  BY <1>1 DEF Fixed
<1>4. HasHeader(e, 1) /\ IsStart(e[1]) /\ MemberBody(e, 1) = 2
  BY <1>1, <1>3 DEF HasHeader, IsStart, MemberBody
<1>5. InflateMember(e, 1) = r
  BY <1>1, <1>2, <1>4 DEF InflateMember
<1>6. r.ok /\ r.plain = of /\ r.next = n + 2
  OBVIOUS
<1> HIDE DEF r
<1>7. PlainOf(e, 1) = of
  BY <1>5, <1>6 DEF PlainOf
<1>8. DOMAIN e = 1 .. n + 2
  BY <1>1, SeqOfElements
<1>9. 1 \in ProvenMembers(e)
  BY <1>1, <1>4, <1>5, <1>6, <1>8 DEF ProvenMembers
<1>10. ASSUME NEW p \in ProvenMembers(e) PROVE p = 1
  <2>1. p \in 1 .. n + 2 /\ e[p].kind = "fixed"
    BY <1>8 DEF ProvenMembers, HasHeader
  <2>2. CASE p = n + 2
    <3>1. e[p].kind = "trailer"
      BY <1>1, <2>2 DEF Trailer
    <3> QED BY <2>1, <3>1
  <2>3. CASE p \in 2 .. n + 1
    <3>1. p - 1 \in 1 .. n /\ (p - 1) + 1 = p
      BY <1>1, <2>3
    <3>2. e[p] = Packed(of, p - 1)
      BY <1>1, <3>1
    <3> QED BY <2>1, <3>2 DEF Packed
  <2> QED BY <1>1, <2>1, <2>2, <2>3
<1>11. ProvenMembers(e) = {1}
  BY <1>9, <1>10
<1>12. Outermost(e) = {1}
  <2>1. {1} = Outside(e, {1})
    BY <1>11 DEF Outside
  <2> QED BY <1>2, <1>11, <2>1, OutermostIs
<1>13. ReadableContent(e) = of
  BY <1>2, <1>7, <1>12, SingleContent
<1> QED BY <1>7, <1>11, <1>12, <1>13 DEF e

-----------------------------------------------------------------------------
\* What is published.

LEMMA SourceIsStream ==
  ASSUME NEW j \in Jobs
  PROVE  /\ j.src \in Blobs /\ IsStream(j.src) /\ Seen[j.src] = SeenIn(j.src)
         /\ \A s \in Strategies : Staged[s][j.src] = StagedFor(s, j.src)
         /\ Encoded(SalvagedPlain(j.src)) # NoBytes /\ MagicRestored(j.src) # NoBytes
<1>1. j.src \in Blobs
  BY JobType DEF Requests
<1>2. j.src \in {i.src : i \in Jobs}
  OBVIOUS
<1> QED BY <1>1, <1>2, StreamsAssumption

\* The strategies by what they stage.
LEMMA StagedIs ==
  ASSUME NEW s \in Strategies, NEW f
  PROVE  /\ s \in Verbatim => StagedFor(s, f) = StagedAs(f, Bytes(f), 0, TRUE)
         /\ s = "gz-magic-restore" => StagedFor(s, f) = StagedAs(MagicRestored(f), Bytes(f), 0, TRUE)
         /\ s = "gz-partial-inflate" =>
              \E lost : StagedFor(s, f) = Reencoded(PartialPlain(f), lost)
         /\ s = "gz-member-salvage" =>
              StagedFor(s, f) = IF SalvagePanics(f) THEN {} ELSE Reencoded(SalvagedPlain(f), UnverifiedBytes(f))
         /\ (/\ s \notin Verbatim
             /\ s \notin {"gz-magic-restore", "gz-trailer-recompute", "gz-partial-inflate", "gz-member-salvage"})
              => StagedFor(s, f) = StagedAs(f, 0, 0, FALSE)
<1>1. s \in Verbatim => StagedFor(s, f) = StagedAs(f, Bytes(f), 0, TRUE)
  BY DEF StagedFor, Verbatim
<1>2. s = "gz-magic-restore" => StagedFor(s, f) = StagedAs(MagicRestored(f), Bytes(f), 0, TRUE)
  BY DEF StagedFor, Verbatim
<1>3. ASSUME s = "gz-partial-inflate"
      PROVE  \E lost : StagedFor(s, f) = Reencoded(PartialPlain(f), lost)
  <2> DEFINE left == Bytes(f) - Bytes(PartialPlain(f))
             lost == IF left > 0 THEN left ELSE 0
  <2>1. StagedFor(s, f) = Reencoded(PartialPlain(f), lost)
    BY <1>3 DEF StagedFor, Verbatim
  <2> QED BY <2>1
<1>4. s = "gz-member-salvage" =>
        StagedFor(s, f) = IF SalvagePanics(f) THEN {} ELSE Reencoded(SalvagedPlain(f), UnverifiedBytes(f))
  BY DEF StagedFor, Verbatim
<1>5. (/\ s \notin Verbatim
       /\ s \notin {"gz-magic-restore", "gz-trailer-recompute", "gz-partial-inflate", "gz-member-salvage"})
        => StagedFor(s, f) = StagedAs(f, 0, 0, FALSE)
  BY DEF StagedFor
<1> QED BY <1>1, <1>2, <1>3, <1>4, <1>5

\* A published file is what its strategy makes of the source.
PublishedBy(f) ==
  \/ LastKept.by \in Verbatim /\ output = f
  \/ LastKept.by = "gz-magic-restore" /\ output = MagicRestored(f)
  \/ LastKept.by = "gz-trailer-recompute"
  \/ /\ LastKept.by = "gz-partial-inflate"
     /\ PartialPlain(f) # << >> /\ output = Encoded(PartialPlain(f))
  \/ /\ LastKept.by = "gz-member-salvage"
     /\ SalvagedPlain(f) # << >> /\ output = Encoded(SalvagedPlain(f))

LEMMA PublishedGzip ==
  ASSUME SafetyInv, StagedInv, Published
  PROVE  /\ kept # << >> /\ job \in Jobs /\ job.src \in Blobs /\ IsStream(job.src)
         /\ output \in Blobs /\ IsStream(output)
         /\ LastKept.by \in Strategies /\ Keep(job, LastKept.by, output)
         /\ PublishedBy(job.src)
<1> DEFINE f == job.src
           s == LastKept.by
<1>1. /\ kept # << >> /\ job \in Jobs /\ output \in Blobs
      /\ s \in Strategies /\ Keep(job, s, output)
  BY PublishedIsStaged
<1>2. PICK x \in Staged[s][f] : x.bytes = output
  BY PublishedIsStaged
<1>3. /\ f \in Blobs /\ IsStream(f) /\ Staged[s][f] = StagedFor(s, f) /\ IsStream(output)
  BY <1>1, SourceIsStream, StreamsAssumption
<1>4. output # NoBytes
  BY <1>1, BlobsAssumption
<1>5. PublishedBy(f)
  <2> HIDE DEF f, s
  <2>1. x \in StagedFor(s, f)
    BY <1>2, <1>3
  <2>2. \A b, r, l, h : x \in StagedAs(b, r, l, h) => h /\ output = b
    BY <1>2, <1>4 DEF StagedAs
  <2>3. \A p, l : x \in Reencoded(p, l) => p # << >> /\ output = Encoded(p)
    BY <2>2 DEF Reencoded
  <2>4. CASE s \in Verbatim
    <3>a. StagedFor(s, f) = StagedAs(f, Bytes(f), 0, TRUE)
      BY <1>1, <2>4, StagedIs
    <3>b. x \in StagedAs(f, Bytes(f), 0, TRUE)
      BY <2>1, <3>a, Zenon
    <3>1. output = f
      BY <2>2, <3>b, Zenon
    <3> QED BY <2>4, <3>1 DEF PublishedBy, s
  <2>5. CASE s = "gz-magic-restore"
    <3>a. StagedFor(s, f) = StagedAs(MagicRestored(f), Bytes(f), 0, TRUE)
      BY <1>1, <2>5, StagedIs
    <3>b. x \in StagedAs(MagicRestored(f), Bytes(f), 0, TRUE)
      BY <2>1, <3>a, Zenon
    <3>1. output = MagicRestored(f)
      BY <2>2, <3>b, Zenon
    <3> QED BY <2>5, <3>1 DEF PublishedBy, s
  <2>6. CASE s = "gz-trailer-recompute"
    BY <2>6 DEF PublishedBy, s
  <2>7. CASE s = "gz-partial-inflate"
    <3>1. PICK lost : StagedFor(s, f) = Reencoded(PartialPlain(f), lost)
      BY <1>1, <2>7, StagedIs
    <3> DEFINE plain == PartialPlain(f)
    <3> HIDE DEF plain
    <3>a. x \in Reencoded(plain, lost)
      BY <2>1, <3>1 DEF plain
    <3>b. plain # << >> /\ output = Encoded(plain)
      BY <2>3, <3>a
    <3>2. PartialPlain(f) # << >> /\ output = Encoded(PartialPlain(f))
      BY <3>b DEF plain
    <3> QED BY <2>7, <3>2 DEF PublishedBy, s
  <2>8. CASE s = "gz-member-salvage"
    <3> DEFINE plain == SalvagedPlain(f)
               lost == UnverifiedBytes(f)
    <3>a. StagedFor(s, f) = IF SalvagePanics(f) THEN {} ELSE Reencoded(plain, lost)
      BY <1>1, <2>8, StagedIs
    <3> HIDE DEF plain, lost
    <3>b. x \in Reencoded(plain, lost)
      BY <2>1, <3>a
    <3>c. plain # << >> /\ output = Encoded(plain)
      BY <2>3, <3>b
    <3>1. SalvagedPlain(f) # << >> /\ output = Encoded(SalvagedPlain(f))
      BY <3>c DEF plain
    <3> QED BY <2>8, <3>1 DEF PublishedBy, s
  <2>9. CASE /\ s \notin Verbatim
             /\ s \notin {"gz-magic-restore", "gz-trailer-recompute", "gz-partial-inflate", "gz-member-salvage"}
    <3>1. StagedFor(s, f) = StagedAs(f, 0, 0, FALSE)
      BY <1>1, <2>9, StagedIs
    <3> QED BY <2>1, <2>2, <3>1
  <2> QED BY <2>4, <2>5, <2>6, <2>7, <2>8, <2>9
<1> QED BY <1>1, <1>3, <1>5

\* Salvage: the published file has no defect and holds exactly the outermost
\* members of the source that are proven, whatever the source looks like.
THEOREM SalvageProvenTheorem == Spec => []SalvageIsProven
<1>1. SafetyInv /\ StagedInv => SalvageIsProven
  <2> SUFFICES ASSUME SafetyInv, StagedInv, Published, LastKept.by = "gz-member-salvage"
               PROVE  /\ GzDefects(output) = << >>
                      /\ ReadableContent(output) = ReadableContent(job.src)
    BY DEF SalvageIsProven
  <2>1. IsStream(job.src) /\ PublishedBy(job.src)
    BY PublishedGzip
  <2>2. output = Encoded(SalvagedPlain(job.src))
    BY <2>1 DEF PublishedBy, Verbatim
  <2> DEFINE plain == ReadableContent(job.src)
  <2>3. SalvagedPlain(job.src) = plain /\ IsSeq(plain)
    BY <2>1, ContentFacts
  <2> HIDE DEF plain
  <2>4. output = Encoded(plain)
    BY <2>2, <2>3
  <2>5. GzDefects(output) = << >> /\ ReadableContent(output) = plain
    BY <2>3, <2>4, EncodedClean, EncodedMembers
  <2> QED BY <2>5 DEF plain
<1> QED BY <1>1, SafetyInvariant, StagedInvariant, PTL

\* The body of a file starts behind its first cell.
LEMMA BodyStartFacts ==
  ASSUME NEW f, IsStream(f)
  PROVE  /\ Len(f) \in Nat \ {0} /\ f[1].kind = "fixed" /\ f[1].magic \in BOOLEAN /\ f[1].cm \in BOOLEAN
         /\ f[1].extra \in Nat
         /\ BodyStart(f) \in Nat \ {0} /\ BodyStart(f) >= 2 /\ BodyStart(f) <= Len(f) + 1
<1>1. Len(f) \in Nat \ {0} /\ f[1].kind = "fixed" /\ IsCell(f[1])
  BY SeqOfElements DEF IsStream
<1>2. f[1].magic \in BOOLEAN /\ f[1].cm \in BOOLEAN /\ f[1].extra \in Nat
  BY <1>1 DEF IsCell
<1>3. BodyStart(f) = (IF 2 + f[1].extra > Len(f) THEN Len(f) + 1 ELSE 2 + f[1].extra)
  BY DEF BodyStart
<1> DEFINE x == f[1].extra
           n == Len(f)
           b == BodyStart(f)
<1>4. n \in Nat \ {0} /\ x \in Nat /\ b = (IF 2 + x > n THEN n + 1 ELSE 2 + x)
  BY <1>1, <1>2, <1>3
<1> HIDE DEF x, n, b
<1>5. b \in Nat \ {0} /\ b >= 2 /\ b <= n + 1
  BY <1>4
<1> QED BY <1>1, <1>2, <1>5 DEF n, b

\* Partial inflation of whatever file loses one cell at most of what inflates, and
\* nothing of a stream that ends.
THEOREM PartialTheorem == Spec => []PartialKeepsThePrefix
<1>1. SafetyInv /\ StagedInv => PartialKeepsThePrefix
  <2> SUFFICES ASSUME SafetyInv, StagedInv, Published, LastKept.by = "gz-partial-inflate"
               PROVE  LET all   == Inflate(job.src, BodyStart(job.src), Len(job.src))
                          plain == PlainOf(output, 1)
                      IN  /\ plain = SubSeq(all.plain, 1, Len(plain))
                          /\ Len(plain) >= Len(all.plain) - 1
                          /\ all.next <= Len(job.src) => plain = all.plain
    BY DEF PartialKeepsThePrefix
  <2> DEFINE f == job.src
             n == Len(f)
             b == BodyStart(f)
             all == Inflate(f, b, n)
             plain == PartialPlain(f)
  <2>1. IsStream(f) /\ PublishedBy(f)
    BY PublishedGzip
  <2>2. output = Encoded(plain)
    BY <2>1 DEF PublishedBy, Verbatim
  <2>3. n \in Nat \ {0} /\ b \in Nat \ {0} /\ n <= n /\ n - 1 \in Nat
    BY <2>1, BodyStartFacts
  <2>4. IsSeq(all.plain) /\ IsSeq(plain)
    <3> DEFINE to == DeflateBodyEnd(f)
    <3>1. to = IF b < n THEN n - 1 ELSE n
      BY DEF DeflateBodyEnd
    <3>2. to \in Nat /\ to <= n
      BY <2>3, <3>1
    <3>3. plain = Inflate(f, b, to).plain
      BY DEF PartialPlain
    <3> HIDE DEF to, b, n, f
    <3> QED BY <2>1, <2>3, <3>2, <3>3, InflateType DEF n
  <2>5. PlainOf(output, 1) = plain
    <3> HIDE DEF plain
    <3> QED BY <2>2, <2>4, EncodedMembers
  <2>6. CASE b < n
    <3>1. plain = Inflate(f, b, n - 1).plain
      BY <2>6 DEF PartialPlain, DeflateBodyEnd
    <3>2. LET c == Inflate(f, b, n - 1)
          IN  /\ all.next <= n => c = all
              /\ Len(c.plain) >= Len(all.plain) - 1
              /\ c.plain = SubSeq(all.plain, 1, Len(c.plain))
      <4> HIDE DEF b, f
      <4> QED BY <2>1, <2>3, <2>6, ShorterByOne
    <3> HIDE DEF plain, b, n, f, all
    <3>3. /\ all.next <= n => plain = all.plain
          /\ Len(plain) >= Len(all.plain) - 1
          /\ plain = SubSeq(all.plain, 1, Len(plain))
      BY <3>1, <3>2
    <3> QED BY <2>5, <3>3 DEF all, b, n, f
  <2>7. CASE ~(b < n)
    <3>1. plain = all.plain
      BY <2>7 DEF PartialPlain, DeflateBodyEnd
    <3> HIDE DEF plain, b, n, f, all
    <3>2. Len(plain) \in Nat /\ Len(plain) <= Len(plain)
      BY <2>4, SeqOfElements
    <3>3. plain = SubSeq(plain, 1, Len(plain))
      BY <2>4, <3>2, PrefixIs
    <3>4. Len(plain) >= Len(plain) - 1
      BY <3>2
    <3> QED BY <2>5, <3>1, <3>3, <3>4 DEF all, b, n, f
  <2> QED BY <2>6, <2>7
<1> QED BY <1>1, SafetyInvariant, StagedInvariant, PTL

\* What restoring the magic changes.
LEMMA MagicFacts ==
  ASSUME NEW f, IsStream(f)
  PROVE  LET g == MagicRestored(f)
         IN  /\ IsStream(g) /\ Len(g) = Len(f) /\ DOMAIN g = 1 .. Len(f) /\ DOMAIN f = 1 .. Len(f)
             /\ \A i \in 2 .. Len(f) : g[i] = f[i]
             /\ g[1].kind = "fixed" /\ g[1].magic = TRUE
             /\ g[1].cm = f[1].cm /\ g[1].extra = f[1].extra
             /\ WithMagic(f) = g
<1> DEFINE g == MagicRestored(f)
           n == Len(f)
           h == [f[1] EXCEPT !.magic = TRUE]
           R == [kind : {"fixed"}, magic : BOOLEAN, cm : BOOLEAN, extra : Nat]
<1>1. n \in Nat /\ n > 0 /\ DOMAIN f = 1 .. n /\ f[1].kind = "fixed"
      /\ \A p \in 1 .. n : IsCell(f[p])
  BY SeqOfElements DEF IsStream
<1>2. f[1] \in R
  BY <1>1 DEF IsCell
<1>3. h \in R /\ h.kind = "fixed" /\ h.magic = TRUE /\ h.cm = f[1].cm /\ h.extra = f[1].extra
  BY <1>2
<1>4. g = [f EXCEPT ![1] = h] /\ WithMagic(f) = g
  BY DEF MagicRestored, WithMagic
<1> HIDE DEF g, h, n, R
<1>5. DOMAIN g = 1 .. n /\ g[1] = h /\ \A i \in 2 .. n : g[i] = f[i]
  BY <1>1, <1>4
<1> DEFINE S == {g[i] : i \in 1 .. n}
<1>6. g \in [1 .. n -> S]
  <2>1. g = [i \in 1 .. n |-> g[i]]
    BY <1>1, <1>4
  <2> QED BY <2>1
<1> HIDE DEF S
<1>7. g \in Seq(S) /\ Len(g) = n
  BY <1>1, <1>6, FunctionSeq
<1>8. IsSeq(g)
  BY <1>7, SeqIsSeq
<1>9. \A p \in 1 .. n : IsCell(g[p])
  <2> TAKE p \in 1 .. n
  <2>1. CASE p = 1
    BY <1>3, <1>5, <2>1 DEF IsCell, R
  <2>2. CASE p \in 2 .. n
    BY <1>1, <1>5, <2>2
  <2> QED BY <1>1, <2>1, <2>2
<1>10. IsStream(g)
  BY <1>1, <1>3, <1>5, <1>7, <1>8, <1>9 DEF IsStream
<1> QED BY <1>1, <1>3, <1>4, <1>5, <1>7, <1>10 DEF g, n

LEMMA GzipRisks ==
  /\ Risk["gz-magic-restore"] = "Safe" /\ Risk["gz-trailer-recompute"] = "Inferred"
  /\ Risk["gz-member-salvage"] = "Lossy" /\ Risk["gz-partial-inflate"] = "Lossy"
<1>1. /\ "gz-magic-restore" \in Strategies /\ "gz-trailer-recompute" \in Strategies
      /\ "gz-member-salvage" \in Strategies /\ "gz-partial-inflate" \in Strategies
  <2>1. /\ AllStrategies[8] = "gz-magic-restore" /\ AllStrategies[9] = "gz-trailer-recompute"
        /\ AllStrategies[10] = "gz-member-salvage" /\ AllStrategies[11] = "gz-partial-inflate"
        /\ DOMAIN AllStrategies = 1 .. 16
    BY DEF AllStrategies
  <2> QED BY <2>1 DEF Strategies
<1>2. /\ ProfileOf["gz-magic-restore"] = GzMagicRestore
      /\ ProfileOf["gz-trailer-recompute"] = GzTrailerRecompute
      /\ ProfileOf["gz-member-salvage"] = GzMemberSalvage
      /\ ProfileOf["gz-partial-inflate"] = GzPartialInflate
  BY <1>1 DEF ProfileOf
<1> QED BY <1>1, <1>2 DEF Risk, Profile, GzMagicRestore, GzTrailerRecompute, GzMemberSalvage, GzPartialInflate

\* Whatever gz-trailer-recompute publishes is the reference.
LEMMA RecomputeIsReference ==
  ASSUME SafetyInv, StagedInv, Published, LastKept.by = "gz-trailer-recompute"
  PROVE  job.ref # NoBytes /\ output = job.ref
<1>1. Keep(job, "gz-trailer-recompute", output)
  BY PublishedGzip
<1> QED BY <1>1, GzipRisks DEF Keep, Verified

\* Wrong bytes under a checksum that fits them are published by partial inflation
\* only, and never as verified, for sources of any size and in any state.
THEOREM FittedTheorem == Spec => []FittedChecksumsAreFlagged
<1>1. SafetyInv /\ StagedInv /\ PlansInv => FittedChecksumsAreFlagged
  <2> SUFFICES ASSUME SafetyInv, StagedInv, PlansInv, Published, TrailersAreRight(job.src),
                      job.ref # NoBytes => TrailersAreRight(job.ref),
                      WrongCells(ReadableContent(output)) # {}
               PROVE  /\ LastKept.by = "gz-partial-inflate"
                      /\ report.manifest_path =>
                           sidecar.verified = 0 /\ \A r \in sidecar.repairs : r.guarantee = "Lost"
    BY DEF FittedChecksumsAreFlagged
  <2> DEFINE f == job.src
  <2>1. IsStream(f) /\ IsStream(output) /\ PublishedBy(f)
    BY PublishedGzip
  <2>2. ~TrailersAreRight(output)
    BY <2>1, ContentIsRight
  <2>3. ~Verified(job, output)
    BY <2>2 DEF Verified
  <2>4. output # f
    BY <2>2
  <2>5. output # MagicRestored(f)
    <3> SUFFICES ASSUME output = MagicRestored(f) PROVE FALSE
      OBVIOUS
    <3>1. /\ DOMAIN output = 1 .. Len(f) /\ DOMAIN f = 1 .. Len(f)
          /\ output[1].kind = "fixed" /\ \A i \in 2 .. Len(f) : output[i] = f[i]
      BY <2>1, MagicFacts
    <3>2. Len(f) \in Nat
      BY <2>1, SeqOfElements DEF IsStream
    <3>3. ASSUME NEW p \in DOMAIN output, output[p].kind = "trailer"
          PROVE  WrongCells(output[p].crc) = {}
      <4>1. p \in 2 .. Len(f) /\ p \in DOMAIN f
        <5>1. p # 1
          BY <3>1, <3>3
        <5> QED BY <3>1, <3>2, <5>1
      <4>2. output[p] = f[p]
        BY <3>1, <4>1
      <4> QED BY <3>3, <4>1, <4>2 DEF TrailersAreRight
    <3> QED BY <2>2, <3>3 DEF TrailersAreRight
  <2>6. LastKept.by # "gz-trailer-recompute"
    BY <2>2, RecomputeIsReference
  <2>7. LastKept.by # "gz-member-salvage"
    <3> SUFFICES ASSUME LastKept.by = "gz-member-salvage" PROVE FALSE
      OBVIOUS
    <3>1. output = Encoded(SalvagedPlain(f))
      BY <2>1 DEF PublishedBy, Verbatim
    <3> DEFINE plain == ReadableContent(f)
    <3>2. SalvagedPlain(f) = plain /\ IsSeq(plain) /\ WrongCells(plain) = {}
      BY <2>1, ContentFacts, ContentIsRight
    <3> HIDE DEF plain
    <3>3. ReadableContent(output) = plain
      BY <3>1, <3>2, EncodedMembers
    <3> QED BY <3>2, <3>3
  <2>8. LastKept.by = "gz-partial-inflate"
    <3> HIDE DEF f
    <3> QED BY <2>1, <2>4, <2>5, <2>6, <2>7 DEF PublishedBy
  <2>9. Risk[LastKept.by] = "Lossy"
    BY <2>8, GzipRisks
  <2> QED BY <2>3, <2>8, <2>9, LossyVouchesForNothing
<1> QED BY <1>1, SafetyInvariant, StagedInvariant, PlansInvariant, PTL

-----------------------------------------------------------------------------
\* No proven member is lost.

LEMMA GzipCategories ==
  ASSUME NEW r \in Rules,
         r.id \in {"GZ_MAGIC_001", "GZ_ICRC_001", "GZ_ISIZE_001", "INTEGRITY_HASH_001", "TAR_TERM_002"}
  PROVE  r.category \in {"StructuralCorruption", "ChecksumMismatch", "PaddingMismatch"}
<1>1. \/ r \in ZipRules \/ r \in TarRules \/ r \in IsoRules \/ r \in GzipRules \/ r \in PdfRules
      \/ r \in SqliteRules \/ r \in StreamRules \/ r \in CrossFormatRules \/ r \in ThreatRules
  BY DEF Rules
<1>2. CASE r \in ZipRules
  BY <1>2, RowsFacts DEF ZipRules
<1>3. CASE r \in TarRules
  BY <1>3, RowsFacts DEF TarRules
<1>4. CASE r \in IsoRules
  BY <1>4, RowsFacts DEF IsoRules
<1>5. CASE r \in GzipRules
  BY <1>5, RowsFacts DEF GzipRules
<1>6. CASE r \in PdfRules
  BY <1>6, RowsFacts DEF PdfRules
<1>7. CASE r \in SqliteRules
  BY <1>7, RowsFacts DEF SqliteRules
<1>8. CASE r \in StreamRules
  BY <1>8, RowsFacts DEF StreamRules
<1>9. CASE r \in CrossFormatRules
  BY <1>9, RowsFacts DEF CrossFormatRules
<1>10. CASE r \in ThreatRules
  BY <1>10, RowsFacts DEF ThreatRules
<1> QED BY <1>1, <1>2, <1>3, <1>4, <1>5, <1>6, <1>7, <1>8, <1>9, <1>10

\* The profiles of the two strategies that encode anew.
LEMMA SalvageProfile ==
  LET salvage == "gz-member-salvage"
      partial == "gz-partial-inflate"
  IN  /\ salvage \in Strategies /\ partial \in Strategies
      /\ ProfileOf[salvage].formats = {"Gzip"} /\ ProfileOf[salvage].applies = RuleIds
      /\ ProfileOf[partial].applies = Truncated \cup {"GZ_TRUNC_001", "GZ_TRUNC_002"}
      /\ ~Before(partial, salvage)
<1> DEFINE salvage == "gz-member-salvage"
           partial == "gz-partial-inflate"
<1>1. salvage \in Strategies /\ partial \in Strategies
  BY DEF Strategies, AllStrategies
<1>2. ProfileOf[salvage] = GzMemberSalvage /\ ProfileOf[partial] = GzPartialInflate
  BY <1>1 DEF ProfileOf
<1>3. /\ ProfileOf[salvage].priority = 84 /\ ProfileOf[partial].priority = 40
      /\ ProfileOf[salvage].formats = {"Gzip"} /\ ProfileOf[salvage].applies = RuleIds
      /\ ProfileOf[partial].applies = Truncated \cup {"GZ_TRUNC_001", "GZ_TRUNC_002"}
  BY <1>2 DEF GzMemberSalvage, GzPartialInflate, Profile
<1>4. ~Before(partial, salvage)
  BY <1>3 DEF Before
<1> QED BY <1>1, <1>3, <1>4

\* What the salvage stages of a source with proven content is in full health, and
\* the gate keeps it.
LEMMA SalvageIsKept ==
  ASSUME NEW j \in Jobs, ReadableContent(j.src) # << >>,
         NEW x \in Staged["gz-member-salvage"][j.src]
  PROVE  HealthAfter(x.bytes) = 100 /\ Keep(j, "gz-member-salvage", x.bytes)
<1> DEFINE f == j.src
           s == "gz-member-salvage"
           plain == ReadableContent(f)
           e == Encoded(plain)
<1>1. /\ f \in Blobs /\ IsStream(f) /\ Staged[s][f] = StagedFor(s, f) /\ Encoded(SalvagedPlain(f)) # NoBytes
  BY SourceIsStream, SalvageProfile
<1>2. SalvagedPlain(f) = plain /\ IsSeq(plain)
  BY <1>1, ContentFacts
<1>3. x.bytes = e
  <2>1. StagedFor(s, f) = IF SalvagePanics(f) THEN {} ELSE Reencoded(SalvagedPlain(f), UnverifiedBytes(f))
    BY StagedIs, SalvageProfile
  <2> DEFINE lost == UnverifiedBytes(f)
  <2> HIDE DEF lost, f, plain, s
  <2>2. x \in Reencoded(plain, lost)
    BY <1>1, <1>2, <2>1 DEF f, s, lost
  <2>3. plain # << >>
    BY DEF plain, f
  <2> QED BY <2>2, <2>3 DEF Reencoded, StagedAs
<1>4. x \in Stagings
  BY SalvageProfile, StagedType
<1>5. e # NoBytes /\ e \in Blobs
  <2>1. e # NoBytes
    BY <1>1, <1>2
  <2> HIDE DEF e
  <2> QED BY <1>3, <1>4, <2>1 DEF Stagings
<1>6. GzDefects(e) = << >> /\ StartsAsGzip(e)
  BY <1>2, EncodedClean
<1> HIDE DEF e
<1>7. Seen[e].locked = FALSE /\ Seen[e].anon = << >>
  <2>1. Seen[e] = SeenIn(e)
    BY <1>5, StreamsAssumption
  <2> QED BY <1>6, <2>1 DEF SeenIn
<1>8. HealthAfter(e) = 100
  <2>1. HealthAfter(e) = Score(<< >>)
    BY <1>5, <1>7 DEF HealthAfter
  <2>2. << >> \in Seq(RuleIds)
    OBVIOUS
  <2> QED BY <2>1, <2>2, ScoreFacts
<1>9. BaseHealth(j) \in 0 .. 100
  BY HealthRange
<1>10. 100 # None
  BY DEF None
<1>11. ~Regressed(j, e) /\ (Improved(j, e) \/ Held(j, e))
  <2> DEFINE b == BaseHealth(j)
  <2>a. b \in 0 .. 100
    BY <1>9
  <2> HIDE DEF b
  <2>1. ~(100 < b) /\ (100 > b \/ 100 = b)
    BY <2>a
  <2> USE DEF b
  <2> QED BY <1>8, <1>10, <2>1 DEF Regressed, Improved, Held
<1>12. Keep(j, s, e)
  BY <1>5, <1>11, GzipRisks DEF Keep, Terminal
<1> QED BY <1>3, <1>8, <1>12

\* Partial inflation, which looks at the first member only, gets its turn where
\* there is no proven content at all.
LEMMA PartialLosesNothing ==
  ASSUME SafetyInv, StagedInv, PassesInv, SelectedInv, Published, ~job.aggressive,
         job.forced = "auto", LastKept.by = "gz-partial-inflate"
  PROVE  ReadableContent(job.src) = << >>
<1> SUFFICES ASSUME ReadableContent(job.src) # << >> PROVE FALSE
  OBVIOUS
<1> DEFINE salvage == "gz-member-salvage"
           partial == "gz-partial-inflate"
           found == Corruptions(job)
<1>0. result = "report" /\ kept # << >> /\ job \in Jobs
  BY PublishedGzip DEF Published
<1>1. partial \in Selected(job) /\ partial \in Tried
  BY <1>0, KeptIsSelected
<1>2. ~IsClean(job) /\ partial \in Applicable(job) /\ Selected(job) = Applicable(job)
  BY <1>1 DEF Selected
<1>3. PICK id \in RangeOf(found) : id \in Truncated \cup {"GZ_TRUNC_001", "GZ_TRUNC_002"}
  BY <1>2, SalvageProfile DEF Applicable, CanApply
<1>4. found \in Seq(RuleIds)
  BY <1>0, CorruptionsType
<1>5. id \in RuleIds /\ id # "TAR_TERM_002"
  <2>1. id \in RuleIds
    BY <1>4 DEF RangeOf
  <2>2. "TAR_TERM_002" \notin Truncated
    BY GzipCategories DEF Truncated, InCategory
  <2> QED BY <1>3, <2>1, <2>2
<1>6. BaseHealth(job) \in 0 .. 100 /\ BaseHealth(job) < 100
  <2>1. PICK i \in 1 .. Len(found) : found[i] = id
    BY <1>4 DEF RangeOf
  <2> HIDE DEF found
  <2>2. Score(found) < 100 /\ Score(found) \in 0 .. 100
    BY <1>4, <1>5, <2>1, EveryRuleCosts, ScoreFacts
  <2> QED BY <2>2 DEF BaseHealth, found
<1>7. salvage \in Selected(job)
  <2>a. Seen[job.src] = SeenIn(job.src)
    BY <1>0, SourceIsStream
  <2>b. SeenIn(job.src).format = "Gzip"
    BY DEF SeenIn
  <2>1. Seen[job.src].format = "Gzip"
    BY <2>a, <2>b
  <2>2. RangeOf(found) \cap RuleIds # {}
    BY <1>5
  <2> QED BY <1>2, <2>1, <2>2, SalvageProfile DEF Applicable, CanApply
<1>8. salvage \in Tried
  <2>1. todo \cup Tried = Selected(job)
    BY <1>0 DEF SelectedInv
  <2>2. salvage \notin todo
    BY <1>1, SalvageProfile DEF PassesInv
  <2> QED BY <1>7, <2>1, <2>2
<1>9. salvage \notin RangeOf(report.rolled_back)
  BY <1>0, SalvageIsKept DEF SelectedInv
<1>10. PICK i \in 1 .. Len(kept) : kept[i].by = salvage
  BY <1>8, <1>9 DEF Tried, SelectedInv
<1>11. i \in 1 .. Len(kept) - 1
  <2>1. Len(kept) \in Nat
    BY <1>0, EmptyByLength DEF SafetyInv, TypeInv, TypeOK
  <2>2. i # Len(kept)
    BY <1>10 DEF LastKept
  <2> QED BY <2>1, <2>2
<1>12. Held(job, kept[i].bytes)
  BY <1>11 DEF SelectedInv
<1>13. HealthAfter(kept[i].bytes) = 100
  <2>1. \E x \in Staged[kept[i].by][job.src] : x.bytes = kept[i].bytes
    BY Zenon DEF SelectedInv
  <2>2. PICK x \in Staged[salvage][job.src] : x.bytes = kept[i].bytes
    BY <1>10, <2>1, Zenon
  <2>3. HealthAfter(x.bytes) = 100
    BY <1>0, SalvageIsKept
  <2> QED BY <2>2, <2>3
<1> QED BY <1>6, <1>12, <1>13 DEF Held

LEMMA HoldsItself ==
  ASSUME NEW x, IsSeq(x)
  PROVE  Holds(x, x)
<1>1. Len(x) \in Nat /\ x = SubSeq(x, 1, Len(x))
  <2>1. Len(x) \in Nat
    BY SeqOfElements
  <2>2. Len(x) <= Len(x)
    BY <2>1
  <2> QED BY <2>1, <2>2, PrefixIs
<1> DEFINE n == Len(x)
<1> HIDE DEF n
<1>2. n \in Nat /\ x = SubSeq(x, 1, n)
  BY <1>1 DEF n
<1>3. 0 \in 0 .. n - n /\ 0 + 1 = 1 /\ 0 + n = n
  BY <1>2
<1>4. SubSeq(x, 0 + 1, 0 + n) = x
  BY <1>2, <1>3
<1> QED BY <1>3, <1>4 DEF Holds, n

\* With its magic restored a file has the members it had.
LEMMA MagicKeepsMembers ==
  ASSUME NEW f, IsStream(f), NEW p \in ProvenMembers(f)
  PROVE  p \in ProvenMembers(MagicRestored(f)) /\ PlainOf(MagicRestored(f), p) = PlainOf(f, p)
<1> DEFINE g == MagicRestored(f)
           n == Len(f)
           m == InflateMember(f, p)
<1>1. /\ IsStream(g) /\ Len(g) = n /\ DOMAIN g = 1 .. n /\ DOMAIN f = 1 .. n
      /\ \A i \in 2 .. n : g[i] = f[i]
      /\ g[1].kind = "fixed" /\ g[1].magic = TRUE
      /\ g[1].cm = f[1].cm /\ g[1].extra = f[1].extra
  BY MagicFacts
<1>2. n \in Nat /\ p \in 1 .. n /\ f[1].kind = "fixed"
  BY <1>1, SeqOfElements DEF ProvenMembers, IsStream
<1>3. /\ f[p].kind = "fixed" /\ f[p].extra \in Nat /\ m.ok
      /\ m.next \in p + 1 .. n /\ f[m.next] = Trailer(m.plain)
  BY <1>2, ProvenFacts DEF PlainOf
<1>4. IsStart(f[p]) /\ HasHeader(f, p)
  BY DEF ProvenMembers
<1> HIDE DEF g, n
<1>5. g[p].kind = "fixed" /\ g[p].extra = f[p].extra /\ IsStart(g[p])
  <2>1. CASE p = 1
    <3>1. f[1].cm
      BY <1>3, <1>4, <2>1 DEF IsStart
    <3> QED BY <1>1, <2>1, <3>1 DEF IsStart
  <2>2. CASE p # 1
    <3>1. g[p] = f[p]
      BY <1>1, <1>2, <2>2
    <3> QED BY <1>3, <1>4, <3>1
  <2> QED BY <2>1, <2>2
<1>6. HasHeader(g, p) /\ MemberBody(g, p) = MemberBody(f, p)
  BY <1>1, <1>4, <1>5 DEF HasHeader, MemberBody, n
<1>7. InflateMember(g, p) = m
  <2> DEFINE b == MemberBody(f, p)
  <2>1. b \in Nat /\ b >= 2
    BY <1>2, <1>3 DEF MemberBody
  <2> HIDE DEF b
  <2>2. n <= n
    BY <1>2
  <2>3. Inflate(g, b, n) = Inflate(f, b, n)
    BY <1>1, <1>2, <2>1, <2>2, SameTail DEF n
  <2> QED BY <1>1, <1>6, <2>3 DEF InflateMember, b, n
<1> HIDE DEF m
<1>8. g[m.next] = f[m.next] /\ m.next <= n
  <2>1. m.next \in 2 .. n
    BY <1>2, <1>3
  <2> QED BY <1>1, <1>2, <2>1
<1>9. p \in ProvenMembers(g)
  BY <1>1, <1>2, <1>3, <1>5, <1>6, <1>7, <1>8 DEF ProvenMembers
<1> QED BY <1>7, <1>9 DEF PlainOf, g, m

\* Whatever the source and whatever is wrong with it, a run that is not told to try
\* everything and may choose its strategies keeps every member that is proven.
THEOREM MembersTheorem == Spec => []NoProvenMemberIsLost
<1>1. SafetyInv /\ StagedInv /\ PassesInv /\ SelectedInv => NoProvenMemberIsLost
  <2> SUFFICES ASSUME SafetyInv, StagedInv, PassesInv, SelectedInv, Published, ~job.aggressive,
                      job.forced = "auto", job.ref # NoBytes => KeepsMembers(job.ref, job.src)
               PROVE  KeepsMembers(output, job.src)
    BY DEF NoProvenMemberIsLost
  <2> DEFINE f == job.src
  <2>1. IsStream(f) /\ PublishedBy(f)
    BY PublishedGzip
  <2>2. /\ Outermost(f) \subseteq ProvenMembers(f) /\ IsSeq(ReadableContent(f))
        /\ SalvagedPlain(f) = ReadableContent(f)
    BY <2>1, ContentFacts
  <2>3. \A p \in ProvenMembers(f) : IsSeq(PlainOf(f, p))
    <3>1. ProvenMembers(f) \subseteq 1 .. Len(f)
      BY <2>1, SeqOfElements DEF ProvenMembers, IsStream
    <3> QED BY <2>1, <3>1, ProvenFacts
  <2>4. CASE LastKept.by = "gz-trailer-recompute"
    BY <2>4, RecomputeIsReference
  <2> SUFFICES ASSUME LastKept.by # "gz-trailer-recompute", NEW p \in Outermost(f)
               PROVE  \E q \in ProvenMembers(output) : Holds(PlainOf(output, q), PlainOf(f, p))
    BY <2>4 DEF KeepsMembers
  <2>5. p \in ProvenMembers(f) /\ Holds(PlainOf(f, p), PlainOf(f, p))
    BY <2>2, <2>3, HoldsItself
  <2>6. CASE output = f
    BY <2>5, <2>6
  <2>7. CASE output = MagicRestored(f)
    <3>1. p \in ProvenMembers(output) /\ PlainOf(output, p) = PlainOf(f, p)
      BY <2>1, <2>5, <2>7, MagicKeepsMembers
    <3> QED BY <2>5, <3>1
  <2>8. CASE LastKept.by = "gz-member-salvage" /\ output = Encoded(SalvagedPlain(f))
    <3> DEFINE plain == ReadableContent(f)
    <3>1. Holds(plain, PlainOf(f, p))
      BY <2>1, ContentHolds
    <3>2. output = Encoded(plain) /\ IsSeq(plain)
      BY <2>2, <2>8
    <3> HIDE DEF plain, f
    <3>3. ProvenMembers(output) = {1} /\ PlainOf(output, 1) = plain
      BY <3>2, EncodedMembers
    <3> QED BY <3>1, <3>3
  <2>9. CASE LastKept.by = "gz-partial-inflate" /\ output = Encoded(PartialPlain(f))
    <3> DEFINE plain == PartialPlain(f)
               part == PlainOf(f, p)
    <3>1. ReadableContent(f) = << >>
      BY <2>9, PartialLosesNothing
    <3>2. Holds(<< >>, part)
      BY <2>1, <3>1, ContentHolds
    <3>3. IsSeq(plain)
      <4> DEFINE to == DeflateBodyEnd(f)
                 b == BodyStart(f)
                 n == Len(f)
      <4>1. n \in Nat \ {0} /\ b \in Nat \ {0}
        BY <2>1, BodyStartFacts
      <4>2. to = IF b < n THEN n - 1 ELSE n
        BY DEF DeflateBodyEnd
      <4>3. to \in Nat /\ to <= n
        BY <4>1, <4>2
      <4>4. plain = Inflate(f, b, to).plain
        BY DEF PartialPlain
      <4> HIDE DEF to, b, f
      <4> QED BY <2>1, <4>1, <4>3, <4>4, InflateType
    <3> HIDE DEF plain, part
    <3>4. IsSeq(part)
      BY <2>3, <2>5 DEF part
    <3>5. Len(part) = 0 /\ part = << >>
      <4>1. Len(part) \in Nat /\ part \in Seq(ElementsOf(part)) /\ Len(<< >>) = 0
        BY <3>4, SeqOfElements
      <4>2. Len(part) = 0
        BY <3>2, <4>1 DEF Holds
      <4> QED BY <4>1, <4>2, EmptyByLength
    <3>6. Holds(plain, << >>)
      <4>1. Len(plain) \in Nat /\ Len(<< >>) = 0
        BY <3>3, SeqOfElements
      <4>2. SubSeq(plain, 1, 0) = << >>
        BY <3>3, SeqOfElements
      <4>3. 0 \in 0 .. Len(plain) - 0 /\ 0 + 1 = 1 /\ 0 + 0 = 0
        BY <4>1
      <4> QED BY <4>1, <4>2, <4>3 DEF Holds
    <3>7. output = Encoded(plain)
      BY <2>9 DEF plain
    <3>8. ProvenMembers(output) = {1} /\ PlainOf(output, 1) = plain
      BY <3>3, <3>7, EncodedMembers
    <3> QED BY <3>5, <3>6, <3>8 DEF part
  <2> HIDE DEF f
  <2> QED BY <2>1, <2>6, <2>7, <2>8, <2>9 DEF PublishedBy
<1> QED BY <1>1, SafetyInvariant, StagedInvariant, SelectedInvariant, PTL

-----------------------------------------------------------------------------
\* Damage to the magic.

TrailerReports == {"GZ_ICRC_001", "GZ_ISIZE_001"}
MagicReports   == TrailerReports \cup {"GZ_MAGIC_001"}

LEMMA MagicPenalties ==
  /\ MagicReports \subseteq RuleIds
  /\ PenaltyFor["GZ_MAGIC_001"].points >= 85 /\ PenaltyFor["GZ_MAGIC_001"].hits = Subscores
  /\ \A id \in TrailerReports : "metadata" \notin PenaltyFor[id].hits
<1> DEFINE Of(rule, points, hits) == [rule |-> rule, points |-> points, hits |-> hits]
<1>1. MagicReports \subseteq RuleIds
  <2>1. \A id \in MagicReports : \E r \in GzipRules : r.id = id
    BY RowsHas DEF GzipRules, MagicReports, TrailerReports
  <2> QED BY <2>1 DEF RuleIds, Rules
<1>2. \A p \in RulePenalties :
        /\ p.rule = "GZ_MAGIC_001" => p.points >= 85 /\ p.hits = Subscores
        /\ p.rule \in TrailerReports => "metadata" \notin p.hits
  BY DEF RulePenalties, HitAll, HitSD, HitS, HitD, Subscores, TrailerReports
<1>3. \A id \in MagicReports : \E p \in RulePenalties : p.rule = id
  <2>1. Of("GZ_MAGIC_001", 85, Subscores) \in RulePenalties
    BY DEF RulePenalties, HitAll
  <2>2. Of("GZ_ICRC_001", 56, {"structural", "data"}) \in RulePenalties
    BY DEF RulePenalties, HitSD
  <2>3. Of("GZ_ISIZE_001", 15, {"data"}) \in RulePenalties
    BY DEF RulePenalties, HitD
  <2> QED BY <2>1, <2>2, <2>3 DEF MagicReports, TrailerReports
<1>4. "GZ_MAGIC_001" \in MagicReports /\ TrailerReports \subseteq MagicReports
  BY DEF MagicReports
<1> QED BY <1>1, <1>2, <1>3, <1>4, PenaltyFacts

\* For such findings gz-magic-restore comes first.
LEMMA MagicApplies ==
  ASSUME NEW found, NEW listed, found \subseteq MagicReports \cup {"INTEGRITY_HASH_001"},
         "GZ_MAGIC_001" \in found
  PROVE  LET applies == {s \in Strategies : CanApply(s, "Gzip", found, listed)} IN
           /\ "gz-magic-restore" \in applies
           /\ \A t \in applies \ {"gz-magic-restore"} : ~Before(t, "gz-magic-restore")
<1> DEFINE s == "gz-magic-restore"
<1>1. found \cap Flipped = {} /\ found \cap Truncated = {}
  BY GzipCategories DEF Flipped, Truncated, InCategory, MagicReports, TrailerReports
<1>2. s \in Strategies /\ ProfileOf[s] = GzMagicRestore
  BY DEF Strategies, AllStrategies, ProfileOf
<1>3. CanApply(s, "Gzip", found, listed) /\ ProfileOf[s].priority = 85
  BY <1>2 DEF CanApply, GzMagicRestore, Profile
<1>4. ASSUME NEW t \in Strategies, t # s, "Gzip" \in ProfileOf[t].formats
      PROVE  ProfileOf[t].priority \in {82, 84} \/ ProfileOf[t].applies \in {Flipped, Truncated}
               \/ t = "gz-partial-inflate"
  <2>1. t \in {"bitflip", "gz-trailer-recompute", "gz-member-salvage", "gz-partial-inflate", "partial-extract"}
    BY <1>4 DEF Strategies, AllStrategies, ProfileOf, Profile,
           ZipCentralDirectoryRebuild, ZipCrcFix,
           TarChecksumFix, TarTerminatorAppend, TarSizeBoundaryResync, TarBlockReorder,
           SevenZSignatureRestore, TarContinuationSalvage, IsoSectorReconstruction, ForensicCarving
  <2>2. t = "bitflip" => ProfileOf[t].applies = Flipped
    BY DEF ProfileOf, BitFlipCorrection, Profile
  <2>3. t = "partial-extract" => ProfileOf[t].applies = Truncated
    BY DEF ProfileOf, PartialExtraction, Profile
  <2>4. t = "gz-trailer-recompute" => ProfileOf[t].priority = 82
    BY DEF ProfileOf, GzTrailerRecompute, Profile
  <2>5. t = "gz-member-salvage" => ProfileOf[t].priority = 84
    BY DEF ProfileOf, GzMemberSalvage, Profile
  <2> QED BY <2>1, <2>2, <2>3, <2>4, <2>5
<1>5. ASSUME NEW t \in Strategies, t # s, CanApply(t, "Gzip", found, listed)
      PROVE  ~Before(t, s)
  <2>1. "Gzip" \in ProfileOf[t].formats
    BY <1>5 DEF CanApply
  <2>2. ProfileOf[t].applies \notin {Flipped, Truncated}
    BY <1>1, <1>5 DEF CanApply
  <2>3. CASE ProfileOf[t].priority \in {82, 84}
    BY <1>3, <2>3 DEF Before
  <2>4. CASE t = "gz-partial-inflate"
    <3>1. ProfileOf[t] = GzPartialInflate
      BY <1>5, <2>4 DEF ProfileOf
    <3>2. ProfileOf[t].priority = 40
      BY <3>1 DEF GzPartialInflate, Profile
    <3> QED BY <1>3, <3>2 DEF Before
  <2> QED BY <1>4, <1>5, <2>1, <2>2, <2>3, <2>4
<1> QED BY <1>2, <1>3, <1>5

\* A file with only its magic damaged is reported for it, and for its trailer at
\* most; with the magic restored only the trailer can be reported.
LEMMA OnlyMagicFacts ==
  ASSUME NEW f, IsStream(f), OnlyMagicDamaged(f)
  PROVE  LET g == MagicRestored(f)
         IN  /\ StartsAsGzip(g)
             /\ \E t \in Seq(TrailerReports) :
                  /\ GzDefects(g) = t /\ GzDefects(f) = <<"GZ_MAGIC_001">> \o t
<1> DEFINE g == MagicRestored(f)
           n == Len(f)
           m == InflateMember(g, 1)
           b == 2 + g[1].extra
           plain == m.plain
           t == TrailerDefects(g, plain)
<1>1. /\ IsStream(g) /\ Len(g) = n /\ DOMAIN g = 1 .. n
      /\ \A i \in 2 .. n : g[i] = f[i]
      /\ g[1].kind = "fixed" /\ g[1].magic = TRUE
      /\ g[1].cm = f[1].cm /\ g[1].extra = f[1].extra /\ WithMagic(f) = g
  BY MagicFacts
<1>2. n \in Nat \ {0} /\ f[1].kind = "fixed" /\ f[1].magic = FALSE /\ g[1].extra \in Nat /\ 1 \in 1 .. n
  <2>1. n \in Nat \ {0} /\ f[1].kind = "fixed" /\ f[1].magic \in BOOLEAN /\ f[1].extra \in Nat
    BY BodyStartFacts
  <2>2. ~f[1].magic
    BY DEF OnlyMagicDamaged
  <2> QED BY <1>1, <2>1, <2>2
<1>3. IsStart(g[1]) /\ Proven(g, 1)
  BY <1>1, <1>2 DEF OnlyMagicDamaged
<1>4. /\ m.ok /\ m.next \in 1 + 1 .. n /\ g[m.next] = Trailer(plain)
  BY <1>1, <1>2, <1>3, ProvenFacts DEF PlainOf
<1>5. f[1].cm /\ g[1].cm
  BY <1>1, <1>3 DEF IsStart
<1>6. m = Inflate(g, b, n) /\ b \in Nat \ {0} /\ b >= 2
  <2>1. MemberBody(g, 1) = b
    BY <1>2 DEF MemberBody
  <2> QED BY <1>1, <1>2, <2>1 DEF InflateMember
<1> HIDE DEF g, n, m, b
<1>7. m.next > b /\ m.next <= n /\ m.next \in Nat
  <2>1. n <= n
    BY <1>2
  <2>2. m.next \in Nat /\ (m.ok => m.next > b)
    BY <1>1, <1>2, <1>6, <2>1, InflateType
  <2> QED BY <1>2, <1>4, <2>2
<1>8. b < n /\ ~(b > n)
  BY <1>2, <1>6, <1>7
<1>9. BodyStart(g) = b /\ BodyStart(f) = b
  <2>1. b = 2 + g[1].extra /\ Len(f) = n
    BY DEF b, n
  <2> QED BY <1>1, <1>8, <2>1 DEF BodyStart
<1>10. Inflate(g, b, n - 1) = m
  <2>1. n <= n
    BY <1>2
  <2>2. Inflate(g, b, n).next <= n => Inflate(g, b, n - 1) = Inflate(g, b, n)
    BY <1>1, <1>2, <1>6, <1>8, <2>1, ShorterByOne
  <2> QED BY <1>6, <1>7, <2>2
<1>11. Inflate(f, b, n - 1) = m
  <2>1. n - 1 \in Nat /\ n - 1 <= n /\ b \in Nat
    BY <1>2, <1>6
  <2>2. Inflate(g, b, n - 1) = Inflate(f, b, n - 1)
    BY <1>1, <1>6, <2>1, SameTail DEF n
  <2> QED BY <1>10, <2>2
<1>12. ~(Bytes(g) < GZ_MIN_SIZE) /\ ~(Bytes(f) < GZ_MIN_SIZE)
  <2>1. m.next \in 2 .. n /\ g[m.next].kind = "trailer" /\ f[m.next].kind = "trailer"
    <3>1. m.next \in 2 .. n
      BY <1>2, <1>4
    <3>2. g[m.next].kind = "trailer"
      BY <1>4 DEF Trailer
    <3> QED BY <1>1, <3>1, <3>2
  <2>2. Bytes(g) \in Nat /\ Bytes(g) >= GZ_MIN_SIZE
    BY <1>1, <1>2, <2>1, BytesFacts
  <2>3. Bytes(f) \in Nat /\ Bytes(f) >= GZ_MIN_SIZE
    BY <1>1, <1>2, <2>1, BytesFacts DEF n
  <2> QED BY <2>2, <2>3 DEF GZ_MIN_SIZE
<1>13. TrailerDefects(f, plain) = t
  <2>1. n \in 2 .. n
    BY <1>2, <1>6, <1>8
  <2>2. f[Len(f)] = g[Len(g)]
    BY <1>1, <2>1 DEF n
  <2> QED BY <2>2 DEF TrailerDefects
<1>14. t \in Seq(TrailerReports)
  <2> DEFINE x == IF Vouches(g[Len(g)], plain) THEN << >> ELSE <<"GZ_ICRC_001">>
             y == IF Counts(g[Len(g)], plain) THEN << >> ELSE <<"GZ_ISIZE_001">>
  <2>a. "GZ_ICRC_001" \in TrailerReports /\ "GZ_ISIZE_001" \in TrailerReports
    BY DEF TrailerReports
  <2>b. /\ << >> \in Seq(TrailerReports) /\ <<"GZ_ICRC_001">> \in Seq(TrailerReports)
        /\ <<"GZ_ISIZE_001">> \in Seq(TrailerReports)
    BY <2>a
  <2>1. x \in Seq(TrailerReports) /\ y \in Seq(TrailerReports)
    BY <2>b, Zenon
  <2>2. t = x \o y
    BY DEF TrailerDefects
  <2> HIDE DEF x, y, t
  <2> QED BY <2>1, <2>2
<1> HIDE DEF t
<1>15. GzDefects(g) = << >> \o t
  <2>1. Inflate(g, BodyStart(g), Len(g) - 1) = m
    BY <1>1, <1>9, <1>10
  <2> QED BY <1>1, <1>4, <1>5, <1>12, <2>1 DEF GzDefects, t
<1>16. GzDefects(f) = <<"GZ_MAGIC_001">> \o t
  <2>1. Inflate(f, BodyStart(f), Len(f) - 1) = m
    BY <1>9, <1>11 DEF n
  <2> QED BY <1>2, <1>4, <1>5, <1>12, <1>13, <2>1 DEF GzDefects
<1>17. << >> \o t = t
  BY <1>14
<1>18. StartsAsGzip(g)
  BY <1>1 DEF StartsAsGzip
<1> QED BY <1>14, <1>15, <1>16, <1>17, <1>18 DEF g

\* The findings of such a request, with or without a reference that contradicts it.
LEMMA MagicFindings ==
  ASSUME NEW j \in Jobs, j.found = GzDefects(j.src), OnlyMagicDamaged(j.src)
  PROVE  LET found == Corruptions(j) IN
           /\ found \in Seq(RuleIds) /\ Len(found) >= 1 /\ found[1] = "GZ_MAGIC_001"
           /\ RangeOf(found) \subseteq MagicReports \cup {"INTEGRITY_HASH_001"}
           /\ "GZ_MAGIC_001" \in RangeOf(found)
<1> DEFINE S == MagicReports \cup {"INTEGRITY_HASH_001"}
           more == Append(j.found, "INTEGRITY_HASH_001")
           found == Corruptions(j)
<1>1. PICK t \in Seq(TrailerReports) : j.found = <<"GZ_MAGIC_001">> \o t
  BY SourceIsStream, OnlyMagicFacts
<1>2. j.found \in Seq(S) /\ Len(j.found) >= 1 /\ j.found[1] = "GZ_MAGIC_001" /\ "INTEGRITY_HASH_001" \in S
  <2>1. t \in Seq(S) /\ <<"GZ_MAGIC_001">> \in Seq(S) /\ "INTEGRITY_HASH_001" \in S
    BY DEF MagicReports
  <2> HIDE DEF S
  <2> QED BY <1>1, <2>1
<1> HIDE DEF S
<1>3. more \in Seq(S) /\ Len(more) >= 1 /\ more[1] = "GZ_MAGIC_001"
  BY <1>2
<1>4. found = more \/ found = j.found
  BY DEF Corruptions
<1> HIDE DEF more
<1>5. found \in Seq(S) /\ Len(found) >= 1 /\ found[1] = "GZ_MAGIC_001"
  BY <1>2, <1>3, <1>4
<1>6. found \in Seq(RuleIds)
  BY CorruptionsType
<1> HIDE DEF found
<1>7. RangeOf(found) \subseteq S /\ "GZ_MAGIC_001" \in RangeOf(found)
  BY <1>5 DEF RangeOf
<1> QED BY <1>5, <1>6, <1>7 DEF found, S

\* Such a file scores at most 15, and at least 20 with its magic: the gate keeps
\* the repair, and as an improvement.
LEMMA MagicIsKept ==
  ASSUME NEW j \in Jobs, j.found = GzDefects(j.src), OnlyMagicDamaged(j.src),
         NEW x \in Staged["gz-magic-restore"][j.src]
  PROVE  Keep(j, "gz-magic-restore", x.bytes) /\ Improved(j, x.bytes)
<1> DEFINE f == j.src
           s == "gz-magic-restore"
           g == MagicRestored(f)
<1>0. s \in Strategies
  BY DEF Strategies, AllStrategies
<1>1. f \in Blobs /\ IsStream(f) /\ Staged[s][f] = StagedFor(s, f) /\ g # NoBytes
  BY <1>0, SourceIsStream
<1>2. x.bytes = g
  <2>1. StagedFor(s, f) = StagedAs(g, Bytes(f), 0, TRUE)
    BY <1>0, StagedIs
  <2> DEFINE size == Bytes(f)
  <2> HIDE DEF g, size, f, s
  <2>2. x \in StagedAs(g, size, 0, TRUE)
    BY <1>1, <2>1 DEF f, s, size
  <2> QED BY <2>2 DEF StagedAs
<1>3. x \in Stagings
  BY <1>0, StagedType
<1>4. PICK t \in Seq(TrailerReports) : GzDefects(g) = t
  BY <1>1, OnlyMagicFacts
<1>5. StartsAsGzip(g)
  BY <1>1, OnlyMagicFacts
<1> HIDE DEF g
<1>6. g \in Blobs /\ Seen[g] = SeenIn(g)
  BY <1>1, <1>2, <1>3, StreamsAssumption DEF Stagings
<1>7. HealthAfter(g) = Score(t)
  <2>1. Seen[g].locked = FALSE /\ Seen[g].anon = t
    BY <1>4, <1>5, <1>6 DEF SeenIn
  <2> QED BY <1>1, <2>1 DEF HealthAfter
<1>8. Score(t) >= 20 /\ Score(t) \in 0 .. 100
  <2>1. t \in Seq(RuleIds) /\ \A i \in 1 .. Len(t) : "metadata" \notin PenaltyFor[t[i]].hits
    BY MagicPenalties DEF MagicReports
  <2> QED BY <2>1, ScoreFacts
<1>9. BaseHealth(j) <= 15 /\ BaseHealth(j) \in 0 .. 100
  <2> DEFINE found == Corruptions(j)
  <2>1. found \in Seq(RuleIds) /\ Len(found) >= 1 /\ found[1] = "GZ_MAGIC_001"
    BY MagicFindings
  <2> HIDE DEF found
  <2>2. 1 \in 1 .. Len(found)
    BY <2>1
  <2>3. Score(found) <= 15 /\ Score(found) \in 0 .. 100
    BY <2>1, <2>2, MagicPenalties, ScoreFacts
  <2> QED BY <2>3 DEF BaseHealth, found
<1> DEFINE h == HealthAfter(g)
           b == BaseHealth(j)
<1>10. h \in 0 .. 100 /\ h >= 20 /\ b \in 0 .. 100 /\ b <= 15
  BY <1>7, <1>8, <1>9
<1> HIDE DEF h, b
<1>11. h # None /\ h > b /\ ~(h < b)
  BY <1>10 DEF None
<1>12. Improved(j, g) /\ ~Regressed(j, g)
  BY <1>11 DEF Improved, Regressed, h, b
<1> QED BY <1>1, <1>2, <1>12, GzipRisks DEF Keep

\* Damage to the magic alone is undone, whatever the file holds.
THEOREM MagicTheorem == Spec => []MagicDamageIsUndone
<1>1. SafetyInv /\ StagedInv /\ PassesInv /\ SelectedInv => MagicDamageIsUndone
  <2> DEFINE f == job.src
             s == "gz-magic-restore"
             found == Corruptions(job)
  <2> SUFFICES ASSUME SafetyInv, StagedInv, PassesInv, SelectedInv,
                      result = "report", AsksForFile(job), ~job.aggressive, job.forced = "auto",
                      job.found = GzDefects(f), OnlyMagicDamaged(f)
               PROVE  report.success /\ output = WithMagic(f)
    BY DEF MagicDamageIsUndone
  <2>1. job \in Jobs
    BY DEF SafetyInv, TypeInv, TypeOK
  <2>2. /\ f \in Blobs /\ IsStream(f) /\ Seen[f].format = "Gzip"
    <3>1. f \in Blobs /\ IsStream(f) /\ Seen[f] = SeenIn(f)
      BY <2>1, SourceIsStream
    <3>2. SeenIn(f).format = "Gzip"
      BY DEF SeenIn
    <3> QED BY <3>1, <3>2
  <2>3. /\ RangeOf(found) \subseteq MagicReports \cup {"INTEGRITY_HASH_001"}
        /\ "GZ_MAGIC_001" \in RangeOf(found) /\ ~IsClean(job)
    <3>1. /\ RangeOf(found) \subseteq MagicReports \cup {"INTEGRITY_HASH_001"}
          /\ "GZ_MAGIC_001" \in RangeOf(found)
      BY <2>1, MagicFindings
    <3> QED BY <3>1, RangeOfEmpty DEF IsClean
  <2>4. s \in Selected(job) /\ \A t \in Selected(job) \ {s} : ~Before(t, s)
    <3>1. Selected(job) = {t \in Strategies : CanApply(t, "Gzip", RangeOf(found), job.listed)}
      BY <2>2, <2>3 DEF Selected, Applicable
    <3> QED BY <2>3, <3>1, MagicApplies
  <2>5. \A x \in Staged[s][f] : Keep(job, s, x.bytes) /\ Improved(job, x.bytes)
    BY <2>1, MagicIsKept
  <2>6. kept # << >> /\ LastKept.by = s
    BY <2>4, <2>5, FirstIsPublished
  <2>7. report.success /\ outcome.bytes = LastKept.bytes
    BY <2>6 DEF SafetyInv, KeptInv
  <2>8. Published
    <3>1. kept \in Seq(KeptRecords)
      BY DEF SafetyInv, TypeInv, TypeOK
    <3>2. LastKept \in KeptRecords
      BY <2>6, <3>1, EmptyByLength DEF LastKept
    <3>3. LastKept.bytes \in Blobs
      BY <3>2 DEF KeptRecords
    <3> QED BY <2>7, <3>3, BlobsAssumption DEF Published, ToCommit, AsksForFile
  <2>9. PublishedBy(f)
    BY <2>8, PublishedGzip
  <2>10. output = MagicRestored(f)
    <3> HIDE DEF f
    <3> QED BY <2>6, <2>9 DEF PublishedBy, Verbatim
  <2> QED BY <2>2, <2>7, <2>10, MagicFacts
<1> QED BY <1>1, SafetyInvariant, StagedInvariant, SelectedInvariant, PTL

\* A file without a finding has a header that is right and a stream that ends before
\* the last eight bytes, which vouch for it.
LEMMA CleanFile ==
  ASSUME NEW f, IsStream(f), GzDefects(f) = << >>
  PROVE  LET b == Inflate(f, BodyStart(f), Len(f) - 1)
         IN  /\ f[1].magic /\ f[1].cm /\ b.ok
             /\ Vouches(f[Len(f)], b.plain) /\ Counts(f[Len(f)], b.plain)
<1> DEFINE b == Inflate(f, BodyStart(f), Len(f) - 1)
           c == f[Len(f)]
           magic == IF f[1].magic THEN << >> ELSE <<"GZ_MAGIC_001">>
           crc == IF Vouches(c, b.plain) THEN << >> ELSE <<"GZ_ICRC_001">>
           isize == IF Counts(c, b.plain) THEN << >> ELSE <<"GZ_ISIZE_001">>
           S == {"GZ_MAGIC_001", "GZ_ICRC_001", "GZ_ISIZE_001"}
<1>1. TrailerDefects(f, b.plain) = crc \o isize
  BY DEF TrailerDefects
<1>2. GzDefects(f) = IF Bytes(f) < GZ_MIN_SIZE THEN <<"GZ_TRUNC_001">>
                     ELSE IF ~f[1].cm THEN Append(magic, "GZ_CM_001")
                     ELSE IF b.ok THEN magic \o (crc \o isize)
                     ELSE IF f[1].magic THEN <<"GZ_TRUNC_001">> ELSE magic
  BY <1>1 DEF GzDefects
<1>3. /\ magic \in Seq(S) /\ crc \in Seq(S) /\ isize \in Seq(S)
      /\ magic = << >> => f[1].magic
      /\ crc = << >> => Vouches(c, b.plain)
      /\ isize = << >> => Counts(c, b.plain)
  <2>1. << >> \in Seq(S) /\ <<"GZ_MAGIC_001">> \in Seq(S) /\ <<"GZ_ICRC_001">> \in Seq(S) /\ <<"GZ_ISIZE_001">> \in Seq(S)
    OBVIOUS
  <2>2. << >> # <<"GZ_MAGIC_001">> /\ << >> # <<"GZ_ICRC_001">> /\ << >> # <<"GZ_ISIZE_001">>
    OBVIOUS
  <2> HIDE DEF S, b, c
  <2> QED BY <2>1, <2>2
<1>4. Append(magic, "GZ_CM_001") # << >> /\ <<"GZ_TRUNC_001">> # << >>
  <2>1. Append(<< >>, "GZ_CM_001") # << >> /\ Append(<<"GZ_MAGIC_001">>, "GZ_CM_001") # << >>
    OBVIOUS
  <2>2. <<"GZ_TRUNC_001">> # << >>
    OBVIOUS
  <2> QED BY <2>1, <2>2
<1> HIDE DEF S, magic, crc, isize
<1>5. f[1].cm /\ (~b.ok => ~f[1].magic /\ magic = << >>) /\ (b.ok => magic \o (crc \o isize) = << >>)
  <2> HIDE DEF b
  <2> QED BY <1>2, <1>4
<1>6. b.ok
  BY <1>3, <1>5
<1>7. Len(magic) + (Len(crc) + Len(isize)) = 0
  <2>1. crc \o isize \in Seq(S) /\ Len(crc \o isize) = Len(crc) + Len(isize)
    BY <1>3
  <2>2. Len(magic \o (crc \o isize)) = Len(magic) + Len(crc \o isize)
    BY <1>3, <2>1
  <2>3. Len(<< >>) = 0
    OBVIOUS
  <2> QED BY <1>5, <1>6, <2>1, <2>2, <2>3
<1>8. Len(magic) = 0 /\ Len(crc) = 0 /\ Len(isize) = 0
  BY <1>3, <1>7
<1>9. magic = << >> /\ crc = << >> /\ isize = << >>
  BY <1>3, <1>8, EmptyByLength
<1> QED BY <1>3, <1>5, <1>6, <1>9

\* The detector, which finds the trailer from the end, and the salvage, which finds
\* it behind the stream, read the same member in a file without a finding: cutting
\* the last cell off changes nothing for a stream that ends before it.
THEOREM CleanTheorem == Spec => []CleanMeansProven
<1>1. SafetyInv => CleanMeansProven
  <2> DEFINE f == job.src
             n == Len(f)
             a == InflateMember(f, 1)
             b == Inflate(f, BodyStart(f), n - 1)
             x == f[1].extra
  <2> SUFFICES ASSUME SafetyInv, job.caller = "cli", IsClean(job), a.next >= n
               PROVE  1 \in ProvenMembers(f) /\ ReadableContent(f) = PlainOf(f, 1)
    BY DEF CleanMeansProven
  <2>1. job \in Jobs
    BY DEF SafetyInv, TypeInv, TypeOK
  <2>2. IsStream(f) /\ Seen[f] = SeenIn(f)
    BY <2>1, SourceIsStream
  <2>3. job.found = GzDefects(f)
    <3>1. job.found = Seen[f].named
      BY <2>1, JobsAssumption
    <3> QED BY <2>2, <3>1 DEF SeenIn
  <2>4. job.found = << >>
    <3>1. job.found \in Seq(RuleIds)
      BY <2>1, JobType DEF Requests
    <3>2. Append(job.found, "INTEGRITY_HASH_001") # << >>
      BY <3>1
    <3> QED BY <3>2 DEF IsClean, Corruptions
  <2>5. /\ f[1].magic /\ f[1].cm /\ b.ok /\ Vouches(f[n], b.plain) /\ Counts(f[n], b.plain)
    BY <2>2, <2>3, <2>4, CleanFile
  <2>6. /\ n \in Nat \ {0} /\ f[1].kind = "fixed" /\ x \in Nat
        /\ BodyStart(f) \in Nat \ {0} /\ BodyStart(f) >= 2 /\ BodyStart(f) <= n + 1
        /\ BodyStart(f) = IF 2 + x > n THEN n + 1 ELSE 2 + x
    BY <2>2, BodyStartFacts DEF BodyStart
  <2>7. BodyStart(f) <= n - 1
    <3>1. b.ok => ~(BodyStart(f) > n - 1)
      BY DEF Inflate
    <3> HIDE DEF b, n
    <3> QED BY <2>5, <2>6, <3>1
  <2>8. BodyStart(f) = 2 + x /\ BodyStart(f) < n /\ 1 + x <= n
    BY <2>6, <2>7
  <2>9. HasHeader(f, 1) /\ IsStart(f[1]) /\ MemberBody(f, 1) = BodyStart(f)
    BY <2>5, <2>6, <2>8 DEF HasHeader, IsStart, MemberBody
  <2>10. a = b
    <3>1. a = Inflate(f, BodyStart(f), n)
      BY <2>9 DEF InflateMember
    <3>2. b.ok => b = Inflate(f, BodyStart(f), n)
      <4>1. n \in Nat /\ n <= Len(f)
        BY <2>6
      <4> QED BY <2>2, <2>6, <2>8, <4>1, ShorterByOne
    <3> HIDE DEF a, b
    <3> QED BY <2>5, <3>1, <3>2
  <2>11. a.next \in Nat /\ a.next <= n
    <3>1. n - 1 \in Nat /\ n - 1 <= n
      BY <2>6
    <3>2. b.next \in Nat /\ (b.ok => b.next <= n - 1 + 1)
      BY <2>2, <2>6, <3>1, InflateType
    <3> HIDE DEF a, b, n
    <3> QED BY <2>5, <2>6, <2>10, <3>2
  <2>12. a.next = n
    <3> HIDE DEF a, n
    <3> QED BY <2>6, <2>11
  <2>13. Proven(f, 1)
    <3> HIDE DEF b, n
    <3>1. a.ok /\ a.next <= n /\ Vouches(f[a.next], a.plain) /\ Counts(f[a.next], a.plain)
      BY <2>5, <2>10, <2>11, <2>12
    <3> QED BY <2>9, <3>1 DEF Proven, n
  <2>14. 1 \in 1 .. n
    BY <2>6
  <2>15. 1 \in ProvenMembers(f) /\ IsSeq(PlainOf(f, 1))
    BY <2>2, <2>9, <2>13, <2>14, ProvenFacts
  <2>16. {1} = Outside(f, {1})
    <3>1. ASSUME NEW p \in ProvenMembers(f), 1 < p => a.next < p PROVE p = 1
      <4>1. p \in 1 .. n
        BY <2>2, SeqOfElements DEF ProvenMembers, IsStream
      <4> HIDE DEF a, n
      <4> QED BY <2>6, <2>12, <3>1, <4>1
    <3> QED BY <2>15, <3>1 DEF Outside
  <2>17. Outermost(f) = {1}
    <3>1. {1} \in SUBSET ProvenMembers(f)
      BY <2>15
    <3> HIDE DEF f
    <3> QED BY <2>2, <2>16, <3>1, OutermostIs
  <2> QED BY <2>2, <2>15, <2>17, SingleContent
<1> QED BY <1>1, SafetyInvariant, PTL
=============================================================================
