------------------------- MODULE TarRecoveryProofs -------------------------
(***************************************************************************)
(* Proofs about the TAR repairs, for archives of any number of blocks:     *)
(* what tar-continuation-salvage publishes is an archive without a defect  *)
(* that holds proven members of the source and no others; no repair costs  *)
(* a member that could be read; and damage to checksum fields alone or to  *)
(* the terminator alone is undone.                                         *)
(***************************************************************************)
EXTENDS TarRecovery, RecoveryPassesProofs, FoldProofs

-----------------------------------------------------------------------------
\* Blocks and members.

LEMMA TarType ==
  ASSUME NEW a \in Archives
  PROVE  /\ a.blocks \in Seq(BlockRecords) /\ a.rest \in Seq(HalfRecords)
         /\ Len(a.blocks) \in Nat /\ Len(a.rest) \in {0, 1}
         /\ \A p \in 1 .. Len(a.blocks) : a.blocks[p] \in BlockRecords
<1>1. a.blocks \in Seq(BlockRecords) /\ a.rest \in Seq(HalfRecords) /\ Len(a.rest) <= 1
  BY DEF Archives
<1>2. Len(a.blocks) \in Nat /\ Len(a.rest) \in Nat
  BY <1>1
<1>3. \A n \in Nat : n <= 1 => n \in {0, 1}
  OBVIOUS
<1>4. \A p \in 1 .. Len(a.blocks) : a.blocks[p] \in BlockRecords
  BY <1>1
<1> QED BY <1>1, <1>2, <1>3, <1>4

\* The blocks of a payload are as many as its half blocks need.
LEMMA DataBlocksFacts ==
  ASSUME NEW b \in BlockRecords
  PROVE  /\ SizeIn(b) \in Nat /\ DataBlocks(b) \in Nat
         /\ SizeIn(b) <= 2 * DataBlocks(b) /\ 2 * DataBlocks(b) <= SizeIn(b) + 1
<1>1. SizeIn(b) \in Nat
  BY DEF SizeIn, BlockRecords, HalfRecords
<1> DEFINE n == SizeIn(b)
<1>2. DataBlocks(b) = (n + 1) \div 2 /\ n \in Nat
  BY <1>1 DEF DataBlocks
<1> HIDE DEF n
<1>3. (n + 1) \div 2 \in Nat /\ n <= 2 * ((n + 1) \div 2) /\ 2 * ((n + 1) \div 2) <= n + 1
  BY <1>2
<1> QED BY <1>1, <1>2, <1>3 DEF n

\* A member that is all there is its header and the blocks of its data.
LEMMA WholeMember ==
  ASSUME NEW a \in Archives, NEW p \in 1 .. Len(a.blocks), Whole(a, p)
  PROVE  /\ MemberAt(a, p) \in Seq(BlockRecords)
         /\ Len(MemberAt(a, p)) = 1 + DataBlocks(a.blocks[p])
         /\ MemberAt(a, p)[1] = a.blocks[p]
<1> DEFINE n == Len(a.blocks)
           r == Len(a.rest)
           d == DataBlocks(a.blocks[p])
           z == SizeIn(a.blocks[p])
           file == a.blocks \o a.rest
<1>1. /\ n \in Nat /\ r \in {0, 1} /\ d \in Nat /\ z \in Nat /\ z <= 2 * d /\ 2 * d <= z + 1
      /\ 2 * p + z <= 2 * n + r /\ p \in 1 .. n
  BY TarType, DataBlocksFacts DEF Whole, HalfBlocks
<1>2. /\ file \in Seq(BlockRecords) /\ Len(file) = n + r
      /\ \A i \in 1 .. n : file[i] = a.blocks[i]
  <2>1. a.rest \in Seq(BlockRecords)
    BY TarType DEF BlockRecords
  <2>2. a.blocks \in Seq(BlockRecords)
    BY TarType
  <2>3. \A x, y \in Seq(BlockRecords) :
          /\ x \o y \in Seq(BlockRecords) /\ Len(x \o y) = Len(x) + Len(y)
          /\ \A i \in 1 .. Len(x) : (x \o y)[i] = x[i]
    OBVIOUS
  <2> QED BY <2>1, <2>2, <2>3, Zenon
<1>3. MemberAt(a, p) = SubSeq(file, p, IF p + d > Len(file) THEN Len(file) ELSE p + d)
  BY DEF MemberAt
<1> HIDE DEF n, r, d, z, file
<1>4. p + d <= n + r /\ p + d \in Int /\ p \in Int /\ p <= p + d /\ ~(p + d > n + r)
  BY <1>1
<1>5. MemberAt(a, p) = SubSeq(file, p, p + d)
  BY <1>2, <1>3, <1>4
<1>6. \A i \in p .. p + d : file[i] \in BlockRecords
  <2>1. \A i \in p .. p + d : i \in 1 .. n + r
    BY <1>1, <1>4
  <2> QED BY <1>2, <2>1
<1>7. /\ SubSeq(file, p, p + d) \in Seq(BlockRecords)
      /\ Len(SubSeq(file, p, p + d)) = IF p <= p + d THEN (p + d) - p + 1 ELSE 0
      /\ \A i \in 1 .. (p + d) - p + 1 : SubSeq(file, p, p + d)[i] = file[p + i - 1]
  BY <1>4, <1>6, SubSeqProperties
<1>8. (p + d) - p + 1 = 1 + d /\ 1 \in 1 .. (p + d) - p + 1 /\ p + 1 - 1 = p
  BY <1>1
<1> QED BY <1>1, <1>2, <1>4, <1>5, <1>7, <1>8 DEF d

-----------------------------------------------------------------------------
\* The reader and the salvage walk through the blocks.

Over(a) == [p \in 1 .. Len(a.blocks) |-> p + 1 + DataBlocks(a.blocks[p])]

GoesOn(a) == [p \in 1 .. Len(a.blocks) |-> ~(TwoZeros(a, p) \/ CutShort(a, p))]

Each(a) == [p \in 1 .. Len(a.blocks) |-> {p}]

LEMMA ReaderSteps ==
  ASSUME NEW a \in Archives
  PROVE  \A p \in 1 .. Len(a.blocks) :
           /\ Each(a)[p] \subseteq {p}
           /\ GoesOn(a)[p] => Over(a)[p] \in p + 1 .. Len(a.blocks) + 1
<1> SUFFICES ASSUME NEW p \in 1 .. Len(a.blocks), GoesOn(a)[p]
             PROVE  Over(a)[p] \in p + 1 .. Len(a.blocks) + 1
  BY DEF Each
<1>1. ~(p + DataBlocks(a.blocks[p]) > Len(a.blocks)) /\ Over(a)[p] = p + 1 + DataBlocks(a.blocks[p])
  BY DEF GoesOn, Over, CutShort
<1>2. DataBlocks(a.blocks[p]) \in Nat /\ Len(a.blocks) \in Nat
  BY TarType, DataBlocksFacts
<1> QED BY <1>1, <1>2

LEMMA ReaderWalk ==
  ASSUME NEW a \in Archives
  PROVE  \E w : /\ Walk(w, Len(a.blocks), Len(a.blocks) + 1, Each(a), GoesOn(a), Over(a))
                /\ ReadBlocks(a) = w[1]
<1> DEFINE n == Len(a.blocks)
           Read(f) == [p \in 1 .. n + 1 |->
                         IF p > n THEN {}
                         ELSE {p} \cup IF TwoZeros(a, p) \/ CutShort(a, p) THEN {}
                                       ELSE f[p + 1 + DataBlocks(a.blocks[p])]]
           On(f) == [p \in 1 .. n + 1 |->
                       IF p > n THEN {} ELSE Each(a)[p] \cup (IF GoesOn(a)[p] THEN f[Over(a)[p]] ELSE {})]
           read == CHOOSE f : f = Read(f)
<1>1. n \in Nat
  BY TarType
<1>2. ReadBlocks(a) = read[1]
  BY DEF ReadBlocks
<1> HIDE DEF n
<1>3. \A f : Read(f) = On(f)
  <2> SUFFICES ASSUME NEW f, NEW p \in 1 .. n + 1, ~(p > n)
               PROVE  {p} \cup (IF TwoZeros(a, p) \/ CutShort(a, p) THEN {}
                                ELSE f[p + 1 + DataBlocks(a.blocks[p])])
                        = Each(a)[p] \cup (IF GoesOn(a)[p] THEN f[Over(a)[p]] ELSE {})
    OBVIOUS
  <2>1. p \in 1 .. Len(a.blocks)
    BY <1>1 DEF n
  <2>2. /\ Each(a)[p] = {p} /\ GoesOn(a)[p] = ~(TwoZeros(a, p) \/ CutShort(a, p))
        /\ Over(a)[p] = p + 1 + DataBlocks(a.blocks[p])
    BY <2>1 DEF Each, GoesOn, Over
  <2> QED BY <2>2
<1>4. \E w : Walk(w, n, n + 1, Each(a), GoesOn(a), Over(a))
  <2>1. \A p \in 1 .. n : GoesOn(a)[p] => Over(a)[p] \in p + 1 .. n + 1
    BY ReaderSteps DEF n
  <2>2. n + 1 \in Nat
    BY <1>1
  <2> QED BY <1>1, <2>1, <2>2, WalkExists
<1>5. PICK w : w = On(w)
  BY <1>4 DEF Walk
<1> HIDE DEF Read
<1>6. w = Read(w)
  <2> HIDE DEF On
  <2> QED BY <1>3, <1>5
<1>7. read = Read(read)
  BY <1>6
<1> HIDE DEF read
<1>8. read = On(read)
  <2> HIDE DEF On
  <2> QED BY <1>3, <1>7
<1>9. Walk(read, n, n + 1, Each(a), GoesOn(a), Over(a))
  BY <1>8 DEF Walk
<1> QED BY <1>2, <1>9 DEF n

\* The places the reader comes to: the first block, and from each the one behind its
\* data, until it stops.
LEMMA ReaderFacts ==
  ASSUME NEW a \in Archives
  PROVE  LET n == Len(a.blocks)
             R == ReadBlocks(a)
         IN  /\ n >= 1 => 1 \in R
             /\ \A p \in R : p \in 1 .. n /\ (GoesOn(a)[p] /\ Over(a)[p] <= n => Over(a)[p] \in R)
             /\ \A q \in R, p \in R : q < p => GoesOn(a)[q] /\ Over(a)[q] <= p
             /\ \A q \in R : q # 1 => \E p \in R : p < q /\ GoesOn(a)[p] /\ Over(a)[p] = q
<1> DEFINE n == Len(a.blocks)
           R == ReadBlocks(a)
           own == Each(a)
           go == GoesOn(a)
           next == Over(a)
<1>1. PICK w : Walk(w, n, n + 1, own, go, next) /\ R = w[1]
  BY ReaderWalk
<1>2. n \in Nat
  BY TarType
<1>3. \A p \in 1 .. n : own[p] = {p} /\ (go[p] => next[p] \in p + 1 .. n + 1)
  BY ReaderSteps DEF Each
<1> HIDE DEF n, R, own, go, next
<1>4. n + 1 \in Nat /\ 1 \in 1 .. n + 1
  BY <1>2
<1>5. /\ 1 <= n => 1 \in w[1]
      /\ \A p \in w[1] : p \in 1 .. n /\ (go[p] /\ next[p] <= n => next[p] \in w[1])
      /\ \A q \in w[1], p \in w[1] : q < p => go[q] /\ next[q] <= p
      /\ \A q \in w[1] : q # 1 => \E p \in w[1] : p < q /\ go[p] /\ next[p] = q
  BY <1>1, <1>2, <1>3, <1>4, WalkChain
<1>6. n >= 1 => 1 <= n
  BY <1>2
<1> QED BY <1>1, <1>5, <1>6 DEF n, R, go, next

\* b has the blocks of a, as far as the reader looks at them, and maybe more.
Extends(b, a) ==
  /\ Len(a.blocks) <= Len(b.blocks)
  /\ \A p \in 1 .. Len(a.blocks) : /\ DataBlocks(b.blocks[p]) = DataBlocks(a.blocks[p])
                                   /\ IsZero(b.blocks[p]) <=> IsZero(a.blocks[p])

\* The steps before the last block are the same in both.
LEMMA SameSteps ==
  ASSUME NEW a \in Archives, NEW b \in Archives, Extends(b, a), NEW p \in 1 .. Len(a.blocks)
  PROVE  /\ p \in 1 .. Len(b.blocks) /\ Over(b)[p] = Over(a)[p]
         /\ Over(a)[p] = p + 1 + DataBlocks(a.blocks[p]) /\ DataBlocks(a.blocks[p]) \in Nat
         /\ ~CutShort(a, p) => ~CutShort(b, p)
         /\ p < Len(a.blocks) => (TwoZeros(b, p) <=> TwoZeros(a, p))
<1> DEFINE n == Len(a.blocks)
           k == Len(b.blocks)
           d == DataBlocks(a.blocks[p])
<1>1. n \in Nat /\ k \in Nat /\ n <= k /\ d \in Nat /\ DataBlocks(b.blocks[p]) = d
  BY TarType, DataBlocksFacts DEF Extends
<1>2. p \in 1 .. k
  BY <1>1
<1>3. Over(a)[p] = p + 1 + d /\ Over(b)[p] = p + 1 + d
  BY <1>1, <1>2 DEF Over
<1>4. (CutShort(a, p) <=> p + d > n) /\ (CutShort(b, p) <=> p + d > k)
  BY <1>1 DEF CutShort
<1>5. ASSUME p < n PROVE TwoZeros(b, p) <=> TwoZeros(a, p)
  <2>1. p + 1 \in 1 .. n /\ p < k
    BY <1>1, <1>5
  <2>2. (IsZero(b.blocks[p]) <=> IsZero(a.blocks[p])) /\ (IsZero(b.blocks[p + 1]) <=> IsZero(a.blocks[p + 1]))
    BY <2>1 DEF Extends
  <2> QED BY <1>5, <2>1, <2>2 DEF TwoZeros
<1> HIDE DEF n, k, d
<1>6. ~(p + d > n) => ~(p + d > k)
  BY <1>1
<1> QED BY <1>1, <1>2, <1>3, <1>4, <1>5, <1>6 DEF n, k, d

\* What is read of an archive is read when it has more blocks, too.
LEMMA SameReading ==
  ASSUME NEW a \in Archives, NEW b \in Archives, Extends(b, a)
  PROVE  ReadBlocks(a) \subseteq ReadBlocks(b)
<1> DEFINE R == ReadBlocks(a)
           Q == ReadBlocks(b)
           n == Len(a.blocks)
           new == {p \in R : p \notin Q}
<1>0. n \in Nat /\ Len(b.blocks) \in Nat /\ n <= Len(b.blocks)
  BY TarType DEF Extends
<1>1. /\ \A p \in R : p \in 1 .. n
      /\ \A q \in R : q # 1 => \E p \in R : p < q /\ GoesOn(a)[p] /\ Over(a)[p] = q
  BY ReaderFacts
<1>2. /\ Len(b.blocks) >= 1 => 1 \in Q
      /\ \A p \in Q : GoesOn(b)[p] /\ Over(b)[p] <= Len(b.blocks) => Over(b)[p] \in Q
  BY ReaderFacts
<1> HIDE DEF R, Q
<1>3. ASSUME new # {} PROVE FALSE
  <2>1. new \subseteq Nat
    BY <1>1
  <2>2. PICK q \in new : \A p \in new : q <= p
    BY <1>3, <2>1, LeastElement
  <2>3. q \in R /\ q \notin Q /\ q \in 1 .. n
    BY <1>1
  <2>4. q # 1
    <3>1. Len(b.blocks) >= 1
      BY <1>0, <2>3
    <3> QED BY <1>2, <2>3, <3>1
  <2>5. PICK p \in R : p < q /\ GoesOn(a)[p] /\ Over(a)[p] = q
    BY <1>1, <2>3, <2>4
  <2>6. p \in 1 .. n /\ p \in Q /\ p < n
    <3>1. p \in 1 .. n
      BY <1>1
    <3>2. ~(q <= p)
      BY <2>3, <2>5, <3>1
    <3>3. p \notin new
      <4> HIDE DEF new
      <4> QED BY <2>2, <3>2
    <3>4. p < n
      BY <1>0, <2>3, <2>5, <3>1
    <3> QED BY <3>1, <3>3, <3>4
  <2>7. ~TwoZeros(a, p) /\ ~CutShort(a, p)
    BY <2>5, <2>6 DEF GoesOn
  <2>8. p \in 1 .. Len(b.blocks) /\ Over(b)[p] = q /\ ~TwoZeros(b, p) /\ ~CutShort(b, p)
    BY <2>5, <2>6, <2>7, SameSteps
  <2>9. GoesOn(b)[p] /\ q <= Len(b.blocks)
    <3>1. GoesOn(b)[p]
      BY <2>8 DEF GoesOn
    <3> QED BY <1>0, <2>3, <3>1
  <2> QED BY <1>2, <2>3, <2>6, <2>8, <2>9
<1> QED BY <1>3 DEF R, Q

\* The walk of the salvage.
Valid(a, q) == HasMagic(a.blocks[q]) /\ SumOk(a.blocks[q])

Takes(a) == [q \in 1 .. Len(a.blocks) |-> IF Valid(a, q) /\ Whole(a, q) THEN {q} ELSE {}]

Onward(a) == [q \in 1 .. Len(a.blocks) |-> ~Valid(a, q) \/ Whole(a, q)]

Beyond(a) == [q \in 1 .. Len(a.blocks) |-> IF Valid(a, q) THEN q + 1 + DataBlocks(a.blocks[q]) ELSE q + 1]

LEMMA SalvageSteps ==
  ASSUME NEW a \in Archives, NEW q \in 1 .. Len(a.blocks)
  PROVE  /\ Takes(a)[q] = IF Valid(a, q) /\ Whole(a, q) THEN {q} ELSE {}
         /\ Onward(a)[q] = (~Valid(a, q) \/ Whole(a, q))
         /\ Beyond(a)[q] = IF Valid(a, q) THEN q + 1 + DataBlocks(a.blocks[q]) ELSE q + 1
         /\ Takes(a)[q] \subseteq {q}
         /\ Onward(a)[q] => Beyond(a)[q] \in q + 1 .. Len(a.blocks) + 2
<1> DEFINE n == Len(a.blocks)
           d == DataBlocks(a.blocks[q])
           z == SizeIn(a.blocks[q])
           r == Len(a.rest)
<1>1. /\ Takes(a)[q] = IF Valid(a, q) /\ Whole(a, q) THEN {q} ELSE {}
      /\ Onward(a)[q] = (~Valid(a, q) \/ Whole(a, q))
      /\ Beyond(a)[q] = IF Valid(a, q) THEN q + 1 + DataBlocks(a.blocks[q]) ELSE q + 1
  BY DEF Takes, Onward, Beyond
<1>2. /\ d \in Nat /\ z \in Nat /\ 2 * d <= z + 1 /\ n \in Nat /\ (r = 0 \/ r = 1)
      /\ Whole(a, q) => 2 * q + z <= 2 * n + r
  BY TarType, DataBlocksFacts DEF Whole, HalfBlocks
<1> HIDE DEF n, d, z, r
<1>3. Whole(a, q) => q + 1 + d \in q + 1 .. n + 2
  BY <1>2 DEF n
<1>4. q + 1 \in q + 1 .. n + 2
  BY <1>2 DEF n
<1> QED BY <1>1, <1>3, <1>4 DEF n, d

LEMMA SalvageWalk ==
  ASSUME NEW a \in Archives
  PROVE  \E w : /\ Walk(w, Len(a.blocks), Len(a.blocks) + 2, Takes(a), Onward(a), Beyond(a))
                /\ Salvaged(a) = w[1]
<1> DEFINE n == Len(a.blocks)
           own == Takes(a)
           go == Onward(a)
           next == Beyond(a)
           Found(f) == [q \in 1 .. n + 2 |->
                          IF q > n THEN {}
                          ELSE IF ~(HasMagic(a.blocks[q]) /\ SumOk(a.blocks[q])) THEN f[q + 1]
                          ELSE IF ~Whole(a, q) THEN {}
                          ELSE {q} \cup f[q + 1 + DataBlocks(a.blocks[q])]]
           On(f) == [q \in 1 .. n + 2 |->
                       IF q > n THEN {} ELSE own[q] \cup (IF go[q] THEN f[next[q]] ELSE {})]
           walk == CHOOSE f : f = Found(f)
<1>1. n \in Nat /\ n + 2 \in Nat
  BY TarType
<1>2. Salvaged(a) = walk[1]
  BY DEF Salvaged
<1>3. \A f : Found(f) = On(f)
  <2> SUFFICES ASSUME NEW f, NEW q \in 1 .. n + 2, ~(q > n)
               PROVE  (IF ~(HasMagic(a.blocks[q]) /\ SumOk(a.blocks[q])) THEN f[q + 1]
                       ELSE IF ~Whole(a, q) THEN {}
                       ELSE {q} \cup f[q + 1 + DataBlocks(a.blocks[q])])
                        = own[q] \cup (IF go[q] THEN f[next[q]] ELSE {})
    <3> HIDE DEF n, own, go, next
    <3> QED OBVIOUS
  <2>1. q \in 1 .. n
    <3> HIDE DEF n
    <3> QED BY <1>1
  <2>2. /\ own[q] = IF Valid(a, q) /\ Whole(a, q) THEN {q} ELSE {}
        /\ go[q] = (~Valid(a, q) \/ Whole(a, q))
        /\ next[q] = IF Valid(a, q) THEN q + 1 + DataBlocks(a.blocks[q]) ELSE q + 1
    BY <2>1, SalvageSteps
  <2> HIDE DEF own, go, next
  <2> QED BY <2>2 DEF Valid
<1>4. \A q \in 1 .. n : go[q] => next[q] \in q + 1 .. n + 2
  BY SalvageSteps
<1> HIDE DEF n, Found, own, go, next
<1>5. \E w : Walk(w, n, n + 2, own, go, next)
  BY <1>1, <1>4, WalkExists
<1>6. PICK w : w = On(w)
  BY <1>5 DEF Walk
<1>7. walk = Found(walk)
  <2>1. w = Found(w)
    <3> HIDE DEF On
    <3> QED BY <1>3, <1>6
  <2> QED BY <2>1
<1> HIDE DEF walk
<1>8. walk = On(walk)
  <2> HIDE DEF On
  <2> QED BY <1>3, <1>7
<1>9. Walk(walk, n, n + 2, own, go, next)
  BY <1>8 DEF Walk
<1> QED BY <1>2, <1>9 DEF n, own, go, next

\* What the salvage takes are headers that are proven, with all of their data; and
\* it takes every one of them that no other leads past.
LEMMA SalvagedFacts ==
  ASSUME NEW a \in Archives
  PROVE  /\ \A p \in Salvaged(a) :
              p \in 1 .. Len(a.blocks) /\ HasMagic(a.blocks[p]) /\ SumOk(a.blocks[p]) /\ Whole(a, p)
         /\ \A q \in 1 .. Len(a.blocks) :
              (/\ Valid(a, q) /\ Whole(a, q)
               /\ \A p \in 1 .. q - 1 : Valid(a, p) => p + DataBlocks(a.blocks[p]) < q)
                => q \in Salvaged(a)
<1> DEFINE n == Len(a.blocks)
           own == Takes(a)
           go == Onward(a)
           next == Beyond(a)
<1>1. n \in Nat /\ n + 2 \in Nat /\ 1 \in 1 .. n + 2 /\ n <= n + 2
  BY TarType
<1>2. PICK w : Walk(w, n, n + 2, own, go, next) /\ Salvaged(a) = w[1]
  BY SalvageWalk
<1>3. \A q \in 1 .. n : own[q] \subseteq {q} /\ (go[q] => next[q] \in q + 1 .. n + 2)
  BY SalvageSteps
<1>4. ASSUME NEW p \in w[1] PROVE p \in 1 .. n /\ Valid(a, p) /\ Whole(a, p)
  <2>1. p \in 1 .. n /\ p \in own[p]
    <3> HIDE DEF n, own, go, next
    <3> QED BY <1>1, <1>2, <1>3, <1>4, WalkFacts
  <2> QED BY <2>1, SalvageSteps
<1>5. ASSUME NEW q \in 1 .. n, Valid(a, q), Whole(a, q),
             \A p \in 1 .. q - 1 : Valid(a, p) => p + DataBlocks(a.blocks[p]) < q
      PROVE  q \in w[1]
  <2>1. ASSUME NEW p \in 1 .. q - 1 PROVE go[p] /\ next[p] <= q
    <3>1. p \in 1 .. n
      BY <1>1
    <3> DEFINE d == DataBlocks(a.blocks[p])
               z == SizeIn(a.blocks[p])
               r == Len(a.rest)
    <3>2. d \in Nat /\ z \in Nat /\ z <= 2 * d /\ (r = 0 \/ r = 1)
      BY <3>1, TarType, DataBlocksFacts
    <3>3. /\ go[p] = (~Valid(a, p) \/ Whole(a, p)) /\ next[p] = IF Valid(a, p) THEN p + 1 + d ELSE p + 1
          /\ Whole(a, p) <=> 2 * p + z <= 2 * n + r
      BY <3>1, SalvageSteps DEF Whole, HalfBlocks
    <3>4. Valid(a, p) => p + d < q
      BY <1>5
    <3> HIDE DEF d, z, r, n, go, next
    <3>5. p + d < q => 2 * p + z <= 2 * n + r /\ p + 1 + d <= q
      BY <1>1, <3>1, <3>2
    <3>6. p + 1 <= q
      BY <1>1, <3>1
    <3> QED BY <3>3, <3>4, <3>5, <3>6
  <2>2. w[q] \subseteq w[1]
    <3> HIDE DEF n, own, go, next
    <3> QED BY <1>1, <1>2, <1>3, <2>1, WalkMeets
  <2>3. q \in own[q]
    <3>1. own[q] = IF Valid(a, q) /\ Whole(a, q) THEN {q} ELSE {}
      BY SalvageSteps
    <3> HIDE DEF own
    <3> QED BY <1>5, <3>1
  <2>4. own[q] \subseteq w[q]
    <3> HIDE DEF own, go, next, n
    <3>1. q \in 1 .. n + 2 /\ ~(q > n)
      BY <1>1
    <3> DEFINE At(p) == IF p > n THEN {} ELSE own[p] \cup (IF go[p] THEN w[next[p]] ELSE {})
    <3>2. w = [p \in 1 .. n + 2 |-> At(p)]
      BY <1>2 DEF Walk
    <3>3. w[q] = At(q)
      <4> HIDE DEF At
      <4> QED BY <3>1, <3>2
    <3> QED BY <3>1, <3>3
  <2> QED BY <2>2, <2>3, <2>4
<1> QED BY <1>2, <1>4, <1>5 DEF Valid

-----------------------------------------------------------------------------
\* An archive of proven members and a terminator.  T holds where they begin in a,
\* at how much of the archive is before them.

Cut(a, T) == [p \in DOMAIN a.blocks |-> IF p \in T THEN MemberAt(a, p) ELSE << >>]

Joined(a, T) == [blocks |-> FlattenSeq(Cut(a, T)) \o Blank, rest |-> << >>]

Members(a) == {p \in 1 .. Len(a.blocks) : HasMagic(a.blocks[p]) /\ SumOk(a.blocks[p]) /\ Whole(a, p)}

LEMMA CutType ==
  ASSUME NEW a \in Archives, NEW T, T \subseteq Members(a)
  PROVE  /\ Cut(a, T) \in Seq(Seq(BlockRecords)) /\ Len(Cut(a, T)) = Len(a.blocks)
         /\ \A p \in 1 .. Len(a.blocks) : p \in T => Cut(a, T)[p] = MemberAt(a, p)
         /\ \A p \in 1 .. Len(a.blocks) : p \notin T => Len(Cut(a, T)[p]) = 0
<1>1. DOMAIN a.blocks = 1 .. Len(a.blocks) /\ Len(a.blocks) \in Nat
  BY TarType
<1>2. << >> \in Seq(BlockRecords) /\ Len(<< >>) = 0
  OBVIOUS
<1>3. \A p \in 1 .. Len(a.blocks) : p \in T => MemberAt(a, p) \in Seq(BlockRecords)
  BY WholeMember DEF Members
<1>4. Cut(a, T) \in [1 .. Len(a.blocks) -> Seq(BlockRecords)]
  BY <1>1, <1>2, <1>3, Zenon DEF Cut
<1>5. Cut(a, T) \in Seq(Seq(BlockRecords)) /\ Len(Cut(a, T)) = Len(a.blocks)
  BY <1>1, <1>4, FunctionSeq
<1> QED BY <1>1, <1>2, <1>5 DEF Cut

\* What is before the members, and that they stand behind it as they are.
Placed(a, T, at) ==
  /\ at \in [0 .. Len(a.blocks) -> Nat]
  /\ at[0] = 0 /\ at[Len(a.blocks)] = Len(FlattenSeq(Cut(a, T)))
  /\ \A p \in 1 .. Len(a.blocks) :
       /\ p \notin T => at[p] = at[p - 1]
       /\ p \in T => /\ at[p] = at[p - 1] + 1 + DataBlocks(a.blocks[p])
                     /\ at[p] <= Len(FlattenSeq(Cut(a, T)))
                     /\ \A k \in 1 .. 1 + DataBlocks(a.blocks[p]) :
                          Joined(a, T).blocks[at[p - 1] + k] = MemberAt(a, p)[k]

LEMMA JoinedType ==
  ASSUME NEW a \in Archives, NEW T, T \subseteq Members(a)
  PROVE  LET n == Len(FlattenSeq(Cut(a, T)))
             o == Joined(a, T)
         IN  /\ o \in Archives /\ n \in Nat /\ Len(o.blocks) = n + 2
             /\ o.blocks[n + 1] = Zero /\ o.blocks[n + 2] = Zero
             /\ \A k \in 1 .. n : o.blocks[k] = FlattenSeq(Cut(a, T))[k]
<1> DEFINE body == FlattenSeq(Cut(a, T))
           o == Joined(a, T)
<1>1. body \in Seq(BlockRecords)
  BY CutType, FlattenType
<1>2. o.blocks = body \o Blank /\ o.rest = << >> /\ o = [blocks |-> body \o Blank, rest |-> << >>]
  BY DEF Joined
<1> HIDE DEF body, o
<1>3. Blank \in Seq(BlockRecords) /\ Len(Blank) = 2 /\ Blank[1] = Zero /\ Blank[2] = Zero
  <2>1. Zero \in BlockRecords
    BY DEF Zero, BlockRecords, HalfRecords
  <2> HIDE DEF Zero
  <2> QED BY <2>1 DEF Blank
<1> HIDE DEF Blank
<1>4. \A x, y \in Seq(BlockRecords) :
        /\ x \o y \in Seq(BlockRecords) /\ Len(x \o y) = Len(x) + Len(y) /\ Len(x) \in Nat
        /\ \A i \in 1 .. Len(x) : (x \o y)[i] = x[i]
        /\ \A i \in 1 .. Len(y) : (x \o y)[Len(x) + i] = y[i]
  OBVIOUS
<1>5. /\ body \o Blank \in Seq(BlockRecords) /\ Len(body \o Blank) = Len(body) + 2 /\ Len(body) \in Nat
      /\ \A i \in 1 .. Len(body) : (body \o Blank)[i] = body[i]
      /\ \A i \in 1 .. 2 : (body \o Blank)[Len(body) + i] = Blank[i]
  <2>1. /\ body \o Blank \in Seq(BlockRecords) /\ Len(body \o Blank) = Len(body) + Len(Blank)
        /\ Len(body) \in Nat
        /\ \A i \in 1 .. Len(body) : (body \o Blank)[i] = body[i]
        /\ \A i \in 1 .. Len(Blank) : (body \o Blank)[Len(body) + i] = Blank[i]
    BY <1>1, <1>3, <1>4, Zenon
  <2> QED BY <1>3, <2>1, Zenon
<1>6. << >> \in Seq(HalfRecords) /\ Len(<< >>) <= 1 /\ 1 \in 1 .. 2 /\ 2 \in 1 .. 2
  OBVIOUS
<1>7. o \in Archives
  BY <1>2, <1>5, <1>6 DEF Archives
<1> QED BY <1>2, <1>3, <1>5, <1>6, <1>7 DEF body, o

LEMMA PlacesExist ==
  ASSUME NEW a \in Archives, NEW T, T \subseteq Members(a), a.blocks # << >>
  PROVE  \E at : Placed(a, T, at)
<1> DEFINE ss == Cut(a, T)
           n == Len(a.blocks)
           body == FlattenSeq(ss)
<1>1. ss \in Seq(Seq(BlockRecords)) /\ Len(ss) = n /\ n \in Nat /\ Len(body) \in Nat
  BY CutType, TarType, JoinedType
<1>2. ss # << >>
  <2>1. n # 0
    BY TarType
  <2> HIDE DEF ss, n
  <2> QED BY <1>1, <2>1
<1>3. PICK at : Spread(at, ss)
  BY <1>1, <1>2, FlattenPlaces
<1>4. /\ at \in [0 .. n -> Nat] /\ at[0] = 0 /\ at[n] = Len(body)
      /\ \A i \in 1 .. n : /\ at[i] = at[i - 1] + Len(ss[i]) /\ at[i] <= Len(body)
                           /\ \A k \in 1 .. Len(ss[i]) : body[at[i - 1] + k] = ss[i][k]
  BY <1>1, <1>3 DEF Spread
<1>5. \A i \in 1 .. n : at[i] \in Nat /\ at[i - 1] \in Nat
  <2>1. \A i \in 1 .. n : i \in 0 .. n /\ i - 1 \in 0 .. n
    BY <1>1
  <2> QED BY <1>4, <2>1
<1> HIDE DEF ss, n, body
<1>6. ASSUME NEW p \in 1 .. n, p \notin T PROVE at[p] = at[p - 1]
  <2>1. Len(ss[p]) = 0
    BY <1>6, CutType DEF ss, n
  <2> QED BY <1>4, <1>5, <2>1
<1>7. ASSUME NEW p \in 1 .. n, p \in T
      PROVE  /\ at[p] = at[p - 1] + 1 + DataBlocks(a.blocks[p]) /\ at[p] <= Len(body)
             /\ \A k \in 1 .. 1 + DataBlocks(a.blocks[p]) :
                  Joined(a, T).blocks[at[p - 1] + k] = MemberAt(a, p)[k]
  <2> DEFINE d == DataBlocks(a.blocks[p])
             u == at[p - 1]
             e == Len(body)
  <2>1. ss[p] = MemberAt(a, p) /\ Len(ss[p]) = 1 + d /\ d \in Nat
    BY <1>7, CutType, WholeMember, TarType, DataBlocksFacts DEF ss, n, Members
  <2>2. at[p] = u + (1 + d) /\ at[p] <= e /\ \A k \in 1 .. 1 + d : body[u + k] = ss[p][k]
    BY <1>4, <2>1
  <2>3. u \in Nat /\ e \in Nat
    BY <1>1, <1>5
  <2>4. \A k \in 1 .. e : Joined(a, T).blocks[k] = body[k]
    BY JoinedType DEF body, ss
  <2> HIDE DEF d, u, e
  <2>5. at[p] = u + 1 + d /\ \A k \in 1 .. 1 + d : u + k \in 1 .. e
    BY <2>1, <2>2, <2>3
  <2> QED BY <2>1, <2>2, <2>4, <2>5 DEF d, u, e
<1>8. Placed(a, T, at)
  BY <1>4, <1>6, <1>7 DEF Placed, n, body, ss
<1> QED BY <1>8

-----------------------------------------------------------------------------
\* Where the reader of the joined archive may be: at a member or at the end.
Starts(a, T, at) ==
  {at[q - 1] + 1 : q \in T} \cup {Len(FlattenSeq(Cut(a, T))) + 1}

\* Behind every block of a the next member begins, or the end.
LEMMA StartsFollow ==
  ASSUME NEW a \in Archives, NEW T, T \subseteq Members(a), NEW at, Placed(a, T, at)
  PROVE  \A i \in 0 .. Len(a.blocks) : at[i] + 1 \in Starts(a, T, at)
<1> DEFINE n == Len(a.blocks)
           bad == {k \in 0 .. n : at[n - k] + 1 \notin Starts(a, T, at)}
<1>1. n \in Nat
  BY TarType
<1>2. at[n] + 1 \in Starts(a, T, at)
  BY DEF Placed, Starts
<1>3. \A p \in 1 .. n : p \notin T => at[p] = at[p - 1]
  BY DEF Placed
<1>4. \A p \in T : at[p - 1] + 1 \in Starts(a, T, at)
  BY DEF Starts
<1> HIDE DEF n
<1>5. ASSUME bad # {} PROVE FALSE
  <2>1. bad \subseteq Nat
    BY <1>1
  <2>2. PICK k \in bad : \A j \in bad : k <= j
    BY <1>5, <2>1, LeastElement
  <2>3. k \in 0 .. n /\ at[n - k] + 1 \notin Starts(a, T, at)
    OBVIOUS
  <2>4. k # 0
    <3>1. n - 0 = n
      BY <1>1
    <3> QED BY <1>2, <2>3, <3>1
  <2> DEFINE p == n - k + 1
  <2>5. p \in 1 .. n /\ p - 1 = n - k /\ k - 1 \in 0 .. n /\ n - (k - 1) = p /\ ~(k <= k - 1)
    BY <1>1, <2>3, <2>4
  <2>6. k - 1 \notin bad
    <3> HIDE DEF bad
    <3> QED BY <2>2, <2>5
  <2>7. at[n - (k - 1)] + 1 \in Starts(a, T, at)
    BY <2>5, <2>6
  <2> HIDE DEF p
  <2> QED BY <1>3, <1>4, <2>3, <2>5, <2>7
<1>6. ASSUME NEW i \in 0 .. n PROVE at[i] + 1 \in Starts(a, T, at)
  <2>1. n - i \in 0 .. n /\ n - (n - i) = i
    BY <1>1
  <2>2. n - i \notin bad
    <3> HIDE DEF bad
    <3> QED BY <1>5
  <2> QED BY <2>1, <2>2
<1> QED BY <1>6 DEF n

\* At a member stands its header, and over its data is the next place.
StartsWell(a, T, at, q) ==
  LET o == Joined(a, T)
      p == at[q - 1] + 1
  IN  /\ p \in 1 .. Len(o.blocks) /\ o.blocks[p] = a.blocks[q]
      /\ HasMagic(o.blocks[p]) /\ SumOk(o.blocks[p]) /\ ~IsZero(o.blocks[p])
      /\ ~CutShort(o, p) /\ ~TwoZeros(o, p)
      /\ p + 1 + DataBlocks(o.blocks[p]) \in Starts(a, T, at)
      /\ MemberAt(o, p) = MemberAt(a, q)

LEMMA StartFacts ==
  ASSUME NEW a \in Archives, NEW T, T \subseteq Members(a), NEW at, Placed(a, T, at), NEW q \in T
  PROVE  StartsWell(a, T, at, q)
<1> DEFINE o == Joined(a, T)
           u == at[q - 1]
           p == u + 1
           d == DataBlocks(a.blocks[q])
           e == Len(FlattenSeq(Cut(a, T)))
<1>1. q \in 1 .. Len(a.blocks) /\ HasMagic(a.blocks[q]) /\ SumOk(a.blocks[q]) /\ Whole(a, q)
  BY DEF Members
<1>2. /\ at[q] = u + 1 + d /\ at[q] <= e
      /\ \A k \in 1 .. 1 + d : o.blocks[u + k] = MemberAt(a, q)[k]
  BY <1>1 DEF Placed
<1>3. /\ o \in Archives /\ e \in Nat /\ Len(o.blocks) = e + 2 /\ o.rest = << >>
  BY JoinedType DEF Joined
<1>4. u \in Nat /\ at[q] \in Nat /\ q \in 0 .. Len(a.blocks)
  <2>1. q - 1 \in 0 .. Len(a.blocks) /\ q \in 0 .. Len(a.blocks)
    BY <1>1, TarType
  <2>2. at \in [0 .. Len(a.blocks) -> Nat]
    BY DEF Placed
  <2> QED BY <2>1, <2>2
<1>5. d \in Nat
  BY <1>1, TarType, DataBlocksFacts
<1>6. at[q] + 1 \in Starts(a, T, at)
  BY <1>4, StartsFollow
<1>7. /\ MemberAt(a, q) \in Seq(BlockRecords) /\ Len(MemberAt(a, q)) = 1 + d
      /\ MemberAt(a, q)[1] = a.blocks[q]
  BY <1>1, WholeMember
<1> HIDE DEF o, u, d, e
<1>8. /\ p \in 1 .. e + 2 /\ 1 \in 1 .. 1 + d /\ p + 1 + d = at[q] + 1 /\ p + d <= e + 2
      /\ p \in Int /\ p + d \in Int /\ ~(p + d > e + 2) /\ p \in Nat /\ p <= p + d
  BY <1>2, <1>3, <1>4, <1>5
<1>9. o.blocks[p] = a.blocks[q]
  BY <1>2, <1>7, <1>8
<1>10. p + 1 + DataBlocks(o.blocks[p]) \in Starts(a, T, at)
  BY <1>6, <1>8, <1>9 DEF d
<1>11. HasMagic(o.blocks[p]) /\ SumOk(o.blocks[p]) /\ ~IsZero(o.blocks[p])
  BY <1>1, <1>9 DEF HasMagic, IsZero
<1>12. ~CutShort(o, p) /\ ~TwoZeros(o, p)
  BY <1>3, <1>8, <1>9, <1>11 DEF CutShort, TwoZeros, d
<1>13. MemberAt(o, p) = MemberAt(a, q)
  <2> DEFINE file == o.blocks \o o.rest
             m == SubSeq(file, p, p + d)
  <2>1. o.blocks \in Seq(BlockRecords)
    BY <1>3, TarType
  <2>2. file = o.blocks
    BY <1>3, <2>1
  <2>3. MemberAt(o, p) = SubSeq(file, p, IF p + d > Len(file) THEN Len(file) ELSE p + d)
    BY <1>9 DEF MemberAt, d
  <2>4. MemberAt(o, p) = m
    <3> HIDE DEF file, p
    <3> QED BY <1>3, <1>8, <2>2, <2>3
  <2> HIDE DEF file
  <2>5. \A i \in p .. p + d : file[i] \in BlockRecords
    <3>1. \A i \in p .. p + d : i \in 1 .. e + 2
      BY <1>3, <1>4, <1>5, <1>8
    <3> QED BY <1>3, <2>1, <2>2, <3>1
  <2>6. /\ m \in Seq(BlockRecords) /\ Len(m) = IF p <= p + d THEN (p + d) - p + 1 ELSE 0
        /\ \A i \in 1 .. (p + d) - p + 1 : m[i] = file[p + i - 1]
    <3> HIDE DEF p
    <3> QED BY <1>8, <2>5, SubSeqProperties
  <2>7. (p + d) - p + 1 = 1 + d /\ \A i \in 1 .. 1 + d : p + i - 1 = u + i
    BY <1>4, <1>5
  <2> HIDE DEF m, p
  <2>8. Len(m) = 1 + d /\ \A i \in 1 .. 1 + d : m[i] = MemberAt(a, q)[i]
    BY <1>2, <1>8, <2>2, <2>6, <2>7
  <2>9. m = MemberAt(a, q)
    <3> DEFINE x == MemberAt(a, q)
    <3>1. x \in Seq(BlockRecords) /\ m \in Seq(BlockRecords) /\ Len(m) = Len(x)
          /\ \A i \in 1 .. Len(x) : m[i] = x[i]
      BY <1>7, <2>6, <2>8
    <3> HIDE DEF x
    <3> QED BY <3>1, SeqEqual DEF x
  <2> QED BY <2>4, <2>9
<1> QED BY <1>3, <1>8, <1>9, <1>10, <1>11, <1>12, <1>13 DEF StartsWell, o, u, p
\* The reader goes from member to member up to the terminator, and finds no fault.
LEMMA JoinedIsSound ==
  ASSUME NEW a \in Archives, NEW T, T \subseteq Members(a), a.blocks # << >>
  PROVE  TarDefects(Joined(a, T)) = << >> /\ Readable(Joined(a, T)) \subseteq Proven(a)
<1> DEFINE o == Joined(a, T)
           e == Len(FlattenSeq(Cut(a, T)))
           n == Len(o.blocks)
<1>1. PICK at : Placed(a, T, at)
  BY PlacesExist
<1> DEFINE G == Starts(a, T, at)
<1>2. /\ o \in Archives /\ e \in Nat /\ n = e + 2 /\ o.blocks[e + 1] = Zero /\ o.blocks[e + 2] = Zero
  BY JoinedType
<1>3. PICK w : Walk(w, n, n + 1, Each(o), GoesOn(o), Over(o)) /\ ReadBlocks(o) = w[1]
  BY <1>2, ReaderWalk
<1>4. \A p \in G : p # e + 1 => \E q \in T : p = at[q - 1] + 1
  BY DEF Starts
<1>5. ASSUME NEW q \in T
      PROVE  LET p == at[q - 1] + 1
             IN  /\ p \in 1 .. n /\ o.blocks[p] = a.blocks[q]
                 /\ HasMagic(o.blocks[p]) /\ SumOk(o.blocks[p]) /\ ~IsZero(o.blocks[p])
                 /\ ~CutShort(o, p) /\ ~TwoZeros(o, p)
                 /\ p + 1 + DataBlocks(o.blocks[p]) \in G
                 /\ MemberAt(o, p) = MemberAt(a, q)
  <2>1. StartsWell(a, T, at, q)
    BY <1>1, StartFacts
  <2> QED BY <2>1 DEF StartsWell
<1>6. 1 \in G
  <2>1. 0 \in 0 .. Len(a.blocks)
    BY TarType
  <2>2. at[0] + 1 \in G /\ at[0] = 0
    BY <1>1, <2>1, StartsFollow DEF Placed
  <2> QED BY <2>2
<1> HIDE DEF o, e, G
<1> HIDE DEF n
<1>7. /\ e + 1 \in 1 .. n /\ n \in Nat /\ n + 1 \in Nat /\ e + 1 < n /\ (e + 1) + 1 = e + 2
      /\ 1 \in 1 .. n + 1 /\ \A p \in 1 .. n : p \in 1 .. n + 1
  BY <1>2
<1>8. TwoZeros(o, e + 1) /\ ~CutShort(o, e + 1) /\ IsZero(o.blocks[e + 1]) /\ ~HasMagic(o.blocks[e + 1])
  <2>1. IsZero(o.blocks[e + 1]) /\ IsZero(o.blocks[e + 2]) /\ ~HasMagic(o.blocks[e + 1])
    BY <1>2 DEF IsZero, HasMagic, Zero
  <2>2. DataBlocks(o.blocks[e + 1]) = 0
    <3>1. SizeIn(o.blocks[e + 1]) = 0
      BY <1>2 DEF SizeIn, Zero
    <3>2. (0 + 1) \div 2 = 0
      OBVIOUS
    <3> QED BY <3>1, <3>2 DEF DataBlocks
  <2>3. ~CutShort(o, e + 1)
    BY <1>2, <2>2 DEF CutShort, n
  <2>4. TwoZeros(o, e + 1)
    BY <1>7, <2>1 DEF TwoZeros, n
  <2> QED BY <2>1, <2>3, <2>4
<1>9. \A p \in 1 .. n : /\ Each(o)[p] = {p} /\ GoesOn(o)[p] = ~(TwoZeros(o, p) \/ CutShort(o, p))
                        /\ Over(o)[p] = p + 1 + DataBlocks(o.blocks[p])
  BY DEF Each, GoesOn, Over, n
<1>10. \A p \in 1 .. n : Each(o)[p] \subseteq {p} /\ (GoesOn(o)[p] => Over(o)[p] \in p + 1 .. n + 1)
  BY <1>2, ReaderSteps DEF n
<1>11. \A p \in G : p \in 1 .. n /\ GoesOn(o)[p] => Over(o)[p] \in G
  <2> TAKE p \in G
  <2>1. CASE p = e + 1
    BY <1>7, <1>8, <1>9, <2>1
  <2>2. CASE p # e + 1
    BY <1>4, <1>5, <1>9, <2>2
  <2> QED BY <2>1, <2>2
<1>12. w[1] \subseteq G
  BY <1>3, <1>6, <1>7, <1>10, <1>11, WalkWithin
<1>13. \A x \in 1 .. n + 1 : \A p \in w[x] : p \in 1 .. n /\ p \in Each(o)[p] /\ w[p] \subseteq w[x]
  BY <1>3, <1>7, <1>10, WalkFacts
<1>14. \A p \in 1 .. n + 1 :
         w[p] = IF p > n THEN {} ELSE Each(o)[p] \cup (IF GoesOn(o)[p] THEN w[Over(o)[p]] ELSE {})
  <2> DEFINE At(p) == IF p > n THEN {} ELSE Each(o)[p] \cup (IF GoesOn(o)[p] THEN w[Over(o)[p]] ELSE {})
  <2>1. w = [p \in 1 .. n + 1 |-> At(p)]
    BY <1>3 DEF Walk
  <2> HIDE DEF At
  <2>2. \A p \in 1 .. n + 1 : w[p] = At(p)
    BY <2>1
  <2> QED BY <2>2 DEF At
<1>15. \A p \in 1 .. n : p \in w[p] /\ (GoesOn(o)[p] => w[Over(o)[p]] \subseteq w[p])
  <2> TAKE p \in 1 .. n
  <2>1. ~(p > n) /\ p \in 1 .. n + 1
    BY <1>7
  <2> QED BY <1>9, <1>14, <2>1
\* The last place of the walk is the terminator.
<1>16. e + 1 \in w[1]
  <2> DEFINE far == {k \in Nat : n - k \in w[1]}
  <2>1. 1 \in w[1]
    BY <1>7, <1>15
  <2>2. n - 1 \in far /\ far \subseteq Nat
    <3>1. n - 1 \in Nat /\ n - (n - 1) = 1
      BY <1>7
    <3> QED BY <2>1, <3>1
  <2>3. PICK k \in far : \A j \in far : k <= j
    <3>1. far # {}
      BY <2>2
    <3> HIDE DEF far
    <3> QED BY <2>2, <3>1, LeastElement
  <2> DEFINE p == n - k
  <2>4. p \in w[1] /\ k \in Nat
    OBVIOUS
  <2>5. p \in 1 .. n /\ p \in G /\ w[p] \subseteq w[1]
    <3> HIDE DEF p
    <3> QED BY <1>7, <1>12, <1>13, <2>4
  <2>6. ASSUME p # e + 1 PROVE FALSE
    <3> DEFINE r == Over(o)[p]
    <3>1. GoesOn(o)[p] /\ r \in G
      <4> HIDE DEF p
      <4>1. PICK q \in T : p = at[q - 1] + 1
        BY <1>4, <2>5, <2>6
      <4>2. ~CutShort(o, p) /\ ~TwoZeros(o, p) /\ p + 1 + DataBlocks(o.blocks[p]) \in G
        BY <1>5, <4>1
      <4> QED BY <1>9, <2>5, <4>2
    <3>2. r \in p + 1 .. n + 1
      <4> HIDE DEF p
      <4> QED BY <1>10, <2>5, <3>1
    <3>3. r \in 1 .. n
      <4> HIDE DEF p, r
      <4>1. CASE r = e + 1
        BY <1>7, <4>1
      <4>2. CASE r # e + 1
        BY <1>4, <1>5, <3>1, <4>2
      <4> QED BY <4>1, <4>2
    <3>4. r \in w[1]
      <4> HIDE DEF p
      <4>1. r \in w[r] /\ w[r] \subseteq w[p]
        BY <1>15, <2>5, <3>1, <3>3
      <4> QED BY <2>5, <4>1
    <3>5. n - r \in Nat /\ n - (n - r) = r /\ ~(k <= n - r)
      <4> HIDE DEF r
      <4> QED BY <1>7, <2>4, <3>2, <3>3
    <3>6. n - r \in far
      BY <3>4, <3>5
    <3> HIDE DEF far, r
    <3> QED BY <2>3, <3>5, <3>6
  <2> QED BY <2>4, <2>6
<1>17. \A p \in ReadBlocks(o) : ~CutShort(o, p) /\ (IsZero(o.blocks[p]) \/ SumOk(o.blocks[p]))
  BY <1>3, <1>4, <1>5, <1>8, <1>12
<1>18. ChecksumFailures(o) = {} /\ ~Truncation(o) /\ Terminated(o)
  BY <1>3, <1>8, <1>16, <1>17 DEF ChecksumFailures, Truncation, Terminated
<1>19. TarDefects(o) = << >>
  <2>1. Cardinality(ChecksumFailures(o)) = 0
    BY <1>18, FS_EmptySet
  <2>2. [k \in 1 .. 0 |-> "TAR_UST_001"] = << >> /\ << >> \o << >> = << >>
    OBVIOUS
  <2> QED BY <1>18, <2>1, <2>2 DEF TarDefects
<1>20. Readable(o) \subseteq Proven(a)
  <2> SUFFICES ASSUME NEW p \in ReadBlocks(o), HasMagic(o.blocks[p])
               PROVE  MemberAt(o, p) \in Proven(a)
    BY DEF Readable
  <2>1. PICK q \in T : p = at[q - 1] + 1
    BY <1>3, <1>4, <1>8, <1>12
  <2>2. MemberAt(o, p) = MemberAt(a, q)
    BY <1>5, <2>1
  <2>3. q \in DOMAIN a.blocks /\ HasMagic(a.blocks[q]) /\ SumOk(a.blocks[q]) /\ Whole(a, q)
    BY TarType DEF Members
  <2>4. MemberAt(a, q) \in Proven(a)
    BY <2>3 DEF Proven
  <2> QED BY <2>2, <2>4
<1> QED BY <1>19, <1>20 DEF o

\* Every member that was joined is read again.
LEMMA JoinedHolds ==
  ASSUME NEW a \in Archives, NEW T, T \subseteq Members(a), a.blocks # << >>, NEW q \in T
  PROVE  MemberAt(a, q) \in Readable(Joined(a, T))
<1> DEFINE o == Joined(a, T)
           R == ReadBlocks(o)
           n == Len(a.blocks)
           e == Len(FlattenSeq(Cut(a, T)))
<1>1. PICK at : Placed(a, T, at)
  BY PlacesExist
<1>2. o \in Archives /\ e \in Nat /\ Len(o.blocks) = e + 2 /\ n \in Nat
  BY JoinedType, TarType
<1>3. /\ Len(o.blocks) >= 1 => 1 \in R
      /\ \A p \in R : GoesOn(o)[p] /\ Over(o)[p] <= Len(o.blocks) => Over(o)[p] \in R
  BY <1>2, ReaderFacts
<1>4. /\ at[0] = 0 /\ at \in [0 .. n -> Nat]
      /\ \A p \in 1 .. n : /\ p \notin T => at[p] = at[p - 1]
                           /\ p \in T => /\ at[p] = at[p - 1] + 1 + DataBlocks(a.blocks[p]) /\ at[p] <= e
  BY <1>1 DEF Placed
<1>5. ASSUME NEW p \in T
      PROVE  LET u == at[p - 1] + 1
             IN  /\ u \in 1 .. Len(o.blocks) /\ o.blocks[u] = a.blocks[p]
                 /\ HasMagic(o.blocks[u]) /\ SumOk(o.blocks[u])
                 /\ ~CutShort(o, u) /\ ~TwoZeros(o, u) /\ MemberAt(o, u) = MemberAt(a, p)
  <2>1. StartsWell(a, T, at, p)
    BY <1>1, StartFacts
  <2> QED BY <2>1 DEF StartsWell
<1> DEFINE bad == {i \in 0 .. n : at[i] + 1 \notin R}
<1> HIDE DEF o, R, n, e
<1>6. ASSUME bad # {} PROVE FALSE
  <2>1. bad \subseteq Nat
    BY <1>2
  <2>2. PICK i \in bad : \A j \in bad : i <= j
    BY <1>6, <2>1, LeastElement
  <2>3. i \in 0 .. n /\ at[i] + 1 \notin R
    OBVIOUS
  <2>4. i # 0
    <3>1. Len(o.blocks) >= 1 /\ 0 + 1 = 1
      BY <1>2
    <3> QED BY <1>3, <1>4, <2>3, <3>1
  <2>5. i \in 1 .. n /\ i - 1 \in 0 .. n /\ ~(i <= i - 1)
    BY <1>2, <2>3, <2>4
  <2>6. at[i - 1] + 1 \in R
    <3>1. i - 1 \notin bad
      <4> HIDE DEF bad
      <4> QED BY <2>2, <2>5
    <3> QED BY <2>5, <3>1
  <2>7. i \in T
    BY <1>4, <2>3, <2>5, <2>6
  <2> DEFINE u == at[i - 1] + 1
             d == DataBlocks(a.blocks[i])
  <2>8. at[i - 1] \in Nat /\ at[i] \in Nat
    BY <1>4, <2>5
  <2>9. at[i] = at[i - 1] + 1 + d /\ at[i] <= e
    BY <1>4, <2>5, <2>7
  <2>10. /\ u \in 1 .. Len(o.blocks) /\ o.blocks[u] = a.blocks[i] /\ ~CutShort(o, u) /\ ~TwoZeros(o, u)
    BY <1>5, <2>7
  <2>11. GoesOn(o)[u] /\ Over(o)[u] = u + 1 + d
    BY <2>10 DEF GoesOn, Over
  <2>12. d \in Nat
    <3>1. a.blocks[i] \in BlockRecords
      BY <2>5, TarType DEF n
    <3> QED BY <3>1, DataBlocksFacts
  <2>13. u + 1 + d = at[i] + 1 /\ at[i] + 1 <= Len(o.blocks)
    <3> DEFINE v == at[i - 1]
               x == at[i]
               l == Len(o.blocks)
    <3>1. v \in Nat /\ x \in Nat /\ d \in Nat /\ e \in Nat /\ x = v + 1 + d /\ x <= e /\ l = e + 2
      BY <1>2, <2>8, <2>9, <2>12
    <3> HIDE DEF d, v, x, l
    <3>2. (v + 1) + 1 + d = x + 1 /\ x + 1 <= l
      BY <3>1
    <3> QED BY <3>2 DEF v, x, l
  <2>14. at[i] + 1 \in R
    <3> HIDE DEF u, d
    <3> QED BY <1>3, <2>6, <2>11, <2>13 DEF u
  <2> QED BY <2>3, <2>14
<1>7. q \in 1 .. n
  BY DEF Members, n
<1>8. q - 1 \in 0 .. n
  BY <1>2, <1>7
<1>9. at[q - 1] + 1 \in R
  BY <1>6, <1>8
<1>10. MemberAt(o, at[q - 1] + 1) \in Readable(o)
  BY <1>5, <1>9 DEF Readable, R
<1> QED BY <1>5, <1>10 DEF o

-----------------------------------------------------------------------------
\* The walk of tar-checksum-fix.

Heads(a) == [p \in 1 .. Len(a.blocks) |->
               IF ~IsZero(a.blocks[p]) /\ HasMagic(a.blocks[p]) THEN {p} ELSE {}]

Strides(a) == [p \in 1 .. Len(a.blocks) |->
                 ~IsZero(a.blocks[p]) /\ ~(HasMagic(a.blocks[p]) /\ CutShort(a, p))]

Ahead(a) == [p \in 1 .. Len(a.blocks) |->
               IF HasMagic(a.blocks[p]) THEN p + 1 + DataBlocks(a.blocks[p]) ELSE p + 1]

LEMMA FixSteps ==
  ASSUME NEW a \in Archives, NEW p \in 1 .. Len(a.blocks)
  PROVE  /\ Heads(a)[p] = IF ~IsZero(a.blocks[p]) /\ HasMagic(a.blocks[p]) THEN {p} ELSE {}
         /\ Strides(a)[p] = (~IsZero(a.blocks[p]) /\ ~(HasMagic(a.blocks[p]) /\ CutShort(a, p)))
         /\ Ahead(a)[p] = IF HasMagic(a.blocks[p]) THEN p + 1 + DataBlocks(a.blocks[p]) ELSE p + 1
         /\ Heads(a)[p] \subseteq {p}
         /\ Strides(a)[p] => Ahead(a)[p] \in p + 1 .. Len(a.blocks) + 1
<1> DEFINE n == Len(a.blocks)
           d == DataBlocks(a.blocks[p])
<1>1. /\ Heads(a)[p] = IF ~IsZero(a.blocks[p]) /\ HasMagic(a.blocks[p]) THEN {p} ELSE {}
      /\ Strides(a)[p] = (~IsZero(a.blocks[p]) /\ ~(HasMagic(a.blocks[p]) /\ CutShort(a, p)))
      /\ Ahead(a)[p] = IF HasMagic(a.blocks[p]) THEN p + 1 + d ELSE p + 1
  BY DEF Heads, Strides, Ahead
<1>2. d \in Nat /\ n \in Nat /\ (CutShort(a, p) <=> p + d > n)
  BY TarType, DataBlocksFacts DEF CutShort
<1> HIDE DEF n, d
<1>3. ~(p + d > n) => p + 1 + d \in p + 1 .. n + 1
  BY <1>2 DEF n
<1>4. p + 1 \in p + 1 .. n + 1
  BY <1>2 DEF n
<1> QED BY <1>1, <1>2, <1>3, <1>4 DEF n, d

LEMMA FixWalk ==
  ASSUME NEW a \in Archives
  PROVE  \E w : /\ Walk(w, Len(a.blocks), Len(a.blocks) + 1, Heads(a), Strides(a), Ahead(a))
                /\ HeadersWalked(a) = w[1]
<1> DEFINE n == Len(a.blocks)
           own == Heads(a)
           go == Strides(a)
           next == Ahead(a)
           Found(f) == [p \in 1 .. n + 1 |->
                          IF p > n \/ IsZero(a.blocks[p]) THEN {}
                          ELSE IF ~HasMagic(a.blocks[p]) THEN f[p + 1]
                          ELSE {p} \cup IF CutShort(a, p) THEN {} ELSE f[p + 1 + DataBlocks(a.blocks[p])]]
           On(f) == [p \in 1 .. n + 1 |->
                       IF p > n THEN {} ELSE own[p] \cup (IF go[p] THEN f[next[p]] ELSE {})]
           walk == CHOOSE f : f = Found(f)
<1>1. n \in Nat /\ n + 1 \in Nat
  BY TarType
<1>2. HeadersWalked(a) = walk[1]
  BY DEF HeadersWalked
<1>3. \A f : Found(f) = On(f)
  <2> SUFFICES ASSUME NEW f, NEW p \in 1 .. n + 1, ~(p > n)
               PROVE  (IF IsZero(a.blocks[p]) THEN {}
                       ELSE IF ~HasMagic(a.blocks[p]) THEN f[p + 1]
                       ELSE {p} \cup IF CutShort(a, p) THEN {} ELSE f[p + 1 + DataBlocks(a.blocks[p])])
                        = own[p] \cup (IF go[p] THEN f[next[p]] ELSE {})
    <3> HIDE DEF n, own, go, next
    <3> QED OBVIOUS
  <2>1. p \in 1 .. n
    <3> HIDE DEF n
    <3> QED BY <1>1
  <2>2. /\ own[p] = IF ~IsZero(a.blocks[p]) /\ HasMagic(a.blocks[p]) THEN {p} ELSE {}
        /\ go[p] = (~IsZero(a.blocks[p]) /\ ~(HasMagic(a.blocks[p]) /\ CutShort(a, p)))
        /\ next[p] = IF HasMagic(a.blocks[p]) THEN p + 1 + DataBlocks(a.blocks[p]) ELSE p + 1
    BY <2>1, FixSteps
  <2> HIDE DEF own, go, next
  <2> QED BY <2>2
<1>4. \A p \in 1 .. n : go[p] => next[p] \in p + 1 .. n + 1
  BY FixSteps
<1> HIDE DEF n, Found, own, go, next
<1>5. \E w : Walk(w, n, n + 1, own, go, next)
  BY <1>1, <1>4, WalkExists
<1>6. PICK w : w = On(w)
  BY <1>5 DEF Walk
<1>7. walk = Found(walk)
  <2>1. w = Found(w)
    <3> HIDE DEF On
    <3> QED BY <1>3, <1>6
  <2> QED BY <2>1
<1> HIDE DEF walk
<1>8. walk = On(walk)
  <2> HIDE DEF On
  <2> QED BY <1>3, <1>7
<1>9. Walk(walk, n, n + 1, own, go, next)
  BY <1>8 DEF Walk
<1> QED BY <1>2, <1>9 DEF n, own, go, next

\* tar-checksum-fix comes to headers only; from one that is all there it comes to the
\* header behind its data; and it touches nothing of a member that none leads into.
LEMMA FixFacts ==
  ASSUME NEW a \in Archives
  PROVE  LET n == Len(a.blocks)
             H == HeadersWalked(a)
         IN  /\ \A p \in H : p \in 1 .. n /\ HasMagic(a.blocks[p])
             /\ n >= 1 /\ HasMagic(a.blocks[1]) => 1 \in H
             /\ \A p \in H, q \in 1 .. n :
                  ~CutShort(a, p) /\ q = Over(a)[p] /\ HasMagic(a.blocks[q]) => q \in H
             /\ \A q \in 1 .. n :
                  (/\ HasMagic(a.blocks[q])
                   /\ \A p \in 1 .. q - 1 : HasMagic(a.blocks[p]) => p + DataBlocks(a.blocks[p]) < q)
                    => \A p \in H : p > q => p > q + DataBlocks(a.blocks[q])
<1> DEFINE n == Len(a.blocks)
           own == Heads(a)
           go == Strides(a)
           next == Ahead(a)
           H == HeadersWalked(a)
           Dat(p) == DataBlocks(a.blocks[p])
<1>1. n \in Nat /\ n + 1 \in Nat /\ 1 \in 1 .. n + 1 /\ n <= n + 1
  BY TarType
<1>2. PICK w : Walk(w, n, n + 1, own, go, next) /\ H = w[1]
  BY FixWalk
<1>3. \A p \in 1 .. n : own[p] \subseteq {p} /\ (go[p] => next[p] \in p + 1 .. n + 1)
  BY FixSteps
<1>4. \A x \in 1 .. n + 1 : \A p \in w[x] : p \in 1 .. n /\ p \in own[p] /\ w[p] \subseteq w[x]
  <2> HIDE DEF n, own, go, next
  <2> QED BY <1>1, <1>2, <1>3, WalkFacts
<1>5. \A p \in 1 .. n : /\ w[p] = own[p] \cup (IF go[p] THEN w[next[p]] ELSE {})
  <2> HIDE DEF own, go, next, n
  <2> DEFINE At(p) == IF p > n THEN {} ELSE own[p] \cup (IF go[p] THEN w[next[p]] ELSE {})
  <2>1. w = [p \in 1 .. n + 1 |-> At(p)]
    BY <1>2 DEF Walk
  <2>2. \A p \in 1 .. n + 1 : w[p] = At(p)
    <3> HIDE DEF At
    <3> QED BY <2>1
  <2>3. \A p \in 1 .. n : p \in 1 .. n + 1 /\ ~(p > n)
    BY <1>1
  <2> QED BY <2>2, <2>3
<1>6. \A p \in 1 .. n : HasMagic(a.blocks[p]) => p \in own[p] /\ next[p] = p + 1 + Dat(p) /\ (~CutShort(a, p) => go[p])
  <2> SUFFICES ASSUME NEW p \in 1 .. n, HasMagic(a.blocks[p])
               PROVE  p \in own[p] /\ next[p] = p + 1 + Dat(p) /\ (~CutShort(a, p) => go[p])
    OBVIOUS
  <2>1. ~IsZero(a.blocks[p])
    BY DEF IsZero, HasMagic
  <2>2. /\ own[p] = IF ~IsZero(a.blocks[p]) /\ HasMagic(a.blocks[p]) THEN {p} ELSE {}
        /\ go[p] = (~IsZero(a.blocks[p]) /\ ~(HasMagic(a.blocks[p]) /\ CutShort(a, p)))
        /\ next[p] = IF HasMagic(a.blocks[p]) THEN p + 1 + Dat(p) ELSE p + 1
    BY FixSteps
  <2> HIDE DEF own, go, next, Dat, n
  <2> QED BY <2>1, <2>2
<1>7. \A p \in H : p \in 1 .. n /\ HasMagic(a.blocks[p]) /\ w[p] \subseteq H
  <2> SUFFICES ASSUME NEW p \in H PROVE p \in 1 .. n /\ HasMagic(a.blocks[p]) /\ w[p] \subseteq H
    OBVIOUS
  <2>1. p \in 1 .. n /\ p \in own[p] /\ w[p] \subseteq w[1]
    <3> HIDE DEF n, own, H
    <3> QED BY <1>1, <1>2, <1>4
  <2>2. HasMagic(a.blocks[p])
    BY <2>1, FixSteps
  <2> QED BY <1>2, <2>1, <2>2
<1>8. n >= 1 /\ HasMagic(a.blocks[1]) => 1 \in H
  <2> SUFFICES ASSUME n >= 1, HasMagic(a.blocks[1]) PROVE 1 \in H
    OBVIOUS
  <2>1. 1 \in 1 .. n
    BY <1>1
  <2>2. 1 \in own[1]
    BY <1>6, <2>1
  <2> HIDE DEF own, n, H, go, next
  <2> QED BY <1>2, <1>5, <2>1, <2>2
<1>9. ASSUME NEW p \in H, NEW q \in 1 .. n, ~CutShort(a, p), q = Over(a)[p], HasMagic(a.blocks[q])
      PROVE  q \in H
  <2>1. p \in 1 .. n /\ HasMagic(a.blocks[p]) /\ w[p] \subseteq H
    BY <1>7
  <2>2. go[p] /\ next[p] = p + 1 + Dat(p) /\ q \in own[q]
    BY <1>6, <1>9, <2>1
  <2>3. next[p] = q
    BY <1>9, <2>1, <2>2 DEF Over
  <2> HIDE DEF own, n, H, go, next
  <2>4. q \in w[q] /\ w[q] \subseteq w[p]
    BY <1>5, <2>1, <2>2, <2>3
  <2> QED BY <2>1, <2>4
<1>10. ASSUME NEW q \in 1 .. n, HasMagic(a.blocks[q]),
              \A p \in 1 .. q - 1 : HasMagic(a.blocks[p]) => p + Dat(p) < q,
              NEW x \in H, x > q
       PROVE  x > q + Dat(q)
  <2>1. ASSUME NEW p \in 1 .. q - 1 PROVE next[p] <= q
    <3>1. p \in 1 .. n
      BY <1>1
    <3>2. Dat(p) \in Nat
      BY <3>1, TarType, DataBlocksFacts
    <3>3. next[p] = IF HasMagic(a.blocks[p]) THEN p + 1 + Dat(p) ELSE p + 1
      BY <3>1, FixSteps
    <3>4. HasMagic(a.blocks[p]) => p + Dat(p) < q
      BY <1>10
    <3> HIDE DEF next, n, Dat
    <3>5. p + Dat(p) < q => p + 1 + Dat(p) <= q
      BY <3>2
    <3>6. p + 1 <= q
      BY <1>1
    <3> QED BY <3>3, <3>4, <3>5, <3>6
  <2>2. x >= next[q]
    <3> HIDE DEF n, own, go, next, H, Dat
    <3> QED BY <1>1, <1>2, <1>3, <1>10, <2>1, WalkMeets
  <2>3. next[q] = q + 1 + Dat(q) /\ Dat(q) \in Nat /\ x \in 1 .. n
    BY <1>6, <1>7, <1>10, TarType, DataBlocksFacts
  <2> HIDE DEF next, Dat
  <2> QED BY <2>2, <2>3
<1> QED BY <1>7, <1>8, <1>9, <1>10

-----------------------------------------------------------------------------
\* Repairs that keep the blocks where they are.

\* A member whose blocks are the same is the same.
LEMMA SameMember ==
  ASSUME NEW a \in Archives, NEW b \in Archives, NEW q \in 1 .. Len(a.blocks), ~CutShort(a, q),
         Len(a.blocks) <= Len(b.blocks),
         \A i \in q .. q + DataBlocks(a.blocks[q]) : b.blocks[i] = a.blocks[i]
  PROVE  MemberAt(b, q) = MemberAt(a, q)
<1> DEFINE d == DataBlocks(a.blocks[q])
           n == Len(a.blocks)
           fa == a.blocks \o a.rest
           fb == b.blocks \o b.rest
           x == SubSeq(fa, q, q + d)
           y == SubSeq(fb, q, q + d)
<1>1. n \in Nat /\ d \in Nat /\ ~(q + d > n) /\ Len(b.blocks) \in Nat /\ n <= Len(b.blocks)
  BY TarType, DataBlocksFacts DEF CutShort
<1>2. q \in q .. q + d
  BY <1>1
<1>3. DataBlocks(b.blocks[q]) = d
  BY <1>2
<1>4. ASSUME NEW c \in Archives
      PROVE  LET file == c.blocks \o c.rest
             IN  /\ file \in Seq(BlockRecords) /\ Len(file) \in Nat /\ Len(file) >= Len(c.blocks)
                 /\ \A i \in 1 .. Len(c.blocks) : file[i] = c.blocks[i]
  <2>1. c.blocks \in Seq(BlockRecords) /\ c.rest \in Seq(BlockRecords)
    BY TarType DEF BlockRecords
  <2>2. \A u, v \in Seq(BlockRecords) :
          /\ u \o v \in Seq(BlockRecords) /\ Len(u \o v) \in Nat /\ Len(u \o v) >= Len(u)
          /\ \A i \in 1 .. Len(u) : (u \o v)[i] = u[i]
    OBVIOUS
  <2> QED BY <2>1, <2>2, Zenon
<1>5. /\ fa \in Seq(BlockRecords) /\ Len(fa) \in Nat /\ Len(fa) >= n
      /\ \A i \in 1 .. n : fa[i] = a.blocks[i]
  BY <1>4
<1>6. /\ fb \in Seq(BlockRecords) /\ Len(fb) \in Nat /\ Len(fb) >= Len(b.blocks)
      /\ \A i \in 1 .. Len(b.blocks) : fb[i] = b.blocks[i]
  BY <1>4
<1>7. /\ MemberAt(a, q) = SubSeq(fa, q, IF q + d > Len(fa) THEN Len(fa) ELSE q + d)
      /\ MemberAt(b, q) = SubSeq(fb, q, IF q + d > Len(fb) THEN Len(fb) ELSE q + d)
  BY <1>3 DEF MemberAt
<1>8. \A i \in q .. q + d : i \in 1 .. n /\ i \in 1 .. Len(b.blocks) /\ b.blocks[i] = a.blocks[i]
  BY <1>1
<1> DEFINE lb == Len(b.blocks)
<1> HIDE DEF d, n, fa, fb, lb
<1>9. q \in 1 .. n /\ lb \in Nat /\ n <= lb /\ Len(fb) >= lb
  BY <1>1, <1>6 DEF n, lb
<1>10. ~(q + d > Len(fa)) /\ ~(q + d > Len(fb)) /\ q \in Int /\ q + d \in Int /\ q <= q + d
  BY <1>1, <1>5, <1>6, <1>9
<1>11. MemberAt(a, q) = x /\ MemberAt(b, q) = y
  BY <1>7, <1>10
<1>12. \A i \in q .. q + d : fa[i] \in BlockRecords /\ fb[i] = fa[i]
  <2> SUFFICES ASSUME NEW i \in q .. q + d PROVE fa[i] \in BlockRecords /\ fb[i] = fa[i]
    OBVIOUS
  <2>1. i \in 1 .. n /\ b.blocks[i] = a.blocks[i] /\ i \in 1 .. lb
    BY <1>8 DEF lb
  <2>2. i \in 1 .. Len(fa)
    BY <1>1, <1>5, <2>1
  <2> QED BY <1>5, <1>6, <2>1, <2>2 DEF lb
<1>13. /\ x \in Seq(BlockRecords) /\ Len(x) = IF q <= q + d THEN (q + d) - q + 1 ELSE 0
       /\ \A i \in 1 .. (q + d) - q + 1 : x[i] = fa[q + i - 1]
  BY <1>10, <1>12, SubSeqProperties
<1>14. /\ y \in Seq(BlockRecords) /\ Len(y) = IF q <= q + d THEN (q + d) - q + 1 ELSE 0
       /\ \A i \in 1 .. (q + d) - q + 1 : y[i] = fb[q + i - 1]
  <2>1. \A i \in q .. q + d : fb[i] \in BlockRecords
    BY <1>12
  <2> QED BY <1>10, <2>1, SubSeqProperties
<1>15. (q + d) - q + 1 = 1 + d /\ \A i \in 1 .. 1 + d : q + i - 1 \in q .. q + d
  BY <1>1, <1>9
<1> HIDE DEF x, y
<1>16. Len(y) = Len(x) /\ Len(x) = 1 + d /\ \A i \in 1 .. 1 + d : y[i] = x[i]
  BY <1>10, <1>12, <1>13, <1>14, <1>15
<1>17. y = x
  BY <1>13, <1>14, <1>16, SeqEqual
<1> QED BY <1>11, <1>17

\* A header with its checksum made to match.
LEMMA SummedFacts ==
  ASSUME NEW b \in BlockRecords, HasMagic(b)
  PROVE  LET c == [b EXCEPT !.sum = "ok"]
         IN  /\ c \in BlockRecords /\ HasMagic(c) /\ SumOk(c) /\ ~IsZero(c) /\ ~IsZero(b)
             /\ DataBlocks(c) = DataBlocks(b) /\ (SumOk(b) => c = b)
<1> DEFINE Headers == [kind : {"head"}, tag : STRING, magic : BOOLEAN, sum : {"ok", "bad"}, size : Nat]
           c == [b EXCEPT !.sum = "ok"]
<1>1. b \in Headers
  BY DEF HasMagic, BlockRecords, HalfRecords
<1>2. c \in Headers /\ c.kind = "head" /\ c.magic = b.magic /\ c.sum = "ok" /\ c.size = b.size
  BY <1>1
<1>3. c \in BlockRecords
  BY <1>2 DEF BlockRecords
<1>4. b.sum = "ok" => c = b
  BY <1>1
<1>5. b.kind = "head" /\ b.magic
  BY DEF HasMagic
<1> HIDE DEF c, Headers
<1>6. SizeIn(c) = SizeIn(b)
  BY <1>2, <1>5 DEF SizeIn
<1> QED BY <1>2, <1>3, <1>4, <1>5, <1>6 DEF c, HasMagic, SumOk, IsZero, DataBlocks

\* What tar-checksum-fix makes of an archive.
LEMMA FixedFacts ==
  ASSUME NEW a \in Archives
  PROVE  LET c == ChecksumsFixed(a)
             n == Len(a.blocks)
         IN  /\ c \in Archives /\ Len(c.blocks) = n /\ c.rest = a.rest
             /\ \A p \in 1 .. n :
                  /\ p \notin HeadersWalked(a) \/ SumOk(a.blocks[p]) => c.blocks[p] = a.blocks[p]
                  /\ p \in HeadersWalked(a) => c.blocks[p] = [a.blocks[p] EXCEPT !.sum = "ok"]
                  /\ p \in HeadersWalked(a) => SumOk(c.blocks[p])
                  /\ HasMagic(a.blocks[p]) => HasMagic(c.blocks[p])
             /\ Extends(c, a) /\ Extends(a, c)
<1> DEFINE c == ChecksumsFixed(a)
           n == Len(a.blocks)
           H == HeadersWalked(a)
           Fix(p) == IF p \in H THEN [a.blocks[p] EXCEPT !.sum = "ok"] ELSE a.blocks[p]
           f == [p \in 1 .. n |-> Fix(p)]
<1>1. /\ n \in Nat /\ a.blocks \in Seq(BlockRecords) /\ DOMAIN a.blocks = 1 .. n /\ a.rest \in Seq(HalfRecords)
      /\ a \in [blocks : Seq(BlockRecords), rest : Seq(HalfRecords)] /\ Len(a.rest) <= 1
      /\ \A p \in 1 .. n : a.blocks[p] \in BlockRecords
  BY TarType DEF Archives
<1>2. c = [a EXCEPT !.blocks = f]
  BY <1>1 DEF ChecksumsFixed
<1>3. \A p \in H : p \in 1 .. n /\ HasMagic(a.blocks[p])
  BY FixFacts
<1>4. ASSUME NEW p \in 1 .. n
      PROVE  /\ Fix(p) \in BlockRecords
             /\ p \notin H \/ SumOk(a.blocks[p]) => Fix(p) = a.blocks[p]
             /\ p \in H => SumOk(Fix(p)) /\ Fix(p) = [a.blocks[p] EXCEPT !.sum = "ok"]
             /\ HasMagic(a.blocks[p]) => HasMagic(Fix(p))
             /\ DataBlocks(Fix(p)) = DataBlocks(a.blocks[p]) /\ (IsZero(Fix(p)) <=> IsZero(a.blocks[p]))
  <2>1. CASE p \in H
    <3> DEFINE b == a.blocks[p]
    <3>1. b \in BlockRecords /\ HasMagic(b) /\ Fix(p) = [b EXCEPT !.sum = "ok"]
      BY <1>1, <1>3, <2>1
    <3> DEFINE v == Fix(p)
    <3> HIDE DEF b, v
    <3>2. /\ v \in BlockRecords /\ HasMagic(v) /\ SumOk(v) /\ ~IsZero(v) /\ ~IsZero(b)
          /\ DataBlocks(v) = DataBlocks(b) /\ (SumOk(b) => v = b)
      BY <3>1, SummedFacts DEF v
    <3> QED BY <2>1, <3>1, <3>2 DEF b, v
  <2>2. CASE p \notin H
    BY <1>1, <2>2
  <2> QED BY <2>1, <2>2
<1> HIDE DEF Fix, H
<1>5. f \in Seq(BlockRecords) /\ Len(f) = n /\ \A p \in 1 .. n : f[p] = Fix(p)
  <2>1. f \in [1 .. n -> BlockRecords]
    BY <1>4
  <2>2. \A p \in 1 .. n : f[p] = Fix(p)
    OBVIOUS
  <2> HIDE DEF f, n
  <2> QED BY <1>1, <2>1, <2>2, FunctionSeq
<1> HIDE DEF f, c
<1>6. c.blocks = f /\ c.rest = a.rest /\ c \in [blocks : Seq(BlockRecords), rest : Seq(HalfRecords)]
  BY <1>1, <1>2, <1>5
<1>7. c \in Archives
  BY <1>1, <1>6 DEF Archives
<1>8. Extends(c, a) /\ Extends(a, c)
  <2>1. \A p \in 1 .. n : /\ DataBlocks(c.blocks[p]) = DataBlocks(a.blocks[p])
                          /\ IsZero(c.blocks[p]) <=> IsZero(a.blocks[p])
    BY <1>4, <1>5, <1>6
  <2>2. Len(c.blocks) = n /\ n <= n
    BY <1>1, <1>5, <1>6
  <2> QED BY <2>1, <2>2 DEF Extends
<1> QED BY <1>4, <1>5, <1>6, <1>7, <1>8 DEF c, H

\* What tar-terminator-append makes of it.
LEMMA AppendedFacts ==
  ASSUME NEW a \in Archives
  PROVE  LET t == TerminatorAppended(a)
             n == Len(a.blocks)
         IN  /\ t \in Archives /\ n <= Len(t.blocks) /\ Extends(t, a)
             /\ \A p \in 1 .. n : t.blocks[p] = a.blocks[p]
             /\ ~Ended(a) /\ a.rest = << >> =>
                  Len(t.blocks) = n + 2 /\ t.blocks[n + 1] = Zero /\ t.blocks[n + 2] = Zero
<1> DEFINE t == TerminatorAppended(a)
           n == Len(a.blocks)
           S == BlockRecords
<1>1. /\ n \in Nat /\ a.blocks \in Seq(S) /\ a.rest \in Seq(HalfRecords)
      /\ a \in [blocks : Seq(BlockRecords), rest : Seq(HalfRecords)] /\ Len(a.rest) <= 1
  BY TarType DEF Archives
<1>2. Zero \in BlockRecords /\ Zero \in HalfRecords
  BY DEF Zero, BlockRecords, HalfRecords
<1>3. /\ Blank \in Seq(S) /\ Len(Blank) = 2 /\ Blank[1] = Zero /\ Blank[2] = Zero
      /\ <<Zero>> \in Seq(S) /\ <<Zero>> \in Seq(HalfRecords) /\ Len(<<Zero>>) <= 1 /\ a.rest \in Seq(S)
  <2>1. a.rest \in Seq(S)
    BY TarType DEF BlockRecords
  <2> HIDE DEF Zero, S
  <2>2. Zero \in S
    BY <1>2 DEF S
  <2> QED BY <1>2, <2>1, <2>2 DEF Blank
<1> HIDE DEF Blank, Zero, S
<1>4. \A x, y \in Seq(S) :
        /\ x \o y \in Seq(S) /\ Len(x \o y) = Len(x) + Len(y) /\ Len(x) \in Nat
        /\ \A i \in 1 .. Len(x) : (x \o y)[i] = x[i]
        /\ \A i \in 1 .. Len(y) : (x \o y)[Len(x) + i] = y[i]
  OBVIOUS
<1>5. CASE Ended(a)
  <2>1. t = a
    BY <1>5 DEF TerminatorAppended
  <2>2. n <= Len(a.blocks)
    BY <1>1
  <2> QED BY <1>5, <2>1, <2>2 DEF Extends
<1>6. CASE ~Ended(a) /\ a.rest = << >>
  <2> DEFINE f == a.blocks \o Blank
  <2>1. t = [a EXCEPT !.blocks = f]
    BY <1>6 DEF TerminatorAppended
  <2>2. /\ f \in Seq(S) /\ Len(f) = n + Len(Blank)
        /\ \A i \in 1 .. n : f[i] = a.blocks[i]
        /\ \A i \in 1 .. Len(Blank) : f[n + i] = Blank[i]
    BY <1>1, <1>3, <1>4, Zenon
  <2> HIDE DEF f, t
  <2>3. t.blocks = f /\ t.rest = a.rest /\ t \in [blocks : Seq(BlockRecords), rest : Seq(HalfRecords)]
    BY <1>1, <2>1, <2>2 DEF S
  <2>4. t \in Archives
    BY <1>1, <2>3 DEF Archives
  <2>5. 1 \in 1 .. Len(Blank) /\ 2 \in 1 .. Len(Blank) /\ n <= n + Len(Blank)
    BY <1>1, <1>3
  <2>6. /\ Len(t.blocks) = n + 2 /\ t.blocks[n + 1] = Zero /\ t.blocks[n + 2] = Zero
        /\ \A i \in 1 .. n : t.blocks[i] = a.blocks[i]
    <3> HIDE DEF n
    <3> QED BY <1>3, <2>2, <2>3, <2>5
  <2>7. n <= Len(t.blocks)
    BY <1>1, <2>6
  <2> QED BY <2>4, <2>6, <2>7 DEF Extends, t
<1>7. CASE ~Ended(a) /\ a.rest # << >>
  <2> DEFINE g == a.blocks \o a.rest
             f == g \o <<Zero>>
  <2>1. t = [blocks |-> f, rest |-> <<Zero>>]
    BY <1>7 DEF TerminatorAppended
  <2>2. /\ g \in Seq(S) /\ Len(g) = n + Len(a.rest) /\ Len(a.rest) \in Nat
        /\ \A i \in 1 .. n : g[i] = a.blocks[i]
    BY <1>1, <1>3, <1>4, Zenon
  <2> HIDE DEF g
  <2>3. /\ f \in Seq(S) /\ Len(f) = Len(g) + Len(<<Zero>>) /\ Len(<<Zero>>) \in Nat
        /\ \A i \in 1 .. Len(g) : f[i] = g[i]
    BY <1>3, <1>4, <2>2, Zenon
  <2> HIDE DEF f, t
  <2>4. t.blocks = f /\ t.rest = <<Zero>> /\ t \in [blocks : Seq(BlockRecords), rest : Seq(HalfRecords)]
    <3>1. f \in Seq(BlockRecords)
      BY <2>3 DEF S
    <3> QED BY <1>3, <2>1, <3>1
  <2>5. t \in Archives
    BY <1>3, <2>4 DEF Archives
  <2> DEFINE z == Len(<<Zero>>)
  <2>6. z \in Nat /\ Len(f) = Len(g) + z
    BY <2>3
  <2> HIDE DEF z
  <2>7. n <= Len(f) /\ \A i \in 1 .. n : i \in 1 .. Len(g)
    BY <1>1, <2>2, <2>6
  <2>8. \A i \in 1 .. n : t.blocks[i] = a.blocks[i]
    BY <2>2, <2>3, <2>4, <2>7
  <2> QED BY <1>7, <2>4, <2>5, <2>7, <2>8 DEF Extends, t
<1> QED BY <1>5, <1>6, <1>7

-----------------------------------------------------------------------------
\* What the engine publishes.

LEMMA TarRisks ==
  /\ Risk["tar-checksum-fix"] = "Safe" /\ Risk["tar-terminator-append"] = "Safe"
  /\ Risk["tar-size-resync"] = "Inferred"
<1>1. /\ "tar-checksum-fix" \in Strategies /\ "tar-terminator-append" \in Strategies
      /\ "tar-size-resync" \in Strategies
  <2>1. /\ AllStrategies[4] = "tar-checksum-fix" /\ AllStrategies[5] = "tar-terminator-append"
        /\ AllStrategies[6] = "tar-size-resync" /\ DOMAIN AllStrategies = 1 .. 16
    BY DEF AllStrategies
  <2> QED BY <2>1 DEF Strategies
<1>2. /\ ProfileOf["tar-checksum-fix"] = TarChecksumFix
      /\ ProfileOf["tar-terminator-append"] = TarTerminatorAppend
      /\ ProfileOf["tar-size-resync"] = TarSizeBoundaryResync
  BY <1>1 DEF ProfileOf
<1> QED BY <1>1, <1>2 DEF Risk, Profile, TarChecksumFix, TarTerminatorAppend, TarSizeBoundaryResync

LEMMA StagedIs ==
  ASSUME NEW s \in Strategies, NEW a
  PROVE  /\ s \in Verbatim => StagedFor(s, a) = StagedAs(a, a, TRUE)
         /\ s = "tar-checksum-fix" => StagedFor(s, a) = StagedAs(ChecksumsFixed(a), a, ~AllZero(a))
         /\ s = "tar-terminator-append" => StagedFor(s, a) = StagedAs(TerminatorAppended(a), a, TRUE)
         /\ s = "tar-continuation-salvage" =>
              StagedFor(s, a) = StagedAs(SalvagedArchive(a), a, Salvaged(a) # {})
         /\ (/\ s \notin Verbatim
             /\ s \notin {"tar-checksum-fix", "tar-terminator-append", "tar-size-resync",
                          "tar-continuation-salvage"})
              => StagedFor(s, a) = StagedAs(a, a, FALSE)
<1>1. s \in Verbatim => StagedFor(s, a) = StagedAs(a, a, TRUE)
  BY DEF StagedFor, Verbatim
<1>2. s = "tar-checksum-fix" => StagedFor(s, a) = StagedAs(ChecksumsFixed(a), a, ~AllZero(a))
  BY DEF StagedFor, Verbatim
<1>3. s = "tar-terminator-append" => StagedFor(s, a) = StagedAs(TerminatorAppended(a), a, TRUE)
  BY DEF StagedFor, Verbatim
<1>4. s = "tar-continuation-salvage" =>
        StagedFor(s, a) = StagedAs(SalvagedArchive(a), a, Salvaged(a) # {})
  BY DEF StagedFor, Verbatim
<1>5. (/\ s \notin Verbatim
       /\ s \notin {"tar-checksum-fix", "tar-terminator-append", "tar-size-resync",
                    "tar-continuation-salvage"})
        => StagedFor(s, a) = StagedAs(a, a, FALSE)
  BY DEF StagedFor
<1> QED BY <1>1, <1>2, <1>3, <1>4, <1>5

\* A published archive is what its strategy makes of the source, and one of the
\* size resync is the reference.
PublishedBy(a) ==
  \/ LastKept.by \in Verbatim /\ output = a
  \/ LastKept.by = "tar-checksum-fix" /\ output = ChecksumsFixed(a)
  \/ LastKept.by = "tar-terminator-append" /\ output = TerminatorAppended(a)
  \/ LastKept.by = "tar-size-resync" /\ job.ref # NoBytes /\ output = job.ref
  \/ /\ LastKept.by = "tar-continuation-salvage"
     /\ Salvaged(a) # {} /\ output = SalvagedArchive(a)

LEMMA PublishedTar ==
  ASSUME SafetyInv, StagedInv, Published
  PROVE  job.src \in Archives /\ output \in Archives /\ PublishedBy(job.src)
<1> DEFINE a == job.src
           s == LastKept.by
<1>1. /\ job \in Jobs /\ output \in Blobs /\ s \in Strategies /\ Keep(job, s, output) /\ a \in Blobs
  BY PublishedIsStaged
<1>2. PICK x \in Staged[s][a] : x.bytes = output
  BY PublishedIsStaged
<1>3. a \in Archives /\ output \in Archives /\ Staged[s][a] = StagedFor(s, a)
  BY <1>1, ArchivesAssumption
<1>4. output # NoBytes
  BY <1>1, BlobsAssumption
<1>5. PublishedBy(a)
  <2> HIDE DEF a, s
  <2>1. x \in StagedFor(s, a)
    BY <1>2, <1>3
  <2>2. \A b, w, h : x \in StagedAs(b, w, h) => h /\ output = b
    BY <1>2, <1>4 DEF StagedAs
  <2>3. CASE s \in Verbatim
    <3>1. StagedFor(s, a) = StagedAs(a, a, TRUE)
      BY <1>1, <2>3, StagedIs
    <3>2. output = a
      BY <2>1, <2>2, <3>1, Zenon
    <3> QED BY <2>3, <3>2 DEF PublishedBy, s
  <2>4. CASE s = "tar-checksum-fix"
    <3>1. StagedFor(s, a) = StagedAs(ChecksumsFixed(a), a, ~AllZero(a))
      BY <1>1, <2>4, StagedIs
    <3>2. output = ChecksumsFixed(a)
      BY <2>1, <2>2, <3>1, Zenon
    <3> QED BY <2>4, <3>2 DEF PublishedBy, s
  <2>5. CASE s = "tar-terminator-append"
    <3>1. StagedFor(s, a) = StagedAs(TerminatorAppended(a), a, TRUE)
      BY <1>1, <2>5, StagedIs
    <3>2. output = TerminatorAppended(a)
      BY <2>1, <2>2, <3>1, Zenon
    <3> QED BY <2>5, <3>2 DEF PublishedBy, s
  <2>6. CASE s = "tar-size-resync"
    <3>1. job.ref # NoBytes /\ output = job.ref
      BY <1>1, <2>6, TarRisks DEF Keep, Verified
    <3> QED BY <2>6, <3>1 DEF PublishedBy, s
  <2>7. CASE s = "tar-continuation-salvage"
    <3>1. StagedFor(s, a) = StagedAs(SalvagedArchive(a), a, Salvaged(a) # {})
      BY <1>1, <2>7, StagedIs
    <3>2. Salvaged(a) # {} /\ output = SalvagedArchive(a)
      BY <2>1, <2>2, <3>1, Zenon
    <3> QED BY <2>7, <3>2 DEF PublishedBy, s
  <2>8. CASE /\ s \notin Verbatim
             /\ s \notin {"tar-checksum-fix", "tar-terminator-append", "tar-size-resync",
                          "tar-continuation-salvage"}
    <3>1. StagedFor(s, a) = StagedAs(a, a, FALSE)
      BY <1>1, <2>8, StagedIs
    <3> QED BY <2>1, <2>2, <3>1
  <2> QED BY <2>3, <2>4, <2>5, <2>6, <2>7, <2>8
<1> QED BY <1>3, <1>5

\* The salvage is the join of what it takes.
LEMMA SalvageJoins ==
  ASSUME NEW a \in Archives, Salvaged(a) # {}
  PROVE  /\ SalvagedArchive(a) = Joined(a, Salvaged(a))
         /\ Salvaged(a) \subseteq Members(a) /\ a.blocks # << >>
<1> DEFINE T == Salvaged(a)
<1>1. T \subseteq Members(a)
  BY SalvagedFacts DEF Members
<1>2. a.blocks # << >>
  <2>1. PICK p \in T : TRUE
    OBVIOUS
  <2>2. p \in 1 .. Len(a.blocks)
    BY SalvagedFacts
  <2>3. Len(<< >>) = 0 /\ 1 .. 0 = {}
    OBVIOUS
  <2> QED BY <2>2, <2>3
<1>3. SalvagedArchive(a) = Joined(a, T)
  BY DEF SalvagedArchive, Joined, Cut
<1> QED BY <1>1, <1>2, <1>3

\* Whatever tar-continuation-salvage publishes, of an archive of any length with
\* damage of any kind, is read without a defect from the first member to the
\* terminator, and every member of it stands in the source under a header whose
\* checksum holds, with all of its data.
THEOREM SalvageTheorem == Spec => []SalvageIsExact
<1>1. SafetyInv /\ StagedInv => SalvageIsExact
  <2> SUFFICES ASSUME SafetyInv, StagedInv, Published, LastKept.by = "tar-continuation-salvage"
               PROVE  TarDefects(output) = << >> /\ Readable(output) \subseteq Proven(job.src)
    BY DEF SalvageIsExact
  <2> DEFINE a == job.src
  <2>1. a \in Archives /\ output = SalvagedArchive(a) /\ Salvaged(a) # {}
    BY PublishedTar DEF PublishedBy, Verbatim
  <2> HIDE DEF a
  <2> QED BY <2>1, SalvageJoins, JoinedIsSound DEF a
<1> QED BY <1>1, SafetyInvariant, StagedInvariant, PTL

-----------------------------------------------------------------------------
\* No readable member is lost.

\* The blocks that the reader takes for whole and proven members.
ReadableAt(a, q) ==
  q \in ReadBlocks(a) /\ HasMagic(a.blocks[q]) /\ SumOk(a.blocks[q]) /\ ~CutShort(a, q)

LEMMA ReadableIs ==
  ASSUME NEW a
  PROVE  /\ \A q : ReadableAt(a, q) => MemberAt(a, q) \in Readable(a)
         /\ \A m \in Readable(a) : \E q : ReadableAt(a, q) /\ m = MemberAt(a, q)
BY DEF Readable, ReadableAt

\* A member is read again where its blocks are as they were and nothing before it
\* leads elsewhere.
LEMMA StillReadable ==
  ASSUME NEW a \in Archives, NEW b \in Archives, Extends(b, a), NEW q, ReadableAt(a, q),
         \A i \in q .. q + DataBlocks(a.blocks[q]) : b.blocks[i] = a.blocks[i]
  PROVE  MemberAt(a, q) \in Readable(b)
<1>1. q \in 1 .. Len(a.blocks)
  BY ReaderFacts DEF ReadableAt
<1>2. DataBlocks(a.blocks[q]) \in Nat
  BY <1>1, TarType, DataBlocksFacts
<1>3. q \in q .. q + DataBlocks(a.blocks[q])
  BY <1>1, <1>2
<1>4. b.blocks[q] = a.blocks[q]
  BY <1>3
<1>5. q \in ReadBlocks(b)
  BY SameReading DEF ReadableAt
<1>6. ~CutShort(b, q)
  BY <1>1, SameSteps DEF ReadableAt
<1>7. ReadableAt(b, q)
  BY <1>4, <1>5, <1>6 DEF ReadableAt
<1>8. MemberAt(b, q) = MemberAt(a, q)
  BY <1>1, SameMember DEF ReadableAt, Extends
<1> QED BY <1>7, <1>8, ReadableIs

\* A member that is not cut short has its blocks in the archive.
LEMMA ReadablePlace ==
  ASSUME NEW a \in Archives, NEW q, ReadableAt(a, q)
  PROVE  LET d == DataBlocks(a.blocks[q])
         IN  /\ q \in 1 .. Len(a.blocks) /\ d \in Nat /\ \A i \in q .. q + d : i \in 1 .. Len(a.blocks)
             /\ Valid(a, q) /\ Whole(a, q)
<1> DEFINE d == DataBlocks(a.blocks[q])
           z == SizeIn(a.blocks[q])
           n == Len(a.blocks)
           r == Len(a.rest)
<1>1. q \in 1 .. n
  BY ReaderFacts DEF ReadableAt
<1>2. d \in Nat /\ z \in Nat /\ z <= 2 * d /\ n \in Nat /\ r \in {0, 1}
  BY <1>1, TarType, DataBlocksFacts
<1>3. ~(q + d > n) /\ Valid(a, q)
  BY DEF ReadableAt, CutShort, Valid
<1>4. Whole(a, q) <=> 2 * q + z <= 2 * n + r
  BY DEF Whole, HalfBlocks
<1> HIDE DEF d, z, n, r
<1>5. 2 * q + z <= 2 * n + r /\ \A i \in q .. q + d : i \in 1 .. n
  BY <1>1, <1>2, <1>3
<1> QED BY <1>1, <1>2, <1>3, <1>4, <1>5 DEF d, n

LEMMA AppendedKeeps ==
  ASSUME NEW a \in Archives
  PROVE  Readable(a) \subseteq Readable(TerminatorAppended(a))
<1> SUFFICES ASSUME NEW m \in Readable(a) PROVE m \in Readable(TerminatorAppended(a))
  OBVIOUS
<1> DEFINE t == TerminatorAppended(a)
<1>1. PICK q : ReadableAt(a, q) /\ m = MemberAt(a, q)
  BY ReadableIs
<1>2. t \in Archives /\ Extends(t, a) /\ \A p \in 1 .. Len(a.blocks) : t.blocks[p] = a.blocks[p]
  BY AppendedFacts
<1>3. \A i \in q .. q + DataBlocks(a.blocks[q]) : i \in 1 .. Len(a.blocks)
  BY <1>1, ReadablePlace
<1> HIDE DEF t
<1>4. \A i \in q .. q + DataBlocks(a.blocks[q]) : t.blocks[i] = a.blocks[i]
  BY <1>2, <1>3
<1>5. MemberAt(a, q) \in Readable(t)
  BY <1>1, <1>2, <1>4, StillReadable
<1> QED BY <1>1, <1>5 DEF t

\* tar-checksum-fix rewrites no header inside a member that nothing leads into.
LEMMA FixedKeeps ==
  ASSUME NEW a \in Archives, InnerHeadersStayInside(a, Believed("tar-checksum-fix", a))
  PROVE  Readable(a) \subseteq Readable(ChecksumsFixed(a))
<1> SUFFICES ASSUME NEW m \in Readable(a) PROVE m \in Readable(ChecksumsFixed(a))
  OBVIOUS
<1> DEFINE c == ChecksumsFixed(a)
           n == Len(a.blocks)
           H == HeadersWalked(a)
<1>1. PICK q : ReadableAt(a, q) /\ m = MemberAt(a, q)
  BY ReadableIs
<1> DEFINE d == DataBlocks(a.blocks[q])
<1>2. /\ c \in Archives /\ Extends(c, a)
      /\ \A p \in 1 .. n : p \notin H \/ SumOk(a.blocks[p]) => c.blocks[p] = a.blocks[p]
  BY FixedFacts
<1>3. /\ q \in 1 .. n /\ d \in Nat /\ \A i \in q .. q + d : i \in 1 .. n
  BY <1>1, ReadablePlace
<1>4. ASSUME NEW p \in 1 .. q - 1, HasMagic(a.blocks[p]) PROVE p + DataBlocks(a.blocks[p]) < q
  <2>1. p \in DOMAIN a.blocks /\ p < q
    BY <1>3, TarType
  <2>2. p \in Believed("tar-checksum-fix", a)
    BY <1>4, <2>1 DEF Believed
  <2>3. q \in ReadBlocks(a)
    BY <1>1 DEF ReadableAt
  <2> QED BY <2>1, <2>2, <2>3 DEF InnerHeadersStayInside
<1>5. \A p \in H : p > q => p > q + d
  BY <1>1, <1>3, <1>4, FixFacts DEF ReadableAt
<1>6. SumOk(a.blocks[q])
  BY <1>1 DEF ReadableAt
<1> HIDE DEF d, H, n, c
<1>7. ASSUME NEW i \in q .. q + d PROVE c.blocks[i] = a.blocks[i]
  <2>1. i \in 1 .. n
    BY <1>3
  <2>2. i = q \/ (i > q /\ ~(i > q + d))
    BY <1>3, <2>1 DEF n
  <2> QED BY <1>2, <1>5, <1>6, <2>1, <2>2
<1>8. MemberAt(a, q) \in Readable(c)
  BY <1>1, <1>2, <1>7, StillReadable DEF d
<1> QED BY <1>1, <1>8 DEF c

\* The salvage takes every readable member that nothing leads past.
LEMMA SalvageKeeps ==
  ASSUME NEW a \in Archives, Salvaged(a) # {},
         InnerHeadersStayInside(a, Believed("tar-continuation-salvage", a))
  PROVE  Readable(a) \subseteq Readable(SalvagedArchive(a))
<1> SUFFICES ASSUME NEW m \in Readable(a) PROVE m \in Readable(SalvagedArchive(a))
  OBVIOUS
<1>1. PICK q : ReadableAt(a, q) /\ m = MemberAt(a, q)
  BY ReadableIs
<1>2. q \in 1 .. Len(a.blocks) /\ Valid(a, q) /\ Whole(a, q)
  BY <1>1, ReadablePlace
<1>3. ASSUME NEW p \in 1 .. q - 1, Valid(a, p) PROVE p + DataBlocks(a.blocks[p]) < q
  <2>1. p \in DOMAIN a.blocks /\ p < q
    BY <1>2, TarType
  <2>2. p \in Believed("tar-continuation-salvage", a)
    BY <1>3, <2>1 DEF Believed, Valid
  <2>3. q \in ReadBlocks(a)
    BY <1>1 DEF ReadableAt
  <2> QED BY <2>1, <2>2, <2>3 DEF InnerHeadersStayInside
<1>4. q \in Salvaged(a)
  BY <1>2, <1>3, SalvagedFacts
<1> QED BY <1>1, <1>4, SalvageJoins, JoinedHolds

\* Whatever repair is published, of an archive of any length and damage, every
\* member that the reader found proven and whole in the source is found in the
\* output again.
THEOREM TarMembersTheorem == Spec => []NoReadableMemberIsLost
<1>1. SafetyInv /\ StagedInv => NoReadableMemberIsLost
  <2> DEFINE a == job.src
             s == LastKept.by
  <2> SUFFICES ASSUME SafetyInv, StagedInv, Published,
                      InnerHeadersStayInside(a, Believed(s, a)),
                      job.ref # NoBytes => Readable(a) \subseteq Readable(job.ref)
               PROVE  Readable(a) \subseteq Readable(output)
    BY DEF NoReadableMemberIsLost
  <2>1. a \in Archives /\ PublishedBy(a)
    BY PublishedTar
  <2> HIDE DEF a
  <2>2. CASE s \in Verbatim /\ output = a
    BY <2>2
  <2>3. CASE s = "tar-checksum-fix" /\ output = ChecksumsFixed(a)
    BY <2>1, <2>3, FixedKeeps
  <2>4. CASE s = "tar-terminator-append" /\ output = TerminatorAppended(a)
    BY <2>1, <2>4, AppendedKeeps
  <2>5. CASE s = "tar-size-resync" /\ job.ref # NoBytes /\ output = job.ref
    BY <2>5
  <2>6. CASE s = "tar-continuation-salvage" /\ Salvaged(a) # {} /\ output = SalvagedArchive(a)
    BY <2>1, <2>6, SalvageKeeps
  <2> QED BY <2>1, <2>2, <2>3, <2>4, <2>5, <2>6 DEF PublishedBy
<1> QED BY <1>1, SafetyInvariant, StagedInvariant, PTL

-----------------------------------------------------------------------------
\* Damage to a field.

TarReports == {"TAR_UST_001", "TAR_TRUNC_002", "TAR_TERM_001"}

\* What each finding says of an archive.
LEMMA TarFindings ==
  ASSUME NEW a \in Archives
  PROVE  LET found == TarDefects(a)
         IN  /\ found \in Seq(TarReports)
             /\ ChecksumFailures(a) # {} <=> "TAR_UST_001" \in RangeOf(found)
             /\ Truncation(a) <=> "TAR_TRUNC_002" \in RangeOf(found)
             /\ ~Truncation(a) /\ ~Terminated(a) <=> "TAR_TERM_001" \in RangeOf(found)
<1> DEFINE F == ChecksumFailures(a)
           c == Cardinality(F)
           u == [k \in 1 .. c |-> "TAR_UST_001"]
           v == IF Truncation(a) THEN <<"TAR_TRUNC_002">>
                ELSE IF ~Terminated(a) THEN <<"TAR_TERM_001">> ELSE << >>
           found == TarDefects(a)
<1>1. F \in SUBSET (1 .. Len(a.blocks))
  BY ReaderFacts DEF ChecksumFailures
<1>2. IsFiniteSet(F)
  <2>1. Len(a.blocks) \in Int /\ 1 \in Int
    BY TarType
  <2>2. IsFiniteSet(1 .. Len(a.blocks))
    BY <2>1, FS_Interval
  <2> HIDE DEF F
  <2> QED BY <1>1, <2>2, FS_Subset
<1>3. c \in Nat /\ (c = 0 <=> F = {})
  BY <1>2, FS_EmptySet, FS_CardinalityType
<1>4. found = u \o v
  BY DEF TarDefects
<1> HIDE DEF c, F
<1>5. u \in Seq(TarReports) /\ Len(u) = c /\ \A k \in 1 .. c : u[k] = "TAR_UST_001"
  <2>1. u \in [1 .. c -> TarReports]
    BY DEF TarReports
  <2>2. \A k \in 1 .. c : u[k] = "TAR_UST_001"
    OBVIOUS
  <2> HIDE DEF u
  <2> QED BY <1>3, <2>1, <2>2, FunctionSeq
<1>6. /\ v \in Seq(TarReports)
      /\ Truncation(a) => Len(v) = 1 /\ v[1] = "TAR_TRUNC_002"
      /\ ~Truncation(a) /\ ~Terminated(a) => Len(v) = 1 /\ v[1] = "TAR_TERM_001"
      /\ ~Truncation(a) /\ Terminated(a) => Len(v) = 0
  <2>1. <<"TAR_TRUNC_002">> \in Seq(TarReports) /\ <<"TAR_TERM_001">> \in Seq(TarReports)
        /\ << >> \in Seq(TarReports)
    BY DEF TarReports
  <2> QED BY <2>1
<1> HIDE DEF u, v, found
<1>7. /\ found \in Seq(TarReports) /\ Len(found) = c + Len(v) /\ Len(v) \in Nat
      /\ DOMAIN found = 1 .. c + Len(v)
      /\ \A i \in 1 .. c : found[i] = "TAR_UST_001"
      /\ \A i \in 1 .. Len(v) : found[c + i] = v[i]
  <2>1. \A x, y \in Seq(TarReports) :
          /\ x \o y \in Seq(TarReports) /\ Len(x \o y) = Len(x) + Len(y) /\ Len(y) \in Nat
          /\ DOMAIN (x \o y) = 1 .. Len(x) + Len(y)
          /\ \A i \in 1 .. Len(x) : (x \o y)[i] = x[i]
          /\ \A i \in 1 .. Len(y) : (x \o y)[Len(x) + i] = y[i]
    OBVIOUS
  <2>2. /\ found \in Seq(TarReports) /\ Len(found) = Len(u) + Len(v) /\ Len(v) \in Nat
        /\ DOMAIN found = 1 .. Len(u) + Len(v)
        /\ \A i \in 1 .. Len(u) : found[i] = u[i]
        /\ \A i \in 1 .. Len(v) : found[Len(u) + i] = v[i]
    BY <1>4, <1>5, <1>6, <2>1, Zenon
  <2> QED BY <1>5, <2>2
<1>8. RangeOf(found) = {found[i] : i \in 1 .. c + Len(v)}
  BY <1>7 DEF RangeOf
<1>9. F # {} => "TAR_UST_001" \in RangeOf(found)
  <2> SUFFICES ASSUME F # {} PROVE "TAR_UST_001" \in RangeOf(found)
    OBVIOUS
  <2>1. 1 \in 1 .. c /\ 1 \in 1 .. c + Len(v)
    BY <1>3, <1>7
  <2> QED BY <1>7, <1>8, <2>1
<1>10. Len(v) = 1 => v[1] \in RangeOf(found)
  <2> SUFFICES ASSUME Len(v) = 1 PROVE v[1] \in RangeOf(found)
    OBVIOUS
  <2>1. 1 \in 1 .. Len(v) /\ c + 1 \in 1 .. c + Len(v)
    BY <1>3
  <2> QED BY <1>7, <1>8, <2>1
<1>11. ASSUME NEW id \in RangeOf(found)
       PROVE  (id = "TAR_UST_001" /\ F # {}) \/ (Len(v) = 1 /\ id = v[1])
  <2>1. PICK i \in 1 .. c + Len(v) : found[i] = id
    BY <1>8, <1>11
  <2>2. CASE i <= c
    <3>1. i \in 1 .. c /\ c # 0
      BY <1>3, <1>7, <2>2
    <3> QED BY <1>3, <1>7, <2>1, <3>1
  <2>3. CASE ~(i <= c)
    <3>1. Len(v) = 0 \/ Len(v) = 1
      BY <1>6
    <3>2. Len(v) = 1 /\ i = c + 1 /\ 1 \in 1 .. Len(v)
      BY <1>3, <1>7, <2>3, <3>1
    <3> QED BY <1>7, <2>1, <3>2
  <2> QED BY <2>2, <2>3
<1>12. F # {} <=> "TAR_UST_001" \in RangeOf(found)
  BY <1>6, <1>9, <1>11
<1>13. Truncation(a) <=> "TAR_TRUNC_002" \in RangeOf(found)
  BY <1>6, <1>10, <1>11
<1>14. ~Truncation(a) /\ ~Terminated(a) <=> "TAR_TERM_001" \in RangeOf(found)
  BY <1>6, <1>10, <1>11
<1> QED BY <1>7, <1>12, <1>13, <1>14 DEF found, F

LEMMA NoFindings ==
  ASSUME NEW a \in Archives, ChecksumFailures(a) = {}, ~Truncation(a), Terminated(a)
  PROVE  TarDefects(a) = << >>
<1>1. [k \in 1 .. 0 |-> "TAR_UST_001"] = << >>
  OBVIOUS
<1>2. << >> \o << >> = << >>
  OBVIOUS
<1>3. TarDefects(a) = [k \in 1 .. Cardinality(ChecksumFailures(a)) |-> "TAR_UST_001"] \o << >>
  BY DEF TarDefects
<1> QED BY <1>1, <1>2, <1>3, FS_EmptySet

\* Headers, and zeros behind them, stand where the reader looks for them.
Regular(a) ==
  \A p, q \in ReadBlocks(a) :
    \/ HasMagic(a.blocks[p])
    \/ IsZero(a.blocks[p]) /\ (q > p => IsZero(a.blocks[q]))

\* Then tar-checksum-fix comes to every header that the reader comes to.
LEMMA FixMeetsReader ==
  ASSUME NEW a \in Archives, Regular(a), HeadIsTar(a),
         NEW x \in ReadBlocks(a), ~IsZero(a.blocks[x])
  PROVE  x \in HeadersWalked(a)
<1> DEFINE n == Len(a.blocks)
           R == ReadBlocks(a)
           H == HeadersWalked(a)
           bad == {p \in R : ~IsZero(a.blocks[p]) /\ p \notin H}
<1>1. /\ \A p \in R : p \in 1 .. n
      /\ \A q \in R : q # 1 => \E p \in R : p < q /\ GoesOn(a)[p] /\ Over(a)[p] = q
  BY ReaderFacts
<1>2. /\ n >= 1 /\ HasMagic(a.blocks[1]) => 1 \in H
      /\ \A p \in H, q \in 1 .. n :
           ~CutShort(a, p) /\ q = Over(a)[p] /\ HasMagic(a.blocks[q]) => q \in H
  BY FixFacts
<1>3. \A p \in R : ~IsZero(a.blocks[p]) => HasMagic(a.blocks[p])
  BY DEF Regular
<1>4. \A p, q \in R : ~IsZero(a.blocks[q]) /\ q > p => ~IsZero(a.blocks[p])
  BY DEF Regular, HasMagic, IsZero
<1>5. HasMagic(a.blocks[1])
  BY DEF HeadIsTar
<1>6. n \in Nat
  BY TarType
<1> HIDE DEF n, R, H
<1>7. ASSUME bad # {} PROVE FALSE
  <2>1. bad \subseteq Nat
    BY <1>1
  <2>2. PICK q \in bad : \A p \in bad : q <= p
    BY <1>7, <2>1, LeastElement
  <2>3. q \in R /\ ~IsZero(a.blocks[q]) /\ q \notin H /\ q \in 1 .. n /\ HasMagic(a.blocks[q])
    BY <1>1, <1>3
  <2>4. q # 1
    <3>1. n >= 1
      BY <1>6, <2>3
    <3> QED BY <1>2, <1>5, <2>3, <3>1
  <2>5. PICK p \in R : p < q /\ GoesOn(a)[p] /\ Over(a)[p] = q
    BY <1>1, <2>3, <2>4
  <2>6. p \in 1 .. n /\ q > p /\ ~(q <= p)
    <3>1. p \in 1 .. n
      BY <1>1
    <3> QED BY <1>6, <2>3, <2>5, <3>1
  <2>7. p \in H
    <3>1. p \notin bad
      <4> HIDE DEF bad
      <4> QED BY <2>2, <2>6
    <3>2. ~IsZero(a.blocks[p])
      BY <1>4, <2>3, <2>6
    <3> QED BY <3>1, <3>2
  <2>8. ~CutShort(a, p)
    BY <2>5, <2>6 DEF GoesOn, n
  <2> QED BY <1>2, <2>3, <2>5, <2>7, <2>8
<1> QED BY <1>7 DEF R, H

\* A repair leaves an archive in full order: no finding, and a first header by which
\* it is known as a TAR; and it changes checksum fields only, or what is behind the end.
Undone(a, o) ==
  /\ o \in Archives /\ TarDefects(o) = << >> /\ HeadIsTar(o)
  /\ \A p \in DOMAIN a.blocks :
       o.blocks[p] = a.blocks[p] \/ o.blocks[p] = [a.blocks[p] EXCEPT !.sum = "ok"]

LEMMA FixUndoes ==
  ASSUME NEW a \in Archives, Regular(a), HeadIsTar(a), RangeOf(TarDefects(a)) = {"TAR_UST_001"}
  PROVE  Undone(a, ChecksumsFixed(a)) /\ ~AllZero(a)
<1> DEFINE c == ChecksumsFixed(a)
           n == Len(a.blocks)
<1>1. ~Truncation(a) /\ Terminated(a)
  BY TarFindings
<1>2. /\ c \in Archives /\ Len(c.blocks) = n /\ Extends(c, a) /\ Extends(a, c)
      /\ \A p \in 1 .. n :
           /\ p \notin HeadersWalked(a) => c.blocks[p] = a.blocks[p]
           /\ p \in HeadersWalked(a) => c.blocks[p] = [a.blocks[p] EXCEPT !.sum = "ok"]
           /\ p \in HeadersWalked(a) => SumOk(c.blocks[p])
           /\ HasMagic(a.blocks[p]) => HasMagic(c.blocks[p])
  BY FixedFacts
<1> HIDE DEF c
<1>3. ReadBlocks(c) = ReadBlocks(a)
  <2>1. ReadBlocks(c) \subseteq ReadBlocks(a)
    BY <1>2, SameReading
  <2>2. ReadBlocks(a) \subseteq ReadBlocks(c)
    BY <1>2, SameReading
  <2> QED BY <2>1, <2>2
<1>4. \A p \in ReadBlocks(a) : p \in 1 .. n
  BY ReaderFacts
<1>5. ~Truncation(c)
  BY <1>1, <1>2, <1>3, <1>4, SameSteps DEF Truncation
<1>6. Terminated(c)
  <2>1. PICK p \in ReadBlocks(a) : TwoZeros(a, p)
    BY <1>1 DEF Terminated
  <2>2. p \in 1 .. n /\ p < n
    BY <1>4, <2>1 DEF TwoZeros
  <2>3. TwoZeros(c, p)
    BY <1>2, <2>1, <2>2, SameSteps
  <2> QED BY <1>3, <2>3 DEF Terminated
<1>7. ChecksumFailures(c) = {}
  <2> SUFFICES ASSUME NEW p \in ReadBlocks(a), ~IsZero(c.blocks[p]) PROVE SumOk(c.blocks[p])
    BY <1>3 DEF ChecksumFailures
  <2>1. p \in 1 .. n /\ ~IsZero(a.blocks[p])
    BY <1>2, <1>4 DEF Extends
  <2>2. p \in HeadersWalked(a)
    BY <2>1, FixMeetsReader
  <2> QED BY <1>2, <2>1, <2>2
<1>8. TarDefects(c) = << >>
  BY <1>2, <1>5, <1>6, <1>7, NoFindings
<1>9. a.blocks \in Seq(BlockRecords) /\ n \in Nat /\ DOMAIN a.blocks = 1 .. n /\ 1 \in 1 .. n
  <2>1. a.blocks \in Seq(BlockRecords) /\ a.blocks # << >>
    BY TarType DEF HeadIsTar
  <2> QED BY <2>1, EmptyByLength
<1>10. HeadIsTar(c)
  <2>1. HasMagic(c.blocks[1])
    BY <1>2, <1>9 DEF HeadIsTar
  <2>2. Len(<< >>) = 0
    OBVIOUS
  <2>3. c.blocks # << >>
    BY <1>2, <1>9, <2>2
  <2> QED BY <2>1, <2>3 DEF HeadIsTar
<1>11. ~AllZero(a)
  <2> DEFINE f == a.blocks \o a.rest
  <2>1. a.blocks \in Seq(BlockRecords) /\ a.rest \in Seq(BlockRecords)
    BY TarType DEF BlockRecords
  <2>2. \A x, y \in Seq(BlockRecords) : \A i \in 1 .. Len(x) : i \in DOMAIN (x \o y) /\ (x \o y)[i] = x[i]
    OBVIOUS
  <2>3. 1 \in DOMAIN f /\ f[1] = a.blocks[1]
    BY <1>9, <2>1, <2>2, Zenon
  <2> HIDE DEF f
  <2>4. a.blocks[1] \in ToSet(f)
    BY <2>3 DEF ToSet
  <2>5. ~IsZero(a.blocks[1])
    BY DEF HeadIsTar, HasMagic, IsZero
  <2> QED BY <2>4, <2>5 DEF AllZero, f
<1> QED BY <1>2, <1>8, <1>9, <1>10, <1>11 DEF Undone, c

\* Of a longer archive the reader comes to no other places in the part they share.
LEMMA NoMoreReading ==
  ASSUME NEW a \in Archives, NEW b \in Archives, Extends(b, a),
         NEW x \in ReadBlocks(b), x <= Len(a.blocks)
  PROVE  x \in ReadBlocks(a)
<1> DEFINE R == ReadBlocks(a)
           Q == ReadBlocks(b)
           n == Len(a.blocks)
           m == Len(b.blocks)
           new == {p \in Q : p <= n /\ p \notin R}
<1>0. n \in Nat /\ m \in Nat
  BY TarType
<1>1. /\ \A p \in Q : p \in 1 .. m
      /\ \A q \in Q : q # 1 => \E p \in Q : p < q /\ GoesOn(b)[p] /\ Over(b)[p] = q
  BY ReaderFacts
<1>2. /\ n >= 1 => 1 \in R
      /\ \A p \in R : GoesOn(a)[p] /\ Over(a)[p] <= n => Over(a)[p] \in R
  BY ReaderFacts
<1> HIDE DEF R, Q
<1>3. ASSUME new # {} PROVE FALSE
  <2>1. new \subseteq Nat
    BY <1>1
  <2>2. PICK q \in new : \A p \in new : q <= p
    BY <1>3, <2>1, LeastElement
  <2>3. q \in Q /\ q \notin R /\ q \in 1 .. n
    BY <1>0, <1>1
  <2>4. q # 1
    <3>1. n >= 1
      BY <1>0, <2>3
    <3> QED BY <1>2, <2>3, <3>1
  <2>5. PICK p \in Q : p < q /\ GoesOn(b)[p] /\ Over(b)[p] = q
    BY <1>1, <2>3, <2>4
  <2>6. p \in 1 .. m
    BY <1>1
  <2>7. p \in 1 .. n /\ p < n /\ p <= n /\ ~(q <= p)
    BY <1>0, <2>3, <2>5, <2>6
  <2>8. p \in R
    <3>1. p \notin new
      <4> HIDE DEF new
      <4> QED BY <2>2, <2>7
    <3> QED BY <2>7, <3>1
  <2>9. ~TwoZeros(b, p)
    BY <2>5, <2>6 DEF GoesOn
  <2> DEFINE d == DataBlocks(a.blocks[p])
  <2>10. ~TwoZeros(a, p) /\ Over(a)[p] = q /\ q = p + 1 + d /\ d \in Nat
    BY <2>5, <2>7, <2>9, SameSteps
  <2>11. ~CutShort(a, p)
    <3> HIDE DEF d, n
    <3>1. ~(p + d > n)
      BY <1>0, <2>3, <2>7, <2>10
    <3> QED BY <3>1 DEF CutShort, d, n
  <2>12. GoesOn(a)[p]
    BY <2>7, <2>10, <2>11 DEF GoesOn
  <2>13. q <= n
    BY <1>0, <2>3
  <2> QED BY <1>2, <2>3, <2>8, <2>10, <2>12, <2>13
<1> QED BY <1>3 DEF R, Q

\* The last place that the reader comes to leads to the end of an archive that is
\* neither cut short nor terminated.
LEMMA LastLeadsOut ==
  ASSUME NEW a \in Archives, Len(a.blocks) >= 1, ~Truncation(a), ~Terminated(a)
  PROVE  \E m \in ReadBlocks(a) : Over(a)[m] = Len(a.blocks) + 1
<1> DEFINE R == ReadBlocks(a)
           n == Len(a.blocks)
           left == {n - p : p \in R}
<1>1. /\ 1 \in R
      /\ \A p \in R : p \in 1 .. n /\ (GoesOn(a)[p] /\ Over(a)[p] <= n => Over(a)[p] \in R)
  BY ReaderFacts
<1>2. n \in Nat
  BY TarType
<1>3. \A p \in R : GoesOn(a)[p]
  BY <1>1 DEF GoesOn, Truncation, Terminated
<1>4. \A p \in 1 .. n : GoesOn(a)[p] => Over(a)[p] \in p + 1 .. n + 1
  BY ReaderSteps
<1> HIDE DEF R, n
<1>5. left \subseteq Nat /\ left # {}
  BY <1>1, <1>2
<1>6. PICK k \in left : \A j \in left : k <= j
  <2> HIDE DEF left
  <2> QED BY <1>5, LeastElement
<1>7. PICK m \in R : k = n - m
  OBVIOUS
<1>8. m \in 1 .. n /\ Over(a)[m] \in m + 1 .. n + 1
  BY <1>1, <1>3, <1>4
<1> DEFINE v == Over(a)[m]
<1>9. v <= n => v \in R
  BY <1>1, <1>3
<1>10. v \in m + 1 .. n + 1
  BY <1>8
<1> HIDE DEF v
<1>11. ~(v <= n)
  <2> SUFFICES ASSUME v <= n PROVE FALSE
    OBVIOUS
  <2>1. n - v \in left
    BY <1>9
  <2>2. k <= n - v
    <3> HIDE DEF left
    <3> QED BY <1>6, <2>1
  <2> QED BY <1>2, <1>7, <1>8, <1>10, <2>2
<1>12. v = n + 1
  BY <1>2, <1>8, <1>10, <1>11
<1> QED BY <1>12 DEF v, R, n

LEMMA AppendUndoes ==
  ASSUME NEW a \in Archives, HeadIsTar(a), a.rest = << >>, ~Ended(a),
         RangeOf(TarDefects(a)) = {"TAR_TERM_001"}
  PROVE  Undone(a, TerminatorAppended(a))
<1> DEFINE t == TerminatorAppended(a)
           n == Len(a.blocks)
<1>1. ChecksumFailures(a) = {} /\ ~Truncation(a) /\ ~Terminated(a)
  BY TarFindings
<1>2. /\ t \in Archives /\ Extends(t, a) /\ \A p \in 1 .. n : t.blocks[p] = a.blocks[p]
      /\ Len(t.blocks) = n + 2 /\ t.blocks[n + 1] = Zero /\ t.blocks[n + 2] = Zero
  BY AppendedFacts
<1>3. a.blocks \in Seq(BlockRecords) /\ n \in Nat /\ DOMAIN a.blocks = 1 .. n /\ 1 \in 1 .. n /\ n >= 1
  <2>1. a.blocks \in Seq(BlockRecords) /\ a.blocks # << >>
    BY TarType DEF HeadIsTar
  <2>2. n \in Nat /\ n # 0 /\ DOMAIN a.blocks = 1 .. n
    BY <2>1, EmptyByLength
  <2> HIDE DEF n
  <2>3. 1 \in 1 .. n /\ n >= 1
    BY <2>2
  <2> QED BY <2>1, <2>2, <2>3
<1>4. IsZero(Zero) /\ DataBlocks(Zero) = 0
  <2>1. SizeIn(Zero) = 0 /\ IsZero(Zero)
    BY DEF SizeIn, Zero, IsZero
  <2>2. (0 + 1) \div 2 = 0
    OBVIOUS
  <2> QED BY <2>1, <2>2 DEF DataBlocks
<1> HIDE DEF t
<1>5. \A p \in ReadBlocks(t) :
        \/ p \in 1 .. n /\ p \in ReadBlocks(a) /\ t.blocks[p] = a.blocks[p]
        \/ (p = n + 1 \/ p = n + 2) /\ t.blocks[p] = Zero
  <2> SUFFICES ASSUME NEW p \in ReadBlocks(t)
               PROVE  \/ p \in 1 .. n /\ p \in ReadBlocks(a) /\ t.blocks[p] = a.blocks[p]
                      \/ (p = n + 1 \/ p = n + 2) /\ t.blocks[p] = Zero
    OBVIOUS
  <2>1. p \in 1 .. n + 2
    BY <1>2, ReaderFacts
  <2>2. CASE p <= n
    <3>1. p \in ReadBlocks(a)
      BY <1>2, <2>2, NoMoreReading
    <3>2. p \in 1 .. n
      <4> HIDE DEF n
      <4> QED BY <1>3, <2>1, <2>2
    <3> QED BY <1>2, <3>1, <3>2
  <2>3. CASE ~(p <= n)
    <3>1. p = n + 1 \/ p = n + 2
      <4> HIDE DEF n
      <4> QED BY <1>3, <2>1, <2>3
    <3> QED BY <1>2, <3>1
  <2> QED BY <2>2, <2>3
<1>6. ChecksumFailures(t) = {}
  BY <1>1, <1>4, <1>5 DEF ChecksumFailures
<1>7. ~Truncation(t)
  <2> SUFFICES ASSUME NEW p \in ReadBlocks(t) PROVE ~CutShort(t, p)
    BY DEF Truncation
  <2>1. CASE p \in 1 .. n /\ p \in ReadBlocks(a)
    <3>1. ~CutShort(a, p)
      BY <1>1, <2>1 DEF Truncation
    <3> QED BY <1>2, <2>1, <3>1, SameSteps
  <2>2. CASE (p = n + 1 \/ p = n + 2) /\ t.blocks[p] = Zero
    <3>1. ~(p + 0 > n + 2)
      <4> HIDE DEF n
      <4> QED BY <1>3, <2>2
    <3> QED BY <1>2, <1>4, <2>2, <3>1 DEF CutShort
  <2> QED BY <1>5, <2>1, <2>2
<1>8. Terminated(t)
  <2>1. PICK m \in ReadBlocks(a) : Over(a)[m] = n + 1
    BY <1>1, <1>3, LastLeadsOut
  <2>2. m \in ReadBlocks(t) /\ m \in 1 .. n
    BY <1>2, SameReading, ReaderFacts
  <2>3. m \in 1 .. Len(t.blocks) /\ Over(t)[m] = n + 1
    BY <1>2, <2>1, <2>2, SameSteps
  <2>4. CASE TwoZeros(t, m)
    BY <2>2, <2>4 DEF Terminated
  <2>5. CASE ~TwoZeros(t, m)
    <3>1. GoesOn(t)[m]
      BY <1>7, <2>2, <2>3, <2>5 DEF GoesOn, Truncation
    <3>2. n + 1 <= n + 2 /\ n + 1 < n + 2 /\ (n + 1) + 1 = n + 2
      <4> HIDE DEF n
      <4> QED BY <1>3
    <3>3. n + 1 \in ReadBlocks(t)
      BY <1>2, <2>2, <2>3, <3>1, <3>2, ReaderFacts
    <3>4. TwoZeros(t, n + 1)
      BY <1>2, <1>4, <3>2 DEF TwoZeros
    <3> QED BY <3>3, <3>4 DEF Terminated
  <2> QED BY <2>4, <2>5
<1>9. TarDefects(t) = << >>
  BY <1>2, <1>6, <1>7, <1>8, NoFindings
<1>10. HeadIsTar(t)
  <2>1. HasMagic(t.blocks[1])
    BY <1>2, <1>3 DEF HeadIsTar
  <2>2. Len(<< >>) = 0 /\ Len(t.blocks) # 0
    <3>1. n + 2 # 0
      <4> HIDE DEF n
      <4> QED BY <1>3
    <3> QED BY <1>2, <3>1
  <2>3. t.blocks # << >>
    BY <2>2
  <2> QED BY <2>1, <2>3 DEF HeadIsTar
<1> QED BY <1>2, <1>3, <1>9, <1>10 DEF Undone, t

LEMMA FieldCategories ==
  ASSUME NEW r \in Rules, r.id \in {"TAR_UST_001", "TAR_TERM_001"}
  PROVE  r.category = "StructuralCorruption"
<1>1. \/ r \in ZipRules \/ r \in TarRules \/ r \in IsoRules \/ r \in GzipRules \/ r \in PdfRules
      \/ r \in SqliteRules \/ r \in StreamRules \/ r \in CrossFormatRules \/ r \in ThreatRules
  BY DEF Rules
<1>2. CASE r \in ZipRules
  BY <1>2, RowsFacts DEF ZipRules
<1>3. CASE r \in TarRules
  BY <1>3, RowsFacts DEF TarRules
<1>4. CASE r \in IsoRules
  BY <1>4, RowsFacts DEF IsoRules
<1>5. CASE r \in GzipRules
  BY <1>5, RowsFacts DEF GzipRules
<1>6. CASE r \in PdfRules
  BY <1>6, RowsFacts DEF PdfRules
<1>7. CASE r \in SqliteRules
  BY <1>7, RowsFacts DEF SqliteRules
<1>8. CASE r \in StreamRules
  BY <1>8, RowsFacts DEF StreamRules
<1>9. CASE r \in CrossFormatRules
  BY <1>9, RowsFacts DEF CrossFormatRules
<1>10. CASE r \in ThreatRules
  BY <1>10, RowsFacts DEF ThreatRules
<1> QED BY <1>1, <1>2, <1>3, <1>4, <1>5, <1>6, <1>7, <1>8, <1>9, <1>10

\* The strategies for a TAR with one kind of finding: the repair of that field, and
\* then none that comes before it.
LEMMA FieldApplies ==
  ASSUME NEW id, NEW s, NEW listed,
         \/ id = "TAR_UST_001" /\ s = "tar-checksum-fix"
         \/ id = "TAR_TERM_001" /\ s = "tar-terminator-append"
  PROVE  LET applies == {t \in Strategies : CanApply(t, "Tar", {id}, listed)} IN
           s \in applies /\ \A t \in applies \ {s} : ~Before(t, s)
<1>1. id \notin Flipped /\ id \notin Truncated /\ id \notin Reordered
  BY FieldCategories DEF Flipped, Truncated, Reordered, InCategory
<1>2. s \in Strategies
  BY DEF Strategies, AllStrategies
<1>3. /\ s = "tar-checksum-fix" => ProfileOf[s] = TarChecksumFix
      /\ s = "tar-terminator-append" => ProfileOf[s] = TarTerminatorAppend
  BY <1>2 DEF ProfileOf
<1>4. CanApply(s, "Tar", {id}, listed) /\ ProfileOf[s].priority \in {85, 88}
  BY <1>3 DEF CanApply, TarChecksumFix, TarTerminatorAppend, Profile
<1>5. ASSUME NEW t \in Strategies, t # s, CanApply(t, "Tar", {id}, listed)
      PROVE  ~Before(t, s)
  <2>1. "Tar" \in ProfileOf[t].formats /\ id \in ProfileOf[t].applies
    <3>1. "Tar" \in ProfileOf[t].formats
      BY <1>5 DEF CanApply
    <3>2. {id} \cap ProfileOf[t].applies # {}
      BY <1>5 DEF CanApply
    <3> QED BY <3>1, <3>2
  <2>2. t \in {"bitflip", "tar-checksum-fix", "tar-terminator-append", "tar-size-resync", "tar-reorder",
               "tar-continuation-salvage", "partial-extract"}
    BY <2>1 DEF Strategies, AllStrategies, ProfileOf, Profile,
           ZipCentralDirectoryRebuild, ZipCrcFix, GzMagicRestore, GzTrailerRecompute, GzMemberSalvage,
           GzPartialInflate, SevenZSignatureRestore, IsoSectorReconstruction, ForensicCarving
  <2>3. t = "bitflip" => ProfileOf[t].applies = Flipped
    BY DEF ProfileOf, BitFlipCorrection, Profile
  <2>4. t = "tar-reorder" => ProfileOf[t].applies = Reordered
    BY DEF ProfileOf, TarBlockReorder, Profile
  <2>5. t = "partial-extract" => ProfileOf[t].applies = Truncated
    BY DEF ProfileOf, PartialExtraction, Profile
  <2>6. t = "tar-checksum-fix" => ProfileOf[t].applies = {"TAR_UST_001"}
    BY DEF ProfileOf, TarChecksumFix, Profile
  <2>7. t = "tar-terminator-append" => ProfileOf[t].applies = {"TAR_TERM_001"} \cup Truncated
    BY DEF ProfileOf, TarTerminatorAppend, Profile
  <2>8. t = "tar-size-resync" => ProfileOf[t].priority = 78
    BY DEF ProfileOf, TarSizeBoundaryResync, Profile
  <2>9. t = "tar-continuation-salvage" => ProfileOf[t].priority = 45
    BY DEF ProfileOf, TarContinuationSalvage, Profile
  <2>10. t \in {"tar-size-resync", "tar-continuation-salvage"}
    <3>1. t \notin {"bitflip", "tar-reorder", "partial-extract"}
      BY <1>1, <2>1, <2>3, <2>4, <2>5
    <3>2. t = "tar-checksum-fix" => id = "TAR_UST_001"
      BY <2>1, <2>6
    <3>3. t = "tar-terminator-append" => id = "TAR_TERM_001"
      BY <1>1, <2>1, <2>7
    <3>4. t \notin {"tar-checksum-fix", "tar-terminator-append"}
      BY <1>5, <3>2, <3>3
    <3> QED BY <2>2, <3>1, <3>4
  <2>11. ProfileOf[t].priority \in {78, 45}
    BY <2>8, <2>9, <2>10
  <2> QED BY <1>4, <2>11 DEF Before
<1> QED BY <1>2, <1>4, <1>5

\* The gate keeps a repair that undoes the damage, and as an improvement.
LEMMA UndoneIsKept ==
  ASSUME NEW j \in Jobs, NEW s \in {"tar-checksum-fix", "tar-terminator-append"},
         NEW x \in Staged[s][j.src], Undone(j.src, x.bytes),
         NEW id \in {"TAR_UST_001", "TAR_TERM_001"}, RangeOf(Corruptions(j)) = {id}
  PROVE  Keep(j, s, x.bytes) /\ Improved(j, x.bytes)
<1> DEFINE o == x.bytes
<1>0. s \in Strategies
  BY DEF Strategies, AllStrategies
<1>1. x \in Stagings
  BY <1>0, StagedType
<1>2. o # NoBytes
  BY ArchivesAssumption DEF Undone
<1>3. o \in Blobs /\ Seen[o] = SeenIn(o)
  BY <1>1, <1>2, ArchivesAssumption DEF Stagings
<1> HIDE DEF o
<1>4. Seen[o].locked = FALSE /\ Seen[o].anon = << >>
  BY <1>3 DEF SeenIn, Undone, o
<1>5. HealthAfter(o) = 100
  <2>1. HealthAfter(o) = Score(<< >>)
    BY <1>2, <1>4 DEF HealthAfter
  <2>2. << >> \in Seq(RuleIds)
    OBVIOUS
  <2> QED BY <2>1, <2>2, ScoreFacts
<1>6. BaseHealth(j) \in 0 .. 100 /\ BaseHealth(j) < 100
  <2> DEFINE found == Corruptions(j)
  <2>1. found \in Seq(RuleIds)
    BY CorruptionsType
  <2>2. PICK i \in 1 .. Len(found) : found[i] = id
    <3> HIDE DEF found
    <3>1. DOMAIN found = 1 .. Len(found)
      BY <2>1
    <3>2. id \in {found[i] : i \in DOMAIN found}
      BY DEF RangeOf, found
    <3> QED BY <3>1, <3>2
  <2> HIDE DEF found
  <2>3. id \in RuleIds /\ id # "TAR_TERM_002"
    BY <2>1, <2>2
  <2>4. Score(found) < 100 /\ Score(found) \in 0 .. 100
    BY <2>1, <2>2, <2>3, EveryRuleCosts, ScoreFacts
  <2> QED BY <2>4 DEF BaseHealth, found
<1> DEFINE b == BaseHealth(j)
<1>7. b \in 0 .. 100 /\ b < 100
  BY <1>6
<1> HIDE DEF b
<1>8. 100 # None /\ 100 > b /\ ~(100 < b)
  BY <1>7 DEF None
<1>9. Improved(j, o) /\ ~Regressed(j, o)
  BY <1>5, <1>8 DEF Improved, Regressed, b
<1>10. Keep(j, s, o)
  BY <1>2, <1>9, TarRisks DEF Keep
<1> QED BY <1>9, <1>10 DEF o

\* Damage to checksum fields alone, or the loss of the terminator alone, is undone in
\* an archive of any length.
THEOREM FieldTheorem == Spec => []FieldDamageIsUndone
<1>1. SafetyInv /\ StagedInv /\ PassesInv /\ SelectedInv => FieldDamageIsUndone
  <2> DEFINE a == job.src
  <2> SUFFICES ASSUME SafetyInv, StagedInv, PassesInv, SelectedInv,
                      result = "report", AsksForFile(job), ~job.aggressive, job.forced = "auto",
                      job.found = TarDefects(a), job.ref = NoBytes, OneKindOfDamage(a)
               PROVE  /\ report.success /\ TarDefects(output) = << >>
                      /\ \A p \in DOMAIN a.blocks :
                           \/ output.blocks[p] = a.blocks[p]
                           \/ output.blocks[p] = [a.blocks[p] EXCEPT !.sum = "ok"]
    BY DEF FieldDamageIsUndone
  <2>1. job \in Jobs
    BY DEF SafetyInv, TypeInv, TypeOK
  <2>2. a \in Blobs /\ a \in Archives /\ Seen[a].format = "Tar"
    <3>1. a \in Blobs
      BY <2>1, JobsAssumption DEF Requests
    <3>2. a \in Archives /\ Seen[a] = SeenIn(a)
      BY <3>1, ArchivesAssumption
    <3>3. SeenIn(a).format = "Tar"
      BY DEF SeenIn
    <3> QED BY <3>1, <3>2, <3>3
  <2>3. Corruptions(job) = TarDefects(a)
    BY DEF Corruptions
  <2>4. ASSUME NEW id, NEW s, NEW o, RangeOf(TarDefects(a)) = {id}, Undone(a, o),
               \/ id = "TAR_UST_001" /\ s = "tar-checksum-fix" /\ o = ChecksumsFixed(a)
                  /\ \A x \in Staged[s][a] : x.bytes = o
               \/ id = "TAR_TERM_001" /\ s = "tar-terminator-append" /\ o = TerminatorAppended(a)
                  /\ \A x \in Staged[s][a] : x.bytes = o
        PROVE  report.success /\ output = o
    <3>1. s \in Selected(job) /\ \A t \in Selected(job) \ {s} : ~Before(t, s)
      <4>1. ~IsClean(job)
        BY <2>3, <2>4, RangeOfEmpty DEF IsClean
      <4>2. Selected(job) = {t \in Strategies : CanApply(t, "Tar", {id}, job.listed)}
        BY <2>2, <2>3, <2>4, <4>1 DEF Selected, Applicable
      <4> QED BY <2>4, <4>2, FieldApplies
    <3>2. \A x \in Staged[s][a] : Keep(job, s, x.bytes) /\ Improved(job, x.bytes)
      <4> SUFFICES ASSUME NEW x \in Staged[s][a]
                   PROVE  Keep(job, s, x.bytes) /\ Improved(job, x.bytes)
        OBVIOUS
      <4>1. /\ Undone(a, x.bytes) /\ s \in {"tar-checksum-fix", "tar-terminator-append"}
            /\ id \in {"TAR_UST_001", "TAR_TERM_001"} /\ RangeOf(Corruptions(job)) = {id}
        BY <2>3, <2>4
      <4> QED BY <2>1, <4>1, UndoneIsKept
    <3>3. kept # << >> /\ LastKept.by = s
      BY <3>1, <3>2, FirstIsPublished
    <3>4. report.success /\ outcome.bytes = LastKept.bytes
      BY <3>3 DEF SafetyInv, KeptInv
    <3>5. Published
      <4>1. kept \in Seq(KeptRecords)
        BY DEF SafetyInv, TypeInv, TypeOK
      <4>2. LastKept \in KeptRecords
        BY <3>3, <4>1, EmptyByLength DEF LastKept
      <4>3. LastKept.bytes \in Blobs
        BY <4>2 DEF KeptRecords
      <4> QED BY <3>4, <4>3, BlobsAssumption DEF Published, ToCommit, AsksForFile
    <3>6. PICK x \in Staged[s][a] : x.bytes = output
      BY <3>3, <3>5, PublishedIsStaged
    <3> QED BY <2>4, <3>4, <3>6
  <2>5. ASSUME NEW s \in Strategies, NEW o, NEW w, StagedFor(s, a) = StagedAs(o, w, TRUE)
        PROVE  \A x \in Staged[s][a] : x.bytes = o
    <3>1. Staged[s][a] = StagedFor(s, a)
      BY <2>1, ArchivesAssumption
    <3> HIDE DEF a
    <3> QED BY <2>5, <3>1 DEF StagedAs
  <2>6. "tar-checksum-fix" \in Strategies /\ "tar-terminator-append" \in Strategies
    BY DEF Strategies, AllStrategies
  <2>7. Regular(a) /\ HeadIsTar(a) /\ a.rest = << >>
    BY DEF OneKindOfDamage, Regular
  <2>8. CASE RangeOf(TarDefects(a)) = {"TAR_UST_001"}
    <3> DEFINE o == ChecksumsFixed(a)
               s == "tar-checksum-fix"
    <3>1. Undone(a, o) /\ ~AllZero(a)
      BY <2>2, <2>7, <2>8, FixUndoes
    <3>2. StagedFor(s, a) = StagedAs(o, a, ~AllZero(a))
      BY <2>6, StagedIs
    <3>3. (~AllZero(a)) = TRUE
      BY <3>1 DEF AllZero
    <3>4. StagedFor(s, a) = StagedAs(o, a, TRUE)
      <4> HIDE DEF a, o, s
      <4> QED BY <3>2, <3>3
    <3>5. \A x \in Staged[s][a] : x.bytes = o
      <4>1. s \in Strategies
        BY <2>6
      <4> HIDE DEF a, o, s
      <4> QED BY <2>5, <3>4, <4>1
    <3>6. report.success /\ output = o
      BY <2>4, <2>8, <3>1, <3>5
    <3> QED BY <3>1, <3>6 DEF Undone
  <2>9. CASE RangeOf(TarDefects(a)) = {"TAR_TERM_001"} /\ ~Ended(a)
    <3> DEFINE o == TerminatorAppended(a)
               s == "tar-terminator-append"
    <3>1. Undone(a, o)
      BY <2>2, <2>7, <2>9, AppendUndoes
    <3>2. StagedFor(s, a) = StagedAs(o, a, TRUE)
      BY <2>6, StagedIs
    <3>3. \A x \in Staged[s][a] : x.bytes = o
      <4>1. s \in Strategies
        BY <2>6
      <4> HIDE DEF a, o, s
      <4> QED BY <2>5, <3>2, <4>1
    <3>4. report.success /\ output = o
      BY <2>4, <2>9, <3>1, <3>3
    <3> QED BY <3>1, <3>4 DEF Undone
  <2> QED BY <2>8, <2>9 DEF OneKindOfDamage
<1> QED BY <1>1, SafetyInvariant, StagedInvariant, SelectedInvariant, PTL
=============================================================================
