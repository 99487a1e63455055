--------------------------- MODULE ZipParseProofs ---------------------------
(***************************************************************************)
(* Proofs about the ZIP core, for every file in which any cell may be      *)
(* anywhere and every field may lie, every policy and all limits.  First   *)
(* come lemmas about its operators: what a walk over directory records     *)
(* yields, where an entry and its range can lie, and that translated       *)
(* offsets keep the order of the stored ones.  Then come the invariants    *)
(* of parse and emission, and last what they owe to the archive the file   *)
(* was: what a record vouches for is genuine, nothing foreign and nothing  *)
(* of an archive inside comes out, and what is intact survives.            *)
(***************************************************************************)
EXTENDS ZipRecovered, FoldProofs, FiniteSetTheorems

-----------------------------------------------------------------------------
\* Sets of offsets.

\* A set of naturals that is not empty has a smallest element.
LEMMA SmallestIn ==
  ASSUME NEW S, S \subseteq Nat, S # {}
  PROVE  Smallest(S) \in S /\ \A y \in S : Smallest(S) <= y
<1>1. PICK x \in S : \A y \in S : <<y, x>> \notin OpToRel(<, Nat)
  BY NatLessThanWellFounded, WFMin, Zenon
<1>2. \A y \in S : ~(y < x)
  BY <1>1, Zenon DEF OpToRel
<1>3. \A y \in S : x <= y
  BY <1>2
<1> QED BY <1>3 DEF Smallest

\* If it is bounded it has a largest one.
LEMMA LargestIn ==
  ASSUME NEW S, S \subseteq Nat, S # {}, NEW n \in Nat, \A x \in S : x <= n
  PROVE  Largest(S) \in S /\ \A y \in S : Largest(S) >= y
<1> DEFINE T == {n - x : x \in S}
<1>1. \A x \in S : n - x \in Nat
  OBVIOUS
<1>2. T \subseteq Nat /\ T # {}
  BY <1>1
<1>3. Smallest(T) \in T /\ \A y \in T : Smallest(T) <= y
  BY <1>2, SmallestIn
<1>4. PICK x \in S : Smallest(T) = n - x
  BY <1>3
<1>5. \A y \in S : x >= y
  <2> TAKE y \in S
  <2>1. n - x <= n - y
    BY <1>3, <1>4
  <2> QED BY <2>1
<1> QED BY <1>5 DEF Largest

\* Cutting a set off after its n smallest elements leaves a subset of it.
LEMMA FirstOfSubset ==
  ASSUME NEW n, NEW S
  PROVE  FirstOf(n, S) \subseteq S
BY DEF FirstOf

\* Of n numbers or more there is an n-th.
LEMMA NthIn ==
  ASSUME NEW S, S \subseteq Nat, IsFiniteSet(S), NEW n \in 1 .. Cardinality(S)
  PROVE  Nth(n, S) \in S
<1> DEFINE below(o) == {p \in S : p < o}
           absent   == {m \in 0 .. Cardinality(S) - 1 : ~\E o \in S : Cardinality(below(o)) = m}
<1>1. Cardinality(S) \in Nat
  BY FS_CardinalityType
<1>2. ASSUME absent # {}
      PROVE  FALSE
  <2>1. absent \subseteq Nat
    BY <1>1
  <2>2. Smallest(absent) \in absent /\ \A m \in absent : Smallest(absent) <= m
    BY <1>2, <2>1, SmallestIn
  <2> DEFINE m == Smallest(absent)
  <2>3. m \in 0 .. Cardinality(S) - 1 /\ ~\E o \in S : Cardinality(below(o)) = m
    BY <2>2
  <2>4. CASE m = 0
    <3>1. S # {}
      BY <1>1, <2>3, FS_EmptySet
    <3>2. PICK first \in S : \A p \in S : first <= p
      BY <3>1, SmallestIn
    <3>3. \A p \in S : ~(p < first)
      BY <3>2
    <3>4. below(first) = {}
      BY <3>3
    <3> QED BY <2>3, <2>4, <3>4, FS_EmptySet
  <2>5. CASE m > 0
    <3>1. m - 1 \in 0 .. Cardinality(S) - 1 /\ ~(m <= m - 1)
      BY <1>1, <2>3, <2>5
    <3>2. PICK o \in S : Cardinality(below(o)) = m - 1
      BY <2>2, <3>1
    <3> DEFINE upto == below(o) \cup {o}
    <3>3. IsFiniteSet(below(o)) /\ o \notin below(o)
      BY FS_Subset
    <3>4. Cardinality(upto) = m
      <4>1. Cardinality(upto) = Cardinality(below(o)) + 1
        BY <3>3, FS_AddElement
      <4> QED BY <2>3, <3>2, <4>1
    <3>5. S \ upto # {}
      <4>1. S # upto
        <5> HIDE DEF upto
        <5>1. Cardinality(S) # m
          BY <1>1, <2>3
        <5> QED BY <3>4, <5>1
      <4>2. upto \subseteq S
        OBVIOUS
      <4> QED BY <4>1, <4>2
    <3>6. PICK next \in S \ upto : \A p \in S \ upto : next <= p
      BY <3>5, SmallestIn
    <3>7. below(next) = upto
      <4>1. o \in Nat /\ next \in Nat /\ o < next
        BY <3>6
      <4>2. \A p \in S : p < next <=> p < o \/ p = o
        BY <3>6, <4>1
      <4> QED BY <4>2
    <3> QED BY <2>3, <3>4, <3>6, <3>7
  <2>6. m = 0 \/ m > 0
    BY <2>1, <2>2
  <2> QED BY <2>4, <2>5, <2>6
<1>3. n - 1 \in 0 .. Cardinality(S) - 1
  BY <1>1
<1>4. \E o \in S : Cardinality(below(o)) = n - 1
  BY <1>2, <1>3
<1> QED BY <1>4 DEF Nth

\* Every number of a finite set is the n-th of it for some n.
LEMMA NthOnto ==
  ASSUME NEW S, S \subseteq Nat, IsFiniteSet(S), NEW x \in S
  PROVE  \E n \in 1 .. Cardinality(S) : Nth(n, S) = x
<1> DEFINE below(o) == {p \in S : p < o}
           n        == Cardinality(below(x)) + 1
<1>1. \A o \in S : IsFiniteSet(below(o)) /\ Cardinality(below(o)) \in Nat
  BY FS_Subset, FS_CardinalityType
<1>2. ASSUME NEW o \in S, NEW T, IsFiniteSet(T), below(o) \subseteq T, o \in T
      PROVE  Cardinality(below(o)) + 1 <= Cardinality(T)
  <2>1. o \notin below(o) /\ below(o) \cup {o} \subseteq T
    BY <1>2
  <2>2. IsFiniteSet(below(o))
    BY <1>1
  <2> HIDE DEF below
  <2>3. Cardinality(below(o) \cup {o}) = Cardinality(below(o)) + 1
    BY <2>1, <2>2, FS_AddElement
  <2>4. Cardinality(below(o) \cup {o}) <= Cardinality(T)
    BY <1>2, <2>1, FS_Subset
  <2> QED BY <2>3, <2>4
<1>3. Cardinality(S) \in Nat /\ n \in 1 .. Cardinality(S)
  <2>1. Cardinality(S) \in Nat
    BY FS_CardinalityType
  <2>2. Cardinality(below(x)) + 1 <= Cardinality(S)
    BY <1>2
  <2> HIDE DEF below
  <2> QED BY <1>1, <2>1, <2>2
<1>4. ASSUME NEW o \in S, Cardinality(below(o)) = Cardinality(below(x))
      PROVE  o = x
  <2>1. CASE o < x
    <3>0. o \in Nat /\ x \in Nat /\ \A p \in S : p \in Nat /\ (p < o => p < x)
      BY <2>1
    <3>1. below(o) \subseteq below(x) /\ o \in below(x)
      BY <2>1, <3>0
    <3>2. Cardinality(below(o)) + 1 <= Cardinality(below(x))
      BY <1>1, <1>2, <3>1
    <3> HIDE DEF below
    <3> QED BY <1>1, <1>4, <3>2
  <2>2. CASE x < o
    <3>0. o \in Nat /\ x \in Nat /\ \A p \in S : p \in Nat /\ (p < x => p < o)
      BY <2>2
    <3>1. below(x) \subseteq below(o) /\ x \in below(o)
      BY <2>2, <3>0
    <3>2. Cardinality(below(x)) + 1 <= Cardinality(below(o))
      BY <1>1, <1>2, <3>1
    <3> HIDE DEF below
    <3> QED BY <1>1, <1>4, <3>2
  <2>3. o \in Nat /\ x \in Nat
    OBVIOUS
  <2> QED BY <2>1, <2>2, <2>3
<1>5. n - 1 = Cardinality(below(x))
  <2> HIDE DEF below
  <2> QED BY <1>1
<1>6. Nth(n, S) = x
  <2>1. Nth(n, S) = CHOOSE o \in S : Cardinality(below(o)) = Cardinality(below(x))
    BY <1>5 DEF Nth
  <2> HIDE DEF below
  <2> QED BY <1>4, <2>1
<1> QED BY <1>3, <1>6

-----------------------------------------------------------------------------
\* Cells and entries.

\* The offset of a header that was cut away is far from every other.
LEMMA GoneFacts == Reach \in Nat /\ Reach > 0 /\ Gone \in Nat /\ Gone = Reach + Reach
BY SMT DEF Reach, Gone

\* Where there is a cell of some kind there is a cell.
LEMMA CellAt ==
  ASSUME NEW f, IsFile(f), NEW o, Kind(f, o) # "nothing"
  PROVE  /\ o \in 0 .. Len(f) - 1 /\ o \in Nat /\ o < Reach
         /\ IsCell(f[o + 1]) /\ f[o + 1].kind = Kind(f, o)
<1>1. o \in 0 .. Len(f) - 1 /\ f[o + 1].kind = Kind(f, o)
  BY DEF Kind
<1>2. Len(f) \in 0 .. Reach /\ o + 1 \in 1 .. Len(f)
  BY <1>1, GoneFacts DEF IsFile
<1> QED BY <1>1, <1>2, GoneFacts DEF IsFile

\* A header and a record tell of a member; a record also where its header is.
LEMMA HeaderType ==
  ASSUME NEW f, IsFile(f), NEW o, Kind(f, o) \in {"local", "central"}
  PROVE  /\ f[o + 1].meta \in Metas
         /\ Kind(f, o) = "local" => f[o + 1].whole \in BOOLEAN
         /\ Kind(f, o) = "central" => f[o + 1].off \in 0 .. Reach - 1
BY CellAt DEF IsCell

\* A function on 1 .. n is a sequence.
LEMMA FunctionIsSeq ==
  ASSUME NEW S, NEW n \in Nat, NEW g \in [1 .. n -> S]
  PROVE  g \in Seq(S)
BY SeqDef

\* Decoding a name leaves a name.
LEMMA LossyType ==
  ASSUME NEW name \in Seq(Parts)
  PROVE  Lossy(name) \in Seq(Parts)
<1>1. Len(name) \in Nat /\ DOMAIN name = 1 .. Len(name)
      /\ \A i \in 1 .. Len(name) : name[i] \in Parts
  OBVIOUS
<1>2. Lossy(name) \in [1 .. Len(name) -> Parts]
  BY <1>1, PartsAssumption DEF Lossy
<1> QED BY <1>1, <1>2, FunctionIsSeq

\* What a header or a record says of a member makes an entry.
LEMMA EntryType ==
  ASSUME NEW meta \in Metas, NEW off \in Nat, NEW central \in BOOLEAN
  PROVE  /\ Entry(meta, off, central) \in Entries
         /\ Entry(meta, off, central).off = off
         /\ Entry(meta, off, central).central = central
BY LossyType DEF Metas, Entry, Entries, NotUtf8

\* What the scan makes of a header is an entry that no record vouches for.
LEMMA ScannedType ==
  ASSUME NEW f, IsFile(f), NEW o, HasLocal(f, o)
  PROVE  /\ Scanned(f, o) \in Entries
         /\ Scanned(f, o).off = o /\ Scanned(f, o).central = FALSE
<1>1. f[o + 1].meta \in Metas /\ o \in Nat
  BY HeaderType, CellAt DEF HasLocal
<1> DEFINE e == Entry(f[o + 1].meta, o, FALSE)
<1>2. e \in Entries /\ e.off = o /\ e.central = FALSE
  BY <1>1, EntryType
<1> HIDE DEF e
<1>3. << >> \in Seq(Parts)
  OBVIOUS
<1>4. Scanned(f, o) = IF f[o + 1].whole THEN e ELSE [e EXCEPT !.name = << >>, !.utf8 = FALSE]
  BY DEF Scanned, e
<1> QED BY <1>2, <1>3, <1>4 DEF Entries

-----------------------------------------------------------------------------
\* The walk over a directory.

\* The entries a directory record can become, and those it is read as.
RecordEntries == {e \in Entries : e.central = TRUE /\ e.off \in 0 .. Gone}
StoredEntries == {e \in Entries : e.central = TRUE /\ e.off \in 0 .. Reach - 1}

\* The records of a range are its first cells, as many as there are records.
LEMMA RecordsAreFirst ==
  ASSUME NEW f, NEW from \in Int, NEW to \in Int
  PROVE  /\ Cardinality(RecordsIn(f, from, to)) \in Nat
         /\ \A i \in 1 .. Cardinality(RecordsIn(f, from, to)) :
              from + i - 1 \in RecordsIn(f, from, to)
<1> DEFINE run == {o \in from .. to - 1 : \A q \in from .. o : Kind(f, q) = "central"}
           R   == FirstOf(MaxRecords, run)
           k   == Cardinality(R)
<1>1. RecordsIn(f, from, to) = R
  BY DEF RecordsIn
<1>2. \A S \in SUBSET (from .. to - 1) : IsFiniteSet(S) /\ Cardinality(S) \in Nat
  <2>1. to - 1 \in Int
    OBVIOUS
  <2>2. IsFiniteSet(from .. to - 1)
    BY <2>1, FS_Interval
  <2> QED BY <2>2, FS_Subset, FS_CardinalityType
<1>3. R \subseteq run /\ run \subseteq from .. to - 1 /\ k \in Nat
  BY <1>2, FirstOfSubset
<1>4. ASSUME NEW o \in R, NEW p \in from .. o
      PROVE  p \in R
  <2> DEFINE before(x) == {r \in run : r < x}
  <2>1. o \in from .. to - 1 /\ Cardinality(before(o)) < MaxRecords
    BY <1>3 DEF FirstOf
  <2>2. p \in run
    BY <1>3, <2>1
  <2>3. before(p) \subseteq before(o) /\ before(o) \subseteq from .. to - 1
    BY <1>3, <2>1
  <2>4. Cardinality(before(p)) <= Cardinality(before(o))
    BY <1>2, <2>3, FS_Subset
  <2>5. Cardinality(before(p)) < MaxRecords
    <3>1. Cardinality(before(p)) \in Nat /\ Cardinality(before(o)) \in Nat /\ MaxRecords \in Nat
      BY <1>2, <2>3, PolicyAssumption
    <3> QED BY <2>1, <2>4, <3>1
  <2> QED BY <2>2, <2>5 DEF FirstOf
<1>5. ASSUME NEW i \in 1 .. k
      PROVE  from + i - 1 \in R
  <2> SUFFICES ASSUME from + i - 1 \notin R
               PROVE  FALSE
    OBVIOUS
  <2>1. \A o \in R : o \in Int /\ from <= o /\ ~(from + i - 1 <= o)
    BY <1>3, <1>4
  <2>2. R \subseteq from .. from + i - 2
    BY <2>1
  <2>3. /\ IsFiniteSet(from .. from + i - 2)
        /\ Cardinality(from .. from + i - 2) = i - 1
    <3> DEFINE last == from + i - 2
    <3>1. last \in Int /\ i \in Int /\ i >= 1
      BY <1>3
    <3>2. IF from > last THEN 0 = i - 1 ELSE last - from + 1 = i - 1
      BY <3>1
    <3>3. IsFiniteSet(from .. last) /\ Cardinality(from .. last) = IF from > last THEN 0 ELSE last - from + 1
      BY <3>1, FS_Interval
    <3> QED BY <3>2, <3>3
  <2>4. k <= i - 1
    BY <2>2, <2>3, FS_Subset
  <2> QED BY <1>3, <2>4
<1> QED BY <1>1, <1>3, <1>5

\* A walk reads entries that a directory vouches for, at offsets a record can store.
LEMMA WalkType ==
  ASSUME NEW f, IsFile(f), NEW from \in Int, NEW to \in Int
  PROVE  WalkDirectory(f, from, to) \in Seq(StoredEntries)
<1> DEFINE k == Cardinality(RecordsIn(f, from, to))
<1>1. k \in Nat /\ \A i \in 1 .. k : from + i - 1 \in RecordsIn(f, from, to)
  BY RecordsAreFirst
<1>2. \A i \in 1 .. k : Kind(f, from + i - 1) = "central"
  <2>1. \A o \in RecordsIn(f, from, to) : Kind(f, o) = "central"
    BY FirstOfSubset DEF RecordsIn
  <2> QED BY <1>1, <2>1
<1>3. ASSUME NEW i \in 1 .. k
      PROVE  Entry(f[from + i].meta, f[from + i].off, TRUE) \in StoredEntries
  <2>1. /\ f[from + i].meta \in Metas
        /\ f[from + i].off \in 0 .. Reach - 1
    <3>1. (from + i - 1) + 1 = from + i
      OBVIOUS
    <3> QED BY <1>2, <3>1, HeaderType
  <2>2. f[from + i].off \in Nat
    BY <2>1, GoneFacts
  <2> QED BY <2>1, <2>2, EntryType DEF StoredEntries
<1> HIDE DEF k
<1>4. [i \in 1 .. k |-> Entry(f[from + i].meta, f[from + i].off, TRUE)] \in [1 .. k -> StoredEntries]
  BY <1>3
<1>5. [i \in 1 .. k |-> Entry(f[from + i].meta, f[from + i].off, TRUE)] \in Seq(StoredEntries)
  BY <1>1, <1>4, FunctionIsSeq, Zenon
<1> QED BY <1>5 DEF WalkDirectory, k

\* A chain of records has an end, and is records up to it.
LEMMA ChainFacts ==
  ASSUME NEW f, IsFile(f), NEW start \in ChainStarts(f)
  PROVE  /\ start \in Nat /\ ChainEnd(f, start) \in Nat
         /\ \A o \in start .. ChainEnd(f, start) - 1 : Kind(f, o) = "central"
<1> DEFINE past == {o \in start + 1 .. Len(f) : Kind(f, o) # "central"}
<1>1. start \in 0 .. Len(f) - 1 /\ Kind(f, start) = "central" /\ Len(f) \in Nat
  BY GoneFacts DEF ChainStarts, IsFile
<1>2. Kind(f, Len(f)) # "central"
  BY <1>1 DEF Kind
<1>3. past \subseteq Nat /\ past # {}
  BY <1>1, <1>2
<1>4. Smallest(past) \in past /\ \A o \in past : Smallest(past) <= o
  BY <1>3, SmallestIn
<1>5. ChainEnd(f, start) = Smallest(past)
  BY DEF ChainEnd
<1>6. ASSUME NEW o \in start .. Smallest(past) - 1
      PROVE  Kind(f, o) = "central"
  <2>1. o \notin past
    BY <1>1, <1>4
  <2> QED BY <1>1, <1>4, <2>1
<1> QED BY <1>1, <1>3, <1>4, <1>5, <1>6

\* The shift that a record implies is less than a file can be long.
LEMMA DeltaType ==
  ASSUME NEW f, IsFile(f), NEW start \in ChainStarts(f), NEW delta \in Deltas(f, start)
  PROVE  delta \in Int /\ delta < Reach
<1>1. PICK o \in start .. ChainEnd(f, start) - 1 :
        /\ HeadersNamed(f, f[o + 1].meta.name) # {}
        /\ delta = Smallest(HeadersNamed(f, f[o + 1].meta.name)) - f[o + 1].off
  BY DEF Deltas
<1>2. f[o + 1].off \in Nat
  BY ChainFacts, HeaderType, GoneFacts
<1> DEFINE named == HeadersNamed(f, f[o + 1].meta.name)
<1>3. \A p \in named : p \in Nat /\ p < Reach
  BY GoneFacts DEF HeadersNamed, IsFile
<1>4. Smallest(named) \in named
  BY <1>1, <1>3, SmallestIn
<1> QED BY <1>1, <1>2, <1>3, <1>4, GoneFacts

\* Shifted records are still records, and none reaches the mark of a lost header.
LEMMA ShiftedType ==
  ASSUME NEW es \in Seq(StoredEntries), NEW delta \in Int, delta < Reach
  PROVE  Shifted(es, delta) \in Seq(RecordEntries)
<1>1. Len(es) \in Nat /\ DOMAIN es = 1 .. Len(es) /\ \A i \in 1 .. Len(es) : es[i] \in StoredEntries
  OBVIOUS
<1>2. ASSUME NEW e \in StoredEntries
      PROVE  [e EXCEPT !.off = IF @ + delta < 0 THEN Gone ELSE @ + delta] \in RecordEntries
  <2> DEFINE to == IF e.off + delta < 0 THEN Gone ELSE e.off + delta
  <2>1. e \in Entries /\ e.central = TRUE /\ e.off \in Nat /\ e.off < Reach
    BY GoneFacts DEF StoredEntries
  <2>2. to \in Nat /\ to \in 0 .. Gone
    BY <2>1, GoneFacts
  <2>3. [e EXCEPT !.off = to] \in Entries
    <3> HIDE DEF to
    <3> QED BY <2>1, <2>2 DEF Entries
  <2>4. [e EXCEPT !.off = to].off = to /\ [e EXCEPT !.off = to].central = TRUE
    <3> HIDE DEF to
    <3> QED BY <2>1 DEF Entries
  <2> QED BY <2>2, <2>3, <2>4 DEF RecordEntries
<1>3. Shifted(es, delta) \in [1 .. Len(es) -> RecordEntries]
  BY <1>1, <1>2 DEF Shifted
<1> QED BY <1>1, <1>3, FunctionIsSeq

\* Stored entries are records, and records are entries.
LEMMA StoredAreRecords == StoredEntries \subseteq RecordEntries /\ RecordEntries \subseteq Entries
BY GoneFacts DEF StoredEntries, RecordEntries

-----------------------------------------------------------------------------
\* The index and the offset map.

\* The scans stop at headers, and the index has those with a name.
LEMMA IndexType ==
  ASSUME NEW f, IsFile(f)
  PROVE  /\ ScannedHeaders(f) \subseteq 0 .. Len(f) - 1
         /\ \A o \in ScannedHeaders(f) : HasLocal(f, o)
         /\ IndexedHeaders(f) \subseteq 0 .. Len(f) - 1
         /\ \A o \in IndexedHeaders(f) : o \in Nat /\ o < Reach
<1>1. /\ ScannedHeaders(f) \subseteq {o \in 0 .. Len(f) - 1 : HasLocal(f, o)}
      /\ IndexedHeaders(f) \subseteq 0 .. Len(f) - 1
  BY DEF ScannedHeaders, IndexedHeaders, FirstOf
<1> QED BY <1>1, GoneFacts DEF IsFile

\* The walk of the index goes on to each header that none before it claims for its
\* payload.
LEMMA IndexReaches ==
  ASSUME NEW f, IsFile(f), NEW o, HasLocal(f, o), f[o + 1].whole,
         \A h \in 0 .. o - 1 : HasLocal(f, h) => h + 1 + f[h + 1].meta.csize <= o,
         Cardinality({h \in 0 .. Len(f) - 1 : HasLocal(f, h)}) <= MaxCandidates
  PROVE  o \in IndexedHeaders(f)
<1> DEFINE n       == Len(f)
           head(q) == HasLocal(f, q) /\ f[q + 1].whole
           past(q) == q + 1 + f[q + 1].meta.csize
           heads   == {h \in 0 .. n - 1 : HasLocal(f, h)}
           At(s, q) == IF q = n THEN {}
                       ELSE IF ~HasLocal(f, q) \/ ~f[q + 1].whole THEN s[q + 1]
                       ELSE {q} \cup (LET next == q + 1 + f[q + 1].meta.csize
                                      IN  IF next > n THEN {} ELSE s[next])
           scan    == CHOOSE s : s = [q \in 0 .. n |-> At(s, q)]
<1>1. n \in Nat /\ o \in Nat /\ o < n
  BY CellAt, GoneFacts DEF IsFile, HasLocal
<1>2. \A q \in 0 .. n : HasLocal(f, q) => f[q + 1].meta.csize \in Nat /\ past(q) \in Nat /\ past(q) > q
  <2> TAKE q \in 0 .. n
  <2>1. HasLocal(f, q) => f[q + 1].meta \in Metas
    BY HeaderType DEF HasLocal
  <2> QED BY <1>1, <2>1 DEF Metas
<1>3. \E s : s = [q \in 0 .. n |-> At(s, q)]
  <2> DEFINE own  == [p \in 1 .. n |-> IF head(p - 1) THEN {p - 1} ELSE {}]
             go   == [p \in 1 .. n |-> IF head(p - 1) THEN past(p - 1) <= n ELSE TRUE]
             next == [p \in 1 .. n |-> IF head(p - 1) THEN past(p - 1) + 1 ELSE p + 1]
  <2>1. \A p \in 1 .. n : go[p] => next[p] \in p + 1 .. n + 1
    <3> TAKE p \in 1 .. n
    <3>1. p - 1 \in 0 .. n /\ p \in Nat /\ p <= n
      BY <1>1
    <3>2. head(p - 1) => past(p - 1) \in Nat /\ past(p - 1) > p - 1
      BY <1>2, <3>1
    <3> HIDE DEF head, past
    <3>3. CASE head(p - 1)
      <4>1. go[p] = (past(p - 1) <= n) /\ next[p] = past(p - 1) + 1
        BY <3>3
      <4> HIDE DEF go, next
      <4>2. past(p - 1) <= n => past(p - 1) + 1 \in p + 1 .. n + 1
        BY <1>1, <3>1, <3>2, <3>3
      <4> QED BY <4>1, <4>2
    <3>4. CASE ~head(p - 1)
      <4>1. next[p] = p + 1
        BY <3>4
      <4> HIDE DEF go, next
      <4> QED BY <1>1, <3>1, <4>1
    <3> QED BY <3>3, <3>4
  <2> HIDE DEF own, go, next
  <2>2. PICK w : Walk(w, n, n + 1, own, go, next)
    <3>1. n + 1 \in Nat
      BY <1>1
    <3> HIDE DEF n
    <3> QED BY <1>1, <2>1, <3>1, WalkExists, Zenon
  <2>3. \A p \in 1 .. n + 1 : w[p] = IF p > n THEN {} ELSE own[p] \cup (IF go[p] THEN w[next[p]] ELSE {})
    <3> DEFINE B(p) == IF p > n THEN {} ELSE own[p] \cup (IF go[p] THEN w[next[p]] ELSE {})
    <3>1. w = [p \in 1 .. n + 1 |-> B(p)]
      BY <2>2 DEF Walk
    <3> HIDE DEF B
    <3>2. \A p \in 1 .. n + 1 : w[p] = B(p)
      BY <3>1
    <3> QED BY <3>2 DEF B
  <2> DEFINE s == [q \in 0 .. n |-> w[q + 1]]
  <2>4. ASSUME NEW q \in 0 .. n
        PROVE  s[q] = At(s, q)
    <3>1. q \in Nat /\ q <= n /\ q + 1 \in 1 .. n + 1 /\ q + 1 - 1 = q /\ s[q] = w[q + 1]
      BY <1>1
    <3>2. CASE q = n
      <4>1. q + 1 > n
        BY <1>1, <3>2
      <4> QED BY <2>3, <3>1, <3>2, <4>1
    <3>3. CASE q # n
      <4>1. q + 1 \in 1 .. n /\ ~(q + 1 > n) /\ q + 1 \in 0 .. n
        BY <1>1, <3>1, <3>3
      <4>2. w[q + 1] = own[q + 1] \cup (IF go[q + 1] THEN w[next[q + 1]] ELSE {})
        BY <2>3, <3>1, <4>1
      <4>3. CASE head(q)
        <5>1. own[q + 1] = {q} /\ go[q + 1] = (past(q) <= n) /\ next[q + 1] = past(q) + 1
          <6> HIDE DEF head, past
          <6>1. own[q + 1] = {q}
            BY <3>1, <4>1, <4>3 DEF own
          <6>2. go[q + 1] = (past(q) <= n)
            BY <3>1, <4>1, <4>3 DEF go
          <6>3. next[q + 1] = past(q) + 1
            BY <3>1, <4>1, <4>3 DEF next
          <6> QED BY <6>1, <6>2, <6>3
        <5>2. past(q) \in Nat
          BY <1>2, <4>3
        <5> HIDE DEF s
        <5>3. At(s, q) = {q} \cup (IF past(q) > n THEN {} ELSE s[past(q)])
          BY <3>3, <4>3
        <5> HIDE DEF past, At
        <5>4. past(q) <= n => s[past(q)] = w[past(q) + 1]
          BY <1>1, <5>2 DEF s
        <5>5. (past(q) <= n) = ~(past(q) > n)
          BY <1>1, <5>2
        <5> QED BY <3>1, <4>2, <5>1, <5>3, <5>4, <5>5
      <4>4. CASE ~head(q)
        <5>1. own[q + 1] = {} /\ go[q + 1] = TRUE /\ next[q + 1] = q + 1 + 1
          <6> HIDE DEF head, past
          <6>1. own[q + 1] = {}
            BY <3>1, <4>1, <4>4 DEF own
          <6>2. go[q + 1] = TRUE
            BY <3>1, <4>1, <4>4 DEF go
          <6>3. next[q + 1] = q + 1 + 1
            BY <3>1, <4>1, <4>4 DEF next
          <6> QED BY <6>1, <6>2, <6>3
        <5>2. s[q + 1] = w[q + 1 + 1]
          BY <4>1
        <5> HIDE DEF s
        <5>3. At(s, q) = s[q + 1]
          BY <3>3, <4>4
        <5> QED BY <3>1, <4>2, <5>1, <5>2, <5>3
      <4> QED BY <4>3, <4>4
    <3> QED BY <3>2, <3>3
  <2>5. s = [q \in 0 .. n |-> s[q]]
    OBVIOUS
  <2> HIDE DEF s, At
  <2>6. [q \in 0 .. n |-> s[q]] = [q \in 0 .. n |-> At(s, q)]
    BY <2>4
  <2> QED BY <2>5, <2>6
<1>4. scan = [q \in 0 .. n |-> At(scan, q)]
  <2> HIDE DEF At
  <2> QED BY <1>3
<1>5. \A q \in 0 .. n : scan[q] = At(scan, q)
  <2> HIDE DEF At, scan
  <2> QED BY <1>4
<1>6. IndexedHeaders(f) = FirstOf(MaxCandidates, {q \in 0 .. n - 1 : HasLocal(f, q) /\ f[q + 1].whole /\ q \in scan[0]})
  BY DEF IndexedHeaders
<1> HIDE DEF scan
<1>7. \A q \in 0 .. o : o \in scan[q]
  <2> DEFINE bad == {k \in 0 .. o : o \notin scan[o - k]}
  <2>1. ASSUME bad # {} PROVE FALSE
    <3>1. bad \subseteq Nat
      OBVIOUS
    <3>2. PICK k \in bad : \A j \in bad : k <= j
      BY <2>1, <3>1, SmallestIn
    <3> DEFINE q == o - k
    <3>3. k \in 0 .. o /\ o \notin scan[q]
      OBVIOUS
    <3>4. q \in 0 .. n /\ q <= o /\ q # n /\ q \in Nat
      BY <1>1, <3>3
    <3>5. \A r \in q + 1 .. o : o \in scan[r]
      <4> TAKE r \in q + 1 .. o
      <4>1. o - r \in 0 .. o /\ ~(k <= o - r) /\ o - (o - r) = r
        BY <1>1, <3>3
      <4>2. o - r \notin bad
        <5> HIDE DEF bad
        <5> QED BY <3>2, <4>1
      <4> QED BY <4>1, <4>2
    <3> HIDE DEF q, bad
    <3>6. CASE head(q)
      <4>1. At(scan, q) = {q} \cup (IF past(q) > n THEN {} ELSE scan[past(q)])
        BY <3>4, <3>6
      <4>2. CASE q = o
        <5> HIDE DEF At, past
        <5> QED BY <1>5, <3>3, <3>4, <4>1, <4>2
      <4>3. CASE q # o
        <5>1. q \in 0 .. o - 1
          BY <1>1, <3>4, <4>3
        <5>2. past(q) <= o /\ past(q) \in Nat /\ past(q) > q
          BY <1>2, <3>4, <3>6, <5>1
        <5> HIDE DEF past, At
        <5>3. past(q) \in q + 1 .. o /\ ~(past(q) > n)
          BY <1>1, <3>4, <5>2
        <5> QED BY <1>5, <3>3, <3>4, <3>5, <4>1, <5>3
      <4> QED BY <4>2, <4>3
    <3>7. CASE ~head(q)
      <4>1. At(scan, q) = scan[q + 1]
        BY <3>4, <3>7
      <4>2. q # o
        BY <3>7
      <4> HIDE DEF At, head
      <4>3. q + 1 \in q + 1 .. o
        BY <1>1, <3>4, <4>2
      <4> QED BY <1>5, <3>3, <3>4, <3>5, <4>1, <4>3
    <3> QED BY <3>6, <3>7
  <2>2. ASSUME NEW q \in 0 .. o PROVE o \in scan[q]
    <3>1. o - q \in 0 .. o /\ o - (o - q) = q
      BY <1>1
    <3> QED BY <2>1, <3>1
  <2> QED BY <2>2
<1> DEFINE S == {q \in 0 .. n - 1 : HasLocal(f, q) /\ f[q + 1].whole /\ q \in scan[0]}
           T == {p \in S : p < o}
<1>8. o \in S
  BY <1>1, <1>7
<1>9. Cardinality(T) < MaxCandidates
  <2>1. IsFiniteSet(heads)
    <3>1. 0 \in Int /\ n - 1 \in Int
      BY <1>1
    <3>2. IsFiniteSet(0 .. n - 1)
      BY <3>1, FS_Interval
    <3> QED BY <3>2, FS_Subset
  <2>2. T \subseteq heads /\ o \in heads /\ o \notin T
    BY <1>1, <1>8
  <2> HIDE DEF T, heads
  <2>3. IsFiniteSet(T) /\ T \cup {o} \subseteq heads
    BY <2>1, <2>2, FS_Subset
  <2>4. Cardinality(T \cup {o}) = Cardinality(T) + 1
    BY <2>2, <2>3, FS_AddElement
  <2>5. Cardinality(T \cup {o}) <= Cardinality(heads)
    BY <2>1, <2>3, FS_Subset
  <2>6. Cardinality(T) \in Nat /\ Cardinality(heads) \in Nat
    BY <2>1, <2>3, FS_CardinalityType
  <2>7. Cardinality(heads) <= MaxCandidates
    BY DEF heads
  <2> QED BY <2>4, <2>5, <2>6, <2>7, PolicyAssumption
<1> QED BY <1>6, <1>8, <1>9 DEF FirstOf

\* What a record is repointed to is a header of the index and a place of the map.
LEMMA RepointedTo ==
  ASSUME NEW f, NEW index, NEW K, NEW e \in Entries
  PROVE  \/ Repointed(f, index, K, e) = e
         \/ \E o \in index \cap Mapped(K, e.off) : Repointed(f, index, K, e) = [e EXCEPT !.off = o]
<1> DEFINE to == {o \in Mapped(K, e.off) : o \in index /\ f[o + 1].meta.name = e.name}
<1>1. CASE NamedAt(f, e.off, e.name) \/ to = {}
  BY <1>1 DEF Repointed
<1>2. CASE ~(NamedAt(f, e.off, e.name) \/ to = {})
  <2>1. (CHOOSE o \in to : TRUE) \in to
    BY <1>2
  <2>2. Repointed(f, index, K, e) = [e EXCEPT !.off = CHOOSE o \in to : TRUE]
    BY <1>2 DEF Repointed
  <2> QED BY <2>1, <2>2
<1> QED BY <1>1, <1>2

\* A repointed record is a record.
LEMMA RepointedType ==
  ASSUME NEW f, IsFile(f), NEW K, NEW e \in RecordEntries
  PROVE  Repointed(f, IndexedHeaders(f), K, e) \in RecordEntries
<1>1. e \in Entries /\ e.central = TRUE
  BY DEF RecordEntries
<1>2. ASSUME NEW o \in IndexedHeaders(f)
      PROVE  [e EXCEPT !.off = o] \in RecordEntries
  BY <1>1, IndexType, GoneFacts DEF Entries, RecordEntries
<1> QED BY <1>1, <1>2, RepointedTo

\* An observation pairs a stored offset with the place of an indexed header.
LEMMA ObservationType ==
  ASSUME NEW f, NEW index, index \subseteq Nat,
         NEW es, \A i \in DOMAIN es : es[i].off \in Nat,
         NEW ob \in Observations(f, index, es)
  PROVE  ob.stored \in Nat /\ ob.physical \in Nat
<1>1. PICK i \in Matched(f, index, es) :
        ob = [stored   |-> es[i].off,
              physical |-> CHOOSE o \in MatchesFor(f, index, es[i]) : TRUE]
  BY DEF Observations
<1>2. i \in DOMAIN es /\ \E o \in index : MatchesFor(f, index, es[i]) = {o}
  BY DEF Matched
<1>3. (CHOOSE o \in MatchesFor(f, index, es[i]) : TRUE) \in index
  BY <1>2
<1> QED BY <1>1, <1>2, <1>3

\* Observations that would cross are not believed, so that those that are keep the
\* order of the file.
LEMMA InferredInOrder ==
  ASSUME NEW obs
  PROVE  /\ InferredMap(obs) \subseteq obs
         /\ \A a, b \in InferredMap(obs) : a.stored < b.stored => a.physical < b.physical
BY DEF InferredMap, Kept

\* The nearest observation at or above an offset.
LEMMA NearestAbove ==
  ASSUME NEW K, \A ob \in K : ob.stored \in Nat, NEW s \in Nat, \E ob \in K : ob.stored >= s
  PROVE  \E ob \in Above(K, s) : \A other \in K : other.stored >= s => other.stored >= ob.stored
<1> DEFINE stored == {ob.stored : ob \in {x \in K : x.stored >= s}}
<1>1. stored \subseteq Nat /\ stored # {}
  OBVIOUS
<1>2. Smallest(stored) \in stored /\ \A x \in stored : Smallest(stored) <= x
  BY <1>1, SmallestIn
<1>3. PICK ob \in K : ob.stored >= s /\ ob.stored = Smallest(stored)
  BY <1>2
<1>4. \A other \in K : other.stored >= s => other.stored >= ob.stored
  BY <1>2, <1>3
<1> QED BY <1>3, <1>4 DEF Above

\* The nearest one at or below it.
LEMMA NearestBelow ==
  ASSUME NEW K, \A ob \in K : ob.stored \in Nat, NEW s \in Nat, \E ob \in K : ob.stored <= s
  PROVE  \E ob \in Below(K, s) : \A other \in K : other.stored <= s => other.stored <= ob.stored
<1> DEFINE stored == {ob.stored : ob \in {x \in K : x.stored <= s}}
<1>1. stored \subseteq Nat /\ stored # {} /\ \A x \in stored : x <= s
  OBVIOUS
<1>2. Largest(stored) \in stored /\ \A x \in stored : Largest(stored) >= x
  BY <1>1, LargestIn
<1>3. PICK ob \in K : ob.stored <= s /\ ob.stored = Largest(stored)
  BY <1>2
<1>4. \A other \in K : other.stored <= s => other.stored <= ob.stored
  BY <1>2, <1>3
<1> QED BY <1>3, <1>4 DEF Below

\* The map of observations that keep their order keeps the order of the offsets it
\* translates.
LEMMA MappedKeepsOrder ==
  ASSUME NEW K, \A ob \in K : ob.stored \in Nat /\ ob.physical \in Nat,
         \A a, b \in K : a.stored < b.stored => a.physical < b.physical,
         NEW s \in Nat, NEW t \in Nat, s < t, t < Gone,
         NEW u \in Mapped(K, s), NEW v \in Mapped(K, t)
  PROVE  u < v
<1>1. PICK d : Shifts(K, s) = {d} /\ u = s + d
  BY GoneFacts DEF Mapped, AsI64
<1>2. PICK e : Shifts(K, t) = {e} /\ v = t + e
  BY GoneFacts DEF Mapped, AsI64
<1>3. CASE \E ob \in K : s <= ob.stored /\ ob.stored <= t
  <2>1. PICK a \in Above(K, s) : \A other \in K : other.stored >= s => other.stored >= a.stored
    BY <1>3, NearestAbove
  <2>2. PICK b \in Below(K, t) : \A other \in K : other.stored <= t => other.stored <= b.stored
    BY <1>3, NearestBelow
  <2>3. /\ a \in K /\ b \in K /\ a.stored >= s /\ b.stored <= t
        /\ a.stored <= t /\ b.stored >= s /\ a.stored <= b.stored
    BY <1>3, <2>1, <2>2 DEF Above, Below
  <2>4. Delta(a) = a.physical - a.stored /\ Delta(b) = b.physical - b.stored
    BY <2>3, GoneFacts DEF Delta, AsI64
  <2>5. Delta(a) = d /\ Delta(b) = e
    BY <1>1, <1>2, <2>1, <2>2 DEF Shifts
  <2>6. CASE a.stored < b.stored
    <3>1. a.physical < b.physical
      BY <2>3, <2>6
    <3> QED BY <1>1, <1>2, <2>3, <2>4, <2>5, <3>1
  <2>7. CASE a.stored = b.stored
    <3>1. b \in Above(K, s)
      BY <2>1, <2>3, <2>7 DEF Above
    <3>2. Delta(b) = d
      BY <1>1, <3>1 DEF Shifts
    <3> QED BY <1>1, <1>2, <2>3, <2>4, <2>5, <3>2
  <2> QED BY <2>3, <2>6, <2>7
<1>4. CASE ~\E ob \in K : s <= ob.stored /\ ob.stored <= t
  <2>1. \A ob \in K : (ob.stored <= s <=> ob.stored <= t) /\ (ob.stored >= s <=> ob.stored >= t)
    BY <1>4
  <2>2. Below(K, s) = Below(K, t) /\ Above(K, s) = Above(K, t)
    BY <2>1 DEF Below, Above
  <2>3. d = e
    BY <1>1, <1>2, <2>2 DEF Shifts
  <2>4. d \in Int
    <3>1. PICK ob \in K : d = Delta(ob)
      BY <1>1 DEF Shifts, Below, Above
    <3> QED BY <3>1, GoneFacts DEF Delta, AsI64
  <2> QED BY <1>1, <1>2, <2>3, <2>4
<1> QED BY <1>3, <1>4

-----------------------------------------------------------------------------
\* Ranges.

\* The range of an entry begins at its header and is never empty.
LEMMA RangeFacts ==
  ASSUME NEW f, IsFile(f), NEW e \in Entries
  PROVE  RangeIn(f, e) # NoRange =>
           /\ RangeIn(f, e) \in Nat \X Nat
           /\ RangeIn(f, e)[1] = e.off /\ e.off < RangeIn(f, e)[2]
<1> SUFFICES ASSUME RangeIn(f, e) # NoRange
             PROVE  /\ RangeIn(f, e) \in Nat \X Nat
                    /\ RangeIn(f, e)[1] = e.off /\ e.off < RangeIn(f, e)[2]
  OBVIOUS
<1>1. e.off \in Nat /\ e.csize \in Nat
  BY DEF Entries
<1>2. e.off \in 0 .. Len(f) - 1 /\ RangeIn(f, e) = <<e.off, e.off + Span(f, e.off) + e.csize>>
  BY DEF RangeIn
<1>3. Kind(f, e.off) = f[e.off + 1].kind /\ IsCell(f[e.off + 1])
  <2>1. e.off + 1 \in 1 .. Len(f)
    BY <1>1, <1>2, GoneFacts DEF IsFile
  <2> QED BY <1>2, <2>1 DEF Kind, IsFile
<1>4. Span(f, e.off) \in Nat /\ Span(f, e.off) >= 1
  BY <1>3 DEF Span, IsCell
<1> QED BY <1>1, <1>2, <1>4

\* The clamped range of a header that can be read begins there and is never empty.
LEMMA LenientFacts ==
  ASSUME NEW f, IsFile(f), NEW o, HasLocal(f, o)
  PROVE  LenientRange(f, o) # NoRange =>
           /\ LenientRange(f, o) \in Nat \X Nat
           /\ LenientRange(f, o)[1] = o /\ o < LenientRange(f, o)[2]
<1>1. o \in 0 .. Len(f) - 1 /\ o \in Nat /\ Len(f) \in Nat /\ f[o + 1].meta.csize \in Nat
  BY CellAt, HeaderType, GoneFacts DEF HasLocal, IsFile, Metas
<1> QED BY <1>1 DEF LenientRange

-----------------------------------------------------------------------------
\* Type correctness.

Reading == phase \in {"containers", "directory", "surviving", "repoint", "decide"}

\* Until the merge there are only records, and what is pending are headers.
TypeInv ==
  /\ TypeOK
  /\ job \in Jobs
  /\ Reading => entries \in Seq(RecordEntries)
  /\ \A o \in pending : HasLocal(job.file, o)

\* A job is about a file.
LEMMA FileType == job \in Jobs => IsFile(job.file) /\ Len(job.file) \in Nat /\ Len(job.file) < Gone
BY JobsAssumption, GoneFacts DEF IsFile

\* It holds at first.
LEMMA TypeInit == Init => TypeInv
<1> SUFFICES ASSUME Init PROVE TypeInv
  OBVIOUS
<1>1. job \in Jobs /\ horizon \in Nat /\ declared \in Nat \cup {-1}
  BY FileType DEF Init
<1>2. entries = << >> /\ todo = << >> /\ pending = {} /\ claimed = {} /\ taken = {} /\ total = 0
  BY DEF Init
<1>3. /\ phase = "containers" /\ found = FALSE /\ enumerates = FALSE /\ sinkFailed = FALSE
  BY DEF Init
<1>4. \A S : << >> \in Seq(S)
  OBVIOUS
<1>5. TypeOK
  BY <1>1, <1>2, <1>3, <1>4 DEF TypeOK
<1> QED BY <1>1, <1>2, <1>4, <1>5 DEF TypeInv

\* The bytes that are handed out under "verified" are what the archive has the
\* checksum of; and a status is never taken for the absence of one.
LEMMA ExtractedFacts ==
  ASSUME NEW f, NEW e \in Entries
  PROVE  /\ Extracted(f, e).status # "none"
         /\ Extracted(f, e).status = "verified" =>
              Extracted(f, e).bytes = e.crc /\ Len(Extracted(f, e).bytes) \in Nat
<1>1. e.lock \in Locks /\ e.crc \in Contents
  BY DEF Entries
<1> DEFINE none(status) == [status |-> status, bytes |-> << >>]
           bytes == IF e.method = "stored" THEN SubSeq(f, e.off + 1 + 1, e.off + 1 + e.csize)
                    ELSE SubSeq(f, e.off + 1 + 1, e.off + 1 + e.csize)[1].of
<1>2. \/ e.lock # "none" /\ Extracted(f, e) = none(e.lock)
      \/ \E s \in {"streamed_unsized", "bad_local_header", "truncated", "unsupported_method",
                   "decode_failed"} : Extracted(f, e) = none(s)
      \/ Extracted(f, e) = [status |-> IF bytes = e.crc THEN "verified" ELSE "crc_mismatch",
                            bytes |-> bytes]
  <2> HIDE DEF bytes
  <2> QED BY DEF Extracted, bytes
<1> HIDE DEF bytes
<1>3. CASE e.lock # "none" /\ Extracted(f, e) = none(e.lock)
  BY <1>1, <1>3 DEF Locks
<1>4. CASE \E s \in {"streamed_unsized", "bad_local_header", "truncated", "unsupported_method",
                     "decode_failed"} : Extracted(f, e) = none(s)
  BY <1>4
<1>5. CASE Extracted(f, e) = [status |-> IF bytes = e.crc THEN "verified" ELSE "crc_mismatch",
                              bytes |-> bytes]
  BY <1>1, <1>5, ContentsAssumption
<1> QED BY <1>2, <1>3, <1>4, <1>5

\* An entry is handed out only if it passes every check.
LEMMA AbstentionFacts ==
  ASSUME NEW e \in Entries, Abstention(e, Extracted(job.file, e)) = "none"
  PROVE  LET x == Extracted(job.file, e)
         IN  /\ x.status = "verified" /\ x.bytes = e.crc /\ Len(x.bytes) \in Nat
             /\ ~Unsafe(e.name) /\ PathKey(e.name) \notin names
             /\ ~(Len(x.bytes) > MaxEntryBytes) /\ ~(total + Len(x.bytes) > MaxTotalBytes)
             /\ x.bytes = << >> => Attested(e)
             /\ enumerates /\ Attests(job.provenance) => Attested(e)
<1> DEFINE x == Extracted(job.file, e)
<1> HIDE DEF x
<1>1. /\ ~Unsafe(e.name) /\ PathKey(e.name) \notin names
      /\ x.status \in {"verified", "none"}
      /\ x.status = "verified" =>
           /\ ~(Len(x.bytes) > MaxEntryBytes) /\ ~(total + Len(x.bytes) > MaxTotalBytes)
           /\ x.bytes = << >> => Attested(e)
           /\ enumerates /\ Attests(job.provenance) => Attested(e)
  BY DEF Abstention, x
<1> QED BY <1>1, ExtractedFacts DEF x

-----------------------------------------------------------------------------
\* What the actions write.

\* The end record that is found is one, and where it says the directory is can be
\* an offset.
LEMMA EndFacts ==
  ASSUME NEW f, IsFile(f), HasEnd(f)
  PROVE  /\ f[FindEocd(f) + 1].total \in Nat
         /\ DirectoryStart(f, FindEocd(f)) \in Nat
         /\ DirectoryPast(f, FindEocd(f), DirectoryStart(f, FindEocd(f))) \in Int
<1> DEFINE e == FindEocd(f)
           c == f[e + 1]
<1>1. e \in Nat /\ Kind(f, e) = "end"
  <2>1. Len(f) \in Nat /\ Ends(f) \subseteq Nat /\ \A o \in Ends(f) : o <= Len(f)
    BY GoneFacts DEF IsFile, Ends
  <2>2. Largest(Ends(f)) \in Ends(f)
    BY <2>1, LargestIn DEF HasEnd
  <2> QED BY <2>1, <2>2 DEF FindEocd, Ends
<1>2. c.total \in Nat /\ c.size \in Nat /\ c.off \in Nat
  BY <1>1, CellAt DEF IsCell
<1>3. Kind(f, e - c.size) = "central" => e - c.size \in Nat
  BY CellAt
<1> HIDE DEF e, c
<1>4. DirectoryStart(f, e) \in {c.off, IF Kind(f, e - c.size) = "central" THEN e - c.size ELSE c.off}
  BY DEF DirectoryStart, c
<1>5. DirectoryStart(f, e) \in Nat
  BY <1>2, <1>3, <1>4
<1>6. Len(f) \in Int
  BY GoneFacts DEF IsFile
<1>7. DirectoryPast(f, e, DirectoryStart(f, e)) \in Int
  BY <1>2, <1>5, <1>6 DEF DirectoryPast, c
<1> QED BY <1>2, <1>5, <1>7 DEF e, c

\* Dropping entries leaves a sequence of the others.
LEMMA UnownedType ==
  ASSUME NEW S, NEW es \in Seq(S)
  PROVE  /\ Unowned(es) \in Seq(S)
         /\ \A k \in DOMAIN Unowned(es) : \E i \in DOMAIN es : Unowned(es)[k] = es[i] /\ ~Owned(containers, es[i].off)
<1> DEFINE own == {i \in DOMAIN es : ~Owned(containers, es[i].off)}
           n   == Cardinality(own)
<1>1. Len(es) \in Nat /\ DOMAIN es = 1 .. Len(es) /\ \A i \in 1 .. Len(es) : es[i] \in S
  OBVIOUS
<1>2. own \subseteq 1 .. Len(es) /\ own \subseteq Nat /\ IsFiniteSet(own)
  <2>1. 1 \in Int /\ Len(es) \in Int
    BY <1>1
  <2>2. own \subseteq 1 .. Len(es) /\ IsFiniteSet(1 .. Len(es))
    BY <1>1, <2>1, FS_Interval
  <2> QED BY <2>2, FS_Subset
<1>3. n \in Nat /\ \A k \in 1 .. n : Nth(k, own) \in own
  BY <1>2, NthIn, FS_CardinalityType
<1>4. Unowned(es) = [k \in 1 .. n |-> es[Nth(k, own)]]
  BY DEF Unowned
<1>5. Unowned(es) \in [1 .. n -> S]
  BY <1>1, <1>2, <1>3, <1>4
<1>6. Unowned(es) \in Seq(S)
  BY <1>3, <1>5, FunctionIsSeq
<1>7. ASSUME NEW k \in DOMAIN Unowned(es)
      PROVE  \E i \in DOMAIN es : Unowned(es)[k] = es[i] /\ ~Owned(containers, es[i].off)
  <2>1. k \in 1 .. n /\ Unowned(es)[k] = es[Nth(k, own)]
    BY <1>4, <1>7
  <2> QED BY <1>3, <2>1
<1> QED BY <1>6, <1>7

\* No entry outside of the containers is dropped.
LEMMA UnownedKeeps ==
  ASSUME NEW S, NEW es \in Seq(S), NEW i \in DOMAIN es, ~Owned(containers, es[i].off)
  PROVE  \E k \in DOMAIN Unowned(es) : Unowned(es)[k] = es[i]
<1> DEFINE own == {j \in DOMAIN es : ~Owned(containers, es[j].off)}
<1>1. Len(es) \in Nat /\ DOMAIN es = 1 .. Len(es)
  OBVIOUS
<1>2. own \subseteq Nat /\ IsFiniteSet(own) /\ i \in own
  <2>1. 1 \in Int /\ Len(es) \in Int
    BY <1>1
  <2>2. own \subseteq 1 .. Len(es) /\ IsFiniteSet(1 .. Len(es))
    BY <1>1, <2>1, FS_Interval
  <2> QED BY <2>2, FS_Subset
<1>3. Unowned(es) = [k \in 1 .. Cardinality(own) |-> es[Nth(k, own)]]
  BY DEF Unowned
<1> HIDE DEF own
<1>4. PICK n \in 1 .. Cardinality(own) : Nth(n, own) = i
  BY <1>2, NthOnto
<1> QED BY <1>3, <1>4

\* A declared region begins at a record and ends behind it.
LEMMA ClaimedType ==
  ASSUME NEW f, IsFile(f), NEW es \in Seq(RecordEntries), NEW past \in Nat,
         NEW r \in ClaimedByRecords(f, es, past)
  PROVE  r \in Nat \X Nat /\ r[1] < r[2]
<1> DEFINE offs == {es[i].off : i \in DOMAIN es}
           here == offs \ {Gone}
<1>1. \A i \in DOMAIN es : es[i] \in Entries /\ es[i].off \in Nat
  BY StoredAreRecords DEF Entries
<1>2. offs \subseteq Nat
  BY <1>1
<1>3. CASE r \in Ranges(f, es)
  <2>1. PICK i \in DOMAIN es : r = RangeIn(f, es[i]) /\ r # NoRange
    BY <1>3 DEF Ranges
  <2> QED BY <1>1, <2>1, RangeFacts
<1>4. CASE \E i \in DOMAIN es : /\ r = <<es[i].off, NextDeclared(es, es[i].off, past)>>
                                /\ NextDeclared(es, es[i].off, past) > es[i].off
  <2>1. PICK i \in DOMAIN es : /\ r = <<es[i].off, NextDeclared(es, es[i].off, past)>>
                               /\ NextDeclared(es, es[i].off, past) > es[i].off
    BY <1>4
  <2> DEFINE later == offs \ ({Gone} \cup 0 .. es[i].off)
  <2>2. later \subseteq Nat /\ NextDeclared(es, es[i].off, past) = IF later = {} THEN past ELSE Smallest(later)
    BY <1>2 DEF NextDeclared
  <2>3. NextDeclared(es, es[i].off, past) \in Nat
    BY <2>2, SmallestIn
  <2> QED BY <1>1, <2>1, <2>3
<1>5. CASE here # {} /\ Smallest(here) > 0 /\ r = <<0, Smallest(here)>>
  BY <1>2, <1>5, SmallestIn
<1> QED BY <1>3, <1>4, <1>5 DEF ClaimedByRecords

-----------------------------------------------------------------------------
\* Every step leaves the state well typed.

\* Reading and reconciling the directory.
LEMMA TypeReading ==
  ASSUME TypeInv, FindContainers \/ ReadDirectory \/ AdoptSurviving \/ NoSurvivor \/ Repoint
  PROVE  TypeInv'
<1> DEFINE f == job.file
<1>1. IsFile(f) /\ Reading /\ entries \in Seq(RecordEntries)
  BY FileType
     DEF TypeInv, Reading, FindContainers, ReadDirectory, AdoptSurviving, NoSurvivor, Repoint
<1>2. \A S : Seq(StoredEntries) \subseteq Seq(RecordEntries) /\ Seq(RecordEntries) \subseteq Seq(Entries)
  BY StoredAreRecords
<1>3. << >> \in Seq(RecordEntries)
  OBVIOUS
<1> SUFFICES /\ entries' \in Seq(RecordEntries) /\ horizon' \in Nat
             /\ declared' \in Nat \cup {-1} /\ found' \in BOOLEAN
             /\ phase' \in {"directory", "surviving", "repoint", "decide"}
             /\ UNCHANGED <<job, enumerates, mergeVars, emitVars>>
  <2>1. entries' \in Seq(RecordEntries) => entries' \in Seq(Entries)
    BY <1>2
  <2> QED BY <2>1 DEF TypeInv, TypeOK, mergeVars, emitVars
<1>4. CASE FindContainers
  BY <1>1, <1>4 DEF FindContainers, TypeInv, TypeOK
<1>5. CASE ReadDirectory
  <2> DEFINE e     == FindEocd(f)
             start == DirectoryStart(f, e)
             past  == DirectoryPast(f, e, start)
             there == HasEnd(f) /\ ~Owned(containers, start) /\ start < past
  <2>1. HasEnd(f) => f[e + 1].total \in Nat /\ start \in Nat /\ past \in Int
    BY <1>1, EndFacts
  <2>2. HasEnd(f) => WalkDirectory(f, start, past) \in Seq(RecordEntries)
    BY <1>1, <1>2, <2>1, WalkType
  <2> HIDE DEF e, start, past
  <2>3. /\ declared' = IF HasEnd(f) THEN f[e + 1].total ELSE -1
        /\ horizon' = IF there THEN start ELSE horizon
        /\ entries' = IF there THEN WalkDirectory(f, start, past) ELSE << >>
        /\ found' = (entries' # << >>)
        /\ phase' = IF entries' = << >> THEN "surviving" ELSE "repoint"
        /\ UNCHANGED <<job, enumerates, mergeVars, emitVars>>
    BY <1>5 DEF ReadDirectory, e, start, past
  <2>4. horizon \in Nat
    BY DEF TypeInv, TypeOK
  <2> QED BY <1>3, <2>1, <2>2, <2>3, <2>4
<1>6. CASE AdoptSurviving
  <2>1. PICK start \in SurvivingChains(f) :
          /\ \E delta \in Deltas(f, start) :
               entries' = Shifted(WalkDirectory(f, start, ChainEnd(f, start)), delta)
          /\ horizon' = start
    BY <1>6 DEF AdoptSurviving
  <2>2. PICK delta \in Deltas(f, start) :
          entries' = Shifted(WalkDirectory(f, start, ChainEnd(f, start)), delta)
    BY <2>1
  <2>3. start \in ChainStarts(f)
    BY DEF SurvivingChains
  <2>4. start \in Nat /\ ChainEnd(f, start) \in Nat /\ delta \in Int /\ delta < Reach
    BY <1>1, <2>3, ChainFacts, DeltaType
  <2>5. WalkDirectory(f, start, ChainEnd(f, start)) \in Seq(StoredEntries)
    BY <1>1, <2>4, WalkType
  <2>6. entries' \in Seq(RecordEntries)
    BY <2>2, <2>4, <2>5, ShiftedType
  <2> QED BY <1>6, <2>1, <2>4, <2>6 DEF AdoptSurviving, TypeInv, TypeOK
<1>7. CASE NoSurvivor
  BY <1>1, <1>7 DEF NoSurvivor, TypeInv, TypeOK, parseVars
<1>8. CASE Repoint
  <2> DEFINE index == IndexedHeaders(f)
             K     == InferredMap(Observations(f, index, entries))
  <2>1. /\ entries' = [i \in DOMAIN entries |-> Repointed(f, index, K, entries[i])]
        /\ phase' = "decide"
        /\ UNCHANGED <<job, declared, horizon, found, enumerates, mergeVars, emitVars>>
    BY <1>8 DEF Repoint
  <2>2. Len(entries) \in Nat /\ DOMAIN entries = 1 .. Len(entries)
        /\ \A i \in 1 .. Len(entries) : entries[i] \in RecordEntries
    BY <1>1
  <2>3. \A i \in 1 .. Len(entries) : Repointed(f, index, K, entries[i]) \in RecordEntries
    BY <1>1, <2>2, RepointedType
  <2> HIDE DEF index, K
  <2>4. entries' \in [1 .. Len(entries) -> RecordEntries]
    BY <2>1, <2>2, <2>3
  <2>5. entries' \in Seq(RecordEntries)
    BY <2>2, <2>4, FunctionIsSeq
  <2> QED BY <2>1, <2>5 DEF TypeInv, TypeOK
<1> QED BY <1>4, <1>5, <1>6, <1>7, <1>8

\* The merge with the scan.
LEMMA TypeMerging ==
  ASSUME TypeInv, Directly \/ StartMerge \/ Accept \/ Refuse \/ FinishMerge
  PROVE  TypeInv'
<1> DEFINE f == job.file
<1>1. IsFile(f) /\ Len(f) \in Nat /\ job \in Jobs
  BY FileType DEF TypeInv
<1>2. CASE Directly
  BY <1>2 DEF Directly, Reading, TypeInv, TypeOK, mergeVars
<1>3. CASE StartMerge
  <2>1. entries \in Seq(RecordEntries) /\ horizon \in Nat
    BY <1>3 DEF StartMerge, TypeInv, TypeOK, Reading
  <2>2. \A i \in DOMAIN entries : entries[i] \in Entries /\ entries[i].off \in Nat
    BY <2>1, StoredAreRecords DEF Entries
  <2>3. taken' \subseteq Nat
    BY <1>3, <2>2 DEF StartMerge
  <2>4. \A r \in claimed' : r \in Nat \X Nat /\ r[1] < r[2]
    BY <1>1, <1>3, <2>1, ClaimedType DEF StartMerge
  <2>5. entries' \in Seq(Entries)
    BY <1>3, UnownedType DEF StartMerge, TypeInv, TypeOK
  <2>6. pending' \subseteq 0 .. Len(f) - 1 /\ \A o \in pending' : HasLocal(f, o)
    BY <1>1, <1>3, IndexType DEF StartMerge
  <2>7. enumerates' \in BOOLEAN
    BY <1>3 DEF StartMerge, TypeInv, TypeOK
  <2>8. phase' = "merge" /\ UNCHANGED <<job, declared, horizon, found, emitVars>>
    BY <1>3 DEF StartMerge
  <2> QED BY <2>3, <2>4, <2>5, <2>6, <2>7, <2>8 DEF TypeInv, TypeOK, Reading, emitVars
<1>4. CASE Accept
  <2>1. PICK o \in pending :
          /\ Candidate(o) /\ Refusal(o, LenientRange(f, o)) = "none"
          /\ pending' = pending \ {o} /\ taken' = taken \cup {o}
          /\ claimed' = claimed \cup {LenientRange(f, o)}
          /\ entries' = Append(entries, Scanned(f, o))
    BY <1>4 DEF Accept
  <2>2. HasLocal(f, o) /\ o \in Nat /\ LenientRange(f, o) # NoRange
    BY <1>1, <2>1 DEF TypeInv, TypeOK, Refusal
  <2>3. LenientRange(f, o) \in Nat \X Nat /\ LenientRange(f, o)[1] < LenientRange(f, o)[2]
    BY <1>1, <2>2, LenientFacts
  <2>4. Scanned(f, o) \in Entries
    BY <1>1, <2>2, ScannedType
  <2>5. phase = "merge" /\ UNCHANGED <<job, phase, declared, horizon, found, enumerates, emitVars>>
    BY <1>4, <2>1 DEF Accept, Candidate
  <2>6. entries' \in Seq(Entries)
    BY <2>1, <2>4 DEF TypeInv, TypeOK
  <2> QED BY <2>1, <2>2, <2>3, <2>5, <2>6 DEF TypeInv, TypeOK, Reading, emitVars
<1>5. CASE Refuse
  BY <1>5 DEF Refuse, TypeInv, TypeOK, Reading, parseVars, emitVars
<1>6. CASE FinishMerge
  <2>1. PICK order \in [DOMAIN entries -> DOMAIN entries] :
          entries' = [k \in DOMAIN entries |-> entries[order[k]]]
    BY <1>6 DEF FinishMerge, Sorts
  <2>2. Len(entries) \in Nat /\ DOMAIN entries = 1 .. Len(entries)
        /\ \A i \in 1 .. Len(entries) : entries[i] \in Entries
    BY DEF TypeInv, TypeOK
  <2>3. \A k \in 1 .. Len(entries) : order[k] \in 1 .. Len(entries)
    BY <2>2
  <2>4. entries' \in [1 .. Len(entries) -> Entries]
    BY <2>1, <2>2, <2>3
  <2>5. entries' \in Seq(Entries)
    BY <2>2, <2>4, FunctionIsSeq
  <2>6. /\ todo' = entries' /\ pending' = {} /\ phase' = "emit"
        /\ UNCHANGED <<job, declared, horizon, found, enumerates, claimed, taken, total, sinkFailed>>
    BY <1>6 DEF FinishMerge
  <2> QED BY <2>5, <2>6 DEF TypeInv, TypeOK, Reading
<1> QED BY <1>2, <1>3, <1>4, <1>5, <1>6

\* Handing entries out.
LEMMA TypeEmitting ==
  ASSUME TypeInv, Emit \/ Skip \/ Finish \/ Terminated \/ UNCHANGED vars
  PROVE  TypeInv'
<1>1. CASE Emit
  <2> DEFINE e == Head(todo)
             x == Extracted(job.file, e)
  <2>1. e \in Entries /\ Tail(todo) \in Seq(Entries)
    BY <1>1 DEF Emit, Emitting, TypeInv, TypeOK
  <2>2. Abstention(e, x) = "none" /\ total' = total + Len(x.bytes)
    BY <1>1 DEF Emit
  <2>3. total' \in Nat
    BY <2>1, <2>2, AbstentionFacts DEF TypeInv, TypeOK
  <2>4. /\ phase = "emit" /\ phase' \in {"emit", "done"}
        /\ todo' \in {todo, Tail(todo)} /\ sinkFailed' \in {sinkFailed, TRUE}
        /\ UNCHANGED <<job, parseVars, mergeVars>>
    BY <1>1 DEF Emit, Emitting
  <2> QED BY <2>1, <2>3, <2>4 DEF TypeInv, TypeOK, Reading, parseVars, mergeVars
<1>2. CASE Skip
  <2>1. Tail(todo) \in Seq(Entries)
    BY <1>2 DEF Skip, Emitting, TypeInv, TypeOK
  <2> QED BY <1>2, <2>1 DEF Skip, Emitting, TypeInv, TypeOK, Reading, parseVars, mergeVars
<1>3. CASE Finish
  BY <1>3 DEF Finish, TypeInv, TypeOK, Reading, parseVars, mergeVars
<1>4. CASE Terminated \/ UNCHANGED vars
  BY <1>4 DEF Terminated, vars, TypeInv, TypeOK, Reading, parseVars, mergeVars, emitVars
<1> QED BY <1>1, <1>2, <1>3, <1>4

\* The state of the ZIP core is always well typed, and no claimed range is empty or
\* inverted: for every damaged file, whatever its fields say, the recovery computes
\* with offsets that exist (parse_zip_with_policy, reconcile_cd_and_scan).
THEOREM TypeTheorem == Spec => []TypeOK
<1>1. TypeInv /\ [Next]_vars => TypeInv'
  BY TypeReading, TypeMerging, TypeEmitting DEF Next
<1>2. TypeInv => TypeOK
  BY DEF TypeInv
<1> QED BY TypeInit, <1>1, <1>2, PTL DEF Spec

-----------------------------------------------------------------------------
\* Entries that only the scan found.

\* What makes an entry's bytes its own: as long as candidates are merged, the range of
\* every entry is among the claimed ones; and only what a record describes may have none.
MergeInv ==
  /\ phase = "merge" => \A i \in DOMAIN entries :
       /\ RangeOf(entries[i]) # NoRange => RangeOf(entries[i]) \in claimed
       /\ ~entries[i].central => RangeOf(entries[i]) # NoRange
  /\ ScanOnlyIsDisjoint

\* While there are only records nothing is to be shown.
LEMMA RecordsAreDisjoint ==
  ASSUME TypeInv, Reading
  PROVE  ScanOnlyIsDisjoint /\ \A i \in DOMAIN entries : entries[i].central
BY DEF TypeInv, RecordEntries, ScanOnlyIsDisjoint

\* Steps that leave the file and the entries alone.
LEMMA DisjointStable ==
  ASSUME ScanOnlyIsDisjoint, job' = job,
         \A k \in DOMAIN entries' : \E i \in DOMAIN entries : entries'[k] = entries[i]
  PROVE  ScanOnlyIsDisjoint'
<1>1. \A e : RangeOf(e)' = RangeOf(e)
  BY DEF RangeOf
<1>2. ASSUME NEW k \in DOMAIN entries', NEW l \in DOMAIN entries',
             ~entries'[k].central, entries'[k] # entries'[l], RangeOf(entries'[l]) # NoRange
      PROVE  ~Overlapping(RangeOf(entries'[k]), RangeOf(entries'[l]))
  <2>1. PICK i \in DOMAIN entries : entries'[k] = entries[i]
    OBVIOUS
  <2>2. PICK j \in DOMAIN entries : entries'[l] = entries[j]
    OBVIOUS
  <2> QED BY <1>2, <2>1, <2>2 DEF ScanOnlyIsDisjoint
<1>3. ScanOnlyIsDisjoint' =
        \A k, l \in DOMAIN entries' :
          ~entries'[k].central /\ entries'[k] # entries'[l] /\ RangeOf(entries'[l]) # NoRange
            => ~Overlapping(RangeOf(entries'[k]), RangeOf(entries'[l]))
  BY DEF ScanOnlyIsDisjoint, RangeOf
<1> QED BY <1>2, <1>3

\* The merge begins with the records that no container owns, and their ranges claimed.
LEMMA MergeStarts ==
  ASSUME TypeInv, StartMerge
  PROVE  MergeInv'
<1>1. /\ entries \in Seq(RecordEntries) /\ Reading
  BY DEF StartMerge, TypeInv, Reading
<1>2. /\ job' = job /\ phase' = "merge" /\ entries' = Unowned(entries)
      /\ claimed' = ClaimedByRecords(job.file, entries, horizon)
  BY DEF StartMerge
<1>3. \A k \in DOMAIN entries' : \E i \in DOMAIN entries : entries'[k] = entries[i]
  BY <1>1, <1>2, UnownedType
<1>4. ScanOnlyIsDisjoint'
  BY <1>1, <1>2, <1>3, RecordsAreDisjoint, DisjointStable
<1>5. \A e : RangeOf(e)' = RangeOf(e)
  BY <1>2 DEF RangeOf
<1>6. ASSUME NEW k \in DOMAIN entries'
      PROVE  /\ entries'[k].central
             /\ RangeOf(entries'[k]) # NoRange => RangeOf(entries'[k]) \in claimed'
  <2>1. PICK i \in DOMAIN entries : entries'[k] = entries[i]
    BY <1>3
  <2>2. entries[i].central
    BY <1>1, RecordsAreDisjoint
  <2>3. RangeOf(entries[i]) = RangeIn(job.file, entries[i])
    BY <2>2 DEF RangeOf
  <2> QED BY <1>2, <2>1, <2>2, <2>3 DEF ClaimedByRecords, Ranges
<1>7. \A k \in DOMAIN entries' : RangeOf(entries[k])' = RangeOf(entries'[k])
  BY <1>2 DEF RangeOf
<1> QED BY <1>2, <1>4, <1>6, <1>7 DEF MergeInv

\* A candidate is accepted with a range of its own, and the range is claimed.
LEMMA MergeAccepts ==
  ASSUME TypeInv, MergeInv, Accept
  PROVE  MergeInv'
<1> DEFINE f == job.file
<1>1. PICK o \in pending :
        /\ Candidate(o) /\ Refusal(o, LenientRange(f, o)) = "none"
        /\ claimed' = claimed \cup {LenientRange(f, o)}
        /\ entries' = Append(entries, Scanned(f, o))
  BY DEF Accept
<1> DEFINE new == Scanned(f, o)
<1>2. IsFile(f) /\ HasLocal(f, o) /\ entries \in Seq(Entries)
  BY FileType DEF TypeInv, TypeOK
<1>3. new \in Entries /\ new.off = o /\ ~new.central
  BY <1>2, ScannedType
<1>4. /\ LenientRange(f, o) # NoRange
      /\ \A r \in claimed : ~Overlapping(LenientRange(f, o), r)
  BY <1>1 DEF Refusal
<1>5. RangeOf(new) = LenientRange(f, o)
  BY <1>3 DEF RangeOf
<1> HIDE DEF new
<1>6. phase = "merge" /\ job' = job /\ phase' = "merge"
  BY <1>1 DEF Accept, Candidate
<1>7. \A e : RangeOf(e)' = RangeOf(e)
  BY <1>6 DEF RangeOf
<1>8. \A i \in DOMAIN entries :
        /\ RangeOf(entries[i]) # NoRange => RangeOf(entries[i]) \in claimed
        /\ ~entries[i].central => RangeOf(entries[i]) # NoRange
  BY <1>6 DEF MergeInv
<1>9. ASSUME NEW k \in DOMAIN entries'
      PROVE  entries'[k] = new \/ \E i \in DOMAIN entries : entries'[k] = entries[i]
  BY <1>1, <1>2 DEF new
<1>10. ASSUME NEW k \in DOMAIN entries'
       PROVE  /\ RangeOf(entries'[k]) # NoRange => RangeOf(entries'[k]) \in claimed'
              /\ ~entries'[k].central => RangeOf(entries'[k]) # NoRange
  BY <1>1, <1>4, <1>5, <1>8, <1>9
<1>11. ASSUME NEW k \in DOMAIN entries', NEW l \in DOMAIN entries',
              ~entries'[k].central, entries'[k] # entries'[l], RangeOf(entries'[l]) # NoRange
       PROVE  ~Overlapping(RangeOf(entries'[k]), RangeOf(entries'[l]))
  <2>1. CASE entries'[k] = new
    <3>1. RangeOf(entries'[l]) \in claimed
      BY <1>8, <1>9, <1>11, <2>1
    <3> QED BY <1>4, <1>5, <2>1, <3>1
  <2>2. CASE entries'[l] = new
    <3>1. RangeOf(entries'[k]) \in claimed
      BY <1>8, <1>9, <1>11, <2>2
    <3>2. ~Overlapping(RangeOf(new), RangeOf(entries'[k]))
      BY <1>4, <1>5, <3>1
    <3> QED BY <2>2, <3>2 DEF Overlapping
  <2>3. CASE entries'[k] # new /\ entries'[l] # new
    <3>1. PICK i \in DOMAIN entries : entries'[k] = entries[i]
      BY <1>9, <2>3
    <3>2. PICK j \in DOMAIN entries : entries'[l] = entries[j]
      BY <1>9, <2>3
    <3> QED BY <1>11, <3>1, <3>2 DEF MergeInv, ScanOnlyIsDisjoint
  <2> QED BY <2>1, <2>2, <2>3
<1>12. ScanOnlyIsDisjoint' =
         \A k, l \in DOMAIN entries' :
           ~entries'[k].central /\ entries'[k] # entries'[l] /\ RangeOf(entries'[l]) # NoRange
             => ~Overlapping(RangeOf(entries'[k]), RangeOf(entries'[l]))
  BY <1>6 DEF ScanOnlyIsDisjoint, RangeOf
<1>13. \A k \in DOMAIN entries' : RangeOf(entries[k])' = RangeOf(entries'[k])
  BY <1>6 DEF RangeOf
<1> QED BY <1>10, <1>11, <1>12, <1>13 DEF MergeInv

\* Every other step only keeps, reorders or reads the entries.
LEMMA MergeNext == TypeInv /\ TypeInv' /\ MergeInv /\ [Next]_vars => MergeInv'
<1> SUFFICES ASSUME TypeInv, TypeInv', MergeInv, [Next]_vars PROVE MergeInv'
  OBVIOUS
<1>1. CASE FindContainers \/ ReadDirectory \/ AdoptSurviving \/ NoSurvivor \/ Repoint
  <2>1. Reading' /\ phase' # "merge"
    BY <1>1 DEF FindContainers, ReadDirectory, AdoptSurviving, NoSurvivor, Repoint, Reading
  <2>2. (TypeInv /\ Reading => ScanOnlyIsDisjoint)'
    BY RecordsAreDisjoint, PTL
  <2> QED BY <2>1, <2>2 DEF MergeInv
<1>2. CASE StartMerge
  BY <1>2, MergeStarts
<1>3. CASE Accept
  BY <1>3, MergeAccepts
<1>4. CASE FinishMerge
  <2>1. PICK order \in [DOMAIN entries -> DOMAIN entries] :
          entries' = [k \in DOMAIN entries |-> entries[order[k]]]
    BY <1>4 DEF FinishMerge, Sorts
  <2>2. \A k \in DOMAIN entries' : \E i \in DOMAIN entries : entries'[k] = entries[i]
    BY <2>1
  <2>3. job' = job /\ phase' # "merge"
    BY <1>4 DEF FinishMerge
  <2> QED BY <2>2, <2>3, DisjointStable DEF MergeInv
<1>5. CASE Directly \/ Refuse \/ Emit \/ Skip \/ Finish \/ Terminated \/ UNCHANGED vars
  <2>1. UNCHANGED <<job, entries, claimed>> /\ (phase' = "merge" => phase = "merge")
    BY <1>5 DEF Directly, Refuse, Emit, Emitting, Skip, Finish, Terminated, vars, parseVars, mergeVars, emitVars
  <2>2. ScanOnlyIsDisjoint'
    BY <2>1, DisjointStable DEF MergeInv
  <2>3. \A k \in DOMAIN entries : RangeOf(entries[k])' = RangeOf(entries[k])
    BY <2>1 DEF RangeOf
  <2> QED BY <2>1, <2>2, <2>3 DEF MergeInv
<1> QED BY <1>1, <1>2, <1>3, <1>4, <1>5 DEF Next

\* An entry that only the scan found never shares a byte with another entry of the
\* result (the range guards of reconcile_cd_and_scan).
THEOREM DisjointTheorem == Spec => []ScanOnlyIsDisjoint
<1>1. TypeInv /\ [Next]_vars => TypeInv'
  BY TypeReading, TypeMerging, TypeEmitting DEF Next
<1>2. Init => MergeInv
  <2>1. Init => Reading /\ phase # "merge"
    BY DEF Init, Reading
  <2> QED BY <2>1, TypeInit, RecordsAreDisjoint DEF MergeInv
<1>3. MergeInv => ScanOnlyIsDisjoint
  BY DEF MergeInv
<1> QED BY TypeInit, <1>1, <1>2, <1>3, MergeNext, PTL DEF Spec

-----------------------------------------------------------------------------
\* What is handed out.

\* Nothing is handed out before the emission begins; every name that was handed out
\* is taken; and what was handed out passed every check.
EmitInv ==
  /\ emitted \in Seq({[path |-> SafePath(e.name), bytes |-> e.crc, entry |-> e] : e \in Entries})
  /\ phase \notin {"emit", "done"} => emitted = << >>
  /\ \A i \in DOMAIN emitted : PathKey(emitted[i].entry.name) \in names
  /\ EmissionIsBacked

\* Nothing is handed out at first.
LEMMA EmitInit == Init => EmitInv
BY LimitsAssumption DEF Init, EmitInv, EmissionIsBacked

\* What is handed out was checked against everything that was handed out before.
LEMMA EmitAppends ==
  ASSUME TypeInv, EmitInv, Emit, emitted' # emitted
  PROVE  EmitInv'
<1> DEFINE e == Head(todo)
           x == Extracted(job.file, e)
           m == [path |-> SafePath(e.name), bytes |-> x.bytes, entry |-> e]
           n == Len(emitted)
<1>1. e \in Entries
  BY DEF Emit, Emitting, TypeInv, TypeOK
<1>2. /\ Abstention(e, x) = "none" /\ emitted' = Append(emitted, m)
      /\ names' = names \cup {PathKey(e.name)} /\ total' = total + Len(x.bytes)
      /\ phase = "emit" /\ UNCHANGED <<job, enumerates, phase>>
  BY DEF Emit, Emitting, parseVars
<1>3. /\ x.bytes = e.crc /\ Len(x.bytes) \in Nat
      /\ ~Unsafe(e.name) /\ PathKey(e.name) \notin names
      /\ ~(Len(x.bytes) > MaxEntryBytes) /\ ~(total + Len(x.bytes) > MaxTotalBytes)
      /\ x.bytes = << >> => Attested(e)
      /\ enumerates /\ Attests(job.provenance) => Attested(e)
  BY <1>1, <1>2, AbstentionFacts
<1> HIDE DEF e, x
<1>4. m \in {[path |-> SafePath(d.name), bytes |-> d.crc, entry |-> d] : d \in Entries}
  BY <1>1, <1>3
<1>5. m.bytes = x.bytes /\ m.entry = e
  OBVIOUS
<1> HIDE DEF m
<1>6. emitted' \in Seq({[path |-> SafePath(d.name), bytes |-> d.crc, entry |-> d] : d \in Entries})
  BY <1>2, <1>4 DEF EmitInv
<1>7. /\ n \in Nat /\ DOMAIN emitted = 1 .. n /\ DOMAIN emitted' = 1 .. n + 1
      /\ emitted'[n + 1] = m /\ \A i \in 1 .. n : emitted'[i] = emitted[i]
  BY <1>2, <1>4 DEF EmitInv
<1> HIDE DEF n
<1>8. \A i \in DOMAIN emitted' : \/ i \in DOMAIN emitted /\ emitted'[i] = emitted[i]
                                 \/ i = n + 1 /\ emitted'[i] = m
  BY <1>7
<1>9. /\ Attests(job.provenance)' = Attests(job.provenance)
      /\ \A i \in DOMAIN emitted' : Attested(emitted[i].entry)' = Attested(emitted'[i].entry)
      /\ \A d : Attested(d) => d.central
  BY <1>2 DEF Attested, Attests
<1>10. \A i \in DOMAIN emitted' : PathKey(emitted'[i].entry.name) \in names'
  BY <1>2, <1>5, <1>8 DEF EmitInv
<1>11. ASSUME NEW i \in DOMAIN emitted'
       PROVE  /\ emitted'[i].bytes = emitted'[i].entry.crc
              /\ Len(emitted'[i].bytes) <= MaxEntryBytes
              /\ ~Unsafe(emitted'[i].entry.name)
              /\ emitted'[i].bytes = << >> => Attested(emitted'[i].entry)
              /\ enumerates /\ Attests(job.provenance) => emitted'[i].entry.central
  <2>1. CASE i \in DOMAIN emitted /\ emitted'[i] = emitted[i]
    BY <1>2, <1>9, <2>1 DEF EmitInv, EmissionIsBacked
  <2>2. CASE emitted'[i] = m
    <3>1. Len(x.bytes) <= MaxEntryBytes
      BY <1>3, LimitsAssumption
    <3> QED BY <1>2, <1>3, <1>5, <1>9, <2>2, <3>1
  <2> QED BY <1>8, <2>1, <2>2
<1>12. ASSUME NEW i \in DOMAIN emitted', NEW j \in DOMAIN emitted',
              PathKey(emitted'[i].entry.name) = PathKey(emitted'[j].entry.name)
       PROVE  i = j
  BY <1>3, <1>5, <1>8, <1>12 DEF EmitInv, EmissionIsBacked
<1>13. total' <= MaxTotalBytes
  BY <1>2, <1>3, LimitsAssumption DEF TypeInv, TypeOK
<1> QED BY <1>2, <1>6, <1>9, <1>10, <1>11, <1>12, <1>13 DEF EmitInv, EmissionIsBacked

\* The other steps hand nothing out.
LEMMA EmitNext == TypeInv /\ EmitInv /\ [Next]_vars => EmitInv'
<1> SUFFICES ASSUME TypeInv, EmitInv, [Next]_vars, ~(Emit /\ emitted' # emitted) PROVE EmitInv'
  BY EmitAppends
<1>1. ASSUME emitted = << >>, emitted' = << >>, total' = total
      PROVE  EmitInv'
  BY <1>1 DEF EmitInv, EmissionIsBacked
<1>2. ASSUME UNCHANGED <<job, enumerates, emitted>>, names \subseteq names', total' <= MaxTotalBytes,
             phase' \in {phase, "emit", "done"}, phase \in {"emit", "done"} \/ emitted = << >>
      PROVE  EmitInv'
  <2>1. \A d : Attested(d)' = Attested(d)
    BY <1>2 DEF Attested
  <2> QED BY <1>2, <2>1 DEF EmitInv, EmissionIsBacked
<1>3. total <= MaxTotalBytes /\ (phase \notin {"emit", "done"} => emitted = << >>)
  BY DEF EmitInv, EmissionIsBacked
<1>4. CASE FindContainers \/ ReadDirectory \/ AdoptSurviving \/ NoSurvivor \/ Repoint \/ Directly \/ StartMerge
  BY <1>1, <1>3, <1>4
     DEF FindContainers, ReadDirectory, AdoptSurviving, NoSurvivor, Repoint, Directly, StartMerge, emitVars
<1>5. CASE Accept \/ Refuse \/ FinishMerge \/ Terminated \/ UNCHANGED vars \/ Finish \/ Skip
  BY <1>2, <1>3, <1>5
     DEF Accept, Refuse, Candidate, FinishMerge, Terminated, vars, Finish, Skip, Emitting, parseVars, mergeVars, emitVars
<1>6. CASE Emit
  <2>1. emitted' = emitted
    BY <1>6
  <2>2. total' <= MaxTotalBytes
    <3> DEFINE e == Head(todo)
               x == Extracted(job.file, e)
    <3>1. e \in Entries
      BY <1>6 DEF Emit, Emitting, TypeInv, TypeOK
    <3>2. Abstention(e, x) = "none" /\ total' = total + Len(x.bytes)
      BY <1>6 DEF Emit
    <3>3. Len(x.bytes) \in Nat /\ ~(total + Len(x.bytes) > MaxTotalBytes)
      BY <3>1, <3>2, AbstentionFacts
    <3> QED BY <3>2, <3>3, LimitsAssumption DEF TypeInv, TypeOK
  <2> QED BY <1>2, <1>6, <2>1, <2>2 DEF Emit, Emitting, parseVars
<1> QED BY <1>4, <1>5, <1>6 DEF Next

\* What is handed out is backed by the archive and stays within the limits
\* (recover_verified_entries_to).
THEOREM EmissionTheorem == Spec => []EmissionIsBacked
<1>1. TypeInv /\ [Next]_vars => TypeInv'
  BY TypeReading, TypeMerging, TypeEmitting DEF Next
<1>2. EmitInv => EmissionIsBacked
  BY DEF EmitInv
<1> QED BY TypeInit, EmitInit, <1>1, <1>2, EmitNext, PTL DEF Spec

-----------------------------------------------------------------------------
\* Reconciliation.

\* Records that are moved stay in the order in which they were.
LEMMA RepointOrder == TypeInv /\ Repoint => RepointKeepsOrder
<1> SUFFICES ASSUME TypeInv, Repoint,
                    NEW i \in DOMAIN entries, NEW j \in DOMAIN entries,
                    entries[i].off < entries[j].off, entries[j].off # Gone,
                    entries'[i].off # entries[i].off, entries'[j].off # entries[j].off
             PROVE  entries'[i].off < entries'[j].off
  BY DEF RepointKeepsOrder
<1> DEFINE f     == job.file
           index == IndexedHeaders(f)
           obs   == Observations(f, index, entries)
           K     == InferredMap(obs)
<1>1. /\ IsFile(f)
      /\ \A k \in DOMAIN entries : entries[k] \in RecordEntries
  BY FileType DEF Repoint, TypeInv, Reading
<1>2. \A k \in DOMAIN entries : entries[k] \in Entries /\ entries[k].off \in Nat /\ entries[k].off <= Gone
  <2>1. \A e \in RecordEntries : e \in Entries /\ e.off \in Nat /\ e.off <= Gone
    BY GoneFacts DEF RecordEntries
  <2> QED BY <1>1, <2>1
<1>3. entries[i].off \in Nat /\ entries[j].off \in Nat /\ entries[j].off < Gone
  BY <1>2, GoneFacts
<1>4. index \subseteq Nat
  BY <1>1, IndexType
<1> HIDE DEF index
<1>5. \A ob \in obs : ob.stored \in Nat /\ ob.physical \in Nat
  BY <1>2, <1>4, ObservationType
<1> HIDE DEF obs
<1>6. /\ \A ob \in K : ob.stored \in Nat /\ ob.physical \in Nat
      /\ \A a, b \in K : a.stored < b.stored => a.physical < b.physical
  BY <1>5, InferredInOrder
<1>7. entries' = [k \in DOMAIN entries |-> Repointed(f, index, K, entries[k])]
  BY DEF Repoint, index, obs
<1> HIDE DEF K
<1>8. ASSUME NEW k \in DOMAIN entries, entries'[k].off # entries[k].off
      PROVE  entries'[k].off \in Mapped(K, entries[k].off)
  <2>1. entries'[k] = Repointed(f, index, K, entries[k]) /\ entries'[k] # entries[k]
    BY <1>7, <1>8
  <2>2. PICK o \in Mapped(K, entries[k].off) : entries'[k] = [entries[k] EXCEPT !.off = o]
    BY <1>2, <2>1, RepointedTo
  <2>3. entries'[k].off = o
    BY <1>2, <2>2 DEF Entries
  <2> QED BY <2>3
<1>9. /\ entries'[i].off \in Mapped(K, entries[i].off)
      /\ entries'[j].off \in Mapped(K, entries[j].off)
  BY <1>8
<1> QED BY <1>3, <1>6, <1>9, MappedKeepsOrder

\* Reconciliation never makes two moved records cross, whatever offsets a damaged
\* directory holds and whatever headers the file has (OffsetMap::infer, OffsetMap::map).
THEOREM RepointTheorem == Spec => RepointingKeepsOrder
<1>1. TypeInv /\ [Next]_vars => TypeInv'
  BY TypeReading, TypeMerging, TypeEmitting DEF Next
<1>2. TypeInv => [Repoint => RepointKeepsOrder]_vars
  BY RepointOrder
<1> QED BY TypeInit, <1>1, <1>2, PTL DEF Spec, RepointingKeepsOrder

-----------------------------------------------------------------------------
\* The archive the file was.

\* Where the whole archive of a member lies, the file has its cells.
LEMMA InnerCells ==
  ASSUME job \in Jobs, NEW s, InnerAt(s)
  PROVE  LET f == job.file
             a == job.orig.inner
         IN  /\ IsArchive(a) /\ Len(a) \in Nat /\ Len(f) \in Nat /\ s \in Nat /\ s >= 1
             /\ s + Len(a) < Len(f)
             /\ \A o \in 0 .. Len(a) - 1 : f[s + o + 1] = a[o + 1] /\ Kind(f, s + o) = Kind(a, o)
<1> DEFINE f == job.file
           a == job.orig.inner
<1>1. IsArchive(a) /\ s \in 1 .. Len(f) - Len(a) - 1 /\ OccursAt(a, f, s)
  BY DEF InnerAt
<1>2. Len(a) \in Nat /\ Len(f) \in Nat
  <2>1. IsFile(a)
    BY <1>1 DEF IsArchive
  <2> HIDE DEF a
  <2> QED BY <2>1, FileType, GoneFacts DEF IsFile
<1>3. s \in Nat /\ s >= 1 /\ s + Len(a) < Len(f)
  <2>1. \A x, y \in Nat : \A z \in 1 .. x - y - 1 : z \in Nat /\ z >= 1 /\ z + y < x
    OBVIOUS
  <2> QED BY <1>1, <1>2, <2>1, Zenon
<1>4. ASSUME NEW o \in 0 .. Len(a) - 1
      PROVE  f[s + o + 1] = a[o + 1] /\ Kind(f, s + o) = Kind(a, o)
  <2>1. o + 1 \in 1 .. Len(a) /\ s + o + 1 = s + (o + 1) /\ s + o \in 0 .. Len(f) - 1
    BY <1>2, <1>3
  <2>2. f[s + o + 1] = a[o + 1]
    BY <1>1, <2>1 DEF OccursAt
  <2> QED BY <2>1, <2>2 DEF Kind
<1> QED BY <1>1, <1>2, <1>3, <1>4

\* Such an archive is found to be embedded: its end record leads to a directory whose
\* records are confirmed.
LEMMA InnerEmbeds ==
  ASSUME job \in Jobs, NEW s, InnerAt(s)
  PROVE  LET e == s + Len(job.orig.inner) - 1
         IN  e \in Ends(job.file) /\ Embeds(job.file, e) /\ BaseOf(job.file, e) = s
             /\ PastEnd(job.file, e) = s + Len(job.orig.inner)
<1> DEFINE f == job.file
           a == job.orig.inner
           n == Len(a)
           e == s + n - 1
           c == a[n]
           from == e - c.size
<1>1. /\ IsArchive(a) /\ n \in Nat /\ Len(f) \in Nat /\ s \in Nat /\ s >= 1 /\ s + n < Len(f)
      /\ \A o \in 0 .. n - 1 : f[s + o + 1] = a[o + 1] /\ Kind(f, s + o) = Kind(a, o)
  BY InnerCells
<1>2. IsFile(a) /\ Ends(a) = {n - 1}
  BY DEF IsArchive, InnerAt
<1>3. n - 1 \in 0 .. n - 1 /\ Kind(a, n - 1) = "end" /\ n - 1 + 1 = n
  BY <1>1, <1>2 DEF Ends
<1>4. /\ c.comment = 0 /\ c.total = c.size /\ c.off = n - 1 - c.size
      /\ Confirms(a, c.off, n - 1, 0)
  <2>1. /\ a[n - 1 + 1].comment = 0 /\ a[n - 1 + 1].total = a[n - 1 + 1].size
        /\ a[n - 1 + 1].off = n - 1 - a[n - 1 + 1].size
        /\ Confirms(a, a[n - 1 + 1].off, n - 1, 0)
    BY <1>1 DEF IsArchive
  <2> QED BY <1>3, <2>1
<1>5. c.size \in Nat /\ c.off \in Nat
  BY <1>2, <1>3, CellAt DEF IsCell
<1>6. c.off < n - 1 /\ c.size > 0
  BY <1>1, <1>4, <1>5 DEF Confirms
<1>7. f[e + 1] = c /\ e \in Ends(f) /\ e \in Nat
  <2>1. s + (n - 1) = e /\ s + (n - 1) + 1 = e + 1 /\ e \in 0 .. Len(f) - 1
    <3>1. \A x, y, z \in Nat : x >= 1 /\ x + y < z =>
            /\ x + (y - 1) = x + y - 1 /\ x + (y - 1) + 1 = x + y - 1 + 1
            /\ x + y - 1 \in 0 .. z - 1
      OBVIOUS
    <3> QED BY <1>1, <3>1, Zenon
  <2>3. f[s + (n - 1) + 1] = a[n - 1 + 1] /\ Kind(f, s + (n - 1)) = Kind(a, n - 1)
    BY <1>1, <1>3
  <2> HIDE DEF e
  <2>2. f[e + 1] = c /\ Kind(f, e) = "end"
    BY <1>3, <2>1, <2>3
  <2> QED BY <2>1, <2>2 DEF Ends
<1>8. from = s + c.off /\ from - c.off = s /\ from < e
  <2>1. \A x, y, z, w \in Nat : w = y - 1 - z /\ w < y - 1 =>
          /\ (x + y - 1) - z = x + w /\ ((x + y - 1) - z) - w = x /\ (x + y - 1) - z < x + y - 1
    OBVIOUS
  <2> HIDE DEF c, n
  <2> QED BY <1>1, <1>4, <1>5, <1>6, <2>1, Zenon
<1> HIDE DEF e, c, from, n
<1>9. ASSUME NEW o \in from .. e - 1
      PROVE  /\ Kind(f, o) = "central" /\ s + f[o + 1].off < from
             /\ NamedAt(f, s + f[o + 1].off, f[o + 1].meta.name)
  <2> DEFINE k == o - s
  <2>1. k \in c.off .. n - 1 - 1 /\ k \in 0 .. n - 1 /\ s + k = o /\ s + k + 1 = o + 1
    <3>1. s \in Nat /\ n \in Nat /\ c.off \in Nat /\ from = s + c.off /\ e = s + n - 1
      BY <1>1, <1>5, <1>8 DEF e
    <3>2. o \in Int /\ from <= o /\ o <= e - 1
      BY <3>1
    <3> QED BY <3>1, <3>2
  <2> HIDE DEF k
  <2>2. Kind(a, k) = "central" /\ 0 + a[k + 1].off < c.off /\ NamedAt(a, 0 + a[k + 1].off, a[k + 1].meta.name)
    BY <1>4, <2>1 DEF Confirms
  <2>3. f[o + 1] = a[k + 1] /\ Kind(f, o) = "central"
    BY <1>1, <2>1, <2>2
  <2>4. a[k + 1].off \in 0 .. n - 1 /\ a[k + 1].off \in Nat /\ a[k + 1].off < c.off
    BY <1>1, <1>2, <1>5, <1>6, <2>2, HeaderType, GoneFacts
  <2>5. f[s + a[k + 1].off + 1] = a[a[k + 1].off + 1] /\ Kind(f, s + a[k + 1].off) = Kind(a, a[k + 1].off)
    BY <1>1, <2>4
  <2>6. NamedAt(a, a[k + 1].off, a[k + 1].meta.name)
    BY <2>2, <2>4
  <2>7. NamedAt(f, s + a[k + 1].off, a[k + 1].meta.name)
    BY <2>5, <2>6 DEF NamedAt, HasLocal
  <2>8. s + a[k + 1].off < from
    <3>1. \A x, y, z \in Nat : y < z => x + y < x + z
      OBVIOUS
    <3>2. s \in Nat /\ c.off \in Nat /\ from = s + c.off
      BY <1>1, <1>5, <1>8
    <3> QED BY <2>4, <3>1, <3>2, Zenon
  <2> QED BY <2>3, <2>7, <2>8
<1>10. Confirms(f, from, e, s)
  BY <1>8, <1>9 DEF Confirms
<1>11. BaseOf(f, e) = s
  <2>1. from - f[e + 1].off = s /\ e - f[e + 1].size = from /\ s > 0
    BY <1>1, <1>7, <1>8 DEF from
  <2> QED BY <1>10, <2>1 DEF BaseOf
<1>12. Kind(f, from) = "central" /\ s \in 1 .. from - 1
  <2>1. from \in from .. e - 1
    BY <1>1, <1>5, <1>7, <1>8
  <2>2. Kind(f, from) = "central" /\ s + f[from + 1].off < from
    BY <1>9, <2>1
  <2>3. f[from + 1].off \in Nat
    BY <2>2, HeaderType, FileType, GoneFacts
  <2>4. \A x, y, z \in Nat : x >= 1 /\ x + y < z => x \in 1 .. z - 1
    OBVIOUS
  <2>5. s \in Nat /\ s >= 1
    BY <1>1
  <2>6. from \in Nat
    BY <1>5, <1>8, <2>5
  <2> QED BY <2>2, <2>3, <2>4, <2>5, <2>6, Zenon
<1>13. PastEnd(f, e) = s + n
  BY <1>1, <1>4, <1>7 DEF PastEnd, e
<1>14. Embeds(f, e)
  <2>1. e - f[e + 1].size = from
    BY <1>7 DEF from
  <2> QED BY <1>1, <1>4, <1>5, <1>6, <1>7, <1>11, <1>12, <1>13, <2>1 DEF Embeds
<1> QED BY <1>7, <1>11, <1>13, <1>14 DEF e, n

\* Of the archives with its base it is the narrowest, so it is a container.
LEMMA InnerIsContainer ==
  ASSUME job \in Jobs, NEW s, InnerAt(s)
  PROVE  <<s, s + Len(job.orig.inner)>> \in Containers(job.file)
<1> DEFINE f == job.file
           a == job.orig.inner
           n == Len(a)
           e == s + n - 1
<1>1. e \in Ends(f) /\ Embeds(f, e) /\ BaseOf(f, e) = s /\ PastEnd(f, e) = s + n
  BY InnerEmbeds
<1>2. <<s, s + n>> \in Validated(f)
  BY <1>1 DEF Validated
<1>3. /\ IsArchive(a) /\ n \in Nat /\ Len(f) \in Nat /\ s \in Nat /\ s >= 1 /\ s + n < Len(f)
      /\ \A o \in 0 .. n - 1 : f[s + o + 1] = a[o + 1] /\ Kind(f, s + o) = Kind(a, o)
  BY InnerCells
<1>4. IsFile(a) /\ Ends(a) = {n - 1}
  BY DEF IsArchive, InnerAt
<1> HIDE DEF n
<1>5. ASSUME NEW x \in Ends(f), Embeds(f, x), BaseOf(f, x) = s
      PROVE  s + n <= PastEnd(f, x)
  <2>1. x \in 0 .. Len(f) - 1 /\ Kind(f, x) = "end"
    BY DEF Ends
  <2>2. f[x + 1].size \in Nat /\ f[x + 1].comment \in Nat
    BY <2>1, FileType, CellAt DEF IsCell
  <2>3. s \in 1 .. x - f[x + 1].size - 1
    BY <1>5 DEF Embeds
  <2>4. s < x /\ x \in Nat
    BY <1>3, <2>1, <2>2, <2>3
  <2>5. x >= s + n - 1
    <3> SUFFICES ASSUME x < s + n - 1 PROVE FALSE
      BY <1>3, <2>4
    <3> DEFINE k == x - s
    <3>1. k \in 0 .. n - 1 /\ s + k = x /\ k # n - 1
      BY <1>3, <2>4
    <3>2. Kind(a, k) = "end"
      BY <1>3, <2>1, <3>1
    <3>3. k \in Ends(a)
      BY <3>1, <3>2 DEF Ends, n
    <3> QED BY <1>4, <3>1, <3>3
  <2> QED BY <1>3, <2>1, <2>2, <2>4, <2>5 DEF PastEnd
<1>6. ASSUME NEW d \in Validated(f), d[1] = s
      PROVE  s + n <= d[2]
  <2>1. PICK x \in Ends(f) : Embeds(f, x) /\ d = <<BaseOf(f, x), PastEnd(f, x)>>
    BY DEF Validated
  <2> QED BY <1>5, <1>6, <2>1
<1> QED BY <1>2, <1>6 DEF Containers, n

\* What lies inside is owned.
LEMMA InsideIsOwned ==
  ASSUME job \in Jobs, NEW o, InsideInner(o)
  PROVE  Owned(Containers(job.file), o)
<1>1. PICK s \in 1 .. Len(job.file) : InnerAt(s) /\ Within(o, <<s, s + Len(job.orig.inner)>>)
  BY DEF InsideInner
<1> QED BY <1>1, InnerIsContainer DEF Owned

\* A run of records that begins outside stays outside: the archive inside begins with a
\* header.
LEMMA RecordsStayOutside ==
  ASSUME job \in Jobs, NEW from \in Nat, ~InsideInner(from),
         NEW o \in Nat, from <= o, \A q \in from .. o : Kind(job.file, q) = "central"
  PROVE  ~InsideInner(o)
<1> DEFINE a == job.orig.inner
<1> SUFFICES ASSUME InsideInner(o) PROVE FALSE
  OBVIOUS
<1>1. PICK s \in 1 .. Len(job.file) : InnerAt(s) /\ Within(o, <<s, s + Len(a)>>)
  BY DEF InsideInner
<1>2. /\ IsArchive(a) /\ Len(a) \in Nat /\ s \in Nat
      /\ \A k \in 0 .. Len(a) - 1 : Kind(job.file, s + k) = Kind(a, k)
  BY <1>1, InnerCells
<1>3. s <= o /\ o < s + Len(a)
  BY <1>1 DEF Within
<1>4. Kind(a, 0) = "local" /\ 0 \in 0 .. Len(a) - 1
  BY <1>2 DEF IsArchive, HasLocal, Kind
<1>5. Kind(job.file, s) = "local"
  <2>1. s + 0 = s
    BY <1>2
  <2> QED BY <1>2, <1>4, <2>1
<1>6. from > s
  BY <1>2, <1>3, <1>5
<1>7. Within(from, <<s, s + Len(a)>>)
  BY <1>2, <1>3, <1>6 DEF Within
<1> QED BY <1>1, <1>7 DEF InsideInner

-----------------------------------------------------------------------------
\* Where an entry has its word from.

\* A record, or for an entry of the scan a header, outside of the archive inside that
\* says the entry's name, if it can be read at all, and checksum.
Backed(e) ==
  \E o \in 0 .. Len(job.file) - 1 :
    /\ Kind(job.file, o) = IF e.central THEN "central" ELSE "local"
    /\ ~InsideInner(o)
    /\ e.utf8 => e.name = job.file[o + 1].meta.name
    /\ e.crc = job.file[o + 1].meta.crc

\* A name that is UTF-8 is decoded to itself.
LEMMA DecodedName ==
  ASSUME NEW name \in Seq(Parts), ~NotUtf8(name)
  PROVE  Lossy(name) = name
<1>1. Len(name) \in Nat /\ name \in [1 .. Len(name) -> Parts] /\ DOMAIN name = 1 .. Len(name)
  OBVIOUS
<1>2. \A i \in DOMAIN name : name[i] # "xff"
  BY DEF NotUtf8
<1>3. Lossy(name) = [i \in DOMAIN name |-> name[i]]
  BY <1>2 DEF Lossy
<1> QED BY <1>1, <1>3

\* What an entry takes over from a header or a record.
LEMMA EntryTells ==
  ASSUME NEW meta \in Metas, NEW off, NEW central \in BOOLEAN
  PROVE  /\ Entry(meta, off, central).crc = meta.crc
         /\ Entry(meta, off, central).utf8 => Entry(meta, off, central).name = meta.name
<1>1. meta.name \in Seq(Parts)
  BY DEF Metas
<1>2. ~NotUtf8(meta.name) => Lossy(meta.name) = meta.name
  BY <1>1, DecodedName
<1> QED BY <1>2 DEF Entry

\* An entry is backed by the record it was read of,
LEMMA RecordBacked ==
  ASSUME job \in Jobs, NEW o, Kind(job.file, o) = "central", ~InsideInner(o), NEW off
  PROVE  Backed(Entry(job.file[o + 1].meta, off, TRUE))
<1> DEFINE e == Entry(job.file[o + 1].meta, off, TRUE)
<1>1. IsFile(job.file)
  BY FileType
<1>2. o \in 0 .. Len(job.file) - 1 /\ job.file[o + 1].meta \in Metas
  BY <1>1, CellAt, HeaderType
<1>3. e.central = TRUE /\ e.crc = job.file[o + 1].meta.crc /\ (e.utf8 => e.name = job.file[o + 1].meta.name)
  <2>1. e.central = TRUE
    BY DEF Entry
  <2> QED BY <1>2, <2>1, EntryTells
<1> HIDE DEF e
<1> QED BY <1>2, <1>3 DEF Backed, e

\* and one of the scan by its header.
LEMMA HeaderBacked ==
  ASSUME job \in Jobs, NEW o, HasLocal(job.file, o), ~InsideInner(o)
  PROVE  Backed(Scanned(job.file, o))
<1> DEFINE c == job.file[o + 1]
           e == Entry(c.meta, o, FALSE)
           d == Scanned(job.file, o)
<1>1. IsFile(job.file) /\ Kind(job.file, o) = "local"
  BY FileType DEF HasLocal
<1>2. o \in 0 .. Len(job.file) - 1 /\ c.meta \in Metas /\ o \in Nat
  BY <1>1, CellAt, HeaderType
<1>3. e.central = FALSE /\ e.crc = c.meta.crc /\ (e.utf8 => e.name = c.meta.name) /\ e \in Entries
  <2>1. e.crc = c.meta.crc /\ (e.utf8 => e.name = c.meta.name)
    BY <1>2, EntryTells
  <2> QED BY <1>2, <2>1, EntryType
<1>4. d = e \/ d = [e EXCEPT !.name = << >>, !.utf8 = FALSE]
  BY DEF Scanned
<1> HIDE DEF c, e, d
<1>5. d.central = FALSE /\ d.crc = c.meta.crc /\ (d.utf8 => d.name = c.meta.name)
  BY <1>3, <1>4 DEF Entries
<1> QED BY <1>1, <1>2, <1>5 DEF Backed, c, d

\* An offset that is corrected does not change that.
LEMMA MovedBacked ==
  ASSUME NEW e \in Entries, Backed(e), NEW off
  PROVE  Backed([e EXCEPT !.off = off])
<1> DEFINE d == [e EXCEPT !.off = off]
<1>1. d.central = e.central /\ d.utf8 = e.utf8 /\ d.name = e.name /\ d.crc = e.crc
  BY DEF Entries
<1> HIDE DEF d
<1> QED BY <1>1 DEF Backed, d

\* A walk that begins outside reads only records outside.
LEMMA WalkBacked ==
  ASSUME job \in Jobs, NEW from \in Nat, NEW to \in Int, ~InsideInner(from)
  PROVE  \A i \in DOMAIN WalkDirectory(job.file, from, to) : Backed(WalkDirectory(job.file, from, to)[i])
<1> DEFINE f == job.file
           k == Cardinality(RecordsIn(f, from, to))
           w == WalkDirectory(f, from, to)
<1>1. k \in Nat /\ \A i \in 1 .. k : from + i - 1 \in RecordsIn(f, from, to)
  BY RecordsAreFirst
<1>2. w = [i \in 1 .. k |-> Entry(f[from + i].meta, f[from + i].off, TRUE)]
  BY DEF WalkDirectory
<1> HIDE DEF k, w
<1>3. ASSUME NEW i \in 1 .. k
      PROVE  Backed(w[i])
  <2> DEFINE o == from + i - 1
  <2>1. o \in RecordsIn(f, from, to)
    BY <1>1
  <2>2. o \in Nat /\ from <= o /\ o + 1 = from + i
    BY <1>1
  <2>3. \A q \in from .. o : Kind(f, q) = "central"
    BY <2>1, FirstOfSubset DEF RecordsIn
  <2> HIDE DEF o
  <2>4. Kind(f, o) = "central" /\ ~InsideInner(o)
    <3>1. o \in from .. o
      BY <2>2
    <3> QED BY <2>2, <2>3, <3>1, RecordsStayOutside
  <2>5. Backed(Entry(f[o + 1].meta, f[from + i].off, TRUE))
    BY <2>4, RecordBacked
  <2> QED BY <1>2, <2>2, <2>5
<1> QED BY <1>2, <1>3 DEF w

\* What was found to be embedded is known from the start, and every entry has its word
\* from outside of it; what is handed out could be read as a name.
BackedInv ==
  /\ phase # "containers" => containers = Containers(job.file)
  /\ \A i \in DOMAIN entries : Backed(entries[i])
  /\ \A i \in DOMAIN todo : Backed(todo[i])
  /\ \A i \in DOMAIN emitted : Backed(emitted[i].entry) /\ emitted[i].entry.utf8

\* Steps that only keep, reorder or take away entries.
LEMMA BackedStable ==
  ASSUME BackedInv, job' = job, phase # "containers", containers' = containers,
         \A k \in DOMAIN entries' : \E i \in DOMAIN entries : entries'[k] = entries[i],
         \/ \A k \in DOMAIN todo' : \E i \in DOMAIN todo : todo'[k] = todo[i]
         \/ \A k \in DOMAIN todo' : \E i \in DOMAIN entries : todo'[k] = entries[i],
         emitted' = emitted
  PROVE  BackedInv'
<1>1. \A e : Backed(e)' = Backed(e)
  BY DEF Backed, InsideInner, InnerAt
<1>2. \A k \in DOMAIN entries' : Backed(entries'[k])
  BY DEF BackedInv
<1>3. \A k \in DOMAIN todo' : Backed(todo'[k])
  BY DEF BackedInv
<1>4. \A k \in DOMAIN emitted' : Backed(emitted'[k].entry) /\ emitted'[k].entry.utf8
  BY DEF BackedInv
<1>5. /\ \A k \in DOMAIN entries' : Backed(entries[k])' = Backed(entries'[k])
      /\ \A k \in DOMAIN todo' : Backed(todo[k])' = Backed(todo'[k])
      /\ \A k \in DOMAIN emitted' : Backed(emitted[k].entry)' = Backed(emitted'[k].entry)
  BY DEF Backed, InsideInner, InnerAt
<1>6. containers' = Containers(job.file)'
  BY DEF BackedInv
<1> QED BY <1>2, <1>3, <1>4, <1>5, <1>6 DEF BackedInv

\* The directory is read, found or corrected.
LEMMA BackedReading ==
  ASSUME TypeInv, BackedInv,
         FindContainers \/ ReadDirectory \/ AdoptSurviving \/ NoSurvivor \/ Repoint
  PROVE  BackedInv'
<1> DEFINE f == job.file
<1>1. job \in Jobs /\ IsFile(f)
  BY FileType DEF TypeInv
<1>2. /\ UNCHANGED <<job, todo, emitted>> /\ phase' # "containers"
      /\ containers' = Containers(f)
  BY DEF FindContainers, ReadDirectory, AdoptSurviving, NoSurvivor, Repoint, parseVars, mergeVars, emitVars, BackedInv
<1>3. SUFFICES \A k \in DOMAIN entries' : Backed(entries'[k])
  <2>1. /\ \A k \in DOMAIN entries' : Backed(entries[k])' = Backed(entries'[k])
        /\ \A k \in DOMAIN todo' : Backed(todo[k])' = Backed(todo[k])
        /\ \A k \in DOMAIN emitted' : Backed(emitted[k].entry)' = Backed(emitted[k].entry)
    BY <1>2 DEF Backed, InsideInner, InnerAt
  <2>2. containers' = Containers(job.file)'
    BY <1>2
  <2>3. /\ \A k \in DOMAIN todo : Backed(todo[k])
        /\ \A k \in DOMAIN emitted : Backed(emitted[k].entry) /\ emitted[k].entry.utf8
    BY DEF BackedInv
  <2> QED BY <1>2, <1>3, <2>1, <2>2, <2>3 DEF BackedInv
<1>4. CASE FindContainers \/ NoSurvivor
  BY <1>4 DEF FindContainers, NoSurvivor, parseVars, BackedInv
<1>5. CASE ReadDirectory
  <2> DEFINE start == DirectoryStart(f, FindEocd(f))
             past  == DirectoryPast(f, FindEocd(f), start)
  <2>1. \/ entries' = << >>
        \/ HasEnd(f) /\ ~Owned(containers, start) /\ entries' = WalkDirectory(f, start, past)
    BY <1>5 DEF ReadDirectory
  <2>2. containers = Containers(f)
    BY <1>5 DEF ReadDirectory, BackedInv
  <2>3. HasEnd(f) => start \in Nat /\ past \in Int
    BY <1>1, EndFacts
  <2> HIDE DEF start, past
  <2>4. CASE entries' = << >>
    BY <2>4
  <2>5. CASE HasEnd(f) /\ ~Owned(containers, start) /\ entries' = WalkDirectory(f, start, past)
    <3>1. ~InsideInner(start)
      BY <1>1, <2>2, <2>5, InsideIsOwned
    <3> QED BY <1>1, <2>3, <2>5, <3>1, WalkBacked
  <2> QED BY <2>1, <2>4, <2>5
<1>6. CASE AdoptSurviving
  <2>1. PICK start \in SurvivingChains(f) :
          /\ ~Owned(containers, start)
          /\ \E delta \in Deltas(f, start) :
               entries' = Shifted(WalkDirectory(f, start, ChainEnd(f, start)), delta)
    BY <1>6 DEF AdoptSurviving
  <2>2. PICK delta \in Deltas(f, start) :
          entries' = Shifted(WalkDirectory(f, start, ChainEnd(f, start)), delta)
    BY <2>1
  <2> DEFINE w == WalkDirectory(f, start, ChainEnd(f, start))
  <2>3. start \in Nat /\ ChainEnd(f, start) \in Int
    BY <1>1, ChainFacts DEF SurvivingChains
  <2>4. ~InsideInner(start)
    BY <1>1, <1>6, <2>1, InsideIsOwned DEF AdoptSurviving, BackedInv
  <2>5. w \in Seq(StoredEntries) /\ \A i \in DOMAIN w : Backed(w[i])
    BY <1>1, <2>3, <2>4, WalkType, WalkBacked
  <2> HIDE DEF w
  <2>6. \A i \in DOMAIN w : w[i] \in Entries
    BY <2>5, StoredAreRecords
  <2>7. entries' = [i \in DOMAIN w |-> [w[i] EXCEPT !.off = IF @ + delta < 0 THEN Gone ELSE @ + delta]]
    BY <2>2 DEF Shifted, w
  <2>8. ASSUME NEW i \in DOMAIN w
        PROVE  Backed([w[i] EXCEPT !.off = IF @ + delta < 0 THEN Gone ELSE @ + delta])
    BY <2>5, <2>6, MovedBacked
  <2> QED BY <2>7, <2>8
<1>7. CASE Repoint
  <2> DEFINE index == IndexedHeaders(f)
             K     == InferredMap(Observations(f, index, entries))
  <2>1. entries' = [i \in DOMAIN entries |-> Repointed(f, index, K, entries[i])]
    BY <1>7 DEF Repoint
  <2>2. \A i \in DOMAIN entries : entries[i] \in Entries /\ Backed(entries[i])
    BY DEF TypeInv, TypeOK, BackedInv
  <2> HIDE DEF index, K
  <2>3. ASSUME NEW i \in DOMAIN entries
        PROVE  Backed(Repointed(f, index, K, entries[i]))
    BY <2>2, RepointedTo, MovedBacked
  <2> QED BY <2>1, <2>3
<1> QED BY <1>4, <1>5, <1>6, <1>7

\* Candidates join the records, and entries are handed out.
LEMMA BackedNext == TypeInv /\ EmitInv /\ BackedInv /\ [Next]_vars => BackedInv'
<1> SUFFICES ASSUME TypeInv, EmitInv, BackedInv, [Next]_vars PROVE BackedInv'
  OBVIOUS
<1> DEFINE f == job.file
<1>1. job \in Jobs /\ IsFile(f) /\ entries \in Seq(Entries) /\ todo \in Seq(Entries)
  BY FileType DEF TypeInv, TypeOK
<1>2. CASE FindContainers \/ ReadDirectory \/ AdoptSurviving \/ NoSurvivor \/ Repoint
  BY <1>2, BackedReading
<1>3. CASE StartMerge
  <2>1. \A k \in DOMAIN entries' : \E i \in DOMAIN entries : entries'[k] = entries[i]
    BY <1>1, <1>3, UnownedType DEF StartMerge
  <2> QED BY <1>3, <2>1, BackedStable DEF StartMerge, emitVars
<1>4. CASE FinishMerge
  <2>1. PICK order \in [DOMAIN entries -> DOMAIN entries] :
          entries' = [k \in DOMAIN entries |-> entries[order[k]]]
    BY <1>4 DEF FinishMerge, Sorts
  <2>2. \A k \in DOMAIN entries' : \E i \in DOMAIN entries : entries'[k] = entries[i]
    BY <2>1
  <2>3. todo' = entries' /\ job' = job /\ phase # "containers" /\ containers' = containers /\ emitted' = emitted
    BY <1>4 DEF FinishMerge
  <2> QED BY <2>2, <2>3, BackedStable
<1>5. CASE Directly \/ Refuse \/ Finish
  <2>1. /\ UNCHANGED <<job, containers, entries, emitted>> /\ todo' \in {todo, entries}
        /\ phase # "containers"
    BY <1>5 DEF Directly, Refuse, Candidate, Finish, parseVars, mergeVars, emitVars
  <2> QED BY <2>1, BackedStable
<1>6. CASE Skip \/ (Emit /\ emitted' = emitted)
  <2>1. /\ UNCHANGED <<job, containers, entries, emitted>> /\ todo' \in {todo, Tail(todo)} /\ todo # << >>
        /\ phase # "containers"
    BY <1>6 DEF Skip, Emit, Emitting, parseVars
  <2>2. \A k \in DOMAIN Tail(todo) : \E i \in DOMAIN todo : Tail(todo)[k] = todo[i]
    <3>1. \A k \in DOMAIN Tail(todo) : k + 1 \in DOMAIN todo /\ Tail(todo)[k] = todo[k + 1]
      BY <1>1, <2>1
    <3> QED BY <3>1
  <2> QED BY <2>1, <2>2, BackedStable
<1>7. CASE Terminated \/ UNCHANGED vars
  <2>1. UNCHANGED <<job, phase, containers, entries, todo, emitted>>
    BY <1>7 DEF Terminated, vars, parseVars, emitVars
  <2>2. \A e : Backed(e)' = Backed(e)
    BY <2>1 DEF Backed, InsideInner, InnerAt
  <2>3. /\ \A k \in DOMAIN entries : Backed(entries[k])' = Backed(entries[k])
        /\ \A k \in DOMAIN todo : Backed(todo[k])' = Backed(todo[k])
        /\ \A k \in DOMAIN emitted : Backed(emitted[k].entry)' = Backed(emitted[k].entry)
    BY <2>1 DEF Backed, InsideInner, InnerAt
  <2> QED BY <2>1, <2>3 DEF BackedInv
<1>8. CASE Accept
  <2>1. PICK o \in pending :
          /\ Candidate(o) /\ Refusal(o, LenientRange(f, o)) = "none"
          /\ entries' = Append(entries, Scanned(f, o))
    BY <1>8 DEF Accept
  <2>2. HasLocal(f, o) /\ phase = "merge"
    BY <2>1 DEF TypeInv, Candidate
  <2>3. ~Owned(containers, o)
    BY <2>1 DEF Refusal
  <2>4. ~InsideInner(o)
    BY <1>1, <2>2, <2>3, InsideIsOwned DEF BackedInv
  <2>5. Backed(Scanned(f, o)) /\ Scanned(f, o) \in Entries
    BY <1>1, <2>2, <2>4, HeaderBacked, ScannedType
  <2> DEFINE new == Scanned(f, o)
  <2> HIDE DEF new
  <2>6. \A k \in DOMAIN entries' : entries'[k] = new \/ \E i \in DOMAIN entries : entries'[k] = entries[i]
    BY <1>1, <2>1, <2>5 DEF new
  <2>7. \A k \in DOMAIN entries' : Backed(entries'[k])
    BY <2>5, <2>6 DEF BackedInv, new
  <2>8. UNCHANGED <<job, phase, containers, todo, emitted>>
    BY <1>8 DEF Accept, emitVars
  <2>9. /\ \A k \in DOMAIN entries' : Backed(entries[k])' = Backed(entries'[k])
        /\ \A k \in DOMAIN todo : Backed(todo[k])' = Backed(todo[k])
        /\ \A k \in DOMAIN emitted : Backed(emitted[k].entry)' = Backed(emitted[k].entry)
    BY <2>8 DEF Backed, InsideInner, InnerAt
  <2> QED BY <2>7, <2>8, <2>9 DEF BackedInv
<1>9. CASE Emit /\ emitted' # emitted
  <2> DEFINE e == Head(todo)
             m == [path |-> SafePath(e.name), bytes |-> Extracted(f, e).bytes, entry |-> e]
  <2>1. /\ emitted' = Append(emitted, m) /\ todo' = Tail(todo) /\ todo # << >>
        /\ UNCHANGED <<job, phase, containers, entries>>
        /\ Abstention(e, Extracted(f, e)) = "none" /\ phase = "emit"
    BY <1>9 DEF Emit, Emitting, parseVars
  <2>2. Backed(e) /\ e.utf8
    <3>1. 1 \in DOMAIN todo /\ e = todo[1]
      BY <1>1, <2>1
    <3>2. Backed(e)
      BY <3>1 DEF BackedInv
    <3> QED BY <2>1, <3>2 DEF Abstention
  <2>3. m.entry = e
    OBVIOUS
  <2> HIDE DEF e, m
  <2>4. \A k \in DOMAIN Tail(todo) : k + 1 \in DOMAIN todo /\ Tail(todo)[k] = todo[k + 1]
    BY <1>1, <2>1
  <2>5. \A k \in DOMAIN todo' : Backed(todo'[k])
    BY <2>1, <2>4 DEF BackedInv
  <2>6. \A k \in DOMAIN emitted' : emitted'[k] = m \/ (k \in DOMAIN emitted /\ emitted'[k] = emitted[k])
    BY <2>1 DEF EmitInv
  <2>7. \A k \in DOMAIN emitted' : Backed(emitted'[k].entry) /\ emitted'[k].entry.utf8
    BY <2>2, <2>3, <2>6 DEF BackedInv
  <2>8. /\ \A k \in DOMAIN entries : Backed(entries[k])' = Backed(entries[k])
        /\ \A k \in DOMAIN todo' : Backed(todo[k])' = Backed(todo'[k])
        /\ \A k \in DOMAIN emitted' : Backed(emitted[k].entry)' = Backed(emitted'[k].entry)
    BY <2>1 DEF Backed, InsideInner, InnerAt
  <2> QED BY <2>1, <2>5, <2>7, <2>8 DEF BackedInv
<1> QED BY <1>2, <1>3, <1>4, <1>5, <1>6, <1>7, <1>8, <1>9 DEF Next

\* At first there is no entry.
LEMMA BackedInit == Init => BackedInv
BY DEF Init, BackedInv

\* What is handed out is a safe form of its entry's name with the bytes the entry has
\* the checksum of.
LEMMA EmittedIs ==
  ASSUME EmitInv, NEW i \in DOMAIN emitted
  PROVE  /\ emitted[i].path = SafePath(emitted[i].entry.name)
         /\ emitted[i].bytes = emitted[i].entry.crc
<1>1. emitted[i] \in {[path |-> SafePath(e.name), bytes |-> e.crc, entry |-> e] : e \in Entries}
  BY DEF EmitInv
<1>2. PICK e \in Entries : emitted[i] = [path |-> SafePath(e.name), bytes |-> e.crc, entry |-> e]
  BY <1>1
<1> QED BY <1>2

\* A whole archive that is stored in a member of the file lends no name to what comes
\* out of it: the walks over records begin outside and cannot enter, since it begins
\* with a header, and a scanned header inside is refused (ContainerOwnershipMap).
THEOREM InnerTheorem == Spec => []InnerStaysInner
<1>1. TypeInv /\ [Next]_vars => TypeInv'
  BY TypeReading, TypeMerging, TypeEmitting DEF Next
<1>2. EmitInv /\ BackedInv => InnerStaysInner
  <2> SUFFICES ASSUME EmitInv, BackedInv, NEW i \in DOMAIN emitted
               PROVE  \E o \in 0 .. Len(job.file) - 1 :
                        /\ Kind(job.file, o) = IF emitted[i].entry.central THEN "central" ELSE "local"
                        /\ ~InsideInner(o)
                        /\ SafePath(job.file[o + 1].meta.name) = emitted[i].path
    BY DEF InnerStaysInner
  <2> DEFINE e == emitted[i].entry
  <2>1. Backed(e) /\ e.utf8 /\ emitted[i].path = SafePath(e.name)
    BY EmittedIs DEF BackedInv
  <2>2. PICK o \in 0 .. Len(job.file) - 1 :
          /\ Kind(job.file, o) = IF e.central THEN "central" ELSE "local"
          /\ ~InsideInner(o) /\ e.name = job.file[o + 1].meta.name
    BY <2>1 DEF Backed
  <2> QED BY <2>1, <2>2
<1> QED BY TypeInit, EmitInit, BackedInit, EmitNext, BackedNext, <1>1, <1>2, PTL DEF Spec

\* As long as damage gives no record another name or checksum, everything that is
\* handed out under the word of a record is a member of the archive the file was,
\* whatever else happened to it (parse_zip_with_policy, recover_verified_entries_to).
THEOREM AttestedTheorem == Spec => []AttestedIsGenuine
<1>1. TypeInv /\ [Next]_vars => TypeInv'
  BY TypeReading, TypeMerging, TypeEmitting DEF Next
<1>2. EmitInv /\ BackedInv => AttestedIsGenuine
  <2> SUFFICES ASSUME EmitInv, BackedInv, RecordsAreTrue,
                      NEW i \in DOMAIN emitted, emitted[i].entry.central
               PROVE  Of(emitted[i]) \in Members
    BY DEF AttestedIsGenuine
  <2> DEFINE e == emitted[i].entry
  <2>1. /\ Backed(e) /\ e.utf8 /\ e.central
        /\ emitted[i].path = SafePath(e.name) /\ emitted[i].bytes = e.crc
    BY EmittedIs DEF BackedInv
  <2>2. PICK o \in 0 .. Len(job.file) - 1 :
          /\ Kind(job.file, o) = "central" /\ ~InsideInner(o)
          /\ e.name = job.file[o + 1].meta.name /\ e.crc = job.file[o + 1].meta.crc
    BY <2>1 DEF Backed
  <2>3. PICK k \in DOMAIN job.orig.was : job.orig.was[k].name = e.name /\ job.orig.was[k].bytes = e.crc
    BY <2>2 DEF RecordsAreTrue
  <2> QED BY <2>1, <2>3 DEF Of, Members
<1> QED BY TypeInit, EmitInit, BackedInit, EmitNext, BackedNext, <1>1, <1>2, PTL DEF Spec

-----------------------------------------------------------------------------
\* A directory that is whole.

\* What a record says, if its name can be read, it says of a member.
Listed(e) ==
  e.central /\ e.utf8 =>
    \E k \in DOMAIN job.orig.was : job.orig.was[k].name = e.name /\ job.orig.was[k].bytes = e.crc

\* A whole directory is all that a walk over it reads.
LEMMA WholeRecords ==
  ASSUME NEW f, NEW from \in Nat, NEW n \in Nat, n <= MaxRecords,
         \A o \in from .. from + n - 1 : Kind(f, o) = "central"
  PROVE  Cardinality(RecordsIn(f, from, from + n)) = n
<1> DEFINE run == {o \in from .. from + n - 1 : \A q \in from .. o : Kind(f, q) = "central"}
<1>1. run = from .. from + n - 1
  OBVIOUS
<1>2. \A m \in Nat : IsFiniteSet(from .. from + m - 1) /\ Cardinality(from .. from + m - 1) = m
  <2> TAKE m \in Nat
  <2> DEFINE last == from + m - 1
  <2>1. from \in Int /\ last \in Int /\ (IF from > last THEN 0 = m ELSE last - from + 1 = m)
    OBVIOUS
  <2>2. IsFiniteSet(from .. last) /\ Cardinality(from .. last) = IF from > last THEN 0 ELSE last - from + 1
    BY <2>1, FS_Interval
  <2> QED BY <2>1, <2>2
<1>3. ASSUME NEW o \in run
      PROVE  Cardinality({p \in run : p < o}) < MaxRecords
  <2> DEFINE m == o - from
  <2>1. m \in Nat /\ m < n /\ from + m = o
    BY <1>1
  <2>2. {p \in run : p < o} = from .. from + m - 1
    BY <1>1, <2>1
  <2>3. Cardinality({p \in run : p < o}) = m
    BY <1>2, <2>1, <2>2
  <2> HIDE DEF run, m
  <2> QED BY <2>1, <2>3, PolicyAssumption
<1>4. FirstOf(MaxRecords, run) = run
  BY <1>3 DEF FirstOf
<1>5. RecordsIn(f, from, from + n) = run
  BY <1>4 DEF RecordsIn
<1> QED BY <1>1, <1>2, <1>5

\* A directory that ends the file has the end record that is found.
LEMMA EndFound ==
  ASSUME job \in Jobs, DirectoryWhole
  PROVE  LET f == job.file
             n == Len(job.orig.was)
         IN  /\ HasEnd(f) /\ FindEocd(f) = Len(f) - 1
             /\ f[Len(f)] = job.orig.directory[n + 1] /\ f[Len(f)].total = n
             /\ Kind(f, Len(f) - 1) = "end" /\ n \in Nat /\ FirstRecord = Len(f) - (n + 1)
<1> DEFINE f     == job.file
           n     == Len(job.orig.was)
           dir   == job.orig.directory
           from  == Len(f) - (n + 1)
           c     == dir[n + 1]
<1>1. n \in Nat /\ Len(dir) = n + 1 /\ c.kind = "end" /\ c.total = n
  BY OriginalsAssumption DEF IsOriginal
<1>2. Len(f) \in Nat /\ IsFile(f)
  BY FileType
<1>3. FirstRecord = from /\ from >= 0 /\ OccursAt(dir, f, from)
  BY <1>1 DEF DirectoryWhole, FirstRecord
<1> HIDE DEF n
<1>4. from \in Nat /\ from + (n + 1) = Len(f) /\ from < Len(f)
  <2>1. \A x, y \in Nat : x - (y + 1) >= 0 =>
          x - (y + 1) \in Nat /\ x - (y + 1) + (y + 1) = x /\ x - (y + 1) < x
    OBVIOUS
  <2> QED BY <1>1, <1>2, <1>3, <2>1, Zenon
<1>5. \A k \in 1 .. n + 1 : f[from + k] = dir[k]
  BY <1>1, <1>3 DEF OccursAt
<1> HIDE DEF from, c
<1>6. f[Len(f)] = c
  <2>1. n + 1 \in 1 .. n + 1
    BY <1>1
  <2>2. f[from + (n + 1)] = dir[n + 1]
    BY <1>5, <2>1, Zenon
  <2> QED BY <1>4, <2>2, Zenon DEF c
<1>7. Len(f) - 1 \in Ends(f)
  <2>1. Len(f) - 1 \in 0 .. Len(f) - 1 /\ Len(f) - 1 + 1 = Len(f)
    BY <1>2, <1>4
  <2> QED BY <1>1, <1>6, <2>1 DEF Ends, Kind
<1>8. FindEocd(f) = Len(f) - 1
  <2>1. Ends(f) \subseteq Nat /\ \A o \in Ends(f) : o <= Len(f) /\ o <= Len(f) - 1
    BY <1>2 DEF Ends
  <2>2. Largest(Ends(f)) \in Ends(f) /\ \A y \in Ends(f) : Largest(Ends(f)) >= y
    BY <1>2, <1>7, <2>1, LargestIn
  <2>3. Largest(Ends(f)) >= Len(f) - 1 /\ Largest(Ends(f)) <= Len(f) - 1 /\ Largest(Ends(f)) \in Nat
    BY <1>7, <2>1, <2>2
  <2> QED BY <1>2, <2>3 DEF FindEocd
<1> QED BY <1>1, <1>3, <1>6, <1>7, <1>8 DEF HasEnd, Ends, c, n, from

\* The end record at the end of the file leads to the directory before it.
LEMMA DirectoryFound ==
  ASSUME job \in Jobs, DirectoryThere
  PROVE  LET f     == job.file
             n     == Len(job.orig.was)
             start == DirectoryStart(f, FindEocd(f))
         IN  /\ HasEnd(f) /\ f[FindEocd(f) + 1].total = n
             /\ n \in Nat /\ n >= 1 /\ n <= MaxRecords
             /\ start \in Nat /\ DirectoryPast(f, FindEocd(f), start) = start + n
             /\ ~Owned(Containers(f), start)
             /\ \A i \in 1 .. n : f[start + i] = job.orig.directory[i] /\ Kind(f, start + i - 1) = "central"
<1> DEFINE f     == job.file
           n     == Len(job.orig.was)
           dir   == job.orig.directory
           from  == Len(f) - (n + 1)
           c     == dir[n + 1]
<1>1. /\ n \in Nat /\ Len(dir) = n + 1
      /\ \A i \in 1 .. n : dir[i].kind = "central"
      /\ c.kind = "end" /\ c.total = n /\ c.size = n
  BY OriginalsAssumption DEF IsOriginal
<1>2. n >= 1 /\ n <= MaxRecords /\ Len(f) \in Nat /\ IsFile(f)
  BY <1>1, FileType, PolicyAssumption DEF DirectoryThere, DirectoryWhole, FirstRecord
<1>3. /\ from >= 0 /\ OccursAt(dir, f, from) /\ ~Owned(Containers(f), from) /\ DirectoryWhole
      /\ Kind(f, f[Len(f)].off) = "central" => f[Len(f)].off = from
  BY <1>1 DEF DirectoryThere, DirectoryWhole, FirstRecord
<1> HIDE DEF n
<1>4. from \in Nat /\ from + (n + 1) = Len(f) /\ from < Len(f)
  <2>1. \A x, y \in Nat : x - (y + 1) >= 0 =>
          x - (y + 1) \in Nat /\ x - (y + 1) + (y + 1) = x /\ x - (y + 1) < x
    OBVIOUS
  <2> QED BY <1>1, <1>2, <1>3, <2>1, Zenon
<1>5. \A k \in 1 .. n + 1 : f[from + k] = dir[k]
  BY <1>1, <1>3 DEF OccursAt
<1>6. HasEnd(f) /\ FindEocd(f) = Len(f) - 1 /\ f[Len(f)] = c
  BY <1>3, EndFound DEF n
<1> HIDE DEF from, c
<1>9. HasEnd(f) /\ f[FindEocd(f) + 1] = c
  <2>1. Len(f) - 1 + 1 = Len(f)
    BY <1>2
  <2> QED BY <1>6, <2>1
<1>10. ASSUME NEW i \in 1 .. n
       PROVE  f[from + i] = dir[i] /\ Kind(f, from + i - 1) = "central"
  <2>1. i \in 1 .. n + 1 /\ from + i - 1 \in 0 .. Len(f) - 1 /\ from + i - 1 + 1 = from + i
    BY <1>1, <1>2, <1>4
  <2> QED BY <1>1, <1>5, <2>1 DEF Kind
<1>11. Kind(f, from) = "central"
  <2>1. 1 \in 1 .. n /\ from + 1 - 1 = from
    BY <1>1, <1>2, <1>4
  <2> QED BY <1>10, <2>1
<1>12. FindEocd(f) - f[FindEocd(f) + 1].size = from
  <2>1. \A x, y, z \in Nat : z + (y + 1) = x => x - 1 - y = z
    OBVIOUS
  <2>2. f[FindEocd(f) + 1].size = n
    BY <1>1, <1>9
  <2>3. Len(f) - 1 - n = from
    BY <1>1, <1>2, <1>4, <2>1
  <2> QED BY <1>6, <2>2, <2>3
<1>13. DirectoryStart(f, FindEocd(f)) = from
  <2>1. Kind(f, c.off) = "central" => c.off = from
    BY <1>3, <1>6
  <2> QED BY <1>9, <1>11, <1>12, <2>1 DEF DirectoryStart
<1>14. DirectoryPast(f, FindEocd(f), from) = from + n
  BY <1>1, <1>2, <1>4, <1>9 DEF DirectoryPast
<1> QED BY <1>1, <1>2, <1>3, <1>4, <1>9, <1>10, <1>13, <1>14 DEF n

\* What the directory says of a member, once it is read.
LEMMA RecordedFacts ==
  ASSUME job \in Jobs, DirectoryThere
  PROVE  LET dir == job.orig.directory
             was == job.orig.was
         IN  /\ Len(was) \in Nat /\ DOMAIN was = 1 .. Len(was) /\ DOMAIN Recorded = 1 .. Len(was)
             /\ \A k \in 1 .. Len(was) :
                  /\ dir[k].meta \in Metas /\ dir[k].off \in 0 .. Reach - 1
                  /\ Recorded[k] = Entry(dir[k].meta, dir[k].off, TRUE)
                  /\ Recorded[k] \in Entries /\ Recorded[k].off = dir[k].off
                  /\ Recorded[k].crc = was[k].bytes /\ Recorded[k].method = dir[k].meta.method
                  /\ Recorded[k].utf8 => Recorded[k].name = was[k].name
                  /\ ~NotUtf8(was[k].name) => Recorded[k].utf8
             /\ \A k, j \in 1 .. Len(was) : Recorded[k].off = Recorded[j].off => k = j
<1> DEFINE f     == job.file
           dir   == job.orig.directory
           was   == job.orig.was
           n     == Len(was)
           start == DirectoryStart(f, FindEocd(f))
<1>1. /\ n \in Nat /\ DOMAIN was = 1 .. n
      /\ \A i \in 1 .. n : dir[i].meta.name = was[i].name /\ dir[i].meta.crc = was[i].bytes
      /\ \A i, j \in 1 .. n : dir[i].off = dir[j].off => i = j
  BY OriginalsAssumption DEF IsOriginal
<1>2. start \in Nat /\ \A i \in 1 .. n : f[start + i] = dir[i] /\ Kind(f, start + i - 1) = "central"
  BY DirectoryFound
<1> HIDE DEF n, start
<1>3. \A k \in 1 .. n : Recorded[k] = Entry(dir[k].meta, dir[k].off, TRUE)
  BY DEF Recorded, n
<1>4. DOMAIN Recorded = 1 .. n
  BY DEF Recorded, n
<1> HIDE DEF dir, was
<1>5. ASSUME NEW k \in 1 .. n
      PROVE  /\ dir[k].meta \in Metas /\ dir[k].off \in 0 .. Reach - 1
             /\ Recorded[k] \in Entries /\ Recorded[k].off = dir[k].off
             /\ Recorded[k].crc = was[k].bytes /\ Recorded[k].method = dir[k].meta.method
             /\ Recorded[k].utf8 => Recorded[k].name = was[k].name
             /\ ~NotUtf8(was[k].name) => Recorded[k].utf8
  <2>1. dir[k].meta \in Metas /\ dir[k].off \in 0 .. Reach - 1
    <3>0. n \in Nat /\ start \in Nat
      BY <1>1, <1>2
    <3>1. start + k - 1 + 1 = start + k
      BY <3>0
    <3>2. Kind(f, start + k - 1) = "central"
      BY <1>2
    <3>3. f[start + k].meta \in Metas /\ f[start + k].off \in 0 .. Reach - 1
      BY <3>1, <3>2, HeaderType, FileType
    <3> QED BY <1>2, <3>3
  <2> DEFINE d == Entry(dir[k].meta, dir[k].off, TRUE)
  <2>2. d.crc = dir[k].meta.crc /\ (d.utf8 => d.name = dir[k].meta.name)
    BY <2>1, EntryTells
  <2>3. d \in Entries /\ d.off = dir[k].off
    <3>1. dir[k].off \in Nat
      BY <2>1, GoneFacts
    <3> QED BY <2>1, <3>1, EntryType
  <2>4. d.method = dir[k].meta.method /\ (~NotUtf8(dir[k].meta.name) => d.utf8)
    BY DEF Entry
  <2>5. Recorded[k] = d
    BY <1>3
  <2> HIDE DEF d
  <2> QED BY <1>1, <2>1, <2>2, <2>3, <2>4, <2>5
<1>6. \A k, j \in 1 .. n : Recorded[k].off = Recorded[j].off => k = j
  BY <1>1, <1>5
<1> QED BY <1>1, <1>3, <1>4, <1>5, <1>6 DEF n, dir, was

\* The walk over the whole directory reads it as it is.
LEMMA DirectoryRead ==
  ASSUME job \in Jobs, DirectoryThere
  PROVE  LET f     == job.file
             start == DirectoryStart(f, FindEocd(f))
         IN  WalkDirectory(f, start, DirectoryPast(f, FindEocd(f), start)) = Recorded
<1> DEFINE f     == job.file
           n     == Len(job.orig.was)
           dir   == job.orig.directory
           start == DirectoryStart(f, FindEocd(f))
<1>1. /\ n \in Nat /\ n <= MaxRecords /\ start \in Nat
      /\ DirectoryPast(f, FindEocd(f), start) = start + n
      /\ \A i \in 1 .. n : f[start + i] = dir[i] /\ Kind(f, start + i - 1) = "central"
  BY DirectoryFound
<1> HIDE DEF n, start
<1>2. Cardinality(RecordsIn(f, start, start + n)) = n
  <2>1. ASSUME NEW o \in start .. start + n - 1
        PROVE  Kind(f, o) = "central"
    <3> DEFINE i == o - start + 1
    <3>1. i \in 1 .. n /\ start + i - 1 = o
      BY <1>1
    <3> QED BY <1>1, <3>1
  <2> QED BY <1>1, <2>1, WholeRecords
<1>3. WalkDirectory(f, start, start + n) = [i \in 1 .. n |-> Entry(f[start + i].meta, f[start + i].off, TRUE)]
  BY <1>2 DEF WalkDirectory
<1>4. [i \in 1 .. n |-> Entry(f[start + i].meta, f[start + i].off, TRUE)]
        = [i \in 1 .. n |-> Entry(dir[i].meta, dir[i].off, TRUE)]
  BY <1>1
<1> QED BY <1>1, <1>3, <1>4 DEF Recorded, n, start

\* The entries read of it are as many as its end record counts, and each is a member's.
LEMMA DirectoryListed ==
  ASSUME job \in Jobs, DirectoryThere
  PROVE  LET f     == job.file
             start == DirectoryStart(f, FindEocd(f))
             w     == WalkDirectory(f, start, DirectoryPast(f, FindEocd(f), start))
         IN  /\ DOMAIN w = 1 .. Len(job.orig.was) /\ \A i \in DOMAIN w : Listed(w[i])
<1>1. /\ DOMAIN job.orig.was = 1 .. Len(job.orig.was) /\ DOMAIN Recorded = 1 .. Len(job.orig.was)
      /\ \A k \in 1 .. Len(job.orig.was) :
           /\ Recorded[k].crc = job.orig.was[k].bytes
           /\ Recorded[k].utf8 => Recorded[k].name = job.orig.was[k].name
  BY RecordedFacts
<1>2. \A k \in DOMAIN Recorded : Listed(Recorded[k])
  BY <1>1 DEF Listed
<1> QED BY <1>1, <1>2, DirectoryRead

\* With the directory whole the entries are all it lists until the merge, and from then
\* on it is known to be complete; no entry of a record is anything but a member.
ListedInv ==
  DirectoryThere =>
    /\ phase # "surviving"
    /\ phase # "containers" => containers = Containers(job.file)
    /\ phase \in {"repoint", "decide"} =>
         found /\ declared = Len(job.orig.was) /\ Len(entries) = Len(job.orig.was)
    /\ phase \in {"merge", "emit", "done"} => enumerates
    /\ \A i \in DOMAIN entries : Listed(entries[i])
    /\ \A i \in DOMAIN todo : Listed(todo[i])
    /\ \A i \in DOMAIN emitted : Listed(emitted[i].entry)

\* Steps that only keep, reorder or take away entries.
LEMMA ListedStable ==
  ASSUME ListedInv, DirectoryThere, job' = job, phase # "containers", containers' = containers,
         phase' \in {"merge", "emit", "done"}, enumerates',
         \A k \in DOMAIN entries' : Listed(entries'[k]) \/ \E i \in DOMAIN entries : entries'[k] = entries[i],
         \/ \A k \in DOMAIN todo' : \E i \in DOMAIN todo : todo'[k] = todo[i]
         \/ \A k \in DOMAIN todo' : \E i \in DOMAIN entries : todo'[k] = entries[i],
         \A k \in DOMAIN emitted' : \/ Listed(emitted'[k].entry)
                                    \/ k \in DOMAIN emitted /\ emitted'[k] = emitted[k]
  PROVE  ListedInv'
<1>1. \A k \in DOMAIN entries' : Listed(entries'[k])
  BY DEF ListedInv
<1>2. \A k \in DOMAIN todo' : Listed(todo'[k])
  BY DEF ListedInv
<1>3. \A k \in DOMAIN emitted' : Listed(emitted'[k].entry)
  BY DEF ListedInv
<1>4. /\ \A k \in DOMAIN entries' : Listed(entries[k])' = Listed(entries'[k])
      /\ \A k \in DOMAIN todo' : Listed(todo[k])' = Listed(todo'[k])
      /\ \A k \in DOMAIN emitted' : Listed(emitted[k].entry)' = Listed(emitted'[k].entry)
  BY DEF Listed
<1>5. containers' = Containers(job.file)'
  BY DEF ListedInv
<1> QED BY <1>1, <1>2, <1>3, <1>4, <1>5 DEF ListedInv

\* The whole directory is found where the end record leads, and corrected offsets
\* leave its word as it is.
LEMMA ListedReading ==
  ASSUME TypeInv, ListedInv, DirectoryThere,
         FindContainers \/ ReadDirectory \/ AdoptSurviving \/ NoSurvivor \/ Repoint
  PROVE  ListedInv'
<1> DEFINE f == job.file
           n == Len(job.orig.was)
<1>1. job \in Jobs /\ IsFile(f) /\ entries \in Seq(Entries)
  BY FileType DEF TypeInv, TypeOK
<1>2. UNCHANGED <<job, todo, emitted>> /\ containers' = Containers(f)
  BY DEF FindContainers, ReadDirectory, AdoptSurviving, NoSurvivor, Repoint, parseVars, mergeVars, emitVars, ListedInv
<1>3. SUFFICES /\ \A k \in DOMAIN entries' : Listed(entries'[k])
               /\ \/ phase' = "directory"
                  \/ phase' \in {"repoint", "decide"} /\ found' /\ declared' = n /\ Len(entries') = n
  <2>1. /\ \A k \in DOMAIN entries' : Listed(entries[k])' = Listed(entries'[k])
        /\ \A k \in DOMAIN todo' : Listed(todo[k])' = Listed(todo[k])
        /\ \A k \in DOMAIN emitted' : Listed(emitted[k].entry)' = Listed(emitted[k].entry)
    BY <1>2 DEF Listed
  <2>2. containers' = Containers(job.file)' /\ Len(job.orig.was)' = n
    BY <1>2
  <2>3. /\ \A k \in DOMAIN todo : Listed(todo[k])
        /\ \A k \in DOMAIN emitted : Listed(emitted[k].entry)
    BY DEF ListedInv
  <2> QED BY <1>2, <1>3, <2>1, <2>2, <2>3 DEF ListedInv
<1>4. CASE FindContainers
  BY <1>4 DEF FindContainers, ListedInv
<1>5. CASE ReadDirectory
  <2> DEFINE e     == FindEocd(f)
             start == DirectoryStart(f, e)
             past  == DirectoryPast(f, e, start)
             w     == WalkDirectory(f, start, past)
  <2>1. /\ HasEnd(f) /\ f[e + 1].total = n /\ n \in Nat /\ n >= 1
        /\ start \in Nat /\ past = start + n /\ ~Owned(Containers(f), start)
    BY <1>1, DirectoryFound
  <2>2. DOMAIN w = 1 .. n /\ \A i \in DOMAIN w : Listed(w[i])
    BY <1>1, DirectoryListed
  <2>3. w \in Seq(StoredEntries)
    BY <1>1, <2>1, WalkType
  <2>4. containers = Containers(f)
    BY <1>5 DEF ReadDirectory, ListedInv
  <2> HIDE DEF e, start, past, w, n
  <2>5. start < past
    BY <2>1
  <2>6. entries' = w /\ declared' = n /\ found' = (w # << >>) /\ phase' = IF w = << >> THEN "surviving" ELSE "repoint"
    BY <1>5, <2>1, <2>4, <2>5 DEF ReadDirectory, e, start, past, w
  <2>7. Len(w) = n /\ w # << >>
    <3>1. DOMAIN w = 1 .. Len(w) /\ Len(w) \in Nat
      BY <2>3
    <3>2. Len(w) = n
      BY <2>1, <2>2, <3>1
    <3> QED BY <2>1, <3>2
  <2> QED BY <2>2, <2>6, <2>7 DEF n
<1>6. CASE AdoptSurviving \/ NoSurvivor
  BY <1>6 DEF AdoptSurviving, NoSurvivor, ListedInv
<1>7. CASE Repoint
  <2> DEFINE index == IndexedHeaders(f)
             K     == InferredMap(Observations(f, index, entries))
  <2>1. /\ entries' = [i \in DOMAIN entries |-> Repointed(f, index, K, entries[i])]
        /\ phase' = "decide" /\ UNCHANGED <<declared, found>>
    BY <1>7 DEF Repoint
  <2>2. \A i \in DOMAIN entries : entries[i] \in Entries /\ Listed(entries[i])
    BY <1>1 DEF ListedInv
  <2> HIDE DEF index, K
  <2>3. ASSUME NEW i \in DOMAIN entries
        PROVE  Listed(Repointed(f, index, K, entries[i]))
    <3> DEFINE d == Repointed(f, index, K, entries[i])
    <3>1. d = entries[i] \/ \E o \in index \cap Mapped(K, entries[i].off) : d = [entries[i] EXCEPT !.off = o]
      BY <2>2, RepointedTo
    <3> HIDE DEF d
    <3>2. d.central = entries[i].central /\ d.utf8 = entries[i].utf8 /\ d.name = entries[i].name /\ d.crc = entries[i].crc
      BY <2>2, <3>1 DEF Entries
    <3> QED BY <2>2, <3>2 DEF Listed, d
  <2>4. Len(entries') = Len(entries)
    <3>1. entries \in Seq(Entries) /\ DOMAIN entries = 1 .. Len(entries) /\ Len(entries) \in Nat
      BY <1>1
    <3> QED BY <2>1, <3>1
  <2>5. found /\ declared = n /\ Len(entries) = n
    BY <1>7 DEF Repoint, ListedInv
  <2> QED BY <2>1, <2>3, <2>4, <2>5
<1> QED BY <1>4, <1>5, <1>6, <1>7

\* The merge and the emission keep it.
LEMMA ListedNext == TypeInv /\ EmitInv /\ ListedInv /\ [Next]_vars => ListedInv'
<1> SUFFICES ASSUME TypeInv, EmitInv, ListedInv, [Next]_vars, DirectoryThere PROVE ListedInv'
  <2>1. job' = job => (DirectoryThere' = DirectoryThere)
    BY DEF DirectoryThere, DirectoryWhole, FirstRecord
  <2>2. [Next]_vars => job' = job
    BY DEF Next, vars, FindContainers, ReadDirectory, AdoptSurviving, NoSurvivor, Repoint, Directly, StartMerge,
           Accept, Refuse, FinishMerge, Emit, Skip, Finish, Terminated
  <2> QED BY <2>1, <2>2 DEF ListedInv
<1> DEFINE f == job.file
<1>1. job \in Jobs /\ IsFile(f) /\ entries \in Seq(Entries) /\ todo \in Seq(Entries)
  BY FileType DEF TypeInv, TypeOK
<1>2. CASE FindContainers \/ ReadDirectory \/ AdoptSurviving \/ NoSurvivor \/ Repoint
  BY <1>2, ListedReading
<1>3. CASE StartMerge
  <2>1. \A k \in DOMAIN entries' : \E i \in DOMAIN entries : entries'[k] = entries[i]
    BY <1>1, <1>3, UnownedType DEF StartMerge
  <2>2. enumerates'
    BY <1>3 DEF StartMerge, ListedInv
  <2>3. phase' = "merge" /\ phase = "decide" /\ UNCHANGED <<job, containers, todo, emitted>>
    BY <1>3 DEF StartMerge, emitVars
  <2> QED BY <2>1, <2>2, <2>3, ListedStable
<1>4. CASE FinishMerge
  <2>1. PICK order \in [DOMAIN entries -> DOMAIN entries] :
          entries' = [k \in DOMAIN entries |-> entries[order[k]]]
    BY <1>4 DEF FinishMerge, Sorts
  <2>2. \A k \in DOMAIN entries' : \E i \in DOMAIN entries : entries'[k] = entries[i]
    BY <2>1
  <2>3. /\ todo' = entries' /\ job' = job /\ phase = "merge" /\ phase' = "emit"
        /\ containers' = containers /\ emitted' = emitted /\ enumerates' = enumerates
    BY <1>4 DEF FinishMerge
  <2>4. enumerates'
    BY <2>3 DEF ListedInv
  <2> QED BY <2>2, <2>3, <2>4, ListedStable
<1>5. CASE Directly \/ Refuse \/ Finish
  <2>1. /\ UNCHANGED <<job, containers, entries, emitted>> /\ todo' \in {todo, entries}
        /\ phase # "containers" /\ phase' \in {"merge", "emit", "done"}
        /\ (enumerates' = enumerates /\ phase \in {"merge", "emit"}) \/ enumerates' = TRUE
    BY <1>5 DEF Directly, Refuse, Candidate, Finish, parseVars, mergeVars, emitVars
  <2>2. enumerates'
    BY <2>1 DEF ListedInv
  <2> QED BY <2>1, <2>2, ListedStable
<1>6. CASE Skip \/ (Emit /\ emitted' = emitted)
  <2>1. /\ UNCHANGED <<job, containers, entries, emitted, enumerates>>
        /\ todo' \in {todo, Tail(todo)} /\ todo # << >>
        /\ phase = "emit" /\ phase' \in {"emit", "done"}
    BY <1>6 DEF Skip, Emit, Emitting, parseVars
  <2>2. \A k \in DOMAIN Tail(todo) : \E i \in DOMAIN todo : Tail(todo)[k] = todo[i]
    <3>1. \A k \in DOMAIN Tail(todo) : k + 1 \in DOMAIN todo /\ Tail(todo)[k] = todo[k + 1]
      BY <1>1, <2>1
    <3> QED BY <3>1
  <2>3. enumerates'
    BY <2>1 DEF ListedInv
  <2> QED BY <2>1, <2>2, <2>3, ListedStable
<1>7. CASE Terminated \/ UNCHANGED vars
  <2>1. UNCHANGED <<job, phase, containers, entries, todo, emitted, enumerates, found, declared>>
    BY <1>7 DEF Terminated, vars, parseVars, emitVars
  <2>2. /\ \A k \in DOMAIN entries : Listed(entries[k])' = Listed(entries[k])
        /\ \A k \in DOMAIN todo : Listed(todo[k])' = Listed(todo[k])
        /\ \A k \in DOMAIN emitted : Listed(emitted[k].entry)' = Listed(emitted[k].entry)
    BY <2>1 DEF Listed
  <2> QED BY <2>1, <2>2 DEF ListedInv
<1>8. CASE Accept
  <2>1. PICK o \in pending : Candidate(o) /\ entries' = Append(entries, Scanned(f, o))
    BY <1>8 DEF Accept
  <2>2. HasLocal(f, o) /\ phase = "merge"
    BY <2>1 DEF TypeInv, Candidate
  <2> DEFINE new == Scanned(f, o)
  <2>3. new \in Entries /\ new.central = FALSE
    BY <1>1, <2>2, ScannedType
  <2> HIDE DEF new
  <2>4. \A k \in DOMAIN entries' : entries'[k] = new \/ \E i \in DOMAIN entries : entries'[k] = entries[i]
    BY <1>1, <2>1, <2>3 DEF new
  <2>5. Listed(new)
    BY <2>3 DEF Listed
  <2>6. UNCHANGED <<job, phase, containers, todo, emitted, enumerates>>
    BY <1>8 DEF Accept, emitVars
  <2>7. enumerates'
    BY <2>2, <2>6 DEF ListedInv
  <2> QED BY <2>2, <2>4, <2>5, <2>6, <2>7, ListedStable
<1>9. CASE Emit /\ emitted' # emitted
  <2> DEFINE e == Head(todo)
             m == [path |-> SafePath(e.name), bytes |-> Extracted(f, e).bytes, entry |-> e]
  <2>1. /\ emitted' = Append(emitted, m) /\ todo' = Tail(todo) /\ todo # << >>
        /\ UNCHANGED <<job, phase, containers, entries, enumerates>> /\ phase = "emit"
    BY <1>9 DEF Emit, Emitting, parseVars
  <2>2. Listed(e)
    <3>1. 1 \in DOMAIN todo /\ e = todo[1]
      BY <1>1, <2>1
    <3> QED BY <3>1 DEF ListedInv
  <2>3. m.entry = e
    OBVIOUS
  <2> HIDE DEF e, m
  <2>4. \A k \in DOMAIN Tail(todo) : k + 1 \in DOMAIN todo /\ Tail(todo)[k] = todo[k + 1]
    BY <1>1, <2>1
  <2>5. \A k \in DOMAIN emitted' : emitted'[k] = m \/ (k \in DOMAIN emitted /\ emitted'[k] = emitted[k])
    BY <2>1 DEF EmitInv
  <2>6. enumerates'
    BY <2>1 DEF ListedInv
  <2> QED BY <2>1, <2>2, <2>3, <2>4, <2>5, <2>6, ListedStable
<1> QED BY <1>2, <1>3, <1>4, <1>5, <1>6, <1>7, <1>8, <1>9 DEF Next

\* Where the directory is whole and the caller trusts it, nothing foreign is handed
\* out: an entry without a record is refused, and every record is a member's, however
\* the rest of the file was damaged and whatever was planted in it (the guard for
\* unattested entries of recover_verified_entries_to).
THEOREM ForeignTheorem == Spec => []ForeignStaysOut
<1>1. TypeInv /\ [Next]_vars => TypeInv'
  BY TypeReading, TypeMerging, TypeEmitting DEF Next
<1>2. Init => ListedInv
  BY DEF Init, ListedInv
<1>3. EmitInv /\ BackedInv /\ ListedInv => ForeignStaysOut
  <2> SUFFICES ASSUME EmitInv, BackedInv, ListedInv, Attests(job.provenance), DirectoryThere,
                      NEW i \in DOMAIN emitted
               PROVE  Of(emitted[i]) \in Members
    BY DEF ForeignStaysOut, Results
  <2> DEFINE e == emitted[i].entry
  <2>1. phase \in {"emit", "done"}
    BY DEF EmitInv
  <2>2. enumerates /\ Listed(e)
    BY <2>1 DEF ListedInv
  <2>3. e.central
    BY <2>2 DEF EmitInv, EmissionIsBacked
  <2>4. e.utf8 /\ emitted[i].path = SafePath(e.name) /\ emitted[i].bytes = e.crc
    BY EmittedIs DEF BackedInv
  <2>5. PICK k \in DOMAIN job.orig.was : job.orig.was[k].name = e.name /\ job.orig.was[k].bytes = e.crc
    BY <2>2, <2>3, <2>4 DEF Listed
  <2> QED BY <2>4, <2>5 DEF Of, Members
<1> QED BY TypeInit, EmitInit, BackedInit, EmitNext, BackedNext, ListedNext, <1>1, <1>2, <1>3, PTL DEF Spec

-----------------------------------------------------------------------------
\* Intact members come back.

\* What is at the place of an intact member, and that no other header bears its name.
LEMMA IntactHeader ==
  ASSUME job \in Jobs, DirectoryThere, NEW i \in DOMAIN job.orig.was,
         NEW o \in 0 .. Len(job.file) - 1, Intact(i, o)
  PROVE  LET f   == job.file
             was == job.orig.was[i]
         IN  /\ NamedAt(f, o, was.name) /\ o \in Nat
             /\ f[o + 1].meta.method = Recorded[i].method
             /\ f[o + 1].meta.crc \in {was.bytes, << >>}
             /\ Recorded[i].utf8 /\ Recorded[i].name = was.name
             /\ \A h \in 0 .. Len(f) - 1 : HasLocal(f, h) /\ PathKey(f[h + 1].meta.name) = PathKey(was.name) => h = o
             /\ \A h \in 0 .. o - 1 : HasLocal(f, h) => h + 1 + f[h + 1].meta.csize <= o
<1> DEFINE f   == job.file
           was == job.orig.was[i]
           b   == job.orig.bodies[i]
<1>1. /\ Len(b) \in Nat \ {0} /\ b[1].kind = "local" /\ b[1].whole
      /\ b[1].meta.name = was.name /\ b[1].meta.method = job.orig.directory[i].meta.method
      /\ b[1].meta.crc \in {was.bytes, << >>}
  <2>1. IsOriginal(job.orig) /\ i \in 1 .. Len(job.orig.was)
    BY OriginalsAssumption, RecordedFacts
  <2>2. IsBody(b, job.orig.directory[i], was)
    BY <2>1 DEF IsOriginal
  <2> HIDE DEF b, was
  <2> QED BY <2>2 DEF IsBody
<1>2. IsFile(f) /\ Len(f) \in Nat /\ o \in Nat
  BY FileType
<1>3. f[o + 1] = b[1]
  BY <1>1 DEF Intact, OccursAt
<1> HIDE DEF b, was, f
<1>4. NamedAt(f, o, was.name)
  <2>1. o \in 0 .. Len(f) - 1
    BY DEF f
  <2> QED BY <1>1, <1>3, <2>1 DEF NamedAt, HasLocal, Kind
<1>5. /\ f[o + 1].meta.method = Recorded[i].method
      /\ Recorded[i].utf8 /\ Recorded[i].name = was.name
  <2>1. i \in 1 .. Len(job.orig.was) /\ ~NotUtf8(was.name)
    BY RecordedFacts DEF Intact, Presentable, was
  <2>2. /\ Recorded[i].method = job.orig.directory[i].meta.method
        /\ Recorded[i].utf8 /\ Recorded[i].name = was.name
    BY <2>1, RecordedFacts DEF was
  <2> QED BY <1>1, <1>3, <2>2
<1>6. ASSUME NEW h \in 0 .. Len(f) - 1, HasLocal(f, h), PathKey(f[h + 1].meta.name) = PathKey(was.name)
      PROVE  h = o
  BY <1>1, <1>3, <1>6 DEF Intact, Alone, f
<1>7. ASSUME NEW h \in 0 .. o - 1, HasLocal(f, h)
      PROVE  h + 1 + f[h + 1].meta.csize <= o
  <2>1. f[h + 1].meta.csize \in Nat
    BY <1>2, <1>7, HeaderType DEF HasLocal, Metas
  <2>2. AfterHeader(f, h) <= o
    BY <1>7 DEF Intact, Reached, f
  <2>3. CASE f[h + 1].meta.csize > 0
    BY <2>2, <2>3 DEF AfterHeader
  <2>4. CASE ~(f[h + 1].meta.csize > 0)
    <3>1. f[h + 1].meta.csize = 0
      BY <2>1, <2>4
    <3> QED BY <1>2, <3>1
  <2> QED BY <2>3, <2>4
<1> QED BY <1>1, <1>2, <1>3, <1>4, <1>5, <1>6, <1>7 DEF f, was

\* The record of an intact member is one of the observations, if it does not lead to
\* the header already.
LEMMA IntactObserved ==
  ASSUME job \in Jobs, DirectoryThere, NEW i \in DOMAIN job.orig.was,
         NEW o \in 0 .. Len(job.file) - 1, Intact(i, o), Recorded[i].off # o
  PROVE  LET f    == job.file
             seen == Observations(f, IndexedHeaders(f), Recorded)
         IN  /\ o \in IndexedHeaders(f)
             /\ [stored |-> Recorded[i].off, physical |-> o] \in InferredMap(seen)
             /\ \A ob \in seen : ob.stored = Recorded[i].off => ob.physical = o
<1> DEFINE f     == job.file
           was   == job.orig.was[i]
           e     == Recorded[i]
           index == IndexedHeaders(f)
           seen  == Observations(f, index, Recorded)
           mine  == [stored |-> e.off, physical |-> o]
           at(k) == MatchesFor(f, index, Recorded[k])
<1>1. /\ Cardinality({h \in 0 .. Len(f) - 1 : HasLocal(f, h)}) <= MaxCandidates
      /\ ~(Segments(Kept(seen)) > MaxSegments)
      /\ \A ob \in seen : ob.stored < e.off => ob.physical < o
  BY DEF Intact, Explained
<1>2. /\ NamedAt(f, o, was.name) /\ o \in Nat
      /\ f[o + 1].meta.method = e.method
      /\ f[o + 1].meta.crc \in {was.bytes, << >>}
      /\ e.utf8 /\ e.name = was.name
      /\ \A h \in 0 .. Len(f) - 1 : HasLocal(f, h) /\ PathKey(f[h + 1].meta.name) = PathKey(was.name) => h = o
      /\ \A h \in 0 .. o - 1 : HasLocal(f, h) => h + 1 + f[h + 1].meta.csize <= o
  BY IntactHeader
<1>3. /\ DOMAIN Recorded = 1 .. Len(job.orig.was) /\ i \in DOMAIN Recorded
      /\ e.crc = was.bytes
      /\ \A k, j \in DOMAIN Recorded : Recorded[k].off = Recorded[j].off => k = j
      /\ \A k \in DOMAIN Recorded : k \in Nat
  <2>1. DOMAIN Recorded = 1 .. Len(job.orig.was) /\ i \in DOMAIN Recorded /\ Len(job.orig.was) \in Nat
    BY RecordedFacts
  <2>2. e.crc = was.bytes
    BY <2>1, RecordedFacts
  <2>3. \A k, j \in DOMAIN Recorded : Recorded[k].off = Recorded[j].off => k = j
    BY <2>1, RecordedFacts
  <2>4. \A k \in 1 .. Len(job.orig.was) : k \in Nat
    BY <2>1
  <2> QED BY <2>1, <2>2, <2>3, <2>4
<1>4. IsFile(f)
  BY FileType
<1>5. o \in index
  <2>1. HasLocal(f, o) /\ f[o + 1].whole
    BY <1>2 DEF NamedAt
  <2>2. \A h \in 0 .. o - 1 : HasLocal(f, h) => h + 1 + f[h + 1].meta.csize <= o
    BY <1>2, Zenon
  <2>3. Cardinality({h \in 0 .. Len(f) - 1 : HasLocal(f, h)}) <= MaxCandidates
    BY <1>1, Zenon
  <2> HIDE DEF f
  <2> QED BY <1>4, <2>1, <2>2, <2>3, IndexReaches, Zenon
<1>6. \A h \in index : h \in 0 .. Len(f) - 1 /\ HasLocal(f, h) /\ f[h + 1].whole
  BY Zenon DEF IndexedHeaders, FirstOf
<1> HIDE DEF index, was, f, e
<1>7. \A h \in index : f[h + 1].meta.name = e.name => h = o
  BY <1>2, <1>6
<1>8. at(i) = {o}
  <2>1. ~(e.off \in index /\ f[e.off + 1].meta.name = e.name)
    BY <1>7 DEF e
  <2>2. at(i) = {h \in index : /\ f[h + 1].meta.name = e.name
                               /\ f[h + 1].meta.method = e.method
                               /\ f[h + 1].meta.crc \in {e.crc, << >>}}
    BY <2>1 DEF MatchesFor, e
  <2>3. f[o + 1].meta.name = e.name
    BY <1>2 DEF NamedAt
  <2> QED BY <1>2, <1>3, <1>5, <1>7, <2>2, <2>3
<1>9. i \in Matched(f, index, Recorded)
  BY <1>3, <1>5, <1>8 DEF Matched
<1> DEFINE M     == Matched(f, index, Recorded)
           heard == {j \in M : \A k \in M : Recorded[k].off = Recorded[j].off => j <= k}
           saw(k) == [stored |-> Recorded[k].off, physical |-> CHOOSE h \in at(k) : TRUE]
<1>10. seen = {saw(k) : k \in heard}
  BY DEF Observations
<1>11. M \subseteq DOMAIN Recorded
  BY DEF Matched
<1> HIDE DEF M
<1>12. i \in heard
  BY <1>3, <1>9, <1>11 DEF M
<1>13. saw(i) = mine
  BY <1>8 DEF e
<1> HIDE DEF at, heard
<1>14. \A ob \in seen : ob.stored = e.off => ob = mine
  <2> SUFFICES ASSUME NEW k \in heard, saw(k).stored = e.off
               PROVE  saw(k) = mine
    <3> HIDE DEF saw, mine
    <3> QED BY <1>10
  <2>1. k \in DOMAIN Recorded
    BY <1>11 DEF heard
  <2>2. Recorded[k].off = Recorded[i].off
    BY DEF e
  <2>3. k = i
    BY <1>3, <2>1, <2>2
  <2> QED BY <1>13, <2>3
<1>15. mine \in seen
  <2> HIDE DEF saw, mine
  <2> QED BY <1>10, <1>12, <1>13
<1>16. mine.stored = e.off /\ mine.physical = o
  OBVIOUS
<1> HIDE DEF seen, mine
<1>17. mine \in Kept(seen)
  BY <1>1, <1>15, <1>16 DEF Kept
<1>18. mine \in InferredMap(seen)
  BY <1>1, <1>17 DEF InferredMap
<1> QED BY <1>5, <1>14, <1>16, <1>18 DEF seen, mine, index, f, e

\* So the record of an intact member comes to point at its header.
LEMMA IntactRepointed ==
  ASSUME job \in Jobs, DirectoryThere, NEW i \in DOMAIN job.orig.was,
         NEW o \in 0 .. Len(job.file) - 1, Intact(i, o)
  PROVE  LET f     == job.file
             index == IndexedHeaders(f)
         IN  Repointed(f, index, InferredMap(Observations(f, index, Recorded)), Recorded[i])
               = [Recorded[i] EXCEPT !.off = o]
<1> DEFINE f     == job.file
           was   == job.orig.was[i]
           e     == Recorded[i]
           index == IndexedHeaders(f)
           seen  == Observations(f, index, Recorded)
           K     == InferredMap(seen)
           mine  == [stored |-> e.off, physical |-> o]
           to    == {h \in Mapped(K, e.off) : h \in index /\ f[h + 1].meta.name = e.name}
<1>1. i \in 1 .. Len(job.orig.was)
  BY RecordedFacts
<1>2. e \in Entries /\ e.off \in 0 .. Reach - 1
  BY <1>1, RecordedFacts
<1>3. e.off \in Nat /\ AsI64(e.off) = e.off
  BY <1>2, GoneFacts DEF AsI64
<1>4. /\ NamedAt(f, o, was.name) /\ o \in Nat /\ e.name = was.name
      /\ \A h \in 0 .. Len(f) - 1 : HasLocal(f, h) /\ PathKey(f[h + 1].meta.name) = PathKey(was.name) => h = o
  BY IntactHeader
<1>5. IsFile(f)
  BY FileType
<1> HIDE DEF f, was, e, index, K
<1>6. CASE e.off = o
  <2>1. NamedAt(f, e.off, e.name)
    BY <1>4, <1>6
  <2>2. Repointed(f, index, K, e) = e
    BY <2>1 DEF Repointed
  <2>3. [e EXCEPT !.off = o] = e
    BY <1>2, <1>6 DEF Entries
  <2> QED BY <2>2, <2>3 DEF f, e, index, K
<1>7. CASE e.off # o
  <2>1. o \in index /\ mine \in K /\ \A ob \in seen : ob.stored = e.off => ob.physical = o
    BY <1>7, IntactObserved DEF f, e, index, K
  <2>2. K \subseteq seen
    BY InferredInOrder DEF K
  <2>3. \A ob \in K : ob.stored \in Nat
    <3>1. index \subseteq Nat
      BY <1>5, IndexType DEF index
    <3>2. \A k \in DOMAIN Recorded : Recorded[k].off \in Nat
      <4>1. \A k \in DOMAIN Recorded : Recorded[k] \in Entries
        BY RecordedFacts
      <4> QED BY <4>1 DEF Entries
    <3> QED BY <2>2, <3>1, <3>2, ObservationType
  <2>4. mine.stored = e.off /\ mine.physical = o
    OBVIOUS
  <2> HIDE DEF mine, seen
  <2>5. \A ob \in Below(K, e.off) \cup Above(K, e.off) : ob.stored = e.off
    BY <1>3, <2>1, <2>3, <2>4 DEF Below, Above
  <2>6. mine \in Below(K, e.off) /\ Below(K, e.off) \subseteq K /\ Above(K, e.off) \subseteq K
    BY <1>3, <2>1, <2>3, <2>4 DEF Below, Above
  <2>7. \A ob \in Below(K, e.off) \cup Above(K, e.off) : Delta(ob) = o - e.off
    BY <1>3, <2>1, <2>2, <2>5, <2>6 DEF Delta
  <2>8. Shifts(K, e.off) = {o - e.off}
    BY <2>6, <2>7 DEF Shifts
  <2>9. e.off + (o - e.off) = o /\ o >= 0
    BY <1>3, <1>4
  <2>10. Mapped(K, e.off) = {o}
    BY <1>3, <2>8, <2>9 DEF Mapped
  <2>11. to = {o}
    BY <1>4, <2>1, <2>10 DEF NamedAt
  <2>12. ~NamedAt(f, e.off, e.name)
    <3>1. NamedAt(f, e.off, e.name) => e.off \in 0 .. Len(f) - 1 /\ HasLocal(f, e.off) /\ f[e.off + 1].meta.name = was.name
      BY <1>4, <1>5, CellAt DEF NamedAt, HasLocal
    <3> QED BY <1>4, <1>7, <3>1
  <2>13. (CHOOSE h \in to : TRUE) = o
    BY <2>11
  <2>14. Repointed(f, index, K, e) = [e EXCEPT !.off = CHOOSE h \in to : TRUE]
    BY <2>11, <2>12 DEF Repointed
  <2> HIDE DEF to
  <2>15. Repointed(f, index, K, e) = [e EXCEPT !.off = o]
    BY <2>13, <2>14
  <2> QED BY <2>15 DEF f, e, index, K, seen
<1> QED BY <1>6, <1>7

\* A copy of cells elsewhere.
LEMMA SameCells ==
  ASSUME NEW b, NEW f, NEW o \in Nat, NEW c \in Nat, \A k \in 1 .. c + 1 : f[o + k] = b[k]
  PROVE  SubSeq(f, o + 1 + 1, o + 1 + c) = SubSeq(b, 2, 1 + c)
<1>1. SubSeq(b, 2, 1 + c) = [k \in 1 .. c |-> b[k + 1]]
  OBVIOUS
<1>2. SubSeq(f, o + 1 + 1, o + 1 + c) = [k \in 1 .. c |-> f[o + (k + 1)]]
  <2> DEFINE x == o + 1 + 1
             y == o + 1 + c
  <2>1. x \in Nat /\ y \in Nat /\ y - x + 1 = c /\ \A k \in 1 .. c : x + k - 1 = o + (k + 1)
    OBVIOUS
  <2> HIDE DEF x, y
  <2>2. SubSeq(f, x, y) = [k \in 1 .. y - x + 1 |-> f[x + k - 1]]
    BY <2>1
  <2>3. SubSeq(f, x, y) = [k \in 1 .. c |-> f[x + k - 1]]
    BY <2>1, <2>2
  <2>4. [k \in 1 .. c |-> f[x + k - 1]] = [k \in 1 .. c |-> f[o + (k + 1)]]
    BY <2>1
  <2> QED BY <2>3, <2>4 DEF x, y
<1>3. \A k \in 1 .. c : k + 1 \in 1 .. c + 1
  OBVIOUS
<1>4. [k \in 1 .. c |-> f[o + (k + 1)]] = [k \in 1 .. c |-> b[k + 1]]
  BY <1>3
<1> QED BY <1>1, <1>2, <1>4

\* Where the cells of a member are, the entry that points at them finds what it did
\* in the member alone.
LEMMA SameExtraction ==
  ASSUME NEW b, NEW f, Len(b) \in Nat, Len(f) \in Nat, NEW o \in Nat, OccursAt(b, f, o),
         NEW e \in Entries, NEW d \in Entries, e.off = 0, d.off = o,
         d.csize = e.csize, d.method = e.method, d.lock = e.lock, d.crc = e.crc,
         d.central = e.central, d.streamed = e.streamed,
         Extracted(b, e).status = "verified"
  PROVE  Extracted(f, d).status = "verified"
<1> DEFINE c     == e.csize
           cells == SubSeq(b, 2, 1 + c)
           bytes == IF e.method = "stored" THEN cells ELSE cells[1].of
<1>1. /\ c \in Nat /\ e.lock \in Locks
      /\ d.off = o /\ d.csize = c /\ d.method = e.method /\ d.lock = e.lock /\ d.crc = e.crc
      /\ d.central = e.central /\ d.streamed = e.streamed
  BY DEF Entries
<1>2. 0 + 1 + 1 = 2 /\ 0 + 1 = 1 /\ o + 1 + 1 = o + 2
  OBVIOUS
<1>3. SubSeq(b, e.off + 1 + 1, e.off + 1 + e.csize) = cells
  BY <1>2
<1>4. /\ e.lock = "none" /\ ~(~e.central /\ e.streamed /\ c = 0)
      /\ HasLocal(b, 0) /\ ~(1 + c > Len(b)) /\ b[1].whole
      /\ e.method \in {"stored", "deflated"}
      /\ e.method = "deflated" => Inflates(cells)
      /\ bytes = e.crc
  <2> DEFINE none(status) == [status |-> status, bytes |-> << >>]
             x == Extracted(b, e)
             got == [status |-> IF bytes = e.crc THEN "verified" ELSE "crc_mismatch", bytes |-> bytes]
  <2>1. x = CASE e.lock # "none" -> none(e.lock)
              [] e.lock = "none" /\ ~e.central /\ e.streamed /\ c = 0 -> none("streamed_unsized")
              [] OTHER ->
                   IF ~HasLocal(b, 0) THEN none("bad_local_header")
                   ELSE IF 1 + c > Len(b) \/ ~b[1].whole THEN none("truncated")
                   ELSE IF e.method \notin {"stored", "deflated"} THEN none("unsupported_method")
                   ELSE IF e.method = "deflated" /\ ~Inflates(cells) THEN none("decode_failed")
                   ELSE got
    <3> HIDE DEF cells, none
    <3> QED BY <1>2, <1>3 DEF Extracted, none
  <2>2. x.status = "verified"
    OBVIOUS
  <2>3. \A s : none(s).status = s
    OBVIOUS
  <2>4. got.status = "verified" => bytes = e.crc
    OBVIOUS
  <2> HIDE DEF x, got, none, cells, bytes, c
  <2> QED BY <1>1, <2>1, <2>2, <2>3, <2>4 DEF Locks
<1>5. SubSeq(f, o + 1 + 1, o + 1 + c) = cells
  <2>1. c \in Nat /\ Len(b) \in Nat /\ ~(1 + c > Len(b))
    BY <1>1, <1>4
  <2>2. \A x, y \in Nat : ~(1 + x > y) => \A k \in 1 .. x + 1 : k \in 1 .. y
    OBVIOUS
  <2> HIDE DEF c
  <2>3. \A k \in 1 .. c + 1 : k \in 1 .. Len(b)
    BY <2>1, <2>2, Zenon
  <2>4. \A k \in 1 .. c + 1 : f[o + k] = b[k]
    BY <2>3 DEF OccursAt
  <2>5. SubSeq(f, o + 1 + 1, o + 1 + c) = SubSeq(b, 2, 1 + c)
    <3> HIDE DEF cells
    <3> QED BY ONLY o \in Nat, <2>1, <2>4, SameCells
  <2> QED BY <2>5
<1>6. HasLocal(f, o) /\ f[o + 1].whole /\ ~(o + 1 + c > Len(f))
  <2>1. 1 \in 1 .. Len(b) /\ 1 + c <= Len(b) /\ o + Len(b) <= Len(f)
    BY <1>1, <1>4 DEF OccursAt
  <2>2. f[o + 1] = b[1]
    BY <2>1 DEF OccursAt
  <2>3. \A x, y, z \in Nat : 1 + z <= x /\ o + x <= y => o \in 0 .. y - 1 /\ ~(o + 1 + z > y)
    OBVIOUS
  <2>4. o \in 0 .. Len(f) - 1 /\ ~(o + 1 + c > Len(f))
    <3> HIDE DEF c
    <3> QED BY <1>1, <2>1, <2>3
  <2>5. b[1].kind = "local"
    BY <1>4 DEF HasLocal, Kind
  <2> QED BY <1>4, <2>2, <2>4, <2>5 DEF HasLocal, Kind
<1>7. Extracted(f, d) = [status |-> IF bytes = e.crc THEN "verified" ELSE "crc_mismatch", bytes |-> bytes]
  <2> HIDE DEF cells, c
  <2> QED BY <1>1, <1>4, <1>5, <1>6 DEF Extracted
<1> HIDE DEF bytes
<1> QED BY <1>4, <1>7

\* The entry that an intact member becomes.
Target(i, o) == [Recorded[i] EXCEPT !.off = o]

\* It verifies, and nothing holds it back but a limit or a file of its path.
LEMMA TargetFacts ==
  ASSUME job \in Jobs, DirectoryThere, NEW i \in DOMAIN job.orig.was,
         NEW o \in 0 .. Len(job.file) - 1, Intact(i, o)
  PROVE  LET t == Target(i, o)
             m == job.orig.was[i]
         IN  /\ t \in Entries /\ t.central /\ t.off = o /\ t.utf8 /\ t.name = m.name /\ t.crc = m.bytes
             /\ Extracted(job.file, t).status = "verified"
             /\ Abstention(t, Extracted(job.file, t))
                  \in {"none", "entry_limit", "total_limit"} \cup {w \in {"duplicate_path"} : PathKey(m.name) \in names}
<1> DEFINE f == job.file
           e == Recorded[i]
           t == Target(i, o)
           m == job.orig.was[i]
           r == job.orig.directory[i]
           b == job.orig.bodies[i]
           x == Extracted(f, t)
           z == Entry(r.meta, 0, TRUE)
<1>1. /\ i \in 1 .. Len(job.orig.was) /\ o \in Nat /\ Len(f) \in Nat
      /\ e.utf8 /\ e.name = m.name
  BY RecordedFacts, IntactHeader, FileType
<1>2. e \in Entries /\ e = Entry(r.meta, r.off, TRUE) /\ r.meta \in Metas /\ e.crc = m.bytes
  BY <1>1, RecordedFacts
<1>3. IsBody(b, r, m)
  BY <1>1, OriginalsAssumption DEF IsOriginal
<1>4. Presentable(m) /\ OccursAt(b, f, o) /\ (Attests(job.provenance) \/ m.bytes # << >>)
  BY DEF Intact
<1>5. Len(b) \in Nat /\ Extracted(b, z).status = "verified"
  BY <1>3, <1>4 DEF IsBody
<1>6. z \in Entries /\ z.off = 0 /\ z.central = TRUE
  BY <1>2, EntryType
<1>7. /\ e.central = z.central /\ e.csize = z.csize /\ e.method = z.method /\ e.lock = z.lock
      /\ e.crc = z.crc /\ e.streamed = z.streamed
  <2> HIDE DEF e
  <2> QED BY <1>2 DEF Entry
<1> HIDE DEF e, z, f, b, m, r
<1>8. /\ t \in Entries /\ t.central = TRUE /\ t.off = o /\ t.utf8 = e.utf8 /\ t.name = m.name /\ t.crc = m.bytes
      /\ t.central = e.central /\ t.csize = e.csize /\ t.method = e.method /\ t.lock = e.lock
      /\ t.crc = e.crc /\ t.streamed = e.streamed
  <2>1. t = [e EXCEPT !.off = o]
    BY DEF Target, e
  <2> HIDE DEF t
  <2> QED BY <1>1, <1>2, <1>6, <1>7, <2>1 DEF Entries
<1> HIDE DEF t
<1>9. x.status = "verified"
  BY <1>1, <1>4, <1>5, <1>6, <1>7, <1>8, SameExtraction
<1>10. x.bytes = m.bytes
  BY <1>8, <1>9, ExtractedFacts
<1> HIDE DEF x
<1>11. /\ m.name[Len(m.name)] # "" /\ ~Unsafe(m.name)
  BY <1>4 DEF Presentable
<1>12. ~(~Attested(t) /\ enumerates /\ Attests(job.provenance)) /\ ~(x.bytes = << >> /\ ~Attested(t))
  BY <1>4, <1>8, <1>10 DEF Attested
<1>13. \/ Abstention(t, x) \in {"none", "entry_limit", "total_limit"}
       \/ Abstention(t, x) = "duplicate_path" /\ PathKey(m.name) \in names
  BY <1>1, <1>8, <1>9, <1>11, <1>12 DEF Abstention
<1> QED BY <1>1, <1>8, <1>9, <1>13 DEF t, m, x, f

\* The entry of member i waits in es, and no other of its path does.
Awaits(es, i, o) ==
  /\ \E k \in DOMAIN es : es[k] = Target(i, o)
  /\ \A k \in DOMAIN es :
       es[k].utf8 /\ PathKey(es[k].name) = PathKey(job.orig.was[i].name) => es[k] = Target(i, o)

Limits(why) == why \in {"entry_limit", "total_limit", "entry_count_limit"}

\* An intact member waits for its turn from reconciliation on, with its path free, until
\* it is handed out; only the sink or a limit can come in between.
SurvivesInv ==
  DirectoryThere =>
    /\ phase \notin {"emit", "done"} => names = {}
    /\ \E S : skipped \in Seq(S)
    /\ phase = "repoint" => entries = Recorded
    /\ \A i \in DOMAIN job.orig.was : \A o \in 0 .. Len(job.file) - 1 : Intact(i, o) =>
         /\ phase \in {"decide", "merge"} => Awaits(entries, i, o)
         /\ phase = "merge" => o \in taken
         /\ phase \in {"emit", "done"} =>
              \/ sinkFailed
              \/ \E k \in DOMAIN skipped : Limits(skipped[k].why)
              \/ \E k \in DOMAIN emitted : emitted[k].entry = Target(i, o)
              \/ phase = "emit" /\ PathKey(job.orig.was[i].name) \notin names /\ Awaits(todo, i, o)

\* What a step has to leave behind.
LEMMA SurvivesStep ==
  ASSUME DirectoryThere, job' = job,
         phase' \notin {"emit", "done"} => names' = {},
         \E S : skipped' \in Seq(S),
         phase' = "repoint" => entries' = Recorded,
         \A i \in DOMAIN job.orig.was : \A o \in 0 .. Len(job.file) - 1 : Intact(i, o) =>
           /\ phase' \in {"decide", "merge"} => Awaits(entries', i, o)
           /\ phase' = "merge" => o \in taken'
           /\ phase' \in {"emit", "done"} =>
                \/ sinkFailed'
                \/ \E k \in DOMAIN skipped' : Limits(skipped'[k].why)
                \/ \E k \in DOMAIN emitted' : emitted'[k].entry = Target(i, o)
                \/ phase' = "emit" /\ PathKey(job.orig.was[i].name) \notin names' /\ Awaits(todo', i, o)
  PROVE  SurvivesInv'
<1>1. Recorded' = Recorded
  BY DEF Recorded
<1>2. \A i, o : Target(i, o)' = Target(i, o)
  BY <1>1 DEF Target
<1>3. \A i, o : Intact(i, o)' = Intact(i, o)
  <2>1. \A i, o : Explained(i, o)' = Explained(i, o)
    BY <1>1 DEF Explained
  <2>2. \A i : UniquePath(i)' = UniquePath(i)
    BY DEF UniquePath
  <2>3. \A o : Reached(o)' = Reached(o) /\ Alone(o)' = Alone(o)
    BY DEF Reached, Alone
  <2> QED BY <2>1, <2>2, <2>3 DEF Intact
<1>4. \A i, o : Awaits(entries, i, o)' = Awaits(entries', i, o) /\ Awaits(todo, i, o)' = Awaits(todo', i, o)
  BY <1>2 DEF Awaits
<1> QED BY <1>1, <1>2, <1>3, <1>4 DEF SurvivesInv

\* Steps until the decision whether the scan runs.
LEMMA SurvivesReading ==
  ASSUME TypeInv, ListedInv, SurvivesInv, DirectoryThere,
         FindContainers \/ ReadDirectory \/ AdoptSurviving \/ NoSurvivor \/ Repoint
  PROVE  SurvivesInv'
<1> DEFINE f == job.file
<1>1. job \in Jobs
  BY DEF TypeInv
<1>2. /\ UNCHANGED <<job, names, skipped>>
      /\ phase \in {"containers", "directory", "surviving", "repoint"}
  BY DEF FindContainers, ReadDirectory, AdoptSurviving, NoSurvivor, Repoint, parseVars, mergeVars, emitVars
<1>3. names' = {} /\ \E S : skipped' \in Seq(S)
  BY <1>2 DEF SurvivesInv
<1>4. CASE FindContainers
  <2>1. phase' = "directory"
    BY <1>4 DEF FindContainers
  <2> QED BY <1>2, <1>3, <2>1, SurvivesStep
<1>5. CASE ReadDirectory
  <2> DEFINE e     == FindEocd(f)
             start == DirectoryStart(f, e)
             past  == DirectoryPast(f, e, start)
             w     == WalkDirectory(f, start, past)
             n     == Len(job.orig.was)
  <2>1. /\ HasEnd(f) /\ n \in Nat /\ n >= 1
        /\ start \in Nat /\ past = start + n /\ ~Owned(Containers(f), start)
    BY <1>1, DirectoryFound
  <2>2. w = Recorded /\ DOMAIN Recorded = 1 .. n
    BY <1>1, DirectoryRead, RecordedFacts
  <2>3. containers = Containers(f)
    BY <1>5 DEF ReadDirectory, ListedInv
  <2> HIDE DEF e, start, past, w, n
  <2>4. start < past
    BY <2>1
  <2>5. entries' = w /\ phase' = IF w = << >> THEN "surviving" ELSE "repoint"
    BY <1>5, <2>1, <2>3, <2>4 DEF ReadDirectory, e, start, past, w
  <2>6. w # << >>
    <3>1. 1 \in DOMAIN w
      BY <2>1, <2>2
    <3> QED BY <3>1
  <2>7. phase' = "repoint" /\ entries' = Recorded
    BY <2>2, <2>5, <2>6
  <2> QED BY <1>2, <1>3, <2>7, SurvivesStep
<1>6. CASE AdoptSurviving \/ NoSurvivor
  BY <1>6 DEF AdoptSurviving, NoSurvivor, ListedInv
<1>7. CASE Repoint
  <2> DEFINE index == IndexedHeaders(f)
             K     == InferredMap(Observations(f, index, Recorded))
             new(k) == Repointed(f, index, K, Recorded[k])
  <2>1. entries = Recorded /\ phase' = "decide"
    BY <1>7 DEF Repoint, SurvivesInv
  <2>2. entries' = [k \in DOMAIN Recorded |-> new(k)]
    BY <1>7, <2>1 DEF Repoint
  <2>3. ASSUME NEW i \in DOMAIN job.orig.was, NEW o \in 0 .. Len(job.file) - 1, Intact(i, o)
        PROVE  Awaits(entries', i, o)
    <3>1. new(i) = Target(i, o)
      BY <1>1, <2>3, IntactRepointed DEF Target
    <3>2. DOMAIN Recorded = DOMAIN job.orig.was
      BY <1>1, RecordedFacts
    <3>3. \A k \in DOMAIN Recorded : Recorded[k] \in Entries /\ (Recorded[k].utf8 => Recorded[k].name = job.orig.was[k].name)
      BY <1>1, RecordedFacts
    <3> HIDE DEF index, K
    <3>4. \A k \in DOMAIN Recorded : new(k).utf8 = Recorded[k].utf8 /\ new(k).name = Recorded[k].name
      <4> TAKE k \in DOMAIN Recorded
      <4>1. new(k) = Recorded[k] \/ \E h \in index \cap Mapped(K, Recorded[k].off) : new(k) = [Recorded[k] EXCEPT !.off = h]
        BY <3>3, RepointedTo
      <4> HIDE DEF new
      <4> QED BY <3>3, <4>1 DEF Entries
    <3> HIDE DEF new
    <3>5. ASSUME NEW k \in DOMAIN Recorded, new(k).utf8, PathKey(new(k).name) = PathKey(job.orig.was[i].name)
          PROVE  new(k) = Target(i, o)
      <4>1. PathKey(job.orig.was[k].name) = PathKey(job.orig.was[i].name)
        BY <3>3, <3>4, <3>5
      <4>2. k = i
        BY <2>3, <3>2, <4>1 DEF Intact, UniquePath
      <4> QED BY <3>1, <4>2
    <3> QED BY <2>2, <3>1, <3>2, <3>5 DEF Awaits
  <2> QED BY <1>2, <1>3, <2>1, <2>3, SurvivesStep
<1> QED BY <1>4, <1>5, <1>6, <1>7

\* The merge drops and adds entries, but neither the entry of an intact member nor one
\* of its path.
LEMMA SurvivesMerging ==
  ASSUME TypeInv, ListedInv, SurvivesInv, DirectoryThere,
         Directly \/ StartMerge \/ Accept \/ Refuse \/ FinishMerge
  PROVE  SurvivesInv'
<1> DEFINE f == job.file
<1>1. job \in Jobs /\ IsFile(f) /\ entries \in Seq(Entries)
  BY FileType DEF TypeInv, TypeOK
<1>2. UNCHANGED <<job, names, skipped>> /\ phase \in {"decide", "merge"}
  BY DEF Directly, StartMerge, Accept, Refuse, FinishMerge, Candidate, parseVars, mergeVars, emitVars
<1>3. names' = {} /\ \E S : skipped' \in Seq(S)
  BY <1>2 DEF SurvivesInv
<1>4. \A i \in DOMAIN job.orig.was : \A o \in 0 .. Len(f) - 1 : Intact(i, o) =>
        Awaits(entries, i, o) /\ (phase = "merge" => o \in taken)
  BY <1>2 DEF SurvivesInv
<1>5. CASE Directly
  <2>1. phase' = "emit" /\ todo' = entries
    BY <1>5 DEF Directly
  <2> QED BY <1>2, <1>3, <1>4, <2>1, SurvivesStep
<1>6. CASE StartMerge
  <2>1. /\ phase' = "merge" /\ entries' = Unowned(entries)
        /\ taken' = {entries[k].off : k \in DOMAIN entries} /\ containers = Containers(f)
    BY <1>6 DEF StartMerge, ListedInv
  <2>2. ASSUME NEW i \in DOMAIN job.orig.was, NEW o \in 0 .. Len(f) - 1, Intact(i, o)
        PROVE  Awaits(entries', i, o) /\ o \in taken'
    <3>1. Awaits(entries, i, o)
      BY <1>4, <2>2
    <3>2. PICK k \in DOMAIN entries : entries[k] = Target(i, o)
      BY <3>1 DEF Awaits
    <3>3. entries[k].off = o
      BY <1>1, <2>2, <3>2, TargetFacts
    <3>4. ~Owned(containers, entries[k].off)
      BY <2>1, <2>2, <3>3 DEF Intact
    <3>5. \E j \in DOMAIN entries' : entries'[j] = Target(i, o)
      BY <1>1, <2>1, <3>2, <3>4, UnownedKeeps
    <3>6. \A j \in DOMAIN entries' : \E h \in DOMAIN entries : entries'[j] = entries[h]
      BY <1>1, <2>1, UnownedType
    <3> QED BY <2>1, <3>1, <3>3, <3>5, <3>6 DEF Awaits
  <2> QED BY <1>2, <1>3, <2>1, <2>2, SurvivesStep
<1>7. CASE Accept
  <2>1. PICK p \in pending : /\ Refusal(p, LenientRange(f, p)) = "none"
                             /\ taken' = taken \cup {p} /\ entries' = Append(entries, Scanned(f, p))
                             /\ phase = "merge"
    BY <1>7 DEF Accept, Candidate
  <2>2. p \notin taken /\ HasLocal(f, p) /\ phase' = "merge" /\ p \in 0 .. Len(f) - 1
    BY <1>7, <2>1 DEF Refusal, Accept, TypeInv, TypeOK
  <2> DEFINE new == Scanned(f, p)
  <2>3. new \in Entries
    BY <1>1, <2>2, ScannedType
  <2>4. new.utf8 => new.name = f[p + 1].meta.name
    <3> DEFINE d == Entry(f[p + 1].meta, p, FALSE)
    <3>1. f[p + 1].meta \in Metas /\ p \in Nat
      BY <1>1, <2>2, HeaderType, CellAt DEF HasLocal
    <3>2. d \in Entries /\ (d.utf8 => d.name = f[p + 1].meta.name)
      BY <3>1, EntryType, EntryTells
    <3> HIDE DEF d
    <3>3. Scanned(f, p) = IF f[p + 1].whole THEN d ELSE [d EXCEPT !.name = << >>, !.utf8 = FALSE]
      BY DEF Scanned, d
    <3> QED BY <3>2, <3>3 DEF Entries
  <2>5. /\ \A k \in DOMAIN entries : k \in DOMAIN entries' /\ entries'[k] = entries[k]
        /\ \A k \in DOMAIN entries' : k \in DOMAIN entries \/ entries'[k] = new
    <3> HIDE DEF new
    <3>1. entries' = Append(entries, new)
      BY <2>1 DEF new
    <3> QED BY <1>1, <2>3, <3>1
  <2> HIDE DEF new
  <2>6. ASSUME NEW i \in DOMAIN job.orig.was, NEW o \in 0 .. Len(f) - 1, Intact(i, o)
        PROVE  Awaits(entries', i, o) /\ o \in taken'
    <3>1. Awaits(entries, i, o) /\ o \in taken
      BY <1>4, <2>1, <2>6
    <3>2. p # o
      BY <2>2, <3>1
    <3>3. PathKey(f[p + 1].meta.name) # PathKey(job.orig.was[i].name)
      BY <1>1, <2>2, <2>6, <3>2, IntactHeader
    <3> QED BY <2>1, <2>4, <2>5, <3>1, <3>3 DEF Awaits
  <2> QED BY <1>2, <1>3, <2>2, <2>6, SurvivesStep
<1>8. CASE Refuse
  <2>1. phase = "merge" /\ phase' = "merge" /\ UNCHANGED <<entries, taken>>
    BY <1>8 DEF Refuse, Candidate, parseVars
  <2> QED BY <1>2, <1>3, <1>4, <2>1, SurvivesStep
<1>9. CASE FinishMerge
  <2>1. PICK order : Sorts(order, entries) /\ entries' = [k \in DOMAIN entries |-> entries[order[k]]]
    BY <1>9 DEF FinishMerge
  <2>2. /\ order \in [DOMAIN entries -> DOMAIN entries]
        /\ \A w \in DOMAIN entries : \E v \in DOMAIN entries : order[v] = w
    BY <2>1 DEF Sorts
  <2>3. phase' = "emit" /\ todo' = entries'
    BY <1>9 DEF FinishMerge
  <2>4. ASSUME NEW i \in DOMAIN job.orig.was, NEW o \in 0 .. Len(f) - 1, Intact(i, o)
        PROVE  Awaits(todo', i, o)
    <3>1. Awaits(entries, i, o)
      BY <1>4, <2>4
    <3> QED BY <2>1, <2>2, <2>3, <3>1 DEF Awaits
  <2> QED BY <1>2, <1>3, <2>3, <2>4, SurvivesStep
<1> QED BY <1>5, <1>6, <1>7, <1>8, <1>9

\* The turn of an intact member ends in its being handed out, a limit, or a failure of
\* the sink; that of any other entry leaves its path free.
LEMMA SurvivesEmitting ==
  ASSUME TypeInv, EmitInv, SurvivesInv, DirectoryThere, Emit \/ Skip \/ Finish
  PROVE  SurvivesInv'
<1> DEFINE f == job.file
           e == Head(todo)
           x == Extracted(f, e)
           why == Abstention(e, x)
           handled(i, o) == \/ sinkFailed
                            \/ \E k \in DOMAIN skipped : Limits(skipped[k].why)
                            \/ \E k \in DOMAIN emitted : emitted[k].entry = Target(i, o)
           waits(i, o) == PathKey(job.orig.was[i].name) \notin names /\ Awaits(todo, i, o)
<1>1. job \in Jobs /\ todo \in Seq(Entries) /\ job' = job /\ phase = "emit" /\ phase' \in {"emit", "done"}
  BY DEF TypeInv, TypeOK, Emit, Skip, Finish, Emitting
<1>2. \A i \in DOMAIN job.orig.was : \A o \in 0 .. Len(f) - 1 : Intact(i, o) => handled(i, o) \/ waits(i, o)
  BY <1>1 DEF SurvivesInv
<1>3. PICK S : skipped \in Seq(S)
  BY DEF SurvivesInv
<1>4. \E T : skipped' \in Seq(T)
  <2>1. \A w : Append(skipped, w) \in Seq(S \cup {w})
    BY <1>3
  <2>2. \E w : skipped' \in {skipped, Append(skipped, w)}
    BY DEF Emit, Skip, Finish
  <2> QED BY <1>3, <2>1, <2>2
<1>5. \A k \in DOMAIN skipped : k \in DOMAIN skipped' /\ skipped'[k] = skipped[k]
  <2>1. \E w : skipped' \in {skipped, Append(skipped, w)}
    BY DEF Emit, Skip, Finish
  <2> QED BY <1>3, <2>1
<1>6. \A k \in DOMAIN emitted : k \in DOMAIN emitted' /\ emitted'[k] = emitted[k]
  <2>1. \E w : emitted' \in {emitted, Append(emitted, w)}
    BY DEF Emit, Skip, Finish
  <2> QED BY <2>1 DEF EmitInv
<1>7. sinkFailed => sinkFailed'
  BY DEF Emit, Skip, Finish
<1> DEFINE done(i, o) == \/ sinkFailed'
                         \/ \E k \in DOMAIN skipped' : Limits(skipped'[k].why)
                         \/ \E k \in DOMAIN emitted' : emitted'[k].entry = Target(i, o)
<1>8. \A i, o : handled(i, o) => done(i, o)
  BY <1>5, <1>6, <1>7
<1>9. \A why1, name : skipped' = Append(skipped, [name |-> name, why |-> why1]) /\ Limits(why1)
                        => \E k \in DOMAIN skipped' : Limits(skipped'[k].why)
  <2> SUFFICES ASSUME NEW why1, NEW name, skipped' = Append(skipped, [name |-> name, why |-> why1]), Limits(why1)
               PROVE  \E k \in DOMAIN skipped' : Limits(skipped'[k].why)
    OBVIOUS
  <2> DEFINE r == [name |-> name, why |-> why1]
  <2>1. r.why = why1
    OBVIOUS
  <2>2. skipped' = Append(skipped, r)
    OBVIOUS
  <2> HIDE DEF r
  <2>3. Len(skipped) + 1 \in DOMAIN skipped' /\ skipped'[Len(skipped) + 1] = r
    BY <1>3, <2>2
  <2> QED BY <2>1, <2>3
<1>10. SUFFICES ASSUME NEW i \in DOMAIN job.orig.was, NEW o \in 0 .. Len(f) - 1, Intact(i, o), waits(i, o)
                PROVE  done(i, o) \/ (phase' = "emit" /\ PathKey(job.orig.was[i].name) \notin names' /\ Awaits(todo', i, o))
  <2> HIDE DEF handled, waits
  <2>1. \A i \in DOMAIN job.orig.was : \A o \in 0 .. Len(f) - 1 : Intact(i, o) =>
          done(i, o) \/ (phase' = "emit" /\ PathKey(job.orig.was[i].name) \notin names' /\ Awaits(todo', i, o))
    BY <1>2, <1>8, <1>10
  <2> QED BY <1>1, <1>4, <2>1, SurvivesStep
<1> DEFINE t   == Target(i, o)
           key == PathKey(job.orig.was[i].name)
<1>11. key \notin names /\ Awaits(todo, i, o) /\ todo # << >>
  <2>1. \E k \in DOMAIN todo : TRUE
    BY <1>10 DEF Awaits
  <2> QED BY <1>1, <1>10, <2>1
<1>12. /\ e \in Entries /\ e = todo[1] /\ 1 \in DOMAIN todo
       /\ \A k \in DOMAIN todo : k # 1 => k - 1 \in DOMAIN Tail(todo) /\ Tail(todo)[k - 1] = todo[k]
       /\ \A k \in DOMAIN Tail(todo) : k + 1 \in DOMAIN todo /\ Tail(todo)[k] = todo[k + 1]
  BY <1>1, <1>11
<1>13. t.utf8 /\ t.name = job.orig.was[i].name /\ t.crc = job.orig.was[i].bytes
  BY <1>1, <1>10, TargetFacts
<1>14. e # t => Awaits(Tail(todo), i, o)
  <2> SUFFICES ASSUME e # t PROVE Awaits(Tail(todo), i, o)
    OBVIOUS
  <2>1. PICK k \in DOMAIN todo : todo[k] = t
    BY <1>11 DEF Awaits
  <2> HIDE DEF e, t
  <2>2. k # 1
    BY <1>12, <2>1
  <2>3. k - 1 \in DOMAIN Tail(todo) /\ Tail(todo)[k - 1] = t
    BY <1>12, <2>1, <2>2
  <2>4. \A j \in DOMAIN Tail(todo) : \E h \in DOMAIN todo : Tail(todo)[j] = todo[h]
    BY <1>12
  <2> QED BY <1>11, <2>3, <2>4 DEF Awaits, t
<1>15. e # t => ~(e.utf8 /\ PathKey(e.name) = key)
  BY <1>11, <1>12 DEF Awaits
<1>16. e = t => why \in {"none", "entry_limit", "total_limit"}
  BY <1>1, <1>10, <1>11, TargetFacts
<1> HIDE DEF handled, waits, t, key, f
<1>17. CASE Finish
  <2>1. Len(entries) > MaxEntries
    <3>1. ~(Len(entries) - Len(todo) < MaxEntries) /\ Len(todo) \in Nat /\ Len(todo) # 0
      BY <1>1, <1>11, <1>17 DEF Finish, Emitting
    <3>2. Len(entries) \in Nat /\ MaxEntries \in Nat
      BY LimitsAssumption DEF TypeInv, TypeOK
    <3> QED BY <3>1, <3>2
  <2>2. skipped' = Append(skipped, [name |-> << >>, why |-> "entry_count_limit"])
    BY <1>17, <2>1 DEF Finish
  <2>3. Limits("entry_count_limit")
    BY DEF Limits
  <2> QED BY <1>9, <2>2, <2>3
<1>18. CASE Emit
  <2>1. why = "none" /\ names' = names \cup {PathKey(e.name)}
    BY <1>18 DEF Emit, f
  <2>2. \/ emitted' = Append(emitted, [path |-> SafePath(e.name), bytes |-> x.bytes, entry |-> e])
           /\ todo' = Tail(todo) /\ phase' = phase
        \/ sinkFailed'
    BY <1>18 DEF Emit, f
  <2>3. CASE sinkFailed'
    BY <2>3
  <2>4. CASE emitted' = Append(emitted, [path |-> SafePath(e.name), bytes |-> x.bytes, entry |-> e])
             /\ todo' = Tail(todo) /\ phase' = phase
    <3> DEFINE m == [path |-> SafePath(e.name), bytes |-> x.bytes, entry |-> e]
    <3>1. m.entry = e
      OBVIOUS
    <3>2. emitted' = Append(emitted, m)
      BY <2>4
    <3> HIDE DEF m, e, x
    <3>3. Len(emitted) + 1 \in DOMAIN emitted' /\ emitted'[Len(emitted) + 1] = m
      BY <3>2 DEF EmitInv
    <3>4. CASE e = t
      BY <3>1, <3>3, <3>4 DEF t
    <3>5. CASE e # t
      <4>1. e.utf8
        <5>1. why = "none" => e.utf8
          BY DEF Abstention
        <5> QED BY <2>1, <5>1
      <4>2. key \notin names'
        BY <1>11, <1>15, <2>1, <3>5, <4>1
      <4> QED BY <1>1, <1>14, <2>4, <3>5, <4>2 DEF key
    <3> QED BY <3>4, <3>5
  <2> QED BY <2>2, <2>3, <2>4
<1>19. CASE Skip
  <2>1. /\ why # "none" /\ skipped' = Append(skipped, [name |-> e.name, why |-> why])
        /\ names' = IF why \in {"invalid_utf8_path", "directory", "unsafe_path"}
                    THEN names ELSE names \cup {PathKey(e.name)}
        /\ todo' = Tail(todo) /\ phase' = phase
    BY <1>19 DEF Skip, f
  <2>2. CASE e = t
    <3>1. Limits(why)
      BY <1>16, <2>1, <2>2 DEF Limits
    <3> HIDE DEF why
    <3> QED BY <1>9, <2>1, <3>1
  <2>3. CASE e # t
    <3>1. ~e.utf8 => why = "invalid_utf8_path"
      BY DEF Abstention
    <3> HIDE DEF why, e
    <3>2. key \notin names'
      BY <1>11, <1>15, <2>1, <2>3, <3>1
    <3> QED BY <1>1, <1>14, <2>1, <2>3, <3>2 DEF key
  <2> QED BY <2>2, <2>3
<1> QED BY <1>17, <1>18, <1>19

\* So an intact member is never lost.
LEMMA SurvivesNext == TypeInv /\ EmitInv /\ ListedInv /\ SurvivesInv /\ [Next]_vars => SurvivesInv'
<1> SUFFICES ASSUME TypeInv, EmitInv, ListedInv, SurvivesInv, [Next]_vars, DirectoryThere PROVE SurvivesInv'
  <2>1. job' = job => (DirectoryThere' = DirectoryThere)
    BY DEF DirectoryThere, DirectoryWhole, FirstRecord
  <2>2. [Next]_vars => job' = job
    BY DEF Next, vars, FindContainers, ReadDirectory, AdoptSurviving, NoSurvivor, Repoint, Directly, StartMerge,
           Accept, Refuse, FinishMerge, Emit, Skip, Finish, Terminated
  <2> QED BY <2>1, <2>2 DEF SurvivesInv
<1>1. CASE Terminated \/ UNCHANGED vars
  <2>1. UNCHANGED <<job, phase, entries, taken, todo, names, emitted, skipped, sinkFailed>>
    BY <1>1 DEF Terminated, vars, parseVars, mergeVars, emitVars
  <2>2. /\ phase' \notin {"emit", "done"} => names' = {}
        /\ \E S : skipped' \in Seq(S)
        /\ phase' = "repoint" => entries' = Recorded
    BY <2>1 DEF SurvivesInv
  <2>3. \A i \in DOMAIN job.orig.was : \A o \in 0 .. Len(job.file) - 1 : Intact(i, o) =>
           /\ phase' \in {"decide", "merge"} => Awaits(entries', i, o)
           /\ phase' = "merge" => o \in taken'
           /\ phase' \in {"emit", "done"} =>
                \/ sinkFailed'
                \/ \E k \in DOMAIN skipped' : Limits(skipped'[k].why)
                \/ \E k \in DOMAIN emitted' : emitted'[k].entry = Target(i, o)
                \/ phase' = "emit" /\ PathKey(job.orig.was[i].name) \notin names' /\ Awaits(todo', i, o)
    BY <2>1 DEF SurvivesInv
  <2> QED BY <2>1, <2>2, <2>3, SurvivesStep
<1> QED BY <1>1, SurvivesReading, SurvivesMerging, SurvivesEmitting DEF Next

\* With the directory whole every member is handed out whose header and payload are
\* somewhere in the file, wherever the bytes between the members went: offset
\* reconciliation points its record there (OffsetMap::infer and map), the merge neither
\* drops it nor admits a rival for its path (reconcile_cd_and_scan), and nothing holds
\* it back when its turn comes but a limit or the sink (recover_verified_entries_to).
THEOREM IntactTheorem == Spec => []IntactMembersSurvive
<1>1. TypeInv /\ [Next]_vars => TypeInv'
  BY TypeReading, TypeMerging, TypeEmitting DEF Next
<1>2. Init => ListedInv
  BY DEF Init, ListedInv
<1>3. Init => SurvivesInv
  <2> SUFFICES ASSUME Init PROVE SurvivesInv
    OBVIOUS
  <2>1. phase = "containers" /\ names = {} /\ skipped = << >>
    BY DEF Init
  <2>2. << >> \in Seq({})
    OBVIOUS
  <2> QED BY <2>1, <2>2 DEF SurvivesInv
<1>4. TypeInv /\ EmitInv /\ BackedInv /\ SurvivesInv => IntactMembersSurvive
  <2> SUFFICES ASSUME TypeInv, EmitInv, BackedInv, SurvivesInv, Done, ~LimitHit, DirectoryThere,
                      NEW i \in DOMAIN job.orig.was,
                      NEW o \in 0 .. Len(job.file) - 1, Intact(i, o)
               PROVE  [path |-> SafePath(job.orig.was[i].name), bytes |-> job.orig.was[i].bytes] \in Results
    BY DEF IntactMembersSurvive
  <2>1. phase = "done" /\ ~sinkFailed /\ ~\E k \in DOMAIN skipped : Limits(skipped[k].why)
    BY DEF Done, LimitHit, Limits
  <2>2. PICK k \in DOMAIN emitted : emitted[k].entry = Target(i, o)
    BY <2>1 DEF SurvivesInv
  <2> DEFINE e == emitted[k].entry
  <2>3. emitted[k].path = SafePath(e.name) /\ emitted[k].bytes = e.crc
    BY EmittedIs DEF BackedInv
  <2>4. e.name = job.orig.was[i].name /\ e.crc = job.orig.was[i].bytes
    BY <2>2, TargetFacts DEF TypeInv
  <2>5. Of(emitted[k]) = [path |-> SafePath(job.orig.was[i].name), bytes |-> job.orig.was[i].bytes]
    BY <2>3, <2>4 DEF Of
  <2> QED BY <2>5 DEF Results
<1> QED BY TypeInit, EmitInit, BackedInit, EmitNext, BackedNext, ListedNext, SurvivesNext, <1>1, <1>2, <1>3, <1>4, PTL DEF Spec
-----------------------------------------------------------------------------
\* A directory read from the middle.

\* A walk that reads a record starts at one, and ends before a last cell that is none.
LEMMA WalkBound ==
  ASSUME NEW f, IsFile(f), NEW from \in Nat, NEW to \in Int, Kind(f, Len(f) - 1) # "central",
         WalkDirectory(f, from, to) # << >>
  PROVE  Kind(f, from) = "central" /\ from + Len(WalkDirectory(f, from, to)) < Len(f)
<1> DEFINE k == Cardinality(RecordsIn(f, from, to))
           w == WalkDirectory(f, from, to)
<1>1. k \in Nat /\ \A i \in 1 .. k : from + i - 1 \in RecordsIn(f, from, to)
  BY RecordsAreFirst
<1>2. \A i \in 1 .. k : Kind(f, from + i - 1) = "central"
  <2>1. \A o \in RecordsIn(f, from, to) : Kind(f, o) = "central"
    BY FirstOfSubset DEF RecordsIn
  <2> QED BY <1>1, <2>1
<1>3. w \in Seq(StoredEntries) /\ DOMAIN w = 1 .. k
  <2>1. w \in Seq(StoredEntries)
    BY WalkType
  <2>2. DOMAIN w = 1 .. k
    BY DEF WalkDirectory
  <2> QED BY <2>1, <2>2
<1> HIDE DEF k, w
<1>4. Len(w) = k /\ k >= 1
  <2>1. DOMAIN w = 1 .. Len(w) /\ Len(w) \in Nat
    BY <1>3
  <2>2. Len(w) = k
    BY <1>1, <1>3, <2>1
  <2>3. Len(w) # 0
    BY <1>3 DEF w
  <2> QED BY <1>1, <2>2, <2>3
<1>5. Kind(f, from) = "central"
  <2>1. 1 \in 1 .. k /\ from + 1 - 1 = from
    BY <1>1, <1>4
  <2> QED BY <1>2, <2>1
<1>6. from + k < Len(f)
  <2>1. k \in 1 .. k /\ Kind(f, from + k - 1) = "central"
    BY <1>1, <1>2, <1>4
  <2>2. from + k - 1 \in 0 .. Len(f) - 1 /\ Len(f) \in Nat
    BY <1>1, <2>1, CellAt, GoneFacts DEF IsFile
  <2>3. from + k - 1 # Len(f) - 1
    BY <2>1
  <2> QED BY <1>1, <2>2, <2>3
<1> QED BY <1>4, <1>5, <1>6 DEF w

\* The record the directory is read from is in the open.
AtRecord == horizon \in Nat /\ Kind(job.file, horizon) = "central" /\ ~Owned(containers, horizon)

\* With the directory whole, what is read starts at an open record and no more is read
\* than lies between it and the end record, whose count is right; so the directory
\* passes for complete only if there was room for all of it.
PartInv ==
  DirectoryWhole =>
    /\ phase \in {"surviving", "repoint", "decide"} => declared = Len(job.orig.was)
    /\ phase \in {"containers", "directory", "surviving", "repoint", "decide"} => ~enumerates
    /\ phase \in {"containers", "directory", "surviving"} => entries = << >> /\ ~found
    /\ phase \in {"repoint", "decide"} => found \/ entries = << >>
    /\ phase \in {"repoint", "decide"} /\ found => AtRecord /\ horizon + Len(entries) < Len(job.file)
    /\ enumerates => AtRecord /\ horizon + Len(job.orig.was) < Len(job.file)

\* Reading the directory, wherever it is taken from, and re-pointing its records.
LEMMA PartReading ==
  ASSUME TypeInv, PartInv, DirectoryWhole, DirectoryWhole',
         FindContainers \/ ReadDirectory \/ AdoptSurviving \/ NoSurvivor \/ Repoint
  PROVE  PartInv'
<1> DEFINE f == job.file
           n == Len(job.orig.was)
<1>1. job \in Jobs /\ IsFile(f) /\ entries \in Seq(Entries)
  BY FileType DEF TypeInv, TypeOK
<1>2. /\ HasEnd(f) /\ f[FindEocd(f) + 1].total = n /\ Kind(f, Len(f) - 1) = "end"
  <2>1. Len(f) - 1 + 1 = Len(f)
    BY <1>1, FileType
  <2> QED BY <1>1, <2>1, EndFound
<1>3. CASE FindContainers
  BY <1>3 DEF FindContainers, PartInv
<1>4. CASE ReadDirectory
  <2> DEFINE start == DirectoryStart(f, FindEocd(f))
             past  == DirectoryPast(f, FindEocd(f), start)
             w     == WalkDirectory(f, start, past)
  <2>1. start \in Nat /\ past \in Int
    BY <1>1, <1>2, EndFacts
  <2>2. w # << >> => Kind(f, start) = "central" /\ start + Len(w) < Len(f)
    BY <1>1, <1>2, <2>1, WalkBound
  <2> HIDE DEF w, start, past
  <2>3. /\ declared' = n /\ UNCHANGED <<job, containers, enumerates>> /\ found' = (entries' # << >>)
        /\ phase' = IF entries' = << >> THEN "surviving" ELSE "repoint"
        /\ \/ entries' = << >>
           \/ entries' = w /\ horizon' = start /\ ~Owned(containers, start)
    BY <1>2, <1>4 DEF ReadDirectory, start, past, w
  <2>4. ~enumerates
    BY <1>4 DEF ReadDirectory, PartInv
  <2>5. CASE entries' = << >>
    BY <2>3, <2>4, <2>5 DEF PartInv
  <2>6. CASE entries' # << >>
    <3>1. AtRecord' /\ horizon' + Len(entries') < Len(f)
      BY <2>1, <2>2, <2>3, <2>6 DEF AtRecord
    <3> QED BY <2>3, <2>4, <2>6, <3>1 DEF PartInv
  <2> QED BY <2>5, <2>6
<1>5. CASE AdoptSurviving
  <2>1. PICK start \in SurvivingChains(f) :
          /\ ~Owned(containers, start) /\ horizon' = start
          /\ \E delta \in Deltas(f, start) :
               entries' = Shifted(WalkDirectory(f, start, ChainEnd(f, start)), delta)
    BY <1>5 DEF AdoptSurviving
  <2> DEFINE w == WalkDirectory(f, start, ChainEnd(f, start))
  <2>2. start \in ChainStarts(f) /\ start \in 0 .. Len(f) - 1 /\ Kind(f, start) = "central"
    BY <2>1 DEF SurvivingChains, ChainStarts
  <2>3. start \in Nat /\ ChainEnd(f, start) \in Nat /\ Len(f) \in Nat /\ start < Len(f) - 1
    <3>1. start \in Nat /\ ChainEnd(f, start) \in Nat
      BY <1>1, <2>2, ChainFacts
    <3>2. start # Len(f) - 1
      BY <1>2, <2>2
    <3> QED BY <1>1, <2>2, <3>1, <3>2, FileType
  <2>4. w \in Seq(StoredEntries)
    BY <1>1, <2>3, WalkType
  <2>5. w # << >> => start + Len(w) < Len(f)
    BY <1>1, <1>2, <2>3, WalkBound
  <2> HIDE DEF w
  <2>6. Len(entries') = Len(w)
    <3>0. PICK delta \in Deltas(f, start) : entries' = Shifted(w, delta)
      BY <2>1 DEF w
    <3>1. DOMAIN w = 1 .. Len(w) /\ Len(w) \in Nat
      BY <2>4
    <3> QED BY <3>0, <3>1 DEF Shifted
  <2>7. start + Len(w) < Len(f)
    <3>1. w = << >> => Len(w) = 0
      OBVIOUS
    <3> QED BY <2>3, <2>5, <3>1
  <2>8. /\ UNCHANGED <<job, containers, declared, enumerates>> /\ found' /\ phase = "surviving" /\ phase' = "repoint"
    BY <1>5 DEF AdoptSurviving
  <2>9. AtRecord' /\ horizon' + Len(entries') < Len(f)
    BY <2>1, <2>2, <2>3, <2>6, <2>7, <2>8 DEF AtRecord
  <2> QED BY <2>8, <2>9 DEF PartInv
<1>6. CASE NoSurvivor
  BY <1>6 DEF NoSurvivor, parseVars, PartInv
<1>7. CASE Repoint
  <2> DEFINE index == IndexedHeaders(f)
             K     == InferredMap(Observations(f, index, entries))
  <2>1. /\ entries' = [i \in DOMAIN entries |-> Repointed(f, index, K, entries[i])]
        /\ phase = "repoint" /\ phase' = "decide" /\ UNCHANGED <<job, containers, declared, horizon, found, enumerates>>
    BY <1>7 DEF Repoint
  <2> HIDE DEF index, K
  <2>2. Len(entries') = Len(entries) /\ (entries = << >> => entries' = << >>)
    <3>1. entries \in Seq(Entries) /\ DOMAIN entries = 1 .. Len(entries) /\ Len(entries) \in Nat
      BY <1>1
    <3> QED BY <2>1, <3>1
  <2>3. AtRecord' = AtRecord
    BY <2>1 DEF AtRecord
  <2> QED BY <2>1, <2>2, <2>3 DEF PartInv
<1> QED BY <1>3, <1>4, <1>5, <1>6, <1>7

\* The merge counts the records, and nothing after it changes where they were read.
LEMMA PartNext == TypeInv /\ PartInv /\ [Next]_vars => PartInv'
<1> SUFFICES ASSUME TypeInv, PartInv, [Next]_vars, DirectoryWhole' PROVE PartInv'
  BY DEF PartInv
<1>1. job' = job
  BY DEF Next, vars, FindContainers, ReadDirectory, AdoptSurviving, NoSurvivor, Repoint, Directly, StartMerge,
         Accept, Refuse, FinishMerge, Emit, Skip, Finish, Terminated
<1>2. DirectoryWhole
  BY <1>1 DEF DirectoryWhole, FirstRecord
<1>3. CASE FindContainers \/ ReadDirectory \/ AdoptSurviving \/ NoSurvivor \/ Repoint
  BY <1>2, <1>3, PartReading
<1>4. CASE Directly \/ StartMerge
  <2>1. /\ phase = "decide" /\ phase' \in {"emit", "merge"} /\ UNCHANGED <<containers, horizon>>
        /\ enumerates' => declared = Len(entries) /\ (found \/ entries # << >>)
    <3>1. CASE Directly
      BY <3>1 DEF Directly, Complete
    <3>2. CASE StartMerge
      BY <3>2 DEF StartMerge
    <3> QED BY <1>4, <3>1, <3>2
  <2>2. enumerates' => AtRecord /\ horizon + Len(job.orig.was) < Len(job.file)
    BY <1>2, <2>1 DEF PartInv
  <2>3. AtRecord' = AtRecord
    BY <1>1, <2>1 DEF AtRecord
  <2> QED BY <1>1, <2>1, <2>2, <2>3 DEF PartInv
<1>5. CASE Accept \/ Refuse \/ FinishMerge \/ Emit \/ Skip \/ Finish
  <2>1. /\ phase' \in {"merge", "emit", "done"} /\ UNCHANGED <<containers, horizon, enumerates>>
    BY <1>5 DEF Accept, Refuse, Candidate, FinishMerge, Emit, Skip, Emitting, Finish, parseVars
  <2>2. AtRecord' = AtRecord
    BY <1>1, <2>1 DEF AtRecord
  <2> QED BY <1>1, <1>2, <2>1, <2>2 DEF PartInv
<1>6. CASE Terminated \/ UNCHANGED vars
  <2>1. UNCHANGED <<phase, parseVars>>
    BY <1>6 DEF Terminated, vars
  <2>2. AtRecord' = AtRecord
    BY <1>1, <2>1 DEF AtRecord, parseVars
  <2> QED BY <1>1, <1>2, <2>1, <2>2 DEF PartInv, parseVars
<1> QED BY <1>3, <1>4, <1>5, <1>6 DEF Next

\* A directory that was read from the middle on never passes for the whole one: with
\* the directory whole at the end of the file and no other record in the open, the
\* entries are as many as the end record counts only if they were read from the first
\* record on (cd_count_consistent of parse_zip_with_policy).
THEOREM PartTheorem == Spec => []PartIsNotAll
<1>1. TypeInv /\ [Next]_vars => TypeInv'
  BY TypeReading, TypeMerging, TypeEmitting DEF Next
<1>2. Init => PartInv
  BY DEF Init, PartInv
<1>3. TypeInv /\ PartInv => PartIsNotAll
  <2> SUFFICES ASSUME TypeInv, PartInv, enumerates, DirectoryWhole,
                      \A o \in 0 .. FirstRecord - 1 :
                        Kind(job.file, o) = "central" => Owned(containers, o)
               PROVE  horizon = FirstRecord
    BY DEF PartIsNotAll
  <2>1. AtRecord /\ horizon + Len(job.orig.was) < Len(job.file)
    BY DEF PartInv
  <2>2. /\ Len(job.orig.was) \in Nat /\ FirstRecord = Len(job.file) - (Len(job.orig.was) + 1)
        /\ Len(job.file) \in Nat
    BY EndFound, FileType DEF TypeInv
  <2>3. horizon \in Nat /\ horizon <= FirstRecord /\ FirstRecord \in Int
    <3>1. \A h, x, y \in Nat : h + x < y => h <= y - (x + 1)
      OBVIOUS
    <3>2. horizon \in Nat
      BY <2>1 DEF AtRecord
    <3>3. FirstRecord \in Int
      BY <2>2
    <3> QED BY <2>1, <2>2, <3>1, <3>2, <3>3
  <2>4. horizon \notin 0 .. FirstRecord - 1
    BY <2>1 DEF AtRecord
  <2> QED BY <2>3, <2>4
<1> QED BY TypeInit, <1>1, <1>2, <1>3, PartNext, PTL DEF Spec
=============================================================================
