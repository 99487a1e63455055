------------------------- MODULE ZipRecoveryProofs -------------------------
(***************************************************************************)
(* Proofs about the ZIP repairs, for archives of any number of members     *)
(* with any damage the model knows: what is published leaves payloads      *)
(* alone and hides no damage, and a rebuilt directory resolves.            *)
(***************************************************************************)
EXTENDS ZipRecovery, RecoveryPassesProofs, FoldProofs

-----------------------------------------------------------------------------
\* Archives and their directories.

LEMMA ArchiveType ==
  ASSUME NEW a \in Archives
  PROVE  /\ a.locals \in Seq(LocalRecords) /\ a.cd \in Seq(DirectoryRecords)
         /\ a.eocd \in {"ok", "astray", "oob", "missing"} /\ a.declared \in Nat
         /\ a = [locals |-> a.locals, cd |-> a.cd, eocd |-> a.eocd, declared |-> a.declared]
         /\ \A k \in DOMAIN a.cd : a.cd[k].at \in DOMAIN a.locals
         /\ \A i \in DOMAIN a.locals : a.locals[i] \in LocalRecords
         /\ \A k \in DOMAIN a.cd : a.cd[k] \in DirectoryRecords
BY DEF Archives

\* No checksum field holds the checksum of a payload that cannot be delimited.
LEMMA ChecksumIsNoNone ==
  ASSUME NEW l \in LocalRecords, NEW size, CrcOver(l, size) \in Checksums
  PROVE  CrcOver(l, size) = l.body
BY DEF CrcOver, Checksums, Payloads

\* The entries read are the directory's, or none.
LEMMA EntriesFacts ==
  ASSUME NEW a \in Archives, NEW k \in DOMAIN Entries(a)
  PROVE  k \in DOMAIN a.cd /\ Entries(a)[k] = a.cd[k]
BY DEF Entries

-----------------------------------------------------------------------------
\* zip-crc-fix.

\* It leaves everything but checksum fields as it is.
LEMMA CrcFixedFacts ==
  ASSUME NEW a \in Archives
  PROVE  LET b == CrcFixed(a)
         IN  /\ DOMAIN b.locals = DOMAIN a.locals /\ DOMAIN b.cd = DOMAIN a.cd
             /\ \A i \in DOMAIN a.locals :
                  /\ b.locals[i].body = a.locals[i].body
                  /\ b.locals[i].crc = IF HeaderDisproved(a, i) THEN Recomputed(a.locals[i])
                                       ELSE a.locals[i].crc
             /\ \A k \in DOMAIN a.cd :
                  /\ b.cd[k].at = a.cd[k].at
                  /\ b.cd[k].crc = IF k \in DOMAIN Entries(a) /\ RecordDisproved(a, k)
                                   THEN Recomputed(a.locals[a.cd[k].at]) ELSE a.cd[k].crc
<1> DEFINE b == CrcFixed(a)
           ls == [i \in DOMAIN a.locals |->
                   IF HeaderDisproved(a, i)
                   THEN [a.locals[i] EXCEPT !.crc = Recomputed(a.locals[i])] ELSE a.locals[i]]
           cs == [k \in DOMAIN a.cd |->
                   IF k \in DOMAIN Entries(a) /\ RecordDisproved(a, k)
                   THEN [a.cd[k] EXCEPT !.crc = Recomputed(a.locals[a.cd[k].at])] ELSE a.cd[k]]
<1>1. b.locals = ls /\ b.cd = cs
  BY ArchiveType DEF CrcFixed
<1>2. \A i \in DOMAIN a.locals : a.locals[i] \in LocalRecords
  BY ArchiveType
<1>3. \A k \in DOMAIN a.cd : a.cd[k] \in DirectoryRecords
  BY ArchiveType
<1> HIDE DEF b
<1>4. /\ DOMAIN b.locals = DOMAIN a.locals
      /\ \A i \in DOMAIN a.locals :
           /\ b.locals[i].body = a.locals[i].body
           /\ b.locals[i].crc = IF HeaderDisproved(a, i) THEN Recomputed(a.locals[i])
                                ELSE a.locals[i].crc
  BY <1>1, <1>2 DEF LocalRecords
<1>5. /\ DOMAIN b.cd = DOMAIN a.cd
      /\ \A k \in DOMAIN a.cd :
           /\ b.cd[k].at = a.cd[k].at
           /\ b.cd[k].crc = IF k \in DOMAIN Entries(a) /\ RecordDisproved(a, k)
                            THEN Recomputed(a.locals[a.cd[k].at]) ELSE a.cd[k].crc
  BY <1>1, <1>3 DEF DirectoryRecords
<1> QED BY <1>4, <1>5 DEF b

\* It never writes the checksum of a damaged payload where there was none of it:
\* a copy that agrees with the payload has to exist before a field is corrected.
LEMMA CrcFixHidesNothing ==
  ASSUME NEW a \in Archives, DamageShows(a)
  PROVE  DamageShows(CrcFixed(a))
<1> DEFINE b == CrcFixed(a)
<1>1. ASSUME NEW i \in DOMAIN b.locals, b.locals[i].body = "bad"
      PROVE  b.locals[i].crc # "bad"
  <2>1. i \in DOMAIN a.locals /\ a.locals[i].body = "bad" /\ a.locals[i].crc # "bad"
    BY <1>1, CrcFixedFacts DEF DamageShows
  <2>2. ASSUME HeaderDisproved(a, i) PROVE FALSE
    <3>1. PICK k \in DOMAIN Entries(a) :
            Entries(a)[k].at = i /\ Entries(a)[k].crc = Recomputed(a.locals[i])
      BY <2>2 DEF HeaderDisproved
    <3>2. k \in DOMAIN a.cd /\ a.cd[k].at = i /\ a.cd[k].crc = Recomputed(a.locals[i])
          /\ a.cd[k].crc \in Checksums
      BY <3>1, EntriesFacts, ArchiveType DEF DirectoryRecords
    <3>3. a.cd[k].crc = "bad"
      BY <2>1, <3>2, ArchiveType, ChecksumIsNoNone DEF Recomputed
    <3> QED BY <2>1, <3>2, <3>3 DEF DamageShows
  <2> QED BY <2>1, <2>2, CrcFixedFacts
<1>2. ASSUME NEW k \in DOMAIN b.cd, b.locals[b.cd[k].at].body = "bad"
      PROVE  b.cd[k].crc # "bad"
  <2>1. /\ k \in DOMAIN a.cd /\ a.cd[k].at \in DOMAIN a.locals /\ b.cd[k].at = a.cd[k].at
        /\ a.locals[a.cd[k].at].body = "bad" /\ a.locals[a.cd[k].at].crc # "bad"
        /\ a.cd[k].crc # "bad"
    BY <1>2, CrcFixedFacts, ArchiveType DEF DamageShows
  <2> DEFINE l == a.locals[a.cd[k].at]
  <2>2. ASSUME k \in DOMAIN Entries(a), RecordDisproved(a, k) PROVE FALSE
    <3>1. Recomputed(l) = l.crc
      BY <2>2, EntriesFacts DEF RecordDisproved
    <3>2. l \in LocalRecords /\ l.crc \in Checksums
      BY <2>1, ArchiveType DEF LocalRecords
    <3>3. l.crc = l.body
      BY <3>1, <3>2, ChecksumIsNoNone DEF Recomputed
    <3> QED BY <2>1, <3>3
  <2> QED BY <2>1, <2>2, CrcFixedFacts
<1> QED BY <1>1, <1>2 DEF DamageShows

-----------------------------------------------------------------------------
\* zip-rebuild.

\* The headers walked are the first of the file.
LEMMA WalkedIsPrefix ==
  ASSUME NEW a \in Archives
  PROVE  LET n == Cardinality(Walked(a))
         IN  n \in Nat /\ n <= Len(a.locals) /\ Walked(a) = 1 .. n
<1> DEFINE len == Len(a.locals)
           stops == {i \in 1 .. len + 1 : i \notin Walked(a)}
<1>1. len \in Nat /\ DOMAIN a.locals = 1 .. len /\ Walked(a) \subseteq 1 .. len
  BY ArchiveType DEF Walked
<1> HIDE DEF len
<1>2. stops \subseteq Nat /\ len + 1 \in stops
  BY <1>1
<1>3. PICK m \in stops : \A k \in stops : m <= k
  BY <1>2, LeastElement
<1>4. m \in 1 .. len + 1 /\ m \notin Walked(a)
  OBVIOUS
<1>5. \A i \in 1 .. m - 1 : i \in Walked(a)
  <2> TAKE i \in 1 .. m - 1
  <2>1. i \in 1 .. len + 1 /\ ~(m <= i)
    BY <1>1, <1>4
  <2> QED BY <1>3, <2>1
<1>6. \A i \in Walked(a) : i \in 1 .. m - 1
  <2> SUFFICES ASSUME NEW i \in Walked(a), ~(i \in 1 .. m - 1) PROVE FALSE
    OBVIOUS
  <2>1. i \in 1 .. len /\ m \in 1 .. len /\ m < i
    <3>1. i \in 1 .. len /\ i # m
      BY <1>1, <1>4
    <3> QED BY <1>1, <1>4, <3>1
  <2>2. LeadsOn(a.locals[m]) /\ \A k \in 1 .. m - 1 : LeadsOn(a.locals[k])
    <3>1. \A k \in 1 .. i - 1 : LeadsOn(a.locals[k])
      BY DEF Walked
    <3>2. m \in 1 .. i - 1 /\ \A k \in 1 .. m - 1 : k \in 1 .. i - 1
      BY <1>1, <2>1
    <3> QED BY <3>1, <3>2
  <2>3. m \in Walked(a)
    BY <1>1, <2>1, <2>2 DEF Walked, LeadsOn
  <2> QED BY <1>4, <2>3
<1>7. Walked(a) = 1 .. m - 1
  BY <1>5, <1>6
<1>8. Cardinality(1 .. m - 1) = m - 1
  <2>1. m \in Nat /\ m - 1 \in Nat
    BY <1>1, <1>4
  <2> QED BY <2>1, FS_Interval
<1>9. m - 1 \in Nat /\ m - 1 <= len
  BY <1>1, <1>4
<1> QED BY <1>7, <1>8, <1>9 DEF len

\* What it writes: the members walked, with their headers' own words, for each of
\* which the signature is there and the size leads somewhere.
LEMMA RebuiltFacts ==
  ASSUME NEW a \in Archives
  PROVE  LET b == Rebuilt(a)
             n == Cardinality(Walked(a))
         IN  /\ n \in Nat /\ n <= Len(a.locals) /\ Walked(a) = 1 .. n
             /\ DOMAIN b.locals = 1 .. n /\ DOMAIN b.cd = 1 .. n /\ Len(b.cd) = n
             /\ \A i \in 1 .. n : /\ b.locals[i] = a.locals[i] /\ Parses(a.locals[i])
                                  /\ i \in DOMAIN a.locals /\ a.locals[i] \in LocalRecords
             /\ \A k \in 1 .. n : /\ b.cd[k].at = k /\ b.cd[k].size = a.locals[k].size
                                  /\ b.cd[k].crc = a.locals[k].crc
             /\ b.eocd = "ok" /\ b.declared = n % U16
<1> DEFINE b == Rebuilt(a)
           n == Cardinality(Walked(a))
           record(i) == [at |-> i, size |-> a.locals[i].size, crc |-> a.locals[i].crc]
           cs == [i \in 1 .. n |-> record(i)]
<1>1. n \in Nat /\ n <= Len(a.locals) /\ Walked(a) = 1 .. n
  BY WalkedIsPrefix
<1>2. a.locals \in Seq(LocalRecords) /\ \A i \in DOMAIN a.locals : a.locals[i] \in LocalRecords
  BY ArchiveType
<1>3. b.locals = SubSeq(a.locals, 1, n) /\ b.cd = cs /\ b.eocd = "ok" /\ b.declared = n % U16
  BY DEF Rebuilt
<1> HIDE DEF b, n
<1>4. DOMAIN b.locals = 1 .. n /\ \A i \in 1 .. n : b.locals[i] = a.locals[i]
  BY <1>1, <1>2, <1>3, PrefixFacts
<1>5. \A i \in 1 .. n : Parses(a.locals[i]) /\ i \in DOMAIN a.locals
  BY <1>1 DEF Walked
<1>6. DOMAIN b.cd = 1 .. n /\ Len(b.cd) = n
  <2>1. cs \in [1 .. n -> {record(i) : i \in 1 .. n}]
    OBVIOUS
  <2> HIDE DEF cs
  <2> QED BY <1>1, <1>3, <2>1, FunctionSeq
<1>7. \A k \in 1 .. n : /\ b.cd[k].at = k /\ b.cd[k].size = a.locals[k].size
                        /\ b.cd[k].crc = a.locals[k].crc
  BY <1>3
<1> QED BY <1>1, <1>2, <1>3, <1>4, <1>5, <1>6, <1>7 DEF b, n

\* The directory written from the headers hides no more than the headers did.
LEMMA RebuildHidesNothing ==
  ASSUME NEW a \in Archives, DamageShows(a)
  PROVE  DamageShows(Rebuilt(a))
<1> DEFINE b == Rebuilt(a)
           n == Cardinality(Walked(a))
<1>1. /\ DOMAIN b.locals = 1 .. n /\ DOMAIN b.cd = 1 .. n
      /\ \A i \in 1 .. n : b.locals[i] = a.locals[i] /\ i \in DOMAIN a.locals
      /\ \A k \in 1 .. n : b.cd[k].at = k /\ b.cd[k].crc = a.locals[k].crc
  BY RebuiltFacts
<1> HIDE DEF b, n
<1>2. DamageShows(b)
  BY <1>1 DEF DamageShows
<1> QED BY <1>2 DEF b

\* Of a rebuilt archive with a member the detector can only doubt checksums, and
\* the count where it wrapped.
LEMMA RebuiltDefects ==
  ASSUME NEW a \in Archives, Walked(a) # {},
         NEW rule \in RangeOf(ZipDefects(Rebuilt(a)))
  PROVE  rule = "ZIP_CRC_001" \/ (rule = "ZIP_CD_003" /\ Len(Rebuilt(a).cd) >= U16)
<1> DEFINE b == Rebuilt(a)
           n == Cardinality(Walked(a))
           per == [k \in DOMAIN b.cd |-> EntryDefects(b, b.cd[k])]
           Allowed == {"ZIP_CRC_001"}
           count == IF b.declared # Len(b.cd) THEN <<"ZIP_CD_003">> ELSE << >>
<1>1. /\ n \in Nat /\ Len(b.cd) = n /\ DOMAIN b.cd = 1 .. n /\ b.eocd = "ok"
      /\ b.declared = n % U16
      /\ \A k \in 1 .. n : /\ b.locals[k] = a.locals[k] /\ Parses(a.locals[k])
                           /\ b.cd[k].at = k /\ b.cd[k].size = a.locals[k].size
  BY RebuiltFacts
<1>2. n # 0
  BY WalkedIsPrefix
<1> HIDE DEF b, n
<1>3. Entries(b) = b.cd /\ b.cd # << >>
  BY <1>1, <1>2 DEF Entries
<1>4. \A k \in DOMAIN b.cd : b.locals[b.cd[k].at].sig
  BY <1>1 DEF Parses
<1>5. \A k \in 1 .. n : EntryDefects(b, b.cd[k]) \in Seq(Allowed)
  <2> TAKE k \in 1 .. n
  <2>1. b.locals[b.cd[k].at].size = b.cd[k].size
    BY <1>1
  <2>2. EntryDefects(b, b.cd[k]) \in {<<"ZIP_CRC_001">>, << >>}
    BY <2>1 DEF EntryDefects
  <2>3. <<"ZIP_CRC_001">> \in Seq(Allowed) /\ << >> \in Seq(Allowed)
    OBVIOUS
  <2> QED BY <2>2, <2>3
<1>6. per \in Seq(Seq(Allowed))
  BY <1>1, <1>5
<1>7. FlattenSeq(per) \in Seq(Allowed)
  BY <1>6, FlattenType
<1>8. ZipDefects(b) = count \o FlattenSeq(per)
  <2>1. ZipDefects(b) = << >> \o << >> \o count \o << >> \o FlattenSeq(per)
    BY <1>1, <1>3, <1>4 DEF ZipDefects
  <2>2. count \in Seq({"ZIP_CD_003"})
    OBVIOUS
  <2> HIDE DEF per, count
  <2>3. << >> \o << >> = << >> /\ << >> \o count = count /\ count \o << >> = count
    BY <2>2
  <2> QED BY <2>1, <2>3
<1>9. count = << >> \/ (count = <<"ZIP_CD_003">> /\ n >= U16)
  <2>1. U16 \in Nat /\ U16 > 0
    BY SMT DEF U16
  <2>2. n < U16 => n % U16 = n
    BY <1>1, <2>1
  <2> QED BY <1>1, <2>1, <2>2
<1>10. \A r \in RangeOf(ZipDefects(b)) : r = "ZIP_CRC_001" \/ (r = "ZIP_CD_003" /\ n >= U16)
  <2> HIDE DEF per, count
  <2>1. CASE count = << >>
    <3>1. ZipDefects(b) \in Seq(Allowed)
      BY <1>7, <1>8, <2>1
    <3> QED BY <3>1 DEF RangeOf
  <2>2. CASE count = <<"ZIP_CD_003">> /\ n >= U16
    <3>1. ZipDefects(b) \in Seq(Allowed \cup {"ZIP_CD_003"})
      BY <1>7, <1>8, <2>2
    <3> QED BY <2>2, <3>1 DEF RangeOf
  <2> QED BY <1>9, <2>1, <2>2
<1> QED BY <1>1, <1>10 DEF b

-----------------------------------------------------------------------------
\* The engine with these strategies.

\* A published archive is the source, the source with its checksums corrected, or
\* the source with its directory rebuilt.
LEMMA PublishedArchive ==
  ASSUME SafetyInv, StagedInv, Published
  PROVE  /\ job.src \in Archives
         /\ \/ output = job.src
            \/ LastKept.by = "zip-crc-fix" /\ output = CrcFixed(job.src)
            \/ LastKept.by = "zip-rebuild" /\ output = Rebuilt(job.src) /\ Walked(job.src) # {}
         /\ LastKept.by = "zip-rebuild" => output = Rebuilt(job.src) /\ Walked(job.src) # {}
<1> DEFINE s == LastKept.by
<1>1. PICK x \in Staged[s][job.src] : x.bytes = output
  BY PublishedIsStaged
<1>2. s \in Strategies /\ job \in Jobs /\ job.src \in Blobs /\ output \in Blobs
  BY PublishedIsStaged
<1>3. x \in StagedFor(s, job.src) /\ job.src \in Archives
  BY <1>1, <1>2, ArchivesAssumption
<1>4. x.bytes # NoBytes
  BY <1>1, <1>2, BlobsAssumption
<1> HIDE DEF s
<1>5. "zip-rebuild" \notin Verbatim
  BY DEF Verbatim
<1>6. CASE s \in Verbatim
  BY <1>1, <1>3, <1>4, <1>5, <1>6 DEF StagedFor, StagedAs, s
<1>7. CASE s = "zip-rebuild"
  BY <1>1, <1>3, <1>4, <1>5, <1>7 DEF StagedFor, StagedAs, s
<1>8. CASE s \notin Verbatim /\ s # "zip-rebuild"
  BY <1>1, <1>3, <1>4, <1>8 DEF StagedFor, StagedAs, s
<1> QED BY <1>3, <1>6, <1>7, <1>8

\* Whatever recover publishes of whatever archive, the payloads are the source's,
\* and where damage shows in the source it shows in the output: no sequence of
\* repairs rewrites a checksum that the payload contradicts.
THEOREM DamageTheorem == Spec => []DamageStaysDetectable
<1>1. SafetyInv /\ StagedInv => DamageStaysDetectable
  <2> SUFFICES ASSUME SafetyInv, StagedInv, Published
               PROVE  /\ \A i \in DOMAIN output.locals : output.locals[i].body = job.src.locals[i].body
                      /\ DamageShows(job.src) => DamageShows(output)
    BY DEF DamageStaysDetectable
  <2>1. CASE output = job.src
    BY <2>1
  <2>2. CASE output = CrcFixed(job.src)
    BY <2>2, PublishedArchive, CrcFixedFacts, CrcFixHidesNothing
  <2>3. CASE output = Rebuilt(job.src)
    BY <2>3, PublishedArchive, RebuiltFacts, RebuildHidesNothing
  <2> QED BY <2>1, <2>2, <2>3, PublishedArchive
<1> QED BY <1>1, SafetyInvariant, StagedInvariant, PTL

\* What zip-rebuild publishes of whatever archive has a directory that resolves:
\* nothing but checksums is left to complain about, unless the count has wrapped.
THEOREM RebuiltTheorem == Spec => []RebuiltDirectoryResolves
<1>1. SafetyInv /\ StagedInv => RebuiltDirectoryResolves
  <2> SUFFICES ASSUME SafetyInv, StagedInv, Published, LastKept.by = "zip-rebuild"
               PROVE  /\ \A rule \in RangeOf(ZipDefects(output)) :
                           rule = "ZIP_CRC_001" \/ (rule = "ZIP_CD_003" /\ Len(output.cd) >= U16)
                      /\ \A k \in DOMAIN output.cd : output.locals[output.cd[k].at].size # "past"
    BY DEF RebuiltDirectoryResolves
  <2>1. job.src \in Archives /\ output = Rebuilt(job.src) /\ Walked(job.src) # {}
    BY PublishedArchive
  <2>2. \A rule \in RangeOf(ZipDefects(output)) :
          rule = "ZIP_CRC_001" \/ (rule = "ZIP_CD_003" /\ Len(output.cd) >= U16)
    BY <2>1, RebuiltDefects
  <2>3. \A k \in DOMAIN output.cd : output.locals[output.cd[k].at].size # "past"
    BY <2>1, RebuiltFacts DEF Parses
  <2> QED BY <2>2, <2>3
<1> QED BY <1>1, SafetyInvariant, StagedInvariant, PTL

-----------------------------------------------------------------------------
\* What the detector may report, and what it costs.

ZipReports == {"ZIP_EOCD_001", "ZIP_EOCD_002", "ZIP_CD_001", "ZIP_CD_003", "ZIP_LFH_001",
               "ZIP_SIZE_001", "ZIP_CRC_001"}

LEMMA ZipDefectsType ==
  ASSUME NEW a \in Archives
  PROVE  ZipDefects(a) \in Seq(ZipReports)
<1> DEFINE entries == Entries(a)
           per == [k \in DOMAIN entries |-> EntryDefects(a, entries[k])]
           Report(rule, holds) == IF holds THEN <<rule>> ELSE << >>
           missing == <<"ZIP_EOCD_001">>
           end   == Report("ZIP_EOCD_002", entries = << >> /\ a.eocd = "oob")
           none  == Report("ZIP_CD_001", entries = << >> /\ a.eocd # "oob")
           count == Report("ZIP_CD_003", entries # << >> /\ a.declared # Len(entries))
           sigs  == Report("ZIP_LFH_001", \E k \in DOMAIN entries : ~a.locals[entries[k].at].sig)
           each  == FlattenSeq(per)
<1>1. ZipDefects(a) = IF a.eocd = "missing" THEN missing ELSE end \o none \o count \o sigs \o each
  BY DEF ZipDefects
<1>2. /\ missing \in Seq(ZipReports) /\ << >> \in Seq(ZipReports)
      /\ \A rule \in ZipReports : <<rule>> \in Seq(ZipReports)
  BY DEF ZipReports
<1>3. end \in Seq(ZipReports) /\ none \in Seq(ZipReports) /\ count \in Seq(ZipReports)
      /\ sigs \in Seq(ZipReports)
  BY <1>2 DEF ZipReports
<1>4. PICK n \in Nat : DOMAIN entries = 1 .. n
  <2>1. a.cd \in Seq(DirectoryRecords)
    BY ArchiveType
  <2>2. entries \in Seq(DirectoryRecords)
    BY <2>1 DEF Entries
  <2> QED BY <2>2
<1>5. each \in Seq(ZipReports)
  <2>1. \A k \in 1 .. n : EntryDefects(a, entries[k]) \in Seq(ZipReports)
    <3> TAKE k \in 1 .. n
    <3>1. EntryDefects(a, entries[k]) \in {<<"ZIP_SIZE_001">>, <<"ZIP_CRC_001">>, << >>}
      BY DEF EntryDefects
    <3> QED BY <1>2, <3>1 DEF ZipReports
  <2>2. per \in [1 .. n -> Seq(ZipReports)]
    BY <1>4, <2>1
  <2> HIDE DEF per
  <2>3. per \in Seq(Seq(ZipReports))
    BY <2>2, FunctionSeq
  <2> QED BY <2>3, FlattenType
<1>6. \A x, y \in Seq(ZipReports) : x \o y \in Seq(ZipReports)
  OBVIOUS
<1> HIDE DEF missing, end, none, count, sigs, each
<1>7. end \o none \in Seq(ZipReports)
  BY <1>3, <1>6, Zenon
<1>8. end \o none \o count \in Seq(ZipReports)
  BY <1>3, <1>6, <1>7, Zenon
<1>9. end \o none \o count \o sigs \in Seq(ZipReports)
  BY <1>3, <1>6, <1>8, Zenon
<1>10. end \o none \o count \o sigs \o each \in Seq(ZipReports)
  BY <1>5, <1>6, <1>9, Zenon
<1> QED BY <1>1, <1>2, <1>10

\* The complaints about a directory cost structure and data 56 points, a checksum
\* the data alone.
LEMMA ZipPenalties ==
  /\ ZipReports \subseteq RuleIds
  /\ \A id \in ZipReports \cap (ZipEocdRules \cup ZipCdRules) :
       PenaltyFor[id].points >= 56 /\ {"structural", "data"} \subseteq PenaltyFor[id].hits
  /\ PenaltyFor["ZIP_CRC_001"].hits = {"data"}
<1> DEFINE Of(rule, points, hits) == [rule |-> rule, points |-> points, hits |-> hits]
           Directory == {"ZIP_EOCD_001", "ZIP_EOCD_002", "ZIP_CD_001", "ZIP_CD_003"}
<1>1. ZipReports \subseteq RuleIds
  <2>1. \A id \in ZipReports : \E r \in ZipRules : r.id = id
    BY RowsHas DEF ZipRules, ZipReports
  <2> QED BY <2>1 DEF RuleIds, Rules
<1>2. \A p \in RulePenalties :
        /\ p.rule \in Directory => p.points >= 56 /\ {"structural", "data"} \subseteq p.hits
        /\ p.rule = "ZIP_CRC_001" => p.hits = {"data"}
  BY DEF RulePenalties, HitAll, HitSD, HitS, HitD, Subscores
<1>3. \A id \in Directory \cup {"ZIP_CRC_001"} : \E p \in RulePenalties : p.rule = id
  <2>1. Of("ZIP_EOCD_001", 85, Subscores) \in RulePenalties
    BY DEF RulePenalties, HitAll
  <2>2. Of("ZIP_CD_001", 85, Subscores) \in RulePenalties
    BY DEF RulePenalties, HitAll
  <2>3. Of("ZIP_EOCD_002", 63, Subscores) \in RulePenalties
    BY DEF RulePenalties, HitAll
  <2>4. Of("ZIP_CD_003", 56, {"structural", "data"}) \in RulePenalties
    BY DEF RulePenalties, HitSD
  <2>5. Of("ZIP_CRC_001", 10, {"data"}) \in RulePenalties
    BY DEF RulePenalties, HitD
  <2> QED BY <2>1, <2>2, <2>3, <2>4, <2>5
<1>4. ZipReports \cap (ZipEocdRules \cup ZipCdRules) = Directory
  BY DEF ZipReports, ZipEocdRules, ZipCdRules
<1>5. Directory \cup {"ZIP_CRC_001"} \subseteq ZipReports
  BY DEF ZipReports
<1> HIDE DEF Directory
<1> QED BY <1>1, <1>2, <1>3, <1>4, <1>5, PenaltyFacts

\* None of them is a flipped bit or a truncation.
LEMMA ZipCategories ==
  ASSUME NEW r \in Rules, r.id \in ZipReports \cup {"INTEGRITY_HASH_001"}
  PROVE  r.category \in {"StructuralCorruption", "ChecksumMismatch", "MissingData"}
<1>1. \/ r \in ZipRules \/ r \in TarRules \/ r \in IsoRules \/ r \in GzipRules \/ r \in PdfRules
      \/ r \in SqliteRules \/ r \in StreamRules \/ r \in CrossFormatRules \/ r \in ThreatRules
  BY DEF Rules
<1>2. CASE r \in ZipRules
  BY <1>2, RowsFacts DEF ZipRules, ZipReports
<1>3. CASE r \in TarRules
  BY <1>3, RowsFacts DEF TarRules, ZipReports
<1>4. CASE r \in IsoRules
  BY <1>4, RowsFacts DEF IsoRules, ZipReports
<1>5. CASE r \in GzipRules
  BY <1>5, RowsFacts DEF GzipRules, ZipReports
<1>6. CASE r \in PdfRules
  BY <1>6, RowsFacts DEF PdfRules, ZipReports
<1>7. CASE r \in SqliteRules
  BY <1>7, RowsFacts DEF SqliteRules, ZipReports
<1>8. CASE r \in StreamRules
  BY <1>8, RowsFacts DEF StreamRules, ZipReports
<1>9. CASE r \in CrossFormatRules
  BY <1>9, RowsFacts DEF CrossFormatRules, ZipReports
<1>10. CASE r \in ThreatRules
  BY <1>10, RowsFacts DEF ThreatRules, ZipReports
<1> QED BY <1>1, <1>2, <1>3, <1>4, <1>5, <1>6, <1>7, <1>8, <1>9, <1>10

\* For such findings the directory is rebuilt first; correcting checksums is all
\* that may follow.
LEMMA ZipApplies ==
  ASSUME NEW found, NEW listed, found \subseteq ZipReports \cup {"INTEGRITY_HASH_001"},
         found \cap (ZipEocdRules \cup ZipCdRules) # {}
  PROVE  LET applies == {s \in Strategies : CanApply(s, "Zip", found, listed)} IN
           /\ "zip-rebuild" \in applies /\ applies \subseteq {"zip-rebuild", "zip-crc-fix"}
           /\ \A t \in applies \ {"zip-rebuild"} : ~Before(t, "zip-rebuild")
           /\ Risk["zip-rebuild"] = "Safe"
<1>1. found \cap Flipped = {} /\ found \cap Truncated = {}
  BY ZipCategories DEF Flipped, Truncated, InCategory
<1>2. "zip-rebuild" \in Strategies /\ "zip-crc-fix" \in Strategies
  BY DEF Strategies, AllStrategies
<1>3. /\ ProfileOf["zip-rebuild"] = ZipCentralDirectoryRebuild
      /\ ProfileOf["zip-crc-fix"] = ZipCrcFix
  BY <1>2 DEF ProfileOf
<1>4. CanApply("zip-rebuild", "Zip", found, listed)
  BY <1>3 DEF CanApply, ZipCentralDirectoryRebuild, Profile
<1>5. ASSUME NEW s \in Strategies, "Zip" \in ProfileOf[s].formats,
             s \notin {"zip-rebuild", "zip-crc-fix"}
      PROVE  ProfileOf[s].applies \in {Flipped, Truncated} /\ s # "forensic-carve"
  BY <1>5 DEF Strategies, AllStrategies, ProfileOf, Profile, BitFlipCorrection,
         ZipCentralDirectoryRebuild, ZipCrcFix,
         TarChecksumFix, TarTerminatorAppend, TarSizeBoundaryResync, TarBlockReorder,
         GzMagicRestore, GzTrailerRecompute, GzMemberSalvage, GzPartialInflate,
         SevenZSignatureRestore, TarContinuationSalvage, IsoSectorReconstruction,
         PartialExtraction, ForensicCarving
<1>6. \A s \in Strategies : CanApply(s, "Zip", found, listed) => s \in {"zip-rebuild", "zip-crc-fix"}
  BY <1>1, <1>5 DEF CanApply
<1>7. ~Before("zip-crc-fix", "zip-rebuild")
  <2>1. ProfileOf["zip-rebuild"].priority = 80 /\ ProfileOf["zip-crc-fix"].priority = 75
    BY <1>3 DEF ZipCentralDirectoryRebuild, ZipCrcFix, Profile
  <2> QED BY <2>1 DEF Before
<1>8. Risk["zip-rebuild"] = "Safe"
  BY <1>2, <1>3 DEF Risk, ZipCentralDirectoryRebuild, Profile
<1> QED BY <1>2, <1>4, <1>6, <1>7, <1>8

-----------------------------------------------------------------------------
\* Damage confined to the directory.

\* The walk reaches every member, and what is written of them is their own.
LEMMA WholeIsRebuilt ==
  ASSUME NEW a \in Archives, DirectoryDamageOnly(a)
  PROVE  LET b == Rebuilt(a) IN
           /\ Walked(a) # {} /\ HeadIsZip(b) /\ b.locals = a.locals /\ Len(b.cd) < U16
           /\ \A i \in DOMAIN b.locals :
                \E k \in DOMAIN Entries(b) :
                  /\ Entries(b)[k].at = i /\ Entries(b)[k].size = "true"
                  /\ Entries(b)[k].crc = b.locals[i].crc
<1> DEFINE b == Rebuilt(a)
           n == Cardinality(Walked(a))
           len == Len(a.locals)
<1>1. a.locals \in Seq(LocalRecords) /\ len \in Nat /\ len < U16 /\ len # 0 /\ DOMAIN a.locals = 1 .. len
  BY ArchiveType DEF DirectoryDamageOnly
<1>2. \A i \in 1 .. len : /\ LeadsOn(a.locals[i]) /\ Parses(a.locals[i])
                          /\ a.locals[i].sig /\ a.locals[i].size = "true"
  BY <1>1 DEF DirectoryDamageOnly, LeadsOn, Parses
<1>3. Walked(a) = 1 .. len
  <2>1. \A i \in 1 .. len : \A k \in 1 .. i - 1 : k \in 1 .. len
    BY <1>1
  <2> QED BY <1>1, <1>2, <2>1 DEF Walked
<1>4. /\ n \in Nat /\ 1 .. n = 1 .. len
      /\ DOMAIN b.locals = 1 .. n /\ DOMAIN b.cd = 1 .. n /\ Len(b.cd) = n /\ b.eocd = "ok"
      /\ \A i \in 1 .. n : b.locals[i] = a.locals[i]
      /\ \A k \in 1 .. n : /\ b.cd[k].at = k /\ b.cd[k].size = a.locals[k].size
                           /\ b.cd[k].crc = a.locals[k].crc
  BY <1>3, RebuiltFacts
<1>5. b.locals \in Seq(LocalRecords)
  <2>1. b.locals = SubSeq(a.locals, 1, n) /\ n <= len
    BY RebuiltFacts DEF Rebuilt
  <2> HIDE DEF b, n
  <2> QED BY <1>1, <1>4, <2>1, PrefixFacts
<1> HIDE DEF b, n, len
<1>6. n = len
  BY <1>1, <1>4
<1>7. b.locals = a.locals
  <2>1. Len(b.locals) = len
    BY <1>1, <1>4, <1>5, <1>6
  <2> QED BY <1>1, <1>4, <1>5, <1>6, <2>1, SeqEqual DEF len
<1>8. Walked(a) # {} /\ 1 \in 1 .. len
  <2>1. 1 \in 1 .. len
    BY <1>1
  <2> QED BY <1>3, <2>1
<1>9. HeadIsZip(b)
  BY <1>1, <1>2, <1>7, <1>8 DEF HeadIsZip, len
<1>10. Entries(b) = b.cd
  BY <1>4 DEF Entries
<1>11. \A i \in DOMAIN b.locals :
         \E k \in DOMAIN Entries(b) :
           /\ Entries(b)[k].at = i /\ Entries(b)[k].size = "true"
           /\ Entries(b)[k].crc = b.locals[i].crc
  <2> TAKE i \in DOMAIN b.locals
  <2>1. i \in 1 .. n /\ i \in 1 .. len
    BY <1>4
  <2>2. i \in DOMAIN Entries(b)
    BY <1>4, <1>10, <2>1
  <2>3. Entries(b)[i].at = i /\ Entries(b)[i].size = "true" /\ Entries(b)[i].crc = b.locals[i].crc
    BY <1>2, <1>4, <1>10, <2>1
  <2> QED BY <2>2, <2>3
<1> QED BY <1>1, <1>4, <1>6, <1>7, <1>8, <1>9, <1>11 DEF b

\* The findings of a request, with or without a manifest that contradicts it.
LEMMA FindingsOf ==
  ASSUME NEW j \in Jobs, j.found \in Seq(ZipReports)
  PROVE  LET found == Corruptions(j) IN
           /\ found \in Seq(ZipReports \cup {"INTEGRITY_HASH_001"})
           /\ RangeOf(j.found) \subseteq RangeOf(found)
           /\ RangeOf(found) \subseteq ZipReports \cup {"INTEGRITY_HASH_001"}
<1> DEFINE S == ZipReports \cup {"INTEGRITY_HASH_001"}
           more == Append(j.found, "INTEGRITY_HASH_001")
<1>1. j.found \in Seq(S) /\ "INTEGRITY_HASH_001" \in S
  OBVIOUS
<1> HIDE DEF S
<1>2. RangeOf(more) = RangeOf(j.found) \cup {"INTEGRITY_HASH_001"} /\ more \in Seq(S)
  BY <1>1, RangeOfAppend
<1>3. Corruptions(j) = more \/ Corruptions(j) = j.found
  BY DEF Corruptions
<1> HIDE DEF more
<1>4. Corruptions(j) \in Seq(S) /\ RangeOf(j.found) \subseteq RangeOf(Corruptions(j))
  BY <1>1, <1>2, <1>3
<1>5. \A seq \in Seq(S) : RangeOf(seq) \subseteq S
  BY DEF RangeOf
<1> QED BY <1>4, <1>5 DEF S

\* An archive with a damaged directory scores at most 55, and at least 60 with a
\* new one: the gate keeps the repair, and as an improvement.
LEMMA RebuildIsKept ==
  ASSUME NEW j \in Jobs, DirectoryDamageOnly(j.src), j.found = ZipDefects(j.src),
         NEW x \in Staged["zip-rebuild"][j.src]
  PROVE  Keep(j, "zip-rebuild", x.bytes) /\ Improved(j, x.bytes)
<1> DEFINE a == j.src
           s == "zip-rebuild"
           b == Rebuilt(a)
<1>1. a \in Blobs /\ a \in Archives
  BY JobType, ArchivesAssumption DEF Requests
<1>2. s \in Strategies /\ s \notin Verbatim
  BY DEF Strategies, AllStrategies, Verbatim
<1>3. /\ Walked(a) # {} /\ HeadIsZip(b) /\ Len(b.cd) < U16
  BY <1>1, WholeIsRebuilt
<1>4. x.bytes = b
  <2>1. Staged[s][a] = StagedFor(s, a)
    BY <1>2, ArchivesAssumption
  <2>2. StagedFor(s, a) = StagedAs(b, Walked(a) # {})
    BY <1>2 DEF StagedFor
  <2>3. StagedAs(b, Walked(a) # {}) = {[bytes |-> b, recovered |-> LengthOf(b), lost |-> 0]}
    BY <1>3 DEF StagedAs
  <2>4. x = [bytes |-> b, recovered |-> LengthOf(b), lost |-> 0]
    <3> HIDE DEF a, b
    <3> QED BY <2>1, <2>2, <2>3 DEF a
  <2> QED BY <2>4
<1>5. x \in Stagings
  BY <1>2, StagedType
<1>6. b # NoBytes
  BY <1>1, ArchivesAssumption
<1>7. b \in Blobs /\ Seen[b] = SeenIn(b) /\ b \in Archives
  BY <1>4, <1>5, <1>6, ArchivesAssumption DEF Stagings
<1>8. ZipDefects(b) \in Seq(RuleIds)
  BY <1>7, ZipDefectsType, ZipPenalties
<1>9. HealthAfter(b) = Score(ZipDefects(b))
  <2>1. Seen[b].locked = FALSE /\ Seen[b].anon = ZipDefects(b)
    BY <1>3, <1>7 DEF SeenIn
  <2> QED BY <1>6, <2>1 DEF HealthAfter
<1>10. Score(ZipDefects(b)) >= 60 /\ Score(ZipDefects(b)) \in 0 .. 100
  <2> DEFINE found == ZipDefects(b)
  <2>1. \A rule \in RangeOf(found) : rule = "ZIP_CRC_001"
    <3>1. \A rule \in RangeOf(found) : rule = "ZIP_CRC_001" \/ Len(b.cd) >= U16
      BY <1>1, <1>3, RebuiltDefects
    <3>2. Len(b.cd) \in Nat /\ U16 \in Nat
      <4>1. Len(b.cd) \in Nat
        BY <1>7, ArchiveType
      <4>2. U16 \in Nat
        BY SMT DEF U16
      <4> QED BY <4>1, <4>2
    <3>3. ~(Len(b.cd) >= U16)
      BY <1>3, <3>2
    <3> QED BY <3>1, <3>3
  <2>2. \A i \in 1 .. Len(found) : found[i] = "ZIP_CRC_001"
    <3> HIDE DEF found
    <3>1. found \in Seq(RuleIds)
      BY <1>8 DEF found
    <3> QED BY <2>1, <3>1 DEF RangeOf
  <2>3. \A i \in 1 .. Len(found) : PenaltyFor[found[i]].hits = {"data"}
    BY <2>2, ZipPenalties
  <2> HIDE DEF found
  <2>4. Score(found) >= 60 /\ Score(found) \in 0 .. 100
    BY <1>8, <2>3, ScoreFacts DEF found
  <2> QED BY <2>4 DEF found
<1>11. BaseHealth(j) <= 55 /\ BaseHealth(j) \in 0 .. 100
  <2> DEFINE found == Corruptions(j)
  <2>1. found \in Seq(RuleIds)
    BY CorruptionsType
  <2>2. PICK rule \in RangeOf(j.found) : rule \in ZipEocdRules \cup ZipCdRules
    BY DEF DirectoryDamageOnly
  <2>3. rule \in RangeOf(found) /\ rule \in ZipReports
    <3>1. j.found \in Seq(ZipReports)
      BY <1>1, ZipDefectsType
    <3>2. rule \in ZipReports
      BY <3>1 DEF RangeOf
    <3> QED BY <2>2, <3>1, <3>2, FindingsOf
  <2>4. BaseHealth(j) = Score(found)
    BY DEF BaseHealth
  <2> HIDE DEF found
  <2>5. PICK i \in 1 .. Len(found) : found[i] = rule
    BY <2>1, <2>3 DEF RangeOf
  <2>6. PenaltyFor[found[i]].points >= 56 /\ {"structural", "data"} \subseteq PenaltyFor[found[i]].hits
    BY <2>2, <2>3, <2>5, ZipPenalties
  <2>7. Score(found) <= 55 /\ Score(found) \in 0 .. 100
    BY <2>1, <2>6, ScoreFacts
  <2> QED BY <2>4, <2>7
<1> HIDE DEF a, b
<1>12. HealthAfter(b) > BaseHealth(j) /\ HealthAfter(b) # None
  BY <1>9, <1>10, <1>11 DEF None
<1>13. Improved(j, b) /\ ~Regressed(j, b)
  <2>1. ~(HealthAfter(b) < BaseHealth(j))
    BY <1>9, <1>10, <1>11
  <2> QED BY <1>12, <2>1 DEF Improved, Regressed
<1>14. Risk[s] # "Inferred"
  <2>1. Risk[s] = ProfileOf[s].risk /\ ProfileOf[s] = ZipCentralDirectoryRebuild
    BY <1>2 DEF Risk, ProfileOf
  <2> QED BY <2>1 DEF ZipCentralDirectoryRebuild, Profile
<1> QED BY <1>4, <1>6, <1>13, <1>14 DEF Keep

\* Damage confined to the directory costs nothing, whatever the archive: every
\* report of an unforced run that stops when satisfied is a success, and its output
\* lists every member of the source again.
THEOREM DirectoryTheorem == Spec => []DirectoryDamageIsRecovered
<1>1. SafetyInv /\ StagedInv /\ PassesInv /\ SelectedInv => DirectoryDamageIsRecovered
  <2> DEFINE a == job.src
             s == "zip-rebuild"
  <2> SUFFICES ASSUME SafetyInv, StagedInv, PassesInv, SelectedInv,
                      result = "report", AsksForFile(job), ~job.aggressive, job.forced = "auto",
                      job.found = ZipDefects(a), DirectoryDamageOnly(a)
               PROVE  /\ report.success
                      /\ output.locals = a.locals
                      /\ \A i \in DOMAIN output.locals :
                           \E k \in DOMAIN Entries(output) :
                             /\ Entries(output)[k].at = i
                             /\ Entries(output)[k].size = "true"
                             /\ Entries(output)[k].crc = output.locals[i].crc
    BY DEF DirectoryDamageIsRecovered
  <2>1. job \in Jobs /\ a \in Blobs /\ a \in Archives /\ Seen[a].format = "Zip"
    <3>1. job \in Jobs
      BY DEF SafetyInv, TypeInv, TypeOK
    <3>2. a \in Blobs
      BY <3>1, JobType DEF Requests
    <3>3. a \in Archives /\ Seen[a] = SeenIn(a)
      BY <3>2, ArchivesAssumption
    <3>4. SeenIn(a).format = "Zip"
      BY DEF SeenIn
    <3> QED BY <3>1, <3>2, <3>3, <3>4
  <2>2. /\ RangeOf(job.found) \cap (ZipEocdRules \cup ZipCdRules) # {}
        /\ job.found \in Seq(ZipReports)
    BY <2>1, ZipDefectsType DEF DirectoryDamageOnly
  <2>3. /\ ~IsClean(job)
        /\ RangeOf(Corruptions(job)) \subseteq ZipReports \cup {"INTEGRITY_HASH_001"}
        /\ RangeOf(Corruptions(job)) \cap (ZipEocdRules \cup ZipCdRules) # {}
    <3>1. /\ RangeOf(Corruptions(job)) \subseteq ZipReports \cup {"INTEGRITY_HASH_001"}
          /\ RangeOf(Corruptions(job)) \cap (ZipEocdRules \cup ZipCdRules) # {}
      BY <2>1, <2>2, FindingsOf
    <3> QED BY <3>1, RangeOfEmpty DEF IsClean
  <2>4. /\ s \in Selected(job)
        /\ \A t \in Selected(job) \ {s} : ~Before(t, s)
    <3>1. Selected(job) = {t \in Strategies : CanApply(t, "Zip", RangeOf(Corruptions(job)), job.listed)}
      BY <2>1, <2>3 DEF Selected, Applicable
    <3> QED BY <2>3, <3>1, ZipApplies
  <2>5. \A x \in Staged[s][a] : Keep(job, s, x.bytes) /\ Improved(job, x.bytes)
    BY <2>1, RebuildIsKept
  <2>6. kept # << >> /\ LastKept.by = s
    BY <2>4, <2>5, FirstIsPublished
  <2>7. report.success /\ outcome.bytes = LastKept.bytes
    BY <2>6 DEF SafetyInv, KeptInv
  <2>8. Published
    <3>1. kept \in Seq(KeptRecords)
      BY DEF SafetyInv, TypeInv, TypeOK
    <3>2. LastKept \in KeptRecords
      BY <2>6, <3>1, EmptyByLength DEF LastKept
    <3>3. LastKept.bytes \in Blobs
      BY <3>2 DEF KeptRecords
    <3> QED BY <2>7, <3>3, BlobsAssumption DEF Published, ToCommit, AsksForFile
  <2>9. output = Rebuilt(a)
    BY <2>6, <2>8, PublishedArchive
  <2> QED BY <2>1, <2>7, <2>9, WholeIsRebuilt
<1> QED BY <1>1, SafetyInvariant, StagedInvariant, SelectedInvariant, PTL
=============================================================================
