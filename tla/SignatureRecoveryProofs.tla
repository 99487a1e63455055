---------------------- MODULE SignatureRecoveryProofs ----------------------
(***************************************************************************)
(* Proofs about files known by their signatures, of any length: a lost     *)
(* signature and a cut are reported, a 7z signature is only written where  *)
(* a Start Header proves it, and a carving is the source from its first    *)
(* signature on.                                                           *)
(***************************************************************************)
EXTENDS SignatureRecovery, RecoveryPassesProofs, FoldProofs

-----------------------------------------------------------------------------
\* Files and the sources of requests.

LEMMA FileFacts ==
  ASSUME NEW f \in Files, f.cells # << >>
  PROVE  /\ f.cells \in Seq(Cells) /\ Len(f.cells) \in Nat /\ Len(f.cells) >= 1
         /\ 1 \in DOMAIN f.cells /\ DOMAIN f.cells = 1 .. Len(f.cells)
         /\ \A i \in DOMAIN f.cells : f.cells[i] \in Cells
         /\ f.whole \in BOOLEAN
         /\ f = [name |-> f.name, cells |-> f.cells, whole |-> f.whole, wal |-> f.wal]
<1>1. f.cells \in Seq(Cells) /\ f.whole \in BOOLEAN
  BY DEF Files
<1>2. f = [name |-> f.name, cells |-> f.cells, whole |-> f.whole, wal |-> f.wal]
  BY DEF Files
<1> QED BY <1>1, <1>2

LEMMA SourceIsFile ==
  ASSUME TypeOK
  PROVE  /\ job.src \in Files /\ job.src.cells # << >>
         /\ job.ref # NoBytes => job.ref \in Files /\ job.ref.cells # << >>
<1>1. job \in Requests
  BY JobsAssumption DEF TypeOK
<1>2. job.src \in Blobs /\ job.ref \in Blobs \cup {NoBytes}
  BY <1>1 DEF Requests
<1> QED BY <1>2, FilesAssumption

-----------------------------------------------------------------------------
\* The table of signatures.

LEMMA SignatureTable ==
  /\ DOMAIN Signatures = 1 .. 22
  /\ Signatures[1] = Rule("Zip", "start", 1, {"PK", "eocd", "dd"})
  /\ Signatures[2] = Rule("Gzip", "start", 1, {"1F8B"})
  /\ Signatures[3] = Rule("Sqlite", "start", 1, {"SQLite"})
  /\ Signatures[4] = Rule("Pdf", "start", 1, {"%PDF"})
  /\ Signatures[5] = Rule("Bzip2", "start", 1, {"BZh"})
  /\ Signatures[6] = Rule("Xz", "start", 1, {"7zXZ"})
  /\ Signatures[7] = Rule("Zstd", "start", 1, {"28B52FFD"})
  /\ Signatures[8] = Rule("Lz4", "start", 1, {"04224D18"})
  /\ Signatures[9] = Rule("SevenZ", "start", 1, {"7z"})
  /\ Signatures[10] = Rule("Rar", "start", 1, {"Rar4", "Rar5", "Rar?"})
  /\ Signatures[22] = Rule("Iso9660", "start", 4, {"CD001", "CD001?"})
BY DEF Signatures

\* A rule for the start of a file looks at its first cell.
LEMMA StartMatches ==
  ASSUME NEW f \in Files, f.cells # << >>, NEW format, NEW magic
  PROVE  Matches(f, Rule(format, "start", 1, magic)) <=> HeadMark(f) \in magic
<1>1. 1 \in DOMAIN f.cells
  BY FileFacts
<1>2. Window(f, Rule(format, "start", 1, magic)) = 1
  BY DEF Window, Rule
<1>3. Rule(format, "start", 1, magic).magic = magic
  BY DEF Rule
<1> QED BY <1>1, <1>2, <1>3 DEF Matches, HeadMark

\* The first mark decides before any rule that looks elsewhere.
LEMMA IdentifySevenZ ==
  ASSUME NEW f \in Files, f.cells # << >>, HeadMark(f) = "7z"
  PROVE  Identify(f) = "SevenZ"
<1> DEFINE hits == {i \in DOMAIN Signatures : Matches(f, Signatures[i])}
<1>1. 9 \in hits
  BY SignatureTable, StartMatches
<1>2. \A i \in 1 .. 8 : i \notin hits
  <2>1. /\ 1 \notin hits /\ 2 \notin hits /\ 3 \notin hits /\ 4 \notin hits
        /\ 5 \notin hits /\ 6 \notin hits /\ 7 \notin hits /\ 8 \notin hits
    BY SignatureTable, StartMatches
  <2> HIDE DEF hits
  <2> QED BY <2>1
<1>3. hits \subseteq 1 .. 22
  BY SignatureTable
<1>4. Signatures[9].format = "SevenZ"
  BY SignatureTable DEF Rule
<1> HIDE DEF hits
<1>5. \A k \in hits : 9 <= k
  BY <1>2, <1>3
<1>6. \A i \in hits : (\A k \in hits : i <= k) => i = 9
  BY <1>1, <1>3, <1>5
<1>7. (CHOOSE i \in hits : \A k \in hits : i <= k) = 9
  BY <1>1, <1>5, <1>6
<1> QED BY <1>1, <1>4, <1>7 DEF Identify, hits

LEMMA IdentifySqlite ==
  ASSUME NEW f \in Files, f.cells # << >>, HeadMark(f) = "SQLite"
  PROVE  Identify(f) = "Sqlite"
<1> DEFINE hits == {i \in DOMAIN Signatures : Matches(f, Signatures[i])}
<1>1. 3 \in hits
  BY SignatureTable, StartMatches
<1>2. 1 \notin hits /\ 2 \notin hits
  BY SignatureTable, StartMatches
<1>3. hits \subseteq 1 .. 22
  BY SignatureTable
<1>4. Signatures[3].format = "Sqlite"
  BY SignatureTable DEF Rule
<1> HIDE DEF hits
<1>5. \A k \in hits : 3 <= k
  BY <1>2, <1>3
<1>6. \A i \in hits : (\A k \in hits : i <= k) => i = 3
  BY <1>1, <1>3, <1>5
<1>7. (CHOOSE i \in hits : \A k \in hits : i <= k) = 3
  BY <1>1, <1>5, <1>6
<1> QED BY <1>1, <1>4, <1>7 DEF Identify, hits

-----------------------------------------------------------------------------
\* Lost signatures.

\* A format the name alone stands for claims the name's extension.
LEMMA FallbackClaims ==
  ASSUME NEW name, Fallback(name) \in Stamped
  PROVE  name \in ReadableExtensions(Fallback(name)) /\ name \in Extensions(Fallback(name))
<1> DEFINE Claims(g) == name \in (IF g = "Zip" THEN OfficeExtensions ELSE ReadableExtensions(g))
<1>1. Fallback(name) # "Raw" /\ Fallback(name) # "Zip" /\ Fallback(name) \in Readable
  BY DEF Stamped, Readable
<1>2. Fallback(name) = IF \E g \in Readable : Claims(g)
                       THEN CHOOSE g \in Readable : Claims(g) ELSE "Raw"
  BY DEF Fallback
<1>3. PICK g \in Readable : Claims(g)
  <2> HIDE DEF Claims
  <2> QED BY <1>1, <1>2
<1>4. Claims(Fallback(name))
  <2> HIDE DEF Claims
  <2> QED BY <1>2, <1>3
<1>5. name \in ReadableExtensions(Fallback(name))
  BY <1>1, <1>4
<1>6. \A h \in Readable : h # "Zip" => Extensions(h) = ReadableExtensions(h)
  BY DEF Extensions, Readable
<1> QED BY <1>1, <1>5, <1>6

\* Every stamped format is in the table, under a name of its own.
LEMMA StampedIsNamed ==
  /\ Stamped \subseteq Named /\ "none" \notin Named
<1>1. Stamped = {"Iso9660", "Sqlite", "SevenZ", "Rar", "Pdf", "Bzip2", "Xz", "Zstd", "Lz4"}
  BY DEF Stamped, Readable
<1>2. \A format \in {"Iso9660", "Sqlite", "SevenZ", "Rar", "Pdf", "Bzip2", "Xz", "Zstd", "Lz4"} :
        \E i \in 1 .. 22 : Signatures[i].format = format
  BY SignatureTable DEF Rule
<1>3. \A i \in 1 .. 22 : Signatures[i].format # "none"
  BY DEF Signatures, Rule
<1>4. DOMAIN Signatures = 1 .. 22
  BY SignatureTable
<1>5. \A i \in 1 .. 22 : Signatures[i].format \in Named
  BY <1>4 DEF Named
<1>6. Stamped \subseteq Named
  <2> SUFFICES ASSUME NEW format \in Stamped PROVE format \in Named
    OBVIOUS
  <2>1. PICK i \in 1 .. 22 : Signatures[i].format = format
    BY <1>1, <1>2, Zenon
  <2> QED BY <1>5, <2>1
<1>7. "none" \notin Named
  BY <1>3, <1>4, Zenon DEF Named
<1> QED BY <1>6, <1>7

\* Without its signature, a file taken for a stamped format has a defect.
LEMMA StampMissing ==
  ASSUME NEW f \in Files, f.cells # << >>, NEW format \in Stamped, NEW wal,
         \A i \in DOMAIN Signatures : Signatures[i].format = format => ~Matches(f, Signatures[i])
  PROVE  DefectsAs(f, format, wal) # << >>
<1>1. format \in {"Iso9660", "Sqlite", "SevenZ", "Rar", "Pdf", "Bzip2", "Xz", "Zstd", "Lz4"}
  BY DEF Stamped, Readable
<1>2. \A i \in 1 .. 22 : Signatures[i].format = format => ~Matches(f, Signatures[i])
  BY SignatureTable
<1>3. CASE format = "Iso9660"
  <2>1. ~Matches(f, Rule("Iso9660", "start", 4, {"CD001", "CD001?"}))
    <3>1. Rule("Iso9660", "start", 4, {"CD001", "CD001?"}).format = "Iso9660"
      BY DEF Rule
    <3> QED BY <1>2, <1>3, <3>1, SignatureTable
  <2>2. ~(Complete(f, 4) /\ f.cells[4].mark = "CD001")
    BY <2>1 DEF Matches, Window, Rule, Complete
  <2> QED BY <1>3, <2>2 DEF DefectsAs, IsoDefects
<1>4. CASE format = "Sqlite"
  <2>1. HeadMark(f) # "SQLite"
    BY <1>2, <1>4, SignatureTable, StartMatches DEF Rule
  <2> QED BY <1>4, <2>1 DEF DefectsAs, SqliteDefects, HeadMark
<1>5. CASE format = "SevenZ"
  <2>1. HeadMark(f) # "7z"
    BY <1>2, <1>5, SignatureTable, StartMatches DEF Rule
  <2> QED BY <1>5, <2>1 DEF DefectsAs, SevenZDefects
<1>6. CASE format = "Rar"
  <2>1. HeadMark(f) \notin {"Rar4", "Rar5"}
    BY <1>2, <1>6, SignatureTable, StartMatches DEF Rule
  <2> QED BY <1>6, <2>1 DEF DefectsAs, RarDefects, ReportIf
<1>7. CASE format = "Pdf"
  <2>1. HeadMark(f) # "%PDF"
    BY <1>2, <1>7, SignatureTable, StartMatches DEF Rule
  <2>2. \A holds \in BOOLEAN : <<"PDF_HDR_001">> \o ReportIf("PDF_EOF_001", holds) # << >>
    BY DEF ReportIf
  <2> QED BY <1>7, <2>1, <2>2 DEF DefectsAs, PdfDefects, MagicDefect, ReportIf
<1>8. CASE format = "Bzip2"
  <2>1. HeadMark(f) # "BZh"
    BY <1>2, <1>8, SignatureTable, StartMatches DEF Rule
  <2> QED BY <1>8, <2>1 DEF DefectsAs, MagicDefect, ReportIf
<1>9. CASE format = "Xz"
  <2>1. HeadMark(f) # "7zXZ"
    BY <1>2, <1>9, SignatureTable, StartMatches DEF Rule
  <2> QED BY <1>9, <2>1 DEF DefectsAs, MagicDefect, ReportIf
<1>10. CASE format = "Zstd"
  <2>1. HeadMark(f) # "28B52FFD"
    BY <1>2, <1>10, SignatureTable, StartMatches DEF Rule
  <2> QED BY <1>10, <2>1 DEF DefectsAs, MagicDefect, ReportIf
<1>11. CASE format = "Lz4"
  <2>1. HeadMark(f) # "04224D18"
    BY <1>2, <1>11, SignatureTable, StartMatches DEF Rule
  <2> QED BY <1>11, <2>1 DEF DefectsAs, MagicDefect, ReportIf
<1> QED BY <1>1, <1>3, <1>4, <1>5, <1>6, <1>7, <1>8, <1>9, <1>10, <1>11

\* A file that lost the signature its name stands for is reported, whatever else
\* is in it, and its identification says that only the name speaks for it.
THEOREM LostSignatureTheorem == Spec => []LostSignatureIsReported
<1>1. TypeOK => LostSignatureIsReported
  <2> DEFINE f == job.src
  <2> SUFFICES ASSUME TypeOK, NEW format \in Stamped,
                      Fallback(f.name) = format, Identify(f) \notin Readable,
                      \A i \in DOMAIN Signatures :
                        Signatures[i].format = format => ~Matches(f, Signatures[i])
               PROVE  /\ NamedDefects(f) # << >>
                      /\ Identify(f) = "none" => Agreement(f) = "NameOnly"
    BY DEF LostSignatureIsReported
  <2>1. f \in Files /\ f.cells # << >>
    BY SourceIsFile
  <2>2. DetectFormat(f, f.name) = format
    BY DEF DetectFormat
  <2>3. NamedDefects(f) # << >>
    BY <2>1, <2>2, StampMissing DEF NamedDefects
  <2>4. FromExtension(f.name) # "none"
    <3>1. format \in Named /\ f.name \in Extensions(format) /\ "none" \notin Named
      BY FallbackClaims, StampedIsNamed
    <3> HIDE DEF f
    <3> QED BY <3>1 DEF FromExtension
  <2> HIDE DEF f
  <2>5. ASSUME Identify(f) = "none" PROVE Agreement(f) = "NameOnly"
    BY <2>4, <2>5 DEF Agreement
  <2> QED BY <2>3, <2>5
<1> QED BY <1>1, TypeCorrect, PTL

-----------------------------------------------------------------------------
\* Cuts.

LEMMA CutFacts ==
  ASSUME NEW f \in Files, NEW g \in Files, f.cells # << >>, g.cells # << >>, IsCutOf(f, g)
  PROVE  /\ Len(f.cells) <= Len(g.cells)
         /\ \A i \in 1 .. Len(f.cells) : f.cells[i] = g.cells[i]
         /\ Len(f.cells) < Len(g.cells) \/ (g.whole /\ ~f.whole)
<1>1. /\ f.cells \in Seq(Cells) /\ g.cells \in Seq(Cells)
      /\ Len(f.cells) \in Nat /\ Len(g.cells) \in Nat
  BY FileFacts
<1>2. Len(f.cells) <= Len(g.cells) /\ SubSeq(f.cells, 1, Len(f.cells)) = SubSeq(g.cells, 1, Len(f.cells))
  BY DEF IsCutOf, IsPrefix
<1>3. \A i \in 1 .. Len(f.cells) : SubSeq(f.cells, 1, Len(f.cells))[i] = f.cells[i]
  BY <1>1, PrefixFacts
<1>4. \A i \in 1 .. Len(f.cells) : SubSeq(g.cells, 1, Len(f.cells))[i] = g.cells[i]
  BY <1>1, <1>2, PrefixFacts
<1> QED BY <1>2, <1>3, <1>4 DEF IsCutOf

\* A 7z archive cut behind its Start Header has lost its end header.
LEMMA SevenZCut ==
  ASSUME NEW f \in Files, NEW g \in Files, f.cells # << >>, g.cells # << >>, IsCutOf(f, g),
         HeadMark(f) = "7z", StartHeaderRead(f), g.cells[2].to = Len(g.cells)
  PROVE  NamedDefects(f) # << >>
<1>1. Identify(f) = "SevenZ"
  BY IdentifySevenZ
<1>2. NamedDefects(f) = SevenZDefects(f)
  BY <1>1 DEF NamedDefects, DetectFormat, Readable, DefectsAs
<1>3. 2 \in 1 .. Len(f.cells) /\ Len(f.cells) \in Nat /\ Len(g.cells) \in Nat
      /\ DOMAIN f.cells = 1 .. Len(f.cells)
  BY FileFacts DEF StartHeaderRead, Complete
<1>4. f.cells[2].to = Len(g.cells)
  BY <1>3, CutFacts
<1>5. EndHeaderMissing(f)
  <2>1. Len(g.cells) # 0 /\ Len(f.cells) <= Len(g.cells)
        /\ (Len(f.cells) < Len(g.cells) \/ (g.whole /\ ~f.whole))
    BY <1>3, CutFacts
  <2>2. ~Complete(f, Len(g.cells))
    BY <1>3, <2>1 DEF Complete
  <2> QED BY <1>4, <2>1, <2>2 DEF EndHeaderMissing
<1> QED BY <1>2, <1>5 DEF SevenZDefects, ReportIf

\* What sqlite_defects may report.
SqliteReports == {"SQ_MAGIC_001", "SQ_PGSIZE_001", "SQ_PGSIZE_002", "SQ_TRUNC_001", "SQ_TRUNC_002",
                "SQ_FREE_001", "SQ_FREE_002", "SQ_FC_001", "SQ_BTREE_001", "SQ_BTREE_002",
                "SQ_BTREE_003", "SQ_WAL_001", "SQ_WAL_002"}

LEMMA ReportIfType ==
  ASSUME NEW S, NEW rule \in S, NEW holds
  PROVE  ReportIf(rule, holds) \in Seq(S)
<1>1. <<rule>> \in Seq(S) /\ << >> \in Seq(S)
  OBVIOUS
<1> QED BY <1>1 DEF ReportIf

LEMMA PageDefectsType ==
  ASSUME NEW c
  PROVE  PageDefects(c) \in Seq(SqliteReports)
<1>1. /\ <<"SQ_BTREE_001">> \in Seq(SqliteReports) /\ <<"SQ_BTREE_002">> \in Seq(SqliteReports)
      /\ <<"SQ_BTREE_003">> \in Seq(SqliteReports) /\ << >> \in Seq(SqliteReports)
  BY DEF SqliteReports
<1> QED BY <1>1 DEF PageDefects

LEMMA PagesFacts ==
  ASSUME NEW f \in Files, f.cells # << >>
  PROVE  /\ PagesOf(f) \in Nat
         /\ f.whole => PagesOf(f) = Len(f.cells)
         /\ ~f.whole => PagesOf(f) = Len(f.cells) - 1
<1>1. Len(f.cells) \in Nat /\ Len(f.cells) >= 1
  BY FileFacts
<1> DEFINE n == Len(f.cells)
<1>2. CASE f.whole
  <2>1. PagesOf(f) = n - 0
    BY <1>2 DEF PagesOf
  <2> HIDE DEF n
  <2>2. n \in Nat => n - 0 = n
    OBVIOUS
  <2> QED BY <1>1, <1>2, <2>1, <2>2 DEF n
<1>3. CASE ~f.whole
  <2>1. PagesOf(f) = n - 1
    BY <1>3 DEF PagesOf
  <2> HIDE DEF n
  <2>2. n \in Nat /\ n >= 1 => n - 1 \in Nat
    OBVIOUS
  <2> QED BY <1>1, <1>3, <2>1, <2>2 DEF n
<1> QED BY <1>2, <1>3

LEMMA BtreeErrorsType ==
  ASSUME NEW f \in Files, f.cells # << >>
  PROVE  BtreeErrors(f) \in Seq(SqliteReports)
<1> DEFINE n == IF PagesOf(f) < MAX_PAGES_WALK THEN PagesOf(f) ELSE MAX_PAGES_WALK
           pages == [i \in 1 .. n - 1 |-> PageDefects(f.cells[i + 1])]
<1>1. n \in Nat
  <2>1. PagesOf(f) \in Nat /\ MAX_PAGES_WALK \in Nat
    BY PagesFacts DEF MAX_PAGES_WALK
  <2> QED BY <2>1
<1>2. BtreeErrors(f) = FlattenSeq(pages)
  BY DEF BtreeErrors
<1> HIDE DEF n
<1>3. PICK m \in Nat : 1 .. n - 1 = 1 .. m
  <2>1. CASE n = 0
    <3>1. 1 .. n - 1 = 1 .. 0
      BY <2>1
    <3> QED BY <3>1
  <2>2. CASE n # 0
    <3>1. n - 1 \in Nat
      BY <1>1, <2>2
    <3> QED BY <3>1
  <2> QED BY <2>1, <2>2
<1>4. pages \in [1 .. m -> Seq(SqliteReports)]
  BY <1>3, PageDefectsType
<1>5. pages \in Seq(Seq(SqliteReports))
  <2> HIDE DEF pages
  <2> QED BY <1>4, FunctionSeq
<1> QED BY <1>2, <1>5, FlattenType

\* Of lists put together, the first is empty if the whole is.
LEMMA EmptyFront ==
  ASSUME NEW S, NEW a \in Seq(S), NEW b \in Seq(S), a \o b = << >>
  PROVE  a = << >> /\ b = << >>
<1>1. Len(a \o b) = Len(a) + Len(b) /\ Len(a) \in Nat /\ Len(b) \in Nat
  OBVIOUS
<1>2. Len(a \o b) = 0
  OBVIOUS
<1>3. Len(a) = 0 /\ Len(b) = 0
  BY <1>1, <1>2
<1> QED BY <1>3

\* What sqlite_defects says of the number of pages, and of a database found sound.
LEMMA SqliteFacts ==
  ASSUME NEW f \in Files, f.cells # << >>, NEW wal,
         HeadMark(f) = "SQLite"
  PROVE  /\ SqliteDefects(f, wal) = << >> /\ f.cells[1].to # 0
              => f.whole /\ f.cells[1].to = Len(f.cells)
         /\ f.cells[1].to # 0 /\ f.cells[1].to # PagesOf(f) => SqliteDefects(f, wal) # << >>
<1> DEFINE header == f.cells[1]
           pages  == PagesOf(f)
           count  == ReportIf("SQ_PGSIZE_002", header.to # 0 /\ header.to # pages)
           cut    == ReportIf("SQ_TRUNC_001", ~f.whole)
           free1  == ReportIf("SQ_FREE_001", header.aux > pages)
           free2  == ReportIf("SQ_FREE_002", header.flaw = "free count")
           fc     == ReportIf("SQ_FC_001", header.flaw = "change counter")
           short  == count \o <<"SQ_TRUNC_002">>
           sized  == <<"SQ_PGSIZE_001">>
           all    == count \o cut \o free1 \o free2 \o fc \o BtreeErrors(f) \o WalDefects(wal)
<1>1. SqliteDefects(f, wal) =
        IF header.flaw = "page size" THEN sized ELSE IF pages < 2 THEN short ELSE all
  BY DEF SqliteDefects, HeadMark
<1>2. /\ count \in Seq(SqliteReports) /\ cut \in Seq(SqliteReports) /\ free1 \in Seq(SqliteReports)
      /\ free2 \in Seq(SqliteReports) /\ fc \in Seq(SqliteReports)
      /\ BtreeErrors(f) \in Seq(SqliteReports) /\ WalDefects(wal) \in Seq(SqliteReports)
      /\ <<"SQ_TRUNC_002">> \in Seq(SqliteReports)
  <2>1. /\ "SQ_PGSIZE_002" \in SqliteReports /\ "SQ_TRUNC_001" \in SqliteReports
        /\ "SQ_FREE_001" \in SqliteReports /\ "SQ_FREE_002" \in SqliteReports
        /\ "SQ_FC_001" \in SqliteReports /\ "SQ_WAL_001" \in SqliteReports
        /\ "SQ_WAL_002" \in SqliteReports /\ "SQ_TRUNC_002" \in SqliteReports
    BY DEF SqliteReports
  <2>2. count \in Seq(SqliteReports) /\ cut \in Seq(SqliteReports)
    BY <2>1, ReportIfType
  <2>3. free1 \in Seq(SqliteReports) /\ free2 \in Seq(SqliteReports) /\ fc \in Seq(SqliteReports)
    BY <2>1, ReportIfType
  <2>4. /\ ReportIf("SQ_WAL_001", wal = "bad magic") \in Seq(SqliteReports)
        /\ ReportIf("SQ_WAL_002", wal = "other salt") \in Seq(SqliteReports)
    BY <2>1, ReportIfType
  <2>5. WalDefects(wal) \in Seq(SqliteReports)
    <3>1. \A a, b \in Seq(SqliteReports) : a \o b \in Seq(SqliteReports)
      OBVIOUS
    <3> QED BY <2>4, <3>1, Zenon DEF WalDefects
  <2>6. <<"SQ_TRUNC_002">> \in Seq(SqliteReports)
    BY <2>1
  <2> QED BY <2>2, <2>3, <2>5, <2>6, BtreeErrorsType
<1>3. /\ count = << >> => header.to = 0 \/ header.to = pages
      /\ header.to # 0 /\ header.to # pages => count # << >>
      /\ cut = << >> => f.whole
  BY DEF ReportIf
<1>4. f.whole => pages = Len(f.cells)
  BY PagesFacts
<1> HIDE DEF header, pages, count, cut, free1, free2, fc
<1>5. all = << >> => count = << >> /\ cut = << >>
  <2> SUFFICES ASSUME all = << >> PROVE count = << >> /\ cut = << >>
    OBVIOUS
  <2> DEFINE a2 == count \o cut
             a3 == a2 \o free1
             a4 == a3 \o free2
             a5 == a4 \o fc
             a6 == a5 \o BtreeErrors(f)
  <2>1. a2 \in Seq(SqliteReports)
    BY <1>2
  <2>2. a3 \in Seq(SqliteReports)
    BY <1>2, <2>1
  <2>3. a4 \in Seq(SqliteReports)
    BY <1>2, <2>2
  <2>4. a5 \in Seq(SqliteReports)
    BY <1>2, <2>3
  <2>5. a6 \in Seq(SqliteReports)
    BY <1>2, <2>4
  <2>6. a6 \o WalDefects(wal) = << >>
    OBVIOUS
  <2> HIDE DEF a6
  <2>7. a6 = << >>
    BY <1>2, <2>5, <2>6, EmptyFront
  <2>8. a5 = << >>
    <3> HIDE DEF a5
    <3> QED BY <1>2, <2>4, <2>7, EmptyFront DEF a6
  <2>9. a4 = << >>
    <3> HIDE DEF a4
    <3> QED BY <1>2, <2>3, <2>8, EmptyFront DEF a5
  <2>10. a3 = << >>
    <3> HIDE DEF a3
    <3> QED BY <1>2, <2>2, <2>9, EmptyFront DEF a4
  <2>11. a2 = << >>
    <3> HIDE DEF a2
    <3> QED BY <1>2, <2>1, <2>10, EmptyFront DEF a3
  <2> QED BY <1>2, <2>11, EmptyFront
<1>6. sized # << >> /\ short # << >>
  <2>1. <<"SQ_TRUNC_002">> # << >>
    OBVIOUS
  <2> QED BY <1>2, <2>1, EmptyFront
<1> HIDE DEF all, short, sized
<1>7. ASSUME SqliteDefects(f, wal) = << >>, header.to # 0
      PROVE  f.whole /\ header.to = Len(f.cells)
  <2>1. all = << >>
    BY <1>1, <1>6, <1>7
  <2> QED BY <1>3, <1>4, <1>5, <1>7, <2>1
<1>8. ASSUME header.to # 0, header.to # pages PROVE SqliteDefects(f, wal) # << >>
  BY <1>1, <1>3, <1>5, <1>6, <1>8
<1> QED BY <1>7, <1>8 DEF header, pages

\* A database that declares its pages misses those that were cut off.
LEMMA SqliteCut ==
  ASSUME NEW f \in Files, NEW g \in Files, f.cells # << >>, g.cells # << >>, IsCutOf(f, g),
         NamedDefects(g) = << >>, HeadMark(f) = "SQLite", f.cells[1].to # 0
  PROVE  NamedDefects(f) # << >>
<1>1. f.cells[1] = g.cells[1]
  <2>1. 1 \in 1 .. Len(f.cells)
    BY FileFacts
  <2> QED BY <2>1, CutFacts
<1>2. HeadMark(g) = "SQLite"
  BY <1>1 DEF HeadMark
<1>3. Identify(f) = "Sqlite" /\ Identify(g) = "Sqlite"
  BY <1>2, IdentifySqlite
<1>4. NamedDefects(f) = SqliteDefects(f, f.wal) /\ NamedDefects(g) = SqliteDefects(g, g.wal)
  BY <1>3 DEF NamedDefects, DetectFormat, Readable, DefectsAs
<1>5. g.whole /\ f.cells[1].to = Len(g.cells)
  BY <1>1, <1>2, <1>4, SqliteFacts
<1>6. Len(g.cells) # PagesOf(f)
  <2>1. Len(f.cells) \in Nat /\ Len(g.cells) \in Nat
    BY FileFacts
  <2>2. Len(f.cells) <= Len(g.cells) /\ (Len(f.cells) < Len(g.cells) \/ ~f.whole)
    BY CutFacts
  <2>3. CASE f.whole
    BY <2>1, <2>2, <2>3, PagesFacts
  <2>4. CASE ~f.whole
    BY <2>1, <2>2, <2>4, PagesFacts
  <2> QED BY <2>3, <2>4
<1> QED BY <1>4, <1>5, <1>6, SqliteFacts

\* What was cut off an archive or a database that says how long it is is reported,
\* wherever the cut is.
THEOREM CutTheorem == Spec => []CutIsReported
<1>1. TypeOK => CutIsReported
  <2> SUFFICES ASSUME TypeOK, job.ref # NoBytes, NamedDefects(job.ref) = << >>,
                      IsCutOf(job.src, job.ref),
                      \/ HeadMark(job.src) = "7z" /\ StartHeaderRead(job.src)
                           /\ job.ref.cells[2].to = Len(job.ref.cells)
                      \/ HeadMark(job.src) = "SQLite" /\ job.src.cells[1].to # 0
               PROVE  NamedDefects(job.src) # << >>
    BY DEF CutIsReported
  <2>1. /\ job.src \in Files /\ job.src.cells # << >>
        /\ job.ref \in Files /\ job.ref.cells # << >>
    BY SourceIsFile
  <2> QED BY <2>1, SevenZCut, SqliteCut
<1> QED BY <1>1, TypeCorrect, PTL

-----------------------------------------------------------------------------
\* Carving.

LEMMA HitsFacts ==
  ASSUME NEW f \in Files, f.cells # << >>
  PROVE  Hits(f) \subseteq 1 .. Len(f.cells)
BY FileFacts DEF Hits

LEMMA NextHitFacts ==
  ASSUME NEW f \in Files, f.cells # << >>, NEW p \in 1 .. Len(f.cells)
  PROVE  /\ NextHit(f, p) \in p + 1 .. Len(f.cells) + 1
         /\ NextHit(f, p) = Len(f.cells) + 1 \/ NextHit(f, p) \in Hits(f)
         /\ \A r \in p + 1 .. NextHit(f, p) - 1 : r \notin Hits(f)
<1> DEFINE n == Len(f.cells)
           ends == {q \in p + 1 .. n + 1 : q = n + 1 \/ q \in Hits(f)}
<1>1. n \in Nat
  BY FileFacts
<1>2. ends \subseteq Nat /\ n + 1 \in ends
  BY <1>1
<1>3. PICK q \in ends : \A k \in ends : q <= k
  <2> HIDE DEF ends
  <2> QED BY <1>2, LeastElement
<1>4. q \in p + 1 .. n + 1 /\ (q = n + 1 \/ q \in Hits(f))
  OBVIOUS
<1>5. ASSUME NEW r \in p + 1 .. q - 1 PROVE r \notin Hits(f)
  <2>1. r \in p + 1 .. n + 1 /\ ~(q <= r)
    BY <1>1, <1>4
  <2> QED BY <1>3, <2>1
<1> HIDE DEF n, ends
<1> QED BY <1>4, <1>5 DEF NextHit, n

\* Two places that fit for the next signature are the same.
LEMMA NextHitIs ==
  ASSUME NEW f \in Files, f.cells # << >>, NEW p \in 1 .. Len(f.cells),
         NEW q \in p + 1 .. Len(f.cells) + 1, q = Len(f.cells) + 1 \/ q \in Hits(f),
         \A r \in p + 1 .. q - 1 : r \notin Hits(f)
  PROVE  NextHit(f, p) = q
<1> DEFINE n == Len(f.cells)
           t == NextHit(f, p)
<1>1. n \in Nat /\ p \in 1 .. n /\ q \in p + 1 .. n + 1
  BY FileFacts
<1>2. t \in p + 1 .. n + 1 /\ (t = n + 1 \/ t \in Hits(f)) /\ \A r \in p + 1 .. t - 1 : r \notin Hits(f)
  BY NextHitFacts
<1>3. q = n + 1 \/ q \in Hits(f)
  OBVIOUS
<1> HIDE DEF n, t
<1>4. ASSUME t < q PROVE FALSE
  <2>1. t \in p + 1 .. q - 1 /\ t # n + 1
    BY <1>1, <1>2, <1>4
  <2> QED BY <1>2, <2>1
<1>5. ASSUME q < t PROVE FALSE
  <2>1. q \in p + 1 .. t - 1 /\ q # n + 1
    BY <1>1, <1>2, <1>5
  <2> QED BY <1>2, <1>3, <2>1
<1>6. t = q
  BY <1>1, <1>2, <1>4, <1>5
<1> QED BY <1>6 DEF t

\* What is carved is the source from its first signature on.
LEMMA CarvedIsSuffix ==
  ASSUME NEW f \in Files, f.cells # << >>, NEW h \in Hits(f), \A k \in Hits(f) : h <= k
  PROVE  Carved(f).cells = SubSeq(f.cells, h, Len(f.cells))
<1> DEFINE n == Len(f.cells)
           ss == [p \in 1 .. n |-> IF p \in Hits(f) THEN Region(f, p) ELSE << >>]
           g == [i \in 1 .. n |-> IF i < h THEN << >> ELSE SubSeq(f.cells, h, NextHit(f, i) - 1)]
<1>1. /\ f.cells \in Seq(Cells) /\ n \in Nat /\ n >= 1 /\ DOMAIN f.cells = 1 .. n
      /\ h \in 1 .. n /\ Hits(f) \subseteq 1 .. n
      /\ \A i \in 1 .. n : f.cells[i] \in Cells
  BY FileFacts, HitsFacts
<1>2. Carved(f).cells = FlattenSeq(ss)
  <2>1. Carved(f).cells = FlattenSeq([p \in DOMAIN f.cells |->
                                        IF p \in Hits(f) THEN Region(f, p) ELSE << >>])
    BY FileFacts DEF Carved
  <2> QED BY <1>1, <2>1
<1>3. \A p \in 1 .. n : /\ NextHit(f, p) \in p + 1 .. n + 1
                        /\ NextHit(f, p) = n + 1 \/ NextHit(f, p) \in Hits(f)
                        /\ \A r \in p + 1 .. NextHit(f, p) - 1 : r \notin Hits(f)
  BY NextHitFacts
<1>4. \A p, q \in 1 .. n : SubSeq(f.cells, p, q) \in Seq(Cells)
  <2> HIDE DEF n
  <2> SUFFICES ASSUME NEW p \in 1 .. n, NEW q \in 1 .. n PROVE SubSeq(f.cells, p, q) \in Seq(Cells)
    OBVIOUS
  <2>1. \A i \in p .. q : i \in 1 .. n
    BY <1>1
  <2>2. p \in Int /\ q \in Int
    BY <1>1
  <2> QED BY <1>1, <2>1, <2>2, SubSeqProperties
<1>5. \A p \in 1 .. n : NextHit(f, p) - 1 \in 1 .. n /\ NextHit(f, p) - 1 \in p .. n
  <2> HIDE DEF n
  <2> SUFFICES ASSUME NEW p \in 1 .. n
               PROVE  NextHit(f, p) - 1 \in 1 .. n /\ NextHit(f, p) - 1 \in p .. n
    OBVIOUS
  <2>1. NextHit(f, p) \in p + 1 .. n + 1
    BY <1>3
  <2> QED BY <1>1, <2>1
<1> HIDE DEF n
<1>6. ss \in [1 .. n -> Seq(Cells)]
  <2>1. \A p \in 1 .. n : Region(f, p) \in Seq(Cells)
    BY <1>4, <1>5 DEF Region
  <2>2. << >> \in Seq(Cells)
    OBVIOUS
  <2> QED BY <2>1, <2>2
<1>7. ss \in Seq(Seq(Cells)) /\ Len(ss) = n
  <2> HIDE DEF ss
  <2> QED BY <1>1, <1>6, FunctionSeq
<1>8. ss # << >>
  <2> HIDE DEF ss
  <2>1. Len(<< >>) = 0 /\ n # 0
    BY <1>1
  <2> QED BY <1>7, <2>1
<1>9. Joins(g, ss, n)
  <2>1. 1 \in 1 .. n
    BY <1>1
  <2>2. g[1] = ss[1]
    <3>1. CASE h = 1
      <4>1. ~(1 < h) /\ 1 \in Hits(f)
        BY <3>1
      <4> QED BY <2>1, <3>1, <4>1 DEF Region
    <3>2. CASE h # 1
      <4>1. 1 < h /\ 1 \notin Hits(f)
        BY <1>1, <3>2
      <4> QED BY <2>1, <4>1
    <3> QED BY <3>1, <3>2
  <2>3. ASSUME NEW i \in 2 .. n PROVE g[i] = g[i - 1] \o ss[i]
    <3>1. i \in 1 .. n /\ i - 1 \in 1 .. n /\ h \in Int /\ i \in Int
      BY <1>1
    <3>2. /\ g[i] = IF i < h THEN << >> ELSE SubSeq(f.cells, h, NextHit(f, i) - 1)
          /\ g[i - 1] = IF i - 1 < h THEN << >> ELSE SubSeq(f.cells, h, NextHit(f, i - 1) - 1)
          /\ ss[i] = IF i \in Hits(f) THEN Region(f, i) ELSE << >>
      BY <3>1
    <3> HIDE DEF g, ss
    <3>3. CASE i < h
      <4>1. i - 1 < h /\ i \notin Hits(f)
        BY <3>1, <3>3
      <4>2. << >> \o << >> = << >>
        OBVIOUS
      <4> QED BY <3>2, <3>3, <4>1, <4>2
    <3>4. CASE i = h
      <4>1. i - 1 < h /\ ~(i < h) /\ i \in Hits(f)
        BY <3>1, <3>4
      <4>2. Region(f, i) \in Seq(Cells) /\ Region(f, i) = SubSeq(f.cells, h, NextHit(f, i) - 1)
        BY <1>4, <1>5, <3>1, <3>4 DEF Region
      <4>3. << >> \o Region(f, i) = Region(f, i)
        BY <4>2, ConcatEmptySeq
      <4> QED BY <3>2, <4>1, <4>2, <4>3
    <3>5. CASE h < i /\ i \in Hits(f)
      <4>1. NextHit(f, i - 1) = i
        <5>1. /\ i \in i - 1 + 1 .. n + 1
              /\ \A r \in i - 1 + 1 .. i - 1 : r \notin Hits(f)
          BY <1>1, <3>1
        <5> QED BY <3>1, <3>5, <5>1, NextHitIs DEF n
      <4>2. ~(i < h) /\ ~(i - 1 < h)
        BY <3>1, <3>5
      <4> DEFINE e == NextHit(f, i) - 1
      <4>3. e \in 1 .. n /\ e \in i .. n
        BY <1>5, <3>1
      <4> HIDE DEF e
      <4>4. /\ h \in 1 .. Len(f.cells) + 1 /\ i - 1 \in h - 1 .. Len(f.cells)
            /\ e \in i - 1 .. Len(f.cells) /\ i - 1 + 1 = i
        BY <1>1, <3>1, <3>5, <4>3 DEF n
      <4>5. SubSeq(f.cells, h, i - 1) \o SubSeq(f.cells, i, e) = SubSeq(f.cells, h, e)
        BY <1>1, <4>4, ConcatAdjacentSubSeq
      <4> QED BY <3>2, <3>5, <4>1, <4>2, <4>5 DEF Region, e
    <3>6. CASE h < i /\ i \notin Hits(f)
      <4>1. NextHit(f, i - 1) = NextHit(f, i)
        <5> DEFINE q == NextHit(f, i)
        <5>1. q \in i + 1 .. n + 1 /\ (q = n + 1 \/ q \in Hits(f)) /\ \A r \in i + 1 .. q - 1 : r \notin Hits(f)
          BY <1>3, <3>1
        <5> HIDE DEF q
        <5>2. q \in i - 1 + 1 .. n + 1
          BY <1>1, <3>1, <5>1
        <5>3. ASSUME NEW r \in i - 1 + 1 .. q - 1 PROVE r \notin Hits(f)
          <6>1. r = i \/ r \in i + 1 .. q - 1
            BY <1>1, <3>1, <5>1
          <6> QED BY <3>6, <5>1, <6>1
        <5>4. NextHit(f, i - 1) = q
          BY <3>1, <5>1, <5>2, <5>3, NextHitIs DEF n
        <5> QED BY <5>4 DEF q
      <4>2. ~(i < h) /\ ~(i - 1 < h)
        BY <3>1, <3>6
      <4>3. SubSeq(f.cells, h, NextHit(f, i) - 1) \in Seq(Cells)
        BY <1>1, <1>4, <1>5, <3>1
      <4>4. SubSeq(f.cells, h, NextHit(f, i) - 1) \o << >> = SubSeq(f.cells, h, NextHit(f, i) - 1)
        BY <4>3, ConcatEmptySeq
      <4> QED BY <3>2, <3>6, <4>1, <4>2, <4>4
    <3>7. i < h \/ i = h \/ h < i
      BY <3>1
    <3> QED BY <3>3, <3>4, <3>5, <3>6, <3>7
  <2> QED BY <2>2, <2>3 DEF Joins
<1>10. FlattenSeq(ss) = g[n]
  <2> HIDE DEF g, ss
  <2> QED BY <1>7, <1>8, <1>9, FlattenJoins
<1>11. g[n] = SubSeq(f.cells, h, n)
  <2>1. n \in 1 .. n /\ ~(n < h)
    BY <1>1
  <2>2. NextHit(f, n) - 1 = n
    BY <1>1, <1>5, <2>1
  <2> QED BY <2>1, <2>2
<1> QED BY <1>2, <1>10, <1>11 DEF n

-----------------------------------------------------------------------------
\* What the analysis may report of these files, and what that costs them.

FileReports ==
  SqliteReports \cup
    {"ZIP_EOCD_001", "ZIP_EOCD_002", "ZIP_CD_001", "ZIP_LFH_001", "ISO_PVD_001", "ISO_PT_001",
     "7Z_MAGIC_001", "7Z_CRC_001", "7Z_TRUNC_001", "RAR_MAGIC_001", "PDF_HDR_001", "PDF_EOF_001",
     "BZ2_MAGIC_001", "XZ_MAGIC_001", "ZST_MAGIC_001", "LZ4_MAGIC_001"}

LEMMA WalDefectsType ==
  ASSUME NEW wal
  PROVE  WalDefects(wal) \in Seq(SqliteReports)
<1>1. "SQ_WAL_001" \in SqliteReports /\ "SQ_WAL_002" \in SqliteReports
  BY DEF SqliteReports
<1>2. /\ ReportIf("SQ_WAL_001", wal = "bad magic") \in Seq(SqliteReports)
      /\ ReportIf("SQ_WAL_002", wal = "other salt") \in Seq(SqliteReports)
  BY <1>1, ReportIfType
<1>3. \A a, b \in Seq(SqliteReports) : a \o b \in Seq(SqliteReports)
  OBVIOUS
<1> QED BY <1>2, <1>3, Zenon DEF WalDefects

LEMMA SqliteDefectsType ==
  ASSUME NEW f \in Files, f.cells # << >>, NEW wal
  PROVE  SqliteDefects(f, wal) \in Seq(SqliteReports)
<1> DEFINE header == f.cells[1]
           pages  == PagesOf(f)
           count  == ReportIf("SQ_PGSIZE_002", header.to # 0 /\ header.to # pages)
           cut    == ReportIf("SQ_TRUNC_001", ~f.whole)
           free1  == ReportIf("SQ_FREE_001", header.aux > pages)
           free2  == ReportIf("SQ_FREE_002", header.flaw = "free count")
           fc     == ReportIf("SQ_FC_001", header.flaw = "change counter")
           all    == count \o cut \o free1 \o free2 \o fc \o BtreeErrors(f) \o WalDefects(wal)
<1>1. /\ "SQ_PGSIZE_002" \in SqliteReports /\ "SQ_TRUNC_001" \in SqliteReports
      /\ "SQ_FREE_001" \in SqliteReports /\ "SQ_FREE_002" \in SqliteReports
      /\ "SQ_FC_001" \in SqliteReports
  BY DEF SqliteReports
<1>2. /\ <<"SQ_MAGIC_001">> \in Seq(SqliteReports) /\ <<"SQ_PGSIZE_001">> \in Seq(SqliteReports)
      /\ <<"SQ_TRUNC_002">> \in Seq(SqliteReports)
  BY DEF SqliteReports
<1>3. /\ count \in Seq(SqliteReports) /\ cut \in Seq(SqliteReports) /\ free1 \in Seq(SqliteReports)
      /\ free2 \in Seq(SqliteReports) /\ fc \in Seq(SqliteReports)
  BY <1>1, ReportIfType
<1>4. BtreeErrors(f) \in Seq(SqliteReports) /\ WalDefects(wal) \in Seq(SqliteReports)
  BY BtreeErrorsType, WalDefectsType
<1>5. \A a, b \in Seq(SqliteReports) : a \o b \in Seq(SqliteReports)
  OBVIOUS
<1>6. SqliteDefects(f, wal) \in {<<"SQ_MAGIC_001">>, <<"SQ_PGSIZE_001">>,
                                 count \o <<"SQ_TRUNC_002">>, all}
  BY DEF SqliteDefects
<1> HIDE DEF header, pages, count, cut, free1, free2, fc
<1>7. all \in Seq(SqliteReports) /\ count \o <<"SQ_TRUNC_002">> \in Seq(SqliteReports)
  BY <1>2, <1>3, <1>4, <1>5, Zenon
<1> HIDE DEF all
<1> QED BY <1>2, <1>6, <1>7

LEMMA ReportsType ==
  ASSUME NEW f \in Files, f.cells # << >>, NEW format, NEW wal
  PROVE  DefectsAs(f, format, wal) \in Seq(FileReports)
<1> DEFINE R(rule) == rule \in FileReports
<1>1. /\ R("ZIP_EOCD_001") /\ R("ZIP_EOCD_002") /\ R("ZIP_CD_001") /\ R("ZIP_LFH_001")
      /\ R("ISO_PVD_001") /\ R("ISO_PT_001") /\ R("7Z_MAGIC_001") /\ R("7Z_CRC_001")
      /\ R("7Z_TRUNC_001") /\ R("RAR_MAGIC_001") /\ R("PDF_HDR_001") /\ R("PDF_EOF_001")
      /\ R("BZ2_MAGIC_001") /\ R("XZ_MAGIC_001") /\ R("ZST_MAGIC_001") /\ R("LZ4_MAGIC_001")
  BY DEF FileReports
<1>2. \A rule \in FileReports : <<rule>> \in Seq(FileReports)
  OBVIOUS
<1>3. << >> \in Seq(FileReports)
  OBVIOUS
<1>4. \A rule \in FileReports, holds \in BOOLEAN : ReportIf(rule, holds) \in Seq(FileReports)
  BY ReportIfType, Zenon
<1>5. CarvedZipDefects(f) \in Seq(FileReports)
  BY <1>1, <1>2, <1>4 DEF CarvedZipDefects
<1>6. IsoDefects(f) \in Seq(FileReports)
  BY <1>1, <1>2, <1>4 DEF IsoDefects
<1>7. SqliteDefects(f, wal) \in Seq(FileReports)
  <2>1. SqliteReports \subseteq FileReports
    BY DEF FileReports
  <2>2. Seq(SqliteReports) \subseteq Seq(FileReports)
    BY <2>1
  <2> QED BY <2>2, SqliteDefectsType
<1>8. SevenZDefects(f) \in Seq(FileReports)
  <2>1. ReportIf("7Z_TRUNC_001", EndHeaderMissing(f)) \in Seq(FileReports)
    BY <1>1, ReportIfType
  <2> QED BY <1>1, <1>2, <1>3, <2>1 DEF SevenZDefects
<1>9. RarDefects(f) \in Seq(FileReports)
  BY <1>1, <1>4 DEF RarDefects
<1>10. PdfDefects(f) \in Seq(FileReports)
  <2>1. \A a, b \in Seq(FileReports) : a \o b \in Seq(FileReports)
    OBVIOUS
  <2>2. MagicDefect(f, "%PDF", "PDF_HDR_001") \in Seq(FileReports)
    BY <1>1, <1>4 DEF MagicDefect
  <2>3. ReportIf("PDF_EOF_001", ~(f.whole /\ f.cells[Len(f.cells)].mark = "%%EOF")) \in Seq(FileReports)
    BY <1>1, ReportIfType
  <2> QED BY <2>1, <2>2, <2>3, Zenon DEF PdfDefects
<1>11. /\ MagicDefect(f, "BZh", "BZ2_MAGIC_001") \in Seq(FileReports)
       /\ MagicDefect(f, "7zXZ", "XZ_MAGIC_001") \in Seq(FileReports)
       /\ MagicDefect(f, "28B52FFD", "ZST_MAGIC_001") \in Seq(FileReports)
       /\ MagicDefect(f, "04224D18", "LZ4_MAGIC_001") \in Seq(FileReports)
  BY <1>1, <1>4 DEF MagicDefect
<1> QED BY <1>3, <1>5, <1>6, <1>7, <1>8, <1>9, <1>10, <1>11 DEF DefectsAs

\* The penalties of a lost 7z signature and of a lost end header.
LEMMA SevenZPenalties ==
  /\ "7Z_MAGIC_001" \in RuleIds /\ "7Z_TRUNC_001" \in RuleIds /\ "7Z_CRC_001" \in RuleIds
  /\ PenaltyFor["7Z_MAGIC_001"].points = 85 /\ PenaltyFor["7Z_MAGIC_001"].hits = Subscores
  /\ PenaltyFor["7Z_TRUNC_001"].points = 50
  /\ PenaltyFor["7Z_TRUNC_001"].hits = {"structural", "data"}
<1>1. /\ "7Z_MAGIC_001" \in RuleIds /\ "7Z_TRUNC_001" \in RuleIds /\ "7Z_CRC_001" \in RuleIds
  <2>1. \A id \in {"7Z_MAGIC_001", "7Z_TRUNC_001", "7Z_CRC_001"} : \E r \in StreamRules : r.id = id
    BY RowsHas DEF StreamRules
  <2> QED BY <2>1 DEF RuleIds, Rules
<1>2. \A p \in RulePenalties :
        /\ p.rule = "7Z_MAGIC_001" => p.points = 85 /\ p.hits = Subscores
        /\ p.rule = "7Z_TRUNC_001" => p.points = 50 /\ p.hits = {"structural", "data"}
  BY DEF RulePenalties, HitAll, HitSD, HitS, HitD
<1>3. /\ \E p \in RulePenalties : p.rule = "7Z_MAGIC_001"
      /\ \E p \in RulePenalties : p.rule = "7Z_TRUNC_001"
  <2> DEFINE lost == [rule |-> "7Z_MAGIC_001", points |-> 85, hits |-> Subscores]
             cut  == [rule |-> "7Z_TRUNC_001", points |-> 50, hits |-> {"structural", "data"}]
  <2>1. lost \in RulePenalties
    BY DEF RulePenalties, HitAll
  <2>2. cut \in RulePenalties
    BY DEF RulePenalties, HitSD
  <2> QED BY <2>1, <2>2
<1> QED BY <1>1, <1>2, <1>3, PenaltyFacts

-----------------------------------------------------------------------------
\* What is published.

\* A published file is the source, the source with its signature back, or what was
\* carved of it.
LEMMA PublishedFile ==
  ASSUME SafetyInv, StagedInv, Published
  PROVE  LET f == job.src IN
           /\ f \in Files /\ f.cells # << >> /\ f \in Blobs /\ job \in Jobs
           /\ output \in Files /\ output.cells # << >> /\ output \in Blobs
           /\ \/ LastKept.by \in Verbatim /\ output = f
              \/ /\ LastKept.by = "sevenz-signature-restore"
                 /\ Repairable(f) /\ output = SignatureRepaired(f)
              \/ /\ LastKept.by = "forensic-carve"
                 /\ Hits(f) # {} /\ output = Carved(f)
                 /\ report.lost = Max({0, Halves(f) - Halves(Carved(f))})
                 /\ Len(kept) = 1 => report.recovered = Halves(Carved(f))
<1> DEFINE f == job.src
           s == LastKept.by
<1>1. /\ job \in Jobs /\ f \in Blobs /\ output \in Blobs /\ s \in Strategies
      /\ \E x \in Staged[s][f] :
           /\ x.bytes = output /\ x.lost = report.lost
           /\ Len(kept) = 1 => x.recovered = report.recovered
  BY PublishedIsStaged
<1>2. PICK x \in Staged[s][f] :
           /\ x.bytes = output /\ x.lost = report.lost
           /\ Len(kept) = 1 => x.recovered = report.recovered
  BY <1>1
<1>3. /\ f \in Files /\ f.cells # << >> /\ output \in Files /\ output.cells # << >>
      /\ output # NoBytes
  BY <1>1, FilesAssumption, BlobsAssumption
<1>4. Staged[s][f] = StagedFor(s, f)
  BY <1>1, FilesAssumption
<1> HIDE DEF f, s
<1>5. CASE s \in Verbatim
  <2>1. StagedFor(s, f) = StagedAs(f, Halves(f), 0, TRUE)
    BY <1>5 DEF StagedFor, Verbatim
  <2>2. x.bytes = f
    BY <1>2, <1>4, <2>1 DEF StagedAs
  <2> QED BY <1>1, <1>2, <1>3, <1>5, <2>2 DEF f, s
<1>6. CASE s = "sevenz-signature-restore"
  <2>1. StagedFor(s, f) = StagedAs(SignatureRepaired(f), Halves(f), 0, Repairable(f))
    BY <1>6 DEF StagedFor, Verbatim
  <2>2. Repairable(f) /\ x.bytes = SignatureRepaired(f)
    BY <1>2, <1>3, <1>4, <2>1 DEF StagedAs
  <2> QED BY <1>1, <1>2, <1>3, <1>6, <2>2 DEF f, s
<1>7. CASE s = "forensic-carve"
  <2>1. StagedFor(s, f) = StagedAs(Carved(f), Halves(Carved(f)),
                                   Max({0, Halves(f) - Halves(Carved(f))}), Hits(f) # {})
    BY <1>7 DEF StagedFor, Verbatim
  <2>2. /\ Hits(f) # {} /\ x.bytes = Carved(f) /\ x.recovered = Halves(Carved(f))
        /\ x.lost = Max({0, Halves(f) - Halves(Carved(f))})
    BY <1>2, <1>3, <1>4, <2>1 DEF StagedAs
  <2> QED BY <1>1, <1>2, <1>3, <1>7, <2>2 DEF f, s
<1>8. CASE s \notin Verbatim /\ s # "sevenz-signature-restore" /\ s # "forensic-carve"
  <2>1. StagedFor(s, f) = StagedAs(f, 0, 0, FALSE)
    BY <1>8 DEF StagedFor
  <2> QED BY <1>2, <1>3, <1>4, <2>1 DEF StagedAs
<1> QED BY <1>5, <1>6, <1>7, <1>8

\* Writing the signature back changes nothing else.
LEMMA RepairedFacts ==
  ASSUME NEW f \in Files, f.cells # << >>
  PROVE  LET g == SignatureRepaired(f) IN
           /\ HeadMark(g) = "7z" /\ Len(g.cells) = Len(f.cells) /\ g.whole = f.whole
           /\ DOMAIN g.cells = DOMAIN f.cells
           /\ \A i \in DOMAIN f.cells : i # 1 => g.cells[i] = f.cells[i]
           /\ Tail(g.cells) = Tail(f.cells)
<1> DEFINE g == SignatureRepaired(f)
           first == [f.cells[1] EXCEPT !.mark = "7z"]
           n == Len(f.cells)
<1>1. /\ f.cells \in Seq(Cells) /\ 1 \in DOMAIN f.cells /\ DOMAIN f.cells = 1 .. n
      /\ n \in Nat /\ f.cells[1] \in Cells
  BY FileFacts
<1>2. g.cells = [f.cells EXCEPT ![1] = first] /\ g.whole = f.whole
  BY FileFacts DEF SignatureRepaired
<1>3. first.mark = "7z"
  BY <1>1 DEF Cells
<1> HIDE DEF g, first, n
<1>4. /\ DOMAIN g.cells = DOMAIN f.cells /\ g.cells[1] = first
      /\ \A i \in DOMAIN f.cells : i # 1 => g.cells[i] = f.cells[i]
  BY <1>1, <1>2
<1>5. Len(g.cells) = Len(f.cells)
  BY <1>1, <1>2
<1>6. Tail(g.cells) = Tail(f.cells)
  BY <1>1, <1>2
<1> QED BY <1>2, <1>3, <1>4, <1>5, <1>6 DEF HeadMark, g

\* Behind a Start Header that is proven, nothing but the end header can be missing.
LEMMA RepairedDefects ==
  ASSUME NEW f \in Files, f.cells # << >>, Repairable(f), SignatureRepaired(f) \in Files,
         SignatureRepaired(f).cells # << >>
  PROVE  AnonDefects(SignatureRepaired(f)) \in {<< >>, <<"7Z_TRUNC_001">>}
<1> DEFINE g == SignatureRepaired(f)
<1>1. /\ HeadMark(g) = "7z" /\ Len(g.cells) = Len(f.cells) /\ g.whole = f.whole
      /\ DOMAIN g.cells = DOMAIN f.cells
      /\ \A i \in DOMAIN f.cells : i # 1 => g.cells[i] = f.cells[i]
  BY RepairedFacts
<1>2. Identify(g) = "SevenZ"
  BY <1>1, IdentifySevenZ
<1> HIDE DEF g
<1>3. AnonDefects(g) = SevenZDefects(g)
  BY <1>2 DEF AnonDefects, DetectFormat, Readable, DefectsAs
<1>4. 2 \in DOMAIN f.cells /\ f.cells[2].mark = "start"
  BY DEF Repairable, StartHeaderCrcOk, StartHeaderRead, Complete
<1>5. g.cells[2].mark = "start"
  BY <1>1, <1>4
<1>6. SevenZDefects(g) \in {<< >>, <<"7Z_TRUNC_001">>}
  BY <1>1, <1>5 DEF SevenZDefects, StartHeaderCrcOk, ReportIf
<1> QED BY <1>3, <1>6 DEF g

\* The first signature, where carving begins.
LEMMA FirstHit ==
  ASSUME NEW f \in Files, f.cells # << >>, Hits(f) # {}
  PROVE  \E h \in Hits(f) : \A k \in Hits(f) : h <= k
<1>1. Hits(f) \subseteq Nat
  <2>1. Hits(f) \subseteq 1 .. Len(f.cells) /\ Len(f.cells) \in Nat
    BY HitsFacts, FileFacts
  <2>2. 1 .. Len(f.cells) \subseteq Nat
    OBVIOUS
  <2> QED BY <2>1, <2>2
<1> QED BY <1>1, LeastElement

\* What carving copies, cell by cell.
LEMMA CarvedFacts ==
  ASSUME NEW f \in Files, f.cells # << >>, NEW h \in Hits(f), \A k \in Hits(f) : h <= k
  PROVE  LET g == Carved(f) IN
           /\ g.cells \in Seq(Cells) /\ Len(g.cells) = Len(f.cells) - h + 1 /\ g.whole = f.whole
           /\ \A i \in 1 .. Len(f.cells) - h + 1 : g.cells[i] = f.cells[h + i - 1]
           /\ HeadMark(g) \in CarvedMarks
           /\ \A i \in 1 .. h - 1 : f.cells[i].mark \notin CarvedMarks
<1> DEFINE g == Carved(f)
           n == Len(f.cells)
<1>1. /\ n \in Nat /\ h \in 1 .. n /\ DOMAIN f.cells = 1 .. n
      /\ \A i \in 1 .. n : f.cells[i] \in Cells
  BY FileFacts, HitsFacts
<1>2. g.cells = SubSeq(f.cells, h, n)
  BY CarvedIsSuffix
<1>3. g.whole = f.whole
  BY FileFacts DEF Carved
<1> HIDE DEF g, n
<1>4. \A i \in h .. n : f.cells[i] \in Cells
  BY <1>1
<1>5. /\ g.cells \in Seq(Cells)
      /\ Len(g.cells) = IF h <= n THEN n - h + 1 ELSE 0
      /\ \A i \in 1 .. n - h + 1 : g.cells[i] = f.cells[h + i - 1]
  <2>1. h \in Int /\ n \in Int
    BY <1>1
  <2> QED BY <1>2, <1>4, <2>1, SubSeqProperties
<1>6. Len(g.cells) = n - h + 1 /\ 1 \in 1 .. n - h + 1 /\ h + 1 - 1 = h
  BY <1>1, <1>5
<1>7. g.cells[1].mark \in CarvedMarks
  <2>1. g.cells[1] = f.cells[h]
    BY <1>5, <1>6
  <2> QED BY <2>1 DEF Hits
<1>8. ASSUME NEW i \in 1 .. h - 1 PROVE f.cells[i].mark \notin CarvedMarks
  <2>1. i \in DOMAIN f.cells /\ ~(h <= i)
    BY <1>1
  <2> QED BY <2>1 DEF Hits
<1> QED BY <1>3, <1>5, <1>6, <1>7, <1>8 DEF g, n, HeadMark

\* The 7z signature is only ever written in front of a Start Header its own
\* checksum proves, and nothing else of the file changes.
THEOREM RestoreTheorem == Spec => []RestoreIsProven
<1>1. SafetyInv /\ StagedInv => RestoreIsProven
  <2> DEFINE f == job.src
  <2> SUFFICES ASSUME SafetyInv, StagedInv, Published, output # f, HeadMark(output) = "7z"
               PROVE  /\ Tail(output.cells) = Tail(f.cells)
                      /\ job.ref # NoBytes /\ Len(job.ref.cells) > 1
                           /\ job.ref.cells[2] = f.cells[2] => HeadMark(job.ref) = "7z"
                      /\ RangeOf(AnonDefects(output)) \subseteq {"7Z_TRUNC_001"}
    BY DEF RestoreIsProven
  <2>1. f \in Files /\ f.cells # << >> /\ job \in Jobs /\ output \in Files /\ output.cells # << >>
    BY PublishedFile
  <2>2. ASSUME Hits(f) # {}, output = Carved(f) PROVE FALSE
    <3>1. PICK h \in Hits(f) : \A k \in Hits(f) : h <= k
      BY <2>1, <2>2, FirstHit
    <3>2. HeadMark(output) \in CarvedMarks
      BY <2>1, <2>2, <3>1, CarvedFacts
    <3> QED BY <3>2 DEF CarvedMarks
  <2>3. Repairable(f) /\ output = SignatureRepaired(f)
    BY <2>2, PublishedFile
  <2>4. Tail(output.cells) = Tail(f.cells)
    BY <2>1, <2>3, RepairedFacts
  <2>5. f.cells[2].mark = "start"
    BY <2>3 DEF Repairable, StartHeaderCrcOk
  <2>6. AnonDefects(output) \in {<< >>, <<"7Z_TRUNC_001">>}
    BY <2>1, <2>3, RepairedDefects
  <2>7. RangeOf(AnonDefects(output)) \subseteq {"7Z_TRUNC_001"}
    <3>1. RangeOf(<< >>) = {} /\ RangeOf(<<"7Z_TRUNC_001">>) = {"7Z_TRUNC_001"}
      BY DEF RangeOf
    <3> QED BY <2>6, <3>1
  <2> QED BY <2>1, <2>4, <2>5, <2>7, FilesAssumption
<1> QED BY <1>1, SafetyInvariant, StagedInvariant, PTL

\* A sequence that is another one from some place on is its suffix.
LEMMA SuffixIs ==
  ASSUME NEW S, NEW s \in Seq(S), NEW t \in Seq(S), NEW h \in 1 .. Len(t),
         Len(s) = Len(t) - h + 1, \A i \in 1 .. Len(s) : s[i] = t[h + i - 1]
  PROVE  IsSuffix(s, t)
<1> DEFINE m == Len(s)
           n == Len(t)
           a == Reverse(s)
           b == Reverse(t)
<1>1. m \in Nat /\ n \in Nat /\ h \in 1 .. n /\ m = n - h + 1
  OBVIOUS
<1>2. /\ a = [i \in 1 .. m |-> s[(m - i) + 1]]
      /\ b = [i \in 1 .. n |-> t[(n - i) + 1]]
  BY DEF Reverse
<1>3. \A i \in 1 .. m : s[i] \in S /\ s[i] = t[h + i - 1]
  OBVIOUS
<1>4. \A i \in 1 .. n : t[i] \in S
  OBVIOUS
<1> HIDE DEF m, n
<1>5. (\A i \in 1 .. m : (m - i) + 1 \in 1 .. m) /\ (\A i \in 1 .. n : (n - i) + 1 \in 1 .. n)
  BY <1>1
<1>6. a \in Seq(S) /\ Len(a) = m /\ b \in Seq(S) /\ Len(b) = n
  <2>1. a \in [1 .. m -> S] /\ b \in [1 .. n -> S]
    BY <1>2, <1>3, <1>4, <1>5
  <2> HIDE DEF a, b
  <2> QED BY <1>1, <2>1, FunctionSeq
<1>7. \A i \in 1 .. m : a[i] = b[i]
  <2> SUFFICES ASSUME NEW i \in 1 .. m PROVE a[i] = b[i]
    OBVIOUS
  <2>1. i \in 1 .. n /\ h + ((m - i) + 1) - 1 = (n - i) + 1
    BY <1>1
  <2>2. a[i] = s[(m - i) + 1] /\ b[i] = t[(n - i) + 1]
    BY <1>2, <2>1
  <2> QED BY <1>3, <1>5, <2>1, <2>2
<1> HIDE DEF a, b
<1>8. m <= n
  BY <1>1
<1>9. SubSeq(a, 1, m) = SubSeq(b, 1, m)
  <2>1. /\ \A i \in 1 .. m : SubSeq(a, 1, m)[i] = a[i]
        /\ \A i \in 1 .. m : SubSeq(b, 1, m)[i] = b[i]
        /\ Len(SubSeq(a, 1, m)) = m /\ Len(SubSeq(b, 1, m)) = m
        /\ SubSeq(a, 1, m) \in Seq(S) /\ SubSeq(b, 1, m) \in Seq(S)
    BY <1>1, <1>6, <1>8, PrefixFacts
  <2> DEFINE p == SubSeq(a, 1, m)
             q == SubSeq(b, 1, m)
  <2>2. \A i \in 1 .. m : p[i] = q[i]
    BY <1>7, <2>1
  <2>3. p \in Seq(S) /\ q \in Seq(S) /\ Len(p) = m /\ Len(q) = m
    BY <2>1
  <2> HIDE DEF p, q
  <2>4. p = q
    BY <2>2, <2>3, SeqEqual
  <2> QED BY <2>4 DEF p, q
<1> QED BY <1>6, <1>8, <1>9 DEF IsSuffix, IsPrefix, a, b

\* The counts of a carving add up.
LEMMA CarvedCounts ==
  ASSUME NEW f \in Files, f.cells # << >>, NEW h \in Hits(f), \A k \in Hits(f) : h <= k
  PROVE  Halves(Carved(f)) + Max({0, Halves(f) - Halves(Carved(f))}) = Halves(f)
<1> DEFINE a == Halves(f)
           b == Halves(Carved(f))
           n == Len(f.cells)
           odd == IF f.whole THEN 0 ELSE 1
<1>1. n \in Nat /\ h \in 1 .. n
  BY FileFacts, HitsFacts
<1>2. Len(Carved(f).cells) = n - h + 1 /\ Carved(f).whole = f.whole
  BY CarvedFacts
<1>3. a = 2 * n - odd /\ b = 2 * (n - h + 1) - odd /\ odd \in Nat
  BY <1>2 DEF Halves
<1> HIDE DEF n, odd, a, b
<1>4. a \in Int /\ b \in Int /\ a - b \in Nat
  BY <1>1, <1>3
<1>5. Max({0, a - b}) = a - b
  <2>1. Max({0, a - b}) \in {0, a - b} /\ \A y \in {0, a - b} : Max({0, a - b}) >= y
    <3>1. \E x \in {0, a - b} : \A y \in {0, a - b} : x >= y
      BY <1>4
    <3> QED BY <3>1 DEF Max
  <2> QED BY <1>4, <2>1
<1>6. b + (a - b) = a
  BY <1>4
<1> QED BY <1>5, <1>6 DEF a, b

\* A clean source has nothing to improve: what is kept of it and does not match a
\* reference is sound itself.
LEMMA CleanKeeps ==
  ASSUME SafetyInv, StagedInv, Published, IsClean(job), ~Verified(job, output)
  PROVE  AnonDefects(output) = << >>
<1>1. output \in Files /\ output.cells # << >> /\ output \in Blobs /\ Keep(job, LastKept.by, output)
  BY PublishedFile, PublishedIsStaged
<1>2. Seen[output] = SeenIn(output) /\ Seen[output] \in Findings /\ output # NoBytes
  BY <1>1, FilesAssumption, SeenAssumption, BlobsAssumption
<1>3. Seen[output].locked = FALSE /\ Seen[output].anon = AnonDefects(output)
  BY <1>2 DEF SeenIn
<1>4. AnonDefects(output) \in Seq(RuleIds)
  BY <1>2, <1>3 DEF Findings
<1>5. HealthAfter(output) = Score(AnonDefects(output))
  BY <1>2, <1>3 DEF HealthAfter
<1>6. BaseHealth(job) = 100
  <2>1. << >> \in Seq(RuleIds)
    OBVIOUS
  <2> QED BY <2>1, ScoreFacts DEF BaseHealth, IsClean
<1>7. Score(AnonDefects(output)) \in 0 .. 100
  BY <1>4, ScoreFacts
<1>8. Improved(job, output) \/ Held(job, output)
  BY <1>1 DEF Keep
<1>9. Score(AnonDefects(output)) = 100
  BY <1>5, <1>6, <1>7, <1>8 DEF Improved, Held
<1>10. \A i \in DOMAIN AnonDefects(output) : AnonDefects(output)[i] # "TAR_TERM_002"
  <2>1. AnonDefects(output) \in Seq(FileReports)
    BY <1>1, ReportsType DEF AnonDefects
  <2>2. "TAR_TERM_002" \notin FileReports
    BY DEF FileReports, SqliteReports
  <2> HIDE DEF AnonDefects
  <2> QED BY <2>1, <2>2
<1> QED BY <1>4, <1>9, <1>10, FullHealth

\* Carving copies the source from its first signature on, drops and doubles
\* nothing, counts what it copied and what it left, and of a clean source only a
\* sound carving is kept.
THEOREM CarvingTheorem == Spec => []CarvingIsExact
<1>1. SafetyInv /\ StagedInv => CarvingIsExact
  <2> DEFINE f == job.src
  <2> SUFFICES ASSUME SafetyInv, StagedInv, Published, LastKept.by = "forensic-carve"
               PROVE  /\ IsSuffix(output.cells, f.cells) /\ HeadMark(output) \in CarvedMarks
                      /\ \A i \in 1 .. Len(f.cells) - Len(output.cells) :
                           f.cells[i].mark \notin CarvedMarks
                      /\ Len(kept) = 1 => report.recovered + report.lost = Halves(f)
                      /\ Verified(job, output) \/ AnonDefects(output) = << >> \/ ~IsClean(job)
    BY Zenon DEF CarvingIsExact
  <2>1. f \in Files /\ f.cells # << >>
    BY PublishedFile
  <2>2. /\ Hits(f) # {} /\ output = Carved(f)
        /\ report.lost = Max({0, Halves(f) - Halves(Carved(f))})
        /\ Len(kept) = 1 => report.recovered = Halves(Carved(f))
    <3>1. "forensic-carve" \notin Verbatim
      BY DEF Verbatim
    <3> QED BY <3>1, PublishedFile
  <2>3. PICK h \in Hits(f) : \A k \in Hits(f) : h <= k
    BY <2>1, <2>2, FirstHit
  <2>4. /\ output.cells \in Seq(Cells) /\ Len(output.cells) = Len(f.cells) - h + 1
        /\ \A i \in 1 .. Len(f.cells) - h + 1 : output.cells[i] = f.cells[h + i - 1]
        /\ HeadMark(output) \in CarvedMarks
        /\ \A i \in 1 .. h - 1 : f.cells[i].mark \notin CarvedMarks
    BY <2>1, <2>2, <2>3, CarvedFacts
  <2>5. f.cells \in Seq(Cells) /\ Len(f.cells) \in Nat /\ h \in 1 .. Len(f.cells)
    BY <2>1, FileFacts, HitsFacts
  <2>6. IsSuffix(output.cells, f.cells)
    BY <2>4, <2>5, SuffixIs
  <2>7. Len(f.cells) - Len(output.cells) = h - 1
    <3> DEFINE n == Len(f.cells)
               m == Len(output.cells)
    <3>1. n \in Nat /\ h \in 1 .. n /\ m = n - h + 1
      BY <2>4, <2>5
    <3> HIDE DEF n, m
    <3>2. n - m = h - 1
      BY <3>1
    <3> QED BY <3>2 DEF n, m
  <2>8. Len(kept) = 1 => report.recovered + report.lost = Halves(f)
    BY <2>1, <2>2, <2>3, CarvedCounts
  <2>9. Verified(job, output) \/ AnonDefects(output) = << >> \/ ~IsClean(job)
    BY CleanKeeps
  <2> QED BY <2>4, <2>6, <2>7, <2>8, <2>9
<1> QED BY <1>1, SafetyInvariant, StagedInvariant, PTL

-----------------------------------------------------------------------------
\* The strategies a 7z archive without its signature selects.

\* What the name .7z stands for.
LEMMA SevenZName == Fallback(".7z") = "SevenZ"
<1> DEFINE Claims(g) == ".7z" \in (IF g = "Zip" THEN OfficeExtensions ELSE ReadableExtensions(g))
<1>1. Claims("SevenZ") /\ "SevenZ" \in Readable
  BY DEF ReadableExtensions, Readable
<1>2. \A g \in Readable : Claims(g) => g = "SevenZ"
  BY DEF ReadableExtensions, Readable, OfficeExtensions
<1>3. Fallback(".7z") = IF \E g \in Readable : Claims(g)
                        THEN CHOOSE g \in Readable : Claims(g) ELSE "Raw"
  BY DEF Fallback
<1> HIDE DEF Claims
<1> QED BY <1>1, <1>2, <1>3

\* A lost signature and a hash that does not match are neither flipped bits nor
\* a truncation.
LEMMA SignatureCategories ==
  ASSUME NEW r \in Rules, r.id \in {"7Z_MAGIC_001", "INTEGRITY_HASH_001"}
  PROVE  r.category \in {"StructuralCorruption", "ChecksumMismatch"}
<1>1. \/ r \in ZipRules \/ r \in TarRules \/ r \in IsoRules \/ r \in GzipRules \/ r \in PdfRules
      \/ r \in SqliteRules \/ r \in StreamRules \/ r \in CrossFormatRules \/ r \in ThreatRules
  BY DEF Rules
<1>2. CASE r \in ZipRules
  BY <1>2, RowsFacts DEF ZipRules
<1>3. CASE r \in TarRules
  BY <1>3, RowsFacts DEF TarRules
<1>4. CASE r \in IsoRules
  BY <1>4, RowsFacts DEF IsoRules
<1>5. CASE r \in GzipRules
  BY <1>5, RowsFacts DEF GzipRules
<1>6. CASE r \in PdfRules
  BY <1>6, RowsFacts DEF PdfRules
<1>7. CASE r \in SqliteRules
  BY <1>7, RowsFacts DEF SqliteRules
<1>8. CASE r \in StreamRules
  BY <1>8, RowsFacts DEF StreamRules
<1>9. CASE r \in CrossFormatRules
  BY <1>9, RowsFacts DEF CrossFormatRules
<1>10. CASE r \in ThreatRules
  BY <1>10, RowsFacts DEF ThreatRules
<1> QED BY <1>1, <1>2, <1>3, <1>4, <1>5, <1>6, <1>7, <1>8, <1>9, <1>10

\* Only the restoring of the signature applies to such a file.
LEMMA SevenZApplies ==
  ASSUME NEW found, NEW listed, "7Z_MAGIC_001" \in found,
         found \subseteq {"7Z_MAGIC_001", "INTEGRITY_HASH_001"}
  PROVE  /\ {s \in Strategies : CanApply(s, "SevenZ", found, listed)} = {"sevenz-signature-restore"}
         /\ Risk["sevenz-signature-restore"] = "Safe"
<1> DEFINE restore == "sevenz-signature-restore"
<1>1. found \cap Flipped = {} /\ found \cap Truncated = {}
  BY SignatureCategories DEF Flipped, Truncated, InCategory
<1>2. restore \in Strategies
  BY DEF Strategies, AllStrategies
<1>3. /\ ProfileOf[restore].formats = {"SevenZ"} /\ ProfileOf[restore].applies = {"7Z_MAGIC_001"}
      /\ ProfileOf[restore].risk = "Safe"
  BY <1>2 DEF ProfileOf, SevenZSignatureRestore, Profile
<1>4. CanApply(restore, "SevenZ", found, listed)
  BY <1>3 DEF CanApply
<1>5. ASSUME NEW s \in Strategies, "SevenZ" \in ProfileOf[s].formats, s # restore
      PROVE  ProfileOf[s].applies \in {Flipped, Truncated} /\ s # "forensic-carve"
  BY <1>5 DEF Strategies, AllStrategies, ProfileOf, Profile, BitFlipCorrection,
         ZipCentralDirectoryRebuild, ZipCrcFix,
         TarChecksumFix, TarTerminatorAppend, TarSizeBoundaryResync, TarBlockReorder,
         GzMagicRestore, GzTrailerRecompute, GzMemberSalvage, GzPartialInflate,
         SevenZSignatureRestore, TarContinuationSalvage, IsoSectorReconstruction,
         PartialExtraction, ForensicCarving
<1>6. \A s \in Strategies : CanApply(s, "SevenZ", found, listed) => s = restore
  BY <1>1, <1>5 DEF CanApply
<1>7. Risk[restore] = "Safe"
  BY <1>2, <1>3 DEF Risk
<1> QED BY <1>2, <1>4, <1>6, <1>7

\* The two lists of findings of such a file.
LEMMA TwoFindings ==
  ASSUME NEW seq \in {<<"7Z_MAGIC_001">>, Append(<<"7Z_MAGIC_001">>, "INTEGRITY_HASH_001")}
  PROVE  seq # << >> /\ 1 \in 1 .. Len(seq) /\ seq[1] = "7Z_MAGIC_001"
<1> DEFINE one == <<"7Z_MAGIC_001">>
           both == Append(one, "INTEGRITY_HASH_001")
           S == {"7Z_MAGIC_001", "INTEGRITY_HASH_001"}
<1>1. one # << >> /\ Len(one) = 1 /\ one[1] = "7Z_MAGIC_001"
  OBVIOUS
<1>2. one \in Seq(S) /\ "INTEGRITY_HASH_001" \in S
  OBVIOUS
<1> HIDE DEF one, S
<1>3. /\ both # << >> /\ Len(both) = Len(one) + 1
      /\ \A i \in 1 .. Len(one) : both[i] = one[i]
  BY <1>2, AppendFacts
<1> HIDE DEF both
<1>4. 1 \in 1 .. Len(one) /\ 1 \in 1 .. Len(both)
  BY <1>1, <1>3
<1>5. seq = one \/ seq = both
  BY DEF one, both
<1> QED BY <1>1, <1>3, <1>4, <1>5

\* A 7z archive without its signature scores at most 15, and at least 60 with the
\* signature back: the gate keeps the repair.
LEMMA RestoreIsKept ==
  ASSUME NEW j \in Jobs, Repairable(j.src), j.found = <<"7Z_MAGIC_001">>,
         NEW x \in Staged["sevenz-signature-restore"][j.src]
  PROVE  Keep(j, "sevenz-signature-restore", x.bytes)
<1> DEFINE f == j.src
           s == "sevenz-signature-restore"
           g == SignatureRepaired(f)
<1>1. f \in Blobs /\ f \in Files /\ f.cells # << >>
  BY JobType, FilesAssumption DEF Requests
<1>2. s \in Strategies /\ s \notin Verbatim
  BY DEF Strategies, AllStrategies, Verbatim
<1>3. x.bytes = g
  <2>1. Staged[s][f] = StagedFor(s, f)
    BY <1>2, FilesAssumption
  <2>2. StagedFor(s, f) = StagedAs(g, Halves(f), 0, Repairable(f))
    BY <1>2 DEF StagedFor
  <2>3. StagedAs(g, Halves(f), 0, Repairable(f)) = {[bytes |-> g, recovered |-> Halves(f), lost |-> 0]}
    BY DEF StagedAs
  <2>4. x = [bytes |-> g, recovered |-> Halves(f), lost |-> 0]
    <3> HIDE DEF f, g
    <3> QED BY <2>1, <2>2, <2>3 DEF f
  <2> QED BY <2>4
<1>4. x \in Stagings
  BY <1>2, StagedType
<1>5. g # NoBytes
  BY <1>1, FilesAssumption
<1>6. /\ g \in Blobs /\ Seen[g] = SeenIn(g) /\ Seen[g] \in Findings
      /\ g \in Files /\ g.cells # << >>
  BY <1>3, <1>4, <1>5, FilesAssumption, SeenAssumption DEF Stagings
<1>7. AnonDefects(g) \in {<< >>, <<"7Z_TRUNC_001">>} /\ AnonDefects(g) \in Seq(RuleIds)
  <2>1. AnonDefects(g) \in {<< >>, <<"7Z_TRUNC_001">>}
    BY <1>1, <1>5, <1>6, RepairedDefects
  <2>2. Seen[g].anon = AnonDefects(g)
    BY <1>6 DEF SeenIn
  <2> QED BY <1>6, <2>1, <2>2 DEF Findings
<1>8. HealthAfter(g) = Score(AnonDefects(g))
  <2>1. Seen[g].locked = FALSE /\ Seen[g].anon = AnonDefects(g)
    BY <1>6 DEF SeenIn
  <2> QED BY <1>5, <2>1 DEF HealthAfter
<1>9. Score(AnonDefects(g)) >= 60 /\ Score(AnonDefects(g)) \in 0 .. 100
  <2>1. CASE AnonDefects(g) = << >>
    <3> DEFINE found == AnonDefects(g)
    <3>1. found \in Seq(RuleIds) /\ found = << >>
      BY <1>7, <2>1
    <3> HIDE DEF found
    <3>2. Score(found) = 100
      BY <3>1, ScoreFacts
    <3> QED BY <3>2 DEF found
  <2>2. CASE AnonDefects(g) = <<"7Z_TRUNC_001">>
    <3> DEFINE found == AnonDefects(g)
    <3>1. Len(found) = 1 /\ found[1] = "7Z_TRUNC_001"
      BY <2>2
    <3>2. /\ PenaltyFor[found[1]].points <= 50 /\ "metadata" \notin PenaltyFor[found[1]].hits
      BY <3>1, SevenZPenalties
    <3>3. found \in Seq(RuleIds)
      BY <1>7
    <3> HIDE DEF found
    <3>4. Score(found) >= 60 /\ Score(found) \in 0 .. 100
      BY <3>1, <3>2, <3>3, ScoreFacts
    <3> QED BY <3>4 DEF found
  <2> QED BY <1>7, <2>1, <2>2
<1>10. BaseHealth(j) <= 15 /\ BaseHealth(j) \in 0 .. 100
  <2> DEFINE found == Corruptions(j)
  <2>1. found \in Seq(RuleIds)
    BY CorruptionsType
  <2>2. 1 \in 1 .. Len(found) /\ found[1] = "7Z_MAGIC_001"
    <3>1. found \in {<<"7Z_MAGIC_001">>, Append(<<"7Z_MAGIC_001">>, "INTEGRITY_HASH_001")}
      BY DEF Corruptions
    <3> QED BY <3>1, TwoFindings
  <2>3. PenaltyFor[found[1]].points >= 85 /\ PenaltyFor[found[1]].hits = Subscores
    BY <2>2, SevenZPenalties
  <2>4. BaseHealth(j) = Score(found)
    BY DEF BaseHealth
  <2> HIDE DEF found
  <2>5. Score(found) <= 15 /\ Score(found) \in 0 .. 100
    BY <2>1, <2>2, <2>3, ScoreFacts
  <2> QED BY <2>4, <2>5
<1> HIDE DEF f, g
<1>11. HealthAfter(g) > BaseHealth(j) /\ HealthAfter(g) # None
  BY <1>8, <1>9, <1>10 DEF None
<1>12. Improved(j, g) /\ ~Regressed(j, g)
  <2>1. ~(HealthAfter(g) < BaseHealth(j))
    BY <1>8, <1>9, <1>10
  <2> QED BY <1>11, <2>1 DEF Improved, Regressed
<1>13. Risk[s] # "Inferred"
  <2>1. Risk[s] = "Safe"
    BY SevenZApplies, "7Z_MAGIC_001" \in {"7Z_MAGIC_001"},
       {"7Z_MAGIC_001"} \subseteq {"7Z_MAGIC_001", "INTEGRITY_HASH_001"}
  <2> QED BY <2>1
<1> QED BY <1>3, <1>5, <1>12, <1>13 DEF Keep

\* A 7z archive that only lost its signature has it back in every report of an
\* unforced run: it is the one strategy selected, what it stages scores higher than
\* the source did, and so it is kept and published.
THEOREM RestoredTheorem == Spec => []SignatureIsRestored
<1>1. SafetyInv /\ StagedInv /\ PassesInv /\ SelectedInv => SignatureIsRestored
  <2> DEFINE f == job.src
             s == "sevenz-signature-restore"
  <2> SUFFICES ASSUME SafetyInv, StagedInv, PassesInv, SelectedInv,
                      result = "report", AsksForFile(job), job.forced = "auto",
                      job.found = NamedDefects(f), f.name = ".7z", Identify(f) \notin Readable,
                      StartHeaderRead(f), f.cells[2].mark = "start"
               PROVE  /\ report.success
                      /\ HeadMark(output) = "7z" /\ Tail(output.cells) = Tail(f.cells)
    BY DEF SignatureIsRestored
  <2>1. job \in Jobs /\ f \in Files /\ f.cells # << >> /\ f \in Blobs
    <3>1. TypeOK
      BY DEF SafetyInv, TypeInv
    <3> QED BY <3>1, SourceIsFile, JobType DEF TypeOK, Requests
  <2>2. HeadMark(f) # "7z" /\ Repairable(f)
    <3>1. HeadMark(f) # "7z"
      BY <2>1, IdentifySevenZ DEF Readable
    <3> QED BY <3>1 DEF Repairable, StartHeaderCrcOk
  <2>3. DetectFormat(f, f.name) = "SevenZ"
    BY SevenZName DEF DetectFormat
  <2>4. job.found = <<"7Z_MAGIC_001">>
    BY <2>2, <2>3 DEF NamedDefects, DefectsAs, SevenZDefects
  <2>5. ~IsClean(job) /\ "7Z_MAGIC_001" \in RangeOf(Corruptions(job))
        /\ RangeOf(Corruptions(job)) \subseteq {"7Z_MAGIC_001", "INTEGRITY_HASH_001"}
    <3> DEFINE found == Corruptions(job)
    <3>1. found \in {<<"7Z_MAGIC_001">>, Append(<<"7Z_MAGIC_001">>, "INTEGRITY_HASH_001")}
      BY <2>4 DEF Corruptions
    <3>2. found # << >>
      BY <3>1, TwoFindings
    <3>3. RangeOf(<<"7Z_MAGIC_001">>) = {"7Z_MAGIC_001"}
      BY DEF RangeOf
    <3>4. RangeOf(Append(<<"7Z_MAGIC_001">>, "INTEGRITY_HASH_001"))
            = RangeOf(<<"7Z_MAGIC_001">>) \cup {"INTEGRITY_HASH_001"}
      <4>1. /\ <<"7Z_MAGIC_001">> \in Seq({"7Z_MAGIC_001", "INTEGRITY_HASH_001"})
            /\ "INTEGRITY_HASH_001" \in {"7Z_MAGIC_001", "INTEGRITY_HASH_001"}
        OBVIOUS
      <4> QED BY <4>1, RangeOfAppend
    <3> QED BY <3>1, <3>2, <3>3, <3>4 DEF IsClean
  <2>6. Selected(job) = {s}
    <3>1. Seen[f].format = "SevenZ"
      <4>1. Seen[f] = SeenIn(f)
        BY <2>1, FilesAssumption
      <4>2. SeenIn(f).format = EngineFormat("SevenZ")
        BY <2>3 DEF SeenIn
      <4> QED BY <4>1, <4>2 DEF EngineFormat
    <3>2. Selected(job) = {t \in Strategies : CanApply(t, "SevenZ", RangeOf(Corruptions(job)), job.listed)}
      BY <2>5, <3>1 DEF Selected, Applicable
    <3> QED BY <2>5, <3>2, SevenZApplies
  <2>7. \A x \in Staged[s][f] : Keep(job, s, x.bytes)
    BY <2>1, <2>2, <2>4, RestoreIsKept
  <2>8. kept # << >>
    <3>1. kept # << >> \/ (Passes = MAX_PASSES /\ s \notin Tried)
      BY <2>6, <2>7, SelectedIsTried
    <3>2. ASSUME s \notin Tried PROVE Passes = 0
      <4>1. Tried = {}
        BY <2>6, <3>2 DEF SelectedInv
      <4> QED BY <4>1, FS_EmptySet DEF PassesInv
    <3> QED BY <3>1, <3>2 DEF MAX_PASSES
  <2>9. report.success /\ outcome.bytes = LastKept.bytes
    BY <2>8 DEF SafetyInv, KeptInv
  <2>10. LastKept.by = s
    BY <2>6, <2>8, KeptIsSelected
  <2>11. Published
    <3>1. kept \in Seq(KeptRecords)
      BY DEF SafetyInv, TypeInv, TypeOK
    <3>2. LastKept \in KeptRecords
      BY <2>8, <3>1, EmptyByLength DEF LastKept
    <3>3. LastKept.bytes \in Blobs
      BY <3>2 DEF KeptRecords
    <3> QED BY <2>9, <3>3, BlobsAssumption DEF Published, ToCommit, AsksForFile
  <2>12. output = SignatureRepaired(f)
    BY <2>10, <2>11, PublishedFile DEF Verbatim
  <2> QED BY <2>1, <2>9, <2>12, RepairedFacts
<1> QED BY <1>1, SafetyInvariant, StagedInvariant, SelectedInvariant, PTL
=============================================================================
