----------------------------- MODULE FileDefects -----------------------------
(***************************************************************************)
(* The defects the analysis reports (corruption/detector.rs) in files that *)
(* are known by a signature and a few pointers: 7z, RAR, PDF, compressed   *)
(* streams, ISO images (reader/iso.rs) and SQLite databases                *)
(* (reader/sqlite.rs).  ZIP, TAR and gzip files have modules of their own; *)
(* here they are what a carved region shows of them.                       *)
(***************************************************************************)
EXTENDS FormatIdentity, SequencesExt

HeadMark(f) == f.cells[1].mark

ReportIf(rule, holds) == IF holds THEN <<rule>> ELSE << >>

\* A cell that is all there.
Complete(f, i) == i \in DOMAIN f.cells /\ (i < Len(f.cells) \/ f.whole)

\* magic_defect.
MagicDefect(f, magic, rule) == ReportIf(rule, HeadMark(f) # magic)

\* pdf_stub_defects: the marker closes the last cell.
PdfDefects(f) ==
  MagicDefect(f, "%PDF", "PDF_HDR_001")
    \o ReportIf("PDF_EOF_001", ~(f.whole /\ f.cells[Len(f.cells)].mark = "%%EOF"))

\* rar_defects: the stamp and the version behind it.
RarDefects(f) == ReportIf("RAR_MAGIC_001", HeadMark(f) \notin {"Rar4", "Rar5"})

-----------------------------------------------------------------------------
\* 7z: the signature is cell 1; cell 2 holds the Start Header, its checksum and
\* the pointer to the end header, which is the cell the pointer leads to.

StartHeaderRead(f) == Complete(f, 2)

\* Mutant: the checksum is taken over the signature, too.
StartHeaderCrcOkWithSignature(f) ==
  StartHeaderRead(f) /\ f.cells[2].mark = "start" /\ HeadMark(f) = "7z"

\* start_header_crc_ok: the checksum covers neither the signature nor itself.
StartHeaderCrcOk(f) == StartHeaderRead(f) /\ f.cells[2].mark = "start"

\* Mutant: the end header's size is left out.
EndHeaderMissingItsStart(f) == f.cells[2].to > Len(f.cells)

\* The end header the proven pointer leads to lies beyond the end of the file; an
\* empty archive has none (to is 0).
EndHeaderMissing(f) == f.cells[2].to # 0 /\ ~Complete(f, f.cells[2].to)

\* sevenz_defects: a file too short for a Start Header has only its signature
\* looked at.
SevenZDefects(f) ==
  IF HeadMark(f) # "7z" THEN <<"7Z_MAGIC_001">>
  ELSE IF ~StartHeaderRead(f) THEN << >>
  ELSE IF ~StartHeaderCrcOk(f) THEN <<"7Z_CRC_001">>
  ELSE ReportIf("7Z_TRUNC_001", EndHeaderMissing(f))

-----------------------------------------------------------------------------
\* IsoReader::parse and iso_defects: the volume descriptor is read as a whole, and
\* must have the right type besides the stamp; its pointer leads to a sector, of
\* which the first byte must exist.
IsoDefects(f) ==
  IF ~(Complete(f, 4) /\ f.cells[4].mark = "CD001") THEN <<"ISO_PVD_001">>
  ELSE ReportIf("ISO_PT_001", f.cells[4].to \notin DOMAIN f.cells)

-----------------------------------------------------------------------------
\* SQLite: a cell is a page.  The first one holds the header: to is the declared
\* number of pages (0: unknown), aux the first page of the freelist.

\* actual_pages, by the length of the file.
PagesOf(f) == Len(f.cells) - (IF f.whole THEN 0 ELSE 1)

\* walk_btree_pages: the first 512 pages that are all there.  The tree behind the
\* header in page 1 is taken as sound.
MAX_PAGES_WALK == 512

PageDefects(c) ==
  IF c.mark # "page" THEN <<"SQ_BTREE_001">>
  ELSE CASE c.flaw = "cell count" -> <<"SQ_BTREE_002">>
         [] c.flaw = "cell pointer" -> <<"SQ_BTREE_003">>
         [] OTHER -> << >>

BtreeErrors(f) ==
  LET n == IF PagesOf(f) < MAX_PAGES_WALK THEN PagesOf(f) ELSE MAX_PAGES_WALK
  IN  FlattenSeq([i \in 1 .. n - 1 |-> PageDefects(f.cells[i + 1])])

\* The companion file is looked for beside the path the data came under.
WalDefects(wal) == ReportIf("SQ_WAL_001", wal = "bad magic")
                     \o ReportIf("SQ_WAL_002", wal = "other salt")

\* sqlite_defects: without a magic or a page size nothing else is looked at, nor
\* is it in a file of less than two pages.
SqliteDefects(f, wal) ==
  LET header == f.cells[1]
      pages  == PagesOf(f)
      count  == ReportIf("SQ_PGSIZE_002", header.to # 0 /\ header.to # pages)
  IN  IF header.mark # "SQLite" THEN <<"SQ_MAGIC_001">>
      ELSE IF header.flaw = "page size" THEN <<"SQ_PGSIZE_001">>
      ELSE IF pages < 2 THEN count \o <<"SQ_TRUNC_002">>
      ELSE count
           \o ReportIf("SQ_TRUNC_001", ~f.whole)
           \o ReportIf("SQ_FREE_001", header.aux > pages)
           \o ReportIf("SQ_FREE_002", header.flaw = "free count")
           \o ReportIf("SQ_FC_001", header.flaw = "change counter")
           \o BtreeErrors(f) \o WalDefects(wal)

-----------------------------------------------------------------------------
\* zip_defects of an archive of one sound member: the last end record, the
\* directory where it points, and the member at the head of the file.
CarvedZipDefects(f) ==
  LET ends == {i \in DOMAIN f.cells : f.cells[i].mark = "eocd" /\ Complete(f, i)}
      cd   == f.cells[CHOOSE i \in ends : \A k \in ends : k <= i].to
  IN  IF ends = {} THEN <<"ZIP_EOCD_001">>
      ELSE IF cd \notin DOMAIN f.cells THEN <<"ZIP_EOCD_002">>
      ELSE IF f.cells[cd].mark # "cd" THEN <<"ZIP_CD_001">>
      ELSE ReportIf("ZIP_LFH_001", HeadMark(f) # "PK")

\* detect, for the format the file was taken for; the detectors of TAR and gzip are in
\* TarArchive and GzipStream, on cells of their own.
DefectsAs(f, format, wal) ==
  CASE format = "Zip"     -> CarvedZipDefects(f)
    [] format = "Iso9660" -> IsoDefects(f)
    [] format = "Sqlite"  -> SqliteDefects(f, wal)
    [] format = "SevenZ"  -> SevenZDefects(f)
    [] format = "Rar"     -> RarDefects(f)
    [] format = "Pdf"     -> PdfDefects(f)
    [] format = "Bzip2"   -> MagicDefect(f, "BZh", "BZ2_MAGIC_001")
    [] format = "Xz"      -> MagicDefect(f, "7zXZ", "XZ_MAGIC_001")
    [] format = "Zstd"    -> MagicDefect(f, "28B52FFD", "ZST_MAGIC_001")
    [] format = "Lz4"     -> MagicDefect(f, "04224D18", "LZ4_MAGIC_001")
    [] OTHER              -> << >>
=============================================================================
