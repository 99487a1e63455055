------------------------- MODULE MCSignatureRecovery -------------------------
(***************************************************************************)
(* Small files of many formats, intact and damaged in up to two places,    *)
(* under right, wrong and unknown names, for the recovery engine.          *)
(***************************************************************************)
EXTENDS SignatureRecovery

Cell(mark)         == [mark |-> mark, to |-> 0, aux |-> 0, flaw |-> "none"]
Pointer(mark, to)  == [Cell(mark) EXCEPT !.to = to]
Marks(marks)       == [i \in DOMAIN marks |-> Cell(marks[i])]
File(name, cells)  == [name |-> name, cells |-> cells, whole |-> TRUE, wal |-> "none"]

\* A 7z archive, one that stores a ZIP, the smallest one and an empty one.
SevenZ  == <<Cell("7z"), Pointer("start", 4), Cell("data"), Cell("end")>>
Holding == <<Cell("7z"), Pointer("start", 6), Cell("PK"), Cell("cd"), Pointer("eocd", 2), Cell("end")>>
Minimal == <<Cell("7z"), Pointer("start", 3), Cell("end")>>
Empty   == <<Cell("7z"), Cell("start")>>

\* An ISO image, and one with a disk image's footer.
Image  == Marks(<<"zero", "zero", "zero">>) \o <<Pointer("CD001", 5), Cell("table"), Cell("data")>>
Hybrid == Image \o <<Cell("koly")>>

Database(declared) == <<Pointer("SQLite", declared), Cell("page"), Cell("page")>>

\* Dumps with a ZIP in them, alone, behind and before something else.
Archive == <<Cell("PK"), Cell("cd"), Pointer("eocd", 2)>>
Dumps   == {Marks(<<"data">>) \o Archive, Marks(<<"data", "png", "data">>) \o Archive,
            Marks(<<"data">>) \o Archive \o Marks(<<"elf", "data">>)}

Intact ==
  {File(".7z", SevenZ), File(".7z", Holding), File(".7z", Minimal), File(".7z", Empty), File(".bin", SevenZ),
   File(".iso", Image), File(".iso", Hybrid), File(".dmg", Hybrid),
   File(".db", Database(3)), File(".sqlite", Database(0)),
   [File(".sqlite3", Database(3)) EXCEPT !.wal = "other salt"],
   [File(".db", Database(3)) EXCEPT !.wal = "ok"],
   File(".pdf", Marks(<<"%PDF", "data", "%%EOF">>)), File(".rar", Marks(<<"Rar5", "data">>)),
   File(".bz2", Marks(<<"BZh", "data">>)), File(".xz", Marks(<<"7zXZ", "data">>)),
   File(".zst", Marks(<<"28B52FFD", "data">>)), File(".lz4", Marks(<<"04224D18", "data">>)),
   File(".vhd", Marks(<<"data", "data", "conectix">>)),
   File(".7z", Marks(<<"elf", "data", "data">>)), File(".7z", Archive), File(".zip", Archive)}
    \cup {File(".bin", cells) : cells \in Dumps}

\* What one blow can do: wipe a cell, change its pointer or one of its fields, cut
\* the file before or inside a cell, or lose its beginning.
Blows == {"wiped", "astray", "version", "free page", "field", "cut", "cut inside", "beheaded"}

Struck(f, p, how) ==
  IF p > Len(f.cells) THEN f
  ELSE IF how = "wiped" THEN [f EXCEPT !.cells[p] = Cell("junk")]
  ELSE IF how = "astray" /\ f.cells[p].to # 0 /\ f.cells[p].mark # "start"
       THEN [f EXCEPT !.cells[p].to = 9]
  ELSE IF how = "version" /\ f.cells[p].mark \in {"Rar5", "CD001"}
       THEN [f EXCEPT !.cells[p].mark = IF @ = "Rar5" THEN "Rar?" ELSE "CD001?"]
  ELSE IF how = "free page" /\ f.cells[p].mark = "SQLite" THEN [f EXCEPT !.cells[p].aux = 9]
  ELSE IF how = "field" /\ f.cells[p].mark = "SQLite" THEN [f EXCEPT !.cells[p].flaw = "change counter"]
  ELSE IF how = "field" /\ f.cells[p].mark = "page" THEN [f EXCEPT !.cells[p].flaw = "cell pointer"]
  ELSE IF how = "cut" /\ p > 1 THEN [f EXCEPT !.cells = SubSeq(@, 1, p - 1), !.whole = TRUE]
  ELSE IF how = "cut inside" /\ p > 1 THEN [f EXCEPT !.cells = SubSeq(@, 1, p), !.whole = FALSE]
  ELSE IF how = "beheaded" /\ p = 1 /\ Len(f.cells) > 2 THEN [f EXCEPT !.cells = Tail(@)]
  ELSE f

MaxLen == 7

\* Each file, struck up to twice, with the one it was.
Damaged ==
  {[src |-> Struck(Struck(f, p, how), q, then), was |-> f]
     : f \in Intact, how \in Blows, then \in Blows, p, q \in 1 .. MaxLen}

Sources == {d.src : d \in Damaged} \cup Intact

\* What a run can meet: the sources and what is staged for them.
Product(f, s) ==
  CASE s = "source"   -> f
    [] s = "repaired" -> IF Repairable(f) THEN SignatureRepaired(f) ELSE f
    [] s = "carved"   -> IF Hits(f) # {} THEN Carved(f) ELSE f

World == {Product(f, s) : f \in Sources, s \in {"source", "repaired", "carved"}}

SeenTable   == [f \in World |-> SeenIn(f)]
SizeTable   == [f \in World |-> Halves(f)]
StagedTable == LET sources == Sources
               IN  [s \in Strategies |-> [f \in sources |-> StagedFor(s, f)]]

Request(src, ref, caller) ==
  [caller |-> caller, src |-> src, found |-> NamedDefects(src), ref |-> ref,
   listed |-> ref # NoBytes, hash_agrees |-> TRUE, output |-> TRUE,
   same_path |-> FALSE, forced |-> "auto", aggressive |-> FALSE, dry_run |-> FALSE,
   write_manifest |-> caller = "cli"]

\* A library caller may force either repair on any file; the repairs that would be
\* tried on a ZIP are modelled in ZipRepair.
MayCall(d, with) ==
  with \in {"nothing", "reference"} => DetectFormat(d.src, d.src.name) # "Zip"

Asked ==
  {a \in Damaged \X {"nothing", "reference", "sevenz-signature-restore", "forensic-carve"}
     : MayCall(a[1], a[2])}

Calls ==
  {IF a[2] = "reference" THEN Request(a[1].src, a[1].was, "cli")
   ELSE IF a[2] = "nothing" THEN Request(a[1].src, NoBytes, "cli")
   ELSE [Request(a[1].src, IF a[2] = "forensic-carve" THEN NoBytes ELSE a[1].was, "api")
           EXCEPT !.forced = a[2]]
     : a \in Asked}

\* The constants, under names of their own (see MCTarRecovery).
MCBlobs  == World
MCSeen   == SeenTable
MCSizeOf == SizeTable
MCStaged == StagedTable
MCJobs   == Calls
=============================================================================
