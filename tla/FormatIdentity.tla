--------------------------- MODULE FormatIdentity ---------------------------
(***************************************************************************)
(* What a file is: by its bytes (phx_format_id, identify), by its name     *)
(* (from_extension), and for the analysis (format_detection, detect), for  *)
(* which the name settles what the bytes leave open.                       *)
(*                                                                         *)
(* A file is a sequence of cells, the stretches between the places where   *)
(* something is looked for.  A cell's mark is what stands at its start; a  *)
(* file that is not whole ends inside its last cell.  Distances are scaled *)
(* down: the stamp of a TAR is in cell 3, that of an ISO image in cell 4,  *)
(* a footer is the last cell.  The first cell is never cut.                *)
(***************************************************************************)
EXTENDS Integers, Sequences

\* to and aux: where a pointer or a count in the cell leads; flaw: what else is
\* wrong with the structure that starts here.
Cells == [mark : STRING, to : Nat, aux : Nat, flaw : STRING]

\* name: the extension.  wal: the companion file beside a database.
Files == [name : STRING, cells : Seq(Cells), whole : BOOLEAN,
          wal : {"none", "ok", "bad magic", "other salt"}]

Rule(format, anchor, at, magic) ==
  [format |-> format, anchor |-> anchor, at |-> at, magic |-> magic]

\* SIGNATURES, in the order they are tried, the three rules of a ZIP as one: "PK" is a
\* local header's mark, "eocd" an end record's, "dd" a data descriptor's.  RAR's stamp
\* is followed by a version the table does not look at.
Signatures ==
  << Rule("Zip", "start", 1, {"PK", "eocd", "dd"}), Rule("Gzip", "start", 1, {"1F8B"}),
     Rule("Sqlite", "start", 1, {"SQLite"}), Rule("Pdf", "start", 1, {"%PDF"}),
     Rule("Bzip2", "start", 1, {"BZh"}), Rule("Xz", "start", 1, {"7zXZ"}),
     Rule("Zstd", "start", 1, {"28B52FFD"}), Rule("Lz4", "start", 1, {"04224D18"}),
     Rule("SevenZ", "start", 1, {"7z"}), Rule("Rar", "start", 1, {"Rar4", "Rar5", "Rar?"}),
     Rule("Cab", "start", 1, {"MSCF"}), Rule("Wim", "start", 1, {"MSWIM"}),
     Rule("Qcow2", "start", 1, {"QFI"}), Rule("Vhdx", "start", 1, {"vhdxfile"}),
     Rule("Vhd", "start", 1, {"conectix"}), Rule("Vmdk", "start", 1, {"KDMV"}),
     Rule("AcronisTib", "start", 1, {"CE24B9A2"}),
     Rule("Vhd", "end", 1, {"conectix"}), Rule("Dmg", "end", 1, {"koly"}),
     Rule("MacriumX", "end", 1, {"MACRIUM_FILE"}),
     Rule("Tar", "start", 3, {"ustar"}), Rule("Iso9660", "start", 4, {"CD001", "CD001?"}) >>

\* window: the cell a magic would occupy, counted from the end for a footer; a
\* file that was cut inside a cell has nothing at a footer's distance.
Window(f, s) ==
  IF s.anchor = "start" THEN s.at
  ELSE IF f.whole THEN Len(f.cells) + 1 - s.at ELSE 0

Matches(f, s) ==
  /\ Window(f, s) \in DOMAIN f.cells
  /\ f.cells[Window(f, s)].mark \in s.magic

\* identify: the first rule that matches.
Identify(f) ==
  LET hits == {i \in DOMAIN Signatures : Matches(f, Signatures[i])}
  IN  IF hits = {} THEN "none"
      ELSE Signatures[CHOOSE i \in hits : \A k \in hits : i <= k].format

\* from_shared: the formats the engine has a reader for.
Readable == {"Zip", "Tar", "Iso9660", "Gzip", "Sqlite", "SevenZ", "Rar", "Pdf",
             "Bzip2", "Xz", "Zstd", "Lz4"}

ReadableExtensions(format) ==
  CASE format = "Tar"     -> {".tar"}
    [] format = "Iso9660" -> {".iso"}
    [] format = "Gzip"    -> {".gz", ".tgz"}
    [] format = "Sqlite"  -> {".db", ".sqlite", ".sqlite3"}
    [] format = "SevenZ"  -> {".7z"}
    [] format = "Rar"     -> {".rar"}
    [] format = "Pdf"     -> {".pdf"}
    [] format = "Bzip2"   -> {".bz2"}
    [] format = "Xz"      -> {".xz"}
    [] format = "Zstd"    -> {".zst", ".zstd"}
    [] format = "Lz4"     -> {".lz4"}
    [] OTHER              -> {}

OfficeExtensions == {".zip", ".jar", ".apk", ".docx", ".xlsx", ".pptx", ".epub"}

\* Format::extensions.
Extensions(format) ==
  CASE format \in Readable \ {"Zip"} -> ReadableExtensions(format)
    [] format = "Zip"        -> OfficeExtensions \cup {".odt", ".ods"}
    [] format = "Cab"        -> {".cab"}
    [] format = "Wim"        -> {".wim"}
    [] format = "Qcow2"      -> {".qcow2", ".qcow"}
    [] format = "Vhd"        -> {".vhd"}
    [] format = "Vhdx"       -> {".vhdx", ".avhdx"}
    [] format = "Vmdk"       -> {".vmdk"}
    [] format = "Dmg"        -> {".dmg"}
    [] format = "AcronisTib" -> {".tib"}
    [] format = "MacriumX"   -> {".mrimgx", ".mrbakx"}

Named == {Signatures[i].format : i \in DOMAIN Signatures}

\* from_extension: no extension of the table ends another.
FromExtension(name) ==
  IF \E g \in Named : name \in Extensions(g)
  THEN CHOOSE g \in Named : name \in Extensions(g) ELSE "none"

\* Identification::agreement.
Agreement(f) ==
  LET content == Identify(f)
      name    == FromExtension(f.name)
  IN  CASE content # "none" /\ content = name -> "Match"
        [] content # "none" /\ name = "none"  -> "ContentOnly"
        [] content = "none" /\ name # "none"  -> "NameOnly"
        [] content = "none" /\ name = "none"  -> "Unknown"
        [] OTHER                              -> "Mismatch"

\* The extension fallbacks of detect.
Fallback(name) ==
  LET Claims(g) == name \in (IF g = "Zip" THEN OfficeExtensions ELSE ReadableExtensions(g))
  IN  IF \E g \in Readable : Claims(g) THEN CHOOSE g \in Readable : Claims(g) ELSE "Raw"

\* Mutant: only the bytes decide.
DetectFormatByContent(f, name) == IF Identify(f) \in Readable THEN Identify(f) ELSE "Raw"

\* detect: the bytes, if they name a format that can be read; else the name.
DetectFormat(f, name) == IF Identify(f) \in Readable THEN Identify(f) ELSE Fallback(name)
=============================================================================
