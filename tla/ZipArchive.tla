----------------------------- MODULE ZipArchive -----------------------------
(***************************************************************************)
(* A ZIP archive as the analyze engine reads it (reader/zip.rs) and the    *)
(* defects it reports (corruption/detector.rs, zip_defects).               *)
(*                                                                         *)
(* Offsets are member numbers, payloads are "ok" or "bad", and a checksum  *)
(* is the payload it is the CRC-32 of: two payloads never collide.  A size *)
(* field is told apart by where it leads: to the end of the payload        *)
(* ("true"), nowhere because the entry is streamed ("zero"), into the      *)
(* payload ("short"), beyond the end of the file ("past").  Members are    *)
(* stored or deflated.  Left out are a size that leads into a later member *)
(* and a name or extra field that runs past the end of the file, but for   *)
(* the last header of a file that is cut there, which is "past".           *)
(***************************************************************************)
EXTENDS Integers, SequencesExt

Payloads == {"ok", "bad"}
Checksums == Payloads \cup {"junk", "zero"}     \* zero: a streamed header's
LocalSizes == {"true", "zero", "short", "past"}
Sizes == LocalSizes \cup {"wrong"}              \* a directory size no header has

\* One member as its local header describes it: sig, the signature is there;
\* streamed, sizes and checksum follow the payload (general-purpose bit 3).
LocalRecords == [sig : BOOLEAN, streamed : BOOLEAN, stored : BOOLEAN,
                 size : LocalSizes, crc : Checksums, body : Payloads]

\* A directory record; at is the member its offset points to.
DirectoryRecords == [at : Nat \ {0}, size : Sizes, crc : Checksums]

\* cd holds the records up to the first one whose signature is gone.  eocd:
\* where the end record says the directory is, if there is an end record.
Archives == {a \in [locals : Seq(LocalRecords), cd : Seq(DirectoryRecords),
                    eocd : {"ok", "astray", "oob", "missing"}, declared : Nat] :
               \A k \in DOMAIN a.cd : a.cd[k].at \in DOMAIN a.locals}

\* parse_central_directory, from the offset in the end record.
Entries(a) == IF a.eocd = "ok" THEN a.cd ELSE << >>

\* The checksum of the first bytes of a payload, as many as a size field says.
CrcOver(l, size) == IF size = "true" THEN l.body ELSE "none"

\* The defects of a directory entry: the sizes are compared whatever the flags
\* say, and only a stored payload that is all there is checksummed, against the
\* directory.
EntryDefects(a, c) ==
  LET l == a.locals[c.at]
  IN  IF l.size # c.size THEN <<"ZIP_SIZE_001">>
      ELSE IF l.stored /\ c.size # "past" /\ CrcOver(l, c.size) # c.crc THEN <<"ZIP_CRC_001">>
      ELSE << >>

\* zip_defects.
ZipDefects(a) ==
  LET entries == Entries(a)
      Report(rule, holds) == IF holds THEN <<rule>> ELSE << >>
      perEntry == [k \in DOMAIN entries |-> EntryDefects(a, entries[k])]
  IN  IF a.eocd = "missing" THEN <<"ZIP_EOCD_001">>
      ELSE Report("ZIP_EOCD_002", entries = << >> /\ a.eocd = "oob")
           \o Report("ZIP_CD_001", entries = << >> /\ a.eocd # "oob")
           \o Report("ZIP_CD_003", entries # << >> /\ a.declared # Len(entries))
           \o Report("ZIP_LFH_001", \E k \in DOMAIN entries : ~a.locals[entries[k].at].sig)
           \o FlattenSeq(perEntry)

\* identify: without a file name the first signature alone makes it a ZIP.
HeadIsZip(a) == a.locals # << >> /\ a.locals[1].sig

\* parse_zip (phx_zip_core), as far as the provenance of the directory goes: a
\* directory the end record misplaces is found by measuring back from it.
DirectoryFound(a) ==
  IF a.eocd # "missing" /\ a.cd # << >> THEN "survives" ELSE "absent"
=============================================================================
