-------------------------- MODULE SignatureRecovery --------------------------
(***************************************************************************)
(* The recovery engine at work on files it knows by their signatures: what *)
(* the name settles in the analysis of the source is gone in that of the   *)
(* staged output, which is called "recovered".                             *)
(***************************************************************************)
EXTENDS RecoveryProperties, SignatureRepair

\* The engine's formats; those without a strategy of their own are one.
EngineFormat(format) ==
  IF format \in {"Zip", "Tar", "Gzip", "SevenZ", "Iso9660", "Raw"} THEN format ELSE "Other"

\* analyze_source under the file's own name, and under the name "recovered".
NamedDefects(f) == DefectsAs(f, DetectFormat(f, f.name), f.wal)
AnonDefects(f)  == DefectsAs(f, DetectFormat(f, "recovered"), "none")

SeenIn(f) ==
  [format |-> EngineFormat(DetectFormat(f, f.name)), named |-> NamedDefects(f),
   anon |-> AnonDefects(f), locked |-> FALSE, directory |-> "absent"]

StagedAs(bytes, recovered, lost, holds) ==
  {IF holds THEN [bytes |-> bytes, recovered |-> recovered, lost |-> lost]
            ELSE [bytes |-> NoBytes, recovered |-> 0, lost |-> 0]}

\* apply of every strategy: those for other formats find nothing.
StagedFor(s, f) ==
  CASE s \in Verbatim                 -> StagedAs(f, Halves(f), 0, TRUE)
    [] s = "sevenz-signature-restore" ->
         StagedAs(SignatureRepaired(f), Halves(f), 0, Repairable(f))
    [] s = "forensic-carve"           ->
         StagedAs(Carved(f), Halves(Carved(f)), Max({0, Halves(f) - Halves(Carved(f))}),
                  Hits(f) # {})
    [] OTHER                          -> StagedAs(f, 0, 0, FALSE)

\* The engine's contents are files with a first cell, its analyzer is the one
\* above, and so are its strategies; a repaired file is an output.  Behind the signature of a reference, a Start
\* Header is only found in a 7z archive.
ASSUME FilesAssumption ==
  /\ Blobs \subseteq Files
  /\ \A f \in Blobs :
       f.cells # << >> /\ Seen[f] = SeenIn(f) /\ SignatureRepaired(f) # NoBytes
  /\ \A s \in Strategies, j \in Jobs : Staged[s][j.src] = StagedFor(s, j.src)
  /\ \A j \in Jobs :
       j.ref # NoBytes /\ Len(j.ref.cells) > 1 /\ j.ref.cells[2].mark = "start"
         => HeadMark(j.ref) = "7z"

-----------------------------------------------------------------------------
\* sevenz_restore.rs: a 7z archive that lost its signature gets it back whatever
\* else is cut off behind its Start Header, and whether or not a reference says what
\* it was: the file is taken for a 7z by its name, the repair is selected, its
\* output counts as an improvement under a name that no longer helps, and nothing
\* but the signature has changed.
SignatureIsRestored ==
  LET f == job.src IN
    /\ result = "report" /\ AsksForFile(job) /\ job.forced = "auto"
    /\ job.found = NamedDefects(f)
    /\ f.name = ".7z" /\ Identify(f) \notin Readable
    /\ StartHeaderRead(f) /\ f.cells[2].mark = "start"
    => /\ report.success
       /\ HeadMark(output) = "7z" /\ Tail(output.cells) = Tail(f.cells)

\* sevenz/mod.rs: "false_recovered_bytes = 0": whatever a file is called and
\* whichever strategy is forced on it, the signature is only ever written to a
\* file that was a 7z archive, and so never to one with a sound other format.
RestoreIsProven ==
  Published /\ output # job.src /\ HeadMark(output) = "7z" =>
    /\ Tail(output.cells) = Tail(job.src.cells)
    /\ job.ref # NoBytes /\ Len(job.ref.cells) > 1 /\ job.ref.cells[2] = job.src.cells[2]
         => HeadMark(job.ref) = "7z"
    /\ RangeOf(AnonDefects(output)) \subseteq {"7Z_TRUNC_001"}

\* The formats a file cannot be of without its signature: a ZIP may have anything
\* in front.
Stamped == Readable \ {"Zip", "Tar", "Gzip"}

\* format_detection.rs: a file whose signature was destroyed is not "demoted to a
\* healthy Raw file": under a name that claims a format whose signature is not
\* there the analysis reports something, and where no other format is in the bytes
\* the identification says that only the name speaks for it.
LostSignatureIsReported ==
  \A format \in Stamped :
    LET f == job.src IN
      /\ Fallback(f.name) = format /\ Identify(f) \notin Readable
      /\ \A i \in DOMAIN Signatures : Signatures[i].format = format => ~Matches(f, Signatures[i])
      => /\ NamedDefects(f) # << >>
         /\ Identify(f) = "none" => Agreement(f) = "NameOnly"

\* f is g without its end.
IsCutOf(f, g) ==
  /\ IsPrefix(f.cells, g.cells)
  /\ Len(f.cells) < Len(g.cells) \/ (g.whole /\ ~f.whole)

\* detector.rs: what was cut off an archive or a database that says how long it is
\* is reported: of a 7z, which ends with its end header, from its Start Header on,
\* of a database that declares its pages.
CutIsReported ==
  LET f == job.src IN
    /\ job.ref # NoBytes /\ NamedDefects(job.ref) = << >> /\ IsCutOf(f, job.ref)
    /\ \/ HeadMark(f) = "7z" /\ StartHeaderRead(f) /\ job.ref.cells[2].to = Len(job.ref.cells)
       \/ HeadMark(f) = "SQLite" /\ f.cells[1].to # 0
    => NamedDefects(f) # << >>

\* forensic_carve.rs: what is carved is the source from its first signature on,
\* nothing between two signatures is dropped or doubled, the counts of a single
\* pass add up; and since a raw file has nothing to improve, a carving is only kept
\* if what its first signature announces is sound (a TAR or a gzip member is not
\* judged here).
CarvingIsExact ==
  Published /\ LastKept.by = "forensic-carve" =>
    /\ IsSuffix(output.cells, job.src.cells) /\ HeadMark(output) \in CarvedMarks
    /\ \A i \in 1 .. Len(job.src.cells) - Len(output.cells) :
         job.src.cells[i].mark \notin CarvedMarks
    /\ Len(kept) = 1 => report.recovered + report.lost = Halves(job.src)
    /\ \/ Identify(output) \in {"Tar", "Gzip"}
       \/ Verified(job, output) \/ AnonDefects(output) = << >> \/ ~IsClean(job)
=============================================================================
