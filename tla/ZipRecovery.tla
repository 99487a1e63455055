---------------------------- MODULE ZipRecovery ----------------------------
(***************************************************************************)
(* The recovery engine at work on ZIP archives: its blobs are archives,    *)
(* the analysis of a blob is zip_defects, and what the two ZIP strategies  *)
(* stage is what they compute.                                             *)
(***************************************************************************)
EXTENDS RecoveryProperties, ZipRepair

\* analyze_source of an archive in a file called *.zip, and in a sink called
\* "recovered", which an archive without its first signature makes Raw.
SeenIn(a) ==
  [format |-> "Zip", named |-> ZipDefects(a),
   anon |-> IF HeadIsZip(a) THEN ZipDefects(a) ELSE << >>,
   locked |-> FALSE, directory |-> DirectoryFound(a)]

LengthOf(a) == Len(a.locals) + Len(a.cd) + 1

StagedAs(bytes, holds) ==
  {IF holds THEN [bytes |-> bytes, recovered |-> LengthOf(bytes), lost |-> 0]
            ELSE [bytes |-> NoBytes, recovered |-> 0, lost |-> 0]}

\* apply of every strategy: those for other formats find nothing in a ZIP.
StagedFor(s, a) ==
  CASE s \in Verbatim      -> StagedAs(a, TRUE)
    [] s = "zip-rebuild"   -> StagedAs(Rebuilt(a), Walked(a) # {})
    [] s = "zip-crc-fix"   -> StagedAs(CrcFixed(a), CrcFixable(a))
    [] OTHER               -> StagedAs(a, FALSE)

\* The engine's contents are archives, its analyzer is the detector, its strategies
\* are the ones above, and a rebuilt archive is told from an empty sink.
ASSUME ArchivesAssumption ==
  /\ Blobs \subseteq Archives
  /\ \A a \in Blobs : Seen[a] = SeenIn(a) /\ Rebuilt(a) # NoBytes
  /\ \A s \in Strategies, j \in Jobs : Staged[s][j.src] = StagedFor(s, j.src)

-----------------------------------------------------------------------------
\* A damaged payload contradicts every checksum beside it.
DamageShows(a) ==
  /\ \A i \in DOMAIN a.locals : a.locals[i].body = "bad" => a.locals[i].crc # "bad"
  /\ \A k \in DOMAIN a.cd : a.locals[a.cd[k].at].body = "bad" => a.cd[k].crc # "bad"

\* false_recovery_regression.rs, repair_never_rewrites_a_checksum_the_payload_
\* contradicts: whatever recover publishes, the payloads are the source's, and
\* where damage shows in the source it shows in the output.
DamageStaysDetectable ==
  Published =>
    /\ \A i \in DOMAIN output.locals : output.locals[i].body = job.src.locals[i].body
    /\ DamageShows(job.src) => DamageShows(output)

\* What zip-rebuild publishes has a directory again: it lists the headers that
\* are there, with their sizes, and only checksums are left to complain about,
\* except that the count wraps in an archive with as many members as a u16 has
\* values, or more.
RebuiltDirectoryResolves ==
  Published /\ LastKept.by = "zip-rebuild"
    => /\ \A rule \in RangeOf(ZipDefects(output)) :
            rule = "ZIP_CRC_001" \/ (rule = "ZIP_CD_003" /\ Len(output.cd) >= U16)
       /\ \A k \in DOMAIN output.cd : output.locals[output.cd[k].at].size # "past"

\* There are members, no more than a count can say, every local header leads on,
\* and the detector complains of the directory.
DirectoryDamageOnly(a) ==
  /\ a.locals # << >> /\ Len(a.locals) < U16
  /\ \A i \in DOMAIN a.locals : LeadsOn(a.locals[i])
  /\ RangeOf(ZipDefects(a)) \cap (ZipEocdRules \cup ZipCdRules) # {}

\* Damage that is confined to the directory and its end record costs nothing:
\* unless it was told which strategy to use or to try them all, recover succeeds on
\* what the detector found, and every member is listed again with the checksum its
\* header kept.
DirectoryDamageIsRecovered ==
  (/\ result = "report" /\ AsksForFile(job) /\ ~job.aggressive /\ job.forced = "auto"
   /\ job.found = ZipDefects(job.src) /\ DirectoryDamageOnly(job.src))
    => /\ report.success
       /\ output.locals = job.src.locals
       /\ \A i \in DOMAIN output.locals :
            \E k \in DOMAIN Entries(output) :
              /\ Entries(output)[k].at = i
              /\ Entries(output)[k].size = "true"
              /\ Entries(output)[k].crc = output.locals[i].crc

\* The findings of b are the source's, less at least one that costs points.
Helps(b) ==
  LET before == Corruptions(job)
      after  == Seen[b].anon
      Times(rule, found) == Cardinality({i \in DOMAIN found : found[i] = rule})
  IN  /\ \A rule \in RangeOf(after) : Times(rule, after) <= Times(rule, before)
      /\ \E rule \in RangeOf(before) : /\ Times(rule, after) < Times(rule, before)
                                       /\ PenaltyFor[rule].points > 0

\* The points of the findings exceed what a subscore can lose.
Overdrawn(found) ==
  \E sub \in Subscores : Deducted(sub, [i \in DOMAIN found |-> PenaltyFor[found[i]]]) > 100

\* Scores are compared, not findings, and a subscore is clamped at 0: a repair that
\* takes findings away and adds none is rolled back only where the clamp hides that
\* it helped, or where it is Inferred and must match a reference (score and the
\* rollback gate of run_passes).
HelpIsLostToTheClampOnly ==
  \A s \in RangeOf(report.rolled_back) : \A x \in Staged[s][job.src] :
    x.bytes # NoBytes /\ Risk[s] # "Inferred" /\ Helps(x.bytes) => Overdrawn(Corruptions(job))

-----------------------------------------------------------------------------
\* Claims of the documentation that the code does not keep.

\* README.md:9-11: "Every recovered byte is independently checked against a
\* checksum the format itself carries (CRC-32, structural checksums); nothing is
\* reported as recovered on a guess."
RecoveredMembersCheck ==
  Published =>
    \A k \in DOMAIN output.cd :
      LET l == output.locals[output.cd[k].at]
      IN  CrcOver(l, output.cd[k].size) = output.cd[k].crc

\* model.rs:103, of health_after: "Overall health of the committed output after
\* recovery": what an analysis of that file under the source's name reports.
HealthIsOfTheArtifact ==
  Published /\ report.health_after # None
    => report.health_after = Score(Seen[output].named)
=============================================================================
