---------------------------- MODULE TarRecovery ----------------------------
(***************************************************************************)
(* The recovery engine at work on TAR archives: its blobs are archives,    *)
(* the analysis of a blob is tar_defects, and what the TAR strategies      *)
(* stage is what they compute.                                             *)
(***************************************************************************)
EXTENDS RecoveryProperties, TarRepair

\* analyze_source of an archive in a file called *.tar, and in a sink called
\* "recovered", which an archive without its first magic makes Raw.
SeenIn(a) ==
  [format |-> "Tar", named |-> TarDefects(a),
   anon |-> IF HeadIsTar(a) THEN TarDefects(a) ELSE << >>,
   locked |-> FALSE, directory |-> "absent"]

StagedAs(bytes, was, holds) ==
  {IF holds THEN [bytes |-> bytes, recovered |-> HalfBlocks(bytes),
                  lost |-> IF HalfBlocks(was) > HalfBlocks(bytes)
                           THEN HalfBlocks(was) - HalfBlocks(bytes) ELSE 0]
            ELSE [bytes |-> NoBytes, recovered |-> 0, lost |-> 0]}

\* apply of every strategy: those for other formats find nothing in a TAR.  Only
\* the salvage counts what it leaves out.
StagedFor(s, a) ==
  CASE s \in Verbatim                   -> StagedAs(a, a, TRUE)
    [] s = "tar-checksum-fix"           -> StagedAs(ChecksumsFixed(a), a, ~AllZero(a))
    [] s = "tar-terminator-append"      -> StagedAs(TerminatorAppended(a), a, TRUE)
    [] s = "tar-size-resync"            -> StagedAs(Resynced(a), Resynced(a), MagicBlocks(a) # {})
    [] s = "tar-continuation-salvage"   -> StagedAs(SalvagedArchive(a), a, Salvaged(a) # {})
    [] OTHER                            -> StagedAs(a, a, FALSE)

\* The engine's contents are archives, told from an empty sink, its analyzer is the
\* detector and its strategies are the ones above.
ASSUME ArchivesAssumption ==
  /\ Blobs \subseteq Archives /\ NoBytes \notin Archives
  /\ \A a \in Blobs : Seen[a] = SeenIn(a)
  /\ \A s \in Strategies, j \in Jobs : Staged[s][j.src] = StagedFor(s, j.src)

-----------------------------------------------------------------------------
\* Members the reader comes to that are proven by their checksum and all there.
Readable(a) ==
  {MemberAt(a, p) : p \in {q \in ReadBlocks(a) :
     /\ HasMagic(a.blocks[q]) /\ SumOk(a.blocks[q])
     /\ ~CutShort(a, q)}}

\* Members with a proven header anywhere in the file, all there.
Proven(a) ==
  {MemberAt(a, p) : p \in {q \in DOMAIN a.blocks :
     HasMagic(a.blocks[q]) /\ SumOk(a.blocks[q]) /\ Whole(a, q)}}

\* What tar-continuation-salvage publishes is an archive without a defect, and
\* every member of it stands in the source as it is, under a header whose
\* checksum holds: "exact, header-proven bytes" (resync/tar.rs).
SalvageIsExact ==
  Published /\ LastKept.by = "tar-continuation-salvage"
    => /\ TarDefects(output) = << >>
       /\ Readable(output) \subseteq Proven(job.src)

\* The blocks a strategy takes for headers: tar-checksum-fix believes the magic
\* alone, the salvage wants the checksum.
Believed(s, a) ==
  {p \in DOMAIN a.blocks :
     HasMagic(a.blocks[p]) /\ (s = "tar-checksum-fix" \/ SumOk(a.blocks[p]))}

\* A header inside the data of a member that is not proven (an archive in the
\* archive) leads no further than that data.
InnerHeadersStayInside(a, heads) ==
  \A p \in heads, q \in ReadBlocks(a) : p < q => p + DataBlocks(a.blocks[p]) < q

\* No repair costs a member that could be read before it: whatever is published,
\* each member the reader found proven and whole is found in it again.  This
\* takes the walks of the reader and of the strategy to agree on where members
\* are, although they skip different blocks.  (One whose reference has not got
\* the member gets the reference.)
NoReadableMemberIsLost ==
  (/\ Published /\ InnerHeadersStayInside(job.src, Believed(LastKept.by, job.src))
   /\ job.ref # NoBytes => Readable(job.src) \subseteq Readable(job.ref))
    => Readable(job.src) \subseteq Readable(output)

\* Headers, and zero blocks at the end, stand where the reader looks for them, and
\* either checksums are wrong or the terminator is missing.  (tar-checksum-fix
\* takes a single zero block for the end, the reader does not;
\* tar-terminator-append takes the zeros at the end of a payload for a
\* terminator.)
OneKindOfDamage(a) ==
  /\ \A p, q \in ReadBlocks(a) :
       \/ HasMagic(a.blocks[p])
       \/ IsZero(a.blocks[p]) /\ (q > p => IsZero(a.blocks[q]))
  /\ HeadIsTar(a) /\ a.rest = << >>
  /\ \/ RangeOf(TarDefects(a)) = {"TAR_UST_001"}
     \/ RangeOf(TarDefects(a)) = {"TAR_TERM_001"} /\ ~Ended(a)

\* Damage to checksum fields alone, or the loss of the terminator alone, is undone:
\* a run succeeds, what it publishes has no defect and differs from the source in
\* checksum fields and zero blocks at the end only.  (Where a reference hash
\* disagrees with the source an unchanged copy counts as an improvement, since
\* reanalyze_health does not compare hashes, and may be published instead.)
FieldDamageIsUndone ==
  (/\ result = "report" /\ AsksForFile(job) /\ ~job.aggressive /\ job.forced = "auto"
   /\ job.found = TarDefects(job.src) /\ job.ref = NoBytes /\ OneKindOfDamage(job.src))
    => /\ report.success /\ TarDefects(output) = << >>
       /\ \A p \in DOMAIN job.src.blocks :
            \/ output.blocks[p] = job.src.blocks[p]
            \/ output.blocks[p] = [job.src.blocks[p] EXCEPT !.sum = "ok"]

-----------------------------------------------------------------------------
\* Claims of the documentation that the code does not keep.

\* plan.rs:16-18, of a Safe repair: "byte-exact reconstruction from surviving
\* redundant data [...] No information is invented; member payloads are copied
\* verbatim."  The payload of every member that can be read in the output stands
\* in the source.
SafeInventsNothing ==
  Published /\ Risk[LastKept.by] = "Safe" =>
    \A m \in Readable(output) :
      \E p \in DOMAIN job.src.blocks :
        Whole(job.src, p) /\ Tail(m) = Tail(MemberAt(job.src, p))
=============================================================================
