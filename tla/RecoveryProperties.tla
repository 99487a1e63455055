------------------------- MODULE RecoveryProperties -------------------------
(***************************************************************************)
(* What the recovery engine promises, and what its documentation says of   *)
(* it that the code does not keep.                                         *)
(***************************************************************************)
EXTENDS RecoveryEngine

Plans == [rule : RuleIds, by : Strategies, risk : {"Safe", "Inferred", "Lossy"}]

KeptRecords == [by : Strategies, bytes : Blobs, recovered : Nat]

Outcomes == [bytes : Blobs \cup {NoBytes}, plans : SUBSET Plans, verified : BOOLEAN]

Reports == [success : BOOLEAN, recovered : Nat, lost : Nat, applied : Seq(Strategies),
            rolled_back : Seq(Strategies), health_before : 0..100 \cup {None},
            health_after : 0..100 \cup {None}, manifest_path : BOOLEAN]

Manifests ==
  [source : Blobs, output : Blobs,
   repairs : SUBSET [rule : RuleIds, guarantee : {"Verified", "Unverified", "Lost"}],
   directory : {"RECONSTRUCTED", "ORIGINAL_SURVIVING", "ABSENT"},
   verified : Nat, unverified : Nat, lost : Nat]

Points == {"idle", "analyze", "open", "select", "pass", "finish", "manifest"}

\* The types of the engine's state.
TypeOK ==
  /\ pc \in Points
  /\ job \in Jobs
  /\ todo \subseteq Strategies
  /\ kept \in Seq(KeptRecords)
  /\ outcome \in Outcomes
  /\ report \in Reports
  /\ result \in {"none", "error", "listed", "report", "crashed"}
  /\ emitted \in Blobs \cup {NoBytes}
  /\ output \in Blobs \cup {NoBytes, Torn}
  /\ sidecar \in Manifests \cup {NoBytes, Torn}
  /\ runs \in 0..MaxRuns

-----------------------------------------------------------------------------
\* Safety.

LastKept == kept[Len(kept)]

\* recover returned a report and had an output to write.
Published == result = "report" /\ ToCommit

\* "Zero non-rolled-back health regressions": when recover returns a report, the
\* file it wrote is the last kept output; it matches the source's reference, or
\* its re-analysed health is known and not below the source's, and an output of
\* an Inferred strategy matches the reference in any case.
PublishedIsJustified ==
  Published =>
    /\ output = outcome.bytes
    /\ \/ Verified(job, output)
       \/ HealthAfter(output) # None /\ Risk[LastKept.by] # "Inferred"
    /\ HealthAfter(output) # None => HealthAfter(output) >= BaseHealth(job)

\* The report says success exactly when a pass was kept, and then, short of a
\* dry run, an artifact is on disk: the command line's "nothing recoverable —
\* abstained" is never printed over a new file, and "recovery succeeded" never
\* without one.  Its exit code follows.
SuccessMeansArtifact ==
  result = "report" =>
    /\ report.success <=> kept # << >>
    /\ report.success /\ ~job.dry_run /\ job.caller # "stream" => output = LastKept.bytes
    /\ job.caller = "cli" /\ ExitCode = "success" /\ ~IsClean(job) => output \in Blobs

\* Every kept output, in the order the gate would rank them: byte-verified
\* first, then by health.
AtLeastAsGood(b, c) ==
  \/ Verified(job, b)
  \/ ~Verified(job, c) /\ HealthAfter(b) >= HealthAfter(c)

\* "The best kept output of a recovery run" (PassOutcome).
BestKept ==
  \A i \in DOMAIN kept : AtLeastAsGood(outcome.bytes, kept[i].bytes)

\* Unless the caller asked to try everything, the outcome is the best output
\* kept so far although it is simply the latest one.
BestKeptUnlessAggressive == ~job.aggressive => BestKept

Tried == RangeOf(report.applied) \cup RangeOf(report.rolled_back)

\* The passes stop for a reason the code gives: every strategy selected was
\* tried, or MAX_PASSES were, or the last kept output is verified or healthier
\* and the run is not aggressive.  Those tried come before those that were not,
\* and none was tried twice.
StopsForAReason ==
  /\ Tried \cap todo = {}
  /\ Passes = Cardinality(Tried) /\ Passes <= MAX_PASSES
  /\ \A s \in Tried, t \in todo : Before(s, t)
  /\ result = "report" /\ todo # {} =>
       \/ Passes = MAX_PASSES
       \/ /\ ~job.aggressive /\ kept # << >>
          /\ Verified(job, LastKept.bytes) \/ Improved(job, LastKept.bytes)

\* A manifest that the report points to describes the file beside it, and calls
\* bytes or a repair Verified only when that file has the reference's hash.
ManifestIsBacked ==
  report.manifest_path =>
    /\ sidecar.output = output /\ sidecar.source = job.src
    /\ (sidecar.verified > 0 \/ \E r \in sidecar.repairs : r.guarantee = "Verified")
         => Verified(job, output)

\* recover_stream gives back the input, or bytes the gate kept: a stream has no
\* reference, so they are at least as healthy and come from no Inferred repair.
StreamIsFaithful ==
  job.caller = "stream" /\ result = "report" =>
    \/ emitted = job.src /\ kept = << >>
    \/ /\ kept # << >> /\ emitted = LastKept.bytes
       /\ HealthAfter(emitted) >= BaseHealth(job) /\ Risk[LastKept.by] # "Inferred"

\* What a step may never do: write the output file while strategies may still run
\* (an error in a later pass drops what an earlier one kept), of a dry run, of a
\* source that is clean and was not forced, of a run that kept nothing, of a
\* stream, or over the source itself.
WritesAreEarned ==
  [][output' # output =>
       /\ pc = "finish"
       /\ kept # << >> /\ ~job.dry_run /\ ~job.same_path /\ job.caller # "stream"
       /\ job.forced # "auto" \/ ~IsClean(job)]_vars

\* The output file is written before the manifest is, so a run that dies never
\* leaves a new manifest beside an old output: a step that replaces the sidecar
\* leaves the output alone, and finds this run's output already there.
SidecarFollowsOutput ==
  [][sidecar' # sidecar => output' = output /\ output = LastKept.bytes]_vars

-----------------------------------------------------------------------------
\* Liveness: a call that was made returns, or its process dies.
EveryRunReturns == pc # "idle" ~> pc = "idle"

-----------------------------------------------------------------------------
\* The engine implements RecoveryContract.  A report with success is answered
\* "success", one without is answered "nothing".

Justifies(j, b) ==
  Verified(j, b) \/ (HealthAfter(b) # None /\ HealthAfter(b) >= BaseHealth(j))

AsksForFile(j) == ~j.dry_run /\ j.caller # "stream"

Phase == CASE pc = "idle" -> "idle" [] pc = "manifest" -> "published" [] OTHER -> "working"

AnswerGiven == IF result = "report" THEN IF report.success THEN "success" ELSE "nothing"
               ELSE result

Contract == INSTANCE RecoveryContract WITH
  Requested <- Jobs, Contents <- Blobs, Absent <- NoBytes, TornFile <- Torn,
  Justified <- Justifies, MayWrite <- AsksForFile,
  phase <- Phase, request <- job, artifact <- output, answer <- AnswerGiven

\* Every step of recover and recover_stream, their I/O errors and a kill at any
\* point included, is a step of the contract, and the request is answered.
ImplementsContract == Contract!CSpec

-----------------------------------------------------------------------------
\* Claims of the documentation that the code does not keep.

\* manifest.rs:119-122, of central_directory_provenance: "A directory PHX rebuilt
\* [...] must never be labelled surviving-original."
RebuiltIsNeverOriginal ==
  report.manifest_path /\ RebuildsDirectory(LastKept.by)
    => sidecar.directory # "ORIGINAL_SURVIVING"
=============================================================================
