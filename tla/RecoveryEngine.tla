--------------------------- MODULE RecoveryEngine ---------------------------
(***************************************************************************)
(* The recovery engine (phx_recovery/src/engine.rs) and its callers: the   *)
(* veraqis-recover command line, a library caller of recover with options  *)
(* of its own, and recover_stream.                                         *)
(*                                                                         *)
(* A run analyses the source, selects strategies, applies at most          *)
(* MAX_PASSES of them to the unmodified source, each into a fresh staging  *)
(* sink, keeps or rolls back what was staged, commits the last kept output *)
(* to <dir>/<name>.recovered and writes the .phxr.json manifest beside it. *)
(* Runs follow one another on the same paths; a run may meet an I/O error  *)
(* at every file access and may be killed between and inside its writes.   *)
(*                                                                         *)
(* File contents are opaque: Blobs.  What the analyzer says of a blob and  *)
(* what a strategy may stage for one are constants.                        *)
(***************************************************************************)
EXTENDS HealthScore, StrategyCatalog

CONSTANTS
  Blobs,    \* contents a file, a sink or a stream can have
  NoBytes,  \* an empty sink; on disk: no file
  Torn,     \* a file whose writer failed or died inside fs::write
  Seen,     \* what analyze_source finds in a blob
  SizeOf,   \* length of a blob
  Staged,   \* what a strategy may leave in its sink for a source; {}: it panics
  Jobs,     \* the requests callers make
  MaxRuns   \* bound: runs made on the same source and output path

None == -1  \* Option::None, where Some(_) is a natural number

\* named: defects found when the data source carries the source's own name, so
\* that the extension can settle the format; anon: when it is called
\* "recovered".  locked: the analysis refuses it (an encrypted ZIP).
\* directory: how parse_zip came by the central directory.
Findings == [format : Formats, named : Seq(RuleIds), anon : Seq(RuleIds),
             locked : BOOLEAN, directory : {"survives", "scanned", "absent"}]

\* What apply returns: the sink and the report's byte counts.
Stagings == [bytes : Blobs \cup {NoBytes}, recovered : Nat, lost : Nat]

\* ref is the content whose hash the sidecar names (NoBytes: no expected hash);
\* listed is manifest_present; found is the source's corruptions, before the
\* manifest mismatch; hash_agrees: options.hash_type is the analysis's.
Requests == [caller : {"cli", "api", "stream"}, src : Blobs, found : Seq(RuleIds),
             ref : Blobs \cup {NoBytes}, listed : BOOLEAN, hash_agrees : BOOLEAN,
             output : BOOLEAN, same_path : BOOLEAN,
             forced : Strategies \cup {"auto", "unknown"}, aggressive : BOOLEAN,
             dry_run : BOOLEAN, write_manifest : BOOLEAN]

ASSUME BlobsAssumption == NoBytes \notin Blobs /\ Torn \notin Blobs /\ NoBytes # Torn

ASSUME SeenAssumption == /\ Seen \in [Blobs -> Findings]
                         /\ SizeOf \in [Blobs -> Nat \ {0}]

ASSUME StagedAssumption ==
  \A s \in Strategies, j \in Jobs :
    /\ Staged[s][j.src] \subseteq Stagings
    /\ s \in Verbatim =>
         Staged[s][j.src] = {[bytes |-> j.src, recovered |-> SizeOf[j.src], lost |-> 0]}

\* veraqis-recover leaves every option but the output directory and the hash
\* type at its default, and only a library caller can analyse against a
\* known-good reference: the others find what Seen says.
ASSUME JobsAssumption ==
  /\ Jobs \subseteq Requests /\ Jobs # {}
  /\ \A j \in Jobs :
       /\ j.ref # NoBytes => j.listed
       /\ j.caller # "api" => j.found = Seen[j.src].named
       /\ j.caller = "cli" => /\ j.forced = "auto" /\ j.hash_agrees
                              /\ ~j.aggressive /\ ~j.dry_run /\ j.write_manifest
       /\ j.caller # "cli" => j.output
       /\ j.caller = "stream" => j.ref = NoBytes /\ ~j.listed /\ ~j.same_path

ASSUME MaxRunsAssumption == MaxRuns \in Nat

VARIABLES
  pc,       \* where the run is
  job,      \* what it was asked for
  todo,     \* strategies selected and not yet applied
  kept,     \* every staging the gate kept in this run, oldest first (history)
  outcome,  \* PassOutcome: the latest kept output, its plans, its verification
  report,   \* the aggregate RecoveryReport
  result,   \* what the call returned
  emitted,  \* the bytes recover_stream returned
  output,   \* the file <dir>/<name>.recovered
  sidecar,  \* the file <dir>/<name>.recovered.phxr.json
  runs      \* runs started so far

run  == <<todo, kept, outcome, report, emitted>>
disk == <<output, sidecar>>
vars == <<pc, job, run, result, disk, runs>>

-----------------------------------------------------------------------------
\* The analysis of the source, and of a staged output.

RangeOf(seq) == {seq[i] : i \in DOMAIN seq}

\* The detector adds the manifest mismatch to what the format scan found.
Corruptions(j) ==
  IF j.ref # NoBytes /\ j.ref # j.src THEN Append(j.found, "INTEGRITY_HASH_001")
                                      ELSE j.found

IsClean(j) == Corruptions(j) = << >>

BaseHealth(j) == Score(Corruptions(j))

\* reanalyze_health: the staged bytes are analysed under the name "recovered",
\* next to which no hash sidecar exists.
HealthAfter(b) ==
  IF b # NoBytes /\ Seen[b].locked THEN None
  ELSE Score(IF b = NoBytes THEN << >> ELSE Seen[b].anon)

\* verify: hash equality, taken as content equality.
Verified(j, b) == j.ref # NoBytes /\ j.hash_agrees /\ b = j.ref

\* Mutant: the difference has to be marked.
ImprovedMarkedly(j, b) == HealthAfter(b) # None /\ HealthAfter(b) > BaseHealth(j) + 5

Improved(j, b) == HealthAfter(b) # None /\ HealthAfter(b) > BaseHealth(j)
Held(j, b) == HealthAfter(b) = BaseHealth(j)
Regressed(j, b) == HealthAfter(b) # None /\ HealthAfter(b) < BaseHealth(j)

\* Mutant: no stricter bar for Inferred strategies.
KeepFitted(j, s, b) ==
  /\ b # NoBytes
  /\ ~Regressed(j, b)
  /\ Verified(j, b) \/ Improved(j, b) \/ (Held(j, b) /\ s \in Terminal)

\* The rollback gate.
Keep(j, s, b) ==
  /\ b # NoBytes
  /\ ~Regressed(j, b)
  /\ IF Risk[s] = "Inferred"
     THEN Verified(j, b)
     ELSE Verified(j, b) \/ Improved(j, b) \/ (Held(j, b) /\ s \in Terminal)

\* select, in auto mode, once the Tier-0 gate is passed.
Applicable(j) ==
  {s \in Strategies : CanApply(s, Seen[j.src].format, RangeOf(Corruptions(j)), j.listed)}

MAX_PASSES == 3

Passes == Len(report.applied) + Len(report.rolled_back)

-----------------------------------------------------------------------------
EmptyReport == [success |-> FALSE, recovered |-> 0, lost |-> 0, applied |-> << >>,
                rolled_back |-> << >>, health_before |-> None, health_after |-> None,
                manifest_path |-> FALSE]

NoOutcome == [bytes |-> NoBytes, plans |-> {}, verified |-> FALSE]

Init ==
  /\ pc = "idle"
  /\ job = CHOOSE j \in Jobs : TRUE  \* no run yet
  /\ todo = {} /\ kept = << >> /\ outcome = NoOutcome /\ report = EmptyReport
  /\ result = "none" /\ emitted = NoBytes
  /\ output = NoBytes /\ sidecar = NoBytes
  /\ runs = 0

\* A caller starts a run; nothing but the files is left of the run before.
Invoke ==
  /\ pc = "idle" /\ runs < MaxRuns
  /\ job' \in Jobs
  /\ pc' = "analyze" /\ runs' = runs + 1
  /\ todo' = {} /\ kept' = << >> /\ outcome' = NoOutcome /\ report' = EmptyReport
  /\ result' = "none" /\ emitted' = NoBytes
  /\ UNCHANGED disk

Return(r) == pc' = "idle" /\ result' = r

\* Engine::analyze fails: the file cannot be read, or is an encrypted ZIP.
AnalysisFails ==
  /\ pc = "analyze"
  /\ Seen[job.src].locked \/ job.caller # "stream"
  /\ Return("error")
  /\ UNCHANGED <<job, run, disk, runs>>

\* The analysis succeeds; veraqis-recover without --output only lists it.
Analyze ==
  /\ pc = "analyze"
  /\ ~Seen[job.src].locked
  /\ IF job.output THEN pc' = "open" /\ UNCHANGED result ELSE Return("listed")
  /\ UNCHANGED <<job, run, disk, runs>>

\* create_dir_all, the path check or the open of the source fails.
OpenFails ==
  /\ pc = "open" /\ job.caller # "stream"
  /\ Return("error")
  /\ UNCHANGED <<job, run, disk, runs>>

Open ==
  /\ pc = "open" /\ ~job.same_path
  /\ pc' = "select"
  /\ report' = [report EXCEPT !.health_before = BaseHealth(job)]
  /\ UNCHANGED <<job, todo, kept, outcome, emitted, result, disk, runs>>

\* select: a forced strategy is run whatever the analysis says; otherwise a
\* clean source is left alone and the applicable strategies are taken.
\* NoApplicableStrategy is no error: the callers go on with an empty outcome.
UnknownStrategy ==
  /\ pc = "select" /\ job.forced = "unknown"
  /\ Return("error")
  /\ UNCHANGED <<job, run, disk, runs>>

\* Mutant: no Tier-0 gate.
SelectUngated ==
  /\ pc = "select" /\ job.forced # "unknown"
  /\ todo' = IF job.forced # "auto" THEN {job.forced} ELSE Applicable(job)
  /\ pc' = "pass"
  /\ UNCHANGED <<job, kept, outcome, report, emitted, result, disk, runs>>

Select ==
  /\ pc = "select" /\ job.forced # "unknown"
  /\ todo' = IF job.forced # "auto" THEN {job.forced}
             ELSE IF IsClean(job) THEN {} ELSE Applicable(job)
  /\ pc' = "pass"
  /\ UNCHANGED <<job, kept, outcome, report, emitted, result, disk, runs>>

\* Mutant: the applicable strategies are not sorted.
TurnUnsorted(s) == pc = "pass" /\ Passes < MAX_PASSES /\ s \in todo

\* The strategy whose turn it is: selection order, MAX_PASSES at most.
Turn(s) ==
  /\ pc = "pass" /\ Passes < MAX_PASSES
  /\ s \in todo /\ \A t \in todo \ {s} : Before(s, t)

\* apply reads the source again, which can fail for a file: the run ends, and
\* whatever an earlier pass kept is dropped with it.
PassFails ==
  /\ pc = "pass" /\ job.caller # "stream"
  /\ \E s \in todo : Turn(s)
  /\ Return("error")
  /\ UNCHANGED <<job, run, disk, runs>>

\* apply panics, and nothing catches it: the process is gone.
Panics ==
  /\ pc = "pass"
  /\ \E s \in todo : Turn(s) /\ Staged[s][job.src] = {}
  /\ Return("crashed")
  /\ UNCHANGED <<job, run, disk, runs>>

RollBack(s, x) ==
  /\ Turn(s)
  /\ ~Keep(job, s, x.bytes)
  /\ todo' = todo \ {s}
  /\ report' = [report EXCEPT !.rolled_back = Append(@, s)]
  /\ UNCHANGED <<pc, job, kept, outcome, emitted, result, disk, runs>>

\* Mutant: a salvage that holds health steady is kept without success.
MergedUnclaimed(s, x) ==
  [report EXCEPT
     !.success      = @ \/ Verified(job, x.bytes) \/ Improved(job, x.bytes),
     !.recovered    = IF x.recovered > @ THEN x.recovered ELSE @,
     !.lost         = x.lost,
     !.applied      = Append(@, s),
     !.health_after = IF HealthAfter(x.bytes) # None THEN HealthAfter(x.bytes) ELSE @]

\* RecoveryReport::merge of a kept pass.
Merged(s, x) ==
  [report EXCEPT
     !.success      = @ \/ Verified(job, x.bytes) \/ Improved(job, x.bytes) \/ s \in Terminal,
     !.recovered    = IF x.recovered > @ THEN x.recovered ELSE @,
     !.lost         = x.lost,
     !.applied      = Append(@, s),
     !.health_after = IF HealthAfter(x.bytes) # None THEN HealthAfter(x.bytes) ELSE @]

\* Mutant: only a verified output ends the passes.
KeepOutputAndGoOn(s, x) ==
  /\ Turn(s)
  /\ Keep(job, s, x.bytes)
  /\ todo' = todo \ {s}
  /\ kept' = Append(kept, [by |-> s, bytes |-> x.bytes, recovered |-> x.recovered])
  /\ report' = Merged(s, x)
  /\ outcome' = [bytes    |-> x.bytes,
                 plans    |-> Plan(s, RangeOf(Corruptions(job))),
                 verified |-> Verified(job, x.bytes)]
  /\ pc' = IF Verified(job, x.bytes) /\ ~job.aggressive THEN "finish" ELSE pc
  /\ UNCHANGED <<job, emitted, result, disk, runs>>

KeepOutput(s, x) ==
  /\ Turn(s)
  /\ Keep(job, s, x.bytes)
  /\ todo' = todo \ {s}
  /\ kept' = Append(kept, [by |-> s, bytes |-> x.bytes, recovered |-> x.recovered])
  /\ report' = Merged(s, x)
  /\ outcome' = [bytes    |-> x.bytes,
                 plans    |-> Plan(s, RangeOf(Corruptions(job))),
                 verified |-> Verified(job, x.bytes)]
  /\ pc' = IF (Verified(job, x.bytes) \/ Improved(job, x.bytes)) /\ ~job.aggressive
           THEN "finish" ELSE pc
  /\ UNCHANGED <<job, emitted, result, disk, runs>>

\* Mutant: reaching MAX_PASSES does not end the loop.
EndPassesWhenAllTried ==
  /\ pc = "pass"
  /\ todo = {}
  /\ pc' = "finish"
  /\ UNCHANGED <<job, run, result, disk, runs>>

EndPasses ==
  /\ pc = "pass"
  /\ todo = {} \/ Passes = MAX_PASSES
  /\ pc' = "finish"
  /\ UNCHANGED <<job, run, result, disk, runs>>

\* Mutants: an empty outcome is committed; a dry run commits.
ToCommitAnything == ~job.dry_run /\ job.caller # "stream"
ToCommitDry      == outcome.bytes # NoBytes /\ job.caller # "stream"

\* recover, after the passes: nothing kept, or a dry run, writes nothing.
ToCommit == outcome.bytes # NoBytes /\ ~job.dry_run /\ job.caller # "stream"

FinishWithoutWriting ==
  /\ pc = "finish" /\ ~ToCommit /\ job.caller # "stream"
  /\ Return("report")
  /\ UNCHANGED <<job, run, disk, runs>>

\* Mutant: a stream without a kept repair is not passed through.
FinishStreamEmpty ==
  /\ pc = "finish" /\ job.caller = "stream"
  /\ emitted' = outcome.bytes
  /\ Return("report")
  /\ UNCHANGED <<job, todo, kept, outcome, report, disk, runs>>

\* recover_stream hands back the kept bytes, or the input.
FinishStream ==
  /\ pc = "finish" /\ job.caller = "stream"
  /\ emitted' = IF outcome.bytes = NoBytes THEN job.src ELSE outcome.bytes
  /\ Return("report")
  /\ UNCHANGED <<job, todo, kept, outcome, report, disk, runs>>

Commit ==
  /\ pc = "finish" /\ ToCommit
  /\ output' = outcome.bytes
  /\ IF job.write_manifest THEN pc' = "manifest" /\ UNCHANGED result ELSE Return("report")
  /\ UNCHANGED <<job, run, sidecar, runs>>

\* Mutant: a failed write does not end the run.
CommitFailsUnnoticed ==
  /\ pc = "finish" /\ ToCommit
  /\ output' \in {output, Torn}
  /\ pc' = "manifest"
  /\ UNCHANGED <<job, run, result, sidecar, runs>>

\* The parent cannot be created, or fs::write fails part of the way.
CommitFails ==
  /\ pc = "finish" /\ ToCommit
  /\ output' \in {output, Torn}
  /\ Return("error")
  /\ UNCHANGED <<job, run, sidecar, runs>>

\* Mutant: every Safe repair is Verified.
GuaranteeByRisk(risk, verified) ==
  CASE risk = "Safe" -> "Verified" [] risk = "Lossy" -> "Lost" [] OTHER -> "Unverified"

\* Guarantee::from_risk.
GuaranteeOf(risk, verified) ==
  CASE risk = "Safe" /\ verified -> "Verified"
    [] risk = "Lossy"            -> "Lost"
    [] OTHER                     -> "Unverified"

\* entry_evidence_records: cd_rebuilt is read off the kept plans.
CdRebuilt == \E p \in outcome.plans : RebuildsDirectory(p.by)

CdProvenance ==
  IF CdRebuilt THEN "RECONSTRUCTED"
  ELSE CASE Seen[job.src].directory = "survives" -> "ORIGINAL_SURVIVING"
         [] Seen[job.src].directory = "scanned"  -> "RECONSTRUCTED"
         [] Seen[job.src].directory = "absent"   -> "ABSENT"

\* RepairManifest::build.
Manifest ==
  [source     |-> job.src,
   output     |-> outcome.bytes,
   repairs    |-> {[rule |-> p.rule, guarantee |-> GuaranteeOf(p.risk, outcome.verified)]
                     : p \in outcome.plans},
   directory  |-> CdProvenance,
   verified   |-> IF outcome.verified THEN report.recovered ELSE 0,
   unverified |-> IF outcome.verified THEN 0 ELSE report.recovered,
   lost       |-> report.lost]

WriteManifest ==
  /\ pc = "manifest"
  /\ sidecar' = Manifest
  /\ report' = [report EXCEPT !.manifest_path = TRUE]
  /\ Return("report")
  /\ UNCHANGED <<job, todo, kept, outcome, emitted, output, runs>>

\* The source cannot be read again, or the write fails: a warning, no error.
ManifestFails ==
  /\ pc = "manifest"
  /\ sidecar' \in {sidecar, Torn}
  /\ Return("report")
  /\ UNCHANGED <<job, run, output, runs>>

\* The process is killed; inside a write, the file is left torn.
Crash ==
  /\ pc # "idle"
  /\ Return("crashed")
  /\ output'  \in {output}  \cup IF pc = "finish" /\ ToCommit THEN {Torn} ELSE {}
  /\ sidecar' \in {sidecar} \cup IF pc = "manifest" THEN {Torn} ELSE {}
  /\ UNCHANGED <<job, run, runs>>

Pass == \E s \in todo : \E x \in Staged[s][job.src] : RollBack(s, x) \/ KeepOutput(s, x)

\* What the running call does by itself.
Step ==
  \/ AnalysisFails \/ Analyze \/ OpenFails \/ Open \/ UnknownStrategy \/ Select
  \/ PassFails \/ Panics \/ Pass \/ EndPasses \/ FinishWithoutWriting \/ FinishStream
  \/ Commit \/ CommitFails \/ WriteManifest \/ ManifestFails

Next == Invoke \/ Step \/ Crash

Spec == Init /\ [][Next]_vars /\ WF_vars(Step)

\* The exit code of veraqis-recover.
ExitCode ==
  CASE result = "error" -> "fatal"
    [] result = "listed" -> IF IsClean(job) THEN "success" ELSE "issues"
    [] result = "report" -> IF IsClean(job) \/ report.success THEN "success" ELSE "issues"
=============================================================================
