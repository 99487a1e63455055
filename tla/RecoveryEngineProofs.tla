------------------------ MODULE RecoveryEngineProofs ------------------------
(***************************************************************************)
(* Proofs about the recovery engine, for every set of blobs, every verdict *)
(* of the analyzer on them, every output a strategy may stage, every set   *)
(* of requests and any number of runs; at the end, that the engine keeps   *)
(* the contract of RecoveryContract: the initial states map to initial     *)
(* states of the contract and every step, with its I/O errors and kills,   *)
(* to a step of the contract or to none.  That a request is answered in    *)
(* the end is left to TLC.                                                 *)
(***************************************************************************)
EXTENDS RecoveryProperties, TLAPS

-----------------------------------------------------------------------------
\* The operators the model is built from.

\* The overall health of a list of corruptions is a percentage, whatever its
\* rules deduct (weights.rs, scorer.rs).
LEMMA ScoreRange ==
  ASSUME NEW found
  PROVE  Score(found) \in 0..100
<1>1. \A points : Clamped(points) \in 0..100
  BY DEF Clamped
<1>2. \A s, d, m \in 0..100 : Overall(s, d, m) \in 0..100
  BY DEF Overall
<1> QED BY <1>1, <1>2 DEF Score, HealthOf

\* The source's health is a percentage; the health of a staged output is one, or
\* unknown.
LEMMA HealthRange ==
  /\ \A j : BaseHealth(j) \in 0..100
  /\ \A b : HealthAfter(b) \in 0..100 \cup {None}
BY ScoreRange DEF BaseHealth, HealthAfter

LEMMA RiskType == \A s \in Strategies : Risk[s] \in {"Safe", "Inferred", "Lossy"}
<1>1. \A s \in Strategies : ProfileOf[s].risk \in {"Safe", "Inferred", "Lossy"}
  BY DEF Strategies, AllStrategies, ProfileOf, Profile, BitFlipCorrection, ZipCentralDirectoryRebuild, ZipCrcFix,
         TarChecksumFix, TarTerminatorAppend, TarSizeBoundaryResync, TarBlockReorder,
         GzMagicRestore, GzTrailerRecompute, GzMemberSalvage, GzPartialInflate,
         SevenZSignatureRestore, TarContinuationSalvage, IsoSectorReconstruction,
         PartialExtraction, ForensicCarving
<1> QED BY <1>1 DEF Risk

LEMMA JobType == \A j \in Jobs : j \in Requests
BY JobsAssumption

LEMMA CorruptionsType == \A j \in Jobs : Corruptions(j) \in Seq(RuleIds)
<1> DEFINE row == [id |-> "INTEGRITY_HASH_001", category |-> "ChecksumMismatch",
                   severity |-> "Major"]
<1>1. row \in Rules
  BY DEF Rules, CrossFormatRules, Rows
<1>2. "INTEGRITY_HASH_001" \in RuleIds
  BY <1>1, row.id = "INTEGRITY_HASH_001" DEF RuleIds
<1> QED BY <1>2, JobType DEF Corruptions, Requests

\* A strategy plans repairs for registered rules, under its own risk.
LEMMA PlanType ==
  ASSUME NEW j \in Jobs, NEW s \in Strategies
  PROVE  Plan(s, RangeOf(Corruptions(j))) \subseteq Plans
<1>1. RangeOf(Corruptions(j)) \subseteq RuleIds
  BY CorruptionsType DEF RangeOf
<1> QED BY <1>1, RiskType DEF Plan, Plans

LEMMA StagedType ==
  ASSUME NEW j \in Jobs, NEW s \in Strategies, NEW x \in Staged[s][j.src]
  PROVE  x \in Stagings
BY StagedAssumption

-----------------------------------------------------------------------------
\* Type correctness.

\* The state is well typed, and a manifest is only ever being written for bytes.
TypeInv == TypeOK /\ (pc = "manifest" => outcome.bytes # NoBytes)

LEMMA TypeInit == Init => TypeInv
BY MaxRunsAssumption, JobsAssumption
   DEF Init, TypeInv, TypeOK, Points, NoOutcome, Outcomes, EmptyReport, Reports, None

LEMMA TypeNext == TypeInv /\ [Next]_vars => TypeInv'
<1> SUFFICES ASSUME TypeInv, [Next]_vars PROVE TypeInv'
  OBVIOUS
<1> USE DEF TypeInv, TypeOK, Return, run, disk
<1>1. CASE Invoke
  BY <1>1, MaxRunsAssumption
     DEF Invoke, Points, NoOutcome, Outcomes, EmptyReport, Reports, None
<1>2. CASE AnalysisFails \/ OpenFails \/ UnknownStrategy \/ PassFails \/ Panics
  BY <1>2 DEF AnalysisFails, OpenFails, UnknownStrategy, PassFails, Panics, Points
<1>3. CASE Analyze \/ EndPasses \/ FinishWithoutWriting
  BY <1>3 DEF Analyze, EndPasses, FinishWithoutWriting, Points
<1>4. CASE Open
  <2>1. report' \in Reports
    BY <1>4, HealthRange DEF Open, Reports
  <2> QED BY <1>4, <2>1 DEF Open, Points
<1>5. CASE Select
  <2>1. todo' \subseteq Strategies
    BY <1>5, JobType DEF Select, Applicable, Requests
  <2> QED BY <1>5, <2>1 DEF Select, Points
<1>6. CASE Pass
  <2>1. PICK s \in todo : \E x \in Staged[s][job.src] : RollBack(s, x) \/ KeepOutput(s, x)
    BY <1>6 DEF Pass
  <2>2. PICK x \in Staged[s][job.src] : RollBack(s, x) \/ KeepOutput(s, x)
    BY <2>1
  <2>3. s \in Strategies /\ x \in Stagings
    BY StagedType
  <2>4. CASE RollBack(s, x)
    <3>1. report' \in Reports
      <4>1. Append(report.rolled_back, s) \in Seq(Strategies)
        BY <2>3 DEF Reports
      <4> QED BY <2>4, <4>1 DEF RollBack, Reports
    <3> QED BY <2>4, <3>1 DEF RollBack, Turn
  <2>5. CASE KeepOutput(s, x)
    <3>1. x.bytes \in Blobs /\ x.recovered \in Nat /\ x.lost \in Nat
      BY <2>3, <2>5 DEF KeepOutput, Keep, Stagings
    <3>2. report' \in Reports
      <4>1. HealthAfter(x.bytes) \in 0..100 \cup {None}
        BY HealthRange
      <4>2. Merged(s, x) \in Reports
        <5>1. Append(report.applied, s) \in Seq(Strategies)
          BY <2>3 DEF Reports
        <5>2. (report.success \/ Verified(job, x.bytes) \/ Improved(job, x.bytes)
                 \/ s \in Terminal) \in BOOLEAN
          OBVIOUS
        <5>3. (IF x.recovered > report.recovered THEN x.recovered ELSE report.recovered) \in Nat
          BY <3>1 DEF Reports
        <5>4. (IF HealthAfter(x.bytes) # None THEN HealthAfter(x.bytes) ELSE report.health_after)
                 \in 0..100 \cup {None}
          BY <4>1 DEF Reports
        <5> DEFINE ok == report.success \/ Verified(job, x.bytes) \/ Improved(job, x.bytes) \/ s \in Terminal
                   most == IF x.recovered > report.recovered THEN x.recovered ELSE report.recovered
                   by == Append(report.applied, s)
                   health == IF HealthAfter(x.bytes) # None THEN HealthAfter(x.bytes) ELSE report.health_after
        <5>5. Merged(s, x) = [report EXCEPT !.success = ok, !.recovered = most, !.lost = x.lost,
                                            !.applied = by, !.health_after = health]
          BY DEF Merged
        <5>6. /\ report \in Reports /\ ok \in BOOLEAN /\ most \in Nat /\ by \in Seq(Strategies)
              /\ health \in 0..100 \cup {None} /\ x.lost \in Nat
          BY <3>1, <5>1, <5>2, <5>3, <5>4
        <5> HIDE DEF ok, most, by, health
        <5>7. [report EXCEPT !.success = ok, !.recovered = most, !.lost = x.lost,
                             !.applied = by, !.health_after = health] \in Reports
          BY <5>6, Zenon DEF Reports
        <5> QED BY <5>5, <5>7, Zenon
      <4> QED BY <4>2, <2>5 DEF KeepOutput
    <3>3. outcome' \in Outcomes
      <4>1. Plan(s, RangeOf(Corruptions(job))) \subseteq Plans
        BY <2>3, PlanType
      <4>2. Verified(job, x.bytes) \in BOOLEAN
        BY DEF Verified
      <4> QED BY <2>5, <3>1, <4>1, <4>2 DEF KeepOutput, Outcomes
    <3>4. kept' \in Seq(KeptRecords)
      BY <2>3, <2>5, <3>1 DEF KeepOutput, KeptRecords
    <3> QED BY <2>5, <3>2, <3>3, <3>4 DEF KeepOutput, Turn, Points
  <2> QED BY <2>2, <2>4, <2>5
<1>7. CASE FinishStream
  BY <1>7, JobType DEF FinishStream, Outcomes, Requests, Points
<1>8. CASE Commit \/ CommitFails
  BY <1>8 DEF Commit, CommitFails, ToCommit, Outcomes, Points
<1>9. CASE WriteManifest
  <2>1. Manifest \in Manifests
    <3>1. job.src \in Blobs /\ outcome.bytes \in Blobs
      BY <1>9, JobType DEF WriteManifest, Requests, Outcomes
    <3>2. \A p \in outcome.plans : /\ p.rule \in RuleIds
                                  /\ GuaranteeOf(p.risk, outcome.verified)
                                       \in {"Verified", "Unverified", "Lost"}
      BY DEF Outcomes, Plans, GuaranteeOf
    <3>3. CdProvenance \in {"RECONSTRUCTED", "ORIGINAL_SURVIVING", "ABSENT"}
      BY <3>1, SeenAssumption DEF CdProvenance, Findings
    <3>4. report.recovered \in Nat /\ report.lost \in Nat /\ outcome.verified \in BOOLEAN
      BY DEF Reports, Outcomes
    <3> QED BY <3>1, <3>2, <3>3, <3>4 DEF Manifest, Manifests
  <2>2. report' \in Reports
    BY <1>9 DEF WriteManifest, Reports
  <2> QED BY <1>9, <2>1, <2>2 DEF WriteManifest, Points
<1>10. CASE ManifestFails \/ Crash
  BY <1>10 DEF ManifestFails, Crash, Points
<1>11. CASE UNCHANGED vars
  BY <1>11 DEF vars
<1> QED
  BY <1>1, <1>2, <1>3, <1>4, <1>5, <1>6, <1>7, <1>8, <1>9, <1>10, <1>11 DEF Next, Step

\* The state of the engine, its files and its manifest keep their types: health
\* stays a percentage or unknown, and a manifest always describes bytes.
THEOREM TypeCorrect == Spec => []TypeOK
<1>1. TypeInv => TypeOK
  BY DEF TypeInv
<1> QED BY TypeInit, TypeNext, <1>1, PTL DEF Spec

-----------------------------------------------------------------------------
\* The inductive invariant behind the safety properties.

\* The gate let every kept output through, the outcome is the last of them, and
\* the report claims success as soon as there is one.
KeptInv ==
  /\ \A i \in 1 .. Len(kept) : Keep(job, kept[i].by, kept[i].bytes)
  /\ kept = << >> => outcome.bytes = NoBytes
  /\ kept # << >> => /\ outcome.bytes = LastKept.bytes
                    /\ outcome.verified = Verified(job, LastKept.bytes)
  /\ report.success <=> kept # << >>

\* Without aggressive, passes go on only while every kept output is unverified
\* and exactly as healthy as the source; the outcome is then as good as any.
RankInv ==
  ~job.aggressive =>
    /\ pc \in {"analyze", "open", "select", "pass"} =>
         \A i \in 1 .. Len(kept) : ~Verified(job, kept[i].bytes) /\ Held(job, kept[i].bytes)
    /\ \A i \in 1 .. Len(kept) : AtLeastAsGood(outcome.bytes, kept[i].bytes)

\* What has been done by the time the run is at a point.
ControlInv ==
  /\ result # "none" => pc = "idle"
  /\ pc \in {"analyze", "open", "select"} => kept = << >>
  /\ pc \in {"select", "pass", "finish", "manifest"} => ~job.same_path
  /\ job.forced = "auto" /\ IsClean(job) => todo = {} /\ kept = << >>
  /\ pc = "manifest" => ToCommit /\ output = outcome.bytes
  /\ result = "report" /\ ToCommit => output = outcome.bytes
  /\ result = "report" /\ job.caller = "stream" =>
       emitted = IF outcome.bytes = NoBytes THEN job.src ELSE outcome.bytes
  /\ report.manifest_path => result = "report" /\ ToCommit /\ sidecar = Manifest

SafetyInv == TypeInv /\ KeptInv /\ RankInv /\ ControlInv

LEMMA AppendFacts ==
  ASSUME NEW S, NEW seq \in Seq(S), NEW e \in S
  PROVE  /\ Append(seq, e) # << >>
         /\ Len(Append(seq, e)) = Len(seq) + 1
         /\ Append(seq, e)[Len(seq) + 1] = e
         /\ \A i \in 1 .. Len(seq) : Append(seq, e)[i] = seq[i]
OBVIOUS

\* A sequence is empty exactly when its length is zero.
LEMMA EmptyByLength ==
  ASSUME NEW S, NEW seq \in Seq(S)
  PROVE  /\ seq = << >> <=> Len(seq) = 0
         /\ Len(seq) \in Nat
         /\ seq # << >> => Len(seq) \in 1 .. Len(seq) /\ seq[Len(seq)] \in S
OBVIOUS

LEMMA SafetyInit == Init => SafetyInv
<1> SUFFICES ASSUME Init PROVE SafetyInv
  OBVIOUS
<1>1. TypeInv
  BY TypeInit
<1>2. kept = << >> /\ Len(kept) = 0 /\ outcome.bytes = NoBytes /\ report.success = FALSE
      /\ report.manifest_path = FALSE /\ result = "none" /\ pc = "idle" /\ todo = {}
  BY DEF Init, NoOutcome, EmptyReport
<1> QED BY <1>1, <1>2 DEF SafetyInv, KeptInv, RankInv, ControlInv

\* A step that touches neither the job nor what was kept keeps KeptInv.
LEMMA KeptStable ==
  ASSUME KeptInv, UNCHANGED <<job, kept, outcome>>, report'.success = report.success
  PROVE  KeptInv'
BY DEF KeptInv, LastKept

\* So does RankInv, unless the step goes on to the passes.
LEMMA RankStable ==
  ASSUME RankInv, UNCHANGED <<job, kept, outcome>>,
         pc' \in {"analyze", "open", "select", "pass"}
           => pc \in {"analyze", "open", "select", "pass"}
  PROVE  RankInv'
BY DEF RankInv, AtLeastAsGood

LEMMA SafetyNext == SafetyInv /\ [Next]_vars => SafetyInv'
<1> SUFFICES ASSUME SafetyInv, [Next]_vars PROVE SafetyInv'
  OBVIOUS
<1>0. TypeInv'
  BY TypeNext DEF SafetyInv
<1> USE DEF SafetyInv, Return, run, disk
<1>1. CASE Invoke
  <2>1. kept' = << >> /\ Len(kept') = 0 /\ outcome'.bytes = NoBytes /\ report'.success = FALSE
        /\ report'.manifest_path = FALSE /\ result' = "none" /\ pc' = "analyze" /\ todo' = {}
    BY <1>1 DEF Invoke, NoOutcome, EmptyReport
  <2> QED BY <1>0, <2>1 DEF KeptInv, RankInv, ControlInv
<1>2. CASE AnalysisFails \/ OpenFails \/ UnknownStrategy \/ PassFails \/ Panics
  <2>1. KeptInv' /\ RankInv'
    BY <1>2, KeptStable, RankStable DEF AnalysisFails, OpenFails, UnknownStrategy, PassFails, Panics
  <2>2. ControlInv'
    BY <1>2 DEF AnalysisFails, OpenFails, UnknownStrategy, PassFails, Panics, ControlInv, IsClean,
                ToCommit, Manifest, CdProvenance, CdRebuilt
  <2> QED BY <1>0, <2>1, <2>2
<1>3. CASE Analyze \/ EndPasses \/ FinishWithoutWriting
  <2>1. KeptInv' /\ RankInv'
    BY <1>3, KeptStable, RankStable DEF Analyze, EndPasses, FinishWithoutWriting
  <2>2. ControlInv'
    BY <1>3 DEF Analyze, EndPasses, FinishWithoutWriting, ControlInv, IsClean,
                ToCommit, Manifest, CdProvenance, CdRebuilt
  <2> QED BY <1>0, <2>1, <2>2
<1>4. CASE Open
  <2>1. report'.success = report.success /\ report'.manifest_path = report.manifest_path
    BY <1>4 DEF Open, TypeInv, TypeOK, Reports
  <2>2. KeptInv' /\ RankInv'
    BY <1>4, <2>1, KeptStable, RankStable DEF Open
  <2>3. ControlInv'
    BY <1>4, <2>1 DEF Open, ControlInv, IsClean, ToCommit
  <2> QED BY <1>0, <2>2, <2>3
<1>5. CASE Select
  <2>1. KeptInv' /\ RankInv'
    BY <1>5, KeptStable, RankStable DEF Select
  <2>2. ControlInv'
    BY <1>5 DEF Select, ControlInv, IsClean, ToCommit
  <2> QED BY <1>0, <2>1, <2>2
<1>6. CASE Pass
  <2>1. PICK s \in todo : \E x \in Staged[s][job.src] : RollBack(s, x) \/ KeepOutput(s, x)
    BY <1>6 DEF Pass
  <2>2. PICK x \in Staged[s][job.src] : RollBack(s, x) \/ KeepOutput(s, x)
    BY <2>1
  <2>3. CASE RollBack(s, x)
    <3>1. report'.success = report.success /\ report'.manifest_path = report.manifest_path
      BY <2>3 DEF RollBack, TypeInv, TypeOK, Reports
    <3>2. KeptInv' /\ RankInv'
      BY <2>3, <3>1, KeptStable, RankStable DEF RollBack, Turn
    <3>3. ControlInv'
      BY <2>3, <3>1 DEF RollBack, Turn, ControlInv, IsClean, ToCommit
    <3> QED BY <1>0, <3>2, <3>3
  <2>4. CASE KeepOutput(s, x)
    <3> DEFINE k == [by |-> s, bytes |-> x.bytes, recovered |-> x.recovered]
    <3>1. k \in KeptRecords /\ kept \in Seq(KeptRecords)
      <4>1. x \in Stagings /\ s \in Strategies
        BY StagedType DEF TypeInv, TypeOK
      <4>2. x.bytes # NoBytes
        BY <2>4 DEF KeepOutput, Keep
      <4> QED BY <4>1, <4>2 DEF KeptRecords, Stagings, TypeInv, TypeOK
    <3>2. /\ kept' # << >> /\ Len(kept') = Len(kept) + 1 /\ kept'[Len(kept')] = k
          /\ Len(kept) \in Nat
          /\ \A i \in 1 .. Len(kept) : kept'[i] = kept[i]
      <4> HIDE DEF k
      <4>1. kept' = Append(kept, k)
        BY <2>4 DEF KeepOutput, k
      <4> QED BY <3>1, <4>1, AppendFacts, EmptyByLength
    <3>3. /\ report'.success = TRUE
          /\ report'.manifest_path = report.manifest_path
      BY <2>4 DEF KeepOutput, Keep, Merged, TypeInv, TypeOK, Reports
    <3>4. /\ outcome'.bytes = x.bytes /\ outcome'.verified = Verified(job, x.bytes)
          /\ job' = job /\ pc = "pass" /\ Keep(job, s, x.bytes) /\ result' = result
          /\ (pc' = "pass" /\ ~job.aggressive) =>
                ~Verified(job, x.bytes) /\ ~Improved(job, x.bytes)
          /\ pc' \in {"pass", "finish"}
      BY <2>4 DEF KeepOutput, Turn
    <3>5. KeptInv'
      <4>1. \A i \in 1 .. Len(kept') : Keep(job', kept'[i].by, kept'[i].bytes)
        BY <3>2, <3>4 DEF KeptInv
      <4> QED BY <4>1, <3>2, <3>3, <3>4 DEF KeptInv, LastKept
    <3>6. RankInv'
      <4> SUFFICES ASSUME ~job.aggressive
                   PROVE  /\ pc' = "pass" =>
                               \A i \in 1 .. Len(kept') :
                                 ~Verified(job, kept'[i].bytes) /\ Held(job, kept'[i].bytes)
                          /\ \A i \in 1 .. Len(kept') :
                               AtLeastAsGood(x.bytes, kept'[i].bytes)
        BY <3>4 DEF RankInv, AtLeastAsGood
      <4>1. /\ BaseHealth(job) \in Int /\ HealthAfter(x.bytes) \in Int
            /\ BaseHealth(job) >= 0 /\ None = -1
        BY HealthRange DEF None
      <4>2. ~Verified(job, x.bytes) =>
              HealthAfter(x.bytes) >= BaseHealth(job)
              /\ (Improved(job, x.bytes) \/ Held(job, x.bytes))
        BY <3>4, <4>1 DEF Keep, Improved, Held
      <4>3. \A i \in 1 .. Len(kept) :
              ~Verified(job, kept[i].bytes) /\ Held(job, kept[i].bytes)
        BY <3>4 DEF RankInv
      <4>4. kept'[Len(kept) + 1].bytes = x.bytes
        BY <3>2
      <4>5. \A i \in 1 .. Len(kept') : i \in 1 .. Len(kept) \/ i = Len(kept) + 1
        BY <3>2
      <4>6. pc' = "pass" =>
              \A i \in 1 .. Len(kept') :
                ~Verified(job, kept'[i].bytes) /\ Held(job, kept'[i].bytes)
        BY <3>2, <3>4, <4>2, <4>3, <4>4, <4>5
      <4>7. \A i \in 1 .. Len(kept) : AtLeastAsGood(x.bytes, kept[i].bytes)
        BY <4>1, <4>2, <4>3 DEF AtLeastAsGood, Held
      <4>8. AtLeastAsGood(x.bytes, x.bytes)
        BY <4>1 DEF AtLeastAsGood
      <4> QED BY <3>2, <4>4, <4>5, <4>6, <4>7, <4>8
    <3>7. ControlInv'
      BY <2>4, <3>3, <3>4 DEF ControlInv, IsClean, ToCommit
    <3> QED BY <1>0, <3>5, <3>6, <3>7
  <2> QED BY <2>2, <2>3, <2>4
<1>7. CASE FinishStream
  <2>1. KeptInv' /\ RankInv'
    BY <1>7, KeptStable, RankStable DEF FinishStream
  <2>2. ControlInv'
    BY <1>7 DEF FinishStream, ControlInv, IsClean, ToCommit
  <2> QED BY <1>0, <2>1, <2>2
<1>8. CASE Commit \/ CommitFails
  <2>1. KeptInv' /\ RankInv'
    BY <1>8, KeptStable, RankStable DEF Commit, CommitFails
  <2>2. ControlInv'
    BY <1>8 DEF Commit, CommitFails, ControlInv, IsClean, ToCommit
  <2> QED BY <1>0, <2>1, <2>2
<1>9. CASE WriteManifest
  <2>1. report'.success = report.success /\ report'.recovered = report.recovered
        /\ report'.lost = report.lost
    BY <1>9 DEF WriteManifest, TypeInv, TypeOK, Reports
  <2>2. KeptInv' /\ RankInv'
    BY <1>9, <2>1, KeptStable, RankStable DEF WriteManifest
  <2>3. Manifest' = Manifest
    <3>1. job' = job /\ outcome' = outcome
      BY <1>9 DEF WriteManifest
    <3> QED BY <2>1, <3>1 DEF Manifest, CdProvenance, CdRebuilt
  <2>4. ControlInv'
    BY <1>9, <2>1, <2>3 DEF WriteManifest, ControlInv, IsClean, ToCommit
  <2> QED BY <1>0, <2>2, <2>4
<1>10. CASE ManifestFails \/ Crash
  <2>1. KeptInv' /\ RankInv'
    BY <1>10, KeptStable, RankStable DEF ManifestFails, Crash
  <2>2. ControlInv'
    BY <1>10 DEF ManifestFails, Crash, ControlInv, IsClean, ToCommit
  <2> QED BY <1>0, <2>1, <2>2
<1>11. CASE UNCHANGED vars
  <2>1. Manifest' = Manifest
    BY <1>11 DEF vars, Manifest, CdProvenance, CdRebuilt
  <2>2. KeptInv' /\ RankInv'
    BY <1>11, KeptStable, RankStable DEF vars
  <2>3. ControlInv'
    BY <1>11, <2>1 DEF vars, ControlInv, IsClean, ToCommit
  <2> QED BY <1>0, <2>2, <2>3
<1> QED
  BY <1>1, <1>2, <1>3, <1>4, <1>5, <1>6, <1>7, <1>8, <1>9, <1>10, <1>11 DEF Next, Step

LEMMA SafetyInvariant == Spec => []SafetyInv
BY SafetyInit, SafetyNext, PTL DEF Spec

-----------------------------------------------------------------------------
\* The safety properties.

LEMMA LastKeptPassed ==
  ASSUME SafetyInv, kept # << >>
  PROVE  /\ Keep(job, LastKept.by, LastKept.bytes)
         /\ LastKept \in KeptRecords
         /\ outcome.bytes = LastKept.bytes /\ outcome.bytes \in Blobs
<1>1. kept \in Seq(KeptRecords)
  BY DEF SafetyInv, TypeInv, TypeOK
<1>2. Len(kept) \in 1 .. Len(kept)
  BY <1>1, EmptyByLength
<1>3. LastKept \in KeptRecords
  BY <1>1, <1>2 DEF LastKept
<1>4. Keep(job, LastKept.by, LastKept.bytes)
  BY <1>2 DEF SafetyInv, KeptInv, LastKept
<1>5. outcome.bytes = LastKept.bytes
  BY DEF SafetyInv, KeptInv, LastKept
<1>6. LastKept.bytes \in Blobs
  BY <1>3 DEF KeptRecords
<1> QED BY <1>3, <1>4, <1>5, <1>6

\* Whatever recover wrote when it returned a report matches the reference, or is
\* at least as healthy as the source and comes from no Inferred strategy.
THEOREM JustifiedTheorem == Spec => []PublishedIsJustified
<1>1. SafetyInv => PublishedIsJustified
  <2> SUFFICES ASSUME SafetyInv, result = "report", ToCommit
               PROVE  /\ output = outcome.bytes
                      /\ \/ Verified(job, output)
                         \/ HealthAfter(output) # None /\ Risk[LastKept.by] # "Inferred"
                      /\ HealthAfter(output) # None => HealthAfter(output) >= BaseHealth(job)
    BY DEF PublishedIsJustified, Published
  <2>1. output = outcome.bytes /\ outcome.bytes # NoBytes
    BY DEF SafetyInv, ControlInv, ToCommit
  <2>2. kept # << >>
    BY <2>1 DEF SafetyInv, KeptInv
  <2>3. Keep(job, LastKept.by, output)
    BY <2>1, <2>2, LastKeptPassed
  <2>4. BaseHealth(job) \in 0..100 /\ HealthAfter(output) \in 0..100 \cup {None} /\ None = -1
    BY HealthRange DEF None
  <2> QED BY <2>1, <2>3, <2>4 DEF Keep, Regressed, Improved, Held
<1> QED BY <1>1, SafetyInvariant, PTL

\* A report claims success exactly when a pass was kept, and then the artifact is
\* on disk unless the run was dry or a stream.
THEOREM SuccessTheorem == Spec => []SuccessMeansArtifact
<1>1. SafetyInv => SuccessMeansArtifact
  <2> SUFFICES ASSUME SafetyInv, result = "report"
               PROVE  SuccessMeansArtifact
    BY DEF SuccessMeansArtifact
  <2>1. report.success <=> kept # << >>
    BY DEF SafetyInv, KeptInv
  <2>2. ASSUME report.success, ~job.dry_run, job.caller # "stream"
        PROVE  output = LastKept.bytes /\ output \in Blobs
    BY <2>1, <2>2, LastKeptPassed, BlobsAssumption DEF SafetyInv, ControlInv, ToCommit
  <2>3. ASSUME job.caller = "cli", ExitCode = "success", ~IsClean(job)
        PROVE  output \in Blobs
    <3>1. report.success
      BY <2>3 DEF ExitCode
    <3>2. ~job.dry_run
      BY <2>3, JobsAssumption DEF SafetyInv, TypeInv, TypeOK
    <3> QED BY <2>2, <2>3, <3>1, <3>2
  <2> QED BY <2>1, <2>2, <2>3 DEF SuccessMeansArtifact
<1> QED BY <1>1, SafetyInvariant, PTL

\* Unless the run is aggressive, the latest kept output is the best one kept.
THEOREM BestKeptTheorem == Spec => []BestKeptUnlessAggressive
<1>1. SafetyInv => BestKeptUnlessAggressive
  <2>1. SafetyInv => DOMAIN kept = 1 .. Len(kept)
    BY DEF SafetyInv, TypeInv, TypeOK
  <2> QED BY <2>1 DEF SafetyInv, RankInv, BestKeptUnlessAggressive, BestKept
<1> QED BY <1>1, SafetyInvariant, PTL

\* A manifest the report points to describes the file beside it, and says
\* Verified only of a file with the reference's content.
THEOREM ManifestTheorem == Spec => []ManifestIsBacked
<1>1. SafetyInv => ManifestIsBacked
  <2> SUFFICES ASSUME SafetyInv, report.manifest_path
               PROVE  /\ sidecar.output = output /\ sidecar.source = job.src
                      /\ (sidecar.verified > 0
                             \/ \E r \in sidecar.repairs : r.guarantee = "Verified")
                           => Verified(job, output)
    BY DEF ManifestIsBacked
  <2>1. sidecar = Manifest /\ output = outcome.bytes /\ kept # << >>
    BY DEF SafetyInv, ControlInv, KeptInv, ToCommit
  <2>2. outcome.verified <=> Verified(job, output)
    BY <2>1 DEF SafetyInv, KeptInv, TypeInv, TypeOK, Outcomes, Verified
  <2>3. sidecar.output = output /\ sidecar.source = job.src
    BY <2>1 DEF Manifest
  <2>4. sidecar.verified > 0 => outcome.verified
    BY <2>1 DEF Manifest
  <2>5. (\E r \in sidecar.repairs : r.guarantee = "Verified") => outcome.verified
    <3>1. \A risk : GuaranteeOf(risk, outcome.verified) = "Verified" => outcome.verified
      BY DEF GuaranteeOf
    <3> QED BY <2>1, <3>1 DEF Manifest
  <2> QED BY <2>2, <2>3, <2>4, <2>5
<1> QED BY <1>1, SafetyInvariant, PTL

\* The output file changes only once the passes are over, for a run that kept
\* something, is not dry, not a stream, not aimed at the source, and was forced or found damage.
THEOREM WritesTheorem == Spec => WritesAreEarned
<1>1. SafetyInv /\ [Next]_vars =>
        [output' # output =>
           /\ pc = "finish"
           /\ kept # << >> /\ ~job.dry_run /\ ~job.same_path /\ job.caller # "stream"
           /\ job.forced # "auto" \/ ~IsClean(job)]_vars
  <2> SUFFICES ASSUME SafetyInv, Next, output' # output
               PROVE  /\ pc = "finish"
                      /\ kept # << >> /\ ~job.dry_run /\ ~job.same_path /\ job.caller # "stream"
                      /\ job.forced # "auto" \/ ~IsClean(job)
    BY DEF vars, disk
  <2>1. pc = "finish" /\ ToCommit
    <3>1. Commit \/ CommitFails \/ Crash
      BY DEF Next, Step, Pass, Invoke, AnalysisFails, Analyze, OpenFails, Open, UnknownStrategy,
             Select, PassFails, Panics, RollBack, KeepOutput, EndPasses, FinishWithoutWriting,
             FinishStream, WriteManifest, ManifestFails, run, disk
    <3> QED BY <3>1 DEF Commit, CommitFails, Crash
  <2>2. kept # << >>
    BY <2>1 DEF SafetyInv, KeptInv, ToCommit
  <2> QED BY <2>1, <2>2 DEF SafetyInv, ControlInv, ToCommit
<1> QED BY <1>1, SafetyInvariant, PTL DEF WritesAreEarned, Spec

\* A step that replaces the manifest finds this run's output in place and leaves
\* it there.
THEOREM SidecarTheorem == Spec => SidecarFollowsOutput
<1>1. SafetyInv /\ [Next]_vars =>
        [sidecar' # sidecar => output' = output /\ output = LastKept.bytes]_vars
  <2> SUFFICES ASSUME SafetyInv, Next, sidecar' # sidecar
               PROVE  output' = output /\ output = LastKept.bytes
    BY DEF vars, disk
  <2>1. WriteManifest \/ ManifestFails \/ (Crash /\ pc = "manifest")
    BY DEF Next, Step, Pass, Invoke, AnalysisFails, Analyze, OpenFails, Open, UnknownStrategy,
           Select, PassFails, Panics, RollBack, KeepOutput, EndPasses, FinishWithoutWriting,
           FinishStream, Commit, CommitFails, Crash, run, disk
  <2>2. pc = "manifest" /\ output' = output
    BY <2>1 DEF WriteManifest, ManifestFails, Crash
  <2>3. output = outcome.bytes /\ kept # << >>
    BY <2>2 DEF SafetyInv, ControlInv, KeptInv, ToCommit
  <2> QED BY <2>2, <2>3, LastKeptPassed
<1> QED BY <1>1, SafetyInvariant, PTL DEF Spec, SidecarFollowsOutput

\* A stream gets its input back, or bytes that are at least as healthy and that no
\* Inferred strategy made up.
THEOREM StreamTheorem == Spec => []StreamIsFaithful
<1>1. SafetyInv => StreamIsFaithful
  <2> SUFFICES ASSUME SafetyInv, job.caller = "stream", result = "report"
               PROVE  \/ emitted = job.src /\ kept = << >>
                      \/ /\ kept # << >> /\ emitted = LastKept.bytes
                         /\ HealthAfter(emitted) >= BaseHealth(job)
                         /\ Risk[LastKept.by] # "Inferred"
    BY DEF StreamIsFaithful
  <2>1. emitted = IF outcome.bytes = NoBytes THEN job.src ELSE outcome.bytes
    BY DEF SafetyInv, ControlInv
  <2>2. CASE kept = << >>
    BY <2>1, <2>2 DEF SafetyInv, KeptInv
  <2>3. CASE kept # << >>
    <3>1. emitted = LastKept.bytes /\ Keep(job, LastKept.by, emitted)
      BY <2>1, <2>3, LastKeptPassed, BlobsAssumption
    <3>2. ~Verified(job, emitted)
      BY JobsAssumption DEF Verified, SafetyInv, TypeInv, TypeOK
    <3>3. BaseHealth(job) \in 0..100 /\ HealthAfter(emitted) \in 0..100 \cup {None} /\ None = -1
      BY HealthRange DEF None
    <3>4. Risk[LastKept.by] # "Inferred" /\ (Improved(job, emitted) \/ Held(job, emitted))
      BY <3>1, <3>2 DEF Keep
    <3>5. HealthAfter(emitted) >= BaseHealth(job)
      BY <3>3, <3>4 DEF Improved, Held
    <3> QED BY <2>3, <3>1, <3>4, <3>5
  <2> QED BY <2>2, <2>3
<1> QED BY <1>1, SafetyInvariant, PTL

-----------------------------------------------------------------------------
\* The contract: the refinement mapping.

\* While a run is under way no answer has been given.
LEMMA Unanswered ==
  ASSUME SafetyInv, pc # "idle"
  PROVE  result = "none" /\ AnswerGiven = "none"
BY DEF SafetyInv, ControlInv, AnswerGiven

\* What is committed was kept, so the report claims success for it.
LEMMA CommittedIsKept ==
  ASSUME SafetyInv, ToCommit
  PROVE  /\ AsksForFile(job) /\ report.success = TRUE
         /\ outcome.bytes \in Blobs /\ Justifies(job, outcome.bytes)
<1>1. kept # << >>
  BY DEF SafetyInv, KeptInv, ToCommit
<1>2. Keep(job, LastKept.by, outcome.bytes) /\ outcome.bytes \in Blobs
  BY <1>1, LastKeptPassed
<1>3. report.success = TRUE
  BY <1>1 DEF SafetyInv, KeptInv, TypeInv, TypeOK, Reports
<1>4. Justifies(job, outcome.bytes)
  <2>1. BaseHealth(job) \in 0..100 /\ HealthAfter(outcome.bytes) \in 0..100 \cup {None}
    BY HealthRange
  <2>2. \/ Verified(job, outcome.bytes)
        \/ Improved(job, outcome.bytes) \/ Held(job, outcome.bytes)
    BY <1>2 DEF Keep
  <2>3. Improved(job, outcome.bytes) \/ Held(job, outcome.bytes) =>
          HealthAfter(outcome.bytes) # None /\ HealthAfter(outcome.bytes) >= BaseHealth(job)
    BY <2>1 DEF Improved, Held, None
  <2> QED BY <2>2, <2>3 DEF Justifies
<1>5. AsksForFile(job)
  BY DEF AsksForFile, ToCommit
<1> QED BY <1>2, <1>3, <1>4, <1>5

\* A success without a file to write was only asked for, not to be written.
LEMMA SuccessWithoutFile ==
  ASSUME SafetyInv, report.success, ~ToCommit
  PROVE  ~AsksForFile(job)
<1>1. kept # << >>
  BY DEF SafetyInv, KeptInv
<1>2. outcome.bytes # NoBytes
  BY <1>1, LastKeptPassed, BlobsAssumption
<1> QED BY <1>2 DEF AsksForFile, ToCommit

\* The initial states of the engine are initial states of the contract.
LEMMA ContractInit == Init => Contract!CInit
<1> SUFFICES ASSUME Init PROVE Contract!CInit
  OBVIOUS
<1>1. job \in Jobs
  BY TypeInit DEF TypeInv, TypeOK
<1> QED BY <1>1 DEF Init, Contract!CInit, Phase, AnswerGiven

-----------------------------------------------------------------------------
\* The contract: step simulation.

LEMMA ContractNext == SafetyInv /\ [Next]_vars => [Contract!CNext]_(Contract!cvars)
<1> SUFFICES ASSUME SafetyInv, [Next]_vars
             PROVE  Contract!CNext \/ UNCHANGED Contract!cvars
  OBVIOUS
<1> DEFINE Refines == Contract!CNext \/ UNCHANGED Contract!cvars
<1>0. /\ pc \in Points /\ report.success \in BOOLEAN /\ report \in Reports
      /\ pc # "idle" => result = "none" /\ AnswerGiven = "none"
  BY Unanswered DEF SafetyInv, TypeInv, TypeOK, Reports
<1> USE DEF Return, run, disk
<1>1. CASE Invoke
  <2>1. Contract!Accept
    BY <1>1 DEF Invoke, Contract!Accept, Phase, AnswerGiven
  <2> QED BY <2>1 DEF Contract!CNext
<1>2. CASE AnalysisFails \/ OpenFails \/ UnknownStrategy \/ PassFails
  <2>1. Contract!Decline
    BY <1>2 DEF AnalysisFails, OpenFails, UnknownStrategy, PassFails, Contract!Decline,
                Phase, AnswerGiven
  <2> QED BY <2>1 DEF Contract!CNext, Contract!Answer
<1>3. CASE Panics
  <2>1. Contract!Die
    BY <1>3 DEF Panics, Contract!Die, Phase, AnswerGiven
  <2> QED BY <2>1 DEF Contract!CNext
<1>4. CASE Analyze
  <2>1. CASE job.output
    BY <1>0, <1>4, <2>1 DEF Analyze, Contract!cvars, Phase, AnswerGiven
  <2>2. CASE ~job.output
    <3>1. Contract!Decline
      BY <1>4, <2>2 DEF Analyze, Contract!Decline, Phase, AnswerGiven
    <3> QED BY <3>1 DEF Contract!CNext, Contract!Answer
  <2> QED BY <2>1, <2>2
<1>5. CASE Open \/ Select \/ EndPasses
  BY <1>0, <1>5 DEF Open, Select, EndPasses, Contract!cvars, Phase, AnswerGiven
<1>6. CASE Pass
  <2>1. PICK s \in todo : \E x \in Staged[s][job.src] : RollBack(s, x) \/ KeepOutput(s, x)
    BY <1>6 DEF Pass
  <2>2. /\ pc = "pass" /\ pc' \in {"pass", "finish"}
        /\ job' = job /\ output' = output /\ result' = result
    BY <2>1 DEF RollBack, KeepOutput, Turn
  <2> QED BY <1>0, <2>2 DEF Contract!cvars, Phase, AnswerGiven
<1>7. CASE FinishWithoutWriting \/ FinishStream
  <2>1. /\ pc = "finish" /\ pc' = "idle" /\ result' = "report"
        /\ job' = job /\ output' = output /\ report' = report /\ ~ToCommit
    BY <1>7 DEF FinishWithoutWriting, FinishStream, ToCommit
  <2>2. CASE report.success
    <3>1. Contract!Succeed
      BY <2>1, <2>2, SuccessWithoutFile DEF Contract!Succeed, Phase, AnswerGiven
    <3> QED BY <3>1 DEF Contract!CNext, Contract!Answer
  <2>3. CASE ~report.success
    <3>1. Contract!Decline
      BY <2>1, <2>3 DEF Contract!Decline, Phase, AnswerGiven
    <3> QED BY <3>1 DEF Contract!CNext, Contract!Answer
  <2> QED BY <2>2, <2>3
<1>8. CASE Commit
  <2>1. /\ AsksForFile(job) /\ report.success = TRUE
        /\ outcome.bytes \in Blobs /\ Justifies(job, outcome.bytes)
    BY <1>8, CommittedIsKept DEF Commit
  <2>2. Contract!Publish
    BY <1>0, <1>8, <2>1 DEF Commit, Contract!Publish, Phase, AnswerGiven
  <2> QED BY <2>2 DEF Contract!CNext, Contract!Answer
<1>9. CASE CommitFails
  <2>1. AsksForFile(job)
    BY <1>9, CommittedIsKept DEF CommitFails
  <2>2. CASE output' = output
    <3>1. Contract!Decline
      BY <1>9, <2>2 DEF CommitFails, Contract!Decline, Phase, AnswerGiven
    <3> QED BY <3>1 DEF Contract!CNext, Contract!Answer
  <2>3. CASE output' = Torn
    <3>1. Contract!Tear
      BY <1>9, <2>1, <2>3 DEF CommitFails, Contract!Tear, Phase, AnswerGiven
    <3> QED BY <3>1 DEF Contract!CNext
  <2> QED BY <1>9, <2>2, <2>3 DEF CommitFails
<1>10. CASE WriteManifest \/ ManifestFails
  <2>1. /\ pc = "manifest" /\ pc' = "idle" /\ result' = "report"
        /\ job' = job /\ output' = output /\ report'.success = report.success
    BY <1>0, <1>10 DEF WriteManifest, ManifestFails, Reports
  <2>2. report.success = TRUE
    BY <2>1, CommittedIsKept DEF SafetyInv, ControlInv
  <2>3. Contract!Succeed
    BY <2>1, <2>2 DEF Contract!Succeed, Phase, AnswerGiven
  <2> QED BY <2>3 DEF Contract!CNext, Contract!Answer
<1>11. CASE Crash
  <2>1. CASE output' = output
    <3>1. Contract!Die
      BY <1>0, <1>11, <2>1 DEF Crash, Contract!Die, Phase, AnswerGiven, Points
    <3> QED BY <3>1 DEF Contract!CNext
  <2>2. CASE output' # output
    <3>1. pc = "finish" /\ ToCommit /\ output' = Torn
      BY <1>11, <2>2 DEF Crash
    <3>2. Contract!Tear
      BY <1>11, <3>1, CommittedIsKept DEF Crash, Contract!Tear, Phase, AnswerGiven
    <3> QED BY <3>2 DEF Contract!CNext
  <2> QED BY <2>1, <2>2
<1>12. CASE UNCHANGED vars
  BY <1>12 DEF vars, Contract!cvars, Phase, AnswerGiven
<1> QED
  BY <1>1, <1>2, <1>3, <1>4, <1>5, <1>6, <1>7, <1>8, <1>9, <1>10, <1>11, <1>12 DEF Next, Step

\* Every behaviour of the engine keeps the safety part of the contract: the
\* artifact is replaced only by bytes the request justifies or by a torn file
\* that is not answered with success, "nothing" leaves it alone, and a request
\* that may not write never does.
THEOREM ContractTheorem == Spec => Contract!CInit /\ [][Contract!CNext]_(Contract!cvars)
BY ContractInit, ContractNext, SafetyInvariant, PTL DEF Spec
=============================================================================
