------------------------ MODULE RecoveryPassesProofs ------------------------
(***************************************************************************)
(* Proofs about the pass loop of the recovery engine: which strategies a   *)
(* run has tried, in which order and how often, and why it stopped, for    *)
(* every set of blobs, verdict of the analyzer, staging and request.       *)
(***************************************************************************)
EXTENDS RecoveryEngineProofs, FiniteSetTheorems

-----------------------------------------------------------------------------
\* The sequences of the report.

\* What is in a sequence after an append: the old elements and the new one.
LEMMA RangeOfAppend ==
  ASSUME NEW S, NEW seq \in Seq(S), NEW e \in S
  PROVE  RangeOf(Append(seq, e)) = RangeOf(seq) \cup {e}
<1> DEFINE longer == Append(seq, e)
<1>1. /\ longer \in Seq(S) /\ Len(longer) = Len(seq) + 1 /\ Len(seq) \in Nat
      /\ DOMAIN longer = 1 .. Len(seq) + 1 /\ DOMAIN seq = 1 .. Len(seq)
      /\ longer[Len(seq) + 1] = e /\ \A i \in 1 .. Len(seq) : longer[i] = seq[i]
  OBVIOUS
<1> HIDE DEF longer
<1>2. \A i \in 1 .. Len(seq) + 1 : i \in 1 .. Len(seq) \/ i = Len(seq) + 1
  BY <1>1
<1>3. RangeOf(longer) \subseteq RangeOf(seq) \cup {e}
  BY <1>1, <1>2 DEF RangeOf
<1>4. RangeOf(seq) \cup {e} \subseteq RangeOf(longer)
  BY <1>1 DEF RangeOf
<1> QED BY <1>3, <1>4 DEF longer

\* No element is in an empty sequence.
LEMMA RangeOfEmpty == RangeOf(<< >>) = {}
BY DEF RangeOf

-----------------------------------------------------------------------------
\* The inductive invariant behind StopsForAReason.

\* Why the passes may end although a selected strategy was not tried: as many
\* were as may be, or the last kept output satisfied the run.
StopReason ==
  \/ Passes = MAX_PASSES
  \/ /\ ~job.aggressive /\ kept # << >>
     /\ Verified(job, LastKept.bytes) \/ Improved(job, LastKept.bytes)

\* The strategies tried are as many as the passes, none of them is still to be
\* tried or comes after one that is, and the passes ended for a reason.
PassesInv ==
  /\ IsFiniteSet(Tried)
  /\ Tried \cap todo = {}
  /\ Passes = Cardinality(Tried) /\ Passes <= MAX_PASSES
  /\ \A s \in Tried, t \in todo : Before(s, t)
  /\ pc \in {"analyze", "open", "select"} => Tried = {}
  /\ pc \in {"finish", "manifest"} \/ result = "report" => todo = {} \/ StopReason

\* Nothing is tried before the passes begin.
LEMMA PassesFresh ==
  ASSUME report.applied = << >>, report.rolled_back = << >>
  PROVE  Tried = {} /\ Passes = 0 /\ IsFiniteSet(Tried) /\ Cardinality(Tried) = 0
<1>1. Tried = {} /\ Passes = 0
  BY RangeOfEmpty DEF Tried, Passes
<1> QED BY <1>1, FS_EmptySet

LEMMA PassesInit == Init => PassesInv
<1> SUFFICES ASSUME Init PROVE PassesInv
  OBVIOUS
<1>1. /\ report.applied = << >> /\ report.rolled_back = << >>
      /\ pc = "idle" /\ result = "none" /\ todo = {}
  BY DEF Init, EmptyReport
<1> QED BY <1>1, PassesFresh DEF PassesInv, MAX_PASSES

\* What a step that tries nothing has to keep.
LEMMA PassesStable ==
  ASSUME PassesInv,
         report'.applied = report.applied, report'.rolled_back = report.rolled_back,
         UNCHANGED <<job, kept, todo>>,
         pc' \in {"analyze", "open", "select"} => pc \in {"analyze", "open", "select"},
         pc' \in {"finish", "manifest"} \/ result' = "report"
           => pc \in {"finish", "manifest"} \/ result = "report" \/ todo = {} \/ Passes = MAX_PASSES
  PROVE  PassesInv'
<1>1. Tried' = Tried /\ Passes' = Passes
  BY DEF Tried, Passes
<1>2. StopReason' <=> StopReason
  BY <1>1 DEF StopReason, LastKept, MAX_PASSES
<1> QED BY <1>1, <1>2 DEF PassesInv, MAX_PASSES, StopReason

\* A strategy whose turn it is joins those tried and leaves those to be tried:
\* it came before all of these, and there was room for one more pass.
LEMMA PassesTried ==
  ASSUME TypeOK, PassesInv, NEW s \in todo, Turn(s), todo' = todo \ {s},
         Tried' = Tried \cup {s}, Passes' = Passes + 1
  PROVE  /\ IsFiniteSet(Tried') /\ Tried' \cap todo' = {}
         /\ Passes' = Cardinality(Tried') /\ Passes' <= MAX_PASSES
         /\ \A a \in Tried', t \in todo' : Before(a, t)
<1>1. s \notin Tried /\ IsFiniteSet(Tried) /\ Passes = Cardinality(Tried)
  BY DEF PassesInv
<1>2. IsFiniteSet(Tried') /\ Cardinality(Tried') = Cardinality(Tried) + 1
  BY <1>1, FS_AddElement
<1>3. Passes \in Nat /\ Passes < MAX_PASSES
  BY <1>1, FS_CardinalityType DEF Turn
<1>4. Passes + 1 <= MAX_PASSES
  BY <1>3 DEF MAX_PASSES
<1>5. \A a \in Tried', t \in todo' : Before(a, t)
  BY DEF PassesInv, Turn
<1>6. Tried' \cap todo' = {}
  BY DEF PassesInv
<1> QED BY <1>1, <1>2, <1>4, <1>5, <1>6

LEMMA PassesNext == SafetyInv /\ PassesInv /\ [Next]_vars => PassesInv'
<1> SUFFICES ASSUME SafetyInv, PassesInv, [Next]_vars PROVE PassesInv'
  OBVIOUS
<1>0. TypeOK
  BY DEF SafetyInv, TypeInv
<1> USE DEF Return, run, disk
<1>1. CASE Invoke
  <2>1. /\ report'.applied = << >> /\ report'.rolled_back = << >>
        /\ pc' = "analyze" /\ result' = "none" /\ todo' = {}
    BY <1>1 DEF Invoke, EmptyReport
  <2>2. Tried' = {} /\ Passes' = 0 /\ IsFiniteSet(Tried') /\ Cardinality(Tried') = 0
    <3>1. Tried' = {} /\ Passes' = 0
      BY <2>1, RangeOfEmpty DEF Tried, Passes, RangeOf
    <3> QED BY <3>1, FS_EmptySet
  <2> QED BY <2>1, <2>2 DEF PassesInv, MAX_PASSES
<1>2. CASE AnalysisFails \/ OpenFails \/ UnknownStrategy \/ PassFails \/ Panics
  BY <1>2, PassesStable DEF AnalysisFails, OpenFails, UnknownStrategy, PassFails, Panics
<1>3. CASE Analyze \/ EndPasses \/ FinishWithoutWriting
  BY <1>3, PassesStable DEF Analyze, EndPasses, FinishWithoutWriting
<1>4. CASE Open
  <2>1. report'.applied = report.applied /\ report'.rolled_back = report.rolled_back
    BY <1>0, <1>4 DEF Open, TypeOK, Reports
  <2>2. result = "none"
    BY <1>0, <1>4 DEF Open, SafetyInv, ControlInv
  <2> QED BY <1>4, <2>1, <2>2, PassesStable DEF Open
<1>5. CASE Select
  <2>1. /\ Tried' = Tried /\ Passes' = Passes /\ Tried = {}
        /\ pc' = "pass" /\ result' # "report"
    BY <1>5 DEF Select, Tried, Passes, PassesInv, SafetyInv, ControlInv
  <2> QED BY <2>1 DEF PassesInv, MAX_PASSES
<1>6. CASE Pass
  <2>1. PICK s \in todo : \E x \in Staged[s][job.src] : RollBack(s, x) \/ KeepOutput(s, x)
    BY <1>6 DEF Pass
  <2>2. PICK x \in Staged[s][job.src] : RollBack(s, x) \/ KeepOutput(s, x)
    BY <2>1
  <2>3. /\ s \in Strategies
        /\ report.applied \in Seq(Strategies) /\ report.rolled_back \in Seq(Strategies)
    BY <1>0 DEF TypeOK, Reports
  <2>4. Turn(s) /\ todo' = todo \ {s} /\ pc = "pass" /\ result' # "report"
    <3>1. Turn(s) /\ todo' = todo \ {s} /\ result' = result
      BY <2>2 DEF RollBack, KeepOutput
    <3> QED BY <3>1 DEF Turn, SafetyInv, ControlInv
  <2>5. Tried' = Tried \cup {s} /\ Passes' = Passes + 1
    <3> DEFINE a == Len(report.applied)
               r == Len(report.rolled_back)
    <3>1. CASE RollBack(s, x)
      <4>1. /\ report'.applied = report.applied
            /\ report'.rolled_back = Append(report.rolled_back, s)
        BY <1>0, <3>1 DEF RollBack, TypeOK, Reports
      <4>2. RangeOf(report'.rolled_back) = RangeOf(report.rolled_back) \cup {s}
        BY <2>3, <4>1, RangeOfAppend
      <4>3. r' = r + 1 /\ a' = a /\ a \in Nat /\ r \in Nat
        BY <2>3, <4>1
      <4>4. /\ RangeOf(report.rolled_back)' = RangeOf(report.rolled_back) \cup {s}
            /\ RangeOf(report.applied)' = RangeOf(report.applied)
        BY <4>1, <4>2 DEF RangeOf
      <4>5. Passes = a + r /\ Passes' = a' + r'
        BY DEF Passes
      <4>6. Passes' = Passes + 1
        <5> HIDE DEF a, r
        <5> QED BY <4>3, <4>5
      <4> QED BY <4>4, <4>6 DEF Tried
    <3>2. CASE KeepOutput(s, x)
      <4>1. /\ report'.rolled_back = report.rolled_back
            /\ report'.applied = Append(report.applied, s)
        BY <1>0, <3>2 DEF KeepOutput, Merged, TypeOK, Reports
      <4>2. RangeOf(report'.applied) = RangeOf(report.applied) \cup {s}
        BY <2>3, <4>1, RangeOfAppend
      <4>3. a' = a + 1 /\ r' = r /\ a \in Nat /\ r \in Nat
        BY <2>3, <4>1
      <4>4. /\ RangeOf(report.applied)' = RangeOf(report.applied) \cup {s}
            /\ RangeOf(report.rolled_back)' = RangeOf(report.rolled_back)
        BY <4>1, <4>2 DEF RangeOf
      <4>5. Passes = a + r /\ Passes' = a' + r'
        BY DEF Passes
      <4>6. Passes' = Passes + 1
        <5> HIDE DEF a, r
        <5> QED BY <4>3, <4>5
      <4> QED BY <4>4, <4>6 DEF Tried
    <3> QED BY <2>2, <3>1, <3>2
  <2>6. pc' = "finish" => StopReason'
    <3> SUFFICES ASSUME pc' = "finish" PROVE StopReason'
      OBVIOUS
    <3>1. KeepOutput(s, x)
      BY <2>2, <2>4 DEF RollBack
    <3>2. /\ ~job.aggressive /\ job' = job
          /\ Verified(job, x.bytes) \/ Improved(job, x.bytes)
      BY <2>4, <3>1 DEF KeepOutput
    <3>3. SafetyInv'
      BY SafetyNext
    <3>4. kept' # << >> /\ outcome'.bytes = x.bytes /\ LastKept'.bytes = x.bytes
      <4> DEFINE k == [by |-> s, bytes |-> x.bytes, recovered |-> x.recovered]
      <4>1. k \in KeptRecords /\ kept \in Seq(KeptRecords)
        <5>1. x \in Stagings /\ s \in Strategies
          BY <1>0, StagedType DEF TypeOK
        <5>2. x.bytes # NoBytes
          BY <3>1 DEF KeepOutput, Keep
        <5> QED BY <1>0, <5>1, <5>2 DEF KeptRecords, Stagings, TypeOK
      <4>2. kept' = Append(kept, k) /\ outcome'.bytes = x.bytes
        BY <3>1 DEF KeepOutput
      <4>3. kept' # << >>
        <5> HIDE DEF k
        <5> QED BY <4>1, <4>2, AppendFacts
      <4> QED BY <3>3, <4>2, <4>3 DEF SafetyInv, KeptInv
    <3> QED BY <3>2, <3>4 DEF StopReason
  <2>7. /\ IsFiniteSet(Tried') /\ Tried' \cap todo' = {}
        /\ Passes' = Cardinality(Tried') /\ Passes' <= MAX_PASSES
        /\ \A a \in Tried', t \in todo' : Before(a, t)
    BY <1>0, <2>4, <2>5, PassesTried
  <2>8. pc' \in {"pass", "finish"}
    BY <2>2, <2>4 DEF RollBack, KeepOutput
  <2> QED BY <2>4, <2>6, <2>7, <2>8 DEF PassesInv
<1>7. CASE FinishStream
  BY <1>7, PassesStable DEF FinishStream
<1>8. CASE Commit \/ CommitFails
  BY <1>8, PassesStable DEF Commit, CommitFails
<1>9. CASE WriteManifest
  <2>1. report'.applied = report.applied /\ report'.rolled_back = report.rolled_back
    BY <1>0, <1>9 DEF WriteManifest, TypeOK, Reports
  <2> QED BY <1>9, <2>1, PassesStable DEF WriteManifest
<1>10. CASE ManifestFails \/ Crash
  BY <1>10, PassesStable DEF ManifestFails, Crash
<1>11. CASE UNCHANGED vars
  BY <1>11, PassesStable DEF vars
<1> QED
  BY <1>1, <1>2, <1>3, <1>4, <1>5, <1>6, <1>7, <1>8, <1>9, <1>10, <1>11 DEF Next, Step

-----------------------------------------------------------------------------
\* The passes stop for a reason the code gives: every strategy selected was
\* tried, or MAX_PASSES were, or the last kept output is verified or healthier
\* and the run is not aggressive.  Those tried come before those that were not,
\* and none was tried twice.
THEOREM StopTheorem == Spec => []StopsForAReason
<1>1. Spec => []PassesInv
  BY PassesInit, PassesNext, SafetyInvariant, PTL DEF Spec
<1>2. PassesInv => StopsForAReason
  BY DEF PassesInv, StopsForAReason, StopReason
<1> QED BY <1>1, <1>2, PTL
-----------------------------------------------------------------------------
\* Where the published bytes come from: the last kept output was staged by its
\* strategy for the very source of this run, and the report's counts are its own
\* when it is the only one.  What is proved of a strategy's output for a source is
\* by this invariant true of the file that is published.
StagedInv ==
  /\ kept # << >> =>
       \E x \in Staged[LastKept.by][job.src] :
         /\ x.bytes = LastKept.bytes /\ x.recovered = LastKept.recovered
         /\ x.lost = report.lost
  /\ kept = << >> => report.recovered = 0
  /\ Len(kept) = 1 => report.recovered = LastKept.recovered

\* What a step that keeps nothing has to preserve.
LEMMA StagedStable ==
  ASSUME StagedInv, UNCHANGED <<job, kept>>,
         report'.recovered = report.recovered, report'.lost = report.lost
  PROVE  StagedInv'
BY DEF StagedInv, LastKept

LEMMA StagedNext == SafetyInv /\ StagedInv /\ [Next]_vars => StagedInv'
<1> SUFFICES ASSUME SafetyInv, StagedInv, [Next]_vars PROVE StagedInv'
  OBVIOUS
<1>0. TypeOK
  BY DEF SafetyInv, TypeInv
<1> USE DEF Return, run, disk
<1>1. CASE Invoke
  <2>1. kept' = << >> /\ report'.recovered = 0
    BY <1>1 DEF Invoke, EmptyReport
  <2> QED BY <2>1 DEF StagedInv
<1>2. CASE AnalysisFails \/ OpenFails \/ UnknownStrategy \/ PassFails \/ Panics
  BY <1>2, StagedStable DEF AnalysisFails, OpenFails, UnknownStrategy, PassFails, Panics
<1>3. CASE Analyze \/ EndPasses \/ FinishWithoutWriting \/ Select \/ FinishStream
  BY <1>3, StagedStable DEF Analyze, EndPasses, FinishWithoutWriting, Select, FinishStream
<1>4. CASE Open \/ WriteManifest
  <2>1. report'.recovered = report.recovered /\ report'.lost = report.lost
    BY <1>0, <1>4 DEF Open, WriteManifest, TypeOK, Reports
  <2> QED BY <1>4, <2>1, StagedStable DEF Open, WriteManifest
<1>5. CASE Pass
  <2>1. PICK s \in todo : \E x \in Staged[s][job.src] : RollBack(s, x) \/ KeepOutput(s, x)
    BY <1>5 DEF Pass
  <2>2. PICK x \in Staged[s][job.src] : RollBack(s, x) \/ KeepOutput(s, x)
    BY <2>1
  <2>3. CASE RollBack(s, x)
    <3>1. report'.recovered = report.recovered /\ report'.lost = report.lost
      BY <1>0, <2>3 DEF RollBack, TypeOK, Reports
    <3> QED BY <2>3, <3>1, StagedStable DEF RollBack
  <2>4. CASE KeepOutput(s, x)
    <3> DEFINE k == [by |-> s, bytes |-> x.bytes, recovered |-> x.recovered]
    <3>1. x \in Stagings /\ s \in Strategies /\ x.bytes # NoBytes
      BY <1>0, <2>4, StagedType DEF TypeOK, KeepOutput, Keep
    <3>2. k \in KeptRecords /\ kept \in Seq(KeptRecords) /\ kept' = Append(kept, k)
      BY <1>0, <2>4, <3>1 DEF KeptRecords, Stagings, TypeOK, KeepOutput
    <3>3. k.by = s /\ k.bytes = x.bytes /\ k.recovered = x.recovered
      OBVIOUS
    <3> HIDE DEF k
    <3>4. kept' # << >> /\ Len(kept') = Len(kept) + 1 /\ LastKept' = k
      BY <3>2, AppendFacts DEF LastKept
    <3>5. /\ report'.lost = x.lost
          /\ report'.recovered = IF x.recovered > report.recovered THEN x.recovered
                                 ELSE report.recovered
      BY <1>0, <2>4 DEF KeepOutput, Merged, TypeOK, Reports
    <3>6. job' = job
      BY <2>4 DEF KeepOutput
    <3>7. Len(kept') = 1 => report'.recovered = x.recovered
      <4> SUFFICES ASSUME Len(kept') = 1 PROVE report'.recovered = x.recovered
        OBVIOUS
      <4>1. Len(kept) = 0 /\ kept = << >>
        BY <3>2, <3>4, EmptyByLength
      <4>2. report.recovered = 0 /\ x.recovered \in Nat
        BY <3>1, <4>1 DEF StagedInv, Stagings
      <4> QED BY <3>5, <4>2
    <3> QED BY <2>2, <3>3, <3>4, <3>5, <3>6, <3>7 DEF StagedInv
  <2> QED BY <2>2, <2>3, <2>4
<1>6. CASE Commit \/ CommitFails \/ ManifestFails \/ Crash
  BY <1>6, StagedStable DEF Commit, CommitFails, ManifestFails, Crash
<1>7. CASE UNCHANGED vars
  BY <1>7, StagedStable DEF vars
<1> QED BY <1>1, <1>2, <1>3, <1>4, <1>5, <1>6, <1>7 DEF Next, Step

LEMMA StagedInvariant == Spec => []StagedInv
<1>1. Init => StagedInv
  <2> SUFFICES ASSUME Init PROVE StagedInv
    OBVIOUS
  <2>1. kept = << >> /\ Len(kept) = 0 /\ report.recovered = 0
    BY DEF Init, EmptyReport
  <2> QED BY <2>1 DEF StagedInv
<1> QED BY <1>1, StagedNext, SafetyInvariant, PTL DEF Spec

\* The plans that the manifest lists are those of the strategy whose output stands.
PlansInv == kept # << >> => outcome.plans = Plan(LastKept.by, RangeOf(Corruptions(job)))

LEMMA PlansStable ==
  ASSUME PlansInv, UNCHANGED <<job, kept, outcome>>
  PROVE  PlansInv'
<1>1. RangeOf(Corruptions(job))' = RangeOf(Corruptions(job)) /\ LastKept' = LastKept
  BY DEF Corruptions, LastKept
<1> QED BY <1>1 DEF PlansInv

LEMMA PlansNext == SafetyInv /\ PlansInv /\ [Next]_vars => PlansInv'
<1> SUFFICES ASSUME SafetyInv, PlansInv, [Next]_vars PROVE PlansInv'
  OBVIOUS
<1>0. TypeOK
  BY DEF SafetyInv, TypeInv
<1> USE DEF Return, run, disk
<1>1. CASE Invoke
  BY <1>1 DEF Invoke, PlansInv
<1>2. CASE AnalysisFails \/ OpenFails \/ UnknownStrategy \/ PassFails \/ Panics
  BY <1>2, PlansStable DEF AnalysisFails, OpenFails, UnknownStrategy, PassFails, Panics
<1>3. CASE Analyze \/ Open \/ Select \/ EndPasses \/ FinishWithoutWriting \/ FinishStream
  BY <1>3, PlansStable DEF Analyze, Open, Select, EndPasses, FinishWithoutWriting, FinishStream
<1>4. CASE Pass
  <2>1. PICK s \in todo : \E x \in Staged[s][job.src] : RollBack(s, x) \/ KeepOutput(s, x)
    BY <1>4 DEF Pass
  <2>2. PICK x \in Staged[s][job.src] : RollBack(s, x) \/ KeepOutput(s, x)
    BY <2>1
  <2>3. CASE RollBack(s, x)
    BY <2>3, PlansStable DEF RollBack
  <2>4. CASE KeepOutput(s, x)
    <3> DEFINE k == [by |-> s, bytes |-> x.bytes, recovered |-> x.recovered]
    <3>1. x \in Stagings /\ s \in Strategies /\ x.bytes # NoBytes
      BY <1>0, <2>4, StagedType DEF TypeOK, KeepOutput, Keep
    <3>2. k \in KeptRecords /\ kept \in Seq(KeptRecords) /\ kept' = Append(kept, k)
      BY <1>0, <2>4, <3>1 DEF KeptRecords, Stagings, TypeOK, KeepOutput
    <3>3. k.by = s
      OBVIOUS
    <3> HIDE DEF k
    <3>4. LastKept' = k
      BY <3>2, AppendFacts DEF LastKept
    <3>5. outcome'.plans = Plan(s, RangeOf(Corruptions(job))) /\ job' = job
      BY <2>4 DEF KeepOutput
    <3>6. RangeOf(Corruptions(job))' = RangeOf(Corruptions(job))
      BY <3>5 DEF Corruptions
    <3> QED BY <3>3, <3>4, <3>5, <3>6 DEF PlansInv
  <2> QED BY <2>2, <2>3, <2>4
<1>5. CASE Commit \/ CommitFails \/ WriteManifest \/ ManifestFails \/ Crash
  BY <1>5, PlansStable DEF Commit, CommitFails, WriteManifest, ManifestFails, Crash
<1>6. CASE UNCHANGED vars
  BY <1>6, PlansStable DEF vars
<1> QED BY <1>1, <1>2, <1>3, <1>4, <1>5, <1>6 DEF Next, Step

LEMMA PlansInvariant == Spec => []PlansInv
<1>1. Init => PlansInv
  BY DEF Init, PlansInv
<1> QED BY <1>1, PlansNext, SafetyInvariant, PTL DEF Spec

\* The manifest of a Lossy repair that no reference confirms vouches for nothing.
LEMMA LossyVouchesForNothing ==
  ASSUME SafetyInv, PlansInv, Published, report.manifest_path,
         Risk[LastKept.by] = "Lossy", ~Verified(job, output)
  PROVE  sidecar.verified = 0 /\ \A r \in sidecar.repairs : r.guarantee = "Lost"
<1>1. sidecar = Manifest /\ output = outcome.bytes /\ kept # << >>
  BY DEF SafetyInv, ControlInv, KeptInv, ToCommit
<1>2. outcome.verified = FALSE
  BY <1>1 DEF SafetyInv, KeptInv, TypeInv, TypeOK, Outcomes, Verified
<1>3. sidecar.verified = 0
  BY <1>1, <1>2 DEF Manifest
<1>4. \A q \in outcome.plans : q.risk = "Lossy"
  BY <1>1 DEF PlansInv, Plan
<1>5. GuaranteeOf("Lossy", outcome.verified) = "Lost"
  BY DEF GuaranteeOf
<1>6. sidecar.repairs = {[rule |-> p.rule, guarantee |-> GuaranteeOf(p.risk, outcome.verified)]
                           : p \in outcome.plans}
  BY <1>1 DEF Manifest
<1> QED BY <1>3, <1>4, <1>5, <1>6

\* A published file is what its strategy stages for the source of the run.
LEMMA PublishedIsStaged ==
  ASSUME SafetyInv, StagedInv, Published
  PROVE  /\ kept # << >> /\ job \in Jobs /\ job.src \in Blobs /\ output \in Blobs
         /\ LastKept.by \in Strategies /\ Keep(job, LastKept.by, output)
         /\ \E x \in Staged[LastKept.by][job.src] :
              /\ x.bytes = output /\ x.lost = report.lost
              /\ Len(kept) = 1 => x.recovered = report.recovered
<1>1. kept # << >>
  BY DEF Published, ToCommit, SafetyInv, KeptInv
<1>2. output = outcome.bytes
  BY DEF Published, SafetyInv, ControlInv
<1>3. job \in Jobs /\ job.src \in Blobs
  BY JobType DEF SafetyInv, TypeInv, TypeOK, Requests
<1>4. output = LastKept.bytes /\ output \in Blobs /\ LastKept \in KeptRecords
      /\ Keep(job, LastKept.by, output)
  BY <1>1, <1>2, LastKeptPassed
<1> QED BY <1>1, <1>3, <1>4 DEF StagedInv, KeptRecords
-----------------------------------------------------------------------------
\* Which strategies a run gets to: those selected for its source, in auto mode the
\* applicable ones unless the source is clean.
Selected(j) ==
  IF j.forced # "auto" THEN {j.forced} ELSE IF IsClean(j) THEN {} ELSE Applicable(j)

\* From the selection on, the strategies tried and those to be tried are the ones
\* selected; one that was rolled back staged something the gate refuses, and the
\* ones applied are those of the kept outputs, each of which its strategy staged.
\* Without aggressive, only the last of these can be an improvement.
SelectedInv ==
  /\ pc \in {"pass", "finish", "manifest"} \/ result = "report" => todo \cup Tried = Selected(job)
  /\ \A s \in RangeOf(report.rolled_back) : \E x \in Staged[s][job.src] : ~Keep(job, s, x.bytes)
  /\ \A s \in RangeOf(report.applied) : \E i \in 1 .. Len(kept) : kept[i].by = s
  /\ \A i \in 1 .. Len(kept) : kept[i].by \in RangeOf(report.applied)
  /\ \A i \in 1 .. Len(kept) : \E x \in Staged[kept[i].by][job.src] : x.bytes = kept[i].bytes
  /\ ~job.aggressive => \A i \in 1 .. Len(kept) - 1 : Held(job, kept[i].bytes)

\* What a step that tries nothing has to preserve.
LEMMA SelectedStable ==
  ASSUME SelectedInv, UNCHANGED <<job, kept, todo>>,
         report'.applied = report.applied, report'.rolled_back = report.rolled_back,
         pc' \in {"pass", "finish", "manifest"} \/ result' = "report"
           => pc \in {"pass", "finish", "manifest"}
  PROVE  SelectedInv'
<1>1. /\ Tried' = Tried /\ Selected(job)' = Selected(job)
      /\ RangeOf(report'.applied) = RangeOf(report.applied)
      /\ RangeOf(report'.rolled_back) = RangeOf(report.rolled_back)
  BY DEF Tried, Selected, IsClean, Applicable, Corruptions
<1>2. /\ \A s, x : Keep(job', s, x.bytes) <=> Keep(job, s, x.bytes)
      /\ \A b : Held(job', b) <=> Held(job, b)
  OBVIOUS
<1> QED BY <1>1, <1>2 DEF SelectedInv

LEMMA SelectedNext ==
  SafetyInv /\ PassesInv /\ SelectedInv /\ [Next]_vars => SelectedInv'
<1> SUFFICES ASSUME SafetyInv, PassesInv, SelectedInv, [Next]_vars PROVE SelectedInv'
  OBVIOUS
<1>0. TypeOK /\ (result # "none" => pc = "idle")
  BY DEF SafetyInv, TypeInv, ControlInv
<1> USE DEF Return, run, disk
<1>1. CASE Invoke
  <2>1. /\ kept' = << >> /\ report'.applied = << >> /\ report'.rolled_back = << >>
        /\ pc' = "analyze" /\ result' = "none"
    BY <1>1 DEF Invoke, EmptyReport
  <2>2. RangeOf(report'.applied) = {} /\ RangeOf(report'.rolled_back) = {} /\ Len(kept') = 0
    BY <2>1, RangeOfEmpty
  <2> QED BY <2>1, <2>2 DEF SelectedInv
<1>2. CASE AnalysisFails \/ OpenFails \/ UnknownStrategy \/ PassFails \/ Panics \/ Crash
  BY <1>2, SelectedStable DEF AnalysisFails, OpenFails, UnknownStrategy, PassFails, Panics, Crash
<1>3. CASE Analyze
  BY <1>0, <1>3, SelectedStable DEF Analyze
<1>4. CASE Open
  <2>1. report'.applied = report.applied /\ report'.rolled_back = report.rolled_back
    BY <1>0, <1>4 DEF Open, TypeOK, Reports
  <2> QED BY <1>0, <1>4, <2>1, SelectedStable DEF Open
<1>5. CASE Select
  <2>1. Tried = {} /\ kept' = kept /\ report' = report /\ job' = job /\ todo' = Selected(job)
    BY <1>5 DEF Select, PassesInv, Selected
  <2>2. /\ Tried' = Tried /\ Selected(job)' = Selected(job)
    BY <2>1 DEF Tried, Selected, IsClean, Applicable, Corruptions
  <2> QED BY <2>1, <2>2 DEF SelectedInv
<1>6. CASE Pass
  <2>1. PICK s \in todo : \E x \in Staged[s][job.src] : RollBack(s, x) \/ KeepOutput(s, x)
    BY <1>6 DEF Pass
  <2>2. PICK x \in Staged[s][job.src] : RollBack(s, x) \/ KeepOutput(s, x)
    BY <2>1
  <2>3. /\ s \in Strategies
        /\ report.applied \in Seq(Strategies) /\ report.rolled_back \in Seq(Strategies)
    BY <1>0 DEF TypeOK, Reports
  <2>4. /\ todo' = todo \ {s} /\ pc = "pass" /\ job' = job
        /\ Selected(job)' = Selected(job) /\ todo \cup Tried = Selected(job)
    <3>1. todo' = todo \ {s} /\ pc = "pass" /\ job' = job
      BY <2>2 DEF RollBack, KeepOutput, Turn
    <3> QED BY <3>1 DEF SelectedInv, Selected, IsClean, Applicable, Corruptions
  <2>5. CASE RollBack(s, x)
    <3>1. /\ report'.applied = report.applied /\ kept' = kept
          /\ report'.rolled_back = Append(report.rolled_back, s) /\ ~Keep(job, s, x.bytes)
      BY <1>0, <2>5 DEF RollBack, TypeOK, Reports
    <3>2. RangeOf(report'.rolled_back) = RangeOf(report.rolled_back) \cup {s}
      BY <2>3, <3>1, RangeOfAppend
    <3>3. Tried' = Tried \cup {s}
      BY <3>1, <3>2 DEF Tried, RangeOf
    <3>4. todo' \cup Tried' = Selected(job)
      BY <2>4, <3>3
    <3>5. \A t \in RangeOf(report'.rolled_back) : \E y \in Staged[t][job.src] : ~Keep(job, t, y.bytes)
      BY <2>2, <3>1, <3>2 DEF SelectedInv
    <3> QED BY <2>4, <3>1, <3>4, <3>5 DEF SelectedInv
  <2>6. CASE KeepOutput(s, x)
    <3> DEFINE k == [by |-> s, bytes |-> x.bytes, recovered |-> x.recovered]
    <3>1. x \in Stagings /\ x.bytes # NoBytes
      BY <1>0, <2>3, <2>6, StagedType DEF TypeOK, KeepOutput, Keep
    <3>2. k \in KeptRecords /\ kept \in Seq(KeptRecords) /\ kept' = Append(kept, k)
      BY <1>0, <2>3, <2>6, <3>1 DEF KeptRecords, Stagings, TypeOK, KeepOutput
    <3>3. k.by = s
      OBVIOUS
    <3> HIDE DEF k
    <3>4. /\ Len(kept') = Len(kept) + 1 /\ Len(kept) \in Nat /\ kept'[Len(kept) + 1] = k
          /\ \A i \in 1 .. Len(kept) : kept'[i] = kept[i]
      BY <3>2
    <3>5. /\ report'.rolled_back = report.rolled_back
          /\ report'.applied = Append(report.applied, s)
      BY <1>0, <2>6 DEF KeepOutput, Merged, TypeOK, Reports
    <3>6. RangeOf(report'.applied) = RangeOf(report.applied) \cup {s}
      BY <2>3, <3>5, RangeOfAppend
    <3>7. Tried' = Tried \cup {s}
      BY <3>5, <3>6 DEF Tried, RangeOf
    <3>8. todo' \cup Tried' = Selected(job)
      BY <2>4, <3>7
    <3>9. \A t \in RangeOf(report'.applied) : \E i \in 1 .. Len(kept') : kept'[i].by = t
      <4> SUFFICES ASSUME NEW t \in RangeOf(report'.applied)
                   PROVE  \E i \in 1 .. Len(kept') : kept'[i].by = t
        OBVIOUS
      <4>1. CASE t = s
        <5>1. Len(kept) + 1 \in 1 .. Len(kept')
          BY <3>4
        <5> QED BY <3>3, <3>4, <4>1, <5>1
      <4>2. CASE t \in RangeOf(report.applied)
        <5>1. PICK i \in 1 .. Len(kept) : kept[i].by = t
          BY <4>2 DEF SelectedInv
        <5>2. i \in 1 .. Len(kept')
          BY <3>4
        <5> QED BY <3>4, <5>1, <5>2
      <4> QED BY <3>6, <4>1, <4>2
    <3>10. \A i \in 1 .. Len(kept') : kept'[i].by \in RangeOf(report'.applied)
      <4> SUFFICES ASSUME NEW i \in 1 .. Len(kept')
                   PROVE  kept'[i].by \in RangeOf(report'.applied)
        OBVIOUS
      <4>1. i = Len(kept) + 1 \/ i \in 1 .. Len(kept)
        BY <3>4
      <4> QED BY <3>3, <3>4, <3>6, <4>1 DEF SelectedInv
    <3>11. \A i \in 1 .. Len(kept') : \E y \in Staged[kept'[i].by][job.src] : y.bytes = kept'[i].bytes
      <4> SUFFICES ASSUME NEW i \in 1 .. Len(kept')
                   PROVE  \E y \in Staged[kept'[i].by][job.src] : y.bytes = kept'[i].bytes
        OBVIOUS
      <4>1. i = Len(kept) + 1 \/ i \in 1 .. Len(kept)
        BY <3>4
      <4>2. k.bytes = x.bytes
        BY DEF k
      <4> QED BY <2>2, <3>3, <3>4, <4>1, <4>2 DEF SelectedInv
    <3>12. ~job.aggressive => \A i \in 1 .. Len(kept') - 1 : Held(job, kept'[i].bytes)
      <4>1. Len(kept') - 1 = Len(kept)
        BY <3>4
      <4>2. ~job.aggressive => \A i \in 1 .. Len(kept) : Held(job, kept[i].bytes)
        BY <2>4 DEF SafetyInv, RankInv
      <4> QED BY <3>4, <4>1, <4>2
    <3> QED BY <2>4, <3>5, <3>8, <3>9, <3>10, <3>11, <3>12 DEF SelectedInv
  <2> QED BY <2>2, <2>5, <2>6
<1>7. CASE EndPasses \/ FinishWithoutWriting \/ FinishStream \/ Commit \/ CommitFails
  BY <1>7, SelectedStable DEF EndPasses, FinishWithoutWriting, FinishStream, Commit, CommitFails
<1>8. CASE WriteManifest
  <2>1. report'.applied = report.applied /\ report'.rolled_back = report.rolled_back
    BY <1>0, <1>8 DEF WriteManifest, TypeOK, Reports
  <2> QED BY <1>8, <2>1, SelectedStable DEF WriteManifest
<1>9. CASE ManifestFails
  BY <1>9, SelectedStable DEF ManifestFails
<1>10. CASE UNCHANGED vars
  <2>1. /\ Tried' = Tried /\ Selected(job)' = Selected(job)
    BY <1>10 DEF vars, Tried, Selected, IsClean, Applicable, Corruptions
  <2> QED BY <1>10, <2>1 DEF vars, SelectedInv
<1> QED BY <1>1, <1>2, <1>3, <1>4, <1>5, <1>6, <1>7, <1>8, <1>9, <1>10 DEF Next, Step

LEMMA SelectedInvariant == Spec => [](PassesInv /\ SelectedInv)
<1>1. Init => SelectedInv
  <2> SUFFICES ASSUME Init PROVE SelectedInv
    OBVIOUS
  <2>1. /\ kept = << >> /\ report.applied = << >> /\ report.rolled_back = << >>
        /\ pc = "idle" /\ result = "none"
    BY DEF Init, EmptyReport
  <2>2. RangeOf(report.applied) = {} /\ RangeOf(report.rolled_back) = {} /\ Len(kept) = 0
    BY <2>1, RangeOfEmpty
  <2> QED BY <2>1, <2>2 DEF SelectedInv
<1>2. PassesInv /\ SelectedInv /\ SafetyInv /\ [Next]_vars => (PassesInv /\ SelectedInv)'
  BY PassesNext, SelectedNext
<1> QED BY <1>1, <1>2, PassesInit, SafetyInvariant, PTL DEF Spec

\* What every run does for a selected strategy: when a report is returned and all
\* the strategy can stage for the source passes the gate, something was kept, or
\* the passes were used up on strategies that come before it.
LEMMA SelectedIsTried ==
  ASSUME PassesInv, SelectedInv, result = "report", NEW s \in Selected(job),
         \A x \in Staged[s][job.src] : Keep(job, s, x.bytes)
  PROVE  kept # << >> \/ (Passes = MAX_PASSES /\ s \notin Tried /\ \A t \in Tried : Before(t, s))
<1>1. todo \cup Tried = Selected(job)
  BY DEF SelectedInv
<1>2. s \notin RangeOf(report.rolled_back)
  BY DEF SelectedInv
<1>3. CASE s \in Tried
  <2>1. s \in RangeOf(report.applied)
    BY <1>2, <1>3 DEF Tried
  <2>2. PICK i \in 1 .. Len(kept) : kept[i].by = s
    BY <2>1 DEF SelectedInv
  <2> QED BY <2>2
<1>4. CASE s \notin Tried
  <2>1. s \in todo
    BY <1>1, <1>4
  <2> QED BY <1>4, <2>1 DEF PassesInv, StopReason
<1> QED BY <1>3, <1>4

\* What is kept is of a selected strategy.
LEMMA KeptIsSelected ==
  ASSUME SafetyInv, SelectedInv, result = "report", kept # << >>
  PROVE  LastKept.by \in Selected(job) /\ LastKept.by \in Tried
<1>1. kept \in Seq(KeptRecords)
  BY DEF SafetyInv, TypeInv, TypeOK
<1>2. Len(kept) \in 1 .. Len(kept)
  BY <1>1, EmptyByLength
<1> QED BY <1>2 DEF SelectedInv, LastKept, Tried

\* What a run does for the first of the strategies selected, if all it can stage
\* passes the gate as an improvement: unless the run tries everything, its output
\* is the one that stands at the end.
LEMMA FirstIsPublished ==
  ASSUME SafetyInv, PassesInv, SelectedInv, result = "report", ~job.aggressive,
         NEW s \in Selected(job), \A t \in Selected(job) \ {s} : ~Before(t, s),
         \A x \in Staged[s][job.src] : Keep(job, s, x.bytes) /\ Improved(job, x.bytes)
  PROVE  kept # << >> /\ LastKept.by = s
<1>1. todo \cup Tried = Selected(job)
  BY DEF SelectedInv
<1>2. s \notin RangeOf(report.rolled_back)
  BY DEF SelectedInv
<1>3. kept \in Seq(KeptRecords)
  BY DEF SafetyInv, TypeInv, TypeOK
<1>4. CASE s \in Tried
  <2>1. PICK i \in 1 .. Len(kept) : kept[i].by = s
    BY <1>2, <1>4 DEF Tried, SelectedInv
  <2>2. Improved(job, kept[i].bytes)
    BY <2>1 DEF SelectedInv
  <2>3. ~Held(job, kept[i].bytes)
    <3> DEFINE h == HealthAfter(kept[i].bytes)
               b == BaseHealth(job)
    <3>1. h # None /\ h > b
      BY <2>2 DEF Improved
    <3>2. h \in 0 .. 100 \cup {None} /\ b \in 0 .. 100
      BY HealthRange
    <3> HIDE DEF h, b
    <3>3. h # b
      BY <3>1, <3>2
    <3> QED BY <3>3 DEF Held, h, b
  <2>4. i \notin 1 .. Len(kept) - 1
    BY <2>3 DEF SelectedInv
  <2>5. Len(kept) \in Nat /\ i = Len(kept)
    BY <1>3, <2>4
  <2> QED BY <2>1, <2>5 DEF LastKept
<1>5. CASE s \notin Tried
  <2>1. s \in todo
    BY <1>1, <1>5
  <2>2. Tried = {}
    BY <1>1, <1>5, <2>1 DEF PassesInv
  <2>3. Passes = 0
    BY <2>2, FS_EmptySet DEF PassesInv
  <2>4. StopReason
    BY <2>1 DEF PassesInv
  <2>5. kept # << >>
    BY <2>3, <2>4 DEF StopReason, MAX_PASSES
  <2>6. LastKept.by \in Tried
    BY <2>5, KeptIsSelected
  <2> QED BY <2>2, <2>6
<1> QED BY <1>4, <1>5
=============================================================================
