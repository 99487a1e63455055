# A TLA+ model of veraqis-recover

`veraqis-recover` repairs damaged archives: it analyses a file, selects repair
strategies for what it found, applies them to the unmodified source one by one,
keeps an output only if a gate lets it through, and writes the kept output with
a manifest that says how far it can be trusted. This directory models that
pipeline in TLA+, checks it with TLC on small instances, and proves its
safety properties with TLAPS for every instance.

## 1. Inventory

| Part | Code | State it keeps | Operations |
|---|---|---|---|
| Command line | `veraqis_recover/src/main.rs` | none | list the findings, or recover and print the outcome; exit code |
| Recovery engine | `phx_recovery/src/engine.rs`, `model.rs` | per run: selected strategies, `PassOutcome`, aggregate `RecoveryReport`; on disk: `<name>.recovered` | `recover`, `recover_stream`, `select`, `run_passes`, `verify`, `reanalyze_health`, `commit`, `write_manifest` |
| Manifest | `phx_recovery/src/manifest.rs` | `<name>.recovered.phxr.json` | `RepairManifest::build`, guarantees per repair, byte triad, provenance of a ZIP directory |
| Strategies | `phx_recovery/src/strategies/*`, `resync/*` | none: source in, staged bytes out | `can_apply`, `priority`, `risk`, `plan`, `apply` |
| Rule registry, classifier | `phx_analyze_engine/src/corruption/{rules,classifier}.rs` | constant tables | `rule`, `classify` |
| Health score | `phx_analyze_engine/src/health/*`, `model/health.rs` | constant tables | `penalty_for`, `route`, `score` |
| Readers and detector | `phx_analyze_engine/src/reader/*`, `corruption/detector.rs` | none | `parse`, `zip_defects`, `tar_defects`, ... |
| Analysis pipeline | `phx_analyze_engine/src/engine.rs`, `pipeline/*`, `integrity/*` | none | format detection, hash against a sidecar manifest, findings, score |
| Format identification | `phx_format_id/src/lib.rs` | constant table of signatures | `identify`, `from_extension`, `agreement` |
| ZIP core | `phx_zip_core/src/*` | during a parse: embedded archives, directory records, scanned headers, claimed ranges; during an extraction: taken paths, byte totals | `parse_zip_with_policy`, `reconcile_cd_and_scan`, `extract_entry`, `recover_verified_entries_to` |
| Evidence and checksums | `phx_recovery/src/{evidence,crc}` | none | verdicts per member |
| Corpus generator, test utilities | `phx_test_utils` | - | test data |

How the parts interact: everything is a synchronous call in one process. The
command line (or a library caller, or `recover_stream`) calls the analysis, then
the engine; the engine asks every strategy of `all_strategies()` whether it
applies, sorts them, and for each of at most `MAX_PASSES` calls `apply` with the
source and a fresh sink, then calls the *analysis again* on the sink's bytes. The
only state that outlives a call is the two files; two calls on one path share
them, and so do a call that died and the one that follows it.

What is hard in this code, and hard to test:

* the order of strategies, the gate, the stop rule and `MAX_PASSES` together
  decide which output is published; the report accumulates over passes while the
  outcome is overwritten;
* every file access can fail, a write is in place and not atomic, a kill can fall
  between the two files or inside a write, and the next run meets what is left;
* the gate compares two health scores which are computed under different
  conditions (file name, hash sidecar);
* a repair that fits metadata to damaged data makes damage undetectable;
* readers and repairs walk the same structure by different rules, and each must
  cope with what the other leaves;
* a ZIP says everything twice, in a directory and in local headers, and may contain
  another ZIP: which of the two to believe, and which archive a header belongs to, is
  decided by a chain of guards each of which is the only one to catch some case;
* gzip members are found by a three-byte magic that may also stand in a member's data.

Correctness of the parts, as stated below: what is published is justified by the
gate and described truthfully (engine, manifest); nothing is written that was not
asked for; every call returns; repairs neither hide payload damage nor lose what
could be read (ZIP, TAR, gzip); damage of the simplest kinds is undone; the ZIP core
hands out only files the archive vouches for, and all that are intact; a lost
signature is noticed, and restored only where a checksum proves it.

The full list of components, with what is left out and why, and the list of
hazards with their source lines, are in `PROJECT.json`.

## 2. Modules

```
RuleRegistry <- HealthScore  \
RuleRegistry <- StrategyCatalog -> RecoveryEngine <- RecoveryProperties
                                                      |  INSTANCE RecoveryContract
                                                      |- MCRecoveryEngine
              ZipArchive <- ZipRepair -> ZipRecovery -+- MCZipRecovery
              TarArchive <- TarRepair -> TarRecovery -+- MCTarRecovery
           GzipStream <- GzipRepair -> GzipRecovery --+- MCGzipRecovery
FormatIdentity <- FileDefects <- SignatureRepair -> SignatureRecovery - MCSignatureRecovery

ZipCells <- ZipContainer <- ZipDirectory <- ZipParse <- ZipRecovered <- MCZipParse

RecoveryProperties <- RecoveryEngineProofs <- RecoveryPassesProofs \
                                                HealthScore <- FoldProofs <- ZipRecoveryProofs
                                                                             TarRecoveryProofs
                                                                             GzipRecoveryProofs
                                                                             SignatureRecoveryProofs
                                         ZipRecovered <- ZipParseProofs -> FoldProofs
```

* `RuleRegistry`: the 117 rules, each with category and severity. A corruption is
  its rule id.
* `HealthScore`: the penalty table, the severity defaults and their routing, the
  three clamped subscores and the weighted, rounded overall score, in integers.
* `StrategyCatalog`: the sixteen strategies as the engine sees them before it
  applies one: registration order, risk, priority, `can_apply`, the rules they
  plan repairs for, which are terminal, which copy the source verbatim.
* `RecoveryEngine`: the run itself. `pc` is where the call is; `todo`, `outcome`,
  `report` are the variables of `run_passes`; `kept` is a history of what the gate
  kept; `output` and `sidecar` are the two files (`Torn`: a write that failed or
  died half-way); `emitted` is what `recover_stream` returned. One action per
  step that can be told apart from outside, because it touches a file, can fail,
  or can be followed by a kill: `AnalysisFails`/`Analyze`, `OpenFails`/`Open`,
  `UnknownStrategy`/`Select`, `PassFails`, `RollBack`/`KeepOutput`, `EndPasses`,
  `FinishWithoutWriting`, `FinishStream`, `Commit`/`CommitFails`,
  `WriteManifest`/`ManifestFails`, `Panics` where a strategy stages nothing at all
  (an empty `Staged`), and `Crash` at every point. File contents are opaque:
  what the analyzer says of a blob (`Seen`) and what a strategy may stage for a
  source (`Staged`, a set: any one of several outputs) are constants, so that the theorems hold for
  every analyzer and every repair.
* `RecoveryContract`: the abstract specification, what a caller may rely on without
  knowing of strategies: a request is pending, the artifact may be replaced once
  by a justified content or be torn, and the request is answered.
* `RecoveryProperties`: the engine's properties, the refinement mapping, and the
  claims of the documentation that the code does not keep.
* `ZipArchive`, `ZipRepair`, `ZipRecovery`: ZIP archives as records of local
  headers, directory entries and end record; `zip_defects`; `zip-rebuild` and
  `zip-crc-fix`; the engine with `Seen` and `Staged` computed by them.
* `TarArchive`, `TarRepair`, `TarRecovery`: TAR archives as sequences of 512-byte
  blocks with sizes in half blocks; the reader's walk and `tar_defects`;
  `tar-checksum-fix`, `tar-terminator-append`, `tar-size-resync`,
  `tar-continuation-salvage`; the engine with them.
* `GzipStream`, `GzipRepair`, `GzipRecovery`: gzip files as sequences of cells of a
  header's ten or of eight bytes; `gz_defects`; `gz-magic-restore`, `gz-trailer-recompute`,
  `gz-partial-inflate`, `gz-member-salvage` with its resynchronisation and its stored
  blocks; the engine with them.
* `FormatIdentity`: the table of signatures in its order, anchored at the start or the
  end of a file, the extensions, the agreement of the two, and `detect`, for which the
  name settles what the bytes leave open. `FileDefects`: the detector for 7z, RAR, PDF,
  compressed streams, ISO images and SQLite databases. `SignatureRepair`:
  `sevenz-signature-restore` and `forensic-carve`. `SignatureRecovery`: the engine with them.
* `ZipCells`: a ZIP file as a sequence of cells (header, payload, directory record, end
  record, junk), what a reader finds at an offset, extraction and its verdict.
  `ZipContainer`: validated embedded archives and whose an offset is. `ZipDirectory`:
  the walk of a directory, a surviving chain, the index of headers and the piecewise
  offset map. `ZipParse`: the parse and the emission as a state machine: `FindContainers`,
  `ReadDirectory`, `AdoptSurviving`/`NoSurvivor`, `Repoint`, `Directly`/`StartMerge`, one
  `Accept` or `Refuse` per scanned header, `FinishMerge`, one `Emit` or `Skip` per entry
  (a sink can fail), `Finish`. `ZipRecovered`: what that owes to the archive the file was.
* `*Proofs`: the theorems and the lemmas they rest on; section 4.
* `MC*`: the instances.

Definitions whose comment starts with "Mutant" are variants with a plausible bug.
They are used by no specification; each property is known to fail when one of
them takes the place of the definition it stands before.

Abstractions worth knowing: a hash or a CRC-32 is the content it is the checksum
of (no collisions); the source does not change during a run; one run at a time on
a path; wording, names, timestamps and byte offsets that no decision depends on
are left out. In ZIP archives a size field is told apart by where it leads, and a
size that leads into a later member is left out. In TAR archives ordinary data is
never a header with a valid checksum, but a payload may contain real headers (an
archive in the archive). In gzip files damage, cuts and removals fall on cells; garbage
and cells out of order do not inflate, a damaged cell inflates to a wrong one or fails,
a stream that was cut is an error, and content may itself be a gzip file. In the ZIP
core's files lengths are counted in cells and the policy's byte limits are those of the
emission only (`MaxEntries`, `MaxEntryBytes`, `MaxTotalBytes`); a scan is never cut short.
In the signature model distances are scaled down (the TAR stamp is in cell 3, the ISO
descriptor in cell 4, a footer is the last cell), the first cell is never cut, ordinary
data contains no signature, and the b-tree on a database's first page is sound.

## 3. Runs

| Run | What it shows |
|---|---|
| `engine_safety` | Two runs in a row on one path, from the command line, the library and a stream, over ZIP, TAR, gzip, ISO and raw sources with and without a reference hash, dry, aggressive, forced, with every I/O error and a kill at every point. The engine implements `RecoveryContract`, and every call returns or dies. |
| `zip_repair` | The engine with the ZIP detector and repairs on five archives (stored, deflated, streamed, streamed with sizes, mixtures) damaged in up to two places. |
| `tar_repair` | The engine with the TAR detector and repairs on three archives (two files; an archive in a file; a file with a hole and an empty file after a zero block) damaged in up to two places: a field of a header, a zeroed or a missing block, a cut at or inside a block. |
| `zip_parse` | The ZIP core, from bytes to emitted files, on six archives (stored, deflated and empty members; streamed members; an archive in a member; names that clash; members refused for their name, method or lock; members beyond the limits) struck anywhere by a cut, an insertion, an overwrite or a changed field, and once more by a cut or a planted header, with both kinds of provenance and small limits. |
| `gzip_repair` | The engine with the gzip detector and repairs on seven files of one to three members (optional fields, stored blocks, a gzip file in a gzip file) struck up to twice: magic, method, a header that claims too few or too many optional fields, wrong or undecodable data, trailers, cuts, lost and inserted cells. |
| `signature_repair` | The engine with format detection and the signature formats' detectors on files of twelve formats under right, wrong and unknown names, struck up to twice: wiped cells, astray pointers, wrong versions and fields, cuts at and inside a cell, a lost beginning; with either repair forced by a library caller. |
| `doc_*` | One claim of the documentation each that the code does not keep; see section 6. Two of them are narrowed to the case they are about: `doc_RebuiltIsNeverOriginal` to command line runs on archives whose only finding is `ZIP_SIZE_001` (`MCMismatchedJobs`), `doc_DirectoryWins` to an intact archive with one header planted in front of it (`MCPreceded`). |

Bounds. `MaxRuns = 2` in the engine runs: the second run starts from whatever files
the first can leave, torn and half-updated ones included; no step reads the files of
an earlier run, and the theorems cover any number of runs. `MAX_PASSES` is the code's 3 and there are sources with four applicable
strategies, so the limit is met. Two places of damage are the fewest that let two
repairs compete and that let damage hide other damage; archives have up to three
members, since a member lost in the middle, one before and one after it are what the
resynchronising walks tell apart. The repair runs use `MaxRuns = 1`: what a run leaves to the next one is the
subject of `engine_safety`. Deadlock is not checked: after `MaxRuns` calls the system is done.

Fairness. `WF_vars(Step)`: a call that can take its next step takes one. The code
is sequential and waits for nothing but the file system, whose failures are steps.
No fairness is assumed of callers (`Invoke`) or of kills (`Crash`).

Properties of the engine: `PublishedIsJustified` (what is published is the last
kept output, and verified or not less healthy than the source; an Inferred repair
only if verified), `SuccessMeansArtifact`, `BestKeptUnlessAggressive`,
`StopsForAReason`, `ManifestIsBacked`, `StreamIsFaithful`, the action properties
`WritesAreEarned` (among others: nothing is written while strategies may still run, so an
error in a later pass leaves no trace) and `SidecarFollowsOutput`, the liveness property
`EveryRunReturns` and the refinement `ImplementsContract`. Of ZIP:
`DamageStaysDetectable` (payloads are never touched, and where damage shows in the source it
shows in the output), `RebuiltDirectoryResolves`, `DirectoryDamageIsRecovered`,
`HelpIsLostToTheClampOnly` (a repair that takes findings away and adds none is rolled back only
where a subscore was overdrawn, so that clamping hides the help; on the instance it does happen).
Of TAR: `SalvageIsExact`, `NoReadableMemberIsLost`, `FieldDamageIsUndone`.
Of gzip: `SalvageIsProven` and `NoProvenMemberIsLost` (a salvage holds exactly what its
own checksum proves, and no published file costs a proven member), `FittedChecksumsAreFlagged`
(a checksum fitted to wrong bytes is never vouched for), `MagicDamageIsUndone`,
`PartialKeepsThePrefix`, `CleanMeansProven`. Of files with a signature:
`SignatureIsRestored`, `RestoreIsProven`, `LostSignatureIsReported`, `CutIsReported`,
`CarvingIsExact`. Of the ZIP core: `AttestedIsGenuine` (an entry a record vouches for is a
member of the archive that was, byte for byte), `ForeignStaysOut`, `IntactMembersSurvive`,
`PartIsNotAll` (a directory read from the middle on never counts as complete), `InnerStaysInner` (no member of an archive inside comes out as one of the archive around
it), `ScanOnlyIsDisjoint`, `EmissionIsBacked`, and the action property
`RepointingKeepsOrder` (re-pointed records keep the order they had in the directory).

The premises of these properties are the limits of what the code promises. They were found
where a proof for every file, or TLC, met a file for which the property without them is
false:

* gzip: the outermost proven members (`Outermost`) are those that begin inside no other
  outermost one; a proven member is one whose trailer is that of what it inflates to.
  `NoProvenMemberIsLost` asks of a reference, if there is one, that it has the members too:
  whatever matches the reference is kept. `FittedChecksumsAreFlagged` supposes that the checksums in the source are
  older than the damage. `CleanMeansProven` supposes that the first stream runs
  up to the last eight bytes: of two members the detector compares the content of the first with the
  trailer of the last, and bytes between a stream and the trailer are not looked at.
* TAR: `NoReadableMemberIsLost` supposes that a header inside the data of a member
  leads no further than that data (`InnerHeadersStayInside`), and of a reference what
  gzip supposes. `FieldDamageIsUndone` leaves out a file that ends in zero blocks of its last
  payload, which `tar-terminator-append` takes for a terminator (tar_repair.rs:124-125).
* ZIP core: `AttestedIsGenuine` supposes that damage gave no record another name or
  checksum (`RecordsAreTrue`). An archive inside a member counts for `InnerStaysInner` when it is
  whole and holds no further archive (`IsArchive`). `DirectoryThere`: the directory is whole at the end of
  the file (`DirectoryWhole`), has 1 to `MaxRecords` members, no archive inside takes it for its
  comment, and the end record leads to its first record or, being stale, to none. An end record that
  leads to a later record is what `PartIsNotAll` is about: the part that is read must not
  speak for the whole, but `IntactMembersSurvive` promises nothing then. A member is
  `Intact` when a scan comes to its header, no other header has its path, no archive inside
  owns it, and its record leads to it or can be pointed at it (`Explained`). On the
  instance the last two follow from the others.
* carving: of a clean source the carved bytes have no findings, unless they are a TAR or a gzip
  file: those have models of their own and `FileDefects` finds nothing in them, so
  `CarvingIsExact` does not speak of them.

## 4. Proofs

What is proved holds for every value of the constants: every set of contents, analysis,
request and limit, files and archives of any length, and any number of runs.

| Module | Theorems (property) |
|---|---|
| `RecoveryEngineProofs` | `TypeCorrect` (`TypeOK`), `JustifiedTheorem` (`PublishedIsJustified`), `SuccessTheorem` (`SuccessMeansArtifact`), `BestKeptTheorem` (`BestKeptUnlessAggressive`), `ManifestTheorem` (`ManifestIsBacked`), `StreamTheorem` (`StreamIsFaithful`), and the action properties `WritesTheorem` (`WritesAreEarned`), `SidecarTheorem` (`SidecarFollowsOutput`); `ContractTheorem`: the engine's initial states are the contract's, and each of its steps is a step of the contract or leaves what the contract speaks of alone |
| `RecoveryPassesProofs` | `StopTheorem` (`StopsForAReason`) |
| `ZipRecoveryProofs` | `DamageTheorem` (`DamageStaysDetectable`), `RebuiltTheorem` (`RebuiltDirectoryResolves`), `DirectoryTheorem` (`DirectoryDamageIsRecovered`) |
| `TarRecoveryProofs` | `SalvageTheorem` (`SalvageIsExact`), `TarMembersTheorem` (`NoReadableMemberIsLost`), `FieldTheorem` (`FieldDamageIsUndone`) |
| `GzipRecoveryProofs` | `SalvageProvenTheorem` (`SalvageIsProven`), `MembersTheorem` (`NoProvenMemberIsLost`), `FittedTheorem` (`FittedChecksumsAreFlagged`), `MagicTheorem` (`MagicDamageIsUndone`), `PartialTheorem` (`PartialKeepsThePrefix`), `CleanTheorem` (`CleanMeansProven`) |
| `SignatureRecoveryProofs` | `LostSignatureTheorem`, `CutTheorem`, `RestoreTheorem` (`RestoreIsProven`), `RestoredTheorem` (`SignatureIsRestored`), `CarvingTheorem`: all five properties of these files |
| `ZipParseProofs` | `TypeTheorem` (`TypeOK`), `DisjointTheorem` (`ScanOnlyIsDisjoint`), `EmissionTheorem` (`EmissionIsBacked`), `InnerTheorem` (`InnerStaysInner`), `AttestedTheorem` (`AttestedIsGenuine`), `ForeignTheorem` (`ForeignStaysOut`), `IntactTheorem` (`IntactMembersSurvive`), `PartTheorem` (`PartIsNotAll`), and the action property `RepointTheorem` (`RepointingKeepsOrder`) |
| `FoldProofs` | lemmas only: what the folds, the walks and the score compute |

Assumptions, all evaluated by TLC on the instances: `BlobsAssumption` (no content
is "no file" or "torn"), `SeenAssumption`, `StagedAssumption` (types; a verbatim
strategy stages the source), `JobsAssumption` (what the command line and streams
cannot ask for), `MaxRunsAssumption`. The engine's theorems say nothing of analyzer and
strategies beyond these. Those about contents add `ArchivesAssumption`,
`StreamsAssumption` and `FilesAssumption`: the contents are archives or files of the model, the analyzer is its
detector and the stagings are those of its repairs (`Seen`, `Staged` are then no longer
free); a rebuilt archive and a repaired file are told from an empty sink. `FilesAssumption` also says that a checksum proves what it covers: behind a
reference's signature, a Start Header is only found in a 7z archive. The ZIP core
assumes that its jobs are files shorter than 32 bits can say (`JobsAssumption`,
`Reach`), that the limits are numbers, and that the byte sequence for a broken name and
its replacement are among the parts of names (`PartsAssumption`). Its theorems about the archive
a file was assume of that archive, and of nothing in the file, that it was one
(`OriginalsAssumption`): the directory lists the members in their order, each with an offset of its
own, record and header of a member agree, and what can be read of it is read.

**The engine.** The properties are not inductive: they speak of a finished run and need
to know what was true at the passes. `SafetyInv` adds

* `TypeInv`: types, and a manifest is only written when something was kept;
* `KeptInv`: every kept output passed the gate, the outcome is the last of them
  and `success` says whether there is one;
* `RankInv`: without `aggressive`, the loop goes on only while every kept output is
  unverified and *exactly* as healthy as the source, which is why the latest kept
  output is the best one although the code never compares two;
* `ControlInv`: what has happened by the time the run is at a point of its code,
  and that a report that names a manifest was returned with that manifest on disk.

It is shown initial (`SafetyInit`) and preserved by each action (`SafetyNext`). The only
arithmetic fact needed of the score is that it is in `0..100` (`ScoreRange`).
A strategy that panics ends the run with nothing written; the theorems cover that step,
since `StagedAssumption` allows an empty set of outputs.

**The passes.** Three more invariants on top of `SafetyInv`. `PassesInv`: the strategies tried
are as many as the passes, come before those still to be tried, and once the loop is left
something is left to try only for a reason. `StagedInv`: the last kept output was staged by its
strategy *for this run's source*, with the counts the report gives. `SelectedInv`: what
was tried and what is left are the strategies selected; one that was rolled back staged
something the gate refuses, one that was kept staged what was kept, and all that was kept
before the last was only held, not decisive. `StagedInv` turns a lemma about what a repair makes of a
file into a theorem about what is published (`PublishedIsStaged`); `SelectedInv` and
`PassesInv` turn a lemma that the gate lets a repair through into a theorem that it is
published (`SelectedIsTried`, `KeptIsSelected`): if the strategy that is first in order always
improves on the source, a run that answers publishes what it stages (`FirstIsPublished`).
`PlansInv`, that the plans in the manifest are those of the strategy whose output stands, gives
`LossyVouchesForNothing`: the manifest of a Lossy repair that no reference confirms
calls every byte lost.

**ZIP repairs.** `zip-rebuild` copies a prefix of the local headers and writes a directory from
them; `zip-crc-fix` changes a checksum only if it then equals that of the payload and of the
other copy. Both leave payloads alone, and neither can make both copies agree with a
payload they contradicted (`DamageTheorem`). `ZipDefects` of a rebuilt archive is
evaluated for every walk: what may remain is `ZIP_CRC_001`, and `ZIP_CD_003` from 65536
members on, where the count of `zip_rebuild.rs:118` wraps (`RebuiltTheorem`). `DirectoryTheorem` takes the
score: where only the directory is damaged and there are members, fewer than 65536, the findings
take at least 56 points off structure and data, so the source scores at most 55; every local header is
walked, and what is left of the rebuilt archive are findings about data alone, which leave at
least 60. `zip-rebuild` comes first of the strategies selected, so `FirstIsPublished` applies. The
request must not force a strategy, and the findings must be the detector's and no others.

**TAR.** The reader and the salvage are walks from block to block, and they do not skip the same blocks.
`ReaderWalk` and `SalvagedFacts` make each an instance of `Walk` (below); of the salvage only
this is needed: it takes headers with the magic, the right checksum and all of their data, at
whatever places (`Members`). `PlacesExist` says where the members stand in what is put together of
them (`Placed`), and `StartsFollow`, from the end backwards, that behind every one there is
another or the terminator. That set of places (`Starts`) is not left by the reader, so all it reads is a proven
header, none is cut short, and the last place it comes to is the terminator
(`JoinedIsSound`): no defect is found, and each member read is one of the source, block for block
(`StartFacts`).

That nothing is lost is shown repair by repair. A checksum that is fixed, or a terminator
that is appended, changes neither where the reader's walk goes nor what is read before the end
(`SameReading`, `NoMoreReading`). `tar-size-resync` is Inferred and so only published as the
reference. The salvage comes to every proven member the reader came to, since under `InnerHeadersStayInside`
nothing it believes in front of one leads beyond it (`WalkMeets`).
`FieldTheorem` takes `WalkChain` as well: the checksum fix comes to every header of the reader
(`FixMeetsReader`), the last of them leads out of the file or to the zeros at its end
(`LastLeadsOut`), so the repaired archive has no finding and scores 100, which no
source with such a finding does (`UndoneIsKept`); the strategy for it comes first of those selected, so
`FirstIsPublished` applies.

**gzip.** The salvage is a walk that goes on past a proven member from its trailer, and past
anything else from the next magic. `WalkOrder` says that such a walk takes exactly the places that
could be taken and that it does not jump over; that is what makes a set outermost, and
there is only one such set, so the salvage takes exactly the outermost proven members and
`SalvagedPlain` is their content (`SalvageProvenTheorem`). What the strategies write, a
single member around some content, has no defect and that content as all there is to read
in it. `MembersTheorem` goes through the repairs: a restored magic leaves proven members where they
are, a salvage holds them, a recomputed trailer is only ever published as the reference
(Inferred), and partial inflation comes behind the salvage, which ends the run wherever there is
proven content, so it only gets its turn when there is none. `FittedTheorem` needs the same
facts and `LossyVouchesForNothing`. `MagicTheorem` takes the score: a file without its magic
scores at most 15, with it at least 20 whatever the trailer of several
members costs, and `gz-magic-restore` comes first, so `FirstIsPublished` applies. `CleanTheorem`:
without a finding the trailer at the end is that of what inflates in front of it, and the walk of
the salvage meets the same member.

**Files with a signature.** `LostSignatureTheorem` goes through the table of signatures: a name
that claims a format with a stamp leads to that format's detector, and each of the nine
detectors reports a missing stamp. `CutTheorem`: a 7z archive's pointer, or a database's count
of pages, still says where the file ended. `CarvingTheorem`: the regions between signatures,
put together, are the file from its first signature on, by `Joins` below. `RestoredTheorem`
is the only one that needs numbers: without its signature an archive scores at most 15,
with it at least 60, so the gate keeps the repair, and no other strategy is selected.

**Folds and the score** (`FoldProofs`). `FlattenSeq` and the deductions of a
subscore are recursive functions over a list. `LeastElement`, the well-ordering of the
naturals taken from the library, gives what an induction would: `Joins` says
when a sequence is the concatenation of a list of sequences step by step, and `FlattenJoins`
that `FlattenSeq` is; `FlattenPlaces` says where each piece stands in the whole, and `Totals` does the
same for sums. `Walk` is the shape of a walk through a file that always goes forward: there is one
(`WalkExists`), what it takes it was allowed to take and it goes on from each place as from the
first (`WalkFacts`), and a set that its steps do not leave has all it takes (`WalkWithin`). `WalkOrder`, `WalkChain` and
`WalkMeets` say which places a walk takes, when it takes them in a chain, and when it cannot miss
one. Of the score: a score is 100 for no finding,
less than 100 for any but `TAR_TERM_002` (`FullHealth`), at most 15 with a rule that
takes 85 points off everything, at most 55 where 56 points come off structure and data, at
least 60 for a single rule of at most 50 points that spares the metadata or for rules that touch
data only (`ScoreFacts`).

**The ZIP core.** `TypeInv` adds to the types that only directory records are entries until the merge,
and that only headers wait for it. `MergeInv`: during the merge the range of every entry
is claimed, and only what a record describes may have none; a candidate is accepted
only if its range is apart from all that is claimed. `EmitInv`: every path that was handed out is
taken, so no later one equals it, and each file passed extraction and limits.
`RepointTheorem` rests on lemmas about the offset map: its segments are
ordered and each shifts by one amount, so two records that move keep their order.

Three more invariants relate the state to the archive the file was.

* `BackedInv`: every entry is named by a record, or if the scan found it by a header, outside of every
  whole archive inside. Such an archive is among the containers that are found
  (`InnerIsContainer`); a walk over records begins outside and cannot enter, since an
  archive begins with a header; and the scan refuses what a container owns. With `EmitInv`
  this is `InnerTheorem`, and with the truth of the records `AttestedTheorem`.
* `ListedInv`: if the directory is there it is what the parse reads, all of it, so it
  enumerates, and every record is a member's. With `EmissionIsBacked`, which then lets only
  records through, this is `ForeignTheorem`.
* `SurvivesInv`: if the directory is there, the record of an intact member is pointed at its header, stays
  among the entries, and is handed out at its turn or held back by a limit or the sink. The index of
  headers reaches the header (`IndexReaches`, by `WalkExists`), so record and header are an
  observation of the offset map, and one that is kept, since it crosses no other
  (`IntactObserved`); its segment then maps the record to exactly that header
  (`IntactRepointed`). The merge drops no record and admits no header with
  the member's path, so when its turn comes the path is free and its bytes verify (`SameExtraction`).
* `PartInv`: under a whole directory the count of the end record is right, what is read starts at
  a record that no container owns, and a walk from there reads no more than lies before the end
  record (`WalkBound`); so the counts agree only if there was room for the whole directory, and
  `PartTheorem` follows.

Only model-checked: liveness (`EveryRunReturns`) and the fairness of the contract, which are out of
the prover's reach, and `HelpIsLostToTheClampOnly`, which compares the sums of two lists with the
number of times each rule occurs in them and so needs induction. Of `ImplementsContract`,
`ContractTheorem` proves the part about initial states
and steps. Every other property of a passing run is a theorem.

## 5. Not modelled

* The analysis pipeline beyond detection and detectors: the cap on findings, the security
  rules, the bit-flip diff against a known-good copy, the parsing of hash sidecars.
* Evidence grading, the CRC solver, the manifest's verdicts per entry, its signature and
  its JSON text.
* ZIP64 fields (an entry with them is refused), the byte limits of a ZIP scan, Android backups, the archive builder.
* RAR blocks, ISO directory records, labels of fields: nothing decides on them.
* The recoverability estimate (advisory), the generated JavaScript of the format table,
  the corpus generator (test data).
* Concurrent processes on one output path, and a source that changes during a run:
  the code takes no lock and no snapshot, so nothing is promised.
* Sizes and offsets of a rebuilt ZIP directory in 32 bits. The count in 16 bits is in the
  model (`Rebuilt`): out of reach of small instances, and covered by `RebuiltTheorem`.

## 6. Where code and documentation disagree

Each of these is a run whose property is the claim, and whose counterexample is in
`PROJECT.json` under `findings`:

* `doc_RebuiltIsNeverOriginal`: the directory record of a stored member has a wrong size, which is
  reported as `ZIP_SIZE_001` and selects `zip-rebuild`; the directory it writes is labelled
  `ORIGINAL_SURVIVING`, since there is no plan for that rule.
* `doc_RecoveredMembersCheck`: an archive is published as recovered although a
  member contradicts its own CRC-32.
* `doc_HealthIsOfTheArtifact`: `health_after` of an archive whose first signature is
  gone is that of a raw file.
* `doc_SafeInventsNothing`: the terminator appended to a truncated TAR is read as
  the missing data of its last member.
* `doc_DirectoryWins`: a stray header with a member's name and other bytes, in front of an intact
  archive, takes the member's path before it is judged and skipped as unattested; the confirmed
  record is then skipped as a duplicate. (With every archive of `zip_parse` TLC finds other
  instances first, such as two members whose names differ in letter case only.)
* `doc_SalvageNeverPanics`: a member header that claims optional fields beyond the next
  magic makes the gzip salvage slice backwards.

Met on the way, and not made a run of:

* an aggressive run can replace a verified output by a later one, and then reports and
  records byte counts of both; with a reference at hand an output that does not match it
  is committed all the same if its health is not worse;
* a genuine ZIP entry is still refused as unattested when its record's offset is stale and
  no shift of its neighbours explains it, although opc_zip.rs:364-371 tells that this
  was fixed; of two embedded archives with one base the narrower is kept, where
  zip_container.rs:172 says the widest; conflicts of record and header are only noted
  when the scan runs;
* an intact gzip file of several members is reported as damaged and rewritten as one
  member; `gz-partial-inflate` drops the last eight bytes of a file that was cut before
  its trailer; the bytes of a lost member can be counted twice (as partial inflate and as
  stored blocks);
* a TAR or ISO file that ends in a VHD, DMG or Macrium footer becomes Raw unless its name
  helps, since those rules come first, although format_detection.rs says that naming more
  formats "cannot change what this engine does with them"; `.odt` and `.ods` are ZIP
  names for the identification and not for the engine;
* an intact database of one page is reported as truncated, freelist and overflow pages as
  bad b-tree pages; one that declares no page count and is cut at a page boundary is
  not reported; findings about a write-ahead log vanish in a re-analysis; a 7z archive
  cut inside its first 32 bytes is called clean; an ISO image's declared size is never
  compared with its length; a cut in a RAR or a compressed stream is not seen;
* a source that fails its reference hash is charged `INTEGRITY_HASH_001`, its copy is
  not (`reanalyze_health` has no sidecar): an unchanged copy then counts as an improvement;
* strategies are applied to the unmodified source, so a TAR with a wrong checksum
  *and* no terminator gets one of the two repaired, and the run stops there;
* `tar-checksum-fix` takes a single zero block for the end of the archive, the reader
  does not; past a header that fails its checksum the salvage can take a header
  inside that member's data for a member and skip a real one after it
  (hence the premise `InnerHeadersStayInside`);
* `zip-rebuild`'s walk ends at the first streamed or unreadable header;
* the detector reports `ZIP_SIZE_001` for intact streamed entries and `ZIP_CD_001` for
  an intact empty archive;
* `forensic-carve` is never selected automatically; `aggressive` is still limited by
  `MAX_PASSES`; `gz-member-salvage` (Lossy) runs before `gz-trailer-recompute` and
  pre-empts a verified result.

## 7. Plan

Done: the engine with its contract, properties and proofs; ZIP, TAR, gzip and signature
repairs; the ZIP core; format detection and the detectors; the proofs of section 4. In
this order:

1. `Evidence`: the verdicts per entry of `engine.rs` and `manifest.rs` from independent
   checksums, on top of `ZipCells`.
2. `AnalyzePipeline`: the cap on findings, the hash stage, the reference diff; an abstract
   specification of "same content, same score", which today's re-analysis breaks.
