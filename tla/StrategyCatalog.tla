--------------------------- MODULE StrategyCatalog ---------------------------
(***************************************************************************)
(* The sixteen recovery strategies (phx_recovery/src/strategies) as the    *)
(* engine sees them before it applies one: the order they are registered   *)
(* in, the trust their output deserves, their priority, whether their      *)
(* output may be kept without an improvement, which analyses they apply to *)
(* and which corruptions they plan to repair.                              *)
(***************************************************************************)
EXTENDS RuleRegistry, Integers

\* all_strategies(): the registration order.
AllStrategies ==
  << "bitflip", "zip-rebuild", "zip-crc-fix", "tar-checksum-fix",
     "tar-terminator-append", "tar-size-resync", "tar-reorder",
     "gz-magic-restore", "gz-trailer-recompute", "gz-member-salvage",
     "gz-partial-inflate", "sevenz-signature-restore",
     "tar-continuation-salvage", "iso-sector", "partial-extract",
     "forensic-carve" >>

Strategies == {AllStrategies[i] : i \in DOMAIN AllStrategies}

Formats == {"Zip", "Tar", "Gzip", "SevenZ", "Iso9660", "Other", "Raw"}

\* What a strategy says of itself.  formats and applies are can_apply: the
\* format must be one of the first and a rule of the second must be found.
\* handles: the rules it plans a repair for.
Profile(risk, priority, formats, applies, handles) ==
  [risk |-> risk, priority |-> priority, formats |-> formats, applies |-> applies,
   handles |-> handles]

\* One profile per implementation of RecoveryStrategy.
BitFlipCorrection == Profile("Inferred", 90, Formats, Flipped, Flipped)

ZipCentralDirectoryRebuild ==
  Profile("Safe", 80, {"Zip"}, Structural \cup ZipCdRules \cup ZipEocdRules \cup ZipLfhRules,
          ZipEocdRules \cup ZipCdRules \cup ZipLfhRules)

ZipCrcFix == Profile("Safe", 75, {"Zip"}, {"ZIP_CRC_001"}, {"ZIP_CRC_001"})

TarChecksumFix == Profile("Safe", 85, {"Tar"}, {"TAR_UST_001"}, {"TAR_UST_001"})

TarTerminatorAppend ==
  Profile("Safe", 88, {"Tar"}, {"TAR_TERM_001"} \cup Truncated, {"TAR_TERM_001"})

TarSizeBoundaryResync ==
  Profile("Inferred", 78, {"Tar"}, {"TAR_SIZE_001", "TAR_UST_001"} \cup Structural,
          {"TAR_SIZE_001"} \cup Structural)

TarBlockReorder == Profile("Safe", 80, {"Tar"}, Reordered, TarBlockRules)

GzMagicRestore == Profile("Safe", 85, {"Gzip"}, {"GZ_MAGIC_001"}, {"GZ_MAGIC_001"})

GzTrailerRecompute ==
  Profile("Inferred", 82, {"Gzip"}, {"GZ_ICRC_001", "GZ_ISIZE_001"},
          {"GZ_ICRC_001", "GZ_ISIZE_001"})

GzMemberSalvage ==
  Profile("Lossy", 84, {"Gzip"}, RuleIds,
          {"GZ_TRUNC_001", "GZ_TRUNC_002", "GZ_ICRC_001", "GZ_ISIZE_001"})

GzPartialInflate ==
  Profile("Lossy", 40, {"Gzip"}, Truncated \cup {"GZ_TRUNC_001", "GZ_TRUNC_002"},
          {"GZ_TRUNC_001", "GZ_TRUNC_002"})

SevenZSignatureRestore ==
  Profile("Safe", 85, {"SevenZ"}, {"7Z_MAGIC_001"}, {"7Z_MAGIC_001"})

TarContinuationSalvage ==
  Profile("Lossy", 45, {"Tar"}, RuleIds, {"TAR_UST_001", "TAR_TERM_001"})

IsoSectorReconstruction == Profile("Lossy", 70, {"Iso9660"}, Missing, IsoSectorRules)

PartialExtraction == Profile("Lossy", 30, Formats, Truncated, Truncated)

ForensicCarving == Profile("Lossy", 10, {"Raw"}, Catastrophic, {})

ProfileOf ==
  [s \in Strategies |->
     CASE s = "bitflip"                  -> BitFlipCorrection
       [] s = "zip-rebuild"              -> ZipCentralDirectoryRebuild
       [] s = "zip-crc-fix"              -> ZipCrcFix
       [] s = "tar-checksum-fix"         -> TarChecksumFix
       [] s = "tar-terminator-append"    -> TarTerminatorAppend
       [] s = "tar-size-resync"          -> TarSizeBoundaryResync
       [] s = "tar-reorder"              -> TarBlockReorder
       [] s = "gz-magic-restore"         -> GzMagicRestore
       [] s = "gz-trailer-recompute"     -> GzTrailerRecompute
       [] s = "gz-member-salvage"        -> GzMemberSalvage
       [] s = "gz-partial-inflate"       -> GzPartialInflate
       [] s = "sevenz-signature-restore" -> SevenZSignatureRestore
       [] s = "tar-continuation-salvage" -> TarContinuationSalvage
       [] s = "iso-sector"               -> IsoSectorReconstruction
       [] s = "partial-extract"          -> PartialExtraction
       [] s = "forensic-carve"           -> ForensicCarving]

Risk == [s \in Strategies |-> ProfileOf[s].risk]

\* report_is_terminal: readable-bytes strategies whose output is kept even when
\* it only holds health steady.
Terminal == {"partial-extract", "forensic-carve", "zip-rebuild",
             "gz-member-salvage", "tar-continuation-salvage"}

\* Strategies whose apply stages the source bytes unchanged.
Verbatim == {"bitflip", "tar-reorder", "iso-sector", "partial-extract"}

\* The stable sort by descending priority that selection ends with.
Before(s, t) ==
  \/ ProfileOf[s].priority > ProfileOf[t].priority
  \/ /\ ProfileOf[s].priority = ProfileOf[t].priority
     /\ \E i, j \in DOMAIN AllStrategies :
          i < j /\ AllStrategies[i] = s /\ AllStrategies[j] = t

\* can_apply.  Bit flips are only confirmed against a manifest, and carving is
\* also for a source in which nothing is wrong.
CanApply(s, format, found, manifest_present) ==
  /\ format \in ProfileOf[s].formats
  /\ s = "bitflip" => manifest_present
  /\ found \cap ProfileOf[s].applies # {} \/ (s = "forensic-carve" /\ found = {})

\* plan: the rules the strategy would repair, each under its technique and risk.
Plan(s, found) ==
  {[rule |-> r, by |-> s, risk |-> Risk[s]] : r \in found \cap ProfileOf[s].handles}

\* A strategy whose technique writes a new central directory.
RebuildsDirectory(s) == s = "zip-rebuild"
=============================================================================
