----------------------------- MODULE HealthScore -----------------------------
(***************************************************************************)
(* Module 2 of the analyze engine: the health score of a list of           *)
(* corruptions (health/scorer.rs, health/weights.rs, model/health.rs).     *)
(* Every corruption takes its rule's points off the subscores its rule is  *)
(* routed to; the overall score weighs the three subscores 0.4/0.4/0.2.    *)
(***************************************************************************)
EXTENDS RuleRegistry, Integers, Sequences, FiniteSets

Subscores == {"structural", "data", "metadata"}

\* The calibrated table RULE_PENALTIES, by points and routing.
HitAll(points, rules) == {[rule |-> r, points |-> points, hits |-> Subscores] : r \in rules}
HitSD(points, rules)  == {[rule |-> r, points |-> points, hits |-> {"structural", "data"}] : r \in rules}
HitS(points, rules)   == {[rule |-> r, points |-> points, hits |-> {"structural"}] : r \in rules}
HitD(points, rules)   == {[rule |-> r, points |-> points, hits |-> {"data"}] : r \in rules}

RulePenalties ==
  HitAll(85, {"ZIP_EOCD_001", "ZIP_CD_001", "ZIP_TRUNC_004", "TAR_TRUNC_003",
              "ISO_PVD_001", "GZ_MAGIC_001", "PDF_HDR_001", "SQ_MAGIC_001",
              "SQ_PGSIZE_001", "RAR_MAGIC_001", "7Z_MAGIC_001", "BZ2_MAGIC_001",
              "XZ_MAGIC_001", "ZST_MAGIC_001", "LZ4_MAGIC_001"})
  \cup HitAll(75, {"SQ_TRUNC_002"})
  \cup HitAll(70, {"SQ_COMP_001"})
  \cup HitAll(68, {"ZIP_TRUNC_003", "ISO_TRUNC_002"})
  \cup HitAll(63, {"ZIP_EOCD_002", "ZIP_EOCD_003", "ISO_PT_001"})
  \cup HitAll(40, {"TAR_SIZE_002"})
  \cup HitSD(56, {"ZIP_CD_003", "ZIP_LFH_001", "ZIP_SIZE_001", "ZIP_Z64_001",
                  "TAR_GNU_001", "ISO_SECTOR_002", "GZ_ICRC_001",
                  "GZ_FLIP_001"})
  \cup HitSD(50, {"7Z_TRUNC_001"})
  \cup HitSD(44, {"ZIP_CD_002", "ZIP_CRC_002", "ZIP_TRUNC_002", "ZIP_FLIP_003",
                  "TAR_SIZE_001", "TAR_BLOCK_001", "TAR_TRUNC_002",
                  "TAR_FLIP_002", "ISO_SVD_001", "ISO_DIR_001", "ISO_TRUNC_001",
                  "PDF_XREF_001", "SQ_BTREE_001", "SQ_TRUNC_001",
                  "GEN_TRUNC_001", "GEN_MISSING_001", "GEN_STRUCT_001"})
  \cup HitSD(40, {"ZIP_FLIP_002"})
  \cup HitSD(30, {"PDF_EOF_001", "SQ_PGSIZE_002", "SQ_BTREE_002"})
  \cup HitSD(25, {"TAR_UST_001", "SQ_FLIP_002"})
  \cup HitSD(22, {"ZIP_EXTRA_001"})
  \cup HitSD(20, {"SQ_BTREE_003", "SQ_FREE_002"})
  \cup HitSD(13, {"ZIP_TRUNC_001", "TAR_TRUNC_001"})
  \cup HitS(15, {"SQ_WAL_002"})
  \cup HitS(10, {"SQ_FC_001", "SQ_WAL_001"})
  \cup HitD(20, {"INTEGRITY_HASH_001"})
  \cup HitD(15, {"GZ_ISIZE_001", "SQ_FREE_001"})
  \cup HitD(10, {"ZIP_CRC_001", "ZIP_FLIP_001", "TAR_TERM_001", "TAR_FLIP_001",
                 "ISO_SECTOR_001", "SQ_FLIP_001", "GEN_FLIP_001"})

\* Severity default, for a rule the table does not list.
DefaultPoints(sev) ==
  CASE sev = "Benign" -> 0 [] sev = "Minor" -> 10
    [] sev = "Major" -> 25 [] sev = "Catastrophic" -> 50

\* Category routing of a default penalty.
Route(cat) ==
  CASE cat \in {"StructuralCorruption", "BlockReorder", "PaddingMismatch"} -> {"structural"}
    [] cat \in {"BitFlip", "ChecksumMismatch", "MissingData"}              -> {"data"}
    [] cat = "Truncation"     -> {"structural", "data"}
    [] cat = "SecurityThreat" -> Subscores

DefaultPenalty(rule) ==
  [rule   |-> rule.id,
   points |-> DefaultPoints(rule.severity),
   hits   |-> IF rule.severity = "Catastrophic" THEN Subscores ELSE Route(rule.category)]

PenaltyFor ==
  [id \in RuleIds |->
     IF \E p \in RulePenalties : p.rule = id
     THEN CHOOSE p \in RulePenalties : p.rule = id
     ELSE DefaultPenalty(RuleOf[id])]

\* Points a penalty takes off one subscore, and those of a list of them.
Taken(sub, penalty) == IF sub \in penalty.hits THEN penalty.points ELSE 0

Deducted(sub, penalties) ==
  LET total[i \in 0 .. Len(penalties)] ==
        IF i = 0 THEN 0 ELSE total[i - 1] + Taken(sub, penalties[i])
  IN  total[Len(penalties)]

\* (100 - points).clamp(0, 100): points are never negative.
Clamped(points) == IF points \in 0..100 THEN 100 - points ELSE 0

\* round(0.4 s + 0.4 d + 0.2 m): the weighted sum is a multiple of 1/5, so
\* rounding to nearest never meets a tie.
Overall(s, d, m) == (2 * (2 * s + 2 * d + m) + 5) \div 10

HealthOf(penalties) == Overall(Clamped(Deducted("structural", penalties)),
                               Clamped(Deducted("data", penalties)),
                               Clamped(Deducted("metadata", penalties)))

\* The health of a list of corruptions.
Score(found) == HealthOf([i \in DOMAIN found |-> PenaltyFor[found[i]]])
=============================================================================
