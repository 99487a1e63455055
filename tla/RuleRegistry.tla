---------------------------- MODULE RuleRegistry ----------------------------
(***************************************************************************)
(* The classifier's rule registry (corruption/rules.rs).  A rule fixes the *)
(* category and the severity of every corruption recorded under it, so a   *)
(* corruption is represented by its rule id alone; its wording, its field  *)
(* name and its kind of evidence are left out.                             *)
(***************************************************************************)

Rows(category, severity, ids) ==
  {[id |-> id, category |-> category, severity |-> severity] : id \in ids}

\* The registry, a definition per section of RULES.
ZipRules ==
  Rows("StructuralCorruption", "Catastrophic", {"ZIP_EOCD_001", "ZIP_CD_001",
                                                "ZIP_COMP_001"})
  \cup Rows("StructuralCorruption", "Major", {"ZIP_EOCD_002", "ZIP_EOCD_003",
                                              "ZIP_CD_002", "ZIP_LFH_001",
                                              "ZIP_SIZE_001", "ZIP_Z64_001"})
  \cup Rows("MissingData", "Major", {"ZIP_CD_003", "ZIP_LFH_002"})
  \cup Rows("ChecksumMismatch", "Minor", {"ZIP_CRC_001"})
  \cup Rows("ChecksumMismatch", "Major", {"ZIP_CRC_002"})
  \cup Rows("Truncation", "Major", {"ZIP_SIZE_002", "ZIP_TRUNC_002"})
  \cup Rows("Truncation", "Minor", {"ZIP_TRUNC_001"})
  \cup Rows("Truncation", "Catastrophic", {"ZIP_TRUNC_003", "ZIP_TRUNC_004",
                                           "ZIP_COMP_002"})
  \cup Rows("BitFlip", "Minor", {"ZIP_FLIP_001"})
  \cup Rows("BitFlip", "Major", {"ZIP_FLIP_002", "ZIP_FLIP_003"})
  \cup Rows("StructuralCorruption", "Minor", {"ZIP_EXTRA_001"})

TarRules ==
  Rows("StructuralCorruption", "Major", {"TAR_UST_001", "TAR_SIZE_001",
                                         "TAR_GNU_001", "TAR_SPARSE_001"})
  \cup Rows("StructuralCorruption", "Minor", {"TAR_UST_002", "TAR_TERM_001"})
  \cup Rows("PaddingMismatch", "Benign", {"TAR_TERM_002"})
  \cup Rows("MissingData", "Major", {"TAR_SIZE_002"})
  \cup Rows("BlockReorder", "Major", {"TAR_BLOCK_001"})
  \cup Rows("Truncation", "Minor", {"TAR_TRUNC_001"})
  \cup Rows("Truncation", "Major", {"TAR_TRUNC_002"})
  \cup Rows("Truncation", "Catastrophic", {"TAR_TRUNC_003"})
  \cup Rows("BitFlip", "Minor", {"TAR_FLIP_001"})
  \cup Rows("BitFlip", "Major", {"TAR_FLIP_002"})
  \cup Rows("StructuralCorruption", "Catastrophic", {"TAR_COMP_001"})

IsoRules ==
  Rows("StructuralCorruption", "Catastrophic", {"ISO_PVD_001"})
  \cup Rows("StructuralCorruption", "Major", {"ISO_PVD_002", "ISO_SVD_001",
                                              "ISO_PT_002", "ISO_DIR_001"})
  \cup Rows("MissingData", "Major", {"ISO_PT_001", "ISO_DIR_002",
                                     "ISO_SECTOR_002"})
  \cup Rows("BitFlip", "Minor", {"ISO_SECTOR_001"})
  \cup Rows("Truncation", "Major", {"ISO_TRUNC_001"})
  \cup Rows("Truncation", "Catastrophic", {"ISO_TRUNC_002", "ISO_TRUNC_003"})

GzipRules ==
  Rows("StructuralCorruption", "Catastrophic", {"GZ_MAGIC_001"})
  \cup Rows("StructuralCorruption", "Major", {"GZ_CM_001"})
  \cup Rows("ChecksumMismatch", "Minor", {"GZ_HCRC_001"})
  \cup Rows("ChecksumMismatch", "Major", {"GZ_ICRC_001"})
  \cup Rows("StructuralCorruption", "Minor", {"GZ_ISIZE_001", "GZ_EXTRA_001"})
  \cup Rows("Truncation", "Major", {"GZ_TRUNC_001"})
  \cup Rows("Truncation", "Catastrophic", {"GZ_TRUNC_002"})
  \cup Rows("BitFlip", "Major", {"GZ_FLIP_001"})

PdfRules ==
  Rows("StructuralCorruption", "Catastrophic", {"PDF_HDR_001",
                                                "PDF_COMP_001"})
  \cup Rows("StructuralCorruption", "Minor", {"PDF_HDR_002"})
  \cup Rows("StructuralCorruption", "Major", {"PDF_EOF_001", "PDF_XREF_001",
                                              "PDF_XREF_003", "PDF_OBJ_001"})
  \cup Rows("MissingData", "Major", {"PDF_XREF_002", "PDF_OBJ_002"})
  \cup Rows("Truncation", "Minor", {"PDF_TRUNC_001"})
  \cup Rows("Truncation", "Major", {"PDF_TRUNC_002"})
  \cup Rows("Truncation", "Catastrophic", {"PDF_TRUNC_003"})
  \cup Rows("BitFlip", "Minor", {"PDF_FLIP_001"})
  \cup Rows("BitFlip", "Major", {"PDF_FLIP_002"})

SqliteRules ==
  Rows("StructuralCorruption", "Catastrophic", {"SQ_MAGIC_001",
                                                "SQ_PGSIZE_001",
                                                "SQ_COMP_001"})
  \cup Rows("StructuralCorruption", "Major", {"SQ_PGSIZE_002", "SQ_FC_001",
                                              "SQ_BTREE_001", "SQ_BTREE_002",
                                              "SQ_FREE_002", "SQ_WAL_002"})
  \cup Rows("MissingData", "Major", {"SQ_BTREE_003"})
  \cup Rows("StructuralCorruption", "Minor", {"SQ_FREE_001", "SQ_WAL_001"})
  \cup Rows("Truncation", "Major", {"SQ_TRUNC_001"})
  \cup Rows("Truncation", "Catastrophic", {"SQ_TRUNC_002"})
  \cup Rows("BitFlip", "Minor", {"SQ_FLIP_001"})
  \cup Rows("BitFlip", "Major", {"SQ_FLIP_002"})

StreamRules ==
  Rows("StructuralCorruption", "Catastrophic", {"RAR_MAGIC_001",
                                                "7Z_MAGIC_001",
                                                "BZ2_MAGIC_001",
                                                "XZ_MAGIC_001",
                                                "ZST_MAGIC_001",
                                                "LZ4_MAGIC_001"})
  \cup Rows("ChecksumMismatch", "Major", {"RAR_CRC_001", "7Z_CRC_001",
                                          "BZ2_CRC_001", "XZ_CRC_001",
                                          "ZST_CRC_001", "LZ4_CRC_001"})
  \cup Rows("Truncation", "Catastrophic", {"7Z_TRUNC_001"})

CrossFormatRules ==
  Rows("ChecksumMismatch", "Major", {"INTEGRITY_HASH_001"})
  \cup Rows("Truncation", "Major", {"GEN_TRUNC_001"})
  \cup Rows("BitFlip", "Minor", {"GEN_FLIP_001"})
  \cup Rows("MissingData", "Major", {"GEN_MISSING_001"})
  \cup Rows("StructuralCorruption", "Major", {"GEN_STRUCT_001"})
  \cup Rows("BlockReorder", "Major", {"GEN_REORDER_001"})

ThreatRules ==
  Rows("SecurityThreat", "Catastrophic", {"SEC_BOMB_RATIO_001",
                                          "SEC_BOMB_OUTPUT_001",
                                          "SEC_BOMB_OVERLAP_001",
                                          "SEC_CYCLE_001"})
  \cup Rows("SecurityThreat", "Major", {"SEC_DEPTH_001", "SEC_ENTRIES_001",
                                        "SEC_TRAVERSAL_001",
                                        "SEC_SYMLINK_001",
                                        "SEC_PARSER_TIMEOUT_001"})

Rules == ZipRules \cup TarRules \cup IsoRules \cup GzipRules \cup PdfRules
           \cup SqliteRules \cup StreamRules \cup CrossFormatRules \cup ThreatRules

RuleIds == {r.id : r \in Rules}

RuleOf == [id \in RuleIds |-> CHOOSE r \in Rules : r.id = id]

InCategory(category) == {r.id : r \in {q \in Rules : q.category = category}}

Structural   == InCategory("StructuralCorruption")
Missing      == InCategory("MissingData")
Truncated    == InCategory("Truncation")
Flipped      == InCategory("BitFlip")
Reordered    == InCategory("BlockReorder")
Catastrophic == {r.id : r \in {q \in Rules : q.severity = "Catastrophic"}}

\* The rule families the strategies match with starts_with.
ZipEocdRules   == {"ZIP_EOCD_001", "ZIP_EOCD_002", "ZIP_EOCD_003"}
ZipCdRules     == {"ZIP_CD_001", "ZIP_CD_002", "ZIP_CD_003"}
ZipLfhRules    == {"ZIP_LFH_001", "ZIP_LFH_002"}
TarBlockRules  == {"TAR_BLOCK_001"}
IsoSectorRules == {"ISO_SECTOR_001", "ISO_SECTOR_002"}
=============================================================================
