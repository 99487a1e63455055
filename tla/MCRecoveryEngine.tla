-------------------------- MODULE MCRecoveryEngine --------------------------
(***************************************************************************)
(* A small world of archives for the recovery engine.  A blob's name says  *)
(* what it is; every source is damaged in a way the detector reports with  *)
(* the rules given, and every strategy that applies to it has the outputs  *)
(* its code can stage for such a source.                                   *)
(***************************************************************************)
EXTENDS RecoveryProperties, TLC

World ==
  {"zip", "zip no eocd", "zip short cd", "zip short cd, crc fixed", "zip bad size",
   "zip bad crc", "zip rebuilt", "zip secret no eocd", "zip secret", "tar cut",
   "tar cut, ended", "tar cut, summed", "tar resynced", "tar salvaged",
   "gz bad trailer", "gz refitted", "gz salvaged", "iso bad table", "iso lost sector",
   "iso", "raw", "raw carved"}

Sees(format, found) ==
  [format |-> format, named |-> found, anon |-> found, locked |-> FALSE,
   directory |-> IF format = "Zip" THEN "survives" ELSE "absent"]

SeenTable ==
  [b \in World |->
     CASE b = "zip no eocd"      -> [Sees("Zip", <<"ZIP_EOCD_001">>) EXCEPT !.directory = "absent"]
       [] b = "zip short cd"     -> Sees("Zip", <<"ZIP_CD_003", "ZIP_CRC_001">>)
       [] b = "zip short cd, crc fixed" -> Sees("Zip", <<"ZIP_CD_003">>)
       [] b = "zip bad size"     -> Sees("Zip", <<"ZIP_SIZE_001">>)
       [] b = "zip bad crc"      -> Sees("Zip", <<"ZIP_CRC_001">>)
       [] b \in {"zip", "zip rebuilt"} -> Sees("Zip", << >>)
       [] b = "zip secret no eocd" -> [Sees("Zip", <<"ZIP_EOCD_001">>) EXCEPT !.directory = "absent"]
       [] b = "zip secret"       -> [Sees("Zip", << >>) EXCEPT !.locked = TRUE]
       [] b = "tar cut"          -> Sees("Tar", <<"TAR_UST_001", "TAR_TRUNC_002">>)
       [] b = "tar cut, ended"   -> Sees("Tar", <<"TAR_UST_001">>)
       [] b = "tar cut, summed"  -> Sees("Tar", <<"TAR_TRUNC_002">>)
       [] b \in {"tar resynced", "tar salvaged"} -> Sees("Tar", << >>)
       [] b = "gz bad trailer"   -> Sees("Gzip", <<"GZ_ICRC_001">>)
       [] b \in {"gz refitted", "gz salvaged"} -> Sees("Gzip", << >>)
       [] b = "iso bad table"    -> Sees("Iso9660", <<"ISO_PT_001">>)
       [] b \in {"iso", "iso lost sector"} -> Sees("Iso9660", << >>)
       [] b \in {"raw", "raw carved"} -> Sees("Raw", << >>)]

\* A rebuilt directory is longer than a cut one, a salvage is shorter.
SizeTable == [b \in World |-> CASE b = "zip rebuilt" -> 4
                               [] b \in {"tar salvaged", "gz salvaged", "raw carved"} -> 2
                               [] OTHER -> 3]

Stages(b)       == [bytes |-> b, recovered |-> SizeTable[b], lost |-> 0]
Salvages(b)     == [bytes |-> b, recovered |-> SizeTable[b], lost |-> 1]
StagesNothing   == [bytes |-> NoBytes, recovered |-> 0, lost |-> 0]

StagedTable ==
  [s \in Strategies |-> [b \in World |->
     CASE s \in Verbatim -> {Stages(b)}
       [] s = "zip-rebuild" /\ b \in {"zip no eocd", "zip short cd", "zip bad size", "zip"}
            -> {Stages("zip rebuilt"), StagesNothing}
       [] s = "zip-rebuild" /\ b = "zip secret no eocd" -> {Stages("zip secret")}
       [] s = "zip-crc-fix" /\ b = "zip short cd" -> {Stages("zip short cd, crc fixed"), StagesNothing}
       [] s = "zip-crc-fix" /\ b = "zip bad crc"  -> {Stages("zip"), StagesNothing}
       [] s = "tar-terminator-append" /\ b = "tar cut"    -> {Stages("tar cut, ended")}
       [] s = "tar-checksum-fix" /\ b = "tar cut"         -> {Stages("tar cut, summed"), Stages("tar cut")}
       [] s = "tar-size-resync" /\ b = "tar cut"          -> {Stages("tar resynced"), StagesNothing}
       [] s = "tar-continuation-salvage" /\ b = "tar cut" -> {Salvages("tar salvaged"), StagesNothing}
       [] s = "gz-member-salvage" /\ b = "gz bad trailer" -> {Salvages("gz salvaged"), StagesNothing}
       [] s = "gz-trailer-recompute" /\ b = "gz bad trailer" -> {Stages("gz refitted")}
       [] s = "forensic-carve" /\ b = "raw" -> {Salvages("raw carved"), StagesNothing}
       [] OTHER -> {StagesNothing}]]

\* The sources, each with the content its hash sidecar can name.
Cases ==
  {[src |-> c[1], ref |-> c[2]] : c \in
     ({"zip", "zip no eocd", "zip short cd", "zip bad size", "zip bad crc"} \X {NoBytes, "zip"})
     \cup ({"zip secret no eocd", "zip secret"} \X {NoBytes, "zip secret"})
     \cup ({"tar cut"} \X {NoBytes, "tar resynced"})
     \cup ({"gz bad trailer"} \X {NoBytes, "gz refitted", "gz bad trailer"})
     \cup ({"iso bad table"} \X {NoBytes, "iso"})
     \cup ({"raw"} \X {NoBytes, "raw", "raw carved"})}

Request(c, caller) ==
  [caller |-> caller, src |-> c.src, found |-> SeenTable[c.src].named, ref |-> c.ref,
   listed |-> c.ref # NoBytes, hash_agrees |-> TRUE, output |-> TRUE,
   same_path |-> FALSE, forced |-> "auto", aggressive |-> FALSE, dry_run |-> FALSE,
   write_manifest |-> TRUE]

CliJobs    == {[Request(c, "cli") EXCEPT !.output = o]
                 : c \in Cases, o \in BOOLEAN}
StreamJobs == {[Request(c, "stream") EXCEPT !.aggressive = a]
                 : c \in {d \in Cases : d.ref = NoBytes}, a \in BOOLEAN}
ApiJobs    == {[Request(c, "api") EXCEPT !.aggressive = a, !.dry_run = d, !.write_manifest = m]
                 : c \in Cases, a \in BOOLEAN, d \in BOOLEAN, m \in BOOLEAN}

\* Library calls at the edges: a forced strategy, an unknown one, a source path
\* that is also the output path, a hash type the reference was not made with, a
\* sidecar that does not list the file, a diff against a known-good copy.
OddJobs ==
  {[Request([src |-> "zip", ref |-> NoBytes], "api") EXCEPT !.forced = "zip-rebuild"],
   [Request([src |-> "raw", ref |-> NoBytes], "api") EXCEPT !.forced = "forensic-carve"],
   [Request([src |-> "raw", ref |-> NoBytes], "api") EXCEPT !.forced = "unknown"],
   [Request([src |-> "zip no eocd", ref |-> NoBytes], "api") EXCEPT !.same_path = TRUE],
   [Request([src |-> "zip bad crc", ref |-> "zip"], "api") EXCEPT !.hash_agrees = FALSE],
   [Request([src |-> "tar cut", ref |-> NoBytes], "api") EXCEPT !.listed = TRUE],
   [Request([src |-> "zip bad crc", ref |-> "zip"], "api") EXCEPT
       !.found = <<"ZIP_CRC_001", "ZIP_FLIP_001">>, !.aggressive = TRUE],
   [Request([src |-> "iso lost sector", ref |-> NoBytes], "api") EXCEPT
       !.found = <<"ISO_SECTOR_002">>],
   [Request([src |-> "raw", ref |-> NoBytes], "api") EXCEPT !.found = <<"GEN_TRUNC_001">>]}

Calls == CliJobs \cup StreamJobs \cup ApiJobs \cup OddJobs

\* The constants.  TLC computes a definition once when it is used by its own
\* name, and at every use when it stands for a constant: hence the two names.
MCBlobs  == World
MCSeen   == SeenTable
MCSizeOf == SizeTable
MCStaged == StagedTable
MCJobs   == Calls
=============================================================================
