------------------------------ MODULE ZipParse ------------------------------
(***************************************************************************)
(* parse_zip_with_policy (opc_zip.rs) and the loop of                      *)
(* recover_verified_entries_to (mobile_zip.rs) that emits what it found:   *)
(* the directory is located, its records are pointed at their headers, a   *)
(* scan of all local headers is merged with them one candidate at a time,  *)
(* and the entries are handed to a sink one by one.                        *)
(***************************************************************************)
EXTENDS ZipDirectory, TLC

CONSTANTS Jobs,          \* damaged files, with the provenance the caller claims
          NameRank,      \* the order of names
          MaxEntries, MaxEntryBytes, MaxTotalBytes   \* MobileZipLimits

ASSUME JobsAssumption == \A j \in Jobs : IsFile(j.file)

ASSUME LimitsAssumption == MaxEntries \in Nat /\ MaxEntryBytes \in Nat /\ MaxTotalBytes \in Nat

VARIABLES
  job, phase,
  containers,            \* ContainerOwnershipMap
  declared,              \* entry count of the end record, -1 without one
  horizon,               \* cd_region_start, the end of the file without one
  entries, found,
  enumerates,            \* cd_count_consistent
  pending,               \* scanned headers still to be merged
  claimed, taken,        \* byte ranges and header offsets that are accounted for
  rejected,
  conflicts,             \* fields in which a record and its header disagree
  todo, names, total, emitted, skipped, sinkFailed

parseVars == <<containers, declared, horizon, entries, found, enumerates>>
mergeVars == <<pending, claimed, taken, rejected, conflicts>>
emitVars  == <<todo, names, total, emitted, skipped, sinkFailed>>
vars      == <<job, phase, parseVars, mergeVars, emitVars>>

Init ==
  /\ job \in Jobs /\ phase = "containers"
  /\ containers = {} /\ declared = -1 /\ horizon = Len(job.file)
  /\ entries = << >> /\ found = FALSE /\ enumerates = FALSE
  /\ pending = {} /\ claimed = {} /\ taken = {} /\ rejected = {} /\ conflicts = {}
  /\ todo = << >> /\ names = {} /\ total = 0 /\ emitted = << >> /\ skipped = << >>
  /\ sinkFailed = FALSE

-----------------------------------------------------------------------------
\* The directory.

\* Ownership is settled before anything else.
FindContainers ==
  /\ phase = "containers"
  /\ containers' = Containers(job.file)
  /\ phase' = "directory"
  /\ UNCHANGED <<job, declared, horizon, entries, found, enumerates, mergeVars, emitVars>>

\* Mutant: only where the end record says.
DirectoryStartStored(f, e) == f[e + 1].off

\* Where the end record e says the directory is, or where its size says so when
\* there is no record at that place.
DirectoryStart(f, e) ==
  LET bySize == e - f[e + 1].size
  IN  IF Kind(f, f[e + 1].off) # "central" /\ Kind(f, bySize) = "central"
      THEN bySize ELSE f[e + 1].off

DirectoryPast(f, e, start) ==
  IF start + f[e + 1].size > Len(f) THEN Len(f) ELSE start + f[e + 1].size

\* Mutant: it is not asked whose directory it is.
ReadDirectoryOfAny ==
  /\ phase = "directory"
  /\ LET f     == job.file
         e     == FindEocd(f)
         start == DirectoryStart(f, e)
         past  == DirectoryPast(f, e, start)
         there == HasEnd(f) /\ start < past
     IN  /\ declared' = IF HasEnd(f) THEN f[e + 1].total ELSE -1
         /\ horizon' = IF there THEN start ELSE horizon
         /\ entries' = IF there THEN WalkDirectory(f, start, past) ELSE << >>
         /\ found' = (entries' # << >>)
  /\ phase' = IF entries' = << >> THEN "surviving" ELSE "repoint"
  /\ UNCHANGED <<job, containers, enumerates, mergeVars, emitVars>>

\* A directory inside a container is not this archive's.
ReadDirectory ==
  /\ phase = "directory"
  /\ LET f     == job.file
         e     == FindEocd(f)
         start == DirectoryStart(f, e)
         past  == DirectoryPast(f, e, start)
         there == HasEnd(f) /\ ~Owned(containers, start) /\ start < past
     IN  /\ declared' = IF HasEnd(f) THEN f[e + 1].total ELSE -1
         /\ horizon' = IF there THEN start ELSE horizon
         /\ entries' = IF there THEN WalkDirectory(f, start, past) ELSE << >>
         /\ found' = (entries' # << >>)
  /\ phase' = IF entries' = << >> THEN "surviving" ELSE "repoint"
  /\ UNCHANGED <<job, containers, enumerates, mergeVars, emitVars>>

\* No record: a chain that survived a cut at the head, unless it is a container's.
AdoptSurviving ==
  /\ phase = "surviving"
  /\ \E start \in SurvivingChains(job.file) :
       /\ ~Owned(containers, start)
       /\ \E delta \in Deltas(job.file, start) :
            entries' = Shifted(WalkDirectory(job.file, start, ChainEnd(job.file, start)), delta)
       /\ horizon' = start
  /\ found' = TRUE
  /\ phase' = "repoint"
  /\ UNCHANGED <<job, containers, declared, enumerates, mergeVars, emitVars>>

NoSurvivor ==
  /\ phase = "surviving"
  /\ \A start \in SurvivingChains(job.file) : Owned(containers, start)
  /\ phase' = "decide"
  /\ UNCHANGED <<job, parseVars, mergeVars, emitVars>>

\* Directory reconciliation.
Repoint ==
  /\ phase = "repoint"
  /\ LET f     == job.file
         index == IndexedHeaders(f)
         K     == InferredMap(Observations(f, index, entries))
     IN  entries' = [i \in DOMAIN entries |-> Repointed(f, index, K, entries[i])]
  /\ phase' = "decide"
  /\ UNCHANGED <<job, containers, declared, horizon, found, enumerates, mergeVars, emitVars>>

-----------------------------------------------------------------------------
\* Does the scan run?

Ranges(f, es) == {RangeIn(f, es[i]) : i \in DOMAIN es} \ {NoRange}

\* There is room for a header (30 bytes: one cell that is not short, or two) before
\* the directory, or before the last entry, that no record accounts for.
Unaccounted(f, ranges, past) ==
  {o \in 0 .. Len(f) - 1 : /\ o < past \/ \E r \in ranges : o < r[1]
                           /\ \A r \in ranges : ~Within(o, r)}

UnaccountedGap(f, ranges, past) ==
  LET gap == Unaccounted(f, ranges, past)
  IN  \E o \in gap : ~Short(f, o) \/ o + 1 \in gap

\* cd_complete.
Complete(f, es, count, past) ==
  /\ es # << >> /\ count = Len(es)
  /\ \A i \in DOMAIN es : HasLocal(f, es[i].off)
  /\ ~UnaccountedGap(f, Ranges(f, es), past)

\* What reconcile_cd_and_scan takes as claimed before it looks at a candidate: the
\* ranges of the records; for a record without one, from its offset to the next
\* record's; and everything before the first record if one was cut away.
NextDeclared(es, o, past) ==
  LET later == {es[i].off : i \in DOMAIN es} \ ({Gone} \cup 0 .. o)
  IN  IF later = {} THEN past ELSE Smallest(later)

\* Mutant: the end of a declared region is not compared with its start.
ClaimedByRecordsUnordered(f, es, past) ==
  Ranges(f, es)
    \cup {<<es[i].off, NextDeclared(es, es[i].off, past)>> : i \in
           {j \in DOMAIN es : es[j].off # Gone /\ RangeIn(f, es[j]) = NoRange}}

ClaimedByRecords(f, es, past) ==
  LET offs == {es[i].off : i \in DOMAIN es}
      here == offs \ {Gone}
  IN  Ranges(f, es)
        \cup {<<es[i].off, NextDeclared(es, es[i].off, past)>> : i \in
               {j \in DOMAIN es : /\ es[j].off # Gone /\ RangeIn(f, es[j]) = NoRange
                                  /\ NextDeclared(es, es[j].off, past) > es[j].off}}
        \cup {<<0, Smallest(here)>> : x \in
               {y \in {1} : Gone \in offs /\ here # {} /\ Smallest(here) > 0}}

\* Disagreements of a record with the header it points at; a streamed member's header
\* has no size and no checksum.
Conflicts(f, es) ==
  {c \in {es[i].off : i \in DOMAIN es} \X {"crc32", "comp_size", "method"} :
     /\ HasLocal(f, c[1])
     /\ \E i \in DOMAIN es :
          LET e == es[i]
              h == f[c[1] + 1].meta
          IN  /\ e.off = c[1]
              /\ \/ c[2] = "crc32" /\ ~e.streamed /\ h.crc \notin {e.crc, << >>}
                 \/ c[2] = "comp_size" /\ ~e.streamed /\ h.csize \notin {e.csize, 0}
                 \/ c[2] = "method" /\ h.method # e.method}

Directly ==
  /\ phase = "decide"
  /\ Complete(job.file, entries, declared, horizon)
  /\ enumerates' = TRUE
  /\ phase' = "emit" /\ todo' = entries
  /\ UNCHANGED <<job, containers, declared, horizon, entries, found, mergeVars,
                 names, total, emitted, skipped, sinkFailed>>

\* The entries whose header is no container's, in their order.
Unowned(es) ==
  LET own == {i \in DOMAIN es : ~Owned(containers, es[i].off)}
  IN  [k \in 1 .. Cardinality(own) |-> es[Nth(k, own)]]

\* Mutant: whatever was read of a directory passes for all of it.
StartMergeUncounted ==
  /\ phase = "decide"
  /\ ~Complete(job.file, entries, declared, horizon)
  /\ enumerates' = found
  /\ claimed' = ClaimedByRecords(job.file, entries, horizon)
  /\ taken' = {entries[i].off : i \in DOMAIN entries}
  /\ rejected' = {<<entries[i].off, "nested_container">> : i \in
                    {j \in DOMAIN entries : Owned(containers, entries[j].off)}}
  /\ entries' = Unowned(entries)
  /\ conflicts' = Conflicts(job.file, entries)
  /\ pending' = ScannedHeaders(job.file)
  /\ phase' = "merge"
  /\ UNCHANGED <<job, containers, declared, horizon, found, emitVars>>

\* Records that point into a container are dropped.
StartMerge ==
  /\ phase = "decide"
  /\ ~Complete(job.file, entries, declared, horizon)
  /\ enumerates' = (found /\ declared = Len(entries))
  /\ claimed' = ClaimedByRecords(job.file, entries, horizon)
  /\ taken' = {entries[i].off : i \in DOMAIN entries}
  /\ rejected' = {<<entries[i].off, "nested_container">> : i \in
                    {j \in DOMAIN entries : Owned(containers, entries[j].off)}}
  /\ entries' = Unowned(entries)
  /\ conflicts' = Conflicts(job.file, entries)
  /\ pending' = ScannedHeaders(job.file)
  /\ phase' = "merge"
  /\ UNCHANGED <<job, containers, declared, horizon, found, emitVars>>

-----------------------------------------------------------------------------
\* The merge: candidates in the order of the file.

Candidate(o) == phase = "merge" /\ o \in pending /\ \A p \in pending : o <= p

\* Mutant: nobody asks which archive the header belongs to.
RefusalWithoutOwner(o, range) ==
  IF o \in taken THEN "described"
  ELSE IF range = NoRange THEN "candidate_rejected"
  ELSE IF \E r \in claimed : Within(o, r) THEN "nested_signature"
  ELSE IF \E r \in claimed : Overlapping(range, r) THEN "range_overlap"
  ELSE "none"

\* Mutant: only the place of the header is compared with the claimed ranges.
RefusalWithoutOverlap(o, range) ==
  IF Owned(containers, o) THEN "nested_container"
  ELSE IF o \in taken THEN "described"
  ELSE IF range = NoRange THEN "candidate_rejected"
  ELSE IF \E r \in claimed : Within(o, r) THEN "nested_signature"
  ELSE "none"

\* Why the candidate at o is refused; "described" by a record is no refusal.
Refusal(o, range) ==
  IF Owned(containers, o) THEN "nested_container"
  ELSE IF o \in taken THEN "described"
  ELSE IF range = NoRange THEN "candidate_rejected"
  ELSE IF \E r \in claimed : Within(o, r) THEN "nested_signature"
  ELSE IF \E r \in claimed : Overlapping(range, r) THEN "range_overlap"
  ELSE "none"

Accept ==
  /\ Len(entries) < MaxCandidates
  /\ \E o \in pending :
       LET range == LenientRange(job.file, o)
       IN  /\ Candidate(o) /\ Refusal(o, range) = "none"
           /\ pending' = pending \ {o}
           /\ taken' = taken \cup {o}
           /\ claimed' = claimed \cup {range}
           /\ entries' = Append(entries, Scanned(job.file, o))
  /\ UNCHANGED <<job, phase, containers, declared, horizon, found, enumerates, rejected, conflicts, emitVars>>

Refuse ==
  /\ Len(entries) < MaxCandidates
  /\ \E o \in pending :
       LET why == Refusal(o, LenientRange(job.file, o))
       IN  /\ Candidate(o) /\ why # "none"
           /\ pending' = pending \ {o}
           /\ rejected' = IF why = "described" THEN rejected ELSE rejected \cup {<<o, why>>}
  /\ UNCHANGED <<job, phase, parseVars, claimed, taken, conflicts, emitVars>>

Before(a, b) == a.off < b.off \/ (a.off = b.off /\ NameRank[a.name] < NameRank[b.name])

\* The stable sort that ends the merge, as the order it puts the entries in.
Sorts(order, es) ==
  /\ order \in [DOMAIN es -> DOMAIN es] /\ \A i \in DOMAIN es : \E k \in DOMAIN es : order[k] = i
  /\ \A i, j \in DOMAIN es :
       i < j => \/ Before(es[order[i]], es[order[j]])
                \/ ~Before(es[order[j]], es[order[i]]) /\ order[i] < order[j]

FinishMerge ==
  /\ phase = "merge"
  /\ pending = {} \/ Len(entries) >= MaxCandidates
  /\ \E order \in {o \in Permutations(DOMAIN entries) : Sorts(o, entries)} :
       entries' = [k \in DOMAIN entries |-> entries[order[k]]]
  /\ todo' = entries'
  /\ pending' = {} /\ phase' = "emit"
  /\ UNCHANGED <<job, containers, declared, horizon, found, enumerates,
                 claimed, taken, rejected, conflicts, names, total, emitted, skipped, sinkFailed>>

-----------------------------------------------------------------------------
\* Emission.

\* safe_relative_path and to_lowercase: parts without the empty ones, in lower case.
Lower(part) == CASE part = "A" -> "a" [] part = "B" -> "b" [] OTHER -> part

SafePath(name) == SelectSeq(name, LAMBDA part : part # "")

Unsafe(name) ==
  \/ name[1] = "" \/ SafePath(name) = << >>
  \/ \E i \in DOMAIN name : name[i] \in {".", "..", "c:"}

PathKey(name) == LET path == SafePath(name) IN [i \in DOMAIN path |-> Lower(path[i])]

\* CdProvenance.
Attests(provenance) == provenance \in {"original_surviving", "external_attested"}

Attested(e) == e.central /\ Attests(job.provenance)

\* Mutant: the silence of a complete directory is not heard.
AbstentionDeaf(e, x) ==
  CASE ~e.utf8 -> "invalid_utf8_path"
    [] e.utf8 /\ e.name[Len(e.name)] = "" -> "directory"
    [] OTHER ->
       IF Unsafe(e.name) THEN "unsafe_path"
       ELSE IF PathKey(e.name) \in names THEN "duplicate_path"
       ELSE IF e.usize > MaxEntryBytes THEN "entry_limit"
       ELSE IF x.status # "verified" THEN x.status
       ELSE IF x.bytes = << >> /\ ~Attested(e) THEN "zero_length_unattested"
       ELSE IF Len(x.bytes) > MaxEntryBytes \/ total + Len(x.bytes) > MaxTotalBytes THEN "total_limit"
       ELSE "none"

\* Mutant: paths are compared as they are written.
AbstentionCased(e, x) ==
  CASE ~e.utf8 -> "invalid_utf8_path"
    [] e.utf8 /\ e.name[Len(e.name)] = "" -> "directory"
    [] OTHER ->
       IF Unsafe(e.name) THEN "unsafe_path"
       ELSE IF SafePath(e.name) \in names THEN "duplicate_path"
       ELSE IF e.usize > MaxEntryBytes THEN "entry_limit"
       ELSE IF x.status # "verified" THEN x.status
       ELSE IF ~Attested(e) /\ enumerates /\ Attests(job.provenance) THEN "unattested"
       ELSE IF x.bytes = << >> /\ ~Attested(e) THEN "zero_length_unattested"
       ELSE IF Len(x.bytes) > MaxEntryBytes \/ total + Len(x.bytes) > MaxTotalBytes THEN "total_limit"
       ELSE "none"

\* The first check that an entry fails.
Abstention(e, x) ==
  CASE ~e.utf8 -> "invalid_utf8_path"
    [] e.utf8 /\ e.name[Len(e.name)] = "" -> "directory"
    [] OTHER ->
       IF Unsafe(e.name) THEN "unsafe_path"
       ELSE IF PathKey(e.name) \in names THEN "duplicate_path"
       ELSE IF e.usize > MaxEntryBytes THEN "entry_limit"
       ELSE IF x.status # "verified" THEN x.status
       ELSE IF ~Attested(e) /\ enumerates /\ Attests(job.provenance) THEN "unattested"
       ELSE IF x.bytes = << >> /\ ~Attested(e) THEN "zero_length_unattested"
       ELSE IF Len(x.bytes) > MaxEntryBytes \/ total + Len(x.bytes) > MaxTotalBytes THEN "total_limit"
       ELSE "none"

Emitting == phase = "emit" /\ todo # << >> /\ Len(entries) - Len(todo) < MaxEntries

Emit ==
  /\ Emitting
  /\ LET e == Head(todo)
         x == Extracted(job.file, e)
     IN  /\ Abstention(e, x) = "none"
         /\ names' = names \cup {PathKey(e.name)}
         /\ total' = total + Len(x.bytes)
         /\ \/ /\ emitted' = Append(emitted, [path |-> SafePath(e.name), bytes |-> x.bytes,
                                              entry |-> e])
               /\ todo' = Tail(todo) /\ UNCHANGED <<phase, sinkFailed>>
            \/ /\ sinkFailed' = TRUE /\ phase' = "done" /\ UNCHANGED <<emitted, todo>>
  /\ UNCHANGED <<job, parseVars, mergeVars, skipped>>

\* A path is taken from the moment it is looked at, whatever becomes of the entry.
Skip ==
  /\ Emitting
  /\ LET e   == Head(todo)
         why == Abstention(e, Extracted(job.file, e))
     IN  /\ why # "none"
         /\ skipped' = Append(skipped, [name |-> e.name, why |-> why])
         /\ names' = IF why \in {"invalid_utf8_path", "directory", "unsafe_path"}
                     THEN names ELSE names \cup {PathKey(e.name)}
  /\ todo' = Tail(todo)
  /\ UNCHANGED <<job, phase, parseVars, mergeVars, total, emitted, sinkFailed>>

Finish ==
  /\ phase = "emit" /\ ~Emitting
  /\ skipped' = IF Len(entries) > MaxEntries
                THEN Append(skipped, [name |-> << >>, why |-> "entry_count_limit"]) ELSE skipped
  /\ phase' = "done"
  /\ UNCHANGED <<job, parseVars, mergeVars, todo, names, total, emitted, sinkFailed>>

\* Nothing more happens: every other state has a next step.
Terminated == phase = "done" /\ UNCHANGED vars

-----------------------------------------------------------------------------
Next ==
  \/ FindContainers \/ ReadDirectory \/ AdoptSurviving \/ NoSurvivor \/ Repoint
  \/ Directly \/ StartMerge \/ Accept \/ Refuse \/ FinishMerge
  \/ Emit \/ Skip \/ Finish \/ Terminated

Spec == Init /\ [][Next]_vars
=============================================================================
