---------------------------- MODULE ZipRecovered ----------------------------
(***************************************************************************)
(* What the ZIP core owes to the archive that a damaged file once was.     *)
(*                                                                         *)
(* job.orig is that archive: its members (was), the cells of each (bodies),*)
(* its directory with the end record, and the cells of an archive that is  *)
(* stored in one of its members (inner, empty if there is none).           *)
(***************************************************************************)
EXTENDS ZipParse

Of(x) == [path |-> x.path, bytes |-> x.bytes]

Members == {[path |-> SafePath(job.orig.was[i].name), bytes |-> job.orig.was[i].bytes]
              : i \in DOMAIN job.orig.was}
Results == {Of(emitted[i]) : i \in DOMAIN emitted}

Done == phase = "done" /\ ~sinkFailed

OccursAt(cells, f, o) ==
  o + Len(cells) <= Len(f) /\ \A k \in 1 .. Len(cells) : f[o + k] = cells[k]

\* A member that the core promises to hand out: a file with a safe name, of a method
\* and without a lock that keeps it from being read.
Presentable(m) ==
  /\ ~NotUtf8(m.name) /\ m.name[Len(m.name)] # "" /\ ~Unsafe(m.name)
  /\ m.method \in {"stored", "deflated"} /\ m.lock = "none"

\* The cells b of a member m begin with its header; the record r of it agrees with the
\* header, whose checksum may be left to a descriptor, and finds what can be read of m.
IsBody(b, r, m) ==
  /\ Len(b) \in Nat \ {0} /\ b[1].kind = "local" /\ b[1].whole
  /\ b[1].meta.name = m.name /\ b[1].meta.method = r.meta.method
  /\ b[1].meta.crc \in {m.bytes, << >>}
  /\ Presentable(m) => Extracted(b, Entry(r.meta, 0, TRUE)).status = "verified"

\* The directory lists the members in their order, each once, and the end record
\* counts them.
IsOriginal(x) ==
  LET n == Len(x.was)
  IN  /\ n \in Nat /\ DOMAIN x.was = 1 .. n /\ Len(x.directory) = n + 1
      /\ \A i \in 1 .. n : /\ x.directory[i].kind = "central"
                           /\ x.directory[i].meta.name = x.was[i].name
                           /\ x.directory[i].meta.crc = x.was[i].bytes
                           /\ IsBody(x.bodies[i], x.directory[i], x.was[i])
      /\ \A i, j \in 1 .. n : x.directory[i].off = x.directory[j].off => i = j
      /\ x.directory[n + 1].kind = "end"
      /\ x.directory[n + 1].total = n /\ x.directory[n + 1].size = n

ASSUME OriginalsAssumption == \A j \in Jobs : IsOriginal(j.orig)

\* The directory is whole and ends the file.
FirstRecord == Len(job.file) - Len(job.orig.directory)

DirectoryWhole == FirstRecord >= 0 /\ OccursAt(job.orig.directory, job.file, FirstRecord)

\* It is also not empty or too long to be read, no archive inside claims it for its
\* comment, and the end record leads to its first record or, being stale, to no record
\* at all.  (PartIsNotAll is about an end record that leads to a later one.)
DirectoryThere ==
  LET f == job.file
  IN  /\ Len(job.orig.was) \in 1 .. MaxRecords
      /\ DirectoryWhole
      /\ ~Owned(Containers(f), FirstRecord)
      /\ Kind(f, f[Len(f)].off) = "central" => f[Len(f)].off = FirstRecord

\* An archive from a first header to an end record without a comment: its records
\* lead to headers of their names, and no other archive ends in it.
IsArchive(a) ==
  LET e == Len(a) - 1
  IN  /\ IsFile(a) /\ Ends(a) = {e} /\ HasLocal(a, 0)
      /\ a[e + 1].comment = 0 /\ a[e + 1].total = a[e + 1].size
      /\ a[e + 1].off = e - a[e + 1].size
      /\ Confirms(a, a[e + 1].off, e, 0)

\* The archive that was stored in a member is whole, with something on both sides of it.
InnerAt(s) ==
  /\ IsArchive(job.orig.inner)
  /\ s \in 1 .. Len(job.file) - Len(job.orig.inner) - 1
  /\ OccursAt(job.orig.inner, job.file, s)

InsideInner(o) ==
  \E s \in 1 .. Len(job.file) : InnerAt(s) /\ Within(o, <<s, s + Len(job.orig.inner)>>)

\* Damage gave no record another name or checksum: each is one of the archive's, or
\* belongs to the whole archive in a member.
RecordsAreTrue ==
  \A o \in 0 .. Len(job.file) - 1 :
    Kind(job.file, o) = "central" /\ ~InsideInner(o) =>
      \E i \in DOMAIN job.orig.was : /\ job.orig.was[i].name = job.file[o + 1].meta.name
                                     /\ job.orig.was[i].bytes = job.file[o + 1].meta.crc

\* The header at o is reached by the scans: no header before it claims its place.
Reached(o) == \A h \in 0 .. o - 1 : HasLocal(job.file, h) => AfterHeader(job.file, h) <= o

Alone(o) ==
  \A h \in 0 .. Len(job.file) - 1 :
    HasLocal(job.file, h) /\ h # o
      => PathKey(job.file[h + 1].meta.name) # PathKey(job.file[o + 1].meta.name)

\* The directory as it is read, before its offsets are reconciled.
Recorded ==
  [k \in 1 .. Len(job.orig.was) |->
     Entry(job.orig.directory[k].meta, job.orig.directory[k].off, TRUE)]

\* The record of member i leads to the header at o, or offset reconciliation explains
\* where it went: the records that can be matched to a header of an index within its
\* limit show no more shifts than the policy allows, and none from before it is behind.
Explained(i, o) ==
  LET f    == job.file
      seen == Observations(f, IndexedHeaders(f), Recorded)
  IN  \/ Recorded[i].off = o
      \/ /\ Cardinality({h \in 0 .. Len(f) - 1 : HasLocal(f, h)}) <= MaxCandidates
         /\ ~(Segments(Kept(seen)) > MaxSegments)
         /\ \A ob \in seen : ob.stored < Recorded[i].off => ob.physical < o

UniquePath(i) ==
  \A j \in DOMAIN job.orig.was :
    PathKey(job.orig.was[j].name) = PathKey(job.orig.was[i].name) => i = j

\* Header and payload of member i are at o, where the core can find and trust them.
Intact(i, o) ==
  /\ UniquePath(i) /\ Presentable(job.orig.was[i])
  /\ Attests(job.provenance) \/ job.orig.was[i].bytes # << >>
  /\ OccursAt(job.orig.bodies[i], job.file, o)
  /\ Reached(o) /\ Alone(o) /\ ~Owned(Containers(job.file), o) /\ Explained(i, o)

LimitHit ==
  \E i \in DOMAIN skipped : skipped[i].why \in {"entry_limit", "total_limit", "entry_count_limit"}

-----------------------------------------------------------------------------
\* Types of the state; a claimed range is never empty or inverted (reconcile_cd_and_scan).
TypeOK ==
  /\ phase \in {"containers", "directory", "surviving", "repoint", "decide", "merge", "emit", "done"}
  /\ declared \in Nat \cup {-1} /\ horizon \in Nat
  /\ entries \in Seq(Entries) /\ todo \in Seq(Entries)
  /\ found \in BOOLEAN /\ enumerates \in BOOLEAN /\ sinkFailed \in BOOLEAN
  /\ pending \subseteq 0 .. Len(job.file) - 1
  /\ taken \subseteq Nat
  /\ \A r \in claimed : r \in Nat \X Nat /\ r[1] < r[2]
  /\ total \in Nat

(***************************************************************************)
(* What is handed out under the word of a directory record is a member of  *)
(* the archive, with its path and its bytes, whichever way the directory   *)
(* was found and its offsets were translated (parse_zip_with_policy), and  *)
(* although a member may hold an archive with records of its own           *)
(* (ContainerOwnershipMap::detect).                                        *)
(***************************************************************************)
AttestedIsGenuine ==
  RecordsAreTrue =>
    \A i \in DOMAIN emitted : emitted[i].entry.central => Of(emitted[i]) \in Members

(***************************************************************************)
(* With a whole directory that PHX has not written itself nothing foreign  *)
(* is handed out: no header that was planted between or behind the         *)
(* members, and no member of an archive in a member, however the rest of   *)
(* the file was damaged (the guard for unattested entries of               *)
(* recover_verified_entries_to).                                           *)
(***************************************************************************)
ForeignStaysOut == Attests(job.provenance) /\ DirectoryThere => Results \subseteq Members

(***************************************************************************)
(* With the directory whole every member is handed out whose header and    *)
(* payload are still somewhere in the file, wherever bytes were inserted   *)
(* or cut out: its record is pointed at it again (OffsetMap, then          *)
(* reconcile_cd_and_scan and recover_verified_entries_to).  Not promised:  *)
(* a member that a damaged size field of an earlier header covers, whose   *)
(* path another header in the file has too, that an archive inside claims, *)
(* or that went where no ordered shift leads.                              *)
(***************************************************************************)
IntactMembersSurvive ==
  Done /\ ~LimitHit /\ DirectoryThere =>
    \A i \in DOMAIN job.orig.was :
      (\E o \in 0 .. Len(job.file) - 1 : Intact(i, o))
        => [path |-> SafePath(job.orig.was[i].name), bytes |-> job.orig.was[i].bytes] \in Results

(***************************************************************************)
(* After bytes were removed the offset in the end record may lead into the *)
(* middle of the directory, which stands whole behind it, and what is read *)
(* from there on is a directory in good order.  It must not count as the   *)
(* complete one, whose silence about a header speaks against it: it was    *)
(* then read from its first record on (cd_count_consistent of              *)
(* parse_zip_with_policy).  No other record may lie in the open.           *)
(***************************************************************************)
PartIsNotAll ==
  /\ enumerates /\ DirectoryWhole
  /\ \A o \in 0 .. FirstRecord - 1 :
       Kind(job.file, o) = "central" => Owned(containers, o)
  => horizon = FirstRecord

(***************************************************************************)
(* Whatever happens to the outer archive, its directory and its end record *)
(* included: what is handed out is named by a record, or by a header where *)
(* no record speaks for it, that lies outside of every whole archive       *)
(* stored in it (owner_of in both directory paths and in                   *)
(* reconcile_cd_and_scan).                                                 *)
(***************************************************************************)
InnerStaysInner ==
  \A i \in DOMAIN emitted : \E o \in 0 .. Len(job.file) - 1 :
    /\ Kind(job.file, o) = IF emitted[i].entry.central THEN "central" ELSE "local"
    /\ ~InsideInner(o)
    /\ SafePath(job.file[o + 1].meta.name) = emitted[i].path

\* The bytes an entry stands for after the merge.
RangeOf(e) == IF e.central THEN RangeIn(job.file, e) ELSE LenientRange(job.file, e.off)

(***************************************************************************)
(* An entry that only the scan found shares no byte with any other entry,  *)
(* record or scanned, that made it through the merge (the two range guards *)
(* of reconcile_cd_and_scan).                                              *)
(***************************************************************************)
ScanOnlyIsDisjoint ==
  \A i, j \in DOMAIN entries :
    ~entries[i].central /\ entries[i] # entries[j] /\ RangeOf(entries[j]) # NoRange
      => ~Overlapping(RangeOf(entries[i]), RangeOf(entries[j]))

(***************************************************************************)
(* Evidence of everything handed out: the bytes have the checksum that the *)
(* archive holds of them, no two entries have one path on a file system    *)
(* that ignores case, the limits hold, and neither an empty entry nor an   *)
(* entry that a complete directory does not list passes without the word   *)
(* of a record that PHX has not written itself (CdProvenance).             *)
(***************************************************************************)
EmissionIsBacked ==
  /\ \A i \in DOMAIN emitted :
       /\ emitted[i].bytes = emitted[i].entry.crc
       /\ Len(emitted[i].bytes) <= MaxEntryBytes
       /\ ~Unsafe(emitted[i].entry.name)
       /\ emitted[i].bytes = << >> => Attested(emitted[i].entry)
       /\ enumerates /\ Attests(job.provenance) => emitted[i].entry.central
  /\ \A i, j \in DOMAIN emitted :
       PathKey(emitted[i].entry.name) = PathKey(emitted[j].entry.name) => i = j
  /\ total <= MaxTotalBytes

(***************************************************************************)
(* Reconciliation moves two records only to places in the order in which   *)
(* they were (OffsetMap::infer drops what would cross).                    *)
(***************************************************************************)
RepointKeepsOrder ==
  \A i, j \in DOMAIN entries :
    LET from(k) == entries[k].off
        to(k)   == entries'[k].off
    IN  from(i) < from(j) /\ from(j) # Gone /\ to(i) # from(i) /\ to(j) # from(j)
          => to(i) < to(j)

RepointingKeepsOrder == [][Repoint => RepointKeepsOrder]_vars

-----------------------------------------------------------------------------
\* What the source says of itself.

Confirmed(e) ==
  /\ e.central /\ NamedAt(job.file, e.off, e.name)
  /\ Extracted(job.file, e).status = "verified"

(***************************************************************************)
(* "Directory records win where they are physically confirmed; scan-only   *)
(* headers are added, never substituted" (opc_zip.rs:205): a record that   *)
(* is confirmed and whose bytes verify is handed out, unless another       *)
(* record has its path.                                                    *)
(***************************************************************************)
DirectoryWins ==
  Done /\ ~LimitHit =>
    \A i \in DOMAIN entries :
      /\ Confirmed(entries[i]) /\ Attested(entries[i])
      /\ entries[i].name[Len(entries[i].name)] # "" /\ ~Unsafe(entries[i].name)
      /\ \A j \in DOMAIN entries :
           entries[j].central /\ PathKey(entries[j].name) = PathKey(entries[i].name) => i = j
      => \E k \in DOMAIN emitted : emitted[k].entry = entries[i]
=============================================================================
