------------------------------ MODULE ZipCells ------------------------------
(***************************************************************************)
(* A file as the ZIP core (phx_zip_core) reads it, and the reads that      *)
(* every part of it shares.                                                *)
(*                                                                         *)
(* A file is a sequence of cells; offsets count cells from 0.  A cell is a *)
(* local header or a directory record (with its name and extra field), an  *)
(* end record, a data descriptor, or payload, and is no shorter than the   *)
(* fixed part of a local header unless it is an end record or a descriptor *)
(* (Short).  Stored payload may hold cells of any kind (an archive in the  *)
(* archive); deflated payload is a stream of "z" cells.  A checksum is the *)
(* content it was computed of, the empty sequence standing for 0.          *)
(*                                                                         *)
(* Everything is read out of a damaged file, so that any cell may be       *)
(* anywhere and any field may lie.                                         *)
(***************************************************************************)
EXTENDS Integers, Sequences, FiniteSets

CONSTANTS Contents,       \* what a member may contain
          Parts,          \* what the path of a member may consist of
          MaxRecords,     \* policy.max_central_records
          MaxCandidates   \* policy.max_candidate_records

ASSUME ContentsAssumption == << >> \in Contents /\ \A c \in Contents : Len(c) \in Nat

ASSUME PartsAssumption == {"xff", "xfffd"} \subseteq Parts

ASSUME PolicyAssumption == /\ MaxRecords \in Nat \ {0}
                           /\ MaxCandidates \in Nat \ {0}

-----------------------------------------------------------------------------
\* Cells.  A name is the sequence of its parts; the part "xff" is not UTF-8 and "xfffd" is
\* what it is decoded to.

\* Beyond what the 32 bits of a stored offset can say and any file can hold.
Reach == 500000

\* u64::MAX, the offset of a record whose header was cut away: above every offset that
\* a record stores, shifted or not, and -1 once it is cast to i64.
Gone == 2 * Reach

AsI64(o) == IF o = Gone THEN -1 ELSE o

Locks == {"none", "encrypted", "zip64_unsupported"}

\* What a local header and its directory record both say of a member.
Metas == [name : Seq(Parts), method : STRING, crc : Contents, csize : Nat, usize : Nat,
          streamed : BOOLEAN, lock : Locks]

IsCell(c) ==
  /\ c.kind \in {"local", "central", "end", "descriptor", "data", "z"}
  /\ c.kind \in {"local", "central"} => c.meta \in Metas
  /\ c.kind = "local" => c.whole \in BOOLEAN
  /\ c.kind = "central" => c.off \in 0 .. Reach - 1
  /\ c.kind = "end" => c.total \in Nat /\ c.size \in Nat /\ c.off \in Nat /\ c.comment \in Nat
  /\ c.kind = "z" => c.of \in Contents
  /\ c.kind \in {"data", "z"} => c.span \in Nat \ {0}

\* A file: a sequence of cells.
IsFile(f) == Len(f) \in 0 .. Reach /\ \A i \in 1 .. Len(f) : IsCell(f[i])

Meta(name, method, content, csize) ==
  [name |-> name, method |-> method, crc |-> content, csize |-> csize,
   usize |-> Len(content), streamed |-> FALSE, lock |-> "none"]

\* The last header of a cut file may lack its name: whole is false.
Local(meta)        == [kind |-> "local", meta |-> meta, whole |-> TRUE]
Central(meta, off) == [kind |-> "central", meta |-> meta, off |-> off]
End(total, size, off) == [kind |-> "end", total |-> total, size |-> size, off |-> off, comment |-> 0]
Descriptor         == [kind |-> "descriptor"]
Payload(x, span)   == [kind |-> "data", x |-> x, span |-> span]
Deflated(content, i, n) == [kind |-> "z", of |-> content, i |-> i, n |-> n, span |-> 1]

Kind(f, o) == IF o \in 0 .. Len(f) - 1 THEN f[o + 1].kind ELSE "nothing"

\* Shorter than 30 bytes: no room for a local header.
Short(f, o) == Kind(f, o) \in {"end", "descriptor"}

\* local_header_present.
HasLocal(f, o) == Kind(f, o) = "local"

\* header_named_at.
NamedAt(f, o, name) == HasLocal(f, o) /\ f[o + 1].whole /\ f[o + 1].meta.name = name

-----------------------------------------------------------------------------
\* Entries.

NotUtf8(name) == \E i \in DOMAIN name : name[i] = "xff"

\* from_utf8_lossy.
Lossy(name) == [i \in DOMAIN name |-> IF name[i] = "xff" THEN "xfffd" ELSE name[i]]

\* ZipEntry.
Entries == [name : Seq(Parts), utf8 : BOOLEAN, method : STRING, crc : Contents,
            csize : Nat, usize : Nat, off : Nat, streamed : BOOLEAN, lock : Locks,
            central : BOOLEAN]

Entry(meta, off, central) ==
  [name |-> Lossy(meta.name), utf8 |-> ~NotUtf8(meta.name), method |-> meta.method,
   crc |-> meta.crc, csize |-> meta.csize, usize |-> meta.usize, off |-> off,
   streamed |-> meta.streamed, lock |-> meta.lock, central |-> central]

\* What the scan makes of the header at o: of a cut one it cannot read the name.
Scanned(f, o) ==
  LET e == Entry(f[o + 1].meta, o, FALSE)
  IN  IF f[o + 1].whole THEN e ELSE [e EXCEPT !.name = << >>, !.utf8 = FALSE]

-----------------------------------------------------------------------------
\* Walks.

Smallest(S) == CHOOSE x \in S : \A y \in S : x <= y
Largest(S)  == CHOOSE x \in S : \A y \in S : x >= y

\* The n smallest of a set of offsets.
FirstOf(n, S) == {o \in S : Cardinality({p \in S : p < o}) < n}

\* The n-th of them.
Nth(n, S) == CHOOSE o \in S : Cardinality({p \in S : p < o}) = n - 1

\* find_eocd: the last one.
Ends(f)     == {o \in 0 .. Len(f) - 1 : Kind(f, o) = "end"}
HasEnd(f)   == Ends(f) # {}
FindEocd(f) == Largest(Ends(f))

\* parse_central_directory_bounded over [from, to): records up to the first cell
\* that is none; the declared count is not asked.
RecordsIn(f, from, to) ==
  FirstOf(MaxRecords, {o \in from .. to - 1 : \A q \in from .. o : Kind(f, q) = "central"})

WalkDirectory(f, from, to) ==
  [i \in 1 .. Cardinality(RecordsIn(f, from, to)) |->
     Entry(f[from + i].meta, f[from + i].off, TRUE)]

\* next_signature.
NextSignature(f, from) ==
  LET found == {o \in from .. Len(f) - 1 : Kind(f, o) \in {"local", "central", "descriptor"}}
  IN  IF found = {} THEN Len(f) ELSE Smallest(found)

\* Where the scan goes on after the header at o: over its payload if it tells the
\* size of it, to the next signature otherwise.
AfterHeader(f, o) ==
  IF f[o + 1].meta.csize > 0 THEN o + 1 + f[o + 1].meta.csize ELSE NextSignature(f, o + 1)

\* scan_local_headers_bounded: the headers it stops at.
ScannedHeaders(f) ==
  LET scan[o \in 0 .. Len(f)] ==
        IF o = Len(f) THEN {}
        ELSE IF ~HasLocal(f, o) THEN scan[o + 1]
        ELSE {o} \cup (IF AfterHeader(f, o) > Len(f) THEN {} ELSE scan[AfterHeader(f, o)])
  IN  FirstOf(MaxCandidates, {o \in 0 .. Len(f) - 1 : HasLocal(f, o) /\ o \in scan[0]})

\* LocalHeaderIndex::build: like the scan, but it walks into a payload whose size
\* the header does not tell, and leaves out headers it cannot read.
IndexedHeaders(f) ==
  LET scan[o \in 0 .. Len(f)] ==
        IF o = Len(f) THEN {}
        ELSE IF ~HasLocal(f, o) \/ ~f[o + 1].whole THEN scan[o + 1]
        ELSE {o} \cup (LET next == o + 1 + f[o + 1].meta.csize
                       IN  IF next > Len(f) THEN {} ELSE scan[next])
  IN  FirstOf(MaxCandidates, {o \in 0 .. Len(f) - 1 : HasLocal(f, o) /\ f[o + 1].whole /\ o \in scan[0]})

-----------------------------------------------------------------------------
\* Byte ranges <<first, past>> and extraction.

NoRange == << >>

\* How far the payload lies behind o.  Nobody asks for a signature here: at a
\* cell that is no header the two lengths are whatever its bytes say.
Span(f, o) ==
  LET c == f[o + 1]
  IN  CASE c.kind = "local" -> IF c.whole THEN 1 ELSE 2
        [] c.kind = "central" -> 1
        [] c.kind \in {"data", "z"} -> c.span
        [] OTHER -> 2

\* payload_range.
RangeIn(f, e) ==
  IF e.off \notin 0 .. Len(f) - 1 THEN NoRange
  ELSE LET past == e.off + Span(f, e.off) + e.csize
       IN  IF past > Len(f) THEN NoRange ELSE <<e.off, past>>

\* payload_range_lenient of the header at o: a payload that runs past the end is
\* clamped to it, a header that does is none.
LenientRange(f, o) ==
  IF ~f[o + 1].whole THEN NoRange
  ELSE LET past == o + 1 + f[o + 1].meta.csize
       IN  <<o, IF past > Len(f) THEN Len(f) ELSE past>>

Within(o, r)      == r[1] <= o /\ o < r[2]
Overlapping(q, r) == q[1] < r[2] /\ r[1] < q[2]

\* inflate_bounded: a stream from its first cell to its last, whatever follows.
Inflates(cells) ==
  /\ cells # << >> /\ cells[1].kind = "z" /\ cells[1].n <= Len(cells)
  /\ \A i \in 1 .. cells[1].n :
       cells[i].kind = "z" /\ cells[i].of = cells[1].of /\ cells[i].i = i

\* extract_entry.
Extracted(f, e) ==
  LET first == e.off + 1
      past  == first + e.csize
      cells == SubSeq(f, first + 1, past)
      bytes == IF e.method = "stored" THEN cells ELSE cells[1].of
      none(status) == [status |-> status, bytes |-> << >>]
  IN  CASE e.lock # "none" -> none(e.lock)
        [] e.lock = "none" /\ ~e.central /\ e.streamed /\ e.csize = 0 -> none("streamed_unsized")
        [] OTHER ->
             IF ~HasLocal(f, e.off) THEN none("bad_local_header")
             ELSE IF past > Len(f) \/ ~f[first].whole THEN none("truncated")
             ELSE IF e.method \notin {"stored", "deflated"} THEN none("unsupported_method")
             ELSE IF e.method = "deflated" /\ ~Inflates(cells) THEN none("decode_failed")
             ELSE [status |-> IF bytes = e.crc THEN "verified" ELSE "crc_mismatch",
                   bytes |-> bytes]
=============================================================================
