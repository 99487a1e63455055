---------------------------- MODULE ZipDirectory ----------------------------
(***************************************************************************)
(* Making a directory usable again: finding it where the end record does   *)
(* not lead to it (cd_scan.rs), and translating stale offsets of its       *)
(* records by those records that can be matched to a header (zip_index.rs, *)
(* zip_offset_map.rs).                                                     *)
(***************************************************************************)
EXTENDS ZipContainer

CONSTANT MaxSegments      \* policy.max_offset_segments

ASSUME SegmentsAssumption == MaxSegments \in Nat

-----------------------------------------------------------------------------
\* cd_scan.rs.  A chain is a maximal run of records.

ChainStarts(f) == {o \in 0 .. Len(f) - 1 : Kind(f, o) = "central" /\ Kind(f, o - 1) # "central"}

ChainEnd(f, start) == Smallest({o \in start + 1 .. Len(f) : Kind(f, o) # "central"})

\* index_local_headers: every header counts, the first of a name wins; names are
\* compared as they are decoded.
HeadersNamed(f, name) ==
  {o \in 0 .. Len(f) - 1 : HasLocal(f, o) /\ f[o + 1].whole /\ Lossy(f[o + 1].meta.name) = Lossy(name)}

\* The shifts that the records of a chain imply.
Deltas(f, start) ==
  {Smallest(HeadersNamed(f, f[o + 1].meta.name)) - f[o + 1].off
     : o \in {q \in start .. ChainEnd(f, start) - 1 : HeadersNamed(f, f[q + 1].meta.name) # {}}}

\* RecordSupport of the record at o under a shift.
CutAway(f, o, delta)   == f[o + 1].off + delta < 0
Supported(f, o, delta) ==
  LET at == f[o + 1].off + delta
  IN  NamedAt(f, at, Lossy(f[o + 1].meta.name)) /\ f[at + 1].meta.method = f[o + 1].meta.method

\* The chain is what the end record behind it describes.
MatchesEnd(f, start) ==
  /\ HasEnd(f) /\ ChainEnd(f, start) = FindEocd(f)
  /\ f[FindEocd(f) + 1].total = ChainEnd(f, start) - start
  /\ f[FindEocd(f) + 1].size = ChainEnd(f, start) - start

\* One shift explains every record of the chain, and the end record agrees.
ProvenBy(f, start, delta) ==
  /\ Deltas(f, start) = {delta}
  /\ \A o \in start .. ChainEnd(f, start) - 1 : CutAway(f, o, delta) \/ Supported(f, o, delta)
  /\ \E o \in start .. ChainEnd(f, start) - 1 : ~CutAway(f, o, delta)
  /\ MatchesEnd(f, start)

\* scan_surviving_cd: the chains it accepts, at most one.
SurvivingChains(f) ==
  LET proven == {start \in ChainStarts(f) : \E d \in Deltas(f, start) : ProvenBy(f, start, d)}
  IN  IF Cardinality(proven) = 1 THEN proven ELSE {}

\* The records of an accepted chain, with the shift applied.
Shifted(entries, delta) ==
  [i \in DOMAIN entries |->
     [entries[i] EXCEPT !.off = IF @ + delta < 0 THEN Gone ELSE @ + delta]]

-----------------------------------------------------------------------------
\* Observations: stored and physical offset of a record that was matched.

\* The headers a record may stand for: the one it points at if that bears its
\* name, else the only one of its name, method and checksum.
MatchesFor(f, index, e) ==
  IF e.off \in index /\ f[e.off + 1].meta.name = e.name THEN {e.off}
  ELSE {o \in index : /\ f[o + 1].meta.name = e.name
                      /\ f[o + 1].meta.method = e.method
                      /\ f[o + 1].meta.crc \in {e.crc, << >>}}

Matched(f, index, entries) ==
  {i \in DOMAIN entries : \E o \in index : MatchesFor(f, index, entries[i]) = {o}}

\* Of several records with one stored offset the first is heard.
Observations(f, index, entries) ==
  LET matched == Matched(f, index, entries)
  IN  {[stored   |-> entries[i].off,
        physical |-> CHOOSE o \in MatchesFor(f, index, entries[i]) : TRUE]
         : i \in {j \in matched : \A k \in matched : entries[k].off = entries[j].off => j <= k}}

\* Mutant: every observation is believed.
KeptAll(observations) == observations

\* An observation that would place a later record before an earlier one is dropped:
\* what stays are those that lie behind all before them.
Kept(observations) ==
  {ob \in observations : \A before \in observations :
     before.stored < ob.stored => before.physical < ob.physical}

\* The map of a set K of observations: an offset moves as the nearest observations
\* on both sides of it do, and nowhere if these disagree.
Delta(ob) == ob.physical - AsI64(ob.stored)

Below(K, s)  == {ob \in K : ob.stored <= s /\ \A other \in K : other.stored <= s => other.stored <= ob.stored}
Above(K, s)  == {ob \in K : ob.stored >= s /\ \A other \in K : other.stored >= s => other.stored >= ob.stored}
Shifts(K, s) == {Delta(ob) : ob \in Below(K, s) \cup Above(K, s)}

\* OffsetMap::map: where a stored offset leads, no place or one.
Mapped(K, s) ==
  {AsI64(s) + d : d \in {x \in Shifts(K, s) : Shifts(K, s) = {x} /\ AsI64(s) + x >= 0}}

\* Runs of equal shift.
Segments(K) ==
  Cardinality({ob \in K : \A prev \in K :
    (prev.stored < ob.stored /\ \A mid \in K : ~(prev.stored < mid.stored /\ mid.stored < ob.stored))
      => Delta(prev) # Delta(ob)})

\* OffsetMap::infer: an empty set where no map is offered.
InferredMap(observations) ==
  LET K == Kept(observations)
  IN  IF Segments(K) > MaxSegments THEN {} ELSE K

\* The record's offset after reconciliation: the map proposes, the name at the
\* place decides.
Repointed(f, index, K, e) ==
  LET to == {o \in Mapped(K, e.off) : o \in index /\ f[o + 1].meta.name = e.name}
  IN  IF NamedAt(f, e.off, e.name) \/ to = {} THEN e ELSE [e EXCEPT !.off = CHOOSE o \in to : TRUE]
=============================================================================
