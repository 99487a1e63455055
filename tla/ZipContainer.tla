---------------------------- MODULE ZipContainer ----------------------------
(***************************************************************************)
(* Which archive a byte range belongs to (zip_container.rs): archives in   *)
(* the payload of this one, proven by their own directory.                 *)
(***************************************************************************)
EXTENDS ZipCells

\* chain_records and candidate_base_confirms: [from, to) is all records, and counted
\* from base each of them points at a header of its own name before the directory.
Confirms(f, from, to, base) ==
  /\ from < to
  /\ \A o \in from .. to - 1 :
       /\ Kind(f, o) = "central"
       /\ base + f[o + 1].off < from
       /\ NamedAt(f, base + f[o + 1].off, f[o + 1].meta.name)

\* derive_base_from_records: the places of a header with the first record's name,
\* and the bases they would give.
BasesByName(f, from, to) ==
  {p - f[from + 1].off : p \in {q \in 0 .. from - 1 :
     /\ NamedAt(f, q, f[from + 1].meta.name)
     /\ q - f[from + 1].off > 0
     /\ Confirms(f, from, to, q - f[from + 1].off)}}

\* The base of the archive whose end record is at e, 0 if there is none: by the
\* stored offset of its directory, or by its records where that offset is stale.
BaseOf(f, e) ==
  LET from  == e - f[e + 1].size
      bases == BasesByName(f, from, e)
  IN  IF from - f[e + 1].off > 0 /\ Confirms(f, from, e, from - f[e + 1].off)
      THEN from - f[e + 1].off
      ELSE IF bases = {} THEN 0 ELSE Smallest(bases)

PastEnd(f, e) ==
  IF e + 1 + f[e + 1].comment > Len(f) THEN Len(f) ELSE e + 1 + f[e + 1].comment

\* validate_embedded.
Embeds(f, e) ==
  LET from == e - f[e + 1].size
  IN  /\ f[e + 1].total > 0 /\ f[e + 1].size > 0
      /\ Kind(f, from) = "central"
      /\ BaseOf(f, e) \in 1 .. from - 1
      /\ f[e + 1].size = f[e + 1].total
      /\ PastEnd(f, e) < Len(f)

\* Every archive proven to be embedded, as a range.
Validated(f) == {<<BaseOf(f, e), PastEnd(f, e)>> : e \in {x \in Ends(f) : Embeds(f, x)}}

\* ContainerOwnershipMap::detect: of those with one base the first in the order of
\* their ends stays.
Containers(f) == {c \in Validated(f) : \A d \in Validated(f) : d[1] = c[1] => c[2] <= d[2]}

\* owner_of(offset).is_some().
Owned(containers, o) == \E c \in containers : Within(o, c)
=============================================================================
