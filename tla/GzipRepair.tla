----------------------------- MODULE GzipRepair -----------------------------
(***************************************************************************)
(* The strategies for gzip files: gz-magic-restore, gz-trailer-recompute,  *)
(* gz-partial-inflate, which like the detector know one member only, and   *)
(* gz-member-salvage with the resync module it calls, which looks for all. *)
(***************************************************************************)
EXTENDS GzipStream, SequencesExt

\* Mutant: the flags go with the magic.
MagicRestoredOverFlags(f) == [f EXCEPT ![1].magic = TRUE, ![1].extra = 0]

\* gz-magic-restore: bytes 0 and 1 are written.
MagicRestored(f) == [f EXCEPT ![1].magic = TRUE]

-----------------------------------------------------------------------------
\* gz-trailer-recompute refuses a file without a body, and one whose body does not
\* inflate to the end; it keeps all but the last eight bytes.
RecomputeHolds(f) == Bytes(f) >= GZ_MIN_SIZE /\ Inflate(f, BodyStart(f), Len(f) - 1).ok

TrailerRecomputed(f) ==
  SubSeq(f, 1, Len(f) - 1)
    \o (IF f[Len(f)].kind = "fixed" THEN <<Stub>> ELSE << >>)
    \o <<Trailer(Inflate(f, BodyStart(f), Len(f) - 1).plain)>>

-----------------------------------------------------------------------------
\* Mutant: the last eight bytes are stripped twice.
DeflateBodyEndTwice(f) == IF BodyStart(f) < Len(f) THEN Len(f) - 2 ELSE Len(f)

\* deflate_body: the last eight bytes are taken for a trailer where there are more.
DeflateBodyEnd(f) == IF BodyStart(f) < Len(f) THEN Len(f) - 1 ELSE Len(f)

\* gz-partial-inflate: what inflates, encoded anew.
PartialPlain(f) == Inflate(f, BodyStart(f), DeflateBodyEnd(f)).plain

-----------------------------------------------------------------------------
\* member_starts: 1F 8B 08, wherever it stands.
IsStart(c) == (c.kind = "fixed" /\ c.magic /\ c.cm) \/ (c.kind = "optional" /\ c.magic)

NextStart(f, p) ==
  CHOOSE q \in p + 1 .. Len(f) + 1 :
    /\ q = Len(f) + 1 \/ IsStart(f[q])
    /\ \A r \in p + 1 .. q - 1 : ~IsStart(f[r])

\* gz_header_len: fields that leave the file, and what is no header, have none.
HasHeader(f, p) == f[p].kind = "fixed" /\ p + f[p].extra <= Len(f)

MemberBody(f, p) == p + 1 + f[p].extra

\* inflate_member, up to the end of the file.
InflateMember(f, p) == Inflate(f, MemberBody(f, p), Len(f))

\* Mutant: a member that inflates is believed.
ProvenByInflating(f, p) == HasHeader(f, p) /\ InflateMember(f, p).ok /\ InflateMember(f, p).next <= Len(f)

\* A member whose trailer is there and matches.
Proven(f, p) ==
  /\ HasHeader(f, p)
  /\ LET m == InflateMember(f, p)
     IN  /\ m.ok /\ m.next <= Len(f)
         /\ Vouches(f[m.next], m.plain) /\ Counts(f[m.next], m.plain)

\* Mutant: the first corrupt member ends it, as it ends gunzip.
SalvageStartsUpToDamage(f) ==
  LET walk[p \in 1 .. Len(f) + 1] ==
        IF p > Len(f) THEN {}
        ELSE IF ~IsStart(f[p]) THEN walk[p + 1]
        ELSE IF Proven(f, p) THEN {p} \cup walk[InflateMember(f, p).next + 1]
        ELSE {p}
  IN  walk[1]

\* salvage_gzip: the starts it comes to.  Those inside a proven member are passed
\* over, those inside one that is not are not.
SalvageStarts(f) ==
  LET walk[p \in 1 .. Len(f) + 1] ==
        IF p > Len(f) THEN {}
        ELSE IF ~IsStart(f[p]) THEN walk[p + 1]
        ELSE IF Proven(f, p) THEN {p} \cup walk[InflateMember(f, p).next + 1]
        ELSE {p} \cup walk[NextStart(f, p)]
  IN  walk[1]

\* The slice from the body to the next start, taken for a member that is not
\* proven: out of order when the header claims more than that.
SalvagePanics(f) ==
  \E p \in SalvageStarts(f) :
    HasHeader(f, p) /\ ~Proven(f, p) /\ MemberBody(f, p) > NextStart(f, p)

\* verified_payload.
SalvagedPlain(f) ==
  LET members == {p \in SalvageStarts(f) : Proven(f, p)}
  IN  FlattenSeq([p \in DOMAIN f |-> IF p \in members THEN InflateMember(f, p).plain ELSE << >>])

\* scan_stored_blocks from .. to: bytes in blocks that are all there.
MIN_STORED_LEN == 8

StoredBlockBytes(f, from, to) ==
  LET scan[p \in 1 .. Len(f) + 1] ==
        IF p > to THEN 0
        ELSE IF /\ f[p].kind = "stored" /\ f[p].x = "ok"
                /\ Bytes(f[p].of) >= MIN_STORED_LEN /\ p + Len(f[p].of) <= to
             THEN Bytes(f[p].of) + scan[p + 1 + Len(f[p].of)]
             ELSE scan[p + 1]
  IN  scan[from]

\* salvage_unverified: what inflates of the members that are not proven, and the
\* stored blocks in them, is counted and left out.
UnverifiedBytes(f) ==
  LET damaged == {p \in SalvageStarts(f) : HasHeader(f, p) /\ ~Proven(f, p)}
      lost[p \in 0 .. Len(f)] ==
        IF p = 0 THEN 0
        ELSE lost[p - 1] +
             IF p \in damaged
             THEN Bytes(InflateMember(f, p).plain)
                    + StoredBlockBytes(f, MemberBody(f, p), NextStart(f, p) - 1)
             ELSE 0
  IN  lost[Len(f)]
=============================================================================
