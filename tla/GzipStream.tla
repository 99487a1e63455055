----------------------------- MODULE GzipStream -----------------------------
(***************************************************************************)
(* A gzip file and the defects the analyze engine reports in it            *)
(* (corruption/detector.rs, gz_defects).                                   *)
(*                                                                         *)
(* A file is a sequence of cells.  The fixed part of a member's header is  *)
(* ten bytes, every other cell eight, so that a trailer, and what the      *)
(* code takes for one, is the last cell.  magic and cm say whether the     *)
(* header's first three bytes are right, and extra how many cells of       *)
(* optional fields (FEXTRA, FNAME, FCOMMENT, FHCRC) it announces.  A       *)
(* DEFLATE stream has a cell for every cell of its content, which knows    *)
(* the content it belongs to and its place there, or is a stored block     *)
(* with the content as it is, which may be another gzip file.  Inflating a *)
(* damaged cell fails or gives a wrong cell; cells out of their order, and *)
(* anything else, do not inflate.  CRC-32 is collision free.               *)
(***************************************************************************)
EXTENDS Integers, Sequences, FiniteSets

Letter(x)       == [kind |-> "letter", x |-> x]
Wrong           == Letter("wrong")
Fixed(extra)    == [kind |-> "fixed", magic |-> TRUE, cm |-> TRUE, extra |-> extra]
Optional(magic) == [kind |-> "optional", magic |-> magic]
Packed(of, i)   == [kind |-> "packed", of |-> of, i |-> i, x |-> "ok"]
Stored(of)      == [kind |-> "stored", of |-> of, x |-> "ok"]
Stub            == [kind |-> "stub"]

CellBytes(c) == CASE c.kind = "fixed" -> 10 [] c.kind = "stub" -> 2 [] OTHER -> 8

Bytes(f) ==
  LET upTo[n \in 0 .. Len(f)] == IF n = 0 THEN 0 ELSE upTo[n - 1] + CellBytes(f[n])
  IN  upTo[Len(f)]

Trailer(of) == [kind |-> "trailer", crc |-> of, isize |-> Bytes(of)]

Vouches(c, plain) == c.kind = "trailer" /\ c.crc = plain
Counts(c, plain)  == c.kind = "trailer" /\ c.isize = Bytes(plain)

\* An empty content still takes a cell.
PackedCells(of) == IF of = << >> THEN 1 ELSE Len(of)

PackedBody(of) == [i \in 1 .. PackedCells(of) |-> Packed(of, i)]
StoredBody(of) == <<Stored(of)>> \o of

\* The cells there are, and the files: a header comes first, whatever it says.
IsSeq(x) == Len(x) \in Nat /\ x = [i \in 1 .. Len(x) |-> x[i]]

IsCell(c) ==
  \/ c \in [kind : {"fixed"}, magic : BOOLEAN, cm : BOOLEAN, extra : Nat]
  \/ c \in [kind : {"optional"}, magic : BOOLEAN]
  \/ c.kind \in {"packed", "stored"} /\ IsSeq(c.of)
  \/ c.kind = "trailer" /\ c = [kind |-> "trailer", crc |-> c.crc, isize |-> c.isize]
  \/ c.kind \in {"letter", "stub"}

IsStream(f) ==
  /\ IsSeq(f) /\ Len(f) > 0 /\ f[1].kind = "fixed"
  /\ \A p \in 1 .. Len(f) : IsCell(f[p])

\* What flate2's GzEncoder writes.
Encoded(of) == <<Fixed(0)>> \o PackedBody(of) \o <<Trailer(of)>>

-----------------------------------------------------------------------------
\* flate2's DeflateDecoder on the cells from .. to: whether it came to the end of
\* the stream, what it gave out until then, and where it stopped.
InflatePacked(f, from, to) ==
  LET of    == f[from].of
      goes(k) == /\ from + k - 1 <= to
                 /\ \E x \in {"ok", "wrong"} : f[from + k - 1] = [Packed(of, k) EXCEPT !.x = x]
      good  == CHOOSE g \in 0 .. PackedCells(of) :
                 /\ \A k \in 1 .. g : goes(k)
                 /\ g = PackedCells(of) \/ ~goes(g + 1)
  IN  [ok    |-> good = PackedCells(of),
       plain |-> [k \in 1 .. IF good > Len(of) THEN Len(of) ELSE good |->
                    IF f[from + k - 1].x = "ok" THEN of[k] ELSE Wrong],
       next  |-> from + good]

InflateStored(f, from, to) ==
  LET end == from + Len(f[from].of)
  IN  [ok |-> end <= to, plain |-> SubSeq(f, from + 1, IF end <= to THEN end ELSE to),
       next |-> end + 1]

Inflate(f, from, to) ==
  IF from > to THEN [ok |-> FALSE, plain |-> << >>, next |-> from]
  ELSE IF f[from].kind = "packed" THEN InflatePacked(f, from, to)
  ELSE IF f[from].kind = "stored" /\ f[from].x = "ok" THEN InflateStored(f, from, to)
  ELSE [ok |-> FALSE, plain |-> << >>, next |-> from]

\* gz_body_start: behind the optional fields, or at the end of the file.
BodyStart(f) == IF 2 + f[1].extra > Len(f) THEN Len(f) + 1 ELSE 2 + f[1].extra

-----------------------------------------------------------------------------
GZ_MIN_SIZE == 18

\* Mutant: the length in the trailer is not looked at.
TrailerDefectsCrcOnly(f, plain) ==
  IF Vouches(f[Len(f)], plain) THEN << >> ELSE <<"GZ_ICRC_001">>

\* The checks of the last eight bytes.
TrailerDefects(f, plain) ==
  (IF Vouches(f[Len(f)], plain) THEN << >> ELSE <<"GZ_ICRC_001">>)
    \o (IF Counts(f[Len(f)], plain) THEN << >> ELSE <<"GZ_ISIZE_001">>)

\* gz_defects: one member is looked for, and its trailer at the end of the file.
\* A body that is not there or does not inflate is not reported on top of the
\* magic.
GzDefects(f) ==
  LET magic == IF f[1].magic THEN << >> ELSE <<"GZ_MAGIC_001">>
      body  == Inflate(f, BodyStart(f), Len(f) - 1)
  IN  IF Bytes(f) < GZ_MIN_SIZE THEN <<"GZ_TRUNC_001">>
      ELSE IF ~f[1].cm THEN Append(magic, "GZ_CM_001")
      ELSE IF body.ok THEN magic \o TrailerDefects(f, body.plain)
      ELSE IF f[1].magic THEN <<"GZ_TRUNC_001">> ELSE magic

\* identify: without a file name only the magic makes it a gzip file.
StartsAsGzip(f) == f[1].magic
=============================================================================
