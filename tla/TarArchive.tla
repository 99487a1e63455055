----------------------------- MODULE TarArchive -----------------------------
(***************************************************************************)
(* A TAR archive as the analyze engine reads it (reader/tar.rs) and the    *)
(* defects it reports (corruption/detector.rs, tar_defects).               *)
(*                                                                         *)
(* A file is a sequence of 512-byte blocks and at most half a block after  *)
(* them; sizes are counted in half blocks, so that a payload may end       *)
(* inside a block.  A block is all zeros, a UStar header, or data, of which *)
(* the first half or all of it is used.  sum says whether the stored       *)
(* checksum of a header is the one of its fields as they are.  Data is no  *)
(* header with a valid checksum, and has no octal digits where a header    *)
(* has its size; a payload that is itself an archive has headers in it.    *)
(***************************************************************************)
EXTENDS Integers, Sequences, FiniteSets

Zero == [kind |-> "zero"]

Header(tag, size) == [kind |-> "head", tag |-> tag, magic |-> TRUE, sum |-> "ok", size |-> size]

Data(tag, used) == [kind |-> "data", tag |-> tag, used |-> used]

HalfRecords == [kind : {"zero"}] \cup [kind : {"data"}, tag : STRING, used : {1}]

BlockRecords ==
  HalfRecords \cup [kind : {"data"}, tag : STRING, used : {2}]
    \cup [kind : {"head"}, tag : STRING, magic : BOOLEAN, sum : {"ok", "bad"}, size : Nat]

Archives == {a \in [blocks : Seq(BlockRecords), rest : Seq(HalfRecords)] : Len(a.rest) <= 1}

IsZero(b)   == b.kind = "zero"
HasMagic(b) == b.kind = "head" /\ b.magic
SumOk(b)    == b.kind = "head" /\ b.sum = "ok"
EndsInZeros(b) == IsZero(b) \/ (b.kind = "data" /\ b.used = 1)
SizeIn(b)   == IF b.kind = "head" THEN b.size ELSE 0

\* Blocks the data of a header takes, and the length of a file.
DataBlocks(b) == (SizeIn(b) + 1) \div 2
HalfBlocks(a) == 2 * Len(a.blocks) + Len(a.rest)

\* The data of the header at p runs past the end.
CutShort(a, p) == p + DataBlocks(a.blocks[p]) > Len(a.blocks)

TwoZeros(a, p) == p < Len(a.blocks) /\ IsZero(a.blocks[p]) /\ IsZero(a.blocks[p + 1])

\* TarReader::parse, from block 1: what is no zero block is taken for a header,
\* whatever its magic and its checksum, and its size leads to the next one; two
\* zero blocks in a row, or a size that leads out of the file, end the walk.
ReadBlocks(a) ==
  LET read[p \in 1 .. Len(a.blocks) + 1] ==
        IF p > Len(a.blocks) THEN {}
        ELSE {p} \cup IF TwoZeros(a, p) \/ CutShort(a, p) THEN {}
                      ELSE read[p + 1 + DataBlocks(a.blocks[p])]
  IN  read[1]

ChecksumFailures(a) == {p \in ReadBlocks(a) : ~IsZero(a.blocks[p]) /\ ~SumOk(a.blocks[p])}

Truncation(a) == \E p \in ReadBlocks(a) : CutShort(a, p)

Terminated(a) == \E p \in ReadBlocks(a) : TwoZeros(a, p)

\* tar_defects.
TarDefects(a) ==
  [k \in 1 .. Cardinality(ChecksumFailures(a)) |-> "TAR_UST_001"]
    \o (IF Truncation(a) THEN <<"TAR_TRUNC_002">>
        ELSE IF ~Terminated(a) THEN <<"TAR_TERM_001">> ELSE << >>)

\* identify: without a file name only the magic of the first block makes it a TAR.
HeadIsTar(a) == a.blocks # << >> /\ HasMagic(a.blocks[1])

\* The member whose header is the block at p: it and its data, as far as it goes.
MemberAt(a, p) ==
  LET file == a.blocks \o a.rest
      last == p + DataBlocks(a.blocks[p])
  IN  SubSeq(file, p, IF last > Len(file) THEN Len(file) ELSE last)
=============================================================================
