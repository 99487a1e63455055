------------------------------ MODULE TarRepair ------------------------------
(***************************************************************************)
(* The strategies that compute a new TAR archive: tar-checksum-fix,        *)
(* tar-terminator-append, tar-size-resync and tar-continuation-salvage     *)
(* with the resync module it calls.  Each finds headers by a walk of its   *)
(* own, none of which is the reader's.                                     *)
(***************************************************************************)
EXTENDS TarArchive, SequencesExt

Blank == <<Zero, Zero>>

-----------------------------------------------------------------------------
\* Mutant: one block too many is stepped over.
HeadersWalkedTooFar(a) ==
  LET walk[p \in 1 .. Len(a.blocks) + 2] ==
        IF p > Len(a.blocks) \/ IsZero(a.blocks[p]) THEN {}
        ELSE IF ~HasMagic(a.blocks[p]) THEN walk[p + 1]
        ELSE {p} \cup IF CutShort(a, p) THEN {} ELSE walk[p + 2 + DataBlocks(a.blocks[p])]
  IN  walk[1]

\* tar-checksum-fix: a zero block ends the walk, a block without the magic is
\* stepped over, and the size of a header is believed before it is known to be
\* right.
HeadersWalked(a) ==
  LET walk[p \in 1 .. Len(a.blocks) + 1] ==
        IF p > Len(a.blocks) \/ IsZero(a.blocks[p]) THEN {}
        ELSE IF ~HasMagic(a.blocks[p]) THEN walk[p + 1]
        ELSE {p} \cup IF CutShort(a, p) THEN {} ELSE walk[p + 1 + DataBlocks(a.blocks[p])]
  IN  walk[1]

\* Every checksum on the way is made to match its header.  (Nothing is staged
\* for a file of zeros.)
ChecksumsFixed(a) ==
  [a EXCEPT !.blocks = [p \in DOMAIN @ |-> IF p \in HeadersWalked(a) THEN [@[p] EXCEPT !.sum = "ok"]
                                                                  ELSE @[p]]]

AllZero(a) == \A b \in ToSet(a.blocks \o a.rest) : IsZero(b)

-----------------------------------------------------------------------------
\* tar-terminator-append: the file ends with 1024 zero bytes already, or they
\* are appended.  Behind half a block they fill it up, and half of them is left.
Ended(a) ==
  LET n == Len(a.blocks)
  IN  /\ n >= 2 /\ IsZero(a.blocks[n])
      /\ \/ a.rest = << >> /\ IsZero(a.blocks[n - 1])
         \/ a.rest = <<Zero>> /\ EndsInZeros(a.blocks[n - 1])

TerminatorAppended(a) ==
  IF Ended(a) THEN a
  ELSE IF a.rest = << >> THEN [a EXCEPT !.blocks = @ \o Blank]
  ELSE [blocks |-> a.blocks \o a.rest \o <<Zero>>, rest |-> <<Zero>>]

-----------------------------------------------------------------------------
\* tar-size-resync: every block with the magic is a header, and its data cannot
\* reach the next one or the end of the archive.
MagicBlocks(a) == {p \in DOMAIN a.blocks : HasMagic(a.blocks[p])}

\* find_end_of_archive: the first of two zero blocks, or the end of the file.
EndOfArchive(a) ==
  LET ends == {p \in DOMAIN a.blocks : TwoZeros(a, p)} \cup {Len(a.blocks) + 1}
  IN  CHOOSE p \in ends : \A q \in ends : p <= q

\* Blocks between the header at p and the next boundary.
Room(a, p) ==
  LET after    == {q \in MagicBlocks(a) : q > p}
      boundary == IF after = {} THEN EndOfArchive(a)
                  ELSE CHOOSE q \in after : \A r \in after : q <= r
  IN  IF boundary > p THEN boundary - p - 1 ELSE 0

\* A size that fits is believed, one that does not becomes all the room.
ResyncedMember(a, p) ==
  LET head == a.blocks[p]
      fits == DataBlocks(head) <= Room(a, p)
      data == IF fits THEN DataBlocks(head) ELSE Room(a, p)
  IN  <<[head EXCEPT !.sum = "ok", !.size = IF fits THEN @ ELSE 2 * Room(a, p)]>>
        \o SubSeq(a.blocks, p + 1, p + data)

Resynced(a) ==
  [blocks |-> FlattenSeq([p \in DOMAIN a.blocks |->
                            IF p \in MagicBlocks(a) THEN ResyncedMember(a, p) ELSE << >>]) \o Blank,
   rest   |-> << >>]

-----------------------------------------------------------------------------
\* tar-continuation-salvage (salvage_tar): zero blocks, blocks without the magic
\* and headers that fail their checksum are stepped over; a member that is not
\* all there ends the walk and is not taken.
Whole(a, p) == 2 * p + SizeIn(a.blocks[p]) <= HalfBlocks(a)

\* Mutants: a header is believed without its checksum; a zero block is the end.
SalvagedUnproven(a) ==
  LET walk[p \in 1 .. Len(a.blocks) + 2] ==
        IF p > Len(a.blocks) THEN {}
        ELSE IF ~HasMagic(a.blocks[p]) THEN walk[p + 1]
        ELSE IF ~Whole(a, p) THEN {}
        ELSE {p} \cup walk[p + 1 + DataBlocks(a.blocks[p])]
  IN  walk[1]

SalvagedUpToZero(a) ==
  LET walk[p \in 1 .. Len(a.blocks) + 2] ==
        IF p > Len(a.blocks) \/ IsZero(a.blocks[p]) THEN {}
        ELSE IF ~(HasMagic(a.blocks[p]) /\ SumOk(a.blocks[p])) THEN walk[p + 1]
        ELSE IF ~Whole(a, p) THEN {}
        ELSE {p} \cup walk[p + 1 + DataBlocks(a.blocks[p])]
  IN  walk[1]

Salvaged(a) ==
  LET walk[p \in 1 .. Len(a.blocks) + 2] ==
        IF p > Len(a.blocks) THEN {}
        ELSE IF ~(HasMagic(a.blocks[p]) /\ SumOk(a.blocks[p])) THEN walk[p + 1]
        ELSE IF ~Whole(a, p) THEN {}
        ELSE {p} \cup walk[p + 1 + DataBlocks(a.blocks[p])]
  IN  walk[1]

\* The members as they stand in the source, and a terminator.
SalvagedArchive(a) ==
  [blocks |-> FlattenSeq([p \in DOMAIN a.blocks |->
                            IF p \in Salvaged(a) THEN MemberAt(a, p) ELSE << >>]) \o Blank,
   rest   |-> << >>]
=============================================================================
