--------------------------- MODULE SignatureRepair ---------------------------
(***************************************************************************)
(* The two repairs that go by signatures alone: sevenz-signature-restore   *)
(* writes the signature of a 7z archive back, forensic-carve copies what   *)
(* begins with a known signature.                                          *)
(***************************************************************************)
EXTENDS FileDefects, FiniteSets, SequencesExt

\* Mutant: the constant is written without a proof.
RepairableUnproven(f) == StartHeaderRead(f) /\ HeadMark(f) # "7z"

\* repair_signature: only a signature that is wrong, and only in front of a Start
\* Header that its own checksum proves.
Repairable(f) == HeadMark(f) # "7z" /\ StartHeaderCrcOk(f)

SignatureRepaired(f) == [f EXCEPT !.cells[1].mark = "7z"]

-----------------------------------------------------------------------------
CarvedMarks == {"PK", "png", "jpg", "%PDF", "1F8B", "elf"}

\* scan_signatures.
Hits(f) == {p \in DOMAIN f.cells : f.cells[p].mark \in CarvedMarks}

\* The next signature, or the end of the file.
NextHit(f, p) ==
  CHOOSE q \in p + 1 .. Len(f.cells) + 1 :
    /\ q = Len(f.cells) + 1 \/ q \in Hits(f)
    /\ \A r \in p + 1 .. q - 1 : r \notin Hits(f)

\* Mutant: a region takes the next one's first cell along.
RegionInclusive(f, p) == SubSeq(f.cells, p, Min({NextHit(f, p), Len(f.cells)}))

\* From one signature to the next.
Region(f, p) == SubSeq(f.cells, p, NextHit(f, p) - 1)

\* The carved regions, one after the other.
Carved(f) ==
  [f EXCEPT !.cells = FlattenSeq([p \in DOMAIN @ |->
                                    IF p \in Hits(f) THEN Region(f, p) ELSE << >>])]

\* Length, in half cells.
Halves(f) == 2 * Len(f.cells) - (IF f.whole THEN 0 ELSE 1)
=============================================================================
