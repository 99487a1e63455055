--------------------------- MODULE MCGzipRecovery ---------------------------
(***************************************************************************)
(* Small gzip files, intact and damaged in up to two places, for the       *)
(* recovery engine.                                                        *)
(***************************************************************************)
EXTENDS GzipRecovery

A == Letter("a")
B == Letter("b")
C == Letter("c")

Member(fields, body, of) == <<Fixed(Len(fields))>> \o fields \o body \o <<Trailer(of)>>

PackedMember(fields, of) == Member(fields, PackedBody(of), of)
StoredMember(of)         == Member(<< >>, StoredBody(of), of)

Name   == <<Optional(FALSE)>>
Tricky == <<Optional(TRUE)>>   \* a name with 1F 8B 08 in it

\* One member, with a name, with a tricky one; an empty one before another; three,
\* one of them stored; two alike; a gzip file stored in a gzip file.
Intact ==
  {PackedMember(<< >>, <<A, B>>),
   PackedMember(Name, <<A, B, C>>),
   PackedMember(Tricky, <<A, B>>),
   PackedMember(<< >>, << >>) \o PackedMember(Name, <<A, B>>),
   PackedMember(<< >>, <<A>>) \o StoredMember(<<B>>) \o PackedMember(<< >>, <<C>>),
   PackedMember(<< >>, <<A>>) \o PackedMember(<< >>, <<A>>),
   StoredMember(PackedMember(<< >>, <<B>>)) \o PackedMember(<< >>, <<C>>)}

\* What one blow can do to a cell: to a field, to its content, or take it out.
Blows == {"magic", "method", "claims none", "claims one", "claims more", "claims too much",
          "wrong", "error", "crc", "isize", "out", "cut"}

Field(c, name) == c.kind = "fixed" /\ name \in {"magic", "method", "claims none", "claims one",
                                                 "claims more", "claims too much"}

FieldStruck(c, how) ==
  CASE how = "magic"           -> [c EXCEPT !.magic = FALSE]
    [] how = "method"          -> [c EXCEPT !.cm = FALSE]
    [] how = "claims none"     -> [c EXCEPT !.extra = 0]
    [] how = "claims one"      -> [c EXCEPT !.extra = 1]
    [] how = "claims more"     -> [c EXCEPT !.extra = 4]
    [] how = "claims too much" -> [c EXCEPT !.extra = 40]

\* The file with the cell at p struck, or as it is where the blow cannot fall.
Struck(f, p, how) ==
  IF p > Len(f) THEN f
  ELSE IF Field(f[p], how) THEN [f EXCEPT ![p] = FieldStruck(f[p], how)]
  ELSE IF f[p].kind = "packed" /\ how \in {"wrong", "error"} THEN [f EXCEPT ![p].x = how]
  ELSE IF f[p].kind = "stored" /\ how = "error" THEN [f EXCEPT ![p].x = how]
  ELSE IF f[p].kind = "letter" /\ how = "wrong" THEN [f EXCEPT ![p] = Wrong]
  ELSE IF f[p].kind = "trailer" /\ how = "crc" THEN [f EXCEPT ![p].crc = <<Letter("noise")>>]
  ELSE IF f[p].kind = "trailer" /\ how = "isize" THEN [f EXCEPT ![p].isize = 1]
  ELSE IF f[p].kind # "fixed" /\ how = "out" THEN RemoveAt(f, p)
  ELSE IF p > 1 /\ how = "cut" THEN SubSeq(f, 1, p - 1)
  ELSE f

MaxLen == 10

\* Each file, struck up to twice, with the one it was.
Damaged ==
  {[src |-> Struck(Struck(f, p, how), q, then), was |-> f]
     : f \in Intact, how \in Blows, then \in Blows,
       p, q \in 1 .. MaxLen}

Sources == {d.src : d \in Damaged}

\* What a run can meet: the sources and what is staged for them.
Product(f, s) ==
  CASE s = "source"   -> f
    [] s = "magic"    -> MagicRestored(f)
    [] s = "trailer"  -> IF RecomputeHolds(f) THEN TrailerRecomputed(f) ELSE f
    [] s = "partial"  -> Encoded(PartialPlain(f))
    [] s = "salvaged" -> Encoded(SalvagedPlain(f))

World == {Product(f, s) : f \in Sources, s \in {"source", "magic", "trailer", "partial", "salvaged"}}

SeenTable   == [f \in World |-> SeenIn(f)]
SizeTable   == [f \in World |-> Bytes(f)]
StagedTable == LET sources == Sources
               IN  [s \in Strategies |-> [f \in sources |-> StagedFor(s, f)]]

Request(src, ref, caller) ==
  [caller |-> caller, src |-> src, found |-> GzDefects(src), ref |-> ref,
   listed |-> ref # NoBytes, hash_agrees |-> TRUE, output |-> TRUE,
   same_path |-> FALSE, forced |-> "auto", aggressive |-> FALSE, dry_run |-> FALSE,
   write_manifest |-> caller = "cli"]

Calls ==
  {IF with = "reference" THEN Request(d.src, d.was, "cli")
   ELSE IF with = "aggressive" THEN [Request(d.src, NoBytes, "api") EXCEPT !.aggressive = TRUE]
   ELSE Request(d.src, NoBytes, "cli")
     : d \in Damaged, with \in {"nothing", "reference", "aggressive"}}

\* The constants, under names of their own (see MCTarRecovery).
MCBlobs  == World
MCSeen   == SeenTable
MCSizeOf == SizeTable
MCStaged == StagedTable
MCJobs   == Calls
=============================================================================
