---------------------------- MODULE GzipRecovery ----------------------------
(***************************************************************************)
(* The recovery engine at work on gzip files.                              *)
(***************************************************************************)
EXTENDS RecoveryProperties, GzipRepair

\* analyze_source of a file called *.gz, and of a sink called "recovered".
SeenIn(f) ==
  [format |-> "Gzip", named |-> GzDefects(f),
   anon |-> IF StartsAsGzip(f) THEN GzDefects(f) ELSE << >>,
   locked |-> FALSE, directory |-> "absent"]

StagedAs(bytes, recovered, lost, holds) ==
  {IF holds THEN [bytes |-> bytes, recovered |-> recovered, lost |-> lost]
            ELSE [bytes |-> NoBytes, recovered |-> 0, lost |-> 0]}

\* apply of the strategies that encode content anew, if there is any.
Reencoded(plain, lost) == StagedAs(Encoded(plain), Bytes(plain), lost, plain # << >>)

\* apply of every strategy: those for other formats find nothing in a gzip file.
StagedFor(s, f) ==
  CASE s \in Verbatim             -> StagedAs(f, Bytes(f), 0, TRUE)
    [] s = "gz-magic-restore"     -> StagedAs(MagicRestored(f), Bytes(f), 0, TRUE)
    [] s = "gz-trailer-recompute" -> IF RecomputeHolds(f)
                                     THEN StagedAs(TrailerRecomputed(f), Bytes(f), 0, TRUE)
                                     ELSE StagedAs(f, 0, 0, FALSE)
    [] s = "gz-partial-inflate"   -> LET plain == PartialPlain(f)
                                         left  == Bytes(f) - Bytes(plain)
                                     IN  Reencoded(plain, IF left > 0 THEN left ELSE 0)
    [] s = "gz-member-salvage"    -> IF SalvagePanics(f) THEN {}
                                     ELSE Reencoded(SalvagedPlain(f), UnverifiedBytes(f))
    [] OTHER                      -> StagedAs(f, 0, 0, FALSE)

\* The engine's contents are gzip files, its analyzer is the detector, its
\* strategies are the ones above, and what two of them write is told from an empty
\* sink.
ASSUME StreamsAssumption ==
  /\ \A f \in Blobs : IsStream(f) /\ Seen[f] = SeenIn(f) /\ MagicRestored(f) # NoBytes
  /\ \A f \in {j.src : j \in Jobs} :
       /\ \A s \in Strategies : Staged[s][f] = StagedFor(s, f)
       /\ Encoded(SalvagedPlain(f)) # NoBytes

-----------------------------------------------------------------------------
\* Members proven anywhere in the file, by the trailer of what they inflate to, and
\* the outermost of them: the ones that begin inside no other outermost one.
ProvenMembers(f) ==
  {p \in DOMAIN f :
     /\ IsStart(f[p]) /\ HasHeader(f, p)
     /\ LET m == InflateMember(f, p)
        IN  m.ok /\ m.next <= Len(f) /\ f[m.next] = Trailer(m.plain)}

Outside(f, ps) == {p \in ProvenMembers(f) : \A q \in ps : q < p => InflateMember(f, q).next < p}

Outermost(f) == CHOOSE ps \in SUBSET ProvenMembers(f) : ps = Outside(f, ps)

PlainOf(f, p) == InflateMember(f, p).plain

\* What a reader that skips damaged members gets out of a file.
ReadableContent(f) ==
  FlattenSeq([p \in DOMAIN f |-> IF p \in Outermost(f) THEN PlainOf(f, p) ELSE << >>])

\* "Every recovered byte is CRC32+ISIZE-proven content - never fabricated" and one
\* bad member "no longer poisons the rest": what gz-member-salvage publishes is a
\* file without a defect that holds, in their order, exactly the members of the
\* source whose trailers match, whatever stands between them.
SalvageIsProven ==
  Published /\ LastKept.by = "gz-member-salvage" =>
    /\ GzDefects(output) = << >>
    /\ ReadableContent(output) = ReadableContent(job.src)

Holds(plain, part) ==
  \E i \in 0 .. Len(plain) - Len(part) : SubSeq(plain, i + 1, i + Len(part)) = part

KeepsMembers(g, f) ==
  \A p \in Outermost(f) : \E q \in ProvenMembers(g) : Holds(PlainOf(g, q), PlainOf(f, p))

\* No repair costs a member that is proven in the source, although the detector
\* and three of the strategies take a file for a single member; an undamaged
\* file of several members, which the detector reports for its trailer, included.
\* (A caller that asks for everything to be tried gets the last output kept, one
\* that names a strategy gets that one's, and one whose reference has not got the
\* member gets the reference.)
NoProvenMemberIsLost ==
  (/\ Published /\ ~job.aggressive /\ job.forced = "auto"
   /\ job.ref # NoBytes => KeepsMembers(job.ref, job.src))
    => KeepsMembers(output, job.src)

WrongCells(seq) == {i \in DOMAIN seq : seq[i] = Wrong}

\* Every checksum was made of right bytes.
TrailersAreRight(f) == \A p \in DOMAIN f : f[p].kind = "trailer" => WrongCells(f[p].crc) = {}

\* A checksum fitted to wrong bytes: when a published file has wrong bytes in a
\* member whose trailer matches, they come from gz-partial-inflate, and the
\* manifest vouches for none of them.  gz-trailer-recompute, which would bless
\* them, only ever publishes what the reference confirms.  (The source's own
\* checksums, and the reference's, are older than the damage.)
FittedChecksumsAreFlagged ==
  (/\ Published /\ TrailersAreRight(job.src) /\ (job.ref # NoBytes => TrailersAreRight(job.ref))
   /\ WrongCells(ReadableContent(output)) # {})
    => /\ LastKept.by = "gz-partial-inflate"
       /\ report.manifest_path =>
            sidecar.verified = 0 /\ \A r \in sidecar.repairs : r.guarantee = "Lost"

WithMagic(f) == [f EXCEPT ![1].magic = TRUE]

\* Nothing is wrong but the two bytes of the magic.
OnlyMagicDamaged(f) ==
  /\ ~f[1].magic
  /\ LET g == WithMagic(f)
     IN  \A p \in DOMAIN g : g[p].kind = "fixed" => IsStart(g[p]) /\ Proven(g, p)

\* Damage to the magic alone is undone byte for byte, in a file of several members
\* too, where other strategies apply and each drops something.
MagicDamageIsUndone ==
  (/\ result = "report" /\ AsksForFile(job) /\ ~job.aggressive /\ job.forced = "auto"
   /\ job.found = GzDefects(job.src) /\ OnlyMagicDamaged(job.src))
    => report.success /\ output = WithMagic(job.src)

\* gz-partial-inflate gives up no more than the eight bytes it takes for a trailer:
\* its content is the start of what inflates from the file, one cell shorter at
\* most, and all of it unless the stream was cut and runs into the last eight bytes.
PartialKeepsThePrefix ==
  Published /\ LastKept.by = "gz-partial-inflate" =>
    LET all   == Inflate(job.src, BodyStart(job.src), Len(job.src))
        plain == PlainOf(output, 1)
    IN  /\ plain = SubSeq(all.plain, 1, Len(plain))
        /\ Len(plain) >= Len(all.plain) - 1
        /\ all.next <= Len(job.src) => plain = all.plain

\* A file that the engine calls clean and leaves alone is proven by its own trailer,
\* and that member is all there is to read in it: the detector, which finds the
\* trailer from the end of the file, and the salvage, which finds it behind the
\* stream, agree.  (The stream has to run up to the last eight bytes: of several
\* members the detector compares the content of the first with the trailer of the
\* last, and bytes between a stream and the trailer are not looked at.)
CleanMeansProven ==
  (/\ result = "report" /\ job.caller = "cli" /\ IsClean(job)
   /\ InflateMember(job.src, 1).next >= Len(job.src))
    => 1 \in ProvenMembers(job.src) /\ ReadableContent(job.src) = PlainOf(job.src, 1)

-----------------------------------------------------------------------------
\* Claims of the documentation that the code does not keep.

\* resync/gzip.rs:22-23, of salvage_gzip: "Read-only; never panics."
SalvageNeverPanics ==
  pc = "pass" => \A s \in todo : Turn(s) => Staged[s][job.src] # {}
=============================================================================
