----------------------------- MODULE MCZipParse -----------------------------
(***************************************************************************)
(* Small ZIP archives, intact and damaged, for the ZIP core.               *)
(***************************************************************************)
EXTENDS ZipRecovered

\* Payload cells.  Where a header was expected their bytes may read as short or as
\* long lengths.
p == Payload("p", 1)
q == Payload("q", 9)

Member(name, method, bytes) ==
  [name |-> name, method |-> method, bytes |-> bytes, streamed |-> FALSE, lock |-> "none"]

Stream(m) == IF m.method = "stored" THEN m.bytes ELSE [i \in 1 .. 2 |-> Deflated(m.bytes, i, 2)]

MetaOf(m) == [Meta(m.name, m.method, m.bytes, Len(Stream(m))) EXCEPT !.streamed = m.streamed, !.lock = m.lock]

\* Header and payload: a streamed member keeps size and checksum in a descriptor.
Body(m) ==
  IF m.streamed
  THEN <<Local([MetaOf(m) EXCEPT !.csize = 0, !.usize = 0, !.crc = << >>])>> \o Stream(m) \o <<Descriptor>>
  ELSE <<Local(MetaOf(m))>> \o Stream(m)

Bodies(ms) == LET upto[i \in 0 .. Len(ms)] == IF i = 0 THEN << >> ELSE upto[i - 1] \o Body(ms[i])
              IN  upto[Len(ms)]

Pack(ms) ==
  Bodies(ms) \o [i \in DOMAIN ms |-> Central(MetaOf(ms[i]), Len(Bodies(SubSeq(ms, 1, i - 1))))]
    \o <<End(Len(ms), Len(ms), Len(Bodies(ms)))>>

a(bytes) == Member(<<"a">>, "stored", bytes)
b(bytes) == Member(<<"b">>, "stored", bytes)
Inner == Pack(<<Member(<<"x">>, "stored", <<p>>)>>)

Plain    == <<a(<<p, q>>), Member(<<"b">>, "deflated", <<q>>), Member(<<"d", "e">>, "stored", << >>)>>
Streamed == <<[a(<<p>>) EXCEPT !.streamed = TRUE], b(<<q, p>>)>>
Nesting  == <<a(Inner), b(<<p>>)>>
Clashing == <<a(<<p>>), a(<<q>>), Member(<<"A">>, "stored", <<p, p>>)>>

\* Everything that is refused for its name, its method or a lock, and too many members.
Odd ==
  <<Member(<<"d", "">>, "stored", << >>), Member(<<"..", "a">>, "stored", <<p>>),
    Member(<<"xff">>, "stored", <<p>>), [a(<<q>>) EXCEPT !.lock = "encrypted"],
    [b(<<q>>) EXCEPT !.lock = "zip64_unsupported"], Member(<<"c">>, "bzip2", <<p>>)>>

Large == <<a(<<p, p, p, p, p, p, p>>), b(<<q, q, q, q>>), Member(<<"c">>, "stored", <<p, q, p, q>>)>>

\* The checksum of something else.
Garbled == <<p, p, p>>

\* One blow to a file, at a cell: a piece is cut out (the head or the tail of the file
\* too), something is put in, a cell or a field is overwritten.  A blow that does not
\* fit leaves the file as it is.
Longest == 16

Cuts    == {"cut", "cut two", "cut tail", "cut in header"}
Inserts == {"pad", "plant", "plant named", "plant empty"}
Writes  == {"write p", "write q"}
Fields  == {"off 0", "off 1", "off past end", "csize + 1", "csize past end", "garble", "total 0", "end off + 1"}

Blows(kinds) == [at : 1 .. Longest, how : kinds]

Rest(f, i)      == SubSeq(f, i, Len(f))
PutIn(f, i, cs) == SubSeq(f, 1, i - 1) \o cs \o Rest(f, i)

Struck(f, blow) ==
  LET i == blow.at
      k == IF i \in DOMAIN f THEN f[i].kind ELSE "nothing"
  IN  CASE blow.how = "pad" /\ i <= Len(f) + 1 -> PutIn(f, i, <<p>>)
        [] blow.how = "plant" /\ i <= Len(f) + 1 -> PutIn(f, i, Body(Member(<<"g">>, "stored", <<p>>)))
        [] blow.how = "plant named" /\ i <= Len(f) + 1 -> PutIn(f, i, Body(b(<<p, p, q>>)))
        [] blow.how = "plant empty" /\ i <= Len(f) + 1 -> PutIn(f, i, Body(Member(<<"g">>, "stored", << >>)))
        [] blow.how = "cut" /\ i <= Len(f) -> SubSeq(f, 1, i - 1) \o Rest(f, i + 1)
        [] blow.how = "cut two" /\ i < Len(f) -> SubSeq(f, 1, i - 1) \o Rest(f, i + 2)
        [] blow.how = "cut tail" /\ i < Len(f) /\ i > 1 -> SubSeq(f, 1, i)
        [] blow.how = "cut in header" /\ k = "local" -> [SubSeq(f, 1, i) EXCEPT ![i].whole = FALSE]
        [] blow.how = "write p" /\ k # "nothing" -> [f EXCEPT ![i] = p]
        [] blow.how = "write q" /\ k # "nothing" -> [f EXCEPT ![i] = q]
        [] blow.how = "off 0" /\ k = "central" -> [f EXCEPT ![i].off = 0]
        [] blow.how = "off 1" /\ k = "central" -> [f EXCEPT ![i].off = 1]
        [] blow.how = "off past end" /\ k = "central" -> [f EXCEPT ![i].off = 50]
        [] blow.how = "csize + 1" /\ k \in {"local", "central"} -> [f EXCEPT ![i].meta.csize = @ + 1]
        [] blow.how = "csize past end" /\ k = "local" -> [f EXCEPT ![i].meta.csize = 50]
        [] blow.how = "garble" /\ k = "local" -> [f EXCEPT ![i].meta.crc = Garbled]
        [] blow.how = "total 0" /\ k = "end" -> [f EXCEPT ![i].total = 0]
        [] blow.how = "end off + 1" /\ k = "end" -> [f EXCEPT ![i].off = @ + 1]
        [] OTHER -> f

\* What the file was, for the properties: the members of the archive, the cells of each
\* and of the directory, and of an archive in the first member.
EachBody(ms) ==
  LET upto[i \in 0 .. Len(ms)] == IF i = 0 THEN << >> ELSE Append(upto[i - 1], Body(ms[i]))
  IN  upto[Len(ms)]

Original(ms) ==
  [was |-> ms, bodies |-> EachBody(ms),
   directory |-> SubSeq(Pack(ms), Len(Bodies(ms)) + 1, Len(Pack(ms))),
   inner |-> IF ms[1].bytes = Inner THEN Inner ELSE << >>]

\* The archives with their files; whether they are struck twice.
Files == {<<TRUE, Pack(Plain), Original(Plain)>>, <<TRUE, Pack(Streamed), Original(Streamed)>>,
          <<TRUE, Pack(Nesting), Original(Nesting)>>, <<TRUE, Pack(Clashing), Original(Clashing)>>,
          <<FALSE, Pack(Odd), Original(Odd)>>, <<FALSE, Pack(Large), Original(Large)>>}

\* A second blow, none, or a caller who knows that the directory is PHX's own.
Seconds == Blows({"cut", "cut tail", "pad", "plant", "plant named"})
             \cup {[at |-> 1, how |-> "none"], [at |-> 1, how |-> "distrust"]}

Damaged(n, x, y) ==
  IF n[1] /\ x.how \notin Writes THEN Struck(Struck(n[2], x), y) ELSE Struck(n[2], x)

JobTable ==
  {[file |-> Damaged(n, x, y), orig |-> n[3],
    provenance |-> IF y.how = "distrust" THEN "reconstructed" ELSE "original_surviving"]
     : n \in Files, x \in Blows(Cuts \cup Inserts \cup Writes \cup Fields), y \in Seconds}

\* A header with the name of the second member of an intact archive, and other bytes,
\* in front of it.
Preceded == [file |-> Struck(Pack(Plain), [at |-> 1, how |-> "plant named"]), orig |-> Original(Plain),
             provenance |-> "original_surviving"]

ContentTable ==
  {<< >>, <<p>>, <<q>>, <<p, q>>, <<q, p>>, <<p, p>>, <<p, p, q>>, Garbled, Inner}
    \cup {Large[i].bytes : i \in 1 .. 3}

\* The order of the names that occur, decoded.
RankedNames == << << >>, <<"..", "a">>, <<"A">>, <<"a">>, <<"b">>, <<"c">>, <<"d", "">>, <<"d", "e">>,
                  <<"g">>, <<"x">>, <<"xfffd">> >>

RankTable ==
  [n \in {RankedNames[i] : i \in DOMAIN RankedNames} |-> CHOOSE i \in DOMAIN RankedNames : RankedNames[i] = n]

\* The constants, by names of their own: a table is then made only once.
MCJobs      == JobTable
MCPreceded  == {Preceded}
MCContents  == ContentTable
MCParts     == {"", "..", "A", "a", "b", "c", "d", "e", "g", "x", "xff", "xfffd"}
MCNameRank  == RankTable
=============================================================================
