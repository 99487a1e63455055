------------------------------ MODULE ZipRepair ------------------------------
(***************************************************************************)
(* The two strategies that repair a ZIP archive: zip-rebuild writes a new  *)
(* central directory from the local headers, zip-crc-fix corrects checksum *)
(* fields that a surviving copy disproves.  Neither touches a payload.     *)
(***************************************************************************)
EXTENDS ZipArchive, FiniteSets

\* Mutant: a header whose payload runs past the end of the file is accepted.
ParsesUnbounded(l) == l.sig /\ ~(l.streamed /\ l.size = "zero")

\* scan_local_headers accepts a header whose payload it can step over or that
\* it believes it can, ...
Parses(l) == l.sig /\ l.size # "past" /\ ~(l.streamed /\ l.size = "zero")

\* ... and goes on only where the size leads to the next header: a streamed
\* entry with sizes is followed by its data descriptor.
LeadsOn(l) == Parses(l) /\ l.size = "true" /\ ~l.streamed

\* Mutant: a stored member ends the walk.
WalkedCompressed(a) ==
  {i \in DOMAIN a.locals :
     /\ Parses(a.locals[i])
     /\ \A k \in 1 .. i - 1 : LeadsOn(a.locals[k]) /\ ~a.locals[k].stored}

\* The headers found: those before the first one that stops the walk.
Walked(a) ==
  {i \in DOMAIN a.locals : Parses(a.locals[i]) /\ \A k \in 1 .. i - 1 : LeadsOn(a.locals[k])}

\* The values of a u16.
U16 == 65536

\* zip-rebuild: the walked part of the file, and a directory that repeats what
\* its local headers say.  The count is a u16.  (A last payload whose size is
\* "short" is cut there, which its size already says.)
Rebuilt(a) ==
  LET n == Cardinality(Walked(a))
  IN  [locals   |-> SubSeq(a.locals, 1, n),
       cd       |-> [i \in 1 .. n |-> [at |-> i, size |-> a.locals[i].size,
                                       crc |-> a.locals[i].crc]],
       eocd     |-> "ok",
       declared |-> n % U16]

-----------------------------------------------------------------------------
\* zip-crc-fix looks for local headers everywhere in the file and recomputes
\* the checksum of the payloads it can delimit; a streamed header whose size runs
\* past the end takes it there at once.
Judged(a, i) ==
  LET l == a.locals[i]
  IN  /\ l.sig /\ ~l.streamed /\ l.size # "past"
      /\ \A k \in 1 .. i - 1 :
           ~(a.locals[k].sig /\ a.locals[k].streamed /\ a.locals[k].size = "past")

Recomputed(l) == CrcOver(l, l.size)

\* Mutant: the payload is believed against every checksum.
HeaderRefitted(a, i) ==
  LET l == a.locals[i] IN Judged(a, i) /\ l.size = "true" /\ Recomputed(l) # l.crc

\* The payload disproves the header, and the directory agrees with the payload.
HeaderDisproved(a, i) ==
  LET l == a.locals[i]
  IN  /\ Judged(a, i) /\ Recomputed(l) # l.crc
      /\ \E k \in DOMAIN Entries(a) :
           Entries(a)[k].at = i /\ Entries(a)[k].crc = Recomputed(l)

\* Payload and header agree against the directory's copy.
RecordDisproved(a, k) ==
  LET l == a.locals[Entries(a)[k].at]
  IN  Judged(a, Entries(a)[k].at) /\ Recomputed(l) = l.crc /\ Entries(a)[k].crc # Recomputed(l)

CrcFixable(a) ==
  \/ \E i \in DOMAIN a.locals : HeaderDisproved(a, i)
  \/ \E k \in DOMAIN Entries(a) : RecordDisproved(a, k)

CrcFixed(a) ==
  [a EXCEPT
     !.locals = [i \in DOMAIN @ |->
                   IF HeaderDisproved(a, i) THEN [@[i] EXCEPT !.crc = Recomputed(a.locals[i])] ELSE @[i]],
     !.cd     = [k \in DOMAIN @ |->
                   IF k \in DOMAIN Entries(a) /\ RecordDisproved(a, k)
                   THEN [@[k] EXCEPT !.crc = Recomputed(a.locals[a.cd[k].at])] ELSE @[k]]]
=============================================================================
