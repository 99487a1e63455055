---------------------------- MODULE MCZipRecovery ----------------------------
(***************************************************************************)
(* Small ZIP archives, intact and damaged in up to two places, for the     *)
(* recovery engine.                                                        *)
(***************************************************************************)
EXTENDS ZipRecovery

Stored   == [sig |-> TRUE, streamed |-> FALSE, stored |-> TRUE, size |-> "true",
             crc |-> "ok", body |-> "ok"]
Deflated == [Stored EXCEPT !.stored = FALSE]
Streamed == [Deflated EXCEPT !.streamed = TRUE, !.size = "zero", !.crc = "zero"]
Sized    == [Deflated EXCEPT !.streamed = TRUE]

\* The same archive; TLC computes the sequences once, not at every use.
Settled(a) == [a EXCEPT !.locals = SubSeq(@, 1, Len(@)), !.cd = SubSeq(@, 1, Len(@))]

Written(members) == Settled(
  [locals   |-> members,
   cd       |-> [i \in DOMAIN members |-> [at |-> i, size |-> "true", crc |-> "ok"]],
   eocd     |-> "ok",
   declared |-> Len(members)])

Intact == {Written(members) : members \in
             {<<Stored>>, <<Streamed>>, <<Stored, Deflated>>, <<Sized, Stored>>,
              <<Stored, Streamed, Stored>>}}

\* Everything one blow can do: to the end record, to the directory, to one
\* member's header, checksums, sizes or payload, or to the tail of the file.
Blows(a) ==
  {[a EXCEPT !.eocd = e] : e \in {"astray", "oob", "missing"}}
    \cup {[a EXCEPT !.declared = 0]}
    \cup {[a EXCEPT !.cd = SubSeq(@, 1, k)] : k \in 0 .. Len(a.cd) - 1}
    \cup {[a EXCEPT !.cd[k].crc = "junk"] : k \in DOMAIN a.cd}
    \cup {[a EXCEPT !.cd[k].size = "wrong"] : k \in DOMAIN a.cd}
    \cup {[a EXCEPT !.locals[i].sig = FALSE] : i \in DOMAIN a.locals}
    \cup {[a EXCEPT !.locals[i].crc = "junk"] : i \in DOMAIN a.locals}
    \cup {[a EXCEPT !.locals[i].size = z] : i \in DOMAIN a.locals, z \in {"short", "past"}}
    \cup {[a EXCEPT !.locals[i].body = "bad"] : i \in DOMAIN a.locals}
    \cup {[a EXCEPT !.locals = [SubSeq(@, 1, i) EXCEPT ![i].size = "past"],
                    !.cd = << >>, !.eocd = "missing"] : i \in DOMAIN a.locals}

\* Each damaged archive, with the one it was.
Damaged ==
  UNION {LET once == Blows(a)
         IN  {[src |-> b, was |-> a] : b \in once \cup UNION {Blows(b) : b \in once}}
           : a \in Intact}

Sources == Intact \cup {d.src : d \in Damaged}

\* What a run can meet: the sources and what is staged for them.
World ==
  Sources \cup {Settled(CrcFixed(a)) : a \in {b \in Sources : CrcFixable(b)}}
          \cup {Settled(Rebuilt(a)) : a \in {b \in Sources : Walked(b) # {}}}

SeenTable   == [a \in World |-> SeenIn(a)]
SizeTable   == [a \in World |-> LengthOf(a)]

StagedTable == [s \in Strategies |-> [a \in Sources |-> StagedFor(s, a)]]

Request(src, ref, caller) ==
  [caller |-> caller, src |-> src, found |-> ZipDefects(src), ref |-> ref,
   listed |-> ref # NoBytes, hash_agrees |-> TRUE, output |-> TRUE,
   same_path |-> FALSE, forced |-> "auto", aggressive |-> FALSE, dry_run |-> FALSE,
   write_manifest |-> caller = "cli"]

Calls ==
  {Request(a, NoBytes, "cli") : a \in Sources}
    \cup {Request(d.src, d.was, "cli") : d \in Damaged}
    \cup {[Request(a, NoBytes, "api") EXCEPT !.aggressive = TRUE] : a \in Sources}

\* Command line runs on archives whose directory has the size of a member wrong, and
\* nothing else.
Mismatched == {a \in Sources : ZipDefects(a) = <<"ZIP_SIZE_001">>}

\* The constants.  TLC computes a definition once when it is used by its own
\* name, and at every use when it stands for a constant: hence the two names.
MCBlobs  == World
MCSeen   == SeenTable
MCSizeOf == SizeTable
MCStaged == StagedTable
MCJobs   == Calls
MCMismatchedJobs == {Request(a, NoBytes, "cli") : a \in Mismatched}
=============================================================================
