---------------------------- MODULE MCTarRecovery ----------------------------
(***************************************************************************)
(* Small TAR archives, intact and damaged in up to two places, for the     *)
(* recovery engine.                                                        *)
(***************************************************************************)
EXTENDS TarRecovery

\* Two files; an archive in a file; a file with a hole and, after a zero block, an
\* empty one.
Intact ==
  {[blocks |-> blocks \o Blank, rest |-> << >>] : blocks \in
     {<<Header("a", 2), Data("a", 2), Header("b", 1), Data("b", 1)>>,
      <<Header("a", 4), Header("in a", 2), Data("in a", 2), Header("b", 1), Data("b", 1)>>,
      <<Header("a", 3), Zero, Data("a", 1), Zero, Header("b", 0)>>}}

HalfOf(b) == CASE b.kind = "zero" -> Zero
               [] b.kind = "data" -> [b EXCEPT !.used = 1]
               [] b.kind = "head" -> Data("half a header", 1)

\* Everything one blow can do: to a field of a header, to a block, or to the tail.
Blows(a) ==
  LET heads == {p \in DOMAIN a.blocks : a.blocks[p].kind = "head"}
  IN  {[a EXCEPT !.blocks[p].sum = "bad"] : p \in heads}
        \cup {[a EXCEPT !.blocks[p].sum = "bad", !.blocks[p].magic = FALSE] : p \in heads}
        \cup {[a EXCEPT !.blocks[p].sum = "bad", !.blocks[p].size = n] : p \in heads, n \in {0, 4, 40}}
        \cup {[a EXCEPT !.blocks[p] = Zero] : p \in DOMAIN a.blocks}
        \cup {[a EXCEPT !.blocks = RemoveAt(@, p)] : p \in {q \in DOMAIN a.blocks : Len(a.blocks) > 1}}
        \cup UNION {{[blocks |-> SubSeq(a.blocks, 1, p - 1), rest |-> rest]
                       : rest \in {<< >>, <<HalfOf(a.blocks[p])>>}} : p \in 2 .. Len(a.blocks)}

\* Each damaged archive, with the one it was.
Damaged ==
  UNION {LET once == Blows(a)
         IN  {[src |-> b, was |-> a] : b \in once \cup UNION {Blows(b) : b \in once}}
           : a \in Intact}

Sources == Intact \cup {d.src : d \in Damaged}

\* What a run can meet: the sources and what is staged for them.
World ==
  Sources \cup {ChecksumsFixed(a) : a \in Sources} \cup {TerminatorAppended(a) : a \in Sources}
          \cup {Resynced(a) : a \in Sources} \cup {SalvagedArchive(a) : a \in Sources}

SeenTable   == [a \in World |-> SeenIn(a)]
SizeTable   == [a \in World |-> HalfBlocks(a)]

StagedTable == [s \in Strategies |-> [a \in Sources |-> StagedFor(s, a)]]

Request(src, ref, caller) ==
  [caller |-> caller, src |-> src, found |-> TarDefects(src), ref |-> ref,
   listed |-> ref # NoBytes, hash_agrees |-> TRUE, output |-> TRUE,
   same_path |-> FALSE, forced |-> "auto", aggressive |-> FALSE, dry_run |-> FALSE,
   write_manifest |-> caller = "cli"]

Calls ==
  {Request(a, NoBytes, "cli") : a \in Sources}
    \cup {Request(d.src, d.was, "cli") : d \in Damaged}
    \cup {[Request(a, NoBytes, "api") EXCEPT !.aggressive = TRUE] : a \in Sources}

\* The constants.  TLC computes a definition once when it is used by its own
\* name, and at every use when it stands for a constant: hence the two names.
MCBlobs  == World
MCSeen   == SeenTable
MCSizeOf == SizeTable
MCStaged == StagedTable
MCJobs   == Calls
=============================================================================
