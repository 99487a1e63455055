-------------------------- MODULE RecoveryContract --------------------------
(***************************************************************************)
(* What a caller may rely on from a recovery, whatever strategies exist    *)
(* and however they are chosen: a request is answered, or its process      *)
(* dies; it replaces the artifact at most once, with bytes the request     *)
(* justifies or, if the write was cut short, with a torn file that is      *)
(* never answered with success; an answer of "nothing" left the artifact   *)
(* alone; a request that may not write never does.                         *)
(***************************************************************************)
CONSTANTS Requested,          \* requests
          Contents,           \* contents an artifact can be given
          Absent,             \* no artifact
          TornFile,           \* a half-written artifact
          Justified(_, _),    \* the contents a request justifies
          MayWrite(_)         \* the requests that ask for an artifact

VARIABLES phase,     \* "idle", "working", or "published" before the answer
          request, artifact, answer

cvars == <<phase, request, artifact, answer>>

CInit == phase = "idle" /\ request \in Requested /\ artifact = Absent /\ answer = "none"

Accept == /\ phase = "idle"
          /\ phase' = "working" /\ request' \in Requested /\ answer' = "none"
          /\ UNCHANGED artifact

Publish == /\ phase = "working" /\ MayWrite(request)
           /\ artifact' \in Contents /\ Justified(request, artifact')
           /\ \/ phase' = "published" /\ answer' = answer
              \/ phase' = "idle" /\ answer' = "success"
           /\ UNCHANGED request

\* The answer to a request that published, or to one that only asked whether
\* there is something to publish.
Succeed == /\ phase = "published" \/ (phase = "working" /\ ~MayWrite(request))
           /\ phase' = "idle" /\ answer' = "success"
           /\ UNCHANGED <<request, artifact>>

Decline == /\ phase = "working"
           /\ phase' = "idle" /\ answer' \in {"nothing", "listed", "error"}
           /\ UNCHANGED <<request, artifact>>

Tear == /\ phase = "working" /\ MayWrite(request)
        /\ phase' = "idle" /\ artifact' = TornFile /\ answer' \in {"error", "crashed"}
        /\ UNCHANGED request

Die == /\ phase # "idle"
       /\ phase' = "idle" /\ answer' = "crashed"
       /\ UNCHANGED <<request, artifact>>

Answer == Decline \/ Succeed \/ Publish

CNext == Accept \/ Answer \/ Tear \/ Die

CSpec == CInit /\ [][CNext]_cvars /\ WF_cvars(Answer)
=============================================================================
