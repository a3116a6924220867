-------------------------- MODULE MCEvidenceBinding -------------------------
(***************************************************************************)
(* A small instance of the protocol with and without consumers of its      *)
(* evidence.  A dependency is one session or the window of all of them;    *)
(* its choice reads nothing, so nothing is interleaved with it.            *)
(***************************************************************************)
EXTENDS EvidenceQualifier, MCMarket

CONSTANT MaxObservedJobs  \* bound: calls started beside a consumer or a qualifier

Unobserved == reader = IdleReader /\ qualifier = Closed

SmallDependency(local) ==
    local.coverage = "WINDOW" => local.sessions \in {{}, Session}

MCNext ==
    /\ EvidenceNext
    /\ (Unobserved \/ jobs <= MaxObservedJobs)'
    /\ SmallDependency(reader') /\ SmallDependency(qualifier')
    /\ reader.phase = "asserted" => reader' # reader

MCSpec == EvidenceInit /\ [][MCNext]_evidenceVars
=============================================================================
