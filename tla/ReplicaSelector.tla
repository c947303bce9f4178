-------------------------- MODULE ReplicaSelector --------------------------
(***************************************************************************)
(* The replica election of the task manager, _most_current_replica.       *)
(* A candidate is a record [id, token, seq]: the replica, the lineage      *)
(* token of its replication log position (Unset when replication never    *)
(* started) and the sequence number within that lineage.  The manager     *)
(* module itself is not in this repository; the behaviour is taken from   *)
(* the unit test test_most_current_replica and spec section 4.2.          *)
(***************************************************************************)
EXTENDS Integers, Sequences, FiniteSets

CONSTANTS Unset,        \* the lineage token of a replica that never replicated
          Inconsistent  \* the result when InconsistentTopologyError is raised

\* Indices of the candidates whose log position is set.
SetPositions(cands) == {k \in DOMAIN cands : cands[k].token # Unset}

\* The distinct lineage tokens among the set positions.
Lineages(cands) == {cands[k].token : k \in SetPositions(cands)}

\* Mutant: ties resolved to the last listed candidate.
RECURSIVE BestSetPositionLastTie(_, _, _)
BestSetPositionLastTie(cands, k, best) ==
    IF k > Len(cands) THEN best
    ELSE BestSetPositionLastTie(cands, k + 1,
            IF /\ cands[k].token # Unset
               /\ best = 0 \/ cands[k].seq >= cands[best].seq
            THEN k ELSE best)

\* Left-to-right scan keeping the first candidate with the highest sequence
\* number among the set positions (0 while none has been seen).
RECURSIVE BestSetPosition(_, _, _)
BestSetPosition(cands, k, best) ==
    IF k > Len(cands) THEN best
    ELSE BestSetPosition(cands, k + 1,
            IF /\ cands[k].token # Unset
               /\ best = 0 \/ cands[k].seq > cands[best].seq
            THEN k ELSE best)

\* _most_current_replica: raise when two set positions carry different
\* lineages, otherwise the most advanced set position, otherwise the first
\* candidate.  A single candidate is always chosen.
MostCurrentReplica(cands) ==
    IF Cardinality(Lineages(cands)) > 1 THEN Inconsistent
    ELSE IF SetPositions(cands) = {} THEN cands[1].id
    ELSE cands[BestSetPosition(cands, 1, 0)].id
=============================================================================
