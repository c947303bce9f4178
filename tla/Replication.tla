---------------------------- MODULE Replication ----------------------------
(***************************************************************************)
(* One replication topology managed by the Trove task manager: promote    *)
(* (promote_to_replica_source), eject (eject_replica_source) and detach    *)
(* (detach_replica), each a sequence of remote calls to the guest agents   *)
(* of the instances, with the Redis replication strategy                   *)
(* (guestagent/strategies/replication/experimental/redis_sync.py) as the   *)
(* engine side of every call.                                              *)
(*                                                                         *)
(* Per instance the model keeps the task manager's metadata (slave_of_id,  *)
(* task_status), the engine's replication state (the source set with       *)
(* set_main, the replication override labels of the configuration         *)
(* manager, the read-only flag), whether its guest agent answers, and the *)
(* history of writes it has applied.  Client writes, replication and      *)
(* guest agents stopping and restarting interleave with every step of an  *)
(* operation.  Every remote call may time out (agent stopped) or fail      *)
(* with a TroveError or an unexpected RuntimeError part way through the    *)
(* strategy method it runs.                                                *)
(***************************************************************************)
EXTENDS Integers, Sequences, SequencesExt, FiniteSets

CONSTANTS Instances,   \* the instances of the topology
          None,        \* no instance / unset
          Inconsistent,\* result of the election raising InconsistentTopologyError
          MaxWrites,   \* bound on client writes
          MaxOps,      \* bound on operations started
          MaxFaults    \* bound on injected faults (failed calls, stopped agents)

ASSUME MaxWrites \in Nat /\ MaxOps \in Nat /\ MaxFaults \in Nat

LOCAL Sel == INSTANCE ReplicaSelector WITH Unset <- None

VARIABLES
    slaveOf,    \* metadata: slave_of_id of each instance
    task,       \* metadata: task_status of each instance
    source,     \* engine: instance set with set_main, or None
    slaveConf,  \* engine: slaveof target of the replication_subordinate override
    masterConf, \* engine: replication_main override applied
    readOnly,   \* engine: read-only flag set by make_read_only
    agentUp,    \* the guest agent answers calls
    hist,       \* writes applied by the instance, in order
    op,         \* the operation the task manager is running
    result,     \* how the last operation ended
    nOps, nWrites, nFaults

vars == <<slaveOf, task, source, slaveConf, masterConf, readOnly, agentUp,
          hist, op, result, nOps, nWrites, nFaults>>

Statuses == {"NONE", "PROMOTE", "EJECT"}
Write == Instances \X (1..MaxWrites)
Idle == [kind |-> "idle", old |-> None, target |-> None, sibs |-> {},
         todo |-> <<>>, pc |-> "none"]

\* The replicas of p according to the metadata (BuiltInstance.slaves).
Replicas(p) == {r \in Instances : slaveOf[r] = p}

\* An instance accepts client writes: not made read-only and not replicating.
Writable(i) == ~readOnly[i] /\ source[i] = None

\* Replication log position reported for the election: the lineage is the
\* instance replicated from, unset when the instance does not replicate.
LogPosition(r) ==
    IF source[r] = None THEN [id |-> r, token |-> None, seq |-> 0]
    ELSE [id |-> r, token |-> source[r], seq |-> Len(hist[r])]

(***************************************************************************)
(* Remote calls.  A call to a stopped agent times out (GuestTimeout, a     *)
(* TroveError) without running; otherwise, while faults remain, it may     *)
(* raise a TroveError or a RuntimeError after any proper prefix of the     *)
(* engine steps of the strategy method it runs.                            *)
(***************************************************************************)
Outcomes(i) ==
    IF ~agentUp[i] THEN {"GuestTimeout"}
    ELSE {"ok"} \cup (IF nFaults < MaxFaults
                      THEN {"TroveError", "RuntimeError"} ELSE {})

\* The number of engine steps completed by a call of n steps.
StepsDone(r, n) ==
    IF r = "ok" THEN {n} ELSE IF r = "GuestTimeout" THEN {0} ELSE 0..(n - 1)

CountFault(r) ==
    nFaults' = IF r \in {"TroveError", "RuntimeError"} THEN nFaults + 1
               ELSE nFaults

\* The failure policy: an unexpected error in the attach and detach phase
\* propagates unchanged; every other error, and any error of the demote
\* step, is re-raised as ReplicationSlaveAttachError naming the instance.
Abort(r, i) ==
    /\ op' = Idle
    /\ result' = [op |-> op.kind, err |-> IF r = "RuntimeError" /\ op.pc # "demote"
                                          THEN "RuntimeError"
                                          ELSE "ReplicaAttachError",
                  at |-> i, primary |-> op.old]

\* Go on with next after a successful call, abort otherwise.
Continue(r, i, next) ==
    IF r = "ok" THEN op' = next /\ UNCHANGED result ELSE Abort(r, i)

(***************************************************************************)
(* Engine side: the first k steps of a Redis strategy method.              *)
(***************************************************************************)
\* detach_subordinate: remove the replication_subordinate override, then
\* set_main(None), then clear masterauth.
DetachSubordinate(i, k) ==
    /\ slaveConf' = [slaveConf EXCEPT ![i] = IF k >= 1 THEN None ELSE @]
    /\ source' = [source EXCEPT ![i] = IF k >= 2 THEN None ELSE @]

\* A mutant of EnableAsSubordinate: the replica configuration does not make
\* the instance read-only.
EnableAsSubordinateStayWritable(i, m, k) ==
    /\ readOnly' = readOnly
    /\ slaveConf' = [slaveConf EXCEPT ![i] = IF k >= 3 THEN m ELSE @]
    /\ source' = [source EXCEPT ![i] = IF k >= 4 THEN m ELSE @]

\* enable_as_subordinate: apply the replica configuration (which makes the
\* instance read-only, as a replica is), set masterauth, apply the slaveof
\* override, then set_main to the new source m.
EnableAsSubordinate(i, m, k) ==
    /\ readOnly' = [readOnly EXCEPT ![i] = IF k >= 1 THEN TRUE ELSE @]
    /\ slaveConf' = [slaveConf EXCEPT ![i] = IF k >= 3 THEN m ELSE @]
    /\ source' = [source EXCEPT ![i] = IF k >= 4 THEN m ELSE @]

(***************************************************************************)
(* Task manager side.                                                      *)
(***************************************************************************)
\* detach_replica(old_master, for_failover=True) on the instance i: the
\* guest's detach, then slave_of_id cleared.
DetachForFailover(i, next) ==
    \E r \in Outcomes(i) : \E k \in StepsDone(r, 3) :
        /\ DetachSubordinate(i, k)
        /\ slaveOf' = IF r = "ok" THEN [slaveOf EXCEPT ![i] = None] ELSE slaveOf
        /\ CountFault(r)
        /\ Continue(r, i, next)
        /\ UNCHANGED <<masterConf, readOnly>>

\* attach_replica(master) on the instance i: get_replica_context from the
\* new source m (get_main_ref), the guest's enable_as_subordinate, then
\* slave_of_id set to m.
AttachReplica(i, m, next) ==
    \/ /\ \E r \in Outcomes(m) \ {"ok"} : CountFault(r) /\ Abort(r, i)
       /\ UNCHANGED <<slaveOf, source, slaveConf, masterConf, readOnly>>
    \/ /\ "ok" \in Outcomes(m)
       /\ \E r \in Outcomes(i) : \E k \in StepsDone(r, 4) :
            /\ EnableAsSubordinate(i, m, k)
            /\ slaveOf' = IF r = "ok" THEN [slaveOf EXCEPT ![i] = m] ELSE slaveOf
            /\ CountFault(r)
            /\ Continue(r, i, next)
       /\ UNCHANGED masterConf

\* The external exclusivity guard: no member of the topology is busy.
Quiet(p) == \A i \in {p} \cup Replicas(p) : task[i] = "NONE"

MarkTask(S, s) == task' = [i \in Instances |-> IF i \in S THEN s ELSE task[i]]

\* Mutant: the task status written with the spec's name for it.
StartPromoteMarksPromoting(t) ==
    /\ op = Idle /\ nOps < MaxOps
    /\ slaveOf[t] # None
    /\ LET old == slaveOf[t]
           sibs == Replicas(old) \ {t}
       IN /\ Quiet(old)
          /\ MarkTask({old} \cup Replicas(old), "PROMOTING")
          /\ \E order \in SetToSeqs(sibs) :
               op' = [kind |-> "promote", old |-> old, target |-> t,
                      sibs |-> sibs, todo |-> order, pc |-> "detach_target"]
    /\ nOps' = nOps + 1
    /\ UNCHANGED <<slaveOf, source, slaveConf, masterConf, readOnly, agentUp,
                   hist, result, nWrites, nFaults>>

\* Mutant: the candidate is not detached before the old primary follows it.
StartPromoteSkipDetach(t) ==
    /\ op = Idle /\ nOps < MaxOps
    /\ slaveOf[t] # None
    /\ LET old == slaveOf[t]
           sibs == Replicas(old) \ {t}
       IN /\ Quiet(old)
          /\ MarkTask({old} \cup Replicas(old), "PROMOTE")
          /\ \E order \in SetToSeqs(sibs) :
               op' = [kind |-> "promote", old |-> old, target |-> t,
                      sibs |-> sibs, todo |-> order, pc |-> "attach_old"]
    /\ nOps' = nOps + 1
    /\ UNCHANGED <<slaveOf, source, slaveConf, masterConf, readOnly, agentUp,
                   hist, result, nWrites, nFaults>>

\* promote_to_replica_source(t): rejected for an instance that is not a
\* replica; marks the old primary and all its replicas PROMOTE.
StartPromote(t) ==
    /\ op = Idle /\ nOps < MaxOps
    /\ slaveOf[t] # None
    /\ LET old == slaveOf[t]
           sibs == Replicas(old) \ {t}
       IN /\ Quiet(old)
          /\ MarkTask({old} \cup Replicas(old), "PROMOTE")
          /\ \E order \in SetToSeqs(sibs) :
               op' = [kind |-> "promote", old |-> old, target |-> t,
                      sibs |-> sibs, todo |-> order, pc |-> "detach_target"]
    /\ nOps' = nOps + 1
    /\ UNCHANGED <<slaveOf, source, slaveConf, masterConf, readOnly, agentUp,
                   hist, result, nWrites, nFaults>>

\* eject_replica_source(p): rejected for a replica, for a primary without
\* replicas and for a primary whose guest agent still answers; marks the
\* topology EJECT, elects the most current replica in the order of
\* p.slaves and runs the promote sequence with it, or raises
\* InconsistentTopologyError before any remote change.
StartEject(p) ==
    /\ op = Idle /\ nOps < MaxOps
    /\ slaveOf[p] = None /\ Replicas(p) # {} /\ ~agentUp[p]
    /\ Quiet(p)
    /\ MarkTask({p} \cup Replicas(p), "EJECT")
    /\ \E order \in SetToSeqs(Replicas(p)) :
         LET t == Sel!MostCurrentReplica([k \in DOMAIN order |-> LogPosition(order[k])])
         IN IF t = Inconsistent
            THEN /\ result' = [op |-> "eject", err |-> "InconsistentTopologyError",
                               at |-> None, primary |-> p]
                 /\ UNCHANGED op
            ELSE /\ op' = [kind |-> "eject", old |-> p, target |-> t,
                           sibs |-> Replicas(p) \ {t},
                           todo |-> SelectSeq(order, LAMBDA x : x # t),
                           pc |-> "detach_target"]
                 /\ UNCHANGED result
    /\ nOps' = nOps + 1
    /\ UNCHANGED <<slaveOf, source, slaveConf, masterConf, readOnly, agentUp,
                   hist, nWrites, nFaults>>

\* Step 2 of promote: the candidate leaves the old primary.
DetachTarget ==
    /\ op.pc = "detach_target"
    /\ DetachForFailover(op.target, [op EXCEPT !.pc = "attach_old"])
    /\ UNCHANGED <<task, agentUp, hist, nOps, nWrites>>

\* Step 2 of promote: the old primary becomes a replica of the candidate.
AttachOld ==
    /\ op.pc = "attach_old"
    /\ AttachReplica(op.old, op.target, [op EXCEPT !.pc = "make_rw"])
    /\ UNCHANGED <<task, agentUp, hist, nOps, nWrites>>

\* Mutant: the sibling loop stops one sibling early.
MakeReadWriteSkipLast ==
    /\ op.pc = "make_rw"
    /\ \E r \in Outcomes(op.target) :
         /\ readOnly' = IF r = "ok" THEN [readOnly EXCEPT ![op.target] = FALSE]
                        ELSE readOnly
         /\ CountFault(r)
         /\ Continue(r, op.target,
                     [op EXCEPT !.pc = IF Len(op.todo) <= 1 THEN "demote"
                                       ELSE "detach_sib"])
    /\ UNCHANGED <<slaveOf, task, source, slaveConf, masterConf, agentUp, hist,
                   nOps, nWrites>>

\* Step 2 of promote: make_read_only(False) on the candidate.
MakeReadWrite ==
    /\ op.pc = "make_rw"
    /\ \E r \in Outcomes(op.target) :
         /\ readOnly' = IF r = "ok" THEN [readOnly EXCEPT ![op.target] = FALSE]
                        ELSE readOnly
         /\ CountFault(r)
         /\ Continue(r, op.target,
                     [op EXCEPT !.pc = IF op.todo = <<>> THEN "demote"
                                       ELSE "detach_sib"])
    /\ UNCHANGED <<slaveOf, task, source, slaveConf, masterConf, agentUp, hist,
                   nOps, nWrites>>

\* Step 3 of promote: the next sibling leaves the old primary ...
DetachSibling ==
    /\ op.pc = "detach_sib"
    /\ DetachForFailover(Head(op.todo), [op EXCEPT !.pc = "attach_sib"])
    /\ UNCHANGED <<task, agentUp, hist, nOps, nWrites>>

\* ... and follows the candidate.
AttachSibling ==
    /\ op.pc = "attach_sib"
    /\ AttachReplica(Head(op.todo), op.target,
                     [op EXCEPT !.todo = Tail(op.todo),
                                !.pc = IF Tail(op.todo) = <<>> THEN "demote"
                                       ELSE "detach_sib"])
    /\ UNCHANGED <<task, agentUp, hist, nOps, nWrites>>

\* Step 4 of promote: demote_replication_master on the old primary
\* (demote_main removes the replication_main override).
Demote ==
    /\ op.pc = "demote"
    /\ \E r \in Outcomes(op.old) :
         /\ masterConf' = IF r = "ok" THEN [masterConf EXCEPT ![op.old] = FALSE]
                          ELSE masterConf
         /\ CountFault(r)
         /\ Continue(r, op.old, [op EXCEPT !.pc = "clear"])
    /\ UNCHANGED <<slaveOf, task, source, slaveConf, readOnly, agentUp, hist,
                   nOps, nWrites>>

\* Step 5 of promote: _set_task_status([old_master] + replicas, NONE).
ClearTasks ==
    /\ op.pc = "clear"
    /\ MarkTask({op.old, op.target} \cup op.sibs, "NONE")
    /\ op' = Idle
    /\ result' = [op |-> op.kind, err |-> "ok", at |-> op.target, primary |-> op.old]
    /\ UNCHANGED <<slaveOf, source, slaveConf, masterConf, readOnly, agentUp,
                   hist, nOps, nWrites, nFaults>>

\* detach_replica(r): the guest's detach (not for failover, after which the
\* instance accepts writes), then slave_of_id cleared.  No task status.
Detach(r) ==
    /\ op = Idle /\ nOps < MaxOps
    /\ slaveOf[r] # None /\ task[r] = "NONE"
    /\ \E res \in Outcomes(r) : \E k \in StepsDone(res, 3) :
         /\ DetachSubordinate(r, k)
         /\ slaveOf' = IF res = "ok" THEN [slaveOf EXCEPT ![r] = None] ELSE slaveOf
         /\ readOnly' = IF res = "ok" THEN [readOnly EXCEPT ![r] = FALSE] ELSE readOnly
         /\ CountFault(res)
         /\ result' = [op |-> "detach", err |-> res, at |-> r, primary |-> slaveOf[r]]
    /\ nOps' = nOps + 1
    /\ UNCHANGED <<task, masterConf, agentUp, hist, op, nWrites>>

(***************************************************************************)
(* Environment: clients, replication and guest agents.                     *)
(***************************************************************************)
ClientWrite(i) ==
    /\ Writable(i) /\ nWrites < MaxWrites
    /\ hist' = [hist EXCEPT ![i] = Append(@, <<i, nWrites + 1>>)]
    /\ nWrites' = nWrites + 1
    /\ UNCHANGED <<slaveOf, task, source, slaveConf, masterConf, readOnly,
                   agentUp, op, result, nOps, nFaults>>

\* The engine of i applies the next write of its source, while its history
\* is a prefix of the source's (a diverged replica stops).
Replicate(i) ==
    /\ source[i] # None
    /\ IsStrictPrefix(hist[i], hist[source[i]])
    /\ hist' = [hist EXCEPT ![i] = Append(@, hist[source[i]][Len(@) + 1])]
    /\ UNCHANGED <<slaveOf, task, source, slaveConf, masterConf, readOnly,
                   agentUp, op, result, nOps, nWrites, nFaults>>

AgentStop(i) ==
    /\ agentUp[i] /\ nFaults < MaxFaults
    /\ agentUp' = [agentUp EXCEPT ![i] = FALSE]
    /\ nFaults' = nFaults + 1
    /\ UNCHANGED <<slaveOf, task, source, slaveConf, masterConf, readOnly,
                   hist, op, result, nOps, nWrites>>

AgentStart(i) ==
    /\ ~agentUp[i]
    /\ agentUp' = [agentUp EXCEPT ![i] = TRUE]
    /\ UNCHANGED <<slaveOf, task, source, slaveConf, masterConf, readOnly,
                   hist, op, result, nOps, nWrites, nFaults>>

\* The Redis server of i restarts (a reboot or a service restart): the
\* runtime source set by set_main is lost and the engine replicates from
\* what the persisted replication_subordinate override names.
EngineRestart(i) ==
    /\ nFaults < MaxFaults
    /\ source[i] # slaveConf[i]
    /\ source' = [source EXCEPT ![i] = slaveConf[i]]
    /\ nFaults' = nFaults + 1
    /\ UNCHANGED <<slaveOf, task, slaveConf, masterConf, readOnly, agentUp,
                   hist, op, result, nOps, nWrites>>

\* An operator clears a task status left behind by a failed operation
\* (the reset-status API, outside the task manager).
ResetStatus(i) ==
    /\ task[i] # "NONE" /\ op = Idle
    /\ task' = [task EXCEPT ![i] = "NONE"]
    /\ UNCHANGED <<slaveOf, source, slaveConf, masterConf, readOnly, agentUp,
                   hist, op, result, nOps, nWrites, nFaults>>

(***************************************************************************)
(* A healthy topology: one primary, the other instances its replicas.      *)
(***************************************************************************)
Init ==
    \E p \in Instances :
        /\ slaveOf = [i \in Instances |-> IF i = p THEN None ELSE p]
        /\ source = slaveOf
        /\ slaveConf = slaveOf
        /\ masterConf = [i \in Instances |-> i = p]
        /\ readOnly = [i \in Instances |-> i # p]
        /\ task = [i \in Instances |-> "NONE"]
        /\ agentUp = [i \in Instances |-> TRUE]
        /\ hist = [i \in Instances |-> <<>>]
        /\ op = Idle
        /\ result = [op |-> "none", err |-> "none", at |-> None, primary |-> None]
        /\ nOps = 0 /\ nWrites = 0 /\ nFaults = 0

Next ==
    \/ \E i \in Instances : StartPromote(i) \/ StartEject(i) \/ Detach(i)
    \/ DetachTarget \/ AttachOld \/ MakeReadWrite
    \/ DetachSibling \/ AttachSibling \/ Demote \/ ClearTasks
    \/ \E i \in Instances : \/ ClientWrite(i) \/ Replicate(i)
                            \/ AgentStop(i) \/ AgentStart(i) \/ ResetStatus(i)
                            \/ EngineRestart(i)

Spec == Init /\ [][Next]_vars


(***************************************************************************)
(* Properties.                                                             *)
(***************************************************************************)
TypeOK ==
    /\ slaveOf \in [Instances -> Instances \cup {None}]
    /\ task \in [Instances -> Statuses]
    /\ source \in [Instances -> Instances \cup {None}]
    /\ slaveConf \in [Instances -> Instances \cup {None}]
    /\ masterConf \in [Instances -> BOOLEAN]
    /\ readOnly \in [Instances -> BOOLEAN]
    /\ agentUp \in [Instances -> BOOLEAN]
    /\ hist \in [Instances -> Seq(Write)]
    /\ op.kind \in {"idle", "promote", "eject"}
    /\ nOps \in 0..MaxOps /\ nWrites \in 0..MaxWrites /\ nFaults \in 0..MaxFaults

\* A member of the topology: it has a source or replicas in the metadata, or
\* the running operation migrates it.
Member(i) ==
    \/ slaveOf[i] # None \/ Replicas(i) # {}
    \/ op.kind # "idle" /\ i \in op.sibs \cup {op.old, op.target}

(* No split brain: at any moment of promote, eject or detach, interleaved  *)
(* with client writes, stopped agents and failed calls, at most one member *)
(* of the topology accepts writes.  This rests on the order of the promote *)
(* calls (the old primary follows the candidate before make_read_only      *)
(* (False)) and on detach for failover leaving the candidate read-only.    *)
WritableUnique ==
    \A i, j \in Instances :
        Writable(i) /\ Writable(j) /\ Member(i) /\ Member(j) => i = j

(* The promote postcondition (spec section 8, test_promote_to_replica_     *)
(* source): when promote or eject completes, the candidate is a writable   *)
(* primary, the old primary and every sibling replicate from it in both    *)
(* the metadata and the engine, and every member's task status is NONE.   *)
OpEstablishesTopology ==
    [][ op.pc = "clear" /\ op'.kind = "idle" =>
          /\ slaveOf'[op.target] = None /\ source'[op.target] = None
          /\ ~readOnly'[op.target]
          /\ \A r \in op.sibs \cup {op.old} :
                 slaveOf'[r] = op.target /\ source'[r] = op.target
          /\ \A i \in op.sibs \cup {op.old, op.target} : task'[i] = "NONE"
      ]_vars

\* The instance reached from i by following the engine's source n times.
RECURSIVE Upstream(_, _)
Upstream(i, n) ==
    IF n = 0 \/ i = None THEN i ELSE Upstream(source[i], n - 1)

(* No replication loop: following the engine's replication sources from   *)
(* any instance never leads back to it, through every interleaving of     *)
(* promote, eject and detach steps with failed and timed-out calls; a     *)
(* loop leaves the topology with no instance that accepts writes.         *)
NoReplicationLoop ==
    \A i \in Instances : \A n \in 1..Cardinality(Instances) : Upstream(i, n) # i

(* Election safety (spec section 8, "Election and absence of data"): the  *)
(* replica eject elects holds every write that any sibling holds, so no    *)
(* sibling is attached to a source that lacks some of its writes.         *)
ElectionSafety ==
    [][ op.kind = "idle" /\ op'.kind = "eject" =>
          \A s \in op'.sibs : IsPrefix(hist[s], hist[op'.target])
      ]_vars


(* The metadata's primary is the engine's source: an instance that the    *)
(* metadata lists as a primary with replicas does not itself replicate     *)
(* from another instance, even after a call failed part way and the Redis  *)
(* server restarted from its persisted overrides.                         *)
MetadataPrimaryIsSource ==
    \A p \in Instances : slaveOf[p] = None /\ Replicas(p) # {} => source[p] = None

(* Eject of an unresponsive primary (tests/api/replication.py,             *)
(* test_eject_replica_main): the eject succeeds with the primary's agent   *)
(* stopped, so it never fails on a call to the ejected primary.            *)
EjectWithoutEjectedPrimary ==
    ~(result.op = "eject" /\ result.err # "ok" /\ result.at = result.primary)
=============================================================================
