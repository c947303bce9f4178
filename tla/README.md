# TLA+ models of the Trove replication orchestration

This directory holds TLA+ models of the replication-topology code in this
repository (the `trove` part), and of the other components that are small
enough for TLC. Each model is checked with TLC. `PROJECT.json` lists the
components, the runs, the mutants, the definition-to-source map, the findings
and the hazards.

## 1. Inventory

The repository is a bundle of files from several OpenStack projects. The spec
(`spec.md`) covers one system: Trove's replication-topology orchestrator.
The task manager that runs promote, eject and detach
(`trove/taskmanager/manager.py`) is **not** in `src/`. Two kinds of code in
`src/` fix its behaviour:

* `trove/tests/unittests/taskmanager/test_manager.py` gives the call sequence
  of promote and eject, the failure policy, and the election cases.
* `trove/tests/api/replication.py` gives the API guards (promote a primary,
  eject a replica, eject a healthy primary), the task statuses, and the
  read-only state after detach.

The engine side of every remote call is in `src/`. It is the replication
strategy interface (`guestagent/strategies/replication/base.py`) and two
implementations of it: `experimental/redis_sync.py` and
`experimental/mariadb_gtid.py`.

### Components

| Component | State | Operations | Interacts with |
|---|---|---|---|
| TopologyOrchestrator (task manager) | the running operation: old primary, candidate, siblings still to migrate, step | promote_to_replica_source, eject_replica_source, detach_replica | InstanceHandle remote calls (sequential, synchronous); TaskStatusTracker; ReplicaSelector |
| ReplicaSelector (`_most_current_replica`) | none (pure) | election over `[id, lineage, seq]` lists | reads the log positions of the replicas |
| InstanceHandle + Redis strategy | per instance: `slave_of_id` (metadata); `set_main` source, the `replication_subordinate` / `replication_main` override labels and masterauth (engine); the read-only flag | detach_replica → `detach_subordinate`; attach_replica → `get_replica_context` on the new source, then `enable_as_subordinate`; make_read_only; demote → `demote_main` | a guest-agent RPC per call, which can time out, fail part way or raise an unexpected error |
| TaskStatusTracker | per instance `task_status` ∈ {NONE, PROMOTE, EJECT, …} | set at the start of an operation; `_set_task_status(..., NONE)` at the end | the API's exclusivity guard reads it; operators reset it |
| MariaDB GTID strategy | CHANGE MASTER source, replication started | `connect_to_main` | not modelled, see §5 |
| Replica provisioning (`create_instance` with `slave_of`) | snapshot, temporary backup | get_replication_main_snapshot, then Backup.delete | planned, see §2 |
| freezer `ReSizeStream` (`freezer/utils/utils.py`) | the wrapped stream, `chunk_size`, `reminder`, `transmitted` | `__init__`, `next`, `read(chunk_size)` | its caller, which iterates or reads |
| freezer directory helpers (`create_dir_tree`, `create_dir`) | the file system | `os.path.isdir`, then `os.makedirs` (an `exists` walk up, `mkdir` calls down), then the `except` clause | other processes creating directories at the same time |
| freezer `get_mount_from_path`, `human2bytes`, `dequote` | none (pure, given the file system) | one call each | — |
| freezer `alter_proxy` | the four proxy variables of `os.environ` | `lower()`, four `pop`s, then the scheme test and either two sets or a raise | python-swiftclient, which reads all four |
| searchlight Swift handlers (`swift_notification_handler.py`) | none of their own; they write the search index | account, container and object `create_or_update` and `delete` | Swift notifications (reordered, duplicated); the index with external versions |
| monasca log API v2 (`monasca_log_api/reference/v2/logs.py`) | none between requests | `_before_logs_post`, `on_post` | Kafka publisher |
| Other bundled files | — | — | see `PROJECT.json`: I/O, pure field mappings, schema migrations, lint rules, generated data classes or tests of code that is not here |

### Hard behaviours

* **Partial failure.** Every remote call runs a strategy method of several
  engine steps (Redis `detach_subordinate`: remove override, `set_main(None)`,
  clear masterauth). Each step can fail after the ones before it have run.
  The task manager updates `slave_of_id` only after the call succeeds, so a
  failed call can leave the metadata and the engine disagreeing.
* **Failure policy.** A domain error (TroveError, GuestTimeout) in the
  detach/attach phase is re-raised as ReplicationSlaveAttachError. An
  unexpected error in that phase propagates unchanged. Any error of the demote
  step is wrapped. Statuses are cleared only when the whole operation succeeds.
* **Interleaving.** Client writes and replication go on while the orchestrator
  works through its calls. A guest agent can stop while its database keeps
  serving.
* **Protocol sequence.** The same instances can be promoted again and again
  (promote, then promote back, as in the API test).

### Correctness properties per component

* Orchestrator: never two writable members (no split brain); no replication
  loop; a successful promote or eject establishes the spec's topology with
  every status NONE; an eject of an unresponsive primary can complete.
* Selector: the spec's election rules (§8).
* Instance handle / strategy: after a call fails, the metadata and the engine
  state it leaves behind are still handled safely by later operations
  (election, writability).

## 2. Plan

1. **Done:** `ReplicaSelector` (pure election), and `Replication` (orchestrator +
   Redis strategy + task status, with the environment: client writes,
   replication, stopped agents, operator status reset).
2. **Done:** Redis **restarts** in `Replication`. A restart makes the engine
   take its source from the persisted `slaveConf` override. Also done:
   `ReSizeStream` (item 7), `SwiftIndex` (item 8) and `LogsV2`.
   **Late execution of timed-out calls** is not modelled: whether a queued
   call runs when its agent returns depends on the RPC layer's message
   expiry, and that layer is not in this repository (see §5).
   Also done: `Human2Bytes`, checked in `pure_algorithms`.
   Also done: the abstract `ChunkedStream` and the refinement
   `ReSizeStream => ChunkedStream`; `DirCreation` (concurrent
   `create_dir_tree`/`create_dir`); `MountPoint` (`get_mount_from_path`)
   and `Dequote`, checked in `pure_algorithms`; `AlterProxy`
   (`alter_proxy`), checked there too.
3. `MariaDBReplication`. **Dropped:** most of the strategy is in
   `mysql_base`, which is not in this repository (see §5).
4. An abstract `Topology` spec with a refinement from `Replication`.
   **Dropped:** it holds only without faults (see §5).
5. Liveness of the workflows. **Dropped:** each workflow is a finite
   sequence of calls, and the model lets a call to a stopped agent time
   out at once. Under those assumptions termination holds by construction.
   The real risk is a call that never returns (the core enforces no
   timeout, spec §5), and that depends on the RPC layer, which is not in
   this repository. Replica convergence is not checked either: `Replicate`
   is engine behaviour, and the code gives it no fairness.
6. Replica provisioning (`create_instance` with `slave_of`). The temporary
   backup is always deleted once the snapshot is taken. Multiple non-replica
   instances are rejected before anything is created.
7. Freezer `ReSizeStream`, a stateful chunk re-sizer. Check the chunk
   invariants against the concatenated input.
8. The searchlight Swift handlers. Notifications arrive out of order. A
   container delete is two index operations, each of which can fail on its own.

## 3. Modules and how they match the code

* `ReplicaSelector.tla` holds `MostCurrentReplica`, the election from spec
  §4.2. Test cases are in `test_manager.py:55-74`. `BestSetPosition` scans
  left to right and keeps the first maximum. `MC_Algorithms` checks it
  against a declarative reference over every list of up to three candidates,
  two lineages and sequence numbers 0..2.
* `Human2Bytes.tla` holds freezer's `human2bytes` as an operator.
  * A unit word is one character, because the code only compares the whole
    stripped rest of the string with a unit word.
  * `Scan` is the digit-and-dot loop and `FloatOk`/`FloatOf` is `float(num)`,
    as a fraction n / 10^f. `Strip` is `str.strip`, and `Prefix` is the
    prefix dictionary. A ValueError is `[ok |-> FALSE]`.
  * `MC_Algorithms` checks it against a grammar of the size format, over
    every string of up to five symbols drawn from digits, ".", "-", " ",
    units and an unknown word.
  * Both checks share one run. A state holds either a candidate list or a
    size string, so their state spaces add rather than multiply.
* `Replication.tla` models one topology.
  * Metadata: `slaveOf` and `task`.
  * Engine: `source`, `slaveConf`, `masterConf` and `readOnly`.
  * Environment: `agentUp` and `hist`.
  * The running operation is `op`; `result` records how the last one ended.

  Each call of the promote sequence in `test_manager.py:84-108` is one action:
  `DetachTarget`, `AttachOld`, `MakeReadWrite`, `DetachSibling`,
  `AttachSibling`, `Demote` and `ClearTasks`. Each action covers the task
  manager wrapper, the strategy method's engine steps (`DetachSubordinate`,
  `EnableAsSubordinate`), the metadata update, and the failure policy
  (`Abort`). The API guards are in `StartPromote`, `StartEject` and `Detach`
  (`tests/api/replication.py:247-272`, `76-82` of the unit test). A replica's
  log position is (its source, its applied length), or unset when it does not
  replicate. This follows the test data `[id, None, 0]` and the error text
  "not all replicating from same".
* A write is accepted only when the instance is not read-only and does not
  replicate (`Writable`). The first step of `enable_as_subordinate` applies
  the replica configuration (`redis_sync.py:59-60`), which makes the
  instance read-only, as `tests/api/replication.py:187-191` checks of a
  replica. `EnableAsSubordinate` sets `readOnly` at that step.
* `EngineRestart` models a Redis server restart. The runtime source set by
  `set_main` is lost, and the engine follows the persisted
  `replication_subordinate` override. A restart is counted as a fault.
* `ReSizeStream.tla` models `freezer.utils.utils.ReSizeStream`.
  * A byte is a number, and the input is numbered 1, 2, 3, ... so that loss,
    repetition or reordering shows.
  * The wrapped stream is a generator: once exhausted it raises
    `StopIteration` on every call.
  * One call of `next()` (`Next_`) or `read(n)` (`Read`) is one step. Inside
    it, `NextChunk` is the method body: the cut branch is `Cut`, the fill
    loop is the recursive `Fill`, and the stop branch is `AtEnd`.
  * The caller stops calling after `StopIteration`. An iterating caller
    (`for chunk in stream`) is weakly fair.
  * `ChunkedStream.tla` is what the class promises, with no reminder and no
    generator: the input is one sequence, and a call hands out the next
    chunk of the current size (or what is left) or, once nothing is left,
    ends the iteration; `read` may first change the size. Its `Spec` has
    weak fairness of a call. `ReSizeStream` instantiates it as `Chunker`,
    mapping the input to the concatenation of the generator's chunks,
    what has been handed out to `transmitted`, and the end to the last call
    having raised `StopIteration`; `ImplementsChunkedStream` is
    `Chunker!Spec`, checked as a property.
* `DirCreation.tla` models `create_dir_tree` and `create_dir` called by
  several processes on one file system (path -> none, dir or file).
  * `os.makedirs` is not one system call, so it is split the way its code
    runs: `MakedirsExists` walks up from the parent of the target until an
    ancestor exists (`os.path.exists`), `MakedirsMkdir` then makes each
    missing level top-down, ignoring EEXIST for ancestors but not for the
    target. `MkdirErrno` is `mkdir`'s errno: EEXIST, ENOENT or ENOTDIR.
  * `Call` is the function's entry: `create_dir_tree` enters `os.makedirs`
    at once; `create_dir` first asks `os.path.isdir` and returns if the
    directory is there. `HandleError` is the two `except` clauses: pass on
    EEXIST when `isdir` (asked again, now) holds, or re-raise; `create_dir`
    wraps every error.
  * `expanduser` and the log messages are left out: paths are already
    abstract, and logging changes nothing.
* `MountPoint.tla` holds `get_mount_from_path` as an operator over a file
  system and a set of mount points. `PathExists` (`os.path.exists`) walks the
  path as written, as the kernel does, so `..` is looked up in the directory
  before it; `Abspath` normalises the text; `MountLoop` is the `while not
  ismount` loop; `Relpath` is `os.path.relpath` with its `..` and `.` rules.
* `Dequote.tla` holds `dequote`: `rstrip('\n')`, then the matched-quotes
  test; an empty string is the IndexError of `s[0]`.
* `AlterProxy.tla` holds `alter_proxy` (`utils.py:321-340`) as an operator
  from an environment and a proxy to the environment left and whether it
  raised. `Lower` is `proxy.lower()`, `PopProxies` the four `os.environ.pop`
  calls, and `KnownScheme` the two `startswith` tests. A proxy URL is a
  sequence of pieces (`"HTTP"`, `"://"`, a host ...). No concatenation of
  the pieces used spells a scheme the piece test would miss, so the piece
  test agrees with the character test.
* `SwiftIndex.tla` models the three handler classes.
  * `HandleAccount`, `HandleContainer` and `HandleObject` each dispatch one
    notification, the way `get_event_handlers` does.
  * Swift itself (`SwiftPut`, `SwiftDelete`) emits one notification per
    change, stamped with an increasing time. Swift refuses to delete a
    non-empty container or account.
  * Notifications sit in a set: they are consumed in any order, and
    `Consume` may leave a consumed one to be delivered again.
  * The index is the environment. A save or delete applies only with a
    higher external version (`Newer`), and a delete leaves a tombstone.
    That is how an Elasticsearch index with `version_type=external`
    behaves; the index helper is not in this repository.
  * A failed index call consumes a fault, and the handler swallows it.
* `LogsV2.tla` models one v2 log POST per behaviour; the handler keeps no
  state between requests. `BeforeLogsPost` is the falcon before-hook.
  `OnPost` returns 403, 413, 415, 204 (published) or 500 (send failed).
  `EnvelopeTenant` is `tenant_id if tenant_id else cross_tenant_id`.

## 4. Runs

| Run | Checks | Result |
|---|---|---|
| `pure_algorithms` | `ElectionConsistency`, `Human2BytesMatchesGrammar`, `MountPointMatchesSpec` | passes over 4887 candidate lists, 579k size strings and 98k (file system, mounts, path) triples (691k states with the dequote and proxy inputs, about 80 s) |
| `dequote_docstring` | `DequoteMatchesDocstring` | **violation**: a string with no matching pair of quotes does not come back unchanged (the empty string raises IndexError, a lone quote becomes `''`, trailing newlines are stripped) |
| `alter_proxy_default` | `AlterProxyDefaultDoesNothing` | **violation**: `alter_proxy('')` clears the four proxy variables and raises, where the comment says the default case does nothing |
| `replication_core` | `TypeOK`, `NoReplicationLoop`, `WritableUnique`, `OpEstablishesTopology` | passes: 1.6M distinct states; 3 instances, 2 writes, 3 operations, 2 faults. At most one member accepts writes at any point of any promote, eject or detach, failures included |
| `election_after_failed_detach` | `ElectionSafety` | **violation**. A detach fails after `set_main(None)`; the replica keeps its data but reports an unset position; eject elects a replica that lacks a sibling's writes |
| `eject_unreachable_primary` | `EjectWithoutEjectedPrimary` | **violation**. Eject requires the primary's agent to be down, then calls `attach_replica` on that primary, which times out |
| `restart_after_failed_attach` | `MetadataPrimaryIsSource` | **violation**. `AttachOld` fails after the override naming the candidate was written; a Redis restart makes the metadata's primary a replica of the candidate |
| `resize_stream` | `TypeOK`, `ByteConservation`, `ImplementsChunkedStream` | passes, 8649 states: every input of ≤3 chunks of 0..3 bytes, chunk sizes 1..3 changed by `read` at will; `ReSizeStream` refines `ChunkedStream`, liveness included |
| `swift_index` | `IndexConverges` | passes, 226k states: one account, one container, two objects, six changes, any delivery order and duplication, no failed index call |
| `logs_v2_cross_tenant` | `CrossTenantHonoured` | **violation**: a delegate's cross-tenant log is filed under the delegate's own tenant |
| `dir_creation` | `TypeOK`, `ReturnedMeansDir`, `TreeRaisesOnlyWhenBlocked` | passes, 150k states: two processes, each calling either function on any path of ≤2 names over any well-formed file system; a returning call leaves a directory, and `create_dir_tree` raises only when a file is in the way |
| `create_dir_race` | `DirRaisesOnlyWhenBlocked` | **violation**: `create_dir` sees no directory, the other process makes it, and `create_dir`'s `mkdir` gets EEXIST, which it wraps and raises |

### Bounds

* Three instances. That is the smallest topology in which promote has a
  sibling to migrate and eject has a choice to make.
* Two writes, enough to make two replicas' positions differ.
* Three operations. That covers promote, promote back, then one more.
* Two faults: one failed call plus one stopped agent, the combination eject
  needs.

* `ReSizeStream`: chunks of 0..3 bytes include empty chunks, chunks longer
  and shorter than every chunk size, and a reminder exactly one chunk long.
  Three chunks let two `read` calls of different sizes interleave with
  `next`.
* `DirCreation`: two processes are enough for every race of one check
  against one `mkdir`; paths of two names over two names give an ancestor
  shared by two targets, a target that is an ancestor of the other, and a
  file standing where a directory or its parent should be. Every
  well-formed starting file system is enumerated. Symmetry over the
  processes is sound: they are model values and nothing orders them.
* `MountPoint`: paths of up to three components over two names, `.` and
  `..` reach `..` above the root, `..` after a missing or a file component,
  and `.` after a file; file systems of depth two with every set of mounted
  directories put a mount above, at and below the path.
* `Dequote`: strings of up to four of `'`, `"`, a letter and a newline.
* `AlterProxy`: proxies of up to three pieces from `http`, `HTTP`, `https`,
  `://`, a host in mixed case and `ftp`. These include the empty default,
  both schemes in both cases, a scheme without `://` and an unknown
  scheme. They are tried in every environment where each of the four
  proxy variables and `no_proxy` is unset or holds an old proxy.
* `SwiftIndex`: six changes are enough for create, update and delete of an
  object, then deletion of its container, with their notifications in any
  order.

Symmetry over the instances is sound because instances are model values and
the only order the model uses (the order of `slaves`) is chosen
nondeterministically.

Deadlock is not checked. The control plane really does go quiescent once no
operation can start (the bound is spent, or every member carries a status
nobody resets).

### Fairness

* `Replication` checks safety only. Its termination would hold by the
  shape of the model and not because of the code (plan item 5).
* `ReSizeStream`: weak fairness of `next()`. The caller this class is
  written for iterates until `StopIteration`. `read` calls get no fairness.
  `ChunkedStream` promises the matching weak fairness of a call, and the
  refinement property checks that `ReSizeStream` delivers it.
* `DirCreation` checks safety only: each call is a bounded walk, and
  deadlock checking is off because the system stops once both calls have
  returned.
* `SwiftIndex` and `LogsV2` check safety only.

## 5. Not modelled

* Provisioning, snapshots and backups (plan item 6).
* The wire commands of the engines.
* Persistence of the metadata (each update is one atomic DB write).
* Concurrent operations on the same topology. The spec puts them outside
  the core, behind the external guard, which is modelled as `Quiet`.
* Formatting and logging.
* freezer's `is_empty_dir`, `save_config_to_file`, `DateTime` and the
  subprocess and tar-path helpers: one-expression helpers or I/O with no
  state to explore.
* freezer's `Namespace` dict (`utils.py:366-437`). Nothing in the repository
  uses it. Its behaviour is Python's attribute protocol, which a model
  would restate rather than check. The item view and the
  `object.__getattribute__` view that its static helpers use do disagree
  (`Namespace.hasattr(ns, 'x')` is false after `ns.x = 1`), but no caller
  depends on either.
* `alter_proxy` lower-cases the credentials of an authenticating proxy.
  `Lower` models that, but no property checks it: whether lower-cased
  credentials fail depends on the proxy server.
* The MariaDB GTID strategy (`mariadb_gtid.py`). Its `connect_to_main` is
  one `CHANGE MASTER` statement and `start_subordinate`. The rest lives in
  `mysql_base`, which is not in this repository, and spec §1 puts the
  engines' wire commands out of scope. A model of it would be mostly
  invented. The strategy base class (`base.py`) is an abstract interface
  whose only concrete method returns `True`.
* An abstract atomic-promote `Topology` with a refinement from
  `Replication`. With failed and timed-out calls, promote may stop
  anywhere in its sequence and leave states no atomic promote has, which
  is what the violation runs show. A refinement would hold only with the
  faults switched off, and both replication pass runs need faults.
* Symbolic links and relative paths in `get_mount_from_path`: without links
  `abspath` and the kernel's walk agree on the final directory, which the
  check relies on; a relative path is the absolute one after `getcwd`.
* `human2bytes` for units of G and above. TLC integers are 32-bit, so the
  size strings use units up to K/Ki/kilo, and "M" is left out at length 5.
  In that range `int(float(num) * prefix)` is exact. For large units the
  float loses low digits; that is listed as a hazard.
* The searchlight neutron serializers, the magnum swagger model and the
  senlin hacking checks: pure field mappings, generated accessors and
  regular-expression lint rules. They have no state and no interleaving.
* The cinder and magnum migrations: one-shot schema changes. The cinder
  upgrade's window between `create()` and `create_column` is listed as a
  hazard.
* Timed-out guest calls that run later. A call to a stopped agent is
  modelled as doing nothing. Whether it runs when the agent returns
  depends on `trove/guestagent/api.py` and oslo.messaging's message
  expiry, which are not here.
* The Elasticsearch index helper and Swift are environment in
  `SwiftIndex`, not translated code.
* In this lineage abstraction the `InconsistentTopologyError` branch of eject
  is unreachable. The metadata moves to a new source only together with the
  engine, so all replicas of one primary report it or report unset.
* A failed index call in the Swift handlers. Each handler logs the
  exception and drops it, by design, so one failure leaves the index out of
  step until the next notification for that document. `IndexConverges` is
  checked with no failed calls.

## 6. Findings

The violation runs each show one disagreement (details in `PROJECT.json`):

* `election_after_failed_detach`, `eject_unreachable_primary`: see the run
  table.
* `dequote_docstring` (divergence): `dequote` strips trailing newlines
  before its test. It indexes `s[0]` on what may be an empty string, and it
  takes a lone quote for a matching pair. The docstring promises the
  string unchanged in all three cases.
* `alter_proxy_default` (divergence): the comment says the default case
  does nothing, but the code pops the proxy variables first and then
  raises on `""`.
* `restart_after_failed_attach` (spec gap): `enable_as_subordinate` writes
  the `replication_subordinate` override before it can fail. After a Redis
  restart the metadata's primary replicates from the candidate, and the
  metadata never says so.
* `create_dir_race` (code bug): `create_dir` checks `os.path.isdir` and
  then calls `os.makedirs`. When another process makes the directory in
  between, the leaf `mkdir` raises EEXIST, and `create_dir` turns it into
  an `Exception` although the directory exists. `create_dir_tree`, a few
  lines above, handles exactly this case.
* `logs_v2_cross_tenant` (code bug): for a delegate, `on_post` picks
  `tenant_id if tenant_id else cross_tenant_id`. X-Tenant-Id is always set,
  so the log goes to the delegate's own tenant, not to the cross tenant the
  before-hook has just allowed.
