# TLA+ models of FICC

FICC is a Python console for a cluster. One controller owns inventory, identities,
policies, jobs and audit records; machines contribute through an SSH helper or as
*contributors* that run a local *executor* and are reached through a channel they
poll themselves. This directory models the parts of the system that start, lease,
stop and account for other people's programs on other people's machines, and the
controller's own records about them: 37 components, model-checked on small
instances, with machine-checked proofs for the executor, the workload records, the
loop that connects them, managed jobs, audit delivery and the controller's
persistence.

Paths below are relative to the repository root; `ficc/` stands for `src/ficc/` and
`node/` for the helper in `src/node/ficc_node/`.

## The system and its parts

| Part | State | Operations | Hard parts | What makes it correct |
|---|---|---|---|---|
| Node executor (`ficc/execution`) | attempts and devices tables, offer, pool operations, systemd units, clocks | prepare, reject_absent, start, renew, stop, release, input_write, set_offer; monitor tick; recover, recover_storage, reconfigure | worker threads outside the lock, crashes, hanging stops, clock changes, reboots | a live unit always holds its reservation; one unit per job, slot and GPU; honest outcomes; an expired lease stops its unit |
| Workload records (`ficc/workloads/records.py`) | jobs, attempts, leases, outcomes, suspension | submit, reserve, observation, transition, renew, cancel, retry, abandon, remove, suspend | results late, repeated or contradictory | only the newest attempt holds capacity; outcomes are final; a job shows its attempt |
| Workload runner and channel (`runner.py`, `commands.py`, `channel.py`, `queue.py`, `contributor_execution.py`) | per-node lock and pass, pending command, live snapshot, reconciled binding | poll, node pass, reconcile, batches, placement, dispatch, release | lost replies, late execution, session changes, restart, replaced ledger, partial batches, users between awaits | a job never runs twice at once; released capacity is idle; intent and leases are stored before they are sent |
| Workload inputs, publications (`workloads/inputs.py`, `artifacts.py`), node model cache | prefetches, staged bytes, publication items | transfer, stage, publish, complete, change, evict | a chunk read before and sent after a change; release against publication | bytes belong to the current attempt; an output stays until it is settled |
| Contributors (`contributors.py`, `contributor_store.py`, `contributor_client.py`) | invitations, requests, certificates, sessions | invite, claim, issue, activate, rotate, heartbeat, disable, remove | issuance outliving its timeout, rotation against revocation | one certificate speaks for a contributor |
| Managed jobs, adapters, Proxmox, module operations | operations, per-target state, node receipts | preview, submit, dispatch, reconcile, cancel, resolve, forget | replies lost, requests executed late, intent recorded and outcome unknown | an effect happens once; a settled outcome is what the node did |
| Files: transfers, file operations, editor, object uploads | items, durable prefixes, stage directories, part receipts | begin, chunk, commit, cancel, save, exchange, clean up | uncertain commits, other writers | nothing overwritten that another writer put there; success means whole |
| Agents and bus | spools, outbox, acknowledgements | launch, send, exchange, stop, close, archive | duplicates, crash between append and acknowledge | every message once |
| Inference and models (`ficc/inference`, `ficc/models`) | services, replicas, routes, tokens, model files | control, reconcile, request, acquire, publish, evict, bind | records read before an await, power loss, readers without the lock | ready only after a check; drained before stopped; published bytes are whole |
| Federation (`ficc/federation`) | offers, pairings, grants, receipts | offer, accept, finish, admit, mutate, revoke, remove | answers lost on either side, mutations asked again | at most one effect per request; only under an unrevoked grant |
| Access, policies, audit delivery | credentials, sessions, packages, cursor and pending batch | sign in, renew, switch, revoke; activate, preview; require, step | revoked while in use; acknowledged but not saved | only current authority has effect; no gap in the audit stream |
| Sessions: terminals, displays, SSH masters, module invocations, endpoint streams, sources, inspections | processes, sockets, leases, workers | open, attach, detach, reap, invoke, stop, run | tasks and callbacks in any order, time limits against late answers | each has one live owner, within its limit, gone when its record says so |
| Backup, history, persistence, certificate renewal, workspaces | bundles, archives, transactions, state directory, version directories | export, restore, archive, commit, migrate, renew, roll back | death at any step, lost commit answers, two commands at once | nothing lost, doubled or half-made; a copy is proved before its source goes |

The parts meet in four places. Every store transaction runs under one lock. The
runner takes one asyncio lock per node around a pass, a dispatch or a release.
Commands cross `Channel.request` / `Channel.exchange`, `Execution.run` and the
executor's Unix socket, or an SSH call of the helper; each hop has its own timeout,
and what was given up on may still be executed. Inside the executor the request
handlers and the monitor share one lock, while pool threads, input writes and
storage deletion work outside it.

`PROJECT.json` lists every part with its sources and what of it is left out, the
source lines of each definition, and the hazards the properties are aimed at.

## How the project is laid out

One module per component, with the names of the functions it translates. Requests
that are refused without a change are no steps. Counters, clocks and numbers of
crashes or late requests are bounded by CONSTANTS and the guards that name them.
Operators introduced by a comment that begins with *Mutant* are seeded defects: each
can replace the definition after it, and then a property fails. No specification
uses them.

| Suite | Components |
|---|---|
| `MCExecutor` (five configurations) | `Executor`, refining `ExecutorBoard` |
| `MCWorkloads` | `ContributorWorkloads` (extended, with `WorkloadRecords` and `ExecutorBoard`): the rows alone, and the loop with a retry |
| `MCSessions` | `StateMigration` (extended), `Access`, `CertRenewal`, `SSHTransport`, `Inspections`, `Sources`, `Terminals`, `ViewerSessions`, `ModuleRuntime`, `EndpointStreams`; `WorkloadRecords` with two jobs for one unit |
| `MCNodes` | `Adapters`, `Agents`, `Editor`, `Inference`, `ManagedJobs`, `ModelCache`, `WorkloadInputs`; `ContributorWorkloads` with a reinstalled executor or two jobs on a node, and `ExecutorBoard` alone |
| `MCController` | `StateTransactions` (extended), `Contributors`, `AuditDelivery`, `Backup`, `HistoryArchive`, `Policies`, `Workspaces`, `Federation` |
| `MCOutputs` | `Transfers`, `FileOperations`, `ModuleOperations`, `ObjectUploads`, `PodmanRuntime`, `ProxmoxTasks`, `Publications`, `ViewerBridge` |
| proofs | `Executor_proofs`, `WorkloadRecords_proofs`, `ContributorWorkloads_proofs`; in place, after the specification: `ExecutorBoard`, `AuditDelivery`, `ManagedJobs`, `StateTransactions`, `StateMigration` |

A suite explores *scenes*. A scene is one component with one choice of constants;
a behaviour stays in the scene it begins in, so a suite is the disjoint union of its
scenes and the state space is their sum. The variables `v1, v2, ...` are slots to
which every scene gives its component's variables by `INSTANCE ... WITH`. Where a
suite extends a component, that component keeps its own variables, and its
properties and theorems speak of the very same definitions. A suite's property is a
conjunction over its scenes of what the components promise under one heading; the
operators it names (`AuditRows!EveryRowOnce` and the like) are stated, with their comments,
in the component's module. Components in different suites interact through the
environment actions of each: a lost reply, a late request, a dying process, another
program that writes.

### Executor

`att` is the attempts table, `devices` the devices table. `pend[a]` is
`Supervisor.pending`: a pool operation and how far it got. Every live check inside
an operation is a step of its own (`Step`), because the lease, the offer and a
recorded stop can change between two checks; `WorkerFails` lets any operation fail
at any point, and a failed `systemd-run` may still have started its unit. `proc[a]`
is the unit: at the engine barrier (`ready`), past it (`opened`), at the payload
barrier (`gated`), `executing`, exited or killed. `tries` counts the pending stops
of `cleanup_started`; reaching `StopTries` stands for the ten-second bound.

`finish` is one step with three endings: cleanup verified, stop pending, or stop or
verification failed. `harvest` and `tick` are one iteration each of the monitor's
two loops, so anything may happen between two attempts. `release` and `input_write`
are two steps because the code drops its lock in the middle. A crash loses all
volatile state; units are bound to the supervisor's unit and are reaped while it is
down, sooner or later. A reboot kills units and restarts `CLOCK_BOOTTIME` at zero. A
refused `prepare` seals the attempt (`reject`). Of the six summed limits one stands
for all, and storage, summed over every held slot, is represented by the slots.
`ExecutorBoard` is the abstract specification: what `supervisor.public` shows of an
attempt and whether its unit is alive.

### WorkloadRecords and ContributorWorkloads

One action per transaction of `records.py`. An observation may be any result that
passes `AttemptResult`'s validator: the rows' promises must not depend on
well-behaved executors. `detail` stands for reason, exit code and byte counts. Stale
revisions are refused, so an accepted call acts on the current row; a removed job's
identity is never reused.

`ContributorWorkloads` is the loop over these rows and one `ExecutorBoard` per node.
`ctl[n]` is the node's lock with the pass that holds it; `pc` names its next call
and each await is a gap between steps. `msg[n]` is the one command a node waits
for, `late[n]` the commands the controller gave up on while the contributor still
executes them, item by item. `CallFails` covers timeouts, changed sessions, refused
checks and unacceptable replies, with the results recorded before the failing item;
`aborts` every other failure of a pass. `authority` is exact about suspension,
cancellation, revocation, availability and the bound ledger, and may be refused
besides for policy or offer. Time is left out: an executor may stop an attempt
whenever it likes. `reconcile` also stops listed attempts that have no row
(`runner.py:82`); that call has no action, since rows are deleted only after release
or abandonment, and abandonment needs a revoked node, whose passes never get that
far. A database copied back from the past is outside the model.

### Persistence

`StateTransactions` is `AtomicConnection` of `state_provider.py` and its counterpart
`Database` of the PostgreSQL provider (`state-providers/postgresql`): nested `with` blocks, `rollback_only`, a failed connection that is never used again,
a session and its advisory lock that may be lost before, in or after a block, and a
commit whose answer is lost. A statement that ends the transaction itself is assumed
not to be caught inside a block.

`StateMigration` is the state directory: `service.lock`, `state.sqlite3`,
`state-provider.json`, `state-binding`, and one network database with its advisory
lock, binding and import receipt. Commands and controllers of several directories
take their steps in any order and may die between any two; the two files are created
and filled in separate steps, as in the code, so a torn file blocks both start and
resume.

### The other components

Each module's opening comment says what its state stands for. They share one shape:
controller records, requests on the way (lost, answered, or executed after the
controller gave up), the node's or provider's own durable receipts, and crashes of
either side between two writes. Contents of files, messages, policies, certificates
and manifests are versions or identities; a check of content is a choice that may
fail. `PodmanRuntime` replaces a file as a whole, and GPU names are compared with
device numbers only when the runtime is probed and started, as in the code.

## Runs

| Run | Question | Bounds |
|---|---|---|
| `executor_job` | `TypeOK`, `WorkloadHeld`, `Exclusive`: is a job's second attempt kept apart from its first? `ImplementsBoard`: is every step one the board allows? | 2 attempts, 1 job, 2 slots (symmetric), 1 pending stop, time 1 |
| `executor_lease` | `HonestOutcome` under renewals, expiry, clock changes, reboot, offer changes and streamed inputs | 1 attempt, 2 leases, time 2, 2 boots, 2 offer revisions |
| `executor_share` | `NoStrayDevice`: does a GPU pass between jobs only after verified cleanup? | 2 jobs and 2 slots (both symmetric), 1 GPU |
| `executor_live` | `ExpiredStops`: does an expired unit stop? | 1 attempt, 2 leases, time 2, 2 boots |
| `executor_stuck` | Does it when stops keep failing? **Expected violation** | as above |
| `workloads` | `ValidRecords`, `OlderReleased`, `JobMirrorsAttempt`, `OutcomeFixed` of the rows against any report; `OneRunPerJob` and `RowsAgree` of the loop over lost and late replies | 1 job with an attempt and its retry on 2 nodes; 1 late command |
| `sessions` | `ServesHome`, `RetainedUntilImported` of migrations; `ActsOnCurrent`: nothing acts on ended authority or replaced bytes; `HeldAccounted`: every process, socket and lease has a live owner; `EndsTrue`, `NothingUndone`: reported endings are true and effects stay; `ServedThroughout`: a killed renewal leaves a served pair | 20 scenes of 1 or 2 sessions, a scanner configured anew; 2 directories, 2 records and 2 crashes; rows of 2 jobs that ask for 1 unit |
| `sessions_live` | `SessionsEnd`: ended sessions, invocations, runs, probes and migrations come to their end | the scenes whose components owe something |
| `nodes` | `DoneOnce`, `OutcomesTrue`, `ContentKept`, `DecisionsStand` of work on nodes whose answers are lost; the loop's promises over a reinstalled executor | 22 scenes of 1 or 2 operations, 1 late request, 1 or 2 crashes; two inference services for one poll that waits between them; loop: 1 attempt with 2 ledgers, or 2 jobs on a node |
| `nodes_live` | `OutcomesArrive`: outcomes reach the controller while it keeps asking | single operations; the node of the job stays up |
| `controller` | `AllOrNothing`, `OwnedWrites` of transactions; `AuthorityCurrent`, `RecordsKept`, `AnswersTrue`, `RemovedVerified` of the controller's records through crashes and concurrent requests | 14 scenes; a pairing removed with open streams and a grant issued meanwhile; two creations and a control that may fail half done; transactions: 3 blocks of 3 statements, nesting 2, on a network database |
| `outputs` | `ReportsTrue`, `EffectsOwed`, `NothingOverwritten` of what leaves the controller | 15 scenes of 1 or 2 operations, 1 late request, 1 release given up |

`ScenesTypeOK` checks the type invariant of every component in its suite.

The bounds are the smallest at which the interesting cases happen. Fences compare an
attempt, operation or grant with one other of its kind, so two are enough; exclusion
of slots and devices is pairwise. One late request suffices because requests act item
by item on disjoint records and a peer waits for one at a time; two lease or revision
numbers distinguish an old one from a new one. One pending stop is the first retry;
more only repeat it. A crash between two writes of one operation takes one crash, and
a crash in the recovery from it a second. Where two of a kind and a late request
together are too many states, a component has a scene for each. Identities are
declared interchangeable where every scene uses the family as a whole set; runs with
liveness declare no symmetry.

Deadlock checking is off: bounded clocks, counters and identities let every scene
stop.

### Fairness

`MCExecutor`: `FairSpec` assumes what the deployment provides: the monitor thread
keeps iterating (`harvest`, `tick`), recovery and startup proceed, a stopping
supervisor ends (the service manager's watchdog and stop timeout), and bound units
are reaped (strong fairness, since the supervisor may restart in between while the
stop job remains queued). A retried cleanup may fail again without a trace, so of an
uncertain attempt only the step that gives the supervisor up is promised. `LiveSpec`
adds that cleanup does not fail for ever.

`MCSessions` assumes per component that its tasks run on and its waits have the time
limits the code gives them: the sign-in poll and leases that run out
(`remote_auth.py`), the renewal timer, the SSH reaper and guard, a process that holds
the state lock and an operator who repeats the resume command
(`docs/state-storage.md`), the scanner and publisher, the source worker's deadlines,
the terminal guard, the display's authority task and shielded cleanup, the
invocation's three time limits. Nothing is assumed of clients or users. `MCNodes`
assumes that the poll loops and started units go on, that a connection which is
tried again and again succeeds at last, and that requests stop arriving late. The
comment beside each formula names the code that justifies it.

### Finding

`executor_stuck` refutes `ExpiredStops` under `FairSpec`. `docs/execution.md`
lines 26-27 say that expired authority "stops the workload through local
enforcement". `Monitor.tick` enforces it by giving the supervisor up when an
uncertain attempt's unit is still alive, but skips that test for attempts in
`cleanup_started` (`monitor.py:81`). An attempt enters that set at its first pending
stop and leaves it only with confirmed cleanup; the ten-second bound is tested only
when the stop is pending again (`supervisor.py:303-306`). A stop that is pending
once and fails differently afterwards leaves the unit running with no one to end it.

### Where the models state less than the documentation

Some sentences of the documentation are stronger than what the code does. The models
follow the code, and where a scene reaches such a case the properties are stated so
that they allow it; the last paragraph lists what no scene reaches.

* Agents: a delivery that is uncertain when its agent stops may stay stored on the
  node for good (`agent_exchange.py:58`), and a reply accepted after the last
  exchange of a stopped agent is not fetched (`agents.py:256`).
* Contributors: a pending rotation whose request window is over is repeated without
  falling back to the current certificate (`contributor_store.py:231`).
* Editor: cleanup does not recompute the state of a receipt
  (`module_editor_service.py:279`).
* Endpoint streams: an answer without framing that is cut short ends like a complete
  one (`execution/endpoints.py:87`).
* Federation: receipts are looked up without their grant (`service.py:114`), and a
  forgotten peer's old receipt pairs again (`pairing.py:135`). A grant issued while
  `remove` waits for streams to end outlives that removal (`service.py:92`): `amid`
  marks it, and `RemovedEnds` allows it for that one removal (`federation_removal`).
  The receipt of a control may say `failed` after some of its replicas were started
  or some of its jobs removed (`operations.py:205`, `220`): `part` models that, and
  `ReceiptTrue` takes `failed` as "not done" of the other mutations only.
* File operations: `execute` saves its whole copy, and the copy may be older than what
  another execution saved (`files.py:244`-`263`): it can put `queued` or `failed` over
  the success of an item or the operation. An item in doubt becomes `failed` when a
  later execution is refused before it asks the node (`files.py:261`). `OutcomesKept`
  allows exactly these two; `ItemsTrue` says that success is always true and that
  `failed` is true of an item never dispatched. A failed operation that is run again
  does not keep its root (`files.py:278`; `docs/files.md:39` says an active one
  does). Object uploads: a run and its upload are saved apart
  (`source_objects.py:159`). Sources: a partial file may be retained without an
  identity (`source_output.py:33`).
* Inference: a control acts on a record read before an await (`service.py:199`). A
  start that is refused after some of its replicas were retried (`service.py:186`)
  leaves them queued under a service that says `stopped`: `again` marks them, and
  `StoppedReleased` says that every other replica of a stopped service is released. The
  poll reads all records and waits between them (`service.py:296`), so it may cancel
  the replicas of a service that was started meanwhile (`service.py:241`-`248`;
  `docs/inference.md:27` says it stays resident until drained or stopped).
  `StaleCancels` allows that of a poll that read the service before its last control,
  and `DecisionKept` says that what the operator wants is not changed by it
  (`inference_pair`). Node cache: references are noted once before eviction
  (`model_cache.py:121`), so an attempt protects an entry from the moment its fill or
  copy begins, not from its admission (`docs/inference.md:142`).
* Modules: a lease may be released over a service the manager does not stop
  (`sandbox.py:213`). Module and Proxmox operations: some receipts can no longer be
  removed after a resolution (`container_state.py:93`, `proxmox_state.py:115`).
* History: a node deletes nothing. It moves a job's directory by `rename` as soon as
  its intent is saved, before the archive is read back (`node/history.py:134`);
  `VerifiedRemoval` says where the directory goes and that the node changes identity
  only when all are moved. Only the command line's own receipts are deleted.
* Policies: a restart prepares the active package of a publisher that was re-enabled
  (`policies.py:59`).
* Publications: `docs/workloads.md:119` says that an active or uncertain publication
  "blocks release until it succeeds or cancellation is confirmed". A release that got
  no answer for twelve seconds (`channel.py:62`) fails on the controller and frees the
  node's lock while the executor goes on deleting (`queue.py:162`). A publication that
  waited for the lock (`artifacts.py:155`) finds the attempt's row unchanged and is
  admitted, and then its output disappears. Both publication scenes reach this; `over`
  marks such a publication, and `OutputKept` says that no other one loses its output.
  Skipping may leave a registered dataset (`artifacts.py:281`).
* Certificate renewal: a directory left between creation and its mode stops later
  runs (`renew_tls.py:333`). Displays: a quiet display may be closed at its first new
  frame (`viewer_stream.py:144`); when the stop of its service cannot be confirmed
  (`viewer_process.py:163`, `sandbox.py:203`) the slot is given up all the same
  (`viewer_routes.py:80`), so a fifth unit may run until a closed pipe or
  `RuntimeMaxSec` ends the stray one (`docs/viewer.md:47` says at most four are
  active): `stray` holds such units and `DisplaysBounded` and `NothingLeft` leave out
  these only. Workspaces: a surface removed and saved again has
  the first one's revision (`workspace_store.py:137`).

Left out, and reached by no scene: `reconcile_absent`, by which the executor settles
attempts of records older than its own format (`supervisor.py:206`); the leases that
a failing batch of renewals stored before the failing item (`runner.py:164`; `aborts`
stores none); adapter receipts that say `refused` or `unknown` themselves
(`adapter_vm_protocol.py:25`); a control group that cannot be read (`node/jobs.py:57`);
the second comparison of the archive's digest, which only adds a refusal
(`history_state.py:163`); a permission lost inside the call of a module operation,
which the code records as `unknown` (`module_vm_operations.py:259`); and a policy
preview in which the owner names a package other than the active one
(`policies.py:244`).

## Proofs

All theorems hold for every value of the constants, under assumptions that TLC
evaluates on the runs' instances.

**Executor** (`Executor_proofs`; any attempts, jobs, slots, GPUs and bounds; plans
name a job and devices of the installation, and the absent value is nothing else).
`WorkloadHeld`, `Exclusive`, `NoStrayDevice` and `HonestOutcome` are each far from
inductive. `Inv` has three parts:

* `Ledger`: per attempt, what a row says of itself (`RowOK`: a row that is not over
  holds its slot, a settled one has its cleanup confirmed, a released one holds
  nothing), what it says of its unit (`UnitOK`: none before a start, live only over
  an unconfirmed reservation, success only over a released payload that exited with
  zero) and what a pool operation in flight says of both (`WorkOK`: nothing is
  settled under it, and a launch that has not happened finds no unit), with `Devs`
  (devices table and rows agree both ways) and `Apart` (a slot is held once; a job
  has one attempt that is not released). `WorkOK` is what makes a late worker
  harmless: without it `launch` could start a unit for a row that was settled and
  released meanwhile.
* `Memory`: types of what the supervisor holds in memory, and of the clocks.
* `Process`: nothing is in flight while the supervisor is down or recovering,
  recovery visits only unresolved attempts, and a release in two parts finds its
  attempt settled.

`RowStep` reduces a step on one attempt to its local part, and each action has its
lemma. `Typed`, `WorkloadsHeld`, `UnitsExclusive`, `DevicesReserved` and
`OutcomesHonest` follow from `InOrder` (`Spec => []Inv`). `BoardImplemented` proves
the refinement `Spec => ImplementsBoard`: a step on one attempt is shown as the change
of its public row and of its unit, and matched with the board's action (`prepare` with
`AdmitPlan` or `SealPlan`, `renew` with `ExtendLease`, `launch` with `LaunchUnit`, the
endings of `finish` with `Settle`, the second half of `release` with `FreeAttempt`, and
so on) or with a stutter where only memory, devices or clocks change.

**ExecutorBoard** (`BoardSafe`): `BoardSpec => []OneUnitPerJob`. The inductive
invariant adds that at most one attempt of a job is neither absent nor released,
that live units belong to starting, running or uncertain attempts, and that cleanup
is unconfirmed until an outcome is recorded. With `BoardImplemented` it holds of the
executor.

**WorkloadRecords** (any jobs, attempts, nodes, ledgers, details, limits and
capacity; plans name jobs, nodes and positive generations, and the absent value is
neither an attempt nor a result). `OneHolderPerJob`, `RecordsValid` and
`JobShowsAttempt`: `OlderReleased`, `ValidRecords` and `JobMirrorsAttempt` are not
inductive alone. `reserve` replaces a job's current attempt, so that the older one is
released follows only from what a queued job says of it; `retry` makes a job queued
only over a released attempt; and both need the current attempt to be a row of that
very job. Their conjunction with `Blank` (an absent row is empty) is `Linked`, which
is inductive together with `TypeOK` (`TypeCorrect`). `OutcomesFinal` proves the
action property `OutcomeFixed`.

**ContributorWorkloads** (any jobs, attempts, nodes, ledgers and late commands;
besides the assumptions of the rows, executors settle attempts in final states,
ledgers are numbered and the absent value is no number). `OneRun` (`OneRunPerJob`) joins the rows and
the executors. That two attempts of a job are never both alive is far from
inductive: the retry is placed on the word of a row, while commands for the older
attempt may still be on their way to an executor installed meanwhile. `Gone` is the
idea of the proof: no executor holds the attempt, and none will take it up, neither
from a pending dispatch nor from a command however late. `CWInv` says

* `RowsInv`: the rows' own invariant `Linked`, and that outcomes are final states;
* `BoardInv`: what an executor lists, and that live units are unsettled;
* `LoopTypes` and `Phased`: passes, commands and late commands name attempts of
  their node and ledgers that existed, and dispatch and passes alternate;
* `GoneInv`: an attempt never placed is fresh, a queued one is not yet asked for, a
  released row and a *reported* release (in a reply or in a pass's snapshot, before
  it is saved) are gone, and of two attempts of a job one is gone (`OneNotGone`).

Without the reported release the step that saves it would have nothing to stand on.
`LoopRecords` shows the rows' theorems of the loop too. `RowsAlwaysAgree`
(`RowsAgree`) needs more, `AgreementInv`: `CommandInv` (a command on its way carries
what its row has saved, so intents and leases precede it), `RecordInv` (an executor's
record has no start or lease that its row lacks) and `AgreeInv` (a recorded or
reported ending is the one the executor still shows, unless its ledger was lost).

**ManagedJobs** (any jobs, nodes, cancellations, boots and late requests; the absent
value is none of the records). `JobsConcluded`: a closed job does not run, nothing
that could still launch it is on its way (`ClosedStopped`), and its outcome is the
node's (`ReceiptAgrees`). `Inv` has one `JobInv` per job. `Single` and `Tasked` say
that the one submission is on its way, or being served, or refused without a trace:
that is why `failed` may be shown after a refusal and not after a lost answer.
`Waited` ties an answer to the task that asked. `Serving` is the part that is easy to
miss: from reading that there is no result to asking the unit, the helper holds the
job lock, and until then nobody may know an outcome (`Undecided`), or the state of the
unit could be recorded over it. `Running` and `Settled` are the property itself.
`Elsewhere` and the lemmas `Dropped`, `Concluded`, `Replied`, `Moved`, `Arrived` and
`Noted` say what a step does to one job; nearly every action is one of them for the
job it is about and leaves the others `Elsewhere`.

**AuditDelivery** (any intents, rows and bounds; the absent value is none of the
records). `RowsDelivered`: the collector's journal accounts for every row once, as
delivered or as missing, and the checkpoint on disk never conflicts with it
(`EveryRowOnce`, `PendingSaved`). `IntentsFirst`: an admitted mutation has its intent
in the journal and the saved checkpoint is past it (`IntentDurable`), and a policy
that the administrator was told of is enforced (`PolicyKept`). The invariant is
`Chain` (the batches are numbered and report consecutive rows), `Abreast` (a
checkpoint, on disk or in memory, is at the journal's end or exactly one batch before
it, and that batch is its pending one) and `InMemory`, which lists the ways in which
the file may differ from memory: an unsent batch or an acknowledgement, both only
while the checkpoint is dirty. `PageWhole` proves of `page` that it returns the next
rows and names the others, for any table.

**StateTransactions** (any number of blocks, statements and levels of nesting).
`BlocksWhole` (`AllOrNothing`), `CaughtFailuresKeptOut` (`RaisedNothing`) and the
action property `LockHolderWrites` (`OwnedWrites`). `InHand` is the strengthening:
while a block runs and the session is ours, the open transaction holds exactly its
rows, and whatever raised in it is remembered; between blocks our session holds
nothing; a session is given up exactly when the connection is marked as failed. `Told`
adds that only the block in hand is open and that no open or later block has a
durable row, which makes a commit add exactly one block. A lemma about finite sets
bounds the number of statements.

**StateMigration** (any number of directories, records and crashes; no directory is
named like the absent value). `HomeServed` (`ServesHome`) and the action property
`RetainedThroughout` (`RetainedUntilImported`). The invariant is one `Place` per
directory: `Holding` (which steps a holder of the lock can be at, and that the
advisory lock is held exactly in two of them), `Standing` (what a holder checked
before its step still stands at it) and `Homed` (the records are in the file while
there is one, and then the database holds nothing or exactly that snapshot; else they
are in the database bound to the directory). `Elsewhere` shows that a step of one
directory cannot disturb another's `Place`.

Only model-checked: all liveness (fairness and `ENABLED` are out of the prover's
reach), so also that an outcome the node keeps reaches the controller; sums of
capacity over a set, an induction the prover cannot do; and the properties of the
other components, which the suites check scene by scene. A suite's properties are
conjunctions over its scenes, so a theorem about one component states the operators
that the suite's property names.

## Not modelled

Scheduler ranking and usage accounting (pure functions of a snapshot), the web client,
launcher, packaging, SDK and tools, the byte stream of a terminal attachment and audio
leases. Wire formats, cryptography, SQL dialects and schema upgrades, path and mount
checks, operating-system probes and read-only requests are left out of the modelled
parts, or are a decision that may go either way. `PROJECT.json` says for each part
what of it is left out.

## Plan

1. Proofs for further components whose properties are checked scene by scene, the
   durable protocols first: `Transfers` (nothing overwritten, success means whole) and
   `Contributors` (one certificate).
2. The scheduler's ranking as an operator against a reference definition.
