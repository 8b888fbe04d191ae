-------------------------------- MODULE MCNodes -------------------------------
(* What the controller and its nodes do together, each part in small        *)
(* scenes: adapter operations, agent messages, file saves, inference        *)
(* services, managed jobs, the model cache, the staging of workload inputs, *)
(* and workloads on executors.  A behaviour stays in the scene it begins    *)
(* in; the variables are slots that every scene gives its own meaning.      *)
EXTENDS Naturals, Sequences, FiniteSets, TLC

CONSTANTS
    Scenes,  \* the scenes a run explores
    None,
    x1, x2  \* interchangeable identities

VARIABLES scene,
    v1, v2, v3, v4, v5, v6, v7, v8, v9, v10, v11, v12, v13, v14, v15, v16, v17, v18

slots == <<v1, v2, v3, v4, v5, v6, v7, v8, v9, v10, v11, v12, v13, v14, v15, v16, v17, v18>>
scenesVars == <<scene, slots>>

-----------------------------------------------------------------------------
(* Two operations under one profile. *)
AdapterPair == INSTANCE Adapters WITH
    prof <- v1, granting <- v2, pre <- v3, rec <- v4, task <- v5, adm <- v6, cleanup <- v7,
    net <- v8, jr <- v9, busy <- v10, prov <- v11, eff <- v12, swapped <- v13, faults <- v14,
    Op <- {x1, x2}, Profile <- {"f"}, MaxRev <- 3, MaxFault <- 2

(* One operation under one profile. *)
AdapterOne == INSTANCE Adapters WITH
    prof <- v1, granting <- v2, pre <- v3, rec <- v4, task <- v5, adm <- v6, cleanup <- v7,
    net <- v8, jr <- v9, busy <- v10, prov <- v11, eff <- v12, swapped <- v13, faults <- v14,
    Op <- {"o"}, Profile <- {"f"}, MaxRev <- 4, MaxFault <- 2

(* One direct message while the agent's session may be replaced. *)
AgentDirect == INSTANCE Agents WITH
    agent <- v1, run <- v2, delivery <- v3, stored <- v4, launching <- v5, task <- v6,
    net <- v7, restarts <- v8, spool <- v9, runtime <- v10, term <- v11, inbox <- v12,
    receipt <- v13, outbox <- v14, bridge <- v15, submitted <- v16, included <- v17,
    readby <- v18,
    Deliveries <- {"d"}, Direct <- {"d"}, Replies <- {}, Sessions <- {"s1", "s2"},
    First <- "s1", MaxLate <- 0, MaxRestart <- 0, MaxRev <- 1

(* One direct message whose request may be executed after the controller *)
(* gave up.                                                              *)
AgentLate == INSTANCE Agents WITH
    agent <- v1, run <- v2, delivery <- v3, stored <- v4, launching <- v5, task <- v6,
    net <- v7, restarts <- v8, spool <- v9, runtime <- v10, term <- v11, inbox <- v12,
    receipt <- v13, outbox <- v14, bridge <- v15, submitted <- v16, included <- v17,
    readby <- v18,
    Deliveries <- {"d"}, Direct <- {"d"}, Replies <- {}, Sessions <- {"s1"}, First <- "s1",
    MaxLate <- 1, MaxRestart <- 0, MaxRev <- 0

(* Two replies of an agent. *)
AgentOutbox == INSTANCE Agents WITH
    agent <- v1, run <- v2, delivery <- v3, stored <- v4, launching <- v5, task <- v6,
    net <- v7, restarts <- v8, spool <- v9, runtime <- v10, term <- v11, inbox <- v12,
    receipt <- v13, outbox <- v14, bridge <- v15, submitted <- v16, included <- v17,
    readby <- v18,
    Deliveries <- {}, Direct <- {}, Replies <- {x1, x2}, Sessions <- {"s1"}, First <- "s1",
    MaxLate <- 0, MaxRestart <- 1, MaxRev <- 0

(* Two saves of one file, with another program writing to it. *)
EditorRace == INSTANCE Editor WITH
    file <- v1, rec <- v2, stg <- v3, job <- v4, net <- v5, rep <- v6, op <- v7, item <- v8,
    exp <- v9, adm <- v10, access <- v11, root <- v12, swapped <- v13, sure <- v14,
    writes <- v15, faults <- v16,
    Op <- {"o1", "o2"}, File <- {"f"}, MaxWrite <- 1, MaxFault <- 0, MaxNet <- 1, MaxEdits <- 1

(* One save whose requests may arrive late or twice. *)
EditorLate == INSTANCE Editor WITH
    file <- v1, rec <- v2, stg <- v3, job <- v4, net <- v5, rep <- v6, op <- v7, item <- v8,
    exp <- v9, adm <- v10, access <- v11, root <- v12, swapped <- v13, sure <- v14,
    writes <- v15, faults <- v16,
    Op <- {"o"}, File <- {"f"}, MaxWrite <- 1, MaxFault <- 2, MaxNet <- 2, MaxEdits <- 2

(* One save of two files. *)
EditorBatch == INSTANCE Editor WITH
    file <- v1, rec <- v2, stg <- v3, job <- v4, net <- v5, rep <- v6, op <- v7, item <- v8,
    exp <- v9, adm <- v10, access <- v11, root <- v12, swapped <- v13, sure <- v14,
    writes <- v15, faults <- v16,
    Op <- {"o"}, File <- {"f1", "f2"}, MaxWrite <- 0, MaxFault <- 1, MaxNet <- 1, MaxEdits <- 2

(* One save, with crashes on both sides. *)
EditorOne == INSTANCE Editor WITH
    file <- v1, rec <- v2, stg <- v3, job <- v4, net <- v5, rep <- v6, op <- v7, item <- v8,
    exp <- v9, adm <- v10, access <- v11, root <- v12, swapped <- v13, sure <- v14,
    writes <- v15, faults <- v16,
    Op <- {"o"}, File <- {"f"}, MaxWrite <- 0, MaxFault <- 2, MaxNet <- 1, MaxEdits <- 2

AnyControl == {"create", "replace", "stop", "drain", "remove", "start"}

(* One replica with two attempts, controlled while a request runs. *)
InferenceControl == INSTANCE Inference WITH
    svc <- v1, jobs <- v2, ctl <- v3, poll <- v4, fresh <- v5, rec <- v6, ready <- v7,
    chk <- v8, req <- v9, active <- v10, loads <- v11, scoped <- v12, issued <- v13,
    audited <- v14, controls <- v15, restarts <- v16,
    Services <- {"s"}, Attached <- {}, Replicas <- {"r"}, Requests <- {"q"}, Tokens <- {},
    Concurrency <- 1, MaxAttempts <- 2, Asked <- AnyControl,
    MaxControls <- 4, MaxRestart <- 1

(* A service with replicas and an attached endpoint. *)
InferenceAttached == INSTANCE Inference WITH
    svc <- v1, jobs <- v2, ctl <- v3, poll <- v4, fresh <- v5, rec <- v6, ready <- v7,
    chk <- v8, req <- v9, active <- v10, loads <- v11, scoped <- v12, issued <- v13,
    audited <- v14, controls <- v15, restarts <- v16,
    Services <- {"s1", "s2"}, Attached <- {"s2"}, Replicas <- {"r"}, Requests <- {},
    Tokens <- {}, Concurrency <- 1, MaxAttempts <- 1, Asked <- AnyControl,
    MaxControls <- 5, MaxRestart <- 0

(* Two services with a replica each, one started while the poll is busy with *)
(* the other.                                                                *)
InferencePair == INSTANCE Inference WITH
    svc <- v1, jobs <- v2, ctl <- v3, poll <- v4, fresh <- v5, rec <- v6, ready <- v7,
    chk <- v8, req <- v9, active <- v10, loads <- v11, scoped <- v12, issued <- v13,
    audited <- v14, controls <- v15, restarts <- v16,
    Services <- {x1, x2}, Attached <- {}, Replicas <- {"r"}, Requests <- {}, Tokens <- {},
    Concurrency <- 1, MaxAttempts <- 1, Asked <- {"create", "stop", "start"},
    MaxControls <- 5, MaxRestart <- 0

(* Two requests compete for one attempt at a time. *)
InferenceGateway == INSTANCE Inference WITH
    svc <- v1, jobs <- v2, ctl <- v3, poll <- v4, fresh <- v5, rec <- v6, ready <- v7,
    chk <- v8, req <- v9, active <- v10, loads <- v11, scoped <- v12, issued <- v13,
    audited <- v14, controls <- v15, restarts <- v16,
    Services <- {"s"}, Attached <- {}, Replicas <- {"r"}, Requests <- {x1, x2}, Tokens <- {},
    Concurrency <- 1, MaxAttempts <- 2, Asked <- AnyControl,
    MaxControls <- 1, MaxRestart <- 0

(* Two requests to an attached endpoint. *)
InferenceEndpoint == INSTANCE Inference WITH
    svc <- v1, jobs <- v2, ctl <- v3, poll <- v4, fresh <- v5, rec <- v6, ready <- v7,
    chk <- v8, req <- v9, active <- v10, loads <- v11, scoped <- v12, issued <- v13,
    audited <- v14, controls <- v15, restarts <- v16,
    Services <- {"s"}, Attached <- {"s"}, Replicas <- {"r"}, Requests <- {x1, x2},
    Tokens <- {"t"}, Concurrency <- 2, MaxAttempts <- 1, Asked <- AnyControl,
    MaxControls <- 4, MaxRestart <- 1

(* Two jobs on one node. *)
JobPair == INSTANCE ManagedJobs WITH
    previews <- v1, target <- v2, task <- v3, net <- v4, receipt <- v5, unit <- v6,
    signal <- v7, alive <- v8, helper <- v9, boot <- v10,
    Jobs <- {x1, x2}, Nodes <- {"n"}, NodeOf <- [j \in {x1, x2} |-> "n"], MaxRev <- 1,
    MaxBoot <- 1, MaxLate <- 0

(* One job whose submission may arrive late. *)
JobOne == INSTANCE ManagedJobs WITH
    previews <- v1, target <- v2, task <- v3, net <- v4, receipt <- v5, unit <- v6,
    signal <- v7, alive <- v8, helper <- v9, boot <- v10,
    Jobs <- {"j"}, Nodes <- {"n"}, NodeOf <- [j \in {"j"} |-> "n"], MaxRev <- 1, MaxBoot <- 2,
    MaxLate <- 1

(* The same on a node that stays up. *)
JobLive == INSTANCE ManagedJobs WITH
    previews <- v1, target <- v2, task <- v3, net <- v4, receipt <- v5, unit <- v6,
    signal <- v7, alive <- v8, helper <- v9, boot <- v10,
    Jobs <- {"j"}, Nodes <- {"n"}, NodeOf <- [j \in {"j"} |-> "n"], MaxRev <- 1, MaxBoot <- 1,
    MaxLate <- 1

(* An upload and a transfer of one file under power loss. *)
ModelPower == INSTANCE ModelCache WITH
    rec <- v1, spent <- v2, disk <- v3, dur <- v4, lock <- v5, thr <- v6, dl <- v7, tr <- v8,
    bound <- v9, loop <- v10, look <- v11, seen <- v12, crashes <- v13,
    File <- {"f"}, Manifest <- {<<"f">>}, Id <- {"i"}, Upload <- {"u"}, Transfer <- {"t"},
    Size <- 2, Reconnects <- 1, Active <- 0, Viewed <- {}, Bad <- {"u"}, PowerLoss <- TRUE,
    MaxCrash <- 1

(* A reader without the lock, beside an upload and a download. *)
ModelRead == INSTANCE ModelCache WITH
    rec <- v1, spent <- v2, disk <- v3, dur <- v4, lock <- v5, thr <- v6, dl <- v7, tr <- v8,
    bound <- v9, loop <- v10, look <- v11, seen <- v12, crashes <- v13,
    File <- {"f"}, Manifest <- {<<"f">>}, Id <- {"i"}, Upload <- {"u"}, Transfer <- {},
    Size <- 2, Reconnects <- 1, Active <- 2, Viewed <- {"f"}, Bad <- {"u"}, PowerLoss <- FALSE,
    MaxCrash <- 0

(* Two revisions that share a file. *)
ModelShare == INSTANCE ModelCache WITH
    rec <- v1, spent <- v2, disk <- v3, dur <- v4, lock <- v5, thr <- v6, dl <- v7, tr <- v8,
    bound <- v9, loop <- v10, look <- v11, seen <- v12, crashes <- v13,
    File <- {"f", "g"}, Manifest <- {<<"f">>, <<"f", "g">>}, Id <- {x1, x2}, Upload <- {},
    Transfer <- {}, Size <- 1, Reconnects <- 1, Active <- 2, Viewed <- {}, Bad <- {},
    PowerLoss <- FALSE, MaxCrash <- 0

(* Two inputs of one attempt. *)
InputsStage == INSTANCE WorkloadInputs WITH
    job <- v1, pend <- v2, poll <- v3, wire <- v4, up <- v5, natt <- v6, prog <- v7,
    data <- v8, hash <- v9, op <- v10, cache <- v11, fill <- v12, queued <- v13, count <- v14,
    Attempt <- {"a"}, Object <- {"o1", "o2"}, Inputs <- [a \in {"a"} |-> <<"o1", "o2">>],
    Size <- 2, Prefetches <- 1, Cached <- FALSE, MaxFiles <- 1, MaxStart <- 1, MaxLost <- 2

(* Two attempts with an input each and room for one in the cache. *)
InputsCache == INSTANCE WorkloadInputs WITH
    job <- v1, pend <- v2, poll <- v3, wire <- v4, up <- v5, natt <- v6, prog <- v7,
    data <- v8, hash <- v9, op <- v10, cache <- v11, fill <- v12, queued <- v13, count <- v14,
    Attempt <- {"a1", "a2"}, Object <- {"o1", "o2"},
    Inputs <- [a \in {"a1", "a2"} |-> IF a = "a1" THEN <<"o1">> ELSE <<"o2">>], Size <- 1,
    Prefetches <- 1, Cached <- TRUE, MaxFiles <- 1, MaxStart <- 1, MaxLost <- 0

(* One workload attempt; its executor may be installed again, its session *)
(* lost, its node revoked.                                                *)
LoopReinstall == INSTANCE ContributorWorkloads WITH
    job <- v1, rec <- v2, disabled <- v3, suspended <- v4, board <- v5, alive <- v6,
    spent <- v7, ledger <- v8, saved <- v9, ctl <- v10, msg <- v11, late <- v12, live <- v13,
    reconciled <- v14, ready <- v15, queued <- v16, phase <- v17,
    Jobs <- {"j"}, Attempts <- {"a"}, Nodes <- {"n"}, JobOf <- [a \in {"a"} |-> "j"],
    GenOf <- [a \in {"a"} |-> 1], NodeOf <- [a \in {"a"} |-> "n"], CpuOf <- [a \in {"a"} |-> 1],
    GpuOf <- [a \in {"a"} |-> {}], Capacity <- 2, Details <- {"d"}, Ledgers <- {1, 2},
    MaxLeases <- 2, Detail <- "d", Outcomes <- {"failed"}, Revocable <- {"n"}, Unstable <- {"n"},
    Delayed <- {"prepare", "reject_absent", "stop", "renew", "start", "release"}, MaxLate <- 1,
    MaxLedgers <- 2

(* Two workloads share the batches of one node; each names its job. *)
LoopPair == INSTANCE ContributorWorkloads WITH
    job <- v1, rec <- v2, disabled <- v3, suspended <- v4, board <- v5, alive <- v6,
    spent <- v7, ledger <- v8, saved <- v9, ctl <- v10, msg <- v11, late <- v12, live <- v13,
    reconciled <- v14, ready <- v15, queued <- v16, phase <- v17,
    Jobs <- {x1, x2}, Attempts <- {x1, x2}, Nodes <- {"n"}, JobOf <- [a \in {x1, x2} |-> a],
    GenOf <- [a \in {x1, x2} |-> 1], NodeOf <- [a \in {x1, x2} |-> "n"],
    CpuOf <- [a \in {x1, x2} |-> 1], GpuOf <- [a \in {x1, x2} |-> {}], Capacity <- 2,
    Details <- {"d"}, Ledgers <- {1}, MaxLeases <- 1, Detail <- "d", Outcomes <- {"failed"},
    Revocable <- {}, Unstable <- {}, Delayed <- {}, MaxLate <- 0, MaxLedgers <- 1

(* The executor's promise for two attempts of a job and one of another. *)
Promise == INSTANCE ExecutorBoard WITH
    board <- v1, alive <- v2, spent <- v3,
    Attempts <- {"first", "again", "other"},
    JobOf <- [a \in {"first", "again", "other"} |-> IF a = "other" THEN "j2" ELSE "j1"],
    GenOf <- [a \in {"first", "again", "other"} |-> IF a = "again" THEN 2 ELSE 1],
    Expiries <- {0}, MaxSeq <- 2

ASSUME AgentDirect!AgentsAssumption /\ AgentLate!AgentsAssumption /\ AgentOutbox!AgentsAssumption
ASSUME EditorRace!EditsAssumption /\ EditorLate!EditsAssumption /\ EditorBatch!EditsAssumption
    /\ EditorOne!EditsAssumption
ASSUME InferenceControl!InferenceAssumption /\ InferenceAttached!InferenceAssumption
    /\ InferencePair!InferenceAssumption
    /\ InferenceGateway!InferenceAssumption /\ InferenceEndpoint!InferenceAssumption
ASSUME JobPair!JobsConstants /\ JobOne!JobsConstants /\ JobLive!JobsConstants
ASSUME LoopReinstall!LoopAssumption /\ LoopPair!LoopAssumption

-----------------------------------------------------------------------------
ScenesInit ==
  /\ scene \in Scenes
  /\ \/ scene = "adapter_pair" /\ AdapterPair!Init
        /\ v15 = None /\ v16 = None /\ v17 = None /\ v18 = None
     \/ scene = "adapter_one" /\ AdapterOne!Init
        /\ v15 = None /\ v16 = None /\ v17 = None /\ v18 = None
     \/ scene = "agent_direct" /\ AgentDirect!Init
     \/ scene = "agent_late" /\ AgentLate!Init
     \/ scene = "agent_outbox" /\ AgentOutbox!Init
     \/ scene = "editor_race" /\ EditorRace!Init
        /\ v17 = None /\ v18 = None
     \/ scene = "editor_late" /\ EditorLate!Init
        /\ v17 = None /\ v18 = None
     \/ scene = "editor_batch" /\ EditorBatch!Init
        /\ v17 = None /\ v18 = None
     \/ scene = "editor_one" /\ EditorOne!Init
        /\ v17 = None /\ v18 = None
     \/ scene = "inference_control" /\ InferenceControl!Init
        /\ v17 = None /\ v18 = None
     \/ scene = "inference_attached" /\ InferenceAttached!Init
        /\ v17 = None /\ v18 = None
     \/ scene = "inference_pair" /\ InferencePair!Init
        /\ v17 = None /\ v18 = None
     \/ scene = "inference_gateway" /\ InferenceGateway!Init
        /\ v17 = None /\ v18 = None
     \/ scene = "inference_endpoint" /\ InferenceEndpoint!Init
        /\ v17 = None /\ v18 = None
     \/ scene = "job_pair" /\ JobPair!Init
        /\ v11 = None /\ v12 = None /\ v13 = None /\ v14 = None /\ v15 = None /\ v16 = None
           /\ v17 = None /\ v18 = None
     \/ scene = "job_one" /\ JobOne!Init
        /\ v11 = None /\ v12 = None /\ v13 = None /\ v14 = None /\ v15 = None /\ v16 = None
           /\ v17 = None /\ v18 = None
     \/ scene = "job_live" /\ JobLive!Init
        /\ v11 = None /\ v12 = None /\ v13 = None /\ v14 = None /\ v15 = None /\ v16 = None
           /\ v17 = None /\ v18 = None
     \/ scene = "model_power" /\ ModelPower!Init
        /\ v14 = None /\ v15 = None /\ v16 = None /\ v17 = None /\ v18 = None
     \/ scene = "model_read" /\ ModelRead!Init
        /\ v14 = None /\ v15 = None /\ v16 = None /\ v17 = None /\ v18 = None
     \/ scene = "model_share" /\ ModelShare!Init
        /\ v14 = None /\ v15 = None /\ v16 = None /\ v17 = None /\ v18 = None
     \/ scene = "inputs_stage" /\ InputsStage!Init
        /\ v15 = None /\ v16 = None /\ v17 = None /\ v18 = None
     \/ scene = "inputs_cache" /\ InputsCache!Init
        /\ v15 = None /\ v16 = None /\ v17 = None /\ v18 = None
     \/ scene = "loop_reinstall" /\ LoopReinstall!CWInit /\ v18 = None
     \/ scene = "loop_pair" /\ LoopPair!CWInit /\ v18 = None
     \/ scene = "board" /\ Promise!BoardInit
        /\ v4 = None /\ v5 = None /\ v6 = None /\ v7 = None /\ v8 = None /\ v9 = None
           /\ v10 = None /\ v11 = None /\ v12 = None /\ v13 = None /\ v14 = None /\ v15 = None
           /\ v16 = None /\ v17 = None /\ v18 = None

ScenesNext ==
    \/ scene = "adapter_pair" /\ AdapterPair!Next /\ UNCHANGED <<scene, v15, v16, v17, v18>>
    \/ scene = "adapter_one" /\ AdapterOne!Next /\ UNCHANGED <<scene, v15, v16, v17, v18>>
    \/ scene = "agent_direct" /\ AgentDirect!Next /\ UNCHANGED scene
    \/ scene = "agent_late" /\ AgentLate!Next /\ UNCHANGED scene
    \/ scene = "agent_outbox" /\ AgentOutbox!Next /\ UNCHANGED scene
    \/ scene = "editor_race" /\ EditorRace!Next /\ UNCHANGED <<scene, v17, v18>>
    \/ scene = "editor_late" /\ EditorLate!Next /\ UNCHANGED <<scene, v17, v18>>
    \/ scene = "editor_batch" /\ EditorBatch!Next /\ UNCHANGED <<scene, v17, v18>>
    \/ scene = "editor_one" /\ EditorOne!Next /\ UNCHANGED <<scene, v17, v18>>
    \/ scene = "inference_control" /\ InferenceControl!Next /\ UNCHANGED <<scene, v17, v18>>
    \/ scene = "inference_attached" /\ InferenceAttached!Next /\ UNCHANGED <<scene, v17, v18>>
    \/ scene = "inference_pair" /\ InferencePair!Next /\ UNCHANGED <<scene, v17, v18>>
    \/ scene = "inference_gateway" /\ InferenceGateway!Next /\ UNCHANGED <<scene, v17, v18>>
    \/ scene = "inference_endpoint" /\ InferenceEndpoint!Next /\ UNCHANGED <<scene, v17, v18>>
    \/ scene = "job_pair" /\ JobPair!Next /\ UNCHANGED <<scene, v11, v12, v13, v14, v15, v16, v17,
       v18>>
    \/ scene = "job_one" /\ JobOne!Next /\ UNCHANGED <<scene, v11, v12, v13, v14, v15, v16, v17,
       v18>>
    \/ scene = "job_live" /\ JobLive!Next /\ UNCHANGED <<scene, v11, v12, v13, v14, v15, v16, v17,
       v18>>
    \/ scene = "model_power" /\ ModelPower!Next /\ UNCHANGED <<scene, v14, v15, v16, v17, v18>>
    \/ scene = "model_read" /\ ModelRead!Next /\ UNCHANGED <<scene, v14, v15, v16, v17, v18>>
    \/ scene = "model_share" /\ ModelShare!Next /\ UNCHANGED <<scene, v14, v15, v16, v17, v18>>
    \/ scene = "inputs_stage" /\ InputsStage!Next /\ UNCHANGED <<scene, v15, v16, v17, v18>>
    \/ scene = "inputs_cache" /\ InputsCache!Next /\ UNCHANGED <<scene, v15, v16, v17, v18>>
    \/ scene = "loop_reinstall" /\ LoopReinstall!CWNext /\ UNCHANGED <<scene, v18>>
    \/ scene = "loop_pair" /\ LoopPair!CWNext /\ UNCHANGED <<scene, v18>>
    \/ scene = "board" /\ Promise!BoardNext /\ UNCHANGED <<scene, v4, v5, v6, v7, v8, v9, v10,
       v11, v12, v13, v14, v15, v16, v17, v18>>

ScenesSpec == ScenesInit /\ [][ScenesNext]_scenesVars

-----------------------------------------------------------------------------
(* Every scene keeps the type invariant of its component. *)
ScenesTypeOK ==
    /\ scene = "adapter_pair" => AdapterPair!TypeOK
    /\ scene = "adapter_one" => AdapterOne!TypeOK
    /\ scene = "agent_direct" => AgentDirect!TypeOK
    /\ scene = "agent_late" => AgentLate!TypeOK
    /\ scene = "agent_outbox" => AgentOutbox!TypeOK
    /\ scene = "editor_race" => EditorRace!TypeOK
    /\ scene = "editor_late" => EditorLate!TypeOK
    /\ scene = "editor_batch" => EditorBatch!TypeOK
    /\ scene = "editor_one" => EditorOne!TypeOK
    /\ scene = "inference_control" => InferenceControl!TypeOK
    /\ scene = "inference_attached" => InferenceAttached!TypeOK
    /\ scene = "inference_pair" => InferencePair!TypeOK
    /\ scene = "inference_gateway" => InferenceGateway!TypeOK
    /\ scene = "inference_endpoint" => InferenceEndpoint!TypeOK
    /\ scene = "job_pair" => JobPair!TypeOK
    /\ scene = "job_one" => JobOne!TypeOK
    /\ scene = "job_live" => JobLive!TypeOK
    /\ scene = "model_power" => ModelPower!TypeOK
    /\ scene = "model_read" => ModelRead!TypeOK
    /\ scene = "model_share" => ModelShare!TypeOK
    /\ scene = "inputs_stage" => InputsStage!TypeOK
    /\ scene = "inputs_cache" => InputsCache!TypeOK
    /\ scene = "loop_reinstall" => LoopReinstall!CWTypeOK
    /\ scene = "loop_pair" => LoopPair!CWTypeOK

(* What must reach the other side once does, though requests are lost,   *)
(* repeated or executed late: a provider task, an agent's message and    *)
(* its reply, each piece of a staged input, the place a request holds in *)
(* its service, and the unit of a workload.                              *)
DoneOnce ==
    /\ scene = "adapter_pair" => AdapterPair!AskedOnce
    /\ scene = "agent_direct" => AgentDirect!SubmittedOnce
    /\ scene = "agent_late" => AgentLate!SubmittedOnce
    /\ scene = "agent_outbox" => AgentOutbox!SentStored
    /\ scene = "inputs_stage" => InputsStage!StagedInOrder
    /\ scene = "inputs_cache" => InputsCache!StagedInOrder
    /\ scene = "inference_gateway" => InferenceGateway!Counted
    /\ scene = "inference_endpoint" => InferenceEndpoint!Counted
    /\ scene = "board" => Promise!OneUnitPerJob

(* An outcome that is recorded or answered is what the node did: settled *)
(* provider tasks, deliveries, saves, stopped services, closed jobs and  *)
(* acknowledged model files and workload rows agree with the other side, *)
(* or say that they do not know.                                         *)
OutcomesTrue ==
    /\ scene = "adapter_pair" => AdapterPair!OutcomeTrue /\ AdapterPair!ReceiptKept
                                 /\ AdapterPair!RemovedThere
    /\ scene = "agent_direct" => AgentDirect!OutcomeProved
    /\ scene = "agent_late" => AgentLate!OutcomeProved /\ AgentLate!ArchivedQuiet
    /\ scene = "agent_outbox" => AgentOutbox!ArchivedQuiet
    /\ scene = "editor_race" => EditorRace!OutcomeTrue
    /\ scene = "editor_late" => EditorLate!OutcomeTrue
    /\ scene = "editor_batch" => EditorBatch!OutcomeTrue
    /\ scene = "inference_control" => InferenceControl!StoppedReleased
    /\ scene = "inference_pair" => InferencePair!StoppedReleased
    /\ scene = "job_pair" => JobPair!ClosedStopped /\ JobPair!ReceiptAgrees
    /\ scene = "job_one" => JobOne!ClosedStopped /\ JobOne!ReceiptAgrees
    /\ scene = "model_power" => ModelPower!AcknowledgedDurable
    /\ scene = "model_read" => ModelRead!MissingWasMissing
    /\ scene = "loop_reinstall" => LoopReinstall!RowsAgree
    /\ scene = "loop_pair" => LoopPair!RowsAgree /\ LoopPair!JobMirrorsAttempt

(* Bytes are neither lost nor mistaken: another program's text in a      *)
(* saved file, the copies a save sets aside, a model file once it is     *)
(* published or bound, and an input where its workload reads it.         *)
ContentKept ==
    /\ scene = "editor_race" => EditorRace!ForeignTextKept
    /\ scene = "editor_batch" => EditorBatch!CopiesFound
    /\ scene = "model_power" => ModelPower!PublishedVerified
    /\ scene = "model_share" => ModelShare!BoundComplete
    /\ scene = "inputs_stage" => InputsStage!SentWhereRead

(* No step overturns a decision that others rely on: a settled outcome   *)
(* stays, a running task is not resolved, what an operator wants of a    *)
(* service is changed by the operator alone, a replica is drained before *)
(* it stops and is cancelled unasked only by a poll that read its        *)
(* service too early, and a model is acquired only when it is ready.     *)
DecisionsStand == [][
    /\ scene = "adapter_pair" => AdapterPair!RunningKept
    /\ scene = "agent_late" => AgentLate!SettledStays
    /\ scene = "editor_late" => EditorLate!OutcomeStays
    /\ scene = "inference_control" => InferenceControl!DrainWaits /\ InferenceControl!DecisionKept
    /\ scene = "inference_attached" => InferenceAttached!DecisionKept
    /\ scene = "inference_pair" => InferencePair!DecisionKept /\ InferencePair!StaleCancels
    /\ scene = "model_share" => ModelShare!AcquiredReady]_scenesVars

-----------------------------------------------------------------------------
jobVars == JobLive!vars
adapterVars == AdapterOne!vars
editorVars == EditorOne!vars

(* jobs.py: the poll loop and started units go on; a connection that is      *)
(* tried again and again succeeds at last, and requests stop arriving late.  *)
JobFairness ==
    /\ WF_jobVars(scene = "job_live" /\ JobLive!reconcile("j"))
    /\ WF_jobVars(scene = "job_live" /\ JobLive!send("j"))
    /\ SF_jobVars(scene = "job_live" /\ JobLive!receive("j"))
    /\ SF_jobVars(scene = "job_live" /\ JobLive!Sent("j"))
    /\ WF_jobVars(scene = "job_live" /\ (JobLive!RunnerEnds("j") \/ JobLive!UnitFails("j")))
    /\ WF_jobVars(scene = "job_live" /\ JobLive!UnitCollected("j"))
    /\ SF_jobVars(scene = "job_live" /\ JobLive!Deliver("n"))
    /\ WF_jobVars(scene = "job_live" /\ JobLive!Helper("n"))
    /\ SF_jobVars(scene = "job_live" /\ JobLive!Answers("n"))
    /\ <>[](scene = "job_live" => JobLive!Punctual)

(* adapter_operations.py: dispatch runs, the provider ends its tasks and a   *)
(* reader keeps observing.                                                   *)
AdapterFairness ==
    /\ WF_adapterVars(scene = "adapter_one" /\ AdapterOne!Dispatch("o"))
    /\ WF_adapterVars(scene = "adapter_one" /\ AdapterOne!DispatchFails("o"))
    /\ WF_adapterVars(scene = "adapter_one" /\ AdapterOne!ProviderEnds("o"))
    /\ SF_adapterVars(scene = "adapter_one" /\ AdapterOne!ObserveBegin("o"))
    /\ SF_adapterVars(scene = "adapter_one" /\ AdapterOne!Observe("o"))
    /\ WF_adapterVars(scene = "adapter_one" /\ AdapterOne!ObserveFails("o"))
    /\ WF_adapterVars(scene = "adapter_one" /\ AdapterOne!ForgetEnd("o"))
    /\ WF_adapterVars(scene = "adapter_one" /\ AdapterOne!ForgetFails("o"))
    /\ WF_adapterVars(scene = "adapter_one" /\ AdapterOne!Execute("f"))
    /\ WF_adapterVars(scene = "adapter_one" /\ AdapterOne!Complete("f"))
    /\ WF_adapterVars(scene = "adapter_one" /\ AdapterOne!Abandon("f"))

(* The helper and the controller take their steps; the caller keeps asking.  *)
EditorFairness ==
    /\ WF_editorVars(scene = "editor_one" /\ EditorOne!Steps)
    /\ SF_editorVars(scene = "editor_one" /\ EditorOne!Status("o"))

LiveSpec == ScenesSpec /\ JobFairness /\ AdapterFairness /\ EditorFairness

(* A result the node has recorded, however many answers are lost             *)
(* (Jobs.reconcile); a task the provider has accepted, under a profile that  *)
(* stays granted; a save the node has begun, whoever dies and whatever is    *)
(* lost on the way, as long as the caller's access lasts and no other        *)
(* program touches the file.                                                 *)
OutcomeDue ==
    \/ scene = "job_live" /\ JobLive!OutcomeKnown("j")
    \/ scene = "adapter_one" /\ AdapterOne!TaskAccepted("o")
    \/ scene = "editor_one" /\ EditorOne!Begun(<<"o", "f">>)

OutcomeSettled ==
    \/ scene = "job_live" /\ JobLive!Closed("j")
    \/ scene = "adapter_one" /\ AdapterOne!SettledOrBarred("o")
    \/ scene = "editor_one" /\ EditorOne!SettledOrDenied(<<"o", "f">>)

(* Every outcome that a node has recorded, or a task it has accepted, is     *)
(* known to the controller at last.                                          *)
OutcomesArrive == OutcomeDue ~> OutcomeSettled

(* Interchangeable identities: every scene uses a family as a whole set, *)
(* or not at all.                                                        *)
Symmetry == Permutations({x1, x2})
=============================================================================
