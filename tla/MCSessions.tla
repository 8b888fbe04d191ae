------------------------------ MODULE MCSessions ------------------------------
(* The parts of the controller that hold sessions, leases and tasks of      *)
(* their own, each in small scenes: credentials and external sign-in,       *)
(* certificate renewal, SSH masters, the state provider's migration,        *)
(* dataset inspections, source runs, terminals, viewers, extension modules, *)
(* endpoint streams and the shares of a node's offer.  A behaviour stays in *)
(* the scene it begins in; the variables v1, v2, ... are slots that every   *)
(* scene gives its own meaning.  The component StateMigration is extended   *)
(* as it stands: its variables move in its own scene only.                  *)
EXTENDS StateMigration, Naturals, Sequences, FiniteSets, TLC

CONSTANTS
    Scenes,  \* the scenes a run explores
    None,
    x1, x2, y1, y2, t1, t2, t3  \* interchangeable identities

VARIABLES scene,
    v1, v2, v3, v4, v5, v6, v7, v8, v9, v10, v11, v12, v13, v14, v15, v16

slots == <<v1, v2, v3, v4, v5, v6, v7, v8, v9, v10, v11, v12, v13, v14, v15, v16>>
scenesVars == <<scene, slots, vars>>

-----------------------------------------------------------------------------
(* Local credentials of one person in two projects with two scopes. *)
AccessLocal == INSTANCE Access WITH
    users <- v1, projects <- v2, mem <- v3, map <- v4, cred <- v5, bind <- v6, snap <- v7,
    lease <- v8, retired <- v9, login <- v10, poll <- v11, sess <- v12, ended <- v13,
    forgot <- v14, void <- v15, count <- v16,
    User <- {"u"}, Project <- {x1, x2}, Scope <- {y1, y2}, Cred <- {t1, t2},
    Kinds <- {"session", "token"}, MaxCred <- 2, Login <- {}, Handle <- {}, MaxSave <- 0,
    MaxVoid <- 1, MaxRestart <- 0

(* One external sign-in whose session may move between two provider      *)
(* handles, with a change of its approval and a restart.                 *)
AccessRemote == INSTANCE Access WITH
    users <- v1, projects <- v2, mem <- v3, map <- v4, cred <- v5, bind <- v6, snap <- v7,
    lease <- v8, retired <- v9, login <- v10, poll <- v11, sess <- v12, ended <- v13,
    forgot <- v14, void <- v15, count <- v16,
    User <- {"u"}, Project <- {"p"}, Scope <- {"s"}, Cred <- {x1, x2}, Kinds <- {},
    MaxCred <- 2, Login <- {"l"}, Handle <- {y1, y2}, MaxSave <- 1, MaxVoid <- 1,
    MaxRestart <- 1

(* A sign-in that the issuer ends, with one credential to spend. *)
AccessIssuer == INSTANCE Access WITH
    users <- v1, projects <- v2, mem <- v3, map <- v4, cred <- v5, bind <- v6, snap <- v7,
    lease <- v8, retired <- v9, login <- v10, poll <- v11, sess <- v12, ended <- v13,
    forgot <- v14, void <- v15, count <- v16,
    User <- {"u"}, Project <- {"p"}, Scope <- {"s"}, Cred <- {x1, x2}, Kinds <- {},
    MaxCred <- 1, Login <- {"l"}, Handle <- {"h"}, MaxSave <- 1, MaxVoid <- 1, MaxRestart <- 0

(* Two backends whose pairs are renewed together; one run is killed. *)
RenewalPair == INSTANCE CertRenewal WITH
    ver <- v1, cur <- v2, prev <- v3, plain <- v4, pair <- v5, pend <- v6, issued <- v7,
    due <- v8, loaded <- v9, run <- v10, kills <- v11, fails <- v12,
    Backend <- {"identity", "database"}, Database <- "database", Slot <- 1..4, MaxIssue <- 3,
    MaxKill <- 1, MaxFail <- 1

(* The database alone, with more kills and failing writes than one       *)
(* renewal survives unharmed.                                            *)
RenewalKills == INSTANCE CertRenewal WITH
    ver <- v1, cur <- v2, prev <- v3, plain <- v4, pair <- v5, pend <- v6, issued <- v7,
    due <- v8, loaded <- v9, run <- v10, kills <- v11, fails <- v12,
    Backend <- {"database"}, Database <- "database", Slot <- 1..4, MaxIssue <- 6, MaxKill <- 3,
    MaxFail <- 2

(* The database alone, with one kill and one failing write. *)
RenewalOnce == INSTANCE CertRenewal WITH
    ver <- v1, cur <- v2, prev <- v3, plain <- v4, pair <- v5, pend <- v6, issued <- v7,
    due <- v8, loaded <- v9, run <- v10, kills <- v11, fails <- v12,
    Backend <- {"database"}, Database <- "database", Slot <- 1..4, MaxIssue <- 3, MaxKill <- 1,
    MaxFail <- 1

(* Two probes of one node race while its configuration changes. *)
SshRace == INSTANCE SSHTransport WITH
    conf <- v1, trust <- v2, revoked <- v3, expired <- v4, allowed <- v5, conn <- v6,
    mst <- v7, cur <- v8, caller <- v9, closed <- v10, unsafe <- v11, losses <- v12,
    Node <- {"n"}, Caller <- {y1, y2}, Master <- {x1, x2}, Conn <- {t1, t2}, Host <- {"h"},
    Life <- 3, Reserve <- 2, Timeout <- 1, MaxMaster <- 2, MaxConfig <- 1, MaxTrust <- 0,
    MaxLoss <- 0

(* One probe while trust ends: the policy is replaced, a certificate is  *)
(* revoked or runs out.                                                  *)
SshTrust == INSTANCE SSHTransport WITH
    conf <- v1, trust <- v2, revoked <- v3, expired <- v4, allowed <- v5, conn <- v6,
    mst <- v7, cur <- v8, caller <- v9, closed <- v10, unsafe <- v11, losses <- v12,
    Node <- {"n"}, Caller <- {"p"}, Master <- {x1, x2}, Conn <- {y1, y2}, Host <- {"h1", "h2"},
    Life <- 3, Reserve <- 2, Timeout <- 1, MaxMaster <- 2, MaxConfig <- 0, MaxTrust <- 1,
    MaxLoss <- 0

(* The same for one host. *)
SshLapse == INSTANCE SSHTransport WITH
    conf <- v1, trust <- v2, revoked <- v3, expired <- v4, allowed <- v5, conn <- v6,
    mst <- v7, cur <- v8, caller <- v9, closed <- v10, unsafe <- v11, losses <- v12,
    Node <- {"n"}, Caller <- {"p"}, Master <- {"m"}, Conn <- {y1, y2}, Host <- {"h"},
    Life <- 3, Reserve <- 2, Timeout <- 1, MaxMaster <- 2, MaxConfig <- 0, MaxTrust <- 1,
    MaxLoss <- 0

(* One directory, with more crashes. *)
MigrationAlone == INSTANCE StateMigration WITH
    local <- v1, config <- v2, binding <- v3, holder <- v4, step <- v5, pending <- v6,
    bound <- v7, rows <- v8, receipt <- v9, owner <- v10, home <- v11, edits <- v12,
    crashes <- v13,
    Dir <- {"a"}, EDITS <- 2, CRASHES <- 3

(* One dataset of up to two files, inspected twice while they change. *)
InspectionFiles == INSTANCE Inspections WITH
    disk <- v1, ds <- v2, pol <- v3, ins <- v4, task <- v5, cfg <- v6, make <- v7, page <- v8,
    job <- v9, stale <- v10, ack <- v11, told <- v12, unsafe <- v13, used <- v14,
    Dataset <- {"d"}, Path <- {x1, x2}, Content <- {y1, y2}, Run <- {"r1", "r2"}, Workers <- 1,
    MaxFile <- 2, MaxOwner <- 0, MaxConfig <- 1, MaxDisk <- 1, MaxFault <- 1

(* Two datasets that share bytes or are made from one another. *)
InspectionLineage == INSTANCE Inspections WITH
    disk <- v1, ds <- v2, pol <- v3, ins <- v4, task <- v5, cfg <- v6, make <- v7, page <- v8,
    job <- v9, stale <- v10, ack <- v11, told <- v12, unsafe <- v13, used <- v14,
    Dataset <- {"d1", "d2"}, Path <- {x1, x2}, Content <- {y1, y2}, Run <- {"r1", "r2"},
    Workers <- 1, MaxFile <- 1, MaxOwner <- 1, MaxConfig <- 1, MaxDisk <- 0, MaxFault <- 0

(* The owner clears and exempts while an inspection fails and the scanner *)
(* is reconfigured.                                                       *)
InspectionEnds == INSTANCE Inspections WITH
    disk <- v1, ds <- v2, pol <- v3, ins <- v4, task <- v5, cfg <- v6, make <- v7, page <- v8,
    job <- v9, stale <- v10, ack <- v11, told <- v12, unsafe <- v13, used <- v14,
    Dataset <- {"d"}, Path <- {x1, x2}, Content <- {y1, y2}, Run <- {"r"}, Workers <- 1,
    MaxFile <- 1, MaxOwner <- 1, MaxConfig <- 2, MaxDisk <- 0, MaxFault <- 1

(* Two runs that publish under one name. *)
SourceRuns == INSTANCE Sources WITH
    conn <- v1, query <- v2, run <- v3, task <- v4, worker <- v5, landed <- v6, sent <- v7,
    partial <- v8, final <- v9, faults <- v10,
    Run <- {"r1", "r2"}, Name <- {"n"}, Workers <- 2, MaxRev <- 2, MaxFault <- 2

(* Two runs and two names on one worker. *)
SourceSerial == INSTANCE Sources WITH
    conn <- v1, query <- v2, run <- v3, task <- v4, worker <- v5, landed <- v6, sent <- v7,
    partial <- v8, final <- v9, faults <- v10,
    Run <- {"r1", "r2"}, Name <- {x1, x2}, Workers <- 1, MaxRev <- 3, MaxFault <- 2

(* One run. *)
SourceOne == INSTANCE Sources WITH
    conn <- v1, query <- v2, run <- v3, task <- v4, worker <- v5, landed <- v6, sent <- v7,
    partial <- v8, final <- v9, faults <- v10,
    Run <- {"r"}, Name <- {"n"}, Workers <- 1, MaxRev <- 2, MaxFault <- 1

(* One retained terminal and two sockets. *)
TerminalTmux == INSTANCE Terminals WITH
    rec <- v1, lock <- v2, active <- v3, tickets <- v4, att <- v5, auth <- v6, wire <- v7,
    file <- v8, session <- v9, late <- v10, shells <- v11, count <- v12,
    Ephemeral <- {}, Tmux <- {"t"}, Socket <- {x1, x2}, Limit <- 1, MaxFault <- 1,
    MaxAttach <- 2

(* One retained terminal, one ephemeral shell, two sockets. *)
TerminalPair == INSTANCE Terminals WITH
    rec <- v1, lock <- v2, active <- v3, tickets <- v4, att <- v5, auth <- v6, wire <- v7,
    file <- v8, session <- v9, late <- v10, shells <- v11, count <- v12,
    Ephemeral <- {"e"}, Tmux <- {"t"}, Socket <- {x1, x2}, Limit <- 2, MaxFault <- 1,
    MaxAttach <- 2

(* One retained terminal whose calls may all time out. *)
TerminalFair == INSTANCE Terminals WITH
    rec <- v1, lock <- v2, active <- v3, tickets <- v4, att <- v5, auth <- v6, wire <- v7,
    file <- v8, session <- v9, late <- v10, shells <- v11, count <- v12,
    Ephemeral <- {}, Tmux <- {"t"}, Socket <- {x1, x2}, Limit <- 1, MaxFault <- 0,
    MaxAttach <- 2

(* Three references for one display. *)
Viewer == INSTANCE ViewerSessions WITH
    issuing <- v1, refs <- v2, tickets <- v3, active <- v4, att <- v5, native <- v6,
    provider <- v7, auth <- v8, opened <- v9, stray <- v10,
    Ref <- {t1, t2, t3}, MaxRefs <- 2, MaxActive <- 1, MaxTickets <- 2

(* Two displays whose authority is withdrawn. *)
ViewerRevoked == INSTANCE ViewerSessions WITH
    issuing <- v1, refs <- v2, tickets <- v3, active <- v4, att <- v5, native <- v6,
    provider <- v7, auth <- v8, opened <- v9, stray <- v10,
    Ref <- {x1, x2}, MaxRefs <- 2, MaxActive <- 2, MaxTickets <- 1

(* Two versions of a package, one invocation. *)
ModuleVersions == INSTANCE ModuleRuntime WITH
    row <- v1, files <- v2, stage <- v3, admin <- v4, inv <- v5, svc <- v6, used <- v7,
    touched <- v8, done <- v9, faults <- v10,
    Digest <- {x1, x2}, Call <- {"c"}, MaxActive <- 1, SECONDS <- 1, RUNTIME <- 2, WAIT <- 3,
    MaxRev <- 3, MaxFault <- 2

(* Two invocations of one package. *)
ModuleCalls == INSTANCE ModuleRuntime WITH
    row <- v1, files <- v2, stage <- v3, admin <- v4, inv <- v5, svc <- v6, used <- v7,
    touched <- v8, done <- v9, faults <- v10,
    Digest <- {"d"}, Call <- {x1, x2}, MaxActive <- 2, SECONDS <- 1, RUNTIME <- 2, WAIT <- 3,
    MaxRev <- 4, MaxFault <- 1

(* One invocation with more time. *)
ModuleCall == INSTANCE ModuleRuntime WITH
    row <- v1, files <- v2, stage <- v3, admin <- v4, inv <- v5, svc <- v6, used <- v7,
    touched <- v8, done <- v9, faults <- v10,
    Digest <- {"d"}, Call <- {"c"}, MaxActive <- 1, SECONDS <- 2, RUNTIME <- 4, WAIT <- 2,
    MaxRev <- 4, MaxFault <- 1

(* Two streams compete for one connection of a chunked engine. *)
EndpointPair == INSTANCE EndpointStreams WITH
    table <- v1, thread <- v2, look <- v3, seen <- v4, ended <- v5, running <- v6, faults <- v7,
    Stream <- {x1, x2}, PIECES <- 1, QUEUE <- 1, IDLE <- 0, Concurrency <- 1, Chunked <- TRUE,
    KeepsOpen <- TRUE, MaxFault <- 1

(* One stream of an engine that neither frames its answer nor keeps the  *)
(* connection.                                                           *)
EndpointPlain == INSTANCE EndpointStreams WITH
    table <- v1, thread <- v2, look <- v3, seen <- v4, ended <- v5, running <- v6, faults <- v7,
    Stream <- {"s"}, PIECES <- 2, QUEUE <- 1, IDLE <- 0, Concurrency <- 1, Chunked <- FALSE,
    KeepsOpen <- FALSE, MaxFault <- 1

(* Two workloads compete for one node's offer; each names its job. *)
RecordsShare == INSTANCE WorkloadRecords WITH
    job <- v1, rec <- v2, disabled <- v3, suspended <- v4,
    Jobs <- {x1, x2}, Attempts <- {x1, x2}, Nodes <- {"n"}, JobOf <- [a \in {x1, x2} |-> a],
    GenOf <- [a \in {x1, x2} |-> 1], NodeOf <- [a \in {x1, x2} |-> "n"],
    CpuOf <- [a \in {x1, x2} |-> 1], GpuOf <- [a \in {x1, x2} |-> {1}], Capacity <- 1,
    Details <- {"d"}, Ledgers <- {1}, MaxLeases <- 1

ASSUME RenewalPair!SlotAssumption /\ RenewalKills!SlotAssumption /\ RenewalOnce!SlotAssumption
ASSUME SshRace!TimeAssumption /\ SshTrust!TimeAssumption /\ SshLapse!TimeAssumption

-----------------------------------------------------------------------------
ScenesInit ==
  /\ scene \in Scenes
  /\ Init
  /\ \/ scene = "access_local" /\ AccessLocal!Init
     \/ scene = "access_remote" /\ AccessRemote!Init
     \/ scene = "access_issuer" /\ AccessIssuer!Init
     \/ scene = "renewal_pair" /\ RenewalPair!Init
        /\ v13 = None /\ v14 = None /\ v15 = None /\ v16 = None
     \/ scene = "renewal_kills" /\ RenewalKills!Init
        /\ v13 = None /\ v14 = None /\ v15 = None /\ v16 = None
     \/ scene = "renewal_once" /\ RenewalOnce!Init
        /\ v13 = None /\ v14 = None /\ v15 = None /\ v16 = None
     \/ scene = "ssh_race" /\ SshRace!Init
        /\ v13 = None /\ v14 = None /\ v15 = None /\ v16 = None
     \/ scene = "ssh_trust" /\ SshTrust!Init
        /\ v13 = None /\ v14 = None /\ v15 = None /\ v16 = None
     \/ scene = "ssh_lapse" /\ SshLapse!Init
        /\ v13 = None /\ v14 = None /\ v15 = None /\ v16 = None
     \/ scene = "migration"
        /\ v1 = None /\ v2 = None /\ v3 = None /\ v4 = None /\ v5 = None /\ v6 = None /\ v7 = None
           /\ v8 = None /\ v9 = None /\ v10 = None /\ v11 = None /\ v12 = None /\ v13 = None
           /\ v14 = None /\ v15 = None /\ v16 = None
     \/ scene = "migration_alone" /\ MigrationAlone!Init
        /\ v14 = None /\ v15 = None /\ v16 = None
     \/ scene = "inspection_files" /\ InspectionFiles!Init
        /\ v15 = None /\ v16 = None
     \/ scene = "inspection_lineage" /\ InspectionLineage!Init
        /\ v15 = None /\ v16 = None
     \/ scene = "inspection_ends" /\ InspectionEnds!Init
        /\ v15 = None /\ v16 = None
     \/ scene = "source_runs" /\ SourceRuns!Init
        /\ v11 = None /\ v12 = None /\ v13 = None /\ v14 = None /\ v15 = None /\ v16 = None
     \/ scene = "source_serial" /\ SourceSerial!Init
        /\ v11 = None /\ v12 = None /\ v13 = None /\ v14 = None /\ v15 = None /\ v16 = None
     \/ scene = "source_one" /\ SourceOne!Init
        /\ v11 = None /\ v12 = None /\ v13 = None /\ v14 = None /\ v15 = None /\ v16 = None
     \/ scene = "terminal_tmux" /\ TerminalTmux!Init
        /\ v13 = None /\ v14 = None /\ v15 = None /\ v16 = None
     \/ scene = "terminal_pair" /\ TerminalPair!Init
        /\ v13 = None /\ v14 = None /\ v15 = None /\ v16 = None
     \/ scene = "terminal_fair" /\ TerminalFair!Init
        /\ v13 = None /\ v14 = None /\ v15 = None /\ v16 = None
     \/ scene = "viewer" /\ Viewer!Init
        /\ v11 = None /\ v12 = None /\ v13 = None /\ v14 = None /\ v15 = None
           /\ v16 = None
     \/ scene = "viewer_revoked" /\ ViewerRevoked!Init
        /\ v11 = None /\ v12 = None /\ v13 = None /\ v14 = None /\ v15 = None
           /\ v16 = None
     \/ scene = "module_versions" /\ ModuleVersions!Init
        /\ v11 = None /\ v12 = None /\ v13 = None /\ v14 = None /\ v15 = None /\ v16 = None
     \/ scene = "module_calls" /\ ModuleCalls!Init
        /\ v11 = None /\ v12 = None /\ v13 = None /\ v14 = None /\ v15 = None /\ v16 = None
     \/ scene = "module_call" /\ ModuleCall!Init
        /\ v11 = None /\ v12 = None /\ v13 = None /\ v14 = None /\ v15 = None /\ v16 = None
     \/ scene = "records_share" /\ RecordsShare!Init
        /\ v5 = None /\ v6 = None /\ v7 = None /\ v8 = None /\ v9 = None /\ v10 = None
           /\ v11 = None /\ v12 = None /\ v13 = None /\ v14 = None /\ v15 = None /\ v16 = None
     \/ scene = "endpoint_pair" /\ EndpointPair!Init
        /\ v8 = None /\ v9 = None /\ v10 = None /\ v11 = None /\ v12 = None /\ v13 = None
           /\ v14 = None /\ v15 = None /\ v16 = None
     \/ scene = "endpoint_plain" /\ EndpointPlain!Init
        /\ v8 = None /\ v9 = None /\ v10 = None /\ v11 = None /\ v12 = None /\ v13 = None
           /\ v14 = None /\ v15 = None /\ v16 = None

ScenesNext ==
    \/ scene = "access_local" /\ AccessLocal!Next /\ UNCHANGED <<scene, vars>>
    \/ scene = "access_remote" /\ AccessRemote!Next /\ UNCHANGED <<scene, vars>>
    \/ scene = "access_issuer" /\ AccessIssuer!Next /\ UNCHANGED <<scene, vars>>
    \/ scene = "renewal_pair" /\ RenewalPair!Next /\ UNCHANGED <<scene, v13, v14, v15, v16, vars>>
    \/ scene = "renewal_kills" /\ RenewalKills!Next /\ UNCHANGED <<scene, v13, v14, v15, v16, vars>>
    \/ scene = "renewal_once" /\ RenewalOnce!Next /\ UNCHANGED <<scene, v13, v14, v15, v16, vars>>
    \/ scene = "ssh_race" /\ SshRace!Next /\ UNCHANGED <<scene, v13, v14, v15, v16, vars>>
    \/ scene = "ssh_trust" /\ SshTrust!Next /\ UNCHANGED <<scene, v13, v14, v15, v16, vars>>
    \/ scene = "ssh_lapse" /\ SshLapse!Next /\ UNCHANGED <<scene, v13, v14, v15, v16, vars>>
    \/ scene = "migration" /\ Next /\ UNCHANGED <<scene, slots>>
    \/ scene = "migration_alone" /\ MigrationAlone!Next /\ UNCHANGED <<scene, v14, v15, v16, vars>>
    \/ scene = "inspection_files" /\ InspectionFiles!Next /\ UNCHANGED <<scene, v15, v16, vars>>
    \/ scene = "inspection_lineage" /\ InspectionLineage!Next /\ UNCHANGED <<scene, v15, v16, vars>>
    \/ scene = "inspection_ends" /\ InspectionEnds!Next /\ UNCHANGED <<scene, v15, v16, vars>>
    \/ scene = "source_runs" /\ SourceRuns!Next /\ UNCHANGED <<scene, v11, v12, v13, v14, v15,
       v16, vars>>
    \/ scene = "source_serial" /\ SourceSerial!Next /\ UNCHANGED <<scene, v11, v12, v13, v14, v15,
       v16, vars>>
    \/ scene = "source_one" /\ SourceOne!Next /\ UNCHANGED <<scene, v11, v12, v13, v14, v15, v16,
       vars>>
    \/ scene = "terminal_tmux" /\ TerminalTmux!Next /\ UNCHANGED <<scene, v13, v14, v15, v16, vars>>
    \/ scene = "terminal_pair" /\ TerminalPair!Next /\ UNCHANGED <<scene, v13, v14, v15, v16, vars>>
    \/ scene = "terminal_fair" /\ (TerminalFair!Next \/ TerminalFair!GiveUp) /\ UNCHANGED <<scene,
       v13, v14, v15, v16, vars>>
    \/ scene = "viewer" /\ Viewer!Next /\ UNCHANGED <<scene, v11, v12, v13, v14, v15, v16,
       vars>>
    \/ scene = "viewer_revoked" /\ ViewerRevoked!Next /\ UNCHANGED <<scene, v11, v12, v13,
       v14, v15, v16, vars>>
    \/ scene = "module_versions" /\ ModuleVersions!Next /\ UNCHANGED <<scene, v11, v12, v13, v14,
       v15, v16, vars>>
    \/ scene = "module_calls" /\ ModuleCalls!Next /\ UNCHANGED <<scene, v11, v12, v13, v14, v15,
       v16, vars>>
    \/ scene = "module_call" /\ ModuleCall!Next /\ UNCHANGED <<scene, v11, v12, v13, v14, v15,
       v16, vars>>
    \/ scene = "records_share" /\ RecordsShare!Next /\ UNCHANGED <<scene, v5, v6, v7, v8, v9, v10,
       v11, v12, v13, v14, v15, v16, vars>>
    \/ scene = "endpoint_pair" /\ EndpointPair!Next /\ UNCHANGED <<scene, v8, v9, v10, v11, v12,
       v13, v14, v15, v16, vars>>
    \/ scene = "endpoint_plain" /\ EndpointPlain!Next /\ UNCHANGED <<scene, v8, v9, v10, v11, v12,
       v13, v14, v15, v16, vars>>

ScenesSpec == ScenesInit /\ [][ScenesNext]_scenesVars

-----------------------------------------------------------------------------
(* Every scene keeps the type invariant of its component. *)
ScenesTypeOK ==
    /\ scene = "access_local" => AccessLocal!TypeOK
    /\ scene = "access_remote" => AccessRemote!TypeOK
    /\ scene = "access_issuer" => AccessIssuer!TypeOK
    /\ scene = "renewal_pair" => RenewalPair!TypeOK
    /\ scene = "renewal_kills" => RenewalKills!TypeOK
    /\ scene = "renewal_once" => RenewalOnce!TypeOK
    /\ scene = "ssh_race" => SshRace!TypeOK
    /\ scene = "ssh_trust" => SshTrust!TypeOK
    /\ scene = "ssh_lapse" => SshLapse!TypeOK
    /\ scene = "migration" => TypeOK
    /\ scene = "migration_alone" => MigrationAlone!TypeOK
    /\ scene = "inspection_files" => InspectionFiles!TypeOK
    /\ scene = "inspection_lineage" => InspectionLineage!TypeOK
    /\ scene = "inspection_ends" => InspectionEnds!TypeOK
    /\ scene = "source_runs" => SourceRuns!TypeOK
    /\ scene = "source_serial" => SourceSerial!TypeOK
    /\ scene = "source_one" => SourceOne!TypeOK
    /\ scene = "terminal_tmux" => TerminalTmux!TypeOK
    /\ scene = "terminal_pair" => TerminalPair!TypeOK
    /\ scene = "terminal_fair" => TerminalFair!TypeOK
    /\ scene = "viewer" => Viewer!TypeOK
    /\ scene = "viewer_revoked" => ViewerRevoked!TypeOK
    /\ scene = "module_versions" => ModuleVersions!TypeOK
    /\ scene = "module_calls" => ModuleCalls!TypeOK
    /\ scene = "module_call" => ModuleCall!TypeOK
    /\ scene = "endpoint_pair" => EndpointPair!TypeOK
    /\ scene = "records_share" => RecordsShare!TypeOK
    /\ scene = "endpoint_plain" => EndpointPlain!TypeOK

(* Nothing acts on authority, configuration or bytes that are no longer  *)
(* the current ones: a revoked credential and what was derived from it,  *)
(* a sign-in's handle, an SSH master of an older configuration or of     *)
(* ended trust, a dataset whose inspection is not known to its user, a   *)
(* terminal of another owner, and the answer of a package that was       *)
(* disabled meanwhile.                                                   *)
ActsOnCurrent ==
    /\ scene = "access_local" => AccessLocal!RevokedStays /\ AccessLocal!LineageHeld
    /\ scene = "access_remote" => AccessRemote!RevokedStays /\ AccessRemote!HandleOwned
    /\ scene = "ssh_race" => SshRace!OwnConfiguration /\ SshRace!Outlives
    /\ scene = "ssh_trust" => SshTrust!UsedUnderTrust
    /\ scene = "inspection_lineage" => InspectionLineage!UsedKnowingly
    /\ scene = "inspection_files" => InspectionFiles!ScannedBytes
    /\ scene = "inspection_ends" => InspectionEnds!ScannedBytes /\ InspectionEnds!UsedKnowingly
    /\ scene = "terminal_tmux" => TerminalTmux!AttachedOwned
    /\ scene = "module_versions" => ModuleVersions!EnabledWhole /\ ModuleVersions!NoStaleResult

(* Every process, socket, display, lease, worker and share of a node's   *)
(* offer has one live owner that knows it, stays within the limit of its *)
(* kind, and is gone when its record says so, whatever order its tasks,  *)
(* callbacks and failures come in.  Only a display's unit whose stop     *)
(* could not be confirmed may outlive its slot, and its transport not.   *)
HeldAccounted ==
    /\ scene = "ssh_race" => SshRace!Tracked /\ SshRace!ClosedQuiet
    /\ scene = "ssh_trust" => SshTrust!Tracked /\ SshTrust!ClosedQuiet
    /\ scene = "ssh_lapse" => SshLapse!Tracked /\ SshLapse!ClosedQuiet
    /\ scene = "inspection_files" => InspectionFiles!SuspendedWhileScanned
    /\ scene = "terminal_tmux" => TerminalTmux!ClosedGone /\ TerminalTmux!OneAttachment
    /\ scene = "terminal_pair" => TerminalPair!ClosedGone /\ TerminalPair!EphemeralOnce
    /\ scene = "viewer" => Viewer!RefsBounded /\ Viewer!DisplaysBounded /\ Viewer!DisplayOnce
                           /\ Viewer!NothingLeft
    /\ scene = "module_versions" => ModuleVersions!LeaseCovers
    /\ scene = "module_calls" => ModuleCalls!LeaseCovers /\ ModuleCalls!LeasedWhole
    /\ scene = "endpoint_pair" => EndpointPair!WorkersBounded
    /\ scene = "records_share" => RecordsShare!CapacityHeld /\ RecordsShare!ReleasedKnown

(* How a source run or a stream is said to have ended is what happened:  *)
(* a failed run left no version behind, a completed one left all of it,  *)
(* and a stream that ended well was delivered whole.                     *)
EndsTrue ==
    /\ scene = "source_runs" => SourceRuns!FailedMeansNothing /\ SourceRuns!CompletedMeansAll
    /\ scene = "source_serial" => SourceSerial!FailedMeansNothing
                                  /\ SourceSerial!CompletedMeansAll /\ SourceSerial!PartialOwed
    /\ scene = "endpoint_pair" => EndpointPair!HonestEnd

(* Through a renewal that is killed at any step or whose writes fail,    *)
(* each backend serves a certificate whose key it has, the database      *)
(* serves the one on disk, and a later run can go on.                    *)
ServedThroughout ==
    /\ scene = "renewal_pair" => RenewalPair!AlwaysServed /\ RenewalPair!DatabaseCurrent
    /\ scene = "renewal_kills" => RenewalKills!AlwaysServed /\ RenewalKills!DatabaseCurrent
                                  /\ RenewalKills!Recoverable

(* No step takes back what took effect: a certificate is replaced by an  *)
(* older one only in a rollback, and a published version of a source is  *)
(* never removed or changed.                                             *)
NothingUndone == [][
    /\ scene = "renewal_kills" => RenewalKills!OnlyRolledBack
    /\ scene = "source_runs" => SourceRuns!PublishedStays
    /\ scene = "source_serial" => SourceSerial!PublishedStays]_scenesVars

-----------------------------------------------------------------------------
accessVars == AccessIssuer!vars
renewalVars == RenewalOnce!vars
sshVars == SshLapse!vars
migrationVars == MigrationAlone!vars
inspectionVars == InspectionEnds!vars
sourceVars == SourceOne!vars
terminalVars == TerminalFair!vars
viewerVars == ViewerRevoked!vars
moduleVars == ModuleCall!vars
endpointVars == EndpointPlain!vars

(* remote_auth.py: the poll task runs, its provider calls return, and leases *)
(* run out; a sign-in's own request goes on.                                 *)
AccessFairness ==
    /\ WF_accessVars(scene = "access_issuer" /\ AccessIssuer!PollBegin)
    /\ WF_accessVars(scene = "access_issuer" /\ AccessIssuer!Renewed)
    /\ WF_accessVars(scene = "access_issuer" /\ AccessIssuer!ForgetBegin)
    /\ WF_accessVars(scene = "access_issuer" /\ AccessIssuer!Forget)
    /\ WF_accessVars(scene = "access_issuer" /\ AccessIssuer!PollEnd)
    /\ WF_accessVars(scene = "access_issuer" /\ AccessIssuer!Renew("h"))
    /\ WF_accessVars(scene = "access_issuer" /\ \E c \in {x1, x2} : AccessIssuer!Admit("l", c, "p"))

(* The timer starts the renewal again, and a run that is not killed goes on. *)
RenewalFairness == WF_renewalVars(scene = "renewal_once" /\ RenewalOnce!Steps)

(* ssh_transport.py: the reaper and the guard are tasks of their own, and a  *)
(* probe's child ends.  Time need not pass: nothing is owed to a lifetime    *)
(* that ends.                                                                *)
SSHFairness ==
    /\ \A m \in {"m"} : /\ WF_sshVars(scene = "ssh_lapse" /\ SshLapse!Reap(m))
                           /\ WF_sshVars(scene = "ssh_lapse" /\ SshLapse!GuardStops(m))
    /\ WF_sshVars(scene = "ssh_lapse" /\ SshLapse!Reaped("p"))
    /\ WF_sshVars(scene = "ssh_lapse" /\ SshLapse!RunFails("p"))
    /\ WF_sshVars(scene = "ssh_lapse" /\ SshLapse!RunExits("p"))
    /\ WF_sshVars(scene = "ssh_lapse" /\ SshLapse!WaitFails("p"))

(* A process that holds the lock goes on, controllers are stopped, and an    *)
(* operator repeats the resume command as docs/state-storage.md asks.        *)
MigrationFairness ==
    \A d \in {"a"} :
    /\ WF_migrationVars(scene = "migration_alone" /\ MigrationAlone!WritesFiles(d))
    /\ WF_migrationVars(scene = "migration_alone" /\ MigrationAlone!Imports(d))
    /\ WF_migrationVars(scene = "migration_alone" /\ MigrationAlone!Stop(d))
    /\ SF_migrationVars(scene = "migration_alone" /\ MigrationAlone!Resume(d))

(* The scanner's task and the publisher run on. *)
InspectionFairness == WF_inspectionVars(scene = "inspection_ends" /\ InspectionEnds!Work)

(* A run's worker has a deadline for every wait. *)
SourceFairness ==
    \A r \in {"r"} : WF_sourceVars(scene = "source_one" /\ SourceOne!Advances(r))

(* A call ends or times out, so its holder goes on; a task on the event      *)
(* loop runs; a killed process group is reaped; guard wakes every second.    *)
TerminalFairness ==
    /\ WF_terminalVars(scene = "terminal_fair" /\ TerminalFair!GiveUp)
    /\ WF_terminalVars(scene = "terminal_fair" /\ TerminalFair!StopSent)
    /\ \A a \in {x1, x2} : /\ WF_terminalVars(scene = "terminal_fair" /\ TerminalFair!Guard(a))
                           /\ WF_terminalVars(scene = "terminal_fair" /\ TerminalFair!ClosePTY(a))
                           /\ WF_terminalVars(scene = "terminal_fair" /\ TerminalFair!Cleaned(a))

(* Starting a display has time limits, the authority task wakes four times   *)
(* a second and cleanup is shielded: none of these is put off for ever.      *)
ViewerFairness ==
    \A r \in {x1, x2} : /\ WF_viewerVars(scene = "viewer_revoked" /\ ViewerRevoked!Denied(r))
                        /\ WF_viewerVars(scene = "viewer_revoked" /\ ViewerRevoked!CloseNative(r))
                        /\ WF_viewerVars(scene = "viewer_revoked" /\ ViewerRevoked!CloseProvider(r))
                        /\ WF_viewerVars(scene = "viewer_revoked" /\ ViewerRevoked!Detach(r))

(* Every wait of an invocation has a time limit, services expire and time    *)
(* passes.                                                                   *)
ModuleFairness ==
    /\ WF_moduleVars(scene = "module_call" /\ ModuleCall!Tick)
    /\ \A c \in {"c"} :
       /\ WF_moduleVars(scene = "module_call" /\ ModuleCall!Launch(c))
       /\ WF_moduleVars(scene = "module_call" /\ ModuleCall!Revoked(c))
       /\ WF_moduleVars(scene = "module_call" /\ ModuleCall!TimesOut(c))
       /\ WF_moduleVars(scene = "module_call" /\ ModuleCall!Stop(c))
       /\ WF_moduleVars(scene = "module_call" /\ ModuleCall!Confirmed(c))
       /\ WF_moduleVars(scene = "module_call" /\ ModuleCall!Unconfirmed(c))
       /\ WF_moduleVars(scene = "module_call" /\ ModuleCall!Ended(c))
       /\ WF_moduleVars(scene = "module_call" /\ ModuleCall!Expired(c))

(* Threads run, every request has a deadline and time passes. *)
EndpointFairness ==
    /\ WF_endpointVars(scene = "endpoint_plain" /\ EndpointPlain!Take)
    /\ WF_endpointVars(scene = "endpoint_plain" /\ EndpointPlain!SeeDone)
    /\ WF_endpointVars(scene = "endpoint_plain" /\ EndpointPlain!Answer)
    /\ WF_endpointVars(scene = "endpoint_plain" /\ EndpointPlain!Start("s"))
    /\ WF_endpointVars(scene = "endpoint_plain" /\ EndpointPlain!Dial("s"))
    /\ WF_endpointVars(scene = "endpoint_plain" /\ EndpointPlain!Head("s"))
    /\ WF_endpointVars(scene = "endpoint_plain" /\ EndpointPlain!Check("s"))
    /\ WF_endpointVars(scene = "endpoint_plain" /\ EndpointPlain!Put("s"))
    /\ WF_endpointVars(scene = "endpoint_plain" /\ EndpointPlain!Empty("s"))
    /\ WF_endpointVars(scene = "endpoint_plain" /\ EndpointPlain!Cut("s"))
    /\ WF_endpointVars(scene = "endpoint_plain" /\ EndpointPlain!Late("s"))

LiveSpec ==
    /\ ScenesSpec
    /\ AccessFairness /\ RenewalFairness /\ SSHFairness /\ MigrationFairness /\ InspectionFairness
    /\ SourceFairness /\ TerminalFairness /\ ViewerFairness /\ ModuleFairness /\ EndpointFairness

(* Work under way, and what it waits for: the tokens of a session that was   *)
(* refused or signed out (RemoteAuth.complete, Provider.forget); a pair that *)
(* is due, unless a kill left a version directory without its owner and mode *)
(* (renew_tls.py); a probe that retired masters; a migration whose           *)
(* configuration and binding were written, and that no other directory's     *)
(* binding stands against; an inspection and whoever publishes; a run whose  *)
(* source may never answer; the terminal manager's lock, though a stop waits *)
(* for an attachment's cleanup; an invocation of a disabled package or a     *)
(* module that hangs; a worker that the controller never asks again.         *)
WorkBegun ==
    \/ scene = "access_issuer" /\ AccessIssuer!Refused("h")
    \/ scene = "renewal_once" /\ RenewalOnce!Due("database")
    \/ scene = "ssh_lapse" /\ SshLapse!WaitsForReaping("p")
    \/ scene = "migration_alone" /\ MigrationAlone!Migrating("a")
    \/ scene \in {"inspection_ends", "source_one", "terminal_fair", "module_call", "endpoint_plain"}

WorkOver ==
    \/ scene = "access_issuer" /\ AccessIssuer!Discarded("h")
    \/ scene = "renewal_once" /\ RenewalOnce!RenewedOrJammed("database")
    \/ scene = "ssh_lapse" /\ SshLapse!Proceeds("p")
    \/ scene = "migration_alone" /\ MigrationAlone!Migrated("a")
    \/ scene = "inspection_ends" /\ InspectionEnds!Quiet
    \/ scene = "source_one" /\ SourceOne!Ended("r")
    \/ scene = "terminal_fair" /\ TerminalFair!Unlocked
    \/ scene = "module_call" /\ ModuleCall!Over("c")
    \/ scene = "endpoint_plain" /\ ~EndpointPlain!Works("s")

(* Authority that was withdrawn, and when it has no effect left: a session   *)
(* its issuer has ended (RemoteAuth.poll, RemoteAuth.check); a master whose  *)
(* trust has ended, though no probe comes; a terminal's open attachment; a   *)
(* display and its slot.                                                     *)
Withdrawn(a) ==
    \/ scene = "access_issuer" /\ AccessIssuer!IssuerEnded("h")
    \/ scene = "ssh_lapse" /\ SshLapse!TrustEnded("m")
    \/ scene = "terminal_fair" /\ TerminalFair!Unauthorized(a)
    \/ scene = "viewer_revoked" /\ ViewerRevoked!Unauthorized(a)

WithoutEffect(a) ==
    \/ scene = "access_issuer" /\ AccessIssuer!Unusable("h")
    \/ scene = "ssh_lapse" /\ SshLapse!Gone("m")
    \/ scene = "terminal_fair" /\ ~TerminalFair!Bridged(a)
    \/ scene = "viewer_revoked" /\ ~ViewerRevoked!Attached(a)

(* What was ended, revoked or started comes to its end: authority that was   *)
(* withdrawn stops having effect, and every run, probe, renewal, migration,  *)
(* inspection and invocation is over, whatever it waited for.                *)
SessionsEnd ==
    /\ WorkBegun ~> WorkOver
    /\ \A a \in {x1, x2} : Withdrawn(a) ~> WithoutEffect(a)

(* Interchangeable identities: every scene uses a family as a whole set, *)
(* or not at all.                                                        *)
Symmetry == Permutations({x1, x2}) \cup Permutations({y1, y2})
=============================================================================
