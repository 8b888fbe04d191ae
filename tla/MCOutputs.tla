------------------------------- MODULE MCOutputs ------------------------------
(* What leaves the controller for files, nodes and services and must not    *)
(* happen twice or be misreported, each part in small scenes: transfers and *)
(* file operations, module operations, object uploads, container runtimes,  *)
(* virtual machine tasks, publications and the viewer's bridge.  A          *)
(* behaviour stays in the scene it begins in; the variables are slots that  *)
(* every scene gives its own meaning.                                       *)
EXTENDS Naturals, Sequences, FiniteSets, TLC

CONSTANTS
    Scenes,  \* the scenes a run explores
    None, Bad,
    x1, x2, y1, y2  \* interchangeable identities

VARIABLES scene,
    v1, v2, v3, v4, v5, v6, v7, v8, v9, v10, v11, v12, v13, v14, v15, v16, v17

slots == <<v1, v2, v3, v4, v5, v6, v7, v8, v9, v10, v11, v12, v13, v14, v15, v16, v17>>
scenesVars == <<scene, slots>>

-----------------------------------------------------------------------------
(* Two chunks of every kind of transfer, a source with two versions. *)
Transfer == INSTANCE Transfers WITH
    kind <- v1, expected <- v2, src <- v3, item <- v4, client <- v5, calls <- v6, rec <- v7,
    data <- v8, journal <- v9, box <- v10, dest <- v11, pub <- v12, busy <- v13,
    Kinds <- {"copy", "download", "upload", "legacy"}, N <- 2, Versions <- {"v1", "v2"},
    MaxLate <- 0

(* One chunk whose request may be executed after it was given up. *)
TransferLate == INSTANCE Transfers WITH
    kind <- v1, expected <- v2, src <- v3, item <- v4, client <- v5, calls <- v6, rec <- v7,
    data <- v8, journal <- v9, box <- v10, dest <- v11, pub <- v12, busy <- v13,
    Kinds <- {"copy", "upload"}, N <- 1, Versions <- {"v1", "v2"}, MaxLate <- 1

(* Two items and two overlapping executions. *)
FileOperation == INSTANCE FileOperations WITH
    op <- v1, task <- v2, lock <- v3, root <- v4, calls <- v5, receipt <- v6, entry <- v7,
    kept <- v8, busy <- v9,
    N <- 2, Tasks <- {x1, x2}, MaxLate <- 0

(* One item whose request may come late. *)
FileLate == INSTANCE FileOperations WITH
    op <- v1, task <- v2, lock <- v3, root <- v4, calls <- v5, receipt <- v6, entry <- v7,
    kept <- v8, busy <- v9,
    N <- 1, Tasks <- {x1, x2}, MaxLate <- 1

(* One operation on two targets of one system. *)
ModuleBatch == INSTANCE ModuleOperations WITH
    kind <- v1, preview <- v2, held <- v3, rec <- v4, flight <- v5, adm <- v6, profile <- v7,
    calls <- v8, receipt <- v9, busy <- v10, effect <- v11,
    Kinds <- {"vm", "container", "admin"}, Ops <- {"o"}, N <- 2, Groups <- {"g"},
    Group <- [t \in 1..2 |-> "g"], MaxLate <- 2, MaxPreviews <- 1, MaxRevision <- 1

(* One operation on targets of two systems. *)
ModuleNodes == INSTANCE ModuleOperations WITH
    kind <- v1, preview <- v2, held <- v3, rec <- v4, flight <- v5, adm <- v6, profile <- v7,
    calls <- v8, receipt <- v9, busy <- v10, effect <- v11,
    Kinds <- {"vm", "container", "admin"}, Ops <- {"o"}, N <- 2, Groups <- {"g1", "g2"},
    Group <- [t \in 1..2 |-> IF t = 1 THEN "g1" ELSE "g2"], MaxLate <- 0, MaxPreviews <- 1,
    MaxRevision <- 0

(* Two operations on one target. *)
ModulePair == INSTANCE ModuleOperations WITH
    kind <- v1, preview <- v2, held <- v3, rec <- v4, flight <- v5, adm <- v6, profile <- v7,
    calls <- v8, receipt <- v9, busy <- v10, effect <- v11,
    Kinds <- {"admin"}, Ops <- {x1, x2}, N <- 1, Groups <- {"g"},
    Group <- [t \in 1..1 |-> "g"], MaxLate <- 0, MaxPreviews <- 1, MaxRevision <- 0

(* One upload of two parts. *)
UploadParts == INSTANCE ObjectUploads WITH
    upload <- v1, run <- v2, ack <- v3, task <- v4, worker <- v5, flight <- v6, prov <- v7,
    object <- v8, used <- v9, tag <- v10, altered <- v11, faults <- v12,
    Upload <- {"u"}, Data <- {"d"}, Part <- 1..2, MaxTag <- 3, MaxFault <- 2, Bad <- Bad

(* Two uploads to one key. *)
UploadKey == INSTANCE ObjectUploads WITH
    upload <- v1, run <- v2, ack <- v3, task <- v4, worker <- v5, flight <- v6, prov <- v7,
    object <- v8, used <- v9, tag <- v10, altered <- v11, faults <- v12,
    Upload <- {x1, x2}, Data <- {y1, y2}, Part <- {1}, MaxTag <- 2, MaxFault <- 0, Bad <- Bad

(* Libraries taken from a shared store by a link. *)
PodmanShared == INSTANCE PodmanRuntime WITH
    file <- v1, saved <- v2, sup <- v3, copy <- v4, runner <- v5, engine <- v6, released <- v7,
    phase <- v8, replaced <- v9, faults <- v10,
    Shared <- TRUE, MaxReplace <- 2, MaxFault <- 1

(* Libraries copied into the attempt. *)
PodmanCopied == INSTANCE PodmanRuntime WITH
    file <- v1, saved <- v2, sup <- v3, copy <- v4, runner <- v5, engine <- v6, released <- v7,
    phase <- v8, replaced <- v9, faults <- v10,
    Shared <- FALSE, MaxReplace <- 2, MaxFault <- 1

(* Two operations on one virtual machine that others change too. *)
Proxmox == INSTANCE ProxmoxTasks WITH
    vm <- v1, lock <- v2, op <- v3, receipt <- v4, task <- v5, acted <- v6, known <- v7,
    helper <- v8, wire <- v9, job <- v10, resolving <- v11, changes <- v12, faults <- v13,
    Op <- {x1, x2}, MaxChange <- 1, MaxFault <- 1

(* Two publications of one attempt's output. *)
PublicationHeld == INSTANCE Publications WITH
    job <- v1, att <- v2, kept <- v3, revoked <- v4, lock <- v5, req <- v6, item <- v7,
    task <- v8, dataset <- v9, gaveup <- v10, faults <- v11,
    Pub <- {x1, x2}, Attempts <- 1, Chunks <- 1, GiveUps <- 1, MaxFault <- 2

(* One publication of an output in two chunks, across two attempts. *)
PublicationLate == INSTANCE Publications WITH
    job <- v1, att <- v2, kept <- v3, revoked <- v4, lock <- v5, req <- v6, item <- v7,
    task <- v8, dataset <- v9, gaveup <- v10, faults <- v11,
    Pub <- {"p"}, Attempts <- 2, Chunks <- 2, GiveUps <- 1, MaxFault <- 2

(* One display with a window of two frames. *)
ViewerBridge == INSTANCE ViewerBridge WITH
    drawn <- v1, pipe <- v2, stuck <- v3, todo <- v4, out <- v5, syncs <- v6, last <- v7,
    pending <- v8, shown <- v9, frames <- v10, in <- v11, ack <- v12, quiet <- v13,
    held <- v14, auth <- v15, due <- v16, ended <- v17,
    WINDOW <- 2, FRAMES <- 2, STALL <- 2, SEND <- 1, MaxFrames <- 2, MaxPackets <- 1,
    MaxQuiet <- 2

ASSUME Transfer!TransfersAssumption /\ TransferLate!TransfersAssumption
ASSUME FileOperation!FileOperationsAssumption /\ FileLate!FileOperationsAssumption
ASSUME ModuleBatch!ModuleOperationsAssumption /\ ModuleNodes!ModuleOperationsAssumption
    /\ ModulePair!ModuleOperationsAssumption

-----------------------------------------------------------------------------
ScenesInit ==
  /\ scene \in Scenes
  /\ \/ scene = "transfer" /\ Transfer!Init
        /\ v14 = None /\ v15 = None /\ v16 = None /\ v17 = None
     \/ scene = "transfer_late" /\ TransferLate!Init
        /\ v14 = None /\ v15 = None /\ v16 = None /\ v17 = None
     \/ scene = "file_operation" /\ FileOperation!Init
        /\ v10 = None /\ v11 = None /\ v12 = None /\ v13 = None /\ v14 = None /\ v15 = None
           /\ v16 = None /\ v17 = None
     \/ scene = "file_late" /\ FileLate!Init
        /\ v10 = None /\ v11 = None /\ v12 = None /\ v13 = None /\ v14 = None /\ v15 = None
           /\ v16 = None /\ v17 = None
     \/ scene = "module_batch" /\ ModuleBatch!Init
        /\ v12 = None /\ v13 = None /\ v14 = None /\ v15 = None /\ v16 = None /\ v17 = None
     \/ scene = "module_nodes" /\ ModuleNodes!Init
        /\ v12 = None /\ v13 = None /\ v14 = None /\ v15 = None /\ v16 = None /\ v17 = None
     \/ scene = "module_pair" /\ ModulePair!Init
        /\ v12 = None /\ v13 = None /\ v14 = None /\ v15 = None /\ v16 = None /\ v17 = None
     \/ scene = "upload_parts" /\ UploadParts!Init
        /\ v13 = None /\ v14 = None /\ v15 = None /\ v16 = None /\ v17 = None
     \/ scene = "upload_key" /\ UploadKey!Init
        /\ v13 = None /\ v14 = None /\ v15 = None /\ v16 = None /\ v17 = None
     \/ scene = "podman_shared" /\ PodmanShared!Init
        /\ v11 = None /\ v12 = None /\ v13 = None /\ v14 = None /\ v15 = None /\ v16 = None
           /\ v17 = None
     \/ scene = "podman_copied" /\ PodmanCopied!Init
        /\ v11 = None /\ v12 = None /\ v13 = None /\ v14 = None /\ v15 = None /\ v16 = None
           /\ v17 = None
     \/ scene = "proxmox" /\ Proxmox!Init
        /\ v14 = None /\ v15 = None /\ v16 = None /\ v17 = None
     \/ scene = "publication_held" /\ PublicationHeld!Init
        /\ v12 = None /\ v13 = None /\ v14 = None /\ v15 = None /\ v16 = None /\ v17 = None
     \/ scene = "publication_late" /\ PublicationLate!Init
        /\ v12 = None /\ v13 = None /\ v14 = None /\ v15 = None /\ v16 = None /\ v17 = None
     \/ scene = "viewer_bridge" /\ ViewerBridge!Init

ScenesNext ==
    \/ scene = "transfer" /\ Transfer!Next /\ UNCHANGED <<scene, v14, v15, v16, v17>>
    \/ scene = "transfer_late" /\ TransferLate!Next /\ UNCHANGED <<scene, v14, v15, v16, v17>>
    \/ scene = "file_operation" /\ FileOperation!Next /\ UNCHANGED <<scene, v10, v11, v12, v13,
       v14, v15, v16, v17>>
    \/ scene = "file_late" /\ FileLate!Next /\ UNCHANGED <<scene, v10, v11, v12, v13, v14, v15,
       v16, v17>>
    \/ scene = "module_batch" /\ ModuleBatch!Next /\ UNCHANGED <<scene, v12, v13, v14, v15, v16,
       v17>>
    \/ scene = "module_nodes" /\ ModuleNodes!Next /\ UNCHANGED <<scene, v12, v13, v14, v15, v16,
       v17>>
    \/ scene = "module_pair" /\ ModulePair!Next /\ UNCHANGED <<scene, v12, v13, v14, v15, v16, v17>>
    \/ scene = "upload_parts" /\ UploadParts!Next /\ UNCHANGED <<scene, v13, v14, v15, v16, v17>>
    \/ scene = "upload_key" /\ UploadKey!Next /\ UNCHANGED <<scene, v13, v14, v15, v16, v17>>
    \/ scene = "podman_shared" /\ PodmanShared!Next /\ UNCHANGED <<scene, v11, v12, v13, v14, v15,
       v16, v17>>
    \/ scene = "podman_copied" /\ PodmanCopied!Next /\ UNCHANGED <<scene, v11, v12, v13, v14, v15,
       v16, v17>>
    \/ scene = "proxmox" /\ Proxmox!Next /\ UNCHANGED <<scene, v14, v15, v16, v17>>
    \/ scene = "publication_held" /\ PublicationHeld!Next /\ UNCHANGED <<scene, v12, v13, v14,
       v15, v16, v17>>
    \/ scene = "publication_late" /\ PublicationLate!Next /\ UNCHANGED <<scene, v12, v13, v14,
       v15, v16, v17>>
    \/ scene = "viewer_bridge" /\ ViewerBridge!Next /\ UNCHANGED scene

ScenesSpec == ScenesInit /\ [][ScenesNext]_scenesVars

-----------------------------------------------------------------------------
(* Every scene keeps the type invariant of its component. *)
ScenesTypeOK ==
    /\ scene = "transfer" => Transfer!TypeOK
    /\ scene = "transfer_late" => TransferLate!TypeOK
    /\ scene = "file_operation" => FileOperation!TypeOK
    /\ scene = "file_late" => FileLate!TypeOK
    /\ scene = "module_batch" => ModuleBatch!TypeOK
    /\ scene = "module_nodes" => ModuleNodes!TypeOK
    /\ scene = "module_pair" => ModulePair!TypeOK
    /\ scene = "upload_parts" => UploadParts!TypeOK
    /\ scene = "upload_key" => UploadKey!TypeOK
    /\ scene = "podman_shared" => PodmanShared!TypeOK
    /\ scene = "podman_copied" => PodmanCopied!TypeOK
    /\ scene = "proxmox" => Proxmox!TypeOK
    /\ scene = "publication_held" => PublicationHeld!TypeOK
    /\ scene = "publication_late" => PublicationLate!TypeOK
    /\ scene = "viewer_bridge" => ViewerBridge!TypeOK

(* What is reported of a transfer, a file or module operation, an        *)
(* upload, a container, a virtual machine task, a publication or a       *)
(* display is what happened: success means done, by a retry too, and     *)
(* refusal means untouched.  Of a file item that was once dispatched     *)
(* "failed" says nothing: NothingOverwritten states how it comes about.  *)
ReportsTrue ==
    /\ scene = "transfer" => Transfer!ReportedTrue
    /\ scene = "transfer_late" => TransferLate!ReportedTrue
    /\ scene = "file_operation" => FileOperation!ItemsTrue
    /\ scene = "file_late" => FileLate!ItemsTrue
    /\ scene = "module_batch" => ModuleBatch!RefusedUntouched /\ ModuleBatch!AcceptedActed
    /\ scene = "module_nodes" => ModuleNodes!RefusedUntouched /\ ModuleNodes!AcceptedActed
    /\ scene = "module_pair" => ModulePair!RefusedUntouched /\ ModulePair!AcceptedActed
    /\ scene = "upload_parts" => UploadParts!AbortedNothing /\ UploadParts!CompletedPublished
                                 /\ UploadParts!PublishedAcknowledged
    /\ scene = "upload_key" => UploadKey!AbortedNothing /\ UploadKey!CompletedPublished
                               /\ UploadKey!PublishedAcknowledged
    /\ scene = "podman_shared" => PodmanShared!HonestFinish
    /\ scene = "podman_copied" => PodmanCopied!HonestFinish
    /\ scene = "proxmox" => Proxmox!ObservedHonest /\ Proxmox!RefusedUntouched
                            /\ Proxmox!ReceiptKept
    /\ scene = "publication_held" => PublicationHeld!RegisteredOrSkipped
    /\ scene = "viewer_bridge" => ViewerBridge!NeverRejected /\ ViewerBridge!StallNoticed

(* What has taken effect was asked for, approved, whole and done once:   *)
(* published files and outputs are complete, an operation acts once on   *)
(* the machine that was confirmed, a container runs the approved bytes,  *)
(* an output stays until its publication is settled unless that was      *)
(* admitted under a release the controller no longer waited for, and a   *)
(* revoked display soon shows nothing.                                   *)
EffectsOwed ==
    /\ scene = "transfer" => Transfer!PublishedWhole /\ Transfer!AcceptedHeld
    /\ scene = "transfer_late" => TransferLate!PublishedWhole /\ TransferLate!AcceptedHeld
    /\ scene = "module_batch" => ModuleBatch!ProfileHeld /\ ModuleBatch!ProvedRemovable
                                 /\ ModuleBatch!ActedOnce
    /\ scene = "module_nodes" => ModuleNodes!ProvedRemovable
    /\ scene = "module_pair" => ModulePair!ActedOnce /\ ModulePair!OneUnfinished
    /\ scene = "podman_shared" => PodmanShared!RunsApproved
    /\ scene = "podman_copied" => PodmanCopied!RunsApproved
    /\ scene = "proxmox" => Proxmox!ActsOnConfirmed
    /\ scene = "publication_held" => PublicationHeld!OutputKept /\ PublicationHeld!RemovedSettled
    /\ scene = "publication_late" => PublicationLate!PublishedWhole /\ PublicationLate!OutputKept
    /\ scene = "viewer_bridge" => ViewerBridge!RevokedSoon

(* No step destroys what it was not given: a file or an object that      *)
(* another writer put there, a module task's final outcome, or the trace *)
(* of a target that may still be acting.  The outcome of a file item is  *)
(* lost only to an outdated copy of its operation, its doubt also to an  *)
(* execution that was refused before it could ask the node again.        *)
NothingOverwritten == [][
    /\ scene = "transfer" => Transfer!NothingLost /\ Transfer!LegacyUnresumed
    /\ scene = "transfer_late" => TransferLate!NothingLost
    /\ scene = "file_operation" => FileOperation!OtherKept /\ FileOperation!OutcomesKept
    /\ scene = "file_late" => FileLate!OtherKept /\ FileLate!OutcomesKept
    /\ scene = "module_batch" => ModuleBatch!TerminalFinal
    /\ scene = "module_nodes" => ModuleNodes!RemovedClean
    /\ scene = "upload_parts" => UploadParts!NeverReplaced
    /\ scene = "upload_key" => UploadKey!NeverReplaced]_scenesVars

(* Interchangeable identities: every scene uses a family as a whole set, *)
(* or not at all.                                                        *)
Symmetry == Permutations({x1, x2}) \cup Permutations({y1, y2})
=============================================================================
