----------------------------- MODULE MCController -----------------------------
(* The controller's durable decisions, each part in small scenes:           *)
(* contributor enrollment, audit delivery, backup and restore, the archive  *)
(* of an installation's history, policy packages, transactions on a shared  *)
(* database, workspaces and federation.  A behaviour stays in the scene it  *)
(* begins in; the variables v1, v2, ... are slots that every scene gives    *)
(* its own meaning. The component StateTransactions is extended as it       *)
(* stands: its variables move in its own scene only.                        *)
EXTENDS StateTransactions, Naturals, Sequences, FiniteSets, TLC

CONSTANTS
    Scenes,  \* the scenes a run explores
    None, Foreign,
    x1, x2, y1, y2, t1, t2, t3  \* interchangeable identities

VARIABLES scene,
    v1, v2, v3, v4, v5, v6, v7, v8, v9, v10, v11, v12, v13, v14, v15, v16, v17, v18, v19, v20

slots == <<v1, v2, v3, v4, v5, v6, v7, v8, v9, v10, v11, v12, v13, v14, v15, v16, v17, v18, v19,
    v20>>
scenesVars == <<scene, slots, vars>>

-----------------------------------------------------------------------------
(* One contributor that enrolls and rotates its certificate. *)
Contributor == INSTANCE Contributors WITH
    node <- v1, project <- v2, reqs <- v3, certs <- v4, issuing <- v5, session <- v6,
    restarts <- v7, stage <- v8, current <- v9, pending <- v10, mem <- v11,
    Enroll <- "enroll", Rotations <- {"rotation"}, Certs <- {t1, t2, t3}, MaxRev <- 3,
    MaxRestart <- 1

(* Two mutations that wait for the collector, a table that keeps one     *)
(* row.                                                                  *)
Audit == INSTANCE AuditDelivery WITH
    first <- v1, last <- v2, marker <- v3, conf <- v4, disk <- v5, command <- v6, policy <- v7,
    up <- v8, required <- v9, ck <- v10, dirty <- v11, pc <- v12, queue <- v13, active <- v14,
    waiter <- v15, net <- v16, journal <- v17, earlier <- v18, crashes <- v19, commands <- v20,
    Intents <- {x1, x2}, MaxRows <- 2, Keep <- 1, Page <- 1, MaxLag <- 1, MaxWait <- 1,
    MaxCrash <- 1, MaxCommand <- 2

(* More rows than the table keeps, one waiting mutation. *)
AuditRows == INSTANCE AuditDelivery WITH
    first <- v1, last <- v2, marker <- v3, conf <- v4, disk <- v5, command <- v6, policy <- v7,
    up <- v8, required <- v9, ck <- v10, dirty <- v11, pc <- v12, queue <- v13, active <- v14,
    waiter <- v15, net <- v16, journal <- v17, earlier <- v18, crashes <- v19, commands <- v20,
    Intents <- {"i"}, MaxRows <- 3, Keep <- 1, Page <- 1, MaxLag <- 1, MaxWait <- 1,
    MaxCrash <- 1, MaxCommand <- 2

(* One export and one restore while files change, of both schemas. *)
BackupDamage == INSTANCE Backup WITH
    lock <- v1, db <- v2, disk <- v3, cli <- v4, run <- v5, place <- v6, durable <- v7,
    receipt <- v8, upsets <- v9, starts <- v10,
    Procs <- {"p"}, Kinds <- {"jobs"}, Powers <- {"credentials", "modules"}, Modules <- {"m"},
    Schemas <- {4, 17}, Foreign <- Foreign, MaxUpsets <- 1, MaxStarts <- 1

(* Two commands and the service race for one state directory. *)
BackupRace == INSTANCE Backup WITH
    lock <- v1, db <- v2, disk <- v3, cli <- v4, run <- v5, place <- v6, durable <- v7,
    receipt <- v8, upsets <- v9, starts <- v10,
    Procs <- {x1, x2}, Kinds <- {"jobs"}, Powers <- {"credentials"}, Modules <- {"m"},
    Schemas <- {17}, Foreign <- Foreign, MaxUpsets <- 0, MaxStarts <- 1

(* Two epochs on one node, each archived into its own output. *)
HistoryEpochs == INSTANCE HistoryArchive WITH
    db <- v1, serving <- v2, pending <- v3, out <- v4, cli <- v5, run <- v6, scratch <- v7,
    owner <- v8, live <- v9, arch <- v10, helper <- v11, asked <- v12, sent <- v13,
    deaths <- v14, disturbed <- v15, stuck <- v16,
    Nodes <- {"n"}, Jobs <- {x1, x2}, Receipts <- {"r"}, Outputs <- {"o1", "o2"},
    MaxEpoch <- 2, MaxDeaths <- 2

(* One epoch on two nodes. *)
HistoryNodes == INSTANCE HistoryArchive WITH
    db <- v1, serving <- v2, pending <- v3, out <- v4, cli <- v5, run <- v6, scratch <- v7,
    owner <- v8, live <- v9, arch <- v10, helper <- v11, asked <- v12, sent <- v13,
    deaths <- v14, disturbed <- v15, stuck <- v16,
    Nodes <- {"n1", "n2"}, Jobs <- {"j"}, Receipts <- {"r"}, Outputs <- {"o"}, MaxEpoch <- 1,
    MaxDeaths <- 2

(* Two packages of one publisher, two administrators. *)
Policy == INSTANCE Policies WITH
    pub <- v1, pkgs <- v2, state <- v3, ev <- v4, mem <- v5, retired <- v6, job <- v7,
    lock <- v8, lost <- v9, denied <- v10, restarts <- v11,
    Publisher <- {"p"}, Package <- {"k1", "k2"}, PublisherOf <- [k \in {"k1", "k2"} |-> "p"],
    Admin <- {x1, x2}, Evaluator <- {t1, t2, t3}, MaxTrust <- 3, MaxRev <- 3, MaxRestart <- 1

(* Two clients, two workspaces, one surface each. *)
Workspaces == INSTANCE Workspaces WITH
    space <- v1, view <- v2, surface <- v3, copy <- v4, made <- v5, now <- v6, lost <- v7,
    Space <- {"s1", "s2"}, Panel <- {"p"}, View <- {t1, t2, t3}, Surface <- {"f"},
    Client <- {x1, x2}, Subject <- {x1, x2}, Owner <- [c \in {x1, x2} |-> c], MaxViews <- 2,
    MaxWrite <- 4

Anything == {"remove_A", "forget_A", "revoke", "retire", "remove", "forget", "lost"}

(* Two offers, one of which may be removed after pairing. *)
FederationPair == INSTANCE Federation WITH
    offersA <- v1, peerA <- v2, fin <- v3, cutA <- v4, told <- v5, offersB <- v6, peerB <- v7,
    grants <- v8, ops <- v9, made <- v10, svc <- v11, conn <- v12, adm <- v13, ended <- v14,
    removals <- v15, crashes <- v16,
    Offers <- {"o1", "o2"}, Extra <- {}, Ops <- {}, Controls <- {}, Conns <- {}, Stop <- TRUE, Requests <- 1,
    Concurrent <- 1, Capacity <- 1, MaxCrash <- 1, MaxRemove <- 1,
    Events <- Anything

(* Two creations and a control over two connections under one grant. *)
FederationWork == INSTANCE Federation WITH
    offersA <- v1, peerA <- v2, fin <- v3, cutA <- v4, told <- v5, offersB <- v6, peerB <- v7,
    grants <- v8, ops <- v9, made <- v10, svc <- v11, conn <- v12, adm <- v13, ended <- v14,
    removals <- v15, crashes <- v16,
    Offers <- {"o"}, Extra <- {}, Ops <- {x1, x2, "m"}, Controls <- {"m"},
    Conns <- {y1, y2}, Stop <- TRUE, Requests <- 2,
    Concurrent <- 2, Capacity <- 1, MaxCrash <- 1, MaxRemove <- 0, Events <- Anything

(* One mutation under an offered and a further grant. *)
FederationReplay == INSTANCE Federation WITH
    offersA <- v1, peerA <- v2, fin <- v3, cutA <- v4, told <- v5, offersB <- v6, peerB <- v7,
    grants <- v8, ops <- v9, made <- v10, svc <- v11, conn <- v12, adm <- v13, ended <- v14,
    removals <- v15, crashes <- v16,
    Offers <- {"o"}, Extra <- {"g"}, Ops <- {"m"}, Controls <- {}, Conns <- {"c"},
    Stop <- TRUE, Requests <- 2,
    Concurrent <- 2, Capacity <- 1, MaxCrash <- 1, MaxRemove <- 0,
    Events <- Anything

(* A pairing removed while a grant is issued and a mutation is under way,   *)
(* and made again.                                                          *)
FederationRemoval == INSTANCE Federation WITH
    offersA <- v1, peerA <- v2, fin <- v3, cutA <- v4, told <- v5, offersB <- v6, peerB <- v7,
    grants <- v8, ops <- v9, made <- v10, svc <- v11, conn <- v12, adm <- v13, ended <- v14,
    removals <- v15, crashes <- v16,
    Offers <- {"o1", "o2"}, Extra <- {"g"}, Ops <- {"m"}, Controls <- {}, Conns <- {"c"},
    Stop <- FALSE, Requests <- 1, Concurrent <- 1, Capacity <- 1, MaxCrash <- 0, MaxRemove <- 2,
    Events <- {"remove_A", "remove"}

ASSUME Contributor!ContributorsAssumption
ASSUME Audit!AuditConstants /\ AuditRows!AuditConstants
ASSUME BackupDamage!BackupAssumption /\ BackupRace!BackupAssumption
ASSUME HistoryEpochs!HistoryAssumption /\ HistoryNodes!HistoryAssumption
ASSUME FederationPair!FederationAssumption /\ FederationWork!FederationAssumption
    /\ FederationReplay!FederationAssumption /\ FederationRemoval!FederationAssumption

-----------------------------------------------------------------------------
ScenesInit ==
  /\ scene \in Scenes
  /\ Init
  /\ \/ scene = "contributor" /\ Contributor!Init
        /\ v12 = None /\ v13 = None /\ v14 = None /\ v15 = None /\ v16 = None /\ v17 = None
           /\ v18 = None /\ v19 = None /\ v20 = None
     \/ scene = "audit" /\ Audit!Init
     \/ scene = "audit_rows" /\ AuditRows!Init
     \/ scene = "backup_damage" /\ BackupDamage!Init
        /\ v11 = None /\ v12 = None /\ v13 = None /\ v14 = None /\ v15 = None /\ v16 = None
           /\ v17 = None /\ v18 = None /\ v19 = None /\ v20 = None
     \/ scene = "backup_race" /\ BackupRace!Init
        /\ v11 = None /\ v12 = None /\ v13 = None /\ v14 = None /\ v15 = None /\ v16 = None
           /\ v17 = None /\ v18 = None /\ v19 = None /\ v20 = None
     \/ scene = "history_epochs" /\ HistoryEpochs!Init
        /\ v17 = None /\ v18 = None /\ v19 = None /\ v20 = None
     \/ scene = "history_nodes" /\ HistoryNodes!Init
        /\ v17 = None /\ v18 = None /\ v19 = None /\ v20 = None
     \/ scene = "policy" /\ Policy!Init
        /\ v12 = None /\ v13 = None /\ v14 = None /\ v15 = None /\ v16 = None /\ v17 = None
           /\ v18 = None /\ v19 = None /\ v20 = None
     \/ scene = "transactions"
        /\ v1 = None /\ v2 = None /\ v3 = None /\ v4 = None /\ v5 = None /\ v6 = None /\ v7 = None
           /\ v8 = None /\ v9 = None /\ v10 = None /\ v11 = None /\ v12 = None /\ v13 = None
           /\ v14 = None /\ v15 = None /\ v16 = None /\ v17 = None /\ v18 = None /\ v19 = None
           /\ v20 = None
     \/ scene = "workspaces" /\ Workspaces!Init
        /\ v8 = None /\ v9 = None /\ v10 = None /\ v11 = None /\ v12 = None /\ v13 = None
           /\ v14 = None /\ v15 = None /\ v16 = None /\ v17 = None /\ v18 = None /\ v19 = None
           /\ v20 = None
     \/ scene = "federation_pair" /\ FederationPair!Init
        /\ v17 = None /\ v18 = None /\ v19 = None /\ v20 = None
     \/ scene = "federation_work" /\ FederationWork!Init
        /\ v17 = None /\ v18 = None /\ v19 = None /\ v20 = None
     \/ scene = "federation_replay" /\ FederationReplay!Init
        /\ v17 = None /\ v18 = None /\ v19 = None /\ v20 = None
     \/ scene = "federation_removal" /\ FederationRemoval!Init
        /\ v17 = None /\ v18 = None /\ v19 = None /\ v20 = None

ScenesNext ==
    \/ scene = "contributor" /\ Contributor!Next /\ UNCHANGED <<scene, v12, v13, v14, v15, v16,
       v17, v18, v19, v20, vars>>
    \/ scene = "audit" /\ Audit!Next /\ UNCHANGED <<scene, vars>>
    \/ scene = "audit_rows" /\ AuditRows!Next /\ UNCHANGED <<scene, vars>>
    \/ scene = "backup_damage" /\ BackupDamage!Next /\ UNCHANGED <<scene, v11, v12, v13, v14, v15,
       v16, v17, v18, v19, v20, vars>>
    \/ scene = "backup_race" /\ BackupRace!Next /\ UNCHANGED <<scene, v11, v12, v13, v14, v15,
       v16, v17, v18, v19, v20, vars>>
    \/ scene = "history_epochs" /\ HistoryEpochs!Next /\ UNCHANGED <<scene, v17, v18, v19, v20,
       vars>>
    \/ scene = "history_nodes" /\ HistoryNodes!Next /\ UNCHANGED <<scene, v17, v18, v19, v20, vars>>
    \/ scene = "policy" /\ Policy!Next /\ UNCHANGED <<scene, v12, v13, v14, v15, v16, v17, v18,
       v19, v20, vars>>
    \/ scene = "transactions" /\ Next /\ UNCHANGED <<scene, slots>>
    \/ scene = "workspaces" /\ Workspaces!Next /\ UNCHANGED <<scene, v8, v9, v10, v11, v12, v13,
       v14, v15, v16, v17, v18, v19, v20, vars>>
    \/ scene = "federation_pair" /\ FederationPair!Next /\ UNCHANGED <<scene, v17, v18, v19, v20,
       vars>>
    \/ scene = "federation_work" /\ FederationWork!Next /\ UNCHANGED <<scene, v17, v18, v19, v20,
       vars>>
    \/ scene = "federation_replay" /\ FederationReplay!Next /\ UNCHANGED <<scene, v17, v18, v19,
       v20, vars>>
    \/ scene = "federation_removal" /\ FederationRemoval!Next /\ UNCHANGED <<scene, v17, v18, v19,
       v20, vars>>

ScenesSpec == ScenesInit /\ [][ScenesNext]_scenesVars

-----------------------------------------------------------------------------
(* Every scene keeps the type invariant of its component. *)
ScenesTypeOK ==
    /\ scene = "contributor" => Contributor!TypeOK
    /\ scene = "audit" => Audit!TypeOK
    /\ scene = "audit_rows" => AuditRows!TypeOK
    /\ scene = "backup_damage" => BackupDamage!TypeOK
    /\ scene = "backup_race" => BackupRace!TypeOK
    /\ scene = "history_epochs" => HistoryEpochs!TypeOK
    /\ scene = "history_nodes" => HistoryNodes!TypeOK
    /\ scene = "policy" => Policy!TypeOK
    /\ scene = "transactions" => TypeOK
    /\ scene = "workspaces" => Workspaces!TypeOK
    /\ scene = "federation_pair" => FederationPair!TypeOK
    /\ scene = "federation_work" => FederationWork!TypeOK
    /\ scene = "federation_replay" => FederationReplay!TypeOK
    /\ scene = "federation_removal" => FederationRemoval!TypeOK

(* Only current authority has effect: one certificate speaks for a       *)
(* contributor, a restored directory holds no credentials, only a        *)
(* trusted package decides, a federation peer acts only under an         *)
(* approved pairing and an unrevoked grant and within its capacity, and  *)
(* a removed pairing leaves no grant but one issued during its removal.  *)
AuthorityCurrent ==
    /\ scene = "contributor" => Contributor!OneAuthority /\ Contributor!ChannelCurrent
    /\ scene = "backup_damage" => BackupDamage!RestoredPowerless
    /\ scene = "backup_race" => BackupRace!RestoredPowerless
    /\ scene = "policy" => Policy!Enforced /\ Policy!DecidesTrusted /\ Policy!EvaluatorsOwned
    /\ scene = "federation_pair" => FederationPair!PairedApproved /\ FederationPair!RemovedEnds
    /\ scene = "federation_work" => FederationWork!RevokedQuiet /\ FederationWork!CapacityHeld
    /\ scene = "federation_replay" => FederationReplay!RevokedQuiet /\ FederationReplay!CapacityHeld
    /\ scene = "federation_removal" => FederationRemoval!RemovedEnds /\ FederationRemoval!RevokedQuiet

(* No record is lost, doubled or left half-made by a crash between two   *)
(* writes or by two requests at once: keys, audit rows, bundles and      *)
(* restored directories, archived history, and the layout of workspaces. *)
RecordsKept ==
    /\ scene = "contributor" => Contributor!KeyKept
    /\ scene = "audit" => Audit!EveryRowOnce /\ Audit!PendingSaved /\ Audit!IntentDurable
                          /\ Audit!PolicyKept
    /\ scene = "audit_rows" => AuditRows!EveryRowOnce /\ AuditRows!PendingSaved
                               /\ AuditRows!IntentDurable /\ AuditRows!PolicyKept
    /\ scene = "backup_damage" => BackupDamage!BundleComplete /\ BackupDamage!RestoredFaithful
    /\ scene = "backup_race" => BackupRace!BundleComplete /\ BackupRace!RestoredFaithful
                                /\ BackupRace!StillCurrent
    /\ scene = "history_epochs" => HistoryEpochs!OwnerAgrees /\ HistoryEpochs!RetiredForGood
                                   /\ HistoryEpochs!NothingLost /\ HistoryEpochs!RotatedAfterAll
                                   /\ HistoryEpochs!Resumable
    /\ scene = "history_nodes" => HistoryNodes!OwnerAgrees /\ HistoryNodes!RetiredForGood
                                  /\ HistoryNodes!NothingLost /\ HistoryNodes!RotatedAfterAll
                                  /\ HistoryNodes!Resumable
    /\ scene = "workspaces" => Workspaces!TilesBacked /\ Workspaces!PanelsKnown
                               /\ Workspaces!OnePlace /\ Workspaces!SpaceKept

(* What a caller is told agrees with what happened: a backup's receipt,  *)
(* a policy preview against the policy and the trust it was evaluated    *)
(* under, the answer to a federated mutation that is asked again (a      *)
(* control's 'failed' leaves open how far it got), and a transaction in  *)
(* which something raised.                                               *)
AnswersTrue ==
    /\ scene = "backup_race" => BackupRace!ReceiptTrue
    /\ scene = "policy" => Policy!PreviewTrue
    /\ scene = "federation_work" => FederationWork!ReceiptTrue /\ FederationWork!NotReplayed
    /\ scene = "federation_replay" => FederationReplay!ReceiptTrue /\ FederationReplay!NotReplayed
    /\ scene = "federation_removal" => FederationRemoval!ReceiptTrue /\ FederationRemoval!NotReplayed
    /\ scene = "transactions" => RaisedNothing

(* What is there is kept until its copy is: a bundle or a directory that *)
(* exists is never replaced; a node moves a job's directory only into    *)
(* the archive whose saved intent names it, and takes the next identity  *)
(* with none left; and the command line's receipts, the only thing an    *)
(* archive deletes, go after every node's archive is complete.           *)
RemovedVerified == [][
    /\ scene = "backup_damage" => BackupDamage!NeverReplaced
    /\ scene = "backup_race" => BackupRace!NeverReplaced
    /\ scene = "history_epochs" => HistoryEpochs!VerifiedRemoval
    /\ scene = "history_nodes" => HistoryNodes!VerifiedRemoval]_scenesVars

(* Interchangeable identities: every scene uses a family as a whole set, *)
(* or not at all.                                                        *)
Symmetry == Permutations({x1, x2})
=============================================================================
