---------------------------- MODULE Inspections -----------------------------
(***************************************************************************)
(* Datasets, their local inspection and the safety decisions of an owner.  *)
(* A dataset is an immutable manifest of files; what restricts its use is  *)
(* kept apart from it: a policy (inspection required, quarantined, an      *)
(* exemption) and the latest inspection.  Restrictions follow the declared *)
(* lineage and every known registration of the same path or content.       *)
(*                                                                         *)
(* Inspections are tasks of the controller that run a scanner in a worker; *)
(* an action is what the event loop does between two awaits, or one        *)
(* transaction.                                                            *)
(***************************************************************************)
EXTENDS Naturals, Sequences, FiniteSets

CONSTANTS
    Dataset, Path, Content,
    Run,       \* identities of inspections; none is used twice
    Workers,   \* config["workers"]
    MaxFile,   \* files of a dataset
    MaxOwner,  \* bound: decisions of the owner
    MaxConfig, \* bound: changes of the scanner configuration
    MaxDisk,   \* bound: files that are written again
    MaxFault,  \* bound: restarts, cancellations, failing scans and expiries
    None

VARIABLES
    disk,   \* Path -> the content of the registered file
    ds,     \* Dataset -> its manifest [files, parents], or None
    pol,    \* Dataset -> its policy [rev, req, quar, exm, run]
    ins,    \* Run -> [d, cfg, st, out, rec], or None
    task,   \* Run -> the step of its task, or None
    cfg,    \* the scanner configuration: [v, required, on]
    make,   \* the registration under way, or None
    page,   \* what the owner looks at: [d, rev, known], or None
    job,    \* the dataset a job is reading, or None
    stale,  \* inspections whose receipt is too old
    ack,    \* Dataset -> findings the owner knew of when clearing a quarantine
    told,   \* Dataset -> findings that stood when an exemption was granted
    unsafe, \* data was used in spite of a finding nobody decided on
    used    \* bounds: [owner, disk, fault]

store == <<ds, pol, ins, cfg>>
vars == <<disk, store, task, make, page, job, stale, ack, told, unsafe, used>>

Policy == [rev |-> 1, req |-> FALSE, quar |-> FALSE, exm |-> None, run |-> None]

Init ==
    /\ disk \in [Path -> Content] /\ ds = [d \in Dataset |-> None] /\ pol = [d \in Dataset |-> Policy]
    /\ ins = [r \in Run |-> None] /\ task = [r \in Run |-> None]
    /\ cfg = [v |-> 1, required |-> TRUE, on |-> TRUE]
    /\ make = None /\ page = None /\ job = None /\ stale = {}
    /\ ack = [d \in Dataset |-> {}] /\ told = [d \in Dataset |-> {}]
    /\ unsafe = FALSE /\ used = [owner |-> 0, disk |-> 0, fault |-> 0]

Known == {d \in Dataset : ds[d] # None}
Tasks == {r \in Run : task[r] # None}
Fresh == IF \E r \in Run : ins[r] = None THEN {CHOOSE r \in Run : ins[r] = None} ELSE {}
At(step) == [at |-> step, out |-> None, c |-> None]
Fault == used.fault < MaxFault /\ used' = [used EXCEPT !.fault = @ + 1]
Owner == used.owner < MaxOwner /\ used' = [used EXCEPT !.owner = @ + 1]

-----------------------------------------------------------------------------
(* What applies to a dataset.                                                *)

Files(d) == {ds[d].files[i] : i \in 1..Len(ds[d].files)}

(* index: declared parents, and registrations of the same path or content. *)
Edge(a, b) == b \in ds[a].parents \/ (\E f \in Files(a), g \in Files(b) : f.p = g.p \/ f.c = g.c)

(* InspectionStore.ancestors: the closure, over the project's datasets. *)
Ancestors(d) ==
    LET up[n \in 0..Cardinality(Dataset)] ==
            IF n = 0 THEN {d} ELSE up[n - 1] \cup {b \in Known : \E a \in up[n - 1] : Edge(a, b)}
    IN up[Cardinality(Dataset)]

(* DatasetSafety.successful: the latest inspection found nothing, is not too *)
(* old and was made under the configuration in force.                        *)
Successful(d) ==
    LET r == pol[d].run
    IN IF r = None \/ ~cfg.on THEN FALSE
       ELSE ins[r].st = "completed" /\ ins[r].out = "no_detection" /\ ins[r].cfg = cfg.v /\ r \notin stale

(* The state an exemption is bound to. *)
Basis(d) ==
    <<cfg.v, cfg.required, {<<a, pol[a].rev, pol[a].run, IF pol[a].run = None THEN <<>> ELSE <<ins[pol[a].run].st, ins[pol[a].run].out>>>>
                : a \in Ancestors(d)}>>

Required(d) == \E a \in Ancestors(d) : pol[a].req
Quarantined(d) == \E a \in Ancestors(d) : pol[a].quar
Missing(d) == Required(d) /\ (~Successful(d) \/ \E a \in Ancestors(d) : pol[a].req /\ ~Successful(a))
Exempt(d) == IF pol[d].exm = None THEN FALSE ELSE pol[d].exm = Basis(d)

(* DatasetSafety.effective and require. *)
Usable(d) == (~Quarantined(d) /\ ~Missing(d)) \/ Exempt(d)

(* Findings that were recorded, each with the dataset it is about. *)
Findings(d) == {<<r, i>> \in Run \X (1..MaxFile) :
                  ins[r] # None /\ ins[r].d = d /\ i <= Len(ins[r].rec) /\ ins[r].rec[i].out = "detected"}

(* The datasets that d is made from or shares a file or bytes with. *)
Kin(d) == {a \in Known : \/ a = d \/ a \in ds[d].parents
                          \/ \E f \in Files(d), g \in Files(a) : f.p = g.p \/ f.c = g.c}
Undecided(d) ==
    IF Exempt(d) THEN \E a \in Kin(d) : Findings(a) \ told[d] # {} ELSE \E a \in Kin(d) : Findings(a) \ ack[a] # {}

-----------------------------------------------------------------------------
(* Inspections.                                                              *)

Room(d) == Cardinality(Tasks) < Workers /\ \A t \in Tasks : ins[t].d # d

(* Inspections.submit: room for a worker, one inspection of a dataset at a   *)
(* time; the new one becomes the dataset's latest.                           *)
Submitted(d, r, p) ==
    /\ Room(d) /\ r \in Fresh
    /\ ins' = [ins EXCEPT ![r] = [d |-> d, cfg |-> cfg.v, st |-> "queued", out |-> "incomplete", rec |-> <<>>]]
    /\ task' = [task EXCEPT ![r] = At("start")]
    /\ pol' = [p EXCEPT ![d].run = r]

Submit(d, r) ==
    /\ d \in Known /\ Submitted(d, r, pol)
    /\ UNCHANGED <<disk, ds, cfg, make, page, job, stale, ack, told, unsafe, used>>

Save(r, f) == ins' = [ins EXCEPT ![r] = f]
Ended(r, out) ==
    /\ Save(r, [ins[r] EXCEPT !.st = "completed",
                              !.out = IF \E i \in 1..Len(ins[r].rec) : ins[r].rec[i].out = "detected" THEN "detected" ELSE out])
    /\ task' = [task EXCEPT ![r] = None]

Step(r, at) == r \in Tasks /\ task[r].at = at /\ UNCHANGED <<disk, ds, cfg, make, page, job, stale, ack, told, unsafe>>

Begin(r) ==
    /\ Step(r, "start") /\ UNCHANGED <<pol, used>>
    /\ IF cfg.on THEN Save(r, [ins[r] EXCEPT !.st = "running"]) /\ task' = [task EXCEPT ![r] = At("scan")]
       ELSE Ended(r, "unavailable")

Next1(r) == Len(ins[r].rec) + 1
File(r) == ds[ins[r].d].files[Next1(r)]

(* The worker has read the file it was given: what it saw and what it says.  *)
(* (incomplete stands for every outcome that is neither of the other two.)   *)
Scan(r) ==
    /\ Step(r, "scan") /\ UNCHANGED <<store, used>> /\ Next1(r) <= Len(ds[ins[r].d].files)
    /\ \E out \in {"no_detection", "detected", "incomplete"} :
          task' = [task EXCEPT ![r] = [at |-> "receipt", out |-> out, c |-> disk[File(r).p]]]

Receipt(r) == r \in Tasks /\ task[r].at = "receipt"

(* The receipt is about the manifest's bytes, and the path still has them. *)
Bound(r) == task[r].c = File(r).c /\ disk[File(r).p] = File(r).c

(* A finding sets the quarantine and ends an exemption. *)
QuarantinedNow(d) == [pol EXCEPT ![d] = [@ EXCEPT !.quar = TRUE, !.rev = @ + 1, !.exm = None]]

(* One file's receipt and its consequence, in one transaction. *)
Record(r) ==
    /\ Receipt(r) /\ Bound(r)
    /\ Save(r, [ins[r] EXCEPT !.rec = Append(@, [out |-> task[r].out, c |-> task[r].c])])
    /\ pol' = IF task[r].out = "detected" THEN QuarantinedNow(ins[r].d) ELSE pol
    /\ task' = [task EXCEPT ![r] = At("scan")]
    /\ UNCHANGED <<disk, ds, cfg, make, page, job, stale, ack, told, unsafe, used>>

Refused(r) ==
    /\ Receipt(r) /\ ~Bound(r) /\ Ended(r, "error")
    /\ UNCHANGED <<disk, ds, pol, cfg, make, page, job, stale, ack, told, unsafe, used>>

(* max by PRIORITY. *)
Worst(rec) ==
    IF \E i \in 1..Len(rec) : rec[i].out = "detected" THEN "detected"
    ELSE IF \E i \in 1..Len(rec) : rec[i].out = "incomplete" THEN "incomplete" ELSE "no_detection"

Finish(r) ==
    /\ Step(r, "scan") /\ Next1(r) > Len(ds[ins[r].d].files) /\ Ended(r, Worst(ins[r].rec)) /\ UNCHANGED <<pol, used>>

(* The worker fails: its program, its assets or its limits. *)
Fail(r) ==
    /\ r \in Tasks /\ Fault /\ \E out \in {"error", "unavailable"} : Ended(r, out)
    /\ UNCHANGED <<disk, ds, pol, cfg, make, page, job, stale, ack, told, unsafe>>

(* The task is cancelled, before its first step or at an await. *)
Cancel(r) ==
    /\ r \in Tasks /\ Fault /\ Ended(r, "incomplete")
    /\ UNCHANGED <<disk, ds, pol, cfg, make, page, job, stale, ack, told, unsafe>>

-----------------------------------------------------------------------------
(* Datasets.                                                                 *)

Manifests == UNION {[1..n -> Path] : n \in 1..MaxFile}

(* Datasets.create: the files are read and their bytes become the manifest. *)
Snapshot(d, ps, parents) ==
    /\ make = None /\ d \notin Known /\ d = (CHOOSE x \in Dataset : x \notin Known) /\ parents \subseteq Known
    /\ \A i, j \in DOMAIN ps : i # j => ps[i] # ps[j]
    /\ make' = [d |-> d, pc |-> "insert", parents |-> parents, files |-> [i \in DOMAIN ps |-> [p |-> ps[i], c |-> disk[ps[i]]]]]
    /\ UNCHANGED <<disk, store, task, page, job, stale, ack, told, unsafe, used>>

(* The manifest, its lineage and its policy, in one transaction. *)
Register ==
    /\ make # None /\ make.pc = "insert"
    /\ ds' = [ds EXCEPT ![make.d] = [files |-> make.files, parents |-> make.parents]]
    /\ pol' = [pol EXCEPT ![make.d].req = cfg.required]
    /\ make' = [make EXCEPT !.pc = "inspect"]
    /\ UNCHANGED <<disk, ins, cfg, task, page, job, stale, ack, told, unsafe, used>>

(* on_create: an inspection is asked for; without room the dataset stays as  *)
(* it is.                                                                    *)
OnCreate ==
    /\ make # None /\ make.pc = "inspect"
    /\ IF Required(make.d) /\ Room(make.d) /\ Fresh # {}
       THEN \E r \in Run : Submitted(make.d, r, pol)
       ELSE UNCHANGED <<pol, ins, task>>
    /\ make' = [make EXCEPT !.pc = "wait"]
    /\ UNCHANGED <<disk, ds, cfg, page, job, stale, ack, told, unsafe, used>>

(* publication: whoever publishes waits for the inspection it caused. *)
Published ==
    /\ make # None /\ make.pc = "wait"
    /\ pol[make.d].run = None \/ pol[make.d].run \notin Tasks
    /\ make' = None
    /\ UNCHANGED <<disk, store, task, page, job, stale, ack, told, unsafe, used>>

(* Datasets.read and inputs: allowed at first, bytes read, allowed still. *)
ReadBegin(d) ==
    /\ job = None /\ d \in Known /\ Usable(d) /\ job' = d
    /\ UNCHANGED <<disk, store, task, make, page, stale, ack, told, unsafe, used>>

ReadEnd ==
    /\ job # None /\ job' = None /\ unsafe' = (unsafe \/ (Usable(job) /\ Undecided(job)))
    /\ UNCHANGED <<disk, store, task, make, page, stale, ack, told, used>>

-----------------------------------------------------------------------------
(* The owner.                                                                *)

Load(d) ==
    /\ d \in Known /\ used.owner < MaxOwner /\ page' = [d |-> d, rev |-> pol[d].rev, known |-> Findings(d)]
    /\ UNCHANGED <<disk, store, task, make, job, stale, ack, told, unsafe, used>>

(* DatasetSafety.update: the controls, if they are still those of the page. *)
Update(req, quar) ==
    /\ page # None /\ Owner /\ pol[page.d].rev = page.rev
    /\ pol' = [pol EXCEPT ![page.d] = [@ EXCEPT !.rev = @ + 1, !.exm = None, !.req = req, !.quar = quar]]
    /\ ack' = [ack EXCEPT ![page.d] = IF quar THEN @ ELSE page.known]
    /\ page' = None
    /\ UNCHANGED <<disk, ds, ins, cfg, task, make, job, stale, told, unsafe>>

(* An exemption is bound to the state that it leaves. *)
Grant ==
    LET d == page.d
        bumped == [pol EXCEPT ![d] = [@ EXCEPT !.rev = @ + 1]]
    IN /\ page # None /\ Owner /\ pol[d].rev = page.rev
       /\ pol' = [bumped EXCEPT ![d].exm = <<cfg.v, cfg.required,
                     {IF t[1] = d THEN <<d, t[2] + 1, t[3], t[4]>> ELSE t : t \in Basis(d)[3]}>>]
       /\ told' = [told EXCEPT ![d] = UNION {Findings(a) : a \in Ancestors(d)}]
       /\ page' = None
       /\ UNCHANGED <<disk, ds, ins, cfg, task, make, job, stale, ack, unsafe>>

(* Inspections.configure: not while one is under way. *)
Configure(required, on) ==
    /\ Tasks = {} /\ cfg.v < MaxConfig
    /\ cfg' = [v |-> cfg.v + 1, required |-> required, on |-> on]
    /\ UNCHANGED <<disk, ds, pol, ins, task, make, page, job, stale, ack, told, unsafe, used>>

-----------------------------------------------------------------------------
(* The world.                                                                *)

Overwrite(p, c) ==
    /\ used.disk < MaxDisk /\ disk[p] # c /\ disk' = [disk EXCEPT ![p] = c] /\ used' = [used EXCEPT !.disk = @ + 1]
    /\ UNCHANGED <<store, task, make, page, job, stale, ack, told, unsafe>>

(* max_age_seconds passes. *)
Age(r) ==
    /\ ins[r] # None /\ ins[r].st = "completed" /\ r \notin stale /\ stale' = stale \cup {r} /\ Fault
    /\ UNCHANGED <<disk, store, task, make, page, job, ack, told, unsafe>>

(* An exemption's expires_at passes. *)
Lapse(d) ==
    /\ pol[d].exm # None /\ pol' = [pol EXCEPT ![d].exm = None] /\ Fault
    /\ UNCHANGED <<disk, ds, ins, cfg, task, make, page, job, stale, ack, told, unsafe>>

(* The controller starts again: InspectionStore.recover. *)
Recovered(v) == IF v = None THEN None ELSE IF v.st = "completed" THEN v ELSE [v EXCEPT !.st = "completed", !.out = "incomplete"]

Restart ==
    /\ Fault /\ ins' = [r \in Run |-> Recovered(ins[r])] /\ task' = [r \in Run |-> None] /\ make' = None /\ job' = None
    /\ UNCHANGED <<disk, ds, pol, cfg, page, stale, ack, told, unsafe>>

Work ==
    \/ \E r \in Run : Begin(r) \/ Scan(r) \/ Record(r) \/ Refused(r) \/ Finish(r)
    \/ Register \/ OnCreate \/ Published

Next ==
    \/ Work
    \/ \E r \in Run : Fail(r) \/ Cancel(r) \/ Age(r) \/ \E d \in Dataset : Submit(d, r)
    \/ \E d \in Dataset : ReadBegin(d) \/ Load(d) \/ Lapse(d)
                          \/ \E ps \in Manifests, parents \in SUBSET Dataset : Snapshot(d, ps, parents)
    \/ ReadEnd \/ Grant \/ Restart
    \/ \E x, y \in BOOLEAN : Update(x, y) \/ Configure(x, y)
    \/ \E p \in Path, c \in Content : Overwrite(p, c)

Spec == Init /\ [][Next]_vars

-----------------------------------------------------------------------------
Outcome == {"incomplete", "no_detection", "detected", "unavailable", "error"}

(* The shape of the state; what a finding leaves is consistent: an           *)
(* inspection that recorded one does not end with a better result, and one   *)
(* that is not under way has ended.                                          *)
TypeOK ==
    /\ disk \in [Path -> Content] /\ unsafe \in BOOLEAN /\ stale \subseteq Run
    /\ \A d \in Dataset : pol[d].rev \in 1..(MaxOwner + MaxFile * Cardinality(Run) + 1) /\ pol[d].run \in Run \cup {None}
    /\ \A r \in Run : ins[r] # None =>
          /\ ins[r].st \in {"queued", "running", "completed"} /\ ins[r].out \in Outcome
          /\ task[r] = None <=> ins[r].st = "completed"

(* Nothing is handed to a job in spite of a finding, on the dataset, on one  *)
(* it is made from or on another registration of the same file or bytes,     *)
(* that the owner had not seen when clearing the quarantine, or that was not *)
(* there when the dataset was exempted.                                      *)
UsedKnowingly == ~unsafe

(* A dataset that must be inspected and is used without an exemption: the    *)
(* scanner in force has seen each of the manifest's bytes and found nothing. *)
ScannedBytes ==
    \A d \in Known : (Usable(d) /\ ~Exempt(d) /\ pol[d].req) =>
       LET v == ins[pol[d].run]
       IN /\ Len(v.rec) = Len(ds[d].files) /\ v.cfg = cfg.v
          /\ \A i \in 1..Len(v.rec) : v.rec[i].out = "no_detection" /\ v.rec[i].c = ds[d].files[i].c

(* An inspection under way suspends what an earlier one allowed.             *)
SuspendedWhileScanned ==
    \A r \in Tasks : LET d == ins[r].d IN pol[d].req /\ ~Exempt(d) => ~Usable(d)

(* Every inspection ends, and whoever publishes is not left waiting for it.  *)
Quiet == Tasks = {} /\ make = None
=============================================================================
