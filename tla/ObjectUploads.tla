---------------------------- MODULE ObjectUploads ----------------------------
(***************************************************************************)
(* Resumable uploads of a dataset file to an object store: an upload is    *)
(* made, given its parts, completed or aborted by runs the user starts one *)
(* at a time; each run drives a worker whose one request to the object     *)
(* service may be lost, or may take effect after the worker was stopped.   *)
(* All uploads of the model go to one object key.                          *)
(***************************************************************************)
EXTENDS Naturals, FiniteSets

CONSTANTS
    Upload,    \* uploads; a request key belongs to one upload
    Data,      \* datasets
    Part,      \* part numbers of a file
    MaxTag,    \* bound: part uploads the service applies
    MaxFault,  \* bound: crashes, failures, cancellations, altered files
    None, Bad  \* absent; bytes that are not a dataset's

VARIABLES
    upload,  \* Upload -> the retained upload [data, st, pid], or None
    run,     \* Upload -> its last run [op, part, st], or None
    ack,     \* Upload -> Part -> the tag its last retained receipt names, or None
    task,    \* Upload -> the task [pc, st, pid] with its copy of the upload, or None
    worker,  \* Upload -> the worker [ph, ok, tag]
    flight,  \* requests under way: [u, own, op, part, con, tags]
    prov,    \* Upload -> the service's multipart upload [st, part]
    object,  \* what the key holds: [by, con], or None
    used,    \* Upload -> part tags its object was assembled from
    tag,     \* part uploads the service applied
    altered, \* datasets whose local file changed
    faults

ext == <<flight, prov, object, used, tag>>
vars == <<upload, run, ack, task, worker, ext, altered, faults>>

TERMINAL == {"completed", "failed", "cancelled", "unknown"}
NoPart == [p \in Part |-> None]
Idle == [ph |-> "none", ok |-> FALSE, tag |-> None]

Init ==
    /\ upload = [u \in Upload |-> None] /\ run = [u \in Upload |-> None] /\ ack = [u \in Upload |-> NoPart] /\ task = [u \in Upload |-> None]
    /\ worker = [u \in Upload |-> Idle] /\ flight = {} /\ tag = 0 /\ altered = {} /\ faults = 0
    /\ prov = [u \in Upload |-> [st |-> "none", part |-> NoPart]]
    /\ object \in {None, [by |-> None, con |-> Bad]}
    /\ used = [u \in Upload |-> NoPart]

Active == {u \in Upload : task[u] # None}
At(u, pc) == u \in Active /\ task[u].pc = pc
(* Nothing runs between the two saves that end a run. *)
Free == \A u \in Active : task[u].pc # "saving"
Fault == faults < MaxFault /\ faults' = faults + 1

-----------------------------------------------------------------------------
(* Requests of the user.                                                     *)

(* admit: the run is retained and its task made. *)
Admit(u, op, p) ==
    /\ run' = [run EXCEPT ![u] = [op |-> op, part |-> p, st |-> "queued"]]
    /\ task' = [task EXCEPT ![u] = [pc |-> "queued", st |-> upload'[u].st, pid |-> upload'[u].pid]]
    /\ UNCHANGED <<ack, worker, ext, altered, faults>>

Begin(u, d) ==
    /\ Free /\ upload[u] = None /\ d \notin altered
    /\ upload' = [upload EXCEPT ![u] = [data |-> d, st |-> "creating", pid |-> FALSE]]
    /\ Admit(u, "begin", None)

Operate(u, op, p) ==
    /\ Free /\ upload[u] # None /\ u \notin Active
    /\ op # "begin" /\ (op = "part") = (p # None) /\ upload[u].pid
    /\ upload[u].st \in {"completed", "aborted"} => op \in {"status", "reconcile"}
    /\ upload[u].st = "unknown" => op \in {"status", "reconcile", "abort"}
    /\ UNCHANGED upload /\ Admit(u, op, p)

-----------------------------------------------------------------------------
(* How a run ends.                                                           *)

Unknown(u) == run[u].st \in {"running", "committing"} /\ run[u].op \notin {"status", "reconcile"}

(* The first save; the task keeps what the second will write. *)
End(u, st, up) ==
    /\ run' = [run EXCEPT ![u].st = st]
    /\ task' = [task EXCEPT ![u] = [up EXCEPT !.pc = "saving"]]
    /\ worker' = [worker EXCEPT ![u] = Idle]

Stop(u, why) ==
    End(u, IF Unknown(u) THEN "unknown" ELSE why,
        [task[u] EXCEPT !.st = IF Unknown(u) THEN "unknown" ELSE IF run[u].op = "begin" THEN "aborted" ELSE @])

(* The request of a worker that is stopped may still arrive. *)
Orphan(R) == {[r EXCEPT !.own = FALSE] : r \in R} 
Orphaned(u) == {r \in flight : r.u # u} \cup Orphan({r \in flight : r.u = u})

(* The approval was withdrawn, the time limit passed, the run was cancelled, *)
(* the audit receipt was refused: in any state.                              *)
Break(u, why) ==
    /\ Free /\ u \in Active /\ Fault /\ Stop(u, why)
    /\ flight' = Orphaned(u)
    /\ UNCHANGED <<upload, ack, prov, object, used, tag, altered>>

(* The second save. *)
Saved(u) ==
    /\ At(u, "saving")
    /\ upload' = [upload EXCEPT ![u] = [@ EXCEPT !.st = task[u].st, !.pid = task[u].pid]]
    /\ task' = [task EXCEPT ![u] = None]
    /\ UNCHANGED <<run, ack, worker, ext, altered, faults>>

-----------------------------------------------------------------------------
(* The worker.                                                               *)

Start(u) ==
    /\ Free /\ At(u, "queued")
    /\ run' = [run EXCEPT ![u].st = "running"] /\ task' = [task EXCEPT ![u].pc = "exec"]
    /\ worker' = [worker EXCEPT ![u] = [Idle EXCEPT !.ph = "busy"]]
    /\ UNCHANGED <<upload, ack, ext, altered, faults>>

Phase(u, ph) == Free /\ worker[u].ph = ph
Reached(u, ph) == worker' = [worker EXCEPT ![u].ph = ph]
WorkerFails(u) == Stop(u, "failed") /\ UNCHANGED <<upload, ack, ext, altered, faults>>

(* open_source: the file must be the one the dataset names. *)
Open(u) ==
    /\ Phase(u, "busy") /\ run[u].op \in {"part", "complete"}
    /\ IF upload[u].data \in altered THEN WorkerFails(u)
       ELSE Reached(u, "open") /\ UNCHANGED <<upload, run, ack, task, ext, altered, faults>>

Send(u, con, tags) ==
    /\ Reached(u, "sent")
    /\ flight' = flight \cup {[u |-> u, own |-> TRUE, op |-> run[u].op, part |-> run[u].part, con |-> con, tags |-> tags]}
    /\ UNCHANGED <<upload, run, ack, task, prov, object, used, tag, altered, faults>>

Bytes(u) == IF upload[u].data \in altered THEN Bad ELSE upload[u].data

Request(u) ==
    \/ Phase(u, "busy") /\ run[u].op \in {"begin", "abort"} /\ Send(u, None, NoPart)
    \/ Phase(u, "open") /\ run[u].op = "part" /\ Send(u, Bytes(u), NoPart)

Tags(u) == [p \in Part |-> IF prov[u].part[p] = None THEN None ELSE prov[u].part[p].tag]

(* complete: every listed part is the one its receipt acknowledges, and the  *)
(* source hashes to the dataset.                                             *)
Verified(u) ==
    /\ prov[u].st = "open" /\ \A p \in Part : prov[u].part[p] # None /\ Tags(u)[p] = ack[u][p]
    /\ Bytes(u) # Bad

Complete(u) ==
    /\ Phase(u, "open") /\ run[u].op = "complete"
    /\ IF Verified(u) THEN Send(u, None, Tags(u)) ELSE WorkerFails(u)

(* The controller reads that the worker is committing. *)
Committing(u) ==
    /\ Phase(u, "sent") /\ run[u].st = "running" /\ run' = [run EXCEPT ![u].st = "committing"]
    /\ UNCHANGED <<upload, ack, task, worker, ext, altered, faults>>

-----------------------------------------------------------------------------
(* The object service applies a request, or refuses it.                      *)

Assembled(r) == IF \E d \in Data : \A p \in Part : prov[r.u].part[p].con = d THEN prov[r.u].part[CHOOSE p \in Part : TRUE].con ELSE Bad

\* Mutant: a completion without the create-only precondition.
AcceptsOver(r) ==
    IF r.op = "begin" THEN prov[r.u].st = "none"
    ELSE prov[r.u].st = "open" /\ (r.op = "complete" => r.tags = Tags(r.u))

Accepts(r) ==
    IF r.op = "begin" THEN prov[r.u].st = "none"
    ELSE prov[r.u].st = "open" /\ (r.op = "complete" => r.tags = Tags(r.u) /\ object = None)

Effect(r) ==
    CASE r.op = "begin"    -> /\ prov' = [prov EXCEPT ![r.u].st = "open"] /\ UNCHANGED <<object, used, tag>>
      [] r.op = "part"     -> /\ tag' = tag + 1 /\ UNCHANGED <<object, used>>
                              /\ prov' = [prov EXCEPT ![r.u].part[r.part] = [con |-> r.con, tag |-> tag + 1]]
      [] r.op = "abort"    -> /\ prov' = [prov EXCEPT ![r.u] = [st |-> "gone", part |-> NoPart]] /\ UNCHANGED <<object, used, tag>>
      [] r.op = "complete" -> /\ prov' = [prov EXCEPT ![r.u].st = "published"] /\ used' = [used EXCEPT ![r.u] = r.tags]
                              /\ object' = [by |-> r.u, con |-> Assembled(r)] /\ UNCHANGED tag

Land(r) ==
    /\ Free /\ r \in flight /\ flight' = flight \ {r}
    /\ r.op = "part" => tag < MaxTag
    /\ IF Accepts(r) THEN Effect(r) ELSE UNCHANGED <<prov, object, used, tag>>
    /\ worker' = IF r.own THEN [worker EXCEPT ![r.u] = [ph |-> "done", ok |-> Accepts(r), tag |-> IF r.op = "part" THEN tag + 1 ELSE None]]
                 ELSE worker
    /\ UNCHANGED <<upload, run, ack, task, altered, faults>>

-----------------------------------------------------------------------------
(* Receipts.                                                                 *)

Completed(u, st) == End(u, IF st = "unknown" THEN "unknown" ELSE "completed", [task[u] EXCEPT !.st = st])

(* verified_object: the object is read back and is the dataset's. *)
Matches(u) == IF object = None THEN FALSE ELSE object.con = upload[u].data

Query(u) ==
    /\ Phase(u, "busy")
    /\ \/ run[u].op = "reconcile" /\ IF Matches(u) THEN Completed(u, "completed") ELSE Stop(u, "failed")
       \/ run[u].op = "status" /\ IF prov[u].st = "open" THEN Completed(u, "uploading") ELSE Stop(u, "failed")
    /\ UNCHANGED <<upload, ack, ext, altered, faults>>

(* part_receipts: the newest receipt of each part. *)
Acknowledged(u) == ack' = [ack EXCEPT ![u][run[u].part] = worker[u].tag]

(* The service confirmed the part, and the file read is still the dataset's. *)
Uploaded(u) == run[u].op = "part" /\ worker[u].ok /\ upload[u].data \notin altered

Receipt(u) ==
    /\ Phase(u, "done")
    /\ IF Uploaded(u) THEN Acknowledged(u) ELSE UNCHANGED ack
    /\ CASE run[u].op = "complete" -> Completed(u, IF worker[u].ok /\ Matches(u) THEN "completed" ELSE "unknown")
         [] ~worker[u].ok -> Stop(u, "failed")
         [] run[u].op = "abort" -> Completed(u, "aborted")
         [] run[u].op = "part" -> IF Uploaded(u) THEN Completed(u, "uploading") ELSE Stop(u, "failed")
         [] run[u].op = "begin" -> End(u, "completed", [task[u] EXCEPT !.st = "uploading", !.pid = TRUE])
    /\ UNCHANGED <<upload, ext, altered, faults>>

-----------------------------------------------------------------------------

Alter(d) ==
    /\ Free /\ Fault /\ d \notin altered /\ altered' = altered \cup {d}
    /\ UNCHANGED <<upload, run, ack, task, worker, ext>>

Recovered(u) == run[u] # None /\ run[u].st \notin TERMINAL

(* The controller dies with its workers and comes back: recover. *)
Restart ==
    /\ Fault
    /\ run' = [u \in Upload |-> IF Recovered(u) THEN [run[u] EXCEPT !.st = "unknown"] ELSE run[u]]
    /\ upload' = [u \in Upload |-> IF Recovered(u) THEN [upload[u] EXCEPT !.st = "unknown"] ELSE upload[u]]
    /\ task' = [u \in Upload |-> None] /\ worker' = [u \in Upload |-> Idle] /\ flight' = Orphan(flight)
    /\ UNCHANGED <<ack, prov, object, used, tag, altered>>

Next ==
    \/ \E u \in Upload :
          \/ \E d \in Data : Begin(u, d)
          \/ \E op \in {"part", "complete", "abort", "status", "reconcile"}, p \in Part \cup {None} : Operate(u, op, p)
          \/ \E why \in {"failed", "cancelled"} : Break(u, why)
          \/ Saved(u) \/ Start(u) \/ Open(u) \/ Request(u) \/ Complete(u) \/ Committing(u) \/ Query(u) \/ Receipt(u)
    \/ \E r \in flight : Land(r)
    \/ \E d \in Data : Alter(d)
    \/ Restart

Spec == Init /\ [][Next]_vars

-----------------------------------------------------------------------------

(* Retained uploads, runs, tasks and workers have their states; a task has   *)
(* an unfinished run, but between the two saves that end it.                 *)
TypeOK ==
    /\ \A u \in Upload : upload[u] # None =>
          /\ upload[u].st \in {"creating", "uploading", "unknown", "completed", "aborted"}
          /\ run[u].st \in TERMINAL \cup {"queued", "running", "committing"}
          /\ (u \in Active) = (run[u].st \notin TERMINAL \/ At(u, "saving"))
    /\ \A u \in Upload : worker[u].ph \in {"none", "busy", "open", "sent", "done"} /\ (worker[u].ph # "none") = At(u, "exec")
    /\ tag \in 0 .. MaxTag /\ altered \subseteq Data /\ faults \in 0 .. MaxFault

(* An upload FICC calls completed is in the store: the key holds exactly the *)
(* dataset's bytes (source_objects.run, verified_object).                    *)
CompletedPublished ==
    \A u \in Upload : upload[u] # None => (upload[u].st = "completed" => object # None /\ object.con = upload[u].data)

(* An upload FICC calls aborted has published nothing, holds nothing in the  *)
(* service and has no creation on its way (source_objects.run's except).     *)
AbortedNothing ==
    \A u \in Upload : upload[u] # None => (upload[u].st = "aborted" =>
        prov[u].st \in {"none", "gone"} /\ ~\E r \in flight : r.u = u /\ r.op = "begin")

(* Whatever arrives late, an object an upload published was assembled from   *)
(* the parts whose checksums FICC had acknowledged and holds its dataset     *)
(* (multipart, acknowledged_checksum).                                       *)
PublishedAcknowledged ==
    \A u \in Upload : prov[u].st = "published" => used[u] = ack[u] /\ object = [by |-> u, con |-> upload[u].data]

(* What the key holds is never replaced by an upload (create-only            *)
(* completion).                                                              *)
NeverReplaced == object # None => object' = object
=============================================================================
