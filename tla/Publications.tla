----------------------------- MODULE Publications -----------------------------
(***************************************************************************)
(* Publication of a workload's retained output as a file, and optionally   *)
(* as a dataset, against the operations that give the output up: release,  *)
(* abandonment, retry and removal of the workload.  All of them work on    *)
(* one job of one node, whose commands go one at a time under the node's   *)
(* lock; a release runs on at the executor when the controller no longer   *)
(* waits for it.  What the transfer does at the destination is the subject *)
(* of Transfers.                                                           *)
(***************************************************************************)
EXTENDS Naturals, FiniteSets

CONSTANTS
    Pub,       \* publications; a request key belongs to one
    Attempts,  \* bound: attempts of the job
    Chunks,    \* ranges of an output
    GiveUps,   \* bound: releases the controller gives up on
    MaxFault,  \* bound: restarts and failures
    None

VARIABLES
    job,      \* [cur, unknown, gone]: its attempt, whether its state is unknown, removed
    att,      \* attempt -> the controller's row: none, done, released, abandoned
    kept,     \* attempt -> the executor's storage: none, kept, released, or
              \*   releasing: it was handed a release, and may have begun it
    revoked,  \* the node's identity is revoked
    lock,     \* Runner.lock: [by, p, a, ph] of the holder and its command, or None
    req,      \* Pub -> the publish request [st, a]: none, asked, locking, preview;
              \*   its attempt
    item,     \* Pub -> the transfer's item, or None
    task,     \* Pub -> the item's task: none, copy, read, commit, register, created, named
    dataset,  \* publications whose dataset is in the store
    gaveup, faults

node == <<att, kept, revoked>>
vars == <<job, node, lock, req, item, task, dataset, gaveup, faults>>

Attempt == 1 .. Attempts
NoRequest == [st |-> "none", a |-> 0]

Init ==
    /\ job \in [cur : {1}, unknown : BOOLEAN, gone : {FALSE}]
    /\ att = [a \in Attempt |-> IF a = 1 THEN "done" ELSE "none"]
    /\ kept = [a \in Attempt |-> IF a = 1 THEN "kept" ELSE "none"]
    /\ revoked = FALSE /\ lock = None
    /\ req = [p \in Pub |-> NoRequest] /\ item = [p \in Pub |-> None] /\ task = [p \in Pub |-> "none"]
    /\ dataset = {} /\ gaveup = 0 /\ faults = 0

Fault == faults < MaxFault /\ faults' = faults + 1
Items == {p \in Pub : item[p] # None}
Settled(p) == item[p].st \in {"succeeded", "cancelled"}

(* Publications.check: the attempt is current and its output retained. *)
Check(a) == ~job.gone /\ job.cur = a /\ att[a] = "done"

(* require_releasable: pending is a dataset asked for, not made, not skipped. *)
Releasable(removing) ==
    \A p \in Items :
        /\ Settled(p)
        /\ removing /\ item[p].st = "succeeded" => ~item[p].want \/ item[p].ds \/ item[p].skip

-----------------------------------------------------------------------------
(* Commands to the executor, one at a time.                                  *)

Command(by, p, a) == lock = None /\ ~revoked /\ lock' = [by |-> by, p |-> p, a |-> a, ph |-> "sent"]
Holds(by, p, ph) == IF lock = None THEN FALSE ELSE lock.by = by /\ lock.p = p /\ lock.ph = ph

(* The executor answers a read as long as something is there to read; the    *)
(* deletion that is under way may or may not have come to the file.          *)
Serve ==
    /\ IF lock = None THEN FALSE ELSE lock.ph = "sent" /\ lock.by \in {"ask", "read"} /\ ~revoked
    /\ \E ok \in BOOLEAN :
          /\ ok => kept[lock.a] \in {"kept", "releasing"}
          /\ ~ok => kept[lock.a] # "kept"
          /\ lock' = [lock EXCEPT !.ph = IF ok THEN "answered" ELSE "refused"]
    /\ UNCHANGED <<job, node, req, item, task, dataset, gaveup, faults>>

(* The check is made when the contributor takes the command; what it takes   *)
(* it executes in its own time, whoever still waits.                         *)
ServeRelease ==
    /\ Holds("release", None, "sent") /\ ~revoked
    /\ IF Releasable(FALSE) /\ job.cur = lock.a /\ kept[lock.a] = "kept"
       THEN kept' = [kept EXCEPT ![lock.a] = "releasing"] /\ lock' = [lock EXCEPT !.ph = "served"]
       ELSE lock' = None /\ UNCHANGED kept
    /\ UNCHANGED <<job, att, revoked, req, item, task, dataset, gaveup, faults>>

(* The output is deleted; or the executor refuses, or stops before it began. *)
Released(a) ==
    /\ kept[a] = "releasing" /\ \E end \in {"released", "kept"} : kept' = [kept EXCEPT ![a] = end]
    /\ UNCHANGED <<job, att, revoked, lock, req, item, task, dataset, gaveup, faults>>

-----------------------------------------------------------------------------
(* Release, abandonment, retry and removal.                                  *)

release ==
    /\ ~job.gone /\ att[job.cur] = "done" /\ Releasable(FALSE)
    /\ Command("release", None, job.cur)
    /\ UNCHANGED <<job, node, req, item, task, dataset, gaveup, faults>>

(* The reply comes, or the controller stops waiting for it. *)
release_reply ==
    /\ Holds("release", None, "served") /\ kept[lock.a] # "releasing" /\ lock' = None
    /\ att' = [att EXCEPT ![lock.a] = IF kept[lock.a] = "released" THEN "released" ELSE @]
    /\ UNCHANGED <<job, kept, revoked, req, item, task, dataset, gaveup, faults>>

release_timeout ==
    /\ (Holds("release", None, "sent") \/ Holds("release", None, "served")) /\ gaveup < GiveUps
    /\ lock' = None /\ gaveup' = gaveup + 1
    /\ UNCHANGED <<job, node, req, item, task, dataset, faults>>

(* Runner.poll finds in the executor's snapshot that the storage is gone. *)
observe ==
    /\ lock = None /\ ~revoked /\ ~job.gone /\ att[job.cur] = "done" /\ kept[job.cur] = "released"
    /\ att' = [att EXCEPT ![job.cur] = "released"]
    /\ UNCHANGED <<job, kept, revoked, lock, req, item, task, dataset, gaveup, faults>>

(* A retry, and its attempt has come to its end. *)
retry ==
    /\ ~job.gone /\ att[job.cur] = "released" /\ job.cur < Attempts /\ ~revoked
    /\ job' = [job EXCEPT !.cur = @ + 1]
    /\ att' = [att EXCEPT ![job.cur + 1] = "done"] /\ kept' = [kept EXCEPT ![job.cur + 1] = "kept"]
    /\ UNCHANGED <<revoked, lock, req, item, task, dataset, gaveup, faults>>

revoke ==
    /\ ~revoked /\ revoked' = TRUE
    /\ UNCHANGED <<job, att, kept, lock, req, item, task, dataset, gaveup, faults>>

abandon ==
    /\ ~job.gone /\ revoked /\ job.unknown /\ att[job.cur] \notin {"released", "abandoned"} /\ Releasable(FALSE)
    /\ att' = [att EXCEPT ![job.cur] = "abandoned"]
    /\ UNCHANGED <<job, kept, revoked, lock, req, item, task, dataset, gaveup, faults>>

remove ==
    /\ ~job.gone /\ \A a \in Attempt : att[a] \in {"none", "released", "abandoned"}
    /\ Releasable(TRUE)
    /\ job' = [job EXCEPT !.gone = TRUE]
    /\ UNCHANGED <<node, lock, req, item, task, dataset, gaveup, faults>>

-----------------------------------------------------------------------------
(* A publish request.                                                        *)

Idle(p) == req' = [req EXCEPT ![p] = NoRequest]
Keep == UNCHANGED <<job, node, dataset, gaveup>>

(* publish: one request at a time; the attempt is fixed and its output asked *)
(* for its identity.                                                         *)
publish(p) ==
    /\ item[p] = None /\ \A q \in Pub : req[q] = NoRequest
    /\ Check(job.cur) /\ Command("ask", p, job.cur)
    /\ req' = [req EXCEPT ![p] = [st |-> "asked", a |-> job.cur]]
    /\ Keep /\ UNCHANGED <<item, task, faults>>

publish_asked(p) ==
    /\ req[p].st = "asked" /\ lock' = None /\ Keep /\ UNCHANGED <<item, task, faults>>
    /\ \/ Holds("ask", p, "answered") /\ req' = [req EXCEPT ![p] = IF Check(lock.a) THEN [@ EXCEPT !.st = "locking"] ELSE NoRequest]
       \/ Holds("ask", p, "refused") /\ Idle(p)

(* The node's lock again, and the destination's preview. *)
publish_lock(p) ==
    /\ req[p].st = "locking" /\ lock = None /\ Keep /\ UNCHANGED <<item, task, faults>>
    /\ IF Check(req[p].a)
       THEN req' = [req EXCEPT ![p].st = "preview"] /\ lock' = [by |-> "publish", p |-> p, a |-> req[p].a, ph |-> "held"]
       ELSE Idle(p) /\ UNCHANGED lock

(* transfers.submit.  over is history: a release was with the executor       *)
(* already, and nobody waited for it any more.                               *)
publish_submit(p, want) ==
    /\ req[p].st = "preview" /\ Idle(p) /\ lock' = None /\ Keep /\ UNCHANGED faults
    /\ IF Check(lock.a)
       THEN /\ item' = [item EXCEPT ![p] = [a |-> lock.a, over |-> kept[lock.a] # "kept", want |-> want, st |-> "queued", off |-> 0, sum |-> {}, con |-> {}, ds |-> FALSE, skip |-> FALSE]]
            /\ task' = [task EXCEPT ![p] = "copy"]
       ELSE UNCHANGED <<item, task>>

-----------------------------------------------------------------------------
(* The task: every range is read to hash the output, and again to copy it.   *)

Leave(p, st) == item' = [item EXCEPT ![p].st = st] /\ task' = [task EXCEPT ![p] = "none"]

(* read: wait while the node is busy. *)
read(p) ==
    /\ task[p] = "copy" /\ item[p].off < 2 * Chunks /\ lock = None
    /\ IF Check(item[p].a) /\ ~revoked
       THEN Command("read", p, job.cur) /\ task' = [task EXCEPT ![p] = "read"] /\ item' = [item EXCEPT ![p].st = "running"]
       ELSE Leave(p, "interrupted") /\ UNCHANGED lock
    /\ Keep /\ UNCHANGED <<req, faults>>

(* What came is of the attempt and the output the publication names. *)
Bound(p) == Check(item[p].a) /\ lock.a = item[p].a

read_reply(p) ==
    /\ task[p] = "read" /\ lock' = None /\ Keep /\ UNCHANGED <<req, faults>>
    /\ \/ Holds("read", p, "answered") /\
          IF Bound(p)
          THEN /\ item' = [item EXCEPT ![p] = IF @.off < Chunks THEN [@ EXCEPT !.off = @ + 1, !.sum = @ \cup {<<item[p].off + 1, lock.a>>}]
                                              ELSE [@ EXCEPT !.off = @ + 1, !.con = @ \cup {<<item[p].off + 1 - Chunks, lock.a>>}]]
               /\ task' = [task EXCEPT ![p] = "copy"]
          ELSE Leave(p, "interrupted")
       \/ Holds("read", p, "refused") /\ Leave(p, "interrupted")

(* A read is given up: the session is gone or does not answer. *)
lost(p) ==
    /\ \/ Holds("ask", p, "sent") /\ Idle(p) /\ UNCHANGED <<item, task>>
       \/ Holds("read", p, "sent") /\ Leave(p, "interrupted") /\ UNCHANGED req
    /\ Fault /\ lock' = None /\ Keep

(* The destination verifies the digest and gives the file its name. *)
commit(p) ==
    /\ task[p] = "copy" /\ item[p].off = 2 * Chunks /\ Keep /\ UNCHANGED <<lock, req, faults>>
    /\ IF Check(item[p].a) /\ item[p].sum = item[p].con
       THEN item' = [item EXCEPT ![p].st = "committing"] /\ task' = [task EXCEPT ![p] = "commit"]
       ELSE Leave(p, "interrupted")

(* The dataset's registration follows at once. *)
Succeeded(p) ==
    /\ item' = [item EXCEPT ![p].st = "succeeded"]
    /\ task' = [task EXCEPT ![p] = IF item[p].want THEN "register" ELSE "none"]

committed(p) ==
    /\ task[p] = "commit"
    /\ \/ Succeeded(p) /\ UNCHANGED faults
       \/ Leave(p, "unknown") /\ Fault
    /\ Keep /\ UNCHANGED <<lock, req>>

(* complete: the dataset is created under a key of its own, and its name     *)
(* retained.                                                                 *)
Register(p) ==
    /\ task[p] = "register" /\ task' = [task EXCEPT ![p] = "created"] /\ dataset' = dataset \cup {p}
    /\ UNCHANGED <<job, node, lock, req, item, gaveup, faults>>

Named(p) ==
    /\ task[p] = "created" /\ task' = [task EXCEPT ![p] = "named"]
    /\ Keep /\ UNCHANGED <<lock, req, item, faults>>

Registered(p) ==
    /\ task[p] = "named" /\ task' = [task EXCEPT ![p] = "none"] /\ item' = [item EXCEPT ![p].ds = TRUE]
    /\ Keep /\ UNCHANGED <<lock, req, faults>>

(* Whatever fails, a name that is there is retained. *)
RegisterFails(p) ==
    /\ task[p] \in {"register", "created", "named"} /\ Fault /\ task' = [task EXCEPT ![p] = "none"]
    /\ item' = [item EXCEPT ![p].ds = task[p] = "named"] /\ Keep /\ UNCHANGED <<lock, req>>

-----------------------------------------------------------------------------
(* change                                                                    *)

Again(p, pc) == task' = [task EXCEPT ![p] = pc] /\ UNCHANGED item

resume(p) ==
    /\ p \in Items /\ task[p] = "none" /\ Keep /\ UNCHANGED <<lock, req, faults>>
    /\ \/ item[p].st = "interrupted" /\ Check(item[p].a) /\ Again(p, "copy")
       \/ item[p].st = "unknown" /\ (Succeeded(p) \/ Leave(p, "interrupted"))
       \/ item[p].st = "succeeded" /\ item[p].want /\ ~item[p].ds /\ ~item[p].skip /\ Again(p, "register")

\* Mutant: a cancelled read keeps the node's lock.
cancelLocked(p) ==
    /\ p \in Items /\ task[p] # "commit" /\ item[p].st \in {"queued", "running", "interrupted"}
    /\ Leave(p, "cancelled") /\ Keep /\ UNCHANGED <<lock, req, faults>>

cancel(p) ==
    /\ p \in Items /\ task[p] # "commit" /\ item[p].st \in {"queued", "running", "interrupted"}
    /\ Leave(p, "cancelled") /\ lock' = IF \E ph \in {"sent", "answered", "refused"} : Holds("read", p, ph) THEN None ELSE lock
    /\ Keep /\ UNCHANGED <<req, faults>>

(* Skip the dataset: the task is cancelled, and retains the name it had.     *)
Skip(p) ==
    /\ p \in Items /\ item[p].st = "succeeded" /\ item[p].want /\ ~item[p].ds /\ ~item[p].skip
    /\ task' = [task EXCEPT ![p] = "none"]
    /\ item' = [item EXCEPT ![p].ds = task[p] = "named", ![p].skip = task[p] # "named"]
    /\ Keep /\ UNCHANGED <<lock, req, faults>>

(* The controller stops; poll settles the items nobody works on. *)
restart ==
    /\ Fault /\ IF Holds("release", None, "served") THEN gaveup < GiveUps /\ gaveup' = gaveup + 1 ELSE UNCHANGED gaveup
    /\ lock' = None /\ req' = [p \in Pub |-> NoRequest] /\ task' = [p \in Pub |-> "none"]
    /\ item' = [p \in Pub |-> IF item[p] = None THEN None
                  ELSE [item[p] EXCEPT !.st = IF @ = "committing" THEN "unknown" ELSE IF @ \in {"queued", "running"} THEN "interrupted" ELSE @]]
    /\ UNCHANGED <<job, node, dataset>>

Next ==
    \/ Serve \/ ServeRelease \/ (\E a \in Attempt : Released(a))
    \/ release \/ release_reply \/ release_timeout \/ observe \/ retry \/ revoke \/ abandon \/ remove \/ restart
    \/ \E p \in Pub :
          \/ publish(p) \/ publish_asked(p) \/ publish_lock(p) \/ (\E want \in BOOLEAN : publish_submit(p, want))
          \/ read(p) \/ read_reply(p) \/ lost(p) \/ commit(p) \/ committed(p)
          \/ Register(p) \/ Named(p) \/ Registered(p) \/ RegisterFails(p)
          \/ resume(p) \/ cancel(p) \/ Skip(p)

Spec == Init /\ [][Next]_vars

-----------------------------------------------------------------------------

(* The lock's holder is the request, the task or the release it was taken    *)
(* for, and only an item in work has a task.                                 *)
TypeOK ==
    /\ job.cur \in Attempt /\ \A a \in Attempt : att[a] \in {"none", "done", "released", "abandoned"}
    /\ \A a \in Attempt : kept[a] \in {"none", "kept", "releasing", "released"}
    /\ lock # None =>
          CASE lock.by = "ask" -> req[lock.p].st = "asked" [] lock.by = "publish" -> req[lock.p].st = "preview"
            [] lock.by = "read" -> task[lock.p] = "read" [] OTHER -> lock.by = "release" /\ lock.p = None
    /\ \A p \in Pub : task[p] # "none" => p \in Items /\
          CASE task[p] \in {"copy", "read"} -> item[p].st \in {"queued", "running", "interrupted"}
            [] task[p] = "commit" -> item[p].st = "committing" [] OTHER -> item[p].st = "succeeded" /\ item[p].want

(* An unfinished or uncertain publication keeps its output: the executor has *)
(* no release of it and the attempt is not given up (publish and release     *)
(* under one lock, require_releasable).  Only a publication that was         *)
(* admitted while the executor still had a release that the controller no    *)
(* longer waited for may lose it.                                            *)
OutputKept ==
    \A p \in Items : ~Settled(p) /\ ~item[p].over => kept[item[p].a] = "kept" /\ att[item[p].a] = "done" /\ ~job.gone

(* A file that was published is the whole output of the attempt it names,    *)
(* however releases, retries and resumptions fall together (check, read).    *)
PublishedWhole == \A p \in Items : item[p].st = "succeeded" => item[p].con = (1 .. Chunks) \X {item[p].a}

(* A workload is removed only when every publication of it has come to its   *)
(* end, the registration of its dataset included (remove).                   *)
RemovedSettled ==
    job.gone => \A p \in Items : Settled(p) /\ (item[p].st = "succeeded" /\ item[p].want => item[p].ds \/ item[p].skip)

(* A publication is never both registered and skipped (complete and change   *)
(* under the item's lock).                                                   *)
RegisteredOrSkipped == \A p \in Items : ~(item[p].ds /\ item[p].skip)
=============================================================================
