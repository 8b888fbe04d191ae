------------------------------- MODULE Sources ------------------------------
(***************************************************************************)
(* Runs over an approved data source: an export streams what a query       *)
(* returns into a partial file, publishes it under a name of its own and   *)
(* registers it as a dataset; a write changes the external source.  A run  *)
(* drives a supervised worker process, can be cancelled, loses its         *)
(* approval, fails or dies with the controller at any point; it is never   *)
(* repeated.                                                               *)
(*                                                                         *)
(* An action is what the event loop does between two awaits, cut where a   *)
(* crash in between would be seen on disk or in the store.                 *)
(***************************************************************************)
EXTENDS Naturals, FiniteSets

CONSTANTS
    Run,       \* runs; a request key belongs to one run
    Name,      \* filenames of the destination folder
    Workers,   \* limits()["workers"]
    MaxRev,    \* bound: changes of the approval
    MaxFault,  \* bound: crashes, cancellations, failures
    None

VARIABLES
    conn,    \* the connection: [on, rev], or None
    query,   \* modes of the registered queries
    run,     \* Run -> [act, name, st, rev, stage, ds], or None
    task,    \* Run -> [pc, why], or None
    worker,  \* Run -> the worker process: none, busy, sent, done
    landed,  \* runs whose write the source applied
    sent,    \* runs whose write left the worker
    partial, \* runs whose partial file exists
    final,   \* Name -> the run whose output has the name, or None
    faults

disk == <<partial, final>>
ext == <<worker, landed, sent>>
vars == <<conn, query, run, task, ext, disk, faults>>

TERMINAL == {"completed", "failed", "cancelled", "unknown"}

Init ==
    /\ conn = None /\ query = {} /\ run = [r \in Run |-> None] /\ task = [r \in Run |-> None]
    /\ worker = [r \in Run |-> "none"] /\ landed = {} /\ sent = {}
    /\ partial = {} /\ final = [n \in Name |-> None] /\ faults = 0

Tasks == {r \in Run : task[r] # None}
At(r, pc) == r \in Tasks /\ task[r].pc = pc
Fault == faults < MaxFault /\ faults' = faults + 1

(* Steps without an await in between: nobody else runs. *)
Sync == {"open", "identify", "rename", "published"}
Free == \A r \in Tasks : task[r].pc \notin Sync
Turn(r, pc) == At(r, pc) /\ (pc \in Sync \/ Free)

Goto(r, pc) == task' = [task EXCEPT ![r].pc = pc]

-----------------------------------------------------------------------------
(* Approval.                                                                 *)

Create ==
    /\ conn = None /\ Free /\ conn' = [on |-> TRUE, rev |-> 1]
    /\ UNCHANGED <<query, run, task, ext, disk, faults>>

Enabled(on) ==
    /\ Free /\ IF conn = None THEN FALSE ELSE conn.rev < MaxRev
    /\ conn' = [on |-> on, rev |-> conn.rev + 1]
    /\ UNCHANGED <<query, run, task, ext, disk, faults>>

Register(mode) ==
    /\ Free /\ (IF conn = None THEN FALSE ELSE conn.on) /\ mode \notin query /\ query' = query \cup {mode}
    /\ UNCHANGED <<conn, run, task, ext, disk, faults>>

(* check: the approval of the submission, still in force. *)
Check(r) == conn.on /\ conn.rev = run[r].rev

-----------------------------------------------------------------------------
(* How a run ends.                                                           *)

\* Mutant: only a write that announced its commit is uncertain.
UncertainAnnounced(r) == run[r].st \in {"committing", "publishing"}

Uncertain(r) == run[r].st \in {"committing", "publishing"} \/ (run[r].act = "write" /\ run[r].st = "running")

Outcome(r, why) == IF why = "done" THEN "completed" ELSE IF Uncertain(r) THEN "unknown" ELSE why

(* Output.close: the partial file goes, unless it has its name or cannot be  *)
(* removed.                                                                  *)
Closed(r, ok) ==
    LET v == run[r].stage
    IN IF v = None THEN None
       ELSE IF ok /\ v.owned THEN [v EXCEPT !.cleanup = "settled"] ELSE v

Settle(r, why, ok) ==
    /\ run' = [run EXCEPT ![r] = [@ EXCEPT !.st = Outcome(r, why), !.stage = Closed(r, ok)]]
    /\ partial' = IF ok /\ run[r].stage # None THEN partial \ {r} ELSE partial
    /\ task' = [task EXCEPT ![r] = None]

End(r, why) ==
    /\ Settle(r, why, TRUE) \/ (r \in partial /\ Settle(r, why, FALSE))
    /\ UNCHANGED <<conn, query, final>>

-----------------------------------------------------------------------------
(* A run.                                                                    *)

(* Sources.submit *)
Submit(r, act, n) ==
    /\ Free /\ run[r] = None /\ (IF conn = None THEN FALSE ELSE conn.on)
    /\ (IF act = "write" THEN "write" ELSE "read") \in query /\ Cardinality(Tasks) < Workers
    /\ r = (CHOOSE x \in Run : run[x] = None)
    /\ run' = [run EXCEPT ![r] = [act |-> act, name |-> n, st |-> "queued", rev |-> conn.rev, stage |-> None, ds |-> FALSE]]
    /\ task' = [task EXCEPT ![r] = [pc |-> "start", why |-> None]]
    /\ UNCHANGED <<conn, query, ext, disk, faults>>

(* The first check; then the audit receipt of a write and the packet are     *)
(* waited for.                                                               *)
Start(r) ==
    /\ Turn(r, "start")
    /\ IF Check(r) THEN Goto(r, "packet") /\ UNCHANGED <<conn, query, run, disk>> ELSE End(r, "failed")
    /\ UNCHANGED <<ext, faults>>

(* The packet is there: an export records where its partial file will be. *)
Packet(r) ==
    /\ Turn(r, "packet")
    /\ IF run[r].act = "write" /\ ~Check(r) THEN End(r, "failed") /\ UNCHANGED worker
       ELSE /\ UNCHANGED <<conn, query, disk>>
            /\ IF run[r].act = "write"
               THEN run' = [run EXCEPT ![r].st = "running"] /\ Goto(r, "exec") /\ worker' = [worker EXCEPT ![r] = "busy"]
               ELSE /\ run' = [run EXCEPT ![r].stage = [id |-> FALSE, owned |-> FALSE, cleanup |-> "pending"]]
                    /\ Goto(r, "open") /\ UNCHANGED worker
    /\ UNCHANGED <<landed, sent, faults>>

(* Output: the file is made, and then its identity retained. *)
Open(r) ==
    /\ Turn(r, "open") /\ partial' = partial \cup {r} /\ Goto(r, "identify")
    /\ UNCHANGED <<conn, query, run, ext, final, faults>>

Identify(r) ==
    /\ Turn(r, "identify")
    /\ run' = [run EXCEPT ![r] = [@ EXCEPT !.st = "running", !.stage = [id |-> TRUE, owned |-> TRUE, cleanup |-> "pending"]]]
    /\ Goto(r, "exec") /\ worker' = [worker EXCEPT ![r] = "busy"]
    /\ UNCHANGED <<conn, query, landed, sent, disk, faults>>

(* The worker sends its change, announces it and learns that it took effect; *)
(* what was sent may take effect after the worker is gone.                   *)
Send(r) ==
    /\ run[r] # None /\ run[r].act = "write" /\ worker[r] = "busy"
    /\ worker' = [worker EXCEPT ![r] = "sent"] /\ sent' = sent \cup {r}
    /\ UNCHANGED <<conn, query, run, task, landed, disk, faults>>

Land(r) ==
    /\ r \in sent \ landed /\ landed' = landed \cup {r}
    /\ worker' = [worker EXCEPT ![r] = IF @ = "sent" THEN "done" ELSE @]
    /\ UNCHANGED <<conn, query, run, task, sent, disk, faults>>

Read(r) ==
    /\ run[r] # None /\ run[r].act = "export" /\ worker[r] = "busy" /\ worker' = [worker EXCEPT ![r] = "done"]
    /\ UNCHANGED <<conn, query, run, task, landed, sent, disk, faults>>

(* receive: the announcement, which the controller may see late. *)
Announced(r) ==
    /\ Turn(r, "exec") /\ run[r].act = "write" /\ worker[r] \in {"sent", "done"} /\ run[r].st = "running" /\ Check(r)
    /\ run' = [run EXCEPT ![r].st = "committing"]
    /\ UNCHANGED <<conn, query, task, ext, disk, faults>>

(* The receipt; the worker ends. *)
Receipt(r) ==
    /\ Turn(r, "exec") /\ worker[r] = "done" /\ Check(r)
    /\ run[r].act = "write" => run[r].st = "committing"
    /\ task' = [task EXCEPT ![r] = [pc |-> "reap", why |-> "receipt"]]
    /\ UNCHANGED <<conn, query, run, ext, disk, faults>>

(* monitor: the approval changed. *)
Revoked(r) ==
    /\ Turn(r, "exec") /\ ~Check(r)
    /\ task' = [task EXCEPT ![r] = [pc |-> "reap", why |-> "failed"]]
    /\ UNCHANGED <<conn, query, run, ext, disk, faults>>

(* The time limit passes. *)
Expire(r) ==
    /\ Turn(r, "exec") /\ task' = [task EXCEPT ![r] = [pc |-> "reap", why |-> "failed"]]
    /\ UNCHANGED <<conn, query, run, ext, disk, faults>>

(* An error, a limit of the stream, or cancellation. *)
Break(r, why) ==
    /\ Turn(r, "exec") /\ Fault /\ task' = [task EXCEPT ![r] = [pc |-> "reap", why |-> why]]
    /\ UNCHANGED <<conn, query, run, ext, disk>>

(* The worker is stopped and waited for, whatever ended the exchange; then   *)
(* the approval is looked at once more.                                      *)
Reap(r) ==
    /\ Turn(r, "reap") /\ worker' = [worker EXCEPT ![r] = "none"]
    /\ IF task[r].why = "receipt" /\ Check(r)
       THEN IF run[r].act = "write" THEN \E why \in {"done", "unknown"} : End(r, why)
            ELSE run' = [run EXCEPT ![r].st = "publishing"] /\ Goto(r, "rename") /\ UNCHANGED <<conn, query, disk>>
       ELSE End(r, IF task[r].why = "receipt" THEN "failed" ELSE task[r].why)
    /\ UNCHANGED <<landed, sent, faults>>

(* Output.publish: never over another file. *)
Rename(r) ==
    /\ Turn(r, "rename")
    /\ \/ final[run[r].name] = None /\ final' = [final EXCEPT ![run[r].name] = r] /\ partial' = partial \ {r} /\ Goto(r, "published")
                      /\ UNCHANGED <<conn, query, run>>
       \/ final[run[r].name] # None /\ End(r, "failed")
    /\ UNCHANGED <<ext, faults>>

(* published_file is saved; the dataset is registered meanwhile. *)
Published(r) ==
    /\ Turn(r, "published") /\ Goto(r, "dataset")
    /\ UNCHANGED <<conn, query, run, ext, disk, faults>>

Register1(r) ==
    /\ Turn(r, "dataset") /\ run' = [run EXCEPT ![r].ds = TRUE] /\ Goto(r, "inspect")
    /\ UNCHANGED <<conn, query, ext, disk, faults>>

Complete(r) ==
    /\ Turn(r, "inspect") /\ End(r, "done") /\ UNCHANGED <<ext, faults>>

(* A failure or a cancellation anywhere else that the run waits. *)
Fail(r, why) ==
    /\ \E pc \in {"packet", "dataset", "inspect"} : Turn(r, pc)
    /\ Fault /\ End(r, why) /\ UNCHANGED ext

(* Cancelled before its first step: the caller of cancel records it. *)
CancelQueued(r) ==
    /\ Turn(r, "start") /\ Fault /\ run' = [run EXCEPT ![r].st = "cancelled"] /\ task' = [task EXCEPT ![r] = None]
    /\ UNCHANGED <<conn, query, ext, disk>>

\* Mutant: what is left of an export is removed by its name.
CleanupAny(r) ==
    /\ Free /\ run[r] # None /\ r \notin Tasks /\ run[r].stage # None /\ run[r].st \in TERMINAL
    /\ run[r].stage.cleanup = "pending"
    /\ partial' = partial \ {r} /\ run' = [run EXCEPT ![r].stage.cleanup = "settled"]
    /\ final' = [final EXCEPT ![run[r].name] = IF @ = r THEN None ELSE @]
    /\ UNCHANGED <<conn, query, task, ext, faults>>

(* cancel on a run that ended: its partial file, if it is known to be that   *)
(* file, is removed.                                                         *)
Cleanup(r) ==
    /\ Free /\ run[r] # None /\ r \notin Tasks /\ run[r].stage # None /\ run[r].st \in TERMINAL
    /\ run[r].stage.cleanup = "pending" /\ (r \in partial => run[r].stage.id)
    /\ partial' = partial \ {r} /\ run' = [run EXCEPT ![r].stage.cleanup = "settled"]
    /\ UNCHANGED <<conn, query, task, ext, final, faults>>

(* SourceStore.recover *)
Recovered(v) == IF v = None THEN v ELSE IF v.st \in TERMINAL THEN v ELSE [v EXCEPT !.st = "unknown"]

(* The controller dies and starts again; its workers die with it. *)
Restart ==
    /\ Fault /\ Tasks # {} /\ run' = [r \in Run |-> Recovered(run[r])]
    /\ task' = [r \in Run |-> None] /\ worker' = [r \in Run |-> "none"]
    /\ UNCHANGED <<conn, query, landed, sent, disk>>

Work(r) ==
    \/ Start(r) \/ Packet(r) \/ Open(r) \/ Identify(r) \/ Read(r) \/ Announced(r) \/ Receipt(r) \/ Revoked(r) \/ Expire(r)
    \/ Reap(r) \/ Rename(r) \/ Published(r) \/ Register1(r) \/ Complete(r)

Next ==
    \/ Create \/ Restart
    \/ \E on \in BOOLEAN : Enabled(on)
    \/ \E mode \in {"read", "write"} : Register(mode)
    \/ \E r \in Run :
          \/ Work(r) \/ Send(r) \/ Land(r) \/ CancelQueued(r) \/ Cleanup(r)
          \/ \E why \in {"failed", "cancelled"} : Break(r, why) \/ Fail(r, why)
          \/ \E act \in {"export", "write"}, n \in Name : Submit(r, act, n)

Spec == Init /\ [][Next]_vars

-----------------------------------------------------------------------------
(* The shape of the state; no more runs at work than workers, and a run that *)
(* nobody works on has ended.                                                *)
TypeOK ==
    /\ final \in [Name -> Run \cup {None}] /\ partial \subseteq Run /\ landed \subseteq sent
    /\ Cardinality(Tasks) <= Workers
    /\ \A r \in Run : run[r] # None =>
          /\ run[r].st \in TERMINAL \cup {"queued", "running", "committing", "publishing"}
          /\ run[r].st \in TERMINAL <=> task[r] = None

(* A run is reported failed or cancelled only if it had no effect and cannot *)
(* have one any more: no write left its worker, no file has a name.          *)
FailedMeansNothing ==
    \A r \in Run : (run[r] # None /\ run[r].st \in {"failed", "cancelled"}) =>
       r \notin sent /\ \A n \in Name : final[n] # r

(* A run is reported completed only if its write took effect, or its file is *)
(* there under its name and registered.                                      *)
CompletedMeansAll ==
    \A r \in Run : (run[r] # None /\ run[r].st = "completed") =>
       IF run[r].act = "write" THEN r \in landed ELSE run[r].ds /\ final[run[r].name] = r

(* What has been published stays published, whatever is cleaned up.          *)
PublishedStays == \A n \in Name : final[n] # None => final'[n] = final[n]

(* A partial file that its run has left is still owed a cleanup.             *)
PartialOwed ==
    \A r \in partial : r \notin Tasks => run[r].stage # None /\ run[r].stage.cleanup = "pending"

(* The worker gets on with a run. *)
Advances(r) == Work(r) /\ task' # task

(* Every run ends, though its source may never answer.                       *)
Ended(r) == task[r] = None
=============================================================================
