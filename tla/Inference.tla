----------------------------- MODULE Inference ------------------------------
(* Inference services: their records and the replicas (workload jobs) they  *)
(* own, the operator's controls, the poll that reconciles them, health      *)
(* checks, client tokens and the gateway's requests (inference/service.py,  *)
(* attached.py, gateway.py, stream.py, routes.py).  The controller runs on  *)
(* one event loop: between two awaits nothing else happens.                 *)
EXTENDS Naturals, FiniteSets

CONSTANTS
  Services, Attached,   \* the services, and those that use an external endpoint
  Replicas,             \* the replicas of a managed service
  Requests, Tokens,
  None,
  Concurrency,          \* requests one replica takes
  MaxAttempts,          \* bound: attempts of a replica
  Asked,                \* bound: what the operator asks for
  MaxControls,          \* bound: how often
  MaxRestart

InferenceAssumption ==
  /\ Asked \subseteq {"create", "replace", "stop", "drain", "remove", "start"}
  /\ Attached \subseteq Services /\ {Concurrency, MaxAttempts, MaxControls, MaxRestart} \subseteq Nat

VARIABLES
  svc,        \* service -> None or its record
  jobs,       \* service, replica -> its workload job and latest attempt
  ctl,        \* the operator's control that holds the lock, or None
  poll,       \* the records the poll read and has not reconciled yet
  fresh,      \* services whose record was not saved since the poll read it
  rec,        \* the reconciliation under way, or None
  ready,      \* <<service, replica, attempt>> found healthy
  chk,        \* service, replica -> the health check under way, or None
  req,        \* request -> None or its stream
  active,     \* service -> the gateway's count of requests
  loads,      \* service, replica, attempt -> the gateway's count of requests
  scoped,     \* token -> the service it is restricted to in memory, or None
  issued,     \* token -> the service it was issued for, or None
  audited,    \* required auditing is configured
  controls, restarts

store == <<svc, fresh, jobs, issued>>
gateway == <<req, active, loads>>
loop == <<ctl, poll, rec, ready, chk>>
vars == <<store, gateway, loop, scoped, audited, controls, restarts>>

(* Replicas are worked through in their order in the record. *)
First(rs) == CHOOSE r \in rs : TRUE

Slots(s) == IF s \in Attached THEN {} ELSE Replicas
(* again is history: the job was retried by a start that has not saved the  *)
(* service's record.                                                        *)
Queued == [state |-> "queued", cancelled |-> FALSE, att |-> 0, clean |-> FALSE, released |-> TRUE, again |-> FALSE]
SameJob(j, seen) == [j EXCEPT !.again = seen.again] = seen

NewRecord(gen, creds) == [desired |-> "running", state |-> "pending", gen |-> gen, creds |-> creds]

Init ==
  /\ svc = [s \in Services |-> None]
  /\ jobs = [s \in Services |-> [r \in Replicas |-> Queued]]
  /\ ctl = None /\ poll = {} /\ fresh = {} /\ rec = None /\ ready = {}
  /\ chk = [s \in Services |-> [r \in Replicas |-> None]]
  /\ req = [q \in Requests |-> None] /\ active = [s \in Services |-> 0]
  /\ loads = [s \in Services |-> [r \in Replicas |-> [n \in 1..MaxAttempts |-> 0]]]
  /\ scoped = [t \in Tokens |-> None] /\ issued = [t \in Tokens |-> None]
  /\ audited = FALSE /\ controls = 0 /\ restarts = 0

(* The loop is at an await: a control waits for the auditor's admission,    *)
(* the poll sleeps or waits for a release.                                  *)
Idle == IF ctl = None THEN TRUE ELSE ctl.pc = "audit"
Free == Idle /\ (IF rec = None THEN poll = {} ELSE rec.pc = "release")

Released(s) == \A r \in Slots(s) : jobs[s][r].released
Terminal == {"ended", "cancelled"}

-----------------------------------------------------------------------------
(* The operator's controls *)

(* What the poll still holds of a service whose jobs are gone fails. *)
Dropped(s) == poll' = {p \in poll : p.s # s}

Control(action) == action \in Asked /\ Free /\ ctl = None /\ controls < MaxControls /\ controls' = controls + 1

(* create: every replica is submitted with the record.  Required auditing   *)
(* refuses the action's name.                                               *)
create(s) ==
  /\ Control("create") /\ svc[s] = None /\ ~audited
  /\ svc' = [svc EXCEPT ![s] = NewRecord(1, {})] /\ fresh' = fresh \ {s}
  /\ jobs' = [jobs EXCEPT ![s] = [r \in Replicas |-> Queued]]
  /\ UNCHANGED <<issued, gateway, loop, scoped, audited, restarts>>

replace(s) ==
  /\ Control("replace") /\ svc[s] # None /\ svc[s].state = "stopped" /\ ~audited
  /\ \A r \in Slots(s) : jobs[s][r].state \in Terminal /\ jobs[s][r].released
  /\ svc' = [svc EXCEPT ![s] = NewRecord(@.gen + 1, @.creds)] /\ fresh' = fresh \ {s}
  /\ jobs' = [jobs EXCEPT ![s] = [r \in Replicas |-> [Queued EXCEPT !.att = jobs[s][r].att]]]
  /\ Dropped(s) /\ UNCHANGED <<issued, gateway, ctl, rec, ready, chk, scoped, audited, restarts>>

Cancelled(j) == [j EXCEPT !.cancelled = TRUE, !.state = IF @ = "queued" THEN "cancelled" ELSE @]

stop(s) ==
  /\ Control("stop") /\ svc[s] # None
  /\ svc' = [svc EXCEPT ![s].desired = "stopped", ![s].state = "draining"] /\ fresh' = fresh \ {s}
  /\ jobs' = [jobs EXCEPT ![s] = [r \in Replicas |-> IF r \in Slots(s) THEN Cancelled(@[r]) ELSE @[r]]]
  /\ UNCHANGED <<issued, gateway, loop, scoped, audited, restarts>>

drain(s) ==
  /\ Control("drain") /\ svc[s] # None
  /\ svc' = [svc EXCEPT ![s].desired = "draining", ![s].state = "draining"] /\ fresh' = fresh \ {s}
  /\ UNCHANGED <<jobs, issued, gateway, loop, scoped, audited, restarts>>

(* remove: its tokens are revoked with it. *)
remove(s) ==
  /\ Control("remove") /\ svc[s] # None /\ svc[s].state = "stopped"
  /\ \A r \in Slots(s) : jobs[s][r].state \in Terminal /\ jobs[s][r].released
  /\ svc' = [svc EXCEPT ![s] = None] /\ fresh' = fresh \ {s}
  /\ issued' = [t \in Tokens |-> IF t \in svc[s].creds THEN None ELSE issued[t]]
  /\ Dropped(s) /\ UNCHANGED <<jobs, gateway, ctl, rec, ready, chk, scoped, audited, restarts>>

(* start: after every earlier attempt was released, and an unknown outcome  *)
(* acknowledged, each replica is retried; under required auditing each      *)
(* retry waits for the auditor, with the job it read.                       *)
start(s) ==
  /\ Control("start") /\ svc[s] # None /\ svc[s].state = "stopped" /\ Released(s)
  /\ ctl' = [s |-> s, val |-> svc[s], rest |-> Slots(s), r |-> None, job |-> None, pc |-> "next"]
  /\ UNCHANGED <<store, gateway, poll, rec, ready, chk, scoped, audited, restarts>>

retry_read(r) ==
  /\ ctl # None /\ ctl.pc = "next" /\ ctl.rest # {} /\ r = First(ctl.rest)
  /\ ctl' = [ctl EXCEPT !.rest = @ \ {r}, !.r = r, !.job = jobs[ctl.s][r],
                        !.pc = IF audited THEN "audit" ELSE "retry"]
  /\ UNCHANGED <<store, gateway, poll, rec, ready, chk, scoped, audited, controls, restarts>>

retry ==
  /\ ctl # None /\ ctl.pc \in {"audit", "retry"} /\ (ctl.pc = "audit" => Free)
  /\ LET j == jobs[ctl.s][ctl.r] IN
     IF SameJob(j, ctl.job) /\ j.state \in Terminal \cup {"unknown"} /\ j.released
     THEN /\ jobs' = [jobs EXCEPT ![ctl.s][ctl.r] = [@ EXCEPT !.state = "queued", !.cancelled = FALSE, !.again = TRUE]]
          /\ ctl' = [ctl EXCEPT !.pc = "next"]
     ELSE UNCHANGED jobs /\ ctl' = None
  /\ UNCHANGED <<svc, fresh, issued, gateway, poll, rec, ready, chk, scoped, audited, controls, restarts>>

(* The auditor does not admit the retry. *)
retry_refused ==
  /\ ctl # None /\ ctl.pc = "audit" /\ Free /\ ctl' = None
  /\ UNCHANGED <<store, gateway, poll, rec, ready, chk, scoped, audited, controls, restarts>>

(* The record that was read when the control began is changed and saved. *)
started ==
  /\ ctl # None /\ ctl.pc = "next" /\ ctl.rest = {} /\ ctl' = None /\ fresh' = fresh \ {ctl.s}
  /\ svc' = [svc EXCEPT ![ctl.s] = [ctl.val EXCEPT !.desired = "running", !.state = "pending",
                                                  !.gen = @ + 1]]
  /\ jobs' = [jobs EXCEPT ![ctl.s] = [r \in Replicas |-> [@[r] EXCEPT !.again = FALSE]]]
  /\ UNCHANGED <<issued, gateway, poll, rec, ready, chk, scoped, audited, controls, restarts>>

(* token: a credential for one service, entered in its record. *)
token(t, s) ==
  /\ Free /\ svc[s] # None /\ issued[t] = None /\ scoped[t] = None
  /\ svc' = [svc EXCEPT ![s].creds = @ \cup {t}] /\ fresh' = fresh \ {s}
  /\ scoped' = [scoped EXCEPT ![t] = s] /\ issued' = [issued EXCEPT ![t] = s]
  /\ UNCHANGED <<jobs, gateway, loop, audited, controls, restarts>>

-----------------------------------------------------------------------------
(* The replicas' workloads, as the runner advances them *)

Env == Free /\ UNCHANGED <<svc, fresh, issued, gateway, loop, scoped, audited, controls, restarts>>
Job(s, r) == svc[s] # None /\ r \in Slots(s)

launch(s, r) ==
  /\ Env /\ Job(s, r) /\ jobs[s][r].state = "queued" /\ jobs[s][r].att < MaxAttempts
  /\ jobs' = [jobs EXCEPT ![s][r] = [@ EXCEPT !.state = "running", !.att = @ + 1, !.clean = FALSE, !.released = FALSE]]

(* It ends by itself, on cancellation or with an unknown outcome. *)
ends(s, r) ==
  /\ Env /\ Job(s, r) /\ jobs[s][r].state = "running"
  /\ \E st \in {"ended", "unknown"} : jobs' = [jobs EXCEPT ![s][r].state = st]

cleaned(s, r) ==
  /\ Env /\ Job(s, r) /\ jobs[s][r].state \in {"ended", "unknown"} /\ ~jobs[s][r].clean
  /\ jobs' = [jobs EXCEPT ![s][r].clean = TRUE]

-----------------------------------------------------------------------------
(* The poll *)

poll_begin ==
  /\ Free /\ rec = None
  /\ fresh' = {s \in Services : svc[s] # None} /\ poll' = {[s |-> s, val |-> svc[s]] : s \in fresh'}
  /\ UNCHANGED <<svc, jobs, issued, gateway, ctl, rec, ready, chk, scoped, audited, controls, restarts>>

Latest(s) == [r \in Replicas |-> IF r \in Slots(s) THEN jobs[s][r] ELSE None]

Waits(p) == p.val.desired = "draining" /\ active[p.s] > 0 /\ p.s \notin Attached

(* The next of the records read, with its jobs as they are now.  A service  *)
(* that drains waits for its requests; one that was removed has no jobs.    *)
reconcile(p) ==
  /\ Idle /\ rec = None /\ p \in poll /\ poll' = poll \ {p}
  /\ rec' = IF svc[p.s] = None \/ Waits(p) THEN None
            ELSE [s |-> p.s, val |-> p.val, job |-> Latest(p.s), rest |-> Slots(p.s), r |-> None, released |-> TRUE,
                  pc |-> IF p.s \in Attached THEN "attached"
                         ELSE IF p.val.desired = "running" THEN "check" ELSE "stop"]
  /\ UNCHANGED <<store, gateway, ctl, ready, chk, scoped, audited, controls, restarts>>

Attempt(s, r) == <<s, r, jobs[s][r].att>>

Releasable(j) == j.clean /\ ~j.released

(* A stopped service's replicas are cancelled, and released once clean. *)
reconcile_stop(r) ==
  /\ rec # None /\ rec.pc = "stop" /\ rec.rest # {} /\ r = First(rec.rest)
  /\ LET s == rec.s  j == jobs[rec.s][r]  seen == rec.job[r]
         stale == ~seen.cancelled /\ ~SameJob(j, seen) IN
     /\ jobs' = IF stale \/ seen.cancelled THEN jobs ELSE [jobs EXCEPT ![s][r] = Cancelled(j)]
     /\ rec' = IF stale THEN None
               ELSE [rec EXCEPT !.rest = @ \ {r}, !.r = r, !.released = @ /\ j.released,
                                !.pc = IF Releasable(j) THEN "release" ELSE "stop"]
     /\ ready' = IF stale THEN ready ELSE ready \ {<<s, r, seen.att>>}
  /\ UNCHANGED <<svc, fresh, issued, gateway, ctl, poll, chk, scoped, audited, controls, restarts>>

(* The release reaches the executor, or its connection is lost. *)
release ==
  /\ rec # None /\ rec.pc = "release" /\ Idle /\ rec' = [rec EXCEPT !.pc = "stop"]
  /\ jobs' \in {jobs, [jobs EXCEPT ![rec.s][rec.r].released = TRUE]}
  /\ UNCHANGED <<svc, fresh, issued, gateway, ctl, poll, ready, chk, scoped, audited, controls, restarts>>

(* Mutant: the poll writes the record it read, whatever happened since. *)
UntouchedBlind(s) == TRUE

Untouched(s) == s \in fresh /\ svc[s] # None

(* The reconciled record is saved if nobody changed it since it was read. *)
Saved(v) == IF Untouched(rec.s) /\ v # svc[rec.s]
            THEN svc' = [svc EXCEPT ![rec.s] = v] /\ fresh' = fresh \ {rec.s} ELSE UNCHANGED <<svc, fresh>>

StoppedState(released) == IF released THEN "stopped" ELSE "draining"

reconcile_stopped ==
  /\ rec # None /\ rec.pc = "stop" /\ rec.rest = {} /\ rec' = None
  /\ Saved([rec.val EXCEPT !.state = StoppedState(rec.released), !.desired = "stopped"])
  /\ UNCHANGED <<jobs, issued, gateway, ctl, poll, ready, chk, scoped, audited, controls, restarts>>

(* A running service's health checks are collected and begun, ... *)
reconcile_check(r) ==
  /\ rec # None /\ rec.pc = "check" /\ rec.rest # {} /\ r = First(rec.rest)
  /\ LET s == rec.s  c == chk[rec.s][r]  j == jobs[rec.s][r]
         done == c # None /\ c.pc # "run"  bad == c # None /\ c.pc = "bad" IN
     /\ ready' = IF bad \/ j.state # "running" THEN ready \ {Attempt(s, r)} ELSE ready
     /\ \/ chk' = [chk EXCEPT ![s][r] = IF done THEN None ELSE @]
        \/ /\ (c = None \/ done) /\ j.state = "running"
           /\ chk' = [chk EXCEPT ![s][r] = [n |-> j.att, pc |-> "run"]]
  /\ rec' = [rec EXCEPT !.rest = @ \ {r}]
  /\ UNCHANGED <<store, gateway, ctl, poll, scoped, audited, controls, restarts>>

(* The replicas that run, passed their check and are reachable. *)
ready_attempts(s, up) == {r \in Slots(s) \cap up : jobs[s][r].state = "running" /\ Attempt(s, r) \in ready}

State(s, up) ==
  LET n == Cardinality(ready_attempts(s, up))  states == {jobs[s][r].state : r \in Slots(s)} IN
  IF n = Cardinality(Slots(s)) THEN "ready" ELSE IF n > 0 THEN "degraded"
  ELSE IF "unknown" \in states THEN "unknown" ELSE IF states \cap Terminal # {} THEN "failed" ELSE "pending"

(* ... and its state follows from them. *)
reconcile_running ==
  /\ rec # None /\ rec.pc = "check" /\ rec.rest = {} /\ rec' = None
  /\ \E up \in SUBSET Replicas : Saved([rec.val EXCEPT !.state = State(rec.s, up)])
  /\ UNCHANGED <<jobs, issued, gateway, ctl, poll, ready, chk, scoped, audited, controls, restarts>>

(* A health check ends. *)
health(s, r) ==
  /\ Free /\ chk[s][r] # None /\ chk[s][r].pc = "run"
  /\ \/ chk' = [chk EXCEPT ![s][r].pc = "ok"] /\ ready' = ready \cup {<<s, r, chk[s][r].n>>}
     \/ chk' = [chk EXCEPT ![s][r].pc = "bad"] /\ UNCHANGED ready
  /\ UNCHANGED <<store, gateway, ctl, poll, rec, scoped, audited, controls, restarts>>

(* An attached service only has its own check and requests. *)
reconcile_attached ==
  /\ rec # None /\ rec.pc = "attached" /\ rec' = None
  /\ IF rec.val.desired = "running"
     THEN \E st \in {rec.val.state, "ready", "failed"} : Saved([rec.val EXCEPT !.state = st])
     ELSE IF active[rec.s] > 0 THEN Saved([rec.val EXCEPT !.state = "draining"])
     ELSE Saved([rec.val EXCEPT !.state = "stopped", !.desired = "stopped"])
  /\ UNCHANGED <<jobs, issued, gateway, ctl, poll, ready, chk, scoped, audited, controls, restarts>>

-----------------------------------------------------------------------------
(* The gateway *)

Room(s, up) ==
  IF active[s] >= Cardinality(Slots(s)) * Concurrency THEN {}
  ELSE {r \in ready_attempts(s, up) : loads[s][r][jobs[s][r].att] < Concurrency}

Serving(s) == svc[s] # None /\ svc[s].desired = "running" /\ svc[s].state \in {"ready", "degraded"}

invoke(q, s) ==
  /\ Free /\ req[q] = None /\ Serving(s) /\ s \notin Attached
  /\ \E r \in Room(s, Replicas) :
       /\ loads' = [loads EXCEPT ![s][r][jobs[s][r].att] = @ + 1]
       /\ req' = [req EXCEPT ![q] = [s |-> s, r |-> r, n |-> jobs[s][r].att, gen |-> svc[s].gen,
                                     pc |-> "opening", closers |-> 0, closing |-> FALSE]]
  /\ active' = [active EXCEPT ![s] = @ + 1]
  /\ UNCHANGED <<store, loop, scoped, audited, controls, restarts>>

invoke_attached(q, s) ==
  /\ Free /\ req[q] = None /\ Serving(s) /\ s \in Attached /\ active[s] < Concurrency
  /\ req' = [req EXCEPT ![q] = [s |-> s, r |-> None, n |-> 0, gen |-> svc[s].gen,
                                pc |-> "opening", closers |-> 0, closing |-> FALSE]]
  /\ active' = [active EXCEPT ![s] = @ + 1]
  /\ UNCHANGED <<loads, store, loop, scoped, audited, controls, restarts>>

(* One request less in the service's and its replica's counts. *)
Uncount(q) ==
  /\ active' = [active EXCEPT ![req[q].s] = @ - 1]
  /\ loads' = IF req[q].r = None THEN loads ELSE [loads EXCEPT ![req[q].s][req[q].r][req[q].n] = @ - 1]

(* check: before each exchange and chunk. *)
Current(q) == svc[req[q].s] # None /\ svc[req[q].s].gen = req[q].gen /\ svc[req[q].s].desired # "stopped"

opened(q) ==
  /\ Free /\ req[q] # None /\ req[q].pc = "opening" /\ Current(q)
  /\ req' = [req EXCEPT ![q].pc = "streaming"]
  /\ UNCHANGED <<active, loads, store, loop, scoped, audited, controls, restarts>>

(* The endpoint fails, the deadline passes, the check fails or the caller   *)
(* leaves before the response began.                                        *)
open_fails(q) ==
  /\ Free /\ req[q] # None /\ req[q].pc = "opening" /\ req' = [req EXCEPT ![q] = None] /\ Uncount(q)
  /\ UNCHANGED <<store, loop, scoped, audited, controls, restarts>>

FirstCloser(q) == req[q].closers = 0

(* aclose: by the iterator that ends or fails, and by the response's owner. *)
aclose(q) ==
  /\ Free /\ req[q] # None /\ req[q].pc = "streaming" /\ req[q].closers < 2
  /\ req' = [req EXCEPT ![q].closers = @ + 1, ![q].closing = @ \/ FirstCloser(q)]
  /\ UNCHANGED <<active, loads, store, loop, scoped, audited, controls, restarts>>

(* finish: the endpoint's stream is closed and the request no longer        *)
(* counted.                                                                 *)
finish(q) ==
  /\ Free /\ req[q] # None /\ req[q].closing /\ Uncount(q)
  /\ req' = [req EXCEPT ![q].closing = FALSE]
  /\ UNCHANGED <<store, loop, scoped, audited, controls, restarts>>

request_ends(q) ==
  /\ Free /\ req[q] # None /\ req[q].closers = 2 /\ ~req[q].closing /\ req' = [req EXCEPT ![q] = None]
  /\ UNCHANGED <<active, loads, store, loop, scoped, audited, controls, restarts>>

-----------------------------------------------------------------------------
(* The controller restarts; auditing is configured while it is stopped.     *)
restart ==
  /\ restarts < MaxRestart /\ restarts' = restarts + 1 /\ audited' \in BOOLEAN
  /\ ctl' = None /\ poll' = {} /\ rec' = None /\ ready' = {}
  /\ chk' = [s \in Services |-> [r \in Replicas |-> None]]
  /\ req' = [q \in Requests |-> None] /\ active' = [s \in Services |-> 0]
  /\ loads' = [s \in Services |-> [r \in Replicas |-> [n \in 1..MaxAttempts |-> 0]]]
  /\ scoped' = [t \in Tokens |-> IF \E s \in Services : svc[s] # None /\ t \in svc[s].creds
                                 THEN CHOOSE s \in Services : svc[s] # None /\ t \in svc[s].creds ELSE None]
  /\ UNCHANGED <<store, controls>>

Operator == \E s \in Services : create(s) \/ replace(s) \/ stop(s) \/ drain(s) \/ remove(s) \/ start(s)

Retries == (\E r \in Replicas : retry_read(r)) \/ retry \/ retry_refused \/ started

Workloads == \E s \in Services, r \in Replicas : launch(s, r) \/ ends(s, r) \/ cleaned(s, r) \/ health(s, r)

Poll ==
  \/ poll_begin \/ release \/ reconcile_stopped \/ reconcile_running \/ reconcile_attached
  \/ \E p \in poll : reconcile(p)
  \/ \E r \in Replicas : reconcile_stop(r) \/ reconcile_check(r)

Gateway == \E q \in Requests :
  \/ opened(q) \/ open_fails(q) \/ aclose(q) \/ finish(q) \/ request_ends(q)
  \/ \E s \in Services : invoke(q, s) \/ invoke_attached(q, s)

Next == Operator \/ Retries \/ Workloads \/ Poll \/ Gateway \/ restart \/ \E t \in Tokens, s \in Services : token(t, s)
Spec == Init /\ [][Next]_vars

-----------------------------------------------------------------------------
TypeOK ==
  /\ \A s \in Services : svc[s] # None =>
       /\ svc[s].desired \in {"running", "draining", "stopped"} /\ svc[s].creds \subseteq Tokens
       /\ svc[s].state \in {"pending", "ready", "degraded", "unknown", "failed", "draining", "stopped"}
  /\ \A s \in Services, r \in Replicas : jobs[s][r].state \in {"queued", "running", "ended", "unknown", "cancelled"}
  /\ \A s \in Services : active[s] \in 0..Cardinality(Requests)

(* A service that is said to be stopped has released every attempt, except  *)
(* those of replicas that a start has retried without saving the record:    *)
(* it waits for the auditor, was refused, or the controller stopped.        *)
StoppedReleased == \A s \in Services : svc[s] # None /\ svc[s].state = "stopped" =>
  \A r \in Slots(s) : jobs[s][r].released \/ jobs[s][r].again

(* The gateway's counts are the open requests: none is counted twice,       *)
(* forgotten or taken off twice, however the streams end.                   *)
Counted == \A s \in Services :
  active[s] = Cardinality({q \in Requests : req[q] # None /\ req[q].s = s /\ (req[q].closers = 0 \/ req[q].closing)})

(* What is wanted of a service changes only when its operator controls it,  *)
(* or when a drain that is over becomes a stop; in particular the poll      *)
(* neither brings back a service that was removed nor takes back what was   *)
(* decided while it was looking (the revision test of reconcile).           *)
DecisionKept == \A s \in Services :
  LET decided == controls' # controls \/ (ctl # None /\ ctl.s = s /\ ctl' = None) IN
  /\ svc[s] = None /\ svc'[s] # None => decided
  /\ svc[s] # None /\ svc'[s] = None => decided
  /\ svc[s] # None /\ svc'[s] # None /\ svc'[s].desired # svc[s].desired =>
       decided \/ (svc[s].desired = "draining" /\ svc'[s].desired = "stopped")

(* The replica of a service that is to run is cancelled, with nobody having *)
(* asked for it, only by a poll that read the service before it was last    *)
(* controlled: a service started while the poll waits for another one's     *)
(* release loses its replicas (reconcile_managed), and its record stays as  *)
(* the operator left it.                                                    *)
StaleCancels == \A s \in Services : \A r \in Slots(s) :
  ~jobs[s][r].cancelled /\ jobs'[s][r].cancelled /\ svc[s].desired = "running" /\ controls' = controls
    => s \notin fresh /\ rec.val.desired # "running" /\ svc'[s] = svc[s]

(* Drain waits for the requests under way before it stops the replicas.     *)
DrainWaits == \A s \in Services : \A r \in Slots(s) :
  jobs'[s][r].cancelled /\ ~jobs[s][r].cancelled /\ svc[s] # None /\ svc[s].desired = "draining" /\ svc'[s].desired = "draining"
    => active[s] = 0
=============================================================================
