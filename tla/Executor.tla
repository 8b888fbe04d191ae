------------------------------ MODULE Executor ------------------------------
(* The contributor's local executor: the durable attempt ledger             *)
(* (execution/ledger.py), the supervisor's request handlers                 *)
(* (execution/supervisor.py), its worker pool, and the lease monitor        *)
(* (execution/monitor.py), over the service manager's attempt units.        *)
(*                                                                          *)
(* A request the code refuses leaves the ledger as it was and is therefore  *)
(* no step.  The plan of an attempt is immutable (its digest is part of     *)
(* every fence), so it is a constant function of the attempt.               *)
EXTENDS Integers, FiniteSets, FiniteSetsExt

CONSTANTS
  Attempts, Jobs, Slots, Gpus,
  None,            \* the absent value
  JobOf, GenOf,    \* plan.job_id and plan.generation
  CpuOf, GpuOf,    \* plan.job.limits: one summed resource and the devices
  Streamed,        \* attempts whose plan declares streamed inputs
  Limits,          \* resource limits a local offer may set
  Admits,          \* job sets an offer's projects, runtimes, schedule and
                   \* sensitivity may admit
  MaxLease,        \* settings.maximum_lease_seconds
  MaxTime, MaxSeq, MaxRev, MaxBoot,  \* bounds on clocks and counters
  StopTries        \* pending stops that reach the ten-second cleanup bound

VARIABLES
  att,        \* the attempts table: one record per attempt identity
  devices,    \* the devices table: GPU -> holding attempt
  offer,      \* the local owner's offer
  mode,       \* the supervisor process: "down", "recovering", "up" or "stopping"
  todo,       \* attempts left in the loop of Monitor.recover
  pend,       \* Supervisor.pending: one pool operation per attempt
  busy,       \* Supervisor.input_busy
  releasing,  \* Supervisor.releasing
  tries,      \* Supervisor.cleanup_started, counted in pending stops
  proc,       \* the attempt's unit as the operating system has it
  clock       \* wall time, CLOCK_BOOTTIME and the boot identity

vars == <<att, devices, offer, mode, todo, pend, busy, releasing, tries, proc, clock>>
volatile == <<todo, pend, busy, releasing, tries>>

TERMINAL == {"succeeded", "failed", "cancelled", "expired"}
Live     == {"prepared", "starting", "running"}
States   == {"absent", "unknown", "released"} \cup Live \cup TERMINAL
Reasons  == {"cancelled", "expired", "prepare_failed", "unsure"}
Controls == {"active", "draining", "stopped"}   \* "paused" acts as "draining"

(* The unit: launched and waiting at the engine barrier, released to the    *)
(* engine, waiting at the payload barrier, executing the payload, or over.  *)
Alive  == {"ready", "opened", "gated", "executing"}
Exited == {"exit0", "exit1"}
Procs  == {"none", "killed"} \cup Alive \cup Exited
Barriers == {"engine_barrier", "payload_barrier"}
Errors   == {"expired", "cancelled", "failed"}
Ops == {"none", "inputs", "prepare", "start"} \cup Barriers
Pcs == {"none", "queued", "checked", "cleared", "launched", "started",
        "publishing", "published", "done"} \cup Errors
Idle     == [op |-> "none", pc |-> "none"]

Absent == [state |-> "absent", slot |-> None, cleanup_confirmed |-> FALSE,
           lease_sequence |-> 0, lease_expires_at |-> 0, lease_deadline_ns |-> 0,
           lease_boot_id |-> 0, offer_revision |-> 0,
           pending_stop |-> None, prepared_runtime |-> FALSE,
           engine_released |-> FALSE, payload_released |-> FALSE,
           input_progress |-> "none", outcome |-> None]

AttemptRows ==
  [state : States, slot : Slots \cup {None}, cleanup_confirmed : BOOLEAN,
   lease_sequence : 0..MaxSeq, lease_expires_at : Nat,
   lease_deadline_ns : Nat, lease_boot_id : Nat, offer_revision : 0..MaxRev,
   pending_stop : Reasons \cup {None}, prepared_runtime : BOOLEAN,
   engine_released : BOOLEAN, payload_released : BOOLEAN,
   input_progress : {"none", "open", "complete"},
   outcome : TERMINAL \cup {"unknown", None}]
Operations == [op : Ops, pc : Pcs]

(* Plans name a job and devices of this installation; the absent value is   *)
(* nothing else, and every bound leaves room for one step.                  *)
ASSUME PlanAssumption ==
  /\ JobOf \in [Attempts -> Jobs] /\ GpuOf \in [Attempts -> SUBSET Gpus]
  /\ None \notin Attempts \cup Slots \cup Reasons \cup States
ASSUME BoundAssumption ==
  /\ MaxTime \in Nat /\ MaxLease \in Nat /\ StopTries \in Nat
  /\ MaxSeq \in Nat \ {0} /\ MaxRev \in Nat \ {0} /\ MaxBoot \in Nat \ {0}

Init ==
  /\ att = [a \in Attempts |-> Absent]
  /\ devices = [g \in Gpus |-> None]
  /\ offer \in [revision : {1}, control : {"active"}, cpu : Limits, admits : Admits]
  /\ mode = "up" /\ todo = {}
  /\ pend = [a \in Attempts |-> Idle]
  /\ busy = {} /\ releasing = {}
  /\ tries = [a \in Attempts |-> 0]
  /\ proc = [a \in Attempts |-> "none"]
  /\ clock = [wall |-> 0, elapsed |-> 0, boot |-> 1]

-----------------------------------------------------------------------------
(* clock.py, offer.py and the reads of the ledger *)

(* Mutant: only the wall clock ends a lease. *)
ActiveByWall(r) == r.lease_sequence # 0 /\ r.lease_expires_at > clock.wall

(* lease_received_ns <= elapsed holds by itself: CLOCK_BOOTTIME only grows  *)
(* within one boot, and another boot is refused by its identity.            *)
active(r) ==
  /\ r.lease_sequence # 0
  /\ r.lease_boot_id = clock.boot
  /\ r.lease_expires_at > clock.wall
  /\ clock.elapsed < r.lease_deadline_ns

deadline(r, seq, exp) ==
  [r EXCEPT !.lease_sequence = seq, !.lease_expires_at = exp,
            !.lease_boot_id = clock.boot,
            !.lease_deadline_ns = clock.elapsed + (exp - clock.wall)]

InLease(exp) == clock.wall < exp /\ exp <= clock.wall + MaxLease

refused(a, continuing) ==
  \/ offer.control = "stopped"
  \/ ~continuing /\ offer.control # "active"
  \/ JobOf[a] \notin offer.admits
  \/ CpuOf[a] > offer.cpu

retained == {a \in Attempts : att[a].slot # None}
running  == {a \in retained : ~att[a].cleanup_confirmed}
Used(S)  == MapThenSumSet(LAMBDA a : CpuOf[a], S)

(* Mutants: attempts of a job ordered but not exclusive; exclusive but not  *)
(* ordered.                                                                 *)
UnfencedOrderOnly(a) ==
  \A b \in Attempts \ {a} :
     JobOf[b] = JobOf[a] /\ att[b].state # "absent" => GenOf[b] < GenOf[a]
UnfencedReleasedOnly(a) ==
  \A b \in Attempts \ {a} : JobOf[b] = JobOf[a] => att[b].state \in {"absent", "released"}

(* No other attempt of the job is unreleased, and none is as recent. *)
Unfenced(a) ==
  \A b \in Attempts \ {a} :
     JobOf[b] = JobOf[a] /\ att[b].state # "absent"
       => att[b].state = "released" /\ GenOf[b] < GenOf[a]

(* Supervisor.current: what a live check raises, "ok" when it passes. *)
current(a) ==
  IF ~active(att[a]) THEN "expired"
  ELSE IF att[a].pending_stop # None THEN "failed"
  ELSE IF offer.control = "stopped" THEN "cancelled"
  ELSE IF refused(a, TRUE) THEN "failed"
  ELSE "ok"

(* Mutant: the error's class is recorded as the reason. *)
StopReasonRaw(a, error, default) ==
  IF att[a].pending_stop # None THEN att[a].pending_stop ELSE error

(* monitor.stop_reason: a recorded stop wins over the error's own reason. *)
stop_reason(a, error, default) ==
  IF att[a].pending_stop # None THEN att[a].pending_stop
  ELSE IF error = "failed" THEN default
  ELSE error

(* Mutants: cleanup forgets the devices; a kill that reaches the payload only. *)
FreedNothing(a) == devices
KillPayload(p) == IF p = "executing" THEN "killed" ELSE p

Freed(a) == [g \in Gpus |-> IF devices[g] = a THEN None ELSE devices[g]]
Kill(p)  == IF p \in Alive THEN "killed" ELSE p

(* The pool operation queue_preparation leaves in place of p for record r. *)
queue_preparation(a, r, p) ==
  IF r.state # "prepared" \/ r.prepared_runtime \/ r.pending_stop # None \/ p.op # "none"
  THEN p
  ELSE IF a \in Streamed /\ r.input_progress = "none" THEN [op |-> "inputs", pc |-> "queued"]
  ELSE IF a \notin Streamed \/ r.input_progress = "complete" THEN [op |-> "prepare", pc |-> "queued"]
  ELSE p

-----------------------------------------------------------------------------
(* Supervisor.finish: stop the unit, verify the slot, record one outcome.   *)

(* Mutant: the exit code is believed without a released payload. *)
FinishStateEager(a, r, reason, sees, fails) ==
  IF sees THEN IF proc[a] = "exit0" THEN "succeeded" ELSE "failed"
  ELSE IF fails THEN "unknown"
  ELSE IF reason \in {"cancelled", "expired"} THEN reason
  ELSE IF reason = "prepare_failed" THEN "failed"
  ELSE "unknown"

FinishState(a, r, reason, sees, fails) ==
  IF sees /\ r.payload_released THEN IF proc[a] = "exit0" THEN "succeeded" ELSE "failed"
  ELSE IF fails THEN "unknown"
  ELSE IF reason \in {"cancelled", "expired"} THEN reason
  ELSE IF reason = "prepare_failed" THEN "failed"
  ELSE "unknown"

(* The unit is gone and the slot verified.  The provider is asked only for  *)
(* a prepared runtime; a failed answer makes the outcome uncertain.         *)
FinishClean(a, r, reason) ==
  /\ \E sees, fails \in BOOLEAN :
       /\ sees \/ fails => r.prepared_runtime
       /\ sees => proc[a] \in Exited
       /\ r.prepared_runtime /\ proc[a] \in Exited /\ ~fails => sees
       /\ att' = [att EXCEPT ![a] =
            [r EXCEPT !.state = IF r.state = "unknown" THEN "unknown"
                                ELSE FinishState(a, r, reason, sees, fails),
                      !.cleanup_confirmed = TRUE]]
  /\ proc' = [proc EXCEPT ![a] = Kill(@)]
  /\ devices' = Freed(a)
  /\ tries' = [tries EXCEPT ![a] = 0]
  /\ UNCHANGED mode

(* StopPending: processes await reaping.  Within the cleanup bound the stop *)
(* is recorded and tried again; past it the caller's exception propagates.  *)
FinishPending(a, r, reason, fatal) ==
  /\ proc[a] \in Alive \cup Exited
  /\ \/ /\ tries[a] < StopTries
        /\ tries' = [tries EXCEPT ![a] = @ + 1]
        /\ att' = [att EXCEPT ![a] =
             IF r.pending_stop = None /\ r.state # "unknown"
             THEN [r EXCEPT !.pending_stop = reason] ELSE r]
        /\ UNCHANGED mode
     \/ /\ tries[a] >= StopTries
        /\ att' = [att EXCEPT ![a] = r]
        /\ mode' = IF fatal THEN "stopping" ELSE mode
        /\ UNCHANGED tries
  /\ UNCHANGED <<proc, devices>>

(* Stopping or verifying the slot failed: the reservation stays. *)
FinishUnsure(a, r) ==
  /\ att' = [att EXCEPT ![a] = [r EXCEPT !.state = "unknown", !.cleanup_confirmed = FALSE]]
  /\ proc' \in {proc, [proc EXCEPT ![a] = Kill(@)]}
  /\ UNCHANGED <<devices, tries, mode>>

finish(a, r, reason, fatal) ==
  \/ FinishClean(a, r, reason)
  \/ FinishPending(a, r, reason, fatal)
  \/ FinishUnsure(a, r)

-----------------------------------------------------------------------------
(* Request handlers, one service.dispatch item each *)

Admissible(a, rev, exp) ==
  /\ offer.revision = rev
  /\ ~refused(a, FALSE)
  /\ Unfenced(a)
  /\ CpuOf[a] + Used(running) <= offer.cpu
  /\ \A g \in GpuOf[a] : devices[g] = None
  /\ InLease(exp)

(* prepare: reserve and lease in one transaction, then queue the work. *)
Admit(a, rev, exp) ==
  \E s \in Slots \ {att[b].slot : b \in retained} :
    LET r == deadline([Absent EXCEPT !.state = "prepared", !.slot = s,
                                     !.offer_revision = rev], 1, exp)
    IN /\ Admissible(a, rev, exp)
       /\ att' = [att EXCEPT ![a] = r]
       /\ devices' = [g \in Gpus |-> IF g \in GpuOf[a] THEN a ELSE devices[g]]
       /\ pend' = [pend EXCEPT ![a] = queue_preparation(a, r, @)]

(* Ledger.reject: a durable refusal that no later admission can replace. *)
reject(a) ==
  /\ Unfenced(a)
  /\ att' = [att EXCEPT ![a] = [Absent EXCEPT !.state = "failed", !.cleanup_confirmed = TRUE]]
  /\ UNCHANGED <<devices, pend>>

(* Any refusal, an unavailable slot or a failed probe ends in a rejection. *)
prepare(a, rev, exp) ==
  /\ mode = "up" /\ att[a].state = "absent"
  /\ Admit(a, rev, exp) \/ reject(a)
  /\ UNCHANGED <<offer, mode, todo, busy, releasing, tries, proc, clock>>

reject_absent(a) ==
  /\ mode = "up" /\ att[a].state = "absent"
  /\ reject(a)
  /\ UNCHANGED <<offer, mode, todo, busy, releasing, tries, proc, clock>>

renew(a, seq, exp) ==
  /\ mode = "up"
  /\ att[a].state \in Live /\ att[a].pending_stop = None
  /\ active(att[a])
  /\ ~refused(a, TRUE)
  /\ Used(running) <= offer.cpu
  /\ seq > att[a].lease_sequence
  /\ InLease(exp)
  /\ att' = [att EXCEPT ![a] = deadline(@, seq, exp)]
  /\ UNCHANGED <<devices, offer, mode, volatile, proc, clock>>

start(a) ==
  /\ mode = "up"
  /\ att[a].state = "prepared" /\ att[a].prepared_runtime
  /\ active(att[a])
  /\ offer.revision = att[a].offer_revision
  /\ ~refused(a, FALSE)
  /\ att' = [att EXCEPT ![a].state = "starting"]
  /\ pend' = [pend EXCEPT ![a] = [op |-> "start", pc |-> "queued"]]
  /\ UNCHANGED <<devices, offer, mode, todo, busy, releasing, tries, proc, clock>>

(* request_stop: record the reason, and clean up at once unless a pool      *)
(* operation is still in flight.                                            *)
StopWith(a, reason) ==
  LET r == IF att[a].state = "unknown" THEN att[a]
           ELSE [att[a] EXCEPT !.pending_stop = reason]
  IN \/ /\ att[a].state \in Live \/ (att[a].state = "unknown" /\ ~att[a].cleanup_confirmed)
        /\ \/ /\ pend[a].op # "none"
              /\ att' = [att EXCEPT ![a] = r]
              /\ UNCHANGED <<devices, tries, proc, mode>>
           \/ pend[a].op = "none" /\ finish(a, r, reason, FALSE)
     \/ /\ att[a].state \in TERMINAL \cup {"released"}
             \/ (att[a].state = "unknown" /\ att[a].cleanup_confirmed)
        /\ UNCHANGED <<att, devices, tries, proc, mode>>

request_stop(a) ==
  /\ mode = "up" /\ att[a].state # "absent"
  /\ StopWith(a, "cancelled")
  /\ UNCHANGED <<offer, todo, pend, busy, releasing, clock>>

(* set_offer: one transaction replaces the offer and marks what must stop. *)
set_offer(control, cpu, admits) ==
  /\ mode = "up" /\ offer.revision < MaxRev
  /\ offer' = [revision |-> offer.revision + 1, control |-> control, cpu |-> cpu, admits |-> admits]
  /\ att' = [a \in Attempts |->
       IF control = "stopped" /\ att[a].slot # None /\ att[a].state \in Live /\ att[a].pending_stop = None
       THEN [att[a] EXCEPT !.pending_stop = "cancelled"] ELSE att[a]]
  /\ UNCHANGED <<devices, mode, volatile, proc, clock>>

(* release checks under the lock, deletes the storage without it ... *)
release(a) ==
  /\ mode = "up"
  /\ att[a].state \in TERMINAL \cup {"unknown"} /\ att[a].cleanup_confirmed
  /\ pend[a].op = "none" /\ a \notin busy /\ a \notin releasing
  /\ IF att[a].slot = None
     THEN /\ att' = [att EXCEPT ![a].outcome = att[a].state, ![a].state = "released"]
          /\ UNCHANGED releasing
     ELSE releasing' = releasing \cup {a} /\ UNCHANGED att
  /\ UNCHANGED <<devices, offer, mode, todo, pend, busy, tries, proc, clock>>

(* ... and commits only after the slot verified empty, or gives up. *)
ReleaseEnds(a) ==
  /\ mode # "down" /\ a \in releasing
  /\ releasing' = releasing \ {a}
  /\ \/ /\ att' = [att EXCEPT ![a].outcome = att[a].state, ![a].state = "released", ![a].slot = None]
        /\ devices' = Freed(a)
     \/ UNCHANGED <<att, devices>>
  /\ UNCHANGED <<offer, mode, todo, pend, busy, tries, proc, clock>>

(* input_write: the chunk is written with the lock released. *)
input_write(a) ==
  /\ mode = "up" /\ a \in Streamed /\ a \notin busy
  /\ att[a].state = "prepared" /\ att[a].input_progress = "open"
  /\ current(a) = "ok"
  /\ busy' = busy \cup {a}
  /\ UNCHANGED <<att, devices, offer, mode, todo, pend, releasing, tries, proc, clock>>

InputWriteEnds(a) ==
  /\ mode # "down" /\ a \in busy
  /\ busy' = busy \ {a}
  /\ \/ /\ current(a) = "ok" /\ att[a].state = "prepared"
        /\ \E more \in {"open", "complete"} :
             LET r == [att[a] EXCEPT !.input_progress = more]
             IN att' = [att EXCEPT ![a] = r] /\ pend' = [pend EXCEPT ![a] = queue_preparation(a, r, @)]
        /\ UNCHANGED <<devices, tries, proc, mode>>
     \/ /\ StopWith(a, IF att[a].pending_stop # None THEN att[a].pending_stop
                       ELSE IF current(a) = "ok" /\ att[a].state = "prepared" THEN "prepare_failed"
                       ELSE "expired")
        /\ UNCHANGED pend
  /\ UNCHANGED <<offer, todo, releasing, clock>>

-----------------------------------------------------------------------------
(* The worker pool.  Every live check is a step of its own: the lease, the  *)
(* offer and a recorded stop can change between it and what follows.        *)

Step(a, op, from, to) ==
  /\ mode # "down" /\ pend[a] = [op |-> op, pc |-> from]
  /\ pend' = [pend EXCEPT ![a].pc = IF current(a) = "ok" THEN to ELSE current(a)]

initialize(a) ==
  /\ Step(a, "inputs", "queued", "done")
  /\ UNCHANGED <<att, devices, offer, mode, todo, busy, releasing, tries, proc, clock>>

prepare_runtime(a) ==
  /\ Step(a, "prepare", "queued", "checked") \/ Step(a, "prepare", "checked", "done")
  /\ UNCHANGED <<att, devices, offer, mode, todo, busy, releasing, tries, proc, clock>>

(* Supervisor.launch: two checks, the unit is started, a last check. *)
launch(a) ==
  /\ \/ Step(a, "start", "queued", "checked") /\ UNCHANGED proc
     \/ Step(a, "start", "checked", "cleared") /\ UNCHANGED proc
     \/ /\ mode # "down" /\ pend[a] = [op |-> "start", pc |-> "cleared"]
        /\ pend' = [pend EXCEPT ![a].pc = "launched"]
        /\ proc' = [proc EXCEPT ![a] = "ready"]
     \/ Step(a, "start", "launched", "done") /\ UNCHANGED proc
  /\ UNCHANGED <<att, devices, offer, mode, todo, busy, releasing, tries, clock>>

(* Monitor.release: the marker file is published after its own check, and   *)
(* the annotation follows under the lock after another.                     *)
Publish(a) ==
  /\ mode # "down" /\ pend[a].op \in Barriers /\ pend[a].pc = "publishing"
  /\ pend' = [pend EXCEPT ![a].pc = "published"]
  /\ proc' = [proc EXCEPT ![a] =
       IF pend[a].op = "engine_barrier" /\ @ = "ready" THEN "opened"
       ELSE IF pend[a].op = "payload_barrier" /\ @ = "gated" THEN "executing" ELSE @]
  /\ UNCHANGED att

ReleaseBarrier(a) ==
  /\ \/ \E op \in Barriers : Step(a, op, "queued", "checked") /\ UNCHANGED <<att, proc>>
     \/ Step(a, "engine_barrier", "checked", "publishing") /\ UNCHANGED <<att, proc>>
     \/ /\ att[a].state = "starting" /\ Step(a, "payload_barrier", "checked", "started")
        /\ att' = IF current(a) = "ok" THEN [att EXCEPT ![a].state = "running"] ELSE att
        /\ UNCHANGED proc
     \/ Step(a, "payload_barrier", "started", "publishing") /\ UNCHANGED <<att, proc>>
     \/ Publish(a)
     \/ /\ Step(a, "engine_barrier", "published", "done")
        /\ att' = IF current(a) = "ok" THEN [att EXCEPT ![a].engine_released = TRUE] ELSE att
        /\ UNCHANGED proc
     \/ /\ Step(a, "payload_barrier", "published", "done")
        /\ att' = IF current(a) = "ok" THEN [att EXCEPT ![a].payload_released = TRUE] ELSE att
        /\ UNCHANGED proc
  /\ UNCHANGED <<devices, offer, mode, todo, busy, releasing, tries, clock>>

(* A provider or operating-system failure inside a pool operation.  A       *)
(* failed systemd-run may still have started the unit.                      *)
WorkerFails(a) ==
  /\ mode # "down" /\ pend[a].op # "none" /\ pend[a].pc \notin Errors \cup {"done"}
  /\ pend' = [pend EXCEPT ![a].pc = "failed"]
  /\ \/ UNCHANGED proc
     \/ pend[a].pc = "cleared" /\ proc' = [proc EXCEPT ![a] = "ready"]
  /\ UNCHANGED <<att, devices, offer, mode, todo, busy, releasing, tries, clock>>

-----------------------------------------------------------------------------
(* The lease monitor: one iteration of each of tick's two loops *)

DefaultReason(op) == IF op \in {"inputs", "prepare"} THEN "prepare_failed" ELSE "unsure"

harvest(a) ==
  LET op == pend[a].op
      error == IF pend[a].pc = "done" THEN current(a) ELSE pend[a].pc
  IN /\ mode = "up" /\ pend[a].pc \in Errors \cup {"done"}
     /\ \/ /\ error = "ok"
           /\ \E progress \in IF op = "inputs" THEN {"open", "complete"} ELSE {att[a].input_progress} :
                LET r == [att[a] EXCEPT !.prepared_runtime = @ \/ op = "prepare",
                                        !.input_progress = progress]
                IN /\ att' = [att EXCEPT ![a] = r]
                   /\ pend' = [pend EXCEPT ![a] = queue_preparation(a, r, Idle)]
           /\ UNCHANGED <<devices, tries, proc, mode>>
        \/ /\ error # "ok"
           /\ finish(a, att[a], stop_reason(a, error, DefaultReason(op)), TRUE)
           /\ pend' = [pend EXCEPT ![a] = Idle]
     /\ UNCHANGED <<offer, todo, busy, releasing, clock>>

(* A retained uncertain attempt: try its cleanup again, and give up the     *)
(* whole supervisor when the unit still lives.                              *)
TickUnknown(a) ==
  /\ att[a].state = "unknown" /\ att[a].slot # None /\ ~att[a].cleanup_confirmed
  /\ \/ FinishClean(a, att[a], "unsure")
     \/ FinishPending(a, att[a], "unsure", TRUE)
     \/ /\ proc' \in {proc, [proc EXCEPT ![a] = Kill(@)]}
        /\ mode' \in {mode, "stopping"}
        /\ proc'[a] \in Alive /\ tries[a] = 0 => mode' = "stopping"
        /\ UNCHANGED <<att, devices, tries>>
  /\ UNCHANGED pend

(* Authority is lost: record the stop; a launch or barrier in flight stops  *)
(* the supervisor, an idle attempt is finished, preparation is waited for.  *)
TickStop(a) ==
  LET reason == stop_reason(a, current(a), "expired")
      r == [att[a] EXCEPT !.pending_stop = reason]
  IN /\ att[a].state \in Live /\ current(a) # "ok"
     /\ \/ /\ pend[a].op \in Barriers \cup {"start"}
           /\ att' = [att EXCEPT ![a] = r]
           /\ proc' \in {proc, [proc EXCEPT ![a] = Kill(@)]}
           /\ mode' = "stopping"
           /\ UNCHANGED <<devices, tries>>
        \/ /\ pend[a].op \in {"inputs", "prepare"}
           /\ att' = [att EXCEPT ![a] = r]
           /\ UNCHANGED <<devices, tries, proc, mode>>
        \/ pend[a].op = "none" /\ finish(a, r, reason, TRUE)
     /\ UNCHANGED pend

(* Monitor.observe of a started attempt with nothing in flight. *)
observe(a) ==
  /\ att[a].state \in {"starting", "running"} /\ current(a) = "ok" /\ pend[a].op = "none"
  /\ \/ /\ finish(a, att[a], "unsure", TRUE)   \* over, vanished, or a failed probe
        /\ UNCHANGED pend
     \/ /\ \/ proc[a] = "ready" /\ ~att[a].engine_released
              /\ pend' = [pend EXCEPT ![a] = [op |-> "engine_barrier", pc |-> "queued"]]
           \/ proc[a] = "gated" /\ ~att[a].payload_released
              /\ pend' = [pend EXCEPT ![a] = [op |-> "payload_barrier", pc |-> "queued"]]
        /\ UNCHANGED <<att, devices, tries, proc, mode>>

tick(a) ==
  /\ mode = "up"
  /\ TickUnknown(a) \/ TickStop(a) \/ observe(a)
  /\ UNCHANGED <<offer, todo, busy, releasing, clock>>

-----------------------------------------------------------------------------
(* The supervisor process, the administrator and the outside world *)

(* service.serve on a signal: the sockets close and every retained attempt  *)
(* is asked to stop while the pool drains.                                  *)
Shutdown ==
  /\ mode = "up" /\ mode' = "stopping"
  /\ UNCHANGED <<att, devices, offer, volatile, proc, clock>>

StopRetained(a) ==
  /\ mode = "stopping" /\ a \in retained
  /\ StopWith(a, "cancelled")
  /\ UNCHANGED <<offer, todo, pend, busy, releasing, clock>>

(* The process ends: a completed shutdown, the watchdog's SIGKILL, a crash  *)
(* or a power loss (a new boot).  The pool dies with it.                    *)
Crash ==
  /\ mode # "down" /\ mode' = "down"
  /\ pend' = [a \in Attempts |-> Idle]
  /\ busy' = {} /\ releasing' = {} /\ todo' = {}
  /\ tries' = [a \in Attempts |-> 0]
  /\ \/ UNCHANGED <<proc, clock>>
     \/ /\ clock.boot < MaxBoot
        /\ clock' = [clock EXCEPT !.elapsed = 0, !.boot = @ + 1]
        /\ proc' = [a \in Attempts |-> Kill(proc[a])]
  /\ UNCHANGED <<att, devices, offer>>

(* Units are BindsTo the supervisor: the service manager kills them. *)
ReapBound(a) ==
  /\ mode = "down" /\ proc[a] \in Alive
  /\ proc' = [proc EXCEPT ![a] = "killed"]
  /\ UNCHANGED <<att, devices, offer, mode, volatile, clock>>

(* Monitor.recover finishes every unresolved attempt before the sockets     *)
(* open; what only the lost process knew makes its outcome uncertain.       *)
Restart ==
  /\ mode = "down" /\ mode' = "recovering"
  /\ todo' = {a \in retained : att[a].state \notin TERMINAL /\ ~att[a].cleanup_confirmed}
  /\ UNCHANGED <<att, devices, offer, pend, busy, releasing, tries, proc, clock>>

recover(a) ==
  /\ mode = "recovering" /\ a \in todo
  /\ todo' = todo \ {a}
  /\ finish(a, att[a], "unsure", TRUE)
  /\ UNCHANGED <<offer, pend, busy, releasing, clock>>

serve ==
  /\ mode = "recovering" /\ todo = {} /\ mode' = "up"
  /\ UNCHANGED <<att, devices, offer, volatile, proc, clock>>

(* recovery.recover: an administrator confirms an empty remounted slot. *)
recover_storage(a) ==
  /\ mode = "down" /\ att[a].slot # None
  /\ att' = [att EXCEPT ![a].cleanup_confirmed = TRUE,
                        ![a].state = IF @ \in TERMINAL THEN @ ELSE "unknown"]
  /\ proc' = [proc EXCEPT ![a] = Kill(@)]
  /\ devices' = Freed(a)
  /\ UNCHANGED <<offer, mode, volatile, clock>>

(* reconfigure.reconfigure: a new installed offer over a released ledger. *)
reconfigure(cpu, admits) ==
  /\ mode = "down" /\ offer.revision < MaxRev
  /\ \A a \in Attempts : att[a].state \in {"absent", "released"}
  /\ offer' = [revision |-> offer.revision + 1, control |-> "active", cpu |-> cpu, admits |-> admits]
  /\ UNCHANGED <<att, devices, mode, volatile, proc, clock>>

(* The workload: the engine reaches the payload barrier, the payload exits, *)
(* or the unit vanishes.                                                    *)
Workload(a) ==
  /\ \/ proc[a] = "opened" /\ proc' = [proc EXCEPT ![a] = "gated"]
     \/ proc[a] = "executing" /\ \E code \in Exited : proc' = [proc EXCEPT ![a] = code]
     \/ proc[a] \in Alive /\ proc' = [proc EXCEPT ![a] = "killed"]
  /\ UNCHANGED <<att, devices, offer, mode, volatile, clock>>

Advance ==
  /\ clock.elapsed < MaxTime /\ clock.wall < MaxTime
  /\ clock' = [clock EXCEPT !.wall = @ + 1, !.elapsed = @ + 1]
  /\ UNCHANGED <<att, devices, offer, mode, volatile, proc>>

(* Someone sets the wall clock back. *)
SetWall ==
  /\ \E w \in 0..(clock.wall - 1) : clock' = [clock EXCEPT !.wall = w]
  /\ UNCHANGED <<att, devices, offer, mode, volatile, proc>>

(* A schedule window opens or closes: admission changes, the revision not. *)
WindowTurns(admits) ==
  /\ offer' = [offer EXCEPT !.admits = admits]
  /\ UNCHANGED <<att, devices, mode, volatile, proc, clock>>

-----------------------------------------------------------------------------
Handlers(a) ==
  \/ \E rev \in 1..MaxRev, exp \in 1..(MaxTime + MaxLease) : prepare(a, rev, exp)
  \/ reject_absent(a)
  \/ \E seq \in 2..MaxSeq, exp \in 1..(MaxTime + MaxLease) : renew(a, seq, exp)
  \/ start(a) \/ request_stop(a) \/ release(a) \/ input_write(a)

Workers(a) ==
  initialize(a) \/ prepare_runtime(a) \/ launch(a) \/ ReleaseBarrier(a) \/ WorkerFails(a)

Monitor(a) == harvest(a) \/ tick(a)

Owner ==
  \/ \E control \in Controls, cpu \in Limits, admits \in Admits : set_offer(control, cpu, admits)
  \/ \E cpu \in Limits, admits \in Admits : reconfigure(cpu, admits)

Next ==
  \/ \E a \in Attempts : \/ Handlers(a) \/ ReleaseEnds(a) \/ InputWriteEnds(a)
                         \/ Workers(a) \/ Monitor(a) \/ StopRetained(a)
                         \/ ReapBound(a) \/ recover(a) \/ recover_storage(a) \/ Workload(a)
  \/ Owner \/ Shutdown \/ Crash \/ Restart \/ serve \/ Advance \/ SetWall
  \/ \E admits \in Admits : WindowTurns(admits)

Spec == Init /\ [][Next]_vars

-----------------------------------------------------------------------------
(* Every table, in-memory set and process state stays within its type. *)
TypeOK ==
  /\ att \in [Attempts -> AttemptRows]
  /\ devices \in [Gpus -> Attempts \cup {None}]
  /\ offer \in [revision : 1..MaxRev, control : Controls, cpu : Limits, admits : Admits]
  /\ mode \in {"down", "recovering", "up", "stopping"} /\ todo \subseteq Attempts
  /\ pend \in [Attempts -> Operations]
  /\ busy \subseteq Attempts /\ releasing \subseteq Attempts
  /\ tries \in [Attempts -> 0..StopTries]
  /\ proc \in [Attempts -> Procs]
  /\ clock \in [wall : 0..MaxTime, elapsed : 0..MaxTime, boot : 1..MaxBoot]

(* A live unit always belongs to an attempt that holds its slot and all its *)
(* GPUs and whose cleanup is unconfirmed: capacity is handed on only after  *)
(* the workload tree is gone, whatever pool operation was in flight, however *)
(* often a stop was retried, and across restarts and storage recovery.      *)
WorkloadHeld ==
  \A a \in Attempts : proc[a] \in Alive =>
     /\ att[a].slot # None /\ ~att[a].cleanup_confirmed
     /\ \A g \in GpuOf[a] : devices[g] = a

(* No two live units share a job, a slot or a GPU. *)
Exclusive ==
  \A a, b \in Attempts : a # b /\ proc[a] \in Alive /\ proc[b] \in Alive =>
     JobOf[a] # JobOf[b] /\ att[a].slot # att[b].slot /\ GpuOf[a] \cap GpuOf[b] = {}

(* Success is reported only of a payload that passed its barrier under a    *)
(* live check and exited with zero; an attempt sealed by a rejection never  *)
(* had a unit.                                                              *)
HonestOutcome ==
  \A a \in Attempts :
     /\ "succeeded" \in {att[a].state, att[a].outcome} => att[a].payload_released /\ proc[a] = "exit0"
     /\ att[a].lease_sequence = 0 => proc[a] = "none"

(* A GPU row names only an attempt that still holds a slot and whose plan   *)
(* selects the device, so no row outlives its reservation.                  *)
NoStrayDevice ==
  \A g \in Gpus : devices[g] # None =>
     g \in GpuOf[devices[g]] /\ att[devices[g]].slot # None /\ ~att[devices[g]].cleanup_confirmed

(* What supervisor.public shows of an attempt. *)
public(a) ==
  [state |-> att[a].state, cleanup_confirmed |-> att[a].cleanup_confirmed,
   lease_sequence |-> att[a].lease_sequence, lease_expires_at |-> att[a].lease_expires_at,
   ready |-> att[a].prepared_runtime /\ att[a].state = "prepared", outcome |-> att[a].outcome]

Board == INSTANCE ExecutorBoard WITH
  board <- [a \in Attempts |-> public(a)],
  alive <- {a \in Attempts : proc[a] \in Alive},
  spent <- {a \in Attempts : proc[a] # "none"},
  Expiries <- 1..(MaxTime + MaxLease)

(* The executor implements the board the controller relies on. *)
ImplementsBoard == Board!BoardSpec

-----------------------------------------------------------------------------
(* The monitor loop and systemd keep running.  A retried cleanup may fail   *)
(* again and leave no trace, so of an uncertain attempt only the step that  *)
(* gives up the supervisor over a live unit is promised.  The stop job      *)
(* queued when the supervisor ends survives its restart.                    *)
Promised(a) == att[a].state = "unknown" => tries[a] = 0 /\ proc[a] \in Alive

Fairness ==
  /\ \A a \in Attempts : /\ WF_vars(harvest(a)) /\ WF_vars(Promised(a) /\ tick(a))
                         /\ WF_vars(recover(a)) /\ SF_vars(ReapBound(a))
  /\ WF_vars(serve) /\ WF_vars(mode = "stopping" /\ Crash)

FairSpec == Spec /\ Fairness

(* ... and a cleanup that is retried for ever ends at last. *)
LiveSpec == FairSpec /\ \A a \in Attempts : WF_vars(tick(a))

(* A unit whose lease ran out on the boot clock, or in another boot, stops: *)
(* a wall clock set back cannot keep it, nor can a stop that hangs.         *)
ExpiredStops ==
  \A a \in Attempts :
     (proc[a] \in Alive /\ (clock.elapsed >= att[a].lease_deadline_ns \/ clock.boot # att[a].lease_boot_id))
       ~> proc[a] \notin Alive
=============================================================================
