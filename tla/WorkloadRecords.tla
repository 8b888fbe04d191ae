--------------------------- MODULE WorkloadRecords ---------------------------
(* The controller's durable workload rows (workloads/records.py): jobs,     *)
(* their attempts, leases, observations and final outcomes.  Each action is *)
(* one transaction under the store lock.  A caller's stale revision is      *)
(* refused, so an accepted call acts on the current row.                    *)
(*                                                                          *)
(* Here the observations are arbitrary: whatever an executor reports, the   *)
(* rows keep their promises.  ContributorWorkloads feeds them from real     *)
(* executors.                                                               *)
EXTENDS Integers, FiniteSets, FiniteSetsExt

CONSTANTS
  Jobs, Attempts, Nodes, None,
  JobOf, GenOf, NodeOf,  \* plan.job_id, plan.generation, plan.node_id
  CpuOf, GpuOf,          \* plan.job.limits
  Capacity,              \* the offered limit of a node
  Details,               \* reason, exit code and byte counts of a result
  Ledgers,               \* executor ledger identities
  MaxLeases              \* bound on a lease's sequence number

ASSUME PlanAssumption ==
  /\ JobOf \in [Attempts -> Jobs] /\ NodeOf \in [Attempts -> Nodes]
  /\ GenOf \in [Attempts -> Nat \ {0}]
  /\ None \notin Attempts

VARIABLES
  job,        \* workload_jobs, "none" before submission, "removed" after removal
  rec,        \* workload_attempts, "none" where there is no row
  disabled,   \* contributor identities that were revoked
  suspended   \* settings 'workloads.suspended'

recordVars == <<job, rec, disabled, suspended>>

TERMINAL == {"succeeded", "failed", "cancelled", "expired"}
Closed   == TERMINAL \cup {"unknown"}
Active   == {"preparing", "prepared", "starting", "running"}
ResultStates == {"prepared", "starting", "running", "released"} \cup Closed
JobStates     == {"none", "queued", "removed"} \cup Active \cup Closed
AttemptStates == {"none", "released", "abandoned"} \cup Active \cup Closed

Results == [state : ResultStates, cleanup_confirmed : BOOLEAN, detail : Details]

ASSUME NoneAssumption == None \notin Results

(* A result that settles the attempt's outcome. *)
Decided(result) ==
  result.state \in TERMINAL \/ (result.state = "unknown" /\ result.cleanup_confirmed)
Valid(result) == result.state = "released" => result.cleanup_confirmed

NoJob == [state |-> "none", current_attempt |-> None, generation |-> 0, cancelled |-> FALSE]
NoRow == [state |-> "none", lease |-> 0, ledger_id |-> None, observed |-> None,
          outcome |-> None, start_requested |-> FALSE]

Init ==
  /\ job = [j \in Jobs |-> NoJob]
  /\ rec = [a \in Attempts |-> NoRow]
  /\ disabled = {} /\ suspended = FALSE

Rows(j)    == {a \in Attempts : JobOf[a] = j /\ rec[a].state # "none"}
Held(n)    == {a \in Attempts : NodeOf[a] = n /\ rec[a].state \notin {"none", "released"}}
IsCurrent(a) == job[JobOf[a]].current_attempt = a
Used(S)    == MapThenSumSet(LAMBDA a : CpuOf[a], S)

-----------------------------------------------------------------------------
submit(j) ==
  /\ job[j].state = "none" /\ ~suspended
  /\ job' = [job EXCEPT ![j].state = "queued"]
  /\ UNCHANGED <<rec, disabled, suspended>>

(* reserve: the next generation of a queued job, within the node's offer    *)
(* over every attempt that is not released, abandoned ones included.        *)
reserve(a, ledger) ==
  LET j == JobOf[a] IN
  /\ rec[a].state = "none" /\ job[j].state = "queued" /\ ~job[j].cancelled
  /\ job[j].generation + 1 = GenOf[a]
  /\ Used(Held(NodeOf[a])) + CpuOf[a] <= Capacity
  /\ \A b \in Held(NodeOf[a]) : GpuOf[a] \cap GpuOf[b] = {}
  /\ rec' = [rec EXCEPT ![a] = [NoRow EXCEPT !.state = "preparing", !.lease = 1, !.ledger_id = ledger]]
  /\ job' = [job EXCEPT ![j] = [@ EXCEPT !.state = "preparing", !.current_attempt = a,
                                         !.generation = GenOf[a]]]
  /\ UNCHANGED <<disabled, suspended>>

(* Mutant: a second outcome may differ from the first. *)
FitsAnyOutcome(r, j, result) ==
  /\ r.state \notin {"none", "abandoned", "released"}
  /\ r.state \in TERMINAL => result.state \in {r.state, "released", "unknown"}
  /\ r.start_requested \/ r.state \in {"starting", "running"} => result.state # "prepared"
  /\ result.state = "released" => j.state \in Closed /\ r.outcome # None

(* What observation checks before it applies result to row r of job j. *)
Fits(r, j, result) ==
  /\ r.state \notin {"none", "abandoned", "released"}
  /\ r.state \in TERMINAL => result.state \in {r.state, "released", "unknown"}
  /\ r.start_requested \/ r.state \in {"starting", "running"} => result.state # "prepared"
  /\ Decided(result) /\ r.outcome # None =>
       r.outcome.state = result.state /\ r.outcome.detail = result.detail
  /\ result.state = "released" => j.state \in Closed /\ r.outcome # None

ObservedRow(r, result) ==
  [r EXCEPT !.state = result.state, !.observed = result,
            !.outcome = IF Decided(result) THEN result ELSE @]

(* Mutant: a release shows in the job. *)
ObservedJobAlways(j, result) == [j EXCEPT !.state = result.state]

ObservedJob(j, result) ==
  IF result.state = "released" THEN j ELSE [j EXCEPT !.state = result.state]

observation(a, result) ==
  /\ IsCurrent(a) /\ Fits(rec[a], job[JobOf[a]], result)
  /\ rec' = [rec EXCEPT ![a] = ObservedRow(@, result)]
  /\ job' = [job EXCEPT ![JobOf[a]] = ObservedJob(@, result)]
  /\ UNCHANGED <<disabled, suspended>>

(* transition: dispatch intent and doubt are recorded on row and job. *)
transition(a, expected, state) ==
  /\ rec[a].state = expected /\ IsCurrent(a)
  /\ ~(job[JobOf[a]].cancelled /\ state = "starting")
  /\ rec' = [rec EXCEPT ![a] = [rec[a] EXCEPT !.state = state,
                 !.start_requested = rec[a].start_requested \/ state = "starting"]]
  /\ job' = [job EXCEPT ![JobOf[a]].state = state]
  /\ UNCHANGED <<disabled, suspended>>

renew(a) ==
  /\ rec[a].state \in {"prepared", "starting", "running"}
  /\ IsCurrent(a) /\ ~job[JobOf[a]].cancelled
  /\ rec[a].lease < MaxLeases
  /\ rec' = [rec EXCEPT ![a].lease = @ + 1]
  /\ UNCHANGED <<job, disabled, suspended>>

(* Mutant: a job is shown cancelled before its attempt is. *)
CancelAtOnce(j) ==
  /\ job[j].state \notin {"none", "removed"}
  /\ job' = [job EXCEPT ![j] = [job[j] EXCEPT !.cancelled = TRUE, !.state = "cancelled"]]
  /\ UNCHANGED <<rec, disabled, suspended>>

cancel(j) ==
  /\ job[j].state \notin {"none", "removed"}
  /\ job' = [job EXCEPT ![j] = [job[j] EXCEPT !.cancelled = TRUE,
                 !.state = IF job[j].state = "queued" THEN "cancelled" ELSE job[j].state]]
  /\ UNCHANGED <<rec, disabled, suspended>>

(* Mutants: a retry forgets an attempt that is not released; one that       *)
(* counts anew.                                                             *)
RetryForgets(j, acknowledge_unknown) ==
  /\ job[j].state \in TERMINAL \/ (acknowledge_unknown /\ job[j].state = "unknown")
  /\ job' = [job EXCEPT ![j] = [@ EXCEPT !.state = "queued", !.cancelled = FALSE, !.current_attempt = None]]
  /\ UNCHANGED <<rec, disabled, suspended>>
RetryCountsAnew(j, acknowledge_unknown) ==
  /\ job[j].state \in TERMINAL \/ (acknowledge_unknown /\ job[j].state = "unknown")
  /\ job[j].current_attempt # None => rec[job[j].current_attempt].state = "released"
  /\ job' = [job EXCEPT ![j] = [@ EXCEPT !.state = "queued", !.cancelled = FALSE, !.generation = 0]]
  /\ UNCHANGED <<rec, disabled, suspended>>

retry(j, acknowledge_unknown) ==
  /\ job[j].state \in TERMINAL \/ (acknowledge_unknown /\ job[j].state = "unknown")
  /\ job[j].current_attempt # None => rec[job[j].current_attempt].state = "released"
  /\ job' = [job EXCEPT ![j] = [@ EXCEPT !.state = "queued", !.cancelled = FALSE]]
  /\ UNCHANGED <<rec, disabled, suspended>>

(* abandon: an operator gives up an unresolved attempt of a revoked node. *)
abandon(j) ==
  LET a == job[j].current_attempt IN
  /\ job[j].state = "unknown" /\ a # None
  /\ rec[a].state \notin {"released", "abandoned"} /\ NodeOf[a] \in disabled
  /\ \E detail \in Details :
       rec' = [rec EXCEPT ![a] = [rec[a] EXCEPT !.state = "abandoned",
                 !.outcome = IF rec[a].outcome # None THEN rec[a].outcome
                             ELSE [state |-> "unknown", cleanup_confirmed |-> FALSE, detail |-> detail]]]
  /\ job' = [job EXCEPT ![j].cancelled = TRUE]
  /\ UNCHANGED <<disabled, suspended>>

(* remove: the job's rows are deleted; its identity is never used again. *)
remove(j) ==
  /\ job[j].state \in TERMINAL \/ (job[j].state = "unknown" /\ Rows(j) # {})
  /\ \A a \in Rows(j) : rec[a].state \in {"released", "abandoned"}
  /\ rec' = [a \in Attempts |-> IF JobOf[a] = j THEN NoRow ELSE rec[a]]
  /\ job' = [job EXCEPT ![j] = [NoJob EXCEPT !.state = "removed"]]
  /\ UNCHANGED <<disabled, suspended>>

(* records.suspend after a restore, lifted by the installation owner. *)
suspend ==
  /\ suspended' = TRUE
  /\ job' = [j \in Jobs |-> IF job[j].state \in {"none", "removed"} THEN job[j]
                            ELSE [job[j] EXCEPT !.cancelled = TRUE]]
  /\ UNCHANGED <<rec, disabled>>

resume == suspended /\ suspended' = FALSE /\ UNCHANGED <<job, rec, disabled>>

disable(n) ==
  /\ n \notin disabled /\ disabled' = disabled \cup {n}
  /\ UNCHANGED <<job, rec, suspended>>

Next ==
  \/ \E j \in Jobs : submit(j) \/ cancel(j) \/ abandon(j) \/ remove(j)
                     \/ \E ack \in BOOLEAN : retry(j, ack)
  \/ \E a \in Attempts :
       \/ \E ledger \in Ledgers : reserve(a, ledger)
       \/ \E result \in Results : Valid(result) /\ observation(a, result)
       \/ transition(a, "prepared", "starting")
       \/ \E expected \in Active : transition(a, expected, "unknown")
       \/ renew(a)
  \/ suspend \/ resume \/ \E n \in Nodes : disable(n)

Spec == Init /\ [][Next]_recordVars

-----------------------------------------------------------------------------
JobRows == [state : JobStates, current_attempt : Attempts \cup {None},
            generation : Nat, cancelled : BOOLEAN]
AttemptRows == [state : AttemptStates, lease : Nat, ledger_id : Ledgers \cup {None},
                observed : Results \cup {None}, outcome : Results \cup {None},
                start_requested : BOOLEAN]

(* Every row and flag stays within its type. *)
TypeOK ==
  /\ job \in [Jobs -> JobRows] /\ rec \in [Attempts -> AttemptRows]
  /\ disabled \subseteq Nodes /\ suspended \in BOOLEAN

(* validate_records, which a backup and a restore run: the current attempt  *)
(* is a row of its job with the job's generation, and the generations of a  *)
(* job's rows are distinct and no later than the job's.                     *)
ValidRecords ==
  \A j \in Jobs :
    /\ job[j].current_attempt # None =>
         job[j].current_attempt \in Rows(j) /\ GenOf[job[j].current_attempt] = job[j].generation
    /\ \A a, b \in Rows(j) : GenOf[a] <= job[j].generation /\ (GenOf[a] = GenOf[b] => a = b)

(* An older attempt of a job is always released: no retry, cancellation,    *)
(* late result or abandonment lets a second attempt of a job hold capacity. *)
OlderReleased ==
  \A a \in Attempts : rec[a].state \notin {"none", "released"} => IsCurrent(a)

(* The job shows its attempt: same state while the attempt is unresolved,   *)
(* "unknown" once abandoned, closed or queued again once released.          *)
JobMirrorsAttempt ==
  \A j \in Jobs : LET a == job[j].current_attempt IN a # None =>
    /\ rec[a].state \in Active \cup Closed => job[j].state = rec[a].state
    /\ rec[a].state = "abandoned" => job[j].state = "unknown" /\ job[j].cancelled
    /\ rec[a].state = "released" => job[j].state \in Closed \cup {"queued"}

(* Attempts that hold a node's capacity, abandoned ones included, never     *)
(* share a GPU or exceed the offer: what may still run is never promised    *)
(* again.                                                                   *)
CapacityHeld ==
  \A n \in Nodes :
    LET holding == {a \in Attempts : NodeOf[a] = n /\ rec[a].state \notin {"none", "released"}} IN
    /\ Used(holding) <= Capacity
    /\ \A a, b \in holding : a # b => GpuOf[a] \cap GpuOf[b] = {}

(* Released capacity rests on an observed cleanup and a recorded outcome.   *)
ReleasedKnown ==
  \A a \in Attempts : rec[a].state = "released" =>
     rec[a].observed # None /\ rec[a].observed.cleanup_confirmed /\ rec[a].outcome # None

(* A final outcome never changes, and neither a released nor an abandoned   *)
(* row ever resumes: they can only be deleted with their job.               *)
OutcomeFixed ==
  [][\A a \in Attempts : rec'[a].state # "none" =>
       /\ rec[a].outcome # None => rec'[a].outcome # None
            /\ rec'[a].outcome.state = rec[a].outcome.state /\ rec'[a].outcome.detail = rec[a].outcome.detail
       /\ rec[a].state \in {"released", "abandoned"} => rec'[a] = rec[a]]_recordVars
=============================================================================
