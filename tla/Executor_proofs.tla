--------------------------- MODULE Executor_proofs ---------------------------
(* Proofs about the executor: for every set of attempts, jobs, slots and    *)
(* devices and every bound, what its ledger, its pool, the service          *)
(* manager's units and a restart together keep true, and that it implements *)
(* the board the controller relies on.                                      *)
EXTENDS Executor, TLAPS

-----------------------------------------------------------------------------
(* The inductive invariant *)

(* What a ledger row says of itself: a row that is not over holds its slot, *)
(* a settled one has its cleanup confirmed, and only a released row keeps   *)
(* an outcome apart from its state.                                         *)
RowOK(r) ==
  /\ r.state = "absent" => r = Absent
  /\ r.state \in Live => r.slot # None /\ ~r.cleanup_confirmed
  /\ r.state = "unknown" => r.slot # None
  /\ r.state \in TERMINAL \cup {"released"} => r.cleanup_confirmed
  /\ r.state = "released" => r.slot = None
  /\ r.state # "released" => r.outcome = None
  /\ r.slot # None => r.lease_sequence # 0

(* What the row r of an attempt says of its unit q. *)
UnitOK(r, q) ==
  /\ r.state \in {"absent", "prepared"} => q = "none"
  /\ q \in Alive => r.slot # None /\ ~r.cleanup_confirmed
  /\ r.lease_sequence = 0 => q = "none"
  /\ "succeeded" \in {r.state, r.outcome} => r.payload_released /\ q = "exit0"

(* What a pool operation p in flight says of the row and the unit: nothing  *)
(* is settled under it, and a launch that has not happened finds no unit.   *)
WorkOK(r, p, q) ==
  /\ p.op = "none" => p.pc = "none"
  /\ p.op # "none" => r.state \in Live
  /\ p.pc = "cleared" => p.op = "start"
  /\ p.op = "start" /\ p.pc \in {"queued", "checked", "cleared"} => r.state = "starting" /\ q = "none"

Local(r, p, q) == RowOK(r) /\ UnitOK(r, q) /\ WorkOK(r, p, q)

Locals == \A a \in Attempts : Local(att[a], pend[a], proc[a])

Holds(r) == r.slot # None /\ ~r.cleanup_confirmed

(* The devices table and the rows agree. *)
Devs ==
  /\ \A a \in Attempts : Holds(att[a]) => \A g \in GpuOf[a] : devices[g] = a
  /\ \A g \in Gpus : devices[g] # None => g \in GpuOf[devices[g]] /\ Holds(att[devices[g]])

(* A slot is held once, and a job has one attempt that is not released. *)
Gone == {"absent", "released"}
Apart ==
  \A a, b \in Attempts : a # b =>
    /\ att[a].slot # None => att[a].slot # att[b].slot
    /\ JobOf[a] = JobOf[b] => att[a].state \in Gone \/ att[b].state \in Gone

(* What the supervisor process holds in memory: nothing while it is down or *)
(* recovers, unresolved attempts to recover, and settled ones to release.   *)
Process ==
  /\ mode \in {"down", "recovering"} => busy = {} /\ releasing = {} /\ \A a \in Attempts : pend[a] = Idle
  /\ mode = "recovering" => \A a \in todo : att[a].state \in Live \cup {"unknown"} /\ Holds(att[a])
  /\ \A a \in releasing : att[a].state \in TERMINAL \cup {"unknown"} /\ att[a].cleanup_confirmed

LedgerTypes ==
  /\ att \in [Attempts -> AttemptRows] /\ pend \in [Attempts -> Operations]
  /\ proc \in [Attempts -> Procs] /\ devices \in [Gpus -> Attempts \cup {None}]
Memory ==
  /\ offer \in [revision : 1..MaxRev, control : Controls, cpu : Limits, admits : Admits]
  /\ mode \in {"down", "recovering", "up", "stopping"} /\ todo \subseteq Attempts
  /\ busy \subseteq Attempts /\ releasing \subseteq Attempts
  /\ tries \in [Attempts -> 0..StopTries]
  /\ clock \in [wall : 0..MaxTime, elapsed : 0..MaxTime, boot : 1..MaxBoot]
Ledger == LedgerTypes /\ Locals /\ Devs /\ Apart

Inv == Ledger /\ Memory /\ Process

-----------------------------------------------------------------------------
(* Types of what the handlers write *)

(* An idle pool slot and an absent row are well typed. *)
LEMMA FreshTypes == Idle \in Operations /\ Absent \in AttemptRows
  BY PlanAssumption, BoundAssumption
     DEF Idle, Absent, Operations, AttemptRows, Ops, Pcs, States, Errors, Barriers

(* A step that writes the row, the operation and the unit of one attempt,   *)
(* and keeps or frees its devices, keeps the ledger in order when what it   *)
(* writes is locally in order, its slot is its own or none, and a released  *)
(* attempt does not come back.                                              *)
LEMMA RowStep ==
  ASSUME Ledger, NEW a \in Attempts,
         NEW r \in AttemptRows, NEW p \in Operations, NEW q \in Procs,
         att' = [att EXCEPT ![a] = r],
         pend' = [pend EXCEPT ![a] = p],
         proc' = [proc EXCEPT ![a] = q],
         Local(r, p, q),
         r.slot \in {att[a].slot, None},
         att[a].state \in Gone => r.state \in Gone \/ (r.slot = None /\ Unfenced(a)),
         \/ devices' = devices /\ (Holds(r) <=> Holds(att[a]))
         \/ devices' = Freed(a) /\ ~Holds(r)
  PROVE  Ledger'
<1>1. LedgerTypes
  BY DEF Ledger
<1>2. /\ \A b \in Attempts : att'[b] = IF b = a THEN r ELSE att[b]
      /\ \A b \in Attempts : pend'[b] = IF b = a THEN p ELSE pend[b]
      /\ \A b \in Attempts : proc'[b] = IF b = a THEN q ELSE proc[b]
  BY <1>1 DEF LedgerTypes
<1>3. LedgerTypes'
  BY <1>1 DEF LedgerTypes, Freed
<1>4. Locals'
  BY <1>2 DEF Locals, Ledger
<1>5. Devs'
  <2>1. \A b \in Attempts : GpuOf[b] \subseteq Gpus
    BY PlanAssumption
  <2>2. CASE devices' = devices /\ (Holds(r) <=> Holds(att[a]))
    BY <1>1, <1>2, <2>1, <2>2 DEF Devs, Ledger, LedgerTypes
  <2>3. CASE devices' = Freed(a) /\ ~Holds(r)
    <3>1. \A g \in Gpus : devices'[g] = IF devices[g] = a THEN None ELSE devices[g]
      BY <2>3 DEF Freed
    <3> QED BY <1>1, <1>2, <2>1, <2>3, <3>1 DEF Devs, Ledger, LedgerTypes
  <2> QED BY <2>2, <2>3
<1>6. Apart'
  BY <1>1, <1>2 DEF Apart, Gone, Unfenced, Ledger
<1> QED BY <1>3, <1>4, <1>5, <1>6 DEF Ledger

(* The special case of a step that leaves the devices and the slot alone. *)
LEMMA QuietStep ==
  ASSUME Ledger, NEW a \in Attempts,
         NEW r \in AttemptRows, NEW p \in Operations, NEW q \in Procs,
         att' = [att EXCEPT ![a] = r],
         pend' = [pend EXCEPT ![a] = p],
         proc' = [proc EXCEPT ![a] = q],
         Local(r, p, q), r.slot = att[a].slot, Holds(r) <=> Holds(att[a]),
         att[a].state \in Gone => r.state \in Gone,
         devices' = devices
  PROVE  Ledger'
<1>1. r.slot \in {att[a].slot, None}
  OBVIOUS
<1>2. att[a].state \in Gone => r.state \in Gone \/ (r.slot = None /\ Unfenced(a))
  OBVIOUS
<1>3. \/ devices' = devices /\ (Holds(r) <=> Holds(att[a]))
      \/ devices' = Freed(a) /\ ~Holds(r)
  OBVIOUS
<1> QED BY <1>1, <1>2, <1>3, RowStep

(* Facts about one attempt that every step below starts from. *)
LEMMA Reading ==
  ASSUME Inv, NEW a \in Attempts
  PROVE  /\ att[a] \in AttemptRows /\ pend[a] \in Operations /\ proc[a] \in Procs
         /\ Local(att[a], pend[a], proc[a])
         /\ att = [att EXCEPT ![a] = att[a]] /\ pend = [pend EXCEPT ![a] = pend[a]]
         /\ proc = [proc EXCEPT ![a] = proc[a]]
  BY DEF Inv, Ledger, LedgerTypes, Locals

(* What killing a unit does to its state. *)
LEMMA KillType ==
  ASSUME NEW q \in Procs
  PROVE  /\ Kill(q) \in Procs /\ Kill(q) \notin Alive
         /\ (Kill(q) = "none" <=> q = "none") /\ (q \notin Alive => Kill(q) = q)
  BY DEF Kill, Procs, Alive, Exited

(* A free pool slot is idle. *)
LEMMA FreeSlot ==
  ASSUME Inv, NEW a \in Attempts, pend[a].op = "none"
  PROVE  pend[a] = Idle /\ pend = [pend EXCEPT ![a] = Idle]
<1>1. pend[a].pc = "none" /\ pend[a] \in [op : Ops, pc : Pcs]
  BY Reading DEF Local, WorkOK, Operations
<1>2. pend[a] = Idle
  BY <1>1 DEF Idle
<1> QED BY <1>2, Reading

-----------------------------------------------------------------------------
(* The pool *)

(* A worker's step to the pc its live check yields. *)
LEMMA WorkerPc ==
  ASSUME Inv, NEW a \in Attempts, NEW op \in Ops, NEW from, NEW to \in Pcs, Step(a, op, from, to)
  PROVE  /\ current(a) \in Errors \cup {"ok"}
         /\ \E pc \in Pcs : /\ pc \in {to} \cup Errors
                            /\ pend' = [pend EXCEPT ![a] = [op |-> op, pc |-> pc]]
<1>1. current(a) \in Errors \cup {"ok"}
  BY DEF current, Errors
<1>2. pend \in [Attempts -> Operations]
  BY DEF Inv, Ledger, LedgerTypes
<1> DEFINE pc == IF current(a) = "ok" THEN to ELSE current(a)
<1>3. pc \in Pcs /\ pc \in {to} \cup Errors
  BY <1>1 DEF Pcs
<1>4. pend' = [pend EXCEPT ![a] = [op |-> op, pc |-> pc]]
  <2>1. pend' = [pend EXCEPT ![a].pc = pc] /\ pend[a] = [op |-> op, pc |-> from]
    BY DEF Step
  <2>2. [pend[a] EXCEPT !.pc = pc] = [op |-> op, pc |-> pc]
    BY <2>1
  <2> QED BY <2>1, <2>2
<1> QED BY <1>1, <1>3, <1>4

(* The pool's live checks change only the operation's pc. *)
LEMMA PreparationStep ==
  ASSUME Inv, NEW a \in Attempts, initialize(a) \/ prepare_runtime(a)
  PROVE  Inv'
<1>1. PICK op \in {"inputs", "prepare"}, from \in {"queued", "checked"}, to \in {"checked", "done"} : Step(a, op, from, to)
  BY DEF initialize, prepare_runtime
<1>2. PICK pc \in Pcs : pc \in {to} \cup Errors /\ pend' = [pend EXCEPT ![a] = [op |-> op, pc |-> pc]]
  BY <1>1, WorkerPc DEF Ops, Pcs
<1>3. /\ pend[a].op # "none" /\ mode # "down" /\ mode # "recovering"
  BY <1>1, Reading DEF Step, Inv, Process, Idle
<1>4. Local(att[a], [op |-> op, pc |-> pc], proc[a])
  BY <1>2, <1>3, Reading DEF Local, WorkOK, Errors
<1>5. UNCHANGED <<att, devices, offer, mode, todo, busy, releasing, tries, proc, clock>>
  BY DEF initialize, prepare_runtime
<1>6. Ledger'
  BY <1>2, <1>4, <1>5, Reading, QuietStep DEF Operations, Ops, Inv
<1> QED BY <1>3, <1>5, <1>6 DEF Inv, Memory, Process

(* Starting, confirming and publishing: a unit appears only at the end of   *)
(* the launch, for an attempt that is still starting and has none.          *)
LEMMA LaunchStep ==
  ASSUME Inv, NEW a \in Attempts, launch(a)
  PROVE  Inv'
<1>1. UNCHANGED <<att, devices, offer, mode, todo, busy, releasing, tries, clock>>
  BY DEF launch
<1>2. pend[a].op = "start" /\ mode \notin {"down", "recovering"}
  BY Reading DEF launch, Step, Inv, Process, Idle
<1>3. ASSUME NEW from \in {"queued", "checked", "launched"}, NEW to \in {"checked", "cleared", "done"},
             from = "launched" => to = "done",
             Step(a, "start", from, to), UNCHANGED proc
      PROVE  Ledger'
  <2>1. PICK pc \in Pcs : pc \in {to} \cup Errors /\ pend' = [pend EXCEPT ![a] = [op |-> "start", pc |-> pc]]
    BY <1>3, WorkerPc DEF Ops, Pcs
  <2>2. Local(att[a], [op |-> "start", pc |-> pc], proc[a])
    BY <1>2, <1>3, <2>1, Reading DEF Local, WorkOK, Errors, Step
  <2> QED BY <1>1, <1>3, <2>1, <2>2, Reading, QuietStep DEF Operations, Ops, Inv
<1>4. ASSUME pend[a] = [op |-> "start", pc |-> "cleared"],
             pend' = [pend EXCEPT ![a].pc = "launched"],
             proc' = [proc EXCEPT ![a] = "ready"]
      PROVE  Ledger'
  <2>1. pend' = [pend EXCEPT ![a] = [op |-> "start", pc |-> "launched"]]
    <3>1. [pend[a] EXCEPT !.pc = "launched"] = [op |-> "start", pc |-> "launched"]
      BY <1>4
    <3> QED BY <1>4, <3>1
  <2>2. Local(att[a], [op |-> "start", pc |-> "launched"], "ready")
    BY <1>4, Reading DEF Local, RowOK, UnitOK, WorkOK, Live, Absent, TERMINAL, AttemptRows
  <2>3. "ready" \in Procs /\ [op |-> "start", pc |-> "launched"] \in Operations
    BY DEF Procs, Alive, Operations, Ops, Pcs
  <2> QED BY <1>1, <1>4, <2>1, <2>2, <2>3, Reading, QuietStep DEF Inv
<1>5. Ledger'
  BY <1>3, <1>4 DEF launch
<1> QED BY <1>1, <1>2, <1>5 DEF Inv, Memory, Process

(* A pool operation that fails; a failed launch may have left a unit. *)
LEMMA WorkerFailsStep ==
  ASSUME Inv, NEW a \in Attempts, WorkerFails(a)
  PROVE  Inv'
<1>1. UNCHANGED <<att, devices, offer, mode, todo, busy, releasing, tries, clock>>
  BY DEF WorkerFails
<1>2. pend[a].op # "none" /\ mode \notin {"down", "recovering"}
  BY Reading DEF WorkerFails, Inv, Process, Idle
<1>3. PICK q \in Procs : /\ q = proc[a] \/ (pend[a].pc = "cleared" /\ q = "ready")
                         /\ proc' = [proc EXCEPT ![a] = q]
  BY Reading DEF WorkerFails, Procs, Alive
<1> DEFINE p == [pend[a] EXCEPT !.pc = "failed"]
<1>4. pend' = [pend EXCEPT ![a] = p] /\ p \in Operations /\ p.op = pend[a].op /\ p.pc = "failed"
  BY Reading DEF WorkerFails, Operations, Pcs, Errors
<1>5. Local(att[a], p, q)
  BY <1>2, <1>3, <1>4, Reading DEF Local, RowOK, UnitOK, WorkOK, Live, Absent, TERMINAL, AttemptRows
<1>6. Ledger'
  BY <1>1, <1>3, <1>4, <1>5, Reading, QuietStep DEF Inv
<1> QED BY <1>1, <1>2, <1>6 DEF Inv, Memory, Process

(* The barriers: the state becomes "running" only from "starting", and a    *)
(* published marker only moves a unit that waits for it.                    *)
LEMMA BarrierStep ==
  ASSUME Inv, NEW a \in Attempts, ReleaseBarrier(a)
  PROVE  Inv'
<1>1. UNCHANGED <<devices, offer, mode, todo, busy, releasing, tries, clock>>
  BY DEF ReleaseBarrier
<1>2. pend[a].op \in Barriers /\ mode \notin {"down", "recovering"}
  BY Reading DEF ReleaseBarrier, Publish, Step, Inv, Process, Idle, Barriers
<1>3. ASSUME NEW op \in Barriers, NEW from, NEW to \in Pcs \ {"cleared"}, Step(a, op, from, to)
      PROVE  \E pc \in Pcs \ {"cleared"} : pend' = [pend EXCEPT ![a] = [op |-> op, pc |-> pc]]
  <2>1. op \in Ops /\ to \in Pcs /\ to # "cleared"
    BY DEF Ops
  <2>2. PICK pc \in Pcs : pc \in {to} \cup Errors /\ pend' = [pend EXCEPT ![a] = [op |-> op, pc |-> pc]]
    BY <1>3, <2>1, WorkerPc
  <2>3. pc # "cleared"
    BY <2>1, <2>2 DEF Errors
  <2> QED BY <2>2, <2>3
<1>4. /\ "engine_barrier" \in Barriers /\ "payload_barrier" \in Barriers
      /\ {"checked", "publishing", "started", "published", "done"} \subseteq Pcs \ {"cleared"}
  BY DEF Barriers, Pcs
<1>5. ASSUME NEW op \in Barriers, NEW pc \in Pcs \ {"cleared"}, NEW r \in AttemptRows, NEW q \in Procs,
             pend' = [pend EXCEPT ![a] = [op |-> op, pc |-> pc]],
             att' = [att EXCEPT ![a] = r], proc' = [proc EXCEPT ![a] = q],
             \/ r = att[a]
             \/ r = [att[a] EXCEPT !.engine_released = TRUE]
             \/ r = [att[a] EXCEPT !.payload_released = TRUE]
             \/ r = [att[a] EXCEPT !.state = "running"] /\ att[a].state = "starting",
             q = proc[a] \/ (proc[a] \in Alive /\ q \in Alive)
      PROVE  Ledger'
  <2>1. /\ r.slot = att[a].slot /\ r.cleanup_confirmed = att[a].cleanup_confirmed
        /\ r.lease_sequence = att[a].lease_sequence /\ r.outcome = att[a].outcome
        /\ r.state = att[a].state \/ (r.state = "running" /\ att[a].state = "starting")
        /\ att[a].payload_released => r.payload_released
    BY <1>5, Reading DEF AttemptRows
  <2>2. att[a].state \in Live /\ r.state \in Live
    BY <1>2, <2>1, Reading DEF Local, WorkOK, Barriers, Live
  <2>3. Local(r, [op |-> op, pc |-> pc], q)
    BY <1>2, <1>5, <2>1, <2>2, Reading
       DEF Local, RowOK, UnitOK, WorkOK, Barriers, Live, TERMINAL, Alive, Absent
  <2>4. /\ Holds(r) <=> Holds(att[a])
        /\ att[a].state \in Gone => r.state \in Gone
    BY <2>1, <2>2 DEF Holds, Gone, Live
  <2> QED BY <1>1, <1>5, <2>1, <2>3, <2>4, Reading, QuietStep DEF Operations, Ops, Inv
<1>6. /\ [att[a] EXCEPT !.state = "running"] \in AttemptRows
      /\ [att[a] EXCEPT !.engine_released = TRUE] \in AttemptRows
      /\ [att[a] EXCEPT !.payload_released = TRUE] \in AttemptRows
  BY Reading DEF AttemptRows, States, Live
<1>7. ASSUME NEW op \in Barriers, Step(a, op, "queued", "checked"), UNCHANGED <<att, proc>>
      PROVE  Ledger'
  BY <1>3, <1>4, <1>5, <1>7, Reading
<1>8. ASSUME Step(a, "engine_barrier", "checked", "publishing") \/ Step(a, "payload_barrier", "started", "publishing"),
             UNCHANGED <<att, proc>>
      PROVE  Ledger'
  BY <1>3, <1>4, <1>5, <1>8, Reading
<1>9. ASSUME att[a].state = "starting", Step(a, "payload_barrier", "checked", "started"),
             att' = IF current(a) = "ok" THEN [att EXCEPT ![a].state = "running"] ELSE att, UNCHANGED proc
      PROVE  Ledger'
  <2>1. PICK pc \in Pcs \ {"cleared"} : pend' = [pend EXCEPT ![a] = [op |-> "payload_barrier", pc |-> pc]]
    BY <1>3, <1>4, <1>9
  <2>2. CASE current(a) = "ok"
    BY <1>4, <1>5, <1>6, <1>9, <2>1, <2>2, Reading
  <2>3. CASE current(a) # "ok"
    <3>1. att' = [att EXCEPT ![a] = att[a]] /\ proc' = [proc EXCEPT ![a] = proc[a]]
      BY <1>9, <2>3, Reading
    <3> QED BY <1>4, <1>5, <2>1, <3>1, Reading
  <2> QED BY <2>2, <2>3
<1>10. ASSUME Publish(a) PROVE Ledger'
  <2>1. pend' = [pend EXCEPT ![a] = [op |-> pend[a].op, pc |-> "published"]]
    <3>1. [pend[a] EXCEPT !.pc = "published"] = [op |-> pend[a].op, pc |-> "published"]
      BY Reading DEF Operations
    <3> QED BY <1>10, <3>1 DEF Publish
  <2> DEFINE q == IF pend[a].op = "engine_barrier" /\ proc[a] = "ready" THEN "opened"
                  ELSE IF pend[a].op = "payload_barrier" /\ proc[a] = "gated" THEN "executing" ELSE proc[a]
  <2>2. proc' = [proc EXCEPT ![a] = q] /\ q \in Procs
    BY <1>10, Reading DEF Publish, Procs, Alive
  <2>3. q = proc[a] \/ (proc[a] \in Alive /\ q \in Alive)
    BY DEF Alive
  <2>4. att' = [att EXCEPT ![a] = att[a]]
    BY <1>10, Reading DEF Publish
  <2> HIDE DEF q
  <2> QED BY <1>2, <1>4, <1>5, <2>1, <2>2, <2>3, <2>4, Reading
<1>11. ASSUME Step(a, "engine_barrier", "published", "done"), UNCHANGED proc,
              att' = IF current(a) = "ok" THEN [att EXCEPT ![a].engine_released = TRUE] ELSE att
       PROVE  Ledger'
  <2>1. PICK pc \in Pcs \ {"cleared"} : pend' = [pend EXCEPT ![a] = [op |-> "engine_barrier", pc |-> pc]]
    BY <1>3, <1>4, <1>11
  <2>2. CASE current(a) = "ok"
    BY <1>4, <1>5, <1>6, <1>11, <2>1, <2>2, Reading
  <2>3. CASE current(a) # "ok"
    <3>1. att' = [att EXCEPT ![a] = att[a]] /\ proc' = [proc EXCEPT ![a] = proc[a]]
      BY <1>11, <2>3, Reading
    <3> QED BY <1>4, <1>5, <2>1, <3>1, Reading
  <2> QED BY <2>2, <2>3
<1>12. ASSUME Step(a, "payload_barrier", "published", "done"), UNCHANGED proc,
              att' = IF current(a) = "ok" THEN [att EXCEPT ![a].payload_released = TRUE] ELSE att
       PROVE  Ledger'
  <2>1. PICK pc \in Pcs \ {"cleared"} : pend' = [pend EXCEPT ![a] = [op |-> "payload_barrier", pc |-> pc]]
    BY <1>3, <1>4, <1>12
  <2>2. CASE current(a) = "ok"
    BY <1>4, <1>5, <1>6, <1>12, <2>1, <2>2, Reading
  <2>3. CASE current(a) # "ok"
    <3>1. att' = [att EXCEPT ![a] = att[a]] /\ proc' = [proc EXCEPT ![a] = proc[a]]
      BY <1>12, <2>3, Reading
    <3> QED BY <1>4, <1>5, <2>1, <3>1, Reading
  <2> QED BY <2>2, <2>3
<1>13. Ledger'
  BY <1>7, <1>8, <1>9, <1>10, <1>11, <1>12 DEF ReleaseBarrier
<1>14. \A b \in Attempts : b \in releasing => att'[b] = att[b]
  BY <1>2, Reading DEF ReleaseBarrier, Publish, Inv, Process, Ledger, LedgerTypes, Local, WorkOK, Live, TERMINAL, Barriers
<1> QED BY <1>1, <1>2, <1>13, <1>14 DEF Inv, Memory, Process

-----------------------------------------------------------------------------
(* Supervisor.finish *)

Restopped(r, t) == \E s \in Reasons \cup {None} : r = [t EXCEPT !.pending_stop = s]

(* A recorded stop reason changes nothing else of a row. *)
LEMMA RestoppedRow ==
  ASSUME NEW t \in AttemptRows, NEW r, Restopped(r, t)
  PROVE  /\ r \in AttemptRows
         /\ r.state = t.state /\ r.slot = t.slot /\ r.cleanup_confirmed = t.cleanup_confirmed
         /\ r.lease_sequence = t.lease_sequence /\ r.lease_expires_at = t.lease_expires_at
         /\ r.prepared_runtime = t.prepared_runtime
         /\ r.payload_released = t.payload_released /\ r.outcome = t.outcome
  BY DEF Restopped, AttemptRows

(* Every row is its own restopped row. *)
LEMMA RestoppedSelf ==
  ASSUME NEW t \in AttemptRows
  PROVE  Restopped(t, t)
  BY DEF Restopped, AttemptRows

(* What finish can record of an attempt. *)
LEMMA FinishOutcome ==
  ASSUME NEW a, NEW r, NEW reason, NEW sees \in BOOLEAN, NEW fails \in BOOLEAN
  PROVE  /\ FinishState(a, r, reason, sees, fails) \in TERMINAL \cup {"unknown"}
         /\ FinishState(a, r, reason, sees, fails) = "succeeded" => r.payload_released /\ proc[a] = "exit0"
  BY DEF FinishState, TERMINAL

(* Cleaning up an unresolved attempt with no pool operation left keeps the  *)
(* ledger in order, whichever of its three ways finish ends.                *)
LEMMA FinishStep ==
  ASSUME Inv, NEW a \in Attempts, NEW r, Restopped(r, att[a]), NEW reason \in Reasons, NEW fatal \in BOOLEAN,
         att[a].state \in Live \cup {"unknown"}, ~att[a].cleanup_confirmed,
         pend' = [pend EXCEPT ![a] = Idle], finish(a, r, reason, fatal)
  PROVE  /\ Ledger' /\ tries' \in [Attempts -> 0..StopTries] /\ mode' \in {mode, "stopping"}
         /\ \A b \in Attempts \ {a} : att'[b] = att[b]
<1>0. /\ r \in AttemptRows /\ Restopped(r, att[a]) /\ Idle \in Operations /\ tries \in [Attempts -> 0..StopTries]
      /\ r.state = att[a].state /\ r.slot = att[a].slot /\ r.cleanup_confirmed = att[a].cleanup_confirmed
      /\ r.lease_sequence = att[a].lease_sequence /\ r.outcome = att[a].outcome
      /\ r.payload_released = att[a].payload_released
  BY Reading, RestoppedRow, FreshTypes DEF Inv, Memory
<1>1. /\ r.slot # None /\ r.lease_sequence # 0 /\ r.outcome = None /\ ~r.cleanup_confirmed
      /\ r.state \notin TERMINAL /\ r.state \notin Gone
  BY <1>0, Reading DEF Local, RowOK, Live, TERMINAL, Gone
<1>2. ASSUME NEW q \in Procs, NEW u \in AttemptRows,
             q = proc[a] \/ q = Kill(proc[a]),
             att' = [att EXCEPT ![a] = u], proc' = [proc EXCEPT ![a] = q],
             \/ /\ u.state \in TERMINAL \cup {"unknown"} /\ u.cleanup_confirmed /\ q = Kill(proc[a])
                /\ u.state = "succeeded" => u.payload_released /\ proc[a] = "exit0"
                /\ devices' = Freed(a)
             \/ /\ u.state \in {r.state, "unknown"} /\ ~u.cleanup_confirmed /\ devices' = devices
                /\ u.payload_released = r.payload_released,
             u.slot = r.slot, u.lease_sequence = r.lease_sequence, u.outcome = None
      PROVE  Ledger'
  <2>1. /\ Kill(proc[a]) \in Procs /\ Kill(proc[a]) \notin Alive /\ (Kill(proc[a]) = "none" <=> proc[a] = "none")
        /\ (proc[a] \notin Alive => Kill(proc[a]) = proc[a])
    BY KillType, Reading
  <2>2. u.state \in Live \cup TERMINAL \cup {"unknown"}
    BY <1>0, <1>2
  <2>3. RowOK(u)
    BY <1>1, <1>2, <2>2 DEF RowOK, Live, TERMINAL
  <2>4. UnitOK(u, q)
    BY <1>0, <1>1, <1>2, <2>1, <2>2, Reading, PlanAssumption
       DEF Local, UnitOK, Live, TERMINAL, Alive, States
  <2>5. WorkOK(u, Idle, q)
    BY DEF WorkOK, Idle
  <2>6. Local(u, Idle, q) /\ u.slot \in {att[a].slot, None}
    BY <1>0, <1>2, <2>3, <2>4, <2>5 DEF Local
  <2>7. \/ devices' = devices /\ (Holds(u) <=> Holds(att[a]))
        \/ devices' = Freed(a) /\ ~Holds(u)
    BY <1>0, <1>1, <1>2 DEF Holds
  <2>8. att[a].state \notin Gone
    BY <1>0, <1>1
  <2> QED BY <1>0, <1>2, <2>6, <2>7, <2>8, RowStep DEF Inv
<1>3. CASE FinishClean(a, r, reason)
  <2>1. PICK sees \in BOOLEAN, fails \in BOOLEAN :
          att' = [att EXCEPT ![a] =
            [r EXCEPT !.state = IF r.state = "unknown" THEN "unknown"
                                ELSE FinishState(a, r, reason, sees, fails),
                      !.cleanup_confirmed = TRUE]]
    BY <1>3 DEF FinishClean
  <2> DEFINE st == IF r.state = "unknown" THEN "unknown" ELSE FinishState(a, r, reason, sees, fails)
             u == [r EXCEPT !.state = st, !.cleanup_confirmed = TRUE]
  <2>2. st \in TERMINAL \cup {"unknown"} /\ (st = "succeeded" => r.payload_released /\ proc[a] = "exit0")
    BY FinishOutcome
  <2> HIDE DEF st
  <2>3. u \in AttemptRows /\ u.state = st /\ u.cleanup_confirmed /\ u.slot = r.slot
        /\ u.lease_sequence = r.lease_sequence /\ u.outcome = r.outcome /\ u.payload_released = r.payload_released
    BY <1>0, <2>2 DEF AttemptRows, States
  <2>4. att' = [att EXCEPT ![a] = u]
    BY <2>1 DEF st
  <2> HIDE DEF u
  <2>5. proc' = [proc EXCEPT ![a] = Kill(proc[a])] /\ Kill(proc[a]) \in Procs /\ devices' = Freed(a)
    BY <1>3, KillType, Reading DEF FinishClean
  <2>6. Ledger'
    BY <1>1, <1>2, <2>2, <2>3, <2>4, <2>5
  <2> QED BY <1>0, <1>3, <2>4, <2>6, BoundAssumption DEF FinishClean, Inv, Ledger, LedgerTypes
<1>4. CASE FinishPending(a, r, reason, fatal)
  <2>1. PICK u : Restopped(u, r) /\ att' = [att EXCEPT ![a] = u]
    <3>1. Restopped(r, r)
      BY <1>0, RestoppedSelf
    <3>2. Restopped([r EXCEPT !.pending_stop = reason], r)
      BY DEF Restopped
    <3> QED BY <1>4, <3>1, <3>2 DEF FinishPending
  <2>2. u \in AttemptRows /\ u.state = r.state /\ u.slot = r.slot /\ u.cleanup_confirmed = r.cleanup_confirmed
        /\ u.lease_sequence = r.lease_sequence /\ u.outcome = r.outcome /\ u.payload_released = r.payload_released
    BY <1>0, <2>1, RestoppedRow
  <2>3. Ledger'
    BY <1>1, <1>2, <1>4, <2>1, <2>2, Reading DEF FinishPending
  <2>4. tries' \in [Attempts -> 0..StopTries] /\ mode' \in {mode, "stopping"}
    BY <1>0, <1>4, BoundAssumption DEF FinishPending
  <2> QED BY <2>1, <2>3, <2>4 DEF Inv, Ledger, LedgerTypes
<1>5. CASE FinishUnsure(a, r)
  <2> DEFINE u == [r EXCEPT !.state = "unknown", !.cleanup_confirmed = FALSE]
  <2>1. u \in AttemptRows /\ u.state = "unknown" /\ u.slot = r.slot /\ ~u.cleanup_confirmed
        /\ u.lease_sequence = r.lease_sequence /\ u.outcome = r.outcome /\ u.payload_released = r.payload_released
    BY <1>0 DEF AttemptRows, States
  <2>2. att' = [att EXCEPT ![a] = u]
    BY <1>5 DEF FinishUnsure
  <2> HIDE DEF u
  <2>3. PICK q \in Procs : (q = proc[a] \/ q = Kill(proc[a])) /\ proc' = [proc EXCEPT ![a] = q]
    BY <1>5, KillType, Reading DEF FinishUnsure
  <2>4. devices' = devices /\ tries' = tries /\ mode' = mode
    BY <1>5 DEF FinishUnsure
  <2>5. Ledger'
    BY <1>1, <1>2, <2>1, <2>2, <2>3, <2>4
  <2> QED BY <1>0, <2>2, <2>4, <2>5 DEF Inv, Ledger, LedgerTypes
<1> QED BY <1>3, <1>4, <1>5 DEF finish

(* A recorded stop reason keeps a listed attempt in order. *)
LEMMA RestoppedLocal ==
  ASSUME NEW t \in AttemptRows, NEW r, Restopped(r, t), NEW p, NEW q, Local(t, p, q), t.state # "absent"
  PROVE  Local(r, p, q)
  BY RestoppedRow DEF Local, RowOK, UnitOK, WorkOK

(* request_stop of any attempt, by the controller, by a failed write or by  *)
(* the shutdown.                                                            *)
LEMMA StopStep ==
  ASSUME Inv, NEW a \in Attempts, NEW reason \in Reasons, StopWith(a, reason), pend' = pend
  PROVE  /\ Ledger' /\ tries' \in [Attempts -> 0..StopTries] /\ mode' \in {mode, "stopping"}
         /\ \A b \in Attempts \ {a} : att'[b] = att[b]
         /\ a \in releasing => att'[a] = att[a]
<1> DEFINE r == IF att[a].state = "unknown" THEN att[a] ELSE [att[a] EXCEPT !.pending_stop = reason]
<1>1. Restopped(r, att[a])
  <2>1. Restopped([att[a] EXCEPT !.pending_stop = reason], att[a])
    BY DEF Restopped
  <2> QED BY <2>1, RestoppedSelf, Reading
<1>2. tries \in [Attempts -> 0..StopTries]
  BY DEF Inv, Memory
<1>3. CASE /\ att[a].state \in Live \/ (att[a].state = "unknown" /\ ~att[a].cleanup_confirmed)
           /\ \/ /\ pend[a].op # "none"
                 /\ att' = [att EXCEPT ![a] = r]
                 /\ UNCHANGED <<devices, tries, proc, mode>>
              \/ pend[a].op = "none" /\ finish(a, r, reason, FALSE)
  <2> HIDE DEF r
  <2>1. ~att[a].cleanup_confirmed /\ att[a].state \notin Gone /\ att[a].state # "absent"
    BY <1>3, Reading DEF Local, RowOK, Live, Gone
  <2>2. a \notin releasing
    BY <2>1 DEF Inv, Process
  <2>3. CASE /\ pend[a].op # "none"
             /\ att' = [att EXCEPT ![a] = r]
             /\ UNCHANGED <<devices, tries, proc, mode>>
    <3>1. Local(r, pend[a], proc[a])
      BY <1>1, <2>1, RestoppedLocal, Reading
    <3>2. r \in AttemptRows /\ r.slot = att[a].slot /\ r.cleanup_confirmed = att[a].cleanup_confirmed
      BY <1>1, RestoppedRow, Reading
    <3>3. Holds(r) <=> Holds(att[a])
      BY <3>2 DEF Holds
    <3>4. Ledger'
      BY <2>1, <2>3, <3>1, <3>2, <3>3, QuietStep, Reading DEF Inv
    <3> QED BY <1>2, <2>2, <2>3, <3>4 DEF Inv, Ledger, LedgerTypes
  <2>4. CASE pend[a].op = "none" /\ finish(a, r, reason, FALSE)
    <3>1. pend' = [pend EXCEPT ![a] = Idle]
      BY <2>4, FreeSlot
    <3> QED BY <1>1, <1>3, <2>1, <2>2, <2>4, <3>1, FinishStep
  <2> QED BY <1>3, <2>3, <2>4
<1>4. CASE UNCHANGED <<att, devices, tries, proc, mode>>
  <2>1. Ledger'
    BY <1>4 DEF Inv, Ledger, LedgerTypes, Locals, Devs, Apart
  <2> QED BY <1>2, <1>4, <2>1
<1> QED BY <1>3, <1>4 DEF StopWith

(* The three callers of StopWith. *)
LEMMA RequestStopStep ==
  ASSUME Inv, NEW a \in Attempts, request_stop(a) \/ StopRetained(a)
  PROVE  Inv'
<1>1. StopWith(a, "cancelled") /\ mode \notin {"down", "recovering"} /\ UNCHANGED <<offer, todo, pend, busy, releasing, clock>>
  BY DEF request_stop, StopRetained
<1>2. /\ Ledger' /\ tries' \in [Attempts -> 0..StopTries] /\ mode' \in {mode, "stopping"}
      /\ \A b \in Attempts \ {a} : att'[b] = att[b]
      /\ a \in releasing => att'[a] = att[a]
  BY <1>1, StopStep DEF Reasons
<1> QED BY <1>1, <1>2 DEF Inv, Memory, Process

-----------------------------------------------------------------------------
(* The lease monitor *)

(* queue_preparation leaves the slot as it is or queues work of a prepared  *)
(* attempt.                                                                 *)
LEMMA QueueType ==
  ASSUME NEW a, NEW r, NEW p \in Operations
  PROVE  /\ queue_preparation(a, r, p) \in Operations
         /\ \/ queue_preparation(a, r, p) = p
            \/ /\ r.state = "prepared"
               /\ queue_preparation(a, r, p).op \in {"inputs", "prepare"}
               /\ queue_preparation(a, r, p).pc = "queued"
  BY DEF queue_preparation, Operations, Ops, Pcs

(* The reasons a stop can be given. *)
LEMMA StopReasons ==
  ASSUME Inv, NEW a \in Attempts, NEW error \in Errors, NEW default \in Reasons
  PROVE  stop_reason(a, error, default) \in Reasons /\ current(a) \in Errors \cup {"ok"}
  BY Reading DEF stop_reason, current, Errors, Reasons, AttemptRows

(* An operation that ended well is recorded; another one ends its attempt. *)
LEMMA HarvestStep ==
  ASSUME Inv, NEW a \in Attempts, harvest(a)
  PROVE  Inv'
<1> DEFINE op == pend[a].op
           error == IF pend[a].pc = "done" THEN current(a) ELSE pend[a].pc
<1>1. mode = "up" /\ pend[a].pc \in Errors \cup {"done"} /\ UNCHANGED <<offer, todo, busy, releasing, clock>>
  BY DEF harvest
<1>2. op # "none" /\ att[a].state \in Live /\ ~att[a].cleanup_confirmed
  BY <1>1, Reading DEF Local, WorkOK, RowOK, Errors
<1>3. a \notin releasing
  BY <1>2 DEF Inv, Process
<1>4. ASSUME error = "ok",
             NEW progress \in {"none", "open", "complete"},
             NEW r, r = [att[a] EXCEPT !.prepared_runtime = @ \/ op = "prepare", !.input_progress = progress],
             att' = [att EXCEPT ![a] = r],
             pend' = [pend EXCEPT ![a] = queue_preparation(a, r, Idle)],
             UNCHANGED <<devices, tries, proc, mode>>
      PROVE  Ledger' /\ \A b \in Attempts \ {a} : att'[b] = att[b]
  <2>1. /\ r \in AttemptRows /\ r.state = att[a].state /\ r.slot = att[a].slot
        /\ r.cleanup_confirmed = att[a].cleanup_confirmed /\ r.lease_sequence = att[a].lease_sequence
        /\ r.outcome = att[a].outcome /\ r.payload_released = att[a].payload_released
    BY <1>4, Reading DEF AttemptRows
  <2> DEFINE p == queue_preparation(a, r, Idle)
  <2>2. p \in Operations /\ (p = Idle \/ (r.state = "prepared" /\ p.op \in {"inputs", "prepare"} /\ p.pc = "queued"))
    BY QueueType, FreshTypes
  <2> HIDE DEF p
  <2>3. Local(r, p, proc[a])
    BY <1>2, <2>1, <2>2, Reading DEF Local, RowOK, UnitOK, WorkOK, Live, Idle
  <2>4. (Holds(r) <=> Holds(att[a])) /\ att[a].state \notin Gone
    BY <1>2, <2>1 DEF Holds, Gone, Live
  <2>5. pend' = [pend EXCEPT ![a] = p]
    BY <1>4 DEF p
  <2>6. Ledger'
    BY <1>4, <2>1, <2>2, <2>3, <2>4, <2>5, Reading, QuietStep DEF Inv
  <2> QED BY <1>4, <2>6 DEF Inv, Ledger, LedgerTypes
<1>5. ASSUME error # "ok", finish(a, att[a], stop_reason(a, error, DefaultReason(op)), TRUE),
             pend' = [pend EXCEPT ![a] = Idle]
      PROVE  /\ Ledger' /\ tries' \in [Attempts -> 0..StopTries] /\ mode' \in {mode, "stopping"}
             /\ \A b \in Attempts \ {a} : att'[b] = att[b]
  <2>1. error \in Errors
    BY <1>1, <1>5 DEF current, Errors
  <2>2. DefaultReason(op) \in Reasons
    BY DEF DefaultReason, Reasons
  <2> HIDE DEF error, op
  <2>3. stop_reason(a, error, DefaultReason(op)) \in Reasons
    BY <2>1, <2>2, StopReasons
  <2>4. Restopped(att[a], att[a])
    BY RestoppedSelf, Reading
  <2> QED BY <1>2, <1>5, <2>3, <2>4, FinishStep
<1>6. /\ Ledger' /\ tries' \in [Attempts -> 0..StopTries] /\ mode' \in {mode, "stopping"}
      /\ \A b \in Attempts \ {a} : att'[b] = att[b]
  <2>1. CASE error = "ok"
    <3>1. att[a].input_progress \in {"none", "open", "complete"} /\ tries \in [Attempts -> 0..StopTries]
      BY Reading DEF AttemptRows, Inv, Memory
    <3>2. PICK progress \in {"none", "open", "complete"} :
            LET r == [att[a] EXCEPT !.prepared_runtime = @ \/ op = "prepare", !.input_progress = progress]
            IN /\ att' = [att EXCEPT ![a] = r]
               /\ pend' = [pend EXCEPT ![a] = queue_preparation(a, r, Idle)]
               /\ UNCHANGED <<devices, tries, proc, mode>>
      BY <2>1, <3>1 DEF harvest
    <3> QED BY <1>4, <2>1, <3>1, <3>2
  <2>2. CASE error # "ok"
    BY <1>5, <2>2 DEF harvest
  <2> QED BY <2>1, <2>2
<1> QED BY <1>1, <1>3, <1>6 DEF Inv, Memory, Process

(* Killing at most one attempt's unit, with the row and the operation kept  *)
(* or a stop reason recorded.                                               *)
LEMMA KillStep ==
  ASSUME Inv, NEW a \in Attempts, NEW r, Restopped(r, att[a]), att[a].state # "absent",
         att' = [att EXCEPT ![a] = r], pend' = pend, devices' = devices,
         proc' \in {proc, [proc EXCEPT ![a] = Kill(@)]}
  PROVE  Ledger' /\ \A b \in Attempts \ {a} : att'[b] = att[b]
<1>1. PICK q \in Procs : (q = proc[a] \/ q = Kill(proc[a])) /\ proc' = [proc EXCEPT ![a] = q]
  BY KillType, Reading
<1>2. /\ r \in AttemptRows /\ r.state = att[a].state /\ r.slot = att[a].slot
      /\ r.cleanup_confirmed = att[a].cleanup_confirmed
  BY RestoppedRow, Reading
<1>3. Local(r, pend[a], proc[a])
  BY RestoppedLocal, Reading
<1>4. Local(r, pend[a], q)
  BY <1>1, <1>3, KillType, Reading DEF Local, UnitOK, WorkOK, Alive
<1>5. Holds(r) <=> Holds(att[a])
  BY <1>2 DEF Holds
<1>6. Ledger'
  BY <1>1, <1>2, <1>4, <1>5, Reading, QuietStep DEF Inv
<1> QED BY <1>6 DEF Inv, Ledger, LedgerTypes

(* One attempt's turn in the monitor: its cleanup is tried again, its lost  *)
(* authority stops it, or what its unit shows moves it on.                  *)
LEMMA TickStep ==
  ASSUME Inv, NEW a \in Attempts, tick(a)
  PROVE  Inv'
<1> DEFINE Kept == /\ Ledger' /\ tries' \in [Attempts -> 0..StopTries] /\ mode' \in {mode, "stopping"}
                   /\ \A b \in Attempts \ {a} : att'[b] = att[b]
<1>1. mode = "up" /\ UNCHANGED <<offer, todo, busy, releasing, clock>> /\ tries \in [Attempts -> 0..StopTries]
  BY DEF tick, Inv, Memory
<1>2. "unsure" \in Reasons /\ TRUE \in BOOLEAN /\ Restopped(att[a], att[a])
  BY RestoppedSelf, Reading DEF Reasons
<1>3. ASSUME TickUnknown(a) PROVE Kept /\ ~att[a].cleanup_confirmed
  <2>1. att[a].state = "unknown" /\ ~att[a].cleanup_confirmed /\ pend' = pend
    BY <1>3 DEF TickUnknown
  <2>2. pend' = [pend EXCEPT ![a] = Idle]
    <3>1. pend[a].op = "none"
      BY <2>1, Reading DEF Local, WorkOK, Live
    <3> QED BY <2>1, <3>1, FreeSlot
  <2>3. CASE FinishClean(a, att[a], "unsure") \/ FinishPending(a, att[a], "unsure", TRUE)
    <3>1. finish(a, att[a], "unsure", TRUE)
      BY <2>3 DEF finish
    <3> QED BY <1>2, <2>1, <2>2, <3>1, FinishStep
  <2>4. CASE /\ proc' \in {proc, [proc EXCEPT ![a] = Kill(@)]}
             /\ mode' \in {mode, "stopping"}
             /\ UNCHANGED <<att, devices, tries>>
    <3>1. att' = [att EXCEPT ![a] = att[a]]
      BY <2>4, Reading
    <3> QED BY <1>1, <1>2, <2>1, <2>4, <3>1, KillStep
  <2> QED BY <1>3, <2>1, <2>3, <2>4 DEF TickUnknown
<1>4. ASSUME TickStop(a) PROVE Kept /\ ~att[a].cleanup_confirmed
  <2> DEFINE reason == stop_reason(a, current(a), "expired")
             r == [att[a] EXCEPT !.pending_stop = reason]
  <2>1. att[a].state \in Live /\ current(a) # "ok" /\ pend' = pend
    BY <1>4 DEF TickStop
  <2>2. ~att[a].cleanup_confirmed /\ att[a].state # "absent"
    BY <2>1, Reading DEF Local, RowOK, Live
  <2>3. reason \in Reasons
    BY <2>1, StopReasons DEF current, Errors, Reasons
  <2>4. Restopped(r, att[a])
    BY <2>3 DEF Restopped
  <2>5. \/ /\ att' = [att EXCEPT ![a] = r] /\ proc' \in {proc, [proc EXCEPT ![a] = Kill(@)]}
           /\ mode' \in {mode, "stopping"} /\ UNCHANGED <<devices, tries>>
        \/ pend[a].op = "none" /\ finish(a, r, reason, TRUE)
    BY <1>4 DEF TickStop
  <2> HIDE DEF r, reason
  <2>6. CASE /\ att' = [att EXCEPT ![a] = r] /\ proc' \in {proc, [proc EXCEPT ![a] = Kill(@)]}
             /\ mode' \in {mode, "stopping"} /\ UNCHANGED <<devices, tries>>
    BY <1>1, <2>1, <2>2, <2>4, <2>6, KillStep
  <2>7. CASE pend[a].op = "none" /\ finish(a, r, reason, TRUE)
    <3>1. pend' = [pend EXCEPT ![a] = Idle]
      BY <2>1, <2>7, FreeSlot
    <3> QED BY <2>1, <2>2, <2>3, <2>4, <2>7, <3>1, FinishStep
  <2> QED BY <2>2, <2>5, <2>6, <2>7
<1>5. ASSUME observe(a) PROVE Kept /\ ~att[a].cleanup_confirmed
  <2>1. att[a].state \in {"starting", "running"} /\ pend[a].op = "none"
    BY <1>5 DEF observe
  <2>2. att[a].state \in Live /\ ~att[a].cleanup_confirmed /\ att[a].state \notin Gone
    BY <2>1, Reading DEF Local, RowOK, Live, Gone
  <2>3. CASE finish(a, att[a], "unsure", TRUE) /\ pend' = pend
    <3>1. pend' = [pend EXCEPT ![a] = Idle]
      BY <2>1, <2>3, FreeSlot
    <3> QED BY <1>2, <2>2, <2>3, <3>1, FinishStep
  <2>4. ASSUME NEW op \in Barriers, pend' = [pend EXCEPT ![a] = [op |-> op, pc |-> "queued"]],
               UNCHANGED <<att, devices, tries, proc, mode>>
        PROVE  Kept
    <3>1. Local(att[a], [op |-> op, pc |-> "queued"], proc[a])
      BY <2>2, Reading DEF Local, WorkOK, Barriers
    <3>2. [op |-> op, pc |-> "queued"] \in Operations
      BY DEF Operations, Ops, Pcs
    <3>3. Ledger'
      BY <2>4, <3>1, <3>2, Reading, QuietStep DEF Inv
    <3> QED BY <1>1, <2>4, <3>3
  <2> QED BY <1>5, <2>2, <2>3, <2>4 DEF observe, Barriers
<1>6. Kept /\ ~att[a].cleanup_confirmed
  BY <1>3, <1>4, <1>5 DEF tick
<1>7. a \notin releasing
  BY <1>6 DEF Inv, Process
<1> QED BY <1>1, <1>6, <1>7 DEF Inv, Memory, Process

-----------------------------------------------------------------------------
(* Request handlers *)

(* A lease writes its sequence and its end, and nothing else that matters. *)
LEMMA DeadlineRow ==
  ASSUME Memory, NEW r \in AttemptRows, NEW seq \in 1..MaxSeq, NEW exp \in Nat, InLease(exp)
  PROVE  LET t == deadline(r, seq, exp)
         IN /\ t \in AttemptRows /\ t.lease_sequence = seq /\ t.lease_expires_at = exp
            /\ t.state = r.state /\ t.slot = r.slot /\ t.cleanup_confirmed = r.cleanup_confirmed
            /\ t.payload_released = r.payload_released /\ t.outcome = r.outcome
            /\ t.prepared_runtime = r.prepared_runtime
<1>1. clock.wall \in Nat /\ clock.elapsed \in Nat /\ clock.boot \in Nat /\ clock.wall < exp
  BY BoundAssumption DEF Memory, InLease
<1>2. clock.elapsed + (exp - clock.wall) \in Nat
  BY <1>1
<1>3. seq \in 0..MaxSeq
  BY BoundAssumption
<1> QED BY <1>1, <1>2, <1>3 DEF deadline, AttemptRows

(* Admission: the new row's slot is free, its devices are free, and every   *)
(* other attempt of its job is released.                                    *)
LEMMA AdmitStep ==
  ASSUME Inv, NEW a \in Attempts, NEW rev \in 1..MaxRev, NEW exp \in 1..(MaxTime + MaxLease),
         att[a].state = "absent", Admit(a, rev, exp), UNCHANGED proc
  PROVE  Ledger' /\ \A b \in Attempts \ {a} : att'[b] = att[b]
<1>1. PICK s \in Slots \ {att[b].slot : b \in retained} :
        LET r == deadline([Absent EXCEPT !.state = "prepared", !.slot = s, !.offer_revision = rev], 1, exp)
        IN /\ Admissible(a, rev, exp)
           /\ att' = [att EXCEPT ![a] = r]
           /\ devices' = [g \in Gpus |-> IF g \in GpuOf[a] THEN a ELSE devices[g]]
           /\ pend' = [pend EXCEPT ![a] = queue_preparation(a, r, @)]
  BY DEF Admit
<1> DEFINE r == deadline([Absent EXCEPT !.state = "prepared", !.slot = s, !.offer_revision = rev], 1, exp)
           p == queue_preparation(a, r, pend[a])
<1>2. InLease(exp) /\ exp \in Nat /\ 1 \in 1..MaxSeq
  BY <1>1, BoundAssumption DEF Admissible
<1> DEFINE r0 == [Absent EXCEPT !.state = "prepared", !.slot = s, !.offer_revision = rev]
<1>3. /\ r0 \in AttemptRows /\ r0.state = "prepared" /\ r0.slot = s /\ ~r0.cleanup_confirmed /\ r0.outcome = None
  <2>1. rev \in 0..MaxRev /\ s \in Slots \cup {None} /\ "prepared" \in States
    BY BoundAssumption DEF States, Live
  <2>2. \A t \in AttemptRows : [t EXCEPT !.state = "prepared", !.slot = s, !.offer_revision = rev] \in AttemptRows
    BY <2>1 DEF AttemptRows
  <2> QED BY <2>2, FreshTypes DEF Absent
<1>4. /\ r \in AttemptRows /\ r.state = "prepared" /\ r.slot = s /\ ~r.cleanup_confirmed
      /\ r.lease_sequence = 1 /\ r.outcome = None
  <2> HIDE DEF r0
  <2>1. r = deadline(r0, 1, exp)
    BY DEF r0
  <2> QED BY <1>2, <1>3, <2>1, DeadlineRow DEF Inv
<1>5. p \in Operations /\ (p = pend[a] \/ (p.op \in {"inputs", "prepare"} /\ p.pc = "queued"))
  BY QueueType, Reading
<1>6. att' = [att EXCEPT ![a] = r] /\ pend' = [pend EXCEPT ![a] = p]
      /\ devices' = [g \in Gpus |-> IF g \in GpuOf[a] THEN a ELSE devices[g]]
  BY <1>1
<1> HIDE DEF r, p
<1>7. proc[a] = "none" /\ pend[a].op = "none" /\ s # None
  BY Reading, PlanAssumption DEF Local, UnitOK, WorkOK, Live
<1>8. Local(r, p, proc[a])
  BY <1>4, <1>5, <1>7, Reading, PlanAssumption DEF Local, RowOK, UnitOK, WorkOK, Live, TERMINAL, Alive, Barriers, States
<1>9. LedgerTypes
  BY DEF Inv, Ledger
<1>10. /\ \A b \in Attempts : att'[b] = IF b = a THEN r ELSE att[b]
       /\ \A b \in Attempts : pend'[b] = IF b = a THEN p ELSE pend[b]
       /\ proc' = proc
  BY <1>6, <1>9 DEF LedgerTypes
<1>11. LedgerTypes'
  BY <1>4, <1>5, <1>6, <1>9 DEF LedgerTypes
<1>12. Locals'
  BY <1>8, <1>10 DEF Locals, Inv, Ledger
<1>13. \A b \in Attempts : GpuOf[b] \subseteq Gpus
  BY PlanAssumption
<1>14. \A g \in GpuOf[a] : devices[g] = None
  BY <1>1 DEF Admissible
<1>15. \A b \in Attempts \ {a} : att[b].slot # s
  BY <1>7 DEF retained
<1>16. Devs'
  <2>1. Holds(r)
    BY <1>4, <1>7 DEF Holds
  <2>2. ~Holds(att[a])
    BY Reading DEF Local, RowOK, Absent, Holds
  <2>3. None \notin Attempts
    BY PlanAssumption
  <2>4. \A g \in Gpus : devices'[g] = IF g \in GpuOf[a] THEN a ELSE devices[g]
    BY <1>6
  <2>5. ASSUME NEW b \in Attempts, Holds(att'[b]), NEW g \in GpuOf[b] PROVE devices'[g] = b
    <3>1. CASE b = a
      BY <1>13, <2>4, <2>5, <3>1
    <3>2. CASE b # a
      <4>1. devices[g] = b
        BY <1>10, <2>5, <3>2 DEF Devs, Inv, Ledger
      <4>2. g \notin GpuOf[a]
        BY <1>14, <2>3, <4>1
      <4> QED BY <1>13, <2>4, <4>1, <4>2
    <3> QED BY <3>1, <3>2
  <2>6. ASSUME NEW g \in Gpus, devices'[g] # None
        PROVE  g \in GpuOf[devices'[g]] /\ Holds(att'[devices'[g]])
    <3>1. CASE g \in GpuOf[a]
      BY <1>10, <2>1, <2>4, <3>1
    <3>2. CASE g \notin GpuOf[a]
      <4>1. devices'[g] = devices[g] /\ devices[g] \in Attempts
        BY <1>9, <2>4, <2>6, <3>2 DEF LedgerTypes
      <4>2. g \in GpuOf[devices[g]] /\ Holds(att[devices[g]])
        BY <2>6, <4>1 DEF Devs, Inv, Ledger
      <4> QED BY <1>10, <2>2, <4>1, <4>2
    <3> QED BY <3>1, <3>2
  <2> QED BY <2>5, <2>6 DEF Devs, Holds
<1>17. Apart'
  <2>1. \A b \in Attempts \ {a} : JobOf[b] = JobOf[a] => att[b].state \in Gone
    BY <1>1 DEF Admissible, Unfenced, Gone
  <2> QED BY <1>4, <1>7, <1>10, <1>15, <2>1 DEF Apart, Inv, Ledger
<1> QED BY <1>10, <1>11, <1>12, <1>16, <1>17 DEF Ledger

(* A durable refusal: an attempt that never held anything is settled. *)
LEMMA RejectStep ==
  ASSUME Inv, NEW a \in Attempts, att[a].state = "absent", reject(a), UNCHANGED proc
  PROVE  Ledger' /\ \A b \in Attempts \ {a} : att'[b] = att[b]
<1> DEFINE r == [Absent EXCEPT !.state = "failed", !.cleanup_confirmed = TRUE]
<1>1. /\ r \in AttemptRows /\ r.state = "failed" /\ r.slot = None /\ r.cleanup_confirmed
      /\ r.lease_sequence = 0 /\ r.outcome = None
  BY FreshTypes DEF Absent, AttemptRows, States, TERMINAL
<1>2. att' = [att EXCEPT ![a] = r] /\ devices' = devices /\ pend' = pend /\ Unfenced(a)
  BY DEF reject
<1> HIDE DEF r
<1>3. proc[a] = "none" /\ pend[a].op = "none" /\ ~Holds(att[a])
  BY Reading DEF Local, RowOK, UnitOK, WorkOK, Live, Holds, Absent
<1>4. Local(r, pend[a], proc[a])
  BY <1>1, <1>3, Reading, PlanAssumption DEF Local, RowOK, UnitOK, WorkOK, Live, TERMINAL, Alive, States
<1>5. r.slot \in {att[a].slot, None} /\ ~Holds(r)
  BY <1>1 DEF Holds
<1>6. att[a].state \in Gone => r.state \in Gone \/ (r.slot = None /\ Unfenced(a))
  BY <1>1, <1>2
<1>7. \/ devices' = devices /\ (Holds(r) <=> Holds(att[a]))
      \/ devices' = Freed(a) /\ ~Holds(r)
  BY <1>2, <1>3, <1>5
<1>8. Ledger'
  BY <1>1, <1>2, <1>4, <1>5, <1>6, <1>7, Reading, RowStep DEF Inv
<1> QED BY <1>2, <1>8 DEF Inv, Ledger, LedgerTypes

(* Admission or refusal of a plan. *)
LEMMA PrepareStep ==
  ASSUME Inv, NEW a \in Attempts,
         \/ \E rev \in 1..MaxRev, exp \in 1..(MaxTime + MaxLease) : prepare(a, rev, exp)
         \/ reject_absent(a)
  PROVE  Inv'
<1>1. /\ mode = "up" /\ att[a].state = "absent"
      /\ UNCHANGED <<offer, mode, todo, busy, releasing, tries, proc, clock>>
  BY DEF prepare, reject_absent
<1>2. Ledger' /\ \A b \in Attempts \ {a} : att'[b] = att[b]
  BY <1>1, AdmitStep, RejectStep DEF prepare, reject_absent
<1>3. a \notin releasing
  BY <1>1 DEF Inv, Process, TERMINAL
<1> QED BY <1>1, <1>2, <1>3 DEF Inv, Memory, Process

(* A renewed lease. *)
LEMMA RenewStep ==
  ASSUME Inv, NEW a \in Attempts, NEW seq \in 2..MaxSeq, NEW exp \in 1..(MaxTime + MaxLease), renew(a, seq, exp)
  PROVE  Inv'
<1> DEFINE r == deadline(att[a], seq, exp)
<1>1. /\ mode = "up" /\ att[a].state \in Live /\ InLease(exp) /\ seq \in 1..MaxSeq /\ exp \in Nat
      /\ att' = [att EXCEPT ![a] = r]
      /\ UNCHANGED <<devices, offer, mode, todo, pend, busy, releasing, tries, proc, clock>>
  BY BoundAssumption DEF renew, volatile
<1>2. /\ r \in AttemptRows /\ r.lease_sequence = seq /\ r.state = att[a].state /\ r.slot = att[a].slot
      /\ r.cleanup_confirmed = att[a].cleanup_confirmed
      /\ r.payload_released = att[a].payload_released /\ r.outcome = att[a].outcome
  BY <1>1, DeadlineRow, Reading DEF Inv
<1> HIDE DEF r
<1>3. seq # 0
  OBVIOUS
<1>4. Local(r, pend[a], proc[a])
  BY <1>1, <1>2, <1>3, Reading DEF Local, RowOK, UnitOK, WorkOK, Live
<1>5. (Holds(r) <=> Holds(att[a])) /\ att[a].state \notin Gone
  BY <1>1, <1>2 DEF Holds, Gone, Live
<1>6. Ledger'
  BY <1>1, <1>2, <1>4, <1>5, Reading, QuietStep DEF Inv
<1>7. a \notin releasing
  BY <1>1, Reading DEF Inv, Process, Local, RowOK
<1> QED BY <1>1, <1>6, <1>7 DEF Inv, Memory, Process

(* An accepted start: the unit does not exist yet. *)
LEMMA StartStep ==
  ASSUME Inv, NEW a \in Attempts, start(a)
  PROVE  Inv'
<1> DEFINE r == [att[a] EXCEPT !.state = "starting"]
           p == [op |-> "start", pc |-> "queued"]
<1>1. /\ mode = "up" /\ att[a].state = "prepared" /\ att' = [att EXCEPT ![a] = r]
      /\ pend' = [pend EXCEPT ![a] = p]
      /\ UNCHANGED <<devices, offer, mode, todo, busy, releasing, tries, proc, clock>>
  BY DEF start
<1>2. /\ r \in AttemptRows /\ r.state = "starting" /\ r.slot = att[a].slot
      /\ r.cleanup_confirmed = att[a].cleanup_confirmed /\ r.lease_sequence = att[a].lease_sequence
      /\ r.payload_released = att[a].payload_released /\ r.outcome = att[a].outcome
  BY Reading DEF AttemptRows, States, Live
<1>3. p \in Operations /\ p.op = "start" /\ p.pc = "queued"
  BY DEF Operations, Ops, Pcs
<1> HIDE DEF r, p
<1>4. Local(r, p, proc[a])
  BY <1>1, <1>2, <1>3, Reading DEF Local, RowOK, UnitOK, WorkOK, Live, TERMINAL, Alive
<1>5. (Holds(r) <=> Holds(att[a])) /\ att[a].state \notin Gone
  BY <1>1, <1>2 DEF Holds, Gone
<1>6. Ledger'
  BY <1>1, <1>2, <1>3, <1>4, <1>5, Reading, QuietStep DEF Inv
<1>7. a \notin releasing
  BY <1>1 DEF Inv, Process, TERMINAL
<1> QED BY <1>1, <1>6, <1>7 DEF Inv, Memory, Process

(* A row that is released, with or without a slot to give back. *)
LEMMA ReleasedRow ==
  ASSUME Inv, NEW a \in Attempts, att[a].state \in TERMINAL \cup {"unknown"}, att[a].cleanup_confirmed,
         att' = [att EXCEPT ![a].outcome = att[a].state, ![a].state = "released", ![a].slot = None],
         pend' = pend, proc' = proc, devices' = Freed(a)
  PROVE  Ledger'
<1> DEFINE r == [att[a] EXCEPT !.outcome = att[a].state, !.state = "released", !.slot = None]
<1>1. att' = [att EXCEPT ![a] = r]
  BY DEF Inv, Ledger, LedgerTypes
<1>2. /\ r \in AttemptRows /\ r.state = "released" /\ r.outcome = att[a].state /\ r.slot = None
      /\ r.cleanup_confirmed /\ r.lease_sequence = att[a].lease_sequence
      /\ r.payload_released = att[a].payload_released
  BY Reading DEF AttemptRows, States
<1> HIDE DEF r
<1>3. Local(r, pend[a], proc[a])
  BY <1>2, Reading DEF Local, RowOK, UnitOK, WorkOK, Live, TERMINAL
<1>4. ~Holds(r) /\ r.slot \in {att[a].slot, None} /\ r.state \in Gone
  BY <1>2 DEF Holds, Gone
<1>5. \/ devices' = devices /\ (Holds(r) <=> Holds(att[a]))
      \/ devices' = Freed(a) /\ ~Holds(r)
  BY <1>4
<1>6. att[a].state \in Gone => r.state \in Gone \/ (r.slot = None /\ Unfenced(a))
  BY <1>4
<1> QED BY <1>1, <1>2, <1>3, <1>4, <1>5, <1>6, Reading, RowStep DEF Inv

(* The two halves of a release. *)
LEMMA ReleaseStep ==
  ASSUME Inv, NEW a \in Attempts, release(a) \/ ReleaseEnds(a)
  PROVE  Inv'
<1>1. UNCHANGED <<offer, mode, todo, pend, busy, tries, proc, clock>>
  BY DEF release, ReleaseEnds
<1>2. att \in [Attempts -> AttemptRows] /\ devices \in [Gpus -> Attempts \cup {None}]
  BY DEF Inv, Ledger, LedgerTypes
<1>3. CASE release(a) /\ att[a].slot = None
  <2>1. /\ att[a].state \in TERMINAL \cup {"unknown"} /\ att[a].cleanup_confirmed /\ a \notin releasing
        /\ att' = [att EXCEPT ![a].outcome = att[a].state, ![a].state = "released"]
        /\ releasing' = releasing /\ devices' = devices /\ mode = "up"
    BY <1>3 DEF release
  <2>2. att' = [att EXCEPT ![a].outcome = att[a].state, ![a].state = "released", ![a].slot = None]
    <3>1. [att[a] EXCEPT !.outcome = att[a].state, !.state = "released"]
            = [att[a] EXCEPT !.outcome = att[a].state, !.state = "released", !.slot = None]
      BY <1>2, <1>3 DEF AttemptRows
    <3> QED BY <1>2, <2>1, <3>1
  <2>3. devices' = Freed(a)
    <3>1. \A g \in Gpus : devices[g] # a
      BY <1>3, PlanAssumption DEF Devs, Holds, Inv, Ledger
    <3> QED BY <1>2, <2>1, <3>1 DEF Freed
  <2>4. Ledger'
    BY <1>1, <2>1, <2>2, <2>3, ReleasedRow
  <2>5. \A b \in Attempts \ {a} : att'[b] = att[b]
    BY <1>2, <2>1
  <2> QED BY <1>1, <2>1, <2>4, <2>5 DEF Inv, Memory, Process
<1>4. CASE UNCHANGED <<att, devices>>
  <2>1. Ledger'
    BY <1>1, <1>4 DEF Inv, Ledger, LedgerTypes, Locals, Devs, Apart
  <2>2. \/ releasing' = releasing \ {a} /\ mode # "down"
        \/ /\ releasing' = releasing \cup {a} /\ mode = "up"
           /\ att[a].state \in TERMINAL \cup {"unknown"} /\ att[a].cleanup_confirmed
        \/ releasing' = releasing
    BY DEF release, ReleaseEnds
  <2> QED BY <1>1, <1>4, <2>1, <2>2 DEF Inv, Memory, Process
<1>5. CASE ReleaseEnds(a) /\ devices' = Freed(a)
           /\ att' = [att EXCEPT ![a].outcome = att[a].state, ![a].state = "released", ![a].slot = None]
  <2>1. /\ a \in releasing /\ releasing' = releasing \ {a} /\ mode \notin {"down", "recovering"}
        /\ att[a].state \in TERMINAL \cup {"unknown"} /\ att[a].cleanup_confirmed
    BY <1>5 DEF ReleaseEnds, Inv, Process
  <2>2. Ledger'
    BY <1>1, <1>5, <2>1, ReleasedRow
  <2>3. \A b \in Attempts \ {a} : att'[b] = att[b]
    BY <1>2, <1>5
  <2> QED BY <1>1, <2>1, <2>2, <2>3 DEF Inv, Memory, Process
<1> QED BY <1>3, <1>4, <1>5 DEF release, ReleaseEnds

(* The two halves of an input write. *)
LEMMA InputStep ==
  ASSUME Inv, NEW a \in Attempts, input_write(a) \/ InputWriteEnds(a)
  PROVE  Inv'
<1>1. CASE input_write(a)
  BY <1>1 DEF input_write, Inv, Ledger, LedgerTypes, Locals, Devs, Apart, Memory, Process
<1>2. CASE InputWriteEnds(a)
  <2>1. /\ mode \notin {"down", "recovering"} /\ busy' = busy \ {a}
        /\ UNCHANGED <<offer, todo, releasing, clock>>
    BY <1>2 DEF InputWriteEnds, Inv, Process
  <2>2. ASSUME att[a].state = "prepared", NEW more \in {"open", "complete"},
               NEW r, r = [att[a] EXCEPT !.input_progress = more],
               att' = [att EXCEPT ![a] = r],
               pend' = [pend EXCEPT ![a] = queue_preparation(a, r, pend[a])],
               UNCHANGED <<devices, tries, proc, mode>>
        PROVE  Inv'
    <3>1. /\ r \in AttemptRows /\ r.state = "prepared" /\ r.slot = att[a].slot
          /\ r.cleanup_confirmed = att[a].cleanup_confirmed /\ r.lease_sequence = att[a].lease_sequence
          /\ r.payload_released = att[a].payload_released /\ r.outcome = att[a].outcome
      BY <2>2, Reading DEF AttemptRows
    <3> DEFINE p == queue_preparation(a, r, pend[a])
    <3>2. p \in Operations /\ (p = pend[a] \/ (p.op \in {"inputs", "prepare"} /\ p.pc = "queued"))
      BY QueueType, Reading
    <3>3. pend' = [pend EXCEPT ![a] = p]
      BY <2>2
    <3> HIDE DEF p
    <3>4. Local(r, p, proc[a])
      BY <2>2, <3>1, <3>2, Reading DEF Local, RowOK, UnitOK, WorkOK, Live
    <3>5. (Holds(r) <=> Holds(att[a])) /\ att[a].state \notin Gone
      BY <2>2, <3>1 DEF Holds, Gone
    <3>6. Ledger'
      BY <2>2, <3>1, <3>2, <3>3, <3>4, <3>5, Reading, QuietStep DEF Inv
    <3>7. a \notin releasing
      BY <2>2 DEF Inv, Process, TERMINAL
    <3>8. \A b \in Attempts \ {a} : att'[b] = att[b]
      BY <2>2 DEF Inv, Ledger, LedgerTypes
    <3> QED BY <2>1, <2>2, <3>6, <3>7, <3>8 DEF Inv, Memory, Process
  <2>3. ASSUME NEW reason \in Reasons, StopWith(a, reason), UNCHANGED pend PROVE Inv'
    <3>1. /\ Ledger' /\ tries' \in [Attempts -> 0..StopTries] /\ mode' \in {mode, "stopping"}
          /\ \A b \in Attempts \ {a} : att'[b] = att[b]
          /\ a \in releasing => att'[a] = att[a]
      BY <2>3, StopStep
    <3> QED BY <2>1, <3>1 DEF Inv, Memory, Process
  <2> DEFINE reason == IF att[a].pending_stop # None THEN att[a].pending_stop
                       ELSE IF current(a) = "ok" /\ att[a].state = "prepared" THEN "prepare_failed"
                       ELSE "expired"
  <2>4. reason \in Reasons
    BY Reading DEF AttemptRows, Reasons
  <2>5. CASE StopWith(a, reason) /\ UNCHANGED pend
    <3> HIDE DEF reason
    <3> QED BY <2>3, <2>4, <2>5
  <2>6. CASE ~(StopWith(a, reason) /\ UNCHANGED pend)
    <3>1. PICK more \in {"open", "complete"} :
            LET r == [att[a] EXCEPT !.input_progress = more]
            IN att' = [att EXCEPT ![a] = r] /\ pend' = [pend EXCEPT ![a] = queue_preparation(a, r, @)]
      BY <1>2, <2>6 DEF InputWriteEnds
    <3>2. att[a].state = "prepared" /\ UNCHANGED <<devices, tries, proc, mode>>
      BY <1>2, <2>6 DEF InputWriteEnds
    <3> QED BY <2>2, <3>1, <3>2
  <2> QED BY <2>5, <2>6
<1> QED BY <1>1, <1>2

-----------------------------------------------------------------------------
(* The process, the administrator and the outside world *)

(* What the outside world does to the clocks keeps their type. *)
LEMMA ClockType ==
  ASSUME clock \in [wall : 0..MaxTime, elapsed : 0..MaxTime, boot : 1..MaxBoot],
         NEW w \in 0..MaxTime, NEW e \in 0..MaxTime, NEW b \in 1..MaxBoot
  PROVE  /\ [clock EXCEPT !.wall = w] \in [wall : 0..MaxTime, elapsed : 0..MaxTime, boot : 1..MaxBoot]
         /\ [clock EXCEPT !.wall = w, !.elapsed = e] \in [wall : 0..MaxTime, elapsed : 0..MaxTime, boot : 1..MaxBoot]
         /\ [clock EXCEPT !.elapsed = e, !.boot = b] \in [wall : 0..MaxTime, elapsed : 0..MaxTime, boot : 1..MaxBoot]
  OBVIOUS

(* Steps that leave the ledger, the pool and the units alone. *)
LEMMA MemoryStep ==
  ASSUME Inv, UNCHANGED <<att, devices, pend, proc>>
  PROVE  Ledger'
  BY DEF Inv, Ledger, LedgerTypes, Locals, Devs, Apart

(* A new offer marks what must stop and changes nothing else of a row. *)
LEMMA OwnerStep ==
  ASSUME Inv, Owner
  PROVE  Inv'
<1>1. ASSUME NEW cpu \in Limits, NEW admits \in Admits, reconfigure(cpu, admits) PROVE Inv'
  <2>1. Ledger'
    BY <1>1, MemoryStep DEF reconfigure, volatile
  <2>2. offer' \in [revision : 1..MaxRev, control : Controls, cpu : Limits, admits : Admits]
    BY <1>1, BoundAssumption DEF reconfigure, Inv, Memory, Controls
  <2> QED BY <1>1, <2>1, <2>2 DEF reconfigure, volatile, Inv, Memory, Process
<1>2. ASSUME NEW control \in Controls, NEW cpu \in Limits, NEW admits \in Admits, set_offer(control, cpu, admits)
      PROVE  Inv'
  <2>1. LedgerTypes /\ "cancelled" \in Reasons
    BY DEF Inv, Ledger, Reasons
  <2>2. \A a \in Attempts : Restopped(att'[a], att[a]) /\ (att[a].state = "absent" => att'[a] = att[a])
    BY <1>2, <2>1, RestoppedSelf DEF set_offer, LedgerTypes, Restopped, Live
  <2>3. att' = [a \in Attempts |-> att'[a]]
    BY <1>2 DEF set_offer
  <2>4. \A a \in Attempts : /\ att'[a] \in AttemptRows /\ att'[a].state = att[a].state /\ att'[a].slot = att[a].slot
                            /\ att'[a].cleanup_confirmed = att[a].cleanup_confirmed
    BY <2>1, <2>2, RestoppedRow DEF LedgerTypes
  <2>5. \A a \in Attempts : Local(att'[a], pend[a], proc[a])
    BY <2>1, <2>2, RestoppedLocal DEF LedgerTypes, Inv, Ledger, Locals
  <2>6. UNCHANGED <<devices, mode, todo, pend, busy, releasing, tries, proc, clock>>
    BY <1>2 DEF set_offer, volatile
  <2>7. LedgerTypes'
    BY <2>1, <2>3, <2>4, <2>6 DEF LedgerTypes
  <2>8. Locals' /\ Devs' /\ Apart'
    BY <2>1, <2>4, <2>5, <2>6 DEF Locals, Devs, Apart, Holds, Inv, Ledger, LedgerTypes
  <2>9. offer' \in [revision : 1..MaxRev, control : Controls, cpu : Limits, admits : Admits]
    BY <1>2, BoundAssumption DEF set_offer, Inv, Memory
  <2> QED BY <2>4, <2>6, <2>7, <2>8, <2>9 DEF Inv, Ledger, Memory, Process, Holds
<1> QED BY <1>1, <1>2 DEF Owner

(* Steps that only kill units keep the ledger in order. *)
LEMMA DyingStep ==
  ASSUME Ledger, UNCHANGED <<att, devices>>, proc' \in [Attempts -> Procs], pend' \in [Attempts -> Operations],
         \A a \in Attempts : pend'[a] \in {pend[a], Idle},
         \A a \in Attempts : \/ proc'[a] = proc[a]
                             \/ proc[a] \in Alive /\ proc'[a] \in Procs \ {"none"}
  PROVE  Ledger'
<1>1. LedgerTypes'
  BY DEF Ledger, LedgerTypes
<1>2. ASSUME NEW a \in Attempts PROVE Local(att'[a], pend'[a], proc'[a])
  <2>1. Local(att[a], pend[a], proc[a]) /\ att'[a] = att[a]
    BY DEF Ledger, Locals
  <2>2. Local(att[a], pend[a], proc'[a])
    BY <2>1 DEF Local, UnitOK, WorkOK, Alive
  <2>3. WorkOK(att[a], Idle, proc'[a])
    BY DEF WorkOK, Idle
  <2> QED BY <2>1, <2>2, <2>3 DEF Local
<1> QED BY <1>1, <1>2 DEF Ledger, Locals, Devs, Apart

(* The end of the process, a new boot, and units that end by themselves. *)
LEMMA OutsideStep ==
  ASSUME Inv, Crash \/ \E a \in Attempts : ReapBound(a) \/ Workload(a)
  PROVE  Inv'
<1>0. LedgerTypes /\ \A a \in Attempts : Kill(proc[a]) \in Procs /\ (proc[a] \notin Alive => Kill(proc[a]) = proc[a])
                     /\ (proc[a] \in Alive => Kill(proc[a]) \in Procs \ {"none"})
  BY DEF Inv, Ledger, LedgerTypes, Kill, Procs, Alive, Exited
<1>1. CASE Crash
  <2>1. /\ mode' = "down" /\ pend' = [a \in Attempts |-> Idle] /\ busy' = {} /\ releasing' = {} /\ todo' = {}
        /\ tries' = [a \in Attempts |-> 0] /\ UNCHANGED <<att, devices, offer>>
    BY <1>1 DEF Crash
  <2>2. clock' \in [wall : 0..MaxTime, elapsed : 0..MaxTime, boot : 1..MaxBoot]
    <3>1. clock.boot < MaxBoot => clock.boot + 1 \in 1..MaxBoot
      BY BoundAssumption DEF Inv, Memory
    <3>2. 0 \in 0..MaxTime
      BY BoundAssumption
    <3> QED BY <1>1, <3>1, <3>2, ClockType DEF Crash, Inv, Memory
  <2>3. /\ proc' \in [Attempts -> Procs]
        /\ \A a \in Attempts : proc'[a] = proc[a] \/ (proc[a] \in Alive /\ proc'[a] \in Procs \ {"none"})
    BY <1>0, <1>1 DEF Crash, LedgerTypes
  <2>4. pend' \in [Attempts -> Operations] /\ \A a \in Attempts : pend'[a] \in {pend[a], Idle}
    BY <2>1, FreshTypes
  <2>5. Ledger'
    BY <2>1, <2>3, <2>4, DyingStep DEF Inv
  <2> QED BY <2>1, <2>2, <2>5, BoundAssumption DEF Inv, Memory, Process
<1>2. ASSUME NEW a \in Attempts, ReapBound(a) \/ Workload(a) PROVE Inv'
  <2>1. UNCHANGED <<att, devices, offer, mode, todo, pend, busy, releasing, tries, clock>>
    BY <1>2 DEF ReapBound, Workload, volatile
  <2>2. /\ proc' \in [Attempts -> Procs]
        /\ \A b \in Attempts : proc'[b] = proc[b] \/ (proc[b] \in Alive /\ proc'[b] \in Procs \ {"none"})
    <3>1. PICK q \in Procs \ {"none"} : proc' = [proc EXCEPT ![a] = q] /\ proc[a] \in Alive
      BY <1>2 DEF ReapBound, Workload, Procs, Alive, Exited
    <3> QED BY <1>0, <3>1 DEF LedgerTypes
  <2>3. pend' \in [Attempts -> Operations] /\ \A b \in Attempts : pend'[b] \in {pend[b], Idle}
    BY <1>0, <2>1 DEF LedgerTypes
  <2>4. Ledger'
    BY <2>1, <2>2, <2>3, DyingStep DEF Inv
  <2> QED BY <2>1, <2>4 DEF Inv, Memory, Process
<1> QED BY <1>1, <1>2

(* Clocks, schedule windows, shutdown and the two ends of a recovery. *)
LEMMA ClockStep ==
  ASSUME Inv, \/ Shutdown \/ Restart \/ serve \/ Advance \/ SetWall
              \/ \E admits \in Admits : WindowTurns(admits)
  PROVE  Inv'
<1>1. Ledger'
  BY MemoryStep DEF Shutdown, Restart, serve, Advance, SetWall, WindowTurns, volatile
<1>2. CASE Shutdown \/ serve
  BY <1>1, <1>2 DEF Shutdown, serve, volatile, Inv, Memory, Process
<1>3. CASE Advance \/ SetWall
  <2>1. clock' \in [wall : 0..MaxTime, elapsed : 0..MaxTime, boot : 1..MaxBoot]
    <3>1. clock.wall \in 0..MaxTime /\ clock.elapsed \in 0..MaxTime
      BY DEF Inv, Memory
    <3>2. CASE Advance
      <4>1. clock.wall + 1 \in 0..MaxTime /\ clock.elapsed + 1 \in 0..MaxTime
        BY <3>1, <3>2, BoundAssumption DEF Advance
      <4> QED BY <3>2, <4>1, ClockType DEF Advance, Inv, Memory
    <3>3. CASE SetWall
      <4>1. PICK w \in 0..(clock.wall - 1) : clock' = [clock EXCEPT !.wall = w]
        BY <3>3 DEF SetWall
      <4>2. w \in 0..MaxTime
        BY <3>1, BoundAssumption
      <4> QED BY <4>1, <4>2, ClockType DEF Inv, Memory
    <3> QED BY <1>3, <3>2, <3>3
  <2> QED BY <1>1, <1>3, <2>1 DEF Advance, SetWall, volatile, Inv, Memory, Process
<1>4. CASE \E admits \in Admits : WindowTurns(admits)
  BY <1>1, <1>4 DEF WindowTurns, volatile, Inv, Memory, Process
<1>5. CASE Restart
  <2>1. /\ mode = "down" /\ mode' = "recovering"
        /\ todo' = {a \in retained : att[a].state \notin TERMINAL /\ ~att[a].cleanup_confirmed}
        /\ UNCHANGED <<att, devices, offer, pend, busy, releasing, tries, proc, clock>>
    BY <1>5 DEF Restart
  <2>2. \A a \in todo' : a \in Attempts /\ att[a].state \in Live \cup {"unknown"} /\ Holds(att[a])
    <3>1. ASSUME NEW a \in todo' PROVE a \in Attempts /\ att[a].state \in Live \cup {"unknown"} /\ Holds(att[a])
      <4>1. a \in Attempts /\ att[a].state \notin TERMINAL /\ ~att[a].cleanup_confirmed /\ att[a].slot # None
        BY <2>1 DEF retained
      <4>2. att[a].state \in States /\ att[a].state # "absent" /\ att[a].state # "released"
        BY <4>1, Reading DEF Local, RowOK, Absent, AttemptRows
      <4> QED BY <4>1, <4>2 DEF States, Holds
    <3> QED BY <3>1
  <2> QED BY <1>1, <2>1, <2>2 DEF Inv, Memory, Process
<1> QED BY <1>2, <1>3, <1>4, <1>5

(* Recovery finishes one unresolved attempt. *)
LEMMA RecoverStep ==
  ASSUME Inv, NEW a \in Attempts, recover(a)
  PROVE  Inv'
<1>1. /\ mode = "recovering" /\ a \in todo /\ todo' = todo \ {a} /\ finish(a, att[a], "unsure", TRUE)
      /\ UNCHANGED <<offer, pend, busy, releasing, clock>>
  BY DEF recover
<1>2. att[a].state \in Live \cup {"unknown"} /\ ~att[a].cleanup_confirmed /\ pend[a].op = "none" /\ releasing = {}
  BY <1>1 DEF Inv, Process, Holds, Idle
<1>3. pend' = [pend EXCEPT ![a] = Idle]
  BY <1>1, <1>2, FreeSlot
<1>4. Restopped(att[a], att[a]) /\ "unsure" \in Reasons
  BY RestoppedSelf, Reading DEF Reasons
<1>5. /\ Ledger' /\ tries' \in [Attempts -> 0..StopTries] /\ mode' \in {mode, "stopping"}
      /\ \A b \in Attempts \ {a} : att'[b] = att[b]
  BY <1>1, <1>2, <1>3, <1>4, FinishStep
<1> QED BY <1>1, <1>2, <1>5 DEF Inv, Memory, Process

(* The administrator confirms an empty slot of a stopped executor. *)
LEMMA RecoverStorageStep ==
  ASSUME Inv, NEW a \in Attempts, recover_storage(a)
  PROVE  Inv'
<1> DEFINE st == IF att[a].state \in TERMINAL THEN att[a].state ELSE "unknown"
           r == [att[a] EXCEPT !.cleanup_confirmed = TRUE, !.state = st]
<1>1. /\ mode = "down" /\ att[a].slot # None /\ proc' = [proc EXCEPT ![a] = Kill(@)] /\ devices' = Freed(a)
      /\ UNCHANGED <<offer, mode, todo, pend, busy, releasing, tries, clock>>
      /\ att' = [att EXCEPT ![a].cleanup_confirmed = TRUE, ![a].state = IF @ \in TERMINAL THEN @ ELSE "unknown"]
  BY DEF recover_storage, volatile
<1>2. att' = [att EXCEPT ![a] = r]
  BY <1>1 DEF Inv, Ledger, LedgerTypes
<1>3. st \in TERMINAL \cup {"unknown"} /\ (st \in TERMINAL => st = att[a].state)
  BY DEF TERMINAL
<1> HIDE DEF st
<1>4. /\ r \in AttemptRows /\ r.state = st /\ r.cleanup_confirmed /\ r.slot = att[a].slot
      /\ r.lease_sequence = att[a].lease_sequence /\ r.outcome = att[a].outcome
      /\ r.payload_released = att[a].payload_released
  BY <1>3, Reading DEF AttemptRows, States
<1> HIDE DEF r
<1>5. /\ Kill(proc[a]) \in Procs /\ Kill(proc[a]) \notin Alive /\ (Kill(proc[a]) = "none" <=> proc[a] = "none")
      /\ (proc[a] \notin Alive => Kill(proc[a]) = proc[a])
  BY KillType, Reading
<1>6. att[a].state \notin Gone /\ pend[a] = Idle /\ Idle \in Operations
  BY <1>1, Reading, FreshTypes DEF Local, RowOK, Gone, Absent, Inv, Process
<1>7. RowOK(r) /\ UnitOK(r, Kill(proc[a])) /\ WorkOK(r, Idle, Kill(proc[a]))
  <2>1. RowOK(r)
    BY <1>1, <1>3, <1>4, <1>6, Reading DEF Local, RowOK, Gone, Live, TERMINAL
  <2>2. UnitOK(r, Kill(proc[a]))
    BY <1>3, <1>4, <1>5, <1>6, Reading, PlanAssumption DEF Local, UnitOK, RowOK, Gone, TERMINAL, Alive, States
  <2>3. WorkOK(r, Idle, Kill(proc[a]))
    BY DEF WorkOK, Idle
  <2> QED BY <2>1, <2>2, <2>3
<1>8. r.slot \in {att[a].slot, None} /\ ~Holds(r)
  BY <1>4 DEF Holds
<1>9. pend' = [pend EXCEPT ![a] = Idle] /\ proc' = [proc EXCEPT ![a] = Kill(proc[a])]
  BY <1>1, <1>6, Reading
<1>10. \/ devices' = devices /\ (Holds(r) <=> Holds(att[a]))
       \/ devices' = Freed(a) /\ ~Holds(r)
  BY <1>1, <1>8
<1>11. Local(r, Idle, Kill(proc[a]))
  BY <1>7 DEF Local
<1>12. Ledger'
  BY <1>2, <1>4, <1>5, <1>6, <1>8, <1>9, <1>10, <1>11, RowStep DEF Inv
<1> QED BY <1>1, <1>12 DEF Inv, Memory, Process

-----------------------------------------------------------------------------
(* The invariant and what follows from it *)

(* The empty ledger of a first start is in order. *)
LEMMA InitInv == Init => Inv
<1> SUFFICES ASSUME Init PROVE Inv
  OBVIOUS
<1>1. LedgerTypes /\ Memory
  BY FreshTypes, BoundAssumption DEF Init, LedgerTypes, Memory, Procs, Controls
<1>2. Local(Absent, Idle, "none")
  BY PlanAssumption DEF Local, RowOK, UnitOK, WorkOK, Absent, Idle, Live, TERMINAL, Alive, States
<1>3. Locals
  BY <1>2 DEF Init, Locals
<1>4. Devs /\ Apart
  BY DEF Init, Devs, Apart, Holds, Absent, Gone
<1>5. Process
  BY DEF Init, Process
<1> QED BY <1>1, <1>3, <1>4, <1>5 DEF Inv, Ledger

(* Every step of the executor and of its surroundings keeps it in order. *)
LEMMA NextInv == Inv /\ [Next]_vars => Inv'
<1> SUFFICES ASSUME Inv, [Next]_vars PROVE Inv'
  OBVIOUS
<1>1. ASSUME NEW a \in Attempts, Handlers(a) PROVE Inv'
  BY <1>1, PrepareStep, RenewStep, StartStep, RequestStopStep, ReleaseStep, InputStep DEF Handlers
<1>2. ASSUME NEW a \in Attempts, ReleaseEnds(a) \/ InputWriteEnds(a) \/ StopRetained(a) PROVE Inv'
  BY <1>2, ReleaseStep, InputStep, RequestStopStep
<1>3. ASSUME NEW a \in Attempts, Workers(a) PROVE Inv'
  BY <1>3, PreparationStep, LaunchStep, BarrierStep, WorkerFailsStep DEF Workers
<1>4. ASSUME NEW a \in Attempts, Monitor(a) PROVE Inv'
  BY <1>4, HarvestStep, TickStep DEF Monitor
<1>5. ASSUME NEW a \in Attempts, ReapBound(a) \/ Workload(a) \/ recover(a) \/ recover_storage(a) PROVE Inv'
  BY <1>5, OutsideStep, RecoverStep, RecoverStorageStep
<1>6. CASE Owner \/ Crash
  BY <1>6, OwnerStep, OutsideStep
<1>7. CASE \/ Shutdown \/ Restart \/ serve \/ Advance \/ SetWall
           \/ \E admits \in Admits : WindowTurns(admits)
  BY <1>7, ClockStep
<1>8. CASE UNCHANGED vars
  <2>1. UNCHANGED <<att, devices, offer, mode, todo, pend, busy, releasing, tries, proc, clock>>
    BY <1>8 DEF vars
  <2>2. Ledger'
    BY <2>1, MemoryStep
  <2> QED BY <2>1, <2>2 DEF Inv, Memory, Process
<1> QED BY <1>1, <1>2, <1>3, <1>4, <1>5, <1>6, <1>7, <1>8 DEF Next

(* The inductive invariant holds in every behaviour. *)
THEOREM InOrder == Spec => []Inv
  BY InitInv, NextInv, PTL DEF Spec

(* Every table, in-memory set and process state keeps its type. *)
THEOREM Typed == Spec => []TypeOK
<1>1. Inv => TypeOK
  BY DEF Inv, Ledger, LedgerTypes, Memory, TypeOK
<1> QED BY <1>1, InOrder, PTL

(* A live unit holds its slot and all its GPUs, and its cleanup is          *)
(* unconfirmed: finish, recovery and recover_storage confirm it, and free   *)
(* the devices, only after the unit is gone.                                *)
THEOREM WorkloadsHeld == Spec => []WorkloadHeld
<1>1. Inv => WorkloadHeld
  BY DEF Inv, Ledger, Locals, Local, UnitOK, Devs, Holds, WorkloadHeld
<1> QED BY <1>1, InOrder, PTL

(* Two live units share neither a job nor a slot nor a GPU, whatever        *)
(* generations, requests, retries and restarts produced them.               *)
THEOREM UnitsExclusive == Spec => []Exclusive
<1>1. Inv => Exclusive
  <2> SUFFICES ASSUME Inv, NEW a \in Attempts, NEW b \in Attempts, a # b, proc[a] \in Alive, proc[b] \in Alive
               PROVE  JobOf[a] # JobOf[b] /\ att[a].slot # att[b].slot /\ GpuOf[a] \cap GpuOf[b] = {}
    BY DEF Exclusive
  <2>1. ASSUME NEW c \in {a, b}
        PROVE  att[c].state \notin Gone /\ att[c].slot # None /\ \A g \in GpuOf[c] : devices[g] = c
    <3>1. Local(att[c], pend[c], proc[c]) /\ c \in Attempts /\ proc[c] \in Alive
      BY DEF Inv, Ledger, Locals
    <3>2. Holds(att[c])
      BY <3>1 DEF Local, UnitOK, Holds
    <3> QED BY <3>1, <3>2 DEF Local, RowOK, UnitOK, Absent, Gone, Holds, Alive, Inv, Ledger, Devs
  <2> QED BY <2>1 DEF Inv, Ledger, Apart
<1> QED BY <1>1, InOrder, PTL

(* No row of the devices table outlives the reservation it stands for. *)
THEOREM DevicesReserved == Spec => []NoStrayDevice
<1>1. Inv => NoStrayDevice
  BY DEF Inv, Ledger, Devs, Holds, NoStrayDevice
<1> QED BY <1>1, InOrder, PTL

(* Success is recorded, and stays recorded after the release, only of a     *)
(* payload that was let through its barrier and exited with zero.           *)
THEOREM OutcomesHonest == Spec => []HonestOutcome
<1>1. Inv => HonestOutcome
  BY DEF Inv, Ledger, Locals, Local, UnitOK, HonestOutcome
<1> QED BY <1>1, InOrder, PTL

-----------------------------------------------------------------------------
(* The executor implements the board *)

Shown == [a \in Attempts |-> public(a)]
Running == {a \in Attempts : proc[a] \in Alive}
Launched == {a \in Attempts : proc[a] # "none"}
BoardStep == [Board!BoardNext]_(Board!boardVars)

(* A step that changes no public field and starts no unit shows at most     *)
(* that units died.                                                         *)
LEMMA Unseen ==
  ASSUME \A a \in Attempts : public(a)' = public(a),
         \A a \in Attempts : (proc'[a] \in Alive => proc[a] \in Alive) /\ (proc'[a] = "none" <=> proc[a] = "none")
  PROVE  BoardStep
<1>1. Shown' = Shown /\ Running' \in SUBSET Running /\ Launched' = Launched
  BY DEF Shown, Running, Launched
<1>2. Board!UnitsDie
  BY <1>1 DEF Board!UnitsDie, Shown, Running, Launched
<1> QED BY <1>2 DEF BoardStep, Board!BoardNext

(* How the board changes when one attempt's row and unit are written. *)
LEMMA OneShown ==
  ASSUME LedgerTypes, NEW a \in Attempts, NEW r \in AttemptRows, NEW q \in Procs,
         att' = [att EXCEPT ![a] = r], proc' = [proc EXCEPT ![a] = q]
  PROVE  /\ Shown' = [Shown EXCEPT ![a] = [state |-> r.state, cleanup_confirmed |-> r.cleanup_confirmed,
              lease_sequence |-> r.lease_sequence, lease_expires_at |-> r.lease_expires_at,
              ready |-> r.prepared_runtime /\ r.state = "prepared", outcome |-> r.outcome]]
         /\ Running' = IF q \in Alive THEN Running \cup {a} ELSE Running \ {a}
         /\ Launched' = IF q # "none" THEN Launched \cup {a} ELSE Launched \ {a}
<1>1. \A b \in Attempts : att'[b] = (IF b = a THEN r ELSE att[b]) /\ proc'[b] = IF b = a THEN q ELSE proc[b]
  BY DEF LedgerTypes
<1>2. Shown' = [Shown EXCEPT ![a] = [state |-> r.state, cleanup_confirmed |-> r.cleanup_confirmed,
              lease_sequence |-> r.lease_sequence, lease_expires_at |-> r.lease_expires_at,
              ready |-> r.prepared_runtime /\ r.state = "prepared", outcome |-> r.outcome]]
  BY <1>1 DEF Shown, public
<1>3. Running' = IF q \in Alive THEN Running \cup {a} ELSE Running \ {a}
  BY <1>1 DEF Running
<1>4. Launched' = IF q # "none" THEN Launched \cup {a} ELSE Launched \ {a}
  BY <1>1 DEF Launched
<1> QED BY <1>2, <1>3, <1>4

(* The public record of an attempt, field by field. *)
LEMMA PublicRow ==
  ASSUME NEW a
  PROVE  public(a) \in [state : {att[a].state}, cleanup_confirmed : {att[a].cleanup_confirmed},
                        lease_sequence : {att[a].lease_sequence}, lease_expires_at : {att[a].lease_expires_at},
                        ready : {att[a].prepared_runtime /\ att[a].state = "prepared"},
                        outcome : {att[a].outcome}]
  BY DEF public

(* A row written with these public fields is shown as any record of them. *)
LEMMA ShownAs ==
  ASSUME LedgerTypes, NEW a \in Attempts, NEW r \in AttemptRows, NEW q \in Procs,
         att' = [att EXCEPT ![a] = r], proc' = [proc EXCEPT ![a] = q],
         NEW u \in [state : {r.state}, cleanup_confirmed : {r.cleanup_confirmed},
                    lease_sequence : {r.lease_sequence}, lease_expires_at : {r.lease_expires_at},
                    ready : {r.prepared_runtime /\ r.state = "prepared"}, outcome : {r.outcome}]
  PROVE  Shown' = [Shown EXCEPT ![a] = u] /\ Shown[a] = public(a)
<1>1. u = [state |-> r.state, cleanup_confirmed |-> r.cleanup_confirmed,
           lease_sequence |-> r.lease_sequence, lease_expires_at |-> r.lease_expires_at,
           ready |-> r.prepared_runtime /\ r.state = "prepared", outcome |-> r.outcome]
  OBVIOUS
<1>2. Shown[a] = public(a)
  BY DEF Shown
<1> QED BY <1>1, <1>2, OneShown

(* Cleaning up an attempt settles it on the board, or shows nothing. *)
LEMMA SettleShown ==
  ASSUME Inv, NEW a \in Attempts, NEW r \in AttemptRows, NEW q \in Procs,
         att' = [att EXCEPT ![a] = r], proc' = [proc EXCEPT ![a] = q],
         att[a].state \in Live \/ (att[a].state = "unknown" /\ ~att[a].cleanup_confirmed /\ r.state = "unknown"),
         r.state \in TERMINAL \cup {"unknown"}, r.state # "unknown" => r.cleanup_confirmed,
         r.lease_sequence = att[a].lease_sequence, r.lease_expires_at = att[a].lease_expires_at,
         r.outcome = att[a].outcome,
         q = proc[a] \/ q = Kill(proc[a]), r.cleanup_confirmed => q = Kill(proc[a])
  PROVE  BoardStep
<1>1. /\ Shown' = [Shown EXCEPT ![a] = [state |-> r.state, cleanup_confirmed |-> r.cleanup_confirmed,
           lease_sequence |-> r.lease_sequence, lease_expires_at |-> r.lease_expires_at,
           ready |-> r.prepared_runtime /\ r.state = "prepared", outcome |-> r.outcome]]
      /\ Running' = IF q \in Alive THEN Running \cup {a} ELSE Running \ {a}
      /\ Launched' = IF q # "none" THEN Launched \cup {a} ELSE Launched \ {a}
  BY OneShown DEF Inv, Ledger
<1>2. /\ Kill(proc[a]) \in Procs /\ Kill(proc[a]) \notin Alive /\ (Kill(proc[a]) = "none" <=> proc[a] = "none")
      /\ (proc[a] \notin Alive => Kill(proc[a]) = proc[a])
  BY KillType, Reading
<1>3. Launched' = Launched /\ Running' \in {Running, Running \ {a}} /\ (r.cleanup_confirmed => a \notin Running')
  BY <1>1, <1>2 DEF Launched, Running
<1>4. Shown[a] = public(a) /\ r.state # "prepared"
  BY DEF Shown, TERMINAL
<1>5. Shown' = [Shown EXCEPT ![a] = [@ EXCEPT !.state = r.state, !.cleanup_confirmed = r.cleanup_confirmed, !.ready = FALSE]]
  <2> DEFINE u == [public(a) EXCEPT !.state = r.state, !.cleanup_confirmed = r.cleanup_confirmed, !.ready = FALSE]
  <2>1. u \in [state : {r.state}, cleanup_confirmed : {r.cleanup_confirmed},
               lease_sequence : {r.lease_sequence}, lease_expires_at : {r.lease_expires_at},
               ready : {FALSE}, outcome : {r.outcome}]
    BY PublicRow
  <2> HIDE DEF u
  <2>2. u = [state |-> r.state, cleanup_confirmed |-> r.cleanup_confirmed,
             lease_sequence |-> r.lease_sequence, lease_expires_at |-> r.lease_expires_at,
             ready |-> r.prepared_runtime /\ r.state = "prepared", outcome |-> r.outcome]
    BY <1>4, <2>1
  <2> QED BY <1>1, <1>4, <2>2 DEF u
<1>6. r.cleanup_confirmed \in BOOLEAN /\ r.state \in Board!Final
  BY DEF AttemptRows, Board!Final, TERMINAL
<1>7. Board!Settle(a, r.state, r.cleanup_confirmed)
  BY <1>3, <1>4, <1>5 DEF Board!Settle, Board!Going, Shown, Running, Launched, public, Live
<1> QED BY <1>6, <1>7 DEF BoardStep, Board!BoardNext

(* What a cleanup shows, whichever of its three ways finish ends. *)
LEMMA FinishShown ==
  ASSUME Inv, NEW a \in Attempts, NEW r, Restopped(r, att[a]), NEW reason, NEW fatal,
         att[a].state \in Live \cup {"unknown"}, ~att[a].cleanup_confirmed, finish(a, r, reason, fatal)
  PROVE  BoardStep
<1>0. /\ r \in AttemptRows /\ r.state = att[a].state /\ r.cleanup_confirmed = att[a].cleanup_confirmed
      /\ r.lease_sequence = att[a].lease_sequence /\ r.lease_expires_at = att[a].lease_expires_at
      /\ r.outcome = att[a].outcome /\ r.prepared_runtime = att[a].prepared_runtime
  BY Reading, RestoppedRow
<1>1. CASE FinishClean(a, r, reason)
  <2>1. PICK sees \in BOOLEAN, fails \in BOOLEAN :
          att' = [att EXCEPT ![a] =
            [r EXCEPT !.state = IF r.state = "unknown" THEN "unknown"
                                ELSE FinishState(a, r, reason, sees, fails),
                      !.cleanup_confirmed = TRUE]]
    BY <1>1 DEF FinishClean
  <2> DEFINE st == IF r.state = "unknown" THEN "unknown" ELSE FinishState(a, r, reason, sees, fails)
             u == [r EXCEPT !.state = st, !.cleanup_confirmed = TRUE]
  <2>2. st \in TERMINAL \cup {"unknown"} /\ (r.state = "unknown" => st = "unknown")
    BY FinishOutcome
  <2> HIDE DEF st
  <2>3. u \in AttemptRows /\ u.state = st /\ u.cleanup_confirmed /\ u.lease_sequence = r.lease_sequence
        /\ u.lease_expires_at = r.lease_expires_at /\ u.outcome = r.outcome
    BY <1>0, <2>2 DEF AttemptRows, States
  <2>4. att' = [att EXCEPT ![a] = u]
    BY <2>1 DEF st
  <2> HIDE DEF u
  <2>5. proc' = [proc EXCEPT ![a] = Kill(proc[a])] /\ Kill(proc[a]) \in Procs
    BY <1>1, KillType, Reading DEF FinishClean
  <2> QED BY <1>0, <2>2, <2>3, <2>4, <2>5, SettleShown
<1>2. CASE FinishPending(a, r, reason, fatal)
  <2>1. PICK u : (u = r \/ u = [r EXCEPT !.pending_stop = reason]) /\ att' = [att EXCEPT ![a] = u] /\ proc' = proc
    BY <1>2 DEF FinishPending
  <2>2. /\ u.state = r.state /\ u.cleanup_confirmed = r.cleanup_confirmed /\ u.prepared_runtime = r.prepared_runtime
        /\ u.lease_sequence = r.lease_sequence /\ u.lease_expires_at = r.lease_expires_at /\ u.outcome = r.outcome
    BY <1>0, <2>1 DEF AttemptRows
  <2>3. \A b \in Attempts : att'[b] = IF b = a THEN u ELSE att[b]
    BY <2>1 DEF Inv, Ledger, LedgerTypes
  <2>4. \A b \in Attempts : public(b)' = public(b)
    BY <1>0, <2>2, <2>3 DEF public
  <2> QED BY <2>1, <2>4, Unseen
<1>3. CASE FinishUnsure(a, r)
  <2> DEFINE u == [r EXCEPT !.state = "unknown", !.cleanup_confirmed = FALSE]
  <2>1. u \in AttemptRows /\ u.state = "unknown" /\ ~u.cleanup_confirmed /\ u.lease_sequence = r.lease_sequence
        /\ u.lease_expires_at = r.lease_expires_at /\ u.outcome = r.outcome
    BY <1>0 DEF AttemptRows, States
  <2>2. att' = [att EXCEPT ![a] = u]
    BY <1>3 DEF FinishUnsure
  <2> HIDE DEF u
  <2>3. PICK q \in Procs : (q = proc[a] \/ q = Kill(proc[a])) /\ proc' = [proc EXCEPT ![a] = q]
    BY <1>3, KillType, Reading DEF FinishUnsure
  <2> QED BY <1>0, <2>1, <2>2, <2>3, SettleShown
<1> QED BY <1>1, <1>2, <1>3 DEF finish

(* A stop reason and a killed unit: only the unit is seen to die. *)
LEMMA StoppedShown ==
  ASSUME Inv, NEW a \in Attempts, NEW r, Restopped(r, att[a]), att' = [att EXCEPT ![a] = r],
         proc' \in {proc, [proc EXCEPT ![a] = Kill(@)]}
  PROVE  BoardStep
<1>1. /\ r.state = att[a].state /\ r.cleanup_confirmed = att[a].cleanup_confirmed
      /\ r.lease_sequence = att[a].lease_sequence /\ r.lease_expires_at = att[a].lease_expires_at
      /\ r.outcome = att[a].outcome /\ r.prepared_runtime = att[a].prepared_runtime
  BY Reading, RestoppedRow
<1>2. \A b \in Attempts : att'[b] = IF b = a THEN r ELSE att[b]
  BY DEF Inv, Ledger, LedgerTypes
<1>3. \A b \in Attempts : public(b)' = public(b)
  BY <1>1, <1>2 DEF public
<1>4. \A b \in Attempts : (proc'[b] \in Alive => proc[b] \in Alive) /\ (proc'[b] = "none" <=> proc[b] = "none")
  BY KillType DEF Inv, Ledger, LedgerTypes
<1> QED BY <1>3, <1>4, Unseen

(* request_stop shows a cleanup or nothing. *)
LEMMA StopShown ==
  ASSUME Inv, NEW a \in Attempts, NEW reason \in Reasons, StopWith(a, reason)
  PROVE  BoardStep
<1> DEFINE r == IF att[a].state = "unknown" THEN att[a] ELSE [att[a] EXCEPT !.pending_stop = reason]
<1>1. Restopped(r, att[a])
  <2>1. Restopped([att[a] EXCEPT !.pending_stop = reason], att[a])
    BY DEF Restopped
  <2> QED BY <2>1, RestoppedSelf, Reading
<1>2. \/ /\ att[a].state \in Live \/ (att[a].state = "unknown" /\ ~att[a].cleanup_confirmed)
         /\ \/ att' = [att EXCEPT ![a] = r] /\ proc' = proc
            \/ finish(a, r, reason, FALSE)
      \/ UNCHANGED <<att, proc>>
  BY DEF StopWith
<1> HIDE DEF r
<1>3. att[a].state \in Live => ~att[a].cleanup_confirmed
  BY Reading DEF Local, RowOK
<1>4. CASE att' = [att EXCEPT ![a] = r] /\ proc' = proc
  BY <1>1, <1>4, StoppedShown
<1>5. CASE UNCHANGED <<att, proc>>
  BY <1>5, Unseen DEF public
<1> QED BY <1>1, <1>2, <1>3, <1>4, <1>5, FinishShown

(* The monitor and recovery show cleanups and readiness. *)
LEMMA MonitorShown ==
  ASSUME Inv, NEW a \in Attempts, harvest(a) \/ tick(a) \/ recover(a)
  PROVE  BoardStep
<1>0. Restopped(att[a], att[a])
  BY RestoppedSelf, Reading
<1>1. ASSUME recover(a) PROVE BoardStep
  <2>1. att[a].state \in Live \cup {"unknown"} /\ ~att[a].cleanup_confirmed /\ finish(a, att[a], "unsure", TRUE)
    BY <1>1 DEF recover, Inv, Process, Holds
  <2> QED BY <1>0, <2>1, FinishShown
<1>2. ASSUME TickUnknown(a) PROVE BoardStep
  <2>1. att[a].state = "unknown" /\ ~att[a].cleanup_confirmed
    BY <1>2 DEF TickUnknown
  <2>2. \/ finish(a, att[a], "unsure", TRUE)
        \/ att' = att /\ proc' \in {proc, [proc EXCEPT ![a] = Kill(@)]}
    BY <1>2 DEF TickUnknown, finish
  <2>3. att' = att => att' = [att EXCEPT ![a] = att[a]]
    BY Reading
  <2> QED BY <1>0, <2>1, <2>2, <2>3, FinishShown, StoppedShown
<1>3. ASSUME TickStop(a) PROVE BoardStep
  <2> DEFINE reason == stop_reason(a, current(a), "expired")
             r == [att[a] EXCEPT !.pending_stop = reason]
  <2>1. att[a].state \in Live /\ current(a) # "ok"
    BY <1>3 DEF TickStop
  <2>2. ~att[a].cleanup_confirmed
    BY <2>1, Reading DEF Local, RowOK
  <2>3. reason \in Reasons
    BY <2>1, StopReasons DEF current, Errors, Reasons
  <2>4. Restopped(r, att[a])
    BY <2>3 DEF Restopped
  <2>5. \/ att' = [att EXCEPT ![a] = r] /\ proc' \in {proc, [proc EXCEPT ![a] = Kill(@)]}
        \/ finish(a, r, reason, TRUE)
    BY <1>3 DEF TickStop
  <2> HIDE DEF r, reason
  <2> QED BY <2>1, <2>2, <2>4, <2>5, StoppedShown, FinishShown
<1>4. ASSUME observe(a) PROVE BoardStep
  <2>1. att[a].state \in Live /\ ~att[a].cleanup_confirmed
    BY <1>4, Reading DEF observe, Local, RowOK, Live
  <2>2. finish(a, att[a], "unsure", TRUE) \/ UNCHANGED <<att, proc>>
    BY <1>4 DEF observe
  <2>3. CASE UNCHANGED <<att, proc>>
    BY <2>3, Unseen DEF public
  <2> QED BY <1>0, <2>1, <2>2, <2>3, FinishShown
<1>5. ASSUME harvest(a) PROVE BoardStep
  <2>1. pend[a].pc # "none"
    BY <1>5 DEF harvest, Errors
  <2>2. att[a].state \in Live /\ ~att[a].cleanup_confirmed
    BY <2>1, Reading DEF Local, WorkOK, RowOK
  <2>3. ASSUME NEW reason, finish(a, att[a], reason, TRUE) PROVE BoardStep
    BY <1>0, <2>2, <2>3, FinishShown
  <2>4. ASSUME NEW progress \in {"none", "open", "complete"}, NEW done \in BOOLEAN, proc' = proc,
               att' = [att EXCEPT ![a] = [att[a] EXCEPT !.prepared_runtime = @ \/ done, !.input_progress = progress]]
        PROVE  BoardStep
    <3> DEFINE r == [att[a] EXCEPT !.prepared_runtime = @ \/ done, !.input_progress = progress]
    <3>1. /\ r \in AttemptRows /\ r.state = att[a].state /\ r.cleanup_confirmed = att[a].cleanup_confirmed
          /\ r.lease_sequence = att[a].lease_sequence /\ r.lease_expires_at = att[a].lease_expires_at
          /\ r.outcome = att[a].outcome /\ r.prepared_runtime = (att[a].prepared_runtime \/ done)
      BY Reading DEF AttemptRows
    <3>2. att' = [att EXCEPT ![a] = r]
      BY <2>4
    <3> HIDE DEF r
    <3>3. CASE r.prepared_runtime = att[a].prepared_runtime \/ att[a].state # "prepared"
      <4>1. \A b \in Attempts : att'[b] = IF b = a THEN r ELSE att[b]
        BY <3>2 DEF Inv, Ledger, LedgerTypes
      <4>2. \A b \in Attempts : public(b)' = public(b)
        BY <3>1, <3>3, <4>1 DEF public
      <4> QED BY <2>4, <4>2, Unseen
    <3>4. CASE att[a].state = "prepared" /\ ~att[a].prepared_runtime /\ r.prepared_runtime
      <4> DEFINE u == [public(a) EXCEPT !.ready = TRUE]
      <4>1. u \in [state : {r.state}, cleanup_confirmed : {r.cleanup_confirmed},
                   lease_sequence : {r.lease_sequence}, lease_expires_at : {r.lease_expires_at},
                   ready : {r.prepared_runtime /\ r.state = "prepared"}, outcome : {r.outcome}]
        BY <3>1, <3>4, PublicRow
      <4> HIDE DEF u
      <4>2. Shown' = [Shown EXCEPT ![a] = u] /\ Shown[a] = public(a)
        BY <2>4, <3>1, <3>2, <4>1, ShownAs, Reading DEF Inv, Ledger
      <4>3. Shown' = [Shown EXCEPT ![a].ready = TRUE] /\ Running' = Running /\ Launched' = Launched
        BY <2>4, <4>2 DEF u, Running, Launched
      <4>4. Board!BecomeReady(a)
        BY <3>4, <4>2, <4>3 DEF Board!BecomeReady, Shown, Running, Launched, public
      <4> QED BY <4>4 DEF BoardStep, Board!BoardNext
    <3>5. att[a].prepared_runtime \in BOOLEAN
      BY Reading DEF AttemptRows
    <3> QED BY <3>1, <3>3, <3>4, <3>5
  <2>5. att[a].input_progress \in {"none", "open", "complete"}
    BY Reading DEF AttemptRows
  <2> QED BY <1>5, <2>3, <2>4, <2>5 DEF harvest
<1> QED BY <1>1, <1>2, <1>3, <1>4, <1>5 DEF tick

(* An admission and a refusal enter over released, older attempts. *)
LEMMA PlanShown ==
  ASSUME Inv, NEW a \in Attempts,
         \/ \E rev \in 1..MaxRev, exp \in 1..(MaxTime + MaxLease) : prepare(a, rev, exp)
         \/ reject_absent(a)
  PROVE  BoardStep
<1>0. /\ att[a].state = "absent" /\ proc' = proc /\ att[a] = Absent
      /\ proc' = [proc EXCEPT ![a] = proc[a]] /\ proc[a] \in Procs
      /\ Running' = Running /\ Launched' = Launched
  BY Reading DEF prepare, reject_absent, Local, RowOK, Running, Launched
<1>1. Unfenced(a) => Board!Newest(a)
  BY DEF Unfenced, Board!Newest, public
<1>2. /\ att[a].state = "absent" /\ att[a].cleanup_confirmed = FALSE /\ att[a].lease_sequence = 0
      /\ att[a].lease_expires_at = 0 /\ att[a].outcome = None
      /\ (att[a].prepared_runtime /\ att[a].state = "prepared") = FALSE
  BY <1>0 DEF Absent
<1>3. LedgerTypes
  BY DEF Inv, Ledger
<1>4. ASSUME reject(a) PROVE BoardStep
  <2> DEFINE r == [Absent EXCEPT !.state = "failed", !.cleanup_confirmed = TRUE]
             u == [public(a) EXCEPT !.state = "failed", !.cleanup_confirmed = TRUE]
  <2>1. att' = [att EXCEPT ![a] = r] /\ Unfenced(a)
    BY <1>4 DEF reject
  <2>2. /\ r \in AttemptRows /\ r.state = "failed" /\ r.cleanup_confirmed = TRUE
        /\ r.lease_sequence = 0 /\ r.lease_expires_at = 0 /\ r.prepared_runtime = FALSE /\ r.outcome = None
    BY FreshTypes DEF Absent, AttemptRows, States, TERMINAL
  <2>3. public(a) \in [state : {"absent"}, cleanup_confirmed : {FALSE}, lease_sequence : {0}, lease_expires_at : {0},
                       ready : {FALSE}, outcome : {None}]
    BY <1>2, PublicRow
  <2> HIDE DEF r
  <2>4. u \in [state : {r.state}, cleanup_confirmed : {r.cleanup_confirmed},
               lease_sequence : {r.lease_sequence}, lease_expires_at : {r.lease_expires_at},
               ready : {r.prepared_runtime /\ r.state = "prepared"}, outcome : {r.outcome}]
    BY <2>2, <2>3
  <2> HIDE DEF u
  <2>5. Shown' = [Shown EXCEPT ![a] = u] /\ Shown[a] = public(a)
    <3>1. r \in AttemptRows
      BY <2>2
    <3>2. att' = [att EXCEPT ![a] = r] /\ proc' = [proc EXCEPT ![a] = proc[a]] /\ proc[a] \in Procs
      BY <1>0, <2>1
    <3> QED BY <1>3, <2>4, <3>1, <3>2, ShownAs
  <2>6. Shown' = [Shown EXCEPT ![a] = [@ EXCEPT !.state = "failed", !.cleanup_confirmed = TRUE]]
    BY <2>5 DEF u
  <2>7. Board!SealPlan(a)
    BY <1>0, <1>1, <2>1, <2>5, <2>6 DEF Board!SealPlan, Shown, Running, Launched, public
  <2> QED BY <2>7 DEF BoardStep, Board!BoardNext
<1>5. ASSUME NEW rev \in 1..MaxRev, NEW exp \in 1..(MaxTime + MaxLease), Admit(a, rev, exp) PROVE BoardStep
  <2>1. PICK s \in Slots :
          /\ Admissible(a, rev, exp)
          /\ att' = [att EXCEPT ![a] =
               deadline([Absent EXCEPT !.state = "prepared", !.slot = s, !.offer_revision = rev], 1, exp)]
    BY <1>5 DEF Admit
  <2> DEFINE r0 == [Absent EXCEPT !.state = "prepared", !.slot = s, !.offer_revision = rev]
             r == deadline(r0, 1, exp)
             u == [public(a) EXCEPT !.state = "prepared", !.lease_sequence = 1, !.lease_expires_at = exp]
  <2>2. InLease(exp) /\ Unfenced(a) /\ exp \in Nat /\ 1 \in 1..MaxSeq
    BY <2>1, BoundAssumption DEF Admissible
  <2>3. /\ r0 \in AttemptRows /\ r0.state = "prepared" /\ r0.cleanup_confirmed = FALSE
        /\ r0.prepared_runtime = FALSE /\ r0.outcome = None
    <3>1. rev \in 0..MaxRev /\ s \in Slots \cup {None} /\ "prepared" \in States
      BY BoundAssumption DEF States, Live
    <3>2. \A t \in AttemptRows : [t EXCEPT !.state = "prepared", !.slot = s, !.offer_revision = rev] \in AttemptRows
      BY <3>1 DEF AttemptRows
    <3> QED BY <3>2, FreshTypes DEF Absent
  <2>4. att' = [att EXCEPT ![a] = r]
    BY <2>1
  <2> HIDE DEF r0
  <2>5. /\ r \in AttemptRows /\ r.state = "prepared" /\ r.cleanup_confirmed = FALSE
        /\ r.lease_sequence = 1 /\ r.lease_expires_at = exp /\ r.prepared_runtime = FALSE /\ r.outcome = None
    BY <2>2, <2>3, DeadlineRow DEF Inv
  <2> HIDE DEF r
  <2>6. public(a) \in [state : {"absent"}, cleanup_confirmed : {FALSE}, lease_sequence : {0}, lease_expires_at : {0},
                       ready : {FALSE}, outcome : {None}]
    BY <1>2, PublicRow
  <2>7. u \in [state : {r.state}, cleanup_confirmed : {r.cleanup_confirmed},
               lease_sequence : {r.lease_sequence}, lease_expires_at : {r.lease_expires_at},
               ready : {r.prepared_runtime /\ r.state = "prepared"}, outcome : {r.outcome}]
    BY <2>5, <2>6
  <2> HIDE DEF u
  <2>8. Shown' = [Shown EXCEPT ![a] = u] /\ Shown[a] = public(a)
    BY <1>0, <2>4, <2>5, <2>7, ShownAs DEF Inv, Ledger
  <2>9. Shown' = [Shown EXCEPT ![a] = [@ EXCEPT !.state = "prepared", !.lease_sequence = 1, !.lease_expires_at = exp]]
    BY <2>8 DEF u
  <2>10. Board!AdmitPlan(a, exp)
    BY <1>0, <1>1, <2>2, <2>8, <2>9 DEF Board!AdmitPlan, Shown, Running, Launched, public
  <2> QED BY <2>10 DEF BoardStep, Board!BoardNext
<1> QED BY <1>4, <1>5 DEF prepare, reject_absent

(* A renewal extends the lease; an accepted start is shown at once. *)
LEMMA LeaseShown ==
  ASSUME Inv, NEW a \in Attempts,
         \/ \E seq \in 2..MaxSeq, exp \in 1..(MaxTime + MaxLease) : renew(a, seq, exp)
         \/ start(a)
  PROVE  BoardStep
<1>0. /\ proc' = [proc EXCEPT ![a] = proc[a]] /\ proc[a] \in Procs /\ Running' = Running /\ Launched' = Launched
  BY Reading DEF renew, start, Running, Launched
<1>1. ASSUME NEW seq \in 2..MaxSeq, NEW exp \in 1..(MaxTime + MaxLease), renew(a, seq, exp) PROVE BoardStep
  <2> DEFINE r == deadline(att[a], seq, exp)
             u == [public(a) EXCEPT !.lease_sequence = seq, !.lease_expires_at = exp]
  <2>1. /\ att[a].state \in Live /\ InLease(exp) /\ seq \in 1..MaxSeq /\ exp \in Nat /\ seq > att[a].lease_sequence
        /\ att' = [att EXCEPT ![a] = r]
    BY <1>1, BoundAssumption DEF renew
  <2>2. /\ r \in AttemptRows /\ r.lease_sequence = seq /\ r.lease_expires_at = exp /\ r.state = att[a].state
        /\ r.cleanup_confirmed = att[a].cleanup_confirmed /\ r.prepared_runtime = att[a].prepared_runtime
        /\ r.outcome = att[a].outcome
    BY <2>1, DeadlineRow, Reading DEF Inv
  <2> HIDE DEF r
  <2>3. u \in [state : {r.state}, cleanup_confirmed : {r.cleanup_confirmed},
               lease_sequence : {r.lease_sequence}, lease_expires_at : {r.lease_expires_at},
               ready : {r.prepared_runtime /\ r.state = "prepared"}, outcome : {r.outcome}]
    BY <2>2, PublicRow
  <2> HIDE DEF u
  <2>4. Shown' = [Shown EXCEPT ![a] = u] /\ Shown[a] = public(a)
    BY <1>0, <2>1, <2>2, <2>3, ShownAs DEF Inv, Ledger
  <2>5. Shown' = [Shown EXCEPT ![a] = [@ EXCEPT !.lease_sequence = seq, !.lease_expires_at = exp]]
    BY <2>4 DEF u
  <2>6. Board!ExtendLease(a, seq, exp)
    BY <1>0, <2>1, <2>4, <2>5 DEF Board!ExtendLease, Board!Going, Live, Shown, Running, Launched, public
  <2> QED BY <2>1, <2>6 DEF BoardStep, Board!BoardNext
<1>2. ASSUME start(a) PROVE BoardStep
  <2> DEFINE r == [att[a] EXCEPT !.state = "starting"]
             u == [public(a) EXCEPT !.state = "starting", !.ready = FALSE]
  <2>1. att[a].state = "prepared" /\ att[a].prepared_runtime /\ att' = [att EXCEPT ![a] = r]
    BY <1>2 DEF start
  <2>2. /\ r \in AttemptRows /\ r.state = "starting" /\ r.lease_sequence = att[a].lease_sequence
        /\ r.lease_expires_at = att[a].lease_expires_at /\ r.cleanup_confirmed = att[a].cleanup_confirmed
        /\ r.outcome = att[a].outcome
    BY Reading DEF AttemptRows, States, Live
  <2> HIDE DEF r
  <2>3. u \in [state : {r.state}, cleanup_confirmed : {r.cleanup_confirmed},
               lease_sequence : {r.lease_sequence}, lease_expires_at : {r.lease_expires_at},
               ready : {r.prepared_runtime /\ r.state = "prepared"}, outcome : {r.outcome}]
    BY <2>2, PublicRow
  <2> HIDE DEF u
  <2>4. Shown' = [Shown EXCEPT ![a] = u] /\ Shown[a] = public(a)
    BY <1>0, <2>1, <2>2, <2>3, ShownAs DEF Inv, Ledger
  <2>5. Shown' = [Shown EXCEPT ![a] = [@ EXCEPT !.state = "starting", !.ready = FALSE]]
    BY <2>4 DEF u
  <2>6. Board!AcceptStart(a)
    BY <1>0, <2>1, <2>4, <2>5 DEF Board!AcceptStart, Shown, Running, Launched, public
  <2> QED BY <2>6 DEF BoardStep, Board!BoardNext
<1> QED BY <1>1, <1>2

(* The pool launches a unit once and confirms its start. *)
LEMMA PoolShown ==
  ASSUME Inv, NEW a \in Attempts, Workers(a)
  PROVE  BoardStep
<1>0. LedgerTypes /\ Local(att[a], pend[a], proc[a]) /\ att[a] \in AttemptRows
  BY Reading DEF Inv, Ledger
<1>1. ASSUME att' = att, proc' = proc PROVE BoardStep
  BY <1>1, Unseen DEF public
<1>2. ASSUME att' = att, pend[a].pc = "cleared", proc' = [proc EXCEPT ![a] = "ready"] PROVE BoardStep
  <2>1. att[a].state = "starting" /\ proc[a] = "none"
    BY <1>0, <1>2 DEF Local, WorkOK
  <2>2. Shown' = Shown
    BY <1>2 DEF Shown, public
  <2>3. Running' = Running \cup {a} /\ Launched' = Launched \cup {a}
    BY <1>0, <1>2 DEF LedgerTypes, Running, Launched, Alive
  <2>4. Board!LaunchUnit(a)
    BY <2>1, <2>2, <2>3 DEF Board!LaunchUnit, Shown, Running, Launched, public
  <2> QED BY <2>4 DEF BoardStep, Board!BoardNext
<1>3. ASSUME initialize(a) \/ prepare_runtime(a) PROVE BoardStep
  BY <1>1, <1>3 DEF initialize, prepare_runtime
<1>4. ASSUME launch(a) PROVE BoardStep
  BY <1>1, <1>2, <1>4 DEF launch
<1>5. ASSUME WorkerFails(a) PROVE BoardStep
  BY <1>1, <1>2, <1>5 DEF WorkerFails
<1>6. ASSUME att[a].state = "starting", att' = [att EXCEPT ![a].state = "running"], proc' = proc PROVE BoardStep
  <2> DEFINE r == [att[a] EXCEPT !.state = "running"]
             u == [public(a) EXCEPT !.state = "running"]
  <2>1. att' = [att EXCEPT ![a] = r] /\ proc' = [proc EXCEPT ![a] = proc[a]] /\ proc[a] \in Procs
    BY <1>6, Reading
  <2>2. /\ r \in AttemptRows /\ r.state = "running" /\ r.lease_sequence = att[a].lease_sequence
        /\ r.lease_expires_at = att[a].lease_expires_at /\ r.cleanup_confirmed = att[a].cleanup_confirmed
        /\ r.outcome = att[a].outcome
    BY <1>0 DEF AttemptRows, States, Live
  <2> HIDE DEF r
  <2>3. u \in [state : {r.state}, cleanup_confirmed : {r.cleanup_confirmed},
               lease_sequence : {r.lease_sequence}, lease_expires_at : {r.lease_expires_at},
               ready : {r.prepared_runtime /\ r.state = "prepared"}, outcome : {r.outcome}]
    BY <1>6, <2>2, PublicRow
  <2> HIDE DEF u
  <2>4. Shown' = [Shown EXCEPT ![a] = u] /\ Shown[a] = public(a)
    BY <1>0, <2>1, <2>2, <2>3, ShownAs
  <2>5. Shown' = [Shown EXCEPT ![a].state = "running"] /\ Running' = Running /\ Launched' = Launched
    BY <1>6, <2>4 DEF u, Running, Launched
  <2>6. Board!ConfirmStart(a)
    BY <1>6, <2>4, <2>5 DEF Board!ConfirmStart, Shown, Running, Launched, public
  <2> QED BY <2>6 DEF BoardStep, Board!BoardNext
<1>7. ASSUME \/ att' = [att EXCEPT ![a].engine_released = TRUE]
             \/ att' = [att EXCEPT ![a].payload_released = TRUE],
             proc' = proc
      PROVE  BoardStep
  <2>1. \A b \in Attempts : public(b)' = public(b)
    <3>1. \A b \in Attempts : att[b] \in AttemptRows
      BY <1>0 DEF LedgerTypes
    <3>2. \A b \in Attempts :
            /\ att'[b].state = att[b].state /\ att'[b].cleanup_confirmed = att[b].cleanup_confirmed
            /\ att'[b].lease_sequence = att[b].lease_sequence /\ att'[b].lease_expires_at = att[b].lease_expires_at
            /\ att'[b].prepared_runtime = att[b].prepared_runtime /\ att'[b].outcome = att[b].outcome
      BY <1>0, <1>7, <3>1 DEF LedgerTypes, AttemptRows
    <3> QED BY <3>2 DEF public
  <2> QED BY <1>7, <2>1, Unseen
<1>8. ASSUME Publish(a) PROVE BoardStep
  <2>1. \A b \in Attempts : (proc'[b] \in Alive => proc[b] \in Alive) /\ (proc'[b] = "none" <=> proc[b] = "none")
    BY <1>0, <1>8 DEF Publish, LedgerTypes, Alive
  <2>2. \A b \in Attempts : public(b)' = public(b)
    BY <1>8 DEF Publish, public
  <2> QED BY <2>1, <2>2, Unseen
<1>9. ASSUME ReleaseBarrier(a) PROVE BoardStep
  BY <1>1, <1>6, <1>7, <1>8, <1>9 DEF ReleaseBarrier
<1> QED BY <1>3, <1>4, <1>5, <1>9 DEF Workers

(* A release keeps the outcome it found. *)
LEMMA ReleaseShown ==
  ASSUME Inv, NEW a \in Attempts, release(a) \/ ReleaseEnds(a)
  PROVE  BoardStep
<1>0. LedgerTypes /\ att[a] \in AttemptRows /\ proc' = proc
  BY Reading DEF Inv, Ledger, release, ReleaseEnds
<1>1. CASE att' = att
  BY <1>0, <1>1, Unseen DEF public
<1>2. CASE att' # att
  <2>1. att[a].state \in TERMINAL \cup {"unknown"} /\ att[a].cleanup_confirmed
    BY DEF release, ReleaseEnds, Inv, Process
  <2>2. PICK r \in {[att[a] EXCEPT !.outcome = att[a].state, !.state = "released"],
                    [att[a] EXCEPT !.outcome = att[a].state, !.state = "released", !.slot = None]} :
          att' = [att EXCEPT ![a] = r]
    BY <1>0, <1>2 DEF release, ReleaseEnds, LedgerTypes
  <2>3. /\ r \in AttemptRows /\ r.state = "released" /\ r.outcome = att[a].state
        /\ r.lease_sequence = att[a].lease_sequence /\ r.lease_expires_at = att[a].lease_expires_at
        /\ r.cleanup_confirmed = att[a].cleanup_confirmed
    BY <1>0, <2>1, <2>2 DEF AttemptRows, States
  <2> DEFINE u == [public(a) EXCEPT !.state = "released", !.outcome = public(a).state]
  <2>4. u \in [state : {r.state}, cleanup_confirmed : {r.cleanup_confirmed},
               lease_sequence : {r.lease_sequence}, lease_expires_at : {r.lease_expires_at},
               ready : {r.prepared_runtime /\ r.state = "prepared"}, outcome : {r.outcome}]
    <3>1. (att[a].prepared_runtime /\ att[a].state = "prepared") = FALSE
          /\ (r.prepared_runtime /\ r.state = "prepared") = FALSE
      BY <2>1, <2>3 DEF TERMINAL
    <3> QED BY <2>3, <3>1, PublicRow
  <2> HIDE DEF u
  <2>5. Shown' = [Shown EXCEPT ![a] = u] /\ Shown[a] = public(a)
    <3>1. proc' = [proc EXCEPT ![a] = proc[a]] /\ proc[a] \in Procs
      BY <1>0, Reading
    <3> QED BY <1>0, <2>2, <2>3, <2>4, <3>1, ShownAs
  <2>6. Shown' = [Shown EXCEPT ![a] = [@ EXCEPT !.state = "released", !.outcome = Shown[a].state]]
    BY <2>5 DEF u
  <2>7. Running' = Running /\ Launched' = Launched
    BY <1>0 DEF Running, Launched
  <2>8. Board!FreeAttempt(a)
    BY <2>1, <2>5, <2>6, <2>7 DEF Board!FreeAttempt, Board!Final, TERMINAL, Shown, Running, Launched, public
  <2> QED BY <2>8 DEF BoardStep, Board!BoardNext
<1> QED BY <1>1, <1>2

(* A confirmed empty slot settles what was uncertain, and only that. *)
LEMMA RecoverStorageShown ==
  ASSUME Inv, NEW a \in Attempts, recover_storage(a)
  PROVE  BoardStep
<1> DEFINE st == IF att[a].state \in TERMINAL THEN att[a].state ELSE "unknown"
           r == [att[a] EXCEPT !.cleanup_confirmed = TRUE, !.state = st]
<1>1. /\ att[a].slot # None /\ proc' = [proc EXCEPT ![a] = Kill(@)]
      /\ att' = [att EXCEPT ![a].cleanup_confirmed = TRUE, ![a].state = IF @ \in TERMINAL THEN @ ELSE "unknown"]
  BY DEF recover_storage
<1>2. LedgerTypes /\ att[a] \in AttemptRows /\ Local(att[a], pend[a], proc[a])
  BY Reading DEF Inv, Ledger
<1>3. att' = [att EXCEPT ![a] = r]
  BY <1>1, <1>2 DEF LedgerTypes
<1>4. st \in TERMINAL \cup {"unknown"} /\ (st # "unknown" => st = att[a].state)
      /\ (att[a].state \notin TERMINAL => st = "unknown")
  BY DEF TERMINAL
<1> HIDE DEF st
<1>5. /\ r \in AttemptRows /\ r.state = st /\ r.cleanup_confirmed = TRUE
      /\ r.lease_sequence = att[a].lease_sequence /\ r.lease_expires_at = att[a].lease_expires_at
      /\ r.outcome = att[a].outcome /\ r.prepared_runtime = att[a].prepared_runtime
  BY <1>2, <1>4 DEF AttemptRows, States
<1> HIDE DEF r
<1>6. proc' = [proc EXCEPT ![a] = Kill(proc[a])] /\ Kill(proc[a]) \in Procs
  BY <1>1, KillType, Reading
<1>7. CASE att[a].state \in Live \/ (att[a].state = "unknown" /\ ~att[a].cleanup_confirmed)
  <2>1. st = "unknown"
    BY <1>4, <1>7 DEF Live, TERMINAL
  <2> QED BY <1>3, <1>4, <1>5, <1>6, <1>7, <2>1, SettleShown
<1>8. CASE ~(att[a].state \in Live \/ (att[a].state = "unknown" /\ ~att[a].cleanup_confirmed))
  <2>1. att[a].state \in TERMINAL \cup {"unknown"} /\ att[a].cleanup_confirmed
    BY <1>1, <1>2, <1>8 DEF Local, RowOK, Absent, AttemptRows, States
  <2>2. r.state = att[a].state /\ r.cleanup_confirmed = att[a].cleanup_confirmed
    <3>1. att[a].cleanup_confirmed = TRUE
      BY <1>2, <2>1 DEF AttemptRows
    <3>2. st = att[a].state
      BY <1>4, <2>1 DEF st, TERMINAL
    <3> QED BY <1>5, <3>1, <3>2
  <2>3. \A b \in Attempts : att'[b] = IF b = a THEN r ELSE att[b]
    BY <1>2, <1>3 DEF LedgerTypes
  <2>4. \A b \in Attempts : public(b)' = public(b)
    BY <1>5, <2>2, <2>3 DEF public
  <2>5. \A b \in Attempts : (proc'[b] \in Alive => proc[b] \in Alive) /\ (proc'[b] = "none" <=> proc[b] = "none")
    BY <1>2, <1>6, KillType DEF LedgerTypes
  <2> QED BY <2>4, <2>5, Unseen
<1> QED BY <1>7, <1>8

(* A new offer, the clocks and the process itself show nothing; a crash, a  *)
(* reboot and the workload itself can only end units.                       *)
LEMMA OutsideShown ==
  ASSUME Inv, \/ Owner \/ Shutdown \/ Crash \/ Restart \/ serve \/ Advance \/ SetWall
              \/ \E admits \in Admits : WindowTurns(admits)
              \/ \E a \in Attempts : input_write(a) \/ ReapBound(a) \/ Workload(a)
  PROVE  BoardStep
<1>0. LedgerTypes /\ \A a \in Attempts : (Kill(proc[a]) \notin Alive) /\ (Kill(proc[a]) = "none" <=> proc[a] = "none")
  BY KillType DEF Inv, Ledger, LedgerTypes
<1>1. \A a \in Attempts : (proc'[a] \in Alive => proc[a] \in Alive) /\ (proc'[a] = "none" <=> proc[a] = "none")
  <2>1. CASE \/ Owner \/ Shutdown \/ Restart \/ serve \/ Advance \/ SetWall
             \/ \E admits \in Admits : WindowTurns(admits)
             \/ \E a \in Attempts : input_write(a)
    BY <2>1 DEF Owner, set_offer, reconfigure, Shutdown, Restart, serve, Advance, SetWall, WindowTurns, input_write
  <2>2. CASE Crash
    BY <1>0, <2>2 DEF Crash
  <2>3. CASE \E a \in Attempts : ReapBound(a) \/ Workload(a)
    BY <1>0, <2>3 DEF ReapBound, Workload, LedgerTypes, Alive, Exited
  <2> QED BY <2>1, <2>2, <2>3
<1>2. \A a \in Attempts : public(a)' = public(a)
  <2>1. CASE att' = att
    BY <2>1 DEF public
  <2>2. ASSUME NEW control \in Controls, NEW cpu \in Limits, NEW admits \in Admits, set_offer(control, cpu, admits)
        PROVE  \A a \in Attempts : public(a)' = public(a)
    <3>1. \A a \in Attempts : Restopped(att'[a], att[a]) /\ att[a] \in AttemptRows
      BY <1>0, <2>2, RestoppedSelf DEF set_offer, LedgerTypes, Restopped, Reasons
    <3>2. \A a \in Attempts :
            /\ att'[a].state = att[a].state /\ att'[a].cleanup_confirmed = att[a].cleanup_confirmed
            /\ att'[a].lease_sequence = att[a].lease_sequence /\ att'[a].lease_expires_at = att[a].lease_expires_at
            /\ att'[a].prepared_runtime = att[a].prepared_runtime /\ att'[a].outcome = att[a].outcome
      BY <3>1, RestoppedRow
    <3> QED BY <3>2 DEF public
  <2> QED BY <2>1, <2>2 DEF Owner, reconfigure, Shutdown, Crash, Restart, serve, Advance, SetWall, WindowTurns,
             input_write, ReapBound, Workload
<1> QED BY <1>1, <1>2, Unseen

(* An input write that ends shows a cleanup or nothing. *)
LEMMA InputShown ==
  ASSUME Inv, NEW a \in Attempts, InputWriteEnds(a)
  PROVE  BoardStep
<1> DEFINE reason == IF att[a].pending_stop # None THEN att[a].pending_stop
                     ELSE IF current(a) = "ok" /\ att[a].state = "prepared" THEN "prepare_failed"
                     ELSE "expired"
<1>1. reason \in Reasons
  BY Reading DEF AttemptRows, Reasons
<1>2. \/ StopWith(a, reason)
      \/ /\ proc' = proc
         /\ \E more \in {"open", "complete"} : att' = [att EXCEPT ![a] = [att[a] EXCEPT !.input_progress = more]]
  BY DEF InputWriteEnds
<1> HIDE DEF reason
<1>3. CASE StopWith(a, reason)
  BY <1>1, <1>3, StopShown
<1>4. ASSUME proc' = proc, NEW more, att' = [att EXCEPT ![a] = [att[a] EXCEPT !.input_progress = more]]
      PROVE  BoardStep
  <2>1. \A b \in Attempts :
          /\ att'[b].state = att[b].state /\ att'[b].cleanup_confirmed = att[b].cleanup_confirmed
          /\ att'[b].lease_sequence = att[b].lease_sequence /\ att'[b].lease_expires_at = att[b].lease_expires_at
          /\ att'[b].prepared_runtime = att[b].prepared_runtime /\ att'[b].outcome = att[b].outcome
    BY <1>4 DEF Inv, Ledger, LedgerTypes, AttemptRows
  <2>2. \A b \in Attempts : public(b)' = public(b)
    BY <2>1 DEF public
  <2> QED BY <1>4, <2>2, Unseen
<1> QED BY <1>2, <1>3, <1>4

(* Every step of the executor is a step of the board or shows nothing. *)
LEMMA NextShown == Inv /\ [Next]_vars => BoardStep
<1> SUFFICES ASSUME Inv, [Next]_vars PROVE BoardStep
  OBVIOUS
<1>1. ASSUME NEW a \in Attempts, Handlers(a) PROVE BoardStep
  <2>1. CASE request_stop(a)
    BY <2>1, StopShown DEF request_stop, Reasons
  <2> QED BY <1>1, <2>1, PlanShown, LeaseShown, ReleaseShown, OutsideShown DEF Handlers
<1>2. ASSUME NEW a \in Attempts, ReleaseEnds(a) \/ InputWriteEnds(a) PROVE BoardStep
  BY <1>2, ReleaseShown, InputShown
<1>3. ASSUME NEW a \in Attempts, StopRetained(a) PROVE BoardStep
  BY <1>3, StopShown DEF StopRetained, Reasons
<1>4. ASSUME NEW a \in Attempts, Workers(a) \/ Monitor(a) \/ recover(a) \/ recover_storage(a) PROVE BoardStep
  BY <1>4, PoolShown, MonitorShown, RecoverStorageShown DEF Monitor
<1>5. ASSUME NEW a \in Attempts, ReapBound(a) \/ Workload(a) PROVE BoardStep
  BY <1>5, OutsideShown
<1>6. CASE \/ Owner \/ Shutdown \/ Crash \/ Restart \/ serve \/ Advance \/ SetWall
           \/ \E admits \in Admits : WindowTurns(admits)
  BY <1>6, OutsideShown
<1>7. CASE UNCHANGED vars
  BY <1>7, Unseen DEF vars, public
<1> QED BY <1>1, <1>2, <1>3, <1>4, <1>5, <1>6, <1>7 DEF Next

(* The executor implements the board: whatever its pool, its monitor, a     *)
(* crash and an administrator do, the records it lists and the units that   *)
(* live change only as ExecutorBoard lets them, which is what               *)
(* ContributorWorkloads takes an executor to be.                            *)
THEOREM BoardImplemented == Spec => ImplementsBoard
<1>1. Init => Board!BoardInit
  <2> SUFFICES ASSUME Init PROVE Board!BoardInit
    OBVIOUS
  <2>1. \A a \in Attempts : att[a] = Absent /\ proc[a] = "none"
    BY DEF Init
  <2>2. ASSUME NEW a \in Attempts PROVE public(a) = Board!Unlisted
    <3>1. /\ att[a].state = "absent" /\ att[a].cleanup_confirmed = FALSE /\ att[a].lease_sequence = 0
          /\ att[a].lease_expires_at = 0 /\ att[a].outcome = None
          /\ (att[a].prepared_runtime /\ att[a].state = "prepared") = FALSE
      BY <2>1 DEF Absent
    <3>2. public(a) \in [state : {"absent"}, cleanup_confirmed : {FALSE}, lease_sequence : {0}, lease_expires_at : {0},
                         ready : {FALSE}, outcome : {None}]
      BY <3>1, PublicRow
    <3> QED BY <3>2 DEF Board!Unlisted
  <2>3. [a \in Attempts |-> public(a)] = [a \in Attempts |-> Board!Unlisted]
    BY <2>2
  <2>4. {a \in Attempts : proc[a] \in Alive} = {} /\ {a \in Attempts : proc[a] # "none"} = {}
    BY <2>1 DEF Alive
  <2> QED BY <2>3, <2>4 DEF Board!BoardInit
<1>2. Inv /\ [Next]_vars => [Board!BoardNext]_(Board!boardVars)
  BY NextShown DEF BoardStep
<1> QED BY <1>1, <1>2, InOrder, PTL DEF Spec, ImplementsBoard, Board!BoardSpec
=============================================================================
