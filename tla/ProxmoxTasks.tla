---------------------------- MODULE ProxmoxTasks ----------------------------
(***************************************************************************)
(* Power operations on one Proxmox VM.  The controller keeps an operation, *)
(* the node's helper a receipt, the provider a task that outlives both and *)
(* works under the VM's configuration lock.  Requests of the controller    *)
(* hold its admission lock; an apply request may arrive after the          *)
(* controller gave it up.                                                  *)
(***************************************************************************)
EXTENDS Naturals

CONSTANTS
    Op,
    MaxChange,   \* bound: changes of the VM by others
    MaxFault,    \* bound: lost replies, restarts and provider failures
    None

VARIABLES
    vm,         \* [state, def]: power state and definition
    lock,       \* operation whose task holds the configuration lock, or None
    op,         \* Op -> the controller's record: [st, exp, task, cleanup, live]
    receipt,    \* Op -> [st, task] on the node, or None
    task,       \* Op -> what the provider's worker does, or None
    acted,      \* Op -> the VM a task acted on, or None
    known,      \* operations whose task identity the node has recorded
    helper,     \* the apply request the node works on: [o, forked], or None
    wire,       \* apply requests under way to the node
    job,        \* what holds the admission lock: [o, step, resolve], or None
    resolving,  \* operations an owner resolves, between the two locks
    changes, faults

control == <<op, job, resolving>>
provider == <<vm, lock, task, acted, changes>>
node == <<receipt, known, helper, wire>>
vars == <<control, provider, node, faults>>

Terminal == {"refused", "observed", "resolved", "failed"}
Unfinished == {"queued", "dispatching", "unknown", "accepted"}
Stopped == {"ok", "error"}
TaskState == {"running", "unreadable"} \cup Stopped
Record(st) == [st |-> st, exp |-> vm, task |-> None, cleanup |-> FALSE, live |-> FALSE]

Init ==
    /\ vm = [state |-> "off", def |-> 0] /\ lock = None /\ op = [o \in Op |-> Record("none")]
    /\ receipt = [o \in Op |-> None] /\ task = receipt /\ acted = receipt /\ known = {} /\ helper = None
    /\ wire = {} /\ job = None /\ resolving = {} /\ changes = 0 /\ faults = 0

Fault == faults < MaxFault /\ faults' = faults + 1
Put(o, st) == op' = [op EXCEPT ![o].st = st, ![o].live = FALSE]

-----------------------------------------------------------------------------
(* Preview and commit.                                                      *)

Preview(o) ==
    /\ op[o].st = "none" /\ op' = [op EXCEPT ![o] = Record("preview")]
    /\ UNCHANGED <<job, resolving, provider, node, faults>>

(* One unfinished operation per VM; it is stored before anything is sent. *)
Commit(o) ==
    /\ job = None /\ op[o].st = "preview" /\ \A p \in Op : op[p].st \notin Unfinished
    /\ op' = [op EXCEPT ![o].st = "queued", ![o].live = TRUE] /\ UNCHANGED <<job, resolving, provider, node, faults>>

Refuse(o) == op[o].st = "queued" /\ op[o].live /\ Put(o, "refused") /\ UNCHANGED <<job, resolving, provider, node, faults>>

Dispatch(o) ==
    /\ op[o].st = "queued" /\ op[o].live /\ op' = [op EXCEPT ![o].st = "dispatching"] /\ wire' = wire \cup {o}
    /\ UNCHANGED <<job, resolving, receipt, known, helper, provider, faults>>

(* The reply is lost or too late; the request may still arrive. *)
Lost(o) ==
    /\ op[o].st = "dispatching" /\ op[o].live /\ Fault /\ Put(o, "unknown")
    /\ UNCHANGED <<job, resolving, provider, node>>

-----------------------------------------------------------------------------
(* The node's helper.                                                       *)

Reply(o, st, t) ==
    op' = IF op[o].live THEN [op EXCEPT ![o].st = st, ![o].task = t, ![o].live = FALSE] ELSE op

(* A durable intent precedes the provider. *)
ApplyBegin(o) ==
    /\ o \in wire /\ helper = None /\ wire' = wire \ {o} /\ helper' = [o |-> o, forked |-> FALSE]
    /\ receipt' = [receipt EXCEPT ![o] = [st |-> "dispatching", task |-> None]]
    /\ UNCHANGED <<control, known, provider, faults>>

(* Another request holds the receipts' lock. *)
ApplyBusy(o) ==
    /\ o \in wire /\ helper # None /\ wire' = wire \ {o} /\ Reply(o, "unknown", None)
    /\ UNCHANGED <<job, resolving, receipt, known, helper, provider, faults>>

Fork ==
    /\ helper # None /\ ~helper.forked /\ helper' = [helper EXCEPT !.forked = TRUE]
    /\ task' = [task EXCEPT ![helper.o] = "waiting"]
    /\ UNCHANGED <<control, receipt, known, wire, vm, lock, acted, changes, faults>>

(* The bridge names the task, fails, or exceeds its time after the fork. *)
Answer ==
    /\ helper # None /\ helper' = None
    /\ LET o == helper.o IN
       \/ /\ helper.forked /\ Reply(o, "accepted", "running") /\ known' = known \cup {o} /\ UNCHANGED faults
          /\ receipt' = [receipt EXCEPT ![o] = [st |-> "accepted", task |-> "running"]]
       \/ /\ Fault /\ Reply(o, "unknown", None) /\ UNCHANGED known
          /\ receipt' = [receipt EXCEPT ![o] = [st |-> "unknown", task |-> None]]
    /\ UNCHANGED <<job, resolving, wire, provider>>

(* The helper reaches its alarm and takes the bridge with it. *)
HelperDies == helper # None /\ Fault /\ helper' = None /\ UNCHANGED <<control, provider, receipt, known, wire>>

(* What the provider says of a task: its state, or that it cannot be read. *)
Readable(o) == {IF task[o] \in Stopped THEN task[o] ELSE "running"} \cup (IF faults < MaxFault THEN {"unreadable"} ELSE {})

(* A receipt that is read again takes the state of its task; an intent that *)
(* was never answered is unknown.                                           *)
Refreshed(o) ==
    IF receipt[o].st = "accepted"
    THEN {[st |-> IF t = "error" THEN "failed" ELSE "accepted", task |-> t] : t \in Readable(o)}
    ELSE {[receipt[o] EXCEPT !.st = IF @ = "dispatching" THEN "unknown" ELSE @]}

-----------------------------------------------------------------------------
(* The worker of the provider.                                              *)

Check(o) ==
    /\ task[o] = "waiting" /\ lock = None
    /\ IF vm = op[o].exp THEN lock' = o /\ task' = [task EXCEPT ![o] = "locked"]
       ELSE task' = [task EXCEPT ![o] = "error"] /\ UNCHANGED lock
    /\ UNCHANGED <<control, node, vm, acted, changes, faults>>

LockTimeout(o) ==
    /\ task[o] = "waiting" /\ lock # None /\ task' = [task EXCEPT ![o] = "error"]
    /\ UNCHANGED <<control, node, vm, lock, acted, changes, faults>>

Flip == [vm EXCEPT !.state = IF @ = "off" THEN "running" ELSE "off"]

Act(o) ==
    /\ task[o] = "locked" /\ lock' = IF lock = o THEN None ELSE lock
    /\ \/ task' = [task EXCEPT ![o] = "ok"] /\ acted' = [acted EXCEPT ![o] = vm] /\ UNCHANGED faults
          /\ vm' = [vm EXCEPT !.state = IF op[o].exp.state = "off" THEN "running" ELSE "off"]
       \/ task' = [task EXCEPT ![o] = "error"] /\ Fault /\ UNCHANGED <<vm, acted>>
    /\ UNCHANGED <<control, node, changes>>

(* Administrators work under the lock too; a guest may turn itself off. *)
Change ==
    /\ changes < MaxChange /\ changes' = changes + 1
    /\ \/ lock = None /\ vm' \in {Flip, [vm EXCEPT !.def = @ + 1]}
       \/ \E o \in Op : op[o].exp.state = "running" /\ vm.state = "running" /\ vm' = Flip
    /\ UNCHANGED <<control, node, lock, task, acted, faults>>

-----------------------------------------------------------------------------
(* Reading, resolving and removing an operation.                            *)

Begin(o, step, resolve) == job = None /\ ~op[o].live /\ job' = [o |-> o, step |-> step, resolve |-> resolve]

(* An operation whose removal has begun is not read again. *)
Read(o, resolve) ==
    /\ op[o].st \in Unfinished \cup Terminal /\ ~op[o].cleanup /\ Begin(o, "receipt", resolve)
    /\ UNCHANGED <<op, resolving, provider, node, faults>>

(* accept_receipt and reconcile_receipt: a finished record stays. *)
Reconciled(o, r) == IF op[o].st \in Unfinished THEN [op[o] EXCEPT !.st = r.st, !.task = r.task] ELSE op[o]

ReadReceipt ==
    /\ job # None /\ job.step = "receipt" /\ job' = [job EXCEPT !.step = "status"]
    /\ LET o == job.o
           fails == op' = [op EXCEPT ![o].st = IF @ \in {"queued", "dispatching"} THEN "unknown" ELSE @] /\ UNCHANGED receipt
       IN \/ Fault /\ fails
          \/ /\ UNCHANGED faults
             /\ IF helper # None \/ receipt[o] = None THEN fails
                ELSE IF receipt[o].st \in {"observed", "resolved"} THEN fails
                ELSE \E r \in Refreshed(o) : receipt' = [receipt EXCEPT ![o] = r] /\ op' = [op EXCEPT ![o] = Reconciled(o, r)]
    /\ UNCHANGED <<resolving, known, helper, wire, provider>>

Desired(o) == vm.state # op[o].exp.state

Observes(o) == op[o].st = "accepted" /\ Desired(o) /\ op[o].task = "ok"

ReadStatus ==
    /\ job # None /\ job.step = "status" /\ job' = None
    /\ LET o == job.o IN
       /\ \/ op' = [op EXCEPT ![o].st = IF Observes(o) THEN "observed" ELSE @] /\ UNCHANGED faults
          \/ Fault /\ UNCHANGED op
       /\ resolving' = IF job.resolve /\ op'[o].task \in Stopped \cup {None} THEN resolving \cup {o} ELSE resolving
    /\ UNCHANGED <<provider, node>>

(* A record whose task runs cannot be stored as resolved. *)
Storable(o) == op[o].task \in Stopped \cup {None}

(* The record is read again under the lock. *)
Resolve(o) ==
    /\ job = None /\ o \in resolving /\ resolving' = resolving \ {o}
    /\ IF op[o].st \in {"accepted", "unknown"} /\ ~op[o].live /\ Storable(o)
       THEN Put(o, "resolved") ELSE UNCHANGED op
    /\ UNCHANGED <<job, provider, node, faults>>

Forget(o) ==
    /\ op[o].st \in Terminal /\ Begin(o, "forget", FALSE) /\ op' = [op EXCEPT ![o].cleanup = TRUE]
    /\ UNCHANGED <<resolving, provider, node, faults>>

(* A receipt whose task runs or cannot be read is kept. *)
Keep(o) == receipt[o].task \notin Stopped \cup {None}

(* The proof of the outcome matches, is written, and the receipt removed.   *)
(* Either may be the last thing that happens.                               *)
ForgetAt ==
    /\ job # None /\ job.step = "forget" /\ job' = None
    /\ LET o == job.o
           gone == op' = [op EXCEPT ![o].st = "gone"]
           matches == receipt[o].st = op[o].st \/ (receipt[o].st = "accepted" /\ op[o].st = "observed" /\ receipt[o].task = "ok")
                      \/ (op[o].st = "resolved" /\ receipt[o].st \in {"accepted", "unknown", "dispatching"})
       IN IF helper # None THEN UNCHANGED <<op, receipt, faults>>
          ELSE IF receipt[o] = None THEN gone /\ UNCHANGED <<receipt, faults>>
          ELSE IF Keep(o) \/ ~matches THEN UNCHANGED <<op, receipt, faults>>
          ELSE \/ gone /\ receipt' = [receipt EXCEPT ![o] = None] /\ UNCHANGED faults
               \/ Fault /\ UNCHANGED op
                  /\ receipt' \in {receipt, [receipt EXCEPT ![o] = None], [receipt EXCEPT ![o] = [st |-> op[o].st, task |-> None]]}
    /\ UNCHANGED <<resolving, known, helper, wire, provider>>

(* The controller restarts; previews and what it was doing are lost. *)
Restart ==
    /\ Fault /\ job' = None /\ resolving' = {}
    /\ op' = [o \in Op |-> IF op[o].st = "preview" THEN Record("none") ELSE [op[o] EXCEPT !.live = FALSE]]
    /\ UNCHANGED <<provider, node>>

Next ==
    \/ Fork \/ Answer \/ HelperDies \/ Change \/ ReadReceipt \/ ReadStatus \/ ForgetAt \/ Restart
    \/ \E o \in Op : \/ Preview(o) \/ Commit(o) \/ Refuse(o) \/ Dispatch(o) \/ Lost(o) \/ ApplyBegin(o) \/ ApplyBusy(o)
                     \/ Check(o) \/ LockTimeout(o) \/ Act(o) \/ Resolve(o) \/ Forget(o)
                     \/ \E resolve \in BOOLEAN : Read(o, resolve)

Spec == Init /\ [][Next]_vars

(* Requests are answered, tasks end, and an owner retries a removal. *)
FairSpec ==
    /\ Spec /\ WF_vars(Fork) /\ WF_vars(Answer) /\ WF_vars(ReadReceipt) /\ WF_vars(ReadStatus) /\ WF_vars(ForgetAt)
    /\ \A o \in Op : WF_vars(ApplyBegin(o)) /\ WF_vars(Check(o)) /\ WF_vars(Act(o)) /\ SF_vars(Forget(o))

-----------------------------------------------------------------------------
TypeOK ==
    /\ vm \in [state : {"off", "running"}, def : 0..MaxChange] /\ lock \in Op \cup {None}
    /\ \A o \in Op : /\ op[o].st \in {"none", "preview", "gone"} \cup Unfinished \cup Terminal
                     /\ op[o].task \in TaskState \cup {None} /\ (op[o].st \in {"accepted", "failed"} => op[o].task # None)
                     /\ receipt[o] # None => receipt[o].task \in TaskState \cup {None}
    /\ wire \subseteq Op /\ resolving \subseteq Op /\ changes \in 0..MaxChange /\ faults \in 0..MaxFault

(* An operation is observed only when its own task ended well, not when     *)
(* someone else brought the VM into the desired state.                      *)
ObservedHonest == \A o \in Op : op[o].st = "observed" => task[o] = "ok"

(* An operation recorded as refused never reached the provider, and never   *)
(* will.                                                                    *)
RefusedUntouched == \A o \in Op : op[o].st = "refused" => task[o] = None /\ o \notin wire /\ receipt[o] = None

(* A task whose identity the node knows keeps its receipt until it stopped, *)
(* whatever the controller resolved, lost or removed meanwhile.             *)
ReceiptKept == \A o \in known : task[o] \in {"waiting", "locked"} => receipt[o] # None

(* A task acts on the very VM that was previewed, in the state and          *)
(* definition that was confirmed; only a guest that turns itself off can be *)
(* faster.                                                                  *)
ActsOnConfirmed ==
    \A o \in Op : acted[o] # None =>
        acted[o].def = op[o].exp.def /\ (op[o].exp.state = "off" => acted[o].state = "off")
=============================================================================
