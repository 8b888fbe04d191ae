---------------------------- MODULE ManagedJobs ----------------------------
(* Managed jobs: the controller's durable operations and their reconciling  *)
(* tasks (jobs.py, job_store.py) against the node helper's receipts         *)
(* (node/jobs.py, job_state.py) and the runner inside a systemd unit        *)
(* (job_runner.py).  A request travels over one SSH command: it may fail    *)
(* before it is sent, be executed without an answer, or be executed after   *)
(* the controller gave up on it.  Authority is a choice made at each check. *)
EXTENDS Naturals, FiniteSets, TLAPS

CONSTANTS Jobs, Nodes, NodeOf, None, MaxRev, MaxBoot, MaxLate

JobsAssumption ==
  /\ NodeOf \in [Jobs -> Nodes]
  /\ MaxRev \in Nat /\ MaxBoot \in Nat /\ MaxLate \in Nat

VARIABLES
  previews,  \* jobs with a ready preview
  target,    \* job -> the target's row in its operation, or None
  task,      \* job -> the reconciling task in flight, or None
  net,       \* requests on their way, or given up and still to be executed
  receipt,   \* job -> its directory on the node
  unit,      \* job -> what systemd shows of its unit
  signal,    \* job -> the signal its unit was sent
  alive,     \* jobs whose program runs
  helper,    \* node -> the request that holds the job lock, or None
  boot       \* node -> boot identity

controller == <<previews, target, task>>
node == <<receipt, unit, signal, alive, helper, boot>>
vars == <<controller, net, node>>

TERMINAL == {"succeeded", "failed", "cancelled", "interrupted"}
STATES == TERMINAL \cup {"queued", "dispatching", "running", "cancel_requested", "unknown"}
NoReceipt == [dir |-> "none", boot |-> 0, cancel |-> FALSE, result |-> None]
Target == [state : STATES, cancel : {"none", "pending", "denied", "complete"}, rev : 0..MaxRev, force : BOOLEAN]

Init ==
  /\ previews = {} /\ net = {} /\ alive = {}
  /\ target = [j \in Jobs |-> None] /\ task = [j \in Jobs |-> None]
  /\ receipt = [j \in Jobs |-> NoReceipt]
  /\ unit = [j \in Jobs |-> "none"] /\ signal = [j \in Jobs |-> "none"]
  /\ helper = [n \in Nodes |-> None] /\ boot = [n \in Nodes |-> 1]

-----------------------------------------------------------------------------
(* The controller: admission and cancellation *)

Closed(j) == target[j] # None /\ target[j].state \in TERMINAL
active(n) == \E j \in Jobs : NodeOf[j] = n /\ target[j] # None /\ ~Closed(j)

preview(j) ==
  /\ target[j] = None /\ j \notin previews /\ ~active(NodeOf[j])
  /\ previews' = previews \cup {j}
  /\ UNCHANGED <<target, task, net, node>>

(* The node may have become busy since the preview.  A repeated submission  *)
(* finds its row and changes nothing: the preview is spent.                 *)
submit(j) ==
  /\ j \in previews /\ target[j] = None /\ ~active(NodeOf[j])
  /\ target' = [target EXCEPT ![j] = [state |-> "queued", cancel |-> "none", rev |-> 0, force |-> FALSE]]
  /\ previews' = previews \ {j}
  /\ UNCHANGED <<task, net, node>>

cancel(j) ==
  /\ target[j] # None /\ ~Closed(j)
  /\ IF target[j].state = "queued" THEN target' = [target EXCEPT ![j].state = "cancelled"]
     ELSE /\ target[j].rev < MaxRev
          /\ \E force \in BOOLEAN : target' = [target EXCEPT ![j] =
               [state |-> "cancel_requested", cancel |-> "pending", rev |-> @.rev + 1, force |-> force]]
  /\ UNCHANGED <<previews, task, net, node>>

-----------------------------------------------------------------------------
(* Jobs.reconcile: one task per job reads the row, saves the intent, sends  *)
(* one request and applies the answer to the row as it is by then.          *)

Action(t) == IF t.state = "queued" THEN "submit" ELSE IF t.cancel = "pending" THEN "cancel" ELSE "status"

(* The except clause: kind is "denied" (401, 403), "refused" or "other". *)
Failed(j, t, kind) ==
  LET latest == target[j]
      status == IF t.cancel # "none" /\ kind = "denied" THEN "denied" ELSE latest.cancel
  IN IF Closed(j) \/ (t.cancel # "none" /\ latest.rev # t.rev) THEN latest
     ELSE IF t.initial = "queued" /\ kind \in {"denied", "refused"} THEN [latest EXCEPT !.state = "failed"]
     ELSE IF latest.cancel = "none" THEN [latest EXCEPT !.state = "unknown"]
     ELSE [latest EXCEPT !.cancel = status, !.state = IF status = "pending" THEN "cancel_requested" ELSE "unknown"]

(* Mutant: a pending cancellation is shown whatever the node answers. *)
AnsweredPending(j, state) ==
  LET latest == target[j] IN
  IF Closed(j) THEN latest
  ELSE IF latest.cancel = "pending" THEN [latest EXCEPT !.state = "cancel_requested"]
  ELSE IF latest.cancel # "none" /\ state \in TERMINAL THEN [latest EXCEPT !.state = state, !.cancel = "complete"]
  ELSE [latest EXCEPT !.state = state]

Answered(j, state) ==
  LET latest == target[j] IN
  IF Closed(j) THEN latest
  ELSE IF latest.cancel = "none" THEN [latest EXCEPT !.state = state]
  ELSE IF state \in TERMINAL THEN [latest EXCEPT !.state = state, !.cancel = "complete"]
  ELSE IF latest.cancel = "pending" THEN [latest EXCEPT !.state = "cancel_requested"]
  ELSE [latest EXCEPT !.state = state]

End(j, row) == target' = [target EXCEPT ![j] = row] /\ task' = [task EXCEPT ![j] = None]

(* poll starts a task; the first check of a submission or a cancellation    *)
(* may already refuse it.                                                   *)
reconcile(j) ==
  LET t == target[j]
      mine == [initial |-> t.state, action |-> Action(t), cancel |-> t.cancel, rev |-> t.rev,
               force |-> t.force, pc |-> "send", reply |-> None]
  IN
  /\ t # None /\ ~Closed(j) /\ task[j] = None
  /\ \/ /\ task' = [task EXCEPT ![j] = mine]
        /\ target' = IF t.state = "queued" THEN [target EXCEPT ![j].state = "dispatching"] ELSE target
     \/ mine.action # "status" /\ End(j, Failed(j, mine, "denied"))
  /\ UNCHANGED <<previews, net, node>>

(* SSH.command checks again before anything leaves the controller. *)
send(j) ==
  LET t == task[j]  superseded == t.action = "cancel" /\ (Closed(j) \/ target[j].rev # t.rev) IN
  /\ t # None /\ t.pc = "send"
  /\ \/ /\ ~superseded
        /\ net' = net \cup {[job |-> j, action |-> t.action, force |-> t.force, late |-> FALSE]}
        /\ task' = [task EXCEPT ![j].pc = "wait"] /\ UNCHANGED target
     \/ superseded /\ End(j, target[j]) /\ UNCHANGED net
     \/ ~superseded /\ t.action # "status" /\ End(j, Failed(j, t, "denied")) /\ UNCHANGED net
     \/ End(j, Failed(j, t, "other")) /\ UNCHANGED net
  /\ UNCHANGED <<previews, node>>

(* The controller gives up: the request is lost or will be executed late. *)
Abandon(js) ==
  LET mine == {m \in net : m.job \in js /\ ~m.late}
      room == Cardinality({m \in net : m.late}) < MaxLate
  IN net' \in {net \ mine} \cup IF room THEN {(net \ mine) \cup {[m EXCEPT !.late = TRUE] : m \in mine}} ELSE {}

Orphaned(js) == [n \in Nodes |-> IF helper[n] # None /\ helper[n].job \in js THEN [helper[n] EXCEPT !.late = TRUE] ELSE helper[n]]

give_up(j) ==
  /\ task[j] # None /\ task[j].pc = "wait"
  /\ End(j, Failed(j, task[j], "other"))
  /\ Abandon({j}) /\ helper' = Orphaned({j})
  /\ UNCHANGED <<previews, receipt, unit, signal, alive, boot>>

receive(j) ==
  LET t == task[j] IN
  /\ t # None /\ t.pc = "answered"
  /\ End(j, IF t.reply = "refused" THEN Failed(j, t, IF t.action = "submit" THEN "refused" ELSE "other")
            ELSE IF t.reply = "uncertain" THEN Failed(j, t, "other")
            ELSE Answered(j, t.reply))
  /\ UNCHANGED <<previews, net, node>>

(* An answer that does not describe a job state is a failure of the request. *)
validate(j) ==
  /\ task[j] # None /\ task[j].pc = "answered"
  /\ End(j, Failed(j, task[j], "other"))
  /\ UNCHANGED <<previews, net, node>>

Restart ==
  /\ \E j \in Jobs : task[j] # None
  /\ previews' = {} /\ task' = [j \in Jobs |-> None]
  /\ Abandon(Jobs) /\ helper' = Orphaned(Jobs)
  /\ UNCHANGED <<target, receipt, unit, signal, alive, boot>>

-----------------------------------------------------------------------------
(* The node helper, one request at a time under the lock of job_state *)

On(n) == {j \in Jobs : NodeOf[j] = n}
Fresh(j) == receipt[j].boot = boot[NodeOf[j]]

(* snapshot, once result.json was not found: what the unit tells.  An       *)
(* exited runner keeps its unit active, so a missing receipt shows up as    *)
(* a unit that failed, was stopped or is gone.                              *)
Probe(j) ==
  IF ~Fresh(j) THEN "interrupted"
  ELSE IF unit[j] = "none" THEN "unknown"
  ELSE IF unit[j] \in {"active", "exited"} THEN IF receipt[j].cancel THEN "cancel_requested" ELSE "running"
  ELSE IF unit[j] = "stopped" THEN "interrupted"
  ELSE IF receipt[j].cancel THEN "cancelled" ELSE "failed"

Saved(j) == receipt[j].dir = "saved"
Shown(j) == IF receipt[j].result # None THEN receipt[j].result ELSE Probe(j)

Recorded(r, state) == [r EXCEPT !.result = IF state \in TERMINAL THEN state ELSE @]

(* An answer reaches the task unless the controller has given up. *)
Reply(h, state) ==
  task' = IF h.late THEN task ELSE [task EXCEPT ![h.job].pc = "answered", ![h.job].reply = state]

Release(n) == helper' = [helper EXCEPT ![n] = None]
Hold(n, h, pc) == helper' = [helper EXCEPT ![n] = [h EXCEPT !.pc = pc]]

(* What an interrupted submission left behind is cleared by the next one. *)
recover_prelaunch(k) == IF receipt[k].dir = "staged" THEN NoReceipt ELSE receipt[k]

(* locked: a request takes the lock; what it does next depends on the       *)
(* action and on the job's directory.                                       *)
dispatch(n, m) ==
  LET j == m.job
      h == [job |-> j, action |-> m.action, force |-> m.force, late |-> m.late, pc |-> "read"]
      fresh == m.action = "submit" /\ ~Saved(j)
      others == On(n) \ {j}
  IN
  /\ NodeOf[j] = n /\ helper[n] = None
  /\ net' = net \ {m}
  /\ receipt' = [k \in Jobs |->
       IF fresh /\ k \in others /\ Saved(k) THEN Recorded(receipt[k], Shown(k))
       ELSE IF m.action = "submit" /\ k \in On(n) THEN recover_prelaunch(k) ELSE receipt[k]]
  /\ IF m.action # "submit" /\ ~Saved(j) THEN Reply(h, "unknown") /\ Release(n)
     ELSE IF fresh /\ \E k \in others : Saved(k) /\ Shown(k) \notin TERMINAL THEN Reply(h, "refused") /\ Release(n)
     ELSE \/ Hold(n, h, IF fresh THEN "stage" ELSE "read") /\ UNCHANGED task
          \/ fresh /\ Reply(h, "refused") /\ Release(n)
  /\ UNCHANGED <<previews, target, unit, signal, alive, boot>>

(* __main__: an error after the request was published leaves it uncertain. *)
Error(j) == IF Saved(j) THEN "uncertain" ELSE "refused"

(* systemd-run; without its acknowledgement the launch is left unknown. *)
start(n, h) ==
  \/ unit' = [unit EXCEPT ![h.job] = "active"] /\ Hold(n, h, "read") /\ UNCHANGED task
  \/ unit' \in {unit, [unit EXCEPT ![h.job] = "active"]} /\ Reply(h, "unknown") /\ Release(n)

(* Steps of a submission: stage, publish, start the unit. *)
helper_submit(n) ==
  LET h == helper[n]  j == h.job IN
  /\ h # None /\ h.pc \in {"stage", "publish", "start"}
  /\ \/ /\ h.pc = "stage" /\ receipt' = [receipt EXCEPT ![j] = [NoReceipt EXCEPT !.dir = "staged", !.boot = boot[n]]]
        /\ Hold(n, h, "publish") /\ UNCHANGED <<unit, task>>
     \/ /\ h.pc = "publish" /\ receipt' = [receipt EXCEPT ![j].dir = "saved"]
        /\ Hold(n, h, "start") /\ UNCHANGED <<unit, task>>
     \/ h.pc = "start" /\ start(n, h) /\ UNCHANGED receipt
  /\ UNCHANGED <<previews, target, net, signal, alive, boot>>

(* snapshot: result.json first; it lets the retained unit go. *)
helper_read(n) ==
  LET h == helper[n]  j == h.job IN
  /\ h # None /\ h.pc \in {"read", "again"}
  /\ IF receipt[j].result # None
     THEN /\ Reply(h, receipt[j].result) /\ Release(n)
          /\ unit' \in {unit, [unit EXCEPT ![j] = IF unit[j] = "active" THEN "active" ELSE "none"]}
     ELSE Hold(n, h, IF h.pc = "read" /\ h.action = "cancel" THEN "first" ELSE "probe") /\ UNCHANGED <<task, unit>>
  /\ UNCHANGED <<previews, target, net, receipt, signal, alive, boot>>

(* ... then the unit, which may have changed since. *)
helper_probe(n) ==
  LET h == helper[n]  j == h.job  state == Probe(j) IN
  /\ h # None /\ h.pc \in {"probe", "first"}
  /\ \/ /\ receipt' = [receipt EXCEPT ![j] = Recorded(@, state)]
        /\ IF h.pc = "first" /\ state \notin TERMINAL THEN Hold(n, h, "stop") /\ UNCHANGED task
           ELSE Reply(h, state) /\ Release(n)
     \/ Reply(h, Error(j)) /\ Release(n) /\ UNCHANGED receipt   \* systemd did not answer
  /\ UNCHANGED <<previews, target, net, unit, signal, alive, boot>>

helper_stop(n) ==
  LET h == helper[n]  j == h.job IN
  /\ h # None /\ h.pc = "stop"
  /\ receipt' = [receipt EXCEPT ![j].cancel = TRUE]
  /\ \/ /\ signal' = IF unit[j] # "active" THEN signal
                     ELSE [signal EXCEPT ![j] = IF h.force \/ @ = "kill" THEN "kill" ELSE "term"]
        /\ Hold(n, h, "again") /\ UNCHANGED task
     \/ Reply(h, Error(j)) /\ Release(n) /\ UNCHANGED signal
  /\ UNCHANGED <<previews, target, net, unit, alive, boot>>

(* The connection's end kills the helper at any point. *)
HelperDies(n) ==
  /\ helper[n] # None
  /\ Release(n)
  /\ IF helper[n].late THEN UNCHANGED <<target, task>>
     ELSE End(helper[n].job, Failed(helper[n].job, task[helper[n].job], "other"))
  /\ UNCHANGED <<previews, net, receipt, unit, signal, alive, boot>>

-----------------------------------------------------------------------------
(* job_runner.run inside the unit, and what may end it *)

Ready(j) == Saved(j) /\ unit[j] = "active" /\ Fresh(j)

RunnerStarts(j) ==
  /\ Ready(j) /\ j \notin alive /\ receipt[j].result = None /\ signal[j] = "none"
  /\ alive' = alive \cup {j}
  /\ UNCHANGED <<controller, net, receipt, unit, signal, helper, boot>>

(* capture: the program ends, is stopped, or was never started. *)
Outcomes(j) ==
  (IF signal[j] = "term" THEN {IF receipt[j].cancel THEN "cancelled" ELSE "failed"} ELSE {"failed"})
  \cup (IF j \in alive THEN {"succeeded"} ELSE {})

(* The receipt is written once its group is empty, then the runner exits. *)
RunnerEnds(j) ==
  /\ Ready(j) /\ receipt[j].result = None /\ signal[j] # "kill"
  /\ \E state \in Outcomes(j) : receipt' = [receipt EXCEPT ![j].result = state]
  /\ alive' = alive \ {j}
  /\ unit' = [unit EXCEPT ![j] = IF signal[j] = "term" THEN "stopped" ELSE "exited"]
  /\ UNCHANGED <<controller, net, signal, helper, boot>>

(* SIGKILL, the memory limit, or a group that did not settle. *)
UnitFails(j) ==
  /\ Ready(j) /\ unit' = [unit EXCEPT ![j] = "failed"] /\ alive' = alive \ {j}
  /\ UNCHANGED <<controller, net, receipt, signal, helper, boot>>

UnitCollected(j) ==
  /\ unit[j] = "stopped" /\ unit' = [unit EXCEPT ![j] = "none"]
  /\ UNCHANGED <<controller, net, receipt, signal, alive, helper, boot>>

Reboot(n) ==
  /\ boot[n] < MaxBoot
  /\ boot' = [boot EXCEPT ![n] = @ + 1]
  /\ unit' = [j \in Jobs |-> IF j \in On(n) THEN "none" ELSE unit[j]]
  /\ alive' = alive \ On(n) /\ Release(n)
  /\ LET cut == {j \in On(n) : task[j] # None /\ task[j].pc = "wait"} IN
       /\ target' = [j \in Jobs |-> IF j \in cut THEN Failed(j, task[j], "other") ELSE target[j]]
       /\ task' = [j \in Jobs |-> IF j \in cut THEN None ELSE task[j]]
       /\ net' = {m \in net : m.job \notin On(n)}
  /\ UNCHANGED <<previews, receipt, signal>>

-----------------------------------------------------------------------------
Deliver(n) == \E m \in net : dispatch(n, m)
Helper(n) == helper_submit(n) \/ helper_read(n) \/ helper_probe(n) \/ helper_stop(n)
Unit(j) == RunnerStarts(j) \/ RunnerEnds(j) \/ UnitFails(j) \/ UnitCollected(j)

Next ==
  \/ \E j \in Jobs : preview(j) \/ submit(j) \/ cancel(j)
                     \/ reconcile(j) \/ send(j) \/ give_up(j) \/ receive(j) \/ validate(j) \/ Unit(j)
  \/ \E n \in Nodes : Deliver(n) \/ Helper(n) \/ HelperDies(n) \/ Reboot(n)
  \/ Restart

Spec == Init /\ [][Next]_vars

(* A helper's step for a task that waits, with a systemd that answers. *)
Answers(n) == helper[n] # None /\ ~helper[n].late /\ Helper(n) /\ task'[helper[n].job].reply # "uncertain"

(* A request that reaches the executor's connection. *)
Sent(j) == send(j) /\ task'[j] # None

(* No request is still to arrive late. *)
Punctual == \A m \in net : ~m.late

-----------------------------------------------------------------------------
(* Rows, tasks and receipts keep their types. *)
TypeOK ==
  /\ previews \subseteq Jobs /\ alive \subseteq Jobs
  /\ \A j \in Jobs : /\ target[j] # None => target[j] \in Target
                     /\ receipt[j].result \in TERMINAL \cup {None}
                     /\ task[j] # None => task[j].initial \notin TERMINAL /\ task[j].pc \in {"send", "wait", "answered"}
  /\ \A n \in Nodes : helper[n] # None => helper[n].job \in On(n)

(* A job shown as closed does not run and will not: whatever request was    *)
(* lost, refused, denied or delayed, none that could still launch it is on  *)
(* its way (Jobs.reconcile decides between failed and unknown).             *)
ClosedStopped ==
  \A j \in Jobs : Closed(j) =>
    /\ j \notin alive
    /\ \A m \in net : m.job = j => m.action # "submit"
    /\ Saved(j) => receipt[j].result # None

(* The outcome a user sees is the one the node keeps. *)
ReceiptAgrees ==
  \A j \in Jobs : Closed(j) /\ Saved(j) => target[j].state = receipt[j].result

(* An outcome the node has recorded reaches the operation, however many     *)
(* answers are lost.                                                        *)
OutcomeKnown(j) == Saved(j) /\ receipt[j].result # None

-----------------------------------------------------------------------------
(* The inductive invariant.  Rows, tasks, requests, helpers and results are *)
(* told from the absent value.                                              *)
Kinds == {"submit", "cancel", "status"}
REPLIES == TERMINAL \cup {"running", "cancel_requested", "unknown", "refused", "uncertain"}
Receipts == [dir : {"none", "staged", "saved"}, boot : Nat, cancel : BOOLEAN, result : TERMINAL \cup {None}]
Requests == [job : Jobs, action : Kinds, force : BOOLEAN, late : BOOLEAN]
Helpers == [job : Jobs, action : Kinds, force : BOOLEAN, late : BOOLEAN,
            pc : {"stage", "publish", "start", "read", "again", "probe", "first", "stop"}]
Tasks == [initial : STATES \ TERMINAL, action : Kinds, cancel : {"none", "pending", "denied", "complete"},
          rev : 0..MaxRev, force : BOOLEAN, pc : {"send", "wait", "answered"}, reply : REPLIES \cup {None}]

JobsConstants ==
  /\ JobsAssumption
  /\ None \notin Target \cup Tasks \cup Helpers \cup REPLIES

Types ==
  /\ target \in [Jobs -> Target \cup {None}] /\ task \in [Jobs -> Tasks \cup {None}]
  /\ net \in SUBSET Requests /\ receipt \in [Jobs -> Receipts]
  /\ unit \in [Jobs -> {"none", "active", "exited", "stopped", "failed"}]
  /\ signal \in [Jobs -> {"none", "term", "kill"}] /\ alive \in SUBSET Jobs
  /\ helper \in [Nodes -> Helpers \cup {None}] /\ boot \in [Nodes -> Nat]

HelperOf(j) == helper[NodeOf[j]]
Helped(j) == HelperOf(j) # None /\ HelperOf(j).job = j
Submitting(j) == Helped(j) /\ HelperOf(j).action = "submit"
Submits(j) == {m \in net : m.job = j /\ m.action = "submit"}

(* The one submission of a job is still to come. *)
Untouched(j) ==
  /\ task[j] = None /\ ~Helped(j) /\ receipt[j].dir = "none"
  /\ \A m \in net : m.job # j

(* The one submission of a job is nowhere on its way, and left nothing. *)
Unsubmitted(j) == Submits(j) = {} /\ ~Submitting(j) /\ ~Saved(j)

(* A request that somebody waits for belongs to its job's task. *)
Waited(j) ==
  /\ \A m \in net : m.job = j /\ ~m.late =>
       /\ task[j] # None /\ task[j].pc = "wait" /\ task[j].action = m.action
       /\ Helped(j) => HelperOf(j).late
  /\ \A m1, m2 \in net : m1.job = j /\ m2.job = j /\ ~m1.late /\ ~m2.late => m1 = m2
  /\ Helped(j) /\ ~HelperOf(j).late =>
       task[j] # None /\ task[j].pc = "wait" /\ task[j].action = HelperOf(j).action

(* What a task knows of its job. *)
Tasked(j) ==
  task[j] # None =>
    /\ target[j] # None /\ (task[j].initial = "queued" <=> task[j].action = "submit")
    /\ task[j].action = "submit" /\ task[j].pc = "send" => Unsubmitted(j) /\ ~Closed(j)
    /\ task[j].pc = "answered" =>
         /\ task[j].reply # None
         /\ task[j].reply \in TERMINAL => Saved(j) /\ receipt[j].result = task[j].reply
         /\ task[j].action = "submit" /\ task[j].reply = "refused" => Unsubmitted(j)

(* A submission on its way is the only one and finds nothing. *)
Single(j) ==
  /\ \A m1, m2 \in Submits(j) : m1 = m2
  /\ Submits(j) # {} => ~Submitting(j) /\ ~Saved(j) /\ ~Closed(j)

(* No outcome of the job is known to anybody. *)
Undecided(j) == ~Closed(j) /\ (task[j] # None /\ task[j].pc = "answered" => task[j].reply \notin TERMINAL)

(* What the helper that serves a job finds at its step.  Until a submission *)
(* is through, and from reading the result to asking the unit, the job is   *)
(* undecided.                                                               *)
Serving(j) ==
  Helped(j) =>
    /\ HelperOf(j).pc \in {"stage", "publish", "start"} => HelperOf(j).action = "submit"
    /\ HelperOf(j).pc = "stage" => ~Saved(j)
    /\ HelperOf(j).pc = "publish" => receipt[j].dir = "staged"
    /\ HelperOf(j).pc \notin {"stage", "publish"} => Saved(j)
    /\ HelperOf(j).pc \in {"stage", "publish", "start", "probe", "first"} => Undecided(j)

Running(j) == j \in alive => Saved(j) /\ unit[j] = "active" /\ Fresh(j) /\ receipt[j].result = None

Settled(j) == Closed(j) /\ Saved(j) => receipt[j].result # None /\ target[j].state = receipt[j].result

JobInv(j) ==
  /\ target[j] = None \/ target[j].state = "queued" => Untouched(j)
  /\ Waited(j) /\ Tasked(j) /\ Single(j) /\ Serving(j) /\ Running(j) /\ Settled(j)

Inv ==
  /\ Types /\ \A n \in Nodes : helper[n] # None => NodeOf[helper[n].job] = n
  /\ \A j \in Jobs : JobInv(j)

-----------------------------------------------------------------------------
(* What a step may do to one job *)

(* A step that leaves a job, its requests and its helper alone. *)
LEMMA Elsewhere ==
  ASSUME NEW k \in Jobs, JobInv(k),
         target'[k] = target[k], task'[k] = task[k], receipt'[k] = receipt[k], unit'[k] = unit[k],
         k \in alive' => k \in alive, boot'[NodeOf[k]] = boot[NodeOf[k]],
         \A m : m.job = k => (m \in net' <=> m \in net),
         helper'[NodeOf[k]] = helper[NodeOf[k]] \/ (~Helped(k) /\ ~Helped(k)')
  PROVE  JobInv(k)'
<1>1. /\ Closed(k)' = Closed(k) /\ Saved(k)' = Saved(k) /\ Fresh(k)' = Fresh(k) /\ Submits(k)' = Submits(k)
  BY DEF Closed, Saved, Fresh, Submits
<1>2. Helped(k)' <=> Helped(k)
  BY DEF Helped, HelperOf
<1>3. Helped(k) => HelperOf(k)' = HelperOf(k)
  BY DEF Helped, HelperOf
<1>4. Submitting(k)' <=> Submitting(k)
  BY <1>2, <1>3 DEF Submitting
<1>5. Untouched(k) => Untouched(k)'
  BY <1>2 DEF Untouched
<1>6. Waited(k)'
  BY <1>2, <1>3 DEF JobInv, Waited
<1>7. Tasked(k)'
  BY <1>1, <1>4 DEF JobInv, Tasked, Unsubmitted
<1>8. Single(k)'
  BY <1>1, <1>4 DEF JobInv, Single
<1>9. Serving(k)'
  BY <1>1, <1>2, <1>3 DEF JobInv, Serving, Undecided
<1>10. Running(k)'
  BY <1>1 DEF JobInv, Running
<1>11. Settled(k)'
  BY <1>1 DEF JobInv, Settled
<1> QED BY <1>5, <1>6, <1>7, <1>8, <1>9, <1>10, <1>11 DEF JobInv

(* A task ends without an outcome: its request, if any, is lost or late. *)
LEMMA Dropped ==
  ASSUME NEW k \in Jobs, JobInv(k), task'[k] = None,
         \/ target'[k] = target[k]
         \/ /\ target[k] # None /\ target'[k] # None /\ ~Closed(k) /\ target[k].state # "queued"
            /\ target'[k].state \notin TERMINAL \cup {"queued"},
         receipt'[k] = receipt[k],
         k \in alive' => k \in alive /\ unit'[k] = unit[k] /\ boot'[NodeOf[k]] = boot[NodeOf[k]],
         \A m \in net' : m.job = k => m.late /\ \E o \in net : o.job = k /\ o.action = m.action,
         \A m1, m2 \in Submits(k)' : m1 = m2,
         Helped(k)' => /\ Helped(k) /\ HelperOf(k)'.late /\ HelperOf(k)'.pc = HelperOf(k).pc
                       /\ HelperOf(k)'.action = HelperOf(k).action
  PROVE  JobInv(k)'
<1>1. Saved(k)' = Saved(k) /\ (Closed(k)' <=> Closed(k)) /\ (Closed(k) => target'[k] = target[k])
  BY DEF Closed, Saved
<1>2. Submits(k) = {} => Submits(k)' = {}
  BY DEF Submits
<1>3. Submitting(k)' => Submitting(k)
  BY DEF Submitting
<1>4. target'[k] = None \/ target'[k].state = "queued" => Untouched(k)'
  <2> SUFFICES ASSUME target'[k] = None \/ target'[k].state = "queued"
               PROVE  Untouched(k)'
    OBVIOUS
  <2>1. Untouched(k)
    BY DEF JobInv
  <2> QED BY <2>1 DEF Untouched
<1>5. Waited(k)'
  BY DEF Waited
<1>6. Tasked(k)'
  BY DEF Tasked
<1>7. Single(k)'
  BY <1>1, <1>2, <1>3 DEF JobInv, Single
<1>8. Serving(k)'
  BY <1>1 DEF JobInv, Serving, Undecided
<1>9. Running(k)'
  BY <1>1 DEF JobInv, Running, Fresh
<1>10. Settled(k)'
  BY <1>1 DEF JobInv, Settled
<1> QED BY <1>4, <1>5, <1>6, <1>7, <1>8, <1>9, <1>10 DEF JobInv

(* A task ends with the job's outcome: it was never submitted, or this is   *)
(* what the node has recorded.                                              *)
LEMMA Concluded ==
  ASSUME JobsConstants, NEW k \in Jobs, JobInv(k), task'[k] = None, ~Closed(k),
         target'[k] # None, target'[k].state \in TERMINAL,
         \/ Unsubmitted(k)
         \/ task[k] # None /\ task[k].pc = "answered" /\ task[k].reply = target'[k].state,
         task[k] = None \/ task[k].pc # "wait",
         UNCHANGED <<net, node>>
  PROVE  JobInv(k)'
<1>1. /\ Saved(k)' = Saved(k) /\ Submits(k)' = Submits(k) /\ Helped(k)' = Helped(k) /\ HelperOf(k)' = HelperOf(k)
      /\ Submitting(k)' = Submitting(k) /\ Fresh(k)' = Fresh(k)
  BY DEF Saved, Submits, Helped, HelperOf, Submitting, Fresh, node
<1>2. Submits(k) = {} /\ (Saved(k) => receipt[k].result = target'[k].state)
  BY DEF JobInv, Tasked, Single, Unsubmitted
<1>3. Helped(k) => HelperOf(k).pc \notin {"stage", "publish", "start", "probe", "first"} /\ Saved(k)
  <2>1. CASE Unsubmitted(k)
    BY <2>1 DEF JobInv, Serving, Unsubmitted, Submitting
  <2>2. CASE task[k] # None /\ task[k].pc = "answered" /\ task[k].reply = target'[k].state
    BY <2>2 DEF JobInv, Serving, Undecided
  <2> QED BY <2>1, <2>2
<1>4. target'[k].state # "queued"
  BY DEF TERMINAL
<1>5. Waited(k)'
  BY <1>1 DEF JobInv, Waited
<1>6. Tasked(k)' /\ Single(k)' /\ Running(k)'
  BY <1>1, <1>2 DEF JobInv, Tasked, Single, Running, node
<1>7. Serving(k)'
  BY <1>1, <1>3 DEF Serving
<1>8. receipt'[k].result # None \/ ~Saved(k)
  BY <1>2 DEF node, JobsConstants, REPLIES
<1>9. Settled(k)'
  BY <1>1, <1>2, <1>8 DEF Settled, node
<1> QED BY <1>4, <1>5, <1>6, <1>7, <1>9 DEF JobInv

-----------------------------------------------------------------------------
(* Rows of the controller *)

(* The except clause of reconcile never reopens a closed job, and closes    *)
(* one only for a refused submission.                                       *)
LEMMA FailedRow ==
  ASSUME NEW j \in Jobs, target[j] \in Target, NEW t, t.cancel \in {"none", "pending", "denied", "complete"},
         NEW kind
  PROVE  LET row == Failed(j, t, kind) IN
         /\ row \in Target
         /\ \/ row = target[j]
            \/ ~Closed(j) /\ row.state \in {"failed", "unknown", "cancel_requested"}
         /\ row.state \in TERMINAL /\ ~Closed(j) /\ row # target[j] => t.initial = "queued" /\ kind \in {"denied", "refused"}
         /\ row = target[j] => Closed(j) \/ (t.cancel # "none" /\ target[j].rev # t.rev) \/ row.state # "queued"
BY DEF Failed, Target, STATES, TERMINAL, Closed

(* An accepted answer is shown as it is, or as a pending cancellation. *)
LEMMA AnsweredRow ==
  ASSUME NEW j \in Jobs, target[j] \in Target, NEW state \in REPLIES \ {"refused", "uncertain"}
  PROVE  LET row == Answered(j, state) IN
         /\ row \in Target
         /\ \/ row = target[j] /\ Closed(j)
            \/ ~Closed(j) /\ row.state \in {state, "cancel_requested"}
BY DEF Answered, Target, STATES, TERMINAL, Closed, REPLIES

(* A step of the controller on one job. *)
LEMMA ControllerStep ==
  ASSUME Inv, NEW j \in Jobs, UNCHANGED <<net, node>>,
         target' \in [Jobs -> Target \cup {None}], task' \in [Jobs -> Tasks \cup {None}],
         \A k \in Jobs \ {j} : target'[k] = target[k] /\ task'[k] = task[k],
         JobInv(j)'
  PROVE  Inv'
<1>1. ASSUME NEW k \in Jobs, k # j
      PROVE  JobInv(k)'
  BY <1>1, Elsewhere DEF Inv, node
<1> QED BY <1>1 DEF Inv, Types, node

(* A task that waits for nothing ends. *)
LEMMA EndStep ==
  ASSUME JobsConstants, Inv, NEW j \in Jobs, NEW row \in Target, target[j] # None,
         task[j] = None \/ task[j].pc # "wait",
         \/ row = target[j]
         \/ /\ ~Closed(j) /\ row.state # "queued"
            /\ row.state \notin TERMINAL => target[j].state # "queued"
            /\ row.state \in TERMINAL =>
                 \/ Unsubmitted(j)
                 \/ task[j] # None /\ task[j].pc = "answered" /\ task[j].reply = row.state,
         End(j, row), UNCHANGED <<net, node>>
  PROVE  Inv'
<1>1. /\ target' \in [Jobs -> Target \cup {None}] /\ task' \in [Jobs -> Tasks \cup {None}]
      /\ target'[j] = row /\ task'[j] = None /\ row # None
      /\ \A k \in Jobs \ {j} : target'[k] = target[k] /\ task'[k] = task[k]
  BY DEF Inv, Types, End, JobsConstants
<1>2. JobInv(j)
  BY DEF Inv
<1>3. CASE row = target[j] \/ row.state \notin TERMINAL
  <2>1. \A m \in net' : m.job = j => m.late /\ \E o \in net : o.job = j /\ o.action = m.action
    BY <1>2 DEF JobInv, Waited
  <2>2. \A m1, m2 \in Submits(j)' : m1 = m2
    BY <1>2 DEF JobInv, Single, Submits
  <2>3. Helped(j)' => /\ Helped(j) /\ HelperOf(j)'.late /\ HelperOf(j)'.pc = HelperOf(j).pc
                      /\ HelperOf(j)'.action = HelperOf(j).action
    BY <1>2 DEF JobInv, Waited, Helped, HelperOf, node
  <2>4. JobInv(j)'
    BY <1>1, <1>2, <1>3, <2>1, <2>2, <2>3, Dropped DEF node
  <2> QED BY <1>1, <2>4, ControllerStep
<1>4. CASE row # target[j] /\ row.state \in TERMINAL
  <2>1. JobInv(j)'
    BY <1>1, <1>2, <1>4, Concluded
  <2> QED BY <1>1, <2>1, ControllerStep
<1> QED BY <1>3, <1>4

(* A failed request ends the task with what Failed makes of the row. *)
LEMMA FailStep ==
  ASSUME JobsConstants, Inv, NEW j \in Jobs, target[j] # None, task[j] # None, task[j].pc # "wait", NEW kind,
         kind \in {"denied", "refused"} /\ task[j].initial = "queued" => Unsubmitted(j),
         End(j, Failed(j, task[j], kind)), UNCHANGED <<net, node>>
  PROVE  Inv'
<1> DEFINE row == Failed(j, task[j], kind)
<1>1. target[j] \in Target /\ task[j].cancel \in {"none", "pending", "denied", "complete"}
  BY DEF Inv, Types, Tasks
<1>2. /\ row \in Target
      /\ \/ row = target[j]
         \/ ~Closed(j) /\ row.state \in {"failed", "unknown", "cancel_requested"}
      /\ row.state \in TERMINAL /\ ~Closed(j) /\ row # target[j] =>
           task[j].initial = "queued" /\ kind \in {"denied", "refused"}
  BY <1>1, FailedRow
<1>3. target[j].state # "queued"
  BY DEF Inv, JobInv, Untouched
<1> HIDE DEF row
<1>4. End(j, row)
  BY DEF row
<1> QED BY <1>1, <1>2, <1>3, <1>4, EndStep

-----------------------------------------------------------------------------
(* The controller's steps *)

(* A preview touches no row. *)
LEMMA PreviewStep ==
  ASSUME JobsConstants, Inv, NEW j \in Jobs, preview(j)
  PROVE  Inv'
<1>1. UNCHANGED <<target, task, net, node>>
  BY DEF preview
<1> QED BY <1>1, ControllerStep, Elsewhere DEF Inv, Types, node

(* A submitted job is queued and nothing of it is on its way. *)
LEMMA SubmitStep ==
  ASSUME JobsConstants, Inv, NEW j \in Jobs, submit(j)
  PROVE  Inv'
<1> DEFINE row == [state |-> "queued", cancel |-> "none", rev |-> 0, force |-> FALSE]
<1>1. target[j] = None /\ target' = [target EXCEPT ![j] = row] /\ UNCHANGED <<task, net, node>>
  BY DEF submit
<1>2. row \in Target /\ row.state = "queued"
  BY DEF Target, STATES, JobsConstants, JobsAssumption
<1> HIDE DEF row
<1>3. /\ target' \in [Jobs -> Target \cup {None}] /\ task' \in [Jobs -> Tasks \cup {None}]
      /\ target'[j] = row /\ row # None
      /\ \A k \in Jobs \ {j} : target'[k] = target[k] /\ task'[k] = task[k]
  BY <1>1, <1>2 DEF Inv, Types, JobsConstants
<1>4. JobInv(j) /\ Untouched(j)
  BY <1>1 DEF Inv, JobInv
<1>5. Untouched(j)'
  BY <1>1, <1>4 DEF Untouched, Helped, HelperOf, node
<1>6. ~Closed(j)'
  BY <1>2, <1>3 DEF Closed, TERMINAL
<1>7. Submits(j)' = {} /\ ~Helped(j)' /\ ~Saved(j)'
  BY <1>5 DEF Untouched, Submits, Saved
<1>8. Running(j)'
  BY <1>1, <1>4 DEF JobInv, Running, Saved, Fresh, node
<1>9. JobInv(j)'
  BY <1>5, <1>6, <1>7, <1>8 DEF JobInv, Waited, Tasked, Single, Serving, Settled, Untouched
<1> QED BY <1>1, <1>3, <1>9, ControllerStep

(* A queued job is cancelled before anything was sent; any other only has   *)
(* its cancellation asked for.                                              *)
LEMMA CancelStep ==
  ASSUME JobsConstants, Inv, NEW j \in Jobs, cancel(j)
  PROVE  Inv'
<1>1. target[j] # None /\ ~Closed(j) /\ UNCHANGED <<task, net, node>>
  BY DEF cancel
<1>2. target[j] \in Target /\ JobInv(j) /\ target \in [Jobs -> Target \cup {None}]
  BY <1>1 DEF Inv, Types
<1>3. CASE target[j].state = "queued"
  <2> DEFINE row == [target[j] EXCEPT !.state = "cancelled"]
  <2>1. target' = [target EXCEPT ![j] = row]
    BY <1>3 DEF cancel
  <2>2. row \in Target /\ row.state = "cancelled"
    BY <1>2 DEF Target, STATES, TERMINAL
  <2> HIDE DEF row
  <2>3. Untouched(j) /\ Unsubmitted(j)
    BY <1>2, <1>3 DEF JobInv, Untouched, Unsubmitted, Submits, Submitting, Saved
  <2>4. task[j] = None /\ task' = [task EXCEPT ![j] = None]
    BY <1>1, <2>3 DEF Untouched, Inv, Types
  <2> QED BY <1>1, <1>2, <1>3, <2>1, <2>2, <2>3, <2>4, EndStep DEF End, TERMINAL
<1>4. CASE target[j].state # "queued"
  <2>1. PICK force \in BOOLEAN : target' = [target EXCEPT ![j] =
               [state |-> "cancel_requested", cancel |-> "pending", rev |-> @.rev + 1, force |-> force]]
    BY <1>4 DEF cancel
  <2> DEFINE row == [state |-> "cancel_requested", cancel |-> "pending", rev |-> target[j].rev + 1, force |-> force]
  <2>2. target' = [target EXCEPT ![j] = row]
    BY <2>1
  <2>3. row \in Target /\ row.state = "cancel_requested"
    <3>1. target[j].rev \in 0..MaxRev /\ target[j].rev < MaxRev /\ MaxRev \in Nat
      BY <1>2, <1>4 DEF cancel, Target, JobsConstants, JobsAssumption
    <3>2. target[j].rev + 1 \in 0..MaxRev
      BY <3>1
    <3> QED BY <3>2 DEF Target, STATES
  <2> HIDE DEF row
  <2>4. /\ target' \in [Jobs -> Target \cup {None}] /\ task' \in [Jobs -> Tasks \cup {None}]
        /\ target'[j] = row /\ row # None /\ row.state \notin TERMINAL \cup {"queued"}
        /\ \A k \in Jobs \ {j} : target'[k] = target[k] /\ task'[k] = task[k]
    BY <1>1, <1>2, <2>2, <2>3 DEF Inv, Types, JobsConstants, TERMINAL
  <2>5. ~Closed(j)' /\ Saved(j)' = Saved(j) /\ Fresh(j)' = Fresh(j) /\ Submits(j)' = Submits(j) /\ Helped(j)' = Helped(j)
        /\ HelperOf(j)' = HelperOf(j) /\ Submitting(j)' = Submitting(j) /\ (Unsubmitted(j)' <=> Unsubmitted(j))
    BY <1>1, <2>4 DEF Closed, Saved, Fresh, Submits, Helped, HelperOf, Submitting, Unsubmitted, node
  <2>6. Waited(j)' /\ Tasked(j)' /\ Single(j)'
    BY <1>1, <1>2, <2>4, <2>5 DEF JobInv, Waited, Tasked, Single, node
  <2>7. Serving(j)' /\ Running(j)' /\ Settled(j)'
    BY <1>1, <1>2, <2>4, <2>5 DEF JobInv, Serving, Running, Settled, Undecided, node
  <2>8. JobInv(j)'
    BY <2>4, <2>6, <2>7 DEF JobInv
  <2> QED BY <1>1, <2>4, <2>8, ControllerStep
<1> QED BY <1>3, <1>4

(* A task starts from the row it reads, and only a queued job is submitted. *)
LEMMA ReconcileStep ==
  ASSUME JobsConstants, Inv, NEW j \in Jobs, reconcile(j)
  PROVE  Inv'
<1> DEFINE t == target[j]
           mine == [initial |-> t.state, action |-> Action(t), cancel |-> t.cancel, rev |-> t.rev,
                    force |-> t.force, pc |-> "send", reply |-> None]
<1>1. /\ t # None /\ ~Closed(j) /\ task[j] = None /\ UNCHANGED <<net, node>>
      /\ \/ /\ task' = [task EXCEPT ![j] = mine]
            /\ target' = IF t.state = "queued" THEN [target EXCEPT ![j].state = "dispatching"] ELSE target
         \/ mine.action # "status" /\ End(j, Failed(j, mine, "denied"))
  BY DEF reconcile
<1>2. t \in Target /\ JobInv(j) /\ t.state \in STATES \ TERMINAL
  BY <1>1 DEF Inv, Types, Closed, Target
<1>3. mine \in Tasks /\ mine.initial = t.state /\ mine.pc = "send" /\ mine.cancel = t.cancel /\ mine.rev = t.rev
      /\ mine.action = Action(t)
  BY <1>2 DEF Tasks, Target, Action, Kinds
<1>4. mine.initial = "queued" <=> mine.action = "submit"
  BY <1>3 DEF Action
<1>5. t.state = "queued" => Untouched(j) /\ Unsubmitted(j)
  BY <1>2 DEF JobInv, Untouched, Unsubmitted, Submits, Submitting, Saved
<1>6. CASE /\ task' = [task EXCEPT ![j] = mine]
           /\ target' = IF t.state = "queued" THEN [target EXCEPT ![j].state = "dispatching"] ELSE target
  <2>1. /\ target' \in [Jobs -> Target \cup {None}]
        /\ target'[j] \in Target /\ target'[j] # None
        /\ t.state # "queued" => target'[j] = t
        /\ t.state = "queued" => target'[j].state = "dispatching"
        /\ \A k \in Jobs \ {j} : target'[k] = target[k]
    BY <1>2, <1>6 DEF Inv, Types, Target, STATES, JobsConstants
  <2> HIDE DEF mine
  <2>2. /\ task' \in [Jobs -> Tasks \cup {None}] /\ task'[j] = mine /\ mine # None
        /\ \A k \in Jobs \ {j} : task'[k] = task[k]
    BY <1>3, <1>6 DEF Inv, Types, JobsConstants
  <2>3. ~Closed(j)' /\ target'[j].state # "queued"
    BY <1>1, <2>1 DEF Closed, TERMINAL
  <2>4. /\ Saved(j)' = Saved(j) /\ Fresh(j)' = Fresh(j) /\ Submits(j)' = Submits(j) /\ Helped(j)' = Helped(j)
        /\ HelperOf(j)' = HelperOf(j) /\ Submitting(j)' = Submitting(j) /\ (Unsubmitted(j)' <=> Unsubmitted(j))
    BY <1>1 DEF Saved, Fresh, Submits, Helped, HelperOf, Submitting, Unsubmitted, node
  <2>5. Waited(j)'
    BY <1>1, <1>2, <2>4 DEF JobInv, Waited, node
  <2>6. Tasked(j)'
    BY <1>3, <1>4, <1>5, <2>1, <2>2, <2>3, <2>4 DEF Tasked
  <2>7. Single(j)' /\ Running(j)' /\ Settled(j)'
    BY <1>1, <1>2, <2>3, <2>4 DEF JobInv, Single, Running, Settled, node
  <2>8. Serving(j)'
    BY <1>1, <1>2, <1>3, <2>2, <2>3, <2>4 DEF JobInv, Serving, Undecided, node
  <2>9. JobInv(j)'
    BY <2>1, <2>3, <2>5, <2>6, <2>7, <2>8 DEF JobInv
  <2> QED BY <1>1, <2>1, <2>2, <2>9, ControllerStep
<1>7. CASE mine.action # "status" /\ End(j, Failed(j, mine, "denied"))
  <2> HIDE DEF mine
  <2> DEFINE row == Failed(j, mine, "denied")
  <2>1. /\ row \in Target
        /\ \/ row = target[j]
           \/ ~Closed(j) /\ row.state \in {"failed", "unknown", "cancel_requested"}
        /\ row.state \in TERMINAL /\ ~Closed(j) /\ row # target[j] => mine.initial = "queued"
        /\ row = target[j] => Closed(j) \/ (mine.cancel # "none" /\ target[j].rev # mine.rev) \/ row.state # "queued"
    <3>1. mine.cancel \in {"none", "pending", "denied", "complete"}
      BY <1>2, <1>3 DEF Target
    <3> QED BY <1>2, <3>1, FailedRow
  <2>2. row.state # "queued"
    BY <1>1, <1>3, <2>1
  <2>3. t.state = "queued" => row.state \in TERMINAL
    BY <1>1, <1>3 DEF Failed, Closed, TERMINAL, row
  <2> HIDE DEF row
  <2>4. End(j, row)
    BY <1>7 DEF row
  <2> QED BY <1>1, <1>2, <1>3, <1>5, <2>1, <2>2, <2>3, <2>4, EndStep
<1> QED BY <1>1, <1>6, <1>7

(* SSH.command: the request leaves, or the task ends. *)
LEMMA SendStep ==
  ASSUME JobsConstants, Inv, NEW j \in Jobs, send(j)
  PROVE  Inv'
<1> DEFINE t == task[j]
           m0 == [job |-> j, action |-> t.action, force |-> t.force, late |-> FALSE]
           superseded == t.action = "cancel" /\ (Closed(j) \/ target[j].rev # t.rev)
<1>1. /\ t # None /\ t.pc = "send" /\ UNCHANGED node
      /\ \/ /\ net' = net \cup {m0} /\ task' = [task EXCEPT ![j].pc = "wait"] /\ UNCHANGED target
         \/ End(j, target[j]) /\ UNCHANGED net
         \/ End(j, Failed(j, t, "denied")) /\ UNCHANGED net
         \/ End(j, Failed(j, t, "other")) /\ UNCHANGED net
  BY DEF send
<1>2. JobInv(j) /\ t \in Tasks /\ target[j] # None /\ target[j] \in Target
  BY <1>1 DEF Inv, Types, JobInv, Tasked
<1>3. t.initial = "queued" => Unsubmitted(j) /\ ~Closed(j)
  BY <1>1, <1>2 DEF JobInv, Tasked
<1>4. CASE End(j, target[j]) /\ UNCHANGED net
  BY <1>1, <1>2, <1>4, EndStep
<1>5. CASE End(j, Failed(j, t, "denied")) /\ UNCHANGED net
  BY <1>1, <1>2, <1>3, <1>5, FailStep
<1>6. CASE End(j, Failed(j, t, "other")) /\ UNCHANGED net
  BY <1>1, <1>2, <1>3, <1>6, FailStep
<1>7. CASE net' = net \cup {m0} /\ task' = [task EXCEPT ![j].pc = "wait"] /\ UNCHANGED target
  <2>1. m0 \in Requests /\ m0.job = j /\ m0.action = t.action /\ ~m0.late
    BY <1>2 DEF Requests, Tasks
  <2> HIDE DEF m0
  <2>2. /\ task' \in [Jobs -> Tasks \cup {None}] /\ task'[j] # None /\ task'[j].pc = "wait" /\ task'[j].action = t.action
        /\ task'[j].initial = t.initial /\ \A k \in Jobs \ {j} : task'[k] = task[k]
    BY <1>1, <1>2, <1>7 DEF Inv, Types, Tasks, JobsConstants
  <2>3. \A m \in net : m.job = j => m.late
    BY <1>1, <1>2 DEF JobInv, Waited
  <2>4. Helped(j) => HelperOf(j).late
    BY <1>1, <1>2 DEF JobInv, Waited
  <2>5. /\ Saved(j)' = Saved(j) /\ Closed(j)' = Closed(j) /\ Fresh(j)' = Fresh(j) /\ Helped(j)' = Helped(j)
        /\ HelperOf(j)' = HelperOf(j) /\ Submitting(j)' = Submitting(j)
    BY <1>1, <1>7 DEF Saved, Closed, Fresh, Helped, HelperOf, Submitting, node
  <2>6. Submits(j)' = IF t.action = "submit" THEN Submits(j) \cup {m0} ELSE Submits(j)
    BY <1>7, <2>1 DEF Submits
  <2>7. target'[j] # None /\ target'[j].state # "queued"
    BY <1>1, <1>2, <1>7 DEF JobInv, Untouched
  <2>8. Waited(j)'
    BY <1>7, <2>1, <2>2, <2>3, <2>4, <2>5 DEF Waited
  <2>9. Tasked(j)'
    BY <1>2, <1>7, <2>2, <1>1 DEF JobInv, Tasked
  <2>10. Single(j)'
    <3>1. CASE t.action = "submit"
      <4>1. Unsubmitted(j) /\ ~Closed(j)
        BY <1>1, <1>2, <3>1 DEF JobInv, Tasked
      <4>2. Submits(j)' = {m0}
        BY <2>6, <3>1, <4>1 DEF Unsubmitted
      <4> QED BY <2>5, <4>1, <4>2 DEF Single, Unsubmitted
    <3>2. CASE t.action # "submit"
      BY <1>2, <2>5, <2>6, <3>2 DEF JobInv, Single
    <3> QED BY <3>1, <3>2
  <2>11. Serving(j)'
    BY <1>1, <1>2, <1>7, <2>2, <2>5 DEF JobInv, Serving, Undecided, node
  <2>12. Running(j)' /\ Settled(j)'
    BY <1>1, <1>2, <1>7, <2>5 DEF JobInv, Running, Settled, node
  <2>13. JobInv(j)'
    BY <2>7, <2>8, <2>9, <2>10, <2>11, <2>12 DEF JobInv
  <2>14. ASSUME NEW k \in Jobs, k # j
         PROVE  JobInv(k)'
    <3>1. \A m : m.job = k => (m \in net' <=> m \in net)
      BY <1>7, <2>1, <2>14
    <3> QED BY <1>1, <1>7, <2>2, <2>14, <3>1, Elsewhere DEF Inv, node
  <2>15. net' \in SUBSET Requests
    BY <1>7, <2>1 DEF Inv, Types
  <2> QED BY <1>1, <1>7, <2>2, <2>13, <2>14, <2>15 DEF Inv, Types, node
<1> QED BY <1>1, <1>4, <1>5, <1>6, <1>7

(* An answer closes the job only with the outcome its node keeps, or when   *)
(* the submission was refused.                                              *)
LEMMA ReceiveStep ==
  ASSUME JobsConstants, Inv, NEW j \in Jobs, receive(j)
  PROVE  Inv'
<1> DEFINE t == task[j]
<1>1. /\ t # None /\ t.pc = "answered" /\ UNCHANGED <<net, node>>
      /\ End(j, IF t.reply = "refused" THEN Failed(j, t, IF t.action = "submit" THEN "refused" ELSE "other")
                ELSE IF t.reply = "uncertain" THEN Failed(j, t, "other")
                ELSE Answered(j, t.reply))
  BY DEF receive
<1>2. JobInv(j) /\ t \in Tasks /\ target[j] # None /\ target[j] \in Target /\ target[j].state # "queued"
  BY <1>1 DEF Inv, Types, JobInv, Tasked, Untouched
<1>3. t.reply \in REPLIES
  BY <1>1, <1>2 DEF JobInv, Tasked, Tasks
<1>4. t.action = "submit" /\ t.reply = "refused" => Unsubmitted(j)
  BY <1>1, <1>2 DEF JobInv, Tasked
<1>5. t.initial = "queued" <=> t.action = "submit"
  BY <1>1, <1>2 DEF JobInv, Tasked
<1>6. CASE t.reply = "refused"
  <2> DEFINE kind == IF t.action = "submit" THEN "refused" ELSE "other"
  <2>1. End(j, Failed(j, t, kind)) /\ (kind \in {"denied", "refused"} /\ t.initial = "queued" => Unsubmitted(j))
    BY <1>1, <1>4, <1>5, <1>6
  <2> HIDE DEF kind
  <2> QED BY <1>1, <1>2, <2>1, FailStep
<1>7. CASE t.reply = "uncertain"
  <2>1. End(j, Failed(j, t, "other"))
    BY <1>1, <1>7
  <2> QED BY <1>1, <1>2, <2>1, FailStep
<1>8. CASE t.reply \notin {"refused", "uncertain"}
  <2> DEFINE row == Answered(j, t.reply)
  <2>1. /\ row \in Target
        /\ \/ row = target[j] /\ Closed(j)
           \/ ~Closed(j) /\ row.state \in {t.reply, "cancel_requested"}
    BY <1>2, <1>3, <1>8, AnsweredRow
  <2>2. End(j, row)
    BY <1>1, <1>8
  <2> HIDE DEF row
  <2>3. t.reply # "queued" /\ "cancel_requested" \notin TERMINAL
    BY <1>3 DEF REPLIES, TERMINAL
  <2> QED BY <1>1, <1>2, <2>1, <2>2, <2>3, EndStep
<1> QED BY <1>6, <1>7, <1>8

(* An answer that is not understood closes nothing. *)
LEMMA ValidateStep ==
  ASSUME JobsConstants, Inv, NEW j \in Jobs, validate(j)
  PROVE  Inv'
<1>1. /\ task[j] # None /\ task[j].pc = "answered" /\ UNCHANGED <<net, node>>
      /\ End(j, Failed(j, task[j], "other"))
  BY DEF validate
<1>2. target[j] # None
  BY <1>1 DEF Inv, JobInv, Tasked
<1> QED BY <1>1, <1>2, FailStep

-----------------------------------------------------------------------------
(* Requests that nobody waits for any more *)

(* Requests that are given up are lost or late; nobody waits for them. *)
LEMMA AbandonFacts ==
  ASSUME Inv, NEW js \in SUBSET Jobs, Abandon(js)
  PROVE  /\ net' \in SUBSET Requests
         /\ \A k \in js : \A m \in net' : m.job = k => m.late /\ \E o \in net : o.job = k /\ o.action = m.action
         /\ \A k \in js : \A m1, m2 \in Submits(k)' : m1 = m2
         /\ \A k \in Jobs \ js : \A m : m.job = k => (m \in net' <=> m \in net)
<1> DEFINE mine == {m \in net : m.job \in js /\ ~m.late}
           Late(m) == [m EXCEPT !.late = TRUE]
           copies == {Late(m) : m \in mine}
<1>1. net' = net \ mine \/ net' = (net \ mine) \cup copies
  BY DEF Abandon
<1>2. \A m \in net : m \in Requests
  BY DEF Inv, Types
<1>3. \A m \in mine : /\ Late(m) \in Requests /\ Late(m).job = m.job /\ Late(m).action = m.action
                      /\ Late(m).late = TRUE /\ m.job \in js /\ m \in net /\ m \in Requests
  BY <1>2 DEF Requests
<1> HIDE DEF Late
<1>4. \A m \in net' : m \in net \ mine \/ \E o \in mine : m = Late(o)
  BY <1>1
<1>5. net' \in SUBSET Requests
  BY <1>2, <1>3, <1>4
<1>6. ASSUME NEW k \in js, NEW m \in net', m.job = k
      PROVE  m.late /\ \E o \in net : o.job = k /\ o.action = m.action
  <2>1. CASE m \in net \ mine
    BY <1>6, <2>1
  <2>2. CASE \E o \in mine : m = Late(o)
    BY <1>3, <1>6, <2>2
  <2> QED BY <1>4, <2>1, <2>2
<1>7. ASSUME NEW k \in js, NEW m1 \in Submits(k)', NEW m2 \in Submits(k)'
      PROVE  m1 = m2
  <2>1. \A a, b \in net : a.job = k /\ b.job = k /\ a.action = "submit" /\ b.action = "submit" => a = b
    BY DEF Inv, JobInv, Single, Submits
  <2>2. m1 \in net' /\ m2 \in net' /\ m1.job = k /\ m2.job = k /\ m1.action = "submit" /\ m2.action = "submit"
    BY <1>7 DEF Submits
  <2>3. CASE m1 \in net \ mine /\ m2 \in net \ mine
    BY <2>1, <2>2, <2>3
  <2>4. CASE m1 \in net \ mine /\ \E o \in mine : m2 = Late(o)
    BY <1>3, <2>1, <2>2, <2>4
  <2>5. CASE m2 \in net \ mine /\ \E o \in mine : m1 = Late(o)
    BY <1>3, <2>1, <2>2, <2>5
  <2>6. CASE (\E o \in mine : m1 = Late(o)) /\ \E o \in mine : m2 = Late(o)
    <3>1. PICK a \in mine : m1 = Late(a)
      BY <2>6
    <3>2. PICK b \in mine : m2 = Late(b)
      BY <2>6
    <3>3. a = b
      BY <1>3, <2>1, <2>2, <3>1, <3>2
    <3> QED BY <3>1, <3>2, <3>3
  <2> QED BY <1>4, <2>2, <2>3, <2>4, <2>5, <2>6
<1>8. ASSUME NEW k \in Jobs \ js, NEW m, m.job = k
      PROVE  m \in net' <=> m \in net
  <2>1. m \notin mine
    BY <1>8
  <2>2. m \in copies => FALSE
    BY <1>3, <1>8
  <2> HIDE DEF mine, copies
  <2> QED BY <1>1, <2>1, <2>2
<1> HIDE DEF mine, copies
<1> QED BY <1>5, <1>6, <1>7, <1>8

(* A helper whose request was given up goes on for nobody. *)
LEMMA OrphanedFacts ==
  ASSUME JobsConstants, Inv, NEW js \in SUBSET Jobs, helper' = Orphaned(js)
  PROVE  /\ helper' \in [Nodes -> Helpers \cup {None}]
         /\ \A n \in Nodes : helper'[n] # None => NodeOf[helper'[n].job] = n
         /\ \A k \in js : Helped(k)' => /\ Helped(k) /\ HelperOf(k)'.late /\ HelperOf(k)'.pc = HelperOf(k).pc
                                        /\ HelperOf(k)'.action = HelperOf(k).action
         /\ \A k \in Jobs \ js : helper'[NodeOf[k]] = helper[NodeOf[k]] \/ (~Helped(k) /\ ~Helped(k)')
<1>1. ASSUME NEW n \in Nodes
      PROVE  \/ helper'[n] = helper[n] /\ (helper[n] # None => helper[n].job \notin js)
             \/ /\ helper[n] # None /\ helper[n] \in Helpers /\ helper[n].job \in js
                /\ helper'[n] \in Helpers /\ helper'[n] # None /\ helper'[n].late
                /\ helper'[n].job = helper[n].job /\ helper'[n].pc = helper[n].pc
                /\ helper'[n].action = helper[n].action
  <2>1. helper'[n] = IF helper[n] # None /\ helper[n].job \in js THEN [helper[n] EXCEPT !.late = TRUE] ELSE helper[n]
    BY DEF Orphaned
  <2>2. CASE helper[n] # None /\ helper[n].job \in js
    <3>1. helper[n] \in Helpers
      BY <2>2 DEF Inv, Types
    <3>2. helper'[n] = [helper[n] EXCEPT !.late = TRUE]
      BY <2>1, <2>2
    <3> QED BY <2>2, <3>1, <3>2 DEF Helpers, JobsConstants
  <2>3. CASE ~(helper[n] # None /\ helper[n].job \in js)
    BY <2>1, <2>3
  <2> QED BY <2>2, <2>3
<1>2. helper' = [n \in Nodes |-> helper'[n]]
  BY DEF Orphaned
<1>3. \A n \in Nodes : helper'[n] \in Helpers \cup {None}
  BY <1>1 DEF Inv, Types
<1>4. helper' \in [Nodes -> Helpers \cup {None}]
  BY <1>2, <1>3
<1>5. \A n \in Nodes : helper'[n] # None => NodeOf[helper'[n].job] = n
  BY <1>1 DEF Inv
<1>6. \A k \in Jobs : NodeOf[k] \in Nodes
  BY DEF JobsConstants, JobsAssumption
<1>7. \A k \in js : Helped(k)' => /\ Helped(k) /\ HelperOf(k)'.late /\ HelperOf(k)'.pc = HelperOf(k).pc
                                  /\ HelperOf(k)'.action = HelperOf(k).action
  BY <1>1, <1>6 DEF Helped, HelperOf
<1>8. \A k \in Jobs \ js : helper'[NodeOf[k]] = helper[NodeOf[k]] \/ (~Helped(k) /\ ~Helped(k)')
  BY <1>1, <1>6 DEF Helped, HelperOf
<1> QED BY <1>4, <1>5, <1>7, <1>8

(* What a failure without a verdict makes of a row. *)
LEMMA OtherRow ==
  ASSUME JobsConstants, Inv, NEW j \in Jobs, target[j] # None, task[j] # None
  PROVE  LET row == Failed(j, task[j], "other") IN
         /\ row \in Target /\ row # None
         /\ \/ row = target[j]
            \/ /\ target[j] # None /\ ~Closed(j) /\ target[j].state # "queued"
               /\ row.state \notin TERMINAL \cup {"queued"}
<1> DEFINE row == Failed(j, task[j], "other")
<1>1. target[j] \in Target /\ task[j].cancel \in {"none", "pending", "denied", "complete"}
  BY DEF Inv, Types, Tasks
<1>2. /\ row \in Target
      /\ \/ row = target[j]
         \/ ~Closed(j) /\ row.state \in {"failed", "unknown", "cancel_requested"}
      /\ row.state \in TERMINAL /\ ~Closed(j) /\ row # target[j] =>
           task[j].initial = "queued" /\ "other" \in {"denied", "refused"}
  BY <1>1, FailedRow
<1>3. target[j].state # "queued"
  BY DEF Inv, JobInv, Untouched
<1> HIDE DEF row
<1>4. row # None
  BY <1>2 DEF JobsConstants
<1>5. row.state # "failed" \/ row = target[j]
  BY <1>2 DEF TERMINAL
<1>6. row = target[j] \/ row.state \notin TERMINAL \cup {"queued"}
  BY <1>2, <1>5 DEF TERMINAL
<1> QED BY <1>2, <1>3, <1>4, <1>6 DEF row

(* A task that gives up leaves its job open. *)
LEMMA GiveUpStep ==
  ASSUME JobsConstants, Inv, NEW j \in Jobs, give_up(j)
  PROVE  Inv'
<1> DEFINE row == Failed(j, task[j], "other")
<1>1. /\ task[j] # None /\ End(j, row) /\ Abandon({j}) /\ helper' = Orphaned({j})
      /\ UNCHANGED <<receipt, unit, signal, alive, boot>>
  BY DEF give_up
<1>2. target[j] # None
  BY <1>1 DEF Inv, JobInv, Tasked
<1>3. /\ row \in Target /\ row # None
      /\ \/ row = target[j]
         \/ /\ target[j] # None /\ ~Closed(j) /\ target[j].state # "queued"
            /\ row.state \notin TERMINAL \cup {"queued"}
  BY <1>1, <1>2, OtherRow
<1> HIDE DEF row
<1>4. /\ target' \in [Jobs -> Target \cup {None}] /\ task' \in [Jobs -> Tasks \cup {None}]
      /\ target'[j] = row /\ task'[j] = None
      /\ \A k \in Jobs \ {j} : target'[k] = target[k] /\ task'[k] = task[k]
  BY <1>1, <1>3 DEF Inv, Types, End
<1>5. {j} \in SUBSET Jobs
  OBVIOUS
<1>6. JobInv(j)'
  BY <1>1, <1>3, <1>4, <1>5, AbandonFacts, OrphanedFacts, Dropped DEF Inv
<1>7. ASSUME NEW k \in Jobs, k # j
      PROVE  JobInv(k)'
  <2>1. \A m : m.job = k => (m \in net' <=> m \in net)
    BY <1>1, <1>5, <1>7, AbandonFacts
  <2>2. helper'[NodeOf[k]] = helper[NodeOf[k]] \/ (~Helped(k) /\ ~Helped(k)')
    BY <1>1, <1>5, <1>7, OrphanedFacts
  <2> QED BY <1>1, <1>4, <1>7, <2>1, <2>2, Elsewhere DEF Inv
<1>8. net' \in SUBSET Requests
  BY <1>1, <1>5, AbandonFacts
<1>9. helper' \in [Nodes -> Helpers \cup {None}] /\ \A n \in Nodes : helper'[n] # None => NodeOf[helper'[n].job] = n
  BY <1>1, <1>5, OrphanedFacts
<1>10. Types'
  BY <1>1, <1>4, <1>8, <1>9 DEF Inv, Types
<1> QED BY <1>6, <1>7, <1>9, <1>10 DEF Inv

(* A controller that restarts has no tasks. *)
LEMMA RestartStep ==
  ASSUME JobsConstants, Inv, Restart
  PROVE  Inv'
<1>1. /\ task' = [j \in Jobs |-> None] /\ Abandon(Jobs) /\ helper' = Orphaned(Jobs)
      /\ UNCHANGED <<target, receipt, unit, signal, alive, boot>>
  BY DEF Restart
<1>2. ASSUME NEW k \in Jobs
      PROVE  JobInv(k)'
  BY <1>1, AbandonFacts, OrphanedFacts, Dropped DEF Inv
<1>3. net' \in SUBSET Requests
  BY <1>1, AbandonFacts
<1>4. helper' \in [Nodes -> Helpers \cup {None}] /\ \A n \in Nodes : helper'[n] # None => NodeOf[helper'[n].job] = n
  BY <1>1, OrphanedFacts
<1>5. Types'
  BY <1>1, <1>3, <1>4 DEF Inv, Types
<1> QED BY <1>2, <1>4, <1>5 DEF Inv

-----------------------------------------------------------------------------
(* What the node may do to one job *)

(* As long as no result is recorded, nobody knows one. *)
LEMMA NotDecided ==
  ASSUME JobsConstants, NEW k \in Jobs, JobInv(k), Saved(k), receipt[k].result = None
  PROVE  Undecided(k)
BY DEF JobInv, Tasked, Settled, Undecided, JobsConstants

(* The node notes a first result, or clears what an interrupted submission  *)
(* left behind.                                                             *)
LEMMA Noted ==
  ASSUME JobsConstants, NEW k \in Jobs, JobInv(k), target'[k] = target[k], task'[k] = task[k],
         \A m : m.job = k => (m \in net' <=> m \in net),
         helper'[NodeOf[k]] = helper[NodeOf[k]] \/ (~Helped(k) /\ ~Helped(k)'),
         \/ receipt'[k].dir = receipt[k].dir
         \/ receipt[k].dir = "staged" /\ receipt'[k].dir = "none" /\ ~Helped(k),
         Saved(k) => receipt'[k].result = receipt[k].result \/ receipt[k].result = None,
         Running(k)'
  PROVE  JobInv(k)'
<1>1. /\ Closed(k)' = Closed(k) /\ Submits(k)' = Submits(k) /\ (Saved(k)' <=> Saved(k))
      /\ (Undecided(k)' <=> Undecided(k))
  BY DEF Closed, Saved, Submits, Undecided
<1>2. Helped(k)' <=> Helped(k)
  BY DEF Helped, HelperOf
<1>3. Helped(k) => HelperOf(k)' = HelperOf(k) /\ receipt'[k].dir = receipt[k].dir
  BY DEF Helped, HelperOf
<1>4. Submitting(k)' <=> Submitting(k)
  BY <1>2, <1>3 DEF Submitting
<1>5. Untouched(k) => Untouched(k)'
  BY <1>2 DEF Untouched
<1>6. Waited(k)'
  BY <1>2, <1>3 DEF JobInv, Waited
<1>7. Saved(k) => receipt'[k].result = receipt[k].result \/ Undecided(k)
  BY NotDecided
<1>8. Tasked(k)'
  BY <1>1, <1>4, <1>7 DEF JobInv, Tasked, Unsubmitted, Undecided
<1>9. Single(k)'
  BY <1>1, <1>4 DEF JobInv, Single
<1>10. Serving(k)'
  BY <1>1, <1>2, <1>3 DEF JobInv, Serving
<1>11. Settled(k)'
  BY <1>1, <1>7 DEF JobInv, Settled, Undecided
<1> QED BY <1>5, <1>6, <1>8, <1>9, <1>10, <1>11 DEF JobInv

(* A helper answers, or has nobody to answer to, and lets the lock go. *)
LEMMA Replied ==
  ASSUME JobsConstants, NEW k \in Jobs, JobInv(k), task[k] \in Tasks \cup {None},
         target[k] # None, target[k].state # "queued", target'[k] = target[k], ~Helped(k)',
         NEW late \in BOOLEAN, NEW s \in REPLIES,
         late => task'[k] = task[k],
         ~late => /\ task[k] # None /\ task[k].pc = "wait"
                  /\ task'[k] = [task[k] EXCEPT !.pc = "answered", !.reply = s],
         \A m \in net' : m.job = k => m \in net /\ (~late => m.late),
         Saved(k)' <=> Saved(k),
         Saved(k) => receipt'[k].result = receipt[k].result \/ Undecided(k),
         s \in TERMINAL => Saved(k)' /\ receipt'[k].result = s,
         ~late /\ task[k].action = "submit" /\ s = "refused" => Unsubmitted(k)',
         Running(k)'
  PROVE  JobInv(k)' /\ task'[k] \in Tasks \cup {None}
<1>1. /\ Closed(k)' = Closed(k) /\ Submits(k)' \subseteq Submits(k) /\ ~Submitting(k)'
  BY DEF Closed, Submits, Submitting
<1>2. target'[k] # None /\ target'[k].state # "queued"
  OBVIOUS
<1>3. Single(k)' /\ Serving(k)' /\ Settled(k)'
  <2>1. Single(k)'
    BY <1>1 DEF JobInv, Single
  <2>2. Serving(k)'
    BY DEF Serving
  <2>3. Settled(k)'
    BY <1>1 DEF JobInv, Settled, Undecided
  <2> QED BY <2>1, <2>2, <2>3
<1>4. CASE late
  <2>1. Waited(k)'
    BY <1>4 DEF JobInv, Waited
  <2>2. Unsubmitted(k) => Unsubmitted(k)'
    BY <1>1 DEF Unsubmitted
  <2>3. Tasked(k)'
    BY <1>1, <1>4, <2>2 DEF JobInv, Tasked, Undecided
  <2> QED BY <1>2, <1>3, <1>4, <2>1, <2>3 DEF JobInv
<1>5. CASE ~late
  <2>1. Waited(k)'
    BY <1>5 DEF Waited
  <2>2. /\ task'[k].pc = "answered" /\ task'[k].reply = s /\ task'[k].action = task[k].action
        /\ task'[k].initial = task[k].initial /\ task'[k] \in Tasks
    BY <1>5 DEF Tasks
  <2>3. s # None
    BY DEF JobsConstants, REPLIES
  <2>4. Tasked(k)'
    BY <1>5, <2>2, <2>3 DEF JobInv, Tasked
  <2> QED BY <1>2, <1>3, <2>1, <2>2, <2>4 DEF JobInv
<1> QED BY <1>4, <1>5

(* A helper goes on to its next step. *)
LEMMA Moved ==
  ASSUME JobsConstants, NEW k \in Jobs, JobInv(k), target'[k] = target[k], task'[k] = task[k], net' = net,
         Helped(k), Helped(k)', HelperOf(k)'.late = HelperOf(k).late, HelperOf(k)'.action = HelperOf(k).action,
         (Saved(k)' <=> Saved(k)) \/ (Submitting(k) /\ Undecided(k)),
         Saved(k) => receipt'[k].result = receipt[k].result \/ Undecided(k),
         Running(k)', Serving(k)'
  PROVE  JobInv(k)'
<1>1. Closed(k)' = Closed(k) /\ Submits(k)' = Submits(k) /\ (Submitting(k)' <=> Submitting(k))
  BY DEF Closed, Submits, Submitting
<1>2. target'[k] # None /\ target'[k].state # "queued"
  BY DEF JobInv, Untouched
<1>3. Waited(k)'
  BY DEF JobInv, Waited
<1>4. Tasked(k)'
  BY <1>1 DEF JobInv, Tasked, Unsubmitted, Undecided
<1>5. Single(k)'
  BY <1>1 DEF JobInv, Single
<1>6. Settled(k)'
  BY <1>1 DEF JobInv, Settled, Undecided
<1> QED BY <1>2, <1>3, <1>4, <1>5, <1>6 DEF JobInv

(* The lock of a node passes between nobody and the helper of one job. *)
LEMMA HelperMoves ==
  ASSUME JobsConstants, Inv, NEW n \in Nodes, NEW j \in Jobs, NodeOf[j] = n,
         helper[n] = None \/ helper[n].job = j,
         NEW x \in Helpers \cup {None}, x # None => x.job = j, helper' = [helper EXCEPT ![n] = x]
  PROVE  /\ helper' \in [Nodes -> Helpers \cup {None}]
         /\ \A i \in Nodes : helper'[i] # None => NodeOf[helper'[i].job] = i
         /\ helper'[n] = x
         /\ \A k \in Jobs \ {j} : helper'[NodeOf[k]] = helper[NodeOf[k]] \/ (~Helped(k) /\ ~Helped(k)')
<1>1. /\ helper' \in [Nodes -> Helpers \cup {None}] /\ helper'[n] = x
      /\ \A i \in Nodes \ {n} : helper'[i] = helper[i]
  BY DEF Inv, Types
<1>2. ASSUME NEW k \in Jobs, k # j
      PROVE  helper'[NodeOf[k]] = helper[NodeOf[k]] \/ (~Helped(k) /\ ~Helped(k)')
  <2>1. CASE NodeOf[k] = n
    BY <1>1, <1>2, <2>1 DEF Helped, HelperOf
  <2>2. CASE NodeOf[k] # n
    BY <1>1, <2>2 DEF JobsConstants, JobsAssumption
  <2> QED BY <2>1, <2>2
<1>3. \A i \in Nodes : helper'[i] # None => NodeOf[helper'[i].job] = i
  BY <1>1 DEF Inv
<1> QED BY <1>1, <1>2, <1>3

(* A step of the helper of one job. *)
LEMMA HelperStep ==
  ASSUME JobsConstants, Inv, NEW n \in Nodes, NEW j \in Jobs, NodeOf[j] = n,
         helper[n] = None \/ helper[n].job = j,
         NEW x \in Helpers \cup {None}, x # None => x.job = j, helper' = [helper EXCEPT ![n] = x],
         UNCHANGED <<net, alive, boot>>, Types',
         \A k \in Jobs \ {j} : /\ target'[k] = target[k] /\ task'[k] = task[k]
                               /\ receipt'[k] = receipt[k] /\ unit'[k] = unit[k],
         JobInv(j)'
  PROVE  Inv'
<1>1. ASSUME NEW k \in Jobs, k # j
      PROVE  JobInv(k)'
  <2>1. helper'[NodeOf[k]] = helper[NodeOf[k]] \/ (~Helped(k) /\ ~Helped(k)')
    BY <1>1, HelperMoves
  <2> QED BY <1>1, <2>1, Elsewhere DEF Inv
<1>2. \A i \in Nodes : helper'[i] # None => NodeOf[helper'[i].job] = i
  BY HelperMoves
<1> QED BY <1>1, <1>2 DEF Inv

-----------------------------------------------------------------------------
(* The steps of a helper *)

(* What holds of the request that has the lock of a node. *)
LEMMA Locked ==
  ASSUME JobsConstants, Inv, NEW n \in Nodes, NEW h, helper[n] = h, h # None
  PROVE  /\ h \in Helpers /\ h.job \in Jobs /\ NodeOf[h.job] = n /\ JobInv(h.job)
         /\ Helped(h.job) /\ HelperOf(h.job) = h
         /\ target[h.job] # None /\ target[h.job].state # "queued"
         /\ ~h.late => task[h.job] # None /\ task[h.job].pc = "wait" /\ task[h.job].action = h.action
         /\ \A m \in net : m.job = h.job /\ ~h.late => m.late
<1>1. h \in Helpers /\ h.job \in Jobs /\ NodeOf[h.job] = n
  BY DEF Inv, Types, Helpers
<1>2. JobInv(h.job) /\ HelperOf(h.job) = h /\ Helped(h.job)
  BY <1>1 DEF Inv, Helped, HelperOf
<1>3. target[h.job] # None /\ target[h.job].state # "queued"
  BY <1>2 DEF JobInv, Untouched
<1>4. /\ ~h.late => task[h.job] # None /\ task[h.job].pc = "wait" /\ task[h.job].action = h.action
      /\ \A m \in net : m.job = h.job /\ ~h.late => m.late
  BY <1>2 DEF JobInv, Waited
<1> QED BY <1>1, <1>2, <1>3, <1>4

(* A helper's last step: it answers what it found and lets the lock go. *)
LEMMA HelperAnswers ==
  ASSUME JobsConstants, Inv, NEW n \in Nodes, NEW h, helper[n] = h, h # None, NEW s \in REPLIES,
         Reply(h, s), Release(n), UNCHANGED <<target, net, alive, boot>>,
         receipt' \in [Jobs -> Receipts], unit' \in [Jobs -> {"none", "active", "exited", "stopped", "failed"}],
         signal' \in [Jobs -> {"none", "term", "kill"}],
         \A k \in Jobs \ {h.job} : receipt'[k] = receipt[k] /\ unit'[k] = unit[k],
         Saved(h.job)' <=> Saved(h.job),
         Saved(h.job) => receipt'[h.job].result = receipt[h.job].result \/ Undecided(h.job),
         s \in TERMINAL => Saved(h.job)' /\ receipt'[h.job].result = s,
         s # "refused", Running(h.job)'
  PROVE  Inv'
<1>1. /\ h \in Helpers /\ h.job \in Jobs /\ NodeOf[h.job] = n /\ JobInv(h.job)
      /\ target[h.job] # None /\ target[h.job].state # "queued"
      /\ ~h.late => task[h.job] # None /\ task[h.job].pc = "wait" /\ task[h.job].action = h.action
      /\ \A m \in net : m.job = h.job /\ ~h.late => m.late
  BY Locked
<1>2. PICK j \in Jobs : j = h.job
  BY <1>1
<1>3. helper' = [helper EXCEPT ![n] = None]
  BY DEF Release
<1>4. /\ helper' \in [Nodes -> Helpers \cup {None}] /\ helper'[n] = None
  BY <1>1, <1>3, HelperMoves
<1>5. ~Helped(j)'
  BY <1>1, <1>2, <1>4 DEF Helped, HelperOf
<1>6. /\ h.late => task'[j] = task[j]
      /\ ~h.late => task'[j] = [task[j] EXCEPT !.pc = "answered", !.reply = s]
      /\ \A k \in Jobs \ {j} : task'[k] = task[k]
      /\ task' = [k \in Jobs |-> task'[k]] /\ task \in [Jobs -> Tasks \cup {None}]
  BY <1>2 DEF Reply, Inv, Types
<1>7. h.late \in BOOLEAN /\ task[j] \in Tasks \cup {None}
  BY <1>1, <1>6 DEF Helpers
<1>8. JobInv(j)' /\ task'[j] \in Tasks \cup {None}
  BY <1>1, <1>2, <1>5, <1>6, <1>7, Replied
<1>9. task' \in [Jobs -> Tasks \cup {None}]
  BY <1>6, <1>8
<1>10. Types'
  BY <1>4, <1>9 DEF Inv, Types
<1> QED BY <1>1, <1>2, <1>3, <1>6, <1>8, <1>10, HelperStep

(* A helper's other steps: it keeps the lock. *)
LEMMA HelperHolds ==
  ASSUME JobsConstants, Inv, NEW n \in Nodes, NEW h, helper[n] = h, h # None,
         NEW pc \in {"stage", "publish", "start", "read", "again", "probe", "first", "stop"},
         Hold(n, h, pc), UNCHANGED <<target, task, net, alive, boot>>,
         receipt' \in [Jobs -> Receipts], unit' \in [Jobs -> {"none", "active", "exited", "stopped", "failed"}],
         signal' \in [Jobs -> {"none", "term", "kill"}],
         \A k \in Jobs \ {h.job} : receipt'[k] = receipt[k] /\ unit'[k] = unit[k],
         (Saved(h.job)' <=> Saved(h.job)) \/ (Submitting(h.job) /\ Undecided(h.job)),
         Saved(h.job) => receipt'[h.job].result = receipt[h.job].result \/ Undecided(h.job),
         Running(h.job)',
         pc \in {"stage", "publish", "start"} => h.action = "submit",
         pc = "stage" => ~Saved(h.job)',
         pc = "publish" => receipt'[h.job].dir = "staged",
         pc \notin {"stage", "publish"} => Saved(h.job)',
         pc \in {"stage", "publish", "start", "probe", "first"} => Undecided(h.job)
  PROVE  Inv'
<1>1. h \in Helpers /\ h.job \in Jobs /\ NodeOf[h.job] = n /\ JobInv(h.job) /\ Helped(h.job) /\ HelperOf(h.job) = h
  BY Locked
<1>2. PICK j \in Jobs : j = h.job
  BY <1>1
<1> DEFINE x == [h EXCEPT !.pc = pc]
<1>3. /\ x \in Helpers /\ x # None /\ x.job = j /\ x.late = h.late /\ x.action = h.action /\ x.pc = pc
  BY <1>1, <1>2 DEF Helpers, JobsConstants
<1>4. helper' = [helper EXCEPT ![n] = x]
  BY DEF Hold
<1> HIDE DEF x
<1>5. helper' \in [Nodes -> Helpers \cup {None}] /\ helper'[n] = x
  BY <1>3, <1>4 DEF Inv, Types
<1>6. Helped(j)' /\ HelperOf(j)' = x
  BY <1>1, <1>2, <1>3, <1>5 DEF Helped, HelperOf
<1>7. Undecided(j)' <=> Undecided(j)
  BY DEF Undecided, Closed
<1>8. Serving(j)'
  BY <1>2, <1>3, <1>6, <1>7 DEF Serving
<1>9. JobInv(j)'
  BY <1>1, <1>2, <1>3, <1>6, <1>8, Moved
<1>10. Types'
  BY <1>5 DEF Inv, Types
<1> QED BY <1>1, <1>2, <1>3, <1>4, <1>9, <1>10, HelperStep

(* The end of a connection, whether or not somebody still waits. *)
LEMMA HelperDiesStep ==
  ASSUME JobsConstants, Inv, NEW n \in Nodes, HelperDies(n)
  PROVE  Inv'
<1>1. PICK h : helper[n] = h
  OBVIOUS
<1>2. /\ h # None /\ helper' = [helper EXCEPT ![n] = None] /\ UNCHANGED <<net, receipt, unit, signal, alive, boot>>
      /\ IF h.late THEN UNCHANGED <<target, task>> ELSE End(h.job, Failed(h.job, task[h.job], "other"))
  BY <1>1 DEF HelperDies, Release
<1>3. /\ h \in Helpers /\ h.job \in Jobs /\ NodeOf[h.job] = n /\ JobInv(h.job)
      /\ target[h.job] # None /\ target[h.job].state # "queued"
      /\ ~h.late => task[h.job] # None /\ task[h.job].pc = "wait" /\ task[h.job].action = h.action
      /\ \A m \in net : m.job = h.job /\ ~h.late => m.late
  BY <1>1, <1>2, Locked
<1>4. PICK j \in Jobs : j = h.job
  BY <1>3
<1>5. helper' \in [Nodes -> Helpers \cup {None}] /\ helper'[n] = None
  BY <1>1, <1>2, <1>3, HelperMoves
<1>6. ~Helped(j)'
  BY <1>3, <1>4, <1>5 DEF Helped, HelperOf
<1>7. CASE h.late
  <2>1. UNCHANGED <<target, task>>
    BY <1>2, <1>7
  <2>2. Running(j)' /\ (Saved(j)' <=> Saved(j))
    BY <1>2, <1>3, <1>4 DEF JobInv, Running, Saved, Fresh
  <2>3. task[j] \in Tasks \cup {None} /\ "unknown" \in REPLIES /\ "unknown" \notin TERMINAL
    BY DEF Inv, Types, REPLIES, TERMINAL
  <2>4. JobInv(j)'
    BY <1>2, <1>3, <1>4, <1>6, <1>7, <2>1, <2>2, <2>3, Replied
  <2>5. Types'
    BY <1>2, <1>5, <2>1 DEF Inv, Types
  <2> QED BY <1>1, <1>2, <1>3, <1>4, <2>1, <2>4, <2>5, HelperStep
<1>8. CASE ~h.late
  <2> DEFINE row == Failed(j, task[j], "other")
  <2>1. End(j, row) /\ task[j] # None
    BY <1>2, <1>3, <1>4, <1>8
  <2>2. /\ row \in Target /\ row # None
        /\ \/ row = target[j]
           \/ /\ target[j] # None /\ ~Closed(j) /\ target[j].state # "queued"
              /\ row.state \notin TERMINAL \cup {"queued"}
    BY <1>3, <1>4, <2>1, OtherRow
  <2> HIDE DEF row
  <2>3. /\ target' \in [Jobs -> Target \cup {None}] /\ task' \in [Jobs -> Tasks \cup {None}]
        /\ target'[j] = row /\ task'[j] = None
        /\ \A k \in Jobs \ {j} : target'[k] = target[k] /\ task'[k] = task[k]
    BY <2>1, <2>2 DEF Inv, Types, End
  <2>4. \A m \in net' : m.job = j => m.late /\ \E o \in net : o.job = j /\ o.action = m.action
    BY <1>2, <1>3, <1>4, <1>8
  <2>5. \A m1, m2 \in Submits(j)' : m1 = m2
    BY <1>2, <1>3, <1>4 DEF JobInv, Single, Submits
  <2>6. JobInv(j)'
    BY <1>2, <1>3, <1>4, <1>6, <2>2, <2>3, <2>4, <2>5, Dropped
  <2>7. Types'
    BY <1>2, <1>5, <2>3 DEF Inv, Types
  <2> QED BY <1>1, <1>2, <1>3, <1>4, <2>3, <2>6, <2>7, HelperStep
<1> QED BY <1>7, <1>8

(* What a unit shows is a reply; of a program that runs it is no outcome. *)
LEMMA ShownReplies ==
  ASSUME JobsConstants, Inv, NEW j \in Jobs
  PROVE  /\ Probe(j) \in REPLIES \ {"refused", "uncertain"} /\ Shown(j) \in REPLIES
         /\ j \in alive => Shown(j) \notin TERMINAL /\ Probe(j) \notin TERMINAL
<1>1. Probe(j) \in REPLIES \ {"refused", "uncertain"}
  BY DEF Probe, REPLIES, TERMINAL
<1>2. receipt[j].result \in TERMINAL \cup {None}
  BY DEF Inv, Types, Receipts
<1>3. ASSUME j \in alive
      PROVE  Shown(j) \notin TERMINAL /\ Probe(j) \notin TERMINAL
  <2>1. unit[j] = "active" /\ Fresh(j) /\ receipt[j].result = None
    BY <1>3 DEF Inv, JobInv, Running
  <2> QED BY <2>1 DEF Shown, Probe, TERMINAL
<1> QED BY <1>1, <1>2, <1>3 DEF Shown, REPLIES

(* A recorded receipt keeps all but its result. *)
LEMMA RecordedReceipt ==
  ASSUME NEW r \in Receipts, NEW s
  PROVE  /\ Recorded(r, s) \in Receipts /\ Recorded(r, s).dir = r.dir /\ Recorded(r, s).boot = r.boot
         /\ Recorded(r, s).result = IF s \in TERMINAL THEN s ELSE r.result
BY DEF Recorded, Receipts

(* A submission stages its directory, publishes it and starts the unit; a   *)
(* job that is not yet saved does not run.                                  *)
LEMMA HelperSubmitStep ==
  ASSUME JobsConstants, Inv, NEW n \in Nodes, helper_submit(n)
  PROVE  Inv'
<1>1. PICK h : helper[n] = h
  OBVIOUS
<1>2. h # None /\ h.pc \in {"stage", "publish", "start"} /\ UNCHANGED <<target, net, signal, alive, boot>>
  BY <1>1 DEF helper_submit
<1>3. h \in Helpers /\ h.job \in Jobs /\ NodeOf[h.job] = n /\ JobInv(h.job) /\ Helped(h.job) /\ HelperOf(h.job) = h
  BY <1>1, <1>2, Locked
<1>4. PICK j \in Jobs : j = h.job
  BY <1>3
<1>5. h.action = "submit" /\ Submitting(j) /\ Undecided(j)
  BY <1>2, <1>3, <1>4 DEF JobInv, Serving, Submitting
<1>6. /\ receipt \in [Jobs -> Receipts] /\ unit \in [Jobs -> {"none", "active", "exited", "stopped", "failed"}]
      /\ signal' \in [Jobs -> {"none", "term", "kill"}] /\ boot[n] \in Nat
  BY <1>2 DEF Inv, Types
<1>7. CASE h.pc = "stage"
  <2>1. /\ receipt' = [receipt EXCEPT ![j] = [NoReceipt EXCEPT !.dir = "staged", !.boot = boot[n]]]
        /\ Hold(n, h, "publish") /\ UNCHANGED <<unit, task>>
    BY <1>1, <1>4, <1>7 DEF helper_submit
  <2>2. receipt' \in [Jobs -> Receipts] /\ receipt'[j].dir = "staged" /\ \A k \in Jobs \ {j} : receipt'[k] = receipt[k]
    BY <1>6, <2>1 DEF NoReceipt, Receipts
  <2>3. ~Saved(j) /\ ~Saved(j)'
    BY <1>3, <1>4, <1>7, <2>2 DEF JobInv, Serving, Saved
  <2>4. Running(j)'
    BY <1>2, <1>3, <1>4, <2>3 DEF JobInv, Running
  <2> QED BY <1>1, <1>2, <1>4, <1>5, <1>6, <2>1, <2>2, <2>3, <2>4, HelperHolds
<1>8. CASE h.pc = "publish"
  <2>1. receipt' = [receipt EXCEPT ![j].dir = "saved"] /\ Hold(n, h, "start") /\ UNCHANGED <<unit, task>>
    BY <1>1, <1>4, <1>8 DEF helper_submit
  <2>2. receipt' \in [Jobs -> Receipts] /\ receipt'[j].dir = "saved" /\ \A k \in Jobs \ {j} : receipt'[k] = receipt[k]
    BY <1>6, <2>1 DEF Receipts
  <2>3. ~Saved(j) /\ Saved(j)'
    BY <1>3, <1>4, <1>8, <2>2 DEF JobInv, Serving, Saved
  <2>4. Running(j)'
    BY <1>2, <1>3, <1>4, <2>3 DEF JobInv, Running
  <2> QED BY <1>1, <1>2, <1>4, <1>5, <1>6, <2>1, <2>2, <2>3, <2>4, HelperHolds
<1>9. CASE h.pc = "start"
  <2>1. start(n, h) /\ receipt' = receipt
    BY <1>1, <1>9 DEF helper_submit
  <2>2. Saved(j) /\ (Saved(j)' <=> Saved(j))
    BY <1>3, <1>4, <1>9, <2>1 DEF JobInv, Serving, Saved
  <2>3. unit' \in {unit, [unit EXCEPT ![j] = "active"]}
    BY <1>4, <2>1 DEF start
  <2>4. /\ unit' \in [Jobs -> {"none", "active", "exited", "stopped", "failed"}]
        /\ unit'[j] \in {unit[j], "active"} /\ \A k \in Jobs \ {j} : unit'[k] = unit[k]
    BY <1>6, <2>3
  <2>5. Running(j)'
    BY <1>2, <1>3, <1>4, <2>1, <2>2, <2>4 DEF JobInv, Running, Fresh
  <2>6. CASE Hold(n, h, "read") /\ UNCHANGED task
    BY <1>1, <1>2, <1>4, <1>6, <2>1, <2>2, <2>4, <2>5, <2>6, HelperHolds
  <2>7. CASE Reply(h, "unknown") /\ Release(n)
    <3>1. "unknown" \in REPLIES /\ "unknown" \notin TERMINAL
      BY DEF REPLIES, TERMINAL
    <3> QED BY <1>1, <1>2, <1>4, <1>6, <2>1, <2>2, <2>4, <2>5, <2>7, <3>1, HelperAnswers
  <2> QED BY <2>1, <2>6, <2>7 DEF start
<1> QED BY <1>2, <1>7, <1>8, <1>9

(* A recorded result is the answer; without one, nobody knows an outcome. *)
LEMMA HelperReadStep ==
  ASSUME JobsConstants, Inv, NEW n \in Nodes, helper_read(n)
  PROVE  Inv'
<1>1. PICK h : helper[n] = h
  OBVIOUS
<1>2. h # None /\ h.pc \in {"read", "again"} /\ UNCHANGED <<target, net, receipt, signal, alive, boot>>
  BY <1>1 DEF helper_read
<1>3. h \in Helpers /\ h.job \in Jobs /\ NodeOf[h.job] = n /\ JobInv(h.job) /\ Helped(h.job) /\ HelperOf(h.job) = h
  BY <1>1, <1>2, Locked
<1>4. PICK j \in Jobs : j = h.job
  BY <1>3
<1>5. Saved(j) /\ (Saved(j)' <=> Saved(j))
  BY <1>2, <1>3, <1>4 DEF JobInv, Serving, Saved
<1>6. /\ receipt' \in [Jobs -> Receipts] /\ receipt[j].result \in TERMINAL \cup {None}
      /\ unit \in [Jobs -> {"none", "active", "exited", "stopped", "failed"}]
      /\ signal' \in [Jobs -> {"none", "term", "kill"}]
  BY <1>2 DEF Inv, Types, Receipts
<1>7. CASE receipt[j].result # None
  <2>1. /\ Reply(h, receipt[j].result) /\ Release(n)
        /\ unit' \in {unit, [unit EXCEPT ![j] = IF unit[j] = "active" THEN "active" ELSE "none"]}
    BY <1>1, <1>4, <1>7 DEF helper_read
  <2>2. /\ unit' \in [Jobs -> {"none", "active", "exited", "stopped", "failed"}]
        /\ \A k \in Jobs \ {j} : unit'[k] = unit[k]
    BY <1>6, <2>1
  <2>3. Running(j)'
    BY <1>2, <1>3, <1>4, <1>7 DEF JobInv, Running
  <2>4. PICK s \in REPLIES : s = receipt[j].result /\ s # "refused"
    BY <1>6, <1>7 DEF REPLIES, TERMINAL
  <2> QED BY <1>1, <1>2, <1>4, <1>5, <1>6, <2>1, <2>2, <2>3, <2>4, HelperAnswers
<1>8. CASE receipt[j].result = None
  <2>1. PICK pc \in {"first", "probe"} : Hold(n, h, pc)
    BY <1>1, <1>4, <1>8 DEF helper_read
  <2>2. UNCHANGED <<task, unit>>
    BY <1>1, <1>4, <1>8 DEF helper_read
  <2>3. Undecided(j)
    BY <1>3, <1>4, <1>5, <1>8, NotDecided
  <2>4. Running(j)'
    BY <1>2, <1>3, <1>4, <1>5, <2>2 DEF JobInv, Running, Fresh
  <2> QED BY <1>1, <1>2, <1>4, <1>5, <1>6, <2>1, <2>2, <2>3, <2>4, HelperHolds
<1> QED BY <1>7, <1>8

(* The unit's state is recorded as the outcome only while nobody knows one, *)
(* and never of a program that runs.                                        *)
LEMMA HelperProbeStep ==
  ASSUME JobsConstants, Inv, NEW n \in Nodes, helper_probe(n)
  PROVE  Inv'
<1>1. PICK h : helper[n] = h
  OBVIOUS
<1>2. h # None /\ h.pc \in {"probe", "first"} /\ UNCHANGED <<target, net, unit, signal, alive, boot>>
  BY <1>1 DEF helper_probe
<1>3. h \in Helpers /\ h.job \in Jobs /\ NodeOf[h.job] = n /\ JobInv(h.job) /\ Helped(h.job) /\ HelperOf(h.job) = h
  BY <1>1, <1>2, Locked
<1>4. PICK j \in Jobs : j = h.job
  BY <1>3
<1>5. Saved(j) /\ Undecided(j)
  BY <1>2, <1>3, <1>4 DEF JobInv, Serving
<1>6. /\ receipt \in [Jobs -> Receipts] /\ unit' \in [Jobs -> {"none", "active", "exited", "stopped", "failed"}]
      /\ signal' \in [Jobs -> {"none", "term", "kill"}]
  BY <1>2 DEF Inv, Types
<1>7. PICK s \in REPLIES : s = Probe(j) /\ s # "refused"
  BY ShownReplies
<1>8. CASE receipt' = [receipt EXCEPT ![j] = Recorded(@, s)]
  <2>1. /\ Recorded(receipt[j], s) \in Receipts /\ Recorded(receipt[j], s).dir = receipt[j].dir
        /\ Recorded(receipt[j], s).boot = receipt[j].boot
        /\ Recorded(receipt[j], s).result = IF s \in TERMINAL THEN s ELSE receipt[j].result
    BY <1>6, RecordedReceipt
  <2>2. receipt' \in [Jobs -> Receipts] /\ receipt'[j] = Recorded(receipt[j], s) /\ \A k \in Jobs \ {j} : receipt'[k] = receipt[k]
    BY <1>6, <1>8, <2>1
  <2>3. Saved(j)' <=> Saved(j)
    BY <2>1, <2>2 DEF Saved
  <2>4. j \in alive => s \notin TERMINAL
    BY <1>7, ShownReplies
  <2>5. Running(j)'
    BY <1>2, <1>3, <1>4, <2>1, <2>2, <2>3, <2>4 DEF JobInv, Running, Fresh
  <2>6. s \in TERMINAL => receipt'[j].result = s
    BY <2>1, <2>2
  <2>7. CASE Hold(n, h, "stop") /\ UNCHANGED task
    BY <1>1, <1>2, <1>4, <1>5, <1>6, <2>2, <2>3, <2>5, <2>7, HelperHolds
  <2>8. CASE Reply(h, s) /\ Release(n)
    BY <1>1, <1>2, <1>4, <1>5, <1>6, <1>7, <2>2, <2>3, <2>5, <2>6, <2>8, HelperAnswers
  <2>9. CASE Reply(h, Error(j)) /\ Release(n)
    <3>1. Reply(h, "uncertain") /\ "uncertain" \in REPLIES /\ "uncertain" \notin TERMINAL
      BY <1>5, <2>9 DEF Error, REPLIES, TERMINAL
    <3> QED BY <1>1, <1>2, <1>4, <1>5, <1>6, <2>2, <2>3, <2>5, <2>9, <3>1, HelperAnswers
  <2> QED BY <1>1, <1>4, <1>7, <2>7, <2>8, <2>9 DEF helper_probe
<1>9. CASE UNCHANGED receipt
  <2>1. (Saved(j)' <=> Saved(j)) /\ Running(j)' /\ receipt' \in [Jobs -> Receipts]
    BY <1>2, <1>3, <1>4, <1>6, <1>9 DEF Saved, JobInv, Running, Fresh
  <2>2. CASE Reply(h, Error(j)) /\ Release(n)
    <3>1. Reply(h, "uncertain") /\ "uncertain" \in REPLIES /\ "uncertain" \notin TERMINAL
      BY <1>5, <2>2 DEF Error, REPLIES, TERMINAL
    <3> QED BY <1>1, <1>2, <1>4, <1>6, <1>9, <2>1, <2>2, <3>1, HelperAnswers
  <2>3. CASE receipt' = [receipt EXCEPT ![j] = Recorded(@, s)]
    BY <1>8, <2>3
  <2> QED BY <1>1, <1>4, <1>7, <2>2, <2>3 DEF helper_probe
<1> QED BY <1>1, <1>4, <1>7, <1>8, <1>9 DEF helper_probe

(* A stop leaves the result as it is. *)
LEMMA HelperStopStep ==
  ASSUME JobsConstants, Inv, NEW n \in Nodes, helper_stop(n)
  PROVE  Inv'
<1>1. PICK h : helper[n] = h
  OBVIOUS
<1>2. h # None /\ h.pc = "stop" /\ UNCHANGED <<target, net, unit, alive, boot>>
  BY <1>1 DEF helper_stop
<1>3. h \in Helpers /\ h.job \in Jobs /\ NodeOf[h.job] = n /\ JobInv(h.job) /\ Helped(h.job) /\ HelperOf(h.job) = h
  BY <1>1, <1>2, Locked
<1>4. PICK j \in Jobs : j = h.job
  BY <1>3
<1>5. Saved(j) /\ receipt \in [Jobs -> Receipts] /\ signal \in [Jobs -> {"none", "term", "kill"}]
  BY <1>2, <1>3, <1>4 DEF JobInv, Serving, Inv, Types
<1>6. receipt' = [receipt EXCEPT ![j].cancel = TRUE]
  BY <1>1, <1>4 DEF helper_stop
<1>7. /\ receipt' \in [Jobs -> Receipts] /\ receipt'[j].result = receipt[j].result /\ receipt'[j].dir = receipt[j].dir
      /\ receipt'[j].boot = receipt[j].boot /\ \A k \in Jobs \ {j} : receipt'[k] = receipt[k]
  BY <1>5, <1>6 DEF Receipts
<1>8. (Saved(j)' <=> Saved(j)) /\ Running(j)'
  BY <1>2, <1>3, <1>4, <1>7 DEF Saved, JobInv, Running, Fresh
<1>9. signal' \in [Jobs -> {"none", "term", "kill"}] /\ unit' \in [Jobs -> {"none", "active", "exited", "stopped", "failed"}]
  BY <1>1, <1>2, <1>4, <1>5 DEF helper_stop, Inv, Types
<1>10. CASE Hold(n, h, "again") /\ UNCHANGED task
  BY <1>1, <1>2, <1>4, <1>5, <1>7, <1>8, <1>9, <1>10, HelperHolds
<1>11. CASE Reply(h, Error(j)) /\ Release(n)
  <2>1. Reply(h, "uncertain") /\ "uncertain" \in REPLIES /\ "uncertain" \notin TERMINAL
    BY <1>5, <1>11 DEF Error, REPLIES, TERMINAL
  <2> QED BY <1>1, <1>2, <1>4, <1>7, <1>8, <1>9, <1>11, <2>1, HelperAnswers
<1> QED BY <1>1, <1>4, <1>10, <1>11 DEF helper_stop

-----------------------------------------------------------------------------
(* A request reaches its node *)

(* A request takes the lock: a submission was the only one. *)
LEMMA Arrived ==
  ASSUME JobsConstants, NEW k \in Jobs, JobInv(k), NEW m \in net, m.job = k, net' = net \ {m},
         target'[k] = target[k], task'[k] = task[k], (Saved(k)' <=> Saved(k)),
         Saved(k) => receipt'[k].result = receipt[k].result,
         ~Helped(k), Helped(k)', HelperOf(k)'.late = m.late, HelperOf(k)'.action = m.action,
         \/ HelperOf(k)'.pc = "stage" /\ m.action = "submit" /\ ~Saved(k)
         \/ HelperOf(k)'.pc = "read" /\ Saved(k),
         Running(k)'
  PROVE  JobInv(k)'
<1>1. Closed(k)' = Closed(k) /\ Submits(k)' = Submits(k) \ {m} /\ ~Submitting(k)
  BY DEF Closed, Submits, Submitting
<1>2. target'[k] # None /\ target'[k].state # "queued"
  BY DEF JobInv, Untouched
<1>3. m.action = "submit" => m \in Submits(k) /\ Submits(k)' = {} /\ ~Saved(k) /\ ~Closed(k)
  BY <1>1 DEF JobInv, Single, Submits
<1>4. Submitting(k)' => m.action = "submit"
  BY DEF Submitting
<1>5. Waited(k)'
  BY DEF JobInv, Waited
<1>6. Unsubmitted(k) => Unsubmitted(k)'
  BY <1>1, <1>3, <1>4 DEF Unsubmitted
<1>7. Tasked(k)'
  BY <1>1, <1>6 DEF JobInv, Tasked
<1>8. Single(k)'
  BY <1>1, <1>3, <1>4 DEF JobInv, Single
<1>9. HelperOf(k)'.pc = "stage" => Undecided(k)'
  BY <1>1, <1>3 DEF JobInv, Tasked, Undecided
<1>10. Serving(k)'
  BY <1>9 DEF Serving
<1>11. Settled(k)'
  BY <1>1 DEF JobInv, Settled
<1> QED BY <1>2, <1>5, <1>7, <1>8, <1>10, <1>11 DEF JobInv

(* A submission settles the other jobs of its node and clears what earlier  *)
(* ones left behind.                                                        *)
LEMMA DispatchReceipts ==
  ASSUME JobsConstants, Inv, NEW n \in Nodes, NEW m \in net, dispatch(n, m), NEW k \in Jobs
  PROVE  /\ receipt'[k] \in Receipts
         /\ receipt'[k].dir = receipt[k].dir \/ (receipt[k].dir = "staged" /\ receipt'[k].dir = "none" /\ NodeOf[k] = n)
         /\ Saved(k) => receipt'[k].result = receipt[k].result \/ (receipt[k].result = None /\ k # m.job)
         /\ Running(k)'
<1>1. /\ receipt' = [i \in Jobs |->
           IF m.action = "submit" /\ ~Saved(m.job) /\ i \in On(n) \ {m.job} /\ Saved(i) THEN Recorded(receipt[i], Shown(i))
           ELSE IF m.action = "submit" /\ i \in On(n) THEN recover_prelaunch(i) ELSE receipt[i]]
      /\ UNCHANGED <<unit, alive, boot>>
  BY DEF dispatch
<1>2. receipt[k] \in Receipts /\ JobInv(k) /\ NoReceipt \in Receipts
  BY DEF Inv, Types, Receipts, NoReceipt
<1>3. CASE receipt'[k] = Recorded(receipt[k], Shown(k)) /\ k # m.job
  <2>1. /\ receipt'[k] \in Receipts /\ receipt'[k].dir = receipt[k].dir /\ receipt'[k].boot = receipt[k].boot
        /\ receipt'[k].result = IF Shown(k) \in TERMINAL THEN Shown(k) ELSE receipt[k].result
    BY <1>2, <1>3, RecordedReceipt
  <2>2. k \in alive => Shown(k) \notin TERMINAL
    BY ShownReplies
  <2>3. receipt'[k].result = receipt[k].result \/ receipt[k].result = None
    BY <2>1 DEF Shown
  <2>4. Running(k)'
    BY <1>1, <1>2, <2>1, <2>2 DEF JobInv, Running, Saved, Fresh
  <2> QED BY <1>3, <2>1, <2>3, <2>4
<1>4. CASE receipt'[k] = recover_prelaunch(k) /\ k \in On(n)
  <2>1. CASE receipt[k].dir = "staged"
    <3>1. receipt'[k] = NoReceipt /\ ~Saved(k) /\ NodeOf[k] = n
      BY <1>4, <2>1 DEF recover_prelaunch, Saved, On
    <3> QED BY <1>1, <1>2, <2>1, <3>1 DEF JobInv, Running, NoReceipt
  <2>2. CASE receipt[k].dir # "staged"
    <3>1. receipt'[k] = receipt[k]
      BY <1>4, <2>2 DEF recover_prelaunch
    <3> QED BY <1>1, <1>2, <3>1 DEF JobInv, Running, Saved, Fresh
  <2> QED BY <2>1, <2>2
<1>5. CASE receipt'[k] = receipt[k]
  BY <1>1, <1>2, <1>5 DEF JobInv, Running, Saved, Fresh
<1> QED BY <1>1, <1>3, <1>4, <1>5

(* A request is answered at once, or its helper holds the lock. *)
LEMMA DispatchStep ==
  ASSUME JobsConstants, Inv, NEW n \in Nodes, NEW m \in net, dispatch(n, m)
  PROVE  Inv'
<1> DEFINE h == [job |-> m.job, action |-> m.action, force |-> m.force, late |-> m.late, pc |-> "read"]
           fresh == m.action = "submit" /\ ~Saved(m.job)
<1>1. /\ NodeOf[m.job] = n /\ helper[n] = None /\ net' = net \ {m} /\ UNCHANGED <<target, unit, signal, alive, boot>>
      /\ receipt' = [k \in Jobs |-> receipt'[k]]
  BY DEF dispatch
<1>2. \/ m.action # "submit" /\ ~Saved(m.job) /\ Reply(h, "unknown") /\ Release(n)
      \/ fresh /\ Reply(h, "refused") /\ Release(n)
      \/ /\ ~(m.action # "submit" /\ ~Saved(m.job)) /\ Hold(n, h, IF fresh THEN "stage" ELSE "read") /\ UNCHANGED task
  BY DEF dispatch
<1>3. /\ m \in Requests /\ m.job \in Jobs /\ m.action \in Kinds /\ m.late \in BOOLEAN /\ m.force \in BOOLEAN
  BY DEF Inv, Types, Requests
<1>4. PICK j \in Jobs : j = m.job
  BY <1>3
<1>5. JobInv(j) /\ ~Helped(j) /\ target[j] # None /\ target[j].state # "queued" /\ task[j] \in Tasks \cup {None}
  BY <1>1, <1>4 DEF Inv, JobInv, Helped, HelperOf, Untouched, Types
<1>6. \A k \in Jobs : /\ receipt'[k] \in Receipts /\ Running(k)'
                      /\ receipt'[k].dir = receipt[k].dir
                           \/ (receipt[k].dir = "staged" /\ receipt'[k].dir = "none" /\ NodeOf[k] = n)
                      /\ Saved(k) => receipt'[k].result = receipt[k].result \/ (receipt[k].result = None /\ k # j)
  BY <1>4, DispatchReceipts
<1>7. receipt' \in [Jobs -> Receipts]
  BY <1>1, <1>6
<1>8. (Saved(j)' <=> Saved(j)) /\ (Saved(j) => receipt'[j].result = receipt[j].result) /\ Running(j)'
  BY <1>6 DEF Saved
<1>9. ASSUME NEW x \in Helpers \cup {None}, x # None => x.job = j, helper' = [helper EXCEPT ![n] = x],
             task' \in [Jobs -> Tasks \cup {None}], \A k \in Jobs \ {j} : task'[k] = task[k], JobInv(j)'
      PROVE  Inv'
  <2>1. /\ helper' \in [Nodes -> Helpers \cup {None}] /\ \A i \in Nodes : helper'[i] # None => NodeOf[helper'[i].job] = i
        /\ \A k \in Jobs \ {j} : helper'[NodeOf[k]] = helper[NodeOf[k]] \/ (~Helped(k) /\ ~Helped(k)')
    BY <1>1, <1>4, <1>9, HelperMoves
  <2>2. ASSUME NEW k \in Jobs, k # j
        PROVE  JobInv(k)'
    <3>1. NodeOf[k] = n => ~Helped(k)
      BY <1>1 DEF Helped, HelperOf
    <3>2. \A o : o.job = k => (o \in net' <=> o \in net)
      BY <1>1, <1>4, <2>2
    <3>3. /\ Running(k)'
          /\ \/ receipt'[k].dir = receipt[k].dir
             \/ receipt[k].dir = "staged" /\ receipt'[k].dir = "none" /\ ~Helped(k)
          /\ Saved(k) => receipt'[k].result = receipt[k].result \/ receipt[k].result = None
      BY <1>6, <3>1
    <3>4. JobInv(k) /\ target'[k] = target[k] /\ task'[k] = task[k]
      BY <1>1, <1>9, <2>2 DEF Inv
    <3>5. helper'[NodeOf[k]] = helper[NodeOf[k]] \/ (~Helped(k) /\ ~Helped(k)')
      BY <2>1, <2>2
    <3> QED BY <3>2, <3>3, <3>4, <3>5, Noted
  <2>3. net' \in SUBSET Requests
    BY <1>1 DEF Inv, Types
  <2>4. Types'
    BY <1>1, <1>7, <1>9, <2>1, <2>3 DEF Inv, Types
  <2> QED BY <1>9, <2>1, <2>2, <2>4 DEF Inv
<1>10. ASSUME NEW s \in {"unknown", "refused"}, Reply(h, s), Release(n), s = "refused" => fresh
       PROVE  Inv'
  <2>1. helper' = [helper EXCEPT ![n] = None]
    BY <1>10 DEF Release
  <2>2. helper'[n] = None
    BY <2>1 DEF Inv, Types
  <2>3. ~Helped(j)'
    BY <1>1, <1>4, <2>2 DEF Helped, HelperOf
  <2>4. h.late = m.late /\ h.job = j
    BY <1>4
  <2> HIDE DEF h
  <2>5. /\ m.late => task'[j] = task[j]
        /\ ~m.late => task'[j] = [task[j] EXCEPT !.pc = "answered", !.reply = s]
        /\ \A k \in Jobs \ {j} : task'[k] = task[k]
        /\ task' = [k \in Jobs |-> task'[k]] /\ task \in [Jobs -> Tasks \cup {None}]
    BY <1>10, <2>4 DEF Reply, Inv, Types
  <2>6. /\ ~m.late => task[j] # None /\ task[j].pc = "wait" /\ task[j].action = m.action
        /\ \A o \in net' : o.job = j => o \in net /\ (~m.late => o.late)
    BY <1>1, <1>4, <1>5 DEF JobInv, Waited
  <2>7. s = "refused" => Unsubmitted(j)'
    <3>1. fresh => Submits(j)' = {}
      BY <1>1, <1>4, <1>5 DEF JobInv, Single, Submits
    <3> QED BY <1>4, <1>8, <1>10, <2>3, <3>1 DEF Unsubmitted, Submitting
  <2>8. s \in REPLIES /\ s \notin TERMINAL
    BY DEF REPLIES, TERMINAL
  <2>9. target'[j] = target[j]
    BY <1>1
  <2>10. JobInv(j)' /\ task'[j] \in Tasks \cup {None}
    BY <1>3, <1>5, <1>8, <2>3, <2>5, <2>6, <2>7, <2>8, <2>9, Replied
  <2>11. task' \in [Jobs -> Tasks \cup {None}]
    BY <2>5, <2>10
  <2> QED BY <1>9, <2>1, <2>5, <2>10, <2>11
<1>11. CASE ~(m.action # "submit" /\ ~Saved(m.job)) /\ Hold(n, h, IF fresh THEN "stage" ELSE "read") /\ UNCHANGED task
  <2>1. PICK pc \in {"stage", "read"} : pc = IF fresh THEN "stage" ELSE "read"
    OBVIOUS
  <2> DEFINE x == [h EXCEPT !.pc = pc]
  <2>2. helper' = [helper EXCEPT ![n] = x]
    BY <1>11, <2>1 DEF Hold
  <2>3. /\ x \in Helpers /\ x # None /\ x.job = j /\ x.late = m.late /\ x.action = m.action /\ x.pc = pc
    BY <1>3, <1>4 DEF Helpers, JobsConstants
  <2> HIDE DEF x, h
  <2>4. helper'[n] = x
    BY <2>2 DEF Inv, Types
  <2>5. Helped(j)' /\ HelperOf(j)' = x
    BY <1>1, <1>4, <2>3, <2>4 DEF Helped, HelperOf
  <2>6. \/ pc = "stage" /\ m.action = "submit" /\ ~Saved(j)
        \/ pc = "read" /\ Saved(j)
    BY <1>4, <1>11, <2>1
  <2>7. JobInv(j)'
    BY <1>1, <1>4, <1>5, <1>8, <1>11, <2>3, <2>5, <2>6, Arrived
  <2>8. task' \in [Jobs -> Tasks \cup {None}] /\ \A k \in Jobs \ {j} : task'[k] = task[k]
    BY <1>11 DEF Inv, Types
  <2> QED BY <1>9, <2>2, <2>3, <2>7, <2>8
<1> QED BY <1>2, <1>10, <1>11

-----------------------------------------------------------------------------
(* Units, programs and boots *)

(* A step of one job's unit. *)
LEMMA UnitStep ==
  ASSUME JobsConstants, Inv, NEW j \in Jobs, UNCHANGED <<target, task, net, signal, helper, boot>>,
         receipt' \in [Jobs -> Receipts], unit' \in [Jobs -> {"none", "active", "exited", "stopped", "failed"}],
         alive' \in SUBSET Jobs,
         \A k \in Jobs \ {j} : receipt'[k] = receipt[k] /\ unit'[k] = unit[k] /\ (k \in alive' => k \in alive),
         receipt'[j].dir = receipt[j].dir,
         receipt'[j].result = receipt[j].result \/ receipt[j].result = None,
         Running(j)'
  PROVE  Inv'
<1>1. JobInv(j)'
  BY Noted DEF Inv
<1>2. ASSUME NEW k \in Jobs, k # j
      PROVE  JobInv(k)'
  BY <1>2, Elsewhere DEF Inv
<1> QED BY <1>1, <1>2 DEF Inv, Types

(* The runner and systemd: a program runs in an active unit of this boot,   *)
(* and the first result is the only one.                                    *)
LEMMA UnitSteps ==
  ASSUME JobsConstants, Inv, NEW j \in Jobs, Unit(j)
  PROVE  Inv'
<1>1. /\ receipt \in [Jobs -> Receipts] /\ unit \in [Jobs -> {"none", "active", "exited", "stopped", "failed"}]
      /\ alive \in SUBSET Jobs /\ Running(j)
  BY DEF Inv, Types, JobInv
<1>2. CASE RunnerStarts(j)
  <2>1. /\ alive' = alive \cup {j} /\ Ready(j) /\ receipt[j].result = None
        /\ UNCHANGED <<target, task, net, receipt, unit, signal, helper, boot>>
    BY <1>2 DEF RunnerStarts, controller
  <2>2. Running(j)'
    BY <2>1 DEF Running, Ready, Saved, Fresh
  <2> QED BY <1>1, <2>1, <2>2, UnitStep
<1>3. CASE RunnerEnds(j)
  <2>1. PICK s \in Outcomes(j) : receipt' = [receipt EXCEPT ![j].result = s]
    BY <1>3 DEF RunnerEnds
  <2>2. s \in TERMINAL
    BY DEF Outcomes, TERMINAL
  <2>3. /\ alive' = alive \ {j} /\ receipt[j].result = None /\ UNCHANGED <<target, task, net, signal, helper, boot>>
        /\ unit' = [unit EXCEPT ![j] = IF signal[j] = "term" THEN "stopped" ELSE "exited"]
    BY <1>3 DEF RunnerEnds, controller
  <2>4. receipt' \in [Jobs -> Receipts] /\ receipt'[j].dir = receipt[j].dir /\ \A k \in Jobs \ {j} : receipt'[k] = receipt[k]
    BY <1>1, <2>1, <2>2 DEF Receipts
  <2>5. Running(j)'
    BY <2>3 DEF Running
  <2> QED BY <1>1, <2>3, <2>4, <2>5, UnitStep
<1>4. CASE UnitFails(j)
  <2>1. /\ alive' = alive \ {j} /\ unit' = [unit EXCEPT ![j] = "failed"]
        /\ UNCHANGED <<target, task, net, receipt, signal, helper, boot>>
    BY <1>4 DEF UnitFails, controller
  <2>2. Running(j)'
    BY <2>1 DEF Running
  <2> QED BY <1>1, <2>1, <2>2, UnitStep
<1>5. CASE UnitCollected(j)
  <2>1. /\ unit[j] = "stopped" /\ unit' = [unit EXCEPT ![j] = "none"]
        /\ UNCHANGED <<target, task, net, receipt, signal, alive, helper, boot>>
    BY <1>5 DEF UnitCollected, controller
  <2>2. Running(j)'
    BY <1>1, <2>1 DEF Running
  <2> QED BY <1>1, <2>1, <2>2, UnitStep
<1> QED BY <1>2, <1>3, <1>4, <1>5 DEF Unit

(* A boot ends what ran on the node and every request to it; a task that    *)
(* waited for one fails.                                                    *)
LEMMA RebootStep ==
  ASSUME JobsConstants, Inv, NEW n \in Nodes, Reboot(n)
  PROVE  Inv'
<1> DEFINE Cut(k) == k \in On(n) /\ task[k] # None /\ task[k].pc = "wait"
<1>1. /\ boot' = [boot EXCEPT ![n] = @ + 1] /\ unit' = [j \in Jobs |-> IF j \in On(n) THEN "none" ELSE unit[j]]
      /\ alive' = alive \ On(n) /\ helper' = [helper EXCEPT ![n] = None]
      /\ target' = [j \in Jobs |-> IF Cut(j) THEN Failed(j, task[j], "other") ELSE target[j]]
      /\ task' = [j \in Jobs |-> IF Cut(j) THEN None ELSE task[j]]
      /\ net' = {m \in net : m.job \notin On(n)} /\ UNCHANGED <<receipt, signal>>
  BY DEF Reboot, Release
<1>2. /\ helper' \in [Nodes -> Helpers \cup {None}] /\ helper'[n] = None
      /\ \A i \in Nodes \ {n} : helper'[i] = helper[i] /\ boot'[i] = boot[i]
      /\ \A i \in Nodes : helper'[i] # None => NodeOf[helper'[i].job] = i
  BY <1>1 DEF Inv, Types
<1>3. ASSUME NEW k \in Jobs, Cut(k)
      PROVE  LET row == Failed(k, task[k], "other") IN
             /\ row \in Target /\ row # None
             /\ \/ row = target[k]
                \/ /\ target[k] # None /\ ~Closed(k) /\ target[k].state # "queued"
                   /\ row.state \notin TERMINAL \cup {"queued"}
  <2>1. target[k] # None /\ task[k] # None
    BY <1>3 DEF Inv, JobInv, Tasked
  <2> QED BY <2>1, OtherRow
<1>4. ASSUME NEW k \in Jobs
      PROVE  target'[k] \in Target \cup {None} /\ task'[k] \in Tasks \cup {None}
  <2>1. CASE Cut(k)
    BY <1>1, <1>3, <2>1
  <2>2. CASE ~Cut(k)
    BY <1>1, <2>2 DEF Inv, Types
  <2> QED BY <2>1, <2>2
<1>5. Types'
  <2>1. target' \in [Jobs -> Target \cup {None}] /\ task' \in [Jobs -> Tasks \cup {None}]
    BY <1>1, <1>4
  <2>2. unit' \in [Jobs -> {"none", "active", "exited", "stopped", "failed"}] /\ alive' \in SUBSET Jobs
    BY <1>1 DEF Inv, Types
  <2>3. net' \in SUBSET Requests /\ boot' \in [Nodes -> Nat]
    BY <1>1 DEF Inv, Types
  <2> QED BY <1>1, <1>2, <2>1, <2>2, <2>3 DEF Inv, Types
<1>6. ASSUME NEW k \in Jobs
      PROVE  JobInv(k)'
  <2>1. JobInv(k) /\ task[k] \in Tasks \cup {None} /\ NodeOf[k] \in Nodes
    BY DEF Inv, Types, JobsConstants, JobsAssumption
  <2>2. CASE k \notin On(n)
    <3>1. NodeOf[k] \in Nodes \ {n}
      BY <2>1, <2>2 DEF On
    <3>2. /\ target'[k] = target[k] /\ task'[k] = task[k] /\ receipt'[k] = receipt[k] /\ unit'[k] = unit[k]
          /\ k \in alive' => k \in alive
      BY <1>1, <2>2
    <3>3. \A m : m.job = k => (m \in net' <=> m \in net)
      BY <1>1, <2>2
    <3>4. helper'[NodeOf[k]] = helper[NodeOf[k]] /\ boot'[NodeOf[k]] = boot[NodeOf[k]]
      BY <1>2, <3>1
    <3> QED BY <2>1, <3>2, <3>3, <3>4, Elsewhere
  <2>3. CASE k \in On(n)
    <3>1. /\ k \notin alive' /\ receipt'[k] = receipt[k] /\ \A m \in net' : m.job # k
      BY <1>1, <2>3
    <3>2. ~Helped(k)' /\ Submits(k)' = {}
      BY <1>2, <2>3, <3>1 DEF Helped, HelperOf, On, Submits
    <3>3. (Saved(k)' <=> Saved(k)) /\ Running(k)'
      BY <3>1 DEF Saved, Running
    <3>4. CASE Cut(k)
      <4>1. target'[k] = Failed(k, task[k], "other") /\ task'[k] = None
        BY <1>1, <3>4
      <4> QED BY <1>3, <2>1, <3>1, <3>2, <3>4, <4>1, Dropped
    <3>5. CASE ~Cut(k)
      <4>1. target'[k] = target[k] /\ task'[k] = task[k]
        BY <1>1, <3>5
      <4>2. CASE target[k] = None \/ target[k].state = "queued"
        <5>1. Untouched(k)
          BY <2>1, <4>2 DEF JobInv
        <5>2. ~Helped(k) /\ \A m : m.job = k => (m \in net' <=> m \in net)
          BY <3>1, <5>1 DEF Untouched
        <5> QED BY <2>1, <3>1, <3>2, <3>3, <4>1, <5>2, Noted
      <4>3. CASE target[k] # None /\ target[k].state # "queued"
        <5>1. "unknown" \in REPLIES /\ "unknown" \notin TERMINAL
          BY DEF REPLIES, TERMINAL
        <5>2. TRUE \in BOOLEAN /\ \A m \in net' : m.job = k => m \in net /\ (~TRUE => m.late)
          BY <3>1
        <5> QED BY <2>1, <3>1, <3>2, <3>3, <4>1, <4>3, <5>1, <5>2, Replied
      <4> QED BY <4>2, <4>3
    <3> QED BY <3>4, <3>5
  <2> QED BY <2>2, <2>3
<1> QED BY <1>2, <1>5, <1>6 DEF Inv

-----------------------------------------------------------------------------
(* The theorems *)

(* Nothing is submitted at the start. *)
LEMMA InitInv ==
  ASSUME JobsConstants, Init
  PROVE  Inv
<1>1. Types
  <2>1. NoReceipt \in Receipts
    BY DEF NoReceipt, Receipts
  <2> QED BY <2>1 DEF Init, Types
<1>2. \A n \in Nodes : helper[n] = None
  BY DEF Init
<1>3. ASSUME NEW j \in Jobs
      PROVE  JobInv(j)
  <2>1. ~Helped(j) /\ ~Submitting(j)
    BY <1>2 DEF Helped, HelperOf, Submitting, JobsConstants, JobsAssumption
  <2>2. task[j] = None /\ target[j] = None /\ net = {} /\ alive = {} /\ receipt[j].dir = "none"
    BY DEF Init, NoReceipt
  <2> QED BY <2>1, <2>2 DEF JobInv, Untouched, Waited, Tasked, Single, Submits, Serving, Running, Settled, Closed
<1> QED BY <1>1, <1>2, <1>3 DEF Inv

(* Every step keeps the invariant. *)
LEMMA NextInv ==
  ASSUME JobsConstants, Inv, [Next]_vars
  PROVE  Inv'
<1>1. ASSUME NEW j \in Jobs, preview(j) \/ submit(j) \/ cancel(j) \/ reconcile(j) \/ send(j) \/ give_up(j)
                             \/ receive(j) \/ validate(j) \/ Unit(j)
      PROVE  Inv'
  BY <1>1, PreviewStep, SubmitStep, CancelStep, ReconcileStep, SendStep, GiveUpStep, ReceiveStep, ValidateStep, UnitSteps
<1>2. ASSUME NEW n \in Nodes, Deliver(n) \/ Helper(n) \/ HelperDies(n) \/ Reboot(n)
      PROVE  Inv'
  BY <1>2, DispatchStep, HelperSubmitStep, HelperReadStep, HelperProbeStep, HelperStopStep, HelperDiesStep, RebootStep
     DEF Deliver, Helper
<1>3. CASE UNCHANGED vars
  <2>1. UNCHANGED <<target, task, net, receipt, unit, signal, alive, helper, boot>>
    BY <1>3 DEF vars, controller, node
  <2>2. ASSUME NEW k \in Jobs
        PROVE  JobInv(k)'
    BY <2>1, Elsewhere DEF Inv
  <2> QED BY <2>1, <2>2 DEF Inv, Types
<1> QED BY <1>1, <1>2, <1>3, RestartStep DEF Next

(* A job shown as closed does not run, will not be launched by anything     *)
(* still on its way, and shows the outcome its node keeps: for any jobs,    *)
(* nodes, late requests, reboots and lost answers (Jobs.reconcile against   *)
(* the helper's receipts).                                                  *)
THEOREM JobsConcluded == JobsConstants /\ Spec => [](ClosedStopped /\ ReceiptAgrees)
<1> SUFFICES ASSUME JobsConstants
             PROVE  Spec => [](ClosedStopped /\ ReceiptAgrees)
  OBVIOUS
<1>1. Init => Inv
  BY InitInv
<1>2. Inv /\ [Next]_vars => Inv'
  BY NextInv
<1>3. Inv => ClosedStopped /\ ReceiptAgrees
  <2> SUFFICES ASSUME Inv, NEW j \in Jobs, Closed(j)
               PROVE  /\ j \notin alive /\ \A m \in net : m.job = j => m.action # "submit"
                      /\ Saved(j) => receipt[j].result # None /\ target[j].state = receipt[j].result
    BY DEF ClosedStopped, ReceiptAgrees
  <2>1. JobInv(j)
    BY DEF Inv
  <2> QED BY <2>1 DEF JobInv, Running, Single, Settled, Submits
<1> QED BY <1>1, <1>2, <1>3, PTL DEF Spec
=============================================================================
