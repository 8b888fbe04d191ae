------------------------------- MODULE Adapters -------------------------------
(***************************************************************************)
(* Provider adapters: power operations on machines of a provider that an   *)
(* installed adapter package reaches from an enrolled node.                *)
(*                                                                         *)
(* The controller confirms a preview, stores the operation and dispatches  *)
(* it once over SSH; whatever it cannot establish is unknown until it is   *)
(* observed or the owner resolves it.  The node's helper writes a receipt  *)
(* before it executes and answers a repeated identity from the receipt.    *)
(* Each profile stands for one provider account with one machine.          *)
(***************************************************************************)
EXTENDS Naturals, FiniteSets

CONSTANTS
    Op,       \* operations
    Profile,  \* provider profiles
    MaxRev,   \* bound: revisions of a profile
    MaxFault, \* bound: controller restarts, helper deaths and replaced sockets
    None

VARIABLES
    prof,    \* Profile -> [made, on, grant, rev]
    granting,\* profiles whose grant is being probed
    pre,     \* Op -> the confirmed-to-be preview [f, rev], or None
    rec,     \* Op -> the stored operation [f, rev, t, token], or None
    task,    \* Op -> its dispatch: none, queued, sent
    adm,     \* the operation that holds admission, and for what
    cleanup, \* operations whose receipt removal has begun / is acknowledged
    net,     \* requests under way: <<kind, op>>
    jr,      \* Op -> the node's receipt [t, token, going], or None
    busy,    \* Profile -> the operation whose action its helper executes
    prov,    \* Op -> the provider's task: none, running, ok, bad
    eff,     \* Op -> how often the provider was asked to act
    swapped, \* profiles whose registered socket was replaced
    faults

ctl == <<prof, granting, pre, rec, task, adm, cleanup>>
node == <<jr, busy>>
vars == <<ctl, net, node, prov, eff, swapped, faults>>

TERMINAL == {"observed", "refused", "resolved", "failed"}
Held == {o \in Op : rec[o] # None}
Quiet == adm = None
Selected(f) == f \notin swapped       \* adapter_binding.selected: still the registered socket
Allow(f) == prof[f].made /\ prof[f].on /\ prof[f].grant

Init ==
    /\ prof = [f \in Profile |-> [made |-> FALSE, on |-> FALSE, grant |-> FALSE, rev |-> 0]]
    /\ granting = {} /\ pre = [o \in Op |-> None] /\ rec = [o \in Op |-> None]
    /\ task = [o \in Op |-> "none"] /\ adm = None /\ cleanup = [begun |-> {}, done |-> {}]
    /\ net = {} /\ jr = [o \in Op |-> None] /\ busy = [f \in Profile |-> None]
    /\ prov = [o \in Op |-> "none"] /\ eff = [o \in Op |-> 0] /\ swapped = {} /\ faults = 0

Fault == faults < MaxFault /\ faults' = faults + 1

-----------------------------------------------------------------------------
(* Profiles.                                                                *)

(* A profile is bound to one available socket of its endpoint, disabled. *)
Create(f) ==
    /\ ~prof[f].made /\ Selected(f) /\ prof[f].rev < MaxRev
    /\ prof' = [prof EXCEPT ![f] = [made |-> TRUE, on |-> FALSE, grant |-> FALSE, rev |-> @.rev + 1]]
    /\ UNCHANGED <<granting, pre, rec, task, adm, cleanup, net, node, prov, eff, swapped, faults>>

(* qualify: an available binding, the package installed, the sandbox tried. *)
Qualified(f) == prof[f].made /\ Selected(f)

(* The qualified package is granted; then it is probed. *)
GrantBegin(f) ==
    /\ Qualified(f) /\ granting = {} /\ prof[f].rev < MaxRev
    /\ prof' = [prof EXCEPT ![f].grant = TRUE] /\ granting' = {f}
    /\ UNCHANGED <<pre, rec, task, adm, cleanup, net, node, prov, eff, swapped, faults>>

(* A failed probe takes the grant back. *)
GrantEnd(f) ==
    /\ f \in granting /\ granting' = {}
    /\ \E ok \in BOOLEAN :
          /\ ok => Selected(f)
          /\ prof' = [prof EXCEPT ![f] = [@ EXCEPT !.on = ok, !.grant = ok, !.rev = @ + 1]]
    /\ UNCHANGED <<pre, rec, task, adm, cleanup, net, node, prov, eff, swapped, faults>>

(* What a cancelled or failed dispatch leaves: nothing sent, or unknown. *)
Failed(t) == IF t = "queued" THEN "refused" ELSE "unknown"
Cancelled(S) == [o \in Op |-> IF o \in S THEN [rec[o] EXCEPT !.t = Failed(@)] ELSE rec[o]]
Tasks(f) == {o \in Held : rec[o].f = f /\ task[o] # "none"}

(* Adapters.revoke: the grant goes first, then running requests are stopped. *)
Revoke(f) ==
    /\ prof[f].made /\ granting = {} /\ prof[f].rev < MaxRev
    /\ prof' = [prof EXCEPT ![f] = [@ EXCEPT !.on = FALSE, !.grant = FALSE, !.rev = @ + 1]]
    /\ rec' = Cancelled(Tasks(f)) /\ task' = [o \in Op |-> IF o \in Tasks(f) THEN "none" ELSE task[o]]
    /\ UNCHANGED <<granting, pre, adm, cleanup, net, node, prov, eff, swapped, faults>>

(* Adapters.remove: a profile with receipts stays. *)
Remove(f) ==
    /\ prof[f].made /\ ~prof[f].on /\ granting = {} /\ \A o \in Held : rec[o].f # f
    /\ prof' = [prof EXCEPT ![f] = [@ EXCEPT !.made = FALSE, !.grant = FALSE]]
    /\ UNCHANGED <<granting, pre, rec, task, adm, cleanup, net, node, prov, eff, swapped, faults>>

-----------------------------------------------------------------------------
(* Confirmation and dispatch.                                               *)

Preview(o, f) ==
    /\ pre[o] = None /\ rec[o] = None /\ eff[o] = 0 /\ jr[o] = None /\ \A m \in net : m[2] # o
    /\ Allow(f)
    /\ pre' = [pre EXCEPT ![o] = [f |-> f, rev |-> prof[f].rev]]
    /\ UNCHANGED <<prof, granting, rec, task, adm, cleanup, net, node, prov, eff, swapped, faults>>

(* commit: one unfinished operation per machine; the intent is stored before *)
(* its dispatch is scheduled.                                                *)
Commit(o) ==
    /\ Quiet /\ pre[o] # None
    /\ \A p \in Held : rec[p].f = pre[o].f => rec[p].t \in TERMINAL
    /\ rec' = [rec EXCEPT ![o] = [f |-> pre[o].f, rev |-> pre[o].rev, t |-> "queued", token |-> "none"]]
    /\ pre' = [pre EXCEPT ![o] = None] /\ task' = [task EXCEPT ![o] = "queued"]
    /\ UNCHANGED <<prof, granting, adm, cleanup, net, node, prov, eff, swapped, faults>>

Current(o) == Allow(rec[o].f) /\ prof[rec[o].f].rev = rec[o].rev

(* The guard holds, the dispatch is stored, the request leaves. *)
Dispatch(o) ==
    /\ task[o] = "queued" /\ Current(o)
    /\ rec' = [rec EXCEPT ![o].t = "dispatching"]
    /\ task' = [task EXCEPT ![o] = "sent"] /\ net' = net \cup {<<"apply", o>>}
    /\ UNCHANGED <<prof, granting, pre, adm, cleanup, node, prov, eff, swapped, faults>>

(* The guard refuses, the transport fails or the reply does not come: the    *)
(* request may still be under way.                                           *)
DispatchFails(o) ==
    /\ task[o] # "none" /\ (task[o] = "queued" => ~Current(o))
    /\ rec' = Cancelled({o}) /\ task' = [task EXCEPT ![o] = "none"]
    /\ UNCHANGED <<prof, granting, pre, adm, cleanup, net, node, prov, eff, swapped, faults>>

-----------------------------------------------------------------------------
(* The node's helper: one request at a time, or it answers that it is busy.  *)

Idle(f) == busy[f] = None
Of(o) == IF rec[o] # None THEN rec[o].f ELSE IF jr[o] # None THEN jr[o].f ELSE None

(* adapter_journal.prepare: a new receipt says unknown; a known operation is *)
(* not executed again.                                                       *)
Apply(o, f) ==
    /\ <<"apply", o>> \in net /\ Idle(f) /\ Of(o) \in {f, None}
    /\ net' = net \ {<<"apply", o>>}
    /\ IF jr[o] = None
       THEN /\ jr' = [jr EXCEPT ![o] = [f |-> f, t |-> "unknown", token |-> "none"]]
            /\ busy' = [busy EXCEPT ![f] = o]
       ELSE UNCHANGED node
    /\ UNCHANGED <<ctl, prov, eff, swapped, faults>>

(* The selected socket must still be the registered one; then the provider   *)
(* is asked.                                                                 *)
Execute(f) ==
    LET o == busy[f]
    IN /\ o # None /\ prov[o] = "none" /\ Selected(f)
       /\ prov' = [prov EXCEPT ![o] = "running"] /\ eff' = [eff EXCEPT ![o] = @ + 1]
       /\ UNCHANGED <<ctl, net, node, swapped, faults>>

(* The receipt a provider gives of a task it was asked for. *)
Proof(o) == [t |-> CASE prov[o] = "running" -> "accepted" [] prov[o] = "ok" -> "observed" [] OTHER -> "failed",
             token |-> IF prov[o] = "running" THEN "pending" ELSE "complete"]

(* accept: the receipt replaces the state. *)
Accepted(o, proof) == [rec EXCEPT ![o].t = proof.t, ![o].token = proof.token]

CompleteWith(f, token) ==
    LET o == busy[f]
    IN /\ o # None /\ prov[o] # "none"
       /\ jr' = [jr EXCEPT ![o] = [f |-> f, t |-> Proof(o).t, token |-> token]]
       /\ busy' = [busy EXCEPT ![f] = None]
       /\ \/ task[o] = "sent" /\ rec' = Accepted(o, Proof(o)) /\ task' = [task EXCEPT ![o] = "none"]
          \/ UNCHANGED <<rec, task>>
       /\ UNCHANGED <<prof, granting, pre, adm, cleanup, net, prov, eff, swapped, faults>>

(* The result is stored on the node and answered. *)
Complete(f) == busy[f] # None /\ CompleteWith(f, Proof(busy[f]).token)

(* The provider refuses before it acts, or the adapter fails. *)
Abandon(f) ==
    /\ busy[f] # None /\ prov[busy[f]] = "none"
    /\ busy' = [busy EXCEPT ![f] = None]
    /\ UNCHANGED <<ctl, net, jr, prov, eff, swapped, faults>>

(* The helper dies while it executes. *)
HelperDies(f) ==
    /\ busy[f] # None /\ Fault /\ busy' = [busy EXCEPT ![f] = None]
    /\ UNCHANGED <<ctl, net, jr, prov, eff, swapped>>

ProviderEnds(o) ==
    /\ prov[o] = "running"
    /\ \E r \in {"ok", "bad"} : prov' = [prov EXCEPT ![o] = r]
    /\ UNCHANGED <<ctl, net, node, eff, swapped, faults>>

(* The provider restarts behind its socket. *)
Swap(f) ==
    /\ f \notin swapped /\ Fault /\ swapped' = swapped \cup {f}
    /\ UNCHANGED <<ctl, net, node, prov, eff>>

-----------------------------------------------------------------------------
(* Observation, resolution and removal, one at a time.                      *)

ObserveBegin(o) ==
    /\ Quiet /\ o \in Held /\ task[o] = "none" /\ o \notin cleanup.begun
    /\ rec[o].t \notin TERMINAL /\ Allow(rec[o].f)
    /\ adm' = <<"observe", o>> /\ net' = net \cup {<<"observe", o>>}
    /\ UNCHANGED <<prof, granting, pre, rec, task, cleanup, node, prov, eff, swapped, faults>>

Blank(o) == IF jr[o] = None THEN TRUE ELSE jr[o].token = "none"
Unsettled(r) == IF r.t \in {"queued", "dispatching"} THEN [r EXCEPT !.t = "unknown"] ELSE r

\* Mutant: an observation without a receipt executes the action.
ObserveActing(o) ==
    /\ adm = <<"observe", o>> /\ <<"observe", o>> \in net /\ Idle(rec[o].f) /\ Selected(rec[o].f)
    /\ net' = net \ {<<"observe", o>>} /\ adm' = None
    /\ IF Blank(o)
       THEN /\ prov' = [prov EXCEPT ![o] = "running"] /\ eff' = [eff EXCEPT ![o] = @ + 1]
            /\ jr' = [jr EXCEPT ![o] = [f |-> rec[o].f, t |-> "accepted", token |-> "pending"]]
            /\ rec' = Accepted(o, [t |-> "accepted", token |-> "pending"])
       ELSE /\ jr' = [jr EXCEPT ![o] = [f |-> @.f, t |-> Proof(o).t, token |-> Proof(o).token]]
            /\ rec' = Accepted(o, Proof(o)) /\ UNCHANGED <<prov, eff>>
    /\ UNCHANGED <<prof, granting, pre, task, cleanup, busy, swapped, faults>>

(* The node asks the provider about the task of its receipt. *)
Observe(o) ==
    /\ adm = <<"observe", o>> /\ <<"observe", o>> \in net /\ Idle(rec[o].f) /\ Selected(rec[o].f)
    /\ net' = net \ {<<"observe", o>>} /\ adm' = None
    /\ IF Blank(o) THEN rec' = [rec EXCEPT ![o] = Unsettled(@)] /\ UNCHANGED jr
       ELSE /\ jr' = [jr EXCEPT ![o] = [f |-> @.f, t |-> Proof(o).t, token |-> Proof(o).token]]
            /\ rec' = Accepted(o, Proof(o))
    /\ UNCHANGED <<prof, granting, pre, task, cleanup, busy, prov, eff, swapped, faults>>

(* No answer, a busy helper or a replaced socket: nothing is learnt. *)
ObserveFails(o) ==
    /\ adm = <<"observe", o>> /\ adm' = None /\ net' = net \ {<<"observe", o>>}
    /\ rec' = [rec EXCEPT ![o] = Unsettled(@)]
    /\ UNCHANGED <<prof, granting, pre, task, cleanup, node, prov, eff, swapped, faults>>

(* The owner closes an outcome that no unfinished task can still report. *)
Resolve(o) ==
    /\ Quiet /\ o \in Held /\ task[o] = "none" /\ rec[o].t \in {"unknown", "accepted"} /\ rec[o].token # "pending"
    /\ rec' = [rec EXCEPT ![o].t = "resolved"]
    /\ UNCHANGED <<prof, granting, pre, task, adm, cleanup, net, node, prov, eff, swapped, faults>>

(* forget: only a settled record; the removal is stored before it starts. *)
ForgetBegin(o) ==
    /\ Quiet /\ o \in Held /\ task[o] = "none" /\ rec[o].t \in TERMINAL
    /\ adm' = <<"forget", o>> /\ cleanup' = [cleanup EXCEPT !.begun = @ \cup {o}]
    /\ net' = IF o \in cleanup.done THEN net ELSE net \cup {<<"forget", o>>}
    /\ UNCHANGED <<prof, granting, pre, rec, task, node, prov, eff, swapped, faults>>

(* adapter_journal.forget: the outcome must fit the receipt. *)
Fits(o) == IF jr[o] = None THEN TRUE
           ELSE \/ jr[o].t = rec[o].t
                \/ jr[o].t = "accepted" /\ rec[o].t \in {"observed", "failed", "resolved"}
                \/ jr[o].t = "unknown" /\ rec[o].t = "resolved"

Forget(o) ==
    /\ adm = <<"forget", o>> /\ <<"forget", o>> \in net /\ Idle(rec[o].f) /\ Fits(o)
    /\ net' = net \ {<<"forget", o>>}
    /\ jr' = [jr EXCEPT ![o] = None]
    /\ \/ cleanup' = [cleanup EXCEPT !.done = @ \cup {o}] /\ UNCHANGED adm
       \/ adm' = None /\ UNCHANGED cleanup   \* the acknowledgement is lost
    /\ UNCHANGED <<prof, granting, pre, rec, task, busy, prov, eff, swapped, faults>>

ForgetFails(o) ==
    /\ adm = <<"forget", o>> /\ <<"forget", o>> \in net /\ adm' = None /\ net' = net \ {<<"forget", o>>}
    /\ UNCHANGED <<prof, granting, pre, rec, task, cleanup, node, prov, eff, swapped, faults>>

(* The record goes last. *)
ForgetEnd(o) ==
    /\ adm = <<"forget", o>> /\ o \in cleanup.done /\ adm' = None
    /\ rec' = [rec EXCEPT ![o] = None]
    /\ cleanup' = [begun |-> cleanup.begun \ {o}, done |-> cleanup.done \ {o}]
    /\ UNCHANGED <<prof, granting, pre, task, net, node, prov, eff, swapped, faults>>

(* A request lost on its way. *)
Lose(m) ==
    /\ m \in net /\ m[1] = "apply" /\ net' = net \ {m}
    /\ UNCHANGED <<ctl, node, prov, eff, swapped, faults>>

(* The controller restarts with its records; a probe ends ungranted. *)
Restart ==
    /\ Fault /\ pre' = [o \in Op |-> None] /\ task' = [o \in Op |-> "none"] /\ adm' = None /\ granting' = {}
    /\ net' = {m \in net : m[1] = "apply"}
    /\ UNCHANGED <<prof, rec, cleanup, node, prov, eff, swapped>>

Next ==
    \/ \E f \in Profile : Create(f) \/ GrantBegin(f) \/ GrantEnd(f) \/ Revoke(f) \/ Remove(f)
    \/ \E o \in Op, f \in Profile : Preview(o, f) \/ Apply(o, f)
    \/ \E o \in Op : Commit(o) \/ Dispatch(o) \/ DispatchFails(o) \/ ProviderEnds(o)
    \/ \E f \in Profile : Execute(f) \/ Complete(f) \/ Abandon(f) \/ HelperDies(f) \/ Swap(f)
    \/ \E o \in Op : ObserveBegin(o) \/ Observe(o) \/ ObserveFails(o) \/ Resolve(o)
    \/ \E o \in Op : ForgetBegin(o) \/ Forget(o) \/ ForgetFails(o) \/ ForgetEnd(o)
    \/ \E m \in net : Lose(m)
    \/ Restart

Spec == Init /\ [][Next]_vars

-----------------------------------------------------------------------------
(* Every variable has the shape the code gives it. *)
TypeOK ==
    /\ \A f \in Profile : prof[f].rev \in 0..MaxRev /\ busy[f] \in Op \cup {None}
    /\ \A o \in Held : rec[o].f \in Profile
          /\ rec[o].t \in {"queued", "dispatching", "unknown", "accepted"} \cup TERMINAL
          /\ rec[o].token \in {"none", "pending", "complete"}
    /\ \A o \in Op : task[o] \in {"none", "queued", "sent"} /\ eff[o] \in Nat
    /\ cleanup.done \subseteq cleanup.begun /\ cleanup.begun \subseteq Held
    /\ \A o \in Op : task[o] # "none" => o \in Held

(* No provider is asked twice for one operation, whatever is lost, observed, *)
(* cancelled or restarted in between (adapter_journal.prepare, commit).      *)
AskedOnce == \A o \in Op : eff[o] <= 1

(* A target reported as refused before its dispatch was never acted on, and  *)
(* one reported as settled was settled that way by the provider (commit,     *)
(* accept).                                                                  *)
OutcomeTrue ==
    \A o \in Held :
        /\ rec[o].t = "refused" => eff[o] = 0 /\ <<"apply", o>> \notin net
        /\ rec[o].t = "observed" => prov[o] = "ok"
        /\ rec[o].t = "failed" => prov[o] = "bad"

(* What the provider was asked for is on record at the node until the        *)
(* controller has settled the operation (adapter_journal.prepare, forget).   *)
ReceiptKept ==
    \A o \in Held : eff[o] > 0 /\ rec[o].t \notin TERMINAL => jr[o] # None

(* A task the controller knows the provider to be running is neither closed  *)
(* nor removed while it runs (resolve, pending_task).                        *)
RunningKept ==
    \A o \in Held : rec[o].token = "pending" =>
       rec'[o] # None /\ rec'[o].t # "resolved"

(* An acknowledged removal left no receipt on the node, unless the request   *)
(* itself was still under way (forget).                                      *)
RemovedThere ==
    \A o \in cleanup.done : jr[o] = None \/ rec[o].t = "resolved"

(* Under a profile that stays granted, an accepted task is settled.          *)
TaskAccepted(o) == o \in Held /\ rec[o].t = "accepted"
SettledOrBarred(o) == o \notin Held \/ rec[o].t \in TERMINAL \/ ~Allow(rec[o].f) \/ ~Selected(rec[o].f)
=============================================================================
