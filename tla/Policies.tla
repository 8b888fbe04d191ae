------------------------------- MODULE Policies -------------------------------
(***************************************************************************)
(* Policy packages, publisher trust, activation and the evaluator that     *)
(* decides.                                                                *)
(*                                                                         *)
(* Administrators' requests run in worker threads.  An activation and a    *)
(* preview prepare an evaluator outside the store's lock and use it inside *)
(* a second, locked section that checks what they read before.  A check of *)
(* a request reads one flag without the lock and decides under it.         *)
(***************************************************************************)
EXTENDS Naturals, FiniteSets

CONSTANTS
    Publisher, Package, PublisherOf,
    Admin,      \* requests that activate or preview
    Evaluator,  \* evaluator processes
    MaxTrust,   \* bound: saves of a publisher's trust
    MaxRev,     \* bound: revisions of the policy state
    MaxRestart, \* bound: controller restarts
    None

VARIABLES
    pub,     \* Publisher -> [on, ver]: stored trust
    pkgs,    \* installed packages
    state,   \* the stored state: [rev, required, active]
    ev,      \* Evaluator -> [pkg, since, live], or None
    mem,     \* the controller: [prepared, digest, publisher, error, required]
    retired, \* evaluators whose stop is not confirmed
    job,     \* Admin -> the request between its sections
    lock,    \* the request that holds the store's lock over two steps
    lost,    \* candidates whose stop failed and that nothing refers to
    denied,  \* access was denied by revocation or failure: no, life, before
    restarts

vars == <<pub, pkgs, state, ev, mem, retired, job, lock, lost, denied, restarts>>

(* seen: history of a preview, what was in force when it was answered *)
Idle == [pc |-> "idle", pkg |-> None, ver |-> 0, rev |-> 0, ev |-> None, seen |-> None]
Running == {e \in Evaluator : ev[e] # None}
Free == lock = None

(* Processes are interchangeable: a new one is the next that is not used. *)
Fresh(used) == IF used = Evaluator THEN {} ELSE {CHOOSE e \in Evaluator \ used : TRUE}

Init ==
    /\ pub = [p \in Publisher |-> [on |-> FALSE, ver |-> 0]] /\ pkgs = {}
    /\ state = [rev |-> 0, required |-> FALSE, active |-> None]
    /\ ev = [e \in Evaluator |-> None]
    /\ mem = [prepared |-> None, digest |-> None, publisher |-> 0, error |-> FALSE, required |-> FALSE]
    /\ retired = {} /\ job = [a \in Admin |-> Idle] /\ lock = None /\ lost = {}
    /\ denied = "no" /\ restarts = 0

-----------------------------------------------------------------------------
(* PolicyStore.publisher: the enabled record, compared with the one read. *)
Same(k, ver) == pub[PublisherOf[k]].on /\ pub[PublisherOf[k]].ver = ver

(* PolicyStore.package: an installed package of an enabled publisher. *)
Usable(k) == k \in pkgs /\ pub[PublisherOf[k]].on

(* Prepared: the compiler and the evaluator start on the verified payload. *)
Prepare(e, k) == ev[e] = None /\ ev' = [ev EXCEPT ![e] = [pkg |-> k, since |-> pub[PublisherOf[k]].ver, live |-> TRUE]]

(* Service.close: the stop is confirmed, or it is not. *)
Closed(e) == ev' = [ev EXCEPT ![e] = None]

(* Policies.cleanup: kept for a later attempt when the stop fails. *)
Cleanup(e, error) ==
    \/ Closed(e) /\ UNCHANGED retired /\ mem' = error.done
    \/ retired' = retired \cup {e} /\ UNCHANGED ev /\ mem' = error.failed

(* Policies.decisions: what must hold for the evaluator to be asked. *)
CanDecide ==
    /\ mem.prepared # None /\ ~mem.error /\ mem.digest = state.active
    /\ ev[mem.prepared].live /\ Same(mem.digest, mem.publisher)

Install(k) ==
    /\ Free /\ k \notin pkgs /\ pub[PublisherOf[k]].on
    /\ pkgs' = pkgs \cup {k}
    /\ UNCHANGED <<pub, state, ev, mem, retired, job, lock, lost, denied, restarts>>

(* Policies.bind: new roles are a new revision of the state. *)
Bind ==
    /\ Free /\ state.rev < MaxRev
    /\ state' = [state EXCEPT !.rev = @ + 1]
    /\ UNCHANGED <<pub, pkgs, ev, mem, retired, job, lock, lost, denied, restarts>>

Hit(p) == mem.prepared # None /\ PublisherOf[mem.digest] = p

Trusted(p, on) ==
    /\ Free /\ pub[p].ver < MaxTrust /\ state.rev < MaxRev
    /\ pub' = [pub EXCEPT ![p] = [on |-> on, ver |-> @.ver + 1]]
    /\ state' = [state EXCEPT !.rev = @ + 1]
    /\ denied' = IF Hit(p) THEN "life" ELSE denied
    /\ UNCHANGED <<pkgs, job, lock, lost, restarts>>

\* Mutant: the active evaluator is kept and decides under the new trust.
TrustKeeping(p, on) ==
    /\ Trusted(p, on) /\ UNCHANGED <<ev, retired>>
    /\ mem' = IF Hit(p) THEN [mem EXCEPT !.publisher = pub[p].ver + 1] ELSE mem

(* Policies.trust: every save of the active publisher stops its evaluator. *)
Trust(p, on) ==
    /\ Trusted(p, on)
    /\ LET off == [mem EXCEPT !.prepared = None]
       IN IF Hit(p) THEN Cleanup(mem.prepared, [done |-> off, failed |-> [off EXCEPT !.error = TRUE]])
          ELSE UNCHANGED <<ev, mem, retired>>

-----------------------------------------------------------------------------
(* Activation.                                                              *)

(* Pending cleanups are completed or the activation is refused; then the     *)
(* candidate is prepared.  expected is the revision the owner read.          *)
ActivateBegin(a, k, e) ==
    /\ Free /\ job[a].pc = "idle" /\ Usable(k) /\ ev[e] = None
    /\ ev' = [f \in Evaluator |->
          IF f = e THEN [pkg |-> k, since |-> pub[PublisherOf[k]].ver, live |-> TRUE]
          ELSE IF f \in retired THEN None ELSE ev[f]]
    /\ retired' = {}
    /\ job' = [job EXCEPT ![a] = [Idle EXCEPT !.pc = "activate", !.pkg = k, !.ver = pub[PublisherOf[k]].ver, !.rev = state.rev, !.ev = e]]
    /\ UNCHANGED <<pub, pkgs, state, mem, lock, lost, denied, restarts>>

(* The candidate of a refused activation is closed, once. *)
ActivateRefused(a) ==
    /\ Free /\ job[a].pc = "activate" /\ ~(Same(job[a].pkg, job[a].ver) /\ state.rev = job[a].rev)
    /\ \/ Closed(job[a].ev) /\ UNCHANGED lost
       \/ lost' = lost \cup {job[a].ev} /\ UNCHANGED ev
    /\ job' = [job EXCEPT ![a] = Idle]
    /\ UNCHANGED <<pub, pkgs, state, mem, retired, lock, denied, restarts>>

(* The activation is committed with its audit event. *)
ActivateCommit(a) ==
    /\ Free /\ job[a].pc = "activate" /\ Same(job[a].pkg, job[a].ver) /\ state.rev = job[a].rev /\ state.rev < MaxRev
    /\ state' = [rev |-> state.rev + 1, required |-> TRUE, active |-> job[a].pkg]
    /\ lock' = a /\ job' = [job EXCEPT ![a].pc = "switch"]
    /\ UNCHANGED <<pub, pkgs, ev, mem, retired, lost, denied, restarts>>

(* Still under the lock: the controller takes the candidate. *)
ActivateSwitch(a) ==
    /\ job[a].pc = "switch"
    /\ mem' = [prepared |-> job[a].ev, digest |-> job[a].pkg, publisher |-> job[a].ver, error |-> FALSE, required |-> TRUE]
    /\ lock' = None /\ denied' = "no"
    /\ job' = [job EXCEPT ![a] = IF mem.prepared = None THEN Idle ELSE [Idle EXCEPT !.pc = "previous", !.ev = mem.prepared]]
    /\ UNCHANGED <<pub, pkgs, state, ev, retired, lost, restarts>>

(* The previous evaluator is stopped after the lock was released. *)
ActivateEnd(a) ==
    /\ job[a].pc = "previous"
    /\ Cleanup(job[a].ev, [done |-> mem, failed |-> [mem EXCEPT !.error = TRUE]])
    /\ denied' = IF mem'.error THEN "life" ELSE denied
    /\ job' = [job EXCEPT ![a] = Idle]
    /\ UNCHANGED <<pub, pkgs, state, lock, lost, restarts>>

-----------------------------------------------------------------------------
(* Preview of the active package.                                           *)

(* Policies.status: what a preview calls ready. *)
Ready == mem.prepared # None /\ mem.digest = state.active /\ ~mem.error

(* The state is read, and an evaluator of its own prepared without the lock. *)
PreviewBegin(a, e) ==
    /\ Free /\ job[a].pc = "idle" /\ retired = {}
    /\ state.active # None /\ Ready /\ Usable(state.active) /\ Prepare(e, state.active)
    /\ job' = [job EXCEPT ![a] = [Idle EXCEPT !.pc = "preview", !.pkg = state.active, !.rev = state.rev, !.ev = e]]
    /\ UNCHANGED <<pub, pkgs, state, mem, retired, lock, lost, denied, restarts>>

(* The decisions are returned if the state is still the one that was read. *)
PreviewReply(a) ==
    /\ Free /\ job[a].pc = "preview"
    /\ LET j == job[a]  seen == [active |-> state.active, trust |-> pub[PublisherOf[j.pkg]]] IN
       job' = [job EXCEPT ![a] = IF state.rev = j.rev /\ ev[j.ev].live
                                 THEN [j EXCEPT !.pc = "shown", !.seen = seen]
                                 ELSE [j EXCEPT !.pc = "stale"]]
    /\ UNCHANGED <<pub, pkgs, state, ev, mem, retired, lock, lost, denied, restarts>>

(* A preview's cleanup never turns the required policy off. *)
PreviewEnd(a) ==
    /\ job[a].pc \in {"shown", "stale"}
    /\ Cleanup(job[a].ev, [done |-> mem, failed |-> mem])
    /\ job' = [job EXCEPT ![a] = Idle]
    /\ UNCHANGED <<pub, pkgs, state, lock, lost, denied, restarts>>

-----------------------------------------------------------------------------
(* A check that cannot be decided is refused, and stays refused until the    *)
(* next activation.                                                          *)
CheckRefused ==
    /\ Free /\ mem.required /\ state.required /\ ~CanDecide /\ ~mem.error
    /\ mem' = [mem EXCEPT !.error = TRUE] /\ denied' = "life"
    /\ UNCHANGED <<pub, pkgs, state, ev, retired, job, lock, lost, restarts>>

(* The evaluator fails, times out or answers badly: its service is stopped.  *)
Fail(e) ==
    /\ e \in Running /\ ev[e].live
    /\ ev' = [ev EXCEPT ![e].live = FALSE]
    /\ UNCHANGED <<pub, pkgs, state, mem, retired, job, lock, lost, denied, restarts>>

(* Restarted with the state the store holds. *)
Restarted(required) ==
    /\ restarts < MaxRestart /\ restarts' = restarts + 1
    /\ job' = [a \in Admin |-> Idle] /\ retired' = {} /\ lost' = {} /\ lock' = None
    /\ denied' = IF denied = "no" THEN "no" ELSE "before"
    /\ \E e \in Fresh({}), ok \in BOOLEAN :
          IF state.active # None /\ ok /\ Usable(state.active)
          THEN /\ ev' = [f \in Evaluator |-> IF f = e THEN [pkg |-> state.active, since |-> pub[PublisherOf[state.active]].ver, live |-> TRUE] ELSE None]
               /\ mem' = [prepared |-> e, digest |-> state.active, publisher |-> pub[PublisherOf[state.active]].ver,
                          error |-> FALSE, required |-> required]
          ELSE /\ ev' = [f \in Evaluator |-> None]
               /\ mem' = [prepared |-> None, digest |-> None, publisher |-> 0, error |-> state.active # None, required |-> required]
    /\ UNCHANGED <<pub, pkgs, state>>

Restart == Restarted(state.required)

Next ==
    \/ Bind \/ CheckRefused \/ Restart
    \/ \E k \in Package : Install(k)
    \/ \E p \in Publisher, on \in BOOLEAN : Trust(p, on)
    \/ \E a \in Admin, k \in Package, e \in Fresh(Running) : ActivateBegin(a, k, e)
    \/ \E a \in Admin : ActivateRefused(a) \/ ActivateCommit(a) \/ ActivateSwitch(a) \/ ActivateEnd(a)
    \/ \E a \in Admin, e \in Fresh(Running) : PreviewBegin(a, e)
    \/ \E a \in Admin : PreviewReply(a) \/ PreviewEnd(a)
    \/ \E e \in Evaluator : Fail(e)

Spec == Init /\ [][Next]_vars

-----------------------------------------------------------------------------
(* Every variable has the shape the code gives it. *)
TypeOK ==
    /\ pub \in [Publisher -> [on : BOOLEAN, ver : 0..MaxTrust]] /\ pkgs \subseteq Package
    /\ state \in [rev : 0..MaxRev, required : BOOLEAN, active : Package \cup {None}]
    /\ mem.prepared \in Running \cup {None} /\ mem.digest \in Package \cup {None}
    /\ retired \subseteq Running /\ lost \subseteq Running
    /\ \A a \in Admin : job[a].ev \in Running \cup {None}

(* While no activation is switching, a required policy is enforced by every  *)
(* check, across restarts and evaluator failures: the flag read without the  *)
(* lock never says otherwise (Policies.check).                               *)
Enforced == Free /\ state.required => mem.required

(* What decides is the active package under the very trust it was prepared   *)
(* under: no withdrawal and renewal of trust, restart or overlapping         *)
(* activation lets an older evaluator decide (Policies.activate, trust,      *)
(* decisions).                                                               *)
DecidesTrusted ==
    Free /\ CanDecide =>
        /\ ev[mem.prepared].pkg = state.active
        /\ pub[PublisherOf[state.active]].on
        /\ ev[mem.prepared].since = pub[PublisherOf[state.active]].ver

(* Every evaluator process is the active one, a request's, or kept for its   *)
(* cleanup; only the candidate of a refused activation whose stop failed is  *)
(* referred to by nothing (Policies.cleanup, Policies.activate).             *)
EvaluatorsOwned ==
    Running = ({mem.prepared} \cup {job[a].ev : a \in Admin} \cup retired \cup lost) \ {None}

(* The decisions a preview returns come from the package that was active,   *)
(* and under the trust its publisher had, when they were returned, whatever  *)
(* changed while the evaluator was prepared without the lock                 *)
(* (preview_checked).                                                        *)
PreviewTrue ==
    \A a \in Admin : LET j == job[a] IN j.pc = "shown" =>
        /\ j.seen.active = ev[j.ev].pkg
        /\ j.seen.trust = [on |-> TRUE, ver |-> ev[j.ev].since]
=============================================================================
