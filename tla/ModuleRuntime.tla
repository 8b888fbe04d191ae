---------------------------- MODULE ModuleRuntime ---------------------------
(***************************************************************************)
(* Installed module packages and the services that run their actions.  The *)
(* registry keeps a row and a directory for each digest; a grant is valid  *)
(* for one revision of the row.  An invocation takes a lease of its        *)
(* package, runs it as one transient service and gives the lease back when *)
(* the service has been stopped.                                           *)
(*                                                                         *)
(* Registry operations hold the store's lock and are one step, a crash in  *)
(* the middle of one another; otherwise a step is what a task does between *)
(* two awaits.  A tick passes only when nothing due within it is left.     *)
(***************************************************************************)
EXTENDS Naturals, FiniteSets

CONSTANTS
    Digest,      \* versions of one package
    Call,        \* invocations
    MaxActive,   \* invocations that may run: 4 in the code
    SECONDS,     \* time limit of an invocation
    RUNTIME,     \* RuntimeMaxSec of its service
    WAIT,        \* how long a stop and its confirmation may take
    MaxRev,      \* bound: revisions of a row
    MaxFault,    \* bound: crashes and failures
    None

VARIABLES
    row,      \* Digest -> [on, rev], or None
    files,    \* Digest -> "none", "whole" or "part"
    stage,    \* a staging directory was left behind
    admin,    \* administrative requests that await: [op, d]
    inv,      \* Call -> [d, rev, pc, age, ok], or None
    svc,      \* Call -> its service: [age, admitted, orphan], or None
    used,     \* invocations so far
    touched,  \* invocations whose package was disabled since they began
    done,     \* invocations that returned a result
    faults

registry == <<row, files, stage>>
vars == <<registry, admin, inv, svc, used, touched, done, faults>>

Init ==
    /\ row = [d \in Digest |-> None] /\ files = [d \in Digest |-> "none"] /\ stage = FALSE
    /\ admin = {} /\ inv = [c \in Call |-> None] /\ svc = [c \in Call |-> None]
    /\ used = {} /\ touched = {} /\ done = {} /\ faults = 0

Fault == faults < MaxFault /\ faults' = faults + 1
Active == {c \in Call : inv[c] # None}
At(c, pc) == c \in Active /\ inv[c].pc = pc
Installed == {d \in Digest : row[d] # None}
Leased(d) == \E c \in Active : inv[c].d = d
Goto(c, pc) == inv' = [inv EXCEPT ![c].pc = pc, ![c].age = 0]

-----------------------------------------------------------------------------
(* The registry.                                                            *)

(* _disable(): grants are deleted and the revision grows. *)
Off(ds) == [d \in Digest |-> IF d \in ds /\ row[d] # None THEN [on |-> FALSE, rev |-> row[d].rev + 1] ELSE row[d]]
Touch(ds) == touched' = touched \cup {c \in Active : inv[c].d \in ds}
Waiting(op, d) == [op |-> op, d |-> d]
Stopped(d) == \A c \in Active : inv[c].d = d => inv[c].ok
Room(ds) == \A d \in ds \cap Installed : row[d].rev < MaxRev

(* verify(): the directory holds exactly the files of the manifest. *)
Verified(d) == files[d] = "whole"

(* What publish() finds: nothing, or a directory it verifies. *)
Install(d) ==
    /\ d \notin Installed /\ files[d] \in {"none", "whole"}
    /\ row' = [row EXCEPT ![d] = [on |-> FALSE, rev |-> 1]] /\ files' = [files EXCEPT ![d] = "whole"]
    /\ UNCHANGED <<stage, admin, inv, svc, used, touched, done, faults>>

(* Activation verifies the package and awaits a check of the sandbox. *)
Activate(d) ==
    /\ Waiting("enable", d) \notin admin /\ d \in Installed /\ Verified(d)
    /\ admin' = admin \cup {Waiting("enable", d)}
    /\ UNCHANGED <<registry, inv, svc, used, touched, done, faults>>

(* set_enabled(): every version is disabled, then this one enabled. *)
Enabled(d) ==
    /\ Waiting("enable", d) \in admin /\ admin' = admin \ {Waiting("enable", d)} /\ Room(Digest)
    /\ IF row[d] # None /\ Verified(d)
       THEN LET off == {e \in Installed : row[e].on} \cup {d} IN
            row' = [Off(off) EXCEPT ![d].on = TRUE] /\ Touch(off)
       ELSE UNCHANGED <<row, touched>>
    /\ UNCHANGED <<files, stage, inv, svc, used, done, faults>>

(* Runtime.stop(): every invocation of the package is cancelled. *)
Cancelled(c) ==
    IF inv[c].pc \in {"probe", "start", "run", "broker"}
    THEN [inv[c] EXCEPT !.pc = IF inv[c].pc = "probe" THEN "end" ELSE "stop", !.age = 0, !.ok = FALSE]
    ELSE [inv[c] EXCEPT !.ok = FALSE]

Disable(d, op) ==
    /\ Waiting(op, d) \notin admin /\ d \in Installed /\ Room({d}) /\ row' = Off({d}) /\ Touch({d})
    /\ inv' = [c \in Call |-> IF c \in Active /\ inv[c].d = d THEN Cancelled(c) ELSE inv[c]]
    /\ admin' = admin \cup {Waiting(op, d)}
    /\ UNCHANGED <<files, stage, svc, used, done, faults>>

Disabled(d) ==
    /\ Waiting("disable", d) \in admin /\ Stopped(d) /\ admin' = admin \ {Waiting("disable", d)}
    /\ UNCHANGED <<registry, inv, svc, used, touched, done, faults>>

Free(d) == ~Leased(d)

(* The invocations that were cancelled have ended.  The package is revoked  *)
(* once more; a lease taken meanwhile refuses its removal.                  *)
Uninstall(d) ==
    /\ Waiting("uninstall", d) \in admin /\ Stopped(d) /\ admin' = admin \ {Waiting("uninstall", d)}
    /\ Room({d}) /\ Touch({d})
    /\ IF Free(d) /\ Verified(d)
       THEN row' = [row EXCEPT ![d] = None] /\ files' = [files EXCEPT ![d] = "none"]
       ELSE row' = Off({d}) /\ UNCHANGED files
    /\ UNCHANGED <<stage, inv, svc, used, done, faults>>

-----------------------------------------------------------------------------
(* Invocations.                                                             *)

\* Mutant: a grant is current while its package is enabled.
CurrentEnabled(c) == LET r == row[inv[c].d] IN IF r = None THEN FALSE ELSE r.on

(* The package is enabled at the revision the invocation was admitted with. *)
Current(c) == LET r == row[inv[c].d] IN IF r = None THEN FALSE ELSE r.on /\ r.rev = inv[c].rev

Invoke(c, d) ==
    /\ c \notin used /\ Cardinality(Active) < MaxActive /\ d \in Installed /\ row[d].on /\ Verified(d)
    /\ inv' = [inv EXCEPT ![c] = [d |-> d, rev |-> row[d].rev, pc |-> "probe", age |-> 0, ok |-> TRUE]]
    /\ used' = used \cup {c} /\ UNCHANGED <<registry, admin, svc, touched, done, faults>>

(* A transient service of its own, under a watcher. *)
Service == [age |-> 0, admitted |-> FALSE, orphan |-> FALSE]

(* The sandbox was checked: the service is launched. *)
Launch(c) ==
    /\ At(c, "probe")
    /\ IF Current(c) THEN Goto(c, "start") /\ svc' = [svc EXCEPT ![c] = Service]
       ELSE inv' = [inv EXCEPT ![c].pc = "end", ![c].ok = FALSE] /\ UNCHANGED svc
    /\ UNCHANGED <<registry, admin, used, touched, done, faults>>

(* The unit exists with the limits it was given. *)
Enforced(c) == svc[c] # None

(* Its limits are in force: the request is written. *)
Admit(c) ==
    /\ At(c, "start") /\ Enforced(c) /\ Current(c)
    /\ inv' = [inv EXCEPT ![c].pc = "run"] /\ svc' = [svc EXCEPT ![c].admitted = TRUE]
    /\ UNCHANGED <<registry, admin, used, touched, done, faults>>

(* A broker call of the module, and its answer. *)
Broker(c) ==
    /\ At(c, "run") /\ svc[c] # None /\ Current(c) /\ inv' = [inv EXCEPT ![c].pc = "broker"]
    /\ UNCHANGED <<registry, admin, svc, used, touched, done, faults>>

Brokered(c) ==
    /\ At(c, "broker") /\ Current(c) /\ inv' = [inv EXCEPT ![c].pc = "run"]
    /\ UNCHANGED <<registry, admin, svc, used, touched, done, faults>>

(* The result was read and the module exited. *)
Result(c) ==
    /\ At(c, "run") /\ Goto(c, "stop") /\ svc' = [svc EXCEPT ![c] = None]
    /\ UNCHANGED <<registry, admin, used, touched, done, faults>>

Running(c) == c \in Active /\ inv[c].pc \in {"start", "run", "broker"}
Break(c) == Running(c) /\ inv' = [inv EXCEPT ![c].pc = "stop", ![c].age = 0, ![c].ok = FALSE]

(* The guard looks every tenth of a second. *)
Revoked(c) == Running(c) /\ ~Current(c) /\ Break(c) /\ UNCHANGED <<registry, admin, svc, used, touched, done, faults>>
TimesOut(c) ==
    /\ Running(c) /\ inv[c].age >= SECONDS /\ Break(c)
    /\ UNCHANGED <<registry, admin, svc, used, touched, done, faults>>
Fails(c) == Break(c) /\ Fault /\ UNCHANGED <<registry, admin, svc, used, touched, done>>

(* A call of the service manager, killed after four seconds. *)
Answers(yes) == IF yes THEN UNCHANGED faults ELSE Fault

(* stop_service(): the manager kills the service.  If it does not answer,   *)
(* an admitted service is waited for.                                       *)
Stop(c) ==
    /\ At(c, "stop")
    /\ \/ svc' = [svc EXCEPT ![c] = None] /\ Goto(c, "end") /\ Answers(TRUE)
       \/ /\ svc[c] # None /\ Answers(FALSE) /\ UNCHANGED svc
          /\ IF svc[c].admitted THEN Goto(c, "confirm") ELSE inv' = [inv EXCEPT ![c].pc = "end", ![c].ok = FALSE]
    /\ UNCHANGED <<registry, admin, used, touched, done>>

Confirmed(c) ==
    /\ At(c, "confirm") /\ svc[c] = None /\ Goto(c, "end")
    /\ UNCHANGED <<registry, admin, svc, used, touched, done, faults>>

(* The confirmation takes too long: the cleanup ends with an error. *)
Unconfirmed(c) ==
    /\ At(c, "confirm") /\ inv[c].age >= WAIT /\ inv' = [inv EXCEPT ![c].pc = "end", ![c].ok = FALSE]
    /\ UNCHANGED <<registry, admin, svc, used, touched, done, faults>>

\* Mutant: a second cancellation ends the cleanup.
EndedCancelled(c) ==
    /\ c \in Active /\ (inv[c].pc = "end" \/ (inv[c].pc = "confirm" /\ ~inv[c].ok))
    /\ inv' = [inv EXCEPT ![c] = None] /\ UNCHANGED done
    /\ UNCHANGED <<registry, admin, svc, used, touched, faults>>

(* The lease is released, and the result returned if the grant still holds. *)
Ended(c) ==
    /\ At(c, "end") /\ inv' = [inv EXCEPT ![c] = None]
    /\ done' = IF inv[c].ok /\ Current(c) THEN done \cup {c} ELSE done
    /\ UNCHANGED <<registry, admin, svc, used, touched, faults>>

-----------------------------------------------------------------------------
(* Services, the controller's death and the clock.                          *)

(* RuntimeMaxSec, and the watcher of a dead controller, kill a service. *)
Expired(c) ==
    /\ svc[c] # None /\ (svc[c].age >= RUNTIME \/ svc[c].orphan) /\ svc' = [svc EXCEPT ![c] = None]
    /\ UNCHANGED <<registry, admin, inv, used, touched, done, faults>>

(* A crash, possibly within an installation or a removal, and the start     *)
(* that follows: leases are gone and staging directories are removed.       *)
Dead ==
    /\ Fault /\ admin' = {} /\ inv' = [c \in Call |-> None] /\ touched' = touched \cup Active
    /\ svc' = [c \in Call |-> IF svc[c] = None THEN None ELSE [svc[c] EXCEPT !.orphan = TRUE]]
    /\ UNCHANGED <<used, done>>

Crash == Dead /\ UNCHANGED row /\ UNCHANGED <<files, stage>>

CrashInstall(d) ==
    /\ d \notin Installed /\ files[d] = "none" /\ Dead /\ UNCHANGED row
    /\ \/ stage' = TRUE /\ UNCHANGED files
       \/ files' = [files EXCEPT ![d] = "whole"] /\ UNCHANGED stage

(* The row is disabled in a transaction of its own before the files are removed. *)
CrashRemove(d) ==
    /\ Waiting("uninstall", d) \in admin /\ Stopped(d) /\ ~Leased(d) /\ d \in Installed
    /\ Verified(d) /\ Room({d}) /\ row' = Off({d}) /\ Dead
    /\ files' \in {[files EXCEPT ![d] = f] : f \in {"part", "none"}} /\ UNCHANGED stage

(* recover_stages() *)
Recover ==
    /\ stage /\ stage' = FALSE /\ UNCHANGED <<row, files, admin, inv, svc, used, touched, done, faults>>

NothingDue ==
    /\ \A c \in Call : svc[c] # None => svc[c].age < RUNTIME /\ ~svc[c].orphan
    /\ \A c \in Active :
          /\ inv[c].pc \notin {"stop", "end"} /\ (inv[c].pc = "confirm" => svc[c] # None /\ inv[c].age < WAIT)
          /\ inv[c].pc \in {"start", "run", "broker"} => inv[c].age < SECONDS /\ Current(c)

Tick ==
    /\ NothingDue /\ \E c \in Call : svc[c] # None
    /\ svc' = [c \in Call |-> IF svc[c] = None THEN None ELSE [svc[c] EXCEPT !.age = @ + 1]]
    /\ inv' = [c \in Call |-> IF c \in Active /\ inv[c].pc # "probe" THEN [inv[c] EXCEPT !.age = @ + 1] ELSE inv[c]]
    /\ UNCHANGED <<registry, admin, used, touched, done, faults>>

Next ==
    \/ Crash \/ Recover \/ Tick
    \/ \E d \in Digest : \/ Install(d) \/ Activate(d) \/ Enabled(d) \/ Disabled(d) \/ Uninstall(d)
                         \/ Disable(d, "disable") \/ Disable(d, "uninstall")
                         \/ CrashInstall(d) \/ CrashRemove(d) \/ \E c \in Call : Invoke(c, d)
    \/ \E c \in Call : \/ Launch(c) \/ Admit(c) \/ Broker(c) \/ Brokered(c) \/ Result(c) \/ Revoked(c) \/ TimesOut(c)
                       \/ Fails(c) \/ Stop(c) \/ Confirmed(c) \/ Unconfirmed(c) \/ Ended(c) \/ Expired(c)

Spec == Init /\ [][Next]_vars

-----------------------------------------------------------------------------
TypeOK ==
    /\ row \in [Digest -> [on : BOOLEAN, rev : 1..MaxRev] \cup {None}]
    /\ files \in [Digest -> {"none", "whole", "part"}] /\ stage \in BOOLEAN
    /\ admin \subseteq [op : {"enable", "disable", "uninstall"}, d : Digest]
    /\ \A c \in Active : inv[c].pc \in {"probe", "start", "run", "broker", "stop", "confirm", "end"}
                         /\ inv[c].age \in 0..(SECONDS + WAIT)
    /\ \A c \in Call : svc[c] # None => svc[c].age <= RUNTIME
    /\ Cardinality(Active) <= MaxActive
    /\ Cardinality({d \in Installed : row[d].on}) <= 1

(* An enabled package has all its files, whichever step of an installation  *)
(* or a removal the controller died in.                                     *)
EnabledWhole == \A d \in Installed : row[d].on => files[d] = "whole"

(* A service that was given a request is covered by a lease until it is     *)
(* gone, so its package cannot be removed under it.                         *)
LeaseCovers == \A c \in Call : svc[c] # None => (svc[c].admitted /\ ~svc[c].orphan => inv[c] # None)

(* A package that was disabled while an invocation ran yields no result,    *)
(* also when it was enabled again with the same grants meanwhile.           *)
NoStaleResult == done \cap touched = {}

(* A lease is held only for files that are there. *)
LeasedWhole == \A c \in Active : files[inv[c].d] = "whole"

(* Every invocation ends and gives its lease back: a disabled package, a    *)
(* module that hangs and a manager that does not answer included.           *)
Over(c) == inv[c] = None
=============================================================================
