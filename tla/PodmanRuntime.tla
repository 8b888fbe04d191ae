---------------------------- MODULE PodmanRuntime ---------------------------
(***************************************************************************)
(* The rootless Podman provider, from the approved files to the outcome    *)
(* of one attempt.  An administrator may replace any of the files while    *)
(* the attempt is prepared, launched, inspected and released: each step    *)
(* looks at them again, by identity, digest or both.                       *)
(***************************************************************************)
EXTENDS Naturals

CONSTANTS
    Shared,       \* the image archive is public and immutable: it is not copied
    MaxReplace,   \* bound: files the administrator replaces
    MaxFault,     \* bound: engine failures
    None

(* An image archive, an input of the host, an input streamed to the host,  *)
(* a GPU library, and the filesystem mounted for the attempt's slot.       *)
File == {"image", "local", "staged", "library", "slot"}
Object == [id : 0..MaxReplace, good : BOOLEAN]
Code == {0, 1, 125, 137}
BarrierCode == {125, 137}   \* of a barrier that failed or was killed

VARIABLES
    file,     \* File -> the object its path names
    saved,    \* File -> identity when the provider was configured, or None
    sup,      \* the supervisor's step with this attempt
    copy,     \* File -> the object the attempt uses, or None
    runner,   \* the runner's step
    engine,   \* [status, code] of the container as the engine keeps it
    released, \* the payload may pass its barrier
    phase,    \* [name, code] in state.json
    replaced, \* replacements so far
    faults

vars == <<file, saved, sup, copy, runner, engine, released, phase, replaced, faults>>
attempt == <<copy, runner, engine, released, phase>>
outside == <<file, replaced>>

Init ==
    /\ file = [f \in File |-> [id |-> 0, good |-> TRUE]] /\ saved = [f \in File |-> None] /\ copy = saved
    /\ sup = "down" /\ runner = "off" /\ engine = [status |-> "none", code |-> None] /\ released = FALSE
    /\ phase = [name |-> "waiting", code |-> None] /\ replaced = 0 /\ faults = 0

(* A file is replaced by another one, with the same content or another. *)
Replace(f, good) ==
    /\ replaced < MaxReplace /\ replaced' = replaced + 1
    /\ file' = [file EXCEPT ![f] = [id |-> replaced + 1, good |-> good]]
    /\ UNCHANGED <<saved, sup, attempt, faults>>

-----------------------------------------------------------------------------
(* The driver, called by the supervisor.                                    *)

(* Every approved file has its digest when the provider is configured; a    *)
(* streamed input when the host completed it, and the slot was qualified.   *)
Configure ==
    /\ sup = "down" /\ \A f \in File : file[f].good
    /\ saved' = [f \in File |-> file[f].id] /\ sup' = "up" /\ UNCHANGED <<attempt, outside, faults>>

Unchanged(f) == file[f].id = saved[f]

(* probe() looks at the files of the configuration. *)
Probed == \A f \in {"image", "local", "library"} : Unchanged(f)

Go(from, to, ok) == sup = from /\ sup' = (IF ok THEN to ELSE "failed")

Probe == Go("up", "image", Probed) /\ UNCHANGED <<saved, attempt, outside, faults>>

Used(f) == copy' = [copy EXCEPT ![f] = file[f]]

(* A shared archive is used in place, under the identity it has now. *)
PrepareImage ==
    /\ Go("image", "local", Shared \/ file["image"].good)
    /\ copy' = [copy EXCEPT !["image"] = file["image"], !["slot"] = file["slot"]]
    /\ UNCHANGED <<saved, runner, engine, released, phase, outside, faults>>

CopyLocal ==
    /\ Go("local", "staged", file["local"].good) /\ Used("local")
    /\ UNCHANGED <<saved, runner, engine, released, phase, outside, faults>>

(* A streamed input keeps its identity, on the filesystem of the slot. *)
Staged == Unchanged("staged") /\ copy["slot"].id = saved["slot"]

LinkStaged ==
    /\ Go("staged", "library", Staged) /\ Used("staged")
    /\ UNCHANGED <<saved, runner, engine, released, phase, outside, faults>>

SelectLibrary == Go("library", "prepared", Unchanged("library")) /\ UNCHANGED <<saved, attempt, outside, faults>>

(* start() probes again and compares each link with the streamed input. *)
Start ==
    /\ Go("prepared", "started", Probed /\ Staged /\ file["staged"].id = copy["staged"].id)
    /\ runner' = IF sup' = "started" THEN "begin" ELSE runner
    /\ UNCHANGED <<saved, copy, engine, released, phase, outside, faults>>

-----------------------------------------------------------------------------
(* The runner, in the unit of the attempt.                                  *)

Phase(name, code) == phase' = [name |-> name, code |-> code]
Advance(from, to, ok) == runner = from /\ runner' = (IF ok THEN to ELSE "failed")
RunnerFails ==
    /\ runner \in {"launched", "opened", "loaded", "barrier", "drained"} /\ faults < MaxFault /\ faults' = faults + 1
    /\ runner' = "failed" /\ engine' = [engine EXCEPT !.status = IF @ = "running" THEN "killed" ELSE @]
    /\ UNCHANGED <<saved, sup, copy, released, phase, outside>>

Ready ==
    /\ Advance("begin", "ready", TRUE) /\ Phase("ready", None)
    /\ UNCHANGED <<saved, sup, copy, engine, released, outside, faults>>

(* The archive that was opened is the one that is loaded. *)
OpenImage ==
    /\ Advance("launched", "opened", Shared => file["image"].id = copy["image"].id)
    /\ UNCHANGED <<saved, sup, copy, engine, released, phase, outside, faults>>

(* The engine knows the image under the digest that was approved. *)
Load ==
    /\ Advance("opened", "loaded", copy["image"].good)
    /\ UNCHANGED <<saved, sup, copy, engine, released, phase, outside, faults>>

(* The container starts at its barrier, with the libraries mounted. *)
CreateContainer ==
    /\ Advance("loaded", "barrier", TRUE) /\ Used("library") /\ engine' = [status |-> "running", code |-> 0]
    /\ Phase("payload", None) /\ UNCHANGED <<saved, sup, released, outside, faults>>

(* The attached client ends with the payload, or alone. *)
Drain ==
    /\ runner = "barrier" /\ runner' = "drained"
    /\ \/ engine.status = "exited" /\ UNCHANGED faults
       \/ engine.status = "running" /\ faults < MaxFault /\ faults' = faults + 1
    /\ UNCHANGED <<saved, sup, copy, engine, released, phase, outside>>

Finish ==
    /\ Advance("drained", "over", engine.status = "exited")
    /\ IF engine.status = "exited" THEN Phase("finished", engine.code) ELSE UNCHANGED phase
    /\ UNCHANGED <<saved, sup, copy, engine, released, outside, faults>>

-----------------------------------------------------------------------------
(* The payload.                                                             *)

(* Past the barrier it ends as it likes; before, only a signal ends it. *)
Exit(code) ==
    /\ engine.status = "running" /\ runner \in {"barrier", "drained"} /\ (released \/ code \in BarrierCode)
    /\ engine' = [status |-> "exited", code |-> code]
    /\ UNCHANGED <<saved, sup, copy, runner, released, phase, outside, faults>>

-----------------------------------------------------------------------------
(* The supervisor's monitor.                                                *)

Launch ==
    /\ sup = "started" /\ runner = "ready" /\ phase.name = "ready" /\ sup' = "launched" /\ runner' = "launched"
    /\ UNCHANGED <<saved, copy, engine, released, phase, outside, faults>>

\* Mutant: a mount is accepted by its target alone.
BoundAnyway == TRUE

(* What is mounted is read inside the payload's namespaces. *)
Mounted == copy["library"].id

(* Source and target of a mount still have the approved identity. *)
Bound == Unchanged("library") /\ Mounted = saved["library"]

(* The root is layered over the storage that was reserved. *)
Layered == copy["slot"].id = saved["slot"]

(* A process that is gone, or another mount, fails the boundary. *)
Inspect ==
    /\ phase.name = "payload" /\ Go("launched", "inspected", engine.status = "running" /\ Bound /\ Layered)
    /\ UNCHANGED <<saved, attempt, outside, faults>>

(* The slot is probed once more.  A marker for a payload that is gone       *)
(* releases nothing.                                                        *)
ReleaseBarrier ==
    /\ Go("inspected", "released", Unchanged("slot"))
    /\ released' = (Unchanged("slot") /\ engine.status = "running")
    /\ UNCHANGED <<saved, copy, runner, engine, phase, outside, faults>>

(* The unit is stopped: a failed step, a lease that ran out, or the end. *)
Stop ==
    /\ sup \notin {"down", "up", "stopped", "clean"} /\ sup' = "stopped" /\ runner' = "off" /\ released' = FALSE
    /\ engine' = [engine EXCEPT !.status = IF @ = "running" THEN "killed" ELSE @]
    /\ UNCHANGED <<saved, copy, phase, outside, faults>>

(* The attempt's directory is removed after its unit is known to be gone. *)
Release ==
    /\ sup = "stopped" /\ sup' = "clean" /\ copy' = [f \in File |-> None] /\ Phase("waiting", None)
    /\ UNCHANGED <<saved, runner, engine, released, outside, faults>>

Next ==
    \/ Configure \/ Probe \/ PrepareImage \/ CopyLocal \/ LinkStaged \/ SelectLibrary \/ Start \/ Ready
    \/ OpenImage \/ Load \/ CreateContainer \/ Drain \/ Finish \/ RunnerFails
    \/ Launch \/ Inspect \/ ReleaseBarrier \/ Stop \/ Release
    \/ \E code \in Code : Exit(code)
    \/ \E f \in File, good \in BOOLEAN : Replace(f, good)

Spec == Init /\ [][Next]_vars

-----------------------------------------------------------------------------
TypeOK ==
    /\ file \in [File -> Object] /\ \A f \in File : copy[f] # None => copy[f] \in Object
    /\ sup \in {"prepared", "started", "launched"} => \A f \in File \ {"library"} : copy[f] # None
    /\ phase.name = "finished" => phase.code \in Code
    /\ replaced \in 0..MaxReplace /\ faults \in 0..MaxFault

(* A payload that passes its barrier runs the approved image on the         *)
(* approved inputs with the approved libraries on its own filesystem,       *)
(* whichever of those were replaced between any two steps before.           *)
RunsApproved == released => \A f \in File : copy[f].good

(* A finished phase means that the payload is over with that code, and a    *)
(* code other than the barrier's that its boundary was inspected before.     *)
HonestFinish ==
    phase.name = "finished" =>
        engine.status = "exited" /\ engine.code = phase.code /\ (phase.code \notin BarrierCode => sup \in {"released", "stopped"})
=============================================================================
