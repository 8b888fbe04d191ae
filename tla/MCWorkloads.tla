------------------------------ MODULE MCWorkloads -----------------------------
(* One job with two attempts on two nodes: the controller's rows alone,     *)
(* against any report, and its loop over the contributors' executors.  A    *)
(* behaviour stays in the scene it begins in.                               *)
EXTENDS ContributorWorkloads, Naturals, FiniteSets, TLC

CONSTANTS
    Scenes,  \* the scenes a run explores

    a1, a2, j1, n1, n2  \* an attempt, its retry, their job, two nodes

VARIABLE scene

scenesVars == <<scene, vars>>

(* a2 is the retry of a1, on another node. *)
TheJob == a1 :> j1 @@ a2 :> j1
TheGeneration == a1 :> 1 @@ a2 :> 2
Places == a1 :> n1 @@ a2 :> n2
TheCpu == a1 :> 1 @@ a2 :> 1
TheGpu == a1 :> {} @@ a2 :> {}

-----------------------------------------------------------------------------
(* records_job: the rows take any report, and no executor is theirs any     *)
(* more.  loop_retry: a command may be executed after it was given up.      *)
ScenesInit ==
  \/ scene = "loop_retry" /\ scene \in Scenes /\ CWInit
  \/ scene = "records_job" /\ scene \in Scenes /\ Init /\ Board!BoardInit /\ LoopInit
     /\ ledger = [n \in Nodes |-> MaxLedgers + 1]

ScenesNext ==
    \/ scene = "loop_retry" /\ CWNext /\ UNCHANGED scene
    \/ scene = "records_job" /\ Next /\ UNCHANGED <<scene, executors, saved, runner>>

ScenesSpec == ScenesInit /\ [][ScenesNext]_scenesVars

-----------------------------------------------------------------------------
(* Every scene keeps the type invariant of its component. *)
ScenesTypeOK ==
    /\ scene = "loop_retry" => CWTypeOK
    /\ scene = "records_job" => TypeOK

=============================================================================
