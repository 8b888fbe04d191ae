----------------------------- MODULE MCExecutor -----------------------------
(* Small installations of Executor. *)
EXTENDS Executor, TLC

CONSTANTS a1, a2, j1, j2

OneJob == [a \in Attempts |-> j1]
Generations == (a1 :> 1) @@ (a2 :> 2)
TwoJobs == (a1 :> j1) @@ (a2 :> j2)
One == [a \in Attempts |-> 1]
AllGpus == [a \in Attempts |-> Gpus]
AllOrNone == {Jobs, {}}
AllJobs == {Jobs}

(* Slots are interchangeable: a record only names the one it holds. *)
SlotSymmetry == Permutations(Slots)

(* ... and so are two jobs of one attempt each. *)
PairSymmetry == SlotSymmetry \cup {a1 :> a2 @@ a2 :> a1 @@ j1 :> j2 @@ j2 :> j1}
=============================================================================
