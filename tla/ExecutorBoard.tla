---------------------------- MODULE ExecutorBoard ----------------------------
(* What an executor promises the controller about the attempts it lists     *)
(* (supervisor.public, Supervisor.snapshot): one record per attempt and     *)
(* the set of attempts whose workload unit is alive.  Executor implements   *)
(* this specification; ContributorWorkloads drives it over a lossy channel. *)
EXTENDS Integers, TLAPS

CONSTANTS Attempts, JobOf, GenOf, None, Expiries, MaxSeq

VARIABLES
  board,   \* attempt -> the record a snapshot or an observation shows
  alive,   \* attempts whose unit runs
  spent    \* attempts whose unit was ever launched

boardVars == <<board, alive, spent>>

Final == {"succeeded", "failed", "cancelled", "expired", "unknown"}
Going == {"prepared", "starting", "running"}

Unlisted == [state |-> "absent", cleanup_confirmed |-> FALSE, lease_sequence |-> 0,
             lease_expires_at |-> 0, ready |-> FALSE, outcome |-> None]

BoardInit ==
  /\ board = [a \in Attempts |-> Unlisted]
  /\ alive = {} /\ spent = {}

(* An attempt enters only over released, older attempts of its job. *)
Newest(a) ==
  \A b \in Attempts \ {a} :
     JobOf[b] = JobOf[a] /\ board[b].state # "absent"
       => board[b].state = "released" /\ GenOf[b] < GenOf[a]

AdmitPlan(a, exp) ==
  /\ board[a].state = "absent" /\ Newest(a)
  /\ board' = [board EXCEPT ![a] = [@ EXCEPT !.state = "prepared", !.lease_sequence = 1,
                                             !.lease_expires_at = exp]]
  /\ UNCHANGED <<alive, spent>>

SealPlan(a) ==
  /\ board[a].state = "absent" /\ Newest(a)
  /\ board' = [board EXCEPT ![a] = [@ EXCEPT !.state = "failed", !.cleanup_confirmed = TRUE]]
  /\ UNCHANGED <<alive, spent>>

BecomeReady(a) ==
  /\ board[a].state = "prepared" /\ ~board[a].ready
  /\ board' = [board EXCEPT ![a].ready = TRUE]
  /\ UNCHANGED <<alive, spent>>

ExtendLease(a, seq, exp) ==
  /\ board[a].state \in Going /\ seq > board[a].lease_sequence
  /\ board' = [board EXCEPT ![a] = [@ EXCEPT !.lease_sequence = seq, !.lease_expires_at = exp]]
  /\ UNCHANGED <<alive, spent>>

AcceptStart(a) ==
  /\ board[a].state = "prepared" /\ board[a].ready
  /\ board' = [board EXCEPT ![a] = [@ EXCEPT !.state = "starting", !.ready = FALSE]]
  /\ UNCHANGED <<alive, spent>>

(* A unit is launched once, for an attempt that was told to start. *)
LaunchUnit(a) ==
  /\ board[a].state = "starting" /\ a \notin spent
  /\ alive' = alive \cup {a} /\ spent' = spent \cup {a}
  /\ UNCHANGED board

ConfirmStart(a) ==
  /\ board[a].state = "starting"
  /\ board' = [board EXCEPT ![a].state = "running"]
  /\ UNCHANGED <<alive, spent>>

UnitsDie ==
  /\ alive' \in SUBSET alive
  /\ UNCHANGED <<board, spent>>

(* Mutant: cleanup is confirmed although the unit still runs. *)
SettleEarly(a, final, clean) ==
  /\ \/ board[a].state \in Going
     \/ board[a].state = "unknown" /\ ~board[a].cleanup_confirmed /\ final = "unknown"
  /\ final # "unknown" => clean
  /\ board' = [board EXCEPT ![a] = [@ EXCEPT !.state = final, !.cleanup_confirmed = clean, !.ready = FALSE]]
  /\ alive' \in {alive, alive \ {a}}
  /\ UNCHANGED spent

(* An outcome is written once; only the doubt about cleanup may be lifted.  *)
Settle(a, final, clean) ==
  /\ \/ board[a].state \in Going
     \/ board[a].state = "unknown" /\ ~board[a].cleanup_confirmed /\ final = "unknown"
  /\ final # "unknown" => clean
  /\ board' = [board EXCEPT ![a] = [@ EXCEPT !.state = final, !.cleanup_confirmed = clean, !.ready = FALSE]]
  /\ alive' \in {alive, alive \ {a}}
  /\ clean => a \notin alive'
  /\ UNCHANGED spent

FreeAttempt(a) ==
  /\ board[a].state \in Final /\ board[a].cleanup_confirmed
  /\ board' = [board EXCEPT ![a] = [@ EXCEPT !.state = "released", !.outcome = board[a].state]]
  /\ UNCHANGED <<alive, spent>>

BoardNext ==
  \/ UnitsDie
  \/ \E a \in Attempts :
       \/ \E exp \in Expiries : AdmitPlan(a, exp)
       \/ SealPlan(a) \/ BecomeReady(a) \/ AcceptStart(a)
       \/ \E seq \in 1..MaxSeq, exp \in Expiries : ExtendLease(a, seq, exp)
       \/ LaunchUnit(a) \/ ConfirmStart(a) \/ FreeAttempt(a)
       \/ \E final \in Final, clean \in BOOLEAN : Settle(a, final, clean)

BoardSpec == BoardInit /\ [][BoardNext]_boardVars

-----------------------------------------------------------------------------
(* Two live units never belong to one job, and a live unit's record neither *)
(* confirms its cleanup nor shows a settled outcome: what the controller    *)
(* concludes from a snapshot or an observation about capacity is safe.      *)
OneUnitPerJob ==
  /\ \A a, b \in alive : a # b => JobOf[a] # JobOf[b]
  /\ \A a \in alive : board[a].state \in {"starting", "running", "unknown"} /\ ~board[a].cleanup_confirmed

-----------------------------------------------------------------------------
(* The proof of OneUnitPerJob, for every set of attempts. *)

BoardStates == {"absent", "released"} \cup Going \cup Final

BoardRows ==
  [state : BoardStates, cleanup_confirmed : BOOLEAN, lease_sequence : {0, 1} \cup 1..MaxSeq,
   lease_expires_at : Expiries \cup {0}, ready : BOOLEAN, outcome : Final \cup {None}]

BoardType == board \in [Attempts -> BoardRows] /\ alive \subseteq Attempts

(* Of the attempts of one job at most one is neither absent nor released. *)
Shut(a) == board[a].state \in {"absent", "released"}
OneOpen == \A a, b \in Attempts : a # b /\ JobOf[a] = JobOf[b] => Shut(a) \/ Shut(b)

AliveOpen ==
  \A a \in alive : board[a].state \in {"starting", "running", "unknown"} /\ ~board[a].cleanup_confirmed

(* Cleanup is unconfirmed until an outcome is. *)
GoingOpen ==
  \A a \in Attempts : board[a].state \in Going \cup {"absent"} => ~board[a].cleanup_confirmed

(* A new unit is always of a starting attempt, an admission only follows    *)
(* released attempts of its job, and cleanup is confirmed only with the     *)
(* unit gone: together these carry OneUnitPerJob from step to step.         *)
BoardInv == BoardType /\ OneOpen /\ AliveOpen /\ GoingOpen

-----------------------------------------------------------------------------
(* A step changes one record, and says how: its state, cleanup and unit. *)
Changes(a, s) ==
  /\ board' \in [Attempts -> BoardRows]
  /\ \A b \in Attempts \ {a} : board'[b] = board[b]
  /\ board'[a].state = s
  /\ s \in Going \cup {"absent"} => ~board'[a].cleanup_confirmed

(* An empty ledger satisfies the inductive invariant. *)
LEMMA InitBoard == BoardInit => BoardInv
<1>1. Unlisted \in BoardRows
  BY DEF Unlisted, BoardRows, BoardStates
<1> QED BY <1>1 DEF BoardInit, BoardInv, BoardType, OneOpen, AliveOpen, GoingOpen, Shut, Unlisted

(* Every promised step of an executor preserves it. *)
LEMMA NextBoard == BoardInv /\ [BoardNext]_boardVars => BoardInv'
<1> SUFFICES ASSUME BoardInv, [BoardNext]_boardVars PROVE BoardInv'
  OBVIOUS
<1> USE DEF BoardInv, BoardType
(* An admission or a seal opens a job all of whose other attempts are shut. *)
<1>1. ASSUME NEW a \in Attempts, board[a].state = "absent", Newest(a), NEW s, Changes(a, s), alive' = alive
      PROVE BoardInv'
  <2>1. \A b \in Attempts \ {a} : JobOf[b] = JobOf[a] => Shut(b)'
    BY <1>1 DEF Newest, Shut, Changes
  <2>2. OneOpen'
    BY <1>1, <2>1 DEF OneOpen, Shut, Changes
  <2>3. a \notin alive
    BY <1>1 DEF AliveOpen
  <2>4. AliveOpen'
    BY <1>1, <2>3 DEF AliveOpen, Changes
  <2>5. GoingOpen'
    BY <1>1 DEF GoingOpen, Changes
  <2> QED BY <1>1, <2>2, <2>4, <2>5 DEF Changes
(* A step of an open attempt leaves the others as they are. *)
<1>2. ASSUME NEW a \in Attempts, ~Shut(a), NEW s, Changes(a, s), alive' \subseteq alive,
             a \in alive' => s \in {"starting", "running", "unknown"} /\ ~board'[a].cleanup_confirmed
      PROVE BoardInv'
  <2>1. OneOpen'
    BY <1>2 DEF OneOpen, Shut, Changes
  <2>2. AliveOpen'
    BY <1>2 DEF AliveOpen, Changes
  <2>3. GoingOpen'
    BY <1>2 DEF GoingOpen, Changes
  <2> QED BY <1>2, <2>1, <2>2, <2>3 DEF Changes
<1>3. ASSUME NEW a \in Attempts, NEW exp \in Expiries, AdmitPlan(a, exp) PROVE BoardInv'
  <2>1. Changes(a, "prepared")
    BY <1>3 DEF AdmitPlan, Changes, BoardRows, BoardStates, Going, GoingOpen
  <2> QED BY <1>1, <1>3, <2>1 DEF AdmitPlan
<1>4. ASSUME NEW a \in Attempts, SealPlan(a) PROVE BoardInv'
  <2>1. Changes(a, "failed")
    BY <1>4 DEF SealPlan, Changes, BoardRows, BoardStates, Final, Going
  <2> QED BY <1>1, <1>4, <2>1 DEF SealPlan
<1>5. ASSUME NEW a \in Attempts, BecomeReady(a) PROVE BoardInv'
  <2>1. Changes(a, "prepared") /\ board'[a].cleanup_confirmed = board[a].cleanup_confirmed
    BY <1>5 DEF BecomeReady, Changes, BoardRows, GoingOpen, Going
  <2>2. a \notin alive
    BY <1>5 DEF BecomeReady, AliveOpen
  <2> QED BY <1>2, <1>5, <2>1, <2>2 DEF BecomeReady, Shut
<1>6. ASSUME NEW a \in Attempts, NEW seq \in 1..MaxSeq, NEW exp \in Expiries, ExtendLease(a, seq, exp) PROVE BoardInv'
  <2>1. Changes(a, board[a].state) /\ board'[a].cleanup_confirmed = board[a].cleanup_confirmed
    BY <1>6 DEF ExtendLease, Changes, BoardRows, GoingOpen, Going
  <2> QED BY <1>2, <1>6, <2>1 DEF ExtendLease, Shut, Going, AliveOpen
<1>7. ASSUME NEW a \in Attempts, AcceptStart(a) PROVE BoardInv'
  <2>1. Changes(a, "starting") /\ board'[a].cleanup_confirmed = board[a].cleanup_confirmed
    BY <1>7 DEF AcceptStart, Changes, BoardRows, BoardStates, Going, GoingOpen
  <2>2. a \notin alive
    BY <1>7 DEF AcceptStart, AliveOpen
  <2> QED BY <1>2, <1>7, <2>1, <2>2 DEF AcceptStart, Shut
<1>8. ASSUME NEW a \in Attempts, ConfirmStart(a) PROVE BoardInv'
  <2>1. Changes(a, "running") /\ board'[a].cleanup_confirmed = board[a].cleanup_confirmed
    BY <1>8 DEF ConfirmStart, Changes, BoardRows, BoardStates, Going, GoingOpen
  <2> QED BY <1>2, <1>8, <2>1 DEF ConfirmStart, Shut, AliveOpen
<1>9. ASSUME NEW a \in Attempts, NEW final \in Final, NEW clean \in BOOLEAN, Settle(a, final, clean) PROVE BoardInv'
  <2>1. Changes(a, final) /\ board'[a].cleanup_confirmed = clean
    BY <1>9 DEF Settle, Changes, BoardRows, BoardStates, Final, Going
  <2>2. ~Shut(a)
    BY <1>9 DEF Settle, Shut, Going
  <2> QED BY <1>2, <1>9, <2>1, <2>2 DEF Settle
<1>10. ASSUME NEW a \in Attempts, FreeAttempt(a) PROVE BoardInv'
  <2>1. Changes(a, "released")
    BY <1>10 DEF FreeAttempt, Changes, BoardRows, BoardStates, Final, Going
  <2>2. a \notin alive /\ ~Shut(a)
    BY <1>10 DEF FreeAttempt, AliveOpen, Shut, Final
  <2> QED BY <1>2, <1>10, <2>1, <2>2 DEF FreeAttempt
(* A unit is launched only of a starting attempt, whose cleanup is open. *)
<1>11. ASSUME NEW a \in Attempts, LaunchUnit(a) PROVE BoardInv'
  BY <1>11 DEF LaunchUnit, OneOpen, AliveOpen, GoingOpen, Going, Shut
<1>12. ASSUME UnitsDie PROVE BoardInv'
  BY <1>12 DEF UnitsDie, OneOpen, AliveOpen, GoingOpen, Shut
<1>13. CASE UNCHANGED boardVars
  BY <1>13 DEF boardVars, OneOpen, AliveOpen, GoingOpen, Shut
<1> QED
  BY <1>3, <1>4, <1>5, <1>6, <1>7, <1>8, <1>9, <1>10, <1>11, <1>12, <1>13 DEF BoardNext

(* An executor never lets two live units of one job exist, and never        *)
(* reports a live unit's attempt as cleaned up or settled.                  *)
THEOREM BoardSafe == BoardSpec => []OneUnitPerJob
<1>1. BoardInv => OneUnitPerJob
  BY DEF BoardInv, BoardType, OneOpen, AliveOpen, OneUnitPerJob, Shut
<1> QED BY <1>1, InitBoard, NextBoard, PTL DEF BoardSpec
=============================================================================
