----------------------- MODULE WorkloadRecords_proofs -----------------------
(* Proofs about the controller's workload rows, for every set of jobs,      *)
(* attempts and nodes and whatever the executors report.                    *)
EXTENDS WorkloadRecords, TLAPS

(* A row that does not exist holds nothing. *)
Blank == \A a \in Attempts : rec[a].state = "none" => rec[a] = NoRow

-----------------------------------------------------------------------------
(* The types of the rows *)

(* What the transactions write into a job row keeps its type. *)
LEMMA JobRowType ==
  ASSUME NEW r \in JobRows, NEW s \in JobStates, NEW c \in BOOLEAN
  PROVE  /\ [r EXCEPT !.state = s] \in JobRows
         /\ [r EXCEPT !.cancelled = c] \in JobRows
         /\ [r EXCEPT !.cancelled = c, !.state = s] \in JobRows
  BY DEF JobRows

(* The same for the row of an attempt. *)
LEMMA AttemptRowType ==
  ASSUME NEW r \in AttemptRows, NEW s \in AttemptStates, NEW l \in Nat,
         NEW o \in Results \cup {None}, NEW p \in Results \cup {None}, NEW b \in BOOLEAN
  PROVE  /\ [r EXCEPT !.state = s, !.observed = o, !.outcome = p] \in AttemptRows
         /\ [r EXCEPT !.state = s, !.outcome = p] \in AttemptRows
         /\ [r EXCEPT !.state = s, !.start_requested = b] \in AttemptRows
         /\ [r EXCEPT !.lease = l] \in AttemptRows
  BY DEF AttemptRows

(* The rows before submission and after removal are well typed. *)
LEMMA FreshRows == NoJob \in JobRows /\ NoRow \in AttemptRows
  BY DEF NoJob, NoRow, JobRows, AttemptRows, JobStates, AttemptStates

(* The empty tables are well typed. *)
LEMMA InitType == Init => TypeOK
  BY FreshRows DEF Init, TypeOK

(* Every transaction of records.py keeps the tables well typed. *)
LEMMA NextType == TypeOK /\ [Next]_recordVars => TypeOK'
<1> SUFFICES ASSUME TypeOK, [Next]_recordVars PROVE TypeOK'
  OBVIOUS
<1> USE PlanAssumption DEF TypeOK
<1>1. ASSUME NEW j \in Jobs, submit(j) PROVE TypeOK'
  BY <1>1, JobRowType DEF submit, JobStates
<1>2. ASSUME NEW j \in Jobs, cancel(j) PROVE TypeOK'
  <2> DEFINE s == IF job[j].state = "queued" THEN "cancelled" ELSE job[j].state
  <2>1. s \in JobStates
    BY DEF JobRows, JobStates, Closed, TERMINAL
  <2>2. [job[j] EXCEPT !.cancelled = TRUE, !.state = s] \in JobRows
    BY <2>1, JobRowType
  <2> QED BY <1>2, <2>2 DEF cancel
<1>3. ASSUME NEW j \in Jobs, abandon(j) PROVE TypeOK'
  <2> DEFINE a == job[j].current_attempt
  <2>1. a \in Attempts
    BY <1>3 DEF abandon, JobRows
  <2>2. PICK detail \in Details :
          rec' = [rec EXCEPT ![a] = [rec[a] EXCEPT !.state = "abandoned",
                    !.outcome = IF rec[a].outcome # None THEN rec[a].outcome
                                ELSE [state |-> "unknown", cleanup_confirmed |-> FALSE, detail |-> detail]]]
    BY <1>3 DEF abandon
  <2> DEFINE o == IF rec[a].outcome # None THEN rec[a].outcome
                  ELSE [state |-> "unknown", cleanup_confirmed |-> FALSE, detail |-> detail]
  <2>3. o \in Results \cup {None}
    BY <2>1 DEF AttemptRows, Results, ResultStates, Closed
  <2>4. [rec[a] EXCEPT !.state = "abandoned", !.outcome = o] \in AttemptRows
    BY <2>1, <2>3, AttemptRowType DEF AttemptStates
  <2>5. [job[j] EXCEPT !.cancelled = TRUE] \in JobRows
    BY JobRowType, "queued" \in JobStates DEF JobStates
  <2> QED BY <1>3, <2>1, <2>2, <2>4, <2>5 DEF abandon
<1>4. ASSUME NEW j \in Jobs, remove(j) PROVE TypeOK'
  <2>1. [NoJob EXCEPT !.state = "removed"] \in JobRows
    BY FreshRows, JobRowType DEF JobStates
  <2> QED BY <1>4, <2>1, FreshRows DEF remove
<1>5. ASSUME NEW j \in Jobs, NEW ack \in BOOLEAN, retry(j, ack) PROVE TypeOK'
  BY <1>5, JobRowType DEF retry, JobStates
<1>6. ASSUME NEW a \in Attempts, NEW ledger \in Ledgers, reserve(a, ledger) PROVE TypeOK'
  BY <1>6 DEF reserve, NoRow, JobRows, AttemptRows, JobStates, AttemptStates, Active
<1>7. ASSUME NEW a \in Attempts, NEW result \in Results, observation(a, result) PROVE TypeOK'
  <2>1. result.state \in AttemptStates
    BY DEF Results, ResultStates, AttemptStates, Active, Closed
  <2>2. result.state # "released" => result.state \in JobStates
    BY DEF Results, ResultStates, JobStates, Active, Closed
  <2>3. rec[a].outcome \in Results \cup {None}
    BY DEF AttemptRows
  <2>4. ObservedRow(rec[a], result) \in AttemptRows
    BY <2>1, <2>3, AttemptRowType DEF ObservedRow
  <2>5. ObservedJob(job[JobOf[a]], result) \in JobRows
    BY <2>2, JobRowType DEF ObservedJob
  <2> QED BY <1>7, <2>4, <2>5 DEF observation
<1>8. ASSUME NEW a \in Attempts, NEW expected, NEW state \in {"starting", "unknown"},
             transition(a, expected, state)
      PROVE TypeOK'
  <2>1. state \in AttemptStates /\ state \in JobStates
    BY DEF AttemptStates, JobStates, Active, Closed
  <2> DEFINE b == rec[a].start_requested \/ state = "starting"
  <2>2. [rec[a] EXCEPT !.state = state, !.start_requested = b] \in AttemptRows
    BY <2>1, b \in BOOLEAN, AttemptRowType
  <2>3. [job[JobOf[a]] EXCEPT !.state = state] \in JobRows
    BY <2>1, JobRowType
  <2> QED BY <1>8, <2>2, <2>3 DEF transition
<1>9. ASSUME NEW a \in Attempts, renew(a) PROVE TypeOK'
  <2>1. [rec[a] EXCEPT !.lease = rec[a].lease + 1] \in AttemptRows
    BY DEF AttemptRows
  <2> QED BY <1>9, <2>1 DEF renew
<1>10. ASSUME suspend PROVE TypeOK'
  <2>1. \A j \in Jobs : [job[j] EXCEPT !.cancelled = TRUE] \in JobRows
    BY JobRowType, "queued" \in JobStates DEF JobStates
  <2> QED BY <1>10, <2>1 DEF suspend
<1>11. ASSUME resume PROVE TypeOK'
  BY <1>11 DEF resume
<1>12. ASSUME NEW n \in Nodes, disable(n) PROVE TypeOK'
  BY <1>12 DEF disable
<1>13. CASE UNCHANGED recordVars
  BY <1>13 DEF recordVars
<1> QED
  BY <1>1, <1>2, <1>3, <1>4, <1>5, <1>6, <1>7, <1>8, <1>9, <1>10, <1>11, <1>12, <1>13 DEF Next

(* Every row and flag keeps its type in every behaviour. *)
THEOREM TypeCorrect == Spec => []TypeOK
  BY InitType, NextType, PTL DEF Spec
-----------------------------------------------------------------------------
(* The inductive invariant *)

Linked == Blank /\ ValidRecords /\ OlderReleased /\ JobMirrorsAttempt

(* The empty tables are linked. *)
LEMMA InitLinked == Init => Linked
  BY PlanAssumption DEF Init, Linked, Blank, ValidRecords, OlderReleased, JobMirrorsAttempt, Rows,
     IsCurrent, NoJob, NoRow

(* Every transaction of records.py keeps jobs and attempts linked. *)
LEMMA NextLinked == TypeOK /\ Linked /\ [Next]_recordVars => Linked'
<1> SUFFICES ASSUME TypeOK, Linked, [Next]_recordVars PROVE Linked'
  OBVIOUS
<1>0. /\ \A j \in Jobs : job[j] \in JobRows /\ (job[j].current_attempt # None => job[j].current_attempt \in Attempts)
      /\ \A a \in Attempts : JobOf[a] \in Jobs /\ rec[a] \in AttemptRows
      /\ None \notin Attempts
  BY PlanAssumption DEF TypeOK, JobRows
<1> USE DEF Linked, Blank, ValidRecords, OlderReleased, JobMirrorsAttempt, Rows, IsCurrent
<1>1. ASSUME NEW j \in Jobs, submit(j) PROVE Linked'
  BY <1>0, <1>1 DEF submit, TypeOK, JobRows, Active, Closed, TERMINAL
<1>2. ASSUME NEW j \in Jobs, cancel(j) PROVE Linked'
  BY <1>0, <1>2 DEF cancel, TypeOK, JobRows, Active, Closed, TERMINAL
<1>3. ASSUME NEW j \in Jobs, abandon(j) PROVE Linked'
  BY <1>0, <1>3 DEF abandon, TypeOK, JobRows, AttemptRows, Active, Closed, TERMINAL
<1>4. ASSUME NEW j \in Jobs, remove(j) PROVE Linked'
  <2>1. /\ \A k \in Jobs : job'[k] = IF k = j THEN [NoJob EXCEPT !.state = "removed"] ELSE job[k]
        /\ \A a \in Attempts : rec'[a] = IF JobOf[a] = j THEN NoRow ELSE rec[a]
    BY <1>4 DEF remove, TypeOK
  <2>2. \A k \in Jobs : Rows(k)' = IF k = j THEN {} ELSE Rows(k)
    BY <2>1 DEF NoRow
  <2>3. Blank'
    BY <2>1
  <2>4. ValidRecords'
    BY <1>0, <2>1, <2>2 DEF NoJob
  <2>5. OlderReleased'
    BY <1>0, <2>1 DEF NoRow
  <2>6. JobMirrorsAttempt'
    <3> SUFFICES ASSUME NEW k \in Jobs, job'[k].current_attempt # None
                 PROVE  LET a == job'[k].current_attempt IN rec'[a] = rec[a] /\ job'[k] = job[k]
      BY <1>0, <2>1
    <3> QED BY <1>0, <2>1 DEF NoJob
  <2> QED BY <2>3, <2>4, <2>5, <2>6
<1>5. ASSUME NEW j \in Jobs, NEW ack \in BOOLEAN, retry(j, ack) PROVE Linked'
  BY <1>0, <1>5 DEF retry, TypeOK, JobRows, Active, Closed, TERMINAL
<1>6. ASSUME NEW a \in Attempts, NEW ledger \in Ledgers, reserve(a, ledger) PROVE Linked'
  <2> DEFINE j == JobOf[a]
             row == [NoRow EXCEPT !.state = "preparing", !.lease = 1, !.ledger_id = ledger]
  <2>1. /\ rec[a].state = "none" /\ job[j].state = "queued" /\ job[j].generation + 1 = GenOf[a]
        /\ j \in Jobs /\ job[j].generation \in Nat /\ GenOf \in [Attempts -> Nat]
    BY <1>0, <1>6, PlanAssumption DEF reserve, JobRows
  <2>2. /\ \A b \in Attempts : rec'[b] = IF b = a THEN row ELSE rec[b]
        /\ \A k \in Jobs : k # j => job'[k] = job[k]
        /\ job'[j].state = "preparing" /\ job'[j].current_attempt = a /\ job'[j].generation = GenOf[a]
    BY <1>0, <1>6, <2>1 DEF reserve, TypeOK, JobRows
  <2>3. row.state = "preparing"
    BY DEF NoRow
  (* The queued job's earlier attempt, if it has one, is released. *)
  <2>4. \A b \in Attempts : JobOf[b] = j => rec[b].state \in {"none", "released"}
    BY <1>0, <2>1 DEF TypeOK, AttemptRows, AttemptStates, Active, Closed, TERMINAL
  <2> HIDE DEF row
  <2>5. Blank'
    BY <2>2, <2>3
  <2>6. ValidRecords'
    <3> SUFFICES ASSUME NEW k \in Jobs
                 PROVE  /\ job'[k].current_attempt # None =>
                             /\ job'[k].current_attempt \in Rows(k)'
                             /\ GenOf[job'[k].current_attempt] = job'[k].generation
                        /\ \A b, c \in Rows(k)' : GenOf[b] <= job'[k].generation /\ (GenOf[b] = GenOf[c] => b = c)
      OBVIOUS
    <3>1. Rows(k)' = IF k = j THEN Rows(j) \cup {a} ELSE Rows(k)
      BY <2>1, <2>2, <2>3
    <3>2. \A b \in Rows(j) : b # a /\ GenOf[b] <= job[j].generation /\ GenOf[b] \in Nat
      BY <2>1
    <3>3. CASE k = j
      BY <2>1, <2>2, <3>1, <3>2, <3>3
    <3>4. CASE k # j
      BY <2>2, <3>1, <3>4
    <3> QED BY <3>3, <3>4
  <2>7. OlderReleased'
    BY <1>0, <2>1, <2>2, <2>4
  <2>8. JobMirrorsAttempt'
    <3> SUFFICES ASSUME NEW k \in Jobs, job'[k].current_attempt # None
                 PROVE  LET b == job'[k].current_attempt IN
                        /\ rec'[b].state \in Active \cup Closed => job'[k].state = rec'[b].state
                        /\ rec'[b].state = "abandoned" => job'[k].state = "unknown" /\ job'[k].cancelled
                        /\ rec'[b].state = "released" => job'[k].state \in Closed \cup {"queued"}
      OBVIOUS
    <3>1. CASE k = j
      BY <2>2, <2>3, <3>1
    <3>2. CASE k # j
      BY <1>0, <2>1, <2>2, <3>2
    <3> QED BY <3>1, <3>2
  <2> QED BY <2>5, <2>6, <2>7, <2>8
<1>7. ASSUME NEW a \in Attempts, NEW result \in Results, observation(a, result) PROVE Linked'
  BY <1>0, <1>7, PlanAssumption DEF observation, ObservedRow, ObservedJob, Fits, Results, ResultStates, TypeOK, JobRows, AttemptRows, Active, Closed, TERMINAL
<1>8. ASSUME NEW a \in Attempts, NEW expected \in Active, NEW state \in {"starting", "unknown"},
             transition(a, expected, state)
      PROVE Linked'
  BY <1>0, <1>8, PlanAssumption DEF transition, TypeOK, JobRows, AttemptRows, Active, Closed, TERMINAL
<1>9. ASSUME NEW a \in Attempts, renew(a) PROVE Linked'
  BY <1>0, <1>9 DEF renew, TypeOK, AttemptRows
<1>10. ASSUME suspend PROVE Linked'
  BY <1>0, <1>10 DEF suspend, TypeOK, JobRows
<1>11. ASSUME resume PROVE Linked'
  BY <1>11 DEF resume
<1>12. ASSUME NEW n \in Nodes, disable(n) PROVE Linked'
  BY <1>12 DEF disable
<1>13. CASE UNCHANGED recordVars
  BY <1>13 DEF recordVars
<1>14. "prepared" \in Active
  BY DEF Active
<1> HIDE DEF Linked
<1> QED
  BY <1>1, <1>2, <1>3, <1>4, <1>5, <1>6, <1>7, <1>8, <1>9, <1>10, <1>11, <1>12, <1>13, <1>14 DEF Next

(* A job never has two attempts that hold capacity: whatever is submitted,  *)
(* retried, cancelled, abandoned or reported late, an attempt that is not   *)
(* its job's current one is released.  A reservation does not look at the   *)
(* row it supersedes, so the proof carries what the job's state says of     *)
(* that row (JobMirrorsAttempt) and that the row is the job's own           *)
(* (ValidRecords).                                                          *)
THEOREM OneHolderPerJob == Spec => []OlderReleased
  BY InitType, NextType, InitLinked, NextLinked, PTL DEF Spec, Linked

(* What a backup's validate_records demands of the generations holds in     *)
(* every state, not only in the quiescent ones it accepts.                  *)
THEOREM RecordsValid == Spec => []ValidRecords
  BY InitType, NextType, InitLinked, NextLinked, PTL DEF Spec, Linked

(* A job always shows the state of its current attempt. *)
THEOREM JobShowsAttempt == Spec => []JobMirrorsAttempt
  BY InitType, NextType, InitLinked, NextLinked, PTL DEF Spec, Linked

-----------------------------------------------------------------------------
(* Outcomes *)

OutcomeKept(a) ==
  rec'[a].state # "none" =>
    /\ rec[a].outcome # None => rec'[a].outcome # None
         /\ rec'[a].outcome.state = rec[a].outcome.state /\ rec'[a].outcome.detail = rec[a].outcome.detail
    /\ rec[a].state \in {"released", "abandoned"} => rec'[a] = rec[a]

(* No transaction changes a recorded outcome or a closed row. *)
LEMMA StepKeeps == TypeOK /\ Linked /\ [Next]_recordVars => \A a \in Attempts : OutcomeKept(a)
<1> SUFFICES ASSUME TypeOK, Linked, [Next]_recordVars, NEW a \in Attempts PROVE OutcomeKept(a)
  OBVIOUS
<1> USE DEF OutcomeKept, TypeOK
<1>0. rec[a].state = "none" => rec[a].outcome = None
  BY DEF Linked, Blank, NoRow
<1>1. ASSUME UNCHANGED rec PROVE OutcomeKept(a)
  BY <1>1
<1>2. ASSUME NEW j \in Jobs, abandon(j) PROVE OutcomeKept(a)
  BY <1>2 DEF abandon, AttemptRows
<1>3. ASSUME NEW j \in Jobs, remove(j) PROVE OutcomeKept(a)
  BY <1>3 DEF remove, NoRow
<1>4. ASSUME NEW b \in Attempts, NEW ledger \in Ledgers, reserve(b, ledger) PROVE OutcomeKept(a)
  BY <1>0, <1>4 DEF reserve
<1>5. ASSUME NEW b \in Attempts, NEW result \in Results, observation(b, result) PROVE OutcomeKept(a)
  <2>1. CASE b # a
    BY <1>5, <2>1 DEF observation
  <2>2. CASE b = a
    <3>1. rec'[a] = ObservedRow(rec[a], result) /\ Fits(rec[a], job[JobOf[a]], result)
      BY <1>5, <2>2 DEF observation
    <3>2. rec[a].state \notin {"released", "abandoned"}
      BY <3>1 DEF Fits
    <3>3. rec'[a].outcome = IF Decided(result) THEN result ELSE rec[a].outcome
      BY <3>1 DEF ObservedRow, AttemptRows
    <3>4. result # None
      BY NoneAssumption
    <3> QED BY <3>1, <3>2, <3>3, <3>4 DEF Fits
  <2> QED BY <2>1, <2>2
<1>6. ASSUME NEW b \in Attempts, NEW expected \in Active, NEW state, transition(b, expected, state) PROVE OutcomeKept(a)
  BY <1>6 DEF transition, AttemptRows, Active
<1>7. ASSUME NEW b \in Attempts, renew(b) PROVE OutcomeKept(a)
  BY <1>7 DEF renew, AttemptRows
<1>8. "prepared" \in Active
  BY DEF Active
<1> HIDE DEF OutcomeKept
<1> QED
  BY <1>1, <1>2, <1>3, <1>4, <1>5, <1>6, <1>7, <1>8
     DEF Next, submit, cancel, retry, suspend, resume, disable, recordVars

(* Once recorded, an attempt's outcome is final, and a released or          *)
(* abandoned row never changes until its job is removed.                    *)
THEOREM OutcomesFinal == Spec => OutcomeFixed
<1>1. TypeOK /\ Linked /\ [Next]_recordVars => [\A a \in Attempts : OutcomeKept(a)]_recordVars
  BY StepKeeps
<1> QED BY <1>1, InitType, NextType, InitLinked, NextLinked, PTL DEF Spec, OutcomeFixed, OutcomeKept
=============================================================================
