--------------------- MODULE ContributorWorkloads_proofs ---------------------
(* Proofs about the controller's workload loop over executors that may      *)
(* answer late, never, or after they were installed again, for every set of *)
(* jobs, attempts and nodes.                                                *)
EXTENDS ContributorWorkloads, WorkloadRecords_proofs, TLAPS

-----------------------------------------------------------------------------
(* Types *)

(* What an executor lists of an attempt it has taken up. *)
Listed ==
  {r \in [state : Board!Going \cup Board!Final \cup {"released"}, cleanup_confirmed : BOOLEAN,
          lease_sequence : Nat, lease_expires_at : {0}, ready : BOOLEAN, outcome : Closed \cup {None}] :
     r.state = "released" => r.outcome \in Closed}

Pages   == UNION {[S -> Listed] : S \in SUBSET Attempts}
Answers == UNION {[S -> Listed \cup {Refused}] : S \in SUBSET Attempts}
Leases  == UNION {[S -> Nat] : S \in SUBSET Attempts}

Passes ==
  [pc : {"idle", "reconcile", "observe", "advance", "renew", "start", "end"}, ledger : Nat \cup {None},
   page : Pages, held : SUBSET Attempts, renew : SUBSET Attempts, start : SUBSET Attempts, bound : BOOLEAN]

Sent ==
  [action : Actions, ledger : Nat \cup {None}, delivered : BOOLEAN, todo : SUBSET Attempts,
   items : SUBSET Attempts, lease : Leases, results : Answers]

Rest == [action : Actions, ledger : Nat \cup {None}, todo : SUBSET Attempts, lease : Leases]

BoardTypes == board \in [Attempts -> Listed \cup {Board!Unlisted}] /\ alive \subseteq Attempts

(* The ledgers of the node's present executor and of the ones before it. *)
Past(n) == 1..ledger[n] \cup {None}

PassOK(n, c) ==
  /\ c \in Passes /\ c.ledger \in Past(n)
  /\ DOMAIN c.page \subseteq On(n) /\ c.held \cup c.renew \cup c.start \subseteq On(n)

MsgOK(n, m) ==
  /\ m \in Sent /\ m.ledger \in Past(n)
  /\ m.items \subseteq On(n) /\ m.todo \subseteq m.items
  /\ DOMAIN m.results = m.items \ m.todo /\ DOMAIN m.lease = m.items

RestOK(n, m) == m \in Rest /\ m.ledger \in Past(n) /\ m.todo \subseteq On(n) /\ m.todo \subseteq DOMAIN m.lease

LedgersOK == ledger \in [Nodes -> 1..MaxLedgers]
LiveOK    == live \in [Nodes -> Nat \cup {None}] /\ \A n \in Nodes : live[n] \in Past(n)
CtlOK     == ctl \in [Nodes -> Passes] /\ \A n \in Nodes : PassOK(n, ctl[n])
MsgsOK    == msg \in [Nodes -> Sent \cup {None}] /\ \A n \in Nodes : msg[n] # None => MsgOK(n, msg[n])
LateOK    == late \in [Nodes -> SUBSET Rest] /\ \A n \in Nodes : \A m \in late[n] : RestOK(n, m)
QueuedOK  == queued \in [Nodes -> SUBSET Attempts] /\ \A n \in Nodes : queued[n] \subseteq On(n)

LoopTypes == LedgersOK /\ LiveOK /\ CtlOK /\ MsgsOK /\ LateOK /\ QueuedOK

(* Attempts wait for dispatch only while the loop schedules, and a pass     *)
(* over a node is under way only while it does not.                         *)
Phased ==
  \A n \in Nodes : (queued[n] # {} => phase = "schedule") /\ (ctl[n].pc # "idle" => phase = "nodes")

(* An outcome is one of the final states. *)
OutcomesClosed == \A a \in Attempts : rec[a].outcome # None => rec[a].outcome.state \in Closed

-----------------------------------------------------------------------------
(* Where an attempt can still come to life *)

(* A command that lets the executor that is installed now take a up. *)
Takes(m, a) == m.action \in {"prepare", "reject_absent"} /\ a \in m.todo /\ m.ledger = ledger[NodeOf[a]]

Asked(a) ==
  LET n == NodeOf[a] IN (msg[n] # None /\ Takes(msg[n], a)) \/ \E m \in late[n] : Takes(m, a)

Fresh(a) == board[a].state = "absent" /\ a \notin queued[NodeOf[a]] /\ ~Asked(a)

(* No executor holds a, and none will take it up: not a pending dispatch,   *)
(* and no command on its way, however late.                                 *)
Gone(a) == board[a].state = "released" \/ Fresh(a)

(* The controller has once placed a, or its job is removed. *)
Touched(a) == rec[a].state # "none" \/ job[JobOf[a]].state = "removed"

(* A record that no longer changes but for its release, and its outcome. *)
Ended(r) == r.state \in TERMINAL \cup {"released"} \/ (r.state = "unknown" /\ r.cleanup_confirmed)
End(r)   == IF r.state = "released" THEN r.outcome ELSE r.state

(* A pending reply or a pass's snapshot says that a ended in state s. *)
Ends(a, s) ==
  \E n \in Nodes :
    \/ /\ msg[n] # None /\ a \in DOMAIN msg[n].results /\ msg[n].results[a] # Refused
       /\ Ended(msg[n].results[a]) /\ End(msg[n].results[a]) = s
    \/ a \in DOMAIN ctl[n].page /\ Ended(ctl[n].page[a]) /\ End(ctl[n].page[a]) = s

-----------------------------------------------------------------------------
(* The inductive invariant *)

AliveUnsettled ==
  \A a \in alive : board[a].state \in {"starting", "running"} \/ (board[a].state = "unknown" /\ ~board[a].cleanup_confirmed)

UntouchedFresh == \A a \in Attempts : Touched(a) \/ Fresh(a)

QueuedAbsent == \A n \in Nodes : \A a \in queued[n] : board[a].state = "absent" /\ ~Asked(a)

ReleasedGone == \A a \in Attempts : rec[a].state = "released" => Gone(a)

(* A release that is reported but not yet recorded. *)
ReportedGone ==
  \A n \in Nodes :
    /\ msg[n] # None => \A a \in DOMAIN msg[n].results : msg[n].results[a].state = "released" => Gone(a) /\ Touched(a)
    /\ \A a \in DOMAIN ctl[n].page : ctl[n].page[a].state = "released" => Gone(a) /\ Touched(a)

OneNotGone == \A a, b \in Attempts : a # b /\ JobOf[a] = JobOf[b] => Gone(a) \/ Gone(b)

RowsInv == TypeOK /\ Linked /\ OutcomesClosed
BoardInv == BoardTypes /\ AliveUnsettled
GoneInv == UntouchedFresh /\ QueuedAbsent /\ ReleasedGone /\ ReportedGone /\ OneNotGone

CWInv == RowsInv /\ BoardInv /\ LoopTypes /\ Phased /\ GoneInv

-----------------------------------------------------------------------------
(* Rows *)

(* How a report, a doubt or a start may move the row of an attempt. *)
Moves(r, s) ==
  /\ r.state \in Active \cup Closed /\ s.state \in Active \cup Closed \cup {"released"}
  /\ s.outcome # None => s.outcome.state \in Closed
  /\ s.state = "released" => s.outcome # None
  /\ s.ledger_id = r.ledger_id /\ s.lease = r.lease /\ (r.start_requested => s.start_requested)

(* Saving such moves of several rows, each with its job, keeps the tables   *)
(* linked, forgets no attempt, and releases only what a new row releases.   *)
LEMMA SaveRows ==
  ASSUME RowsInv, NEW D \in SUBSET Attempts, NEW rows \in [D -> AttemptRows], Save(rows),
         \A a \in D : rows[a] = rec[a] \/ Moves(rec[a], rows[a])
  PROVE  /\ RowsInv' /\ \A a \in Attempts : Touched(a) => Touched(a)'
         /\ \A a \in Attempts : rec'[a].state = "released" => rec[a].state = "released" \/ (a \in D /\ rows[a].state = "released")
         /\ \A a \in Attempts : rec'[a] = IF a \in D THEN rows[a] ELSE rec[a]
         /\ disabled' = disabled
<1>0. /\ \A j \in Jobs : job[j] \in JobRows /\ (job[j].current_attempt # None => job[j].current_attempt \in Attempts)
      /\ \A a \in Attempts : JobOf[a] \in Jobs /\ rec[a] \in AttemptRows
      /\ None \notin Attempts /\ DOMAIN rows = D
  BY PlanAssumption DEF RowsInv, TypeOK, JobRows
<1>1. \A a \in Attempts : rec'[a] = IF a \in D THEN rows[a] ELSE rec[a]
  BY <1>0 DEF Save
<1>2. /\ \A j \in Jobs : job'[j] = LET a == job[j].current_attempt IN
           IF a \in D /\ rows[a] # rec[a] THEN [job[j] EXCEPT !.state = Shown(rows[a])] ELSE job[j]
      /\ disabled' = disabled /\ suspended' = suspended
      /\ job' \in [Jobs -> {job'[j] : j \in Jobs}]
  BY <1>0 DEF Save
<1>3. \A a \in D : rows[a] # rec[a] => /\ rec[a].state \in Active \cup Closed /\ IsCurrent(a)
                                       /\ Shown(rows[a]) \in Active \cup Closed
  BY <1>0 DEF Moves, RowsInv, Linked, OlderReleased, Shown, Active, Closed, TERMINAL
<1>4. \A j \in Jobs : job'[j] \in JobRows
  <2> SUFFICES ASSUME NEW j \in Jobs PROVE job'[j] \in JobRows
    OBVIOUS
  <2> DEFINE a == job[j].current_attempt
  <2>1. CASE a \in D /\ rows[a] # rec[a]
    <3>1. Shown(rows[a]) \in JobStates
      BY <1>3, <2>1 DEF JobStates
    <3>2. [job[j] EXCEPT !.state = Shown(rows[a])] \in JobRows
      BY <1>0, <3>1 DEF JobRows
    <3> QED BY <1>2, <2>1, <3>2
  <2>2. CASE ~(a \in D /\ rows[a] # rec[a])
    BY <1>0, <1>2, <2>2
  <2> QED BY <2>1, <2>2
<1>5. TypeOK'
  <2>1. job' \in [Jobs -> JobRows]
    BY <1>2, <1>4
  <2>2. rec' \in [Attempts -> AttemptRows]
    BY <1>0 DEF Save
  <2> QED BY <1>2, <2>1, <2>2 DEF RowsInv, TypeOK
<1>6. /\ \A j \in Jobs : job'[j].current_attempt = job[j].current_attempt /\ job'[j].generation = job[j].generation
                         /\ job'[j].cancelled = job[j].cancelled
      /\ \A a \in Attempts : rec'[a].state = "none" <=> rec[a].state = "none"
  BY <1>0, <1>1, <1>2, <1>3 DEF JobRows, Moves, Active, Closed, TERMINAL
<1>7. \A j \in Jobs : Rows(j)' = Rows(j)
  BY <1>6 DEF Rows
<1>8. Linked'
  <2>1. Blank'
    BY <1>0, <1>1, <1>3, <1>6 DEF RowsInv, Linked, Blank, Active, Closed, TERMINAL
  <2>2. ValidRecords'
    BY <1>6, <1>7 DEF RowsInv, Linked, ValidRecords
  <2>3. OlderReleased'
    BY <1>0, <1>1, <1>3, <1>6 DEF RowsInv, Linked, OlderReleased, IsCurrent, Active, Closed, TERMINAL
  <2>4. JobMirrorsAttempt'
    <3> SUFFICES ASSUME NEW j \in Jobs, job'[j].current_attempt # None
                 PROVE  LET b == job'[j].current_attempt IN
                        /\ rec'[b].state \in Active \cup Closed => job'[j].state = rec'[b].state
                        /\ rec'[b].state = "abandoned" => job'[j].state = "unknown" /\ job'[j].cancelled
                        /\ rec'[b].state = "released" => job'[j].state \in Closed \cup {"queued"}
      BY DEF JobMirrorsAttempt
    <3> DEFINE b == job[j].current_attempt
    <3>1. b \in Attempts /\ job'[j].current_attempt = b
      BY <1>0, <1>6
    <3>2. CASE b \in D /\ rows[b] # rec[b]
      <4>1. job'[j].state = Shown(rows[b]) /\ rec'[b] = rows[b] /\ Moves(rec[b], rows[b])
        BY <1>0, <1>1, <1>2, <3>1, <3>2 DEF JobRows
      <4> QED BY <3>1, <4>1 DEF Shown, Moves, Active, Closed, TERMINAL
    <3>3. CASE ~(b \in D /\ rows[b] # rec[b])
      <4>1. job'[j] = job[j] /\ rec'[b] = rec[b]
        BY <1>1, <1>2, <3>1, <3>3
      <4> QED BY <3>1, <4>1 DEF RowsInv, Linked, JobMirrorsAttempt
    <3> QED BY <3>2, <3>3
  <2> QED BY <2>1, <2>2, <2>3, <2>4 DEF Linked
<1>9. OutcomesClosed'
  BY <1>0, <1>1 DEF RowsInv, OutcomesClosed, Moves
<1>10. ASSUME NEW a \in Attempts, Touched(a) PROVE Touched(a)'
  <2>1. CASE rec[a].state # "none"
    BY <1>6, <2>1 DEF Touched
  <2>2. CASE job[JobOf[a]].state = "removed"
    <3> DEFINE j == JobOf[a]  b == job[j].current_attempt
    <3>1. j \in Jobs
      BY <1>0
    <3>2. b \in D => rows[b] = rec[b]
      <4> SUFFICES ASSUME b \in D, rows[b] # rec[b] PROVE FALSE
        OBVIOUS
      <4>1. rec[b].state \in Active \cup Closed /\ b \in Attempts
        BY <1>3
      <4>2. job[j].state = rec[b].state
        BY <1>0, <3>1, <4>1 DEF RowsInv, Linked, JobMirrorsAttempt
      <4> QED BY <2>2, <4>1, <4>2 DEF Active, Closed, TERMINAL
    <3>3. job'[j] = job[j]
      BY <1>2, <3>1, <3>2
    <3> QED BY <2>2, <3>3 DEF Touched
  <2> QED BY <1>10, <2>1, <2>2 DEF Touched
<1> QED BY <1>1, <1>2, <1>5, <1>8, <1>9, <1>10 DEF RowsInv

(* Doubt moves only a row that is open. *)
LEMMA DoubtedMoves ==
  ASSUME NEW r \in AttemptRows, r.outcome # None => r.outcome.state \in Closed
  PROVE  /\ Doubted(r) \in AttemptRows /\ Doubted(r).outcome = r.outcome
         /\ Doubted(r) = r \/ (r.state \in Active /\ Doubted(r).state = "unknown" /\ Moves(r, Doubted(r)))
  BY DEF Doubted, AttemptRows, AttemptStates, Moves, Active, Closed, TERMINAL

(* A listed record, as the result that is stored of it. *)
LEMMA ResultType ==
  ASSUME Detail \in Details, NEW r \in Listed
  PROVE  /\ Result(r.state, r) \in Results
         /\ r.state = "released" => Result(r.outcome, r) \in Results /\ r.outcome \in Closed
  BY DEF Listed, Result, Results, ResultStates, Closed, TERMINAL, Board!Going, Board!Final

(* Storing one result moves an open row, and its outcome stays a final one. *)
LEMMA ObservedMoves ==
  ASSUME NEW r \in AttemptRows, r.outcome # None => r.outcome.state \in Closed, NEW x \in Results
  PROVE  LET s == ObservedRow(r, x) IN
         /\ s \in AttemptRows /\ s.state = x.state
         /\ s.outcome # None => s.outcome.state \in Closed
         /\ s.outcome = IF Decided(x) THEN x ELSE r.outcome
         /\ s.ledger_id = r.ledger_id /\ s.lease = r.lease /\ s.start_requested = r.start_requested
<1>1. x.state \in AttemptStates
  BY DEF Results, ResultStates, AttemptStates, Active, Closed
<1>2. ObservedRow(r, x) \in AttemptRows
  BY <1>1 DEF ObservedRow, AttemptRows
<1>3. /\ ObservedRow(r, x).state = x.state
      /\ ObservedRow(r, x).outcome = IF Decided(x) THEN x ELSE r.outcome
  BY DEF ObservedRow, AttemptRows
<1>4. Decided(x) => x.state \in Closed
  BY DEF Decided, Closed
<1>5. LET s == ObservedRow(r, x) IN
      s.ledger_id = r.ledger_id /\ s.lease = r.lease /\ s.start_requested = r.start_requested
  BY DEF ObservedRow, AttemptRows
<1> QED BY <1>2, <1>3, <1>4, <1>5

(* An acceptable report moves the row, and releases it only when it is of a *)
(* release.                                                                 *)
LEMMA SeenMoves ==
  ASSUME RowsInv, Detail \in Details, NEW a \in Attempts, NEW r \in Listed, NEW l, Accepts(a, r, l)
  PROVE  LET s == Seen(rec[a], r) IN
         /\ s \in AttemptRows /\ (s = rec[a] \/ Moves(rec[a], s))
         /\ s.outcome # None => s.outcome.state \in Closed
         /\ s.state = "released" => rec[a].state = "released" \/ r.state = "released"
         /\ s.outcome = rec[a].outcome \/ (Ended(r) /\ s.outcome.state = End(r))
<1> DEFINE row == rec[a]  s == Seen(row, r)  j == job[JobOf[a]]
<1>1. row \in AttemptRows /\ (row.outcome # None => row.outcome.state \in Closed)
  BY DEF RowsInv, TypeOK, OutcomesClosed
<1>2. CASE row.state = "released"
  BY <1>1, <1>2 DEF Seen
<1>3. CASE row.state # "released" /\ r.state = "released"
  <2> DEFINE first == Result(r.outcome, r)  last == Result("released", r)  mid == ObservedRow(row, first)
  <2>1. Fits(row, j, first) /\ Fits(mid, ObservedJob(j, first), last)
    BY <1>3 DEF Accepts
  <2>2. first \in Results /\ last \in Results /\ last.state = "released" /\ first.state = r.outcome
    BY <1>3, ResultType DEF Result
  <2>3. s = ObservedRow(mid, last)
    BY <1>3 DEF Seen
  <2>4. /\ mid \in AttemptRows /\ (mid.outcome # None => mid.outcome.state \in Closed)
        /\ mid.outcome \in {first, row.outcome}
        /\ mid.ledger_id = row.ledger_id /\ mid.lease = row.lease /\ mid.start_requested = row.start_requested
    BY <1>1, <2>2, ObservedMoves
  <2>5. /\ s \in AttemptRows /\ s.state = "released" /\ (s.outcome # None => s.outcome.state \in Closed)
        /\ s.ledger_id = mid.ledger_id /\ s.lease = mid.lease /\ s.start_requested = mid.start_requested
    BY <2>2, <2>3, <2>4, ObservedMoves
  <2>6. s.outcome = mid.outcome /\ mid.outcome # None
    <3>1. ~Decided(last) /\ mid.outcome # None
      BY <2>1, <2>2 DEF Fits, Decided, TERMINAL
    <3> HIDE DEF mid, last
    <3> QED BY <2>3, <2>4, <3>1 DEF ObservedRow, AttemptRows
  <2>7. row.state \in Active \cup Closed
    BY <1>1, <2>1 DEF Fits, AttemptRows, AttemptStates
  <2>8. s.outcome = row.outcome \/ (Ended(r) /\ s.outcome.state = End(r))
    BY <1>3, <2>2, <2>4, <2>6 DEF Ended, End
  <2>9. Moves(row, s)
    BY <2>4, <2>5, <2>6, <2>7 DEF Moves
  <2> QED BY <1>3, <2>5, <2>8, <2>9
<1>4. CASE row.state # "released" /\ r.state # "released"
  <2> DEFINE x == Result(r.state, r)
  <2>1. Fits(row, j, x)
    BY <1>4 DEF Accepts
  <2>2. x \in Results /\ x.state = r.state
    BY ResultType DEF Result
  <2>3. s = ObservedRow(row, x)
    BY <1>4 DEF Seen
  <2>4. /\ s \in AttemptRows /\ s.state = r.state /\ (s.outcome # None => s.outcome.state \in Closed)
        /\ s.outcome = IF Decided(x) THEN x ELSE row.outcome
        /\ s.ledger_id = row.ledger_id /\ s.lease = row.lease /\ s.start_requested = row.start_requested
    BY <1>1, <2>2, <2>3, ObservedMoves
  <2>5. row.state \in Active \cup Closed
    BY <1>1, <2>1 DEF Fits, AttemptRows, AttemptStates
  <2>6. r.state \in Active \cup Closed
    BY <1>4 DEF Listed, Board!Going, Board!Final, Active, Closed, TERMINAL
  <2>7. Decided(x) => Ended(r) /\ x.state = End(r)
    BY <1>4 DEF Decided, Result, Ended, End
  <2>8. Moves(row, s)
    BY <1>4, <2>4, <2>5, <2>6 DEF Moves
  <2> QED BY <1>4, <2>4, <2>7, <2>8
<1> QED BY <1>2, <1>3, <1>4

(* ... also when the batch it came in is in doubt. *)
LEMMA DoubtedSeenMoves ==
  ASSUME NEW r \in AttemptRows, NEW s \in AttemptRows, s = r \/ Moves(r, s),
         s.outcome # None => s.outcome.state \in Closed
  PROVE  /\ Doubted(s) \in AttemptRows /\ (Doubted(s) = r \/ Moves(r, Doubted(s)))
         /\ Doubted(s).outcome # None => Doubted(s).outcome.state \in Closed
         /\ Doubted(s).state = "released" => s.state = "released"
         /\ Doubted(s).outcome = s.outcome
<1>1. CASE Doubted(s) = s
  BY <1>1
<1>2. CASE s.state \in Active /\ Doubted(s).state = "unknown" /\ Moves(s, Doubted(s))
  BY <1>2, DoubtedMoves DEF Moves
<1> QED BY <1>1, <1>2, DoubtedMoves

(* A queued job's attempt is placed. *)
Placed(a) == rec[a].state = "none" /\ job[JobOf[a]].state = "queued" /\ rec'[a].state = "preparing"

(* What a step may do to one row: reserve it in the ledger its node shows,  *)
(* delete it once it is released or abandoned, or carry it on, with its     *)
(* ledger, no lower lease, the intent to start, and an outcome that was     *)
(* reported.                                                                *)
RowKept(a) ==
  LET r == rec[a]  s == rec'[a]  n == NodeOf[a] IN
  \/ r.state = "none" /\ s.state = "none"
  \/ Placed(a) /\ s.ledger_id = live[n] /\ live[n] # None /\ s.lease = 1 /\ s.outcome = None
  \/ /\ r.state # "none" /\ s.state # "none" /\ s.ledger_id = r.ledger_id /\ r.lease <= s.lease
     /\ r.start_requested => s.start_requested
     /\ r.state = "abandoned" => s.state = "abandoned"
     /\ s.state = "abandoned" => r.state = "abandoned" \/ n \in disabled
     /\ s.state # "abandoned" => s.outcome = r.outcome \/ Ends(a, s.outcome.state)
  \/ r.state \in {"released", "abandoned"} /\ s.state = "none"

(* What a new row of a may say: a release of what is gone, and an outcome   *)
(* that it had or that was reported.                                        *)
Told(a, s) ==
  /\ s.state = "released" => rec[a].state = "released" \/ Gone(a)
  /\ s.outcome = rec[a].outcome \/ Ends(a, s.outcome.state)

(* What a step must keep of the rows: their links, the attempts it knows,   *)
(* and that only what is gone is released.                                  *)
RowsKept ==
  /\ RowsInv' /\ (\A a \in Attempts : Touched(a) => Touched(a)')
  /\ (\A a \in Attempts : rec'[a].state = "released" => Gone(a))
  /\ disabled \subseteq disabled' /\ \A a \in Attempts : RowKept(a)

LEMMA SameRow ==
  ASSUME RowsInv, NEW a \in Attempts, rec'[a] = rec[a]
  PROVE  RowKept(a)
<1>1. rec[a].lease \in Nat
  BY DEF RowsInv, TypeOK, AttemptRows
<1> QED BY <1>1 DEF RowKept

(* What a pass or a command holds of an attempt is what an executor listed. *)
LEMMA PageRow ==
  ASSUME LoopTypes, NEW n \in Nodes, NEW a \in DOMAIN ctl[n].page
  PROVE  ctl[n].page[a] \in Listed /\ a \in On(n) /\ a \in Attempts
<1>1. ctl[n].page \in Pages /\ a \in On(n)
  BY DEF LoopTypes, CtlOK, PassOK, Passes
<1> QED BY <1>1 DEF Pages, On

LEMMA AnswerRow ==
  ASSUME LoopTypes, NEW n \in Nodes, msg[n] # None, NEW a \in DOMAIN msg[n].results
  PROVE  msg[n].results[a] \in Listed \cup {Refused} /\ a \in On(n) /\ a \in Attempts
<1>1. msg[n].results \in Answers /\ a \in On(n)
  BY DEF LoopTypes, MsgsOK, MsgOK, Sent
<1> QED BY <1>1 DEF Answers, On

(* A step that leaves the rows alone keeps them. *)
LEMMA RowsUnchanged ==
  ASSUME RowsInv, ReleasedGone, UNCHANGED recordVars
  PROVE  RowsKept
<1>1. \A a \in Attempts : RowKept(a)
  BY SameRow DEF recordVars
<1> QED
  BY <1>1 DEF RowsKept, ReleasedGone, recordVars, RowsInv, TypeOK, Linked, Blank, ValidRecords, OlderReleased,
     JobMirrorsAttempt, Rows, IsCurrent, OutcomesClosed, Touched

(* Submissions, cancellations, retries, abandonments, removals, revocations. *)
LEMMA UserRows ==
  ASSUME LoopAssumption, RowsInv, ReleasedGone, user
  PROVE  RowsKept
<1>0. [Next]_recordVars
  BY DEF user, LoopAssumption, Next
<1>1. TypeOK' /\ Linked'
  BY <1>0, NextType, NextLinked DEF RowsInv
<1>2. ASSUME UNCHANGED rec, \A j \in Jobs : job[j].state = "removed" => job'[j].state = "removed", disabled \subseteq disabled'
      PROVE  RowsKept
  <2>1. \A a \in Attempts : JobOf[a] \in Jobs /\ RowKept(a)
    BY <1>2, PlanAssumption, SameRow
  <2> QED BY <1>1, <1>2, <2>1 DEF RowsKept, RowsInv, OutcomesClosed, Touched, ReleasedGone
<1>3. ASSUME NEW j \in Jobs, submit(j) \/ cancel(j) \/ (\E ack \in BOOLEAN : retry(j, ack)) PROVE RowsKept
  <2>1. /\ UNCHANGED rec /\ \A k \in Jobs : k # j => job'[k] = job[k]
        /\ job[j].state # "removed" /\ disabled' = disabled
    BY <1>3 DEF submit, cancel, retry, RowsInv, TypeOK, TERMINAL
  <2> QED BY <1>2, <2>1
<1>4. ASSUME NEW n \in Revocable, disable(n) PROVE RowsKept
  BY <1>2, <1>4 DEF disable
<1>5. ASSUME NEW j \in Jobs, abandon(j) PROVE RowsKept
  <2> DEFINE a == job[j].current_attempt
  <2>1. a \in Attempts
    BY <1>5 DEF abandon, RowsInv, TypeOK, JobRows
  <2>2. PICK detail \in Details :
          rec' = [rec EXCEPT ![a] = [rec[a] EXCEPT !.state = "abandoned",
                    !.outcome = IF rec[a].outcome # None THEN rec[a].outcome
                                ELSE [state |-> "unknown", cleanup_confirmed |-> FALSE, detail |-> detail]]]
    BY <1>5 DEF abandon
  <2>3. /\ \A b \in Attempts : b # a => rec'[b] = rec[b]
        /\ rec'[a].state = "abandoned"
        /\ rec'[a].outcome = IF rec[a].outcome # None THEN rec[a].outcome
                             ELSE [state |-> "unknown", cleanup_confirmed |-> FALSE, detail |-> detail]
    BY <2>1, <2>2 DEF RowsInv, TypeOK, AttemptRows
  <2>7. rec'[a].ledger_id = rec[a].ledger_id /\ rec'[a].lease = rec[a].lease /\ rec'[a].start_requested = rec[a].start_requested
         /\ rec[a].lease \in Nat
    BY <2>1, <2>2 DEF RowsInv, TypeOK, AttemptRows
  <2>8. RowKept(a)
    <3>1. rec[a].state # "none" /\ rec[a].state # "abandoned" /\ NodeOf[a] \in disabled
      BY <1>5 DEF abandon, RowsInv, Linked, ValidRecords, Rows
    <3> QED BY <2>3, <2>7, <3>1 DEF RowKept
  <2>9. \A b \in Attempts : RowKept(b)
    BY <2>3, <2>8, SameRow
  <2>4. \A k \in Jobs : job'[k].state = job[k].state /\ disabled' = disabled
    BY <1>5 DEF abandon, RowsInv, TypeOK, JobRows
  <2>5. OutcomesClosed'
    BY <2>1, <2>3 DEF RowsInv, OutcomesClosed, Closed
  <2>6. \A b \in Attempts : JobOf[b] \in Jobs
    BY PlanAssumption
  <2> QED BY <1>1, <2>3, <2>9, <2>4, <2>5, <2>6 DEF RowsKept, RowsInv, Touched, ReleasedGone
<1>6. ASSUME NEW j \in Jobs, remove(j) PROVE RowsKept
  <2>1. /\ \A a \in Attempts : rec'[a] = IF JobOf[a] = j THEN NoRow ELSE rec[a]
        /\ \A k \in Jobs : k # j => job'[k] = job[k]
        /\ job'[j].state = "removed" /\ disabled' = disabled
        /\ \A a \in Attempts : JobOf[a] = j => rec[a].state \in {"none", "released", "abandoned"}
    BY <1>6 DEF remove, RowsInv, TypeOK, NoJob, Rows
  <2>2. \A a \in Attempts : JobOf[a] \in Jobs
    BY PlanAssumption
  <2>3. NoRow.state = "none" /\ NoRow.outcome = None
    BY DEF NoRow
  <2>4. ASSUME NEW a \in Attempts PROVE RowKept(a)
    <3>1. CASE JobOf[a] = j
      BY <2>1, <2>3, <3>1 DEF RowKept
    <3>2. CASE JobOf[a] # j
      BY <2>1, <3>2, SameRow
    <3> QED BY <3>1, <3>2
  <2> QED BY <1>1, <2>1, <2>2, <2>3, <2>4 DEF RowsKept, RowsInv, OutcomesClosed, Touched, ReleasedGone
<1> QED BY <1>3, <1>4, <1>5, <1>6 DEF user

(* A reservation. *)
LEMMA PlacementRows ==
  ASSUME LoopAssumption, RowsInv, LoopTypes, ReleasedGone, NEW a \in Attempts, placement(a)
  PROVE  RowsKept
<1>1. NodeOf[a] \in Nodes /\ JobOf[a] \in Jobs
  BY PlanAssumption
<1>2. reserve(a, live[NodeOf[a]]) /\ live[NodeOf[a]] \in Ledgers /\ live[NodeOf[a]] # None
  BY <1>1 DEF placement, available, LoopTypes, LedgersOK, LiveOK, Past, LoopAssumption
<1>3. [Next]_recordVars
  BY <1>2 DEF Next
<1>4. TypeOK' /\ Linked'
  BY <1>3, NextType, NextLinked DEF RowsInv
<1>5. /\ \A b \in Attempts : b # a => rec'[b] = rec[b]
      /\ rec'[a].state = "preparing" /\ rec'[a].outcome = None
      /\ \A k \in Jobs : k # JobOf[a] => job'[k] = job[k]
      /\ job[JobOf[a]].state = "queued" /\ rec[a].state = "none" /\ disabled' = disabled
      /\ rec'[a].lease = 1 /\ rec'[a].ledger_id = live[NodeOf[a]]
  BY <1>1, <1>2 DEF reserve, RowsInv, TypeOK, NoRow
<1>6. \A b \in Attempts : JobOf[b] \in Jobs
  BY PlanAssumption
<1>7. RowKept(a)
  BY <1>2, <1>5 DEF RowKept, Placed
<1>8. \A b \in Attempts : RowKept(b)
  BY <1>5, <1>7, SameRow
<1> QED BY <1>4, <1>5, <1>6, <1>8 DEF RowsKept, RowsInv, OutcomesClosed, Touched, ReleasedGone

(* Rows that are saved from what was reported, or doubted. *)
LEMMA SavedRows ==
  ASSUME RowsInv, ReleasedGone, NEW D \in SUBSET Attempts, NEW rows \in [D -> AttemptRows], Save(rows),
         \A a \in D : rows[a] = rec[a] \/ Moves(rec[a], rows[a]),
         \A a \in D : Told(a, rows[a])
  PROVE  RowsKept
<1>1. /\ RowsInv' /\ \A a \in Attempts : Touched(a) => Touched(a)'
      /\ \A a \in Attempts : rec'[a].state = "released" => rec[a].state = "released" \/ (a \in D /\ rows[a].state = "released")
      /\ \A a \in Attempts : rec'[a] = IF a \in D THEN rows[a] ELSE rec[a]
      /\ disabled' = disabled
  BY SaveRows
<1>2. ASSUME NEW a \in Attempts PROVE RowKept(a)
  <2>1. CASE a \in D /\ Moves(rec[a], rows[a])
    <3>1. rec[a].lease \in Nat /\ Told(a, rows[a]) /\ rec'[a] = rows[a]
      BY <1>1, <2>1 DEF RowsInv, TypeOK, AttemptRows
    <3> QED BY <2>1, <3>1 DEF Moves, RowKept, Told, Active, Closed, TERMINAL
  <2>2. CASE rec'[a] = rec[a]
    BY <2>2, SameRow
  <2> QED BY <1>1, <2>1, <2>2
<1>3. \A a \in Attempts : rec'[a].state = "released" => Gone(a)
  BY <1>1 DEF Told, ReleasedGone
<1> QED BY <1>1, <1>2, <1>3 DEF RowsKept

LEMMA SweepRows ==
  ASSUME RowsInv, ReleasedGone, NEW a \in Attempts, sweep(a)
  PROVE  RowsKept
<1> DEFINE rows == [b \in {a} |-> Doubted(rec[a])]
<1>1. Save(rows) /\ rec[a] \in AttemptRows /\ (rec[a].outcome # None => rec[a].outcome.state \in Closed)
  BY DEF sweep, RowsInv, TypeOK, OutcomesClosed
<1>2. /\ Doubted(rec[a]) \in AttemptRows /\ (Doubted(rec[a]) = rec[a] \/ Moves(rec[a], Doubted(rec[a])))
      /\ Told(a, Doubted(rec[a]))
  BY <1>1, DoubtedMoves DEF Told
<1>3. rows \in [{a} -> AttemptRows] /\ rows[a] = Doubted(rec[a]) /\ {a} \in SUBSET Attempts
  BY <1>2
<1> HIDE DEF rows
<1> QED BY <1>1, <1>2, <1>3, SavedRows

(* A row that a reported result, or a doubt after it, replaces. *)
LEMMA AnswerMoves ==
  ASSUME LoopAssumption, RowsInv, LoopTypes, ReportedGone, NEW n \in Nodes, msg[n] # None,
         NEW a \in DOMAIN msg[n].results, msg[n].results[a] # Refused, NEW l, Accepts(a, msg[n].results[a], l)
  PROVE  LET s == Seen(rec[a], msg[n].results[a]) IN
         /\ s \in AttemptRows /\ (s = rec[a] \/ Moves(rec[a], s))
         /\ s.outcome # None => s.outcome.state \in Closed
         /\ Told(a, s)
<1>1. msg[n].results[a] \in Listed /\ a \in Attempts
  BY AnswerRow
<1>2. msg[n].results[a].state = "released" => Gone(a)
  BY DEF ReportedGone
<1>3. Detail \in Details
  BY DEF LoopAssumption
<1>4. LET s == Seen(rec[a], msg[n].results[a]) IN
      /\ s \in AttemptRows /\ (s = rec[a] \/ Moves(rec[a], s))
      /\ s.outcome # None => s.outcome.state \in Closed
      /\ s.state = "released" => rec[a].state = "released" \/ Gone(a)
      /\ s.outcome = rec[a].outcome \/ (Ended(msg[n].results[a]) /\ s.outcome.state = End(msg[n].results[a]))
  BY <1>1, <1>2, <1>3, SeenMoves
<1>5. \A x : Ended(msg[n].results[a]) /\ x = End(msg[n].results[a]) => Ends(a, x)
  BY DEF Ends
<1> QED BY <1>4, <1>5 DEF Told

LEMMA PageMoves ==
  ASSUME LoopAssumption, RowsInv, LoopTypes, ReportedGone, NEW n \in Nodes,
         NEW a \in DOMAIN ctl[n].page, NEW l, Accepts(a, ctl[n].page[a], l)
  PROVE  LET s == Seen(rec[a], ctl[n].page[a]) IN
         /\ s \in AttemptRows /\ (s = rec[a] \/ Moves(rec[a], s))
         /\ s.outcome # None => s.outcome.state \in Closed
         /\ Told(a, s)
<1>1. ctl[n].page[a] \in Listed /\ a \in Attempts
  BY PageRow
<1>2. ctl[n].page[a].state = "released" => Gone(a)
  BY DEF ReportedGone
<1>3. Detail \in Details
  BY DEF LoopAssumption
<1>4. LET s == Seen(rec[a], ctl[n].page[a]) IN
      /\ s \in AttemptRows /\ (s = rec[a] \/ Moves(rec[a], s))
      /\ s.outcome # None => s.outcome.state \in Closed
      /\ s.state = "released" => rec[a].state = "released" \/ Gone(a)
      /\ s.outcome = rec[a].outcome \/ (Ended(ctl[n].page[a]) /\ s.outcome.state = End(ctl[n].page[a]))
  BY <1>1, <1>2, <1>3, SeenMoves
<1>5. \A x : Ended(ctl[n].page[a]) /\ x = End(ctl[n].page[a]) => Ends(a, x)
  BY DEF Ends
<1> QED BY <1>4, <1>5 DEF Told

(* The row as it is, or doubted. *)
LEMMA PlainMoves ==
  ASSUME RowsInv, NEW a \in Attempts
  PROVE  /\ rec[a] \in AttemptRows /\ (rec[a].outcome # None => rec[a].outcome.state \in Closed)
         /\ Doubted(rec[a]) \in AttemptRows /\ (Doubted(rec[a]) = rec[a] \/ Moves(rec[a], Doubted(rec[a])))
         /\ Told(a, rec[a]) /\ Told(a, Doubted(rec[a]))
<1>1. rec[a] \in AttemptRows /\ (rec[a].outcome # None => rec[a].outcome.state \in Closed)
  BY DEF RowsInv, TypeOK, OutcomesClosed
<1> QED BY <1>1, DoubtedMoves DEF Told

(* A failed call: some results are stored, all items are in doubt. *)
LEMMA CallFailsRows ==
  ASSUME LoopAssumption, RowsInv, LoopTypes, ReleasedGone, ReportedGone, NEW n \in Nodes, CallFails(n)
  PROVE  RowsKept
<1> DEFINE m == msg[n]
<1>1. m # None /\ m.items \subseteq Attempts
  BY DEF CallFails, LoopTypes, MsgsOK, MsgOK, On
<1>2. PICK done \in SUBSET {a \in DOMAIN m.results : m.results[a] # Refused /\ Accepts(a, m.results[a], m.ledger)},
           marked \in Marked(m.items) :
         Save([a \in done \cup marked |->
                 LET row == IF a \in done THEN Seen(rec[a], m.results[a]) ELSE rec[a]
                 IN IF a \in marked THEN Doubted(row) ELSE row])
  BY DEF CallFails
<1>3. marked \subseteq Attempts
  BY <1>1, <1>2 DEF Marked
<1>4. \A a \in done : a \in DOMAIN m.results /\ m.results[a] # Refused /\ Accepts(a, m.results[a], m.ledger) /\ a \in Attempts
  BY <1>1, AnswerRow
<1> DEFINE D == done \cup marked
           row(a) == IF a \in done THEN Seen(rec[a], m.results[a]) ELSE rec[a]
           new(a) == IF a \in marked THEN Doubted(row(a)) ELSE row(a)
           rows == [a \in D |-> new(a)]
<1>5. ASSUME NEW a \in D
      PROVE  /\ new(a) \in AttemptRows /\ (new(a) = rec[a] \/ Moves(rec[a], new(a)))
             /\ Told(a, new(a))
  <2>0. a \in Attempts
    BY <1>3, <1>4
  <2>1. /\ row(a) \in AttemptRows /\ (row(a) = rec[a] \/ Moves(rec[a], row(a)))
        /\ row(a).outcome # None => row(a).outcome.state \in Closed
        /\ Told(a, row(a))
    <3>1. CASE a \in done
      <4>1. LET s == Seen(rec[a], msg[n].results[a]) IN
            /\ s \in AttemptRows /\ (s = rec[a] \/ Moves(rec[a], s))
            /\ s.outcome # None => s.outcome.state \in Closed
            /\ Told(a, s)
        BY <1>1, <1>4, <3>1, AnswerMoves
      <4> QED BY <3>1, <4>1
    <3>2. CASE a \notin done
      BY <2>0, <3>2, PlainMoves
    <3> QED BY <3>1, <3>2
  <2>2. rec[a] \in AttemptRows
    BY <2>0, PlainMoves
  <2> HIDE DEF row
  <2>3. /\ Doubted(row(a)) \in AttemptRows /\ (Doubted(row(a)) = rec[a] \/ Moves(rec[a], Doubted(row(a))))
        /\ Doubted(row(a)).outcome = row(a).outcome /\ (Doubted(row(a)).state = "released" => row(a).state = "released")
    BY <2>1, <2>2, DoubtedSeenMoves
  <2>4. Told(a, Doubted(row(a)))
    BY <2>1, <2>3 DEF Told
  <2> QED BY <2>1, <2>3, <2>4
<1>6. rows \in [D -> AttemptRows] /\ D \in SUBSET Attempts /\ \A a \in D : rows[a] = new(a)
  BY <1>3, <1>4, <1>5
<1>7. Save(rows)
  BY <1>2
<1> HIDE DEF rows, D, new
<1> QED BY <1>5, <1>6, <1>7, SavedRows

(* A batch: every answer is stored. *)
LEMMA BatchRows ==
  ASSUME LoopAssumption, RowsInv, LoopTypes, ReleasedGone, ReportedGone, NEW n \in Nodes, batch(n)
  PROVE  RowsKept
<1> DEFINE m == msg[n]
           new(a) == IF m.results[a] = Refused THEN Doubted(rec[a]) ELSE Seen(rec[a], m.results[a])
           rows == [a \in m.items |-> new(a)]
<1>1. /\ m # None /\ m.items \subseteq Attempts /\ Save(rows) /\ DOMAIN m.results = m.items
      /\ \A a \in m.items : m.results[a] # Refused => Accepts(a, m.results[a], m.ledger)
  BY DEF batch, LoopTypes, MsgsOK, MsgOK, On
<1>2. ASSUME NEW a \in m.items
      PROVE  /\ new(a) \in AttemptRows /\ (new(a) = rec[a] \/ Moves(rec[a], new(a)))
             /\ Told(a, new(a))
  <2>1. CASE m.results[a] = Refused
    BY <1>1, <2>1, PlainMoves
  <2>2. CASE m.results[a] # Refused
    <3>1. LET s == Seen(rec[a], msg[n].results[a]) IN
          /\ s \in AttemptRows /\ (s = rec[a] \/ Moves(rec[a], s))
          /\ Told(a, s)
      BY <1>1, <2>2, AnswerMoves
    <3> QED BY <2>2, <3>1
  <2> QED BY <2>1, <2>2
<1>3. rows \in [m.items -> AttemptRows] /\ m.items \in SUBSET Attempts /\ \A a \in m.items : rows[a] = new(a)
  BY <1>1, <1>2
<1> HIDE DEF rows, new
<1> QED BY <1>1, <1>2, <1>3, SavedRows

(* A snapshot: what it lists is stored, what it does not list is in doubt. *)
LEMMA ReconcileRows ==
  ASSUME LoopAssumption, RowsInv, LoopTypes, ReleasedGone, ReportedGone, NEW n \in Nodes, reconcile(n)
  PROVE  RowsKept
<1> DEFINE c == ctl[n]
           again == reconciled[n] = c.ledger
           seen == IF again THEN {} ELSE Known(n)
           missing == IF again THEN {} ELSE Open(n) \ DOMAIN c.page
           new(a) == IF a \in seen THEN Seen(rec[a], c.page[a]) ELSE Doubted(rec[a])
           D == seen \cup missing
           rows == [a \in D |-> new(a)]
<1>1. Save(rows) /\ \A a \in seen : Accepts(a, c.page[a], c.ledger)
  BY DEF reconcile
<1>2. D \subseteq Attempts /\ seen \subseteq DOMAIN c.page
  BY DEF Known, Open, On
<1>3. ASSUME NEW a \in D
      PROVE  /\ new(a) \in AttemptRows /\ (new(a) = rec[a] \/ Moves(rec[a], new(a)))
             /\ Told(a, new(a))
  <2>1. CASE a \in seen
    <3>1. a \in DOMAIN ctl[n].page /\ Accepts(a, ctl[n].page[a], c.ledger)
      BY <1>1, <1>2, <2>1
    <3>2. LET s == Seen(rec[a], ctl[n].page[a]) IN
          /\ s \in AttemptRows /\ (s = rec[a] \/ Moves(rec[a], s))
          /\ Told(a, s)
      BY <3>1, PageMoves
    <3> QED BY <2>1, <3>2
  <2>2. CASE a \notin seen
    <3>1. new(a) = Doubted(rec[a]) /\ a \in Attempts
      BY <1>2, <2>2
    <3> QED BY <3>1, PlainMoves
  <2> QED BY <2>1, <2>2
<1>4. rows \in [D -> AttemptRows] /\ D \in SUBSET Attempts /\ \A a \in D : rows[a] = new(a)
  BY <1>2, <1>3
<1> HIDE DEF rows, new, D
<1> QED BY <1>1, <1>3, <1>4, SavedRows

(* The intent to start, stored for some attempts. *)
LEMMA StartedMoves ==
  ASSUME RowsInv, ReleasedGone, NEW D \in SUBSET Attempts, \A a \in D : Startable(a), Save(Started(D))
  PROVE  RowsKept
<1> DEFINE rows == Started(D)
<1>1. ASSUME NEW a \in D PROVE rows[a] \in AttemptRows /\ Moves(rec[a], rows[a]) /\ Told(a, rows[a])
  <2>1. rec[a] \in AttemptRows /\ rec[a].state = "prepared" /\ (rec[a].outcome # None => rec[a].outcome.state \in Closed)
    BY DEF RowsInv, TypeOK, OutcomesClosed, Startable
  <2>2. rows[a] = [rec[a] EXCEPT !.state = "starting", !.start_requested = TRUE]
    BY DEF Started
  <2> QED BY <2>1, <2>2 DEF AttemptRows, AttemptStates, Moves, Told, Active
<1>2. rows \in [D -> AttemptRows]
  <2>1. rows = [a \in D |-> rows[a]]
    BY DEF Started
  <2> QED BY <1>1, <2>1
<1> HIDE DEF rows
<1> QED BY <1>1, <1>2, SavedRows DEF rows

LEMMA StartsRows ==
  ASSUME RowsInv, LoopTypes, ReleasedGone, NEW n \in Nodes, starts(n)
  PROVE  RowsKept
<1>1. ctl[n].start \in SUBSET Attempts /\ (\A a \in ctl[n].start : Startable(a)) /\ Save(Started(ctl[n].start))
  BY DEF starts, LoopTypes, CtlOK, PassOK, On
<1> QED BY <1>1, StartedMoves

(* A pass that breaks off: what it stored before stays. *)
LEMMA AbortsRows ==
  ASSUME LoopAssumption, RowsInv, LoopTypes, ReleasedGone, ReportedGone, NEW n \in Nodes, aborts(n)
  PROVE  RowsKept
<1> DEFINE c == ctl[n]
           before == IF c.pc = "start" THEN {a \in c.start : Startable(a)}
                     ELSE IF c.pc = "reconcile" THEN {a \in Known(n) : Accepts(a, c.page[a], c.ledger)} ELSE {}
<1>1. PICK done \in SUBSET before :
        Save(IF c.pc = "start" THEN Started(done) ELSE [a \in done |-> Seen(rec[a], c.page[a])])
  BY DEF aborts
<1>2. CASE c.pc = "start"
  <2>1. done \in SUBSET Attempts /\ (\A a \in done : Startable(a)) /\ Save(Started(done))
    BY <1>1, <1>2 DEF LoopTypes, CtlOK, PassOK, On
  <2> QED BY <2>1, StartedMoves
<1>3. CASE c.pc # "start"
  <2> DEFINE rows == [a \in done |-> Seen(rec[a], c.page[a])]
  <2>1. Save(rows) /\ done \in SUBSET Attempts /\ \A a \in done : a \in DOMAIN c.page /\ Accepts(a, c.page[a], c.ledger)
    BY <1>1, <1>3 DEF Known, Open, On
  <2>2. ASSUME NEW a \in done
        PROVE  LET s == Seen(rec[a], ctl[n].page[a]) IN
               /\ s \in AttemptRows /\ (s = rec[a] \/ Moves(rec[a], s))
               /\ Told(a, s)
    BY <2>1, PageMoves
  <2>3. rows \in [done -> AttemptRows] /\ \A a \in done : rows[a] = Seen(rec[a], ctl[n].page[a])
    BY <2>2
  <2> HIDE DEF rows
  <2> QED BY <2>1, <2>2, <2>3, SavedRows
<1> QED BY <1>2, <1>3

(* New leases. *)
LEMMA RenewalsRows ==
  ASSUME RowsInv, LoopTypes, ReleasedGone, NEW n \in Nodes, renewals(n)
  PROVE  RowsKept
<1> DEFINE values == ctl[n].renew
<1>1. /\ \A a \in Attempts : rec'[a] = IF a \in values THEN [rec[a] EXCEPT !.lease = @ + 1] ELSE rec[a]
      /\ rec' = [a \in Attempts |-> rec'[a]] /\ UNCHANGED <<job, disabled, suspended>>
  BY DEF renewals
<1>2. \A a \in Attempts : rec[a] \in AttemptRows
  BY DEF RowsInv, TypeOK
<1>3. \A a \in Attempts : /\ rec'[a] \in AttemptRows /\ rec'[a].state = rec[a].state
                          /\ rec'[a].outcome = rec[a].outcome /\ rec'[a].ledger_id = rec[a].ledger_id
                          /\ rec[a].lease <= rec'[a].lease /\ rec'[a].start_requested = rec[a].start_requested
  BY <1>1, <1>2 DEF AttemptRows
<1>4. \A a \in values : rec[a].state # "none"
  BY DEF renewals, Renewable
<1>5. TypeOK'
  BY <1>1, <1>3 DEF RowsInv, TypeOK
<1>6. Linked'
  <2>1. Blank'
    BY <1>1, <1>3, <1>4 DEF RowsInv, Linked, Blank
  <2>2. ValidRecords' /\ OlderReleased'
    BY <1>1, <1>3 DEF RowsInv, Linked, ValidRecords, OlderReleased, Rows, IsCurrent
  <2>3. JobMirrorsAttempt'
    <3>1. \A j \in Jobs : job[j].current_attempt \in Attempts \cup {None}
      BY DEF RowsInv, TypeOK, JobRows
    <3> QED BY <1>1, <1>3, <3>1 DEF RowsInv, Linked, JobMirrorsAttempt
  <2> QED BY <2>1, <2>2, <2>3 DEF Linked
<1>7. \A a \in Attempts : RowKept(a)
  BY <1>3 DEF RowKept
<1> QED BY <1>1, <1>3, <1>5, <1>6, <1>7 DEF RowsKept, RowsInv, OutcomesClosed, Touched, ReleasedGone

(* Every step of the loop, the executors and the users keeps the rows. *)
LEMMA NextRows ==
  ASSUME LoopAssumption, RowsInv, LoopTypes, ReleasedGone, ReportedGone, [CWNext]_vars
  PROVE  RowsKept
<1>1. CASE UNCHANGED recordVars
  BY <1>1, RowsUnchanged
<1>2. CASE ~UNCHANGED recordVars
  <2>1. CASE user \/ (\E a \in Attempts : placement(a) \/ sweep(a))
    BY <2>1, UserRows, PlacementRows, SweepRows
  <2>2. CASE \E n \in Nodes : CallFails(n) \/ batch(n) \/ reconcile(n) \/ renewals(n) \/ starts(n) \/ aborts(n)
    BY <2>2, CallFailsRows, BatchRows, ReconcileRows, RenewalsRows, StartsRows, AbortsRows
  <2> QED
    BY <1>2, <2>1, <2>2
       DEF CWNext, poll, executes, release, exchange, node, observe, advance, dispatch, SessionChanges, Restart,
           Reinstall, serve, serve_late, vars
<1> QED BY <1>1, <1>2

-----------------------------------------------------------------------------
(* The executors' records *)

(* A step of an executor writes one record, never one of a released attempt. *)
Writes(a) ==
  /\ board[a].state # "released" /\ board'[a] \in Listed
  /\ board' = [board EXCEPT ![a] = board'[a]]

LEMMA BoardWrites ==
  ASSUME BoardInv, NEW a \in Attempts, Writes(a), alive' \subseteq Attempts,
         \A b \in alive' : b # a => b \in alive,
         a \in alive' => \/ board'[a].state \in {"starting", "running"}
                         \/ board'[a].state = "unknown" /\ ~board'[a].cleanup_confirmed
  PROVE  BoardInv'
<1>1. board' \in [Attempts -> Listed \cup {Board!Unlisted}] /\ \A b \in Attempts : b # a => board'[b] = board[b]
  BY DEF BoardInv, BoardTypes, Writes
<1>2. AliveUnsettled'
  BY <1>1 DEF BoardInv, BoardTypes, AliveUnsettled
<1> QED BY <1>1, <1>2 DEF BoardInv, BoardTypes

(* What an attempt that is not listed becomes when it is taken up. *)
LEMMA TakenUp ==
  ASSUME NEW r \in Listed \cup {Board!Unlisted}, r.state = "absent"
  PROVE  r = Board!Unlisted
  BY DEF Listed, Board!Going, Board!Final

(* An executor handles one item of a command. *)
LEMMA HandleBoard ==
  ASSUME LoopAssumption, BoardInv, NEW a \in Attempts, NEW action, NEW seq \in Nat, Handle(action, a, seq)
  PROVE  /\ BoardInv' /\ Writes(a)
         /\ board[a].state = "absent" => action \in {"prepare", "reject_absent"}
<1>0. board[a] \in Listed \cup {Board!Unlisted} /\ (board[a].state = "absent" => board[a] = Board!Unlisted)
  BY TakenUp DEF BoardInv, BoardTypes
<1>1. a \in alive => board[a].state \in {"starting", "running", "unknown"} /\ (board[a].state = "unknown" => ~board[a].cleanup_confirmed)
  BY DEF BoardInv, AliveUnsettled
<1>2. ASSUME Board!AdmitPlan(a, 0) PROVE Writes(a) /\ BoardInv'
  <2>1. board'[a] = [Board!Unlisted EXCEPT !.state = "prepared", !.lease_sequence = 1, !.lease_expires_at = 0]
    BY <1>0, <1>2 DEF Board!AdmitPlan, BoardInv, BoardTypes
  <2>2. board'[a] = [state |-> "prepared", cleanup_confirmed |-> FALSE, lease_sequence |-> 1,
                     lease_expires_at |-> 0, ready |-> FALSE, outcome |-> None]
    BY <2>1 DEF Board!Unlisted
  <2>3. board'[a] \in Listed
    BY <2>2 DEF Listed, Board!Going
  <2>4. Writes(a) /\ alive' = alive
    BY <1>2, <2>1, <2>3, <1>0 DEF Board!AdmitPlan, Writes
  <2> QED BY <1>1, <1>2, <2>4, BoardWrites DEF Board!AdmitPlan, BoardInv, BoardTypes
<1>3. ASSUME Board!SealPlan(a) PROVE Writes(a) /\ BoardInv'
  <2>1. board'[a] = [Board!Unlisted EXCEPT !.state = "failed", !.cleanup_confirmed = TRUE]
    BY <1>0, <1>3 DEF Board!SealPlan, BoardInv, BoardTypes
  <2>2. board'[a] = [state |-> "failed", cleanup_confirmed |-> TRUE, lease_sequence |-> 0,
                     lease_expires_at |-> 0, ready |-> FALSE, outcome |-> None]
    BY <2>1 DEF Board!Unlisted
  <2>3. board'[a] \in Listed
    BY <2>2 DEF Listed, Board!Final
  <2>4. Writes(a) /\ alive' = alive
    BY <1>3, <2>1, <2>3, <1>0 DEF Board!SealPlan, Writes
  <2> QED BY <1>1, <1>3, <2>4, BoardWrites DEF Board!SealPlan, BoardInv, BoardTypes
<1>4. board[a].state \in Board!Going \cup Board!Final => board[a] \in Listed
  BY <1>0 DEF Board!Unlisted, Board!Going, Board!Final
<1>5. ASSUME Board!ExtendLease(a, seq, 0) PROVE Writes(a) /\ BoardInv'
  <2>1. /\ board'[a] = [board[a] EXCEPT !.lease_sequence = seq, !.lease_expires_at = 0]
        /\ board[a] \in Listed /\ board[a].state \in Board!Going /\ alive' = alive
        /\ board' = [board EXCEPT ![a] = board'[a]]
    BY <1>4, <1>5 DEF Board!ExtendLease, BoardInv, BoardTypes
  <2>2. /\ board'[a] \in Listed /\ board'[a].state = board[a].state
        /\ board'[a].cleanup_confirmed = board[a].cleanup_confirmed
    BY <2>1 DEF Listed, Board!Going
  <2>3. Writes(a)
    BY <2>1, <2>2 DEF Writes, Board!Going
  <2> QED BY <1>1, <2>1, <2>2, <2>3, BoardWrites DEF BoardInv, BoardTypes
<1>6. ASSUME Board!AcceptStart(a) PROVE Writes(a) /\ BoardInv'
  <2>1. /\ board'[a] = [board[a] EXCEPT !.state = "starting", !.ready = FALSE]
        /\ board[a].state = "prepared" /\ board[a] \in Listed /\ alive' = alive
        /\ board' = [board EXCEPT ![a] = board'[a]]
    BY <1>4, <1>6 DEF Board!AcceptStart, BoardInv, BoardTypes, Board!Going
  <2>2. board'[a] \in Listed /\ board'[a].state = "starting"
    BY <2>1 DEF Listed, Board!Going
  <2>3. Writes(a)
    BY <2>1, <2>2 DEF Writes
  <2> QED BY <1>1, <2>1, <2>2, <2>3, BoardWrites DEF BoardInv, BoardTypes
<1>7. ASSUME NEW final \in Outcomes, NEW clean \in BOOLEAN, Board!Settle(a, final, clean) PROVE Writes(a) /\ BoardInv'
  <2>0. final \in Board!Final
    BY DEF LoopAssumption, Closed, TERMINAL, Board!Final
  <2>1. /\ board'[a] = [board[a] EXCEPT !.state = final, !.cleanup_confirmed = clean, !.ready = FALSE]
        /\ board[a].state \in Board!Going \cup {"unknown"} /\ board[a] \in Listed
        /\ alive' \in {alive, alive \ {a}} /\ (final # "unknown" => clean) /\ (clean => a \notin alive')
        /\ board' = [board EXCEPT ![a] = board'[a]]
    BY <1>4, <1>7 DEF Board!Settle, BoardInv, BoardTypes, Board!Final
  <2>2. board'[a] \in Listed /\ board'[a].state = final /\ board'[a].cleanup_confirmed = clean
    BY <2>0, <2>1 DEF Listed, Board!Final
  <2>3. Writes(a)
    BY <2>1, <2>2 DEF Writes, Board!Going
  <2> QED BY <2>1, <2>2, <2>3, BoardWrites DEF BoardInv, BoardTypes
<1>8. ASSUME Board!FreeAttempt(a) PROVE Writes(a) /\ BoardInv'
  <2>1. /\ board'[a] = [board[a] EXCEPT !.state = "released", !.outcome = board[a].state]
        /\ board[a].state \in Board!Final /\ board[a].cleanup_confirmed /\ board[a] \in Listed /\ alive' = alive
        /\ board' = [board EXCEPT ![a] = board'[a]]
    BY <1>4, <1>8 DEF Board!FreeAttempt, BoardInv, BoardTypes
  <2>2. board'[a] \in Listed
    BY <2>1 DEF Listed, Board!Final, Closed, TERMINAL
  <2>3. Writes(a) /\ a \notin alive
    BY <1>1, <2>1, <2>2 DEF Writes, Board!Final
  <2> QED BY <2>1, <2>3, BoardWrites DEF BoardInv, BoardTypes
<1>9. board[a].state = "absent" =>
        /\ ~Board!ExtendLease(a, seq, 0) /\ ~Board!AcceptStart(a) /\ ~Board!FreeAttempt(a)
        /\ \A final, clean : ~Board!Settle(a, final, clean)
  BY DEF Board!ExtendLease, Board!AcceptStart, Board!FreeAttempt, Board!Settle, Board!Going, Board!Final
<1> QED BY <1>2, <1>3, <1>5, <1>6, <1>7, <1>8, <1>9 DEF Handle

(* What an executor does of itself leaves absent and released attempts      *)
(* alone.                                                                   *)
LEMMA ExecutesBoard ==
  ASSUME LoopAssumption, BoardInv, executes
  PROVE  BoardInv' /\ \A a \in Attempts : board[a].state \in {"absent", "released"} => board'[a] = board[a]
<1> DEFINE Quiet == \A a \in Attempts : board[a].state \in {"absent", "released"} => board'[a] = board[a]
<1>0. \A a \in Attempts : board[a] \in Listed \cup {Board!Unlisted}
  BY DEF BoardInv, BoardTypes
<1>1. \A a \in Attempts : board[a].state \in Board!Going \cup Board!Final => board[a] \in Listed
  BY <1>0 DEF Board!Unlisted, Board!Going, Board!Final
<1>2. ASSUME NEW a \in Attempts, Board!BecomeReady(a) PROVE BoardInv' /\ Quiet
  <2>1. /\ board'[a] = [board[a] EXCEPT !.ready = TRUE] /\ board[a].state = "prepared" /\ board[a] \in Listed
        /\ board' = [board EXCEPT ![a] = board'[a]] /\ alive' = alive
    BY <1>1, <1>2 DEF Board!BecomeReady, BoardInv, BoardTypes, Board!Going
  <2>2. board'[a] \in Listed
    BY <2>1 DEF Listed
  <2>3. Writes(a) /\ a \notin alive
    BY <2>1, <2>2 DEF Writes, BoardInv, AliveUnsettled
  <2>4. Quiet
    BY <2>1 DEF BoardInv, BoardTypes
  <2> QED BY <2>1, <2>3, <2>4, BoardWrites DEF BoardInv, BoardTypes
<1>3. ASSUME NEW a \in Attempts, Board!LaunchUnit(a) PROVE BoardInv' /\ Quiet
  BY <1>3 DEF Board!LaunchUnit, BoardInv, BoardTypes, AliveUnsettled
<1>4. ASSUME NEW a \in Attempts, Board!ConfirmStart(a) PROVE BoardInv' /\ Quiet
  <2>1. /\ board'[a] = [board[a] EXCEPT !.state = "running"] /\ board[a].state = "starting" /\ board[a] \in Listed
        /\ board' = [board EXCEPT ![a] = board'[a]] /\ alive' = alive
    BY <1>1, <1>4 DEF Board!ConfirmStart, BoardInv, BoardTypes, Board!Going
  <2>2. board'[a] \in Listed /\ board'[a].state = "running"
    BY <2>1 DEF Listed, Board!Going
  <2>3. Writes(a)
    BY <2>1, <2>2 DEF Writes
  <2>4. Quiet
    BY <2>1 DEF BoardInv, BoardTypes
  <2> QED BY <2>1, <2>2, <2>3, <2>4, BoardWrites DEF BoardInv, BoardTypes
<1>5. ASSUME NEW a \in Attempts, NEW final \in Outcomes, NEW clean \in BOOLEAN, Board!Settle(a, final, clean)
      PROVE BoardInv' /\ Quiet
  <2>1. Handle("stop", a, 0)
    BY <1>5 DEF Handle
  <2>2. BoardInv' /\ Writes(a) /\ board[a].state # "absent"
    BY <2>1, HandleBoard
  <2> QED BY <2>2 DEF Writes, BoardInv, BoardTypes
<1>6. ASSUME Board!UnitsDie PROVE BoardInv' /\ Quiet
  BY <1>6 DEF Board!UnitsDie, BoardInv, BoardTypes, AliveUnsettled
<1> QED BY <1>2, <1>3, <1>4, <1>5, <1>6 DEF executes

-----------------------------------------------------------------------------
(* The loop's own state *)

LEMMA Empty ==
  /\ <<>> \in Pages /\ <<>> \in Answers /\ DOMAIN <<>> = {}
  /\ \A n \in Nodes : PassOK(n, Unlocked)
<1>1. DOMAIN <<>> = {} /\ <<>> = [a \in {} |-> a]
  OBVIOUS
<1>2. <<>> \in [{} -> Listed] /\ <<>> \in [{} -> Listed \cup {Refused}]
  BY <1>1
<1>3. <<>> \in Pages /\ <<>> \in Answers
  BY <1>2 DEF Pages, Answers
<1>4. Unlocked \in Passes
  BY <1>3 DEF Unlocked, Passes
<1> QED BY <1>1, <1>3, <1>4 DEF Unlocked, PassOK, Past

(* One node's pass, command or queue is replaced. *)
LEMMA PutCtl ==
  ASSUME CtlOK, NEW n \in Nodes, NEW c, PassOK(n, c), ctl' = [ctl EXCEPT ![n] = c], ledger' = ledger
  PROVE  CtlOK' /\ ctl'[n] = c /\ \A k \in Nodes : k # n => ctl'[k] = ctl[k]
<1>1. ctl'[n] = c /\ \A k \in Nodes : k # n => ctl'[k] = ctl[k]
  BY DEF CtlOK
<1>2. ctl' \in [Nodes -> Passes]
  BY DEF CtlOK, PassOK
<1>3. \A k \in Nodes : (PassOK(k, ctl[k]))'
  BY <1>1 DEF CtlOK, PassOK, Past, On
<1> QED BY <1>1, <1>2, <1>3 DEF CtlOK

LEMMA PutMsg ==
  ASSUME MsgsOK, NEW n \in Nodes, NEW m, m = None \/ MsgOK(n, m), msg' = [msg EXCEPT ![n] = m], ledger' = ledger
  PROVE  MsgsOK' /\ msg'[n] = m /\ \A k \in Nodes : k # n => msg'[k] = msg[k]
<1>1. msg'[n] = m /\ \A k \in Nodes : k # n => msg'[k] = msg[k]
  BY DEF MsgsOK
<1>2. msg' \in [Nodes -> Sent \cup {None}]
  BY DEF MsgsOK, MsgOK
<1>3. \A k \in Nodes : msg'[k] # None => (MsgOK(k, msg[k]))'
  BY <1>1 DEF MsgsOK, MsgOK, Past, On
<1> QED BY <1>1, <1>2, <1>3 DEF MsgsOK

(* A command that is sent lists attempts of its node, with stored leases. *)
LEMMA SendOK ==
  ASSUME TypeOK', NEW n \in Nodes, NEW action \in Actions, NEW items \in SUBSET On(n), NEW l \in Past(n), LedgersOK
  PROVE  LET m == Send(l, action, items) IN
         \/ items = {} /\ m = None
         \/ /\ items # {} /\ MsgOK(n, m)
            /\ m.action = action /\ m.todo = items /\ m.ledger = l /\ m.results = <<>>
<1>1. CASE items = {}
  BY <1>1 DEF Send
<1>2. CASE items # {}
  <2> DEFINE lease == [a \in items |-> rec'[a].lease]
             m == [action |-> action, ledger |-> l, delivered |-> FALSE, todo |-> items,
                   items |-> items, lease |-> lease, results |-> <<>>]
  <2>1. Send(l, action, items) = m
    BY <1>2 DEF Send
  <2>2. lease \in [items -> Nat] /\ items \in SUBSET Attempts
    BY DEF TypeOK, AttemptRows, On
  <2>3. lease \in Leases /\ DOMAIN lease = items
    BY <2>2 DEF Leases
  <2>4. l \in Nat \cup {None}
    BY DEF LedgersOK, Past
  <2> HIDE DEF lease
  <2>5. m \in Sent
    BY <2>2, <2>3, <2>4, Empty DEF Sent
  <2>6. MsgOK(n, m)
    BY <2>3, <2>5, Empty DEF MsgOK
  <2> QED BY <1>2, <2>1, <2>6
<1> QED BY <1>1, <1>2

(* A command given up leaves at most its unanswered items behind. *)
LEMMA GiveUpLate ==
  ASSUME MsgsOK, LateOK, NEW n \in Nodes, GiveUp(n), ledger' = ledger
  PROVE  /\ LateOK' /\ \A k \in Nodes : k # n => late'[k] = late[k]
         /\ \A m \in late'[n] : \/ m \in late[n]
                                \/ /\ msg[n] # None /\ m.action = msg[n].action /\ m.ledger = msg[n].ledger
                                   /\ m.todo = msg[n].todo /\ m.lease = msg[n].lease
<1> DEFINE m == msg[n]
           rest == [action |-> m.action, ledger |-> m.ledger, todo |-> m.todo, lease |-> m.lease]
<1>1. late' = late \/ (m # None /\ late' = [late EXCEPT ![n] = @ \cup {rest}])
  BY DEF GiveUp
<1>2. m # None => RestOK(n, rest)
  BY DEF MsgsOK, MsgOK, Sent, RestOK, Rest
<1>3. CASE late' = late
  BY <1>3 DEF LateOK, RestOK, Past, On
<1>4. CASE m # None /\ late' = [late EXCEPT ![n] = @ \cup {rest}]
  <2>1. late'[n] = late[n] \cup {rest} /\ \A k \in Nodes : k # n => late'[k] = late[k]
    BY <1>4 DEF LateOK
  <2>2. late' \in [Nodes -> SUBSET Rest]
    BY <1>2, <1>4 DEF LateOK, RestOK
  <2>3. \A k \in Nodes : \A x \in late'[k] : RestOK(k, x)'
    BY <1>2, <1>4, <2>1 DEF LateOK, RestOK, Past, On
  <2>4. rest.action = m.action /\ rest.ledger = m.ledger /\ rest.todo = m.todo /\ rest.lease = m.lease
    OBVIOUS
  <2> HIDE DEF rest
  <2> QED BY <1>4, <2>1, <2>2, <2>3, <2>4 DEF LateOK
<1> QED BY <1>1, <1>3, <1>4

(* Parts of the loop's state that a step does not change. *)
LEMMA SameLoop ==
  ASSUME LoopTypes, ledger' = ledger
  PROVE  /\ LedgersOK' /\ (live' = live => LiveOK') /\ (ctl' = ctl => CtlOK') /\ (msg' = msg => MsgsOK')
         /\ (late' = late => LateOK') /\ (queued' = queued => QueuedOK')
<1>1. LedgersOK'
  BY DEF LoopTypes, LedgersOK
<1>2. ASSUME live' = live PROVE LiveOK'
  BY <1>2 DEF LoopTypes, LiveOK, Past
<1>3. ASSUME ctl' = ctl PROVE CtlOK'
  BY <1>3 DEF LoopTypes, CtlOK, PassOK, Past, On
<1>4. ASSUME msg' = msg PROVE MsgsOK'
  BY <1>4 DEF LoopTypes, MsgsOK, MsgOK, Past, On
<1>5. ASSUME late' = late PROVE LateOK'
  BY <1>5 DEF LoopTypes, LateOK, RestOK, Past, On
<1>6. ASSUME queued' = queued PROVE QueuedOK'
  BY <1>6 DEF LoopTypes, QueuedOK, On
<1> QED BY <1>1, <1>2, <1>3, <1>4, <1>5, <1>6

-----------------------------------------------------------------------------
(* What a step may bring into being *)

(* A pass asks its executor to seal a before it asks anything else. *)
Sealing(a) ==
  LET n == NodeOf[a] IN
  rec'[a].state = "unknown" /\ phase = "nodes" /\ DOMAIN ctl'[n].page = {} /\ DOMAIN msg'[n].results = {}

SameCommand(m, r) ==
  m # None /\ m.action = r.action /\ m.ledger = r.ledger /\ m.todo = r.todo /\ m.lease = r.lease

(* The loop's view of one node changes: late commands come from the pending *)
(* one, a new command has no results yet and takes up only what was queued  *)
(* or is to be sealed, and a page is the executor's.                        *)
NodeCalm(n) ==
  /\ \A m \in late'[n] : m \in late[n] \/ SameCommand(msg[n], m)
  /\ msg'[n] # None =>
       \/ SameCommand(msg[n], msg'[n]) /\ msg'[n].results = msg[n].results
       \/ /\ DOMAIN msg'[n].results = {}
          /\ msg'[n].action \in {"prepare", "reject_absent"} => \A a \in msg'[n].todo :
               (a \in queued[n] /\ a \notin queued'[n]) \/ (rec'[a].state = "unknown" /\ phase = "nodes" /\ DOMAIN ctl'[n].page = {})
  /\ DOMAIN ctl'[n].page = {} \/ ctl'[n].page = ctl[n].page \/ \A a \in DOMAIN ctl'[n].page : ctl'[n].page[a] = board[a]
  /\ \A a \in queued'[n] : a \in queued[n] \/ Placed(a)
  /\ (queued'[n] # {} => phase' = "schedule") /\ (ctl'[n].pc # "idle" => phase' = "nodes")

Calm == LoopTypes' /\ \A n \in Nodes : NodeCalm(n)

LEMMA SameNode ==
  ASSUME Phased, NEW n \in Nodes, msg'[n] = msg[n], late'[n] = late[n], ctl'[n] = ctl[n], queued'[n] = queued[n], phase' = phase
  PROVE  NodeCalm(n)
  BY DEF Phased, NodeCalm, SameCommand

(* The usual step: one node's pass and command, and what belongs to them. *)
LEMMA CalmStep ==
  ASSUME LoopTypes, Phased, NEW n \in Nodes, ledger' = ledger, phase' = phase, LiveOK',
         NEW c, PassOK(n, c), ctl' = [ctl EXCEPT ![n] = c], c.pc # "idle" => phase = "nodes",
         DOMAIN c.page = {} \/ c.page = ctl[n].page \/ \A a \in DOMAIN c.page : c.page[a] = board[a],
         NEW m, m = None \/ MsgOK(n, m), msg' = [msg EXCEPT ![n] = m],
         m # None =>
           \/ SameCommand(msg[n], m) /\ m.results = msg[n].results
           \/ /\ DOMAIN m.results = {}
              /\ m.action \in {"prepare", "reject_absent"} => \A a \in m.todo :
                   (a \in queued[n] /\ a \notin queued'[n]) \/ (rec'[a].state = "unknown" /\ phase = "nodes" /\ DOMAIN c.page = {}),
         LateOK', \A k \in Nodes : k # n => late'[k] = late[k],
         \A x \in late'[n] : x \in late[n] \/ SameCommand(msg[n], x),
         QueuedOK', \A k \in Nodes : k # n => queued'[k] = queued[k],
         \A a \in queued'[n] : a \in queued[n] \/ Placed(a), queued'[n] # {} => phase = "schedule"
  PROVE  Calm
<1>1. CtlOK' /\ ctl'[n] = c /\ \A k \in Nodes : k # n => ctl'[k] = ctl[k]
  BY PutCtl DEF LoopTypes
<1>2. MsgsOK' /\ msg'[n] = m /\ \A k \in Nodes : k # n => msg'[k] = msg[k]
  BY PutMsg DEF LoopTypes
<1>3. LoopTypes'
  BY <1>1, <1>2, SameLoop DEF LoopTypes
<1>4. \A k \in Nodes : k # n => NodeCalm(k)
  BY <1>1, <1>2, SameNode
<1>5. NodeCalm(n)
  BY <1>1, <1>2 DEF NodeCalm
<1> QED BY <1>3, <1>4, <1>5 DEF Calm

(* Steps that leave late commands, the queues and live alone. *)
LEMMA PassStep ==
  ASSUME LoopTypes, Phased, NEW n \in Nodes, UNCHANGED <<ledger, late, queued, phase>>, LiveOK',
         NEW c, PassOK(n, c), ctl' = [ctl EXCEPT ![n] = c], c.pc # "idle" => phase = "nodes",
         DOMAIN c.page = {} \/ c.page = ctl[n].page \/ \A a \in DOMAIN c.page : c.page[a] = board[a],
         NEW m, m = None \/ MsgOK(n, m), msg' = [msg EXCEPT ![n] = m],
         m # None =>
           \/ SameCommand(msg[n], m) /\ m.results = msg[n].results
           \/ /\ DOMAIN m.results = {}
              /\ m.action \in {"prepare", "reject_absent"} => \A a \in m.todo :
                   rec'[a].state = "unknown" /\ phase = "nodes" /\ DOMAIN c.page = {}
  PROVE  Calm
<1>1. LateOK' /\ QueuedOK'
  BY SameLoop
<1>2. queued[n] # {} => phase = "schedule"
  BY DEF Phased
<1>3. m # None =>
        \/ SameCommand(msg[n], m) /\ m.results = msg[n].results
        \/ /\ DOMAIN m.results = {}
           /\ m.action \in {"prepare", "reject_absent"} => \A a \in m.todo :
                (a \in queued[n] /\ a \notin queued'[n]) \/ (rec'[a].state = "unknown" /\ phase = "nodes" /\ DOMAIN c.page = {})
  OBVIOUS
<1> QED BY <1>1, <1>2, <1>3, CalmStep

(* What the types say of one node, for the actions below. *)
LEMMA NodeTypes ==
  ASSUME LoopTypes, Phased, NEW n \in Nodes
  PROVE  /\ PassOK(n, ctl[n]) /\ (msg[n] # None => MsgOK(n, msg[n])) /\ live[n] \in Past(n) /\ queued[n] \in SUBSET On(n)
         /\ (ctl[n].pc # "idle" => phase = "nodes") /\ ctl[n].ledger \in Past(n)
         /\ ctl = [ctl EXCEPT ![n] = ctl[n]] /\ msg = [msg EXCEPT ![n] = msg[n]]
  BY DEF LoopTypes, Phased, CtlOK, MsgsOK, LiveOK, QueuedOK, PassOK

(* One node is marked as not live, or as live with the pass's snapshot. *)
LEMMA PutLive ==
  ASSUME LoopTypes, NEW n \in Nodes, NEW l \in Past(n), live' = [live EXCEPT ![n] = l], ledger' = ledger
  PROVE  LiveOK'
  BY DEF LoopTypes, LiveOK, LedgersOK, Past

LEMMA CallFailsCalm ==
  ASSUME LoopTypes, Phased, NEW n \in Nodes, CallFails(n)
  PROVE  Calm
<1>1. /\ msg[n] # None /\ GiveUp(n) /\ msg' = [msg EXCEPT ![n] = None] /\ ctl' = [ctl EXCEPT ![n] = Unlocked]
      /\ live' = IF ctl[n].pc = "idle" THEN live ELSE [live EXCEPT ![n] = None]
      /\ UNCHANGED <<ledger, queued, phase>>
  BY DEF CallFails, executors
<1>2. LiveOK'
  BY <1>1, SameLoop, PutLive DEF Past
<1>3. /\ LateOK' /\ \A k \in Nodes : k # n => late'[k] = late[k]
      /\ \A x \in late'[n] : x \in late[n] \/ SameCommand(msg[n], x)
  BY <1>1, GiveUpLate DEF LoopTypes, SameCommand
<1>4. PassOK(n, Unlocked) /\ Unlocked.pc = "idle" /\ DOMAIN Unlocked.page = {}
  BY Empty DEF Unlocked
<1>5. QueuedOK' /\ (queued[n] # {} => phase = "schedule")
  BY <1>1, SameLoop DEF Phased
<1> QED BY <1>1, <1>2, <1>3, <1>4, <1>5, CalmStep

LEMMA BatchCalm ==
  ASSUME LoopTypes, Phased, NEW n \in Nodes, batch(n)
  PROVE  Calm
<1> DEFINE c == IF ctl[n].pc \in {"idle", "end"} \/ (ctl[n].pc = "start" /\ ctl[n].start = {}) THEN Unlocked ELSE ctl[n]
<1>1. msg' = [msg EXCEPT ![n] = None] /\ ctl' = [ctl EXCEPT ![n] = c] /\ UNCHANGED <<ledger, late, live, queued, phase>>
  BY DEF batch, executors
<1>2. PassOK(n, c) /\ (c.pc # "idle" => phase = "nodes") /\ (DOMAIN c.page = {} \/ c.page = ctl[n].page)
  BY Empty, NodeTypes DEF Unlocked
<1> HIDE DEF c
<1> QED BY <1>1, <1>2, SameLoop, PassStep

LEMMA ExchangeCalm ==
  ASSUME LoopTypes, Phased, NEW n \in Nodes, exchange(n)
  PROVE  Calm
<1> DEFINE m == [msg[n] EXCEPT !.delivered = TRUE]
<1>1. msg[n] # None /\ msg' = [msg EXCEPT ![n] = m] /\ UNCHANGED <<ledger, ctl, late, live, queued, phase>>
  BY DEF exchange, executors
<1>2. MsgOK(n, m) /\ SameCommand(msg[n], m) /\ m.results = msg[n].results
  BY <1>1, NodeTypes DEF MsgOK, Sent, SameCommand
<1> HIDE DEF m
<1>3. PassOK(n, ctl[n]) /\ (ctl[n].pc # "idle" => phase = "nodes") /\ ctl' = [ctl EXCEPT ![n] = ctl[n]]
  BY <1>1, NodeTypes
<1> QED BY <1>1, <1>2, <1>3, SameLoop, PassStep

LEMMA NodeCtlCalm ==
  ASSUME LoopTypes, Phased, BoardInv, NEW n \in Nodes, node(n) \/ SessionChanges(n)
  PROVE  Calm
<1>0. msg' = [msg EXCEPT ![n] = msg[n]] /\ (msg[n] = None \/ MsgOK(n, msg[n])) /\ UNCHANGED <<ledger, late, live, queued, phase>>
      /\ (msg[n] # None => SameCommand(msg[n], msg[n]))
  BY NodeTypes DEF node, SessionChanges, executors, SameCommand
<1>1. CASE node(n)
  <2> DEFINE listed == {b \in On(n) : board[b].state # "absent"}
             page == [a \in listed |-> board[a]]
             c == [Unlocked EXCEPT !.pc = "reconcile", !.ledger = ledger[n], !.bound = TRUE, !.page = page]
  <2>1. ctl' = [ctl EXCEPT ![n] = c] /\ phase = "nodes"
    BY <1>1 DEF node
  <2>2. page \in [listed -> Listed] /\ listed \in SUBSET Attempts
    BY DEF BoardInv, BoardTypes, On, Board!Unlisted
  <2>3. page \in Pages /\ DOMAIN page = listed /\ \A a \in DOMAIN page : page[a] = board[a]
    BY <2>2 DEF Pages
  <2> HIDE DEF page
  <2>4. Unlocked \in Passes /\ Unlocked.held = {} /\ Unlocked.renew = {} /\ Unlocked.start = {}
    BY Empty DEF Unlocked, PassOK
  <2>0. ledger[n] \in Nat
    BY DEF LoopTypes, LedgersOK
  <2>5. c \in Passes /\ c.page = page /\ c.ledger = ledger[n] /\ c.held = {} /\ c.renew = {} /\ c.start = {}
    BY <2>0, <2>3, <2>4 DEF Passes
  <2>6. PassOK(n, c)
    BY <2>3, <2>5 DEF PassOK, LoopTypes, LedgersOK, Past
  <2> HIDE DEF c
  <2> QED BY <1>0, <2>1, <2>3, <2>5, <2>6, SameLoop, PassStep
<1>2. CASE SessionChanges(n)
  <2> DEFINE c == [ctl[n] EXCEPT !.bound = FALSE]
  <2>1. ctl' = [ctl EXCEPT ![n] = c]
    BY <1>2 DEF SessionChanges
  <2>2. PassOK(n, c) /\ c.page = ctl[n].page /\ (c.pc # "idle" => phase = "nodes")
    BY NodeTypes DEF PassOK, Passes
  <2> HIDE DEF c
  <2> QED BY <1>0, <2>1, <2>2, SameLoop, PassStep
<1> QED BY <1>1, <1>2

(* A snapshot is taken over: the page is dropped and only attempts whose    *)
(* row is in doubt are sealed.                                              *)
LEMMA ReconcileCalm ==
  ASSUME LoopTypes, Phased, TypeOK', NEW n \in Nodes, reconcile(n)
  PROVE  Calm
<1> DEFINE open == {a \in On(n) : rec'[a].state \notin {"none", "released", "abandoned"}}
           candidates == {a \in Open(n) : /\ rec'[a].state = "unknown" /\ rec'[a].observed = None
                                          /\ ~rec'[a].start_requested /\ rec'[a].ledger_id = ctl[n].ledger}
           c == IF open = {} THEN Unlocked ELSE [ctl[n] EXCEPT !.pc = "observe", !.page = <<>>, !.held = open]
           m == Send(ctl[n].ledger, "reject_absent", candidates)
<1>1. /\ ctl' = [ctl EXCEPT ![n] = c] /\ msg' = [msg EXCEPT ![n] = m] /\ ctl[n].pc # "idle"
      /\ live' = [live EXCEPT ![n] = ctl[n].ledger] /\ UNCHANGED <<ledger, late, queued, phase>>
  BY DEF reconcile, executors
<1>2. phase = "nodes" /\ LiveOK'
  BY <1>1, NodeTypes, PutLive
<1>3. PassOK(n, c) /\ DOMAIN c.page = {}
  <2>1. PassOK(n, Unlocked) /\ DOMAIN Unlocked.page = {}
    BY Empty DEF Unlocked
  <2>2. LET d == [ctl[n] EXCEPT !.pc = "observe", !.page = <<>>, !.held = open] IN PassOK(n, d) /\ DOMAIN d.page = {}
    <3> DEFINE none == <<>>
    <3>1. none \in Pages /\ DOMAIN none = {}
      BY Empty
    <3> HIDE DEF none
    <3>2. PassOK(n, ctl[n]) /\ open \in SUBSET Attempts /\ open \subseteq On(n)
      BY NodeTypes DEF On
    <3> HIDE DEF open
    <3>3. LET d == [ctl[n] EXCEPT !.pc = "observe", !.page = none, !.held = open] IN PassOK(n, d) /\ DOMAIN d.page = {}
      BY <3>1, <3>2 DEF PassOK, Passes
    <3> QED BY <3>3 DEF none
  <2> QED BY <2>1, <2>2
<1>4. /\ m = None \/ MsgOK(n, m)
      /\ m # None => DOMAIN m.results = {} /\ \A a \in m.todo : rec'[a].state = "unknown"
  <2>1. candidates \in SUBSET On(n) /\ "reject_absent" \in Actions /\ ctl[n].ledger \in Past(n) /\ LedgersOK
    BY NodeTypes DEF Open, Actions, LoopTypes
  <2>2. \/ candidates = {} /\ m = None
        \/ MsgOK(n, m) /\ m.todo = candidates /\ m.results = <<>>
    BY <2>1, SendOK
  <2> HIDE DEF m
  <2> QED BY <2>2, Empty
<1> HIDE DEF c, m
<1> QED BY <1>1, <1>2, <1>3, <1>4, PassStep

(* A pass, or a user's release, that sends a command which takes nothing up. *)
LEMMA SendCalm ==
  ASSUME LoopTypes, Phased, TypeOK', NEW n \in Nodes, NEW c, NEW action \in Actions, NEW items \in SUBSET On(n), NEW l \in Past(n),
         action \notin {"prepare", "reject_absent"}, UNCHANGED <<ledger, late, live, queued, phase>>,
         PassOK(n, c), c.pc # "idle" => phase = "nodes", DOMAIN c.page = {} \/ c.page = ctl[n].page,
         ctl' = [ctl EXCEPT ![n] = c], msg' = [msg EXCEPT ![n] = Send(l, action, items)]
  PROVE  Calm
<1> DEFINE m == Send(l, action, items)
<1>1. \/ m = None
      \/ MsgOK(n, m) /\ m.action = action /\ m.results = <<>>
  BY SendOK DEF LoopTypes
<1>2. LiveOK' /\ DOMAIN <<>> = {}
  BY SameLoop, Empty
<1> HIDE DEF m
<1>3. m # None => m.action = action /\ DOMAIN m.results = {}
  BY <1>1, <1>2
<1>4. msg' = [msg EXCEPT ![n] = m]
  BY DEF m
<1> QED BY <1>1, <1>2, <1>3, <1>4, PassStep

LEMMA ProceedOK ==
  ASSUME NEW n \in Nodes, NEW c, PassOK(n, c), NEW sent
  PROVE  LET d == Proceed(c, sent) IN PassOK(n, d) /\ (d.pc # "idle" => d = c) /\ (DOMAIN d.page = {} \/ d.page = c.page)
<1>1. PassOK(n, Unlocked) /\ DOMAIN Unlocked.page = {} /\ Unlocked.pc = "idle"
  BY Empty DEF Unlocked
<1> QED BY <1>1 DEF Proceed

LEMMA PassesCalm ==
  ASSUME LoopTypes, Phased, TypeOK', NEW n \in Nodes, observe(n) \/ advance(n) \/ renewals(n) \/ starts(n)
  PROVE  Calm
<1>0. /\ UNCHANGED <<ledger, late, live, queued, phase>> /\ phase = "nodes" /\ ctl[n].ledger \in Past(n) /\ PassOK(n, ctl[n])
      /\ ctl[n].held \in SUBSET On(n) /\ ctl[n].renew \in SUBSET On(n) /\ ctl[n].start \in SUBSET On(n)
  <2>1. UNCHANGED <<ledger, late, live, queued, phase>> /\ ctl[n].pc # "idle"
    <3>1. CASE observe(n)
      BY <3>1 DEF observe, executors, Idle
    <3>2. CASE advance(n)
      <4>1. Idle(n) /\ UNCHANGED <<executors, late, live, queued, phase>>
        BY <3>2, Zenon DEF advance
      <4> QED BY <4>1 DEF executors, Idle
    <3>3. CASE renewals(n)
      BY <3>3 DEF renewals, executors, Idle
    <3>4. CASE starts(n)
      BY <3>4 DEF starts, executors, Idle
    <3> QED BY <3>1, <3>2, <3>3, <3>4
  <2>2. PassOK(n, ctl[n]) /\ phase = "nodes" /\ ctl[n].ledger \in Past(n)
    BY <2>1, NodeTypes
  <2>3. ctl[n].held \in SUBSET On(n) /\ ctl[n].renew \in SUBSET On(n) /\ ctl[n].start \in SUBSET On(n)
    BY <2>2 DEF PassOK
  <2> QED BY <2>1, <2>2, <2>3
<1>1. CASE observe(n)
  <2> DEFINE c == [ctl[n] EXCEPT !.pc = "advance", !.held = {}, !.bound = TRUE]
  <2>1. ctl' = [ctl EXCEPT ![n] = c] /\ msg' = [msg EXCEPT ![n] = Send(ctl[n].ledger, "observe", ctl[n].held)]
    BY <1>1 DEF observe
  <2>2. PassOK(n, c) /\ c.page = ctl[n].page
    BY <1>0 DEF PassOK, Passes
  <2> HIDE DEF c
  <2> QED BY <1>0, <2>1, <2>2, SendCalm DEF Actions
<1>2. CASE advance(n)
  <2> DEFINE going == {a \in On(n) : rec[a].state \in Active}
             unsure == {a \in On(n) : rec[a].state = "unknown" /\ (rec[a].observed = None \/ ~rec[a].observed.cleanup_confirmed)}
             start(refuse) == {a \in going \ refuse : rec[a].state = "prepared" /\ ~rec[a].start_requested /\ a \in ready}
  <2>1. PICK refuse \in SUBSET going, renews \in SUBSET going :
          /\ ctl' = [ctl EXCEPT ![n] = Proceed([@ EXCEPT !.pc = "renew", !.bound = TRUE, !.renew = renews, !.start = start(refuse)],
                                               unsure \cup refuse)]
          /\ msg' = [msg EXCEPT ![n] = Send(ctl[n].ledger, "stop", unsure \cup refuse)]
    BY <1>2, Zenon DEF advance
  <2> DEFINE sent == unsure \cup refuse
             started == start(refuse)
             d == [ctl[n] EXCEPT !.pc = "renew", !.bound = TRUE, !.renew = renews, !.start = started]
  <2>2. sent \in SUBSET On(n) /\ renews \in SUBSET On(n) /\ started \in SUBSET On(n) /\ On(n) \subseteq Attempts
    BY DEF On
  <2>3. ctl' = [ctl EXCEPT ![n] = Proceed(d, sent)] /\ msg' = [msg EXCEPT ![n] = Send(ctl[n].ledger, "stop", sent)]
    BY <2>1
  <2> HIDE DEF sent, started
  <2>4. PassOK(n, d) /\ d.page = ctl[n].page
    BY <1>0, <2>2 DEF PassOK, Passes
  <2> HIDE DEF d
  <2> DEFINE e == Proceed(d, sent)
  <2>5. PassOK(n, e) /\ (DOMAIN e.page = {} \/ e.page = ctl[n].page)
    BY <2>4, ProceedOK
  <2>6. ctl' = [ctl EXCEPT ![n] = e]
    BY <2>3
  <2> HIDE DEF e
  <2> QED BY <1>0, <2>2, <2>3, <2>5, <2>6, SendCalm DEF Actions
<1>3. CASE renewals(n)
  <2> DEFINE c == [ctl[n] EXCEPT !.pc = "start", !.renew = {}, !.bound = TRUE]
             d == Proceed(c, ctl[n].renew)
  <2>1. ctl' = [ctl EXCEPT ![n] = d] /\ msg' = [msg EXCEPT ![n] = Send(ctl[n].ledger, "renew", ctl[n].renew)]
    BY <1>3 DEF renewals
  <2>2. PassOK(n, c) /\ c.page = ctl[n].page
    BY <1>0 DEF PassOK, Passes
  <2> HIDE DEF c
  <2>3. PassOK(n, d) /\ (DOMAIN d.page = {} \/ d.page = ctl[n].page)
    BY <2>2, ProceedOK
  <2> HIDE DEF d
  <2> QED BY <1>0, <2>1, <2>3, SendCalm DEF Actions
<1>4. CASE starts(n)
  <2> DEFINE c == [ctl[n] EXCEPT !.pc = "end", !.start = {}, !.bound = TRUE]
             d == Proceed(c, ctl[n].start)
  <2>1. ctl' = [ctl EXCEPT ![n] = d] /\ msg' = [msg EXCEPT ![n] = Send(ctl[n].ledger, "start", ctl[n].start)]
    BY <1>4 DEF starts
  <2>2. PassOK(n, c) /\ c.page = ctl[n].page
    BY <1>0 DEF PassOK, Passes
  <2> HIDE DEF c
  <2>3. PassOK(n, d) /\ (DOMAIN d.page = {} \/ d.page = ctl[n].page)
    BY <2>2, ProceedOK
  <2> HIDE DEF d
  <2> QED BY <1>0, <2>1, <2>3, SendCalm DEF Actions
<1> QED BY <1>1, <1>2, <1>3, <1>4

LEMMA AbortsCalm ==
  ASSUME LoopTypes, Phased, NEW n \in Nodes, aborts(n)
  PROVE  Calm
<1>1. /\ ctl' = [ctl EXCEPT ![n] = Unlocked] /\ live' = [live EXCEPT ![n] = None] /\ UNCHANGED <<ledger, late, queued, phase, msg>>
      /\ msg[n] = None
  BY DEF aborts, executors, Idle
<1>2. LiveOK' /\ msg' = [msg EXCEPT ![n] = None]
  BY <1>1, PutLive, NodeTypes DEF Past
<1>3. PassOK(n, Unlocked) /\ Unlocked.pc = "idle" /\ DOMAIN Unlocked.page = {}
  BY Empty DEF Unlocked
<1> QED BY <1>1, <1>2, <1>3, PassStep

LEMMA ReleaseCalm ==
  ASSUME PlanAssumption, LoopTypes, Phased, TypeOK', NEW a \in Attempts, release(a)
  PROVE  Calm
<1> DEFINE n == NodeOf[a]
           c == [ctl[n] EXCEPT !.bound = TRUE]
<1>1. /\ ctl' = [ctl EXCEPT ![n] = c] /\ msg' = [msg EXCEPT ![n] = Send(live[n], "release", {a})]
      /\ UNCHANGED <<ledger, late, live, queued, phase>>
  BY DEF release, executors
<1>2. n \in Nodes /\ {a} \in SUBSET On(n)
  BY DEF PlanAssumption, On
<1>3. PassOK(n, c) /\ c.page = ctl[n].page /\ (c.pc # "idle" => phase = "nodes") /\ live[n] \in Past(n)
  <2>1. PassOK(n, ctl[n]) /\ (ctl[n].pc # "idle" => phase = "nodes") /\ live[n] \in Past(n)
    BY <1>2, NodeTypes
  <2> HIDE DEF n
  <2> QED BY <2>1 DEF PassOK, Passes
<1> HIDE DEF n, c
<1> QED BY <1>1, <1>2, <1>3, SendCalm DEF Actions

(* What was reserved is sent for preparation, once. *)
LEMMA DispatchCalm ==
  ASSUME LoopTypes, Phased, TypeOK', NEW n \in Nodes, dispatch(n)
  PROVE  Calm
<1> DEFINE c == [ctl[n] EXCEPT !.bound = TRUE]
           m == Send(live[n], "prepare", queued[n])
<1>1. /\ ctl' = [ctl EXCEPT ![n] = c] /\ msg' = [msg EXCEPT ![n] = m] /\ queued' = [queued EXCEPT ![n] = {}]
      /\ UNCHANGED <<ledger, late, live, phase>>
  BY DEF dispatch, executors
<1>2. PassOK(n, c) /\ c.page = ctl[n].page /\ (c.pc # "idle" => phase = "nodes") /\ live[n] \in Past(n)
  BY NodeTypes DEF PassOK, Passes
<1>3. m = None \/ (MsgOK(n, m) /\ m.todo = queued[n] /\ m.results = <<>>)
  BY <1>2, NodeTypes, SendOK DEF LoopTypes, Actions
<1>4. LiveOK' /\ LateOK' /\ DOMAIN <<>> = {}
  BY <1>1, SameLoop, Empty
<1>5. QueuedOK' /\ queued'[n] = {} /\ \A k \in Nodes : k # n => queued'[k] = queued[k]
  BY <1>1 DEF LoopTypes, QueuedOK, On
<1> HIDE DEF c, m
<1>6. m # None => DOMAIN m.results = {} /\ \A a \in m.todo : a \in queued[n] /\ a \notin queued'[n]
  BY <1>3, <1>4, <1>5
<1> QED BY <1>1, <1>2, <1>3, <1>4, <1>5, <1>6, CalmStep

LEMMA PlacementCalm ==
  ASSUME PlanAssumption, LoopTypes, Phased, TypeOK, NEW a \in Attempts, placement(a)
  PROVE  Calm
<1> DEFINE n == NodeOf[a]
<1>1. /\ queued' = [queued EXCEPT ![n] = {a}] /\ phase = "schedule" /\ reserve(a, live[n])
      /\ UNCHANGED <<ledger, ctl, msg, late, live, phase>>
  BY DEF placement, executors
<1>2. n \in Nodes /\ a \in On(n)
  BY DEF PlanAssumption, On
<1>3. QueuedOK' /\ queued'[n] = {a} /\ \A k \in Nodes : k # n => queued'[k] = queued[k]
  BY <1>1, <1>2 DEF LoopTypes, QueuedOK, On
<1>4. Placed(a)
  BY <1>1 DEF reserve, Placed, TypeOK, NoRow
<1>5. LoopTypes'
  BY <1>1, <1>3, SameLoop DEF LoopTypes
<1>6. \A k \in Nodes : k # n => NodeCalm(k)
  BY <1>1, <1>3, SameNode
<1>7. NodeCalm(n)
  <2>1. ctl[n].pc # "idle" => phase = "nodes"
    BY <1>2 DEF Phased
  <2> HIDE DEF n
  <2> QED BY <1>1, <1>2, <1>3, <1>4, <2>1 DEF NodeCalm, SameCommand
<1> QED BY <1>5, <1>6, <1>7 DEF Calm

(* Steps of users, executors and the sweep, which leave the loop alone. *)
LEMMA OutsideCalm ==
  ASSUME LoopTypes, Phased, UNCHANGED <<ledger, ctl, msg, late, live, queued, phase>>
  PROVE  Calm
<1>1. LoopTypes'
  BY SameLoop DEF LoopTypes
<1> QED BY <1>1, SameNode DEF Calm

LEMMA PollCalm ==
  ASSUME LoopTypes, Phased, poll
  PROVE  Calm
<1>1. UNCHANGED <<ledger, ctl, msg, late, live, queued>>
  BY DEF poll, executors
<1>2. LoopTypes'
  BY <1>1, SameLoop DEF LoopTypes
<1>3. \A n \in Nodes : (queued'[n] # {} => phase' = "schedule") /\ (ctl'[n].pc # "idle" => phase' = "nodes")
  BY <1>1 DEF poll, Phased, Dispatching
<1> QED BY <1>1, <1>2, <1>3 DEF Calm, NodeCalm, SameCommand

LEMMA RestartCalm ==
  ASSUME LoopTypes, Phased, NEW n \in Nodes, Restart(n)
  PROVE  Calm
<1>1. /\ \A m \in Nodes \ {n} : msg[m] = None
      /\ GiveUp(n) /\ msg' = [m \in Nodes |-> None] /\ ctl' = [m \in Nodes |-> Unlocked] /\ live' = [m \in Nodes |-> None]
      /\ queued' = [m \in Nodes |-> {}] /\ phase' = "nodes" /\ ledger' = ledger
  BY DEF Restart, executors
<1>2. /\ LateOK' /\ \A k \in Nodes : k # n => late'[k] = late[k]
      /\ \A x \in late'[n] : x \in late[n] \/ SameCommand(msg[n], x)
  BY <1>1, GiveUpLate DEF LoopTypes, SameCommand
<1>3. LedgersOK' /\ LiveOK' /\ MsgsOK' /\ QueuedOK'
  BY <1>1, SameLoop DEF LiveOK, MsgsOK, QueuedOK, Past, On
<1>4. CtlOK'
  <2>1. \A k \in Nodes : PassOK(k, Unlocked)
    BY Empty
  <2>2. \A k \in Nodes : ctl'[k] = Unlocked
    BY <1>1
  <2>3. ctl' \in [Nodes -> Passes]
    BY <1>1, <2>1 DEF PassOK
  <2>4. \A k \in Nodes : (PassOK(k, ctl[k]))'
    BY <1>1, <2>1, <2>2 DEF PassOK, Past, On
  <2> QED BY <2>3, <2>4 DEF CtlOK
<1>5. DOMAIN Unlocked.page = {} /\ Unlocked.pc = "idle"
  BY Empty DEF Unlocked
<1>6. \A k \in Nodes : NodeCalm(k)
  BY <1>1, <1>2, <1>5 DEF NodeCalm
<1> QED BY <1>2, <1>3, <1>4, <1>6 DEF Calm, LoopTypes

-----------------------------------------------------------------------------
(* What every step does to the places where an attempt can come to life *)

Reports(n, a) ==
  \/ msg[n] # None /\ a \in DOMAIN msg[n].results /\ msg[n].results[a].state = "released"
  \/ a \in DOMAIN ctl[n].page /\ ctl[n].page[a].state = "released"

(* A released record stays, unless its executor is installed again; an      *)
(* attempt is taken up only when it was asked for, asked for only when it   *)
(* was queued or is to be sealed, and queued only when it is placed.        *)
AttemptStep(a) ==
  LET n == NodeOf[a] IN
  /\ board[a].state = "released" =>
       board'[a].state = "released" \/ (board'[a].state = "absent" /\ ~Asked(a)' /\ queued' = queued)
  /\ board[a].state = "absent" /\ ~Asked(a) => board'[a].state = "absent"
  /\ Asked(a)' => Asked(a) \/ (a \in queued[n] /\ a \notin queued'[n]) \/ Sealing(a)
  /\ a \in queued'[n] => a \in queued[n] \/ Placed(a)

ReportStep ==
  \A n \in Nodes, a \in Attempts : Reports(n, a)' => Reports(n, a) \/ (board[a].state # "absent" /\ board'[a].state = "released")

(* An item of a command, as it stands in the command x. *)
ItemOf(x, m, a) == x.action = m.action /\ x.ledger = m.ledger /\ x.lease[a] = m.lease[a] /\ a \in x.todo

Carried(n, m, a) == (msg[n] # None /\ ItemOf(msg[n], m, a)) \/ \E x \in late[n] : ItemOf(x, m, a)

NewCommand(n) == msg'[n] # None /\ DOMAIN msg'[n].results = {} /\ ~SameCommand(msg[n], msg'[n])

(* Commands nobody waits for were pending, and a pending one is carried on  *)
(* or sent anew.                                                            *)
CommandStep ==
  \A n \in Nodes :
    /\ \A m \in late'[n] : \A a \in m.todo : Carried(n, m, a)
    /\ msg'[n] # None => NewCommand(n) \/ \A a \in msg'[n].todo : Carried(n, msg'[n], a)

(* A pending reply or a pass's snapshot holds the record r of a. *)
Says(n, a, r) ==
  \/ msg[n] # None /\ a \in DOMAIN msg[n].results /\ msg[n].results[a] # Refused /\ r = msg[n].results[a]
  \/ a \in DOMAIN ctl[n].page /\ r = ctl[n].page[a]

(* What is reported is what the executor lists when it says so. *)
SaysStep ==
  \A n \in Nodes, a \in Attempts : \A r : Says(n, a, r)' =>
    \/ Says(n, a, r)
    \/ r = board'[a] /\ (board[a].state # "absent" \/ (msg[n] # None /\ a \in msg[n].todo))

LoopStep ==
  /\ LoopTypes' /\ Phased' /\ BoardInv' /\ (\A a \in Attempts : AttemptStep(a)) /\ ReportStep
  /\ CommandStep /\ SaysStep

LEMMA CalmLoop ==
  ASSUME PlanAssumption, LoopTypes, BoardInv', Calm, ledger' = ledger, board' = board \/ ctl' = ctl,
         \A a \in Attempts : board[a].state \in {"absent", "released"} => board'[a] = board[a]
  PROVE  LoopStep
<1>1. Phased'
  BY DEF Calm, NodeCalm, Phased
<1>2. ASSUME NEW a \in Attempts PROVE AttemptStep(a)
  <2> DEFINE n == NodeOf[a]
  <2>1. NodeCalm(n) /\ n \in Nodes
    BY DEF Calm, PlanAssumption
  <2>2. ASSUME Asked(a)' PROVE Asked(a) \/ (a \in queued[n] /\ a \notin queued'[n]) \/ Sealing(a)
    <3>1. CASE msg'[n] # None /\ Takes(msg[n], a)'
      BY <2>1, <3>1 DEF NodeCalm, Takes, Asked, SameCommand, Sealing
    <3>2. CASE \E m \in late'[n] : Takes(m, a)'
      BY <2>1, <3>2 DEF NodeCalm, Takes, Asked, SameCommand
    <3> QED BY <2>2, <3>1, <3>2 DEF Asked
  <2>3. a \in queued'[n] => a \in queued[n] \/ Placed(a)
    BY <2>1 DEF NodeCalm
  <2> QED BY <2>2, <2>3 DEF AttemptStep
<1>3. ASSUME NEW n \in Nodes, NEW a \in Attempts, Reports(n, a)'
      PROVE  Reports(n, a) \/ (board[a].state # "absent" /\ board'[a].state = "released")
  <2>1. NodeCalm(n)
    BY DEF Calm
  <2>2. CASE msg'[n] # None /\ a \in DOMAIN msg'[n].results /\ msg'[n].results[a].state = "released"
    BY <2>1, <2>2 DEF NodeCalm, SameCommand, Reports
  <2>3. CASE a \in DOMAIN ctl'[n].page /\ ctl'[n].page[a].state = "released"
    BY <2>1, <2>3 DEF NodeCalm, Reports
  <2> QED BY <1>3, <2>2, <2>3 DEF Reports
<1>4. CommandStep
  <2> SUFFICES ASSUME NEW n \in Nodes
               PROVE  /\ \A m \in late'[n] : \A a \in m.todo : Carried(n, m, a)
                      /\ msg'[n] # None => NewCommand(n) \/ \A a \in msg'[n].todo : Carried(n, msg'[n], a)
    BY DEF CommandStep
  <2>1. NodeCalm(n)
    BY DEF Calm
  <2>2. \A m \in late'[n] : \A a \in m.todo : Carried(n, m, a)
    BY <2>1 DEF NodeCalm, SameCommand, Carried, ItemOf
  <2>3. ASSUME msg'[n] # None, ~NewCommand(n), NEW a \in msg'[n].todo PROVE Carried(n, msg'[n], a)
    <3>1. SameCommand(msg[n], msg'[n])
      BY <2>1, <2>3 DEF NodeCalm, NewCommand
    <3> QED BY <2>3, <3>1 DEF SameCommand, Carried, ItemOf
  <2> QED BY <2>2, <2>3
<1>5. SaysStep
  <2> SUFFICES ASSUME NEW n \in Nodes, NEW a \in Attempts, NEW r, Says(n, a, r)'
               PROVE  Says(n, a, r) \/ (r = board'[a] /\ board[a].state # "absent")
    BY DEF SaysStep
  <2>1. NodeCalm(n)
    BY DEF Calm
  <2>2. CASE msg'[n] # None /\ a \in DOMAIN msg'[n].results /\ msg'[n].results[a] # Refused /\ r = msg'[n].results[a]
    BY <2>1, <2>2 DEF NodeCalm, SameCommand, Says
  <2>3. CASE a \in DOMAIN ctl'[n].page /\ r = ctl'[n].page[a]
    <3>1. ctl'[n].page \in Pages
      BY DEF Calm, LoopTypes, CtlOK, Passes
    <3>2. ctl'[n].page[a] \in Listed
      BY <2>3, <3>1 DEF Pages
    <3>3. r.state # "absent"
      BY <2>3, <3>2 DEF Listed, Board!Going, Board!Final
    <3> QED BY <2>1, <2>3, <3>3 DEF NodeCalm, Says
  <2> QED BY <2>2, <2>3 DEF Says
<1> QED BY <1>1, <1>2, <1>3, <1>4, <1>5 DEF LoopStep, ReportStep, Calm

LEMMA HandleTakes ==
  ASSUME LoopAssumption, BoardInv, NEW a \in Attempts, NEW action, NEW seq \in Nat, Handle(action, a, seq), board[a].state = "absent"
  PROVE  board'[a].state # "released"
<1>1. Board!AdmitPlan(a, 0) \/ Board!SealPlan(a)
  BY DEF Handle, Board!ExtendLease, Board!AcceptStart, Board!FreeAttempt, Board!Settle, Board!Going, Board!Final
<1>2. board[a] = Board!Unlisted /\ board \in [Attempts -> Listed \cup {Board!Unlisted}]
  BY TakenUp DEF BoardInv, BoardTypes
<1> QED BY <1>1, <1>2 DEF Board!AdmitPlan, Board!SealPlan, Board!Unlisted

(* An executor works on one item of a command that is for it, or answers    *)
(* what it has already.                                                     *)
LEMMA ItemBoard ==
  ASSUME PlanAssumption, LoopAssumption, BoardInv, NEW n \in Nodes, NEW m, NEW a \in On(n), NEW seq \in Nat,
         a \in m.todo, Binds(n, m), Handle(m.action, a, seq) \/ UNCHANGED <<board, alive, spent>>
  PROVE  /\ BoardInv' /\ \A b \in Attempts : b # a => board'[b] = board[b]
         /\ board[a].state = "released" => board'[a].state = "released"
         /\ board[a].state = "absent" => board'[a].state # "released" /\ (board'[a].state = "absent" \/ Takes(m, a))
<1>0. a \in Attempts /\ NodeOf[a] = n
  BY DEF On
<1>1. CASE Handle(m.action, a, seq)
  <2>1. /\ BoardInv' /\ Writes(a)
        /\ board[a].state = "absent" => m.action \in {"prepare", "reject_absent"} /\ board'[a].state # "released"
    BY <1>0, <1>1, HandleBoard, HandleTakes
  <2>2. \A b \in Attempts : b # a => board'[b] = board[b]
    BY <1>0, <2>1 DEF Writes, BoardInv, BoardTypes
  <2> QED BY <1>0, <2>1, <2>2 DEF Writes, Binds, Takes
<1>2. CASE UNCHANGED <<board, alive, spent>>
  BY <1>2 DEF BoardInv, BoardTypes, AliveUnsettled
<1> QED BY <1>1, <1>2

(* The answer that leaves the ledger alone is a listed record or a refusal. *)
LEMMA KeptAnswer ==
  ASSUME BoardInv, NEW a \in Attempts, NEW action, NEW r \in Kept(action, a)
  PROVE  r = Refused \/ (r = board[a] /\ r \in Listed /\ r.state # "absent")
<1>1. board[a].state # "absent" => board[a] \in Listed
  BY DEF BoardInv, BoardTypes, Board!Unlisted
<1>2. r = Refused \/ (r = board[a] /\ board[a].state # "absent")
  BY DEF Kept
<1> QED BY <1>1, <1>2

LEMMA ServeLoop ==
  ASSUME PlanAssumption, LoopAssumption, LoopTypes, Phased, BoardInv, NEW n \in Nodes, NEW a \in Attempts, serve(n, a)
  PROVE  LoopStep
<1> DEFINE m == msg[n]
<1>0. /\ m # None /\ m.delivered /\ a \in m.todo /\ Binds(n, m)
      /\ UNCHANGED <<ledger, ctl, late, live, queued, phase>>
  BY DEF serve
<1> DEFINE results(r) == [b \in DOMAIN m.results \cup {a} |-> IF b # a THEN m.results[b] ELSE IF r = None THEN board'[a] ELSE r]
           after(r) == [m EXCEPT !.todo = @ \ {a}, !.results = results(r)]
<1>1. PICK r \in Kept(m.action, a) \cup {None} :
        /\ IF r = None THEN Handle(m.action, a, m.lease[a]) ELSE UNCHANGED <<board, alive, spent>>
        /\ msg' = [msg EXCEPT ![n] = after(r)]
  BY Zenon DEF serve
<1>2. MsgOK(n, m) /\ a \in On(n) /\ m.lease[a] \in Nat
  <2>1. MsgOK(n, m)
    BY <1>0, NodeTypes
  <2> QED BY <1>0, <2>1 DEF MsgOK, Sent, Leases
<1>3. /\ BoardInv' /\ \A b \in Attempts : b # a => board'[b] = board[b]
      /\ board[a].state = "released" => board'[a].state = "released"
      /\ board[a].state = "absent" => board'[a].state # "released" /\ (board'[a].state = "absent" \/ Takes(m, a))
  BY <1>0, <1>1, <1>2, ItemBoard
<1> DEFINE answer == IF r = None THEN board'[a] ELSE r
<1>4. /\ answer \in Listed \cup {Refused}
      /\ answer.state = "released" => board[a].state # "absent" /\ board'[a].state = "released"
  <2>1. CASE r = None
    <3>1. Writes(a)
      BY <1>1, <1>2, <2>1, HandleBoard
    <3> QED BY <1>3, <2>1, <3>1 DEF Writes
  <2>2. CASE r # None
    <3>1. r = Refused \/ (r = board[a] /\ r \in Listed /\ r.state # "absent")
      BY <1>1, <2>2, KeptAnswer
    <3>2. Refused.state = "refused" /\ board' = board
      BY <1>1, <2>2 DEF Refused, Board!Unlisted
    <3> QED BY <2>2, <3>1, <3>2
  <2> QED BY <2>1, <2>2
<1> DEFINE new == [b \in DOMAIN m.results \cup {a} |-> IF b # a THEN m.results[b] ELSE answer]
           next == [m EXCEPT !.todo = @ \ {a}, !.results = new]
<1>5. msg' = [msg EXCEPT ![n] = next]
  BY <1>1
<1> HIDE DEF answer
<1>6. new \in Answers /\ DOMAIN new = DOMAIN m.results \cup {a} /\ new[a] = answer /\ \A b \in DOMAIN m.results : b # a => new[b] = m.results[b]
  <2>1. PICK S \in SUBSET Attempts : m.results \in [S -> Listed \cup {Refused}]
    BY <1>2 DEF MsgOK, Sent, Answers
  <2>2. new \in [S \cup {a} -> Listed \cup {Refused}] /\ S \cup {a} \in SUBSET Attempts
    BY <1>4, <2>1
  <2>3. new \in Answers
    BY <2>2 DEF Answers
  <2> QED BY <2>3
<1> HIDE DEF new
<1>7. /\ MsgOK(n, next) /\ next.action = m.action /\ next.ledger = m.ledger /\ next.todo = m.todo \ {a} /\ next.results = new
      /\ next.lease = m.lease
  <2>1. m \in Sent /\ m.todo \in SUBSET Attempts
    BY <1>2 DEF MsgOK, Sent
  <2> HIDE DEF m
  <2>2. /\ next.action = m.action /\ next.ledger = m.ledger /\ next.todo = m.todo \ {a} /\ next.results = new
        /\ next.items = m.items /\ next.lease = m.lease
    BY <2>1 DEF Sent
  <2>3. next \in Sent
    BY <1>6, <2>1 DEF Sent
  <2> HIDE DEF next
  <2>4. DOMAIN new = m.items \ next.todo
    BY <1>0, <1>2, <1>6, <2>2 DEF MsgOK
  <2> QED BY <1>2, <2>2, <2>3, <2>4 DEF MsgOK
<1> HIDE DEF next
<1>8. MsgsOK' /\ msg'[n] = next /\ \A k \in Nodes : k # n => msg'[k] = msg[k]
  BY <1>0, <1>5, <1>7, PutMsg DEF LoopTypes
<1>9. LoopTypes' /\ Phased'
  BY <1>0, <1>8, SameLoop DEF LoopTypes, Phased
<1>10. ASSUME NEW b \in Attempts PROVE AttemptStep(b)
  <2>1. Asked(b)' => Asked(b)
    <3> DEFINE k == NodeOf[b]
    <3>1. k \in Nodes
      BY DEF PlanAssumption
    <3>2. msg'[k] # None /\ Takes(msg[k], b)' => msg[k] # None /\ Takes(msg[k], b)
      BY <1>0, <1>7, <1>8, <3>1 DEF Takes
    <3>3. \A x \in late[k] : Takes(x, b)' <=> Takes(x, b)
      BY <1>0 DEF Takes
    <3> QED BY <1>0, <3>2, <3>3 DEF Asked
  <2>2. Takes(m, a) => Asked(a)
    BY <1>0, <1>2 DEF Asked, On
  <2> QED BY <1>0, <1>3, <2>1, <2>2 DEF AttemptStep
<1>11. ReportStep
  <2> SUFFICES ASSUME NEW k \in Nodes, NEW b \in Attempts, Reports(k, b)'
               PROVE  Reports(k, b) \/ (board[b].state # "absent" /\ board'[b].state = "released")
    BY DEF ReportStep
  <2>1. CASE k = n /\ b = a
    BY <1>0, <1>4, <1>6, <1>7, <1>8, <2>1 DEF Reports
  <2>2. CASE ~(k = n /\ b = a)
    BY <1>0, <1>6, <1>7, <1>8, <2>2 DEF Reports
  <2> QED BY <2>1, <2>2
<1>12. CommandStep
  <2> SUFFICES ASSUME NEW k \in Nodes
               PROVE  /\ \A x \in late'[k] : \A b \in x.todo : Carried(k, x, b)
                      /\ msg'[k] # None => \A b \in msg'[k].todo : Carried(k, msg'[k], b)
    BY DEF CommandStep
  <2>1. \A x \in late'[k] : \A b \in x.todo : Carried(k, x, b)
    BY <1>0 DEF Carried, ItemOf
  <2>2. CASE k = n
    BY <1>0, <1>7, <1>8, <2>1, <2>2 DEF Carried, ItemOf
  <2>3. CASE k # n
    BY <1>8, <2>1, <2>3 DEF Carried, ItemOf
  <2> QED BY <2>2, <2>3
<1>13. SaysStep
  <2> SUFFICES ASSUME NEW k \in Nodes, NEW b \in Attempts, NEW x, Says(k, b, x)'
               PROVE  Says(k, b, x) \/ (x = board'[b] /\ msg[k] # None /\ b \in msg[k].todo)
    BY DEF SaysStep
  <2>1. CASE k = n /\ b = a
    <3>1. answer # Refused => answer = board'[a]
      <4>1. CASE r = None
        BY <4>1 DEF answer
      <4>2. CASE r # None
        BY <1>1, <4>2, KeptAnswer DEF answer
      <4> QED BY <4>1, <4>2
    <3>2. CASE msg'[n].results[a] # Refused /\ x = msg'[n].results[a]
      BY <1>0, <1>6, <1>7, <1>8, <2>1, <3>1, <3>2
    <3> QED BY <1>0, <2>1, <3>2 DEF Says
  <2>2. CASE ~(k = n /\ b = a)
    BY <1>0, <1>6, <1>7, <1>8, <2>2 DEF Says
  <2> QED BY <2>1, <2>2
<1> QED BY <1>3, <1>9, <1>10, <1>11, <1>12, <1>13 DEF LoopStep

(* A command the controller gave up on is still executed, item by item. *)
LEMMA ServeLateLoop ==
  ASSUME PlanAssumption, LoopAssumption, LoopTypes, Phased, BoardInv, NEW n \in Nodes, NEW m \in late[n], serve_late(n, m)
  PROVE  LoopStep
<1>0. UNCHANGED <<ledger, ctl, msg, live, queued, phase>> /\ RestOK(n, m) /\ late \in [Nodes -> SUBSET Rest]
  BY DEF serve_late, LoopTypes, LateOK
<1> DEFINE rest(a) == [m EXCEPT !.todo = @ \ {a}]
           Shorter(x) == x.action = m.action /\ x.ledger = m.ledger /\ x.todo \subseteq m.todo /\ x.lease = m.lease
           BoardStep == /\ BoardInv'
                        /\ \A b \in Attempts : /\ board[b].state = "released" => board'[b].state = "released"
                                               /\ board[b].state = "absent" /\ ~Asked(b) => board'[b].state = "absent"
<1>1. /\ BoardStep /\ LateOK' /\ (\A k \in Nodes : k # n => late'[k] = late[k])
      /\ \A x \in late'[n] : x \in late[n] \/ Shorter(x)
  <2>1. CASE late' = [late EXCEPT ![n] = @ \ {m}] /\ UNCHANGED <<board, alive, spent>>
    <3>1. BoardStep
      BY <2>1 DEF BoardInv, BoardTypes, AliveUnsettled
    <3>2. late'[n] = late[n] \ {m} /\ (\A k \in Nodes : k # n => late'[k] = late[k]) /\ late' \in [Nodes -> SUBSET Rest]
      BY <1>0, <2>1
    <3>3. LateOK'
      BY <1>0, <3>2 DEF LoopTypes, LateOK, RestOK, Past, On
    <3> QED BY <3>1, <3>2, <3>3
  <2>2. ASSUME NEW a \in m.todo, Binds(n, m), Handle(m.action, a, m.lease[a]) \/ UNCHANGED <<board, alive, spent>>,
               late' = [late EXCEPT ![n] = (@ \ {m}) \cup (IF m.todo = {a} THEN {} ELSE {rest(a)})]
        PROVE  /\ BoardStep /\ LateOK' /\ (\A k \in Nodes : k # n => late'[k] = late[k])
               /\ \A x \in late'[n] : x \in late[n] \/ Shorter(x)
    <3>1. a \in On(n) /\ m.lease[a] \in Nat /\ a \in Attempts /\ NodeOf[a] = n
      BY <1>0 DEF RestOK, Rest, Leases, On
    <3>2. /\ BoardInv' /\ \A b \in Attempts : b # a => board'[b] = board[b]
          /\ board[a].state = "released" => board'[a].state = "released"
          /\ board[a].state = "absent" => board'[a].state = "absent" \/ Takes(m, a)
      BY <2>2, <3>1, ItemBoard
    <3>3. Takes(m, a) => Asked(a)
      BY <3>1 DEF Asked
    <3>4. BoardStep
      BY <3>2, <3>3
    <3> DEFINE r == rest(a)
    <3>5. RestOK(n, r) /\ r \in Rest /\ Shorter(r)
      BY <1>0 DEF RestOK, Rest
    <3> HIDE DEF r
    <3>6. late' = [late EXCEPT ![n] = (@ \ {m}) \cup (IF m.todo = {a} THEN {} ELSE {r})]
      BY <2>2 DEF r
    <3>7. /\ late'[n] \subseteq late[n] \cup {r} /\ (\A k \in Nodes : k # n => late'[k] = late[k])
          /\ late' \in [Nodes -> SUBSET Rest]
      BY <1>0, <3>5, <3>6
    <3>8. LateOK'
      <4>1. \A k \in Nodes : \A x \in late'[k] : RestOK(k, x)
        BY <3>5, <3>7 DEF LoopTypes, LateOK
      <4> QED BY <1>0, <3>7, <4>1 DEF LateOK, RestOK, Past, On
    <3> QED BY <3>4, <3>5, <3>7, <3>8
  <2> QED BY <2>1, <2>2, Zenon DEF serve_late
<1>2. LoopTypes' /\ Phased'
  BY <1>0, <1>1, SameLoop DEF LoopTypes, Phased
<1>3. ASSUME NEW b \in Attempts PROVE AttemptStep(b)
  <2>1. Asked(b)' => Asked(b)
    <3> DEFINE k == NodeOf[b]
    <3>1. k \in Nodes
      BY DEF PlanAssumption
    <3>2. msg'[k] # None /\ Takes(msg[k], b)' => msg[k] # None /\ Takes(msg[k], b)
      BY <1>0 DEF Takes
    <3>3. ASSUME NEW x \in late'[k], Takes(x, b)' PROVE \E y \in late[k] : Takes(y, b)
      <4>1. x \in late[k] \/ (k = n /\ Shorter(x))
        BY <1>1, <3>1
      <4> QED BY <1>0, <3>3, <4>1 DEF Takes
    <3> QED BY <3>2, <3>3 DEF Asked
  <2> QED BY <1>0, <1>1, <2>1 DEF AttemptStep
<1>4. ReportStep
  BY <1>0 DEF ReportStep, Reports
<1>5. CommandStep
  BY <1>0, <1>1 DEF CommandStep, Carried, ItemOf
<1>6. SaysStep
  BY <1>0 DEF SaysStep, Says
<1> QED BY <1>1, <1>2, <1>3, <1>4, <1>5, <1>6 DEF LoopStep

(* An executor comes back with an empty ledger: no command on its way was   *)
(* sent for that one.                                                       *)
LEMMA ReinstallLoop ==
  ASSUME PlanAssumption, LoopAssumption, LoopTypes, Phased, BoardInv, NEW n \in Nodes, Reinstall(n)
  PROVE  LoopStep
<1>0. /\ UNCHANGED <<ctl, msg, late, live, queued, phase>> /\ ledger[n] < MaxLedgers /\ ledger' = [ledger EXCEPT ![n] = @ + 1]
      /\ board' = [a \in Attempts |-> IF NodeOf[a] = n THEN Board!Unlisted ELSE board[a]]
      /\ alive' = alive \ On(n)
  BY DEF Reinstall, runner
<1>1. /\ ledger'[n] = ledger[n] + 1 /\ (\A k \in Nodes : k # n => ledger'[k] = ledger[k])
      /\ ledger' \in [Nodes -> 1..MaxLedgers] /\ \A k \in Nodes : ledger[k] \in Nat /\ ledger'[k] \in Nat
  BY <1>0 DEF LoopTypes, LedgersOK, LoopAssumption
<1>2. \A k \in Nodes : Past(k) \subseteq Past(k)'
  BY <1>1 DEF Past
<1>3. LoopTypes'
  <2>1. LedgersOK' /\ LiveOK' /\ QueuedOK'
    BY <1>0, <1>1, <1>2 DEF LoopTypes, LedgersOK, LiveOK, QueuedOK, On
  <2>2. CtlOK'
    BY <1>0, <1>2 DEF LoopTypes, CtlOK, PassOK, On
  <2>3. MsgsOK'
    BY <1>0, <1>2 DEF LoopTypes, MsgsOK, MsgOK, On
  <2>4. LateOK'
    BY <1>0, <1>2 DEF LoopTypes, LateOK, RestOK, On
  <2> QED BY <2>1, <2>2, <2>3, <2>4 DEF LoopTypes
<1>4. Phased'
  BY <1>0 DEF Phased
<1>5. BoardInv'
  <2>1. BoardTypes'
    BY <1>0 DEF BoardInv, BoardTypes
  <2>2. AliveUnsettled'
    BY <1>0 DEF BoardInv, BoardTypes, AliveUnsettled, On
  <2> QED BY <2>1, <2>2 DEF BoardInv
<1>6. ASSUME NEW b \in Attempts PROVE AttemptStep(b)
  <2> DEFINE k == NodeOf[b]
  <2>0. k \in Nodes
    BY DEF PlanAssumption
  <2>1. CASE k = n
    <3>1. board'[b].state = "absent"
      BY <1>0, <2>1 DEF Board!Unlisted
    <3>2. ledger[n] + 1 \notin Past(n) /\ ledger'[k] = ledger[n] + 1
      BY <1>1, <2>1 DEF Past, LoopAssumption
    <3>3. msg[k] # None => ~Takes(msg[k], b)'
      BY <1>0, <2>1, <3>2 DEF LoopTypes, MsgsOK, MsgOK, Takes
    <3>4. \A x \in late[k] : ~Takes(x, b)'
      BY <2>1, <3>2 DEF LoopTypes, LateOK, RestOK, Takes
    <3>5. ~Asked(b)'
      BY <1>0, <3>3, <3>4 DEF Asked
    <3> QED BY <1>0, <3>1, <3>5 DEF AttemptStep
  <2>2. CASE k # n
    <3>1. board'[b] = board[b]
      BY <1>0, <2>2
    <3>2. \A x : Takes(x, b)' <=> Takes(x, b)
      BY <1>1, <2>0, <2>2 DEF Takes
    <3>3. (msg[k] # None /\ Takes(msg[k], b))' <=> msg[k] # None /\ Takes(msg[k], b)
      BY <1>0, <1>1, <2>0, <2>2 DEF Takes
    <3>4. Asked(b)' <=> Asked(b)
      BY <1>0, <3>2, <3>3 DEF Asked
    <3> QED BY <1>0, <3>1, <3>4 DEF AttemptStep
  <2> QED BY <2>1, <2>2
<1>7. ReportStep
  BY <1>0 DEF ReportStep, Reports
<1>8. CommandStep
  BY <1>0 DEF CommandStep, Carried, ItemOf
<1>9. SaysStep
  BY <1>0 DEF SaysStep, Says
<1> QED BY <1>3, <1>4, <1>5, <1>6, <1>7, <1>8, <1>9 DEF LoopStep

LEMMA NextLoop ==
  ASSUME PlanAssumption, LoopAssumption, LoopTypes, Phased, BoardInv, TypeOK, TypeOK', [CWNext]_vars
  PROVE  LoopStep
<1> DEFINE Quiet == BoardInv' /\ ledger' = ledger /\ \A a \in Attempts : board[a].state \in {"absent", "released"} => board'[a] = board[a]
<1>0. ASSUME UNCHANGED executors PROVE Quiet /\ board' = board
  BY <1>0 DEF executors, BoardInv, BoardTypes, AliveUnsettled
<1>1. CASE UNCHANGED vars
  <2>1. UNCHANGED executors /\ Calm
    BY <1>1, OutsideCalm DEF vars, runner, executors
  <2> QED BY <1>0, <2>1, CalmLoop
<1>2. CASE user
  <2>1. UNCHANGED executors /\ Calm
    BY <1>2, OutsideCalm DEF user, runner, executors
  <2> QED BY <1>0, <2>1, CalmLoop
<1>3. CASE poll
  <2>1. UNCHANGED executors /\ Calm
    BY <1>3, PollCalm DEF poll
  <2> QED BY <1>0, <2>1, CalmLoop
<1>4. CASE executes
  <2>1. Quiet
    BY <1>4, ExecutesBoard DEF executes
  <2>2. Calm /\ ctl' = ctl
    BY <1>4, OutsideCalm DEF executes, runner
  <2> QED BY <2>1, <2>2, CalmLoop
<1>5. ASSUME NEW a \in Attempts, placement(a) \/ sweep(a) \/ release(a) PROVE LoopStep
  <2>1. UNCHANGED executors
    BY <1>5 DEF placement, sweep, release
  <2>2. Calm
    BY <1>5, PlacementCalm, OutsideCalm, ReleaseCalm DEF sweep, executors
  <2> QED BY <1>0, <2>1, <2>2, CalmLoop
<1>6. ASSUME NEW n \in Nodes, exchange(n) \/ CallFails(n) \/ batch(n) \/ node(n) \/ reconcile(n) PROVE LoopStep
  <2>1. UNCHANGED executors
    BY <1>6 DEF exchange, CallFails, batch, node, reconcile
  <2>2. Calm
    BY <1>6, ExchangeCalm, CallFailsCalm, BatchCalm, NodeCtlCalm, ReconcileCalm
  <2> QED BY <1>0, <2>1, <2>2, CalmLoop
<1>7. ASSUME NEW n \in Nodes, observe(n) \/ advance(n) \/ renewals(n) \/ starts(n) \/ aborts(n) PROVE LoopStep
  <2>1. UNCHANGED executors
    <3>1. CASE advance(n)
      BY <3>1, Zenon DEF advance
    <3> QED BY <1>7, <3>1 DEF observe, renewals, starts, aborts
  <2>2. Calm
    BY <1>7, PassesCalm, AbortsCalm
  <2> QED BY <1>0, <2>1, <2>2, CalmLoop
<1>8. ASSUME NEW n \in Nodes, dispatch(n) \/ SessionChanges(n) \/ Restart(n) PROVE LoopStep
  <2>1. UNCHANGED executors
    BY <1>8 DEF dispatch, SessionChanges, Restart
  <2>2. Calm
    BY <1>8, DispatchCalm, NodeCtlCalm, RestartCalm
  <2> QED BY <1>0, <2>1, <2>2, CalmLoop
<1>9. ASSUME NEW n \in Nodes, Reinstall(n) \/ (\E a \in Attempts : serve(n, a)) \/ \E m \in late[n] : serve_late(n, m)
      PROVE  LoopStep
  BY <1>9, ReinstallLoop, ServeLoop, ServeLateLoop
<1> QED BY <1>1, <1>2, <1>3, <1>4, <1>5, <1>6, <1>7, <1>8, <1>9 DEF CWNext

-----------------------------------------------------------------------------
(* No two attempts of a job can come to life *)

(* An attempt that is gone comes back only when it is placed or sealed. *)
LEMMA GoneStays ==
  ASSUME PlanAssumption, QueuedAbsent, NEW a \in Attempts, AttemptStep(a), ~Placed(a), ~Sealing(a)
  PROVE  (Fresh(a) => Fresh(a)') /\ (Gone(a) => Gone(a)')
<1> DEFINE n == NodeOf[a]
<1>0. n \in Nodes
  BY DEF PlanAssumption
<1>1. Fresh(a) => Fresh(a)'
  BY DEF AttemptStep, Fresh
<1>2. CASE board[a].state = "released"
  <2>1. a \notin queued[n]
    BY <1>0, <1>2 DEF QueuedAbsent
  <2> QED BY <1>1, <1>2, <2>1 DEF AttemptStep, Gone, Fresh
<1> QED BY <1>1, <1>2 DEF Gone

(* The current attempt of a job is not placed a second time. *)
LEMMA PlacedFresh ==
  ASSUME UntouchedFresh, NEW a \in Attempts, Placed(a)
  PROVE  Fresh(a) /\ ~Touched(a)
  BY DEF Placed, UntouchedFresh, Touched

LEMMA GoneStep ==
  ASSUME PlanAssumption, LoopTypes, Phased, GoneInv, LoopStep, RowsKept
  PROVE  GoneInv'
<1> USE DEF GoneInv
<1>0. \A a \in Attempts : AttemptStep(a) /\ (Touched(a) => Touched(a)') /\ NodeOf[a] \in Nodes /\ JobOf[a] \in Jobs
  BY DEF LoopStep, RowsKept, PlanAssumption
<1>1. UntouchedFresh'
  <2> SUFFICES ASSUME NEW a \in Attempts PROVE Touched(a)' \/ Fresh(a)'
    BY DEF UntouchedFresh
  <2>1. CASE Placed(a) \/ Sealing(a)
    BY <2>1 DEF Placed, Sealing, Touched
  <2>2. CASE ~Placed(a) /\ ~Sealing(a)
    BY <1>0, <2>2, GoneStays DEF UntouchedFresh
  <2> QED BY <2>1, <2>2
<1>2. QueuedAbsent'
  <2> SUFFICES ASSUME NEW n \in Nodes, NEW a \in queued'[n] PROVE board'[a].state = "absent" /\ ~Asked(a)'
    BY DEF QueuedAbsent
  <2>1. a \in Attempts /\ n = NodeOf[a]
    BY DEF LoopStep, LoopTypes, QueuedOK, On
  <2>2. CASE a \in queued[n]
    <3>1. phase # "nodes" /\ board[a].state = "absent" /\ ~Asked(a)
      BY <2>2 DEF Phased, QueuedAbsent
    <3> QED BY <1>0, <2>1, <2>2, <3>1 DEF AttemptStep, Sealing
  <2>3. CASE a \notin queued[n]
    <3>1. Placed(a)
      BY <1>0, <2>1, <2>3 DEF AttemptStep
    <3>2. Fresh(a) /\ ~Sealing(a)
      BY <2>1, <3>1, PlacedFresh DEF Placed, Sealing
    <3> QED BY <1>0, <2>1, <2>3, <3>2 DEF AttemptStep, Fresh
  <2> QED BY <2>2, <2>3
<1>3. ReleasedGone'
  <2> SUFFICES ASSUME NEW a \in Attempts, rec'[a].state = "released" PROVE Gone(a)'
    BY DEF ReleasedGone
  <2>1. Gone(a) /\ ~Placed(a) /\ ~Sealing(a)
    BY DEF RowsKept, Placed, Sealing
  <2> QED BY <1>0, <2>1, GoneStays
<1>4. ReportedGone'
  <2>1. \A n \in Nodes, a \in Attempts : Reports(n, a) => Gone(a) /\ Touched(a)
    BY DEF ReportedGone, Reports
  <2>2. ASSUME NEW n \in Nodes, NEW a \in Attempts, a \in On(n), Reports(n, a)' PROVE Gone(a)' /\ Touched(a)'
    <3>1. CASE board[a].state # "absent" /\ board'[a].state = "released"
      BY <1>0, <3>1 DEF UntouchedFresh, Fresh, Gone
    <3>2. CASE Reports(n, a)
      <4>1. Gone(a) /\ Touched(a) /\ ~Placed(a)
        BY <2>1, <3>2 DEF Touched, Placed
      <4>2. ~Sealing(a)
        BY <2>2 DEF Reports, Sealing, On
      <4> QED BY <1>0, <4>1, <4>2, GoneStays
    <3> QED BY <2>2, <3>1, <3>2 DEF LoopStep, ReportStep
  <2>3. \A n \in Nodes : /\ DOMAIN ctl'[n].page \subseteq On(n) /\ On(n) \subseteq Attempts
                         /\ msg'[n] # None => DOMAIN msg'[n].results \subseteq On(n)
    BY DEF LoopStep, LoopTypes, CtlOK, PassOK, MsgsOK, MsgOK, On
  <2> QED BY <2>2, <2>3 DEF ReportedGone, Reports
<1>5. OneNotGone'
  <2> SUFFICES ASSUME NEW a \in Attempts, NEW b \in Attempts, a # b, JobOf[a] = JobOf[b], Gone(a), ~Gone(a)'
               PROVE  Gone(b)'
    BY DEF OneNotGone
  <2>1. rec'[a].state \in {"preparing", "unknown"}
    BY <1>0, GoneStays DEF Placed, Sealing
  <2>2. Linked' /\ TypeOK'
    BY DEF RowsKept, RowsInv
  <2>3. job'[JobOf[a]].current_attempt = a
    BY <2>1, <2>2 DEF Linked, OlderReleased, IsCurrent
  <2>4. rec'[b].state \in {"none", "released"}
    BY <2>2, <2>3 DEF Linked, OlderReleased, IsCurrent
  <2>5. job'[JobOf[a]].state \in {"preparing", "unknown"}
    BY <1>0, <2>1, <2>2, <2>3 DEF Linked, JobMirrorsAttempt, Active, Closed, PlanAssumption
  <2>6. CASE rec'[b].state = "released"
    BY <1>3, <2>6 DEF ReleasedGone
  <2>7. CASE rec'[b].state = "none"
    BY <1>1, <2>5, <2>7 DEF UntouchedFresh, Touched, Gone
  <2> QED BY <2>4, <2>6, <2>7
<1> QED BY <1>1, <1>2, <1>3, <1>4, <1>5

LEMMA CWInitInv ==
  ASSUME PlanAssumption, LoopAssumption, CWInit
  PROVE  CWInv
<1>1. RowsInv
  <2>1. TypeOK /\ Linked
    BY InitType, InitLinked DEF CWInit
  <2>2. OutcomesClosed
    BY DEF CWInit, LoopInit, Init, NoRow, OutcomesClosed
  <2> QED BY <2>1, <2>2 DEF RowsInv
<1>2. board = [a \in Attempts |-> Board!Unlisted] /\ alive = {} /\ Board!Unlisted.state = "absent"
  BY DEF CWInit, LoopInit, Board!BoardInit, Board!Unlisted
<1>3. BoardInv
  BY <1>2 DEF BoardInv, BoardTypes, AliveUnsettled
<1>4. DOMAIN Unlocked.page = {} /\ Unlocked.pc = "idle" /\ \A n \in Nodes : PassOK(n, Unlocked)
  BY Empty DEF Unlocked
<1>5. LoopTypes
  <2>1. LedgersOK
    BY DEF CWInit, LoopInit, LedgersOK, LoopAssumption
  <2>2. LiveOK /\ MsgsOK /\ LateOK /\ QueuedOK
    BY DEF CWInit, LoopInit, LiveOK, MsgsOK, LateOK, QueuedOK, Past
  <2>3. CtlOK
    BY <1>4 DEF CWInit, LoopInit, CtlOK, PassOK
  <2> QED BY <2>1, <2>2, <2>3 DEF LoopTypes
<1>6. Phased
  BY <1>4 DEF CWInit, LoopInit, Phased
<1>7. \A a \in Attempts : NodeOf[a] \in Nodes /\ Fresh(a) /\ rec[a].state = "none"
  BY <1>2 DEF CWInit, LoopInit, Fresh, Asked, PlanAssumption, Init, NoRow
<1>8. GoneInv
  <2>1. UntouchedFresh /\ ReleasedGone /\ OneNotGone
    BY <1>7 DEF UntouchedFresh, ReleasedGone, OneNotGone, Gone
  <2>2. QueuedAbsent
    BY DEF CWInit, LoopInit, QueuedAbsent
  <2>3. ReportedGone
    BY <1>4 DEF CWInit, LoopInit, ReportedGone
  <2> QED BY <2>1, <2>2, <2>3 DEF GoneInv
<1> QED BY <1>1, <1>3, <1>5, <1>6, <1>8 DEF CWInv

LEMMA CWNextInv ==
  ASSUME PlanAssumption, LoopAssumption, CWInv, [CWNext]_vars
  PROVE  CWInv' /\ RowsKept /\ LoopStep
<1>1. RowsKept
  BY NextRows DEF CWInv, GoneInv
<1>2. TypeOK /\ TypeOK' /\ RowsInv'
  BY <1>1 DEF RowsKept, RowsInv, CWInv
<1>3. LoopStep
  BY <1>2, NextLoop DEF CWInv
<1>4. GoneInv'
  BY <1>1, <1>3, GoneStep DEF CWInv
<1> QED BY <1>1, <1>2, <1>3, <1>4 DEF CWInv, LoopStep

LEMMA CWInvOneRun ==
  ASSUME CWInv
  PROVE  OneRunPerJob
<1>1. \A a \in alive : a \in Attempts /\ ~Gone(a)
  BY DEF CWInv, BoardInv, BoardTypes, AliveUnsettled, Gone, Fresh
<1> QED BY <1>1 DEF CWInv, GoneInv, OneNotGone, OneRunPerJob

(* A job runs in one place, whatever is retried, given up, executed late,   *)
(* abandoned, lost or installed again, for every set of jobs, attempts and  *)
(* nodes.                                                                   *)
THEOREM OneRun == CWSpec => []OneRunPerJob
<1>1. CWInit => CWInv
  BY PlanAssumption, LoopConstants, CWInitInv
<1>2. CWInv /\ [CWNext]_vars => CWInv'
  BY PlanAssumption, LoopConstants, CWNextInv
<1>3. CWInv => OneRunPerJob
  BY CWInvOneRun
<1> QED BY <1>1, <1>2, <1>3, PTL DEF CWSpec

(* The tables keep their types and links in the loop as well: its reports,  *)
(* doubts and intents to start are saved row by row.                        *)
THEOREM LoopRecords == CWSpec => [](TypeOK /\ ValidRecords /\ OlderReleased /\ JobMirrorsAttempt)
<1>1. CWInit => CWInv
  BY PlanAssumption, LoopConstants, CWInitInv
<1>2. CWInv /\ [CWNext]_vars => CWInv'
  BY PlanAssumption, LoopConstants, CWNextInv
<1>3. CWInv => TypeOK /\ ValidRecords /\ OlderReleased /\ JobMirrorsAttempt
  BY DEF CWInv, RowsInv, Linked
<1> QED BY <1>1, <1>2, <1>3, PTL DEF CWSpec

-----------------------------------------------------------------------------
(* Rows and executors agree *)

(* A command speaks of an attempt that was placed, with a lease, an intent  *)
(* to start and a ledger that its row has.                                  *)
CommandTrue(m, a) ==
  /\ Touched(a)
  /\ rec[a].state # "none" =>
       /\ m.lease[a] <= rec[a].lease
       /\ m.action = "start" => rec[a].start_requested
       /\ m.action \in {"prepare", "reject_absent"} => m.ledger = rec[a].ledger_id

CommandsTrue ==
  \A n \in Nodes :
    /\ msg[n] # None => \A a \in msg[n].todo : CommandTrue(msg[n], a)
    /\ \A m \in late[n] : \A a \in m.todo : CommandTrue(m, a)

PassTouched == \A n \in Nodes : \A a \in ctl[n].held \cup ctl[n].renew \cup ctl[n].start : Touched(a)

QueuedTrue ==
  \A n \in Nodes : \A a \in queued[n] : Touched(a) /\ (rec[a].state # "none" => rec[a].ledger_id = live[n])

(* A row was reserved with a first lease, in a ledger its node has had. *)
RowsSound ==
  \A a \in Attempts : rec[a].state # "none" => rec[a].lease >= 1 /\ rec[a].ledger_id \in 1..ledger[NodeOf[a]]

BoardTrue ==
  \A a \in Attempts : board[a].state # "absent" /\ rec[a].state # "none" =>
    /\ board[a].lease_sequence <= rec[a].lease
    /\ a \in spent \/ board[a].state = "starting" => rec[a].start_requested
    /\ rec[a].ledger_id = ledger[NodeOf[a]]

SpentListed == \A a \in spent : a \in Attempts /\ board[a].state # "absent"

(* Only what is gone, or on a revoked node, has no row or is abandoned. *)
Forgotten ==
  \A a \in Attempts :
    /\ rec[a].state = "none" => Gone(a) \/ NodeOf[a] \in disabled
    /\ rec[a].state = "abandoned" => NodeOf[a] \in disabled

(* As long as the ledger it was reserved in lives, a ended in state s. *)
Agrees(a, s) == rec[a].ledger_id = ledger[NodeOf[a]] => Ended(board[a]) /\ End(board[a]) = s

ReportsAgree ==
  \A n \in Nodes, a \in Attempts : \A r : Says(n, a, r) => Touched(a) /\ (Ended(r) => Agrees(a, End(r)))

OutcomesAgree ==
  \A a \in Attempts : rec[a].outcome # None /\ rec[a].state # "abandoned" => Agrees(a, rec[a].outcome.state)

CommandInv == CommandsTrue /\ PassTouched /\ QueuedTrue
RecordInv  == RowsSound /\ BoardTrue /\ SpentListed
AgreeInv   == Forgotten /\ ReportsAgree /\ OutcomesAgree

-----------------------------------------------------------------------------
(* What a step does to the executors' records *)

(* A record that has ended stays so, unless its ledger is lost. *)
EndedStep(a) ==
  Ended(board[a]) =>
    \/ Ended(board'[a]) /\ End(board'[a]) = End(board[a])
    \/ ledger'[NodeOf[a]] # ledger[NodeOf[a]]

ExecutorStep ==
  /\ BoardTrue' /\ SpentListed' /\ (\A a \in Attempts : EndedStep(a))
  /\ \A n \in Nodes : ledger[n] \in Nat /\ ledger'[n] \in Nat /\ ledger[n] <= ledger'[n]

(* What one record must say to agree with its row. *)
RecordTrue(a) ==
  rec[a].state # "none" =>
    /\ board[a].lease_sequence <= rec[a].lease
    /\ a \in spent \/ board[a].state = "starting" => rec[a].start_requested
    /\ rec[a].ledger_id = ledger[NodeOf[a]]

LEMMA OneRecord ==
  ASSUME LedgersOK, BoardTrue, SpentListed, UNCHANGED <<rec, ledger>>, NEW a \in Attempts,
         \A b \in Attempts : b # a => board'[b] = board[b], board'[a].state # "absent",
         spent' = spent \/ spent' = spent \cup {a}, RecordTrue(a)', EndedStep(a)
  PROVE  ExecutorStep
<1>1. BoardTrue'
  BY DEF BoardTrue, RecordTrue
<1>2. SpentListed'
  BY DEF SpentListed
<1>3. \A b \in Attempts : EndedStep(b)
  BY DEF EndedStep
<1>4. \A n \in Nodes : ledger[n] \in Nat /\ ledger'[n] \in Nat /\ ledger[n] <= ledger'[n]
  BY DEF LedgersOK
<1> QED BY <1>1, <1>2, <1>3, <1>4 DEF ExecutorStep

(* A step that leaves the executors alone. *)
LEMMA QuietRecords ==
  ASSUME PlanAssumption, LedgersOK, RowsInv, RowsInv', BoardTypes, UntouchedFresh, BoardTrue, SpentListed,
         UNCHANGED executors, \A a \in Attempts : RowKept(a)
  PROVE  ExecutorStep
<1>1. ASSUME NEW a \in Attempts, board'[a].state # "absent", rec'[a].state # "none" PROVE RecordTrue(a)'
  <2>1. ~Placed(a)
    BY <1>1, PlacedFresh DEF Fresh, executors
  <2>2. rec[a].state # "none" /\ rec'[a].ledger_id = rec[a].ledger_id /\ rec[a].lease <= rec'[a].lease
        /\ (rec[a].start_requested => rec'[a].start_requested)
    BY <1>1, <2>1 DEF RowKept
  <2>3. rec[a].lease \in Nat /\ rec'[a].lease \in Nat /\ board[a].lease_sequence \in Nat
    BY DEF RowsInv, TypeOK, AttemptRows, BoardTypes, Listed, Board!Unlisted
  <2> QED BY <1>1, <2>2, <2>3 DEF BoardTrue, RecordTrue, executors
<1>2. BoardTrue'
  BY <1>1 DEF BoardTrue, RecordTrue
<1>3. SpentListed' /\ \A b \in Attempts : EndedStep(b)
  BY DEF SpentListed, EndedStep, executors
<1>4. \A n \in Nodes : ledger[n] \in Nat /\ ledger'[n] \in Nat /\ ledger[n] <= ledger'[n]
  BY DEF LedgersOK, executors
<1> QED BY <1>2, <1>3, <1>4 DEF ExecutorStep

LEMMA ReinstallRecords ==
  ASSUME PlanAssumption, LoopAssumption, LedgersOK, BoardTypes, BoardTrue, SpentListed, NEW n \in Nodes, Reinstall(n)
  PROVE  ExecutorStep
<1>0. /\ ledger[n] < MaxLedgers /\ ledger' = [ledger EXCEPT ![n] = @ + 1] /\ rec' = rec
      /\ board' = [a \in Attempts |-> IF NodeOf[a] = n THEN Board!Unlisted ELSE board[a]]
      /\ spent' = spent \ On(n)
  BY DEF Reinstall, recordVars
<1>1. /\ ledger'[n] = ledger[n] + 1 /\ (\A k \in Nodes : k # n => ledger'[k] = ledger[k])
      /\ \A k \in Nodes : ledger[k] \in Nat /\ ledger'[k] \in Nat /\ ledger[k] <= ledger'[k]
  BY <1>0 DEF LedgersOK, LoopAssumption
<1>2. \A a \in Attempts : NodeOf[a] \in Nodes /\ (NodeOf[a] = n => board'[a].state = "absent") /\ (NodeOf[a] # n => board'[a] = board[a])
  BY <1>0 DEF PlanAssumption, Board!Unlisted
<1>3. BoardTrue'
  BY <1>0, <1>1, <1>2 DEF BoardTrue
<1>4. SpentListed'
  BY <1>0, <1>2 DEF SpentListed, On
<1>5. \A a \in Attempts : EndedStep(a)
  BY <1>1, <1>2 DEF EndedStep
<1> QED BY <1>1, <1>3, <1>4, <1>5 DEF ExecutorStep

(* An outcome is settled by the executor. *)
LEMMA SettleRecords ==
  ASSUME LoopAssumption, LedgersOK, BoardInv, BoardTrue, SpentListed, UNCHANGED <<rec, ledger>>,
         NEW a \in Attempts, NEW final \in Outcomes, NEW clean \in BOOLEAN, Board!Settle(a, final, clean)
  PROVE  ExecutorStep
<1> DEFINE r == board[a]  s == board'[a]
<1>1. board \in [Attempts -> Listed \cup {Board!Unlisted}] /\ final \in Closed
  BY DEF BoardInv, BoardTypes, LoopAssumption
<1>2. /\ s = [r EXCEPT !.state = final, !.cleanup_confirmed = clean, !.ready = FALSE]
      /\ r.state \in Board!Going \/ (r.state = "unknown" /\ ~r.cleanup_confirmed)
      /\ (\A b \in Attempts : b # a => board'[b] = board[b]) /\ spent' = spent
  BY <1>1 DEF Board!Settle
<1>3. r \in Listed
  BY <1>1, <1>2 DEF Board!Unlisted, Board!Going
<1>4. s.state = final /\ s.lease_sequence = r.lease_sequence /\ r.state # "absent" /\ final \notin {"absent", "starting"}
  BY <1>1, <1>2, <1>3 DEF Listed, Board!Going, Closed, TERMINAL
<1>5. RecordTrue(a)'
  BY <1>4, <1>2 DEF RecordTrue, BoardTrue
<1>6. EndedStep(a)
  BY <1>2 DEF EndedStep, Ended, Board!Going, TERMINAL
<1> QED BY <1>2, <1>4, <1>5, <1>6, OneRecord

(* An item of a true command, executed by the executor it is for. *)
LEMMA HandleRecords ==
  ASSUME LoopAssumption, LedgersOK, RowsInv, BoardInv, RowsSound, BoardTrue, SpentListed, UNCHANGED <<rec, ledger>>,
         NEW n \in Nodes, NEW m, NEW a \in On(n), m.lease[a] \in Nat, Binds(n, m), CommandTrue(m, a),
         Handle(m.action, a, m.lease[a])
  PROVE  ExecutorStep
<1>0. a \in Attempts /\ NodeOf[a] = n /\ board \in [Attempts -> Listed \cup {Board!Unlisted}]
  BY DEF On, BoardInv, BoardTypes
<1>1. rec[a].lease \in Nat /\ (board[a].state = "absent" => board[a] = Board!Unlisted /\ a \notin spent)
  BY <1>0, TakenUp DEF RowsInv, TypeOK, AttemptRows, BoardInv, SpentListed
<1>2. board[a].state \in Board!Going \cup Board!Final => board[a] \in Listed
  BY <1>0 DEF Board!Unlisted, Board!Going, Board!Final
<1>3. Writes(a)
  BY <1>0, HandleBoard
<1>4. (\A b \in Attempts : b # a => board'[b] = board[b]) /\ board'[a].state # "absent"
  BY <1>0, <1>3 DEF Writes, Listed, Board!Going, Board!Final
<1> DEFINE r == board[a]  s == board'[a]
<1>5. ASSUME Board!AdmitPlan(a, 0) \/ Board!SealPlan(a), m.action \in {"prepare", "reject_absent"} PROVE ExecutorStep
  <2>1. r = Board!Unlisted /\ a \notin spent /\ spent' = spent /\ s.state \in {"prepared", "failed"} /\ s.lease_sequence \in {0, 1}
    <3>1. r.state = "absent" /\ r = Board!Unlisted /\ a \notin spent /\ spent' = spent
      BY <1>0, <1>1, <1>5 DEF Board!AdmitPlan, Board!SealPlan
    <3>2. CASE Board!AdmitPlan(a, 0)
      BY <1>0, <3>1, <3>2 DEF Board!AdmitPlan, Board!Unlisted
    <3>3. CASE Board!SealPlan(a)
      BY <1>0, <3>1, <3>3 DEF Board!SealPlan, Board!Unlisted
    <3> QED BY <1>5, <3>2, <3>3, <3>1
  <2>2. RecordTrue(a)'
    BY <1>0, <1>1, <1>5, <2>1 DEF RecordTrue, CommandTrue, Binds, RowsSound
  <2>3. EndedStep(a)
    BY <2>1 DEF EndedStep, Ended, Board!Unlisted, TERMINAL
  <2> QED BY <1>0, <1>4, <2>1, <2>2, <2>3, OneRecord
<1>6. ASSUME Board!ExtendLease(a, m.lease[a], 0) PROVE ExecutorStep
  <2>1. /\ s = [r EXCEPT !.lease_sequence = m.lease[a], !.lease_expires_at = 0]
        /\ r \in Listed /\ r.state \in Board!Going /\ spent' = spent
    BY <1>0, <1>2, <1>6 DEF Board!ExtendLease
  <2>2. s.state = r.state /\ s.lease_sequence = m.lease[a] /\ r.state # "absent"
    BY <2>1 DEF Listed, Board!Going
  <2>3. RecordTrue(a)'
    BY <1>0, <2>1, <2>2 DEF RecordTrue, CommandTrue, BoardTrue
  <2>4. EndedStep(a)
    BY <2>1 DEF EndedStep, Ended, Board!Going, TERMINAL
  <2> QED BY <1>0, <1>4, <2>1, <2>3, <2>4, OneRecord
<1>7. ASSUME Board!AcceptStart(a), m.action = "start" PROVE ExecutorStep
  <2>1. /\ s = [r EXCEPT !.state = "starting", !.ready = FALSE] /\ r.state = "prepared" /\ r \in Listed /\ spent' = spent
    BY <1>0, <1>2, <1>7 DEF Board!AcceptStart, Board!Going
  <2>2. s.lease_sequence = r.lease_sequence
    BY <2>1 DEF Listed
  <2>3. RecordTrue(a)'
    BY <1>0, <1>7, <2>1, <2>2 DEF RecordTrue, CommandTrue, BoardTrue
  <2>4. EndedStep(a)
    BY <2>1 DEF EndedStep, Ended, TERMINAL
  <2> QED BY <1>0, <1>4, <2>1, <2>3, <2>4, OneRecord
<1>8. ASSUME NEW final \in Outcomes, NEW clean \in BOOLEAN, Board!Settle(a, final, clean) PROVE ExecutorStep
  BY <1>0, <1>8, SettleRecords
<1>9. ASSUME Board!FreeAttempt(a) PROVE ExecutorStep
  <2>1. /\ s = [r EXCEPT !.state = "released", !.outcome = r.state]
        /\ r.state \in Board!Final /\ r.cleanup_confirmed /\ r \in Listed /\ spent' = spent
    BY <1>0, <1>2, <1>9 DEF Board!FreeAttempt
  <2>2. s.state = "released" /\ s.outcome = r.state /\ s.lease_sequence = r.lease_sequence /\ r.state \notin {"absent", "released"}
    BY <2>1 DEF Listed, Board!Final
  <2>3. RecordTrue(a)'
    BY <1>0, <2>1, <2>2 DEF RecordTrue, BoardTrue
  <2>4. EndedStep(a)
    BY <2>1, <2>2 DEF EndedStep, Ended, End
  <2> QED BY <1>0, <1>4, <2>1, <2>3, <2>4, OneRecord
<1> QED BY <1>5, <1>6, <1>7, <1>8, <1>9 DEF Handle

(* What an executor does of itself. *)
LEMMA ExecutesRecords ==
  ASSUME LoopAssumption, LedgersOK, RowsInv, BoardInv, BoardTrue, SpentListed, executes
  PROVE  ExecutorStep
<1>0. board \in [Attempts -> Listed \cup {Board!Unlisted}] /\ rec' = rec /\ ledger' = ledger
  BY DEF executes, recordVars, BoardInv, BoardTypes
<1>1. \A a \in Attempts : board[a].state \in Board!Going \cup Board!Final => board[a] \in Listed
  BY <1>0 DEF Board!Unlisted, Board!Going, Board!Final
<1>2. ASSUME NEW a \in Attempts, Board!BecomeReady(a) PROVE ExecutorStep
  <2>1. /\ board'[a] = [board[a] EXCEPT !.ready = TRUE] /\ board[a].state = "prepared" /\ board[a] \in Listed
        /\ (\A b \in Attempts : b # a => board'[b] = board[b]) /\ spent' = spent
    BY <1>0, <1>1, <1>2 DEF Board!BecomeReady, Board!Going
  <2>2. board'[a].state = "prepared" /\ board'[a].lease_sequence = board[a].lease_sequence
    BY <2>1 DEF Listed
  <2>3. RecordTrue(a)' /\ EndedStep(a)
    BY <1>0, <2>1, <2>2 DEF RecordTrue, BoardTrue, EndedStep, Ended, TERMINAL
  <2> QED BY <1>0, <2>1, <2>2, <2>3, OneRecord
<1>3. ASSUME NEW a \in Attempts, Board!LaunchUnit(a) PROVE ExecutorStep
  <2>1. board' = board /\ board[a].state = "starting" /\ spent' = spent \cup {a}
    BY <1>3 DEF Board!LaunchUnit
  <2>2. RecordTrue(a)' /\ EndedStep(a)
    BY <1>0, <2>1 DEF RecordTrue, BoardTrue, EndedStep
  <2> QED BY <1>0, <2>1, <2>2, OneRecord
<1>4. ASSUME NEW a \in Attempts, Board!ConfirmStart(a) PROVE ExecutorStep
  <2>1. /\ board'[a] = [board[a] EXCEPT !.state = "running"] /\ board[a].state = "starting" /\ board[a] \in Listed
        /\ (\A b \in Attempts : b # a => board'[b] = board[b]) /\ spent' = spent
    BY <1>0, <1>1, <1>4 DEF Board!ConfirmStart, Board!Going
  <2>2. board'[a].state = "running" /\ board'[a].lease_sequence = board[a].lease_sequence
    BY <2>1 DEF Listed
  <2>3. RecordTrue(a)' /\ EndedStep(a)
    BY <1>0, <2>1, <2>2 DEF RecordTrue, BoardTrue, EndedStep, Ended, TERMINAL
  <2> QED BY <1>0, <2>1, <2>2, <2>3, OneRecord
<1>5. ASSUME NEW a \in Attempts, NEW final \in Outcomes, NEW clean \in BOOLEAN, Board!Settle(a, final, clean) PROVE ExecutorStep
  BY <1>0, <1>5, SettleRecords
<1>6. ASSUME Board!UnitsDie PROVE ExecutorStep
  <2>1. board' = board /\ spent' = spent
    BY <1>6 DEF Board!UnitsDie
  <2>2. BoardTrue' /\ SpentListed' /\ \A a \in Attempts : EndedStep(a)
    BY <1>0, <2>1 DEF BoardTrue, SpentListed, EndedStep
  <2> QED BY <1>0, <2>2 DEF ExecutorStep, LedgersOK
<1> QED BY <1>2, <1>3, <1>4, <1>5, <1>6 DEF executes

LEMMA NextRecords ==
  ASSUME PlanAssumption, LoopAssumption, CWInv, RecordInv, CommandsTrue, RowsKept, [CWNext]_vars
  PROVE  ExecutorStep
<1> USE DEF CWInv, BoardInv, LoopTypes, RecordInv, GoneInv, RowsKept
<1>1. CASE UNCHANGED executors
  BY <1>1, QuietRecords
<1>2. CASE executes
  BY <1>2, ExecutesRecords
<1>3. ASSUME NEW n \in Nodes, Reinstall(n) PROVE ExecutorStep
  BY <1>3, ReinstallRecords
<1>4. ASSUME NEW n \in Nodes, NEW m, NEW a \in On(n), m.lease[a] \in Nat, Binds(n, m), CommandTrue(m, a), UNCHANGED <<recordVars, ledger>>,
             Handle(m.action, a, m.lease[a]) \/ UNCHANGED <<board, alive, spent>>
      PROVE  ExecutorStep
  <2>1. CASE Handle(m.action, a, m.lease[a])
    <3>1. UNCHANGED <<rec, ledger>>
      BY <1>4 DEF recordVars
    <3> QED BY <1>4, <2>1, <3>1, HandleRecords
  <2>2. CASE UNCHANGED <<board, alive, spent>>
    BY <1>1, <1>4, <2>2 DEF executors
  <2> QED BY <1>4, <2>1, <2>2
<1>5. ASSUME NEW n \in Nodes, NEW a \in Attempts, serve(n, a) PROVE ExecutorStep
  <2> DEFINE m == msg[n]
  <2>1. m # None /\ a \in m.todo /\ Binds(n, m) /\ UNCHANGED <<recordVars, ledger>>
    BY <1>5 DEF serve
  <2>2. Handle(m.action, a, m.lease[a]) \/ UNCHANGED <<board, alive, spent>>
    BY <1>5, Zenon DEF serve
  <2>3. MsgOK(n, m) /\ CommandTrue(m, a)
    BY <2>1 DEF MsgsOK, CommandsTrue
  <2>4. a \in On(n) /\ m.lease[a] \in Nat
    BY <2>1, <2>3 DEF MsgOK, Sent, Leases
  <2> HIDE DEF m
  <2> QED BY <1>4, <2>1, <2>2, <2>3, <2>4
<1>6. ASSUME NEW n \in Nodes, NEW m \in late[n], serve_late(n, m) PROVE ExecutorStep
  <2>1. UNCHANGED <<recordVars, ledger>> /\ RestOK(n, m) /\ \A a \in m.todo : CommandTrue(m, a)
    BY <1>6 DEF serve_late, LateOK, CommandsTrue
  <2>2. \/ UNCHANGED <<board, alive, spent>>
        \/ \E a \in m.todo : Binds(n, m) /\ Handle(m.action, a, m.lease[a])
    BY <1>6, Zenon DEF serve_late
  <2>3. \A a \in m.todo : a \in On(n) /\ m.lease[a] \in Nat
    BY <2>1 DEF RestOK, Rest, Leases
  <2>4. CASE UNCHANGED <<board, alive, spent>>
    BY <1>1, <2>1, <2>4 DEF executors
  <2>5. ASSUME NEW a \in m.todo, Binds(n, m), Handle(m.action, a, m.lease[a]) PROVE ExecutorStep
    BY <1>4, <2>1, <2>3, <2>5
  <2> QED BY <2>2, <2>4, <2>5
<1>7. CASE UNCHANGED vars \/ user \/ poll \/ (\E a \in Attempts : placement(a) \/ sweep(a) \/ release(a))
  BY <1>1, <1>7 DEF vars, user, poll, placement, sweep, release
<1>8. ASSUME NEW n \in Nodes, exchange(n) \/ CallFails(n) \/ batch(n) \/ node(n) \/ reconcile(n) \/ observe(n)
      PROVE  ExecutorStep
  BY <1>1, <1>8 DEF exchange, CallFails, batch, node, reconcile, observe
<1>9. ASSUME NEW n \in Nodes, renewals(n) \/ starts(n) \/ aborts(n) \/ dispatch(n) \/ SessionChanges(n) \/ Restart(n)
      PROVE  ExecutorStep
  BY <1>1, <1>9 DEF renewals, starts, aborts, dispatch, SessionChanges, Restart
<1>10. ASSUME NEW n \in Nodes, advance(n) PROVE ExecutorStep
  <2>1. UNCHANGED executors
    BY <1>10, Zenon DEF advance
  <2> QED BY <1>1, <2>1
<1> HIDE DEF CWInv, BoardInv, LoopTypes, RecordInv, GoneInv, RowsKept
<1> QED BY <1>2, <1>3, <1>5, <1>6, <1>7, <1>8, <1>9, <1>10 DEF CWNext

-----------------------------------------------------------------------------
(* What a step does to commands, passes and the queue *)

(* A new command is true of the rows as the step leaves them, a pass goes   *)
(* over known attempts, and a queue does not outlive its ledger's session.  *)
NodeSound(n) ==
  /\ NewCommand(n) => \A a \in msg'[n].todo : CommandTrue(msg[n], a)'
  /\ \A a \in ctl'[n].held \cup ctl'[n].renew \cup ctl'[n].start : Touched(a)'
  /\ live'[n] = live[n] \/ queued'[n] = {}

Sound == \A n \in Nodes : NodeSound(n)

(* A node whose command is the one it was, or none. *)
LEMMA StillSound ==
  ASSUME PassTouched, RowsKept, LoopTypes, NEW n \in Nodes,
         msg'[n] = None \/ msg'[n] = msg[n] \/ SameCommand(msg[n], msg'[n]),
         ctl'[n].held \subseteq ctl[n].held, ctl'[n].renew \subseteq ctl[n].renew, ctl'[n].start \subseteq ctl[n].start,
         live'[n] = live[n] \/ queued'[n] = {}
  PROVE  NodeSound(n)
<1>1. ~NewCommand(n)
  BY DEF NewCommand, SameCommand
<1>2. ctl[n].held \cup ctl[n].renew \cup ctl[n].start \subseteq Attempts
  BY DEF LoopTypes, CtlOK, PassOK, On
<1>3. \A a \in ctl'[n].held \cup ctl'[n].renew \cup ctl'[n].start : Touched(a)'
  BY <1>2 DEF PassTouched, RowsKept
<1> QED BY <1>1, <1>3 DEF NodeSound

(* A pass goes on with part of what it had, or with known attempts. *)
Continues(n, c) ==
  \A a \in c.held \cup c.renew \cup c.start : a \in ctl[n].held \cup ctl[n].renew \cup ctl[n].start \/ Touched(a)'

(* What is sent is true of the rows as the step leaves them. *)
Honest(l, action, items) ==
  \A a \in items :
    /\ Touched(a) \/ Touched(a)'
    /\ rec'[a].state # "none" =>
         /\ action = "start" => rec'[a].start_requested
         /\ action \in {"prepare", "reject_absent"} => l = rec'[a].ledger_id

LiveKept == \A k \in Nodes : live'[k] = live[k] \/ queued'[k] = {}

LEMMA SentSound ==
  ASSUME PassTouched, RowsKept, LoopTypes, LiveKept, NEW n \in Nodes, NEW c, ctl' = [ctl EXCEPT ![n] = c], Continues(n, c),
         NEW l, NEW action, NEW items \in SUBSET Attempts, msg' = [msg EXCEPT ![n] = Send(l, action, items)],
         Honest(l, action, items)
  PROVE  Sound
<1> USE DEF LiveKept, Continues, Honest
<1>1. ctl'[n] = c /\ msg'[n] = Send(l, action, items) /\ \A k \in Nodes : k # n => ctl'[k] = ctl[k] /\ msg'[k] = msg[k]
  BY DEF LoopTypes, CtlOK, MsgsOK
<1>2. \A k \in Nodes : k # n => NodeSound(k)
  BY <1>1, StillSound
<1>3. ctl[n].held \cup ctl[n].renew \cup ctl[n].start \subseteq Attempts
  BY DEF LoopTypes, CtlOK, PassOK, On
<1>4. ASSUME NewCommand(n), NEW a \in msg'[n].todo PROVE CommandTrue(msg[n], a)'
  <2>1. items # {}
    BY <1>1, <1>4 DEF NewCommand, Send
  <2>2. /\ msg'[n].action = action /\ msg'[n].todo = items /\ msg'[n].ledger = l
        /\ msg'[n].lease = [b \in items |-> rec'[b].lease]
    BY <1>1, <2>1 DEF Send
  <2>3. a \in items /\ a \in Attempts /\ msg'[n].lease[a] = rec'[a].lease
    BY <1>4, <2>2
  <2>4. rec'[a].lease \in Nat
    BY <2>3 DEF RowsKept, RowsInv, TypeOK, AttemptRows
  <2> QED BY <2>2, <2>3, <2>4 DEF CommandTrue, RowsKept
<1>5. NodeSound(n)
  BY <1>1, <1>3, <1>4 DEF NodeSound, PassTouched, RowsKept
<1> QED BY <1>2, <1>5 DEF Sound

(* Steps that send nothing. *)
LEMMA SilentSound ==
  ASSUME PassTouched, RowsKept, LoopTypes, Phased, NEW n \in Nodes,
         exchange(n) \/ CallFails(n) \/ batch(n) \/ node(n) \/ aborts(n) \/ SessionChanges(n) \/ Restart(n)
  PROVE  Sound
<1>0. Unlocked.held = {} /\ Unlocked.renew = {} /\ Unlocked.start = {}
  BY DEF Unlocked
<1>1. ctl \in [Nodes -> Passes] /\ msg \in [Nodes -> Sent \cup {None}] /\ live \in [Nodes -> Nat \cup {None}]
  BY DEF LoopTypes, CtlOK, MsgsOK, LiveOK
<1> DEFINE Smaller(c, d) == c.held \subseteq d.held /\ c.renew \subseteq d.renew /\ c.start \subseteq d.start
<1>2. \A k \in Nodes : Smaller(Unlocked, ctl[k]) /\ Smaller(ctl[k], ctl[k])
  BY <1>0
<1>3. ASSUME NEW c, Smaller(c, ctl[n]), ctl' = [ctl EXCEPT ![n] = c],
             NEW m, m = None \/ m = msg[n] \/ SameCommand(msg[n], m), msg' = [msg EXCEPT ![n] = m],
             \A k \in Nodes : live'[k] = live[k] \/ queued'[k] = {}
      PROVE  Sound
  <2>1. ctl'[n] = c /\ msg'[n] = m /\ \A k \in Nodes : k # n => ctl'[k] = ctl[k] /\ msg'[k] = msg[k]
    BY <1>1, <1>3
  <2>2. \A k \in Nodes : k # n => NodeSound(k)
    BY <1>2, <1>3, <2>1, StillSound
  <2>3. NodeSound(n)
    BY <1>3, <2>1, StillSound
  <2> QED BY <2>2, <2>3 DEF Sound
<1>4. msg = [msg EXCEPT ![n] = msg[n]] /\ ctl = [ctl EXCEPT ![n] = ctl[n]]
  BY <1>1
<1>5. ASSUME queued' = queued, ctl[n].pc # "idle", live' = [live EXCEPT ![n] = None]
      PROVE  \A k \in Nodes : live'[k] = live[k] \/ queued'[k] = {}
  BY <1>1, <1>5 DEF Phased
<1>6. CASE exchange(n)
  <2> DEFINE m == [msg[n] EXCEPT !.delivered = TRUE]
  <2>1. msg[n] # None /\ msg' = [msg EXCEPT ![n] = m] /\ ctl' = ctl /\ live' = live
    BY <1>6 DEF exchange
  <2>2. SameCommand(msg[n], m)
    BY <1>1, <2>1 DEF SameCommand, Sent
  <2> HIDE DEF m
  <2> QED BY <1>2, <1>3, <1>4, <2>1, <2>2
<1>7. CASE CallFails(n)
  <2>1. /\ msg' = [msg EXCEPT ![n] = None] /\ ctl' = [ctl EXCEPT ![n] = Unlocked] /\ queued' = queued
        /\ live' = IF ctl[n].pc = "idle" THEN live ELSE [live EXCEPT ![n] = None]
    BY <1>7 DEF CallFails
  <2>2. \A k \in Nodes : live'[k] = live[k] \/ queued'[k] = {}
    BY <1>5, <2>1
  <2> QED BY <1>2, <1>3, <2>1, <2>2
<1>8. CASE batch(n)
  <2> DEFINE c == IF ctl[n].pc \in {"idle", "end"} \/ (ctl[n].pc = "start" /\ ctl[n].start = {}) THEN Unlocked ELSE ctl[n]
  <2>1. msg' = [msg EXCEPT ![n] = None] /\ ctl' = [ctl EXCEPT ![n] = c] /\ live' = live
    BY <1>8 DEF batch
  <2>2. Smaller(c, ctl[n])
    BY <1>2
  <2> HIDE DEF c
  <2> QED BY <1>3, <2>1, <2>2
<1>9. CASE node(n)
  <2> DEFINE c == [Unlocked EXCEPT !.pc = "reconcile", !.ledger = ledger[n], !.bound = TRUE,
                     !.page = [a \in {b \in On(n) : board[b].state # "absent"} |-> board[a]]]
  <2>1. ctl' = [ctl EXCEPT ![n] = c] /\ msg' = msg /\ live' = live
    BY <1>9 DEF node
  <2>2. c.held = {} /\ c.renew = {} /\ c.start = {}
    BY DEF Unlocked
  <2> HIDE DEF c
  <2> QED BY <1>3, <1>4, <2>1, <2>2
<1>10. CASE aborts(n)
  <2>1. /\ ctl' = [ctl EXCEPT ![n] = Unlocked] /\ live' = [live EXCEPT ![n] = None] /\ queued' = queued /\ msg' = msg
        /\ ctl[n].pc # "idle"
    BY <1>10 DEF aborts, Idle
  <2> QED BY <1>2, <1>3, <1>4, <1>5, <2>1
<1>11. CASE SessionChanges(n)
  <2> DEFINE c == [ctl[n] EXCEPT !.bound = FALSE]
  <2>1. ctl' = [ctl EXCEPT ![n] = c] /\ msg' = msg /\ live' = live
    BY <1>11 DEF SessionChanges
  <2>2. Smaller(c, ctl[n])
    BY <1>1 DEF Passes
  <2> HIDE DEF c
  <2> QED BY <1>3, <1>4, <2>1, <2>2
<1>12. CASE Restart(n)
  <2>1. \A k \in Nodes : msg'[k] = None /\ ctl'[k] = Unlocked /\ queued'[k] = {}
    BY <1>12 DEF Restart
  <2> QED BY <1>2, <2>1, StillSound DEF Sound
<1> QED BY <1>6, <1>7, <1>8, <1>9, <1>10, <1>11, <1>12

(* A command is carried out; its answers are not empty any more. *)
LEMMA ServedSound ==
  ASSUME PassTouched, RowsKept, LoopTypes, NEW n \in Nodes, NEW a \in Attempts, serve(n, a)
  PROVE  Sound
<1>1. ctl' = ctl /\ live' = live /\ msg \in [Nodes -> Sent \cup {None}] /\ msg[n] # None
  BY DEF serve, LoopTypes, MsgsOK
<1>2. PICK r : msg' = [msg EXCEPT ![n] = [msg[n] EXCEPT !.todo = @ \ {a},
                         !.results = [b \in DOMAIN msg[n].results \cup {a} |->
                            IF b # a THEN msg[n].results[b] ELSE IF r = None THEN board'[a] ELSE r]]]
  BY Zenon DEF serve
<1> DEFINE results == [b \in DOMAIN msg[n].results \cup {a} |-> IF b # a THEN msg[n].results[b] ELSE IF r = None THEN board'[a] ELSE r]
<1>3. a \in DOMAIN results
  OBVIOUS
<1>4. msg' = [msg EXCEPT ![n] = [msg[n] EXCEPT !.todo = @ \ {a}, !.results = results]]
  BY <1>2
<1> HIDE DEF results
<1>5. msg'[n].results = results /\ \A k \in Nodes : k # n => msg'[k] = msg[k]
  BY <1>1, <1>4 DEF Sent
<1>6. \A k \in Nodes : k # n => NodeSound(k)
  BY <1>1, <1>5, StillSound
<1>7. ~NewCommand(n)
  BY <1>3, <1>5 DEF NewCommand
<1>8. ctl[n].held \cup ctl[n].renew \cup ctl[n].start \subseteq Attempts
  BY DEF LoopTypes, CtlOK, PassOK, On
<1>9. NodeSound(n)
  BY <1>1, <1>7, <1>8 DEF NodeSound, PassTouched, RowsKept
<1> QED BY <1>6, <1>9 DEF Sound

(* Steps that send a command. *)
LEMMA SendingSound ==
  ASSUME RowsInv, PassTouched, QueuedTrue, RowsKept, LoopTypes, Phased, NEW n \in Nodes,
         reconcile(n) \/ observe(n) \/ advance(n) \/ renewals(n) \/ starts(n) \/ dispatch(n)
  PROVE  Sound
<1>0. Unlocked.held = {} /\ Unlocked.renew = {} /\ Unlocked.start = {}
  BY DEF Unlocked
<1>1. /\ ctl[n] \in Passes /\ On(n) \subseteq Attempts
      /\ ctl[n].held \subseteq On(n) /\ ctl[n].renew \subseteq On(n) /\ ctl[n].start \subseteq On(n) /\ queued[n] \subseteq On(n)
  BY DEF LoopTypes, CtlOK, PassOK, QueuedOK, On
<1>2. \A a \in ctl[n].held \cup ctl[n].renew \cup ctl[n].start : Touched(a)
  BY DEF PassTouched
<1>3. \A c, sent : LET d == Proceed(c, sent) IN d = Unlocked \/ d = c
  BY DEF Proceed
<1>4. CASE reconcile(n)
  <2> DEFINE open == {a \in On(n) : rec'[a].state \notin {"none", "released", "abandoned"}}
             candidates == {a \in Open(n) : /\ rec'[a].state = "unknown" /\ rec'[a].observed = None
                                            /\ ~rec'[a].start_requested /\ rec'[a].ledger_id = ctl[n].ledger}
             d == [ctl[n] EXCEPT !.pc = "observe", !.page = <<>>, !.held = open]
             c == IF open = {} THEN Unlocked ELSE d
  <2>1. /\ ctl' = [ctl EXCEPT ![n] = c] /\ msg' = [msg EXCEPT ![n] = Send(ctl[n].ledger, "reject_absent", candidates)]
        /\ ctl[n].pc # "idle" /\ live' = [live EXCEPT ![n] = ctl[n].ledger] /\ queued' = queued
    BY <1>4 DEF reconcile
  <2>2. LiveKept
    BY <2>1 DEF Phased, LoopTypes, LiveOK, LiveKept
  <2>3. candidates \in SUBSET Attempts /\ Honest(ctl[n].ledger, "reject_absent", candidates)
    BY <1>1 DEF Open, Touched, Honest
  <2>4. \A a \in open : Touched(a)'
    BY DEF Touched
  <2> HIDE DEF open, candidates
  <2>5. d.held = open /\ d.renew = ctl[n].renew /\ d.start = ctl[n].start
    BY <1>1 DEF Passes
  <2> HIDE DEF d
  <2>6. Continues(n, c)
    BY <1>0, <2>4, <2>5 DEF Continues
  <2> HIDE DEF c
  <2> QED BY <2>1, <2>2, <2>3, <2>6, SentSound
<1>5. CASE observe(n)
  <2> DEFINE c == [ctl[n] EXCEPT !.pc = "advance", !.held = {}, !.bound = TRUE]
  <2>1. ctl' = [ctl EXCEPT ![n] = c] /\ msg' = [msg EXCEPT ![n] = Send(ctl[n].ledger, "observe", ctl[n].held)] /\ live' = live
    BY <1>5 DEF observe
  <2>2. c.held = {} /\ c.renew = ctl[n].renew /\ c.start = ctl[n].start
    BY <1>1 DEF Passes
  <2> HIDE DEF c
  <2>3. ctl[n].held \in SUBSET Attempts /\ Honest(ctl[n].ledger, "observe", ctl[n].held) /\ Continues(n, c) /\ LiveKept
    BY <1>1, <1>2, <2>1, <2>2 DEF Honest, Continues, LiveKept
  <2> QED BY <2>1, <2>3, SentSound
<1>6. CASE advance(n)
  <2> DEFINE going == {a \in On(n) : rec[a].state \in Active}
             unsure == {a \in On(n) : rec[a].state = "unknown" /\ (rec[a].observed = None \/ ~rec[a].observed.cleanup_confirmed)}
             start(refuse) == {a \in going \ refuse : rec[a].state = "prepared" /\ ~rec[a].start_requested /\ a \in ready}
  <2>1. PICK refuse \in SUBSET going, renews \in SUBSET going :
          /\ ctl' = [ctl EXCEPT ![n] = Proceed([@ EXCEPT !.pc = "renew", !.bound = TRUE, !.renew = renews, !.start = start(refuse)],
                                               unsure \cup refuse)]
          /\ msg' = [msg EXCEPT ![n] = Send(ctl[n].ledger, "stop", unsure \cup refuse)]
    BY <1>6, Zenon DEF advance
  <2>2. live' = live
    BY <1>6, Zenon DEF advance
  <2> DEFINE sent == unsure \cup refuse
             started == start(refuse)
             d == [ctl[n] EXCEPT !.pc = "renew", !.bound = TRUE, !.renew = renews, !.start = started]
             c == Proceed(d, sent)
  <2>3. /\ sent \in SUBSET Attempts /\ renews \subseteq Attempts /\ started \subseteq Attempts
        /\ \A a \in sent \cup renews \cup started : Touched(a)
    BY <1>1 DEF Touched, Active
  <2>4. ctl' = [ctl EXCEPT ![n] = c] /\ msg' = [msg EXCEPT ![n] = Send(ctl[n].ledger, "stop", sent)]
    BY <2>1
  <2> HIDE DEF sent, started
  <2>5. d.held = ctl[n].held /\ d.renew = renews /\ d.start = started
    BY <1>1 DEF Passes
  <2>6. c = Unlocked \/ c = d
    BY <1>3
  <2> HIDE DEF d, c
  <2>7. Continues(n, c)
    BY <1>0, <2>3, <2>5, <2>6 DEF RowsKept, Continues
  <2>8. Honest(ctl[n].ledger, "stop", sent) /\ LiveKept
    BY <2>2, <2>3 DEF Honest, LiveKept
  <2> QED BY <2>3, <2>4, <2>7, <2>8, SentSound
<1>7. CASE renewals(n)
  <2> DEFINE d == [ctl[n] EXCEPT !.pc = "start", !.renew = {}, !.bound = TRUE]
             c == Proceed(d, ctl[n].renew)
  <2>1. ctl' = [ctl EXCEPT ![n] = c] /\ msg' = [msg EXCEPT ![n] = Send(ctl[n].ledger, "renew", ctl[n].renew)] /\ live' = live
    BY <1>7 DEF renewals
  <2>2. d.held = ctl[n].held /\ d.renew = {} /\ d.start = ctl[n].start
    BY <1>1 DEF Passes
  <2>3. c = Unlocked \/ c = d
    BY <1>3
  <2> HIDE DEF d, c
  <2>4. Continues(n, c)
    BY <1>0, <2>2, <2>3 DEF Continues
  <2>5. ctl[n].renew \in SUBSET Attempts /\ Honest(ctl[n].ledger, "renew", ctl[n].renew) /\ LiveKept
    BY <1>1, <1>2, <2>1 DEF Honest, LiveKept
  <2> QED BY <2>1, <2>4, <2>5, SentSound
<1>8. CASE starts(n)
  <2> DEFINE d == [ctl[n] EXCEPT !.pc = "end", !.start = {}, !.bound = TRUE]
             values == ctl[n].start
             c == Proceed(d, values)
  <2>1. /\ ctl' = [ctl EXCEPT ![n] = c] /\ msg' = [msg EXCEPT ![n] = Send(ctl[n].ledger, "start", values)] /\ live' = live
        /\ Save(Started(values))
    BY <1>8 DEF starts
  <2>2. d.held = ctl[n].held /\ d.renew = ctl[n].renew /\ d.start = {}
    BY <1>1 DEF Passes
  <2>3. c = Unlocked \/ c = d
    BY <1>3
  <2>4. values \in SUBSET Attempts /\ \A a \in values : Touched(a)
    BY <1>1, <1>2
  <2> HIDE DEF d, c
  <2>5. Continues(n, c)
    BY <1>0, <2>2, <2>3 DEF Continues
  <2>6. \A a \in values : rec'[a].start_requested
    <3> SUFFICES ASSUME NEW a \in values PROVE rec'[a].start_requested
      OBVIOUS
    <3>1. rec'[a] = [rec[a] EXCEPT !.state = "starting", !.start_requested = TRUE] /\ rec'[a] \in AttemptRows
      BY <2>1, <2>4 DEF Save, Started, RowsKept, RowsInv, TypeOK
    <3>2. rec[a] \in AttemptRows
      BY <2>4 DEF RowsInv, TypeOK
    <3> QED BY <3>1, <3>2 DEF AttemptRows
  <2>7. Honest(ctl[n].ledger, "start", values) /\ LiveKept
    BY <2>1, <2>4, <2>6 DEF Honest, LiveKept
  <2> HIDE DEF values
  <2> QED BY <2>1, <2>4, <2>5, <2>7, SentSound
<1>9. CASE dispatch(n)
  <2> DEFINE c == [ctl[n] EXCEPT !.bound = TRUE]
  <2>1. /\ ctl' = [ctl EXCEPT ![n] = c] /\ msg' = [msg EXCEPT ![n] = Send(live[n], "prepare", queued[n])] /\ live' = live
        /\ rec' = rec
    BY <1>9 DEF dispatch, recordVars
  <2>2. c.held = ctl[n].held /\ c.renew = ctl[n].renew /\ c.start = ctl[n].start
    BY <1>1 DEF Passes
  <2> HIDE DEF c
  <2>3. queued[n] \in SUBSET Attempts /\ Honest(live[n], "prepare", queued[n])
    BY <1>1, <2>1 DEF QueuedTrue, Honest
  <2>4. Continues(n, c) /\ LiveKept
    BY <2>1, <2>2 DEF Continues, LiveKept
  <2> QED BY <2>1, <2>3, <2>4, SentSound
<1> QED BY <1>4, <1>5, <1>6, <1>7, <1>8, <1>9

LEMMA NextSound ==
  ASSUME PlanAssumption, CWInv, CommandInv, RowsKept, [CWNext]_vars
  PROVE  Sound
<1>0. PassTouched /\ QueuedTrue /\ RowsInv /\ LoopTypes /\ Phased
  BY DEF CommandInv, CWInv
<1>1. ASSUME UNCHANGED <<ctl, msg, live>> PROVE Sound
  BY <1>0, <1>1, StillSound DEF Sound
<1>2. CASE UNCHANGED vars \/ user \/ poll \/ executes \/ (\E a \in Attempts : placement(a) \/ sweep(a))
  BY <1>1, <1>2 DEF vars, runner, user, poll, executes, placement, sweep
<1>3. ASSUME NEW n \in Nodes, Reinstall(n) \/ \E m \in late[n] : serve_late(n, m) PROVE Sound
  <2>1. CASE Reinstall(n)
    BY <1>1, <2>1 DEF Reinstall, runner
  <2>2. ASSUME NEW m \in late[n], serve_late(n, m) PROVE Sound
    BY <1>1, <2>2 DEF serve_late
  <2> QED BY <1>3, <2>1, <2>2
<1>4. ASSUME NEW a \in Attempts, release(a) PROVE Sound
  <2> DEFINE n == NodeOf[a]
             c == [ctl[n] EXCEPT !.bound = TRUE]
  <2>1. /\ ctl' = [ctl EXCEPT ![n] = c] /\ msg' = [msg EXCEPT ![n] = Send(live[n], "release", {a})] /\ live' = live
        /\ rec[a].state \in Closed /\ n \in Nodes
    BY <1>4 DEF release, PlanAssumption
  <2>2. ctl[n] \in Passes
    BY <1>0, <2>1 DEF LoopTypes, CtlOK
  <2> HIDE DEF n
  <2>3. c.held = ctl[n].held /\ c.renew = ctl[n].renew /\ c.start = ctl[n].start
    BY <2>2 DEF Passes
  <2> HIDE DEF c
  <2>4. Continues(n, c) /\ LiveKept
    BY <2>1, <2>3 DEF Continues, LiveKept
  <2>5. Honest(live[n], "release", {a}) /\ {a} \in SUBSET Attempts
    BY <2>1 DEF Honest, Touched, Closed, TERMINAL
  <2> QED BY <1>0, <2>1, <2>4, <2>5, SentSound
<1>5. ASSUME NEW n \in Nodes, exchange(n) \/ CallFails(n) \/ batch(n) \/ node(n) \/ aborts(n) \/ SessionChanges(n) \/ Restart(n)
      PROVE  Sound
  BY <1>0, <1>5, SilentSound
<1>6. ASSUME NEW n \in Nodes, reconcile(n) \/ observe(n) \/ advance(n) \/ renewals(n) \/ starts(n) \/ dispatch(n)
      PROVE  Sound
  BY <1>0, <1>6, SendingSound
<1>7. ASSUME NEW n \in Nodes, NEW a \in Attempts, serve(n, a) PROVE Sound
  BY <1>0, <1>7, ServedSound
<1> QED BY <1>2, <1>3, <1>4, <1>5, <1>6, <1>7 DEF CWNext

-----------------------------------------------------------------------------
(* The agreement is kept *)

(* A row that is there after the step was there before it, or is placed. *)
LEMMA RowStays ==
  ASSUME NEW a \in Attempts, RowKept(a), Touched(a), rec'[a].state # "none"
  PROVE  /\ rec[a].state # "none" /\ rec'[a].ledger_id = rec[a].ledger_id /\ rec[a].lease <= rec'[a].lease
         /\ rec[a].start_requested => rec'[a].start_requested
  BY DEF RowKept, Placed, Touched

LEMMA CommandStays ==
  ASSUME RowsKept, RowsInv, NEW a \in Attempts, NEW x, NEW m, ItemOf(x, m, a), x.lease[a] \in Nat, CommandTrue(x, a)
  PROVE  CommandTrue(m, a)'
<1>1. RowKept(a) /\ Touched(a) /\ Touched(a)'
  BY DEF RowsKept, CommandTrue
<1>2. rec[a].lease \in Nat /\ rec'[a].lease \in Nat
  BY DEF RowsKept, RowsInv, TypeOK, AttemptRows
<1> QED BY <1>1, <1>2, RowStays DEF CommandTrue, ItemOf

LEMMA CommandInvStep ==
  ASSUME PlanAssumption, CWInv, CommandInv, RowsKept, LoopStep, Sound
  PROVE  CommandInv'
<1>0. RowsInv /\ LoopTypes /\ LoopTypes' /\ CommandsTrue /\ QueuedTrue
  BY DEF CWInv, CommandInv, LoopStep
<1>1. ASSUME NEW n \in Nodes, NEW m, NEW a \in Attempts, Carried(n, m, a) PROVE CommandTrue(m, a)'
  <2>1. CASE msg[n] # None /\ ItemOf(msg[n], m, a)
    <3>1. MsgOK(n, msg[n]) /\ a \in msg[n].todo
      BY <1>0, <2>1 DEF LoopTypes, MsgsOK, ItemOf
    <3>2. msg[n].lease[a] \in Nat
      BY <3>1 DEF MsgOK, Sent, Leases
    <3>3. CommandTrue(msg[n], a)
      BY <1>0, <2>1, <3>1 DEF CommandsTrue
    <3> QED BY <1>0, <2>1, <3>2, <3>3, CommandStays
  <2>2. ASSUME NEW x \in late[n], ItemOf(x, m, a) PROVE CommandTrue(m, a)'
    <3>1. RestOK(n, x) /\ a \in x.todo
      BY <1>0, <2>2 DEF LoopTypes, LateOK, ItemOf
    <3>2. x.lease[a] \in Nat
      BY <3>1 DEF RestOK, Rest, Leases
    <3>3. CommandTrue(x, a)
      BY <1>0, <3>1 DEF CommandsTrue
    <3> QED BY <1>0, <2>2, <3>2, <3>3, CommandStays
  <2> QED BY <1>1, <2>1, <2>2 DEF Carried
<1>2. CommandsTrue'
  <2> SUFFICES ASSUME NEW n \in Nodes
               PROVE  /\ msg'[n] # None => \A a \in msg'[n].todo : CommandTrue(msg[n], a)'
                      /\ \A m \in late'[n] : \A a \in m.todo : CommandTrue(m, a)'
    BY DEF CommandsTrue
  <2>1. ASSUME NEW m \in late'[n], NEW a \in m.todo PROVE CommandTrue(m, a)'
    <3>1. a \in Attempts
      BY <1>0 DEF LoopTypes, LateOK, RestOK, Rest
    <3> QED BY <1>1, <3>1 DEF LoopStep, CommandStep
  <2>2. ASSUME msg'[n] # None, NEW a \in msg'[n].todo PROVE CommandTrue(msg[n], a)'
    <3>1. a \in Attempts
      BY <1>0, <2>2 DEF LoopTypes, MsgsOK, MsgOK, On
    <3>2. CASE NewCommand(n)
      BY <2>2, <3>2 DEF Sound, NodeSound
    <3>3. CASE Carried(n, msg'[n], a)
      <4>1. PICK m : m = msg'[n]
        OBVIOUS
      <4>2. CommandTrue(m, a)'
        BY <1>1, <3>1, <3>3, <4>1
      <4> QED BY <4>1, <4>2 DEF CommandTrue
    <3> QED BY <2>2, <3>2, <3>3 DEF LoopStep, CommandStep
  <2> QED BY <2>1, <2>2
<1>3. PassTouched'
  BY DEF Sound, NodeSound, PassTouched
<1>4. QueuedTrue'
  <2> SUFFICES ASSUME NEW n \in Nodes, NEW a \in queued'[n]
               PROVE  Touched(a)' /\ (rec'[a].state # "none" => rec'[a].ledger_id = live'[n])
    BY DEF QueuedTrue
  <2>1. a \in Attempts /\ NodeOf[a] = n /\ live'[n] = live[n] /\ AttemptStep(a) /\ RowKept(a)
    BY <1>0 DEF LoopTypes, QueuedOK, On, Sound, NodeSound, LoopStep, RowsKept
  <2>2. CASE a \in queued[n]
    BY <1>0, <2>1, <2>2, RowStays DEF QueuedTrue, RowsKept
  <2>3. CASE Placed(a)
    BY <2>1, <2>3 DEF Placed, RowKept, Touched
  <2> QED BY <2>1, <2>2, <2>3 DEF AttemptStep
<1> QED BY <1>2, <1>3, <1>4 DEF CommandInv

LEMMA RowsSoundStep ==
  ASSUME PlanAssumption, LoopAssumption, CWInv, RecordInv, RowsKept, ExecutorStep
  PROVE  RowsSound'
<1> SUFFICES ASSUME NEW a \in Attempts, rec'[a].state # "none"
             PROVE  rec'[a].lease >= 1 /\ rec'[a].ledger_id \in 1..ledger'[NodeOf[a]]
  BY DEF RowsSound
<1> DEFINE n == NodeOf[a]
<1>1. n \in Nodes /\ ledger[n] \in Nat /\ ledger'[n] \in Nat /\ ledger[n] <= ledger'[n] /\ RowKept(a) /\ live[n] \in Past(n)
  BY DEF PlanAssumption, ExecutorStep, RowsKept, CWInv, LoopTypes, LiveOK
<1>2. rec[a].lease \in Nat /\ rec'[a].lease \in Nat
  BY DEF CWInv, RowsKept, RowsInv, TypeOK, AttemptRows
<1>3. CASE Placed(a)
  BY <1>1, <1>3 DEF RowKept, Placed, Past
<1>4. CASE ~Placed(a)
  <2>1. rec[a].state # "none" /\ rec'[a].ledger_id = rec[a].ledger_id /\ rec[a].lease <= rec'[a].lease
    BY <1>1, <1>4 DEF RowKept
  <2>2. rec[a].lease >= 1 /\ rec[a].ledger_id \in 1..ledger[n]
    BY <2>1 DEF RecordInv, RowsSound
  <2> QED BY <1>1, <1>2, <2>1, <2>2
<1> QED BY <1>3, <1>4

(* What has ended in the ledger it was reserved in stays ended. *)
LEMMA AgreesStays ==
  ASSUME PlanAssumption, LoopAssumption, CWInv, RecordInv, RowsKept, ExecutorStep, NEW a \in Attempts, Touched(a), NEW s, Agrees(a, s)
  PROVE  Agrees(a, s)'
<1> DEFINE n == NodeOf[a]
<1> SUFFICES ASSUME rec'[a].ledger_id = ledger'[n] PROVE Ended(board'[a]) /\ End(board'[a]) = s
  BY DEF Agrees
<1>1. n \in Nodes /\ ledger[n] \in Nat /\ ledger'[n] \in Nat /\ ledger[n] <= ledger'[n] /\ RowKept(a) /\ EndedStep(a)
  BY DEF PlanAssumption, ExecutorStep, RowsKept
<1>2. rec'[a].state # "none"
  <2>1. NoRow.ledger_id = None /\ None \notin Nat
    BY DEF NoRow, LoopAssumption
  <2>2. rec'[a].state = "none" => rec'[a] = NoRow
    BY DEF RowsKept, RowsInv, Linked, Blank
  <2> QED BY <1>1, <2>1, <2>2
<1>3. rec[a].state # "none" /\ rec'[a].ledger_id = rec[a].ledger_id
  BY <1>1, <1>2, RowStays
<1>4. rec[a].ledger_id \in 1..ledger[n]
  BY <1>3 DEF RecordInv, RowsSound
<1>5. ledger'[n] = ledger[n]
  BY <1>1, <1>3, <1>4
<1>6. Ended(board[a]) /\ End(board[a]) = s
  BY <1>3, <1>5 DEF Agrees
<1> QED BY <1>1, <1>5, <1>6 DEF EndedStep

LEMMA ForgottenStep ==
  ASSUME PlanAssumption, CWInv, Forgotten, RowsKept, LoopStep
  PROVE  Forgotten'
<1> SUFFICES ASSUME NEW a \in Attempts
             PROVE  /\ rec'[a].state = "none" => Gone(a)' \/ NodeOf[a] \in disabled'
                    /\ rec'[a].state = "abandoned" => NodeOf[a] \in disabled'
  BY DEF Forgotten
<1>1. RowKept(a) /\ AttemptStep(a) /\ disabled \subseteq disabled' /\ QueuedAbsent /\ ReleasedGone
  BY DEF RowsKept, LoopStep, CWInv, GoneInv
<1>2. ASSUME rec'[a].state = "none" PROVE Gone(a)' \/ NodeOf[a] \in disabled'
  <2>1. Gone(a) \/ NodeOf[a] \in disabled
    BY <1>1, <1>2 DEF RowKept, Forgotten, ReleasedGone, Placed
  <2>2. ~Placed(a) /\ ~Sealing(a)
    BY <1>2 DEF Placed, Sealing
  <2> QED BY <1>1, <2>1, <2>2, GoneStays
<1>3. ASSUME rec'[a].state = "abandoned" PROVE NodeOf[a] \in disabled'
  BY <1>1, <1>3 DEF RowKept, Forgotten, Placed
<1> QED BY <1>2, <1>3

LEMMA AgreeInvStep ==
  ASSUME PlanAssumption, LoopAssumption, CWInv, CommandInv, RecordInv, AgreeInv, RowsKept, LoopStep, ExecutorStep
  PROVE  AgreeInv'
<1>1. Forgotten'
  BY ForgottenStep DEF AgreeInv
<1>2. ReportsAgree'
  <2> SUFFICES ASSUME NEW n \in Nodes, NEW a \in Attempts, NEW r, Says(n, a, r)'
               PROVE  Touched(a)' /\ (Ended(r) => Agrees(a, End(r))')
    BY DEF ReportsAgree
  <2>1. CASE Says(n, a, r)
    <3>1. Touched(a) /\ (Ended(r) => Agrees(a, End(r)))
      BY <2>1 DEF AgreeInv, ReportsAgree
    <3> DEFINE s == End(r)
    <3> HIDE DEF s
    <3>2. Ended(r) => Agrees(a, s)'
      BY <3>1, AgreesStays DEF s
    <3> QED BY <3>1, <3>2 DEF s, RowsKept
  <2>2. CASE r = board'[a] /\ (board[a].state # "absent" \/ (msg[n] # None /\ a \in msg[n].todo))
    <3>1. Touched(a)
      BY <2>2 DEF CWInv, GoneInv, UntouchedFresh, Fresh, CommandInv, CommandsTrue, CommandTrue
    <3>2. Ended(r) => Agrees(a, End(r))'
      BY <2>2 DEF Agrees
    <3> QED BY <3>1, <3>2 DEF RowsKept
  <2> QED BY <2>1, <2>2 DEF LoopStep, SaysStep
<1>3. OutcomesAgree'
  <2> SUFFICES ASSUME NEW a \in Attempts, rec'[a].outcome # None, rec'[a].state # "abandoned"
               PROVE  Agrees(a, rec[a].outcome.state)'
    BY DEF OutcomesAgree
  <2>0. PICK s : s = rec'[a].outcome.state
    OBVIOUS
  <2>1. RowKept(a) /\ (rec'[a].state = "none" => rec'[a] = NoRow) /\ NoRow.outcome = None
    BY DEF RowsKept, RowsInv, Linked, Blank, NoRow
  <2>2. /\ rec[a].state \notin {"none", "abandoned"} /\ (rec'[a].outcome = rec[a].outcome \/ Ends(a, s))
    BY <2>0, <2>1 DEF RowKept, Placed
  <2>3. CASE rec'[a].outcome = rec[a].outcome
    <3>1. Agrees(a, s)
      BY <2>0, <2>2, <2>3 DEF AgreeInv, OutcomesAgree
    <3> QED BY <2>0, <2>2, <3>1, AgreesStays DEF Touched, Agrees
  <2>4. CASE Ends(a, s)
    <3>1. PICK n \in Nodes : \E r : Says(n, a, r) /\ Ended(r) /\ End(r) = s
      BY <2>4 DEF Ends, Says
    <3>2. PICK r : Says(n, a, r) /\ Ended(r) /\ End(r) = s
      BY <3>1
    <3>3. Agrees(a, s)
      BY <3>2 DEF AgreeInv, ReportsAgree
    <3> QED BY <2>0, <2>2, <3>3, AgreesStays DEF Touched, Agrees
  <2> QED BY <2>2, <2>3, <2>4
<1> QED BY <1>1, <1>2, <1>3 DEF AgreeInv

(* The loop's invariant, strengthened by what commands, records and reports *)
(* say of the rows.                                                         *)
AgreementInv == CWInv /\ CommandInv /\ RecordInv /\ AgreeInv

LEMMA AgreementInit ==
  ASSUME PlanAssumption, LoopAssumption, CWInit
  PROVE  AgreementInv
<1>1. CWInv
  BY CWInitInv
<1>2. /\ \A a \in Attempts : rec[a] = NoRow /\ board[a] = Board!Unlisted /\ NodeOf[a] \in Nodes
      /\ spent = {} /\ NoRow.state = "none" /\ NoRow.outcome = None /\ Board!Unlisted.state = "absent"
  BY DEF CWInit, Init, NoRow, Board!BoardInit, Board!Unlisted, PlanAssumption
<1>3. /\ \A n \in Nodes : msg[n] = None /\ late[n] = {} /\ queued[n] = {} /\ ctl[n] = Unlocked
      /\ Unlocked.held = {} /\ Unlocked.renew = {} /\ Unlocked.start = {} /\ DOMAIN Unlocked.page = {}
  BY Empty DEF CWInit, LoopInit, Unlocked
<1>4. CommandInv
  BY <1>3 DEF CommandInv, CommandsTrue, PassTouched, QueuedTrue
<1>5. RecordInv
  BY <1>2 DEF RecordInv, RowsSound, BoardTrue, SpentListed
<1>6. Forgotten
  BY <1>2, <1>3 DEF Forgotten, Gone, Fresh, Asked
<1>7. ReportsAgree /\ OutcomesAgree
  BY <1>2, <1>3 DEF ReportsAgree, OutcomesAgree, Says
<1> QED BY <1>1, <1>4, <1>5, <1>6, <1>7 DEF AgreementInv, AgreeInv

LEMMA AgreementNext ==
  ASSUME PlanAssumption, LoopAssumption, AgreementInv, [CWNext]_vars
  PROVE  AgreementInv'
<1>0. CWInv /\ CommandInv /\ RecordInv /\ AgreeInv /\ CommandsTrue
  BY DEF AgreementInv, CommandInv
<1>1. CWInv' /\ RowsKept /\ LoopStep
  BY <1>0, CWNextInv
<1>2. ExecutorStep
  BY <1>0, <1>1, NextRecords
<1>3. Sound
  BY <1>0, <1>1, NextSound
<1>4. CommandInv'
  BY <1>0, <1>1, <1>3, CommandInvStep
<1>5. RecordInv'
  BY <1>0, <1>1, <1>2, RowsSoundStep DEF RecordInv, ExecutorStep
<1>6. AgreeInv'
  BY <1>0, <1>1, <1>2, AgreeInvStep
<1> QED BY <1>1, <1>4, <1>5, <1>6 DEF AgreementInv

LEMMA AgreementRows ==
  ASSUME LoopAssumption, AgreementInv
  PROVE  RowsAgree
<1> USE DEF AgreementInv
<1>1. AdmittedWhereReserved
  BY DEF AdmittedWhereReserved, RecordInv, BoardTrue
<1>2. ReleasedIdle
  <2> SUFFICES ASSUME NEW a \in Attempts, a \in alive \/ board[a].state \in Active \cup {"unknown"}
               PROVE  rec[a].state # "released" /\ (rec[a].state = "none" => NodeOf[a] \in disabled)
    BY DEF ReleasedIdle
  <2>1. board[a].state \notin {"absent", "released"}
    BY DEF CWInv, BoardInv, AliveUnsettled, Active
  <2>2. ~Gone(a)
    BY <2>1 DEF Gone, Fresh
  <2> QED BY <2>2 DEF CWInv, GoneInv, ReleasedGone, AgreeInv, Forgotten
<1>3. IntentRecorded
  BY DEF IntentRecorded, RecordInv, BoardTrue, SpentListed
<1>4. LeaseStored
  <2> SUFFICES ASSUME NEW a \in Attempts, rec[a].state # "none" PROVE board[a].lease_sequence <= rec[a].lease
    BY DEF LeaseStored
  <2>1. CASE board[a].state = "absent"
    <3>1. board[a] = Board!Unlisted /\ rec[a].lease \in Nat
      BY <2>1, TakenUp DEF CWInv, BoardInv, BoardTypes, RowsInv, TypeOK, AttemptRows
    <3> QED BY <3>1 DEF Board!Unlisted
  <2>2. CASE board[a].state # "absent"
    BY <2>2 DEF RecordInv, BoardTrue
  <2> QED BY <2>1, <2>2
<1>5. OutcomeAgrees
  BY DEF OutcomeAgrees, AgreeInv, OutcomesAgree, Agrees, End
<1> QED BY <1>1, <1>2, <1>3, <1>4, <1>5 DEF RowsAgree

(* The controller's rows and the executors never contradict each other:     *)
(* whatever is lost, late, restarted, revoked or installed again, an        *)
(* executor holds no attempt, start or lease its row does not have, nothing *)
(* runs on released capacity, and a recorded outcome is the executor's.     *)
THEOREM RowsAlwaysAgree == CWSpec => []RowsAgree
<1>1. CWInit => AgreementInv
  BY PlanAssumption, LoopConstants, AgreementInit
<1>2. AgreementInv /\ [CWNext]_vars => AgreementInv'
  BY PlanAssumption, LoopConstants, AgreementNext
<1>3. AgreementInv => RowsAgree
  BY LoopConstants, AgreementRows
<1> QED BY <1>1, <1>2, <1>3, PTL DEF CWSpec
=============================================================================
