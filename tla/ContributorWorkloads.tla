------------------------ MODULE ContributorWorkloads ------------------------
(* The controller's workload loop (workloads/runner.py, commands.py,        *)
(* channel.py, node_records.py, queue.py) over its durable rows             *)
(* (WorkloadRecords) and the contributors' executors (ExecutorBoard, which  *)
(* Executor implements).  A command is executed at most once, item by item, *)
(* possibly long after the controller gave up on it; its reply may be lost. *)
(*                                                                          *)
(* Time is left out: a lease is its sequence number, and an executor may    *)
(* stop an attempt at any moment.  One snapshot page holds every attempt.   *)
EXTENDS WorkloadRecords

CONSTANTS
  Detail,              \* the reason and counts of every result
  Outcomes,            \* the final states executors settle attempts in
  Revocable, Unstable, \* bounds: nodes that may be revoked, or lose their session
  Delayed,             \* bound: the actions whose commands may be executed late
  MaxLate, MaxLedgers  \* bounds on late commands and on reinstallations

LoopAssumption ==
  /\ Outcomes \subseteq Closed /\ Detail \in Details /\ Revocable \subseteq Nodes
  /\ MaxLedgers \in Nat \ {0} /\ 1..MaxLedgers \subseteq Ledgers /\ None \notin Nat

ASSUME LoopConstants == LoopAssumption

VARIABLES
  board, alive, spent,  \* the executors of all nodes, as ExecutorBoard has them
  ledger,               \* node -> identity of its executor's ledger
  saved,                \* workload_nodes: node -> ledger of the last saved snapshot
  ctl,                  \* Runner.lock and the coroutine that holds it
  msg,                  \* Channel.pending: node -> the command it waits for
  late,                 \* node -> delivered commands nobody waits for any more
  live, reconciled,     \* Runner.live and Runner.reconciled, by ledger
  ready,                \* Commands.observed: attempts seen ready to start
  queued,               \* node -> reserved attempts that await dispatch
  phase                 \* Runner.poll: "nodes" or "schedule"

executors == <<board, alive, spent, ledger>>
runner    == <<ctl, msg, late, live, reconciled, ready, queued, phase>>
vars == <<recordVars, executors, saved, runner>>

Board == INSTANCE ExecutorBoard WITH
  JobOf <- [a \in Attempts |-> <<JobOf[a], NodeOf[a]>>], Expiries <- {0}, MaxSeq <- MaxLeases

Refused == [Board!Unlisted EXCEPT !.state = "refused"]
Actions == {"prepare", "reject_absent", "observe", "stop", "renew", "start", "release"}
Unlocked == [pc |-> "idle", ledger |-> None, page |-> <<>>, held |-> {}, renew |-> {}, start |-> {}, bound |-> FALSE]

LoopInit ==
  /\ saved = [n \in Nodes |-> None]
  /\ ctl = [n \in Nodes |-> Unlocked]
  /\ msg = [n \in Nodes |-> None] /\ late = [n \in Nodes |-> {}]
  /\ live = [n \in Nodes |-> None] /\ reconciled = [n \in Nodes |-> None]
  /\ ready = {} /\ queued = [n \in Nodes |-> {}] /\ phase = "nodes"

CWInit ==
  /\ Init /\ Board!BoardInit
  /\ ledger = [n \in Nodes |-> 1]
  /\ LoopInit

On(n) == {a \in Attempts : NodeOf[a] = n}
Open(n) == {a \in On(n) : rec[a].state \notin {"none", "released", "abandoned"}}
locked(n) == ctl[n].pc # "idle" \/ msg[n] # None

-----------------------------------------------------------------------------
(* Reading the executor's answers *)

available(n) == live[n] # None /\ reconciled[n] = live[n]

(* authority: what the model knows of it; policy and the offer may refuse too. *)
authority(a) ==
  /\ ~suspended /\ ~job[JobOf[a]].cancelled
  /\ NodeOf[a] \notin disabled /\ available(NodeOf[a])
  /\ live[NodeOf[a]] = rec[a].ledger_id

Result(state, r) == [state |-> state, cleanup_confirmed |-> r.cleanup_confirmed, detail |-> Detail]

(* The results commands.observation records, one transaction each: the      *)
(* outcome of a released attempt before the release itself.                 *)
Accepts(a, r, snapshot) ==
  LET row == rec[a]  j == job[JobOf[a]] IN
  /\ row.ledger_id = snapshot /\ r.lease_sequence <= row.lease
  /\ IF row.state = "released" THEN row.observed = Result(r.state, r)
     ELSE IF r.state = "released"
     THEN LET first == Result(r.outcome, r) IN
          /\ IsCurrent(a) /\ Fits(row, j, first)
          /\ Fits(ObservedRow(row, first), ObservedJob(j, first), Result("released", r))
     ELSE IsCurrent(a) /\ Fits(row, j, Result(r.state, r))

Seen(row, r) ==
  IF row.state = "released" THEN row
  ELSE IF r.state = "released" THEN ObservedRow(ObservedRow(row, Result(r.outcome, r)), Result("released", r))
  ELSE ObservedRow(row, Result(r.state, r))

Doubted(row) == IF row.state \in Active THEN [row EXCEPT !.state = "unknown"] ELSE row

(* The state a job takes with its attempt's row: a release changes no job. *)
Shown(row) == IF row.state = "released" THEN row.outcome.state ELSE row.state

(* rows maps some attempts to new rows; their jobs follow them. *)
Save(rows) ==
  /\ rec' = [a \in Attempts |-> IF a \in DOMAIN rows THEN rows[a] ELSE rec[a]]
  /\ job' = [j \in Jobs |->
       LET a == job[j].current_attempt IN
       IF a \in DOMAIN rows /\ rows[a] # rec[a] THEN [job[j] EXCEPT !.state = Shown(rows[a])] ELSE job[j]]
  /\ UNCHANGED <<disabled, suspended>>

(* uncertain marks the items one after the other; a row deleted meanwhile   *)
(* ends the marking with an error.                                          *)
Marked(items) ==
  IF \A a \in items : rec[a].state # "none" THEN {items}
  ELSE SUBSET {a \in items : rec[a].state # "none"}

-----------------------------------------------------------------------------
(* The channel *)

(* Channel.request: one command per node, bound to the current session. *)
Send(ledger_id, action, items) ==
  IF items = {} THEN None
  ELSE [action |-> action, ledger |-> ledger_id, delivered |-> FALSE, todo |-> items,
        items |-> items, lease |-> [a \in items |-> rec'[a].lease], results |-> <<>>]

Checked(m) ==
  /\ m.action \in {"prepare", "renew", "start"} => \A a \in m.items : authority(a)
  /\ m.action = "release" => \A a \in m.items : IsCurrent(a)

(* Channel.exchange hands the command to the contributor's poll. *)
exchange(n) ==
  /\ msg[n] # None /\ ~msg[n].delivered /\ ctl[n].bound /\ n \notin disabled
  /\ Checked(msg[n])
  /\ msg' = [msg EXCEPT ![n].delivered = TRUE]
  /\ UNCHANGED <<recordVars, executors, saved, ctl, late, live, reconciled, ready, queued, phase>>

(* What becomes of the executor's side of a command nobody waits for. *)
GiveUp(n) ==
  LET m == msg[n]
      rest == [action |-> m.action, ledger |-> m.ledger, todo |-> m.todo, lease |-> m.lease]
  IN late' \in {late} \cup IF m # None /\ m.delivered /\ m.todo # {} /\ m.action \in Delayed /\ Cardinality(UNION {late[k] : k \in Nodes}) < MaxLate
                           THEN {[late EXCEPT ![n] = @ \cup {rest}]} ELSE {}

(* A timeout, a changed session, a failed check, an unavailable executor or *)
(* an unacceptable result: what the batch did is in doubt.  done are the    *)
(* items whose results were recorded before the failure.                    *)
CallFails(n) ==
  LET m == msg[n] IN
  /\ m # None
  /\ \E done \in SUBSET {a \in DOMAIN m.results : m.results[a] # Refused /\ Accepts(a, m.results[a], m.ledger)} :
       /\ done # {} => /\ m.todo = {} /\ ctl[n].bound /\ Checked(m)
                       /\ \E a \in m.items \ done : m.results[a] # Refused /\ ~Accepts(a, m.results[a], m.ledger)
       /\ \E marked \in Marked(m.items) :
            /\ Save([a \in done \cup marked |->
                 LET row == IF a \in done THEN Seen(rec[a], m.results[a]) ELSE rec[a]
                 IN IF a \in marked THEN Doubted(row) ELSE row])
            /\ ready' = ready \ marked
  /\ GiveUp(n)
  /\ msg' = [msg EXCEPT ![n] = None]
  /\ ctl' = [ctl EXCEPT ![n] = Unlocked]
  /\ live' = IF ctl[n].pc = "idle" THEN live ELSE [live EXCEPT ![n] = None]
  /\ UNCHANGED <<executors, saved, reconciled, queued, phase>>

(* batch: every item was answered and every answer is recorded. *)
batch(n) ==
  LET m == msg[n] IN
  /\ m # None /\ m.delivered /\ m.todo = {} /\ ctl[n].bound /\ n \notin disabled /\ Checked(m)
  /\ \A a \in m.items : m.results[a] # Refused => Accepts(a, m.results[a], m.ledger)
  /\ Save([a \in m.items |-> IF m.results[a] = Refused THEN Doubted(rec[a]) ELSE Seen(rec[a], m.results[a])])
  /\ ready' = (ready \ m.items) \cup {a \in m.items : m.results[a] # Refused /\ m.results[a].ready}
  /\ msg' = [msg EXCEPT ![n] = None]
  /\ ctl' = [ctl EXCEPT ![n] = IF @.pc \in {"idle", "end"} \/ (@.pc = "start" /\ @.start = {}) THEN Unlocked ELSE @]
  /\ UNCHANGED <<executors, saved, late, live, reconciled, queued, phase>>

-----------------------------------------------------------------------------
(* Runner.node: one pass over a connected contributor.  pc names the next   *)
(* call; what lies between two awaits is one or a few steps.                *)

Idle(n) == msg[n] = None /\ ctl[n].pc # "idle"

node(n) ==
  /\ phase = "nodes" /\ ~locked(n) /\ n \notin disabled
  /\ ctl' = [ctl EXCEPT ![n] = [Unlocked EXCEPT !.pc = "reconcile", !.ledger = ledger[n], !.bound = TRUE,
               !.page = [a \in {b \in On(n) : board[b].state # "absent"} |-> board[a]]]]
  /\ UNCHANGED <<recordVars, executors, saved, msg, late, live, reconciled, ready, queued, phase>>

(* Nodes.save refuses a replaced ledger over retained attempts. *)
Replaces(n) ==
  saved[n] \notin {None, ctl[n].ledger} /\ \E a \in On(n) : rec[a].state \notin {"none", "released"}

(* Listed attempts whose row is open.  reconcile also stops listed attempts *)
(* that have no row; ReleasedIdle says that it never meets one.             *)
Known(n) == DOMAIN ctl[n].page \cap Open(n)

(* The snapshot's attempts are recorded, those it does not list become      *)
(* uncertain, the snapshot is live, and attempts the executor may never     *)
(* have seen are sealed before anything else is asked of it.                *)
reconcile(n) ==
  LET c == ctl[n]  again == reconciled[n] = c.ledger
      seen == IF again THEN {} ELSE Known(n)
      missing == IF again THEN {} ELSE Open(n) \ DOMAIN c.page
      candidates == {a \in Open(n) : /\ rec'[a].state = "unknown" /\ rec'[a].observed = None
                                     /\ ~rec'[a].start_requested /\ rec'[a].ledger_id = c.ledger}
  IN
  /\ Idle(n) /\ c.pc = "reconcile" /\ c.bound /\ n \notin disabled
  /\ ~Replaces(n)
  /\ \A a \in seen : Accepts(a, c.page[a], c.ledger)
  /\ Save([a \in seen \cup missing |-> IF a \in seen THEN Seen(rec[a], c.page[a]) ELSE Doubted(rec[a])])
  /\ ready' = (ready \ (seen \cup missing)) \cup {a \in seen : c.page[a].ready}
  /\ saved' = [saved EXCEPT ![n] = c.ledger]
  /\ reconciled' = [reconciled EXCEPT ![n] = c.ledger] /\ live' = [live EXCEPT ![n] = c.ledger]
  /\ LET open == {a \in On(n) : rec'[a].state \notin {"none", "released", "abandoned"}} IN
       ctl' = [ctl EXCEPT ![n] = IF open = {} THEN Unlocked
                                 ELSE [c EXCEPT !.pc = "observe", !.page = <<>>, !.held = open]]
  /\ msg' = [msg EXCEPT ![n] = Send(ctl[n].ledger, "reject_absent", candidates)]
  /\ UNCHANGED <<executors, late, queued, phase>>

observe(n) ==
  /\ Idle(n) /\ ctl[n].pc = "observe"
  /\ ctl' = [ctl EXCEPT ![n].pc = "advance", ![n].held = {}, ![n].bound = TRUE]
  /\ UNCHANGED <<recordVars, executors, saved, late, live, reconciled, ready, queued, phase>>
  /\ msg' = [msg EXCEPT ![n] = Send(ctl[n].ledger, "observe", ctl[n].held)]

(* The pass is over when nothing is left to send and no reply to wait for. *)
Proceed(c, sent) == IF sent \cup c.renew \cup c.start = {} THEN Unlocked ELSE c

(* advance sorts the attempts by what authority, policy and time allow. *)
advance(n) ==
  LET going == {a \in On(n) : rec[a].state \in Active}
      unsure == {a \in On(n) : rec[a].state = "unknown" /\ (rec[a].observed = None \/ ~rec[a].observed.cleanup_confirmed)}
  IN
  /\ Idle(n) /\ ctl[n].pc = "advance"
  /\ \E refuse \in SUBSET going, renews \in SUBSET going :
       /\ {a \in going : ~authority(a)} \subseteq refuse /\ renews \cap refuse = {}
       /\ ctl' = [ctl EXCEPT ![n] = Proceed([@ EXCEPT !.pc = "renew", !.bound = TRUE, !.renew = renews,
            !.start = {a \in going \ refuse : rec[a].state = "prepared" /\ ~rec[a].start_requested /\ a \in ready}],
            unsure \cup refuse)]
       /\ UNCHANGED <<recordVars, executors, saved, late, live, reconciled, ready, queued, phase>>
       /\ msg' = [msg EXCEPT ![n] = Send(ctl[n].ledger, "stop", unsure \cup refuse)]

Renewable(a) ==
  rec[a].state \in {"prepared", "starting", "running"} /\ IsCurrent(a) /\ ~job[JobOf[a]].cancelled

(* The new leases are stored before they are sent. *)
renewals(n) ==
  LET values == ctl[n].renew IN
  /\ Idle(n) /\ ctl[n].pc = "renew"
  /\ \A a \in values : authority(a) /\ Renewable(a) /\ rec[a].lease < MaxLeases
  /\ rec' = [a \in Attempts |-> IF a \in values THEN [rec[a] EXCEPT !.lease = @ + 1] ELSE rec[a]]
  /\ ctl' = [ctl EXCEPT ![n] = Proceed([@ EXCEPT !.pc = "start", !.renew = {}, !.bound = TRUE], values)]
  /\ msg' = [msg EXCEPT ![n] = Send(ctl[n].ledger, "renew", values)]
  /\ UNCHANGED <<job, disabled, suspended, executors, saved, late, live, reconciled, ready, queued, phase>>

Startable(a) == rec[a].state = "prepared" /\ IsCurrent(a) /\ ~job[JobOf[a]].cancelled

(* Mutant: the intent to start is not recorded. *)
StartedUnrecorded(values) == [a \in values |-> [rec[a] EXCEPT !.state = "starting"]]

Started(values) == [a \in values |-> [rec[a] EXCEPT !.state = "starting", !.start_requested = TRUE]]

(* Dispatch intent is recorded before the command leaves. *)
starts(n) ==
  LET values == ctl[n].start IN
  /\ Idle(n) /\ ctl[n].pc = "start"
  /\ \A a \in values : authority(a) /\ Startable(a)
  /\ Save(Started(values))
  /\ ctl' = [ctl EXCEPT ![n] = Proceed([@ EXCEPT !.pc = "end", !.start = {}, !.bound = TRUE], values)]
  /\ msg' = [msg EXCEPT ![n] = Send(ctl[n].ledger, "start", values)]
  /\ UNCHANGED <<executors, saved, late, live, reconciled, ready, queued, phase>>

(* Any other failure of the pass: the results, or the start intents, of the *)
(* items before the failing one are stored, and nothing was sent.           *)
aborts(n) ==
  LET c == ctl[n]
      before == IF c.pc = "start" THEN {a \in c.start : Startable(a)}
                ELSE IF c.pc = "reconcile" THEN {a \in Known(n) : Accepts(a, c.page[a], c.ledger)} ELSE {}
  IN
  /\ Idle(n)
  /\ \E done \in SUBSET before :
       /\ done # {} => IF c.pc = "start" THEN c.start # before /\ \A a \in c.start : authority(a)
                       ELSE Known(n) # before /\ ~Replaces(n) /\ reconciled[n] # c.ledger
       /\ Save(IF c.pc = "start" THEN Started(done) ELSE [a \in done |-> Seen(rec[a], c.page[a])])
       /\ ready' = IF c.pc = "start" THEN ready ELSE (ready \ done) \cup {a \in done : c.page[a].ready}
  /\ ctl' = [ctl EXCEPT ![n] = Unlocked]
  /\ live' = [live EXCEPT ![n] = None]
  /\ UNCHANGED <<executors, saved, msg, late, reconciled, queued, phase>>

-----------------------------------------------------------------------------
(* Runner.schedule, Runner.dispatch, the expiry sweep of poll, and users *)

Dispatching == \E n \in Nodes : queued[n] # {} \/ (msg[n] # None /\ msg[n].action = "prepare")

placement(a) ==
  LET n == NodeOf[a] IN
  /\ phase = "schedule" /\ ~suspended /\ ~locked(n) /\ queued[n] = {} /\ n \notin disabled /\ available(n)
  /\ reserve(a, live[n])
  /\ queued' = [queued EXCEPT ![n] = {a}]
  /\ UNCHANGED <<executors, saved, ctl, msg, late, live, reconciled, ready, phase>>

dispatch(n) ==
  /\ queued[n] # {} /\ ~locked(n)
  /\ ctl' = [ctl EXCEPT ![n].bound = TRUE]
  /\ UNCHANGED <<recordVars, executors, saved, late, live, reconciled, ready, phase>>
  /\ msg' = [msg EXCEPT ![n] = Send(live[n], "prepare", queued[n])]
  /\ queued' = [queued EXCEPT ![n] = {}]

sweep(a) ==
  /\ phase = "schedule" /\ ~Dispatching
  /\ rec[a].state \in Active /\ ~available(NodeOf[a])
  /\ Save([b \in {a} |-> Doubted(rec[a])]) /\ ready' = ready \ {a}
  /\ UNCHANGED <<executors, saved, ctl, msg, late, live, reconciled, queued, phase>>

poll ==
  /\ \/ phase = "nodes" /\ (\A n \in Nodes : ctl[n].pc = "idle") /\ phase' = "schedule"
     \/ phase = "schedule" /\ ~Dispatching /\ phase' = "nodes"
  /\ UNCHANGED <<recordVars, executors, saved, ctl, msg, late, live, reconciled, ready, queued>>

(* Queue.release of a completed workload's output and capacity. *)
release(a) ==
  LET n == NodeOf[a] IN
  /\ IsCurrent(a) /\ job[JobOf[a]].state \in Closed /\ rec[a].state \in Closed
  /\ rec[a].observed # None /\ rec[a].observed.cleanup_confirmed
  /\ ~locked(n) /\ available(n)
  /\ ctl' = [ctl EXCEPT ![n].bound = TRUE]
  /\ UNCHANGED <<recordVars, executors, saved, late, live, reconciled, ready, queued, phase>>
  /\ msg' = [msg EXCEPT ![n] = Send(live[n], "release", {a})]

user ==
  /\ \/ \E j \in Jobs : submit(j) \/ cancel(j) \/ abandon(j) \/ remove(j)
                        \/ \E ack \in BOOLEAN : retry(j, ack)
     \/ \E n \in Revocable : disable(n)
  /\ UNCHANGED <<executors, saved, runner>>

-----------------------------------------------------------------------------
(* Failures of the controller, the connection and the executor *)

SessionChanges(n) ==
  /\ n \in Unstable
  /\ reconciled[n] # None \/ ctl[n].bound
  /\ ctl' = [ctl EXCEPT ![n].bound = FALSE]
  /\ reconciled' = [reconciled EXCEPT ![n] = None]
  /\ UNCHANGED <<recordVars, executors, saved, msg, late, live, ready, queued, phase>>

(* The controller restarts: only the rows survive. *)
Restart(n) ==
  /\ \A m \in Nodes \ {n} : msg[m] = None
  /\ GiveUp(n)
  /\ msg' = [m \in Nodes |-> None] /\ ctl' = [m \in Nodes |-> Unlocked]
  /\ live' = [m \in Nodes |-> None] /\ reconciled' = [m \in Nodes |-> None]
  /\ queued' = [m \in Nodes |-> {}] /\ ready' = {} /\ phase' = "nodes"
  /\ UNCHANGED <<recordVars, executors, saved>>

(* The machine's owner installs the executor again, with an empty ledger. *)
Reinstall(n) ==
  /\ ledger[n] < MaxLedgers
  /\ ledger' = [ledger EXCEPT ![n] = @ + 1]
  /\ board' = [a \in Attempts |-> IF NodeOf[a] = n THEN Board!Unlisted ELSE board[a]]
  /\ alive' = alive \ On(n) /\ spent' = spent \ On(n)
  /\ UNCHANGED <<recordVars, saved, runner>>

-----------------------------------------------------------------------------
(* Executors: service.dispatch works through a command's items *)

Handle(action, a, seq) ==
  \/ action = "prepare" /\ (Board!AdmitPlan(a, 0) \/ Board!SealPlan(a))
  \/ action = "reject_absent" /\ Board!SealPlan(a)
  \/ action = "renew" /\ Board!ExtendLease(a, seq, 0)
  \/ action = "start" /\ Board!AcceptStart(a)
  \/ action = "stop" /\ \E final \in Outcomes, clean \in BOOLEAN : Board!Settle(a, final, clean)
  \/ action = "release" /\ Board!FreeAttempt(a)

(* The answer when the ledger stays as it is: the record or a refusal. *)
Kept(action, a) ==
  IF board[a].state = "absent"
  THEN IF action \in {"prepare", "reject_absent"} /\ Board!Newest(a) THEN {} ELSE {Refused}
  ELSE IF action \in {"prepare", "reject_absent", "observe"} THEN {board[a]}
  ELSE IF action = "start" THEN IF board[a].state = "prepared" THEN {Refused} ELSE {board[a]}
  ELSE IF action = "release" THEN IF board[a].state = "released" THEN {board[a]} ELSE {Refused}
  ELSE {board[a], Refused}

Binds(n, m) == m.action \in {"prepare", "reject_absent"} => m.ledger = ledger[n]

serve(n, a) ==
  LET m == msg[n] IN
  /\ m # None /\ m.delivered /\ a \in m.todo /\ Binds(n, m)
  /\ \E result \in Kept(m.action, a) \cup {None} :
       /\ IF result = None THEN Handle(m.action, a, m.lease[a]) ELSE UNCHANGED <<board, alive, spent>>
       /\ msg' = [msg EXCEPT ![n] = [m EXCEPT !.todo = @ \ {a},
            !.results = [b \in DOMAIN m.results \cup {a} |->
               IF b # a THEN m.results[b] ELSE IF result = None THEN board'[a] ELSE result]]]
  /\ UNCHANGED <<recordVars, ledger, saved, ctl, late, live, reconciled, ready, queued, phase>>

(* ... also of a command the controller gave up on. *)
serve_late(n, m) ==
  /\ \/ ~Binds(n, m) /\ late' = [late EXCEPT ![n] = @ \ {m}] /\ UNCHANGED <<board, alive, spent>>
     \/ /\ Binds(n, m)
        /\ \E a \in m.todo :
             /\ Handle(m.action, a, m.lease[a]) \/ (Kept(m.action, a) # {} /\ UNCHANGED <<board, alive, spent>>)
             /\ late' = [late EXCEPT ![n] = (@ \ {m}) \cup
                  (IF m.todo = {a} THEN {} ELSE {[m EXCEPT !.todo = @ \ {a}]})]
  /\ UNCHANGED <<recordVars, ledger, saved, ctl, msg, live, reconciled, ready, queued, phase>>

(* What an executor does of itself. *)
executes ==
  /\ \/ \E a \in Attempts :
          \/ Board!BecomeReady(a) \/ Board!LaunchUnit(a) \/ Board!ConfirmStart(a)
          \/ \E final \in Outcomes, clean \in BOOLEAN : Board!Settle(a, final, clean)
     \/ alive # {} /\ Board!UnitsDie
  /\ UNCHANGED <<recordVars, ledger, saved, runner>>

CWNext ==
  \/ user \/ poll \/ executes
  \/ \E a \in Attempts : placement(a) \/ sweep(a) \/ release(a)
  \/ \E n \in Nodes :
       \/ exchange(n) \/ CallFails(n) \/ batch(n)
       \/ node(n) \/ reconcile(n)
       \/ observe(n) \/ advance(n) \/ renewals(n) \/ starts(n) \/ aborts(n)
       \/ dispatch(n) \/ SessionChanges(n) \/ Restart(n) \/ Reinstall(n)
       \/ \E a \in Attempts : serve(n, a)
       \/ \E m \in late[n] : serve_late(n, m)

CWSpec == CWInit /\ [][CWNext]_vars

-----------------------------------------------------------------------------
(* Rows, executor records and the loop's volatile state keep their types. *)
CWTypeOK ==
  /\ TypeOK
  /\ alive \subseteq spent /\ spent \subseteq Attempts
  /\ ledger \in [Nodes -> 1..MaxLedgers] /\ saved \in [Nodes -> {None} \cup 1..MaxLedgers]
  /\ \A n \in Nodes : /\ msg[n] # None => msg[n].action \in Actions /\ msg[n].todo \subseteq msg[n].items
                      /\ ctl[n].held \cup ctl[n].renew \cup ctl[n].start \subseteq On(n)
                      /\ \A m \in late[n] : m.action \in Actions /\ m.todo \subseteq On(n)
  /\ ready \subseteq Attempts /\ phase \in {"nodes", "schedule"}

(* A job runs in one place: a retry on another node, a command executed     *)
(* after the controller gave up on it, an abandonment or a lost reply never *)
(* puts two units of one job to work at once.                               *)
OneRunPerJob == \A a, b \in alive : a # b => JobOf[a] # JobOf[b]

(* Prepare and seal are bound to a ledger: however late such a command is   *)
(* executed, an executor that came back with an empty ledger takes up no    *)
(* attempt that was reserved on, and perhaps run by, the lost one.          *)
AdmittedWhereReserved ==
  \A a \in Attempts : board[a].state # "absent" =>
     rec[a].state = "none" \/ rec[a].ledger_id = ledger[NodeOf[a]]

(* Capacity the controller has taken back is not in use, and the executor   *)
(* of a node that is not revoked neither runs nor holds an attempt whose    *)
(* row is gone: remove deletes rows only after release or abandonment.      *)
ReleasedIdle ==
  \A a \in Attempts : (a \in alive \/ board[a].state \in Active \cup {"unknown"}) =>
     rec[a].state # "released" /\ (rec[a].state = "none" => NodeOf[a] \in disabled)

(* transition: the intent to start is durable before any unit runs. *)
IntentRecorded == \A a \in spent : rec[a].state = "none" \/ rec[a].start_requested

(* An executor's lease is one the controller stored before it sent it. *)
LeaseStored ==
  \A a \in Attempts : rec[a].state # "none" => board[a].lease_sequence <= rec[a].lease

(* The outcome a row keeps is the executor's, as long as its ledger lives. *)
OutcomeAgrees ==
  \A a \in Attempts :
    LET row == rec[a] IN
    (row.outcome # None /\ row.state # "abandoned" /\ row.ledger_id = ledger[NodeOf[a]]) =>
      row.outcome.state = (IF board[a].state = "released" THEN board[a].outcome ELSE board[a].state)

(* The controller's rows agree with the executors they speak of, through    *)
(* lost and late replies, restarts, revocations and executors that were     *)
(* installed again: an executor has no attempt, start or lease that its row *)
(* does not have, capacity that was taken back is not in use, and recorded  *)
(* outcomes are the executor's.                                             *)
RowsAgree == AdmittedWhereReserved /\ ReleasedIdle /\ IntentRecorded /\ LeaseStored /\ OutcomeAgrees
=============================================================================
