------------------------------ MODULE Agents ------------------------------
(* One coding agent of one bus run: the controller's records and exchange   *)
(* tasks (agents.py, bus.py, agent_exchange.py, agent_outbox.py,            *)
(* bus_archive.py), the node's private spool (node/agents.py,               *)
(* agent_spool.py, agent_outbox.py, agent_archive.py), and the Codex bridge *)
(* that submits direct messages (agent_runner.py, agent_codex.py,           *)
(* agent_adapter.py).  Every node operation holds the spool's file lock.  A *)
(* request over SSH may fail before it is sent, be executed without an      *)
(* answer, or be executed after the controller gave up on it.               *)
EXTENDS Naturals, FiniteSets

CONSTANTS
  Deliveries, Direct,  \* messages to the agent; those for the runtime itself
  Replies,             \* outbox keys the agent's tool uses
  Sessions, First,     \* runtime threads, and the one the bridge starts
  None, MaxLate, MaxRestart, MaxRev

AgentsAssumption ==
  /\ Direct \subseteq Deliveries /\ First \in Sessions
  /\ MaxLate \in Nat /\ MaxRestart \in Nat /\ MaxRev \in Nat

VARIABLES
  agent,     \* the controller's row: its state and its unsent outbox acks
  run,       \* the bus run: open, closed or archived
  delivery,  \* delivery -> its state on the controller
  stored,    \* reply -> how often the controller stored it as a message
  launching, \* the launch in flight with its own copy of the row, or None
  task,      \* the operation that holds the agent's lock, or None
  net,       \* requests sent and not yet executed
  restarts,  \* controller restarts so far
  spool,     \* the folder: absent, active or archived
  runtime,   \* runtime.json
  term,      \* the tmux session exists
  inbox,     \* deliveries with an inbox file
  receipt,   \* delivery -> receipt file: state and session
  outbox,    \* reply -> none, pending, copied (and still pending), sent, rejected
  bridge,    \* the Codex bridge, or None
  submitted, \* delivery -> submissions to the runtime
  included,  \* deliveries that appear in the thread they were submitted to
  readby     \* deliveries the inbox tool returned

host == <<agent, run, delivery, stored, launching, task, restarts>>
files == <<spool, runtime, inbox, receipt, outbox>>
process == <<term, bridge, submitted, included, readby>>
vars == <<host, net, files, process>>

CLOSED == {"stopped", "exited"}
SETTLED == {"session-included", "tool-read", "failed", "cancelled"}
NodeStates == SETTLED \cup {"node-stored", "adapter-submitted", "uncertain"}
Decisions == {"none", "sent", "rejected"}
NoAcks == [k \in Replies |-> "none"]
NoReceipt == [state |-> "none", session |-> None]
Pending == {k \in Replies : outbox[k] \in {"pending", "copied"}}
Unresolved == {d \in Deliveries : delivery[d] # "none" /\ delivery[d] \notin SETTLED}

Init ==
  /\ agent = [state |-> "none", acks |-> NoAcks] /\ run = "open"
  /\ delivery = [d \in Deliveries |-> "none"] /\ stored = [k \in Replies |-> 0]
  /\ launching = None /\ task = None /\ net = {} /\ restarts = 0
  /\ spool = "absent" /\ runtime = [state |-> "none", session |-> None, seen |-> None, rev |-> 0]
  /\ term = FALSE /\ inbox = {} /\ receipt = [d \in Deliveries |-> NoReceipt]
  /\ outbox = [k \in Replies |-> "none"] /\ bridge = None
  /\ submitted = [d \in Deliveries |-> 0] /\ included = {} /\ readby = {}

-----------------------------------------------------------------------------
(* The controller: launch, messages, stop, rebind.  An operation works on   *)
(* its own copy of the agent's row and writes it back whole.                *)

Req(act, items, ids, acks, session) ==
  [act |-> act, items |-> items, ids |-> ids, acks |-> acks, session |-> session, late |-> FALSE]

(* Giving up: the request is lost, or will be executed late. *)
Abandon(acts) ==
  LET mine == {m \in net : m.act \in acts /\ ~m.late} IN
  /\ net' \in {net \ mine, (net \ mine) \cup {[m EXCEPT !.late = TRUE] : m \in mine}}
  /\ Cardinality({m \in net' : m.late}) <= MaxLate

(* A repeated launch finds the row and changes nothing.  The launch holds   *)
(* the manager's lock, not the agent's: exchanges and a stop run beside it. *)
launch ==
  /\ agent.state = "none" /\ run = "open"
  /\ agent' = [agent EXCEPT !.state = "starting"]
  /\ launching' = [reply |-> None]
  /\ net' = net \cup {Req("launch", {}, {}, NoAcks, None)}
  /\ UNCHANGED <<run, delivery, stored, task, restarts, files, process>>

launch_end ==
  /\ launching # None
  /\ \/ launching.reply # None /\ agent' = [state |-> launching.reply, acks |-> NoAcks] /\ UNCHANGED net
     \/ agent' = [state |-> "unknown", acks |-> NoAcks] /\ Abandon({"launch"})
  /\ launching' = None
  /\ UNCHANGED <<run, delivery, stored, task, restarts, files, process>>

(* bus.send from an operator: the message and its delivery in one           *)
(* transaction.  A repeated key finds them and changes nothing.             *)
send(d) ==
  /\ delivery[d] = "none" /\ run = "open"
  /\ agent.state \notin CLOSED \cup {"none"}
  /\ delivery' = [delivery EXCEPT ![d] = "host-stored"]
  /\ UNCHANGED <<agent, run, stored, launching, task, restarts, net, files, process>>

Begin(req) ==
  /\ task' = [req |-> req, row |-> agent, pc |-> "wait", reply |-> None, left |-> {}]
  /\ net' = net \cup {req}

Due == agent.state \notin CLOSED \cup {"none"} \/ agent.acks # NoAcks \/ Unresolved # {}

(* agent_exchange.exchange up to its await: deliveries whose sender lost    *)
(* its authority are cancelled, the others are marked before they are sent. *)
Ready == {d \in Deliveries : delivery[d] = "host-stored"}

Dispatched(denied) == [d \in Deliveries |->
  IF d \in denied THEN "cancelled" ELSE IF d \in Ready THEN "host-uncertain" ELSE delivery[d]]

exchange_start ==
  /\ task = None /\ Due /\ agent.state # "none"
  /\ \E denied \in SUBSET Ready :
       /\ delivery' = Dispatched(denied)
       /\ Begin(Req("exchange", Ready \ denied, Unresolved \ Ready, agent.acks, None))
  /\ UNCHANGED <<agent, run, stored, launching, restarts, files, process>>

(* The check inside SSH.command, or the connection, keeps it from leaving. *)
exchange_unsent ==
  /\ task = None /\ Due /\ agent.state # "none"
  /\ \E denied \in SUBSET Ready : delivery' = Dispatched(denied)
  /\ UNCHANGED <<agent, run, stored, launching, task, net, restarts, files, process>>

(* What the answer of an exchange makes of a delivery. *)
Received(d, t) ==
  LET r == t.reply.receipts[d] IN
  IF d \in t.req.items THEN "node-stored"
  ELSE IF d \notin t.req.ids \/ delivery[d] \in SETTLED THEN delivery[d]
  ELSE IF r # "none" THEN r
  ELSE IF delivery[d] = "host-uncertain" THEN "host-stored" ELSE delivery[d]

(* A delivery that was confirmed and is missing now stops the rest. *)
Lost(t) == \E d \in t.req.ids : t.reply.receipts[d] = "none" /\ delivery[d] # "host-uncertain"

exchange_reply ==
  /\ task # None /\ task.req.act = "exchange" /\ task.pc = "reply" /\ task.reply # None
  /\ delivery' = [d \in Deliveries |-> Received(d, task)]
  /\ IF Lost(task)
     THEN task' = None /\ agent' = [task.row EXCEPT !.state = task.reply.state]
     ELSE /\ task' = [task EXCEPT !.pc = "collect", !.left = task.reply.outbox,
                                  !.row = [state |-> task.reply.state, acks |-> NoAcks]]
          /\ UNCHANGED agent
  /\ UNCHANGED <<run, stored, launching, restarts, net, files, process>>

(* Mutant: the host looks for no earlier message with this key. *)
StoreAgain(k) == stored[k] + 1

Store(k) == IF stored[k] > 0 THEN stored[k] ELSE 1

(* agent_outbox.collect, one entry: stored under its key, refused for good, *)
(* or left for a later exchange (authority, capacity).  The decision is     *)
(* saved with the row before the next entry.                                *)
Decide(k, decision) ==
  /\ task' = [task EXCEPT !.left = @ \ {k}, !.row.acks[k] = decision]
  /\ agent' = IF decision = "none" THEN agent ELSE task'.row

collect(k) ==
  /\ task # None /\ task.pc = "collect" /\ k \in task.left /\ stored[k] < 2
  /\ \/ Decide(k, "sent") /\ stored' = [stored EXCEPT ![k] = Store(k)]
     \/ stored[k] = 0 /\ Decide(k, "rejected") /\ UNCHANGED stored
     \/ Decide(k, "none") /\ UNCHANGED stored
  /\ UNCHANGED <<run, delivery, launching, restarts, net, files, process>>

collect_end ==
  /\ task # None /\ task.pc = "collect" /\ task.left = {}
  /\ task' = None /\ agent' = task.row
  /\ UNCHANGED <<run, delivery, stored, launching, restarts, net, files, process>>

(* Agents.action: a stop of a stopped agent sends nothing. *)
action(act, session) ==
  /\ task = None /\ agent.state # "none"
  /\ act = "stop" => agent.state # "stopped"
  /\ Begin(Req(act, {}, {}, NoAcks, session))
  /\ UNCHANGED <<agent, run, delivery, stored, launching, restarts, files, process>>

cancel_unsubmitted == [d \in Deliveries |-> IF delivery[d] = "host-stored" THEN "cancelled" ELSE delivery[d]]

action_reply ==
  /\ task # None /\ task.req.act \in {"stop", "rebind"} /\ task.pc = "reply" /\ task.reply # None
  /\ agent' = [task.row EXCEPT !.state = task.reply.state]
  /\ delivery' = IF task.req.act = "stop" THEN cancel_unsubmitted ELSE delivery
  /\ task' = None
  /\ UNCHANGED <<run, stored, launching, restarts, net, files, process>>

(* No answer, or a refusal.  A refused rebind keeps the state. *)
give_up ==
  /\ task # None /\ task.pc \in {"wait", "reply"}
  /\ task' = None /\ Abandon({task.req.act})
  /\ agent' = IF task.req.act = "stop" \/ (task.req.act = "rebind" /\ task.pc = "wait")
              THEN [task.row EXCEPT !.state = "unknown"] ELSE IF task.req.act = "archive" THEN agent ELSE task.row
  /\ UNCHANGED <<run, delivery, stored, launching, restarts, files, process>>

close ==
  /\ run = "open" /\ agent.state \in CLOSED \cup {"none"} /\ agent.acks = NoAcks /\ Unresolved = {}
  /\ run' = "closed"
  /\ UNCHANGED <<agent, delivery, stored, launching, task, restarts, net, files, process>>

(* bus_archive.archive holds the manager's lock and the agent's: no launch  *)
(* and no exchange is under way.  The node's receipt comes before the rows  *)
(* are deleted.                                                             *)
archive ==
  /\ task = None /\ launching = None /\ run = "closed"
  /\ agent.state \in CLOSED /\ agent.acks = NoAcks /\ Unresolved = {}
  /\ Begin(Req("archive", {}, {}, NoAcks, None))
  /\ UNCHANGED <<agent, run, delivery, stored, launching, restarts, files, process>>

archive_reply ==
  /\ task # None /\ task.req.act = "archive" /\ task.pc = "reply" /\ task.reply # None
  /\ run' = "archived" /\ task' = None
  /\ UNCHANGED <<agent, delivery, stored, launching, restarts, net, files, process>>

(* The controller stops and starts; its requests are lost or late. *)
restart ==
  /\ restarts < MaxRestart /\ restarts' = restarts + 1
  /\ agent' = IF agent.state \in CLOSED \cup {"none"} THEN agent ELSE [agent EXCEPT !.state = "unknown"]
  /\ task' = None /\ launching' = None
  /\ Abandon({"launch", "exchange", "stop", "rebind", "archive"})
  /\ UNCHANGED <<run, delivery, stored, files, process>>

-----------------------------------------------------------------------------
(* The node: one request under the spool's lock *)

status_locked(r, t) ==
  IF t \/ r.state = "stopped" THEN r.state ELSE IF r.state = "starting" THEN "unknown" ELSE "exited"

(* The request leaves the network; its sender, if it still waits, has the   *)
(* answer.  None stands for a refusal.                                      *)
Answer(m, reply) ==
  /\ net' = net \ {m}
  /\ launching' = IF m.act = "launch" /\ ~m.late THEN [reply |-> reply.state] ELSE launching
  /\ task' = IF m.act # "launch" /\ ~m.late THEN [task EXCEPT !.pc = "reply", !.reply = reply] ELSE task
  /\ UNCHANGED <<agent, run, delivery, stored, restarts>>

Refuse(m) ==
  /\ net' = net \ {m}
  /\ task' = IF m.act # "launch" /\ ~m.late THEN [task EXCEPT !.pc = "reply"] ELSE task
  /\ UNCHANGED <<agent, run, delivery, stored, restarts, launching, files, process>>

Shown(r, t) == [state |-> status_locked(r, t)]

Arrives(m, act) == m \in net /\ m.act = act

(* agents.launch on the node: the intent is saved before the session is     *)
(* made, and a saved intent is never carried out again.                     *)
node_launch(m) ==
  /\ Arrives(m, "launch") /\ spool = "absent"
  /\ spool' = "active" /\ runtime' = [runtime EXCEPT !.state = "starting"]
  /\ \/ /\ term' = TRUE /\ bridge' = [thread |-> None, rev |-> 0, pc |-> "start", item |-> None, proved |-> {}]
        /\ Answer(m, Shown(runtime', TRUE))
     \/ UNCHANGED <<term, bridge>> /\ Answer(m, Shown(runtime', FALSE))
  /\ UNCHANGED <<inbox, receipt, outbox, submitted, included, readby>>

(* agent_outbox.acknowledge: what one acknowledgement makes of an entry. *)
acknowledge(k, ack) == IF ack = "none" \/ k \notin Pending THEN outbox[k] ELSE ack

(* agents.exchange on the node; a receipt an earlier helper left unwritten  *)
(* is written when the receipt is asked for.                                *)
Filed(m) == [d \in Deliveries |->
  IF d \in m.items \cup (m.ids \cap inbox) /\ receipt[d].state = "none"
  THEN [state |-> "node-stored", session |-> None] ELSE receipt[d]]

node_exchange(m) ==
  /\ Arrives(m, "exchange") /\ spool = "active"
  /\ inbox' = inbox \cup m.items
  /\ receipt' = Filed(m)
  /\ outbox' = [k \in Replies |-> acknowledge(k, m.acks[k])]
  /\ Answer(m, [state |-> status_locked(runtime, term), receipts |-> [d \in Deliveries |-> receipt'[d].state],
                outbox |-> {k \in Replies : outbox'[k] \in {"pending", "copied"}}])
  /\ UNCHANGED <<spool, runtime, process>>

(* The helper dies inside an exchange: an inbox file without its receipt,   *)
(* or a sent record beside the entry it copies.                             *)
node_dies(m) ==
  /\ Arrives(m, "exchange") /\ spool = "active"
  /\ \/ \E d \in m.items \ inbox : inbox' = inbox \cup {d} /\ UNCHANGED outbox
     \/ \E k \in Replies : /\ m.acks[k] = "sent" /\ outbox[k] = "pending"
                           /\ outbox' = [outbox EXCEPT ![k] = "copied"] /\ UNCHANGED inbox
  /\ net' = net \ {m}
  /\ UNCHANGED <<host, spool, runtime, receipt, process>>

(* agent.stop: the session is killed; the bridge notices the hangup later. *)
node_stop(m) ==
  /\ Arrives(m, "stop") /\ spool = "active"
  /\ term' = FALSE
  /\ receipt' = [d \in Deliveries |-> IF receipt[d].state = "node-stored"
                   THEN [state |-> "cancelled", session |-> None] ELSE receipt[d]]
  /\ runtime' = [runtime EXCEPT !.state = "stopped", !.session = None, !.seen = None]
  /\ Answer(m, Shown(runtime', FALSE))
  /\ UNCHANGED <<spool, inbox, outbox, bridge, submitted, included, readby>>

(* agent_binding.rebind: unresolved submissions stay with their session. *)
MayRebind(s) ==
  /\ runtime.seen = s /\ runtime.state = "suspended" /\ runtime.rev < MaxRev
  /\ runtime.session # s => \A d \in Deliveries : receipt[d].state \notin {"uncertain", "adapter-submitted"}

node_rebind(m) ==
  /\ Arrives(m, "rebind") /\ spool = "active" /\ MayRebind(m.session)
  /\ runtime' = [state |-> "ready", session |-> m.session, seen |-> None, rev |-> runtime.rev + 1]
  /\ Answer(m, Shown(runtime', term))
  /\ UNCHANGED <<spool, inbox, receipt, outbox, process>>

(* agent_archive.retire: only a quiescent spool. *)
MayRetire ==
  /\ runtime.state \in CLOSED /\ ~term /\ Pending = {}
  /\ \A d \in inbox : receipt[d].state \in SETTLED

node_archive(m) ==
  /\ Arrives(m, "archive") /\ (spool = "archived" \/ (spool = "active" /\ MayRetire))
  /\ spool' = "archived" /\ Answer(m, [state |-> "archived"])
  /\ UNCHANGED <<runtime, inbox, receipt, outbox, process>>

(* A launch of a saved intent answers with its state; an operation on a     *)
(* spool that is not there, or that may not be done, is refused.            *)
node_again(m) == Arrives(m, "launch") /\ spool = "active" /\ Answer(m, Shown(runtime, term)) /\ UNCHANGED <<files, process>>

node_refuse(m) ==
  /\ m \in net
  /\ \/ m.act # "launch" /\ spool = "absent"
     \/ m.act # "archive" /\ spool = "archived"
     \/ m.act = "rebind" /\ ~MayRebind(m.session)
     \/ m.act = "archive" /\ spool = "active" /\ ~MayRetire
  /\ Refuse(m)

-----------------------------------------------------------------------------
(* The bridge between the spool and the runtime *)

Bridge(pc) == bridge # None /\ bridge.pc = pc

(* agent_runner.run and the registration of the thread it starts; an        *)
(* intent that was stopped meanwhile is not run.                            *)
bridge_start ==
  /\ Bridge("start")
  /\ IF runtime.state = "starting"
     THEN /\ bridge' = [bridge EXCEPT !.thread = First, !.pc = "idle"]
          /\ runtime' = [runtime EXCEPT !.state = "ready", !.session = First]
          /\ UNCHANGED term
     ELSE bridge' = None /\ term' = FALSE /\ UNCHANGED runtime
  /\ UNCHANGED <<host, net, spool, inbox, receipt, outbox, submitted, included, readby>>

Expected == {d \in Direct : receipt[d].state \in {"uncertain", "adapter-submitted"} /\ receipt[d].session = bridge.thread}

Proved == Expected \cap included

(* agent_codex.reconcile: what the thread's history proves of the receipts  *)
(* read before; the spool is not locked in between.                         *)
reconcile ==
  /\ Bridge("idle") /\ runtime.session = bridge.thread /\ runtime.rev = bridge.rev
  /\ Proved # {}
  /\ bridge' = [bridge EXCEPT !.pc = "prove", !.proved = Proved]
  /\ UNCHANGED <<host, net, files, term, submitted, included, readby>>

(* adapter "receipt": TRUE when the saved receipt takes the new state. *)
Accepts(d) ==
  /\ runtime.session = bridge.thread /\ runtime.state \in {"ready", "suspended"}
  /\ receipt[d].session \in {None, bridge.thread}

(* A refused receipt ends the bridge, and so the session. *)
Ends == bridge' = None /\ term' = FALSE /\ runtime' = IF runtime.state = "stopped" THEN runtime ELSE [runtime EXCEPT !.state = "exited"]

Recorded(d, state) ==
  IF receipt[d].state \in {"session-included", "tool-read"} THEN receipt
  ELSE [receipt EXCEPT ![d] = [state |-> state, session |-> bridge.thread]]

prove(d) ==
  /\ Bridge("prove") /\ d \in bridge.proved
  /\ IF Accepts(d)
     THEN /\ receipt' = Recorded(d, "session-included")
          /\ bridge' = [bridge EXCEPT !.proved = @ \ {d}, !.pc = IF bridge.proved = {d} THEN "idle" ELSE "prove"]
          /\ UNCHANGED <<runtime, term>>
     ELSE /\ bridge' = [bridge EXCEPT !.proved = {}, !.pc = "idle"]
          /\ UNCHANGED <<receipt, runtime, term>>
  /\ UNCHANGED <<host, net, spool, inbox, outbox, submitted, included, readby>>

(* The user opens another thread, or the runtime cannot be read: suspended  *)
(* under the identity that was observed, if the binding is still the same.  *)
suspend(s) ==
  /\ Bridge("idle") /\ runtime.session = bridge.thread /\ runtime.rev = bridge.rev
  /\ runtime.state \in {"ready", "suspended"} /\ <<runtime.state, runtime.seen>> # <<"suspended", s>>
  /\ runtime' = [runtime EXCEPT !.state = "suspended", !.seen = s]
  /\ UNCHANGED <<host, net, spool, inbox, receipt, outbox, process>>

rebound ==
  /\ Bridge("idle") /\ runtime.rev # bridge.rev /\ runtime.state \notin CLOSED
  /\ bridge' = [bridge EXCEPT !.thread = runtime.session, !.rev = runtime.rev]
  /\ UNCHANGED <<host, net, files, term, submitted, included, readby>>

(* The durable boundary before a submission. *)
Admitted(d) == [receipt EXCEPT ![d] = [state |-> "uncertain", session |-> bridge.thread]]

Waiting == {d \in inbox \cap Direct : receipt[d].state = "node-stored"}

(* adapter "next": at most one message, and none past its authorization.  A *)
(* receipt that is missing is an error that ends the bridge.                *)
next ==
  /\ Bridge("idle") /\ runtime.state = "ready" /\ runtime.session = bridge.thread /\ runtime.rev = bridge.rev
  /\ \/ \E d \in Waiting :
          /\ receipt' = Admitted(d)
          /\ bridge' = [bridge EXCEPT !.pc = "submit", !.item = d] /\ UNCHANGED <<runtime, term>>
     \/ \E d \in Waiting :
          /\ receipt' = [receipt EXCEPT ![d] = [state |-> "cancelled", session |-> None]]
          /\ UNCHANGED <<bridge, runtime, term>>
     \/ (\E d \in inbox : receipt[d].state = "none") /\ Ends /\ UNCHANGED receipt
  /\ UNCHANGED <<host, net, spool, inbox, outbox, submitted, included, readby>>

(* thread/queue/add: accepted, refused, or accepted without an answer; then *)
(* the receipt.                                                             *)
submit ==
  /\ Bridge("submit")
  /\ \/ submitted' = [submitted EXCEPT ![bridge.item] = @ + 1] /\ bridge' = [bridge EXCEPT !.pc = "accepted"]
     \/ submitted' = [submitted EXCEPT ![bridge.item] = @ + 1] /\ bridge' = [bridge EXCEPT !.pc = "doubtful"]
     \/ UNCHANGED submitted /\ bridge' = [bridge EXCEPT !.pc = "doubtful"]
  /\ UNCHANGED <<host, net, files, term, included, readby>>

acknowledged ==
  /\ bridge # None /\ bridge.pc \in {"accepted", "doubtful"}
  /\ IF Accepts(bridge.item)
     THEN /\ receipt' = Recorded(bridge.item, IF bridge.pc = "accepted" THEN "adapter-submitted" ELSE "uncertain")
          /\ bridge' = [bridge EXCEPT !.pc = "idle", !.item = None]
          /\ UNCHANGED <<runtime, term>>
     ELSE Ends /\ UNCHANGED receipt
  /\ UNCHANGED <<host, net, spool, inbox, outbox, submitted, included, readby>>

(* The OMP extension cannot record the receipt of what it submitted: it     *)
(* ignores the error and goes on with the next interval.                    *)
unacknowledged ==
  /\ bridge # None /\ bridge.pc \in {"accepted", "doubtful"}
  /\ bridge' = [bridge EXCEPT !.pc = "idle", !.item = None]
  /\ UNCHANGED <<host, net, files, term, submitted, included, readby>>

(* The native client takes the queued message into its thread. *)
turn(d) ==
  /\ submitted[d] > 0 /\ d \notin included /\ bridge # None
  /\ included' = included \cup {d}
  /\ UNCHANGED <<host, net, files, term, bridge, submitted, readby>>

(* The bridge leaves its loop and records it, or is killed. *)
bridge_end ==
  /\ bridge # None
  /\ \/ Ends
     \/ bridge' = None /\ term' = FALSE /\ UNCHANGED runtime
  /\ UNCHANGED <<host, net, spool, inbox, receipt, outbox, submitted, included, readby>>

(* agent_tool "read": the receipt of a submission in doubt is left alone. *)
tool_read(d) ==
  /\ term /\ spool = "active" /\ d \in inbox /\ receipt[d].state # "none" /\ d \notin readby
  /\ receipt' = IF d \in Direct /\ receipt[d].state \in {"uncertain", "adapter-submitted"} THEN receipt
                ELSE [receipt EXCEPT ![d] = [state |-> "tool-read", session |-> None]]
  /\ readby' = readby \cup {d}
  /\ UNCHANGED <<host, net, spool, runtime, inbox, outbox, term, bridge, submitted, included>>

(* agent_tool "send": a key that was used keeps its entry. *)
tool_send(k) ==
  /\ term /\ spool = "active" /\ outbox[k] = "none"
  /\ outbox' = [outbox EXCEPT ![k] = "pending"]
  /\ UNCHANGED <<host, net, spool, runtime, inbox, receipt, process>>

-----------------------------------------------------------------------------
Controller ==
  \/ launch \/ launch_end \/ exchange_start \/ exchange_unsent \/ exchange_reply \/ collect_end \/ action_reply \/ give_up
  \/ close \/ archive \/ archive_reply \/ restart
  \/ \E d \in Deliveries : send(d)
  \/ \E k \in Replies : collect(k)
  \/ action("stop", None)
  \/ \E s \in Sessions : action("rebind", s)

Node == \E m \in net :
  node_launch(m) \/ node_exchange(m) \/ node_dies(m) \/ node_stop(m) \/ node_rebind(m) \/ node_archive(m)
    \/ node_again(m) \/ node_refuse(m)

Runtime ==
  \/ bridge_start \/ reconcile \/ rebound \/ next \/ submit \/ acknowledged \/ unacknowledged \/ bridge_end
  \/ \E d \in Deliveries : prove(d) \/ turn(d) \/ tool_read(d)
  \/ \E k \in Replies : tool_send(k)
  \/ \E s \in Sessions : suspend(s)

Next == Controller \/ Node \/ Runtime
Spec == Init /\ [][Next]_vars

-----------------------------------------------------------------------------
TypeOK ==
  /\ agent.state \in CLOSED \cup {"none", "starting", "ready", "suspended", "unknown"}
  /\ agent.acks \in [Replies -> Decisions]
  /\ run \in {"open", "closed", "archived"}
  /\ delivery \in [Deliveries -> NodeStates \cup {"none", "host-stored", "host-uncertain"}]
  /\ stored \in [Replies -> 0..1]
  /\ task # None => task.pc \in {"wait", "reply", "collect"}
  /\ spool \in {"absent", "active", "archived"} /\ term \in BOOLEAN
  /\ runtime.session \in Sessions \cup {None} /\ runtime.seen \in Sessions \cup {None}
  /\ inbox \subseteq Deliveries
  /\ \A d \in Deliveries : receipt[d].state \in NodeStates \cup {"none"}
  /\ outbox \in [Replies -> Decisions \cup {"pending", "copied"}]

(* A direct message is submitted to the runtime at most once, whatever      *)
(* dies, is lost or comes late, and whichever session is bound.             *)
SubmittedOnce == \A d \in Deliveries : submitted[d] <= 1

(* An outcome the controller shows has its evidence: a message called       *)
(* included is in the thread, one called read was read, and one the node    *)
(* reported cancelled was never given to the runtime.                       *)
OutcomeProved == \A d \in Deliveries :
  /\ delivery[d] = "session-included" => d \in included
  /\ delivery[d] = "tool-read" => d \in readby
  /\ receipt[d].state = "cancelled" => submitted[d] = 0

(* A delivery that was given a final outcome keeps it. *)
SettledStays == \A d \in Deliveries : delivery[d] \in SETTLED => delivery'[d] = delivery[d]

(* The agent's reply and the controller's message agree: a reply the node   *)
(* filed as sent is a message of the run, exactly one.                      *)
SentStored == \A k \in Replies : stored[k] <= 1 /\ (outbox[k] \in {"sent", "copied"} => stored[k] = 1)

(* Rows are deleted only when the node holds an archive in which nothing is *)
(* undecided, and nothing of that agent runs or can be started again.       *)
ArchivedQuiet ==
  run = "archived" => /\ spool = "archived" /\ ~term /\ Pending = {}
                      /\ \A d \in inbox : receipt[d].state \in SETTLED
=============================================================================
