----------------------------- MODULE Terminals ------------------------------
(***************************************************************************)
(* Interactive terminals: durable records on the controller, tmux sessions *)
(* on a node behind calls that can be lost or executed late, and the       *)
(* attachments that open a local PTY.  One manager lock covers a creation, *)
(* a stop or a reconciliation with its remote call; an attachment holds it *)
(* only while it claims its terminal, and a stop cancels the attachment    *)
(* and waits for its cleanup.                                              *)
(*                                                                         *)
(* An action is what the event loop does between two awaits; the helper's  *)
(* command runs under the node's file lock.                                *)
(***************************************************************************)
EXTENDS Naturals, FiniteSets

CONSTANTS
    Ephemeral, Tmux,  \* terminals of either mode
    Socket,           \* attachments
    Limit,            \* open terminals of a node
    MaxFault,         \* bound: crashes, lost calls, failures
    MaxAttach,        \* bound: authenticated sockets
    None

Terminal == Ephemeral \cup Tmux

VARIABLES
    rec,      \* Terminal -> state of the record, "none" before
    lock,     \* Terminals.lock: [op, t], or None
    active,   \* Terminal -> the socket that claimed it, or None
    tickets,  \* terminals with an unused ticket
    att,      \* Socket -> [pc, t, pty, out], or None
    auth,     \* the actor is still authorized
    wire,     \* calls of the helper: [op, t, by, ans]
    file,     \* Tmux -> the node's record
    session,  \* tmux sessions that exist
    late,     \* sessions created after the controller gave up the call
    shells,   \* Terminal -> PTYs opened so far
    count     \* faults and authentications so far

ctl == <<rec, lock, active, tickets, att>>
node == <<file, session, late>>
vars == <<ctl, auth, wire, node, shells, count>>

TERMINAL == {"exited", "interrupted", "stopped"}
State == TERMINAL \cup {"none", "new", "connecting", "attached", "detached", "unknown"}

Init ==
    /\ rec = [t \in Terminal |-> "none"] /\ lock = None /\ active = [t \in Terminal |-> None]
    /\ tickets = {} /\ att = [a \in Socket |-> None] /\ auth = TRUE /\ wire = {}
    /\ file = [t \in Tmux |-> "none"] /\ session = {} /\ late = {}
    /\ shells = [t \in Terminal |-> 0] /\ count = [fault |-> 0, attach |-> 0]

Fault == count.fault < MaxFault /\ count' = [count EXCEPT !.fault = @ + 1]
Save(t, s) == rec' = [rec EXCEPT ![t] = s]
Holds(op) == lock # None /\ lock.op = op
Open == {t \in Terminal : rec[t] \notin TERMINAL \cup {"none"}}
At(a, pc) == att[a] # None /\ att[a].pc = pc

-----------------------------------------------------------------------------
(* Calls of the node's helper.                                              *)

Call(op, t, by) == [op |-> op, t |-> t, by |-> by, ans |-> "none"]
Replies(by) == {c \in wire : c.by = by /\ c.ans # "none"}

(* The caller gives up: what was sent can still be executed. *)
Abandon(by) ==
    wire' = {c \in wire : c.by # by}
            \cup {[c EXCEPT !.by = "late"] : c \in {d \in wire : d.by = by /\ d.ans = "none"
                                                              /\ d.op # "status"}}

Answer(c, ans) ==
    wire' = (wire \ {c}) \cup IF c.by = "late" THEN {} ELSE {[c EXCEPT !.ans = ans]}

Status(t) == IF file[t] = "none" THEN "missing"
             ELSE IF file[t] = "stopped" THEN "stopped"
             ELSE IF t \in session THEN "detached" ELSE "missing"

(* The intent is written first; new-session or the helper can fail at any   *)
(* later point, with the session created or not.                            *)
NodeCreate(c) ==
    /\ c.op = "create" /\ UNCHANGED <<ctl, auth, shells>>
    /\ \/ /\ file[c.t] = "none"
          /\ \E f \in {"creating", "unknown", "detached"}, made \in BOOLEAN :
                /\ f = "detached" => made
                /\ IF f = "detached" THEN UNCHANGED count ELSE Fault
                /\ file' = [file EXCEPT ![c.t] = f]
                /\ session' = IF made THEN session \cup {c.t} ELSE session
                /\ late' = IF made /\ c.by = "late" THEN late \cup {c.t} ELSE late
                /\ Answer(c, IF f = "creating" THEN "refused" ELSE IF made THEN "detached" ELSE "missing")
       \/ /\ file[c.t] # "none" /\ UNCHANGED <<node, count>>
          /\ Answer(c, Status(c.t))

NodeStop(c) ==
    /\ c.op = "stop" /\ UNCHANGED <<ctl, auth, shells, late>>
    /\ \/ file[c.t] = "none" /\ Answer(c, "missing") /\ UNCHANGED <<file, session, count>>
       \/ /\ file[c.t] # "none" /\ Answer(c, "stopped") /\ UNCHANGED count
          /\ file' = [file EXCEPT ![c.t] = "stopped"] /\ session' = session \ {c.t}
       \/ /\ file[c.t] # "none" /\ Fault /\ Answer(c, "refused") /\ UNCHANGED file
          /\ session' \in {session, session \ {c.t}}

NodeStatus(c) ==
    /\ c.op = "status" /\ Answer(c, Status(c.t)) /\ UNCHANGED <<ctl, auth, node, shells, count>>

(* The session ends by itself: its shell exits or the machine reboots. *)
SessionEnds(t) ==
    t \in session /\ session' = session \ {t}
    /\ UNCHANGED <<ctl, auth, wire, file, late, shells, count>>

-----------------------------------------------------------------------------
(* Records and their remote operations.                                     *)

Create(t) ==
    /\ lock = None /\ auth /\ rec[t] = "none" /\ Cardinality(Open) < Limit
    /\ Save(t, "new")
    /\ IF t \in Tmux THEN lock' = [op |-> "create", t |-> t] /\ wire' = wire \cup {Call("create", t, "manager")}
       ELSE UNCHANGED <<lock, wire>>
    /\ UNCHANGED <<active, tickets, att, auth, node, shells, count>>

Created ==
    /\ Holds("create")
    /\ \E c \in Replies("manager") :
          Save(c.t, IF c.ans = "detached" THEN "detached" ELSE "unknown") /\ wire' = wire \ {c}
    /\ lock' = None /\ UNCHANGED <<active, tickets, att, auth, node, shells, count>>

(* The call failed or the request was cancelled. *)
CreateFails ==
    /\ Holds("create") /\ Fault /\ Abandon("manager") /\ Save(lock.t, "unknown") /\ lock' = None
    /\ UNCHANGED <<active, tickets, att, auth, node, shells>>

(* task.cancel(): cleanup is shielded from it. *)
Cancelled(a) == IF att[a].pc = "closing" THEN att[a] ELSE [att[a] EXCEPT !.pc = "closing", !.out = "detached"]

Stop(t) ==
    /\ lock = None /\ auth /\ rec[t] \notin {"none", "stopped"}
    /\ Save(t, "unknown") /\ lock' = [op |-> "stopping", t |-> t]
    /\ att' = [a \in Socket |-> IF a = active[t] THEN Cancelled(a) ELSE att[a]]
    /\ wire' = {c \in wire : c.by # active[t]}
    /\ UNCHANGED <<active, tickets, auth, node, shells, count>>

(* The attachment's task has ended, its cleanup included. *)
StopSent ==
    /\ Holds("stopping") /\ active[lock.t] = None
    /\ \/ /\ lock.t \in Tmux /\ auth
          /\ lock' = [lock EXCEPT !.op = "stop"] /\ wire' = wire \cup {Call("stop", lock.t, "manager")}
          /\ UNCHANGED rec
       \/ lock.t \in Tmux /\ ~auth /\ lock' = None /\ UNCHANGED <<rec, wire>>
       \/ lock.t \notin Tmux /\ lock' = None /\ Save(lock.t, "stopped") /\ UNCHANGED wire
    /\ UNCHANGED <<active, tickets, att, auth, node, shells, count>>

Stopped ==
    /\ Holds("stop")
    /\ \E c \in Replies("manager") :
          Save(lock.t, IF c.ans = "refused" THEN "unknown" ELSE "stopped") /\ wire' = wire \ {c}
    /\ lock' = None /\ UNCHANGED <<active, tickets, att, auth, node, shells, count>>

StopFails ==
    /\ Holds("stop") /\ Fault /\ Abandon("manager") /\ Save(lock.t, "unknown") /\ lock' = None
    /\ UNCHANGED <<active, tickets, att, auth, node, shells>>

Reconcile(t) ==
    /\ lock = None /\ auth /\ t \in Tmux /\ rec[t] = "unknown"
    /\ lock' = [op |-> "reconcile", t |-> t] /\ wire' = wire \cup {Call("status", t, "manager")}
    /\ UNCHANGED <<rec, active, tickets, att, auth, node, shells, count>>

Reconciled ==
    /\ Holds("reconcile")
    /\ \E c \in Replies("manager") :
          Save(lock.t, IF c.ans = "detached" THEN "detached" ELSE "exited") /\ wire' = wire \ {c}
    /\ lock' = None /\ UNCHANGED <<active, tickets, att, auth, node, shells, count>>

ReconcileFails ==
    /\ Holds("reconcile") /\ Fault /\ Abandon("manager") /\ lock' = None
    /\ UNCHANGED <<rec, active, tickets, att, auth, node, shells>>

-----------------------------------------------------------------------------
(* Attachments.                                                             *)

Ticket(t) ==
    /\ auth /\ rec[t] \notin TERMINAL \cup {"none"} /\ tickets' = tickets \cup {t}
    /\ UNCHANGED <<rec, lock, active, att, auth, wire, node, shells, count>>

(* The first frame carries the ticket; it is consumed, then the lock is     *)
(* awaited.                                                                 *)
Consume(a, t) ==
    /\ att[a] = None /\ auth /\ t \in tickets /\ tickets' = tickets \ {t}
    /\ count.attach < MaxAttach /\ count' = [count EXCEPT !.attach = @ + 1]
    /\ att' = [att EXCEPT ![a] = [pc |-> "authed", t |-> t, pty |-> FALSE, out |-> "interrupted"]]
    /\ UNCHANGED <<rec, lock, active, auth, wire, node, shells>>

Claim(a) ==
    /\ At(a, "authed") /\ lock = None
    /\ LET t == att[a].t IN
       \/ /\ active[t] # None \/ rec[t] \in TERMINAL
          /\ att' = [att EXCEPT ![a] = None] /\ UNCHANGED <<rec, active, wire>>
       \/ /\ active[t] = None /\ rec[t] \notin TERMINAL
          /\ active' = [active EXCEPT ![t] = a] /\ Save(t, "connecting")
          /\ att' = [att EXCEPT ![a].pc = IF t \in Tmux THEN "status" ELSE "ready"]
          /\ wire' = IF t \in Tmux THEN wire \cup {Call("status", t, a)} ELSE wire
    /\ UNCHANGED <<lock, tickets, auth, node, shells, count>>

Checked(a) ==
    /\ At(a, "status")
    /\ \E c \in Replies(a) :
          /\ wire' = wire \ {c}
          /\ IF c.ans = "detached" THEN att' = [att EXCEPT ![a].pc = "ready"] /\ UNCHANGED rec
             ELSE att' = [att EXCEPT ![a].pc = "closing"] /\ Save(att[a].t, "exited")
    /\ UNCHANGED <<lock, active, tickets, auth, node, shells, count>>

(* The SSH arguments are ready: authority is checked and the PTY opened. *)
Attach(a) ==
    /\ At(a, "ready")
    /\ IF auth THEN /\ att' = [att EXCEPT ![a].pc = "bridge", ![a].pty = TRUE]
                    /\ Save(att[a].t, "attached") /\ shells' = [shells EXCEPT ![att[a].t] = @ + 1]
       ELSE att' = [att EXCEPT ![a].pc = "closing"] /\ UNCHANGED <<rec, shells>>
    /\ UNCHANGED <<lock, active, tickets, auth, wire, node, count>>

(* A call, the SSH arguments, the PTY or the bridge fails. *)
AttachFails(a) ==
    /\ att[a] # None /\ att[a].pc \in {"status", "ready", "bridge"} /\ Fault
    /\ att' = [att EXCEPT ![a].pc = "closing"] /\ Abandon(a)
    /\ UNCHANGED <<rec, lock, active, tickets, auth, node, shells>>

(* The channel closes or the browser disconnects. *)
Ended(a) ==
    /\ At(a, "bridge")
    /\ \E out \in {"exited", "detached"} : att' = [att EXCEPT ![a].pc = "closing", ![a].out = out]
    /\ UNCHANGED <<rec, lock, active, tickets, auth, wire, node, shells, count>>

(* Every second, and on every frame. *)
Guard(a) ==
    /\ At(a, "bridge") /\ ~auth /\ att' = [att EXCEPT ![a].pc = "closing"]
    /\ UNCHANGED <<rec, lock, active, tickets, auth, wire, node, shells, count>>

(* The PTY's process group is killed and reaped. *)
ClosePTY(a) ==
    /\ At(a, "closing") /\ att[a].pty /\ att' = [att EXCEPT ![a].pty = FALSE]
    /\ UNCHANGED <<rec, lock, active, tickets, auth, wire, node, shells, count>>

Final(t, out) == IF t \in Tmux THEN "detached"
                 ELSE IF out \in {"exited", "detached"} THEN "exited" ELSE "interrupted"

\* Mutant: cleanup takes the manager's lock.
CleanedLocked(a) ==
    /\ At(a, "closing") /\ ~att[a].pty /\ lock = None
    /\ active' = [active EXCEPT ![att[a].t] = None] /\ att' = [att EXCEPT ![a] = None]
    /\ IF rec[att[a].t] \in TERMINAL \cup {"unknown"} THEN UNCHANGED rec
       ELSE Save(att[a].t, Final(att[a].t, att[a].out))
    /\ UNCHANGED <<lock, tickets, auth, wire, node, shells, count>>

Cleaned(a) ==
    /\ At(a, "closing") /\ ~att[a].pty
    /\ active' = [active EXCEPT ![att[a].t] = None] /\ att' = [att EXCEPT ![a] = None]
    /\ IF rec[att[a].t] \in TERMINAL \cup {"unknown"} THEN UNCHANGED rec
       ELSE Save(att[a].t, Final(att[a].t, att[a].out))
    /\ UNCHANGED <<lock, tickets, auth, wire, node, shells, count>>

-----------------------------------------------------------------------------
(* Authority, shutdown and restart.                                         *)

Revoke == auth /\ auth' = FALSE /\ UNCHANGED <<ctl, wire, node, shells, count>>

Close ==
    /\ Fault /\ att' = [a \in Socket |-> IF a \in {active[t] : t \in Terminal} THEN Cancelled(a) ELSE att[a]]
    /\ wire' = {c \in wire : c.by \notin {active[t] : t \in Terminal}} /\ tickets' = {}
    /\ UNCHANGED <<rec, lock, active, auth, node, shells>>

Recovered(t) == IF rec[t] \in TERMINAL \cup {"none"} \/ (t \in Tmux /\ rec[t] = "unknown") THEN rec[t]
                ELSE IF t \in Tmux THEN "detached" ELSE "interrupted"

(* The controller dies, its PTYs with it, and starts again. *)
Restart ==
    /\ Fault /\ rec' = [t \in Terminal |-> Recovered(t)]
    /\ lock' = None /\ active' = [t \in Terminal |-> None] /\ tickets' = {} /\ att' = [a \in Socket |-> None]
    /\ wire' = {[c EXCEPT !.by = "late"] : c \in {d \in wire : d.ans = "none" /\ d.op # "status"}}
    /\ UNCHANGED <<auth, node, shells>>

-----------------------------------------------------------------------------
Sent == {c \in wire : c.ans = "none"}
Node == \E c \in Sent : NodeCreate(c) \/ NodeStop(c) \/ NodeStatus(c)

Next ==
    \/ Node \/ Created \/ CreateFails \/ StopSent \/ Stopped \/ StopFails \/ Reconciled \/ ReconcileFails
    \/ Revoke \/ Close \/ Restart
    \/ \E t \in Terminal : Create(t) \/ Stop(t) \/ Reconcile(t) \/ Ticket(t) \/ SessionEnds(t)
    \/ \E a \in Socket :
          \/ \E t \in Terminal : Consume(a, t)
          \/ Claim(a) \/ Checked(a) \/ Attach(a) \/ AttachFails(a) \/ Ended(a) \/ Guard(a)
          \/ ClosePTY(a) \/ Cleaned(a)

Spec == Init /\ [][Next]_vars

(* A call ends or times out, so its holder goes on; a task on the event     *)
(* loop runs; a killed process group is reaped; guard wakes every second.   *)
GiveUp ==
    /\ lock # None /\ lock.op \in {"create", "stop", "reconcile"} /\ Abandon("manager") /\ lock' = None
    /\ IF lock.op = "reconcile" THEN UNCHANGED rec ELSE Save(lock.t, "unknown")
    /\ UNCHANGED <<active, tickets, att, auth, node, shells, count>>

-----------------------------------------------------------------------------
TypeOK ==
    /\ rec \in [Terminal -> State]
    /\ lock \in [op : {"create", "stopping", "stop", "reconcile"}, t : Terminal] \cup {None}
    /\ active \in [Terminal -> Socket \cup {None}] /\ tickets \subseteq Terminal
    /\ att \in [Socket -> [pc : {"authed", "status", "ready", "bridge", "closing"}, t : Terminal,
                           pty : BOOLEAN, out : {"interrupted", "detached", "exited"}] \cup {None}]
    /\ \A c \in wire : c.op \in {"create", "stop", "status"} /\ c.t \in Tmux
                       /\ c.ans \in {"none", "detached", "missing", "stopped", "refused"}
    /\ file \in [Tmux -> {"none", "creating", "unknown", "detached", "stopped"}]
    /\ session \subseteq Tmux /\ late \subseteq Tmux
    /\ \A t \in Tmux : Cardinality({c \in wire : c.t = t /\ c.by = "manager"}) <= 1

(* A closed terminal has neither an open PTY nor a session on its node,     *)
(* whatever the stop raced with: an attachment that was connecting, a lost  *)
(* answer, a restart.  The one exception is a creation that the node        *)
(* executed after the controller had given up its call.                     *)
ClosedGone ==
    \A t \in Terminal : rec[t] \in TERMINAL =>
        /\ t \notin session \ late
        /\ \A a \in Socket : att[a] # None => ~(att[a].t = t /\ att[a].pty)

(* An ephemeral shell cannot be opened again: not after a failed            *)
(* attachment, a second ticket, or a restart.                               *)
EphemeralOnce == \A t \in Ephemeral : shells[t] <= 1

(* Two sockets never hold a PTY of one terminal, even while the first one   *)
(* is still cleaning up.                                                    *)
OneAttachment ==
    \A a, b \in Socket : att[a] # None /\ att[b] # None /\ a # b =>
        ~(att[a].t = att[b].t /\ att[a].pty /\ att[b].pty)

(* A record says connecting or attached only while a task owns the          *)
(* terminal, so it cannot stay so after a crash, a failure or a stop.       *)
AttachedOwned ==
    \A t \in Terminal : rec[t] \in {"connecting", "attached"} =>
        \E a \in Socket : active[t] = a /\ att[a] # None /\ att[a].t = t

(* The manager's lock is always given back: a stop that waits for an        *)
(* attachment's cleanup never waits for ever.                               *)
Unlocked == lock = None

(* Losing the authority closes every attachment that is open. *)
Unauthorized(a) == ~auth /\ At(a, "bridge")
Bridged(a) == At(a, "bridge")
=============================================================================
