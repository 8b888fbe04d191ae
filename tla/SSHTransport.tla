---------------------------- MODULE SSHTransport ----------------------------
(***************************************************************************)
(* The controller's SSH transport.  Resource probes share an observation   *)
(* master per node, a process with a bounded lifetime; commands use a      *)
(* connection of their own.  Each connection of a node under certificate   *)
(* trust has a private directory in which the handshake leaves the host    *)
(* certificate it accepted, and is checked against the present trust       *)
(* configuration and revocation list before its data is used.              *)
(*                                                                         *)
(* The controller is one event loop: an action is what it does between two *)
(* awaits.                                                                 *)
(***************************************************************************)
EXTENDS Naturals, FiniteSets

CONSTANTS
    Node, Caller,
    Master,    \* process identities (used again once reaped)
    Conn,      \* connection directories (used again once removed)
    Host,      \* host certificates a node may present
    Life,      \* LIFETIME, in units of time
    Reserve,   \* PROBE_RESERVE
    Timeout,   \* PROBE_TIMEOUT
    MaxMaster, \* MAX_NODES: masters that may exist
    MaxConfig, MaxTrust,  \* bounds: changes of the SSH and the trust configuration
    MaxLoss,   \* bound: masters that end by themselves, timeouts and cancellations
    None

TimeAssumption == Reserve > Timeout /\ Life >= Reserve

VARIABLES
    conf,     \* Node -> its resolved SSH configuration
    trust,    \* the digest of the trust configuration
    revoked, expired,  \* host certificates
    allowed,  \* nodes that are enrolled and the callers may use
    conn,     \* Conn -> [d, at, host, bound, krl], or None
    mst,      \* Master -> [n, key, c, at, life], or None
    cur,      \* Node -> the current master, or None
    caller,   \* Caller -> what it is doing
    closed,   \* the transport: open, closing, done
    unsafe,   \* data was used under trust that no longer held
    losses

world == <<conf, trust, revoked, expired>>
vars == <<world, allowed, conn, mst, cur, caller, closed, unsafe, losses>>

Idle == [pc |-> "idle"]

Init ==
    /\ conf = [n \in Node |-> 0] /\ trust = 0 /\ revoked = {} /\ expired = {} /\ allowed = Node
    /\ conn = [c \in Conn |-> None] /\ mst = [m \in Master |-> None] /\ cur = [n \in Node |-> None]
    /\ caller = [p \in Caller |-> Idle] /\ closed = "open" /\ unsafe = FALSE /\ losses = 0

At(p, pc) == caller[p].pc = pc
Refs(p) == IF At(p, "idle") THEN {} ELSE {caller[p].c}
FreeConn == {c \in Conn : conn[c] = None /\ \A m \in Master : mst[m] # None => mst[m].c # c}
                \ UNION {Refs(p) : p \in Caller}
FreeMaster == {m \in Master : mst[m] = None /\ \A p \in Caller : ~At(p, "idle") =>
                                                  caller[p].m # m /\ m \notin caller[p].wait}
Loss == losses < MaxLoss /\ losses' = losses + 1

-----------------------------------------------------------------------------
(* Certificate trust.                                                        *)

(* The revocation list, or what is asked of it, has changed since. *)
Stale(v) == v.krl # revoked \/ (v.at = "proof" /\ ~v.bound)

(* Connection.check: the same trust configuration, a lifetime that lasts and *)
(* nothing revoked.                                                          *)
Good(c) ==
    IF conn[c] = None THEN FALSE
    ELSE /\ conn[c].d = trust
         /\ conn[c].at = "proof" => conn[c].host \notin expired /\ (Stale(conn[c]) => conn[c].host \notin revoked)

(* What a check that passes leaves. *)
Checked(c) == [conn EXCEPT ![c] = [@ EXCEPT !.bound = conn[c].at = "proof", !.krl = revoked]]

(* The handshake, in the ssh process: the trust command looks the            *)
(* certificate up in the revocation list and then leaves it as the proof.    *)
Handshake(c, h) ==
    /\ conn[c] # None /\ conn[c].at = "new" /\ conn[c].d = trust /\ h \notin revoked \cup expired
    /\ \/ \E m \in Master : mst[m] # None /\ mst[m].c = c /\ mst[m].at = "starting"
       \/ \E p \in Caller : At(p, "command") /\ caller[p].c = c
    /\ conn' = [conn EXCEPT ![c] = [@ EXCEPT !.at = "verified", !.host = h]]
    /\ UNCHANGED <<world, allowed, mst, cur, caller, closed, unsafe, losses>>

Prove(c) ==
    /\ conn[c] # None /\ conn[c].at = "verified"
    /\ conn' = [conn EXCEPT ![c].at = "proof"]
    /\ UNCHANGED <<world, allowed, mst, cur, caller, closed, unsafe, losses>>

-----------------------------------------------------------------------------
(* Masters.                                                                  *)

Alive(m) == IF mst[m] = None THEN FALSE ELSE mst[m].at \in {"starting", "ready"} /\ mst[m].life > 0

Reusable(m) == Alive(m) /\ mst[m].life >= Reserve

(* Master.stop: killed, and reaped later. *)
Stopped(S) == [m \in Master |-> IF m \in S /\ mst[m] # None THEN [mst[m] EXCEPT !.at = "stopped"] ELSE mst[m]]

(* Masters.reset. *)
ResetSet(N) == {cur[n] : n \in N} \ {None}
Uncurrent(N) == [n \in Node |-> IF n \in N THEN None ELSE cur[n]]

(* Master.guard: the master of a connection that is no longer trusted stops. *)
Guard(m) ==
    /\ Alive(m)
    /\ IF Good(mst[m].c) THEN conn' = Checked(mst[m].c) /\ UNCHANGED mst
       ELSE mst' = Stopped({m}) /\ UNCHANGED conn
    /\ UNCHANGED <<world, allowed, cur, caller, closed, unsafe, losses>>

(* The ssh process has its control socket: the handshake is over. *)
Ready(m) ==
    /\ Alive(m) /\ mst[m].at = "starting" /\ conn[mst[m].c] # None /\ conn[mst[m].c].at = "proof"
    /\ mst' = [mst EXCEPT ![m].at = "ready"]
    /\ UNCHANGED <<world, allowed, conn, cur, caller, closed, unsafe, losses>>

(* The process ends: the connection broke, or its handshake was refused. *)
Exit(m) ==
    /\ mst[m] # None /\ mst[m].at \in {"starting", "ready"}
    /\ \/ Loss
       \/ mst[m].at = "starting" /\ (conn[mst[m].c] = None \/ ~Good(mst[m].c)) /\ UNCHANGED losses
    /\ mst' = Stopped({m})
    /\ UNCHANGED <<world, allowed, conn, cur, caller, closed, unsafe>>

\* Mutant: the connection's directory is left to the caller.
ReapKeeping(m) ==
    /\ mst[m] # None /\ ~Alive(m) /\ mst' = [mst EXCEPT ![m] = None]
    /\ UNCHANGED <<world, allowed, conn, cur, caller, closed, unsafe, losses>>

(* Master.watch: the process is waited for and its connection released. *)
Reap(m) ==
    /\ mst[m] # None /\ ~Alive(m)
    /\ mst' = [mst EXCEPT ![m] = None] /\ conn' = [conn EXCEPT ![mst[m].c] = None]
    /\ UNCHANGED <<world, allowed, cur, caller, closed, unsafe, losses>>

(* Time passes; nobody's deadline does unnoticed. *)
Tick ==
    /\ \A p \in Caller : At(p, "running") => caller[p].left > 0
    /\ \E m \in Master : Alive(m)
    /\ mst' = [m \in Master |-> IF Alive(m) THEN [mst[m] EXCEPT !.life = @ - 1] ELSE mst[m]]
    /\ caller' = [p \in Caller |-> IF At(p, "running") THEN [caller[p] EXCEPT !.left = @ - 1] ELSE caller[p]]
    /\ UNCHANGED <<world, allowed, conn, cur, closed, unsafe, losses>>

-----------------------------------------------------------------------------
(* Callers.                                                                  *)

(* SSH.config and configured_arguments: the destination as it is now, under  *)
(* the trust configuration as it is now.                                     *)
Begin(p, n, pc) ==
    /\ At(p, "idle")
    /\ \E c \in FreeConn :
          /\ conn' = [conn EXCEPT ![c] = [d |-> trust, at |-> "new", host |-> None, bound |-> FALSE, krl |-> revoked]]
          /\ caller' = [caller EXCEPT ![p] = [pc |-> pc, n |-> n, key |-> <<conf[n], trust>>, c |-> c,
                                              m |-> None, wait |-> {}, left |-> Timeout]]
    /\ UNCHANGED <<world, allowed, mst, cur, closed, unsafe, losses>>

Probe(p, n) == Begin(p, n, "acquire")
Command(p, n) == n \in allowed /\ Begin(p, n, "command")

(* release: the connection goes unless the caller's master has it. *)
Released(p) ==
    LET v == caller[p]
        held == v.m # None /\ mst[v.m] # None /\ mst[v.m].c = v.c
    IN IF held THEN conn ELSE [conn EXCEPT ![v.c] = None]

(* A probe that fails resets its node's master and releases its connection. *)
GiveUp(p) ==
    /\ mst' = Stopped(ResetSet({caller[p].n})) /\ cur' = Uncurrent({caller[p].n})
    /\ conn' = Released(p) /\ caller' = [caller EXCEPT ![p] = Idle]
    /\ UNCHANGED <<world, allowed, closed, unsafe>>

(* Masters.acquire: masters that ended, and the node's when it is not the    *)
(* right one, are retired first.                                             *)
Retired(p) ==
    LET n == caller[p].n
    IN {k \in Node : cur[k] # None /\ (~Alive(cur[k]) \/
                        (k = n /\ (mst[cur[k]].key # caller[p].key \/ ~Reusable(cur[k]))))}

Admitted(p) == caller[p].n \in allowed /\ closed = "open"

Retire(p) ==
    /\ At(p, "acquire") /\ Admitted(p) /\ Retired(p) # {}
    /\ mst' = Stopped(ResetSet(Retired(p))) /\ cur' = Uncurrent(Retired(p))
    /\ caller' = [caller EXCEPT ![p] = [@ EXCEPT !.pc = "reaping", !.wait = ResetSet(Retired(p))]]
    /\ UNCHANGED <<world, allowed, conn, closed, unsafe, losses>>

Reaped(p) ==
    /\ At(p, "reaping") /\ \A m \in caller[p].wait : mst[m] = None
    /\ caller' = [caller EXCEPT ![p] = [@ EXCEPT !.pc = "acquire", !.wait = {}]]
    /\ UNCHANGED <<world, allowed, conn, mst, cur, closed, unsafe, losses>>

(* acquire_checked: the node's master, or a new one if there is room. *)
Acquire(p) ==
    LET n == caller[p].n
    IN /\ At(p, "acquire") /\ Admitted(p) /\ Retired(p) = {}
       /\ IF cur[n] # None
          THEN /\ caller' = [caller EXCEPT ![p] = [@ EXCEPT !.pc = "waiting", !.wait = {cur[n]}]]
               /\ UNCHANGED <<mst, cur>>
          ELSE /\ Cardinality({m \in Master : mst[m] # None}) < MaxMaster
               /\ \E m \in FreeMaster :
                     /\ mst' = [mst EXCEPT ![m] = [n |-> n, key |-> caller[p].key, c |-> caller[p].c,
                                                   at |-> "starting", life |-> Life]]
                     /\ cur' = [cur EXCEPT ![n] = m]
                     /\ caller' = [caller EXCEPT ![p] = [@ EXCEPT !.pc = "waiting", !.wait = {m}]]
       /\ UNCHANGED <<world, allowed, conn, closed, unsafe, losses>>

(* Refused: no longer permitted, closed, or too many masters. *)
Refuse(p) ==
    /\ At(p, "acquire")
    /\ ~Admitted(p) \/ (Retired(p) = {} /\ cur[caller[p].n] = None
                        /\ Cardinality({m \in Master : mst[m] # None}) >= MaxMaster)
    /\ GiveUp(p) /\ UNCHANGED losses

Waits(p) == CHOOSE m \in caller[p].wait : TRUE

(* wait_ready: the master is there, long enough for a probe, and the caller  *)
(* still permitted; its probe runs.                                          *)
Run(p) ==
    LET m == Waits(p)
    IN /\ At(p, "waiting") /\ Reusable(m) /\ mst[m].at = "ready" /\ caller[p].n \in allowed
       /\ caller' = [caller EXCEPT ![p] = [@ EXCEPT !.pc = "running", !.m = m, !.wait = {}, !.left = Timeout]]
       /\ UNCHANGED <<world, allowed, conn, mst, cur, closed, unsafe, losses>>

(* The master ended (and is reaped first), does not last or is not permitted *)
(* any more, or did not start in time.                                       *)
WaitFails(p) ==
    LET m == Waits(p)
    IN /\ At(p, "waiting")
       /\ \/ mst[m] = None /\ UNCHANGED losses
          \/ mst[m] # None /\ Alive(m) /\ mst[m].at = "ready" /\ (~Reusable(m) \/ caller[p].n \notin allowed) /\ UNCHANGED losses
          \/ mst[m] # None /\ Alive(m) /\ mst[m].at = "starting" /\ Loss
       /\ GiveUp(p)

(* guarded: the connection a caller's data comes through. *)
Via(p) == IF At(p, "running") THEN mst[caller[p].m].c ELSE caller[p].c

(* The answer is there and the trust still holds: the data is used. *)
Deliver(p) ==
    /\ caller[p].pc \in {"running", "command"} /\ (At(p, "running") => Alive(caller[p].m))
    /\ Good(Via(p)) /\ conn[Via(p)].at = "proof"
    /\ unsafe' = (unsafe \/ conn[Via(p)].d # trust \/ conn[Via(p)].host \in revoked \cup expired)
    /\ conn' = [Released(p) EXCEPT ![Via(p)] = IF @ = None THEN None ELSE Checked(Via(p))[Via(p)]]
    /\ caller' = [caller EXCEPT ![p] = Idle]
    /\ UNCHANGED <<world, allowed, mst, cur, closed, losses>>

(* The guard refuses, or the deadline passes. *)
RunFails(p) ==
    /\ At(p, "running")
    /\ \/ mst[caller[p].m] # None /\ ~Good(Via(p)) /\ UNCHANGED losses
       \/ caller[p].left = 0 /\ UNCHANGED losses
    /\ GiveUp(p)

(* ssh exits with its own error: nothing is reset. *)
RunExits(p) ==
    /\ At(p, "running") /\ ~Alive(caller[p].m)
    /\ conn' = Released(p) /\ caller' = [caller EXCEPT ![p] = Idle]
    /\ UNCHANGED <<world, allowed, mst, cur, closed, unsafe, losses>>

(* A command fails, is refused by the guard or times out. *)
CommandFails(p) ==
    /\ At(p, "command") /\ ((~Good(caller[p].c) /\ UNCHANGED losses) \/ Loss)
    /\ conn' = Released(p) /\ caller' = [caller EXCEPT ![p] = Idle]
    /\ UNCHANGED <<world, allowed, mst, cur, closed, unsafe>>

(* The caller is cancelled while it waits: whoever waits for a master that   *)
(* is still the current one resets it; cleanup goes on.                      *)
Cancel(p) ==
    /\ caller[p].pc \in {"reaping", "waiting"} /\ Loss
    /\ LET mine == At(p, "waiting") /\ cur[caller[p].n] = Waits(p)
       IN IF mine THEN mst' = Stopped({Waits(p)}) /\ cur' = Uncurrent({caller[p].n}) ELSE UNCHANGED <<mst, cur>>
    /\ conn' = Released(p) /\ caller' = [caller EXCEPT ![p] = Idle]
    /\ UNCHANGED <<world, allowed, closed, unsafe>>

-----------------------------------------------------------------------------
(* The installation.                                                         *)

(* A node is removed or a caller's access ends: SSH.reset. *)
Revoke(n) ==
    /\ n \in allowed /\ allowed' = allowed \ {n}
    /\ mst' = Stopped(ResetSet({n})) /\ cur' = Uncurrent({n})
    /\ UNCHANGED <<world, conn, caller, closed, unsafe, losses>>

ChangeConfig(n) ==
    /\ conf[n] < MaxConfig /\ conf' = [conf EXCEPT ![n] = @ + 1]
    /\ UNCHANGED <<trust, revoked, expired, allowed, conn, mst, cur, caller, closed, unsafe, losses>>

ChangeTrust ==
    /\ trust < MaxTrust /\ trust' = trust + 1
    /\ UNCHANGED <<conf, revoked, expired, allowed, conn, mst, cur, caller, closed, unsafe, losses>>

EndHost(h) ==
    /\ h \notin revoked \cup expired
    /\ \/ revoked' = revoked \cup {h} /\ UNCHANGED expired
       \/ expired' = expired \cup {h} /\ UNCHANGED revoked
    /\ UNCHANGED <<conf, trust, allowed, conn, mst, cur, caller, closed, unsafe, losses>>

(* Masters.close, then the connections that are left. *)
Close ==
    /\ closed = "open" /\ closed' = "closing"
    /\ mst' = Stopped(ResetSet(Node)) /\ cur' = Uncurrent(Node)
    /\ UNCHANGED <<world, allowed, conn, caller, unsafe, losses>>

CloseEnd ==
    /\ closed = "closing" /\ \A m \in Master : mst[m] = None
    /\ closed' = "done" /\ conn' = [c \in Conn |-> None]
    /\ UNCHANGED <<world, allowed, mst, cur, caller, unsafe, losses>>

Steps ==
    \/ \E c \in Conn : Prove(c) \/ \E h \in Host : Handshake(c, h)
    \/ \E m \in Master : Ready(m) \/ Reap(m)
    \/ \E p \in Caller : Retire(p) \/ Reaped(p) \/ Acquire(p) \/ Refuse(p) \/ Run(p) \/ WaitFails(p)
                         \/ Deliver(p) \/ RunFails(p) \/ RunExits(p) \/ CommandFails(p)
    \/ CloseEnd

Next ==
    \/ Steps \/ Tick \/ Close \/ ChangeTrust
    \/ \E m \in Master : Guard(m) \/ Exit(m)
    \/ \E p \in Caller : Cancel(p) \/ \E n \in Node : Probe(p, n) \/ Command(p, n)
    \/ \E n \in Node : Revoke(n) \/ ChangeConfig(n)
    \/ \E h \in Host : EndHost(h)

Spec == Init /\ [][Next]_vars

-----------------------------------------------------------------------------
(* The shape of the state; every connection directory belongs to a caller    *)
(* that is still at work or to a master that is still to be reaped, and will *)
(* be removed by it.                                                         *)
TypeOK ==
    /\ cur \in [Node -> Master \cup {None}] /\ closed \in {"open", "closing", "done"} /\ losses \in 0..MaxLoss
    /\ \A m \in Master : mst[m] # None => /\ mst[m].at \in {"starting", "ready", "stopped"}
                                          /\ mst[m].life \in 0..Life /\ mst[m].c \in Conn
    /\ \A c \in Conn : conn[c] # None =>
          \/ \E m \in Master : mst[m] # None /\ mst[m].c = c
          \/ \E p \in Caller : c \in Refs(p)

(* Data is used only under trust that holds at that moment: the trust        *)
(* configuration the connection was made under, and the very certificate its *)
(* handshake accepted, neither expired nor revoked meanwhile.                *)
UsedUnderTrust == ~unsafe

(* A process nobody would stop does not exist: every live master is the      *)
(* current one of its node.                                                  *)
Tracked == \A m \in Master : mst[m] # None /\ mst[m].at # "stopped" => cur[mst[m].n] = m

(* A probe runs over a master of the configuration and the trust it resolved *)
(* itself, whatever other probes made or retired meanwhile.                  *)
OwnConfiguration ==
    \A p \in Caller : At(p, "running") /\ mst[caller[p].m] # None =>
       mst[caller[p].m].key = caller[p].key /\ mst[caller[p].m].n = caller[p].n

(* A master that a probe runs over does not reach the end of its lifetime    *)
(* before the probe's deadline.                                              *)
Outlives ==
    \A p \in Caller : At(p, "running") =>
       LET v == mst[caller[p].m] IN v # None /\ v.at # "stopped" => v.life > caller[p].left

(* After the transport has closed there is no master and there will be none. *)
ClosedQuiet == closed = "done" => \A m \in Master : mst[m] = None

(* The guard finds trust ended and stops the master. *)
GuardStops(m) == Guard(m) /\ mst' # mst

(* A master whose trust has ended is stopped and reaped though no probe      *)
(* comes and its lifetime goes on.                                           *)
TrustEnded(m) == mst[m] # None /\ mst[m].at # "stopped" /\ ~Good(mst[m].c)
Gone(m) == mst[m] = None

(* A probe that retired masters is not left waiting for them.                *)
WaitsForReaping(p) == At(p, "reaping")
Proceeds(p) == At(p, "idle") \/ At(p, "acquire")
=============================================================================
