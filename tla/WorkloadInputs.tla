---------------------------- MODULE WorkloadInputs ----------------------------
(***************************************************************************)
(* Streaming a workload's immutable inputs to its node.                    *)
(*                                                                         *)
(* The controller's poll of a node asks which offsets are durable there,   *)
(* reads the next chunk ahead in a task of its own and sends it with the   *)
(* poll that finds it read.  The executor writes chunks outside its lock,  *)
(* keeps the running digest in memory only, and records progress in its    *)
(* ledger.  Complete inputs of endpoint jobs also fill the node's bounded  *)
(* model cache, from which later attempts are staged without a transfer.   *)
(* Requests and replies may be lost, requests may execute late.            *)
(***************************************************************************)
EXTENDS Naturals, Sequences, FiniteSets

CONSTANTS
    Attempt, Object,
    Inputs,      \* Attempt -> the sequence of its input objects
    Size,        \* an object's length, in chunks
    Prefetches,  \* the read tasks kept at once (PREFETCHES)
    Cached,      \* whether the node has a model cache
    MaxFiles,    \* the objects that cache may hold
    MaxStart,    \* bound: restarts of the executor
    MaxLost,     \* bound: requests whose reply is lost or late
    None

VARIABLES
    job,    \* Attempt -> "new", "prepared" or "over": the controller's record
    pend,   \* Attempt -> the read-ahead of the attempt, or None
    poll,   \* the exchange the node's poll is waiting in, or None
    wire,   \* the write requests on their way to the node
    up,     \* whether the executor runs
    natt,   \* Attempt -> the executor's ledger state of it
    prog,   \* Attempt -> Object -> the recorded [off, done], or None
    data,   \* Attempt -> Object -> the chunks of the staged file
    hash,   \* Attempt -> Object -> the chunks digested in memory, or None
    op,     \* Attempt -> the write in progress outside the lock, or None
    cache,  \* the cached objects, least recently used first
    fill,   \* the cache fill its worker runs, or None
    queued, \* objects whose cache fill is queued or running
    count   \* [start, lost]: what the bounds limit

ctl == <<job, pend, poll>>
node == <<up, natt, prog, data, hash, op>>
store == <<cache, fill, queued>>
vars == <<ctl, wire, node, store, count>>

Of(a) == {Inputs[a][k] : k \in DOMAIN Inputs[a]}
Elements(s) == {s[k] : k \in DOMAIN s}
Without(s, o) == SelectSeq(s, LAMBDA x : x # o)
Blank(v) == [o \in Object |-> v]
Chunk(o, off) == <<o, off>>
Whole(o) == [k \in 1..Size |-> Chunk(o, k - 1)]

Init ==
    /\ job = [a \in Attempt |-> "new"] /\ pend = [a \in Attempt |-> None] /\ poll = None
    /\ wire = {} /\ up = TRUE
    /\ natt = [a \in Attempt |-> "absent"] /\ prog = [a \in Attempt |-> None]
    /\ data = [a \in Attempt |-> Blank(<<>>)] /\ hash = [a \in Attempt |-> Blank(None)]
    /\ op = [a \in Attempt |-> None]
    /\ cache = <<>> /\ fill = None /\ queued = {} /\ count = [start |-> 0, lost |-> 0]

-----------------------------------------------------------------------------
(* The executor.                                                            *)

Retained == {a \in Attempt : natt[a] \in {"prepared", "stopped"}}

(* An admitted plan keeps its reservation from here on; the controller has   *)
(* its receipt before it sends inputs.                                       *)
Admit(a) ==
    /\ up /\ natt[a] = "absent" /\ job[a] = "new"
    /\ natt' = [natt EXCEPT ![a] = "prepared"] /\ job' = [job EXCEPT ![a] = "prepared"]
    /\ UNCHANGED <<pend, poll, wire, up, prog, data, hash, op, store, count>>

(* Inputs.initialize and ModelCache.restore: objects of the cache are        *)
(* copied with their digest checked, the others begin empty.                 *)
Initialize(a) ==
    /\ up /\ natt[a] = "prepared" /\ prog[a] = None
    /\ LET hit == IF Cached THEN Of(a) \cap Elements(cache) ELSE {}
       IN /\ prog' = [prog EXCEPT ![a] = [o \in Object |->
                        [off |-> IF o \in hit THEN Size ELSE 0, done |-> o \in hit]]]
          /\ data' = [data EXCEPT ![a] = [o \in Object |-> IF o \in hit THEN Whole(o) ELSE <<>>]]
          /\ hash' = [hash EXCEPT ![a] = [o \in Object |-> IF o \in Of(a) \ hit THEN 0 ELSE None]]
          /\ cache' = SelectSeq(cache, LAMBDA o : o \notin hit) \o SelectSeq(cache, LAMBDA o : o \in hit)
    /\ UNCHANGED <<ctl, wire, up, natt, op, fill, queued, count>>

Stopped(a) == natt' = [natt EXCEPT ![a] = IF @ = "prepared" THEN "stopped" ELSE @]

(* input_write under the lock: refusals answer at once, an accepted write    *)
(* goes on without the lock.                                                 *)
Accepts(r) == /\ up /\ natt[r.a] = "prepared" /\ prog[r.a] # None /\ op[r.a] = None
              /\ ~prog[r.a][r.o].done /\ prog[r.a][r.o].off = r.off

Reply(r, ok) == IF poll # None /\ poll.pc = "write" /\ poll.req = r /\ r \in wire
                THEN poll' = [poll EXCEPT !.pc = "answer", !.ok = ok]
                ELSE UNCHANGED poll

(* The requests whose write is in progress. *)
Working == {op[a].req : a \in {b \in Attempt : op[b] # None}}

AcceptWrite(r) ==
    /\ r \in wire /\ Accepts(r)
    /\ op' = [op EXCEPT ![r.a] = [req |-> r, pc |-> "begin"]]
    /\ UNCHANGED <<ctl, wire, up, natt, prog, data, hash, store, count>>

RefuseWrite(r) ==
    /\ r \in wire \ Working /\ up /\ ~Accepts(r)
    /\ wire' = wire \ {r} /\ Reply(r, FALSE)
    /\ UNCHANGED <<job, pend, node, store, count>>

(* Inputs.write: the digest state must be in memory, the file must have the  *)
(* recorded length and the lease must hold; the bytes are synchronised.      *)
WriteChunk(a) ==
    /\ up /\ op[a] # None /\ op[a].pc = "begin"
    /\ LET r == op[a].req
           fails == \/ hash[a][r.o] = None \/ Len(data[a][r.o]) # r.off \/ natt[a] # "prepared"
                    \/ r.off + 1 = Size /\ Append(data[a][r.o], r.chunk) # Whole(r.o)
       IN IF fails THEN op' = [op EXCEPT ![a].pc = "failed"] /\ UNCHANGED data
          ELSE /\ data' = [data EXCEPT ![a][r.o] = Append(@, r.chunk)]
               /\ op' = [op EXCEPT ![a].pc = "synced"]
    /\ UNCHANGED <<ctl, wire, up, natt, prog, hash, store, count>>

(* A complete input of an endpoint job is offered to the cache's worker. *)
Offer(a, o) == IF Cached /\ o \notin queued THEN queued' = queued \cup {o} ELSE UNCHANGED queued

(* Back under the lock: the attempt must still be prepared, then progress is *)
(* recorded and the digest committed.                                        *)
CommitWrite(a) ==
    /\ up /\ op[a] # None /\ op[a].pc = "synced"
    /\ LET r == op[a].req
           done == r.off + 1 = Size
       IN IF natt[a] = "prepared"
          THEN /\ prog' = [prog EXCEPT ![a][r.o] = [off |-> r.off + 1, done |-> done]]
               /\ hash' = [hash EXCEPT ![a][r.o] = r.off + 1]
               /\ wire' = wire \ {r} /\ Reply(r, TRUE) /\ op' = [op EXCEPT ![a] = None]
               /\ IF done THEN Offer(a, r.o) ELSE UNCHANGED queued
               /\ UNCHANGED natt
          ELSE /\ op' = [op EXCEPT ![a].pc = "failed"] /\ UNCHANGED <<poll, wire, prog, hash, queued, natt>>
    /\ UNCHANGED <<job, pend, up, data, cache, fill, count>>

(* A failed write stops the attempt. *)
FailWrite(a) ==
    /\ up /\ op[a] # None /\ op[a].pc = "failed"
    /\ Stopped(a) /\ wire' = wire \ {op[a].req} /\ Reply(op[a].req, FALSE)
    /\ op' = [op EXCEPT ![a] = None]
    /\ UNCHANGED <<job, pend, up, prog, data, hash, store, count>>

(* The lease runs out or a stop is asked for; later everything is removed. *)
Stop(a) ==
    /\ up /\ natt[a] = "prepared" /\ Stopped(a)
    /\ UNCHANGED <<ctl, wire, up, prog, data, hash, op, store, count>>

Release(a) ==
    /\ up /\ natt[a] = "stopped" /\ op[a] = None
    /\ natt' = [natt EXCEPT ![a] = "released"] /\ prog' = [prog EXCEPT ![a] = None]
    /\ data' = [data EXCEPT ![a] = Blank(<<>>)] /\ hash' = [hash EXCEPT ![a] = Blank(None)]
    /\ UNCHANGED <<ctl, wire, up, op, store, count>>

(* The executor dies: digests, open writes and queued cache fills are lost.  *)
Die ==
    /\ up /\ count.start < MaxStart
    /\ up' = FALSE /\ count' = [count EXCEPT !.start = @ + 1]
    /\ hash' = [a \in Attempt |-> Blank(None)] /\ op' = [a \in Attempt |-> None]
    /\ fill' = None /\ queued' = {} /\ wire' = {}
    /\ poll' = IF poll # None THEN [poll EXCEPT !.pc = "answer", !.ok = FALSE] ELSE None
    /\ UNCHANGED <<job, pend, natt, prog, data, cache>>

Restart == /\ ~up /\ up' = TRUE
           /\ UNCHANGED <<ctl, wire, natt, prog, data, hash, op, store, count>>

-----------------------------------------------------------------------------
(* The node's model cache.                                                  *)

(* The worker takes a queued fill: an object already there needs nothing,    *)
(* otherwise the inputs of retained attempts are noted before any eviction.  *)
FillBegin(o) ==
    /\ up /\ fill = None /\ o \in queued
    /\ IF o \in Elements(cache) THEN queued' = queued \ {o} /\ UNCHANGED fill
       ELSE /\ fill' = [o |-> o, pinned |-> UNION {Of(a) : a \in Retained}, left |-> cache]
            /\ UNCHANGED queued
    /\ UNCHANGED <<ctl, wire, node, cache, count>>

EvictOldest ==
    /\ up /\ fill # None /\ Len(cache) >= MaxFiles /\ fill.left # <<>>
    /\ LET o == Head(fill.left)
       IN cache' = IF o \in fill.pinned THEN cache ELSE Without(cache, o)
    /\ fill' = [fill EXCEPT !.left = Tail(@)]
    /\ UNCHANGED <<ctl, wire, node, queued, count>>

(* With room the verified copy is renamed into the cache; a source that was  *)
(* released meanwhile, or no room, leaves the cache as it is.                *)
FillEnd ==
    /\ up /\ fill # None /\ (Len(cache) < MaxFiles \/ fill.left = <<>>)
    /\ \/ /\ Len(cache) < MaxFiles
          /\ \E a \in Retained : data[a][fill.o] = Whole(fill.o)
          /\ cache' = Append(cache, fill.o)
       \/ UNCHANGED cache
    /\ queued' = queued \ {fill.o} /\ fill' = None
    /\ UNCHANGED <<ctl, wire, node, count>>

(* Administration needs a stopped executor without retained attempts. *)
AdminImport(o) ==
    /\ Cached /\ ~up /\ Retained = {} /\ o \notin Elements(cache) /\ Len(cache) < MaxFiles
    /\ cache' = Append(cache, o)
    /\ UNCHANGED <<ctl, wire, node, fill, queued, count>>

AdminEvict(o) ==
    /\ Cached /\ ~up /\ Retained = {} /\ o \in Elements(cache)
    /\ cache' = Without(cache, o)
    /\ UNCHANGED <<ctl, wire, node, fill, queued, count>>

-----------------------------------------------------------------------------
(* The controller.                                                          *)

(* Inputs.discard: a finished read is dropped, a running one is cancelled    *)
(* and keeps its place until its source has closed.                          *)
Discarded(p) == IF p = None \/ p.pc # "reading" THEN None ELSE [p EXCEPT !.drop = TRUE]

Discard(S) == pend' = [a \in Attempt |-> IF a \in S THEN Discarded(pend[a]) ELSE pend[a]]

Current(a) == job[a] = "prepared"

(* Read tasks that hold a source open, those no longer in pend included. *)
Begun(a, o, off) == [o |-> o, off |-> off, pc |-> "reading", drop |-> FALSE]

ReadDone(a, ok) ==
    /\ pend[a] # None /\ pend[a].pc = "reading"
    /\ pend' = [pend EXCEPT ![a] = IF @.drop THEN None
                                   ELSE [@ EXCEPT !.pc = IF ok /\ Current(a) THEN "read" ELSE "failed"]]
    /\ UNCHANGED <<job, poll, wire, node, store, count>>

(* The job is cancelled, started or its authority lost: reads are pruned. *)
Ends(a) ==
    /\ job[a] = "prepared"
    /\ job' = [job EXCEPT ![a] = "over"] /\ Discard({a})
    /\ UNCHANGED <<poll, wire, node, store, count>>

(* Inputs.advance reaches an attempt and asks for its durable offsets. *)
AskStatus(a) ==
    /\ poll = None /\ Current(a)
    /\ poll' = [a |-> a, pc |-> "status", req |-> None, ok |-> FALSE]
    /\ UNCHANGED <<job, pend, wire, node, store, count>>

Missing(a) == {k \in DOMAIN Inputs[a] : ~prog[a][Inputs[a][k]].done}
First(S) == CHOOSE k \in S : \A j \in S : k <= j

Usable(p, o, off) == p.o = o /\ p.off = off

(* The status reply: nothing to send, a read to begin or to drop, or the     *)
(* chunk that was read for this very offset.                                 *)
Statused ==
    /\ poll # None /\ poll.pc = "status" /\ up
    /\ LET a == poll.a
       IN IF natt[a] # "prepared" \/ prog[a] = None \/ ~Current(a)
          THEN poll' = None /\ Discard({a}) /\ UNCHANGED wire
          ELSE IF Missing(a) = {} THEN poll' = None /\ Discard({a}) /\ UNCHANGED wire
          ELSE LET o == Inputs[a][First(Missing(a))]
                   off == prog[a][o].off
                   p == IF pend[a] # None /\ ~Usable(pend[a], o, off) THEN Discarded(pend[a]) ELSE pend[a]
               IN IF p = None
                  THEN /\ poll' = None /\ UNCHANGED wire
                       /\ pend' = [pend EXCEPT ![a] =
                            IF Cardinality({b \in Attempt \ {a} : pend[b] # None}) < Prefetches
                            THEN Begun(a, o, off) ELSE None]
                  ELSE IF p.drop \/ p.pc = "reading"
                  THEN poll' = None /\ pend' = [pend EXCEPT ![a] = p] /\ UNCHANGED wire
                  ELSE IF p.pc = "failed"
                  THEN poll' = None /\ Discard({a}) /\ UNCHANGED wire
                  ELSE LET r == [a |-> a, o |-> o, off |-> off, chunk |-> Chunk(p.o, p.off)]
                       IN /\ wire' = wire \cup {r}
                          /\ poll' = [poll EXCEPT !.pc = "write", !.req = r]
                          /\ UNCHANGED pend
    /\ UNCHANGED <<job, node, store, count>>

(* The write's answer; an acknowledged chunk begins the next read. *)
Answered ==
    /\ poll # None /\ poll.pc = "answer"
    /\ poll' = None
    /\ LET a == poll.a
           r == poll.req
       IN IF r # None /\ poll.ok /\ r.off + 1 < Size /\ Current(a)
          THEN pend' = [pend EXCEPT ![a] = IF Discarded(@) = None THEN Begun(a, r.o, r.off + 1) ELSE Discarded(@)]
          ELSE Discard({a})
    /\ UNCHANGED <<job, wire, node, store, count>>

(* The exchange fails without an answer: the request is lost, or stays on    *)
(* its way and executes late; the node's reads are dropped.                  *)
Lose(late) ==
    /\ poll # None /\ poll.pc \in {"status", "write"} /\ count.lost < MaxLost
    /\ count' = [count EXCEPT !.lost = @ + 1]
    /\ poll' = None /\ Discard(Attempt)
    /\ wire' = IF late THEN wire ELSE wire \cap Working
    /\ UNCHANGED <<job, node, store>>

-----------------------------------------------------------------------------
Request == UNION {{[a |-> a, o |-> o, off |-> off, chunk |-> c] :
              o \in Of(a), off \in 0..(Size - 1), c \in Object \X (0..(Size - 1))} : a \in Attempt}

Next ==
    \/ \E a \in Attempt : \/ Admit(a) \/ Initialize(a) \/ WriteChunk(a) \/ CommitWrite(a) \/ FailWrite(a)
                          \/ Stop(a) \/ Release(a) \/ Ends(a) \/ AskStatus(a)
    \/ \E a \in Attempt, ok \in BOOLEAN : ReadDone(a, ok)
    \/ \E r \in wire : AcceptWrite(r) \/ RefuseWrite(r)
    \/ \E o \in Object : FillBegin(o) \/ AdminImport(o) \/ AdminEvict(o)
    \/ EvictOldest \/ FillEnd \/ Die \/ Restart \/ Statused \/ Answered
    \/ \E late \in BOOLEAN : Lose(late)

Spec == Init /\ [][Next]_vars

-----------------------------------------------------------------------------
(* Every variable has the shape the code gives it. *)
TypeOK ==
    /\ job \in [Attempt -> {"new", "prepared", "over"}]
    /\ natt \in [Attempt -> {"absent", "prepared", "stopped", "released"}]
    /\ wire \subseteq Request /\ up \in BOOLEAN
    /\ \A a \in Attempt : /\ prog[a] # None => \A o \in Object : prog[a][o].off \in 0..Size
                          /\ pend[a] # None => pend[a].pc \in {"reading", "read", "failed"}
                          /\ op[a] # None => op[a].req \in Request
                          /\ \A o \in Object : Len(data[a][o]) <= Size
    /\ Elements(cache) \subseteq Object /\ queued \subseteq Object

(* The recorded progress never claims more than the staged file holds, and   *)
(* the file is the declared chunks in order, all of them once it is said to  *)
(* be complete, whatever was lost, late, written across a restart or evicted *)
(* from the cache it was copied from (input_write, Inputs.write).            *)
StagedInOrder ==
    \A a \in Attempt : prog[a] # None => \A o \in Of(a) :
        /\ Len(data[a][o]) >= prog[a][o].off
        /\ data[a][o] = SubSeq(Whole(o), 1, Len(data[a][o]))
        /\ prog[a][o].done => data[a][o] = Whole(o)

(* A chunk the controller sends is the chunk of the offset it names, even if *)
(* it was read ahead before the durable offset or the attempt changed        *)
(* (Inputs.transfer).                                                        *)
SentWhereRead == \A r \in wire : r.chunk = Chunk(r.o, r.off)
=============================================================================
