--------------------------- MODULE EndpointStreams --------------------------
(***************************************************************************)
(* Responses of an inference engine, relayed by the executor.  A worker    *)
(* thread reads the engine's socket into a short queue; the controller     *)
(* takes one piece per exchange.  Exchanges hold one lock, the worker none *)
(* of it: the three looks of a read (at the queue, at the end of the       *)
(* worker, at the queue again) are steps of their own.                     *)
(***************************************************************************)
EXTENDS Naturals, FiniteSets

CONSTANTS
    Stream,       \* streams of one attempt
    PIECES,       \* pieces of a whole response
    QUEUE,        \* pieces a queue holds: 4 in the code
    IDLE,         \* ticks without a read before a stream is abandoned: 15 s
    Concurrency,  \* streams the endpoint admits
    Chunked,      \* the engine frames its response in chunks
    KeepsOpen,    \* the engine keeps a connection open after a response
    MaxFault,     \* bound: engine failures and lost replies
    None

VARIABLES
    table,    \* streams the executor knows
    thread,   \* Stream -> its worker, or None
    look,     \* the exchange under way: [s, at, data, done], or None
    seen,     \* Stream -> pieces the controller received
    ended,    \* Stream -> "open", "eof", "error" or "gone", None before
    running,  \* the attempt runs and its fence is current
    faults

vars == <<table, thread, look, seen, ended, running, faults>>

Init ==
    /\ table = {} /\ thread = [s \in Stream |-> None] /\ look = None /\ seen = [s \in Stream |-> 0]
    /\ ended = [s \in Stream |-> None] /\ running = TRUE /\ faults = 0

Alive == {s \in Stream : IF thread[s] = None THEN FALSE ELSE thread[s].pc # "done"}
At(s, pc) == s \in Alive /\ thread[s].pc = pc
Fault == faults < MaxFault /\ faults' = faults + 1
Idle(s) == thread[s].idle > IDLE

-----------------------------------------------------------------------------
(* The worker.                                                              *)

Active(s) == ~thread[s].cancelled /\ ~thread[s].late /\ ~Idle(s) /\ running
Step(s, pc) == thread' = [thread EXCEPT ![s].pc = pc]
Over(t, err) == [t EXCEPT !.pc = "done", !.err = err, !.got = 0, !.shut = FALSE, !.late = FALSE, !.dead = FALSE]
Fail(s) == thread' = [thread EXCEPT ![s] = Over(@, TRUE)]
Finish(s) == thread' = [thread EXCEPT ![s] = Over(@, FALSE)]
Idling == UNCHANGED <<table, look, seen, ended, running>>

(* The request is sent, and the head of the response arrives or does not. *)
Start(s) == At(s, "start") /\ (IF Active(s) THEN Step(s, "dial") ELSE Fail(s)) /\ Idling /\ UNCHANGED faults
Dial(s) ==
    /\ At(s, "dial") /\ \/ Step(s, "head") /\ UNCHANGED faults
                        \/ Fail(s) /\ Fault
    /\ Idling
Head(s) ==
    /\ At(s, "head") /\ ~thread[s].dead /\ ~thread[s].shut /\ Step(s, "read") /\ Idling /\ UNCHANGED faults

(* Authority is checked before each piece and while the queue is full. *)
Check(s) == At(s, "read") /\ (IF Active(s) THEN Step(s, "wait") ELSE Fail(s)) /\ Idling /\ UNCHANGED faults

Piece(s) ==
    /\ At(s, "wait") /\ ~thread[s].dead /\ ~thread[s].shut /\ thread[s].got < PIECES
    /\ thread' = [thread EXCEPT ![s].pc = "put", ![s].got = @ + 1] /\ Idling /\ UNCHANGED faults

Put(s) ==
    /\ At(s, "put") /\ Idling /\ UNCHANGED faults
    /\ IF ~Active(s) THEN Fail(s)
       ELSE thread[s].queue < QUEUE /\ thread' = [thread EXCEPT ![s].pc = "read", ![s].queue = @ + 1]

(* An empty read ends the loop.  A response cut short is always an error of *)
(* http.client only when it is framed in chunks.                            *)
Empty(s) ==
    /\ At(s, "wait") /\ Idling /\ UNCHANGED faults
    /\ \/ thread[s].got = PIECES /\ Finish(s)
       \/ (thread[s].dead \/ thread[s].shut) /\ (Fail(s) \/ (~Chunked /\ Finish(s)))

(* The socket's time limit is the request's. *)
Cut(s) ==
    /\ s \in Alive /\ thread[s].pc \in {"head", "wait"} /\ Idling /\ UNCHANGED faults
    /\ thread[s].late \/ (thread[s].pc = "head" /\ (thread[s].dead \/ thread[s].shut))
    /\ Fail(s)

-----------------------------------------------------------------------------
(* Exchanges.                                                               *)

(* cancel() shuts the socket of the connection.  After the head of a        *)
(* response that closes it, the connection has none.                        *)
Cancelled(t) == [t EXCEPT !.cancelled = TRUE, !.shut = @ \/ t.pc = "head" \/ (KeepsOpen /\ t.pc \in {"read", "wait", "put"})]

(* Abandoned streams are cancelled, and forgotten when their worker ended. *)
Reaped(s) == thread[s].cancelled \/ Idle(s)
Reap == [s \in Stream |-> IF s \in table /\ Idle(s) THEN Cancelled(thread[s]) ELSE thread[s]]

Left == {s \in table : ~(Reaped(s) /\ s \notin Alive)}

Look(s) == look' = [s |-> s, at |-> "queue", data |-> 0, done |-> FALSE]

Open(s) ==
    /\ look = None /\ ended[s] = None /\ running /\ Cardinality(Left) < Concurrency
    /\ table' = Left \cup {s} /\ Look(s) /\ ended' = [ended EXCEPT ![s] = "open"]
    /\ thread' = [Reap EXCEPT ![s] = [pc |-> "start", got |-> 0, queue |-> 0, cancelled |-> FALSE, shut |-> FALSE,
                                      late |-> FALSE, dead |-> FALSE, err |-> FALSE, idle |-> 0]]
    /\ UNCHANGED <<seen, running, faults>>

(* A read of a stream that was forgotten, or without authority, fails. *)
Read(s) ==
    /\ look = None /\ ended[s] = "open" /\ table' = Left
    /\ IF s \in Left /\ running
       THEN Look(s) /\ thread' = [Reap EXCEPT ![s].idle = 0] /\ UNCHANGED ended
       ELSE thread' = Reap /\ ended' = [ended EXCEPT ![s] = "error"] /\ UNCHANGED look
    /\ UNCHANGED <<seen, running, faults>>

Take ==
    /\ look # None /\ look.at = "queue"
    /\ LET n == IF thread[look.s].queue > 0 THEN 1 ELSE 0 IN
       look' = [look EXCEPT !.at = "done", !.data = n] /\ thread' = [thread EXCEPT ![look.s].queue = @ - n]
    /\ UNCHANGED <<table, seen, ended, running, faults>>

SeeDone ==
    /\ look # None /\ look.at = "done" /\ look' = [look EXCEPT !.at = "empty", !.done = thread[look.s].pc = "done"]
    /\ UNCHANGED <<table, thread, seen, ended, running, faults>>

Eof(s) == look.done /\ thread[s].queue = 0

(* The answer: the controller fails a stream that ended with an error. *)
Answer ==
    /\ look # None /\ look.at = "empty" /\ look' = None
    /\ LET s == look.s eof == Eof(look.s) IN
       /\ table' = IF eof THEN table \ {s} ELSE table
       /\ \/ /\ seen' = [seen EXCEPT ![s] = @ + look.data] /\ UNCHANGED faults
             /\ ended' = [ended EXCEPT ![s] = IF @ # "open" THEN @ ELSE IF thread[s].err THEN "error"
                                              ELSE IF eof THEN "eof" ELSE @]
          \/ Fault /\ ended' = [ended EXCEPT ![s] = IF @ = "open" THEN "error" ELSE @] /\ UNCHANGED seen
    /\ UNCHANGED <<thread, running>>

(* The controller cancels a stream it is done with or gives up. *)
Cancel(s) ==
    /\ look = None /\ ended[s] \in {"open", "error"} /\ ended' = [ended EXCEPT ![s] = "gone"]
    /\ table' = Left /\ thread' = IF s \in Left THEN [Reap EXCEPT ![s] = Cancelled(Reap[s])] ELSE Reap
    /\ UNCHANGED <<look, seen, running, faults>>

(* The controller dies. *)
Quit(s) ==
    /\ look = None /\ ended[s] = "open" /\ ended' = [ended EXCEPT ![s] = "gone"]
    /\ UNCHANGED <<table, thread, look, seen, running, faults>>

-----------------------------------------------------------------------------
(* The environment.                                                         *)

Dies(s) ==
    /\ s \in Alive /\ ~thread[s].dead /\ Fault /\ thread' = [thread EXCEPT ![s].dead = TRUE]
    /\ Idling
Late(s) == s \in Alive /\ ~thread[s].late /\ thread' = [thread EXCEPT ![s].late = TRUE] /\ Idling /\ UNCHANGED faults
Revoke == running /\ running' = FALSE /\ UNCHANGED <<table, thread, look, seen, ended, faults>>
Tick(s) ==
    /\ look = None /\ s \in table /\ ~Idle(s) /\ thread' = [thread EXCEPT ![s].idle = @ + 1]
    /\ Idling /\ UNCHANGED faults

Next ==
    \/ Take \/ SeeDone \/ Answer \/ Revoke
    \/ \E s \in Stream : \/ Start(s) \/ Dial(s) \/ Head(s) \/ Check(s) \/ Piece(s) \/ Put(s) \/ Empty(s) \/ Cut(s)
                         \/ Open(s) \/ Read(s) \/ Cancel(s) \/ Quit(s) \/ Dies(s) \/ Late(s) \/ Tick(s)

Spec == Init /\ [][Next]_vars

-----------------------------------------------------------------------------
TypeOK ==
    /\ table \subseteq Stream /\ running \in BOOLEAN /\ faults \in 0..MaxFault
    /\ \A s \in table : thread[s] # None
    /\ \A s \in Stream : thread[s] # None =>
          thread[s].got \in 0..PIECES /\ thread[s].queue \in 0..QUEUE /\ thread[s].idle \in 0..(IDLE + 1)
    /\ seen \in [Stream -> 0..PIECES]

(* An end without an error means that the controller received every piece,  *)
(* whatever the engine, the fence, a cancellation or a pause did meanwhile. *)
HonestEnd == \A s \in Stream : ended[s] = "eof" => seen[s] = PIECES

(* Workers that may still hold a connection to the engine are never more    *)
(* than the endpoint admits, also when streams are cancelled and opened in  *)
(* quick succession.                                                        *)
WorkersBounded == Cardinality(Alive) <= Concurrency

(* A worker ends, whether or not the controller ever asks again. *)
Works(s) == s \in Alive
=============================================================================
