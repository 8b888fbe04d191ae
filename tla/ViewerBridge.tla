---------------------------- MODULE ViewerBridge ----------------------------
(***************************************************************************)
(* The bridge of one remote display.  A private worker relays what its     *)
(* display daemon draws over a pipe; the controller validates it,          *)
(* gives every frame an identity of its own and sends it to the browser    *)
(* under two limits: a window of unacknowledged bytes and three            *)
(* unacknowledged frames.  The browser's task returns acknowledgements,    *)
(* and an authority task watches the clock.  The first task that ends      *)
(* closes the display.                                                     *)
(*                                                                         *)
(* Steps are what a task does between two awaits.  A tick passes only when *)
(* nothing that was due within it is left; amounts count packets.          *)
(***************************************************************************)
EXTENDS Naturals, Sequences, FiniteSets

CONSTANTS
    WINDOW,    \* packets that may await acknowledgement
    FRAMES,    \* frames that may: three in the code
    STALL,     \* seconds before unacknowledged output closes the display
    SEND,      \* seconds a send may take, in the controller and the worker
    MaxFrames, \* bound: frames the daemon draws
    MaxPackets,\* bound: packets between frames
    MaxQuiet,  \* bound: seconds without output
    None

VARIABLES
    drawn,   \* the daemon: [frames, packets, stamp]
    pipe,    \* messages from the worker, at most one
    stuck,   \* seconds the worker has waited to send its next message, or None
    todo,    \* what is left of the message being relayed
    out,     \* native_output: [pc, age]
    syncs,   \* frames that await acknowledgement: identity -> native stamp
    last,    \* Output.last_stamp
    pending, \* bytes that await acknowledgement
    shown,   \* packets the browser has and did not acknowledge
    frames,  \* frames the browser has and did not acknowledge
    in,      \* browser_input: [pc, age]
    ack,     \* seconds since last_ack
    quiet,   \* seconds with unacknowledged packets and no acknowledgement
    held,    \* seconds with anything unacknowledged
    auth,    \* [ok, ago]
    due,     \* authority has yet to run in this second
    ended    \* how the display ended, or None

daemon == <<drawn, pipe, stuck>>
output == <<todo, out, syncs, last>>
browser == <<shown, frames, in>>
clock == <<quiet, held, auth, due>>
vars == <<daemon, output, pending, browser, ack, clock, ended>>

Opened == ended = None
End(why) == Opened /\ ended' = why

Init ==
    /\ drawn = [frames |-> 0, packets |-> 0, stamp |-> 0] /\ pipe = <<>> /\ stuck = None
    /\ todo = <<>> /\ out = [pc |-> "receive", age |-> 0] /\ syncs = <<>> /\ last = 0
    /\ pending = 0 /\ shown = 0 /\ frames = {} /\ in = [pc |-> "receive", age |-> 0]
    /\ ack = 0 /\ quiet = 0 /\ held = 0 /\ auth = [ok |-> TRUE, ago |-> 0] /\ due = FALSE /\ ended = None

-----------------------------------------------------------------------------
(* The worker: it waits for room on the pipe, for a bounded time.            *)

(* The daemon draws, closes a frame or answers its provider; the stamp of a *)
(* frame can repeat.                                                        *)
Message == {<<"provider">>, <<"draw">>, <<"sync">>, <<"draw", "sync">>, <<"sync", "sync">>}

Count(m, op) == Len(SelectSeq(m, LAMBDA x : x = op))

Draw ==
    /\ Opened /\ stuck = None
    /\ \E m \in Message :
          IF pipe = <<>> THEN
              /\ drawn.frames + Count(m, "sync") <= MaxFrames
              /\ drawn.packets + Count(m, "draw") + Count(m, "provider") <= MaxPackets
              /\ drawn' = [drawn EXCEPT !.frames = @ + Count(m, "sync"),
                                        !.packets = @ + Count(m, "draw") + Count(m, "provider")]
              /\ pipe' = <<m>> /\ UNCHANGED stuck
          ELSE stuck' = 0 /\ UNCHANGED <<drawn, pipe>>
    /\ UNCHANGED <<output, pending, browser, ack, clock, ended>>

WorkerStalls ==
    /\ stuck # None /\ stuck >= SEND /\ End("closed")
    /\ UNCHANGED <<daemon, output, pending, browser, ack, clock>>

(* The worker or its provider ends, or the time limit of a display passes. *)
Exit == End("closed") /\ UNCHANGED <<daemon, output, pending, browser, ack, clock>>

-----------------------------------------------------------------------------
(* native_output.                                                           *)

(* ViewerProcess.receive, then the first packet that Output yields. *)
Receive ==
    /\ Opened /\ out.pc = "receive" /\ pipe # <<>>
    /\ pipe' = Tail(pipe) /\ stuck' = None
    /\ IF auth.ok
       THEN /\ todo' = pipe[1] /\ UNCHANGED ended
            /\ out' = [pc |-> IF pipe[1] = <<"provider">> THEN "relay" ELSE "next", age |-> 0]
       ELSE End("denied") /\ UNCHANGED <<todo, out>>
    /\ UNCHANGED <<drawn, syncs, last, pending, browser, ack, clock>>

(* provider.write() *)
Relayed ==
    /\ Opened /\ out.pc = "relay" /\ todo' = <<>> /\ out' = [pc |-> "receive", age |-> 0]
    /\ UNCHANGED <<daemon, syncs, last, pending, browser, ack, clock, ended>>

(* A frame is given an identity that no other frame has. *)
Identity(stamp) == IF stamp > last THEN stamp ELSE last + 1

(* The generator runs: Output.accept() checks and records a frame before    *)
(* its packet is yielded; then the task yields to the others.               *)
Accept ==
    /\ Opened /\ out.pc = "next" /\ todo # <<>>
    /\ IF todo[1] = "sync"
       THEN \E stamp \in {drawn.stamp, drawn.stamp + 1} :
              /\ drawn' = [drawn EXCEPT !.stamp = stamp]
              /\ IF Cardinality(DOMAIN syncs) >= FRAMES
                 THEN End("rejected") /\ UNCHANGED <<syncs, last, out>>
                 ELSE /\ last' = Identity(stamp) /\ out' = [pc |-> "window", age |-> 0] /\ UNCHANGED ended
                      /\ syncs' = [i \in DOMAIN syncs \cup {Identity(stamp)} |->
                                      IF i = Identity(stamp) THEN stamp ELSE syncs[i]]
       ELSE out' = [pc |-> "window", age |-> 0] /\ UNCHANGED <<drawn, syncs, last, ended>>
    /\ UNCHANGED <<pipe, stuck, todo, pending, browser, ack, clock>>

(* There is room in the window: the packet is counted, then sent. *)
Prepare ==
    /\ Opened /\ out.pc = "window" /\ pending < WINDOW
    /\ pending' = pending + 1 /\ ack' = (IF pending = 0 THEN 0 ELSE ack)
    /\ IF auth.ok THEN out' = [pc |-> "send", age |-> 0] /\ UNCHANGED ended
       ELSE End("denied") /\ UNCHANGED out
    /\ UNCHANGED <<daemon, todo, syncs, last, browser, clock>>

Sent ==
    /\ Opened /\ out.pc = "send" /\ shown' = shown + 1
    /\ frames' = IF todo[1] = "sync" THEN frames \cup {last} ELSE frames
    /\ todo' = Tail(todo) /\ out' = [pc |-> "frames", age |-> 0]
    /\ UNCHANGED <<daemon, syncs, last, pending, in, ack, clock, ended>>

(* Fewer than three frames await acknowledgement. *)
FramesFree == out.pc = "frames" /\ Cardinality(DOMAIN syncs) < FRAMES

Continue ==
    /\ Opened /\ FramesFree
    /\ out' = [pc |-> IF todo = <<>> THEN "receive" ELSE "next", age |-> 0]
    /\ UNCHANGED <<daemon, todo, syncs, last, pending, browser, ack, clock, ended>>

SendStalls ==
    /\ out.pc \in {"send", "relay"} /\ out.age >= SEND /\ End("error")
    /\ UNCHANGED <<daemon, output, pending, browser, ack, clock>>

-----------------------------------------------------------------------------
(* browser_input.                                                           *)

Acknowledge ==
    /\ Opened /\ in.pc = "receive" /\ shown > 0
    /\ IF auth.ok
       THEN /\ \E n \in 1..shown : pending' = pending - n /\ shown' = shown - n
            /\ ack' = 0 /\ quiet' = 0 /\ held' = 0 /\ UNCHANGED ended
       ELSE End("denied") /\ UNCHANGED <<pending, shown, ack, quiet, held>>
    /\ UNCHANGED <<daemon, output, frames, in, auth, due>>

(* The browser has rendered a frame: Output.acknowledge() turns its         *)
(* identity into the native stamp, which is sent to the worker.             *)
Rendered ==
    /\ Opened /\ in.pc = "receive"
    /\ \E f \in frames :
          /\ frames' = frames \ {f}
          /\ IF ~auth.ok THEN End("denied") /\ UNCHANGED <<syncs, in>>
             ELSE IF f \notin DOMAIN syncs THEN End("rejected") /\ UNCHANGED <<syncs, in>>
             ELSE /\ syncs' = [i \in DOMAIN syncs \ {f} |-> syncs[i]]
                  /\ in' = [pc |-> "forward", age |-> 0] /\ UNCHANGED ended
    /\ UNCHANGED <<daemon, todo, out, last, pending, shown, ack, clock>>

(* Keyboard and pointer input takes the same way. *)
Input ==
    /\ Opened /\ in.pc = "receive"
    /\ IF auth.ok THEN in' = [pc |-> "forward", age |-> 0] /\ UNCHANGED ended
       ELSE End("denied") /\ UNCHANGED in
    /\ UNCHANGED <<daemon, output, pending, shown, frames, ack, clock>>

(* ViewerProcess.send() *)
Forwarded ==
    /\ Opened /\ in.pc = "forward" /\ in' = [pc |-> "receive", age |-> 0]
    /\ UNCHANGED <<daemon, output, pending, shown, frames, ack, clock, ended>>

ForwardStalls ==
    /\ in.pc = "forward" /\ in.age >= SEND /\ End("error")
    /\ UNCHANGED <<daemon, output, pending, browser, ack, clock>>

(* The browser disconnects, or sends something that is not permitted. *)
Disconnect ==
    /\ in.pc = "receive" /\ End("detached")
    /\ UNCHANGED <<daemon, output, pending, browser, ack, clock>>

-----------------------------------------------------------------------------
(* Authority and the clock.                                                 *)

Authority ==
    /\ Opened /\ due /\ due' = FALSE
    /\ ended' = IF ~auth.ok THEN "denied"
                ELSE IF (pending > 0 \/ DOMAIN syncs # {}) /\ ack > STALL THEN "stalled" ELSE None
    /\ UNCHANGED <<daemon, output, pending, browser, ack, quiet, held, auth>>

Revoke ==
    /\ Opened /\ auth.ok /\ auth' = [auth EXCEPT !.ok = FALSE]
    /\ UNCHANGED <<daemon, output, pending, browser, ack, quiet, held, due, ended>>

(* No timeout has passed and authority has run.  Tasks that are ready to    *)
(* run do so within the second.                                             *)
NothingDue ==
    /\ Opened /\ ~due /\ ~(out.pc = "receive" /\ pipe # <<>>) /\ out.pc # "next"
    /\ ~(out.pc = "window" /\ pending < WINDOW) /\ ~FramesFree
    /\ out.pc \in {"send", "relay"} => out.age < SEND
    /\ in.pc = "forward" => in.age < SEND
    /\ stuck # None => stuck < SEND

(* A quiet display is not looked at for longer than the bound. *)
Tick ==
    /\ NothingDue /\ due' = TRUE
    /\ pending = 0 /\ DOMAIN syncs = {} => ack < MaxQuiet
    /\ out' = IF out.pc \in {"send", "relay"} THEN [out EXCEPT !.age = @ + 1] ELSE out
    /\ in' = IF in.pc = "forward" THEN [in EXCEPT !.age = @ + 1] ELSE in
    /\ stuck' = IF stuck = None THEN None ELSE stuck + 1
    /\ ack' = ack + 1
    /\ quiet' = IF pending > 0 THEN quiet + 1 ELSE 0
    /\ held' = IF pending > 0 \/ DOMAIN syncs # {} THEN held + 1 ELSE 0
    /\ auth' = IF auth.ok THEN auth ELSE [auth EXCEPT !.ago = @ + 1]
    /\ UNCHANGED <<drawn, pipe, todo, syncs, last, pending, shown, frames, ended>>

Next ==
    \/ Draw \/ WorkerStalls \/ Exit \/ Receive \/ Relayed \/ Accept \/ Prepare \/ Sent \/ Continue \/ SendStalls
    \/ Acknowledge \/ Rendered \/ Input \/ Forwarded \/ ForwardStalls \/ Disconnect
    \/ Authority \/ Revoke \/ Tick

Spec == Init /\ [][Next]_vars

-----------------------------------------------------------------------------
TypeOK ==
    /\ drawn.frames \in 0..MaxFrames /\ drawn.packets \in 0..MaxPackets /\ Len(pipe) <= 1
    /\ stuck \in 0..SEND \cup {None}
    /\ out \in [pc : {"receive", "relay", "next", "window", "send", "frames"}, age : 0..SEND]
    /\ in \in [pc : {"receive", "forward"}, age : 0..SEND]
    /\ pending \in 0..WINDOW /\ shown \in 0..pending
    /\ ended \in {None, "closed", "denied", "rejected", "error", "detached", "stalled"}

(* A display is never closed for a limit its own bridge is to keep: output  *)
(* waits before a fourth frame is accepted, and every frame that the        *)
(* browser renders is known, although native stamps repeat.                 *)
NeverRejected == ended # "rejected"

(* A browser that stops acknowledging is noticed, whatever is drawn or      *)
(* typed meanwhile.                                                         *)
StallNoticed == Opened => quiet <= STALL + 1

(* Revoked authority closes a display within a period of the authority      *)
(* task, a still one too.                                                   *)
RevokedSoon == Opened => auth.ago <= 1
=============================================================================
