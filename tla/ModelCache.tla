------------------------------ MODULE ModelCache ------------------------------
(***************************************************************************)
(* The controller's model catalogue and its verified object cache.         *)
(*                                                                         *)
(* A revision names the files of one model by digest; a file's bytes live  *)
(* below the project's cache directory as <digest>.partial until the whole *)
(* digest is verified, then as <digest>.blob.  Three kinds of writer feed  *)
(* the same files: browser and CLI uploads, one HTTPS acquisition per      *)
(* revision, and federated transfers that reconnect.  Every write runs in  *)
(* a worker thread under the cache's lock while the event loop keeps       *)
(* reading the directory without it, removing revisions and binding        *)
(* services to them.                                                       *)
(***************************************************************************)
EXTENDS Naturals, Sequences, FiniteSets

CONSTANTS
    File,       \* the file digests manifests name
    Manifest,   \* the manifests clients register: sequences of files
    Id,         \* the identities revisions may take
    Upload,     \* the upload requests in progress
    Transfer,   \* the federated transfers
    Size,       \* a file's length, in write chunks
    Reconnects, \* the reconnections one transfer attempts (MAX_RECONNECTS)
    Active,     \* the acquisitions that may run at once
    Viewed,     \* the files readers look at without the lock
    Bad,        \* the writers whose bytes may differ from the declared ones
    PowerLoss,  \* whether a crash loses what was not synchronised
    MaxCrash,   \* bound: controller crashes
    None

VARIABLES
    rec,     \* Id -> the manifest of a retained revision, or None
    spent,   \* the identities ever issued
    disk,    \* File -> what the directory shows: [part, blob]
    dur,     \* File -> what survives a power loss
    lock,    \* the writer whose thread holds the cache's lock
    thr,     \* writer -> its worker thread, or None
    dl,      \* Id -> the revision's acquisition
    tr,      \* Transfer -> the federated transfer
    bound,   \* the revisions services and workloads reference
    loop,    \* the removal that occupies the event loop, or None
    look,    \* the directory read in progress, or None
    seen,    \* File -> the largest offset acknowledged and not discarded
    crashes  \* how often the controller has crashed

store == <<rec, spent, bound>>
vars == <<rec, spent, disk, dur, lock, thr, dl, tr, bound, loop, look, seen, crashes>>

Writer == Upload \cup Id \cup Transfer
Chunk == {"good", "bad"}
Offered(w) == IF w \in Bad THEN Chunk ELSE {"good"}
Empty == [part |-> None, blob |-> None]
NoDownload == [pc |-> "idle", man |-> <<>>, idx |-> 1, pos |-> 0, off |-> 0, cancel |-> FALSE, state |-> "idle"]
NoTransfer == [pc |-> "idle", man |-> None, id |-> None, idx |-> 1, off |-> 0,
               retry |-> 0, state |-> "idle"]

Live == {i \in Id : rec[i] # None}
Named(m) == {m[k] : k \in DOMAIN m}

(* The event loop is free for other work unless a removal runs on it. *)
Free == loop = None

Init == /\ rec = [i \in Id |-> None] /\ spent = {} /\ bound = {}
        /\ disk = [f \in File |-> Empty] /\ dur = disk
        /\ lock = None /\ thr = [w \in Writer |-> None]
        /\ dl = [i \in Id |-> NoDownload] /\ tr = [t \in Transfer |-> NoTransfer]
        /\ loop = None /\ look = None
        /\ seen = [f \in File |-> 0] /\ crashes = 0

-----------------------------------------------------------------------------
(* Directory reads.                                                         *)

Complete(f) == disk[f].blob # None
Reached(d) == IF d.blob # None THEN Size ELSE IF d.part # None THEN Len(d.part) ELSE 0
Ready(i) == \A f \in Named(rec[i]) : Complete(f)

(* The looks of one status read: published, partial, published again; each *)
(* is one system call, and other threads run between them.                 *)
Passes == <<FALSE, TRUE, FALSE>>

(* A read that overlaps a moment without either file may report nothing. *)
Watch(d) == look' = IF look # None /\ d[look.f] = Empty THEN [look EXCEPT !.gone = TRUE] ELSE look

BeginLook(f) ==
    /\ look = None
    /\ look' = [f |-> f, pass |-> 1, gone |-> disk[f] = Empty, found |-> FALSE]
    /\ UNCHANGED <<store, disk, dur, lock, thr, dl, tr, loop, seen, crashes>>

Look ==
    /\ look # None /\ ~look.found /\ look.pass <= Len(Passes)
    /\ LET d == disk[look.f]
           hit == IF Passes[look.pass] THEN d.part # None ELSE d.blob # None
       IN look' = [look EXCEPT !.found = hit, !.pass = IF hit THEN @ ELSE @ + 1]
    /\ UNCHANGED <<store, disk, dur, lock, thr, dl, tr, loop, seen, crashes>>

EndLook ==
    /\ look # None /\ (look.found \/ look.pass > Len(Passes))
    /\ look' = None
    /\ UNCHANGED <<store, disk, dur, lock, thr, dl, tr, loop, seen, crashes>>

-----------------------------------------------------------------------------
(* Cache.write: one worker thread from its call to its answer.              *)

(* The range check comes before the lock. *)
Call(w, f, off, data) ==
    LET refused == IF data = None THEN off # Size ELSE off + 1 > Size
    IN thr' = [thr EXCEPT ![w] = [f |-> f, off |-> off, data |-> data,
                                  pc |-> IF refused THEN "done" ELSE "wait",
                                  out |-> IF refused THEN "range" ELSE "-", res |-> 0]]

Answer(w, out, d) ==
    /\ thr' = [thr EXCEPT ![w].pc = "done", ![w].out = out, ![w].res = Reached(d)]
    /\ lock' = None

Acknowledge(f, d) == seen' = [seen EXCEPT ![f] = IF Reached(d) > @ THEN Reached(d) ELSE @]

Step(w, pc) == thr[w] # None /\ thr[w].pc = pc

(* The lock is taken; a published file, another offset, a full volume, the *)
(* empty final chunk and the write of the bytes are told apart.            *)
Enter(w) ==
    /\ Step(w, "wait") /\ lock = None
    /\ LET t == thr[w]
           f == t.f
       IN \/ /\ Complete(f)
             /\ Answer(w, "ok", disk[f]) /\ Acknowledge(f, disk[f]) /\ UNCHANGED disk
          \/ /\ ~Complete(f) /\ Reached(disk[f]) # t.off
             /\ Answer(w, "offset", disk[f]) /\ UNCHANGED <<disk, seen>>
          \/ /\ ~Complete(f) /\ Reached(disk[f]) = t.off /\ t.data = None
             /\ lock' = w /\ thr' = [thr EXCEPT ![w].pc = "verify"] /\ UNCHANGED <<disk, seen>>
          \/ /\ ~Complete(f) /\ Reached(disk[f]) = t.off /\ t.data # None
             /\ lock' = w /\ thr' = [thr EXCEPT ![w].pc = "written"]
             /\ disk' = [disk EXCEPT ![f].part = Append(IF @ = None THEN <<>> ELSE @, t.data)]
             /\ UNCHANGED seen
    /\ UNCHANGED <<store, dur, dl, tr, loop, look, crashes>>

(* The volume lacks room for the rest of the file. *)
Full(w) ==
    /\ Step(w, "wait") /\ lock = None /\ thr[w].data # None
    /\ ~Complete(thr[w].f) /\ Reached(disk[thr[w].f]) = thr[w].off
    /\ Answer(w, "capacity", disk[thr[w].f])
    /\ UNCHANGED <<store, disk, dur, dl, tr, loop, look, seen, crashes>>

(* fsync of the partial file; the last chunk goes on to verification. *)
Sync(w) ==
    /\ Step(w, "written")
    /\ LET f == thr[w].f
       IN /\ dur' = [dur EXCEPT ![f] = disk[f]]
          /\ IF Reached(disk[f]) = Size
             THEN thr' = [thr EXCEPT ![w].pc = "verify"] /\ UNCHANGED <<lock, seen>>
             ELSE Answer(w, "ok", disk[f]) /\ Acknowledge(f, disk[f])
    /\ UNCHANGED <<store, disk, dl, tr, loop, look, crashes>>

(* The whole digest is computed; a mismatch discards the partial object. *)
Verify(w) ==
    /\ Step(w, "verify")
    /\ LET f == thr[w].f
       IN IF \A k \in DOMAIN disk[f].part : disk[f].part[k] = "good"
          THEN thr' = [thr EXCEPT ![w].pc = "publish"] /\ UNCHANGED <<disk, lock, seen, look>>
          ELSE /\ disk' = [disk EXCEPT ![f].part = None] /\ seen' = [seen EXCEPT ![f] = 0]
               /\ Answer(w, "digest", Empty) /\ Watch(disk')
    /\ UNCHANGED <<store, dur, dl, tr, loop, crashes>>

(* Publication is one rename, then the directory is synchronised. *)
Publish(w) ==
    /\ Step(w, "publish")
    /\ disk' = [disk EXCEPT ![thr[w].f] = [part |-> None, blob |-> disk[thr[w].f].part]]
    /\ thr' = [thr EXCEPT ![w].pc = "renamed"]
    /\ UNCHANGED <<store, dur, lock, dl, tr, loop, look, seen, crashes>>

Published(w) ==
    /\ Step(w, "renamed")
    /\ LET f == thr[w].f
       IN /\ dur' = [dur EXCEPT ![f] = disk[f]]
          /\ Answer(w, "ok", disk[f]) /\ Acknowledge(f, disk[f])
    /\ UNCHANGED <<store, disk, dl, tr, loop, look, crashes>>

-----------------------------------------------------------------------------
(* The catalogue.                                                           *)

(* Registering a manifest answers with the revision that already has it. *)
Registered(m, i) ==
    IF \E j \in Live : rec[j] = m
    THEN i \in Live /\ rec[i] = m /\ UNCHANGED <<rec, spent>>
    ELSE i \notin spent /\ rec' = [rec EXCEPT ![i] = m] /\ spent' = spent \cup {i}

Create(m, i) ==
    /\ Free /\ ~\E j \in Live : rec[j] = m
    /\ Registered(m, i)
    /\ UNCHANGED <<disk, dur, lock, thr, dl, tr, bound, loop, look, seen, crashes>>

Bind(i) ==
    /\ Free /\ i \in Live \ bound /\ Ready(i)
    /\ bound' = bound \cup {i}
    /\ UNCHANGED <<rec, spent, disk, dur, lock, thr, dl, tr, loop, look, seen, crashes>>

(* The referencing services and workloads are removed. *)
Unbind(i) ==
    /\ Free /\ i \in bound
    /\ bound' = bound \ {i}
    /\ UNCHANGED <<rec, spent, disk, dur, lock, thr, dl, tr, loop, look, seen, crashes>>

Running(i) == dl[i].pc \notin {"idle", "ended"}

\* Mutant: the files of the project's other revisions are evicted too.
RemoveShared(i, evict) ==
    /\ Free /\ i \in Live \ bound /\ ~Running(i)
    /\ IF evict
       THEN loop' = [id |-> i, idx |-> 1, keep |-> {}] /\ UNCHANGED rec
       ELSE rec' = [rec EXCEPT ![i] = None] /\ UNCHANGED loop
    /\ UNCHANGED <<spent, disk, dur, lock, thr, dl, tr, bound, look, seen, crashes>>

(* A revision is removed once nothing references it and its acquisition    *)
(* has ended; the files of other revisions are kept.                        *)
Remove(i, evict) ==
    /\ Free /\ i \in Live \ bound /\ ~Running(i)
    /\ IF evict
       THEN /\ loop' = [id |-> i, idx |-> 1,
                        keep |-> UNION {Named(rec[j]) : j \in Live \ {i}}]
            /\ UNCHANGED rec
       ELSE rec' = [rec EXCEPT ![i] = None] /\ UNCHANGED loop
    /\ UNCHANGED <<spent, disk, dur, lock, thr, dl, tr, bound, look, seen, crashes>>

(* One file of the loop: a held lock refuses the rest of the removal. *)
Evict ==
    /\ loop # None /\ loop.idx <= Len(rec[loop.id])
    /\ LET f == rec[loop.id][loop.idx]
       IN IF f \in loop.keep
          THEN loop' = [loop EXCEPT !.idx = @ + 1] /\ UNCHANGED <<disk, seen, look>>
          ELSE IF lock # None
          THEN loop' = None /\ UNCHANGED <<disk, seen, look>>
          ELSE /\ disk' = [disk EXCEPT ![f] = Empty] /\ seen' = [seen EXCEPT ![f] = 0]
               /\ loop' = [loop EXCEPT !.idx = @ + 1] /\ Watch(disk')
    /\ UNCHANGED <<store, dur, lock, thr, dl, tr, crashes>>

Removed ==
    /\ loop # None /\ loop.idx > Len(rec[loop.id])
    /\ rec' = [rec EXCEPT ![loop.id] = None] /\ loop' = None
    /\ UNCHANGED <<spent, disk, dur, lock, thr, dl, tr, bound, look, seen, crashes>>

-----------------------------------------------------------------------------
(* Uploads: the revision is checked, the body awaited, the chunk written.   *)

Send(u) ==
    /\ Free /\ thr[u] = None
    /\ \E i \in Live, off \in 0..Size, data \in Offered(u) \cup {None} :
          \E f \in Named(rec[i]) : Call(u, f, off, data)
    /\ UNCHANGED <<store, disk, dur, lock, dl, tr, loop, look, seen, crashes>>

Sent(u) ==
    /\ Free /\ Step(u, "done")
    /\ thr' = [thr EXCEPT ![u] = None]
    /\ UNCHANGED <<store, disk, dur, lock, dl, tr, loop, look, seen, crashes>>

-----------------------------------------------------------------------------
(* HTTPS acquisition.                                                       *)

DownloadEnds(i, state) == dl' = [dl EXCEPT ![i].pc = "ended", ![i].state = state, ![i].cancel = FALSE]

Start(i) ==
    /\ Free /\ i \in Live /\ ~Running(i)
    /\ Cardinality({j \in Id : Running(j)}) < Active
    /\ dl' = [dl EXCEPT ![i] = [NoDownload EXCEPT !.pc = "next", !.man = rec[i],
                                           !.state = "downloading"]]
    /\ UNCHANGED <<store, disk, dur, lock, thr, tr, loop, look, seen, crashes>>

(* The next file: published, retained whole, or asked of the source from    *)
(* its durable offset.                                                      *)
NextFile(i) ==
    /\ Free /\ dl[i].pc = "next" /\ ~dl[i].cancel
    /\ LET f == dl[i].man[dl[i].idx]
       IN \/ /\ dl[i].idx > Len(dl[i].man)
             /\ DownloadEnds(i, "complete") /\ UNCHANGED thr
          \/ /\ dl[i].idx <= Len(dl[i].man) /\ Complete(f)
             /\ dl' = [dl EXCEPT ![i].idx = @ + 1] /\ UNCHANGED thr
          \/ /\ dl[i].idx <= Len(dl[i].man) /\ ~Complete(f) /\ Reached(disk[f]) = Size
             /\ Call(i, f, Size, None) /\ dl' = [dl EXCEPT ![i].pc = "write"]
          \/ /\ dl[i].idx <= Len(dl[i].man) /\ ~Complete(f) /\ Reached(disk[f]) < Size
             /\ dl' = [dl EXCEPT ![i].pc = "stream", ![i].pos = Reached(disk[f]),
                                 ![i].off = Reached(disk[f])]
             /\ UNCHANGED thr
    /\ UNCHANGED <<store, disk, dur, lock, tr, loop, look, seen, crashes>>

(* A chunk of the body is written at the offset the last receipt gave. *)
Receive(i) ==
    /\ Free /\ dl[i].pc = "stream" /\ ~dl[i].cancel /\ dl[i].pos < Size
    /\ \E data \in Offered(i) : Call(i, dl[i].man[dl[i].idx], dl[i].off, data)
    /\ dl' = [dl EXCEPT ![i].pc = "write", ![i].pos = @ + 1]
    /\ UNCHANGED <<store, disk, dur, lock, tr, loop, look, seen, crashes>>

(* The write's answer; a cancellation waited for the thread to finish. *)
Received(i) ==
    /\ Free /\ dl[i].pc = "write" /\ Step(i, "done")
    /\ thr' = [thr EXCEPT ![i] = None]
    /\ IF dl[i].cancel THEN DownloadEnds(i, "paused")
       ELSE IF thr[i].out # "ok" THEN DownloadEnds(i, thr[i].out)
       ELSE dl' = [dl EXCEPT ![i].off = thr[i].res,
                             ![i].pc = IF thr[i].data = None THEN "next" ELSE "stream",
                             ![i].idx = IF thr[i].data = None THEN @ + 1 ELSE @]
    /\ UNCHANGED <<store, disk, dur, lock, tr, loop, look, seen, crashes>>

(* The body ends, early or not. *)
BodyEnds(i) ==
    /\ Free /\ dl[i].pc = "stream" /\ ~dl[i].cancel
    /\ IF dl[i].off = Size
       THEN dl[i].pos = Size /\ dl' = [dl EXCEPT ![i].pc = "next", ![i].idx = @ + 1]
       ELSE DownloadEnds(i, "incomplete")
    /\ UNCHANGED <<store, disk, dur, lock, thr, tr, loop, look, seen, crashes>>

(* The source is missing, not allowed, redirects too often or fails. *)
SourceFails(i) ==
    /\ Free /\ dl[i].pc = "stream" /\ ~dl[i].cancel
    /\ DownloadEnds(i, "download_failed")
    /\ UNCHANGED <<store, disk, dur, lock, thr, tr, loop, look, seen, crashes>>

Pause(i) ==
    /\ Free /\ Running(i) /\ ~dl[i].cancel
    /\ dl' = [dl EXCEPT ![i].cancel = TRUE]
    /\ UNCHANGED <<store, disk, dur, lock, thr, tr, loop, look, seen, crashes>>

Paused(i) ==
    /\ Free /\ dl[i].cancel /\ thr[i] = None
    /\ DownloadEnds(i, "paused")
    /\ UNCHANGED <<store, disk, dur, lock, thr, tr, loop, look, seen, crashes>>

-----------------------------------------------------------------------------
(* Federated transfers.                                                     *)

TransferEnds(t, state) == tr' = [tr EXCEPT ![t].pc = "ended", ![t].state = state]

Begin(t) ==
    /\ Free /\ tr[t].pc \in {"idle", "ended"}
    /\ tr' = [tr EXCEPT ![t] = [NoTransfer EXCEPT !.pc = "manifest", !.state = "connecting"]]
    /\ UNCHANGED <<store, disk, dur, lock, thr, dl, loop, look, seen, crashes>>

(* The peer's manifest is registered again on every reconnection. *)
Metadata(t, m) ==
    /\ Free /\ tr[t].pc = "manifest"
    /\ IF tr[t].man \notin {None, m}
       THEN TransferEnds(t, "interrupted") /\ UNCHANGED <<rec, spent>>
       ELSE \E i \in Id : /\ Registered(m, i)
                          /\ tr' = [tr EXCEPT ![t].man = m, ![t].id = i, ![t].pc = "file", ![t].idx = 1]
    /\ UNCHANGED <<disk, dur, lock, thr, dl, bound, loop, look, seen, crashes>>

Fetch(t) ==
    /\ Free /\ tr[t].pc = "file"
    /\ LET m == tr[t].man
           f == m[tr[t].idx]
       IN \/ /\ tr[t].idx > Len(m)
             /\ TransferEnds(t, "complete") /\ UNCHANGED thr
          \/ /\ tr[t].idx <= Len(m) /\ Complete(f)
             /\ tr' = [tr EXCEPT ![t].idx = @ + 1] /\ UNCHANGED thr
          \/ /\ tr[t].idx <= Len(m) /\ ~Complete(f) /\ tr[t].id \notin Live
             /\ TransferEnds(t, "interrupted") /\ UNCHANGED thr
          \/ /\ tr[t].idx <= Len(m) /\ ~Complete(f) /\ tr[t].id \in Live
             /\ IF Reached(disk[f]) = Size
                THEN Call(t, f, Size, None) /\ tr' = [tr EXCEPT ![t].pc = "write", ![t].off = Size]
                ELSE tr' = [tr EXCEPT ![t].pc = "range", ![t].off = Reached(disk[f])] /\ UNCHANGED thr
    /\ UNCHANGED <<store, disk, dur, lock, dl, loop, look, seen, crashes>>

(* A chunk of the range; the revision must still be retained. *)
RangeData(t) ==
    /\ Free /\ tr[t].pc = "range"
    /\ IF tr[t].id \notin Live
       THEN TransferEnds(t, "interrupted") /\ UNCHANGED thr
       ELSE /\ \E data \in Offered(t) : Call(t, tr[t].man[tr[t].idx], tr[t].off, data)
            /\ tr' = [tr EXCEPT ![t].pc = "write"]
    /\ UNCHANGED <<store, disk, dur, lock, dl, loop, look, seen, crashes>>

(* The transfer keeps its own durable offset. *)
RangeWritten(t) ==
    /\ Free /\ tr[t].pc = "write" /\ Step(t, "done")
    /\ thr' = [thr EXCEPT ![t] = None]
    /\ IF thr[t].out # "ok" THEN TransferEnds(t, "interrupted")
       ELSE tr' = [tr EXCEPT ![t].off = IF thr[t].data = None THEN @ ELSE @ + 1, ![t].state = "transferring",
                             ![t].pc = IF thr[t].data = None \/ tr[t].off + 1 = Size THEN "file" ELSE "range"]
    /\ UNCHANGED <<store, disk, dur, lock, dl, loop, look, seen, crashes>>

(* The session breaks: a bounded number of reconnections follows. *)
Disconnect(t) ==
    /\ Free /\ tr[t].pc \in {"manifest", "range"}
    /\ IF tr[t].retry < Reconnects
       THEN tr' = [tr EXCEPT ![t].pc = "manifest", ![t].retry = @ + 1, ![t].state = "reconnecting"]
       ELSE TransferEnds(t, "interrupted")
    /\ UNCHANGED <<store, disk, dur, lock, thr, dl, loop, look, seen, crashes>>

(* A pause cancels the transfer; a write in its thread is waited for first. *)
Halt(t) ==
    /\ Free /\ tr[t].pc \notin {"idle", "ended"} /\ (thr[t] = None \/ Step(t, "done"))
    /\ TransferEnds(t, "paused") /\ thr' = [thr EXCEPT ![t] = None]
    /\ UNCHANGED <<store, disk, dur, lock, dl, loop, look, seen, crashes>>

-----------------------------------------------------------------------------
(* The controller stops; a power loss may also lose unsynchronised changes. *)
Crash ==
    /\ crashes < MaxCrash
    /\ crashes' = crashes + 1
    /\ IF PowerLoss
       THEN \E lost \in SUBSET File :
               disk' = [f \in File |-> IF f \in lost THEN dur[f] ELSE disk[f]]
       ELSE UNCHANGED disk
    /\ dur' = disk'
    /\ lock' = None /\ thr' = [w \in Writer |-> None]
    /\ dl' = [i \in Id |-> NoDownload] /\ tr' = [t \in Transfer |-> NoTransfer]
    /\ loop' = None /\ look' = None
    /\ UNCHANGED <<store, seen>>

Thread(w) == Enter(w) \/ Full(w) \/ Sync(w) \/ Verify(w) \/ Publish(w) \/ Published(w)
Acquisition(i) == \/ NextFile(i) \/ Receive(i) \/ Received(i) \/ BodyEnds(i) \/ SourceFails(i)
                  \/ Pause(i) \/ Paused(i)
Federated(t) == \/ Begin(t) \/ Fetch(t) \/ RangeData(t) \/ RangeWritten(t) \/ Disconnect(t) \/ Halt(t)
                \/ \E m \in Manifest : Metadata(t, m)

Next == \/ \E w \in Writer : Thread(w)
        \/ \E f \in Viewed : BeginLook(f)
        \/ Look \/ EndLook \/ Evict \/ Removed \/ Crash
        \/ \E m \in Manifest, i \in Id : Create(m, i)
        \/ \E i \in Id : Bind(i) \/ Unbind(i) \/ Start(i) \/ Acquisition(i)
        \/ \E i \in Id, evict \in BOOLEAN : Remove(i, evict)
        \/ \E u \in Upload : Send(u) \/ Sent(u)
        \/ \E t \in Transfer : Federated(t)

Spec == Init /\ [][Next]_vars

-----------------------------------------------------------------------------
Bytes == {None} \cup UNION {[1..n -> Chunk] : n \in 0..Size}

(* Every variable has the shape the code gives it. *)
TypeOK ==
    /\ rec \in [Id -> Manifest \cup {None}] /\ spent \subseteq Id /\ bound \subseteq Id
    /\ disk \in [File -> [part : Bytes, blob : Bytes]] /\ dur \in [File -> [part : Bytes, blob : Bytes]]
    /\ lock \in Writer \cup {None}
    /\ \A w \in Writer : thr[w] = None \/ thr[w].pc \in {"wait", "written", "verify", "publish", "renamed", "done"}
    /\ \A i \in Id : dl[i].pc \in {"idle", "next", "stream", "write", "ended"} /\ dl[i].off \in 0..Size
    /\ \A t \in Transfer : tr[t].pc \in {"idle", "manifest", "file", "range", "write", "ended"}
    /\ seen \in [File -> 0..Size] /\ crashes \in 0..MaxCrash

(* Whatever writers mix their chunks, restart or crash between two steps, a *)
(* published object is exactly the declared bytes (Cache.publish).           *)
PublishedVerified ==
    \A f \in File : \A d \in {disk[f].blob, dur[f].blob} \ {None} : d = [k \in 1..Size |-> "good"]

(* Every acknowledged offset is durable: until the object is discarded or    *)
(* evicted, what was acknowledged survives a crash or a power loss            *)
(* (Cache.write synchronises before it answers).                             *)
AcknowledgedDurable == \A f \in File : seen[f] <= Reached(dur[f])

(* A service bound to a revision keeps every file of it, whatever other      *)
(* revisions are removed with their files (Models.remove, Models.bind).      *)
BoundComplete == \A i \in bound : i \in Live /\ Ready(i)

(* A reader that takes no lock reports a missing object only if the object   *)
(* was missing at some moment of the read, publication by rename included    *)
(* (Cache.status).                                                           *)
MissingWasMissing == look # None /\ ~look.found /\ look.pass > Len(Passes) => look.gone

(* An acquisition that reports completion leaves every file of the revision  *)
(* published, whatever was removed while it ran (sources.acquire).           *)
AcquiredReady ==
    \A i \in Id : dl[i].state = "downloading" /\ dl'[i].state = "complete"
                   => \A f \in Named(dl[i].man) : Complete(f)
=============================================================================
