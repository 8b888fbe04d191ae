----------------------------- MODULE Transfers -----------------------------
(* One file of a transfer: the controller's item and whoever holds its lock *)
(* (transfers.py, transfer_work.py) against the destination's receipt, its  *)
(* private stage and the published name (node/file_transfer.py).  The       *)
(* source may change at any time, another program may take the destination, *)
(* requests are lost or executed late, and both sides may stop half way.    *)
EXTENDS Naturals, FiniteSets

CONSTANTS Kinds, N, Versions, None, MaxLate

TransfersAssumption ==
  /\ Kinds \subseteq {"copy", "download", "upload", "legacy"}
  /\ N \in Nat \ {0} /\ MaxLate \in Nat /\ None \notin Versions

VARIABLES
  kind, expected,  \* the confirmed preview: what, and what it may replace
  src,             \* version of the source now
  item,            \* the controller's row
  client,          \* the task or request that holds the item's lock, or None
  calls,           \* requests to the destination, or given up and still to run
  rec,             \* the destination's receipt, or None
  data, journal,   \* staged chunks and their digests
  box,             \* which object the stage holds
  dest, pub,       \* which object has the destination's name; what was published
  busy             \* a commit between its saved intent and its rename, or None

front == <<kind, expected>>
node == <<rec, data, journal, box, dest, pub, busy>>
vars == <<front, src, item, client, calls, node>>

Chunk == 1..N
Whole(v) == [i \in Chunk |-> v]
Content == [Chunk -> Versions \cup {None}]
Uploaded == kind \in {"upload", "legacy"}
Done == {"succeeded", "cancelled"}

(* The digest the preview bound the transfer to; a legacy upload has none.  *)
(* The versions of a source are interchangeable.                            *)
First == CHOOSE v \in Versions : TRUE
source_manifest == IF kind = "legacy" THEN None ELSE Whole(First)

Init ==
  /\ kind \in Kinds /\ expected \in (IF kind = "download" THEN {"none"} ELSE {"none", "old"}) /\ dest = expected
  /\ src = First
  /\ item = [state |-> "queued", offset |-> 0, sha |-> None, moved |-> FALSE, replay |-> 0, until |-> 0, cleanup |-> FALSE]
  /\ client = None /\ calls = {} /\ rec = None /\ box = "none" /\ pub = Whole(None) /\ busy = None
  /\ data = Whole(None) /\ journal = Whole(None)

-----------------------------------------------------------------------------
(* The controller: one flow at a time, one outstanding call *)

Ask(flow, act, arg) ==
  /\ client' = [flow |-> flow, act |-> act, reply |-> None]
  /\ calls' = calls \cup {[act |-> act, arg |-> arg, late |-> FALSE]}

Leave(row) == client' = None /\ item' = row /\ UNCHANGED calls
Idle == client = None

(* The except clauses of run and finish; other requests leave the row. *)
Broken(flow, code) ==
  IF flow \notin {"run", "finish"} THEN item
  ELSE [item EXCEPT !.state = IF @ = "committing" THEN "unknown" ELSE "interrupted", !.moved = code = "destination_changed"]

(* transfer_work.run begins for a copy, when submitted or resumed. *)
run ==
  /\ Idle /\ ~Uploaded /\ item.state = "queued"
  /\ item' = [item EXCEPT !.state = "running", !.sha = source_manifest]
  /\ Ask("run", "begin", TRUE)
  /\ UNCHANGED <<front, src, node>>

upload ==
  /\ Idle /\ Uploaded /\ item.state \in {"queued", "running"}
  /\ Ask("upload", "begin", TRUE) /\ UNCHANGED <<front, src, item, node>>

finish ==
  /\ Idle /\ Uploaded /\ item.state \in {"queued", "running"} /\ item.replay >= item.until
  /\ Ask("finish", "begin", TRUE) /\ UNCHANGED <<front, src, item, node>>

(* change(resume): an uncertain commit is reconciled first. *)
Resumable(row) == ~(kind = "legacy" /\ row.offset > 0)
resume ==
  /\ Idle /\ item.state \notin Done
  /\ item.state = "unknown" \/ Resumable(item)
  /\ IF item.state = "unknown" THEN Ask("resume", "status", None) ELSE Ask("resume", "begin", TRUE)
  /\ UNCHANGED <<front, src, item, node>>

(* change(cancel), with or without discarding what was received. *)
cancel(drop) ==
  /\ Idle /\ item.state # "unknown" /\ item.state # "cancelled"
  /\ item.state = "succeeded" => drop /\ (kind = "download" \/ item.cleanup)
  /\ Ask(IF drop THEN "discard" ELSE "cancel", IF item.state = "succeeded" THEN "cancel" ELSE "begin",
         item.state = "succeeded")
  /\ UNCHANGED <<front, src, item, node>>

(* The loop of run: another chunk, or the source once more and the commit. *)
Relay(row) ==
  IF row.offset < N
  THEN item' = row /\ Ask("run", "write", [i |-> row.offset + 1, v |-> src])
  ELSE IF Whole(src) # row.sha THEN Leave(Broken("run", "source_changed"))
  ELSE item' = [row EXCEPT !.state = "committing"] /\ Ask("run", "commit", row.sha)

succeed(r) == Leave([item EXCEPT !.state = "succeeded", !.offset = r.offset, !.sha = r.sha, !.cleanup = r.cleanup])

Resumed(r) ==
  IF kind = "legacy" /\ r.offset > 0 THEN Leave([item EXCEPT !.state = "interrupted", !.offset = r.offset])
  ELSE LET row == [item EXCEPT !.state = "running", !.offset = r.offset, !.moved = FALSE] IN
       IF Uploaded THEN Leave([row EXCEPT !.replay = 0, !.until = r.offset]) ELSE Leave([row EXCEPT !.state = "queued"])

Prefix(r) == \A i \in 1..r.offset : r.prefix[i] = src

(* What the flow does with the answer to its call. *)
Receive ==
  LET c == client  r == c.reply IN
  /\ c # None /\ c.reply # None
  /\ IF r.state = "refused" THEN Leave(Broken(c.flow, r.code))
     ELSE CASE c.flow = "run" /\ c.act = "begin" ->
                 IF r.state = "succeeded" THEN succeed(r)
                 ELSE IF Whole(src) # item.sha THEN Leave(Broken("run", "source_changed"))
                 ELSE Ask("run", "resume", None) /\ UNCHANGED item
            [] c.flow = "run" /\ c.act = "resume" ->
                 IF Prefix(r) THEN Relay([item EXCEPT !.offset = r.offset]) ELSE Leave(Broken("run", "source_changed"))
            [] c.flow = "run" /\ c.act = "write" -> Relay([item EXCEPT !.offset = r.offset])
            [] c.act = "commit" /\ c.flow # "resume" ->
                 IF r.sha = item.sha THEN succeed(r) ELSE Leave(Broken(c.flow, "invalid"))
            [] c.flow = "upload" /\ c.act = "begin" -> UNCHANGED item /\ \E i \in Chunk, v \in Versions :
                 /\ item.replay < item.until => i <= item.replay + 1
                 /\ Ask("upload", "write", [i |-> i, v |-> v])
            [] c.flow = "upload" /\ c.act = "write" ->
                 Leave([item EXCEPT !.offset = r.offset, !.state = "running",
                        !.replay = IF @ < item.until /\ r.i = @ + 1 THEN @ + 1 ELSE @])
            [] c.flow = "finish" /\ c.act = "begin" -> Ask("finish", "verify", None) /\ UNCHANGED item
            [] c.flow = "finish" /\ c.act = "verify" ->
                 IF r.offset < N THEN Leave(item)
                 ELSE /\ item' = [item EXCEPT !.state = "committing", !.sha = r.prefix, !.offset = N]
                      /\ Ask("finish", "commit", r.prefix)
            [] c.flow = "resume" /\ c.act = "status" ->
                 IF r.state = "committing" THEN Ask("resume", "commit", item.sha) /\ UNCHANGED item
                 ELSE IF r.state = "succeeded" THEN succeed(r)
                 ELSE IF r.state # "running" THEN Leave(item)
                 ELSE IF item.moved THEN Leave([item EXCEPT !.state = "interrupted"])
                 ELSE IF Resumable(item) THEN Ask("resume", "begin", TRUE) /\ UNCHANGED item
                 ELSE Leave(item)
            [] c.flow = "resume" /\ c.act = "commit" -> succeed(r)
            [] c.flow = "resume" /\ c.act = "begin" -> Ask("resume", "resume", None) /\ UNCHANGED item
            [] c.flow = "resume" /\ c.act = "resume" -> Resumed(r)
            [] c.flow \in {"cancel", "discard"} /\ c.act = "begin" -> Ask(c.flow, "cancel", c.flow = "discard") /\ UNCHANGED item
            [] OTHER -> Leave([item EXCEPT !.state = r.state, !.offset = r.offset, !.moved = FALSE, !.cleanup = r.cleanup])
  /\ UNCHANGED <<front, src, node>>

(* The call fails, a check denies it, or a cancellation stops the task: the *)
(* request is gone, or will still be executed.                              *)
Abandon ==
  LET mine == {m \in calls : ~m.late}
      room == Cardinality({m \in calls : m.late}) < MaxLate
  IN calls' \in {calls \ mine} \cup IF room THEN {(calls \ mine) \cup {[m EXCEPT !.late = TRUE] : m \in mine}} ELSE {}

Interrupt ==
  /\ client # None
  /\ client' = None /\ item' = Broken(client.flow, "interrupted") /\ Abandon
  /\ busy' = IF busy = None THEN None ELSE [busy EXCEPT !.late = TRUE]
  /\ UNCHANGED <<front, src, rec, data, journal, box, dest, pub>>

(* The controller restarts; poll settles what was left in motion. *)
poll ==
  /\ client # None
  /\ client' = None /\ Abandon
  /\ item' = [item EXCEPT !.state = IF @ = "committing" THEN "unknown" ELSE IF @ \in {"running", "queued"} THEN "interrupted" ELSE @]
  /\ busy' = IF busy = None THEN None ELSE [busy EXCEPT !.late = TRUE]
  /\ UNCHANGED <<front, src, rec, data, journal, box, dest, pub>>

-----------------------------------------------------------------------------
(* The destination, one request at a time under its namespace lock *)

Answer(m, r, more) ==
  client' = IF m.late \/ client = None THEN client
            ELSE [client EXCEPT !.reply = [state |-> r.state, offset |-> r.offset, sha |-> r.sha, cleanup |-> r.cleanup,
                                           prefix |-> data, i |-> more, code |-> None]]
Refuse(m, code) ==
  /\ client' = IF m.late \/ client = None THEN client
               ELSE [client EXCEPT !.reply = [state |-> "refused", offset |-> 0, sha |-> None, cleanup |-> FALSE,
                                              prefix |-> data, i |-> 0, code |-> code]]
  /\ UNCHANGED <<rec, data, journal, box, dest, pub>>

(* The helper stops before it answers. *)
Silent == UNCHANGED client

Serve(m, act) == m \in calls /\ m.act = act /\ busy = None /\ calls' = calls \ {m}

NeedsPrepare == ~rec.prepared /\ rec.state \notin Done \cup {"discarding"}
prepare(r) ==
  IF r.prepared \/ r.state \in Done \cup {"discarding"} THEN rec' = r /\ UNCHANGED <<data, journal, box>>
  ELSE /\ rec' = [r EXCEPT !.state = "running", !.prepared = TRUE]
       /\ data' = Whole(None) /\ journal' = Whole(None) /\ box' = "ours"

begin(m) ==
  LET new == [state |-> "preparing", offset |-> 0, prepared |-> FALSE, sha |-> None, cleanup |-> FALSE] IN
  /\ Serve(m, "begin")
  /\ IF rec = None /\ dest # expected THEN Refuse(m, "destination_changed")
     ELSE /\ \/ prepare(IF rec = None THEN new ELSE rec) /\ m.arg /\ Answer(m, rec', 0)
             \/ ~m.arg /\ rec' = (IF rec = None THEN new ELSE rec) /\ Answer(m, rec', 0) /\ UNCHANGED <<data, journal, box>>
             \/ rec = None /\ rec' = new /\ Silent /\ UNCHANGED <<data, journal, box>>
          /\ UNCHANGED <<dest, pub>>
  /\ UNCHANGED <<front, src, item, busy>>

(* A chunk is synced, then its digest, then the offset is saved. *)
Append(m) ==
  LET i == m.arg.i  v == m.arg.v IN
  /\ rec.state = "running" /\ i = rec.offset + 1
  /\ data' = [data EXCEPT ![i] = v]
  /\ \/ journal' = [journal EXCEPT ![i] = v] /\ rec' = [rec EXCEPT !.offset = i] /\ Answer(m, rec', i)
     \/ journal' \in {journal, [journal EXCEPT ![i] = v]} /\ rec' = rec /\ Silent

write_chunk(m) ==
  LET i == m.arg.i  v == m.arg.v IN
  /\ Serve(m, "write")
  /\ IF rec = None \/ i > rec.offset + 1 \/ rec.state # "running" THEN Refuse(m, "transfer_state")
     ELSE IF i <= rec.offset
     THEN IF data[i] = v /\ journal[i] = v THEN Answer(m, rec, i) /\ UNCHANGED <<rec, data, journal, box, dest, pub>>
          ELSE Refuse(m, "source_changed")
     ELSE Append(m) /\ UNCHANGED <<box, dest, pub>>
  /\ UNCHANGED <<front, src, item, busy>>

(* verify_prefix: accepted chunks match their digests, a whole file its manifest. *)
Verified ==
  /\ \A i \in 1..rec.offset : data[i] = journal[i] /\ data[i] # None
  /\ rec.offset = N /\ source_manifest # None => data = source_manifest

Resume(m) ==
  /\ Serve(m, "resume")
  /\ IF rec = None THEN Refuse(m, "transfer_missing")
     ELSE IF NeedsPrepare THEN prepare(rec) /\ Answer(m, rec', 0) /\ UNCHANGED <<dest, pub>>
     ELSE IF rec.state \notin {"running", "interrupted"} \/ ~Verified THEN Refuse(m, "transfer_state")
     ELSE /\ rec' = [rec EXCEPT !.state = "running"] /\ Answer(m, rec', 0)
          /\ UNCHANGED <<data, journal, box, dest, pub>>
  /\ UNCHANGED <<front, src, item, busy>>

(* transfer.status, and transfer.verify, which reads the staged prefix. *)
Read(m) ==
  /\ m.act \in {"status", "verify"} /\ Serve(m, m.act)
  /\ IF rec = None \/ (m.act = "verify" /\ (box # "ours" \/ ~Verified)) THEN Refuse(m, "unavailable")
     ELSE Answer(m, rec, 0) /\ UNCHANGED <<rec, data, journal, box, dest, pub>>
  /\ UNCHANGED <<front, src, item, busy>>

(* The first half of a commit saves its intent. *)
commit(m) ==
  /\ Serve(m, "commit")
  /\ IF rec # None /\ rec.state = "succeeded" THEN Answer(m, rec, 0) /\ UNCHANGED <<rec, busy>>
     ELSE IF rec = None \/ rec.offset # N \/ rec.state \notin {"running", "committing"} THEN Refuse(m, "incomplete_transfer") /\ UNCHANGED busy
     ELSE IF rec.state = "committing" THEN busy' = [m EXCEPT !.act = "confirm"] /\ UNCHANGED <<client, rec>>
     ELSE IF ~Verified \/ m.arg # data THEN Refuse(m, "digest_mismatch") /\ UNCHANGED busy
     ELSE IF dest # expected THEN Refuse(m, "destination_changed") /\ UNCHANGED busy
     ELSE /\ rec' = [rec EXCEPT !.state = "committing", !.sha = data]
          /\ busy' = m /\ UNCHANGED client
  /\ UNCHANGED <<front, src, item, data, journal, box, dest, pub>>

(* rename: an expected file is exchanged, otherwise nothing may be there. *)
rename ==
  /\ busy # None /\ busy.act = "commit"
  /\ IF expected = "none" /\ dest # "none" THEN Refuse(busy, "file_unavailable") /\ busy' = None
     ELSE /\ dest' = "ours" /\ pub' = data /\ box' = (IF dest = "none" THEN "none" ELSE dest)
          /\ busy' = [busy EXCEPT !.act = "confirm"] /\ UNCHANGED <<client, rec, data, journal>>
  /\ UNCHANGED <<front, src, item, calls>>

Displaced == expected = "old" => box = "old"

(* The second half verifies what has the name, and what was displaced. *)
confirm ==
  /\ busy # None /\ busy.act = "confirm"
  /\ busy' = None
  /\ IF dest # "ours" \/ pub # rec.sha \/ ~Displaced THEN Refuse(busy, "outcome_unknown")
     ELSE /\ \/ rec' = [rec EXCEPT !.state = "succeeded", !.cleanup = TRUE] /\ UNCHANGED box
             \/ rec' = [rec EXCEPT !.state = "succeeded"] /\ box' = "none"
          /\ Answer(busy, rec', 0) /\ UNCHANGED <<data, journal, dest, pub>>
  /\ UNCHANGED <<front, src, item, calls>>

CancelRefused == rec.state = "committing"

discard(m) ==
  \/ rec' = [rec EXCEPT !.state = "cancelled"] /\ box' = "none" /\ Answer(m, rec', 0)
  \/ rec' = [rec EXCEPT !.state = "discarding"] /\ box' \in {box, "none"} /\ Silent

(* transfer.cancel: cleanup after success, a discarded spool, a discarded or kept partial. *)
Cancel(m) ==
  /\ Serve(m, "cancel")
  /\ IF rec = None \/ CancelRefused THEN Refuse(m, "outcome_unknown")
     ELSE IF rec.state = "succeeded"
     THEN /\ rec' = [rec EXCEPT !.cleanup = FALSE, !.state = IF m.arg /\ kind = "download" THEN "cancelled" ELSE @]
          /\ box' = "none" /\ dest' = IF m.arg /\ kind = "download" THEN "none" ELSE dest
          /\ Answer(m, rec', 0) /\ UNCHANGED <<data, journal, pub>>
     ELSE IF rec.state = "cancelled" THEN Answer(m, rec, 0) /\ UNCHANGED <<rec, data, journal, box, dest, pub>>
     ELSE /\ IF m.arg
             THEN discard(m)
             ELSE /\ rec' = [rec EXCEPT !.state = IF @ = "discarding" THEN @ ELSE "interrupted"]
                  /\ Answer(m, rec', 0) /\ UNCHANGED box
          /\ UNCHANGED <<data, journal, dest, pub>>
  /\ UNCHANGED <<front, src, item, busy>>

HelperDies ==
  /\ busy # None /\ busy' = None
  /\ UNCHANGED <<front, src, item, client, calls, rec, data, journal, box, dest, pub>>

-----------------------------------------------------------------------------
(* The owner of the source edits it; another program takes the destination. *)
SourceChanges == src' \in Versions \ {src} /\ ~Uploaded /\ UNCHANGED <<front, item, client, calls, node>>
ForeignWrite ==
  /\ dest \in {"none", "old"} /\ pub = Whole(None) /\ dest' = "foreign"
  /\ UNCHANGED <<front, src, item, client, calls, rec, data, journal, box, pub, busy>>

Destination(m) == begin(m) \/ write_chunk(m) \/ Resume(m) \/ Read(m) \/ commit(m) \/ Cancel(m)
Next ==
  \/ run \/ upload \/ finish \/ resume \/ cancel(TRUE) \/ cancel(FALSE)
  \/ Receive \/ Interrupt \/ poll
  \/ \E m \in calls : Destination(m)
  \/ rename \/ confirm \/ HelperDies \/ SourceChanges \/ ForeignWrite

Spec == Init /\ [][Next]_vars

-----------------------------------------------------------------------------
(* Rows, receipts and staged chunks keep their types. *)
TypeOK ==
  /\ item.state \in {"queued", "running", "committing", "unknown", "interrupted", "discarding"} \cup Done
  /\ item.offset \in 0..N /\ data \in Content /\ journal \in Content /\ pub \in Content
  /\ rec # None => rec.state \in {"preparing", "running", "interrupted", "discarding", "committing"} \cup Done
  /\ Cardinality({m \in calls : ~m.late}) <= 1

(* What is published under the destination's name is the whole source the   *)
(* user confirmed, never a mixture of two versions of it (commit).          *)
PublishedWhole == dest = "ours" /\ source_manifest # None => pub = source_manifest

(* A file that another program put at the destination is never removed, and *)
(* the file to be replaced is removed only once its successor is verified.  *)
NothingLost ==
  /\ "foreign" \in {dest, box} => "foreign" \in {dest', box'}
  /\ "old" \in {dest, box} => "old" \in {dest', box'} \/ dest' = "foreign" \/ rec'.state = "succeeded"

(* What the controller reports is what the destination recorded, and what   *)
(* it recorded is so: a commit is called done, by a retry too, only when    *)
(* the bytes it names have the destination's name (confirm).                *)
ReportedTrue ==
  /\ rec # None /\ rec.state = "succeeded" => dest = "ours" /\ pub = rec.sha
  /\ item.state = "succeeded" => rec # None /\ rec.state \in (IF kind = "download" THEN Done ELSE {"succeeded"})
  /\ item.state = "cancelled" => rec # None /\ rec.state = "cancelled" /\ dest # "ours"

(* Bytes the controller counts as accepted are on disk with their digests. *)
AcceptedHeld ==
  rec # None /\ rec.state \in {"running", "interrupted", "committing"} =>
    /\ item.state \in {"running", "committing", "unknown"} => item.offset <= rec.offset
    /\ \A i \in 1..rec.offset : data[i] # None /\ data[i] = journal[i]

(* Chunks accepted from an upload without a digest are published only if    *)
(* the upload never had to be resumed over them.                            *)
LegacyUnresumed ==
  kind = "legacy" /\ item.state \in {"interrupted", "unknown"} /\ item'.state = "running" => item'.offset = 0
=============================================================================
