--------------------------- MODULE HistoryArchive ---------------------------
(* Retiring one closed execution epoch: the archive-history command with    *)
(* its pending intent, output directory and local receipts (history.py,     *)
(* history_state.py) and the node's own archive (node/history.py and its    *)
(* files), each resumable after it is killed anywhere.  Node requests are   *)
(* lost, repeated and executed late, and so are old job submissions.        *)
EXTENDS Naturals, FiniteSets

CONSTANTS Nodes, Jobs, Receipts, Outputs, MaxEpoch, MaxDeaths, None

HistoryAssumption == MaxEpoch \in Nat \ {0} /\ MaxDeaths \in Nat

VARIABLES
  db,        \* controller identity, retained rows, credentials
  serving,   \* the service runs
  pending,   \* archive.pending.json, or None
  out,       \* the output directories
  cli,       \* receipts of command line submissions in the state directory
  run,       \* the archive-history command, or None
  scratch,   \* journals whose replacement was interrupted
  owner,     \* each node's controller.json
  live,      \* each node's job directories
  arch,      \* each node's archive of each epoch
  helper,    \* the process that holds the node's job lock, or None
  asked,     \* archive requests each node has, or may still get again
  sent,      \* submissions each node has, or may still get again
  deaths,    \* processes killed so far, at most MaxDeaths
  disturbed, \* work appeared or a copy changed after the intent
  stuck      \* a check refused to go on after the intent

command == <<db, serving, pending, out, cli, run>>
node == <<owner, live, arch, helper>>
vars == <<command, node, scratch, asked, sent, deaths, disturbed, stuck>>

Epochs == 0..MaxEpoch
Work == Jobs \X Epochs
Pending == <<None, "pending">>
Journals == {Pending} \cup (Nodes \X {"owner", "intent", "manifest"})

Init ==
  /\ db = [epoch |-> 0, rows |-> "none", creds |-> FALSE] /\ serving = FALSE /\ pending = None /\ run = None
  /\ out = [o \in Outputs |-> None] /\ cli = {} /\ scratch = {}
  /\ owner = [n \in Nodes |-> None] /\ live = [n \in Nodes |-> [w \in Work |-> "none"]]
  /\ arch = [n \in Nodes |-> [e \in Epochs |-> None]] /\ helper = [n \in Nodes |-> None]
  /\ asked = [n \in Nodes |-> {}] /\ sent = [n \in Nodes |-> {}]
  /\ deaths = 0 /\ disturbed = FALSE /\ stuck = FALSE

-----------------------------------------------------------------------------
(* The service and the jobs it submits *)

Rest == <<scratch, asked, deaths, disturbed, stuck>>

start == ~serving /\ run = None /\ pending = None /\ serving' = TRUE /\ UNCHANGED <<db, pending, out, cli, run, node, sent, Rest>>
stop == serving /\ serving' = FALSE /\ UNCHANGED <<db, pending, out, cli, run, node, sent, Rest>>

submit(n, j, r) ==
  /\ serving /\ db.epoch < MaxEpoch
  /\ sent' = [sent EXCEPT ![n] = @ \cup {<<j, db.epoch>>}] /\ cli' = cli \cup {r}
  /\ db' = [db EXCEPT !.rows = "open", !.creds = TRUE]
  /\ UNCHANGED <<serving, pending, out, run, node, Rest>>

Finished(n) == \A w \in sent[n] : w[2] = db.epoch => live[n][w] = "closed"
reconcile ==
  /\ serving /\ db.rows = "open" /\ \A n \in Nodes : Finished(n)
  /\ db' = [db EXCEPT !.rows = "closed"] /\ UNCHANGED <<serving, pending, out, cli, run, node, sent, Rest>>

(* state.locked, then submit: a node belongs to one controller identity. *)
locked(n, e) == helper[n] = None /\ owner[n] \in {None, e} /\ owner' = [owner EXCEPT ![n] = e]
job_submit(n, w) ==
  /\ w \in sent[n] /\ live[n][w] = "none" /\ locked(n, w[2])
  /\ live' = [live EXCEPT ![n][w] = "running"]
  /\ disturbed' = (disturbed \/ (arch[n][w[2]] # None))
  /\ UNCHANGED <<command, arch, helper, scratch, asked, sent, deaths, stuck>>
job_ends(n, w) ==
  /\ live[n][w] = "running" /\ live' = [live EXCEPT ![n][w] = "closed"]
  /\ UNCHANGED <<command, owner, arch, helper, sent, Rest>>

-----------------------------------------------------------------------------
(* archive-history on the controller *)

Leave == run' = None
Refuse == run' = None /\ stuck' = TRUE
At(step) == run # None /\ run.at = step
Go(step) == run' = [run EXCEPT !.at = step]
Nodewise == <<node, asked, sent, deaths, disturbed>>

(* inspect: every row is closed.  The preview and refusals change nothing. *)
inspect == db.rows # "open"
validate(o) == pending.output = o

recover(j) == scratch' = scratch \ {j}

idle == ~serving /\ run = None

begin(o) ==
  /\ idle /\ recover(Pending)
  /\ IF pending # None THEN validate(o) /\ run' = [at |-> "output", output |-> o]
     ELSE out[o] = None /\ inspect /\ db.epoch < MaxEpoch /\ run' = [at |-> "intent", output |-> o]
  /\ UNCHANGED <<db, serving, pending, out, cli, Nodewise, stuck>>

intent ==
  /\ At("intent") /\ Go("output")
  /\ pending' = [output |-> run.output, epoch |-> db.epoch, acks |-> {}, signed |-> FALSE, digest |-> db.rows]
  /\ scratch' = scratch \ {Pending} /\ UNCHANGED <<db, serving, out, cli, Nodewise, stuck>>

(* A new directory is staged and published, or the one begun is this one's. *)
local_output ==
  /\ At("output") /\ Go("export")
  /\ out' = IF out[run.output] # None THEN out
            ELSE [out EXCEPT ![run.output] = [epoch |-> pending.epoch, state |-> "pending", backup |-> None, copies |-> {}, list |-> None]]
  /\ UNCHANGED <<db, serving, pending, cli, scratch, Nodewise, stuck>>

(* export_locked with maintenance: an unexpected file in the state directory is refused. *)
export ==
  /\ At("export")
  /\ IF out[run.output].backup # None THEN Go("verify") /\ UNCHANGED <<out, stuck>>
     ELSE IF Pending \in scratch THEN Refuse /\ UNCHANGED out
     ELSE Go("verify") /\ out' = [out EXCEPT ![run.output].backup = [epoch |-> db.epoch, rows |-> db.rows]] /\ UNCHANGED stuck
  /\ UNCHANGED <<db, serving, pending, cli, scratch, Nodewise>>

verify_backup ==
  /\ At("verify")
  /\ IF out[run.output].backup.epoch = pending.epoch THEN Go("receipts") /\ UNCHANGED stuck ELSE Refuse
  /\ UNCHANGED <<db, serving, pending, out, cli, scratch, Nodewise>>

(* The receipts are copied without their credentials; a list binds them. *)
local_receipts(r) ==
  /\ At("receipts") /\ LET o == run.output IN
     \/ out[o].list = None /\ r \in cli \ out[o].copies /\ out' = [out EXCEPT ![o].copies = @ \cup {r}] /\ UNCHANGED run
     \/ out[o].list = None /\ cli \subseteq out[o].copies /\ out' = [out EXCEPT ![o].list = cli] /\ Go("save")
     \/ out[o].list # None /\ UNCHANGED out /\ Go("save")
  /\ UNCHANGED <<db, serving, pending, cli, scratch, Nodewise, stuck>>

(* The signed intent; a committed controller has nothing left to ask. *)
committed == db.epoch > pending.epoch
sign ==
  /\ At("save") /\ pending' = [pending EXCEPT !.signed = TRUE] /\ scratch' = scratch \ {Pending}
  /\ IF committed THEN Go("retire") /\ UNCHANGED stuck
     ELSE IF inspect /\ db.rows = pending.digest THEN Go("nodes") /\ UNCHANGED stuck ELSE Refuse
  /\ UNCHANGED <<db, serving, out, cli, Nodewise>>

archive_node(n) ==
  /\ At("nodes") /\ n \notin pending.acks /\ pending.epoch \notin asked[n]
  /\ asked' = [asked EXCEPT ![n] = @ \cup {pending.epoch}]
  /\ UNCHANGED <<command, node, scratch, sent, deaths, disturbed, stuck>>

Complete(n, e) == arch[n][e] # None /\ arch[n][e].state = "complete"
(* The node's answer; each acknowledgement is saved before the next node. *)
acknowledge(n) ==
  /\ At("nodes") /\ n \notin pending.acks /\ pending.epoch \in asked[n] /\ helper[n] = None /\ Complete(n, pending.epoch)
  /\ pending' = [pending EXCEPT !.acks = @ \cup {n}] /\ scratch' = scratch \ {Pending}
  /\ UNCHANGED <<db, serving, out, cli, run, Nodewise, stuck>>

commit ==
  /\ At("nodes") /\ pending.acks = Nodes
  /\ db' = [epoch |-> pending.epoch + 1, rows |-> "none", creds |-> FALSE] /\ Go("retire")
  /\ UNCHANGED <<serving, pending, out, cli, scratch, Nodewise, stuck>>

verified(r) == r \in out[run.output].copies
retire(r) ==
  /\ At("retire") /\ pending.acks = Nodes /\ r \in out[run.output].list \cap cli
  /\ IF verified(r) THEN cli' = cli \ {r} /\ UNCHANGED <<run, stuck>> ELSE Refuse /\ UNCHANGED cli
  /\ UNCHANGED <<db, serving, pending, out, scratch, Nodewise>>

complete ==
  /\ At("retire") /\ pending.acks = Nodes /\ out[run.output].list \cap cli = {}
  /\ \A r \in out[run.output].list : verified(r)
  /\ out' = [out EXCEPT ![run.output].state = "complete"] /\ Go("unlink")
  /\ UNCHANGED <<db, serving, pending, cli, scratch, Nodewise, stuck>>

unlink == At("unlink") /\ pending' = None /\ Leave /\ UNCHANGED <<db, serving, out, cli, scratch, Nodewise, stuck>>

(* The command is killed, or gives up because a node cannot be reached; an  *)
(* interrupted write leaves its reserved scratch file.                      *)
die ==
  /\ run # None /\ deaths < MaxDeaths /\ deaths' = deaths + 1 /\ Leave
  /\ scratch' \in (IF run.at \in {"intent", "save", "nodes"} THEN {scratch, scratch \cup {Pending}} ELSE {scratch})
  /\ UNCHANGED <<db, serving, pending, out, cli, node, asked, sent, disturbed, stuck>>

tamper(r) ==
  /\ pending # None /\ out[pending.output] # None /\ r \in out[pending.output].copies
  /\ out' = [out EXCEPT ![pending.output].copies = @ \ {r}] /\ disturbed' = TRUE
  /\ UNCHANGED <<db, serving, pending, cli, run, node, scratch, asked, sent, deaths, stuck>>

-----------------------------------------------------------------------------
(* history.archive on a node, under the lock of its job directory *)

Holds(n, step) == helper[n] # None /\ helper[n].at = step
Step(n, step) == helper' = [helper EXCEPT ![n].at = step]
Release(n) == helper' = [helper EXCEPT ![n] = None]
Outside == <<command, asked, sent, deaths, disturbed>>
Archive(n) == arch[n][helper[n].epoch]
InFolder(n) == {<<n, "intent">>, <<n, "manifest">>}

(* history_scan: every job has ended, and nothing unexpected is there. *)
scan(n) == {w \in Work : live[n][w] # "none"}
job_closed(n) == \A w \in scan(n) : live[n][w] = "closed"
Expected(n) == <<n, "owner">> \notin scratch

Recovered(n, e) == {<<n, "owner">>} \cup IF arch[n][e] # None THEN InFolder(n) ELSE {}

Begun(n, e) == arch[n][e] # None /\ arch[n][e].state # "empty"
ResumedAt(n, e) == IF Begun(n, e) THEN "check" ELSE "scan"

(* The requested archive is new, begun, or complete and only verified. *)
dispatch(n, e) ==
  /\ e \in asked[n] /\ helper[n] = None /\ ~Complete(n, e)
  /\ scratch' = scratch \ Recovered(n, e)
  /\ IF owner[n] \in {None, e} \/ (Begun(n, e) /\ owner[n] = e + 1)
     THEN helper' = [helper EXCEPT ![n] = [epoch |-> e, at |-> ResumedAt(n, e)]] /\ UNCHANGED stuck
     ELSE UNCHANGED helper /\ stuck' = TRUE
  /\ UNCHANGED <<Outside, owner, live, arch>>

(* The folder of an archive that has no intent yet is empty. *)
Folder == [state |-> "empty", members |-> {}, moved |-> {}, manifest |-> FALSE]
begin_archive(n) ==
  /\ Holds(n, "scan")
  /\ IF ~Expected(n) THEN stuck' = TRUE /\ Release(n) /\ UNCHANGED arch
     ELSE IF job_closed(n)
     THEN arch' = [arch EXCEPT ![n][helper[n].epoch] = Folder] /\ Step(n, "intent") /\ UNCHANGED stuck
     ELSE Release(n) /\ UNCHANGED <<arch, stuck>>
  /\ UNCHANGED <<Outside, owner, live, scratch>>

node_intent(n) ==
  /\ Holds(n, "intent") /\ Step(n, "check")
  /\ arch' = [arch EXCEPT ![n][helper[n].epoch] = [@ EXCEPT !.state = "moving", !.members = scan(n)]]
  /\ scratch' = scratch \ {<<n, "intent">>} /\ UNCHANGED <<Outside, owner, live, stuck>>

(* Nothing new or unfinished appeared, and no job is both here and archived. *)
remaining(n) == Expected(n) /\ job_closed(n) /\ scan(n) \subseteq Archive(n).members /\ scan(n) \cap Archive(n).moved = {}

check_remaining(n) ==
  /\ Holds(n, "check")
  /\ IF remaining(n) THEN Step(n, "move") /\ UNCHANGED stuck ELSE Release(n) /\ stuck' = TRUE
  /\ UNCHANGED <<Outside, owner, live, arch, scratch>>

move(n, w) ==
  /\ Holds(n, "move") /\ w \in Archive(n).members \ Archive(n).moved
  /\ IF live[n][w] # "none"
     THEN /\ live' = [live EXCEPT ![n][w] = "none"]
          /\ arch' = [arch EXCEPT ![n][helper[n].epoch] = [@ EXCEPT !.moved = @ \cup {w}]] /\ UNCHANGED <<helper, stuck>>
     ELSE Release(n) /\ stuck' = TRUE /\ UNCHANGED <<live, arch>>
  /\ UNCHANGED <<Outside, owner, scratch>>

(* The manifest is saved, and the archive holds exactly its members. *)
verify_archive(n) == Archive(n).moved = Archive(n).members /\ scratch \cap InFolder(n) = {}
node_manifest(n) ==
  /\ Holds(n, "move") /\ Archive(n).members \subseteq Archive(n).moved
  /\ arch' = [arch EXCEPT ![n][helper[n].epoch] = [@ EXCEPT !.manifest = TRUE]]
  /\ scratch' = scratch \ {<<n, "manifest">>} /\ Step(n, "verify") /\ UNCHANGED <<Outside, owner, live, stuck>>

publish(n) ==
  /\ Holds(n, "verify")
  /\ IF verify_archive(n)
     THEN /\ arch' = [arch EXCEPT ![n][helper[n].epoch] = [@ EXCEPT !.state = "published"]] /\ Step(n, "owner") /\ UNCHANGED stuck
     ELSE Release(n) /\ stuck' = TRUE /\ UNCHANGED arch
  /\ UNCHANGED <<Outside, owner, live, scratch>>

rotate(n) ==
  /\ Holds(n, "owner") /\ Step(n, "finish") /\ owner' = [owner EXCEPT ![n] = helper[n].epoch + 1]
  /\ scratch' = scratch \ {<<n, "owner">>} /\ UNCHANGED <<Outside, live, arch, stuck>>

finish(n) ==
  /\ Holds(n, "finish") /\ Release(n)
  /\ arch' = [arch EXCEPT ![n][helper[n].epoch] = [@ EXCEPT !.state = "complete"]]
  /\ scratch' = scratch \ {<<n, "intent">>} /\ UNCHANGED <<Outside, owner, live, stuck>>

(* The helper is killed, perhaps while it replaces a journal. *)
Writing(n) == CASE helper[n].at \in {"intent", "verify", "finish"} -> {<<n, "intent">>}
                [] helper[n].at = "move" -> {<<n, "manifest">>}
                [] helper[n].at = "owner" -> {<<n, "owner">>}
                [] OTHER -> {}
helper_dies(n) ==
  /\ helper[n] # None /\ deaths < MaxDeaths /\ deaths' = deaths + 1 /\ Release(n)
  /\ scratch' \in {scratch, scratch \cup Writing(n)}
  /\ UNCHANGED <<command, asked, sent, disturbed, stuck, owner, live, arch>>

Next ==
  \/ start \/ stop \/ reconcile
  \/ \E n \in Nodes, j \in Jobs, r \in Receipts : submit(n, j, r)
  \/ \E n \in Nodes, w \in Work : job_submit(n, w) \/ job_ends(n, w) \/ move(n, w)
  \/ \E o \in Outputs : begin(o)
  \/ intent \/ local_output \/ export \/ verify_backup \/ sign \/ commit \/ complete \/ unlink \/ die
  \/ \E r \in Receipts : local_receipts(r) \/ retire(r) \/ tamper(r)
  \/ \E n \in Nodes : archive_node(n) \/ acknowledge(n) \/ begin_archive(n) \/ node_intent(n) \/ check_remaining(n)
       \/ node_manifest(n) \/ publish(n) \/ rotate(n) \/ finish(n) \/ helper_dies(n)
  \/ \E n \in Nodes, e \in Epochs : dispatch(n, e)

Spec == Init /\ [][Next]_vars

-----------------------------------------------------------------------------
(* Properties *)

(* Each variable's type; an intent is pending from the first step after it  *)
(* was saved to the last.                                                   *)
TypeOK ==
  /\ db \in [epoch : Epochs, rows : {"none", "open", "closed"}, creds : BOOLEAN]
  /\ cli \subseteq Receipts /\ scratch \subseteq Journals /\ deaths \in 0..MaxDeaths
  /\ owner \in [Nodes -> {None} \cup Epochs] /\ live \in [Nodes -> [Work -> {"none", "running", "closed"}]]
  /\ run # None /\ run.at # "intent" => pending # None /\ pending.output = run.output /\ ~serving

(* Of every job an epoch had on a node, what is not in the live directory   *)
(* is in the archive and named by its intent, whatever is killed during the *)
(* moves.                                                                  *)
NothingLost ==
  \A n \in Nodes, e \in Epochs :
    Begun(n, e) => /\ arch[n][e].moved \subseteq arch[n][e].members
                   /\ \A w \in arch[n][e].members : live[n][w] # "none" \/ w \in arch[n][e].moved

(* The controller's identities change only after every node retired the     *)
(* epoch and its rows are in a verified backup.                             *)
RotatedAfterAll ==
  \A e \in 0..(db.epoch - 1) :
    /\ \A n \in Nodes : Complete(n, e)
    /\ \E o \in Outputs : out[o] # None /\ out[o].epoch = e /\ out[o].backup # None /\ out[o].list # None

(* A controller that runs owns its nodes, or nobody does: interrupted       *)
(* archives never leave it with identities its nodes no longer accept.      *)
OwnerAgrees == serving => \A n \in Nodes : owner[n] \in {None, db.epoch}

(* A job of a retired epoch is never accepted again, although its           *)
(* submission may still arrive.                                             *)
RetiredForGood == \A n \in Nodes, w \in Work : Complete(n, w[2]) => live[n][w] = "none"

(* A node's job directory leaves the live ones only once its job has ended, *)
(* and into the archive of its own epoch, whose saved intent names it; the  *)
(* node changes identity only when no directory is left; and the command    *)
(* line's receipts go only after every node retired the epoch, while the    *)
(* copy and the backup are there.                                           *)
VerifiedRemoval ==
  /\ \A n \in Nodes, w \in Work : live[n][w] # "none" /\ live'[n][w] = "none" =>
       /\ live[n][w] = "closed"
       /\ Begun(n, w[2]) /\ w \in arch[n][w[2]].members /\ w \in arch'[n][w[2]].moved
  /\ \A n \in Nodes : owner[n] \notin {None, owner'[n]} => scan(n) = {}
  /\ \A r \in cli \ cli' :
       /\ pending # None /\ committed /\ \A n \in Nodes : Complete(n, pending.epoch)
       /\ r \in out[pending.output].copies /\ out[pending.output].backup # None

(* Wherever the command or a helper was killed, the same command resumes:   *)
(* no check refuses unless new work or a changed copy appeared meanwhile.   *)
Resumable == stuck => disturbed
=============================================================================
