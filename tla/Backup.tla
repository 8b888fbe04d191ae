------------------------------- MODULE Backup -------------------------------
(* Portable backups of a stopped controller and their restoration into a    *)
(* new directory (backup.py, backup_io.py, backup_database.py and the       *)
(* validators of each kind of record).  Commands may be killed anywhere;    *)
(* other programs change files being copied, take the destination's name or *)
(* damage a finished bundle.                                                *)
EXTENDS Naturals, FiniteSets

CONSTANTS Procs, Kinds, Powers, Modules, Schemas, None, Foreign, MaxUpsets, MaxStarts

(* The schema that introduced each kind of record and each authority. *)
Since == [jobs |-> 4, terminals |-> 4, file_operations |-> 4, transfers |-> 4, agents |-> 4, bus |-> 4, credentials |-> 4,
          nodes |-> 4, editor |-> 5, vm |-> 5, proxmox |-> 5, containers |-> 5, admin |-> 5, modules |-> 5, profiles |-> 5,
          adapters |-> 6, windows |-> 6, identities |-> 7, policies |-> 9, external |-> 10, contributors |-> 11,
          workloads |-> 12, sources |-> 14, inspection |-> 15, inference |-> 16, federation |-> 17]
Exported == {"credentials", "contributors", "workloads", "inference", "federation", "sources", "inspection"}
Restored == {"external", "policies", "identities", "modules", "profiles", "windows", "adapters", "nodes"}

BackupAssumption ==
  /\ Kinds \subseteq DOMAIN Since /\ Powers \subseteq Exported \cup Restored /\ Schemas \subseteq 4..17
  /\ None \notin Procs \cup {"service"} /\ "db" \notin Modules /\ MaxUpsets \in Nat /\ MaxStarts \in Nat

VARIABLES
  lock,     \* who owns the controller's state directory
  db,       \* its database: schema, rows of each kind, authority in force, packages
  disk,     \* its other members: 0 absent, 1 good, 2 a receipt in use or other content
  cli,      \* a saved command line submission without a retained operation
  run,      \* the maintenance commands under way
  place,    \* what has the bundle's name and the new state directory's name
  durable,  \* names whose publication was synced
  receipt,  \* the manifest the last backup receipt names
  upsets,   \* how often other programs interfered, at most MaxUpsets
  starts    \* how often the service was started, at most MaxStarts

vars == <<lock, db, disk, cli, run, place, durable, receipt, upsets, starts>>

Members == {"trust", "receipt"} \cup Modules
Empty == [m \in {} |-> 0]
Has(schema, x) == schema >= Since[x]
Init ==
  /\ lock = None /\ cli = FALSE
  /\ \E s \in Schemas : db = [schema |-> s, rows |-> [k \in Kinds |-> "closed"], on |-> {}, mods |-> {}]
  /\ disk = [m \in Members |-> IF m = "trust" THEN 1 ELSE 0] /\ run = [p \in Procs |-> None]
  /\ place = [bundle |-> None, state |-> None] /\ durable = {} /\ receipt = None /\ upsets = 0 /\ starts = 0

-----------------------------------------------------------------------------
(* The controller while it runs *)

controller == <<lock, db, disk, cli, starts>>
maintenance == <<run, place, durable, receipt, upsets>>

(* StateLock: one owner of the directory, released with its process. *)
StateLock(who) == lock = None /\ lock' = who

start ==
  /\ starts < MaxStarts /\ starts' = starts + 1 /\ StateLock("service")
  /\ UNCHANGED <<db, disk, cli, maintenance>>
stop == lock = "service" /\ lock' = None /\ UNCHANGED <<starts, db, disk, cli, maintenance>>

Running == lock = "service" /\ UNCHANGED <<lock, starts, maintenance>>
work(k, state) ==
  /\ Running /\ Has(db.schema, k) /\ db' = [db EXCEPT !.rows[k] = state]
  /\ cli' = FALSE /\ UNCHANGED disk
grant(x) == Running /\ Has(db.schema, x) /\ db' = [db EXCEPT !.on = @ \cup {x}] /\ UNCHANGED <<disk, cli>>
local_file(v) == Running /\ disk' = [disk EXCEPT !["receipt"] = v] /\ UNCHANGED <<db, cli>>
install(m) ==
  /\ Running /\ Has(db.schema, "modules")
  /\ \/ db' = [db EXCEPT !.mods = @ \cup {m}] /\ disk' = [disk EXCEPT ![m] = 1]
     \/ db' = [db EXCEPT !.mods = @ \ {m}] /\ disk' = [disk EXCEPT ![m] = 0]
  /\ UNCHANGED cli

(* The command line client saves its submission before it sends it. *)
submit == ~cli /\ cli' = TRUE /\ UNCHANGED <<lock, starts, db, disk, maintenance>>

-----------------------------------------------------------------------------
(* What a snapshot must satisfy, and what is taken out of it *)

(* Each kind's rows are in terminal states. *)
Closed(d, k) == Has(d.schema, k) => d.rows[k] # "open"
core_records(d) == \A k \in Kinds \cap {"jobs", "terminals", "file_operations", "transfers", "agents", "bus"} : Closed(d, k)
module_records(d) == \A k \in Kinds \cap {"editor", "vm", "proxmox", "containers", "admin"} : Closed(d, k)
adapter_records(d) == \A k \in Kinds \cap {"adapters"} : Closed(d, k)
workload_records(d) == \A k \in Kinds \cap {"workloads", "sources", "inspection"} : Closed(d, k)
quiescent(d) == core_records(d) /\ module_records(d) /\ adapter_records(d) /\ workload_records(d)

reconciled == ~cli
receipt_closed(m, v) == m = "receipt" => v = 1

suspend(d) == {x \in Exported : Has(d.schema, x)}
deactivate(d) == {x \in Restored : Has(d.schema, x)}
sanitize(d, restored) == [d EXCEPT !.on = @ \ (suspend(d) \cup IF restored THEN deactivate(d) ELSE {})]

(* The copied payloads are those of the packages the copied database names. *)
payloads(d, copied) ==
  /\ DOMAIN copied \cap Modules = IF Has(d.schema, "modules") THEN d.mods ELSE {}
  /\ \A m \in DOMAIN copied \cap Modules : copied[m] = 1

-----------------------------------------------------------------------------
(* A maintenance command *)

Name(cmd) == IF cmd = "export" THEN "bundle" ELSE "state"
At(p, cmd, step) == run[p] # None /\ run[p].cmd = cmd /\ run[p].at = step
(* Leaving the with statements removes the stage and releases the lock. *)
End(p) == run' = [run EXCEPT ![p] = None] /\ lock' = IF lock = p THEN None ELSE lock
Go(p, r) == run' = [run EXCEPT ![p] = r] /\ UNCHANGED lock
published == <<place, durable, receipt>>
owned == <<db, disk, cli, upsets, starts>>

export(p) ==
  /\ run[p] = None /\ StateLock(p)
  /\ run' = [run EXCEPT ![p] = [cmd |-> "export", at |-> "check", names |-> {}, stage |-> Empty, db |-> None, want |-> Empty, gone |-> FALSE, reading |-> None]]
  /\ UNCHANGED <<owned, published>>

inventory == {m \in Members : disk[m] # 0}

export_locked(p) ==
  /\ At(p, "export", "check")
  /\ IF quiescent(db) /\ reconciled /\ (\A m \in inventory : receipt_closed(m, disk[m])) /\ place["bundle"] = None
     THEN Go(p, [run[p] EXCEPT !.at = "snapshot", !.names = inventory]) ELSE End(p)
  /\ UNCHANGED <<db, disk, cli, upsets, starts, published>>

(* SQLite's own copy, then sanitize, which checks the copy again. *)
snapshot(p) ==
  /\ At(p, "export", "snapshot")
  /\ IF quiescent(db) THEN Go(p, [run[p] EXCEPT !.at = "copy", !.db = sanitize(db, FALSE), !.stage = [m \in {"db"} |-> 1]])
     ELSE End(p)
  /\ UNCHANGED <<owned, published>>

restore(p) ==
  /\ run[p] = None /\ place["bundle"] \notin {None, Foreign}
  /\ Go(p, [cmd |-> "restore", at |-> "manifest", names |-> {}, stage |-> Empty, db |-> None, want |-> Empty, gone |-> FALSE, reading |-> None])
  /\ UNCHANGED <<owned, published>>

(* manifest: the bundle holds exactly the members its manifest names. *)
manifest(p) ==
  /\ At(p, "restore", "manifest")
  /\ LET b == place["bundle"] IN
     IF b \notin {None, Foreign} /\ place["state"] = None
     THEN IF DOMAIN b.files = DOMAIN b.manifest
          THEN Go(p, [run[p] EXCEPT !.at = "copy", !.names = DOMAIN b.manifest, !.want = b.manifest, !.db = b.db]) ELSE End(p)
     ELSE End(p)
  /\ UNCHANGED <<owned, published>>

(* The directory a command copies from; a withdrawn bundle was removed. *)
Source(p) ==
  IF run[p].cmd = "export" THEN [m \in inventory |-> disk[m]]
  ELSE IF run[p].gone THEN Empty ELSE place["bundle"].files

(* The members are copied one by one, in the order of their names. *)
member(p) ==
  /\ run[p] # None /\ run[p].at = "copy" /\ run[p].reading = None /\ ~(run[p].names \subseteq DOMAIN run[p].stage)
  /\ LET m == CHOOSE x \in run[p].names : x \notin DOMAIN run[p].stage IN
     IF m \in DOMAIN Source(p) THEN Go(p, [run[p] EXCEPT !.reading = [m |-> m, v |-> Source(p)[m], moved |-> FALSE]]) ELSE End(p)
  /\ UNCHANGED <<owned, published>>

(* Mutant: a member that changed while it was read is kept. *)
unchanged_any(r) == TRUE
unchanged(r) == ~r.moved
described(p, r) == run[p].cmd = "restore" => r.v = run[p].want[r.m]

copy(p) ==
  /\ run[p] # None /\ run[p].at = "copy" /\ run[p].reading # None
  /\ LET r == run[p].reading  old == run[p].stage IN
     IF unchanged(r) /\ described(p, r) /\ (run[p].cmd = "restore" => receipt_closed(r.m, r.v))
     THEN Go(p, [run[p] EXCEPT !.reading = None, !.stage = [m \in DOMAIN old \cup {r.m} |-> IF m = r.m THEN (IF r.moved THEN 3 ELSE r.v) ELSE old[m]]])
     ELSE End(p)
  /\ UNCHANGED <<owned, published>>

Copied(p) == run[p] # None /\ run[p].at = "copy" /\ run[p].reading = None /\ run[p].names \subseteq DOMAIN run[p].stage

export_manifest(p) ==
  /\ Copied(p) /\ run[p].cmd = "export"
  /\ IF payloads(run[p].db, run[p].stage) THEN Go(p, [run[p] EXCEPT !.at = "publish"]) ELSE End(p)
  /\ UNCHANGED <<owned, published>>

(* The copied database is checked again, disarmed and its payloads sealed. *)
restore_checked(p) ==
  /\ Copied(p) /\ run[p].cmd = "restore"
  /\ IF quiescent(run[p].db) /\ payloads(run[p].db, run[p].stage)
     THEN Go(p, [run[p] EXCEPT !.at = "publish", !.db = sanitize(@, TRUE)]) ELSE End(p)
  /\ UNCHANGED <<owned, published>>

(* Mutant: a name that was taken meanwhile is replaced. *)
rename_over(d) == TRUE
rename(d) == place[d] = None

(* staging: the stage is synced and takes the name, which must be free. *)
publish(p) ==
  /\ run[p] # None /\ run[p].at = "publish"
  /\ LET d == Name(run[p].cmd) IN
     IF rename(d)
     THEN /\ place' = [place EXCEPT ![d] = [db |-> run[p].db, files |-> run[p].stage,
                                            manifest |-> IF run[p].cmd = "export" THEN run[p].stage ELSE run[p].want]]
          /\ Go(p, [run[p] EXCEPT !.at = "sync"])
     ELSE End(p) /\ UNCHANGED place
  /\ UNCHANGED <<owned, durable, receipt>>

Withdraw(p) ==
  /\ run' = [q \in Procs |-> IF q = p THEN None ELSE IF run[q] # None /\ run[p].cmd = "export" THEN [run[q] EXCEPT !.gone = TRUE] ELSE run[q]]
  /\ lock' = IF lock = p THEN None ELSE lock

(* The parent is synced; when that fails the name is given back. *)
synced(p) ==
  /\ run[p] # None /\ run[p].at = "sync"
  /\ LET d == Name(run[p].cmd) IN
     \/ durable' = durable \cup {d} /\ Go(p, [run[p] EXCEPT !.at = "receipt"]) /\ UNCHANGED place
     \/ place' = [place EXCEPT ![d] = None] /\ Withdraw(p) /\ UNCHANGED durable
  /\ UNCHANGED <<owned, receipt>>

(* A restored directory had its receipt before it was published. *)
save_receipt(p) ==
  /\ run[p] # None /\ run[p].at = "receipt" /\ End(p)
  /\ receipt' = IF run[p].cmd = "export" THEN run[p].stage ELSE receipt
  /\ UNCHANGED <<owned, place, durable>>

die(p) == run[p] # None /\ End(p) /\ UNCHANGED <<owned, published>>

-----------------------------------------------------------------------------
(* Other programs *)

(* Readers of a member see its times move. *)
Moved(cmd, m) ==
  [p \in Procs |-> IF run[p] # None /\ run[p].cmd = cmd /\ run[p].reading # None /\ run[p].reading.m = m
                   THEN [run[p] EXCEPT !.reading.moved = TRUE] ELSE run[p]]

Upset == upsets < MaxUpsets /\ upsets' = upsets + 1

touch(m) ==
  /\ Upset /\ \E v \in 0..2 \ {disk[m]} : disk' = [disk EXCEPT ![m] = v]
  /\ run' = Moved("export", m) /\ UNCHANGED <<lock, starts, db, cli, published>>

damage(m) ==
  /\ Upset /\ place["bundle"] \notin {None, Foreign}
  /\ LET b == place["bundle"]  files == b.files IN
     \/ m \in DOMAIN files /\ place' = [place EXCEPT !["bundle"].files = [files EXCEPT ![m] = 2]]
     \/ m \in DOMAIN files /\ place' = [place EXCEPT !["bundle"].files = [x \in DOMAIN files \ {m} |-> files[x]]]
     \/ m \notin DOMAIN files /\ place' = [place EXCEPT !["bundle"].files = [x \in DOMAIN files \cup {m} |-> IF x = m THEN 1 ELSE files[x]]]
  /\ run' = Moved("restore", m) /\ UNCHANGED <<controller, durable, receipt>>

occupy(d) == Upset /\ place[d] = None /\ place' = [place EXCEPT ![d] = Foreign] /\ UNCHANGED <<controller, run, durable, receipt>>

Next ==
  \/ start \/ stop \/ submit
  \/ \E k \in Kinds, s \in {"open", "closed"} : work(k, s)
  \/ \E x \in Powers : grant(x)
  \/ \E v \in 1..2 : local_file(v)
  \/ \E m \in Modules : install(m)
  \/ \E p \in Procs : export(p) \/ export_locked(p) \/ snapshot(p) \/ restore(p) \/ manifest(p) \/ member(p) \/ copy(p)
       \/ export_manifest(p) \/ restore_checked(p) \/ publish(p) \/ synced(p) \/ save_receipt(p) \/ die(p)
  \/ \E m \in Members : touch(m)
  \/ \E m \in Members \cup {"db"} : damage(m)
  \/ \E d \in {"bundle", "state"} : occupy(d)

Spec == Init /\ [][Next]_vars

-----------------------------------------------------------------------------
(* Properties *)

Files == UNION {[S -> 1..3] : S \in SUBSET (Members \cup {"db"})}
Database == [schema : Schemas, rows : [Kinds -> {"open", "closed"}], on : SUBSET Powers, mods : SUBSET Modules]
Published == {None, Foreign} \cup [db : Database, files : Files, manifest : Files]

(* Members of each variable's type; only a command that took the lock has it. *)
TypeOK ==
  /\ lock \in {None, "service"} \cup Procs /\ db \in Database /\ disk \in [Members -> 0..2]
  /\ cli \in BOOLEAN
  /\ place["bundle"] \in Published /\ place["state"] \in Published
  /\ durable \subseteq {"bundle", "state"} /\ receipt \in {None} \cup Files /\ upsets \in 0..MaxUpsets /\ starts \in 0..MaxStarts
  /\ \A p \in Procs : lock = p => run[p] # None /\ run[p].cmd = "export"

(* What an export has copied so far is still the stopped controller's state: *)
(* the lock keeps the service out from the check to the publication.         *)
StillCurrent == \A p \in Procs : run[p] # None /\ run[p].cmd = "export" /\ run[p].db # None => run[p].db = sanitize(db, FALSE)

(* backup.export never publishes unfinished work, credentials, a member torn *)
(* by a change during its copy, or packages whose payloads are missing, left *)
(* over or not theirs, whatever happens to the files while they are copied.  *)
BundleComplete ==
  LET b == place["bundle"] IN
  b \notin {None, Foreign} =>
    /\ \A k \in Kinds : b.db.rows[k] # "open"
    /\ b.db.on \cap Exported = {}
    /\ DOMAIN b.manifest \cap Modules = b.db.mods
    /\ \A m \in DOMAIN b.manifest : b.manifest[m] # 3
    /\ \A m \in DOMAIN b.manifest \cap Modules : b.manifest[m] = 1

(* backup.restore publishes exactly what was exported, and no file receipt   *)
(* still in use, although the bundle may be damaged before or while it is    *)
(* read and a receipt may change between its check and its copy.             *)
RestoredFaithful ==
  LET s == place["state"] IN
  s \notin {None, Foreign} => s.files = s.manifest /\ ("receipt" \in DOMAIN s.files => s.files["receipt"] = 1)

(* A restored controller starts with no credential, grant, enabled identity, *)
(* profile, mapping, active policy or observation of the exported one.       *)
RestoredPowerless == place["state"] \notin {None, Foreign} => place["state"].db.on = {}

(* An existing destination is never replaced: a name that is taken keeps     *)
(* what it has, unless its own publisher withdraws it before it was synced.  *)
NeverReplaced ==
  \A d \in {"bundle", "state"} : place[d] # None /\ place'[d] # place[d] =>
    IF place'[d] = None THEN d \notin durable
    ELSE /\ place[d] # Foreign /\ place'[d] # Foreign
         /\ place'[d].manifest = place[d].manifest /\ place'[d].db = place[d].db

(* The receipt the health report reads names a backup that was published     *)
(* and synced.                                                               *)
ReceiptTrue == receipt # None => "bundle" \in durable /\ place["bundle"] \notin {None, Foreign} /\ receipt = place["bundle"].manifest
=============================================================================
