--------------------------- MODULE StateMigration ---------------------------
(***************************************************************************)
(* Where a controller directory keeps its records: its own file or one     *)
(* network database, and the migration from the first to the second.       *)
(* Commands and controllers hold the directory's lock while they work, but *)
(* not between the parts of a migration; the database has an advisory lock *)
(* and is bound to one directory.  A process may die at any step.          *)
(***************************************************************************)
EXTENDS Naturals, FiniteSets, TLAPS

CONSTANTS
    Dir,       \* controller state directories
    EDITS,     \* bound: records written by controllers
    CRASHES    \* bound: processes that die, and answers that are lost

none == "none"

ASSUME DirAssumption == none \notin Dir /\ EDITS \in Nat /\ CRASHES \in Nat

Record == [d : Dir, n : 0..EDITS]
Absent == {[d |-> none, n |-> 0]}   \* no database file, or no receipt

VARIABLES
    local,     \* the records of state.sqlite3, or Absent
    config,    \* state-provider.json: "none", "torn" or "ok"
    binding,   \* state-binding, likewise; its identity is the directory's own
    holder,    \* what holds service.lock: "none", "migrate", "configure", "resume" or "controller"
    step,      \* the holder's next step
    pending,   \* migrate has restored the directory and not taken its lock
    bound,     \* the directory the database is bound to
    rows,      \* the records in the database
    receipt,   \* the imported snapshot, or Absent
    owner,     \* the directory whose process holds the advisory lock
    home,      \* every record the directory has been given
    edits, crashes

vars == <<local, config, binding, holder, step, pending, bound, rows, receipt, owner, home, edits, crashes>>
files == <<local, config, binding>>
database == <<bound, rows, receipt>>
bounds == <<edits, crashes>>

Init ==
    /\ local = [d \in Dir |-> Absent] /\ config = [d \in Dir |-> none] /\ binding = [d \in Dir |-> none]
    /\ holder = [d \in Dir |-> none] /\ step = [d \in Dir |-> none] /\ pending = {}
    /\ bound = none /\ rows = {} /\ receipt = Absent /\ owner = none
    /\ home = [d \in Dir |-> {}] /\ edits = 0 /\ crashes = 0

Free(d) == holder[d] = none
Go(d, next) == step' = [step EXCEPT ![d] = next] /\ UNCHANGED holder
Take(d, who, next) == holder' = [holder EXCEPT ![d] = who] /\ step' = [step EXCEPT ![d] = next]

(* The process ends, and closes what it holds. *)
Release(d) == Take(d, none, none) /\ owner' = IF owner = d THEN none ELSE owner

-----------------------------------------------------------------------------
(* migrate exports a stopped controller and restores it in a new directory. *)
Restore(d) ==
    /\ Free(d) /\ local[d] = Absent /\ config[d] = none /\ home[d] = {}
    /\ LET bundle == {[d |-> d, n |-> 0]} IN
       local' = [local EXCEPT ![d] = bundle] /\ home' = [home EXCEPT ![d] = bundle]
    /\ pending' = pending \cup {d}
    /\ UNCHANGED <<config, binding, holder, step, database, owner, bounds>>

(* It then takes the lock to upgrade the file's schema and write the        *)
(* configuration; a holder, or a configuration left there, ends it.         *)
Migrate(d) ==
    /\ d \in pending /\ pending' = pending \ {d}
    /\ IF Free(d) /\ config[d] = none THEN Take(d, "migrate", "create") ELSE UNCHANGED <<holder, step>>
    /\ UNCHANGED <<files, database, owner, home, bounds>>

Configure(d) ==
    /\ Free(d) /\ local[d] = Absent /\ config[d] = none /\ Take(d, "configure", "create")
    /\ UNCHANGED <<files, pending, database, owner, home, bounds>>

(* write_configuration creates the file, then fills and syncs it. *)
CreateConfig(d) ==
    /\ step[d] = "create" /\ config' = [config EXCEPT ![d] = "torn"] /\ Go(d, "fill")
    /\ UNCHANGED <<local, binding, pending, database, owner, home, bounds>>

FillConfig(d) ==
    /\ step[d] = "fill" /\ config' = [config EXCEPT ![d] = "ok"]
    /\ IF holder[d] = "migrate" THEN Take(d, none, none) ELSE Go(d, "open")
    /\ UNCHANGED <<local, binding, pending, database, owner, home, bounds>>

\* Mutant: the portable file is removed before it is imported.
ResumeRemoves(d) ==
    /\ Free(d) /\ config[d] = "ok" /\ local[d] # Absent /\ Take(d, "resume", "unlink")
    /\ UNCHANGED <<files, pending, database, owner, home, bounds>>

(* resume, also the last part of migrate. *)
Resume(d) ==
    /\ Free(d) /\ config[d] = "ok" /\ local[d] # Absent /\ Take(d, "resume", "open")
    /\ UNCHANGED <<files, pending, database, owner, home, bounds>>

-----------------------------------------------------------------------------
\* Mutant: a controller does not look for a configuration.
StartLocalAny(d) ==
    /\ Free(d) /\ Take(d, "controller", "local")
    /\ local' = [local EXCEPT ![d] = IF local[d] = Absent THEN {} ELSE local[d]]
    /\ UNCHANGED <<config, binding, pending, database, owner, home, bounds>>

(* Store: a controller without a configuration uses the file, or creates it. *)
StartLocal(d) ==
    /\ Free(d) /\ config[d] = none /\ Take(d, "controller", "local")
    /\ local' = [local EXCEPT ![d] = IF local[d] = Absent THEN {} ELSE local[d]]
    /\ UNCHANGED <<config, binding, pending, database, owner, home, bounds>>

(* Store: with one it uses the database, unless a file is left beside it. *)
StartNetwork(d) ==
    /\ Free(d) /\ config[d] = "ok" /\ local[d] = Absent /\ Take(d, "controller", "open")
    /\ UNCHANGED <<files, pending, database, owner, home, bounds>>

(* open_provider creates the binding, then writes it. *)
CreateBinding(d) ==
    /\ step[d] = "open" /\ binding[d] = none
    /\ binding' = [binding EXCEPT ![d] = "torn"] /\ Go(d, "bind")
    /\ UNCHANGED <<local, config, pending, database, owner, home, bounds>>

WriteBinding(d) ==
    /\ step[d] = "bind" /\ binding' = [binding EXCEPT ![d] = "ok"] /\ Go(d, "open")
    /\ UNCHANGED <<local, config, pending, database, owner, home, bounds>>

(* The database takes one process, and only of the directory it is bound to. *)
Accepts(d) == owner = none /\ binding[d] = "ok" /\ bound \in {none, d}

(* Database: the advisory lock and the schema, which binds an empty one. *)
Connect(d) ==
    /\ step[d] = "open" /\ binding[d] # none
    /\ IF Accepts(d)
       THEN /\ bound' = d
            /\ CASE holder[d] = "configure" -> Take(d, none, none) /\ UNCHANGED owner
                 [] holder[d] = "resume" -> Go(d, "import") /\ owner' = d
                 [] holder[d] = "controller" -> Go(d, "network") /\ owner' = d
       ELSE Release(d) /\ UNCHANGED bound
    /\ UNCHANGED <<files, pending, rows, receipt, home, bounds>>

(* import_snapshot: what the receipt names is not imported again, and       *)
(* nothing is imported into records that are there.                         *)
Import(d) ==
    /\ step[d] = "import"
    /\ \/ /\ receipt = local[d] /\ Go(d, "unlink") /\ owner' = none /\ UNCHANGED <<rows, receipt, crashes>>
       \/ /\ receipt \notin {Absent, local[d]} \/ (receipt = Absent /\ rows # {})
          /\ Release(d) /\ UNCHANGED <<rows, receipt, crashes>>
       \/ /\ receipt = Absent /\ rows = {} /\ rows' = local[d] /\ receipt' = local[d]
          /\ \/ Go(d, "unlink") /\ owner' = none /\ UNCHANGED crashes
             \/ crashes < CRASHES /\ crashes' = crashes + 1 /\ Release(d)
    /\ UNCHANGED <<files, pending, bound, home, edits>>

Unlink(d) ==
    /\ step[d] = "unlink" /\ local' = [local EXCEPT ![d] = Absent] /\ Take(d, none, none)
    /\ UNCHANGED <<config, binding, pending, database, owner, home, bounds>>

-----------------------------------------------------------------------------
(* The running controller writes a record. *)
Write(d) ==
    /\ step[d] \in {"local", "network"} /\ edits < EDITS /\ edits' = edits + 1
    /\ LET record == [d |-> d, n |-> edits'] IN
       /\ home' = [home EXCEPT ![d] = @ \cup {record}]
       /\ IF step[d] = "local" THEN local' = [local EXCEPT ![d] = @ \cup {record}] /\ UNCHANGED rows
          ELSE rows' = rows \cup {record} /\ UNCHANGED local
    /\ UNCHANGED <<config, binding, holder, step, pending, bound, receipt, owner, crashes>>

Stop(d) ==
    /\ step[d] \in {"local", "network"} /\ Release(d)
    /\ UNCHANGED <<files, pending, database, home, bounds>>

Crash(d) ==
    /\ crashes < CRASHES /\ crashes' = crashes + 1 /\ (holder[d] # none \/ d \in pending)
    /\ \/ d \in pending /\ pending' = pending \ {d} /\ UNCHANGED <<holder, step, owner>>
       \/ holder[d] # none /\ Release(d) /\ UNCHANGED pending
    /\ UNCHANGED <<files, database, home, edits>>

Next == \E d \in Dir :
    \/ Restore(d) \/ Migrate(d) \/ Configure(d) \/ CreateConfig(d) \/ FillConfig(d) \/ Resume(d)
    \/ StartLocal(d) \/ StartNetwork(d) \/ CreateBinding(d) \/ WriteBinding(d) \/ Connect(d)
    \/ Import(d) \/ Unlink(d) \/ Write(d) \/ Stop(d) \/ Crash(d)

Spec == Init /\ [][Next]_vars

(* The steps of a process that holds the lock: its files, and the import. *)
WritesFiles(d) == CreateConfig(d) \/ FillConfig(d) \/ CreateBinding(d) \/ WriteBinding(d)
Imports(d) == Connect(d) \/ Import(d) \/ Unlink(d)

-----------------------------------------------------------------------------
TypeOK ==
    /\ local \in [Dir -> (SUBSET Record) \cup {Absent}] /\ home \in [Dir -> SUBSET Record]
    /\ config \in [Dir -> {none, "torn", "ok"}] /\ binding \in [Dir -> {none, "torn", "ok"}]
    /\ holder \in [Dir -> {none, "migrate", "configure", "resume", "controller"}]
    /\ step \in [Dir -> {none, "create", "fill", "open", "bind", "import", "unlink", "local", "network"}]
    /\ pending \subseteq Dir /\ bound \in Dir \cup {none} /\ owner \in Dir \cup {none}
    /\ rows \subseteq Record /\ receipt \in (SUBSET Record) \cup {Absent} /\ edits \in 0..EDITS

(* Whatever a controller runs on, its own file or the database, it serves   *)
(* exactly the records its directory was ever given: none is lost in a      *)
(* migration that was interrupted, none is left in the other place, and     *)
(* none of another directory appears.                                       *)
ServesHome == \A d \in Dir :
    /\ step[d] = "local" => local[d] = home[d]
    /\ step[d] = "network" => rows = home[d]

(* docs/state-storage.md: "The destination retains its portable database    *)
(* until the network import commits."                                       *)
RetainedUntilImported ==
    [][\A d \in Dir : local[d] # Absent /\ local'[d] = Absent => bound = d /\ local[d] \subseteq rows]_vars

(* A migration whose configuration and binding were written, and that no    *)
(* other directory's binding stands against, ends with the file removed.    *)
Migrating(d) == config[d] = "ok" /\ local[d] # Absent
Migrated(d) == local[d] = Absent \/ binding[d] = "torn" \/ bound \notin {none, d}
-----------------------------------------------------------------------------
(* Proofs, for any directories and numbers of records and crashes *)

(* What the holder of the directory's lock may be about to do, and when it  *)
(* has the database's lock too.                                             *)
Holding(d) ==
    /\ holder[d] = none <=> step[d] = none
    /\ holder[d] = "migrate" => step[d] \in {"create", "fill"}
    /\ holder[d] = "configure" => step[d] \in {"create", "fill", "open", "bind"}
    /\ holder[d] = "resume" => step[d] \in {"open", "bind", "import", "unlink"}
    /\ holder[d] = "controller" => step[d] \in {"open", "bind", "local", "network"}
    /\ owner = d <=> step[d] \in {"import", "network"}

(* What a holder checked before its step still stands: nobody else writes   *)
(* the files or binds the database while it holds the lock.                 *)
Standing(d) ==
    /\ step[d] = "create" => config[d] = none
    /\ step[d] = "fill" => config[d] = "torn"
    /\ step[d] \in {"open", "bind", "import", "unlink", "network"} => config[d] = "ok"
    /\ step[d] = "local" => config[d] = none /\ local[d] # Absent
    /\ holder[d] = "resume" => local[d] # Absent
    /\ holder[d] = "configure" \/ (holder[d] = "controller" /\ step[d] # "local") => local[d] = Absent
    /\ step[d] \in {"import", "network", "unlink"} => bound = d
    /\ step[d] = "unlink" => receipt = local[d] /\ rows = local[d]
    /\ bound = d => config[d] = "ok"

(* Where the records of a directory are: in its file while it has one, and  *)
(* then the database holds nothing or that snapshot; else in the database   *)
(* bound to it.                                                             *)
Homed(d) ==
    /\ local[d] # Absent => local[d] = home[d]
    /\ local[d] = Absent => home[d] = IF bound = d THEN rows ELSE {}
    /\ bound = d /\ local[d] # Absent => (receipt = Absent /\ rows = {}) \/ (receipt = local[d] /\ rows = local[d])

Place(d) == Holding(d) /\ Standing(d) /\ Homed(d)

Inv == TypeOK /\ (bound = none => rows = {} /\ receipt = Absent) /\ \A d \in Dir : Place(d)

(* A file or a receipt is never mistaken for one that is not there. *)
LEMMA AbsentApart == Absent \notin SUBSET Record /\ Absent # {}
BY DirAssumption DEF Absent, Record

(* The empty directories and the empty database satisfy the invariant. *)
LEMMA InitInv == Init => Inv
<1> SUFFICES ASSUME Init PROVE Inv
    OBVIOUS
<1>1. TypeOK
    BY DirAssumption DEF Init, TypeOK, none
<1>2. ASSUME NEW d \in Dir PROVE Place(d)
    BY <1>2, DirAssumption DEF Init, Place, Holding, Standing, Homed, none
<1> QED BY <1>1, <1>2 DEF Inv, Init

(* What a step of one directory leaves alone: the other directories, the    *)
(* records of a database bound to another, and a lock another one holds.    *)
Frame(d) ==
    /\ \A e \in Dir \ {d} :
        /\ local'[e] = local[e] /\ config'[e] = config[e]
        /\ holder'[e] = holder[e] /\ step'[e] = step[e] /\ home'[e] = home[e]
    /\ bound' = bound \/ (bound = none /\ bound' = d)
    /\ bound # d => rows' = rows /\ receipt' = receipt
    /\ owner' = owner \/ (owner = none /\ owner' = d) \/ (owner = d /\ owner' = none)

(* So the invariant needs to be shown only of the directory that takes it. *)
LEMMA Elsewhere ==
    ASSUME Inv, NEW d \in Dir, Frame(d), TypeOK', Place(d)'
    PROVE  Inv'
<1>1. ASSUME NEW e \in Dir \ {d} PROVE Place(e)'
  <2>1. /\ local'[e] = local[e] /\ config'[e] = config[e]
        /\ holder'[e] = holder[e] /\ step'[e] = step[e] /\ home'[e] = home[e]
    BY <1>1 DEF Frame
  <2>2. /\ bound' = e <=> bound = e
        /\ bound = e => rows' = rows /\ receipt' = receipt
        /\ owner' = e <=> owner = e
    BY <1>1, DirAssumption DEF Frame
  <2>3. Holding(e) /\ Standing(e) /\ Homed(e)
    BY <1>1 DEF Inv, Place
  <2>4. Holding(e)'
    BY <2>1, <2>2, <2>3 DEF Holding
  <2>5. Standing(e)'
    BY <2>1, <2>2, <2>3 DEF Standing
  <2>6. Homed(e)'
    BY <2>1, <2>2, <2>3 DEF Homed
  <2> QED BY <2>4, <2>5, <2>6 DEF Place
<1>2. (bound = none => rows = {} /\ receipt = Absent)'
    BY DirAssumption DEF Inv, Frame
<1> QED BY <1>1, <1>2 DEF Inv

(* A bundle is restored where there is neither a file nor a configuration. *)
LEMMA RestoreStep ==
    ASSUME Inv, NEW d \in Dir, Restore(d)
    PROVE  Inv'
<1> DEFINE bundle == {[d |-> d, n |-> 0]}
<1>1. /\ holder[d] = none /\ local[d] = Absent /\ config[d] = none
      /\ local' = [local EXCEPT ![d] = bundle] /\ home' = [home EXCEPT ![d] = bundle] /\ pending' = pending \cup {d}
      /\ UNCHANGED <<config, binding, holder, step, bound, rows, receipt, owner, edits, crashes>>
    BY DEF Restore, Free, database, bounds
<1>2. bundle \subseteq Record /\ bundle # Absent
  <2>1. bundle \subseteq Record
    BY DirAssumption DEF Record
  <2> QED BY <2>1, AbsentApart
<1> HIDE DEF bundle
<1>3. TypeOK'
    BY <1>1, <1>2 DEF Inv, TypeOK
<1>4. local'[d] = bundle /\ home'[d] = bundle /\ Frame(d)
    BY <1>1 DEF Inv, TypeOK, Frame
<1>5. Holding(d) /\ Standing(d)
    BY DEF Inv, Place
<1>6. Place(d)'
    BY <1>1, <1>2, <1>4, <1>5 DEF Place, Holding, Standing, Homed, none
<1> QED BY <1>3, <1>4, <1>6, Elsewhere

(* A holder takes its directory's lock, goes on, or lets it go, and no file *)
(* or record changes.                                                       *)
LEMMA LockStep ==
    ASSUME Inv, NEW d \in Dir,
           NEW who \in {none, "migrate", "configure", "resume", "controller"},
           NEW next \in {none, "create", "fill", "open", "bind", "import", "unlink", "local", "network"},
           Take(d, who, next), pending' \subseteq Dir, UNCHANGED <<local, config, home, rows, receipt, edits>>,
           binding' \in [Dir -> {none, "torn", "ok"}],
           bound' = bound \/ (bound = none /\ bound' = d), owner' \in Dir \cup {none},
           owner' = owner \/ (owner = none /\ owner' = d) \/ (owner = d /\ owner' = none),
           step'[d] = next /\ holder'[d] = who => Place(d)'
    PROVE  Inv'
<1>1. holder' = [holder EXCEPT ![d] = who] /\ step' = [step EXCEPT ![d] = next]
    BY DEF Take
<1>2. TypeOK'
    BY <1>1 DEF Inv, TypeOK
<1>3. Frame(d) /\ holder'[d] = who /\ step'[d] = next
    BY <1>1 DEF Inv, TypeOK, Frame
<1> QED BY <1>2, <1>3, Elsewhere

(* Going on is taking the lock one holds. *)
LEMMA GoIsTake ==
    ASSUME Inv, NEW d \in Dir, NEW next, Go(d, next)
    PROVE  Take(d, holder[d], next) /\ holder[d] \in {none, "migrate", "configure", "resume", "controller"}
BY DEF Inv, TypeOK, Go, Take

(* A process that ends closes what it holds. *)
LEMMA ReleaseStep ==
    ASSUME Inv, NEW d \in Dir, Release(d), pending' \subseteq Dir,
           UNCHANGED <<local, config, binding, home, bound, rows, receipt, edits>>
    PROVE  Inv'
<1>1. Take(d, none, none) /\ owner' = (IF owner = d THEN none ELSE owner)
    BY DEF Release
<1>2. Place(d) /\ binding \in [Dir -> {none, "torn", "ok"}] /\ owner \in Dir \cup {none} /\ d # none
    BY DirAssumption DEF Inv, TypeOK
<1>3. step'[d] = none /\ holder'[d] = none => Place(d)'
    BY <1>1, <1>2 DEF Place, Holding, Standing, Homed, none
<1> QED BY <1>1, <1>2, <1>3, LockStep

(* migrate, configure, resume and a controller on the network take a lock   *)
(* after looking at the files.                                              *)
LEMMA TakeStep ==
    ASSUME Inv, NEW d \in Dir, Migrate(d) \/ Configure(d) \/ Resume(d) \/ StartNetwork(d)
    PROVE  Inv'
<1>1. Holding(d) /\ Standing(d) /\ Homed(d) /\ binding \in [Dir -> {none, "torn", "ok"}]
      /\ owner \in Dir \cup {none} /\ pending \subseteq Dir /\ d # none
    BY DirAssumption DEF Inv, TypeOK, Place
<1>2. CASE Migrate(d)
  <2>1. pending' = pending \ {d} /\ UNCHANGED <<local, config, binding, bound, rows, receipt, owner, home, edits>>
    BY <1>2 DEF Migrate, files, database, bounds
  <2>2. CASE Free(d) /\ config[d] = none
    <3>1. Take(d, "migrate", "create")
      BY <1>2, <2>2 DEF Migrate
    <3>2. step'[d] = "create" /\ holder'[d] = "migrate" => Place(d)'
      BY <1>1, <2>1, <2>2 DEF Place, Holding, Standing, Homed, none, Free
    <3> QED BY <1>1, <2>1, <3>1, <3>2, LockStep
  <2>3. CASE ~(Free(d) /\ config[d] = none)
    <3>1. UNCHANGED <<holder, step>>
      BY <1>2, <2>3 DEF Migrate
    <3>2. TypeOK' /\ Frame(d) /\ Place(d)'
      BY <1>1, <2>1, <3>1 DEF Inv, TypeOK, Frame, Place, Holding, Standing, Homed
    <3> QED BY <3>2, Elsewhere
  <2> QED BY <2>2, <2>3
<1>3. CASE Configure(d)
  <2>1. /\ holder[d] = none /\ local[d] = Absent /\ config[d] = none /\ Take(d, "configure", "create")
        /\ UNCHANGED <<local, config, binding, pending, bound, rows, receipt, owner, home, edits>>
    BY <1>3 DEF Configure, Free, files, database, bounds
  <2>2. step'[d] = "create" /\ holder'[d] = "configure" => Place(d)'
    BY <1>1, <2>1 DEF Place, Holding, Standing, Homed, none
  <2> QED BY <1>1, <2>1, <2>2, LockStep
<1>4. CASE Resume(d)
  <2>1. /\ holder[d] = none /\ local[d] # Absent /\ config[d] = "ok" /\ Take(d, "resume", "open")
        /\ UNCHANGED <<local, config, binding, pending, bound, rows, receipt, owner, home, edits>>
    BY <1>4 DEF Resume, Free, files, database, bounds
  <2>2. step'[d] = "open" /\ holder'[d] = "resume" => Place(d)'
    BY <1>1, <2>1 DEF Place, Holding, Standing, Homed, none
  <2> QED BY <1>1, <2>1, <2>2, LockStep
<1>5. CASE StartNetwork(d)
  <2>1. /\ holder[d] = none /\ local[d] = Absent /\ config[d] = "ok" /\ Take(d, "controller", "open")
        /\ UNCHANGED <<local, config, binding, pending, bound, rows, receipt, owner, home, edits>>
    BY <1>5 DEF StartNetwork, Free, files, database, bounds
  <2>2. step'[d] = "open" /\ holder'[d] = "controller" => Place(d)'
    BY <1>1, <2>1 DEF Place, Holding, Standing, Homed, none
  <2> QED BY <1>1, <2>1, <2>2, LockStep
<1> QED BY <1>2, <1>3, <1>4, <1>5

(* The configuration is created, then filled. *)
LEMMA ConfigStep ==
    ASSUME Inv, NEW d \in Dir, CreateConfig(d) \/ FillConfig(d)
    PROVE  Inv'
<1>1. Holding(d) /\ Standing(d) /\ Homed(d) /\ d # none
    BY DirAssumption DEF Inv, Place
<1>2. CASE CreateConfig(d)
  <2>1. /\ step[d] = "create" /\ config' = [config EXCEPT ![d] = "torn"]
        /\ step' = [step EXCEPT ![d] = "fill"]
        /\ UNCHANGED <<local, binding, holder, pending, bound, rows, receipt, owner, home, edits>>
    BY <1>2 DEF CreateConfig, Go, database, bounds
  <2>2. TypeOK' /\ Frame(d) /\ step'[d] = "fill" /\ config'[d] = "torn"
    BY <2>1 DEF Inv, TypeOK, Frame
  <2>3. Place(d)'
    BY <1>1, <2>1, <2>2 DEF Place, Holding, Standing, Homed, none
  <2> QED BY <2>2, <2>3, Elsewhere
<1>3. CASE FillConfig(d)
  <2>1. /\ step[d] = "fill" /\ config' = [config EXCEPT ![d] = "ok"]
        /\ IF holder[d] = "migrate" THEN Take(d, none, none) ELSE Go(d, "open")
        /\ UNCHANGED <<local, binding, pending, bound, rows, receipt, owner, home, edits>>
    BY <1>3 DEF FillConfig, database, bounds
  <2>2. CASE holder[d] = "migrate"
    <3>1. /\ TypeOK' /\ Frame(d) /\ step'[d] = none /\ holder'[d] = none /\ config'[d] = "ok"
      BY <2>1, <2>2 DEF Inv, TypeOK, Frame, Take
    <3>2. Place(d)'
      BY <1>1, <2>1, <2>2, <3>1 DEF Place, Holding, Standing, Homed, none
    <3> QED BY <3>1, <3>2, Elsewhere
  <2>3. CASE holder[d] # "migrate"
    <3>1. /\ TypeOK' /\ Frame(d) /\ step'[d] = "open" /\ holder' = holder /\ config'[d] = "ok"
      BY <2>1, <2>3 DEF Inv, TypeOK, Frame, Go
    <3>2. holder[d] = "configure"
      BY <1>1, <2>1, <2>3 DEF Inv, TypeOK, Holding, none
    <3>3. Place(d)'
      BY <1>1, <2>1, <3>1, <3>2 DEF Place, Holding, Standing, Homed, none
    <3> QED BY <3>1, <3>3, Elsewhere
  <2> QED BY <2>2, <2>3
<1> QED BY <1>2, <1>3

(* A controller without a configuration opens its file, or makes one. *)
LEMMA StartLocalStep ==
    ASSUME Inv, NEW d \in Dir, StartLocal(d)
    PROVE  Inv'
<1> DEFINE opened == IF local[d] = Absent THEN {} ELSE local[d]
<1>1. /\ holder[d] = none /\ config[d] = none /\ Take(d, "controller", "local")
      /\ local' = [local EXCEPT ![d] = opened]
      /\ UNCHANGED <<config, binding, pending, bound, rows, receipt, owner, home, edits>>
    BY DEF StartLocal, Free, database, bounds
<1>2. Holding(d) /\ Standing(d) /\ Homed(d) /\ d # none
    BY DirAssumption DEF Inv, Place
<1>3. opened \in SUBSET Record /\ opened # Absent /\ opened = home[d]
  <2>1. opened = home[d]
    BY <1>1, <1>2 DEF Standing, Homed, none
  <2> QED BY <2>1, AbsentApart DEF Inv, TypeOK
<1> HIDE DEF opened
<1>4. /\ TypeOK' /\ Frame(d) /\ step'[d] = "local" /\ holder'[d] = "controller" /\ local'[d] = opened
    BY <1>1, <1>3 DEF Inv, TypeOK, Frame, Take
<1>5. Place(d)'
    BY <1>1, <1>2, <1>3, <1>4 DEF Place, Holding, Standing, Homed, none
<1> QED BY <1>4, <1>5, Elsewhere

(* The binding file is created, then written. *)
LEMMA BindingStep ==
    ASSUME Inv, NEW d \in Dir, CreateBinding(d) \/ WriteBinding(d)
    PROVE  Inv'
<1>1. Holding(d) /\ Standing(d) /\ Homed(d) /\ owner \in Dir \cup {none} /\ pending \subseteq Dir
    BY DEF Inv, TypeOK, Place
<1>2. PICK next \in {"open", "bind"} :
        /\ step[d] \in {"open", "bind"} /\ Go(d, next)
        /\ UNCHANGED <<local, config, pending, bound, rows, receipt, owner, home, edits>>
    BY DEF CreateBinding, WriteBinding, database, bounds
<1>3. binding' \in [Dir -> {none, "torn", "ok"}]
    BY DEF CreateBinding, WriteBinding, Inv, TypeOK
<1>4. Take(d, holder[d], next) /\ holder[d] \in {none, "migrate", "configure", "resume", "controller"}
    BY <1>2, GoIsTake
<1>5. step'[d] = next /\ holder'[d] = holder[d] => Place(d)'
    BY <1>1, <1>2, <1>4 DEF Place, Holding, Standing, Homed, none
<1> QED BY <1>1, <1>2, <1>3, <1>4, <1>5, LockStep

(* The database is opened for its directory only, and bound if it is empty. *)
LEMMA ConnectStep ==
    ASSUME Inv, NEW d \in Dir, Connect(d)
    PROVE  Inv'
<1>1. Holding(d) /\ Standing(d) /\ Homed(d) /\ owner \in Dir \cup {none} /\ pending \subseteq Dir /\ d # none
      /\ binding \in [Dir -> {none, "torn", "ok"}] /\ (bound = none => rows = {} /\ receipt = Absent)
    BY DirAssumption DEF Inv, TypeOK, Place
<1>2. step[d] = "open" /\ UNCHANGED <<local, config, binding, pending, rows, receipt, home, edits>>
    BY DEF Connect, files, bounds
<1>3. CASE ~Accepts(d)
  <2>1. Release(d) /\ UNCHANGED bound
    BY <1>3 DEF Connect
  <2> QED BY <1>1, <1>2, <2>1, ReleaseStep
<1>4. CASE Accepts(d)
  <2>1. owner = none /\ bound \in {none, d} /\ bound' = d
    BY <1>4 DEF Connect, Accepts
  <2>2. CASE holder[d] = "configure"
    <3>1. Take(d, none, none) /\ UNCHANGED owner
      BY <1>4, <2>2 DEF Connect
    <3>2. step'[d] = none /\ holder'[d] = none => Place(d)'
      BY <1>1, <1>2, <2>1, <2>2, <3>1 DEF Place, Holding, Standing, Homed, none
    <3> QED BY <1>1, <1>2, <2>1, <3>1, <3>2, LockStep
  <2>3. CASE holder[d] = "resume"
    <3>1. Go(d, "import") /\ owner' = d
      BY <1>4, <2>3 DEF Connect
    <3>2. Take(d, "resume", "import")
      BY <2>3, <3>1, GoIsTake
    <3>3. step'[d] = "import" /\ holder'[d] = "resume" => Place(d)'
      BY <1>1, <1>2, <2>1, <2>3, <3>1 DEF Place, Holding, Standing, Homed, none
    <3> QED BY <1>1, <1>2, <2>1, <3>1, <3>2, <3>3, LockStep
  <2>4. CASE holder[d] = "controller"
    <3>1. Go(d, "network") /\ owner' = d
      BY <1>4, <2>4 DEF Connect
    <3>2. Take(d, "controller", "network")
      BY <2>4, <3>1, GoIsTake
    <3>3. step'[d] = "network" /\ holder'[d] = "controller" => Place(d)'
      BY <1>1, <1>2, <2>1, <2>4, <3>1 DEF Place, Holding, Standing, Homed, none
    <3> QED BY <1>1, <1>2, <2>1, <3>1, <3>2, <3>3, LockStep
  <2>5. holder[d] \in {"configure", "resume", "controller"}
    BY <1>1, <1>2 DEF Inv, TypeOK, Holding, none
  <2> QED BY <2>2, <2>3, <2>4, <2>5
<1> QED BY <1>3, <1>4

(* The snapshot is imported once, and an answer may be lost after it. *)
LEMMA ImportStep ==
    ASSUME Inv, NEW d \in Dir, Import(d)
    PROVE  Inv'
<1>1. Holding(d) /\ Standing(d) /\ Homed(d) /\ owner \in Dir \cup {none} /\ pending \subseteq Dir /\ d # none
      /\ binding \in [Dir -> {none, "torn", "ok"}]
    BY DirAssumption DEF Inv, TypeOK, Place
<1>2. step[d] = "import" /\ UNCHANGED <<local, config, binding, pending, bound, home, edits>>
    BY DEF Import, files
<1>3. holder[d] = "resume" /\ owner = d /\ bound = d /\ local[d] # Absent /\ local[d] \in SUBSET Record
    BY <1>1, <1>2 DEF Inv, TypeOK, Holding, Standing, none
<1>4. CASE receipt = local[d] /\ Go(d, "unlink") /\ owner' = none /\ UNCHANGED <<rows, receipt, crashes>>
  <2>1. Take(d, "resume", "unlink")
    BY <1>3, <1>4, GoIsTake
  <2>2. step'[d] = "unlink" /\ holder'[d] = "resume" => Place(d)'
    BY <1>1, <1>2, <1>3, <1>4 DEF Place, Holding, Standing, Homed, none
  <2> QED BY <1>1, <1>2, <1>3, <1>4, <2>1, <2>2, LockStep
<1>5. CASE Release(d) /\ UNCHANGED <<rows, receipt, crashes>>
    BY <1>1, <1>2, <1>5, ReleaseStep
<1>6. CASE rows' = local[d] /\ receipt' = local[d] /\ ((Go(d, "unlink") /\ owner' = none) \/ Release(d))
  <2>1. CASE Go(d, "unlink") /\ owner' = none
    <3>1. /\ TypeOK' /\ Frame(d) /\ step'[d] = "unlink" /\ holder'[d] = "resume"
      BY <1>2, <1>3, <1>6, <2>1 DEF Inv, TypeOK, Frame, Go
    <3>2. Place(d)'
      BY <1>1, <1>2, <1>3, <1>6, <2>1, <3>1 DEF Place, Holding, Standing, Homed, none
    <3> QED BY <3>1, <3>2, Elsewhere
  <2>2. CASE Release(d)
    <3>1. owner' = none
      BY <1>3, <2>2 DEF Release
    <3>2. /\ TypeOK' /\ Frame(d) /\ step'[d] = none /\ holder'[d] = none
      BY <1>2, <1>3, <1>6, <2>2, <3>1 DEF Inv, TypeOK, Frame, Release, Take
    <3>3. Place(d)'
      BY <1>1, <1>2, <1>3, <1>6, <3>1, <3>2 DEF Place, Holding, Standing, Homed, none
    <3> QED BY <3>2, <3>3, Elsewhere
  <2> QED BY <1>6, <2>1, <2>2
<1> QED BY <1>4, <1>5, <1>6 DEF Import

(* The file goes only when the database holds what it held. *)
LEMMA UnlinkStep ==
    ASSUME Inv, NEW d \in Dir, Unlink(d)
    PROVE  Inv' /\ bound = d /\ local[d] = rows
<1>1. /\ step[d] = "unlink" /\ local' = [local EXCEPT ![d] = Absent] /\ Take(d, none, none)
      /\ UNCHANGED <<config, binding, pending, bound, rows, receipt, owner, home, edits>>
    BY DEF Unlink, database, bounds
<1>2. Holding(d) /\ Standing(d) /\ Homed(d) /\ d # none
    BY DirAssumption DEF Inv, Place
<1>3. /\ TypeOK' /\ Frame(d) /\ step'[d] = none /\ holder'[d] = none /\ local'[d] = Absent
    BY <1>1 DEF Inv, TypeOK, Frame, Take
<1>4. holder[d] = "resume" /\ bound = d /\ local[d] # Absent /\ local[d] = rows
    BY <1>1, <1>2 DEF Inv, TypeOK, Holding, Standing, none
<1>5. Place(d)'
    BY <1>1, <1>2, <1>3, <1>4 DEF Place, Holding, Standing, Homed, none
<1> QED BY <1>3, <1>4, <1>5, Elsewhere

(* A controller writes where the records of its directory are. *)
LEMMA WriteStep ==
    ASSUME Inv, NEW d \in Dir, Write(d)
    PROVE  Inv' /\ (local'[d] # Absent \/ local' = local)
<1> DEFINE record == [d |-> d, n |-> edits']
<1>1. /\ step[d] \in {"local", "network"} /\ edits < EDITS /\ edits' = edits + 1
      /\ home' = [home EXCEPT ![d] = @ \cup {record}]
      /\ IF step[d] = "local" THEN local' = [local EXCEPT ![d] = @ \cup {record}] /\ UNCHANGED rows
         ELSE rows' = rows \cup {record} /\ UNCHANGED local
      /\ UNCHANGED <<config, binding, holder, step, pending, bound, receipt, owner>>
    BY DEF Write
<1>2. edits' \in 0..EDITS /\ record \in Record
    BY <1>1, DirAssumption DEF Inv, TypeOK, Record
<1> HIDE DEF record
<1>3. Holding(d) /\ Standing(d) /\ Homed(d) /\ d # none
    BY DirAssumption DEF Inv, Place
<1>4. CASE step[d] = "local"
  <2>1. local[d] # Absent /\ bound # d /\ local[d] \in SUBSET Record
    BY <1>3, <1>4 DEF Inv, TypeOK, Standing, none
  <2>2. local[d] \cup {record} \in SUBSET Record /\ local[d] \cup {record} # Absent
    BY <1>2, <2>1, AbsentApart
  <2>3. TypeOK' /\ Frame(d) /\ local'[d] = local[d] \cup {record} /\ home'[d] = home[d] \cup {record}
    BY <1>1, <1>2, <1>4, <2>2 DEF Inv, TypeOK, Frame
  <2>4. Place(d)'
    BY <1>1, <1>3, <1>4, <2>1, <2>2, <2>3 DEF Place, Holding, Standing, Homed, none
  <2> QED BY <2>2, <2>3, <2>4, Elsewhere
<1>5. CASE step[d] = "network"
  <2>1. local[d] = Absent /\ bound = d
    BY <1>3, <1>5 DEF Inv, TypeOK, Holding, Standing, none
  <2>2. TypeOK' /\ Frame(d) /\ local' = local /\ rows' = rows \cup {record} /\ home'[d] = home[d] \cup {record}
    BY <1>1, <1>2, <1>5, <2>1 DEF Inv, TypeOK, Frame
  <2>3. Place(d)'
    BY <1>1, <1>3, <1>5, <2>1, <2>2 DEF Place, Holding, Standing, Homed, none
  <2> QED BY <2>2, <2>3, Elsewhere
<1> QED BY <1>1, <1>4, <1>5

(* A process stops or dies, or migrate dies between its parts. *)
LEMMA EndStep ==
    ASSUME Inv, NEW d \in Dir, Stop(d) \/ Crash(d)
    PROVE  Inv'
<1>1. /\ UNCHANGED <<local, config, binding, home, bound, rows, receipt, edits>> /\ pending' \subseteq Dir
      /\ (Release(d) \/ UNCHANGED <<holder, step, owner>>)
    BY DEF Stop, Crash, files, database, bounds, Inv, TypeOK
<1>2. CASE Release(d)
    BY <1>1, <1>2, ReleaseStep
<1>3. CASE UNCHANGED <<holder, step, owner>>
  <2>1. TypeOK' /\ Frame(d) /\ Place(d)'
    BY <1>1, <1>3 DEF Inv, TypeOK, Frame, Place, Holding, Standing, Homed
  <2> QED BY <2>1, Elsewhere
<1> QED BY <1>1, <1>2, <1>3

(* A step that changes nothing preserves the invariant. *)
LEMMA StutterStep ==
    ASSUME Inv, UNCHANGED vars
    PROVE  Inv'
BY DEF Inv, vars, TypeOK, Place, Holding, Standing, Homed

(* The invariant holds in every reachable state. *)
LEMMA Invariant == Spec => []Inv
<1>1. ASSUME Inv, Next PROVE Inv'
    BY <1>1, RestoreStep, TakeStep, ConfigStep, StartLocalStep, BindingStep, ConnectStep, ImportStep, UnlinkStep,
       WriteStep, EndStep DEF Next
<1>2. Inv /\ [Next]_vars => Inv'
    BY <1>1, StutterStep
<1> QED BY InitInv, <1>2, PTL DEF Spec

(* A controller serves every record its directory was given, and only       *)
(* those, wherever Store opened them and however often a migration was      *)
(* interrupted before.                                                      *)
THEOREM HomeServed == Spec => []ServesHome
<1>1. Inv => ServesHome
  <2> SUFFICES ASSUME Inv, NEW d \in Dir
               PROVE  (step[d] = "local" => local[d] = home[d]) /\ (step[d] = "network" => rows = home[d])
    BY DEF ServesHome
  <2>1. Holding(d) /\ Standing(d) /\ Homed(d)
    BY DEF Inv, Place
  <2> QED BY <2>1 DEF Inv, TypeOK, Holding, Standing, Homed, none
<1> QED BY Invariant, <1>1, PTL

(* The portable file is removed only after the database bound to its        *)
(* directory holds all of it.                                               *)
THEOREM RetainedThroughout == Spec => RetainedUntilImported
<1>1. ASSUME Inv, [Next]_vars
      PROVE  [\A d \in Dir : local[d] # Absent /\ local'[d] = Absent => bound = d /\ local[d] \subseteq rows]_vars
  <2> SUFFICES ASSUME Next, NEW d \in Dir, local[d] # Absent, local'[d] = Absent
               PROVE  bound = d /\ local[d] \subseteq rows
    BY <1>1
  <2>1. PICK e \in Dir :
        \/ Restore(e) \/ Migrate(e) \/ Configure(e) \/ CreateConfig(e) \/ FillConfig(e) \/ Resume(e)
        \/ StartLocal(e) \/ StartNetwork(e) \/ CreateBinding(e) \/ WriteBinding(e) \/ Connect(e)
        \/ Import(e) \/ Unlink(e) \/ Write(e) \/ Stop(e) \/ Crash(e)
    BY DEF Next
  <2>2. local' # local /\ local \in [Dir -> (SUBSET Record) \cup {Absent}]
    BY <1>1 DEF Inv, TypeOK
  <2>3. CASE Unlink(e)
    <3>1. local' = [local EXCEPT ![e] = Absent] /\ bound = e /\ local[e] = rows
      BY <1>1, <2>3, UnlinkStep DEF Unlink
    <3> QED BY <2>2, <3>1
  <2>4. CASE Restore(e)
    <3>1. local' = [local EXCEPT ![e] = {[d |-> e, n |-> 0]}] /\ {[d |-> e, n |-> 0]} \in SUBSET Record
      BY <2>4, DirAssumption DEF Restore, Record
    <3> QED BY <2>2, <3>1, AbsentApart
  <2>5. CASE StartLocal(e)
    BY <2>2, <2>5, AbsentApart DEF StartLocal
  <2>6. CASE Write(e)
    <3>1. local'[e] # Absent /\ \A x \in Dir \ {e} : local'[x] = local[x]
      BY <1>1, <2>2, <2>6, WriteStep DEF Write
    <3> QED BY <3>1
  <2>7. CASE \/ Migrate(e) \/ Configure(e) \/ CreateConfig(e) \/ FillConfig(e) \/ Resume(e) \/ StartNetwork(e)
             \/ CreateBinding(e) \/ WriteBinding(e) \/ Connect(e) \/ Import(e) \/ Stop(e) \/ Crash(e)
    BY <2>2, <2>7 DEF Migrate, Configure, CreateConfig, FillConfig, Resume, StartNetwork, CreateBinding, WriteBinding,
                      Connect, Import, Stop, Crash, files
  <2> QED BY <2>1, <2>3, <2>4, <2>5, <2>6, <2>7
<1> QED BY Invariant, <1>1, PTL DEF Spec, RetainedUntilImported
=============================================================================
