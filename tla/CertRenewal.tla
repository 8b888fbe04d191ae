----------------------------- MODULE CertRenewal -----------------------------
(***************************************************************************)
(* The daily renewal of the private TLS pairs of the identity service and  *)
(* its database.  A pair lives in a version directory; "current" names the *)
(* one in use, "previous" the one before, and a pending record says that a *)
(* publication has begun and what it replaces.  One run at a time has the  *)
(* lock; it may be killed between any two changes of the disk.             *)
(*                                                                         *)
(* A certificate is its issue number.  A renewal keeps the private key, so *)
(* a pair is told apart by its certificate.                                *)
(***************************************************************************)
EXTENDS Naturals, FiniteSets

CONSTANTS
    Backend,   \* backends whose pair is renewed
    Database,  \* the backend that has to be told to reload
    Slot,      \* names of version directories (a name is used again once free)
    MaxIssue,  \* bound: certificates issued per backend
    MaxKill,   \* bound: killed runs
    MaxFail,   \* bound: failing writes and reloads
    None

SlotAssumption == Database \in Backend /\ IsFiniteSet(Slot)

VARIABLES
    ver,     \* Backend -> Slot -> None, Made, Part or the certificate it holds
    cur, prev,  \* Backend -> the version a pointer names, or None
    plain,   \* Backend -> which of server.pem and server.key are still files
    pair,    \* Backend -> the certificate those files hold
    pend,    \* Backend -> the pending record [old, new], or None
    issued,  \* Backend -> certificates issued
    due,     \* Backend -> certificates that are due for renewal
    loaded,  \* Backend -> the certificate its service uses
    run,     \* the run that has the lock, or None
    kills, fails

disk == <<ver, cur, prev, plain, pair, pend>>
vars == <<disk, issued, due, loaded, run, kills, fails>>

Made == MaxIssue + 1    \* a directory without its owner and mode
Part == MaxIssue + 2    \* a directory whose files are incomplete
Cert == 0..MaxIssue

Init ==
    /\ ver = [b \in Backend |-> [s \in Slot |-> None]]
    /\ cur = [b \in Backend |-> None] /\ prev = [b \in Backend |-> None]
    /\ plain = [b \in Backend |-> {"pem", "key"}] /\ pair = [b \in Backend |-> 0]
    /\ pend = [b \in Backend |-> None] /\ issued = [b \in Backend |-> 0]
    /\ due = [b \in Backend |-> {}] /\ loaded = [b \in Backend |-> 0]
    /\ run = None /\ kills = 0 /\ fails = 0

Held(b, s) == IF s = None THEN None ELSE ver[b][s]
(* Backend.data: what a reader of server.pem, or of server.key, finds. *)
Opens(b, name) == IF name \in plain[b] THEN pair[b] ELSE Held(b, cur[b])
Active(b) == Opens(b, "pem")

At(pc) == run # None /\ run.pc = pc
Goto(pc) == run' = [run EXCEPT !.pc = pc]
Put(b, s, x) == ver' = [ver EXCEPT ![b][s] = x]
Fail == fails < MaxFail /\ fails' = fails + 1

-----------------------------------------------------------------------------
(* A run.  "todo" are the backends the present phase still has to visit.     *)

Begun(pc, S, all) == [pc |-> pc, todo |-> S, all |-> all, old |-> [b \in Backend |-> None],
                      new |-> [b \in Backend |-> None]]

(* execute: a pending record is rolled back and nothing else; otherwise the  *)
(* pairs that are due are renewed.                                           *)
Start ==
    LET pending == {b \in Backend : pend[b] # None}
        changed == {b \in Backend : Active(b) \in due[b]}
    IN /\ run = None
       /\ IF pending # {}
          THEN /\ \A b \in pending : Held(b, pend[b].old) \in Cert
               /\ run' = Begun("recover", pending, pending)
          ELSE changed # {} /\ run' = Begun("prune", changed, changed)
       /\ UNCHANGED <<disk, issued, due, loaded, kills, fails>>

(* The backend whose turn it is: the identity service's comes first. *)
Turn(b) == b \in run.todo /\ (b = Database => run.todo = {Database})
Done(b, pc, last) == run' = [run EXCEPT !.todo = IF @ = {b} THEN run.all ELSE @ \ {b},
                                        !.pc = IF run.todo = {b} THEN last ELSE pc]

Garbage(b) == {s \in Slot : ver[b][s] # None /\ s \notin {cur[b], prev[b]}}

(* Backend.prune: a directory that is not as it should be stops the run. *)
Pruned(b) ==
    /\ \A s \in Garbage(b) : ver[b][s] # Made
    /\ \E s \in Garbage(b) : Put(b, s, IF ver[b][s] = Part THEN None ELSE Part)

Prune(b) ==
    /\ At("prune") /\ Turn(b) /\ Pruned(b)
    /\ UNCHANGED <<cur, prev, plain, pair, pend, issued, due, loaded, run, kills, fails>>

(* The pair in use is the current version, or is saved as one; then a        *)
(* certificate is issued and saved.                                          *)
Pruning(b) ==
    /\ At("prune") /\ Turn(b) /\ Garbage(b) = {}
    /\ run' = [run EXCEPT !.pc = IF cur[b] = None THEN "saveold" ELSE "savenew", !.old[b] = cur[b]]
    /\ UNCHANGED <<disk, issued, due, loaded, kills, fails>>

Free(b) == CHOOSE s \in Slot : ver[b][s] = None

(* Backend.save: the directory, its owner and mode, its files. *)
MakeVersion(b) ==
    /\ run # None /\ run.pc \in {"saveold", "savenew"} /\ Turn(b)
    /\ \A s \in Slot : ver[b][s] \notin {Made, Part}
    /\ \E s \in Slot : ver[b][s] = None
    /\ run.pc = "savenew" => issued[b] < MaxIssue
    /\ Put(b, Free(b), Made)
    /\ UNCHANGED <<cur, prev, plain, pair, pend, issued, due, loaded, run, kills, fails>>

OwnVersion(b) ==
    /\ run # None /\ run.pc \in {"saveold", "savenew"} /\ Turn(b)
    /\ \E s \in Slot : ver[b][s] = Made /\ Put(b, s, Part)
    /\ UNCHANGED <<cur, prev, plain, pair, pend, issued, due, loaded, run, kills, fails>>

FillVersion(b) ==
    /\ run # None /\ run.pc \in {"saveold", "savenew"} /\ Turn(b)
    /\ \E s \in Slot :
          /\ ver[b][s] = Part
          /\ IF run.pc = "saveold"
             THEN /\ Put(b, s, Active(b)) /\ run' = [run EXCEPT !.pc = "savenew", !.old[b] = s]
                  /\ UNCHANGED issued
             ELSE /\ Put(b, s, issued[b] + 1) /\ issued' = [issued EXCEPT ![b] = @ + 1]
                  /\ run' = [run EXCEPT !.new[b] = s,
                                        !.todo = IF @ = {b} THEN run.all ELSE @ \ {b},
                                        !.pc = IF run.todo = {b} THEN "journal" ELSE "prune"]
    /\ UNCHANGED <<cur, prev, plain, pair, pend, due, loaded, kills, fails>>

-----------------------------------------------------------------------------
(* Backend.publish, one durable change at a time.                            *)

Journal(b) ==
    /\ At("journal") /\ Turn(b) /\ Goto("current")
    /\ pend' = [pend EXCEPT ![b] = [old |-> run.old[b], new |-> run.new[b]]]
    /\ UNCHANGED <<ver, cur, prev, plain, pair, issued, due, loaded, kills, fails>>

\* Mutant: "current" is made with the switch only.
FirstCurrentLate(b) ==
    /\ At("current") /\ Turn(b) /\ Goto("pem")
    /\ UNCHANGED <<disk, issued, due, loaded, kills, fails>>

FirstCurrent(b) ==
    /\ At("current") /\ Turn(b) /\ Goto("pem")
    /\ cur' = [cur EXCEPT ![b] = IF @ = None THEN run.old[b] ELSE @]
    /\ UNCHANGED <<ver, prev, plain, pair, pend, issued, due, loaded, kills, fails>>

LinkName(b) ==
    /\ run # None /\ run.pc \in {"pem", "key"} /\ Turn(b)
    /\ plain' = [plain EXCEPT ![b] = @ \ {run.pc}]
    /\ Goto(IF run.pc = "pem" THEN "key" ELSE "previous")
    /\ UNCHANGED <<ver, cur, prev, pair, pend, issued, due, loaded, kills, fails>>

LinkPrevious(b) ==
    /\ At("previous") /\ Turn(b) /\ Goto("switch") /\ prev' = [prev EXCEPT ![b] = run.old[b]]
    /\ UNCHANGED <<ver, cur, plain, pair, pend, issued, due, loaded, kills, fails>>

Switch(b) ==
    /\ At("switch") /\ Turn(b) /\ cur' = [cur EXCEPT ![b] = run.new[b]]
    /\ Done(b, "journal", IF Database \in run.all THEN "reload" ELSE "finish")
    /\ UNCHANGED <<ver, prev, plain, pair, pend, issued, due, loaded, kills, fails>>

Reload ==
    /\ At("reload") /\ loaded' = [loaded EXCEPT ![Database] = Active(Database)] /\ Goto("finish")
    /\ UNCHANGED <<disk, issued, due, kills, fails>>

(* A write or the reload fails: every pair whose publication has begun is    *)
(* restored.                                                                 *)
Abort ==
    /\ run # None /\ run.pc \in {"journal", "current", "pem", "key", "previous", "switch", "reload"} /\ Fail
    /\ LET begun == {b \in run.all : pend[b] # None}
       IN run' = IF begun = {} THEN None ELSE Begun("undo", begun, run.all)
    /\ UNCHANGED <<disk, issued, due, loaded, kills>>

Prior(b) == pend[b].old

(* Backend.restore: "current" first, then the names. *)
Restore(b) ==
    /\ run # None /\ run.pc \in {"undo", "recover"} /\ Turn(b)
    /\ IF cur[b] # Prior(b) THEN cur' = [cur EXCEPT ![b] = Prior(b)] /\ UNCHANGED <<plain, run>>
       ELSE IF plain[b] # {}
       THEN plain' = [plain EXCEPT ![b] = @ \ {IF "pem" \in @ THEN "pem" ELSE "key"}] /\ UNCHANGED <<cur, run>>
       ELSE /\ run' = [run EXCEPT !.todo = IF @ = {b} THEN run.all ELSE @ \ {b},
                                  !.pc = IF run.todo # {b} THEN @
                                         ELSE IF Database \in run.all /\ pend[Database] # None
                                         THEN (IF @ = "undo" THEN "undoreload" ELSE "rereload")
                                         ELSE (IF @ = "undo" THEN "undofinish" ELSE "finish")]
            /\ UNCHANGED <<cur, plain>>
    /\ UNCHANGED <<ver, prev, pair, pend, issued, due, loaded, kills, fails>>

ReloadPrior ==
    /\ run # None /\ run.pc \in {"undoreload", "rereload"}
    /\ loaded' = [loaded EXCEPT ![Database] = Active(Database)]
    /\ Goto(IF run.pc = "undoreload" THEN "undofinish" ELSE "finish")
    /\ UNCHANGED <<disk, issued, due, kills, fails>>

(* The records stay for the next run. *)
ReloadPriorFails ==
    /\ run # None /\ run.pc \in {"undoreload", "rereload"} /\ Fail /\ run' = None
    /\ UNCHANGED <<disk, issued, due, loaded, kills>>

(* Backend.finish; after a renewal or a recovery old versions are removed. *)
Finish(b) ==
    /\ run # None /\ run.pc \in {"finish", "undofinish"} /\ Turn(b)
    /\ pend' = [pend EXCEPT ![b] = None]
    /\ run' = IF run.pc = "finish" THEN [run EXCEPT !.pc = "tidy"]
              ELSE IF run.todo = {b} THEN None ELSE [run EXCEPT !.todo = @ \ {b}]
    /\ UNCHANGED <<ver, cur, prev, plain, pair, issued, due, loaded, kills, fails>>

Tidy(b) ==
    /\ At("tidy") /\ Turn(b)
    /\ IF Garbage(b) = {}
       THEN /\ run' = IF run.todo = {b} THEN None ELSE [run EXCEPT !.pc = "finish", !.todo = @ \ {b}]
            /\ UNCHANGED ver
       ELSE Pruned(b) /\ UNCHANGED run
    /\ UNCHANGED <<cur, prev, plain, pair, pend, issued, due, loaded, kills, fails>>

(* A directory the run does not accept, or a failing step before anything is *)
(* published, ends it.                                                       *)
Stop ==
    /\ run # None
    /\ \/ /\ run.pc \in {"prune", "tidy"} /\ \E b \in run.todo : Turn(b) /\ \E s \in Garbage(b) : ver[b][s] = Made
          /\ UNCHANGED fails
       \/ run.pc \in {"prune", "saveold", "savenew", "recover"} /\ Fail
    /\ run' = None
    /\ UNCHANGED <<disk, issued, due, loaded, kills>>

Kill ==
    /\ run # None /\ kills < MaxKill /\ kills' = kills + 1 /\ run' = None
    /\ UNCHANGED <<disk, issued, due, loaded, fails>>

-----------------------------------------------------------------------------
(* Time passes, as long as there are numbers for every renewal that may be   *)
(* interrupted; a service starts again or looks for a new pair by itself.    *)

Age(b) ==
    /\ Active(b) \in Cert \ due[b] /\ issued[b] + (MaxKill - kills) + (MaxFail - fails) < MaxIssue
    /\ due' = [due EXCEPT ![b] = @ \cup 0..Active(b)]
    /\ UNCHANGED <<disk, issued, loaded, run, kills, fails>>

Load(b) ==
    /\ loaded[b] # Active(b) /\ loaded' = [loaded EXCEPT ![b] = Active(b)]
    /\ UNCHANGED <<disk, issued, due, run, kills, fails>>

Steps ==
    \/ Start \/ Reload \/ ReloadPrior \/ Stop
    \/ \E b \in Backend : \/ Prune(b) \/ Pruning(b) \/ MakeVersion(b) \/ OwnVersion(b) \/ FillVersion(b)
                          \/ Journal(b) \/ FirstCurrent(b) \/ LinkName(b) \/ LinkPrevious(b) \/ Switch(b)
                          \/ Restore(b) \/ Finish(b) \/ Tidy(b)

Next ==
    \/ Steps \/ Abort \/ ReloadPriorFails \/ Kill
    \/ \E b \in Backend : Age(b) \/ Load(b)

Spec == Init /\ [][Next]_vars
-----------------------------------------------------------------------------
(* The shape of the state; at most three version directories at any time:    *)
(* every run removes what its predecessors left before it adds its own.      *)
TypeOK ==
    /\ ver \in [Backend -> [Slot -> Cert \cup {Made, Part, None}]]
    /\ cur \in [Backend -> Slot \cup {None}] /\ prev \in [Backend -> Slot \cup {None}]
    /\ plain \in [Backend -> SUBSET {"pem", "key"}] /\ pair \in [Backend -> Cert]
    /\ pend \in [Backend -> [old : Slot, new : Slot] \cup {None}]
    /\ loaded \in [Backend -> Cert] /\ issued \in [Backend -> Cert]
    /\ \A b \in Backend : Cardinality({s \in Slot : ver[b][s] # None}) <= 3

(* "Even a reader opening files across the switch receives a matching key    *)
(* and certificate": at every moment both names lead to a complete pair.     *)
AlwaysServed == \A b \in Backend : Opens(b, "pem") \in Cert /\ Opens(b, "key") \in Cert

(* A pending record leads to the pair that was in use when the publication   *)
(* began, and the pair before it is never lost: "previous" is complete.      *)
Recoverable ==
    \A b \in Backend :
       /\ pend[b] # None => /\ Held(b, pend[b].old) \in Cert /\ Held(b, pend[b].new) \in Cert
                            /\ Active(b) \in {Held(b, pend[b].old), Held(b, pend[b].new)}
       /\ prev[b] # None => Held(b, prev[b]) \in Cert

(* When no run is active and nothing is pending, the database uses the pair  *)
(* that is on disk: no interruption leaves it with a pair that was taken     *)
(* back, or without the one that was published.                              *)
DatabaseCurrent == run = None /\ pend[Database] = None => loaded[Database] = Active(Database)

(* The pair in use only goes back to the one a pending record names.         *)
OnlyRolledBack ==
    \A b \in Backend : Active(b)' # Active(b) /\ Active(b)' < Active(b) =>
       pend[b] # None /\ Active(b)' = Held(b, pend[b].old)

(* A directory without its owner and mode that nobody is going to complete.  *)
Jammed(b) ==
    /\ \E s \in Slot : ver[b][s] = Made
    /\ run # None => run.pc \notin {"saveold", "savenew"} \/ ~Turn(b)

(* A pair that is due is renewed, after any interruption, unless a kill left *)
(* a version directory without its owner and mode.                           *)
Due(b) == Active(b) \in due[b]
RenewedOrJammed(b) == ~Due(b) \/ \E c \in Backend : Jammed(c)
=============================================================================
