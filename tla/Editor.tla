------------------------------- MODULE Editor -------------------------------
(***************************************************************************)
(* The text editor panel: a save replaces a file of a registered folder on *)
(* an enrolled node by exchanging it with a prepared replacement, so that  *)
(* the displaced file and the submitted draft stay in a stage directory    *)
(* until their removal is confirmed.                                       *)
(*                                                                         *)
(* The controller keeps a receipt per save, one item per file.  The node's *)
(* helper keeps a record per item and may die between any two of its       *)
(* steps; replies and requests get lost or come late; other programs write *)
(* the same files at any time.                                             *)
(***************************************************************************)
EXTENDS Naturals, FiniteSets

CONSTANTS
    Op,       \* saves, each under its own idempotency key
    File,     \* files of the folder
    MaxWrite, \* bound: writes by other programs
    MaxFault, \* bound: lost answers, helper deaths, controller restarts, changes of access
    MaxNet,   \* bound: requests that have left and have not begun
    MaxEdits, \* MAX_EDITS: records of the node that may retain copies
    None

EditsAssumption == MaxEdits \in Nat \ {0}

VARIABLES
    file,    \* File -> the object under its name [ino, text], or None
    rec,     \* Item -> the node's record [t, kept, resolved, pub], or None
    stg,     \* Item -> the stage directory [draft, repl], or None
    job,     \* what the helper that holds the namespace lock executes, or None
    net,     \* requests that have left and have not begun at the node
    rep,     \* the reply the controller is about to read, or None
    op,      \* Op -> the state of the stored receipt, or None
    item,    \* Item -> its stored entry [t, kept, resolved]
    exp,     \* Item -> the object the caller had read
    adm,     \* the request that holds admission, or None
    access,  \* the caller, the panel and its grants are still what they were
    root,    \* the folder is registered
    swapped, \* Item -> the object its replacement displaced, or None
    sure,    \* items whose removal was confirmed as recovered
    writes, faults

node == <<file, rec, stg, job>>
ctl == <<op, item, exp, adm>>
vars == <<node, net, rep, ctl, access, root, swapped, sure, writes, faults>>

Item == Op \X File
Items(o) == {o} \X File
OPEN == {"pending", "unknown"}
Says(t) == [t |-> t, kept |-> FALSE, resolved |-> FALSE]   \* an answer without a record
Pending == Says("pending")
Published(i) == [ino |-> <<"draft", i[1]>>, text |-> <<"draft", i[1]>>]
Base == [ino |-> <<"base", 0>>, text |-> <<"base", 0>>]

Init ==
    /\ file = [f \in File |-> Base] /\ rec = [i \in Item |-> None] /\ stg = [i \in Item |-> None]
    /\ job = None /\ net = {} /\ rep = None /\ op = [o \in Op |-> None]
    /\ item = [i \in Item |-> Pending] /\ exp = [i \in Item |-> Base] /\ adm = None
    /\ access = TRUE /\ root = TRUE /\ swapped = [i \in Item |-> None] /\ sure = {}
    /\ writes = 0 /\ faults = 0

-----------------------------------------------------------------------------
(* The controller's requests.  One at a time holds admission and works on   *)
(* its copy "mem" of the receipt's items.                                   *)

(* Editor.check: grants, targets and the folder's registration. *)
Check == access /\ root

(* Editor.state. *)
State(S, mem) ==
    LET ts == {mem[i].t : i \in S}
    IN CASE ts \cap OPEN # {} -> "unknown" [] "conflict" \in ts -> "conflict"
         [] "failed" \in ts -> "failed" [] OTHER -> "succeeded"

Admit(o, act, todo, mem) == adm' = [op |-> o, act |-> act, todo |-> todo, wait |-> None, mem |-> mem]

(* EditorStore.save: the receipt as the request holds it. *)
Store(mem) == item' = mem
Mem(i, v) == [adm.mem EXCEPT ![i] = v]

(* Editor.save: the receipt is stored with every item pending. *)
Save(o) ==
    /\ adm = None /\ op[o] = None /\ Check
    /\ \A i \in Items(o) : rec[i] = None /\ swapped[i] = None /\ stg[i] = None
    /\ \A m \in net : m.i[1] # o
    /\ job # None => job.i[1] # o
    /\ \A i \in Items(o) : file[i[2]] # None
    /\ \E stale \in SUBSET Items(o) :
          exp' = [i \in Item |-> IF i[1] # o THEN exp[i] ELSE IF i \in stale THEN Base ELSE file[i[2]]]
    /\ LET mem == [i \in Item |-> IF i[1] = o THEN Pending ELSE item[i]]
       IN Store(mem) /\ Admit(o, "save", Items(o), mem)
    /\ op' = [op EXCEPT ![o] = "unknown"]
    /\ UNCHANGED <<node, net, rep, access, root, swapped, sure, writes, faults>>

Room == Cardinality(net) < MaxNet
Fault == faults < MaxFault /\ faults' = faults + 1
Sent(i, act, flag) == [i |-> i, act |-> act, flag |-> flag, live |-> TRUE]

(* An item is unknown and its copies are assumed retained before its request *)
(* leaves.                                                                   *)
Dispatch(i) ==
    /\ adm # None /\ adm.act = "save" /\ adm.wait = None /\ i \in adm.todo /\ Check /\ Room
    /\ LET mem == Mem(i, [adm.mem[i] EXCEPT !.t = "unknown", !.kept = TRUE])
       IN Store(mem) /\ adm' = [adm EXCEPT !.wait = i, !.mem = mem]
    /\ net' = net \cup {Sent(i, "save", FALSE)}
    /\ UNCHANGED <<node, rep, op, exp, access, root, swapped, sure, writes, faults>>

(* Access has changed before dispatch: the item failed and nothing left. *)
Denied(i) ==
    /\ adm # None /\ adm.act = "save" /\ adm.wait = None /\ i \in adm.todo /\ ~Check
    /\ LET mem == Mem(i, [adm.mem[i] EXCEPT !.t = "failed"])
       IN /\ Store(mem) /\ adm' = [adm EXCEPT !.todo = @ \ {i}, !.mem = mem]
          /\ op' = [op EXCEPT ![adm.op] = State(Items(adm.op), mem)]
    /\ UNCHANGED <<node, net, rep, exp, access, root, swapped, sure, writes, faults>>

(* Editor._status: what was never dispatched failed; unknown items are asked. *)
Status(o) ==
    /\ adm = None /\ op[o] # None /\ Check
    /\ LET mem == [i \in Item |-> IF i[1] = o /\ item[i].t = "pending"
                                  THEN [item[i] EXCEPT !.t = "failed"] ELSE item[i]]
       IN Admit(o, "status", {i \in Items(o) : item[i].t = "unknown"}, mem)
    /\ UNCHANGED <<node, net, rep, op, item, exp, access, root, swapped, sure, writes, faults>>

(* Editor.cleanup: the node decides whether the copies may go. *)
Cleanup(o) ==
    /\ adm = None /\ op[o] # None /\ Check
    /\ \E S \in SUBSET Items(o) \ {{}} : Admit(o, "cleanup", S, item)
    /\ UNCHANGED <<node, net, rep, op, item, exp, access, root, swapped, sure, writes, faults>>

(* Editor.remove: only a receipt whose items are settled and retain nothing. *)
Remove(o) ==
    /\ adm = None /\ op[o] # None /\ Check
    /\ \A i \in Items(o) : ~item[i].kept /\ item[i].t \notin OPEN
    /\ Admit(o, "forget", Items(o), item)
    /\ UNCHANGED <<node, net, rep, op, item, exp, access, root, swapped, sure, writes, faults>>

(* The next item's request leaves; a cleanup may state that both copies were *)
(* recovered.                                                                *)
Ask(i) ==
    /\ adm # None /\ adm.act # "save" /\ adm.wait = None /\ i \in adm.todo /\ Check /\ Room
    /\ adm' = [adm EXCEPT !.wait = i]
    /\ \E flag \in BOOLEAN : /\ flag => adm.act = "cleanup"
                             /\ net' = net \cup {Sent(i, adm.act, flag)}
    /\ UNCHANGED <<node, rep, op, item, exp, access, root, swapped, sure, writes, faults>>

(* Nobody waits for a reply any more; the request may still be under way. *)
Unheard(S) == {[m EXCEPT !.live = FALSE] : m \in S}
Deaf == IF job = None THEN None ELSE [job EXCEPT !.live = FALSE]

(* What a failed call leaves of the request: a save and a status go on with  *)
(* the next item, a cleanup or a removal ends.                               *)
Onward(i, mem) ==
    IF adm.act \in {"save", "status"} THEN [adm EXCEPT !.todo = @ \ {i}, !.wait = None, !.mem = mem] ELSE None

(* save stores the receipt after every item; status stores it at its end. *)
Progress(mem) ==
    IF adm.act = "save" THEN Store(mem) /\ op' = [op EXCEPT ![adm.op] = State(Items(adm.op), mem)]
    ELSE UNCHANGED <<op, item>>

(* The call fails without an answer. *)
Fails ==
    /\ adm # None /\ adm.wait # None
    /\ adm' = Onward(adm.wait, adm.mem) /\ Progress(adm.mem)
    /\ net' = Unheard(net) /\ job' = Deaf /\ rep' = None
    /\ UNCHANGED <<file, rec, stg, exp, access, root, swapped, sure, writes>>

Lose == Fault /\ Fails

(* The connection of a helper that died is closed. *)
Closed ==
    /\ rep = None /\ (job # None => ~job.live) /\ \A m \in net : ~m.live
    /\ Fails /\ UNCHANGED faults

(* Editor.apply. *)
Applied(r) == [t |-> IF r.t = "preparing" THEN "unknown" ELSE r.t, kept |-> r.kept, resolved |-> r.resolved]

(* An answer is read.  Access that changed after dispatch hides it; a        *)
(* refusal that proves nothing was kept settles a save.                      *)
Read ==
    /\ rep # None
    /\ LET i == adm.wait
           mem == IF rep.t = "refused"
                  THEN (IF adm.act = "save" THEN Mem(i, [adm.mem[i] EXCEPT !.t = "failed", !.kept = FALSE]) ELSE adm.mem)
                  ELSE IF Check /\ rep.t \notin {"unavailable", "removed"} THEN Mem(i, Applied(rep)) ELSE adm.mem
           ok == Check /\ rep.t \notin {"refused", "unavailable"}
       IN CASE adm.act \in {"save", "status"} -> adm' = Onward(i, mem) /\ Progress(mem)
            [] adm.act = "cleanup" ->
                 /\ adm' = IF ok THEN [adm EXCEPT !.todo = @ \ {i}, !.wait = None, !.mem = mem] ELSE None
                 /\ IF ok THEN Store(mem) ELSE UNCHANGED item
                 /\ UNCHANGED op
            [] OTHER -> /\ adm' = IF ok THEN [adm EXCEPT !.todo = @ \ {i}, !.wait = None] ELSE None
                        /\ UNCHANGED <<op, item>>
    /\ rep' = None
    /\ UNCHANGED <<node, net, exp, access, root, swapped, sure, writes, faults>>

(* The request ends: a status stores its results, a removal deletes the      *)
(* receipt.                                                                  *)
End ==
    /\ adm # None /\ adm.todo = {} /\ adm' = None
    /\ CASE adm.act = "status" -> Store(adm.mem) /\ op' = [op EXCEPT ![adm.op] = State(Items(adm.op), adm.mem)]
         [] adm.act = "forget" -> op' = [op EXCEPT ![adm.op] = None] /\ UNCHANGED item
         [] OTHER -> UNCHANGED <<op, item>>
    /\ UNCHANGED <<node, net, rep, exp, access, root, swapped, sure, writes, faults>>

(* Access is checked before each call: it may have ended meanwhile. *)
Barred ==
    /\ adm # None /\ adm.act # "save" /\ adm.wait = None /\ adm.todo # {} /\ ~Check
    /\ adm' = IF adm.act = "status" THEN [adm EXCEPT !.todo = {}] ELSE None
    /\ UNCHANGED <<node, net, rep, op, item, exp, access, root, swapped, sure, writes, faults>>

Restart ==
    /\ Fault /\ adm # None
    /\ adm' = None /\ net' = Unheard(net) /\ job' = Deaf /\ rep' = None
    /\ UNCHANGED <<file, rec, stg, op, item, exp, access, root, swapped, sure, writes>>

(* The panel's configuration, its package's grants or the caller's change.   *)
ChangeAccess ==
    /\ Fault /\ access' = ~access
    /\ UNCHANGED <<node, net, rep, ctl, root, swapped, sure, writes>>

(* module_editor_store.retained. *)
Active == \E o \in Op : op[o] # None /\ \E i \in Items(o) : item[i].kept \/ item[i].t \in OPEN

(* Files.unregister: not while the editor may need the folder. *)
RemoveRoot ==
    /\ root /\ ~Active /\ adm = None /\ root' = FALSE
    /\ UNCHANGED <<node, net, rep, ctl, access, swapped, sure, writes, faults>>

-----------------------------------------------------------------------------
(* The node's helper.  One request at a time has the namespace lock; each    *)
(* step leaves on disk what the next one, or the next helper, finds.         *)

Doing(act, step) == job # None /\ job.act = act /\ job.step = step
Goto(step) == job' = [job EXCEPT !.step = step]
(* The helper answers and releases the lock. *)
Answer(r) == job' = None /\ rep' = IF job.live THEN r ELSE rep

Begin(m) ==
    /\ m \in net /\ job = None /\ net' = net \ {m}
    /\ job' = [i |-> m.i, act |-> m.act, flag |-> m.flag, live |-> m.live, step |-> "start"]
    /\ UNCHANGED <<file, rec, stg, rep, ctl, access, root, swapped, sure, writes, faults>>

Retaining == {i \in Item : rec[i] # None /\ rec[i].kept}

(* editor_save.capacity: every retained copy must be measurable. *)
Capacity == Cardinality(Retaining) < MaxEdits /\ \A i \in Retaining : stg[i] # None

(* original_matches: the object the caller had read, unchanged. *)
Matches(i, x) == x = exp[i]

(* inspect_result: what the disk says of an interrupted publication. *)
Inspect(i) ==
    LET r == rec[i]
        cur == file[i[2]]
        old == IF stg[i] = None THEN None ELSE stg[i].repl
    IN CASE r.t = "preparing" -> [r EXCEPT !.t = "failed", !.kept = stg[i] # None]
         [] r.t = "unknown" /\ cur # None /\ old # None /\ cur = Published(i) ->
              [r EXCEPT !.t = IF Matches(i, old) THEN "succeeded" ELSE "conflict"]
         [] r.t = "unknown" /\ old = Published(i) /\ cur # None /\ Matches(i, cur) -> [r EXCEPT !.t = "failed"]
         [] OTHER -> r

(* commit: a new record says preparing; a known one is inspected; a changed  *)
(* file or too many copies refuse it.                                        *)
CommitBegin ==
    LET i == job.i
    IN /\ Doing("save", "start")
       /\ IF rec[i] # None THEN rec' = [rec EXCEPT ![i] = Inspect(i)] /\ Answer(Inspect(i))
          ELSE IF file[i[2]] = exp[i] /\ Capacity
          THEN /\ rec' = [rec EXCEPT ![i] = [t |-> "preparing", kept |-> TRUE, resolved |-> FALSE]]
               /\ Goto("mkdir") /\ UNCHANGED rep
          ELSE UNCHANGED rec /\ Answer(Says("refused"))
       /\ UNCHANGED <<file, stg, net, ctl, access, root, swapped, sure, writes, faults>>

(* A failed step before publication: the record says so and what remains. *)
Give(r, i) == rec' = [rec EXCEPT ![i] = r] /\ Answer(r)
Stopped(i) == [rec[i] EXCEPT !.t = "failed", !.kept = stg[i] # None]

MakeStage ==
    LET i == job.i
    IN /\ Doing("save", "mkdir")
       /\ IF file[i[2]] = exp[i]
          THEN stg' = [stg EXCEPT ![i] = [draft |-> FALSE, repl |-> None]] /\ Goto("draft") /\ UNCHANGED <<rec, rep>>
          ELSE Give(Stopped(i), i) /\ UNCHANGED stg
       /\ UNCHANGED <<file, net, ctl, access, root, swapped, sure, writes, faults>>

WriteDraft ==
    /\ Doing("save", "draft") /\ stg' = [stg EXCEPT ![job.i].draft = TRUE] /\ Goto("repl")
    /\ UNCHANGED <<file, rec, net, rep, ctl, access, root, swapped, sure, writes, faults>>

WriteReplacement ==
    /\ Doing("save", "repl") /\ stg' = [stg EXCEPT ![job.i].repl = Published(job.i)] /\ Goto("check")
    /\ UNCHANGED <<file, rec, net, rep, ctl, access, root, swapped, sure, writes, faults>>

(* A write, a mode change or a sync fails, or the request was cancelled. *)
StepFails ==
    /\ job # None /\ job.step \in {"mkdir", "draft", "repl", "check"} /\ Give(Stopped(job.i), job.i)
    /\ UNCHANGED <<file, stg, net, ctl, access, root, swapped, sure, writes, faults>>

\* Mutant: publication begins while the record still says preparing.
PublishUnsaved ==
    LET i == job.i
    IN /\ Doing("save", "check")
       /\ IF file[i[2]] = exp[i] THEN Goto("exchange") /\ UNCHANGED <<rec, rep>> ELSE Give(Stopped(i), i)
       /\ UNCHANGED <<file, stg, net, ctl, access, root, swapped, sure, writes, faults>>

(* The second read of the file; then the record says unknown. *)
Publish ==
    LET i == job.i
    IN /\ Doing("save", "check")
       /\ IF file[i[2]] = exp[i] THEN rec' = [rec EXCEPT ![i].t = "unknown"] /\ Goto("exchange") /\ UNCHANGED rep
          ELSE Give(Stopped(i), i)
       /\ UNCHANGED <<file, stg, net, ctl, access, root, swapped, sure, writes, faults>>

(* rename with exchange: whatever has the name by now goes to the stage; a   *)
(* missing name is an error that leaves the record unknown.                  *)
Exchange ==
    LET i == job.i
    IN /\ Doing("save", "exchange")
       /\ IF file[i[2]] = None THEN Answer(rec[i]) /\ UNCHANGED <<file, stg, swapped>>
          ELSE /\ file' = [file EXCEPT ![i[2]] = stg[i].repl]
               /\ stg' = [stg EXCEPT ![i].repl = file[i[2]]]
               /\ swapped' = [swapped EXCEPT ![i] = file[i[2]]]
               /\ Goto("inspect") /\ UNCHANGED rep
       /\ UNCHANGED <<rec, net, ctl, access, root, sure, writes, faults>>

CommitEnd ==
    /\ Doing("save", "inspect") /\ Give(Inspect(job.i), job.i)
    /\ UNCHANGED <<file, stg, net, ctl, access, root, swapped, sure, writes, faults>>

NodeStatus ==
    LET i == job.i
    IN /\ Doing("status", "start")
       /\ IF rec[i] = None THEN Answer(Says("unavailable")) /\ UNCHANGED rec ELSE Give(Inspect(i), i)
       /\ UNCHANGED <<file, stg, net, ctl, access, root, swapped, sure, writes, faults>>

(* cleanup: a conflict needs both copies recovered; the record says resolved *)
(* before anything is removed.                                               *)
CleanAllowed(i) ==
    /\ rec[i] # None /\ rec[i].t \in {"succeeded", "failed", "conflict"}
    /\ rec[i].t = "conflict" /\ ~rec[i].resolved =>
          job.flag /\ stg[i] # None /\ stg[i].draft /\ stg[i].repl # None

Marked(r) == [r EXCEPT !.resolved = TRUE]

CleanBegin ==
    LET i == job.i
    IN /\ Doing("cleanup", "start")
       /\ IF ~CleanAllowed(i) \/ (rec[i].kept /\ stg[i] = None /\ ~rec[i].resolved)
          THEN Answer(Says("unavailable")) /\ UNCHANGED rec
          ELSE IF ~rec[i].kept THEN Answer(rec[i]) /\ UNCHANGED rec
          ELSE rec' = [rec EXCEPT ![i] = Marked(@)] /\ Goto(IF stg[i] = None THEN "gone" ELSE "unlink") /\ UNCHANGED rep
       /\ sure' = IF job.flag THEN sure \cup {i} ELSE sure
       /\ UNCHANGED <<file, stg, net, ctl, access, root, swapped, writes, faults>>

(* remove_stage: the files in the order the directory lists them. *)
Unlink ==
    LET i == job.i
    IN /\ Doing("cleanup", "unlink")
       /\ IF stg[i].draft \/ stg[i].repl # None
          THEN /\ \/ stg[i].draft /\ stg' = [stg EXCEPT ![i].draft = FALSE]
                  \/ stg[i].repl # None /\ stg' = [stg EXCEPT ![i].repl = None]
               /\ UNCHANGED job
          ELSE stg' = [stg EXCEPT ![i] = None] /\ Goto("gone")
       /\ UNCHANGED <<file, rec, net, rep, ctl, access, root, swapped, sure, writes, faults>>

CleanEnd ==
    /\ Doing("cleanup", "gone") /\ Give([rec[job.i] EXCEPT !.kept = FALSE], job.i)
    /\ UNCHANGED <<file, stg, net, ctl, access, root, swapped, sure, writes, faults>>

(* forget: a record that is unsettled or retains copies stays. *)
NodeForget ==
    LET i == job.i
    IN /\ Doing("forget", "start")
       /\ IF rec[i] # None /\ (rec[i].t \in {"preparing", "unknown"} \/ rec[i].kept)
          THEN Answer(Says("unavailable")) /\ UNCHANGED rec
          ELSE rec' = [rec EXCEPT ![i] = None] /\ Answer(Says("removed"))
       /\ UNCHANGED <<file, stg, net, ctl, access, root, swapped, sure, writes, faults>>

(* The helper dies, or its node: what is on disk stays. *)
Die ==
    /\ Fault /\ job # None /\ job' = None
    /\ UNCHANGED <<file, rec, stg, net, rep, ctl, access, root, swapped, sure, writes>>

(* A request that is never begun. *)
Drop(m) ==
    /\ m \in net /\ ~m.live /\ net' = net \ {m}
    /\ UNCHANGED <<node, rep, ctl, access, root, swapped, sure, writes, faults>>

-----------------------------------------------------------------------------
(* Other programs on the node: they write a file in place, replace or remove *)
(* it, or write to an object they still have open.                           *)

Ext == <<"ext", writes + 1>>
Wrote == writes < MaxWrite /\ writes' = writes + 1

Overwrite(f) ==
    /\ Wrote /\ file[f] # None
    /\ \E x \in {[file[f] EXCEPT !.text = Ext], [ino |-> Ext, text |-> Ext], None} : file' = [file EXCEPT ![f] = x]
    /\ UNCHANGED <<rec, stg, job, net, rep, ctl, access, root, swapped, sure, faults>>

WriteDisplaced(i) ==
    /\ Wrote /\ stg[i] # None /\ stg[i].repl # None /\ swapped[i] # None
    /\ stg' = [stg EXCEPT ![i].repl.text = Ext]
    /\ UNCHANGED <<file, rec, job, net, rep, ctl, access, root, swapped, sure, faults>>

Steps ==
    \/ \E i \in Item : Dispatch(i) \/ Denied(i) \/ Ask(i)
    \/ Read \/ End \/ Barred \/ Closed
    \/ \E m \in net : Begin(m)
    \/ CommitBegin \/ MakeStage \/ WriteDraft \/ WriteReplacement \/ Publish \/ Exchange \/ CommitEnd
    \/ NodeStatus \/ CleanBegin \/ Unlink \/ CleanEnd \/ NodeForget

Next ==
    \/ Steps
    \/ \E o \in Op : Save(o) \/ Status(o) \/ Cleanup(o) \/ Remove(o)
    \/ Lose \/ Restart \/ ChangeAccess \/ RemoveRoot \/ StepFails \/ Die
    \/ \E m \in net : Drop(m)
    \/ \E f \in File : Overwrite(f)
    \/ \E i \in Item : WriteDisplaced(i)

Spec == Init /\ [][Next]_vars

-----------------------------------------------------------------------------
Object == [ino : {<<"base", 0>>} \cup {<<"ext", n>> : n \in 1..MaxWrite} \cup {<<"draft", o>> : o \in Op},
           text : {<<"base", 0>>} \cup {<<"ext", n>> : n \in 1..MaxWrite} \cup {<<"draft", o>> : o \in Op}]
Entry(T) == [t : T, kept : BOOLEAN, resolved : BOOLEAN]

(* The shape of the node's and the controller's state; a record that is      *)
(* settled and marked resolved is the only one whose stage is incomplete.    *)
TypeOK ==
    /\ file \in [File -> Object \cup {None}]
    /\ rec \in [Item -> Entry({"preparing", "unknown", "succeeded", "failed", "conflict"}) \cup {None}]
    /\ stg \in [Item -> [draft : BOOLEAN, repl : Object \cup {None}] \cup {None}]
    /\ op \in [Op -> {"unknown", "succeeded", "failed", "conflict", None}]
    /\ item \in [Item -> Entry(OPEN \cup {"succeeded", "failed", "conflict"})]
    /\ swapped \in [Item -> Object \cup {None}] /\ sure \subseteq Item
    /\ \A i \in Item : rec[i] # None /\ rec[i].t \in {"unknown", "succeeded", "conflict"} /\ ~rec[i].resolved =>
          stg[i] # None /\ stg[i].draft /\ stg[i].repl # None

(* An outcome, on the node or in the caller's receipt, is what happened:     *)
(* a failed save never reached the file and never will, a successful one     *)
(* displaced exactly what the caller had read, a conflict displaced or lost  *)
(* sight of something else.                                                  *)
OutcomeTrue ==
    \A i \in Item :
       /\ rec[i] # None /\ rec[i].t = "failed" => swapped[i] = None
       /\ rec[i] # None /\ rec[i].t = "succeeded" => swapped[i] = exp[i]
       /\ rec[i] # None /\ rec[i].t = "conflict" => swapped[i] # None
       /\ op[i[1]] # None /\ item[i].t = "failed" => swapped[i] = None
       /\ op[i[1]] # None /\ item[i].t = "succeeded" => swapped[i] = exp[i]

(* What another program had written and a save displaced stays in the stage  *)
(* directory until somebody states that it was recovered, whatever dies in   *)
(* between.                                                                  *)
ForeignTextKept ==
    \A i \in Item : swapped[i] # None /\ swapped[i] # exp[i] /\ i \notin sure =>
       stg[i] # None /\ stg[i].repl # None /\ stg[i].repl.ino = swapped[i].ino

(* Copies on the node have a receipt that says so and a registered folder:   *)
(* no stage directory is left that nobody can find.                          *)
CopiesFound ==
    \A i \in Item : stg[i] # None \/ (rec[i] # None /\ rec[i].kept) =>
       op[i[1]] # None /\ item[i].kept /\ root

(* An outcome once reported stays: neither a late request nor a later edit   *)
(* of the file turns it into another.                                        *)
OutcomeStays ==
    \A i \in Item :
       /\ op[i[1]] # None /\ op'[i[1]] # None /\ item[i].t \notin OPEN => item'[i].t = item[i].t
       /\ rec[i] # None /\ rec'[i] # None /\ rec[i].t \in {"succeeded", "failed", "conflict"} => rec'[i].t = rec[i].t

(* A save that the node has begun gets an outcome, whoever dies and whatever *)
(* is lost on the way, as long as the caller's access lasts and no other     *)
(* program touches the file.                                                 *)
Begun(i) == rec[i] # None /\ op[i[1]] # None /\ item[i].t = "unknown"
SettledOrDenied(i) == ~access \/ item[i].t \in {"succeeded", "failed", "conflict"}
=============================================================================
