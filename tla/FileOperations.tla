--------------------------- MODULE FileOperations ---------------------------
(* Confirmed file changes (files.py) and their receipts on the node         *)
(* (node/file_actions.py).  Each execution of an operation works on its own *)
(* copy of the record, read before the root's lock is taken; the items are  *)
(* deletions, the change with the most steps.  Permission is a choice made  *)
(* at each check, and another program may replace an entry at any time.     *)
EXTENDS Naturals, FiniteSets

CONSTANTS N, Tasks, None, MaxLate

FileOperationsAssumption == N \in Nat \ {0} /\ MaxLate \in Nat /\ None \notin Tasks

VARIABLES
  op,        \* the stored operation: its state and its items' states, or None;
             \* history: the items it ever showed as dispatched (sent)
  task,      \* execution -> its copy and where it is, or None;
             \* history: whether another saved since the copy was read (old)
  lock,      \* which execution holds the root's lock, or None
  root,      \* whether the root is still registered
  calls,     \* requests to the node, or given up and still to run
  receipt,   \* item -> the node's receipt
  entry,     \* item -> what has the selected name
  kept,      \* item -> what the quarantine name holds
  busy       \* the mutation that holds the node's lock, or None

controller == <<op, task, lock, root>>
node == <<receipt, entry, kept, busy>>
vars == <<controller, calls, node>>

Items == 1..N
Init ==
  /\ op = None /\ task = [t \in Tasks |-> None] /\ lock = None /\ root = TRUE /\ calls = {} /\ busy = None
  /\ receipt = [i \in Items |-> "none"] /\ entry = [i \in Items |-> "mine"] /\ kept = [i \in Items |-> "none"]

-----------------------------------------------------------------------------
(* Files.submit, reconcile and execute *)

Copy(value) ==
  [state |-> value.state, items |-> value.items, cur |-> 0, pc |-> "lock", reply |-> None, old |-> FALSE]

Execute(t, value) == task' = [task EXCEPT ![t] = Copy(value)]

submit(t) ==
  /\ op = None /\ root
  /\ op' = [state |-> "queued", items |-> [i \in Items |-> "queued"], sent |-> {}]
  /\ Execute(t, op')
  /\ UNCHANGED <<lock, root, calls, node>>

reconcile(t) ==
  /\ op # None /\ root /\ task[t] = None
  /\ Execute(t, op)
  /\ UNCHANGED <<op, lock, root, calls, node>>

Free == lock = None

acquire(t) ==
  /\ task[t] # None /\ task[t].pc = "lock" /\ Free
  /\ lock' = t /\ task' = [task EXCEPT ![t].pc = "item", ![t].cur = 1]
  /\ UNCHANGED <<op, root, calls, node>>

(* The except clause looks at the state of this copy. *)
Broken(state) == IF state = "dispatching" THEN "unknown" ELSE "failed"

(* What an execution saves is its whole copy; the copies others have read   *)
(* are older from then on.                                                  *)
Stored(t, state, items, next) ==
  /\ op' = [state |-> state, items |-> items, sent |-> op.sent \cup {i \in Items : items[i] = "dispatching"}]
  /\ task' = [u \in Tasks |-> IF u = t THEN next ELSE IF task[u] = None THEN None ELSE [task[u] EXCEPT !.old = TRUE]]

Save(t, i, state, pc) ==
  LET v == task[t]  items == [v.items EXCEPT ![i] = state] IN
  Stored(t, v.state, items,
         [v EXCEPT !.items = items, !.pc = pc, !.cur = IF pc = "item" THEN @ + 1 ELSE @, !.reply = None])

item(t) ==
  LET v == task[t]  i == v.cur IN
  /\ v # None /\ v.pc = "item" /\ i \in Items
  /\ IF v.items[i] = "succeeded" THEN task' = [task EXCEPT ![t].cur = @ + 1] /\ UNCHANGED <<op, calls>>
     ELSE \/ root /\ Save(t, i, "dispatching", "wait") /\ calls' = calls \cup {[i |-> i, t |-> t, late |-> FALSE]}
          \/ Save(t, i, Broken(v.items[i]), "item") /\ UNCHANGED calls
  /\ UNCHANGED <<lock, root, node>>

receive(t) ==
  LET v == task[t] IN
  /\ v # None /\ v.pc = "wait" /\ v.reply # None
  /\ Save(t, v.cur, IF v.reply = "error" THEN Broken("dispatching") ELSE v.reply, "item")
  /\ UNCHANGED <<lock, root, calls, node>>

(* The request fails or its answer is refused by the check that follows it. *)
Abandon(ts) ==
  LET mine == {m \in calls : m.t \in ts /\ ~m.late}
      room == Cardinality({m \in calls : m.late}) < MaxLate
  IN calls' \in {calls \ mine} \cup IF room THEN {(calls \ mine) \cup {[m EXCEPT !.late = TRUE] : m \in mine}} ELSE {}

Orphaned(ts) == IF busy # None /\ busy.t \in ts THEN [busy EXCEPT !.late = TRUE] ELSE busy

give_up(t) ==
  /\ task[t] # None /\ task[t].pc = "wait"
  /\ Save(t, task[t].cur, Broken("dispatching"), "item") /\ Abandon({t}) /\ busy' = Orphaned({t})
  /\ UNCHANGED <<lock, root, receipt, entry, kept>>

Overall(items) ==
  IF \A i \in Items : items[i] = "succeeded" THEN "succeeded"
  ELSE IF \E i \in Items : items[i] = "unknown" THEN "unknown" ELSE "failed"

complete(t) ==
  /\ task[t] # None /\ task[t].pc = "item" /\ task[t].cur > N
  /\ Stored(t, Overall(task[t].items), task[t].items, None) /\ lock' = None
  /\ UNCHANGED <<root, calls, node>>

(* The controller restarts; poll takes up what was queued or dispatched. *)
poll ==
  /\ \E t \in Tasks : task[t] # None
  /\ lock' = None /\ Abandon(Tasks) /\ busy' = Orphaned(Tasks)
  /\ IF op.state = "queued" \/ \E i \in Items : op.items[i] = "dispatching"
     THEN \E t \in Tasks : task' = [u \in Tasks |-> IF u = t THEN Copy(op) ELSE None]
     ELSE task' = [t \in Tasks |-> None]
  /\ UNCHANGED <<op, root, receipt, entry, kept>>

active == op # None /\ op.state \notin {"succeeded", "failed"}

unregister ==
  /\ root /\ op # None /\ ~active /\ root' = FALSE
  /\ UNCHANGED <<op, task, lock, calls, node>>

-----------------------------------------------------------------------------
(* mutate on the node, under its namespace lock *)

Reply(m, state) ==
  task' = IF m.late \/ task[m.t] = None THEN task ELSE [task EXCEPT ![m.t].reply = state]

Repeated(i) == receipt[i] # "none"

(* checked_at: the selected name still has the confirmed identity. *)
checked_at(i) == entry[i] = "mine"

(* The receipt is saved as unknown before anything is touched. *)
mutate(m) ==
  /\ m \in calls /\ busy = None /\ calls' = calls \ {m}
  /\ IF Repeated(m.i) THEN Reply(m, receipt[m.i]) /\ UNCHANGED <<receipt, busy>>
     ELSE /\ receipt' = [receipt EXCEPT ![m.i] = "unknown"]
          /\ IF checked_at(m.i) THEN busy' = [i |-> m.i, t |-> m.t, late |-> m.late, pc |-> "rename"] /\ UNCHANGED task
             ELSE Reply(m, "error") /\ UNCHANGED busy
  /\ UNCHANGED <<op, lock, root, entry, kept>>

(* The checked name is moved aside, whatever has it by now. *)
quarantine ==
  /\ busy # None /\ busy.pc = "rename"
  /\ kept' = [kept EXCEPT ![busy.i] = entry[busy.i]] /\ entry' = [entry EXCEPT ![busy.i] = "none"]
  /\ busy' = [busy EXCEPT !.pc = "unlink"]
  /\ UNCHANGED <<controller, calls, receipt>>

Expected(i) == kept[i] = "mine"

(* Only the confirmed object is removed; a directory that is no longer      *)
(* empty gets its name back.                                                *)
unlink ==
  LET i == busy.i IN
  /\ busy # None /\ busy.pc = "unlink" /\ busy' = None
  /\ IF ~Expected(i) THEN Reply(busy, "error") /\ UNCHANGED <<receipt, entry, kept>>
     ELSE \/ /\ kept' = [kept EXCEPT ![i] = "none"] /\ receipt' = [receipt EXCEPT ![i] = "succeeded"]
             /\ Reply(busy, "succeeded") /\ UNCHANGED entry
          \/ /\ entry[i] = "none"
             /\ entry' = [entry EXCEPT ![i] = kept[i]] /\ kept' = [kept EXCEPT ![i] = "none"]
             /\ Reply(busy, "error") /\ UNCHANGED receipt
  /\ UNCHANGED <<op, lock, root, calls>>

HelperDies ==
  /\ busy # None /\ busy' = None /\ Reply(busy, "error")
  /\ UNCHANGED <<op, lock, root, calls, receipt, entry, kept>>

OtherWrites(i) ==
  /\ entry[i] # "other" /\ kept[i] # "other" /\ entry' = [entry EXCEPT ![i] = "other"]
  /\ UNCHANGED <<controller, calls, receipt, kept, busy>>

-----------------------------------------------------------------------------
Next ==
  \/ \E t \in Tasks : submit(t) \/ reconcile(t) \/ acquire(t) \/ item(t) \/ receive(t) \/ give_up(t) \/ complete(t)
  \/ poll \/ unregister
  \/ \E m \in calls : mutate(m)
  \/ quarantine \/ unlink \/ HelperDies \/ \E i \in Items : OtherWrites(i)

Spec == Init /\ [][Next]_vars

-----------------------------------------------------------------------------
(* Records and receipts keep their types; only the lock's holder works. *)
TypeOK ==
  /\ op # None => op.state \in {"queued", "succeeded", "failed", "unknown"}
  /\ \A i \in Items : receipt[i] \in {"none", "unknown", "succeeded"}
  /\ \A t \in Tasks : task[t] # None /\ task[t].pc # "lock" => lock = t

(* An entry that was not the confirmed one is never deleted, however its    *)
(* replacement races the check (mutate's quarantine).                       *)
OtherKept == \A i \in Items : "other" \in {entry[i], kept[i]} => "other" \in {entry'[i], kept'[i]}

(* An item shown as succeeded was carried out once, by a receipt that says  *)
(* so, even when two executions overwrite each other's copies; and one      *)
(* shown as failed that no record ever showed as dispatched did not reach   *)
(* the node, and no request for it is still on its way.                     *)
ItemsTrue ==
  op # None =>
    /\ \A i \in Items : op.items[i] = "succeeded" => receipt[i] = "succeeded"
    /\ op.state = "succeeded" => \A i \in Items : receipt[i] = "succeeded"
    /\ \A i \in Items : op.items[i] = "failed" /\ i \notin op.sent =>
         receipt[i] = "none" /\ \A m \in calls : m.i # i

(* What execute writes over an outcome: a success is lost from the record,  *)
(* item or operation, only to a copy that was read before another execution *)
(* saved its own; and the trace of a request that was sent is lost only to  *)
(* such a copy, or to an execution that had the item in doubt and was       *)
(* refused before it could ask the node again.                              *)
OutcomesKept ==
  LET Outdated == lock # None /\ task[lock].old
      Refused(i) == lock # None /\ task[lock].cur = i /\ task[lock].pc = "item" /\ op.items[i] = "unknown"
  IN op # None =>
    /\ op.state = "succeeded" /\ op'.state # "succeeded" => Outdated
    /\ \A i \in Items : op.items[i] = "succeeded" /\ op'.items[i] # "succeeded" => Outdated
    /\ \A i \in Items : op.items[i] \in {"dispatching", "unknown"} /\ op'.items[i] \in {"queued", "failed"} =>
         Outdated \/ Refused(i)
=============================================================================
