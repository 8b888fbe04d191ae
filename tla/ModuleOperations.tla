--------------------------- MODULE ModuleOperations ---------------------------
(* Confirmed actions on VMs, containers and services: the controller's      *)
(* journal (module_vm_operations.py and its container and admin siblings)   *)
(* and the node's receipts (vm_state.py, container_state.py,                *)
(* admin_state.py).  The three providers share one protocol; each handler   *)
(* is the shared step under its provider's own conditions.  An operation is *)
(* identified with the preview it was confirmed from.                       *)
EXTENDS Naturals, FiniteSets

CONSTANTS Kinds, Ops, N, Groups, Group, None, MaxLate, MaxPreviews, MaxRevision

ModuleOperationsAssumption ==
  /\ Kinds \subseteq {"vm", "container", "admin"} /\ N \in Nat \ {0} /\ MaxLate \in Nat
  /\ MaxPreviews \in Nat /\ MaxRevision \in Nat /\ Group \in [1..N -> Groups]

VARIABLES
  kind,      \* which provider this is
  preview,   \* operation -> its selection, or None before the preview
  held,      \* previews the controller still holds
  rec,       \* operation -> its stored record, or None
  flight,    \* operation -> groups not dispatched yet, awaited, or None when not in flight
  adm,       \* what holds the admission lock across a request, or None
  profile,   \* group -> its registered profile, or None
  calls,     \* requests to the nodes
  receipt,   \* group -> operation -> the node's receipt, or None
  busy,      \* group -> the request that holds the receipt lock, or None
  effect     \* operation -> target -> how often the provider acted

controller == <<preview, held, rec, flight, adm, profile>>
node == <<receipt, busy, effect>>
vars == <<kind, controller, calls, node>>

Targets == 1..N
Terminal == {"observed", "refused", "resolved"}
Least(S) == CHOOSE t \in S : \A u \in S : t <= u

Init ==
  /\ kind \in Kinds
  /\ preview = [o \in Ops |-> None] /\ held = {} /\ rec = [o \in Ops |-> None]
  /\ flight = [o \in Ops |-> None] /\ adm = None
  /\ profile = [g \in Groups |-> [revision |-> 0, enabled |-> TRUE]]
  /\ calls = {} /\ busy = [g \in Groups |-> None]
  /\ receipt = [g \in Groups |-> [o \in Ops |-> None]]
  /\ effect = [o \in Ops |-> [t \in Targets |-> 0]]

Selected(o) == preview[o].selected
GroupsOf(o) == {Group[t] : t \in Selected(o)}
Items(o, g) == {t \in Selected(o) : Group[t] = g}
Recorded(g) == {o \in Ops : rec[o] # None /\ g \in GroupsOf(o)}

-----------------------------------------------------------------------------
(* Profiles and the guard of every request *)

Save_profile(g) ==
  /\ profile[g] # None /\ profile[g].revision < MaxRevision
  /\ \E on \in BOOLEAN : profile' = [profile EXCEPT ![g] = [revision |-> @.revision + 1, enabled |-> on]]
  /\ UNCHANGED <<kind, preview, held, rec, flight, adm, calls, node>>

vm_set_profile(g) == kind = "vm" /\ Save_profile(g)
container_set_profile(g) == kind = "container" /\ Save_profile(g)
admin_set_profile(g) == kind = "admin" /\ Save_profile(g)

ProfileUnused(g) == profile[g] # None /\ Recorded(g) = {}

Drop_profile(g) ==
  /\ adm = None /\ ProfileUnused(g) /\ profile' = [profile EXCEPT ![g] = None]
  /\ UNCHANGED <<kind, preview, held, rec, flight, adm, calls, node>>

vm_remove_profile(g) == kind = "vm" /\ Drop_profile(g)
container_remove_profile(g) == kind = "container" /\ Drop_profile(g)
admin_remove_profile(g) == kind = "admin" /\ Drop_profile(g)

Enabled(g) == profile[g] # None /\ profile[g].enabled

(* Only recovery accepts a newer revision of the frozen profile. *)
Guard(o, g, recovery) == Enabled(g) /\ (recovery \/ profile[g].revision = preview[o].revision[g])

-----------------------------------------------------------------------------
(* preview *)

Preview(o, power) ==
  /\ preview[o] = None /\ Cardinality(held) < MaxPreviews
  /\ \E S \in SUBSET Targets \ {{}} :
       /\ \A t \in S : Enabled(Group[t])
       /\ preview' = [preview EXCEPT ![o] = [selected |-> S, power |-> power,
                        revision |-> [g \in {Group[t] : t \in S} |-> profile[g].revision]]]
  /\ held' = held \cup {o}
  /\ UNCHANGED <<kind, rec, flight, adm, profile, calls, node>>

vm_preview(o) == kind = "vm" /\ Preview(o, FALSE)
container_preview(o) == kind = "container" /\ Preview(o, FALSE)
admin_preview(o) == kind = "admin" /\ \E power \in BOOLEAN : Preview(o, power)

Expire(o) ==
  /\ o \in held /\ held' = held \ {o}
  /\ UNCHANGED <<kind, preview, rec, flight, adm, profile, calls, node>>

-----------------------------------------------------------------------------
(* commit: admission and dispatch *)

Unfinished(o, t) == rec[o] # None /\ t \in Selected(o) /\ rec[o].state[t] \notin Terminal

Idle(o) == \A p \in Ops : \A t \in Selected(o) : ~Unfinished(p, t)

(* A power action and any other action exclude each other on a system. *)
PowerIdle(o) ==
  \A p \in Ops : rec[p] # None /\ (preview[o].power \/ preview[p].power) =>
    ~\E t \in Selected(p) : Unfinished(p, t) /\ Group[t] \in GroupsOf(o)

Taken(o) == held \ {o}

(* A second commit of the same key finds the record; a preview is consumed. *)
Admit(o) ==
  /\ adm = None /\ o \in held /\ rec[o] = None /\ Idle(o)
  /\ \A g \in GroupsOf(o) : Guard(o, g, FALSE)
  /\ rec' = [rec EXCEPT ![o] = [state |-> [t \in Selected(o) |-> "queued"], cleanup |-> None]]
  /\ held' = Taken(o) /\ flight' = [flight EXCEPT ![o] = [todo |-> GroupsOf(o), wait |-> {}]]
  /\ UNCHANGED <<kind, preview, adm, profile, calls, node>>

vm_commit(o) == kind = "vm" /\ Admit(o)
container_commit(o) == kind = "container" /\ Admit(o)
admin_commit(o) == kind = "admin" /\ o \in held /\ PowerIdle(o) /\ Admit(o)

Put(o, S, s) == [rec EXCEPT ![o].state = [t \in DOMAIN @ |-> IF t \in S THEN s[t] ELSE @[t]]]

(* dispatch_check, run by the transport just before it writes the request. *)
Marked(o, g) == Put(o, Items(o, g), [t \in Targets |-> "dispatching"])

(* A removal carries the outcomes it proves. *)
Request(c, o, g) ==
  [what |-> c, op |-> o, g |-> g, late |-> FALSE, proof |-> IF c = "forget" THEN rec[o].state ELSE None]

dispatch(o, g) ==
  /\ flight[o] # None /\ g \in flight[o].todo /\ Guard(o, g, FALSE)
  /\ rec' = Marked(o, g) /\ calls' = calls \cup {Request("apply", o, g)}
  /\ flight' = [flight EXCEPT ![o].todo = @ \ {g}, ![o].wait = @ \cup {g}]
  /\ UNCHANGED <<kind, preview, held, adm, profile, node>>

Broken(state) == IF state = "queued" THEN "refused" ELSE "unknown"

(* The except clause of one: a group whose request failed or was not sent. *)
Failed(o, g) ==
  /\ rec' = Put(o, Items(o, g), [t \in Targets |-> IF t \in Selected(o) THEN Broken(rec[o].state[t]) ELSE None])
  /\ flight' = [flight EXCEPT ![o].todo = @ \ {g}, ![o].wait = @ \ {g}]

not_dispatched(o, g) ==
  /\ flight[o] # None /\ g \in flight[o].todo /\ Failed(o, g)
  /\ UNCHANGED <<kind, preview, held, adm, profile, calls, node>>

finish(o) ==
  /\ flight[o] # None /\ flight[o].todo = {} /\ flight[o].wait = {}
  /\ flight' = [flight EXCEPT ![o] = None]
  /\ UNCHANGED <<kind, preview, held, rec, adm, profile, calls, node>>

-----------------------------------------------------------------------------
(* operation, resolve and forget: under the admission lock *)

Lock(o, what, state, groups) == adm' = [what |-> what, op |-> o, state |-> state, todo |-> groups, wait |-> {}, failed |-> FALSE]

Settled(o) == adm = None /\ rec[o] # None /\ flight[o] = None

Observe(o, state) ==
  /\ Settled(o) /\ rec[o].cleanup = None /\ Lock(o, "operation", state, GroupsOf(o))
  /\ UNCHANGED <<kind, preview, held, rec, flight, profile, calls, node>>

Interrupted(state) == IF state \in {"queued", "dispatching"} THEN "unknown" ELSE state

vm_operation(o) == kind = "vm" /\ rec[o] # None /\ Observe(o, rec[o].state)
container_operation(o) ==
  kind = "container" /\ rec[o] # None /\ Observe(o, [t \in Selected(o) |-> Interrupted(rec[o].state[t])])
admin_operation(o) ==
  kind = "admin" /\ rec[o] # None /\ Observe(o, [t \in Selected(o) |-> Interrupted(rec[o].state[t])])

(* reconcile_receipt: a settled outcome is not taken back. *)
Reconciled(state, row) == IF state \in {"queued", "dispatching", "unknown"} THEN row ELSE state

(* Mutant: a matching state makes an unknown outcome an observed one. *)
SeenUnknown(state) == IF state \in {"accepted", "unknown"} THEN "observed" ELSE state

(* A matching status turns accepted, and nothing else, into observed. *)
Seen(state) == IF state = "accepted" THEN "observed" ELSE state

vm_seen(o) == SUBSET Selected(o)
container_seen(o) == SUBSET Selected(o)
admin_seen(o) == IF preview[o].power THEN {{}} ELSE SUBSET Selected(o)
Matching(o) == CASE kind = "vm" -> vm_seen(o) [] kind = "container" -> container_seen(o) [] kind = "admin" -> admin_seen(o)

(* One group's answers: its receipt or a failure, then the statuses read.   *)
Answered(g, row) ==
  LET o == adm.op IN
  \E seen \in Matching(o) :
    adm' = [adm EXCEPT !.wait = @ \ {g}, !.state = [t \in DOMAIN @ |->
             IF Group[t] # g THEN @[t]
             ELSE LET s == IF row = None THEN Interrupted(@[t]) ELSE Reconciled(@[t], row[t])
                  IN IF t \in seen THEN Seen(s) ELSE s]]

Ask(g) ==
  /\ adm # None /\ g \in adm.todo /\ Guard(adm.op, g, TRUE)
  /\ calls' = calls \cup {Request(IF adm.what = "operation" THEN "receipt" ELSE "forget", adm.op, g)}
  /\ adm' = [adm EXCEPT !.todo = @ \ {g}, !.wait = @ \cup {g}]
  /\ UNCHANGED <<kind, preview, held, rec, flight, profile, node>>

Denied(g) ==
  /\ adm # None /\ g \in adm.todo
  /\ adm' = [adm EXCEPT !.todo = @ \ {g}, !.failed = TRUE]
  /\ UNCHANGED <<kind, preview, held, rec, flight, profile, calls, node>>

(* The finally clause saves whatever was learned. *)
observed ==
  /\ adm # None /\ adm.what = "operation" /\ adm.todo = {} /\ adm.wait = {}
  /\ rec' = [rec EXCEPT ![adm.op].state = adm.state] /\ adm' = None
  /\ UNCHANGED <<kind, preview, held, flight, profile, calls, node>>

Resolve(o, S) ==
  /\ Settled(o) /\ S # {} /\ S \subseteq Selected(o)
  /\ \A t \in S : rec[o].state[t] \in {"unknown", "accepted"}
  /\ rec' = Put(o, S, [t \in Targets |-> "resolved"])
  /\ UNCHANGED <<kind, preview, held, flight, adm, profile, calls, node>>

Readable(o, S) == \A t \in S : rec[o].state[t] = "accepted" => Enabled(Group[t])
vm_resolve(o, S) == kind = "vm" /\ Resolve(o, S) /\ Readable(o, S)
container_resolve(o, S) == kind = "container" /\ Resolve(o, S) /\ Readable(o, S)
admin_resolve(o, S) == kind = "admin" /\ Resolve(o, S) /\ (preview[o].power \/ Readable(o, S))

Forget(o) ==
  LET done == IF rec[o].cleanup = None THEN {} ELSE rec[o].cleanup IN
  /\ Settled(o) /\ \A t \in Selected(o) : rec[o].state[t] \in Terminal
  /\ rec' = [rec EXCEPT ![o].cleanup = done]
  /\ Lock(o, "forget", rec[o].state, GroupsOf(o) \ done)
  /\ UNCHANGED <<kind, preview, held, flight, profile, calls, node>>

vm_forget(o) == kind = "vm" /\ rec[o] # None /\ Forget(o)
container_forget(o) == kind = "container" /\ rec[o] # None /\ Forget(o)
admin_forget(o) == kind = "admin" /\ rec[o] # None /\ Forget(o)

Acknowledged(g) ==
  /\ adm' = [adm EXCEPT !.wait = @ \ {g}]
  /\ rec' = [rec EXCEPT ![adm.op].cleanup = @ \cup {g}]

Removable(o) == ~adm.failed

forgotten ==
  /\ adm # None /\ adm.what = "forget" /\ adm.todo = {} /\ adm.wait = {} /\ adm' = None
  /\ \/ Removable(adm.op) /\ rec' = [rec EXCEPT ![adm.op] = None]
     \/ UNCHANGED rec
  /\ UNCHANGED <<kind, preview, held, flight, profile, calls, node>>

-----------------------------------------------------------------------------
(* Requests that fail, and the controller's restart *)

Lost(S) ==
  LET room == Cardinality({m \in calls : m.late}) + Cardinality({g \in Groups : busy[g] # None /\ busy[g].m.late}) < MaxLate
  IN calls' \in {calls \ S} \cup IF room THEN {(calls \ S) \cup {[m EXCEPT !.late = TRUE] : m \in S}} ELSE {}

Orphaned(S) == [g \in Groups |-> IF busy[g] # None /\ busy[g].m \in S THEN [busy[g] EXCEPT !.m.late = TRUE] ELSE busy[g]]

Refuse(m) ==
  IF m.late THEN UNCHANGED <<rec, flight, adm>>
  ELSE CASE m.what = "apply" -> Failed(m.op, m.g) /\ UNCHANGED adm
         [] m.what = "receipt" -> Answered(m.g, None) /\ UNCHANGED <<rec, flight>>
         [] m.what = "forget" -> adm' = [adm EXCEPT !.wait = @ \ {m.g}, !.failed = TRUE] /\ UNCHANGED <<rec, flight>>

Awaited == {m \in calls \cup {busy[g].m : g \in {h \in Groups : busy[h] # None}} : ~m.late}

give_up(m) ==
  /\ Refuse(m) /\ Lost(calls \cap {m}) /\ busy' = Orphaned({m})
  /\ UNCHANGED <<kind, preview, held, profile, receipt, effect>>

restart ==
  /\ adm # None \/ held # {} \/ \E o \in Ops : flight[o] # None
  /\ held' = {} /\ adm' = None /\ flight' = [o \in Ops |-> None]
  /\ Lost(calls \cap Awaited) /\ busy' = Orphaned(Awaited)
  /\ UNCHANGED <<kind, preview, rec, profile, receipt, effect>>

-----------------------------------------------------------------------------
(* receipt() and forget() on the node, under the receipt lock *)

Answer(m, row) ==
  IF m.late THEN UNCHANGED <<rec, flight, adm>>
  ELSE CASE m.what = "apply" -> /\ rec' = Put(m.op, Items(m.op, m.g), row)
                                /\ flight' = [flight EXCEPT ![m.op].wait = @ \ {m.g}] /\ UNCHANGED adm
         [] m.what = "receipt" -> Answered(m.g, row) /\ UNCHANGED <<rec, flight>>
         [] m.what = "forget" -> Acknowledged(m.g) /\ UNCHANGED flight

Stopped(state) == CASE state = "dispatching" -> "unknown" [] state = "queued" -> "refused" [] OTHER -> state

(* What a retained receipt answers to anything but its removal. *)
Kept(m, r) ==
  IF \E t \in DOMAIN r : r[t] \in {"observed", "resolved"} THEN Refuse(m) /\ UNCHANGED receipt
  ELSE LET row == [t \in DOMAIN r |-> Stopped(r[t])]
       IN Answer(m, row) /\ receipt' = [receipt EXCEPT ![m.g][m.op] = row]

Valid(state, outcome) ==
  \/ state = outcome
  \/ outcome = "resolved" /\ state \in {"accepted", "unknown", "dispatching"}
  \/ state = "accepted" /\ outcome = "observed"
  \/ state = "queued" /\ outcome = "refused"

Matches(r, outcomes) == \A t \in DOMAIN r : Valid(r[t], outcomes[t])

(* The lock is tried once; a receipt is written as queued before any step.  *)
Serve(m) ==
  LET r == receipt[m.g][m.op] IN
  /\ m \in calls /\ calls' = calls \ {m}
  /\ IF busy[m.g] # None THEN Refuse(m) /\ UNCHANGED <<receipt, busy>>
     ELSE CASE r # None /\ m.what # "forget" -> Kept(m, r) /\ UNCHANGED busy
            [] r # None /\ m.what = "forget" ->
                 IF Matches(r, m.proof)
                 THEN /\ receipt' = [receipt EXCEPT ![m.g][m.op] = [t \in DOMAIN r |-> m.proof[t]]]
                      /\ busy' = [busy EXCEPT ![m.g] = [m |-> m, todo |-> {}, now |-> {}]] /\ UNCHANGED <<rec, flight, adm>>
                 ELSE Refuse(m) /\ UNCHANGED <<receipt, busy>>
            [] r = None /\ m.what = "forget" -> Answer(m, None) /\ UNCHANGED <<receipt, busy>>
            [] r = None /\ m.what = "receipt" -> Refuse(m) /\ UNCHANGED <<receipt, busy>>
            [] r = None /\ m.what = "apply" ->
                 /\ receipt' = [receipt EXCEPT ![m.g][m.op] = [t \in Items(m.op, m.g) |-> "queued"]]
                 /\ busy' = [busy EXCEPT ![m.g] = [m |-> m, todo |-> Items(m.op, m.g), now |-> {}]]
                 /\ UNCHANGED <<rec, flight, adm>>
  /\ UNCHANGED <<kind, preview, held, profile, effect>>

vm_receipt(m) == kind = "vm" /\ Serve(m)
container_receipt(m) == kind = "container" /\ Serve(m)
admin_receipt(m) == kind = "admin" /\ Serve(m)

(* One target at a time; administration marks and applies its whole batch.  *)
Batch(todo) == IF kind = "admin" THEN todo ELSE {Least(todo)}

begin(g) ==
  LET b == busy[g] IN
  /\ b # None /\ b.m.what = "apply" /\ b.todo # {} /\ b.now = {}
  /\ LET now == Batch(b.todo) IN
       /\ receipt' = [receipt EXCEPT ![g][b.m.op] = [t \in DOMAIN @ |-> IF t \in now THEN "dispatching" ELSE @[t]]]
       /\ busy' = [busy EXCEPT ![g].todo = @ \ now, ![g].now = now]
  /\ UNCHANGED <<kind, controller, calls, effect>>

Acted(o, S) == [effect EXCEPT ![o] = [t \in Targets |-> IF t \in S THEN @[t] + 1 ELSE @[t]]]

(* provider.apply: acknowledged, refused before it acted, or in doubt.      *)
vm_apply(S) == [S -> {"accepted", "refused", "unknown"}]
container_apply(S) == [S -> {"accepted", "refused", "unknown"}]
(* One command for all that were not refused: they succeed or are in doubt together. *)
admin_apply(S) == [S -> {"accepted", "refused"}] \cup [S -> {"unknown", "refused"}]
Outcomes(S) == CASE kind = "vm" -> vm_apply(S) [] kind = "container" -> container_apply(S) [] kind = "admin" -> admin_apply(S)

apply(g) ==
  LET b == busy[g]  o == b.m.op IN
  /\ b # None /\ b.now # {}
  /\ \E out \in Outcomes(b.now), S \in SUBSET b.now :
       /\ \A t \in b.now : out[t] # "unknown" => (t \in S <=> out[t] = "accepted")
       /\ effect' = Acted(o, S)
       /\ receipt' = [receipt EXCEPT ![g][o] = [t \in DOMAIN @ |-> IF t \in b.now THEN out[t] ELSE @[t]]]
  /\ busy' = [busy EXCEPT ![g].now = {}]
  /\ UNCHANGED <<kind, controller, calls>>

reply(g) ==
  LET b == busy[g] IN
  /\ b # None /\ b.m.what = "apply" /\ b.todo = {} /\ b.now = {}
  /\ Answer(b.m, receipt[g][b.m.op]) /\ busy' = [busy EXCEPT ![g] = None]
  /\ UNCHANGED <<kind, preview, held, profile, calls, receipt, effect>>

(* The proof is on disk; the unlink completes the removal. *)
unlink(g) ==
  LET b == busy[g] IN
  /\ b # None /\ b.m.what = "forget"
  /\ receipt' = [receipt EXCEPT ![g][b.m.op] = None] /\ Answer(b.m, None) /\ busy' = [busy EXCEPT ![g] = None]
  /\ UNCHANGED <<kind, preview, held, profile, calls, effect>>

(* The helper dies, in a provider call perhaps after its effect. *)
HelperDies(g) ==
  LET b == busy[g] IN
  /\ b # None /\ busy' = [busy EXCEPT ![g] = None] /\ Refuse(b.m)
  /\ \E S \in SUBSET b.now : effect' = Acted(b.m.op, S)
  /\ UNCHANGED <<kind, preview, held, profile, calls, receipt>>

-----------------------------------------------------------------------------
Next ==
  \/ \E g \in Groups : \/ vm_set_profile(g) \/ container_set_profile(g) \/ admin_set_profile(g)
                        \/ vm_remove_profile(g) \/ container_remove_profile(g) \/ admin_remove_profile(g)
                        \/ Ask(g) \/ Denied(g) \/ begin(g) \/ apply(g) \/ reply(g) \/ unlink(g) \/ HelperDies(g)
  \/ \E o \in Ops : \/ vm_preview(o) \/ container_preview(o) \/ admin_preview(o) \/ Expire(o)
                     \/ vm_commit(o) \/ container_commit(o) \/ admin_commit(o) \/ finish(o)
                     \/ vm_operation(o) \/ container_operation(o) \/ admin_operation(o)
                     \/ vm_forget(o) \/ container_forget(o) \/ admin_forget(o)
                     \/ \E g \in Groups : dispatch(o, g) \/ not_dispatched(o, g)
                     \/ \E S \in SUBSET Targets : vm_resolve(o, S) \/ container_resolve(o, S) \/ admin_resolve(o, S)
  \/ observed \/ forgotten \/ restart
  \/ \E m \in Awaited : give_up(m)
  \/ \E m \in calls : vm_receipt(m) \/ container_receipt(m) \/ admin_receipt(m)

Spec == Init /\ [][Next]_vars

-----------------------------------------------------------------------------
(* operation(value): what each store accepts when it reads or saves. *)
Storable(o) ==
  /\ rec[o].state \in [Selected(o) -> {"queued", "dispatching", "accepted", "unknown"} \cup Terminal]
  /\ rec[o].cleanup # None =>
       rec[o].cleanup \subseteq GroupsOf(o) /\ \A t \in Selected(o) : rec[o].state[t] \in Terminal
vm_storable(o) == kind = "vm" => Storable(o) /\ ~preview[o].power
container_storable(o) == kind = "container" => Storable(o) /\ ~preview[o].power
admin_storable(o) == kind = "admin" => Storable(o)

(* Every record passes its store's validation, so that no save or later     *)
(* read of it fails; receipts and locks keep their types.                   *)
TypeOK ==
  /\ \A o \in Ops : rec[o] # None => vm_storable(o) /\ container_storable(o) /\ admin_storable(o)
  /\ \A g \in Groups : busy[g] # None => receipt[g][busy[g].m.op] # None
  /\ adm # None => rec[adm.op] # None /\ flight[adm.op] = None
  /\ Cardinality(held) <= MaxPreviews

State(o, t) == IF rec[o] = None \/ t \notin Selected(o) THEN "none" ELSE rec[o].state[t]

(* A refused target was not acted on and never will be, whatever request    *)
(* is still under way (dispatch_check marks the intent before the request,  *)
(* and the node calls only undispatched targets refused).                   *)
RefusedUntouched == \A o \in Ops, t \in Targets : State(o, t) = "refused" => effect[o][t] = 0

(* An accepted or observed target was acted on, once: a matching status     *)
(* alone never turns an unknown outcome into a success.                     *)
AcceptedActed == \A o \in Ops, t \in Targets : State(o, t) \in {"accepted", "observed"} => effect[o][t] = 1

(* A confirmed preview acts at most once on a target, also when it is       *)
(* confirmed again, retried after a restart, or its request arrives after   *)
(* its record was removed.                                                  *)
ActedOnce == \A o \in Ops, t \in Targets : effect[o][t] <= 1

(* Two unfinished operations never share a target, and a power action       *)
(* shares its system with none (commit's checks under the admission lock).  *)
OneUnfinished ==
  \A o, p \in Ops : \A t, u \in Targets :
    o # p /\ Unfinished(o, t) /\ Unfinished(p, u) =>
      t # u /\ (Group[t] = Group[u] => ~preview[o].power /\ ~preview[p].power)

(* A record always finds the profile it needs for its recovery. *)
ProfileHeld == \A g \in Groups : Recorded(g) # {} => profile[g] # None

Idling(g, o) == busy[g] = None /\ ~\E m \in calls : m.g = g /\ m.op = o

(* Once every target of an operation is terminal without the owner's        *)
(* resolution, each idle node accepts the removal of its receipt.           *)
ProvedRemovable ==
  \A o \in Ops, g \in Groups :
    rec[o] # None /\ receipt[g][o] # None /\ Idling(g, o) /\ (\A t \in Selected(o) : rec[o].state[t] \in {"observed", "refused"})
      => Matches(receipt[g][o], rec[o].state)

Proved(o, g) == \A t \in Items(o, g) : rec[o].state[t] \in {"observed", "refused"}

(* A record is removed only after every node removed its receipt; only a    *)
(* target the owner resolved may leave one, from a request that comes late. *)
RemovedClean ==
  \A o \in Ops : rec[o] # None /\ rec'[o] = None =>
    \A g \in GroupsOf(o) : Proved(o, g) => receipt[g][o] = None

(* A terminal outcome is final until its record is removed. *)
TerminalFinal ==
  \A o \in Ops, t \in Targets : State(o, t) \in Terminal => State(o, t)' \in {State(o, t), "none"}
=============================================================================
