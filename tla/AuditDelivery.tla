--------------------------- MODULE AuditDelivery ---------------------------
(* Delivery of the controller's audit rows and of the intents of protected  *)
(* mutations to a separate append-only collector (audit_delivery.py,        *)
(* audit_state.py, audit_cli.py and the HTTPS collector).  A batch is       *)
(* written to the checkpoint before it is sent and stays there until its    *)
(* acknowledgement is written too; the delivery is one task, the waiters    *)
(* of required admission run beside it.                                     *)
EXTENDS Naturals, FiniteSets, Sequences, FiniteSetsExt, FiniteSetTheorems, SequenceTheorems, TLAPS

CONSTANTS
  Intents,    \* protected mutations
  None,
  MaxRows,    \* rows the controller writes
  Keep,       \* rows the table retains
  Page,       \* rows of one batch
  MaxLag, MaxWait,
  MaxCrash, MaxCommand

AuditAssumption ==
  /\ MaxRows \in Nat /\ Keep \in Nat \ {0} /\ Page \in Nat \ {0}
  /\ MaxLag \in Nat /\ MaxWait \in Nat /\ MaxCrash \in Nat /\ MaxCommand \in Nat

VARIABLES
  first, last,  \* the rows first..last are in the table
  marker,       \* the required policy stored with the metadata
  conf,         \* configuration.json: None or [required]
  disk,         \* checkpoint.json: None or the checkpoint
  command,      \* the administrator's command under way, or None
  policy,       \* the policy the administrator was last told of
  up,           \* the controller runs
  required,     \* its view of the policy
  ck,           \* its checkpoint, None if there is none
  dirty,        \* a save was begun and not confirmed
  pc,           \* the delivery task: idle, save, send, wait, ack
  queue, active,\* admission requests, and the one in the pending batch
  waiter,       \* intent -> new, waiting, left, refused, admitted, ungated
  net,          \* batches on their way to the collector
  journal,      \* the collector's batches of the stream
  earlier,      \* intents in the journals of streams before it
  crashes, commands

store == <<first, last>>
config == <<marker, conf, command, policy, commands>>
task == <<ck, dirty, pc, queue, active>>
vars == <<store, config, disk, up, required, task, waiter, net, journal, earlier, crashes>>

initial == [seq |-> 0, cursor |-> 0, seen |-> 0, gap |-> 0, pending |-> None]

Init ==
  /\ first = 1 /\ last = 0
  /\ marker = FALSE /\ conf = None /\ disk = None /\ command = None /\ policy = "free" /\ commands = 0
  /\ up = FALSE /\ required = FALSE
  /\ ck = None /\ dirty = FALSE /\ pc = "idle" /\ queue = <<>> /\ active = None
  /\ waiter = [i \in Intents |-> "new"] /\ net = {} /\ journal = <<>> /\ earlier = {} /\ crashes = 0

-----------------------------------------------------------------------------
(* The administrator, while the controller is stopped *)

begin_command ==
  /\ ~up /\ command = None /\ commands < MaxCommand
  /\ \E op \in {"configure", "mode"}, want \in BOOLEAN :
       /\ op = "mode" => conf # None
       /\ op = "configure" => conf = None
       /\ command' = [op |-> op, want |-> want, at |-> 1]
       /\ policy' = IF want THEN policy ELSE "free"
  /\ commands' = commands + 1
  /\ UNCHANGED <<store, marker, conf, disk, up, required, task, waiter, net, journal, crashes, earlier>>

Done(c) == IF c.want THEN "required" ELSE policy

(* configure: the marker, the checkpoint, the configuration.  A checkpoint  *)
(* left by an interrupted configuration is not overwritten.                 *)
configure ==
  /\ command # None /\ command.op = "configure"
  /\ CASE command.at = 1 -> /\ marker' = (marker \/ command.want)
                            /\ command' = [command EXCEPT !.at = 2] /\ UNCHANGED <<conf, disk, policy>>
       [] command.at = 2 -> /\ IF disk = None
                               THEN disk' = initial /\ command' = [command EXCEPT !.at = 3]
                               ELSE command' = None /\ UNCHANGED disk
                            /\ UNCHANGED <<marker, conf, policy>>
       [] command.at = 3 -> /\ conf' = [required |-> command.want] /\ command' = None /\ policy' = Done(command)
                            /\ UNCHANGED <<marker, disk>>
  /\ UNCHANGED <<store, up, required, task, waiter, net, journal, crashes, commands, earlier>>

(* mode: raised first in the marker, lowered last in it. *)
Steps(want) == IF want THEN <<"marker", "conf">> ELSE <<"conf", "marker">>

mode ==
  /\ command # None /\ command.op = "mode"
  /\ IF Steps(command.want)[command.at] = "marker"
     THEN marker' = command.want /\ UNCHANGED conf
     ELSE conf' = [required |-> command.want] /\ UNCHANGED marker
  /\ IF command.at = 1 THEN command' = [command EXCEPT !.at = 2] /\ UNCHANGED policy
     ELSE command' = None /\ policy' = Done(command)
  /\ UNCHANGED <<store, disk, up, required, task, waiter, net, journal, crashes, commands, earlier>>

command_dies ==
  /\ command # None /\ crashes < MaxCrash /\ crashes' = crashes + 1 /\ command' = None
  /\ UNCHANGED <<store, marker, conf, policy, commands, disk, up, required, task, waiter, net, journal, earlier>>

(* A restored backup has the rows and the marker, and neither the           *)
(* configuration nor the checkpoint; it needs a new stream.                 *)
restore ==
  /\ ~up /\ command = None /\ commands < MaxCommand /\ conf # None
  /\ commands' = commands + 1 /\ conf' = None /\ disk' = None
  /\ earlier' = earlier \cup {journal[k].intent : k \in DOMAIN journal}
  /\ journal' = <<>> /\ net' = {}
  /\ UNCHANGED <<store, marker, command, policy, up, required, task, waiter, crashes>>

-----------------------------------------------------------------------------
(* The controller starts and stops *)

Enforced == marker \/ (conf # None /\ conf.required)

(* The delivery exists only with a configuration and its checkpoint. *)
start ==
  /\ ~up /\ command = None /\ up' = TRUE
  /\ required' = Enforced
  /\ ck' = IF conf = None THEN None ELSE disk
  /\ dirty' = FALSE /\ pc' = "idle" /\ queue' = <<>> /\ active' = None
  /\ UNCHANGED <<store, config, disk, waiter, net, journal, crashes, earlier>>

crash ==
  /\ up /\ crashes < MaxCrash /\ crashes' = crashes + 1 /\ up' = FALSE
  /\ waiter' = [i \in Intents |-> IF waiter[i] = "waiting" THEN "refused" ELSE waiter[i]]
  /\ ck' = None /\ dirty' = FALSE /\ pc' = "idle" /\ queue' = <<>> /\ active' = None
  /\ UNCHANGED <<store, config, disk, required, net, journal, earlier>>

(* audit: a row is written and the oldest beyond the limit deleted. *)
audit ==
  /\ up /\ last < MaxRows /\ last' = last + 1
  /\ first' = IF last + 1 - first >= Keep THEN first + 1 ELSE first
  /\ UNCHANGED <<config, disk, up, required, task, waiter, net, journal, crashes, earlier>>

-----------------------------------------------------------------------------
(* Required admission *)

Lag == ck.seen - ck.cursor

Waiters == Len(queue) + (IF active = None THEN 0 ELSE 1)

Admission(i) ==
  IF ~required THEN "ungated"
  ELSE IF ck = None THEN "refused"
  ELSE IF Lag > MaxLag \/ Waiters >= MaxWait THEN "refused" ELSE "waiting"

require(i) ==
  /\ up /\ waiter[i] = "new"
  /\ waiter' = [waiter EXCEPT ![i] = Admission(i)]
  /\ queue' = IF Admission(i) = "waiting" THEN Append(queue, i) ELSE queue
  /\ UNCHANGED <<store, config, disk, up, required, ck, dirty, pc, active, net, journal, crashes, earlier>>

(* The wait ends; the request stays queued until the task reaches it. *)
leave(i) ==
  /\ waiter[i] = "waiting" /\ waiter' = [waiter EXCEPT ![i] = "left"]
  /\ UNCHANGED <<store, config, disk, up, required, task, net, journal, crashes, earlier>>

Queued == {queue[k] : k \in DOMAIN queue} \cup {active}

refuse ==
  /\ waiter' = [i \in Intents |-> IF i \in Queued /\ waiter[i] = "waiting" THEN "refused" ELSE waiter[i]]
  /\ queue' = <<>> /\ active' = None

-----------------------------------------------------------------------------
(* The delivery task *)

(* A save succeeds, fails before or fails after the file was replaced. *)
Saved(ok) == IF ok THEN disk' = ck ELSE disk' \in {disk, ck}

(* page: the next rows, and the ones between the cursor and the first of    *)
(* them that the table no longer has.                                       *)
page(cursor) ==
  LET rows == {n \in first..last : n > cursor}
      ids == {n \in rows : Cardinality({m \in rows : m < n}) < Page}
      through == IF ids = {} THEN cursor ELSE Max(ids)
  IN [ids |-> ids, through |-> through, gaps |-> (cursor + 1)..through \ ids]

Batch(p, intent) ==
  [seq |-> ck.seq + 1, after |-> ck.cursor, through |-> p.through, ids |-> p.ids, gaps |-> p.gaps, intent |-> intent]

(* The first queued request that is still waited for. *)
Ready == {k \in DOMAIN queue : waiter[queue[k]] = "waiting"}

(* step: what a failed save left is saved first, and nobody is released by  *)
(* it; then the pending batch goes out, or the next one is made.            *)
resave ==
  /\ up /\ ck # None /\ pc = "idle" /\ dirty
  /\ \E ok \in BOOLEAN :
       /\ Saved(ok) /\ dirty' = ~ok /\ refuse
       /\ pc' = IF ok /\ ck.pending # None THEN "send" ELSE "idle"
  /\ UNCHANGED <<store, config, up, required, ck, net, journal, crashes, earlier>>

(* A batch is written to the checkpoint before it is sent. *)
NextSave == "save"

step ==
  /\ up /\ ck # None /\ pc = "idle" /\ ~dirty
  /\ IF ck.pending # None THEN pc' = "send" /\ UNCHANGED <<ck, dirty, queue, active>>
     ELSE LET p == page(ck.cursor)
              k == IF p.ids = {} /\ Ready # {} THEN Min(Ready) ELSE 0
              intent == IF k = 0 THEN None ELSE queue[k]
              new == p.ids # {} \/ k > 0 \/ ck.seq = 0
          IN /\ ck' = [ck EXCEPT !.seen = last, !.pending = IF new THEN Batch(p, intent) ELSE None]
             /\ queue' = IF p.ids # {} THEN queue ELSE IF k = 0 THEN <<>> ELSE SubSeq(queue, k + 1, Len(queue))
             /\ active' = IF k = 0 THEN active ELSE intent
             /\ dirty' = new /\ pc' = IF new THEN NextSave ELSE "idle"
  /\ <<ck', pc', queue'>> # <<ck, pc, queue>>
  /\ UNCHANGED <<store, config, disk, up, required, waiter, net, journal, crashes, earlier>>

(* persist of a new batch *)
save ==
  /\ up /\ pc = "save"
  /\ \E ok \in BOOLEAN :
       /\ Saved(ok) /\ dirty' = ~ok
       /\ IF ok THEN pc' = "send" /\ UNCHANGED <<waiter, queue, active>> ELSE pc' = "idle" /\ refuse
  /\ UNCHANGED <<store, config, up, required, ck, net, journal, crashes, earlier>>

send ==
  /\ up /\ pc = "send" /\ pc' = "wait" /\ net' = net \cup {ck.pending}
  /\ UNCHANGED <<store, config, disk, up, required, ck, dirty, queue, active, waiter, journal, crashes, earlier>>

(* The append fails: no credential, no connection, a refusal or a timeout.  *)
(* The request may still arrive.                                            *)
send_fails ==
  /\ up /\ pc \in {"send", "wait"} /\ pc' = "idle" /\ refuse
  /\ UNCHANGED <<store, config, disk, up, required, ck, dirty, net, journal, crashes, earlier>>

-----------------------------------------------------------------------------
(* The collector *)

Last == IF journal = <<>> THEN [seq |-> 0, through |-> 0] ELSE journal[Len(journal)]

Known(b) == b.seq \in DOMAIN journal /\ journal[b.seq] = b
Follows(b) == b.seq \notin DOMAIN journal /\ b.seq = Last.seq + 1 /\ b.after = Last.through

Appended(b) == IF Follows(b) THEN Append(journal, b) ELSE journal

(* acknowledgement: the answer is for exactly the batch that was sent. *)
Acknowledged ==
  LET sent == ck.pending IN
  [ck EXCEPT !.seq = sent.seq, !.cursor = sent.through, !.gap = @ + Cardinality(sent.gaps), !.pending = None]

(* The collector commits and answers; the answer reaches a task that still  *)
(* waits for it, or is lost.                                                *)
append(b) ==
  /\ b \in net /\ net' = net \ {b} /\ journal' = Appended(b)
  /\ \/ UNCHANGED task
     \/ /\ up /\ pc = "wait" /\ b = ck.pending /\ (Known(b) \/ Follows(b))
        /\ ck' = Acknowledged /\ dirty' = TRUE /\ pc' = "ack" /\ UNCHANGED <<queue, active>>
  /\ UNCHANGED <<store, config, disk, up, required, waiter, crashes, earlier>>

lose(b) ==
  /\ b \in net /\ net' = net \ {b}
  /\ UNCHANGED <<store, config, disk, up, required, task, waiter, journal, crashes, earlier>>

(* The waiter is released once the acknowledgement is in the checkpoint. *)
Released(ok) == ok

ack ==
  /\ up /\ pc = "ack" /\ pc' = "idle"
  /\ \E ok \in BOOLEAN :
       /\ Saved(ok) /\ dirty' = ~ok
       /\ IF Released(ok)
          THEN /\ waiter' = [i \in Intents |-> IF i = active /\ waiter[i] = "waiting" THEN "admitted" ELSE waiter[i]]
               /\ active' = None /\ UNCHANGED queue
          ELSE refuse
  /\ UNCHANGED <<store, config, up, required, ck, net, journal, crashes, earlier>>

-----------------------------------------------------------------------------
Next ==
  \/ begin_command \/ configure \/ mode \/ command_dies \/ restore \/ start \/ crash \/ audit
  \/ \E i \in Intents : require(i) \/ leave(i)
  \/ resave \/ step \/ save \/ send \/ send_fails \/ ack
  \/ \E b \in net : append(b) \/ lose(b)

Spec == Init /\ [][Next]_vars

-----------------------------------------------------------------------------
TypeOK ==
  /\ first \in 1..(last + 1) /\ last \in 0..MaxRows /\ last - first < Keep
  /\ pc \in {"idle", "save", "send", "wait", "ack"} /\ Cardinality(Queued \ {None}) <= MaxWait
  /\ \A i \in Intents : waiter[i] \in {"new", "waiting", "left", "refused", "admitted", "ungated"}
  /\ ck # None => ck.cursor <= ck.seen /\ ck.seen <= last

Reported(b) == b.ids \cup b.gaps

(* The collector's journal accounts for every row once: each row up to the  *)
(* last batch was delivered or reported missing, through failed saves,      *)
(* lost answers, late requests and crashes, and the controller's count of   *)
(* missing rows is the journal's.                                           *)
EveryRowOnce ==
  /\ UNION {Reported(journal[k]) : k \in DOMAIN journal} = 1..Last.through
  /\ \A j, k \in DOMAIN journal : j # k => Reported(journal[j]) \cap Reported(journal[k]) = {}
  /\ ck # None => ck.gap = Cardinality(UNION {journal[k].gaps : k \in 1..ck.seq})

(* What the collector has beyond the saved checkpoint is exactly the saved  *)
(* pending batch, so that a restart repeats it and never conflicts with it. *)
PendingSaved ==
  /\ disk = None => journal = <<>>
  /\ disk # None =>
       /\ Len(journal) \in {disk.seq, disk.seq + 1}
       /\ Len(journal) = disk.seq + 1 => disk.pending = journal[Len(journal)]

(* A mutation admitted under required auditing has its intent in the        *)
(* collector, and the checkpoint on disk is past it.                        *)
IntentDurable == \A i \in Intents : waiter[i] = "admitted" =>
  i \in earlier \/ \E k \in DOMAIN journal : journal[k].intent = i /\ disk.seq >= k

(* Once the administrator was told that auditing is required, a controller  *)
(* that starts enforces it, though a command died half way or the state     *)
(* was restored without its destination.                                    *)
PolicyKept == up /\ policy = "required" => required

-----------------------------------------------------------------------------
(* The inductive invariant.  Batches, checkpoints and commands, and nothing *)
(* else, are told from the absent value.                                    *)
Batches ==
  [seq : Nat \ {0}, after : Nat, through : Nat, ids : SUBSET Nat, gaps : SUBSET Nat, intent : Intents \cup {None}]
Checkpoints == [seq : Nat, cursor : Nat, seen : Nat, gap : Nat, pending : Batches \cup {None}]
Commands == [op : {"configure", "mode"}, want : BOOLEAN, at : 1..3]

Distinct == None \notin Intents \cup Batches \cup Checkpoints \cup Commands
AuditConstants == AuditAssumption /\ Distinct

(* A batch reports exactly the rows after the batch before it. *)
Whole(b) == b.after <= b.through /\ Reported(b) = (b.after + 1)..b.through

Through(j, n) == IF n = 0 THEN 0 ELSE j[n].through
Missing(j, n) == UNION {j[k].gaps : k \in 1..n}

(* The collector's batches are numbered, and account for each row once. *)
Chain(j) ==
  /\ j \in Seq(Batches)
  /\ \A k \in DOMAIN j : Whole(j[k]) /\ j[k].seq = k
  /\ UNION {Reported(j[k]) : k \in DOMAIN j} = 1..Through(j, Len(j))
  /\ \A i, k \in DOMAIN j : i # k => Reported(j[i]) \cap Reported(j[k]) = {}

(* A checkpoint, in memory or on disk, is at the journal's end or one batch *)
(* before it, and then that batch is its pending one.                       *)
Abreast(c, j) ==
  /\ c \in Checkpoints /\ c.seq <= Len(j)
  /\ c.cursor = Through(j, c.seq) /\ c.gap = Cardinality(Missing(j, c.seq))
  /\ c.pending # None => Whole(c.pending) /\ c.pending.seq = c.seq + 1 /\ c.pending.after = c.cursor
  /\ Len(j) # c.seq => Len(j) = c.seq + 1 /\ c.pending = j[Len(j)]

OnDisk == IF disk = None THEN journal = <<>> /\ net = {} ELSE Abreast(disk, journal)

(* How the file can differ from the checkpoint in memory: not at all, or by *)
(* a batch that was never sent, or by an acknowledgement.                   *)
Unsaved == disk.seq = ck.seq /\ disk.pending = None
Unacked == ck.seq = disk.seq + 1 /\ ck.pending = None
Agrees == disk.seq = ck.seq /\ disk.pending = ck.pending

InMemory ==
  /\ pc \in {"idle", "save", "send", "wait", "ack"} /\ dirty \in BOOLEAN
  /\ ck = None => pc = "idle" /\ active = None /\ queue = <<>>
  /\ ck # None =>
       /\ up /\ disk # None /\ Abreast(ck, journal)
       /\ Agrees \/ (dirty /\ Unsaved) \/ (dirty /\ Unacked)
       /\ pc \in {"send", "wait"} => ~dirty
       /\ pc \in {"save", "ack"} => dirty
       /\ pc \in {"save", "send", "wait"} => ck.pending # None
       /\ pc = "ack" => ck.seq > 0

(* A request on its way is one the collector has, or the saved batch. *)
OnTheWay == \A b \in net : b \in Batches /\ (b.seq <= Len(journal) \/ (disk # None /\ b = disk.pending))

(* The request being served is in the batch under way. *)
Serving ==
  /\ queue \in Seq(Intents) /\ active \in Intents \cup {None}
  /\ waiter \in [Intents -> {"new", "waiting", "left", "refused", "admitted", "ungated"}]
  /\ active # None => \/ pc \in {"save", "send", "wait"} /\ ck.pending.intent = active
                      \/ pc = "ack" /\ journal[ck.seq].intent = active

Rows == first \in Nat /\ last \in Nat

(* A command that raises the policy has stored the marker before it ends. *)
Promised ==
  /\ command = None \/ command \in Commands
  /\ up \in BOOLEAN /\ marker \in BOOLEAN
  /\ command # None => ~up /\ (command.op = "mode" => command.at \in 1..2)
  /\ command # None => (command.want /\ command.at > 1 => marker)
  /\ policy = "required" => marker /\ (command # None => command.want)
  /\ PolicyKept

Delivery == Chain(journal) /\ OnDisk /\ InMemory /\ OnTheWay
Admitting == Serving /\ IntentDurable
Inv == Rows /\ Delivery /\ Admitting /\ Promised

-----------------------------------------------------------------------------
(* Pages and journals *)

(* page returns the next rows of the table and names as missing exactly the *)
(* others up to the last of them.                                           *)
LEMMA PageWhole ==
  ASSUME AuditAssumption, Rows, NEW cursor \in Nat
  PROVE  LET p == page(cursor) IN
         /\ p.ids \in SUBSET Nat /\ p.gaps \in SUBSET Nat /\ p.through \in Nat
         /\ cursor <= p.through /\ p.ids \cup p.gaps = (cursor + 1)..p.through
<1> DEFINE rows == {n \in first..last : n > cursor}
           ids == {n \in rows : Cardinality({m \in rows : m < n}) < Page}
           through == IF ids = {} THEN cursor ELSE Max(ids)
           gaps == (cursor + 1)..through \ ids
<1>1. /\ page(cursor).ids = ids /\ page(cursor).through = through
      /\ page(cursor).gaps = gaps
  BY DEF page
<1>2. ids \subseteq rows /\ rows \subseteq Nat /\ \A n \in rows : n > cursor
  BY DEF Rows
<1>3. CASE ids = {}
  BY <1>1, <1>2, <1>3
<1>4. CASE ids # {}
  <2> DEFINE lo == IF first > cursor THEN first ELSE cursor + 1
             hi == IF lo + Page - 1 <= last THEN lo + Page - 1 ELSE last
  <2>1. lo \in Nat /\ Page \in Nat \ {0} /\ last \in Nat
    BY DEF AuditAssumption, Rows
  <2>2. rows = lo..last
    BY DEF Rows
  <2>3. ASSUME NEW n \in rows
        PROVE  Cardinality({m \in rows : m < n}) = n - lo
    <3> HIDE DEF lo, rows
    <3>1. n \in lo..last
      BY <2>2, <2>3
    <3> DEFINE S == {m \in rows : m < n}
    <3>2. S = lo..(n - 1)
      BY <2>1, <2>2, <3>1
    <3> HIDE DEF S
    <3>3. Cardinality(lo..(n - 1)) = IF lo > n - 1 THEN 0 ELSE n - 1 - lo + 1
      BY <2>1, <3>1, FS_Interval
    <3>4. Cardinality(S) = n - lo
      BY <2>1, <3>1, <3>2, <3>3
    <3> QED BY <3>4 DEF S
  <2>4. \A n : n \in ids <=> n \in lo..last /\ n - lo < Page
    BY <2>2, <2>3
  <2> HIDE DEF rows, ids
  <2>5. hi \in ids /\ \A n \in ids : hi >= n
    <3>1. PICK n : n \in ids
      BY <1>4
    <3> QED BY <2>1, <2>4, <3>1
  <2>6. Max(ids) \in ids /\ \A n \in ids : Max(ids) >= n
    BY <2>5 DEF Max
  <2> HIDE DEF hi, lo
  <2>7. through = Max(ids)
    BY <1>4
  <2>8. through \in Nat /\ through > cursor /\ \A n \in ids : n \in (cursor + 1)..through
    <3> HIDE DEF through
    <3>1. Max(ids) \in Nat /\ Max(ids) > cursor
      BY <1>2, <2>6
    <3> QED BY <1>2, <2>6, <2>7, <3>1
  <2>9. gaps = ((cursor + 1)..through) \ ids
    OBVIOUS
  <2> HIDE DEF through, gaps
  <2>10. ids \cup gaps = (cursor + 1)..through /\ gaps \in SUBSET Nat /\ ids \in SUBSET Nat
    <3>1. \A n \in ids : n \in (cursor + 1)..through
      BY <2>8
    <3>2. ids \in SUBSET Nat
      BY <1>2
    <3>3. (cursor + 1)..through \subseteq Nat
      BY <2>8
    <3> DEFINE I == (cursor + 1)..through
    <3> HIDE DEF I, ids, gaps
    <3>4. ids \subseteq I /\ I \subseteq Nat /\ gaps = I \ ids
      BY <2>9, <3>1, <3>3 DEF I
    <3>5. ids \cup gaps = I /\ gaps \in SUBSET Nat
      BY <3>4
    <3> QED BY <3>2, <3>5 DEF I
  <2> QED BY <1>1, <2>8, <2>10
<1> QED BY <1>3, <1>4

(* The collector's append keeps the journal in order. *)
LEMMA ChainGrows ==
  ASSUME NEW j, Chain(j), NEW b \in Batches, Whole(b), b.seq = Len(j) + 1, b.after = Through(j, Len(j))
  PROVE  /\ Chain(Append(j, b)) /\ Len(Append(j, b)) = Len(j) + 1
         /\ Append(j, b)[Len(j) + 1] = b /\ \A k \in 1..Len(j) : Append(j, b)[k] = j[k]
<1> DEFINE jj == Append(j, b)
           N == Len(j)
<1>1. j \in Seq(Batches) /\ N \in Nat /\ DOMAIN j = 1..N
  BY DEF Chain
<1>2. /\ jj \in Seq(Batches) /\ Len(jj) = N + 1 /\ DOMAIN jj = 1..(N + 1)
      /\ jj[N + 1] = b /\ \A k \in 1..N : jj[k] = j[k]
  BY <1>1, AppendProperties
<1> HIDE DEF jj
<1>3. Through(j, N) \in Nat /\ Through(jj, N + 1) = b.through
  BY <1>1, <1>2 DEF Through, Batches
<1>4. \A k \in 1..(N + 1) : Whole(jj[k]) /\ jj[k].seq = k
  BY <1>1, <1>2 DEF Chain
<1> DEFINE X == UNION {Reported(jj[k]) : k \in 1..(N + 1)}
           Y == UNION {Reported(j[k]) : k \in 1..N}
<1>5. X = Y \cup Reported(b)
  <2>1. \A k \in 1..N : jj[k] = j[k] /\ k \in 1..(N + 1)
    BY <1>1, <1>2
  <2>2. jj[N + 1] = b /\ N + 1 \in 1..(N + 1)
    BY <1>1, <1>2
  <2>3. \A k \in 1..(N + 1) : k \in 1..N \/ k = N + 1
    BY <1>1
  <2>4. \A x : x \in X <=> \E k \in 1..(N + 1) : x \in Reported(jj[k])
    OBVIOUS
  <2>5. \A x : x \in Y <=> \E k \in 1..N : x \in Reported(j[k])
    OBVIOUS
  <2> HIDE DEF X, Y, N
  <2>6. \A x : x \in X <=> x \in Y \/ x \in Reported(b)
    BY <2>1, <2>2, <2>3, <2>4, <2>5, Zenon
  <2> QED BY <2>6
<1>6. Y = 1..Through(j, N)
  BY <1>1 DEF Chain
<1>7. X = 1..b.through
  <2>1. b.through \in Nat /\ b.after = Through(j, N) /\ b.after <= b.through /\ Reported(b) = (b.after + 1)..b.through
    BY DEF Whole, Batches
  <2> HIDE DEF N, X, Y
  <2> QED BY <1>1, <1>3, <1>5, <1>6, <2>1
<1>8. ASSUME NEW i \in 1..(N + 1), NEW k \in 1..(N + 1), i # k
      PROVE  Reported(jj[i]) \cap Reported(jj[k]) = {}
  <2>1. \A n \in 1..N : Reported(jj[n]) = Reported(j[n]) /\ Reported(j[n]) \cap Reported(b) = {}
    <3>1. \A n \in 1..N : Reported(j[n]) \subseteq 1..Through(j, N)
      BY <1>6 DEF Y
    <3>2. Reported(b) = (Through(j, N) + 1)..b.through /\ b.through \in Nat
      BY DEF Whole, Batches
    <3> HIDE DEF N
    <3>3. (1..Through(j, N)) \cap Reported(b) = {}
      BY <1>3, <3>2
    <3> QED BY <1>2, <3>1, <3>3
  <2>2. Reported(jj[N + 1]) = Reported(b)
    BY <1>2
  <2>3. CASE i \in 1..N /\ k \in 1..N
    BY <1>1, <1>8, <2>1, <2>3 DEF Chain
  <2>4. CASE i = N + 1 /\ k \in 1..N
    BY <2>1, <2>2, <2>4
  <2>5. CASE k = N + 1 /\ i \in 1..N
    BY <2>1, <2>2, <2>5
  <2> QED BY <1>1, <1>8, <2>3, <2>4, <2>5
<1>9. Chain(jj)
  BY <1>2, <1>3, <1>4, <1>7, <1>8 DEF Chain, X
<1> QED BY <1>2, <1>9 DEF jj

(* The gaps of one more batch add to the ones before it. *)
LEMMA MissingGrows ==
  ASSUME NEW j, Chain(j), NEW n \in Nat, n + 1 \in DOMAIN j
  PROVE  Cardinality(Missing(j, n + 1)) = Cardinality(Missing(j, n)) + Cardinality(j[n + 1].gaps)
<1>1. j \in Seq(Batches) /\ DOMAIN j = 1..Len(j) /\ Len(j) \in Nat
  BY DEF Chain
<1>2. \A k \in 1..(n + 1) : k \in DOMAIN j
  BY <1>1
<1>3. \A k \in 1..(n + 1) : IsFiniteSet(j[k].gaps) /\ j[k].gaps \subseteq Reported(j[k])
  <2> TAKE k \in 1..(n + 1)
  <2>1. j[k] \in Batches /\ Whole(j[k])
    BY <1>1, <1>2 DEF Chain
  <2>2. j[k].gaps \in SUBSET Reported(j[k]) /\ IsFiniteSet((j[k].after + 1)..j[k].through)
    BY <2>1, FS_Interval DEF Reported, Batches
  <2> QED BY <2>1, <2>2, FS_Subset DEF Whole
<1>4. IsFiniteSet(Missing(j, n))
  <2>1. Missing(j, n) \in SUBSET UNION {Reported(j[k]) : k \in DOMAIN j}
    BY <1>2, <1>3 DEF Missing
  <2>2. Through(j, Len(j)) \in Nat
    <3>1. Len(j) # 0 => j[Len(j)] \in Batches
      BY <1>1
    <3> QED BY <3>1 DEF Through, Batches
  <2>3. IsFiniteSet(1..Through(j, Len(j)))
    BY <2>2, FS_Interval
  <2> QED BY <2>1, <2>3, FS_Subset DEF Chain
<1>5. Missing(j, n) \cap j[n + 1].gaps = {}
  <2>1. \A k \in 1..n : j[k].gaps \cap j[n + 1].gaps = {}
    <3> TAKE k \in 1..n
    <3>1. Reported(j[k]) \cap Reported(j[n + 1]) = {}
      BY <1>2 DEF Chain
    <3> QED BY <1>3, <3>1
  <2> QED BY <2>1 DEF Missing
<1>6. Missing(j, n + 1) = Missing(j, n) \cup j[n + 1].gaps
  <2>1. 1..(n + 1) = (1..n) \cup {n + 1}
    OBVIOUS
  <2> QED BY <2>1 DEF Missing
<1>7. IsFiniteSet(j[n + 1].gaps)
  BY <1>3
<1>8. Cardinality(Missing(j, n) \cap j[n + 1].gaps) = 0
  BY <1>5, FS_EmptySet
<1>9. Cardinality(Missing(j, n)) \in Nat /\ Cardinality(j[n + 1].gaps) \in Nat
  BY <1>4, <1>7, FS_CardinalityType
<1>10. Cardinality(Missing(j, n) \cup j[n + 1].gaps)
        = Cardinality(Missing(j, n)) + Cardinality(j[n + 1].gaps) - Cardinality(Missing(j, n) \cap j[n + 1].gaps)
  BY <1>4, <1>7, FS_Union
<1> DEFINE A == Missing(j, n)
           B == j[n + 1].gaps
           U == Missing(j, n + 1)
           a == Cardinality(A)
           c == Cardinality(B)
<1>11. Cardinality(U) = a + c - Cardinality(A \cap B) /\ Cardinality(A \cap B) = 0 /\ a \in Nat /\ c \in Nat
  BY <1>6, <1>8, <1>9, <1>10
<1>12. Cardinality(U) = a + c
  <2> HIDE DEF A, B, U, a, c
  <2> QED BY <1>11
<1> QED BY <1>12

-----------------------------------------------------------------------------
(* The steps *)

(* The numbers of a checkpoint with its types. *)
LEMMA AbreastTypes ==
  ASSUME NEW c, NEW j, Abreast(c, j)
  PROVE  /\ c.seq \in Nat /\ c.cursor \in Nat /\ c.seen \in Nat /\ c.gap \in Nat /\ c.pending \in Batches \cup {None}
         /\ c \in Checkpoints
BY DEF Abreast, Checkpoints

(* What the administrator was told holds of the stored policy. *)
LEMMA PromiseStep ==
  ASSUME Distinct, Promised, Next
  PROVE  Promised'
<1>1. CASE begin_command
  <2>1. PICK op \in {"configure", "mode"}, want \in BOOLEAN :
           command' = [op |-> op, want |-> want, at |-> 1] /\ policy' = IF want THEN policy ELSE "free"
    BY <1>1 DEF begin_command
  <2>2. command' \in Commands /\ command'.op = op /\ command'.want = want /\ command'.at = 1
    BY <2>1 DEF Commands
  <2>3. ~up /\ UNCHANGED <<marker, up, required>>
    BY <1>1 DEF begin_command
  <2> QED BY <2>1, <2>2, <2>3 DEF Promised, PolicyKept
<1>2. CASE configure
  <2>1. command \in Commands /\ command # None /\ ~up /\ up' = up
    BY <1>2 DEF configure, Promised
  <2>2. CASE command.at = 1
    <3>1. marker' = (marker \/ command.want) /\ command' = [command EXCEPT !.at = 2] /\ policy' = policy
      BY <1>2, <2>2 DEF configure
    <3>2. command' \in Commands /\ command'.op = command.op /\ command'.want = command.want /\ command'.at = 2
      BY <2>1, <3>1 DEF Commands
    <3>3. command.op = "configure"
      BY <1>2 DEF configure
    <3> QED BY <2>1, <3>1, <3>2, <3>3 DEF Promised, PolicyKept, Commands
  <2>3. CASE command.at = 2
    <3>1. marker' = marker /\ policy' = policy /\ (command' = None \/ command' = [command EXCEPT !.at = 3])
      BY <1>2, <2>3 DEF configure
    <3>2. CASE command' = None
      BY <2>1, <3>1, <3>2 DEF Promised, PolicyKept
    <3>3. CASE command' = [command EXCEPT !.at = 3]
      <4>1. command' \in Commands /\ command'.op = command.op /\ command'.want = command.want /\ command'.at = 3
        BY <2>1, <3>3 DEF Commands
      <4>2. command.op = "configure"
        BY <1>2 DEF configure
      <4> QED BY <2>1, <2>3, <3>1, <4>1, <4>2 DEF Promised, PolicyKept
    <3> QED BY <3>1, <3>2, <3>3
  <2>4. CASE command.at = 3
    <3>1. marker' = marker /\ command' = None /\ policy' = IF command.want THEN "required" ELSE policy
      BY <1>2, <2>4 DEF configure, Done
    <3> QED BY <2>1, <2>4, <3>1 DEF Promised, PolicyKept
  <2> QED BY <2>1, <2>2, <2>3, <2>4 DEF Commands
<1>3. CASE mode
  <2>1. command \in Commands /\ command # None /\ ~up /\ up' = up /\ command.at \in {1, 2} /\ command.op = "mode"
    BY <1>3 DEF mode, Promised
  <2>2. CASE command.at = 1
    <3>1. command' = [command EXCEPT !.at = 2] /\ policy' = policy
      BY <1>3, <2>2 DEF mode
    <3>2. command' \in Commands /\ command'.op = command.op /\ command'.want = command.want /\ command'.at = 2
      BY <2>1, <3>1 DEF Commands
    <3>3. CASE command.want
      <4>1. Steps(command.want)[command.at] = "marker"
        BY <2>2, <3>3 DEF Steps
      <4>2. marker' = command.want
        BY <1>3, <4>1 DEF mode
      <4>3. marker' = TRUE
        BY <2>1, <3>3, <4>2 DEF Commands
      <4> QED BY <2>1, <3>1, <3>2, <3>3, <4>3 DEF Promised, PolicyKept
    <3>4. CASE ~command.want
      <4>1. Steps(command.want)[command.at] = "conf"
        BY <2>2, <3>4 DEF Steps
      <4>2. marker' = marker
        BY <1>3, <4>1 DEF mode
      <4> QED BY <2>1, <3>1, <3>2, <3>4, <4>2 DEF Promised, PolicyKept
    <3> QED BY <3>3, <3>4
  <2>3. CASE command.at = 2
    <3>1. command' = None /\ policy' = IF command.want THEN "required" ELSE policy
      BY <1>3, <2>3 DEF mode, Done
    <3>2. CASE command.want
      <4>1. Steps(command.want)[command.at] = "conf"
        BY <2>3, <3>2 DEF Steps
      <4>2. marker' = marker
        BY <1>3, <4>1 DEF mode
      <4> QED BY <2>1, <2>3, <3>1, <3>2, <4>2 DEF Promised, PolicyKept
    <3>3. CASE ~command.want
      <4>1. Steps(command.want)[command.at] = "marker"
        BY <2>3, <3>3 DEF Steps
      <4>2. marker' = command.want /\ command.want \in BOOLEAN
        BY <1>3, <2>1, <4>1 DEF mode, Commands
      <4>3. marker' = FALSE
        BY <3>3, <4>2
      <4> QED BY <2>1, <3>1, <3>3, <4>3 DEF Promised, PolicyKept
    <3> QED BY <3>2, <3>3
  <2> QED BY <2>1, <2>2, <2>3
<1>4. CASE command_dies
  BY <1>4 DEF command_dies, Promised, PolicyKept
<1>5. CASE restore
  BY <1>5 DEF restore, Promised, PolicyKept
<1>6. CASE start
  BY <1>6 DEF start, config, Enforced, Promised, PolicyKept
<1>7. CASE crash
  BY <1>7 DEF crash, config, Promised, PolicyKept
<1>8. CASE UNCHANGED <<config, up, required>>
  BY <1>8 DEF config, Promised, PolicyKept
<1>9. ASSUME audit \/ (\E i \in Intents : require(i) \/ leave(i)) \/ resave \/ step \/ save \/ send \/ send_fails
             \/ ack \/ (\E b \in net : append(b) \/ lose(b))
      PROVE  UNCHANGED <<config, up, required>>
  BY <1>9 DEF audit, require, leave, resave, step, save, send, send_fails, ack, append, lose
<1> QED BY <1>1, <1>2, <1>3, <1>4, <1>5, <1>6, <1>7, <1>8, <1>9 DEF Next

(* A step that leaves the checkpoints, the requests and the journal alone. *)
LEMMA DeliveryQuiet ==
  ASSUME Delivery, UNCHANGED <<disk, journal, net, ck, dirty, pc, up>>,
         ck = None => UNCHANGED <<queue, active>>
  PROVE  Delivery'
BY DEF Delivery, OnDisk, InMemory, OnTheWay, Unsaved, Unacked, Agrees

(* Nobody is admitted, and the journal and the saved checkpoint only grow. *)
LEMMA AdmittedKept ==
  ASSUME IntentDurable,
         \A i \in Intents : waiter'[i] = "admitted" => waiter[i] = "admitted",
         earlier' = earlier,
         DOMAIN journal \subseteq DOMAIN journal', \A k \in DOMAIN journal : journal'[k] = journal[k],
         disk' = disk \/ \A k \in DOMAIN journal : disk.seq >= k => disk'.seq >= k
  PROVE  IntentDurable'
BY DEF IntentDurable

(* refuse admits nobody and empties the queue. *)
LEMMA Refused ==
  ASSUME Serving, refuse
  PROVE  /\ queue' = <<>> /\ active' = None
         /\ queue' \in Seq(Intents)
         /\ waiter' \in [Intents -> {"new", "waiting", "left", "refused", "admitted", "ungated"}]
         /\ \A i \in Intents : waiter'[i] = "admitted" => waiter[i] = "admitted"
BY DEF Serving, refuse

(* The administrator's steps, the clock of the table and the users. *)
LEMMA AroundStep ==
  ASSUME AuditConstants, Inv,
         begin_command \/ mode \/ command_dies \/ audit \/ \E i \in Intents : require(i) \/ leave(i)
  PROVE  Rows' /\ Delivery' /\ Admitting'
<1>1. CASE begin_command \/ mode \/ command_dies \/ audit
  <2>1. UNCHANGED <<disk, journal, net, task, up, waiter, earlier>>
    BY <1>1 DEF begin_command, mode, command_dies, audit
  <2>2. Delivery'
    BY <2>1, DeliveryQuiet DEF Inv, task
  <2>3. Admitting'
    BY <2>1 DEF Inv, Admitting, Serving, IntentDurable, task
  <2>4. Rows'
    BY <1>1 DEF begin_command, mode, command_dies, audit, store, Inv, Rows
  <2> QED BY <2>2, <2>3, <2>4
<1>2. ASSUME NEW i \in Intents, require(i)
      PROVE  Rows' /\ Delivery' /\ Admitting'
  <2>1. /\ UNCHANGED <<store, disk, journal, net, ck, dirty, pc, active, up, earlier>>
        /\ waiter' = [waiter EXCEPT ![i] = Admission(i)]
        /\ queue' = IF Admission(i) = "waiting" THEN Append(queue, i) ELSE queue
    BY <1>2 DEF require
  <2>2. Admission(i) \in {"ungated", "refused", "waiting"} /\ (ck = None => Admission(i) # "waiting")
    BY DEF Admission
  <2>3. Delivery'
    BY <2>1, <2>2, DeliveryQuiet DEF Inv
  <2>4. queue' \in Seq(Intents)
    BY <2>1, AppendProperties DEF Inv, Admitting, Serving
  <2>5. /\ waiter' \in [Intents -> {"new", "waiting", "left", "refused", "admitted", "ungated"}]
        /\ \A k \in Intents : waiter'[k] = "admitted" => waiter[k] = "admitted"
    BY <2>1, <2>2 DEF Inv, Admitting, Serving
  <2>6. IntentDurable'
    BY <2>1, <2>5, AdmittedKept DEF Inv, Admitting
  <2>7. Serving'
    BY <2>1, <2>4, <2>5 DEF Inv, Admitting, Serving
  <2> QED BY <2>1, <2>3, <2>6, <2>7 DEF Inv, Admitting, Rows, store
<1>3. ASSUME NEW i \in Intents, leave(i)
      PROVE  Rows' /\ Delivery' /\ Admitting'
  <2>1. /\ UNCHANGED <<store, disk, journal, net, task, up, earlier>>
        /\ waiter' = [waiter EXCEPT ![i] = "left"]
    BY <1>3 DEF leave
  <2>2. Delivery'
    BY <2>1, DeliveryQuiet DEF Inv, task
  <2>3. /\ waiter' \in [Intents -> {"new", "waiting", "left", "refused", "admitted", "ungated"}]
        /\ \A k \in Intents : waiter'[k] = "admitted" => waiter[k] = "admitted"
    BY <2>1 DEF Inv, Admitting, Serving
  <2>4. IntentDurable'
    BY <2>1, <2>3, AdmittedKept DEF Inv, Admitting
  <2>5. Serving'
    BY <2>1, <2>3 DEF Inv, Admitting, Serving, task
  <2> QED BY <2>1, <2>2, <2>4, <2>5 DEF Inv, Admitting, Rows, store
<1> QED BY <1>1, <1>2, <1>3

(* The empty checkpoint is abreast of the empty journal. *)
LEMMA InitialAbreast ==
  ASSUME Distinct
  PROVE  Abreast(initial, <<>>) /\ initial # None
<1>1. initial \in Checkpoints
  BY DEF initial, Checkpoints
<1>2. Missing(<<>>, 0) = {}
  BY DEF Missing
<1>3. Cardinality(Missing(<<>>, 0)) = 0
  BY <1>2, FS_EmptySet
<1> QED BY <1>1, <1>3 DEF initial, Abreast, Through, Distinct

(* configure writes the first checkpoint of a stream. *)
LEMMA ConfigureStep ==
  ASSUME AuditConstants, Inv, configure
  PROVE  Rows' /\ Delivery' /\ Admitting'
<1>1. ~up /\ ck = None /\ UNCHANGED <<store, journal, net, task, up, waiter, earlier>>
  BY DEF configure, Inv, Promised, Delivery, InMemory
<1>2. CASE disk' = disk
  <2>1. Delivery'
    BY <1>1, <1>2, DeliveryQuiet DEF Inv, task
  <2> QED BY <1>1, <1>2, <2>1 DEF Inv, Admitting, Serving, IntentDurable, task, store, Rows
<1>3. CASE disk' # disk
  <2>1. disk = None /\ disk' = initial /\ journal = <<>> /\ net = {}
    <3>1. disk = None /\ disk' = initial
      <4>1. command \in Commands
        BY DEF configure, Inv, Promised
      <4>2. command.at = 1 \/ command.at = 2 \/ command.at = 3
        BY <4>1 DEF Commands
      <4>3. command.at = 1 => disk' = disk
        BY DEF configure
      <4>4. command.at = 3 => disk' = disk
        BY DEF configure
      <4>5. command.at = 2
        BY <1>3, <4>2, <4>3, <4>4
      <4> QED BY <1>3, <4>5 DEF configure
    <3> QED BY <3>1 DEF Inv, Delivery, OnDisk
  <2>2. Abreast(disk', journal') /\ disk' # None
    BY <1>1, <2>1, InitialAbreast DEF AuditConstants
  <2>3. OnDisk' /\ OnTheWay'
    BY <1>1, <2>1, <2>2 DEF OnDisk, OnTheWay
  <2>4. InMemory'
    BY <1>1 DEF Inv, Delivery, InMemory, task
  <2>5. Chain(journal')
    BY <1>1 DEF Inv, Delivery
  <2>6. IntentDurable'
    BY <1>1, <2>1 DEF Inv, Admitting, IntentDurable
  <2>7. Serving'
    BY <1>1 DEF Inv, Admitting, Serving, task
  <2> QED BY <1>1, <2>3, <2>4, <2>5, <2>6, <2>7 DEF Inv, Delivery, Admitting, Rows, store
<1> QED BY <1>2, <1>3

(* restore begins a new stream: what was admitted is in an earlier one. *)
LEMMA RestoreStep ==
  ASSUME AuditConstants, Inv, restore
  PROVE  Rows' /\ Delivery' /\ Admitting'
<1>1. /\ ~up /\ ck = None /\ UNCHANGED <<store, task, up, waiter>>
      /\ disk' = None /\ journal' = <<>> /\ net' = {}
      /\ earlier' = earlier \cup {journal[k].intent : k \in DOMAIN journal}
  BY DEF restore, Inv, Delivery, InMemory
<1>2. Chain(<<>>)
  BY DEF Chain, Through
<1>3. OnDisk' /\ OnTheWay'
  BY <1>1 DEF OnDisk, OnTheWay
<1>4. InMemory'
  BY <1>1 DEF Inv, Delivery, InMemory, task
<1>5. IntentDurable'
  BY <1>1 DEF Inv, Admitting, IntentDurable
<1>6. Serving'
  BY <1>1 DEF Inv, Admitting, Serving, Delivery, InMemory, task
<1> QED BY <1>1, <1>2, <1>3, <1>4, <1>5, <1>6 DEF Inv, Delivery, Admitting, Rows, store

(* A controller takes up what the checkpoint on disk says. *)
LEMMA StartStep ==
  ASSUME AuditConstants, Inv, start
  PROVE  Rows' /\ Delivery' /\ Admitting'
<1>1. /\ UNCHANGED <<store, disk, waiter, net, journal, earlier>> /\ up' = TRUE
      /\ ck' = None \/ ck' = disk
      /\ dirty' = FALSE /\ pc' = "idle" /\ queue' = <<>> /\ active' = None
  BY DEF start
<1>2. InMemory'
  BY <1>1 DEF Inv, Delivery, InMemory, OnDisk, Agrees
<1>3. OnDisk' /\ OnTheWay' /\ Chain(journal')
  BY <1>1 DEF Inv, Delivery, OnDisk, OnTheWay
<1>4. Serving' /\ IntentDurable'
  BY <1>1 DEF Inv, Admitting, Serving, IntentDurable
<1> QED BY <1>1, <1>2, <1>3, <1>4 DEF Inv, Delivery, Admitting, Rows, store

(* A crash loses the memory and the waiters, and nothing that was saved. *)
LEMMA CrashStep ==
  ASSUME AuditConstants, Inv, crash
  PROVE  Rows' /\ Delivery' /\ Admitting'
<1>1. /\ UNCHANGED <<store, disk, net, journal, earlier>>
      /\ ck' = None /\ dirty' = FALSE /\ pc' = "idle" /\ queue' = <<>> /\ active' = None
      /\ waiter' = [i \in Intents |-> IF waiter[i] = "waiting" THEN "refused" ELSE waiter[i]]
  BY DEF crash
<1>2. InMemory'
  BY <1>1 DEF InMemory
<1>3. OnDisk' /\ OnTheWay' /\ Chain(journal')
  BY <1>1 DEF Inv, Delivery, OnDisk, OnTheWay
<1>4. /\ waiter' \in [Intents -> {"new", "waiting", "left", "refused", "admitted", "ungated"}]
      /\ \A k \in Intents : waiter'[k] = "admitted" => waiter[k] = "admitted"
  BY <1>1 DEF Inv, Admitting, Serving
<1>5. IntentDurable'
  BY <1>1, <1>4, AdmittedKept DEF Inv, Admitting
<1>6. Serving'
  BY <1>1, <1>4 DEF Serving
<1> QED BY <1>1, <1>2, <1>3, <1>5, <1>6 DEF Inv, Delivery, Admitting, Rows, store

(* A save, whether it succeeds or fails, leaves a file that is abreast of   *)
(* the journal; after a success it agrees with the memory.                  *)
LEMMA SaveStep ==
  ASSUME AuditConstants, Inv, ck # None, NEW ok \in BOOLEAN, Saved(ok), dirty' = ~ok,
         UNCHANGED <<up, ck, net, journal>>, dirty
  PROVE  /\ OnDisk' /\ OnTheWay' /\ Chain(journal') /\ disk' # None
         /\ Agrees' \/ (dirty' /\ Unsaved') \/ (dirty' /\ Unacked')
         /\ disk' = disk \/ \A k \in DOMAIN journal : disk.seq >= k => disk'.seq >= k
<1>1. /\ disk # None /\ Abreast(ck, journal) /\ Abreast(disk, journal) /\ Chain(journal)
      /\ Agrees \/ Unsaved \/ Unacked
  BY DEF Inv, Delivery, InMemory, OnDisk
<1>2. disk' = disk \/ disk' = ck
  BY DEF Saved
<1>3. ok => disk' = ck
  BY DEF Saved
<1>4. disk' # None /\ Abreast(disk', journal') /\ Chain(journal')
  BY <1>1, <1>2
<1>5. Agrees' \/ (dirty' /\ Unsaved') \/ (dirty' /\ Unacked')
  <2>1. CASE disk' = ck
    BY <2>1 DEF Agrees
  <2>2. CASE disk' = disk /\ ~ok
    BY <1>1, <2>2 DEF Agrees, Unsaved, Unacked
  <2> QED BY <1>2, <1>3, <2>1, <2>2
<1>6. journal \in Seq(Batches) /\ ck.seq \in Nat /\ disk.seq \in Nat /\ Len(journal) \in Nat /\ DOMAIN journal = 1..Len(journal)
  BY <1>1, AbreastTypes DEF Chain
<1>7. disk.seq <= ck.seq
  BY <1>1, <1>6 DEF Agrees, Unsaved, Unacked
<1>8. disk' = disk \/ \A k \in DOMAIN journal : disk.seq >= k => disk'.seq >= k
  BY <1>2, <1>6, <1>7
<1>9. OnTheWay'
  <2>1. CASE disk' = disk
    BY <2>1 DEF Inv, Delivery, OnTheWay
  <2>2. CASE disk' = ck
    <3> SUFFICES ASSUME NEW b \in net
                 PROVE  b \in Batches /\ (b.seq <= Len(journal) \/ b = ck.pending)
      BY <1>4, <2>2 DEF OnTheWay
    <3>1. b \in Batches /\ (b.seq <= Len(journal) \/ b = disk.pending) /\ b # None
      BY DEF Inv, Delivery, OnTheWay, AuditConstants, Distinct
    <3>2. CASE b = disk.pending
      <4>1. b.seq = disk.seq + 1
        BY <1>1, <3>1, <3>2 DEF Abreast
      <4>2. CASE Unacked
        BY <1>1, <1>6, <3>1, <4>1, <4>2 DEF Unacked, Abreast
      <4>3. CASE Agrees \/ Unsaved
        BY <3>1, <3>2, <4>3 DEF Agrees, Unsaved
      <4> QED BY <1>1, <4>2, <4>3
    <3> QED BY <3>1, <3>2
  <2> QED BY <1>2, <2>1, <2>2
<1> QED BY <1>4, <1>5, <1>8, <1>9 DEF OnDisk

(* step saves first what a failed save left, and releases nobody by it. *)
LEMMA ResaveStep ==
  ASSUME AuditConstants, Inv, resave
  PROVE  Rows' /\ Delivery' /\ Admitting'
<1>1. PICK ok \in BOOLEAN :
        /\ Saved(ok) /\ dirty' = ~ok /\ refuse
        /\ pc' = IF ok /\ ck.pending # None THEN "send" ELSE "idle"
  BY DEF resave
<1>2. ck # None /\ dirty /\ pc = "idle" /\ up /\ UNCHANGED <<store, up, ck, net, journal, earlier>>
  BY DEF resave
<1>3. /\ OnDisk' /\ OnTheWay' /\ Chain(journal') /\ disk' # None
      /\ Agrees' \/ (dirty' /\ Unsaved') \/ (dirty' /\ Unacked')
      /\ disk' = disk \/ \A k \in DOMAIN journal : disk.seq >= k => disk'.seq >= k
  BY <1>1, <1>2, SaveStep
<1>4. InMemory'
  BY <1>1, <1>2, <1>3 DEF Inv, Delivery, InMemory
<1>5. /\ queue' \in Seq(Intents) /\ active' = None
      /\ waiter' \in [Intents -> {"new", "waiting", "left", "refused", "admitted", "ungated"}]
      /\ \A i \in Intents : waiter'[i] = "admitted" => waiter[i] = "admitted"
  BY <1>1, Refused DEF Inv, Admitting
<1>6. IntentDurable'
  BY <1>2, <1>3, <1>5, AdmittedKept DEF Inv, Admitting
<1> QED BY <1>2, <1>3, <1>4, <1>5, <1>6 DEF Inv, Delivery, Admitting, Serving, Rows, store

(* persist of a new batch, before it may be sent. *)
LEMMA PersistStep ==
  ASSUME AuditConstants, Inv, save
  PROVE  Rows' /\ Delivery' /\ Admitting'
<1>1. PICK ok \in BOOLEAN :
        /\ Saved(ok) /\ dirty' = ~ok
        /\ IF ok THEN pc' = "send" /\ UNCHANGED <<waiter, queue, active>> ELSE pc' = "idle" /\ refuse
  BY DEF save
<1>2. pc = "save" /\ up /\ UNCHANGED <<store, up, ck, net, journal, earlier>>
  BY DEF save
<1>3. ck # None /\ dirty
  BY <1>2 DEF Inv, Delivery, InMemory
<1>4. /\ OnDisk' /\ OnTheWay' /\ Chain(journal') /\ disk' # None
      /\ Agrees' \/ (dirty' /\ Unsaved') \/ (dirty' /\ Unacked')
      /\ disk' = disk \/ \A k \in DOMAIN journal : disk.seq >= k => disk'.seq >= k
  BY <1>1, <1>2, <1>3, SaveStep
<1>5. InMemory'
  BY <1>1, <1>2, <1>3, <1>4 DEF Inv, Delivery, InMemory
<1>6. Serving' /\ \A i \in Intents : waiter'[i] = "admitted" => waiter[i] = "admitted"
  <2>1. CASE ok
    BY <1>1, <1>2, <2>1 DEF Inv, Admitting, Serving
  <2>2. CASE ~ok
    BY <1>1, <1>2, <2>2, Refused DEF Inv, Admitting, Serving
  <2> QED BY <2>1, <2>2
<1>7. IntentDurable'
  BY <1>2, <1>4, <1>6, AdmittedKept DEF Inv, Admitting
<1> QED BY <1>2, <1>4, <1>5, <1>6, <1>7 DEF Inv, Delivery, Admitting, Rows, store

(* The intent of a waiter that is released is in the journal, at or before  *)
(* the batch the file on disk is past.                                      *)
LEMMA AckStep ==
  ASSUME AuditConstants, Inv, ack
  PROVE  Rows' /\ Delivery' /\ Admitting'
<1>1. PICK ok \in BOOLEAN :
        /\ Saved(ok) /\ dirty' = ~ok
        /\ IF ok
           THEN /\ waiter' = [i \in Intents |-> IF i = active /\ waiter[i] = "waiting" THEN "admitted" ELSE waiter[i]]
                /\ active' = None /\ UNCHANGED queue
           ELSE refuse
  BY DEF ack, Released
<1>2. pc = "ack" /\ pc' = "idle" /\ up /\ UNCHANGED <<store, up, ck, net, journal, earlier>>
  BY DEF ack
<1>3. ck # None /\ dirty /\ ck.seq > 0 /\ Abreast(ck, journal)
  BY <1>2 DEF Inv, Delivery, InMemory
<1>4. /\ OnDisk' /\ OnTheWay' /\ Chain(journal') /\ disk' # None
      /\ Agrees' \/ (dirty' /\ Unsaved') \/ (dirty' /\ Unacked')
      /\ disk' = disk \/ \A k \in DOMAIN journal : disk.seq >= k => disk'.seq >= k
  BY <1>1, <1>2, <1>3, SaveStep
<1>5. InMemory'
  BY <1>1, <1>2, <1>3, <1>4 DEF Inv, Delivery, InMemory
<1>6. CASE ~ok
  <2>1. Serving' /\ \A i \in Intents : waiter'[i] = "admitted" => waiter[i] = "admitted"
    BY <1>1, <1>2, <1>6, Refused DEF Inv, Admitting, Serving
  <2>2. IntentDurable'
    BY <1>2, <1>4, <2>1, AdmittedKept DEF Inv, Admitting
  <2> QED BY <1>2, <1>4, <1>5, <2>1, <2>2 DEF Inv, Delivery, Admitting, Rows, store
<1>7. CASE ok
  <2>1. Serving'
    BY <1>1, <1>2, <1>7 DEF Inv, Admitting, Serving
  <2>2. disk' = ck /\ ck.seq \in DOMAIN journal
    <3>1. ck.seq \in Nat /\ ck.seq <= Len(journal) /\ journal \in Seq(Batches)
      BY <1>3, AbreastTypes DEF Abreast, Inv, Delivery, Chain
    <3> QED BY <1>1, <1>3, <1>7, <3>1 DEF Saved
  <2>3. ASSUME NEW i \in Intents, waiter'[i] = "admitted"
        PROVE  i \in earlier \/ \E k \in DOMAIN journal : journal[k].intent = i /\ disk'.seq >= k
    <3>1. CASE waiter[i] = "admitted"
      BY <1>4, <3>1 DEF Inv, Admitting, IntentDurable
    <3>2. CASE waiter[i] # "admitted"
      <4>1. active = i /\ active # None
        BY <1>1, <1>7, <2>3, <3>2 DEF AuditConstants, Distinct
      <4>2. journal[ck.seq].intent = i
        BY <1>2, <4>1 DEF Inv, Admitting, Serving
      <4>3. ck.seq >= ck.seq
        BY <1>3, AbreastTypes
      <4> QED BY <2>2, <4>2, <4>3
    <3> QED BY <3>1, <3>2
  <2>4. IntentDurable'
    BY <1>2, <2>3 DEF IntentDurable
  <2> QED BY <1>2, <1>4, <1>5, <2>1, <2>4 DEF Inv, Delivery, Admitting, Rows, store
<1> QED BY <1>6, <1>7

(* A set of numbers with an element has a smallest one. *)
LEMMA MinIn ==
  ASSUME NEW S \in SUBSET Nat, S # {}
  PROVE  Min(S) \in S /\ \A n \in S : Min(S) <= n
<1> DEFINE R == {p \in Nat \X Nat : p[1] < p[2]}
<1>1. IsWellFoundedOn(R, Nat)
  BY NatLessThanWellFounded DEF OpToRel
<1>2. \E x \in S : \A y \in S : <<y, x>> \notin R
  <2> HIDE DEF R
  <2> QED BY <1>1, WFMin
<1>3. \E x \in S : \A y \in S : x <= y
  <2>1. PICK x \in S : \A y \in S : <<y, x>> \notin R
    BY <1>2
  <2>2. ASSUME NEW y \in S
        PROVE  x <= y
    <3>1. <<y, x>> \in Nat \X Nat /\ <<y, x>>[1] = y /\ <<y, x>>[2] = x
      OBVIOUS
    <3>2. ~(y < x)
      BY <2>1, <3>1
    <3> QED BY <3>2
  <2> QED BY <2>2
<1> QED BY <1>3 DEF Min

(* step makes a batch of the rows that follow the cursor, or sends the one  *)
(* that is pending.                                                         *)
LEMMA StepStep ==
  ASSUME AuditConstants, Inv, step
  PROVE  Rows' /\ Delivery' /\ Admitting'
<1>1. /\ up /\ ck # None /\ pc = "idle" /\ ~dirty
      /\ UNCHANGED <<store, disk, up, waiter, net, journal, earlier>>
  BY DEF step
<1>2. active = None /\ Agrees /\ Abreast(ck, journal) /\ disk # None
  BY <1>1 DEF Inv, Delivery, InMemory, Admitting, Serving
<1>3. OnDisk' /\ OnTheWay' /\ Chain(journal') /\ Rows'
  BY <1>1 DEF Inv, Delivery, OnDisk, OnTheWay, Rows, store
<1>4. IntentDurable'
  BY <1>1 DEF Inv, Admitting, IntentDurable
<1>5. CASE ck.pending # None
  <2>1. pc' = "send" /\ UNCHANGED <<ck, dirty, queue, active>>
    BY <1>5 DEF step
  <2>2. InMemory'
    BY <1>1, <1>2, <1>5, <2>1 DEF Inv, Delivery, InMemory, Agrees
  <2>3. Serving'
    BY <1>1, <1>2, <2>1 DEF Inv, Admitting, Serving
  <2> QED BY <1>3, <1>4, <2>2, <2>3 DEF Delivery, Admitting
<1>6. CASE ck.pending = None
  <2> DEFINE p == page(ck.cursor)
             k == IF p.ids = {} /\ Ready # {} THEN Min(Ready) ELSE 0
             intent == IF k = 0 THEN None ELSE queue[k]
             new == p.ids # {} \/ k > 0 \/ ck.seq = 0
             pend == IF new THEN Batch(p, intent) ELSE None
  <2>1. /\ ck' = [ck EXCEPT !.seen = last, !.pending = pend]
        /\ queue' = IF p.ids # {} THEN queue ELSE IF k = 0 THEN <<>> ELSE SubSeq(queue, k + 1, Len(queue))
        /\ active' = IF k = 0 THEN active ELSE intent
        /\ dirty' = new /\ pc' = IF new THEN "save" ELSE "idle"
    BY <1>6 DEF step, NextSave
  <2>2. ck.seq \in Nat /\ ck.cursor \in Nat /\ ck.seen \in Nat /\ ck.gap \in Nat /\ ck \in Checkpoints /\ last \in Nat
    BY <1>2, AbreastTypes DEF Inv, Rows
  <2>3. /\ p.ids \in SUBSET Nat /\ p.gaps \in SUBSET Nat /\ p.through \in Nat
        /\ ck.cursor <= p.through /\ p.ids \cup p.gaps = (ck.cursor + 1)..p.through
    BY <2>2, PageWhole DEF AuditConstants, Inv
  <2>4. queue \in Seq(Intents) /\ Len(queue) \in Nat /\ DOMAIN queue = 1..Len(queue)
    BY DEF Inv, Admitting, Serving
  <2>5. k = 0 \/ k \in DOMAIN queue
    <3>1. Ready \in SUBSET Nat /\ Ready \subseteq DOMAIN queue
      BY <2>4 DEF Ready
    <3> QED BY <3>1, MinIn
  <2> HIDE DEF p, k
  <2>6. intent \in Intents \cup {None} /\ (k > 0 => intent \in Intents) /\ k \in Nat
    BY <2>4, <2>5
  <2>7. queue' \in Seq(Intents)
    <3>1. <<>> \in Seq(Intents)
      OBVIOUS
    <3>2. k \in DOMAIN queue => SubSeq(queue, k + 1, Len(queue)) \in Seq(Intents)
      <4> SUFFICES ASSUME k \in DOMAIN queue
                   PROVE  SubSeq(queue, k + 1, Len(queue)) \in Seq(Intents)
        OBVIOUS
      <4>1. k + 1 \in Int /\ Len(queue) \in Int /\ \A i \in (k + 1)..Len(queue) : queue[i] \in Intents
        BY <2>4
      <4> QED BY <4>1, SubSeqProperties
    <3> QED BY <2>1, <2>4, <2>5, <3>1, <3>2
  <2> HIDE DEF intent
  <2>8. /\ Batch(p, intent) \in Batches /\ Whole(Batch(p, intent))
        /\ Batch(p, intent).seq = ck.seq + 1 /\ Batch(p, intent).after = ck.cursor
        /\ Batch(p, intent).intent = intent
    BY <2>2, <2>3, <2>6 DEF Batch, Batches, Whole, Reported
  <2>9. pend \in Batches \cup {None} /\ (pend # None => new /\ pend = Batch(p, intent)) /\ (new => pend # None)
    BY <2>8 DEF AuditConstants, Distinct
  <2> HIDE DEF pend, new
  <2>10. /\ ck' \in Checkpoints /\ ck'.seq = ck.seq /\ ck'.cursor = ck.cursor /\ ck'.gap = ck.gap
         /\ ck'.pending = pend
    BY <2>1, <2>2, <2>9 DEF Checkpoints
  <2>11. Len(journal) = ck.seq
    <3>1. journal \in Seq(Batches)
      BY DEF Inv, Delivery, Chain
    <3>2. Len(journal) # 0 => journal[Len(journal)] \in Batches
      BY <3>1
    <3>3. None \notin Batches
      BY DEF AuditConstants, Distinct
    <3> QED BY <1>2, <1>6, <2>2, <3>2, <3>3, <3>1 DEF Abreast
  <2>12. Abreast(ck', journal')
    BY <1>1, <1>2, <2>8, <2>9, <2>10, <2>11 DEF Abreast
  <2>13. ck' # None
    BY <2>10 DEF AuditConstants, Distinct
  <2>14. dirty' \in BOOLEAN /\ (dirty' <=> new) /\ (pc' = "save" <=> new) /\ pc' \in {"save", "idle"}
    BY <2>1 DEF new
  <2>15. disk'.pending = None /\ disk'.seq = ck'.seq
    BY <1>1, <1>2, <1>6, <2>10 DEF Agrees
  <2>16. InMemory'
    BY <1>1, <1>2, <2>9, <2>10, <2>12, <2>13, <2>14, <2>15 DEF InMemory, Agrees, Unsaved
  <2>17. Serving'
    <3>1. active' \in Intents \cup {None} /\ (active' # None => k > 0 /\ active' = intent)
      BY <1>2, <2>1, <2>6
    <3>2. k > 0 => new
      BY DEF new
    <3>3. active' # None => pc' = "save" /\ ck'.pending.intent = active'
      BY <2>8, <2>9, <2>10, <2>14, <3>1, <3>2
    <3> QED BY <1>1, <2>7, <3>1, <3>3 DEF Inv, Admitting, Serving
  <2> QED BY <1>3, <1>4, <2>16, <2>17 DEF Delivery, Admitting
<1> QED BY <1>5, <1>6

(* Only the saved batch is sent. *)
LEMMA SendStep ==
  ASSUME AuditConstants, Inv, send
  PROVE  Rows' /\ Delivery' /\ Admitting'
<1>1. /\ up /\ pc = "send" /\ pc' = "wait" /\ net' = net \cup {ck.pending}
      /\ UNCHANGED <<store, disk, up, ck, dirty, queue, active, waiter, journal, earlier>>
  BY DEF send
<1>2. ck # None /\ Agrees /\ disk # None /\ ck.pending # None /\ Abreast(ck, journal)
  BY <1>1 DEF Inv, Delivery, InMemory
<1>3. ck.pending \in Batches /\ ck.pending = disk.pending
  BY <1>2, AbreastTypes DEF Agrees
<1>4. OnTheWay'
  BY <1>1, <1>2, <1>3 DEF Inv, Delivery, OnTheWay
<1>5. OnDisk' /\ InMemory' /\ Chain(journal')
  BY <1>1, <1>2 DEF Inv, Delivery, OnDisk, InMemory, Agrees, Unsaved, Unacked
<1>6. Serving' /\ IntentDurable'
  BY <1>1 DEF Inv, Admitting, Serving, IntentDurable
<1> QED BY <1>1, <1>4, <1>5, <1>6 DEF Inv, Delivery, Admitting, Rows, store

(* A failed append keeps the batch pending and refuses the waiters. *)
LEMMA SendFailsStep ==
  ASSUME AuditConstants, Inv, send_fails
  PROVE  Rows' /\ Delivery' /\ Admitting'
<1>1. /\ up /\ pc \in {"send", "wait"} /\ pc' = "idle" /\ refuse
      /\ UNCHANGED <<store, disk, up, ck, dirty, net, journal, earlier>>
  BY DEF send_fails
<1>2. ck # None
  BY <1>1 DEF Inv, Delivery, InMemory
<1>3. /\ queue' \in Seq(Intents) /\ active' = None
      /\ waiter' \in [Intents -> {"new", "waiting", "left", "refused", "admitted", "ungated"}]
      /\ \A i \in Intents : waiter'[i] = "admitted" => waiter[i] = "admitted"
  BY <1>1, Refused DEF Inv, Admitting
<1>4. IntentDurable'
  BY <1>1, <1>3, AdmittedKept DEF Inv, Admitting
<1>5. OnDisk' /\ InMemory' /\ Chain(journal') /\ OnTheWay'
  BY <1>1, <1>2 DEF Inv, Delivery, OnDisk, InMemory, OnTheWay, Agrees, Unsaved, Unacked
<1> QED BY <1>1, <1>3, <1>4, <1>5 DEF Inv, Delivery, Admitting, Serving, Rows, store

(* A lost request changes nothing that was saved. *)
LEMMA LoseStep ==
  ASSUME AuditConstants, Inv, NEW b \in net, lose(b)
  PROVE  Rows' /\ Delivery' /\ Admitting'
<1>1. /\ net' = net \ {b}
      /\ UNCHANGED <<store, disk, up, task, waiter, journal, earlier>>
  BY DEF lose
<1>2. OnDisk' /\ InMemory' /\ Chain(journal') /\ OnTheWay'
  BY <1>1 DEF Inv, Delivery, OnDisk, InMemory, OnTheWay, Agrees, Unsaved, Unacked, task
<1>3. Serving' /\ IntentDurable'
  BY <1>1 DEF Inv, Admitting, Serving, IntentDurable, task
<1> QED BY <1>1, <1>2, <1>3 DEF Inv, Delivery, Admitting, Rows, store

(* A batch the collector adds leaves the ones before it. *)
LEMMA PrefixKept ==
  ASSUME NEW j, NEW jj, NEW n \in Nat, \A k \in 1..n : jj[k] = j[k]
  PROVE  Missing(jj, n) = Missing(j, n) /\ Through(jj, n) = Through(j, n)
<1>1. Missing(jj, n) = Missing(j, n)
  BY DEF Missing
<1>2. Through(jj, n) = Through(j, n)
  BY DEF Through
<1> QED BY <1>1, <1>2

(* The collector takes the pending batch of a checkpoint. *)
LEMMA AbreastGrows ==
  ASSUME NEW j, Chain(j), NEW c, Abreast(c, j), NEW b \in Batches, c.pending = b, c.seq = Len(j),
         NEW jj, Len(jj) = Len(j) + 1, jj[Len(j) + 1] = b, \A k \in 1..Len(j) : jj[k] = j[k]
  PROVE  Abreast(c, jj)
<1>1. c.seq \in Nat /\ Len(j) \in Nat
  BY AbreastTypes
<1>2. Missing(jj, c.seq) = Missing(j, c.seq) /\ Through(jj, c.seq) = Through(j, c.seq)
  BY <1>1, PrefixKept
<1> QED BY <1>1, <1>2 DEF Abreast

(* The gaps of a whole batch are counted by a number. *)
LEMMA GapsCounted ==
  ASSUME NEW b \in Batches, Whole(b)
  PROVE  Cardinality(b.gaps) \in Nat
<1>1. b.after + 1 \in Int /\ b.through \in Int
  BY DEF Batches
<1>2. IsFiniteSet((b.after + 1)..b.through)
  BY <1>1, FS_Interval
<1>3. b.gaps \in SUBSET ((b.after + 1)..b.through)
  BY DEF Whole, Reported
<1> QED BY <1>2, <1>3, FS_Subset, FS_CardinalityType

(* The acknowledgement moves a checkpoint past its pending batch. *)
LEMMA AbreastAcked ==
  ASSUME Distinct, NEW j, Chain(j), NEW c, Abreast(c, j), NEW b \in Batches, c.pending = b, Len(j) = c.seq + 1,
         NEW d \in Checkpoints, d.seq = b.seq, d.cursor = b.through, d.gap = c.gap + Cardinality(b.gaps),
         d.pending = None
  PROVE  Abreast(d, j) /\ d.seq = c.seq + 1 /\ d # None /\ j[d.seq] = b
<1>1. c.seq \in Nat /\ c.gap \in Nat /\ c.seen \in Nat /\ c \in Checkpoints /\ j \in Seq(Batches)
  BY AbreastTypes DEF Chain
<1>2. b = j[c.seq + 1] /\ b.seq = c.seq + 1 /\ c.seq + 1 \in DOMAIN j /\ b # None
  BY <1>1 DEF Abreast, Distinct
<1>3. Cardinality(Missing(j, c.seq + 1)) = c.gap + Cardinality(b.gaps)
  BY <1>1, <1>2, MissingGrows DEF Abreast
<1>5. d.seq = c.seq + 1
  BY <1>2
<1>6. Through(j, d.seq) = b.through
  BY <1>1, <1>2, <1>5 DEF Through
<1>7. Abreast(d, j)
  BY <1>1, <1>2, <1>3, <1>5, <1>6 DEF Abreast
<1> QED BY <1>2, <1>5, <1>7 DEF Distinct

(* A request whose batch follows the journal is the saved one. *)
LEMMA FollowsSaved ==
  ASSUME AuditConstants, Inv, NEW b \in net, Follows(b)
  PROVE  /\ disk # None /\ b = disk.pending /\ disk.seq = Len(journal) /\ Whole(b) /\ b \in Batches
         /\ b.seq = Len(journal) + 1 /\ b.after = Through(journal, Len(journal))
<1>1. journal \in Seq(Batches) /\ Len(journal) \in Nat /\ DOMAIN journal = 1..Len(journal)
  BY DEF Inv, Delivery, Chain
<1>2. Last.seq = Len(journal) /\ Last.through = Through(journal, Len(journal))
  <2>1. CASE journal = <<>>
    BY <2>1 DEF Last, Through
  <2>2. CASE journal # <<>>
    <3>1. Len(journal) \in DOMAIN journal /\ Len(journal) # 0
      BY <1>1, <2>2
    <3>2. journal[Len(journal)].seq = Len(journal)
      BY <3>1 DEF Inv, Delivery, Chain
    <3> QED BY <2>2, <3>1, <3>2 DEF Last, Through
  <2> QED BY <2>1, <2>2
<1>3. b.seq = Len(journal) + 1 /\ b.after = Through(journal, Len(journal))
  BY <1>2 DEF Follows
<1>4. b \in Batches /\ b # None
  BY DEF Inv, Delivery, OnTheWay, AuditConstants, Distinct
<1>5. disk # None /\ b = disk.pending
  BY <1>1, <1>3 DEF Inv, Delivery, OnTheWay
<1>6. Abreast(disk, journal)
  BY <1>5 DEF Inv, Delivery, OnDisk
<1>7. disk.seq \in Nat
  BY <1>6, AbreastTypes
<1>8. Whole(b) /\ b.seq = disk.seq + 1
  BY <1>4, <1>5, <1>6 DEF Abreast
<1> QED BY <1>1, <1>3, <1>4, <1>5, <1>7, <1>8

(* What append leaves of the requests, the file and the memory. *)
LEMMA AppendKeeps ==
  ASSUME AuditConstants, Inv, NEW b \in net, append(b)
  PROVE  /\ Chain(journal') /\ OnDisk' /\ OnTheWay'
         /\ ck # None => Abreast(ck, journal')
         /\ DOMAIN journal \subseteq DOMAIN journal' /\ \A k \in DOMAIN journal : journal'[k] = journal[k]
<1>1. net' = net \ {b} /\ UNCHANGED <<disk, up>> /\ journal' = IF Follows(b) THEN Append(journal, b) ELSE journal
  BY DEF append, Appended
<1>2. CASE ~Follows(b)
  BY <1>1, <1>2 DEF Inv, Delivery, OnDisk, OnTheWay, InMemory
<1>3. CASE Follows(b)
  <2>1. /\ disk # None /\ b = disk.pending /\ disk.seq = Len(journal) /\ Whole(b) /\ b \in Batches
        /\ b.seq = Len(journal) + 1 /\ b.after = Through(journal, Len(journal))
    BY <1>3, FollowsSaved
  <2>2. Chain(journal)
    BY DEF Inv, Delivery
  <2>3. /\ Chain(journal') /\ Len(journal') = Len(journal) + 1
        /\ journal'[Len(journal) + 1] = b /\ \A k \in 1..Len(journal) : journal'[k] = journal[k]
    BY <1>1, <1>3, <2>1, <2>2, ChainGrows
  <2>4. Len(journal) \in Nat /\ DOMAIN journal = 1..Len(journal) /\ DOMAIN journal' = 1..Len(journal')
    BY <2>2, <2>3 DEF Chain
  <2>5. Abreast(disk, journal)
    BY <2>1 DEF Inv, Delivery, OnDisk
  <2>6. Abreast(disk, journal')
    BY <2>1, <2>2, <2>3, <2>5, AbreastGrows
  <2>7. OnDisk'
    BY <1>1, <2>1, <2>6 DEF OnDisk
  <2>8. OnTheWay'
    <3> SUFFICES ASSUME NEW m \in net
                 PROVE  m \in Batches /\ (m.seq <= Len(journal) + 1 \/ m = disk.pending)
      BY <1>1, <2>1, <2>3 DEF OnTheWay
    <3>1. m \in Batches /\ (m.seq <= Len(journal) \/ m = disk.pending)
      BY DEF Inv, Delivery, OnTheWay
    <3>2. m.seq \in Nat
      BY <3>1 DEF Batches
    <3> QED BY <2>4, <3>1, <3>2
  <2>9. ck # None => Abreast(ck, journal')
    <3> SUFFICES ASSUME ck # None
                 PROVE  Abreast(ck, journal')
      OBVIOUS
    <3>1. Abreast(ck, journal) /\ (Agrees \/ Unsaved \/ Unacked)
      BY DEF Inv, Delivery, InMemory
    <3>2. ck.seq \in Nat /\ ck.seq <= Len(journal)
      BY <3>1, AbreastTypes DEF Abreast
    <3>3. ~Unsaved
      BY <2>1 DEF Unsaved, AuditConstants, Distinct
    <3>4. ~Unacked
      BY <2>1, <2>4, <3>2 DEF Unacked
    <3> QED BY <2>1, <2>2, <2>3, <3>1, <3>3, <3>4, AbreastGrows DEF Agrees
  <2> QED BY <2>3, <2>4, <2>7, <2>8, <2>9
<1> QED BY <1>2, <1>3

(* The collector's append and its answer. *)
LEMMA AppendStep ==
  ASSUME AuditConstants, Inv, NEW b \in net, append(b)
  PROVE  Rows' /\ Delivery' /\ Admitting'
<1>1. UNCHANGED <<store, disk, up, waiter, earlier>> /\ journal' = IF Follows(b) THEN Append(journal, b) ELSE journal
  BY DEF append, Appended
<1>2. /\ Chain(journal') /\ OnDisk' /\ OnTheWay'
      /\ ck # None => Abreast(ck, journal')
      /\ DOMAIN journal \subseteq DOMAIN journal' /\ \A k \in DOMAIN journal : journal'[k] = journal[k]
  BY AppendKeeps
<1>3. IntentDurable'
  BY <1>1, <1>2, AdmittedKept DEF Inv, Admitting
<1>4. CASE UNCHANGED task
  <2>1. InMemory'
    BY <1>1, <1>2, <1>4 DEF Inv, Delivery, InMemory, task, Agrees, Unsaved, Unacked
  <2>2. pc = "ack" => journal'[ck.seq] = journal[ck.seq]
    <3> SUFFICES ASSUME pc = "ack"
                 PROVE  ck.seq \in DOMAIN journal
      BY <1>2
    <3>1. ck # None /\ ck.seq > 0 /\ Abreast(ck, journal) /\ journal \in Seq(Batches)
      BY DEF Inv, Delivery, InMemory, Chain
    <3>2. ck.seq \in Nat /\ ck.seq <= Len(journal)
      BY <3>1, AbreastTypes DEF Abreast
    <3> QED BY <3>1, <3>2
  <2>3. Serving'
    BY <1>1, <1>4, <2>2 DEF Inv, Admitting, Serving, task
  <2> QED BY <1>1, <1>2, <1>3, <2>1, <2>3 DEF Inv, Delivery, Admitting, Rows, store
<1>5. CASE ~UNCHANGED task
  <2>1. /\ up /\ pc = "wait" /\ b = ck.pending /\ (Known(b) \/ Follows(b))
        /\ ck' = Acknowledged /\ dirty' = TRUE /\ pc' = "ack" /\ UNCHANGED <<queue, active>>
    BY <1>5 DEF append
  <2>2. ck # None /\ disk # None /\ Agrees /\ Abreast(ck, journal) /\ b # None /\ b \in Batches /\ b.seq = ck.seq + 1
    <3>1. ck # None /\ disk # None /\ Agrees /\ Abreast(ck, journal) /\ ck.pending # None
      BY <2>1 DEF Inv, Delivery, InMemory
    <3> QED BY <2>1, <3>1, AbreastTypes DEF Abreast
  <2>3. ck.seq \in Nat /\ journal \in Seq(Batches) /\ Len(journal) \in Nat /\ Abreast(ck, journal')
    BY <1>2, <2>2, AbreastTypes DEF Inv, Delivery, Chain
  <2>4. Len(journal') = ck.seq + 1
    <3>1. CASE Follows(b)
      <4>1. Len(journal') = Len(journal) + 1
        BY <1>1, <2>2, <2>3, <3>1, AppendProperties
      <4>2. b.seq = Len(journal) + 1
        BY <3>1, FollowsSaved
      <4> QED BY <2>2, <4>1, <4>2
    <3>2. CASE Known(b) /\ ~Follows(b)
      <4>1. b.seq \in DOMAIN journal /\ journal' = journal
        BY <1>1, <3>2 DEF Known
      <4> QED BY <2>2, <2>3, <4>1 DEF Abreast
    <3> QED BY <2>1, <3>1, <3>2
  <2>5. ck' = [ck EXCEPT !.seq = b.seq, !.cursor = b.through, !.gap = ck.gap + Cardinality(b.gaps), !.pending = None]
    BY <2>1 DEF Acknowledged
  <2>6. Abreast(ck', journal') /\ ck'.seq = ck.seq + 1 /\ ck'.pending = None /\ ck' # None /\ journal'[ck'.seq] = b
    <3> DEFINE g == ck.gap + Cardinality(b.gaps)
    <3>1. ck.gap \in Nat /\ ck \in Checkpoints /\ Whole(b) /\ ck.pending = b
      BY <2>1, <2>2, AbreastTypes DEF Abreast
    <3>2. g \in Nat
      BY <2>2, <3>1, GapsCounted
    <3>3. ck' = [ck EXCEPT !.seq = b.seq, !.cursor = b.through, !.gap = g, !.pending = None]
      BY <2>5
    <3> HIDE DEF g
    <3>4. ck' \in Checkpoints /\ ck'.seq = b.seq /\ ck'.cursor = b.through /\ ck'.gap = g /\ ck'.pending = None
      <4> DEFINE d == [ck EXCEPT !.seq = b.seq, !.cursor = b.through, !.gap = g, !.pending = None]
      <4>1. d \in Checkpoints /\ d.seq = b.seq /\ d.cursor = b.through /\ d.gap = g /\ d.pending = None
        BY <2>2, <3>1, <3>2 DEF Checkpoints, Batches
      <4>2. ck' = d
        BY <3>3
      <4> HIDE DEF d
      <4> QED BY <4>1, <4>2
    <3>5. ck'.gap = ck.gap + Cardinality(b.gaps)
      BY <3>4 DEF g
    <3> QED BY <1>2, <2>2, <2>3, <2>4, <3>1, <3>4, <3>5, AbreastAcked DEF AuditConstants
  <2>7. InMemory'
    BY <1>1, <2>1, <2>2, <2>3, <2>6 DEF InMemory, Agrees, Unacked
  <2>8. Serving'
    BY <1>1, <2>1, <2>6 DEF Inv, Admitting, Serving
  <2> QED BY <1>1, <1>2, <1>3, <2>7, <2>8 DEF Inv, Delivery, Admitting, Rows, store
<1> QED BY <1>4, <1>5

-----------------------------------------------------------------------------
(* The invariant holds at first. *)
LEMMA InitInv == AuditConstants /\ Init => Inv
<1> SUFFICES ASSUME AuditConstants, Init
             PROVE  Inv
  OBVIOUS
<1>1. Rows
  BY DEF Init, Rows
<1>2. Chain(journal)
  BY DEF Init, Chain, Through
<1>3. OnDisk /\ InMemory /\ OnTheWay
  BY DEF Init, OnDisk, InMemory, OnTheWay
<1>4. Serving /\ IntentDurable
  BY DEF Init, Serving, IntentDurable
<1>5. Promised
  BY DEF Init, Promised, PolicyKept
<1> QED BY <1>1, <1>2, <1>3, <1>4, <1>5 DEF Inv, Delivery, Admitting

(* Every step keeps the invariant. *)
LEMMA NextInv == AuditConstants /\ Inv /\ [Next]_vars => Inv'
<1> SUFFICES ASSUME AuditConstants, Inv, [Next]_vars
             PROVE  Inv'
  OBVIOUS
<1>1. CASE UNCHANGED vars
  <2>1. UNCHANGED <<store, config, disk, up, required, task, waiter, net, journal, earlier>>
    BY <1>1 DEF vars
  <2>2. Delivery'
    BY <2>1, DeliveryQuiet DEF Inv, task
  <2>3. Admitting'
    BY <2>1 DEF Inv, Admitting, Serving, IntentDurable, task
  <2>4. Promised' /\ Rows'
    BY <2>1 DEF Inv, Promised, PolicyKept, Rows, config, store
  <2> QED BY <2>2, <2>3, <2>4 DEF Inv
<1>2. CASE Next
  <2>1. Promised'
    BY <1>2, PromiseStep DEF Inv, AuditConstants
  <2>2. Rows' /\ Delivery' /\ Admitting'
    BY <1>2, AroundStep, ConfigureStep, RestoreStep, StartStep, CrashStep, ResaveStep, StepStep, PersistStep,
       SendStep, SendFailsStep, AckStep, AppendStep, LoseStep DEF Next
  <2> QED BY <2>1, <2>2 DEF Inv
<1> QED BY <1>1, <1>2

(* The collector's journal accounts for every audit row exactly once, the   *)
(* controller's count of missing rows is the journal's, and the checkpoint  *)
(* on disk never conflicts with it: whatever saves fail, answers are lost,  *)
(* requests arrive late and processes die (AuditDelivery.step, persist and  *)
(* acknowledgement of audit_delivery.py, append of the collector).          *)
THEOREM RowsDelivered == AuditConstants /\ Spec => [](EveryRowOnce /\ PendingSaved)
<1> SUFFICES ASSUME AuditConstants
             PROVE  Spec => [](EveryRowOnce /\ PendingSaved)
  OBVIOUS
<1>1. ASSUME Inv
      PROVE  EveryRowOnce /\ PendingSaved
  <2>1. Chain(journal) /\ OnDisk /\ InMemory
    BY <1>1 DEF Inv, Delivery
  <2>2. journal \in Seq(Batches) /\ Len(journal) \in Nat
    BY <2>1 DEF Chain
  <2>3. Last.through = Through(journal, Len(journal))
    BY <2>2 DEF Last, Through
  <2>4. ck # None => ck.gap = Cardinality(UNION {journal[k].gaps : k \in 1..ck.seq})
    BY <2>1 DEF InMemory, Abreast, Missing
  <2>5. EveryRowOnce
    BY <2>1, <2>3, <2>4 DEF EveryRowOnce, Chain
  <2>6. disk # None => disk.seq \in Nat
    BY <2>1, AbreastTypes DEF OnDisk
  <2>7. PendingSaved
    BY <2>1, <2>2, <2>6 DEF PendingSaved, OnDisk, Abreast
  <2> QED BY <2>5, <2>7
<1>2. Init => Inv
  BY InitInv
<1>3. Inv /\ [Next]_vars => Inv'
  BY NextInv
<1> QED BY <1>1, <1>2, <1>3, PTL DEF Spec

(* A mutation admitted under required auditing has its intent in the        *)
(* collector, with the checkpoint on disk past it; and what the             *)
(* administrator was told to be required is enforced by every controller    *)
(* that starts (require and mode of audit_delivery.py and audit_cli.py).    *)
THEOREM IntentsFirst == AuditConstants /\ Spec => [](IntentDurable /\ PolicyKept)
<1> SUFFICES ASSUME AuditConstants
             PROVE  Spec => [](IntentDurable /\ PolicyKept)
  OBVIOUS
<1>1. Inv => IntentDurable /\ PolicyKept
  BY DEF Inv, Admitting, Promised
<1>2. Init => Inv
  BY InitInv
<1>3. Inv /\ [Next]_vars => Inv'
  BY NextInv
<1> QED BY <1>1, <1>2, <1>3, PTL DEF Spec
=============================================================================
