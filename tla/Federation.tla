----------------------------- MODULE Federation -----------------------------
(* Two federated clusters: A offers a pairing, B approves it, grants access *)
(* and carries out A's mutations (federation/pairing.py, service.py,        *)
(* authority.py, operations.py, client.py).  An offer's acceptance receipt, *)
(* and the grant made with it, are named by the offer.  A cluster's         *)
(* handlers run without interruption between two awaits.                    *)
EXTENDS Naturals, FiniteSets

CONSTANTS
  Offers,      \* pairing offers of A
  Extra,       \* grants B makes beside the ones of an approval
  Ops,         \* identifiers of mutations
  Controls,    \* those that control a service step by step, the others create one
  Conns,       \* streams B serves
  None,
  Stop,        \* the grants' stop_on_revoke
  Requests, Concurrent, Capacity,   \* a grant's allowances
  Events,      \* bound: what the operators ask for and whether answers are lost
  MaxCrash, MaxRemove

Grants == Offers \cup Extra

FederationAssumption ==
  /\ Stop \in BOOLEAN /\ Offers \cap Extra = {} /\ Controls \subseteq Ops
  /\ Events \subseteq {"remove_A", "forget_A", "revoke", "retire", "remove", "forget", "lost"}
  /\ {Requests, Concurrent, Capacity, MaxCrash, MaxRemove} \subseteq Nat

VARIABLES
  offersA,   \* offer -> none, pending, confirming, paired, gone
  peerA,     \* B as A knows it: None or [state, receipt, grant]
  fin,       \* offer -> the completion under way, or None
  cutA,      \* receipts whose pairing A's operator removed
  told,      \* mutation -> A was told of its success
  offersB,   \* offer -> none, pending, accepted, paired, gone
  peerB,     \* A as B knows it: None or [state, receipt]
  grants,    \* grant -> None or its record
  ops,       \* mutation -> None or its receipt
  made,      \* mutation, grant -> how often it took effect, whole or in part
  svc,       \* mutation, grant -> the service it created: none, running, stopped
  conn,      \* stream -> None or the request it serves
  adm,       \* the administrator's request under way on B, or None
  ended,     \* grants whose revocation was confirmed
  removals,  \* pairings removed on B so far
  crashes

A == <<offersA, peerA, fin, cutA>>
work == <<ops, made, svc>>
B == <<offersB, peerB, grants, adm, ended, removals>>
vars == <<A, told, B, work, conn, crashes>>

Init ==
  /\ offersA = [o \in Offers |-> "none"] /\ peerA = None /\ fin = [o \in Offers |-> None] /\ cutA = {}
  /\ told = [m \in Ops |-> FALSE]
  /\ offersB = [o \in Offers |-> "none"] /\ peerB = None /\ grants = [g \in Grants |-> None]
  /\ ops = [m \in Ops |-> None] /\ made = [m \in Ops |-> [g \in Grants |-> 0]]
  /\ svc = [m \in Ops |-> [g \in Grants |-> "none"]]
  /\ conn = [c \in Conns |-> None] /\ adm = None /\ ended = {} /\ removals = 0 /\ crashes = 0

Open(g) == {c \in Conns : conn[c] # None /\ conn[c].grant = g}

(* B's loop serves others while an administrator's request waits for        *)
(* streams to end or for the inference lock.                                *)
Yielded == IF adm = None THEN TRUE ELSE adm.pc = "gather" /\ \E c \in Conns : conn[c] # None

Active(g) == grants[g] # None /\ grants[g].state = "active"

(* check: the grant and the pairing are in force. *)
check(g) == Active(g) /\ peerB # None /\ peerB.state = "paired"

-----------------------------------------------------------------------------
(* Pairing *)

start(o) ==
  /\ offersA[o] = "none" /\ offersA' = [offersA EXCEPT ![o] = "pending"]
  /\ UNCHANGED <<peerA, fin, cutA, told, B, work, conn, crashes>>

incoming(o) ==
  /\ offersA[o] = "pending" /\ offersB[o] = "none" /\ Yielded
  /\ offersB' = [offersB EXCEPT ![o] = "pending"]
  /\ UNCHANGED <<A, told, peerB, grants, adm, ended, removals, work, conn, crashes>>

discard(o) ==
  /\ offersA[o] = "pending" /\ offersA' = [offersA EXCEPT ![o] = "gone"]
  /\ UNCHANGED <<peerA, fin, cutA, told, B, work, conn, crashes>>

(* under, amid: the removals before it, and whether one is under way *)
NewGrant == [state |-> "active", used |-> 0, created |-> 0, under |-> removals,
             amid |-> IF adm = None THEN FALSE ELSE adm.kind = "remove"]

(* approve: B's operator; the grant, the peer and the offer in one          *)
(* transaction, over a removed pairing but not over one in force.           *)
approve(o) ==
  /\ Yielded /\ offersB[o] = "pending"
  /\ IF peerB = None THEN TRUE ELSE peerB.state = "removed"
  /\ offersB' = [offersB EXCEPT ![o] = "accepted"]
  /\ grants' = [grants EXCEPT ![o] = NewGrant]
  /\ peerB' = [state |-> "awaiting", receipt |-> o]
  /\ UNCHANGED <<A, told, adm, ended, removals, work, conn, crashes>>

(* finish: A asks for the status ... *)
finish(o) ==
  /\ offersA[o] \in {"pending", "confirming", "paired"} /\ fin[o] = None
  /\ fin' = [fin EXCEPT ![o] = "status"]
  /\ UNCHANGED <<offersA, peerA, cutA, told, B, work, conn, crashes>>

status(o) ==
  /\ fin[o] = "status" /\ Yielded /\ offersB[o] \in {"accepted", "paired"}
  /\ fin' = [fin EXCEPT ![o] = "accepted"]
  /\ UNCHANGED <<offersA, peerA, cutA, told, B, work, conn, crashes>>

(* ... and unless the pairing was removed, or another is in force, ... *)
MayConfirm(o) == IF peerA = None THEN TRUE
  ELSE IF peerA.state = "removed" THEN peerA.receipt # o ELSE peerA.receipt = o

(* ... saves the receipt and confirms it, ... *)
confirming(o) ==
  /\ fin[o] = "accepted"
  /\ IF MayConfirm(o)
     THEN /\ peerA' = [state |-> "confirming", receipt |-> o, grant |-> o]
          /\ offersA' = [offersA EXCEPT ![o] = "confirming"] /\ fin' = [fin EXCEPT ![o] = "confirm"]
     ELSE fin' = [fin EXCEPT ![o] = None] /\ UNCHANGED <<peerA, offersA>>
  /\ UNCHANGED <<cutA, told, B, work, conn, crashes>>

Confirmable(o) == peerB # None /\ peerB.state \in {"awaiting", "paired"} /\ peerB.receipt = o

confirm(o) ==
  /\ fin[o] = "confirm" /\ Yielded /\ offersB[o] \in {"accepted", "paired"} /\ Confirmable(o)
  /\ peerB' = [peerB EXCEPT !.state = "paired"] /\ offersB' = [offersB EXCEPT ![o] = "paired"]
  /\ fin' = [fin EXCEPT ![o] = "confirmed"]
  /\ UNCHANGED <<offersA, peerA, cutA, told, grants, adm, ended, removals, work, conn, crashes>>

(* ... and on the answer saves the pairing, if it is still that one. *)
confirmed(o) ==
  /\ fin[o] = "confirmed" /\ fin' = [fin EXCEPT ![o] = None]
  /\ LET still == peerA # None /\ peerA.state \in {"confirming", "paired"} /\ peerA.receipt = o IN
     /\ peerA' = IF still THEN [state |-> "paired", receipt |-> o, grant |-> o] ELSE peerA
     /\ offersA' = IF still THEN [offersA EXCEPT ![o] = "paired"] ELSE offersA
  /\ UNCHANGED <<cutA, told, B, work, conn, crashes>>

(* A call fails, or its answer is lost. *)
finish_lost(o) ==
  /\ "lost" \in Events /\ fin[o] # None /\ fin' = [fin EXCEPT ![o] = None]
  /\ UNCHANGED <<offersA, peerA, cutA, told, B, work, conn, crashes>>

remove_A ==
  /\ "remove_A" \in Events /\ peerA # None /\ peerA.state # "removed"
  /\ peerA' = [peerA EXCEPT !.state = "removed", !.grant = None] /\ cutA' = cutA \cup {peerA.receipt}
  /\ UNCHANGED <<offersA, fin, told, B, work, conn, crashes>>

forget_A ==
  /\ "forget_A" \in Events /\ peerA # None /\ peerA.state = "removed" /\ peerA' = None
  /\ offersA' = [o \in Offers |-> IF offersA[o] \in {"confirming", "paired"} THEN "gone" ELSE offersA[o]]
  /\ UNCHANGED <<fin, cutA, told, B, work, conn, crashes>>

(* refresh_grants: A selects one of the grants B has for the pairing. *)
refresh(g) ==
  /\ Yielded /\ check(g) /\ peerA # None /\ peerA.state = "paired" /\ peerA.receipt = peerB.receipt
  /\ peerA.grant # g /\ peerA' = [peerA EXCEPT !.grant = g]
  /\ UNCHANGED <<offersA, fin, cutA, told, B, work, conn, crashes>>

-----------------------------------------------------------------------------
(* Requests under a grant *)

(* grant: B's operator shares more with a paired cluster. *)
grant(g) ==
  /\ Yielded /\ peerB # None /\ peerB.state = "paired" /\ grants[g] = None /\ g \notin ended
  /\ grants' = [grants EXCEPT ![g] = NewGrant]
  /\ UNCHANGED <<A, told, offersB, peerB, adm, ended, removals, work, conn, crashes>>

Allowed(g) == grants[g].used < Requests /\ Cardinality(Open(g)) < Concurrent

(* request, then admit on B: the allowance is used before anything is done. *)
admit(c, m) ==
  /\ peerA # None /\ peerA.state = "paired" /\ Yielded /\ conn[c] = None
  /\ LET g == peerA.grant IN
     /\ check(g) /\ Allowed(g)
     /\ grants' = [grants EXCEPT ![g].used = @ + 1]
     /\ conn' = [conn EXCEPT ![c] = [op |-> m, grant |-> g, pc |-> "admitted"]]
  /\ UNCHANGED <<A, told, offersB, peerB, adm, ended, removals, work, crashes>>

(* The stream ends. *)
Close(c) == conn' = [conn EXCEPT ![c] = None]

Full(g) ==
  grants[g].created + Cardinality({m \in Ops \ Controls : ops[m] # None /\ ops[m].grant = g /\ ops[m].state = "uncertain"}) >= Capacity

(* Mutant: a failed or uncertain receipt lets the mutation run again. *)
RepeatedUncertain(m) == ops[m] # None /\ ops[m].state = "complete"

Repeated(m) == ops[m] # None

(* mutate: a known identifier is answered from its receipt; a new one is    *)
(* recorded as uncertain before its effect.                                 *)
mutate(c) ==
  /\ conn[c] # None /\ conn[c].pc = "admitted" /\ Yielded
  /\ LET m == conn[c].op  g == conn[c].grant IN
     IF ~check(g) THEN Close(c) /\ UNCHANGED <<ops, told>>
     ELSE IF Repeated(m)
     THEN /\ Close(c) /\ UNCHANGED ops
          /\ told' = [told EXCEPT ![m] = @ \/ (ops[m].grant = g /\ ops[m].state = "complete")]
     ELSE IF m \notin Controls /\ Full(g) THEN Close(c) /\ UNCHANGED <<ops, told>>
     ELSE /\ ops' = [ops EXCEPT ![m] = [grant |-> g, state |-> "uncertain"]]
          /\ conn' = [conn EXCEPT ![c].pc = "acting"] /\ UNCHANGED told
  /\ UNCHANGED <<A, B, made, svc, crashes>>

(* The service is created, entered in the grant and the receipt completed   *)
(* without an await; its answer goes out only if the grant still stands.  A *)
(* control ends with its last replica or job.                               *)
effect(c) ==
  /\ conn[c] # None /\ conn[c].pc \in {"acting", "partly"} /\ Yielded
  /\ conn[c].pc = "acting" => Active(conn[c].grant)
  /\ LET m == conn[c].op  g == conn[c].grant IN
     /\ made' = IF conn[c].pc = "partly" THEN made ELSE [made EXCEPT ![m][g] = @ + 1]
     /\ IF m \in Controls THEN UNCHANGED <<svc, grants>>
        ELSE svc' = [svc EXCEPT ![m][g] = "running"] /\ grants' = [grants EXCEPT ![g].created = @ + 1]
     /\ ops' = [ops EXCEPT ![m].state = "complete"]
     /\ told' \in {told, [told EXCEPT ![m] = check(g)]}
  /\ Close(c)
  /\ UNCHANGED <<A, offersB, peerB, adm, ended, removals, crashes>>

(* control: replicas are retried, or jobs removed, one after the other.     *)
part(c) ==
  /\ conn[c] # None /\ conn[c].pc = "acting" /\ conn[c].op \in Controls /\ Yielded /\ Active(conn[c].grant)
  /\ conn' = [conn EXCEPT ![c].pc = "partly"]
  /\ made' = [made EXCEPT ![conn[c].op][conn[c].grant] = @ + 1]
  /\ UNCHANGED <<A, told, B, ops, svc, crashes>>

(* The receipt is failed, also where a control has done part of its work.   *)
effect_fails(c) ==
  /\ conn[c] # None /\ conn[c].pc \in {"acting", "partly"} /\ Yielded
  /\ ops' = [ops EXCEPT ![conn[c].op].state = "failed"] /\ Close(c)
  /\ UNCHANGED <<A, told, B, made, svc, crashes>>

(* The caller disconnects: the operation is cancelled where it waits. *)
disconnect(c) ==
  /\ conn[c] # None /\ Close(c)
  /\ UNCHANGED <<A, told, B, work, crashes>>

(* B dies, possibly between the effect and its records. *)
crash ==
  /\ crashes < MaxCrash /\ crashes' = crashes + 1
  /\ \/ UNCHANGED <<made, svc>>
     \/ \E c \in Conns : /\ conn[c] # None /\ conn[c].pc = "acting" /\ Active(conn[c].grant)
                         /\ made' = [made EXCEPT ![conn[c].op][conn[c].grant] = @ + 1]
                         /\ svc' = IF conn[c].op \in Controls THEN svc
                                   ELSE [svc EXCEPT ![conn[c].op][conn[c].grant] = "running"]
  /\ conn' = [c \in Conns |-> None] /\ adm' = None
  /\ UNCHANGED <<A, told, offersB, peerB, grants, ended, removals, ops>>

-----------------------------------------------------------------------------
(* Administration on B *)

Idle == adm = None
Begin(kind, gs) == kind \in Events /\ adm' = [kind |-> kind, left |-> gs, cur |-> None, pc |-> "next"]

revoke(g) ==
  /\ Idle /\ grants[g] # None /\ Begin("revoke", {g})
  /\ UNCHANGED <<A, told, offersB, peerB, grants, ended, removals, work, conn, crashes>>

retire(g) ==
  /\ Idle /\ grants[g] # None /\ grants[g].state = "revoked" /\ Begin("retire", {g})
  /\ UNCHANGED <<A, told, offersB, peerB, grants, ended, removals, work, conn, crashes>>

(* remove: the grants are the ones there are when it begins. *)
remove_B ==
  /\ Idle /\ peerB # None /\ peerB.state # "removed" /\ removals < MaxRemove
  /\ Begin("remove", {g \in Grants : Active(g)})
  /\ UNCHANGED <<A, told, offersB, peerB, grants, ended, removals, work, conn, crashes>>

forget_B ==
  /\ Idle /\ peerB # None /\ peerB.state = "removed"
  /\ Begin("forget", {g \in Grants : grants[g] # None})
  /\ UNCHANGED <<A, told, offersB, peerB, grants, ended, removals, work, conn, crashes>>

(* Authority.revoke: the grant, then its streams ... *)
revoking(g) ==
  /\ adm # None /\ adm.pc = "next" /\ g \in adm.left
  /\ grants' = [grants EXCEPT ![g].state = "revoked"]
  /\ adm' = [adm EXCEPT !.left = @ \ {g}, !.cur = g, !.pc = "gather"]
  /\ UNCHANGED <<A, told, offersB, peerB, ended, removals, work, conn, crashes>>

(* ... each cancelled where it waits, ... *)
cancel(c) ==
  /\ adm # None /\ adm.pc = "gather" /\ conn[c] # None /\ conn[c].grant = adm.cur
  /\ Close(c)
  /\ UNCHANGED <<A, told, B, work, crashes>>

Gathered == Open(adm.cur) = {}

(* The services that were created with the grant's credential. *)
Owned(g) == {m \in Ops : svc[m][g] # "none"}

(* ... then its services, under the inference lock, and, to retire it, its  *)
(* receipts.                                                                *)
revoked ==
  /\ adm # None /\ adm.pc = "gather" /\ Gathered /\ adm' = [adm EXCEPT !.pc = "next"]
  /\ Stop => \A c \in Conns : conn[c] # None => conn[c].pc \notin {"acting", "partly"}
  /\ svc' = [m \in Ops |-> IF Stop /\ m \in Owned(adm.cur) THEN [svc[m] EXCEPT ![adm.cur] = "stopped"] ELSE svc[m]]
  /\ IF adm.kind \in {"retire", "forget"}
     THEN /\ ops' = [m \in Ops |-> IF ops[m] # None /\ ops[m].grant = adm.cur THEN None ELSE ops[m]]
          /\ grants' = [grants EXCEPT ![adm.cur] = None]
     ELSE UNCHANGED <<ops, grants>>
  /\ ended' = ended \cup {adm.cur}
  /\ UNCHANGED <<A, told, offersB, peerB, removals, made, conn, crashes>>

administered ==
  /\ adm # None /\ adm.pc = "next" /\ adm.left = {} /\ adm' = None
  /\ CASE adm.kind = "remove" -> /\ peerB' = [peerB EXCEPT !.state = "removed"] /\ removals' = removals + 1
                                 /\ UNCHANGED offersB
       [] adm.kind = "forget" -> /\ peerB' = None /\ UNCHANGED removals
                                 /\ offersB' = [o \in Offers |-> IF offersB[o] \in {"accepted", "paired"} THEN "gone" ELSE offersB[o]]
       [] OTHER -> UNCHANGED <<peerB, removals, offersB>>
  /\ UNCHANGED <<A, told, grants, ended, work, conn, crashes>>

-----------------------------------------------------------------------------
Pairing == \E o \in Offers :
  \/ start(o) \/ incoming(o) \/ discard(o) \/ approve(o) \/ finish(o) \/ status(o)
  \/ confirming(o) \/ confirm(o) \/ confirmed(o) \/ finish_lost(o)

Serving ==
  \/ \E g \in Extra : grant(g)
  \/ \E g \in Grants : refresh(g)
  \/ \E c \in Conns : mutate(c) \/ effect(c) \/ part(c) \/ effect_fails(c) \/ disconnect(c) \/ cancel(c) \/ \E m \in Ops : admit(c, m)

Administration ==
  \/ remove_A \/ forget_A \/ remove_B \/ forget_B \/ revoked \/ administered \/ crash
  \/ \E g \in Grants : revoke(g) \/ retire(g) \/ revoking(g)

Next == Pairing \/ Serving \/ Administration
Spec == Init /\ [][Next]_vars

-----------------------------------------------------------------------------
TypeOK ==
  /\ \A o \in Offers : offersA[o] \in {"none", "pending", "confirming", "paired", "gone"}
  /\ \A o \in Offers : offersB[o] \in {"none", "pending", "accepted", "paired", "gone"}
  /\ \A g \in Grants : grants[g] # None =>
       grants[g].state \in {"active", "revoked"} /\ grants[g].used <= Requests /\ grants[g].created <= Capacity
  /\ peerA # None => peerA.state \in {"confirming", "paired", "removed"} /\ peerA.receipt \in Offers
  /\ peerB # None => peerB.state \in {"awaiting", "paired", "removed"} /\ peerB.receipt \in Offers

(* A considers itself paired only under a receipt B's operator approved,    *)
(* and B considers itself paired only with the offer it approved last, when *)
(* A had saved the receipt.                                                 *)
PairedApproved ==
  /\ peerA # None /\ peerA.state = "paired" => offersB[peerA.receipt] \in {"paired", "gone"}
  /\ peerB # None /\ peerB.state = "paired" => offersB[peerB.receipt] = "paired"

(* Each grant's services never exceed its capacity, though answers are      *)
(* lost, streams cancelled and receipts left uncertain.                     *)
CapacityHeld == \A g \in Grants : Cardinality({m \in Ops \ Controls : made[m][g] > 0}) <= Capacity

(* A receipt tells the truth: complete means the effect took place, once,   *)
(* failed means that no service was created, though a control may have done *)
(* part of its work, and A is told of success only after the effect.        *)
ReceiptTrue == \A m \in Ops :
  /\ ops[m] # None /\ ops[m].state = "complete" => made[m][ops[m].grant] = 1
  /\ ops[m] # None /\ ops[m].state = "failed" /\ m \notin Controls => made[m][ops[m].grant] = 0
  /\ told[m] => \E g \in Grants : made[m][g] > 0

(* However a caller repeats a mutation, it takes effect at most once under  *)
(* a grant, even when the grant and its receipts are retired.               *)
NotReplayed == \A m \in Ops, g \in Grants : made[m][g] <= 1

(* Once a revocation is confirmed, nothing happens under the grant and, if  *)
(* the grant says so, no service it created runs.                           *)
RevokedQuiet == \A g \in ended :
  /\ ~Active(g) /\ Open(g) = {}
  /\ Stop => \A m \in Ops : svc[m][g] # "running"

(* No grant that was there when the removal of its pairing began is usable  *)
(* after it; one that was issued while the removal waited for streams to    *)
(* end (Federation.remove) survives that removal and no further one.        *)
RemovedEnds == \A g \in Grants :
  check(g) => removals - grants[g].under <= IF grants[g].amid THEN 1 ELSE 0
=============================================================================
