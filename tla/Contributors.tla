---------------------------- MODULE Contributors ----------------------------
(* The identity of one contributor node: invitation, claim, approval,       *)
(* issuance, activation, rotation, revocation and removal on the controller *)
(* (contributors.py, contributor_store.py), and the node's own durable      *)
(* state (contributor_client.py, contributor_client_state.py).  A key is    *)
(* named by the request it was made for.  Controller handlers run to their  *)
(* next await without interruption; issuance awaits the authority.          *)
EXTENDS Naturals, FiniteSets

CONSTANTS
  Enroll,     \* the enrollment request
  Rotations,  \* identifiers of rotation requests the node may draw
  Certs,      \* certificates the authority may sign
  None, MaxRev, MaxRestart

Reqs == {Enroll} \cup Rotations

ContributorsAssumption == MaxRev \in Nat /\ MaxRestart \in Nat /\ Enroll \notin Rotations

VARIABLES
  node,      \* the contributor: none, invited, claimed, disabled, removed
  project,   \* its project is enabled
  reqs,      \* request -> its row, or None
  certs,     \* certificate -> its row, or None
  issuing,   \* request -> the issuance under way, or None
  session,   \* the live channel: the certificate it was opened with, or None
  restarts,  \* restarts of either side so far
  stage,     \* node.json: none, claiming, awaiting_approval, active
  current,   \* node.json: the current certificate, or None
  pending,   \* node.json: the pending request and its certificate, or None
  mem        \* the pending certificate as the running client knows it

controller == <<node, project, reqs, certs, issuing, session>>
client == <<stage, current, pending, mem>>
vars == <<controller, restarts, client>>

Init ==
  /\ node = "none" /\ project = TRUE
  /\ reqs = [r \in Reqs |-> None] /\ certs = [c \in Certs |-> None]
  /\ issuing = [r \in Reqs |-> None] /\ session = None /\ restarts = 0
  /\ stage = "none" /\ current = None /\ pending = None /\ mem = None

-----------------------------------------------------------------------------
(* Records *)

Row(base) == [base |-> base, status |-> "awaiting_approval", live |-> TRUE, rev |-> 1, cert |-> None]

(* Expired rows are deleted before new ones are written. *)
prune(rs, cs) ==
  <<[r \in Reqs |-> IF rs[r] # None /\ ~rs[r].live THEN None ELSE rs[r]],
    [c \in Certs |-> IF cs[c] # None /\ ~cs[c].live THEN None ELSE cs[c]]>>

Kept == prune(reqs, certs)

authenticate(c, states) ==
  /\ c # None /\ certs[c] # None /\ certs[c].live /\ certs[c].status \in states
  /\ node = "claimed" /\ project

invite ==
  /\ node = "none" /\ project /\ node' = "invited"
  /\ UNCHANGED <<project, reqs, certs, issuing, session, restarts, client>>

(* issued: the request is still the one that was begun, and still allowed. *)
Permits(r) ==
  /\ reqs[r] # None /\ reqs[r].rev = issuing[r].rev /\ reqs[r].live
  /\ node = "claimed" /\ project
  /\ reqs[r].base # None => authenticate(reqs[r].base, {"current"})

Begun(rs, r) == [rs EXCEPT ![r].status = "issuing", ![r].rev = @ + 1]

begin_issue(rs, r) ==
  /\ rs[r] # None /\ rs[r].live /\ rs[r].status \in {"awaiting_approval", "failed", "issuing"}
  /\ node = "claimed" /\ project /\ rs[r].rev < MaxRev
  /\ rs[r].base # None => authenticate(rs[r].base, {"current"})
  /\ issuing[r] = None
  /\ reqs' = Begun(rs, r)
  /\ issuing' = [issuing EXCEPT ![r] = [rev |-> rs[r].rev + 1, pc |-> "sign", cert |-> None, good |-> FALSE]]

(* Mutant: a failure is written over whatever the request became. *)
FailedAlways(r) == IF reqs[r] = None THEN reqs ELSE [reqs EXCEPT ![r].status = "failed"]

(* failed: only if nothing else happened to the request. *)
Failed(r) ==
  IF reqs[r] # None /\ reqs[r].rev = issuing[r].rev
  THEN [reqs EXCEPT ![r].status = "failed", ![r].rev = @ + 1] ELSE reqs

-----------------------------------------------------------------------------
(* The controller *)

(* approve: an operator confirms the enrollment's key. *)
approve ==
  /\ begin_issue(reqs, Enroll)
  /\ UNCHANGED <<node, project, certs, session, restarts, client>>

(* Certificates another request or the node already holds. *)
InUse == {current, mem} \cup {issuing[q].cert : q \in {q \in Reqs : issuing[q] # None}}
           \cup (IF pending = None THEN {} ELSE {pending.cert})

(* The authority signs.  What comes back may not be what was asked for. *)
sign(r) ==
  /\ issuing[r] # None /\ issuing[r].pc = "sign"
  /\ \E c \in Certs \ InUse, good \in BOOLEAN :
       /\ certs[c] = None
       /\ issuing' = [issuing EXCEPT ![r].pc = "signed", ![r].cert = c, ![r].good = good]
  /\ UNCHANGED <<node, project, reqs, certs, session, restarts, client>>

(* certificate: the leaf has the request's key, name, use and lifetime. *)
Verified(r) == issuing[r].good

(* The controller has the certificate: it is registered or refused. *)
register(r) ==
  LET c == issuing[r].cert IN
  /\ issuing[r] # None /\ issuing[r].pc = "signed"
  /\ IF Verified(r) /\ Permits(r)
     THEN LET kept == prune(reqs, certs) IN
          /\ certs' = [kept[2] EXCEPT ![c] = [req |-> r, status |-> "pending", live |-> TRUE]]
          /\ reqs' = [kept[1] EXCEPT ![r].status = "issued", ![r].cert = c, ![r].rev = @ + 1]
     ELSE reqs' = Failed(r) /\ UNCHANGED certs
  /\ issuing' = [issuing EXCEPT ![r].pc = "ending"]
  /\ UNCHANGED <<node, project, session, restarts, client>>

(* The authority refuses, answers with something else or is unreachable. *)
sign_fails(r) ==
  /\ issuing[r] # None /\ issuing[r].pc = "sign"
  /\ reqs' = Failed(r) /\ issuing' = [issuing EXCEPT ![r].pc = "ending"]
  /\ UNCHANGED <<node, project, certs, session, restarts, client>>

(* A timeout or a lost permission marks the request at once; what the       *)
(* authority signs afterwards is dropped.                                   *)
issue_timeout(r) ==
  /\ issuing[r] # None /\ issuing[r].pc = "signed"
  /\ reqs' = Failed(r) /\ issuing' = [issuing EXCEPT ![r].pc = "ending"]
  /\ UNCHANGED <<node, project, certs, session, restarts, client>>

(* release: when the authority's thread has ended, a request still as it    *)
(* was begun is failed and the identity may be issued again.                *)
issue_ends(r) ==
  /\ issuing[r] # None /\ issuing[r].pc = "ending"
  /\ reqs' = Failed(r)
  /\ issuing' = [issuing EXCEPT ![r] = None]
  /\ UNCHANGED <<node, project, certs, session, restarts, client>>

(* The channel after certificates were revoked. *)
DroppedChannel == None

Revoke(cs) == [c \in Certs |-> IF c \in cs THEN [certs[c] EXCEPT !.status = "revoked"] ELSE certs[c]]
Held == {c \in Certs : certs[c] # None /\ certs[c].status # "revoked"}

disable ==
  /\ node = "claimed" /\ node' = "disabled"
  /\ certs' = Revoke(Held) /\ session' = DroppedChannel
  /\ UNCHANGED <<project, reqs, issuing, restarts, client>>

remove ==
  /\ node = "disabled" /\ node' = "removed"
  /\ reqs' = [r \in Reqs |-> None] /\ certs' = [c \in Certs |-> None] /\ session' = None
  /\ UNCHANGED <<project, issuing, restarts, client>>

set_project ==
  /\ restarts < MaxRestart /\ restarts' = restarts + 1 /\ project' = ~project
  /\ UNCHANGED <<node, reqs, certs, issuing, session, client>>

(* poll drops a channel whose certificate is no longer active. *)
poll ==
  /\ session # None /\ ~authenticate(session, {"current"})
  /\ session' = None
  /\ UNCHANGED <<node, project, reqs, certs, issuing, restarts, client>>

(* A rotation's request ends no later than its base certificate. *)
expire_request(r) ==
  /\ reqs[r] # None /\ reqs[r].live
  /\ reqs' = [reqs EXCEPT ![r].live = FALSE]
  /\ UNCHANGED <<node, project, certs, issuing, session, restarts, client>>

expire_certificate(c) ==
  /\ certs[c] # None /\ certs[c].live
  /\ \A r \in {q \in Rotations : reqs[q] # None} : reqs[r].base = c => ~reqs[r].live
  /\ certs' = [certs EXCEPT ![c].live = FALSE]
  /\ UNCHANGED <<node, project, reqs, issuing, session, restarts, client>>

restart ==
  /\ restarts < MaxRestart /\ restarts' = restarts + 1
  /\ issuing' = [r \in Reqs |-> None] /\ session' = None
  /\ UNCHANGED <<node, project, reqs, certs, client>>

-----------------------------------------------------------------------------
(* The node *)

(* join: the key and the stage are saved before the claim is sent; the      *)
(* secret works once, so a lost answer is not repeated.                     *)
join ==
  /\ node = "invited" /\ stage = "none" /\ project
  /\ node' = "claimed" /\ pending' = [req |-> Enroll, cert |-> None]
  /\ certs' = Kept[2] /\ reqs' = [Kept[1] EXCEPT ![Enroll] = Row(None)]
  /\ stage' \in {"claiming", "awaiting_approval"}
  /\ UNCHANGED <<project, issuing, session, restarts, current, mem>>

Accepted(p, c) == [p EXCEPT !.cert = c]

(* complete_enrollment: the receipt shows the certificate; it is saved      *)
(* before it is used.                                                       *)
collect ==
  /\ stage = "awaiting_approval" /\ mem = None /\ reqs[Enroll] # None /\ reqs[Enroll].live
  /\ node = "claimed" /\ project /\ reqs[Enroll].status = "issued"
  /\ LET c == reqs[Enroll].cert IN
     /\ certs[c] # None /\ certs[c].status # "revoked" /\ certs[c].live
     /\ pending' = Accepted(pending, c) /\ mem' = c
  /\ UNCHANGED <<controller, restarts, stage, current>>

(* rotate: a new key under a new identifier, saved before it is sent; the   *)
(* client rotates near expiry or on command.                                *)
draw(r) ==
  /\ stage = "active" /\ pending = None
  /\ reqs[r] = None /\ \A c \in {c \in Certs : certs[c] # None} : certs[c].req # r
  /\ pending' = [req |-> r, cert |-> None] /\ mem' = None
  /\ UNCHANGED <<controller, restarts, stage, current>>

(* rotation: the request is found again, or written if no other is open.    *)
Open(r) == \E q \in {q \in Rotations \ {r} : Kept[1][q] # None} :
  /\ reqs[q].status # "failed"
  /\ reqs[q].cert \in {None} \cup {c \in Certs : Kept[2][c] = None}
                     \cup {c \in Certs : certs[c] # None /\ certs[c].status = "pending"}

(* The rows a rotation continues with, expired ones gone. *)
Rows(r) == IF Kept[1][r] = None THEN [Kept[1] EXCEPT ![r] = Row(current)] ELSE Kept[1]

(* The issuance starts in the same call, or is refused for want of a slot   *)
(* or a provider, and the request stays for the next call.                  *)
rotation ==
  /\ stage = "active" /\ pending # None /\ mem = None
  /\ authenticate(current, {"current"})
  /\ LET r == pending.req IN
     /\ Kept[1][r] = None => ~Open(r)
     /\ Rows(r)[r].status # "issued"
     /\ \/ begin_issue(Rows(r), r)
        \/ reqs' = Rows(r) /\ UNCHANGED issuing
  /\ certs' = Kept[2]
  /\ UNCHANGED <<node, project, session, restarts, client>>

(* The answer of a rotation whose certificate is registered. *)
rotated ==
  /\ stage = "active" /\ pending # None /\ mem = None
  /\ authenticate(current, {"current"})
  /\ LET q == reqs[pending.req] IN
     /\ q # None /\ q.live /\ q.status = "issued"
     /\ certs[q.cert] # None /\ certs[q.cert].status = "pending" /\ certs[q.cert].live
     /\ pending' = Accepted(pending, q.cert) /\ mem' = q.cert
  /\ UNCHANGED <<controller, restarts, stage, current>>

(* activate: the pending certificate becomes the only one.  The client      *)
(* promotes it on the answer, which may be lost; asking again is harmless.  *)
Promoted ==
  \/ current' = mem /\ pending' = None /\ mem' = None /\ stage' = "active"
  \/ UNCHANGED <<current, pending, mem, stage>>

activate ==
  /\ mem # None /\ authenticate(mem, {"pending", "current"})
  /\ LET q == reqs[certs[mem].req] IN
     IF certs[mem].status = "current" THEN UNCHANGED <<certs, session>>
     ELSE /\ q # None /\ q.live /\ q.status = "issued"
          /\ q.base # None => authenticate(q.base, {"current"})
          /\ certs' = [Revoke(Held \ {mem}) EXCEPT ![mem].status = "current"]
          /\ session' = IF Held = {mem} THEN session ELSE DroppedChannel
  /\ Promoted
  /\ UNCHANGED <<node, project, reqs, issuing, restarts>>

(* A heartbeat opens or renews the channel with the current certificate;    *)
(* the client sends one only when no rotation is pending.                   *)
heartbeat ==
  /\ stage = "active" /\ pending = None /\ session # current
  /\ authenticate(current, {"current"})
  /\ session' = current
  /\ UNCHANGED <<node, project, reqs, certs, issuing, restarts, client>>

(* The client starts again from node.json. *)
client_restart ==
  /\ restarts < MaxRestart /\ restarts' = restarts + 1
  /\ mem' = IF pending = None THEN None ELSE pending.cert
  /\ UNCHANGED <<controller, stage, current, pending>>

-----------------------------------------------------------------------------
Controller ==
  \/ invite \/ approve \/ disable \/ remove \/ set_project \/ poll \/ restart
  \/ \E r \in Reqs : sign(r) \/ sign_fails(r) \/ register(r) \/ issue_timeout(r) \/ issue_ends(r) \/ expire_request(r)
  \/ \E c \in Certs : expire_certificate(c)

Client ==
  \/ join \/ collect \/ rotation \/ rotated \/ activate \/ heartbeat \/ client_restart
  \/ \E r \in Rotations : draw(r)

Next == Controller \/ Client
Spec == Init /\ [][Next]_vars

-----------------------------------------------------------------------------
TypeOK ==
  /\ node \in {"none", "invited", "claimed", "disabled", "removed"} /\ project \in BOOLEAN
  /\ \A r \in Reqs : reqs[r] # None =>
       /\ reqs[r].status \in {"awaiting_approval", "issuing", "issued", "failed"}
       /\ reqs[r].rev \in 1..(MaxRev + 1) /\ reqs[r].base \in Certs \cup {None} /\ reqs[r].cert \in Certs \cup {None}
       /\ (reqs[r].status = "issued") = (reqs[r].cert # None)
  /\ \A c \in Certs : certs[c] # None => certs[c].req \in Reqs /\ certs[c].status \in {"pending", "current", "revoked"}
  /\ session \in Certs \cup {None} /\ stage \in {"none", "claiming", "awaiting_approval", "active"}
  /\ current \in Certs \cup {None} /\ mem \in Certs \cup {None}

(* The certificate the controller accepts for the node is one the node has  *)
(* on disk with its key: a lost answer, a timeout or a restart on either    *)
(* side never locks the node out.                                           *)
KeyKept == \A c \in Certs :
  certs[c] # None /\ certs[c].status = "current"
    => c = current \/ (pending # None /\ c = pending.cert)

(* A node has at most one current certificate, and a disabled or removed    *)
(* node has none that is not revoked, whatever was being issued meanwhile.  *)
OneAuthority ==
  /\ Cardinality({c \in Certs : certs[c] # None /\ certs[c].status = "current"}) <= 1
  /\ node \in {"disabled", "removed"} => Held = {}

(* A live channel was opened with the certificate that is current: a        *)
(* rotation or a revocation ends the channel of the one before.             *)
ChannelCurrent == session # None =>
  node = "claimed" /\ (certs[session] # None => certs[session].status = "current")

(* A rotation whose certificate the node saved can be activated for as      *)
(* long as the node's current certificate is accepted.                      *)
Resumable ==
  stage = "active" /\ mem # None /\ authenticate(current, {"current"}) /\ authenticate(mem, {"pending"})
    => ENABLED activate
=============================================================================
