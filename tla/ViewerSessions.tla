--------------------------- MODULE ViewerSessions ---------------------------
(***************************************************************************)
(* References, tickets and attachments of remote displays.  A module panel *)
(* is issued a reference for a console, a ticket for a reference opens one *)
(* WebSocket, and an attachment runs a provider transport and a native     *)
(* viewer process until one of them ends, the authority behind the         *)
(* reference is lost or the controller shuts down.                         *)
(*                                                                         *)
(* Everything is in memory.  An action is what the event loop does between *)
(* two awaits.                                                             *)
(***************************************************************************)
EXTENDS Naturals, FiniteSets

LOCAL INSTANCE FiniteSetsExt

CONSTANTS
    Ref,        \* references that can be issued
    MaxRefs,    \* references that may exist: 64 in the code
    MaxActive,  \* displays that may be attached: 4
    MaxTickets, \* tickets that may exist: 64
    None

VARIABLES
    issuing,  \* references whose console is being looked up: Viewers.pending
    refs,     \* Ref -> "fresh" or "expired", or "none"
    tickets,  \* Ref -> unused tickets of the reference that have not expired
    active,   \* references with an attachment
    att,      \* Ref -> where the attachment is, or None
    native,   \* references whose native viewer process runs
    provider, \* references whose provider transport runs
    auth,     \* references whose panel, grant and credential are current
    stray,    \* references whose process runs on because its stop was not confirmed
    opened    \* Ref -> displays opened so far

vars == <<issuing, refs, tickets, active, att, native, provider, auth, stray, opened>>

Init ==
    /\ issuing = {} /\ refs = [r \in Ref |-> "none"] /\ tickets = [r \in Ref |-> 0] /\ active = {}
    /\ att = [r \in Ref |-> None] /\ native = {} /\ provider = {} /\ auth = Ref /\ stray = {}
    /\ opened = [r \in Ref |-> 0]

(* Expired references that are not attached are dropped. *)
Known == {r \in Ref : refs[r] # "none"}
Purged == {r \in Ref : refs[r] = "fresh" \/ (refs[r] = "expired" /\ r \in active)}

Kept == [r \in Ref |-> IF r \in Purged THEN refs[r] ELSE "none"]

Held == Cardinality(Purged) + Cardinality(issuing)

(* A reference that was never issued; identities are random. *)
Unissued == {r \in Ref \ (issuing \cup native) : refs[r] = "none" /\ opened[r] = 0 /\ att[r] = None /\ tickets[r] = 0}

-----------------------------------------------------------------------------
Issue ==
    /\ Held < MaxRefs /\ Unissued # {} /\ issuing' = issuing \cup {CHOOSE r \in Unissued : TRUE}
    /\ refs' = Kept /\ UNCHANGED <<tickets, active, att, native, provider, auth, stray, opened>>

(* The console was found, or the provider refused. *)
Issued(r) ==
    /\ r \in issuing /\ issuing' = issuing \ {r}
    /\ \/ r \in auth /\ refs' = [refs EXCEPT ![r] = "fresh"]
       \/ UNCHANGED refs
    /\ UNCHANGED <<tickets, active, att, native, provider, auth, stray, opened>>

Expire(r) ==
    /\ refs[r] = "fresh" /\ refs' = [refs EXCEPT ![r] = "expired"]
    /\ UNCHANGED <<issuing, tickets, active, att, native, provider, auth, stray, opened>>

(* Viewers.current(): an attached reference does not expire. *)
Current(r) == r \in auth /\ (refs[r] = "fresh" \/ (refs[r] = "expired" /\ r \in active))

Ticket(r) ==
    /\ Current(r) /\ r \notin active /\ Cardinality(active) < MaxActive
    /\ MapThenSumSet(LAMBDA q : tickets[q], Ref) < MaxTickets
    /\ tickets' = [tickets EXCEPT ![r] = @ + 1] /\ refs' = Kept
    /\ UNCHANGED <<issuing, active, att, native, provider, auth, stray, opened>>

TicketExpires(r) ==
    /\ tickets[r] > 0 /\ tickets' = [tickets EXCEPT ![r] = @ - 1]
    /\ UNCHANGED <<issuing, refs, active, att, native, provider, auth, stray, opened>>

(* The ticket is used up whether or not the display can be attached. *)
Consume(r) ==
    /\ tickets[r] > 0 /\ tickets' = [tickets EXCEPT ![r] = @ - 1]
    /\ IF Current(r) /\ r \notin active /\ Cardinality(active) < MaxActive
       THEN active' = active \cup {r} /\ att' = [att EXCEPT ![r] = "command"]
       ELSE UNCHANGED <<active, att>>
    /\ UNCHANGED <<issuing, refs, native, provider, auth, stray, opened>>

-----------------------------------------------------------------------------
(* An attachment.  Any of its steps can fail instead.                       *)

(* The transport's arguments are ready; the bridge starts the provider. *)
Provider(r) ==
    /\ att[r] = "command" /\ r \in auth /\ provider' = provider \cup {r}
    /\ att' = [att EXCEPT ![r] = "provider"]
    /\ UNCHANGED <<issuing, refs, tickets, active, native, auth, stray, opened>>

(* The provider answered; the native process is started. *)
Native(r) ==
    /\ att[r] = "provider" /\ r \in auth /\ native' = native \cup {r} /\ att' = [att EXCEPT ![r] = "native"]
    /\ UNCHANGED <<issuing, refs, tickets, active, provider, auth, stray, opened>>

(* Its limits are enforced and it has its configuration. *)
Run(r) ==
    /\ att[r] = "native" /\ r \in auth /\ att' = [att EXCEPT ![r] = "run"]
    /\ opened' = [opened EXCEPT ![r] = @ + 1]
    /\ UNCHANGED <<issuing, refs, tickets, active, native, provider, auth, stray>>

(* A start fails, a task of the bridge ends, or the task is cancelled. *)
Ends(r) ==
    /\ att[r] \in {"command", "provider", "native", "run"} /\ att' = [att EXCEPT ![r] = "close"]
    /\ UNCHANGED <<issuing, refs, tickets, active, native, provider, auth, stray, opened>>

(* The next check fails: at the latest when a start times out or the        *)
(* authority task wakes.                                                    *)
Denied(r) ==
    /\ r \notin auth /\ Ends(r)

(* The service is stopped, or stop_service cannot confirm that (the manager *)
(* does not answer, or the group stays populated): then the unit may run    *)
(* on.  Either way the transport is closed next.                            *)
CloseNative(r) ==
    /\ att[r] = "close" /\ att' = [att EXCEPT ![r] = "transport"]
    /\ \/ native' = native \ {r} /\ UNCHANGED stray
       \/ r \in native /\ stray' = stray \cup {r} /\ UNCHANGED native
    /\ UNCHANGED <<issuing, refs, tickets, active, provider, auth, opened>>

(* Its closed pipes or RuntimeMaxSec end such a unit later. *)
StrayEnds(r) ==
    /\ r \in stray /\ stray' = stray \ {r} /\ native' = native \ {r}
    /\ UNCHANGED <<issuing, refs, tickets, active, att, provider, auth, opened>>

CloseProvider(r) ==
    /\ att[r] = "transport" /\ provider' = provider \ {r} /\ att' = [att EXCEPT ![r] = "closed"]
    /\ UNCHANGED <<issuing, refs, tickets, active, native, auth, stray, opened>>

(* The attachment gives up its slot and its reference. *)
Detach(r) ==
    /\ att[r] = "closed" /\ active' = active \ {r} /\ refs' = [refs EXCEPT ![r] = "none"]
    /\ att' = [att EXCEPT ![r] = None]
    /\ UNCHANGED <<issuing, tickets, native, provider, auth, stray, opened>>

-----------------------------------------------------------------------------
Revoke(r) ==
    /\ r \in auth /\ auth' = auth \ {r}
    /\ UNCHANGED <<issuing, refs, tickets, active, att, native, provider, stray, opened>>

(* Shutdown cancels every attachment and waits for it; the references go    *)
(* with the service.                                                        *)
Close ==
    /\ att' = [r \in Ref |-> IF att[r] \in {"command", "provider", "native", "run"} THEN "close" ELSE att[r]]
    /\ active # {} /\ UNCHANGED <<issuing, refs, tickets, active, native, provider, auth, stray, opened>>

Next ==
    \/ Issue \/ Close
    \/ \E r \in Ref :
          \/ Issued(r) \/ Expire(r) \/ Ticket(r) \/ TicketExpires(r) \/ Consume(r) \/ Revoke(r)
          \/ Provider(r) \/ Native(r) \/ Run(r) \/ Ends(r) \/ Denied(r)
          \/ CloseNative(r) \/ StrayEnds(r) \/ CloseProvider(r) \/ Detach(r)

Spec == Init /\ [][Next]_vars

-----------------------------------------------------------------------------
TypeOK ==
    /\ issuing \subseteq Ref /\ refs \in [Ref -> {"none", "fresh", "expired"}] /\ active \subseteq Known
    /\ tickets \in [Ref -> 0..MaxTickets] /\ stray \subseteq native /\ native \subseteq Ref
    /\ provider \subseteq Ref /\ auth \subseteq Ref
    /\ att \in [Ref -> {None, "command", "provider", "native", "run", "close", "transport", "closed"}]

(* References and lookups in progress together stay within the limit,       *)
(* although a lookup awaits its provider between the check and the entry.   *)
RefsBounded == Cardinality(Purged) + Cardinality(issuing) <= MaxRefs

(* No more provider transports, and native processes whose stop was not     *)
(* left unconfirmed, than displays may be attached, those being cleaned up  *)
(* included.                                                                *)
DisplaysBounded == Cardinality((native \ stray) \cup provider) <= MaxActive

(* A reference opens one display: a second ticket cannot replay it, neither *)
(* while the first is attached nor afterwards.                              *)
DisplayOnce == \A r \in Ref : opened[r] <= 1

(* A display that ended has left no transport behind, although stopping its *)
(* process failed, and no process unless that stop could not be confirmed.  *)
NothingLeft == \A r \in Ref : att[r] \in {None, "closed"} => r \notin (native \ stray) \cup provider

(* Lost authority closes a display and frees its slot. *)
Unauthorized(r) == r \notin auth /\ r \in active
Attached(r) == r \in active
=============================================================================
