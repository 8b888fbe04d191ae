-------------------------------- MODULE Access --------------------------------
(***************************************************************************)
(* Credentials, project membership and external sign-in.                   *)
(*                                                                         *)
(* A credential authorises what its subject's current membership of its    *)
(* project still permits.  Sessions may be switched to another project,    *)
(* which rotates the credential.  External sessions are bound in memory to *)
(* a handle of the identity provider; a poll renews every handle's short   *)
(* lease in a worker thread, revokes what is refused and has the provider  *)
(* forget the handles of sessions that ended.                              *)
(* Everything that reads or writes the tables does so under the store's    *)
(* lock; the provider is called between two such sections.                 *)
(***************************************************************************)
EXTENDS Naturals, FiniteSets

CONSTANTS
    User, Project, Scope,
    Cred,      \* the identities credentials may take
    Kinds,     \* the kinds issued locally: bootstrap, session, token
    MaxCred,   \* the credential limit
    Login,     \* browser sign-ins
    Handle,    \* provider sessions
    MaxSave,   \* bound: saves of the external identity's approval
    MaxVoid,   \* bound: withdrawals of access
    MaxRestart,\* bound: controller restarts
    None

VARIABLES
    users, projects, \* the enabled identities and projects
    mem,      \* <<user, project>> -> its scopes, {} without membership
    map,      \* the external identity's approval: [subj, on, ver]
    cred,     \* Cred -> the stored credential, or None
    bind,     \* Cred -> the handle its external session is bound to, or None
    snap,     \* Handle -> the revision of the approval it was bound under
    lease,    \* the handles whose verification lease has not run out
    retired,  \* handles whose sessions ended, not yet forgotten
    login,    \* Login -> [pc, h]
    poll,     \* the poll between two locked sections: [pc, sel, ok]
    sess,     \* the sessions the provider holds tokens of
    ended,    \* sessions the issuer has ended
    forgot,   \* handles the provider was told to forget
    void,     \* credentials whose access was withdrawn
    count     \* [void, restart]: what the bounds limit

tables == <<users, projects, mem, map>>
remote == <<bind, snap, lease, retired, login, poll>>
provider == <<sess, ended, forgot>>
vars == <<tables, cred, remote, provider, void, count>>

Stored == {c \in Cred : cred[c] # None}
Bound == {c \in Cred : bind[c] # None}
Idle == [pc |-> "idle", sel |-> {}, ok |-> {}, done |-> {}]
Live(c) == cred[c].ttl > 0   \* the stored expiry has not passed

Init ==
    /\ users = User /\ projects = Project
    /\ mem = [k \in User \X Project |-> {}]
    /\ map = [subj |-> None, on |-> FALSE, ver |-> 0]
    /\ cred = [c \in Cred |-> None]
    /\ bind = [c \in Cred |-> None] /\ snap = [h \in Handle |-> 0] /\ lease = {}
    /\ retired = {} /\ login = [l \in Login |-> [pc |-> "none", h |-> None]] /\ poll = Idle
    /\ sess = {} /\ ended = {} /\ forgot = {} /\ void = {} /\ count = [void |-> 0, restart |-> 0]

-----------------------------------------------------------------------------
(* What a credential permits.                                               *)

Access(u, p) == IF u \in users /\ p \in projects THEN mem[<<u, p>>] ELSE {}

(* RemoteAuth.check: a live lease under the unchanged, enabled approval. *)
Check(c, u) == /\ bind[c] # None /\ bind[c] \in lease /\ snap[bind[c]] = map.ver /\ map.on /\ map.subj = u

(* Auth.current: stored, not expired, subject and project enabled, a member, *)
(* and for external sessions a current external authority.                   *)
Current(c) == /\ cred[c] # None /\ Live(c) /\ cred[c].kind # "bootstrap"
              /\ Access(cred[c].subj, cred[c].proj) # {}
              /\ cred[c].kind = "remote" => Check(c, cred[c].subj)
Effective(c) == cred[c].scopes \cap Access(cred[c].subj, cred[c].proj)

Fresh == Cred \ (Stored \cup Bound)
Kept == {c \in Stored : Live(c)}

(* Auth.issue: within current access; expired rows go, the rest are counted. *)
New(c, u, p, S, kind) ==
    /\ c \in Fresh /\ S # {} /\ S \subseteq Access(u, p) /\ Cardinality(Kept) < MaxCred
    /\ cred' = [e \in Cred |->
          IF e = c THEN [subj |-> u, proj |-> p, scopes |-> S, kind |-> kind, ttl |-> 1, age |-> 0, ceiling |-> S]
          ELSE IF e \in Kept THEN cred[e] ELSE None]
    /\ void' = void \ {c}

(* Auth.issue for a local session, token or bootstrap secret. *)
Issue(c, u, p, S, kind) ==
    /\ New(c, u, p, S, kind)
    /\ UNCHANGED <<tables, remote, provider, count>>

(* A bootstrap secret is consumed and answered with a session. *)
Consume(c, d) ==
    /\ c \in Stored /\ cred[c].kind = "bootstrap" /\ Live(c) /\ d \in Fresh
    /\ LET k == cred[c]
           S == k.scopes \cap Access(k.subj, k.proj)
       IN /\ S # {}
          /\ cred' = [cred EXCEPT ![c] = None, ![d] = [k EXCEPT !.kind = "session", !.scopes = S,
                                                         !.ttl = 1, !.age = 0, !.ceiling = S]]
    /\ void' = void \ {d}
    /\ UNCHANGED <<tables, remote, provider, count>>

(* The handle of a removed binding is kept to be forgotten. *)
Unbound(S) == /\ bind' = [c \in Cred |-> IF c \in S THEN None ELSE bind[c]]
              /\ retired' = retired \cup {bind[c] : c \in S \cap Bound}

(* Auth.revoke: sign-out and revocation. *)
Revoke(c) ==
    /\ c \in Stored
    /\ cred' = [cred EXCEPT ![c] = None] /\ Unbound({c})
    /\ UNCHANGED <<tables, snap, lease, login, poll, provider, void, count>>

(* RemoteAuth.rotate moves the binding. *)
Moved(c, d) == [bind EXCEPT ![d] = bind[c], ![c] = None]

(* The new credential replaces the one it was rotated from. *)
Replace(c, d, p, S, ttl, bound) ==
    /\ Current(c) /\ cred[c].kind \in {"session", "remote"} /\ d \in Fresh
    /\ Access(cred[c].subj, p) # {}
    /\ cred' = [cred EXCEPT ![c] = None, ![d] = [cred[c] EXCEPT !.proj = p, !.scopes = S, !.ttl = ttl]]
    /\ bind' = bound /\ void' = void \ {d}
    /\ UNCHANGED <<tables, snap, lease, retired, login, poll, provider, count>>

Granted(c, p) == IF cred[c].kind = "remote" THEN Access(cred[c].subj, p) ELSE cred[c].scopes

(* Auth.switch_project: the credential is rotated with its expiry; a local   *)
(* session keeps its scopes, an external one takes those of the project.     *)
Switch(c, d, p) == c \in Stored /\ Replace(c, d, p, Granted(c, p), cred[c].ttl, Moved(c, d))

Expire(c) ==
    /\ c \in Stored /\ Live(c) /\ cred[c].age = 0
    /\ cred' = [cred EXCEPT ![c].ttl = @ - 1, ![c].age = @ + 1]
    /\ UNCHANGED <<tables, remote, provider, void, count>>

-----------------------------------------------------------------------------
(* Administration.                                                          *)

(* Withdrawn access: the credentials concerned are deleted, and noted. *)
Dropped(S) == cred' = [c \in Cred |-> IF c \in S THEN None ELSE cred[c]]
Withdraw(S) == void' = void \cup S /\ count' = [count EXCEPT !.void = @ + 1]

UpdateUser(u) ==
    /\ users' = IF u \in users THEN users \ {u} ELSE users \cup {u}
    /\ LET S == {c \in Stored : cred[c].subj = u}
       IN IF u \in users THEN count.void < MaxVoid /\ Withdraw(S) /\ Dropped(S)
          ELSE UNCHANGED <<void, cred, count>>
    /\ UNCHANGED <<projects, mem, map, remote, provider>>

UpdateProject(p) ==
    /\ projects' = IF p \in projects THEN projects \ {p} ELSE projects \cup {p}
    /\ LET S == {c \in Stored : cred[c].proj = p}
       IN IF p \in projects THEN count.void < MaxVoid /\ Withdraw(S) /\ Dropped(S)
          ELSE UNCHANGED <<void, cred, count>>
    /\ UNCHANGED <<users, mem, map, remote, provider>>

(* An empty membership revokes; restoring it later revives nothing. *)
Membership(u, p, S) ==
    /\ mem[<<u, p>>] # S
    /\ mem' = [mem EXCEPT ![<<u, p>>] = S]
    /\ LET lost == {c \in Stored : cred[c].subj = u /\ cred[c].proj = p}
       IN IF S = {} THEN count.void < MaxVoid /\ Withdraw(lost) /\ Dropped(lost)
          ELSE UNCHANGED <<void, cred, count>>
    /\ UNCHANGED <<users, projects, map, remote, provider>>

(* ExternalIdentities.save: every save is a new revision of the approval. *)
SaveMapping(u, on) ==
    /\ map.ver < MaxSave
    /\ map' = [subj |-> u, on |-> on, ver |-> map.ver + 1]
    /\ void' = void \cup {c \in Stored : cred[c].kind = "remote"}
    /\ UNCHANGED <<users, projects, mem, cred, remote, provider, count>>

-----------------------------------------------------------------------------
(* External sign-in.                                                        *)

Begin(l) ==
    /\ login[l].pc = "none"
    /\ login' = [login EXCEPT ![l].pc = "pending"]
    /\ UNCHANGED <<tables, cred, bind, snap, lease, retired, poll, provider, void, count>>

(* The state is taken once; the provider exchanges the code in a thread.     *)
Callback(l) ==
    /\ login[l].pc = "pending"
    /\ login' = [login EXCEPT ![l].pc = "asked"]
    /\ UNCHANGED <<tables, cred, bind, snap, lease, retired, poll, provider, void, count>>

(* Provider.complete: a new session, or a refusal. *)
Exchange(l, h) ==
    /\ login[l].pc = "asked"
    /\ \/ /\ h \notin sess \cup retired \cup poll.sel \cup {bind[c] : c \in Bound}
          /\ sess' = sess \cup {h} /\ ended' = ended \ {h} /\ forgot' = forgot \ {h}
          /\ login' = [login EXCEPT ![l] = [pc |-> "answered", h |-> h]]
       \/ login' = [login EXCEPT ![l].pc = "none"] /\ UNCHANGED provider
    /\ UNCHANGED <<tables, cred, bind, snap, lease, retired, poll, void, count>>

Approved(p) == map.on /\ Access(map.subj, p) # {} /\ Cardinality(Kept) < MaxCred

AdmitWith(l, c, p, kept) ==
    /\ login[l].pc = "answered"
    /\ login' = [login EXCEPT ![l] = [pc |-> "none", h |-> None]]
    /\ IF Approved(p)
       THEN /\ New(c, map.subj, p, Access(map.subj, p), "remote")
            /\ bind' = [bind EXCEPT ![c] = login[l].h] /\ snap' = [snap EXCEPT ![login[l].h] = map.ver]
            /\ lease' = lease \cup {login[l].h}
            /\ UNCHANGED retired
       ELSE retired' = retired \cup kept /\ UNCHANGED <<cred, bind, snap, lease, void>>
    /\ UNCHANGED <<tables, poll, provider, count>>

(* Back under the lock: an approved subject with a project gets a session,   *)
(* otherwise the handle is retired.                                          *)
Admit(l, c, p) == AdmitWith(l, c, p, {login[l].h})

-----------------------------------------------------------------------------
(* The renewal poll.                                                        *)

(* Bindings whose credential no longer authorises are revoked, the others    *)
(* selected for renewal.                                                     *)
PollBegin ==
    /\ poll.pc = "idle"
    /\ LET stale == {c \in Bound : ~Current(c)}
       IN /\ cred' = [c \in Cred |-> IF c \in stale THEN None ELSE cred[c]]
          /\ Unbound(stale)
          /\ poll' = [pc |-> "renew", sel |-> {bind[c] : c \in Bound \ stale}, ok |-> {}, done |-> {}]
    /\ UNCHANGED <<tables, snap, lease, login, provider, void, count>>

(* Provider._renew of one handle: the issuer confirms it, or the session is  *)
(* destroyed.                                                                *)
Renew(h) ==
    /\ poll.pc = "renew" /\ h \in poll.sel \ poll.done
    /\ LET live == {h} \cap (sess \ ended)
       IN /\ poll' = [poll EXCEPT !.done = @ \cup {h}, !.ok = @ \cup live]
          /\ sess' = sess \ ({h} \ live)
    /\ UNCHANGED <<tables, cred, bind, snap, lease, retired, login, ended, forgot, void, count>>

(* The results are applied to the bindings that are still the selected ones: *)
(* a confirmed lease is extended, a refusal revokes the credential.          *)
Renewed ==
    /\ poll.pc = "renew" /\ poll.done = poll.sel
    /\ LET refused == {c \in Bound : bind[c] \in poll.sel \ poll.ok}
       IN /\ cred' = [c \in Cred |-> IF c \in refused THEN None ELSE cred[c]]
          /\ Unbound(refused)
          /\ lease' = lease \cup (poll.ok \cap {bind[c] : c \in Bound})
    /\ poll' = [poll EXCEPT !.pc = "forget"]
    /\ UNCHANGED <<tables, snap, login, provider, void, count>>

(* Retired handles leave the set before the provider is told. *)
ForgetBegin ==
    /\ poll.pc = "forget" /\ retired # {}
    /\ poll' = [poll EXCEPT !.pc = "told", !.sel = retired] /\ retired' = {}
    /\ UNCHANGED <<tables, cred, bind, snap, lease, login, provider, void, count>>

(* Provider.forget removes the tokens before it asks the issuer to revoke. *)
Forget ==
    /\ poll.pc = "told"
    /\ sess' = sess \ poll.sel /\ forgot' = forgot \cup poll.sel
    /\ poll' = [poll EXCEPT !.pc = "forget"]
    /\ UNCHANGED <<tables, cred, bind, snap, lease, retired, login, ended, void, count>>

PollEnd ==
    /\ poll.pc = "forget" /\ retired = {}
    /\ poll' = Idle
    /\ UNCHANGED <<tables, cred, bind, snap, lease, retired, login, provider, void, count>>

(* Time: the lease given at the last verification runs out. *)
Lapse(h) ==
    /\ h \in lease /\ lease' = lease \ {h}
    /\ UNCHANGED <<tables, cred, bind, snap, retired, login, poll, provider, void, count>>

(* The issuer ends a session. *)
IssuerEnds(h) ==
    /\ h \in sess \ ended /\ ended' = ended \cup {h}
    /\ UNCHANGED <<tables, cred, remote, sess, forgot, void, count>>

(* External tokens are memory only: a restart deletes external sessions. *)
Restart ==
    /\ count.restart < MaxRestart /\ count' = [count EXCEPT !.restart = @ + 1]
    /\ cred' = [c \in Cred |-> IF c \in Stored /\ cred[c].kind = "remote" THEN None ELSE cred[c]]
    /\ bind' = [c \in Cred |-> None] /\ lease' = {} /\ retired' = {} /\ poll' = Idle
    /\ login' = [l \in Login |-> [pc |-> "none", h |-> None]] /\ forgot' = forgot \cup sess /\ sess' = {}
    /\ UNCHANGED <<tables, snap, ended, void>>

-----------------------------------------------------------------------------
Next ==
    \/ \E c \in Cred, u \in User, p \in Project, S \in SUBSET Scope, k \in Kinds :
          Issue(c, u, p, S, k)
    \/ \E c, d \in Cred : Consume(c, d)
    \/ \E c, d \in Cred, p \in Project : Switch(c, d, p)
    \/ \E c \in Cred : Revoke(c) \/ Expire(c)
    \/ \E u \in User : UpdateUser(u)
    \/ \E p \in Project : UpdateProject(p)
    \/ \E u \in User, p \in Project, S \in SUBSET Scope : Membership(u, p, S)
    \/ \E u \in User, on \in BOOLEAN : SaveMapping(u, on)
    \/ \E l \in Login : Begin(l) \/ Callback(l)
    \/ \E l \in Login, h \in Handle : Exchange(l, h)
    \/ \E l \in Login, c \in Cred, p \in Project : Admit(l, c, p)
    \/ \E h \in Handle : Renew(h) \/ Lapse(h) \/ IssuerEnds(h)
    \/ PollBegin \/ Renewed \/ ForgetBegin \/ Forget \/ PollEnd \/ Restart

Spec == Init /\ [][Next]_vars

-----------------------------------------------------------------------------
(* Every variable has the shape the code gives it. *)
TypeOK ==
    /\ users \subseteq User /\ projects \subseteq Project
    /\ mem \in [User \X Project -> SUBSET Scope]
    /\ \A c \in Stored : cred[c].kind \in {"bootstrap", "session", "token", "remote"} /\ cred[c].ttl \in 0..1
    /\ bind \in [Cred -> Handle \cup {None}] /\ lease \subseteq Handle
    /\ sess \subseteq Handle /\ retired \subseteq Handle
    /\ poll.pc \in {"idle", "renew", "forget", "told"} /\ poll.sel \subseteq Handle

(* Access withdrawn by disabling an identity or a project, by emptying a     *)
(* membership or by saving an external approval is never revived by undoing  *)
(* that (Identities.update, Identities.membership, RemoteAuth.check).        *)
RevokedStays == \A c \in void : ~Current(c)

(* However often a session is switched between projects, it never acts       *)
(* beyond the scopes it was delegated nor after the expiry it was issued     *)
(* with (Auth.switch_project).                                               *)
LineageHeld ==
    \A c \in Stored : Current(c) =>
        /\ cred[c].age = 0
        /\ cred[c].kind # "remote" => Effective(c) \subseteq cred[c].ceiling

(* An external session that still authorises is the only one of its handle,  *)
(* and that handle is neither retired nor forgotten, whatever rotation and   *)
(* renewal overlap (RemoteAuth.rotate, renew, remove).                       *)
HandleOwned ==
    \A c \in {b \in Bound : Current(b)} :
        /\ bind[c] \notin retired \cup forgot
        /\ \A d \in Bound \ {c} : bind[d] # bind[c]

(* Once the issuer has ended a session, no credential may act on it for ever *)
(* (RemoteAuth.poll, RemoteAuth.check).                                      *)
IssuerEnded(h) == h \in ended
Unusable(h) == \A c \in Bound : bind[c] = h => ~Current(c)

(* The tokens of a session that was refused or signed out are discarded      *)
(* (RemoteAuth.complete, Provider.forget).                                   *)
Refused(h) == h \in retired \/ \E l \in Login : login[l].h = h
Discarded(h) == h \notin sess \/ \E c \in Bound : bind[c] = h
=============================================================================
