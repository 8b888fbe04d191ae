----------------------------- MODULE Workspaces -----------------------------
(***************************************************************************)
(* Saved workspaces, the views that lay out their panels and the surfaces  *)
(* that tile views.  A client saves or removes what it read with the       *)
(* revision it read; the store refuses any other revision.  Every          *)
(* operation holds the store's lock and is one transaction.                *)
(*                                                                         *)
(* Content is the set of panels or tiles a record names, and the number of *)
(* the write that made it, which no client sees.                           *)
(***************************************************************************)
EXTENDS Naturals, FiniteSets

CONSTANTS
    Space, Panel, View, Surface,
    Client,      \* windows with a copy of what they read
    Subject,     \* owners of views and surfaces, in one project
    Owner,       \* Client -> Subject
    MaxViews,    \* saved views: 256 in the code
    MaxWrite,    \* bound: writes
    None

VARIABLES
    space,     \* Space -> [rev, panels, stamp], or None
    view,      \* View -> [ws, owner, rev, panels, stamp], or None
    surface,   \* Surface -> [owner, rev, tiles, stamp], or None
    copy,      \* Client -> what it last read: [kind, id, rev, stamp], or None
    made,      \* workspaces created so far: identities are random
    now,       \* writes so far
    lost       \* kinds of record a save replaced that its client had not read

vars == <<space, view, surface, copy, made, now, lost>>

Tile == [ws : Space, view : View]

Init ==
    /\ space = [s \in Space |-> None] /\ view = [v \in View |-> None] /\ surface = [f \in Surface |-> None]
    /\ copy = [c \in Client |-> None] /\ made = {} /\ now = 0 /\ lost = {}

Spaces == {s \in Space : space[s] # None}
Views == {v \in View : view[v] # None}
Surfaces == {f \in Surface : surface[f] # None}
Write == now < MaxWrite /\ now' = now + 1

(* What was never saved reads as revision 0. *)
Rev(r) == IF r = None THEN 0 ELSE r.rev
Stamp(r) == IF r = None THEN 0 ELSE r.stamp

(* revision(): the client read this revision. *)
Revision(c, kind, id, r) ==
    /\ copy[c] # None /\ copy[c].kind = kind /\ copy[c].id = id /\ copy[c].rev = Rev(r)
    /\ lost' = IF copy[c].stamp = Stamp(r) THEN lost ELSE lost \cup {kind}

Hold(c, kind, id, r) == copy' = [copy EXCEPT ![c] = [kind |-> kind, id |-> id, rev |-> Rev(r), stamp |-> Stamp(r)]]

-----------------------------------------------------------------------------
(* Reads.                                                                   *)

Get(c, s) == s \in Spaces /\ Hold(c, "space", s, space[s]) /\ UNCHANGED <<space, view, surface, made, now, lost>>

(* A view belongs to a subject and a workspace. *)
Own(c, s, v) == s \in Spaces /\ (IF view[v] = None THEN TRUE ELSE view[v].owner = Owner[c] /\ view[v].ws = s)

GetView(c, s, v) ==
    Own(c, s, v) /\ Hold(c, "view", v, view[v]) /\ UNCHANGED <<space, view, surface, made, now, lost>>

OwnSurface(c, f) == IF surface[f] = None THEN TRUE ELSE surface[f].owner = Owner[c]

GetSurface(c, f) ==
    OwnSurface(c, f) /\ Hold(c, "surface", f, surface[f]) /\ UNCHANGED <<space, view, surface, made, now, lost>>

-----------------------------------------------------------------------------
(* Workspaces.                                                              *)

Create ==
    /\ made # Space /\ Write
    /\ LET s == CHOOSE s \in Space : s \notin made IN
       /\ space' = [space EXCEPT ![s] = [rev |-> 0, panels |-> {}, stamp |-> now']] /\ made' = made \cup {s}
    /\ UNCHANGED <<view, surface, copy, lost>>

(* Panels of the other workspaces. *)
Elsewhere(s) == UNION {space[o].panels : o \in Spaces \ {s}}

(* A layout that names a removed panel is emptied. *)
Cleared(s, removed) ==
    [v \in View |->
        IF v \notin Views THEN None
        ELSE IF view[v].ws = s /\ view[v].panels \cap removed # {}
        THEN [view[v] EXCEPT !.panels = {}, !.rev = @ + 1, !.stamp = now + 1] ELSE view[v]]

(* update(), also for a panel's saved state. *)
Update(c, s, panels) ==
    /\ s \in Spaces /\ Revision(c, "space", s, space[s]) /\ panels \cap Elsewhere(s) = {} /\ Write
    /\ space' = [space EXCEPT ![s] = [rev |-> @.rev + 1, panels |-> panels, stamp |-> now']]
    /\ view' = Cleared(s, space[s].panels \ panels) /\ Hold(c, "space", s, space'[s])
    /\ UNCHANGED <<surface, made>>

(* Surfaces without the tiles of a workspace. *)
Retained(s) ==
    [f \in Surface |->
        IF f \notin Surfaces THEN None
        ELSE IF \E t \in surface[f].tiles : t.ws = s
        THEN [surface[f] EXCEPT !.tiles = {t \in @ : t.ws # s}, !.rev = @ + 1, !.stamp = now + 1] ELSE surface[f]]

Delete(c, s) ==
    /\ s \in Spaces /\ Revision(c, "space", s, space[s]) /\ Write
    /\ space' = [space EXCEPT ![s] = None] /\ surface' = Retained(s)
    /\ view' = [v \in View |-> IF v \in Views THEN (IF view[v].ws = s THEN None ELSE view[v]) ELSE None]
    /\ copy' = [copy EXCEPT ![c] = None] /\ UNCHANGED made

-----------------------------------------------------------------------------
(* Views and surfaces.                                                      *)

SaveView(c, s, v, panels) ==
    /\ Own(c, s, v) /\ Revision(c, "view", v, view[v]) /\ panels \subseteq space[s].panels
    /\ v \in Views \/ Cardinality(Views) < MaxViews
    /\ Write
    /\ view' = [view EXCEPT ![v] = [ws |-> s, owner |-> Owner[c], rev |-> Rev(view[v]) + 1, panels |-> panels, stamp |-> now']]
    /\ Hold(c, "view", v, view'[v]) /\ UNCHANGED <<space, surface, made>>

(* A surface of this subject shows the view. *)
Shown(c, v) == \E f \in Surfaces : surface[f].owner = Owner[c] /\ \E t \in surface[f].tiles : t.view = v

DeleteView(c, s, v) ==
    /\ Own(c, s, v) /\ v \in Views /\ Revision(c, "view", v, view[v]) /\ ~Shown(c, v) /\ Write
    /\ view' = [view EXCEPT ![v] = None] /\ copy' = [copy EXCEPT ![c] = None] /\ UNCHANGED <<space, surface, made>>

(* A tile reserves its view when that was not saved before. *)
SaveSurface(c, f, tiles) ==
    /\ OwnSurface(c, f) /\ Revision(c, "surface", f, surface[f]) /\ \A t \in tiles : Own(c, t.ws, t.view)
    /\ \A t, u \in tiles : t.view = u.view => t.ws = u.ws
    /\ Cardinality(Views \cup {t.view : t \in tiles}) <= MaxViews
    /\ Write
    /\ view' = [v \in View |->
          IF view[v] = None /\ \E t \in tiles : t.view = v
          THEN [ws |-> (CHOOSE t \in tiles : t.view = v).ws, owner |-> Owner[c], rev |-> 0, panels |-> {}, stamp |-> 0]
          ELSE view[v]]
    /\ surface' = [surface EXCEPT ![f] = [owner |-> Owner[c], rev |-> Rev(surface[f]) + 1, tiles |-> tiles, stamp |-> now']]
    /\ Hold(c, "surface", f, surface'[f]) /\ UNCHANGED <<space, made>>

DeleteSurface(c, f) ==
    /\ f \in Surfaces /\ OwnSurface(c, f) /\ Revision(c, "surface", f, surface[f]) /\ Write
    /\ surface' = [surface EXCEPT ![f] = None] /\ copy' = [copy EXCEPT ![c] = None] /\ UNCHANGED <<space, view, made>>

Next ==
    \/ Create
    \/ \E c \in Client :
          \/ \E s \in Space : \/ Get(c, s) \/ Delete(c, s) \/ \E p \in SUBSET Panel : Update(c, s, p)
                              \/ \E v \in View : \/ GetView(c, s, v) \/ DeleteView(c, s, v)
                                                 \/ \E p \in SUBSET Panel : SaveView(c, s, v, p)
          \/ \E f \in Surface : \/ GetSurface(c, f) \/ DeleteSurface(c, f)
                                \/ \E t \in SUBSET Tile : SaveSurface(c, f, t)

Spec == Init /\ [][Next]_vars

-----------------------------------------------------------------------------
TypeOK ==
    /\ space \in [Space -> [rev : 0..MaxWrite, panels : SUBSET Panel, stamp : 0..MaxWrite] \cup {None}]
    /\ \A v \in Views : view[v].ws \in Space /\ view[v].owner \in Subject /\ view[v].rev \in 0..MaxWrite
    /\ \A f \in Surfaces : surface[f].owner \in Subject /\ surface[f].tiles \subseteq Tile
    /\ Spaces \subseteq made /\ Cardinality(Views) <= MaxViews /\ lost \subseteq {"space", "view", "surface"}

(* A tile shows a view that is saved, for the workspace it says and for the *)
(* owner of the surface, whatever was removed and saved again meanwhile.    *)
TilesBacked ==
    \A f \in Surfaces : \A t \in surface[f].tiles :
        /\ t.ws \in Spaces /\ t.view \in Views
        /\ t.view \in Views => view[t.view].ws = t.ws /\ view[t.view].owner = surface[f].owner

(* A layout names panels of its workspace only. *)
PanelsKnown == \A v \in Views : view[v].ws \in Spaces /\ (view[v].ws \in Spaces => view[v].panels \subseteq space[view[v].ws].panels)

(* A panel is in one workspace, so the authority found for it is that one's. *)
OnePlace == \A s, o \in Spaces : s # o => space[s].panels \cap space[o].panels = {}

(* No save or removal of a workspace replaces what its client had not read. *)
SpaceKept == "space" \notin lost
=============================================================================
