-------------------------------- MODULE Windows --------------------------------
(***************************************************************************)
(* rieman's list of windows against a server on which windows come, change *)
(* and go between any two requests (rie_event.c, rie_window.c, rie_xcb.c). *)
(*                                                                         *)
(* The window manager publishes the list; rieman then asks for each window *)
(* one property after the other and subscribes to the window's events.     *)
(* Each request that waits for a reply is a step.  Notifications wait in   *)
(* the FIFO channel of EventLoop (see XChannel) and their handlers read    *)
(* what is true when they run.  A handler and the drawing that follows it  *)
(* are one step (RedrawNotForgotten of EventLoop).                         *)
(*                                                                         *)
(* Names, classes, icons and types of windows are left out: that they      *)
(* cannot be read changes nothing, except for errors that are not about a  *)
(* window that vanished (no memory, a property of a wrong type) and end    *)
(* the program.                                                            *)
(***************************************************************************)
EXTENDS Naturals, Sequences, FiniteSets

CONSTANTS
  Window,     (* the window ids                                             *)
  Number,     (* desktop numbers                                            *)
  Box,        (* places and sizes of windows                                *)
  None,       (* no desktop, no box, no list, no property                   *)
  Nobody,     (* the value of _NET_ACTIVE_WINDOW when no window is active   *)
  Reparents,  (* the window manager puts windows into frames: they are no   *)
              (* children of the root window then                           *)
  EarlyList,  (* the window manager may list a window that has not been     *)
              (* given a desktop yet                                        *)
  MaxChanges  (* changes on the server (bounds the model)                   *)

ASSUME WindowAssumption ==
  /\ IsFiniteSet(Window)
  /\ Number \subseteq Nat /\ 0 \in Number
  /\ None \notin Window \union {Nobody} /\ Nobody \notin Window
  /\ None \notin Number \union Box
  /\ Reparents \in BOOLEAN /\ EarlyList \in BOOLEAN
  /\ MaxChanges \in Nat

VARIABLES
  exists,   (* the windows that exist                                       *)
  desk,     (* _NET_WM_DESKTOP of each window, or None                      *)
  geom,     (* where each window is                                         *)
  hidden,   (* whether _NET_WM_STATE has _NET_WM_STATE_HIDDEN               *)
  clist,    (* _NET_CLIENT_LIST_STACKING, or None: no such property         *)
  active,   (* _NET_ACTIVE_WINDOW, or None: no such property                *)
  subs,     (* the windows whose events rieman has asked for                *)
  notes,    (* events rieman has not handled                                *)
  wins,     (* pager->windows                                               *)
  fwindow,  (* pager->fwindow: the id of the window under the mouse, or None *)
  at,       (* the next request or "loop"                                   *)
  job,      (* the handler that runs: "list", "configure" or "none"         *)
  todo,     (* client_list: the windows to query, the one being queried     *)
            (* first                                                        *)
  built,    (* client_list: winlist, as far as it is filled                 *)
  cur,      (* the window being queried                                     *)
  lost,     (* history: fields that changed after rieman had read them and  *)
            (* before it had asked for events                               *)
  changes   (* history: changes on the server                               *)

server == <<exists, desk, geom, hidden, clist, active, changes>>
query  == <<job, todo, built, cur>>
vars   == <<server, subs, notes, wins, fwindow, at, query, lost>>

Kinds == {"list", "active", "desktop", "state", "configure", "destroy"}

(* A rie_window_t; placed says that sbox has been set by a drawing.        *)
Record == [id : Window, desk : Number, geom : Box \union {None},
           hidden : BOOLEAN, focused : BOOLEAN, dead : BOOLEAN,
           placed : BOOLEAN]

Blank(w) == [id |-> w, desk |-> 0, geom |-> None, hidden |-> FALSE,
             focused |-> FALSE, dead |-> FALSE, placed |-> FALSE]

Listed(q) == {q[i] : i \in DOMAIN q}
Ids(ws)   == [i \in DOMAIN ws |-> ws[i].id]
Managed   == {w \in exists : desk[w] # None}
OnList    == IF clist = None THEN {} ELSE Listed(clist)

(* All sequences of the elements of S, each once.                          *)
Orders(S) == {q \in [1..Cardinality(S) -> S] : Listed(q) = S}

TypeOK ==
  /\ exists \subseteq Window
  /\ desk \in [Window -> Number \union {None}]
  /\ geom \in [Window -> Box]
  /\ hidden \in [Window -> BOOLEAN]
  /\ clist = None \/ clist \in Seq(Window)
  /\ active \in Window \union {Nobody, None}
  /\ subs \subseteq Window
  /\ notes \in Seq([kind : Kinds, win : Window \union {None}])
  /\ wins \in Seq(Record)
  /\ fwindow \in Window \union {None}
  /\ at \in {"start", "loop", "desktop", "geometry", "frame", "subscribe",
             "state", "install"}
  /\ job \in {"none", "list", "configure"}
  /\ todo \in Seq(Window)
  /\ built \in Seq(Record)
  /\ cur \in Record \union {None}
  /\ lost \subseteq Window \X {"desktop", "geometry"}
  /\ changes \in Nat

(* rieman starts while windows exist, with or without a window manager.    *)
Init ==
  /\ exists \in SUBSET Window
  /\ desk \in [Window -> Number \union {None}]
  /\ \A w \in Window : desk[w] # None => w \in exists
  /\ \E b \in Box : geom = [w \in Window |-> b]
  /\ hidden = [w \in Window |-> FALSE]
  /\ clist \in {None} \union Orders(Managed)
  /\ active \in Managed \union {Nobody}
  /\ subs = {} /\ notes = <<>>
  /\ wins = <<>> /\ fwindow = None
  /\ at = "start" /\ job = "none"
  /\ todo = <<>> /\ built = <<>> /\ cur = None
  /\ lost = {} /\ changes = 0

-------------------------------------------------------------------------------
(* The server and the window manager.                                      *)

(* The window manager's list is what exists and is managed.                *)
Settled ==
  /\ clist # None
  /\ Managed \subseteq OnList /\ OnList \subseteq exists
  /\ EarlyList \/ OnList = Managed

(* What rieman is told of a change of w's properties.                      *)
Told(kind, w) == IF w \in subs THEN <<[kind |-> kind, win |-> w]>> ELSE <<>>

(* What it is told of a change of w itself: its root window mask selects   *)
(* the events of children of the root window too.                          *)
ToldTwice(kind, w) ==
  Told(kind, w)
  \o (IF Reparents THEN <<>> ELSE <<[kind |-> kind, win |-> w]>>)

(* The fields of the window being queried that have been read.             *)
ReadOf(w) ==
  CASE at = "geometry" /\ cur.id = w -> {"desktop"}
    [] at \in {"frame", "subscribe"} /\ cur.id = w -> {"desktop", "geometry"}
    [] OTHER -> {}

(* A field of w changes and rieman is told so by the events in tell.       *)
Changed(field, w, tell) ==
  /\ notes' = notes \o tell
  /\ lost' = IF tell = <<>> /\ field \in ReadOf(w)
             THEN lost \union {<<w, field>>} ELSE lost

Change ==
  /\ changes < MaxChanges
  /\ changes' = changes + 1
  /\ UNCHANGED <<wins, fwindow, at, query>>

(* A window is created; its client may have asked for a desktop.  Ids are  *)
(* used again, but not of a window that the window manager still lists.    *)
Create(w) ==
  /\ Change
  /\ w \notin exists /\ w \notin OnList
  /\ exists' = exists \union {w}
  /\ \E d \in Number \union {None} : desk' = [desk EXCEPT ![w] = d]
  /\ UNCHANGED <<geom, hidden, clist, active, subs, notes, lost>>

(* A window is destroyed, and with it what rieman has asked for.           *)
Destroy(w) ==
  /\ Change
  /\ w \in exists
  /\ exists' = exists \ {w}
  /\ desk' = [desk EXCEPT ![w] = None]
  /\ hidden' = [hidden EXCEPT ![w] = FALSE]
  /\ subs' = subs \ {w}
  /\ notes' = notes \o ToldTwice("destroy", w)
  /\ UNCHANGED <<geom, clist, active, lost>>

Move(w) ==
  /\ Change
  /\ w \in exists
  /\ \E b \in Box \ {geom[w]} : geom' = [geom EXCEPT ![w] = b]
  /\ Changed("geometry", w, ToldTwice("configure", w))
  /\ UNCHANGED <<exists, desk, hidden, clist, active, subs>>

(* The window manager gives w a desktop, when it begins to manage it and   *)
(* later.                                                                  *)
SetDesktop(w) ==
  /\ Change
  /\ w \in exists
  /\ EarlyList \/ desk[w] # None \/ w \notin OnList
  /\ \E d \in Number \ {desk[w]} : desk' = [desk EXCEPT ![w] = d]
  /\ Changed("desktop", w, Told("desktop", w))
  /\ UNCHANGED <<exists, geom, hidden, clist, active, subs>>

(* It manages w no longer.                                                 *)
Withdraw(w) ==
  /\ Change
  /\ w \in Managed
  /\ desk' = [desk EXCEPT ![w] = None]
  /\ Changed("desktop", w, Told("desktop", w))
  /\ UNCHANGED <<exists, geom, hidden, clist, active, subs>>

(* A window is hidden, or shown again.                                     *)
Hide(w) ==
  /\ Change
  /\ w \in Managed
  /\ hidden' = [hidden EXCEPT ![w] = ~hidden[w]]
  /\ notes' = notes \o Told("state", w)
  /\ UNCHANGED <<exists, desk, geom, clist, active, subs, lost>>

(* The list is brought up to date, which is no change of its own.          *)
CatchUp ==
  /\ ~Settled
  /\ \E S \in SUBSET exists :
       /\ Managed \subseteq S /\ (EarlyList \/ S = Managed)
       /\ clist' \in Orders(S)
  /\ notes' = Append(notes, [kind |-> "list", win |-> None])
  /\ UNCHANGED <<exists, desk, geom, hidden, active, changes, subs, wins,
                 fwindow, at, query, lost>>

(* It is restacked, or removed by a window manager that exits.             *)
Restack ==
  /\ Change
  /\ clist # None
  /\ clist' \in ({None} \union Orders(OnList)) \ {clist}
  /\ notes' = Append(notes, [kind |-> "list", win |-> None])
  /\ UNCHANGED <<exists, desk, geom, hidden, active, subs, lost>>

(* Another window is active, or none, or the property is removed.          *)
Activate ==
  /\ Change
  /\ active' \in (Managed \union {Nobody, None}) \ {active}
  /\ notes' = Append(notes, [kind |-> "active", win |-> None])
  /\ UNCHANGED <<exists, desk, geom, hidden, clist, subs, lost>>

Server ==
  \/ \E w \in Window : \/ Create(w) \/ Destroy(w) \/ Move(w) \/ SetDesktop(w)
                       \/ Withdraw(w) \/ Hide(w)
  \/ CatchUp \/ Restack
  \/ Activate

-------------------------------------------------------------------------------
(* rieman.                                                                 *)

(* rie_draw_windows(): what is shown has a place on rieman's window.       *)
Drawn(ws) ==
  [i \in DOMAIN ws |-> [ws[i] EXCEPT !.placed = @ \/ ~(ws[i].dead \/ ws[i].hidden)]]

(* rie_window_update_pager_focus(): the pointer may be over the box of any *)
(* window drawn before, whatever has become of the window, or over none.   *)
Under(ws) ==
  {None} \union {ws[i].id : i \in {j \in DOMAIN ws : ws[j].placed /\ ~ws[j].hidden}}

Killed(r) == [r EXCEPT !.dead = TRUE, !.desk = 0]

(* rie_window_lookup() and an assignment to what it finds.                 *)
With(ws, w, F(_)) ==
  [i \in DOMAIN ws |-> IF ws[i].id = w THEN F(ws[i]) ELSE ws[i]]

Known(w) == w \in Listed(Ids(wins))

(* Mutant of Focused: only the window that is active now is touched.       *)
FocusedAdds(ws) ==
  IF active = None THEN ws
  ELSE [i \in DOMAIN ws |-> [ws[i] EXCEPT !.focused = @ \/ ws[i].id = active]]

(* rie_event_active_window(): the flags of all windows; without the        *)
(* property nothing is done.                                               *)
Focused(ws) ==
  IF active = None THEN ws
  ELSE [i \in DOMAIN ws |-> [ws[i] EXCEPT !.focused = ws[i].id = active]]

(* Mutant of ReadList: a list of the same length is taken for the same.    *)
ReadListSame ==
  IF clist = None
  THEN at' = "loop" /\ UNCHANGED query
  ELSE IF at = "loop" /\ Len(clist) = Len(wins)
  THEN UNCHANGED <<at, query>>
  ELSE /\ job' = "list" /\ todo' = clist /\ built' = <<>>
       /\ IF clist = <<>> THEN at' = "install" /\ cur' = None
                          ELSE at' = "desktop" /\ cur' = Blank(Head(clist))

(* rie_event_client_list() begins: it reads the list.  Without the         *)
(* property the windows stay as they are.                                  *)
ReadList ==
  IF clist = None
  THEN at' = "loop" /\ UNCHANGED query
  ELSE /\ job' = "list" /\ todo' = clist /\ built' = <<>>
       /\ IF clist = <<>> THEN at' = "install" /\ cur' = None
                          ELSE at' = "desktop" /\ cur' = Blank(Head(clist))

(* The query of a window is over: the next one, or the end of the handler. *)
Done(r) ==
  \/ /\ job = "list"
     /\ built' = Append(built, r)
     /\ todo' = Tail(todo)
     /\ IF Tail(todo) = <<>>
        THEN at' = "install" /\ cur' = None
        ELSE at' = "desktop" /\ cur' = Blank(Head(Tail(todo)))
     /\ UNCHANGED <<job, wins>>
  \/ /\ job = "configure"
     /\ wins' = Drawn(With(wins, r.id, LAMBDA old : r))
     /\ at' = "loop" /\ job' = "none" /\ cur' = None
     /\ UNCHANGED <<todo, built>>

Proceed(next, r) ==
  /\ at' = next /\ cur' = r
  /\ UNCHANGED <<job, todo, built, wins>>

(* rie_window_query(), one request after the other.  A window that does    *)
(* not exist, or has no desktop, is dead from then on.                     *)
ReadDesktop ==
  /\ at = "desktop"
  /\ IF desk[cur.id] # None
     THEN Proceed("geometry", [cur EXCEPT !.desk = desk[cur.id]])
     ELSE Done(Killed(cur))
  /\ lost' = lost \ {<<cur.id, "desktop">>}
  /\ UNCHANGED <<server, subs, notes, fwindow>>

ReadGeometry ==
  /\ at = "geometry"
  /\ IF cur.id \in exists
     THEN Proceed("frame", [cur EXCEPT !.geom = geom[cur.id]])
     ELSE Done(Killed(cur))
  /\ lost' = lost \ {<<cur.id, "geometry">>}
  /\ UNCHANGED <<server, subs, notes, fwindow>>

ReadFrame ==
  /\ at = "frame"
  /\ IF cur.id \in exists THEN Proceed("subscribe", cur) ELSE Done(Killed(cur))
  /\ UNCHANGED <<server, subs, notes, fwindow, lost>>

(* Mutant of Subscribe: client_list does not subscribe.                    *)
SubscribeLater ==
  /\ at = "subscribe"
  /\ subs' = IF job = "list" THEN subs ELSE subs \union ({cur.id} \intersect exists)
  /\ IF job = "list" THEN Proceed("state", cur) ELSE Done(cur)
  /\ UNCHANGED <<server, notes, fwindow, lost>>

(* rie_xcb_update_event_mask(); that the window does not exist is ignored. *)
Subscribe ==
  /\ at = "subscribe"
  /\ subs' = subs \union ({cur.id} \intersect exists)
  /\ IF job = "list" THEN Proceed("state", cur) ELSE Done(cur)
  /\ UNCHANGED <<server, notes, fwindow, lost>>

(* rie_event_client_list() reads the state after the query.                *)
ReadState ==
  /\ at = "state"
  /\ Done([cur EXCEPT !.hidden = hidden[cur.id]])
  /\ UNCHANGED <<server, subs, notes, fwindow, lost>>

(* Mutant of Install: pager->fwindow is not reset.                         *)
InstallKeepsFocus ==
  /\ at = "install"
  /\ wins' = Drawn(Focused(built))
  /\ UNCHANGED fwindow
  /\ at' = "loop" /\ job' = "none" /\ built' = <<>>
  /\ UNCHANGED <<server, subs, notes, lost, todo, cur>>

(* The new list replaces the old one.  Its windows have no boxes yet when  *)
(* the one under the mouse is looked for.                                  *)
Install ==
  /\ at = "install"
  /\ wins' = Drawn(Focused(built))
  /\ fwindow' = None
  /\ at' = "loop" /\ job' = "none" /\ built' = <<>>
  /\ UNCHANGED <<server, subs, notes, lost, todo, cur>>

(* rie_event_init() reads the list without a notification.                 *)
Start ==
  /\ at = "start"
  /\ ReadList
  /\ UNCHANGED <<server, subs, notes, wins, fwindow, lost>>

Take(kind) ==
  /\ at = "loop" /\ notes # <<>>
  /\ Head(notes).kind = kind
  /\ notes' = Tail(notes)

HandleList ==
  /\ Take("list")
  /\ ReadList
  /\ UNCHANGED <<server, subs, wins, fwindow, lost>>

(* Mutant of HandleConfigure: the window is drawn but not queried.         *)
ConfigureRedraws ==
  /\ Take("configure")
  /\ wins' = Drawn(wins)
  /\ UNCHANGED <<server, subs, fwindow, at, query, lost>>

(* rie_event_xcb_configure_notify(): the window is queried anew.           *)
HandleConfigure ==
  /\ Take("configure")
  /\ LET w == Head(notes).win
     IN  \/ ~Known(w) /\ UNCHANGED <<at, query>>
         \/ \E i \in DOMAIN wins :
              /\ wins[i].id = w
              /\ at' = "desktop" /\ job' = "configure" /\ cur' = wins[i]
              /\ UNCHANGED <<todo, built>>
  /\ UNCHANGED <<server, subs, wins, fwindow, lost>>

(* rie_event_xcb_destroy_notify(): nothing is drawn.                       *)
HandleDestroy ==
  /\ Take("destroy")
  /\ wins' = With(wins, Head(notes).win, Killed)
  /\ UNCHANGED <<server, subs, fwindow, at, query, lost>>

(* rie_event_wm_desktop(): a window without the property is on the first   *)
(* desktop.                                                                *)
HandleDesktop ==
  /\ Take("desktop")
  /\ LET w == Head(notes).win
         Moved(r) == IF r.dead THEN r
                     ELSE [r EXCEPT !.desk = IF desk[w] = None THEN 0 ELSE desk[w]]
     IN  /\ wins' = Drawn(With(wins, w, Moved))
         /\ lost' = lost \ {<<w, "desktop">>}
  /\ UNCHANGED <<server, subs, fwindow, at, query>>

(* rie_event_wm_state()                                                    *)
HandleState ==
  /\ Take("state")
  /\ LET w == Head(notes).win
         Seen(r) == IF r.dead THEN r ELSE [r EXCEPT !.hidden = hidden[w]]
     IN  wins' = Drawn(With(wins, w, Seen))
  /\ UNCHANGED <<server, subs, fwindow, at, query, lost>>

(* rie_event_active_window()                                               *)
HandleActive ==
  /\ Take("active")
  /\ wins' = Drawn(Focused(wins))
  /\ IF active = None THEN UNCHANGED fwindow ELSE fwindow' \in Under(wins)
  /\ UNCHANGED <<server, subs, at, query, lost>>

(* rie_event_xcb_motion_notify() and leave_notify()                        *)
Motion ==
  /\ at = "loop"
  /\ fwindow' \in Under(wins)
  /\ UNCHANGED <<server, subs, notes, wins, at, query, lost>>

Pager ==
  \/ Start
  \/ ReadDesktop \/ ReadGeometry \/ ReadFrame \/ Subscribe \/ ReadState
  \/ Install
  \/ HandleList \/ HandleConfigure \/ HandleDestroy \/ HandleDesktop
  \/ HandleState \/ HandleActive

Next == Server \/ Pager \/ Motion

Spec == Init /\ [][Next]_vars

-------------------------------------------------------------------------------
Quiet == at = "loop" /\ notes = <<>> /\ Settled

(***************************************************************************)
(* Once everything has been handled, rieman has exactly the windows of the *)
(* list, in its order, and takes none of them for dead, whatever came and  *)
(* went, and whatever ids were used again, while it asked.                 *)
(***************************************************************************)
ListFollows ==
  Quiet => Ids(wins) = clist /\ \A i \in DOMAIN wins : ~wins[i].dead

(***************************************************************************)
(* And it knows which of them are hidden: the state is read after the      *)
(* subscription, so no change is missed.                                   *)
(***************************************************************************)
StateFollows ==
  Quiet => \A i \in DOMAIN wins :
             ~wins[i].dead => wins[i].hidden = hidden[wins[i].id]

(***************************************************************************)
(* The desktop and the box of each window are the true ones, unless they   *)
(* changed in the moment between the read and the subscription of the same *)
(* query.                                                                  *)
(***************************************************************************)
FieldsFollow ==
  Quiet => \A i \in DOMAIN wins :
             LET w == wins[i].id
             IN  ~wins[i].dead =>
                   /\ <<w, "desktop">> \in lost \/ wins[i].desk = desk[w]
                   /\ <<w, "geometry">> \in lost \/ wins[i].geom = geom[w]

(***************************************************************************)
(* pager->fwindow never points into a list that has been freed.            *)
(***************************************************************************)
FwindowListed == fwindow # None => Known(fwindow)

(***************************************************************************)
(* "only single window can be focused", and once everything has been       *)
(* handled it is the active one.                                           *)
(***************************************************************************)
ActiveFollows ==
  /\ \A i, j \in DOMAIN wins : wins[i].focused /\ wins[j].focused => i = j
  /\ Quiet /\ active # None =>
       \A i \in DOMAIN wins : wins[i].focused <=> wins[i].id = active

(***************************************************************************)
(* A window that exists and is listed is shown on the desktop it has, even *)
(* if it had "no yet desktop assigned" when it was listed.                 *)
(***************************************************************************)
ListedShown ==
  Quiet => \A i \in DOMAIN wins : wins[i].id \in Managed => ~wins[i].dead

(***************************************************************************)
(* A destroyed window is ignored: it is not the window a click would ask   *)
(* the window manager to activate.                                         *)
(***************************************************************************)
DeadIgnored ==
  fwindow # None => \A i \in DOMAIN wins : wins[i].id = fwindow => ~wins[i].dead
===============================================================================
