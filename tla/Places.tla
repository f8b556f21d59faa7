-------------------------------- MODULE Places --------------------------------
(***************************************************************************)
(* Where things are: the root window, the geometry, workareas, viewports,  *)
(* virtual roots and names of the desktops, the monitor of a subset, and   *)
(* the places of windows that rieman derives from them (rie_event.c,       *)
(* rie_window.c, rie_xcb.c, rie_external.c).                               *)
(*                                                                         *)
(* Only one of the two axes is modelled; the program treats both alike.    *)
(* Requests of a handler are one step with it (Windows takes them apart),  *)
(* and so is the drawing.  Notifications wait in the FIFO channel of       *)
(* EventLoop (see XChannel); their handlers read what is true when they    *)
(* run.                                                                    *)
(***************************************************************************)
EXTENDS Integers, SequencesExt

CONSTANTS
  Window,     (* the window ids                                             *)
  None,       (* no window, no geometry, no output, no names                *)
  MaxDesktop, (* the number of the last desktop                             *)
  Sizes,      (* of the root window, desktops and monitors                  *)
  RootSize,   (* the size of the root window in the beginning               *)
  Areas,      (* the workareas a window manager may set: [x, w] of each     *)
              (* desktop, or none                                           *)
  Views,      (* the viewports it may set: x of each desktop, or none       *)
  Roots,      (* the virtual roots it may set: x of each, or none           *)
  Places,     (* where it puts windows on the screen                        *)
  Names,      (* the names it may give to desktops                          *)
  MaxChanges, (* changes on the server (bounds the model)                   *)
  MaxReloads  (* reloads of the configuration (bounds the model)            *)

Desktop == 0..MaxDesktop

ASSUME PlacesAssumption ==
  /\ IsFiniteSet(Window) /\ None \notin Window \union Sizes \union Names
  /\ MaxDesktop \in Nat
  /\ Sizes \subseteq Nat \ {0} /\ RootSize \in Sizes
  /\ Areas \subseteq Seq([x : Int, w : Nat])
  /\ Views \subseteq Seq(Nat) /\ Roots \subseteq Seq(Nat)
  /\ Places \subseteq Int
  /\ MaxChanges \in Nat /\ MaxReloads \in Nat

VARIABLES
  sroot,   (* the size of the root window                                   *)
  sgeom,   (* _NET_DESKTOP_GEOMETRY, or None                                *)
  sareas,  (* _NET_WORKAREA, or <<>>                                        *)
  sviews,  (* _NET_DESKTOP_VIEWPORT, or <<>>                                *)
  sroots,  (* where each of _NET_VIRTUAL_ROOTS is, or <<>>                  *)
  snames,  (* _NET_DESKTOP_NAMES, or None                                   *)
  soutput, (* the size of the output of subset.output, or None              *)
  exists,  (* the windows that exist                                        *)
  sdesk,   (* the desktop of each window                                    *)
  spos,    (* where each window is on the screen                            *)
  slist,   (* _NET_CLIENT_LIST_STACKING                                     *)
  scroll,  (* what is left of a change of a viewport, or None               *)
  notes,   (* events rieman has not handled                                 *)
  todo,    (* how many handlers rie_event_init() has still to call          *)
  subset,  (* subset.enabled                                                *)
  root,    (* xcb->root_geom                                                *)
  geom,    (* pager->desktop_geom                                           *)
  areas,   (* pager->workareas                                              *)
  views,   (* pager->viewports: [x, col]                                    *)
  roots,   (* pager->virtual_roots; 0 is the place of the real root         *)
  names,   (* pager->desktop_names                                          *)
  monitor, (* pager->monitor_geom; 0 before it is known                     *)
  wins,    (* pager->windows: [id, desk, at (box.x), dead]                  *)
  sized,   (* what the size of the pager was last computed from             *)
  stale,   (* history: windows whose box has not been read since a handler  *)
           (* changed what it is relative to and did not read it            *)
  changes, (* history: changes on the server                                *)
  reloads  (* history: reloads                                              *)

props  == <<sgeom, sareas, sviews, sroots, snames>>
screen == <<sroot, soutput>>
clients == <<exists, sdesk, spos, slist>>
server == <<props, screen, clients, scroll>>
counters == <<changes, reloads>>
known  == <<geom, areas, views, roots, names, monitor>>
pager  == <<subset, root, known, wins, sized, stale>>
vars   == <<server, notes, todo, pager, counters>>

Note(kind, w) == [kind |-> kind, win |-> w]
Listed(q)     == {q[i] : i \in DOMAIN q}

(* rie_array_get(): the first element stands in for those there are not.   *)
ArrayGet(arr, i) == IF i + 1 \in DOMAIN arr THEN arr[i + 1] ELSE arr[1]

(* What a list the window manager did not set stands for.                  *)
OrZero(q) == IF q = <<>> THEN <<0>> ELSE q

Area == IF subset THEN monitor ELSE geom

Unsized == -1

TypeOK ==
  /\ sroot \in Sizes /\ sgeom \in Sizes \union {None}
  /\ sareas \in Areas \union {<<>>} /\ sviews \in Seq(Nat)
  /\ sroots \in Roots \union {<<>>} /\ snames \in Names \union {None}
  /\ soutput \in Sizes \union {None}
  /\ exists \subseteq Window /\ sdesk \in [Window -> Desktop]
  /\ spos \in [Window -> Int] /\ slist \in Seq(Window)
  /\ scroll = None \/ scroll \in [desk : Desktop, by : Int, moving : SUBSET Window,
                                  unset : BOOLEAN]
  /\ subset \in BOOLEAN /\ root \in Sizes
  /\ geom \in Sizes \union {0} /\ monitor \in Sizes \union {0}
  /\ areas \in Seq([x : Int, w : Nat])
  /\ views \in Seq([x : Nat, col : Nat]) /\ roots \in Seq(Nat)
  /\ names \in Names \union {None}
  /\ wins \in Seq([id : Window \union {None}, desk : Desktop, at : Int,
                   dead : BOOLEAN])
  /\ todo = 0 => areas # <<>> /\ views # <<>> /\ roots # <<>>
  /\ stale \subseteq Window

-------------------------------------------------------------------------------
(* The server and the window manager.                                      *)

Change == changes < MaxChanges /\ changes' = changes + 1 /\ UNCHANGED reloads
Tell(kind, w) == notes' = Append(notes, Note(kind, w))

SetGeometry(g) ==
  /\ Change /\ g # sgeom /\ sgeom' = g /\ Tell("geometry", None)
  /\ UNCHANGED <<sareas, sviews, sroots, snames, screen, clients, scroll, todo,
                 pager>>

SetAreas(a) ==
  /\ Change /\ a # sareas /\ sareas' = a /\ Tell("workarea", None)
  /\ UNCHANGED <<sgeom, sviews, sroots, snames, screen, clients, scroll, todo,
                 pager>>

SetRoots(r) ==
  /\ Change /\ r # sroots /\ sroots' = r /\ Tell("roots", None)
  /\ UNCHANGED <<sgeom, sareas, sviews, snames, screen, clients, scroll, todo,
                 pager>>

SetNames(n) ==
  /\ Change /\ n # snames /\ snames' = n /\ Tell("names", None)
  /\ UNCHANGED <<sgeom, sareas, sviews, sroots, screen, clients, scroll, todo,
                 pager>>

(* The output is changed or switched off.                                  *)
SetOutput(s) ==
  /\ subset /\ Change /\ s # soutput /\ soutput' = s /\ Tell("output", None)
  /\ UNCHANGED <<props, sroot, clients, scroll, todo, pager>>

(* The root window is resized.  Its ConfigureNotify goes to those that     *)
(* asked for StructureNotify on it; rieman asks for PropertyChange and     *)
(* SubstructureNotify, which tells it of the root's children.              *)
ResizeRoot(s) ==
  /\ Change /\ s # sroot /\ sroot' = s
  /\ UNCHANGED <<props, soutput, clients, scroll, notes, todo, pager>>

Entry(d) == IF d + 1 \in DOMAIN sviews THEN d + 1 ELSE 1

(* A desktop is scrolled: its windows move on the screen, one by one, and  *)
(* the property is set before, between or after that.                      *)
BeginScroll(d, v) ==
  /\ Change /\ scroll = None /\ sviews # <<>>
  /\ v # ArrayGet(sviews, d)
  /\ scroll' = [desk |-> d, by |-> v - ArrayGet(sviews, d), unset |-> TRUE,
                moving |-> {w \in exists : Entry(sdesk[w]) = Entry(d)}]
  /\ UNCHANGED <<props, screen, clients, notes, todo, pager>>

Scrolled(moving, unset) ==
  scroll' = IF moving = {} /\ ~unset THEN None
            ELSE [scroll EXCEPT !.moving = moving, !.unset = unset]

ScrollWindow(w) ==
  /\ scroll # None /\ w \in scroll.moving
  /\ spos' = [spos EXCEPT ![w] = @ - scroll.by]
  /\ Scrolled(scroll.moving \ {w}, scroll.unset)
  /\ Tell("configure", w)
  /\ UNCHANGED <<props, screen, exists, sdesk, slist, todo, pager, counters>>

ScrollSet ==
  /\ scroll # None /\ scroll.unset
  /\ sviews' = [sviews EXCEPT ![Entry(scroll.desk)] = @ + scroll.by]
  /\ Scrolled(scroll.moving, FALSE)
  /\ Tell("viewport", None)
  /\ UNCHANGED <<sgeom, sareas, sroots, snames, screen, clients, todo, pager, counters>>

(* The property appears or goes, with a window manager.                    *)
SetViews(v) ==
  /\ Change /\ scroll = None /\ v # sviews /\ sviews' = v
  /\ Tell("viewport", None)
  /\ UNCHANGED <<sgeom, sareas, sroots, snames, screen, clients, scroll, todo,
                 pager>>

Move(w, p) ==
  /\ Change /\ scroll = None /\ w \in exists /\ p # spos[w]
  /\ spos' = [spos EXCEPT ![w] = p] /\ Tell("configure", w)
  /\ UNCHANGED <<props, screen, exists, sdesk, slist, scroll, todo, pager>>

Send(w, d) ==
  /\ Change /\ scroll = None /\ w \in exists /\ d # sdesk[w]
  /\ sdesk' = [sdesk EXCEPT ![w] = d] /\ Tell("desktop", w)
  /\ UNCHANGED <<props, screen, exists, spos, slist, scroll, todo, pager>>

(* A window is destroyed; the window manager then removes it from its list. *)
Destroy(w) ==
  /\ Change /\ w \in exists /\ scroll = None
  /\ exists' = exists \ {w} /\ Tell("destroy", w)
  /\ UNCHANGED <<props, screen, sdesk, spos, slist, scroll, todo, pager>>

Unlist ==
  /\ \E i \in DOMAIN slist : /\ slist[i] \notin exists
                             /\ slist' = RemoveAt(slist, i)
  /\ Tell("list", None)
  /\ UNCHANGED <<props, screen, exists, sdesk, spos, scroll, todo, pager, counters>>

Server ==
  \/ \E s \in Sizes \union {None} : SetGeometry(s) \/ SetOutput(s)
  \/ \E s \in Sizes : ResizeRoot(s)
  \/ \E a \in Areas \union {<<>>} : SetAreas(a)
  \/ \E r \in Roots \union {<<>>} : SetRoots(r)
  \/ \E n \in Names : SetNames(n)
  \/ \E v \in Views \union {<<>>} : SetViews(v)
  \/ \E q \in Views : \E v \in Listed(q), d \in Desktop : BeginScroll(d, v)
  \/ ScrollSet \/ Unlist
  \/ \E w \in Window : \/ ScrollWindow(w) \/ Destroy(w)
                       \/ \E p \in Places : Move(w, p)
                       \/ \E d \in Desktop : Send(w, d)

-------------------------------------------------------------------------------
(* rieman reads and draws.  A handler says what it changes of the pager's  *)
(* picture of the screen, and what happens to the windows.                 *)

(* rie_xcb_get_window_geometry(): the place on the screen, relative to the *)
(* virtual root and moved by the viewport of the desktop.                  *)
Box(w, d, vs, rs) == spos[w] - ArrayGet(rs, d) + ArrayGet(vs, d).x

(* Mutant of UpdateGeometry: only windows on the first desktop are read.   *)
UpdateGeometryFirst(ws, vs, rs) ==
  [i \in DOMAIN ws |-> IF ws[i].id \in exists /\ ws[i].desk = 0
                       THEN [ws[i] EXCEPT !.at = Box(ws[i].id, ws[i].desk, vs, rs)]
                       ELSE ws[i]]

(* rie_window_update_geometry(): it ends at the first window that does not *)
(* exist, and the others keep the places they had.                         *)
UpdateGeometry(ws, vs, rs) ==
  [i \in DOMAIN ws |-> IF \A k \in 1..i : ws[k].id \in exists
                       THEN [ws[i] EXCEPT !.at = Box(ws[i].id, ws[i].desk, vs, rs)]
                       ELSE ws[i]]

Updated(ws) == {ws[i].id : i \in {i \in DOMAIN ws :
                                    \A k \in 1..i : ws[k].id \in exists}}
Known(ws)   == {ws[i].id : i \in DOMAIN ws} \ {None}

(* Drawing after pager->resize has been set computes the pager's size;     *)
(* rie_event_init() draws when it has called the other handlers.           *)
Resize ==
  sized' = IF todo' # 0 THEN sized ELSE IF subset THEN monitor' ELSE geom'

(* Mutant of DesktopGeometry: the pager keeps its size.                    *)
DesktopGeometryKept(g) ==
  /\ geom' = g
  /\ UNCHANGED <<areas, views, roots, names, monitor, wins, stale, sized>>

(* rie_event_desktop_geometry(); without the property xdpyinfo is asked    *)
(* for the size of the root window (rie_external_get_desktop_geometry()).  *)
DesktopGeometry(g) ==
  /\ geom' = g
  /\ UNCHANGED <<areas, views, roots, names, monitor, wins, stale>>
  /\ Resize

Measured == IF sgeom = None THEN sroot ELSE sgeom

(* Mutant of Workarea: a list that was set once stays.                     *)
WorkareaOnce ==
  /\ areas' = IF sareas = <<>> \/ areas # <<>> THEN <<[x |-> 0, w |-> geom]>>
              ELSE sareas
  /\ UNCHANGED <<geom, views, roots, names, monitor, wins, stale, sized>>

(* rie_event_workarea(): every desktop is given the first desktop's area.  *)
(* Without the property there is one, the desktop.                         *)
Workarea ==
  /\ areas' = IF sareas = <<>> THEN <<[x |-> 0, w |-> geom]>>
              ELSE [i \in DOMAIN sareas |-> sareas[1]]
  /\ UNCHANGED <<geom, views, roots, names, monitor, wins, stale, sized>>

(* rie_event_desktop_viewport(): "viewport change means all windows        *)
(* changed their coordinates".  Without the property there is one at 0     *)
(* (its column is set to the size of the root), and windows are not read.  *)
Viewport ==
  /\ IF sviews = <<>>
     THEN /\ views' = <<[x |-> 0, col |-> root]>>
          /\ stale' = Known(wins)
          /\ UNCHANGED wins
     ELSE /\ views' = [i \in DOMAIN sviews |->
                         [x |-> sviews[i], col |-> sviews[i] \div root]]
          /\ wins' = UpdateGeometry(wins, views', OrZero(roots))
          /\ stale' = stale \ Updated(wins)
  /\ UNCHANGED <<geom, areas, roots, names, monitor, sized>>

(* rie_event_virtual_roots(): the windows are not read either.             *)
VirtualRoots ==
  /\ roots' = OrZero(sroots)
  /\ stale' = IF roots' # roots THEN Known(wins) ELSE stale
  /\ UNCHANGED <<geom, areas, views, names, monitor, wins, sized>>

(* rie_event_desktop_names(): names that were removed are kept.            *)
DesktopNames ==
  /\ names' = IF snames = None THEN names ELSE snames
  /\ UNCHANGED <<geom, areas, views, roots, monitor, wins, stale, sized>>

(* rie_window_query(): a window that is gone is dead, on desktop 0.        *)
Query(win, w) ==
  IF w \in exists
  THEN [win EXCEPT !.id = w, !.desk = sdesk[w],
                   !.at = Box(w, sdesk[w], views, roots)]
  ELSE [win EXCEPT !.dead = TRUE, !.desk = 0]

Unread == [id |-> None, desk |-> 0, at |-> 0, dead |-> FALSE]

(* rie_event_client_list()                                                 *)
ClientList ==
  /\ wins' = [i \in DOMAIN slist |-> Query(Unread, slist[i])]
  /\ stale' = {}
  /\ UNCHANGED <<known, sized>>

(* rie_event_xcb_randr_notify(), rie_xcb_get_output(): an output that is   *)
(* off changes nothing, or is an error that is ignored.                    *)
Randr ==
  /\ monitor' = IF soutput = None THEN monitor ELSE soutput
  /\ UNCHANGED <<geom, areas, views, roots, names, wins, stale>>
  /\ IF soutput = None THEN UNCHANGED sized ELSE Resize

(* rie_event_init(): the handlers in the order they are called.            *)
InitHandlers == 8

Initialise ==
  /\ todo > 0
  /\ todo' = todo - 1
  /\ CASE todo = 8 -> IF subset THEN Randr ELSE UNCHANGED <<known, wins, sized, stale>>
       [] todo = 7 -> DesktopGeometry(Measured)
       [] todo = 6 -> Workarea
       [] todo = 5 -> Viewport
       [] todo = 4 -> VirtualRoots
       [] todo = 3 -> DesktopNames
       [] todo = 2 -> ClientList
       [] todo = 1 -> UNCHANGED <<known, wins, stale>> /\ Resize
  /\ UNCHANGED <<server, notes, subset, root, counters>>

(* The windows of the list that have this id.                              *)
Found(w) == {i \in DOMAIN wins : wins[i].id = w}
First(S) == CHOOSE i \in S : \A k \in S : i <= k

(* rie_event_xcb_configure_notify() of a window.                           *)
Configure(w) ==
  /\ IF Found(w) = {} THEN UNCHANGED <<wins, stale>>
     ELSE LET i == First(Found(w)) IN
          /\ wins' = [wins EXCEPT ![i] = Query(@, w)]
          /\ stale' = IF w \in exists THEN stale \ {w} ELSE stale
  /\ UNCHANGED <<known, sized>>

(* rie_event_wm_desktop(): the window's place is not read; a window that   *)
(* is gone is on the first desktop.                                        *)
WmDesktop(w) ==
  /\ IF {i \in Found(w) : ~wins[i].dead} = {} THEN UNCHANGED <<wins, stale>>
     ELSE LET i == First(Found(w))
              d == IF w \in exists THEN sdesk[w] ELSE 0
          IN  /\ wins' = [wins EXCEPT ![i].desk = d]
              /\ stale' = IF d # wins[i].desk THEN stale \union {w} ELSE stale
  /\ UNCHANGED <<known, sized>>

(* rie_event_xcb_destroy_notify()                                          *)
Destroyed(w) ==
  /\ IF Found(w) = {} THEN UNCHANGED wins
     ELSE wins' = [wins EXCEPT ![First(Found(w))].dead = TRUE,
                               ![First(Found(w))].desk = 0]
  /\ UNCHANGED <<known, sized, stale>>

(* The handler of the first event.  xdpyinfo may fail, which is an error   *)
(* that is ignored.                                                        *)
Handle ==
  /\ todo = 0 /\ notes # <<>>
  /\ todo' = todo /\ notes' = Tail(notes)
  /\ LET kind == Head(notes).kind
         w == Head(notes).win
     IN  \/ kind = "geometry" /\ DesktopGeometry(Measured)
         \/ kind = "geometry" /\ sgeom = None /\ UNCHANGED <<known, wins, sized, stale>>
         \/ kind = "workarea" /\ Workarea
         \/ kind = "viewport" /\ Viewport
         \/ kind = "roots" /\ VirtualRoots
         \/ kind = "names" /\ DesktopNames
         \/ kind = "list" /\ ClientList
         \/ kind = "output" /\ Randr
         \/ kind = "configure" /\ Configure(w)
         \/ kind = "desktop" /\ WmDesktop(w)
         \/ kind = "destroy" /\ Destroyed(w)
  /\ UNCHANGED <<server, subset, root, counters>>

(* A reload begins with a pager that knows nothing; the connection, and    *)
(* the root's size with it, are kept.                                      *)
Reload ==
  /\ todo = 0 /\ reloads < MaxReloads
  /\ reloads' = reloads + 1
  /\ todo' = InitHandlers
  /\ geom' = 0 /\ areas' = <<>> /\ views' = <<>> /\ roots' = <<>>
  /\ names' = None /\ monitor' = 0 /\ wins' = <<>> /\ stale' = {}
  /\ sized' = Unsized
  /\ UNCHANGED <<server, notes, subset, root, changes>>

(* rieman starts before the window manager or when it has set all it sets. *)
Init ==
  /\ sroot = RootSize /\ sroots = <<>>
  /\ \/ sgeom = None /\ sareas = <<>> /\ sviews = <<>> /\ snames = None
     \/ sgeom = sroot /\ sareas \in Areas /\ sviews \in Views /\ snames \in Names
  /\ subset \in BOOLEAN
  /\ soutput \in {None} \union {s \in {sroot} : subset}
  /\ exists = Window
  /\ sdesk = [w \in Window |-> 0] /\ \E p \in Places : spos = [w \in Window |-> p]
  /\ slist \in {q \in [1..Cardinality(Window) -> Window] : IsInjective(q)}
  /\ scroll = None /\ notes = <<>> /\ todo = InitHandlers
  /\ root = sroot /\ geom = 0 /\ areas = <<>> /\ views = <<>> /\ roots = <<>>
  /\ names = None /\ monitor = 0 /\ wins = <<>> /\ stale = {}
  /\ sized = Unsized /\ changes = 0 /\ reloads = 0

Next == Server \/ Initialise \/ Handle \/ Reload

Spec == Init /\ [][Next]_vars

-------------------------------------------------------------------------------
AtRest == notes = <<>> /\ todo = 0 /\ scroll = None

(* Where a window is on its desktop.                                       *)
TruePlace(w) == spos[w] - ArrayGet(OrZero(sroots), sdesk[w])
                + ArrayGet(OrZero(sviews), sdesk[w])

(* Once everything the window manager said has been handled, rieman knows  *)
(* where windows are on their desktops, in whatever order it moved them    *)
(* and set the viewport, and whatever rieman had read in between.  Not so  *)
(* behind a dead window in the list, nor where a handler has changed what  *)
(* the place is relative to and has not read it.                           *)
WindowsInPlace ==
  AtRest => \A i \in DOMAIN wins :
    (\A k \in 1..i : ~wins[k].dead) /\ wins[i].id \notin stale
      => /\ wins[i].desk = sdesk[wins[i].id]
         /\ wins[i].at = TruePlace(wins[i].id)

(* Once everything has been handled, what rieman knows of the screen is    *)
(* what the window manager and the server say, if they say it, although    *)
(* some of it was read without a notification, and in a reload.  Workareas *)
(* are taken to be the same on all desktops.                               *)
KnownFollows ==
  AtRest =>
    /\ sgeom # None => geom = sgeom
    /\ (sareas # <<>> /\ \A i \in DOMAIN sareas : sareas[i] = sareas[1])
         => \A d \in Desktop : ArrayGet(areas, d) = ArrayGet(sareas, d)
    /\ \A d \in Desktop : /\ ArrayGet(views, d).x = ArrayGet(OrZero(sviews), d)
                          /\ ArrayGet(roots, d) = ArrayGet(OrZero(sroots), d)
    /\ snames # None => names = snames
    /\ subset /\ soutput # None => monitor = soutput

(* The size of the pager's window has been computed from the same area of  *)
(* the screen that windows are scaled to, whenever events are handled.     *)
PagerSized ==
  todo = 0 => sized = Area

(* "StructureNotifyMask is needed to get Configure events to track root    *)
(* window resizes": once everything has been handled, rieman knows the     *)
(* size of the root window, from which it counts viewports.                *)
RootFollows ==
  AtRest => root = sroot
===============================================================================
