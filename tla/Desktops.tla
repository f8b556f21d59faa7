------------------------------- MODULE Desktops -------------------------------
(***************************************************************************)
(* rieman's picture of the virtual desktops: their number, the current one *)
(* and the one under the mouse, the slice of them it shows, and the        *)
(* requests to switch it sends (rie_event.c, rie_render.c, rieman.c).      *)
(*                                                                         *)
(* The window manager owns the properties.  It changes them one at a time  *)
(* and at any moment; each change leaves a notification in the FIFO channel *)
(* of EventLoop (see XChannel), but the handler of a notification reads    *)
(* the property as it is then, not as it was when the notification was     *)
(* sent.  rie_event_init() reads the properties without a notification.    *)
(*                                                                         *)
(* Drawing follows every handler that changes what is drawn before the     *)
(* next event is taken (RedrawNotForgotten of EventLoop), so a handler and *)
(* its drawing are one step.                                               *)
(***************************************************************************)
EXTENDS Grid, Sequences

CONSTANTS
  MaxDesktops, (* the largest number of desktops (bounds the model)         *)
  MaxChanges,  (* changes made by the window manager (bounds the model)     *)
  MaxSwitches, (* switches asked for by the user (bounds the model)         *)
  MaxReloads,  (* reloads of the configuration (bounds the model)           *)
  Configs      (* the configurations that may be loaded                     *)

ASSUME DesktopBounds ==
  /\ MaxDesktops \in Nat \ {0}
  /\ MaxChanges \in Nat
  /\ MaxSwitches \in Nat
  /\ MaxReloads \in Nat

(* [layout.*, subset.*] of a configuration.                                *)
ASSUME ConfigsAssumption ==
  Configs \subseteq [wrap : Nat, horz : BOOLEAN, corner : Corners,
                     subset : BOOLEAN, start : Nat, ndesktops : Nat]

VARIABLES
  wmnum,    (* _NET_NUMBER_OF_DESKTOPS, or 0: the property does not exist   *)
  wmcur,    (* _NET_CURRENT_DESKTOP, or -1: the property does not exist     *)
  owed,     (* the property the window manager has still to bring in line   *)
            (* with the other, or "nothing"                                 *)
  notes,    (* property notifications rieman has not handled                *)
  asked,    (* _NET_CURRENT_DESKTOP messages the manager has not handled    *)
  todo,     (* how many calls rie_event_init() has still to make            *)
  cfg,      (* pager->cfg                                                   *)
  num,      (* pager->desktops.nitems                                       *)
  current,  (* pager->current_desktop                                       *)
  selected, (* pager->selected_desktop                                      *)
  inside,   (* pager->m_in                                                  *)
  view,     (* pager->vdesktops: [first, count]                             *)
  shape,    (* pager->nrows and ncols                                       *)
  cell,     (* lrow and lcol of each of pager->desktops                     *)
  hover,    (* history: the desktop the pointer is over, or -1              *)
  changes,  (* history: changes made by the window manager                  *)
  switches, (* history: switches asked for by the user                      *)
  reloads   (* history: reloads                                             *)

wmvars    == <<wmnum, wmcur, owed, changes>>
drawn     == <<view, shape, cell>>
mousevars == <<selected, inside, hover>>
counters  == <<switches, reloads>>
vars == <<wmvars, notes, asked, todo, cfg, num, current, mousevars, drawn,
          counters>>

Desktop == 0..(MaxDesktops - 1)
Nowhere == [row |-> 0, col |-> 0]
Running == todo = 0

(* rie_event_init() calls the handlers and ends with the drawing; todo     *)
(* counts down the calls, of two passes in a reload.                       *)
Pass == 3
Call(k) == CASE k \in {3, 6} -> "number"
             [] k \in {2, 5} -> "current"
             [] OTHER -> "render"

TypeOK ==
  /\ wmnum \in 0..MaxDesktops
  /\ wmcur \in Desktop \union {-1}
  /\ owed \in {"nothing", "number", "current"}
  /\ notes \in Seq({"number", "current"})
  /\ asked \in Seq(Int)
  /\ todo \in 0..(2 * Pass)
  /\ cfg \in Configs
  /\ num \in 0..MaxDesktops
  /\ current \in Desktop
  /\ selected \in Desktop \union {-1}
  /\ inside \in BOOLEAN
  /\ view \in [first : Nat, count : Nat]
  /\ shape \in [rows : Nat, cols : Nat]
  /\ cell \in [0..(num - 1) -> [row : Int, col : Int]]
  /\ hover \in Desktop \union {-1}
  /\ changes \in Nat
  /\ switches \in Nat
  /\ reloads \in Nat

(* rie_pager_new() and the start of rie_pager_init(): a pager that knows   *)
(* nothing yet.                                                            *)
Fresh(c) ==
  /\ cfg' = c
  /\ num' = 0 /\ current' = 0 /\ selected' = -1
  /\ inside' = FALSE /\ hover' = -1
  /\ view' = [first |-> 0, count |-> 0]
  /\ shape' = [rows |-> 0, cols |-> 0]
  /\ cell' = [i \in 0..-1 |-> Nowhere]

Init ==
  /\ \/ wmnum = 0 /\ wmcur = -1 /\ owed = "number"
     \/ wmnum \in 1..MaxDesktops /\ wmcur \in 0..(wmnum - 1) /\ owed = "nothing"
  /\ notes = <<>> /\ asked = <<>>
  /\ todo = Pass
  /\ cfg \in Configs
  /\ num = 0 /\ current = 0 /\ selected = -1
  /\ inside = FALSE /\ hover = -1
  /\ view = [first |-> 0, count |-> 0]
  /\ shape = [rows |-> 0, cols |-> 0]
  /\ cell = [i \in 0..-1 |-> Nowhere]
  /\ changes = 0 /\ switches = 0 /\ reloads = 0

-------------------------------------------------------------------------------
(* The window manager.  It may announce a smaller number of desktops       *)
(* before the current desktop it implies, or a current desktop before the  *)
(* larger number it implies, and then brings the other property in line.   *)

SetNumber(k) ==
  /\ changes < MaxChanges
  /\ \/ owed = "nothing"
     \/ owed = "number" /\ (wmcur # -1 => k > wmcur)
  /\ wmnum' = k
  /\ owed' = IF wmcur = -1 \/ k <= wmcur THEN "current" ELSE "nothing"
  /\ notes' = Append(notes, "number")
  /\ changes' = changes + 1
  /\ UNCHANGED <<wmcur, asked, todo, cfg, num, current, mousevars, drawn,
                 counters>>

SetCurrent(d) ==
  /\ changes < MaxChanges
  /\ wmnum > 0
  /\ \/ owed = "nothing"
     \/ owed = "current" /\ d < wmnum
  /\ wmcur' = d
  /\ owed' = IF d < wmnum THEN "nothing" ELSE "number"
  /\ notes' = Append(notes, "current")
  /\ changes' = changes + 1
  /\ UNCHANGED <<wmnum, asked, todo, cfg, num, current, mousevars, drawn,
                 counters>>

(* The window manager exits and removes its properties; another may start. *)
Leave ==
  /\ changes < MaxChanges
  /\ owed = "nothing"
  /\ wmnum' = 0 /\ wmcur' = -1
  /\ owed' = "number"
  /\ notes' = Append(Append(notes, "number"), "current")
  /\ changes' = changes + 1
  /\ UNCHANGED <<asked, todo, cfg, num, current, mousevars, drawn, counters>>

(* The window manager obeys a request for a desktop that exists and        *)
(* ignores the others.                                                     *)
Obey ==
  /\ asked # <<>> /\ owed # "current" /\ wmnum > 0
  /\ asked' = Tail(asked)
  /\ IF Head(asked) \in 0..(wmnum - 1)
     THEN /\ wmcur' = Head(asked)
          /\ owed' = "nothing"
          /\ notes' = Append(notes, "current")
     ELSE UNCHANGED <<wmcur, owed, notes>>
  /\ UNCHANGED <<wmnum, changes, todo, cfg, num, current, mousevars, drawn,
                 counters>>

Manager ==
  \/ \E k \in 1..MaxDesktops : SetNumber(k)
  \/ \E d \in Desktop : SetCurrent(d)
  \/ Leave
  \/ Obey

-------------------------------------------------------------------------------
(* Mutant of View: the slice may begin behind the last desktop.            *)
ViewUnshifted(c, n) ==
  IF ~c.subset THEN [first |-> 0, count |-> n]
  ELSE [first |-> c.start,
        count |-> IF c.ndesktops = 0 THEN 1
                  ELSE IF c.ndesktops > n THEN n ELSE c.ndesktops]

(* Mutant of View: a slice that reaches the end loses its last desktop.    *)
ViewShort(c, n) ==
  IF ~c.subset THEN [first |-> 0, count |-> n]
  ELSE LET first == IF c.start >= n THEN n - 1 ELSE c.start
           some  == IF c.start >= n \/ c.ndesktops = 0 THEN 1 ELSE c.ndesktops
       IN  [first |-> first,
            count |-> IF first < n - 1 /\ first + some >= n THEN n - 1 - first
                      ELSE IF first + some > n THEN n - first ELSE some]

(* rie_init_vdesktops(): the desktops shown, out of n.                     *)
View(c, n) ==
  IF ~c.subset THEN [first |-> 0, count |-> n]
  ELSE LET first == IF c.start >= n THEN n - 1 ELSE c.start
           some  == IF c.start >= n \/ c.ndesktops = 0 THEN 1 ELSE c.ndesktops
       IN  [first |-> first,
            count |-> IF first + some > n THEN n - first ELSE some]

Visible(v) == v.first..(v.first + v.count - 1)

(* rie_draw_desktops(): the desktops drawn as the one under the mouse; the *)
(* selected number is compared with the slot of the desktop drawn.         *)
Highlighted ==
  IF inside THEN {view.first + slot :
                    slot \in {selected} \intersect 0..(view.count - 1)}
  ELSE {}

(* Mutant of Redraw: desktops are placed by number instead of by slot.     *)
RedrawByNumber(draw) ==
  LET v == View(cfg, num')
  IN  IF draw
      THEN /\ view' = v
           /\ shape' = Shape(cfg, v.count)
           /\ cell' = [i \in 0..(num' - 1) |->
                         IF i \in Visible(v) THEN Cell(cfg, v.count, i)
                         ELSE IF i < num THEN cell[i] ELSE Nowhere]
      ELSE /\ cell' = [i \in 0..(num' - 1) |->
                         IF i < num THEN cell[i] ELSE Nowhere]
           /\ UNCHANGED <<view, shape>>

(* rie_render(), when it is time to draw: the slice is made anew, and each *)
(* desktop in it is placed.  The others keep the place they had.           *)
Redraw(draw) ==
  LET v == View(cfg, num')
  IN  IF draw
      THEN /\ view' = v
           /\ shape' = Shape(cfg, v.count)
           /\ cell' = [i \in 0..(num' - 1) |->
                         IF i \in Visible(v)
                         THEN Cell(cfg, v.count, i - v.first)
                         ELSE IF i < num THEN cell[i] ELSE Nowhere]
      ELSE /\ cell' = [i \in 0..(num' - 1) |->
                         IF i < num THEN cell[i] ELSE Nowhere]
           /\ UNCHANGED <<view, shape>>

(* Mutant of NumberOfDesktops: the desktop under the mouse is kept.        *)
NumberKeepsSelected(draw) ==
  LET n == IF wmnum = 0 THEN 1 ELSE wmnum
      c == IF wmnum = 0 THEN 0 ELSE current
  IN  /\ num' = n
      /\ UNCHANGED selected
      /\ current' = IF n # num /\ c > n - 1 THEN n - 1 ELSE c
      /\ IF n = num THEN UNCHANGED drawn ELSE Redraw(draw)

(* rie_event_number_of_desktops(): without the property there is one       *)
(* desktop; nothing is done when the number is the known one.  The numbers *)
(* are unsigned: a selected desktop of -1 is larger than any other.        *)
NumberOfDesktops(draw) ==
  LET n == IF wmnum = 0 THEN 1 ELSE wmnum
      c == IF wmnum = 0 THEN 0 ELSE current
      s == IF wmnum = 0 THEN 0 ELSE selected
  IN  /\ num' = n
      /\ IF n = num
         THEN current' = c /\ selected' = s /\ UNCHANGED drawn
         ELSE /\ current' = IF c > n - 1 THEN n - 1 ELSE c
              /\ selected' = IF s = -1 \/ s > n - 1 THEN n - 1 ELSE s
              /\ Redraw(draw)

(* Mutant of CurrentDesktop: a desktop not known yet is not believed.      *)
CurrentIfKnown(draw) ==
  /\ UNCHANGED <<num, selected>>
  /\ IF wmcur \in 0..(num - 1)
     THEN current' = wmcur /\ Redraw(draw)
     ELSE UNCHANGED <<current, drawn>>

(* rie_event_current_desktop(): whatever the property holds is taken.      *)
CurrentDesktop(draw) ==
  /\ UNCHANGED <<num, selected>>
  /\ IF wmcur # -1
     THEN current' = wmcur /\ Redraw(draw)
     ELSE UNCHANGED <<current, drawn>>

Handler(which, draw) ==
  \/ which = "number" /\ NumberOfDesktops(draw)
  \/ which = "current" /\ CurrentDesktop(draw)

(* The next call of rie_event_init(); only its last one draws.             *)
Initialise ==
  /\ todo > 0
  /\ todo' = todo - 1
  /\ \/ Handler(Call(todo), FALSE)
     \/ /\ Call(todo) = "render"
        /\ UNCHANGED <<num, current, selected>>
        /\ Redraw(TRUE)
  /\ UNCHANGED <<wmvars, notes, asked, cfg, inside, hover, counters>>

(* The main loop takes the next notification.                              *)
HandleNote ==
  /\ Running /\ notes # <<>>
  /\ notes' = Tail(notes)
  /\ Handler(Head(notes), TRUE)
  /\ UNCHANGED <<wmvars, asked, todo, cfg, inside, hover, counters>>

(* A reload that succeeds: a new pager, initialised twice, replaces the    *)
(* old one.                                                                *)
Reload(c) ==
  /\ Running /\ reloads < MaxReloads
  /\ Fresh(c)
  /\ todo' = 2 * Pass
  /\ reloads' = reloads + 1
  /\ UNCHANGED <<wmvars, notes, asked, switches>>

-------------------------------------------------------------------------------
(* The user.  Where the pointer is on the window is any of the slots, or   *)
(* between them.                                                           *)

Enter ==
  /\ Running
  /\ inside' = TRUE
  /\ UNCHANGED <<wmvars, notes, asked, todo, cfg, num, current, selected,
                 hover, drawn, counters>>

LeaveWindow ==
  /\ Running
  /\ inside' = FALSE /\ selected' = -1 /\ hover' = -1
  /\ UNCHANGED <<wmvars, notes, asked, todo, cfg, num, current, drawn,
                 counters>>

(* The pointer moves to a desktop; between the desktops nothing changes.   *)
Motion(slot) ==
  /\ Running
  /\ selected' = view.first + slot
  /\ hover' = view.first + slot
  /\ UNCHANGED <<wmvars, notes, asked, todo, cfg, num, current, inside, drawn,
                 counters>>

(* A click on a desktop with the button that changes desktops.             *)
Click(slot) ==
  /\ Running /\ switches < MaxSwitches
  /\ view.first + slot # current
  /\ asked' = Append(asked, view.first + slot)
  /\ switches' = switches + 1
  /\ UNCHANGED <<wmvars, notes, todo, cfg, num, current, mousevars, drawn,
                 reloads>>

(* The place of the current desktop as rie_switch_desktop() reads it: the  *)
(* array is indexed without a check, and behind its end is anything.       *)
CurrentCell ==
  IF current < num THEN {cell[current]}
  ELSE {Nowhere, [row |-> shape.rows, col |-> shape.cols]}

(* A switch_desktop_* command.                                             *)
Switch(move) ==
  /\ Running /\ switches < MaxSwitches
  /\ \E c \in CurrentCell :
       \E d \in Target(cfg, shape, c, current, num, move) :
          asked' = Append(asked, d)
  /\ switches' = switches + 1
  /\ UNCHANGED <<wmvars, notes, todo, cfg, num, current, mousevars, drawn,
                 reloads>>

User ==
  \/ Enter \/ LeaveWindow
  \/ \E slot \in 0..(view.count - 1) : Motion(slot) \/ Click(slot)
  \/ \E move \in Switches : Switch(move)
  \/ \E c \in Configs : Reload(c)

Pager == Initialise \/ HandleNote

Next == Manager \/ Pager \/ User

Spec == Init /\ [][Next]_vars

(* The main loop goes on handling what is pending (EventsHandled).         *)
FairSpec == Spec /\ WF_vars(Pager)

-------------------------------------------------------------------------------
(***************************************************************************)
(* Once rieman has handled every notification it shows the window          *)
(* manager's own number of desktops and current desktop, in whichever      *)
(* order the two were changed, however stale the notifications were, and   *)
(* whatever the clamping of one handler did to the value of the other.     *)
(***************************************************************************)
Converged ==
  Running /\ notes = <<>> /\ owed = "nothing" =>
    num = wmnum /\ current = wmcur

(***************************************************************************)
(* The slice of desktops that is drawn and hit by clicks is never empty    *)
(* and lies inside pager->desktops, whatever the subset.* settings and the *)
(* number of desktops are.                                                 *)
(***************************************************************************)
ViewExists ==
  Running => view.count > 0 /\ Visible(view) \subseteq 0..(num - 1)

(***************************************************************************)
(* "only a subset of virtual desktops is shown (start...start +            *)
(* ndesktops)": exactly the existing desktops of that range, unless there  *)
(* is none.                                                                *)
(***************************************************************************)
ViewIsSubset ==
  LET wanted == {d \in 0..(num - 1) :
                   cfg.subset => d \in cfg.start..(cfg.start + cfg.ndesktops - 1)}
  IN  Running /\ wanted # {} => Visible(view) = wanted

(***************************************************************************)
(* The desktop under the mouse is one that exists: it is clamped when      *)
(* desktops disappear while the pointer rests on the window.               *)
(***************************************************************************)
SelectedExists == selected # -1 /\ Running => selected < num

(***************************************************************************)
(* On a grid without holes, the left, right, up and down commands ask for  *)
(* a desktop that is shown as long as the current one is: the numbers they *)
(* compute and the places remembered from the last drawing belong together. *)
(***************************************************************************)
MovesStayInView ==
  /\ Running
  /\ current \in Visible(view)
  /\ shape.rows * shape.cols = view.count
  => \A move \in Moves :
       Target(cfg, shape, cell[current], current, num, move)
         \subseteq Visible(view)

(***************************************************************************)
(* rieman ends up with the window manager's picture.                       *)
(***************************************************************************)
FollowsManager ==
  <>[](owed = "nothing" => num = wmnum /\ current = wmcur)

(***************************************************************************)
(* "desktop under the mouse pointer": while the pointer is in the window,  *)
(* the desktop drawn highlighted is the one the pointer was last over.     *)
(***************************************************************************)
HighlightFollowsPointer ==
  Running /\ inside /\ hover # -1 => Highlighted \subseteq {hover}

(***************************************************************************)
(* Until the pointer has been over a desktop none is drawn highlighted:    *)
(* the selected desktop is then the -1 that rie_pager_init() and           *)
(* rie_event_xcb_leave_notify() set.                                       *)
(***************************************************************************)
NoGhostHighlight == Running /\ inside /\ hover = -1 => Highlighted = {}

(***************************************************************************)
(* "switch to prev/next desktop by order": the command for the next        *)
(* desktop asks for another one than the request before it, which the      *)
(* window manager has not obeyed yet; rie_switch_desktop() counts from the *)
(* desktop rieman knows as the current one.                                *)
(***************************************************************************)
NextGoesOn ==
  [][Switch("NEXT") /\ asked # <<>> =>
       asked'[Len(asked')] # asked[Len(asked)]]_vars
===============================================================================
