-------------------------------- MODULE Tiling --------------------------------
(***************************************************************************)
(* Tiling: where rie_windows_tile_awesome_fair() asks the window manager   *)
(* to put the windows of a desktop (rie_window.c), and what it relies on:  *)
(* the number of windows of each desktop, which is counted while the pager *)
(* is drawn (rie_render.c).  Workareas do not change here (see Places).    *)
(*                                                                         *)
(* A handler and the drawing that follows it are one step; the drawing may *)
(* fail, and errors are then "ignored in hope they are not permanent".     *)
(* Sizes are small numbers: an area so small that a window's size would    *)
(* become negative (and wrap) is not in Area (RoomAssumption).             *)
(***************************************************************************)
EXTENDS Integers, Sequences, FiniteSets

CONSTANTS
  MaxDesktops, (* desktops are numbered below this                          *)
  Area,        (* the rectangle workareas may be                            *)
  Frame,       (* sizes of a window's frame: left, top, right, bottom       *)
  Lists,       (* the lists of windows the window manager may publish       *)
  MaxVaried    (* windows change one by one in lists up to this length      *)
               (* (bounds the model)                                        *)

Desktop == 0..(MaxDesktops - 1)
States  == {"shown", "hidden", "skip"}

(* A rie_window_t.  Its state is what _NET_WM_STATE says: hidden, else not *)
(* to be shown in pagers, else neither; dock says that its types have DOCK *)
(* or DESKTOP.  A desktop that does not exist stands for all the numbers   *)
(* behind the last, that of windows on every desktop among them.           *)
Window == [desktop : Desktop, state : States, dock : BOOLEAN,
           dead : BOOLEAN, frame : Frame]

ASSUME TilingAssumption ==
  /\ MaxDesktops \in Nat \ {0}
  /\ Area \subseteq [x : Int, y : Int, w : Nat, h : Nat]
  /\ Frame \subseteq [x : Nat, y : Nat, w : Nat, h : Nat]
  /\ Lists \subseteq Seq(Window)
  /\ MaxVaried \in Nat

VARIABLES
  windows,   (* pager->windows                                              *)
  ndesktops, (* pager->desktops.nitems                                      *)
  nnormal,   (* the nnormal of each desktop: windows counted at the last    *)
             (* drawing                                                     *)
  current,   (* pager->current_desktop                                      *)
  workareas, (* pager->workareas                                            *)
  mode,      (* pager->current_tile_mode                                    *)
  render,    (* pager->render is set, but nothing has been drawn since      *)
  asked,     (* what the last tile command asked for: a rectangle for each  *)
             (* window it placed; nothing once something else has happened  *)
  running,   (* FALSE after a division by zero                              *)
  fresh,     (* history: the last drawing counted the windows               *)
  orderly,   (* history: it had when the last tile command came, and that   *)
             (* was about a desktop that exists                             *)
  base       (* history: the number of windows it took as counted           *)

lists  == <<windows, ndesktops, current>>
drawing == <<nnormal, fresh, render>>
tiling == <<mode, asked, running, orderly, base>>
vars   == <<lists, workareas, drawing, tiling>>

(* rie_array_get(): the first element stands in for those there are not.   *)
ArrayGet(arr, i) == IF i + 1 \in DOMAIN arr THEN arr[i + 1] ELSE arr[1]

-------------------------------------------------------------------------------
(* The counts.                                                             *)

(* rie_count_hidden_windows(): what nnormal counts.  It looks neither at   *)
(* dead nor at the types.                                                  *)
Counted(ws, d) ==
  {i \in DOMAIN ws : ws[i].desktop = d /\ ws[i].state # "hidden"}

(* rie_windows_tile_awesome_fair(): the windows it places.                 *)
Tiled(ws, d) ==
  {i \in DOMAIN ws : /\ ~ws[i].dead
                     /\ ws[i].state = "shown" /\ ~ws[i].dock
                     /\ ws[i].desktop = d}

Counts(ws, n) == [i \in 1..n |-> Cardinality(Counted(ws, i - 1))]

-------------------------------------------------------------------------------
(* Where windows go.                                                       *)

CeilDiv(a, b) == (a + b - 1) \div b
CeilSqrt(n)   == CHOOSE r \in 0..n : r * r >= n /\ (r = 0 \/ (r - 1) * (r - 1) < n)

Rows(n) == IF n = 2 THEN 1 ELSE CeilSqrt(n)
Cols(n) == IF n = 2 THEN 2 ELSE CeilDiv(n, Rows(n))

(* A window and its frame get less than the part of the area they are in:  *)
(* the right and lower side of the frame are taken off twice, and then all *)
(* of it.  What is left has a size if no side is cut into too many parts.  *)
Around(frame) == frame.x + frame.y + 3 * (frame.w + frame.h)

HasRoom(size, parts, around) ==
  size > (parts - 1) * (parts - 1) + parts * around

ASSUME RoomAssumption ==
  \A list \in Lists : \A n \in 1..Len(list) : \A parts \in {Rows(n), Cols(n)} :
    \A area \in Area, frame \in Frame :
      /\ HasRoom(area.w, parts, Around(frame))
      /\ HasRoom(area.h, parts, Around(frame))

Swapped(r) == [x |-> r.y, y |-> r.x, w |-> r.h, h |-> r.w]

(* Mutant of Part: every part has the rounded size.                        *)
PartRounded(size, parts, i) ==
  [at |-> CeilDiv(size, parts) * i, size |-> CeilDiv(size, parts)]

(* The i-th of the parts a side is cut into: the last one takes what the   *)
(* others, rounded up, have left.                                          *)
Part(size, parts, i) ==
  LET each == CeilDiv(size, parts)
      mine == IF i = parts - 1 THEN size - each * i ELSE each
  IN  [at |-> IF i = parts - 1 THEN size - mine ELSE each * i, size |-> mine]

(* Mutant of Place: the last column has as many rows as the others.        *)
PlaceFullColumns(k, n, workarea, frame, east) ==
  LET wa   == IF east THEN Swapped(workarea) ELSE workarea
      high == Part(wa.h, Rows(n), k % Rows(n))
      wide == Part(wa.w, Cols(n), k \div Rows(n))
      g    == [x |-> wide.at + wa.x, y |-> high.at + wa.y,
               w |-> wide.size - frame.h * 2, h |-> high.size - frame.w * 2]
  IN  IF east THEN Swapped(g) ELSE g

(* The rectangle of the k-th window (from 0) when n were counted, its      *)
(* frame included.  Columns are filled one after the other, the last one   *)
(* by the windows that are left.                                           *)
Place(k, n, workarea, frame, east) ==
  LET wa    == IF east THEN Swapped(workarea) ELSE workarea
      rest  == Rows(n) * Cols(n) - Rows(n)
      lrows == IF k >= rest THEN n - rest ELSE Rows(n)
      high  == Part(wa.h, lrows, k % Rows(n))
      wide  == Part(wa.w, Cols(n), k \div Rows(n))
      g     == [x |-> wide.at + wa.x, y |-> high.at + wa.y,
                w |-> wide.size - frame.h * 2, h |-> high.size - frame.w * 2]
  IN  IF east THEN Swapped(g) ELSE g

(* rie_window_center_resize(): what is asked for the window itself, when   *)
(* it and its frame shall fill bb.                                         *)
CenterResize(bb, frame) ==
  [x |-> bb.x + frame.x, y |-> bb.y + frame.y,
   w |-> bb.w - (frame.x + frame.w), h |-> bb.h - (frame.y + frame.h)]

(* What is asked for each window of desktop d.  The number n that places   *)
(* are computed from comes from the last drawing.                          *)
TileAwesomeFair(d, n, east) ==
  LET k(i) == Cardinality({j \in Tiled(windows, d) : j < i})
  IN  [i \in Tiled(windows, d) |->
         CenterResize(Place(k(i), n, ArrayGet(workareas, d),
                            windows[i].frame, east),
                      windows[i].frame)]

-------------------------------------------------------------------------------
NothingAsked == [i \in {} |-> 0]

Init ==
  /\ windows \in Lists
  /\ ndesktops \in 1..MaxDesktops
  /\ nnormal = Counts(windows, ndesktops)
  /\ current \in 0..(ndesktops - 1)
  /\ workareas \in {<<a>> : a \in Area}
  /\ mode = 0 /\ asked = NothingAsked /\ running = TRUE /\ orderly = TRUE /\ base = 0
  /\ fresh = TRUE /\ render = FALSE

(* rie_render(), rie_draw_desktops(): errors before the windows are        *)
(* counted leave the counts as they are.  New desktops have none.          *)
Draw(ok) ==
  /\ fresh' = ok
  /\ nnormal' = IF ok THEN Counts(windows', ndesktops')
                ELSE [i \in 1..ndesktops' |-> IF i \in DOMAIN nnormal
                                             THEN nnormal[i] ELSE 0]
  /\ render' = FALSE

(* The end of an event in rie_event_loop(): it is drawn when the handler   *)
(* or an earlier command has set pager->render.                            *)
Drawn(set, ok) ==
  /\ IF set \/ render THEN Draw(ok) ELSE ok /\ UNCHANGED drawing
  /\ asked' = NothingAsked /\ orderly' = TRUE /\ base' = 0
  /\ UNCHANGED <<mode, running>>

(* rie_event_client_list(): a new list, each window asked for its fields.  *)
ClientList(list, ok) ==
  /\ running
  /\ windows' = list
  /\ UNCHANGED <<ndesktops, current, workareas>>
  /\ Drawn(TRUE, ok)

(* The properties of the i-th window change.                               *)
Varied(i) == running /\ i \in DOMAIN windows /\ Len(windows) <= MaxVaried

(* rie_event_wm_state(), rie_xcb_get_window_state(): a dead window is not  *)
(* asked, but the pager is drawn.                                          *)
WmState(i, state, ok) ==
  /\ Varied(i)
  /\ windows' = IF windows[i].dead THEN windows
                ELSE [windows EXCEPT ![i].state = state]
  /\ UNCHANGED <<ndesktops, current, workareas>>
  /\ Drawn(TRUE, ok)

(* rie_event_wm_window_type(), rie_xcb_get_window_type(): the types of a   *)
(* window that no longer exists cannot be read.                            *)
WmWindowType(i, dock, ok) ==
  /\ Varied(i)
  /\ windows' = IF windows[i].dead THEN windows
                ELSE [windows EXCEPT ![i].dock = dock]
  /\ UNCHANGED <<ndesktops, current, workareas>>
  /\ Drawn(TRUE, ok)

(* Mutant of WmDesktop: nothing is drawn anew.                             *)
WmDesktopSilent(i, d, ok) ==
  /\ Varied(i)
  /\ windows' = IF windows[i].dead THEN windows
                ELSE [windows EXCEPT ![i].desktop = d]
  /\ UNCHANGED <<ndesktops, current, workareas>>
  /\ Drawn(FALSE, ok)

(* rie_event_wm_desktop(): a window without a desktop is on the first.  A  *)
(* dead one is not found, and nothing is drawn for it.                     *)
WmDesktop(i, d, ok) ==
  /\ Varied(i)
  /\ windows' = IF windows[i].dead THEN windows
                ELSE [windows EXCEPT ![i].desktop = d]
  /\ UNCHANGED <<ndesktops, current, workareas>>
  /\ Drawn(~windows[i].dead, ok)

(* rie_event_xcb_destroy_notify().                                         *)
Destroy(i, ok) ==
  /\ Varied(i)
  /\ windows' = [windows EXCEPT ![i].dead = TRUE, ![i].desktop = 0]
  /\ UNCHANGED <<ndesktops, current, workareas>>
  /\ Drawn(FALSE, ok)

(* rie_event_number_of_desktops(); n is 1 when there is no such property,  *)
(* and the current desktop is the first then.                              *)
NumberOfDesktops(n, property, ok) ==
  LET c == IF property THEN current ELSE 0
  IN  /\ running
      /\ property \/ n = 1
      /\ ndesktops' = n
      /\ current' = IF n # ndesktops /\ c > n - 1 THEN n - 1 ELSE c
      /\ UNCHANGED <<windows, workareas>>
      /\ Drawn(n # ndesktops, ok)

(* rie_event_current_desktop(): the number is taken as it is.              *)
CurrentDesktop(d, ok) ==
  /\ running
  /\ current' = d
  /\ UNCHANGED <<windows, ndesktops, workareas>>
  /\ Drawn(TRUE, ok)

(* rie_windows_tile() for desktop d: the first mode is EAST, the second    *)
(* WEST; behind them it is set to the first again.  Without windows        *)
(* counted, the place of the first one is divided by zero.                 *)
Tile(d) ==
  LET n == ArrayGet(nnormal, d)
      m == IF mode = 2 THEN 0 ELSE mode
  IN  /\ orderly' = (fresh /\ d < ndesktops)
      /\ base' = n
      /\ IF n = 0 /\ Tiled(windows, d) # {}
         THEN /\ running' = FALSE
              /\ UNCHANGED <<mode, asked>>
         ELSE /\ mode' = m + 1
              /\ asked' = TileAwesomeFair(d, n, m = 0)
              /\ UNCHANGED running

(* rie_pager_run_cmd(), tile_current_desktop: pager->render is set where   *)
(* nothing is drawn, outside the loop over events.                         *)
TileCommand ==
  /\ running
  /\ Tile(current)
  /\ render' = TRUE
  /\ UNCHANGED <<lists, workareas, nnormal, fresh>>

(* rie_event_xcb_button_release(): a click with the tile button on a       *)
(* desktop that was drawn.                                                 *)
TileClick(d, ok) ==
  /\ running
  /\ d < ndesktops
  /\ Tile(d)
  /\ UNCHANGED <<lists, workareas>>
  /\ IF running' THEN Draw(ok) ELSE ok /\ UNCHANGED drawing

Next ==
  \/ TileCommand
  \/ \E ok \in BOOLEAN :
       \/ \E list \in Lists : ClientList(list, ok)
       \/ \E i \in 1..MaxVaried :
            \/ \E state \in States : WmState(i, state, ok)
            \/ \E dock \in BOOLEAN : WmWindowType(i, dock, ok)
            \/ \E d \in Desktop : WmDesktop(i, d, ok)
            \/ Destroy(i, ok)
       \/ \E n \in 1..MaxDesktops, property \in BOOLEAN :
            NumberOfDesktops(n, property, ok)
       \/ \E d \in Desktop : CurrentDesktop(d, ok) \/ TileClick(d, ok)

Spec == Init /\ [][Next]_vars

-------------------------------------------------------------------------------
TypeOK ==
  /\ windows \in Seq(Window)
  /\ ndesktops \in 1..MaxDesktops
  /\ nnormal \in [1..ndesktops -> Nat]
  /\ current \in Desktop
  /\ workareas \in Seq(Area) /\ workareas # <<>>
  /\ mode \in 0..2
  /\ DOMAIN asked \subseteq DOMAIN windows
  /\ render \in BOOLEAN /\ running \in BOOLEAN
  /\ fresh \in BOOLEAN /\ orderly \in BOOLEAN /\ base \in Nat

(* The counts a tile command divides by are not smaller than the number of *)
(* windows it will place, whatever happened to the windows since they were *)
(* counted, as long as the last drawing did not fail: a window can join a  *)
(* desktop only in a handler that has the pager drawn.                     *)
CountsCover ==
  fresh => \A d \in 0..(ndesktops - 1) :
             Cardinality(Tiled(windows, d)) <= nnormal[d + 1]

(* A tile command never divides by zero, unless the last drawing failed or *)
(* the window manager has announced a current desktop before the number of *)
(* desktops that it needs.                                                 *)
NoDivisionByZero ==
  orderly => running

(* The windows placed by the last tile command, and the area for them.     *)
Placed == DOMAIN asked
AreaOf(i) == ArrayGet(workareas, windows[i].desktop)

(* A window with its frame around it.                                      *)
Outer(i) == LET f == windows[i].frame
                r == asked[i]
            IN  [x |-> r.x - f.x, y |-> r.y - f.y,
                 w |-> r.w + f.x + f.w, h |-> r.h + f.y + f.h]

Inside(r, s) == /\ s.x <= r.x /\ r.x + r.w <= s.x + s.w
                /\ s.y <= r.y /\ r.y + r.h <= s.y + s.h
Apart(r, s) == \/ r.x + r.w <= s.x \/ s.x + s.w <= r.x
               \/ r.y + r.h <= s.y \/ s.y + s.h <= r.y

(* Every tiled window, its frame included, lies in the workarea of its     *)
(* desktop, has a size and does not overlap another, whatever the number   *)
(* of windows, of windows counted but not placed, and the size of frames.  *)
TiledApart ==
  orderly => \A i, j \in Placed :
    /\ asked[i].w > 0 /\ asked[i].h > 0
    /\ Inside(Outer(i), AreaOf(i))
    /\ i # j => Apart(Outer(i), Outer(j))

(* The frame of a window that has none.                                    *)
Bare == [x |-> 0, y |-> 0, w |-> 0, h |-> 0]

(* Windows without frames fill the workarea, to the last pixel, when all   *)
(* that were counted are placed: when none on the desktop is dead, of type *)
(* dock or not to be shown in pagers.                                      *)
TiledFills ==
  /\ orderly /\ Placed # {}
  /\ Cardinality(Placed) = base
  /\ \A i \in Placed : windows[i].frame = Bare
  => \A i \in Placed :
       LET area == AreaOf(i)
       IN  \A x \in area.x..(area.x + area.w - 1),
             y \in area.y..(area.y + area.h - 1) :
               \E j \in Placed :
                 /\ asked[j].x <= x /\ x < asked[j].x + asked[j].w
                 /\ asked[j].y <= y /\ y < asked[j].y + asked[j].h
===============================================================================
