-------------------------------- MODULE Pager ---------------------------------
(***************************************************************************)
(* A user walks over the grid with switch_desktop_* commands and a window  *)
(* manager that obeys at once, for every layout of up to MaxDesktops       *)
(* visible desktops, the first of them being desktop number `first`, drawn *)
(* in several styles and on several screens.                               *)
(***************************************************************************)
EXTENDS Picture, FiniteSets

CONSTANTS
  MaxDesktops, (* visible desktops *)
  MaxWrap,     (* layout.wrap *)
  MaxFirst,    (* subset.start_desktop *)
  MaxHidden,   (* hidden windows of a desktop *)
  Styles,      (* what configurations and skins say *)
  Screens,     (* what is known of X servers and window managers *)
  Images,      (* lists of icons: the _NET_WM_ICON of windows *)
  Workareas,   (* _NET_WORKAREA, or a monitor *)
  Offsets      (* position.x and position.y *)

ASSUME BoundsAssumption ==
  /\ MaxDesktops \in Nat \ {0} /\ MaxWrap \in Nat /\ MaxFirst \in Nat
  /\ MaxHidden \in Nat

ASSUME StylesAssumption ==
  Styles \subseteq [w : Nat, h : Nat, text : Nat, margin : Nat, pad : BOOLEAN,
                    above : BOOLEAN, border : Nat, vpborder : Nat]

(* What is shown of a screen is not empty, and a monitor is a part of the  *)
(* root window.                                                            *)
ASSUME ScreensAssumption ==
  LET Area == [x : Nat, y : Nat, w : Nat, h : Nat]
  IN  /\ Screens \subseteq [geom : Area, root : Area, monitor : Area,
                            subset : BOOLEAN]
      /\ \A s \in Screens :
           /\ AreaShown(s).w > 0 /\ AreaShown(s).h > 0
           /\ s.root.w > 0 /\ s.root.h > 0
           /\ s.subset => s.monitor.w <= s.root.w /\ s.monitor.h <= s.root.h

(* Icons have rows: rie_box_fit() divides by their number.                 *)
ASSUME ImagesAssumption ==
  /\ Images \subseteq Seq([w : Nat, h : Nat \ {0}])
  /\ <<>> \notin Images

ASSUME PositionAssumption ==
  /\ Workareas \subseteq [x : Nat, y : Nat, w : Nat, h : Nat]
  /\ Offsets \subseteq [x : Nat, y : Nat]

VARIABLES
  cfg, count, first, at, style, screen,
  tpl,  (* pager->template *)
  boxes (* the cell, dbox and pad of each visible desktop, as drawn *)
fixed == <<cfg, count, first, style, screen, tpl, boxes>>
vars == <<fixed, at>>

Configs == [wrap : 0..MaxWrap, horz : BOOLEAN, corner : Corners]

Grids == Shape(cfg, count)
CellOf(d) == Cell(cfg, count, d - first)
Shown == first..(first + count - 1)

Slots == [k \in 0..(count - 1) |-> boxes[first + k].dbox]

Init ==
  /\ cfg \in Configs
  /\ count \in 1..MaxDesktops
  /\ first \in 0..MaxFirst
  /\ at = first
  /\ style \in Styles /\ screen \in Screens
  /\ tpl = Template(style, screen)
  /\ boxes = [d \in Shown |-> DesktopBoxes(tpl, style, CellOf(d))]

Asked(move) == Target(cfg, Grids, CellOf(at), at, first + count, move)

Walk(move) ==
  /\ at' \in Asked(move) \intersect Shown
  /\ UNCHANGED fixed

Next == \E move \in Switches : Walk(move)

Spec == Init /\ [][Next]_vars

-------------------------------------------------------------------------------
Within(r, s) == /\ r.x >= s.x /\ r.x + r.w <= s.x + s.w
                /\ r.y >= s.y /\ r.y + r.h <= s.y + s.h
Apart(r, s)  == \/ r.x + r.w <= s.x \/ s.x + s.w <= r.x
                \/ r.y + r.h <= s.y \/ s.y + s.h <= r.y
Widened(r, b) == Rect(r.x - b, r.y - b, r.w + 2 * b, r.h + 2 * b)

Size == PagerSize(tpl, style.border, Grids)
Window == Rect(0, 0, Size.w, Size.h)

(* A grid has holes when its last line is not full.                        *)
Full == Grids.rows * Grids.cols = count

VRows == 0..(Viewports(screen).rows - 1)
VCols == 0..(Viewports(screen).cols - 1)

ViewportsApart(dbox) ==
  Several(Viewports(screen)) =>
    \A i, k \in VRows, j, l \in VCols :
      LET box   == Widened(ViewportBox(tpl, style, dbox, i, j), style.vpborder)
          other == ViewportBox(tpl, style, dbox, k, l)
      IN  Within(box, dbox) /\ (<<i, j>> # <<k, l>> => Apart(box, other))

(* Desktops and the borders around them are drawn inside the window, whose *)
(* size was computed from the grid; no desktop covers another; its own two *)
(* boxes, the picture and the label, share its cell without covering each  *)
(* other, wherever the label is; and its viewports are drawn inside the    *)
(* picture, apart and with a border around each.                           *)
DrawnApart ==
  \A d \in Shown :
    LET mine == boxes[d]
    IN  /\ Within(Widened(mine.cell, style.border), Window)
        /\ Within(mine.dbox, mine.cell) /\ Within(mine.pad, mine.cell)
        /\ Apart(mine.dbox, mine.pad)
        /\ \A e \in Shown \ {d} : Apart(mine.cell, boxes[e].cell)
        /\ ViewportsApart(mine.dbox)

(* The place next to one, and the desktops drawn there.                    *)
Beside(here, move) ==
  CASE move = "LEFT"  -> [here EXCEPT !.col = @ - 1]
    [] move = "RIGHT" -> [here EXCEPT !.col = @ + 1]
    [] move = "UP"    -> [here EXCEPT !.row = @ - 1]
    [] move = "DOWN"  -> [here EXCEPT !.row = @ + 1]

Neighbour(move) == {d \in Shown : CellOf(d) = Beside(CellOf(at), move)}

(* On a grid without holes, the arithmetic of the left, right, up and down *)
(* commands on desktop numbers agrees with the picture: they ask for the   *)
(* desktop drawn next to the current one in that direction, and for none   *)
(* at the edge.                                                            *)
MovesOnScreen ==
  Full => \A move \in Moves : Asked(move) = Neighbour(move)

-------------------------------------------------------------------------------
(* What the lines of the grid are made of: what is painted where its r-th  *)
(* and c-th lines cross, and between two crossings.                        *)
Crossing(r, c) ==
  LET middle == 1..(Grids.cols - 1)
      kind == CASE r = 0 /\ c = 0          -> "CORNER_TOPLEFT"
                [] r = 0 /\ c = Grids.cols -> "CORNER_TOPRIGHT"
                [] r = 0 /\ c \in middle   -> "MIDDLE_TOP"
                [] r = Grids.rows /\ c = 0 -> "CORNER_BOTTOMLEFT"
                [] r = Grids.rows /\ c = Grids.cols -> "CORNER_BOTTOMRIGHT"
                [] r = Grids.rows /\ c \in middle -> "MIDDLE_BOTTOM"
                [] OTHER -> IF c = 0 THEN "MIDDLE_LEFT"
                            ELSE IF c = Grids.cols THEN "MIDDLE_RIGHT"
                            ELSE "CROSS"
      b == style.border
  IN  Piece(kind, c * (tpl.cell.w + b), r * (tpl.cell.h + b), b, b)

Lines ==
  LET b == style.border
      W == tpl.cell.w
      H == tpl.cell.h
  IN  {Crossing(r, c) : r \in 0..Grids.rows, c \in 0..Grids.cols}
      \union {Piece(IF r = 0 THEN "HORIZONTAL_TOP" ELSE "HORIZONTAL_BOTTOM",
                    c * (W + b) + b, r * (H + b), W, b) :
                r \in 0..Grids.rows, c \in 0..(Grids.cols - 1)}
      \union {Piece(IF c = 0 THEN "VERTICAL_LEFT" ELSE "VERTICAL_RIGHT",
                    c * (W + b), r * (H + b) + b, b, H) :
                r \in 0..(Grids.rows - 1), c \in 0..Grids.cols}

Painted(d) == GridBorder(boxes[d], style.border, CellOf(d), Grids)

(* On a grid without holes the desktops, each of which paints only some of *)
(* the pieces around it, together paint every line of the grid, with the   *)
(* right tiles where lines meet, and nothing twice: borders may be         *)
(* translucent.  "use border of pager grid, as only available space is     *)
(* grid": the border of the current desktop covers what they have painted, *)
(* all around it.  (A grid with holes, unless it begins at the top left,   *)
(* lacks the pieces the missing neighbours would have painted.)            *)
BordersOnce ==
  /\ Full /\ style.border > 0 =>
       /\ UNION {Painted(d) : d \in Shown} = Lines
       /\ \A d \in Shown : \A e \in Shown \ {d} :
            Painted(d) \intersect Painted(e) = {}
  /\ Full \/ cfg.corner = "TOPLEFT" =>
       \A piece \in ActiveBorder(boxes[at], style.border) :
         \E d \in Shown : \E line \in Painted(d) : line.box = piece.box

-------------------------------------------------------------------------------
Spots(r) == {p \in {r.x + 1, r.x + r.w - 1} \X {r.y + 1, r.y + r.h - 1} :
               Hits(p[1], p[2], r)}

(* A click in a desktop finds it and no other, and one in its label none.  *)
(* A click on a viewport asks for that viewport of that slot and no other, *)
(* and a window manager that moves to the corner it asks for makes rieman  *)
(* mark the viewport that was clicked as current.                          *)
ClicksFind ==
  LET pad == boxes[at].pad
      r == boxes[at].dbox
      slot == at - first
  IN  /\ \A p \in Spots(r) : SlotsHit(Slots, p[1], p[2]) = {slot}
      /\ \A x \in {pad.x + 1, pad.x + pad.w - 1}, y \in pad.y..(pad.y + pad.h) :
           SlotsHit(Slots, x, y) = {}
      /\ Several(Viewports(screen)) =>
           \A i \in VRows, j \in VCols :
             /\ \A p \in Spots(ViewportBox(tpl, style, r, i, j)) :
                  ViewportsHit(tpl, style, screen, Slots, p[1], p[2])
                    = {<<slot, i, j>>}
             /\ ViewportOf(screen, ViewportCorner(screen, i, j))
                  = [row |-> i, col |-> j]

-------------------------------------------------------------------------------
(* Windows inside the area that is shown.                                  *)
Inner == LET a == AreaShown(screen)
         IN  {Rect(a.x + x, a.y + y, w, h) :
                x \in {0, a.w \div 2}, y \in {a.h \div 3, a.h \div 2},
                w \in {a.w \div 3, a.w \div 2}, h \in {a.h \div 2}}

Scaled(box) == ScaleToDesktop(style, screen, boxes[at].dbox, box)

(* A window inside the screen or monitor that is shown is drawn inside its *)
(* desktop, give or take a pixel for rounding, which clipping removes; and *)
(* windows that do not overlap do not overlap, likewise, when drawn.       *)
WindowsKeepPlace ==
  LET drawn == [box \in Inner |-> Scaled(box)]
      further(r) == [r EXCEPT !.x = @ + 1, !.y = @ + 1]
  IN  /\ \A box \in Inner : Within(drawn[box], Widened(boxes[at].dbox, 1))
      /\ \A box, other \in Inner :
           Apart(box, other) =>
             \/ Apart(drawn[box], further(drawn[other]))
             \/ Apart(further(drawn[box]), drawn[other])

(* The icons of hidden windows stay in the label, however many there are,  *)
(* and none covers another, so that a click restores the one it hits.      *)
(* Whatever icons a shown window has, the one drawn stays inside it.       *)
IconsShown ==
  /\ style.pad =>
       \A n \in 1..MaxHidden :
         LET pad == boxes[at].pad
             box(i) == HiddenBox(style, pad, n, i)
         IN  \A i \in 0..(n - 1) :
               /\ Within(box(i), pad)
               /\ \A k \in 0..(n - 1) : i # k => Apart(box(i), box(k))
  /\ \A icons \in Images, box \in Inner :
       LET wbox == Scaled(box)
       IN  Within(IconBox(wbox, icons[SelectIcon(icons, wbox)]), wbox)

(* "workarea is used to avoid various DE's toolbars/docks": if there is    *)
(* room for the pager and its offset, it is put inside the workarea, on    *)
(* the sides where it is aligned with the workarea and not the screen.     *)
OnWorkarea ==
  \A corner \in Corners, area \in Workareas, by \in Offsets :
    LET p == PagerAt(corner, by.x, by.y, area, Size)
        right == corner \in {"TOPRIGHT", "BOTTOMRIGHT"}
        low   == corner \in {"BOTTOMLEFT", "BOTTOMRIGHT"}
    IN  /\ Size.w + by.x <= area.w /\ (right \/ area.x = 0) =>
             p.x >= area.x /\ p.x + Size.w <= area.x + area.w
        /\ Size.h + by.y <= area.h /\ (low \/ area.y = 0) =>
             p.y >= area.y /\ p.y + Size.h <= area.y + area.h
===============================================================================
