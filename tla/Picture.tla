------------------------------- MODULE Picture -------------------------------
(***************************************************************************)
(* The picture rieman draws, in pixels: the sizes of a desktop, its label  *)
(* and the pager, where the pager is put on the screen, the borders of the *)
(* grid, the viewports of a desktop, windows scaled down, icons, and what  *)
(* is found under the mouse (rie_render.c).                                *)
(*                                                                         *)
(* A style is what the configuration and the skin say,                     *)
(*   [w, h (0: in proportion to the screen), text (height of the label's   *)
(*    font), margin, pad (show_pad), above (pad_position), border,         *)
(*    vpborder],                                                           *)
(* a screen what is known of the X server and the window manager,          *)
(*   [geom (of a desktop), root, monitor, subset (subset.enabled)],        *)
(* and a rectangle a rie_rect_t.  The program divides in single precision, *)
(* exactly here; sizes are too small for the difference to show.           *)
(***************************************************************************)
EXTENDS Grid, Sequences

Rect(x, y, w, h) == [x |-> x, y |-> y, w |-> w, h |-> h]
Larger(a, b)     == IF a > b THEN a ELSE b
Smaller(a, b)    == IF a < b THEN a ELSE b

(* rie_gfx_xy_inside_rect(): the edges are outside.                        *)
Hits(x, y, r) == x > r.x /\ x < r.x + r.w /\ y > r.y /\ y < r.y + r.h

-------------------------------------------------------------------------------
(* Sizes.                                                                  *)

AreaShown(screen) == IF screen.subset THEN screen.monitor ELSE screen.geom

(* vp_rows and vp_cols: how many times the root window fits.               *)
Viewports(screen) ==
  [rows |-> Larger(1, AreaShown(screen).h \div screen.root.h),
   cols |-> Larger(1, AreaShown(screen).w \div screen.root.w)]

Several(vps) == vps.rows > 1 \/ vps.cols > 1

(* pager->template and the size of pager->vp: the borders of viewports are *)
(* added to the size asked for.                                            *)
Template(style, screen) ==
  LET vps  == Viewports(screen)
      area == AreaShown(screen)
      high == IF style.h # 0 THEN style.h ELSE (style.w * area.h) \div area.w
      b    == IF Several(vps) THEN style.vpborder ELSE 0
      dbox == [w |-> style.w + b * (vps.cols + 1), h |-> high + b * (vps.rows + 1)]
      pad  == [w |-> dbox.w,
               h |-> IF style.pad THEN style.text + style.margin * 2 ELSE 0]
  IN  [dbox |-> dbox, pad |-> pad,
       cell |-> [w |-> dbox.w, h |-> dbox.h + pad.h],
       vp   |-> [w |-> style.w \div vps.cols, h |-> high \div vps.rows]]

(* The size of the pager's window.                                         *)
PagerSize(tpl, border, shape) ==
  [w |-> shape.cols * tpl.cell.w + (shape.cols + 1) * border,
   h |-> shape.rows * tpl.cell.h + (shape.rows + 1) * border]

(* Mutant of PagerAt: the offset is added whatever the corner.             *)
PagerAtOutside(corner, dx, dy, workarea, size) ==
  [x |-> IF corner \in {"TOPRIGHT", "BOTTOMRIGHT"}
         THEN workarea.x + workarea.w - size.w + dx ELSE dx,
   y |-> IF corner \in {"BOTTOMLEFT", "BOTTOMRIGHT"}
         THEN workarea.y + workarea.h - size.h + dy ELSE dy]

(* Where the window is moved, unless a dock holds it: the left and upper   *)
(* sides are those of the screen, the others those of the workarea (of the *)
(* monitor for a subset).                                                  *)
PagerAt(corner, dx, dy, workarea, size) ==
  [x |-> IF corner \in {"TOPRIGHT", "BOTTOMRIGHT"}
         THEN workarea.x + workarea.w - size.w - dx ELSE dx,
   y |-> IF corner \in {"BOTTOMLEFT", "BOTTOMRIGHT"}
         THEN workarea.y + workarea.h - size.h - dy ELSE dy]

(* Mutant of DesktopBoxes: a label above does not move the desktop down.   *)
DesktopBoxesCovered(tpl, style, place) ==
  LET x == place.col * tpl.cell.w + style.border * (place.col + 1)
      y == place.row * tpl.cell.h + style.border * (place.row + 1)
  IN  [cell |-> Rect(x, y, tpl.cell.w, tpl.cell.h),
       dbox |-> Rect(x, y, tpl.dbox.w, tpl.dbox.h),
       pad  |-> Rect(x, IF style.above THEN y ELSE y + tpl.dbox.h,
                     tpl.pad.w, tpl.pad.h)]

(* rie_set_desktop_geometry(): the boxes of the desktop drawn at a place   *)
(* of the grid.                                                            *)
DesktopBoxes(tpl, style, place) ==
  LET x == place.col * tpl.cell.w + style.border * (place.col + 1)
      y == place.row * tpl.cell.h + style.border * (place.row + 1)
  IN  [cell |-> Rect(x, y, tpl.cell.w, tpl.cell.h),
       dbox |-> Rect(x, IF style.above THEN y + tpl.pad.h ELSE y,
                     tpl.dbox.w, tpl.dbox.h),
       pad  |-> Rect(x, IF style.above THEN y ELSE y + tpl.dbox.h,
                     tpl.pad.w, tpl.pad.h)]

-------------------------------------------------------------------------------
(* Borders.                                                                *)

Piece(kind, x, y, w, h) == [kind |-> kind, box |-> Rect(x, y, w, h)]

(* Mutant of Frame: only the last column has a right side.                 *)
FrameOpen(box, b, row, col, rows, cols) ==
  LET right == box.x + box.w
      under == box.y + box.h
  IN  {Piece("HORIZONTAL_BOTTOM", box.x, under, box.w, b)}
      \union (IF col # cols - 1 THEN {} ELSE
        {Piece("VERTICAL_RIGHT", right, box.y, b, box.h)})

(* rie_create_borders(): the pieces around the box at (row, col) of a grid *)
(* of rows * cols boxes.  The left side and the upper side belong to the   *)
(* neighbour, if there is a place for one.                                 *)
Frame(box, b, row, col, rows, cols) ==
  LET right == box.x + box.w
      under == box.y + box.h
      top == {Piece(IF col = 0 THEN "CORNER_TOPLEFT" ELSE "MIDDLE_TOP",
                    box.x - b, box.y - b, b, b),
              Piece("HORIZONTAL_TOP", box.x, box.y - b, box.w, b)}
             \union (IF col # cols - 1 THEN {}
                     ELSE {Piece("CORNER_TOPRIGHT", right, box.y - b, b, b)})
      left == {Piece("VERTICAL_LEFT", box.x - b, box.y, b, box.h),
               Piece(IF row = rows - 1 THEN "CORNER_BOTTOMLEFT"
                     ELSE "MIDDLE_LEFT", box.x - b, under, b, b)}
      joint == CASE row = rows - 1 /\ col = cols - 1 -> "CORNER_BOTTOMRIGHT"
                 [] row = rows - 1 /\ col # cols - 1 -> "MIDDLE_BOTTOM"
                 [] row # rows - 1 /\ col = cols - 1 -> "MIDDLE_RIGHT"
                 [] OTHER -> "CROSS"
  IN  (IF row = 0 THEN top ELSE {}) \union (IF col = 0 THEN left ELSE {})
      \union {Piece("HORIZONTAL_BOTTOM", box.x, under, box.w, b),
              Piece("VERTICAL_RIGHT", right, box.y, b, box.h),
              Piece(joint, right, under, b, b)}

(* What is painted around a desktop (rie_draw_desktop_border()), and over  *)
(* it when the desktop is current (rie_draw_active_desktop_borders()).     *)
GridBorder(boxes, b, place, shape) ==
  IF b = 0 THEN {}
  ELSE Frame(boxes.cell, b, place.row, place.col, shape.rows, shape.cols)

ActiveBorder(boxes, b) ==
  IF b = 0 THEN {} ELSE Frame(boxes.cell, b, 0, 0, 1, 1)

-------------------------------------------------------------------------------
(* Viewports.                                                              *)

(* Row i, column j of the viewports in a desktop's box.                    *)
ViewportBox(tpl, style, dbox, i, j) ==
  Rect(tpl.vp.w * j + style.vpborder * (j + 1) + dbox.x,
       tpl.vp.h * i + style.vpborder * (i + 1) + dbox.y, tpl.vp.w, tpl.vp.h)

(* The real coordinates of a viewport a click asks for                     *)
(* (rie_viewport_by_coords()).                                             *)
ViewportCorner(screen, i, j) ==
  [x |-> (j * screen.geom.w) \div Viewports(screen).cols,
   y |-> (i * screen.geom.h) \div Viewports(screen).rows]

(* The row and column rieman makes of a desktop's _NET_DESKTOP_VIEWPORT    *)
(* (rie_event_desktop_viewport()): it marks this one as current.           *)
ViewportOf(screen, vp) ==
  [row |-> vp.y \div screen.root.h, col |-> vp.x \div screen.root.w]

(* rie_viewport_by_coords(): the slot and viewports hit, out of the boxes  *)
(* of the desktops shown, slot by slot.                                    *)
ViewportsHit(tpl, style, screen, dboxes, x, y) ==
  {hit \in (DOMAIN dboxes) \X (0..(Viewports(screen).rows - 1))
                           \X (0..(Viewports(screen).cols - 1)) :
     Hits(x, y, ViewportBox(tpl, style, dboxes[hit[1]], hit[2], hit[3]))}

(* rie_desktop_by_coords()                                                 *)
SlotsHit(dboxes, x, y) == {k \in DOMAIN dboxes : Hits(x, y, dboxes[k])}

-------------------------------------------------------------------------------
(* Windows and icons.                                                      *)

(* nearbyintf(): to the nearest integer, halves to the even one.           *)
Nearest(a, b) ==
  LET q == a \div b
      r == a % b
  IN  IF 2 * r > b \/ (2 * r = b /\ q % 2 = 1) THEN q + 1 ELSE q

(* Mutant of ScaleToDesktop: the monitor's place is not subtracted.        *)
ScaleFromOrigin(style, screen, dbox, box) ==
  LET area == AreaShown(screen)
      b == IF Several(Viewports(screen)) THEN style.vpborder ELSE 0
  IN  Rect(dbox.x + Nearest((dbox.w - b) * box.x, area.w),
           dbox.y + Nearest((dbox.h - b) * box.y, area.h),
           Nearest((dbox.w - b) * box.w, area.w),
           Nearest((dbox.h - b) * box.h, area.h))

(* rie_scale_to_desktop(): a window in a desktop's box.                    *)
ScaleToDesktop(style, screen, dbox, box) ==
  LET area == AreaShown(screen)
      b == IF Several(Viewports(screen)) THEN style.vpborder ELSE 0
  IN  Rect(dbox.x + Nearest((dbox.w - b) * (box.x - area.x), area.w),
           dbox.y + Nearest((dbox.h - b) * (box.y - area.y), area.h),
           Nearest((dbox.w - b) * box.w, area.w),
           Nearest((dbox.h - b) * box.h, area.h))

(* Mutant of HiddenBox: icons are never squeezed.                          *)
HiddenBoxSquare(style, pad, nhidden, idx) ==
  Rect(pad.x + idx * pad.h, pad.y + style.margin,
       pad.h, pad.h - style.margin * 2)

(* rie_draw_window(): the box in the label for the icon of hidden window   *)
(* number idx of nhidden; squares, unless they would not fit.              *)
HiddenBox(style, pad, nhidden, idx) ==
  LET w == IF pad.h * nhidden > pad.w THEN pad.w \div nhidden ELSE pad.h
  IN  Rect(pad.x + idx * w, pad.y + style.margin, w, pad.h - style.margin * 2)

(* ICON_BB_SCALE, 1.5, takes a window's box to that of its icon.           *)
IconRoom(wbox) == [w |-> (wbox.w * 2) \div 3, h |-> (wbox.h * 2) \div 3]

(* rie_render_select_icon(): the first of the icons whose dimension (w + h) *)
(* differs least from the room's, relative to its own.                     *)
SelectIcon(icons, wbox) ==
  LET room  == IconRoom(wbox).w + IconRoom(wbox).h
      dim(i) == icons[i].w + icons[i].h
      off(i) == IF dim(i) > room THEN dim(i) - room ELSE room - dim(i)
      closer(i, k) == off(i) * dim(k) < off(k) * dim(i)
  IN  CHOOSE i \in DOMAIN icons :
        \A k \in DOMAIN icons : IF k < i THEN closer(i, k) ELSE ~closer(k, i)

(* rie_box_fit() shrinks a box as much as its worst dimension needs.       *)
BoxFit(canvas, box) ==
  IF box.w < canvas.w /\ box.h < canvas.h THEN box
  ELSE IF canvas.w * box.h < canvas.h * box.w
       THEN [w |-> canvas.w, h |-> (box.h * canvas.w) \div box.w]
       ELSE [w |-> (box.w * canvas.h) \div box.h, h |-> canvas.h]

(* rie_render_icon(): an icon is drawn in the middle of its window, and as *)
(* large as the whole of it when it does not fit into its room.            *)
IconBox(wbox, icon) ==
  LET room == IconRoom(wbox)
      size == IF icon.w < room.w /\ icon.h < room.h THEN icon
              ELSE BoxFit(wbox, icon)
  IN  Rect(wbox.x + ((wbox.w - size.w) \div 2),
           wbox.y + ((wbox.h - size.h) \div 2), size.w, size.h)
===============================================================================
