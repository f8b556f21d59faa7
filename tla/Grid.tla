--------------------------------- MODULE Grid ---------------------------------
(***************************************************************************)
(* The grid of desktops rieman draws and the commands that move in it: how *)
(* many rows and columns there are, where each desktop is drawn, and which *)
(* desktop a switch_desktop_* command asks the window manager for          *)
(* (rie_render.c, rieman.c).                                               *)
(*                                                                         *)
(* A configuration is a record of layout.wrap, layout.orientation and      *)
(* layout.corner: [wrap, horz, corner].                                    *)
(***************************************************************************)
EXTENDS Integers

Corners == {"TOPLEFT", "TOPRIGHT", "BOTTOMLEFT", "BOTTOMRIGHT"}
Moves   == {"LEFT", "RIGHT", "UP", "DOWN"}
Switches == Moves \union {"PREV", "NEXT"}

OnRight(cfg)  == cfg.corner \in {"TOPRIGHT", "BOTTOMRIGHT"}
OnBottom(cfg) == cfg.corner \in {"BOTTOMLEFT", "BOTTOMRIGHT"}

(* How many groups of div are needed for val.                              *)
Nfold(val, div) ==
  IF val % div = 0 THEN val \div div ELSE val \div div + 1

(* The rows and columns for count desktops: a line is a row of a           *)
(* horizontal layout and a column of a vertical one.                       *)
Shape(cfg, count) ==
  LET line  == IF cfg.wrap = 0 \/ count < cfg.wrap THEN count ELSE cfg.wrap
      lines == Nfold(count, line)
  IN  IF cfg.horz THEN [rows |-> lines, cols |-> line]
                  ELSE [rows |-> line, cols |-> lines]

(* Mutant of Cell: the two counters wrap at different lengths.             *)
CellTwoLines(cfg, count, i) ==
  LET shape == Shape(cfg, count)
      row   == IF cfg.horz THEN i \div shape.rows ELSE i % shape.rows
      col   == IF cfg.horz THEN i % shape.cols ELSE i \div shape.cols
  IN  [row |-> IF OnBottom(cfg) THEN shape.rows - row - 1 ELSE row,
       col |-> IF OnRight(cfg) THEN shape.cols - col - 1 ELSE col]

(* Where the desktop in slot i of count visible ones is drawn: (lrow, lcol), *)
(* counted from the top left corner of the screen.                         *)
Cell(cfg, count, i) ==
  LET shape == Shape(cfg, count)
      line  == IF cfg.horz THEN shape.cols ELSE shape.rows
      row   == IF cfg.horz THEN i \div line ELSE i % line
      col   == IF cfg.horz THEN i % line ELSE i \div line
  IN  [row |-> IF OnBottom(cfg) THEN shape.rows - row - 1 ELSE row,
       col |-> IF OnRight(cfg) THEN shape.cols - col - 1 ELSE col]

(* Mutant of Step: left and right do not depend on the corner.             *)
StepNoCorner(cfg, shape, move) ==
  LET across == IF cfg.horz THEN 1 ELSE shape.rows
      along  == IF cfg.horz THEN shape.cols ELSE 1
  IN  CASE move = "RIGHT" -> across
        [] move = "LEFT"  -> -across
        [] move = "DOWN"  -> IF OnBottom(cfg) THEN -along ELSE along
        [] move = "UP"    -> IF OnBottom(cfg) THEN along ELSE -along

(* The difference between the numbers of a desktop and of its neighbour.   *)
Step(cfg, shape, move) ==
  LET across == IF cfg.horz THEN 1 ELSE shape.rows
      along  == IF cfg.horz THEN shape.cols ELSE 1
  IN  CASE move = "RIGHT" -> IF OnRight(cfg) THEN -across ELSE across
        [] move = "LEFT"  -> IF OnRight(cfg) THEN across ELSE -across
        [] move = "DOWN"  -> IF OnBottom(cfg) THEN -along ELSE along
        [] move = "UP"    -> IF OnBottom(cfg) THEN along ELSE -along

(* The commands that would leave the grid are ignored.                     *)
AtEdge(shape, cell, move) ==
  \/ move = "LEFT"  /\ cell.col = 0
  \/ move = "RIGHT" /\ cell.col = shape.cols - 1
  \/ move = "UP"    /\ cell.row = 0
  \/ move = "DOWN"  /\ cell.row = shape.rows - 1

(* rie_switch_desktop(): the set of desktops the command asks for, none or *)
(* one.  A number the code computes below zero is sent as an unsigned one, *)
(* a desktop that does not exist either way.                               *)
Target(cfg, shape, cell, curr, n, move) ==
  CASE move = "PREV" -> IF curr = 0 THEN {} ELSE {curr - 1}
    [] move = "NEXT" -> IF curr = n - 1 THEN {} ELSE {curr + 1}
    [] OTHER -> IF AtEdge(shape, cell, move) THEN {}
                ELSE {curr + Step(cfg, shape, move)}
===============================================================================
