----------------------------- MODULE PagerProofs ------------------------------
(***************************************************************************)
(* Proofs about Grid, Picture and Pager, for any number of desktops, any   *)
(* layout, style and screen.                                               *)
(***************************************************************************)
EXTENDS Pager, WellFoundedInduction, TLAPS

(***************************************************************************)
(* Division and products.                                                  *)
(***************************************************************************)

LEMMA Division ==
  ASSUME NEW a \in Nat, NEW b \in Nat \ {0}
  PROVE  /\ a \div b \in Nat
         /\ a % b \in 0..(b - 1)
         /\ a = b * (a \div b) + (a % b)
<1>1. a \div b \in Nat
  BY SMTT(20)
<1>2. a % b \in 0..(b - 1)
  BY SMTT(20)
<1>3. a = b * (a \div b) + (a % b)
  BY SMTT(20)
<1>. QED
  BY <1>1, <1>2, <1>3

LEMMA DivisionUnique ==
  ASSUME NEW a \in Nat, NEW b \in Nat \ {0}, NEW q \in Int, NEW r \in 0..(b - 1),
         a = b * q + r
  PROVE  a \div b = q /\ a % b = r
  BY SMTT(20)

LEMMA Product ==
  ASSUME NEW a \in Int, NEW b \in Int, NEW c \in Nat, a <= b
  PROVE  /\ a * c \in Int /\ b * c \in Int
         /\ a * c <= b * c /\ c * a <= c * b
         /\ a < b => a * c + c <= b * c
  BY SMTT(20)

LEMMA ProductNat ==
  ASSUME NEW a \in Nat, NEW b \in Nat
  PROVE  a * b \in Nat /\ a * b = b * a
  BY SMTT(20)

(* A product is not smaller than its first factor.                         *)
LEMMA ProductGrows ==
  ASSUME NEW a \in Nat, NEW b \in Nat \ {0}
  PROVE  a <= a * b
  BY SMTT(20)

(***************************************************************************)
(* The grid: its lines and the places in it, before corners are looked at. *)
(***************************************************************************)
Layout == [wrap : Nat, horz : BOOLEAN, corner : Corners]

LineLength(c, n) == IF c.wrap = 0 \/ n < c.wrap THEN n ELSE c.wrap
LineCount(c, n)  == Nfold(n, LineLength(c, n))

LEMMA ShapeIs ==
  ASSUME NEW c, NEW n
  PROVE  Shape(c, n) = IF c.horz
           THEN [rows |-> LineCount(c, n), cols |-> LineLength(c, n)]
           ELSE [rows |-> LineLength(c, n), cols |-> LineCount(c, n)]
  BY DEF Shape, LineLength, LineCount

(* There are as many lines as needed, and no more.                         *)
LEMMA LinesNeeded ==
  ASSUME NEW n \in Nat \ {0}, NEW l \in Nat \ {0}
  PROVE  /\ Nfold(n, l) \in Nat \ {0}
         /\ n <= l * Nfold(n, l)
         /\ l * (Nfold(n, l) - 1) < n
<1> DEFINE q == n \div l
           r == n % l
<1>1. q \in Nat /\ r \in 0..(l - 1) /\ n = l * q + r
  BY Division
<1>2. Nfold(n, l) = IF r = 0 THEN q ELSE q + 1
  BY DEF Nfold
<1> HIDE DEF q, r
<1>3. l * q \in Nat /\ l * (q + 1) = l * q + l /\ l * (q - 1) = l * q - l
  BY <1>1, SMTT(20)
<1>4. q = 0 => l * q = 0
  BY <1>1, SMTT(20)
<1>. QED
  BY <1>1, <1>2, <1>3, <1>4

LEMMA LinesFit ==
  ASSUME NEW c \in Layout, NEW n \in Nat \ {0}
  PROVE  /\ LineLength(c, n) \in 1..n
         /\ LineCount(c, n) \in Nat \ {0}
         /\ n <= LineLength(c, n) * LineCount(c, n)
         /\ LineLength(c, n) * (LineCount(c, n) - 1) < n
<1>1. LineLength(c, n) \in 1..n
  BY DEF LineLength, Layout
<1>. QED
  BY <1>1, LinesNeeded DEF LineCount

(* The line of slot i, and its place in it.                                *)
LineOf(c, n, i) == i \div LineLength(c, n)
InLine(c, n, i) == i % LineLength(c, n)

LEMMA SlotPlace ==
  ASSUME NEW c \in Layout, NEW n \in Nat \ {0}, NEW i \in 0..(n - 1)
  PROVE  /\ LineOf(c, n, i) \in 0..(LineCount(c, n) - 1)
         /\ InLine(c, n, i) \in 0..(LineLength(c, n) - 1)
         /\ i = LineLength(c, n) * LineOf(c, n, i) + InLine(c, n, i)
<1> DEFINE l == LineLength(c, n)
           m == LineCount(c, n)
           q == LineOf(c, n, i)
           r == InLine(c, n, i)
<1>1. l \in Nat \ {0} /\ m \in Nat \ {0} /\ n <= l * m /\ i \in Nat
  BY LinesFit
<1>2. q \in Nat /\ r \in 0..(l - 1) /\ i = l * q + r
  BY <1>1, Division DEF LineOf, InLine
<1> HIDE DEF l, m, q, r
<1>3. ASSUME q >= m PROVE FALSE
  BY <1>1, <1>2, <1>3, Product, SMTT(20)
<1>4. q \in 0..(m - 1)
  BY <1>1, <1>2, <1>3
<1>. QED
  BY <1>2, <1>4 DEF l, m, q, r

LEMMA SlotAt ==
  ASSUME NEW c \in Layout, NEW n \in Nat \ {0}, NEW i \in 0..(n - 1),
         NEW q \in Int, NEW r \in 0..(LineLength(c, n) - 1),
         i = LineLength(c, n) * q + r
  PROVE  LineOf(c, n, i) = q /\ InLine(c, n, i) = r
<1>1. LineLength(c, n) \in Nat \ {0} /\ i \in Nat
  BY LinesFit
<1>. QED
  BY <1>1, DivisionUnique DEF LineOf, InLine

(* Where the r-th of line q is drawn.                                      *)
DrawnAt(c, n, q, r) ==
  LET row == IF c.horz THEN q ELSE r
      col == IF c.horz THEN r ELSE q
  IN  [row |-> IF OnBottom(c) THEN Shape(c, n).rows - row - 1 ELSE row,
       col |-> IF OnRight(c) THEN Shape(c, n).cols - col - 1 ELSE col]

LEMMA CellIs ==
  ASSUME NEW c \in Layout, NEW n \in Nat \ {0}, NEW i \in 0..(n - 1)
  PROVE  Cell(c, n, i) = DrawnAt(c, n, LineOf(c, n, i), InLine(c, n, i))
  BY ShapeIs DEF Cell, DrawnAt, LineOf, InLine, Layout

(* Every desktop has a place in the grid,                                  *)
LEMMA CellInGrid ==
  ASSUME NEW c \in Layout, NEW n \in Nat \ {0}, NEW i \in 0..(n - 1)
  PROVE  /\ Shape(c, n).rows \in Nat \ {0} /\ Shape(c, n).cols \in Nat \ {0}
         /\ Cell(c, n, i) = [row |-> Cell(c, n, i).row, col |-> Cell(c, n, i).col]
         /\ Cell(c, n, i).row \in 0..(Shape(c, n).rows - 1)
         /\ Cell(c, n, i).col \in 0..(Shape(c, n).cols - 1)
  BY LinesFit, SlotPlace, CellIs, ShapeIs DEF DrawnAt

(* which no other desktop has.                                             *)
LEMMA CellsDiffer ==
  ASSUME NEW c \in Layout, NEW n \in Nat \ {0},
         NEW i \in 0..(n - 1), NEW k \in 0..(n - 1), Cell(c, n, i) = Cell(c, n, k)
  PROVE  i = k
<1>1. /\ LineOf(c, n, i) = LineOf(c, n, k)
      /\ InLine(c, n, i) = InLine(c, n, k)
  <2>1. DrawnAt(c, n, LineOf(c, n, i), InLine(c, n, i))
          = DrawnAt(c, n, LineOf(c, n, k), InLine(c, n, k))
    BY CellIs
  <2>2. /\ Shape(c, n).rows \in Nat /\ Shape(c, n).cols \in Nat
        /\ LineOf(c, n, i) \in Int /\ LineOf(c, n, k) \in Int
        /\ InLine(c, n, i) \in Int /\ InLine(c, n, k) \in Int
    BY SlotPlace, CellInGrid
  <2>. QED
    BY <2>1, <2>2 DEF DrawnAt
<1>. QED
  BY <1>1, SlotPlace

(* When the last line is full a desktop is drawn at every place.           *)
LEMMA EveryPlaceUsed ==
  ASSUME NEW c \in Layout, NEW n \in Nat \ {0},
         Shape(c, n).rows * Shape(c, n).cols = n,
         NEW row \in 0..(Shape(c, n).rows - 1), NEW col \in 0..(Shape(c, n).cols - 1)
  PROVE  \E i \in 0..(n - 1) : Cell(c, n, i) = [row |-> row, col |-> col]
<1> DEFINE l == LineLength(c, n)
           m == LineCount(c, n)
           drow == IF OnBottom(c) THEN Shape(c, n).rows - row - 1 ELSE row
           dcol == IF OnRight(c) THEN Shape(c, n).cols - col - 1 ELSE col
           q == IF c.horz THEN drow ELSE dcol
           r == IF c.horz THEN dcol ELSE drow
           i == l * q + r
<1>1. l \in Nat \ {0} /\ m \in Nat \ {0}
  BY LinesFit
<1>2. q \in 0..(m - 1) /\ r \in 0..(l - 1)
  BY <1>1, ShapeIs
<1>3. l * m = n
  BY <1>1, ShapeIs, ProductNat
<1>4. [row |-> row, col |-> col] = DrawnAt(c, n, q, r)
  BY <1>1, ShapeIs DEF DrawnAt
<1> HIDE DEF l, m, q, r
<1>5. i \in 0..(n - 1)
  BY <1>1, <1>2, <1>3, Product, ProductNat
<1>6. q \in Int /\ i = LineLength(c, n) * q + r /\ r \in 0..(LineLength(c, n) - 1)
  BY <1>2 DEF l
<1> HIDE DEF i
<1>7. LineOf(c, n, i) = q /\ InLine(c, n, i) = r
  BY <1>5, <1>6, SlotAt
<1>. QED
  BY <1>4, <1>5, <1>7, CellIs

(***************************************************************************)
(* Moves.                                                                  *)
(***************************************************************************)

(* The slots next to slot i: in its line and in the lines next to it.      *)
LEMMA SlotsBeside ==
  ASSUME NEW c \in Layout, NEW n \in Nat \ {0}, NEW i \in 0..(n - 1),
         LineLength(c, n) * LineCount(c, n) = n
  PROVE  LET l == LineLength(c, n)
             q == LineOf(c, n, i)
             r == InLine(c, n, i)
             IsAt(k, line, place) == /\ k \in 0..(n - 1)
                                     /\ Cell(c, n, k) = DrawnAt(c, n, line, place)
         IN  /\ r # l - 1 => IsAt(i + 1, q, r + 1)
             /\ r # 0     => IsAt(i - 1, q, r - 1)
             /\ q # LineCount(c, n) - 1 => IsAt(i + l, q + 1, r)
             /\ q # 0     => IsAt(i - l, q - 1, r)
<1> DEFINE l == LineLength(c, n)
           m == LineCount(c, n)
           q == LineOf(c, n, i)
           r == InLine(c, n, i)
<1>1. /\ l \in Nat \ {0} /\ m \in Nat \ {0} /\ l * m = n
      /\ q \in 0..(m - 1) /\ r \in 0..(l - 1) /\ i = l * q + r
  <2>1. l \in Nat \ {0} /\ m \in Nat \ {0}
    BY LinesFit
  <2>. QED
    BY <2>1, SlotPlace
<1>2. ASSUME NEW a \in 0..(m - 1), NEW b \in 0..(l - 1), NEW k \in Int,
             k = l * a + b
      PROVE  k \in 0..(n - 1) /\ Cell(c, n, k) = DrawnAt(c, n, a, b)
  <2> HIDE DEF l, m
  <2>1. k \in 0..(n - 1)
    BY <1>1, <1>2, Product, ProductNat
  <2>2. a \in Int /\ b \in 0..(LineLength(c, n) - 1) /\ k = LineLength(c, n) * a + b
    BY <1>2 DEF l
  <2>3. LineOf(c, n, k) = a /\ InLine(c, n, k) = b
    BY <2>1, <2>2, SlotAt
  <2>. QED
    BY <2>1, <2>3, CellIs
<1> HIDE DEF l, m, q, r
<1>3. l * (q + 1) = l * q + l /\ l * (q - 1) = l * q - l /\ l * q \in Int
  BY <1>1, SMTT(20)
<1>4. r # l - 1 => i + 1 \in 0..(n - 1) /\ Cell(c, n, i + 1) = DrawnAt(c, n, q, r + 1)
  BY <1>1, <1>2, <1>3
<1>5. r # 0 => i - 1 \in 0..(n - 1) /\ Cell(c, n, i - 1) = DrawnAt(c, n, q, r - 1)
  BY <1>1, <1>2, <1>3
<1>6. q # m - 1 => i + l \in 0..(n - 1) /\ Cell(c, n, i + l) = DrawnAt(c, n, q + 1, r)
  BY <1>1, <1>2, <1>3
<1>7. q # 0 => i - l \in 0..(n - 1) /\ Cell(c, n, i - l) = DrawnAt(c, n, q - 1, r)
  BY <1>1, <1>2, <1>3
<1>. QED
  BY <1>4, <1>5, <1>6, <1>7 DEF l, m, q, r

(* A move changes the number of the desktop in its line or the line, and   *)
(* makes it larger or smaller.                                             *)
Along(c, move) == c.horz <=> move \in {"LEFT", "RIGHT"}
Ahead(c, move) ==
  CASE move = "RIGHT" -> ~OnRight(c)
    [] move = "LEFT"  -> OnRight(c)
    [] move = "DOWN"  -> ~OnBottom(c)
    [] move = "UP"    -> OnBottom(c)

LEMMA StepIs ==
  ASSUME NEW c \in Layout, NEW n \in Nat \ {0}, NEW move \in Moves
  PROVE  LET by == IF Along(c, move) THEN 1 ELSE LineLength(c, n)
         IN  Step(c, Shape(c, n), move) = IF Ahead(c, move) THEN by ELSE -by
  BY ShapeIs DEF Step, Along, Ahead, Moves, Layout

LEMMA BesideIs ==
  ASSUME NEW c \in Layout, NEW n \in Nat \ {0}, NEW q \in Int, NEW r \in Int,
         NEW move \in Moves
  PROVE  Beside(DrawnAt(c, n, q, r), move) =
           IF Along(c, move)
           THEN DrawnAt(c, n, q, IF Ahead(c, move) THEN r + 1 ELSE r - 1)
           ELSE DrawnAt(c, n, IF Ahead(c, move) THEN q + 1 ELSE q - 1, r)
<1>1. Shape(c, n).rows \in Int /\ Shape(c, n).cols \in Int
  BY ShapeIs, LinesFit
<1>2. CASE move = "LEFT"
  BY <1>1, <1>2 DEF Beside, DrawnAt, Along, Ahead, Layout
<1>3. CASE move = "RIGHT"
  BY <1>1, <1>3 DEF Beside, DrawnAt, Along, Ahead, Layout
<1>4. CASE move = "UP"
  BY <1>1, <1>4 DEF Beside, DrawnAt, Along, Ahead, Layout
<1>5. CASE move = "DOWN"
  BY <1>1, <1>5 DEF Beside, DrawnAt, Along, Ahead, Layout
<1>. QED
  BY <1>2, <1>3, <1>4, <1>5 DEF Moves

LEMMA EdgeIs ==
  ASSUME NEW c \in Layout, NEW n \in Nat \ {0}, NEW q \in Int, NEW r \in Int,
         NEW move \in Moves
  PROVE  AtEdge(Shape(c, n), DrawnAt(c, n, q, r), move) <=>
           IF Along(c, move)
           THEN r = IF Ahead(c, move) THEN LineLength(c, n) - 1 ELSE 0
           ELSE q = IF Ahead(c, move) THEN LineCount(c, n) - 1 ELSE 0
<1>1. LineLength(c, n) \in Int /\ LineCount(c, n) \in Int
  BY LinesFit
<1>2. CASE move = "LEFT"
  BY <1>1, ShapeIs, <1>2 DEF AtEdge, DrawnAt, Along, Ahead, Layout
<1>3. CASE move = "RIGHT"
  BY <1>1, ShapeIs, <1>3 DEF AtEdge, DrawnAt, Along, Ahead, Layout
<1>4. CASE move = "UP"
  BY <1>1, ShapeIs, <1>4 DEF AtEdge, DrawnAt, Along, Ahead, Layout
<1>5. CASE move = "DOWN"
  BY <1>1, ShapeIs, <1>5 DEF AtEdge, DrawnAt, Along, Ahead, Layout
<1>. QED
  BY <1>2, <1>3, <1>4, <1>5 DEF Moves

(* On a grid without holes a command that is not ignored leads to the      *)
(* desktop drawn beside the current one.                                   *)
LEMMA StepBeside ==
  ASSUME NEW c \in Layout, NEW n \in Nat \ {0}, NEW i \in 0..(n - 1),
         Shape(c, n).rows * Shape(c, n).cols = n, NEW move \in Moves,
         ~AtEdge(Shape(c, n), Cell(c, n, i), move)
  PROVE  /\ i + Step(c, Shape(c, n), move) \in 0..(n - 1)
         /\ Cell(c, n, i + Step(c, Shape(c, n), move)) = Beside(Cell(c, n, i), move)
<1> DEFINE l == LineLength(c, n)
           m == LineCount(c, n)
           q == LineOf(c, n, i)
           r == InLine(c, n, i)
<1>1. l \in Nat /\ m \in Nat /\ q \in Int /\ r \in Int /\ l * m = n
  <2>1. l \in Nat /\ m \in Nat
    BY LinesFit
  <2>2. l * m = n
    BY <2>1, ShapeIs, ProductNat
  <2>. QED
    BY <2>1, <2>2, SlotPlace
<1>2. Cell(c, n, i) = DrawnAt(c, n, q, r)
  BY CellIs
<1>3. /\ r # l - 1 => i + 1 \in 0..(n - 1) /\ Cell(c, n, i + 1) = DrawnAt(c, n, q, r + 1)
      /\ r # 0 => i - 1 \in 0..(n - 1) /\ Cell(c, n, i - 1) = DrawnAt(c, n, q, r - 1)
      /\ q # m - 1 => i + l \in 0..(n - 1) /\ Cell(c, n, i + l) = DrawnAt(c, n, q + 1, r)
      /\ q # 0 => i - l \in 0..(n - 1) /\ Cell(c, n, i - l) = DrawnAt(c, n, q - 1, r)
  BY <1>1, SlotsBeside
<1>4. Step(c, Shape(c, n), move) =
        IF Along(c, move) THEN IF Ahead(c, move) THEN 1 ELSE -1
                          ELSE IF Ahead(c, move) THEN l ELSE -l
  BY StepIs
<1>5. Beside(Cell(c, n, i), move) =
        IF Along(c, move)
        THEN DrawnAt(c, n, q, IF Ahead(c, move) THEN r + 1 ELSE r - 1)
        ELSE DrawnAt(c, n, IF Ahead(c, move) THEN q + 1 ELSE q - 1, r)
  BY <1>1, <1>2, BesideIs
<1>6. IF Along(c, move) THEN r # IF Ahead(c, move) THEN l - 1 ELSE 0
                        ELSE q # IF Ahead(c, move) THEN m - 1 ELSE 0
  BY <1>1, <1>2, EdgeIs
<1>7. i + (-1) = i - 1 /\ i + (-l) = i - l
  BY <1>1
<1> HIDE DEF l, m, q, r
<1>. QED
  BY <1>3, <1>4, <1>5, <1>6, <1>7

(* and one that is ignored would have left the grid.                       *)
LEMMA EdgeAlone ==
  ASSUME NEW c \in Layout, NEW n \in Nat \ {0},
         NEW i \in 0..(n - 1), NEW k \in 0..(n - 1), NEW move \in Moves,
         AtEdge(Shape(c, n), Cell(c, n, i), move)
  PROVE  Cell(c, n, k) # Beside(Cell(c, n, i), move)
<1>1. /\ Cell(c, n, i).row \in 0..(Shape(c, n).rows - 1)
      /\ Cell(c, n, i).col \in 0..(Shape(c, n).cols - 1)
      /\ Cell(c, n, i) = [row |-> Cell(c, n, i).row, col |-> Cell(c, n, i).col]
  BY CellInGrid
<1>2. /\ Cell(c, n, k).row \in 0..(Shape(c, n).rows - 1)
      /\ Cell(c, n, k).col \in 0..(Shape(c, n).cols - 1)
  BY CellInGrid
<1>. QED
  BY <1>1, <1>2 DEF AtEdge, Beside, Moves

(***************************************************************************)
(* The inductive invariant of Pager: the picture stays as it was drawn and *)
(* the walk stays in it.                                                   *)
(***************************************************************************)
PagerInv ==
  /\ cfg \in Configs
  /\ count \in 1..MaxDesktops
  /\ first \in 0..MaxFirst
  /\ at \in Shown
  /\ style \in Styles
  /\ screen \in Screens
  /\ tpl = Template(style, screen)
  /\ boxes = [d \in Shown |-> DesktopBoxes(tpl, style, CellOf(d))]

LEMMA PagerInvAlways == Spec => []PagerInv
<1>1. Init => PagerInv
  BY BoundsAssumption DEF Init, PagerInv, Shown
<1>2. PagerInv /\ [Next]_vars => PagerInv'
  BY DEF PagerInv, Next, Walk, vars, fixed, Shown, CellOf
<1>. QED
  BY <1>1, <1>2, PTL DEF Spec

LEMMA InvTypes ==
  ASSUME PagerInv
  PROVE  /\ cfg \in Layout /\ count \in Nat \ {0} /\ first \in Nat
         /\ \A d \in Shown : d \in Nat /\ d - first \in 0..(count - 1)
         /\ \A k \in 0..(count - 1) : first + k \in Shown
         /\ at \in Shown
  BY BoundsAssumption DEF PagerInv, Configs, Layout, Shown

(* On a grid without holes the commands agree with the picture.            *)
LEMMA InvMoves == PagerInv => MovesOnScreen
<1> SUFFICES ASSUME PagerInv, Full, NEW move \in Moves
             PROVE  Asked(move) = Neighbour(move)
  BY DEF MovesOnScreen
<1> DEFINE i == at - first
           step == Step(cfg, Grids, move)
<1>1. /\ cfg \in Layout /\ count \in Nat \ {0} /\ first \in Nat
      /\ at \in Nat /\ i \in 0..(count - 1)
      /\ \A d \in Shown : d \in Nat /\ d - first \in 0..(count - 1)
      /\ \A k \in 0..(count - 1) : first + k \in Shown
  BY InvTypes
<1>2. Asked(move) = IF AtEdge(Grids, CellOf(at), move) THEN {} ELSE {at + step}
  BY DEF Asked, Target, Moves
<1>3. CASE AtEdge(Grids, CellOf(at), move)
  <2>1. \A d \in Shown : CellOf(d) # Beside(CellOf(at), move)
    BY <1>1, <1>3, EdgeAlone DEF CellOf, Grids
  <2>. QED
    BY <1>2, <1>3, <2>1 DEF Neighbour
<1>4. CASE ~AtEdge(Grids, CellOf(at), move)
  <2>1. /\ i + step \in 0..(count - 1)
        /\ Cell(cfg, count, i + step) = Beside(CellOf(at), move)
    BY <1>1, <1>4, StepBeside DEF CellOf, Grids, Full
  <2>2. step \in Int
    BY <1>1, StepIs, LinesFit DEF Grids
  <2>3. at + step \in Shown /\ at + step - first = i + step
    BY <1>1, <2>1, <2>2 DEF Shown
  <2>4. at + step \in Neighbour(move)
    <3> HIDE DEF i, step
    <3>1. CellOf(at + step) = Cell(cfg, count, i + step)
      BY <1>1, <2>1, <2>2, <2>3 DEF CellOf
    <3>. QED
      BY <2>1, <2>3, <3>1 DEF Neighbour
  <2>5. ASSUME NEW d \in Neighbour(move) PROVE d = at + step
    <3>1. d \in Shown /\ Cell(cfg, count, d - first) = Cell(cfg, count, i + step)
      BY <2>1, <2>5 DEF Neighbour, CellOf
    <3>2. d - first = i + step
      BY <1>1, <2>1, <3>1, CellsDiffer
    <3>. QED
      BY <1>1, <2>2, <3>1, <3>2
  <2>. QED
    BY <1>2, <1>4, <2>4, <2>5
<1>. QED
  BY <1>3, <1>4

(***************************************************************************)
(* Sizes.                                                                  *)
(***************************************************************************)
StyleType == [w : Nat, h : Nat, text : Nat, margin : Nat, pad : BOOLEAN,
              above : BOOLEAN, border : Nat, vpborder : Nat]

Area == [x : Nat, y : Nat, w : Nat, h : Nat]
ScreenType ==
  {s \in [geom : Area, root : Area, monitor : Area, subset : BOOLEAN] :
     /\ AreaShown(s).w > 0 /\ AreaShown(s).h > 0
     /\ s.root.w > 0 /\ s.root.h > 0
     /\ s.subset => s.monitor.w <= s.root.w /\ s.monitor.h <= s.root.h}

LEMMA ScreenSizes ==
  ASSUME NEW s \in ScreenType
  PROVE  /\ AreaShown(s) \in Area /\ s.geom \in Area
         /\ AreaShown(s).w \in Nat \ {0} /\ AreaShown(s).h \in Nat \ {0}
         /\ s.root.w \in Nat \ {0} /\ s.root.h \in Nat \ {0}
         /\ s.geom.w \in Nat /\ s.geom.h \in Nat
  BY DEF ScreenType, Area, AreaShown

LEMMA ViewportsPositive ==
  ASSUME NEW s \in ScreenType
  PROVE  Viewports(s).rows \in Nat \ {0} /\ Viewports(s).cols \in Nat \ {0}
<1>1. /\ AreaShown(s).h \div s.root.h \in Nat
      /\ AreaShown(s).w \div s.root.w \in Nat
  BY ScreenSizes, Division
<1>. QED
  BY <1>1 DEF Viewports, Larger

(* The sizes of the parts of a desktop fit together: viewports and their   *)
(* borders into the picture, picture and label into the cell.              *)
VpBorder(s, st) == IF Several(Viewports(s)) THEN st.vpborder ELSE 0

LEMMA TemplateSizes ==
  ASSUME NEW st \in StyleType, NEW s \in ScreenType, NEW t, t = Template(st, s)
  PROVE  /\ t.dbox.w \in Nat /\ t.dbox.h \in Nat /\ t.pad.h \in Nat
         /\ t.pad.w = t.dbox.w
         /\ t.cell.w = t.dbox.w /\ t.cell.h = t.dbox.h + t.pad.h
         /\ t.vp.w \in Nat /\ t.vp.h \in Nat
         /\ st.pad => t.pad.h = st.text + st.margin * 2
         /\ Viewports(s).cols * t.vp.w + VpBorder(s, st) * (Viewports(s).cols + 1)
              <= t.dbox.w
         /\ Viewports(s).rows * t.vp.h + VpBorder(s, st) * (Viewports(s).rows + 1)
              <= t.dbox.h
<1> DEFINE rows == Viewports(s).rows
           cols == Viewports(s).cols
           b    == VpBorder(s, st)
           high == IF st.h # 0 THEN st.h
                   ELSE (st.w * AreaShown(s).h) \div AreaShown(s).w
<1>1. rows \in Nat \ {0} /\ cols \in Nat \ {0}
  BY ViewportsPositive
<1>2. /\ st.w \in Nat /\ st.h \in Nat /\ st.text \in Nat /\ st.margin \in Nat
      /\ st.pad \in BOOLEAN /\ b \in Nat
  BY DEF StyleType, VpBorder
<1>3. high \in Nat
  <2>1. st.w * AreaShown(s).h \in Nat /\ AreaShown(s).w \in Nat \ {0}
    BY <1>2, ScreenSizes, ProductNat
  <2>. QED
    BY <1>2, <2>1, Division
<1>4. t = [dbox |-> [w |-> st.w + b * (cols + 1), h |-> high + b * (rows + 1)],
           pad  |-> [w |-> st.w + b * (cols + 1),
                     h |-> IF st.pad THEN st.text + st.margin * 2 ELSE 0],
           cell |-> [w |-> st.w + b * (cols + 1),
                     h |-> high + b * (rows + 1)
                           + (IF st.pad THEN st.text + st.margin * 2 ELSE 0)],
           vp   |-> [w |-> st.w \div cols, h |-> high \div rows]]
  BY DEF Template, VpBorder
<1> HIDE DEF rows, cols, b, high
<1>5. b * (cols + 1) \in Nat /\ b * (rows + 1) \in Nat
  BY <1>1, <1>2, ProductNat
<1>6. /\ st.w \div cols \in Nat /\ cols * (st.w \div cols) <= st.w
      /\ high \div rows \in Nat /\ rows * (high \div rows) <= high
  <2>1. /\ st.w \div cols \in Nat /\ st.w % cols \in Nat
        /\ st.w = cols * (st.w \div cols) + (st.w % cols)
    <3>1. PICK wide \in Nat : wide = st.w
      BY <1>2
    <3>2. /\ wide \div cols \in Nat /\ wide % cols \in Nat
          /\ wide = cols * (wide \div cols) + (wide % cols)
      BY <1>1, Division
    <3>. QED
      BY <3>1, <3>2
  <2>2. /\ high \div rows \in Nat /\ high % rows \in Nat
        /\ high = rows * (high \div rows) + (high % rows)
    BY <1>1, <1>3, Division
  <2>. QED
    BY <1>1, <1>2, <1>3, <2>1, <2>2, ProductNat
<1>. QED
  BY <1>1, <1>2, <1>3, <1>4, <1>5, <1>6, ProductNat DEF rows, cols, b

(***************************************************************************)
(* Boxes side by side: n of width w with borders of b around each.         *)
(***************************************************************************)
LEMMA SideBySide ==
  ASSUME NEW w \in Nat, NEW b \in Nat, NEW k \in Nat, NEW n \in Nat, k < n
  PROVE  /\ k * w + b * (k + 1) \in Nat
         /\ k * w + b * (k + 1) >= b
         /\ k * w + b * (k + 1) + w + b <= n * w + b * (n + 1)
<1>1. k * w + w <= n * w /\ k * w \in Nat /\ n * w \in Nat
  BY Product, ProductNat
<1>2. /\ b * (k + 1) = b * k + b /\ b * (n + 1) = b * n + b
      /\ b * k + b <= b * n /\ b * k \in Nat /\ b * n \in Nat
  BY SMTT(20)
<1>. QED
  BY <1>1, <1>2

(***************************************************************************)
(* The boxes of a desktop.                                                 *)
(***************************************************************************)
PartsFit(t, st) ==
  /\ t.dbox.w \in Nat /\ t.dbox.h \in Nat /\ t.pad.h \in Nat
  /\ t.pad.w = t.dbox.w
  /\ t.cell.w = t.dbox.w /\ t.cell.h = t.dbox.h + t.pad.h
  /\ st.border \in Nat /\ st.above \in BOOLEAN

(* Left and upper side of the desktop at a place.                          *)
Left(t, st, place) == place.col * t.cell.w + st.border * (place.col + 1)
Top(t, st, place)  == place.row * t.cell.h + st.border * (place.row + 1)

LEMMA PlaceInside ==
  ASSUME NEW t, NEW st, PartsFit(t, st),
         NEW shape, shape.rows \in Nat, shape.cols \in Nat,
         NEW p, p.row \in 0..(shape.rows - 1), p.col \in 0..(shape.cols - 1)
  PROVE  /\ Left(t, st, p) \in Nat /\ Top(t, st, p) \in Nat
         /\ st.border <= Left(t, st, p) /\ st.border <= Top(t, st, p)
         /\ Left(t, st, p) + t.cell.w + st.border
              <= PagerSize(t, st.border, shape).w
         /\ Top(t, st, p) + t.cell.h + st.border
              <= PagerSize(t, st.border, shape).h
<1>1. /\ p.col \in Nat /\ shape.cols \in Nat /\ p.col < shape.cols
      /\ p.row \in Nat /\ shape.rows \in Nat /\ p.row < shape.rows
      /\ t.cell.w \in Nat /\ t.cell.h \in Nat /\ st.border \in Nat
  BY DEF PartsFit
<1>2. /\ Left(t, st, p) \in Nat /\ st.border <= Left(t, st, p)
      /\ Left(t, st, p) + t.cell.w + st.border
           <= shape.cols * t.cell.w + st.border * (shape.cols + 1)
  BY <1>1, SideBySide DEF Left
<1>3. /\ Top(t, st, p) \in Nat /\ st.border <= Top(t, st, p)
      /\ Top(t, st, p) + t.cell.h + st.border
           <= shape.rows * t.cell.h + st.border * (shape.rows + 1)
  BY <1>1, SideBySide DEF Top
<1>4. /\ PagerSize(t, st.border, shape).w
           = shape.cols * t.cell.w + st.border * (shape.cols + 1)
      /\ PagerSize(t, st.border, shape).h
           = shape.rows * t.cell.h + st.border * (shape.rows + 1)
  BY <1>1, ProductNat DEF PagerSize
<1>. QED
  BY <1>2, <1>3, <1>4

LEMMA PlacesApart ==
  ASSUME NEW t, NEW st, PartsFit(t, st), NEW p, NEW q,
         p.row \in Nat, p.col \in Nat, q.row \in Nat, q.col \in Nat
  PROVE  /\ p.col < q.col => Left(t, st, p) + t.cell.w <= Left(t, st, q)
         /\ p.row < q.row => Top(t, st, p) + t.cell.h <= Top(t, st, q)
<1>1. t.cell.w \in Nat /\ t.cell.h \in Nat /\ st.border \in Nat
  BY DEF PartsFit
<1>2. ASSUME NEW k \in Nat, NEW n \in Nat, NEW w \in Nat, NEW b \in Nat, k < n
      PROVE  k * w + b * (k + 1) + w <= n * w + b * (n + 1)
  <2>1. /\ k * w + b * (k + 1) \in Nat /\ n * w + b * (n + 1) \in Int
        /\ k * w + b * (k + 1) + w + b <= n * w + b * (n + 1)
    BY <1>2, SideBySide, ProductNat
  <2>. QED
    BY <2>1
<1>3. p.col < q.col => Left(t, st, p) + t.cell.w <= Left(t, st, q)
  BY <1>1, <1>2 DEF Left
<1>4. p.row < q.row => Top(t, st, p) + t.cell.h <= Top(t, st, q)
  BY <1>1, <1>2 DEF Top
<1>. QED
  BY <1>3, <1>4

LEMMA BoxesAre ==
  ASSUME NEW t, NEW st, PartsFit(t, st), NEW p, p.row \in Nat, p.col \in Nat
  PROVE  LET x == Left(t, st, p)
             y == Top(t, st, p)
             r == DesktopBoxes(t, st, p)
         IN  /\ x \in Nat /\ y \in Nat
             /\ r.cell = Rect(x, y, t.cell.w, t.cell.h)
             /\ r.dbox = Rect(x, IF st.above THEN y + t.pad.h ELSE y,
                              t.dbox.w, t.dbox.h)
             /\ r.pad = Rect(x, IF st.above THEN y ELSE y + t.dbox.h,
                             t.dbox.w, t.pad.h)
             /\ Within(r.dbox, r.cell) /\ Within(r.pad, r.cell)
             /\ Apart(r.dbox, r.pad)
<1> DEFINE x == Left(t, st, p)
           y == Top(t, st, p)
           r == DesktopBoxes(t, st, p)
<1>1. x \in Nat /\ y \in Nat
  BY ProductNat DEF Left, Top, PartsFit
<1>2. /\ r.cell = Rect(x, y, t.cell.w, t.cell.h)
      /\ r.dbox = Rect(x, IF st.above THEN y + t.pad.h ELSE y, t.dbox.w, t.dbox.h)
      /\ r.pad = Rect(x, IF st.above THEN y ELSE y + t.dbox.h, t.dbox.w, t.pad.h)
  BY DEF DesktopBoxes, Left, Top, PartsFit
<1> HIDE DEF x, y, r
<1>3. /\ Within(r.dbox, r.cell) /\ Within(r.pad, r.cell)
      /\ Apart(r.dbox, r.pad)
  BY <1>1, <1>2 DEF PartsFit, Within, Apart, Rect
<1>. QED
  BY <1>1, <1>2, <1>3 DEF x, y, r

(* The viewports of a desktop, each with a border around it.               *)
LEMMA ViewportsInside ==
  ASSUME NEW st \in StyleType, NEW s \in ScreenType, NEW t, t = Template(st, s),
         Several(Viewports(s)),
         NEW box, box.x \in Nat, box.y \in Nat,
         box.w = t.dbox.w, box.h = t.dbox.h,
         NEW i \in 0..(Viewports(s).rows - 1), NEW j \in 0..(Viewports(s).cols - 1),
         NEW k \in 0..(Viewports(s).rows - 1), NEW l \in 0..(Viewports(s).cols - 1)
  PROVE  LET mine  == ViewportBox(t, st, box, i, j)
             other == ViewportBox(t, st, box, k, l)
         IN  /\ mine.x \in Nat /\ mine.y \in Nat /\ mine.w \in Nat /\ mine.h \in Nat
             /\ Within(mine, box)
             /\ Within(Widened(mine, st.vpborder), box)
             /\ <<i, j>> # <<k, l>> =>
                  Apart(Widened(mine, st.vpborder), other) /\ Apart(mine, other)
<1> DEFINE rows == Viewports(s).rows
           cols == Viewports(s).cols
           b == st.vpborder
           w == t.vp.w
           h == t.vp.h
           X(n) == n * w + b * (n + 1)
           Y(n) == n * h + b * (n + 1)
<1>1. /\ rows \in Nat /\ cols \in Nat /\ b \in Nat /\ w \in Nat /\ h \in Nat
      /\ cols * w + b * (cols + 1) <= box.w
      /\ rows * h + b * (rows + 1) <= box.h
      /\ box.w \in Nat /\ box.h \in Nat
      /\ i \in Nat /\ j \in Nat /\ k \in Nat /\ l \in Nat
      /\ i < rows /\ k < rows /\ j < cols /\ l < cols
  BY ViewportsPositive, TemplateSizes DEF VpBorder, StyleType
<1>2. /\ ViewportBox(t, st, box, i, j) = Rect(X(j) + box.x, Y(i) + box.y, w, h)
      /\ ViewportBox(t, st, box, k, l) = Rect(X(l) + box.x, Y(k) + box.y, w, h)
  BY <1>1, ProductNat DEF ViewportBox
<1> HIDE DEF rows, cols, b, w, h
<1>3. /\ X(j) \in Nat /\ X(j) >= b /\ X(j) + w + b <= box.w
      /\ X(l) \in Nat /\ X(l) >= b /\ X(l) + w + b <= box.w
  <2>1. cols * w + b * (cols + 1) \in Nat
    BY <1>1, ProductNat
  <2>. QED
    BY <1>1, <2>1, SideBySide
<1>4. /\ Y(i) \in Nat /\ Y(i) >= b /\ Y(i) + h + b <= box.h
      /\ Y(k) \in Nat /\ Y(k) >= b /\ Y(k) + h + b <= box.h
  <2>1. rows * h + b * (rows + 1) \in Nat
    BY <1>1, ProductNat
  <2>. QED
    BY <1>1, <2>1, SideBySide
<1>5. /\ j < l => X(j) + w + b <= X(l)
      /\ l < j => X(l) + w + b <= X(j)
  BY <1>1, SideBySide
<1>6. /\ i < k => Y(i) + h + b <= Y(k)
      /\ k < i => Y(k) + h + b <= Y(i)
  BY <1>1, SideBySide
<1> HIDE DEF X, Y
<1>7. <<i, j>> # <<k, l>> => i < k \/ k < i \/ j < l \/ l < j
  BY <1>1
<1> DEFINE mine  == ViewportBox(t, st, box, i, j)
           other == ViewportBox(t, st, box, k, l)
<1> HIDE DEF mine, other
<1>8. /\ mine.x = X(j) + box.x /\ mine.y = Y(i) + box.y /\ mine.w = w /\ mine.h = h
      /\ other.x = X(l) + box.x /\ other.y = Y(k) + box.y
      /\ other.w = w /\ other.h = h
  BY <1>2 DEF Rect, mine, other
<1>9. Within(mine, box) /\ Within(Widened(mine, b), box)
  BY <1>1, <1>3, <1>4, <1>8 DEF Within, Widened, Rect
<1>10. <<i, j>> # <<k, l>> => Apart(Widened(mine, b), other) /\ Apart(mine, other)
  BY <1>1, <1>3, <1>4, <1>5, <1>6, <1>7, <1>8 DEF Apart, Widened, Rect
<1>11. mine.x \in Nat /\ mine.y \in Nat /\ mine.w \in Nat /\ mine.h \in Nat
  BY <1>1, <1>3, <1>4, <1>8
<1>. QED
  BY <1>9, <1>10, <1>11 DEF mine, other, b

(***************************************************************************)
(* What is drawn, in a state of Pager.                                     *)
(***************************************************************************)
LEMMA InvStyle ==
  ASSUME PagerInv
  PROVE  /\ style \in StyleType /\ screen \in ScreenType
         /\ tpl = Template(style, screen)
         /\ PartsFit(tpl, style)
<1>1. style \in StyleType /\ screen \in ScreenType /\ tpl = Template(style, screen)
  BY StylesAssumption, ScreensAssumption DEF PagerInv, StyleType, ScreenType, Area
<1>. QED
  BY <1>1, TemplateSizes DEF PartsFit, StyleType

LEMMA InvCell ==
  ASSUME PagerInv, NEW d \in Shown
  PROVE  /\ Grids.rows \in Nat \ {0} /\ Grids.cols \in Nat \ {0}
         /\ CellOf(d).row \in 0..(Grids.rows - 1)
         /\ CellOf(d).col \in 0..(Grids.cols - 1)
         /\ CellOf(d) = [row |-> CellOf(d).row, col |-> CellOf(d).col]
         /\ boxes[d] = DesktopBoxes(tpl, style, CellOf(d))
<1>1. boxes[d] = DesktopBoxes(tpl, style, CellOf(d))
  BY DEF PagerInv
<1>2. cfg \in Layout /\ count \in Nat \ {0} /\ d - first \in 0..(count - 1)
  BY InvTypes
<1>. QED
  BY <1>1, <1>2, CellInGrid DEF Grids, CellOf

LEMMA InvCellsApart ==
  ASSUME PagerInv, NEW d \in Shown, NEW e \in Shown, d # e
  PROVE  Apart(boxes[d].cell, boxes[e].cell)
<1> DEFINE p == CellOf(d)
           q == CellOf(e)
<1>1. p # q
  BY InvTypes, CellsDiffer DEF CellOf
<1>2. /\ p.row \in Nat /\ p.col \in Nat /\ q.row \in Nat /\ q.col \in Nat
      /\ p = [row |-> p.row, col |-> p.col] /\ q = [row |-> q.row, col |-> q.col]
      /\ boxes[d] = DesktopBoxes(tpl, style, p)
      /\ boxes[e] = DesktopBoxes(tpl, style, q)
  BY InvCell
<1> HIDE DEF p, q
<1>3. p.row < q.row \/ q.row < p.row \/ p.col < q.col \/ q.col < p.col
  BY <1>1, <1>2
<1>4. PartsFit(tpl, style)
  BY InvStyle
<1>5. /\ boxes[d].cell = Rect(Left(tpl, style, p), Top(tpl, style, p),
                              tpl.cell.w, tpl.cell.h)
      /\ boxes[e].cell = Rect(Left(tpl, style, q), Top(tpl, style, q),
                              tpl.cell.w, tpl.cell.h)
  BY <1>2, <1>4, BoxesAre
<1>6. /\ p.col < q.col => Left(tpl, style, p) + tpl.cell.w <= Left(tpl, style, q)
      /\ q.col < p.col => Left(tpl, style, q) + tpl.cell.w <= Left(tpl, style, p)
      /\ p.row < q.row => Top(tpl, style, p) + tpl.cell.h <= Top(tpl, style, q)
      /\ q.row < p.row => Top(tpl, style, q) + tpl.cell.h <= Top(tpl, style, p)
  BY <1>2, <1>4, PlacesApart
<1>. QED
  BY <1>3, <1>5, <1>6 DEF Apart, Rect

(* Everything is drawn inside the window, and nothing covers another.      *)
LEMMA InvDrawnApart == PagerInv => DrawnApart
<1> SUFFICES ASSUME PagerInv, NEW d \in Shown
             PROVE  /\ Within(Widened(boxes[d].cell, style.border), Window)
                    /\ Within(boxes[d].dbox, boxes[d].cell)
                    /\ Within(boxes[d].pad, boxes[d].cell)
                    /\ Apart(boxes[d].dbox, boxes[d].pad)
                    /\ \A e \in Shown \ {d} : Apart(boxes[d].cell, boxes[e].cell)
                    /\ ViewportsApart(boxes[d].dbox)
  BY DEF DrawnApart
<1> DEFINE p == CellOf(d)
<1>1. /\ style \in StyleType /\ screen \in ScreenType
      /\ tpl = Template(style, screen) /\ PartsFit(tpl, style)
  BY InvStyle
<1>2. /\ Grids.rows \in Nat /\ Grids.cols \in Nat
      /\ p.row \in 0..(Grids.rows - 1) /\ p.col \in 0..(Grids.cols - 1)
      /\ p.row \in Nat /\ p.col \in Nat
      /\ boxes[d] = DesktopBoxes(tpl, style, p)
  BY InvCell
<1> HIDE DEF p
<1> DEFINE x == Left(tpl, style, p)
           y == Top(tpl, style, p)
<1>3. /\ x \in Nat /\ y \in Nat
      /\ boxes[d].cell = Rect(x, y, tpl.cell.w, tpl.cell.h)
      /\ boxes[d].dbox = Rect(x, IF style.above THEN y + tpl.pad.h ELSE y,
                              tpl.dbox.w, tpl.dbox.h)
      /\ Within(boxes[d].dbox, boxes[d].cell) /\ Within(boxes[d].pad, boxes[d].cell)
      /\ Apart(boxes[d].dbox, boxes[d].pad)
  BY <1>1, <1>2, BoxesAre
<1>4. /\ style.border <= x /\ style.border <= y
      /\ x + tpl.cell.w + style.border <= PagerSize(tpl, style.border, Grids).w
      /\ y + tpl.cell.h + style.border <= PagerSize(tpl, style.border, Grids).h
  BY <1>1, <1>2, PlaceInside
<1> HIDE DEF x, y
<1>5. Within(Widened(boxes[d].cell, style.border), Window)
  <2>1. /\ PagerSize(tpl, style.border, Grids).w \in Int
        /\ PagerSize(tpl, style.border, Grids).h \in Int
    BY <1>1, <1>2, ProductNat DEF PagerSize, PartsFit
  <2>. QED
    BY <1>1, <1>3, <1>4, <2>1 DEF Within, Widened, Window, Size, Rect, PartsFit
<1>6. \A e \in Shown \ {d} : Apart(boxes[d].cell, boxes[e].cell)
  BY InvCellsApart
<1>7. ViewportsApart(boxes[d].dbox)
  <2>1. /\ boxes[d].dbox.x \in Nat /\ boxes[d].dbox.y \in Nat
        /\ boxes[d].dbox.w = tpl.dbox.w /\ boxes[d].dbox.h = tpl.dbox.h
    BY <1>1, <1>3 DEF PartsFit, Rect
  <2>. QED
    BY <1>1, <2>1, ViewportsInside DEF ViewportsApart, VRows, VCols
<1>. QED
  BY <1>3, <1>5, <1>6, <1>7

(***************************************************************************)
(* What a click finds.                                                     *)
(***************************************************************************)
IsBox(r) == r.x \in Nat /\ r.y \in Nat /\ r.w \in Nat /\ r.h \in Nat

LEMMA HitsWithin ==
  ASSUME NEW r, NEW s, IsBox(r), IsBox(s), NEW x \in Int, NEW y \in Int,
         Within(r, s), Hits(x, y, r)
  PROVE  Hits(x, y, s)
  BY DEF IsBox, Within, Hits

LEMMA HitsApart ==
  ASSUME NEW r, NEW s, IsBox(r), IsBox(s), NEW x \in Int, NEW y \in Int,
         Apart(r, s), Hits(x, y, r)
  PROVE  ~Hits(x, y, s)
  BY DEF IsBox, Apart, Hits

(* The viewport that starts at the corner a click asks for is the one that *)
(* was clicked.                                                            *)
LEMMA CornerBack ==
  ASSUME NEW G \in Nat, NEW R \in Nat \ {0}, NEW n, n = Larger(1, G \div R),
         NEW j \in 0..(n - 1)
  PROVE  ((j * G) \div n) \div R = j
<1>1. G \div R \in Nat
  BY Division
<1>2. n \in Nat \ {0} /\ j \in Nat /\ j < n
  BY <1>1 DEF Larger
<1>3. CASE n = 1
  <2>1. j = 0 /\ j * G = 0
    BY <1>2, <1>3, SMTT(20)
  <2>2. (j * G) \div n = 0
    BY <1>3, <2>1, DivisionUnique
  <2>. QED
    BY <2>1, <2>2, DivisionUnique
<1>4. CASE n # 1
  <2>1. n = G \div R
    BY <1>1, <1>4 DEF Larger
  <2>2. PICK g \in 0..(R - 1) : G = R * n + g
    BY <2>1, Division
  <2>3. j * G \in Nat
    BY <1>2, ProductNat
  <2> DEFINE c == (j * G) \div n
  <2>4. c \in Nat /\ \E e \in 0..(n - 1) : j * G = n * c + e
    BY <1>2, <2>3, Division
  <2> HIDE DEF c
  <2>5. PICK e \in 0..(n - 1) : j * G = n * c + e
    BY <2>4
  <2>6. PICK f \in Int : c = R * j + f
    <3>1. R * j \in Int /\ c - R * j \in Int
      BY <1>2, <2>4, ProductNat
    <3>2. c = R * j + (c - R * j)
      BY <2>4, <3>1
    <3>. QED
      BY <3>1, <3>2
  <2>7. n * f = j * g - e
    <3>1. j * (R * n + g) = n * (R * j) + j * g
      BY <1>2, <2>2, SMTT(20)
    <3>2. n * (R * j + f) = n * (R * j) + n * f
      BY <1>2, <2>6, SMTT(20)
    <3>3. /\ n * (R * j) \in Int /\ n * f \in Int /\ j * g \in Int
          /\ n * (R * j) + j * g = n * (R * j) + n * f + e
      BY <1>2, <2>2, <2>5, <2>6, <3>1, <3>2
    <3>. QED
      BY <2>5, <3>3
  <2>8. f >= 0
    <3> SUFFICES ASSUME f <= -1 PROVE FALSE
      BY <2>6
    <3>1. n * f <= n * (-1) /\ n * (-1) = -n /\ n * f \in Int
      BY <1>2, <2>6, Product, SMTT(20)
    <3>2. j * g \in Nat
      BY <1>2, <2>2, ProductNat
    <3>. QED
      BY <1>2, <2>5, <2>7, <3>1, <3>2
  <2>9. f < R
    <3> SUFFICES ASSUME f >= R PROVE FALSE
      BY <2>6
    <3>1. n * R <= n * f /\ n * f \in Int /\ n * R \in Int
      BY <1>2, <2>6, Product
    <3>2. j * g <= n * g /\ n * g + n <= n * R /\ j * g \in Int /\ n * g \in Int
      BY <1>2, <2>2, Product, SMTT(20)
    <3>. QED
      BY <1>2, <2>5, <2>7, <3>1, <3>2
  <2>10. j \in Int /\ f \in 0..(R - 1)
    BY <1>2, <2>6, <2>8, <2>9
  <2>11. c \div R = j
    BY <2>4, <2>6, <2>10, DivisionUnique
  <2>. QED
    BY <2>11 DEF c
<1>. QED
  BY <1>3, <1>4

LEMMA InvBoxes ==
  ASSUME PagerInv, NEW d \in Shown
  PROVE  /\ IsBox(boxes[d].cell) /\ IsBox(boxes[d].dbox) /\ IsBox(boxes[d].pad)
         /\ boxes[d].dbox.w = tpl.dbox.w /\ boxes[d].dbox.h = tpl.dbox.h
         /\ boxes[d].dbox.x = boxes[d].cell.x /\ boxes[d].dbox.w = boxes[d].cell.w
         /\ boxes[d].pad.x = boxes[d].cell.x /\ boxes[d].pad.w = boxes[d].cell.w
         /\ boxes[d].pad.w = tpl.dbox.w
         /\ boxes[d].pad.h = tpl.pad.h
         /\ Within(boxes[d].dbox, boxes[d].cell)
         /\ Within(boxes[d].pad, boxes[d].cell)
         /\ Apart(boxes[d].dbox, boxes[d].pad)
<1>1. PartsFit(tpl, style)
  BY InvStyle
<1>2. PICK p : /\ p.row \in Nat /\ p.col \in Nat
               /\ boxes[d] = DesktopBoxes(tpl, style, p)
  BY InvCell
<1>3. PICK x \in Nat, y \in Nat :
        /\ boxes[d].cell = Rect(x, y, tpl.cell.w, tpl.cell.h)
        /\ boxes[d].dbox = Rect(x, IF style.above THEN y + tpl.pad.h ELSE y,
                                tpl.dbox.w, tpl.dbox.h)
        /\ boxes[d].pad = Rect(x, IF style.above THEN y ELSE y + tpl.dbox.h,
                               tpl.dbox.w, tpl.pad.h)
        /\ Within(boxes[d].dbox, boxes[d].cell) /\ Within(boxes[d].pad, boxes[d].cell)
        /\ Apart(boxes[d].dbox, boxes[d].pad)
  BY <1>1, <1>2, BoxesAre
<1>. QED
  BY <1>1, <1>3 DEF IsBox, Rect, PartsFit

(* A point of a desktop's box is in no other's.                            *)
LEMMA InvHitOnce ==
  ASSUME PagerInv, NEW d \in Shown, NEW e \in Shown, NEW x \in Int, NEW y \in Int,
         Hits(x, y, boxes[d].dbox), Hits(x, y, boxes[e].dbox)
  PROVE  d = e
<1>1. Hits(x, y, boxes[d].cell) /\ Hits(x, y, boxes[e].cell)
  BY InvBoxes, HitsWithin
<1>. QED
  BY <1>1, InvBoxes, InvCellsApart, HitsApart

LEMMA SpotsHit ==
  ASSUME NEW r, IsBox(r), NEW p \in Spots(r)
  PROVE  p[1] \in Int /\ p[2] \in Int /\ Hits(p[1], p[2], r)
  BY DEF Spots, IsBox

LEMMA InvClickDesktop ==
  ASSUME PagerInv, NEW p \in Spots(boxes[at].dbox)
  PROVE  SlotsHit(Slots, p[1], p[2]) = {at - first}
<1>1. /\ at \in Shown /\ at \in Nat /\ first \in Nat /\ at - first \in 0..(count - 1)
      /\ \A k \in 0..(count - 1) : first + k \in Shown
  BY InvTypes
<1>2. /\ p[1] \in Int /\ p[2] \in Int /\ Hits(p[1], p[2], boxes[at].dbox)
  BY <1>1, InvBoxes, SpotsHit
<1>3. ASSUME NEW k \in 0..(count - 1)
      PROVE  Hits(p[1], p[2], boxes[first + k].dbox) <=> k = at - first
  <2>1. Hits(p[1], p[2], boxes[first + k].dbox) => first + k = at
    BY <1>1, <1>2, <1>3, InvHitOnce
  <2>2. k = at - first => first + k = at
    BY <1>1
  <2>. QED
    BY <1>1, <1>2, <2>1, <2>2
<1>. QED
  BY <1>1, <1>3 DEF SlotsHit, Slots

(* A point in a label is in no desktop's box, and so is one on its edge.   *)
LEMMA InvClickLabel ==
  ASSUME PagerInv,
         NEW x \in {boxes[at].pad.x + 1, boxes[at].pad.x + boxes[at].pad.w - 1},
         NEW y \in boxes[at].pad.y..(boxes[at].pad.y + boxes[at].pad.h)
  PROVE  SlotsHit(Slots, x, y) = {}
<1> SUFFICES ASSUME NEW k \in 0..(count - 1), Hits(x, y, boxes[first + k].dbox)
             PROVE  FALSE
  BY DEF SlotsHit, Slots
<1> DEFINE e == first + k
           pad == boxes[at].pad
<1>1. at \in Shown /\ e \in Shown
  BY InvTypes
<1>2. /\ IsBox(boxes[at].cell) /\ IsBox(boxes[at].dbox) /\ IsBox(pad)
      /\ Within(pad, boxes[at].cell) /\ Apart(boxes[at].dbox, pad)
      /\ pad.x = boxes[at].cell.x /\ pad.w = boxes[at].cell.w
      /\ boxes[at].dbox.x = pad.x /\ boxes[at].dbox.w = pad.w
      /\ pad.w = tpl.dbox.w
  BY <1>1, InvBoxes
<1>3. /\ IsBox(boxes[e].cell) /\ IsBox(boxes[e].dbox)
      /\ Within(boxes[e].dbox, boxes[e].cell)
      /\ boxes[e].dbox.w = tpl.dbox.w
  BY <1>1, InvBoxes
<1> HIDE DEF e, pad
<1>4. Hits(x, y, boxes[e].dbox)
  BY DEF e
<1>5. x \in {pad.x + 1, pad.x + pad.w - 1} /\ y \in pad.y..(pad.y + pad.h)
  BY DEF pad
<1>6. x \in Int /\ y \in Int /\ pad.w > 0
      /\ pad.x <= x /\ x <= pad.x + pad.w /\ pad.y <= y /\ y <= pad.y + pad.h
  BY <1>2, <1>3, <1>4, <1>5 DEF IsBox, Hits
<1>7. CASE e = at
  BY <1>2, <1>4, <1>6, <1>7 DEF IsBox, Hits, Apart
<1>8. CASE e # at
  <2>1. Apart(boxes[at].cell, boxes[e].cell)
    BY <1>1, <1>8, InvCellsApart
  <2>2. Hits(x, y, boxes[e].cell)
    BY <1>3, <1>4, <1>6, HitsWithin
  <2>. QED
    BY <1>2, <1>3, <1>6, <2>1, <2>2 DEF IsBox, Hits, Apart, Within
<1>. QED
  BY <1>7, <1>8

LEMMA InvClickViewport ==
  ASSUME PagerInv, Several(Viewports(screen)), NEW i \in VRows, NEW j \in VCols,
         NEW p \in Spots(ViewportBox(tpl, style, boxes[at].dbox, i, j))
  PROVE  ViewportsHit(tpl, style, screen, Slots, p[1], p[2])
           = {<<at - first, i, j>>}
<1> DEFINE Vp(d, a, b) == ViewportBox(tpl, style, boxes[d].dbox, a, b)
<1>1. /\ at \in Shown /\ at \in Nat /\ first \in Nat /\ at - first \in 0..(count - 1)
      /\ \A k \in 0..(count - 1) : first + k \in Shown
  BY InvTypes
<1>2. ASSUME NEW d \in Shown, NEW a \in VRows, NEW b \in VCols,
             NEW k \in VRows, NEW l \in VCols
      PROVE  /\ IsBox(Vp(d, a, b)) /\ Within(Vp(d, a, b), boxes[d].dbox)
             /\ <<a, b>> # <<k, l>> => Apart(Vp(d, a, b), Vp(d, k, l))
  <2>1. /\ style \in StyleType /\ screen \in ScreenType
        /\ tpl = Template(style, screen)
    BY InvStyle
  <2>2. /\ boxes[d].dbox.x \in Nat /\ boxes[d].dbox.y \in Nat
        /\ boxes[d].dbox.w = tpl.dbox.w /\ boxes[d].dbox.h = tpl.dbox.h
    BY InvBoxes DEF IsBox
  <2>. QED
    BY <2>1, <2>2, ViewportsInside DEF VRows, VCols, IsBox
<1> HIDE DEF Vp
<1>3. p[1] \in Int /\ p[2] \in Int /\ Hits(p[1], p[2], Vp(at, i, j))
  BY <1>1, <1>2, SpotsHit DEF Vp
<1>4. ASSUME NEW k \in 0..(count - 1), NEW a \in VRows, NEW b \in VCols,
             Hits(p[1], p[2], Vp(first + k, a, b))
      PROVE  k = at - first /\ a = i /\ b = j
  <2>1. Hits(p[1], p[2], boxes[at].dbox) /\ Hits(p[1], p[2], boxes[first + k].dbox)
    BY <1>1, <1>2, <1>3, <1>4, InvBoxes, HitsWithin
  <2>2. first + k = at
    BY <1>1, <1>3, <2>1, InvHitOnce
  <2>3. ~Apart(Vp(at, a, b), Vp(at, i, j))
    BY <1>1, <1>2, <1>3, <1>4, <2>2, HitsApart
  <2>. QED
    BY <1>1, <1>2, <2>2, <2>3
<1>5. /\ DOMAIN Slots = 0..(count - 1)
      /\ \A k \in 0..(count - 1) : Slots[k] = boxes[first + k].dbox
  BY DEF Slots
<1>6. ASSUME NEW hit
      PROVE  hit \in ViewportsHit(tpl, style, screen, Slots, p[1], p[2])
               <=> hit = <<at - first, i, j>>
  <2>1. hit \in ViewportsHit(tpl, style, screen, Slots, p[1], p[2])
          <=> \E k \in 0..(count - 1), a \in VRows, b \in VCols :
                hit = <<k, a, b>> /\ Hits(p[1], p[2], Vp(first + k, a, b))
    BY <1>5 DEF ViewportsHit, VRows, VCols, Vp
  <2>2. first + (at - first) = at
    BY <1>1
  <2>. QED
    BY <1>1, <1>3, <1>4, <2>1, <2>2
<1>. QED
  BY <1>6

LEMMA InvClicksFind == PagerInv => ClicksFind
<1> SUFFICES ASSUME PagerInv PROVE ClicksFind
  OBVIOUS
<1>1. ASSUME Several(Viewports(screen)), NEW i \in VRows, NEW j \in VCols
      PROVE  ViewportOf(screen, ViewportCorner(screen, i, j)) = [row |-> i, col |-> j]
  <2>1. screen \in ScreenType
    BY InvStyle
  <2>2. ~screen.subset
    <3> SUFFICES ASSUME screen.subset PROVE FALSE
      OBVIOUS
    <3>1. PICK w \in Nat, h \in Nat, W \in Nat \ {0}, H \in Nat \ {0} :
            /\ w <= W /\ h <= H
            /\ w = AreaShown(screen).w /\ h = AreaShown(screen).h
            /\ W = screen.root.w /\ H = screen.root.h
      BY <2>1, ScreenSizes DEF ScreenType, AreaShown
    <3>2. w \div W <= 1 /\ h \div H <= 1 /\ w \div W \in Nat /\ h \div H \in Nat
      BY <3>1, SMTT(20)
    <3>. QED
      BY <1>1, <3>1, <3>2 DEF Several, Viewports, Larger
  <2>3. PICK G \in Nat, K \in Nat, R \in Nat \ {0}, S \in Nat \ {0} :
          /\ G = screen.geom.w /\ K = screen.geom.h
          /\ R = screen.root.w /\ S = screen.root.h
    BY <2>1, ScreenSizes
  <2>4. /\ Viewports(screen).cols = Larger(1, G \div R)
        /\ Viewports(screen).rows = Larger(1, K \div S)
    BY <2>2, <2>3 DEF Viewports, AreaShown
  <2>5. /\ ((j * G) \div Viewports(screen).cols) \div R = j
        /\ ((i * K) \div Viewports(screen).rows) \div S = i
    BY <2>4, CornerBack DEF VRows, VCols
  <2>. QED
    BY <2>3, <2>5 DEF ViewportOf, ViewportCorner
<1>. QED
  BY <1>1, InvClickDesktop, InvClickLabel, InvClickViewport DEF ClicksFind

(***************************************************************************)
(* Windows, scaled down.                                                   *)
(***************************************************************************)

(* Rounding moves a quotient by half of one at most.                       *)
LEMMA NearestBounds ==
  ASSUME NEW a \in Nat, NEW b \in Nat \ {0}
  PROVE  /\ Nearest(a, b) \in Nat
         /\ b * Nearest(a, b) \in Nat
         /\ 2 * a - b <= 2 * (b * Nearest(a, b))
         /\ 2 * (b * Nearest(a, b)) <= 2 * a + b
<1> DEFINE q == a \div b
           r == a % b
<1>1. q \in Nat /\ r \in 0..(b - 1) /\ a = b * q + r
  BY Division
<1>2. \/ Nearest(a, b) = q + 1 /\ 2 * r >= b
      \/ Nearest(a, b) = q /\ 2 * r <= b
  <2>1. r \in Int
    BY <1>1
  <2>. QED
    BY <2>1 DEF Nearest
<1> HIDE DEF q, r
<1>3. b * (q + 1) = b * q + b /\ b * q \in Nat
  BY <1>1, ProductNat, SMTT(20)
<1>. QED
  BY <1>1, <1>2, <1>3

(* So lengths that add up to no more than another still do, but for one.   *)
LEMMA NearestAdds ==
  ASSUME NEW S \in Nat, NEW A \in Nat \ {0},
         NEW u \in Nat, NEW w \in Nat, NEW v \in Nat, u + w <= v
  PROVE  Nearest(S * u, A) + Nearest(S * w, A) <= Nearest(S * v, A) + 1
<1> DEFINE nu == Nearest(S * u, A)
           nw == Nearest(S * w, A)
           nv == Nearest(S * v, A)
<1>1. S * u \in Nat /\ S * w \in Nat /\ S * v \in Nat
  BY ProductNat
<1>2. S * u + S * w <= S * v
  <2>1. S * (u + w) <= S * v
    BY Product
  <2>2. S * (u + w) = S * u + S * w
    BY SMTT(20)
  <2>. QED
    BY <2>1, <2>2
<1>3. /\ nu \in Nat /\ nw \in Nat /\ nv \in Nat
      /\ A * nu \in Nat /\ A * nw \in Nat /\ A * nv \in Nat
      /\ 2 * (A * nu) <= 2 * (S * u) + A
      /\ 2 * (A * nw) <= 2 * (S * w) + A
      /\ 2 * (S * v) - A <= 2 * (A * nv)
  BY <1>1, NearestBounds
<1> HIDE DEF nu, nw, nv
<1>4. 2 * (A * nu) + 2 * (A * nw) <= 2 * (A * nv) + 3 * A
  BY <1>1, <1>2, <1>3
<1>5. SUFFICES ASSUME nu + nw >= nv + 2 PROVE FALSE
  BY <1>3 DEF nu, nw, nv
<1>6. A * (nv + 2) <= A * (nu + nw)
  BY <1>3, <1>5, Product
<1>7. A * (nv + 2) = A * nv + 2 * A /\ A * (nu + nw) = A * nu + A * nw
  BY <1>3, SMTT(20)
<1>. QED
  BY <1>3, <1>4, <1>6, <1>7

(* Nothing inside becomes larger than the whole.                           *)
LEMMA NearestWhole ==
  ASSUME NEW S \in Nat, NEW A \in Nat \ {0}, NEW v \in Nat, v <= A
  PROVE  Nearest(S * v, A) <= S
<1> DEFINE nv == Nearest(S * v, A)
<1>1. S * v \in Nat /\ S * A \in Nat /\ S * v <= S * A
  BY Product, ProductNat
<1>2. nv \in Nat /\ A * nv \in Nat /\ 2 * (A * nv) <= 2 * (S * v) + A
  BY <1>1, NearestBounds
<1> HIDE DEF nv
<1>3. SUFFICES ASSUME nv >= S + 1 PROVE FALSE
  BY <1>2 DEF nv
<1>4. A * (S + 1) <= A * nv
  BY <1>2, <1>3, Product
<1>5. A * (S + 1) = S * A + A
  BY SMTT(20)
<1>. QED
  BY <1>1, <1>2, <1>4, <1>5

(* Windows that are inside the area that is shown.                         *)
InArea(s, r) ==
  LET a == AreaShown(s)
  IN  /\ r.x \in Nat /\ r.y \in Nat /\ r.w \in Nat /\ r.h \in Nat
      /\ a.x <= r.x /\ a.y <= r.y
      /\ r.x + r.w <= a.x + a.w /\ r.y + r.h <= a.y + a.h

LEMMA ScaledIs ==
  ASSUME NEW st \in StyleType, NEW s \in ScreenType, NEW t, t = Template(st, s),
         NEW d, IsBox(d), d.w = t.dbox.w, d.h = t.dbox.h
  PROVE  \E S \in Nat, T \in Nat, A \in Nat \ {0}, B \in Nat \ {0} :
           /\ S <= d.w /\ T <= d.h
           /\ A = AreaShown(s).w /\ B = AreaShown(s).h
           /\ \A r : ScaleToDesktop(st, s, d, r) =
                Rect(d.x + Nearest(S * (r.x - AreaShown(s).x), A),
                     d.y + Nearest(T * (r.y - AreaShown(s).y), B),
                     Nearest(S * r.w, A), Nearest(T * r.h, B))
<1> DEFINE b == VpBorder(s, st)
           rows == Viewports(s).rows
           cols == Viewports(s).cols
<1>1. b \in Nat
  BY DEF VpBorder, StyleType
<1>2. /\ rows \in Nat \ {0} /\ cols \in Nat \ {0}
      /\ t.vp.w \in Nat /\ t.vp.h \in Nat
      /\ cols * t.vp.w + b * (cols + 1) <= d.w
      /\ rows * t.vp.h + b * (rows + 1) <= d.h
  BY TemplateSizes, ViewportsPositive
<1>3. \A r : ScaleToDesktop(st, s, d, r) =
                Rect(d.x + Nearest((d.w - b) * (r.x - AreaShown(s).x), AreaShown(s).w),
                     d.y + Nearest((d.h - b) * (r.y - AreaShown(s).y), AreaShown(s).h),
                     Nearest((d.w - b) * r.w, AreaShown(s).w),
                     Nearest((d.h - b) * r.h, AreaShown(s).h))
  BY DEF ScaleToDesktop, VpBorder
<1> HIDE DEF b, rows, cols
<1>4. d.w \in Nat /\ d.h \in Nat
  BY DEF IsBox
<1>5. b <= d.w /\ b <= d.h
  <2>1. b <= b * (cols + 1) /\ b <= b * (rows + 1)
    BY <1>1, <1>2, ProductGrows
  <2>2. /\ cols * t.vp.w \in Nat /\ rows * t.vp.h \in Nat
        /\ b * (cols + 1) \in Nat /\ b * (rows + 1) \in Nat
    BY <1>1, <1>2, ProductNat
  <2>. QED
    BY <1>1, <1>2, <1>4, <2>1, <2>2
<1>6. d.w - b \in Nat /\ d.h - b \in Nat /\ d.w - b <= d.w /\ d.h - b <= d.h
  BY <1>1, <1>4, <1>5
<1>7. PICK S \in Nat, T \in Nat : S = d.w - b /\ T = d.h - b
  BY <1>6
<1>8. PICK A \in Nat \ {0}, B \in Nat \ {0} :
        A = AreaShown(s).w /\ B = AreaShown(s).h
  BY ScreenSizes
<1>9. /\ S <= d.w /\ T <= d.h
      /\ A = AreaShown(s).w /\ B = AreaShown(s).h
      /\ \A r : ScaleToDesktop(st, s, d, r) =
                Rect(d.x + Nearest(S * (r.x - AreaShown(s).x), A),
                     d.y + Nearest(T * (r.y - AreaShown(s).y), B),
                     Nearest(S * r.w, A), Nearest(T * r.h, B))
  BY <1>3, <1>6, <1>7, <1>8
<1>. QED
  BY <1>7, <1>8, <1>9

(* Two windows, scaled.                                                    *)
LEMMA ScaledKeepPlace ==
  ASSUME NEW st \in StyleType, NEW s \in ScreenType, NEW t, t = Template(st, s),
         NEW d, IsBox(d), d.w = t.dbox.w, d.h = t.dbox.h,
         NEW r, InArea(s, r), NEW o, InArea(s, o)
  PROVE  LET mine  == ScaleToDesktop(st, s, d, r)
             other == ScaleToDesktop(st, s, d, o)
         IN  /\ IsBox(mine) /\ IsBox(other)
             /\ Within(mine, Widened(d, 1))
             /\ r.x + r.w <= o.x => mine.x + mine.w <= other.x + 1
             /\ r.y + r.h <= o.y => mine.y + mine.h <= other.y + 1
<1> DEFINE mine  == ScaleToDesktop(st, s, d, r)
           other == ScaleToDesktop(st, s, d, o)
<1>1. PICK S \in Nat, T \in Nat, A \in Nat \ {0}, B \in Nat \ {0} :
           /\ S <= d.w /\ T <= d.h
           /\ A = AreaShown(s).w /\ B = AreaShown(s).h
           /\ \A q : ScaleToDesktop(st, s, d, q) =
                Rect(d.x + Nearest(S * (q.x - AreaShown(s).x), A),
                     d.y + Nearest(T * (q.y - AreaShown(s).y), B),
                     Nearest(S * q.w, A), Nearest(T * q.h, B))
  BY ScaledIs
<1>2. PICK ax \in Nat, ay \in Nat : ax = AreaShown(s).x /\ ay = AreaShown(s).y
  BY ScreenSizes DEF Area
<1>3. /\ r.w \in Nat /\ r.h \in Nat /\ r.x - ax \in Nat /\ r.y - ay \in Nat
      /\ (r.x - ax) + r.w <= A /\ (r.y - ay) + r.h <= B
      /\ o.w \in Nat /\ o.h \in Nat /\ o.x - ax \in Nat /\ o.y - ay \in Nat
      /\ (o.x - ax) + o.w <= A /\ (o.y - ay) + o.h <= B
      /\ r.x + r.w <= o.x => (r.x - ax) + r.w <= o.x - ax
      /\ r.y + r.h <= o.y => (r.y - ay) + r.h <= o.y - ay
  BY <1>1, <1>2 DEF InArea
<1> DEFINE u == r.x - ax
           v == r.y - ay
           k == o.x - ax
           l == o.y - ay
<1>4. /\ mine = Rect(d.x + Nearest(S * u, A), d.y + Nearest(T * v, B),
                     Nearest(S * r.w, A), Nearest(T * r.h, B))
      /\ other = Rect(d.x + Nearest(S * k, A), d.y + Nearest(T * l, B),
                      Nearest(S * o.w, A), Nearest(T * o.h, B))
  BY <1>1, <1>2
<1> HIDE DEF mine, other, u, v, k, l
<1>5. /\ u \in Nat /\ v \in Nat /\ k \in Nat /\ l \in Nat
      /\ u + r.w <= A /\ v + r.h <= B
      /\ r.x + r.w <= o.x => u + r.w <= k
      /\ r.y + r.h <= o.y => v + r.h <= l
  BY <1>3 DEF u, v, k, l
<1>6. /\ Nearest(S * u, A) \in Nat /\ Nearest(T * v, B) \in Nat
      /\ Nearest(S * r.w, A) \in Nat /\ Nearest(T * r.h, B) \in Nat
      /\ Nearest(S * k, A) \in Nat /\ Nearest(T * l, B) \in Nat
      /\ Nearest(S * o.w, A) \in Nat /\ Nearest(T * o.h, B) \in Nat
      /\ Nearest(S * A, A) \in Nat /\ Nearest(T * B, B) \in Nat
  BY <1>3, <1>5, ProductNat, NearestBounds
<1>7. /\ Nearest(S * u, A) + Nearest(S * r.w, A) <= Nearest(S * A, A) + 1
      /\ Nearest(T * v, B) + Nearest(T * r.h, B) <= Nearest(T * B, B) + 1
  BY <1>3, <1>5, NearestAdds
<1>8. /\ Nearest(S * A, A) <= S /\ Nearest(T * B, B) <= T
  BY NearestWhole
<1>9. /\ r.x + r.w <= o.x =>
           Nearest(S * u, A) + Nearest(S * r.w, A) <= Nearest(S * k, A) + 1
      /\ r.y + r.h <= o.y =>
           Nearest(T * v, B) + Nearest(T * r.h, B) <= Nearest(T * l, B) + 1
  BY <1>3, <1>5, NearestAdds
<1>10. IsBox(mine) /\ IsBox(other)
  BY <1>4, <1>6 DEF IsBox, Rect
<1>11. Within(mine, Widened(d, 1))
  BY <1>1, <1>4, <1>6, <1>7, <1>8 DEF Within, Widened, Rect, IsBox
<1>12. /\ r.x + r.w <= o.x => mine.x + mine.w <= other.x + 1
       /\ r.y + r.h <= o.y => mine.y + mine.h <= other.y + 1
  BY <1>4, <1>6, <1>9 DEF Rect, IsBox
<1>. QED
  BY <1>10, <1>11, <1>12 DEF mine, other

LEMMA InvInner ==
  ASSUME PagerInv, NEW r \in Inner
  PROVE  InArea(screen, r)
<1>1. screen \in ScreenType
  BY InvStyle
<1>2. PICK a \in Area : a = AreaShown(screen)
  BY <1>1, ScreenSizes
<1>3. PICK x \in {0, a.w \div 2}, y \in {a.h \div 3, a.h \div 2},
           w \in {a.w \div 3, a.w \div 2}, h \in {a.h \div 2} :
        r = Rect(a.x + x, a.y + y, w, h)
  BY <1>2 DEF Inner
<1>4. /\ a.x \in Nat /\ a.y \in Nat /\ a.w \in Nat /\ a.h \in Nat
  BY DEF Area
<1>5. /\ x \in Nat /\ w \in Nat /\ x + w <= a.w
      /\ y \in Nat /\ h \in Nat /\ y + h <= a.h
  BY <1>3, <1>4
<1>. QED
  BY <1>2, <1>3, <1>4, <1>5 DEF InArea, Rect

(* Windows are drawn in their desktop and do not overlap if they do not.   *)
LEMMA InvWindowsKeepPlace == PagerInv => WindowsKeepPlace
<1> SUFFICES ASSUME PagerInv, NEW r \in Inner, NEW o \in Inner
             PROVE  LET mine == Scaled(r)
                        other == Scaled(o)
                        further(q) == [q EXCEPT !.x = @ + 1, !.y = @ + 1]
                    IN  /\ Within(mine, Widened(boxes[at].dbox, 1))
                        /\ Apart(r, o) =>
                             \/ Apart(mine, further(other))
                             \/ Apart(further(mine), other)
  BY DEF WindowsKeepPlace
<1> DEFINE d == boxes[at].dbox
           mine == Scaled(r)
           other == Scaled(o)
<1>1. /\ style \in StyleType /\ screen \in ScreenType /\ tpl = Template(style, screen)
      /\ IsBox(d) /\ d.w = tpl.dbox.w /\ d.h = tpl.dbox.h
      /\ InArea(screen, r) /\ InArea(screen, o)
  BY InvTypes, InvStyle, InvBoxes, InvInner
<1>2. /\ mine = ScaleToDesktop(style, screen, d, r)
      /\ other = ScaleToDesktop(style, screen, d, o)
  BY DEF Scaled
<1> HIDE DEF mine, other, d
<1>3. /\ IsBox(mine) /\ IsBox(other)
      /\ Within(mine, Widened(d, 1))
      /\ r.x + r.w <= o.x => mine.x + mine.w <= other.x + 1
      /\ r.y + r.h <= o.y => mine.y + mine.h <= other.y + 1
      /\ o.x + o.w <= r.x => other.x + other.w <= mine.x + 1
      /\ o.y + o.h <= r.y => other.y + other.h <= mine.y + 1
  BY <1>1, <1>2, ScaledKeepPlace
<1>4. mine.x \in Nat /\ other.x \in Nat /\ mine.y \in Nat /\ other.y \in Nat
  BY <1>3 DEF IsBox
<1>5. \E a, b, e, f : /\ mine = Rect(mine.x, mine.y, a, b)
                      /\ other = Rect(other.x, other.y, e, f)
  BY <1>2 DEF ScaleToDesktop, Rect
<1>6. ASSUME Apart(r, o)
      PROVE  \/ Apart(mine, [other EXCEPT !.x = @ + 1, !.y = @ + 1])
             \/ Apart([mine EXCEPT !.x = @ + 1, !.y = @ + 1], other)
  BY <1>3, <1>4, <1>5, <1>6 DEF Apart, Rect
<1>. QED
  BY <1>3, <1>6 DEF d, mine, other

(***************************************************************************)
(* Icons.                                                                  *)
(***************************************************************************)

(* The icons of hidden windows share the label.                            *)
LEMMA HiddenBoxes ==
  ASSUME NEW st \in StyleType, NEW pad, IsBox(pad), st.margin * 2 <= pad.h,
         NEW n \in Nat \ {0}, NEW i \in 0..(n - 1), NEW k \in 0..(n - 1)
  PROVE  /\ Within(HiddenBox(st, pad, n, i), pad)
         /\ i # k => Apart(HiddenBox(st, pad, n, i), HiddenBox(st, pad, n, k))
<1> DEFINE w == IF pad.h * n > pad.w THEN pad.w \div n ELSE pad.h
<1>1. /\ pad.x \in Nat /\ pad.y \in Nat /\ pad.w \in Nat /\ pad.h \in Nat
      /\ st.margin \in Nat /\ i \in Nat /\ k \in Nat
  BY DEF IsBox, StyleType
<1>2. w \in Nat /\ n * w \in Nat /\ n * w <= pad.w
  <2>1. pad.h * n \in Nat /\ pad.h * n = n * pad.h
    BY <1>1, ProductNat
  <2>2. PICK W \in Nat : W = pad.w
    BY <1>1
  <2>3. W \div n \in Nat /\ W % n \in 0..(n - 1) /\ W = n * (W \div n) + (W % n)
    BY Division
  <2>4. n * (W \div n) \in Nat /\ n * (W \div n) <= W
    BY <2>3, ProductNat
  <2>5. pad.w \div n \in Nat /\ n * (pad.w \div n) \in Nat
        /\ n * (pad.w \div n) <= pad.w
    BY <2>2, <2>3, <2>4
  <2>6. CASE pad.h * n > pad.w
    <3>1. w = pad.w \div n
      BY <2>6
    <3>. QED
      BY <2>5, <3>1
  <2>7. CASE ~(pad.h * n > pad.w)
    <3>1. w = pad.h
      BY <2>7
    <3>. QED
      BY <1>1, <2>1, <2>7, <3>1
  <2>. QED
    BY <2>6, <2>7
<1>3. /\ HiddenBox(st, pad, n, i) =
           Rect(pad.x + i * w, pad.y + st.margin, w, pad.h - st.margin * 2)
      /\ HiddenBox(st, pad, n, k) =
           Rect(pad.x + k * w, pad.y + st.margin, w, pad.h - st.margin * 2)
  BY DEF HiddenBox
<1> HIDE DEF w
<1>4. /\ i * w \in Nat /\ k * w \in Nat /\ i * w + w <= n * w
      /\ i < k => i * w + w <= k * w
      /\ k < i => k * w + w <= i * w
  BY <1>1, <1>2, Product, ProductNat
<1>5. Within(HiddenBox(st, pad, n, i), pad)
  BY <1>1, <1>2, <1>3, <1>4 DEF Within, Rect
<1>6. i # k => Apart(HiddenBox(st, pad, n, i), HiddenBox(st, pad, n, k))
  BY <1>1, <1>2, <1>3, <1>4 DEF Apart, Rect
<1>. QED
  BY <1>5, <1>6

LEMMA QuotientOf ==
  ASSUME NEW a \in Nat, NEW b \in Nat, NEW c \in Nat \ {0}
  PROVE  /\ (a * b) \div c \in Nat
         /\ \E e \in Nat : a * b = c * ((a * b) \div c) + e
<1>1. PICK p \in Nat : p = a * b
  BY ProductNat
<1>2. p \div c \in Nat /\ p % c \in Nat /\ p = c * (p \div c) + (p % c)
  BY Division
<1>. QED
  BY <1>1, <1>2

(* An image is made to fit.                                                *)
LEMMA BoxFits ==
  ASSUME NEW c \in [w : Nat, h : Nat], NEW i \in [w : Nat, h : Nat \ {0}]
  PROVE  /\ BoxFit(c, i).w \in 0..c.w
         /\ BoxFit(c, i).h \in 0..c.h
<1>1. PICK cw \in Nat, ch \in Nat, iw \in Nat, ih \in Nat \ {0} :
        c.w = cw /\ c.h = ch /\ i.w = iw /\ i.h = ih
  OBVIOUS
<1>2. CASE iw < cw /\ ih < ch
  BY <1>1, <1>2 DEF BoxFit
<1>3. CASE ~(iw < cw /\ ih < ch) /\ cw * ih < ch * iw
  <2>1. iw \in Nat \ {0}
    <3>1. iw = 0 => ch * iw = 0
      BY SMTT(20)
    <3>. QED
      BY <1>3, <3>1, ProductNat
  <2>2. ih * cw \in Nat /\ ih * cw = cw * ih
    BY ProductNat
  <2> DEFINE h == (ih * cw) \div iw
  <2>3. h \in Nat /\ \E e \in Nat : ih * cw = iw * h + e
    <3>1. \A x \in Nat, y \in Nat, z \in Nat \ {0} :
            (x * y) \div z \in Nat /\ \E e \in Nat : x * y = z * ((x * y) \div z) + e
      BY QuotientOf
    <3>2. ih \in Nat
      OBVIOUS
    <3>. QED
      BY <2>1, <3>1, <3>2, Zenon
  <2>4. BoxFit(c, i) = [w |-> cw, h |-> h]
    BY <1>1, <1>3 DEF BoxFit
  <2> HIDE DEF h
  <2>5. h <= ch
    <3> SUFFICES ASSUME h > ch PROVE FALSE
      BY <2>3
    <3>1. ch * iw <= h * iw /\ h * iw = iw * h /\ ch * iw \in Nat /\ iw * h \in Nat
      BY <2>3, Product, ProductNat
    <3>. QED
      BY <1>3, <2>2, <2>3, <3>1
  <2>. QED
    BY <1>1, <2>3, <2>4, <2>5
<1>4. CASE ~(iw < cw /\ ih < ch) /\ ~(cw * ih < ch * iw)
  <2> DEFINE w == (iw * ch) \div ih
  <2>1. iw * ch \in Nat /\ iw * ch = ch * iw
    BY ProductNat
  <2>2. w \in Nat /\ \E e \in Nat : iw * ch = ih * w + e
    BY QuotientOf
  <2>3. BoxFit(c, i) = [w |-> w, h |-> ch]
    BY <1>1, <1>4 DEF BoxFit
  <2> HIDE DEF w
  <2>4. w <= cw
    <3> SUFFICES ASSUME w >= cw + 1 PROVE FALSE
      BY <2>2
    <3>1. ih * (cw + 1) <= ih * w /\ ih * (cw + 1) = cw * ih + ih /\ ih * w \in Nat
      <4>1. ih * (cw + 1) = cw * ih + ih
        BY SMTT(20)
      <4>. QED
        BY <2>2, <4>1, Product, ProductNat
    <3>. QED
      BY <1>4, <2>1, <2>2, <3>1, ProductNat
  <2>. QED
    BY <1>1, <2>2, <2>3, <2>4
<1>. QED
  BY <1>2, <1>3, <1>4

LEMMA IconInside ==
  ASSUME NEW r, IsBox(r), NEW i \in [w : Nat, h : Nat \ {0}]
  PROVE  Within(IconBox(r, i), r)
<1> DEFINE room == IconRoom(r)
           size == IF i.w < room.w /\ i.h < room.h THEN i ELSE BoxFit(r, i)
<1>1. r.x \in Nat /\ r.y \in Nat /\ r.w \in Nat /\ r.h \in Nat
  BY DEF IsBox
<1>2. BoxFit(r, i).w \in 0..r.w /\ BoxFit(r, i).h \in 0..r.h
  <2>1. PICK c \in [w : Nat, h : Nat] : c.w = r.w /\ c.h = r.h
    <3>1. [w |-> r.w, h |-> r.h] \in [w : Nat, h : Nat]
      BY <1>1
    <3>. QED
      BY <3>1
  <2>2. BoxFit(r, i) = BoxFit(c, i)
    BY <2>1 DEF BoxFit
  <2>. QED
    BY <2>1, <2>2, BoxFits
<1>3. room.w \in 0..r.w /\ room.h \in 0..r.h
  BY <1>1 DEF IconRoom
<1>4. size.w \in 0..r.w /\ size.h \in 0..r.h
  BY <1>1, <1>2, <1>3
<1>5. IconBox(r, i) = Rect(r.x + ((r.w - size.w) \div 2),
                           r.y + ((r.h - size.h) \div 2), size.w, size.h)
  BY DEF IconBox
<1> HIDE DEF size
<1>6. \E x \in Nat, y \in Nat :
        /\ IconBox(r, i) = Rect(r.x + x, r.y + y, size.w, size.h)
        /\ x + size.w <= r.w /\ y + size.h <= r.h
  <2>1. PICK x \in Nat : x = (r.w - size.w) \div 2 /\ x + size.w <= r.w
    BY <1>1, <1>4
  <2>2. PICK y \in Nat : y = (r.h - size.h) \div 2 /\ y + size.h <= r.h
    BY <1>1, <1>4
  <2>. QED
    BY <1>5, <2>1, <2>2
<1>. QED
  BY <1>1, <1>4, <1>6 DEF Within, Rect

(* Numbers have a least one.                                               *)
LEMMA HasLeast ==
  ASSUME NEW T \in SUBSET Nat, T # {}
  PROVE  \E x \in T : \A y \in T : x <= y
<1> DEFINE R == OpToRel(<, Nat)
<1>1. IsWellFoundedOn(R, Nat)
  BY NatLessThanWellFounded
<1>2. \A x, y \in Nat : y < x => <<y, x>> \in R
  BY DEF OpToRel
<1> HIDE DEF R
<1>3. PICK x \in T : \A y \in T : ~(<<y, x>> \in R)
  BY <1>1, WFMin
<1>4. \A y \in T : ~(y < x)
  BY <1>2, <1>3
<1>. QED
  BY <1>4

(* There is always a first among the best icons.                           *)
Gap(icons, room, i) ==
  LET dim == icons[i].w + icons[i].h
  IN  IF dim > room THEN dim - room ELSE room - dim
Closer(icons, room, i, k) ==
  Gap(icons, room, i) * (icons[k].w + icons[k].h)
    < Gap(icons, room, k) * (icons[i].w + icons[i].h)
FirstBest(icons, room, n, i) ==
  \A k \in 1..n : IF k < i THEN Closer(icons, room, i, k)
                           ELSE ~Closer(icons, room, k, i)

LEMMA DimensionPositive ==
  ASSUME NEW icons \in Seq([w : Nat, h : Nat \ {0}]), NEW room \in Nat,
         NEW i \in DOMAIN icons
  PROVE  /\ icons[i].w + icons[i].h \in Nat \ {0}
         /\ Gap(icons, room, i) \in Nat
<1>1. PICK icon \in [w : Nat, h : Nat \ {0}] : icon = icons[i]
  <2> DEFINE S == [w : Nat, h : Nat \ {0}]
  <2>1. icons \in Seq(S) /\ i \in DOMAIN icons
    OBVIOUS
  <2>2. icons[i] \in S
    <3> HIDE DEF S
    <3>. QED
      BY <2>1
  <2>. QED
    BY <2>2
<1>2. icon.w + icon.h \in Nat \ {0}
  OBVIOUS
<1>. QED
  BY <1>1, <1>2 DEF Gap

(* a / d < b / e and b / e <= c / f.                                       *)
LEMMA RatiosFollow ==
  ASSUME NEW a \in Nat, NEW b \in Nat, NEW c \in Nat,
         NEW d \in Nat \ {0}, NEW e \in Nat \ {0}, NEW f \in Nat \ {0},
         a * e < b * d, ~(c * e < b * f)
  PROVE  a * f < c * d
<1>1. (a * e) * f < (b * d) * f
  <2>1. a * e \in Nat /\ b * d \in Nat
    BY ProductNat
  <2>2. /\ (a * e) * f \in Nat /\ (b * d) * f \in Nat
        /\ (a * e) * f + f <= (b * d) * f
    BY <2>1, Product, ProductNat
  <2>. QED
    BY <2>2
<1>2. (b * f) * d <= (c * e) * d
  <2>1. b * f \in Nat /\ c * e \in Nat
    BY ProductNat
  <2>. QED
    BY <2>1, Product
<1>3. /\ (a * e) * f = (a * f) * e /\ (b * d) * f = (b * f) * d
      /\ (c * e) * d = (c * d) * e
  BY SMTT(20)
<1>4. (a * f) * e < (c * d) * e
  <2>1. /\ (b * f) * d \in Nat /\ (c * e) * d \in Nat
        /\ (a * f) * e \in Nat /\ (c * d) * e \in Nat
    BY ProductNat
  <2>. QED
    BY <1>1, <1>2, <1>3, <2>1
<1>5. a * f \in Nat /\ c * d \in Nat
  BY ProductNat
<1>6. SUFFICES ASSUME c * d <= a * f PROVE FALSE
  BY <1>5
<1>7. (c * d) * e <= (a * f) * e /\ (c * d) * e \in Nat /\ (a * f) * e \in Nat
  BY <1>5, <1>6, Product, ProductNat
<1>. QED
  BY <1>4, <1>7

LEMMA CloserFollows ==
  ASSUME NEW icons \in Seq([w : Nat, h : Nat \ {0}]), NEW room \in Nat,
         NEW i \in DOMAIN icons, NEW k \in DOMAIN icons, NEW m \in DOMAIN icons,
         Closer(icons, room, m, i), ~Closer(icons, room, k, i)
  PROVE  Closer(icons, room, m, k)
<1> DEFINE Dim(q) == icons[q].w + icons[q].h
<1>1. /\ Dim(i) \in Nat \ {0} /\ Dim(k) \in Nat \ {0} /\ Dim(m) \in Nat \ {0}
  BY DimensionPositive
<1>2. /\ Gap(icons, room, i) \in Nat /\ Gap(icons, room, k) \in Nat
      /\ Gap(icons, room, m) \in Nat
  BY DimensionPositive
<1>3. /\ Gap(icons, room, m) * Dim(i) < Gap(icons, room, i) * Dim(m)
      /\ ~(Gap(icons, room, k) * Dim(i) < Gap(icons, room, i) * Dim(k))
  BY DEF Closer
<1> HIDE DEF Dim
<1>4. Gap(icons, room, m) * Dim(k) < Gap(icons, room, k) * Dim(m)
  BY <1>1, <1>2, <1>3, RatiosFollow
<1>. QED
  BY <1>4 DEF Closer, Dim

LEMMA NotBothCloser ==
  ASSUME NEW icons \in Seq([w : Nat, h : Nat \ {0}]), NEW room \in Nat,
         NEW i \in DOMAIN icons, NEW k \in DOMAIN icons, Closer(icons, room, i, k)
  PROVE  ~Closer(icons, room, k, i)
<1>1. /\ icons[i].w + icons[i].h \in Nat /\ icons[k].w + icons[k].h \in Nat
      /\ Gap(icons, room, i) \in Nat /\ Gap(icons, room, k) \in Nat
  BY DimensionPositive
<1>2. \A a \in Nat, b \in Nat, c \in Nat, d \in Nat :
        a * b < c * d => ~(c * d < a * b)
  BY ProductNat
<1>. QED
  BY <1>1, <1>2 DEF Closer

LEMMA BestExists ==
  ASSUME NEW icons \in Seq([w : Nat, h : Nat \ {0}]), icons # <<>>, NEW room \in Nat
  PROVE  \E i \in DOMAIN icons : FirstBest(icons, room, Len(icons), i)
<1> DEFINE Best(n, i) == FirstBest(icons, room, n, i)
           Bad == {n \in 1..Len(icons) : ~\E i \in 1..n : Best(n, i)}
<1>1. Len(icons) \in Nat /\ Len(icons) \in 1..Len(icons)
      /\ DOMAIN icons = 1..Len(icons)
  OBVIOUS
<1>2. ASSUME NEW i \in DOMAIN icons PROVE ~Closer(icons, room, i, i)
  BY NotBothCloser
<1>3. ASSUME Bad # {} PROVE FALSE
  <2> HIDE DEF Best
  <2>1. Bad \in SUBSET Nat
    BY <1>1
  <2> HIDE DEF Bad
  <2>2. PICK n \in Bad : \A k \in Bad : n <= k
    BY <1>3, <2>1, HasLeast
  <2>3. /\ n \in Nat /\ n \in 1..Len(icons)
        /\ ~\E i \in 1..n : Best(n, i)
    BY <1>1, <2>2 DEF Bad
  <2>4. \A k \in 1..n : k \in DOMAIN icons
    BY <1>1, <2>3
  <2>5. n # 1
    <3>1. n = 1 => Best(n, 1)
      BY <1>1, <1>2, <2>4 DEF Best, FirstBest
    <3>. QED
      BY <2>3, <3>1
  <2>6. n - 1 \in 1..Len(icons) /\ n - 1 \notin Bad
    BY <1>1, <2>2, <2>3, <2>5
  <2>7. PICK i \in 1..(n - 1) : Best(n - 1, i)
    BY <2>6 DEF Bad
  <2>8. n \in DOMAIN icons /\ i \in 1..n /\ i \in DOMAIN icons
        /\ \A k \in 1..(n - 1) : k \in 1..n /\ k \in DOMAIN icons
    BY <2>3, <2>4, <2>7
  <2>9. CASE Closer(icons, room, n, i)
    <3>1. ASSUME NEW k \in 1..(n - 1) PROVE Closer(icons, room, n, k)
      <4>1. k < i \/ ~(k < i)
        OBVIOUS
      <4>2. k \in DOMAIN icons
        BY <2>8
      <4>3. ~Closer(icons, room, k, i)
        BY <2>7, <2>8, <4>1, <4>2, NotBothCloser DEF Best, FirstBest
      <4>. QED
        BY <2>8, <2>9, <4>2, <4>3, CloserFollows
    <3>2. Best(n, n)
      BY <1>2, <2>3, <2>8, <3>1 DEF Best, FirstBest
    <3>. QED
      BY <2>3, <2>5, <3>2
  <2>10. CASE ~Closer(icons, room, n, i)
    <3>1. Best(n, i)
      BY <2>3, <2>7, <2>8, <2>10 DEF Best, FirstBest
    <3>. QED
      BY <2>3, <2>8, <3>1
  <2>. QED
    BY <2>9, <2>10
<1> HIDE DEF Best
<1>4. Len(icons) \notin Bad
  BY <1>3
<1>5. \E i \in 1..Len(icons) : Best(Len(icons), i)
  BY <1>1, <1>4
<1>. QED
  BY <1>1, <1>5 DEF Best

LEMMA SelectedIcon ==
  ASSUME NEW icons \in Seq([w : Nat, h : Nat \ {0}]), icons # <<>>,
         NEW r, IsBox(r)
  PROVE  SelectIcon(icons, r) \in DOMAIN icons
<1> DEFINE room == IconRoom(r).w + IconRoom(r).h
<1>1. room \in Nat
  <2>1. PICK w \in Nat, h \in Nat : w = r.w /\ h = r.h
    BY DEF IsBox
  <2>2. (w * 2) \div 3 \in Nat /\ (h * 2) \div 3 \in Nat
    OBVIOUS
  <2>3. IconRoom(r) = [w |-> (w * 2) \div 3, h |-> (h * 2) \div 3]
    BY <2>1 DEF IconRoom
  <2>. QED
    BY <2>2, <2>3
<1>2. SelectIcon(icons, r) = CHOOSE i \in DOMAIN icons :
        \A k \in DOMAIN icons : IF k < i THEN Closer(icons, room, i, k)
                                ELSE ~Closer(icons, room, k, i)
  BY DEF SelectIcon, Closer, Gap
<1>3. DOMAIN icons = 1..Len(icons)
  OBVIOUS
<1> HIDE DEF room
<1>4. \E i \in DOMAIN icons :
        \A k \in DOMAIN icons : IF k < i THEN Closer(icons, room, i, k)
                                ELSE ~Closer(icons, room, k, i)
  BY <1>1, <1>3, BestExists DEF FirstBest
<1>. QED
  BY <1>2, <1>4

(* Icons are drawn inside the label and inside windows.                    *)
LEMMA InvIconsShown == PagerInv => IconsShown
<1> SUFFICES ASSUME PagerInv PROVE IconsShown
  OBVIOUS
<1>1. /\ style \in StyleType /\ screen \in ScreenType /\ tpl = Template(style, screen)
      /\ at \in Shown
  BY InvTypes, InvStyle
<1>2. ASSUME style.pad, NEW n \in 1..MaxHidden, NEW i \in 0..(n - 1), NEW k \in 0..(n - 1)
      PROVE  /\ Within(HiddenBox(style, boxes[at].pad, n, i), boxes[at].pad)
             /\ i # k => Apart(HiddenBox(style, boxes[at].pad, n, i),
                               HiddenBox(style, boxes[at].pad, n, k))
  <2>1. IsBox(boxes[at].pad) /\ boxes[at].pad.h = tpl.pad.h
    BY <1>1, InvBoxes
  <2>2. tpl.pad.h = style.text + style.margin * 2
    BY <1>1, <1>2, TemplateSizes
  <2>3. style.margin * 2 <= boxes[at].pad.h
    BY <1>1, <2>1, <2>2 DEF StyleType
  <2>4. n \in Nat \ {0}
    OBVIOUS
  <2>. QED
    BY <1>1, <2>1, <2>3, <2>4, HiddenBoxes
<1>3. ASSUME NEW icons \in Images, NEW box \in Inner
      PROVE  Within(IconBox(Scaled(box), icons[SelectIcon(icons, Scaled(box))]),
                    Scaled(box))
  <2>1. IsBox(Scaled(box))
    <3>1. /\ IsBox(boxes[at].dbox)
          /\ boxes[at].dbox.w = tpl.dbox.w /\ boxes[at].dbox.h = tpl.dbox.h
          /\ InArea(screen, box)
      BY <1>1, InvBoxes, InvInner
    <3>. QED
      BY <1>1, <3>1, ScaledKeepPlace DEF Scaled
  <2> DEFINE S == [w : Nat, h : Nat \ {0}]
  <2>2. icons \in Seq(S) /\ icons # <<>>
    BY ImagesAssumption
  <2>3. SelectIcon(icons, Scaled(box)) \in DOMAIN icons
    BY <2>1, <2>2, SelectedIcon
  <2>4. icons[SelectIcon(icons, Scaled(box))] \in S
    <3> HIDE DEF S
    <3>. QED
      BY <2>2, <2>3
  <2>. QED
    BY <2>1, <2>4, IconInside
<1>. QED
  BY <1>2, <1>3 DEF IconsShown

(***************************************************************************)
(* Where the pager is put.                                                 *)
(***************************************************************************)
LEMMA InvOnWorkarea == PagerInv => OnWorkarea
<1> SUFFICES ASSUME PagerInv, NEW corner \in Corners, NEW area \in Workareas,
                    NEW by \in Offsets
             PROVE  LET p == PagerAt(corner, by.x, by.y, area, Size)
                        right == corner \in {"TOPRIGHT", "BOTTOMRIGHT"}
                        low   == corner \in {"BOTTOMLEFT", "BOTTOMRIGHT"}
                    IN  /\ Size.w + by.x <= area.w /\ (right \/ area.x = 0) =>
                             p.x >= area.x /\ p.x + Size.w <= area.x + area.w
                        /\ Size.h + by.y <= area.h /\ (low \/ area.y = 0) =>
                             p.y >= area.y /\ p.y + Size.h <= area.y + area.h
  BY DEF OnWorkarea
<1>1. /\ area.x \in Nat /\ area.y \in Nat /\ area.w \in Nat /\ area.h \in Nat
      /\ by.x \in Nat /\ by.y \in Nat
  BY PositionAssumption
<1>2. Size.w \in Int /\ Size.h \in Int
  <2>1. /\ Grids.rows \in Nat /\ Grids.cols \in Nat /\ PartsFit(tpl, style)
    BY InvTypes, InvCell, InvStyle
  <2>. QED
    BY <2>1, ProductNat DEF Size, PagerSize, PartsFit
<1> HIDE DEF Size
<1>. QED
  BY <1>1, <1>2 DEF PagerAt

(***************************************************************************)
(* The borders of the grid.                                                *)
(***************************************************************************)

(* The lines of the grid are made of crossings and of pieces between them. *)
Horizontal(r, c) ==
  Piece(IF r = 0 THEN "HORIZONTAL_TOP" ELSE "HORIZONTAL_BOTTOM",
        c * (tpl.cell.w + style.border) + style.border,
        r * (tpl.cell.h + style.border), tpl.cell.w, style.border)
Vertical(r, c) ==
  Piece(IF c = 0 THEN "VERTICAL_LEFT" ELSE "VERTICAL_RIGHT",
        c * (tpl.cell.w + style.border),
        r * (tpl.cell.h + style.border) + style.border,
        style.border, tpl.cell.h)

(* Those that the desktop at a place paints.                               *)
PaintsCrossing(p, r, c) ==
  \/ r = p.row + 1 /\ c = p.col + 1
  \/ p.row = 0 /\ r = p.row /\ c = p.col
  \/ p.row = 0 /\ p.col = Grids.cols - 1 /\ r = p.row /\ c = p.col + 1
  \/ p.col = 0 /\ r = p.row + 1 /\ c = p.col
PaintsHorizontal(p, r, c) ==
  \/ r = p.row + 1 /\ c = p.col
  \/ p.row = 0 /\ r = p.row /\ c = p.col
PaintsVertical(p, r, c) ==
  \/ r = p.row /\ c = p.col + 1
  \/ p.col = 0 /\ r = p.row /\ c = p.col

LEMMA InvLines ==
  Lines = {Crossing(r, c) : r \in 0..Grids.rows, c \in 0..Grids.cols}
          \union {Horizontal(r, c) : r \in 0..Grids.rows, c \in 0..(Grids.cols - 1)}
          \union {Vertical(r, c) : r \in 0..(Grids.rows - 1), c \in 0..Grids.cols}
  BY DEF Lines, Horizontal, Vertical

(* The corners of a desktop are where lines cross.                         *)
LEMMA InvSides ==
  ASSUME PagerInv, NEW d \in Shown
  PROVE  LET W == tpl.cell.w + style.border
             H == tpl.cell.h + style.border
             p == CellOf(d)
             box == boxes[d].cell
         IN  /\ W \in Nat /\ H \in Nat
             /\ p.row * H \in Nat /\ p.col * W \in Nat
             /\ (p.row + 1) * H \in Nat /\ (p.col + 1) * W \in Nat
             /\ box.x = p.col * W + style.border
             /\ box.y = p.row * H + style.border
             /\ box.x - style.border = p.col * W
             /\ box.y - style.border = p.row * H
             /\ box.x + box.w = (p.col + 1) * W
             /\ box.y + box.h = (p.row + 1) * H
             /\ box.w = tpl.cell.w /\ box.h = tpl.cell.h
<1>1. PartsFit(tpl, style)
  BY InvStyle
<1>2. PICK w \in Nat, h \in Nat, b \in Nat, row \in Nat, col \in Nat :
        /\ w = tpl.cell.w /\ h = tpl.cell.h /\ b = style.border
        /\ row = CellOf(d).row /\ col = CellOf(d).col
  BY <1>1, InvCell DEF PartsFit
<1>3. /\ boxes[d].cell.x = col * w + b * (col + 1)
      /\ boxes[d].cell.y = row * h + b * (row + 1)
      /\ boxes[d].cell.w = w /\ boxes[d].cell.h = h
  <2>1. boxes[d].cell = Rect(Left(tpl, style, CellOf(d)), Top(tpl, style, CellOf(d)),
                             tpl.cell.w, tpl.cell.h)
    BY <1>1, <1>2, InvCell, BoxesAre
  <2>. QED
    BY <1>2, <2>1 DEF Rect, Left, Top
<1>4. /\ w + b \in Nat /\ h + b \in Nat
      /\ row * (h + b) \in Nat /\ col * (w + b) \in Nat
      /\ (row + 1) * (h + b) \in Nat /\ (col + 1) * (w + b) \in Nat
  BY ProductNat
<1>5. /\ col * w + b * (col + 1) = col * (w + b) + b
      /\ row * h + b * (row + 1) = row * (h + b) + b
      /\ (col + 1) * (w + b) = col * (w + b) + b + w
      /\ (row + 1) * (h + b) = row * (h + b) + b + h
  BY SMTT(20)
<1>. QED
  BY <1>2, <1>3, <1>4, <1>5

(* What a desktop paints.                                                  *)
LEMMA InvPainted ==
  ASSUME PagerInv, style.border > 0, NEW d \in Shown, NEW piece
  PROVE  piece \in Painted(d) <=>
           \/ \E r, c : PaintsCrossing(CellOf(d), r, c) /\ piece = Crossing(r, c)
           \/ \E r, c : PaintsHorizontal(CellOf(d), r, c) /\ piece = Horizontal(r, c)
           \/ \E r, c : PaintsVertical(CellOf(d), r, c) /\ piece = Vertical(r, c)
<1> DEFINE W == tpl.cell.w + style.border
           H == tpl.cell.h + style.border
           p == CellOf(d)
           b == style.border
           box == boxes[d].cell
           rows == Grids.rows
           cols == Grids.cols
<1>1. /\ rows \in Nat \ {0} /\ cols \in Nat \ {0}
      /\ p.row \in 0..(rows - 1) /\ p.col \in 0..(cols - 1)
  BY InvCell
<1>2. /\ box.x = p.col * W + b /\ box.y = p.row * H + b
      /\ box.x - b = p.col * W /\ box.y - b = p.row * H
      /\ box.x + box.w = (p.col + 1) * W /\ box.y + box.h = (p.row + 1) * H
      /\ box.w = tpl.cell.w /\ box.h = tpl.cell.h
  BY InvSides
<1>3. Painted(d) = Frame(box, b, p.row, p.col, rows, cols)
  BY InvStyle DEF Painted, GridBorder, PartsFit
<1>4. \A r, c, kind : Crossing(r, c) = Piece(Crossing(r, c).kind, c * W, r * H, b, b)
  BY DEF Crossing, Piece
<1>5. /\ Crossing(p.row + 1, p.col + 1).kind =
           CASE p.row = rows - 1 /\ p.col = cols - 1 -> "CORNER_BOTTOMRIGHT"
             [] p.row = rows - 1 /\ p.col # cols - 1 -> "MIDDLE_BOTTOM"
             [] p.row # rows - 1 /\ p.col = cols - 1 -> "MIDDLE_RIGHT"
             [] OTHER -> "CROSS"
      /\ p.row = 0 => Crossing(p.row, p.col).kind =
                        IF p.col = 0 THEN "CORNER_TOPLEFT" ELSE "MIDDLE_TOP"
      /\ p.row = 0 /\ p.col = cols - 1 =>
           Crossing(p.row, p.col + 1).kind = "CORNER_TOPRIGHT"
      /\ p.col = 0 => Crossing(p.row + 1, p.col).kind =
                        IF p.row = rows - 1 THEN "CORNER_BOTTOMLEFT" ELSE "MIDDLE_LEFT"
  BY <1>1 DEF Crossing, Piece
<1>6. /\ Horizontal(p.row + 1, p.col) =
           Piece("HORIZONTAL_BOTTOM", box.x, box.y + box.h, box.w, b)
      /\ p.row = 0 => Horizontal(p.row, p.col) =
                        Piece("HORIZONTAL_TOP", box.x, box.y - b, box.w, b)
  BY <1>1, <1>2 DEF Horizontal
<1>7. /\ Vertical(p.row, p.col + 1) =
           Piece("VERTICAL_RIGHT", box.x + box.w, box.y, b, box.h)
      /\ p.col = 0 => Vertical(p.row, p.col) =
                        Piece("VERTICAL_LEFT", box.x - b, box.y, b, box.h)
  BY <1>1, <1>2 DEF Vertical
<1> DEFINE joint == CASE p.row = rows - 1 /\ p.col = cols - 1 -> "CORNER_BOTTOMRIGHT"
                      [] p.row = rows - 1 /\ p.col # cols - 1 -> "MIDDLE_BOTTOM"
                      [] p.row # rows - 1 /\ p.col = cols - 1 -> "MIDDLE_RIGHT"
                      [] OTHER -> "CROSS"
<1>8. /\ Crossing(p.row + 1, p.col + 1) =
           Piece(joint, box.x + box.w, box.y + box.h, b, b)
      /\ p.row = 0 => Crossing(p.row, p.col) =
           Piece(IF p.col = 0 THEN "CORNER_TOPLEFT" ELSE "MIDDLE_TOP",
                 box.x - b, box.y - b, b, b)
      /\ p.row = 0 /\ p.col = cols - 1 => Crossing(p.row, p.col + 1) =
           Piece("CORNER_TOPRIGHT", box.x + box.w, box.y - b, b, b)
      /\ p.col = 0 => Crossing(p.row + 1, p.col) =
           Piece(IF p.row = rows - 1 THEN "CORNER_BOTTOMLEFT" ELSE "MIDDLE_LEFT",
                 box.x - b, box.y + box.h, b, b)
  BY <1>2, <1>4, <1>5
<1> HIDE DEF W, H, b, box, rows, cols, joint
<1>9. piece \in Frame(box, b, p.row, p.col, rows, cols) <=>
        \/ piece = Piece(joint, box.x + box.w, box.y + box.h, b, b)
        \/ /\ p.row = 0
           /\ piece = Piece(IF p.col = 0 THEN "CORNER_TOPLEFT" ELSE "MIDDLE_TOP",
                            box.x - b, box.y - b, b, b)
        \/ /\ p.row = 0 /\ p.col = cols - 1
           /\ piece = Piece("CORNER_TOPRIGHT", box.x + box.w, box.y - b, b, b)
        \/ /\ p.col = 0
           /\ piece = Piece(IF p.row = rows - 1 THEN "CORNER_BOTTOMLEFT"
                            ELSE "MIDDLE_LEFT", box.x - b, box.y + box.h, b, b)
        \/ piece = Piece("HORIZONTAL_BOTTOM", box.x, box.y + box.h, box.w, b)
        \/ /\ p.row = 0
           /\ piece = Piece("HORIZONTAL_TOP", box.x, box.y - b, box.w, b)
        \/ piece = Piece("VERTICAL_RIGHT", box.x + box.w, box.y, b, box.h)
        \/ /\ p.col = 0
           /\ piece = Piece("VERTICAL_LEFT", box.x - b, box.y, b, box.h)
  BY Zenon DEF Frame, joint
<1> HIDE DEF p
<1>10. (\E r, c : PaintsCrossing(p, r, c) /\ piece = Crossing(r, c)) <=>
        \/ piece = Crossing(p.row + 1, p.col + 1)
        \/ p.row = 0 /\ piece = Crossing(p.row, p.col)
        \/ p.row = 0 /\ p.col = cols - 1 /\ piece = Crossing(p.row, p.col + 1)
        \/ p.col = 0 /\ piece = Crossing(p.row + 1, p.col)
  BY Zenon DEF PaintsCrossing, cols
<1>11. (\E r, c : PaintsHorizontal(p, r, c) /\ piece = Horizontal(r, c)) <=>
        \/ piece = Horizontal(p.row + 1, p.col)
        \/ p.row = 0 /\ piece = Horizontal(p.row, p.col)
  BY Zenon DEF PaintsHorizontal
<1>12. (\E r, c : PaintsVertical(p, r, c) /\ piece = Vertical(r, c)) <=>
        \/ piece = Vertical(p.row, p.col + 1)
        \/ p.col = 0 /\ piece = Vertical(p.row, p.col)
  BY Zenon DEF PaintsVertical
<1> USE DEF p
<1>. QED
  BY <1>3, <1>6, <1>7, <1>8, <1>9, <1>10, <1>11, <1>12

(* On a grid without holes every place is that of a desktop.               *)
LEMMA InvPlaceUsed ==
  ASSUME PagerInv, Full, NEW row \in 0..(Grids.rows - 1),
         NEW col \in 0..(Grids.cols - 1)
  PROVE  \E d \in Shown : CellOf(d).row = row /\ CellOf(d).col = col
<1>1. /\ cfg \in Layout /\ count \in Nat \ {0} /\ first \in Nat
      /\ \A k \in 0..(count - 1) : first + k \in Shown
  BY InvTypes
<1>2. PICK i \in 0..(count - 1) : Cell(cfg, count, i) = [row |-> row, col |-> col]
  BY <1>1, EveryPlaceUsed DEF Full, Grids
<1>3. (first + i) - first = i
  BY <1>1
<1>4. CellOf(first + i) = [row |-> row, col |-> col]
  BY <1>2, <1>3 DEF CellOf
<1>. QED
  BY <1>1, <1>2, <1>4

(* The place whose desktop paints a piece of a line,                       *)
CrossingOwner(r, c) ==
  [row |-> IF r = 0 THEN 0 ELSE r - 1,
   col |-> IF c = 0 \/ (r = 0 /\ c # Grids.cols) THEN c ELSE c - 1]
HorizontalOwner(r, c) == [row |-> IF r = 0 THEN 0 ELSE r - 1, col |-> c]
VerticalOwner(r, c)   == [row |-> r, col |-> IF c = 0 THEN 0 ELSE c - 1]

(* which is one of the grid,                                               *)
LEMMA OwnerPaints ==
  ASSUME Grids.rows \in Nat \ {0}, Grids.cols \in Nat \ {0}, NEW r, NEW c, NEW p
  PROVE  LET InGrid == /\ p.row \in 0..(Grids.rows - 1)
                       /\ p.col \in 0..(Grids.cols - 1)
             Is(q) == p.row = q.row /\ p.col = q.col
         IN  /\ r \in 0..Grids.rows /\ c \in 0..Grids.cols
                  /\ Is(CrossingOwner(r, c))
                => InGrid /\ PaintsCrossing(p, r, c)
             /\ r \in 0..Grids.rows /\ c \in 0..(Grids.cols - 1)
                  /\ Is(HorizontalOwner(r, c))
                => InGrid /\ PaintsHorizontal(p, r, c)
             /\ r \in 0..(Grids.rows - 1) /\ c \in 0..Grids.cols
                  /\ Is(VerticalOwner(r, c))
                => InGrid /\ PaintsVertical(p, r, c)
<1>1. PICK rows \in Nat \ {0}, cols \in Nat \ {0} : rows = Grids.rows /\ cols = Grids.cols
  OBVIOUS
<1>. QED
  BY <1>1 DEF CrossingOwner, HorizontalOwner, VerticalOwner,
              PaintsCrossing, PaintsHorizontal, PaintsVertical

(* and the only one that paints it.                                        *)
LEMMA PaintsOwned ==
  ASSUME Grids.rows \in Nat \ {0}, Grids.cols \in Nat \ {0}, NEW r, NEW c, NEW p,
         p.row \in 0..(Grids.rows - 1), p.col \in 0..(Grids.cols - 1)
  PROVE  /\ PaintsCrossing(p, r, c) =>
              /\ r \in 0..Grids.rows /\ c \in 0..Grids.cols
              /\ p.row = CrossingOwner(r, c).row /\ p.col = CrossingOwner(r, c).col
         /\ PaintsHorizontal(p, r, c) =>
              /\ r \in 0..Grids.rows /\ c \in 0..(Grids.cols - 1)
              /\ p.row = HorizontalOwner(r, c).row /\ p.col = HorizontalOwner(r, c).col
         /\ PaintsVertical(p, r, c) =>
              /\ r \in 0..(Grids.rows - 1) /\ c \in 0..Grids.cols
              /\ p.row = VerticalOwner(r, c).row /\ p.col = VerticalOwner(r, c).col
<1>1. PICK rows \in Nat \ {0}, cols \in Nat \ {0} : rows = Grids.rows /\ cols = Grids.cols
  OBVIOUS
<1>. QED
  BY <1>1 DEF CrossingOwner, HorizontalOwner, VerticalOwner,
              PaintsCrossing, PaintsHorizontal, PaintsVertical

LEMMA ProductCancels ==
  ASSUME NEW W \in Nat \ {0}, NEW a \in Nat, NEW b \in Nat, a * W = b * W
  PROVE  a = b
<1>1. CASE a < b
  BY <1>1, Product
<1>2. CASE b < a
  BY <1>2, Product
<1>. QED
  BY <1>1, <1>2

(* A piece of a line is not another one.                                   *)
LEMMA InvPiecesDiffer ==
  ASSUME PagerInv, style.border > 0,
         NEW r \in Nat, NEW c \in Nat, NEW s \in Nat, NEW t \in Nat
  PROVE  /\ Crossing(r, c) = Crossing(s, t) => r = s /\ c = t
         /\ Horizontal(r, c) = Horizontal(s, t) => r = s /\ c = t
         /\ Vertical(r, c) = Vertical(s, t) => r = s /\ c = t
         /\ Crossing(r, c) # Horizontal(s, t)
         /\ Crossing(r, c) # Vertical(s, t)
         /\ Horizontal(r, c) # Vertical(s, t)
<1>1. PICK w \in Nat, h \in Nat, b \in Nat \ {0} :
        w = tpl.cell.w /\ h = tpl.cell.h /\ b = style.border
  BY InvStyle DEF PartsFit
<1>2. PICK W \in Nat \ {0}, H \in Nat \ {0} : W = w + b /\ H = h + b
  BY <1>1
<1>3. /\ r * H \in Nat /\ s * H \in Nat /\ c * W \in Nat /\ t * W \in Nat
      /\ r * H = s * H => r = s
      /\ c * W = t * W => c = t
  BY <1>2, ProductNat, ProductCancels
<1>4. /\ Crossing(r, c).box.x = c * W /\ Crossing(r, c).box.y = r * H
      /\ Crossing(s, t).box.x = t * W /\ Crossing(s, t).box.y = s * H
  BY <1>1, <1>2 DEF Crossing, Piece, Rect
<1>5. /\ Horizontal(r, c).box.x = c * W + b /\ Horizontal(r, c).box.y = r * H
      /\ Horizontal(s, t).box.x = t * W + b /\ Horizontal(s, t).box.y = s * H
  BY <1>1, <1>2 DEF Horizontal, Piece, Rect
<1>6. /\ Vertical(r, c).box.x = c * W /\ Vertical(r, c).box.y = r * H + b
      /\ Vertical(s, t).box.x = t * W /\ Vertical(s, t).box.y = s * H + b
  BY <1>1, <1>2 DEF Vertical, Piece, Rect
<1>7. /\ Horizontal(s, t).kind \in {"HORIZONTAL_TOP", "HORIZONTAL_BOTTOM"}
      /\ Horizontal(r, c).kind \in {"HORIZONTAL_TOP", "HORIZONTAL_BOTTOM"}
      /\ Vertical(s, t).kind \in {"VERTICAL_LEFT", "VERTICAL_RIGHT"}
  BY DEF Horizontal, Vertical, Piece
<1>8. Crossing(r, c).kind \notin {"HORIZONTAL_TOP", "HORIZONTAL_BOTTOM",
                                  "VERTICAL_LEFT", "VERTICAL_RIGHT"}
  BY DEF Crossing, Piece
<1>9. Crossing(r, c) = Crossing(s, t) => r = s /\ c = t
  BY <1>3, <1>4
<1>10. Horizontal(r, c) = Horizontal(s, t) => r = s /\ c = t
  BY <1>1, <1>3, <1>5
<1>11. Vertical(r, c) = Vertical(s, t) => r = s /\ c = t
  BY <1>1, <1>3, <1>6
<1>. QED
  BY <1>7, <1>8, <1>9, <1>10, <1>11

(* The desktops paint all lines,                                           *)
LEMMA InvLinesPainted ==
  ASSUME PagerInv, Full, style.border > 0
  PROVE  UNION {Painted(d) : d \in Shown} = Lines
<1>1. Grids.rows \in Nat \ {0} /\ Grids.cols \in Nat \ {0}
  BY InvCell, InvTypes
<1>2. ASSUME NEW d \in Shown, NEW piece \in Painted(d)
      PROVE  piece \in Lines
  <2>1. /\ CellOf(d).row \in 0..(Grids.rows - 1)
        /\ CellOf(d).col \in 0..(Grids.cols - 1)
    BY InvCell
  <2>2. CASE \E r, c : PaintsCrossing(CellOf(d), r, c) /\ piece = Crossing(r, c)
    BY <1>1, <2>1, <2>2, PaintsOwned, InvLines
  <2>3. CASE \E r, c : PaintsHorizontal(CellOf(d), r, c) /\ piece = Horizontal(r, c)
    BY <1>1, <2>1, <2>3, PaintsOwned, InvLines
  <2>4. CASE \E r, c : PaintsVertical(CellOf(d), r, c) /\ piece = Vertical(r, c)
    BY <1>1, <2>1, <2>4, PaintsOwned, InvLines
  <2>. QED
    BY <2>2, <2>3, <2>4, InvPainted
<1>3. ASSUME NEW p, p.row \in 0..(Grids.rows - 1), p.col \in 0..(Grids.cols - 1)
      PROVE  \E d \in Shown : CellOf(d).row = p.row /\ CellOf(d).col = p.col
  BY <1>3, InvPlaceUsed
<1>4. ASSUME NEW r \in 0..Grids.rows, NEW c \in 0..Grids.cols
      PROVE  \E d \in Shown : Crossing(r, c) \in Painted(d)
  <2> DEFINE p == CrossingOwner(r, c)
  <2>1. p.row \in 0..(Grids.rows - 1) /\ p.col \in 0..(Grids.cols - 1)
    BY <1>1, <1>4, OwnerPaints
  <2>2. PICK d \in Shown : CellOf(d).row = p.row /\ CellOf(d).col = p.col
    BY <1>3, <2>1
  <2>3. PaintsCrossing(CellOf(d), r, c)
    BY <1>1, <1>4, <2>2, OwnerPaints
  <2>. QED
    BY <2>2, <2>3, InvPainted
<1>5. ASSUME NEW r \in 0..Grids.rows, NEW c \in 0..(Grids.cols - 1)
      PROVE  \E d \in Shown : Horizontal(r, c) \in Painted(d)
  <2> DEFINE p == HorizontalOwner(r, c)
  <2>1. p.row \in 0..(Grids.rows - 1) /\ p.col \in 0..(Grids.cols - 1)
    BY <1>1, <1>5, OwnerPaints
  <2>2. PICK d \in Shown : CellOf(d).row = p.row /\ CellOf(d).col = p.col
    BY <1>3, <2>1
  <2>3. PaintsHorizontal(CellOf(d), r, c)
    BY <1>1, <1>5, <2>2, OwnerPaints
  <2>. QED
    BY <2>2, <2>3, InvPainted
<1>6. ASSUME NEW r \in 0..(Grids.rows - 1), NEW c \in 0..Grids.cols
      PROVE  \E d \in Shown : Vertical(r, c) \in Painted(d)
  <2> DEFINE p == VerticalOwner(r, c)
  <2>1. p.row \in 0..(Grids.rows - 1) /\ p.col \in 0..(Grids.cols - 1)
    BY <1>1, <1>6, OwnerPaints
  <2>2. PICK d \in Shown : CellOf(d).row = p.row /\ CellOf(d).col = p.col
    BY <1>3, <2>1
  <2>3. PaintsVertical(CellOf(d), r, c)
    BY <1>1, <1>6, <2>2, OwnerPaints
  <2>. QED
    BY <2>2, <2>3, InvPainted
<1>7. ASSUME NEW piece \in Lines
      PROVE  \E d \in Shown : piece \in Painted(d)
  BY <1>4, <1>5, <1>6, InvLines
<1>. QED
  BY <1>2, <1>7

(* none twice.                                                             *)
LEMMA InvPaintedOnce ==
  ASSUME PagerInv, style.border > 0, NEW d \in Shown, NEW e \in Shown, d # e
  PROVE  Painted(d) \intersect Painted(e) = {}
<1> SUFFICES ASSUME NEW piece, piece \in Painted(d), piece \in Painted(e)
             PROVE  CellOf(d) = CellOf(e)
  <2>1. CellOf(d) # CellOf(e)
    <3>1. /\ cfg \in Layout /\ count \in Nat \ {0} /\ first \in Nat
          /\ d \in Nat /\ d - first \in 0..(count - 1)
          /\ e \in Nat /\ e - first \in 0..(count - 1)
      BY InvTypes
    <3>2. d - first # e - first
      BY <3>1
    <3>. QED
      BY <3>1, <3>2, CellsDiffer DEF CellOf
  <2>. QED
    BY <2>1
<1>1. /\ Grids.rows \in Nat \ {0} /\ Grids.cols \in Nat \ {0}
      /\ CellOf(d).row \in 0..(Grids.rows - 1) /\ CellOf(d).col \in 0..(Grids.cols - 1)
      /\ CellOf(e).row \in 0..(Grids.rows - 1) /\ CellOf(e).col \in 0..(Grids.cols - 1)
      /\ CellOf(d) = [row |-> CellOf(d).row, col |-> CellOf(d).col]
      /\ CellOf(e) = [row |-> CellOf(e).row, col |-> CellOf(e).col]
  BY InvCell
<1>2. \A r, c : /\ \/ PaintsCrossing(CellOf(d), r, c) \/ PaintsCrossing(CellOf(e), r, c)
                   \/ PaintsHorizontal(CellOf(d), r, c) \/ PaintsHorizontal(CellOf(e), r, c)
                   \/ PaintsVertical(CellOf(d), r, c) \/ PaintsVertical(CellOf(e), r, c)
                => r \in Nat /\ c \in Nat
  BY <1>1, PaintsOwned
<1>3. CASE \E r, c : PaintsCrossing(CellOf(d), r, c) /\ piece = Crossing(r, c)
  <2>1. PICK r, c : PaintsCrossing(CellOf(d), r, c) /\ piece = Crossing(r, c)
    BY <1>3
  <2>2. PaintsCrossing(CellOf(e), r, c)
    BY <1>2, <2>1, InvPainted, InvPiecesDiffer
  <2>. QED
    BY <1>1, <2>1, <2>2, PaintsOwned
<1>4. CASE \E r, c : PaintsHorizontal(CellOf(d), r, c) /\ piece = Horizontal(r, c)
  <2>1. PICK r, c : PaintsHorizontal(CellOf(d), r, c) /\ piece = Horizontal(r, c)
    BY <1>4
  <2>2. PaintsHorizontal(CellOf(e), r, c)
    BY <1>2, <2>1, InvPainted, InvPiecesDiffer
  <2>. QED
    BY <1>1, <2>1, <2>2, PaintsOwned
<1>5. CASE \E r, c : PaintsVertical(CellOf(d), r, c) /\ piece = Vertical(r, c)
  <2>1. PICK r, c : PaintsVertical(CellOf(d), r, c) /\ piece = Vertical(r, c)
    BY <1>5
  <2>2. PaintsVertical(CellOf(e), r, c)
    BY <1>2, <2>1, InvPainted, InvPiecesDiffer
  <2>. QED
    BY <1>1, <2>1, <2>2, PaintsOwned
<1>. QED
  BY <1>3, <1>4, <1>5, InvPainted

(* The desktops around one are shown whatever the shape of the grid, if it *)
(* begins at the top left: those above it and to the left, and all of the  *)
(* first row.                                                              *)
LEMMA PlacesBefore ==
  ASSUME NEW c \in Layout, c.corner = "TOPLEFT", NEW n \in Nat \ {0},
         NEW i \in 0..(n - 1), NEW row \in Nat, NEW col \in Nat,
         \/ row <= Cell(c, n, i).row /\ col <= Cell(c, n, i).col
         \/ row = 0 /\ col < Shape(c, n).cols
  PROVE  \E k \in 0..(n - 1) : Cell(c, n, k) = [row |-> row, col |-> col]
<1> DEFINE l == LineLength(c, n)
           m == LineCount(c, n)
           q == IF c.horz THEN row ELSE col
           r == IF c.horz THEN col ELSE row
           Q == LineOf(c, n, i)
           R == InLine(c, n, i)
           k == l * q + r
<1>1. /\ l \in Nat \ {0} /\ m \in Nat \ {0} /\ l <= n
      /\ l * (m - 1) < n
      /\ Q \in 0..(m - 1) /\ R \in 0..(l - 1) /\ i = l * Q + R
      /\ q \in Nat /\ r \in Nat
  <2>1. l \in 1..n /\ m \in Nat \ {0} /\ l * (m - 1) < n
    BY LinesFit
  <2>2. Q \in 0..(m - 1) /\ R \in 0..(l - 1) /\ i = l * Q + R
    BY SlotPlace
  <2>3. q \in Nat /\ r \in Nat
    OBVIOUS
  <2> HIDE DEF l, m, q, r, Q, R
  <2>. QED
    BY <2>1, <2>2, <2>3
<1>2. Cell(c, n, i) = [row |-> IF c.horz THEN Q ELSE R, col |-> IF c.horz THEN R ELSE Q]
  BY CellIs DEF DrawnAt, OnBottom, OnRight
<1>3. /\ c.horz  => Shape(c, n).cols = l
      /\ ~c.horz => Shape(c, n).cols = m
  BY ShapeIs
<1>4. \/ q <= Q /\ r <= R
      \/ q = 0 /\ r < l
      \/ r = 0 /\ q < m
  BY <1>2, <1>3
<1>5. [row |-> row, col |-> col] = DrawnAt(c, n, q, r)
  BY DEF DrawnAt, OnBottom, OnRight
<1> HIDE DEF l, m, q, r, Q, R
<1>6. k \in 0..(n - 1) /\ r \in 0..(l - 1)
  <2>1. /\ l * q \in Nat /\ l * Q \in Nat /\ l * (m - 1) \in Nat
    BY <1>1, ProductNat
  <2>2. CASE q <= Q /\ r <= R
    <3>1. l * q <= l * Q
      BY <1>1, <2>2, Product
    <3>. QED
      BY <1>1, <2>1, <2>2, <3>1
  <2>3. CASE q = 0 /\ r < l
    BY <1>1, <2>1, <2>3
  <2>4. CASE r = 0 /\ q < m
    <3>1. l * q <= l * (m - 1)
      BY <1>1, <2>4, Product
    <3>. QED
      BY <1>1, <2>1, <2>4, <3>1
  <2>. QED
    BY <1>4, <2>2, <2>3, <2>4
<1>7. q \in Int /\ k = LineLength(c, n) * q + r /\ r \in 0..(LineLength(c, n) - 1)
  BY <1>1, <1>6 DEF l
<1> HIDE DEF k
<1>8. LineOf(c, n, k) = q /\ InLine(c, n, k) = r
  BY <1>6, <1>7, SlotAt
<1>. QED
  BY <1>5, <1>6, <1>8, CellIs

LEMMA InvShownBefore ==
  ASSUME PagerInv, Full \/ cfg.corner = "TOPLEFT",
         NEW p, p.row \in 0..(Grids.rows - 1), p.col \in 0..(Grids.cols - 1),
         \/ p.row <= CellOf(at).row /\ p.col <= CellOf(at).col
         \/ p.row = 0
  PROVE  \E d \in Shown : CellOf(d).row = p.row /\ CellOf(d).col = p.col
<1>1. CASE Full
  BY <1>1, InvPlaceUsed
<1>2. CASE cfg.corner = "TOPLEFT"
  <2>1. /\ cfg \in Layout /\ count \in Nat \ {0} /\ first \in Nat
        /\ at - first \in 0..(count - 1)
        /\ \A k \in 0..(count - 1) : first + k \in Shown
        /\ Grids.rows \in Nat \ {0} /\ Grids.cols \in Nat \ {0}
    BY InvTypes, InvCell
  <2>2. p.row \in Nat /\ p.col \in Nat /\ p.col < Grids.cols
    BY <2>1
  <2>3. PICK k \in 0..(count - 1) :
          Cell(cfg, count, k) = [row |-> p.row, col |-> p.col]
    BY <1>2, <2>1, <2>2, PlacesBefore DEF CellOf, Grids
  <2>4. (first + k) - first = k
    BY <2>1
  <2>5. CellOf(first + k) = [row |-> p.row, col |-> p.col]
    BY <2>3, <2>4 DEF CellOf
  <2>. QED
    BY <2>1, <2>5
<1>. QED
  BY <1>1, <1>2

(* The border of the current desktop is drawn over what has been painted.  *)
LEMMA InvActiveCovers ==
  ASSUME PagerInv, Full \/ cfg.corner = "TOPLEFT",
         NEW piece \in ActiveBorder(boxes[at], style.border)
  PROVE  \E d \in Shown : \E line \in Painted(d) : line.box = piece.box
<1> DEFINE W == tpl.cell.w + style.border
           H == tpl.cell.h + style.border
           p == CellOf(at)
           b == style.border
           box == boxes[at].cell
           rows == Grids.rows
           cols == Grids.cols
<1>1. /\ rows \in Nat \ {0} /\ cols \in Nat \ {0}
      /\ p.row \in 0..(rows - 1) /\ p.col \in 0..(cols - 1)
      /\ at \in Shown
  BY InvCell, InvTypes
<1>2. b > 0
  BY InvStyle DEF ActiveBorder, PartsFit
<1>3. /\ box.x - b = p.col * W /\ box.y - b = p.row * H
      /\ box.x = p.col * W + b /\ box.y = p.row * H + b
      /\ box.x + box.w = (p.col + 1) * W /\ box.y + box.h = (p.row + 1) * H
      /\ box.w = tpl.cell.w /\ box.h = tpl.cell.h
  BY <1>1, InvSides
<1>4. /\ \A r, c : Crossing(r, c).box = Rect(c * W, r * H, b, b)
      /\ \A r, c : Horizontal(r, c).box = Rect(c * W + b, r * H, box.w, b)
      /\ \A r, c : Vertical(r, c).box = Rect(c * W, r * H + b, b, box.h)
  BY <1>3 DEF Crossing, Horizontal, Vertical, Piece
<1>5. ASSUME NEW r \in {p.row, p.row + 1}, NEW c \in {p.col, p.col + 1}
      PROVE  \E d \in Shown : Crossing(r, c) \in Painted(d)
  <2> DEFINE o == CrossingOwner(r, c)
  <2>1. r \in 0..rows /\ c \in 0..cols
    BY <1>1, <1>5
  <2>2. o.row \in 0..(rows - 1) /\ o.col \in 0..(cols - 1)
    BY <1>1, <2>1, OwnerPaints
  <2>3. (o.row <= p.row /\ o.col <= p.col) \/ o.row = 0
    BY <1>1, <1>5 DEF CrossingOwner
  <2>4. PICK d \in Shown : CellOf(d).row = o.row /\ CellOf(d).col = o.col
    BY <2>2, <2>3, InvShownBefore
  <2>5. PaintsCrossing(CellOf(d), r, c)
    BY <1>1, <2>1, <2>4, OwnerPaints
  <2>. QED
    BY <1>2, <2>4, <2>5, InvPainted
<1>6. ASSUME NEW r \in {p.row, p.row + 1}
      PROVE  \E d \in Shown : Horizontal(r, p.col) \in Painted(d)
  <2> DEFINE o == HorizontalOwner(r, p.col)
  <2>1. r \in 0..rows /\ p.col \in 0..(cols - 1)
    BY <1>1, <1>6
  <2>2. o.row \in 0..(rows - 1) /\ o.col \in 0..(cols - 1)
    BY <1>1, <2>1, OwnerPaints
  <2>3. o.row <= p.row /\ o.col <= p.col
    BY <1>1, <1>6 DEF HorizontalOwner
  <2>4. PICK d \in Shown : CellOf(d).row = o.row /\ CellOf(d).col = o.col
    BY <2>2, <2>3, InvShownBefore
  <2>5. PaintsHorizontal(CellOf(d), r, p.col)
    BY <1>1, <2>1, <2>4, OwnerPaints
  <2>. QED
    BY <1>2, <2>4, <2>5, InvPainted
<1>7. ASSUME NEW c \in {p.col, p.col + 1}
      PROVE  \E d \in Shown : Vertical(p.row, c) \in Painted(d)
  <2> DEFINE o == VerticalOwner(p.row, c)
  <2>1. p.row \in 0..(rows - 1) /\ c \in 0..cols
    BY <1>1, <1>7
  <2>2. o.row \in 0..(rows - 1) /\ o.col \in 0..(cols - 1)
    BY <1>1, <2>1, OwnerPaints
  <2>3. o.row <= p.row /\ o.col <= p.col
    BY <1>1, <1>7 DEF VerticalOwner
  <2>4. PICK d \in Shown : CellOf(d).row = o.row /\ CellOf(d).col = o.col
    BY <2>2, <2>3, InvShownBefore
  <2>5. PaintsVertical(CellOf(d), p.row, c)
    BY <1>1, <2>1, <2>4, OwnerPaints
  <2>. QED
    BY <1>2, <2>4, <2>5, InvPainted
<1>8. \/ \E r \in {p.row, p.row + 1}, c \in {p.col, p.col + 1} :
            piece.box = Rect(c * W, r * H, b, b)
      \/ \E r \in {p.row, p.row + 1} :
            piece.box = Rect(p.col * W + b, r * H, box.w, b)
      \/ \E c \in {p.col, p.col + 1} :
            piece.box = Rect(c * W, p.row * H + b, b, box.h)
  <2> HIDE DEF box, b, W, H, p
  <2>1. piece.box \in {Rect(box.x - b, box.y - b, b, b),
                       Rect(box.x + box.w, box.y - b, b, b),
                       Rect(box.x - b, box.y + box.h, b, b),
                       Rect(box.x + box.w, box.y + box.h, b, b),
                       Rect(box.x, box.y - b, box.w, b),
                       Rect(box.x, box.y + box.h, box.w, b),
                       Rect(box.x - b, box.y, b, box.h),
                       Rect(box.x + box.w, box.y, b, box.h)}
    <3>1. piece \in Frame(box, b, 0, 0, 1, 1)
      BY DEF ActiveBorder, box, b
    <3>. QED
      BY <3>1 DEF Frame, Piece
  <2>. QED
    BY <1>3, <2>1
<1>. QED
  BY <1>4, <1>5, <1>6, <1>7, <1>8

(* The borders of the grid.                                                *)
LEMMA InvBordersOnce == PagerInv => BordersOnce
  BY InvLinesPainted, InvPaintedOnce, InvActiveCovers DEF BordersOnce

(***************************************************************************)
(* The theorems.                                                           *)
(***************************************************************************)

(* rie_switch_desktop() computes the desktop that left, right, up and down *)
(* ask for from numbers, rie_set_desktop_geometry() the place where each   *)
(* is drawn: on a grid without holes they agree, for every layout, corner, *)
(* orientation, wrap and number of desktops.                               *)
THEOREM MovesFollowThePicture == Spec => []MovesOnScreen
<1>1. PagerInv => MovesOnScreen
  BY InvMoves
<1>. QED
  BY <1>1, PagerInvAlways, PTL

(* rie_set_pager_geometry(), rie_set_desktop_geometry() and                *)
(* rie_draw_viewports(): desktops, labels, borders and viewports are drawn *)
(* inside the window and apart, for every grid, style and screen.          *)
THEOREM NothingCovered == Spec => []DrawnApart
<1>1. PagerInv => DrawnApart
  BY InvDrawnApart
<1>. QED
  BY <1>1, PagerInvAlways, PTL

(* rie_desktop_by_coords() and rie_viewport_by_coords() find what was      *)
(* clicked and nothing else, and rie_event_desktop_viewport() makes the    *)
(* viewport that was clicked of the corner that was asked for.             *)
THEOREM ClicksHitTheirTarget == Spec => []ClicksFind
<1>1. PagerInv => ClicksFind
  BY InvClicksFind
<1>. QED
  BY <1>1, PagerInvAlways, PTL

(* rie_scale_to_desktop(): windows stay inside their desktop and apart, to *)
(* a pixel, whatever is shown of the screen.                               *)
THEOREM WindowsDrawnInPlace == Spec => []WindowsKeepPlace
<1>1. PagerInv => WindowsKeepPlace
  BY InvWindowsKeepPlace
<1>. QED
  BY <1>1, PagerInvAlways, PTL

(* rie_draw_window(), rie_render_select_icon() and rie_render_icon(): the  *)
(* icons of hidden windows share the label, that of a shown window stays   *)
(* inside it, for every list of icons.                                     *)
THEOREM IconsStayInside == Spec => []IconsShown
<1>1. PagerInv => IconsShown
  BY InvIconsShown
<1>. QED
  BY <1>1, PagerInvAlways, PTL

(* rie_set_pager_geometry(): the pager is inside the workarea on the sides *)
(* where it is aligned with it.                                            *)
THEOREM PagerOnWorkarea == Spec => []OnWorkarea
<1>1. PagerInv => OnWorkarea
  BY InvOnWorkarea
<1>. QED
  BY <1>1, PagerInvAlways, PTL

(* rie_create_borders(): on a grid without holes the desktops together     *)
(* paint every line, none of it twice, and the border of the current one   *)
(* covers what was painted; for every grid and every size of borders.      *)
THEOREM BordersPaintedOnce == Spec => []BordersOnce
<1>1. PagerInv => BordersOnce
  BY InvBordersOnce
<1>. QED
  BY <1>1, PagerInvAlways, PTL
===============================================================================
