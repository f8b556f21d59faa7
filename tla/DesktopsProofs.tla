---------------------------- MODULE DesktopsProofs ----------------------------
(***************************************************************************)
(* Proofs about Desktops, for any number of desktops, any configurations   *)
(* and any number of changes, switches and reloads.                        *)
(***************************************************************************)
EXTENDS Desktops, SequenceTheorems, TLAPS

(* The definitions that only group variables or name sets.                 *)
USE DEF vars, wmvars, drawn, mousevars, counters, Desktop, Running, Pass

(* Configurations, one at a time.                                          *)
Settings == [wrap : Nat, horz : BOOLEAN, corner : Corners,
             subset : BOOLEAN, start : Nat, ndesktops : Nat]

(***************************************************************************)
(* Lemmas about the operators.                                             *)
(***************************************************************************)

(* The number of groups is a natural number.                               *)
LEMMA NfoldType ==
  ASSUME NEW val \in Nat, NEW div \in Nat \ {0}
  PROVE  Nfold(val, div) \in Nat
  BY DEF Nfold

(* A grid has natural numbers of rows and columns.                         *)
LEMMA ShapeType ==
  ASSUME NEW c \in Settings, NEW count \in Nat \ {0}
  PROVE  Shape(c, count) \in [rows : Nat, cols : Nat]
<1> DEFINE line == IF c.wrap = 0 \/ count < c.wrap THEN count ELSE c.wrap
<1>1. line \in Nat \ {0}
  BY DEF Settings
<1>2. Nfold(count, line) \in Nat
  BY <1>1, NfoldType
<1>3. QED
  BY <1>1, <1>2 DEF Shape

(* The slice of at least one desktop is not empty, and inside them.        *)
LEMMA ViewInside ==
  ASSUME NEW c \in Settings, NEW n \in Nat \ {0}
  PROVE  /\ View(c, n) \in [first : Nat, count : Nat \ {0}]
         /\ Visible(View(c, n)) \subseteq 0..(n - 1)
  BY DEF View, Visible, Settings

(* The slice is the part of the configured range that exists, if any does. *)
LEMMA ViewWanted ==
  ASSUME NEW c \in Settings, NEW n \in Nat \ {0},
         NEW wanted,
         wanted = {d \in 0..(n - 1) :
                     c.subset => d \in c.start..(c.start + c.ndesktops - 1)},
         wanted # {}
  PROVE  Visible(View(c, n)) = wanted
<1>1. CASE ~c.subset
  BY <1>1 DEF View, Visible, Settings
<1>2. CASE c.subset
  <2>1. c.start < n /\ c.ndesktops # 0
    BY <1>2 DEF Settings
  <2>2. QED
    BY <1>2, <2>1 DEF View, Visible, Settings
<1>3. QED
  BY <1>1, <1>2

(* A desktop has integer coordinates.                                      *)
LEMMA CellType ==
  ASSUME NEW c \in Settings, NEW count \in Nat \ {0}, NEW i \in Nat
  PROVE  Cell(c, count, i) \in [row : Int, col : Int]
<1> DEFINE shape_ == Shape(c, count)
           line == IF c.horz THEN shape_.cols ELSE shape_.rows
<1>1. shape_ \in [rows : Nat, cols : Nat]
  BY ShapeType
<1>2. line \in Nat \ {0}
  BY DEF Shape, Settings
<1>3. i \div line \in Int /\ i % line \in Int
  BY <1>2
<1> HIDE DEF shape_, line
<1>4. QED
  BY <1>1, <1>3 DEF Cell, shape_, line

(* Multiplication by a natural number keeps the order.                     *)
LEMMA Product ==
  ASSUME NEW a \in Int, NEW b \in Int, NEW c \in Nat, a <= b
  PROVE  c * a \in Int /\ c * b \in Int /\ c * a <= c * b
  BY SMTT(20)

LEMMA Division ==
  ASSUME NEW a \in Nat, NEW b \in Nat \ {0}
  PROVE  /\ a \div b \in Nat
         /\ a % b \in 0..(b - 1)
         /\ a = b * (a \div b) + (a % b)
<1>1. a \div b \in Nat
  BY SMTT(20)
<1>2. a % b \in 0..(b - 1)
  BY SMTT(20)
<1>3. a = b * (a \div b) + (a % b)
  BY SMTT(20)
<1>4. QED
  BY <1>1, <1>2, <1>3

(* On a grid without holes a move that is not ignored leads from slot i to *)
(* another slot: to the next or last one of its line, or to the same one   *)
(* of the next or last line.                                               *)
LEMMA MoveToSlot ==
  ASSUME NEW c \in Settings, NEW n \in Nat \ {0}, NEW i \in 0..(n - 1),
         Shape(c, n).rows * Shape(c, n).cols = n, NEW move \in Moves,
         ~AtEdge(Shape(c, n), Cell(c, n, i), move)
  PROVE  i + Step(c, Shape(c, n), move) \in 0..(n - 1)
<1> DEFINE l == IF c.wrap = 0 \/ n < c.wrap THEN n ELSE c.wrap
           m == Nfold(n, l)
           q == i \div l
           r == i % l
           step == Step(c, Shape(c, n), move)
<1>1. l \in Nat \ {0} /\ c.horz \in BOOLEAN /\ c.corner \in Corners
  BY DEF Settings
<1>2. m \in Nat
  BY <1>1, NfoldType
<1>3. q \in Nat /\ r \in 0..(l - 1) /\ i = l * q + r
  <2>1. i \in Nat
    OBVIOUS
  <2> HIDE DEF l
  <2>2. QED
    BY <1>1, <2>1, Division
<1>4. Shape(c, n) = IF c.horz THEN [rows |-> m, cols |-> l]
                              ELSE [rows |-> l, cols |-> m]
  BY DEF Shape
<1>5. l * m = n
  <2>1. Shape(c, n).rows * Shape(c, n).cols = IF c.horz THEN m * l ELSE l * m
    BY <1>4
  <2>2. m * l = l * m
    BY <1>1, <1>2, SMTT(20)
  <2>3. QED
    BY <2>1, <2>2
<1>6. Cell(c, n, i) =
        [row |-> IF OnBottom(c)
                 THEN (IF c.horz THEN m ELSE l) - (IF c.horz THEN q ELSE r) - 1
                 ELSE IF c.horz THEN q ELSE r,
         col |-> IF OnRight(c)
                 THEN (IF c.horz THEN l ELSE m) - (IF c.horz THEN r ELSE q) - 1
                 ELSE IF c.horz THEN r ELSE q]
  BY <1>4 DEF Cell
<1> HIDE DEF l, m, q, r
<1>7. \/ step = 1 /\ r # l - 1
      \/ step = -1 /\ r # 0
      \/ step = l /\ q # m - 1
      \/ step = -l /\ q # 0
  <2>1. CASE c.horz
    <3>1. /\ Shape(c, n) = [rows |-> m, cols |-> l]
          /\ Cell(c, n, i) = [row |-> IF OnBottom(c) THEN m - q - 1 ELSE q,
                              col |-> IF OnRight(c) THEN l - r - 1 ELSE r]
      BY <1>4, <1>6, <2>1
    <3>2. QED
      BY <1>1, <1>2, <1>3, <2>1, <3>1 DEF Step, AtEdge, Moves
  <2>2. CASE ~c.horz
    <3>1. /\ Shape(c, n) = [rows |-> l, cols |-> m]
          /\ Cell(c, n, i) = [row |-> IF OnBottom(c) THEN l - r - 1 ELSE r,
                              col |-> IF OnRight(c) THEN m - q - 1 ELSE q]
      BY <1>4, <1>6, <2>2
    <3>2. QED
      BY <1>1, <1>2, <1>3, <2>2, <3>1 DEF Step, AtEdge, Moves
  <2>3. QED
    BY <2>1, <2>2
<1> HIDE DEF step
<1>8. /\ l * q \in Int /\ l * (q + 1) = l * q + l /\ l * (q + 2) = l * q + l + l
      /\ l * 1 = l
  BY <1>1, <1>3, SMTT(20)
<1>9. q < m
  <2>1. q >= m => l * m <= l * q
    BY <1>1, <1>2, <1>3, Product
  <2>2. QED
    BY <1>1, <1>2, <1>3, <1>5, <1>8, <2>1
<1>10. /\ l * q + l <= n
       /\ q # m - 1 => l * q + l + l <= n
       /\ q # 0 => l <= l * q
  <2>1. l * (q + 1) <= l * m
    BY <1>1, <1>2, <1>3, <1>9, Product
  <2>2. q # m - 1 => l * (q + 2) <= l * m
    BY <1>1, <1>2, <1>3, <1>9, Product
  <2>3. q # 0 => l * 1 <= l * q
    BY <1>1, <1>3, Product
  <2>4. QED
    BY <1>5, <1>8, <2>1, <2>2, <2>3
<1>11. i + step \in 0..(n - 1)
  BY <1>1, <1>2, <1>3, <1>7, <1>8, <1>10
<1>12. QED
  BY <1>11 DEF step

(***************************************************************************)
(* The inductive invariant of the pager's own state: it knows of a desktop *)
(* as soon as the first call of rie_event_init() has been made, and while  *)
(* the main loop runs the slice is the one the last drawing made for the   *)
(* number of desktops known now.                                           *)
(***************************************************************************)
KnowsDesktops == num = 0 => todo \in {Pass, 2 * Pass}
SliceFresh    == Running => view = View(cfg, num)
SelectedKnown == selected # -1 => selected < num

PagerInv == TypeOK /\ KnowsDesktops /\ SliceFresh /\ SelectedKnown

(* TypeOK by the actors that change the variables.                         *)
ManagerTypes ==
  /\ wmnum \in 0..MaxDesktops
  /\ wmcur \in Desktop \union {-1}
  /\ owed \in {"nothing", "number", "current"}
  /\ changes \in Nat
ChannelTypes ==
  /\ notes \in Seq({"number", "current"})
  /\ asked \in Seq(Int)
PassTypes ==
  /\ todo \in 0..(2 * Pass)
  /\ cfg \in Configs
KnownTypes ==
  /\ num \in 0..MaxDesktops
  /\ current \in Desktop
  /\ selected \in Desktop \union {-1}
DrawnTypes ==
  /\ view \in [first : Nat, count : Nat]
  /\ shape \in [rows : Nat, cols : Nat]
  /\ cell \in [0..(num - 1) -> [row : Int, col : Int]]
UserTypes ==
  /\ inside \in BOOLEAN
  /\ hover \in Desktop \union {-1}
  /\ switches \in Nat
  /\ reloads \in Nat

(* The parts are the whole.                                                *)
LEMMA TypeParts ==
  TypeOK <=> /\ ManagerTypes /\ ChannelTypes /\ PassTypes
             /\ KnownTypes /\ DrawnTypes /\ UserTypes
  BY DEF TypeOK, ManagerTypes, ChannelTypes, PassTypes, KnownTypes,
         DrawnTypes, UserTypes

(* The same of the next state.                                             *)
LEMMA TypePartsNext ==
  ASSUME ManagerTypes', ChannelTypes', PassTypes', KnownTypes', DrawnTypes',
         UserTypes'
  PROVE  TypeOK'
  BY DEF TypeOK, ManagerTypes, ChannelTypes, PassTypes, KnownTypes,
         DrawnTypes, UserTypes

(* What the pager knows and draws is as before.                            *)
LEMMA PagerUnchanged ==
  ASSUME PagerInv, UNCHANGED <<todo, cfg, num, current, drawn>>
  PROVE  /\ PassTypes' /\ DrawnTypes' /\ KnowsDesktops' /\ SliceFresh'
         /\ num' \in 0..MaxDesktops /\ current' \in Desktop
         /\ UNCHANGED selected => KnownTypes' /\ SelectedKnown'
<1>1. PassTypes'
  BY DEF PagerInv, TypeOK, PassTypes
<1>2. DrawnTypes'
  BY DEF PagerInv, TypeOK, DrawnTypes
<1>3. KnowsDesktops' /\ SliceFresh'
  BY DEF PagerInv, KnowsDesktops, SliceFresh
<1>4. num' \in 0..MaxDesktops /\ current' \in Desktop
  BY DEF PagerInv, TypeOK
<1>5. UNCHANGED selected => KnownTypes' /\ SelectedKnown'
  BY DEF PagerInv, TypeOK, KnownTypes, SelectedKnown
<1>6. QED
  BY <1>1, <1>2, <1>3, <1>4, <1>5

(* The drawing step keeps the types.                                       *)
LEMMA RedrawType ==
  ASSUME TypeOK, num' \in 1..MaxDesktops, UNCHANGED cfg,
         NEW draw \in BOOLEAN, Redraw(draw)
  PROVE  /\ view' \in [first : Nat, count : Nat]
         /\ shape' \in [rows : Nat, cols : Nat]
         /\ cell' \in [0..(num' - 1) -> [row : Int, col : Int]]
         /\ draw => view' = View(cfg, num')
<1> DEFINE v == View(cfg, num')
<1>1. cfg \in Settings /\ num' \in Nat \ {0} /\ num \in Nat
  BY ConfigsAssumption, DesktopBounds DEF TypeOK, Settings
<1>2. v \in [first : Nat, count : Nat \ {0}]
  BY <1>1, ViewInside
<1>3. Shape(cfg, v.count) \in [rows : Nat, cols : Nat]
  BY <1>1, <1>2, ShapeType
<1>4. \A i \in Nat : Cell(cfg, v.count, i) \in [row : Int, col : Int]
  BY <1>1, <1>2, CellType
<1>5. \A i \in 0..(num' - 1) : i < num => cell[i] \in [row : Int, col : Int]
  BY <1>1 DEF TypeOK
<1>6. Nowhere \in [row : Int, col : Int]
  BY DEF Nowhere
<1>7. \A i \in Visible(v) : i - v.first \in Nat
  BY <1>2 DEF Visible
<1> HIDE DEF v
<1>8. CASE draw
  <2>1. /\ view' = v
        /\ shape' = Shape(cfg, v.count)
        /\ cell' = [i \in 0..(num' - 1) |->
                      IF i \in Visible(v) THEN Cell(cfg, v.count, i - v.first)
                      ELSE IF i < num THEN cell[i] ELSE Nowhere]
    BY <1>8 DEF Redraw, v
  <2>2. \A i \in 0..(num' - 1) :
          (IF i \in Visible(v) THEN Cell(cfg, v.count, i - v.first)
           ELSE IF i < num THEN cell[i] ELSE Nowhere)
            \in [row : Int, col : Int]
    BY <1>4, <1>5, <1>6, <1>7
  <2>3. cell' \in [0..(num' - 1) -> [row : Int, col : Int]]
    BY <2>1, <2>2
  <2>4. view' \in [first : Nat, count : Nat]
    BY <1>2, <2>1
  <2>5. view' = View(cfg, num')
    BY <2>1 DEF v
  <2>6. QED
    BY <1>3, <2>1, <2>3, <2>4, <2>5
<1>9. CASE ~draw
  <2>1. /\ cell' = [i \in 0..(num' - 1) |->
                      IF i < num THEN cell[i] ELSE Nowhere]
        /\ UNCHANGED <<view, shape>>
    BY <1>9 DEF Redraw
  <2>2. cell' \in [0..(num' - 1) -> [row : Int, col : Int]]
    BY <1>5, <1>6, <2>1
  <2>3. QED
    BY <1>9, <2>1, <2>2 DEF TypeOK
<1>10. QED
  BY <1>8, <1>9

(* A handler keeps the types of what it changes, and draws if it is to and *)
(* what is drawn changes.                                                  *)
LEMMA HandlerType ==
  ASSUME PagerInv, UNCHANGED <<cfg, wmnum, wmcur>>,
         NEW which \in {"number", "current"}, NEW draw \in BOOLEAN,
         Handler(which, draw),
         which = "current" => num # 0
  PROVE  /\ KnownTypes' /\ DrawnTypes' /\ SelectedKnown' /\ num' # 0
         /\ \/ num' = num /\ UNCHANGED view
            \/ draw => view' = View(cfg, num')
<1>0. /\ wmnum \in 0..MaxDesktops /\ wmcur \in Desktop \union {-1}
      /\ num \in 0..MaxDesktops /\ current \in Desktop
      /\ selected \in Desktop \union {-1} /\ (selected # -1 => selected < num)
      /\ MaxDesktops \in Nat \ {0}
  BY DesktopBounds DEF PagerInv, TypeOK, SelectedKnown
<1>1. CASE which = "number"
  <2> DEFINE n == IF wmnum = 0 THEN 1 ELSE wmnum
             c == IF wmnum = 0 THEN 0 ELSE current
             s == IF wmnum = 0 THEN 0 ELSE selected
  <2>1. NumberOfDesktops(draw)
    BY <1>1 DEF Handler
  <2>2. /\ n \in 1..MaxDesktops /\ c \in Desktop
        /\ s \in Desktop \union {-1}
        /\ n = num /\ s # -1 => s < num
    <3>1. CASE wmnum = 0
      BY <1>0, <3>1
    <3>2. CASE wmnum # 0
      <4>1. n = wmnum /\ c = current /\ s = selected
        BY <3>2
      <4>2. wmnum \in 1..MaxDesktops
        BY <1>0, <3>2
      <4> HIDE DEF n, c, s
      <4>3. QED
        BY <1>0, <4>1, <4>2
    <3>3. QED
      BY <3>1, <3>2
  <2>3. num' = n
    BY <2>1 DEF NumberOfDesktops
  <2>4. CASE n = num
    <3>1. current' = c /\ selected' = s /\ UNCHANGED drawn
      BY <2>1, <2>4 DEF NumberOfDesktops
    <3> HIDE DEF n, c, s
    <3>2. KnownTypes' /\ SelectedKnown' /\ num' # 0
      BY <1>0, <2>2, <2>3, <2>4, <3>1 DEF KnownTypes, SelectedKnown
    <3>3. DrawnTypes'
      BY <2>3, <2>4, <3>1 DEF DrawnTypes, PagerInv, TypeOK
    <3>4. QED
      BY <2>3, <2>4, <3>1, <3>2, <3>3
  <2>5. CASE n # num
    <3>1. /\ current' = IF c > n - 1 THEN n - 1 ELSE c
          /\ selected' = IF s = -1 \/ s > n - 1 THEN n - 1 ELSE s
          /\ Redraw(draw)
      BY <2>1, <2>5 DEF NumberOfDesktops
    <3> HIDE DEF n, c, s
    <3>2. current' \in Desktop
      BY <1>0, <2>2, <3>1
    <3>3. /\ selected' \in Desktop \union {-1}
          /\ selected' # -1 => selected' < n
      BY <1>0, <2>2, <3>1
    <3>4. KnownTypes' /\ SelectedKnown' /\ num' # 0
      BY <1>0, <2>2, <2>3, <3>2, <3>3 DEF KnownTypes, SelectedKnown
    <3>5. DrawnTypes' /\ (draw => view' = View(cfg, num'))
      BY <2>2, <2>3, <3>1, RedrawType DEF PagerInv, DrawnTypes
    <3>6. QED
      BY <3>4, <3>5
  <2>6. QED
    BY <2>4, <2>5
<1>2. CASE which = "current"
  <2>1. CurrentDesktop(draw)
    BY <1>2 DEF Handler
  <2>2. UNCHANGED <<num, selected>>
    BY <2>1 DEF CurrentDesktop
  <2>3. num' \in 1..MaxDesktops /\ num' # 0
    <3>1. num # 0 /\ num' = num
      BY <1>2, <2>2
    <3>2. QED
      BY <1>0, <3>1
  <2>4. SelectedKnown'
    BY <1>0, <2>2 DEF SelectedKnown
  <2>5. CASE wmcur = -1
    <3>1. UNCHANGED <<num, current, selected, drawn>>
      BY <2>1, <2>5 DEF CurrentDesktop
    <3>2. KnownTypes' /\ DrawnTypes'
      BY <3>1 DEF PagerInv, TypeOK, KnownTypes, DrawnTypes
    <3>3. QED
      BY <2>3, <2>4, <3>1, <3>2
  <2>6. CASE wmcur # -1
    <3>1. current' = wmcur /\ Redraw(draw)
      BY <2>1, <2>6 DEF CurrentDesktop
    <3>2. current' \in Desktop
      BY <1>0, <2>6, <3>1
    <3>3. selected' \in Desktop \union {-1}
      BY <1>0, <2>2
    <3>4. KnownTypes'
      BY <1>0, <2>2, <3>2, <3>3 DEF KnownTypes
    <3>5. DrawnTypes' /\ (draw => view' = View(cfg, num'))
      BY <2>3, <3>1, RedrawType DEF PagerInv, DrawnTypes
    <3>6. QED
      BY <2>3, <2>4, <3>4, <3>5
  <2>7. QED
    BY <2>5, <2>6
<1>3. QED
  BY <1>1, <1>2

(***************************************************************************)
(* PagerInv is inductive.                                                  *)
(***************************************************************************)

(* A pager that knows nothing, about to make its first call.               *)
LEMMA PagerInit == Init => PagerInv
<1> SUFFICES ASSUME Init PROVE PagerInv
  OBVIOUS
<1>1. ManagerTypes
  BY DesktopBounds DEF Init, ManagerTypes
<1>2. ChannelTypes
  BY EmptySeq DEF Init, ChannelTypes
<1>3. PassTypes /\ UserTypes
  <2>1. PassTypes
    BY DEF Init, PassTypes
  <2>2. UserTypes
    BY DesktopBounds DEF Init, UserTypes
  <2>3. QED
    BY <2>1, <2>2
<1>4. KnownTypes
  BY DesktopBounds DEF Init, KnownTypes
<1>5. DrawnTypes
  BY DEF Init, DrawnTypes
<1>6. KnowsDesktops /\ SliceFresh /\ SelectedKnown
  BY DEF Init, KnowsDesktops, SliceFresh, SelectedKnown
<1>7. QED
  BY <1>1, <1>2, <1>3, <1>4, <1>5, <1>6, TypeParts DEF PagerInv

(* The window manager's steps leave the pager alone.                       *)
LEMMA PagerManager == PagerInv /\ Manager => PagerInv'
<1> SUFFICES ASSUME PagerInv, Manager PROVE PagerInv'
  OBVIOUS
<1>1. UNCHANGED <<todo, cfg, num, current, mousevars, drawn, counters>>
  BY DEF Manager, SetNumber, SetCurrent, Leave, Obey
<1>2. /\ PassTypes' /\ DrawnTypes' /\ KnownTypes'
      /\ KnowsDesktops' /\ SliceFresh' /\ SelectedKnown'
  BY <1>1, PagerUnchanged
<1>3. UserTypes'
  BY <1>1 DEF PagerInv, TypeOK, UserTypes
<1>4. \A q \in Seq({"number", "current"}) :
        /\ Append(q, "number") \in Seq({"number", "current"})
        /\ Append(q, "current") \in Seq({"number", "current"})
  BY AppendProperties
<1>5. ManagerTypes /\ ChannelTypes /\ MaxDesktops \in Nat \ {0}
  BY DesktopBounds, TypeParts DEF PagerInv
<1>6. ManagerTypes' /\ ChannelTypes'
  <2>1. ASSUME NEW k \in 1..MaxDesktops, SetNumber(k)
        PROVE  ManagerTypes' /\ ChannelTypes'
    BY <1>4, <1>5, <2>1 DEF SetNumber, ManagerTypes, ChannelTypes
  <2>2. ASSUME NEW d \in Desktop, SetCurrent(d)
        PROVE  ManagerTypes' /\ ChannelTypes'
    BY <1>4, <1>5, <2>2 DEF SetCurrent, ManagerTypes, ChannelTypes
  <2>3. CASE Leave
    BY <1>4, <1>5, <2>3 DEF Leave, ManagerTypes, ChannelTypes
  <2>4. CASE Obey
    <3>1. asked' \in Seq(Int)
      BY <1>5, <2>4, HeadTailProperties DEF Obey, ChannelTypes
    <3>2. notes' \in Seq({"number", "current"})
      BY <1>4, <1>5, <2>4 DEF Obey, ChannelTypes
    <3>3. ManagerTypes'
      BY <1>5, <2>4 DEF Obey, ManagerTypes
    <3>4. QED
      BY <3>1, <3>2, <3>3 DEF ChannelTypes
  <2>5. QED
    BY <2>1, <2>2, <2>3, <2>4 DEF Manager
<1>7. QED
  BY <1>2, <1>3, <1>6, TypePartsNext DEF PagerInv

(* rie_event_init() and the handlers of notifications.                     *)
LEMMA PagerSteps == PagerInv /\ Pager => PagerInv'
<1> SUFFICES ASSUME PagerInv, Pager PROVE PagerInv'
  OBVIOUS
<1>1. /\ UNCHANGED <<wmvars, asked, cfg, inside, hover, counters>>
      /\ notes' = notes \/ (notes # <<>> /\ notes' = Tail(notes))
  BY DEF Pager, Initialise, HandleNote
<1>2. ManagerTypes' /\ UserTypes'
  BY <1>1 DEF PagerInv, TypeOK, ManagerTypes, UserTypes
<1>3. ChannelTypes'
  <2>1. notes \in Seq({"number", "current"}) /\ asked \in Seq(Int)
    BY DEF PagerInv, TypeOK
  <2>2. asked' \in Seq(Int)
    BY <1>1, <2>1
  <2>3. notes' \in Seq({"number", "current"})
    BY <1>1, <2>1, HeadTailProperties
  <2>4. QED
    BY <2>2, <2>3 DEF ChannelTypes
<1>4. CASE Initialise
  <2>1. todo \in 1..6 /\ todo' = todo - 1
    BY <1>4 DEF Initialise, PagerInv, TypeOK
  <2>2. PassTypes'
    BY <1>1, <2>1 DEF PassTypes, PagerInv, TypeOK
  <2>3. CASE Handler(Call(todo), FALSE)
    <3>1. Call(todo) \in {"number", "current"}
      BY <2>3 DEF Handler
    <3>2. Call(todo) = "current" => num # 0
      BY <2>1 DEF Call, PagerInv, KnowsDesktops
    <3>3. todo' # 0
      BY <2>1, <3>1 DEF Call
    <3>4. KnownTypes' /\ DrawnTypes' /\ SelectedKnown' /\ num' # 0
      BY <1>1, <2>3, <3>1, <3>2, HandlerType
    <3>5. KnowsDesktops' /\ SliceFresh'
      BY <3>3, <3>4 DEF KnowsDesktops, SliceFresh
    <3>6. QED
      BY <1>2, <1>3, <2>2, <3>4, <3>5, TypePartsNext DEF PagerInv
  <2>4. CASE /\ Call(todo) = "render"
             /\ UNCHANGED <<num, current, selected>>
             /\ Redraw(TRUE)
    <3>1. num \in 1..MaxDesktops
      <4>1. todo \in {1, 4}
        BY <2>1, <2>4 DEF Call
      <4>2. num # 0 /\ num \in 0..MaxDesktops
        BY <4>1 DEF PagerInv, TypeOK, KnowsDesktops
      <4>3. QED
        BY <4>2, DesktopBounds
    <3>2. DrawnTypes' /\ view' = View(cfg, num')
      BY <1>1, <2>4, <3>1, RedrawType DEF PagerInv, DrawnTypes
    <3>3. KnownTypes' /\ SelectedKnown'
      BY <2>4 DEF KnownTypes, SelectedKnown, PagerInv, TypeOK
    <3>4. KnowsDesktops' /\ SliceFresh'
      BY <1>1, <2>4, <3>1, <3>2 DEF KnowsDesktops, SliceFresh
    <3>5. QED
      BY <1>2, <1>3, <2>2, <3>2, <3>3, <3>4, TypePartsNext DEF PagerInv
  <2>5. QED
    BY <1>4, <2>3, <2>4 DEF Initialise
<1>5. CASE HandleNote
  <2>1. /\ Running /\ notes # <<>> /\ UNCHANGED todo
        /\ Handler(Head(notes), TRUE)
    BY <1>5 DEF HandleNote
  <2>2. Head(notes) \in {"number", "current"}
    BY <2>1, HeadTailProperties DEF PagerInv, TypeOK
  <2>3. num # 0
    BY <2>1 DEF PagerInv, KnowsDesktops
  <2>4. /\ KnownTypes' /\ DrawnTypes' /\ SelectedKnown' /\ num' # 0
        /\ (num' = num /\ UNCHANGED view) \/ view' = View(cfg, num')
    BY <1>1, <2>1, <2>2, <2>3, HandlerType
  <2>5. KnowsDesktops' /\ SliceFresh'
    BY <1>1, <2>1, <2>4 DEF PagerInv, KnowsDesktops, SliceFresh
  <2>6. PassTypes'
    BY <1>1, <2>1 DEF PassTypes, PagerInv, TypeOK
  <2>7. QED
    BY <1>2, <1>3, <2>4, <2>5, <2>6, TypePartsNext DEF PagerInv
<1>6. QED
  BY <1>4, <1>5 DEF Pager

(* In the main loop every slot of the slice is an existing desktop.        *)
LEMMA SlotExists ==
  ASSUME PagerInv, Running, NEW slot \in 0..(view.count - 1)
  PROVE  view.first + slot \in 0..(num - 1) /\ num \in 1..MaxDesktops
<1>1. cfg \in Settings /\ num \in 1..MaxDesktops /\ view = View(cfg, num)
  BY ConfigsAssumption, DesktopBounds
     DEF PagerInv, TypeOK, KnowsDesktops, SliceFresh, Settings
<1>2. /\ view \in [first : Nat, count : Nat \ {0}]
      /\ Visible(view) \subseteq 0..(num - 1)
  BY <1>1, ViewInside, DesktopBounds
<1>3. QED
  BY <1>1, <1>2 DEF Visible

(* The user's steps.                                                       *)
LEMMA PagerUser == PagerInv /\ User => PagerInv'
<1> SUFFICES ASSUME PagerInv, User PROVE PagerInv'
  OBVIOUS
<1>1. UNCHANGED <<wmvars, notes>>
  BY DEF User, Enter, LeaveWindow, Motion, Click, Switch, Reload
<1>2. ManagerTypes' /\ notes' \in Seq({"number", "current"})
  BY <1>1 DEF PagerInv, TypeOK, ManagerTypes
<1>3. CASE Enter \/ LeaveWindow
  <2>1. /\ UNCHANGED <<asked, todo, cfg, num, current, drawn, counters>>
        /\ selected' \in {selected, -1}
        /\ inside' \in BOOLEAN /\ hover' \in {hover, -1}
    BY <1>3 DEF Enter, LeaveWindow
  <2>2. ChannelTypes' /\ UserTypes'
    BY <1>2, <2>1 DEF PagerInv, TypeOK, ChannelTypes, UserTypes
  <2>3. /\ PassTypes' /\ DrawnTypes' /\ KnowsDesktops' /\ SliceFresh'
        /\ num' \in 0..MaxDesktops /\ current' \in Desktop
    BY <2>1, PagerUnchanged
  <2>4. KnownTypes' /\ SelectedKnown'
    BY <2>1, <2>3 DEF PagerInv, TypeOK, SelectedKnown, KnownTypes
  <2>5. QED
    BY <1>2, <2>2, <2>3, <2>4, TypePartsNext DEF PagerInv
<1>4. ASSUME NEW slot \in 0..(view.count - 1), Motion(slot)
      PROVE  PagerInv'
  <2>1. /\ UNCHANGED <<asked, todo, cfg, num, current, inside, drawn, counters>>
        /\ selected' = view.first + slot /\ hover' = view.first + slot
        /\ Running
    BY <1>4 DEF Motion
  <2>2. view.first + slot \in 0..(num - 1) /\ num \in 1..MaxDesktops
    BY <2>1, SlotExists
  <2>3. view.first + slot \in Desktop
    BY <2>2, DesktopBounds
  <2>4. /\ PassTypes' /\ DrawnTypes' /\ KnowsDesktops' /\ SliceFresh'
        /\ num' \in 0..MaxDesktops /\ current' \in Desktop
    BY <2>1, PagerUnchanged
  <2>5. KnownTypes' /\ SelectedKnown'
    BY <2>1, <2>2, <2>3, <2>4 DEF SelectedKnown, KnownTypes
  <2>6. ChannelTypes' /\ UserTypes'
    BY <1>2, <2>1, <2>3 DEF PagerInv, TypeOK, ChannelTypes, UserTypes
  <2>7. QED
    BY <1>2, <2>4, <2>5, <2>6, TypePartsNext DEF PagerInv
<1>5. ASSUME UNCHANGED <<todo, cfg, num, current, mousevars, drawn, reloads>>,
             NEW d \in Int, asked' = Append(asked, d),
             switches' = switches + 1
      PROVE  PagerInv'
  <2>1. asked' \in Seq(Int)
    BY <1>5, AppendProperties DEF PagerInv, TypeOK
  <2>2. ChannelTypes' /\ UserTypes'
    BY <1>2, <1>5, <2>1 DEF PagerInv, TypeOK, ChannelTypes, UserTypes
  <2>3. /\ PassTypes' /\ DrawnTypes' /\ KnowsDesktops' /\ SliceFresh'
        /\ KnownTypes' /\ SelectedKnown'
    BY <1>5, PagerUnchanged
  <2>4. QED
    BY <1>2, <2>2, <2>3, TypePartsNext DEF PagerInv
<1>6. ASSUME NEW slot \in 0..(view.count - 1), Click(slot)
      PROVE  PagerInv'
  <2>1. view.first + slot \in Int
    BY DEF PagerInv, TypeOK
  <2>2. QED
    BY <1>5, <1>6, <2>1 DEF Click
<1>7. ASSUME NEW move \in Switches, Switch(move)
      PROVE  PagerInv'
  <2>1. PICK c \in CurrentCell : \E d \in Target(cfg, shape, c, current, num, move) :
                asked' = Append(asked, d)
    BY <1>7 DEF Switch
  <2>2. PICK d \in Target(cfg, shape, c, current, num, move) :
                asked' = Append(asked, d)
    BY <2>1
  <2>3. current \in Int /\ shape.rows \in Int /\ shape.cols \in Int
    BY DEF PagerInv, TypeOK
  <2>4. move \in Moves => Step(cfg, shape, move) \in Int
    BY <2>3 DEF Step, Moves
  <2>5. d \in Int
    BY <2>2, <2>3, <2>4 DEF Target, Switches
  <2>6. QED
    BY <1>5, <1>7, <2>2, <2>5 DEF Switch
<1>8. ASSUME NEW c \in Configs, Reload(c)
      PROVE  PagerInv'
  <2>1. /\ Fresh(c) /\ todo' = 2 * Pass /\ reloads' = reloads + 1
        /\ UNCHANGED <<asked, switches>>
    BY <1>8 DEF Reload
  <2>2. ChannelTypes' /\ UserTypes'
    <3>1. ChannelTypes'
      BY <1>2, <2>1 DEF PagerInv, TypeOK, ChannelTypes
    <3>2. inside' \in BOOLEAN /\ hover' \in Desktop \union {-1}
      BY <2>1 DEF Fresh
    <3>3. switches' \in Nat /\ reloads' \in Nat
      BY <2>1 DEF PagerInv, TypeOK
    <3>4. QED
      BY <3>1, <3>2, <3>3 DEF UserTypes
  <2>3. PassTypes' /\ KnowsDesktops' /\ SliceFresh' /\ SelectedKnown'
    BY <2>1 DEF Fresh, PassTypes, KnowsDesktops, SliceFresh, SelectedKnown
  <2>4. KnownTypes'
    BY <2>1, DesktopBounds DEF Fresh, KnownTypes
  <2>5. DrawnTypes'
    BY <2>1 DEF Fresh, DrawnTypes
  <2>6. QED
    BY <1>2, <2>2, <2>3, <2>4, <2>5, TypePartsNext DEF PagerInv
<1>9. QED
  BY <1>3, <1>4, <1>6, <1>7, <1>8 DEF User

(* Every step preserves the invariant of the pager.                        *)
LEMMA PagerNext == PagerInv /\ [Next]_vars => PagerInv'
<1>1. PagerInv /\ UNCHANGED vars => PagerInv'
  BY DEF PagerInv, TypeOK, KnowsDesktops, SliceFresh, SelectedKnown
<1>2. QED
  BY <1>1, PagerManager, PagerSteps, PagerUser DEF Next

(***************************************************************************)
(* The state of rieman has its types: no handler, no drawing and no reload *)
(* leaves a desktop number, the slice or a place on the grid that is none. *)
(***************************************************************************)
THEOREM DesktopsTypeCorrect == Spec => []TypeOK
<1>1. PagerInv => TypeOK
  BY DEF PagerInv
<1>2. QED
  BY PagerInit, PagerNext, <1>1, PTL DEF Spec

(***************************************************************************)
(* rie_init_vdesktops() always leaves a slice of desktops that exist: the  *)
(* number of desktops cannot change without the slice being made anew.     *)
(***************************************************************************)
THEOREM SliceOfDesktops == Spec => []ViewExists
<1>1. PagerInv => ViewExists
  <2> SUFFICES ASSUME PagerInv, Running
               PROVE  view.count > 0 /\ Visible(view) \subseteq 0..(num - 1)
    BY DEF ViewExists
  <2>1. cfg \in Settings /\ num \in Nat \ {0} /\ view = View(cfg, num)
    BY ConfigsAssumption, DesktopBounds
       DEF PagerInv, TypeOK, KnowsDesktops, SliceFresh, Settings
  <2>2. /\ view \in [first : Nat, count : Nat \ {0}]
        /\ Visible(view) \subseteq 0..(num - 1)
    BY <2>1, ViewInside
  <2>3. QED
    BY <2>2
<1>2. QED
  BY PagerInit, PagerNext, <1>1, PTL DEF Spec

(***************************************************************************)
(* The slice shown is the existing part of the range [subset.start,        *)
(* subset.start + subset.ndesktops), whenever there is one.                *)
(***************************************************************************)
THEOREM SliceIsSubset == Spec => []ViewIsSubset
<1>1. PagerInv => ViewIsSubset
  <2> DEFINE wanted ==
               {d \in 0..(num - 1) :
                  cfg.subset => d \in cfg.start..(cfg.start + cfg.ndesktops - 1)}
  <2> SUFFICES ASSUME PagerInv, Running, wanted # {}
               PROVE  Visible(view) = wanted
    BY DEF ViewIsSubset
  <2>1. cfg \in Settings /\ num \in Nat \ {0} /\ view = View(cfg, num)
    BY ConfigsAssumption, DesktopBounds
       DEF PagerInv, TypeOK, KnowsDesktops, SliceFresh, Settings
  <2>2. QED
    BY <2>1, ViewWanted
<1>2. QED
  BY PagerInit, PagerNext, <1>1, PTL DEF Spec

(***************************************************************************)
(* The desktop under the mouse exists, however many desktops disappear     *)
(* while the pointer does not move.                                        *)
(***************************************************************************)
THEOREM SelectedInRange == Spec => []SelectedExists
<1>1. PagerInv => SelectedExists
  BY DEF PagerInv, SelectedKnown, SelectedExists
<1>2. QED
  BY PagerInit, PagerNext, <1>1, PTL DEF Spec

(***************************************************************************)
(* The grid is the one of the last drawing too: its shape is that of the   *)
(* slice, and every desktop of the slice has its place in it.              *)
(***************************************************************************)
PlacesFresh ==
  Running => /\ shape = Shape(cfg, view.count)
             /\ \A d \in Visible(view) :
                  cell[d] = Cell(cfg, view.count, d - view.first)

(* A drawing places every desktop of the slice it makes.                   *)
LEMMA RedrawPlaces ==
  ASSUME TypeOK, num' \in 1..MaxDesktops, UNCHANGED cfg, Redraw(TRUE)
  PROVE  PlacesFresh'
<1>1. cfg \in Settings /\ num' \in Nat \ {0}
  BY ConfigsAssumption, DesktopBounds DEF TypeOK, Settings
<1>2. Visible(View(cfg, num')) \subseteq 0..(num' - 1)
  BY <1>1, ViewInside
<1> DEFINE v == View(cfg, num')
<1>3. /\ view' = v /\ shape' = Shape(cfg, v.count)
      /\ cell' = [i \in 0..(num' - 1) |->
                    IF i \in Visible(v) THEN Cell(cfg, v.count, i - v.first)
                    ELSE IF i < num THEN cell[i] ELSE Nowhere]
  BY DEF Redraw
<1> HIDE DEF v
<1>4. \A d \in Visible(v) : cell'[d] = Cell(cfg, v.count, d - v.first)
  BY <1>2, <1>3 DEF v
<1>5. Visible(view)' = Visible(view')
  BY DEF Visible
<1>6. QED
  BY <1>3, <1>4, <1>5 DEF PlacesFresh

LEMMA PlacesNext == PagerInv /\ PlacesFresh /\ [Next]_vars => PlacesFresh'
<1> SUFFICES ASSUME PagerInv, PlacesFresh, [Next]_vars PROVE PlacesFresh'
  OBVIOUS
<1>1. ASSUME UNCHANGED <<todo, cfg, drawn>>
      PROVE  PlacesFresh'
  BY <1>1 DEF PlacesFresh, Visible
<1>2. CASE Manager
  BY <1>1, <1>2 DEF Manager, SetNumber, SetCurrent, Leave, Obey
<1>3. CASE Initialise
  <2>1. todo \in 1..6 /\ todo' = todo - 1 /\ UNCHANGED cfg
    BY <1>3 DEF Initialise, PagerInv, TypeOK
  <2>2. CASE todo = 1
    <3>1. Call(todo) = "render"
      BY <2>2 DEF Call
    <3>2. Redraw(TRUE) /\ UNCHANGED num
      BY <1>3, <3>1 DEF Initialise, Handler
    <3>3. num \in 1..MaxDesktops
      BY <2>2, DesktopBounds DEF PagerInv, TypeOK, KnowsDesktops
    <3>4. QED
      BY <2>1, <3>2, <3>3, RedrawPlaces DEF PagerInv
  <2>3. CASE todo # 1
    BY <2>1, <2>3 DEF PlacesFresh
  <2>4. QED
    BY <2>2, <2>3
<1>4. CASE HandleNote
  <2>1. /\ Running /\ UNCHANGED <<todo, cfg, wmnum>>
        /\ Handler(Head(notes), TRUE)
    BY <1>4 DEF HandleNote
  <2>2. num \in 1..MaxDesktops /\ wmnum \in 0..MaxDesktops /\ TypeOK
    BY <2>1, DesktopBounds DEF PagerInv, TypeOK, KnowsDesktops
  <2>3. CASE UNCHANGED drawn
    BY <1>1, <2>1, <2>3
  <2>4. CASE Redraw(TRUE) /\ num' \in 1..MaxDesktops
    BY <2>1, <2>2, <2>4, RedrawPlaces
  <2>5. UNCHANGED drawn \/ (Redraw(TRUE) /\ num' \in 1..MaxDesktops)
    <3>1. CASE NumberOfDesktops(TRUE)
      <4>1. num' = IF wmnum = 0 THEN 1 ELSE wmnum
        BY <3>1 DEF NumberOfDesktops
      <4>2. num' \in 1..MaxDesktops
        BY <2>2, <4>1, DesktopBounds
      <4>3. UNCHANGED drawn \/ Redraw(TRUE)
        BY <3>1 DEF NumberOfDesktops
      <4>4. QED
        BY <4>2, <4>3
    <3>2. CASE CurrentDesktop(TRUE)
      BY <2>2, <3>2 DEF CurrentDesktop
    <3>3. QED
      BY <2>1, <3>1, <3>2 DEF Handler
  <2>6. QED
    BY <2>3, <2>4, <2>5
<1>5. CASE \E c \in Configs : Reload(c)
  BY <1>5 DEF Reload, PlacesFresh
<1>6. CASE \/ Enter \/ LeaveWindow
           \/ \E slot \in 0..(view.count - 1) : Motion(slot) \/ Click(slot)
           \/ \E move \in Switches : Switch(move)
  BY <1>1, <1>6 DEF Enter, LeaveWindow, Motion, Click, Switch
<1>7. CASE UNCHANGED vars
  BY <1>1, <1>7
<1>8. QED
  BY <1>2, <1>3, <1>4, <1>5, <1>6, <1>7 DEF Next, Pager, User

(***************************************************************************)
(* What rie_switch_desktop() computes from desktop numbers, the slice and  *)
(* the places that the last drawing left is a desktop of the slice, on any *)
(* grid without holes: a change of the number of desktops, of the slice or *)
(* of the configuration is never seen by a command before it is drawn.     *)
(***************************************************************************)
THEOREM MovesInView == Spec => []MovesStayInView
<1> DEFINE Inv == PagerInv /\ PlacesFresh
<1>1. Init => Inv
  BY PagerInit DEF Init, PlacesFresh
<1>2. Inv /\ [Next]_vars => Inv'
  BY PagerNext, PlacesNext
<1>3. Inv => MovesStayInView
  <2> SUFFICES ASSUME Inv, Running, current \in Visible(view),
                      shape.rows * shape.cols = view.count,
                      NEW move \in Moves
               PROVE  Target(cfg, shape, cell[current], current, num, move)
                        \subseteq Visible(view)
    BY DEF MovesStayInView
  <2> DEFINE i == current - view.first
             n == view.count
  <2>1. cfg \in Settings /\ num \in Nat \ {0} /\ view = View(cfg, num)
    BY ConfigsAssumption, DesktopBounds
       DEF PagerInv, TypeOK, KnowsDesktops, SliceFresh, Settings
  <2>2. view.first \in Nat /\ n \in Nat \ {0} /\ current \in Int
    BY <2>1, ViewInside DEF PagerInv, TypeOK
  <2>3. i \in 0..(n - 1)
    BY <2>2 DEF Visible
  <2>4. shape = Shape(cfg, n) /\ cell[current] = Cell(cfg, n, i)
    BY DEF PlacesFresh
  <2>5. Target(cfg, shape, cell[current], current, num, move) =
          IF AtEdge(shape, cell[current], move) THEN {}
          ELSE {current + Step(cfg, shape, move)}
    BY DEF Target, Moves
  <2>6. ~AtEdge(shape, cell[current], move) =>
          i + Step(cfg, shape, move) \in 0..(n - 1)
    BY <2>1, <2>2, <2>3, <2>4, MoveToSlot
  <2>7. Step(cfg, shape, move) \in Int
    <3>1. shape.rows \in Int /\ shape.cols \in Int
      BY DEF PagerInv, TypeOK
    <3>2. QED
      BY <3>1 DEF Step, Moves
  <2>8. QED
    BY <2>2, <2>5, <2>6, <2>7 DEF Visible
<1>4. QED
  BY <1>1, <1>2, <1>3, PTL DEF Spec

(***************************************************************************)
(* rieman follows the window manager.  A notification not handled yet is   *)
(* the only excuse for a number of desktops, or a current desktop, that is *)
(* not the window manager's; and because the handler of the number clamps  *)
(* the current desktop, while the window manager has announced a current   *)
(* desktop behind its last one every pending notification of the number    *)
(* must have one of the current desktop behind it.                         *)
(***************************************************************************)
Has(q, which) == \E i \in 1..Len(q) : q[i] = which
CurrentLast(q) ==
  \A i \in 1..Len(q) : q[i] = "number" =>
    \E j \in (i + 1)..Len(q) : q[j] = "current"

Agreed == owed = "nothing" => wmcur \in 0..(wmnum - 1)
NumberFollows ==
  \/ Has(notes, "number")
  \/ todo >= Pass
  \/ num = IF wmnum = 0 THEN 1 ELSE wmnum
CurrentFollows ==
  \/ Has(notes, "current")
  \/ todo >= Pass - 1
  \/ owed = "current" \/ wmcur = -1
  \/ current = wmcur
ClampUndone == owed = "number" /\ wmcur # -1 => CurrentLast(notes)

Following == Agreed /\ NumberFollows /\ CurrentFollows /\ ClampUndone

Notes == Seq({"number", "current"})

(* What is pending after one more notification.                            *)
LEMMA HasAppend ==
  ASSUME NEW q \in Notes, NEW e \in {"number", "current"}, NEW which
  PROVE  Has(Append(q, e), which) <=> Has(q, which) \/ which = e
<1>1. /\ Len(q) \in Nat /\ Len(Append(q, e)) = Len(q) + 1
      /\ \A i \in 1..Len(q) : Append(q, e)[i] = q[i]
      /\ Append(q, e)[Len(q) + 1] = e
  BY AppendProperties, LenProperties DEF Notes
<1>2. QED
  BY <1>1 DEF Has

(* What is pending after the first notification has been taken.            *)
LEMMA HasTail ==
  ASSUME NEW q \in Notes, q # <<>>, NEW which
  PROVE  Has(q, which) => Has(Tail(q), which) \/ Head(q) = which
<1>1. /\ Len(q) \in Nat \ {0} /\ Len(Tail(q)) = Len(q) - 1
      /\ \A i \in 1..Len(Tail(q)) : Tail(q)[i] = q[i + 1]
      /\ Head(q) = q[1]
  BY HeadTailProperties, LenProperties, EmptySeq DEF Notes
<1>2. ASSUME NEW i \in 1..Len(q), q[i] = which, i # 1
      PROVE  Has(Tail(q), which)
  <2>1. i - 1 \in 1..Len(Tail(q)) /\ Tail(q)[i - 1] = q[i]
    BY <1>1, <1>2
  <2>2. QED
    BY <1>2, <2>1 DEF Has
<1>3. QED
  BY <1>1, <1>2 DEF Has

(* A notification of the current desktop comes after all others.           *)
LEMMA LastAppend ==
  ASSUME NEW q \in Notes
  PROVE  CurrentLast(Append(q, "current"))
<1>1. /\ Len(q) \in Nat /\ Len(Append(q, "current")) = Len(q) + 1
      /\ Append(q, "current")[Len(q) + 1] = "current"
  BY AppendProperties, LenProperties DEF Notes
<1>2. QED
  BY <1>1 DEF CurrentLast

(* A notification of the number is not the last one.                       *)
LEMMA LastTail ==
  ASSUME NEW q \in Notes, q # <<>>, CurrentLast(q)
  PROVE  /\ CurrentLast(Tail(q))
         /\ Head(q) = "number" => Has(Tail(q), "current")
<1>1. /\ Len(q) \in Nat \ {0} /\ Len(Tail(q)) = Len(q) - 1
      /\ \A i \in 1..Len(Tail(q)) : Tail(q)[i] = q[i + 1]
      /\ Head(q) = q[1]
  BY HeadTailProperties, LenProperties, EmptySeq DEF Notes
<1>2. ASSUME NEW i \in 0..Len(Tail(q)), q[i + 1] = "number"
      PROVE  \E j \in (i + 1)..Len(Tail(q)) : Tail(q)[j] = "current"
  <2>1. PICK j \in (i + 2)..Len(q) : q[j] = "current"
    BY <1>1, <1>2 DEF CurrentLast
  <2>2. j - 1 \in (i + 1)..Len(Tail(q)) /\ Tail(q)[j - 1] = q[j]
    BY <1>1, <2>1
  <2>3. QED
    BY <2>1, <2>2
<1>3. CurrentLast(Tail(q))
  BY <1>1, <1>2 DEF CurrentLast
<1>4. ASSUME Head(q) = "number" PROVE Has(Tail(q), "current")
  BY <1>1, <1>2, <1>4 DEF Has
<1>5. QED
  BY <1>3, <1>4

(* Before the first call nothing is known and nothing is to be.            *)
LEMMA FollowInit == Init => Following
<1> SUFFICES ASSUME Init PROVE Following
  OBVIOUS
<1>1. NumberFollows /\ CurrentFollows
  BY DEF Init, NumberFollows, CurrentFollows
<1>2. Agreed /\ ClampUndone
  BY DEF Init, Agreed, ClampUndone
<1>3. QED
  BY <1>1, <1>2 DEF Following

(* Each change of the window manager's leaves its notification.            *)
LEMMA FollowManager == TypeOK /\ Following /\ Manager => Following'
<1> SUFFICES ASSUME TypeOK, Following, Manager PROVE Following'
  OBVIOUS
<1>1. UNCHANGED <<todo, num, current>>
  BY DEF Manager, SetNumber, SetCurrent, Leave, Obey
<1>2. /\ wmnum \in Nat /\ wmcur \in Int /\ notes \in Notes /\ num \in Nat
      /\ owed \in {"nothing", "number", "current"}
  BY DesktopBounds DEF TypeOK, Notes
<1>3. ASSUME NEW k \in 1..MaxDesktops, SetNumber(k) PROVE Following'
  <2>1. /\ wmnum' = k /\ notes' = Append(notes, "number") /\ wmcur' = wmcur
        /\ owed' = IF wmcur = -1 \/ k <= wmcur THEN "current" ELSE "nothing"
        /\ owed \in {"nothing", "number"}
    BY <1>3 DEF SetNumber
  <2>2. Has(notes', "number") /\ (Has(notes, "current") => Has(notes', "current"))
    BY <1>2, <2>1, HasAppend
  <2>3. Agreed' /\ ClampUndone'
    <3>1. wmcur \in Nat \union {-1} /\ k \in Nat
      BY DesktopBounds DEF TypeOK
    <3>2. QED
      BY <2>1, <3>1 DEF Agreed, ClampUndone
  <2>4. NumberFollows' /\ CurrentFollows'
    BY <1>1, <2>1, <2>2 DEF NumberFollows, CurrentFollows, Following
  <2>5. QED
    BY <2>3, <2>4 DEF Following
<1>4. ASSUME NEW d \in Desktop, SetCurrent(d) PROVE Following'
  <2>1. /\ wmcur' = d /\ notes' = Append(notes, "current") /\ wmnum' = wmnum
        /\ owed' = IF d < wmnum THEN "nothing" ELSE "number"
    BY <1>4 DEF SetCurrent
  <2>2. Has(notes', "current") /\ (Has(notes, "number") => Has(notes', "number"))
    BY <1>2, <2>1, HasAppend
  <2>3. Agreed'
    BY <1>2, <2>1, DesktopBounds DEF Agreed
  <2>4. ClampUndone'
    BY <1>2, <2>1, LastAppend DEF ClampUndone
  <2>5. NumberFollows' /\ CurrentFollows'
    BY <1>1, <2>1, <2>2 DEF NumberFollows, CurrentFollows, Following
  <2>6. QED
    BY <2>3, <2>4, <2>5 DEF Following
<1>5. CASE Leave
  <2>1. /\ wmcur' = -1 /\ owed' = "number"
        /\ notes' = Append(Append(notes, "number"), "current")
    BY <1>5 DEF Leave
  <2>2. Append(notes, "number") \in Notes
    BY <1>2, AppendProperties DEF Notes
  <2>3. Has(notes', "number")
    BY <1>2, <2>1, <2>2, HasAppend
  <2>4. QED
    BY <2>1, <2>3
       DEF Following, Agreed, ClampUndone, NumberFollows, CurrentFollows
<1>6. CASE Obey
  <2>1. CASE Head(asked) \in 0..(wmnum - 1)
    <3>1. /\ wmcur' = Head(asked) /\ notes' = Append(notes, "current")
          /\ owed' = "nothing" /\ wmnum' = wmnum
      BY <1>6, <2>1 DEF Obey
    <3>2. Has(notes', "current") /\ (Has(notes, "number") => Has(notes', "number"))
      BY <1>2, <3>1, HasAppend
    <3>3. Agreed' /\ ClampUndone'
      BY <2>1, <3>1 DEF Agreed, ClampUndone
    <3>4. NumberFollows' /\ CurrentFollows'
      BY <1>1, <3>1, <3>2 DEF NumberFollows, CurrentFollows, Following
    <3>5. QED
      BY <3>3, <3>4 DEF Following
  <2>2. CASE Head(asked) \notin 0..(wmnum - 1)
    <3>1. UNCHANGED <<wmcur, wmnum, notes, owed>>
      BY <1>6, <2>2 DEF Obey
    <3>2. QED
      BY <1>1, <3>1 DEF Following, Agreed, ClampUndone, NumberFollows,
                        CurrentFollows
  <2>3. QED
    BY <2>1, <2>2
<1>7. QED
  BY <1>3, <1>4, <1>5, <1>6 DEF Manager

(* A handler takes the value the property has now, and the one that clamps *)
(* the current desktop does so for good only if it may.                    *)
LEMMA FollowHandler ==
  ASSUME TypeOK, Following, UNCHANGED <<wmnum, wmcur, owed>>,
         NEW which \in {"number", "current"}, NEW draw \in BOOLEAN,
         Handler(which, draw)
  PROVE  /\ which = "number" => num' = IF wmnum = 0 THEN 1 ELSE wmnum
         /\ which = "number" /\ owed = "nothing" /\ current = wmcur =>
              current' = wmcur
         /\ which = "current" => /\ num' = num
                                 /\ wmcur = -1 \/ current' = wmcur
<1>1. CASE which = "number"
  <2>1. NumberOfDesktops(draw)
    BY <1>1 DEF Handler
  <2>2. num' = IF wmnum = 0 THEN 1 ELSE wmnum
    BY <2>1 DEF NumberOfDesktops
  <2>3. ASSUME owed = "nothing", current = wmcur
        PROVE  current' = wmcur
    <3>1. wmcur \in 0..(wmnum - 1) /\ wmnum \in Nat
      BY <2>3, DesktopBounds DEF Following, Agreed, TypeOK
    <3>2. wmnum # 0 /\ ~(wmcur > wmnum - 1)
      BY <3>1
    <3>3. QED
      BY <2>1, <2>3, <3>2 DEF NumberOfDesktops
  <2>4. QED
    BY <1>1, <2>2, <2>3
<1>2. CASE which = "current"
  BY <1>2 DEF Handler, CurrentDesktop
<1>3. QED
  BY <1>1, <1>2

(* The two passes of calls and the notifications bring rieman in line.     *)
LEMMA FollowPager == TypeOK /\ Following /\ Pager => Following'
<1> SUFFICES ASSUME TypeOK, Following, Pager PROVE Following'
  OBVIOUS
<1>1. UNCHANGED <<wmnum, wmcur, owed>>
  BY DEF Pager, Initialise, HandleNote
<1>2. Agreed'
  BY <1>1 DEF Following, Agreed
<1>3. CASE Initialise
  <2>1. todo \in 1..6 /\ todo' = todo - 1 /\ UNCHANGED notes
    BY <1>3 DEF Initialise, TypeOK
  <2>2. ClampUndone'
    BY <1>1, <2>1 DEF Following, ClampUndone
  <2>3. CASE Handler(Call(todo), FALSE)
    <3>1. Call(todo) \in {"number", "current"}
      BY <2>3 DEF Handler
    <3>2. CASE Call(todo) = "number"
      <4>1. num' = IF wmnum = 0 THEN 1 ELSE wmnum
        BY <1>1, <2>3, <3>1, <3>2, FollowHandler
      <4>2. todo' >= Pass - 1
        BY <2>1, <3>2 DEF Call
      <4>3. QED
        BY <1>1, <1>2, <2>2, <4>1, <4>2
           DEF Following, NumberFollows, CurrentFollows
    <3>3. CASE Call(todo) = "current"
      <4>1. num' = num /\ (wmcur = -1 \/ current' = wmcur)
        BY <1>1, <2>3, <3>1, <3>3, FollowHandler
      <4>2. todo >= Pass => todo' >= Pass
        BY <2>1, <3>3 DEF Call
      <4>3. QED
        BY <1>1, <1>2, <2>1, <2>2, <4>1, <4>2
           DEF Following, NumberFollows, CurrentFollows
    <3>4. QED
      BY <3>1, <3>2, <3>3
  <2>4. CASE Call(todo) = "render" /\ UNCHANGED <<num, current, selected>>
    <3>1. todo >= Pass - 1 => todo' >= Pass
      BY <2>1, <2>4 DEF Call
    <3>2. todo >= Pass => todo >= Pass - 1
      BY <2>1
    <3>3. todo' >= Pass => todo' >= Pass - 1
      BY <2>1
    <3>4. QED
      BY <1>1, <1>2, <2>1, <2>2, <2>4, <3>1, <3>2, <3>3
         DEF Following, NumberFollows, CurrentFollows
  <2>5. QED
    BY <1>3, <2>3, <2>4 DEF Initialise
<1>4. CASE HandleNote
  <2>1. /\ todo = 0 /\ todo' = 0 /\ notes # <<>> /\ notes' = Tail(notes)
        /\ Handler(Head(notes), TRUE)
    BY <1>4 DEF HandleNote
  <2>2. notes \in Notes /\ Head(notes) \in {"number", "current"}
    BY <2>1, HeadTailProperties DEF TypeOK, Notes
  <2>3. ~(todo >= Pass) /\ ~(todo >= Pass - 1)
    BY <2>1
  <2>4. ClampUndone'
    BY <1>1, <2>1, <2>2, LastTail DEF Following, ClampUndone
  <2>5. CASE Head(notes) = "number"
    <3>1. num' = IF wmnum = 0 THEN 1 ELSE wmnum
      BY <1>1, <2>1, <2>2, <2>5, FollowHandler
    <3>2. NumberFollows'
      BY <1>1, <3>1 DEF NumberFollows
    <3>3. CurrentFollows'
      <4>1. Has(notes, "current") => Has(notes', "current")
        BY <2>1, <2>2, <2>5, HasTail
      <4>2. CASE owed = "number" /\ wmcur # -1
        BY <2>1, <2>2, <2>5, <4>2, LastTail
           DEF Following, ClampUndone, CurrentFollows
      <4>3. CASE owed = "nothing"
        <5>1. current = wmcur => current' = wmcur
          BY <1>1, <2>1, <2>2, <2>5, <4>3, FollowHandler
        <5>2. QED
          BY <1>1, <2>3, <4>1, <5>1 DEF Following, CurrentFollows
      <4>4. CASE owed = "current" \/ wmcur = -1
        BY <1>1, <4>4 DEF CurrentFollows
      <4>5. QED
        BY <4>2, <4>3, <4>4 DEF TypeOK
    <3>4. QED
      BY <1>2, <2>4, <3>2, <3>3 DEF Following
  <2>6. CASE Head(notes) = "current"
    <3>1. num' = num /\ (wmcur = -1 \/ current' = wmcur)
      BY <1>1, <2>1, <2>2, <2>6, FollowHandler
    <3>2. Has(notes, "number") => Has(notes', "number")
      BY <2>1, <2>2, <2>6, HasTail
    <3>3. NumberFollows' /\ CurrentFollows'
      BY <1>1, <2>3, <3>1, <3>2 DEF Following, NumberFollows, CurrentFollows
    <3>4. QED
      BY <1>2, <2>4, <3>3 DEF Following
  <2>7. QED
    BY <2>2, <2>5, <2>6
<1>5. QED
  BY <1>3, <1>4 DEF Pager

(* The user changes nothing of this, except by a reload that starts over.  *)
LEMMA FollowUser == Following /\ User => Following'
<1> SUFFICES ASSUME Following, User PROVE Following'
  OBVIOUS
<1>1. UNCHANGED <<wmnum, wmcur, owed, notes>>
  BY DEF User, Enter, LeaveWindow, Motion, Click, Switch, Reload
<1>2. todo' = 2 * Pass \/ UNCHANGED <<todo, num, current>>
  BY DEF User, Enter, LeaveWindow, Motion, Click, Switch, Reload
<1>3. QED
  BY <1>1, <1>2 DEF Following, Agreed, ClampUndone, NumberFollows,
                    CurrentFollows

(***************************************************************************)
(* Whatever the order of the changes and however late the notifications,   *)
(* rieman's number of desktops and current desktop are the window          *)
(* manager's once every notification has been handled.                     *)
(***************************************************************************)
THEOREM FollowsTheManager == Spec => []Converged
<1> DEFINE Inv == PagerInv /\ Following
<1>1. Init => Inv
  BY PagerInit, FollowInit
<1>2. Inv /\ [Next]_vars => Inv'
  <2>1. Following /\ UNCHANGED vars => Following'
    BY DEF Following, Agreed, ClampUndone, NumberFollows, CurrentFollows
  <2>2. PagerInv => TypeOK
    BY DEF PagerInv
  <2>3. QED
    BY <2>1, <2>2, PagerNext, FollowManager, FollowPager, FollowUser DEF Next
<1>3. Inv => Converged
  <2> SUFFICES ASSUME Inv, Running, notes = <<>>, owed = "nothing"
               PROVE  num = wmnum /\ current = wmcur
    BY DEF Converged
  <2>1. wmcur \in 0..(wmnum - 1) /\ wmnum \in Nat
    BY DesktopBounds DEF Following, Agreed, PagerInv, TypeOK
  <2>2. wmnum # 0 /\ wmcur # -1
    BY <2>1
  <2>3. ~Has(notes, "number") /\ ~Has(notes, "current")
    BY EmptySeq DEF Has
  <2>4. QED
    BY <2>2, <2>3 DEF Following, NumberFollows, CurrentFollows
<1>4. QED
  BY <1>1, <1>2, <1>3, PTL DEF Spec
===============================================================================
