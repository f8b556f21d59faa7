----------------------------- MODULE TilingProofs -----------------------------
(***************************************************************************)
(* Proofs about Tiling, for any number of desktops, any lists of windows   *)
(* and any sizes of frames and areas that have room for them: the numbers  *)
(* a tile command divides by are large enough, and the windows it places   *)
(* lie in the workarea, apart from each other, and fill it when they can.  *)
(***************************************************************************)
EXTENDS Tiling, FiniteSetTheorems, WellFoundedInduction, TLAPS

(* The definitions that only group variables or name sets.                 *)
USE DEF vars, lists, drawing, tiling, Desktop, States

(* TypeOK by what the actions change.                                      *)
WindowTypes ==
  /\ windows \in Seq(Window)
  /\ ndesktops \in 1..MaxDesktops
  /\ current \in Desktop
AreaTypes == workareas \in Seq(Area) /\ workareas # <<>>
DrawingTypes ==
  /\ nnormal \in [1..ndesktops -> Nat]
  /\ fresh \in BOOLEAN /\ render \in BOOLEAN
CommandTypes ==
  /\ mode \in 0..2 /\ DOMAIN asked \subseteq DOMAIN windows
  /\ running \in BOOLEAN /\ orderly \in BOOLEAN /\ base \in Nat

(* The parts are the whole.                                                *)
LEMMA TypeParts ==
  TypeOK <=> WindowTypes /\ AreaTypes /\ DrawingTypes /\ CommandTypes
  BY DEF TypeOK, WindowTypes, AreaTypes, DrawingTypes, CommandTypes

(* The same of the next state.                                             *)
LEMMA TypePartsNext ==
  ASSUME WindowTypes', AreaTypes', DrawingTypes', CommandTypes'
  PROVE  TypeOK'
  BY DEF TypeOK, WindowTypes, AreaTypes, DrawingTypes, CommandTypes

(***************************************************************************)
(* The operators.                                                          *)
(***************************************************************************)

(* The sets of windows that are compared are finite, and a window that     *)
(* will be placed has been counted: what is counted is more than that.     *)
LEMMA TiledCounted ==
  ASSUME NEW ws \in Seq(Window), NEW d
  PROVE  /\ IsFiniteSet(Counted(ws, d)) /\ IsFiniteSet(Tiled(ws, d))
         /\ Cardinality(Counted(ws, d)) \in Nat
         /\ Cardinality(Tiled(ws, d)) \in Nat
         /\ Cardinality(Tiled(ws, d)) <= Cardinality(Counted(ws, d))
<1>1. DOMAIN ws = 1..Len(ws) /\ Len(ws) \in Nat
  OBVIOUS
<1>2. IsFiniteSet(DOMAIN ws)
  BY <1>1, FS_Interval
<1>3. Counted(ws, d) \subseteq DOMAIN ws /\ Tiled(ws, d) \subseteq Counted(ws, d)
  BY DEF Counted, Tiled
<1>4. IsFiniteSet(Counted(ws, d))
  BY <1>2, <1>3, FS_Subset
<1>5. /\ IsFiniteSet(Tiled(ws, d))
      /\ Cardinality(Tiled(ws, d)) <= Cardinality(Counted(ws, d))
  BY <1>3, <1>4, FS_Subset
<1>6. QED
  BY <1>4, <1>5, FS_CardinalityType

(* Counting gives a natural number for each desktop.                       *)
LEMMA CountsType ==
  ASSUME NEW ws \in Seq(Window), NEW n \in Nat
  PROVE  Counts(ws, n) \in [1..n -> Nat]
<1>1. \A i \in 1..n : Cardinality(Counted(ws, i - 1)) \in Nat
  BY TiledCounted
<1>2. QED
  BY <1>1 DEF Counts

(***************************************************************************)
(* Drawing.                                                                *)
(***************************************************************************)

(* Drawing keeps the types.                                                *)
LEMMA DrawTypes ==
  ASSUME TypeOK, WindowTypes', NEW ok \in BOOLEAN, Draw(ok)
  PROVE  DrawingTypes'
<1>1. ndesktops' \in Nat /\ windows' \in Seq(Window)
  BY TilingAssumption DEF WindowTypes
<1>2. Counts(windows', ndesktops') \in [1..ndesktops' -> Nat]
  BY <1>1, CountsType
<1>3. nnormal \in [1..ndesktops -> Nat]
  BY DEF TypeOK
<1>4. [i \in 1..ndesktops' |-> IF i \in DOMAIN nnormal THEN nnormal[i] ELSE 0]
        \in [1..ndesktops' -> Nat]
  BY <1>3
<1>5. nnormal' \in [1..ndesktops' -> Nat]
  BY <1>2, <1>4 DEF Draw
<1>6. QED
  BY <1>5 DEF DrawingTypes, Draw

(* A drawing that succeeds counts enough; after one that fails nothing is  *)
(* claimed.                                                                *)
LEMMA DrawCovers ==
  ASSUME WindowTypes', NEW ok \in BOOLEAN, Draw(ok)
  PROVE  CountsCover'
<1> SUFFICES ASSUME fresh', NEW d \in 0..(ndesktops' - 1)
             PROVE  Cardinality(Tiled(windows', d)) <= nnormal'[d + 1]
  BY DEF CountsCover
<1>1. windows' \in Seq(Window) /\ ndesktops' \in Nat
  BY TilingAssumption DEF WindowTypes
<1>2. nnormal' = Counts(windows', ndesktops')
  BY DEF Draw
<1>3. nnormal'[d + 1] = Cardinality(Counted(windows', d))
  <2> DEFINE n == ndesktops'
  <2>1. n \in Nat /\ d \in 0..(n - 1)
    BY <1>1
  <2> HIDE DEF n
  <2>2. d + 1 \in 1..n /\ (d + 1) - 1 = d
    BY <2>1
  <2>3. QED
    BY <1>2, <2>2 DEF Counts, n
<1>4. QED
  BY <1>1, <1>3, TiledCounted

(* Without a drawing they stay enough as long as no desktop gains a window *)
(* to be placed.                                                           *)
LEMMA CoverKept ==
  ASSUME WindowTypes, CountsCover, UNCHANGED <<nnormal, fresh, ndesktops>>,
         \A d \in Nat : Tiled(windows', d) \subseteq Tiled(windows, d),
         DrawingTypes
  PROVE  CountsCover'
<1> SUFFICES ASSUME fresh, NEW d \in 0..(ndesktops - 1)
             PROVE  Cardinality(Tiled(windows', d)) <= nnormal[d + 1]
  BY DEF CountsCover
<1>1. windows \in Seq(Window) /\ ndesktops \in Nat /\ d \in Nat
  BY TilingAssumption DEF WindowTypes
<1>2. Cardinality(Tiled(windows, d)) <= nnormal[d + 1]
  BY DEF CountsCover
<1>3. Tiled(windows', d) \subseteq Tiled(windows, d)
  BY <1>1
<1>4. IsFiniteSet(Tiled(windows, d)) /\ Cardinality(Tiled(windows, d)) \in Nat
  BY <1>1, TiledCounted
<1>5. /\ Cardinality(Tiled(windows', d)) <= Cardinality(Tiled(windows, d))
      /\ IsFiniteSet(Tiled(windows', d))
  BY <1>3, <1>4, FS_Subset
<1>6. Cardinality(Tiled(windows', d)) \in Nat
  BY <1>5, FS_CardinalityType
<1>7. nnormal[d + 1] \in Nat
  BY <1>1 DEF DrawingTypes
<1>8. QED
  BY <1>2, <1>4, <1>5, <1>6, <1>7

(* The end of an event, whether it draws or not.                           *)
LEMMA DrawnKeeps ==
  ASSUME TypeOK, CountsCover, running, WindowTypes', UNCHANGED workareas,
         NEW set \in BOOLEAN, NEW ok \in BOOLEAN, Drawn(set, ok),
         ~set => /\ ndesktops' = ndesktops
                 /\ \A d \in Nat : Tiled(windows', d) \subseteq Tiled(windows, d)
  PROVE  TypeOK' /\ CountsCover' /\ NoDivisionByZero'
<1>1. AreaTypes'
  BY DEF TypeOK, AreaTypes
<1>2. CommandTypes' /\ NoDivisionByZero'
  <2>1. DOMAIN NothingAsked = {}
    BY DEF NothingAsked
  <2>2. QED
    BY <2>1 DEF Drawn, TypeOK, CommandTypes, NoDivisionByZero
<1>3. DrawingTypes' /\ CountsCover'
  <2>1. CASE set \/ render
    BY <2>1, DrawTypes, DrawCovers DEF Drawn
  <2>2. CASE ~(set \/ render)
    <3>1. UNCHANGED <<nnormal, fresh, render, ndesktops>>
      BY <2>2 DEF Drawn
    <3>2. WindowTypes /\ DrawingTypes
      BY TypeParts
    <3>3. DrawingTypes'
      BY <3>1, <3>2 DEF DrawingTypes
    <3>4. QED
      BY <2>2, <3>1, <3>2, <3>3, CoverKept
  <2>3. QED
    BY <2>1, <2>2
<1>4. QED
  BY <1>1, <1>2, <1>3, TypePartsNext

(***************************************************************************)
(* The inductive invariant.                                                *)
(***************************************************************************)
TilingInv == TypeOK /\ CountsCover /\ NoDivisionByZero

(* One window of a list with other fields: still a list of windows.        *)
LEMMA ListChanged ==
  ASSUME NEW ws \in Seq(Window), NEW i \in DOMAIN ws, NEW new \in Window
  PROVE  [ws EXCEPT ![i] = new] \in Seq(Window)
  OBVIOUS

(* An element of the list with one field changed is still a window.        *)
LEMMA WindowChanged ==
  ASSUME NEW ws \in Seq(Window), NEW i \in DOMAIN ws
  PROVE  /\ ws[i].dead \in BOOLEAN
         /\ \A state \in States : [ws[i] EXCEPT !.state = state] \in Window
         /\ \A dock \in BOOLEAN : [ws[i] EXCEPT !.dock = dock] \in Window
         /\ \A d \in Desktop : [ws[i] EXCEPT !.desktop = d] \in Window
         /\ [[ws[i] EXCEPT !.dead = TRUE] EXCEPT !.desktop = 0] \in Window
<1>1. ws[i] \in Window
  OBVIOUS
<1>2. ws[i].dead \in BOOLEAN
  BY <1>1 DEF Window
<1>3. \A state \in States : [ws[i] EXCEPT !.state = state] \in Window
  BY <1>1 DEF Window
<1>4. \A dock \in BOOLEAN : [ws[i] EXCEPT !.dock = dock] \in Window
  BY <1>1 DEF Window
<1>5. \A d \in Desktop : [ws[i] EXCEPT !.desktop = d] \in Window
  BY <1>1 DEF Window
<1>6. [[ws[i] EXCEPT !.dead = TRUE] EXCEPT !.desktop = 0] \in Window
  <2>1. \A b \in BOOLEAN : [ws[i] EXCEPT !.dead = b] \in Window
    BY <1>1 DEF Window
  <2> DEFINE gone == [ws[i] EXCEPT !.dead = TRUE]
  <2>2. gone \in Window
    BY <2>1
  <2>3. 0 \in Desktop
    BY TilingAssumption
  <2> HIDE DEF gone
  <2>4. [gone EXCEPT !.desktop = 0] \in Window
    BY <2>2, <2>3 DEF Window
  <2>5. QED
    BY <2>4 DEF gone
<1>7. QED
  BY <1>2, <1>3, <1>4, <1>5, <1>6

(* The end of the handlers that leave the desktops alone and have the      *)
(* pager drawn, or change no window so that it has to be.                  *)
LEMMA WindowHandler ==
  ASSUME TilingInv, running, windows' \in Seq(Window),
         UNCHANGED <<ndesktops, current, workareas>>,
         NEW set \in BOOLEAN, NEW ok \in BOOLEAN, Drawn(set, ok),
         ~set => \A d \in Nat : Tiled(windows', d) \subseteq Tiled(windows, d)
  PROVE  TilingInv'
<1>1. WindowTypes'
  BY DEF TilingInv, TypeOK, WindowTypes
<1>2. QED
  BY <1>1, DrawnKeeps DEF TilingInv

(* A destroyed window is not placed any more.                              *)
LEMMA DestroyedNotTiled ==
  ASSUME NEW ws \in Seq(Window), NEW i \in DOMAIN ws, NEW d \in Nat
  PROVE  Tiled([ws EXCEPT ![i].dead = TRUE, ![i].desktop = 0], d)
           \subseteq Tiled(ws, d)
<1> DEFINE after == [ws EXCEPT ![i].dead = TRUE, ![i].desktop = 0]
<1>1. ws[i] \in Window
  OBVIOUS
<1>2. DOMAIN after = DOMAIN ws
  OBVIOUS
<1>3. after[i].dead
  BY <1>1 DEF Window
<1>4. \A j \in DOMAIN ws : j # i => after[j] = ws[j]
  OBVIOUS
<1> HIDE DEF after
<1>5. QED
  BY <1>2, <1>3, <1>4 DEF Tiled, after

(* A tile command divides by zero only when it places windows on a desktop *)
(* of which none was counted; when the counts are those of the last        *)
(* drawing and the desktop exists, it does not.                            *)
LEMMA TileDivides ==
  ASSUME TilingInv, running, NEW d \in Nat, Tile(d)
  PROVE  /\ CommandTypes /\ windows' = windows => CommandTypes'
         /\ NoDivisionByZero'
<1> DEFINE n == ArrayGet(nnormal, d)
<1>1. nnormal \in [1..ndesktops -> Nat] /\ ndesktops \in Nat \ {0}
  BY TilingAssumption DEF TilingInv, TypeOK
<1>2. n \in Nat
  BY <1>1 DEF ArrayGet
<1>3. orderly' = (fresh /\ d < ndesktops) /\ base' = n
  BY DEF Tile
<1>4. CASE n = 0 /\ Tiled(windows, d) # {}
  <2>1. ~orderly'
    <3>1. SUFFICES ASSUME orderly' PROVE FALSE
      OBVIOUS
    <3>2. fresh /\ d < ndesktops
      BY <1>3, <3>1, Zenon
    <3>3. d \in 0..(ndesktops - 1)
      BY <1>1, <3>2
    <3>4. n = nnormal[d + 1]
      BY <1>1, <3>3 DEF ArrayGet
    <3>5. Cardinality(Tiled(windows, d)) <= 0
      BY <1>4, <3>2, <3>3, <3>4 DEF TilingInv, CountsCover
    <3>6. /\ IsFiniteSet(Tiled(windows, d))
          /\ Cardinality(Tiled(windows, d)) \in Nat
      BY TiledCounted DEF TilingInv, TypeOK
    <3>7. Cardinality(Tiled(windows, d)) = 0
      BY <3>5, <3>6
    <3>8. QED
      BY <1>4, <3>6, <3>7, FS_EmptySet
  <2>2. running' = FALSE /\ UNCHANGED <<mode, asked>>
    BY <1>4 DEF Tile
  <2>3. QED
    BY <1>2, <1>3, <2>1, <2>2 DEF CommandTypes, NoDivisionByZero
<1>5. CASE ~(n = 0 /\ Tiled(windows, d) # {})
  <2> DEFINE m == IF mode = 2 THEN 0 ELSE mode
  <2>1. /\ mode' = m + 1
        /\ asked' = TileAwesomeFair(d, n, m = 0)
        /\ running' = running
    BY <1>5 DEF Tile
  <2>2. DOMAIN asked' \subseteq DOMAIN windows
    BY <2>1 DEF TileAwesomeFair, Tiled
  <2>3. mode \in 0..2 => mode' \in 0..2
    BY <2>1
  <2>4. (fresh /\ d < ndesktops) \in BOOLEAN
    OBVIOUS
  <2> HIDE DEF n, m
  <2>5. QED
    BY <1>2, <1>3, <2>1, <2>2, <2>3, <2>4 DEF CommandTypes, NoDivisionByZero
<1>6. QED
  BY <1>4, <1>5

(***************************************************************************)
(* One lemma for each action.                                              *)
(***************************************************************************)
LEMMA InitTiling ==
  ASSUME Init
  PROVE  TilingInv
<1>1. windows \in Seq(Window) /\ ndesktops \in Nat \ {0}
  BY TilingAssumption DEF Init
<1>2. WindowTypes
  BY <1>1, TilingAssumption DEF Init, WindowTypes
<1>3. AreaTypes
  <2>1. PICK a \in Area : workareas = <<a>>
    BY DEF Init
  <2>2. QED
    BY <2>1 DEF AreaTypes
<1>4. nnormal \in [1..ndesktops -> Nat]
  BY <1>1, CountsType DEF Init
<1>5. DrawingTypes
  BY <1>4 DEF Init, DrawingTypes
<1>6. CommandTypes
  BY DEF Init, CommandTypes, NothingAsked
<1>7. CountsCover
  <2> SUFFICES ASSUME NEW d \in 0..(ndesktops - 1)
               PROVE  Cardinality(Tiled(windows, d)) <= nnormal[d + 1]
    BY DEF CountsCover
  <2>1. d + 1 \in 1..ndesktops /\ (d + 1) - 1 = d
    BY <1>1
  <2>2. nnormal[d + 1] = Cardinality(Counted(windows, d))
    BY <2>1 DEF Init, Counts
  <2>3. QED
    BY <1>1, <2>2, TiledCounted
<1>8. NoDivisionByZero
  BY DEF Init, NoDivisionByZero
<1>9. QED
  BY <1>2, <1>3, <1>5, <1>6, <1>7, <1>8, TypeParts DEF TilingInv

LEMMA ClientListTiling ==
  ASSUME TilingInv, NEW list \in Lists, NEW ok \in BOOLEAN, ClientList(list, ok)
  PROVE  TilingInv'
  BY TilingAssumption, WindowHandler DEF ClientList

LEMMA WmStateTiling ==
  ASSUME TilingInv, NEW i \in Nat, NEW state \in States, NEW ok \in BOOLEAN,
         WmState(i, state, ok)
  PROVE  TilingInv'
<1>1. windows \in Seq(Window) /\ i \in DOMAIN windows /\ running
  BY DEF TilingInv, TypeOK, WmState, Varied
<1>2. [windows[i] EXCEPT !.state = state] \in Window
  BY <1>1, WindowChanged
<1>3. windows' \in Seq(Window)
  BY <1>1, <1>2, ListChanged DEF WmState
<1>4. QED
  BY <1>1, <1>3, WindowHandler DEF WmState

LEMMA WmWindowTypeTiling ==
  ASSUME TilingInv, NEW i \in Nat, NEW dock \in BOOLEAN, NEW ok \in BOOLEAN,
         WmWindowType(i, dock, ok)
  PROVE  TilingInv'
<1>1. windows \in Seq(Window) /\ i \in DOMAIN windows /\ running
  BY DEF TilingInv, TypeOK, WmWindowType, Varied
<1>2. [windows[i] EXCEPT !.dock = dock] \in Window
  BY <1>1, WindowChanged
<1>3. windows' \in Seq(Window)
  BY <1>1, <1>2, ListChanged DEF WmWindowType
<1>4. QED
  BY <1>1, <1>3, WindowHandler DEF WmWindowType

(* Nothing is drawn for a dead window, which is not moved either.          *)
LEMMA WmDesktopTiling ==
  ASSUME TilingInv, NEW i \in Nat, NEW d \in Desktop, NEW ok \in BOOLEAN,
         WmDesktop(i, d, ok)
  PROVE  TilingInv'
<1>1. windows \in Seq(Window) /\ i \in DOMAIN windows /\ running
  BY DEF TilingInv, TypeOK, WmDesktop, Varied
<1>2. windows[i].dead \in BOOLEAN /\ [windows[i] EXCEPT !.desktop = d] \in Window
  BY <1>1, WindowChanged
<1>3. windows' \in Seq(Window)
  BY <1>1, <1>2, ListChanged DEF WmDesktop
<1>4. windows[i].dead => windows' = windows
  BY DEF WmDesktop
<1>5. QED
  BY <1>1, <1>2, <1>3, <1>4, WindowHandler DEF WmDesktop

LEMMA DestroyTiling ==
  ASSUME TilingInv, NEW i \in Nat, NEW ok \in BOOLEAN, Destroy(i, ok)
  PROVE  TilingInv'
<1>1. windows \in Seq(Window) /\ i \in DOMAIN windows /\ running
  BY DEF TilingInv, TypeOK, Destroy, Varied
<1>2. [[windows[i] EXCEPT !.dead = TRUE] EXCEPT !.desktop = 0] \in Window
  BY <1>1, WindowChanged
<1>3. windows' = [windows EXCEPT ![i] =
                    [[windows[i] EXCEPT !.dead = TRUE] EXCEPT !.desktop = 0]]
  BY <1>1 DEF Destroy
<1>4. windows' \in Seq(Window)
  BY <1>1, <1>2, <1>3, ListChanged
<1>5. \A d \in Nat : Tiled(windows', d) \subseteq Tiled(windows, d)
  BY <1>1, DestroyedNotTiled DEF Destroy
<1>6. QED
  BY <1>1, <1>4, <1>5, WindowHandler DEF Destroy

LEMMA NumberOfDesktopsTiling ==
  ASSUME TilingInv, NEW n \in 1..MaxDesktops, NEW property \in BOOLEAN,
         NEW ok \in BOOLEAN, NumberOfDesktops(n, property, ok)
  PROVE  TilingInv'
<1>1. MaxDesktops \in Nat \ {0} /\ current \in Desktop
  BY TilingAssumption DEF TilingInv, TypeOK
<1>2. ndesktops' = n /\ current' \in Desktop
  BY <1>1 DEF NumberOfDesktops
<1>3. WindowTypes'
  BY <1>2 DEF NumberOfDesktops, TilingInv, TypeOK, WindowTypes
<1>4. QED
  BY <1>3, DrawnKeeps DEF NumberOfDesktops, TilingInv

LEMMA CurrentDesktopTiling ==
  ASSUME TilingInv, NEW d \in Desktop, NEW ok \in BOOLEAN, CurrentDesktop(d, ok)
  PROVE  TilingInv'
<1>1. WindowTypes'
  BY DEF CurrentDesktop, TilingInv, TypeOK, WindowTypes
<1>2. QED
  BY <1>1, DrawnKeeps DEF CurrentDesktop, TilingInv

LEMMA TileCommandTiling ==
  ASSUME TilingInv, TileCommand
  PROVE  TilingInv'
<1>1. running /\ current \in Nat /\ Tile(current)
  BY TilingAssumption DEF TilingInv, TypeOK, TileCommand
<1>2. WindowTypes /\ AreaTypes /\ DrawingTypes /\ CommandTypes
  BY TypeParts DEF TilingInv
<1>3. CommandTypes' /\ NoDivisionByZero'
  BY <1>1, <1>2, TileDivides DEF TileCommand
<1>4. WindowTypes' /\ AreaTypes' /\ DrawingTypes'
  BY <1>2 DEF TileCommand, WindowTypes, AreaTypes, DrawingTypes
<1>5. CountsCover'
  BY DEF TileCommand, TilingInv, CountsCover
<1>6. QED
  BY <1>3, <1>4, <1>5, TypePartsNext DEF TilingInv

LEMMA TileClickTiling ==
  ASSUME TilingInv, NEW d \in Desktop, NEW ok \in BOOLEAN, TileClick(d, ok)
  PROVE  TilingInv'
<1>1. running /\ d \in Nat /\ Tile(d) /\ UNCHANGED <<lists, workareas>>
  BY DEF TileClick
<1>2. WindowTypes /\ AreaTypes /\ DrawingTypes /\ CommandTypes
  BY TypeParts DEF TilingInv
<1>3. CommandTypes' /\ NoDivisionByZero'
  BY <1>1, <1>2, TileDivides
<1>4. WindowTypes' /\ AreaTypes'
  BY <1>1, <1>2 DEF WindowTypes, AreaTypes
<1>5. DrawingTypes' /\ CountsCover'
  <2>1. CASE Draw(ok)
    BY <1>4, <2>1, DrawTypes, DrawCovers DEF TilingInv
  <2>2. CASE UNCHANGED drawing
    BY <1>1, <1>2, <2>2 DEF DrawingTypes, CountsCover, TilingInv
  <2>3. QED
    BY <2>1, <2>2 DEF TileClick
<1>6. QED
  BY <1>3, <1>4, <1>5, TypePartsNext DEF TilingInv

(* Every step keeps the invariant.                                         *)
LEMMA NextTiling ==
  ASSUME TilingInv, [Next]_vars
  PROVE  TilingInv'
<1>1. CASE TileCommand
  BY <1>1, TileCommandTiling
<1>2. ASSUME NEW ok \in BOOLEAN, NEW list \in Lists, ClientList(list, ok)
      PROVE  TilingInv'
  BY <1>2, ClientListTiling
<1>3. ASSUME NEW ok \in BOOLEAN, NEW i \in 1..MaxVaried,
             \/ \E state \in States : WmState(i, state, ok)
             \/ \E dock \in BOOLEAN : WmWindowType(i, dock, ok)
             \/ \E d \in Desktop : WmDesktop(i, d, ok)
             \/ Destroy(i, ok)
      PROVE  TilingInv'
  <2>1. i \in Nat
    BY TilingAssumption
  <2>2. QED
    BY <1>3, <2>1, WmStateTiling, WmWindowTypeTiling, WmDesktopTiling, DestroyTiling
<1>4. ASSUME NEW ok \in BOOLEAN, NEW n \in 1..MaxDesktops, NEW property \in BOOLEAN,
             NumberOfDesktops(n, property, ok)
      PROVE  TilingInv'
  BY <1>4, NumberOfDesktopsTiling
<1>5. ASSUME NEW ok \in BOOLEAN, NEW d \in Desktop,
             CurrentDesktop(d, ok) \/ TileClick(d, ok)
      PROVE  TilingInv'
  BY <1>5, CurrentDesktopTiling, TileClickTiling
<1>6. CASE UNCHANGED vars
  BY <1>6 DEF TilingInv, TypeOK, CountsCover, NoDivisionByZero
<1>7. QED
  BY <1>1, <1>2, <1>3, <1>4, <1>5, <1>6 DEF Next

(***************************************************************************)
(* The theorems.                                                           *)
(***************************************************************************)

(* All that a tile command relies on, always.                              *)
THEOREM TilingInvariant == Spec => []TilingInv
<1>1. Init => TilingInv
  BY InitTiling
<1>2. TilingInv /\ [Next]_vars => TilingInv'
  BY NextTiling
<1>3. QED
  BY <1>1, <1>2, PTL DEF Spec

(* The pager's variables have their types.                                 *)
THEOREM TypeCorrect == Spec => []TypeOK
<1>1. TilingInv => TypeOK
  BY DEF TilingInv
<1>2. QED
  BY <1>1, TilingInvariant, PTL

(* A desktop never has more windows to place than rie_draw_desktops() last *)
(* counted on it, unless that drawing failed.                              *)
THEOREM CountsAreEnough == Spec => []CountsCover
<1>1. TilingInv => CountsCover
  BY DEF TilingInv
<1>2. QED
  BY <1>1, TilingInvariant, PTL

(* rie_windows_tile_awesome_fair() does not divide by zero when it tiles a *)
(* desktop that exists and the last drawing did not fail.                  *)
THEOREM TilingNeverDividesByZero == Spec => []NoDivisionByZero
<1>1. TilingInv => NoDivisionByZero
  BY DEF TilingInv
<1>2. QED
  BY <1>1, TilingInvariant, PTL

(***************************************************************************)
(* Division and roots.                                                     *)
(***************************************************************************)

LEMMA Product ==
  ASSUME NEW a \in Int, NEW b \in Int, NEW c \in Nat, a <= b
  PROVE  /\ c * a \in Int /\ c * b \in Int
         /\ c * a <= c * b
         /\ a < b => c * a + c <= c * b
  BY SMTT(20)

LEMMA ProductNat ==
  ASSUME NEW a \in Nat, NEW b \in Nat
  PROVE  a * b \in Nat
  BY SMTT(20)

LEMMA Division ==
  ASSUME NEW a \in Nat, NEW b \in Nat \ {0}
  PROVE  /\ a \div b \in Nat
         /\ a % b \in 0..(b - 1)
         /\ a = b * (a \div b) + (a % b)
<1>1. a \div b \in Nat
  BY SMTT(20)
<1>2. a % b \in 0..(b - 1)
  BY SMTT(20)
<1>3. a = b * (a \div b) + (a % b)
  BY SMTT(20)
<1>4. QED
  BY <1>1, <1>2, <1>3

(* A quotient rounded up: the smallest number of parts that are enough.    *)
LEMMA CeilDivIs ==
  ASSUME NEW a \in Nat, NEW b \in Nat \ {0}
  PROVE  /\ CeilDiv(a, b) \in Nat
         /\ b * CeilDiv(a, b) \in Nat
         /\ a <= b * CeilDiv(a, b)
         /\ b * CeilDiv(a, b) <= a + b - 1
<1>1. PICK n \in Nat : n = a + b - 1
  OBVIOUS
<1>2. /\ n \div b \in Nat /\ n % b \in 0..(b - 1)
      /\ n = b * (n \div b) + (n % b)
  BY Division
<1>3. CeilDiv(a, b) = n \div b
  BY <1>1 DEF CeilDiv
<1>4. PICK q \in Nat, r \in 0..(b - 1) : q = n \div b /\ n = b * q + r
  BY <1>2
<1>5. b * q \in Nat
  BY ProductNat
<1>6. QED
  BY <1>1, <1>3, <1>4, <1>5

(* The smallest of some natural numbers.                                   *)
LEMMA HasLeast ==
  ASSUME NEW T \in SUBSET Nat, T # {}
  PROVE  \E x \in T : \A y \in T : x <= y
<1> DEFINE R == OpToRel(<, Nat)
<1>1. IsWellFoundedOn(R, Nat)
  BY NatLessThanWellFounded
<1>2. \A x, y \in Nat : y < x => <<y, x>> \in R
  BY DEF OpToRel
<1> HIDE DEF R
<1>3. PICK x \in T : \A y \in T : ~(<<y, x>> \in R)
  BY <1>1, WFMin
<1>4. \A y \in T : ~(y < x)
  BY <1>2, <1>3
<1>5. QED
  BY <1>4

(* A root rounded up exists, and is one.                                   *)
LEMMA CeilSqrtIs ==
  ASSUME NEW n \in Nat \ {0}
  PROVE  /\ CeilSqrt(n) \in 1..n
         /\ n <= CeilSqrt(n) * CeilSqrt(n)
<1> DEFINE T == {r \in Nat : r * r >= n}
<1>1. n * n >= n
  BY SMTT(20)
<1>2. n \in T
  BY <1>1
<1>3. PICK x \in T : \A y \in T : x <= y
  BY <1>2, HasLeast
<1>4. x \in 0..n /\ x * x >= n
  BY <1>2, <1>3
<1>5. x = 0 \/ (x - 1) * (x - 1) < n
  <2>1. SUFFICES ASSUME x # 0 PROVE (x - 1) * (x - 1) < n
    OBVIOUS
  <2>2. x - 1 \in Nat /\ ~(x - 1 \in T)
    BY <1>3, <1>4, <2>1
  <2>3. (x - 1) * (x - 1) \in Nat
    BY <2>2, ProductNat
  <2>4. QED
    BY <2>2, <2>3
<1>6. \E r \in 0..n : r * r >= n /\ (r = 0 \/ (r - 1) * (r - 1) < n)
  BY <1>4, <1>5
<1>7. /\ CeilSqrt(n) \in 0..n
      /\ CeilSqrt(n) * CeilSqrt(n) >= n
  BY <1>6 DEF CeilSqrt
<1>8. CeilSqrt(n) # 0
  <2>1. 0 * 0 = 0
    OBVIOUS
  <2>2. QED
    BY <1>7, <2>1
<1>9. QED
  BY <1>7, <1>8, ProductNat

(***************************************************************************)
(* The places.                                                             *)
(***************************************************************************)

(* The grid has a place for each window, and no column without one.        *)
LEMMA GridIs ==
  ASSUME NEW n \in Nat \ {0}
  PROVE  /\ Rows(n) \in Nat \ {0} /\ Cols(n) \in Nat \ {0}
         /\ n <= Rows(n) * Cols(n)
         /\ Rows(n) * Cols(n) - Rows(n) < n
<1>1. CASE n = 2
  BY <1>1 DEF Rows, Cols
<1>2. CASE n # 2
  <2>1. PICK r \in Nat \ {0} : r = Rows(n)
    BY <1>2, CeilSqrtIs DEF Rows
  <2>2. /\ CeilDiv(n, r) \in Nat
        /\ n <= r * CeilDiv(n, r) /\ r * CeilDiv(n, r) <= n + r - 1
        /\ r * CeilDiv(n, r) \in Nat
    BY CeilDivIs
  <2>3. Cols(n) = CeilDiv(n, r)
    BY <1>2, <2>1 DEF Cols
  <2>4. PICK c \in Nat : c = Cols(n) /\ n <= r * c /\ r * c <= n + r - 1
    BY <2>2, <2>3
  <2>5. r * c \in Nat /\ r * 0 = 0
    BY ProductNat
  <2>6. c # 0
    BY <2>4, <2>5
  <2>7. QED
    BY <2>1, <2>4, <2>5, <2>6
<1>3. QED
  BY <1>1, <1>2

(* The place of the k-th window in it: the last column may be shorter.     *)
Column(k, n) == k \div Rows(n)
Row(k, n)    == k % Rows(n)
Height(k, n) ==
  LET rest == Rows(n) * Cols(n) - Rows(n)
  IN  IF k >= rest THEN n - rest ELSE Rows(n)

LEMMA GridPlace ==
  ASSUME NEW n \in Nat \ {0}, NEW k \in 0..(n - 1)
  PROVE  /\ Column(k, n) \in 0..(Cols(n) - 1)
         /\ Height(k, n) \in 1..Rows(n)
         /\ Row(k, n) \in 0..(Height(k, n) - 1)
         /\ k = Rows(n) * Column(k, n) + Row(k, n)
         /\ Height(k, n) = IF Column(k, n) = Cols(n) - 1
                           THEN n - (Rows(n) * Cols(n) - Rows(n)) ELSE Rows(n)
<1>1. PICK r \in Nat \ {0}, c \in Nat \ {0} :
        /\ r = Rows(n) /\ c = Cols(n)
        /\ n <= r * c /\ r * c - r < n
  BY GridIs
<1>2. /\ k \div r \in Nat /\ k % r \in 0..(r - 1)
      /\ k = r * (k \div r) + (k % r)
  <2>1. k \in Nat
    OBVIOUS
  <2>2. QED
    BY <2>1, Division
<1>3. PICK col \in Nat, row \in 0..(r - 1) :
        col = Column(k, n) /\ row = Row(k, n) /\ k = r * col + row
  BY <1>1, <1>2 DEF Column, Row
<1>4. r * c \in Nat /\ r * col \in Nat /\ r * (c - 1) = r * c - r
  BY <1>1, <1>3, SMTT(20)
<1>5. col < c
  <2>1. col >= c => r * c <= r * col
    BY <1>1, <1>3, Product
  <2>2. QED
    BY <1>1, <1>3, <1>4, <2>1
<1>6. col < c - 1 => r * col + r <= r * c - r
  <2>1. SUFFICES ASSUME col < c - 1 PROVE r * col + r <= r * (c - 1)
    BY <1>4
  <2>2. col \in Int /\ c - 1 \in Int /\ r \in Nat /\ col <= c - 1
    BY <2>1
  <2>3. QED
    BY <2>1, <2>2, Product
<1>7. k >= r * c - r <=> col = c - 1
  BY <1>1, <1>3, <1>4, <1>5, <1>6
<1>8. Height(k, n) = IF k >= r * c - r THEN n - (r * c - r) ELSE r
  BY <1>1 DEF Height
<1>9. col = c - 1 => k = r * c - r + row
  BY <1>3, <1>4
<1>10. QED
  BY <1>1, <1>3, <1>4, <1>5, <1>7, <1>8, <1>9

(* Where there is room for many parts there is room for fewer.             *)
LEMMA RoomForFewer ==
  ASSUME NEW size \in Nat, NEW most \in Nat \ {0}, NEW parts \in 1..most,
         NEW around \in Nat, HasRoom(size, most, around)
  PROVE  HasRoom(size, parts, around)
<1>1. PICK p \in Nat, m \in Nat : p = parts - 1 /\ m = most - 1 /\ p <= m
  OBVIOUS
<1>2. p * p <= p * m /\ m * p <= m * m /\ p * m = m * p
  BY <1>1, SMTT(20)
<1>3. parts * around <= most * around
  BY SMTT(20)
<1>4. p * p \in Nat /\ m * m \in Nat /\ p * m \in Nat
      /\ parts * around \in Nat /\ most * around \in Nat
  BY <1>1, ProductNat
<1>5. QED
  BY <1>1, <1>2, <1>3, <1>4 DEF HasRoom

(* A part of a side: it begins where the last one ends, is larger than     *)
(* what is taken off it, and the last one ends with the side.              *)
LEMMA PartIs ==
  ASSUME NEW size \in Nat, NEW parts \in Nat \ {0}, NEW i \in 0..(parts - 1),
         NEW around \in Nat, HasRoom(size, parts, around)
  PROVE  LET p == Part(size, parts, i)
             e == CeilDiv(size, parts)
         IN  /\ p.at \in Nat /\ p.size \in Nat /\ e \in Nat
             /\ p.size > around
             /\ p.at = e * i
             /\ p.at + p.size = IF i = parts - 1 THEN size ELSE e * (i + 1)
             /\ p.at + p.size <= size
<1> DEFINE e == CeilDiv(size, parts)
           q == parts - 1
<1>1. /\ e \in Nat /\ size <= parts * e
      /\ parts * e <= size + q /\ parts * e \in Nat
  BY CeilDivIs
<1>2. q \in Nat /\ i <= q /\ parts = q + 1
  OBVIOUS
<1>3. size > q * q + parts * around
  BY DEF HasRoom
<1> HIDE DEF e, q
<1>4. q * q \in Nat /\ parts * around \in Nat /\ e * q \in Nat /\ e * i \in Nat
  BY <1>1, <1>2, ProductNat
<1>5. e > around
  <2>1. e <= around => parts * e <= parts * around
    BY <1>1, Product
  <2>2. QED
    BY <1>1, <1>3, <1>4, <2>1
<1>6. size - e * q > around
  <2> DEFINE last == size - e * q
  <2>1. q * (parts * e) <= q * (size + q)
    BY <1>1, <1>2, Product
  <2>2. q * (size + q) = q * size + q * q
    BY <1>2, SMTT(20)
  <2>3. parts * size = q * size + size
    BY <1>2, SMTT(20)
  <2>4. parts * last = parts * size - q * (parts * e)
    BY <1>1, <1>2, SMTT(20)
  <2>5. last \in Int
    BY <1>4
  <2> HIDE DEF last
  <2>6. q * size \in Nat /\ q * (parts * e) \in Nat
    BY <1>1, <1>2, ProductNat
  <2>7. parts * last >= size - q * q
    BY <1>4, <2>1, <2>2, <2>3, <2>4, <2>6
  <2>8. last <= around => parts * last <= parts * around
    BY <2>5, Product
  <2>9. parts * last \in Int
    BY <2>3, <2>4, <2>6
  <2>10. last > around
    BY <1>3, <1>4, <2>5, <2>7, <2>8, <2>9
  <2>11. QED
    BY <2>10 DEF last
<1>7. Part(size, parts, i) =
        [at   |-> IF i = q THEN size - (size - e * i) ELSE e * i,
         size |-> IF i = q THEN size - e * i ELSE e]
  BY DEF Part, e, q
<1>8. e * (i + 1) = e * i + e
  BY <1>1, SMTT(20)
<1>9. i < q => e * (i + 1) <= e * q
  <2>1. SUFFICES ASSUME i < q PROVE e * (i + 1) <= e * q
    OBVIOUS
  <2>2. i + 1 \in Int /\ q \in Int /\ i + 1 <= q
    BY <1>2, <2>1
  <2>3. QED
    BY <1>1, <2>2, Product
<1>10. e * i + e \in Nat /\ i \in Nat
  BY <1>1, <1>4
<1>11. CASE i = q
  <2>1. PICK s \in Int : s = size - e * i
    BY <1>1, <1>4
  <2>2. Part(size, parts, i).at = size - s /\ Part(size, parts, i).size = s
    BY <1>7, <1>11, <2>1
  <2>3. s > around /\ e * i = size - s
    BY <1>4, <1>6, <1>11, <2>1
  <2>4. QED
    BY <1>1, <1>4, <1>11, <2>2, <2>3 DEF e, q
<1>12. CASE i < q
  <2>1. Part(size, parts, i).at = e * i /\ Part(size, parts, i).size = e
    BY <1>2, <1>7, <1>12
  <2>2. i # parts - 1
    BY <1>2, <1>12
  <2>3. e * i + e <= size
    BY <1>1, <1>4, <1>6, <1>8, <1>9, <1>12
  <2> HIDE <1>7
  <2>4. QED
    BY <1>1, <1>4, <1>5, <1>8, <2>1, <2>2, <2>3 DEF e
<1>13. QED
  BY <1>2, <1>11, <1>12

(* Two parts do not overlap.                                               *)
LEMMA PartsApart ==
  ASSUME NEW size \in Nat, NEW parts \in Nat \ {0}, NEW i \in 0..(parts - 1),
         NEW j \in 0..(parts - 1), i < j,
         NEW around \in Nat, HasRoom(size, parts, around)
  PROVE  Part(size, parts, i).at + Part(size, parts, i).size
           <= Part(size, parts, j).at
<1>1. /\ CeilDiv(size, parts) \in Nat
      /\ Part(size, parts, i).at + Part(size, parts, i).size
           = CeilDiv(size, parts) * (i + 1)
  BY PartIs
<1>2. Part(size, parts, j).at = CeilDiv(size, parts) * j
  BY PartIs
<1>3. i + 1 \in Int /\ j \in Int /\ i + 1 <= j
  OBVIOUS
<1>4. QED
  BY <1>1, <1>2, <1>3, Product

(* Every point of a side is in one of its parts.                           *)
LEMMA PartsCover ==
  ASSUME NEW size \in Nat, NEW parts \in Nat \ {0}, NEW x \in 0..(size - 1),
         NEW around \in Nat, HasRoom(size, parts, around)
  PROVE  \E i \in 0..(parts - 1) :
           /\ Part(size, parts, i).at <= x
           /\ x < Part(size, parts, i).at + Part(size, parts, i).size
<1> DEFINE e == CeilDiv(size, parts)
           q == x \div e
<1>1. e \in Nat /\ e # 0
  <2>1. e \in Nat /\ size <= parts * e
    BY CeilDivIs
  <2>2. parts * 0 = 0 /\ size # 0
    OBVIOUS
  <2>3. QED
    BY <2>1, <2>2
<1>2. q \in Nat /\ e * q <= x /\ x < e * q + e /\ e * q \in Nat
  <2>1. x \in Nat
    OBVIOUS
  <2> HIDE DEF e
  <2>2. q \in Nat /\ x % e \in 0..(e - 1) /\ x = e * q + (x % e)
    BY <1>1, <2>1, Division
  <2>3. e * q \in Nat
    BY <1>1, <2>2, ProductNat
  <2>4. PICK r \in 0..(e - 1) : x = e * q + r
    BY <2>2
  <2>5. QED
    BY <1>1, <2>2, <2>3, <2>4
<1> HIDE DEF q
<1>3. PICK i \in 0..(parts - 1) : i <= q /\ (i # parts - 1 => i = q)
  <2>1. CASE q < parts - 1
    BY <1>2, <2>1
  <2>2. CASE q >= parts - 1
    BY <1>2, <2>2
  <2>3. QED
    BY <1>2, <2>1, <2>2
<1>4. /\ Part(size, parts, i).at = e * i
      /\ Part(size, parts, i).at + Part(size, parts, i).size =
           IF i = parts - 1 THEN size ELSE e * (i + 1)
  BY <1>3, PartIs
<1> HIDE DEF e
<1>5. e * i <= e * q
  BY <1>1, <1>2, <1>3, Product
<1>6. i # parts - 1 => e * (i + 1) = e * q + e
  <2>1. i # parts - 1 => i = q
    BY <1>3
  <2>2. e * (q + 1) = e * q + e
    BY <1>1, <1>2, SMTT(20)
  <2>3. QED
    BY <2>1, <2>2
<1>7. e * i \in Nat
  BY <1>1, <1>3, ProductNat
<1>8. Part(size, parts, i).at <= x
  BY <1>2, <1>4, <1>5, <1>7
<1>9. x < Part(size, parts, i).at + Part(size, parts, i).size
  BY <1>2, <1>4, <1>6
<1>10. QED
  BY <1>3, <1>8, <1>9

(***************************************************************************)
(* The cells of the grid: a place is the cell of a window less the sides   *)
(* of its frame that are taken off it.                                     *)
(***************************************************************************)
AreaRect == [x : Int, y : Int, w : Nat, h : Nat]

RoomFor(n, area, around) ==
  \A parts \in {Rows(n), Cols(n)} :
    HasRoom(area.w, parts, around) /\ HasRoom(area.h, parts, around)

Cell(k, n, area) ==
  LET wide == Part(area.w, Cols(n), Column(k, n))
      high == Part(area.h, Height(k, n), Row(k, n))
  IN  [x |-> wide.at + area.x, y |-> high.at + area.y,
       w |-> wide.size, h |-> high.size]

(* A cell is in the area and larger than what is taken off it.             *)
LEMMA CellIs ==
  ASSUME NEW n \in Nat \ {0}, NEW k \in 0..(n - 1), NEW area \in AreaRect,
         NEW around \in Nat, RoomFor(n, area, around)
  PROVE  /\ Cell(k, n, area) \in AreaRect
         /\ Cell(k, n, area).w > around /\ Cell(k, n, area).h > around
         /\ Inside(Cell(k, n, area), area)
<1>1. PICK ax \in Int, ay \in Int, aw \in Nat, ah \in Nat :
        area = [x |-> ax, y |-> ay, w |-> aw, h |-> ah]
  BY DEF AreaRect
<1>2. PICK c \in Nat \ {0}, col \in Nat :
        c = Cols(n) /\ col = Column(k, n) /\ col \in 0..(c - 1)
  BY GridIs, GridPlace
<1>3. PICK t \in Nat \ {0}, row \in Nat :
        t = Height(k, n) /\ row = Row(k, n) /\ row \in 0..(t - 1)
  <2>1. Rows(n) \in Nat \ {0} /\ Height(k, n) \in 1..Rows(n)
    BY GridIs, GridPlace
  <2>2. QED
    BY <2>1, GridPlace
<1>4. HasRoom(aw, c, around) /\ HasRoom(ah, t, around)
  <2>1. HasRoom(aw, c, around) /\ HasRoom(ah, Rows(n), around)
    BY <1>1, <1>2 DEF RoomFor
  <2>2. Rows(n) \in Nat \ {0} /\ t \in 1..Rows(n)
    BY <1>3, GridIs, GridPlace
  <2>3. HasRoom(ah, t, around)
    BY <2>1, <2>2, RoomForFewer
  <2>4. QED
    BY <2>1, <2>3
<1>5. PICK wide : /\ wide = Part(aw, c, col) /\ wide.at \in Nat /\ wide.size \in Nat
                  /\ wide.size > around /\ wide.at + wide.size <= aw
  BY <1>2, <1>4, PartIs
<1>6. PICK high : /\ high = Part(ah, t, row) /\ high.at \in Nat /\ high.size \in Nat
                  /\ high.size > around /\ high.at + high.size <= ah
  BY <1>3, <1>4, PartIs
<1>7. Cell(k, n, area) = [x |-> ax + wide.at, y |-> ay + high.at,
                          w |-> wide.size, h |-> high.size]
  BY <1>1, <1>2, <1>3, <1>5, <1>6 DEF Cell
<1>8. QED
  BY <1>1, <1>5, <1>6, <1>7 DEF AreaRect, Inside

(* Two cells do not overlap.                                               *)
LEMMA CellsApart ==
  ASSUME NEW n \in Nat \ {0}, NEW k \in 0..(n - 1), NEW l \in 0..(n - 1), k # l,
         NEW area \in AreaRect, NEW around \in Nat, RoomFor(n, area, around)
  PROVE  Apart(Cell(k, n, area), Cell(l, n, area))
<1>1. PICK ax \in Int, ay \in Int, aw \in Nat, ah \in Nat :
        area = [x |-> ax, y |-> ay, w |-> aw, h |-> ah]
  BY DEF AreaRect
<1>2. PICK r \in Nat \ {0}, c \in Nat \ {0} : r = Rows(n) /\ c = Cols(n)
  BY GridIs
<1>3. HasRoom(aw, c, around) /\ HasRoom(ah, r, around)
  BY <1>1, <1>2 DEF RoomFor
<1>4. ASSUME NEW i \in 0..(n - 1), NEW j \in 0..(n - 1),
             Column(i, n) < Column(j, n)
      PROVE  Cell(i, n, area).x + Cell(i, n, area).w <= Cell(j, n, area).x
  <2>1. PICK a \in 0..(c - 1), b \in 0..(c - 1) :
          a = Column(i, n) /\ b = Column(j, n) /\ a < b
    BY <1>2, <1>4, GridPlace
  <2>2. Part(aw, c, a).at + Part(aw, c, a).size <= Part(aw, c, b).at
    BY <1>3, <2>1, PartsApart
  <2>3. /\ Part(aw, c, a).at \in Nat /\ Part(aw, c, a).size \in Nat
        /\ Part(aw, c, b).at \in Nat
    BY <1>3, PartIs
  <2>4. /\ Cell(i, n, area).x = Part(aw, c, a).at + ax
        /\ Cell(i, n, area).w = Part(aw, c, a).size
        /\ Cell(j, n, area).x = Part(aw, c, b).at + ax
    BY <1>1, <1>2, <2>1 DEF Cell
  <2>5. QED
    BY <2>2, <2>3, <2>4
<1>5. ASSUME NEW i \in 0..(n - 1), NEW j \in 0..(n - 1),
             Column(i, n) = Column(j, n), Row(i, n) < Row(j, n)
      PROVE  Cell(i, n, area).y + Cell(i, n, area).h <= Cell(j, n, area).y
  <2>1. Height(i, n) = Height(j, n)
    BY <1>5, GridPlace
  <2>2. PICK t \in 1..r : t = Height(i, n) /\ t = Height(j, n)
    BY <1>2, <2>1, GridPlace
  <2>3. PICK a \in 0..(t - 1), b \in 0..(t - 1) :
          a = Row(i, n) /\ b = Row(j, n) /\ a < b
    BY <1>5, <2>2, GridPlace
  <2>4. HasRoom(ah, t, around) /\ t \in Nat \ {0}
    BY <1>2, <1>3, <2>2, RoomForFewer
  <2>5. Part(ah, t, a).at + Part(ah, t, a).size <= Part(ah, t, b).at
    BY <2>3, <2>4, PartsApart
  <2>6. /\ Part(ah, t, a).at \in Nat /\ Part(ah, t, a).size \in Nat
        /\ Part(ah, t, b).at \in Nat
    BY <2>4, PartIs
  <2>7. /\ Cell(i, n, area).y = Part(ah, t, a).at + ay
        /\ Cell(i, n, area).h = Part(ah, t, a).size
        /\ Cell(j, n, area).y = Part(ah, t, b).at + ay
    BY <1>1, <2>2, <2>3 DEF Cell
  <2>8. QED
    BY <2>5, <2>6, <2>7
<1>6. /\ Column(k, n) \in Int /\ Column(l, n) \in Int
      /\ Row(k, n) \in Int /\ Row(l, n) \in Int
  <2>1. Column(k, n) \in 0..(c - 1) /\ Column(l, n) \in 0..(c - 1)
    BY <1>2, GridPlace
  <2>2. ASSUME NEW i \in 0..(n - 1) PROVE Row(i, n) \in Int
    BY <1>2, GridPlace
  <2>3. QED
    BY <2>1, <2>2
<1>7. Column(k, n) = Column(l, n) => Row(k, n) # Row(l, n)
  <2>1. /\ k = r * Column(k, n) + Row(k, n)
        /\ l = r * Column(l, n) + Row(l, n)
    BY <1>2, GridPlace
  <2>2. QED
    BY <2>1
<1>8. CASE Column(k, n) # Column(l, n)
  <2>1. CASE Column(k, n) < Column(l, n)
    BY <1>4, <2>1 DEF Apart
  <2>2. CASE Column(l, n) < Column(k, n)
    BY <1>4, <2>2 DEF Apart
  <2>3. QED
    BY <1>6, <1>8, <2>1, <2>2
<1>9. CASE Column(k, n) = Column(l, n)
  <2>1. CASE Row(k, n) < Row(l, n)
    BY <1>5, <1>9, <2>1 DEF Apart
  <2>2. CASE Row(l, n) < Row(k, n)
    BY <1>5, <1>9, <2>2 DEF Apart
  <2>3. QED
    BY <1>6, <1>7, <1>9, <2>1, <2>2
<1>10. QED
  BY <1>8, <1>9

(* The number of the window in a given row of a given column.              *)
LEMMA GridNumber ==
  ASSUME NEW n \in Nat \ {0}, NEW col \in 0..(Cols(n) - 1), NEW row \in Nat,
         row < IF col = Cols(n) - 1 THEN n - (Rows(n) * Cols(n) - Rows(n))
               ELSE Rows(n)
  PROVE  \E k \in 0..(n - 1) : Column(k, n) = col /\ Row(k, n) = row
<1>1. PICK r \in Nat \ {0}, c \in Nat \ {0} :
        /\ r = Rows(n) /\ c = Cols(n)
        /\ n <= r * c /\ r * c - r < n
  BY GridIs
<1>2. col \in 0..(c - 1) /\ col \in Nat
  BY <1>1
<1>3. r * c \in Nat /\ r * col \in Nat /\ r * (c - 1) = r * c - r
  BY <1>1, <1>2, SMTT(20)
<1>4. row < r
  BY <1>1, <1>3
<1>5. r * col + row < n
  <2>1. CASE col = c - 1
    BY <1>1, <1>3, <2>1
  <2>2. CASE col < c - 1
    <3>1. col \in Int /\ c - 1 \in Int /\ col <= c - 1 /\ r \in Nat
      BY <1>1, <1>2, <2>2
    <3>2. r * col + r <= r * (c - 1)
      BY <2>2, <3>1, Product
    <3>3. QED
      BY <1>1, <1>3, <1>4, <3>2
  <2>3. QED
    BY <1>2, <2>1, <2>2
<1>6. PICK k \in 0..(n - 1) : k = r * col + row
  BY <1>3, <1>5
<1>7. /\ k \div r \in Nat /\ k % r \in 0..(r - 1)
      /\ k = r * (k \div r) + (k % r)
  <2>1. k \in Nat
    OBVIOUS
  <2>2. QED
    BY <2>1, Division
<1>8. PICK a \in Nat, b \in 0..(r - 1) :
        a = k \div r /\ b = k % r /\ k = r * a + b
  BY <1>7
<1>9. r * a \in Nat
  BY ProductNat
<1>10. ~(a < col) /\ ~(col < a)
  <2>1. a \in Int /\ col \in Int /\ r \in Nat
    BY <1>2, <1>8
  <2>2. a < col => r * a + r <= r * col
    BY <2>1, Product
  <2>3. col < a => r * col + r <= r * a
    BY <2>1, Product
  <2>4. QED
    BY <1>3, <1>4, <1>6, <1>8, <1>9, <2>2, <2>3
<1>11. a = col
  BY <1>2, <1>8, <1>10
<1>12. b = row
  BY <1>3, <1>6, <1>8, <1>11
<1>13. QED
  BY <1>1, <1>8, <1>11, <1>12 DEF Column, Row

(* Every point of the area is in one of the cells.                         *)
LEMMA CellsCover ==
  ASSUME NEW n \in Nat \ {0}, NEW area \in AreaRect,
         NEW around \in Nat, RoomFor(n, area, around),
         NEW x \in area.x..(area.x + area.w - 1),
         NEW y \in area.y..(area.y + area.h - 1)
  PROVE  \E k \in 0..(n - 1) :
           LET cell == Cell(k, n, area)
           IN  /\ cell.x <= x /\ x < cell.x + cell.w
               /\ cell.y <= y /\ y < cell.y + cell.h
<1>1. PICK ax \in Int, ay \in Int, aw \in Nat, ah \in Nat :
        area = [x |-> ax, y |-> ay, w |-> aw, h |-> ah]
  BY DEF AreaRect
<1>2. PICK r \in Nat \ {0}, c \in Nat \ {0} : r = Rows(n) /\ c = Cols(n)
  BY GridIs
<1>3. HasRoom(aw, c, around) /\ HasRoom(ah, r, around)
  BY <1>1, <1>2 DEF RoomFor
<1>4. x - ax \in 0..(aw - 1) /\ y - ay \in 0..(ah - 1)
  BY <1>1
<1>5. PICK col \in 0..(c - 1) :
        /\ Part(aw, c, col).at <= x - ax
        /\ x - ax < Part(aw, c, col).at + Part(aw, c, col).size
  BY <1>3, <1>4, PartsCover
<1>6. PICK t \in 1..r :
        t = IF col = Cols(n) - 1 THEN n - (Rows(n) * Cols(n) - Rows(n)) ELSE Rows(n)
  <2>1. r * c \in Nat
    BY ProductNat
  <2>2. r * c - r < n /\ n <= r * c
    BY <1>2, GridIs
  <2>3. QED
    BY <1>2, <2>1, <2>2
<1>7. HasRoom(ah, t, around) /\ t \in Nat \ {0}
  BY <1>3, RoomForFewer
<1>8. PICK row \in 0..(t - 1) :
        /\ Part(ah, t, row).at <= y - ay
        /\ y - ay < Part(ah, t, row).at + Part(ah, t, row).size
  BY <1>4, <1>7, PartsCover
<1>9. PICK k \in 0..(n - 1) : Column(k, n) = col /\ Row(k, n) = row
  <2>1. col \in 0..(Cols(n) - 1) /\ row \in Nat
    BY <1>2, <1>7
  <2>2. row < t
    BY <1>7
  <2>3. QED
    BY <1>6, <2>1, <2>2, GridNumber
<1>10. Height(k, n) = t
  BY <1>6, <1>9, GridPlace
<1>11. Cell(k, n, area) = [x |-> Part(aw, c, col).at + ax,
                           y |-> Part(ah, t, row).at + ay,
                           w |-> Part(aw, c, col).size,
                           h |-> Part(ah, t, row).size]
  BY <1>1, <1>2, <1>9, <1>10 DEF Cell
<1>12. /\ Part(aw, c, col).at \in Nat /\ Part(aw, c, col).size \in Nat
       /\ Part(ah, t, row).at \in Nat /\ Part(ah, t, row).size \in Nat
  BY <1>3, <1>7, PartIs
<1>13. /\ Cell(k, n, area).x <= x /\ x < Cell(k, n, area).x + Cell(k, n, area).w
       /\ Cell(k, n, area).y <= y /\ y < Cell(k, n, area).y + Cell(k, n, area).h
  <2>1. x \in Int /\ y \in Int
    BY <1>1
  <2>2. QED
    BY <1>5, <1>8, <1>11, <1>12, <2>1
<1>14. QED
  BY <1>13

(***************************************************************************)
(* The same for both modes: EAST is WEST with the sides exchanged.         *)
(***************************************************************************)
FrameRect == [x : Nat, y : Nat, w : Nat, h : Nat]

Slot(k, n, area, east) ==
  IF east THEN Swapped(Cell(k, n, Swapped(area))) ELSE Cell(k, n, area)

(* Exchanging the sides changes nothing that is said of rectangles.        *)
LEMMA SwappedIs ==
  ASSUME NEW r, NEW s
  PROVE  /\ Inside(Swapped(r), Swapped(s)) <=> Inside(r, s)
         /\ Apart(Swapped(r), Swapped(s)) <=> Apart(r, s)
  BY Zenon DEF Swapped, Inside, Apart

LEMMA SwappedArea ==
  ASSUME NEW area \in AreaRect
  PROVE  Swapped(area) \in AreaRect /\ Swapped(Swapped(area)) = area
  BY DEF Swapped, AreaRect

LEMMA SwappedRoom ==
  ASSUME NEW n, NEW area, NEW around, RoomFor(n, area, around)
  PROVE  RoomFor(n, Swapped(area), around)
  BY DEF RoomFor, Swapped

(* A slot is in the area, and larger than what is taken off it.            *)
LEMMA SlotIs ==
  ASSUME NEW n \in Nat \ {0}, NEW k \in 0..(n - 1), NEW area \in AreaRect,
         NEW around \in Nat, RoomFor(n, area, around), NEW east \in BOOLEAN
  PROVE  /\ Slot(k, n, area, east) \in AreaRect
         /\ Slot(k, n, area, east).w > around /\ Slot(k, n, area, east).h > around
         /\ Inside(Slot(k, n, area, east), area)
<1>1. CASE ~east
  BY <1>1, CellIs DEF Slot
<1>2. CASE east
  <2>1. Swapped(area) \in AreaRect /\ RoomFor(n, Swapped(area), around)
    BY SwappedArea, SwappedRoom
  <2>2. PICK c \in AreaRect :
          /\ c = Cell(k, n, Swapped(area)) /\ c.w > around /\ c.h > around
          /\ Inside(c, Swapped(area))
    BY <2>1, CellIs
  <2>3. Slot(k, n, area, east) = Swapped(c)
    BY <1>2, <2>2 DEF Slot
  <2>4. Swapped(c) \in AreaRect /\ Swapped(c).w = c.h /\ Swapped(c).h = c.w
    BY SwappedArea DEF Swapped
  <2>5. Inside(Swapped(c), Swapped(Swapped(area)))
    BY <2>2, SwappedIs
  <2>6. QED
    BY <2>2, <2>3, <2>4, <2>5, SwappedArea
<1>3. QED
  BY <1>1, <1>2

(* Two slots do not overlap.                                               *)
LEMMA SlotsApart ==
  ASSUME NEW n \in Nat \ {0}, NEW k \in 0..(n - 1), NEW l \in 0..(n - 1), k # l,
         NEW area \in AreaRect, NEW around \in Nat, RoomFor(n, area, around),
         NEW east \in BOOLEAN
  PROVE  Apart(Slot(k, n, area, east), Slot(l, n, area, east))
<1>1. CASE ~east
  BY <1>1, CellsApart DEF Slot
<1>2. CASE east
  <2>1. Swapped(area) \in AreaRect /\ RoomFor(n, Swapped(area), around)
    BY SwappedArea, SwappedRoom
  <2>2. Apart(Cell(k, n, Swapped(area)), Cell(l, n, Swapped(area)))
    BY <2>1, CellsApart
  <2>3. QED
    BY <1>2, <2>2, SwappedIs DEF Slot
<1>3. QED
  BY <1>1, <1>2

(* Every point of the area is in one of the slots.                         *)
LEMMA SlotsCover ==
  ASSUME NEW n \in Nat \ {0}, NEW area \in AreaRect,
         NEW around \in Nat, RoomFor(n, area, around), NEW east \in BOOLEAN,
         NEW x \in area.x..(area.x + area.w - 1),
         NEW y \in area.y..(area.y + area.h - 1)
  PROVE  \E k \in 0..(n - 1) :
           LET slot == Slot(k, n, area, east)
           IN  /\ slot.x <= x /\ x < slot.x + slot.w
               /\ slot.y <= y /\ y < slot.y + slot.h
<1>1. CASE ~east
  BY <1>1, CellsCover DEF Slot
<1>2. CASE east
  <2>1. PICK other \in AreaRect :
          other = Swapped(area) /\ RoomFor(n, other, around)
    BY SwappedArea, SwappedRoom
  <2>2. /\ y \in other.x..(other.x + other.w - 1)
        /\ x \in other.y..(other.y + other.h - 1)
    BY <2>1 DEF Swapped
  <2>3. PICK k \in 0..(n - 1) :
          LET cell == Cell(k, n, other)
          IN  /\ cell.x <= y /\ y < cell.x + cell.w
              /\ cell.y <= x /\ x < cell.y + cell.h
    BY <2>1, <2>2, CellsCover
  <2>4. Slot(k, n, area, east) = Swapped(Cell(k, n, other))
    BY <1>2, <2>1 DEF Slot
  <2>5. QED
    BY <2>3, <2>4 DEF Swapped
<1>3. QED
  BY <1>1, <1>2

(* The place of a window is its slot, less twice one side of its frame in  *)
(* each direction.                                                         *)
LEMMA PlaceIs ==
  ASSUME NEW n, NEW k, NEW area, NEW frame, NEW east \in BOOLEAN
  PROVE  LET s == Slot(k, n, area, east)
         IN  \E a, b \in {frame.w * 2, frame.h * 2} :
               Place(k, n, area, frame, east) =
                 [x |-> s.x, y |-> s.y, w |-> s.w - a, h |-> s.h - b]
<1>1. ASSUME NEW r
      PROVE  Place(k, n, r, frame, FALSE) =
               [x |-> Cell(k, n, r).x, y |-> Cell(k, n, r).y,
                w |-> Cell(k, n, r).w - frame.h * 2,
                h |-> Cell(k, n, r).h - frame.w * 2]
  BY DEF Place, Cell, Column, Row, Height
<1>2. east => Place(k, n, area, frame, east) =
                Swapped(Place(k, n, Swapped(area), frame, FALSE))
  BY DEF Place
<1>3. CASE ~east
  BY <1>1, <1>3 DEF Slot
<1>4. CASE east
  <2> DEFINE c == Cell(k, n, Swapped(area))
  <2>1. Place(k, n, Swapped(area), frame, FALSE) =
          [x |-> c.x, y |-> c.y, w |-> c.w - frame.h * 2, h |-> c.h - frame.w * 2]
    BY <1>1
  <2>2. Slot(k, n, area, east) = [x |-> c.y, y |-> c.x, w |-> c.h, h |-> c.w]
    BY <1>4 DEF Slot, Swapped
  <2> HIDE DEF c
  <2>3. Place(k, n, area, frame, east) =
          [x |-> c.y, y |-> c.x, w |-> c.h - frame.w * 2, h |-> c.w - frame.h * 2]
    <3>1. PICK r : r = Place(k, n, Swapped(area), frame, FALSE)
      OBVIOUS
    <3>2. Place(k, n, area, frame, east) = Swapped(r)
      BY <1>2, <1>4, <3>1
    <3>3. r = [x |-> c.x, y |-> c.y,
               w |-> c.w - frame.h * 2, h |-> c.h - frame.w * 2]
      BY <2>1, <3>1
    <3>4. QED
      BY <3>2, <3>3 DEF Swapped
  <2>4. QED
    BY <2>2, <2>3
<1>5. QED
  BY <1>3, <1>4

(* So it is inside its slot, and has a size for a window in its frame.     *)
LEMMA PlaceInSlot ==
  ASSUME NEW n \in Nat \ {0}, NEW k \in 0..(n - 1), NEW area \in AreaRect,
         NEW frame \in FrameRect, RoomFor(n, area, Around(frame)),
         NEW east \in BOOLEAN
  PROVE  LET p == Place(k, n, area, frame, east)
         IN  /\ p \in [x : Int, y : Int, w : Int, h : Int]
             /\ p.w > frame.x + frame.w /\ p.h > frame.y + frame.h
             /\ Inside(p, Slot(k, n, area, east))
<1>1. PICK fx \in Nat, fy \in Nat, fw \in Nat, fh \in Nat :
        frame = [x |-> fx, y |-> fy, w |-> fw, h |-> fh]
  BY DEF FrameRect
<1>2. PICK around \in Nat : around = Around(frame) /\ around = fx + fy + 3 * (fw + fh)
  BY <1>1 DEF Around
<1>3. PICK s \in AreaRect : /\ s = Slot(k, n, area, east)
                            /\ s.w > around /\ s.h > around
  BY <1>2, SlotIs
<1>4. PICK a \in {fw * 2, fh * 2}, b \in {fw * 2, fh * 2} :
        Place(k, n, area, frame, east) =
          [x |-> s.x, y |-> s.y, w |-> s.w - a, h |-> s.h - b]
  BY <1>1, <1>3, PlaceIs
<1>5. s.x \in Int /\ s.y \in Int /\ s.w \in Nat /\ s.h \in Nat
  BY DEF AreaRect
<1>6. /\ a \in Nat /\ b \in Nat
      /\ s.w - a > fx + fw /\ s.h - b > fy + fh
  BY <1>2, <1>3, <1>5
<1>7. Inside([x |-> s.x, y |-> s.y, w |-> s.w - a, h |-> s.h - b], s)
  BY <1>5, <1>6 DEF Inside
<1>8. QED
  BY <1>1, <1>3, <1>4, <1>5, <1>6, <1>7

(***************************************************************************)
(* The number of a window among those that are placed.                     *)
(***************************************************************************)
Rank(T, i) == Cardinality({j \in T : j < i})

(* Numbers begin at 0, grow with the window's, and are used up.            *)
LEMMA RankIs ==
  ASSUME NEW T \in SUBSET Nat, IsFiniteSet(T), NEW i \in T
  PROVE  Rank(T, i) \in 0..(Cardinality(T) - 1)
<1> DEFINE L == {j \in T : j < i}
<1>1. IsFiniteSet(L) /\ Cardinality(L) <= Cardinality(T)
      /\ (Cardinality(T) = Cardinality(L) => T = L)
  <2>1. L \in SUBSET T
    OBVIOUS
  <2> HIDE DEF L
  <2>2. QED
    BY <2>1, FS_Subset
<1>2. ~(i \in L)
  OBVIOUS
<1>3. Cardinality(L) \in Nat /\ Cardinality(T) \in Nat
  BY <1>1, FS_CardinalityType
<1>4. Cardinality(L) # Cardinality(T)
  BY <1>1, <1>2
<1>5. QED
  BY <1>1, <1>3, <1>4 DEF Rank

LEMMA RankGrows ==
  ASSUME NEW T \in SUBSET Nat, IsFiniteSet(T), NEW i \in T, NEW j \in T, i < j
  PROVE  Rank(T, i) < Rank(T, j)
<1> DEFINE L == {m \in T : m < i}
           M == {m \in T : m < j}
<1>1. L \in SUBSET M /\ M \in SUBSET T /\ i \in M /\ ~(i \in L)
  <2>1. \A m \in Nat : m < i => m < j
    OBVIOUS
  <2>2. L \in SUBSET M
    BY <2>1
  <2>3. QED
    BY <2>2
<1> HIDE DEF L, M
<1>2. IsFiniteSet(M)
  BY <1>1, FS_Subset
<1>3. IsFiniteSet(L) /\ Cardinality(L) <= Cardinality(M)
      /\ (Cardinality(M) = Cardinality(L) => M = L)
  BY <1>1, <1>2, FS_Subset
<1>4. Cardinality(L) \in Nat /\ Cardinality(M) \in Nat
  BY <1>2, <1>3, FS_CardinalityType
<1>5. Cardinality(L) < Cardinality(M)
  BY <1>1, <1>3, <1>4
<1>6. QED
  BY <1>5 DEF Rank, L, M

LEMMA RankReaches ==
  ASSUME NEW T \in SUBSET Nat, IsFiniteSet(T), NEW k \in 0..(Cardinality(T) - 1)
  PROVE  \E i \in T : Rank(T, i) = k
<1> DEFINE S == 0..(Cardinality(T) - 1)
           f == [i \in T |-> Rank(T, i)]
<1>1. Cardinality(T) \in Nat
  BY FS_CardinalityType
<1>2. IsFiniteSet(S) /\ Cardinality(S) = Cardinality(T)
  <2>1. 0 \in Int /\ Cardinality(T) - 1 \in Int
    BY <1>1
  <2>2. Cardinality(T) > 0
    BY <1>1
  <2>3. QED
    BY <1>1, <2>1, <2>2, FS_Interval
<1>3. f \in [T -> S]
  BY RankIs
<1>4. \A i, j \in T : f[i] = f[j] => i = j
  <2>1. SUFFICES ASSUME NEW i \in T, NEW j \in T, i # j PROVE f[i] # f[j]
    OBVIOUS
  <2>2. Rank(T, i) \in Int /\ Rank(T, j) \in Int /\ i \in Nat /\ j \in Nat
    BY <1>1, RankIs
  <2>3. CASE i < j
    BY <2>2, <2>3, RankGrows
  <2>4. CASE j < i
    BY <2>2, <2>4, RankGrows
  <2>5. QED
    BY <2>1, <2>2, <2>3, <2>4
<1>5. f \in Injection(T, S)
  BY <1>3, <1>4 DEF Injection, IsInjective
<1>6. f \in Surjection(T, S)
  <2> HIDE DEF f, S
  <2>1. QED
    BY <1>2, <1>5, FS_Injection
<1>7. PICK i \in T : f[i] = k
  BY <1>6 DEF Surjection
<1>8. QED
  BY <1>7

(***************************************************************************)
(* What the last tile command asked for.  It is about a desktop that       *)
(* exists, with a number of windows that is neither less than what it      *)
(* places nor more than all windows: then the list is one that has room.   *)
(***************************************************************************)
AskedAsCounted ==
  orderly => \/ asked = NothingAsked
             \/ \E d \in 0..(ndesktops - 1), east \in BOOLEAN :
                  /\ Cardinality(Tiled(windows, d)) <= base
                  /\ base <= Len(windows)
                  /\ asked = TileAwesomeFair(d, base, east)

CountsFit == fresh => \A d \in 1..ndesktops : nnormal[d] <= Len(windows)
KnownList == \E list \in Lists : Len(list) = Len(windows)

AskedInv == AskedAsCounted /\ CountsFit /\ KnownList

(* No more windows are counted than there are.                             *)
LEMMA CountsFew ==
  ASSUME NEW ws \in Seq(Window), NEW n \in Nat
  PROVE  \A d \in 1..n : Counts(ws, n)[d] <= Len(ws)
<1> SUFFICES ASSUME NEW d \in 1..n PROVE Counts(ws, n)[d] <= Len(ws)
  OBVIOUS
<1>1. DOMAIN ws = 1..Len(ws) /\ Len(ws) \in Nat
  OBVIOUS
<1>2. IsFiniteSet(DOMAIN ws) /\ Cardinality(DOMAIN ws) = Len(ws)
  BY <1>1, FS_Interval
<1>3. Counted(ws, d - 1) \in SUBSET (DOMAIN ws)
  BY DEF Counted
<1>4. Cardinality(Counted(ws, d - 1)) <= Len(ws)
  BY <1>2, <1>3, FS_Subset
<1>5. QED
  BY <1>4 DEF Counts

(* The end of an event: nothing is asked for any more, and the counts are  *)
(* kept or taken anew.                                                     *)
LEMMA DrawFits ==
  ASSUME WindowTypes', NEW ok \in BOOLEAN, Draw(ok)
  PROVE  CountsFit'
<1> SUFFICES ASSUME fresh' PROVE \A d \in 1..ndesktops' : nnormal'[d] <= Len(windows')
  BY DEF CountsFit
<1>1. windows' \in Seq(Window) /\ ndesktops' \in Nat
  BY TilingAssumption DEF WindowTypes
<1>2. nnormal' = Counts(windows', ndesktops')
  BY DEF Draw
<1>3. QED
  BY <1>1, <1>2, CountsFew

LEMMA DrawnAsked ==
  ASSUME TilingInv, AskedInv, WindowTypes', NEW set \in BOOLEAN, NEW ok \in BOOLEAN,
         Drawn(set, ok), KnownList',
         ~set => ndesktops' = ndesktops /\ Len(windows') = Len(windows)
  PROVE  AskedInv'
<1>1. AskedAsCounted'
  BY DEF Drawn, AskedAsCounted, NothingAsked
<1>2. CASE Draw(ok)
  BY <1>1, <1>2, DrawFits DEF AskedInv
<1>3. CASE ~set /\ UNCHANGED drawing
  <2>1. CountsFit'
    BY <1>3 DEF AskedInv, CountsFit
  <2>2. QED
    BY <1>1, <2>1 DEF AskedInv
<1>4. QED
  BY <1>2, <1>3 DEF Drawn

(* A tile command takes the number of windows of a desktop that exists,    *)
(* or it is not orderly.                                                   *)
LEMMA TileAsked ==
  ASSUME TilingInv, AskedInv, running, NEW d \in Nat, Tile(d),
         UNCHANGED <<windows, ndesktops, workareas>>, NoDivisionByZero'
  PROVE  AskedAsCounted'
<1> DEFINE m == IF mode = 2 THEN 0 ELSE mode
<1> SUFFICES ASSUME orderly'
             PROVE  \E e \in 0..(ndesktops' - 1), east \in BOOLEAN :
                      /\ Cardinality(Tiled(windows', e)) <= base'
                      /\ base' <= Len(windows')
                      /\ asked' = TileAwesomeFair(e, base, east)'
  BY Zenon DEF AskedAsCounted
<1>1. ndesktops \in Nat \ {0} /\ nnormal \in [1..ndesktops -> Nat]
  BY TilingAssumption DEF TilingInv, TypeOK
<1>2. PICK n : n = ArrayGet(nnormal, d)
  OBVIOUS
<1>3. orderly' = (fresh /\ d < ndesktops) /\ base' = n
  BY <1>2 DEF Tile
<1>4. fresh /\ d < ndesktops
  BY <1>3, Zenon
<1>5. d \in 0..(ndesktops - 1) /\ d + 1 \in 1..ndesktops
  BY <1>1, <1>4
<1>6. n = nnormal[d + 1]
  BY <1>1, <1>2, <1>5 DEF ArrayGet
<1>7. running'
  BY DEF NoDivisionByZero
<1>8. asked' = TileAwesomeFair(d, n, m = 0)
  BY <1>2, <1>7 DEF Tile
<1> HIDE DEF m
<1>9. (m = 0) \in BOOLEAN
  OBVIOUS
<1>10. PICK east \in BOOLEAN : asked' = TileAwesomeFair(d, n, east)
  BY <1>8, <1>9
<1>11. TileAwesomeFair(d, base, east)' = TileAwesomeFair(d, n, east)
  BY <1>3 DEF TileAwesomeFair
<1>12. Cardinality(Tiled(windows', d)) <= base'
  BY <1>3, <1>4, <1>5, <1>6 DEF TilingInv, CountsCover
<1>13. base' <= Len(windows')
  BY <1>3, <1>4, <1>5, <1>6 DEF AskedInv, CountsFit
<1>14. d \in 0..(ndesktops' - 1)
  BY <1>5
<1>15. QED
  BY <1>9, <1>10, <1>11, <1>12, <1>13, <1>14

LEMMA InitAsked ==
  ASSUME Init
  PROVE  AskedInv
<1>1. AskedAsCounted
  BY DEF Init, AskedAsCounted
<1>2. CountsFit
  BY TilingAssumption, CountsFew DEF Init, CountsFit
<1>3. KnownList
  BY DEF Init, KnownList
<1>4. QED
  BY <1>1, <1>2, <1>3 DEF AskedInv

(* Every step keeps it.                                                    *)
LEMMA NextAsked ==
  ASSUME TilingInv, TilingInv', AskedInv, [Next]_vars
  PROVE  AskedInv'
<1> USE DEF TilingInv
<1>1. WindowTypes' /\ DrawingTypes'
  BY DEF TypeOK, WindowTypes, DrawingTypes
<1>2. NoDivisionByZero'
  OBVIOUS
<1>3. Len(windows') = Len(windows) => KnownList'
  BY DEF AskedInv, KnownList
<1>4. CASE TileCommand
  <2>1. running /\ current \in Nat /\ Tile(current)
        /\ UNCHANGED <<windows, ndesktops, workareas, nnormal, fresh>>
    BY <1>4, TilingAssumption DEF TypeOK, TileCommand
  <2>2. AskedAsCounted'
    BY <1>2, <2>1, TileAsked
  <2>3. CountsFit'
    BY <2>1 DEF AskedInv, CountsFit
  <2>4. QED
    BY <1>3, <2>1, <2>2, <2>3 DEF AskedInv
<1>5. ASSUME NEW ok \in BOOLEAN, NEW d \in Desktop, TileClick(d, ok)
      PROVE  AskedInv'
  <2>1. running /\ d \in Nat /\ Tile(d)
        /\ UNCHANGED <<windows, ndesktops, workareas>>
    BY <1>5 DEF TileClick
  <2>2. AskedAsCounted'
    BY <1>2, <2>1, TileAsked
  <2>3. CountsFit'
    <3>1. CASE Draw(ok)
      BY <1>1, <3>1, DrawFits
    <3>2. CASE UNCHANGED drawing
      BY <2>1, <3>2 DEF AskedInv, CountsFit
    <3>3. QED
      BY <1>5, <3>1, <3>2 DEF TileClick
  <2>4. QED
    BY <1>3, <2>1, <2>2, <2>3 DEF AskedInv
<1>6. ASSUME NEW ok \in BOOLEAN, NEW list \in Lists, ClientList(list, ok)
      PROVE  AskedInv'
  <2>1. windows' = list /\ Drawn(TRUE, ok)
    BY <1>6 DEF ClientList
  <2>2. KnownList'
    BY <2>1 DEF KnownList
  <2>3. QED
    BY <1>1, <2>1, <2>2, DrawnAsked
<1>7. ASSUME NEW ok \in BOOLEAN, NEW i \in 1..MaxVaried,
             \/ \E state \in States : WmState(i, state, ok)
             \/ \E dock \in BOOLEAN : WmWindowType(i, dock, ok)
             \/ \E d \in Desktop : WmDesktop(i, d, ok)
             \/ Destroy(i, ok)
      PROVE  AskedInv'
  <2>1. windows \in Seq(Window)
    BY DEF TypeOK
  <2>2. Len(windows') = Len(windows) /\ ndesktops' = ndesktops
    <3>1. ASSUME NEW new PROVE Len([windows EXCEPT ![i] = new]) = Len(windows)
      BY <2>1
    <3>2. CASE \E state \in States : WmState(i, state, ok)
      BY <3>1, <3>2 DEF WmState
    <3>3. CASE \E dock \in BOOLEAN : WmWindowType(i, dock, ok)
      BY <3>1, <3>3 DEF WmWindowType
    <3>4. CASE \E d \in Desktop : WmDesktop(i, d, ok)
      BY <3>1, <3>4 DEF WmDesktop
    <3>5. CASE Destroy(i, ok)
      <4>1. windows' = [windows EXCEPT ![i] =
                          [[windows[i] EXCEPT !.dead = TRUE] EXCEPT !.desktop = 0]]
            /\ ndesktops' = ndesktops
        BY <3>5 DEF Destroy
      <4>2. QED
        BY <3>1, <4>1
    <3>6. QED
      BY <1>7, <3>2, <3>3, <3>4, <3>5
  <2>3. PICK set \in BOOLEAN : Drawn(set, ok)
    <3>1. CASE \E d \in Desktop : WmDesktop(i, d, ok)
      <4>1. windows[i] \in Window
        BY <2>1, <3>1 DEF WmDesktop, Varied
      <4>2. windows[i].dead \in BOOLEAN
        BY <4>1 DEF Window
      <4>3. CASE windows[i].dead
        BY <3>1, <4>3 DEF WmDesktop
      <4>4. QED
        BY <3>1, <4>2, <4>3 DEF WmDesktop
    <3>2. QED
      BY <1>7, <3>1 DEF WmState, WmWindowType, Destroy
  <2>4. QED
    BY <1>1, <1>3, <2>2, <2>3, DrawnAsked
<1>8. ASSUME NEW ok \in BOOLEAN, NEW n \in 1..MaxDesktops, NEW property \in BOOLEAN,
             NumberOfDesktops(n, property, ok)
      PROVE  AskedInv'
  <2>1. windows' = windows /\ ndesktops' = n
    BY <1>8 DEF NumberOfDesktops
  <2>2. KnownList'
    BY <1>3, <2>1
  <2>3. CASE n = ndesktops
    <3>1. Drawn(FALSE, ok)
      BY <1>8, <2>3 DEF NumberOfDesktops
    <3>2. QED
      BY <1>1, <2>1, <2>2, <2>3, <3>1, DrawnAsked
  <2>4. CASE n # ndesktops
    <3>1. Drawn(TRUE, ok)
      BY <1>8, <2>4 DEF NumberOfDesktops
    <3>2. QED
      BY <1>1, <2>2, <3>1, DrawnAsked
  <2>5. QED
    BY <2>3, <2>4
<1>9. ASSUME NEW ok \in BOOLEAN, NEW d \in Desktop, CurrentDesktop(d, ok)
      PROVE  AskedInv'
  <2>1. windows' = windows /\ Drawn(TRUE, ok)
    BY <1>9 DEF CurrentDesktop
  <2>2. KnownList'
    BY <1>3, <2>1
  <2>3. QED
    BY <1>1, <2>1, <2>2, DrawnAsked
<1>10. CASE UNCHANGED vars
  <2>1. AskedAsCounted'
    BY <1>10 DEF AskedInv, AskedAsCounted, TileAwesomeFair
  <2>2. QED
    BY <1>3, <1>10, <2>1 DEF AskedInv, CountsFit
<1>11. QED
  BY <1>4, <1>5, <1>6, <1>7, <1>8, <1>9, <1>10 DEF Next

(***************************************************************************)
(* What is asked for one window.                                           *)
(***************************************************************************)
Asking(d, east) ==
  /\ d \in 0..(ndesktops - 1) /\ east \in BOOLEAN
  /\ Cardinality(Tiled(windows, d)) <= base
  /\ base <= Len(windows)
  /\ asked = TileAwesomeFair(d, base, east)

(* The windows that are placed are finitely many numbers.                  *)
LEMMA TiledFinite ==
  ASSUME NEW ws \in Seq(Window), NEW d
  PROVE  /\ Tiled(ws, d) \in SUBSET Nat /\ IsFiniteSet(Tiled(ws, d))
         /\ Cardinality(Tiled(ws, d)) \in Nat
<1>1. DOMAIN ws = 1..Len(ws) /\ Len(ws) \in Nat
  OBVIOUS
<1>2. Tiled(ws, d) \in SUBSET Nat
  BY <1>1 DEF Tiled
<1>3. QED
  BY <1>2, TiledCounted

(* There is room for a window's frame in the area of its desktop.          *)
LEMMA AskedIs ==
  ASSUME TypeOK, KnownList, NEW d, NEW east, Asking(d, east), NEW i \in Placed
  PROVE  LET k == Rank(Tiled(windows, d), i)
             f == windows[i].frame
         IN  /\ base \in Nat \ {0} /\ k \in 0..(base - 1)
             /\ i \in Tiled(windows, d)
             /\ AreaOf(i) = ArrayGet(workareas, d) /\ AreaOf(i) \in AreaRect
             /\ f \in FrameRect
             /\ RoomFor(base, AreaOf(i), Around(f))
             /\ asked[i] = CenterResize(Place(k, base, AreaOf(i), f, east), f)
<1> DEFINE T == Tiled(windows, d)
<1>1. windows \in Seq(Window) /\ base \in Nat
  BY DEF TypeOK
<1>2. T \in SUBSET Nat /\ IsFiniteSet(T) /\ Cardinality(T) \in Nat
  BY <1>1, TiledFinite
<1>3. asked = TileAwesomeFair(d, base, east)
  BY DEF Asking
<1>4. i \in T
  BY <1>3 DEF Placed, TileAwesomeFair
<1>5. Rank(T, i) \in 0..(Cardinality(T) - 1)
  <2> HIDE DEF T
  <2>1. QED
    BY <1>2, <1>4, RankIs
<1>6. base \in Nat \ {0} /\ Rank(T, i) \in 0..(base - 1)
  BY <1>1, <1>2, <1>5 DEF Asking
<1>7. windows[i] \in Window /\ windows[i].desktop = d
  BY <1>1, <1>4 DEF Tiled
<1>8. AreaOf(i) = ArrayGet(workareas, d) /\ AreaOf(i) \in Area
  <2>1. workareas \in Seq(Area) /\ workareas # <<>>
    BY DEF TypeOK
  <2>2. AreaOf(i) = ArrayGet(workareas, d)
    BY <1>7 DEF AreaOf
  <2>3. ArrayGet(workareas, d) \in Area
    BY <2>1 DEF ArrayGet
  <2>4. QED
    BY <2>2, <2>3
<1>9. windows[i].frame \in Frame
  BY <1>7 DEF Window
<1>10. AreaOf(i) \in AreaRect /\ windows[i].frame \in FrameRect
  BY <1>8, <1>9, TilingAssumption DEF AreaRect, FrameRect
<1>11. RoomFor(base, AreaOf(i), Around(windows[i].frame))
  <2>1. PICK list \in Lists : Len(list) = Len(windows)
    BY DEF KnownList
  <2>2. base \in 1..Len(list)
    BY <1>1, <1>6, <2>1 DEF Asking
  <2>3. QED
    BY <1>8, <1>9, <2>1, <2>2, RoomAssumption DEF RoomFor
<1>12. asked[i] = CenterResize(Place(Rank(T, i), base, AreaOf(i),
                                     windows[i].frame, east), windows[i].frame)
  BY <1>3, <1>4, <1>8 DEF TileAwesomeFair, Rank
<1>13. QED
  BY <1>4, <1>6, <1>8, <1>10, <1>11, <1>12

(* A window with its frame fills its place.                                *)
LEMMA OuterIs ==
  ASSUME TypeOK, KnownList, NEW d, NEW east, Asking(d, east), NEW i \in Placed
  PROVE  /\ Outer(i) = Place(Rank(Tiled(windows, d), i), base, AreaOf(i),
                             windows[i].frame, east)
         /\ asked[i].w > 0 /\ asked[i].h > 0
<1>1. PICK k, f, area :
        /\ k = Rank(Tiled(windows, d), i) /\ f = windows[i].frame
        /\ area = AreaOf(i)
  OBVIOUS
<1>2. /\ base \in Nat \ {0} /\ k \in 0..(base - 1)
      /\ area \in AreaRect /\ f \in FrameRect /\ RoomFor(base, area, Around(f))
      /\ asked[i] = CenterResize(Place(k, base, area, f, east), f)
  BY <1>1, AskedIs
<1>3. PICK fx \in Nat, fy \in Nat, fw \in Nat, fh \in Nat :
        f = [x |-> fx, y |-> fy, w |-> fw, h |-> fh]
  BY <1>2 DEF FrameRect
<1>4. /\ Place(k, base, area, f, east) \in [x : Int, y : Int, w : Int, h : Int]
      /\ Place(k, base, area, f, east).w > fx + fw
      /\ Place(k, base, area, f, east).h > fy + fh
  BY <1>2, <1>3, PlaceInSlot DEF Asking
<1>5. PICK px \in Int, py \in Int, pw \in Int, ph \in Int :
        /\ Place(k, base, area, f, east) = [x |-> px, y |-> py, w |-> pw, h |-> ph]
        /\ pw > fx + fw /\ ph > fy + fh
  BY <1>4
<1>6. asked[i] = [x |-> px + fx, y |-> py + fy,
                  w |-> pw - (fx + fw), h |-> ph - (fy + fh)]
  BY <1>2, <1>3, <1>5 DEF CenterResize
<1>7. Outer(i) = [x |-> (px + fx) - fx, y |-> (py + fy) - fy,
                  w |-> (pw - (fx + fw)) + fx + fw,
                  h |-> (ph - (fy + fh)) + fy + fh]
  BY <1>1, <1>3, <1>6 DEF Outer
<1>8. Outer(i) = [x |-> px, y |-> py, w |-> pw, h |-> ph]
  <2>1. /\ (px + fx) - fx = px /\ (py + fy) - fy = py
        /\ (pw - (fx + fw)) + fx + fw = pw /\ (ph - (fy + fh)) + fy + fh = ph
    OBVIOUS
  <2>2. QED
    BY <1>7, <2>1
<1>9. QED
  BY <1>1, <1>5, <1>6, <1>8

(* What is inside is inside whatever is around it, and apart from what is  *)
(* apart from that.                                                        *)
LEMMA InsideIs ==
  ASSUME NEW r \in [x : Int, y : Int, w : Int, h : Int],
         NEW s \in AreaRect, NEW t \in AreaRect, Inside(r, s)
  PROVE  /\ Inside(s, t) => Inside(r, t)
         /\ \A q \in [x : Int, y : Int, w : Int, h : Int] :
              Inside(q, t) /\ Apart(s, t) => Apart(r, q)
<1>1. /\ s.x \in Int /\ s.y \in Int /\ s.w \in Int /\ s.h \in Int
      /\ t.x \in Int /\ t.y \in Int /\ t.w \in Int /\ t.h \in Int
  BY DEF AreaRect
<1>2. r.x \in Int /\ r.y \in Int /\ r.w \in Int /\ r.h \in Int
  OBVIOUS
<1>3. Inside(s, t) => Inside(r, t)
  BY <1>1, <1>2 DEF Inside
<1>4. ASSUME NEW q \in [x : Int, y : Int, w : Int, h : Int],
             Inside(q, t), Apart(s, t)
      PROVE  Apart(r, q)
  <2>1. q.x \in Int /\ q.y \in Int /\ q.w \in Int /\ q.h \in Int
    OBVIOUS
  <2>2. QED
    BY <1>1, <1>2, <1>4, <2>1 DEF Inside, Apart
<1>5. QED
  BY <1>3, <1>4

(* No two windows that are placed overlap, and none leaves its area.       *)
LEMMA AskedApart ==
  ASSUME TypeOK, AskedInv
  PROVE  TiledApart
<1> SUFFICES ASSUME orderly, NEW i \in Placed, NEW j \in Placed
             PROVE  /\ asked[i].w > 0 /\ asked[i].h > 0
                    /\ Inside(Outer(i), AreaOf(i))
                    /\ i # j => Apart(Outer(i), Outer(j))
  BY DEF TiledApart
<1>1. KnownList
  BY DEF AskedInv
<1>2. PICK d, east : Asking(d, east)
  <2>1. asked # NothingAsked
    BY DEF Placed, NothingAsked
  <2>2. QED
    BY <2>1 DEF AskedInv, AskedAsCounted, Asking
<1> DEFINE T == Tiled(windows, d)
<1>3. east \in BOOLEAN
  BY <1>2 DEF Asking
<1>4. PICK n, area : n = base /\ area = ArrayGet(workareas, d)
  OBVIOUS
<1>5. ASSUME NEW m \in Placed
      PROVE  /\ n \in Nat \ {0} /\ Rank(T, m) \in 0..(n - 1) /\ m \in T
             /\ area = AreaOf(m) /\ area \in AreaRect
             /\ RoomFor(n, area, Around(windows[m].frame))
             /\ Around(windows[m].frame) \in Nat
             /\ Outer(m) \in [x : Int, y : Int, w : Int, h : Int]
             /\ Inside(Outer(m), Slot(Rank(T, m), n, area, east))
             /\ Slot(Rank(T, m), n, area, east) \in AreaRect
             /\ Inside(Slot(Rank(T, m), n, area, east), area)
  <2>1. PICK k, f : k = Rank(T, m) /\ f = windows[m].frame
    OBVIOUS
  <2>2. /\ n \in Nat \ {0} /\ k \in 0..(n - 1) /\ m \in T
        /\ area = AreaOf(m) /\ area \in AreaRect
        /\ f \in FrameRect /\ RoomFor(n, area, Around(f))
    BY <1>1, <1>2, <1>4, <2>1, AskedIs
  <2>3. Outer(m) = Place(k, n, area, f, east)
    BY <1>1, <1>2, <1>4, <2>1, <2>2, OuterIs
  <2>4. /\ Place(k, n, area, f, east) \in [x : Int, y : Int, w : Int, h : Int]
        /\ Inside(Place(k, n, area, f, east), Slot(k, n, area, east))
    BY <1>3, <2>2, PlaceInSlot
  <2>5. Around(f) \in Nat
    BY <2>2 DEF FrameRect, Around
  <2>6. /\ Slot(k, n, area, east) \in AreaRect
        /\ Inside(Slot(k, n, area, east), area)
    BY <1>3, <2>2, <2>5, SlotIs
  <2> HIDE DEF T
  <2>7. QED
    BY <2>1, <2>2, <2>3, <2>4, <2>5, <2>6
<1>6. asked[i].w > 0 /\ asked[i].h > 0
  BY <1>1, <1>2, OuterIs
<1> HIDE DEF T
<1>7. Inside(Outer(i), AreaOf(i))
  BY <1>5, InsideIs
<1>8. ASSUME i # j PROVE Apart(Outer(i), Outer(j))
  <2>1. PICK r, s : r = Slot(Rank(T, i), n, area, east)
                    /\ s = Slot(Rank(T, j), n, area, east)
    OBVIOUS
  <2>2. Rank(T, i) # Rank(T, j)
    <3>1. T \in SUBSET Nat /\ IsFiniteSet(T)
      BY TiledFinite DEF TypeOK, T
    <3>2. i \in T /\ j \in T /\ i \in Nat /\ j \in Nat
      BY <1>5, <3>1
    <3>3. Rank(T, i) \in Int /\ Rank(T, j) \in Int
      BY <1>5
    <3>4. CASE i < j
      BY <3>1, <3>2, <3>3, <3>4, RankGrows
    <3>5. CASE j < i
      BY <3>1, <3>2, <3>3, <3>5, RankGrows
    <3>6. QED
      BY <1>8, <3>2, <3>4, <3>5
  <2>3. Apart(r, s)
    BY <1>3, <1>5, <2>1, <2>2, SlotsApart
  <2>4. /\ Outer(i) \in [x : Int, y : Int, w : Int, h : Int] /\ Inside(Outer(i), r)
        /\ Outer(j) \in [x : Int, y : Int, w : Int, h : Int] /\ Inside(Outer(j), s)
        /\ r \in AreaRect /\ s \in AreaRect
    BY <1>5, <2>1
  <2>5. QED
    BY <2>3, <2>4, InsideIs
<1>9. QED
  BY <1>6, <1>7, <1>8

(* Windows without frames leave no point of the area uncovered, when all   *)
(* that were counted are placed.                                           *)
LEMMA AskedFills ==
  ASSUME TypeOK, AskedInv
  PROVE  TiledFills
<1> SUFFICES ASSUME orderly, Placed # {}, Cardinality(Placed) = base,
                    \A j \in Placed : windows[j].frame = Bare,
                    NEW i \in Placed,
                    NEW x \in AreaOf(i).x..(AreaOf(i).x + AreaOf(i).w - 1),
                    NEW y \in AreaOf(i).y..(AreaOf(i).y + AreaOf(i).h - 1)
             PROVE  \E j \in Placed :
                      /\ asked[j].x <= x /\ x < asked[j].x + asked[j].w
                      /\ asked[j].y <= y /\ y < asked[j].y + asked[j].h
  BY DEF TiledFills
<1>1. KnownList
  BY DEF AskedInv
<1>2. PICK d, east : Asking(d, east)
  <2>1. asked # NothingAsked
    BY DEF Placed, NothingAsked
  <2>2. QED
    BY <2>1 DEF AskedInv, AskedAsCounted, Asking
<1> DEFINE T == Tiled(windows, d)
<1>3. east \in BOOLEAN
  BY <1>2 DEF Asking
<1>4. PICK n, area : n = base /\ area = AreaOf(i)
  OBVIOUS
<1>5. area = ArrayGet(workareas, d) /\ area \in AreaRect
  BY <1>1, <1>2, <1>4, AskedIs
<1>6. Placed = T
  BY <1>2 DEF Asking, Placed, TileAwesomeFair
<1>7. /\ n \in Nat \ {0} /\ RoomFor(n, area, 0)
  <2>1. Around(Bare) = 0
    BY DEF Around, Bare
  <2>2. QED
    BY <1>1, <1>2, <1>4, <2>1, AskedIs
<1>8. PICK k \in 0..(n - 1) :
        LET slot == Slot(k, n, area, east)
        IN  /\ slot.x <= x /\ x < slot.x + slot.w
            /\ slot.y <= y /\ y < slot.y + slot.h
  <2>1. /\ x \in area.x..(area.x + area.w - 1)
        /\ y \in area.y..(area.y + area.h - 1)
    BY <1>4
  <2>2. 0 \in Nat
    OBVIOUS
  <2>3. QED
    BY <1>3, <1>5, <1>7, <2>1, <2>2, SlotsCover
<1>9. PICK j \in T : Rank(T, j) = k
  <2>1. T \in SUBSET Nat /\ IsFiniteSet(T)
    BY TiledFinite DEF TypeOK
  <2>2. k \in 0..(Cardinality(T) - 1)
    BY <1>4, <1>6
  <2> HIDE DEF T
  <2>3. QED
    BY <2>1, <2>2, RankReaches
<1>10. j \in Placed /\ windows[j].frame = Bare /\ AreaOf(j) = area
  <2>1. j \in Placed
    BY <1>6, <1>9
  <2>2. AreaOf(j) = ArrayGet(workareas, d)
    BY <1>1, <1>2, <2>1, AskedIs
  <2>3. QED
    BY <1>5, <2>1, <2>2
<1>11. asked[j] = CenterResize(Place(k, n, area, Bare, east), Bare)
  BY <1>1, <1>2, <1>4, <1>9, <1>10, AskedIs
<1>12. PICK s \in AreaRect : s = Slot(k, n, area, east)
  <2>1. 0 \in Nat
    OBVIOUS
  <2>2. QED
    BY <1>3, <1>5, <1>7, <2>1, SlotIs
<1>13. PICK sx \in Int, sy \in Int, sw \in Nat, sh \in Nat :
         s = [x |-> sx, y |-> sy, w |-> sw, h |-> sh]
  BY <1>12 DEF AreaRect
<1>14. asked[j] = s
  <2>1. /\ Bare.x = 0 /\ Bare.y = 0 /\ Bare.w = 0 /\ Bare.h = 0
        /\ Bare.w * 2 = 0 /\ Bare.h * 2 = 0
    BY DEF Bare
  <2>2. Place(k, n, area, Bare, east) =
          [x |-> sx, y |-> sy, w |-> sw - 0, h |-> sh - 0]
    <3>1. PICK a \in {Bare.w * 2, Bare.h * 2}, b \in {Bare.w * 2, Bare.h * 2} :
            Place(k, n, area, Bare, east) =
              [x |-> s.x, y |-> s.y, w |-> s.w - a, h |-> s.h - b]
      BY <1>3, <1>12, PlaceIs
    <3>2. a = 0 /\ b = 0
      BY <2>1
    <3>3. s.x = sx /\ s.y = sy /\ s.w = sw /\ s.h = sh
      BY <1>13
    <3>4. QED
      BY <3>1, <3>2, <3>3
  <2>3. asked[j] = [x |-> sx + 0, y |-> sy + 0,
                    w |-> (sw - 0) - (0 + 0), h |-> (sh - 0) - (0 + 0)]
    BY <1>11, <2>1, <2>2 DEF CenterResize
  <2>4. sx + 0 = sx /\ sy + 0 = sy
        /\ (sw - 0) - (0 + 0) = sw /\ (sh - 0) - (0 + 0) = sh
    OBVIOUS
  <2>5. QED
    BY <1>13, <2>3, <2>4
<1>15. QED
  BY <1>8, <1>10, <1>12, <1>14

(***************************************************************************)
(* The theorems about what is asked for.                                   *)
(***************************************************************************)

(* The invariant that says what the last tile command asked for.           *)
THEOREM AskedInvariant == Spec => [](TilingInv /\ AskedInv)
<1>1. Init => TilingInv /\ AskedInv
  BY InitTiling, InitAsked
<1>2. TilingInv /\ AskedInv /\ [Next]_vars => (TilingInv /\ AskedInv)'
  BY NextTiling, NextAsked
<1>3. QED
  BY <1>1, <1>2, PTL DEF Spec

(* The places rie_windows_tile_awesome_fair() computes for windows with    *)
(* their frames are inside the workarea of the desktop, have a size and do *)
(* not overlap, for any number of windows, counted or placed, any frames   *)
(* and any area that has room for them.                                    *)
THEOREM TiledWindowsApart == Spec => []TiledApart
<1>1. TilingInv /\ AskedInv => TiledApart
  BY AskedApart DEF TilingInv
<1>2. QED
  BY <1>1, AskedInvariant, PTL

(* When all windows that were counted are placed and none has a frame,     *)
(* they cover every point of the workarea, the pixels that the divisions   *)
(* of rie_windows_tile_awesome_fair() leave over included.                 *)
THEOREM TiledWindowsFill == Spec => []TiledFills
<1>1. TilingInv /\ AskedInv => TiledFills
  BY AskedFills DEF TilingInv
<1>2. QED
  BY <1>1, AskedInvariant, PTL
===============================================================================
