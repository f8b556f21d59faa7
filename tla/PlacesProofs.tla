----------------------------- MODULE PlacesProofs -----------------------------
(***************************************************************************)
(* Proofs about Places, for any windows, sizes and places and any number   *)
(* of changes and reloads: the size of the pager's window is never left    *)
(* behind by the area it is computed from, what rieman knows of the screen *)
(* follows the window manager, and windows are known to be where they are. *)
(***************************************************************************)
EXTENDS Places, SequenceTheorems, FiniteSetTheorems, TLAPS

(* The definitions that only group variables.                              *)
USE DEF vars, props, screen, clients, server, counters, known, pager

(* While rie_event_init() runs the size may be old: its last step computes *)
(* it again.                                                               *)
SizedInv == todo \in Nat /\ PagerSized

(* The size, when nothing it is computed from changes.                     *)
LEMMA SameArea ==
  ASSUME SizedInv, UNCHANGED <<todo, subset, geom, monitor, sized>>
  PROVE  SizedInv'
  BY DEF SizedInv, PagerSized, Area

(* The size, when the handler has set pager->resize.                       *)
LEMMA Resized ==
  ASSUME todo' \in Nat, UNCHANGED subset, Resize
  PROVE  SizedInv'
  BY DEF SizedInv, PagerSized, Area, Resize

(* Windows are not what the size is computed from.                         *)
LEMMA OtherHandlers ==
  ASSUME NEW w,
         \/ Workarea \/ Viewport \/ VirtualRoots \/ DesktopNames \/ ClientList
         \/ Configure(w) \/ WmDesktop(w) \/ Destroyed(w)
  PROVE  UNCHANGED <<geom, monitor, sized>>
  BY DEF Workarea, Viewport, VirtualRoots, DesktopNames, ClientList,
         Configure, WmDesktop, Destroyed

(* Nothing is changed, or pager->resize is set.                            *)
LEMMA OutputHandler ==
  ASSUME Randr
  PROVE  UNCHANGED <<geom, monitor, sized>> \/ Resize
  BY DEF Randr

LEMMA ServerSized ==
  ASSUME SizedInv, Server
  PROVE  SizedInv'
<1>1. UNCHANGED <<todo, pager>>
  BY DEF Server, SetGeometry, SetOutput, ResizeRoot, SetAreas, SetRoots,
         SetNames, SetViews, BeginScroll, ScrollSet, Unlist, ScrollWindow,
         Destroy, Move, Send
<1>2. QED
  BY <1>1, SameArea

(* The first handlers leave a step of rie_event_init() to be made, and the *)
(* last one computes the size.                                             *)
LEMMA InitialiseSized ==
  ASSUME SizedInv, Initialise
  PROVE  SizedInv'
<1>1. todo \in Nat /\ todo' \in Nat /\ UNCHANGED subset
  BY DEF SizedInv, Initialise
<1>2. CASE todo = 1
  <2>1. Resize
    BY <1>2 DEF Initialise
  <2>2. QED
    BY <1>1, <2>1, Resized
<1>3. CASE todo # 1
  BY <1>1, <1>3 DEF Initialise, SizedInv, PagerSized
<1>4. QED
  BY <1>2, <1>3

LEMMA HandleSized ==
  ASSUME SizedInv, Handle
  PROVE  SizedInv'
<1>1. todo' = todo /\ todo \in Nat /\ UNCHANGED subset
  BY DEF SizedInv, Handle
<1>2. PICK w : \/ DesktopGeometry(Measured) \/ UNCHANGED <<known, sized>>
               \/ Workarea \/ Viewport \/ VirtualRoots \/ DesktopNames
               \/ ClientList \/ Randr
               \/ Configure(w) \/ WmDesktop(w) \/ Destroyed(w)
  BY DEF Handle
<1>3. CASE DesktopGeometry(Measured)
  BY <1>1, <1>3, Resized DEF DesktopGeometry
<1>4. CASE Randr
  BY <1>1, <1>4, OutputHandler, SameArea, Resized
<1>5. CASE ~DesktopGeometry(Measured) /\ ~Randr
  <2>1. UNCHANGED <<geom, monitor, sized>>
    BY <1>2, <1>5, OtherHandlers
  <2>2. QED
    BY <1>1, <2>1, SameArea
<1>6. QED
  BY <1>3, <1>4, <1>5

(* A reload makes a pager without a size and computes one.                 *)
LEMMA ReloadSized ==
  ASSUME Reload
  PROVE  SizedInv'
  BY DEF Reload, InitHandlers, SizedInv, PagerSized

(* The drawing at the end of rie_event_init() and of every handler that    *)
(* sets pager->resize keeps the size of the pager's window in step with    *)
(* the screen, whatever was read in between.                               *)
THEOREM SizeFollowsScreen == Spec => []PagerSized
<1>1. Init => SizedInv
  BY DEF Init, InitHandlers, SizedInv, PagerSized
<1>2. SizedInv /\ [Next]_vars => SizedInv'
  <2> SUFFICES ASSUME SizedInv, [Next]_vars PROVE SizedInv'
    OBVIOUS
  <2>1. CASE UNCHANGED vars
    BY <2>1, SameArea
  <2>2. QED
    BY <2>1, ServerSized, InitialiseSized, HandleSized, ReloadSized DEF Next
<1>3. SizedInv => PagerSized
  BY DEF SizedInv
<1>4. QED
  BY <1>1, <1>2, <1>3, PTL DEF Spec

(***************************************************************************)
(* What rieman knows of the screen.                                        *)
(***************************************************************************)

(* A notification of this kind waits in the queue q.                       *)
Pending(q, kind) == \E i \in DOMAIN q : q[i].kind = kind

Kinds == {"geometry", "workarea", "viewport", "roots", "names", "output",
          "list", "configure", "desktop", "destroy"}
Notes == [kind : Kinds, win : Window \union {None}]

(* A notification that is sent waits, and those before it wait still.      *)
LEMMA Told ==
  ASSUME NEW q \in Seq(Notes), NEW kind \in Kinds, NEW w \in Window \union {None}
  PROVE  /\ Append(q, Note(kind, w)) \in Seq(Notes)
         /\ Pending(Append(q, Note(kind, w)), kind)
         /\ \A k : Pending(q, k) => Pending(Append(q, Note(kind, w)), k)
<1> DEFINE n == Note(kind, w)
           a == Append(q, n)
<1>1. n \in Notes /\ n.kind = kind
  BY DEF Note, Notes
<1> HIDE DEF n
<1>2. /\ a \in Seq(Notes) /\ Len(a) = Len(q) + 1
      /\ \A i \in 1..Len(q) : a[i] = q[i]
      /\ a[Len(q) + 1] = n
  BY <1>1, AppendProperties
<1> HIDE DEF a
<1>3. /\ Len(q) \in Nat /\ DOMAIN q = 1..Len(q)
      /\ DOMAIN a = 1..(Len(q) + 1)
  BY <1>2, LenProperties
<1>4. Pending(a, kind)
  BY <1>1, <1>2, <1>3 DEF Pending
<1>5. \A k : Pending(q, k) => Pending(a, k)
  BY <1>2, <1>3 DEF Pending
<1>6. QED
  BY <1>2, <1>4, <1>5 DEF a, n

(* A notification that waits is the first one or waits still when that has *)
(* been taken.                                                             *)
LEMMA Taken ==
  ASSUME NEW q \in Seq(Notes), q # <<>>
  PROVE  /\ Tail(q) \in Seq(Notes)
         /\ Head(q).kind \in Kinds
         /\ \A k : Pending(q, k) => Head(q).kind = k \/ Pending(Tail(q), k)
<1>1. /\ Head(q) \in Notes /\ Tail(q) \in Seq(Notes)
      /\ Len(Tail(q)) = Len(q) - 1
      /\ \A i \in 1..Len(Tail(q)) : Tail(q)[i] = q[i + 1]
  BY HeadTailProperties
<1>2. /\ Len(q) \in Nat /\ DOMAIN q = 1..Len(q)
      /\ DOMAIN Tail(q) = 1..Len(Tail(q)) /\ Head(q) = q[1]
  BY <1>1, LenProperties
<1>3. ASSUME NEW k, NEW i \in 1..Len(q), q[i].kind = k, q[1].kind # k
      PROVE  Pending(Tail(q), k)
  <2>1. i - 1 \in 1..Len(Tail(q)) /\ (i - 1) + 1 = i
    BY <1>1, <1>2, <1>3
  <2>2. Tail(q)[i - 1] = q[i]
    BY <1>1, <2>1
  <2>3. QED
    BY <1>2, <1>3, <2>1, <2>2 DEF Pending
<1>4. \A k : Pending(q, k) => Head(q).kind = k \/ Pending(Tail(q), k)
  BY <1>2, <1>3 DEF Pending
<1>5. Head(q).kind \in Kinds
  BY <1>1 DEF Notes
<1>6. QED
  BY <1>1, <1>4, <1>5

(* For each property: a notification of it waits, or its handler is still  *)
(* to be called by rie_event_init(), or rieman knows it.                   *)
GeometryFollows == sgeom # None =>
  Pending(notes, "geometry") \/ todo >= 7 \/ geom = sgeom
WorkareaFollows == sareas # <<>> =>
  \/ Pending(notes, "workarea") \/ todo >= 6
  \/ areas = [i \in DOMAIN sareas |-> sareas[1]]
ViewportFollows ==
  \/ Pending(notes, "viewport") \/ todo >= 5
  \/ views = IF sviews = <<>> THEN <<[x |-> 0, col |-> root]>>
             ELSE [i \in DOMAIN sviews |->
                     [x |-> sviews[i], col |-> sviews[i] \div root]]
RootsFollow ==
  Pending(notes, "roots") \/ todo >= 4 \/ roots = OrZero(sroots)
NamesFollow == snames # None =>
  Pending(notes, "names") \/ todo >= 3 \/ names = snames
OutputFollows == subset /\ soutput # None =>
  Pending(notes, "output") \/ todo >= 8 \/ monitor = soutput

Follows == /\ GeometryFollows /\ WorkareaFollows /\ ViewportFollows
           /\ RootsFollow /\ NamesFollow /\ OutputFollows

(* Lists that are set have a first element.                                *)
ListTypes ==
  /\ notes \in Seq(Notes) /\ todo \in 0..8
  /\ sareas = <<>> \/ 1 \in DOMAIN sareas
  /\ sviews = <<>> \/ 1 \in DOMAIN sviews
  /\ scroll # None => sviews # <<>>

FollowInv == ListTypes /\ Follows

(* A change of a property is told; other changes leave it alone.           *)
LEMMA ServerTells ==
  ASSUME ListTypes, Server
  PROVE  /\ UNCHANGED <<todo, pager>>
         /\ notes' \in Seq(Notes)
         /\ \A k : Pending(notes, k) => Pending(notes', k)
         /\ sgeom' = sgeom \/ Pending(notes', "geometry")
         /\ sareas' = sareas \/ Pending(notes', "workarea")
         /\ sviews' = sviews \/ Pending(notes', "viewport")
         /\ sroots' = sroots \/ Pending(notes', "roots")
         /\ snames' = snames \/ Pending(notes', "names")
         /\ soutput' = soutput \/ Pending(notes', "output")
<1> DEFINE Says(k, w) == Tell(k, w) /\ k \in Kinds /\ w \in Window \union {None}
<1>0. notes \in Seq(Notes)
  BY DEF ListTypes
<1>1. ASSUME NEW k, NEW w, Says(k, w)
      PROVE  /\ notes' \in Seq(Notes) /\ Pending(notes', k)
             /\ \A l : Pending(notes, l) => Pending(notes', l)
  BY <1>0, <1>1, Told DEF Tell
<1>2. ASSUME NEW s \in Sizes \union {None}, SetGeometry(s) \/ SetOutput(s)
      PROVE  /\ UNCHANGED <<todo, pager, sareas, sviews, sroots, snames>>
             /\ \/ Says("geometry", None) /\ UNCHANGED soutput
                \/ Says("output", None) /\ UNCHANGED sgeom
  BY <1>2 DEF SetGeometry, SetOutput, Kinds
<1>3. ASSUME NEW s, ResizeRoot(s)
      PROVE  UNCHANGED <<todo, pager, props, soutput, notes>>
  BY <1>3 DEF ResizeRoot
<1>4. ASSUME NEW a, SetAreas(a)
      PROVE  /\ UNCHANGED <<todo, pager, sgeom, sviews, sroots, snames, soutput>>
             /\ Says("workarea", None)
  BY <1>4 DEF SetAreas, Kinds
<1>5. ASSUME NEW a, SetRoots(a)
      PROVE  /\ UNCHANGED <<todo, pager, sgeom, sviews, sareas, snames, soutput>>
             /\ Says("roots", None)
  BY <1>5 DEF SetRoots, Kinds
<1>6. ASSUME NEW a, SetNames(a)
      PROVE  /\ UNCHANGED <<todo, pager, sgeom, sviews, sareas, sroots, soutput>>
             /\ Says("names", None)
  BY <1>6 DEF SetNames, Kinds
<1>7. ASSUME (\E v : SetViews(v)) \/ ScrollSet
      PROVE  /\ UNCHANGED <<todo, pager, sgeom, snames, sareas, sroots, soutput>>
             /\ Says("viewport", None)
  BY <1>7 DEF SetViews, ScrollSet, Kinds
<1>8. ASSUME NEW d, NEW v, BeginScroll(d, v)
      PROVE  UNCHANGED <<todo, pager, props, soutput, notes>>
  BY <1>8 DEF BeginScroll
<1>9. ASSUME Unlist
      PROVE  UNCHANGED <<todo, pager, props, soutput>> /\ Says("list", None)
  BY <1>9 DEF Unlist, Kinds
<1>10. ASSUME NEW w \in Window,
              \/ ScrollWindow(w) \/ Destroy(w) \/ (\E q : Move(w, q))
              \/ (\E d : Send(w, d))
       PROVE  /\ UNCHANGED <<todo, pager, props, soutput>>
              /\ \/ Says("configure", w) \/ Says("destroy", w) \/ Says("desktop", w)
  BY <1>10 DEF ScrollWindow, Destroy, Move, Send, Kinds
<1> HIDE DEF Says
<1>11. CASE \E s \in Sizes \union {None} : SetGeometry(s) \/ SetOutput(s)
  BY <1>1, <1>2, <1>11
<1>12. CASE \/ \E s \in Sizes : ResizeRoot(s)
            \/ \E q \in Views : \E v \in Listed(q), d \in Desktop : BeginScroll(d, v)
  BY <1>0, <1>3, <1>8, <1>12
<1>13. CASE \/ \E a \in Areas \union {<<>>} : SetAreas(a)
            \/ \E r \in Roots \union {<<>>} : SetRoots(r)
            \/ \E n \in Names : SetNames(n)
  BY <1>1, <1>4, <1>5, <1>6, <1>13
<1>14. CASE \/ \E v \in Views \union {<<>>} : SetViews(v)
            \/ ScrollSet \/ Unlist
  BY <1>1, <1>7, <1>9, <1>14
<1>15. CASE \E w \in Window : \/ ScrollWindow(w) \/ Destroy(w)
                              \/ \E q \in Places : Move(w, q)
                              \/ \E d \in Desktop : Send(w, d)
  BY <1>1, <1>10, <1>15
<1>16. QED
  BY <1>11, <1>12, <1>13, <1>14, <1>15 DEF Server

(* Changes of lists that are set keep them so.                             *)
LEMMA ServerLists ==
  ASSUME ListTypes, Server
  PROVE  ListTypes'
<1>1. notes' \in Seq(Notes) /\ todo' \in 0..8
  BY ServerTells DEF ListTypes
<1>2. sareas' = <<>> \/ 1 \in DOMAIN sareas'
  <2>1. sareas' = sareas \/ sareas' \in Areas \union {<<>>}
    BY DEF Server, SetGeometry, SetOutput, ResizeRoot, SetAreas, SetRoots,
           SetNames, SetViews, BeginScroll, ScrollSet, Unlist, ScrollWindow,
           Destroy, Move, Send
  <2>2. \A a \in Areas : a = <<>> \/ 1 \in DOMAIN a
    BY PlacesAssumption, EmptySeq, LenProperties
  <2>3. QED
    BY <2>1, <2>2 DEF ListTypes
<1>3. /\ sviews' = <<>> \/ 1 \in DOMAIN sviews'
      /\ scroll' # None => sviews' # <<>>
  <2>1. \A v \in Views : v = <<>> \/ 1 \in DOMAIN v
    BY PlacesAssumption, EmptySeq, LenProperties
  <2>2. CASE \E v \in Views \union {<<>>} : SetViews(v)
    BY <2>1, <2>2 DEF SetViews
  <2>3. CASE ScrollSet
    <3>1. sviews # <<>> /\ 1 \in DOMAIN sviews
      BY <2>3 DEF ScrollSet, ListTypes
    <3>2. DOMAIN sviews' = DOMAIN sviews
      BY <2>3 DEF ScrollSet
    <3>3. sviews' # <<>>
      BY <3>1, <3>2
    <3>4. QED
      BY <3>1, <3>2, <3>3
  <2>4. CASE \E w \in Window : ScrollWindow(w)
    BY <2>4 DEF ScrollWindow, ListTypes
  <2>5. CASE \E q \in Views : \E v \in Listed(q), d \in Desktop : BeginScroll(d, v)
    BY <2>5 DEF BeginScroll, ListTypes
  <2>6. CASE UNCHANGED <<sviews, scroll>>
    BY <2>6 DEF ListTypes
  <2>7. QED
    BY <2>2, <2>3, <2>4, <2>5, <2>6
       DEF Server, SetGeometry, SetOutput, ResizeRoot, SetAreas, SetRoots,
           SetNames, Unlist, Destroy, Move, Send
<1>4. QED
  BY <1>1, <1>2, <1>3 DEF ListTypes

LEMMA ServerFollows ==
  ASSUME FollowInv, Server
  PROVE  FollowInv'
<1>1. ListTypes'
  BY ServerLists DEF FollowInv
<1>2. /\ UNCHANGED <<todo, pager>>
      /\ \A k : Pending(notes, k) => Pending(notes', k)
      /\ sgeom' = sgeom \/ Pending(notes', "geometry")
      /\ sareas' = sareas \/ Pending(notes', "workarea")
      /\ sviews' = sviews \/ Pending(notes', "viewport")
      /\ sroots' = sroots \/ Pending(notes', "roots")
      /\ snames' = snames \/ Pending(notes', "names")
      /\ soutput' = soutput \/ Pending(notes', "output")
  BY ServerTells DEF FollowInv
<1>3. GeometryFollows' /\ NamesFollow' /\ OutputFollows'
  BY <1>2 DEF FollowInv, Follows, GeometryFollows, NamesFollow, OutputFollows
<1>4. WorkareaFollows'
  BY <1>2 DEF FollowInv, Follows, WorkareaFollows
<1>5. ViewportFollows'
  BY <1>2 DEF FollowInv, Follows, ViewportFollows
<1>6. RootsFollow'
  BY <1>2 DEF FollowInv, Follows, RootsFollow, OrZero
<1>7. QED
  BY <1>1, <1>3, <1>4, <1>5, <1>6 DEF FollowInv, Follows

(* What each handler makes known.                                          *)
LEMMA HandlersRead ==
  /\ DesktopGeometry(Measured) =>
       /\ sgeom # None => geom' = sgeom
       /\ UNCHANGED <<areas, views, roots, names, monitor>>
  /\ Workarea =>
       /\ sareas # <<>> => areas' = [i \in DOMAIN sareas |-> sareas[1]]
       /\ UNCHANGED <<geom, views, roots, names, monitor>>
  /\ Viewport =>
       /\ views' = IF sviews = <<>> THEN <<[x |-> 0, col |-> root]>>
                   ELSE [i \in DOMAIN sviews |->
                           [x |-> sviews[i], col |-> sviews[i] \div root]]
       /\ UNCHANGED <<geom, areas, roots, names, monitor>>
  /\ VirtualRoots =>
       roots' = OrZero(sroots) /\ UNCHANGED <<geom, areas, views, names, monitor>>
  /\ DesktopNames =>
       /\ snames # None => names' = snames
       /\ UNCHANGED <<geom, areas, views, roots, monitor>>
  /\ Randr =>
       /\ soutput # None => monitor' = soutput
       /\ UNCHANGED <<geom, areas, views, roots, names>>
<1>1. DesktopGeometry(Measured) =>
        /\ sgeom # None => geom' = sgeom
        /\ UNCHANGED <<areas, views, roots, names, monitor>>
  BY DEF DesktopGeometry, Measured
<1>2. Workarea =>
        /\ sareas # <<>> => areas' = [i \in DOMAIN sareas |-> sareas[1]]
        /\ UNCHANGED <<geom, views, roots, names, monitor>>
  BY DEF Workarea
<1>3. Viewport =>
        /\ views' = IF sviews = <<>> THEN <<[x |-> 0, col |-> root]>>
                    ELSE [i \in DOMAIN sviews |->
                            [x |-> sviews[i], col |-> sviews[i] \div root]]
        /\ UNCHANGED <<geom, areas, roots, names, monitor>>
  BY DEF Viewport
<1>4. VirtualRoots =>
        roots' = OrZero(sroots) /\ UNCHANGED <<geom, areas, views, names, monitor>>
  BY DEF VirtualRoots
<1>5. DesktopNames =>
        /\ snames # None => names' = snames
        /\ UNCHANGED <<geom, areas, views, roots, monitor>>
  BY DEF DesktopNames
<1>6. Randr =>
        /\ soutput # None => monitor' = soutput
        /\ UNCHANGED <<geom, areas, views, roots, names>>
  BY DEF Randr
<1>7. QED
  BY <1>1, <1>2, <1>3, <1>4, <1>5, <1>6

(* Handlers about windows make nothing of the screen known.                *)
LEMMA WindowHandlersKnow ==
  ASSUME NEW w, ClientList \/ Configure(w) \/ WmDesktop(w) \/ Destroyed(w)
  PROVE  UNCHANGED known
<1>1. CASE ClientList
  BY <1>1 DEF ClientList
<1>2. CASE Configure(w)
  BY <1>2 DEF Configure
<1>3. CASE WmDesktop(w)
  BY <1>3 DEF WmDesktop
<1>4. CASE Destroyed(w)
  BY <1>4 DEF Destroyed
<1>5. QED
  BY <1>1, <1>2, <1>3, <1>4

(* rie_event_init() calls all of the handlers, one after the other.        *)
LEMMA InitialiseFollows ==
  ASSUME FollowInv, Initialise
  PROVE  FollowInv'
<1>1. /\ todo \in 1..8 /\ todo' = todo - 1
      /\ UNCHANGED <<server, notes, subset, root>>
  BY DEF Initialise, FollowInv, ListTypes
<1>2. ListTypes'
  BY <1>1 DEF FollowInv, ListTypes
<1>3. CASE todo = 8
  <2>1. IF subset THEN Randr ELSE UNCHANGED known
    BY <1>3 DEF Initialise
  <2>2. /\ UNCHANGED <<geom, areas, views, roots, names>>
        /\ subset /\ soutput # None => monitor' = soutput
    BY <2>1, HandlersRead
  <2>3. QED
    BY <1>1, <1>2, <1>3, <2>2
       DEF FollowInv, Follows, GeometryFollows, WorkareaFollows,
           ViewportFollows, RootsFollow, NamesFollow, OutputFollows
<1>4. CASE todo = 7
  <2>1. DesktopGeometry(Measured)
    BY <1>4 DEF Initialise
  <2>2. QED
    BY <1>1, <1>2, <1>4, <2>1, HandlersRead
       DEF FollowInv, Follows, GeometryFollows, WorkareaFollows,
           ViewportFollows, RootsFollow, NamesFollow, OutputFollows
<1>5. CASE todo = 6
  <2>1. Workarea
    BY <1>5 DEF Initialise
  <2>2. QED
    BY <1>1, <1>2, <1>5, <2>1, HandlersRead
       DEF FollowInv, Follows, GeometryFollows, WorkareaFollows,
           ViewportFollows, RootsFollow, NamesFollow, OutputFollows
<1>6. CASE todo = 5
  <2>1. Viewport
    BY <1>6 DEF Initialise
  <2>2. QED
    BY <1>1, <1>2, <1>6, <2>1, HandlersRead
       DEF FollowInv, Follows, GeometryFollows, WorkareaFollows,
           ViewportFollows, RootsFollow, NamesFollow, OutputFollows
<1>7. CASE todo = 4
  <2>1. VirtualRoots
    BY <1>7 DEF Initialise
  <2>2. QED
    BY <1>1, <1>2, <1>7, <2>1, HandlersRead
       DEF FollowInv, Follows, GeometryFollows, WorkareaFollows,
           ViewportFollows, RootsFollow, NamesFollow, OutputFollows, OrZero
<1>8. CASE todo = 3
  <2>1. DesktopNames
    BY <1>8 DEF Initialise
  <2>2. QED
    BY <1>1, <1>2, <1>8, <2>1, HandlersRead
       DEF FollowInv, Follows, GeometryFollows, WorkareaFollows,
           ViewportFollows, RootsFollow, NamesFollow, OutputFollows, OrZero
<1>9. CASE todo \in {1, 2}
  <2>1. UNCHANGED known
    <3>1. CASE todo = 2
      <4>1. ClientList
        BY <3>1 DEF Initialise
      <4>2. QED
        BY <4>1, WindowHandlersKnow
    <3>2. CASE todo = 1
      BY <3>2 DEF Initialise
    <3>3. QED
      BY <1>9, <3>1, <3>2
  <2>2. QED
    BY <1>1, <1>2, <1>9, <2>1
       DEF FollowInv, Follows, GeometryFollows, WorkareaFollows,
           ViewportFollows, RootsFollow, NamesFollow, OutputFollows, OrZero
<1>10. QED
  BY <1>1, <1>3, <1>4, <1>5, <1>6, <1>7, <1>8, <1>9

(* The handler of a notification reads the property it is about.           *)
LEMMA HandleFollows ==
  ASSUME FollowInv, Handle
  PROVE  FollowInv'
<1>1. /\ todo = 0 /\ todo' = 0 /\ notes # <<>> /\ notes' = Tail(notes)
      /\ UNCHANGED <<server, subset, root>>
  BY DEF Handle
<1>2. /\ notes' \in Seq(Notes)
      /\ \A k : Pending(notes, k) => Head(notes).kind = k \/ Pending(notes', k)
  BY <1>1, Taken DEF FollowInv, ListTypes
<1>3. ListTypes'
  BY <1>1, <1>2 DEF FollowInv, ListTypes
<1> DEFINE kind == Head(notes).kind
           w    == Head(notes).win
           windowHandler == ClientList \/ Configure(w) \/ WmDesktop(w) \/ Destroyed(w)
<1>0. \/ kind = "geometry" /\ (DesktopGeometry(Measured) \/ (sgeom = None /\ UNCHANGED known))
      \/ kind = "workarea" /\ Workarea
      \/ kind = "viewport" /\ Viewport
      \/ kind = "roots" /\ VirtualRoots
      \/ kind = "names" /\ DesktopNames
      \/ kind = "output" /\ Randr
      \/ kind \in {"list", "configure", "desktop", "destroy"} /\ windowHandler
  <2>1. \/ kind = "geometry" /\ DesktopGeometry(Measured)
        \/ kind = "geometry" /\ sgeom = None /\ UNCHANGED <<known, wins, sized, stale>>
        \/ kind = "workarea" /\ Workarea
        \/ kind = "viewport" /\ Viewport
        \/ kind = "roots" /\ VirtualRoots
        \/ kind = "names" /\ DesktopNames
        \/ kind = "list" /\ ClientList
        \/ kind = "output" /\ Randr
        \/ kind = "configure" /\ Configure(w)
        \/ kind = "desktop" /\ WmDesktop(w)
        \/ kind = "destroy" /\ Destroyed(w)
    BY DEF Handle
  <2> HIDE DEF kind, w
  <2>2. QED
    BY <2>1
<1>4. \/ kind = "geometry" /\ (DesktopGeometry(Measured) \/ (sgeom = None /\ UNCHANGED known))
      \/ kind = "workarea" /\ Workarea
      \/ kind = "viewport" /\ Viewport
      \/ kind = "roots" /\ VirtualRoots
      \/ kind = "names" /\ DesktopNames
      \/ kind = "output" /\ Randr
      \/ kind \in {"list", "configure", "desktop", "destroy"} /\ UNCHANGED known
  <2>1. windowHandler => UNCHANGED known
    BY WindowHandlersKnow
  <2> HIDE DEF kind, windowHandler
  <2>2. QED
    BY <1>0, <2>1
<1> HIDE DEF kind
<1>5. \A k : Pending(notes, k) => kind = k \/ Pending(notes', k)
  BY <1>2 DEF kind
<1>6. GeometryFollows'
  BY <1>1, <1>4, <1>5, HandlersRead DEF FollowInv, Follows, GeometryFollows
<1>7. WorkareaFollows'
  BY <1>1, <1>4, <1>5, HandlersRead DEF FollowInv, Follows, WorkareaFollows
<1>8. ViewportFollows'
  BY <1>1, <1>4, <1>5, HandlersRead DEF FollowInv, Follows, ViewportFollows
<1>9. RootsFollow'
  BY <1>1, <1>4, <1>5, HandlersRead DEF FollowInv, Follows, RootsFollow, OrZero
<1>10. NamesFollow'
  BY <1>1, <1>4, <1>5, HandlersRead DEF FollowInv, Follows, NamesFollow
<1>11. OutputFollows'
  BY <1>1, <1>4, <1>5, HandlersRead DEF FollowInv, Follows, OutputFollows
<1>12. QED
  BY <1>3, <1>6, <1>7, <1>8, <1>9, <1>10, <1>11 DEF FollowInv, Follows

(* A reload knows nothing, and reads all.                                  *)
LEMMA ReloadFollows ==
  ASSUME FollowInv, Reload
  PROVE  FollowInv'
<1>1. todo' = 8 /\ UNCHANGED <<server, notes>>
  BY DEF Reload, InitHandlers
<1>2. ListTypes'
  BY <1>1 DEF FollowInv, ListTypes
<1>3. QED
  BY <1>1, <1>2 DEF FollowInv, Follows, GeometryFollows, WorkareaFollows,
                    ViewportFollows, RootsFollow, NamesFollow, OutputFollows

LEMMA InitFollows ==
  ASSUME Init
  PROVE  FollowInv
<1>1. /\ todo = 8 /\ notes = <<>> /\ scroll = None
      /\ sareas \in Areas \union {<<>>} /\ sviews \in Views \union {<<>>}
  BY DEF Init, InitHandlers
<1>2. /\ sareas = <<>> \/ 1 \in DOMAIN sareas
      /\ sviews = <<>> \/ 1 \in DOMAIN sviews
  BY <1>1, PlacesAssumption, EmptySeq, LenProperties
<1>3. notes \in Seq(Notes)
  BY <1>1, EmptySeq
<1>4. ListTypes
  BY <1>1, <1>2, <1>3 DEF ListTypes
<1>5. QED
  BY <1>1, <1>4 DEF FollowInv, Follows, GeometryFollows, WorkareaFollows,
                    ViewportFollows, RootsFollow, NamesFollow, OutputFollows

LEMMA SameFollows ==
  ASSUME FollowInv, UNCHANGED vars
  PROVE  FollowInv'
  BY DEF FollowInv, ListTypes, Follows, GeometryFollows, WorkareaFollows,
         ViewportFollows, RootsFollow, NamesFollow, OutputFollows, OrZero

(* At rest nothing waits, so that all is known.                            *)
LEMMA FollowsAtRest ==
  ASSUME FollowInv
  PROVE  KnownFollows
<1> SUFFICES ASSUME AtRest
             PROVE  /\ sgeom # None => geom = sgeom
                    /\ (sareas # <<>> /\ \A i \in DOMAIN sareas : sareas[i] = sareas[1])
                         => \A d \in Desktop : ArrayGet(areas, d) = ArrayGet(sareas, d)
                    /\ \A d \in Desktop :
                         /\ ArrayGet(views, d).x = ArrayGet(OrZero(sviews), d)
                         /\ ArrayGet(roots, d) = ArrayGet(OrZero(sroots), d)
                    /\ snames # None => names = snames
                    /\ subset /\ soutput # None => monitor = soutput
  BY DEF KnownFollows
<1>1. todo = 0 /\ \A k : ~Pending(notes, k)
  BY DEF AtRest, Pending
<1>2. /\ sgeom # None => geom = sgeom
      /\ snames # None => names = snames
      /\ subset /\ soutput # None => monitor = soutput
      /\ roots = OrZero(sroots)
  BY <1>1 DEF FollowInv, Follows, GeometryFollows, NamesFollow, OutputFollows,
              RootsFollow
<1>3. ASSUME sareas # <<>>, \A i \in DOMAIN sareas : sareas[i] = sareas[1],
             NEW d \in Desktop
      PROVE  ArrayGet(areas, d) = ArrayGet(sareas, d)
  <2>1. areas = [i \in DOMAIN sareas |-> sareas[1]] /\ 1 \in DOMAIN sareas
    BY <1>1, <1>3 DEF FollowInv, ListTypes, Follows, WorkareaFollows
  <2>2. QED
    BY <1>3, <2>1 DEF ArrayGet
<1>4. ASSUME NEW d \in Desktop
      PROVE  ArrayGet(views, d).x = ArrayGet(OrZero(sviews), d)
  <2>1. CASE sviews = <<>>
    <3>1. views = <<[x |-> 0, col |-> root]>>
      BY <1>1, <2>1 DEF FollowInv, Follows, ViewportFollows
    <3>2. ArrayGet(views, d) = [x |-> 0, col |-> root]
      BY <3>1, PlacesAssumption DEF ArrayGet, Desktop
    <3>3. ArrayGet(OrZero(sviews), d) = 0
      BY <2>1, PlacesAssumption DEF ArrayGet, OrZero, Desktop
    <3>4. QED
      BY <3>2, <3>3
  <2>2. CASE sviews # <<>>
    <3>1. /\ views = [i \in DOMAIN sviews |->
                        [x |-> sviews[i], col |-> sviews[i] \div root]]
          /\ 1 \in DOMAIN sviews
      BY <1>1, <2>2 DEF FollowInv, ListTypes, Follows, ViewportFollows
    <3>2. \A i \in DOMAIN sviews : views[i].x = sviews[i]
      BY <3>1
    <3>3. QED
      BY <2>2, <3>1, <3>2 DEF ArrayGet, OrZero
  <2>3. QED
    BY <2>1, <2>2
<1>5. QED
  BY <1>2, <1>3, <1>4

(* Whatever the order of changes, notifications, the reads of              *)
(* rie_event_init() and reloads: when all has been handled, rieman knows   *)
(* geometry, workareas, viewports, virtual roots, names and monitor as     *)
(* they are.                                                               *)
THEOREM ScreenKnown == Spec => []KnownFollows
<1>1. Init => FollowInv
  BY InitFollows
<1>2. FollowInv /\ [Next]_vars => FollowInv'
  BY ServerFollows, InitialiseFollows, HandleFollows, ReloadFollows, SameFollows
     DEF Next
<1>3. FollowInv => KnownFollows
  BY FollowsAtRest
<1>4. QED
  BY <1>1, <1>2, <1>3, PTL DEF Spec

(***************************************************************************)
(* The types.                                                              *)
(***************************************************************************)
View   == [x : Nat, col : Nat]
Listing == [id : Window \union {None}, desk : Desktop, at : Int, dead : BOOLEAN]
Scroll == [desk : Desktop, by : Int, moving : SUBSET Window, unset : BOOLEAN]

(* What the server and the window manager hold.  A viewport that is about  *)
(* to be set is a place on the desktop; a window is listed once.           *)
ServerTypes ==
  /\ sroot \in Sizes /\ sgeom \in Sizes \union {None}
  /\ sareas \in Areas \union {<<>>} /\ sviews \in Seq(Nat)
  /\ sroots \in Roots \union {<<>>} /\ snames \in Names \union {None}
  /\ soutput \in Sizes \union {None}
ClientTypes ==
  /\ exists \subseteq Window /\ sdesk \in [Window -> Desktop]
  /\ spos \in [Window -> Int]
  /\ slist \in Seq(Window) /\ IsInjective(slist)
ScrollTypes ==
  /\ scroll = None \/ scroll \in Scroll
  /\ scroll # None => sviews # <<>>
  /\ scroll # None /\ scroll.unset => sviews[Entry(scroll.desk)] + scroll.by \in Nat

(* What rieman holds: lists have an element once their handler was called. *)
KnownTypes ==
  /\ todo \in 0..8 /\ subset \in BOOLEAN /\ root \in Sizes
  /\ geom \in Sizes \union {0} /\ monitor \in Sizes \union {0}
  /\ areas \in Seq([x : Int, w : Nat]) /\ views \in Seq(View) /\ roots \in Seq(Nat)
  /\ names \in Names \union {None}
  /\ todo <= 5 => areas # <<>>
  /\ todo <= 4 => views # <<>>
  /\ todo <= 3 => roots # <<>>
WindowTypes ==
  /\ wins \in Seq(Listing) /\ stale \subseteq Window
  /\ \A i, k \in DOMAIN wins : wins[i].id = wins[k].id => i = k \/ wins[i].id = None
  /\ todo >= 2 => wins = <<>>

Typed == ServerTypes /\ ClientTypes /\ ScrollTypes /\ KnownTypes /\ WindowTypes

LEMMA TypedOK ==
  ASSUME Typed
  PROVE  TypeOK
<1>1. todo = 0 => areas # <<>> /\ views # <<>> /\ roots # <<>>
  BY DEF Typed, KnownTypes
<1>2. ServerTypes /\ ClientTypes /\ ScrollTypes /\ KnownTypes /\ WindowTypes
  BY DEF Typed
<1>3. QED
  BY <1>1, <1>2, Zenon
     DEF ServerTypes, ClientTypes, ScrollTypes, KnownTypes, WindowTypes,
         TypeOK, View, Listing, Scroll

(* What a function on the first numbers is.                                *)
LEMMA Sequence ==
  ASSUME NEW T, NEW n \in Nat, NEW f \in [1..n -> T]
  PROVE  f \in Seq(T) /\ Len(f) = n /\ DOMAIN f = 1..n
  OBVIOUS

LEMMA Quotient ==
  ASSUME NEW a \in Nat, NEW b \in Nat \ {0}
  PROVE  a \div b \in Nat
  BY SMTT(20)

(* A list is not longer for an entry that is taken out, and a window is    *)
(* not in it twice.                                                        *)
LEMMA Removed ==
  ASSUME NEW q \in Seq(Window), IsInjective(q), NEW i \in DOMAIN q
  PROVE  RemoveAt(q, i) \in Seq(Window) /\ IsInjective(RemoveAt(q, i))
<1> DEFINE n == Len(q)
           l == SubSeq(q, 1, i - 1)
           r == SubSeq(q, i + 1, n)
           a == RemoveAt(q, i)
<1>1. n \in Nat /\ DOMAIN q = 1..n /\ i \in 1..n
  OBVIOUS
<1>2. \A j \in 1..n : q[j] \in Window
  OBVIOUS
<1>3. \A j, k \in 1..n : q[j] = q[k] => j = k
  BY <1>1 DEF IsInjective
<1> HIDE DEF n
<1>4. /\ l \in Seq(Window) /\ Len(l) = i - 1
      /\ \A j \in 1..(i - 1) : l[j] = q[j]
  <2>1. 1 \in Int /\ i - 1 \in Int /\ \A j \in 1..(i - 1) : q[j] \in Window
    BY <1>1, <1>2
  <2>2. /\ l \in Seq(Window)
        /\ Len(l) = IF 1 <= i - 1 THEN (i - 1) - 1 + 1 ELSE 0
        /\ \A j \in 1..((i - 1) - 1 + 1) : l[j] = q[1 + j - 1]
    BY <2>1, SubSeqProperties
  <2> HIDE DEF l
  <2>3. QED
    BY <1>1, <2>2
<1>5. /\ r \in Seq(Window) /\ Len(r) = n - i
      /\ \A j \in 1..(n - i) : r[j] = q[i + j]
  <2>1. i + 1 \in Int /\ n \in Int /\ \A j \in (i + 1)..n : q[j] \in Window
    BY <1>1, <1>2
  <2>2. /\ r \in Seq(Window)
        /\ Len(r) = IF i + 1 <= n THEN n - (i + 1) + 1 ELSE 0
        /\ \A j \in 1..(n - (i + 1) + 1) : r[j] = q[(i + 1) + j - 1]
    BY <2>1, SubSeqProperties
  <2> HIDE DEF r
  <2>3. \A j \in 1..(n - i) : (i + 1) + j - 1 = i + j
    BY <1>1
  <2>4. QED
    BY <1>1, <2>2, <2>3
<1>6. a = l \o r
  BY DEF RemoveAt, n
<1> HIDE DEF l, r, a
<1>7. /\ a \in Seq(Window) /\ Len(a) = n - 1
      /\ \A j \in 1..(n - 1) : a[j] = IF j < i THEN q[j] ELSE q[j + 1]
  <2>1. /\ a \in Seq(Window) /\ Len(a) = (i - 1) + (n - i)
        /\ \A j \in 1..((i - 1) + (n - i)) :
             a[j] = IF j <= i - 1 THEN l[j] ELSE r[j - (i - 1)]
    BY <1>4, <1>5, <1>6, ConcatProperties
  <2>2. (i - 1) + (n - i) = n - 1
    BY <1>1
  <2>3. ASSUME NEW j \in 1..(n - 1) PROVE a[j] = IF j < i THEN q[j] ELSE q[j + 1]
    <3>1. CASE j < i
      BY <1>1, <1>4, <2>1, <2>2, <3>1
    <3>2. CASE j >= i
      <4>1. j - (i - 1) \in 1..(n - i) /\ i + (j - (i - 1)) = j + 1
        BY <1>1, <3>2
      <4>2. a[j] = r[j - (i - 1)]
        BY <1>1, <2>1, <2>2, <3>2
      <4>3. QED
        BY <1>1, <1>5, <3>2, <4>1, <4>2
    <3>3. QED
      BY <1>1, <3>1, <3>2
  <2>4. QED
    BY <2>1, <2>2, <2>3
<1>8. DOMAIN a = 1..(n - 1)
  BY <1>7, LenProperties
<1>9. ASSUME NEW j \in 1..(n - 1), NEW k \in 1..(n - 1), a[j] = a[k]
      PROVE  j = k
  <2> DEFINE to(m) == IF m < i THEN m ELSE m + 1
  <2>1. to(j) \in 1..n /\ to(k) \in 1..n
    BY <1>1
  <2>2. a[j] = q[to(j)] /\ a[k] = q[to(k)]
    BY <1>7
  <2>3. to(j) = to(k)
    BY <1>3, <1>9, <2>1, <2>2
  <2>4. QED
    BY <1>1, <2>3
<1>10. IsInjective(a)
  BY <1>8, <1>9 DEF IsInjective
<1>11. QED
  BY <1>7, <1>10 DEF a

(* The entry of a viewport that is set is one of the list.                 *)
LEMMA EntryIs ==
  ASSUME sviews \in Seq(Nat), sviews # <<>>, NEW d
  PROVE  /\ Entry(d) \in DOMAIN sviews /\ sviews[Entry(d)] \in Nat
         /\ ArrayGet(sviews, d) = sviews[Entry(d)]
<1>1. 1 \in DOMAIN sviews
  BY EmptySeq, LenProperties
<1>2. Entry(d) \in DOMAIN sviews
  BY <1>1 DEF Entry
<1>3. ArrayGet(sviews, d) = sviews[Entry(d)]
  BY DEF ArrayGet, Entry
<1>4. QED
  BY <1>2, <1>3

(* Changes of properties and of the screen.                                *)
LEMMA PropertiesTyped ==
  ASSUME Typed,
         \/ \E s \in Sizes \union {None} : SetGeometry(s) \/ SetOutput(s)
         \/ \E s \in Sizes : ResizeRoot(s)
         \/ \E a \in Areas \union {<<>>} : SetAreas(a)
         \/ \E r \in Roots \union {<<>>} : SetRoots(r)
         \/ \E n \in Names : SetNames(n)
         \/ \E v \in Views \union {<<>>} : SetViews(v)
  PROVE  ServerTypes' /\ ClientTypes' /\ ScrollTypes'
<1>1. ServerTypes /\ ClientTypes /\ ScrollTypes
  BY DEF Typed
<1>2. \A v \in Views \union {<<>>} : v \in Seq(Nat)
  BY PlacesAssumption, EmptySeq
<1>3. UNCHANGED clients /\ UNCHANGED scroll
  BY DEF SetGeometry, SetOutput, ResizeRoot, SetAreas, SetRoots, SetNames, SetViews
<1>4. ClientTypes'
  BY <1>1, <1>3 DEF ClientTypes
<1>5. UNCHANGED sviews \/ scroll = None
  BY DEF SetGeometry, SetOutput, ResizeRoot, SetAreas, SetRoots, SetNames, SetViews
<1>6. ScrollTypes'
  BY <1>1, <1>3, <1>5 DEF ScrollTypes, Entry
<1>7. ServerTypes'
  BY <1>1, <1>2 DEF ServerTypes, SetGeometry, SetOutput, ResizeRoot, SetAreas,
                    SetRoots, SetNames, SetViews
<1>8. QED
  BY <1>4, <1>6, <1>7

(* Changes of windows.                                                     *)
LEMMA ClientsTyped ==
  ASSUME Typed,
         \/ Unlist
         \/ \E w \in Window : \/ Destroy(w)
                              \/ \E p \in Places : Move(w, p)
                              \/ \E d \in Desktop : Send(w, d)
  PROVE  ServerTypes' /\ ClientTypes' /\ ScrollTypes'
<1>1. ServerTypes /\ ClientTypes /\ ScrollTypes
  BY DEF Typed
<1>2. UNCHANGED <<props, screen, scroll>>
  BY DEF Unlist, Destroy, Move, Send
<1>3. ServerTypes' /\ ScrollTypes'
  BY <1>1, <1>2 DEF ServerTypes, ScrollTypes, Entry
<1>4. ClientTypes'
  <2>1. CASE Unlist
    <3>1. PICK i \in DOMAIN slist : slist' = RemoveAt(slist, i)
      BY <2>1 DEF Unlist
    <3>2. slist' \in Seq(Window) /\ IsInjective(slist')
      BY <1>1, <3>1, Removed DEF ClientTypes
    <3>3. UNCHANGED <<exists, sdesk, spos>>
      BY <2>1 DEF Unlist
    <3>4. QED
      BY <1>1, <3>2, <3>3 DEF ClientTypes
  <2>2. CASE \E w \in Window : Destroy(w)
    BY <1>1, <2>2 DEF ClientTypes, Destroy
  <2>3. CASE \E w \in Window, p \in Places : Move(w, p)
    BY <1>1, <2>3, PlacesAssumption DEF ClientTypes, Move
  <2>4. CASE \E w \in Window, d \in Desktop : Send(w, d)
    BY <1>1, <2>4 DEF ClientTypes, Send
  <2>5. QED
    BY <2>1, <2>2, <2>3, <2>4
<1>5. QED
  BY <1>3, <1>4

(* The steps of a change of a viewport.                                    *)
LEMMA ScrollTyped ==
  ASSUME Typed,
         \/ \E q \in Views : \E v \in Listed(q), d \in Desktop : BeginScroll(d, v)
         \/ ScrollSet
         \/ \E w \in Window : ScrollWindow(w)
  PROVE  ServerTypes' /\ ClientTypes' /\ ScrollTypes'
<1>1. ServerTypes /\ ClientTypes /\ ScrollTypes /\ sviews \in Seq(Nat)
  BY DEF Typed, ServerTypes
<1>2. CASE \E q \in Views : \E v \in Listed(q), d \in Desktop : BeginScroll(d, v)
  <2>1. PICK d \in Desktop, v \in Nat : BeginScroll(d, v)
    <3>1. \A q \in Views : Listed(q) \subseteq Nat
      BY PlacesAssumption DEF Listed
    <3>2. QED
      BY <1>2, <3>1
  <2>2. v \in Nat
    OBVIOUS
  <2>3. sviews # <<>> /\ UNCHANGED <<props, screen, clients>>
    BY <2>1 DEF BeginScroll
  <2>4. PICK a \in Nat : a = ArrayGet(sviews, d) /\ a = sviews[Entry(d)]
    BY <1>1, <2>3, EntryIs
  <2>5. scroll' = [desk |-> d, by |-> v - a, unset |-> TRUE,
                   moving |-> {w \in exists : Entry(sdesk[w]) = Entry(d)}]
    BY <2>1, <2>4 DEF BeginScroll
  <2>6. scroll' \in Scroll
    BY <1>1, <2>2, <2>4, <2>5 DEF Scroll, ClientTypes
  <2>7. sviews[Entry(d)] + (v - a) \in Nat
    BY <2>2, <2>4
  <2>8. ScrollTypes'
    BY <2>3, <2>5, <2>6, <2>7 DEF ScrollTypes, Entry
  <2>9. QED
    BY <1>1, <2>3, <2>8 DEF ServerTypes, ClientTypes
<1>3. CASE ScrollSet
  <2>1. scroll # None /\ scroll.unset /\ scroll \in Scroll /\ sviews # <<>>
    BY <1>1, <1>3 DEF ScrollSet, ScrollTypes
  <2>2. sviews[Entry(scroll.desk)] + scroll.by \in Nat
    BY <1>1, <2>1 DEF ScrollTypes
  <2>3. PICK e \in DOMAIN sviews : e = Entry(scroll.desk)
    BY <1>1, <2>1, EntryIs
  <2>4. sviews' = [sviews EXCEPT ![e] = sviews[e] + scroll.by]
    BY <1>3, <2>3 DEF ScrollSet
  <2>5. PICK x \in Nat : x = sviews[e] + scroll.by
    BY <2>2, <2>3
  <2>6. sviews' \in Seq(Nat) /\ sviews' # <<>>
    <3>1. sviews' = [sviews EXCEPT ![e] = x]
      BY <2>4, <2>5
    <3>2. QED
      BY <1>1, <2>1, <2>3, <3>1, ExceptSeq, EmptySeq, LenProperties
  <2>7. scroll' = None \/ scroll' = [scroll EXCEPT !.moving = scroll.moving, !.unset = FALSE]
    BY <1>3 DEF ScrollSet, Scrolled
  <2>8. scroll' = None \/ (scroll' \in Scroll /\ ~scroll'.unset)
    BY <2>1, <2>7 DEF Scroll
  <2>9. ScrollTypes'
    BY <2>6, <2>8 DEF ScrollTypes
  <2>10. ServerTypes' /\ ClientTypes'
    BY <1>1, <1>3, <2>6 DEF ScrollSet, ServerTypes, ClientTypes
  <2>11. QED
    BY <2>9, <2>10
<1>4. CASE \E w \in Window : ScrollWindow(w)
  <2>1. PICK w \in Window : ScrollWindow(w)
    BY <1>4
  <2>2. scroll # None /\ scroll \in Scroll
    BY <1>1, <2>1 DEF ScrollWindow, ScrollTypes
  <2>3. \/ scroll' = None
        \/ scroll' = [scroll EXCEPT !.moving = scroll.moving \ {w}, !.unset = scroll.unset]
    BY <2>1 DEF ScrollWindow, Scrolled
  <2>4. scroll' = None \/ (scroll' \in Scroll /\ scroll'.unset = scroll.unset
                           /\ scroll'.by = scroll.by /\ scroll'.desk = scroll.desk)
    BY <2>2, <2>3 DEF Scroll
  <2>5. UNCHANGED <<props, screen, exists, sdesk, slist>>
    BY <2>1 DEF ScrollWindow
  <2>6. ScrollTypes'
    BY <1>1, <2>2, <2>4, <2>5 DEF ScrollTypes, Entry
  <2>7. spos' = [spos EXCEPT ![w] = spos[w] - scroll.by]
    BY <2>1 DEF ScrollWindow
  <2>8. scroll.by \in Int
    BY <2>2 DEF Scroll
  <2>9. spos' \in [Window -> Int]
    BY <1>1, <2>7, <2>8 DEF ClientTypes
  <2>10. QED
    BY <1>1, <2>5, <2>6, <2>9 DEF ServerTypes, ClientTypes
<1>5. QED
  BY <1>2, <1>3, <1>4

LEMMA ServerTyped ==
  ASSUME Typed, Server
  PROVE  Typed'
<1>1. UNCHANGED <<todo, pager>>
  BY DEF Server, SetGeometry, SetOutput, ResizeRoot, SetAreas, SetRoots,
         SetNames, SetViews, BeginScroll, ScrollSet, Unlist, ScrollWindow,
         Destroy, Move, Send
<1>2. KnownTypes' /\ WindowTypes'
  BY <1>1 DEF Typed, KnownTypes, WindowTypes
<1>3. ServerTypes' /\ ClientTypes' /\ ScrollTypes'
  BY PropertiesTyped, ClientsTyped, ScrollTyped DEF Server
<1>4. QED
  BY <1>2, <1>3 DEF Typed

(* rie_array_get() of a list that has elements gives one of them.          *)
LEMMA ArrayGetIn ==
  ASSUME NEW T, NEW q \in Seq(T), q # <<>>, NEW d
  PROVE  ArrayGet(q, d) \in T
<1>1. 1 \in DOMAIN q
  BY EmptySeq, LenProperties
<1>2. QED
  BY <1>1 DEF ArrayGet

LEMMA BoxInt ==
  ASSUME Typed, NEW w \in Window, NEW d, NEW vs \in Seq(View), vs # <<>>,
         NEW rs \in Seq(Nat), rs # <<>>
  PROVE  Box(w, d, vs, rs) \in Int
<1>1. PICK v \in Nat : v = ArrayGet(vs, d).x
  <2>1. ArrayGet(vs, d) \in View
    BY ArrayGetIn
  <2>2. QED
    BY <2>1 DEF View
<1>2. PICK r \in Nat : r = ArrayGet(rs, d)
  BY ArrayGetIn
<1>3. PICK p \in Int : p = spos[w]
  BY DEF Typed, ClientTypes
<1>4. QED
  BY <1>1, <1>2, <1>3 DEF Box

LEMMA OrZeroIs ==
  ASSUME NEW q \in Seq(Nat)
  PROVE  OrZero(q) \in Seq(Nat) /\ OrZero(q) # <<>>
  BY DEF OrZero

(* rie_window_query(): the window's own place and desktop, or death.       *)
LEMMA QueryIs ==
  ASSUME Typed, NEW win \in Listing, NEW w \in Window, views # <<>>, roots # <<>>
  PROVE  /\ Query(win, w) \in Listing
         /\ w \in exists =>
              /\ Query(win, w).id = w /\ Query(win, w).desk = sdesk[w]
              /\ Query(win, w).at = Box(w, sdesk[w], views, roots)
              /\ Query(win, w).dead = win.dead
         /\ w \notin exists => Query(win, w).dead /\ Query(win, w).id = win.id
<1>1. views \in Seq(View) /\ roots \in Seq(Nat) /\ sdesk[w] \in Desktop
  BY DEF Typed, KnownTypes, ClientTypes
<1>2. PICK b \in Int : b = Box(w, sdesk[w], views, roots)
  BY <1>1, BoxInt
<1>3. CASE w \in exists
  <2>1. Query(win, w) = [win EXCEPT !.id = w, !.desk = sdesk[w], !.at = b]
    BY <1>2, <1>3 DEF Query
  <2>2. QED
    BY <1>1, <1>2, <1>3, <2>1 DEF Listing
<1>4. CASE w \notin exists
  <2>1. Query(win, w) = [win EXCEPT !.dead = TRUE, !.desk = 0]
    BY <1>4 DEF Query
  <2>2. 0 \in Desktop
    BY PlacesAssumption DEF Desktop
  <2>3. QED
    BY <1>4, <2>1, <2>2 DEF Listing
<1>5. QED
  BY <1>3, <1>4

(* What the handlers make known has its types; lists have elements.        *)
LEMMA HandlersTyped ==
  ASSUME Typed,
         NEW w,
         \/ DesktopGeometry(Measured) \/ Workarea \/ Viewport \/ VirtualRoots
         \/ DesktopNames \/ Randr
         \/ ClientList \/ Configure(w) \/ WmDesktop(w) \/ Destroyed(w)
         \/ UNCHANGED known
  PROVE  /\ geom' \in Sizes \union {0} /\ monitor' \in Sizes \union {0}
         /\ areas' \in Seq([x : Int, w : Nat]) /\ views' \in Seq(View)
         /\ roots' \in Seq(Nat) /\ names' \in Names \union {None}
         /\ areas # <<>> \/ Workarea => areas' # <<>>
         /\ views # <<>> \/ Viewport => views' # <<>>
         /\ roots # <<>> \/ VirtualRoots => roots' # <<>>
<1>1. /\ geom \in Sizes \union {0} /\ monitor \in Sizes \union {0}
      /\ areas \in Seq([x : Int, w : Nat]) /\ views \in Seq(View)
      /\ roots \in Seq(Nat) /\ names \in Names \union {None}
  BY DEF Typed, KnownTypes
<1>2. ServerTypes /\ root \in Nat \ {0} /\ geom \in Nat
  BY PlacesAssumption DEF Typed, KnownTypes
<1>3. ASSUME Workarea
      PROVE  areas' \in Seq([x : Int, w : Nat]) /\ areas' # <<>>
  <2>1. CASE sareas = <<>>
    <3>1. areas' = <<[x |-> 0, w |-> geom]>>
      BY <1>3, <2>1 DEF Workarea
    <3>2. QED
      BY <1>2, <3>1
  <2>2. CASE sareas # <<>>
    <3>1. sareas \in Seq([x : Int, w : Nat]) /\ areas' = [i \in DOMAIN sareas |-> sareas[1]]
      BY <1>2, <1>3, <2>2, PlacesAssumption DEF Workarea, ServerTypes
    <3>2. /\ Len(sareas) \in Nat /\ DOMAIN sareas = 1..Len(sareas)
          /\ 1 \in DOMAIN sareas
      BY <2>2, <3>1, EmptySeq, LenProperties
    <3>3. areas' \in [1..Len(sareas) -> [x : Int, w : Nat]]
      <4>0. \A T : sareas \in Seq(T) => sareas[1] \in T
        BY <3>2
      <4>1. PICK a \in [x : Int, w : Nat] : a = sareas[1]
        BY <3>1, <4>0
      <4>2. areas' = [i \in 1..Len(sareas) |-> a]
        BY <3>1, <3>2, <4>1
      <4>3. QED
        BY <4>2
    <3>4. areas' \in Seq([x : Int, w : Nat]) /\ DOMAIN areas' = 1..Len(sareas)
      BY <3>2, <3>3, Sequence
    <3>5. QED
      BY <3>2, <3>4
  <2>3. QED
    BY <2>1, <2>2
<1>4. ASSUME Viewport
      PROVE  views' \in Seq(View) /\ views' # <<>>
  <2>1. CASE sviews = <<>>
    <3>1. views' = <<[x |-> 0, col |-> root]>>
      BY <1>4, <2>1 DEF Viewport
    <3>2. [x |-> 0, col |-> root] \in View
      BY <1>2 DEF View
    <3>3. QED
      BY <3>1, <3>2
  <2>2. CASE sviews # <<>>
    <3>1. /\ sviews \in Seq(Nat)
          /\ views' = [i \in DOMAIN sviews |->
                         [x |-> sviews[i], col |-> sviews[i] \div root]]
      BY <1>2, <1>4, <2>2 DEF Viewport, ServerTypes
    <3>2. /\ Len(sviews) \in Nat /\ DOMAIN sviews = 1..Len(sviews)
          /\ 1 \in DOMAIN sviews
      BY <2>2, <3>1, EmptySeq, LenProperties
    <3>3. ASSUME NEW i \in DOMAIN sviews
          PROVE  [x |-> sviews[i], col |-> sviews[i] \div root] \in View
      <4>1. sviews[i] \in Nat
        BY <3>1
      <4>2. sviews[i] \div root \in Nat
        BY <1>2, <4>1, Quotient
      <4>3. QED
        BY <4>1, <4>2 DEF View
    <3>4. views' \in [1..Len(sviews) -> View]
      BY <3>1, <3>2, <3>3
    <3>5. views' \in Seq(View) /\ DOMAIN views' = 1..Len(sviews)
      BY <3>2, <3>4, Sequence
    <3>6. QED
      BY <3>2, <3>5
  <2>3. QED
    BY <2>1, <2>2
<1>5. ASSUME VirtualRoots
      PROVE  roots' \in Seq(Nat) /\ roots' # <<>>
  <2>1. sroots \in Seq(Nat)
    BY <1>2, PlacesAssumption, EmptySeq DEF ServerTypes
  <2>2. QED
    BY <1>5, <2>1, OrZeroIs DEF VirtualRoots
<1>6. ASSUME DesktopGeometry(Measured)
      PROVE  geom' \in Sizes
  BY <1>2, <1>6 DEF DesktopGeometry, Measured, ServerTypes
<1>7. ASSUME Randr
      PROVE  monitor' \in Sizes \union {0}
  BY <1>1, <1>2, <1>7 DEF Randr, ServerTypes
<1>8. ASSUME DesktopNames
      PROVE  names' \in Names \union {None}
  BY <1>1, <1>2, <1>8 DEF DesktopNames, ServerTypes
<1>9. CASE UNCHANGED known
  BY <1>1, <1>3, <1>4, <1>5, <1>9
<1>10. CASE ClientList \/ Configure(w) \/ WmDesktop(w) \/ Destroyed(w)
  BY <1>9, <1>10, WindowHandlersKnow
<1>11. CASE DesktopGeometry(Measured)
  BY <1>1, <1>3, <1>4, <1>5, <1>6, <1>11, HandlersRead
<1>12. CASE Workarea
  BY <1>1, <1>3, <1>4, <1>5, <1>12, HandlersRead
<1>13. CASE Viewport
  BY <1>1, <1>3, <1>4, <1>5, <1>13, HandlersRead
<1>14. CASE VirtualRoots
  BY <1>1, <1>3, <1>4, <1>5, <1>14, HandlersRead
<1>15. CASE DesktopNames
  BY <1>1, <1>3, <1>4, <1>5, <1>8, <1>15, HandlersRead
<1>16. CASE Randr
  <2>1. UNCHANGED <<geom, areas, views, roots, names>>
    BY <1>16, HandlersRead
  <2>2. QED
    BY <1>1, <1>3, <1>4, <1>5, <1>7, <1>16, <2>1
<1>17. QED
  BY <1>9, <1>10, <1>11, <1>12, <1>13, <1>14, <1>15, <1>16

(* A window is at most once in the list.                                   *)
LEMMA FoundIs ==
  ASSUME Typed, NEW w \in Window, NEW i \in Found(w)
  PROVE  /\ Found(w) = {i} /\ First(Found(w)) = i
         /\ i \in DOMAIN wins /\ wins[i].id = w /\ wins[i] \in Listing
<1>1. i \in DOMAIN wins /\ wins[i].id = w
  BY DEF Found
<1>2. w # None
  BY PlacesAssumption
<1>3. \A k \in Found(w) : k = i
  BY <1>1, <1>2 DEF Found, Typed, WindowTypes
<1>4. Found(w) = {i}
  BY <1>3
<1>5. i \in Nat /\ wins[i] \in Listing
  BY <1>1, LenProperties DEF Typed, WindowTypes
<1>6. i <= i
  BY <1>5
<1>7. First({i}) = i
  BY <1>6 DEF First
<1>8. QED
  BY <1>1, <1>4, <1>5, <1>7

(* A list of the same windows.                                             *)
LEMMA SameWindows ==
  ASSUME Typed, wins' \in Seq(Listing), DOMAIN wins' = DOMAIN wins,
         \A i \in DOMAIN wins : wins'[i].id = wins[i].id
  PROVE  \A i, k \in DOMAIN wins' : wins'[i].id = wins'[k].id =>
           i = k \/ wins'[i].id = None
  BY Zenon DEF Typed, WindowTypes

(* One window of the list with other fields.                               *)
LEMMA OneWindow ==
  ASSUME Typed, NEW i \in DOMAIN wins, NEW x \in Listing, x.id = wins[i].id,
         wins' = [wins EXCEPT ![i] = x]
  PROVE  /\ wins' \in Seq(Listing) /\ DOMAIN wins' = DOMAIN wins
         /\ wins'[i] = x /\ \A k \in DOMAIN wins : k # i => wins'[k] = wins[k]
         /\ \A k \in DOMAIN wins : wins'[k].id = wins[k].id
<1>1. wins \in Seq(Listing)
  BY DEF Typed, WindowTypes
<1>2. i \in 1..Len(wins) /\ DOMAIN wins = 1..Len(wins)
  BY <1>1, LenProperties
<1>3. wins' \in Seq(Listing)
  BY <1>1, <1>2, ExceptSeq
<1>4. DOMAIN wins' = DOMAIN wins
  OBVIOUS
<1>5. wins'[i] = x /\ \A k \in DOMAIN wins : k # i => wins'[k] = wins[k]
  OBVIOUS
<1>6. QED
  BY <1>3, <1>4, <1>5

(* What the handlers about one window do to the list: nothing to others.   *)
LEMMA ConfigureIs ==
  ASSUME Typed, NEW w \in Window, Configure(w), views # <<>>, roots # <<>>
  PROVE  \/ Found(w) = {} /\ UNCHANGED <<wins, stale>>
         \/ \E i \in Found(w) :
              /\ wins' = [wins EXCEPT ![i] = Query(wins[i], w)]
              /\ Query(wins[i], w) \in Listing /\ Query(wins[i], w).id = wins[i].id
              /\ stale' = IF w \in exists THEN stale \ {w} ELSE stale
<1>1. CASE Found(w) = {}
  BY <1>1 DEF Configure
<1>2. CASE Found(w) # {}
  <2>1. PICK i \in Found(w) : First(Found(w)) = i /\ wins[i].id = w /\ wins[i] \in Listing
    BY <1>2, FoundIs
  <2>2. Query(wins[i], w) \in Listing /\ Query(wins[i], w).id = wins[i].id
    BY <2>1, QueryIs
  <2>3. QED
    BY <1>2, <2>1, <2>2 DEF Configure
<1>3. QED
  BY <1>1, <1>2

LEMMA WmDesktopIs ==
  ASSUME Typed, NEW w \in Window, WmDesktop(w)
  PROVE  \/ /\ {i \in Found(w) : ~wins[i].dead} = {}
            /\ UNCHANGED <<wins, stale>>
         \/ \E i \in Found(w), d \in Desktop, x \in Listing :
              /\ w \in exists => d = sdesk[w]
              /\ wins' = [wins EXCEPT ![i] = x]
              /\ x.id = wins[i].id /\ x.at = wins[i].at /\ x.dead = wins[i].dead
              /\ x.desk = d
              /\ stale' = IF d # wins[i].desk THEN stale \union {w} ELSE stale
<1>1. CASE {i \in Found(w) : ~wins[i].dead} = {}
  BY <1>1 DEF WmDesktop
<1>2. CASE {i \in Found(w) : ~wins[i].dead} # {}
  <2>1. PICK i \in Found(w) : First(Found(w)) = i /\ wins[i] \in Listing
    BY <1>2, FoundIs
  <2>2. PICK d \in Desktop : d = IF w \in exists THEN sdesk[w] ELSE 0
    BY PlacesAssumption DEF Typed, ClientTypes, Desktop
  <2>3. /\ wins' = [wins EXCEPT ![i].desk = d]
        /\ stale' = IF d # wins[i].desk THEN stale \union {w} ELSE stale
    BY <1>2, <2>1, <2>2 DEF WmDesktop
  <2>4. PICK x \in Listing : x = [wins[i] EXCEPT !.desk = d]
    BY <2>1, <2>2 DEF Listing
  <2>5. /\ x.id = wins[i].id /\ x.at = wins[i].at /\ x.dead = wins[i].dead
        /\ x.desk = d
    BY <2>1, <2>4 DEF Listing
  <2>6. QED
    BY <2>2, <2>3, <2>4, <2>5
<1>3. QED
  BY <1>1, <1>2

LEMMA DestroyedIs ==
  ASSUME Typed, NEW w \in Window, Destroyed(w)
  PROVE  \/ Found(w) = {} /\ UNCHANGED <<wins, stale>>
         \/ \E i \in Found(w), x \in Listing :
              /\ wins' = [wins EXCEPT ![i] = x]
              /\ x.id = wins[i].id /\ x.dead /\ stale' = stale
<1>1. CASE Found(w) = {}
  BY <1>1 DEF Destroyed
<1>2. CASE Found(w) # {}
  <2>1. PICK i \in Found(w) : First(Found(w)) = i /\ wins[i] \in Listing
    BY <1>2, FoundIs
  <2>2. wins' = [[wins EXCEPT ![i].dead = TRUE] EXCEPT ![i].desk = 0]
        /\ stale' = stale
    BY <1>2, <2>1 DEF Destroyed
  <2>3. PICK d : d = [wins[i] EXCEPT !.dead = TRUE]
    OBVIOUS
  <2>4. d \in Listing /\ d.id = wins[i].id /\ d.dead
    BY <2>1, <2>3 DEF Listing
  <2>5. 0 \in Desktop
    BY PlacesAssumption DEF Desktop
  <2>6. PICK x \in Listing : x = [d EXCEPT !.desk = 0]
    BY <2>4, <2>5 DEF Listing
  <2>7. x.id = wins[i].id /\ x.dead
    BY <2>4, <2>6 DEF Listing
  <2>8. wins' = [wins EXCEPT ![i] = x]
    <3>1. i \in DOMAIN wins
      BY <2>1, FoundIs
    <3>2. QED
      BY <2>2, <2>3, <2>6, <3>1
  <2>9. QED
    BY <2>2, <2>7, <2>8
<1>3. QED
  BY <1>1, <1>2

(* No window before the i-th, nor that one, is known to be gone.           *)
Clean(i) == \A k \in 1..i : wins[k].id \in exists

(* A viewport that is set has the windows read that come before one that   *)
(* is gone.                                                                *)
LEMMA ViewportIs ==
  ASSUME Typed, Viewport
  PROVE  /\ wins' \in Seq(Listing) /\ DOMAIN wins' = DOMAIN wins
         /\ \A i \in DOMAIN wins :
              /\ wins'[i].id = wins[i].id /\ wins'[i].desk = wins[i].desk
              /\ wins'[i].dead = wins[i].dead
         /\ sviews = <<>> => wins' = wins /\ stale' = Known(wins)
         /\ sviews # <<>> => stale' \subseteq stale
         /\ sviews # <<>> => \A i \in DOMAIN wins :
              Clean(i) => wins'[i].at = Box(wins[i].id, wins[i].desk,
                                            views', OrZero(roots))
<1>1. wins \in Seq(Listing) /\ roots \in Seq(Nat) /\ exists \subseteq Window
  BY DEF Typed, WindowTypes, KnownTypes, ClientTypes
<1>2. /\ Len(wins) \in Nat /\ DOMAIN wins = 1..Len(wins)
      /\ \A i \in DOMAIN wins : wins[i] \in Listing
  BY <1>1, LenProperties
<1>3. CASE sviews = <<>>
  <2>1. wins' = wins /\ stale' = Known(wins)
    BY <1>3 DEF Viewport
  <2>2. QED
    BY <1>1, <1>3, <2>1
<1>4. CASE sviews # <<>>
  <2>1. views' \in Seq(View) /\ views' # <<>>
    BY HandlersTyped
  <2>2. OrZero(roots) \in Seq(Nat) /\ OrZero(roots) # <<>>
    BY <1>1, OrZeroIs
  <2>3. PICK vs, rs : vs = views' /\ rs = OrZero(roots)
    OBVIOUS
  <2>4. wins' = UpdateGeometry(wins, vs, rs) /\ stale' = stale \ Updated(wins)
    BY <1>4, <2>3 DEF Viewport
  <2>5. \A w \in Window : \A d : Box(w, d, vs, rs) \in Int
    BY <2>1, <2>2, <2>3, BoxInt
  <2>6. /\ DOMAIN wins' = DOMAIN wins
        /\ \A i \in DOMAIN wins :
             wins'[i] = IF Clean(i)
                        THEN [wins[i] EXCEPT !.at = Box(wins[i].id, wins[i].desk, vs, rs)]
                        ELSE wins[i]
    BY <2>4 DEF UpdateGeometry, Clean
  <2>7. ASSUME NEW i \in DOMAIN wins
        PROVE  /\ wins'[i] \in Listing
               /\ wins'[i].id = wins[i].id /\ wins'[i].desk = wins[i].desk
               /\ wins'[i].dead = wins[i].dead
               /\ Clean(i) => wins'[i].at = Box(wins[i].id, wins[i].desk, vs, rs)
    <3>1. wins[i] \in Listing
      BY <1>2
    <3>2. CASE Clean(i)
      <4>1. wins[i].id \in Window
        BY <1>1, <1>2, <3>2 DEF Clean
      <4>2. PICK b \in Int : b = Box(wins[i].id, wins[i].desk, vs, rs)
        BY <2>5, <4>1
      <4>3. wins'[i] = [wins[i] EXCEPT !.at = b]
        BY <2>6, <3>2, <4>2
      <4>4. QED
        BY <3>1, <4>2, <4>3 DEF Listing
    <3>3. CASE ~Clean(i)
      BY <2>6, <3>1, <3>3
    <3>4. QED
      BY <3>2, <3>3
  <2>8. wins' \in Seq(Listing)
    <3>1. wins' \in [1..Len(wins) -> Listing]
      <4>1. wins' = [i \in DOMAIN wins |-> wins'[i]]
        BY <2>4 DEF UpdateGeometry
      <4>2. QED
        BY <1>2, <2>7, <4>1
    <3>2. QED
      BY <1>2, <3>1, Sequence
  <2>9. QED
    BY <1>4, <2>3, <2>4, <2>6, <2>7, <2>8
<1>5. QED
  BY <1>3, <1>4

(* rie_event_client_list() reads each window.                              *)
LEMMA ClientListIs ==
  ASSUME Typed, ClientList, views # <<>>, roots # <<>>
  PROVE  /\ wins' \in Seq(Listing) /\ DOMAIN wins' = DOMAIN slist
         /\ stale' = {}
         /\ \A i \in DOMAIN wins' :
              /\ slist[i] \in exists =>
                   /\ wins'[i].id = slist[i] /\ wins'[i].desk = sdesk[slist[i]]
                   /\ wins'[i].at = Box(slist[i], sdesk[slist[i]], views, roots)
                   /\ ~wins'[i].dead
              /\ slist[i] \notin exists => wins'[i].dead /\ wins'[i].id = None
         /\ \A i, k \in DOMAIN wins' : wins'[i].id = wins'[k].id =>
              i = k \/ wins'[i].id = None
<1>1. slist \in Seq(Window) /\ IsInjective(slist)
  BY DEF Typed, ClientTypes
<1>2. /\ Len(slist) \in Nat /\ DOMAIN slist = 1..Len(slist)
      /\ \A i \in DOMAIN slist : slist[i] \in Window
  BY <1>1, LenProperties
<1>3. Unread \in Listing /\ ~Unread.dead /\ Unread.id = None
  BY PlacesAssumption DEF Unread, Listing, Desktop
<1>4. wins' = [i \in DOMAIN slist |-> Query(Unread, slist[i])] /\ stale' = {}
  BY DEF ClientList
<1>5. ASSUME NEW i \in DOMAIN slist
      PROVE  /\ wins'[i] \in Listing
             /\ slist[i] \in exists =>
                  /\ wins'[i].id = slist[i] /\ wins'[i].desk = sdesk[slist[i]]
                  /\ wins'[i].at = Box(slist[i], sdesk[slist[i]], views, roots)
                  /\ ~wins'[i].dead
             /\ slist[i] \notin exists => wins'[i].dead /\ wins'[i].id = None
  <2>1. slist[i] \in Window /\ wins'[i] = Query(Unread, slist[i])
    BY <1>2, <1>4
  <2>2. QED
    BY <1>3, <2>1, QueryIs
<1>6. wins' \in [1..Len(slist) -> Listing]
  <2>1. wins' = [i \in DOMAIN slist |-> wins'[i]]
    BY <1>4
  <2>2. QED
    BY <1>2, <1>5, <2>1
<1>7. wins' \in Seq(Listing) /\ DOMAIN wins' = DOMAIN slist
  BY <1>2, <1>6, Sequence
<1>8. ASSUME NEW i \in DOMAIN slist, NEW k \in DOMAIN slist,
             wins'[i].id = wins'[k].id, wins'[i].id # None
      PROVE  i = k
  <2>1. wins'[i].id = slist[i] /\ wins'[k].id = slist[k]
    BY <1>5, <1>8
  <2>2. QED
    BY <1>1, <1>8, <2>1 DEF IsInjective
<1>9. QED
  BY <1>4, <1>5, <1>7, <1>8

(* Every handler leaves a list of windows.                                 *)
LEMMA ListTyped ==
  ASSUME Typed, NEW w,
         \/ DesktopGeometry(Measured) \/ Workarea \/ Viewport \/ VirtualRoots
         \/ DesktopNames \/ Randr
         \/ ClientList /\ views # <<>> /\ roots # <<>>
         \/ w \in Window /\ Configure(w) /\ views # <<>> /\ roots # <<>>
         \/ w \in Window /\ (WmDesktop(w) \/ Destroyed(w))
         \/ UNCHANGED <<wins, stale>>
  PROVE  /\ wins' \in Seq(Listing) /\ stale' \subseteq Window
         /\ \A i, k \in DOMAIN wins' : wins'[i].id = wins'[k].id =>
              i = k \/ wins'[i].id = None
<1>1. wins \in Seq(Listing) /\ stale \subseteq Window
  BY DEF Typed, WindowTypes
<1>2. Known(wins) \subseteq Window
  <2>1. \A i \in DOMAIN wins : wins[i].id \in Window \union {None}
    <3>1. \A i \in DOMAIN wins : wins[i] \in Listing
      BY <1>1, LenProperties
    <3>2. QED
      BY <3>1 DEF Listing
  <2>2. QED
    BY <2>1 DEF Known
<1>3. CASE UNCHANGED wins /\ stale' \subseteq Window
  BY <1>1, <1>3 DEF Typed, WindowTypes
<1>4. ASSUME stale' \subseteq Window, NEW i \in DOMAIN wins, NEW x \in Listing,
             x.id = wins[i].id, wins' = [wins EXCEPT ![i] = x]
      PROVE  /\ wins' \in Seq(Listing) /\ stale' \subseteq Window
             /\ \A j, k \in DOMAIN wins' : wins'[j].id = wins'[k].id =>
                  j = k \/ wins'[j].id = None
  BY <1>4, OneWindow, SameWindows
<1>5. CASE DesktopGeometry(Measured) \/ Workarea \/ DesktopNames \/ Randr
           \/ UNCHANGED <<wins, stale>>
  BY <1>1, <1>3, <1>5 DEF DesktopGeometry, Workarea, DesktopNames, Randr
<1>6. CASE VirtualRoots
  BY <1>1, <1>2, <1>3, <1>6 DEF VirtualRoots
<1>7. CASE Viewport
  <2>1. stale' \subseteq Window
    BY <1>1, <1>2, <1>7, ViewportIs
  <2>2. QED
    BY <1>7, <2>1, ViewportIs, SameWindows
<1>8. CASE ClientList /\ views # <<>> /\ roots # <<>>
  BY <1>8, ClientListIs
<1>9. CASE w \in Window /\ Configure(w) /\ views # <<>> /\ roots # <<>>
  <2>1. \/ UNCHANGED <<wins, stale>>
        \/ \E i \in Found(w) :
             /\ wins' = [wins EXCEPT ![i] = Query(wins[i], w)]
             /\ Query(wins[i], w) \in Listing /\ Query(wins[i], w).id = wins[i].id
             /\ stale' \subseteq stale
    BY <1>9, ConfigureIs
  <2>2. QED
    BY <1>1, <1>3, <1>4, <2>1 DEF Found
<1>10. CASE w \in Window /\ WmDesktop(w)
  <2>1. \/ UNCHANGED <<wins, stale>>
        \/ \E i \in Found(w), x \in Listing :
             /\ wins' = [wins EXCEPT ![i] = x] /\ x.id = wins[i].id
             /\ stale' \subseteq stale \union {w}
    BY <1>10, WmDesktopIs
  <2>2. QED
    BY <1>1, <1>3, <1>4, <1>10, <2>1 DEF Found
<1>11. CASE w \in Window /\ Destroyed(w)
  <2>1. \/ UNCHANGED <<wins, stale>>
        \/ \E i \in Found(w), x \in Listing :
             /\ wins' = [wins EXCEPT ![i] = x] /\ x.id = wins[i].id
             /\ stale' = stale
    BY <1>11, DestroyedIs
  <2>2. QED
    BY <1>1, <1>3, <1>4, <2>1 DEF Found
<1>12. QED
  BY <1>5, <1>6, <1>7, <1>8, <1>9, <1>10, <1>11

(***************************************************************************)
(* Where windows are.                                                      *)
(***************************************************************************)

(* This notification of this window waits in the queue q.                  *)
InQueue(q, kind, w) == \E i \in DOMAIN q : q[i] = Note(kind, w)

AboutWindows == {"configure", "desktop", "destroy"}

(* Notifications about a window name it; one that it is destroyed comes    *)
(* after that.                                                             *)
Truthful(q, there) ==
  \A i \in DOMAIN q :
    /\ q[i].kind \in AboutWindows => q[i].win \in Window
    /\ q[i].kind = "destroy" => q[i].win \notin there

(* A dead window does not exist; one that does not is dead, or rieman will *)
(* be told.                                                                *)
GoneKnown ==
  \A i \in DOMAIN wins :
    /\ wins[i].dead => wins[i].id \notin exists
    /\ wins[i].id \notin exists =>
         wins[i].dead \/ InQueue(notes, "destroy", wins[i].id)

(* The place that is known of a window is the true one relative to the     *)
(* desktop, viewport and virtual root that are known, or rieman will be    *)
(* told to read it, or it is stale; the desktop that is known is the true  *)
(* one, or rieman will be told.                                            *)
PlaceKnown ==
  \A i \in DOMAIN wins : Clean(i) =>
    /\ \/ wins[i].desk = sdesk[wins[i].id]
       \/ InQueue(notes, "desktop", wins[i].id)
    /\ \/ wins[i].at = Box(wins[i].id, wins[i].desk, views, roots)
       \/ wins[i].id \in stale
       \/ InQueue(notes, "configure", wins[i].id)

PlaceInv == Truthful(notes, exists) /\ GoneKnown /\ PlaceKnown

LEMMA NoteIs ==
  ASSUME NEW k, NEW w, NEW l, NEW x, Note(k, w) = Note(l, x)
  PROVE  k = l /\ w = x
  BY DEF Note

(* What was waiting waits still, and what is told waits too.               *)
LEMMA ToldAlso ==
  ASSUME NEW q \in Seq(Notes), NEW kind \in Kinds, NEW w \in Window \union {None},
         NEW there, Truthful(q, there),
         kind \in AboutWindows => w \in Window,
         kind = "destroy" => w \notin there
  PROVE  LET a == Append(q, Note(kind, w))
         IN  /\ InQueue(a, kind, w)
             /\ \A k, x : InQueue(q, k, x) => InQueue(a, k, x)
             /\ Truthful(a, there)
<1> DEFINE n == Note(kind, w)
           a == Append(q, n)
<1>1. n \in Notes /\ n.kind = kind /\ n.win = w
  BY DEF Note, Notes
<1>2. n = Note(kind, w)
  OBVIOUS
<1> HIDE DEF n
<1>3. /\ a \in Seq(Notes) /\ Len(a) = Len(q) + 1
      /\ \A i \in 1..Len(q) : a[i] = q[i]
      /\ a[Len(q) + 1] = n
  BY <1>1, AppendProperties
<1> HIDE DEF a
<1>4. /\ Len(q) \in Nat /\ DOMAIN q = 1..Len(q)
      /\ DOMAIN a = 1..(Len(q) + 1)
  BY <1>3, LenProperties
<1>5. InQueue(a, kind, w)
  BY <1>2, <1>3, <1>4 DEF InQueue
<1>6. \A k, x : InQueue(q, k, x) => InQueue(a, k, x)
  <2>1. DOMAIN q \subseteq DOMAIN a /\ \A i \in DOMAIN q : a[i] = q[i]
    BY <1>3, <1>4
  <2>2. QED
    BY <2>1 DEF InQueue
<1>7. Truthful(a, there)
  <2> SUFFICES ASSUME NEW i \in DOMAIN a
               PROVE  /\ a[i].kind \in AboutWindows => a[i].win \in Window
                      /\ a[i].kind = "destroy" => a[i].win \notin there
    BY DEF Truthful
  <2>1. CASE i \in DOMAIN q
    BY <1>3, <1>4, <2>1 DEF Truthful
  <2>2. CASE i = Len(q) + 1
    BY <1>1, <1>3, <2>2
  <2>3. QED
    BY <1>4, <2>1, <2>2
<1>8. QED
  BY <1>2, <1>5, <1>6, <1>7 DEF a

(* When the first one is taken the others wait still.                      *)
LEMMA TakenFirst ==
  ASSUME NEW q \in Seq(Notes), q # <<>>, NEW there, Truthful(q, there)
  PROVE  /\ \A k, x : InQueue(q, k, x) => Head(q) = Note(k, x) \/ InQueue(Tail(q), k, x)
         /\ Truthful(Tail(q), there)
         /\ Head(q).kind \in AboutWindows => Head(q).win \in Window
         /\ Head(q).kind = "destroy" => Head(q).win \notin there
<1>1. /\ Tail(q) \in Seq(Notes) /\ Len(Tail(q)) = Len(q) - 1
      /\ \A i \in 1..Len(Tail(q)) : Tail(q)[i] = q[i + 1]
  BY HeadTailProperties
<1>2. /\ Len(q) \in Nat /\ DOMAIN q = 1..Len(q) /\ 1 \in DOMAIN q
      /\ DOMAIN Tail(q) = 1..Len(Tail(q)) /\ Head(q) = q[1]
  BY <1>1, EmptySeq, LenProperties
<1>3. ASSUME NEW n, NEW i \in 1..Len(q), q[i] = n, q[1] # n
      PROVE  \E j \in DOMAIN Tail(q) : Tail(q)[j] = n
  <2>1. i - 1 \in 1..Len(Tail(q)) /\ (i - 1) + 1 = i
    BY <1>1, <1>2, <1>3
  <2>2. QED
    BY <1>1, <1>2, <1>3, <2>1
<1>4. \A k, x : InQueue(q, k, x) => Head(q) = Note(k, x) \/ InQueue(Tail(q), k, x)
  BY <1>2, <1>3 DEF InQueue
<1>5. Truthful(Tail(q), there)
  <2>1. \A i \in DOMAIN Tail(q) : i + 1 \in DOMAIN q /\ Tail(q)[i] = q[i + 1]
    BY <1>1, <1>2
  <2>2. QED
    BY <2>1 DEF Truthful
<1>6. QED
  BY <1>2, <1>4, <1>5 DEF Truthful

(* What the window manager does to a window is told.                       *)
LEMMA ServerMoves ==
  ASSUME Typed, ListTypes, Truthful(notes, exists), Server
  PROVE  /\ exists' \subseteq exists
         /\ Truthful(notes', exists')
         /\ \A k, x : InQueue(notes, k, x) => InQueue(notes', k, x)
         /\ \A w \in Window :
              /\ spos'[w] = spos[w] \/ InQueue(notes', "configure", w)
              /\ sdesk'[w] = sdesk[w] \/ InQueue(notes', "desktop", w)
              /\ w \in exists /\ w \notin exists' => InQueue(notes', "destroy", w)
<1> DEFINE Goal ==
       /\ exists' \subseteq exists
       /\ Truthful(notes', exists')
       /\ \A k, x : InQueue(notes, k, x) => InQueue(notes', k, x)
       /\ \A w \in Window :
            /\ spos'[w] = spos[w] \/ InQueue(notes', "configure", w)
            /\ sdesk'[w] = sdesk[w] \/ InQueue(notes', "desktop", w)
            /\ w \in exists /\ w \notin exists' => InQueue(notes', "destroy", w)
<1>1. notes \in Seq(Notes)
  BY DEF ListTypes
<1>2. ASSUME NEW kind \in Kinds \ AboutWindows, Tell(kind, None) \/ UNCHANGED notes,
             UNCHANGED <<exists, sdesk, spos>>
      PROVE  Goal
  <2>1. CASE Tell(kind, None)
    <3>1. kind \in Kinds /\ None \in Window \union {None}
      OBVIOUS
    <3>2. notes' = Append(notes, Note(kind, None))
      BY <2>1 DEF Tell
    <3>3. /\ \A k, x : InQueue(notes, k, x) => InQueue(notes', k, x)
          /\ Truthful(notes', exists)
      BY <1>1, <3>1, <3>2, ToldAlso DEF AboutWindows
    <3>4. QED
      BY <1>2, <3>3
  <2>2. CASE UNCHANGED notes
    BY <1>2, <2>2
  <2>3. QED
    BY <1>2, <2>1, <2>2
<1>3. ASSUME NEW kind \in AboutWindows, NEW w \in Window, Tell(kind, w),
             exists' \subseteq exists, kind = "destroy" => w \notin exists'
      PROVE  /\ InQueue(notes', kind, w)
             /\ \A k, x : InQueue(notes, k, x) => InQueue(notes', k, x)
             /\ Truthful(notes', exists')
  <2>1. kind \in Kinds /\ w \in Window \union {None}
    BY DEF AboutWindows, Kinds
  <2>2. notes' = Append(notes, Note(kind, w))
    BY <1>3 DEF Tell
  <2>3. Truthful(notes, exists')
    BY <1>3 DEF Truthful
  <2>4. QED
    BY <1>1, <1>3, <2>1, <2>2, <2>3, ToldAlso
<1>4. CASE \/ \E s \in Sizes \union {None} : SetGeometry(s) \/ SetOutput(s)
           \/ \E s \in Sizes : ResizeRoot(s)
           \/ \E a \in Areas \union {<<>>} : SetAreas(a)
           \/ \E r \in Roots \union {<<>>} : SetRoots(r)
           \/ \E n \in Names : SetNames(n)
           \/ \E v \in Views \union {<<>>} : SetViews(v)
           \/ \E q \in Views : \E v \in Listed(q), d \in Desktop : BeginScroll(d, v)
           \/ ScrollSet \/ Unlist
  <2>1. UNCHANGED <<exists, sdesk, spos>>
    BY <1>4 DEF SetGeometry, SetOutput, ResizeRoot, SetAreas, SetRoots, SetNames,
                SetViews, BeginScroll, ScrollSet, Unlist
  <2>2. \E kind \in Kinds \ AboutWindows : Tell(kind, None) \/ UNCHANGED notes
    <3>1. /\ "geometry" \in Kinds \ AboutWindows /\ "output" \in Kinds \ AboutWindows
          /\ "workarea" \in Kinds \ AboutWindows /\ "roots" \in Kinds \ AboutWindows
          /\ "names" \in Kinds \ AboutWindows /\ "viewport" \in Kinds \ AboutWindows
          /\ "list" \in Kinds \ AboutWindows
      BY DEF Kinds, AboutWindows
    <3>2. QED
      BY <1>4, <3>1 DEF SetGeometry, SetOutput, ResizeRoot, SetAreas, SetRoots,
                        SetNames, SetViews, BeginScroll, ScrollSet, Unlist
  <2>3. QED
    BY <1>2, <2>1, <2>2
<1>5. ASSUME NEW w \in Window, ScrollWindow(w) \/ \E p \in Places : Move(w, p)
      PROVE  Goal
  <2>1. /\ Tell("configure", w) /\ UNCHANGED <<exists, sdesk>>
        /\ \A x \in Window : x # w => spos'[x] = spos[x]
    BY <1>5 DEF ScrollWindow, Move, Typed, ClientTypes
  <2>2. QED
    BY <1>3, <2>1 DEF AboutWindows
<1>6. ASSUME NEW w \in Window, NEW d \in Desktop, Send(w, d)
      PROVE  Goal
  <2>1. /\ Tell("desktop", w) /\ UNCHANGED <<exists, spos>>
        /\ \A x \in Window : x # w => sdesk'[x] = sdesk[x]
    BY <1>6 DEF Send, Typed, ClientTypes
  <2>2. QED
    BY <1>3, <2>1 DEF AboutWindows
<1>7. ASSUME NEW w \in Window, Destroy(w)
      PROVE  Goal
  <2>1. Tell("destroy", w) /\ exists' = exists \ {w} /\ UNCHANGED <<sdesk, spos>>
    BY <1>7 DEF Destroy
  <2>2. QED
    BY <1>3, <2>1 DEF AboutWindows
<1>8. QED
  BY <1>4, <1>5, <1>6, <1>7 DEF Server

LEMMA ServerPlaced ==
  ASSUME Typed, ListTypes, PlaceInv, Server
  PROVE  PlaceInv'
<1>1. UNCHANGED <<views, roots, wins, stale>>
  BY ServerTells
<1>2. /\ exists' \subseteq exists
      /\ Truthful(notes', exists')
      /\ \A k, x : InQueue(notes, k, x) => InQueue(notes', k, x)
      /\ \A w \in Window :
           /\ spos'[w] = spos[w] \/ InQueue(notes', "configure", w)
           /\ sdesk'[w] = sdesk[w] \/ InQueue(notes', "desktop", w)
           /\ w \in exists /\ w \notin exists' => InQueue(notes', "destroy", w)
  BY ServerMoves DEF PlaceInv
<1>3. /\ DOMAIN wins = 1..Len(wins) /\ Len(wins) \in Nat
      /\ \A i \in DOMAIN wins : wins[i].id \in Window \union {None}
      /\ exists \subseteq Window
  <2>1. wins \in Seq(Listing)
    BY DEF Typed, WindowTypes
  <2>2. \A i \in DOMAIN wins : wins[i] \in Listing
    BY <2>1
  <2>3. QED
    BY <2>1, <2>2, LenProperties DEF Listing, Typed, ClientTypes
<1>4. GoneKnown'
  <2> SUFFICES ASSUME NEW i \in DOMAIN wins
               PROVE  /\ wins[i].dead => wins[i].id \notin exists'
                      /\ wins[i].id \notin exists' =>
                           wins[i].dead \/ InQueue(notes', "destroy", wins[i].id)
    BY <1>1 DEF GoneKnown
  <2>1. /\ wins[i].dead => wins[i].id \notin exists
        /\ wins[i].id \notin exists =>
             wins[i].dead \/ InQueue(notes, "destroy", wins[i].id)
    BY DEF PlaceInv, GoneKnown
  <2>2. QED
    BY <1>2, <1>3, <2>1
<1>5. PlaceKnown'
  <2> SUFFICES ASSUME NEW i \in DOMAIN wins, Clean(i)'
               PROVE  /\ \/ wins[i].desk = sdesk'[wins[i].id]
                         \/ InQueue(notes', "desktop", wins[i].id)
                      /\ \/ wins[i].at = Box(wins[i].id, wins[i].desk, views, roots)'
                         \/ wins[i].id \in stale
                         \/ InQueue(notes', "configure", wins[i].id)
    BY <1>1 DEF PlaceKnown
  <2>1. Clean(i)
    BY <1>1, <1>2 DEF Clean
  <2>2. wins[i].id \in Window
    BY <1>3, <2>1 DEF Clean
  <2>3. /\ \/ wins[i].desk = sdesk[wins[i].id]
           \/ InQueue(notes, "desktop", wins[i].id)
        /\ \/ wins[i].at = Box(wins[i].id, wins[i].desk, views, roots)
           \/ wins[i].id \in stale
           \/ InQueue(notes, "configure", wins[i].id)
    BY <2>1 DEF PlaceInv, PlaceKnown
  <2>4. spos'[wins[i].id] = spos[wins[i].id] =>
          Box(wins[i].id, wins[i].desk, views, roots)'
            = Box(wins[i].id, wins[i].desk, views, roots)
    BY <1>1 DEF Box
  <2>5. QED
    BY <1>2, <2>2, <2>3, <2>4
<1>6. QED
  BY <1>2, <1>4, <1>5 DEF PlaceInv

(* When a handler has been called, rie_event_init()'s or an event's.       *)
LEMMA CalledTyped ==
  ASSUME Typed, NEW w,
         \/ DesktopGeometry(Measured) \/ Workarea \/ Viewport \/ VirtualRoots
         \/ DesktopNames \/ Randr
         \/ ClientList /\ views # <<>> /\ roots # <<>>
         \/ w \in Window /\ Configure(w) /\ views # <<>> /\ roots # <<>>
         \/ w \in Window /\ (WmDesktop(w) \/ Destroyed(w))
         \/ UNCHANGED <<known, wins, stale>>,
         UNCHANGED <<server, subset, root>>,
         todo' \in 0..8,
         todo' <= 5 => areas # <<>> \/ Workarea,
         todo' <= 4 => views # <<>> \/ Viewport,
         todo' <= 3 => roots # <<>> \/ VirtualRoots,
         todo' >= 2 => wins' = <<>>
  PROVE  Typed'
<1>1. ServerTypes' /\ ClientTypes' /\ ScrollTypes'
  BY DEF Typed, ServerTypes, ClientTypes, ScrollTypes, Entry
<1>2. /\ geom' \in Sizes \union {0} /\ monitor' \in Sizes \union {0}
      /\ areas' \in Seq([x : Int, w : Nat]) /\ views' \in Seq(View)
      /\ roots' \in Seq(Nat) /\ names' \in Names \union {None}
      /\ areas # <<>> \/ Workarea => areas' # <<>>
      /\ views # <<>> \/ Viewport => views' # <<>>
      /\ roots # <<>> \/ VirtualRoots => roots' # <<>>
  <2>1. \/ DesktopGeometry(Measured) \/ Workarea \/ Viewport \/ VirtualRoots
        \/ DesktopNames \/ Randr
        \/ ClientList \/ Configure(w) \/ WmDesktop(w) \/ Destroyed(w)
        \/ UNCHANGED known
    OBVIOUS
  <2>2. QED
    BY <2>1, HandlersTyped
<1>3. KnownTypes'
  BY <1>2 DEF Typed, KnownTypes
<1>4. /\ wins' \in Seq(Listing) /\ stale' \subseteq Window
      /\ \A i, k \in DOMAIN wins' : wins'[i].id = wins'[k].id =>
           i = k \/ wins'[i].id = None
  <2>1. \/ DesktopGeometry(Measured) \/ Workarea \/ Viewport \/ VirtualRoots
        \/ DesktopNames \/ Randr
        \/ ClientList /\ views # <<>> /\ roots # <<>>
        \/ w \in Window /\ Configure(w) /\ views # <<>> /\ roots # <<>>
        \/ w \in Window /\ (WmDesktop(w) \/ Destroyed(w))
        \/ UNCHANGED <<wins, stale>>
    OBVIOUS
  <2>2. QED
    BY <2>1, ListTyped
<1>5. WindowTypes'
  BY <1>4 DEF WindowTypes
<1>6. QED
  BY <1>1, <1>3, <1>5 DEF Typed

(* The handlers before rie_event_client_list() find no windows to read.    *)
LEMMA NoWindows ==
  ASSUME wins = <<>>,
         \/ DesktopGeometry(Measured) \/ Workarea \/ Viewport \/ VirtualRoots
         \/ DesktopNames \/ Randr \/ UNCHANGED wins
  PROVE  wins' = <<>>
<1>1. CASE Viewport
  <2>1. wins' = wins \/ wins' = UpdateGeometry(wins, views', OrZero(roots))
    BY <1>1 DEF Viewport
  <2>2. \A vs, rs : DOMAIN UpdateGeometry(wins, vs, rs) = DOMAIN wins
    BY DEF UpdateGeometry
  <2>3. CASE wins' = UpdateGeometry(wins, views', OrZero(roots))
    <3>1. wins' = [i \in {} |-> wins'[i]]
      BY <2>3 DEF UpdateGeometry
    <3>2. wins' \in [1..0 -> {}]
      BY <3>1
    <3>3. QED
      BY <3>2, EmptySeq
  <2>4. QED
    BY <2>1, <2>3
<1>2. CASE ~Viewport
  BY <1>2 DEF DesktopGeometry, Workarea, VirtualRoots, DesktopNames, Randr
<1>3. QED
  BY <1>1, <1>2

LEMMA InitialiseTyped ==
  ASSUME Typed, Initialise
  PROVE  Typed'
<1>1. /\ todo \in 1..8 /\ todo' = todo - 1 /\ UNCHANGED <<server, subset, root>>
  BY DEF Initialise, Typed, KnownTypes
<1>2. /\ todo <= 5 => areas # <<>>
      /\ todo <= 4 => views # <<>>
      /\ todo <= 3 => roots # <<>>
      /\ todo >= 2 => wins = <<>>
  BY DEF Typed, KnownTypes, WindowTypes
<1> DEFINE Step == \/ DesktopGeometry(Measured) \/ Workarea \/ Viewport \/ VirtualRoots
                   \/ DesktopNames \/ Randr \/ UNCHANGED <<known, wins, stale>>
<1>3. /\ \/ (todo = 2 /\ ClientList)
         \/ Step
      /\ todo = 6 => Workarea
      /\ todo = 5 => Viewport
      /\ todo = 4 => VirtualRoots
  <2>1. todo = 8 => Randr \/ UNCHANGED <<known, wins, stale>>
    BY DEF Initialise
  <2>2. todo = 7 => DesktopGeometry(Measured)
    BY DEF Initialise
  <2>3. todo = 6 => Workarea
    BY DEF Initialise
  <2>4. todo = 5 => Viewport
    BY DEF Initialise
  <2>5. todo = 4 => VirtualRoots
    BY DEF Initialise
  <2>6. todo = 3 => DesktopNames
    BY DEF Initialise
  <2>7. todo = 2 => ClientList
    BY DEF Initialise
  <2>8. todo = 1 => UNCHANGED <<known, wins, stale>>
    BY DEF Initialise
  <2>9. QED
    BY <1>1, <2>1, <2>2, <2>3, <2>4, <2>5, <2>6, <2>7, <2>8
<1>4. /\ todo' \in 0..8
      /\ todo' <= 5 => areas # <<>> \/ Workarea
      /\ todo' <= 4 => views # <<>> \/ Viewport
      /\ todo' <= 3 => roots # <<>> \/ VirtualRoots
  BY <1>1, <1>2, <1>3
<1>5. CASE Step
  <2>1. todo' >= 2 => wins' = <<>>
    <3>1. SUFFICES ASSUME wins = <<>> PROVE wins' = <<>>
      BY <1>1, <1>2
    <3>2. UNCHANGED <<known, wins, stale>> => UNCHANGED wins
      OBVIOUS
    <3>3. QED
      BY <1>5, <3>1, <3>2, NoWindows
  <2>2. QED
    BY <1>1, <1>4, <1>5, <2>1, CalledTyped
<1>6. CASE todo = 2 /\ ClientList
  <2>1. todo' < 2 /\ views # <<>> /\ roots # <<>>
    BY <1>1, <1>2, <1>6
  <2>2. QED
    BY <1>1, <1>4, <1>6, <2>1, CalledTyped
<1>7. QED
  BY <1>3, <1>5, <1>6

(* The first event, and what its handler does.                             *)
LEMMA HandleIs ==
  ASSUME Typed, ListTypes, Truthful(notes, exists), Handle
  PROVE  /\ todo = 0 /\ todo' = 0 /\ notes' = Tail(notes)
         /\ UNCHANGED <<server, subset, root>>
         /\ areas # <<>> /\ views # <<>> /\ roots # <<>>
         /\ Truthful(notes', exists)
         /\ \E kind, w :
              /\ \A k, x : InQueue(notes, k, x) =>
                   (k = kind /\ x = w) \/ InQueue(notes', k, x)
              /\ kind \in AboutWindows => w \in Window
              /\ kind = "destroy" => w \notin exists
              /\ \/ kind = "geometry" /\ DesktopGeometry(Measured)
                 \/ kind = "geometry" /\ UNCHANGED <<known, wins, stale>>
                 \/ kind = "workarea" /\ Workarea
                 \/ kind = "viewport" /\ Viewport
                 \/ kind = "roots" /\ VirtualRoots
                 \/ kind = "names" /\ DesktopNames
                 \/ kind = "list" /\ ClientList
                 \/ kind = "output" /\ Randr
                 \/ kind = "configure" /\ Configure(w)
                 \/ kind = "desktop" /\ WmDesktop(w)
                 \/ kind = "destroy" /\ Destroyed(w)
<1>1. /\ todo = 0 /\ todo' = 0 /\ notes' = Tail(notes) /\ notes # <<>>
      /\ UNCHANGED <<server, subset, root>>
  BY DEF Handle
<1>2. areas # <<>> /\ views # <<>> /\ roots # <<>>
  BY <1>1 DEF Typed, KnownTypes
<1>3. notes \in Seq(Notes)
  BY DEF ListTypes
<1>4. PICK h : h = Head(notes)
  OBVIOUS
<1>5. /\ \A k, x : InQueue(notes, k, x) => h = Note(k, x) \/ InQueue(notes', k, x)
      /\ Truthful(notes', exists)
      /\ h.kind \in AboutWindows => h.win \in Window
      /\ h.kind = "destroy" => h.win \notin exists
  BY <1>1, <1>3, <1>4, TakenFirst
<1>6. \A k, x : InQueue(notes, k, x) =>
        (k = h.kind /\ x = h.win) \/ InQueue(notes', k, x)
  BY <1>5 DEF Note
<1>7. \/ h.kind = "geometry" /\ DesktopGeometry(Measured)
      \/ h.kind = "geometry" /\ UNCHANGED <<known, wins, stale>>
      \/ h.kind = "workarea" /\ Workarea
      \/ h.kind = "viewport" /\ Viewport
      \/ h.kind = "roots" /\ VirtualRoots
      \/ h.kind = "names" /\ DesktopNames
      \/ h.kind = "list" /\ ClientList
      \/ h.kind = "output" /\ Randr
      \/ h.kind = "configure" /\ Configure(h.win)
      \/ h.kind = "desktop" /\ WmDesktop(h.win)
      \/ h.kind = "destroy" /\ Destroyed(h.win)
  BY <1>4 DEF Handle
<1>8. QED
  BY <1>1, <1>2, <1>5, <1>6, <1>7

LEMMA HandleTyped ==
  ASSUME Typed, ListTypes, Truthful(notes, exists), Handle
  PROVE  Typed'
<1>1. /\ todo' = 0 /\ UNCHANGED <<server, subset, root>>
      /\ areas # <<>> /\ views # <<>> /\ roots # <<>>
  BY HandleIs
<1>2. PICK w :
        \/ DesktopGeometry(Measured) \/ Workarea \/ Viewport \/ VirtualRoots
        \/ DesktopNames \/ Randr \/ ClientList
        \/ w \in Window /\ (Configure(w) \/ WmDesktop(w) \/ Destroyed(w))
        \/ UNCHANGED <<known, wins, stale>>
  BY HandleIs DEF AboutWindows
<1>3. todo' \in 0..8 /\ ~(todo' >= 2)
  BY <1>1
<1>4. QED
  BY <1>1, <1>2, <1>3, CalledTyped

LEMMA ReloadTyped ==
  ASSUME Typed, Reload
  PROVE  Typed'
<1>1. ServerTypes' /\ ClientTypes' /\ ScrollTypes'
  BY DEF Reload, Typed, ServerTypes, ClientTypes, ScrollTypes, Entry
<1>2. KnownTypes'
  BY EmptySeq DEF Reload, InitHandlers, Typed, KnownTypes
<1>3. WindowTypes'
  BY EmptySeq DEF Reload, WindowTypes
<1>4. QED
  BY <1>1, <1>2, <1>3 DEF Typed

LEMMA InitTyped ==
  ASSUME Init
  PROVE  Typed
<1>1. ServerTypes
  BY PlacesAssumption, EmptySeq DEF Init, ServerTypes
<1>2. ClientTypes
  <2>1. exists = Window /\ sdesk = [w \in Window |-> 0]
        /\ \E p \in Places : spos = [w \in Window |-> p]
    BY DEF Init
  <2>2. sdesk \in [Window -> Desktop] /\ spos \in [Window -> Int]
    BY <2>1, PlacesAssumption DEF Desktop
  <2>3. slist \in [1..Cardinality(Window) -> Window] /\ IsInjective(slist)
    BY DEF Init
  <2>4. Cardinality(Window) \in Nat
    BY PlacesAssumption, FS_CardinalityType
  <2>5. slist \in Seq(Window)
    BY <2>3, <2>4, Sequence
  <2>6. QED
    BY <2>1, <2>2, <2>3, <2>5 DEF ClientTypes
<1>3. ScrollTypes
  BY DEF Init, ScrollTypes
<1>4. KnownTypes
  BY PlacesAssumption, EmptySeq DEF Init, InitHandlers, KnownTypes
<1>5. WindowTypes
  BY EmptySeq DEF Init, WindowTypes
<1>6. QED
  BY <1>1, <1>2, <1>3, <1>4, <1>5 DEF Typed

LEMMA SameTyped ==
  ASSUME Typed, UNCHANGED vars
  PROVE  Typed'
<1>1. ServerTypes' /\ ClientTypes' /\ ScrollTypes' /\ KnownTypes'
  BY DEF Typed, ServerTypes, ClientTypes, ScrollTypes, Entry, KnownTypes
<1>2. WindowTypes'
  BY DEF Typed, WindowTypes
<1>3. QED
  BY <1>1, <1>2 DEF Typed

(* The place and desktop of one window are known, or it is told.           *)
PlaceOf(i) ==
  /\ \/ wins[i].desk = sdesk[wins[i].id]
     \/ InQueue(notes, "desktop", wins[i].id)
  /\ \/ wins[i].at = Box(wins[i].id, wins[i].desk, views, roots)
     \/ wins[i].id \in stale
     \/ InQueue(notes, "configure", wins[i].id)

(* What there is to know of the windows in the list.                        *)
LEMMA ListWindows ==
  ASSUME Typed
  PROVE  /\ DOMAIN wins = 1..Len(wins) /\ Len(wins) \in Nat
         /\ \A i \in DOMAIN wins : i \in Nat /\ wins[i] \in Listing /\ i \in 1..i
         /\ \A i \in DOMAIN wins : Clean(i) => wins[i].id \in exists
         /\ exists \subseteq Window
<1>1. /\ DOMAIN wins = 1..Len(wins) /\ Len(wins) \in Nat
      /\ \A i \in DOMAIN wins : wins[i] \in Listing
  BY LenProperties DEF Typed, WindowTypes
<1>2. \A i \in DOMAIN wins : i \in Nat /\ i \in 1..i
  BY <1>1
<1>3. QED
  BY <1>1, <1>2 DEF Clean, Typed, ClientTypes

(* What a handler that is not about windows leaves as it was.              *)
LEMMA OthersPlaced ==
  ASSUME PlaceInv, UNCHANGED <<clients, wins, stale, views, roots>>,
         Truthful(notes', exists),
         \A i \in DOMAIN wins, k \in AboutWindows :
           InQueue(notes, k, wins[i].id) => InQueue(notes', k, wins[i].id)
  PROVE  PlaceInv'
<1>1. Truthful(notes', exists')
  BY DEF PlaceInv
<1>2. GoneKnown'
  BY DEF PlaceInv, GoneKnown, AboutWindows
<1>3. PlaceKnown'
  <2> SUFFICES ASSUME NEW i \in DOMAIN wins, Clean(i)'
               PROVE  PlaceOf(i)'
    BY DEF PlaceKnown, PlaceOf
  <2>1. Clean(i)
    BY DEF Clean
  <2>2. PlaceOf(i)
    BY <2>1 DEF PlaceInv, PlaceKnown, PlaceOf
  <2>3. QED
    BY <2>2 DEF PlaceOf, Box, AboutWindows
<1>4. QED
  BY <1>1, <1>2, <1>3 DEF PlaceInv

(* A list of the same windows, as dead as they were.                       *)
LEMMA SameGone ==
  ASSUME Typed, PlaceInv, UNCHANGED clients, DOMAIN wins' = DOMAIN wins,
         \A i \in DOMAIN wins : wins'[i].id = wins[i].id /\ wins'[i].dead = wins[i].dead,
         \A x : InQueue(notes, "destroy", x) => InQueue(notes', "destroy", x)
  PROVE  GoneKnown' /\ \A i \in DOMAIN wins : Clean(i)' => PlaceOf(i)
<1>1. GoneKnown'
  BY DEF PlaceInv, GoneKnown
<1>2. ASSUME NEW i \in DOMAIN wins, Clean(i)'
      PROVE  PlaceOf(i)
  <2>1. \A k \in 1..i : k \in DOMAIN wins
    BY LenProperties DEF Typed, WindowTypes
  <2>2. Clean(i)
    BY <1>2, <2>1 DEF Clean
  <2>3. QED
    BY <2>2 DEF PlaceInv, PlaceKnown, PlaceOf
<1>3. QED
  BY <1>1, <1>2

(* Windows are read, or become stale, when the viewport is set.            *)
LEMMA ViewportPlaced ==
  ASSUME Typed, PlaceInv, Viewport, UNCHANGED clients, roots # <<>>,
         Truthful(notes', exists),
         \A k, x : k \in AboutWindows /\ InQueue(notes, k, x) => InQueue(notes', k, x)
  PROVE  PlaceInv'
<1>1. /\ DOMAIN wins' = DOMAIN wins
      /\ \A i \in DOMAIN wins :
           /\ wins'[i].id = wins[i].id /\ wins'[i].desk = wins[i].desk
           /\ wins'[i].dead = wins[i].dead
  BY ViewportIs
<1>2. GoneKnown' /\ \A i \in DOMAIN wins : Clean(i)' => PlaceOf(i)
  BY <1>1, SameGone DEF AboutWindows
<1>3. roots' = roots /\ OrZero(roots) = roots
  BY DEF Viewport, OrZero
<1>4. PlaceKnown'
  <2> SUFFICES ASSUME NEW i \in DOMAIN wins, Clean(i)'
               PROVE  PlaceOf(i)'
    BY <1>1 DEF PlaceKnown, PlaceOf
  <2>1. PlaceOf(i)
    BY <1>2
  <2>2. Clean(i)
    BY <1>1, ListWindows DEF Clean
  <2>3. wins[i].id \in Window /\ wins[i].id # None
    BY <2>2, ListWindows, PlacesAssumption
  <2>4. \/ wins'[i].desk = sdesk'[wins'[i].id]
        \/ InQueue(notes', "desktop", wins'[i].id)
    BY <1>1, <2>1 DEF PlaceOf, AboutWindows
  <2>5. \/ wins'[i].at = Box(wins'[i].id, wins'[i].desk, views', roots')
        \/ wins'[i].id \in stale'
    <3>1. CASE sviews = <<>>
      <4>1. stale' = Known(wins)
        BY <3>1, ViewportIs
      <4>2. QED
        BY <1>1, <2>3, <4>1 DEF Known
    <3>2. CASE sviews # <<>>
      <4>1. wins'[i].at = Box(wins[i].id, wins[i].desk, views', roots')
        BY <1>3, <2>2, <3>2, ViewportIs
      <4>2. QED
        BY <1>1, <4>1 DEF Box
    <3>3. QED
      BY <3>1, <3>2
  <2>6. QED
    BY <2>4, <2>5 DEF PlaceOf, Box
<1>5. QED
  BY <1>2, <1>4 DEF PlaceInv

(* Windows become stale when the virtual roots change.                     *)
LEMMA RootsPlaced ==
  ASSUME Typed, PlaceInv, VirtualRoots, UNCHANGED clients,
         Truthful(notes', exists),
         \A k, x : k \in AboutWindows /\ InQueue(notes, k, x) => InQueue(notes', k, x)
  PROVE  PlaceInv'
<1>1. /\ UNCHANGED <<wins, views>>
      /\ stale' = IF roots' # roots THEN Known(wins) ELSE stale
  BY DEF VirtualRoots
<1>2. CASE roots' = roots
  BY <1>1, <1>2, OthersPlaced
<1>3. CASE roots' # roots
  <2>1. GoneKnown' /\ \A i \in DOMAIN wins : Clean(i)' => PlaceOf(i)
    BY <1>1, SameGone DEF AboutWindows
  <2>2. PlaceKnown'
    <3> SUFFICES ASSUME NEW i \in DOMAIN wins, Clean(i)'
                 PROVE  PlaceOf(i)'
      BY <1>1 DEF PlaceKnown, PlaceOf
    <3>1. PlaceOf(i) /\ Clean(i)
      BY <1>1, <2>1 DEF Clean
    <3>2. wins[i].id \in stale'
      BY <1>1, <1>3, <3>1, ListWindows, PlacesAssumption DEF Known
    <3>3. QED
      BY <1>1, <3>1, <3>2 DEF PlaceOf, AboutWindows
  <2>3. QED
    BY <2>1, <2>2 DEF PlaceInv
<1>4. QED
  BY <1>2, <1>3

(* All windows are read with the list.                                     *)
LEMMA ListPlaced ==
  ASSUME Typed, ClientList, UNCHANGED clients, views # <<>>, roots # <<>>,
         Truthful(notes', exists)
  PROVE  PlaceInv'
<1>1. /\ DOMAIN wins' = DOMAIN slist /\ wins' \in Seq(Listing)
      /\ \A i \in DOMAIN wins' :
           /\ slist[i] \in exists =>
                /\ wins'[i].id = slist[i] /\ wins'[i].desk = sdesk[slist[i]]
                /\ wins'[i].at = Box(slist[i], sdesk[slist[i]], views, roots)
                /\ ~wins'[i].dead
           /\ slist[i] \notin exists => wins'[i].dead /\ wins'[i].id = None
  BY ClientListIs
<1>2. UNCHANGED <<views, roots>>
  BY WindowHandlersKnow
<1>3. None \notin exists /\ exists \subseteq Window
  BY PlacesAssumption DEF Typed, ClientTypes
<1>4. GoneKnown'
  BY <1>1, <1>3 DEF GoneKnown
<1>5. PlaceKnown'
  <2> SUFFICES ASSUME NEW i \in DOMAIN wins', Clean(i)'
               PROVE  PlaceOf(i)'
    BY DEF PlaceKnown, PlaceOf
  <2>1. i \in 1..i
    BY <1>1, LenProperties
  <2>2. slist[i] \in exists
    BY <1>1, <1>3, <2>1 DEF Clean
  <2>3. /\ wins'[i].id = slist[i] /\ wins'[i].desk = sdesk[slist[i]]
        /\ wins'[i].at = Box(slist[i], sdesk[slist[i]], views, roots)
    BY <1>1, <2>2
  <2>4. wins'[i].at = Box(wins'[i].id, wins'[i].desk, views', roots')
    BY <1>2, <2>3
  <2>5. QED
    BY <2>3, <2>4 DEF PlaceOf, Box
<1>6. QED
  BY <1>4, <1>5 DEF PlaceInv

(* What happens to one window leaves the others where they are known to be. *)
LEMMA OnePlaced ==
  ASSUME Typed, PlaceInv, UNCHANGED <<clients, views, roots>>,
         Truthful(notes', exists),
         NEW i \in DOMAIN wins, NEW x \in Listing, x.id = wins[i].id,
         wins' = [wins EXCEPT ![i] = x],
         \A w \in stale : w = wins[i].id \/ w \in stale',
         \A k, w : InQueue(notes, k, w) => w = wins[i].id \/ InQueue(notes', k, w),
         wins[i].id # None,
         x.dead => wins[i].id \notin exists,
         wins[i].id \notin exists =>
           x.dead \/ InQueue(notes', "destroy", wins[i].id),
         Clean(i) => PlaceOf(i)'
  PROVE  PlaceInv'
<1>1. /\ DOMAIN wins' = DOMAIN wins
      /\ wins'[i] = x /\ \A k \in DOMAIN wins : k # i => wins'[k] = wins[k]
      /\ \A k \in DOMAIN wins : wins'[k].id = wins[k].id
  BY OneWindow
<1>2. \A k \in DOMAIN wins : k # i => wins[k].id # wins[i].id
  BY DEF Typed, WindowTypes
<1>3. GoneKnown'
  <2> SUFFICES ASSUME NEW k \in DOMAIN wins
               PROVE  /\ wins'[k].dead => wins[k].id \notin exists
                      /\ wins[k].id \notin exists =>
                           wins'[k].dead \/ InQueue(notes', "destroy", wins[k].id)
    BY <1>1 DEF GoneKnown
  <2>1. CASE k = i
    BY <1>1, <2>1
  <2>2. CASE k # i
    BY <1>1, <1>2, <2>2 DEF PlaceInv, GoneKnown
  <2>3. QED
    BY <2>1, <2>2
<1>4. PlaceKnown'
  <2> SUFFICES ASSUME NEW k \in DOMAIN wins, Clean(k)'
               PROVE  PlaceOf(k)'
    BY <1>1 DEF PlaceKnown, PlaceOf
  <2>1. Clean(k)
    BY <1>1, ListWindows DEF Clean
  <2>2. CASE k = i
    BY <2>1, <2>2
  <2>3. CASE k # i
    <3>1. PlaceOf(k)
      BY <2>1 DEF PlaceInv, PlaceKnown, PlaceOf
    <3>2. wins'[k] = wins[k] /\ wins[k].id # wins[i].id
      BY <1>1, <1>2, <2>3
    <3>3. QED
      BY <3>1, <3>2 DEF PlaceOf, Box
  <2>4. QED
    BY <2>2, <2>3
<1>5. QED
  BY <1>3, <1>4 DEF PlaceInv

(* A window that has moved is read.                                        *)
LEMMA ConfigurePlaced ==
  ASSUME Typed, PlaceInv, NEW w \in Window, Configure(w), UNCHANGED clients,
         views # <<>>, roots # <<>>, Truthful(notes', exists),
         \A k, x : InQueue(notes, k, x) =>
           (k = "configure" /\ x = w) \/ InQueue(notes', k, x)
  PROVE  PlaceInv'
<1>1. UNCHANGED <<views, roots>>
  BY WindowHandlersKnow
<1>2. CASE Found(w) = {} /\ UNCHANGED <<wins, stale>>
  <2>1. \A i \in DOMAIN wins : wins[i].id # w
    BY <1>2 DEF Found
  <2>2. QED
    BY <1>1, <1>2, <2>1, OthersPlaced
<1>3. CASE \E i \in Found(w) :
             /\ wins' = [wins EXCEPT ![i] = Query(wins[i], w)]
             /\ Query(wins[i], w) \in Listing /\ Query(wins[i], w).id = wins[i].id
             /\ stale' = IF w \in exists THEN stale \ {w} ELSE stale
  <2>1. PICK i \in Found(w) :
             /\ wins' = [wins EXCEPT ![i] = Query(wins[i], w)]
             /\ Query(wins[i], w) \in Listing /\ Query(wins[i], w).id = wins[i].id
             /\ stale' = IF w \in exists THEN stale \ {w} ELSE stale
    BY <1>3
  <2>2. i \in DOMAIN wins /\ wins[i].id = w /\ wins[i] \in Listing
    BY FoundIs
  <2>3. PICK x \in Listing : x = Query(wins[i], w)
    BY <2>1
  <2>4. /\ w \in exists => /\ x.desk = sdesk[w] /\ x.dead = wins[i].dead
                           /\ x.at = Box(w, sdesk[w], views, roots)
        /\ w \notin exists => x.dead
    BY <2>2, <2>3, QueryIs
  <2>5. x.id = wins[i].id /\ wins' = [wins EXCEPT ![i] = x]
    BY <2>1, <2>3
  <2>6. /\ \A y \in stale : y = wins[i].id \/ y \in stale'
        /\ wins[i].id # None
    BY <2>1, <2>2, PlacesAssumption
  <2>7. \A k, y : InQueue(notes, k, y) => y = wins[i].id \/ InQueue(notes', k, y)
    BY <2>2
  <2>8. x.dead => w \notin exists
    BY <2>2, <2>4 DEF PlaceInv, GoneKnown
  <2>9. ASSUME Clean(i)
        PROVE  PlaceOf(i)'
    <3>1. w \in exists
      BY <2>2, <2>9, ListWindows
    <3>2. wins'[i] = x
      BY <2>2, <2>5
    <3>3. wins'[i].id = w /\ wins'[i].desk = sdesk[w]
          /\ wins'[i].at = Box(w, sdesk[w], views', roots')
      BY <1>1, <2>2, <2>4, <2>5, <3>1, <3>2
    <3>4. QED
      BY <3>3 DEF PlaceOf, Box
  <2>10. QED
    BY <1>1, <2>2, <2>4, <2>5, <2>6, <2>7, <2>8, <2>9, OnePlaced
<1>4. QED
  BY <1>2, <1>3, ConfigureIs

(* The place of a window that was sent to another desktop is stale.        *)
LEMMA DesktopPlaced ==
  ASSUME Typed, PlaceInv, NEW w \in Window, WmDesktop(w), UNCHANGED clients,
         Truthful(notes', exists),
         \A k, x : InQueue(notes, k, x) =>
           (k = "desktop" /\ x = w) \/ InQueue(notes', k, x)
  PROVE  PlaceInv'
<1>1. UNCHANGED <<views, roots>>
  BY WindowHandlersKnow
<1>2. CASE {i \in Found(w) : ~wins[i].dead} = {} /\ UNCHANGED <<wins, stale>>
  <2>1. CASE Found(w) = {}
    <3>1. \A i \in DOMAIN wins : wins[i].id # w
      BY <2>1 DEF Found
    <3>2. QED
      BY <1>1, <1>2, <3>1, OthersPlaced
  <2>2. CASE Found(w) # {}
    <3>1. PICK i \in Found(w) : TRUE
      BY <2>2
    <3>2. i \in DOMAIN wins /\ wins[i].id = w /\ wins[i] \in Listing
      BY FoundIs
    <3>3. wins[i].dead /\ w \notin exists
      BY <1>2, <3>2 DEF PlaceInv, GoneKnown
    <3>4. ~Clean(i) /\ wins[i].id # None
      BY <3>2, <3>3, ListWindows, PlacesAssumption
    <3>5. wins' = [wins EXCEPT ![i] = wins[i]]
      BY <1>2, <3>2 DEF Typed, WindowTypes
    <3>6. PICK x \in Listing : x = wins[i]
      BY <3>2
    <3>7. \A k, y : InQueue(notes, k, y) => y = wins[i].id \/ InQueue(notes', k, y)
      BY <3>2
    <3>8. QED
      BY <1>1, <1>2, <3>2, <3>3, <3>4, <3>5, <3>6, <3>7, OnePlaced
  <2>3. QED
    BY <2>1, <2>2
<1>3. CASE \E i \in Found(w), d \in Desktop, x \in Listing :
             /\ w \in exists => d = sdesk[w]
             /\ wins' = [wins EXCEPT ![i] = x]
             /\ x.id = wins[i].id /\ x.at = wins[i].at /\ x.dead = wins[i].dead
             /\ x.desk = d
             /\ stale' = IF d # wins[i].desk THEN stale \union {w} ELSE stale
  <2>1. PICK i \in Found(w), d \in Desktop, x \in Listing :
             /\ w \in exists => d = sdesk[w]
             /\ wins' = [wins EXCEPT ![i] = x]
             /\ x.id = wins[i].id /\ x.at = wins[i].at /\ x.dead = wins[i].dead
             /\ x.desk = d
             /\ stale' = IF d # wins[i].desk THEN stale \union {w} ELSE stale
    BY <1>3
  <2>2. i \in DOMAIN wins /\ wins[i].id = w /\ wins[i] \in Listing
    BY FoundIs
  <2>3. /\ \A y \in stale : y \in stale'
        /\ wins[i].id # None
    BY <2>1, <2>2, PlacesAssumption
  <2>4. \A k, y : InQueue(notes, k, y) => y = wins[i].id \/ InQueue(notes', k, y)
    BY <2>2
  <2>5. /\ x.dead => w \notin exists
        /\ w \notin exists => x.dead \/ InQueue(notes', "destroy", w)
    BY <2>1, <2>2 DEF PlaceInv, GoneKnown
  <2>6. ASSUME Clean(i)
        PROVE  PlaceOf(i)'
    <3>1. w \in exists
      BY <2>2, <2>6, ListWindows
    <3>2. wins'[i] = x
      BY <2>1, <2>2
    <3>3. wins'[i].id = w /\ wins'[i].desk = sdesk[w]
      BY <2>1, <2>2, <3>1, <3>2
    <3>4. CASE x.desk = wins[i].desk
      <4>1. PlaceOf(i)
        BY <2>2, <2>6 DEF PlaceInv, PlaceKnown, PlaceOf
      <4>2. wins'[i].at = wins[i].at /\ wins'[i].desk = wins[i].desk
        BY <2>1, <3>2, <3>4
      <4>3. QED
        BY <1>1, <2>1, <2>2, <2>3, <3>3, <4>1, <4>2 DEF PlaceOf, Box
    <3>5. CASE x.desk # wins[i].desk
      <4>1. w \in stale'
        BY <2>1, <3>5
      <4>2. QED
        BY <3>3, <4>1 DEF PlaceOf
    <3>6. QED
      BY <3>4, <3>5
  <2>7. QED
    BY <1>1, <2>1, <2>2, <2>3, <2>4, <2>5, <2>6, OnePlaced
<1>4. QED
  BY <1>2, <1>3, WmDesktopIs

(* A window that was destroyed is dead.                                    *)
LEMMA DestroyedPlaced ==
  ASSUME Typed, PlaceInv, NEW w \in Window, w \notin exists, Destroyed(w),
         UNCHANGED clients, Truthful(notes', exists),
         \A k, x : InQueue(notes, k, x) =>
           (k = "destroy" /\ x = w) \/ InQueue(notes', k, x)
  PROVE  PlaceInv'
<1>1. UNCHANGED <<views, roots>>
  BY WindowHandlersKnow
<1>2. CASE Found(w) = {} /\ UNCHANGED <<wins, stale>>
  <2>1. \A i \in DOMAIN wins : wins[i].id # w
    BY <1>2 DEF Found
  <2>2. QED
    BY <1>1, <1>2, <2>1, OthersPlaced
<1>3. CASE \E i \in Found(w), x \in Listing :
             /\ wins' = [wins EXCEPT ![i] = x]
             /\ x.id = wins[i].id /\ x.dead /\ stale' = stale
  <2>1. PICK i \in Found(w), x \in Listing :
             /\ wins' = [wins EXCEPT ![i] = x]
             /\ x.id = wins[i].id /\ x.dead /\ stale' = stale
    BY <1>3
  <2>2. i \in DOMAIN wins /\ wins[i].id = w /\ wins[i] \in Listing
    BY FoundIs
  <2>3. ~Clean(i) /\ wins[i].id # None
    BY <2>2, ListWindows, PlacesAssumption
  <2>4. \A k, y : InQueue(notes, k, y) => y = wins[i].id \/ InQueue(notes', k, y)
    BY <2>2
  <2>5. QED
    BY <1>1, <2>1, <2>2, <2>3, <2>4, OnePlaced
<1>4. QED
  BY <1>2, <1>3, DestroyedIs

LEMMA HandlePlaced ==
  ASSUME Typed, ListTypes, PlaceInv, Handle
  PROVE  PlaceInv'
<1>1. /\ UNCHANGED clients /\ views # <<>> /\ roots # <<>>
      /\ Truthful(notes', exists)
  BY HandleIs DEF PlaceInv
<1>2. PICK kind, w :
              /\ \A k, x : InQueue(notes, k, x) =>
                   (k = kind /\ x = w) \/ InQueue(notes', k, x)
              /\ kind \in AboutWindows => w \in Window
              /\ kind = "destroy" => w \notin exists
              /\ \/ kind = "geometry" /\ DesktopGeometry(Measured)
                 \/ kind = "geometry" /\ UNCHANGED <<known, wins, stale>>
                 \/ kind = "workarea" /\ Workarea
                 \/ kind = "viewport" /\ Viewport
                 \/ kind = "roots" /\ VirtualRoots
                 \/ kind = "names" /\ DesktopNames
                 \/ kind = "list" /\ ClientList
                 \/ kind = "output" /\ Randr
                 \/ kind = "configure" /\ Configure(w)
                 \/ kind = "desktop" /\ WmDesktop(w)
                 \/ kind = "destroy" /\ Destroyed(w)
  BY HandleIs DEF PlaceInv
<1>3. kind \notin AboutWindows =>
        \A k, x : k \in AboutWindows /\ InQueue(notes, k, x) => InQueue(notes', k, x)
  BY <1>2
<1>4. CASE \/ kind = "geometry" /\ DesktopGeometry(Measured)
           \/ kind = "geometry" /\ UNCHANGED <<known, wins, stale>>
           \/ kind = "workarea" /\ Workarea
           \/ kind = "names" /\ DesktopNames
           \/ kind = "output" /\ Randr
  <2>1. UNCHANGED <<wins, stale, views, roots>>
    BY <1>4 DEF DesktopGeometry, Workarea, DesktopNames, Randr
  <2>2. kind \notin AboutWindows
    BY <1>4 DEF AboutWindows
  <2>3. QED
    BY <1>1, <1>3, <2>1, <2>2, OthersPlaced
<1>5. CASE kind = "viewport" /\ Viewport
  BY <1>1, <1>3, <1>5, ViewportPlaced DEF AboutWindows
<1>6. CASE kind = "roots" /\ VirtualRoots
  BY <1>1, <1>3, <1>6, RootsPlaced DEF AboutWindows
<1>7. CASE kind = "list" /\ ClientList
  BY <1>1, <1>7, ListPlaced
<1>8. CASE kind = "configure" /\ Configure(w)
  BY <1>1, <1>2, <1>8, ConfigurePlaced DEF AboutWindows
<1>9. CASE kind = "desktop" /\ WmDesktop(w)
  BY <1>1, <1>2, <1>9, DesktopPlaced DEF AboutWindows
<1>10. CASE kind = "destroy" /\ Destroyed(w)
  BY <1>1, <1>2, <1>10, DestroyedPlaced DEF AboutWindows
<1>11. QED
  BY <1>2, <1>4, <1>5, <1>6, <1>7, <1>8, <1>9, <1>10

(* rie_event_init() reads the windows when it has read the screen, and the *)
(* last step only draws.                                                   *)
LEMMA InitialisePlaced ==
  ASSUME Typed, PlaceInv, Initialise
  PROVE  PlaceInv'
<1>1. /\ todo \in 1..8 /\ todo' = todo - 1 /\ UNCHANGED <<notes, clients>>
  BY DEF Initialise, Typed, KnownTypes
<1>2. Truthful(notes', exists) /\ Typed'
  BY <1>1, InitialiseTyped DEF PlaceInv
<1>3. CASE todo >= 3
  <2>1. wins' = <<>>
    BY <1>1, <1>2, <1>3 DEF Typed, WindowTypes
  <2>2. QED
    BY <1>1, <1>2, <2>1 DEF PlaceInv, GoneKnown, PlaceKnown
<1>4. CASE todo = 2
  <2>1. ClientList
    BY <1>4 DEF Initialise
  <2>2. views # <<>> /\ roots # <<>>
    BY <1>4 DEF Typed, KnownTypes
  <2>3. QED
    BY <1>1, <1>2, <2>1, <2>2, ListPlaced
<1>5. CASE todo = 1
  <2>1. UNCHANGED <<known, wins, stale>>
    BY <1>5 DEF Initialise
  <2>2. QED
    BY <1>1, <1>2, <2>1, OthersPlaced
<1>6. QED
  BY <1>1, <1>3, <1>4, <1>5

LEMMA ReloadPlaced ==
  ASSUME PlaceInv, Reload
  PROVE  PlaceInv'
<1>1. wins' = <<>> /\ UNCHANGED <<notes, clients>>
  BY DEF Reload
<1>2. QED
  BY <1>1 DEF PlaceInv, Truthful, GoneKnown, PlaceKnown

LEMMA InitPlaced ==
  ASSUME Init
  PROVE  PlaceInv
<1>1. wins = <<>> /\ notes = <<>>
  BY DEF Init
<1>2. QED
  BY <1>1 DEF PlaceInv, Truthful, GoneKnown, PlaceKnown

(* Everything at once: what waits, what is known of the screen, the types  *)
(* and where windows are.                                                  *)
PlacesInv == FollowInv /\ Typed /\ PlaceInv

LEMMA PlacesStep ==
  ASSUME PlacesInv, [Next]_vars
  PROVE  PlacesInv'
<1>1. FollowInv /\ ListTypes /\ Typed /\ PlaceInv /\ Truthful(notes, exists)
  BY DEF PlacesInv, FollowInv, PlaceInv
<1>2. CASE Server
  BY <1>1, <1>2, ServerFollows, ServerTyped, ServerPlaced DEF PlacesInv
<1>3. CASE Initialise
  BY <1>1, <1>3, InitialiseFollows, InitialiseTyped, InitialisePlaced DEF PlacesInv
<1>4. CASE Handle
  BY <1>1, <1>4, HandleFollows, HandleTyped, HandlePlaced DEF PlacesInv
<1>5. CASE Reload
  BY <1>1, <1>5, ReloadFollows, ReloadTyped, ReloadPlaced DEF PlacesInv
<1>6. CASE UNCHANGED vars
  <2>1. Truthful(notes', exists)
    BY <1>1, <1>6
  <2>2. PlaceInv'
    BY <1>1, <1>6, <2>1, OthersPlaced
  <2>3. QED
    BY <1>1, <1>6, <2>2, SameFollows, SameTyped DEF PlacesInv
<1>7. QED
  BY <1>2, <1>3, <1>4, <1>5, <1>6 DEF Next

LEMMA PlacesAlways == Spec => []PlacesInv
<1>1. Init => PlacesInv
  BY InitFollows, InitTyped, InitPlaced DEF PlacesInv
<1>2. PlacesInv /\ [Next]_vars => PlacesInv'
  BY PlacesStep
<1>3. QED
  BY <1>1, <1>2, PTL DEF Spec

(* At rest what is known of a window's surroundings is what they are, and  *)
(* there is no notification that its place would wait for.                 *)
LEMMA PlacedAtRest ==
  ASSUME PlacesInv
  PROVE  WindowsInPlace
<1> SUFFICES ASSUME AtRest, NEW i \in DOMAIN wins,
                    \A k \in 1..i : ~wins[k].dead, wins[i].id \notin stale
             PROVE  /\ wins[i].desk = sdesk[wins[i].id]
                    /\ wins[i].at = TruePlace(wins[i].id)
  BY DEF WindowsInPlace
<1>1. FollowInv /\ Typed /\ PlaceInv
  BY DEF PlacesInv
<1>2. \A k, x : ~InQueue(notes, k, x)
  BY DEF AtRest, InQueue
<1>3. Clean(i)
  <2>1. \A k \in 1..i : k \in DOMAIN wins
    BY <1>1, LenProperties DEF Typed, WindowTypes
  <2>2. \A k \in 1..i : wins[k].id \in exists
    BY <1>1, <1>2, <2>1 DEF PlaceInv, GoneKnown
  <2>3. QED
    BY <2>2 DEF Clean
<1>4. /\ wins[i].desk = sdesk[wins[i].id]
      /\ wins[i].at = Box(wins[i].id, wins[i].desk, views, roots)
  BY <1>1, <1>2, <1>3 DEF PlaceInv, PlaceKnown
<1>5. PICK w \in Window : w = wins[i].id
  BY <1>1, <1>3, ListWindows
<1>6. PICK d \in Desktop : d = sdesk[w]
  BY <1>1, <1>5 DEF Typed, ClientTypes
<1>7. /\ ArrayGet(views, d).x = ArrayGet(OrZero(sviews), d)
      /\ ArrayGet(roots, d) = ArrayGet(OrZero(sroots), d)
  BY <1>1, FollowsAtRest DEF KnownFollows
<1>8. wins[i].at = TruePlace(w)
  BY <1>4, <1>5, <1>6, <1>7 DEF Box, TruePlace
<1>9. QED
  BY <1>4, <1>5, <1>8

(* Whatever is changed, read and reloaded and in whatever order, all that  *)
(* the handlers of rie_event.c keep has the type they expect, and lists    *)
(* that rie_array_get() reads have an element when events are handled.     *)
THEOREM PlacesTyped == Spec => []TypeOK
<1>1. PlacesInv => TypeOK
  BY TypedOK DEF PlacesInv
<1>2. QED
  BY <1>1, PlacesAlways, PTL

(* Whatever order the window manager moves windows, sends them to desktops *)
(* and sets the viewport in, and whatever rie_event_init() has read before *)
(* it is told: when all has been handled, the pager has the windows on     *)
(* their desktops and in their places, except behind a dead window in its  *)
(* list and where rie_event_wm_desktop(), rie_event_virtual_roots() or     *)
(* rie_event_desktop_viewport() have not read the place again.             *)
THEOREM WindowsFoundInPlace == Spec => []WindowsInPlace
<1>1. PlacesInv => WindowsInPlace
  BY PlacedAtRest
<1>2. QED
  BY <1>1, PlacesAlways, PTL
===============================================================================
