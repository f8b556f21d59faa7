---------------------------- MODULE WindowsProofs -----------------------------
(***************************************************************************)
(* Proofs about Windows, for any finite set of windows and any number of   *)
(* changes on the server.                                                  *)
(***************************************************************************)
EXTENDS Windows, FiniteSetTheorems, SequenceTheorems, TLAPS

(* The definitions that only group variables.                              *)
USE DEF vars, server, query

(***************************************************************************)
(* The inductive invariant.                                                *)
(***************************************************************************)

(* TypeOK by what the variables are about.                                 *)
ServerTypes ==
  /\ exists \subseteq Window
  /\ desk \in [Window -> Number \union {None}]
  /\ geom \in [Window -> Box]
  /\ hidden \in [Window -> BOOLEAN]
  /\ clist = None \/ clist \in Seq(Window)
  /\ active \in Window \union {Nobody, None}
  /\ changes \in Nat
Event == [kind : Kinds, win : Window \union {None}]
EventTypes ==
  /\ subs \subseteq Window
  /\ notes \in Seq(Event)
  /\ lost \subseteq Window \X {"desktop", "geometry"}
ListTypes ==
  /\ wins \in Seq(Record)
  /\ fwindow \in Window \union {None}
QueryTypes ==
  /\ at \in {"start", "loop", "desktop", "geometry", "frame", "subscribe",
             "state", "install"}
  /\ job \in {"none", "list", "configure"}
  /\ todo \in Seq(Window)
  /\ built \in Seq(Record)
  /\ cur \in Record \union {None}

Types == ServerTypes /\ EventTypes /\ ListTypes /\ QueryTypes

(* A window is being queried.                                              *)
Querying == at \notin {"start", "loop", "install"}

(* Where the program is fits what it is doing.                             *)
Phases ==
  /\ job = "none" <=> at \in {"start", "loop"}
  /\ at \in {"state", "install"} => job = "list"
  /\ Querying => cur \in Record
  /\ Querying /\ job = "list" => todo # <<>> /\ cur.id = Head(todo)
  /\ at = "install" => todo = <<>>
  /\ at = "start" => wins = <<>>

(* No notification of a new list is on its way.                            *)
ListSeen == \A i \in DOMAIN notes : notes[i].kind # "list"

(* What rieman has is the list, or will be when the handler has finished,  *)
(* or another list is announced.                                           *)
ListKept ==
  ListSeen /\ clist # None /\ at # "start" =>
    clist = IF job = "list" THEN Ids(built) \o todo ELSE Ids(wins)

(* The event of the end of a window that is listed and managed again comes *)
(* before the announcement of that list.                                   *)
EndAnnounced ==
  ~EarlyList =>
    \A i \in DOMAIN notes :
      LET w == notes[i].win
      IN  notes[i].kind = "destroy" /\ w \in OnList /\ desk[w] # None =>
            \E j \in DOMAIN notes : i < j /\ notes[j].kind = "list"

(* A record that is wrong about its window being dead.                     *)
Undead(r) == r.dead /\ r.id \in OnList /\ desk[r.id] # None

(* There is none, or another list is announced.                            *)
NoUndead ==
  ~EarlyList /\ ListSeen =>
    /\ job # "list" => \A i \in DOMAIN wins : ~Undead(wins[i])
    /\ job = "list" => \A i \in DOMAIN built : ~Undead(built[i])
    /\ Querying => ~Undead(cur)

(* Only what exists has a desktop.                                         *)
ManagedExist == \A w \in Window : desk[w] # None => w \in exists

WindowsInv == Types /\ Phases /\ ManagedExist /\ FwindowListed
              /\ ListKept /\ EndAnnounced /\ NoUndead

(***************************************************************************)
(* Lemmas about the operators.                                             *)
(***************************************************************************)

(* An order of a set of windows is a list of windows.                      *)
LEMMA OrdersType ==
  ASSUME NEW S \in SUBSET Window, NEW q \in Orders(S)
  PROVE  q \in Seq(Window) /\ Listed(q) = S
<1>1. IsFiniteSet(S)
  BY FS_Subset, WindowAssumption
<1>2. Cardinality(S) \in Nat
  BY <1>1, FS_CardinalityType
<1>3. q \in [1..Cardinality(S) -> S] /\ Listed(q) = S
  BY DEF Orders
<1>4. q \in Seq(S)
  BY <1>2, <1>3
<1>5. QED
  BY <1>3, <1>4, SeqMonotonic

(* Records stay records when one of their fields changes.                  *)
LEMMA RecordUpdates ==
  ASSUME NEW r \in Record, NEW b \in BOOLEAN, NEW d \in Number, NEW g \in Box
  PROVE  /\ [r EXCEPT !.placed = b] \in Record
         /\ [r EXCEPT !.focused = b] \in Record
         /\ [r EXCEPT !.hidden = b] \in Record
         /\ [r EXCEPT !.dead = b] \in Record
         /\ [r EXCEPT !.desk = d] \in Record
         /\ [r EXCEPT !.geom = g] \in Record
  BY DEF Record

(* A list whose records change, but not their ids, is a list of the same   *)
(* windows.                                                                *)
LEMMA SameWindows ==
  ASSUME NEW ws \in Seq(Record), NEW new,
         new = [i \in DOMAIN ws |-> new[i]],
         \A i \in DOMAIN ws : new[i] \in Record /\ new[i].id = ws[i].id
  PROVE  new \in Seq(Record) /\ DOMAIN new = DOMAIN ws /\ Ids(new) = Ids(ws)
<1>1. DOMAIN new = 1..Len(ws) /\ Len(ws) \in Nat /\ DOMAIN ws = 1..Len(ws)
  BY LenProperties
<1>2. new = [i \in 1..Len(ws) |-> new[i]]
  BY <1>1
<1>3. new \in Seq(Record)
  BY <1>1, <1>2, IsASeq
<1>4. QED
  BY <1>1, <1>3 DEF Ids

(* Drawing and focusing keep the windows and who is dead.                  *)
LEMMA DrawnKeeps ==
  ASSUME NEW ws \in Seq(Record)
  PROVE  /\ Drawn(ws) \in Seq(Record)
         /\ DOMAIN Drawn(ws) = DOMAIN ws
         /\ Ids(Drawn(ws)) = Ids(ws)
         /\ \A i \in DOMAIN ws : Drawn(ws)[i].id = ws[i].id
                                 /\ Drawn(ws)[i].dead = ws[i].dead
<1>1. ASSUME NEW i \in DOMAIN ws
      PROVE  /\ Drawn(ws)[i] \in Record /\ Drawn(ws)[i].id = ws[i].id
             /\ Drawn(ws)[i].dead = ws[i].dead
  <2>1. ws[i] \in Record
    BY ElementOfSeq, LenProperties
  <2>2. PICK b \in BOOLEAN : Drawn(ws)[i] = [ws[i] EXCEPT !.placed = b]
    BY DEF Drawn
  <2>3. ASSUME NEW r \in Record
        PROVE  /\ [r EXCEPT !.placed = b] \in Record
               /\ [r EXCEPT !.placed = b].id = r.id
               /\ [r EXCEPT !.placed = b].dead = r.dead
    BY DEF Record
  <2>4. QED
    BY <2>1, <2>2, <2>3
<1>2. Drawn(ws) = [i \in DOMAIN ws |-> Drawn(ws)[i]]
  BY DEF Drawn
<1>3. QED
  BY <1>1, <1>2, SameWindows

LEMMA FocusedKeeps ==
  ASSUME NEW ws \in Seq(Record)
  PROVE  /\ Focused(ws) \in Seq(Record)
         /\ DOMAIN Focused(ws) = DOMAIN ws
         /\ Ids(Focused(ws)) = Ids(ws)
         /\ \A i \in DOMAIN ws : Focused(ws)[i].id = ws[i].id
                                 /\ Focused(ws)[i].dead = ws[i].dead
<1>1. CASE active = None
  BY <1>1 DEF Focused
<1>2. CASE active # None
  <2>1. ASSUME NEW i \in DOMAIN ws
        PROVE  /\ Focused(ws)[i] \in Record /\ Focused(ws)[i].id = ws[i].id
               /\ Focused(ws)[i].dead = ws[i].dead
    <3>1. ws[i] \in Record
      BY ElementOfSeq, LenProperties
    <3>2. PICK b \in BOOLEAN : Focused(ws)[i] = [ws[i] EXCEPT !.focused = b]
      BY <1>2 DEF Focused
    <3>3. ASSUME NEW r \in Record
          PROVE  /\ [r EXCEPT !.focused = b] \in Record
                 /\ [r EXCEPT !.focused = b].id = r.id
                 /\ [r EXCEPT !.focused = b].dead = r.dead
      BY DEF Record
    <3>4. QED
      BY <3>1, <3>2, <3>3
  <2>2. Focused(ws) = [i \in DOMAIN ws |-> Focused(ws)[i]]
    BY <1>2 DEF Focused
  <2>3. QED
    BY <2>1, <2>2, SameWindows
<1>3. QED
  BY <1>1, <1>2

(* The ids of a list with one more record.                                 *)
LEMMA IdsType ==
  ASSUME NEW ws \in Seq(Record)
  PROVE  /\ Ids(ws) \in Seq(Window) /\ Len(Ids(ws)) = Len(ws)
         /\ \A r \in Record : Ids(Append(ws, r)) = Append(Ids(ws), r.id)
<1>1. Len(ws) \in Nat /\ DOMAIN ws = 1..Len(ws)
  BY LenProperties
<1>2. \A i \in 1..Len(ws) : ws[i].id \in Window
  <2>1. \A i \in 1..Len(ws) : ws[i] \in Record
    BY <1>1, ElementOfSeq
  <2>2. \A r \in Record : r.id \in Window
    BY DEF Record
  <2>3. QED
    BY <2>1, <2>2
<1>3. /\ Ids(ws) = [i \in 1..Len(ws) |-> ws[i].id]
      /\ Ids(ws) \in Seq(Window) /\ Len(Ids(ws)) = Len(ws)
  BY <1>1, <1>2 DEF Ids
<1>4. ASSUME NEW r \in Record
      PROVE  Ids(Append(ws, r)) = Append(Ids(ws), r.id)
  <2> DEFINE more == Append(ws, r)
             long == Append(Ids(ws), r.id)
  <2>1. /\ more \in Seq(Record) /\ Len(more) = Len(ws) + 1
        /\ DOMAIN more = 1..(Len(ws) + 1)
        /\ \A i \in 1..(Len(ws) + 1) :
             more[i] = IF i <= Len(ws) THEN ws[i] ELSE r
    BY <1>1
  <2>2. r.id \in Window
    BY DEF Record
  <2>3. /\ long \in Seq(Window) /\ Len(long) = Len(ws) + 1
        /\ \A i \in 1..(Len(ws) + 1) :
             long[i] = IF i <= Len(ws) THEN ws[i].id ELSE r.id
    BY <1>1, <1>3, <2>2
  <2>4. /\ long = [i \in 1..(Len(ws) + 1) |-> long[i]]
    BY <2>3
  <2> HIDE DEF more, long
  <2>5. Ids(more) = [i \in 1..(Len(ws) + 1) |-> long[i]]
    BY <2>1, <2>3 DEF Ids
  <2>6. QED
    BY <2>4, <2>5 DEF more, long
<1>5. QED
  BY <1>3, <1>4

(* Moving the head of one list to the end of another.                      *)
LEMMA MoveOne ==
  ASSUME NEW s \in Seq(Window), NEW t \in Seq(Window), t # <<>>
  PROVE  Append(s, Head(t)) \o Tail(t) = s \o t
<1>1. Head(t) \in Window /\ Tail(t) \in Seq(Window)
  BY HeadTailProperties
<1>2. Append(s, Head(t)) = s \o <<Head(t)>>
  BY <1>1, AppendIsConcat
<1>3. <<Head(t)>> \in Seq(Window) /\ <<Head(t)>> \o Tail(t) = t
  BY <1>1
<1>4. ASSUME NEW u \in Seq(Window), NEW v \in Seq(Window)
      PROVE  (s \o u) \o v = s \o (u \o v)
  BY ConcatAssociative
<1>5. (s \o <<Head(t)>>) \o Tail(t) = s \o (<<Head(t)>> \o Tail(t))
  BY <1>1, <1>3, <1>4, Zenon
<1>6. QED
  BY <1>2, <1>3, <1>5, Zenon

(* The window under the mouse is one of the list.                          *)
LEMMA UnderListed ==
  ASSUME NEW ws \in Seq(Record), NEW w \in Under(ws), w # None
  PROVE  w \in Window /\ w \in Listed(Ids(ws))
<1>1. PICK i \in DOMAIN ws : w = ws[i].id
  BY DEF Under
<1>2. ws[i] \in Record
  BY ElementOfSeq, LenProperties
<1>3. QED
  BY <1>1, <1>2 DEF Record, Ids, Listed

(* Records of windows stay records.                                        *)
LEMMA RecordTypes ==
  /\ \A w \in Window : Blank(w) \in Record /\ Blank(w).id = w /\ ~Blank(w).dead
  /\ \A r \in Record : Killed(r) \in Record /\ Killed(r).id = r.id
  BY WindowAssumption DEF Blank, Killed, Record

(* The events of a window.                                                 *)
LEMMA ToldType ==
  ASSUME NEW kind \in Kinds, NEW w \in Window
  PROVE  /\ Told(kind, w) \in Seq(Event) /\ ToldTwice(kind, w) \in Seq(Event)
         /\ \A i \in DOMAIN Told(kind, w) :
              Told(kind, w)[i] = [kind |-> kind, win |-> w]
         /\ \A i \in DOMAIN ToldTwice(kind, w) :
              ToldTwice(kind, w)[i] = [kind |-> kind, win |-> w]
<1> DEFINE e      == [kind |-> kind, win |-> w]
           own    == Told(kind, w)
           asKid  == IF Reparents THEN <<>> ELSE <<e>>
<1>1. e \in Event
  BY DEF Event
<1>2. own = IF w \in subs THEN <<e>> ELSE <<>>
  BY DEF Told
<1>3. ToldTwice(kind, w) = own \o asKid
  BY DEF ToldTwice
<1> HIDE DEF e, own
<1>4. own \in Seq(Event) /\ \A i \in DOMAIN own : own[i] = e
  BY <1>1, <1>2
<1>5. asKid \in Seq(Event) /\ \A i \in DOMAIN asKid : asKid[i] = e
  BY <1>1
<1> HIDE DEF asKid
<1>6. /\ own \o asKid \in Seq(Event)
      /\ \A i \in DOMAIN (own \o asKid) : (own \o asKid)[i] = e
  BY <1>4, <1>5
<1>7. QED
  BY <1>3, <1>4, <1>6 DEF e, own

(***************************************************************************)
(* The server's steps.                                                     *)
(***************************************************************************)

(* They leave rieman alone, add to what it will be told and announce each  *)
(* new list.  A listed window gets no desktop without a new list, and a    *)
(* window whose end is told has none.                                      *)
ServerEffect ==
  /\ UNCHANGED <<wins, fwindow, at, query>>
  /\ \E tell \in Seq(Event) :
       /\ notes' = notes \o tell
       /\ \/ tell = <<[kind |-> "list", win |-> None]>> /\ desk' = desk
          \/ /\ clist' = clist
             /\ ~EarlyList =>
                  \A w \in OnList : desk'[w] # None => desk[w] # None
             /\ \A i \in DOMAIN tell :
                  /\ tell[i].kind # "list"
                  /\ tell[i].kind = "destroy" => desk'[tell[i].win] = None

LEMMA ServerSteps ==
  ASSUME Types, ManagedExist, Server
  PROVE  ServerTypes' /\ EventTypes' /\ ManagedExist' /\ ServerEffect
<1> USE DEF Types, ServerTypes, EventTypes, ManagedExist
<1>1. ASSUME NEW w \in Window, Create(w)
      PROVE  ServerTypes' /\ EventTypes' /\ ManagedExist' /\ ServerEffect
  <2>1. UNCHANGED <<wins, fwindow, at, query, notes, subs, lost, clist>>
    BY <1>1 DEF Create, Change
  <2>2. ServerTypes' /\ EventTypes' /\ ManagedExist'
    BY <1>1, <2>1 DEF Create, Change
  <2>3. ~EarlyList => \A v \in OnList : desk'[v] # None => desk[v] # None
    BY <1>1 DEF Create
  <2> DEFINE tell == <<>>
  <2>4. tell \in Seq(Event) /\ notes' = notes \o tell /\ DOMAIN tell = {}
    BY <2>1, ConcatEmptySeq
  <2> HIDE DEF tell
  <2>5. ServerEffect
    BY <2>1, <2>3, <2>4 DEF ServerEffect
  <2>6. QED
    BY <2>2, <2>5
<1>2. ASSUME NEW w \in Window, Destroy(w)
      PROVE  ServerTypes' /\ EventTypes' /\ ManagedExist' /\ ServerEffect
  <2> DEFINE tell == ToldTwice("destroy", w)
  <2>1. /\ tell \in Seq(Event)
        /\ \A i \in DOMAIN tell : tell[i] = [kind |-> "destroy", win |-> w]
    BY ToldType DEF Kinds
  <2>2. notes' = notes \o tell
    BY <1>2 DEF Destroy, Change
  <2> HIDE DEF tell
  <2>3. ASSUME NEW i \in DOMAIN tell
        PROVE  /\ tell[i].kind # "list"
               /\ tell[i].kind = "destroy" => desk'[tell[i].win] = None
    BY <1>2, <2>1 DEF Destroy
  <2>4. notes' \in Seq(Event)
    BY <2>1, <2>2, ConcatProperties
  <2>5. ServerTypes' /\ EventTypes' /\ ManagedExist'
    BY <1>2, <2>4 DEF Destroy, Change
  <2>6. /\ UNCHANGED <<wins, fwindow, at, query, clist>>
        /\ ~EarlyList => \A v \in OnList : desk'[v] # None => desk[v] # None
    BY <1>2 DEF Destroy, Change
  <2>7. ServerEffect
    BY <2>1, <2>2, <2>3, <2>6 DEF ServerEffect
  <2>8. QED
    BY <2>5, <2>7
<1>3. ASSUME NEW w \in Window, Move(w)
      PROVE  ServerTypes' /\ EventTypes' /\ ManagedExist' /\ ServerEffect
  <2> DEFINE tell == ToldTwice("configure", w)
  <2>1. /\ tell \in Seq(Event)
        /\ \A i \in DOMAIN tell : tell[i] = [kind |-> "configure", win |-> w]
    BY ToldType DEF Kinds
  <2>2. notes' = notes \o tell
    BY <1>3 DEF Move, Change, Changed
  <2> HIDE DEF tell
  <2>3. ASSUME NEW i \in DOMAIN tell
        PROVE  /\ tell[i].kind # "list"
               /\ tell[i].kind = "destroy" => desk'[tell[i].win] = None
    BY <1>3, <2>1
  <2>4. notes' \in Seq(Event)
    BY <2>1, <2>2, ConcatProperties
  <2>5. ServerTypes' /\ EventTypes' /\ ManagedExist'
    BY <1>3, <2>4 DEF Move, Change, Changed
  <2>6. /\ UNCHANGED <<wins, fwindow, at, query, clist>>
        /\ ~EarlyList => \A v \in OnList : desk'[v] # None => desk[v] # None
    BY <1>3 DEF Move, Change, Changed
  <2>7. ServerEffect
    BY <2>1, <2>2, <2>3, <2>6 DEF ServerEffect
  <2>8. QED
    BY <2>5, <2>7
<1>4. ASSUME NEW w \in Window, SetDesktop(w)
      PROVE  ServerTypes' /\ EventTypes' /\ ManagedExist' /\ ServerEffect
  <2> DEFINE tell == Told("desktop", w)
  <2>1. /\ tell \in Seq(Event)
        /\ \A i \in DOMAIN tell : tell[i] = [kind |-> "desktop", win |-> w]
    BY ToldType DEF Kinds
  <2>2. notes' = notes \o tell
    BY <1>4 DEF SetDesktop, Change, Changed
  <2> HIDE DEF tell
  <2>3. ASSUME NEW i \in DOMAIN tell
        PROVE  /\ tell[i].kind # "list"
               /\ tell[i].kind = "destroy" => desk'[tell[i].win] = None
    BY <1>4, <2>1
  <2>4. notes' \in Seq(Event)
    BY <2>1, <2>2, ConcatProperties
  <2>5. ServerTypes' /\ EventTypes' /\ ManagedExist'
    BY <1>4, <2>4 DEF SetDesktop, Change, Changed
  <2>6. /\ UNCHANGED <<wins, fwindow, at, query, clist>>
        /\ ~EarlyList => \A v \in OnList : desk'[v] # None => desk[v] # None
    BY <1>4 DEF SetDesktop, Change, Changed
  <2>7. ServerEffect
    BY <2>1, <2>2, <2>3, <2>6 DEF ServerEffect
  <2>8. QED
    BY <2>5, <2>7
<1>5. ASSUME NEW w \in Window, Withdraw(w)
      PROVE  ServerTypes' /\ EventTypes' /\ ManagedExist' /\ ServerEffect
  <2> DEFINE tell == Told("desktop", w)
  <2>1. /\ tell \in Seq(Event)
        /\ \A i \in DOMAIN tell : tell[i] = [kind |-> "desktop", win |-> w]
    BY ToldType DEF Kinds
  <2>2. notes' = notes \o tell
    BY <1>5 DEF Withdraw, Managed, Change, Changed
  <2> HIDE DEF tell
  <2>3. ASSUME NEW i \in DOMAIN tell
        PROVE  /\ tell[i].kind # "list"
               /\ tell[i].kind = "destroy" => desk'[tell[i].win] = None
    BY <1>5, <2>1
  <2>4. notes' \in Seq(Event)
    BY <2>1, <2>2, ConcatProperties
  <2>5. ServerTypes' /\ EventTypes' /\ ManagedExist'
    BY <1>5, <2>4 DEF Withdraw, Managed, Change, Changed
  <2>6. /\ UNCHANGED <<wins, fwindow, at, query, clist>>
        /\ ~EarlyList => \A v \in OnList : desk'[v] # None => desk[v] # None
    BY <1>5 DEF Withdraw, Managed, Change, Changed
  <2>7. ServerEffect
    BY <2>1, <2>2, <2>3, <2>6 DEF ServerEffect
  <2>8. QED
    BY <2>5, <2>7
<1>6. ASSUME NEW w \in Window, Hide(w)
      PROVE  ServerTypes' /\ EventTypes' /\ ManagedExist' /\ ServerEffect
  <2> DEFINE tell == Told("state", w)
  <2>1. /\ tell \in Seq(Event)
        /\ \A i \in DOMAIN tell : tell[i] = [kind |-> "state", win |-> w]
    BY ToldType DEF Kinds
  <2>2. notes' = notes \o tell
    BY <1>6 DEF Hide, Change
  <2> HIDE DEF tell
  <2>3. ASSUME NEW i \in DOMAIN tell
        PROVE  /\ tell[i].kind # "list"
               /\ tell[i].kind = "destroy" => desk'[tell[i].win] = None
    BY <1>6, <2>1
  <2>4. notes' \in Seq(Event)
    BY <2>1, <2>2, ConcatProperties
  <2>5. ServerTypes' /\ EventTypes' /\ ManagedExist'
    BY <1>6, <2>4 DEF Hide, Change
  <2>6. /\ UNCHANGED <<wins, fwindow, at, query, clist>>
        /\ ~EarlyList => \A v \in OnList : desk'[v] # None => desk[v] # None
    BY <1>6 DEF Hide, Change
  <2>7. ServerEffect
    BY <2>1, <2>2, <2>3, <2>6 DEF ServerEffect
  <2>8. QED
    BY <2>5, <2>7
<1>7. CASE CatchUp
  <2> DEFINE tell == <<[kind |-> "list", win |-> None]>>
  <2>1. tell \in Seq(Event)
    BY DEF Event, Kinds
  <2>2. notes' = notes \o tell
    BY <1>7 DEF CatchUp
  <2> HIDE DEF tell
  <2>3. notes' \in Seq(Event)
    BY <2>1, <2>2, ConcatProperties
  <2>4. Managed \subseteq Window /\ OnList \subseteq Window
    BY ElementOfSeq, LenProperties DEF Managed, OnList, Listed
  <2>5. ServerTypes' /\ EventTypes' /\ ManagedExist'
    BY <1>7, <2>3, <2>4, OrdersType DEF CatchUp
  <2>6. UNCHANGED <<wins, fwindow, at, query, desk>>
    BY <1>7 DEF CatchUp
  <2>7. ServerEffect
    BY <2>1, <2>2, <2>6 DEF ServerEffect, tell
  <2>8. QED
    BY <2>5, <2>7
<1>8. CASE Restack
  <2> DEFINE tell == <<[kind |-> "list", win |-> None]>>
  <2>1. tell \in Seq(Event)
    BY DEF Event, Kinds
  <2>2. notes' = notes \o tell
    BY <1>8 DEF Restack, Change
  <2> HIDE DEF tell
  <2>3. notes' \in Seq(Event)
    BY <2>1, <2>2, ConcatProperties
  <2>4. Managed \subseteq Window /\ OnList \subseteq Window
    BY ElementOfSeq, LenProperties DEF Managed, OnList, Listed
  <2>5. clist' = None \/ clist' \in Seq(Window)
    BY <1>8, <2>4, OrdersType DEF Restack
  <2>6. UNCHANGED <<exists, desk, geom, hidden, active, subs, lost>>
        /\ changes' = changes + 1
    BY <1>8 DEF Restack, Change
  <2>7. ServerTypes' /\ EventTypes' /\ ManagedExist'
    BY <2>3, <2>5, <2>6
  <2>8. UNCHANGED <<wins, fwindow, at, query, desk>>
    BY <1>8 DEF Restack, Change
  <2>9. ServerEffect
    BY <2>1, <2>2, <2>8 DEF ServerEffect, tell
  <2>10. QED
    BY <2>7, <2>9
<1>9. CASE Activate
  <2> DEFINE tell == <<[kind |-> "active", win |-> None]>>
  <2>1. tell \in Seq(Event) /\ \A i \in DOMAIN tell : tell[i].kind = "active"
    BY DEF Event, Kinds
  <2>2. notes' = notes \o tell
    BY <1>9 DEF Activate, Change
  <2> HIDE DEF tell
  <2>3. notes' \in Seq(Event)
    BY <2>1, <2>2, ConcatProperties
  <2>4. ServerTypes' /\ EventTypes' /\ ManagedExist'
    BY <1>9, <2>3 DEF Activate, Change, Managed
  <2>5. UNCHANGED <<wins, fwindow, at, query, clist, desk>>
    BY <1>9 DEF Activate, Change
  <2>6. ServerEffect
    BY <2>1, <2>2, <2>5 DEF ServerEffect
  <2>7. QED
    BY <2>4, <2>6
<1>10. QED
  BY <1>1, <1>2, <1>3, <1>4, <1>5, <1>6, <1>7, <1>8, <1>9 DEF Server

LEMMA ServerKeeps ==
  ASSUME WindowsInv, Server
  PROVE  WindowsInv'
<1> USE DEF WindowsInv, Types
<1>1. ServerTypes' /\ EventTypes' /\ ManagedExist' /\ ServerEffect
  BY ServerSteps
<1>2. UNCHANGED <<wins, fwindow, at, query>>
  BY <1>1 DEF ServerEffect
<1>3. ListTypes' /\ QueryTypes' /\ Phases' /\ FwindowListed'
  BY <1>2 DEF ListTypes, QueryTypes, Phases, Querying, FwindowListed, Known
<1>4. PICK tell \in Seq(Event) :
        /\ notes' = notes \o tell
        /\ \/ tell = <<[kind |-> "list", win |-> None]>> /\ desk' = desk
           \/ /\ clist' = clist
              /\ ~EarlyList =>
                   \A w \in OnList : desk'[w] # None => desk[w] # None
              /\ \A i \in DOMAIN tell :
                   /\ tell[i].kind # "list"
                   /\ tell[i].kind = "destroy" => desk'[tell[i].win] = None
  BY <1>1 DEF ServerEffect
<1>5. /\ Len(notes) \in Nat /\ Len(tell) \in Nat
      /\ DOMAIN notes = 1..Len(notes) /\ DOMAIN tell = 1..Len(tell)
      /\ DOMAIN notes' = 1..(Len(notes) + Len(tell))
      /\ \A i \in 1..(Len(notes) + Len(tell)) :
           notes'[i] = IF i <= Len(notes)
                       THEN notes[i] ELSE tell[i - Len(notes)]
  BY <1>4, ConcatProperties, LenProperties DEF EventTypes
<1>6. CASE tell = <<[kind |-> "list", win |-> None]>>
  <2>1. Len(notes) + 1 \in DOMAIN notes' /\ notes'[Len(notes) + 1].kind = "list"
    BY <1>5, <1>6
  <2>2. ~ListSeen'
    BY <2>1 DEF ListSeen
  <2>3. \A i \in DOMAIN notes' :
          notes'[i].kind = "destroy" => i < Len(notes) + 1
    BY <1>5, <1>6, <2>1
  <2>4. EndAnnounced'
    BY <2>1, <2>3 DEF EndAnnounced
  <2>5. QED
    BY <1>1, <1>3, <2>2, <2>4 DEF ListKept, NoUndead
<1>7. CASE /\ clist' = clist
           /\ ~EarlyList =>
                \A w \in OnList : desk'[w] # None => desk[w] # None
           /\ \A i \in DOMAIN tell :
                /\ tell[i].kind # "list"
                /\ tell[i].kind = "destroy" => desk'[tell[i].win] = None
  <2>1. OnList' = OnList
    BY <1>7 DEF OnList
  <2>2. \A i \in DOMAIN notes : i \in DOMAIN notes' /\ notes'[i] = notes[i]
    BY <1>5
  <2>3. ListSeen' => ListSeen
    BY <2>2 DEF ListSeen
  <2>4. ListKept'
    BY <1>2, <1>7, <2>3 DEF ListKept
  <2>5. EndAnnounced'
    <3>1. SUFFICES ASSUME ~EarlyList, NEW i \in DOMAIN notes',
                          notes'[i].kind = "destroy",
                          notes'[i].win \in OnList, desk'[notes'[i].win] # None
                   PROVE  \E j \in DOMAIN notes' :
                            i < j /\ notes'[j].kind = "list"
      BY <2>1 DEF EndAnnounced
    <3>2. i \in DOMAIN notes /\ notes'[i] = notes[i]
      <4>1. CASE i <= Len(notes)
        BY <1>5, <4>1
      <4>2. CASE ~(i <= Len(notes))
        <5>1. /\ i - Len(notes) \in DOMAIN tell
              /\ notes'[i] = tell[i - Len(notes)]
          BY <1>5, <4>2
        <5>2. desk'[notes'[i].win] = None
          BY <1>7, <3>1, <5>1
        <5>3. QED
          BY <3>1, <5>2
      <4>3. QED
        BY <4>1, <4>2
    <3>3. desk[notes[i].win] # None
      BY <1>7, <3>1, <3>2
    <3>4. PICK j \in DOMAIN notes : i < j /\ notes[j].kind = "list"
      BY <3>1, <3>2, <3>3 DEF EndAnnounced
    <3>5. QED
      BY <2>2, <3>4
  <2>6. ~EarlyList => \A r : Undead(r)' => Undead(r)
    BY <1>7, <2>1 DEF Undead
  <2>7. NoUndead'
    BY <1>2, <2>3, <2>6 DEF NoUndead, Querying, Undead
  <2>8. QED
    BY <1>1, <1>3, <2>4, <2>5, <2>7
<1>8. QED
  BY <1>4, <1>6, <1>7

(***************************************************************************)
(* The steps of rieman.                                                    *)
(***************************************************************************)

(* Taking the first event: what is announced by a later one stays so.      *)
LEMMA TakeKeeps ==
  ASSUME WindowsInv, NEW kind, Take(kind), UNCHANGED <<clist, desk>>
  PROVE  /\ notes' \in Seq(Event) /\ EndAnnounced'
         /\ kind # "list" /\ ListSeen' => ListSeen
         /\ kind = "destroy" /\ ListSeen' /\ ~EarlyList =>
              Head(notes).win \notin OnList \/ desk[Head(notes).win] = None
<1> USE DEF WindowsInv, Types, EventTypes
<1>1. /\ notes # <<>> /\ notes' = Tail(notes) /\ notes[1].kind = kind
      /\ Head(notes) = notes[1] /\ OnList' = OnList
  BY DEF Take, OnList
<1>2. /\ notes' \in Seq(Event)
      /\ Len(notes) \in Nat \ {0} /\ Len(notes') = Len(notes) - 1
      /\ DOMAIN notes = 1..Len(notes) /\ DOMAIN notes' = 1..Len(notes')
      /\ \A i \in DOMAIN notes' : notes'[i] = notes[i + 1]
  BY <1>1, HeadTailProperties, LenProperties, EmptySeq
<1>3. \A j \in DOMAIN notes : j > 1 => /\ j - 1 \in DOMAIN notes'
                                       /\ notes'[j - 1] = notes[j]
  BY <1>2
<1>4. EndAnnounced'
  <2>1. SUFFICES ASSUME ~EarlyList, NEW i \in DOMAIN notes',
                        notes'[i].kind = "destroy",
                        notes'[i].win \in OnList, desk[notes'[i].win] # None
                 PROVE  \E j \in DOMAIN notes' :
                          i < j /\ notes'[j].kind = "list"
    BY <1>1 DEF EndAnnounced
  <2>2. i + 1 \in DOMAIN notes /\ notes'[i] = notes[i + 1]
    BY <1>2
  <2>3. PICK j \in DOMAIN notes : i + 1 < j /\ notes[j].kind = "list"
    BY <2>1, <2>2 DEF EndAnnounced
  <2>4. j - 1 \in DOMAIN notes' /\ i < j - 1 /\ notes'[j - 1] = notes[j]
    BY <1>2, <1>3, <2>3
  <2>5. QED
    BY <2>3, <2>4
<1>5. ASSUME kind # "list", ListSeen'
      PROVE  ListSeen
  <2>1. ASSUME NEW j \in DOMAIN notes, notes[j].kind = "list"
        PROVE  FALSE
    <3>1. j > 1
      BY <1>1, <1>2, <1>5, <2>1
    <3>2. QED
      BY <1>3, <1>5, <2>1, <3>1 DEF ListSeen
  <2>2. QED
    BY <2>1 DEF ListSeen
<1>6. ASSUME kind = "destroy", ListSeen', ~EarlyList
      PROVE  Head(notes).win \notin OnList \/ desk[Head(notes).win] = None
  BY <1>1, <1>2, <1>5, <1>6 DEF EndAnnounced, ListSeen
<1>7. QED
  BY <1>2, <1>4, <1>5, <1>6

(* The conjuncts a step of the handler of the list can disturb.            *)
HandlerInv == /\ ListTypes /\ QueryTypes /\ Phases
              /\ FwindowListed /\ ListKept /\ NoUndead

(* The next request of a query.                                            *)
LEMMA ProceedKeeps ==
  ASSUME WindowsInv, Querying, NEW r \in Record,
         r.id = cur.id, r.dead = cur.dead,
         NEW next \in {"geometry", "frame", "subscribe", "state"},
         next = "state" => job = "list",
         Proceed(next, r), UNCHANGED <<server, notes, fwindow>>
  PROVE  HandlerInv'
<1> USE DEF WindowsInv, Types, Proceed
<1>1. UNCHANGED <<job, todo, built, wins, clist, desk, notes, fwindow>>
      /\ at' = next /\ cur' = r
  OBVIOUS
<1>2. ListTypes' /\ QueryTypes' /\ FwindowListed'
  BY <1>1 DEF ListTypes, QueryTypes, FwindowListed, Known
<1>3. Phases'
  BY <1>1 DEF Phases, Querying
<1>4. ListKept'
  BY <1>1 DEF ListKept, ListSeen, Querying
<1>5. NoUndead'
  BY <1>1 DEF NoUndead, ListSeen, Querying, Undead, OnList
<1>6. QED
  BY <1>2, <1>3, <1>4, <1>5 DEF HandlerInv

(* The end of a query: what has been queried and what is left to query are *)
(* the list still.                                                         *)
LEMMA DoneKeeps ==
  ASSUME WindowsInv, Querying, NEW r \in Record, r.id = cur.id,
         ListSeen /\ ~EarlyList => ~Undead(r),
         Done(r), UNCHANGED <<server, notes, fwindow>>
  PROVE  HandlerInv'
<1> USE DEF WindowsInv, Types, ListTypes, QueryTypes
<1>1. OnList' = OnList /\ ListSeen' = ListSeen
      /\ \A x : Undead(x)' <=> Undead(x)
  BY DEF OnList, ListSeen, Undead
<1>2. CASE job = "list" /\ job' = "list"
  <2>1. /\ built' = Append(built, r) /\ todo' = Tail(todo)
        /\ UNCHANGED <<wins, fwindow, clist>>
        /\ IF Tail(todo) = <<>>
           THEN at' = "install" /\ cur' = None
           ELSE at' = "desktop" /\ cur' = Blank(Head(Tail(todo)))
    BY <1>2 DEF Done
  <2>2. todo # <<>> /\ r.id = Head(todo)
    BY <1>2 DEF Phases
  <2>3. /\ Tail(todo) \in Seq(Window) /\ Head(todo) \in Window
        /\ todo = <<Head(todo)>> \o Tail(todo)
    BY <2>2
  <2>4. built' \in Seq(Record) /\ DOMAIN built' = 1..(Len(built) + 1)
        /\ Len(built) \in Nat /\ DOMAIN built = 1..Len(built)
        /\ (\A i \in 1..Len(built) : built'[i] = built[i])
        /\ built'[Len(built) + 1] = r
    BY <2>1, AppendProperties, LenProperties
  <2>5. Tail(todo) # <<>> =>
          LET w == Head(Tail(todo))
          IN  /\ w \in Window /\ Blank(w) \in Record
              /\ Blank(w).id = w /\ ~Blank(w).dead
    BY <2>3, RecordTypes
  <2>6. ListTypes' /\ QueryTypes' /\ FwindowListed'
    BY <1>2, <2>1, <2>3, <2>4, <2>5 DEF FwindowListed, Known
  <2>7. Phases'
    BY <1>2, <2>1, <2>5, <2>6 DEF Phases, Querying
  <2>8. Ids(built') \o todo' = Ids(built) \o todo
    <3>1. Ids(built) \in Seq(Window) /\ Ids(built') = Append(Ids(built), r.id)
      BY <2>1, IdsType
    <3>2. QED
      BY <2>1, <2>2, <3>1, MoveOne
  <2>9. ListKept'
    BY <1>1, <1>2, <2>1, <2>8 DEF ListKept, Querying
  <2>10. NoUndead'
    BY <1>1, <1>2, <2>1, <2>4, <2>5 DEF NoUndead, Undead, Querying
  <2>11. QED
    BY <2>6, <2>7, <2>9, <2>10 DEF HandlerInv
<1>3. CASE job = "configure" /\ job' = "none"
  <2> DEFINE put == With(wins, r.id, LAMBDA old : r)
  <2>1. /\ wins' = Drawn(put) /\ at' = "loop" /\ cur' = None
        /\ UNCHANGED <<todo, built, fwindow, clist>>
    BY <1>3 DEF Done
  <2>2. /\ put = [i \in DOMAIN wins |-> put[i]]
        /\ \A i \in DOMAIN wins :
             put[i] = IF wins[i].id = r.id THEN r ELSE wins[i]
    BY DEF With
  <2> HIDE DEF put
  <2>3. put \in Seq(Record) /\ DOMAIN put = DOMAIN wins /\ Ids(put) = Ids(wins)
    <3>1. \A i \in DOMAIN wins : wins[i] \in Record
      BY ElementOfSeq, LenProperties
    <3>2. \A i \in DOMAIN wins : put[i] \in Record /\ put[i].id = wins[i].id
      BY <2>2, <3>1
    <3>3. QED
      BY <2>2, <3>2, SameWindows
  <2>4. /\ wins' \in Seq(Record) /\ DOMAIN wins' = DOMAIN wins
        /\ Ids(wins') = Ids(wins)
        /\ \A i \in DOMAIN wins :
             wins'[i].id = put[i].id /\ wins'[i].dead = put[i].dead
    BY <2>1, <2>3, DrawnKeeps
  <2>5. ListTypes' /\ QueryTypes' /\ FwindowListed'
    BY <1>3, <2>1, <2>4 DEF FwindowListed, Known
  <2>6. Phases'
    BY <1>3, <2>1 DEF Phases, Querying
  <2>7. ListKept'
    BY <1>1, <1>3, <2>1, <2>4 DEF ListKept, Querying
  <2>8. NoUndead'
    <3>1. ASSUME ListSeen, ~EarlyList, NEW i \in DOMAIN wins
          PROVE  ~Undead(wins'[i])
      <4>1. ~Undead(put[i])
        BY <1>3, <2>2, <3>1 DEF NoUndead
      <4>2. QED
        BY <2>4, <4>1 DEF Undead
    <3>2. ASSUME ListSeen, ~EarlyList, NEW i \in DOMAIN wins'
          PROVE  ~Undead(wins[i])'
      BY <2>4, <3>1, <3>2 DEF Undead, OnList
    <3>3. QED
      BY <1>1, <1>3, <2>1, <3>2 DEF NoUndead, Querying
  <2>9. QED
    BY <2>5, <2>6, <2>7, <2>8 DEF HandlerInv
<1>4. QED
  BY <1>2, <1>3 DEF Done

(* A handler reads the list, or finds none.                                *)
LEMMA ReadListKeeps ==
  ASSUME WindowsInv, at \in {"start", "loop"}, ReadList,
         UNCHANGED <<server, wins, fwindow>>
  PROVE  HandlerInv'
<1> USE DEF WindowsInv, Types, ListTypes, QueryTypes
<1>1. job = "none"
  BY DEF Phases
<1>2. CASE clist = None
  <2>1. /\ at' = "loop"
        /\ UNCHANGED <<job, todo, built, cur, wins, fwindow, clist>>
    BY <1>2 DEF ReadList
  <2>2. ListTypes' /\ QueryTypes' /\ FwindowListed' /\ Phases' /\ ListKept'
    BY <1>1, <1>2, <2>1 DEF FwindowListed, Known, Phases, Querying, ListKept
  <2>3. NoUndead'
    BY <1>1, <1>2, <2>1 DEF NoUndead, Undead, OnList, Querying
  <2>4. QED
    BY <2>2, <2>3 DEF HandlerInv
<1>3. CASE clist # None
  <2>1. /\ job' = "list" /\ todo' = clist /\ built' = <<>>
        /\ UNCHANGED <<wins, fwindow, clist>>
        /\ IF clist = <<>> THEN at' = "install" /\ cur' = None
                           ELSE at' = "desktop" /\ cur' = Blank(Head(clist))
    BY <1>3 DEF ReadList
  <2>2. clist \in Seq(Window)
    BY <1>3 DEF ServerTypes
  <2>3. clist # <<>> =>
          LET w == Head(clist)
          IN  /\ w \in Window /\ Blank(w) \in Record
              /\ Blank(w).id = w /\ ~Blank(w).dead
    BY <2>2, RecordTypes
  <2>4. ListTypes' /\ QueryTypes' /\ FwindowListed'
    BY <2>1, <2>2, <2>3 DEF FwindowListed, Known
  <2>5. Phases'
    BY <2>1, <2>3 DEF Phases, Querying
  <2>6. ListKept'
    <3>1. Ids(<<>>) = <<>>
      BY DEF Ids
    <3>2. QED
      BY <2>1, <2>2, <3>1, ConcatEmptySeq DEF ListKept
  <2>7. NoUndead'
    BY <2>1, <2>3 DEF NoUndead, Undead, Querying
  <2>8. QED
    BY <2>4, <2>5, <2>6, <2>7 DEF HandlerInv
<1>4. QED
  BY <1>2, <1>3

(* Records change in the main loop, but no window comes or goes.           *)
LEMMA RecordsKeep ==
  ASSUME WindowsInv, at = "loop",
         wins' \in Seq(Record), Ids(wins') = Ids(wins),
         ListSeen' => ListSeen,
         \A i \in DOMAIN wins' : ListSeen' /\ ~EarlyList => ~Undead(wins'[i]),
         fwindow' \in {None, fwindow} \union Under(wins),
         UNCHANGED <<server, at, query>>
  PROVE  HandlerInv'
<1> USE DEF WindowsInv, Types, ListTypes, QueryTypes
<1>1. job = "none"
  BY DEF Phases
<1>2. fwindow' # None => fwindow' \in Window /\ fwindow' \in Listed(Ids(wins))
  BY UnderListed DEF FwindowListed, Known
<1>3. ListTypes' /\ QueryTypes' /\ FwindowListed' /\ Phases'
  BY <1>1, <1>2 DEF FwindowListed, Known, Phases, Querying
<1>4. ListKept'
  BY <1>1 DEF ListKept
<1>5. NoUndead'
  BY <1>1 DEF NoUndead, Undead, OnList, Querying
<1>6. QED
  BY <1>3, <1>4, <1>5 DEF HandlerInv

(* A record of the list.                                                   *)
LEMMA RecordIn ==
  ASSUME WindowsInv, NEW i \in DOMAIN wins
  PROVE  wins[i] \in Record
         /\ (ListSeen /\ ~EarlyList /\ at = "loop" => ~Undead(wins[i]))
<1>1. wins[i] \in Record
  BY ElementOfSeq, LenProperties DEF WindowsInv, Types, ListTypes
<1>2. ListSeen /\ ~EarlyList /\ at = "loop" => ~Undead(wins[i])
  BY DEF WindowsInv, NoUndead, Phases
<1>3. QED
  BY <1>1, <1>2

(* Records drawn after a change of neither id nor dead.                    *)
LEMMA RecordsDrawn ==
  ASSUME WindowsInv, at = "loop", ListSeen' => ListSeen,
         NEW put, put = [i \in DOMAIN wins |-> put[i]],
         \A i \in DOMAIN wins :
           /\ put[i] \in Record
           /\ put[i].id = wins[i].id /\ put[i].dead = wins[i].dead,
         wins' = Drawn(put),
         UNCHANGED <<server, fwindow, at, query>>
  PROVE  HandlerInv'
<1>1. put \in Seq(Record) /\ DOMAIN put = DOMAIN wins /\ Ids(put) = Ids(wins)
  BY SameWindows DEF WindowsInv, Types, ListTypes
<1>2. /\ wins' \in Seq(Record) /\ DOMAIN wins' = DOMAIN wins
      /\ Ids(wins') = Ids(wins)
      /\ \A i \in DOMAIN wins : wins'[i].id = wins[i].id
                                /\ wins'[i].dead = wins[i].dead
  BY <1>1, DrawnKeeps
<1>3. ASSUME NEW i \in DOMAIN wins, ListSeen', ~EarlyList
      PROVE  ~Undead(wins'[i])
  BY <1>2, <1>3, RecordIn DEF Undead
<1>4. QED
  BY <1>2, <1>3, RecordsKeep

(* rie_window_query(): each request.                                       *)
LEMMA QuerySteps ==
  ASSUME WindowsInv,
         ReadDesktop \/ ReadGeometry \/ ReadFrame \/ Subscribe \/ ReadState
  PROVE  WindowsInv'
<1> USE DEF WindowsInv, Types, EventTypes
<1>1. Querying /\ cur \in Record /\ (at = "state" => job = "list")
  BY DEF Querying, Phases, ReadDesktop, ReadGeometry, ReadFrame, Subscribe,
         ReadState
<1>2. UNCHANGED <<server, notes, fwindow>>
  BY DEF ReadDesktop, ReadGeometry, ReadFrame, Subscribe, ReadState
<1>3. cur.id \in Window
  BY <1>1 DEF Record
<1>4. /\ subs' \subseteq Window
      /\ lost' \subseteq Window \X {"desktop", "geometry"}
  BY <1>3 DEF ReadDesktop, ReadGeometry, ReadFrame, Subscribe, ReadState
<1>5. ServerTypes' /\ EventTypes' /\ ManagedExist' /\ EndAnnounced'
  BY <1>2, <1>4 DEF ServerTypes, ManagedExist, EndAnnounced, OnList
<1>6. ListSeen /\ ~EarlyList => ~Undead(cur)
  BY <1>1 DEF NoUndead
<1>7. /\ Killed(cur) \in Record /\ Killed(cur).id = cur.id
      /\ desk[cur.id] = None => ~Undead(Killed(cur))
  BY <1>1, RecordTypes DEF Undead
<1>8. cur.id \notin exists => desk[cur.id] = None
  BY <1>3 DEF ManagedExist
<1>9. HandlerInv'
  <2>1. CASE ReadDesktop
    <3>1. CASE desk[cur.id] # None
      <4> DEFINE r == [cur EXCEPT !.desk = desk[cur.id]]
      <4>1. desk[cur.id] \in Number
        BY <1>3, <3>1 DEF ServerTypes
      <4>2. r \in Record /\ r.id = cur.id /\ r.dead = cur.dead
        BY <1>1, <4>1 DEF Record
      <4>3. Proceed("geometry", r)
        BY <2>1, <3>1 DEF ReadDesktop
      <4> HIDE DEF r
      <4>4. QED
        BY <1>1, <1>2, <4>2, <4>3, ProceedKeeps
    <3>2. CASE desk[cur.id] = None
      BY <1>1, <1>2, <1>7, <2>1, <3>2, DoneKeeps DEF ReadDesktop
    <3>3. QED
      BY <3>1, <3>2
  <2>2. CASE ReadGeometry
    <3>1. CASE cur.id \in exists
      <4> DEFINE r == [cur EXCEPT !.geom = geom[cur.id]]
      <4>1. geom[cur.id] \in Box
        BY <1>3 DEF ServerTypes
      <4>2. r \in Record /\ r.id = cur.id /\ r.dead = cur.dead
        BY <1>1, <4>1 DEF Record
      <4>3. Proceed("frame", r)
        BY <2>2, <3>1 DEF ReadGeometry
      <4> HIDE DEF r
      <4>4. QED
        BY <1>1, <1>2, <4>2, <4>3, ProceedKeeps
    <3>2. CASE cur.id \notin exists
      BY <1>1, <1>2, <1>7, <1>8, <2>2, <3>2, DoneKeeps DEF ReadGeometry
    <3>3. QED
      BY <3>1, <3>2
  <2>3. CASE ReadFrame
    <3>1. CASE cur.id \in exists
      BY <1>1, <1>2, <2>3, <3>1, ProceedKeeps DEF ReadFrame
    <3>2. CASE cur.id \notin exists
      BY <1>1, <1>2, <1>7, <1>8, <2>3, <3>2, DoneKeeps DEF ReadFrame
    <3>3. QED
      BY <3>1, <3>2
  <2>4. CASE Subscribe
    <3>1. CASE job = "list"
      BY <1>1, <1>2, <2>4, <3>1, ProceedKeeps DEF Subscribe
    <3>2. CASE job # "list"
      BY <1>1, <1>2, <1>6, <2>4, <3>2, DoneKeeps DEF Subscribe
    <3>3. QED
      BY <3>1, <3>2
  <2>5. CASE ReadState
    <3> DEFINE r == [cur EXCEPT !.hidden = hidden[cur.id]]
    <3>1. hidden[cur.id] \in BOOLEAN
      BY <1>3 DEF ServerTypes
    <3>2. r \in Record /\ r.id = cur.id /\ r.dead = cur.dead
      BY <1>1, <3>1 DEF Record
    <3>3. Done(r)
      BY <2>5 DEF ReadState
    <3> HIDE DEF r
    <3>4. ListSeen /\ ~EarlyList => ~Undead(r)
      BY <1>6, <3>2 DEF Undead
    <3>5. QED
      BY <1>1, <1>2, <3>2, <3>3, <3>4, DoneKeeps
  <2>6. QED
    BY <2>1, <2>2, <2>3, <2>4, <2>5
<1>10. QED
  BY <1>5, <1>9 DEF HandlerInv

(* The end of rie_event_client_list().                                     *)
LEMMA InstallKeeps ==
  ASSUME WindowsInv, Install
  PROVE  WindowsInv'
<1> USE DEF WindowsInv, Types, Install
<1>1. UNCHANGED <<server, notes, subs, lost>>
  OBVIOUS
<1>2. ServerTypes' /\ EventTypes' /\ ManagedExist' /\ EndAnnounced'
  BY <1>1 DEF ServerTypes, EventTypes, ManagedExist, EndAnnounced, OnList
<1>3. job = "list" /\ todo = <<>> /\ built \in Seq(Record)
  BY DEF Phases, QueryTypes
<1>4. /\ wins' \in Seq(Record) /\ DOMAIN wins' = DOMAIN built
      /\ Ids(wins') = Ids(built)
      /\ \A i \in DOMAIN built : wins'[i].id = built[i].id
                                 /\ wins'[i].dead = built[i].dead
  BY <1>3, DrawnKeeps, FocusedKeeps
<1>5. ListTypes' /\ QueryTypes' /\ Phases' /\ FwindowListed'
  BY <1>4 DEF ListTypes, QueryTypes, Phases, Querying, FwindowListed
<1>6. ListKept'
  <2>1. Ids(built) \o todo = Ids(built)
    BY <1>3, IdsType, ConcatEmptySeq
  <2>2. QED
    BY <1>1, <1>3, <1>4, <2>1 DEF ListKept, ListSeen
<1>7. NoUndead'
  BY <1>1, <1>3, <1>4 DEF NoUndead, Undead, OnList, ListSeen, Querying
<1>8. QED
  BY <1>2, <1>5, <1>6, <1>7

(* The handlers in the main loop.                                          *)
LEMMA HandlerSteps ==
  ASSUME WindowsInv,
         \/ Start \/ HandleList \/ HandleConfigure \/ HandleDestroy
         \/ HandleDesktop \/ HandleState \/ HandleActive \/ Motion
  PROVE  WindowsInv'
<1> USE DEF WindowsInv, Types
<1> DEFINE w == Head(notes).win
<1>1. at \in {"start", "loop"} /\ job = "none" /\ UNCHANGED <<server, subs>>
  BY DEF Phases, Start, HandleList, HandleConfigure, HandleDestroy,
         HandleDesktop, HandleState, HandleActive, Motion, Take
<1>2. UNCHANGED notes \/ \E kind \in Kinds : Take(kind)
  BY DEF Start, HandleList, HandleConfigure, HandleDestroy,
         HandleDesktop, HandleState, HandleActive, Motion, Kinds
<1>3. notes' \in Seq(Event) /\ EndAnnounced'
  BY <1>1, <1>2, TakeKeeps DEF EventTypes, EndAnnounced, OnList
<1>4. lost' \subseteq lost
  BY DEF Start, HandleList, HandleConfigure, HandleDestroy,
         HandleDesktop, HandleState, HandleActive, Motion
<1>5. ServerTypes' /\ EventTypes' /\ ManagedExist'
  BY <1>1, <1>3, <1>4 DEF ServerTypes, EventTypes, ManagedExist
<1>6. HandlerInv'
  <2>1. CASE Start \/ HandleList
    BY <1>1, <2>1, ReadListKeeps DEF Start, HandleList
  <2>2. CASE HandleConfigure
    <3>1. at = "loop" /\ (ListSeen' => ListSeen) /\ UNCHANGED <<wins, fwindow>>
      BY <1>1, <2>2, TakeKeeps DEF HandleConfigure, Take
    <3>2. CASE UNCHANGED <<at, query>>
      BY <1>1, <3>1, <3>2, RecordIn, RecordsKeep DEF ListTypes, Undead
    <3>3. CASE \E i \in DOMAIN wins : /\ at' = "desktop" /\ job' = "configure"
                                      /\ cur' = wins[i]
                                      /\ UNCHANGED <<todo, built>>
      <4>1. PICK i \in DOMAIN wins : /\ at' = "desktop" /\ job' = "configure"
                                     /\ cur' = wins[i]
                                     /\ UNCHANGED <<todo, built>>
        BY <3>3
      <4>2. wins[i] \in Record /\ (ListSeen /\ ~EarlyList => ~Undead(wins[i]))
        BY <3>1, RecordIn
      <4>3. ListTypes' /\ QueryTypes' /\ Phases' /\ FwindowListed'
        BY <3>1, <4>1, <4>2
           DEF ListTypes, QueryTypes, Phases, Querying, FwindowListed, Known
      <4>4. ListKept'
        BY <1>1, <3>1, <4>1 DEF ListKept
      <4>5. NoUndead'
        BY <1>1, <3>1, <4>1, <4>2 DEF NoUndead, Undead, OnList, Querying
      <4>6. QED
        BY <4>3, <4>4, <4>5 DEF HandlerInv
    <3>4. QED
      BY <2>2, <3>2, <3>3 DEF HandleConfigure
  <2>3. CASE HandleDestroy
    <3>1. /\ at = "loop" /\ (ListSeen' => ListSeen)
          /\ UNCHANGED <<at, query, fwindow>>
          /\ ListSeen' /\ ~EarlyList => w \notin OnList \/ desk[w] = None
      BY <1>1, <2>3, TakeKeeps DEF HandleDestroy, Take
    <3>2. /\ wins' = [i \in DOMAIN wins |-> wins'[i]]
          /\ DOMAIN wins' = DOMAIN wins
          /\ \A i \in DOMAIN wins :
               wins'[i] = IF wins[i].id = w THEN Killed(wins[i]) ELSE wins[i]
      BY <2>3 DEF HandleDestroy, With
    <3>3. \A i \in DOMAIN wins : wins'[i] \in Record /\ wins'[i].id = wins[i].id
      BY <3>2, RecordIn, RecordTypes
    <3>4. ASSUME NEW i \in DOMAIN wins, ListSeen', ~EarlyList
          PROVE  ~Undead(wins'[i])
      <4>1. CASE wins[i].id = w
        BY <3>1, <3>3, <3>4, <4>1 DEF Undead
      <4>2. CASE wins[i].id # w
        BY <3>1, <3>2, <3>4, <4>2, RecordIn
      <4>3. QED
        BY <4>1, <4>2
    <3>5. wins' \in Seq(Record) /\ Ids(wins') = Ids(wins)
      BY <3>2, <3>3, SameWindows DEF ListTypes
    <3>6. QED
      BY <1>1, <3>1, <3>2, <3>4, <3>5, RecordsKeep
  <2>4. CASE HandleDesktop
    <3> DEFINE x == IF desk[w] = None THEN 0 ELSE desk[w]
               New(r) == IF r.dead THEN r ELSE [r EXCEPT !.desk = x]
               put == With(wins, w, New)
    <3>1. /\ at = "loop" /\ (ListSeen' => ListSeen)
          /\ UNCHANGED <<at, query, fwindow>>
          /\ wins' = Drawn(put)
      BY <1>1, <2>4, TakeKeeps DEF HandleDesktop, Take
    <3>2. /\ put = [i \in DOMAIN wins |-> put[i]]
          /\ \A i \in DOMAIN wins :
               put[i] = IF wins[i].id = w THEN New(wins[i]) ELSE wins[i]
      BY DEF With
    <3> HIDE DEF put
    <3>3. ASSUME NEW i \in DOMAIN wins
          PROVE  /\ put[i] \in Record /\ put[i].id = wins[i].id
                 /\ put[i].dead = wins[i].dead
      <4>1. wins[i] \in Record
        BY RecordIn
      <4>2. wins[i].id = w => x \in Number
        BY <4>1, WindowAssumption DEF ServerTypes, Record
      <4> HIDE DEF x
      <4>3. \A r \in Record : x \in Number =>
              /\ [r EXCEPT !.desk = x] \in Record
              /\ [r EXCEPT !.desk = x].id = r.id
              /\ [r EXCEPT !.desk = x].dead = r.dead
        BY DEF Record
      <4>4. QED
        BY <3>2, <4>1, <4>2, <4>3
    <3>4. QED
      BY <1>1, <3>1, <3>2, <3>3, RecordsDrawn
  <2>5. CASE HandleState
    <3> DEFINE x == hidden[w]
               New(r) == IF r.dead THEN r ELSE [r EXCEPT !.hidden = x]
               put == With(wins, w, New)
    <3>1. /\ at = "loop" /\ (ListSeen' => ListSeen)
          /\ UNCHANGED <<at, query, fwindow>>
          /\ wins' = Drawn(put)
      BY <1>1, <2>5, TakeKeeps DEF HandleState, Take
    <3>2. /\ put = [i \in DOMAIN wins |-> put[i]]
          /\ \A i \in DOMAIN wins :
               put[i] = IF wins[i].id = w THEN New(wins[i]) ELSE wins[i]
      BY DEF With
    <3> HIDE DEF put
    <3>3. ASSUME NEW i \in DOMAIN wins
          PROVE  /\ put[i] \in Record /\ put[i].id = wins[i].id
                 /\ put[i].dead = wins[i].dead
      <4>1. wins[i] \in Record
        BY RecordIn
      <4>2. wins[i].id = w => x \in BOOLEAN
        BY <4>1, WindowAssumption DEF ServerTypes, Record
      <4> HIDE DEF x
      <4>3. \A r \in Record : x \in BOOLEAN =>
              /\ [r EXCEPT !.hidden = x] \in Record
              /\ [r EXCEPT !.hidden = x].id = r.id
              /\ [r EXCEPT !.hidden = x].dead = r.dead
        BY DEF Record
      <4>4. QED
        BY <3>2, <4>1, <4>2, <4>3
    <3>4. QED
      BY <1>1, <3>1, <3>2, <3>3, RecordsDrawn
  <2>6. CASE HandleActive
    <3>1. /\ at = "loop" /\ (ListSeen' => ListSeen) /\ UNCHANGED <<at, query>>
          /\ fwindow' \in {None, fwindow} \union Under(wins)
          /\ wins' = Drawn(Focused(wins))
      BY <1>1, <2>6, TakeKeeps DEF HandleActive, Take
    <3>2. /\ wins' \in Seq(Record) /\ DOMAIN wins' = DOMAIN wins
          /\ Ids(wins') = Ids(wins)
          /\ \A i \in DOMAIN wins : wins'[i].id = wins[i].id
                                    /\ wins'[i].dead = wins[i].dead
      BY <3>1, DrawnKeeps, FocusedKeeps DEF ListTypes
    <3>3. ASSUME NEW i \in DOMAIN wins, ListSeen', ~EarlyList
          PROVE  ~Undead(wins'[i])
      BY <3>1, <3>2, <3>3, RecordIn DEF Undead
    <3>4. QED
      BY <1>1, <3>1, <3>2, <3>3, RecordsKeep
  <2>7. CASE Motion
    <3>1. /\ at = "loop" /\ UNCHANGED <<at, query, wins, notes>>
          /\ ListSeen' = ListSeen /\ fwindow' \in Under(wins)
      BY <2>7 DEF Motion, ListSeen
    <3>2. QED
      BY <1>1, <3>1, RecordIn, RecordsKeep DEF ListTypes
  <2>8. QED
    BY <2>1, <2>2, <2>3, <2>4, <2>5, <2>6, <2>7
<1>7. QED
  BY <1>3, <1>5, <1>6 DEF HandlerInv

(***************************************************************************)
(* The invariant and what follows from it.                                 *)
(***************************************************************************)

LEMMA WindowsInvInit == Init => WindowsInv
<1> SUFFICES ASSUME Init PROVE WindowsInv
  OBVIOUS
<1> USE DEF Init
<1>1. Managed \subseteq Window
  BY DEF Managed
<1>2. clist = None \/ clist \in Seq(Window)
  BY <1>1, OrdersType
<1>3. Types
  BY <1>1, <1>2 DEF Types, ServerTypes, EventTypes, ListTypes, QueryTypes
<1>4. Phases /\ ManagedExist /\ FwindowListed /\ ListKept /\ EndAnnounced
  BY DEF Phases, Querying, ManagedExist, FwindowListed, ListKept, EndAnnounced
<1>5. NoUndead
  BY DEF NoUndead, Querying
<1>6. QED
  BY <1>3, <1>4, <1>5 DEF WindowsInv

LEMMA WindowsInvNext == WindowsInv /\ [Next]_vars => WindowsInv'
<1> SUFFICES ASSUME WindowsInv, [Next]_vars PROVE WindowsInv'
  OBVIOUS
<1>1. CASE Server
  BY <1>1, ServerKeeps
<1>2. CASE Pager
  BY <1>2, QuerySteps, InstallKeeps, HandlerSteps DEF Pager
<1>3. CASE Motion
  BY <1>3, HandlerSteps
<1>4. CASE UNCHANGED vars
  BY <1>4 DEF WindowsInv, Types, ServerTypes, EventTypes, ListTypes, QueryTypes,
              Phases, Querying, ManagedExist, FwindowListed, Known, ListKept,
              ListSeen, EndAnnounced, OnList, NoUndead, Undead
<1>5. QED
  BY <1>1, <1>2, <1>3, <1>4 DEF Next

LEMMA WindowsInvAlways == Spec => []WindowsInv
  BY WindowsInvInit, WindowsInvNext, PTL DEF Spec

(***************************************************************************)
(* Every variable keeps its type (the variables of rieman and of its       *)
(* environment).                                                           *)
(***************************************************************************)
THEOREM WindowsTypeCorrect == Spec => []TypeOK
<1>1. WindowsInv => TypeOK
  BY DEF WindowsInv, Types, ServerTypes, EventTypes, Event, ListTypes,
         QueryTypes, TypeOK
<1>2. QED
  BY <1>1, WindowsInvAlways, PTL

(***************************************************************************)
(* pager->fwindow never dangles: whatever list replaces the windows while  *)
(* the mouse is over one of them (rie_event_client_list()).                *)
(***************************************************************************)
THEOREM FwindowNeverDangles == Spec => []FwindowListed
<1>1. WindowsInv => FwindowListed
  BY DEF WindowsInv
<1>2. QED
  BY <1>1, WindowsInvAlways, PTL

(***************************************************************************)
(* If the window manager lists no window before it has given it a desktop, *)
(* rieman ends up with exactly the windows of the list, none of them dead, *)
(* for any number of windows, changes and reused ids (rie_event_client_-   *)
(* list(), rie_event_xcb_destroy_notify(), rie_window_query()).            *)
(***************************************************************************)
THEOREM ListConverges ==
  ASSUME EarlyList = FALSE
  PROVE  Spec => []ListFollows
<1>1. ASSUME WindowsInv, Quiet
      PROVE  Ids(wins) = clist /\ \A i \in DOMAIN wins : ~wins[i].dead
  <2>1. ListSeen /\ at = "loop" /\ job = "none" /\ clist # None
    BY <1>1 DEF Quiet, Settled, ListSeen, WindowsInv, Phases
  <2>2. Ids(wins) = clist
    BY <1>1, <2>1 DEF WindowsInv, ListKept
  <2>3. ASSUME NEW i \in DOMAIN wins
        PROVE  ~wins[i].dead
    <3>1. wins[i].id \in OnList
      BY <2>1, <2>2 DEF OnList, Listed, Ids
    <3>2. desk[wins[i].id] # None
      BY <1>1, <3>1 DEF Quiet, Settled, Managed
    <3>3. QED
      BY <1>1, <2>1, <3>1, <3>2, RecordIn DEF Undead
  <2>4. QED
    BY <2>2, <2>3
<1>2. WindowsInv => ListFollows
  BY <1>1 DEF ListFollows
<1>3. QED
  BY <1>2, WindowsInvAlways, PTL

-------------------------------------------------------------------------------
(***************************************************************************)
(* The fields of the windows: what rieman knows of each window of its list *)
(* (hidden, desktop, place, focused) follows the server.  The inductive    *)
(* invariant, on top of the one above.                                     *)
(***************************************************************************)

(* What is being told, and of which window.                                *)
Waiting == {<<notes[i].kind, notes[i].win>> : i \in DOMAIN notes}

FocusSeen == \A x \in Waiting : x[1] # "active"

(* The records that will be used.                                          *)
InUse == IF job = "list" THEN built ELSE wins

Current == ListSeen /\ clist # None /\ at # "start"

(* A record's field is the window's, or rieman will be told that it is     *)
(* not; it is told as long as the window it asked about exists.            *)
StateGood(r) ==
  ~r.dead /\ r.id \in exists =>
    /\ r.id \in subs
    /\ r.hidden = hidden[r.id] \/ <<"state", r.id>> \in Waiting
DeskGood(r) ==
  r.id \in exists /\ desk[r.id] # None =>
    \/ r.desk = desk[r.id] \/ <<r.id, "desktop">> \in lost
    \/ <<"desktop", r.id>> \in Waiting
GeomGood(r) ==
  r.id \in exists =>
    \/ r.geom = geom[r.id] \/ <<r.id, "geometry">> \in lost
    \/ <<"configure", r.id>> \in Waiting

StateKept ==
  Current =>
    /\ \A i \in DOMAIN InUse : StateGood(InUse[i])
    /\ job = "configure" => StateGood(cur)
    /\ at = "state" /\ cur.id \in exists => cur.id \in subs

(* A window that is being queried again will have the fields of the query. *)
Requeried(r) == job = "configure" /\ r.id = cur.id

FieldsKept ==
  ~EarlyList /\ Current =>
    /\ \A i \in DOMAIN InUse :
         LET r == InUse[i]
         IN  Requeried(r) \/ r.dead \/ (DeskGood(r) /\ GeomGood(r))
    /\ at \in {"geometry", "frame", "subscribe", "state"} => DeskGood(cur)
    /\ at \in {"frame", "subscribe", "state"} => GeomGood(cur)

(* Lists name no window twice.                                             *)
Once(q) == \A i, j \in DOMAIN q : q[i] = q[j] => i = j

Distinct ==
  /\ clist # None => Once(clist)
  /\ job = "list" => Once(Ids(built) \o todo)
  /\ Once(Ids(wins))
  /\ job = "configure" => \E i \in DOMAIN wins : wins[i].id = cur.id

(* One window is focused at most, and if no other is announced it is the   *)
(* active one.  The list being built has no focus yet.                     *)
FocusKept ==
  /\ job = "list" => /\ \A i \in DOMAIN built : ~built[i].focused
                     /\ Querying => ~cur.focused
  /\ job = "configure" =>
       \A i \in DOMAIN wins : wins[i].id = cur.id
                                => cur.focused = wins[i].focused
  /\ \A i, j \in DOMAIN wins : wins[i].focused /\ wins[j].focused => i = j
  /\ job # "list" /\ active # None /\ FocusSeen =>
       \A i \in DOMAIN wins : wins[i].focused <=> wins[i].id = active

(***************************************************************************)
(* Events.                                                                 *)
(***************************************************************************)

(* What was to be told still is when something is added.                   *)
LEMMA WaitingGrows ==
  ASSUME notes \in Seq(Event), NEW tell \in Seq(Event), notes' = notes \o tell
  PROVE  /\ Waiting \subseteq Waiting'
         /\ \A i \in DOMAIN tell : <<tell[i].kind, tell[i].win>> \in Waiting'
         /\ \A x \in Waiting' : x \in Waiting \/
              \E i \in DOMAIN tell : x = <<tell[i].kind, tell[i].win>>
         /\ ListSeen' => ListSeen
<1>1. /\ Len(notes) \in Nat /\ Len(tell) \in Nat
      /\ DOMAIN notes = 1..Len(notes) /\ DOMAIN tell = 1..Len(tell)
      /\ DOMAIN notes' = 1..(Len(notes) + Len(tell))
      /\ \A i \in 1..(Len(notes) + Len(tell)) :
           notes'[i] = IF i <= Len(notes)
                       THEN notes[i] ELSE tell[i - Len(notes)]
  BY ConcatProperties, LenProperties
<1>2. \A i \in DOMAIN notes : i \in DOMAIN notes' /\ notes'[i] = notes[i]
  BY <1>1
<1>3. ASSUME NEW i \in DOMAIN tell
      PROVE  /\ Len(notes) + i \in DOMAIN notes'
             /\ notes'[Len(notes) + i] = tell[i]
  BY <1>1
<1>4. ASSUME NEW i \in DOMAIN notes'
      PROVE  \/ i \in DOMAIN notes /\ notes'[i] = notes[i]
             \/ i - Len(notes) \in DOMAIN tell /\ notes'[i] = tell[i - Len(notes)]
  BY <1>1
<1>5. Waiting \subseteq Waiting'
  BY <1>2 DEF Waiting
<1>6. \A i \in DOMAIN tell : <<tell[i].kind, tell[i].win>> \in Waiting'
  BY <1>3 DEF Waiting
<1>7. \A x \in Waiting' : x \in Waiting \/
        \E i \in DOMAIN tell : x = <<tell[i].kind, tell[i].win>>
  BY <1>4 DEF Waiting
<1>8. ListSeen' => ListSeen
  BY <1>2 DEF ListSeen
<1>9. QED
  BY <1>5, <1>6, <1>7, <1>8

(* Taking an event forgets only that one.                                  *)
LEMMA WaitingTaken ==
  ASSUME notes \in Seq(Event), NEW kind, Take(kind)
  PROVE  /\ Waiting \subseteq Waiting' \union {<<kind, Head(notes).win>>}
         /\ Waiting' \subseteq Waiting
<1>1. /\ notes # <<>> /\ notes' = Tail(notes) /\ notes[1].kind = kind
      /\ Head(notes) = notes[1]
  BY DEF Take
<1>2. /\ Len(notes) \in Nat \ {0} /\ Len(notes') = Len(notes) - 1
      /\ DOMAIN notes = 1..Len(notes) /\ DOMAIN notes' = 1..Len(notes')
      /\ \A i \in DOMAIN notes' : notes'[i] = notes[i + 1]
  BY <1>1, HeadTailProperties, LenProperties, EmptySeq
<1>3. \A j \in DOMAIN notes : j # 1 => /\ j - 1 \in DOMAIN notes'
                                       /\ notes'[j - 1] = notes[j]
  BY <1>2
<1>4. \A i \in DOMAIN notes' : i + 1 \in DOMAIN notes
  BY <1>2
<1>5. Waiting' \subseteq Waiting
  BY <1>2, <1>4 DEF Waiting
<1>6. Waiting \subseteq Waiting' \union {<<kind, Head(notes).win>>}
  BY <1>1, <1>3 DEF Waiting
<1>7. QED
  BY <1>5, <1>6

(* A window with something to tell rieman about it.                        *)
LEMMA ToldSomething ==
  ASSUME NEW kind, NEW w, w \in subs
  PROVE  /\ 1 \in DOMAIN Told(kind, w) /\ 1 \in DOMAIN ToldTwice(kind, w)
         /\ Told(kind, w) # <<>> /\ ToldTwice(kind, w) # <<>>
<1>1. Told(kind, w) = <<[kind |-> kind, win |-> w]>>
  BY DEF Told
<1>2. \/ ToldTwice(kind, w) = <<[kind |-> kind, win |-> w]>> \o <<>>
      \/ ToldTwice(kind, w) = <<[kind |-> kind, win |-> w]>>
                               \o <<[kind |-> kind, win |-> w]>>
  BY <1>1 DEF ToldTwice
<1>3. QED
  BY <1>1, <1>2

(***************************************************************************)
(* The server's steps.                                                     *)
(***************************************************************************)

(* What a step of the server leaves, or tells, of a window that is listed  *)
(* before and after it.                                                    *)
SteadyState(w) ==
  w \in exists' /\ w \in subs =>
    /\ w \in subs'
    /\ hidden'[w] = hidden[w] \/ <<"state", w>> \in Waiting'
Missed(w, field) ==
  w \notin subs /\ (field \in ReadOf(w) => <<w, field>> \in lost')
SteadyDesk(w) ==
  desk'[w] = desk[w] \/ <<"desktop", w>> \in Waiting' \/ Missed(w, "desktop")
SteadyGeom(w) ==
  geom'[w] = geom[w] \/ <<"configure", w>> \in Waiting' \/ Missed(w, "geometry")
Steady(w) ==
  /\ w \in exists' => w \in exists
  /\ SteadyState(w)
  /\ w \in exists' /\ desk'[w] # None =>
       SteadyDesk(w) /\ (EarlyList \/ desk[w] # None)
  /\ w \in exists' => SteadyGeom(w)

ServerFields ==
  /\ UNCHANGED <<wins, at, query>>
  /\ Waiting \subseteq Waiting' /\ lost \subseteq lost'
  /\ ListSeen' => ListSeen
  /\ FocusSeen' => FocusSeen /\ active' = active
  /\ clist' = clist \/ clist' = None \/ Once(clist')
  /\ ListSeen' => clist' = clist /\ \A w \in OnList : Steady(w)

(* An order names each window once.                                        *)
LEMMA OrdersOnce ==
  ASSUME NEW S \in SUBSET Window, NEW q \in Orders(S)
  PROVE  Once(q)
<1>1. IsFiniteSet(S)
  BY FS_Subset, WindowAssumption
<1>2. Cardinality(S) \in Nat
  BY <1>1, FS_CardinalityType
<1>3. q \in [1..Cardinality(S) -> S] /\ Listed(q) = S
  BY DEF Orders
<1>4. /\ IsFiniteSet(1..Cardinality(S))
      /\ Cardinality(1..Cardinality(S)) = Cardinality(S)
  BY <1>2, FS_Interval
<1>5. q \in Surjection(1..Cardinality(S), S)
  BY <1>3 DEF Listed, Surjection
<1>6. q \in Injection(1..Cardinality(S), S)
  BY <1>1, <1>4, <1>5, FS_SurjSameCardinalityImpliesInj
<1>7. QED
  BY <1>6 DEF Injection, IsInjective, Once

(* A new list, or a new active window, is announced.                       *)
LEMMA Announcing ==
  ASSUME Types, NEW kind \in {"list", "active"},
         notes' = Append(notes, [kind |-> kind, win |-> None])
  PROVE  /\ Waiting \subseteq Waiting' /\ (ListSeen' => ListSeen)
         /\ kind = "list" => ~ListSeen'
         /\ kind = "active" => ~FocusSeen'
<1> DEFINE e == [kind |-> kind, win |-> None]
<1>1. e \in Event
  BY DEF Event, Kinds
<1>2. notes \in Seq(Event) /\ <<e>> \in Seq(Event) /\ notes' = notes \o <<e>>
  BY <1>1, AppendIsConcat DEF Types, EventTypes
<1>3. /\ Waiting \subseteq Waiting' /\ (ListSeen' => ListSeen)
      /\ \A i \in DOMAIN <<e>> : <<(<<e>>[i]).kind, (<<e>>[i]).win>> \in Waiting'
  BY <1>2, WaitingGrows
<1>4. <<kind, None>> \in Waiting'
  BY <1>3
<1>5. ASSUME kind = "list" PROVE ~ListSeen'
  BY <1>4, <1>5 DEF Waiting, ListSeen
<1>6. ASSUME kind = "active" PROVE ~FocusSeen'
  BY <1>4, <1>6 DEF FocusSeen
<1>7. QED
  BY <1>3, <1>5, <1>6

(* A change of a window of which rieman is told by the events in tell.     *)
LEMMA Telling ==
  ASSUME Types, NEW kind \in Kinds, NEW w \in Window, NEW tell,
         tell = Told(kind, w) \/ tell = ToldTwice(kind, w),
         notes' = notes \o tell
  PROVE  /\ Waiting \subseteq Waiting' /\ (ListSeen' => ListSeen)
         /\ FocusSeen' => FocusSeen
         /\ tell # <<>> => <<kind, w>> \in Waiting'
         /\ w \in subs => tell # <<>> /\ <<kind, w>> \in Waiting'
<1>1. /\ tell \in Seq(Event)
      /\ \A i \in DOMAIN tell : tell[i] = [kind |-> kind, win |-> w]
  BY ToldType
<1>2. w \in subs => 1 \in DOMAIN tell
  BY ToldSomething
<1>3. /\ Waiting \subseteq Waiting' /\ (ListSeen' => ListSeen)
      /\ \A i \in DOMAIN tell : <<tell[i].kind, tell[i].win>> \in Waiting'
  BY <1>1, WaitingGrows DEF Types, EventTypes
<1>4. tell # <<>> => 1 \in DOMAIN tell
  BY <1>1, EmptySeq, LenProperties
<1>5. tell = <<>> => DOMAIN tell = {}
  OBVIOUS
<1>6. \A i \in DOMAIN tell : <<kind, w>> \in Waiting'
  BY <1>1, <1>3
<1>7. FocusSeen' => FocusSeen
  BY <1>3 DEF FocusSeen
<1>8. QED
  BY <1>2, <1>3, <1>4, <1>5, <1>6, <1>7

LEMMA ServerTells ==
  ASSUME Types, Server
  PROVE  ServerFields
<1> USE DEF Types, ServerTypes, EventTypes
<1>1. ASSUME NEW w \in Window, Create(w)
      PROVE  ServerFields
  <2>1. /\ UNCHANGED <<wins, at, query, notes, subs, lost, clist, active>>
        /\ UNCHANGED <<geom, hidden>>
        /\ w \notin OnList /\ exists' = exists \union {w}
        /\ \A v \in Window \ {w} : desk'[v] = desk[v]
    BY <1>1 DEF Create, Change
  <2>2. Waiting' = Waiting /\ ListSeen' = ListSeen /\ FocusSeen' = FocusSeen
    BY <2>1 DEF Waiting, ListSeen, FocusSeen
  <2>3. \A v \in OnList : v \in Window /\ v # w
    BY <2>1, ElementOfSeq, LenProperties DEF OnList, Listed
  <2>4. QED
    BY <2>1, <2>2, <2>3 DEF ServerFields, Steady, SteadyState, SteadyDesk, SteadyGeom
<1>2. ASSUME NEW w \in Window, Destroy(w)
      PROVE  ServerFields
  <2>1. /\ UNCHANGED <<wins, at, query, lost, clist, active, geom>>
        /\ exists' = exists \ {w} /\ subs' = subs \ {w}
        /\ \A v \in Window \ {w} : desk'[v] = desk[v] /\ hidden'[v] = hidden[v]
        /\ notes' = notes \o ToldTwice("destroy", w)
    BY <1>2 DEF Destroy, Change
  <2>2. /\ Waiting \subseteq Waiting' /\ (ListSeen' => ListSeen)
        /\ FocusSeen' => FocusSeen
    BY <2>1, Telling DEF Kinds
  <2>3. \A v \in exists' : v \in exists /\ v \in Window /\ v # w
    BY <2>1
  <2>4. QED
    BY <2>1, <2>2, <2>3 DEF ServerFields, Steady, SteadyState, SteadyDesk, SteadyGeom
<1>3. ASSUME NEW w \in Window, Move(w)
      PROVE  ServerFields
  <2> DEFINE tell == ToldTwice("configure", w)
  <2>1. /\ UNCHANGED <<wins, at, query, subs, clist, active, exists, desk, hidden>>
        /\ \A v \in Window \ {w} : geom'[v] = geom[v]
        /\ notes' = notes \o tell /\ lost \subseteq lost'
        /\ tell = <<>> /\ "geometry" \in ReadOf(w) => <<w, "geometry">> \in lost'
    BY <1>3 DEF Move, Change, Changed
  <2>2. /\ Waiting \subseteq Waiting' /\ (ListSeen' => ListSeen)
        /\ FocusSeen' => FocusSeen
        /\ tell # <<>> => <<"configure", w>> \in Waiting'
        /\ w \in subs => <<"configure", w>> \in Waiting'
    BY <2>1, Telling DEF Kinds
  <2> HIDE DEF tell
  <2>3. SteadyGeom(w)
    BY <2>1, <2>2 DEF SteadyGeom, Missed
  <2>4. \A v \in exists' : v \in Window
    BY <2>1
  <2>5. QED
    BY <2>1, <2>2, <2>3, <2>4
       DEF ServerFields, Steady, SteadyState, SteadyDesk, SteadyGeom
<1>4. ASSUME NEW w \in Window, SetDesktop(w) \/ Withdraw(w)
      PROVE  ServerFields
  <2> DEFINE tell == Told("desktop", w)
  <2>1. /\ UNCHANGED <<wins, at, query, subs, clist, active, exists, geom, hidden>>
        /\ \A v \in Window \ {w} : desk'[v] = desk[v]
        /\ notes' = notes \o tell /\ lost \subseteq lost'
        /\ tell = <<>> /\ "desktop" \in ReadOf(w) => <<w, "desktop">> \in lost'
        /\ EarlyList \/ desk[w] # None \/ w \notin OnList
    BY <1>4 DEF SetDesktop, Withdraw, Managed, Change, Changed
  <2>2. /\ Waiting \subseteq Waiting' /\ (ListSeen' => ListSeen)
        /\ FocusSeen' => FocusSeen
        /\ tell # <<>> => <<"desktop", w>> \in Waiting'
        /\ w \in subs => <<"desktop", w>> \in Waiting'
    BY <2>1, Telling DEF Kinds
  <2> HIDE DEF tell
  <2>3. SteadyDesk(w)
    BY <2>1, <2>2 DEF SteadyDesk, Missed
  <2>4. \A v \in exists' : v \in Window
    BY <2>1
  <2>5. QED
    BY <2>1, <2>2, <2>3, <2>4
       DEF ServerFields, Steady, SteadyState, SteadyDesk, SteadyGeom
<1>5. ASSUME NEW w \in Window, Hide(w)
      PROVE  ServerFields
  <2>1. /\ UNCHANGED <<wins, at, query, subs, clist, active, exists, geom, desk>>
        /\ UNCHANGED lost
        /\ \A v \in Window \ {w} : hidden'[v] = hidden[v]
        /\ notes' = notes \o Told("state", w)
    BY <1>5 DEF Hide, Change
  <2>2. /\ Waiting \subseteq Waiting' /\ (ListSeen' => ListSeen)
        /\ FocusSeen' => FocusSeen
        /\ w \in subs => <<"state", w>> \in Waiting'
    BY <2>1, Telling DEF Kinds
  <2>3. SteadyState(w)
    BY <2>1, <2>2 DEF SteadyState
  <2>4. \A v \in exists' : v \in Window
    BY <2>1
  <2>5. QED
    BY <2>1, <2>2, <2>3, <2>4
       DEF ServerFields, Steady, SteadyState, SteadyDesk, SteadyGeom
<1>6. CASE CatchUp \/ Restack
  <2>1. /\ UNCHANGED <<wins, at, query, lost, active>>
        /\ notes' = Append(notes, [kind |-> "list", win |-> None])
    BY <1>6 DEF CatchUp, Restack, Change
  <2>2. Waiting \subseteq Waiting' /\ ~ListSeen'
    BY <2>1, Announcing
  <2>3. OnList \subseteq Window
    BY ElementOfSeq, LenProperties DEF OnList, Listed
  <2>4. clist' = None \/ \E S \in SUBSET Window : clist' \in Orders(S)
    BY <1>6, <2>3 DEF CatchUp, Restack
  <2>5. clist' = None \/ Once(clist')
    BY <2>4, OrdersOnce DEF Once
  <2>6. QED
    BY <2>1, <2>2, <2>5 DEF ServerFields, FocusSeen
<1>7. CASE Activate
  <2>1. /\ UNCHANGED <<wins, at, query, lost, clist, exists, desk, geom, hidden>>
        /\ UNCHANGED subs
        /\ notes' = Append(notes, [kind |-> "active", win |-> None])
    BY <1>7 DEF Activate, Change
  <2>2. Waiting \subseteq Waiting' /\ (ListSeen' => ListSeen) /\ ~FocusSeen'
    BY <2>1, Announcing
  <2>3. QED
    BY <2>1, <2>2 DEF ServerFields, Steady, SteadyState, SteadyDesk, SteadyGeom
<1>8. QED
  BY <1>1, <1>2, <1>3, <1>4, <1>5, <1>6, <1>7 DEF Server

(***************************************************************************)
(* Lists of records.                                                       *)
(***************************************************************************)

(* The elements of two sequences in a row.                                 *)
LEMMA InARow ==
  ASSUME NEW s \in Seq(Window), NEW t \in Seq(Window)
  PROVE  /\ DOMAIN (s \o t) = 1..(Len(s) + Len(t))
         /\ \A i \in 1..Len(s) : (s \o t)[i] = s[i]
         /\ \A i \in 1..Len(t) : (s \o t)[Len(s) + i] = t[i]
<1>1. /\ s \o t \in Seq(Window) /\ Len(s \o t) = Len(s) + Len(t)
      /\ \A i \in 1..(Len(s) + Len(t)) :
           (s \o t)[i] = IF i <= Len(s) THEN s[i] ELSE t[i - Len(s)]
  BY ConcatProperties
<1>2. Len(s) \in Nat /\ Len(t) \in Nat
  BY LenProperties
<1>3. DOMAIN (s \o t) = 1..(Len(s) + Len(t))
  BY <1>1, LenProperties
<1>4. \A i \in 1..Len(s) : (s \o t)[i] = s[i]
  BY <1>1, <1>2
<1>5. \A i \in 1..Len(t) : (s \o t)[Len(s) + i] = t[i]
  BY <1>1, <1>2
<1>6. QED
  BY <1>3, <1>4, <1>5

(* Where the queried windows and the ones still to query are in the list.  *)
LEMMA ListParts ==
  ASSUME NEW ws \in Seq(Record), NEW t \in Seq(Window)
  PROVE  /\ Len(ws) \in Nat /\ Len(t) \in Nat
         /\ DOMAIN ws = 1..Len(ws) /\ DOMAIN t = 1..Len(t)
         /\ DOMAIN (Ids(ws) \o t) = 1..(Len(ws) + Len(t))
         /\ \A i \in DOMAIN ws : (Ids(ws) \o t)[i] = ws[i].id
         /\ \A i \in DOMAIN t : (Ids(ws) \o t)[Len(ws) + i] = t[i]
<1>1. /\ Ids(ws) \in Seq(Window) /\ Len(Ids(ws)) = Len(ws)
      /\ Len(ws) \in Nat /\ DOMAIN ws = 1..Len(ws)
      /\ Len(t) \in Nat /\ DOMAIN t = 1..Len(t)
  BY IdsType, LenProperties
<1>2. \A i \in DOMAIN ws : Ids(ws)[i] = ws[i].id
  BY DEF Ids
<1> DEFINE s == Ids(ws)
<1>3. s \in Seq(Window) /\ Len(s) = Len(ws)
  BY <1>1
<1> HIDE DEF s
<1>4. /\ DOMAIN (s \o t) = 1..(Len(s) + Len(t))
      /\ \A i \in 1..Len(s) : (s \o t)[i] = s[i]
      /\ \A i \in 1..Len(t) : (s \o t)[Len(s) + i] = t[i]
  BY <1>1, <1>3, InARow
<1>5. \A i \in DOMAIN ws : (s \o t)[i] = ws[i].id
  BY <1>1, <1>2, <1>3, <1>4 DEF s
<1>6. \A i \in DOMAIN t : (s \o t)[Len(ws) + i] = t[i]
  BY <1>1, <1>3, <1>4
<1>7. QED
  BY <1>1, <1>3, <1>4, <1>5, <1>6 DEF s

(* The records in use are of windows of the list, and so is the one being  *)
(* queried.                                                                *)
LEMMA UsedListed ==
  ASSUME WindowsInv, Distinct, Current
  PROVE  /\ \A i \in DOMAIN InUse : InUse[i] \in Record /\ InUse[i].id \in OnList
         /\ Querying => cur.id \in OnList
<1> USE DEF WindowsInv, Types, ListTypes, QueryTypes
<1>1. /\ clist = IF job = "list" THEN Ids(built) \o todo ELSE Ids(wins)
      /\ clist # None /\ OnList = Listed(clist)
  BY DEF ListKept, Current, OnList
<1>2. CASE job = "list"
  <2>1. DOMAIN built = 1..Len(built) /\ Len(built) \in Nat
    BY LenProperties
  <2>2. /\ DOMAIN clist = 1..(Len(built) + Len(todo))
        /\ \A i \in DOMAIN built : clist[i] = built[i].id
        /\ \A i \in 1..Len(todo) : clist[Len(built) + i] = todo[i]
        /\ Len(todo) \in Nat
    BY <1>1, <1>2, ListParts
  <2>3. ASSUME NEW i \in DOMAIN built
        PROVE  built[i] \in Record /\ built[i].id \in OnList
    <3>1. i \in DOMAIN clist /\ clist[i] = built[i].id
      BY <2>1, <2>2
    <3>2. QED
      BY <1>1, <2>1, <3>1, ElementOfSeq DEF Listed
  <2>4. ASSUME Querying PROVE cur.id \in OnList
    <3>1. todo # <<>> /\ cur.id = Head(todo)
      BY <1>2, <2>4 DEF Phases
    <3>2. Len(todo) \in Nat \ {0} /\ Head(todo) = todo[1]
      BY <3>1, EmptySeq, LenProperties
    <3>3. Len(built) + 1 \in DOMAIN clist /\ clist[Len(built) + 1] = todo[1]
      BY <2>1, <2>2, <3>2
    <3>4. QED
      BY <1>1, <3>1, <3>2, <3>3 DEF Listed
  <2>5. QED
    BY <1>2, <2>3, <2>4 DEF InUse
<1>3. CASE job # "list"
  <2>1. \A i \in DOMAIN wins : wins[i] \in Record /\ wins[i].id \in OnList
    BY <1>1, <1>3, ElementOfSeq, LenProperties DEF Ids, Listed
  <2>2. Querying => job = "configure"
    BY <1>3 DEF Phases, Querying
  <2>3. QED
    BY <1>3, <2>1, <2>2 DEF InUse, Distinct
<1>4. QED
  BY <1>2, <1>3

(* The window being queried is none of those that have been.               *)
LEMMA QueriedLast ==
  ASSUME WindowsInv, Distinct, Querying, job = "list"
  PROVE  \A i \in DOMAIN built : built[i].id # cur.id
<1> USE DEF WindowsInv, Types, QueryTypes
<1> DEFINE all == Ids(built) \o todo
<1>1. todo # <<>> /\ cur.id = Head(todo) /\ Once(all)
  BY DEF Phases, Distinct
<1>2. DOMAIN built = 1..Len(built) /\ Len(built) \in Nat
  BY LenProperties
<1>3. Len(todo) \in Nat \ {0} /\ Head(todo) = todo[1]
  BY <1>1, EmptySeq, LenProperties
<1>4. /\ DOMAIN all = 1..(Len(built) + Len(todo))
      /\ \A i \in DOMAIN built : all[i] = built[i].id
      /\ \A i \in 1..Len(todo) : all[Len(built) + i] = todo[i]
  BY ListParts
<1> HIDE DEF all
<1>5. ASSUME NEW i \in DOMAIN built, built[i].id = cur.id
      PROVE  FALSE
  <2>1. i \in DOMAIN all /\ all[i] = cur.id /\ i # Len(built) + 1
    BY <1>2, <1>3, <1>4, <1>5
  <2>2. Len(built) + 1 \in DOMAIN all /\ all[Len(built) + 1] = cur.id
    BY <1>1, <1>2, <1>3, <1>4
  <2>3. QED
    BY <1>1, <2>1, <2>2 DEF Once
<1>6. QED
  BY <1>5

(* Two records agree but for being drawn, and but for being focused.       *)
SameFields(r, q) == /\ r.id = q.id /\ r.dead = q.dead /\ r.hidden = q.hidden
                    /\ r.desk = q.desk /\ r.geom = q.geom
SameRecord(r, q) == SameFields(r, q) /\ r.focused = q.focused

(* rie_draw_windows() changes no field.                                    *)
LEMMA DrawnSame ==
  ASSUME NEW ws \in Seq(Record)
  PROVE  /\ DOMAIN Drawn(ws) = DOMAIN ws /\ Ids(Drawn(ws)) = Ids(ws)
         /\ \A i \in DOMAIN ws : SameRecord(Drawn(ws)[i], ws[i])
<1>1. DOMAIN Drawn(ws) = DOMAIN ws /\ Ids(Drawn(ws)) = Ids(ws)
  BY DrawnKeeps
<1>2. ASSUME NEW i \in DOMAIN ws
      PROVE  SameRecord(Drawn(ws)[i], ws[i])
  <2>1. ws[i] \in Record
    BY ElementOfSeq, LenProperties
  <2>2. \E b \in BOOLEAN : Drawn(ws)[i] = [ws[i] EXCEPT !.placed = b]
    BY <2>1 DEF Drawn, Record
  <2>3. QED
    BY <2>1, <2>2 DEF SameRecord, SameFields, Record
<1>3. QED
  BY <1>1, <1>2

(* rie_event_active_window() changes which one is focused.                 *)
LEMMA FocusedSame ==
  ASSUME NEW ws \in Seq(Record)
  PROVE  /\ DOMAIN Focused(ws) = DOMAIN ws /\ Ids(Focused(ws)) = Ids(ws)
         /\ \A i \in DOMAIN ws :
              /\ SameFields(Focused(ws)[i], ws[i])
              /\ Focused(ws)[i].focused =
                   IF active = None THEN ws[i].focused ELSE ws[i].id = active
<1>1. DOMAIN Focused(ws) = DOMAIN ws /\ Ids(Focused(ws)) = Ids(ws)
  BY FocusedKeeps
<1>2. CASE active = None
  BY <1>1, <1>2 DEF Focused, SameFields
<1>3. CASE active # None
  <2>1. ASSUME NEW i \in DOMAIN ws
        PROVE  /\ SameFields(Focused(ws)[i], ws[i])
               /\ Focused(ws)[i].focused = (ws[i].id = active)
    <3>1. ws[i] \in Record
      BY ElementOfSeq, LenProperties
    <3>2. Focused(ws)[i] = [ws[i] EXCEPT !.focused = (ws[i].id = active)]
      BY <1>3 DEF Focused
    <3>3. QED
      BY <3>1, <3>2 DEF SameFields, Record
  <2>2. QED
    BY <1>1, <1>3, <2>1
<1>4. QED
  BY <1>2, <1>3

(***************************************************************************)
(* Handlers that end where they begin.                                     *)
(***************************************************************************)

(* The handler of the event <<kind, w>> brings one field of the records of *)
(* w up to date, or makes them dead; that of a new active window says of   *)
(* each whether it is focused.                                             *)
Handled(r, q, kind, w) ==
  /\ q.id = r.id
  /\ r.dead => q.dead
  /\ \/ q.dead
     \/ /\ IF kind = "state" /\ r.id = w
           THEN q.hidden = hidden[w] ELSE q.hidden = r.hidden
        /\ IF kind = "desktop" /\ r.id = w
           THEN desk[w] # None => q.desk = desk[w] ELSE q.desk = r.desk
        /\ q.geom = r.geom
        /\ ~(kind = "configure" /\ r.id = w)
  /\ q.focused = IF kind = "active" /\ active # None
                 THEN r.id = active ELSE r.focused

HandlerEffect(kind, w) ==
  /\ at = "loop" /\ job = "none" /\ UNCHANGED <<server, subs, at, query>>
  /\ Waiting \subseteq Waiting' \union {<<kind, w>>} /\ (ListSeen' => ListSeen)
  /\ \/ lost' = lost
     \/ kind = "desktop" /\ lost' = lost \ {<<w, "desktop">>}
  /\ DOMAIN wins' = DOMAIN wins /\ Ids(wins') = Ids(wins)
  /\ \A i \in DOMAIN wins : Handled(wins[i], wins'[i], kind, w)

(* Records that were put in the list and drawn.                            *)
LEMMA PutDrawn ==
  ASSUME WindowsInv, NEW kind, NEW w, kind # "active",
         NEW put, put = [i \in DOMAIN wins |-> put[i]],
         \A i \in DOMAIN wins :
           put[i] \in Record /\ Handled(wins[i], put[i], kind, w),
         wins' = put \/ wins' = Drawn(put)
  PROVE  /\ DOMAIN wins' = DOMAIN wins /\ Ids(wins') = Ids(wins)
         /\ \A i \in DOMAIN wins : Handled(wins[i], wins'[i], kind, w)
<1>1. wins \in Seq(Record)
  BY DEF WindowsInv, Types, ListTypes
<1>2. \A i \in DOMAIN wins : put[i].id = wins[i].id
  BY DEF Handled
<1>3. put \in Seq(Record) /\ DOMAIN put = DOMAIN wins /\ Ids(put) = Ids(wins)
  BY <1>1, <1>2, SameWindows
<1>4. /\ DOMAIN wins' = DOMAIN put /\ Ids(wins') = Ids(put)
      /\ \A i \in DOMAIN put : SameRecord(wins'[i], put[i])
  BY <1>3, DrawnSame DEF SameRecord, SameFields
<1>5. QED
  BY <1>3, <1>4 DEF Handled, SameRecord, SameFields

LEMMA HandlersDo ==
  ASSUME WindowsInv,
         \/ HandleDestroy \/ HandleDesktop \/ HandleState \/ HandleActive
         \/ Motion \/ (HandleConfigure /\ UNCHANGED at)
  PROVE  \E kind, w : HandlerEffect(kind, w)
<1> USE DEF WindowsInv, Types
<1> DEFINE w == Head(notes).win
<1>1. at = "loop" /\ job = "none" /\ UNCHANGED <<server, subs, at>>
  BY DEF Phases, HandleConfigure, HandleDestroy, HandleDesktop, HandleState,
         HandleActive, Motion, Take
<1>2. ASSUME NEW kind, kind # "list", Take(kind)
      PROVE  /\ Waiting \subseteq Waiting' \union {<<kind, w>>}
             /\ ListSeen' => ListSeen
  BY <1>1, <1>2, WaitingTaken, TakeKeeps DEF EventTypes
<1>3. \A i \in DOMAIN wins : wins[i] \in Record /\ wins[i].id \in Window
  BY RecordIn DEF Record
<1>4. CASE HandleDestroy
  <2> DEFINE put == With(wins, w, Killed)
  <2>1. Take("destroy") /\ UNCHANGED <<query, lost>> /\ wins' = put
    BY <1>4 DEF HandleDestroy
  <2>2. /\ put = [i \in DOMAIN wins |-> put[i]]
        /\ \A i \in DOMAIN wins :
             put[i] = IF wins[i].id = w THEN Killed(wins[i]) ELSE wins[i]
    BY DEF With
  <2> HIDE DEF put
  <2>3. \A r \in Record : /\ Killed(r) \in Record /\ Killed(r).id = r.id
                          /\ Killed(r).dead /\ Killed(r).focused = r.focused
    BY WindowAssumption DEF Killed, Record
  <2>4. \A i \in DOMAIN wins :
          put[i] \in Record /\ Handled(wins[i], put[i], "destroy", w)
    BY <1>3, <2>2, <2>3 DEF Handled
  <2>5. QED
    BY <1>1, <1>2, <2>1, <2>2, <2>4, PutDrawn DEF HandlerEffect
<1>5. CASE HandleDesktop
  <2> DEFINE x == IF desk[w] = None THEN 0 ELSE desk[w]
             New(r) == IF r.dead THEN r ELSE [r EXCEPT !.desk = x]
             put == With(wins, w, New)
  <2>1. /\ Take("desktop") /\ UNCHANGED query /\ wins' = Drawn(put)
        /\ lost' = lost \ {<<w, "desktop">>}
    BY <1>5 DEF HandleDesktop
  <2>2. /\ put = [i \in DOMAIN wins |-> put[i]]
        /\ \A i \in DOMAIN wins :
             put[i] = IF wins[i].id = w THEN New(wins[i]) ELSE wins[i]
    BY DEF With
  <2> HIDE DEF put
  <2>3. ASSUME NEW i \in DOMAIN wins
        PROVE  put[i] \in Record /\ Handled(wins[i], put[i], "desktop", w)
    <3>1. wins[i].id = w => x \in Number /\ (desk[w] # None => x = desk[w])
      BY <1>3, WindowAssumption DEF ServerTypes
    <3> HIDE DEF x
    <3>2. \A r \in Record : x \in Number =>
            /\ [r EXCEPT !.desk = x] \in Record
            /\ [r EXCEPT !.desk = x].desk = x
            /\ [r EXCEPT !.desk = x].id = r.id
            /\ [r EXCEPT !.desk = x].dead = r.dead
            /\ [r EXCEPT !.desk = x].hidden = r.hidden
            /\ [r EXCEPT !.desk = x].geom = r.geom
            /\ [r EXCEPT !.desk = x].focused = r.focused
      BY DEF Record
    <3>3. CASE wins[i].id = w /\ ~wins[i].dead
      <4>1. put[i] = [wins[i] EXCEPT !.desk = x] /\ wins[i] \in Record
        BY <1>3, <2>2, <3>3
      <4>2. QED
        BY <3>1, <3>2, <3>3, <4>1 DEF Handled
    <3>4. CASE wins[i].id # w \/ wins[i].dead
      <4>1. put[i] = wins[i] /\ wins[i] \in Record
        BY <1>3, <2>2, <3>4
      <4>2. QED
        BY <3>4, <4>1 DEF Handled
    <3>5. QED
      BY <3>3, <3>4
  <2>4. QED
    BY <1>1, <1>2, <2>1, <2>2, <2>3, PutDrawn DEF HandlerEffect
<1>6. CASE HandleState
  <2> DEFINE x == hidden[w]
             New(r) == IF r.dead THEN r ELSE [r EXCEPT !.hidden = x]
             put == With(wins, w, New)
  <2>1. Take("state") /\ UNCHANGED <<query, lost>> /\ wins' = Drawn(put)
    BY <1>6 DEF HandleState
  <2>2. /\ put = [i \in DOMAIN wins |-> put[i]]
        /\ \A i \in DOMAIN wins :
             put[i] = IF wins[i].id = w THEN New(wins[i]) ELSE wins[i]
    BY DEF With
  <2> HIDE DEF put
  <2>3. ASSUME NEW i \in DOMAIN wins
        PROVE  put[i] \in Record /\ Handled(wins[i], put[i], "state", w)
    <3>1. x = hidden[w] /\ (wins[i].id = w => x \in BOOLEAN)
      BY <1>3 DEF ServerTypes
    <3> HIDE DEF x
    <3>2. \A r \in Record : x \in BOOLEAN =>
            /\ [r EXCEPT !.hidden = x] \in Record
            /\ [r EXCEPT !.hidden = x].hidden = x
            /\ [r EXCEPT !.hidden = x].id = r.id
            /\ [r EXCEPT !.hidden = x].dead = r.dead
            /\ [r EXCEPT !.hidden = x].desk = r.desk
            /\ [r EXCEPT !.hidden = x].geom = r.geom
            /\ [r EXCEPT !.hidden = x].focused = r.focused
      BY DEF Record
    <3>3. CASE wins[i].id = w /\ ~wins[i].dead
      <4>1. put[i] = [wins[i] EXCEPT !.hidden = x] /\ wins[i] \in Record
        BY <1>3, <2>2, <3>3
      <4>2. QED
        BY <3>1, <3>2, <3>3, <4>1 DEF Handled
    <3>4. CASE wins[i].id # w \/ wins[i].dead
      <4>1. put[i] = wins[i] /\ wins[i] \in Record
        BY <1>3, <2>2, <3>4
      <4>2. QED
        BY <3>4, <4>1 DEF Handled
    <3>5. QED
      BY <3>3, <3>4
  <2>4. QED
    BY <1>1, <1>2, <2>1, <2>2, <2>3, PutDrawn DEF HandlerEffect
<1>7. CASE HandleActive
  <2>1. /\ Take("active") /\ UNCHANGED <<query, lost>>
        /\ wins' = Drawn(Focused(wins))
    BY <1>7 DEF HandleActive
  <2>2. /\ Focused(wins) \in Seq(Record) /\ DOMAIN Focused(wins) = DOMAIN wins
        /\ Ids(Focused(wins)) = Ids(wins)
    BY FocusedKeeps DEF ListTypes
  <2>3. /\ DOMAIN wins' = DOMAIN wins /\ Ids(wins') = Ids(wins)
        /\ \A i \in DOMAIN wins : SameRecord(wins'[i], Focused(wins)[i])
    BY <2>1, <2>2, DrawnSame
  <2>4. \A i \in DOMAIN wins : Handled(wins[i], wins'[i], "active", w)
    BY <2>3, FocusedSame DEF ListTypes, Handled, SameRecord, SameFields
  <2>5. QED
    BY <1>1, <1>2, <2>1, <2>3, <2>4 DEF HandlerEffect
<1>8. CASE Motion
  <2>1. UNCHANGED <<query, lost, wins, notes>>
    BY <1>8 DEF Motion
  <2>2. Waiting' = Waiting /\ ListSeen' = ListSeen
    BY <2>1 DEF Waiting, ListSeen
  <2>3. HandlerEffect("none", w)
    BY <1>1, <2>1, <2>2 DEF HandlerEffect, Handled
  <2>4. QED
    BY <2>3
<1>9. CASE HandleConfigure /\ UNCHANGED at
  <2>1. /\ Take("configure") /\ UNCHANGED <<query, lost, wins>>
        /\ ~Known(w)
    BY <1>1, <1>9 DEF HandleConfigure
  <2>2. \A i \in DOMAIN wins : wins[i].id # w
    BY <2>1 DEF Known, Ids, Listed
  <2>3. QED
    BY <1>1, <1>2, <2>1, <2>2 DEF HandlerEffect, Handled
<1>10. QED
  BY <1>4, <1>5, <1>6, <1>7, <1>8, <1>9

FieldsInv == Distinct /\ StateKept /\ FieldsKept /\ FocusKept

(* Only the handler of a kind of event stops that kind being waited for.   *)
LEMMA StillWaiting ==
  ASSUME NEW kind, NEW w, Waiting \subseteq Waiting' \union {<<kind, w>>},
         NEW k, NEW v, <<k, v>> \in Waiting, k # kind \/ v # w
  PROVE  <<k, v>> \in Waiting'
  OBVIOUS

LEMMA HandlersKeep ==
  ASSUME FieldsInv, NEW kind, NEW w, HandlerEffect(kind, w)
  PROVE  FieldsInv'
<1> USE DEF FieldsInv, HandlerEffect
<1>1. /\ InUse = wins /\ InUse' = wins' /\ DOMAIN wins' = DOMAIN wins
      /\ Current' => Current
  BY DEF InUse, Current
<1>2. \A i \in DOMAIN wins : Handled(wins[i], wins'[i], kind, w)
  OBVIOUS
<1>3. Distinct'
  BY DEF Distinct, Once
<1>4. StateKept'
  <2>1. ASSUME NEW i \in DOMAIN wins, Current'
        PROVE  StateGood(wins[i])'
    <3>1. StateGood(wins[i])
      BY <1>1, <2>1 DEF StateKept
    <3>2. ASSUME <<"state", wins[i].id>> \in Waiting,
                 <<"state", wins[i].id>> \notin Waiting'
          PROVE  kind = "state" /\ wins[i].id = w
      BY <3>2, StillWaiting
    <3>3. QED
      BY <1>2, <3>1, <3>2 DEF StateGood, Handled
  <2>2. QED
    BY <1>1, <2>1 DEF StateKept
<1>5. FieldsKept'
  <2>1. ASSUME NEW i \in DOMAIN wins, Current', ~EarlyList, ~wins'[i].dead
        PROVE  DeskGood(wins[i])' /\ GeomGood(wins[i])'
    <3>1. Handled(wins[i], wins'[i], kind, w) /\ ~wins[i].dead
      BY <1>2, <2>1 DEF Handled
    <3>2. DeskGood(wins[i]) /\ GeomGood(wins[i])
      BY <1>1, <2>1, <3>1 DEF FieldsKept, Requeried
    <3>3. CASE kind = "desktop" /\ wins[i].id = w
      <4>1. DeskGood(wins[i])'
        BY <2>1, <3>1, <3>3 DEF Handled, DeskGood
      <4>2. <<"configure", w>> \in Waiting => <<"configure", w>> \in Waiting'
        BY <3>3, StillWaiting
      <4>3. <<w, "geometry">> \in lost => <<w, "geometry">> \in lost'
        OBVIOUS
      <4>4. GeomGood(wins[i])'
        BY <2>1, <3>1, <3>2, <3>3, <4>2, <4>3 DEF Handled, GeomGood
      <4>5. QED
        BY <4>1, <4>4
    <3>4. CASE ~(kind = "desktop" /\ wins[i].id = w)
      <4>1. wins'[i].desk = wins[i].desk /\ wins'[i].geom = wins[i].geom
            /\ wins'[i].id = wins[i].id
            /\ ~(kind = "configure" /\ wins[i].id = w)
        BY <2>1, <3>1, <3>4 DEF Handled
      <4>2. /\ <<"configure", wins[i].id>> \in Waiting
                 => <<"configure", wins[i].id>> \in Waiting'
            /\ <<"desktop", wins[i].id>> \in Waiting
                 => <<"desktop", wins[i].id>> \in Waiting'
        BY <3>4, <4>1, StillWaiting
      <4>3. \A f : <<wins[i].id, f>> \in lost => <<wins[i].id, f>> \in lost'
        BY <3>4
      <4>4. QED
        BY <3>2, <4>1, <4>2, <4>3 DEF DeskGood, GeomGood
    <3>5. QED
      BY <3>3, <3>4
  <2>2. QED
    BY <1>1, <2>1 DEF FieldsKept
<1>6. FocusKept'
  <2>1. ASSUME kind # "active" \/ active = None
        PROVE  /\ \A i \in DOMAIN wins : wins'[i].focused = wins[i].focused
                                         /\ wins'[i].id = wins[i].id
               /\ active # None /\ FocusSeen' => FocusSeen
    <3>1. \A i \in DOMAIN wins : wins'[i].focused = wins[i].focused
                                 /\ wins'[i].id = wins[i].id
      BY <1>2, <2>1 DEF Handled
    <3>2. ASSUME active # None, FocusSeen', NEW x \in Waiting PROVE x[1] # "active"
      BY <2>1, <3>2 DEF FocusSeen
    <3>3. QED
      BY <3>1, <3>2 DEF FocusSeen
  <2>2. CASE kind # "active" \/ active = None
    BY <1>1, <2>1, <2>2 DEF FocusKept
  <2>3. CASE kind = "active" /\ active # None
    <3>1. \A i \in DOMAIN wins : /\ wins'[i].focused = (wins[i].id = active)
                                 /\ wins'[i].id = wins[i].id
      BY <1>2, <2>3 DEF Handled
    <3>2. \A i, j \in DOMAIN wins : wins[i].id = wins[j].id => i = j
      BY DEF Distinct, Once, Ids
    <3>3. \A i \in DOMAIN wins :
            wins'[i].focused <=> wins'[i].id = active
      BY <3>1
    <3>4. \A i, j \in DOMAIN wins :
            wins'[i].focused /\ wins'[j].focused => i = j
      BY <3>1, <3>2, <3>3
    <3>5. UNCHANGED <<active, job>> /\ job = "none"
      OBVIOUS
    <3>6. QED
      BY <1>1, <3>3, <3>4, <3>5 DEF FocusKept
  <2>4. QED
    BY <2>2, <2>3
<1>7. QED
  BY <1>3, <1>4, <1>5, <1>6

(***************************************************************************)
(* The requests of a query.                                                *)
(***************************************************************************)

Asking == {"geometry", "frame", "subscribe", "state"}

(* A request turns the window being queried into r; the query goes on or   *)
(* is over.                                                                *)
QueryEffect(r) ==
  /\ Querying /\ cur \in Record /\ UNCHANGED <<server, notes>>
  /\ r \in Record /\ r.id = cur.id /\ r.focused = cur.focused
  /\ subs \subseteq subs'
  /\ \A v, f : v # cur.id /\ <<v, f>> \in lost => <<v, f>> \in lost'
  /\ \/ at' \in Asking /\ Proceed(at', r)
     \/ at' \notin Asking /\ Done(r)

(* What it has found out about the window.                                 *)
StateLearnt(r) ==
  /\ at' \notin Asking \/ job = "configure" => StateGood(r)'
  /\ at' = "state" /\ r.id \in exists' => r.id \in subs'
FieldsLearnt(r) ==
  /\ at' \in Asking \/ ~r.dead => DeskGood(r)'
  /\ (at' \in Asking \ {"geometry"}) \/ (at' \notin Asking /\ ~r.dead) => GeomGood(r)'

Learnt(r) == Current => StateLearnt(r) /\ (~EarlyList => FieldsLearnt(r))

(* A dead record differs in its desktop.                                   *)
LEMMA KilledFields ==
  ASSUME NEW r \in Record
  PROVE  /\ Killed(r) \in Record /\ Killed(r).id = r.id
         /\ Killed(r).dead /\ Killed(r).focused = r.focused
  BY WindowAssumption DEF Record, Killed

LEMMA QueryDoes ==
  ASSUME WindowsInv, FieldsInv,
         ReadDesktop \/ ReadGeometry \/ ReadFrame \/ Subscribe \/ ReadState
  PROVE  \E r : QueryEffect(r) /\ Learnt(r)
<1> USE DEF WindowsInv, Types, FieldsInv
<1>1. /\ Querying /\ cur \in Record /\ UNCHANGED <<server, notes>>
      /\ Waiting' = Waiting /\ subs \subseteq subs'
  BY DEF Querying, Phases, ReadDesktop, ReadGeometry, ReadFrame, Subscribe,
         ReadState, Waiting
<1>2. cur.id \in Window /\ (desk[cur.id] # None => desk[cur.id] \in Number)
      /\ geom[cur.id] \in Box /\ hidden[cur.id] \in BOOLEAN
  BY <1>1 DEF Record, ServerTypes
<1>3. \A v, f, g : v # cur.id /\ <<v, f>> \in lost
                     => <<v, f>> \in lost \ {<<cur.id, g>>}
  OBVIOUS
<1>4. ASSUME NEW r, Done(r) PROVE at' \notin Asking
  BY <1>4 DEF Done, Asking
<1>5. Current => /\ job = "configure" => StateGood(cur)
                 /\ at = "state" /\ cur.id \in exists => cur.id \in subs
  BY DEF StateKept
<1>6. ~EarlyList /\ Current =>
        /\ at \in {"geometry", "frame", "subscribe", "state"} => DeskGood(cur)
        /\ at \in {"frame", "subscribe", "state"} => GeomGood(cur)
  BY DEF FieldsKept
<1>7. ASSUME Done(Killed(cur)),
             \A v, f : v # cur.id /\ <<v, f>> \in lost => <<v, f>> \in lost'
      PROVE  \E r : QueryEffect(r) /\ Learnt(r)
  <2>1. PICK r : r = Killed(cur)
    OBVIOUS
  <2>2. /\ r \in Record /\ r.id = cur.id /\ r.dead /\ r.focused = cur.focused
        /\ Done(r) /\ at' \notin Asking
    BY <1>1, <1>2, <1>4, <1>7, <2>1, KilledFields
  <2>3. QueryEffect(r)
    BY <1>1, <1>7, <2>2 DEF QueryEffect
  <2>4. Learnt(r)
    BY <2>2 DEF Learnt, StateLearnt, FieldsLearnt, StateGood, Asking
  <2>5. QED
    BY <2>3, <2>4
<1>8. CASE ReadDesktop /\ desk[cur.id] # None
  <2>1. PICK r : r = [cur EXCEPT !.desk = desk[cur.id]]
    OBVIOUS
  <2>2. /\ r \in Record /\ r.id = cur.id /\ r.focused = cur.focused
        /\ r.dead = cur.dead /\ r.hidden = cur.hidden /\ r.desk = desk[cur.id]
    BY <1>1, <1>2, <1>8, <2>1 DEF Record
  <2>3. /\ at' = "geometry" /\ Proceed(at', r) /\ UNCHANGED subs
        /\ lost' = lost \ {<<cur.id, "desktop">>}
    BY <1>8, <2>1 DEF ReadDesktop, Proceed
  <2>4. QueryEffect(r)
    BY <1>1, <1>3, <2>2, <2>3 DEF QueryEffect, Asking
  <2>5. Learnt(r)
    BY <1>1, <1>5, <2>2, <2>3
       DEF Learnt, StateLearnt, FieldsLearnt, StateGood, DeskGood, Asking
  <2>6. QED
    BY <2>4, <2>5
<1>9. CASE ReadGeometry /\ cur.id \in exists
  <2>1. PICK r : r = [cur EXCEPT !.geom = geom[cur.id]]
    OBVIOUS
  <2>2. /\ r \in Record /\ r.id = cur.id /\ r.focused = cur.focused
        /\ r.dead = cur.dead /\ r.hidden = cur.hidden /\ r.desk = cur.desk
        /\ r.geom = geom[cur.id]
    BY <1>1, <1>2, <2>1 DEF Record
  <2>3. /\ at = "geometry" /\ at' = "frame" /\ Proceed(at', r) /\ UNCHANGED subs
        /\ lost' = lost \ {<<cur.id, "geometry">>}
    BY <1>9, <2>1 DEF ReadGeometry, Proceed
  <2>4. QueryEffect(r)
    BY <1>1, <1>3, <2>2, <2>3 DEF QueryEffect, Asking
  <2>5. \A v : <<v, "desktop">> \in lost => <<v, "desktop">> \in lost'
    BY <2>3
  <2>6. Learnt(r)
    BY <1>1, <1>5, <1>6, <2>2, <2>3, <2>5
       DEF Learnt, StateLearnt, FieldsLearnt, StateGood, DeskGood, GeomGood,
           Asking
  <2>7. QED
    BY <2>4, <2>6
<1>10. CASE ReadFrame /\ cur.id \in exists
  <2>1. PICK r : r = cur
    OBVIOUS
  <2>2. /\ at = "frame" /\ at' = "subscribe" /\ Proceed(at', r)
        /\ UNCHANGED <<subs, lost>>
    BY <1>10, <2>1 DEF ReadFrame, Proceed
  <2>3. QueryEffect(r)
    BY <1>1, <2>1, <2>2 DEF QueryEffect, Asking
  <2>4. Learnt(r)
    BY <1>1, <1>5, <1>6, <2>1, <2>2
       DEF Learnt, StateLearnt, FieldsLearnt, StateGood, DeskGood, GeomGood,
           Asking
  <2>5. QED
    BY <2>3, <2>4
<1>11. CASE Subscribe
  <2>1. PICK r : r = cur
    OBVIOUS
  <2>2. /\ at = "subscribe" /\ UNCHANGED lost
        /\ subs' = subs \union ({cur.id} \intersect exists)
    BY <1>11 DEF Subscribe
  <2>3. \/ job = "list" /\ at' = "state" /\ Proceed(at', r)
        \/ job = "configure" /\ at' \notin Asking /\ Done(r)
    <3>1. CASE job = "list"
      BY <1>11, <2>1, <3>1 DEF Subscribe, Proceed
    <3>2. CASE job # "list"
      <4>1. Done(r)
        BY <1>11, <2>1, <3>2 DEF Subscribe
      <4>2. job = "configure"
        BY <3>2, <4>1 DEF Done
      <4>3. QED
        BY <1>4, <4>1, <4>2
    <3>3. QED
      BY <3>1, <3>2
  <2>4. QueryEffect(r)
    BY <1>1, <2>1, <2>2, <2>3 DEF QueryEffect, Asking
  <2>5. Learnt(r)
    BY <1>1, <1>5, <1>6, <2>1, <2>2, <2>3
       DEF Learnt, StateLearnt, FieldsLearnt, StateGood, DeskGood, GeomGood,
           Asking
  <2>6. QED
    BY <2>4, <2>5
<1>12. CASE ReadState
  <2>1. PICK r : r = [cur EXCEPT !.hidden = hidden[cur.id]]
    OBVIOUS
  <2>2. /\ r \in Record /\ r.id = cur.id /\ r.focused = cur.focused
        /\ r.dead = cur.dead /\ r.hidden = hidden[cur.id] /\ r.desk = cur.desk
        /\ r.geom = cur.geom
    BY <1>1, <1>2, <2>1 DEF Record
  <2>3. at = "state" /\ Done(r) /\ at' \notin Asking /\ UNCHANGED <<subs, lost>>
    BY <1>4, <1>12, <2>1 DEF ReadState
  <2>4. QueryEffect(r)
    BY <1>1, <2>2, <2>3 DEF QueryEffect
  <2>5. Learnt(r)
    BY <1>1, <1>5, <1>6, <2>2, <2>3
       DEF Learnt, StateLearnt, FieldsLearnt, StateGood, DeskGood, GeomGood,
           Asking
  <2>6. QED
    BY <2>4, <2>5
<1>13. CASE \/ ReadDesktop /\ desk[cur.id] = None
            \/ (ReadGeometry \/ ReadFrame) /\ cur.id \notin exists
  <2>1. /\ Done(Killed(cur))
        /\ \E f : lost' = lost \ {<<cur.id, f>>}
    <3>1. CASE ReadDesktop /\ desk[cur.id] = None
      BY <3>1 DEF ReadDesktop
    <3>2. CASE ReadGeometry /\ cur.id \notin exists
      BY <3>2 DEF ReadGeometry
    <3>3. CASE ReadFrame /\ cur.id \notin exists
      <4>1. <<cur.id, "none">> \notin lost
        BY DEF EventTypes
      <4>2. lost = lost \ {<<cur.id, "none">>}
        BY <4>1
      <4>3. QED
        BY <3>3, <4>2 DEF ReadFrame
    <3>4. QED
      BY <1>13, <3>1, <3>2, <3>3
  <2>2. QED
    BY <1>3, <1>7, <2>1
<1>14. QED
  BY <1>8, <1>9, <1>10, <1>11, <1>12, <1>13

(* What is good of a record stays so, unless it is of the window queried.  *)
LEMMA RequestKeeps ==
  ASSUME NEW r, QueryEffect(r)
  PROVE  /\ at # "start" /\ Waiting' = Waiting /\ ListSeen' = ListSeen
         /\ Current' => Current
         /\ \A q : StateGood(q) => StateGood(q)'
         /\ \A q : q.id # cur.id /\ DeskGood(q) => DeskGood(q)'
         /\ \A q : q.id # cur.id /\ GeomGood(q) => GeomGood(q)'
<1> USE DEF QueryEffect
<1>1. Waiting' = Waiting /\ ListSeen' = ListSeen /\ at # "start"
  BY DEF Waiting, ListSeen, Querying
<1>2. Current' => Current
  BY <1>1 DEF Current
<1>3. \A q : StateGood(q) => StateGood(q)'
  BY <1>1 DEF StateGood
<1>4. \A q : q.id # cur.id /\ DeskGood(q) => DeskGood(q)'
  BY <1>1 DEF DeskGood
<1>5. \A q : q.id # cur.id /\ GeomGood(q) => GeomGood(q)'
  BY <1>1 DEF GeomGood
<1>6. QED
  BY <1>1, <1>2, <1>3, <1>4, <1>5

(* The query goes on.                                                      *)
LEMMA QueryGoesOn ==
  ASSUME WindowsInv, FieldsInv, NEW r, QueryEffect(r), Learnt(r),
         at' \in Asking, Proceed(at', r)
  PROVE  FieldsInv'
<1> USE DEF FieldsInv
<1>1. /\ cur' = r /\ r.id = cur.id /\ r.focused = cur.focused /\ Querying
      /\ UNCHANGED <<server, notes, job, todo, built, wins>>
  BY DEF QueryEffect, Proceed
<1>2. /\ InUse' = InUse /\ (Current' => Current)
      /\ \A q : StateGood(q) => StateGood(q)'
      /\ \A q : q.id # cur.id /\ DeskGood(q) => DeskGood(q)'
      /\ \A q : q.id # cur.id /\ GeomGood(q) => GeomGood(q)'
  BY <1>1, RequestKeeps DEF InUse
<1>3. job = "list" => \A i \in DOMAIN built : built[i].id # cur.id
  BY <1>1, QueriedLast
<1>4. job = "list" \/ job = "configure"
  BY <1>1 DEF WindowsInv, Types, QueryTypes, Phases, Querying
<1>5. Distinct'
  BY <1>1 DEF Distinct
<1>6. StateKept'
  <2>1. ASSUME Current', NEW i \in DOMAIN InUse
        PROVE  StateGood(InUse[i])'
    <3>1. PICK q : q = InUse[i]
      OBVIOUS
    <3>2. StateGood(q)'
      BY <1>2, <2>1, <3>1 DEF StateKept
    <3>3. QED
      BY <1>2, <3>1, <3>2 DEF StateGood
  <2>2. Current' => StateLearnt(r)
    BY <1>2 DEF Learnt
  <2>3. ASSUME Current', job = "configure"
        PROVE  StateGood(cur)'
    BY <1>1, <2>2, <2>3 DEF StateLearnt, StateGood
  <2>4. QED
    BY <1>1, <1>2, <2>1, <2>2, <2>3 DEF StateKept, StateLearnt
<1>7. FieldsKept'
  <2>1. ASSUME ~EarlyList, Current', NEW i \in DOMAIN InUse,
               ~Requeried(InUse[i]), ~InUse[i].dead
        PROVE  DeskGood(InUse[i])' /\ GeomGood(InUse[i])'
    <3>1. PICK q : q = InUse[i]
      OBVIOUS
    <3>2. DeskGood(q) /\ GeomGood(q)
      BY <1>2, <2>1, <3>1 DEF FieldsKept
    <3>3. q.id # cur.id
      BY <1>3, <1>4, <2>1, <3>1 DEF InUse, Requeried
    <3>4. DeskGood(q)' /\ GeomGood(q)'
      BY <1>2, <3>2, <3>3
    <3>5. QED
      BY <1>2, <3>1, <3>4 DEF DeskGood, GeomGood
  <2>2. \A i \in DOMAIN InUse : Requeried(InUse[i])' <=> Requeried(InUse[i])
    BY <1>1, <1>2 DEF Requeried
  <2>3. ~EarlyList /\ Current' => FieldsLearnt(r)
    BY <1>2 DEF Learnt
  <2>4. ~EarlyList /\ Current' => DeskGood(r)' /\ (at' # "geometry" => GeomGood(r)')
    BY <2>3 DEF FieldsLearnt
  <2>5. ~EarlyList /\ Current' =>
          DeskGood(cur)' /\ (at' # "geometry" => GeomGood(cur)')
    BY <1>1, <2>4 DEF DeskGood, GeomGood
  <2>6. QED
    BY <1>2, <2>1, <2>2, <2>5 DEF FieldsKept, Asking
<1>8. FocusKept'
  <2>1. FocusSeen' = FocusSeen
    BY RequestKeeps DEF FocusSeen
  <2>2. QED
    BY <1>1, <2>1 DEF FocusKept
<1>9. QED
  BY <1>5, <1>6, <1>7, <1>8

(* A query of rie_event_client_list() is over.                             *)
LEMMA QueryListed ==
  ASSUME WindowsInv, FieldsInv, NEW r, QueryEffect(r), Learnt(r),
         at' \notin Asking, Done(r), job = "list", job' = "list"
  PROVE  FieldsInv'
<1> USE DEF FieldsInv, WindowsInv, Types, QueryTypes
<1>1. /\ built' = Append(built, r) /\ todo' = Tail(todo)
      /\ UNCHANGED <<job, wins, server, notes>>
      /\ r \in Record /\ r.id = cur.id /\ r.focused = cur.focused /\ Querying
      /\ IF Tail(todo) = <<>>
         THEN at' = "install" /\ cur' = None
         ELSE at' = "desktop" /\ cur' = Blank(Head(Tail(todo)))
  BY DEF QueryEffect, Done
<1>2. /\ InUse = built /\ InUse' = built' /\ (Current' => Current)
      /\ \A q : StateGood(q) => StateGood(q)'
      /\ \A q : q.id # cur.id /\ DeskGood(q) => DeskGood(q)'
      /\ \A q : q.id # cur.id /\ GeomGood(q) => GeomGood(q)'
  BY RequestKeeps DEF InUse
<1>3. \A i \in DOMAIN built : built[i].id # cur.id
  BY <1>1, QueriedLast
<1>4. /\ DOMAIN built' = 1..(Len(built) + 1)
      /\ Len(built) \in Nat /\ DOMAIN built = 1..Len(built)
      /\ (\A i \in 1..Len(built) : built'[i] = built[i])
      /\ built'[Len(built) + 1] = r
  BY <1>1, AppendProperties, LenProperties
<1>5. \A i \in DOMAIN built' :
        \/ i \in DOMAIN built /\ built'[i] = built[i]
        \/ built'[i] = r
  BY <1>4
<1>6. Distinct'
  <2>1. todo # <<>> /\ r.id = Head(todo)
    BY <1>1 DEF Phases
  <2>2. Ids(built') \o todo' = Ids(built) \o todo
    <3>1. Ids(built) \in Seq(Window) /\ Ids(built') = Append(Ids(built), r.id)
      BY <1>1, IdsType
    <3>2. QED
      BY <1>1, <2>1, <3>1, MoveOne
  <2>3. QED
    BY <1>1, <2>2 DEF Distinct
<1>7. StateKept'
  <2>1. ASSUME Current', NEW i \in DOMAIN built'
        PROVE  StateGood(built[i])'
    <3>1. PICK q : q = built'[i]
      OBVIOUS
    <3>2. StateGood(q)'
      <4>1. CASE q = r
        BY <1>2, <2>1, <4>1 DEF Learnt, StateLearnt
      <4>2. CASE i \in DOMAIN built /\ q = built[i]
        BY <1>2, <2>1, <4>2 DEF StateKept
      <4>3. QED
        BY <1>5, <3>1, <4>1, <4>2
    <3>3. QED
      BY <3>1, <3>2 DEF StateGood
  <2>2. QED
    BY <1>1, <1>2, <2>1 DEF StateKept
<1>8. FieldsKept'
  <2>1. ASSUME ~EarlyList, Current', NEW i \in DOMAIN built', ~built'[i].dead
        PROVE  DeskGood(built[i])' /\ GeomGood(built[i])'
    <3>1. PICK q : q = built'[i]
      OBVIOUS
    <3>2. DeskGood(q)' /\ GeomGood(q)'
      <4>1. CASE q = r
        BY <1>2, <2>1, <3>1, <4>1 DEF Learnt, FieldsLearnt
      <4>2. CASE i \in DOMAIN built /\ q = built[i]
        <5>1. DeskGood(q) /\ GeomGood(q)
          BY <1>2, <2>1, <3>1, <4>2 DEF FieldsKept, Requeried
        <5>2. QED
          BY <1>2, <1>3, <4>2, <5>1
      <4>3. QED
        BY <1>5, <3>1, <4>1, <4>2
    <3>3. QED
      BY <3>1, <3>2 DEF DeskGood, GeomGood
  <2>2. QED
    BY <1>1, <1>2, <2>1 DEF FieldsKept
<1>9. FocusKept'
  <2>1. FocusSeen' = FocusSeen
    BY RequestKeeps DEF FocusSeen
  <2>2. ~r.focused /\ \A i \in DOMAIN built : ~built[i].focused
    BY <1>1 DEF FocusKept
  <2>3. \A i \in DOMAIN built' : ~built'[i].focused
    BY <1>5, <2>2
  <2>4. at' \notin {"start", "loop", "install"} => ~cur'.focused
    BY <1>1 DEF Blank
  <2>5. QED
    BY <1>1, <2>1, <2>3, <2>4 DEF FocusKept, Querying
<1>10. QED
  BY <1>6, <1>7, <1>8, <1>9

(* That of rie_event_xcb_configure_notify() is.                            *)
LEMMA QueryConfigured ==
  ASSUME WindowsInv, FieldsInv, NEW r, QueryEffect(r), Learnt(r),
         at' \notin Asking, Done(r), job = "configure", job' = "none"
  PROVE  FieldsInv'
<1> USE DEF FieldsInv, WindowsInv, Types, ListTypes
<1> DEFINE put == With(wins, r.id, LAMBDA old : r)
<1>1. /\ wins' = Drawn(put) /\ at' = "loop"
      /\ UNCHANGED <<server, notes>>
      /\ r \in Record /\ r.id = cur.id /\ r.focused = cur.focused /\ Querying
  BY DEF QueryEffect, Done
<1>2. /\ InUse = wins /\ InUse' = wins' /\ (Current' => Current)
      /\ \A q : StateGood(q) => StateGood(q)'
      /\ \A q : q.id # cur.id /\ DeskGood(q) => DeskGood(q)'
      /\ \A q : q.id # cur.id /\ GeomGood(q) => GeomGood(q)'
  BY RequestKeeps DEF InUse
<1>3. /\ put = [i \in DOMAIN wins |-> put[i]]
      /\ \A i \in DOMAIN wins :
           put[i] = IF wins[i].id = r.id THEN r ELSE wins[i]
  BY DEF With
<1> HIDE DEF put
<1>4. put \in Seq(Record) /\ DOMAIN put = DOMAIN wins /\ Ids(put) = Ids(wins)
  <2>1. \A i \in DOMAIN wins : wins[i] \in Record
    BY RecordIn
  <2>2. \A i \in DOMAIN wins : put[i] \in Record /\ put[i].id = wins[i].id
    BY <1>1, <1>3, <2>1
  <2>3. QED
    BY <1>3, <2>2, SameWindows
<1>5. /\ DOMAIN wins' = DOMAIN wins /\ Ids(wins') = Ids(wins)
      /\ \A i \in DOMAIN wins : SameRecord(wins'[i], put[i])
  BY <1>1, <1>4, DrawnSame
<1>6. Distinct'
  BY <1>1, <1>5 DEF Distinct
<1>7. StateKept'
  <2>1. ASSUME Current', NEW i \in DOMAIN wins
        PROVE  StateGood(wins[i])'
    <3>1. PICK q : q = put[i]
      OBVIOUS
    <3>2. StateGood(q)'
      <4>1. CASE wins[i].id = r.id
        BY <1>2, <1>3, <2>1, <3>1, <4>1 DEF Learnt, StateLearnt
      <4>2. CASE wins[i].id # r.id
        BY <1>2, <1>3, <2>1, <3>1, <4>2 DEF StateKept
      <4>3. QED
        BY <4>1, <4>2
    <3>3. QED
      BY <1>5, <3>1, <3>2 DEF StateGood, SameRecord, SameFields
  <2>2. QED
    BY <1>1, <1>2, <1>5, <2>1 DEF StateKept
<1>8. FieldsKept'
  <2>1. ASSUME ~EarlyList, Current', NEW i \in DOMAIN wins, ~wins'[i].dead
        PROVE  DeskGood(wins[i])' /\ GeomGood(wins[i])'
    <3>1. PICK q : q = put[i]
      OBVIOUS
    <3>2. ~q.dead
      BY <1>5, <2>1, <3>1 DEF SameRecord, SameFields
    <3>3. DeskGood(q)' /\ GeomGood(q)'
      <4>1. CASE wins[i].id = r.id
        <5>1. q = r
          BY <1>3, <3>1, <4>1
        <5>2. QED
          BY <1>2, <2>1, <3>2, <5>1 DEF Learnt, FieldsLearnt
      <4>2. CASE wins[i].id # r.id
        <5>1. q = wins[i] /\ q.id # cur.id
          BY <1>1, <1>3, <3>1, <4>2
        <5>2. DeskGood(q) /\ GeomGood(q)
          BY <1>2, <2>1, <3>2, <5>1 DEF FieldsKept, Requeried
        <5>3. QED
          BY <1>2, <5>1, <5>2
      <4>3. QED
        BY <4>1, <4>2
    <3>4. QED
      BY <1>5, <3>1, <3>3 DEF DeskGood, GeomGood, SameRecord, SameFields
  <2>2. QED
    BY <1>1, <1>2, <1>5, <2>1 DEF FieldsKept
<1>9. FocusKept'
  <2>1. FocusSeen' = FocusSeen
    BY RequestKeeps DEF FocusSeen
  <2>2. \A i \in DOMAIN wins : /\ wins'[i].id = wins[i].id
                               /\ wins'[i].focused = wins[i].focused
    BY <1>1, <1>3, <1>5 DEF FocusKept, SameRecord, SameFields
  <2>3. QED
    BY <1>1, <1>5, <2>1, <2>2 DEF FocusKept
<1>10. QED
  BY <1>6, <1>7, <1>8, <1>9

(* rie_window_query(): each request.                                       *)
LEMMA QueriesKeep ==
  ASSUME WindowsInv, FieldsInv,
         ReadDesktop \/ ReadGeometry \/ ReadFrame \/ Subscribe \/ ReadState
  PROVE  FieldsInv'
<1>1. PICK r : QueryEffect(r) /\ Learnt(r)
  BY QueryDoes
<1>2. CASE at' \in Asking /\ Proceed(at', r)
  BY <1>1, <1>2, QueryGoesOn
<1>3. CASE at' \notin Asking /\ Done(r)
  <2>1. \/ job = "list" /\ job' = "list"
        \/ job = "configure" /\ job' = "none"
    BY <1>3 DEF Done
  <2>2. QED
    BY <1>1, <1>3, <2>1, QueryListed, QueryConfigured
<1>4. QED
  BY <1>1, <1>2, <1>3 DEF QueryEffect

(***************************************************************************)
(* The other steps.                                                        *)
(***************************************************************************)

(* The end of rie_event_client_list().                                     *)
LEMMA InstallFields ==
  ASSUME WindowsInv, FieldsInv, Install
  PROVE  FieldsInv'
<1> USE DEF FieldsInv, WindowsInv, Types, QueryTypes
<1>1. /\ UNCHANGED <<server, notes, subs, lost>> /\ at = "install"
      /\ job = "list" /\ todo = <<>> /\ at' = "loop" /\ job' = "none"
      /\ wins' = Drawn(Focused(built))
  BY DEF Install, Phases
<1>2. Waiting' = Waiting /\ (Current' => Current) /\ InUse = built /\ InUse' = wins'
  BY <1>1 DEF Waiting, Current, ListSeen, InUse
<1>3. /\ Focused(built) \in Seq(Record) /\ DOMAIN Focused(built) = DOMAIN built
      /\ Ids(Focused(built)) = Ids(built)
  BY FocusedKeeps
<1>4. /\ DOMAIN wins' = DOMAIN built /\ Ids(wins') = Ids(built)
      /\ \A i \in DOMAIN built : SameRecord(wins'[i], Focused(built)[i])
  BY <1>1, <1>3, DrawnSame
<1>5. \A i \in DOMAIN built :
        /\ SameFields(wins'[i], built[i])
        /\ wins'[i].focused = IF active = None THEN built[i].focused
                              ELSE built[i].id = active
  BY <1>4, FocusedSame DEF SameRecord, SameFields
<1>6. Once(Ids(built))
  <2>1. Ids(built) \o todo = Ids(built)
    BY <1>1, IdsType, ConcatEmptySeq
  <2>2. QED
    BY <1>1, <2>1 DEF Distinct
<1>7. Distinct'
  BY <1>1, <1>4, <1>6 DEF Distinct
<1>8. StateKept'
  <2>1. ASSUME Current', NEW i \in DOMAIN built
        PROVE  StateGood(wins[i])'
    <3>1. StateGood(built[i])
      BY <1>2, <2>1 DEF StateKept
    <3>2. QED
      BY <1>1, <1>2, <1>5, <3>1 DEF StateGood, SameFields
  <2>2. QED
    BY <1>1, <1>2, <1>4, <2>1 DEF StateKept
<1>9. FieldsKept'
  <2>1. ASSUME ~EarlyList, Current', NEW i \in DOMAIN built, ~wins'[i].dead
        PROVE  DeskGood(wins[i])' /\ GeomGood(wins[i])'
    <3>1. SameFields(wins'[i], built[i])
      BY <1>5
    <3>2. DeskGood(built[i]) /\ GeomGood(built[i])
      BY <1>1, <1>2, <2>1, <3>1 DEF FieldsKept, Requeried, SameFields
    <3>3. QED
      BY <1>1, <1>2, <3>1, <3>2 DEF DeskGood, GeomGood, SameFields
  <2>2. QED
    BY <1>1, <1>2, <1>4, <2>1 DEF FieldsKept
<1>10. FocusKept'
  <2>1. CASE active = None
    <3>1. \A i \in DOMAIN wins' : ~wins'[i].focused
      BY <1>1, <1>4, <1>5, <2>1 DEF FocusKept
    <3>2. QED
      BY <1>1, <2>1, <3>1 DEF FocusKept
  <2>2. CASE active # None
    <3>1. \A i \in DOMAIN wins' : /\ wins'[i].focused <=> wins'[i].id = active
                                  /\ wins'[i].id = built[i].id
      BY <1>4, <1>5, <2>2 DEF SameFields
    <3>2. \A i, j \in DOMAIN wins' : wins'[i].id = wins'[j].id => i = j
      BY <1>4, <1>6, <3>1 DEF Once, Ids
    <3>3. \A i, j \in DOMAIN wins' :
            wins'[i].focused /\ wins'[j].focused => i = j
      BY <3>1, <3>2
    <3>4. QED
      BY <1>1, <3>1, <3>3 DEF FocusKept
  <2>3. QED
    BY <2>1, <2>2
<1>11. QED
  BY <1>7, <1>8, <1>9, <1>10

(* A list is read, or there is none.                                       *)
LEMMA ReadListFields ==
  ASSUME WindowsInv, FieldsInv, Start \/ HandleList
  PROVE  FieldsInv'
<1> USE DEF FieldsInv
<1>1. /\ UNCHANGED <<server, subs, lost, wins>> /\ job = "none" /\ ReadList
      /\ at = "loop" \/ (wins = <<>> /\ notes' = notes)
  BY DEF Start, HandleList, Take, WindowsInv, Phases
<1>2. FocusSeen' => FocusSeen
  <2>1. CASE Start
    BY <2>1 DEF Start, FocusSeen, Waiting
  <2>2. CASE HandleList
    <3>1. Waiting \subseteq Waiting' \union {<<"list", Head(notes).win>>}
      BY <2>2, WaitingTaken DEF HandleList, WindowsInv, Types, EventTypes
    <3>2. ASSUME FocusSeen', NEW x \in Waiting PROVE x[1] # "active"
      BY <3>1, <3>2 DEF FocusSeen
    <3>3. QED
      BY <3>2 DEF FocusSeen
  <2>3. QED
    BY <2>1, <2>2
<1>3. CASE clist = None
  <2>1. at' = "loop" /\ UNCHANGED query
    BY <1>1, <1>3 DEF ReadList
  <2>2. QED
    BY <1>1, <1>2, <1>3, <2>1
       DEF Distinct, StateKept, FieldsKept, FocusKept, Current
<1>4. CASE clist # None
  <2>1. /\ job' = "list" /\ todo' = clist /\ built' = <<>>
        /\ \/ at' = "install" /\ cur' = None
           \/ at' = "desktop" /\ cur' = Blank(Head(clist))
    BY <1>1, <1>4 DEF ReadList
  <2>2. Ids(built') \o todo' = clist
    <3>1. clist \in Seq(Window)
      BY <1>4 DEF WindowsInv, Types, ServerTypes
    <3>2. Ids(built') = <<>>
      BY <2>1 DEF Ids
    <3>3. QED
      BY <2>1, <3>1, <3>2, ConcatEmptySeq
  <2>3. Distinct'
    BY <1>1, <1>4, <2>1, <2>2 DEF Distinct
  <2>4. StateKept' /\ FieldsKept'
    BY <2>1 DEF StateKept, FieldsKept, InUse
  <2>5. FocusKept'
    BY <1>1, <2>1 DEF FocusKept, Querying, Blank
  <2>6. QED
    BY <2>3, <2>4, <2>5
<1>5. QED
  BY <1>3, <1>4

(* rie_event_xcb_configure_notify() begins to query a window.              *)
LEMMA ConfigureFields ==
  ASSUME WindowsInv, FieldsInv, HandleConfigure
  PROVE  FieldsInv'
<1> USE DEF FieldsInv
<1> DEFINE w == Head(notes).win
<1>1. CASE UNCHANGED at
  BY <1>1, HandlersDo, HandlersKeep
<1>2. CASE ~UNCHANGED at
  <2>1. /\ UNCHANGED <<server, subs, wins, lost, todo, built>> /\ at = "loop"
        /\ job = "none" /\ job' = "configure" /\ at' = "desktop"
        /\ Take("configure")
    BY <1>2 DEF HandleConfigure, Take, WindowsInv, Phases
  <2>2. PICK i \in DOMAIN wins : cur' = wins[i] /\ wins[i].id = w
    BY <1>2 DEF HandleConfigure
  <2>3. /\ Waiting \subseteq Waiting' \union {<<"configure", w>>}
        /\ ListSeen' => ListSeen
    BY <2>1, WaitingTaken, TakeKeeps DEF WindowsInv, Types, EventTypes
  <2>4. InUse' = wins /\ InUse = wins /\ (Current' => Current)
    BY <2>1, <2>3 DEF InUse, Current
  <2>5. \A j \in DOMAIN wins : wins[j].id = wins[i].id => j = i
    BY DEF Distinct, Once, Ids
  <2>6. Distinct'
    BY <2>1, <2>2 DEF Distinct
  <2>7. \A k, v : k # "configure" \/ v # w =>
                    (<<k, v>> \in Waiting => <<k, v>> \in Waiting')
    BY <2>3
  <2>8. StateKept'
    <3>1. ASSUME Current', NEW j \in DOMAIN wins
          PROVE  StateGood(wins[j])'
      <4>1. StateGood(wins[j])
        BY <2>4, <3>1 DEF StateKept
      <4>2. QED
        BY <2>1, <2>7, <4>1 DEF StateGood
    <3>2. Current' => StateGood(cur)'
      BY <2>1, <2>2, <3>1 DEF StateGood
    <3>3. QED
      BY <2>1, <2>4, <3>1, <3>2 DEF StateKept
  <2>9. FieldsKept'
    <3>1. ASSUME ~EarlyList, Current', NEW j \in DOMAIN wins,
                 wins[j].id # w, ~wins[j].dead
          PROVE  DeskGood(wins[j])' /\ GeomGood(wins[j])'
      <4>1. DeskGood(wins[j]) /\ GeomGood(wins[j])
        BY <2>1, <2>4, <3>1 DEF FieldsKept, Requeried
      <4>2. QED
        BY <2>1, <2>7, <3>1, <4>1 DEF DeskGood, GeomGood
    <3>2. QED
      BY <2>1, <2>2, <2>4, <3>1 DEF FieldsKept, Requeried
  <2>10. FocusKept'
    <3>1. ASSUME FocusSeen', NEW x \in Waiting PROVE x[1] # "active"
      BY <2>3, <3>1 DEF FocusSeen
    <3>2. FocusSeen' => FocusSeen
      BY <3>1 DEF FocusSeen
    <3>3. QED
      BY <2>1, <2>2, <2>5, <3>2 DEF FocusKept
  <2>11. QED
    BY <2>6, <2>8, <2>9, <2>10
<1>3. QED
  BY <1>1, <1>2

(* The server moves on; rieman is told, or asks later, or has missed it.   *)
LEMMA ServerKeepsFields ==
  ASSUME WindowsInv, FieldsInv, Server
  PROVE  FieldsInv'
<1> USE DEF FieldsInv
<1>1. ServerFields
  BY ServerTells DEF WindowsInv
<1>2. /\ UNCHANGED <<wins, at, job, todo, built, cur>>
      /\ Waiting \subseteq Waiting' /\ lost \subseteq lost'
      /\ InUse' = InUse
  BY <1>1 DEF ServerFields, InUse
<1>3. ASSUME Current'
      PROVE  /\ Current
             /\ \A i \in DOMAIN InUse : Steady(InUse[i].id)
             /\ Querying => Steady(cur.id)
  <2>1. Current /\ \A w \in OnList : Steady(w)
    BY <1>1, <1>3 DEF ServerFields, Current
  <2>2. QED
    BY <2>1, UsedListed
<1>4. ASSUME NEW r, Steady(r.id), StateGood(r)
      PROVE  StateGood(r)'
  BY <1>2, <1>4 DEF Steady, SteadyState, StateGood
<1>5. ASSUME NEW r, Steady(r.id), ~EarlyList, DeskGood(r),
             r.id \in exists => r.id \in subs \/ "desktop" \in ReadOf(r.id)
      PROVE  DeskGood(r)'
  BY <1>2, <1>5 DEF Steady, SteadyDesk, Missed, DeskGood
<1>6. ASSUME NEW r, Steady(r.id), GeomGood(r),
             r.id \in exists => r.id \in subs \/ "geometry" \in ReadOf(r.id)
      PROVE  GeomGood(r)'
  BY <1>2, <1>6 DEF Steady, SteadyGeom, Missed, GeomGood
<1>7. Distinct'
  BY <1>1, <1>2 DEF ServerFields, Distinct, Once
<1>8. StateKept'
  <2>1. ASSUME Current', NEW i \in DOMAIN InUse
        PROVE  StateGood(InUse[i])'
    <3>1. PICK r : r = InUse[i]
      OBVIOUS
    <3>2. StateGood(r)'
      BY <1>3, <1>4, <2>1, <3>1 DEF StateKept
    <3>3. QED
      BY <1>2, <3>1, <3>2 DEF StateGood
  <2>2. ASSUME Current', job = "configure"
        PROVE  StateGood(cur)'
    <3>1. PICK r : r = cur
      OBVIOUS
    <3>2. Querying /\ StateGood(r)
      BY <1>3, <2>2, <3>1 DEF StateKept, WindowsInv, Phases, Querying
    <3>3. StateGood(r)'
      BY <1>3, <1>4, <2>2, <3>1, <3>2
    <3>4. QED
      BY <1>2, <3>1, <3>3 DEF StateGood
  <2>3. ASSUME Current', at = "state", cur.id \in exists'
        PROVE  cur.id \in subs'
    BY <1>3, <2>3 DEF StateKept, Querying, Steady, SteadyState
  <2>4. QED
    BY <1>2, <2>1, <2>2, <2>3 DEF StateKept
<1>9. FieldsKept'
  <2>1. ASSUME ~EarlyList, Current', NEW i \in DOMAIN InUse,
               ~Requeried(InUse[i]), ~InUse[i].dead
        PROVE  DeskGood(InUse[i])' /\ GeomGood(InUse[i])'
    <3>1. PICK r : r = InUse[i]
      OBVIOUS
    <3>2. /\ Steady(r.id) /\ DeskGood(r) /\ GeomGood(r)
          /\ r.id \in exists => r.id \in subs
      BY <1>3, <2>1, <3>1 DEF FieldsKept, StateKept, StateGood
    <3>3. DeskGood(r)' /\ GeomGood(r)'
      BY <1>5, <1>6, <2>1, <3>2
    <3>4. QED
      BY <1>2, <3>1, <3>3 DEF DeskGood, GeomGood
  <2>2. \A i \in DOMAIN InUse : Requeried(InUse[i])' <=> Requeried(InUse[i])
    BY <1>2 DEF Requeried
  <2>3. ASSUME ~EarlyList, Current', at \in Asking
        PROVE  DeskGood(cur)' /\ (at # "geometry" => GeomGood(cur)')
    <3>1. PICK r : r = cur
      OBVIOUS
    <3>2. /\ Steady(r.id) /\ DeskGood(r)
          /\ at # "geometry" => GeomGood(r)
          /\ at = "state" => (r.id \in exists => r.id \in subs)
      BY <1>3, <2>3, <3>1 DEF FieldsKept, StateKept, Querying, Asking
    <3>3. /\ at # "state" => "desktop" \in ReadOf(r.id)
          /\ at \notin {"state", "geometry"} => "geometry" \in ReadOf(r.id)
      BY <2>3, <3>1 DEF ReadOf, Asking
    <3>4. DeskGood(r)' /\ (at # "geometry" => GeomGood(r)')
      BY <1>5, <1>6, <2>3, <3>2, <3>3
    <3>5. QED
      BY <1>2, <3>1, <3>4 DEF DeskGood, GeomGood
  <2>4. QED
    BY <1>2, <1>3, <2>1, <2>2, <2>3 DEF FieldsKept, Asking
<1>10. FocusKept'
  BY <1>1, <1>2 DEF ServerFields, FocusKept, Querying
<1>11. QED
  BY <1>7, <1>8, <1>9, <1>10

(***************************************************************************)
(* The invariant and what follows from it.                                 *)
(***************************************************************************)

LEMMA FieldsInvInit == Init => FieldsInv
<1> SUFFICES ASSUME Init PROVE FieldsInv
  OBVIOUS
<1> USE DEF Init
<1>1. clist # None => Once(clist)
  BY OrdersOnce DEF Managed, Once
<1>2. Ids(wins) = <<>>
  BY DEF Ids
<1>3. Distinct
  BY <1>1, <1>2 DEF Distinct, Once
<1>4. StateKept /\ FieldsKept /\ FocusKept
  BY DEF StateKept, FieldsKept, FocusKept, Current, InUse
<1>5. QED
  BY <1>3, <1>4 DEF FieldsInv

LEMMA FieldsInvNext ==
  WindowsInv /\ FieldsInv /\ [Next]_vars => FieldsInv'
<1> SUFFICES ASSUME WindowsInv, FieldsInv, [Next]_vars PROVE FieldsInv'
  OBVIOUS
<1>1. CASE Server
  BY <1>1, ServerKeepsFields
<1>2. CASE ReadDesktop \/ ReadGeometry \/ ReadFrame \/ Subscribe \/ ReadState
  BY <1>2, QueriesKeep
<1>3. CASE Start \/ HandleList
  BY <1>3, ReadListFields
<1>4. CASE Install
  BY <1>4, InstallFields
<1>5. CASE HandleConfigure
  BY <1>5, ConfigureFields
<1>6. CASE HandleDestroy \/ HandleDesktop \/ HandleState \/ HandleActive \/ Motion
  BY <1>6, HandlersDo, HandlersKeep
<1>7. CASE UNCHANGED vars
  <2>1. Waiting' = Waiting /\ (Current' <=> Current) /\ InUse' = InUse
    BY <1>7 DEF Waiting, Current, ListSeen, InUse
  <2>2. Distinct' /\ FocusKept'
    BY <1>7, <2>1 DEF FieldsInv, Distinct, FocusKept, FocusSeen, Querying
  <2>3. StateKept' /\ FieldsKept'
    BY <1>7, <2>1 DEF FieldsInv, StateKept, StateGood, FieldsKept, DeskGood,
                      GeomGood, Requeried
  <2>4. QED
    BY <2>2, <2>3 DEF FieldsInv
<1>8. QED
  BY <1>1, <1>2, <1>3, <1>4, <1>5, <1>6, <1>7 DEF Next, Pager

LEMMA FieldsInvAlways == Spec => [](WindowsInv /\ FieldsInv)
<1>1. Init => WindowsInv /\ FieldsInv
  BY WindowsInvInit, FieldsInvInit
<1>2. WindowsInv /\ FieldsInv /\ [Next]_vars => (WindowsInv /\ FieldsInv)'
  BY WindowsInvNext, FieldsInvNext
<1>3. QED
  BY <1>1, <1>2, PTL DEF Spec

(* When everything has been handled the invariant is about the windows.    *)
LEMMA QuietMeans ==
  ASSUME WindowsInv, FieldsInv, Quiet
  PROVE  /\ Current /\ InUse = wins /\ job = "none" /\ Waiting = {}
         /\ \A i \in DOMAIN wins : wins[i].id \in OnList
         /\ OnList \subseteq exists /\ (EarlyList \/ OnList = Managed)
<1>1. at = "loop" /\ notes = <<>> /\ clist # None /\ job = "none"
  BY DEF Quiet, Settled, WindowsInv, Phases
<1>2. Current /\ InUse = wins /\ Waiting = {}
  BY <1>1 DEF Current, ListSeen, InUse, Waiting
<1>3. \A i \in DOMAIN wins : wins[i].id \in OnList
  BY <1>2, UsedListed DEF FieldsInv
<1>4. QED
  BY <1>1, <1>2, <1>3 DEF Quiet, Settled

(***************************************************************************)
(* Once everything has been handled, rieman knows of each window whether   *)
(* it is hidden, for any number of windows and changes and whenever they   *)
(* came: rie_event_client_list() subscribes before it reads the state.     *)
(***************************************************************************)
THEOREM StatesFollow == Spec => []StateFollows
<1>1. ASSUME WindowsInv, FieldsInv, Quiet, NEW i \in DOMAIN wins, ~wins[i].dead
      PROVE  wins[i].hidden = hidden[wins[i].id]
  <2>1. StateGood(wins[i]) /\ wins[i].id \in exists /\ Waiting = {}
    BY <1>1, QuietMeans DEF FieldsInv, StateKept
  <2>2. QED
    BY <1>1, <2>1 DEF StateGood
<1>2. WindowsInv /\ FieldsInv => StateFollows
  BY <1>1 DEF StateFollows
<1>3. QED
  BY <1>2, FieldsInvAlways, PTL

(***************************************************************************)
(* The desktop and the place of each window are the true ones, but for     *)
(* those that changed between the read and the subscription of one         *)
(* rie_window_query().                                                     *)
(***************************************************************************)
THEOREM FieldsKnown ==
  ASSUME EarlyList = FALSE
  PROVE  Spec => []FieldsFollow
<1>1. ASSUME WindowsInv, FieldsInv, Quiet, NEW i \in DOMAIN wins, ~wins[i].dead
      PROVE  LET w == wins[i].id
             IN  /\ <<w, "desktop">> \in lost \/ wins[i].desk = desk[w]
                 /\ <<w, "geometry">> \in lost \/ wins[i].geom = geom[w]
  <2>1. /\ wins[i].id \in exists /\ desk[wins[i].id] # None
        /\ Waiting = {} /\ Current /\ InUse = wins /\ job = "none"
    BY <1>1, QuietMeans DEF Managed
  <2>2. DeskGood(wins[i]) /\ GeomGood(wins[i])
    BY <1>1, <2>1 DEF FieldsInv, FieldsKept, Requeried
  <2>3. QED
    BY <2>1, <2>2 DEF DeskGood, GeomGood
<1>2. WindowsInv /\ FieldsInv => FieldsFollow
  BY <1>1 DEF FieldsFollow
<1>3. QED
  BY <1>2, FieldsInvAlways, PTL

(***************************************************************************)
(* At most one window is focused, always, and once everything has been     *)
(* handled it is the active one (rie_event_active_window(), and the end of *)
(* rie_event_client_list()).                                               *)
(***************************************************************************)
THEOREM FocusFollows == Spec => []ActiveFollows
<1>1. ASSUME WindowsInv, FieldsInv
      PROVE  ActiveFollows
  <2>1. Quiet => FocusSeen /\ job # "list"
    BY <1>1, QuietMeans DEF FocusSeen
  <2>2. QED
    BY <1>1, <2>1 DEF FieldsInv, FocusKept, ActiveFollows
<1>2. QED
  BY <1>1, FieldsInvAlways, PTL
===============================================================================
