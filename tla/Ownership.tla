------------------------------- MODULE Ownership -------------------------------
(***************************************************************************)
(* Who frees what: the strings of configurations and skins, the surfaces   *)
(* of a skin and the root window's image, from the start of rieman through *)
(* any number of reloads (rieman.c, rie_event.c, rie_config.c, rie_skin.c, *)
(* rie_xcb.c).                                                             *)
(*                                                                         *)
(* During a reload two pagers exist.  Each has its own settings and skin,  *)
(* but the marks that say which strings have been set are in two static    *)
(* tables that they share.  The image of the root window belongs to the    *)
(* pager; drawing a desktop lends it to the skin.  Surfaces are counted by *)
(* cairo: drawing the pager's background makes a pattern that refers to    *)
(* its surface and that nothing destroys.                                  *)
(*                                                                         *)
(* The steps of a reload are those of EventLoop, where its control sockets *)
(* are; here every step may fail.  Objects that are only reachable through *)
(* one pager and are freed with it (arrays, windows, icons, fonts, tiles   *)
(* of borders, textures of other items than desktops and the pager) are    *)
(* left out.                                                               *)
(***************************************************************************)
EXTENDS Naturals, FiniteSets

CONSTANTS
  Texture,   (* the textures of desktops: "desktop", "desktop-active"       *)
  Source,    (* what a skin may use for them: "file", ":root:", "color"     *)
  PagerSource, (* what a skin may use for the texture "pager"               *)
  None,      (* no object, no pager                                         *)
  MaxPagers, (* pagers that are made (bounds the model)                     *)
  MaxImages  (* images of the root window that are read (bounds the model)  *)

AnySource == {"file", ":root:", "color"}

ASSUME OwnershipAssumption ==
  /\ Source \subseteq AnySource /\ Source # {}
  /\ PagerSource \subseteq AnySource /\ PagerSource # {}
  /\ Texture \intersect {"conf", "skin", "root", "pager"} = {}
  /\ MaxPagers \in Nat /\ MaxImages \in Nat

Conf(g)    == <<"conf", g>>          (* the strings of its configuration *)
Skin(g)    == <<"skin", g>>          (* the strings of its skin          *)
File(t, g) == <<t, g>>               (* the surface of a texture's file  *)
Root(k)    == <<"root", k>>          (* an image of the root window      *)

Item       == Texture \union {"pager"}
Sources(t) == IF t = "pager" THEN PagerSource ELSE Source
Generation == 1..MaxPagers
Images     == {Root(k) : k \in 1..MaxImages}
Object == {Conf(g) : g \in Generation} \union {Skin(g) : g \in Generation}
          \union {File(t, g) : t \in Item, g \in Generation} \union Images

(* A rie_t: what its pointers point to; conf and skin are the strings of   *)
(* its settings and of its skin, None when they have none; made says that  *)
(* it has a rie_gfx_t and a rie_skin_t.                                    *)
Pager == [gen : Generation,
          conf : Object \union {None}, skin : Object \union {None},
          made : BOOLEAN,
          src : [Item -> AnySource],
          tx : [Item -> Object \union {None}],
          root : Object \union {None}]

ASSUME NoneAssumption == None \notin Object \union Pager

VARIABLES
  live,    (* objects whose maker's reference has not been given back       *)
  doubles, (* history: objects whose maker's reference was given back twice *)
  dropped, (* history: images the pager has lost its pointer to             *)
  pinned,  (* objects to which patterns of drawings refer                   *)
  marked,  (* the tables whose items are marked as set                      *)
  running, (* the pager of the event loop, or None                          *)
  fresh,   (* the pager being made, or None                                 *)
  at,      (* the next step: "load", "layout", "graphics", "skin", "init",  *)
           (* "hints", "control", "init2" or "swap"; "failed", when it is   *)
           (* to be given up; "loop"; "exit"; "crashed"                     *)
  pagers, images (* history: pagers and images made                         *)

heap == <<live, doubles, dropped>>
vars == <<heap, pinned, marked, running, fresh, at, pagers, images>>

Steps == {"load", "layout", "graphics", "skin", "init", "hints", "control",
          "init2", "failed", "swap"}

TypeOK ==
  /\ live \subseteq Object /\ doubles \subseteq Object
  /\ dropped \subseteq Images
  /\ pinned \subseteq Object
  /\ marked \subseteq {"conf", "skin"}
  /\ running \in Pager \union {None}
  /\ fresh \in Pager \union {None}
  /\ at \in Steps \union {"loop", "exit", "crashed"}
  /\ pagers \in 0..MaxPagers /\ images \in 0..MaxImages

Init ==
  /\ live = {} /\ doubles = {} /\ dropped = {} /\ pinned = {}
  /\ marked = {}
  /\ running = None /\ fresh = None
  /\ at = "load"
  /\ pagers = 0 /\ images = 0

-------------------------------------------------------------------------------
(* Freeing.  What has no references but that of its maker is freed when    *)
(* that one is given back; strings have no others.                         *)

(* What is allocated.                                                      *)
Allocated == live \union pinned

(* The strings rie_conf_cleanup() frees for the settings and for the skin  *)
(* of p: those of items that are marked.                                   *)
Strings(p) ==
  (IF "conf" \in marked THEN {p.conf} \ {None} ELSE {})
  \union (IF "skin" \in marked THEN {p.skin} \ {None} ELSE {})

(* The surfaces the textures of p point to.                                *)
Surfaces(p) == {p.tx[t] : t \in Item} \ {None}

(* rie_pager_delete(): rie_event_cleanup() destroys the image of the root  *)
(* window, rie_skin_delete() what each of the textures points to, and      *)
(* rie_conf_cleanup() frees the strings, which removes the marks.          *)
Delete(p) ==
  LET all   == ({p.root} \ {None}) \union Surfaces(p) \union Strings(p)
      twice == ({p.root} \intersect Surfaces(p)) \ {None}
      again == {o \in Surfaces(p) :
                  \E t, u \in Item : t # u /\ p.tx[t] = o /\ p.tx[u] = o}
  IN  /\ live' = live \ all
      /\ doubles' = doubles \union (all \ live) \union twice \union again
      /\ marked' = {}

-------------------------------------------------------------------------------
(* What both the initialisation and the event loop do to a pager.          *)

(* rie_event_xrootpmap_id(), rie_xcb_get_root_pixmap(): the image is read, *)
(* and the one p had destroyed; or the pixmap is gone before it could be;  *)
(* or there is an error, and the pager forgets the image it had.           *)
ReadRoot(p, outcome) ==
  \/ /\ outcome = "read" /\ images < MaxImages
     /\ images' = images + 1
     /\ live' = (live \ {p.root}) \union {Root(images')}
     /\ doubles' = doubles \union ({p.root} \ (live \union {None}))
     /\ UNCHANGED dropped
  \/ /\ outcome = "gone"
     /\ UNCHANGED <<heap, images>>
  \/ /\ outcome = "error"
     /\ dropped' = dropped \union ({p.root} \ {None})
     /\ UNCHANGED <<live, doubles, images>>

(* The pager afterwards.                                                   *)
Reread(p, outcome) ==
  CASE outcome = "read"  -> [p EXCEPT !.root = Root(images + 1)]
    [] outcome = "gone"  -> p
    [] outcome = "error" -> [p EXCEPT !.root = None]

Outcomes == {"read", "gone", "error"}

(* rie_draw_pager_background(), rie_gfx_render_patch(): the surface that   *)
(* is painted; without one a colour is.                                    *)
Background(p) == IF p.src["pager"] = ":root:" THEN p.root ELSE p.tx["pager"]

(* The pattern made of that surface refers to it and is not destroyed.     *)
DrawBackground(p) == pinned' = pinned \union ({Background(p)} \ {None})

(* rie_draw_desktop() for the desktops that use the textures ts: without   *)
(* an image of the root window a copy of the texture is coloured.          *)
DrawDesktops(p, ts) ==
  [p EXCEPT !.tx = [t \in Item |->
     IF t \in ts /\ p.src[t] = ":root:" /\ p.root # None
     THEN p.root ELSE p.tx[t]]]

(* What p may be after rie_render(): which desktops it has drawn depends   *)
(* on what there is and how far it came.                                   *)
Drawings(p) == {DrawDesktops(p, ts) : ts \in SUBSET Texture}

-------------------------------------------------------------------------------
(* Making a pager.  ok says that the step succeeds.                        *)

(* Mutant of GiveUp: the running pager is deleted.                         *)
GiveUpOld ==
  IF running = None
  THEN /\ at' = "exit"
       /\ UNCHANGED <<heap, marked, fresh>>
  ELSE /\ Delete(running)
       /\ fresh' = None
       /\ at' = "loop"
       /\ UNCHANGED dropped

(* rie_event_reload() gives up, or main() does when there is no pager to   *)
(* go back to; main() does not delete the one it has made.  A pager        *)
(* without a skin cannot be deleted: a null pointer is followed.           *)
GiveUp ==
  IF running = None
  THEN /\ at' = "exit"
       /\ UNCHANGED <<heap, marked, fresh>>
  ELSE IF ~fresh.made
       THEN /\ at' = "crashed"
            /\ UNCHANGED <<heap, marked, fresh>>
       ELSE /\ Delete(fresh)
            /\ fresh' = None
            /\ at' = "loop"
            /\ UNCHANGED dropped

(* Mutant of Load: nothing is marked.                                      *)
LoadKeepsMarks(ok) ==
  /\ at = "load" /\ pagers < MaxPagers
  /\ pagers' = pagers + 1
  /\ IF ok
     THEN /\ fresh' = [gen |-> pagers', conf |-> Conf(pagers'), skin |-> None,
                       made |-> FALSE,
                       src |-> [t \in Item |-> "color"],
                       tx |-> [t \in Item |-> None], root |-> None]
          /\ live' = live \union {Conf(pagers')}
          /\ at' = "layout"
     ELSE /\ at' = IF running = None THEN "exit" ELSE "loop"
          /\ UNCHANGED <<live, fresh>>
  /\ UNCHANGED <<marked, doubles, dropped, pinned, running, images>>

(* rie_pager_new(), rie_conf_load(): the marks are removed and set anew; a *)
(* file that is refused leaves no mark, no string and no pager (Config).   *)
Load(ok) ==
  /\ at = "load" /\ pagers < MaxPagers
  /\ pagers' = pagers + 1
  /\ IF ok
     THEN /\ fresh' = [gen |-> pagers', conf |-> Conf(pagers'), skin |-> None,
                       made |-> FALSE,
                       src |-> [t \in Item |-> "color"],
                       tx |-> [t \in Item |-> None], root |-> None]
          /\ live' = live \union {Conf(pagers')}
          /\ marked' = marked \union {"conf"}
          /\ at' = "layout"
     ELSE /\ marked' = marked \ {"conf"}
          /\ at' = IF running = None THEN "exit" ELSE "loop"
          /\ UNCHANGED <<live, fresh>>
  /\ UNCHANGED <<doubles, dropped, pinned, running, images>>

(* A step that makes nothing of what is modelled here.                     *)
Plain(step, next, ok) ==
  /\ at = step
  /\ IF ok THEN at' = next /\ UNCHANGED <<heap, marked, fresh>> ELSE GiveUp
  /\ UNCHANGED <<pinned, running, pagers, images>>

(* rie_xcb_set_desktop_layout(), rie_gfx_new().                            *)
Layout(ok)   == Plain("layout", "graphics", ok)
Graphics(ok) == Plain("graphics", "skin", ok)

(* rie_skin_new(): the strings of the skin's file and the surfaces of the  *)
(* files it names; after an error it takes all of them back.               *)
NewSkin(ok) ==
  /\ at = "skin"
  /\ IF ok
     THEN \E src \in [Item -> AnySource] :
            LET g    == fresh.gen
                tx   == [t \in Item |-> IF src[t] = "file" THEN File(t, g)
                                        ELSE None]
            IN  /\ \A t \in Item : src[t] \in Sources(t)
                /\ fresh' = [fresh EXCEPT !.skin = Skin(g), !.src = src,
                                          !.tx = tx, !.made = TRUE]
                /\ live' = live \union {Skin(g)}
                                \union ({tx[t] : t \in Item} \ {None})
                /\ marked' = marked \union {"skin"}
                /\ at' = "init"
                /\ UNCHANGED <<doubles, dropped>>
     ELSE /\ marked' = marked \ {"skin"}
          /\ at' = IF running = None THEN "exit" ELSE "crashed"
          /\ UNCHANGED <<heap, fresh>>
  /\ UNCHANGED <<pinned, running, pagers, images>>

(* rie_event_init(), called in rie_pager_init() and, after a reload, once  *)
(* more: the image is read and in the end everything is drawn.  It may     *)
(* fail before, and after some of it has been drawn.                       *)
EventInit(step, next) ==
  /\ at = step
  /\ \E outcome \in Outcomes :
       LET p == Reread(fresh, outcome)
       IN  /\ ReadRoot(fresh, outcome)
           /\ \/ /\ fresh' \in Drawings(p) /\ DrawBackground(p)
                 /\ at' \in {next, "failed"}
              \/ /\ fresh' = p /\ UNCHANGED pinned
                 /\ at' = "failed"
  /\ UNCHANGED <<marked, running, pagers>>

InitEvents  == EventInit("init", "hints")
InitEvents2 == EventInit("init2", "swap")

InitFailed ==
  /\ at = "failed"
  /\ GiveUp
  /\ UNCHANGED <<pinned, running, pagers, images>>

(* rie_xcb_set_window_hints(), rie_control_new().                          *)
Hints(ok)   == Plain("hints", "control", ok)
Control(ok) == Plain("control", IF running = None THEN "swap" ELSE "init2", ok)

(* Mutant of Swap: the new pager is deleted, not the old one.              *)
SwapDeletesNew ==
  /\ at = "swap"
  /\ IF running = None THEN UNCHANGED <<heap, marked>>
     ELSE Delete(fresh) /\ UNCHANGED dropped
  /\ running' = fresh /\ fresh' = None
  /\ at' = "loop"
  /\ UNCHANGED <<pinned, pagers, images>>

(* The end of rie_event_reload(): the old pager is deleted.  When rieman   *)
(* starts there is none.                                                   *)
Swap ==
  /\ at = "swap"
  /\ IF running = None THEN UNCHANGED <<heap, marked>>
     ELSE Delete(running) /\ UNCHANGED dropped
  /\ running' = fresh /\ fresh' = None
  /\ at' = "loop"
  /\ UNCHANGED <<pinned, pagers, images>>

-------------------------------------------------------------------------------
(* The event loop.                                                         *)

(* A notification of _XROOTPMAP_ID; the drawing that follows may fail      *)
(* before it has drawn anything.                                           *)
RootChanges ==
  /\ at = "loop"
  /\ \E outcome \in Outcomes :
       LET p == Reread(running, outcome)
       IN  /\ ReadRoot(running, outcome)
           /\ \/ running' \in Drawings(p) /\ DrawBackground(p)
              \/ running' = p /\ UNCHANGED pinned
  /\ UNCHANGED <<marked, fresh, at, pagers>>

(* Any other event after which the pager is drawn.                         *)
Redraw ==
  /\ at = "loop"
  /\ running' \in Drawings(running) /\ DrawBackground(running)
  /\ UNCHANGED <<heap, marked, fresh, at, pagers, images>>

Reload ==
  /\ at = "loop" /\ pagers < MaxPagers
  /\ at' = "load"
  /\ UNCHANGED <<heap, pinned, marked, running, fresh, pagers, images>>

(* rie_event_loop() ends: rie_pager_delete(pager, 1).                      *)
Quit ==
  /\ at = "loop"
  /\ Delete(running)
  /\ at' = "exit" /\ running' = None
  /\ UNCHANGED <<dropped, pinned, fresh, pagers, images>>

Making(ok) ==
  \/ Load(ok) \/ Layout(ok) \/ Graphics(ok) \/ NewSkin(ok)
  \/ Hints(ok) \/ Control(ok)

Next ==
  \/ \E ok \in BOOLEAN : Making(ok)
  \/ InitEvents \/ InitEvents2 \/ InitFailed
  \/ Swap \/ RootChanges \/ Redraw \/ Reload \/ Quit

Spec == Init /\ [][Next]_vars

-------------------------------------------------------------------------------
(* What a pager needs as long as it draws and is configured.               *)
Needs(p) ==
  ({p.conf, p.skin, p.root} \ {None})
  \union {File(t, p.gen) : t \in {u \in Item : p.made /\ p.src[u] = "file"}}

(* No reload, failed or not, frees anything that belongs to the pager of   *)
(* the event loop: its settings, its skin and its images stay as they are, *)
(* though the marks for its strings are shared with the pager being made.  *)
RunningKeepsItsOwn ==
  running # None => Needs(running) \subseteq live

(* Whenever rieman waits for events, the references that made strings,     *)
(* surfaces and images have been given back for all but those the pager it *)
(* runs points to and images whose successor could not be read: reloads,   *)
(* failed or not, and new images of the root window leave nothing behind,  *)
(* if what drawings add is not counted.                                    *)
MakersReleased ==
  at = "loop" => live \subseteq Needs(running) \union dropped

(* "previous root image, if any" is freed when a new one is read, and all  *)
(* of a pager's when it is deleted: nothing else is allocated while rieman *)
(* waits for events.                                                       *)
NothingForgotten ==
  at = "loop" => Allocated \subseteq Needs(running) \union dropped

(* "To reload configuration, send SIGUSR1": nothing is freed twice,        *)
(* whatever the skins use as backgrounds.                                  *)
NothingFreedTwice == doubles = {}
===============================================================================
