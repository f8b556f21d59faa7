---------------------------- MODULE OwnershipProofs ----------------------------
(***************************************************************************)
(* Proofs about Ownership, for any textures and any number of reloads and  *)
(* images: the running pager keeps what it needs, its maker's references   *)
(* to anything else have been given back, and, unless the root window's    *)
(* image is lent to a desktop's texture, none is given back twice.         *)
(***************************************************************************)
EXTENDS Ownership, TLAPS

(* The definitions that only group variables or name sets.                 *)
USE DEF vars, heap, Item, AnySource, Generation, Steps, Outcomes

(***************************************************************************)
(* What a pager may point to.                                              *)
(***************************************************************************)

(* The first k images of the root window.                                  *)
Read(k) == {Root(i) : i \in 1..k}

(* A pager points to strings and files of its own generation, one of the n *)
(* made so far, and to images that are among the first k, which only the   *)
(* textures of desktops are lent.  Until it has a skin it has nothing but  *)
(* the strings of its configuration.                                       *)
Owns(p, n, k) ==
  /\ p \in Pager
  /\ p.gen <= n
  /\ p.conf = Conf(p.gen)
  /\ p.skin = IF p.made THEN Skin(p.gen) ELSE None
  /\ p.root \in Read(k) \union {None}
  /\ \A t \in Item :
       \/ p.made /\ p.src[t] = "file" /\ p.tx[t] = File(t, p.gen)
       \/ (p.made => p.src[t] # "file") /\ p.tx[t] = None
       \/ /\ p.made /\ p.src[t] = ":root:" /\ p.tx[t] \in Read(k)
          /\ t \in Texture
  /\ p.made => \A t \in Item : p.src[t] \in Sources(t)
  /\ ~p.made => p.root = None

(* The images a pager points to, those that have been freed included.      *)
RootsOf(p) == ({p.root} \union Surfaces(p)) \intersect Images

(* Two pagers that have nothing in common.                                 *)
Apart(p, q) == p.gen # q.gen /\ RootsOf(p) \intersect RootsOf(q) = {}

(* What rie_pager_delete() frees of p when the tables m are marked.        *)
Frees(p, m) ==
  ({p.root} \ {None}) \union Surfaces(p)
  \union (IF "conf" \in m THEN {p.conf} \ {None} ELSE {})
  \union (IF "skin" \in m THEN {p.skin} \ {None} ELSE {})

(* Objects of different kinds differ, and so do those of one kind that     *)
(* have different numbers.                                                 *)
LEMMA Kinds ==
  ASSUME NEW g, NEW h, NEW t \in Item, NEW u \in Item
  PROVE  /\ Conf(g) # Skin(h) /\ Conf(g) # File(t, h) /\ Conf(g) # Root(h)
         /\ Skin(g) # File(t, h) /\ Skin(g) # Root(h) /\ File(t, g) # Root(h)
         /\ Conf(g) = Conf(h) => g = h
         /\ Skin(g) = Skin(h) => g = h
         /\ Root(g) = Root(h) => g = h
         /\ File(t, g) = File(u, h) => g = h /\ t = u
  BY OwnershipAssumption DEF Conf, Skin, File, Root

(* The images that have been read are among all of them.                   *)
LEMMA ReadImages ==
  ASSUME NEW k \in 0..MaxImages, NEW l \in k..MaxImages
  PROVE  Read(k) \subseteq Images /\ Read(k) \subseteq Read(l)
  BY OwnershipAssumption DEF Read, Images

(* The image read next is none that a pager points to.                     *)
LEMMA NextImage ==
  ASSUME NEW k \in 0..MaxImages, k < MaxImages
  PROVE  /\ Root(k + 1) \notin Read(k)
         /\ Root(k + 1) \in Read(k + 1) /\ Root(k + 1) \in Images
  BY OwnershipAssumption DEF Read, Images, Root

(* The fields of a pager.                                                  *)
LEMMA PagerFields ==
  ASSUME NEW p \in Pager
  PROVE  /\ p.gen \in Generation /\ p.made \in BOOLEAN
         /\ p.src \in [Item -> AnySource]
         /\ p.tx \in [Item -> Object \union {None}]
         /\ p.conf \in Object \union {None} /\ p.skin \in Object \union {None}
         /\ p.root \in Object \union {None}
  BY DEF Pager

(* Objects of a generation there is are objects.                           *)
LEMMA ObjectsOf ==
  ASSUME NEW g \in Generation, NEW t \in Item
  PROVE  Conf(g) \in Object /\ Skin(g) \in Object /\ File(t, g) \in Object
  BY DEF Object

(* What is owned is freed when the tables are marked.                      *)
LEMMA FreesAll ==
  ASSUME NEW p, NEW n, NEW k, Owns(p, n, k), NEW m,
         "conf" \in m, p.made => "skin" \in m
  PROVE  Needs(p) \subseteq Frees(p, m)
<1>1. p.made \in BOOLEAN
  BY PagerFields DEF Owns
<1>2. p.conf \in Frees(p, m) \union {None}
  BY DEF Frees
<1>3. p.skin \in Frees(p, m) \union {None}
  BY <1>1 DEF Frees, Owns
<1>4. p.root \in Frees(p, m) \union {None}
  BY DEF Frees
<1>5. ASSUME NEW t \in Item, p.made /\ p.src[t] = "file"
      PROVE  File(t, p.gen) \in Frees(p, m)
  <2>1. p.tx[t] = File(t, p.gen)
    BY <1>5 DEF Owns
  <2>2. File(t, p.gen) # None
    BY PagerFields, ObjectsOf, NoneAssumption DEF Owns
  <2>3. QED
    BY <2>1, <2>2 DEF Frees, Surfaces
<1>6. QED
  BY <1>2, <1>3, <1>4, <1>5 DEF Needs

(* Nothing that is freed with one pager is needed by another.              *)
LEMMA FreesApart ==
  ASSUME NEW k \in 0..MaxImages, NEW n, NEW p, NEW q,
         Owns(p, n, k), Owns(q, n, k), Apart(p, q), NEW m
  PROVE  Needs(q) \intersect Frees(p, m) = {}
<1> SUFFICES ASSUME NEW o \in Needs(q), o \in Frees(p, m) PROVE FALSE
  OBVIOUS
<1>1. /\ p.gen # q.gen /\ RootsOf(p) \intersect RootsOf(q) = {}
      /\ p.conf = Conf(p.gen) /\ q.conf = Conf(q.gen)
      /\ p.skin \in {None, Skin(p.gen)} /\ q.skin \in {None, Skin(q.gen)}
  BY DEF Owns, Apart
<1>2. Read(k) \subseteq Images
  BY ReadImages, OwnershipAssumption
<1>3. \/ o = Conf(p.gen) \/ o = Skin(p.gen)
      \/ o \in RootsOf(p)
      \/ \E t \in Item : o = File(t, p.gen)
  <2>1. CASE o \in {p.root} \ {None}
    BY <2>1, <1>2 DEF Owns, RootsOf
  <2>2. CASE o \in Surfaces(p)
    <3>1. PICK t \in Item : o = p.tx[t] /\ o # None
      BY <2>2 DEF Surfaces
    <3>2. o = File(t, p.gen) \/ o \in Read(k)
      BY <3>1 DEF Owns
    <3>3. QED
      BY <1>2, <2>2, <3>2 DEF RootsOf
  <2>3. CASE o \in {p.conf, p.skin} \ {None}
    BY <1>1, <2>3
  <2>4. QED
    BY <2>1, <2>2, <2>3 DEF Frees
<1>4. \/ o = Conf(q.gen) \/ o = Skin(q.gen)
      \/ o \in RootsOf(q)
      \/ \E t \in Item : o = File(t, q.gen)
  <2>1. CASE o \in {q.root} \ {None}
    BY <2>1, <1>2 DEF Owns, RootsOf
  <2>2. QED
    BY <1>1, <2>1 DEF Needs
<1>5. \A r : r \in RootsOf(p) \union RootsOf(q) => \E i : r = Root(i)
  BY DEF RootsOf, Images
<1>6. CASE Item = {}
  BY <1>1, <1>3, <1>4, <1>5, <1>6 DEF Conf, Skin, Root
<1>7. CASE Item # {}
  <2>1. PICK a \in Item : TRUE
    BY <1>7
  <2>2. CASE o \in RootsOf(p)
    <3>1. PICK i : o = Root(i)
      BY <1>5, <2>2
    <3>2. QED
      BY <1>1, <1>4, <2>1, <2>2, <3>1, Kinds
  <2>3. CASE o \in RootsOf(q)
    <3>1. PICK i : o = Root(i)
      BY <1>5, <2>3
    <3>2. QED
      BY <1>1, <1>3, <2>1, <2>3, <3>1, Kinds
  <2>4. CASE o \notin RootsOf(p) \union RootsOf(q)
    BY <1>1, <1>3, <1>4, <2>1, <2>4, Kinds
  <2>5. QED
    BY <2>2, <2>3, <2>4
<1>8. QED
  BY <1>6, <1>7

(* Without images of the root window as backgrounds a pager frees only     *)
(* what it needs.                                                          *)
LEMMA FreesOwn ==
  ASSUME ":root:" \notin Source, NEW n, NEW k, NEW p, Owns(p, n, k), NEW m
  PROVE  Frees(p, m) \subseteq Needs(p)
<1>1. p.made => \A t \in Texture : p.src[t] \in Source
  BY OwnershipAssumption DEF Owns, Sources
<1>2. Surfaces(p) \subseteq Needs(p)
  <2> SUFFICES ASSUME NEW t \in Item, p.tx[t] # None
               PROVE  p.tx[t] \in Needs(p)
    BY DEF Surfaces
  <2>1. p.made /\ p.src[t] = "file" /\ p.tx[t] = File(t, p.gen)
    BY <1>1 DEF Owns
  <2>2. QED
    BY <2>1 DEF Needs
<1>3. QED
  BY <1>2 DEF Frees, Needs

(* What a pager frees are objects.                                         *)
LEMMA FreesObjects ==
  ASSUME NEW p \in Pager, NEW m
  PROVE  Frees(p, m) \subseteq Object
  BY PagerFields DEF Frees, Surfaces

(***************************************************************************)
(* What steps do to a pager.                                               *)
(***************************************************************************)

(* Nothing is lost by counting further.                                    *)
LEMMA OwnsLonger ==
  ASSUME NEW n \in Nat, NEW m \in Nat, n <= m,
         NEW k \in 0..MaxImages, NEW l \in k..MaxImages,
         NEW p, Owns(p, n, k)
  PROVE  Owns(p, m, l)
<1>1. Read(k) \subseteq Read(l)
  BY ReadImages
<1>2. p.gen <= m
  BY PagerFields, OwnershipAssumption DEF Owns
<1>3. QED
  BY <1>1, <1>2 DEF Owns

(* Drawing lends the image of the root window to the skin, and changes     *)
(* nothing else.                                                           *)
LEMMA Drawing ==
  ASSUME NEW n, NEW k \in 0..MaxImages, NEW p, Owns(p, n, k), p.made,
         NEW ts \in SUBSET Texture, NEW q, q = DrawDesktops(p, ts)
  PROVE  /\ Owns(q, n, k) /\ q.made /\ q.gen = p.gen
         /\ Needs(q) = Needs(p) /\ RootsOf(q) \subseteq RootsOf(p)
<1> DEFINE tx == [t \in Item |->
                    IF t \in ts /\ p.src[t] = ":root:" /\ p.root # None
                    THEN p.root ELSE p.tx[t]]
<1>1. q = [p EXCEPT !.tx = tx] /\ p \in Pager
  BY DEF DrawDesktops, Owns
<1>2. tx \in [Item -> Object \union {None}]
  BY <1>1, PagerFields
<1> HIDE DEF tx
<1>3. /\ q \in Pager /\ q.tx = tx
      /\ q.gen = p.gen /\ q.made = p.made /\ q.src = p.src
      /\ q.conf = p.conf /\ q.skin = p.skin /\ q.root = p.root
  BY <1>1, <1>2 DEF Pager
<1>4. \A t \in Item :
        \/ tx[t] = p.tx[t]
        \/ /\ p.src[t] = ":root:" /\ p.root # None /\ tx[t] = p.root
           /\ t \in Texture
  BY DEF tx
<1>5. \A t \in Item :
        \/ q.made /\ q.src[t] = "file" /\ q.tx[t] = File(t, q.gen)
        \/ (q.made => q.src[t] # "file") /\ q.tx[t] = None
        \/ /\ q.made /\ q.src[t] = ":root:" /\ q.tx[t] \in Read(k)
           /\ t \in Texture
  BY <1>3, <1>4 DEF Owns
<1>6. Owns(q, n, k)
  BY <1>3, <1>5 DEF Owns
<1>7. Needs(q) = Needs(p)
  BY <1>3 DEF Needs
<1>8. Surfaces(q) \subseteq Surfaces(p) \union {p.root}
  BY <1>3, <1>4 DEF Surfaces
<1>9. RootsOf(q) \subseteq RootsOf(p)
  BY <1>3, <1>8 DEF RootsOf
<1>10. QED
  BY <1>3, <1>6, <1>7, <1>9

(* A pager as it is after some of its desktops have been drawn.            *)
LEMMA Drawn ==
  ASSUME NEW n, NEW k \in 0..MaxImages, NEW p, Owns(p, n, k), p.made,
         NEW q \in Drawings(p)
  PROVE  /\ Owns(q, n, k) /\ q.made /\ q.gen = p.gen
         /\ Needs(q) = Needs(p) /\ RootsOf(q) \subseteq RootsOf(p)
<1>1. PICK ts \in SUBSET Texture : q = DrawDesktops(p, ts)
  BY DEF Drawings
<1>2. QED
  BY <1>1, Drawing

(* Another image, or none, in a pager with a skin.                         *)
LEMMA RootReplaced ==
  ASSUME NEW n, NEW k \in 0..MaxImages, NEW l \in k..MaxImages,
         NEW p, Owns(p, n, k), p.made,
         NEW r \in Read(l) \union {None}, NEW q, q = [p EXCEPT !.root = r]
  PROVE  /\ Owns(q, n, l) /\ q.made /\ q.gen = p.gen
         /\ Needs(q) = (Needs(p) \ {p.root}) \union ({r} \ {None})
         /\ RootsOf(q) \subseteq RootsOf(p) \union {r}
<1>1. r \in Object \union {None}
  BY ReadImages, OwnershipAssumption DEF Object
<1>2. /\ q \in Pager /\ q.root = r /\ q.tx = p.tx
      /\ q.gen = p.gen /\ q.made = p.made /\ q.src = p.src
      /\ q.conf = p.conf /\ q.skin = p.skin
  BY <1>1 DEF Pager, Owns
<1>3. Read(k) \subseteq Read(l) /\ Read(k) \subseteq Images
  BY ReadImages, OwnershipAssumption
<1>4. Owns(q, n, l)
  BY <1>2, <1>3 DEF Owns
<1>5. p.root # None => \E i : p.root = Root(i)
  BY DEF Owns, Read
<1>6. p.root # None =>
        /\ p.root # p.conf /\ p.root # p.skin
        /\ \A t \in Item : File(t, p.gen) # p.root
  <2>1. SUFFICES ASSUME p.root # None
                 PROVE  /\ p.root # p.conf /\ p.root # p.skin
                        /\ \A t \in Item : File(t, p.gen) # p.root
    OBVIOUS
  <2>2. PICK i : p.root = Root(i)
    BY <1>5, <2>1
  <2>3. p.root # p.conf /\ p.root # p.skin
    BY <2>1, <2>2 DEF Owns, Root, Conf, Skin
  <2>4. \A t \in Item : File(t, p.gen) # p.root
    BY <2>2, Kinds
  <2>5. QED
    BY <2>3, <2>4
<1>7. \A t \in Item : File(t, p.gen) # None
  BY PagerFields, ObjectsOf, NoneAssumption DEF Owns
<1>8. Needs(q) = (Needs(p) \ {p.root}) \union ({r} \ {None})
  BY <1>2, <1>6, <1>7 DEF Needs
<1>9. RootsOf(q) \subseteq RootsOf(p) \union {r}
  BY <1>2 DEF RootsOf, Surfaces
<1>10. QED
  BY <1>2, <1>4, <1>8, <1>9

(* Reading the image of the root window for a pager: it has what it needs  *)
(* afterwards, and so has any other; what it had is freed or has been      *)
(* forgotten.                                                              *)
LEMMA Reading ==
  ASSUME NEW n, images \in 0..MaxImages,
         NEW p, Owns(p, n, images), p.made, Needs(p) \subseteq live,
         live \subseteq Object, doubles \subseteq Object, dropped \subseteq Images,
         NEW o \in Outcomes, ReadRoot(p, o), NEW q, q = Reread(p, o)
  PROVE  /\ images' \in images..MaxImages
         /\ live' \subseteq Object /\ doubles' = doubles /\ dropped' \subseteq Images
         /\ Owns(q, n, images') /\ q.made /\ q.gen = p.gen
         /\ Needs(q) \subseteq live'
         /\ live' \subseteq (live \ Needs(p)) \union Needs(q) \union dropped'
         /\ dropped \subseteq dropped'
         /\ live \ {p.root} \subseteq live'
         /\ RootsOf(q) \subseteq RootsOf(p) \union (Images \ Read(images))
<1>1. Read(images) \subseteq Images /\ p.root \in Read(images) \union {None}
  BY ReadImages, OwnershipAssumption DEF Owns
<1>2. p.root \in live \union {None}
  BY DEF Needs
<1>3. None \notin Images /\ Images \subseteq Object
  BY NoneAssumption DEF Object
<1>4. CASE o = "read" /\ images < MaxImages
  <2>1. /\ images' = images + 1
        /\ live' = (live \ {p.root}) \union {Root(images')}
        /\ doubles' = doubles \union ({p.root} \ (live \union {None}))
        /\ dropped' = dropped
    BY <1>4 DEF ReadRoot
  <2>2. q = [p EXCEPT !.root = Root(images + 1)]
    BY <1>4 DEF Reread
  <2>3. images' \in images..MaxImages
    BY <1>4, <2>1, OwnershipAssumption
  <2>4. /\ Root(images') \notin Read(images) /\ Root(images') \in Read(images')
        /\ Root(images') \in Images
    BY <1>4, <2>1, NextImage
  <2>5. /\ Owns(q, n, images') /\ q.made /\ q.gen = p.gen
        /\ Needs(q) = (Needs(p) \ {p.root}) \union ({Root(images')} \ {None})
        /\ RootsOf(q) \subseteq RootsOf(p) \union {Root(images')}
    BY <2>1, <2>2, <2>3, <2>4, RootReplaced
  <2>6. doubles' = doubles
    BY <1>2, <2>1
  <2>7. live' \subseteq Object
    BY <1>3, <2>1, <2>4
  <2>8. QED
    BY <1>3, <2>1, <2>3, <2>4, <2>5, <2>6, <2>7
<1>5. CASE o = "gone"
  <2>1. UNCHANGED <<heap, images>> /\ q = p
    BY <1>5 DEF ReadRoot, Reread
  <2>2. images' \in images..MaxImages
    BY <2>1, OwnershipAssumption
  <2>3. QED
    BY <2>1, <2>2
<1>6. CASE o = "error"
  <2>1. /\ dropped' = dropped \union ({p.root} \ {None})
        /\ UNCHANGED <<live, doubles, images>>
        /\ q = [p EXCEPT !.root = None]
    BY <1>6 DEF ReadRoot, Reread
  <2>2. images' \in images..MaxImages
    BY <2>1, OwnershipAssumption
  <2>3. /\ Owns(q, n, images') /\ q.made /\ q.gen = p.gen
        /\ Needs(q) = (Needs(p) \ {p.root}) \union ({None} \ {None})
        /\ RootsOf(q) \subseteq RootsOf(p) \union {None}
    BY <2>1, <2>2, RootReplaced
  <2>4. None \notin RootsOf(q)
    BY <1>3 DEF RootsOf
  <2>5. dropped \subseteq dropped' /\ dropped' \subseteq Images
    BY <1>1, <2>1
  <2>6. Needs(q) \subseteq live' /\ live \ {p.root} \subseteq live'
    BY <2>1, <2>3
  <2>7. live' \subseteq (live \ Needs(p)) \union Needs(q) \union dropped'
    <3> SUFFICES ASSUME NEW x \in live, x \in Needs(p), x \notin Needs(q)
                 PROVE  x \in dropped'
      BY <2>1
    <3>1. x = p.root /\ x # None
      BY <1>3, <2>3, NoneAssumption
    <3>2. QED
      BY <2>1, <3>1
  <2>8. RootsOf(q) \subseteq RootsOf(p) \union (Images \ Read(images))
    BY <2>3, <2>4
  <2>9. QED
    BY <2>1, <2>2, <2>3, <2>5, <2>6, <2>7, <2>8
<1>7. o \in {"read", "gone", "error"} /\ (o = "read" => images < MaxImages)
  BY DEF ReadRoot
<1>8. QED
  BY <1>4, <1>5, <1>6, <1>7

(* What another pager has is not touched by that.                          *)
LEMMA ReadingApart ==
  ASSUME NEW n, NEW k \in 0..MaxImages, NEW p, NEW r, NEW q,
         Owns(p, n, k), Owns(r, n, k), Apart(p, r), q.gen = p.gen,
         RootsOf(q) \subseteq RootsOf(p) \union (Images \ Read(k))
  PROVE  p.root \notin Needs(r) \ {None} /\ Apart(q, r)
<1>1. Read(k) \subseteq Images
  BY ReadImages, OwnershipAssumption
<1>2. RootsOf(r) \subseteq Read(k)
  <2>1. \A t \in Item : r.tx[t] \in Read(k) \/ r.tx[t] = None
                           \/ r.tx[t] = File(t, r.gen)
    BY DEF Owns
  <2>2. \A t \in Item : File(t, r.gen) \notin Images
    BY Kinds DEF Images
  <2>3. None \notin Images
    BY NoneAssumption DEF Object
  <2>4. QED
    BY <2>1, <2>2, <2>3 DEF RootsOf, Surfaces, Owns
<1>3. Apart(q, r)
  BY <1>2 DEF Apart
<1>4. p.root # None => p.root \notin Needs(r)
  <2>1. p.root # None => p.root \in Frees(p, {})
    BY DEF Frees
  <2>2. QED
    BY <2>1, FreesApart
<1>5. QED
  BY <1>3, <1>4

(* What deleting a pager does to the heap.                                 *)
LEMMA Deleting ==
  ASSUME NEW p, Delete(p)
  PROVE  /\ live' = live \ Frees(p, marked) /\ marked' = {}
         /\ doubles' \subseteq doubles \union Frees(p, marked)
  BY DEF Delete, Frees, Strings

(***************************************************************************)
(* The inductive invariant.                                                *)
(***************************************************************************)
HeapTypes ==
  /\ live \subseteq Object /\ doubles \subseteq Object
  /\ dropped \subseteq Images
  /\ marked \subseteq {"conf", "skin"}
  /\ at \in Steps \union {"loop", "exit", "crashed"}
  /\ pagers \in 0..MaxPagers /\ images \in 0..MaxImages

(* The pagers there are at each step, and the marks for what they have.    *)
StepInv ==
  /\ at = "loop" => running # None /\ fresh = None
  /\ at = "load" => fresh = None
  /\ at \in Steps \ {"load"} => fresh # None /\ "conf" \in marked
  /\ at \in {"layout", "graphics", "skin"} => ~fresh.made
  /\ at \in {"init", "hints", "control", "init2", "failed", "swap"} =>
       fresh.made /\ "skin" \in marked

RunningInv == running # None =>
  Owns(running, pagers, images) /\ running.made /\ Needs(running) \subseteq live
FreshInv == fresh # None =>
  Owns(fresh, pagers, images) /\ Needs(fresh) \subseteq live
ApartInv == running # None /\ fresh # None => Apart(running, fresh)

NeedsOf(p) == IF p = None THEN {} ELSE Needs(p)

(* All that is allocated belongs to one of them, or is lost.               *)
HeapInv == at \notin {"exit", "crashed"} =>
  live \subseteq NeedsOf(running) \union NeedsOf(fresh) \union dropped

OwnInv == HeapTypes /\ StepInv /\ RunningInv /\ FreshInv /\ ApartInv /\ HeapInv

(* A step with the same pagers and heap, that ends where it may.           *)
LEMMA SamePagers ==
  ASSUME OwnInv, UNCHANGED <<heap, marked, running, fresh, pagers, images>>,
         at' \in Steps \union {"loop", "exit", "crashed"}, StepInv',
         at' \notin {"exit", "crashed"} => at \notin {"exit", "crashed"}
  PROVE  OwnInv'
  BY DEF OwnInv, HeapTypes, RunningInv, FreshInv, ApartInv, HeapInv

(* The pager being made is taken back.                                     *)
LEMMA GiveUpOwn ==
  ASSUME OwnInv, GiveUp, at \in Steps \ {"load"},
         UNCHANGED <<running, pagers, images>>
  PROVE  OwnInv'
<1>1. CASE running = None \/ ~fresh.made
  <2>1. at' \in {"exit", "crashed"} /\ UNCHANGED <<heap, marked, fresh>>
    BY <1>1 DEF GiveUp
  <2>2. StepInv'
    BY <2>1 DEF StepInv
  <2>3. QED
    BY <2>1, <2>2, SamePagers
<1>2. CASE running # None /\ fresh.made
  <2>1. Delete(fresh) /\ fresh' = None /\ at' = "loop" /\ UNCHANGED dropped
    BY <1>2 DEF GiveUp
  <2>2. fresh # None /\ "conf" \in marked /\ "skin" \in marked
    BY <1>2 DEF OwnInv, StepInv
  <2>3. /\ Owns(fresh, pagers, images) /\ Owns(running, pagers, images)
        /\ Apart(fresh, running) /\ images \in 0..MaxImages
        /\ Needs(running) \subseteq live /\ running.made
    BY <1>2, <2>2 DEF OwnInv, HeapTypes, RunningInv, FreshInv, ApartInv, Apart
  <2>4. /\ live' = live \ Frees(fresh, marked) /\ marked' = {}
        /\ doubles' \subseteq doubles \union Frees(fresh, marked)
    BY <2>1, Deleting
  <2>5. Needs(fresh) \subseteq Frees(fresh, marked)
    BY <2>2, <2>3, FreesAll
  <2>6. Needs(running) \intersect Frees(fresh, marked) = {}
    BY <2>3, FreesApart
  <2>7. Frees(fresh, marked) \subseteq Object
    BY <2>3, FreesObjects DEF Owns
  <2>8. HeapTypes'
    BY <2>1, <2>4, <2>7 DEF OwnInv, HeapTypes
  <2>9. RunningInv'
    BY <2>3, <2>4, <2>6 DEF RunningInv
  <2>10. HeapInv'
    <3>1. at \notin {"exit", "crashed"}
      OBVIOUS
    <3>2. live \subseteq Needs(running) \union Needs(fresh) \union dropped
      BY <1>2, <2>2, <3>1 DEF OwnInv, HeapInv, NeedsOf
    <3>3. live' \subseteq Needs(running) \union dropped
      BY <2>4, <2>5, <3>2
    <3>4. QED
      BY <1>2, <2>1, <3>3 DEF HeapInv, NeedsOf
  <2>11. StepInv' /\ FreshInv' /\ ApartInv'
    BY <1>2, <2>1 DEF StepInv, FreshInv, ApartInv
  <2>12. QED
    BY <2>8, <2>9, <2>10, <2>11 DEF OwnInv
<1>3. fresh.made \in BOOLEAN
  <2>1. fresh # None
    BY DEF OwnInv, StepInv
  <2>2. QED
    BY <2>1, PagerFields DEF OwnInv, FreshInv, Owns
<1>4. QED
  BY <1>1, <1>2, <1>3

(***************************************************************************)
(* One lemma for each action.                                              *)
(***************************************************************************)
LEMMA InitOwn ==
  ASSUME Init
  PROVE  OwnInv
  BY OwnershipAssumption
     DEF Init, OwnInv, HeapTypes, StepInv, RunningInv, FreshInv, ApartInv, HeapInv

LEMMA LoadOwn ==
  ASSUME OwnInv, NEW ok \in BOOLEAN, Load(ok)
  PROVE  OwnInv'
<1>1. /\ at = "load" /\ pagers < MaxPagers /\ pagers' = pagers + 1
      /\ UNCHANGED <<doubles, dropped, running, images>>
  BY DEF Load
<1>2. pagers \in 0..MaxPagers /\ images \in 0..MaxImages /\ fresh = None
  BY <1>1 DEF OwnInv, HeapTypes, StepInv
<1>3. pagers' \in Generation /\ pagers \in Nat /\ pagers' \in Nat /\ pagers <= pagers'
  BY <1>1, <1>2, OwnershipAssumption
<1>4. images \in images..MaxImages
  BY <1>2, OwnershipAssumption
<1>5. running # None => Owns(running, pagers', images)
  BY <1>2, <1>3, <1>4, OwnsLonger DEF OwnInv, RunningInv
<1>6. CASE ok
  <2> DEFINE new == [gen |-> pagers', conf |-> Conf(pagers'), skin |-> None,
                     made |-> FALSE,
                     src |-> [t \in Item |-> "color"],
                     tx |-> [t \in Item |-> None], root |-> None]
  <2>1. /\ fresh' = new /\ live' = live \union {Conf(pagers')}
        /\ marked' = marked \union {"conf"} /\ at' = "layout"
    BY <1>6 DEF Load
  <2>2. Conf(pagers') \in Object
    BY <1>3 DEF Object
  <2>3. [t \in Item |-> None] \in [Item -> Object \union {None}]
    OBVIOUS
  <2>4. new \in Pager
    BY <1>3, <2>2, <2>3 DEF Pager
  <2>5. new # None
    BY <2>4, NoneAssumption
  <2>6. Owns(new, pagers', images)
    BY <1>3, <2>4 DEF Owns
  <2>7. Needs(new) = {Conf(pagers')}
    BY <2>2, NoneAssumption DEF Needs
  <2>8. Surfaces(new) = {} /\ None \notin Images
    BY NoneAssumption DEF Surfaces, Object
  <2>9. RootsOf(new) = {}
    BY <2>8 DEF RootsOf
  <2>10. running # None => Apart(running, new)
    <3>1. running # None => running.gen <= pagers /\ running.gen \in Generation
      BY PagerFields DEF OwnInv, RunningInv, Owns
    <3>2. running # None => running.gen # pagers'
      BY <1>1, <1>3, <3>1, OwnershipAssumption
    <3>3. QED
      BY <2>9, <3>2 DEF Apart
  <2> HIDE DEF new
  <2>11. HeapTypes'
    BY <1>1, <1>3, <2>1, <2>2 DEF OwnInv, HeapTypes
  <2>12. new.made = FALSE
    BY DEF new
  <2>13. StepInv'
    BY <2>1, <2>5, <2>12 DEF StepInv
  <2>14. RunningInv'
    BY <1>1, <1>5, <2>1 DEF OwnInv, RunningInv
  <2>15. FreshInv' /\ ApartInv'
    BY <1>1, <2>1, <2>6, <2>7, <2>10 DEF FreshInv, ApartInv
  <2>16. HeapInv'
    BY <1>1, <1>2, <2>1, <2>5, <2>7 DEF OwnInv, HeapInv, NeedsOf
  <2>17. QED
    BY <2>11, <2>13, <2>14, <2>15, <2>16 DEF OwnInv
<1>7. CASE ~ok
  <2>1. /\ marked' = marked \ {"conf"} /\ UNCHANGED <<live, fresh>>
        /\ at' = IF running = None THEN "exit" ELSE "loop"
    BY <1>7 DEF Load
  <2>2. HeapTypes'
    BY <1>1, <1>3, <2>1, OwnershipAssumption DEF OwnInv, HeapTypes
  <2>3. StepInv' /\ FreshInv' /\ ApartInv'
    BY <1>1, <1>2, <2>1 DEF StepInv, FreshInv, ApartInv
  <2>4. RunningInv'
    BY <1>1, <1>5, <2>1 DEF OwnInv, RunningInv
  <2>5. HeapInv'
    BY <1>1, <1>2, <2>1 DEF OwnInv, HeapInv, NeedsOf
  <2>6. QED
    BY <2>2, <2>3, <2>4, <2>5 DEF OwnInv
<1>8. QED
  BY <1>6, <1>7

(* The steps that make nothing that is modelled.                           *)
LEMMA PlainOwn ==
  ASSUME OwnInv, NEW ok \in BOOLEAN,
         \/ Layout(ok) \/ Graphics(ok) \/ Hints(ok) \/ Control(ok)
  PROVE  OwnInv'
<1>1. CASE ~ok
  <2>1. GiveUp /\ at \in Steps \ {"load"} /\ UNCHANGED <<running, pagers, images>>
    BY <1>1 DEF Layout, Graphics, Hints, Control, Plain
  <2>2. QED
    BY <2>1, GiveUpOwn
<1>2. CASE ok
  <2>1. /\ UNCHANGED <<heap, marked, running, fresh, pagers, images>>
        /\ \/ at = "layout" /\ at' = "graphics"
           \/ at = "graphics" /\ at' = "skin"
           \/ at = "hints" /\ at' = "control"
           \/ at = "control" /\ at' \in {"swap", "init2"}
    BY <1>2 DEF Layout, Graphics, Hints, Control, Plain
  <2>2. StepInv'
    BY <2>1 DEF OwnInv, StepInv
  <2>3. QED
    BY <2>1, <2>2, SamePagers
<1>3. QED
  BY <1>1, <1>2

(* The surfaces of a skin are new, as are its strings.                     *)
LEMMA NewSkinOwn ==
  ASSUME OwnInv, NEW ok \in BOOLEAN, NewSkin(ok)
  PROVE  OwnInv'
<1>1. at = "skin" /\ UNCHANGED <<running, pagers, images>>
  BY DEF NewSkin
<1>2. /\ fresh # None /\ "conf" \in marked /\ ~fresh.made
      /\ Owns(fresh, pagers, images) /\ Needs(fresh) \subseteq live
  BY <1>1 DEF OwnInv, StepInv, FreshInv
<1>3. CASE ok
  <2>1. PICK src \in [Item -> AnySource] :
          LET g  == fresh.gen
              tx == [t \in Item |-> IF src[t] = "file" THEN File(t, g)
                                    ELSE None]
          IN  /\ \A t \in Item : src[t] \in Sources(t)
              /\ fresh' = [fresh EXCEPT !.skin = Skin(g), !.src = src,
                                        !.tx = tx, !.made = TRUE]
              /\ live' = live \union {Skin(g)}
                              \union ({tx[t] : t \in Item} \ {None})
              /\ marked' = marked \union {"skin"}
              /\ at' = "init"
              /\ UNCHANGED <<doubles, dropped>>
    BY <1>3 DEF NewSkin
  <2> DEFINE g == fresh.gen
             tx == [t \in Item |-> IF src[t] = "file" THEN File(t, g)
                                   ELSE None]
             files == {tx[t] : t \in Item} \ {None}
  <2>2. /\ live' = live \union {Skin(g)} \union files
        /\ marked' = marked \union {"skin"} /\ at' = "init"
        /\ UNCHANGED <<doubles, dropped>>
    BY <2>1
  <2>3. g \in Generation /\ Skin(g) \in Object
    BY <1>2, PagerFields DEF Owns, Object
  <2>4. tx \in [Item -> Object \union {None}] /\ files \subseteq Object
    BY <2>3, ObjectsOf
  <2>5. \A t \in Item : tx[t] = IF src[t] = "file" THEN File(t, g) ELSE None
    OBVIOUS
  <2>6. fresh' = [fresh EXCEPT !.skin = Skin(g), !.src = src,
                               !.tx = tx, !.made = TRUE]
    BY <2>1
  <2> HIDE DEF tx
  <2>7. /\ fresh'.gen = g /\ fresh'.conf = fresh.conf /\ fresh'.root = fresh.root
        /\ fresh'.skin = Skin(g) /\ fresh'.src = src /\ fresh'.tx = tx
        /\ fresh'.made = TRUE
    BY <1>2, <2>6 DEF Owns, Pager
  <2>8. \A b \in BOOLEAN : [fresh EXCEPT !.skin = Skin(g), !.src = src,
                                         !.tx = tx, !.made = b] \in Pager
    BY <1>2, <2>3, <2>4 DEF Owns, Pager
  <2>9. fresh' \in Pager /\ fresh' # None
    BY <2>6, <2>8, NoneAssumption
  <2>10. Owns(fresh', pagers, images)
    <3>1. fresh'.root \in Read(images) \union {None}
      BY <1>2, <2>7 DEF Owns
    <3>2. fresh'.conf = Conf(fresh'.gen) /\ fresh'.gen <= pagers
      BY <1>2, <2>7 DEF Owns
    <3>3. \A t \in Item :
            \/ fresh'.src[t] = "file" /\ fresh'.tx[t] = File(t, fresh'.gen)
            \/ fresh'.src[t] # "file" /\ fresh'.tx[t] = None
      BY <2>5, <2>7
    <3>4. \A t \in Item : fresh'.src[t] \in Sources(t)
      BY <2>1, <2>7
    <3>5. QED
      BY <2>7, <2>9, <3>1, <3>2, <3>3, <3>4 DEF Owns
  <2>11. Needs(fresh') \subseteq live'
    <3>1. fresh'.conf \in live \union {None} /\ fresh'.root \in live \union {None}
      BY <1>2, <2>7 DEF Needs
    <3>2. \A t \in Item : src[t] = "file" => File(t, g) \in files
      BY <2>3, <2>5, ObjectsOf, NoneAssumption
    <3>3. QED
      BY <2>2, <2>7, <3>1, <3>2 DEF Needs
  <2>12. live' \subseteq live \union Needs(fresh') /\ Needs(fresh) \subseteq Needs(fresh')
    <3>1. files \subseteq Needs(fresh')
      BY <2>5, <2>7 DEF Needs
    <3>2. Skin(g) \in Needs(fresh')
      BY <2>3, <2>7, NoneAssumption DEF Needs
    <3>3. fresh.skin = None /\ fresh.made = FALSE
      BY <1>2, PagerFields DEF Owns
    <3>4. Needs(fresh) \subseteq Needs(fresh')
      BY <2>7, <3>3 DEF Needs
    <3>5. QED
      BY <2>2, <3>1, <3>2, <3>4
  <2>13. HeapTypes'
    BY <1>1, <2>2, <2>3, <2>4 DEF OwnInv, HeapTypes
  <2>14. StepInv'
    BY <1>2, <2>2, <2>7, <2>9 DEF StepInv
  <2>15. RunningInv' /\ FreshInv'
    BY <1>1, <2>2, <2>10, <2>11 DEF OwnInv, RunningInv, FreshInv
  <2>16. ApartInv'
    <3>1. RootsOf(fresh') \subseteq RootsOf(fresh)
      <4>1. \A t \in Item : tx[t] \notin Images
        BY <2>5, Kinds, NoneAssumption DEF Images, Object
      <4>2. QED
        BY <2>7, <4>1 DEF RootsOf, Surfaces
    <3>2. QED
      BY <1>1, <1>2, <2>7, <3>1 DEF OwnInv, ApartInv, Apart
  <2>17. HeapInv'
    <3>1. live \subseteq NeedsOf(running) \union Needs(fresh) \union dropped
      BY <1>1, <1>2 DEF OwnInv, HeapInv, NeedsOf
    <3>2. live' \subseteq NeedsOf(running) \union Needs(fresh') \union dropped
      BY <2>12, <3>1
    <3>3. QED
      BY <1>1, <2>2, <2>9, <3>2 DEF HeapInv, NeedsOf
  <2>18. QED
    BY <2>13, <2>14, <2>15, <2>16, <2>17 DEF OwnInv
<1>4. CASE ~ok
  <2>1. /\ marked' = marked \ {"skin"} /\ at' \in {"exit", "crashed"}
        /\ UNCHANGED <<heap, fresh>>
    BY <1>4 DEF NewSkin
  <2>2. HeapTypes'
    BY <1>1, <2>1 DEF OwnInv, HeapTypes
  <2>3. StepInv' /\ HeapInv'
    BY <2>1 DEF StepInv, HeapInv
  <2>4. RunningInv' /\ FreshInv' /\ ApartInv'
    BY <1>1, <2>1 DEF OwnInv, RunningInv, FreshInv, ApartInv
  <2>5. QED
    BY <2>2, <2>3, <2>4 DEF OwnInv
<1>5. QED
  BY <1>3, <1>4

(* A pager reads the image of the root window and draws; the other one, if *)
(* there is one, is left alone.                                            *)
LEMMA ReadAndDraw ==
  ASSUME HeapTypes, NEW p, Owns(p, pagers, images), p.made,
         Needs(p) \subseteq live, NEW o \in Outcomes, ReadRoot(p, o),
         NEW q, q \in Drawings(Reread(p, o)) \union {Reread(p, o)}
  PROVE  /\ images' \in 0..MaxImages
         /\ live' \subseteq Object /\ doubles' = doubles /\ dropped' \subseteq Images
         /\ Owns(q, pagers, images') /\ q.made /\ q # None
         /\ Needs(q) \subseteq live'
         /\ live' \subseteq (live \ Needs(p)) \union Needs(q) \union dropped'
         /\ dropped \subseteq dropped'
         /\ \A r : Owns(r, pagers, images) /\ Apart(p, r) /\ Needs(r) \subseteq live
                     => /\ Owns(r, pagers, images') /\ Apart(q, r)
                        /\ Needs(r) \subseteq live'
<1>1. /\ images \in 0..MaxImages /\ live \subseteq Object
      /\ doubles \subseteq Object /\ dropped \subseteq Images
      /\ pagers \in Nat
  BY OwnershipAssumption DEF HeapTypes
<1> DEFINE read == Reread(p, o)
<1>2. /\ images' \in images..MaxImages
      /\ live' \subseteq Object /\ doubles' = doubles /\ dropped' \subseteq Images
      /\ Owns(read, pagers, images') /\ read.made /\ read.gen = p.gen
      /\ Needs(read) \subseteq live'
      /\ live' \subseteq (live \ Needs(p)) \union Needs(read) \union dropped'
      /\ dropped \subseteq dropped'
      /\ live \ {p.root} \subseteq live'
      /\ RootsOf(read) \subseteq RootsOf(p) \union (Images \ Read(images))
  BY <1>1, Reading
<1> HIDE DEF read
<1>3. images' \in 0..MaxImages
  BY <1>1, <1>2, OwnershipAssumption
<1>4. /\ Owns(q, pagers, images') /\ q.made /\ q.gen = read.gen
      /\ Needs(q) = Needs(read) /\ RootsOf(q) \subseteq RootsOf(read)
  <2>1. CASE q = read
    BY <1>2, <2>1
  <2>2. CASE q \in Drawings(read)
    BY <1>2, <1>3, <2>2, Drawn
  <2>3. QED
    BY <2>1, <2>2 DEF read
<1>5. ASSUME NEW r, Owns(r, pagers, images), Apart(p, r), Needs(r) \subseteq live
      PROVE  /\ Owns(r, pagers, images') /\ Apart(q, r)
             /\ Needs(r) \subseteq live'
  <2>1. Owns(r, pagers, images')
    BY <1>1, <1>2, <1>5, OwnsLonger
  <2>2. /\ q.gen = p.gen
        /\ RootsOf(q) \subseteq RootsOf(p) \union (Images \ Read(images))
    BY <1>2, <1>4
  <2>3. p.root \notin Needs(r) \ {None} /\ Apart(q, r)
    BY <1>1, <1>5, <2>2, ReadingApart
  <2>4. None \notin Needs(r)
    BY <1>1, <1>5, NoneAssumption
  <2>5. QED
    BY <1>2, <1>5, <2>1, <2>3, <2>4
<1>6. q # None
  BY <1>4, NoneAssumption DEF Owns
<1>7. QED
  BY <1>2, <1>3, <1>4, <1>5, <1>6

LEMMA EventInitOwn ==
  ASSUME OwnInv, InitEvents \/ InitEvents2
  PROVE  OwnInv'
<1>1. PICK next \in {"hints", "swap"} :
        EventInit("init", next) \/ EventInit("init2", next)
  BY DEF InitEvents, InitEvents2
<1>2. at \in {"init", "init2"} /\ UNCHANGED <<marked, running, pagers>>
  BY <1>1 DEF EventInit
<1>3. /\ fresh # None /\ fresh.made /\ "conf" \in marked /\ "skin" \in marked
      /\ Owns(fresh, pagers, images) /\ Needs(fresh) \subseteq live
  BY <1>2 DEF OwnInv, StepInv, FreshInv
<1>4. PICK o \in Outcomes :
        /\ ReadRoot(fresh, o) /\ at' \in {next, "failed"}
        /\ fresh' \in Drawings(Reread(fresh, o)) \union {Reread(fresh, o)}
  BY <1>1 DEF EventInit
<1>5. OwnInv'
  <2>1. /\ images' \in 0..MaxImages
        /\ live' \subseteq Object /\ doubles' = doubles /\ dropped' \subseteq Images
        /\ Owns(fresh', pagers, images') /\ fresh'.made /\ fresh' # None
        /\ Needs(fresh') \subseteq live'
        /\ live' \subseteq (live \ Needs(fresh)) \union Needs(fresh') \union dropped'
        /\ dropped \subseteq dropped'
        /\ \A r : Owns(r, pagers, images) /\ Apart(fresh, r) /\ Needs(r) \subseteq live
                    => /\ Owns(r, pagers, images') /\ Apart(fresh', r)
                       /\ Needs(r) \subseteq live'
    BY <1>3, <1>4, ReadAndDraw DEF OwnInv
  <2>2. HeapTypes'
    BY <1>2, <1>4, <2>1 DEF OwnInv, HeapTypes
  <2>3. StepInv'
    BY <1>2, <1>3, <1>4, <2>1 DEF StepInv
  <2>4. FreshInv'
    BY <1>2, <2>1 DEF FreshInv
  <2>5. RunningInv' /\ ApartInv'
    <3>1. running # None => /\ Owns(running, pagers, images) /\ running.made
                            /\ Needs(running) \subseteq live
                            /\ Apart(fresh, running)
      BY <1>3 DEF OwnInv, RunningInv, ApartInv, Apart
    <3>2. QED
      BY <1>2, <2>1, <3>1 DEF RunningInv, ApartInv, Apart
  <2>6. HeapInv'
    <3>1. live \subseteq NeedsOf(running) \union Needs(fresh) \union dropped
      BY <1>2, <1>3 DEF OwnInv, HeapInv, NeedsOf
    <3>2. live' \subseteq NeedsOf(running) \union Needs(fresh') \union dropped'
      BY <2>1, <3>1
    <3>3. QED
      BY <1>2, <2>1, <3>2 DEF HeapInv, NeedsOf
  <2>7. QED
    BY <2>2, <2>3, <2>4, <2>5, <2>6 DEF OwnInv
<1>6. QED
  BY <1>5

LEMMA InitFailedOwn ==
  ASSUME OwnInv, InitFailed
  PROVE  OwnInv'
<1>1. GiveUp /\ at = "failed" /\ UNCHANGED <<running, pagers, images>>
  BY DEF InitFailed
<1>2. QED
  BY <1>1, GiveUpOwn

(* The old pager takes nothing of the new one with it.                     *)
LEMMA SwapOwn ==
  ASSUME OwnInv, Swap
  PROVE  OwnInv'
<1>1. /\ at = "swap" /\ running' = fresh /\ fresh' = None /\ at' = "loop"
      /\ UNCHANGED <<dropped, pagers, images>>
  BY DEF Swap
<1>2. /\ fresh # None /\ fresh.made /\ "conf" \in marked /\ "skin" \in marked
      /\ Owns(fresh, pagers, images) /\ Needs(fresh) \subseteq live
      /\ live \subseteq NeedsOf(running) \union Needs(fresh) \union dropped
      /\ images \in 0..MaxImages
  BY <1>1 DEF OwnInv, HeapTypes, StepInv, FreshInv, HeapInv, NeedsOf
<1>3. StepInv' /\ FreshInv' /\ ApartInv'
  BY <1>1, <1>2 DEF StepInv, FreshInv, ApartInv
<1>4. CASE running = None
  <2>1. UNCHANGED <<heap, marked>>
    BY <1>4 DEF Swap
  <2>2. QED
    BY <1>1, <1>2, <1>3, <1>4, <2>1
       DEF OwnInv, HeapTypes, RunningInv, HeapInv, NeedsOf
<1>5. CASE running # None
  <2>1. Delete(running)
    BY <1>5 DEF Swap
  <2>2. /\ Owns(running, pagers, images) /\ running.made
        /\ Apart(running, fresh)
    BY <1>2, <1>5 DEF OwnInv, RunningInv, ApartInv
  <2>3. /\ live' = live \ Frees(running, marked) /\ marked' = {}
        /\ doubles' \subseteq doubles \union Frees(running, marked)
    BY <2>1, Deleting
  <2>4. Needs(running) \subseteq Frees(running, marked)
    BY <1>2, <2>2, FreesAll
  <2>5. Needs(fresh) \intersect Frees(running, marked) = {}
    BY <1>2, <2>2, FreesApart
  <2>6. Frees(running, marked) \subseteq Object
    BY <2>2, FreesObjects DEF Owns
  <2>7. HeapTypes'
    BY <1>1, <2>3, <2>6 DEF OwnInv, HeapTypes
  <2>8. RunningInv'
    BY <1>1, <1>2, <2>3, <2>5 DEF RunningInv
  <2>9. HeapInv'
    <3>1. live' \subseteq Needs(fresh) \union dropped
      BY <1>2, <1>5, <2>3, <2>4 DEF NeedsOf
    <3>2. QED
      BY <1>1, <1>2, <3>1 DEF HeapInv, NeedsOf
  <2>10. QED
    BY <1>3, <2>7, <2>8, <2>9 DEF OwnInv
<1>6. QED
  BY <1>4, <1>5

LEMMA RootChangesOwn ==
  ASSUME OwnInv, RootChanges
  PROVE  OwnInv'
<1>1. at = "loop" /\ UNCHANGED <<marked, fresh, at, pagers>>
  BY DEF RootChanges
<1>2. /\ running # None /\ fresh = None /\ running.made
      /\ Owns(running, pagers, images) /\ Needs(running) \subseteq live
      /\ live \subseteq Needs(running) \union dropped
  BY <1>1 DEF OwnInv, StepInv, RunningInv, HeapInv, NeedsOf
<1>3. PICK o \in Outcomes :
        /\ ReadRoot(running, o)
        /\ running' \in Drawings(Reread(running, o)) \union {Reread(running, o)}
  BY DEF RootChanges
<1>4. /\ images' \in 0..MaxImages
      /\ live' \subseteq Object /\ doubles' = doubles /\ dropped' \subseteq Images
      /\ Owns(running', pagers, images') /\ running'.made /\ running' # None
      /\ Needs(running') \subseteq live'
      /\ live' \subseteq (live \ Needs(running)) \union Needs(running') \union dropped'
      /\ dropped \subseteq dropped'
  BY <1>2, <1>3, ReadAndDraw DEF OwnInv
<1>5. HeapTypes'
  BY <1>1, <1>4 DEF OwnInv, HeapTypes
<1>6. StepInv' /\ FreshInv' /\ ApartInv'
  BY <1>1, <1>2, <1>4 DEF StepInv, FreshInv, ApartInv
<1>7. RunningInv' /\ HeapInv'
  <2>1. live' \subseteq Needs(running') \union dropped'
    BY <1>2, <1>4
  <2>2. QED
    BY <1>1, <1>4, <2>1 DEF RunningInv, HeapInv, NeedsOf
<1>8. QED
  BY <1>5, <1>6, <1>7 DEF OwnInv

LEMMA RedrawOwn ==
  ASSUME OwnInv, Redraw
  PROVE  OwnInv'
<1>1. /\ at = "loop" /\ UNCHANGED <<heap, marked, fresh, at, pagers, images>>
      /\ images \in 0..MaxImages
  BY DEF Redraw, OwnInv, HeapTypes
<1>2. /\ running # None /\ fresh = None /\ running.made
      /\ Owns(running, pagers, images) /\ Needs(running) \subseteq live
  BY <1>1 DEF OwnInv, StepInv, RunningInv
<1>3. PICK ts \in SUBSET Texture : running' = DrawDesktops(running, ts)
  BY DEF Redraw, Drawings
<1>4. /\ Owns(running', pagers, images) /\ running'.made
      /\ Needs(running') = Needs(running)
  BY <1>1, <1>2, <1>3, Drawing
<1>5. running' # None
  BY <1>4, NoneAssumption DEF Owns
<1>6. QED
  BY <1>1, <1>2, <1>4, <1>5
     DEF OwnInv, HeapTypes, StepInv, RunningInv, FreshInv, ApartInv, HeapInv,
         NeedsOf

LEMMA ReloadOwn ==
  ASSUME OwnInv, Reload
  PROVE  OwnInv'
<1>1. /\ at = "loop" /\ at' = "load"
      /\ UNCHANGED <<heap, marked, running, fresh, pagers, images>>
  BY DEF Reload
<1>2. StepInv'
  BY <1>1 DEF OwnInv, StepInv
<1>3. QED
  BY <1>1, <1>2, SamePagers

LEMMA QuitOwn ==
  ASSUME OwnInv, Quit
  PROVE  OwnInv'
<1>1. /\ at = "loop" /\ Delete(running) /\ at' = "exit" /\ running' = None
      /\ UNCHANGED <<dropped, fresh, pagers, images>>
  BY DEF Quit
<1>2. running # None /\ fresh = None /\ Owns(running, pagers, images)
  BY <1>1 DEF OwnInv, StepInv, RunningInv
<1>3. /\ live' = live \ Frees(running, marked) /\ marked' = {}
      /\ doubles' \subseteq doubles \union Frees(running, marked)
  BY <1>1, Deleting
<1>4. Frees(running, marked) \subseteq Object
  BY <1>2, FreesObjects DEF Owns
<1>5. HeapTypes'
  BY <1>1, <1>3, <1>4 DEF OwnInv, HeapTypes
<1>6. QED
  BY <1>1, <1>2, <1>5
     DEF OwnInv, StepInv, RunningInv, FreshInv, ApartInv, HeapInv

(* Every step keeps the invariant.                                         *)
LEMMA NextOwn ==
  ASSUME OwnInv, [Next]_vars
  PROVE  OwnInv'
<1>1. ASSUME NEW ok \in BOOLEAN, Making(ok)
      PROVE  OwnInv'
  BY <1>1, LoadOwn, PlainOwn, NewSkinOwn DEF Making
<1>2. CASE UNCHANGED vars
  BY <1>2 DEF OwnInv, HeapTypes, StepInv, RunningInv, FreshInv, ApartInv, HeapInv
<1>3. QED
  BY <1>1, <1>2, EventInitOwn, InitFailedOwn, SwapOwn, RootChangesOwn,
     RedrawOwn, ReloadOwn, QuitOwn DEF Next

(***************************************************************************)
(* Nothing is freed twice when no skin uses the image of the root window.  *)
(***************************************************************************)

(* Deleting a pager frees what is allocated, and each of it once.          *)
LEMMA DeletesOnce ==
  ASSUME ":root:" \notin Source, NEW p, Owns(p, pagers, images),
         images \in 0..MaxImages, Needs(p) \subseteq live, Delete(p)
  PROVE  doubles' = doubles
<1>1. Frees(p, marked) \subseteq live
  BY FreesOwn
<1>2. p.made => \A t \in Texture : p.src[t] \in Source
  BY OwnershipAssumption DEF Owns, Sources
<1>3. \A t \in Item : p.tx[t] = None \/ p.tx[t] = File(t, p.gen)
  BY <1>2 DEF Owns
<1>4. p.root = None \/ \E i : p.root = Root(i)
  BY DEF Owns, Read
<1>5. ({p.root} \intersect Surfaces(p)) \ {None} = {}
  BY <1>3, <1>4, Kinds DEF Surfaces
<1>6. {o \in Surfaces(p) :
         \E t, u \in Item : t # u /\ p.tx[t] = o /\ p.tx[u] = o} = {}
  BY <1>3, Kinds DEF Surfaces
<1>7. (({p.root} \ {None}) \union Surfaces(p) \union Strings(p)) \ live = {}
  BY <1>1 DEF Frees, Strings
<1>8. QED
  BY <1>5, <1>6, <1>7 DEF Delete

(* No step frees anything twice.                                           *)
LEMMA NextOnce ==
  ASSUME ":root:" \notin Source, OwnInv, [Next]_vars
  PROVE  doubles' = doubles
<1>1. /\ images \in 0..MaxImages
      /\ running # None => /\ Owns(running, pagers, images) /\ running.made
                           /\ Needs(running) \subseteq live
      /\ fresh # None => /\ Owns(fresh, pagers, images)
                         /\ Needs(fresh) \subseteq live
  BY DEF OwnInv, HeapTypes, RunningInv, FreshInv
<1>2. ASSUME GiveUp, at \in Steps \ {"load"}
      PROVE  doubles' = doubles
  <2>1. fresh # None
    BY <1>2 DEF OwnInv, StepInv
  <2>2. CASE Delete(fresh)
    BY <1>1, <2>1, <2>2, DeletesOnce
  <2>3. CASE UNCHANGED heap
    BY <2>3
  <2>4. QED
    BY <1>2, <2>2, <2>3 DEF GiveUp
<1>3. ASSUME NEW p, NEW o \in Outcomes, ReadRoot(p, o), Needs(p) \subseteq live
      PROVE  doubles' = doubles
  <2>1. p.root \in live \union {None}
    BY <1>3 DEF Needs
  <2>2. QED
    BY <1>3, <2>1 DEF ReadRoot
<1>4. ASSUME NEW ok \in BOOLEAN, Making(ok)
      PROVE  doubles' = doubles
  <2>1. CASE Load(ok) \/ NewSkin(ok)
    BY <2>1 DEF Load, NewSkin
  <2>2. CASE Layout(ok) \/ Graphics(ok) \/ Hints(ok) \/ Control(ok)
    <3>1. UNCHANGED heap \/ (GiveUp /\ at \in Steps \ {"load"})
      BY <2>2 DEF Layout, Graphics, Hints, Control, Plain
    <3>2. QED
      BY <1>2, <3>1
  <2>3. QED
    BY <1>4, <2>1, <2>2 DEF Making
<1>5. CASE Swap
  <2>1. UNCHANGED heap \/ (running # None /\ Delete(running))
    BY <1>5 DEF Swap
  <2>2. QED
    BY <1>1, <2>1, DeletesOnce
<1>6. CASE Quit
  <2>1. running # None /\ Delete(running)
    BY <1>6 DEF Quit, OwnInv, StepInv
  <2>2. QED
    BY <1>1, <2>1, DeletesOnce
<1>7. CASE RootChanges
  <2>1. Needs(running) \subseteq live /\ \E o \in Outcomes : ReadRoot(running, o)
    BY <1>1, <1>7 DEF RootChanges, OwnInv, StepInv
  <2>2. QED
    BY <1>3, <2>1
<1>8. CASE InitEvents \/ InitEvents2
  <2>1. at \in {"init", "init2"} /\ \E o \in Outcomes : ReadRoot(fresh, o)
    BY <1>8 DEF InitEvents, InitEvents2, EventInit
  <2>2. Needs(fresh) \subseteq live
    BY <1>1, <2>1 DEF OwnInv, StepInv
  <2>3. QED
    BY <1>3, <2>1, <2>2
<1>9. CASE InitFailed
  BY <1>2, <1>9 DEF InitFailed
<1>10. CASE Redraw \/ Reload \/ UNCHANGED vars
  BY <1>10 DEF Redraw, Reload
<1>11. QED
  BY <1>4, <1>5, <1>6, <1>7, <1>8, <1>9, <1>10 DEF Next

(***************************************************************************)
(* The theorems.                                                           *)
(***************************************************************************)

(* Who owns what, at every step of a reload and in the event loop.         *)
THEOREM OwnershipInvariant == Spec => []OwnInv
<1>1. Init => OwnInv
  BY InitOwn
<1>2. OwnInv /\ [Next]_vars => OwnInv'
  BY NextOwn
<1>3. QED
  BY <1>1, <1>2, PTL DEF Spec

(* rie_pager_delete() of either pager leaves all that the pager of the     *)
(* event loop needs, though the marks are shared, whatever skins use as    *)
(* backgrounds and however reloads end.                                    *)
THEOREM ReloadKeepsWhatRuns == Spec => []RunningKeepsItsOwn
<1>1. OwnInv => RunningKeepsItsOwn
  BY DEF OwnInv, RunningInv, RunningKeepsItsOwn
<1>2. QED
  BY <1>1, OwnershipInvariant, PTL

(* Whenever rieman waits for events, the reference of the maker has been   *)
(* given back for all that is not the running pager's but the images it    *)
(* lost to errors, however reloads ended and whatever skins use.           *)
THEOREM ReloadReleases == Spec => []MakersReleased
<1>1. OwnInv => MakersReleased
  BY DEF OwnInv, StepInv, HeapInv, NeedsOf, MakersReleased
<1>2. QED
  BY <1>1, OwnershipInvariant, PTL

(* As long as no skin uses the image of the root window as a background,   *)
(* nothing is freed twice.                                                 *)
THEOREM FreedOnce ==
  ASSUME ":root:" \notin Source
  PROVE  Spec => []NothingFreedTwice
<1>1. Init => NothingFreedTwice
  BY DEF Init, NothingFreedTwice
<1>2. NothingFreedTwice /\ OwnInv /\ [Next]_vars => NothingFreedTwice'
  BY NextOnce DEF NothingFreedTwice
<1>3. QED
  BY <1>1, <1>2, OwnershipInvariant, PTL DEF Spec
===============================================================================
